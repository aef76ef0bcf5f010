--------------------------- MODULE LibusbIoProofs ---------------------------
(***************************************************************************)
(* What the event handling of libusb guarantees for any number of threads, *)
(* timeouts, submissions that fail and hotplug messages: the event pipe    *)
(* tells the truth, no handle is polled that is closed, and no transfer is *)
(* touched after its owner may free it.                                    *)
(***************************************************************************)
EXTENDS LibusbIo, SequenceTheorems, FiniteSetTheorems, TLAPS

(* Where a thread is: before its transfer has been given to the kernel; in *)
(* a submission, with its transfer's lock; in handle_timeouts, with the    *)
(* lock of the list; and with the events lock, to poll, to complete a      *)
(* transfer or to close.                                                   *)
Unsubmitted == {"open", "submit", "submitting", "failing"}
Submitting == {"submitting", "submitted", "failing"}
InTimeout == {"mark", "cancel", "timed out"}
Scanning == {"scan"} \cup InTimeout
Completing == {"completed", "timeout", "cancelled"}
Polling == {"poll", "repoll", "reap"} \cup Completing
Closing == {"close lock", "close fd", "close end"}
Handling == {"refresh", "unlock", "close fd", "close end", "close unlock"} \cup Polling

Labels == Unsubmitted \cup Submitting \cup Scanning \cup Handling \cup Closing
            \cup {"timeouts", "loop", "try", "wait", "check", "waiting",
                  "broadcast", "close", "closed", "done"}

(* TypeOK but for the list and closing, and what TypeOK leaves out.        *)
Types ==
    /\ pc \in [Threads -> Labels]
    /\ at \in [Threads -> Threads \cup {NoOne}]
    /\ until \in [Threads -> Timed \cup {NoOne}]
    /\ seen \in [Threads -> SUBSET AllFlags]
    /\ flyLock \in Threads \cup {NoOne}
    /\ lock \in [Threads -> Threads \cup {NoOne}]
    /\ flags \in [Threads -> SUBSET AllFlags]
    /\ urb \in [Threads -> {"none", "pending", "done", "killed"}]
    /\ status \in [Threads -> {"none", "refused"} \cup Completing]
    /\ events \in Threads \cup {NoOne} /\ waiters \in Threads \cup {NoOne}
    /\ ipollfds \subseteq Threads /\ pollfds \subseteq Threads
    /\ messages \in Nat /\ modified \in BOOLEAN

(* Each transfer is on the list at most once, those with a timeout first.  *)
Distinct(s) == \A i, j \in 1 .. Len(s) : s[i] = s[j] => i = j
TimedFirst(s) ==
    \A i, j \in 1 .. Len(s) : i < j /\ s[j] \in Timed => s[i] \in Timed
Sorted == flying \in Seq(Threads) /\ Distinct(flying) /\ TimedFirst(flying)

(* Who holds which lock.                                                   *)
Locked ==
    \A t \in Threads :
        /\ pc[t] \in Handling => events = t
        /\ pc[t] \in Scanning => flyLock = t
        /\ pc[t] \in Submitting => lock[t] = t

(* The list holds the transfers that are submitted and not complete.       *)
Listed ==
    \A t \in Threads :
        t \in ToSet(flying) <=> pc[t] \notin {"open", "submit"} /\ ~Complete(t)

(* A transfer has a URB, or is being completed, only between the end of    *)
(* its submission and its completion.                                      *)
Progress ==
    \A t \in Threads :
        /\ pc[t] \in Unsubmitted => urb[t] = "none"
        /\ pc[t] \in Unsubmitted \cup Submitting \/ urb[t] # "none" => ~Complete(t)

(* A thread has a transfer in its hands while it times it out or completes *)
(* it; then it is on the list, and its submission is over if it completes. *)
Holds(t) ==
    IF at[t] = NoOne THEN pc[t] \notin InTimeout \cup Completing
    ELSE /\ pc[t] \in InTimeout \cup Completing
         /\ at[t] \in ToSet(flying)
         /\ pc[t] \in Completing =>
              /\ urb[at[t]] = "none"
              /\ pc[at[t]] \notin Unsubmitted \cup Submitting
InHands == \A t \in Threads : Holds(t)

(* pollfds_modified is set while the copy that is polled differs, and the  *)
(* thread that polls has a copy without the handles that are closed.       *)
Copied ==
    /\ ~modified => pollfds = ipollfds
    /\ \A t \in Threads : pc[t] \in Polling => pollfds \subseteq ipollfds

(* ctx->device_close counts the threads in libusb_close.                   *)
Counted == closing = Cardinality({t \in Threads : pc[t] \in Closing})

Inv == /\ Types /\ Sorted /\ Locked /\ Listed /\ Progress /\ InHands /\ Copied
       /\ Counted /\ PipeMatches

USE DEF Go, Complete, Pending, PendingEvents

---------------------------------------------------------------------------
(* The list.                                                               *)

(* Without the element at one place.                                       *)
LEMMA RemoveAtElements ==
    ASSUME NEW S, NEW s \in Seq(S), NEW i \in 1 .. Len(s)
    PROVE  /\ RemoveAt(s, i) \in Seq(S)
           /\ Len(RemoveAt(s, i)) = Len(s) - 1
           /\ \A k \in 1 .. Len(s) - 1 :
                RemoveAt(s, i)[k] = IF k < i THEN s[k] ELSE s[k + 1]
<1> DEFINE front == SubSeq(s, 1, i - 1)
           back == SubSeq(s, i + 1, Len(s))
<1>1. /\ front \in Seq(S) /\ Len(front) = i - 1
      /\ \A k \in 1 .. i - 1 : front[k] = s[k]
  BY SubSeqProperties, LenProperties
<1>2. /\ back \in Seq(S) /\ Len(back) = Len(s) - i
      /\ \A k \in 1 .. Len(s) - i : back[k] = s[i + k]
  BY SubSeqProperties, LenProperties
<1> HIDE DEF front, back
<1>3. /\ front \o back \in Seq(S)
      /\ Len(front \o back) = Len(front) + Len(back)
      /\ \A k \in 1 .. Len(front) + Len(back) :
           (front \o back)[k] = IF k <= Len(front) THEN front[k]
                                ELSE back[k - Len(front)]
  BY <1>1, <1>2, ConcatProperties
<1>4. RemoveAt(s, i) = front \o back
  BY DEF RemoveAt, front, back
<1>5. Len(front \o back) = Len(s) - 1
  BY <1>1, <1>2, <1>3, LenProperties
<1>6. ASSUME NEW k \in 1 .. Len(s) - 1
      PROVE  (front \o back)[k] = IF k < i THEN s[k] ELSE s[k + 1]
  <2>1. CASE k < i
    BY <1>1, <1>2, <1>3, <2>1, LenProperties
  <2>2. CASE ~(k < i)
    <3>1. (front \o back)[k] = back[k - (i - 1)]
      BY <1>1, <1>2, <1>3, <2>2, LenProperties
    <3>2. k - (i - 1) \in 1 .. Len(s) - i
      BY <2>2, LenProperties
    <3>3. back[k - (i - 1)] = s[i + (k - (i - 1))]
      BY <1>2, <3>2
    <3> QED
      BY <2>2, <3>1, <3>3
  <2> QED
    BY <2>1, <2>2
<1> QED
  BY <1>3, <1>4, <1>5, <1>6

LEMMA InsertAtElements ==
    ASSUME NEW S, NEW s \in Seq(S), NEW i \in 1 .. Len(s) + 1, NEW e \in S
    PROVE  /\ InsertAt(s, i, e) \in Seq(S)
           /\ Len(InsertAt(s, i, e)) = Len(s) + 1
           /\ \A k \in 1 .. Len(s) + 1 :
                InsertAt(s, i, e)[k] =
                  IF k < i THEN s[k] ELSE IF k = i THEN e ELSE s[k - 1]
<1> DEFINE front == SubSeq(s, 1, i - 1)
           back == SubSeq(s, i, Len(s))
<1>1. /\ front \in Seq(S) /\ Len(front) = i - 1
      /\ \A k \in 1 .. i - 1 : front[k] = s[k]
  BY SubSeqProperties, LenProperties
<1>2. /\ back \in Seq(S) /\ Len(back) = Len(s) - i + 1
      /\ \A k \in 1 .. Len(s) - i + 1 : back[k] = s[i + k - 1]
  BY SubSeqProperties, LenProperties
<1> HIDE DEF front, back
<1>3. /\ front \o <<e>> \in Seq(S) /\ Len(front \o <<e>>) = i
      /\ \A k \in 1 .. i : (front \o <<e>>)[k] = IF k < i THEN front[k] ELSE e
  BY <1>1, ConcatProperties, LenProperties
<1> DEFINE most == front \o <<e>>
<1> HIDE DEF most
<1>4. /\ most \o back \in Seq(S) /\ Len(most \o back) = Len(s) + 1
      /\ \A k \in 1 .. Len(s) + 1 :
           (most \o back)[k] = IF k <= i THEN most[k] ELSE back[k - i]
  BY <1>2, <1>3, ConcatProperties, LenProperties DEF most
<1>5. InsertAt(s, i, e) = most \o back
  BY DEF InsertAt, front, back, most
<1>6. \A k \in 1 .. i : most[k] = IF k < i THEN s[k] ELSE e
  BY <1>1, <1>3 DEF most
<1>7. ASSUME NEW k \in 1 .. Len(s) + 1, k > i
      PROVE  (most \o back)[k] = s[k - 1]
  <2>1. (most \o back)[k] = back[k - i] /\ k - i \in 1 .. Len(s) - i + 1
    BY <1>4, <1>7, LenProperties
  <2> QED
    BY <1>2, <2>1, LenProperties
<1> QED
  BY <1>4, <1>5, <1>6, <1>7, LenProperties

LEMMA RemoveElement ==
    ASSUME NEW S, NEW s \in Seq(S), NEW i \in 1 .. Len(s), Distinct(s)
    PROVE  /\ RemoveAt(s, i) \in Seq(S) /\ Distinct(RemoveAt(s, i))
           /\ TimedFirst(s) => TimedFirst(RemoveAt(s, i))
           /\ ToSet(RemoveAt(s, i)) = ToSet(s) \ {s[i]}
<1> DEFINE r == RemoveAt(s, i)
<1> HIDE DEF r
<1>1. /\ r \in Seq(S) /\ Len(r) = Len(s) - 1
      /\ \A k \in 1 .. Len(s) - 1 : r[k] = IF k < i THEN s[k] ELSE s[k + 1]
  BY RemoveAtElements DEF r
<1>2. Distinct(r)
  BY <1>1, LenProperties DEF Distinct
<1>3. TimedFirst(s) => TimedFirst(r)
  BY <1>1, LenProperties DEF TimedFirst
<1>4. ASSUME NEW x \in ToSet(r) PROVE x \in ToSet(s) \ {s[i]}
  <2>1. PICK k \in 1 .. Len(s) - 1 : x = r[k]
    BY <1>1, LenProperties DEF ToSet
  <2>2. x = IF k < i THEN s[k] ELSE s[k + 1]
    BY <1>1, <2>1
  <2> QED
    BY <2>1, <2>2, LenProperties DEF ToSet, Distinct
<1>5. ASSUME NEW x \in ToSet(s) \ {s[i]} PROVE x \in ToSet(r)
  <2>1. PICK k \in 1 .. Len(s) : x = s[k] /\ k # i
    BY LenProperties DEF ToSet
  <2>2. x = IF k < i THEN r[k] ELSE r[k - 1]
    BY <1>1, <2>1, LenProperties
  <2> QED
    BY <1>1, <2>1, <2>2, LenProperties DEF ToSet
<1> QED
  BY <1>1, <1>2, <1>3, <1>4, <1>5 DEF r

LEMMA InsertElement ==
    ASSUME NEW S, NEW s \in Seq(S), NEW i \in 1 .. Len(s) + 1, NEW e \in S,
           e \notin ToSet(s), Distinct(s)
    PROVE  /\ InsertAt(s, i, e) \in Seq(S) /\ Distinct(InsertAt(s, i, e))
           /\ ToSet(InsertAt(s, i, e)) = ToSet(s) \cup {e}
           /\ TimedFirst(s) /\ e \in Timed /\ (\A k \in 1 .. i - 1 : s[k] \in Timed)
                => TimedFirst(InsertAt(s, i, e))
<1> DEFINE r == InsertAt(s, i, e)
<1> HIDE DEF r
<1>1. /\ r \in Seq(S) /\ Len(r) = Len(s) + 1
      /\ \A k \in 1 .. Len(s) + 1 :
           r[k] = IF k < i THEN s[k] ELSE IF k = i THEN e ELSE s[k - 1]
  BY InsertAtElements DEF r
<1>2. \A k \in 1 .. Len(s) : s[k] # e /\ s[k] \in S
  BY ElementOfSeq, LenProperties DEF ToSet
<1> DEFINE old(k) == IF k < i THEN k ELSE k - 1
<1> Len(s) \in Nat
  BY LenProperties
<1>3. \A k \in 1 .. Len(r) : k # i => old(k) \in 1 .. Len(s) /\ r[k] = s[old(k)]
  BY <1>1
<1>4. r[i] = e /\ i \in 1 .. Len(r)
  BY <1>1
<1>5. \A j, k \in 1 .. Len(r) : j # i /\ k # i =>
          /\ old(j) = old(k) => j = k
          /\ j < k => old(j) < old(k)
  BY <1>1
<1>6. \A k \in 1 .. Len(r) : k < i => r[k] = s[k] /\ k \in 1 .. i - 1
  BY <1>1
<1> HIDE DEF old
<1>7. Distinct(r)
  <2> SUFFICES ASSUME NEW j \in 1 .. Len(r), NEW k \in 1 .. Len(r), r[j] = r[k]
               PROVE  j = k
    BY DEF Distinct
  <2>1. CASE j = i \/ k = i
    BY <1>2, <1>3, <1>4, <2>1
  <2>2. CASE j # i /\ k # i
    BY <1>3, <1>5, <2>2 DEF Distinct
  <2> QED
    BY <2>1, <2>2
<1>8. ASSUME TimedFirst(s), e \in Timed, \A k \in 1 .. i - 1 : s[k] \in Timed
      PROVE  TimedFirst(r)
  <2> SUFFICES ASSUME NEW j \in 1 .. Len(r), NEW k \in 1 .. Len(r),
                      j < k, r[k] \in Timed
               PROVE  r[j] \in Timed
    BY DEF TimedFirst
  <2>1. CASE j = i
    BY <1>8, <1>4, <2>1
  <2>2. CASE k = i
    BY <1>8, <1>6, <2>2
  <2>3. CASE j # i /\ k # i
    BY <1>8, <1>3, <1>5, <2>3 DEF TimedFirst
  <2> QED
    BY <2>1, <2>2, <2>3
<1>9. ASSUME NEW x \in ToSet(r) PROVE x \in ToSet(s) \cup {e}
  <2>1. PICK k \in 1 .. Len(s) + 1 : x = r[k]
    BY <1>1, LenProperties DEF ToSet
  <2> QED
    BY <1>1, <2>1, LenProperties DEF ToSet
<1>10. ASSUME NEW x \in ToSet(s) PROVE x \in ToSet(r)
  <2>1. PICK k \in 1 .. Len(s) : x = s[k]
    BY LenProperties DEF ToSet
  <2>2. CASE k < i
    BY <1>1, <2>1, <2>2, LenProperties DEF ToSet
  <2>3. CASE ~(k < i)
    <3>1. k + 1 \in 1 .. Len(r) /\ r[k + 1] = s[k]
      BY <1>1, <2>1, <2>3
    <3> QED
      BY <1>1, <2>1, <3>1, LenProperties DEF ToSet
  <2> QED
    BY <2>2, <2>3
<1>11. e \in ToSet(r)
  BY <1>1, LenProperties DEF ToSet
<1> QED
  BY <1>1, <1>7, <1>8, <1>9, <1>10, <1>11 DEF r

LEMMA Removed ==
    ASSUME Sorted, NEW u \in ToSet(flying), RemoveFromFlying(u)
    PROVE  Sorted' /\ ToSet(flying') = ToSet(flying) \ {u}
<1> DEFINE i == CHOOSE i \in DOMAIN flying : flying[i] = u
<1>1. DOMAIN flying = 1 .. Len(flying)
  BY LenProperties DEF Sorted
<1>2. i \in 1 .. Len(flying) /\ flying[i] = u
  BY <1>1 DEF ToSet
<1>3. flying' = RemoveAt(flying, i)
  BY DEF RemoveFromFlying
<1> HIDE DEF i
<1> QED
  BY <1>2, <1>3, RemoveElement DEF Sorted

LEMMA Added ==
    ASSUME Sorted, NEW t \in Threads, t \notin ToSet(flying),
           flying' \in Inserted(flying, t)
    PROVE  Sorted' /\ ToSet(flying') = ToSet(flying) \cup {t}
<1>1. CASE t \notin Timed
  <2>1. flying' = Append(flying, t)
    BY <1>1 DEF Inserted
  <2>2. /\ flying' \in Seq(Threads) /\ Len(flying') = Len(flying) + 1
        /\ \A i \in 1 .. Len(flying) : flying'[i] = flying[i]
        /\ flying'[Len(flying) + 1] = t
    BY <2>1, AppendProperties DEF Sorted
  <2>3. Len(flying) \in Nat /\ \A i \in 1 .. Len(flying) : flying[i] # t
    BY LenProperties DEF Sorted, ToSet
  <2>4. Distinct(flying')
    BY <2>2, <2>3 DEF Sorted, Distinct
  <2>5. TimedFirst(flying')
    BY <1>1, <2>2, <2>3 DEF Sorted, TimedFirst
  <2>6. ToSet(flying') = ToSet(flying) \cup {t}
    <3>1. DOMAIN flying = 1 .. Len(flying) /\ DOMAIN flying' = 1 .. Len(flying')
      BY <2>2, LenProperties DEF Sorted
    <3>2. ASSUME NEW x \in ToSet(flying') PROVE x \in ToSet(flying) \cup {t}
      BY <2>2, <2>3, <3>1 DEF ToSet
    <3>3. ASSUME NEW x \in ToSet(flying) \cup {t} PROVE x \in ToSet(flying')
      <4>1. CASE x = t
        BY <2>2, <2>3, <3>1, <4>1 DEF ToSet
      <4>2. CASE x # t
        <5>1. PICK i \in 1 .. Len(flying) : x = flying[i]
          BY <3>1, <3>3, <4>2 DEF ToSet
        <5> QED
          BY <2>2, <2>3, <3>1, <5>1 DEF ToSet
      <4> QED
        BY <4>1, <4>2
    <3> QED
      BY <3>2, <3>3
  <2> QED
    BY <2>2, <2>4, <2>5, <2>6 DEF Sorted
<1>2. CASE t \in Timed
  <2>1. PICK i \in 1 .. Len(flying) + 1 :
           /\ \A k \in 1 .. i - 1 : flying[k] \in Timed
           /\ flying' = InsertAt(flying, i, t)
    BY <1>2 DEF Inserted
  <2> QED
    BY <1>2, <2>1, InsertElement DEF Sorted
<1> QED
  BY <1>1, <1>2

LEMMA NextTimeoutListed ==
    ASSUME Sorted, NextTimeout # NoOne
    PROVE  NextTimeout \in Timed /\ NextTimeout \in ToSet(flying)
<1> DEFINE first == {i \in DOMAIN flying :
                       /\ flying[i] \in Timed /\ ~Handled(flying[i])
                       /\ \A k \in 1 .. i - 1 : Handled(flying[k])}
           i == CHOOSE i \in first : TRUE
<1>1. first # {} /\ NextTimeout = flying[i]
  BY DEF NextTimeout
<1>2. i \in first
  BY <1>1
<1> QED
  BY <1>1, <1>2 DEF ToSet

(* How many threads are in libusb_close.                                   *)
LEMMA CountedNat ==
    ASSUME Types, Counted
    PROVE  closing \in 0 .. Cardinality(Threads) /\ closing \in Nat
<1>1. IsFiniteSet(Threads)
  BY IoAssumption DEF IoAssumption
<1>2. {t \in Threads : pc[t] \in Closing} \subseteq Threads
  OBVIOUS
<1> QED
  BY <1>1, <1>2, FS_Subset, FS_CardinalityType DEF Counted

LEMMA CloserCounted ==
    ASSUME Counted, NEW t \in Threads, pc[t] \in Closing
    PROVE  closing > 0
<1> DEFINE S == {v \in Threads : pc[v] \in Closing}
<1>1. IsFiniteSet(Threads) /\ S \subseteq Threads /\ t \in S
  BY IoAssumption DEF IoAssumption
<1>2. IsFiniteSet(S) /\ Cardinality(S) \in Nat
  BY <1>1, FS_Subset, FS_CardinalityType
<1>3. Cardinality(S) # 0
  BY <1>1, <1>2, FS_EmptySet
<1> QED
  BY <1>2, <1>3 DEF Counted

---------------------------------------------------------------------------
(* Every step keeps the invariant.                                         *)

LEMMA OpenStep ==
    ASSUME Inv, NEW t \in Threads, Open(t)
    PROVE  Inv'
<1>1. pc[t] = "open" /\ pc'[t] = "submit"
      /\ \A v \in Threads \ {t} : pc'[v] = pc[v]
  BY DEF Inv, Types, Open
<1>2. UNCHANGED <<at, until, seen, flying, flyLock, lock, flags, timer, urb,
                  action, status, events, active, waiters, closing, pollfds,
                  messages, special, sent>>
  BY DEF Open, vars, threads, transfers, locks, eventData, polling
<1>3. ipollfds' = ipollfds \cup {t} /\ modified' = TRUE
      /\ pipe' = IF closing > 0 \/ modified \/ messages > 0 THEN pipe ELSE pipe + 1
  BY DEF Open, Signal
<1>4. Types'
  <2>1. pc' \in [Threads -> Labels]
    BY <1>1 DEF Inv, Types, Open, Labels, Unsubmitted, Submitting, InTimeout,
       Scanning, Completing, Polling, Closing, Handling
  <2>2. ipollfds' \subseteq Threads
    BY <1>1 DEF Inv, Types, Open
  <2>3. modified' \in BOOLEAN
    BY <1>1 DEF Inv, Types, Open
  <2> QED
    BY <1>2, <2>1, <2>2, <2>3 DEF Inv, Types
<1>5. Sorted'
  BY <1>2 DEF Inv, Sorted
<1>6. Locked'
  BY <1>1, <1>2, <1>3 DEF Inv, Locked, Submitting, InTimeout, Scanning,
     Completing, Polling, Handling
<1>7. Listed'
  BY <1>1, <1>2, <1>3 DEF Inv, Listed
<1>8. Progress'
  BY <1>1, <1>2, <1>3 DEF Inv, Progress, Unsubmitted, Submitting
<1>9. InHands'
  <2> SUFFICES ASSUME NEW v \in Threads PROVE Holds(v)'
    BY DEF InHands
  <2>1. Holds(v) /\ at[v] \in Threads \cup {NoOne}
    BY DEF Inv, Types, InHands
  <2> QED
    BY <1>1, <1>2, <1>3, <2>1 DEF Holds, Unsubmitted, Submitting, InTimeout,
       Completing
<1>10. Copied'
  BY <1>1, <1>2, <1>3 DEF Inv, Copied, Completing, Polling
<1>11. Counted'
  BY <1>1, <1>2, <1>3 DEF Inv, Counted, Closing
<1>12. PipeMatches'
  BY <1>1, <1>2, <1>3 DEF Inv, PipeMatches
<1> QED
  BY <1>4, <1>5, <1>6, <1>7, <1>8, <1>9, <1>10, <1>11, <1>12 DEF Inv

LEMMA SubmitStep ==
    ASSUME Inv, NEW t \in Threads, Submit(t)
    PROVE  Inv'
<1>1. pc[t] = "submit" /\ pc'[t] = "submitting"
      /\ \A v \in Threads \ {t} : pc'[v] = pc[v]
  BY DEF Inv, Types, Submit
<1>2. UNCHANGED <<at, until, seen, flyLock, urb, action, status, events, active,
                  waiters, closing, ipollfds, modified, pollfds, pipe, messages,
                  special, sent>>
  BY DEF Submit, vars, threads, transfers, locks, eventData, polling
<1>3. lock'[t] = t /\ \A v \in Threads \ {t} : lock'[v] = lock[v]
  BY DEF Inv, Types, Submit
<1>4. Sorted' /\ ToSet(flying') = ToSet(flying) \cup {t}
  <2>1. t \notin ToSet(flying)
    BY <1>1 DEF Inv, Listed
  <2> QED
    BY <2>1, Added DEF Inv, Submit
<1>5. Types'
  <2>1. pc' \in [Threads -> Labels]
    BY <1>1 DEF Inv, Types, Submit, Labels, Unsubmitted, Submitting, InTimeout,
       Scanning, Completing, Polling, Closing, Handling
  <2>2. lock' \in [Threads -> Threads \cup {NoOne}]
    BY DEF Inv, Types, Submit
  <2>3. flags' \in [Threads -> SUBSET AllFlags]
    BY DEF Inv, Types, Submit, AllFlags
  <2> QED
    BY <1>2, <2>1, <2>2, <2>3 DEF Inv, Types
<1>6. Locked'
  BY <1>1, <1>2, <1>3 DEF Inv, Locked, Submitting, InTimeout, Scanning,
     Completing, Polling, Handling
<1>7. Listed'
  BY <1>1, <1>2, <1>4 DEF Inv, Listed, Progress, Unsubmitted, Submitting
<1>8. Progress'
  BY <1>1, <1>2 DEF Inv, Progress, Unsubmitted, Submitting
<1>9. InHands'
  <2> SUFFICES ASSUME NEW v \in Threads PROVE Holds(v)'
    BY DEF InHands
  <2>1. Holds(v) /\ at[v] \in Threads \cup {NoOne}
    BY DEF Inv, Types, InHands
  <2>2. CASE v = t
    BY <1>1, <1>2, <1>4, <2>1, <2>2 DEF Holds, InTimeout, Completing
  <2>3. CASE v # t
    <3>1. at[v] # t
      BY <1>1, <2>1, IoAssumption DEF Inv, Listed, Holds, IoAssumption
    <3> QED
      BY <1>1, <1>2, <1>4, <2>1, <2>3, <3>1 DEF Holds, Unsubmitted, Submitting,
         InTimeout, Completing
  <2> QED
    BY <2>2, <2>3
<1>10. Copied'
  BY <1>1, <1>2 DEF Inv, Copied, Completing, Polling
<1>11. Counted'
  BY <1>1, <1>2 DEF Inv, Counted, Closing
<1>12. PipeMatches'
  BY <1>2 DEF Inv, PipeMatches
<1> QED
  BY <1>4, <1>5, <1>6, <1>7, <1>8, <1>9, <1>10, <1>11, <1>12 DEF Inv

LEMMA SubmitFailsStep ==
    ASSUME Inv, NEW t \in Threads, SubmitFails(t)
    PROVE  Inv'
<1>1. pc[t] = "submitting" /\ pc'[t] = "failing"
      /\ \A v \in Threads \ {t} : pc'[v] = pc[v]
  BY DEF Inv, Types, SubmitFails
<1>2. UNCHANGED <<at, until, seen, flying, flyLock, lock, timer, urb, action,
                  status, events, active, waiters, closing, ipollfds,
                  modified, pollfds, pipe, messages, special, sent>>
  BY DEF SubmitFails, vars, threads, transfers, locks, eventData, polling
<1>3. Types'
  <2>1. pc' \in [Threads -> Labels]
    BY <1>1 DEF Inv, Types, SubmitFails, Labels, Unsubmitted, Submitting,
       InTimeout, Scanning, Completing, Polling, Closing, Handling
  <2>2. flags' \in [Threads -> SUBSET AllFlags]
    BY <1>1 DEF Inv, Types, SubmitFails, AllFlags
  <2> QED
    BY <1>2, <2>1, <2>2 DEF Inv, Types
<1>4. Sorted'
  BY <1>2 DEF Inv, Sorted
<1>5. Locked'
  BY <1>1, <1>2 DEF Inv, Locked, Submitting, InTimeout, Scanning, Completing,
     Polling, Handling
<1>6. Listed'
  BY <1>1, <1>2 DEF Inv, Listed
<1>7. Progress'
  BY <1>1, <1>2 DEF Inv, Progress, Unsubmitted, Submitting
<1>8. InHands'
  <2> SUFFICES ASSUME NEW v \in Threads PROVE Holds(v)'
    BY DEF InHands
  <2>1. Holds(v) /\ at[v] \in Threads \cup {NoOne}
    BY DEF Inv, Types, InHands
  <2> QED
    BY <1>1, <1>2, <2>1 DEF Holds, Unsubmitted, Submitting, InTimeout,
       Completing
<1>9. Copied'
  BY <1>1, <1>2 DEF Inv, Copied, Completing, Polling
<1>10. Counted'
  BY <1>1, <1>2 DEF Inv, Counted, Closing
<1>11. PipeMatches'
  BY <1>1, <1>2 DEF Inv, PipeMatches
<1> QED
  BY <1>3, <1>4, <1>5, <1>6, <1>7, <1>8, <1>9, <1>10, <1>11 DEF Inv

LEMMA SubmitRemoveStep ==
    ASSUME Inv, NEW t \in Threads, SubmitRemove(t)
    PROVE  Inv'
<1>1. pc[t] = "failing" /\ pc'[t] = "close"
      /\ \A v \in Threads \ {t} : pc'[v] = pc[v]
  BY DEF Inv, Types, SubmitRemove
<1>2. UNCHANGED <<at, until, seen, flyLock, flags, timer, urb, action, events,
                  active, waiters, closing, ipollfds, modified, pollfds, pipe,
                  messages, special, sent>>
  BY DEF SubmitRemove, vars, threads, transfers, locks, eventData, polling
<1>3. \A v \in Threads \ {t} : lock'[v] = lock[v]
  BY DEF Inv, Types, SubmitRemove
<1>4. status'[t] # "none" /\ \A v \in Threads \ {t} : status'[v] = status[v]
  BY DEF Inv, Types, SubmitRemove
<1>5. flyLock = NoOne /\ NoOne \notin Threads
  BY IoAssumption DEF SubmitRemove, IoAssumption
<1>6. Sorted' /\ ToSet(flying') = ToSet(flying) \ {t}
  <2>1. t \in ToSet(flying)
    BY <1>1 DEF Inv, Listed, Progress, Unsubmitted
  <2> QED
    BY <2>1, Removed DEF Inv, SubmitRemove
<1>7. Types'
  <2>1. pc' \in [Threads -> Labels]
    BY <1>1 DEF Inv, Types, SubmitRemove, Labels, Unsubmitted, Submitting,
       InTimeout, Scanning, Completing, Polling, Closing, Handling
  <2>2. lock' \in [Threads -> Threads \cup {NoOne}]
    BY DEF Inv, Types, SubmitRemove
  <2>3. status' \in [Threads -> {"none", "refused"} \cup Completing]
    BY DEF Inv, Types, SubmitRemove
  <2> QED
    BY <1>2, <2>1, <2>2, <2>3 DEF Inv, Types
<1>8. Locked'
  BY <1>1, <1>2, <1>3 DEF Inv, Locked, Submitting, InTimeout, Scanning,
     Completing, Polling, Handling
<1>9. Listed'
  BY <1>1, <1>4, <1>6 DEF Inv, Listed
<1>10. Progress'
  BY <1>1, <1>2, <1>4 DEF Inv, Progress, Unsubmitted, Submitting
<1>11. InHands'
  <2> SUFFICES ASSUME NEW v \in Threads PROVE Holds(v)'
    BY DEF InHands
  <2>1. Holds(v) /\ at[v] \in Threads \cup {NoOne}
    BY DEF Inv, Types, InHands
  <2>2. pc[v] \notin InTimeout
    BY <1>5 DEF Inv, Locked, Scanning
  <2>3. at[v] # t
    BY <1>1, <1>5, <2>1, <2>2 DEF Holds, Unsubmitted
  <2> QED
    BY <1>1, <1>2, <1>6, <2>1, <2>2, <2>3 DEF Holds, Unsubmitted, Submitting,
       InTimeout, Completing
<1>12. Copied'
  BY <1>1, <1>2 DEF Inv, Copied, Completing, Polling
<1>13. Counted'
  BY <1>1, <1>2 DEF Inv, Counted, Closing
<1>14. PipeMatches'
  BY <1>2 DEF Inv, PipeMatches
<1> QED
  BY <1>6, <1>7, <1>8, <1>9, <1>10, <1>11, <1>12, <1>13, <1>14 DEF Inv

LEMMA SubmitUrbStep ==
    ASSUME Inv, NEW t \in Threads, SubmitUrb(t)
    PROVE  Inv'
<1>1. pc[t] = "submitting" /\ pc'[t] = "submitted"
      /\ \A v \in Threads \ {t} : pc'[v] = pc[v]
  BY DEF Inv, Types, SubmitUrb
<1>2. UNCHANGED <<at, until, seen, flying, flyLock, lock, flags, timer,
                  action, status, events, active, waiters, closing, ipollfds,
                  modified, pollfds, pipe, messages, special, sent>>
  BY DEF SubmitUrb, vars, threads, transfers, locks, eventData, polling
<1>3. urb'[t] = "pending" /\ \A v \in Threads \ {t} : urb'[v] = urb[v]
  BY DEF Inv, Types, SubmitUrb
<1>4. Types'
  <2>1. pc' \in [Threads -> Labels]
    BY <1>1 DEF Inv, Types, SubmitUrb, Labels, Unsubmitted, Submitting,
       InTimeout, Scanning, Completing, Polling, Closing, Handling
  <2>2. urb' \in [Threads -> {"none", "pending", "done", "killed"}]
    BY <1>1 DEF Inv, Types, SubmitUrb
  <2> QED
    BY <1>2, <2>1, <2>2 DEF Inv, Types
<1>5. Sorted'
  BY <1>2 DEF Inv, Sorted
<1>6. Locked'
  BY <1>1, <1>2, <1>3 DEF Inv, Locked, Submitting, InTimeout, Scanning,
     Completing, Polling, Handling
<1>7. Listed'
  BY <1>1, <1>2, <1>3 DEF Inv, Listed
<1>8. Progress'
  BY <1>1, <1>2, <1>3 DEF Inv, Progress, Unsubmitted, Submitting
<1>9. InHands'
  <2> SUFFICES ASSUME NEW v \in Threads PROVE Holds(v)'
    BY DEF InHands
  <2>1. Holds(v) /\ at[v] \in Threads \cup {NoOne}
    BY DEF Inv, Types, InHands
  <2>2. CASE v = t
    BY <1>1, <1>2, <1>3, <2>1, <2>2 DEF Holds, Unsubmitted, Submitting,
       InTimeout, Completing
  <2>3. CASE v # t
    BY <1>1, <1>2, <1>3, <2>1, <2>3 DEF Holds, Unsubmitted, Submitting,
       InTimeout, Completing
  <2> QED
    BY <2>2, <2>3
<1>10. Copied'
  BY <1>1, <1>2, <1>3 DEF Inv, Copied, Completing, Polling
<1>11. Counted'
  BY <1>1, <1>2, <1>3 DEF Inv, Counted, Closing
<1>12. PipeMatches'
  BY <1>1, <1>2, <1>3 DEF Inv, PipeMatches
<1> QED
  BY <1>4, <1>5, <1>6, <1>7, <1>8, <1>9, <1>10, <1>11, <1>12 DEF Inv

LEMMA SubmittedStep ==
    ASSUME Inv, NEW t \in Threads, Submitted(t)
    PROVE  Inv'
<1>1. pc[t] = "submitted" /\ pc'[t] = "loop"
      /\ \A v \in Threads \ {t} : pc'[v] = pc[v]
  BY DEF Inv, Types, Submitted
<1>2. UNCHANGED <<at, until, seen, flying, flyLock, timer, urb, action,
                  status, events, active, waiters, closing, ipollfds,
                  modified, pollfds, pipe, messages, special, sent>>
  BY DEF Submitted, vars, threads, transfers, locks, eventData, polling
<1>3. \A v \in Threads \ {t} : lock'[v] = lock[v]
  BY DEF Inv, Types, Submitted
<1>4. Types'
  <2>1. pc' \in [Threads -> Labels]
    BY <1>1 DEF Inv, Types, Submitted, Labels, Unsubmitted, Submitting,
       InTimeout, Scanning, Completing, Polling, Closing, Handling
  <2>2. flags' \in [Threads -> SUBSET AllFlags]
    BY <1>1 DEF Inv, Types, Submitted, AllFlags
  <2>3. lock' \in [Threads -> Threads \cup {NoOne}]
    BY <1>1 DEF Inv, Types, Submitted
  <2> QED
    BY <1>2, <2>1, <2>2, <2>3 DEF Inv, Types
<1>5. Sorted'
  BY <1>2 DEF Inv, Sorted
<1>6. Locked'
  BY <1>1, <1>2, <1>3 DEF Inv, Locked, Submitting, InTimeout, Scanning,
     Completing, Polling, Handling
<1>7. Listed'
  BY <1>1, <1>2, <1>3 DEF Inv, Listed
<1>8. Progress'
  BY <1>1, <1>2, <1>3 DEF Inv, Progress, Unsubmitted, Submitting
<1>9. InHands'
  <2> SUFFICES ASSUME NEW v \in Threads PROVE Holds(v)'
    BY DEF InHands
  <2>1. Holds(v) /\ at[v] \in Threads \cup {NoOne}
    BY DEF Inv, Types, InHands
  <2> QED
    BY <1>1, <1>2, <1>3, <2>1 DEF Holds, Unsubmitted, Submitting, InTimeout,
       Completing
<1>10. Copied'
  BY <1>1, <1>2, <1>3 DEF Inv, Copied, Completing, Polling
<1>11. Counted'
  BY <1>1, <1>2, <1>3 DEF Inv, Counted, Closing
<1>12. PipeMatches'
  BY <1>1, <1>2, <1>3 DEF Inv, PipeMatches
<1> QED
  BY <1>4, <1>5, <1>6, <1>7, <1>8, <1>9, <1>10, <1>11, <1>12 DEF Inv

LEMMA TimeoutsBeginStep ==
    ASSUME Inv, NEW t \in Threads, TimeoutsBegin(t)
    PROVE  Inv'
<1>1. pc[t] = "timeouts" /\ pc'[t] = "scan"
      /\ \A v \in Threads \ {t} : pc'[v] = pc[v]
  BY DEF Inv, Types, TimeoutsBegin
<1>2. UNCHANGED <<at, until, seen, flying, lock, flags, timer, urb, action,
                  status, events, active, waiters, closing, ipollfds,
                  modified, pollfds, pipe, messages, special, sent>>
  BY DEF TimeoutsBegin, vars, threads, transfers, locks, eventData, polling
<1>3. flyLock = NoOne /\ flyLock' = t /\ NoOne \notin Threads
  BY IoAssumption DEF TimeoutsBegin, IoAssumption
<1>4. Types'
  <2>1. pc' \in [Threads -> Labels]
    BY <1>1 DEF Inv, Types, TimeoutsBegin, Labels, Unsubmitted, Submitting,
       InTimeout, Scanning, Completing, Polling, Closing, Handling
  <2>2. flyLock' \in Threads \cup {NoOne}
    BY <1>1 DEF Inv, Types, TimeoutsBegin
  <2> QED
    BY <1>2, <2>1, <2>2 DEF Inv, Types
<1>5. Sorted'
  BY <1>2 DEF Inv, Sorted
<1>6. Locked'
  BY <1>1, <1>2, <1>3 DEF Inv, Locked, Submitting, InTimeout, Scanning,
     Completing, Polling, Handling
<1>7. Listed'
  BY <1>1, <1>2, <1>3 DEF Inv, Listed
<1>8. Progress'
  BY <1>1, <1>2, <1>3 DEF Inv, Progress, Unsubmitted, Submitting
<1>9. InHands'
  <2> SUFFICES ASSUME NEW v \in Threads PROVE Holds(v)'
    BY DEF InHands
  <2>1. Holds(v) /\ at[v] \in Threads \cup {NoOne}
    BY DEF Inv, Types, InHands
  <2> QED
    BY <1>1, <1>2, <1>3, <2>1 DEF Holds, Unsubmitted, Submitting, InTimeout,
       Completing
<1>10. Copied'
  BY <1>1, <1>2, <1>3 DEF Inv, Copied, Completing, Polling
<1>11. Counted'
  BY <1>1, <1>2, <1>3 DEF Inv, Counted, Closing
<1>12. PipeMatches'
  BY <1>1, <1>2, <1>3 DEF Inv, PipeMatches
<1> QED
  BY <1>4, <1>5, <1>6, <1>7, <1>8, <1>9, <1>10, <1>11, <1>12 DEF Inv

LEMMA TimeoutsNextStep ==
    ASSUME Inv, NEW t \in Threads, TimeoutsNext(t)
    PROVE  Inv'
<1>1. pc[t] = "scan" /\ pc'[t] = "mark"
      /\ \A v \in Threads \ {t} : pc'[v] = pc[v]
  BY DEF Inv, Types, TimeoutsNext
<1>2. UNCHANGED <<until, flying, flyLock, lock, flags, timer, urb, action,
                  status, events, active, waiters, closing, ipollfds,
                  modified, pollfds, pipe, messages, special, sent>>
  BY DEF TimeoutsNext, vars, threads, transfers, locks, eventData, polling
<1>3. NextTimeout \in Timed /\ NextTimeout \in ToSet(flying) /\ NextTimeout \in Threads
      /\ NoOne \notin Threads
  BY NextTimeoutListed, IoAssumption DEF Inv, TimeoutsNext, Elapsed,
     IoAssumption
<1>4. at'[t] = NextTimeout /\ \A v \in Threads \ {t} : at'[v] = at[v]
  BY DEF Inv, Types, TimeoutsNext
<1>5. Types'
  <2>1. pc' \in [Threads -> Labels]
    BY <1>1 DEF Inv, Types, TimeoutsNext, Labels, Unsubmitted, Submitting,
       InTimeout, Scanning, Completing, Polling, Closing, Handling
  <2>2. at' \in [Threads -> Threads \cup {NoOne}]
    BY <1>3 DEF Inv, Types, TimeoutsNext
  <2>3. seen' \in [Threads -> SUBSET AllFlags]
    BY <1>3 DEF Inv, Types, TimeoutsNext
  <2> QED
    BY <1>2, <2>1, <2>2, <2>3 DEF Inv, Types
<1>6. Sorted'
  BY <1>2 DEF Inv, Sorted
<1>7. Locked'
  BY <1>1, <1>2, <1>3, <1>4 DEF Inv, Locked, Submitting, InTimeout, Scanning,
     Completing, Polling, Handling
<1>8. Listed'
  BY <1>1, <1>2, <1>3, <1>4 DEF Inv, Listed
<1>9. Progress'
  BY <1>1, <1>2, <1>3, <1>4 DEF Inv, Progress, Unsubmitted, Submitting
<1>10. InHands'
  <2> SUFFICES ASSUME NEW v \in Threads PROVE Holds(v)'
    BY DEF InHands
  <2>1. Holds(v) /\ at[v] \in Threads \cup {NoOne}
    BY DEF Inv, Types, InHands
  <2>2. CASE v = t
    BY <1>1, <1>2, <1>3, <1>4, <2>1, <2>2 DEF Holds, Unsubmitted, Submitting,
       InTimeout, Completing
  <2>3. CASE v # t
    BY <1>1, <1>2, <1>3, <1>4, <2>1, <2>3 DEF Holds, Unsubmitted, Submitting,
       InTimeout, Completing
  <2> QED
    BY <2>2, <2>3
<1>11. Copied'
  BY <1>1, <1>2, <1>3, <1>4 DEF Inv, Copied, Completing, Polling
<1>12. Counted'
  BY <1>1, <1>2, <1>3, <1>4 DEF Inv, Counted, Closing
<1>13. PipeMatches'
  BY <1>1, <1>2, <1>3, <1>4 DEF Inv, PipeMatches
<1> QED
  BY <1>5, <1>6, <1>7, <1>8, <1>9, <1>10, <1>11, <1>12, <1>13 DEF Inv

LEMMA TimeoutMarkStep ==
    ASSUME Inv, NEW t \in Threads, TimeoutMark(t)
    PROVE  Inv'
<1>1. pc[t] = "mark" /\ pc'[t] = "cancel"
      /\ \A v \in Threads \ {t} : pc'[v] = pc[v]
  BY DEF Inv, Types, TimeoutMark
<1>2. UNCHANGED <<at, until, flying, flyLock, lock, timer, urb, action,
                  status, events, active, waiters, closing, ipollfds,
                  modified, pollfds, pipe, messages, special, sent>>
  BY DEF TimeoutMark, vars, threads, transfers, locks, eventData, polling
<1>3. at[t] \in Threads
  BY <1>1, IoAssumption DEF Inv, Types, InHands, Holds, InTimeout, IoAssumption
<1>4. Types'
  <2>1. pc' \in [Threads -> Labels]
    BY <1>1 DEF Inv, Types, TimeoutMark, Labels, Unsubmitted, Submitting,
       InTimeout, Scanning, Completing, Polling, Closing, Handling
  <2>2. flags' \in [Threads -> SUBSET AllFlags]
    BY <1>3 DEF Inv, Types, TimeoutMark, AllFlags
  <2>3. seen' \in [Threads -> SUBSET AllFlags]
    BY <1>1 DEF Inv, Types, TimeoutMark, AllFlags
  <2> QED
    BY <1>2, <2>1, <2>2, <2>3 DEF Inv, Types
<1>5. Sorted'
  BY <1>2 DEF Inv, Sorted
<1>6. Locked'
  BY <1>1, <1>2, <1>3 DEF Inv, Locked, Submitting, InTimeout, Scanning,
     Completing, Polling, Handling
<1>7. Listed'
  BY <1>1, <1>2, <1>3 DEF Inv, Listed
<1>8. Progress'
  BY <1>1, <1>2, <1>3 DEF Inv, Progress, Unsubmitted, Submitting
<1>9. InHands'
  <2> SUFFICES ASSUME NEW v \in Threads PROVE Holds(v)'
    BY DEF InHands
  <2>1. Holds(v) /\ at[v] \in Threads \cup {NoOne}
    BY DEF Inv, Types, InHands
  <2> QED
    BY <1>1, <1>2, <1>3, <2>1 DEF Holds, Unsubmitted, Submitting, InTimeout,
       Completing
<1>10. Copied'
  BY <1>1, <1>2, <1>3 DEF Inv, Copied, Completing, Polling
<1>11. Counted'
  BY <1>1, <1>2, <1>3 DEF Inv, Counted, Closing
<1>12. PipeMatches'
  BY <1>1, <1>2, <1>3 DEF Inv, PipeMatches
<1> QED
  BY <1>4, <1>5, <1>6, <1>7, <1>8, <1>9, <1>10, <1>11, <1>12 DEF Inv

LEMMA TimeoutCancelStep ==
    ASSUME Inv, NEW t \in Threads, TimeoutCancel(t)
    PROVE  Inv'
<1>1. pc[t] = "cancel" /\ pc'[t] \in {"timed out", "scan"}
      /\ \A v \in Threads \ {t} : pc'[v] = pc[v]
  BY DEF Inv, Types, TimeoutCancel
<1>2. UNCHANGED <<until, seen, flying, flyLock, lock, timer, status, events,
                  active, waiters, closing, ipollfds, modified, pollfds, pipe,
                  messages, special, sent>>
  BY DEF TimeoutCancel, vars, threads, transfers, locks, eventData, polling
<1>3. at[t] \in Threads /\ NoOne \notin Threads
  BY <1>1, IoAssumption DEF Inv, Types, InHands, Holds, InTimeout, IoAssumption
<1>4. /\ pc'[t] = "timed out" => at'[t] = at[t]
      /\ pc'[t] = "scan" => at'[t] = NoOne
      /\ \A v \in Threads \ {t} : at'[v] = at[v]
  BY DEF Inv, Types, TimeoutCancel
<1>5. \A v \in Threads : urb'[v] = "none" <=> urb[v] = "none"
  BY <1>3 DEF Inv, Types, TimeoutCancel
<1>6. Types'
  <2>1. pc' \in [Threads -> Labels]
    BY <1>1 DEF Inv, Types, TimeoutCancel, Labels, Unsubmitted, Submitting,
       InTimeout, Scanning, Completing, Polling, Closing, Handling
  <2>2. urb' \in [Threads -> {"none", "pending", "done", "killed"}]
    BY <1>3 DEF Inv, Types, TimeoutCancel
  <2>3. flags' \in [Threads -> SUBSET AllFlags]
    BY <1>3 DEF Inv, Types, TimeoutCancel, AllFlags
  <2>4. at' \in [Threads -> Threads \cup {NoOne}]
    BY <1>1 DEF Inv, Types, TimeoutCancel
  <2> QED
    BY <1>2, <2>1, <2>2, <2>3, <2>4 DEF Inv, Types
<1>7. Sorted'
  BY <1>2 DEF Inv, Sorted
<1>8. Locked'
  BY <1>1, <1>2, <1>3, <1>4, <1>5 DEF Inv, Locked, Submitting, InTimeout,
     Scanning, Completing, Polling, Handling
<1>9. Listed'
  BY <1>1, <1>2, <1>3, <1>4, <1>5 DEF Inv, Listed
<1>10. Progress'
  BY <1>1, <1>2, <1>3, <1>4, <1>5 DEF Inv, Progress, Unsubmitted, Submitting
<1>11. InHands'
  <2> SUFFICES ASSUME NEW v \in Threads PROVE Holds(v)'
    BY DEF InHands
  <2>1. Holds(v) /\ at[v] \in Threads \cup {NoOne}
    BY DEF Inv, Types, InHands
  <2>2. CASE v = t
    BY <1>1, <1>2, <1>3, <1>4, <1>5, <2>1, <2>2 DEF Holds, Unsubmitted,
       Submitting, InTimeout, Completing
  <2>3. CASE v # t
    <3>1. pc'[v] = pc[v] /\ at'[v] = at[v]
      BY <1>1, <1>4, <2>3
    <3>2. CASE at[v] = NoOne
      BY <2>1, <3>1, <3>2 DEF Holds
    <3>3. CASE at[v] # NoOne
      <4>1. at[v] \in Threads
        BY <2>1, <3>3
      <4>2. urb'[at[v]] = "none" <=> urb[at[v]] = "none"
        BY <1>5, <4>1
      <4>3. pc[at[v]] \notin Unsubmitted \cup Submitting
              => pc'[at[v]] \notin Unsubmitted \cup Submitting
        BY <1>1, <4>1 DEF Unsubmitted, Submitting
      <4> QED
        BY <1>2, <2>1, <3>1, <3>3, <4>2, <4>3 DEF Holds
    <3> QED
      BY <3>2, <3>3
  <2> QED
    BY <2>2, <2>3
<1>12. Copied'
  BY <1>1, <1>2, <1>3, <1>4, <1>5 DEF Inv, Copied, Completing, Polling
<1>13. Counted'
  BY <1>1, <1>2, <1>3, <1>4, <1>5 DEF Inv, Counted, Closing
<1>14. PipeMatches'
  BY <1>1, <1>2, <1>3, <1>4, <1>5 DEF Inv, PipeMatches
<1> QED
  BY <1>6, <1>7, <1>8, <1>9, <1>10, <1>11, <1>12, <1>13, <1>14 DEF Inv

LEMMA TimedOutStep ==
    ASSUME Inv, NEW t \in Threads, TimedOut(t)
    PROVE  Inv'
<1>1. pc[t] = "timed out" /\ pc'[t] = "scan"
      /\ \A v \in Threads \ {t} : pc'[v] = pc[v]
  BY DEF Inv, Types, TimedOut
<1>2. UNCHANGED <<until, seen, flying, flyLock, lock, timer, urb, action,
                  status, events, active, waiters, closing, ipollfds,
                  modified, pollfds, pipe, messages, special, sent>>
  BY DEF TimedOut, vars, threads, transfers, locks, eventData, polling
<1>3. at[t] \in Threads /\ NoOne \notin Threads
  BY <1>1, IoAssumption DEF Inv, Types, InHands, Holds, InTimeout, IoAssumption
<1>4. at'[t] = NoOne /\ \A v \in Threads \ {t} : at'[v] = at[v]
  BY DEF Inv, Types, TimedOut
<1>5. Types'
  <2>1. pc' \in [Threads -> Labels]
    BY <1>1 DEF Inv, Types, TimedOut, Labels, Unsubmitted, Submitting,
       InTimeout, Scanning, Completing, Polling, Closing, Handling
  <2>2. flags' \in [Threads -> SUBSET AllFlags]
    BY <1>3 DEF Inv, Types, TimedOut, AllFlags
  <2>3. at' \in [Threads -> Threads \cup {NoOne}]
    BY <1>1 DEF Inv, Types, TimedOut
  <2> QED
    BY <1>2, <2>1, <2>2, <2>3 DEF Inv, Types
<1>6. Sorted'
  BY <1>2 DEF Inv, Sorted
<1>7. Locked'
  BY <1>1, <1>2, <1>3, <1>4 DEF Inv, Locked, Submitting, InTimeout, Scanning,
     Completing, Polling, Handling
<1>8. Listed'
  BY <1>1, <1>2, <1>3, <1>4 DEF Inv, Listed
<1>9. Progress'
  BY <1>1, <1>2, <1>3, <1>4 DEF Inv, Progress, Unsubmitted, Submitting
<1>10. InHands'
  <2> SUFFICES ASSUME NEW v \in Threads PROVE Holds(v)'
    BY DEF InHands
  <2>1. Holds(v) /\ at[v] \in Threads \cup {NoOne}
    BY DEF Inv, Types, InHands
  <2>2. CASE v = t
    BY <1>1, <1>2, <1>3, <1>4, <2>1, <2>2 DEF Holds, Unsubmitted, Submitting,
       InTimeout, Completing
  <2>3. CASE v # t
    BY <1>1, <1>2, <1>3, <1>4, <2>1, <2>3 DEF Holds, Unsubmitted, Submitting,
       InTimeout, Completing
  <2> QED
    BY <2>2, <2>3
<1>11. Copied'
  BY <1>1, <1>2, <1>3, <1>4 DEF Inv, Copied, Completing, Polling
<1>12. Counted'
  BY <1>1, <1>2, <1>3, <1>4 DEF Inv, Counted, Closing
<1>13. PipeMatches'
  BY <1>1, <1>2, <1>3, <1>4 DEF Inv, PipeMatches
<1> QED
  BY <1>5, <1>6, <1>7, <1>8, <1>9, <1>10, <1>11, <1>12, <1>13 DEF Inv

LEMMA TimeoutsEndStep ==
    ASSUME Inv, NEW t \in Threads, TimeoutsEnd(t)
    PROVE  Inv'
<1>1. pc[t] = "scan" /\ pc'[t] \in {"unlock", "loop"}
      /\ \A v \in Threads \ {t} : pc'[v] = pc[v]
  BY DEF Inv, Types, TimeoutsEnd
<1>2. UNCHANGED <<at, until, seen, flying, lock, flags, timer, urb, action,
                  status, events, active, waiters, closing, ipollfds,
                  modified, pollfds, pipe, messages, special, sent>>
  BY DEF TimeoutsEnd, vars, threads, transfers, locks, eventData, polling
<1>3. flyLock' = NoOne /\ (pc'[t] = "unlock" => events = t)
  BY DEF Inv, Types, TimeoutsEnd
<1>4. Types'
  <2>1. pc' \in [Threads -> Labels]
    BY <1>1 DEF Inv, Types, TimeoutsEnd, Labels, Unsubmitted, Submitting,
       InTimeout, Scanning, Completing, Polling, Closing, Handling
  <2>2. flyLock' \in Threads \cup {NoOne}
    BY <1>1 DEF Inv, Types, TimeoutsEnd
  <2> QED
    BY <1>2, <2>1, <2>2 DEF Inv, Types
<1>5. Sorted'
  BY <1>2 DEF Inv, Sorted
<1>6. Locked'
  BY <1>1, <1>2, <1>3 DEF Inv, Locked, Submitting, InTimeout, Scanning,
     Completing, Polling, Handling
<1>7. Listed'
  BY <1>1, <1>2, <1>3 DEF Inv, Listed
<1>8. Progress'
  BY <1>1, <1>2, <1>3 DEF Inv, Progress, Unsubmitted, Submitting
<1>9. InHands'
  <2> SUFFICES ASSUME NEW v \in Threads PROVE Holds(v)'
    BY DEF InHands
  <2>1. Holds(v) /\ at[v] \in Threads \cup {NoOne}
    BY DEF Inv, Types, InHands
  <2> QED
    BY <1>1, <1>2, <1>3, <2>1 DEF Holds, Unsubmitted, Submitting, InTimeout,
       Completing
<1>10. Copied'
  BY <1>1, <1>2, <1>3 DEF Inv, Copied, Completing, Polling
<1>11. Counted'
  BY <1>1, <1>2, <1>3 DEF Inv, Counted, Closing
<1>12. PipeMatches'
  BY <1>1, <1>2, <1>3 DEF Inv, PipeMatches
<1> QED
  BY <1>4, <1>5, <1>6, <1>7, <1>8, <1>9, <1>10, <1>11, <1>12 DEF Inv

LEMMA LoopStep ==
    ASSUME Inv, NEW t \in Threads, Loop(t)
    PROVE  Inv'
<1>1. pc[t] = "loop" /\ pc'[t] \in {"close", "timeouts", "try"}
      /\ \A v \in Threads \ {t} : pc'[v] = pc[v]
  BY DEF Inv, Types, Loop
<1>2. UNCHANGED <<at, seen, flying, flyLock, lock, flags, timer, urb, action,
                  status, events, active, waiters, closing, ipollfds,
                  modified, pollfds, pipe, messages, special, sent>>
  BY DEF Loop, vars, threads, transfers, locks, eventData, polling
<1>3. Types'
  <2>1. pc' \in [Threads -> Labels]
    BY <1>1 DEF Inv, Types, Loop, Labels, Unsubmitted, Submitting, InTimeout,
       Scanning, Completing, Polling, Closing, Handling
  <2>2. until' \in [Threads -> Timed \cup {NoOne}]
    BY NextTimeoutListed DEF Inv, Types, Loop
  <2> QED
    BY <1>2, <2>1, <2>2 DEF Inv, Types
<1>4. Sorted'
  BY <1>2 DEF Inv, Sorted
<1>5. Locked'
  BY <1>1, <1>2 DEF Inv, Locked, Submitting, InTimeout, Scanning, Completing,
     Polling, Handling
<1>6. Listed'
  BY <1>1, <1>2 DEF Inv, Listed
<1>7. Progress'
  BY <1>1, <1>2 DEF Inv, Progress, Unsubmitted, Submitting
<1>8. InHands'
  <2> SUFFICES ASSUME NEW v \in Threads PROVE Holds(v)'
    BY DEF InHands
  <2>1. Holds(v) /\ at[v] \in Threads \cup {NoOne}
    BY DEF Inv, Types, InHands
  <2> QED
    BY <1>1, <1>2, <2>1 DEF Holds, Unsubmitted, Submitting, InTimeout,
       Completing
<1>9. Copied'
  BY <1>1, <1>2 DEF Inv, Copied, Completing, Polling
<1>10. Counted'
  BY <1>1, <1>2 DEF Inv, Counted, Closing
<1>11. PipeMatches'
  BY <1>1, <1>2 DEF Inv, PipeMatches
<1> QED
  BY <1>3, <1>4, <1>5, <1>6, <1>7, <1>8, <1>9, <1>10, <1>11 DEF Inv

LEMMA TryLockEventsStep ==
    ASSUME Inv, NEW t \in Threads, TryLockEvents(t)
    PROVE  Inv'
<1>1. pc[t] = "try" /\ pc'[t] \in {"unlock", "refresh", "wait"}
      /\ \A v \in Threads \ {t} : pc'[v] = pc[v]
  BY DEF Inv, Types, TryLockEvents
<1>2. UNCHANGED <<at, until, seen, flying, flyLock, lock, flags, timer, urb,
                  action, status, waiters, closing, ipollfds, modified,
                  pollfds, pipe, messages, special, sent>>
  BY DEF TryLockEvents, vars, threads, transfers, locks, eventData, polling
<1>3. NoOne \notin Threads
  BY IoAssumption DEF IoAssumption
<1>4. \/ pc'[t] \in {"unlock", "refresh"} /\ events = NoOne /\ events' = t
      \/ pc'[t] = "wait" /\ events' = events
  <2>1. CASE closing = 0 /\ events = NoOne /\ events' = t
                /\ Go(t, "try", IF Complete(t) THEN "unlock" ELSE "refresh")
    BY <2>1 DEF Inv, Types
  <2>2. CASE Go(t, "try", "wait") /\ events' = events
    BY <2>2 DEF Inv, Types
  <2> QED
    <3>1. \/ closing = 0 /\ events = NoOne /\ events' = t
               /\ Go(t, "try", IF Complete(t) THEN "unlock" ELSE "refresh")
          \/ Go(t, "try", "wait") /\ events' = events
      BY DEF TryLockEvents, locks
    <3> QED
      BY <2>1, <2>2, <3>1
<1>5. Types'
  <2>1. pc' \in [Threads -> Labels]
    <3>1. \E to \in {"unlock", "refresh", "wait"} : pc' = [pc EXCEPT ![t] = to]
      BY DEF TryLockEvents
    <3>2. {"unlock", "refresh", "wait"} \subseteq Labels
      BY DEF Labels, Handling, Polling
    <3>3. pc \in [Threads -> Labels]
      BY DEF Inv, Types
    <3> HIDE DEF Go
    <3> QED
      BY <3>1, <3>2, <3>3
  <2>2. events' \in Threads \cup {NoOne}
    BY <1>4 DEF Inv, Types
  <2> QED
    BY <1>2, <2>1, <2>2 DEF Inv, Types
<1>6. Sorted'
  BY <1>2 DEF Inv, Sorted
<1>7. Locked'
  BY <1>1, <1>2, <1>3, <1>4 DEF Inv, Locked, Submitting, InTimeout, Scanning,
     Completing, Polling, Handling
<1>8. Listed'
  BY <1>1, <1>2, <1>3, <1>4 DEF Inv, Listed
<1>9. Progress'
  BY <1>1, <1>2, <1>3, <1>4 DEF Inv, Progress, Unsubmitted, Submitting
<1>10. InHands'
  <2> SUFFICES ASSUME NEW v \in Threads PROVE Holds(v)'
    BY DEF InHands
  <2>1. Holds(v) /\ at[v] \in Threads \cup {NoOne}
    BY DEF Inv, Types, InHands
  <2> QED
    BY <1>1, <1>2, <1>3, <1>4, <2>1 DEF Holds, Unsubmitted, Submitting,
       InTimeout, Completing
<1>11. Copied'
  BY <1>1, <1>2, <1>3, <1>4 DEF Inv, Copied, Completing, Polling
<1>12. Counted'
  BY <1>1, <1>2, <1>3, <1>4 DEF Inv, Counted, Closing
<1>13. PipeMatches'
  BY <1>1, <1>2, <1>3, <1>4 DEF Inv, PipeMatches
<1> QED
  BY <1>5, <1>6, <1>7, <1>8, <1>9, <1>10, <1>11, <1>12, <1>13 DEF Inv

LEMMA LockWaitersStep ==
    ASSUME Inv, NEW t \in Threads, LockWaiters(t)
    PROVE  Inv'
<1>1. pc[t] = "wait" /\ pc'[t] \in {"loop", "check"}
      /\ \A v \in Threads \ {t} : pc'[v] = pc[v]
  BY DEF Inv, Types, LockWaiters
<1>2. UNCHANGED <<at, until, seen, flying, flyLock, lock, flags, timer, urb,
                  action, status, events, active, closing, ipollfds, modified,
                  pollfds, pipe, messages, special, sent>>
  BY DEF LockWaiters, vars, threads, transfers, locks, eventData, polling
<1>3. Types'
  <2>1. pc' \in [Threads -> Labels]
    BY <1>1 DEF Inv, Types, LockWaiters, Labels, Unsubmitted, Submitting,
       InTimeout, Scanning, Completing, Polling, Closing, Handling
  <2>2. waiters' \in Threads \cup {NoOne}
    BY <1>1 DEF Inv, Types, LockWaiters
  <2> QED
    BY <1>2, <2>1, <2>2 DEF Inv, Types
<1>4. Sorted'
  BY <1>2 DEF Inv, Sorted
<1>5. Locked'
  BY <1>1, <1>2 DEF Inv, Locked, Submitting, InTimeout, Scanning, Completing,
     Polling, Handling
<1>6. Listed'
  BY <1>1, <1>2 DEF Inv, Listed
<1>7. Progress'
  BY <1>1, <1>2 DEF Inv, Progress, Unsubmitted, Submitting
<1>8. InHands'
  <2> SUFFICES ASSUME NEW v \in Threads PROVE Holds(v)'
    BY DEF InHands
  <2>1. Holds(v) /\ at[v] \in Threads \cup {NoOne}
    BY DEF Inv, Types, InHands
  <2> QED
    BY <1>1, <1>2, <2>1 DEF Holds, Unsubmitted, Submitting, InTimeout,
       Completing
<1>9. Copied'
  BY <1>1, <1>2 DEF Inv, Copied, Completing, Polling
<1>10. Counted'
  BY <1>1, <1>2 DEF Inv, Counted, Closing
<1>11. PipeMatches'
  BY <1>1, <1>2 DEF Inv, PipeMatches
<1> QED
  BY <1>3, <1>4, <1>5, <1>6, <1>7, <1>8, <1>9, <1>10, <1>11 DEF Inv

LEMMA WaitStep ==
    ASSUME Inv, NEW t \in Threads, Wait(t)
    PROVE  Inv'
<1>1. pc[t] = "check" /\ pc'[t] \in {"waiting", "try"}
      /\ \A v \in Threads \ {t} : pc'[v] = pc[v]
  BY DEF Inv, Types, Wait
<1>2. UNCHANGED <<at, until, seen, flying, flyLock, lock, flags, timer, urb,
                  action, status, events, active, closing, ipollfds, modified,
                  pollfds, pipe, messages, special, sent>>
  BY DEF Wait, vars, threads, transfers, locks, eventData, polling
<1>3. Types'
  <2>1. pc' \in [Threads -> Labels]
    BY <1>1 DEF Inv, Types, Wait, Labels, Unsubmitted, Submitting, InTimeout,
       Scanning, Completing, Polling, Closing, Handling
  <2>2. waiters' \in Threads \cup {NoOne}
    BY <1>1 DEF Inv, Types, Wait
  <2> QED
    BY <1>2, <2>1, <2>2 DEF Inv, Types
<1>4. Sorted'
  BY <1>2 DEF Inv, Sorted
<1>5. Locked'
  BY <1>1, <1>2 DEF Inv, Locked, Submitting, InTimeout, Scanning, Completing,
     Polling, Handling
<1>6. Listed'
  BY <1>1, <1>2 DEF Inv, Listed
<1>7. Progress'
  BY <1>1, <1>2 DEF Inv, Progress, Unsubmitted, Submitting
<1>8. InHands'
  <2> SUFFICES ASSUME NEW v \in Threads PROVE Holds(v)'
    BY DEF InHands
  <2>1. Holds(v) /\ at[v] \in Threads \cup {NoOne}
    BY DEF Inv, Types, InHands
  <2> QED
    BY <1>1, <1>2, <2>1 DEF Holds, Unsubmitted, Submitting, InTimeout,
       Completing
<1>9. Copied'
  BY <1>1, <1>2 DEF Inv, Copied, Completing, Polling
<1>10. Counted'
  BY <1>1, <1>2 DEF Inv, Counted, Closing
<1>11. PipeMatches'
  BY <1>1, <1>2 DEF Inv, PipeMatches
<1> QED
  BY <1>3, <1>4, <1>5, <1>6, <1>7, <1>8, <1>9, <1>10, <1>11 DEF Inv

LEMMA WaitTimesOutStep ==
    ASSUME Inv, NEW t \in Threads, WaitTimesOut(t)
    PROVE  Inv'
<1>1. pc[t] = "waiting" /\ pc'[t] = "timeouts"
      /\ \A v \in Threads \ {t} : pc'[v] = pc[v]
  BY DEF Inv, Types, WaitTimesOut
<1>2. UNCHANGED <<at, until, seen, flying, flyLock, lock, flags, timer, urb,
                  action, status, events, active, waiters, closing, ipollfds,
                  modified, pollfds, pipe, messages, special, sent>>
  BY DEF WaitTimesOut, vars, threads, transfers, locks, eventData, polling
<1>3. Types'
  <2>1. pc' \in [Threads -> Labels]
    BY <1>1 DEF Inv, Types, WaitTimesOut, Labels, Unsubmitted, Submitting,
       InTimeout, Scanning, Completing, Polling, Closing, Handling
  <2> QED
    BY <1>2, <2>1 DEF Inv, Types
<1>4. Sorted'
  BY <1>2 DEF Inv, Sorted
<1>5. Locked'
  BY <1>1, <1>2 DEF Inv, Locked, Submitting, InTimeout, Scanning, Completing,
     Polling, Handling
<1>6. Listed'
  BY <1>1, <1>2 DEF Inv, Listed
<1>7. Progress'
  BY <1>1, <1>2 DEF Inv, Progress, Unsubmitted, Submitting
<1>8. InHands'
  <2> SUFFICES ASSUME NEW v \in Threads PROVE Holds(v)'
    BY DEF InHands
  <2>1. Holds(v) /\ at[v] \in Threads \cup {NoOne}
    BY DEF Inv, Types, InHands
  <2> QED
    BY <1>1, <1>2, <2>1 DEF Holds, Unsubmitted, Submitting, InTimeout,
       Completing
<1>9. Copied'
  BY <1>1, <1>2 DEF Inv, Copied, Completing, Polling
<1>10. Counted'
  BY <1>1, <1>2 DEF Inv, Counted, Closing
<1>11. PipeMatches'
  BY <1>1, <1>2 DEF Inv, PipeMatches
<1> QED
  BY <1>3, <1>4, <1>5, <1>6, <1>7, <1>8, <1>9, <1>10, <1>11 DEF Inv

LEMMA RefreshStep ==
    ASSUME Inv, NEW t \in Threads, Refresh(t)
    PROVE  Inv'
<1>1. pc[t] = "refresh" /\ pc'[t] = "poll"
      /\ \A v \in Threads \ {t} : pc'[v] = pc[v]
  BY DEF Inv, Types, Refresh
<1>2. UNCHANGED <<at, until, seen, flying, flyLock, lock, flags, timer, urb,
                  action, status, events, active, waiters, closing, ipollfds,
                  messages, special, sent>>
  BY DEF Refresh, vars, threads, transfers, locks, eventData, polling
<1>3. IF modified
      THEN /\ pollfds' = ipollfds /\ modified' = FALSE
           /\ pipe' = IF closing > 0 \/ messages > 0 THEN pipe ELSE pipe - 1
      ELSE pollfds' = pollfds /\ modified' = modified /\ pipe' = pipe
  BY DEF Refresh, ClearUnless
<1>4. Types'
  <2>1. pc' \in [Threads -> Labels]
    BY <1>1 DEF Inv, Types, Refresh, Labels, Unsubmitted, Submitting,
       InTimeout, Scanning, Completing, Polling, Closing, Handling
  <2>2. pollfds' \subseteq Threads
    BY <1>3 DEF Inv, Types
  <2>3. modified' \in BOOLEAN
    BY <1>3 DEF Inv, Types
  <2> QED
    BY <1>2, <2>1, <2>2, <2>3 DEF Inv, Types
<1>5. Sorted'
  BY <1>2 DEF Inv, Sorted
<1>6. Locked'
  BY <1>1, <1>2, <1>3 DEF Inv, Locked, Submitting, InTimeout, Scanning,
     Completing, Polling, Handling
<1>7. Listed'
  BY <1>1, <1>2, <1>3 DEF Inv, Listed
<1>8. Progress'
  BY <1>1, <1>2, <1>3 DEF Inv, Progress, Unsubmitted, Submitting
<1>9. InHands'
  <2> SUFFICES ASSUME NEW v \in Threads PROVE Holds(v)'
    BY DEF InHands
  <2>1. Holds(v) /\ at[v] \in Threads \cup {NoOne}
    BY DEF Inv, Types, InHands
  <2> QED
    BY <1>1, <1>2, <1>3, <2>1 DEF Holds, Unsubmitted, Submitting, InTimeout,
       Completing
<1>10. Copied'
  BY <1>1, <1>2, <1>3 DEF Inv, Copied, Completing, Polling
<1>11. Counted'
  BY <1>1, <1>2, <1>3 DEF Inv, Counted, Closing
<1>12. PipeMatches'
  BY <1>1, <1>2, <1>3 DEF Inv, PipeMatches
<1> QED
  BY <1>4, <1>5, <1>6, <1>7, <1>8, <1>9, <1>10, <1>11, <1>12 DEF Inv

LEMMA PollPipeStep ==
    ASSUME Inv, NEW t \in Threads, PollPipe(t)
    PROVE  Inv'
<1>1. pc[t] = "poll" /\ pc'[t] \in {"reap", "repoll", "unlock"}
      /\ \A v \in Threads \ {t} : pc'[v] = pc[v]
  BY DEF Inv, Types, PollPipe
<1>2. UNCHANGED <<at, until, seen, flying, flyLock, lock, flags, timer, urb,
                  action, status, events, active, waiters, closing, ipollfds,
                  modified, pollfds, sent>>
  BY DEF PollPipe, vars, threads, transfers, locks, eventData, polling
<1>3. /\ messages \in Nat /\ pipe > 0
      /\ messages' = IF messages > 0 THEN messages - 1 ELSE 0
      /\ pipe' = IF closing > 0 \/ modified \/ messages' > 0 THEN pipe ELSE pipe - 1
  BY DEF Inv, Types, PollPipe, ClearUnless
<1>4. Types'
  <2>1. pc' \in [Threads -> Labels]
    BY <1>1 DEF Inv, Types, PollPipe, Labels, Unsubmitted, Submitting,
       InTimeout, Scanning, Completing, Polling, Closing, Handling
  <2>2. messages' \in Nat
    BY <1>3
  <2> QED
    BY <1>2, <2>1, <2>2 DEF Inv, Types
<1>5. Sorted'
  BY <1>2 DEF Inv, Sorted
<1>6. Locked'
  BY <1>1, <1>2, <1>3 DEF Inv, Locked, Submitting, InTimeout, Scanning,
     Completing, Polling, Handling
<1>7. Listed'
  BY <1>1, <1>2, <1>3 DEF Inv, Listed
<1>8. Progress'
  BY <1>1, <1>2, <1>3 DEF Inv, Progress, Unsubmitted, Submitting
<1>9. InHands'
  <2> SUFFICES ASSUME NEW v \in Threads PROVE Holds(v)'
    BY DEF InHands
  <2>1. Holds(v) /\ at[v] \in Threads \cup {NoOne}
    BY DEF Inv, Types, InHands
  <2> QED
    BY <1>1, <1>2, <1>3, <2>1 DEF Holds, Unsubmitted, Submitting, InTimeout,
       Completing
<1>10. Copied'
  BY <1>1, <1>2, <1>3 DEF Inv, Copied, Completing, Polling
<1>11. Counted'
  BY <1>1, <1>2, <1>3 DEF Inv, Counted, Closing
<1>12. PipeMatches'
  BY <1>1, <1>2, <1>3 DEF Inv, PipeMatches
<1> QED
  BY <1>4, <1>5, <1>6, <1>7, <1>8, <1>9, <1>10, <1>11, <1>12 DEF Inv

LEMMA PollDevicesStep ==
    ASSUME Inv, NEW t \in Threads, PollDevices(t)
    PROVE  Inv'
<1>1. pc[t] = "poll" /\ pc'[t] = "reap"
      /\ \A v \in Threads \ {t} : pc'[v] = pc[v]
  BY DEF Inv, Types, PollDevices
<1>2. UNCHANGED <<at, until, seen, flying, flyLock, lock, flags, timer, urb,
                  action, status, events, active, waiters, closing, ipollfds,
                  modified, pollfds, pipe, messages, sent>>
  BY DEF PollDevices, vars, threads, transfers, locks, eventData, polling
<1>3. Types'
  <2>1. pc' \in [Threads -> Labels]
    BY <1>1 DEF Inv, Types, PollDevices, Labels, Unsubmitted, Submitting,
       InTimeout, Scanning, Completing, Polling, Closing, Handling
  <2> QED
    BY <1>2, <2>1 DEF Inv, Types
<1>4. Sorted'
  BY <1>2 DEF Inv, Sorted
<1>5. Locked'
  BY <1>1, <1>2 DEF Inv, Locked, Submitting, InTimeout, Scanning, Completing,
     Polling, Handling
<1>6. Listed'
  BY <1>1, <1>2 DEF Inv, Listed
<1>7. Progress'
  BY <1>1, <1>2 DEF Inv, Progress, Unsubmitted, Submitting
<1>8. InHands'
  <2> SUFFICES ASSUME NEW v \in Threads PROVE Holds(v)'
    BY DEF InHands
  <2>1. Holds(v) /\ at[v] \in Threads \cup {NoOne}
    BY DEF Inv, Types, InHands
  <2> QED
    BY <1>1, <1>2, <2>1 DEF Holds, Unsubmitted, Submitting, InTimeout,
       Completing
<1>9. Copied'
  BY <1>1, <1>2 DEF Inv, Copied, Completing, Polling
<1>10. Counted'
  BY <1>1, <1>2 DEF Inv, Counted, Closing
<1>11. PipeMatches'
  BY <1>1, <1>2 DEF Inv, PipeMatches
<1> QED
  BY <1>3, <1>4, <1>5, <1>6, <1>7, <1>8, <1>9, <1>10, <1>11 DEF Inv

LEMMA PollTimesOutStep ==
    ASSUME Inv, NEW t \in Threads, PollTimesOut(t)
    PROVE  Inv'
<1>1. pc[t] = "poll" /\ pc'[t] = "timeouts"
      /\ \A v \in Threads \ {t} : pc'[v] = pc[v]
  BY DEF Inv, Types, PollTimesOut
<1>2. UNCHANGED <<at, until, seen, flying, flyLock, lock, flags, timer, urb,
                  action, status, events, active, waiters, closing, ipollfds,
                  modified, pollfds, pipe, messages, special, sent>>
  BY DEF PollTimesOut, vars, threads, transfers, locks, eventData, polling
<1>3. Types'
  <2>1. pc' \in [Threads -> Labels]
    BY <1>1 DEF Inv, Types, PollTimesOut, Labels, Unsubmitted, Submitting,
       InTimeout, Scanning, Completing, Polling, Closing, Handling
  <2> QED
    BY <1>2, <2>1 DEF Inv, Types
<1>4. Sorted'
  BY <1>2 DEF Inv, Sorted
<1>5. Locked'
  BY <1>1, <1>2 DEF Inv, Locked, Submitting, InTimeout, Scanning, Completing,
     Polling, Handling
<1>6. Listed'
  BY <1>1, <1>2 DEF Inv, Listed
<1>7. Progress'
  BY <1>1, <1>2 DEF Inv, Progress, Unsubmitted, Submitting
<1>8. InHands'
  <2> SUFFICES ASSUME NEW v \in Threads PROVE Holds(v)'
    BY DEF InHands
  <2>1. Holds(v) /\ at[v] \in Threads \cup {NoOne}
    BY DEF Inv, Types, InHands
  <2> QED
    BY <1>1, <1>2, <2>1 DEF Holds, Unsubmitted, Submitting, InTimeout,
       Completing
<1>9. Copied'
  BY <1>1, <1>2 DEF Inv, Copied, Completing, Polling
<1>10. Counted'
  BY <1>1, <1>2 DEF Inv, Counted, Closing
<1>11. PipeMatches'
  BY <1>1, <1>2 DEF Inv, PipeMatches
<1> QED
  BY <1>3, <1>4, <1>5, <1>6, <1>7, <1>8, <1>9, <1>10, <1>11 DEF Inv

LEMMA PollAgainStep ==
    ASSUME Inv, NEW t \in Threads, PollAgain(t)
    PROVE  Inv'
<1>1. pc[t] = "repoll" /\ pc'[t] \in {"poll", "timeouts"}
      /\ \A v \in Threads \ {t} : pc'[v] = pc[v]
  BY DEF Inv, Types, PollAgain
<1>2. UNCHANGED <<at, until, seen, flying, flyLock, lock, flags, timer, urb,
                  action, status, events, active, waiters, closing, ipollfds,
                  modified, pollfds, pipe, messages, sent>>
  BY DEF PollAgain, vars, threads, transfers, locks, eventData, polling
<1>3. Types'
  <2>1. pc' \in [Threads -> Labels]
    BY <1>1 DEF Inv, Types, PollAgain, Labels, Unsubmitted, Submitting,
       InTimeout, Scanning, Completing, Polling, Closing, Handling
  <2> QED
    BY <1>2, <2>1 DEF Inv, Types
<1>4. Sorted'
  BY <1>2 DEF Inv, Sorted
<1>5. Locked'
  BY <1>1, <1>2 DEF Inv, Locked, Submitting, InTimeout, Scanning, Completing,
     Polling, Handling
<1>6. Listed'
  BY <1>1, <1>2 DEF Inv, Listed
<1>7. Progress'
  BY <1>1, <1>2 DEF Inv, Progress, Unsubmitted, Submitting
<1>8. InHands'
  <2> SUFFICES ASSUME NEW v \in Threads PROVE Holds(v)'
    BY DEF InHands
  <2>1. Holds(v) /\ at[v] \in Threads \cup {NoOne}
    BY DEF Inv, Types, InHands
  <2> QED
    BY <1>1, <1>2, <2>1 DEF Holds, Unsubmitted, Submitting, InTimeout,
       Completing
<1>9. Copied'
  BY <1>1, <1>2 DEF Inv, Copied, Completing, Polling
<1>10. Counted'
  BY <1>1, <1>2 DEF Inv, Counted, Closing
<1>11. PipeMatches'
  BY <1>1, <1>2 DEF Inv, PipeMatches
<1> QED
  BY <1>3, <1>4, <1>5, <1>6, <1>7, <1>8, <1>9, <1>10, <1>11 DEF Inv

LEMMA ReapStep ==
    ASSUME Inv, NEW t \in Threads, NEW u \in Threads, Reap(t, u)
    PROVE  Inv'
<1>1. pc[t] = "reap" /\ pc'[t] \in {"completed", "timeout", "cancelled"}
      /\ \A v \in Threads \ {t} : pc'[v] = pc[v]
  BY DEF Inv, Types, Reap
<1>2. UNCHANGED <<until, seen, flying, flyLock, lock, flags, timer, action,
                  status, events, active, waiters, closing, ipollfds,
                  modified, pollfds, pipe, messages, special, sent>>
  BY DEF Reap, vars, threads, transfers, locks, eventData, polling
<1>3. /\ urb[u] # "none" /\ lock[u] = NoOne /\ NoOne \notin Threads
  BY IoAssumption DEF Reap, IoAssumption
<1>4. urb'[u] = "none" /\ \A v \in Threads \ {u} : urb'[v] = urb[v]
  BY DEF Inv, Types, Reap
<1>5. u \in ToSet(flying) /\ pc[u] \notin Unsubmitted \cup Submitting
  BY <1>3 DEF Inv, Locked, Listed, Progress, Unsubmitted, Submitting
<1>6. at'[t] = u /\ \A v \in Threads \ {t} : at'[v] = at[v]
  BY DEF Inv, Types, Reap
<1>7. Types'
  <2>1. pc' \in [Threads -> Labels]
    BY <1>1 DEF Inv, Types, Reap, Labels, Unsubmitted, Submitting, InTimeout,
       Scanning, Completing, Polling, Closing, Handling
  <2>2. urb' \in [Threads -> {"none", "pending", "done", "killed"}]
    BY <1>1 DEF Inv, Types, Reap
  <2>3. at' \in [Threads -> Threads \cup {NoOne}]
    BY <1>1 DEF Inv, Types, Reap
  <2> QED
    BY <1>2, <2>1, <2>2, <2>3 DEF Inv, Types
<1>8. Sorted'
  BY <1>2 DEF Inv, Sorted
<1>9. Locked'
  BY <1>1, <1>2, <1>3, <1>4, <1>5, <1>6 DEF Inv, Locked, Submitting,
     InTimeout, Scanning, Completing, Polling, Handling
<1>10. Listed'
  BY <1>1, <1>2, <1>3, <1>4, <1>5, <1>6 DEF Inv, Listed
<1>11. Progress'
  BY <1>1, <1>2, <1>3, <1>4, <1>5, <1>6 DEF Inv, Progress, Unsubmitted,
     Submitting
<1>12. InHands'
  <2> SUFFICES ASSUME NEW v \in Threads PROVE Holds(v)'
    BY DEF InHands
  <2>1. Holds(v) /\ at[v] \in Threads \cup {NoOne}
    BY DEF Inv, Types, InHands
  <2>2. CASE v = t
    BY <1>1, <1>2, <1>3, <1>4, <1>5, <1>6, <2>1, <2>2 DEF Holds, Unsubmitted,
       Submitting, InTimeout, Completing
  <2>3. CASE v # t
    BY <1>1, <1>2, <1>3, <1>4, <1>5, <1>6, <2>1, <2>3 DEF Holds, Unsubmitted,
       Submitting, InTimeout, Completing
  <2> QED
    BY <2>2, <2>3
<1>13. Copied'
  BY <1>1, <1>2, <1>3, <1>4, <1>5, <1>6 DEF Inv, Copied, Completing, Polling
<1>14. Counted'
  BY <1>1, <1>2, <1>3, <1>4, <1>5, <1>6 DEF Inv, Counted, Closing
<1>15. PipeMatches'
  BY <1>1, <1>2, <1>3, <1>4, <1>5, <1>6 DEF Inv, PipeMatches
<1> QED
  BY <1>7, <1>8, <1>9, <1>10, <1>11, <1>12, <1>13, <1>14, <1>15 DEF Inv

LEMMA HandleCompletionStep ==
    ASSUME Inv, NEW t \in Threads, HandleCompletion(t)
    PROVE  Inv'
<1> DEFINE u == at[t]
<1>1. pc[t] \in Completing /\ pc'[t] = "reap"
      /\ \A v \in Threads \ {t} : pc'[v] = pc[v]
  BY DEF Inv, Types, HandleCompletion, Completing
<1>2. UNCHANGED <<until, seen, flyLock, lock, timer, urb, action, events,
                  active, waiters, closing, ipollfds, modified, pollfds, pipe,
                  messages, special, sent>>
  BY DEF HandleCompletion, vars, threads, transfers, locks, eventData, polling
<1>3. u \in Threads /\ Holds(t) /\ NoOne \notin Threads /\ flyLock = NoOne
  BY <1>1, IoAssumption
  DEF Inv, Types, InHands, Holds, HandleCompletion, MayRemove, IoAssumption
<1>4. /\ u \in ToSet(flying) /\ urb[u] = "none"
      /\ pc[u] \notin Unsubmitted \cup Submitting
  BY <1>1, <1>3 DEF Holds
<1>5. at'[t] = NoOne /\ \A v \in Threads \ {t} : at'[v] = at[v]
  BY DEF Inv, Types, HandleCompletion
<1>6. status'[u] # "none" /\ \A v \in Threads \ {u} : status'[v] = status[v]
  BY <1>3 DEF Inv, Types, HandleCompletion
<1>7. Sorted' /\ ToSet(flying') = ToSet(flying) \ {u}
  BY <1>4, Removed DEF Inv, HandleCompletion
<1>8. Types'
  <2>1. pc' \in [Threads -> Labels]
    BY <1>1 DEF Inv, Types, HandleCompletion, Labels, Handling, Polling
  <2>2. at' \in [Threads -> Threads \cup {NoOne}]
    BY DEF Inv, Types, HandleCompletion
  <2>3. flags' \in [Threads -> SUBSET AllFlags]
    BY <1>3 DEF Inv, Types, HandleCompletion, AllFlags
  <2>4. status' \in [Threads -> {"none", "refused"} \cup Completing]
    BY <1>1, <1>3 DEF Inv, Types, HandleCompletion
  <2> QED
    BY <1>2, <2>1, <2>2, <2>3, <2>4 DEF Inv, Types
<1> HIDE DEF u
<1>9. Locked'
  BY <1>1, <1>2 DEF Inv, Locked, Submitting, InTimeout, Scanning, Completing,
     Polling, Handling
<1>10. Listed'
  <2>1. \A v \in Threads : pc'[v] \in {"open", "submit"} <=> pc[v] \in {"open", "submit"}
    BY <1>1 DEF Completing
  <2> QED
    BY <1>4, <1>6, <1>7, <2>1 DEF Inv, Listed, Unsubmitted
<1>11. Progress'
  <2> SUFFICES ASSUME NEW v \in Threads,
                      pc'[v] \in Unsubmitted \cup Submitting \/ urb'[v] # "none"
               PROVE  status'[v] = "none" /\ (pc'[v] \in Unsubmitted => urb'[v] = "none")
    BY <1>1, <1>2 DEF Inv, Progress
  <2>1. pc'[v] \in Unsubmitted \cup Submitting => pc'[v] = pc[v]
    BY <1>1 DEF Unsubmitted, Submitting
  <2>2. v # u
    BY <1>2, <1>4, <2>1
  <2> QED
    BY <1>2, <1>6, <2>1, <2>2 DEF Inv, Progress
<1>12. InHands'
  <2> SUFFICES ASSUME NEW v \in Threads PROVE Holds(v)'
    BY DEF InHands
  <2>1. CASE v = t
    BY <1>1, <1>5, <2>1 DEF Holds, InTimeout, Completing
  <2>2. CASE v # t
    <3>1. Holds(v) /\ at[v] \in Threads \cup {NoOne}
      BY DEF Inv, Types, InHands
    <3>2. pc[v] \notin InTimeout \cup Completing
      BY <1>1, <1>3, <2>2 DEF Inv, Locked, Scanning, Handling, Polling
    <3> QED
      BY <1>1, <1>3, <1>5, <2>2, <3>1, <3>2 DEF Holds
  <2> QED
    BY <2>1, <2>2
<1>13. Copied'
  BY <1>1, <1>2 DEF Inv, Copied, Completing, Polling
<1>14. Counted'
  <2>1. \A v \in Threads : pc'[v] \in Closing <=> pc[v] \in Closing
    BY <1>1 DEF Closing, Completing
  <2> QED
    BY <1>2, <2>1 DEF Inv, Counted
<1>15. PipeMatches'
  BY <1>2 DEF Inv, PipeMatches
<1> QED
  BY <1>7, <1>8, <1>9, <1>10, <1>11, <1>12, <1>13, <1>14, <1>15 DEF Inv

LEMMA ReapEndsStep ==
    ASSUME Inv, NEW t \in Threads, ReapEnds(t)
    PROVE  Inv'
<1>1. pc[t] = "reap" /\ pc'[t] \in {"repoll", "unlock"}
      /\ \A v \in Threads \ {t} : pc'[v] = pc[v]
  BY DEF Inv, Types, ReapEnds
<1>2. UNCHANGED <<at, until, seen, flying, flyLock, lock, flags, timer, urb,
                  action, status, events, active, waiters, closing, ipollfds,
                  modified, pollfds, pipe, messages, special, sent>>
  BY DEF ReapEnds, vars, threads, transfers, locks, eventData, polling
<1>3. Types'
  <2>1. pc' \in [Threads -> Labels]
    BY <1>1 DEF Inv, Types, ReapEnds, Labels, Unsubmitted, Submitting,
       InTimeout, Scanning, Completing, Polling, Closing, Handling
  <2> QED
    BY <1>2, <2>1 DEF Inv, Types
<1>4. Sorted'
  BY <1>2 DEF Inv, Sorted
<1>5. Locked'
  BY <1>1, <1>2 DEF Inv, Locked, Submitting, InTimeout, Scanning, Completing,
     Polling, Handling
<1>6. Listed'
  BY <1>1, <1>2 DEF Inv, Listed
<1>7. Progress'
  BY <1>1, <1>2 DEF Inv, Progress, Unsubmitted, Submitting
<1>8. InHands'
  <2> SUFFICES ASSUME NEW v \in Threads PROVE Holds(v)'
    BY DEF InHands
  <2>1. Holds(v) /\ at[v] \in Threads \cup {NoOne}
    BY DEF Inv, Types, InHands
  <2> QED
    BY <1>1, <1>2, <2>1 DEF Holds, Unsubmitted, Submitting, InTimeout,
       Completing
<1>9. Copied'
  BY <1>1, <1>2 DEF Inv, Copied, Completing, Polling
<1>10. Counted'
  BY <1>1, <1>2 DEF Inv, Counted, Closing
<1>11. PipeMatches'
  BY <1>1, <1>2 DEF Inv, PipeMatches
<1> QED
  BY <1>3, <1>4, <1>5, <1>6, <1>7, <1>8, <1>9, <1>10, <1>11 DEF Inv

LEMMA UnlockEventsStep ==
    ASSUME Inv, NEW t \in Threads, UnlockEvents(t)
    PROVE  Inv'
<1>1. pc[t] = "unlock" /\ pc'[t] = "broadcast"
      /\ \A v \in Threads \ {t} : pc'[v] = pc[v]
  BY DEF Inv, Types, UnlockEvents
<1>2. UNCHANGED <<at, until, seen, flying, flyLock, lock, flags, timer, urb,
                  action, status, waiters, closing, ipollfds, modified,
                  pollfds, pipe, messages, special, sent>>
  BY DEF UnlockEvents, vars, threads, transfers, locks, eventData, polling
<1>3. Types'
  <2>1. pc' \in [Threads -> Labels]
    BY <1>1 DEF Inv, Types, UnlockEvents, Labels, Unsubmitted, Submitting,
       InTimeout, Scanning, Completing, Polling, Closing, Handling
  <2>2. events' \in Threads \cup {NoOne}
    BY <1>1 DEF Inv, Types, UnlockEvents
  <2> QED
    BY <1>2, <2>1, <2>2 DEF Inv, Types
<1>4. Sorted'
  BY <1>2 DEF Inv, Sorted
<1>5. Locked'
  BY <1>1, <1>2 DEF Inv, Locked, Submitting, InTimeout, Scanning, Completing,
     Polling, Handling
<1>6. Listed'
  BY <1>1, <1>2 DEF Inv, Listed
<1>7. Progress'
  BY <1>1, <1>2 DEF Inv, Progress, Unsubmitted, Submitting
<1>8. InHands'
  <2> SUFFICES ASSUME NEW v \in Threads PROVE Holds(v)'
    BY DEF InHands
  <2>1. Holds(v) /\ at[v] \in Threads \cup {NoOne}
    BY DEF Inv, Types, InHands
  <2> QED
    BY <1>1, <1>2, <2>1 DEF Holds, Unsubmitted, Submitting, InTimeout,
       Completing
<1>9. Copied'
  BY <1>1, <1>2 DEF Inv, Copied, Completing, Polling
<1>10. Counted'
  BY <1>1, <1>2 DEF Inv, Counted, Closing
<1>11. PipeMatches'
  BY <1>1, <1>2 DEF Inv, PipeMatches
<1> QED
  BY <1>3, <1>4, <1>5, <1>6, <1>7, <1>8, <1>9, <1>10, <1>11 DEF Inv

(* Waking the waiters moves only those that wait, and whoever wakes them.  *)
LEMMA BroadcastStep ==
    ASSUME Inv, NEW t \in Threads, Broadcast(t)
    PROVE  Inv'
<1>1. /\ pc[t] \in {"broadcast", "closed"} /\ pc'[t] \in {"loop", "done"}
      /\ \A v \in Threads \ {t} :
           pc'[v] = pc[v] \/ (pc[v] = "waiting" /\ pc'[v] = "loop")
  BY DEF Broadcast, Woken
<1>2. UNCHANGED <<at, until, seen, flying, flyLock, lock, flags, timer, urb,
                  action, status, events, active, waiters, closing, ipollfds,
                  modified, pollfds, pipe, messages, special, sent>>
  BY DEF Broadcast, vars, threads, transfers, locks, eventData, polling
<1>3. Types'
  <2>1. pc' \in [Threads -> Labels]
    BY DEF Inv, Types, Broadcast, Woken, Labels
  <2> QED
    BY <1>2, <2>1 DEF Inv, Types
<1>4. Sorted'
  BY <1>2 DEF Inv, Sorted
<1>5. Locked'
  BY <1>1, <1>2 DEF Inv, Locked, Submitting, InTimeout, Scanning, Completing,
     Polling, Handling
<1>6. Listed'
  BY <1>1, <1>2 DEF Inv, Listed
<1>7. Progress'
  BY <1>1, <1>2 DEF Inv, Progress, Unsubmitted, Submitting
<1>8. InHands'
  <2> SUFFICES ASSUME NEW v \in Threads PROVE Holds(v)'
    BY DEF InHands
  <2>1. Holds(v) /\ at[v] \in Threads \cup {NoOne}
    BY DEF Inv, Types, InHands
  <2> QED
    BY <1>1, <1>2, <2>1 DEF Holds, Unsubmitted, Submitting, InTimeout, Completing
<1>9. Copied'
  BY <1>1, <1>2 DEF Inv, Copied, Completing, Polling
<1>10. Counted'
  BY <1>1, <1>2 DEF Inv, Counted, Closing
<1>11. PipeMatches'
  BY <1>2 DEF Inv, PipeMatches
<1> QED
  BY <1>3, <1>4, <1>5, <1>6, <1>7, <1>8, <1>9, <1>10, <1>11 DEF Inv

LEMMA CloseBeginStep ==
    ASSUME Inv, NEW t \in Threads, CloseBegin(t)
    PROVE  Inv'
<1>1. pc[t] = "close" /\ pc'[t] = "close lock"
      /\ \A v \in Threads \ {t} : pc'[v] = pc[v]
  BY DEF Inv, Types, CloseBegin
<1>2. UNCHANGED <<at, until, seen, flying, flyLock, lock, flags, timer, urb,
                  action, status, events, active, waiters, ipollfds, modified,
                  pollfds, messages, special, sent>>
  BY DEF CloseBegin, vars, threads, transfers, locks, eventData, polling
<1>3. closing' = closing + 1 /\ closing \in Nat
      /\ pipe' = IF closing > 0 \/ modified \/ messages > 0 THEN pipe ELSE pipe + 1
  BY CountedNat DEF Inv, CloseBegin, CloseSignals, Signal
<1>4. Types'
  <2>1. pc' \in [Threads -> Labels]
    BY <1>1 DEF Inv, Types, CloseBegin, Labels, Unsubmitted, Submitting,
       InTimeout, Scanning, Completing, Polling, Closing, Handling
  <2> QED
    BY <1>2, <2>1 DEF Inv, Types
<1>5. Sorted'
  BY <1>2 DEF Inv, Sorted
<1>6. Locked'
  BY <1>1, <1>2, <1>3 DEF Inv, Locked, Submitting, InTimeout, Scanning,
     Completing, Polling, Handling
<1>7. Listed'
  BY <1>1, <1>2, <1>3 DEF Inv, Listed
<1>8. Progress'
  BY <1>1, <1>2, <1>3 DEF Inv, Progress, Unsubmitted, Submitting
<1>9. InHands'
  <2> SUFFICES ASSUME NEW v \in Threads PROVE Holds(v)'
    BY DEF InHands
  <2>1. Holds(v) /\ at[v] \in Threads \cup {NoOne}
    BY DEF Inv, Types, InHands
  <2> QED
    BY <1>1, <1>2, <1>3, <2>1 DEF Holds, Unsubmitted, Submitting, InTimeout,
       Completing
<1>10. Copied'
  BY <1>1, <1>2, <1>3 DEF Inv, Copied, Completing, Polling
<1>11. Counted'
  <2> DEFINE S == {v \in Threads : pc[v] \in Closing}
  <2>1. S' = S \cup {t} /\ t \notin S
    BY <1>1 DEF Closing
  <2>2. IsFiniteSet(S)
    BY IoAssumption, FS_Subset DEF IoAssumption
  <2>3. Cardinality(S') = Cardinality(S) + 1
    BY <2>1, <2>2, FS_AddElement
  <2> QED
    BY <1>3, <2>3 DEF Inv, Counted
<1>12. PipeMatches'
  <2>1. closing' > 0
    BY <1>3
  <2>2. pipe' = 1
    <3>1. CASE Pending
      BY <1>3, <3>1 DEF Inv, PipeMatches
    <3>2. CASE ~Pending
      BY <1>3, <3>2 DEF Inv, PipeMatches
    <3> QED
      BY <3>1, <3>2
  <2> QED
    BY <2>1, <2>2 DEF PipeMatches
<1> QED
  BY <1>4, <1>5, <1>6, <1>7, <1>8, <1>9, <1>10, <1>11, <1>12 DEF Inv

LEMMA CloseLockStep ==
    ASSUME Inv, NEW t \in Threads, CloseLock(t)
    PROVE  Inv'
<1>1. pc[t] = "close lock" /\ pc'[t] = "close fd"
      /\ \A v \in Threads \ {t} : pc'[v] = pc[v]
  BY DEF Inv, Types, CloseLock
<1>2. UNCHANGED <<at, until, seen, flying, flyLock, lock, flags, timer, urb,
                  action, status, waiters, closing, ipollfds, modified,
                  pollfds, pipe, messages, special, sent>>
  BY DEF CloseLock, vars, threads, transfers, locks, eventData, polling
<1>3. events = NoOne /\ events' = t /\ NoOne \notin Threads
  BY IoAssumption DEF CloseLock, IoAssumption
<1>4. Types'
  <2>1. pc' \in [Threads -> Labels]
    BY <1>1 DEF Inv, Types, CloseLock, Labels, Unsubmitted, Submitting,
       InTimeout, Scanning, Completing, Polling, Closing, Handling
  <2>2. events' \in Threads \cup {NoOne}
    BY <1>1 DEF Inv, Types, CloseLock
  <2> QED
    BY <1>2, <2>1, <2>2 DEF Inv, Types
<1>5. Sorted'
  BY <1>2 DEF Inv, Sorted
<1>6. Locked'
  BY <1>1, <1>2, <1>3 DEF Inv, Locked, Submitting, InTimeout, Scanning,
     Completing, Polling, Handling
<1>7. Listed'
  BY <1>1, <1>2, <1>3 DEF Inv, Listed
<1>8. Progress'
  BY <1>1, <1>2, <1>3 DEF Inv, Progress, Unsubmitted, Submitting
<1>9. InHands'
  <2> SUFFICES ASSUME NEW v \in Threads PROVE Holds(v)'
    BY DEF InHands
  <2>1. Holds(v) /\ at[v] \in Threads \cup {NoOne}
    BY DEF Inv, Types, InHands
  <2> QED
    BY <1>1, <1>2, <1>3, <2>1 DEF Holds, Unsubmitted, Submitting, InTimeout,
       Completing
<1>10. Copied'
  BY <1>1, <1>2, <1>3 DEF Inv, Copied, Completing, Polling
<1>11. Counted'
  BY <1>1, <1>2, <1>3 DEF Inv, Counted, Closing
<1>12. PipeMatches'
  BY <1>1, <1>2, <1>3 DEF Inv, PipeMatches
<1> QED
  BY <1>4, <1>5, <1>6, <1>7, <1>8, <1>9, <1>10, <1>11, <1>12 DEF Inv

LEMMA DoCloseStep ==
    ASSUME Inv, NEW t \in Threads, DoClose(t)
    PROVE  Inv'
<1>1. /\ pc[t] = "close fd" /\ pc'[t] = "close end"
      /\ \A v \in Threads \ {t} :
           pc'[v] = pc[v] \/ (pc[v] = "waiting" /\ pc'[v] = "loop")
  BY DEF DoClose, Woken
<1>2. UNCHANGED <<at, until, seen, flying, flyLock, lock, flags, timer, urb,
                  action, status, events, waiters, closing, pollfds, pipe,
                  messages, special, sent>>
  BY DEF DoClose, vars, threads, transfers, locks, eventData, polling
<1>3. ipollfds' = ipollfds \ {t} /\ modified' = TRUE
  BY DEF DoClose, RemovePollfd
<1>4. Types'
  <2>1. pc' \in [Threads -> Labels]
    BY DEF Inv, Types, DoClose, Woken, Labels, Handling
  <2> QED
    BY <1>2, <1>3, <2>1 DEF Inv, Types
<1>5. Sorted'
  BY <1>2 DEF Inv, Sorted
<1>6. Locked'
  BY <1>1, <1>2 DEF Inv, Locked, Submitting, InTimeout, Scanning, Completing,
     Polling, Handling
<1>7. Listed'
  BY <1>1, <1>2 DEF Inv, Listed
<1>8. Progress'
  BY <1>1, <1>2 DEF Inv, Progress, Unsubmitted, Submitting
<1>9. InHands'
  <2> SUFFICES ASSUME NEW v \in Threads PROVE Holds(v)'
    BY DEF InHands
  <2>1. Holds(v) /\ at[v] \in Threads \cup {NoOne}
    BY DEF Inv, Types, InHands
  <2> QED
    BY <1>1, <1>2, <2>1 DEF Holds, Unsubmitted, Submitting, InTimeout, Completing
<1>10. Copied'
  <2>1. \A v \in Threads : pc[v] \notin Polling
    BY <1>1 DEF Inv, Locked, Handling, Polling, Completing
  <2> QED
    BY <1>1, <1>3, <2>1 DEF Copied, Polling, Completing
<1>11. Counted'
  <2>1. \A v \in Threads : pc'[v] \in Closing <=> pc[v] \in Closing
    BY <1>1 DEF Closing
  <2> QED
    BY <1>2, <2>1 DEF Inv, Counted
<1>12. PipeMatches'
  <2>1. closing > 0
    BY <1>1, CloserCounted DEF Inv, Closing
  <2>2. pipe = 1
    BY <2>1 DEF Inv, PipeMatches
  <2> QED
    BY <1>2, <2>1, <2>2 DEF PipeMatches
<1> QED
  BY <1>4, <1>5, <1>6, <1>7, <1>8, <1>9, <1>10, <1>11, <1>12 DEF Inv

LEMMA CloseEndStep ==
    ASSUME Inv, NEW t \in Threads, CloseEnd(t)
    PROVE  Inv'
<1>1. pc[t] = "close end" /\ pc'[t] = "close unlock"
      /\ \A v \in Threads \ {t} : pc'[v] = pc[v]
  BY DEF Inv, Types, CloseEnd
<1>2. UNCHANGED <<at, until, seen, flying, flyLock, lock, flags, timer, urb,
                  action, status, events, active, waiters, ipollfds, modified,
                  pollfds, messages, special, sent>>
  BY DEF CloseEnd, vars, threads, transfers, locks, eventData, polling
<1>3. closing' = closing - 1 /\ closing \in Nat /\ closing > 0
      /\ pipe' = IF closing - 1 > 0 \/ modified \/ messages > 0 THEN pipe ELSE pipe - 1
  BY <1>1, CountedNat, CloserCounted DEF Inv, CloseEnd, ClearUnless, Closing
<1>4. Types'
  <2>1. pc' \in [Threads -> Labels]
    BY <1>1 DEF Inv, Types, CloseEnd, Labels, Unsubmitted, Submitting,
       InTimeout, Scanning, Completing, Polling, Closing, Handling
  <2> QED
    BY <1>2, <2>1 DEF Inv, Types
<1>5. Sorted'
  BY <1>2 DEF Inv, Sorted
<1>6. Locked'
  BY <1>1, <1>2, <1>3 DEF Inv, Locked, Submitting, InTimeout, Scanning,
     Completing, Polling, Handling
<1>7. Listed'
  BY <1>1, <1>2, <1>3 DEF Inv, Listed
<1>8. Progress'
  BY <1>1, <1>2, <1>3 DEF Inv, Progress, Unsubmitted, Submitting
<1>9. InHands'
  <2> SUFFICES ASSUME NEW v \in Threads PROVE Holds(v)'
    BY DEF InHands
  <2>1. Holds(v) /\ at[v] \in Threads \cup {NoOne}
    BY DEF Inv, Types, InHands
  <2> QED
    BY <1>1, <1>2, <1>3, <2>1 DEF Holds, Unsubmitted, Submitting, InTimeout,
       Completing
<1>10. Copied'
  BY <1>1, <1>2, <1>3 DEF Inv, Copied, Completing, Polling
<1>11. Counted'
  <2> DEFINE S == {v \in Threads : pc[v] \in Closing}
  <2>1. S' = S \ {t} /\ t \in S
    BY <1>1 DEF Closing
  <2>2. IsFiniteSet(S)
    BY IoAssumption, FS_Subset DEF IoAssumption
  <2>3. Cardinality(S') = Cardinality(S) - 1
    BY <2>1, <2>2, FS_RemoveElement
  <2> QED
    BY <1>3, <2>3 DEF Inv, Counted
<1>12. PipeMatches'
  <2>1. pipe = 1
    BY <1>3 DEF Inv, PipeMatches
  <2>2. CASE Pending'
    BY <1>2, <1>3, <2>1, <2>2 DEF PipeMatches
  <2>3. CASE ~Pending'
    BY <1>2, <1>3, <2>1, <2>3 DEF PipeMatches
  <2> QED
    BY <2>2, <2>3
<1> QED
  BY <1>4, <1>5, <1>6, <1>7, <1>8, <1>9, <1>10, <1>11, <1>12 DEF Inv

LEMMA CloseUnlockStep ==
    ASSUME Inv, NEW t \in Threads, CloseUnlock(t)
    PROVE  Inv'
<1>1. pc[t] = "close unlock" /\ pc'[t] = "closed"
      /\ \A v \in Threads \ {t} : pc'[v] = pc[v]
  BY DEF Inv, Types, CloseUnlock
<1>2. UNCHANGED <<at, until, seen, flying, flyLock, lock, flags, timer, urb,
                  action, status, waiters, closing, ipollfds, modified,
                  pollfds, pipe, messages, special, sent>>
  BY DEF CloseUnlock, vars, threads, transfers, locks, eventData, polling
<1>3. Types'
  <2>1. pc' \in [Threads -> Labels]
    BY <1>1 DEF Inv, Types, CloseUnlock, Labels, Unsubmitted, Submitting,
       InTimeout, Scanning, Completing, Polling, Closing, Handling
  <2>2. events' \in Threads \cup {NoOne}
    BY <1>1 DEF Inv, Types, CloseUnlock
  <2> QED
    BY <1>2, <2>1, <2>2 DEF Inv, Types
<1>4. Sorted'
  BY <1>2 DEF Inv, Sorted
<1>5. Locked'
  BY <1>1, <1>2 DEF Inv, Locked, Submitting, InTimeout, Scanning, Completing,
     Polling, Handling
<1>6. Listed'
  BY <1>1, <1>2 DEF Inv, Listed
<1>7. Progress'
  BY <1>1, <1>2 DEF Inv, Progress, Unsubmitted, Submitting
<1>8. InHands'
  <2> SUFFICES ASSUME NEW v \in Threads PROVE Holds(v)'
    BY DEF InHands
  <2>1. Holds(v) /\ at[v] \in Threads \cup {NoOne}
    BY DEF Inv, Types, InHands
  <2> QED
    BY <1>1, <1>2, <2>1 DEF Holds, Unsubmitted, Submitting, InTimeout,
       Completing
<1>9. Copied'
  BY <1>1, <1>2 DEF Inv, Copied, Completing, Polling
<1>10. Counted'
  BY <1>1, <1>2 DEF Inv, Counted, Closing
<1>11. PipeMatches'
  BY <1>1, <1>2 DEF Inv, PipeMatches
<1> QED
  BY <1>3, <1>4, <1>5, <1>6, <1>7, <1>8, <1>9, <1>10, <1>11 DEF Inv

LEMMA UrbCompletesStep ==
    ASSUME Inv, NEW t \in Threads, UrbCompletes(t)
    PROVE  Inv'
<1>1. UNCHANGED <<pc, at, until, seen, flying, flyLock, lock, flags, timer,
                  action, status, events, active, waiters, closing, ipollfds,
                  modified, pollfds, pipe, messages, special, sent>>
  BY DEF UrbCompletes, vars, threads, transfers, locks, eventData, polling
<1>2. /\ urb[t] = "pending" /\ urb'[t] = "done"
      /\ \A v \in Threads \ {t} : urb'[v] = urb[v]
  BY DEF Inv, Types, UrbCompletes
<1>3. Types'
  <2>1. urb' \in [Threads -> {"none", "pending", "done", "killed"}]
    BY DEF Inv, Types, UrbCompletes
  <2> QED
    BY <1>1, <2>1 DEF Inv, Types
<1>4. Progress'
  BY <1>1, <1>2 DEF Inv, Progress, Unsubmitted, Submitting
<1>5. InHands'
  <2> SUFFICES ASSUME NEW v \in Threads PROVE Holds(v)'
    BY DEF InHands
  <2>1. Holds(v) /\ at[v] \in Threads \cup {NoOne}
    BY DEF Inv, Types, InHands
  <2> QED
    BY <1>1, <1>2, <2>1 DEF Holds
<1>6. Sorted' /\ Locked' /\ Listed' /\ Copied' /\ Counted' /\ PipeMatches'
  BY <1>1 DEF Inv, Sorted, Locked, Listed, Copied, Counted, PipeMatches
<1> QED
  BY <1>3, <1>4, <1>5, <1>6 DEF Inv

(* Time passes: the invariant does not look at the timers.                 *)
LEMMA ExpireStep ==
    ASSUME Inv, NEW t \in Threads, Expire(t)
    PROVE  Inv'
<1>1. UNCHANGED <<pc, at, until, seen, flying, flyLock, lock, flags, urb,
                  action, status, events, active, waiters, closing, ipollfds,
                  modified, pollfds, pipe, messages, special, sent>>
  BY DEF Expire, vars, threads, transfers, locks, eventData, polling
<1>2. Types' /\ Sorted' /\ Locked'
  BY <1>1 DEF Inv, Types, Sorted, Locked
<1>3. Listed' /\ Progress' /\ InHands'
  BY <1>1 DEF Inv, Listed, Progress, InHands, Holds
<1>4. Copied' /\ Counted' /\ PipeMatches'
  BY <1>1 DEF Inv, Copied, Counted, PipeMatches
<1> QED
  BY <1>2, <1>3, <1>4 DEF Inv

LEMMA MessageStep ==
    ASSUME Inv, Message
    PROVE  Inv'
<1>1. UNCHANGED <<pc, at, until, seen, flying, flyLock, lock, flags, timer, urb,
                  action, status, events, active, waiters, closing, ipollfds,
                  modified, pollfds, special>>
  BY DEF Message, vars, threads, transfers, locks, eventData, polling
<1>2. messages \in Nat /\ messages' = messages + 1
      /\ pipe' = IF closing > 0 \/ modified \/ messages > 0 THEN pipe ELSE pipe + 1
  BY DEF Inv, Types, Message, Signal
<1>3. Types' /\ Sorted' /\ Locked'
  BY <1>1, <1>2 DEF Inv, Types, Sorted, Locked
<1>4. Listed' /\ Progress' /\ InHands'
  BY <1>1 DEF Inv, Listed, Progress, InHands, Holds
<1>5. Copied' /\ Counted'
  BY <1>1 DEF Inv, Copied, Counted
<1>6. PipeMatches'
  <2>1. messages' > 0
    BY <1>2
  <2>2. pipe' = 1
    <3>1. CASE Pending
      BY <1>2, <3>1 DEF Inv, PipeMatches
    <3>2. CASE ~Pending
      BY <1>2, <3>2 DEF Inv, PipeMatches
    <3> QED
      BY <3>1, <3>2
  <2> QED
    BY <2>1, <2>2 DEF PipeMatches
<1> QED
  BY <1>3, <1>4, <1>5, <1>6 DEF Inv

---------------------------------------------------------------------------
LEMMA InitInv == Init => Inv
<1> SUFFICES ASSUME Init PROVE Inv
  OBVIOUS
<1>1. Types
  BY IoAssumption DEF Init, Types, Labels, Unsubmitted, IoAssumption
<1>2. flying = <<>> /\ Len(flying) = 0 /\ ToSet(flying) = {}
  BY DEF Init, ToSet
<1>3. Sorted
  BY <1>2 DEF Sorted, Distinct, TimedFirst
<1>4. Locked
  BY DEF Init, Locked, Submitting, InTimeout, Scanning, Completing, Polling,
     Handling
<1>5. Listed /\ Progress
  BY <1>2 DEF Init, Listed, Progress
<1>6. InHands
  BY DEF Init, InHands, Holds, InTimeout, Completing
<1>7. Copied
  BY DEF Init, Copied, Completing, Polling
<1>8. Counted
  <2>1. {t \in Threads : pc[t] \in Closing} = {}
    BY DEF Init, Closing
  <2> QED
    BY <2>1, FS_EmptySet DEF Init, Counted
<1>9. PipeMatches
  BY DEF Init, PipeMatches
<1> QED
  BY <1>1, <1>3, <1>4, <1>5, <1>6, <1>7, <1>8, <1>9 DEF Inv

LEMMA NextInv == Inv /\ [Next]_vars => Inv'
<1> SUFFICES ASSUME Inv, [Next]_vars PROVE Inv'
  OBVIOUS
<1>1. ASSUME NEW t \in Threads, SubmitTransfer(t) PROVE Inv'
  BY <1>1, SubmitStep, SubmitFailsStep, SubmitRemoveStep, SubmitUrbStep,
     SubmittedStep DEF SubmitTransfer
<1>2. ASSUME NEW t \in Threads, HandleTimeouts(t) PROVE Inv'
  BY <1>2, TimeoutsBeginStep, TimeoutsNextStep, TimeoutMarkStep,
     TimeoutCancelStep, TimedOutStep, TimeoutsEndStep DEF HandleTimeouts
<1>3. ASSUME NEW t \in Threads, WaitForCompletion(t) PROVE Inv'
  BY <1>3, LoopStep, TryLockEventsStep, LockWaitersStep, WaitStep,
     WaitTimesOutStep DEF WaitForCompletion
<1>4. ASSUME NEW t \in Threads, HandleEvents(t) PROVE Inv'
  BY <1>4, RefreshStep, PollPipeStep, PollDevicesStep, PollTimesOutStep,
     PollAgainStep, ReapStep, HandleCompletionStep, ReapEndsStep,
     UnlockEventsStep, BroadcastStep DEF HandleEvents
<1>5. ASSUME NEW t \in Threads, Close(t) PROVE Inv'
  BY <1>5, CloseBeginStep, CloseLockStep, DoCloseStep, CloseEndStep,
     CloseUnlockStep DEF Close
<1>6. ASSUME NEW t \in Threads, Thread(t) PROVE Inv'
  BY <1>1, <1>2, <1>3, <1>4, <1>5, <1>6, OpenStep DEF Thread
<1>7. CASE UNCHANGED vars
  <2>1. UNCHANGED <<pc, at, until, seen, flying, flyLock, lock, flags, urb,
                    status, events, waiters, closing, ipollfds, modified,
                    pollfds, pipe, messages>>
    BY <1>7 DEF vars, threads, transfers, locks, eventData, polling
  <2>2. Types' /\ Sorted' /\ Locked'
    BY <2>1 DEF Inv, Types, Sorted, Locked
  <2>3. Listed' /\ Progress' /\ InHands'
    BY <2>1 DEF Inv, Listed, Progress, InHands, Holds
  <2>4. Copied' /\ Counted' /\ PipeMatches'
    BY <2>1 DEF Inv, Copied, Counted, PipeMatches
  <2> QED
    BY <2>2, <2>3, <2>4 DEF Inv
<1> QED
  BY <1>6, <1>7, UrbCompletesStep, ExpireStep, MessageStep DEF Next

LEMMA Invariant == Spec => []Inv
  BY InitInv, NextInv, PTL DEF Spec

(* What the run checks follows from it.                                    *)
LEMMA InvTypeOK == Inv => TypeOK
<1> SUFFICES ASSUME Inv PROVE TypeOK
  OBVIOUS
<1>1. DOMAIN flying = 1 .. Len(flying) /\ ToSet(flying) \subseteq Threads
  BY LenProperties, ElementOfSeq DEF Inv, Sorted, ToSet
<1>2. IsInjective(flying)
  BY <1>1 DEF Inv, Sorted, Distinct, IsInjective
<1>3. \A i, j \in DOMAIN flying :
         i < j /\ flying[j] \in Timed => flying[i] \in Timed
  BY <1>1 DEF Inv, Sorted, TimedFirst
<1>4. closing \in 0 .. Cardinality(Threads)
  BY CountedNat DEF Inv
<1> QED
  BY <1>1, <1>2, <1>3, <1>4 DEF Inv, Types, TypeOK

LEMMA InvUsesLive == Inv => UsesLive
<1> SUFFICES ASSUME Inv PROVE UsesLive
  OBVIOUS
<1>1. PollsOpenHandles
  BY DEF Inv, Copied, Polling, PollsOpenHandles
<1>2. \A u \in ToSet(flying) : u \in Threads /\ ~Complete(u)
  BY InvTypeOK DEF Inv, TypeOK, Listed
<1>3. HandlesLiveTransfers
  <2>1. ASSUME NEW t \in Threads, at[t] # NoOne PROVE ~Complete(at[t])
    BY <1>2, <2>1 DEF Inv, InHands, Holds
  <2>2. \A i \in DOMAIN flying : ~Complete(flying[i])
    BY <1>2 DEF ToSet
  <2> QED
    BY <2>1, <2>2 DEF HandlesLiveTransfers
<1> QED
  BY <1>1, <1>3, InvTypeOK DEF UsesLive

(* The byte in the event pipe (usbi_fd_notification, libusb_close and      *)
(* usbi_hotplug_notification write it, handle_events reads it): there is   *)
(* one exactly while an event is pending, so that no poll misses an event  *)
(* and none returns for nothing.                                           *)
THEOREM PipeTellsTruth == Spec => []PipeMatches
<1>1. Inv => PipeMatches
  BY DEF Inv
<1> QED
  BY <1>1, Invariant, PTL

(* libusb_close and usbi_handle_transfer_completion against the threads    *)
(* that poll, reap and time out: none polls a handle that is closed, and   *)
(* none has a transfer in its hands that is complete and may be freed.     *)
THEOREM NothingFreedInUse == Spec => []UsesLive
  BY Invariant, InvUsesLive, PTL
=============================================================================
