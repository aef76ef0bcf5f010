-------------------------- MODULE LinuxUsbfsProofs --------------------------
(***************************************************************************)
(* What libusb's Linux backend guarantees for any transfer: whatever way   *)
(* it is split into URBs, and however they end, the results are in their   *)
(* places, and what is reported is true.                                   *)
(***************************************************************************)
EXTENDS LinuxUsbfs, SequenceTheorems, FunctionTheorems, FiniteSetTheorems,
        WellFoundedInduction, TLAPS

---------------------------------------------------------------------------
(* The URBs of the transfer, and those that are complete but not handled,  *)
(* in the order in which they will be.                                     *)
Pieces == Urbs(transfer)
Queue == IF reaping = NotReaping THEN completed ELSE <<reaping>> \o completed
Alive == tpriv.urbs # <<>>
Control == transfer.type = "control"

Flags == {"SHORT_NOT_OK", "BULK_CONTINUATION", "ZERO_PACKET"}
Urb == [index : Nat, at : Nat, flags : SUBSET Flags, length : Nat]
Entry == [urb : Urb, status : Statuses, data : Seq(Nat)]
Actions == {"normal", "submit_failed", "cancelled", "completed_early", "error"}
Priv == [urbs : Seq(Urb), reap_action : Actions, num_retired : Nat,
         reap_status : Outcomes \ {"none"}, iso_packet_offset : Nat]
Loop == [next : Int, first : Nat, last : Nat,
         ret : {"success", "not_found", "no_device"}]

Types ==
    /\ transfer \in Transfers \cup {NoTransfer}
    /\ stage \in {"idle", "submitting", "flying", "refused", "reported"}
    /\ outcome \in Outcomes /\ ending \in Outcomes
    /\ transferred \in Nat /\ disappeared \in BOOLEAN /\ tpriv \in Priv
    /\ lock \in {"none", "submit", "reap", "cancel"} /\ next \in Nat
    /\ discard \in Loop /\ reaping \in Entry \cup {NotReaping}
    /\ cancel \in {"uncalled", "success", "not_found", "no_device"}
    /\ pending \in Seq(Urb) /\ completed \in Seq(Entry)
    /\ endpoint \in {"ok", "halted", "disabled"}
    /\ device \in {"attached", "gone", "known"}
    /\ received \in Nat /\ faults \in Nat

(* Where the threads can be at each stage of the transfer.                 *)
Fresh ==
    /\ transfer = NoTransfer /\ outcome = "none" /\ transferred = 0 /\ ~disappeared
    /\ tpriv = NoPriv /\ lock = "none" /\ ending = "none" /\ cancel = "uncalled"
    /\ reaping = NotReaping /\ pending = <<>> /\ completed = <<>>
    /\ endpoint = "ok" /\ received = 0 /\ faults = 0 /\ ~Discarding
Over == ~Alive /\ lock = "none" /\ ending = "none" /\ reaping = NotReaping
Flow ==
    /\ stage = "idle" => Fresh
    /\ stage # "idle" => transfer \in Transfers
    /\ stage = "submitting" <=> lock = "submit"
    /\ stage \in {"refused", "reported"} => Over
    /\ stage = "submitting" =>
         /\ tpriv.urbs = Pieces /\ ending = "none"
         /\ next \in 1 .. Len(Pieces) + 1 /\ tpriv.reap_status = "completed"
         /\ cancel = "uncalled"
         /\ Discarding => tpriv.reap_action # "normal"
    /\ stage = "flying" =>
         /\ next = Len(Pieces) + 1
         /\ ending = "none" => tpriv.urbs = Pieces
         /\ ending # "none" => ~Alive /\ lock = "none" /\ reaping = NotReaping
    /\ lock \in {"reap", "cancel"} =>
         /\ stage = "flying" /\ ending = "none"
         /\ discard.last = Len(Pieces) /\ discard.next <= discard.last
    /\ lock = "cancel" =>
         /\ cancel = "uncalled"
         /\ discard.next = discard.last => discard.ret = "success"
    /\ device # "attached" => pending = <<>>
    /\ disappeared => /\ device # "attached" /\ reaping = NotReaping
                      /\ "REAP_AFTER_DISCONNECT" \notin transfer.caps
    /\ endpoint # "ok" => next > 1
    /\ endpoint = "disabled" => Bulk /\ use_bulk_continuation(transfer)

(* Each URB that was submitted has one place, and the kernel's are in      *)
(* order.                                                                  *)
Piece(u) == u.index \in 1 .. Len(Pieces) /\ u.index < next /\ u = Pieces[u.index]
Placed ==
    /\ \A i \in 1 .. Len(pending) : Piece(pending[i])
    /\ \A i \in 1 .. Len(Queue) : Piece(Queue[i].urb)
    /\ \A i, j \in 1 .. Len(pending) : i < j => pending[i].index < pending[j].index
    /\ \A i, j \in 1 .. Len(Queue) :
         Queue[i].urb.index = Queue[j].urb.index => i = j
    /\ \A i \in 1 .. Len(pending), j \in 1 .. Len(Queue) :
         pending[i].index # Queue[j].urb.index

(* URBs are counted when they are handled, or were not submitted.          *)
Counted ==
    /\ Alive => tpriv.num_retired + Len(Queue) + Len(pending) = next - 1
    /\ Alive /\ ~Control => tpriv.num_retired < Len(Pieces)
    /\ Alive /\ Control => tpriv.num_retired = 0 /\ tpriv.reap_status = "completed"
    /\ lock = "submit" /\ tpriv.reap_action = "normal" => tpriv.num_retired = 0
    /\ lock = "submit" /\ next <= Len(Pieces) => tpriv.reap_action = "normal"

(* off[i] is the number of units up to the i-th complete URB.  Data never  *)
(* came before its place.                                                  *)
Runs(off) ==
    /\ off[0] = transferred /\ off[Len(Queue)] = received
    /\ \A i \in 1 .. Len(Queue) :
         LET e == Queue[i]
         IN /\ off[i] = off[i - 1] + Len(e.data) /\ Len(e.data) <= e.urb.length
            /\ \A j \in 1 .. Len(e.data) : e.data[j] = off[i - 1] + j
            /\ e.data # <<>> => off[i - 1] <= e.urb.at
Stream ==
    ~Iso =>
      /\ \E off \in [0 .. Len(Queue) -> 0 .. received] : Runs(off)
      /\ \A i \in 1 .. Len(pending) : received <= pending[i].at
      /\ lock = "submit" /\ next <= Len(Pieces) => received <= Pieces[next].at
      /\ received <= transfer.length

(* The buffer begins with what was handled, and has what was reaped where  *)
(* its URB put it.                                                         *)
Buffered ==
    Bulk /\ ~transfer.out /\ stage \in {"submitting", "flying", "reported"} =>
      /\ DOMAIN buffer = 1 .. transfer.length
      /\ \A k \in 1 .. transferred : buffer[k] = k
      /\ reaping # NotReaping =>
           \A j \in 1 .. Len(reaping.data) :
             buffer[reaping.urb.at + j] = reaping.data[j]

(* After a URB that ended the transfer nothing comes but URBs that are     *)
(* cancelled, or lost with the device, without data.                       *)
Stops == {"short", "stall", "overflow", "error", "gone"}
Dry == endpoint # "ok" \/ device # "attached"
Idler(e) == e.status \in {"killed", "gone"} /\ e.data = <<>>
Stopped ==
    ~Iso =>
      \A i \in 1 .. Len(Queue) :
        /\ Queue[i].status \in Stops =>
             Dry /\ \A j \in 1 .. Len(Queue) : j > i => Idler(Queue[j])
        /\ Queue[i].status = "short" =>
             "SHORT_NOT_OK" \in Queue[i].urb.flags /\ ~transfer.out
        /\ Queue[i].status = "ok" /\ transfer.out =>
             Len(Queue[i].data) = Queue[i].urb.length

(* As long as nothing has ended the transfer, its URBs are handled in      *)
(* order, but for the last one, discarded: it ends the transfer.           *)
Normal == Alive /\ tpriv.reap_action = "normal"
Cut(e) == e.urb.index = Len(Pieces) /\ e.status = "killed"
HasData(e) == \E j \in 1 .. Len(e.data) : e.data[j] # 0
CutShort == \E i \in 1 .. Len(Queue) : Cut(Queue[i])
InOrder ==
    Normal =>
      /\ \A i \in 1 .. Len(Queue) :
           \/ Queue[i].urb.index = tpriv.num_retired + i
           \/ \E j \in 1 .. Len(Queue) : j < i /\ Cut(Queue[j])
           \/ Cut(Queue[i]) /\ ~HasData(Queue[i])
      /\ CutShort \/ \A i \in 1 .. Len(pending) :
                       pending[i].index = tpriv.num_retired + Len(Queue) + i
      /\ lock \in {"reap", "cancel"} /\ discard.next < discard.last =>
           CutShort \/ pending = <<>>

(* What has been handled by then was full, unless an error has been met.   *)
Aligned ==
    Normal /\ ~Iso =>
      IF tpriv.reap_status = "completed"
      THEN transferred = Pieces[tpriv.num_retired + 1].at
      ELSE Dry /\ \A i \in 1 .. Len(Queue) : Idler(Queue[i])

(* The packets of an isochronous transfer.                                 *)
PacketData(e) ==
    /\ Len(e.data) = e.urb.length
    /\ \A j \in 1 .. Len(e.data) : e.data[j] \in {0, e.urb.at + j}
Packets ==
    Iso =>
      /\ transferred = 0
      /\ \A i \in 1 .. Len(Queue) : PacketData(Queue[i])
      /\ Normal => tpriv.iso_packet_offset = Pieces[tpriv.num_retired + 1].at
      /\ tpriv.reap_action = "normal" /\ stage \in {"submitting", "flying", "reported"} =>
           \A k \in DOMAIN buffer : k \in Nat /\ buffer[k] \in {0, k}

(* No cancellation has discarded any URB, and no error has been handled.   *)
Clear ==
    /\ Normal /\ tpriv.reap_status = "completed" /\ cancel # "no_device" /\ ~Iso
    /\ lock = "cancel" /\ discard.next < discard.last => discard.ret = "not_found"
Failed == {"stall", "overflow", "error"}
Untouched ==
    /\ lock = "reap" => Bulk
    /\ Normal /\ lock = "reap" => tpriv.reap_status # "completed"
    /\ Clear =>
         /\ \A i \in 1 .. Len(Queue) : Queue[i].urb.index = tpriv.num_retired + i
         /\ \A i \in 1 .. Len(pending) :
              pending[i].index = tpriv.num_retired + Len(Queue) + i
         /\ lock = "cancel" /\ discard.next < discard.last => pending = <<>>
         /\ faults > 0 => \E i \in 1 .. Len(Queue) : Queue[i].status \in Failed
         /\ transfer.out =>
              \A i \in 1 .. Len(Queue) : Queue[i].status = "killed" => faults > 0

(* What is about to be reported, and what has been.                        *)
Good == {"cancelled", "error", "no_device"}
Verdict ==
    /\ Alive /\ tpriv.reap_action = "error" => tpriv.reap_status \in {"error", "no_device"}
    /\ cancel = "success" =>
         /\ tpriv.reap_action \in {"cancelled", "error"}
         /\ ending \in {"none"} \cup Good
         /\ stage = "reported" => outcome \in Good
    /\ /\ "completed" \in {ending, IF stage = "reported" THEN outcome ELSE ending}
       /\ ~Iso /\ tpriv.reap_action = "normal" /\ cancel # "no_device"
       => /\ faults = 0 /\ pending = <<>>
          /\ transfer.out => transferred = transfer.length
    /\ stage = "reported" /\ outcome = "completed" /\ transfer.exact =>
         transferred = transfer.length

UsbfsInv ==
    /\ Types /\ Flow /\ Placed /\ Counted /\ Stream /\ Buffered /\ Stopped
    /\ InOrder /\ Aligned /\ Packets /\ Untouched /\ Verdict

---------------------------------------------------------------------------
(* Numbers and sequences.                                                  *)

LEMMA Least ==
    ASSUME NEW T \in SUBSET Nat, T # {}
    PROVE  \E n \in T : \A m \in T : n <= m
<1> DEFINE before == OpToRel(<, Nat)
<1>1. IsWellFoundedOn(before, Nat)
  BY NatLessThanWellFounded
<1>2. \A m, n \in Nat : <<m, n>> \in before <=> m < n
  BY DEF OpToRel
<1> HIDE DEF before
<1>3. PICK n \in T : \A m \in T : ~(<<m, n>> \in before)
  BY <1>1, WFMin
<1>4. ASSUME NEW m \in T PROVE n <= m
  <2>1. m \in Nat /\ n \in Nat /\ ~(m < n)
    BY <1>2, <1>3
  <2> QED
    BY <2>1
<1> QED
  BY <1>4

(* Where the steps do not fall, nothing falls.                             *)
LEMMA Rising ==
    ASSUME NEW n \in Nat, NEW f,
           \A k \in 1 .. n : f[k] \in Nat,
           \A k \in 1 .. n - 1 : f[k] <= f[k + 1],
           NEW i \in 1 .. n, NEW j \in i .. n
    PROVE  f[i] <= f[j]
<1> DEFINE T == {d \in 0 .. n - i : ~(f[i] <= f[i + d])}
<1>1. ASSUME T # {} PROVE FALSE
  <2>1. T \in SUBSET Nat
    OBVIOUS
  <2>2. PICK d \in T : \A m \in T : d <= m
    <3> HIDE DEF T
    <3> QED
      BY <1>1, <2>1, Least
  <2>3. d \in 0 .. n - i /\ ~(f[i] <= f[i + d]) /\ i + d \in 1 .. n
    BY <2>2
  <2>4. d # 0 /\ d - 1 \in 0 .. n - i /\ i + (d - 1) \in 1 .. n - 1
    BY <2>3
  <2>5. d - 1 \notin T
    BY <2>2, <2>3
  <2>6. f[i] <= f[i + (d - 1)]
    BY <2>4, <2>5
  <2>7. f[i + (d - 1)] <= f[i + (d - 1) + 1] /\ i + (d - 1) + 1 = i + d
    BY <2>4
  <2>8. f[i] \in Nat /\ f[i + (d - 1)] \in Nat /\ f[i + d] \in Nat
    BY <2>3, <2>4
  <2> QED
    BY <2>3, <2>6, <2>7, <2>8
<1>2. j - i \in 0 .. n - i /\ j - i \notin T
  BY <1>1
<1>3. f[i] <= f[i + (j - i)] /\ i + (j - i) = j
  BY <1>2
<1> QED
  BY <1>3

LEMMA RemovedAt ==
    ASSUME NEW S, NEW s \in Seq(S), NEW i \in 1 .. Len(s)
    PROVE  /\ RemoveAt(s, i) \in Seq(S) /\ Len(RemoveAt(s, i)) = Len(s) - 1
           /\ \A k \in 1 .. Len(s) - 1 :
                RemoveAt(s, i)[k] = s[IF k < i THEN k ELSE k + 1]
<1> DEFINE front == SubSeq(s, 1, i - 1)
           back == SubSeq(s, i + 1, Len(s))
<1> Len(s) \in Nat
  BY LenProperties
<1>1. /\ front \in Seq(S) /\ Len(front) = i - 1
      /\ \A k \in 1 .. i - 1 : front[k] = s[k]
  BY SubSeqProperties, LenProperties
<1>2. /\ back \in Seq(S) /\ Len(back) = Len(s) - i
      /\ \A k \in 1 .. Len(s) - i : back[k] = s[i + k]
  BY SubSeqProperties, LenProperties
<1>3. RemoveAt(s, i) = front \o back
  BY DEF RemoveAt
<1> HIDE DEF front, back
<1>4. /\ front \o back \in Seq(S) /\ Len(front \o back) = Len(front) + Len(back)
      /\ \A k \in 1 .. Len(front) + Len(back) : (front \o back)[k] =
           IF k <= Len(front) THEN front[k] ELSE back[k - Len(front)]
  BY <1>1, <1>2, ConcatProperties
<1>5. ASSUME NEW k \in 1 .. Len(s) - 1
      PROVE  (front \o back)[k] = s[IF k < i THEN k ELSE k + 1]
  <2>1. CASE k < i
    BY <1>1, <1>2, <1>4, <2>1
  <2>2. CASE ~(k < i)
    <3>1. k - (i - 1) \in 1 .. Len(s) - i /\ i + (k - (i - 1)) = k + 1
      BY <2>2
    <3>2. (front \o back)[k] = back[k - (i - 1)]
      BY <1>1, <1>2, <1>4, <2>2
    <3> QED
      BY <1>2, <2>2, <3>1, <3>2
  <2> QED
    BY <2>1, <2>2
<1> QED
  BY <1>1, <1>2, <1>3, <1>4, <1>5

---------------------------------------------------------------------------
(* How a transfer is split.                                                *)

(* The URBs follow one another from the beginning of the transfer to its   *)
(* end.                                                                    *)
Split(us, size) ==
    /\ us \in Seq(Urb) /\ Len(us) \in Nat \ {0}
    /\ us[1].at = 0 /\ us[Len(us)].at + us[Len(us)].length = size
    /\ \A k \in 1 .. Len(us) : us[k].index = k
    /\ \A k \in 1 .. Len(us) - 1 : us[k + 1].at = us[k].at + us[k].length

LEMMA SplitNested ==
    ASSUME NEW us, NEW size \in Nat, Split(us, size), NEW i \in 1 .. Len(us)
    PROVE  /\ us[i].at + us[i].length <= size
           /\ \A j \in 1 .. Len(us) : i < j => us[i].at + us[i].length <= us[j].at
<1> DEFINE n == Len(us)
           f == [k \in 1 .. n |-> us[k].at]
<1>1. n \in Nat \ {0} /\ \A k \in 1 .. n : us[k].at \in Nat /\ us[k].length \in Nat
  <2>1. us \in Seq(Urb) /\ n \in Nat \ {0}
    BY DEF Split
  <2>2. \A k \in 1 .. n : us[k] \in Urb
    BY <2>1, ElementOfSeq
  <2> HIDE DEF n
  <2> QED
    BY <2>1, <2>2 DEF Urb
<1>2. \A k \in 1 .. n : f[k] = us[k].at /\ f[k] \in Nat
  BY <1>1
<1>3. \A k \in 1 .. n - 1 : us[k + 1].at = us[k].at + us[k].length
  BY DEF Split
<1> HIDE DEF f
<1>4. ASSUME NEW k \in 1 .. n - 1 PROVE f[k] <= f[k + 1]
  <2>1. k \in 1 .. n /\ k + 1 \in 1 .. n
    BY <1>1
  <2>2. us[k + 1].at = us[k].at + us[k].length
    BY <1>3
  <2> QED
    BY <1>1, <1>2, <2>1, <2>2
<1>5. ASSUME NEW j \in 1 .. n, i < j PROVE us[i].at + us[i].length <= us[j].at
  <2>1. i + 1 \in 1 .. n /\ j \in (i + 1) .. n /\ i \in 1 .. n - 1
    BY <1>1, <1>5
  <2>2. f[i + 1] <= f[j]
    BY <1>1, <1>2, <1>4, <2>1, Rising
  <2> QED
    BY <1>2, <1>3, <2>1, <2>2
<1>6. us[n].at + us[n].length = size
  BY DEF Split
<1>7. us[i].at + us[i].length <= size
  <2>1. CASE i = n
    BY <1>6, <2>1
  <2>2. CASE i # n
    <3>1. i < n /\ n \in 1 .. n
      BY <1>1, <2>2
    <3>2. us[i].at + us[i].length <= us[n].at
      BY <1>5, <3>1
    <3> QED
      BY <1>1, <1>6, <3>1, <3>2
  <2> QED
    BY <2>1, <2>2
<1> QED
  BY <1>5, <1>7

LEMMA Division ==
    ASSUME NEW a \in Nat, NEW b \in Nat \ {0}
    PROVE  /\ a \div b \in Nat /\ a % b \in 0 .. b - 1
           /\ a = b * (a \div b) + (a % b)
  OBVIOUS

LEMMA BulkSplit ==
    ASSUME NEW t \in Transfers, t.type \in {"bulk", "interrupt"}
    PROVE  Split(BulkUrbs(t), t.length)
<1> DEFINE len == bulk_buffer_len(t)
           n == num_urbs(t)
           q == t.length \div len
           r == t.length % len
           us == BulkUrbs(t)
<1>1. t.length \in Nat
  BY UsbfsAssumption
<1>2. len \in Nat \ {0}
  BY <1>1, UsbfsAssumption DEF bulk_buffer_len
<1> HIDE DEF len
<1>3. q \in Nat /\ r \in 0 .. len - 1 /\ t.length = len * q + r
  BY <1>1, <1>2, Division
<1>4. n = IF t.length = 0 THEN 1 ELSE q + (IF r > 0 THEN 1 ELSE 0)
  BY DEF num_urbs, len
<1>5. us = [i \in 1 .. n |->
             [index |-> i, at |-> (i - 1) * len, flags |-> BulkFlags(t, i),
              length |-> IF t.length = 0 THEN 0
                         ELSE IF i = n /\ r > 0 THEN r ELSE len]]
  BY DEF BulkUrbs, len
<1> HIDE DEF q, r, us, n
<1>6. q = 0 => len * q = 0
  BY <1>2
<1>7. n \in Nat \ {0}
  BY <1>1, <1>2, <1>3, <1>4, <1>6
<1>8. \A i \in 1 .. n : BulkFlags(t, i) \in SUBSET Flags
  BY DEF BulkFlags, Flags
<1>9. \A i \in 1 .. n : (i - 1) * len \in Nat
  BY <1>2, <1>7
<1>10. \A i \in 1 .. n : /\ us[i].index = i /\ us[i].at = (i - 1) * len
                         /\ us[i].length = IF t.length = 0 THEN 0
                                           ELSE IF i = n /\ r > 0 THEN r ELSE len
  BY <1>5
<1>11. \A i \in 1 .. n : us[i] \in Urb
  BY <1>2, <1>3, <1>5, <1>8, <1>9 DEF Urb
<1>12. us \in Seq(Urb) /\ Len(us) = n
  BY <1>5, <1>7, <1>11
<1>13. us[1].at = 0
  BY <1>2, <1>7, <1>10
<1>14. ASSUME NEW k \in 1 .. n - 1 PROVE us[k + 1].at = us[k].at + us[k].length
  <2>1. k \in 1 .. n /\ k + 1 \in 1 .. n /\ k # n /\ t.length # 0
    BY <1>4, <1>7
  <2>2. us[k].length = len /\ us[k].at = (k - 1) * len /\ us[k + 1].at = (k + 1 - 1) * len
    BY <1>10, <2>1
  <2>3. (k + 1 - 1) * len = (k - 1) * len + len
    BY <1>2
  <2> QED
    BY <2>2, <2>3
<1>15. us[n].at + us[n].length = t.length
  <2>1. us[n].at = (n - 1) * len
    BY <1>7, <1>10
  <2>2. CASE t.length = 0
    <3>1. n = 1 /\ us[n].length = 0 /\ (1 - 1) * len = 0
      BY <1>2, <1>4, <1>7, <1>10, <2>2
    <3> QED
      BY <2>1, <2>2, <3>1
  <2>3. CASE t.length # 0 /\ r > 0
    <3>1. n = q + 1 /\ us[n].length = r
      BY <1>4, <1>7, <1>10, <2>3
    <3>2. (q + 1 - 1) * len = len * q
      BY <1>2, <1>3
    <3> QED
      BY <1>3, <2>1, <3>1, <3>2
  <2>4. CASE t.length # 0 /\ ~(r > 0)
    <3>1. n = q /\ us[n].length = len /\ r = 0
      BY <1>3, <1>4, <1>7, <1>10, <2>4
    <3>2. (q - 1) * len + len = len * q
      BY <1>2, <1>3
    <3>3. us[n].at = (q - 1) * len
      BY <2>1, <3>1
    <3>4. us[n].at + us[n].length = (q - 1) * len + len
      BY <3>1, <3>3
    <3>5. t.length = len * q
      BY <1>1, <1>2, <1>3, <3>1
    <3> QED
      BY <3>2, <3>4, <3>5
  <2> QED
    BY <2>2, <2>3, <2>4
<1>16. Split(us, t.length)
  BY <1>7, <1>10, <1>12, <1>13, <1>14, <1>15 DEF Split
<1> QED
  BY <1>16 DEF us

(* The parts of the first k packets.                                       *)
Part == [at : Nat, length : Nat, size : Nat]
Parts(us, k) ==
    /\ us \in Seq(Part) /\ Len(us) \in Nat \ {0}
    /\ us[1].at = 0 /\ us[Len(us)].at + us[Len(us)].length = k
    /\ \A i \in 1 .. Len(us) - 1 : us[i + 1].at = us[i].at + us[i].length

LEMMA Enlarged ==
    ASSUME NEW p \in Part, NEW len \in Nat
    PROVE  [p EXCEPT !.length = @ + 1, !.size = @ + len]
             = [at |-> p.at, length |-> p.length + 1, size |-> p.size + len]
<1> DEFINE q == [p EXCEPT !.length = @ + 1]
           r == [q EXCEPT !.size = @ + len]
<1>1. q \in Part /\ q.at = p.at /\ q.length = p.length + 1 /\ q.size = p.size
  BY DEF Part
<1> HIDE DEF q
<1>2. r \in Part /\ r.at = q.at /\ r.length = q.length /\ r.size = q.size + len
  BY <1>1 DEF Part
<1> HIDE DEF r
<1>3. r = [at |-> p.at, length |-> p.length + 1, size |-> p.size + len]
  BY <1>1, <1>2 DEF Part
<1> QED
  BY <1>3 DEF q, r

LEMMA SwallowParts ==
    ASSUME NEW us, NEW k \in Nat, Parts(us, k), NEW len \in Nat
    PROVE  Parts(Swallow(us, len), k + 1)
<1> DEFINE n == Len(us)
           new == [at |-> us[n].at + us[n].length, length |-> 1, size |-> len]
           more == [at |-> us[n].at, length |-> us[n].length + 1, size |-> us[n].size + len]
<1>1. us \in Seq(Part) /\ n \in Nat \ {0} /\ us[1].at = 0 /\ us[n].at + us[n].length = k
  BY DEF Parts
<1>2. \A i \in 1 .. n : us[i] \in Part
  BY <1>1, ElementOfSeq
<1>3. \A i \in 1 .. n - 1 : us[i + 1].at = us[i].at + us[i].length
  BY DEF Parts
<1>4. Last(us) = us[n]
  BY DEF Last
<1>5. us[n] \in Part /\ us[n].at \in Nat /\ us[n].length \in Nat /\ us[n].size \in Nat
  BY <1>1, <1>2 DEF Part
<1>6. new \in Part /\ more \in Part
  BY <1>5 DEF Part
<1>7. CASE Swallow(us, len) = Append(us, new)
  <2> DEFINE w == Append(us, new)
  <2>1. /\ w \in Seq(Part) /\ Len(w) = n + 1 /\ w[n + 1] = new
        /\ \A i \in 1 .. n : w[i] = us[i]
    BY <1>1, <1>6, AppendProperties
  <2>2. w[n + 1].at = us[n].at + us[n].length /\ w[n + 1].length = 1
    BY <2>1
  <2> HIDE DEF w, new
  <2>3. w[1].at = 0 /\ w[n + 1].at + w[n + 1].length = k + 1
    BY <1>1, <2>1, <2>2
  <2>4. ASSUME NEW i \in 1 .. n PROVE w[i + 1].at = w[i].at + w[i].length
    <3>1. CASE i = n
      BY <1>1, <2>1, <2>2, <3>1
    <3>2. CASE i # n
      <4>1. i \in 1 .. n - 1 /\ i \in 1 .. n /\ i + 1 \in 1 .. n
        BY <1>1, <3>2
      <4> QED
        BY <1>3, <2>1, <4>1
    <3> QED
      BY <3>1, <3>2
  <2>5. Len(w) \in Nat \ {0} /\ Len(w) - 1 = n
    BY <1>1, <2>1
  <2>6. Parts(w, k + 1)
    BY <2>1, <2>3, <2>4, <2>5 DEF Parts
  <2> QED
    BY <1>7, <2>6 DEF w
<1>8. CASE Swallow(us, len) = [us EXCEPT ![n] = more]
  <2> DEFINE w == [us EXCEPT ![n] = more]
  <2>1. /\ w \in Seq(Part) /\ Len(w) = n
        /\ \A i \in 1 .. n : w[i] = IF i = n THEN more ELSE us[i]
    BY <1>1, <1>6, ExceptSeq
  <2>2. more.at = us[n].at /\ more.length = us[n].length + 1
    OBVIOUS
  <2> HIDE DEF w, more
  <2>3. \A i \in 1 .. n : w[i].at = us[i].at /\ (i < n => w[i].length = us[i].length)
    BY <1>1, <2>1, <2>2
  <2>4. w[1].at = 0 /\ w[n].at + w[n].length = k + 1
    BY <1>1, <1>5, <2>1, <2>2
  <2>5. ASSUME NEW i \in 1 .. n - 1 PROVE w[i + 1].at = w[i].at + w[i].length
    <3>1. i \in 1 .. n /\ i + 1 \in 1 .. n /\ i < n
      BY <1>1
    <3> QED
      BY <1>3, <2>3, <3>1
  <2>6. Parts(w, k + 1)
    BY <1>1, <2>1, <2>4, <2>5 DEF Parts
  <2> QED
    BY <1>8, <2>6 DEF w
<1>9. \/ Swallow(us, len) = Append(us, new)
      \/ Swallow(us, len) = [us EXCEPT ![n].length = @ + 1, ![n].size = @ + len]
  BY <1>4 DEF Swallow
<1>10. [us EXCEPT ![n].length = @ + 1, ![n].size = @ + len] = [us EXCEPT ![n] = more]
  <2>1. us \in [1 .. n -> Part] /\ n \in 1 .. n
    BY <1>1, LenProperties
  <2>2. [us[n] EXCEPT !.length = @ + 1, !.size = @ + len] = more
    BY <1>5, Enlarged
  <2> QED
    BY <2>1, <2>2
<1> QED
  BY <1>7, <1>8, <1>9, <1>10

LEMMA IsoSplit ==
    ASSUME NEW t \in Transfers
    PROVE  Split(IsoUrbs(t), Len(t.packets))
<1> DEFINE n == Len(t.packets)
           start == <<[at |-> 0, length |-> 0, size |-> 0]>>
           F(f, k) == IF k = 0 THEN start ELSE Swallow(f[k - 1], t.packets[k])
           R(f, m) == f = [k \in 0 .. m |-> F(f, k)]
           S == {m \in 0 .. n : ~\E f : R(f, m)}
<1>1. t.packets \in Seq(Nat) /\ n \in Nat /\ \A k \in 1 .. n : t.packets[k] \in Nat
  BY UsbfsAssumption, LenProperties, ElementOfSeq
<1>2. ASSUME NEW m \in 0 .. n, \A l \in 0 .. n : l < m => \E f : R(f, l)
      PROVE  \E f : R(f, m)
  <2>1. CASE m = 0
    <3> DEFINE f == [k \in 0 .. 0 |-> start]
    <3>1. f = [k \in 0 .. 0 |-> F(f, k)]
      OBVIOUS
    <3> QED
      BY <2>1, <3>1
  <2>2. CASE m # 0
    <3>1. m - 1 \in 0 .. n /\ m - 1 < m
      BY <1>1, <2>2
    <3>2. PICK g : R(g, m - 1)
      BY <1>2, <3>1
    <3> DEFINE h == [k \in 0 .. m |-> IF k < m THEN g[k] ELSE F(g, k)]
    <3> HIDE DEF start
    <3>3. ASSUME NEW k \in 0 .. m PROVE h[k] = F(h, k)
      <4>1. h[k] = F(g, k)
        <5>1. k < m => k \in 0 .. m - 1
          BY <1>1
        <5> QED
          BY <3>2, <5>1
      <4>2. k # 0 => k - 1 \in 0 .. m /\ k - 1 < m
        BY <1>1
      <4>3. k # 0 => h[k - 1] = g[k - 1]
        BY <4>2
      <4> QED
        BY <4>1, <4>3
    <3>4. h = [k \in 0 .. m |-> h[k]]
      OBVIOUS
    <3> HIDE DEF h, F
    <3>5. h = [k \in 0 .. m |-> F(h, k)]
      BY <3>3, <3>4
    <3> QED
      BY <3>5
  <2> QED
    BY <2>1, <2>2
<1>3. \E f : R(f, n)
  <2>1. S # {} => FALSE
    <3>1. SUFFICES ASSUME S # {} PROVE FALSE
      OBVIOUS
    <3>2. S \in SUBSET Nat
      OBVIOUS
    <3>3. PICK m \in S : \A l \in S : m <= l
      <4> HIDE DEF S
      <4> QED
        BY <3>1, <3>2, Least
    <3>4. m \in 0 .. n /\ ~\E f : R(f, m)
      BY <3>3
    <3> HIDE DEF R
    <3>5. \A l \in 0 .. n : l < m => l \notin S
      BY <3>3, <3>4
    <3>6. \A l \in 0 .. n : l < m => \E f : R(f, l)
      BY <3>5
    <3> QED
      BY <1>2, <3>4, <3>6
  <2>2. n \in 0 .. n
    BY <1>1
  <2> HIDE DEF S
  <2>3. n \notin S
    BY <2>1
  <2> HIDE DEF R
  <2> QED
    BY <2>2, <2>3 DEF S
<1> DEFINE split[k \in 0 .. Len(t.packets)] ==
             IF k = 0 THEN <<[at |-> 0, length |-> 0, size |-> 0]>>
             ELSE Swallow(split[k - 1], t.packets[k])
<1>4. split = [k \in 0 .. n |-> F(split, k)]
  BY <1>3
<1>5. IsoUrbs(t) = [i \in DOMAIN split[n] |->
                     [index |-> i, at |-> split[n][i].at, flags |-> {},
                      length |-> split[n][i].length]]
  BY DEF IsoUrbs
<1> HIDE DEF split
<1>6. \A k \in 0 .. n : split[k] = F(split, k)
  BY <1>4
<1> DEFINE B == {k \in 0 .. n : ~Parts(split[k], k)}
<1>7. B # {} => FALSE
  <2>1. SUFFICES ASSUME B # {} PROVE FALSE
    OBVIOUS
  <2>2. B \in SUBSET Nat
    OBVIOUS
  <2>3. PICK k \in B : \A l \in B : k <= l
    <3> HIDE DEF B
    <3> QED
      BY <2>1, <2>2, Least
  <2>4. k \in 0 .. n /\ ~Parts(split[k], k)
    BY <2>3
  <2>5. CASE k = 0
    <3>1. split[k] = start
      BY <1>6, <2>4, <2>5
    <3>2. start \in Seq(Part) /\ Len(start) = 1 /\ start[1].at = 0 /\ start[1].length = 0
      BY DEF Part
    <3> HIDE DEF start
    <3>3. Parts(start, 0)
      BY <3>2 DEF Parts
    <3> QED
      BY <2>4, <2>5, <3>1, <3>3
  <2>6. CASE k # 0
    <3>1. k - 1 \in 0 .. n /\ k - 1 < k /\ k \in 1 .. n /\ k - 1 \in Nat /\ k - 1 + 1 = k
      BY <1>1, <2>4, <2>6
    <3>2. k - 1 \notin B
      BY <2>3, <2>4, <3>1
    <3>3. Parts(split[k - 1], k - 1)
      BY <3>1, <3>2
    <3>4. split[k] = Swallow(split[k - 1], t.packets[k])
      BY <1>6, <2>4, <2>6
    <3>5. t.packets[k] \in Nat
      BY <1>1, <3>1
    <3>6. Parts(Swallow(split[k - 1], t.packets[k]), k - 1 + 1)
      BY <3>1, <3>3, <3>5, SwallowParts
    <3> QED
      BY <2>4, <3>1, <3>4, <3>6
  <2> QED
    BY <2>5, <2>6
<1> DEFINE us == split[n]
           w == IsoUrbs(t)
<1>8. Parts(us, n)
  <2>1. n \in 0 .. n /\ n \notin B
    BY <1>1, <1>7
  <2> QED
    BY <2>1
<1> HIDE DEF us, w, split
<1>9. us \in Seq(Part) /\ Len(us) \in Nat \ {0}
  BY <1>8 DEF Parts
<1>10. \A i \in 1 .. Len(us) : us[i].at \in Nat /\ us[i].length \in Nat
  <2>1. \A i \in 1 .. Len(us) : us[i] \in Part
    BY <1>9, ElementOfSeq
  <2> QED
    BY <2>1 DEF Part
<1>11. DOMAIN us = 1 .. Len(us)
  BY <1>9, LenProperties
<1>12. w = [i \in 1 .. Len(us) |-> [index |-> i, at |-> us[i].at, flags |-> {},
                                    length |-> us[i].length]]
  BY <1>5, <1>11 DEF us, w
<1>13. /\ \A i \in 1 .. Len(us) : w[i] \in Urb
       /\ \A i \in 1 .. Len(us) : /\ w[i].index = i /\ w[i].at = us[i].at
                                  /\ w[i].length = us[i].length
  BY <1>10, <1>12 DEF Urb
<1>14. w \in Seq(Urb) /\ Len(w) = Len(us)
  BY <1>9, <1>12, <1>13
<1>15. /\ us[1].at = 0 /\ us[Len(us)].at + us[Len(us)].length = n
       /\ \A i \in 1 .. Len(us) - 1 : us[i + 1].at = us[i].at + us[i].length
  BY <1>8 DEF Parts
<1>16. \A i \in 1 .. Len(us) - 1 : i \in 1 .. Len(us) /\ i + 1 \in 1 .. Len(us)
  BY <1>9
<1>17. 1 \in 1 .. Len(us) /\ Len(us) \in 1 .. Len(us)
  BY <1>9
<1>18. Split(w, n)
  BY <1>9, <1>13, <1>14, <1>15, <1>16, <1>17 DEF Split
<1> QED
  BY <1>18 DEF w

LEMMA Flagged ==
    ASSUME NEW t \in Transfers, NEW k \in 1 .. Len(Urbs(t))
    PROVE  /\ "SHORT_NOT_OK" \in Urbs(t)[k].flags =>
                t.type \in {"bulk", "interrupt"} /\ ~t.out
           /\ t.type \in {"bulk", "interrupt"} /\ use_bulk_continuation(t) /\ k > 1 =>
                "BULK_CONTINUATION" \in Urbs(t)[k].flags
<1>1. t.type \in {"bulk", "interrupt", "control", "iso"}
  BY UsbfsAssumption
<1>2. CASE t.type = "iso"
  <2>1. Len(IsoUrbs(t)) \in Nat /\ IsoUrbs(t) \in Seq(Urb)
    BY IsoSplit DEF Split
  <2>2. DOMAIN IsoUrbs(t) = 1 .. Len(IsoUrbs(t)) /\ Urbs(t) = IsoUrbs(t)
    BY <1>2, <2>1, LenProperties DEF Urbs
  <2>3. IsoUrbs(t)[k].flags = {}
    BY <2>2 DEF IsoUrbs
  <2> QED
    BY <1>2, <2>2, <2>3
<1>3. CASE t.type = "control"
  <2>1. Urbs(t) = <<[index |-> 1, at |-> 0, flags |-> {}, length |-> t.length]>>
    BY <1>3 DEF Urbs
  <2>2. k = 1 /\ Urbs(t)[1].flags = {}
    BY <2>1
  <2> QED
    BY <1>3, <2>2
<1>4. CASE t.type \in {"bulk", "interrupt"}
  <2>1. Urbs(t) = BulkUrbs(t)
    BY <1>4 DEF Urbs
  <2>2. Len(BulkUrbs(t)) \in Nat /\ BulkUrbs(t) \in Seq(Urb)
    BY <1>4, BulkSplit DEF Split
  <2>3. DOMAIN BulkUrbs(t) = 1 .. Len(BulkUrbs(t))
    BY <2>2, LenProperties
  <2>4. BulkUrbs(t)[k].flags = BulkFlags(t, k)
    BY <2>1, <2>3 DEF BulkUrbs
  <2>5. "SHORT_NOT_OK" \in BulkFlags(t, k) => ~t.out
    BY DEF BulkFlags
  <2>6. use_bulk_continuation(t) /\ k > 1 => "BULK_CONTINUATION" \in BulkFlags(t, k)
    BY DEF BulkFlags
  <2> QED
    BY <1>4, <2>1, <2>4, <2>5, <2>6
<1> QED
  BY <1>1, <1>2, <1>3, <1>4

LEMMA Splitting ==
    ASSUME NEW t \in Transfers
    PROVE  Split(Urbs(t), Size(t)) /\ Size(t) \in Nat
<1>1. /\ t.type \in {"bulk", "interrupt", "control", "iso"} /\ t.length \in Nat
      /\ t.packets \in Seq(Nat)
  BY UsbfsAssumption
<1>2. Size(t) \in Nat
  BY <1>1, LenProperties DEF Size
<1>3. CASE t.type = "iso"
  BY <1>2, <1>3, IsoSplit DEF Urbs, Size
<1>4. CASE t.type = "control"
  <2> DEFINE u == [index |-> 1, at |-> 0, flags |-> {}, length |-> t.length]
             us == <<u>>
  <2>1. Urbs(t) = us /\ Size(t) = t.length
    BY <1>4 DEF Urbs, Size
  <2>2. u \in Urb /\ u.at = 0 /\ u.index = 1 /\ u.length = t.length
    BY <1>1 DEF Urb
  <2> HIDE DEF u
  <2>3. us \in Seq(Urb) /\ Len(us) = 1 /\ us[1] = u
    BY <2>2
  <2> HIDE DEF us
  <2>4. us[1].at + us[1].length = t.length
    BY <1>1, <2>2, <2>3
  <2>5. Split(us, t.length)
    BY <2>2, <2>3, <2>4 DEF Split
  <2> QED
    BY <1>2, <2>1, <2>5
<1>5. CASE t.type \in {"bulk", "interrupt"}
  <2>1. Urbs(t) = BulkUrbs(t) /\ Size(t) = t.length
    BY <1>5 DEF Urbs, Size
  <2> QED
    BY <1>2, <1>5, <2>1, BulkSplit
<1> QED
  BY <1>1, <1>3, <1>4, <1>5

(* What the proofs of the actions use of it.                               *)
LEMMA Whole ==
    ASSUME transfer \in Transfers
    PROVE  /\ Pieces \in Seq(Urb) /\ Len(Pieces) \in Nat \ {0} /\ Pieces # <<>>
           /\ Pieces[1].at = 0
           /\ Size(transfer) \in Nat /\ transfer.length \in Nat
           /\ ~Iso => Size(transfer) = transfer.length
           /\ Pieces[Len(Pieces)].at + Pieces[Len(Pieces)].length = Size(transfer)
           /\ \A k \in 1 .. Len(Pieces) : Pieces[k] \in Urb /\ Pieces[k].index = k
<1>1. Split(Pieces, Size(transfer)) /\ Size(transfer) \in Nat
  BY Splitting DEF Pieces
<1>2. Pieces \in Seq(Urb) /\ Len(Pieces) \in Nat \ {0}
  BY <1>1 DEF Split
<1>3. \A k \in 1 .. Len(Pieces) : Pieces[k] \in Urb
  BY <1>2, ElementOfSeq
<1>4. Pieces # <<>>
  BY <1>2, EmptySeq
<1>5. transfer.length \in Nat /\ (~Iso => Size(transfer) = transfer.length)
  BY UsbfsAssumption DEF Size, Iso
<1> QED
  BY <1>1, <1>2, <1>3, <1>4, <1>5 DEF Split

LEMMA Nested ==
    ASSUME transfer \in Transfers, NEW i \in 1 .. Len(Pieces)
    PROVE  /\ Pieces[i].at + Pieces[i].length <= Size(transfer)
           /\ \A j \in 1 .. Len(Pieces) : i < j =>
                Pieces[i].at + Pieces[i].length <= Pieces[j].at
<1>1. Split(Pieces, Size(transfer)) /\ Size(transfer) \in Nat
  BY Splitting DEF Pieces
<1> QED
  BY <1>1, SplitNested

LEMMA Adjoining ==
    ASSUME transfer \in Transfers, NEW i \in 1 .. Len(Pieces) - 1
    PROVE  Pieces[i + 1].at = Pieces[i].at + Pieces[i].length
<1>1. Split(Pieces, Size(transfer))
  BY Splitting DEF Pieces
<1> QED
  BY <1>1 DEF Split

LEMMA Kinds ==
    ASSUME transfer \in Transfers
    PROVE  \/ Bulk /\ ~Iso /\ ~Control
           \/ Iso /\ ~Bulk /\ ~Control
           \/ Control /\ ~Bulk /\ ~Iso
<1>1. transfer.type \in {"bulk", "interrupt", "control", "iso"}
  BY UsbfsAssumption
<1> QED
  BY <1>1 DEF Bulk, Iso, Control

LEMMA OneControl ==
    ASSUME transfer \in Transfers, Control
    PROVE  Len(Pieces) = 1
<1>1. Pieces = <<[index |-> 1, at |-> 0, flags |-> {}, length |-> transfer.length]>>
  BY DEF Control, Pieces, Urbs
<1> QED
  BY <1>1

---------------------------------------------------------------------------
(* The queue.                                                              *)

LEMMA QueueTyped ==
    ASSUME reaping \in Entry \cup {NotReaping}, completed \in Seq(Entry)
    PROVE  /\ Queue \in Seq(Entry) /\ Len(Queue) \in Nat
           /\ \A i \in 1 .. Len(Queue) : Queue[i] \in Entry
           /\ reaping = NotReaping => Queue = completed
           /\ reaping # NotReaping =>
                /\ Queue # <<>> /\ Len(Queue) = Len(completed) + 1
                /\ Queue[1] = reaping /\ Tail(Queue) = completed
<1>1. CASE reaping = NotReaping
  <2>1. Queue = completed
    BY <1>1 DEF Queue
  <2> QED
    BY <1>1, <2>1, ElementOfSeq, LenProperties
<1>2. CASE reaping # NotReaping
  <2>1. Queue = <<reaping>> \o completed /\ reaping \in Entry
    BY <1>2 DEF Queue
  <2> DEFINE one == <<reaping>>
  <2>2. one \in Seq(Entry) /\ Len(one) = 1 /\ one[1] = reaping
    BY <2>1
  <2> HIDE DEF one
  <2>3. /\ one \o completed \in Seq(Entry) /\ Len(one \o completed) = 1 + Len(completed)
        /\ \A i \in 1 .. 1 + Len(completed) : (one \o completed)[i] =
             IF i <= 1 THEN one[i] ELSE completed[i - 1]
    <3>1. /\ one \o completed \in Seq(Entry)
          /\ Len(one \o completed) = Len(one) + Len(completed)
          /\ \A i \in 1 .. Len(one) + Len(completed) : (one \o completed)[i] =
               IF i <= Len(one) THEN one[i] ELSE completed[i - Len(one)]
      BY <2>2, ConcatProperties
    <3> QED
      BY <2>2, <3>1
  <2>4. Queue = one \o completed
    BY <2>1 DEF one
  <2>5. Len(completed) \in Nat
    BY LenProperties
  <2>6. Queue \in Seq(Entry) /\ Len(Queue) = Len(completed) + 1 /\ Queue[1] = reaping
    BY <2>2, <2>3, <2>4, <2>5
  <2>7. Queue # <<>>
    BY <2>5, <2>6, EmptySeq
  <2>8. /\ Tail(Queue) \in Seq(Entry) /\ Len(Tail(Queue)) = Len(completed)
        /\ \A i \in 1 .. Len(completed) : Tail(Queue)[i] = Queue[i + 1]
    BY <2>5, <2>6, <2>7, HeadTailProperties
  <2>9. \A i \in 1 .. Len(completed) : Queue[i + 1] = completed[i]
    BY <2>3, <2>4, <2>5
  <2>10. Tail(Queue) = completed
    BY <2>8, <2>9, SeqEqual
  <2> QED
    BY <1>2, <2>5, <2>6, <2>7, <2>10, ElementOfSeq
<1> QED
  BY <1>1, <1>2

(* The same of the queue after a step.                                     *)
HandsTyped == reaping \in Entry \cup {NotReaping} /\ completed \in Seq(Entry)
HandsFirst ==
    reaping # NotReaping =>
      /\ Queue \in Seq(Entry) /\ Queue # <<>> /\ Len(Queue) = Len(completed) + 1
      /\ Queue[1] = reaping /\ Tail(Queue) = completed

LEMMA HandsNext == HandsTyped' => HandsFirst'
<1>1. HandsTyped => HandsFirst
  BY QueueTyped DEF HandsTyped, HandsFirst
<1> QED
  BY <1>1, PTL

LEMMA TypedQueue ==
    ASSUME Types
    PROVE  /\ Queue \in Seq(Entry) /\ Len(Queue) \in Nat
           /\ \A i \in 1 .. Len(Queue) :
                /\ Queue[i] \in Entry /\ Queue[i].urb \in Urb /\ Queue[i].urb.index \in Nat
                /\ Queue[i].urb.at \in Nat /\ Queue[i].urb.length \in Nat
                /\ Queue[i].data \in Seq(Nat) /\ Len(Queue[i].data) \in Nat
                /\ Queue[i].status \in Statuses
           /\ pending \in Seq(Urb) /\ Len(pending) \in Nat
           /\ \A i \in 1 .. Len(pending) :
                /\ pending[i] \in Urb /\ pending[i].index \in Nat
                /\ pending[i].at \in Nat /\ pending[i].length \in Nat
<1>1. reaping \in Entry \cup {NotReaping} /\ completed \in Seq(Entry) /\ pending \in Seq(Urb)
  BY DEF Types
<1>2. /\ Queue \in Seq(Entry) /\ Len(Queue) \in Nat
      /\ \A i \in 1 .. Len(Queue) : Queue[i] \in Entry
  BY <1>1, QueueTyped
<1>3. ASSUME NEW e \in Entry
      PROVE  /\ e.urb \in Urb /\ e.urb.index \in Nat /\ e.urb.at \in Nat /\ e.urb.length \in Nat
             /\ e.data \in Seq(Nat) /\ Len(e.data) \in Nat /\ e.status \in Statuses
  <2>1. e.urb \in Urb /\ e.data \in Seq(Nat) /\ e.status \in Statuses
    BY DEF Entry
  <2> QED
    BY <2>1, LenProperties DEF Urb
<1>4. Len(pending) \in Nat /\ \A i \in 1 .. Len(pending) : pending[i] \in Urb
  BY <1>1, LenProperties, ElementOfSeq
<1>5. \A u \in Urb : u.index \in Nat /\ u.at \in Nat /\ u.length \in Nat
  BY DEF Urb
<1> QED
  BY <1>1, <1>2, <1>3, <1>4, <1>5

---------------------------------------------------------------------------
(* What a step does not touch.                                             *)

LEMMA PlacedKept ==
    ASSUME Types, Types', Placed, UNCHANGED <<transfer, pending, Queue>>, next <= next'
    PROVE  Placed'
<1>1. Pieces' = Pieces /\ next \in Nat /\ next' \in Nat
  BY DEF Pieces, Types
<1>2. \A u : Piece(u) => Piece(u)'
  BY <1>1 DEF Piece
<1> HIDE DEF Piece
<1> QED
  BY <1>2 DEF Placed

LEMMA StreamKept ==
    ASSUME Stream, UNCHANGED <<transfer, pending, Queue, transferred, received>>,
           lock' = "submit" /\ next' <= Len(Pieces) => lock = "submit" /\ next' = next
    PROVE  Stream'
<1>1. Pieces' = Pieces /\ Iso' = Iso
  BY DEF Pieces, Iso
<1>2. \A off : Runs(off) => Runs(off)'
  BY DEF Runs
<1> QED
  BY <1>1, <1>2 DEF Stream

LEMMA BufferedKept ==
    ASSUME Buffered, UNCHANGED <<transfer, buffer, transferred, reaping>>,
           stage' \in {"submitting", "flying", "reported"} =>
             stage \in {"submitting", "flying", "reported"}
    PROVE  Buffered'
<1>1. Bulk' = Bulk
  BY DEF Bulk
<1> QED
  BY <1>1 DEF Buffered

LEMMA StoppedKept ==
    ASSUME Stopped, UNCHANGED <<transfer, Queue>>, Dry => Dry'
    PROVE  Stopped'
<1>1. Iso' = Iso /\ \A e : Idler(e)' = Idler(e)
  BY DEF Iso, Idler
<1> QED
  BY <1>1 DEF Stopped

LEMMA InOrderKept ==
    ASSUME InOrder, UNCHANGED <<transfer, pending, Queue>>,
           Normal' => Normal /\ tpriv'.num_retired = tpriv.num_retired,
           lock' \in {"reap", "cancel"} /\ discard'.next < discard'.last =>
             lock \in {"reap", "cancel"} /\ discard.next < discard.last
    PROVE  InOrder'
<1>1. Pieces' = Pieces
  BY DEF Pieces
<1>2. CutShort' = CutShort /\ \A e : Cut(e)' = Cut(e) /\ HasData(e)' = HasData(e)
  BY <1>1 DEF CutShort, Cut, HasData
<1> QED
  BY <1>1, <1>2 DEF InOrder

LEMMA AlignedKept ==
    ASSUME Aligned, UNCHANGED <<transfer, Queue, transferred>>, Dry => Dry',
           Normal' => Normal /\ tpriv'.num_retired = tpriv.num_retired
                      /\ tpriv'.reap_status = tpriv.reap_status
    PROVE  Aligned'
<1>1. Pieces' = Pieces /\ Iso' = Iso /\ \A e : Idler(e)' = Idler(e)
  BY DEF Pieces, Iso, Idler
<1> QED
  BY <1>1 DEF Aligned

LEMMA PacketsKept ==
    ASSUME Packets, UNCHANGED <<transfer, Queue, transferred, buffer>>,
           Normal' => Normal /\ tpriv'.num_retired = tpriv.num_retired
                      /\ tpriv'.iso_packet_offset = tpriv.iso_packet_offset,
           tpriv'.reap_action = "normal" /\ stage' \in {"submitting", "flying", "reported"} =>
             tpriv.reap_action = "normal" /\ stage \in {"submitting", "flying", "reported"}
    PROVE  Packets'
<1>1. Pieces' = Pieces /\ Iso' = Iso /\ \A e : PacketData(e)' = PacketData(e)
  BY DEF Pieces, Iso, PacketData
<1> QED
  BY <1>1 DEF Packets

LEMMA UntouchedKept ==
    ASSUME Untouched, UNCHANGED <<transfer, pending, Queue, faults>>,
           Clear' => Clear /\ tpriv'.num_retired = tpriv.num_retired,
           lock' = "reap" => Bulk /\ (Normal' => tpriv'.reap_status # "completed"),
           Clear' /\ lock' = "cancel" /\ discard'.next < discard'.last =>
             lock = "cancel" /\ discard.next < discard.last
    PROVE  Untouched'
<1>1. Bulk' = Bulk
  BY DEF Bulk
<1> QED
  BY <1>1 DEF Untouched

---------------------------------------------------------------------------
(* The submission.                                                         *)

(* Where no URB is anywhere, and nothing has been reported.                *)
Quiet ==
    /\ Queue = <<>> /\ pending = <<>> /\ received = 0 /\ transferred = 0
    /\ endpoint = "ok" /\ faults = 0 /\ cancel = "uncalled" /\ ending = "none"
    /\ reaping = NotReaping /\ tpriv.num_retired = 0
    /\ tpriv.reap_status = "completed" /\ tpriv.reap_action = "normal"
    /\ tpriv.iso_packet_offset = 0 /\ lock \in {"none", "submit"}

    /\ Alive => transfer \in Transfers /\ next = 1
    /\ ~Alive => lock = "none"
    /\ stage \notin {"flying", "reported"}
    /\ Bulk /\ stage = "submitting" => DOMAIN buffer = 1 .. transfer.length
    /\ Iso /\ stage = "submitting" =>
         \A k \in DOMAIN buffer : k \in Nat /\ buffer[k] \in {0, k}

LEMMA QuietInv ==
    ASSUME Types, Flow, Quiet
    PROVE  UsbfsInv
<1>1. /\ Queue = <<>> /\ Len(Queue) = 0 /\ pending = <<>> /\ Len(pending) = 0
      /\ \A i \in 1 .. Len(Queue) : FALSE
      /\ \A i \in 1 .. Len(pending) : FALSE
  BY DEF Quiet
<1>2. Alive => /\ Len(Pieces) \in Nat \ {0} /\ Pieces[1].at = 0
               /\ Control => Len(Pieces) = 1
  BY Whole, OneControl DEF Quiet
<1>3. Placed
  BY <1>1 DEF Placed
<1>4. Counted
  BY <1>1, <1>2 DEF Counted, Quiet
<1>5. Stream
  <2>1. \E off \in [0 .. Len(Queue) -> 0 .. received] : Runs(off)
    <3> DEFINE off == [k \in 0 .. 0 |-> 0]
    <3>1. off[0] = 0 /\ off \in [0 .. Len(Queue) -> 0 .. received]
      BY <1>1 DEF Quiet
    <3> HIDE DEF off
    <3>2. Runs(off)
      BY <1>1, <3>1 DEF Runs, Quiet
    <3> QED
      BY <3>1, <3>2
  <2>2. transfer.length \in Nat
    BY Whole DEF Flow, Fresh, NoTransfer
  <2>3. lock = "submit" => Alive /\ Pieces[next].at = 0
    BY <1>2 DEF Quiet
  <2> QED
    BY <1>1, <2>1, <2>2, <2>3 DEF Stream, Quiet
<1>6. Buffered
  BY DEF Buffered, Quiet
<1>7. Stopped
  BY <1>1 DEF Stopped
<1>8. InOrder
  BY <1>1 DEF InOrder, Quiet
<1>9. Aligned
  BY <1>1, <1>2 DEF Aligned, Quiet, Normal
<1>10. Packets
  BY <1>1, <1>2 DEF Packets, Quiet, Normal
<1>11. Untouched
  BY <1>1 DEF Untouched, Quiet
<1>12. Verdict
  BY DEF Verdict, Quiet
<1> QED
  BY <1>3, <1>4, <1>5, <1>6, <1>7, <1>8, <1>9, <1>10, <1>11, <1>12 DEF UsbfsInv

LEMMA QuietNext == Types' /\ Flow' /\ Quiet' => UsbfsInv'
<1>1. Types /\ Flow /\ Quiet => UsbfsInv
  BY QuietInv
<1> QED
  BY <1>1, PTL

LEMMA NoPrivTyped ==
    /\ NoPriv \in Priv /\ NoPriv.urbs = <<>> /\ NoPriv.reap_action = "normal"
    /\ NoPriv.num_retired = 0 /\ NoPriv.reap_status = "completed"
    /\ NoPriv.iso_packet_offset = 0
    /\ NotDiscarding \in Loop /\ NotDiscarding.next = 0 /\ NotDiscarding.first = 1
  BY DEF NoPriv, Priv, Actions, Outcomes, NotDiscarding, Loop

LEMMA InitUsbfs ==
    ASSUME Init
    PROVE  UsbfsInv
<1>0. disappeared \in BOOLEAN /\ ~disappeared
  BY Zenon DEF Init
<1>1. Types
  BY <1>0, NoPrivTyped DEF Init, Types, Outcomes
<1>2. Flow
  <2>1. stage = "idle" /\ lock = "none" /\ device = "attached" /\ endpoint = "ok"
    BY DEF Init
  <2>2. Fresh
    BY <1>0, NoPrivTyped DEF Init, Fresh, Discarding
  <2> QED
    BY <1>0, <2>1, <2>2 DEF Flow
<1>3. Quiet
  BY NoPrivTyped DEF Init, Quiet, Queue, Alive
<1> QED
  BY <1>1, <1>2, <1>3, QuietInv

LEMMA SubmitInv ==
    ASSUME UsbfsInv, NEW t \in Transfers, Submit(t)
    PROVE  UsbfsInv'
<1>1. Types /\ Flow
  BY DEF UsbfsInv
<1>2. stage = "idle" /\ Fresh
  BY <1>1 DEF Submit, Flow
<1>3. /\ UNCHANGED <<transferred, disappeared, discard, reaping, ending, cancel>>
      /\ UNCHANGED <<pending, completed, endpoint, device, received, faults>>
      /\ transfer' = t
  BY DEF Submit, kernel
<1>4. Queue' = <<>>
  BY <1>2, <1>3 DEF Fresh, Queue
<1>5. /\ pending = <<>> /\ received = 0 /\ transferred = 0 /\ endpoint = "ok" /\ faults = 0
      /\ cancel = "uncalled" /\ ending = "none" /\ reaping = NotReaping
      /\ lock = "none" /\ ~disappeared /\ tpriv = NoPriv /\ ~Discarding /\ outcome = "none"
  BY <1>2 DEF Fresh
<1>6. Discarding' = Discarding /\ next \in Nat
  BY <1>1, <1>3 DEF Discarding, Types
<1>7. CASE Unsupported(t)
  <2>1. /\ stage' = "refused" /\ outcome' = "not_supported" /\ UNCHANGED <<lock, next, buffer>>
        /\ tpriv' = [NoPriv EXCEPT !.urbs = <<>>]
    BY <1>5, <1>7 DEF Submit, Refuse
  <2>2. /\ tpriv' \in Priv /\ tpriv'.urbs = <<>> /\ tpriv'.num_retired = 0
        /\ tpriv'.reap_status = "completed" /\ tpriv'.reap_action = "normal"
        /\ tpriv'.iso_packet_offset = 0
    BY <2>1, NoPrivTyped DEF Priv
  <2>3. Types'
    BY <1>1, <1>3, <2>1, <2>2 DEF Types, Outcomes
  <2>4. ~Alive' /\ Quiet'
    <3>1. ~Alive' /\ stage' = "refused" /\ lock' = "none"
      BY <1>5, <2>1, <2>2 DEF Alive
    <3> QED
      BY <1>3, <1>4, <1>5, <2>1, <2>2, <3>1 DEF Quiet
  <2>5. Flow'
    BY <1>3, <1>5, <1>6, <2>1, <2>4 DEF Flow, Over
  <2> QED
    BY <2>3, <2>4, <2>5, QuietNext
<1>8. CASE ~Unsupported(t)
  <2>1. /\ stage' = "submitting" /\ lock' = "submit" /\ next' = 1 /\ outcome' = outcome
        /\ tpriv' = [NoPriv EXCEPT !.urbs = Urbs(t)]
        /\ buffer' = [k \in 1 .. Size(t) |-> 0]
    BY <1>8 DEF Submit
  <2>2. /\ Pieces' = Urbs(t) /\ Urbs(t) \in Seq(Urb) /\ Len(Urbs(t)) \in Nat \ {0}
    BY <1>3, Splitting DEF Pieces, Split
  <2>3. /\ tpriv' \in Priv /\ tpriv'.urbs = Urbs(t) /\ tpriv'.num_retired = 0
        /\ tpriv'.reap_status = "completed" /\ tpriv'.reap_action = "normal"
        /\ tpriv'.iso_packet_offset = 0
    BY <2>1, <2>2, NoPrivTyped DEF Priv
  <2>4. Types'
    BY <1>1, <1>3, <2>1, <2>3 DEF Types, Outcomes
  <2>5. Flow'
    BY <1>3, <1>5, <1>6, <2>1, <2>2, <2>3 DEF Flow, Over
  <2>6. Bulk' => DOMAIN buffer' = 1 .. transfer'.length
    BY <1>3, <2>1 DEF Bulk, Size
  <2>7. \A k \in DOMAIN buffer' : k \in Nat /\ buffer'[k] = 0
    BY <2>1, Splitting
  <2>8. Alive'
    BY <2>2, <2>3, EmptySeq DEF Alive
  <2>9. Quiet'
    BY <1>3, <1>4, <1>5, <2>1, <2>3, <2>6, <2>7, <2>8 DEF Quiet
  <2> QED
    BY <2>4, <2>5, <2>9, QuietNext
<1> QED
  BY <1>7, <1>8

LEMMA SubmittingFacts ==
    ASSUME UsbfsInv, Submitting
    PROVE  /\ transfer \in Transfers /\ stage = "submitting" /\ lock = "submit" /\ ~Discarding
           /\ tpriv.urbs = Pieces /\ Alive /\ next \in 1 .. Len(Pieces)
           /\ Len(Pieces) \in Nat \ {0}
           /\ tpriv.reap_action = "normal" /\ tpriv.num_retired = 0
           /\ tpriv.reap_status = "completed" /\ cancel = "uncalled" /\ ending = "none"
           /\ Len(Queue) + Len(pending) = next - 1
<1>1. lock = "submit" /\ ~Discarding /\ next \in DOMAIN tpriv.urbs
  BY DEF Submitting
<1>2. /\ stage = "submitting" /\ transfer \in Transfers /\ tpriv.urbs = Pieces
      /\ tpriv.reap_status = "completed" /\ cancel = "uncalled" /\ ending = "none"
  BY <1>1 DEF UsbfsInv, Flow
<1>3. Len(Pieces) \in Nat \ {0} /\ DOMAIN Pieces = 1 .. Len(Pieces) /\ Pieces # <<>>
  BY <1>2, Whole, LenProperties
<1>4. next \in 1 .. Len(Pieces) /\ Alive
  BY <1>1, <1>2, <1>3 DEF Alive
<1>5. tpriv.reap_action = "normal" /\ tpriv.num_retired = 0
  BY <1>1, <1>4 DEF UsbfsInv, Counted
<1>6. Len(Queue) \in Nat /\ Len(pending) \in Nat
  BY TypedQueue DEF UsbfsInv
<1>7. Len(Queue) + Len(pending) = next - 1
  BY <1>4, <1>5, <1>6 DEF UsbfsInv, Counted
<1> QED
  BY <1>1, <1>2, <1>3, <1>4, <1>5, <1>7

LEMMA SubmitUrbFlow ==
    ASSUME UsbfsInv, SubmitUrb
    PROVE  Types' /\ Flow' /\ endpoint' = endpoint /\ Queue' = Queue
<1>1. Submitting /\ device = "attached" /\ ~(Continuation /\ endpoint = "disabled")
  BY DEF SubmitUrb
<1>2. /\ transfer \in Transfers /\ stage = "submitting" /\ lock = "submit" /\ ~Discarding
      /\ tpriv.urbs = Pieces /\ next \in 1 .. Len(Pieces) /\ Len(Pieces) \in Nat \ {0}
      /\ cancel = "uncalled" /\ ending = "none" /\ tpriv.reap_status = "completed"
  BY <1>1, SubmittingFacts
<1>3. Types /\ Flow
  BY DEF UsbfsInv
<1>4. endpoint # "disabled"
  <2>1. SUFFICES ASSUME endpoint = "disabled" PROVE FALSE
    OBVIOUS
  <2>2. Bulk /\ use_bulk_continuation(transfer) /\ next > 1
    BY <1>3, <2>1 DEF Flow
  <2>3. "BULK_CONTINUATION" \in Pieces[next].flags
    BY <1>2, <2>2, Flagged DEF Pieces, Bulk
  <2> QED
    BY <1>1, <1>2, <2>1, <2>3 DEF Continuation
<1>5. /\ pending' = Append(pending, Pieces[next]) /\ next' = next + 1 /\ endpoint' = endpoint
      /\ UNCHANGED <<transfer, stage, outcome, transferred, buffer, disappeared>>
      /\ UNCHANGED <<completed, device, received, faults, tpriv, lock, discard, reaping,
                     ending, cancel>>
  BY <1>2, <1>4 DEF SubmitUrb, user
<1>6. Queue' = Queue /\ Pieces' = Pieces /\ Discarding' = Discarding /\ Bulk' = Bulk
  BY <1>5 DEF Queue, Pieces, Discarding, Bulk
<1>7. Pieces[next] \in Urb
  BY <1>2, Whole
<1>8. pending' \in Seq(Urb)
  BY <1>3, <1>5, <1>7, AppendProperties DEF Types
<1>9. Types'
  BY <1>3, <1>5, <1>8 DEF Types
<1>10. Flow'
  BY <1>1, <1>2, <1>3, <1>5, <1>6 DEF Flow, Fresh, Over, Alive
<1> QED
  BY <1>5, <1>6, <1>9, <1>10

LEMMA SubmitUrbInv ==
    ASSUME UsbfsInv, SubmitUrb
    PROVE  UsbfsInv'
<1> DEFINE n == Len(pending)
           u == Pieces[next]
<1>1. Types' /\ Flow' /\ endpoint' = endpoint /\ Queue' = Queue
  BY SubmitUrbFlow
<1>2. /\ transfer \in Transfers /\ stage = "submitting" /\ lock = "submit"
      /\ tpriv.urbs = Pieces /\ Alive /\ next \in 1 .. Len(Pieces)
      /\ Len(Pieces) \in Nat \ {0}
      /\ tpriv.reap_action = "normal" /\ tpriv.num_retired = 0
      /\ tpriv.reap_status = "completed" /\ cancel = "uncalled" /\ ending = "none"
      /\ Len(Queue) + n = next - 1
  BY SubmittingFacts DEF SubmitUrb
<1>3. /\ pending' = Append(pending, u) /\ next' = next + 1
      /\ UNCHANGED <<transfer, stage, outcome, transferred, buffer, disappeared>>
      /\ UNCHANGED <<completed, device, received, faults, tpriv, lock, discard, reaping,
                     ending, cancel>>
  BY <1>2 DEF SubmitUrb, user
<1>4. Types /\ Placed /\ Counted /\ Stream /\ InOrder /\ Untouched
  BY DEF UsbfsInv
<1>5. /\ Pieces' = Pieces /\ Iso' = Iso /\ Bulk' = Bulk /\ Control' = Control /\ Alive' = Alive
      /\ Dry' = Dry /\ Normal' = Normal
  BY <1>1, <1>3 DEF Pieces, Iso, Bulk, Control, Alive, Dry, Normal
<1>6. u \in Urb /\ u.index = next /\ u.at \in Nat /\ u.length \in Nat
  BY <1>2, Whole DEF Urb
<1>7. /\ pending \in Seq(Urb) /\ n \in Nat /\ Len(Queue) \in Nat
      /\ \A i \in 1 .. n : pending[i].index \in Nat
      /\ \A i \in 1 .. Len(Queue) : Queue[i].urb.index \in Nat
  BY <1>4, TypedQueue
<1>8. /\ Len(pending') = n + 1 /\ pending'[n + 1] = u
      /\ \A i \in 1 .. n : pending'[i] = pending[i]
  BY <1>3, <1>6, <1>7, AppendProperties
<1>9. next \in Nat
  BY <1>2
<1> HIDE DEF n, u
<1>10. Placed'
  <2> DEFINE sent(x) == /\ x.index \in 1 .. Len(Pieces) /\ x.index < next + 1
                        /\ x = Pieces[x.index]
  <2>1. \A x : Piece(x) => sent(x)
    BY <1>9 DEF Piece
  <2>2. sent(u)
    BY <1>2, <1>6 DEF u
  <2>3. \A i \in 1 .. Len(pending') : pending'[i] = IF i = n + 1 THEN u ELSE pending[i]
    BY <1>7, <1>8
  <2>4. \A i \in 1 .. n : Piece(pending[i]) /\ pending[i].index < next
    BY <1>4 DEF Placed, Piece, n
  <2>5. \A i \in 1 .. Len(Queue) : Piece(Queue[i].urb) /\ Queue[i].urb.index < next
    BY <1>4 DEF Placed, Piece
  <2> HIDE DEF sent
  <2>6. \A i \in 1 .. Len(pending') : sent(pending'[i])
    BY <1>7, <1>8, <2>1, <2>2, <2>3, <2>4
  <2>7. ASSUME NEW i \in 1 .. Len(pending'), NEW j \in 1 .. Len(pending'), i < j
        PROVE  pending'[i].index < pending'[j].index
    <3>1. i \in 1 .. n /\ pending'[i] = pending[i]
      BY <1>7, <1>8, <2>7
    <3>2. CASE j = n + 1
      BY <1>6, <1>8, <2>4, <3>1, <3>2
    <3>3. CASE j # n + 1
      <4>1. j \in 1 .. n /\ pending'[j] = pending[j]
        BY <1>7, <1>8, <3>3
      <4> QED
        BY <1>4, <2>7, <3>1, <4>1 DEF Placed, n
    <3> QED
      BY <3>2, <3>3
  <2>8. ASSUME NEW i \in 1 .. Len(pending'), NEW j \in 1 .. Len(Queue)
        PROVE  pending'[i].index # Queue[j].urb.index
    <3>1. CASE i = n + 1
      BY <1>6, <1>7, <1>8, <1>9, <2>5, <3>1
    <3>2. CASE i # n + 1
      <4>1. i \in 1 .. n /\ pending'[i] = pending[i]
        BY <1>7, <1>8, <3>2
      <4> QED
        BY <1>4, <4>1 DEF Placed, n
    <3> QED
      BY <3>1, <3>2
  <2>9. \A i \in 1 .. Len(Queue) : sent(Queue[i].urb)
    BY <2>1, <2>5
  <2>10. /\ \A i \in 1 .. Len(pending') : Piece(pending[i])'
         /\ \A i \in 1 .. Len(Queue') : Piece(Queue[i].urb)'
    BY <1>1, <1>3, <1>5, <2>6, <2>9 DEF Piece, sent
  <2>11. \A i, j \in 1 .. Len(Queue) : Queue[i].urb.index = Queue[j].urb.index => i = j
    BY <1>4 DEF Placed
  <2> QED
    BY <1>1, <2>7, <2>8, <2>10, <2>11 DEF Placed
<1>11. Counted'
  <2>1. /\ Len(Queue') + Len(pending') = next' - 1 /\ tpriv'.num_retired = 0
        /\ tpriv'.reap_status = "completed" /\ tpriv'.reap_action = "normal"
    <3>1. Len(Queue') = Len(Queue) /\ tpriv' = tpriv /\ next' = next + 1
      BY <1>1, <1>3
    <3>2. Len(Queue) + n = next - 1
      BY <1>2
    <3>3. Len(Queue') + Len(pending') = next' - 1
      BY <1>7, <1>8, <1>9, <3>1, <3>2
    <3> QED
      BY <1>2, <3>1, <3>3
  <2> QED
    BY <1>1, <1>2, <1>5, <1>7, <1>8, <2>1 DEF Counted
<1>12. Stream'
  <2>1. \A off : Runs(off) => Runs(off)'
    BY <1>1, <1>3 DEF Runs
  <2>2. SUFFICES ASSUME ~Iso
                 PROVE  /\ \A i \in 1 .. Len(pending') : received <= pending'[i].at
                        /\ next + 1 <= Len(Pieces) => received <= Pieces[next + 1].at
    BY <1>1, <1>3, <1>4, <1>5, <2>1 DEF Stream
  <2>3. received <= u.at /\ \A i \in 1 .. n : received <= pending[i].at
    BY <1>2, <1>4, <2>2 DEF Stream, u, n
  <2>4. \A i \in 1 .. Len(pending') : received <= pending'[i].at
    BY <1>7, <1>8, <2>3
  <2>5. ASSUME next + 1 <= Len(Pieces) PROVE received <= Pieces[next + 1].at
    <3>1. next \in 1 .. Len(Pieces) - 1 /\ received \in Nat
      BY <1>2, <1>4, <2>5 DEF Types
    <3>2. Pieces[next + 1].at = u.at + u.length
      BY <1>2, <3>1, Adjoining DEF u
    <3> QED
      BY <1>6, <2>3, <3>1, <3>2
  <2> QED
    BY <2>4, <2>5
<1>13. Buffered'
  BY <1>3, BufferedKept DEF UsbfsInv
<1>14. Stopped'
  BY <1>1, <1>3, <1>5, StoppedKept DEF UsbfsInv
<1>15. u.index = tpriv.num_retired + Len(Queue) + (n + 1)
  BY <1>2, <1>6, <1>7
<1>16. InOrder'
  <2>1. CutShort' = CutShort /\ \A e : Cut(e)' = Cut(e) /\ HasData(e)' = HasData(e)
    BY <1>1, <1>5 DEF CutShort, Cut, HasData
  <2>2. ~CutShort => \A i \in 1 .. Len(pending') :
                       pending'[i].index = tpriv.num_retired + Len(Queue) + i
    <3>1. ~CutShort => \A i \in 1 .. n :
                         pending[i].index = tpriv.num_retired + Len(Queue) + i
      BY <1>2, <1>4 DEF InOrder, Normal, n
    <3> QED
      BY <1>7, <1>8, <1>15, <3>1
  <2> QED
    BY <1>1, <1>2, <1>3, <1>4, <1>5, <2>1, <2>2 DEF InOrder
<1>17. Aligned'
  BY <1>1, <1>3, <1>5, AlignedKept DEF UsbfsInv
<1>18. Packets'
  BY <1>1, <1>3, <1>5, PacketsKept DEF UsbfsInv
<1>19. Untouched'
  <2>1. Clear' = Clear
    BY <1>3, <1>5 DEF Clear
  <2>2. Clear => \A i \in 1 .. Len(pending') :
                   pending'[i].index = tpriv.num_retired + Len(Queue) + i
    <3>1. Clear => \A i \in 1 .. n : pending[i].index = tpriv.num_retired + Len(Queue) + i
      BY <1>4 DEF Untouched, n
    <3> QED
      BY <1>7, <1>8, <1>15, <3>1
  <2> QED
    BY <1>1, <1>2, <1>3, <1>4, <1>5, <2>1, <2>2 DEF Untouched
<1>20. Verdict'
  <2>1. Verdict
    BY DEF UsbfsInv
  <2> QED
    BY <1>2, <1>3, <1>5, <2>1 DEF Verdict
<1> QED
  BY <1>1, <1>10, <1>11, <1>12, <1>13, <1>14, <1>16, <1>17, <1>18, <1>19, <1>20 DEF UsbfsInv

LEMMA FreedTyped ==
    ASSUME NEW p \in Priv, NEW q, q = [p EXCEPT !.urbs = <<>>]
    PROVE  /\ q \in Priv /\ q.urbs = <<>> /\ q.reap_action = p.reap_action
           /\ q.num_retired = p.num_retired /\ q.reap_status = p.reap_status
           /\ q.iso_packet_offset = p.iso_packet_offset
<1>1. ASSUME NEW us \in Seq(Urb)
      PROVE  LET r == [p EXCEPT !.urbs = us]
             IN /\ r \in Priv /\ r.urbs = us /\ r.reap_action = p.reap_action
                /\ r.num_retired = p.num_retired /\ r.reap_status = p.reap_status
                /\ r.iso_packet_offset = p.iso_packet_offset
  BY DEF Priv
<1>2. <<>> \in Seq(Urb)
  BY EmptySeq
<1> QED
  BY <1>1, <1>2

LEMMA NoLongerNormal ==
    ASSUME ~Normal', lock' # "reap" \/ Bulk'
    PROVE  InOrder' /\ Aligned' /\ Untouched'
<1>1. ~Clear'
  BY DEF Clear
<1> QED
  BY <1>1 DEF InOrder, Aligned, Untouched

LEMMA SubmitUrbFailsInv ==
    ASSUME UsbfsInv, SubmitUrbFails
    PROVE  UsbfsInv'
<1> DEFINE n == Len(Pieces)
<1>1. /\ transfer \in Transfers /\ stage = "submitting" /\ lock = "submit" /\ ~Discarding
      /\ tpriv.urbs = Pieces /\ Alive /\ next \in 1 .. n /\ n \in Nat \ {0}
      /\ tpriv.reap_action = "normal" /\ tpriv.num_retired = 0
      /\ tpriv.reap_status = "completed" /\ cancel = "uncalled" /\ ending = "none"
      /\ Len(Queue) + Len(pending) = next - 1
  BY SubmittingFacts DEF SubmitUrbFails
<1>2. /\ UNCHANGED <<transfer, transferred, buffer, disappeared, reaping, ending, cancel>>
      /\ UNCHANGED <<pending, completed, endpoint, device, received>>
  BY DEF SubmitUrbFails
<1>3. Types /\ Flow /\ Counted /\ Verdict /\ Packets /\ tpriv \in Priv /\ next \in Nat
  BY DEF UsbfsInv, Types
<1>4. /\ Pieces' = Pieces /\ Iso' = Iso /\ Bulk' = Bulk /\ Control' = Control
      /\ Dry' = Dry /\ Queue' = Queue
  BY <1>2 DEF Pieces, Iso, Bulk, Control, Dry, Queue
<1>5. Len(Queue) \in Nat /\ Len(pending) \in Nat
  BY <1>3, TypedQueue
<1>6. faults' \in Nat
  BY <1>3 DEF SubmitUrbFails, Fault, Types
<1>7. CASE next = 1
  <2>1. /\ stage' = "refused" /\ outcome' \in {"no_device", "io"}
        /\ tpriv' = [tpriv EXCEPT !.urbs = <<>>]
        /\ lock' = "none" /\ UNCHANGED <<next, discard>>
    BY <1>7 DEF SubmitUrbFails, Refuse
  <2>2. tpriv' \in Priv /\ tpriv'.urbs = <<>>
    BY <1>3, <2>1, FreedTyped
  <2>3. ~Alive' /\ ~Normal' /\ Discarding' = Discarding
    BY <2>1, <2>2 DEF Alive, Normal, Discarding
  <2>4. reaping = NotReaping
    BY <1>1, <1>3, <1>5, <1>7, QueueTyped, LenProperties DEF Types
  <2>5. Types'
    BY <1>2, <1>3, <1>6, <2>1, <2>2 DEF Types, Outcomes
  <2>6. Flow'
    BY <1>1, <1>2, <1>3, <1>4, <2>1, <2>3, <2>4 DEF Flow, Over
  <2>7. InOrder' /\ Aligned' /\ Untouched'
    BY <2>1, <2>3, NoLongerNormal
  <2>8. Placed'
    BY <1>2, <1>3, <1>4, <2>1, <2>5, PlacedKept DEF UsbfsInv
  <2>9. Counted'
    BY <2>1, <2>3 DEF Counted
  <2>10. Stream'
    BY <1>2, <1>4, <2>1, StreamKept DEF UsbfsInv
  <2>11. Buffered' /\ Stopped'
    BY <1>2, <1>4, <2>1, BufferedKept, StoppedKept DEF UsbfsInv
  <2>12. Packets'
    BY <1>2, <1>4, <2>1, <2>3, PacketsKept DEF UsbfsInv
  <2>13. Verdict'
    BY <1>1, <1>2, <2>1, <2>3 DEF Verdict
  <2> QED
    BY <2>5, <2>6, <2>7, <2>8, <2>9, <2>10, <2>11, <2>12, <2>13 DEF UsbfsInv
<1>8. CASE next # 1
  <2>1. /\ UNCHANGED <<stage, outcome, lock>> /\ next' = n + 1
        /\ \E a \in {"completed_early", "submit_failed"} :
             tpriv' = [tpriv EXCEPT !.reap_action = a, !.num_retired = n - next + 1]
        /\ \/ UNCHANGED discard
           \/ discard' = [next |-> next - 1, first |-> 1, last |-> next - 1,
                          ret |-> "success"]
    BY <1>1, <1>8 DEF SubmitUrbFails, StartDiscard, NotSubmitted
  <2>2. n - next + 1 \in Nat /\ n - next + 1 < n /\ next - 1 \in Nat
    BY <1>1, <1>8
  <2>3. /\ tpriv' \in Priv /\ tpriv'.urbs = Pieces /\ tpriv'.reap_action \in Actions
        /\ tpriv'.reap_action # "normal" /\ tpriv'.reap_action \notin {"error", "cancelled"}
        /\ tpriv'.num_retired = n - next + 1 /\ tpriv'.reap_status = "completed"
    <3>1. PICK a \in {"completed_early", "submit_failed"} :
            tpriv' = [tpriv EXCEPT !.reap_action = a, !.num_retired = n - next + 1]
      BY <2>1
    <3>2. a \in Actions
      BY <3>1 DEF Actions
    <3> DEFINE k == n - next + 1
    <3>3. tpriv' = [tpriv EXCEPT !.reap_action = a, !.num_retired = k] /\ k \in Nat
      BY <2>2, <3>1
    <3> HIDE DEF k
    <3>4. /\ tpriv' \in Priv /\ tpriv'.urbs = tpriv.urbs /\ tpriv'.reap_action = a
          /\ tpriv'.num_retired = k /\ tpriv'.reap_status = tpriv.reap_status
      <4>1. tpriv \in Priv
        BY <1>3
      <4> QED
        BY <3>2, <3>3, <4>1 DEF Priv
    <3> QED
      BY <1>1, <3>1, <3>2, <3>4 DEF k
  <2>4. ~Control
    BY <1>1, <1>8, OneControl
  <2>5. Alive' /\ ~Normal'
    BY <1>1, <2>3 DEF Alive, Normal
  <2>6. discard' \in Loop
    BY <1>3, <2>1, <2>2 DEF Loop, Types
  <2>7. next' \in Nat /\ next < next'
    BY <1>1, <2>1
  <2>8. Types'
    BY <1>2, <1>3, <1>6, <2>1, <2>3, <2>6, <2>7 DEF Types
  <2>9. Flow'
    BY <1>1, <1>2, <1>3, <1>4, <2>1, <2>3, <2>5, <2>7 DEF Flow, Over
  <2>10. InOrder' /\ Aligned' /\ Untouched'
    BY <1>1, <2>1, <2>5, NoLongerNormal
  <2>11. Placed'
    BY <1>2, <1>3, <1>4, <2>7, <2>8, PlacedKept DEF UsbfsInv
  <2>12. Counted'
    <3>1. tpriv'.num_retired + Len(Queue) + Len(pending) = next' - 1
      BY <1>1, <1>5, <2>1, <2>3
    <3>2. tpriv'.num_retired < n /\ ~(next' <= n)
      BY <1>1, <2>1, <2>2, <2>3
    <3> QED
      BY <1>2, <1>4, <2>3, <2>4, <3>1, <3>2 DEF Counted
  <2>13. Stream'
    <3>1. ~(next' <= Len(Pieces))
      BY <1>1, <2>1
    <3> QED
      BY <1>2, <1>4, <3>1, StreamKept DEF UsbfsInv
  <2>14. Buffered' /\ Stopped'
    BY <1>2, <1>4, <2>1, BufferedKept, StoppedKept DEF UsbfsInv
  <2>15. Packets'
    BY <1>2, <1>4, <2>3, <2>5, PacketsKept DEF UsbfsInv
  <2>16. Verdict'
    BY <1>1, <1>2, <2>1, <2>3 DEF Verdict
  <2> QED
    BY <2>8, <2>9, <2>10, <2>11, <2>12, <2>13, <2>14, <2>15, <2>16 DEF UsbfsInv
<1> QED
  BY <1>7, <1>8

LEMMA SameTransfer ==
    ASSUME UNCHANGED transfer
    PROVE  Pieces' = Pieces /\ Iso' = Iso /\ Bulk' = Bulk /\ Control' = Control
  BY DEF Pieces, Iso, Bulk, Control

(* Steps that move no URB.                                                 *)
Still == /\ UNCHANGED <<transfer, transferred, buffer, pending, completed, reaping,
                        received, faults, endpoint, next>>
         /\ Dry => Dry'
         /\ Types' /\ Flow'

LEMMA StillInv ==
    ASSUME UsbfsInv, Still,
           lock' = "submit" => lock = "submit" /\ tpriv' = tpriv,
           Alive' => Alive /\ tpriv'.num_retired = tpriv.num_retired
                           /\ tpriv'.reap_status = tpriv.reap_status
                           /\ tpriv'.iso_packet_offset = tpriv.iso_packet_offset,
           tpriv'.reap_action = "normal" => tpriv.reap_action = "normal",
           stage' \in {"submitting", "flying", "reported"} =>
             stage \in {"submitting", "flying", "reported"},
           lock' \in {"reap", "cancel"} /\ discard'.next < discard'.last =>
             lock' = lock /\ discard' = discard,
           lock' = "reap" => lock = "reap",
           Clear' => Clear
    PROVE  /\ Queue' = Queue
           /\ Placed' /\ Counted' /\ Stream' /\ Buffered' /\ Stopped'
           /\ InOrder' /\ Aligned' /\ Packets' /\ Untouched'
<1>1. /\ UNCHANGED <<transfer, transferred, buffer, pending, completed, reaping,
                     received, faults, endpoint, next>>
      /\ Dry => Dry'
      /\ Types' /\ Flow'
  BY DEF Still
<1>2. /\ Types /\ Flow /\ Placed /\ Counted /\ Stream /\ Buffered /\ Stopped
      /\ InOrder /\ Aligned /\ Packets /\ Untouched
  BY DEF UsbfsInv
<1>3. Queue' = Queue
  BY <1>1 DEF Queue
<1>4. Pieces' = Pieces /\ Iso' = Iso /\ Bulk' = Bulk /\ Control' = Control
  BY <1>1, SameTransfer
<1>5. Normal' => Normal /\ tpriv'.num_retired = tpriv.num_retired
                 /\ tpriv'.reap_status = tpriv.reap_status
                 /\ tpriv'.iso_packet_offset = tpriv.iso_packet_offset
  BY DEF Normal
<1>6. Clear' => Clear /\ tpriv'.num_retired = tpriv.num_retired
  BY <1>5 DEF Clear
<1>7. next \in Nat
  BY <1>2 DEF Types
<1>8. Placed'
  BY <1>1, <1>2, <1>3, <1>7, PlacedKept
<1>9. Counted'
  BY <1>1, <1>2, <1>3, <1>4 DEF Counted
<1>10. Stream'
  BY <1>1, <1>2, <1>3, StreamKept
<1>11. Buffered'
  BY <1>1, <1>2, BufferedKept
<1>12. Stopped'
  BY <1>1, <1>2, <1>3, StoppedKept
<1>13. InOrder'
  BY <1>1, <1>2, <1>3, <1>5, InOrderKept
<1>14. Aligned'
  BY <1>1, <1>2, <1>3, <1>5, AlignedKept
<1>15. Packets'
  BY <1>1, <1>2, <1>3, <1>5, PacketsKept
<1>16. Untouched'
  <2>1. lock' = "reap" => Bulk /\ (Normal' => tpriv'.reap_status # "completed")
    BY <1>2, <1>5 DEF Untouched
  <2>2. Clear' /\ lock' = "cancel" /\ discard'.next < discard'.last =>
          lock = "cancel" /\ discard.next < discard.last
    OBVIOUS
  <2> QED
    BY <1>1, <1>2, <1>3, <1>6, <2>1, <2>2, UntouchedKept
<1> QED
  BY <1>3, <1>8, <1>9, <1>10, <1>11, <1>12, <1>13, <1>14, <1>15, <1>16

LEMMA EndSubmitInv ==
    ASSUME UsbfsInv, EndSubmit
    PROVE  UsbfsInv'
<1>1. lock = "submit" /\ ~Discarding /\ next > Len(tpriv.urbs) /\ lock' = "none"
  BY DEF EndSubmit
<1>2. /\ UNCHANGED <<transfer, transferred, buffer, disappeared, next, discard, reaping,
                     ending, cancel>>
      /\ UNCHANGED <<pending, completed, endpoint, device, received, faults>>
  BY DEF EndSubmit, kernel
<1>3. Types /\ Flow /\ Verdict /\ tpriv \in Priv /\ next \in Nat
  BY DEF UsbfsInv, Types
<1>4. /\ transfer \in Transfers /\ stage = "submitting" /\ tpriv.urbs = Pieces
      /\ cancel = "uncalled" /\ ending = "none" /\ next \in 1 .. Len(Pieces) + 1
  BY <1>1, <1>3 DEF Flow
<1>5. Len(Pieces) \in Nat \ {0} /\ next = Len(Pieces) + 1
  BY <1>1, <1>4, Whole
<1>6. Pieces' = Pieces /\ Bulk' = Bulk
  BY <1>2, SameTransfer
<1>7. Dry' = Dry
  BY <1>2 DEF Dry
<1>8. CASE disappeared
  <2>1. /\ stage' = "refused" /\ outcome' = "no_device"
        /\ tpriv' = [tpriv EXCEPT !.urbs = <<>>]
    BY <1>8 DEF EndSubmit, Refuse
  <2>2. tpriv' \in Priv /\ tpriv'.urbs = <<>> /\ tpriv'.reap_action = tpriv.reap_action
    BY <1>3, <2>1, FreedTyped
  <2>3. ~Alive' /\ ~Clear'
    BY <2>2 DEF Alive, Clear, Normal
  <2>4. reaping = NotReaping
    BY <1>3, <1>8 DEF Flow
  <2>5. Types'
    BY <1>1, <1>2, <1>3, <2>1, <2>2 DEF Types, Outcomes
  <2>6. Flow'
    BY <1>1, <1>2, <1>3, <1>4, <1>6, <2>1, <2>3, <2>4 DEF Flow, Over
  <2>7. Still
    BY <1>2, <1>7, <2>5, <2>6 DEF Still
  <2>8. Verdict'
    BY <1>2, <1>3, <1>4, <2>1, <2>3 DEF Verdict
  <2> QED
    BY <1>1, <2>1, <2>2, <2>3, <2>5, <2>6, <2>7, <2>8, StillInv DEF UsbfsInv
<1>9. CASE ~disappeared
  <2>1. stage' = "flying" /\ UNCHANGED <<outcome, tpriv>>
    BY <1>9 DEF EndSubmit
  <2>2. Alive' = Alive /\ (Clear' => Clear)
    BY <1>1, <1>2, <2>1, SameTransfer DEF Alive, Clear, Normal
  <2>3. Types'
    BY <1>1, <1>2, <1>3, <2>1 DEF Types
  <2>4. Flow'
    BY <1>1, <1>2, <1>3, <1>4, <1>5, <1>6, <2>1 DEF Flow
  <2>5. Still
    BY <1>2, <1>7, <2>3, <2>4 DEF Still
  <2>6. Verdict'
    BY <1>2, <1>3, <1>4, <2>1, <2>2 DEF Verdict
  <2> QED
    BY <1>1, <1>4, <2>1, <2>2, <2>3, <2>4, <2>5, <2>6, StillInv DEF UsbfsInv
<1> QED
  BY <1>8, <1>9

---------------------------------------------------------------------------
(* The cancellation, and the end of an event handler's discarding.         *)

LEMMA CancelInv ==
    ASSUME UsbfsInv, Cancel
    PROVE  UsbfsInv'
<1>1. stage = "flying" /\ cancel = "uncalled" /\ lock = "none"
  BY DEF Cancel
<1>2. /\ UNCHANGED <<transfer, stage, outcome, transferred, buffer, disappeared>>
      /\ UNCHANGED <<tpriv, next, reaping, ending>>
      /\ UNCHANGED <<pending, completed, endpoint, device, received, faults>>
  BY DEF Cancel, user, kernel
<1>3. Types /\ Flow /\ Verdict
  BY DEF UsbfsInv
<1>4. transfer \in Transfers /\ Len(Pieces) \in Nat
  BY <1>1, <1>3, Whole DEF Flow
<1>5. Pieces' = Pieces /\ Bulk' = Bulk /\ Iso' = Iso
  BY <1>2, SameTransfer
<1>6. Dry' = Dry /\ Alive' = Alive /\ Normal' = Normal
  BY <1>2 DEF Dry, Alive, Normal
<1>7. CASE ~Alive
  <2>1. cancel' = "not_found" /\ UNCHANGED <<lock, discard>>
    BY <1>7 DEF Cancel, Alive
  <2>2. Types'
    BY <1>2, <1>3, <2>1 DEF Types
  <2>3. Discarding' = Discarding
    BY <2>1 DEF Discarding
  <2>4. Flow'
    BY <1>1, <1>2, <1>3, <1>5, <1>6, <2>1, <2>3 DEF Flow
  <2>5. Still
    BY <1>2, <1>6, <2>2, <2>4 DEF Still
  <2>6. ~Clear'
    BY <1>6, <1>7 DEF Clear, Normal
  <2>7. Verdict'
    BY <1>1, <1>2, <1>3, <1>5, <1>6, <2>1 DEF Verdict
  <2> QED
    BY <1>1, <1>2, <1>6, <1>7, <2>1, <2>2, <2>4, <2>5, <2>6, <2>7, StillInv DEF UsbfsInv
<1>8. CASE Alive
  <2>1. /\ lock' = "cancel" /\ cancel' = cancel
        /\ discard' = [next |-> Len(tpriv.urbs), first |-> 1, last |-> Len(tpriv.urbs),
                       ret |-> "success"]
    BY <1>8 DEF Cancel, StartDiscard, Alive
  <2>2. ending = "none" /\ tpriv.urbs = Pieces
    BY <1>1, <1>3, <1>8 DEF Flow
  <2>3. discard' \in Loop /\ discard'.last = Len(Pieces) /\ ~(discard'.next < discard'.last)
    BY <1>4, <2>1, <2>2 DEF Loop
  <2>4. Types'
    BY <1>2, <1>3, <2>1, <2>3 DEF Types
  <2>5. Flow'
    BY <1>1, <1>2, <1>3, <1>5, <1>6, <2>1, <2>2, <2>3 DEF Flow
  <2>6. Still
    BY <1>2, <1>6, <2>4, <2>5 DEF Still
  <2>7. Clear' => Clear
    BY <1>1, <1>2, <1>5, <1>6, <2>1 DEF Clear
  <2>8. Verdict'
    BY <1>1, <1>2, <1>3, <1>5, <1>6, <2>1 DEF Verdict
  <2> QED
    BY <1>1, <1>2, <1>6, <2>1, <2>3, <2>4, <2>5, <2>6, <2>7, <2>8, StillInv DEF UsbfsInv
<1> QED
  BY <1>7, <1>8

LEMMA EndCancelInv ==
    ASSUME UsbfsInv, EndCancel
    PROVE  UsbfsInv'
<1>1. lock = "cancel" /\ ~Discarding /\ lock' = "none" /\ cancel' = discard.ret
  BY DEF EndCancel
<1>2. /\ UNCHANGED <<transfer, stage, outcome, transferred, buffer, disappeared>>
      /\ UNCHANGED <<next, discard, reaping, ending>>
      /\ UNCHANGED <<pending, completed, endpoint, device, received, faults>>
  BY DEF EndCancel, user, kernel
<1>3. Types /\ Flow /\ Verdict /\ tpriv \in Priv /\ discard \in Loop
  BY DEF UsbfsInv, Types
<1>4. /\ stage = "flying" /\ ending = "none" /\ transfer \in Transfers /\ cancel = "uncalled"
      /\ tpriv.urbs = Pieces
  BY <1>1, <1>3 DEF Flow
<1>5. Pieces' = Pieces /\ Bulk' = Bulk /\ Iso' = Iso
  BY <1>2, SameTransfer
<1>6. discard.ret \in {"success", "not_found", "no_device"} /\ Dry' = Dry
  BY <1>2, <1>3 DEF Loop, Dry
<1>7. CASE discard.ret = "success"
  <2>1. tpriv' = [tpriv EXCEPT !.reap_action = CancelAction]
    BY <1>7 DEF EndCancel
  <2>2. /\ CancelAction \in {"cancelled", "error"}
        /\ CancelAction = "error" => tpriv.reap_action = "error"
    BY DEF CancelAction
  <2>3. CancelAction \in Actions
    BY <2>2 DEF Actions
  <2> HIDE DEF CancelAction
  <2>4. /\ tpriv' \in Priv /\ tpriv'.urbs = tpriv.urbs /\ tpriv'.reap_action = CancelAction
        /\ tpriv'.num_retired = tpriv.num_retired /\ tpriv'.reap_status = tpriv.reap_status
        /\ tpriv'.iso_packet_offset = tpriv.iso_packet_offset
    BY <1>3, <2>1, <2>3 DEF Priv
  <2>5. Alive' = Alive /\ ~Normal' /\ ~Clear'
    BY <2>2, <2>4 DEF Alive, Normal, Clear
  <2>6. Types'
    BY <1>1, <1>2, <1>3, <1>6, <2>4 DEF Types
  <2>7. Flow'
    BY <1>1, <1>2, <1>3, <1>4, <1>5, <2>4, <2>5 DEF Flow
  <2>8. Still
    BY <1>2, <1>6, <2>6, <2>7 DEF Still
  <2>9. Verdict'
    BY <1>1, <1>2, <1>3, <1>4, <2>2, <2>4, <2>5 DEF Verdict
  <2> QED
    BY <1>1, <1>2, <1>4, <2>2, <2>4, <2>5, <2>6, <2>7, <2>8, <2>9, StillInv DEF UsbfsInv
<1>8. CASE discard.ret # "success"
  <2>1. tpriv' = tpriv
    BY <1>8 DEF EndCancel
  <2>2. Alive' = Alive /\ Normal' = Normal
    BY <2>1 DEF Alive, Normal
  <2>3. Clear' => Clear
    BY <1>1, <1>2, <1>4, <1>5, <1>6, <1>8, <2>1, <2>2 DEF Clear
  <2>4. Types'
    BY <1>1, <1>2, <1>3, <1>6, <2>1 DEF Types
  <2>5. Flow'
    BY <1>1, <1>2, <1>3, <1>4, <1>5, <2>1, <2>2 DEF Flow
  <2>6. Still
    BY <1>2, <1>6, <2>4, <2>5 DEF Still
  <2>7. Verdict'
    BY <1>1, <1>2, <1>3, <1>4, <1>8, <2>1, <2>2 DEF Verdict
  <2> QED
    BY <1>1, <1>2, <1>4, <2>1, <2>2, <2>3, <2>4, <2>5, <2>6, <2>7, StillInv DEF UsbfsInv
<1> QED
  BY <1>7, <1>8

LEMMA EndReapInv ==
    ASSUME UsbfsInv, EndReap
    PROVE  UsbfsInv'
<1>1. lock = "reap" /\ ~Discarding /\ lock' = "none"
  BY DEF EndReap
<1>2. /\ UNCHANGED <<transfer, stage, outcome, transferred, buffer, disappeared>>
      /\ UNCHANGED <<tpriv, next, discard, reaping, ending, cancel>>
      /\ UNCHANGED <<pending, completed, endpoint, device, received, faults>>
  BY DEF EndReap, user, kernel
<1>3. Types /\ Flow /\ Verdict
  BY DEF UsbfsInv
<1>4. stage = "flying"
  BY <1>1, <1>3 DEF Flow
<1>5. Pieces' = Pieces /\ Bulk' = Bulk /\ Iso' = Iso
  BY <1>2, SameTransfer
<1>6. Dry' = Dry /\ Alive' = Alive /\ Normal' = Normal
  BY <1>2 DEF Dry, Alive, Normal
<1>7. Types'
  BY <1>1, <1>2, <1>3 DEF Types
<1>8. Flow'
  BY <1>1, <1>2, <1>3, <1>4, <1>5, <1>6 DEF Flow
<1>9. Still
  BY <1>2, <1>6, <1>7, <1>8 DEF Still
<1>10. Clear' => Clear
  BY <1>1, <1>2, <1>5, <1>6 DEF Clear
<1>11. Verdict'
  BY <1>2, <1>3, <1>5, <1>6 DEF Verdict
<1> QED
  BY <1>1, <1>2, <1>4, <1>6, <1>7, <1>8, <1>9, <1>10, <1>11, StillInv DEF UsbfsInv

---------------------------------------------------------------------------
(* The event handler: disconnection, report, and what it takes from the    *)
(* kernel.                                                                 *)

LEMMA HandleDisconnectInv ==
    ASSUME UsbfsInv, HandleDisconnect
    PROVE  UsbfsInv'
<1>1. Idle /\ device = "gone" /\ device' = "known"
  BY DEF HandleDisconnect
<1>2. /\ UNCHANGED <<transfer, stage, outcome, transferred, buffer>>
      /\ UNCHANGED <<lock, next, discard, reaping, cancel>>
      /\ UNCHANGED <<pending, completed, endpoint, received, faults>>
  BY DEF HandleDisconnect
<1>3. Types /\ Flow /\ Verdict /\ tpriv \in Priv
  BY DEF UsbfsInv, Types
<1>4. reaping = NotReaping /\ ending = "none" /\ Dry'
  BY <1>1 DEF Idle, Dry
<1>5. Pieces' = Pieces /\ Bulk' = Bulk /\ Iso' = Iso /\ Discarding' = Discarding
  BY <1>2, SameTransfer DEF Discarding
<1>6. CASE UNCHANGED <<disappeared, tpriv, ending>>
  <2>1. Alive' = Alive /\ Normal' = Normal
    BY <1>6 DEF Alive, Normal
  <2>2. Types'
    BY <1>1, <1>2, <1>3, <1>6 DEF Types
  <2>3. Flow'
    BY <1>1, <1>2, <1>3, <1>4, <1>5, <1>6, <2>1 DEF Flow, Fresh, Over
  <2>4. Still
    BY <1>2, <1>4, <2>2, <2>3 DEF Still
  <2>5. Clear' = Clear
    BY <1>2, <1>5, <1>6, <2>1 DEF Clear
  <2>6. Verdict'
    BY <1>2, <1>3, <1>5, <1>6, <2>1 DEF Verdict
  <2> QED
    BY <1>2, <1>6, <2>1, <2>2, <2>3, <2>4, <2>5, <2>6, StillInv DEF UsbfsInv
<1>7. CASE /\ stage = "submitting" /\ disappeared' = TRUE /\ UNCHANGED <<tpriv, ending>>
           /\ "REAP_AFTER_DISCONNECT" \notin transfer.caps
  <2>1. Alive' = Alive /\ Normal' = Normal
    BY <1>7 DEF Alive, Normal
  <2>2. disappeared' \in BOOLEAN
    BY <1>7
  <2>3. Types'
    BY <1>1, <1>2, <1>3, <1>7, <2>2 DEF Types
  <2>4. Flow'
    BY <1>1, <1>2, <1>3, <1>4, <1>5, <1>7, <2>1 DEF Flow, Fresh, Over
  <2>5. Still
    BY <1>2, <1>4, <2>3, <2>4 DEF Still
  <2>6. Clear' = Clear
    BY <1>2, <1>5, <1>7, <2>1 DEF Clear
  <2>7. Verdict'
    BY <1>2, <1>3, <1>5, <1>7, <2>1 DEF Verdict
  <2> QED
    BY <1>2, <1>7, <2>1, <2>3, <2>4, <2>5, <2>6, <2>7, StillInv DEF UsbfsInv
<1>8. CASE /\ stage = "flying" /\ lock = "none" /\ UNCHANGED disappeared
           /\ tpriv' = [tpriv EXCEPT !.urbs = <<>>] /\ ending' = "no_device"
  <2>1. tpriv' \in Priv /\ tpriv'.urbs = <<>> /\ tpriv'.reap_action = tpriv.reap_action
    BY <1>3, <1>8, FreedTyped
  <2>2. ~Alive' /\ ~Clear'
    BY <2>1 DEF Alive, Clear, Normal
  <2>3. Types'
    BY <1>1, <1>2, <1>3, <1>8, <2>1 DEF Types, Outcomes
  <2>4. Flow'
    BY <1>1, <1>2, <1>3, <1>4, <1>5, <1>8, <2>2 DEF Flow
  <2>5. Still
    BY <1>2, <1>4, <2>3, <2>4 DEF Still
  <2>6. Verdict'
    BY <1>2, <1>3, <1>5, <1>8, <2>1, <2>2 DEF Verdict, Good
  <2> QED
    BY <1>2, <1>8, <2>1, <2>2, <2>3, <2>4, <2>5, <2>6, StillInv DEF UsbfsInv
<1> QED
  BY <1>6, <1>7, <1>8 DEF HandleDisconnect

LEMMA ReportInv ==
    ASSUME UsbfsInv, Report
    PROVE  UsbfsInv'
<1>1. ending # "none" /\ ending' = "none" /\ stage' = "reported"
  BY DEF Report
<1>2. outcome' = IF /\ ending = "completed" /\ transfer.exact
                    /\ transferred # transfer.length
                 THEN "error" ELSE ending
  BY DEF Report
<1>3. /\ UNCHANGED <<transfer, transferred, buffer, disappeared>>
      /\ UNCHANGED <<tpriv, lock, next, discard, reaping, cancel>>
      /\ UNCHANGED <<pending, completed, endpoint, device, received, faults>>
  BY DEF Report, kernel
<1>4. Types /\ Flow /\ Verdict
  BY DEF UsbfsInv
<1>5. stage = "flying"
  BY <1>1, <1>4 DEF Types, Flow, Fresh, Over
<1>6. ~Alive /\ lock = "none" /\ reaping = NotReaping /\ transfer \in Transfers
  BY <1>1, <1>4, <1>5 DEF Flow
<1>7. Pieces' = Pieces /\ Bulk' = Bulk /\ Iso' = Iso
  BY <1>3, SameTransfer
<1>8. ~Alive' /\ ~Clear' /\ Dry' = Dry
  BY <1>3, <1>6 DEF Alive, Clear, Normal, Dry
<1>9. Types'
  BY <1>1, <1>2, <1>3, <1>4 DEF Types, Outcomes
<1>10. Flow'
  BY <1>1, <1>3, <1>4, <1>6, <1>7, <1>8 DEF Flow, Over
<1>11. Still
  BY <1>3, <1>8, <1>9, <1>10 DEF Still
<1>12. Verdict'
  <2>1. cancel' = "success" => outcome' \in Good /\ tpriv'.reap_action \in {"cancelled", "error"}
    BY <1>1, <1>2, <1>3, <1>4 DEF Verdict, Good
  <2>2. outcome' = "completed" =>
          ending = "completed" /\ (transfer.exact => transferred = transfer.length)
    BY <1>2
  <2>3. /\ outcome' = "completed" /\ ~Iso /\ tpriv.reap_action = "normal" /\ cancel # "no_device"
        => /\ faults = 0 /\ pending = <<>>
           /\ transfer.out => transferred = transfer.length
    BY <1>4, <2>2 DEF Verdict
  <2> QED
    BY <1>1, <1>3, <1>7, <1>8, <2>1, <2>2, <2>3 DEF Verdict
<1> QED
  BY <1>1, <1>3, <1>5, <1>8, <1>9, <1>10, <1>11, <1>12, StillInv DEF UsbfsInv

LEMMA ReapInv ==
    ASSUME UsbfsInv, Reap
    PROVE  UsbfsInv'
<1> DEFINE e == Head(completed)
<1>1. /\ Idle /\ completed # <<>> /\ Alive /\ reaping' = e /\ completed' = Tail(completed)
      /\ device = "attached" \/ "REAP_AFTER_DISCONNECT" \in transfer.caps
  BY DEF Reap, Alive
<1>2. buffer' = IF Iso \/ transfer.out THEN buffer
                ELSE [k \in DOMAIN buffer |->
                        IF k - e.urb.at \in DOMAIN e.data THEN e.data[k - e.urb.at]
                        ELSE buffer[k]]
  BY DEF Reap
<1>3. /\ UNCHANGED <<transfer, stage, outcome, transferred, disappeared>>
      /\ UNCHANGED <<tpriv, lock, next, discard, ending, cancel>>
      /\ UNCHANGED <<pending, endpoint, device, received, faults>>
  BY DEF Reap
<1>4. /\ Types /\ Flow /\ Placed /\ Counted /\ Stream /\ Buffered /\ Verdict /\ Packets
      /\ completed \in Seq(Entry)
  BY DEF UsbfsInv, Types
<1>5. reaping = NotReaping /\ ending = "none" /\ Queue = completed
  BY <1>1 DEF Idle, Queue
<1>6. /\ e \in Entry /\ Tail(completed) \in Seq(Entry) /\ e = Queue[1]
      /\ Len(Queue) \in Nat \ {0}
  BY <1>1, <1>4, <1>5, HeadTailProperties, EmptySeq
<1>7. e # NotReaping
  <2>1. e.urb.index \in 1 .. Len(Pieces)
    BY <1>4, <1>6 DEF Placed, Piece
  <2>2. NotReaping.urb.index = 0
    BY DEF NotReaping, NoUrb
  <2> QED
    BY <2>1, <2>2
<1>8. Types'
  <2> HIDE DEF e
  <2> QED
    BY <1>1, <1>3, <1>4, <1>6 DEF Types
<1>9. Queue' = Queue
  <2> DEFINE w == Queue'
  <2>1. /\ Queue' \in Seq(Entry) /\ Len(Queue') = Len(completed') + 1
        /\ Queue'[1] = reaping' /\ Tail(Queue') = completed' /\ Queue' # <<>>
    <3>1. HandsTyped' /\ reaping' # NotReaping
      BY <1>1, <1>6, <1>7 DEF HandsTyped
    <3> QED
      BY <3>1, HandsNext DEF HandsFirst
  <2>2. Len(Tail(completed)) = Len(completed) - 1 /\ Len(completed) \in Nat
        /\ \A i \in 1 .. Len(completed) - 1 : Tail(completed)[i] = completed[i + 1]
    BY <1>1, <1>4, HeadTailProperties, LenProperties
  <2>3. Len(Tail(w)) = Len(w) - 1 /\ \A i \in 1 .. Len(w) - 1 : Tail(w)[i] = w[i + 1]
    BY <2>1, HeadTailProperties
  <2> HIDE DEF w, e
  <2>4. Len(w) = Len(completed) /\ w[1] = e /\ Tail(w) = Tail(completed)
    BY <1>1, <2>1, <2>2 DEF w
  <2>5. ASSUME NEW i \in 1 .. Len(w) PROVE w[i] = completed[i]
    <3>1. CASE i = 1
      BY <1>5, <1>6, <2>4, <3>1
    <3>2. CASE i # 1
      <4>1. i - 1 \in 1 .. Len(completed) - 1 /\ i - 1 + 1 = i
        BY <2>2, <2>4, <3>2
      <4> QED
        BY <2>2, <2>3, <2>4, <4>1
    <3> QED
      BY <3>1, <3>2
  <2>6. w = completed
    BY <1>4, <2>1, <2>4, <2>5, SeqEqual DEF w
  <2> QED
    BY <1>5, <2>6 DEF w
<1>10. Pieces' = Pieces /\ Iso' = Iso /\ Bulk' = Bulk /\ Control' = Control
  BY <1>3, SameTransfer
<1>11. Dry' = Dry /\ Alive' = Alive /\ Normal' = Normal
  BY <1>3 DEF Dry, Alive, Normal
<1>12. Clear' = Clear /\ Discarding' = Discarding
  BY <1>3, <1>10, <1>11 DEF Clear, Discarding
<1>13. Flow'
  <2>1. stage \in {"submitting", "flying"}
    BY <1>1, <1>4 DEF Types, Flow, Fresh, Over, Alive, NoPriv
  <2>2. ~disappeared
    BY <1>1, <1>4 DEF Flow
  <2> QED
    BY <1>3, <1>4, <1>5, <1>10, <1>11, <1>12, <2>1, <2>2 DEF Flow
<1>14. Placed'
  BY <1>3, <1>4, <1>8, <1>9, PlacedKept DEF Types
<1>15. Counted'
  BY <1>3, <1>4, <1>9, <1>10, <1>11 DEF Counted
<1>16. Stream'
  BY <1>3, <1>4, <1>9, StreamKept
<1>17. Buffered'
  <2>1. SUFFICES ASSUME Bulk, ~transfer.out, stage \in {"submitting", "flying", "reported"}
                 PROVE  /\ DOMAIN buffer' = 1 .. transfer.length
                        /\ \A k \in 1 .. transferred : buffer'[k] = k
                        /\ \A j \in 1 .. Len(e.data) : buffer'[e.urb.at + j] = e.data[j]
    BY <1>1, <1>3, <1>10 DEF Buffered
  <2>2. /\ DOMAIN buffer = 1 .. transfer.length
        /\ \A k \in 1 .. transferred : buffer[k] = k
    BY <1>4, <2>1 DEF Buffered
  <2>3. ~Iso /\ transfer \in Transfers
    BY <1>4, <2>1, Kinds DEF Flow
  <2>4. /\ DOMAIN e.data = 1 .. Len(e.data) /\ Len(e.data) \in Nat /\ e.urb.at \in Nat
        /\ e.urb.length \in Nat /\ e.data \in Seq(Nat)
    BY <1>6, LenProperties DEF Entry, Urb
  <2>5. PICK off \in [0 .. Len(Queue) -> 0 .. received] : Runs(off)
    BY <1>4, <2>3 DEF Stream
  <2>6. 1 \in 1 .. Len(Queue)
    BY <1>6
  <2>7. /\ off[0] = transferred /\ Len(e.data) <= e.urb.length
        /\ e.data # <<>> => off[1 - 1] <= e.urb.at
    BY <1>6, <2>5, <2>6 DEF Runs
  <2>8. Len(e.data) # 0 => transferred <= e.urb.at
    BY <2>4, <2>7, EmptySeq
  <2>9. e.urb.at + e.urb.length <= transfer.length /\ transfer.length \in Nat
    <3>1. Piece(e.urb)
      BY <1>4, <1>6, <2>6 DEF Placed
    <3>2. Size(transfer) = transfer.length /\ transfer.length \in Nat
      BY <2>3, Whole
    <3> QED
      BY <2>3, <3>1, <3>2, Nested DEF Piece
  <2> HIDE DEF e
  <2>10. buffer' = [k \in DOMAIN buffer |->
                      IF k - e.urb.at \in DOMAIN e.data THEN e.data[k - e.urb.at]
                      ELSE buffer[k]]
    BY <1>2, <2>1, <2>3
  <2>11. DOMAIN buffer' = 1 .. transfer.length
    BY <2>2, <2>10
  <2>12. transferred \in Nat /\ transferred <= transfer.length
    <3>1. received \in Nat /\ received <= transfer.length
      BY <1>4, <2>3 DEF Stream, Types
    <3>2. 0 \in 0 .. Len(Queue)
      BY <1>6
    <3>3. off[0] \in 0 .. received
      BY <2>5, <3>2
    <3> QED
      BY <2>7, <2>9, <3>1, <3>3
  <2>13. ASSUME NEW k \in 1 .. transferred PROVE buffer'[k] = k
    <3>1. k \in DOMAIN buffer
      BY <2>2, <2>9, <2>12
    <3>2. k - e.urb.at \notin 1 .. Len(e.data)
      BY <2>4, <2>8, <2>12
    <3> QED
      BY <2>2, <2>4, <2>10, <3>1, <3>2
  <2>14. ASSUME NEW j \in 1 .. Len(e.data) PROVE buffer'[e.urb.at + j] = e.data[j]
    <3>1. j \in Nat /\ j # 0 /\ j <= e.urb.length
      BY <2>4, <2>7
    <3>2. e.urb.at + j \in 1 .. transfer.length /\ (e.urb.at + j) - e.urb.at = j
      <4>1. PICK a \in Nat : a = e.urb.at
        BY <2>4
      <4>2. PICK b \in Nat : b = e.urb.length
        BY <2>4
      <4>3. PICK c \in Nat : c = transfer.length
        BY <2>9
      <4>4. j <= b /\ a + b <= c
        BY <2>9, <3>1, <4>1, <4>2, <4>3
      <4>5. a + j \in 1 .. c /\ (a + j) - a = j
        BY <3>1, <4>4
      <4> QED
        BY <4>1, <4>3, <4>5
    <3>3. e.urb.at + j \in DOMAIN buffer
      BY <2>2, <3>2
    <3> QED
      BY <2>4, <2>10, <3>2, <3>3
  <2> QED
    BY <2>11, <2>13, <2>14
<1>18. Stopped'
  BY <1>3, <1>9, <1>11, StoppedKept DEF UsbfsInv
<1>19. InOrder'
  BY <1>3, <1>9, <1>11, InOrderKept DEF UsbfsInv
<1>20. Aligned'
  BY <1>3, <1>9, <1>11, AlignedKept DEF UsbfsInv
<1>21. Packets'
  BY <1>2, <1>3, <1>4, <1>9, <1>10, <1>11 DEF Packets, PacketData
<1>22. Untouched'
  <2>1. Untouched
    BY DEF UsbfsInv
  <2> QED
    BY <1>3, <1>9, <1>10, <1>11, <1>12, <2>1 DEF Untouched
<1>23. Verdict'
  BY <1>3, <1>4, <1>10, <1>11 DEF Verdict
<1> QED
  BY <1>8, <1>13, <1>14, <1>15, <1>16, <1>17, <1>18, <1>19, <1>20, <1>21, <1>22, <1>23
     DEF UsbfsInv

---------------------------------------------------------------------------
(* A completion is handled.                                                *)

LEMMA HandleFacts ==
    ASSUME UsbfsInv, HandleCompletion
    PROVE  /\ reaping # NotReaping /\ reaping \in Entry /\ lock = "none"
           /\ stage = "flying" /\ ending = "none" /\ transfer \in Transfers
           /\ tpriv.urbs = Pieces /\ Alive /\ next = Len(Pieces) + 1
           /\ Len(Pieces) \in Nat \ {0} /\ tpriv \in Priv /\ tpriv.num_retired \in Nat
           /\ Queue[1] = reaping /\ Queue' = Tail(Queue)
           /\ Len(Queue) \in Nat \ {0} /\ Len(Queue') = Len(Queue) - 1
           /\ \A i \in 1 .. Len(Queue) - 1 : Queue'[i] = Queue[i + 1]
           /\ tpriv.num_retired + Len(Queue) + Len(pending) = Len(Pieces)
           /\ UNCHANGED <<transfer, stage, outcome, disappeared, next, cancel>>
           /\ UNCHANGED <<pending, completed, endpoint, device, received, faults>>
           /\ reaping' = NotReaping
<1>1. /\ reaping # NotReaping /\ lock = "none"
      /\ UNCHANGED <<transfer, stage, outcome, disappeared, next, cancel>>
      /\ UNCHANGED <<pending, completed, endpoint, device, received, faults>>
  BY DEF HandleCompletion, kernel
<1>2. Types /\ Flow /\ Counted /\ reaping \in Entry /\ completed \in Seq(Entry) /\ tpriv \in Priv
  BY <1>1 DEF UsbfsInv, Types
<1>3. tpriv.num_retired \in Nat
  BY <1>2 DEF Priv
<1>4. stage = "flying" /\ ending = "none" /\ transfer \in Transfers
  BY <1>1, <1>2 DEF Types, Flow, Fresh, Over
<1>5. tpriv.urbs = Pieces /\ next = Len(Pieces) + 1
  BY <1>2, <1>4 DEF Flow
<1>6. Len(Pieces) \in Nat \ {0} /\ Alive
  BY <1>4, <1>5, Whole DEF Alive
<1>7. reaping' = NotReaping
  BY DEF HandleCompletion, BulkSurplus, BulkNormal, IsoCompletion, ControlCompletion,
         Done, Goon, CancelRemaining, Handled
<1>8. /\ Queue \in Seq(Entry) /\ Queue # <<>> /\ Len(Queue) = Len(completed) + 1
      /\ Queue[1] = reaping /\ Tail(Queue) = completed
  BY <1>1, <1>2, QueueTyped
<1>9. Queue' = Tail(Queue)
  BY <1>1, <1>7, <1>8 DEF Queue
<1>10. Len(Queue) \in Nat \ {0} /\ Len(pending) \in Nat
  BY <1>2, <1>8, TypedQueue, EmptySeq
<1>11. /\ Len(Tail(Queue)) = Len(Queue) - 1
       /\ \A i \in 1 .. Len(Queue) - 1 : Tail(Queue)[i] = Queue[i + 1]
  BY <1>8, HeadTailProperties
<1>12. tpriv.num_retired + Len(Queue) + Len(pending) = Len(Pieces)
  BY <1>2, <1>3, <1>5, <1>6, <1>10 DEF Counted
<1> QED
  BY <1>1, <1>2, <1>3, <1>4, <1>5, <1>6, <1>7, <1>8, <1>9, <1>10, <1>11, <1>12

LEMMA HandlePlaced ==
    ASSUME UsbfsInv, HandleCompletion
    PROVE  Placed' /\ Stopped'
<1> DEFINE m == Len(Queue)
<1>1. /\ m \in Nat \ {0} /\ Len(Queue') = m - 1
      /\ \A i \in 1 .. m - 1 : Queue'[i] = Queue[i + 1]
      /\ UNCHANGED <<transfer, next, pending, endpoint, device>>
  BY HandleFacts
<1>2. Placed /\ Stopped
  BY DEF UsbfsInv
<1>3. Pieces' = Pieces /\ Iso' = Iso /\ Dry' = Dry
  BY <1>1, SameTransfer DEF Dry
<1> HIDE DEF m
<1>4. \A i \in 1 .. m - 1 : i + 1 \in 1 .. m
  BY <1>1
<1>5. Placed'
  <2>1. \A i \in 1 .. m : Piece(Queue[i].urb)
    BY <1>2 DEF Placed, m
  <2>2. /\ \A i \in 1 .. Len(Queue') : Piece(Queue[i].urb)'
        /\ \A i \in 1 .. Len(pending') : Piece(pending[i])'
    BY <1>1, <1>2, <1>3, <1>4, <2>1 DEF Piece, Placed
  <2>3. ASSUME NEW i \in 1 .. m - 1, NEW j \in 1 .. m - 1,
               Queue'[i].urb.index = Queue'[j].urb.index
        PROVE  i = j
    <3>1. Queue[i + 1].urb.index = Queue[j + 1].urb.index
      BY <1>1, <2>3
    <3>2. i + 1 = j + 1
      BY <1>2, <1>4, <3>1 DEF Placed, m
    <3> QED
      BY <3>2
  <2>4. ASSUME NEW i \in 1 .. Len(pending), NEW j \in 1 .. m - 1
        PROVE  pending[i].index # Queue'[j].urb.index
    <3>1. pending[i].index # Queue[j + 1].urb.index
      BY <1>2, <1>4 DEF Placed, m
    <3> QED
      BY <1>1, <3>1
  <2>5. \A i, j \in 1 .. Len(pending) : i < j => pending[i].index < pending[j].index
    BY <1>2 DEF Placed
  <2> QED
    BY <1>1, <2>2, <2>3, <2>4, <2>5 DEF Placed
<1>6. Stopped'
  <2>1. SUFFICES ASSUME ~Iso, NEW i \in 1 .. m - 1
                 PROVE  /\ Queue'[i].status \in Stops =>
                             Dry /\ \A j \in 1 .. m - 1 : j > i => Idler(Queue'[j])
                        /\ Queue'[i].status = "short" =>
                             "SHORT_NOT_OK" \in Queue'[i].urb.flags /\ ~transfer.out
                        /\ Queue'[i].status = "ok" /\ transfer.out =>
                             Len(Queue'[i].data) = Queue'[i].urb.length
    BY <1>1, <1>3 DEF Stopped, Idler
  <2>2. Queue'[i] = Queue[i + 1] /\ i + 1 \in 1 .. m
    BY <1>1, <1>4
  <2>3. /\ Queue[i + 1].status \in Stops =>
             Dry /\ \A j \in 1 .. m : j > i + 1 => Idler(Queue[j])
        /\ Queue[i + 1].status = "short" =>
             "SHORT_NOT_OK" \in Queue[i + 1].urb.flags /\ ~transfer.out
        /\ Queue[i + 1].status = "ok" /\ transfer.out =>
             Len(Queue[i + 1].data) = Queue[i + 1].urb.length
    BY <1>2, <2>1, <2>2 DEF Stopped, m
  <2>4. ASSUME Queue[i + 1].status \in Stops, NEW j \in 1 .. m - 1, j > i
        PROVE  Idler(Queue'[j])
    <3>1. Queue'[j] = Queue[j + 1] /\ j + 1 \in 1 .. m /\ j + 1 > i + 1
      BY <1>1, <1>4, <2>4
    <3> QED
      BY <2>3, <2>4, <3>1
  <2> QED
    BY <2>2, <2>3, <2>4
<1> QED
  BY <1>5, <1>6

LEMMA HandleStream ==
    ASSUME UsbfsInv, HandleCompletion,
           ~Iso => transferred' = transferred + Len(reaping.data),
           lock' # "submit"
    PROVE  Stream'
<1> DEFINE m == Len(Queue)
<1>1. /\ m \in Nat \ {0} /\ Len(Queue') = m - 1 /\ Queue[1] = reaping
      /\ \A i \in 1 .. m - 1 : Queue'[i] = Queue[i + 1]
      /\ UNCHANGED <<transfer, next, pending, received>>
  BY HandleFacts
<1>2. Iso' = Iso
  BY <1>1, SameTransfer
<1>3. SUFFICES ASSUME ~Iso
               PROVE  \E off \in [0 .. m - 1 -> 0 .. received] : Runs(off)'
  BY <1>1, <1>2, lock' # "submit" DEF UsbfsInv, Stream
<1>4. PICK off \in [0 .. m -> 0 .. received] : Runs(off)
  BY <1>3 DEF UsbfsInv, Stream
<1> DEFINE new == [i \in 0 .. m - 1 |-> off[i + 1]]
<1> HIDE DEF m
<1>5. /\ off[0] = transferred /\ off[m] = received
      /\ \A i \in 1 .. m :
           /\ off[i] = off[i - 1] + Len(Queue[i].data)
           /\ Len(Queue[i].data) <= Queue[i].urb.length
           /\ \A j \in 1 .. Len(Queue[i].data) : Queue[i].data[j] = off[i - 1] + j
           /\ Queue[i].data # <<>> => off[i - 1] <= Queue[i].urb.at
  BY <1>4 DEF Runs, m
<1>6. /\ new \in [0 .. m - 1 -> 0 .. received]
      /\ \A i \in 0 .. m - 1 : new[i] = off[i + 1]
  <2>1. \A i \in 0 .. m - 1 : i + 1 \in 0 .. m
    BY <1>1
  <2>2. \A i \in 0 .. m - 1 : off[i + 1] \in 0 .. received
    BY <1>4, <2>1
  <2> QED
    BY <2>2
<1> HIDE DEF new
<1>7. new[0] = transferred' /\ new[m - 1] = received
  <2>1. 1 \in 1 .. m /\ 0 \in 0 .. m - 1 /\ m - 1 \in 0 .. m - 1 /\ m - 1 + 1 = m
    BY <1>1
  <2>2. off[1] = off[1 - 1] + Len(Queue[1].data)
    BY <1>5, <2>1
  <2>3. new[0] = off[1] /\ new[m - 1] = off[m]
    BY <1>6, <2>1
  <2> QED
    BY <1>1, <1>3, <1>5, <2>2, <2>3
<1>8. ASSUME NEW i \in 1 .. m - 1
      PROVE  /\ new[i] = new[i - 1] + Len(Queue'[i].data)
             /\ Len(Queue'[i].data) <= Queue'[i].urb.length
             /\ \A j \in 1 .. Len(Queue'[i].data) : Queue'[i].data[j] = new[i - 1] + j
             /\ Queue'[i].data # <<>> => new[i - 1] <= Queue'[i].urb.at
  <2>1. /\ i + 1 \in 1 .. m /\ i \in 0 .. m - 1 /\ i - 1 \in 0 .. m - 1
        /\ (i + 1) - 1 = i /\ (i - 1) + 1 = i
    BY <1>1
  <2>2. Queue'[i] = Queue[i + 1] /\ new[i] = off[i + 1] /\ new[i - 1] = off[i]
    BY <1>1, <1>6, <2>1
  <2>3. /\ off[i + 1] = off[i] + Len(Queue[i + 1].data)
        /\ Len(Queue[i + 1].data) <= Queue[i + 1].urb.length
        /\ \A j \in 1 .. Len(Queue[i + 1].data) : Queue[i + 1].data[j] = off[i] + j
        /\ Queue[i + 1].data # <<>> => off[i] <= Queue[i + 1].urb.at
    BY <1>5, <2>1
  <2> QED
    BY <2>2, <2>3
<1>9. PICK g \in [0 .. m - 1 -> 0 .. received] : g = new
  BY <1>6
<1>10. Runs(g)'
  BY <1>1, <1>7, <1>8, <1>9 DEF Runs
<1> QED
  BY <1>10

(* The URB in hand is a piece of the transfer, and its data are the next.  *)
LEMMA HandPiece ==
    ASSUME UsbfsInv, HandleCompletion
    PROVE  /\ reaping.urb.index \in 1 .. Len(Pieces)
           /\ reaping.urb = Pieces[reaping.urb.index]
           /\ reaping.urb \in Urb /\ reaping.urb.at \in Nat /\ reaping.urb.length \in Nat
           /\ reaping.data \in Seq(Nat) /\ Len(reaping.data) \in Nat
           /\ DOMAIN reaping.data = 1 .. Len(reaping.data)
           /\ reaping.status \in Statuses
           /\ transferred \in Nat
<1>1. 1 \in 1 .. Len(Queue) /\ Queue[1] = reaping /\ reaping \in Entry
  BY HandleFacts
<1>2. Piece(reaping.urb)
  BY <1>1 DEF UsbfsInv, Placed
<1>3. transferred \in Nat
  BY DEF UsbfsInv, Types
<1>4. reaping.urb \in Urb /\ reaping.data \in Seq(Nat) /\ reaping.status \in Statuses
  BY <1>1 DEF Entry
<1> QED
  BY <1>2, <1>3, <1>4, LenProperties DEF Piece, Urb

LEMMA HandData ==
    ASSUME UsbfsInv, HandleCompletion, ~Iso
    PROVE  /\ \A j \in 1 .. Len(reaping.data) : reaping.data[j] = transferred + j
           /\ Len(reaping.data) <= reaping.urb.length
           /\ transferred + Len(reaping.data) <= transfer.length
           /\ transfer.length \in Nat
<1>1. /\ 1 \in 1 .. Len(Queue) /\ 0 \in 0 .. Len(Queue) /\ 1 \in 0 .. Len(Queue)
      /\ Queue[1] = reaping /\ transfer \in Transfers
  BY HandleFacts
<1>2. PICK off \in [0 .. Len(Queue) -> 0 .. received] : Runs(off)
  BY DEF UsbfsInv, Stream
<1>3. /\ off[0] = transferred /\ off[1] = off[1 - 1] + Len(reaping.data)
      /\ Len(reaping.data) <= reaping.urb.length
      /\ \A j \in 1 .. Len(reaping.data) : reaping.data[j] = off[1 - 1] + j
  BY <1>1, <1>2 DEF Runs
<1>4. off[1] \in 0 .. received /\ received <= transfer.length /\ received \in Nat
  BY <1>1, <1>2 DEF UsbfsInv, Stream, Types
<1>5. transfer.length \in Nat /\ Len(reaping.data) \in Nat
  BY <1>1, Whole, HandPiece
<1> QED
  BY <1>3, <1>4, <1>5

LEMMA HandInOrder ==
    ASSUME UsbfsInv, HandleCompletion, Normal
    PROVE  /\ ~Cut(reaping) => reaping.urb.index = tpriv.num_retired + 1
           /\ HasData(reaping) => reaping.urb.index = tpriv.num_retired + 1
           /\ ~Iso /\ reaping.data # <<>> =>
                /\ reaping.urb.index = tpriv.num_retired + 1
                /\ tpriv.reap_status = "completed" /\ reaping.urb.at = transferred
<1>1. 1 \in 1 .. Len(Queue) /\ Queue[1] = reaping
  BY HandleFacts
<1>2. \/ reaping.urb.index = tpriv.num_retired + 1
      \/ Cut(reaping) /\ ~HasData(reaping)
  BY <1>1 DEF UsbfsInv, InOrder
<1>3. ASSUME ~Iso, reaping.data # <<>>
      PROVE  /\ reaping.urb.index = tpriv.num_retired + 1
             /\ tpriv.reap_status = "completed" /\ reaping.urb.at = transferred
  <2>1. 1 \in 1 .. Len(reaping.data) /\ transferred \in Nat
    BY <1>3, HandPiece, EmptySeq
  <2>2. reaping.data[1] # 0
    BY <1>3, <2>1, HandData
  <2>3. HasData(reaping)
    BY <2>1, <2>2 DEF HasData
  <2>4. ~Idler(reaping)
    BY <1>3 DEF Idler
  <2>5. tpriv.reap_status = "completed" /\ transferred = Pieces[tpriv.num_retired + 1].at
    BY <1>1, <1>3, <2>4 DEF UsbfsInv, Aligned
  <2> QED
    BY <1>2, <2>3, <2>5, HandPiece
<1> QED
  BY <1>2, <1>3

(* The transfer ends.                                                      *)
LEMMA HandleEnds ==
    ASSUME UsbfsInv, HandleCompletion, NEW p \in Priv, NEW s \in Outcomes \ {"none"},
           Done(p, s),
           cancel = "success" => p.reap_action = tpriv.reap_action,
           transferred' \in Nat, ~Iso => transferred' = transferred + Len(reaping.data),
           Buffered', Packets',
           cancel = "success" /\ p.reap_action # "cancelled" => s \in Good,
           s = "completed" /\ ~Iso /\ p.reap_action = "normal" /\ cancel # "no_device" =>
             /\ faults = 0 /\ pending = <<>>
             /\ transfer.out => transferred' = transfer.length
    PROVE  UsbfsInv'
<1>1. /\ lock = "none" /\ stage = "flying" /\ ending = "none" /\ transfer \in Transfers
      /\ next = Len(Pieces) + 1
      /\ UNCHANGED <<transfer, stage, outcome, disappeared, next, cancel>>
      /\ UNCHANGED <<pending, completed, endpoint, device, received, faults>>
      /\ reaping' = NotReaping
  BY HandleFacts
<1>2. /\ tpriv' = [p EXCEPT !.urbs = <<>>] /\ UNCHANGED <<lock, discard>>
      /\ ending' = IF p.reap_action = "cancelled" THEN "cancelled" ELSE s
  BY DEF Done
<1>3. tpriv' \in Priv /\ tpriv'.urbs = <<>> /\ tpriv'.reap_action = p.reap_action
  BY <1>2, FreedTyped
<1>4. ~Alive' /\ ~Normal'
  BY <1>3 DEF Alive, Normal
<1>5. Types /\ Flow /\ Verdict
  BY DEF UsbfsInv
<1>6. ending' \in Outcomes \ {"none"}
  BY <1>2 DEF Outcomes
<1>7. Types'
  BY <1>1, <1>2, <1>3, <1>5, <1>6 DEF Types
<1>8. Pieces' = Pieces /\ Iso' = Iso /\ Bulk' = Bulk
  BY <1>1, SameTransfer
<1>9. Flow'
  BY <1>1, <1>2, <1>4, <1>5, <1>6, <1>8 DEF Flow
<1>10. Placed' /\ Stopped'
  BY HandlePlaced
<1>11. Stream'
  BY <1>1, <1>2, HandleStream
<1>12. Counted'
  BY <1>1, <1>2, <1>4 DEF Counted
<1>13. InOrder' /\ Aligned' /\ Untouched'
  BY <1>1, <1>2, <1>4, NoLongerNormal
<1>14. Verdict'
  <2>1. cancel = "success" => p.reap_action \in {"cancelled", "error"} /\ ending' \in Good
    BY <1>2, <1>5 DEF Verdict, Good
  <2>2. ending' = "completed" => s = "completed"
    BY <1>2
  <2> QED
    BY <1>1, <1>3, <1>4, <1>8, <2>1, <2>2 DEF Verdict
<1> QED
  BY <1>7, <1>9, <1>10, <1>11, <1>12, <1>13, <1>14 DEF UsbfsInv

(* The transfer goes on.                                                   *)
LEMMA HandleGoesOn ==
    ASSUME UsbfsInv, HandleCompletion, tpriv' \in Priv, tpriv'.urbs = Pieces,
           tpriv'.num_retired = tpriv.num_retired + 1,
           tpriv.num_retired + 1 < Len(Pieces), ending' = ending,
           transferred' \in Nat, ~Iso => transferred' = transferred + Len(reaping.data),
           Buffered', Packets', Aligned', ~Control,
           \/ UNCHANGED <<lock, discard>>
           \/ /\ lock' = "reap" /\ discard' \in Loop /\ Bulk
              /\ discard'.last = Len(Pieces) /\ discard'.next = discard'.last
              /\ Normal' => tpriv'.reap_status # "completed",
           Normal' => Normal /\ ~Cut(reaping),
           Clear' => tpriv.reap_status = "completed" /\ reaping.status \notin Failed,
           cancel = "success" => tpriv'.reap_action = tpriv.reap_action,
           tpriv'.reap_action = "error" => tpriv'.reap_status \in {"error", "no_device"}
    PROVE  UsbfsInv'
<1> DEFINE m == Len(Queue)
           k == tpriv.num_retired
<1>1. /\ lock = "none" /\ stage = "flying" /\ ending = "none" /\ transfer \in Transfers
      /\ next = Len(Pieces) + 1 /\ Queue[1] = reaping /\ tpriv.urbs = Pieces /\ Alive
      /\ UNCHANGED <<transfer, stage, outcome, disappeared, next, cancel>>
      /\ UNCHANGED <<pending, completed, endpoint, device, received, faults>>
      /\ reaping' = NotReaping
  BY HandleFacts
<1>2. /\ m \in Nat \ {0} /\ Len(Queue') = m - 1 /\ k \in Nat
      /\ \A i \in 1 .. m - 1 : Queue'[i] = Queue[i + 1]
      /\ k + m + Len(pending) = Len(Pieces) /\ Len(Pieces) \in Nat
  BY HandleFacts
<1>3. Types /\ Flow /\ Verdict /\ InOrder /\ Untouched
  BY DEF UsbfsInv
<1>4. Pieces' = Pieces /\ Iso' = Iso /\ Bulk' = Bulk /\ Control' = Control
  BY <1>1, SameTransfer
<1>5. Alive'
  BY <1>1 DEF Alive
<1>6. Types'
  <2>1. discard' \in Loop /\ lock' \in {"none", "submit", "reap", "cancel"}
    BY <1>3 DEF Types
  <2> QED
    BY <1>1, <1>3, <2>1 DEF Types
<1>7. Flow'
  BY <1>1, <1>3, <1>4, <1>5 DEF Flow
<1>8. Placed' /\ Stopped'
  BY HandlePlaced
<1>9. lock' \in {"none", "reap"}
  BY <1>1
<1>10. Stream'
  BY <1>9, HandleStream
<1> HIDE DEF m
<1>11. Counted'
  <2>1. Len(pending) \in Nat
    BY <1>3, TypedQueue
  <2>2. tpriv'.num_retired + Len(Queue') + Len(pending') = next' - 1
    BY <1>1, <1>2, <2>1
  <2> QED
    BY <1>4, <1>9, <2>2 DEF Counted
<1>12. \A i \in 1 .. m - 1 : i + 1 \in 1 .. m
  BY <1>2
<1>13. InOrder'
  <2>1. SUFFICES ASSUME Normal'
                 PROVE  InOrder'
    BY DEF InOrder
  <2>2. Normal /\ ~Cut(reaping)
    BY <2>1
  <2>3. \A e : (Cut(e)' <=> Cut(e)) /\ (HasData(e)' <=> HasData(e))
    BY <1>4 DEF Cut, HasData
  <2>4. ASSUME NEW i \in 1 .. m - 1
        PROVE  \/ Queue'[i].urb.index = (k + 1) + i
               \/ \E j \in 1 .. m - 1 : j < i /\ Cut(Queue'[j])
               \/ Cut(Queue'[i]) /\ ~HasData(Queue'[i])
    <3>1. Queue'[i] = Queue[i + 1] /\ i + 1 \in 1 .. m
      BY <1>2, <1>12
    <3>2. \/ Queue[i + 1].urb.index = k + (i + 1)
          \/ \E j \in 1 .. m : j < i + 1 /\ Cut(Queue[j])
          \/ Cut(Queue[i + 1]) /\ ~HasData(Queue[i + 1])
      BY <1>3, <2>2, <3>1 DEF InOrder, m
    <3>3. ASSUME NEW j \in 1 .. m, j < i + 1, Cut(Queue[j])
          PROVE  \E l \in 1 .. m - 1 : l < i /\ Cut(Queue'[l])
      <4>1. j # 1
        BY <1>1, <2>2, <3>3
      <4>2. j - 1 \in 1 .. m - 1 /\ j - 1 < i /\ (j - 1) + 1 = j
        BY <1>2, <3>3, <4>1
      <4>3. Queue'[j - 1] = Queue[j]
        BY <1>2, <4>2
      <4> QED
        BY <3>3, <4>2, <4>3
    <3>4. k + (i + 1) = (k + 1) + i
      <4>1. k \in Nat /\ i \in Nat
        BY <1>2
      <4> QED
        BY <4>1
    <3>5. CASE Queue[i + 1].urb.index = k + (i + 1)
      BY <3>1, <3>4, <3>5
    <3>6. CASE \E j \in 1 .. m : j < i + 1 /\ Cut(Queue[j])
      BY <3>3, <3>6
    <3>7. CASE Cut(Queue[i + 1]) /\ ~HasData(Queue[i + 1])
      BY <3>1, <3>7
    <3> QED
      BY <3>2, <3>5, <3>6, <3>7
  <2>5. CutShort => \E j \in 1 .. m - 1 : Cut(Queue'[j])
    <3>1. SUFFICES ASSUME NEW j \in 1 .. m, Cut(Queue[j])
                   PROVE  \E l \in 1 .. m - 1 : Cut(Queue'[l])
      BY DEF CutShort, m
    <3>2. j # 1
      BY <1>1, <2>2, <3>1
    <3>3. j - 1 \in 1 .. m - 1 /\ (j - 1) + 1 = j
      BY <1>2, <3>2
    <3>4. Queue'[j - 1] = Queue[j]
      BY <1>2, <3>3
    <3> QED
      BY <3>1, <3>3, <3>4
  <2>6. ~CutShort => \A i \in 1 .. Len(pending) :
                       pending[i].index = (k + 1) + (m - 1) + i
    <3>1. ~CutShort => \A i \in 1 .. Len(pending) : pending[i].index = k + m + i
      BY <1>3, <2>2 DEF InOrder, m
    <3>2. \A i \in 1 .. Len(pending) : (k + 1) + (m - 1) + i = k + m + i
      BY <1>2
    <3> QED
      BY <3>1, <3>2
  <2>7. ~(lock' \in {"reap", "cancel"} /\ discard'.next < discard'.last)
    BY <1>1, <1>2
  <2>8. CutShort => CutShort'
    BY <1>2, <2>3, <2>5 DEF CutShort
  <2> QED
    BY <1>1, <1>2, <2>3, <2>4, <2>6, <2>7, <2>8 DEF InOrder
<1>14. Untouched'
  <2>1. (lock' = "reap" => Bulk') /\ (Normal' /\ lock' = "reap" => tpriv'.reap_status # "completed")
    BY <1>1, <1>4
  <2>2. SUFFICES ASSUME Clear'
                 PROVE  /\ \A i \in 1 .. m - 1 : Queue'[i].urb.index = (k + 1) + i
                        /\ \A i \in 1 .. Len(pending) :
                             pending[i].index = (k + 1) + (m - 1) + i
                        /\ faults > 0 => \E i \in 1 .. m - 1 : Queue'[i].status \in Failed
                        /\ transfer.out => \A i \in 1 .. m - 1 :
                                             Queue'[i].status = "killed" => faults > 0
    BY <1>1, <1>2, <1>9, <2>1 DEF Untouched
  <2>3. Clear
    BY <1>1, <1>4, <2>2 DEF Clear
  <2>4. /\ \A i \in 1 .. m : Queue[i].urb.index = k + i
        /\ \A i \in 1 .. Len(pending) : pending[i].index = k + m + i
        /\ faults > 0 => \E i \in 1 .. m : Queue[i].status \in Failed
        /\ transfer.out => \A i \in 1 .. m : Queue[i].status = "killed" => faults > 0
    BY <1>3, <2>3 DEF Untouched, m
  <2>5. ASSUME NEW i \in 1 .. m - 1 PROVE Queue'[i].urb.index = (k + 1) + i
    <3>1. Queue[i + 1].urb.index = k + (i + 1) /\ k + (i + 1) = (k + 1) + i
      BY <1>2, <1>12, <2>4
    <3> QED
      BY <1>2, <3>1
  <2>6. \A i \in 1 .. Len(pending) : pending[i].index = (k + 1) + (m - 1) + i
    <3>1. \A i \in 1 .. Len(pending) : (k + 1) + (m - 1) + i = k + m + i
      BY <1>2
    <3> QED
      BY <2>4, <3>1
  <2>7. ASSUME faults > 0 PROVE \E i \in 1 .. m - 1 : Queue'[i].status \in Failed
    <3>1. PICK i \in 1 .. m : Queue[i].status \in Failed
      BY <2>4, <2>7
    <3>2. i # 1
      BY <1>1, <2>2, <3>1
    <3>3. i - 1 \in 1 .. m - 1 /\ (i - 1) + 1 = i
      BY <1>2, <3>2
    <3>4. Queue'[i - 1] = Queue[i]
      BY <1>2, <3>3
    <3> QED
      BY <3>1, <3>3, <3>4
  <2>8. transfer.out => \A i \in 1 .. m - 1 : Queue'[i].status = "killed" => faults > 0
    BY <1>2, <1>12, <2>4
  <2> QED
    BY <2>5, <2>6, <2>7, <2>8
<1>15. Verdict'
  BY <1>1, <1>3, <1>4 DEF Verdict
<1> QED
  BY <1>6, <1>7, <1>8, <1>10, <1>11, <1>13, <1>14, <1>15 DEF UsbfsInv

LEMMA Retired ==
    ASSUME tpriv \in Priv
    PROVE  /\ Retire \in Priv /\ Retire.urbs = tpriv.urbs
           /\ Retire.reap_action = tpriv.reap_action
           /\ Retire.reap_status = tpriv.reap_status
           /\ Retire.num_retired = tpriv.num_retired + 1
           /\ Retire.iso_packet_offset = tpriv.iso_packet_offset
<1>1. tpriv.num_retired + 1 \in Nat
  BY DEF Priv
<1> DEFINE n == tpriv.num_retired + 1
<1> HIDE DEF n
<1>2. Retire = [tpriv EXCEPT !.num_retired = n]
  BY DEF Retire, n
<1>3. [tpriv EXCEPT !.num_retired = n] \in Priv
  BY <1>1 DEF Priv, n
<1>4. Retire.num_retired = n
  BY <1>2 DEF Priv
<1> QED
  BY <1>2, <1>3, <1>4 DEF Priv, n

(* Once the transfer is ending, it goes on until the last URB is retired.  *)
LEMMA BulkSurplusInv ==
    ASSUME UsbfsInv, HandleCompletion, Bulk, BulkSurplus
    PROVE  UsbfsInv'
<1>1. /\ tpriv \in Priv /\ tpriv.num_retired \in Nat /\ tpriv.urbs = Pieces /\ Alive
      /\ stage = "flying" /\ transfer \in Transfers /\ Len(Pieces) \in Nat
      /\ UNCHANGED <<transfer, stage, cancel>> /\ reaping' = NotReaping /\ reaping # NotReaping
  BY HandleFacts
<1>2. ~Iso /\ ~Control
  BY <1>1, Kinds
<1>3. /\ tpriv.reap_action # "normal"
      /\ buffer' = Surplus(reaping.urb, reaping.data)
      /\ transferred' = transferred + Len(reaping.data)
      /\ IF AllRetired(Retire) THEN Done(Retire, SurplusStatus(Retire)) ELSE Goon(Retire)
  BY DEF BulkSurplus
<1> DEFINE p == Retire
<1>4. /\ p \in Priv /\ p.urbs = Pieces /\ p.reap_action = tpriv.reap_action
      /\ p.reap_status = tpriv.reap_status /\ p.num_retired = tpriv.num_retired + 1
  BY <1>1, Retired
<1>5. /\ transferred \in Nat /\ Len(reaping.data) \in Nat /\ reaping.urb.at \in Nat
      /\ DOMAIN reaping.data = 1 .. Len(reaping.data)
  BY HandPiece
<1>6. /\ \A j \in 1 .. Len(reaping.data) : reaping.data[j] = transferred + j
      /\ transferred + Len(reaping.data) <= transfer.length /\ transfer.length \in Nat
  BY <1>2, HandData
<1>7. Pieces' = Pieces /\ Iso' = Iso /\ Bulk' = Bulk
  BY <1>1, SameTransfer
<1>8. Buffered'
  <2>1. SUFFICES ASSUME ~transfer.out
                 PROVE  /\ DOMAIN buffer' = 1 .. transfer.length
                        /\ \A k \in 1 .. transferred' : buffer'[k] = k
    BY <1>1, <1>7 DEF Buffered
  <2>2. /\ DOMAIN buffer = 1 .. transfer.length
        /\ \A k \in 1 .. transferred : buffer[k] = k
        /\ \A j \in 1 .. Len(reaping.data) : buffer[reaping.urb.at + j] = reaping.data[j]
    BY <1>1, <2>1 DEF UsbfsInv, Buffered
  <2>3. buffer' = [k \in DOMAIN buffer |->
                     IF k - transferred \in DOMAIN reaping.data
                     THEN buffer[reaping.urb.at + k - transferred] ELSE buffer[k]]
    BY <1>3 DEF Surplus
  <2>4. ASSUME NEW k \in 1 .. transferred' PROVE buffer'[k] = k
    <3>1. k \in 1 .. transfer.length /\ transferred' = transferred + Len(reaping.data)
      BY <1>3, <1>5, <1>6
    <3>2. CASE k <= transferred
      BY <1>5, <2>2, <2>3, <3>1, <3>2
    <3>3. CASE ~(k <= transferred)
      <4>1. PICK j \in 1 .. Len(reaping.data) : k = transferred + j
        <5>1. k - transferred \in 1 .. Len(reaping.data) /\ k = transferred + (k - transferred)
          BY <1>5, <3>1, <3>3
        <5> QED
          BY <5>1
      <4>2. k - transferred = j /\ reaping.urb.at + k - transferred = reaping.urb.at + j
        BY <1>5, <4>1
      <4>3. buffer'[k] = buffer[reaping.urb.at + j]
        BY <1>5, <2>2, <2>3, <3>1, <4>2
      <4> QED
        BY <1>6, <2>2, <4>1, <4>3
    <3> QED
      BY <3>2, <3>3
  <2> QED
    BY <2>2, <2>3, <2>4
<1>9. Packets'
  BY <1>2, <1>7 DEF Packets
<1>10. transferred' \in Nat
  BY <1>3, <1>5
<1>11. Verdict
  BY DEF UsbfsInv
<1>12. CASE AllRetired(p)
  <2> DEFINE s == SurplusStatus(p)
  <2>1. s = IF p.reap_action # "completed_early" /\ p.reap_status = "completed"
            THEN "error" ELSE p.reap_status
    BY DEF SurplusStatus
  <2>2. p.reap_status \in Outcomes \ {"none"} /\ "error" \in Outcomes
    BY <1>4 DEF Priv, Outcomes
  <2>3. Done(p, s) /\ s \in Outcomes \ {"none"}
    BY <1>3, <1>12, <2>1, <2>2
  <2>4. cancel = "success" /\ p.reap_action # "cancelled" => s \in Good
    BY <1>1, <1>4, <1>11, <2>1 DEF Verdict, Good
  <2> HIDE DEF s, p
  <2> QED
    BY <1>2, <1>3, <1>4, <1>8, <1>9, <1>10, <2>3, <2>4, HandleEnds
<1>13. CASE ~AllRetired(p)
  <2>1. tpriv' = p /\ UNCHANGED <<ending, lock, discard>>
    BY <1>3, <1>13 DEF Goon
  <2>2. ~Normal' /\ ~Clear'
    BY <1>3, <1>4, <2>1 DEF Normal, Clear
  <2>3. Aligned'
    BY <2>2 DEF Aligned
  <2>4. tpriv.num_retired + 1 < Len(Pieces)
    <3>1. tpriv.num_retired < Len(Pieces)
      BY <1>1, <1>2 DEF UsbfsInv, Counted
    <3>2. tpriv.num_retired + 1 # Len(Pieces)
      BY <1>4, <1>13 DEF AllRetired
    <3> QED
      BY <1>1, <3>1, <3>2
  <2>5. tpriv'.reap_action = "error" => tpriv'.reap_status \in {"error", "no_device"}
    BY <1>1, <1>4, <1>11, <2>1 DEF Verdict
  <2> HIDE DEF p
  <2> QED
    BY <1>2, <1>3, <1>4, <1>8, <1>9, <1>10, <2>1, <2>2, <2>3, <2>4, <2>5, HandleGoesOn
<1> QED
  BY <1>12, <1>13

LEMMA Followed ==
    ASSUME NEW p \in Priv, NEW status \in Statuses
    PROVE  LET q == After(p, status)
           IN /\ q \in Priv /\ q.urbs = p.urbs /\ q.num_retired = p.num_retired
              /\ status \in {"ok", "short", "killed"} => q = p
              /\ status # "error" => q.reap_action = p.reap_action
              /\ status = "error" => q.reap_action = "error"
              /\ status = "error" /\ p.reap_status = "completed" => q.reap_status = "error"
              /\ status \in {"gone", "stall", "overflow", "error"} =>
                   q.reap_status # "completed"
<1> DEFINE Keep(s) == IF p.reap_status = "completed" THEN s ELSE p.reap_status
<1>1. ASSUME NEW s \in Outcomes \ {"none"}
      PROVE  LET q == [p EXCEPT !.reap_status = s]
             IN /\ q \in Priv /\ q.urbs = p.urbs /\ q.num_retired = p.num_retired
                /\ q.reap_action = p.reap_action /\ q.reap_status = s
  BY DEF Priv
<1>2. ASSUME NEW s \in Outcomes \ {"none"}
      PROVE  LET q == [p EXCEPT !.reap_action = "error", !.reap_status = s]
             IN /\ q \in Priv /\ q.urbs = p.urbs /\ q.num_retired = p.num_retired
                /\ q.reap_action = "error" /\ q.reap_status = s
  BY DEF Priv, Actions
<1>3. p.reap_status \in Outcomes \ {"none"}
  BY DEF Priv
<1>4. \A s \in {"stall", "overflow", "error"} :
        Keep(s) \in Outcomes \ {"none"} /\ Keep(s) # "completed"
  BY <1>3 DEF Outcomes
<1>5. CASE status \in {"ok", "short", "killed"}
  BY <1>5 DEF After
<1>6. CASE status = "gone"
  <2>1. After(p, status) = [p EXCEPT !.reap_status = "no_device"]
    BY <1>6 DEF After
  <2>2. PICK s \in Outcomes \ {"none"} : s = "no_device" /\ s # "completed"
    BY DEF Outcomes
  <2>3. After(p, status) = [p EXCEPT !.reap_status = s]
    BY <2>1, <2>2
  <2>4. /\ After(p, status) \in Priv /\ After(p, status).urbs = p.urbs
        /\ After(p, status).num_retired = p.num_retired
        /\ After(p, status).reap_action = p.reap_action
        /\ After(p, status).reap_status = s
    BY <1>1, <2>3
  <2>5. status \notin {"ok", "short", "killed"} /\ status # "error"
    BY <1>6
  <2> HIDE DEF Keep
  <2> QED
    BY <2>2, <2>4, <2>5
<1>7. CASE status \in {"stall", "overflow"}
  <2>1. After(p, status) = [p EXCEPT !.reap_status = Keep(status)]
    BY <1>7 DEF After
  <2>2. PICK s \in Outcomes \ {"none"} : s = Keep(status) /\ s # "completed"
    BY <1>4, <1>7
  <2> HIDE DEF Keep
  <2> QED
    BY <1>1, <1>7, <2>1, <2>2
<1>8. CASE status = "error"
  <2>1. After(p, status) = [p EXCEPT !.reap_action = "error", !.reap_status = Keep("error")]
    BY <1>8 DEF After
  <2>2. PICK s \in Outcomes \ {"none"} :
          s = Keep("error") /\ s # "completed" /\ (p.reap_status = "completed" => s = "error")
    BY <1>4
  <2> HIDE DEF Keep
  <2> QED
    BY <1>2, <1>8, <2>1, <2>2
<1> QED
  BY <1>5, <1>6, <1>7, <1>8 DEF Statuses

(* The data of a URB in its order stand where they belong already.         *)
LEMMA NormalBuffered ==
    ASSUME UsbfsInv, HandleCompletion, ~Iso, Normal, UNCHANGED buffer,
           transferred' = transferred + Len(reaping.data)
    PROVE  Buffered'
<1>1. /\ stage = "flying" /\ UNCHANGED <<transfer, stage>>
      /\ reaping # NotReaping /\ reaping' = NotReaping
  BY HandleFacts
<1>2. SUFFICES ASSUME Bulk, ~transfer.out
               PROVE  /\ DOMAIN buffer = 1 .. transfer.length
                      /\ \A k \in 1 .. transferred' : buffer[k] = k
  BY <1>1, SameTransfer DEF Buffered
<1>3. /\ DOMAIN buffer = 1 .. transfer.length
      /\ \A k \in 1 .. transferred : buffer[k] = k
      /\ \A j \in 1 .. Len(reaping.data) : buffer[reaping.urb.at + j] = reaping.data[j]
  BY <1>1, <1>2 DEF UsbfsInv, Buffered
<1>4. transferred \in Nat /\ Len(reaping.data) \in Nat /\ reaping.data \in Seq(Nat)
  BY HandPiece
<1>5. \A j \in 1 .. Len(reaping.data) : reaping.data[j] = transferred + j
  BY HandData
<1>6. ASSUME NEW k \in 1 .. transferred' PROVE buffer[k] = k
  <2>1. CASE k <= transferred
    BY <1>3, <1>4, <2>1
  <2>2. CASE ~(k <= transferred)
    <3>1. k - transferred \in 1 .. Len(reaping.data) /\ transferred + (k - transferred) = k
      BY <1>4, <2>2
    <3>2. Len(reaping.data) # 0
      BY <1>4, <3>1
    <3>3. reaping.data # <<>>
      BY <3>2
    <3>4. reaping.urb.at = transferred
      BY <3>3, HandInOrder
    <3>5. /\ buffer[transferred + (k - transferred)] = reaping.data[k - transferred]
          /\ reaping.data[k - transferred] = transferred + (k - transferred)
      BY <1>3, <1>5, <3>1, <3>4
    <3> QED
      BY <3>1, <3>5
  <2> QED
    BY <2>1, <2>2
<1> QED
  BY <1>3, <1>6

(* What all the cases of handle_bulk_completion have in common.            *)
LEMMA BulkNormalFacts ==
    ASSUME UsbfsInv, HandleCompletion, Bulk, tpriv.reap_action = "normal"
    PROVE  LET p == After(Retire, reaping.status)
           IN /\ ~Iso /\ ~Control /\ Normal /\ cancel # "success"
              /\ Iso' = Iso /\ Pieces' = Pieces
              /\ p \in Priv /\ p.urbs = Pieces /\ p.num_retired = tpriv.num_retired + 1
              /\ p.reap_status \in Outcomes \ {"none"}
              /\ reaping.status \in {"ok", "short", "killed"} =>
                   p.reap_action = "normal" /\ p.reap_status = tpriv.reap_status
              /\ reaping.status \notin {"ok", "short", "killed"} => p.reap_status # "completed"
              /\ reaping.status # "error" => p.reap_action = "normal"
              /\ p.reap_action = "error" => p.reap_status \in {"error", "no_device"}
              /\ tpriv.num_retired \in Nat /\ tpriv.num_retired < Len(Pieces)
              /\ ~AllRetired(p) => tpriv.num_retired + 1 < Len(Pieces)
              /\ reaping.urb.index < Len(Pieces) \/ reaping.status # "killed" =>
                   ~Cut(reaping) /\ reaping.urb.index = tpriv.num_retired + 1
<1>1. /\ tpriv \in Priv /\ tpriv.num_retired \in Nat /\ tpriv.urbs = Pieces /\ Alive
      /\ transfer \in Transfers /\ Len(Pieces) \in Nat /\ UNCHANGED transfer
      /\ Queue[1] = reaping /\ 1 \in 1 .. Len(Queue)
  BY HandleFacts
<1>2. ~Iso /\ ~Control /\ Iso' = Iso /\ Pieces' = Pieces
  BY <1>1, Kinds, SameTransfer
<1>3. Normal
  BY <1>1 DEF Normal
<1>4. cancel # "success"
  BY DEF UsbfsInv, Verdict
<1>5. reaping.status \in Statuses /\ reaping.urb.index \in Nat
  BY HandPiece DEF Urb
<1>6. /\ Retire \in Priv /\ Retire.urbs = Pieces /\ Retire.reap_action = "normal"
      /\ Retire.reap_status = tpriv.reap_status
      /\ Retire.num_retired = tpriv.num_retired + 1
  BY <1>1, Retired
<1>7. PICK p \in Priv :
        /\ p = After(Retire, reaping.status)
        /\ p.urbs = Pieces /\ p.num_retired = tpriv.num_retired + 1
        /\ reaping.status \in {"ok", "short", "killed"} => p = Retire
        /\ reaping.status # "error" => p.reap_action = "normal"
        /\ reaping.status = "error" => p.reap_action = "error"
        /\ reaping.status = "error" /\ tpriv.reap_status = "completed" => p.reap_status = "error"
        /\ reaping.status \in {"gone", "stall", "overflow", "error"} =>
             p.reap_status # "completed"
  BY <1>5, <1>6, Followed
<1>8. p.reap_status \in Outcomes \ {"none"}
  BY DEF Priv
<1>9. tpriv.num_retired < Len(Pieces)
  BY <1>1, <1>2 DEF UsbfsInv, Counted
<1>10. ~AllRetired(p) => tpriv.num_retired + 1 < Len(Pieces)
  <2>1. ~AllRetired(p) => tpriv.num_retired + 1 # Len(Pieces)
    BY <1>7 DEF AllRetired
  <2> QED
    BY <1>1, <1>9, <2>1
<1>11. reaping.status = "error" => tpriv.reap_status = "completed"
  <2>1. reaping.status = "error" => ~Idler(reaping)
    BY DEF Idler
  <2> QED
    BY <1>1, <1>2, <1>3, <2>1 DEF UsbfsInv, Aligned
<1>12. ASSUME reaping.urb.index < Len(Pieces) \/ reaping.status # "killed"
       PROVE  ~Cut(reaping) /\ reaping.urb.index = tpriv.num_retired + 1
  <2>1. ~Cut(reaping)
    BY <1>1, <1>5, <1>12 DEF Cut
  <2> QED
    BY <1>3, <2>1, HandInOrder
<1>13. reaping.status \notin {"ok", "short", "killed"} => p.reap_status # "completed"
  BY <1>5, <1>7 DEF Statuses
<1>14. p.reap_action = "error" => p.reap_status \in {"error", "no_device"}
  BY <1>7, <1>11
<1>15. reaping.status \in {"ok", "short", "killed"} =>
         p.reap_action = "normal" /\ p.reap_status = tpriv.reap_status
  BY <1>6, <1>7
<1> QED
  BY <1>1, <1>2, <1>3, <1>4, <1>7, <1>8, <1>9, <1>10, <1>12, <1>13, <1>14, <1>15

(* The last URB has come, and none that failed: everything has come.       *)
LEMMA LastOfAll ==
    ASSUME UsbfsInv, HandleCompletion, ~Iso, Normal,
           reaping.status \in {"ok", "short", "killed"},
           reaping.urb.index = Len(Pieces), tpriv.reap_status = "completed",
           cancel # "no_device", transferred' = transferred + Len(reaping.data)
    PROVE  /\ faults = 0 /\ pending = <<>>
           /\ transfer.out => transferred' = transfer.length
<1> DEFINE k == tpriv.num_retired
<1>1. ~Iso /\ Normal /\ k \in Nat
  BY HandleFacts
<1>2. /\ lock = "none" /\ Queue[1] = reaping /\ Len(Queue) \in Nat \ {0}
      /\ k + Len(Queue) + Len(pending) = Len(Pieces) /\ Len(Pieces) \in Nat
      /\ transfer \in Transfers
  BY HandleFacts
<1>3. Types /\ Stopped /\ Aligned /\ Untouched
  BY DEF UsbfsInv
<1>4. Clear
  BY <1>1, <1>2 DEF Clear
<1>5. 1 \in 1 .. Len(Queue) /\ reaping.urb.index = k + 1
  BY <1>2, <1>3, <1>4 DEF Untouched
<1>6. Len(pending) \in Nat /\ pending \in Seq(Urb)
  BY <1>3, TypedQueue
<1>7. Len(Queue) = 1 /\ Len(pending) = 0
  <2>1. k + 1 = Len(Pieces)
    BY <1>5
  <2>2. /\ k \in Nat /\ Len(Queue) \in Nat /\ Len(Queue) # 0 /\ Len(pending) \in Nat
        /\ k + Len(Queue) + Len(pending) = k + 1
    BY <1>1, <1>2, <1>6, <2>1
  <2> HIDE DEF k
  <2>3. ASSUME NEW a \in Nat, NEW b \in Nat, NEW c \in Nat, b # 0, a + b + c = a + 1
        PROVE  b = 1 /\ c = 0
    BY <2>3
  <2> QED
    BY <2>2, <2>3
<1>8. pending = <<>>
  BY <1>6, <1>7
<1>9. \A i \in 1 .. Len(Queue) : Queue[i] = reaping
  BY <1>2, <1>7
<1>10. faults = 0
  <2>1. ~(faults > 0)
    BY <1>3, <1>4, <1>9 DEF Untouched, Failed
  <2> QED
    BY <1>3, <2>1 DEF Types
<1>11. ASSUME transfer.out PROVE transferred' = transfer.length
  <2>1. reaping.status # "killed"
    BY <1>2, <1>3, <1>4, <1>5, <1>10, <1>11 DEF Untouched
  <2>2. reaping.status = "ok"
    BY <1>1, <1>2, <1>3, <1>5, <1>11, <2>1 DEF Stopped
  <2>3. Len(reaping.data) = reaping.urb.length
    BY <1>1, <1>2, <1>3, <1>5, <1>11, <2>2 DEF Stopped
  <2>4. transferred = Pieces[k + 1].at
    BY <1>1, <1>3 DEF Aligned
  <2>5. reaping.urb = Pieces[Len(Pieces)] /\ k + 1 = Len(Pieces)
    BY <1>5, HandPiece
  <2>6. Pieces[Len(Pieces)].at + Pieces[Len(Pieces)].length = transfer.length
    BY <1>1, <1>2, Whole
  <2> QED
    BY <2>3, <2>4, <2>5, <2>6
<1> QED
  BY <1>8, <1>10, <1>11

LEMMA BulkNormalInv ==
    ASSUME UsbfsInv, HandleCompletion, Bulk, BulkNormal
    PROVE  UsbfsInv'
<1> DEFINE u == reaping.urb
           n == Len(Pieces)
<1>1. tpriv.reap_action = "normal" /\ transferred' = transferred + Len(reaping.data)
  BY DEF BulkNormal
<1>2. UNCHANGED buffer
  BY DEF BulkNormal
<1>3. PICK p : p = After(Retire, reaping.status)
  OBVIOUS
<1>4. /\ ~Iso /\ ~Control /\ Normal /\ cancel # "success"
      /\ Iso' = Iso /\ Pieces' = Pieces
      /\ p \in Priv /\ p.urbs = Pieces /\ p.num_retired = tpriv.num_retired + 1
      /\ p.reap_status \in Outcomes \ {"none"}
      /\ reaping.status \in {"ok", "short", "killed"} =>
           p.reap_action = "normal" /\ p.reap_status = tpriv.reap_status
      /\ reaping.status \notin {"ok", "short", "killed"} => p.reap_status # "completed"
      /\ reaping.status # "error" => p.reap_action = "normal"
      /\ p.reap_action = "error" => p.reap_status \in {"error", "no_device"}
      /\ tpriv.num_retired \in Nat /\ tpriv.num_retired < n
      /\ ~AllRetired(p) => tpriv.num_retired + 1 < n
      /\ u.index < n \/ reaping.status # "killed" =>
           ~Cut(reaping) /\ u.index = tpriv.num_retired + 1
  BY <1>1, <1>3, BulkNormalFacts
<1>5. /\ n \in Nat /\ u.index \in 1 .. n /\ u = Pieces[u.index] /\ reaping.status \in Statuses
      /\ transferred \in Nat /\ Len(reaping.data) \in Nat /\ u.length \in Nat
      /\ Len(reaping.data) <= u.length /\ transfer \in Transfers
  BY <1>4, HandleFacts, HandPiece, HandData
<1>6. Buffered'
  BY <1>1, <1>2, <1>4, NormalBuffered
<1>7. Packets' /\ transferred' \in Nat
  BY <1>1, <1>4, <1>5 DEF Packets
<1>8. /\ Len(Queue) \in Nat \ {0} /\ Len(Queue') = Len(Queue) - 1 /\ Queue[1] = reaping
      /\ \A i \in 1 .. Len(Queue) - 1 : Queue'[i] = Queue[i + 1]
      /\ UNCHANGED <<endpoint, device, cancel>>
  BY HandleFacts
<1>9. \A i \in 1 .. Len(Queue') : i + 1 \in 1 .. Len(Queue) /\ i + 1 > 1
  BY <1>8
<1>10. Dry' = Dry /\ \A e : Idler(e)' = Idler(e)
  BY <1>8 DEF Dry, Idler
<1> HIDE DEF u, n
(* The last URB, or an overflow: the transfer ends.                        *)
<1>11. ASSUME Done(p, p.reap_status),
              \/ reaping.status \in {"ok", "short", "killed"} /\ u.index = n
              \/ p.reap_status # "completed"
       PROVE  UsbfsInv'
  <2>1. p.reap_status = "completed" /\ cancel # "no_device" =>
          /\ faults = 0 /\ pending = <<>>
          /\ transfer.out => transferred' = transfer.length
    BY <1>1, <1>4, <1>11, LastOfAll DEF u, n
  <2> QED
    BY <1>1, <1>4, <1>6, <1>7, <1>11, <2>1, HandleEnds
(* Full, and not the last: the transfer goes on.                           *)
<1>12. ASSUME Goon(p), reaping.status \in {"ok", "short", "killed"}, u.index < n,
              ~(Len(reaping.data) < u.length)
       PROVE  UsbfsInv'
  <2>1. tpriv' = p /\ UNCHANGED <<ending, lock, discard>>
    BY <1>12 DEF Goon
  <2>2. ~Cut(reaping) /\ u.index = tpriv.num_retired + 1
    BY <1>4, <1>12
  <2>3. Aligned'
    <3>1. p.reap_action = "normal" /\ p.reap_status = tpriv.reap_status
      BY <1>4, <1>12
    <3>2. CASE tpriv.reap_status = "completed"
      <4>1. transferred = Pieces[u.index].at
        BY <1>4, <2>2, <3>2 DEF UsbfsInv, Aligned
      <4>2. u.index \in 1 .. Len(Pieces) - 1
        BY <1>5, <1>12 DEF n
      <4>3. Pieces[u.index + 1].at = Pieces[u.index].at + Pieces[u.index].length
        BY <1>5, <4>2, Adjoining
      <4>4. transferred' = Pieces[u.index + 1].at
        BY <1>1, <1>5, <1>12, <4>1, <4>3
      <4>5. tpriv'.num_retired + 1 = u.index + 1 /\ tpriv'.reap_status = "completed"
        BY <1>4, <2>1, <2>2, <3>1, <3>2
      <4> QED
        BY <1>4, <4>4, <4>5 DEF Aligned
    <3>3. CASE tpriv.reap_status # "completed"
      <4>1. Dry /\ \A i \in 1 .. Len(Queue) : Idler(Queue[i])
        BY <1>4, <3>3 DEF UsbfsInv, Aligned
      <4>2. tpriv'.reap_status # "completed"
        BY <2>1, <3>1, <3>3
      <4> QED
        BY <1>8, <1>9, <1>10, <4>1, <4>2 DEF Aligned
    <3> QED
      BY <3>2, <3>3
  <2>4. tpriv.num_retired + 1 < Len(Pieces)
    BY <1>12, <2>2 DEF n
  <2>5. Clear' => tpriv.reap_status = "completed" /\ reaping.status \notin Failed
    BY <1>4, <1>12, <2>1 DEF Clear, Failed
  <2> QED
    BY <1>1, <1>4, <1>6, <1>7, <1>12, <2>1, <2>2, <2>3, <2>4, <2>5, HandleGoesOn
(* The URBs behind this one are discarded.                                 *)
<1>13. ASSUME NEW q \in Priv, CancelRemaining(q), ~AllRetired(q),
              q.urbs = Pieces, q.num_retired = p.num_retired,
              q.reap_action # "normal" \/ q.reap_status # "completed",
              q.reap_action = "error" => q.reap_status \in {"error", "no_device"},
              q.reap_action = "normal" =>
                reaping.status \in {"gone", "stall", "overflow", "error"}
       PROVE  UsbfsInv'
  <2>1. /\ tpriv' = q /\ ending' = ending /\ lock' = "reap"
        /\ discard' = [next |-> n, first |-> u.index + 1, last |-> n, ret |-> "success"]
    BY <1>13 DEF CancelRemaining, StartDiscard, u, n
  <2>2. /\ discard' \in Loop /\ discard'.last = Len(Pieces)
        /\ discard'.next = discard'.last
    BY <1>5, <2>1 DEF Loop, n
  <2>3. tpriv.num_retired + 1 < Len(Pieces)
    <3>1. tpriv.num_retired + 1 # Len(Pieces)
      BY <1>4, <1>13 DEF AllRetired
    <3> QED
      BY <1>4, <1>5, <3>1 DEF n
  <2>4. Normal' => q.reap_action = "normal" /\ q.reap_status # "completed"
    BY <1>13, <2>1 DEF Normal
  <2>5. ~Clear'
    BY <2>1, <2>4 DEF Clear
  <2>6. Normal' => reaping.status \in Stops /\ ~Cut(reaping)
    BY <1>4, <1>13, <2>4 DEF Stops
  <2>7. Aligned'
    <3>1. SUFFICES ASSUME Normal'
                   PROVE  Dry /\ \A i \in 1 .. Len(Queue') : Idler(Queue'[i])
      BY <1>10, <2>1, <2>4 DEF Aligned
    <3>2. Dry /\ \A j \in 1 .. Len(Queue) : j > 1 => Idler(Queue[j])
      BY <1>4, <1>8, <2>6, <3>1 DEF UsbfsInv, Stopped
    <3> QED
      BY <1>8, <1>9, <3>2
  <2>8. tpriv'.urbs = Pieces /\ tpriv'.num_retired = tpriv.num_retired + 1 /\ tpriv' \in Priv
    BY <1>4, <1>13, <2>1
  <2> QED
    BY <1>1, <1>4, <1>6, <1>7, <1>13, <2>1, <2>2, <2>3, <2>4, <2>5, <2>6, <2>7, <2>8,
       HandleGoesOn
<1>14. \/ /\ reaping.status \in {"ok", "short", "killed"}
          /\ \/ u.index = Len(p.urbs) /\ Done(p, p.reap_status)
             \/ /\ u.index < Len(p.urbs) /\ Len(reaping.data) < u.length
                /\ CancelRemaining([p EXCEPT !.reap_action = "completed_early"])
             \/ u.index < Len(p.urbs) /\ ~(Len(reaping.data) < u.length) /\ Goon(p)
       \/ reaping.status = "overflow" /\ Done(p, p.reap_status)
       \/ reaping.status \in {"gone", "stall", "error"} /\ CancelRemaining(p)
  BY <1>3 DEF BulkNormal, u
<1>15. CASE /\ reaping.status \in {"ok", "short", "killed"}
            /\ u.index = Len(p.urbs) /\ Done(p, p.reap_status)
  BY <1>4, <1>11, <1>15 DEF n
<1>16. CASE /\ reaping.status \in {"ok", "short", "killed"} /\ u.index < Len(p.urbs)
            /\ CancelRemaining([p EXCEPT !.reap_action = "completed_early"])
  <2>1. PICK q \in Priv : /\ q = [p EXCEPT !.reap_action = "completed_early"]
                          /\ q.reap_action = "completed_early" /\ q.urbs = p.urbs
                          /\ q.num_retired = p.num_retired
    <3> DEFINE q == [p EXCEPT !.reap_action = "completed_early"]
    <3>1. q \in Priv /\ q.reap_action = "completed_early"
      BY <1>4 DEF Priv, Actions
    <3>2. q.urbs = p.urbs /\ q.num_retired = p.num_retired
      BY <1>4 DEF Priv
    <3> HIDE DEF q
    <3>3. q = [p EXCEPT !.reap_action = "completed_early"]
      BY DEF q
    <3> QED
      BY <3>1, <3>2, <3>3
  <2>2. CancelRemaining(q) /\ u.index = tpriv.num_retired + 1 /\ u.index < n
    BY <1>4, <1>16, <2>1 DEF n
  <2>3. ~AllRetired(q)
    BY <1>4, <1>5, <2>1, <2>2 DEF AllRetired, n
  <2> QED
    BY <1>4, <1>13, <2>1, <2>2, <2>3
<1>17. CASE /\ reaping.status \in {"ok", "short", "killed"} /\ u.index < Len(p.urbs)
            /\ ~(Len(reaping.data) < u.length) /\ Goon(p)
  BY <1>4, <1>12, <1>17 DEF n
<1>18. CASE reaping.status = "overflow" /\ Done(p, p.reap_status)
  BY <1>4, <1>11, <1>18
<1>19. CASE reaping.status \in {"gone", "stall", "error"} /\ CancelRemaining(p)
  <2>1. p.reap_status # "completed"
    BY <1>4, <1>19
  <2>2. CASE AllRetired(p)
    BY <1>11, <1>19, <2>1, <2>2 DEF CancelRemaining
  <2>3. CASE ~AllRetired(p)
    BY <1>4, <1>13, <1>19, <2>1, <2>3
  <2> QED
    BY <2>2, <2>3
<1> QED
  BY <1>14, <1>15, <1>16, <1>17, <1>18, <1>19

LEMMA IsoCompletionInv ==
    ASSUME UsbfsInv, HandleCompletion, Iso, IsoCompletion
    PROVE  UsbfsInv'
<1> DEFINE u == reaping.urb
           k == tpriv.iso_packet_offset
           n == u.length
<1>1. /\ tpriv \in Priv /\ tpriv.num_retired \in Nat /\ tpriv.urbs = Pieces /\ Alive
      /\ stage = "flying" /\ transfer \in Transfers /\ Len(Pieces) \in Nat \ {0}
      /\ UNCHANGED <<transfer, stage, cancel>> /\ reaping' = NotReaping /\ reaping # NotReaping
      /\ Len(Queue) \in Nat \ {0} /\ Len(Queue') = Len(Queue) - 1 /\ Queue[1] = reaping
      /\ \A i \in 1 .. Len(Queue) - 1 : Queue'[i] = Queue[i + 1]
  BY HandleFacts
<1>2. ~Bulk /\ ~Control
  BY <1>1, Kinds
<1>3. Pieces' = Pieces /\ Iso' = Iso /\ Bulk' = Bulk
  BY <1>1, SameTransfer
<1>4. k \in Nat /\ n \in Nat /\ u.index \in 1 .. Len(Pieces) /\ u = Pieces[u.index]
      /\ u.at \in Nat
  BY <1>1, HandPiece DEF Priv
<1>5. PICK p \in Priv :
        /\ p = [Retire EXCEPT !.iso_packet_offset = @ + n]
        /\ p.urbs = Pieces /\ p.reap_action = tpriv.reap_action
        /\ p.reap_status = tpriv.reap_status /\ p.num_retired = tpriv.num_retired + 1
        /\ p.iso_packet_offset = k + n
  <2> DEFINE q == Retire
             d == k + n
             p == [q EXCEPT !.iso_packet_offset = d]
  <2>1. /\ q \in Priv /\ q.urbs = Pieces /\ q.reap_action = tpriv.reap_action
        /\ q.reap_status = tpriv.reap_status /\ q.num_retired = tpriv.num_retired + 1
        /\ q.iso_packet_offset = k
    BY <1>1, Retired
  <2>2. d \in Nat
    BY <1>4
  <2> HIDE DEF q, d
  <2>3. p \in Priv /\ p.iso_packet_offset = d
    BY <2>1, <2>2 DEF Priv
  <2>4. /\ p.urbs = q.urbs /\ p.reap_action = q.reap_action
        /\ p.reap_status = q.reap_status /\ p.num_retired = q.num_retired
    BY <2>1 DEF Priv
  <2>5. p = [q EXCEPT !.iso_packet_offset = @ + n]
    BY <2>1 DEF d
  <2> HIDE DEF p
  <2> QED
    BY <2>1, <2>3, <2>4, <2>5 DEF q, d
<1>6. /\ buffer' = [i \in DOMAIN buffer |->
                      IF i - k \in 1 .. n THEN reaping.data[i - k] ELSE buffer[i]]
      /\ transferred' = transferred
  BY DEF IsoCompletion, IsoOffset
<1>7. IF tpriv.reap_action # "normal"
      THEN IF AllRetired(p) THEN Done(p, "error") ELSE Goon(p)
      ELSE IF u.index = Len(p.urbs)
      THEN Done(p, CASE reaping.status \in {"ok", "killed"} -> "completed"
                     [] reaping.status = "gone" -> "no_device"
                     [] OTHER -> "error")
      ELSE Goon(p)
  BY <1>5 DEF IsoCompletion
<1>8. Packets /\ Verdict
  BY DEF UsbfsInv
<1>9. 1 \in 1 .. Len(Queue) /\ \A i \in 1 .. Len(Queue) - 1 : i + 1 \in 1 .. Len(Queue)
  BY <1>1
<1>10. /\ Len(reaping.data) = n
       /\ \A j \in 1 .. n : reaping.data[j] \in {0, u.at + j}
  BY <1>1, <1>8, <1>9 DEF Packets, PacketData
<1>11. transferred = 0 /\ transferred' \in Nat
  BY <1>6, <1>8 DEF Packets
<1> HIDE DEF u, n, k
<1>12. ASSUME tpriv.reap_action = "normal", NEW i \in DOMAIN buffer'
       PROVE  i \in Nat /\ buffer'[i] \in {0, i}
  <2>1. Normal
    BY <1>1, <1>12 DEF Normal
  <2>2. k = Pieces[tpriv.num_retired + 1].at
    BY <1>8, <2>1 DEF Packets, k
  <2>3. i \in DOMAIN buffer /\ i \in Nat /\ buffer[i] \in {0, i}
    BY <1>1, <1>6, <1>8, <1>12 DEF Packets
  <2>4. CASE i - k \in 1 .. n
    <3>1. PICK j \in 1 .. n : j = i - k
      BY <2>4
    <3>2. buffer'[i] = reaping.data[j] /\ reaping.data[j] \in {0, u.at + j}
      BY <1>6, <1>10, <2>3, <2>4, <3>1
    <3>3. CASE reaping.data[j] = 0
      BY <2>3, <3>2, <3>3
    <3>4. CASE reaping.data[j] # 0
      <4>1. HasData(reaping)
        BY <1>10, <3>4 DEF HasData
      <4>2. u.index = tpriv.num_retired + 1
        BY <2>1, <4>1, HandInOrder DEF u
      <4>3. u.at = k
        BY <1>4, <2>2, <4>2
      <4>4. reaping.data[j] = k + j
        BY <3>2, <3>4, <4>3
      <4>5. k + j = i
        BY <1>4, <2>3, <3>1
      <4> QED
        BY <2>3, <3>2, <4>4, <4>5
    <3> QED
      BY <2>3, <3>2, <3>3, <3>4
  <2>5. CASE i - k \notin 1 .. n
    BY <1>6, <2>3, <2>5
  <2> QED
    BY <2>4, <2>5
<1>13. \A i \in 1 .. Len(Queue') : PacketData(Queue'[i])
  <2>1. \A i \in 1 .. Len(Queue) : PacketData(Queue[i])
    BY <1>8 DEF Packets
  <2> QED
    BY <1>1, <1>9, <2>1
<1>14. Buffered' /\ Aligned'
  BY <1>2, <1>3 DEF Buffered, Aligned
<1>15. ASSUME tpriv'.reap_action = tpriv.reap_action,
              Normal' => tpriv'.iso_packet_offset = Pieces[tpriv'.num_retired + 1].at
       PROVE  Packets'
  <2>1. \A i \in DOMAIN buffer' : tpriv.reap_action = "normal" =>
          i \in Nat /\ buffer'[i] \in {0, i}
    BY <1>12
  <2>2. transferred' = 0
    BY <1>6, <1>11
  <2> QED
    BY <1>3, <1>13, <1>15, <2>1, <2>2 DEF Packets, PacketData
<1>16. ASSUME NEW s \in Outcomes \ {"none"}, Done(p, s),
              tpriv.reap_action = "normal" \/ s = "error"
       PROVE  UsbfsInv'
  <2>1. tpriv' = [p EXCEPT !.urbs = <<>>]
    BY <1>16 DEF Done
  <2>2. tpriv'.urbs = <<>> /\ tpriv'.reap_action = tpriv.reap_action
    BY <1>5, <2>1, FreedTyped
  <2>3. Packets'
    BY <1>15, <2>2 DEF Normal, Alive
  <2>4. cancel = "success" => s \in Good
    BY <1>8, <1>16 DEF Verdict, Good
  <2> QED
    BY <1>5, <1>11, <1>14, <1>16, <2>3, <2>4, HandleEnds
<1>17. ASSUME Goon(p), tpriv.num_retired + 1 < Len(Pieces), Normal => ~Cut(reaping)
       PROVE  UsbfsInv'
  <2>1. tpriv' = p /\ UNCHANGED <<ending, lock, discard>>
    BY <1>17 DEF Goon
  <2>2. Normal' => Normal /\ ~Cut(reaping) /\ u.index = tpriv.num_retired + 1
    BY <1>1, <1>5, <1>17, <2>1, HandInOrder DEF Normal, u
  <2>3. ASSUME Normal' PROVE tpriv'.iso_packet_offset = Pieces[tpriv'.num_retired + 1].at
    <3>1. u.index = tpriv.num_retired + 1 /\ Normal /\ u.index \in 1 .. Len(Pieces) - 1
      BY <1>1, <1>4, <1>17, <2>2, <2>3
    <3>2. k = Pieces[u.index].at
      BY <1>8, <3>1 DEF Packets, k
    <3>3. Pieces[u.index + 1].at = Pieces[u.index].at + Pieces[u.index].length
      BY <1>1, <3>1, Adjoining
    <3>4. p.iso_packet_offset = Pieces[u.index + 1].at
      BY <1>4, <1>5, <3>2, <3>3 DEF n
    <3> QED
      BY <1>5, <2>1, <3>1, <3>4
  <2>4. Packets' /\ ~Clear'
    BY <1>3, <1>5, <1>15, <2>1, <2>3 DEF Clear
  <2>5. tpriv'.reap_action = "error" => tpriv'.reap_status \in {"error", "no_device"}
    BY <1>1, <1>5, <1>8, <2>1 DEF Verdict
  <2> QED
    BY <1>2, <1>5, <1>11, <1>14, <1>17, <2>1, <2>2, <2>4, <2>5, HandleGoesOn
<1>18. tpriv.num_retired < Len(Pieces)
  BY <1>1, <1>2 DEF UsbfsInv, Counted
<1>19. CASE tpriv.reap_action # "normal"
  <2>1. CASE AllRetired(p)
    BY <1>7, <1>16, <1>19, <2>1 DEF Outcomes
  <2>2. CASE ~AllRetired(p)
    <3>1. tpriv.num_retired + 1 # Len(Pieces)
      BY <1>5, <2>2 DEF AllRetired
    <3>2. tpriv.num_retired + 1 < Len(Pieces)
      BY <1>1, <1>18, <3>1
    <3> QED
      BY <1>7, <1>17, <1>19, <2>2, <3>2 DEF Normal
  <2> QED
    BY <2>1, <2>2
<1>20. CASE tpriv.reap_action = "normal"
  <2>1. CASE u.index = Len(p.urbs)
    <3>1. PICK s \in {"completed", "no_device", "error"} : Done(p, s)
      BY <1>7, <1>20, <2>1
    <3> QED
      BY <1>16, <1>20, <3>1 DEF Outcomes
  <2>2. CASE u.index # Len(p.urbs)
    <3>1. Goon(p) /\ Normal /\ u.index # Len(Pieces)
      BY <1>1, <1>5, <1>7, <1>20, <2>2 DEF Normal
    <3>2. ~Cut(reaping)
      BY <3>1 DEF Cut, u
    <3>3. u.index = tpriv.num_retired + 1
      BY <3>1, <3>2, HandInOrder DEF u
    <3>4. tpriv.num_retired + 1 < Len(Pieces)
      BY <1>1, <1>18, <3>1, <3>3
    <3> QED
      BY <1>17, <3>1, <3>2, <3>4
  <2> QED
    BY <2>1, <2>2
<1> QED
  BY <1>19, <1>20

LEMMA ControlCompletionInv ==
    ASSUME UsbfsInv, HandleCompletion, Control, ControlCompletion
    PROVE  UsbfsInv'
<1>1. /\ tpriv \in Priv /\ Alive /\ transfer \in Transfers /\ UNCHANGED transfer
      /\ Queue[1] = reaping /\ 1 \in 1 .. Len(Queue)
  BY HandleFacts
<1>2. ~Iso /\ ~Bulk /\ ~Iso' /\ ~Bulk'
  BY <1>1, Kinds, SameTransfer
<1>3. transferred' = transferred + Len(reaping.data) /\ transferred' \in Nat
  BY HandPiece DEF ControlCompletion
<1>4. Buffered' /\ Packets'
  BY <1>2 DEF Buffered, Packets
<1>5. tpriv.reap_status = "completed" /\ Verdict /\ Stopped
  BY <1>1 DEF UsbfsInv, Counted
<1>6. Len(Pieces) = 1 /\ reaping.urb.index = 1 /\ reaping.urb = Pieces[1]
  <2>1. Len(Pieces) = 1
    BY <1>1, OneControl
  <2>2. reaping.urb.index \in 1 .. 1 /\ reaping.urb = Pieces[reaping.urb.index]
    BY <2>1, HandPiece
  <2> QED
    BY <2>1, <2>2
<1>7. reaping.status # "short"
  <2>1. 1 \in 1 .. Len(Urbs(transfer)) /\ Pieces[1] = Urbs(transfer)[1]
    BY <1>6 DEF Pieces
  <2>2. "SHORT_NOT_OK" \notin Pieces[1].flags
    BY <1>1, <1>2, <2>1, Flagged DEF Bulk
  <2> QED
    BY <1>1, <1>2, <1>5, <1>6, <2>2 DEF Stopped
<1> DEFINE s == CASE reaping.status = "ok" -> "completed"
                  [] reaping.status = "killed" -> "cancelled"
                  [] reaping.status = "gone" -> "no_device"
                  [] OTHER -> reaping.status
<1>8. Done(tpriv, s)
  BY DEF ControlCompletion
<1>9. s \in Outcomes \ {"none"} /\ (s = "completed" => reaping.status = "ok")
  BY <1>7, HandPiece DEF Outcomes, Statuses
<1> HIDE DEF s
<1>10. cancel = "success" => tpriv.reap_action = "cancelled"
  BY <1>1, <1>5 DEF Verdict
<1>11. s = "completed" /\ tpriv.reap_action = "normal" /\ cancel # "no_device" =>
         /\ faults = 0 /\ pending = <<>>
         /\ transfer.out => transferred' = transfer.length
  BY <1>1, <1>2, <1>3, <1>5, <1>6, <1>9, LastOfAll DEF Normal
<1> QED
  BY <1>1, <1>2, <1>3, <1>4, <1>8, <1>9, <1>10, <1>11, HandleEnds

LEMMA HandleCompletionInv ==
    ASSUME UsbfsInv, HandleCompletion
    PROVE  UsbfsInv'
  BY BulkSurplusInv, BulkNormalInv, IsoCompletionInv, ControlCompletionInv
     DEF HandleCompletion, Control

---------------------------------------------------------------------------
(* URBs complete.                                                          *)

(* new are the URBs that leave the kernel, and the first has c units.      *)
Arrives(new, c) ==
    /\ new \in Seq(Entry) /\ completed' = completed \o new
    /\ pending' \in Seq(Urb) /\ Len(pending') + Len(new) = Len(pending)
    /\ c \in Nat /\ received' = received + c
    /\ UNCHANGED <<user, tpriv, lock, next, reaping, ending, cancel>>
    /\ Dry => Dry'

(* Each URB still has one place.                                           *)
Sorted(new, c) ==
    /\ \A i \in 1 .. Len(new) : \E k \in 1 .. Len(pending) : new[i].urb = pending[k]
    /\ \A i \in 1 .. Len(pending') :
         \E k \in 1 .. Len(pending) : pending'[i] = pending[k]
    /\ \A i, j \in 1 .. Len(pending') : i < j => pending'[i].index < pending'[j].index
    /\ \A i, j \in 1 .. Len(new) : new[i].urb.index = new[j].urb.index => i = j
    /\ \A i \in 1 .. Len(pending'), j \in 1 .. Len(new) :
         pending'[i].index # new[j].urb.index
    /\ c > 0 => /\ Len(new) > 0
                /\ \A i \in 1 .. Len(pending') : new[1].urb.index < pending'[i].index

(* They have their data, and nothing comes after what stops a transfer.    *)
Filled(new, c) ==
    /\ \A i \in 1 .. Len(new) :
         /\ Iso => PacketData(new[i])
         /\ ~Iso =>
              /\ Len(new[i].data) = IF i = 1 THEN c ELSE 0
              /\ Len(new[i].data) <= new[i].urb.length
              /\ \A j \in 1 .. Len(new[i].data) : new[i].data[j] = received + j
              /\ Dry => Idler(new[i])
              /\ new[i].status \in Stops =>
                   Dry' /\ \A j \in 1 .. Len(new) : j > i => Idler(new[j])
              /\ new[i].status = "short" =>
                   "SHORT_NOT_OK" \in new[i].urb.flags /\ ~transfer.out
              /\ new[i].status = "ok" /\ transfer.out =>
                   Len(new[i].data) = new[i].urb.length
    /\ Len(new) = 0 => c = 0

LEMMA ArrivesQueue ==
    ASSUME UsbfsInv, NEW new, NEW c, Arrives(new, c)
    PROVE  /\ Len(Queue) \in Nat /\ Len(new) \in Nat /\ Len(Queue') = Len(Queue) + Len(new)
           /\ \A i \in 1 .. Len(Queue) : Queue'[i] = Queue[i]
           /\ \A i \in 1 .. Len(new) : Queue'[Len(Queue) + i] = new[i] /\ new[i] \in Entry
           /\ \A i \in 1 .. Len(Queue') :
                i \in 1 .. Len(Queue) \/ \E k \in 1 .. Len(new) : i = Len(Queue) + k
           /\ Len(pending) \in Nat /\ Len(pending') \in Nat
<1>1. /\ new \in Seq(Entry) /\ completed' = completed \o new /\ reaping' = reaping
      /\ pending' \in Seq(Urb)
  BY DEF Arrives
<1>2. Types
  BY DEF UsbfsInv
<1>3. /\ Queue \in Seq(Entry) /\ Len(Queue) \in Nat /\ Len(pending) \in Nat
      /\ completed \in Seq(Entry)
  BY <1>2, TypedQueue DEF Types
<1>4. Queue' = Queue \o new
  <2>1. CASE reaping = NotReaping
    BY <1>1, <2>1 DEF Queue
  <2>2. CASE reaping # NotReaping
    <3> DEFINE one == <<reaping>>
    <3>1. reaping \in Entry
      BY <1>2, <2>2 DEF Types
    <3>2. one \in Seq(Entry)
      BY <3>1
    <3>3. Queue = one \o completed /\ Queue' = one \o (completed \o new)
      BY <1>1, <2>2 DEF Queue
    <3> HIDE DEF one
    <3>4. one \o (completed \o new) = (one \o completed) \o new
      <4>1. \A s, t, r \in Seq(Entry) : (s \o t) \o r = s \o (t \o r)
        BY ConcatAssociative
      <4>2. (one \o completed) \o new = one \o (completed \o new)
        BY <1>1, <1>3, <3>2, <4>1, Zenon
      <4> QED
        BY <4>2
    <3> QED
      BY <3>3, <3>4
  <2> QED
    BY <2>1, <2>2
<1>5. /\ Len(Queue \o new) = Len(Queue) + Len(new)
      /\ \A i \in 1 .. Len(Queue) + Len(new) : (Queue \o new)[i] =
           IF i <= Len(Queue) THEN Queue[i] ELSE new[i - Len(Queue)]
  BY <1>1, <1>3, ConcatProperties
<1>6. Len(new) \in Nat /\ Len(pending') \in Nat
  BY <1>1, LenProperties
<1>7. \A i \in 1 .. Len(new) : new[i] \in Entry
  BY <1>1, ElementOfSeq
<1> DEFINE m == Len(Queue)
           w == Len(new)
<1> HIDE DEF m, w
<1>8. \A i \in 1 .. m : i \in 1 .. m + w /\ i <= m
  BY <1>3, <1>6 DEF m, w
<1>9. \A i \in 1 .. w : m + i \in 1 .. m + w /\ ~(m + i <= m) /\ (m + i) - m = i
  BY <1>3, <1>6 DEF m, w
<1>10. ASSUME NEW i \in 1 .. m + w, i \notin 1 .. m PROVE \E k \in 1 .. w : i = m + k
  <2>1. i - m \in 1 .. w /\ i = m + (i - m)
    BY <1>3, <1>6, <1>10 DEF m, w
  <2> QED
    BY <2>1
<1>11. \A i \in 1 .. m : Queue'[i] = Queue[i]
  BY <1>4, <1>5, <1>8 DEF m, w
<1>12. \A i \in 1 .. w : Queue'[m + i] = new[i]
  BY <1>4, <1>5, <1>9 DEF m, w
<1> QED
  BY <1>3, <1>4, <1>5, <1>6, <1>7, <1>10, <1>11, <1>12 DEF m, w

LEMMA ArrivesPlaced ==
    ASSUME UsbfsInv, NEW new, NEW c, Arrives(new, c), Sorted(new, c)
    PROVE  Placed'
<1> DEFINE m == Len(Queue)
           w == Len(new)
           n == Len(pending)
<1>1. /\ m \in Nat /\ w \in Nat /\ Len(Queue') = m + w
      /\ \A i \in 1 .. m : Queue'[i] = Queue[i]
      /\ \A i \in 1 .. w : Queue'[m + i] = new[i]
      /\ \A i \in 1 .. Len(Queue') : i \in 1 .. m \/ \E k \in 1 .. w : i = m + k
  BY ArrivesQueue
<1>2. UNCHANGED <<transfer, next>>
  BY DEF Arrives, user
<1>3. Pieces' = Pieces
  BY <1>2 DEF Pieces
<1>4. /\ \A i \in 1 .. n : Piece(pending[i])
      /\ \A i \in 1 .. m : Piece(Queue[i].urb)
      /\ \A i, j \in 1 .. m : Queue[i].urb.index = Queue[j].urb.index => i = j
      /\ \A i \in 1 .. n, j \in 1 .. m : pending[i].index # Queue[j].urb.index
  BY DEF UsbfsInv, Placed
<1>5. /\ \A i \in 1 .. w : \E k \in 1 .. n : new[i].urb = pending[k]
      /\ \A i \in 1 .. Len(pending') : \E k \in 1 .. n : pending'[i] = pending[k]
      /\ \A i, j \in 1 .. Len(pending') : i < j => pending'[i].index < pending'[j].index
      /\ \A i, j \in 1 .. w : new[i].urb.index = new[j].urb.index => i = j
      /\ \A i \in 1 .. Len(pending'), j \in 1 .. w : pending'[i].index # new[j].urb.index
  BY DEF Sorted
<1> HIDE DEF m, w, n
<1>6. \A i \in 1 .. Len(pending') : Piece(pending'[i])
  BY <1>4, <1>5
<1>7. ASSUME NEW i \in 1 .. Len(Queue') PROVE Piece(Queue'[i].urb)
  <2>1. CASE i \in 1 .. m
    BY <1>1, <1>4, <2>1
  <2>2. ASSUME NEW k \in 1 .. w, i = m + k PROVE Piece(Queue'[i].urb)
    <3>1. PICK b \in 1 .. n : new[k].urb = pending[b]
      BY <1>5
    <3>2. Queue'[i] = new[k]
      BY <1>1, <2>2
    <3> QED
      BY <1>4, <3>1, <3>2
  <2> QED
    BY <1>1, <2>1, <2>2
<1>8. ASSUME NEW i \in 1 .. Len(Queue'), NEW j \in 1 .. Len(Queue'),
             Queue'[i].urb.index = Queue'[j].urb.index
      PROVE  i = j
  <2>1. ASSUME NEW a \in 1 .. m, NEW k \in 1 .. w
        PROVE  Queue[a].urb.index # new[k].urb.index
    <3>1. PICK b \in 1 .. n : new[k].urb = pending[b]
      BY <1>5
    <3> QED
      BY <1>4, <3>1
  <2>2. CASE i \in 1 .. m /\ j \in 1 .. m
    BY <1>1, <1>4, <1>8, <2>2
  <2>3. CASE i \in 1 .. m /\ j \notin 1 .. m
    <3>1. PICK k \in 1 .. w : j = m + k
      BY <1>1, <2>3
    <3> QED
      BY <1>1, <1>8, <2>1, <2>3, <3>1
  <2>4. CASE i \notin 1 .. m /\ j \in 1 .. m
    <3>1. PICK k \in 1 .. w : i = m + k
      BY <1>1, <2>4
    <3> QED
      BY <1>1, <1>8, <2>1, <2>4, <3>1
  <2>5. CASE i \notin 1 .. m /\ j \notin 1 .. m
    <3>1. PICK k \in 1 .. w : i = m + k
      BY <1>1, <2>5
    <3>2. PICK l \in 1 .. w : j = m + l
      BY <1>1, <2>5
    <3>3. new[k].urb.index = new[l].urb.index
      BY <1>1, <1>8, <3>1, <3>2
    <3>4. k = l
      BY <1>5, <3>3
    <3> QED
      BY <3>1, <3>2, <3>4
  <2> QED
    BY <2>2, <2>3, <2>4, <2>5
<1>9. ASSUME NEW i \in 1 .. Len(pending'), NEW j \in 1 .. Len(Queue')
      PROVE  pending'[i].index # Queue'[j].urb.index
  <2>1. PICK a \in 1 .. n : pending'[i] = pending[a]
    BY <1>5
  <2>2. CASE j \in 1 .. m
    BY <1>1, <1>4, <2>1, <2>2
  <2>3. CASE j \notin 1 .. m
    <3>1. PICK k \in 1 .. w : j = m + k
      BY <1>1, <2>3
    <3>2. Queue'[j] = new[k]
      BY <1>1, <3>1
    <3>3. pending'[i].index # new[k].urb.index
      BY <1>5
    <3> QED
      BY <3>2, <3>3
  <2> QED
    BY <2>2, <2>3
<1>10. /\ \A i \in 1 .. Len(pending') : Piece(pending[i])'
       /\ \A i \in 1 .. Len(Queue') : Piece(Queue[i].urb)'
  BY <1>2, <1>3, <1>6, <1>7 DEF Piece
<1> QED
  BY <1>5, <1>8, <1>9, <1>10 DEF Placed

LEMMA ArrivesStream ==
    ASSUME UsbfsInv, NEW new, NEW c, Arrives(new, c), Sorted(new, c), Filled(new, c),
           transfer \in Transfers
    PROVE  Stream'
<1> DEFINE m == Len(Queue)
           w == Len(new)
           n == Len(pending)
<1>1. /\ m \in Nat /\ w \in Nat /\ Len(Queue') = m + w
      /\ \A i \in 1 .. m : Queue'[i] = Queue[i]
      /\ \A i \in 1 .. w : Queue'[m + i] = new[i]
      /\ \A i \in 1 .. Len(Queue') : i \in 1 .. m \/ \E k \in 1 .. w : i = m + k
  BY ArrivesQueue
<1>2. UNCHANGED <<transfer, transferred, next, lock>> /\ c \in Nat /\ received' = received + c
  BY DEF Arrives, user
<1>3. Pieces' = Pieces /\ Iso' = Iso
  BY <1>2, SameTransfer
<1>4. SUFFICES ASSUME ~Iso
               PROVE  /\ \E off \in [0 .. Len(Queue') -> 0 .. received'] : Runs(off)'
                      /\ \A i \in 1 .. Len(pending') : received' <= pending'[i].at
                      /\ lock = "submit" /\ next <= Len(Pieces) => received' <= Pieces[next].at
                      /\ received' <= transfer.length
  BY <1>2, <1>3 DEF Stream
<1>5. /\ received \in Nat /\ \A i \in 1 .. n : received <= pending[i].at
      /\ lock = "submit" /\ next <= Len(Pieces) => received <= Pieces[next].at
      /\ received <= transfer.length
  BY <1>4 DEF UsbfsInv, Stream, Types
<1>6. /\ transfer.length \in Nat /\ Size(transfer) = transfer.length /\ next \in Nat
      /\ Len(Pieces) \in Nat
      /\ \A k \in 1 .. Len(Pieces) : Pieces[k].at \in Nat /\ Pieces[k].length \in Nat
  <2>1. transfer.length \in Nat /\ Size(transfer) = transfer.length /\ Len(Pieces) \in Nat
    BY <1>4, Whole
  <2>2. \A k \in 1 .. Len(Pieces) : Pieces[k] \in Urb
    BY Whole
  <2>3. \A u \in Urb : u.at \in Nat /\ u.length \in Nat
    BY DEF Urb
  <2>4. next \in Nat
    BY DEF UsbfsInv, Types
  <2> QED
    BY <2>1, <2>2, <2>3, <2>4
<1>7. /\ \A i \in 1 .. w : \E k \in 1 .. n : new[i].urb = pending[k]
      /\ \A i \in 1 .. Len(pending') : \E k \in 1 .. n : pending'[i] = pending[k]
      /\ c > 0 => w > 0 /\ \A i \in 1 .. Len(pending') : new[1].urb.index < pending'[i].index
  BY DEF Sorted
<1>8. \A i \in 1 .. n : /\ pending[i].index \in 1 .. Len(Pieces) /\ pending[i].index < next
                        /\ pending[i] = Pieces[pending[i].index]
  BY DEF UsbfsInv, Placed, Piece
<1>9. \A i \in 1 .. w : /\ Len(new[i].data) = (IF i = 1 THEN c ELSE 0)
                        /\ Len(new[i].data) <= new[i].urb.length
                        /\ \A j \in 1 .. Len(new[i].data) : new[i].data[j] = received + j
  BY <1>4 DEF Filled
<1>10. w = 0 => c = 0
  BY DEF Filled
<1>11. PICK off \in [0 .. m -> 0 .. received] : Runs(off)
  BY <1>4 DEF UsbfsInv, Stream
<1>12. /\ off[0] = transferred /\ off[m] = received
       /\ \A i \in 1 .. m :
            /\ off[i] = off[i - 1] + Len(Queue[i].data)
            /\ Len(Queue[i].data) <= Queue[i].urb.length
            /\ \A j \in 1 .. Len(Queue[i].data) : Queue[i].data[j] = off[i - 1] + j
            /\ Queue[i].data # <<>> => off[i - 1] <= Queue[i].urb.at
  BY <1>11 DEF Runs
<1> HIDE DEF m, w, n
<1>13. ASSUME c > 0
       PROVE  /\ \A i \in 1 .. Len(pending') : received' <= pending'[i].at
              /\ lock = "submit" /\ next <= Len(Pieces) => received' <= Pieces[next].at
              /\ received' <= transfer.length
  <2>1. 1 \in 1 .. w
    BY <1>1, <1>7, <1>13
  <2>2. PICK a \in 1 .. n : new[1].urb = pending[a]
    BY <1>7, <2>1
  <2>3. PICK k \in 1 .. Len(Pieces) : k = pending[a].index
    BY <1>8
  <2>4. k < next /\ new[1].urb = Pieces[k] /\ received <= Pieces[k].at
    BY <1>5, <1>8, <2>2, <2>3
  <2>5. c <= Pieces[k].length
    BY <1>9, <2>1, <2>4
  <2>6. received' <= Pieces[k].at + Pieces[k].length
    BY <1>2, <1>5, <1>6, <2>4, <2>5
  <2>7. Pieces[k].at + Pieces[k].length <= transfer.length
    BY <1>6, Nested
  <2>8. \A j \in 1 .. Len(Pieces) : k < j => Pieces[k].at + Pieces[k].length <= Pieces[j].at
    BY Nested
  <2>9. received' \in Nat
    BY <1>2, <1>5
  <2>10. \A j \in 1 .. Len(Pieces) : k < j => received' <= Pieces[j].at
    BY <1>6, <2>6, <2>8, <2>9
  <2>11. ASSUME NEW i \in 1 .. Len(pending') PROVE received' <= pending'[i].at
    <3>1. PICK b \in 1 .. n : pending'[i] = pending[b]
      BY <1>7
    <3>2. k < pending[b].index
      BY <1>7, <1>13, <2>2, <2>3, <3>1
    <3>3. pending[b].index \in 1 .. Len(Pieces) /\ pending'[i] = Pieces[pending[b].index]
      BY <1>8, <3>1
    <3> QED
      BY <2>10, <3>2, <3>3
  <2>12. next <= Len(Pieces) => next \in 1 .. Len(Pieces)
    BY <1>6, <2>4
  <2>13. received' <= transfer.length
    BY <1>6, <2>6, <2>7, <2>9
  <2> QED
    BY <2>4, <2>10, <2>11, <2>12, <2>13
<1>14. ASSUME ~(c > 0)
       PROVE  /\ \A i \in 1 .. Len(pending') : received' <= pending'[i].at
              /\ lock = "submit" /\ next <= Len(Pieces) => received' <= Pieces[next].at
              /\ received' <= transfer.length
  <2>1. received' = received
    BY <1>2, <1>5, <1>14
  <2> QED
    BY <1>5, <1>7, <2>1
<1> DEFINE g == [i \in 0 .. m + w |-> IF i <= m THEN off[i] ELSE received']
<1>15. /\ g \in [0 .. m + w -> 0 .. received']
       /\ \A i \in 0 .. m : g[i] = off[i]
       /\ \A i \in 1 .. w : g[m + i] = received'
  <2>1. \A i \in 0 .. m : off[i] \in 0 .. received'
    BY <1>2, <1>5, <1>11
  <2>2. received' \in 0 .. received'
    BY <1>2, <1>5
  <2>3. \A i \in 0 .. m + w : i <= m => i \in 0 .. m
    BY <1>1
  <2>4. \A i \in 0 .. m : i \in 0 .. m + w /\ i <= m
    BY <1>1
  <2>5. \A i \in 1 .. w : m + i \in 0 .. m + w /\ ~(m + i <= m)
    BY <1>1
  <2> QED
    BY <2>1, <2>2, <2>3, <2>4, <2>5
<1> HIDE DEF g
<1>16. ASSUME NEW k \in 1 .. w
       PROVE  /\ g[m + k] = g[m + k - 1] + Len(new[k].data)
              /\ Len(new[k].data) <= new[k].urb.length
              /\ \A j \in 1 .. Len(new[k].data) : new[k].data[j] = g[m + k - 1] + j
              /\ new[k].data # <<>> => g[m + k - 1] <= new[k].urb.at
  <2>1. new[k] \in Entry
    BY ArrivesQueue DEF w
  <2>2. new[k].data \in Seq(Nat)
    BY <2>1 DEF Entry
  <2>3. CASE k = 1
    <3>1. m + k - 1 = m /\ m \in 0 .. m
      BY <1>1, <2>3
    <3>2. g[m + k - 1] = received /\ g[m + k] = received'
      BY <1>12, <1>15, <3>1
    <3>3. PICK a \in 1 .. n : new[k].urb = pending[a]
      BY <1>7
    <3> QED
      BY <1>2, <1>5, <1>9, <2>3, <3>2, <3>3
  <2>4. CASE k # 1
    <3>1. k - 1 \in 1 .. w /\ m + k - 1 = m + (k - 1)
      BY <1>1, <2>4
    <3>2. g[m + k - 1] = received' /\ g[m + k] = received'
      BY <1>15, <3>1
    <3>3. Len(new[k].data) = 0 /\ new[k].data = <<>>
      BY <1>9, <2>2, <2>4
    <3> QED
      BY <1>2, <1>5, <1>9, <3>2, <3>3
  <2> QED
    BY <2>3, <2>4
<1>17. ASSUME NEW i \in 1 .. m
       PROVE  /\ g[i] = g[i - 1] + Len(Queue[i].data)
              /\ \A j \in 1 .. Len(Queue[i].data) : Queue[i].data[j] = g[i - 1] + j
              /\ Queue[i].data # <<>> => g[i - 1] <= Queue[i].urb.at
  <2>1. i \in 0 .. m /\ i - 1 \in 0 .. m
    BY <1>1
  <2>2. g[i] = off[i] /\ g[i - 1] = off[i - 1]
    BY <1>15, <2>1
  <2> QED
    BY <1>12, <2>2
<1>18. g[0] = transferred /\ g[m + w] = received'
  <2>1. 0 \in 0 .. m /\ m \in 0 .. m
    BY <1>1
  <2>2. CASE w = 0
    <3>1. m + w = m /\ received' = received
      BY <1>1, <1>2, <1>5, <1>10, <2>2
    <3> QED
      BY <1>12, <1>15, <2>1, <3>1
  <2>3. CASE w # 0
    <3>1. w \in 1 .. w
      BY <1>1, <2>3
    <3> QED
      BY <1>12, <1>15, <2>1, <3>1
  <2> QED
    BY <2>2, <2>3
<1>19. PICK h \in [0 .. m + w -> 0 .. received'] : h = g
  BY <1>15
<1>20. ASSUME NEW i \in 1 .. m + w
       PROVE  /\ h[i] = h[i - 1] + Len(Queue'[i].data)
              /\ Len(Queue'[i].data) <= Queue'[i].urb.length
              /\ \A j \in 1 .. Len(Queue'[i].data) : Queue'[i].data[j] = h[i - 1] + j
              /\ Queue'[i].data # <<>> => h[i - 1] <= Queue'[i].urb.at
  <2>1. CASE i \in 1 .. m
    <3>1. Queue'[i] = Queue[i]
      BY <1>1, <2>1
    <3>2. /\ h[i] = h[i - 1] + Len(Queue[i].data)
          /\ Len(Queue[i].data) <= Queue[i].urb.length
          /\ \A j \in 1 .. Len(Queue[i].data) : Queue[i].data[j] = h[i - 1] + j
          /\ Queue[i].data # <<>> => h[i - 1] <= Queue[i].urb.at
      BY <1>12, <1>17, <1>19, <2>1
    <3> QED
      BY <3>1, <3>2
  <2>2. CASE i \notin 1 .. m
    <3>1. PICK k \in 1 .. w : i = m + k
      BY <1>1, <2>2
    <3>2. Queue'[i] = new[k]
      BY <1>1, <3>1
    <3>3. /\ h[i] = h[i - 1] + Len(new[k].data)
          /\ Len(new[k].data) <= new[k].urb.length
          /\ \A j \in 1 .. Len(new[k].data) : new[k].data[j] = h[i - 1] + j
          /\ new[k].data # <<>> => h[i - 1] <= new[k].urb.at
      <4>0. i - 1 = m + k - 1
        BY <1>1, <3>1
      <4>1. h[i] = g[m + k] /\ h[i - 1] = g[m + k - 1]
        BY <1>19, <3>1, <4>0
      <4>2. /\ g[m + k] = g[m + k - 1] + Len(new[k].data)
            /\ Len(new[k].data) <= new[k].urb.length
            /\ \A j \in 1 .. Len(new[k].data) : new[k].data[j] = g[m + k - 1] + j
            /\ new[k].data # <<>> => g[m + k - 1] <= new[k].urb.at
        BY <1>16
      <4> QED
        BY <4>1, <4>2
    <3> QED
      BY <3>2, <3>3
  <2> QED
    BY <2>1, <2>2
<1>21. Runs(h)'
  BY <1>1, <1>2, <1>18, <1>19, <1>20 DEF Runs
<1> QED
  BY <1>1, <1>13, <1>14, <1>21

LEMMA ArrivesStopped ==
    ASSUME UsbfsInv, NEW new, NEW c, Arrives(new, c), Filled(new, c)
    PROVE  Stopped' /\ Aligned'
<1> DEFINE m == Len(Queue)
           w == Len(new)
<1>1. /\ m \in Nat /\ w \in Nat /\ Len(Queue') = m + w
      /\ \A i \in 1 .. m : Queue'[i] = Queue[i]
      /\ \A i \in 1 .. w : Queue'[m + i] = new[i]
      /\ \A i \in 1 .. Len(Queue') : i \in 1 .. m \/ \E k \in 1 .. w : i = m + k
  BY ArrivesQueue
<1>2. UNCHANGED <<transfer, transferred, tpriv>> /\ (Dry => Dry')
  BY DEF Arrives, user
<1>3. Pieces' = Pieces /\ Iso' = Iso /\ Normal' = Normal
  BY <1>2, SameTransfer DEF Normal, Alive
<1>4. ~Iso => \A i \in 1 .. w :
        /\ Dry => Idler(new[i])
        /\ new[i].status \in Stops =>
             Dry' /\ \A j \in 1 .. w : j > i => Idler(new[j])
        /\ new[i].status = "short" => "SHORT_NOT_OK" \in new[i].urb.flags /\ ~transfer.out
        /\ new[i].status = "ok" /\ transfer.out => Len(new[i].data) = new[i].urb.length
  BY DEF Filled
<1> HIDE DEF m, w
<1>5. Stopped'
  <2>1. SUFFICES ASSUME ~Iso, NEW i \in 1 .. m + w
                 PROVE  /\ Queue'[i].status \in Stops =>
                             Dry' /\ \A j \in 1 .. m + w : j > i => Idler(Queue'[j])
                        /\ Queue'[i].status = "short" =>
                             "SHORT_NOT_OK" \in Queue'[i].urb.flags /\ ~transfer.out
                        /\ Queue'[i].status = "ok" /\ transfer.out =>
                             Len(Queue'[i].data) = Queue'[i].urb.length
    BY <1>1, <1>2, <1>3 DEF Stopped, Idler
  <2>2. CASE i \in 1 .. m
    <3>1. /\ Queue[i].status \in Stops =>
               Dry /\ \A j \in 1 .. m : j > i => Idler(Queue[j])
          /\ Queue[i].status = "short" =>
               "SHORT_NOT_OK" \in Queue[i].urb.flags /\ ~transfer.out
          /\ Queue[i].status = "ok" /\ transfer.out =>
               Len(Queue[i].data) = Queue[i].urb.length
      BY <2>1, <2>2 DEF UsbfsInv, Stopped, m
    <3>2. Queue'[i] = Queue[i]
      BY <1>1, <2>2
    <3>3. ASSUME Dry, NEW j \in 1 .. m + w, j > i, \A l \in 1 .. m : l > i => Idler(Queue[l])
          PROVE  Idler(Queue'[j])
      <4>1. CASE j \in 1 .. m
        BY <1>1, <3>3, <4>1
      <4>2. CASE j \notin 1 .. m
        <5>1. PICK k \in 1 .. w : j = m + k
          BY <1>1, <4>2
        <5> QED
          BY <1>1, <1>4, <2>1, <3>3, <5>1
      <4> QED
        BY <4>1, <4>2
    <3> QED
      BY <1>2, <3>1, <3>2, <3>3
  <2>3. CASE i \notin 1 .. m
    <3>1. PICK k \in 1 .. w : i = m + k
      BY <1>1, <2>3
    <3>2. Queue'[i] = new[k]
      BY <1>1, <3>1
    <3>3. ASSUME new[k].status \in Stops, NEW j \in 1 .. m + w, j > i
          PROVE  Idler(Queue'[j])
      <4>1. j \notin 1 .. m
        BY <1>1, <3>1, <3>3
      <4>2. PICK l \in 1 .. w : j = m + l
        BY <1>1, <4>1
      <4>3. l > k
        BY <1>1, <3>1, <3>3, <4>2
      <4>4. Idler(new[l])
        BY <1>4, <2>1, <3>3, <4>3
      <4> QED
        BY <1>1, <4>2, <4>4
    <3> QED
      BY <1>4, <2>1, <3>2, <3>3
  <2> QED
    BY <2>2, <2>3
<1>6. Aligned'
  <2>1. SUFFICES ASSUME Normal, ~Iso, tpriv.reap_status # "completed"
                 PROVE  Dry' /\ \A i \in 1 .. m + w : Idler(Queue'[i])
    BY <1>1, <1>2, <1>3 DEF UsbfsInv, Aligned, Idler
  <2>2. Dry /\ \A i \in 1 .. m : Idler(Queue[i])
    BY <2>1 DEF UsbfsInv, Aligned, m
  <2>3. ASSUME NEW i \in 1 .. m + w PROVE Idler(Queue'[i])
    <3>1. CASE i \in 1 .. m
      BY <1>1, <2>2, <3>1
    <3>2. CASE i \notin 1 .. m
      <4>1. PICK k \in 1 .. w : i = m + k
        BY <1>1, <3>2
      <4> QED
        BY <1>1, <1>4, <2>1, <2>2, <4>1
    <3> QED
      BY <3>1, <3>2
  <2> QED
    BY <1>2, <2>2, <2>3
<1> QED
  BY <1>5, <1>6

LEMMA ArrivesCounted ==
    ASSUME UsbfsInv, NEW new, NEW c, Arrives(new, c), Filled(new, c)
    PROVE  Counted' /\ Buffered' /\ Packets'
<1> DEFINE m == Len(Queue)
           w == Len(new)
<1>1. /\ m \in Nat /\ w \in Nat /\ Len(Queue') = m + w
      /\ Len(pending) \in Nat /\ Len(pending') \in Nat
      /\ \A i \in 1 .. m : Queue'[i] = Queue[i]
      /\ \A i \in 1 .. w : Queue'[m + i] = new[i]
      /\ \A i \in 1 .. Len(Queue') : i \in 1 .. m \/ \E k \in 1 .. w : i = m + k
  BY ArrivesQueue
<1>2. /\ UNCHANGED <<transfer, transferred, tpriv, lock, next, stage, reaping, buffer>>
      /\ Len(pending') + w = Len(pending)
  BY DEF Arrives, user
<1>3. Pieces' = Pieces /\ Iso' = Iso /\ Control' = Control /\ Normal' = Normal /\ Alive' = Alive
  BY <1>2, SameTransfer DEF Normal, Alive
<1> HIDE DEF w
<1>4. Counted'
  <2>1. Alive => tpriv.num_retired \in Nat /\ tpriv.num_retired + m + Len(pending) = next - 1
    BY DEF UsbfsInv, Counted, Types, Priv
  <2> HIDE DEF m
  <2>2. Alive => tpriv.num_retired + Len(Queue') + Len(pending') = next - 1
    <3>1. PICK a \in Nat : a = tpriv.num_retired
      BY DEF UsbfsInv, Types, Priv
    <3>2. PICK x \in Nat : x = Len(pending')
      BY <1>1
    <3>3. PICK y \in Nat : y = Len(pending)
      BY <1>1
    <3>4. x + w = y
      BY <1>2, <3>2, <3>3
    <3>5. a + (m + w) + x = a + m + y
      BY <1>1, <3>4
    <3> QED
      BY <1>1, <2>1, <3>1, <3>2, <3>3, <3>5
  <2>3. Counted
    BY DEF UsbfsInv
  <2> QED
    BY <1>2, <1>3, <2>2, <2>3 DEF Counted
<1>5. Buffered'
  BY <1>2, BufferedKept DEF UsbfsInv
<1>6. Packets'
  <2>1. SUFFICES ASSUME Iso
                 PROVE  \A i \in 1 .. m + w : PacketData(Queue'[i])
    BY <1>1, <1>2, <1>3 DEF UsbfsInv, Packets, PacketData
  <2>2. /\ \A i \in 1 .. m : PacketData(Queue[i])
        /\ \A i \in 1 .. w : PacketData(new[i])
    BY <2>1 DEF UsbfsInv, Packets, Filled, w
  <2> HIDE DEF m
  <2>3. ASSUME NEW i \in 1 .. m + w PROVE PacketData(Queue'[i])
    <3>1. CASE i \in 1 .. m
      BY <1>1, <2>2, <3>1 DEF m
    <3>2. CASE i \notin 1 .. m
      <4>1. PICK k \in 1 .. w : i = m + k
        BY <1>1, <3>2
      <4>2. Queue'[i] = new[k]
        BY <1>1, <4>1
      <4> QED
        BY <2>2, <4>2
    <3> QED
      BY <3>1, <3>2
  <2> QED
    BY <2>3
<1> QED
  BY <1>4, <1>5, <1>6

LEMMA CompleteTyped ==
    ASSUME NEW u \in Urb, NEW s \in Statuses, NEW n \in 0 .. u.length, received \in Nat
    PROVE  LET e == Complete(u, s, n)
           IN /\ e \in Entry /\ e.urb = u /\ e.status = s
              /\ Iso => PacketData(e)
              /\ ~Iso => /\ Len(e.data) = n /\ n <= u.length
                         /\ \A j \in 1 .. n : e.data[j] = received + j
              /\ n = 0 => ~HasData(e) /\ (~Iso => e.data = <<>>)
<1>1. u.at \in Nat /\ u.length \in Nat
  BY DEF Urb
<1> DEFINE one == [j \in 1 .. u.length |-> IF j <= n THEN u.at + j ELSE 0]
           two == [j \in 1 .. n |-> received + j]
           e == Complete(u, s, n)
<1>2. e = [urb |-> u, status |-> s, data |-> IF Iso THEN one ELSE two]
  BY DEF Complete
<1>3. one \in Seq(Nat) /\ Len(one) = u.length
  <2>1. \A j \in 1 .. u.length : (IF j <= n THEN u.at + j ELSE 0) \in Nat
    BY <1>1
  <2> QED
    BY <1>1, <2>1
<1>4. two \in Seq(Nat) /\ Len(two) = n
  <2>1. \A j \in 1 .. n : received + j \in Nat
    BY <1>1
  <2> QED
    BY <1>1, <2>1
<1>5. \A j \in 1 .. u.length : one[j] \in {0, u.at + j} /\ (n = 0 => one[j] = 0)
  BY <1>1
<1>6. \A j \in 1 .. n : two[j] = received + j
  BY <1>1
<1> HIDE DEF one, two, e
<1>7. e.urb = u /\ e.status = s /\ e.data = IF Iso THEN one ELSE two
  BY <1>2
<1>8. e \in Entry
  BY <1>2, <1>3, <1>4 DEF Entry
<1>9. Iso => PacketData(e)
  BY <1>3, <1>5, <1>7 DEF PacketData
<1>10. n = 0 => ~HasData(e)
  <2>1. CASE Iso
    BY <1>3, <1>5, <1>7, <2>1 DEF HasData
  <2>2. CASE ~Iso
    BY <1>1, <1>4, <1>7, <2>2 DEF HasData
  <2> QED
    BY <2>1, <2>2
<1>11. ~Iso /\ n = 0 => e.data = <<>>
  BY <1>4, <1>7
<1>12. ~Iso => Len(e.data) = n /\ \A j \in 1 .. n : e.data[j] = received + j
  BY <1>4, <1>6, <1>7
<1>13. n <= u.length
  BY <1>1
<1> QED
  BY <1>7, <1>8, <1>9, <1>10, <1>11, <1>12, <1>13 DEF e

(* The URBs us are complete: the first with status s and c units, the      *)
(* others without any.                                                     *)
Batch(us, s, r, c) ==
    [i \in 1 .. Len(us) |->
       Complete(us[i], IF i = 1 THEN s ELSE r, IF i = 1 THEN c ELSE 0)]

LEMMA BatchFilled ==
    ASSUME received \in Nat, NEW us \in Seq(Urb), us # <<>>,
           NEW s \in Statuses, NEW r \in {"killed", "gone"}, NEW c \in 0 .. us[1].length,
           Dry => s \in {"killed", "gone"} /\ c = 0,
           ~Iso /\ s \in Stops => Dry', r = "gone" => Dry',
           s = "short" => "SHORT_NOT_OK" \in us[1].flags /\ ~transfer.out,
           s = "ok" /\ transfer.out => c = us[1].length,
           NEW new, new = Batch(us, s, r, c)
    PROVE  /\ new \in Seq(Entry) /\ Len(new) = Len(us) /\ Len(new) \in Nat \ {0}
           /\ Filled(new, c)
           /\ \A i \in 1 .. Len(us) : /\ new[i].urb = us[i]
                                      /\ new[i].status = IF i = 1 THEN s ELSE r
           /\ c = 0 => \A i \in 1 .. Len(us) : ~HasData(new[i])
<1> DEFINE w == Len(us)
<1>1. w \in Nat \ {0} /\ \A i \in 1 .. w : us[i] \in Urb
  BY LenProperties, EmptySeq, ElementOfSeq
<1>2. new = [i \in 1 .. w |->
               Complete(us[i], IF i = 1 THEN s ELSE r, IF i = 1 THEN c ELSE 0)]
  BY DEF Batch
<1> HIDE DEF w
<1>3. ASSUME NEW i \in 1 .. w
      PROVE  LET x == IF i = 1 THEN s ELSE r
                 n == IF i = 1 THEN c ELSE 0
                 e == new[i]
             IN /\ e \in Entry /\ e.urb = us[i] /\ e.status = x
                /\ Iso => PacketData(e)
                /\ ~Iso => /\ Len(e.data) = n /\ n <= us[i].length
                           /\ \A j \in 1 .. n : e.data[j] = received + j
                /\ n = 0 => ~HasData(e) /\ (~Iso => e.data = <<>>)
  <2>1. PICK x \in Statuses : x = IF i = 1 THEN s ELSE r
    BY DEF Statuses
  <2>2. us[i] \in Urb /\ us[i].length \in Nat
    BY <1>1 DEF Urb
  <2>3. PICK n \in 0 .. us[i].length : n = IF i = 1 THEN c ELSE 0
    BY <2>2
  <2>4. new[i] = Complete(us[i], x, n)
    BY <1>2, <2>1, <2>3
  <2>5. /\ new[i] \in Entry /\ new[i].urb = us[i] /\ new[i].status = x
        /\ Iso => PacketData(new[i])
        /\ ~Iso => /\ Len(new[i].data) = n /\ n <= us[i].length
                   /\ \A j \in 1 .. n : new[i].data[j] = received + j
        /\ n = 0 => ~HasData(new[i]) /\ (~Iso => new[i].data = <<>>)
    BY <2>2, <2>4, CompleteTyped
  <2> QED
    BY <2>1, <2>3, <2>5
<1>4. new \in Seq(Entry) /\ Len(new) = w
  BY <1>1, <1>2, <1>3
<1>5. ~Iso => \A i \in 1 .. w : i # 1 => Idler(new[i])
  BY <1>3 DEF Idler
<1>6. 1 \in 1 .. w
  BY <1>1
<1>7. Filled(new, c)
  <2>1. ASSUME NEW i \in 1 .. w, ~Iso
        PROVE  /\ Len(new[i].data) = IF i = 1 THEN c ELSE 0
               /\ Len(new[i].data) <= new[i].urb.length
               /\ \A j \in 1 .. Len(new[i].data) : new[i].data[j] = received + j
    BY <1>3, <2>1
  <2>2. ASSUME NEW i \in 1 .. w, ~Iso, Dry
        PROVE  Idler(new[i])
    BY <1>3, <2>2 DEF Idler
  <2>3. ASSUME NEW i \in 1 .. w, ~Iso, new[i].status \in Stops
        PROVE  Dry' /\ \A j \in 1 .. w : j > i => Idler(new[j])
    <3>1. \A j \in 1 .. w : j > i => j # 1
      BY <1>1
    <3>2. Dry'
      BY <1>3, <2>3 DEF Stops
    <3> QED
      BY <1>5, <2>3, <3>1, <3>2
  <2>4. ASSUME NEW i \in 1 .. w, new[i].status = "short"
        PROVE  "SHORT_NOT_OK" \in new[i].urb.flags /\ ~transfer.out
    BY <1>3, <2>4
  <2>5. ASSUME NEW i \in 1 .. w, ~Iso, new[i].status = "ok", transfer.out
        PROVE  Len(new[i].data) = new[i].urb.length
    BY <1>3, <2>5
  <2>6. \A i \in 1 .. w : Iso => PacketData(new[i])
    BY <1>3
  <2> QED
    BY <1>1, <1>4, <2>1, <2>2, <2>3, <2>4, <2>5, <2>6 DEF Filled
<1>8. c = 0 => \A i \in 1 .. w : ~HasData(new[i])
  BY <1>3
<1> QED
  BY <1>1, <1>3, <1>4, <1>7, <1>8 DEF w

(* Every URB comes back.                                                   *)
LEMMA AllSorted ==
    ASSUME UsbfsInv, NEW new, NEW c, pending' = <<>>, Len(new) = Len(pending), Len(new) > 0,
           \A i \in 1 .. Len(pending) : new[i].urb = pending[i]
    PROVE  Sorted(new, c)
<1>1. Len(pending) \in Nat /\ \A i \in 1 .. Len(pending) : pending[i].index \in Nat
  BY TypedQueue DEF UsbfsInv
<1>2. \A i, j \in 1 .. Len(pending) : i < j => pending[i].index < pending[j].index
  BY DEF UsbfsInv, Placed
<1>3. ASSUME NEW i \in 1 .. Len(pending), NEW j \in 1 .. Len(pending),
             pending[i].index = pending[j].index
      PROVE  i = j
  <2>1. ~(i < j) /\ ~(j < i)
    BY <1>1, <1>2, <1>3
  <2> QED
    BY <1>1, <2>1
<1>4. Len(pending') = 0 /\ \A i \in 1 .. Len(pending') : FALSE
  OBVIOUS
<1> QED
  BY <1>3, <1>4 DEF Sorted

(* One URB comes back.                                                     *)
LEMMA OneSorted ==
    ASSUME UsbfsInv, NEW new, NEW c, NEW x \in 1 .. Len(pending),
           Len(pending') = Len(pending) - 1,
           \A k \in 1 .. Len(pending) - 1 :
             pending'[k] = pending[IF k < x THEN k ELSE k + 1],
           Len(new) = 1, new[1].urb = pending[x], c > 0 => x = 1
    PROVE  Sorted(new, c)
<1> DEFINE n == Len(pending)
           f(k) == IF k < x THEN k ELSE k + 1
<1>1. n \in Nat /\ \A i \in 1 .. n : pending[i].index \in Nat
  BY TypedQueue DEF UsbfsInv
<1>2. \A i, j \in 1 .. n : i < j => pending[i].index < pending[j].index
  BY DEF UsbfsInv, Placed
<1> HIDE DEF n
<1>3. /\ x \in 1 .. n /\ Len(pending') = n - 1
      /\ \A k \in 1 .. n - 1 : pending'[k] = pending[f(k)]
  BY DEF n
<1>4. \A k \in 1 .. n - 1 : f(k) \in 1 .. n /\ f(k) # x /\ (x = 1 => x < f(k))
  BY <1>1, <1>3
<1>5. \A i, j \in 1 .. n - 1 : i < j => f(i) < f(j)
  BY <1>1, <1>3
<1> HIDE DEF f
<1>6. ASSUME NEW i \in 1 .. n - 1, NEW j \in 1 .. n - 1, i < j
      PROVE  pending'[i].index < pending'[j].index
  BY <1>2, <1>3, <1>4, <1>5, <1>6
<1>7. ASSUME NEW i \in 1 .. n - 1
      PROVE  /\ pending'[i].index # pending[x].index
             /\ x = 1 => pending[x].index < pending'[i].index
  <2>1. f(i) \in 1 .. n /\ f(i) # x /\ pending'[i] = pending[f(i)]
    BY <1>3, <1>4
  <2>2. f(i) < x \/ x < f(i)
    BY <1>1, <1>3, <2>1
  <2>3. pending[f(i)].index < pending[x].index \/ pending[x].index < pending[f(i)].index
    BY <1>2, <1>3, <2>1, <2>2
  <2>4. x = 1 => pending[x].index < pending[f(i)].index
    BY <1>2, <1>3, <1>4, <2>1
  <2>5. pending[f(i)].index \in Nat /\ pending[x].index \in Nat
    BY <1>1, <1>3, <2>1
  <2> QED
    BY <2>1, <2>3, <2>4, <2>5
<1>8. \A i \in 1 .. n - 1 : \E k \in 1 .. n : pending'[i] = pending[k]
  BY <1>3, <1>4
<1>9. \A i \in 1 .. Len(new) : i = 1
  OBVIOUS
<1> QED
  BY <1>3, <1>6, <1>7, <1>8, <1>9 DEF Sorted, n

(* What the proofs of the three steps share.                               *)
LEMMA ArrivesInv ==
    ASSUME UsbfsInv, NEW new, NEW c, Arrives(new, c), Sorted(new, c), Filled(new, c),
           transfer \in Transfers
    PROVE  /\ Placed' /\ Counted' /\ Stream' /\ Buffered' /\ Stopped' /\ Aligned' /\ Packets'
           /\ Pieces' = Pieces /\ Iso' = Iso /\ Bulk' = Bulk /\ Normal' = Normal
           /\ Alive' = Alive
<1>1. UNCHANGED <<transfer, tpriv>>
  BY DEF Arrives, user
<1>2. /\ Pieces' = Pieces /\ Iso' = Iso /\ Bulk' = Bulk /\ Normal' = Normal
      /\ Alive' = Alive
  BY <1>1, SameTransfer DEF Normal, Alive
<1> QED
  BY <1>2, ArrivesPlaced, ArrivesStream, ArrivesStopped, ArrivesCounted

(* With URBs at the kernel there is a transfer, and some were submitted.   *)
LEMMA PendingFacts ==
    ASSUME UsbfsInv, pending # <<>>
    PROVE  /\ transfer \in Transfers /\ stage # "idle" /\ next > 1 /\ next \in Nat
           /\ device = "attached" /\ Len(pending) \in Nat \ {0} /\ 1 \in 1 .. Len(pending)
           /\ \A i \in 1 .. Len(pending) :
                /\ pending[i] \in Urb /\ pending[i].length \in Nat
                /\ pending[i].index \in 1 .. Len(Pieces)
                /\ pending[i] = Pieces[pending[i].index]
           /\ Len(Pieces) \in Nat /\ received \in Nat /\ tpriv.num_retired \in Nat
<1>1. Types /\ Flow
  BY DEF UsbfsInv
<1>2. /\ pending \in Seq(Urb) /\ Len(pending) \in Nat
      /\ \A i \in 1 .. Len(pending) : pending[i] \in Urb /\ pending[i].length \in Nat
  BY <1>1, TypedQueue
<1>3. Len(pending) \in Nat \ {0} /\ 1 \in 1 .. Len(pending)
  BY <1>2, EmptySeq
<1>4. stage # "idle" /\ transfer \in Transfers /\ device = "attached"
  BY <1>1 DEF Flow, Fresh
<1>5. \A i \in 1 .. Len(pending) : Piece(pending[i])
  BY DEF UsbfsInv, Placed
<1>6. next > 1 /\ next \in Nat
  <2>1. pending[1].index \in 1 .. Len(Pieces) /\ pending[1].index < next
    BY <1>3, <1>5 DEF Piece
  <2>2. next \in Nat
    BY <1>1 DEF Types
  <2> QED
    BY <2>1, <2>2
<1>7. received \in Nat /\ tpriv.num_retired \in Nat /\ Len(Pieces) \in Nat
  BY <1>1, <1>4, Whole DEF Types, Priv
<1> QED
  BY <1>2, <1>3, <1>4, <1>5, <1>6, <1>7 DEF Piece

(* URBs complete from the first.                                           *)
LEMMA ArrivesInOrder ==
    ASSUME UsbfsInv, NEW new, NEW c, Arrives(new, c), UNCHANGED discard, pending # <<>>,
           \A i \in 1 .. Len(new) : i \in 1 .. Len(pending) /\ new[i].urb = pending[i],
           \A i \in 1 .. Len(pending') :
             Len(new) + i \in 1 .. Len(pending) /\ pending'[i] = pending[Len(new) + i],
           faults > 0 => faults' > 0,
           faults' > 0 => faults > 0 \/ \E i \in 1 .. Len(new) : new[i].status \in Failed,
           transfer.out => \A i \in 1 .. Len(new) : new[i].status = "killed" => faults' > 0
    PROVE  InOrder' /\ Untouched'
<1> DEFINE m == Len(Queue)
           w == Len(new)
           n == Len(pending)
           k == tpriv.num_retired
<1>1. /\ m \in Nat /\ w \in Nat /\ Len(Queue') = m + w /\ n \in Nat /\ Len(pending') \in Nat
      /\ \A i \in 1 .. m : Queue'[i] = Queue[i]
      /\ \A i \in 1 .. w : Queue'[m + i] = new[i]
      /\ \A i \in 1 .. Len(Queue') : i \in 1 .. m \/ \E j \in 1 .. w : i = m + j
  BY ArrivesQueue
<1>2. UNCHANGED <<transfer, tpriv, lock, cancel, stage>> /\ Len(pending') + w = n
  BY DEF Arrives, user
<1>3. /\ Pieces' = Pieces /\ Iso' = Iso /\ Bulk' = Bulk /\ Normal' = Normal
      /\ Clear' = Clear
  BY <1>2, SameTransfer DEF Normal, Alive, Clear, Iso
<1>4. k \in Nat
  BY PendingFacts
<1>5. \A e : (Cut(e)' <=> Cut(e)) /\ (HasData(e)' <=> HasData(e))
  BY <1>3 DEF Cut, HasData
<1>6. /\ \A i \in 1 .. w : i \in 1 .. n /\ new[i].urb = pending[i]
      /\ \A i \in 1 .. Len(pending') : w + i \in 1 .. n /\ pending'[i] = pending[w + i]
  OBVIOUS
<1>7. \A i \in 1 .. m : i \in 1 .. m + w
  BY <1>1
<1> HIDE DEF m, w, n, k
<1>8. ASSUME \A i \in 1 .. n : pending[i].index = k + m + i
      PROVE  /\ \A i \in 1 .. w : new[i].urb.index = k + (m + i)
             /\ \A i \in 1 .. Len(pending') : pending'[i].index = k + (m + w) + i
  <2>1. ASSUME NEW i \in 1 .. w PROVE new[i].urb.index = k + (m + i)
    <3>1. pending[i].index = k + m + i
      BY <1>6, <1>8
    <3>2. k + m + i = k + (m + i)
      BY <1>1, <1>4
    <3> QED
      BY <1>6, <3>1, <3>2
  <2>2. ASSUME NEW i \in 1 .. Len(pending') PROVE pending'[i].index = k + (m + w) + i
    <3>1. pending'[i].index = k + m + (w + i)
      BY <1>6, <1>8
    <3>2. k + m + (w + i) = k + (m + w) + i
      BY <1>1, <1>4
    <3> QED
      BY <3>1, <3>2
  <2> QED
    BY <2>1, <2>2
<1>9. InOrder'
  <2>1. SUFFICES ASSUME Normal
                 PROVE  /\ \A i \in 1 .. m + w :
                             \/ Queue'[i].urb.index = k + i
                             \/ \E j \in 1 .. m + w : j < i /\ Cut(Queue'[j])
                             \/ Cut(Queue'[i]) /\ ~HasData(Queue'[i])
                        /\ \/ \E i \in 1 .. m + w : Cut(Queue'[i])
                           \/ \A i \in 1 .. Len(pending') : pending'[i].index = k + (m + w) + i
                        /\ lock \in {"reap", "cancel"} /\ discard.next < discard.last =>
                             \E i \in 1 .. m + w : Cut(Queue'[i])
    BY <1>1, <1>2, <1>3, <1>5 DEF InOrder, CutShort, k
  <2>2. /\ \A i \in 1 .. m :
             \/ Queue[i].urb.index = k + i
             \/ \E j \in 1 .. m : j < i /\ Cut(Queue[j])
             \/ Cut(Queue[i]) /\ ~HasData(Queue[i])
        /\ CutShort \/ \A i \in 1 .. n : pending[i].index = k + m + i
        /\ lock \in {"reap", "cancel"} /\ discard.next < discard.last => CutShort
    BY <2>1 DEF UsbfsInv, InOrder, k, m, n
  <2>3. ASSUME NEW i \in 1 .. m
        PROVE  \/ Queue'[i].urb.index = k + i
               \/ \E j \in 1 .. m + w : j < i /\ Cut(Queue'[j])
               \/ Cut(Queue'[i]) /\ ~HasData(Queue'[i])
    <3>1. Queue'[i] = Queue[i] /\ \A j \in 1 .. m : Queue'[j] = Queue[j]
      BY <1>1
    <3> QED
      BY <1>7, <2>2, <3>1
  <2>4. CASE CutShort
    <3>1. PICK j \in 1 .. m : Cut(Queue[j])
      BY <2>4 DEF CutShort, m
    <3>2. Cut(Queue'[j]) /\ j \in 1 .. m + w
      BY <1>1, <1>7, <3>1
    <3>3. ASSUME NEW i \in 1 .. m + w, i \notin 1 .. m PROVE j < i
      BY <1>1, <3>3
    <3> QED
      BY <2>3, <3>2, <3>3
  <2>5. CASE ~CutShort
    <3>1. /\ \A i \in 1 .. w : new[i].urb.index = k + (m + i)
          /\ \A i \in 1 .. Len(pending') : pending'[i].index = k + (m + w) + i
      BY <1>8, <2>2, <2>5
    <3>2. ASSUME NEW i \in 1 .. m + w, i \notin 1 .. m PROVE Queue'[i].urb.index = k + i
      <4>1. PICK j \in 1 .. w : i = m + j
        BY <1>1, <3>2
      <4>2. Queue'[i] = new[j]
        BY <1>1, <4>1
      <4> QED
        BY <3>1, <4>1, <4>2
    <3> QED
      BY <2>2, <2>3, <2>5, <3>1, <3>2
  <2> QED
    BY <2>4, <2>5
<1>10. Untouched'
  <2>1. Untouched
    BY DEF UsbfsInv
  <2>2. SUFFICES ASSUME Clear
                 PROVE  /\ \A i \in 1 .. m + w : Queue'[i].urb.index = k + i
                        /\ \A i \in 1 .. Len(pending') : pending'[i].index = k + (m + w) + i
                        /\ ~(lock = "cancel" /\ discard.next < discard.last)
                        /\ faults' > 0 => \E i \in 1 .. m + w : Queue'[i].status \in Failed
                        /\ transfer.out => \A i \in 1 .. m + w :
                                             Queue'[i].status = "killed" => faults' > 0
    BY <1>1, <1>2, <1>3, <2>1 DEF Untouched, k
  <2>3. /\ \A i \in 1 .. m : Queue[i].urb.index = k + i
        /\ \A i \in 1 .. n : pending[i].index = k + m + i
        /\ ~(lock = "cancel" /\ discard.next < discard.last)
        /\ faults > 0 => \E i \in 1 .. m : Queue[i].status \in Failed
        /\ transfer.out => \A i \in 1 .. m : Queue[i].status = "killed" => faults > 0
    BY <2>1, <2>2 DEF Untouched, k, m, n
  <2>4. /\ \A i \in 1 .. w : new[i].urb.index = k + (m + i)
        /\ \A i \in 1 .. Len(pending') : pending'[i].index = k + (m + w) + i
    BY <1>8, <2>3
  <2>5. ASSUME NEW i \in 1 .. m + w
        PROVE  /\ Queue'[i].urb.index = k + i
               /\ transfer.out => (Queue'[i].status = "killed" => faults' > 0)
    <3>1. CASE i \in 1 .. m
      BY <1>1, <2>3, <3>1
    <3>2. CASE i \notin 1 .. m
      <4>1. PICK j \in 1 .. w : i = m + j
        BY <1>1, <3>2
      <4>2. Queue'[i] = new[j]
        BY <1>1, <4>1
      <4>3. transfer.out => (new[j].status = "killed" => faults' > 0)
        BY DEF w
      <4> QED
        BY <2>4, <4>1, <4>2, <4>3
    <3> QED
      BY <3>1, <3>2
  <2>6. ASSUME faults' > 0 PROVE \E i \in 1 .. m + w : Queue'[i].status \in Failed
    <3>1. CASE faults > 0
      BY <1>1, <1>7, <2>3, <3>1
    <3>2. CASE \E i \in 1 .. w : new[i].status \in Failed
      <4>1. PICK i \in 1 .. w : new[i].status \in Failed
        BY <3>2
      <4>2. m + i \in 1 .. m + w /\ Queue'[m + i] = new[i]
        BY <1>1
      <4> QED
        BY <4>1, <4>2
    <3> QED
      BY <2>6, <3>1, <3>2 DEF w
  <2> QED
    BY <2>3, <2>4, <2>5, <2>6
<1> QED
  BY <1>9, <1>10

LEMMA ArrivesFlow ==
    ASSUME UsbfsInv, NEW new, NEW c, Arrives(new, c), stage # "idle",
           device' \in {"attached", "gone", "known"}, faults' \in Nat, discard' \in Loop,
           endpoint' \in {"ok", "halted", "disabled"},
           device' # "attached" => pending' = <<>>,
           device # "attached" => device' # "attached",
           endpoint' # "ok" => next > 1,
           endpoint' = "disabled" => Bulk /\ use_bulk_continuation(transfer),
           Discarding' => Discarding,
           lock \in {"reap", "cancel"} =>
             discard'.last = Len(Pieces) /\ discard'.next <= discard'.last,
           lock = "cancel" /\ discard'.next = discard'.last => discard'.ret = "success"
    PROVE  Types' /\ Flow'
<1>1. Types /\ Flow
  BY DEF UsbfsInv
<1>2. /\ new \in Seq(Entry) /\ completed' = completed \o new /\ pending' \in Seq(Urb)
      /\ c \in Nat /\ received' = received + c
      /\ UNCHANGED <<transfer, stage, outcome, transferred, buffer, disappeared>>
      /\ UNCHANGED <<tpriv, lock, next, reaping, ending, cancel>>
  BY DEF Arrives, user
<1>3. completed' \in Seq(Entry)
  BY <1>1, <1>2, ConcatProperties DEF Types
<1>4. received' \in Nat
  BY <1>1, <1>2 DEF Types
<1>5. Types'
  BY <1>1, <1>2, <1>3, <1>4 DEF Types
<1>6. Pieces' = Pieces /\ Bulk' = Bulk /\ Alive' = Alive
  BY <1>2, SameTransfer DEF Alive
<1>7. Flow'
  BY <1>1, <1>2, <1>6 DEF Flow, Over
<1> QED
  BY <1>5, <1>7

LEMMA DeviceGoneInv ==
    ASSUME UsbfsInv, DeviceGone
    PROVE  UsbfsInv'
<1> DEFINE new == [i \in DOMAIN pending |-> Complete(pending[i], "gone", 0)]
<1>1. /\ device = "attached" /\ device' = "gone" /\ pending' = <<>>
      /\ completed' = completed \o new
      /\ UNCHANGED <<endpoint, received, faults>>
      /\ UNCHANGED <<transfer, stage, outcome, transferred, buffer, disappeared>>
      /\ UNCHANGED <<tpriv, lock, next, discard, reaping, ending, cancel>>
  BY DEF DeviceGone, user, priv
<1>2. Types /\ Flow /\ Verdict
  BY DEF UsbfsInv
<1>3. Dry'
  BY <1>1 DEF Dry
<1>4. Discarding' = Discarding /\ Iso' = Iso /\ Alive' = Alive
  BY <1>1, SameTransfer DEF Discarding, Alive
<1>5. Verdict'
  BY <1>1, <1>2, <1>4 DEF Verdict
<1>6. CASE pending = <<>>
  <2>1. new = <<>>
    BY <1>6
  <2>2. completed' = completed
    BY <1>1, <1>2, <2>1, ConcatSimplifications DEF Types
  <2>3. Types'
    BY <1>1, <1>2, <2>2 DEF Types
  <2>4. Pieces' = Pieces /\ Bulk' = Bulk
    BY <1>1, SameTransfer
  <2>5. Flow'
    BY <1>1, <1>2, <1>4, <1>6, <2>2, <2>4 DEF Flow, Fresh, Over
  <2>6. Still
    BY <1>1, <1>3, <1>6, <2>2, <2>3, <2>5 DEF Still
  <2>7. Clear' => Clear
    BY <1>1, <1>4 DEF Clear, Normal
  <2> HIDE DEF new
  <2>8. /\ Placed' /\ Counted' /\ Stream' /\ Buffered' /\ Stopped'
        /\ InOrder' /\ Aligned' /\ Packets' /\ Untouched'
    BY <1>1, <1>4, <2>6, <2>7, StillInv
  <2> QED
    BY <1>5, <2>3, <2>5, <2>8 DEF UsbfsInv
<1>7. CASE pending # <<>>
  <2>1. /\ transfer \in Transfers /\ stage # "idle" /\ next > 1
        /\ Len(pending) \in Nat \ {0} /\ 1 \in 1 .. Len(pending) /\ received \in Nat
        /\ \A i \in 1 .. Len(pending) : pending[i] \in Urb /\ pending[i].length \in Nat
    BY <1>7, PendingFacts
  <2>2. pending \in Seq(Urb) /\ DOMAIN pending = 1 .. Len(pending)
    BY <1>2, LenProperties DEF Types
  <2>3. PICK b : b = Batch(pending, "gone", "gone", 0)
    OBVIOUS
  <2>4. b = new
    BY <2>2, <2>3 DEF Batch
  <2>5. 0 \in 0 .. pending[1].length
    BY <2>1
  <2>6. "gone" \in Statuses
    BY DEF Statuses
  <2>7. /\ b \in Seq(Entry) /\ Len(b) = Len(pending) /\ Filled(b, 0)
        /\ \A i \in 1 .. Len(pending) : b[i].urb = pending[i] /\ b[i].status = "gone"
    BY <1>3, <1>7, <2>1, <2>2, <2>3, <2>5, <2>6, BatchFilled
  <2> HIDE DEF new
  <2>8. Len(pending') = 0 /\ pending' \in Seq(Urb)
    BY <1>1
  <2>9. Arrives(b, 0)
    BY <1>1, <1>3, <2>1, <2>4, <2>7, <2>8 DEF Arrives, user
  <2>10. Sorted(b, 0)
    BY <1>1, <2>1, <2>7, AllSorted
  <2>11. /\ Placed' /\ Counted' /\ Stream' /\ Buffered' /\ Stopped' /\ Aligned' /\ Packets'
    BY <2>1, <2>7, <2>9, <2>10, ArrivesInv
  <2>12. InOrder' /\ Untouched'
    BY <1>1, <1>7, <2>7, <2>8, <2>9, ArrivesInOrder
  <2>13. Types' /\ Flow'
    BY <1>1, <1>2, <1>4, <2>1, <2>9, ArrivesFlow DEF Types, Flow
  <2> QED
    BY <1>5, <2>11, <2>12, <2>13 DEF UsbfsInv
<1> QED
  BY <1>6, <1>7

LEMMA AppendTail ==
    ASSUME NEW S, NEW a \in Seq(S), NEW b \in Seq(S), b # <<>>
    PROVE  Append(a, b[1]) \o Tail(b) = a \o b
<1> DEFINE x == Append(a, b[1])
           t == Tail(b)
<1>1. Len(a) \in Nat /\ Len(b) \in Nat \ {0} /\ b[1] \in S
  BY LenProperties, EmptySeq, ElementOfSeq
<1>2. x \in Seq(S) /\ Len(x) = Len(a) + 1 /\ x[Len(a) + 1] = b[1]
      /\ \A i \in 1 .. Len(a) : x[i] = a[i]
  BY <1>1, AppendProperties
<1>3. t \in Seq(S) /\ Len(t) = Len(b) - 1 /\ \A i \in 1 .. Len(b) - 1 : t[i] = b[i + 1]
  BY HeadTailProperties
<1> HIDE DEF x, t
<1>4. /\ x \o t \in Seq(S) /\ Len(x \o t) = Len(x) + Len(t)
      /\ \A i \in 1 .. Len(x) + Len(t) : (x \o t)[i] =
           IF i <= Len(x) THEN x[i] ELSE t[i - Len(x)]
  BY <1>2, <1>3, ConcatProperties
<1>5. /\ a \o b \in Seq(S) /\ Len(a \o b) = Len(a) + Len(b)
      /\ \A i \in 1 .. Len(a) + Len(b) : (a \o b)[i] =
           IF i <= Len(a) THEN a[i] ELSE b[i - Len(a)]
  BY ConcatProperties
<1>6. Len(x \o t) = Len(a \o b)
  BY <1>1, <1>2, <1>3, <1>4, <1>5
<1>7. ASSUME NEW i \in 1 .. Len(a) + Len(b) PROVE (x \o t)[i] = (a \o b)[i]
  <2>1. CASE i <= Len(a)
    BY <1>1, <1>2, <1>3, <1>4, <1>5, <2>1
  <2>2. CASE i = Len(a) + 1
    <3>1. i - Len(a) = 1
      BY <1>1, <2>2
    <3> QED
      BY <1>1, <1>2, <1>3, <1>4, <1>5, <2>2, <3>1
  <2>3. CASE i > Len(a) + 1
    <3>1. i - Len(x) \in 1 .. Len(b) - 1 /\ (i - Len(x)) + 1 = i - Len(a)
      BY <1>1, <1>2, <2>3
    <3>2. (x \o t)[i] = t[i - Len(x)]
      BY <1>1, <1>2, <1>3, <1>4, <2>3
    <3>3. (a \o b)[i] = b[i - Len(a)]
      BY <1>1, <1>5, <2>3
    <3> QED
      BY <1>3, <3>1, <3>2, <3>3
  <2>4. i <= Len(a) \/ i = Len(a) + 1 \/ i > Len(a) + 1
    BY <1>1
  <2> QED
    BY <2>1, <2>2, <2>3, <2>4
<1>8. x \o t = a \o b
  BY <1>4, <1>5, <1>6, <1>7, SeqEqual
<1> QED
  BY <1>8 DEF x, t

LEMMA FinishInv ==
    ASSUME UsbfsInv, device = "attached", endpoint = "ok", pending # <<>>,
           NEW s \in {"ok", "short", "stall", "overflow", "error"},
           NEW n \in 0 .. pending[1].length, Finish(pending[1], s, n),
           UNCHANGED <<device, user, priv>>,
           faults' = IF s \in Failed THEN faults + 1 ELSE faults,
           s = "short" => "SHORT_NOT_OK" \in pending[1].flags /\ ~transfer.out,
           s = "ok" /\ transfer.out => n = pending[1].length
    PROVE  UsbfsInv'
<1> DEFINE u == pending[1]
           stops == s # "ok" /\ ~Iso
           unlinks == stops /\ use_bulk_continuation(transfer) /\ Bulk
           us == IF unlinks THEN pending ELSE <<u>>
           b == Batch(us, s, "killed", n)
<1>1. /\ pending' = IF unlinks THEN <<>> ELSE Tail(pending)
      /\ endpoint' = IF unlinks THEN "disabled" ELSE IF stops THEN "halted" ELSE endpoint
      /\ received' = received + n
  BY DEF Finish
<1>2. /\ UNCHANGED <<transfer, stage, outcome, transferred, buffer, disappeared>>
      /\ UNCHANGED <<tpriv, lock, next, discard, reaping, ending, cancel, device>>
  BY DEF user, priv
<1>3. Types /\ Flow /\ Verdict
  BY DEF UsbfsInv
<1>4. /\ transfer \in Transfers /\ stage # "idle" /\ next > 1
      /\ Len(pending) \in Nat \ {0} /\ 1 \in 1 .. Len(pending) /\ received \in Nat
      /\ \A i \in 1 .. Len(pending) : pending[i] \in Urb /\ pending[i].length \in Nat
  BY PendingFacts
<1>5. /\ pending \in Seq(Urb) /\ DOMAIN pending = 1 .. Len(pending)
      /\ completed \in Seq(Entry)
  BY <1>3, LenProperties DEF Types
<1>6. us \in Seq(Urb) /\ us # <<>> /\ us[1] = u
  BY <1>4, <1>5
<1>7. /\ ~Dry /\ s \in Statuses /\ n \in Nat
  BY <1>4 DEF Dry, Statuses
<1>8. ~Iso /\ s \in Stops => Dry'
  <2>1. s \in Stops => s # "ok"
    BY DEF Stops
  <2> QED
    BY <1>1, <2>1 DEF Dry
<1> DEFINE w == Len(us)
<1>9. /\ b \in Seq(Entry) /\ Len(b) = w /\ Len(b) \in Nat \ {0} /\ Filled(b, n)
      /\ \A i \in 1 .. w : /\ b[i].urb = us[i]
                           /\ b[i].status = IF i = 1 THEN s ELSE "killed"
  <2>1. PICK bb : bb = b
    OBVIOUS
  <2> HIDE DEF us, stops, unlinks
  <2>2. /\ bb \in Seq(Entry) /\ Len(bb) = w /\ Len(bb) \in Nat \ {0} /\ Filled(bb, n)
        /\ \A i \in 1 .. w : /\ bb[i].urb = us[i]
                             /\ bb[i].status = IF i = 1 THEN s ELSE "killed"
    BY <1>4, <1>6, <1>7, <1>8, <2>1, BatchFilled
  <2> QED
    BY <2>1, <2>2
<1>10. b[1] = Complete(u, s, n) /\ \A i \in 1 .. w : i # 1 => b[i] = Complete(us[i], "killed", 0)
  <2> HIDE DEF us
  <2>1. 1 \in 1 .. w
    BY <1>9
  <2> QED
    BY <1>6, <2>1 DEF Batch
<1>11. completed' = completed \o b
  <2>0. /\ Tail(b) \in Seq(Entry) /\ Len(Tail(b)) = w - 1
        /\ \A i \in 1 .. w - 1 : Tail(b)[i] = b[i + 1]
        /\ b # <<>>
    <3> HIDE DEF b, w
    <3> QED
      BY <1>9, HeadTailProperties, EmptySeq
  <2>1. Append(completed, b[1]) \o Tail(b) = completed \o b
    <3> HIDE DEF b
    <3> QED
      BY <1>5, <1>9, <2>0, AppendTail
  <2>2. CASE unlinks
    <3> DEFINE r == Tail(pending)
               t == [i \in DOMAIN r |-> Complete(r[i], "killed", 0)]
    <3>1. completed' = Append(completed, Complete(u, s, n)) \o t
      BY <2>2 DEF Finish
    <3>2. /\ r \in Seq(Urb) /\ Len(r) = w - 1 /\ us = pending /\ w = Len(pending)
          /\ \A i \in 1 .. w - 1 : r[i] = us[i + 1]
      BY <1>5, <2>2, HeadTailProperties
    <3>3. DOMAIN r = 1 .. w - 1 /\ w \in Nat \ {0}
      BY <1>4, <3>2, LenProperties
    <3> HIDE DEF r, us, b
    <3>4. ASSUME NEW i \in 1 .. w - 1 PROVE Complete(r[i], "killed", 0) = b[i + 1]
      <4>1. i + 1 \in 1 .. w /\ i + 1 # 1
        BY <3>3
      <4> QED
        BY <1>10, <3>2, <4>1
    <3>5. \A i \in 1 .. w - 1 : b[i + 1] \in Entry
      BY <1>9, <2>0, ElementOfSeq
    <3> HIDE DEF w
    <3>6. t = [i \in 1 .. w - 1 |-> b[i + 1]]
      BY <3>3, <3>4
    <3>7. t \in Seq(Entry) /\ Len(t) = w - 1 /\ \A i \in 1 .. w - 1 : t[i] = b[i + 1]
      BY <3>3, <3>5, <3>6
    <3> HIDE DEF t
    <3>8. t = Tail(b)
      BY <2>0, <3>7, SeqEqual
    <3> QED
      BY <1>10, <2>1, <3>1, <3>8
  <2>3. CASE ~unlinks
    <3> DEFINE t == [i \in DOMAIN <<>> |-> Complete(<<>>[i], "killed", 0)]
    <3>1. completed' = Append(completed, Complete(u, s, n)) \o t
      BY <2>3 DEF Finish
    <3>2. t = <<>>
      OBVIOUS
    <3>3. w = 1
      BY <2>3
    <3> HIDE DEF b, w, t, us
    <3>4. Tail(b) \in Seq(Entry) /\ Len(Tail(b)) = 0
      BY <2>0, <3>3
    <3>5. PICK e \in Seq(Entry) : e = Tail(b) /\ Len(e) = 0
      BY <3>4
    <3>6. e = <<>>
      BY <3>5, EmptySeq
    <3> QED
      BY <1>10, <2>1, <3>1, <3>2, <3>5, <3>6
  <2> QED
    BY <2>2, <2>3
<1>12. Sorted(b, n)
  <2>1. CASE unlinks
    <3>1. us = pending /\ pending' = <<>>
      BY <1>1, <2>1
    <3> HIDE DEF b, us
    <3> QED
      BY <1>4, <1>9, <3>1, AllSorted
  <2>2. CASE ~unlinks
    <3>1. w = 1 /\ us[1] = pending[1]
      BY <2>2
    <3>2. /\ pending' = Tail(pending) /\ Len(pending') = Len(pending) - 1
          /\ \A k \in 1 .. Len(pending) - 1 : pending'[k] = pending[k + 1]
      BY <1>1, <1>5, <2>2, HeadTailProperties
    <3>3. \A k \in 1 .. Len(pending) - 1 : ~(k < 1)
      BY <1>4
    <3> HIDE DEF b, us, w
    <3>4. \A k \in 1 .. Len(pending) - 1 : pending'[k] = pending[IF k < 1 THEN k ELSE k + 1]
      BY <3>2, <3>3
    <3>5. Len(b) = 1 /\ b[1].urb = pending[1]
      BY <1>9, <3>1
    <3> QED
      BY <1>4, <3>2, <3>4, <3>5, OneSorted
  <2> QED
    BY <2>1, <2>2
<1>13. /\ Len(pending') + w = Len(pending) /\ pending' \in Seq(Urb) /\ Len(pending') \in Nat
       /\ \A i \in 1 .. w : i \in 1 .. Len(pending) /\ us[i] = pending[i]
       /\ \A i \in 1 .. Len(pending') :
            w + i \in 1 .. Len(pending) /\ pending'[i] = pending[w + i]
  <2>1. CASE unlinks
    <3>1. us = pending /\ pending' = <<>> /\ Len(pending') = 0
      BY <1>1, <2>1
    <3> QED
      BY <1>4, <1>5, <3>1
  <2>2. CASE ~unlinks
    <3>1. w = 1 /\ us[1] = pending[1]
      BY <2>2
    <3>2. /\ pending' = Tail(pending) /\ Len(pending') = Len(pending) - 1
          /\ \A k \in 1 .. Len(pending) - 1 : pending'[k] = pending[k + 1]
          /\ pending' \in Seq(Urb)
      BY <1>1, <1>5, <2>2, HeadTailProperties
    <3> HIDE DEF us, w
    <3>3. \A i \in 1 .. w : i = 1
      BY <3>1
    <3>4. \A i \in 1 .. Len(pending) - 1 : w + i \in 1 .. Len(pending) /\ w + i = i + 1
      BY <1>4, <3>1
    <3> QED
      BY <1>4, <3>1, <3>2, <3>3, <3>4
  <2> QED
    BY <2>1, <2>2
<1>14. faults \in Nat /\ faults' \in Nat /\ (s \in Failed => faults' > 0) /\ (faults > 0 => faults' > 0)
  BY <1>3 DEF Types
<1>15. transfer.out => \A i \in 1 .. w : b[i].status = "killed" => faults' > 0
  <2>1. SUFFICES ASSUME transfer.out, NEW i \in 1 .. w, b[i].status = "killed"
                 PROVE  faults' > 0
    OBVIOUS
  <2>2. i # 1
    <3> HIDE DEF b, w, us
    <3> QED
      BY <1>9, <2>1
  <2>3. unlinks
    BY <2>1, <2>2
  <2>4. s \in Failed
    BY <2>1, <2>3 DEF Failed
  <2> QED
    BY <1>14, <2>4
<1>16. endpoint' \in {"ok", "halted", "disabled"}
       /\ (endpoint' = "disabled" => Bulk /\ use_bulk_continuation(transfer))
  BY <1>1
<1> HIDE DEF b, us, w, unlinks, stops, u
<1>17. Arrives(b, n)
  BY <1>1, <1>2, <1>7, <1>9, <1>11, <1>13 DEF Arrives, user
<1>18. /\ Placed' /\ Counted' /\ Stream' /\ Buffered' /\ Stopped' /\ Aligned' /\ Packets'
       /\ Iso' = Iso
  BY <1>4, <1>9, <1>12, <1>17, ArrivesInv
<1>19. InOrder' /\ Untouched'
  <2>1. /\ \A i \in 1 .. Len(b) : i \in 1 .. Len(pending) /\ b[i].urb = pending[i]
        /\ \A i \in 1 .. Len(pending') :
             Len(b) + i \in 1 .. Len(pending) /\ pending'[i] = pending[Len(b) + i]
    BY <1>9, <1>13
  <2>2. faults' > 0 => faults > 0 \/ \E i \in 1 .. Len(b) : b[i].status \in Failed
    <3>1. 1 \in 1 .. Len(b) /\ b[1].status = s
      BY <1>9
    <3> QED
      BY <3>1
  <2>3. transfer.out => \A i \in 1 .. Len(b) : b[i].status = "killed" => faults' > 0
    BY <1>9, <1>15
  <2> QED
    BY <1>2, <1>14, <1>17, <2>1, <2>2, <2>3, ArrivesInOrder
<1>20. Types' /\ Flow'
  BY <1>2, <1>3, <1>4, <1>14, <1>16, <1>17, ArrivesFlow DEF Types, Flow, Discarding
<1>21. Verdict'
  BY <1>2, <1>3, <1>18 DEF Verdict, Alive
<1> QED
  BY <1>18, <1>19, <1>20, <1>21 DEF UsbfsInv

LEMMA UrbCompletesInv ==
    ASSUME UsbfsInv, UrbCompletes
    PROVE  UsbfsInv'
<1> DEFINE u == pending[1]
<1>1. device = "attached" /\ endpoint = "ok" /\ pending # <<>> /\ UNCHANGED <<device, user, priv>>
  BY DEF UrbCompletes
<1>2. Head(pending) = u /\ u.length \in Nat
  BY <1>1, PendingFacts
<1>3. \/ Finish(u, "ok", u.length) /\ UNCHANGED faults
      \/ /\ ~transfer.out
         /\ \E n \in 0 .. u.length - 1 :
              Finish(u, IF "SHORT_NOT_OK" \in u.flags THEN "short" ELSE "ok", n)
         /\ UNCHANGED faults
      \/ /\ faults' = faults + 1
         /\ \E s \in Failed, n \in 0 .. u.length - 1 : Finish(u, s, n)
  BY <1>2 DEF UrbCompletes, Fault, Failed
<1> HIDE DEF u
<1>4. CASE Finish(u, "ok", u.length) /\ UNCHANGED faults
  <2>1. u.length \in 0 .. u.length /\ "ok" \notin Failed
    BY <1>2 DEF Failed
  <2> QED
    BY <1>1, <1>4, <2>1, FinishInv DEF u
<1>5. ASSUME ~transfer.out, UNCHANGED faults, NEW n \in 0 .. u.length - 1,
             Finish(u, IF "SHORT_NOT_OK" \in u.flags THEN "short" ELSE "ok", n)
      PROVE  UsbfsInv'
  <2>1. n \in 0 .. u.length /\ "ok" \notin Failed /\ "short" \notin Failed
    BY <1>2 DEF Failed
  <2>2. CASE "SHORT_NOT_OK" \in u.flags
    BY <1>1, <1>5, <2>1, <2>2, FinishInv DEF u
  <2>3. CASE "SHORT_NOT_OK" \notin u.flags
    BY <1>1, <1>5, <2>1, <2>3, FinishInv DEF u
  <2> QED
    BY <2>2, <2>3
<1>6. ASSUME faults' = faults + 1, NEW s \in Failed, NEW n \in 0 .. u.length - 1, Finish(u, s, n)
      PROVE  UsbfsInv'
  <2>1. n \in 0 .. u.length /\ s \in {"ok", "short", "stall", "overflow", "error"}
        /\ s # "ok" /\ s # "short"
    BY <1>2 DEF Failed
  <2> QED
    BY <1>1, <1>6, <2>1, FinishInv DEF u
<1> QED
  BY <1>3, <1>4, <1>5, <1>6

(* discard_urbs takes the URBs from the last one on.                       *)
LEMMA DiscardFacts ==
    ASSUME UsbfsInv, DiscardUrb
    PROVE  /\ discard.next \in Int /\ discard.last \in Nat /\ discard.first \in Nat
           /\ discard' \in Loop /\ discard'.next = discard.next - 1
           /\ discard'.last = discard.last /\ discard'.first = discard.first
           /\ device # "attached" => discard'.ret = "no_device"
           /\ device = "attached" =>
                discard'.ret =
                  IF /\ \A i \in 1 .. Len(pending) : pending[i].index # discard.next
                     /\ discard.next = discard.last
                  THEN "not_found" ELSE discard.ret
           /\ Discarding /\ lock # "none" /\ stage # "idle" /\ transfer \in Transfers
           /\ Normal => lock \in {"reap", "cancel"}
           /\ lock \in {"reap", "cancel"} =>
                /\ discard.last = Len(Pieces) /\ discard.next <= discard.last
                /\ next = Len(Pieces) + 1
           /\ lock = "cancel" /\ discard.next = discard.last => discard.ret = "success"
           /\ ending = "none" /\ stage # "reported"
           /\ UNCHANGED <<transfer, stage, outcome, transferred, buffer, disappeared>>
           /\ UNCHANGED <<tpriv, lock, next, reaping, ending, cancel>>
           /\ UNCHANGED <<endpoint, device, faults>>
<1>1. Types /\ Flow
  BY DEF UsbfsInv
<1>2. pending \in Seq(Urb) /\ DOMAIN pending = 1 .. Len(pending)
  BY <1>1, LenProperties DEF Types
<1> DEFINE waiting == {i \in DOMAIN pending : pending[i].index = discard.next}
           ret == IF device # "attached" THEN "no_device"
                  ELSE IF waiting = {} /\ discard.next = discard.last THEN "not_found"
                  ELSE discard.ret
<1>3. /\ discard' = [discard EXCEPT !.next = @ - 1, !.ret = ret]
      /\ Discarding /\ lock # "none"
      /\ UNCHANGED <<transfer, stage, outcome, transferred, buffer, disappeared>>
      /\ UNCHANGED <<tpriv, lock, next, reaping, ending, cancel>>
      /\ UNCHANGED <<endpoint, device, faults>>
  BY DEF DiscardUrb, user
<1>4. waiting = {} <=> \A i \in 1 .. Len(pending) : pending[i].index # discard.next
  BY <1>2
<1>5. discard \in Loop /\ ret \in {"success", "not_found", "no_device"}
  BY <1>1 DEF Types, Loop
<1>6. /\ device # "attached" => ret = "no_device"
      /\ device = "attached" =>
           ret = IF /\ \A i \in 1 .. Len(pending) : pending[i].index # discard.next
                    /\ discard.next = discard.last
                 THEN "not_found" ELSE discard.ret
  BY <1>4
<1> HIDE DEF waiting, ret
<1>7. /\ discard.next \in Int /\ discard.last \in Nat /\ discard.first \in Nat
      /\ discard' \in Loop /\ discard'.next = discard.next - 1
      /\ discard'.last = discard.last /\ discard'.first = discard.first
      /\ discard'.ret = ret
  <2>1. PICK d \in Loop : d = discard
    BY <1>5
  <2>2. PICK r \in {"success", "not_found", "no_device"} : r = ret
    BY <1>5
  <2>3. PICK e : e = [d EXCEPT !.next = @ - 1, !.ret = r]
    OBVIOUS
  <2>4. e = discard'
    BY <1>3, <2>1, <2>2, <2>3
  <2>5. d.next \in Int /\ d.last \in Nat /\ d.first \in Nat
    BY DEF Loop
  <2>6. d.next - 1 \in Int
    BY <2>5
  <2>7. e.next = d.next - 1 /\ e.last = d.last /\ e.first = d.first /\ e.ret = r
    BY <2>3 DEF Loop
  <2>8. e \in Loop
    BY <2>3, <2>6 DEF Loop
  <2> QED
    BY <2>1, <2>2, <2>4, <2>5, <2>7, <2>8
<1>8. stage # "idle" /\ transfer \in Transfers
  BY <1>1, <1>3 DEF Flow, Fresh
<1>9. Normal => lock \in {"reap", "cancel"}
  <2>1. lock = "submit" => tpriv.reap_action # "normal"
    BY <1>1, <1>3 DEF Flow
  <2>2. lock \in {"none", "submit", "reap", "cancel"}
    BY <1>1 DEF Types
  <2> QED
    BY <1>3, <2>1, <2>2 DEF Normal
<1>10. ending = "none" /\ stage # "reported"
  <2>1. stage # "reported"
    BY <1>1, <1>3 DEF Flow, Over
  <2>2. lock \in {"submit", "reap", "cancel"}
    BY <1>1, <1>3 DEF Types
  <2> QED
    BY <1>1, <2>1, <2>2 DEF Flow
<1>11. lock \in {"reap", "cancel"} =>
         discard.last = Len(Pieces) /\ discard.next <= discard.last /\ next = Len(Pieces) + 1
  BY <1>1 DEF Flow
<1>12. lock = "cancel" /\ discard.next = discard.last => discard.ret = "success"
  BY <1>1 DEF Flow
<1> QED
  BY <1>3, <1>6, <1>7, <1>8, <1>9, <1>10, <1>11, <1>12

(* While they are discarded in order, the kernel has the last URBs.        *)
LEMMA LastPending ==
    ASSUME UsbfsInv, Normal, next = Len(Pieces) + 1, pending # <<>>,
           \A i \in 1 .. Len(pending) :
             pending[i].index = tpriv.num_retired + Len(Queue) + i
    PROVE  \E i \in 1 .. Len(pending) : pending[i].index = Len(Pieces)
<1>1. Len(pending) \in Nat \ {0} /\ tpriv.num_retired \in Nat /\ Len(Pieces) \in Nat
  BY PendingFacts
<1>2. Len(Queue) \in Nat
  BY TypedQueue DEF UsbfsInv
<1>3. tpriv.num_retired + Len(Queue) + Len(pending) = next - 1
  BY DEF UsbfsInv, Counted, Normal
<1>4. next - 1 = Len(Pieces) /\ Len(pending) \in 1 .. Len(pending)
  BY <1>1
<1> QED
  BY <1>3, <1>4

(* The discarded URB is not with the kernel.                               *)
LEMMA DiscardNothing ==
    ASSUME UsbfsInv, DiscardUrb, UNCHANGED <<pending, completed, received>>,
           \A i \in 1 .. Len(pending) : pending[i].index # discard.next
    PROVE  UsbfsInv'
<1>1. /\ discard.next \in Int /\ discard.last \in Nat /\ discard' \in Loop
      /\ discard'.next = discard.next - 1
      /\ discard'.last = discard.last /\ discard'.first = discard.first
      /\ device # "attached" => discard'.ret = "no_device"
      /\ device = "attached" =>
           discard'.ret = IF discard.next = discard.last THEN "not_found" ELSE discard.ret
      /\ Discarding /\ lock # "none" /\ stage # "idle" /\ transfer \in Transfers
      /\ Normal => lock \in {"reap", "cancel"}
      /\ lock \in {"reap", "cancel"} =>
           /\ discard.last = Len(Pieces) /\ discard.next <= discard.last
           /\ next = Len(Pieces) + 1
      /\ ending = "none" /\ stage # "reported"
      /\ UNCHANGED <<transfer, stage, outcome, transferred, buffer, disappeared>>
      /\ UNCHANGED <<tpriv, lock, next, reaping, ending, cancel>>
      /\ UNCHANGED <<endpoint, device, faults>>
  BY DiscardFacts
<1>2. Types /\ Flow /\ Verdict /\ Untouched /\ InOrder
  BY DEF UsbfsInv
<1>3. /\ Queue' = Queue /\ Pieces' = Pieces /\ Iso' = Iso /\ Bulk' = Bulk
      /\ Control' = Control /\ Alive' = Alive /\ Normal' = Normal /\ Dry' = Dry
  BY <1>1, SameTransfer DEF Queue, Alive, Normal, Dry
<1>4. Types'
  BY <1>1, <1>2 DEF Types
<1>5. Flow'
  <2>1. Discarding' => Discarding
    BY <1>1
  <2>2. lock \in {"reap", "cancel"} =>
          discard'.next <= discard'.last /\ discard'.next # discard'.last
    BY <1>1
  <2> QED
    BY <1>1, <1>2, <1>3, <2>1, <2>2 DEF Flow, Over
<1>6. /\ Placed' /\ Stream' /\ Buffered' /\ Stopped' /\ Aligned' /\ Packets'
  <2>1. next <= next'
    BY <1>1, <1>2 DEF Types
  <2>2. Placed'
    BY <1>1, <1>2, <1>3, <1>4, <2>1, PlacedKept DEF UsbfsInv
  <2>3. Stream'
    BY <1>1, <1>3, StreamKept DEF UsbfsInv
  <2>4. Buffered'
    BY <1>1, BufferedKept DEF UsbfsInv
  <2>5. Stopped'
    BY <1>1, <1>3, StoppedKept DEF UsbfsInv
  <2>6. Aligned'
    BY <1>1, <1>3, AlignedKept DEF UsbfsInv
  <2>7. Packets'
    BY <1>1, <1>3, PacketsKept DEF UsbfsInv
  <2> QED
    BY <2>2, <2>3, <2>4, <2>5, <2>6, <2>7
<1>7. Counted'
  BY <1>1, <1>3 DEF UsbfsInv, Counted
<1>8. Verdict'
  BY <1>1, <1>2, <1>3 DEF Verdict
<1>9. ASSUME Normal, discard.next = discard.last,
             \A i \in 1 .. Len(pending) :
               pending[i].index = tpriv.num_retired + Len(Queue) + i
      PROVE  pending = <<>>
  <2>1. SUFFICES ASSUME pending # <<>> PROVE FALSE
    OBVIOUS
  <2>2. \E i \in 1 .. Len(pending) : pending[i].index = Len(Pieces)
    BY <1>1, <1>9, <2>1, LastPending
  <2> QED
    BY <1>1, <1>9, <2>2
<1>10. lock \in {"reap", "cancel"} => discard.next < discard.last \/ discard.next = discard.last
  BY <1>1
<1>11. InOrder'
  <2>1. CutShort' = CutShort /\ \A e : Cut(e)' = Cut(e) /\ HasData(e)' = HasData(e)
    BY <1>3 DEF CutShort, Cut, HasData
  <2>2. ASSUME Normal, lock \in {"reap", "cancel"} PROVE CutShort \/ pending = <<>>
    <3>1. CASE discard.next < discard.last
      BY <1>2, <2>2, <3>1 DEF InOrder
    <3>2. CASE discard.next = discard.last
      BY <1>2, <1>9, <2>2, <3>2 DEF InOrder
    <3> QED
      BY <1>10, <2>2, <3>1, <3>2
  <2> QED
    BY <1>1, <1>2, <1>3, <2>1, <2>2 DEF InOrder
<1>12. Untouched'
  <2>1. ASSUME Clear'
        PROVE  Clear /\ lock = "cancel" /\ pending = <<>>
    <3>1. Normal /\ lock = "cancel"
      BY <1>1, <1>2, <1>3, <2>1 DEF Clear, Untouched
    <3>2. discard'.next < discard'.last
      BY <1>1, <3>1
    <3>3. discard'.ret = "not_found"
      BY <1>1, <2>1, <3>1, <3>2 DEF Clear
    <3>4. device = "attached"
      BY <1>1, <3>3
    <3>5. Clear
      <4>1. discard.next < discard.last => discard.ret = "not_found"
        BY <1>1, <3>3, <3>4
      <4> QED
        BY <1>1, <1>3, <2>1, <4>1 DEF Clear
    <3>6. CASE discard.next < discard.last
      BY <1>2, <3>1, <3>5, <3>6 DEF Untouched
    <3>7. CASE discard.next = discard.last
      BY <1>2, <1>9, <3>1, <3>5, <3>7 DEF Untouched
    <3> QED
      BY <1>10, <3>1, <3>5, <3>6, <3>7
  <2> QED
    BY <1>1, <1>2, <1>3, <2>1 DEF Untouched
<1> QED
  BY <1>4, <1>5, <1>6, <1>7, <1>8, <1>11, <1>12 DEF UsbfsInv

(* The discarded URB comes back.                                           *)
LEMMA DiscardOne ==
    ASSUME UsbfsInv, DiscardUrb, NEW x \in 1 .. Len(pending),
           pending[x].index = discard.next,
           NEW n \in 0 .. pending[x].length, n > 0 => x = 1 /\ endpoint = "ok",
           pending' = RemoveAt(pending, x),
           completed' = Append(completed, Complete(pending[x], "killed", n)),
           received' = received + n
    PROVE  UsbfsInv'
<1>1. /\ discard.next \in Int /\ discard.last \in Nat /\ discard' \in Loop
      /\ discard'.next = discard.next - 1
      /\ discard'.last = discard.last /\ discard'.first = discard.first
      /\ device = "attached" =>
           discard'.ret =
             IF /\ \A i \in 1 .. Len(pending) : pending[i].index # discard.next
                /\ discard.next = discard.last
             THEN "not_found" ELSE discard.ret
      /\ Discarding /\ lock # "none" /\ stage # "idle" /\ transfer \in Transfers
      /\ Normal => lock \in {"reap", "cancel"}
      /\ lock \in {"reap", "cancel"} =>
           /\ discard.last = Len(Pieces) /\ discard.next <= discard.last
           /\ next = Len(Pieces) + 1
      /\ lock = "cancel" /\ discard.next = discard.last => discard.ret = "success"
      /\ ending = "none" /\ stage # "reported"
      /\ UNCHANGED <<transfer, stage, outcome, transferred, buffer, disappeared>>
      /\ UNCHANGED <<tpriv, lock, next, reaping, ending, cancel>>
      /\ UNCHANGED <<endpoint, device, faults>>
  BY DiscardFacts
<1>2. Types /\ Flow /\ Verdict /\ Untouched /\ InOrder
  BY DEF UsbfsInv
<1>3. pending \in Seq(Urb) /\ completed \in Seq(Entry) /\ Len(pending) \in Nat
  BY <1>2, LenProperties DEF Types
<1>4. pending # <<>>
  BY <1>3, EmptySeq
<1>5. /\ device = "attached" /\ next > 1 /\ received \in Nat /\ n \in Nat
      /\ pending[x] \in Urb /\ pending[x].length \in Nat
      /\ Len(Pieces) \in Nat /\ tpriv.num_retired \in Nat
  BY <1>4, PendingFacts
<1> DEFINE u == pending[x]
           us == <<u>>
<1>6. us \in Seq(Urb) /\ Len(us) = 1 /\ us # <<>> /\ us[1] = u
  BY <1>5
<1>7. PICK b : b = Batch(us, "killed", "killed", n)
  OBVIOUS
<1>8. Dry => n = 0
  BY <1>5 DEF Dry
<1>9. "killed" \in Statuses /\ "killed" \notin Stops
  BY DEF Statuses, Stops
<1> HIDE DEF us
<1>10. /\ b \in Seq(Entry) /\ Len(b) = 1 /\ Filled(b, n)
       /\ b[1].urb = u /\ b[1].status = "killed"
       /\ n = 0 => ~HasData(b[1])
  <2>1. n \in 0 .. us[1].length
    BY <1>6
  <2>2. /\ b \in Seq(Entry) /\ Len(b) = Len(us) /\ Filled(b, n)
        /\ \A i \in 1 .. Len(us) : b[i].urb = us[i] /\ b[i].status = "killed"
        /\ n = 0 => \A i \in 1 .. Len(us) : ~HasData(b[i])
    BY <1>5, <1>6, <1>7, <1>8, <1>9, <2>1, BatchFilled
  <2> QED
    BY <1>6, <2>2
<1>11. completed' = completed \o b
  <2>1. 1 \in 1 .. Len(us)
    BY <1>6
  <2>2. b[1] = Complete(u, "killed", n)
    BY <1>6, <1>7, <2>1 DEF Batch
  <2>3. /\ Tail(b) \in Seq(Entry) /\ Len(Tail(b)) = 0 /\ b # <<>>
    <3>1. b # <<>>
      <4>1. b \in Seq(Entry) /\ Len(b) # 0
        BY <1>10
      <4> QED
        BY <4>1, EmptySeq
    <3>2. Tail(b) \in Seq(Entry) /\ Len(Tail(b)) = Len(b) - 1
      BY <1>10, <3>1, HeadTailProperties
    <3> QED
      BY <1>10, <3>1, <3>2
  <2>4. Append(completed, b[1]) \o Tail(b) = completed \o b
    BY <1>3, <1>10, <2>3, AppendTail
  <2>5. PICK t \in Seq(Entry) : t = Tail(b) /\ Len(t) = 0
    BY <2>3
  <2>6. t = <<>>
    BY <2>5, EmptySeq
  <2>7. Append(completed, b[1]) \o <<>> = Append(completed, b[1])
    <3>1. b[1] \in Entry
      <4>1. 1 \in 1 .. Len(b)
        BY <1>10
      <4> QED
        BY <1>10, <4>1, ElementOfSeq
    <3>2. Append(completed, b[1]) \in Seq(Entry)
      BY <1>3, <3>1, AppendProperties
    <3> QED
      BY <3>2, ConcatSimplifications
  <2> QED
    BY <2>2, <2>4, <2>5, <2>6, <2>7
<1>12. /\ pending' \in Seq(Urb) /\ Len(pending') = Len(pending) - 1
       /\ \A k \in 1 .. Len(pending) - 1 : pending'[k] = pending[IF k < x THEN k ELSE k + 1]
  BY <1>3, RemovedAt
<1> HIDE DEF u
<1>13. Sorted(b, n)
  BY <1>10, <1>12, OneSorted DEF u
<1>14. Arrives(b, n)
  <2>1. Dry => Dry'
    BY <1>1 DEF Dry
  <2>2. Len(pending') + Len(b) = Len(pending)
    BY <1>3, <1>10, <1>12
  <2> QED
    BY <1>1, <1>5, <1>10, <1>11, <1>12, <2>1, <2>2 DEF Arrives, user
<1>15. /\ Placed' /\ Counted' /\ Stream' /\ Buffered' /\ Stopped' /\ Aligned' /\ Packets'
       /\ Pieces' = Pieces /\ Iso' = Iso /\ Bulk' = Bulk /\ Normal' = Normal
       /\ Alive' = Alive
  BY <1>1, <1>10, <1>13, <1>14, ArrivesInv
<1>16. Discarding' => Discarding
  BY <1>1
<1>17. Types' /\ Flow'
  <2>1. lock \in {"reap", "cancel"} =>
          /\ discard'.last = Len(Pieces) /\ discard'.next <= discard'.last
          /\ discard'.next # discard'.last
    BY <1>1
  <2>2. /\ device' \in {"attached", "gone", "known"} /\ faults' \in Nat
        /\ endpoint' \in {"ok", "halted", "disabled"}
    BY <1>1, <1>2 DEF Types
  <2>3. endpoint' = "disabled" => Bulk /\ use_bulk_continuation(transfer)
    BY <1>1, <1>2 DEF Flow
  <2> QED
    BY <1>1, <1>5, <1>14, <1>16, <2>1, <2>2, <2>3, ArrivesFlow
<1>18. Verdict'
  BY <1>1, <1>2, <1>15 DEF Verdict
<1> DEFINE m == Len(Queue)
<1>19. /\ m \in Nat /\ Len(Queue') = m + 1 /\ Queue'[m + 1] = b[1]
       /\ \A i \in 1 .. m : Queue'[i] = Queue[i]
  <2>1. /\ m \in Nat /\ Len(Queue') = m + Len(b)
        /\ \A i \in 1 .. m : Queue'[i] = Queue[i]
        /\ \A i \in 1 .. Len(b) : Queue'[m + i] = b[i]
    BY <1>14, ArrivesQueue
  <2>2. 1 \in 1 .. Len(b)
    BY <1>10
  <2> QED
    BY <1>10, <2>1, <2>2
<1>20. \A e : (Cut(e)' <=> Cut(e)) /\ (HasData(e)' <=> HasData(e))
  BY <1>15 DEF Cut, HasData
<1> HIDE DEF m
<1>21. /\ m + 1 \in 1 .. m + 1
       /\ \A i \in 1 .. m : i \in 1 .. m + 1 /\ i < m + 1
       /\ \A i \in 1 .. m + 1 : i \in 1 .. m \/ i = m + 1
  BY <1>19
<1>22. lock \in {"reap", "cancel"} => discard.next < discard.last \/ discard.next = discard.last
  BY <1>1
<1>23. InOrder'
  <2> DEFINE k == tpriv.num_retired
  <2> HIDE DEF k
  <2>1. SUFFICES ASSUME Normal
                 PROVE  /\ \A i \in 1 .. m + 1 :
                             \/ Queue'[i].urb.index = k + i
                             \/ \E j \in 1 .. m + 1 : j < i /\ Cut(Queue'[j])
                             \/ Cut(Queue'[i]) /\ ~HasData(Queue'[i])
                        /\ \E i \in 1 .. m + 1 : Cut(Queue'[i])
    BY <1>1, <1>15, <1>19, <1>20 DEF InOrder, CutShort, k
  <2>2. /\ \A i \in 1 .. m :
             \/ Queue[i].urb.index = k + i
             \/ \E j \in 1 .. m : j < i /\ Cut(Queue[j])
             \/ Cut(Queue[i]) /\ ~HasData(Queue[i])
        /\ CutShort \/ \A i \in 1 .. Len(pending) : pending[i].index = k + m + i
        /\ discard.next < discard.last => CutShort
    BY <1>1, <1>2, <1>4, <2>1 DEF InOrder, k, m
  <2>3. ASSUME NEW i \in 1 .. m
        PROVE  \/ Queue'[i].urb.index = k + i
               \/ \E j \in 1 .. m + 1 : j < i /\ Cut(Queue'[j])
               \/ Cut(Queue'[i]) /\ ~HasData(Queue'[i])
    <3>1. Queue'[i] = Queue[i] /\ \A j \in 1 .. m : Queue'[j] = Queue[j]
      BY <1>19
    <3> QED
      BY <1>21, <2>2, <3>1
  <2>4. CASE CutShort
    <3>1. PICK j \in 1 .. m : Cut(Queue[j])
      BY <2>4 DEF CutShort, m
    <3>2. Cut(Queue'[j]) /\ j \in 1 .. m + 1 /\ j < m + 1
      BY <1>19, <1>21, <3>1
    <3> QED
      BY <1>21, <2>3, <3>2
  <2>5. CASE ~CutShort
    <3>1. discard.next = Len(Pieces)
      BY <1>1, <1>22, <2>1, <2>2, <2>5
    <3>2. Cut(Queue'[m + 1])
      BY <1>10, <1>19, <3>1 DEF Cut, u
    <3>3. Queue'[m + 1].urb.index = k + (m + 1) \/ ~HasData(Queue'[m + 1])
      <4>1. CASE n = 0
        BY <1>10, <1>19, <4>1
      <4>2. CASE n # 0
        <5>1. x = 1
          BY <1>5, <4>2
        <5>2. pending[1].index = k + m + 1
          BY <2>2, <2>5, <5>1
        <5>3. k + m + 1 = k + (m + 1)
          BY <1>5, <1>19 DEF k
        <5> QED
          BY <1>10, <1>19, <5>1, <5>2, <5>3 DEF u
      <4> QED
        BY <4>1, <4>2
    <3> QED
      BY <1>21, <2>3, <3>2, <3>3
  <2> QED
    BY <2>4, <2>5
<1>24. Untouched'
  <2>1. ~Clear'
    <3>1. SUFFICES ASSUME Clear' PROVE FALSE
      OBVIOUS
    <3>2. Normal /\ lock = "cancel"
      BY <1>1, <1>2, <1>15, <3>1 DEF Clear, Untouched
    <3>3. discard'.next < discard'.last
      BY <1>1, <3>2
    <3>4. discard'.ret = "not_found"
      BY <1>1, <3>1, <3>2, <3>3 DEF Clear
    <3>5. discard.ret = "not_found"
      BY <1>1, <1>5, <3>4
    <3>6. discard.next < discard.last
      BY <1>1, <1>22, <3>2, <3>5
    <3>7. Clear
      BY <1>1, <1>15, <3>1, <3>5 DEF Clear
    <3> QED
      BY <1>2, <1>4, <3>2, <3>6, <3>7 DEF Untouched
  <2> QED
    BY <1>1, <1>2, <1>15, <2>1 DEF Untouched
<1> QED
  BY <1>15, <1>17, <1>18, <1>23, <1>24 DEF UsbfsInv

LEMMA DiscardUrbInv ==
    ASSUME UsbfsInv, DiscardUrb
    PROVE  UsbfsInv'
<1>1. pending \in Seq(Urb) /\ DOMAIN pending = 1 .. Len(pending)
  BY LenProperties DEF UsbfsInv, Types
<1> DEFINE waiting == {i \in DOMAIN pending : pending[i].index = discard.next}
<1>2. IF waiting = {} THEN UNCHANGED <<pending, completed, received>>
      ELSE \E i \in waiting :
             \E n \in 0 .. IF i = 1 /\ endpoint = "ok" THEN pending[i].length ELSE 0 :
               /\ pending' = RemoveAt(pending, i)
               /\ completed' = Append(completed, Complete(pending[i], "killed", n))
               /\ received' = received + n
  BY DEF DiscardUrb
<1>3. CASE waiting = {}
  BY <1>1, <1>2, <1>3, DiscardNothing
<1>4. CASE waiting # {}
  <2>0. PICK i \in waiting :
          \E n \in 0 .. IF i = 1 /\ endpoint = "ok" THEN pending[i].length ELSE 0 :
            /\ pending' = RemoveAt(pending, i)
            /\ completed' = Append(completed, Complete(pending[i], "killed", n))
            /\ received' = received + n
    BY <1>2, <1>4
  <2>1. PICK n \in 0 .. IF i = 1 /\ endpoint = "ok" THEN pending[i].length ELSE 0 :
          /\ pending' = RemoveAt(pending, i)
          /\ completed' = Append(completed, Complete(pending[i], "killed", n))
          /\ received' = received + n
    BY <2>0
  <2>2. i \in 1 .. Len(pending) /\ pending[i].index = discard.next
    BY <1>1
  <2>3. pending[i].length \in Nat
    <3>1. pending[i] \in Urb
      BY <1>1, <2>2, ElementOfSeq
    <3> QED
      BY <3>1 DEF Urb
  <2>4. n \in 0 .. pending[i].length /\ (n > 0 => i = 1 /\ endpoint = "ok")
    BY <2>3
  <2> QED
    BY <2>1, <2>2, <2>4, DiscardOne
<1> QED
  BY <1>3, <1>4

---------------------------------------------------------------------------
(* Every step keeps the invariant.                                         *)

LEMMA StutterInv ==
    ASSUME UsbfsInv, UNCHANGED vars
    PROVE  UsbfsInv'
<1>1. /\ UNCHANGED <<transfer, stage, outcome, transferred, buffer, disappeared>>
      /\ UNCHANGED <<tpriv, lock, next, discard, reaping, ending, cancel>>
      /\ UNCHANGED <<pending, completed, endpoint, device, received, faults>>
  BY DEF vars, user, priv, kernel
<1>2. Types /\ Flow /\ Verdict
  BY DEF UsbfsInv
<1>3. /\ Pieces' = Pieces /\ Iso' = Iso /\ Bulk' = Bulk /\ Alive' = Alive
      /\ Discarding' = Discarding /\ Dry' = Dry
  BY <1>1, SameTransfer DEF Alive, Discarding, Dry
<1>4. Types'
  BY <1>1, <1>2 DEF Types
<1>5. Flow'
  BY <1>1, <1>2, <1>3 DEF Flow, Fresh, Over
<1>6. Verdict'
  BY <1>1, <1>2, <1>3 DEF Verdict
<1>7. Still
  BY <1>1, <1>3, <1>4, <1>5 DEF Still
<1>8. Clear' => Clear
  BY <1>1, <1>3 DEF Clear, Normal
<1>9. /\ Placed' /\ Counted' /\ Stream' /\ Buffered' /\ Stopped'
      /\ InOrder' /\ Aligned' /\ Packets' /\ Untouched'
  BY <1>1, <1>3, <1>7, <1>8, StillInv
<1> QED
  BY <1>4, <1>5, <1>6, <1>9 DEF UsbfsInv

LEMMA NextInv ==
    ASSUME UsbfsInv, [Next]_vars
    PROVE  UsbfsInv'
<1>1. CASE UNCHANGED vars
  BY <1>1, StutterInv
<1>2. CASE \E t \in Transfers : Submit(t)
  BY <1>2, SubmitInv
<1>3. CASE SubmitUrb
  BY <1>3, SubmitUrbInv
<1>4. CASE SubmitUrbFails
  BY <1>4, SubmitUrbFailsInv
<1>5. CASE EndSubmit
  BY <1>5, EndSubmitInv
<1>6. CASE Cancel
  BY <1>6, CancelInv
<1>7. CASE EndCancel
  BY <1>7, EndCancelInv
<1>8. CASE DiscardUrb
  BY <1>8, DiscardUrbInv
<1>9. CASE Reap
  BY <1>9, ReapInv
<1>10. CASE HandleCompletion
  BY <1>10, HandleCompletionInv
<1>11. CASE EndReap
  BY <1>11, EndReapInv
<1>12. CASE HandleDisconnect
  BY <1>12, HandleDisconnectInv
<1>13. CASE Report
  BY <1>13, ReportInv
<1>14. CASE UrbCompletes
  BY <1>14, UrbCompletesInv
<1>15. CASE DeviceGone
  BY <1>15, DeviceGoneInv
<1> QED
  BY <1>1, <1>2, <1>3, <1>4, <1>5, <1>6, <1>7, <1>8, <1>9, <1>10, <1>11, <1>12,
     <1>13, <1>14, <1>15 DEF Next

(* Whatever the transfer and however its URBs end, each of them has one    *)
(* place, data is handled in the order in which the device sent it, and    *)
(* nothing but cancelled URBs follows the one that ended the transfer.     *)
THEOREM UsbfsInvariant == Spec => []UsbfsInv
<1>1. Init => UsbfsInv
  BY InitUsbfs
<1>2. UsbfsInv /\ [Next]_vars => UsbfsInv'
  BY NextInv
<1> QED
  BY <1>1, <1>2, PTL DEF Spec

---------------------------------------------------------------------------
(* What it means for the user.                                             *)

LEMMA Counting ==
    ASSUME NEW n \in Nat, NEW T, NEW f \in [1 .. n -> T],
           \A i, j \in 1 .. n : f[i] = f[j] => i = j,
           \A t \in T : \E i \in 1 .. n : f[i] = t
    PROVE  IsFiniteSet(T) /\ Cardinality(T) = n
<1>1. f \in Bijection(1 .. n, T)
  BY Fun_IsBij
<1>2. ExistsBijection(1 .. n, T)
  BY <1>1 DEF ExistsBijection
<1> QED
  BY <1>2, FS_CountingElements, FS_NatBijection

(* No URB is in two places.                                                *)
LEMMA OnePlace ==
    ASSUME UsbfsInv
    PROVE  Len(pending) + Len(completed) =
             Cardinality({pending[i].index : i \in DOMAIN pending} \cup Entries(completed))
<1> DEFINE n == Len(pending)
           m == Len(completed)
           S == {pending[i].index : i \in DOMAIN pending}
           T == Entries(completed)
           d == IF reaping = NotReaping THEN 0 ELSE 1
<1>1. pending \in Seq(Urb) /\ completed \in Seq(Entry) /\ reaping \in Entry \cup {NotReaping}
  BY DEF UsbfsInv, Types
<1>2. /\ n \in Nat /\ m \in Nat /\ DOMAIN pending = 1 .. n /\ DOMAIN completed = 1 .. m
  BY <1>1, LenProperties
<1>3. \A i \in 1 .. n : pending[i].index \in Nat
  BY TypedQueue DEF UsbfsInv
<1>4. \A i \in 1 .. m : i + d \in 1 .. Len(Queue) /\ Queue[i + d] = completed[i]
  <2>1. CASE reaping = NotReaping
    <3>1. Queue = completed
      BY <2>1 DEF Queue
    <3> QED
      BY <1>2, <2>1, <3>1
  <2>2. CASE reaping # NotReaping
    <3>1. Queue \in Seq(Entry) /\ Queue # <<>> /\ Len(Queue) = m + 1 /\ Tail(Queue) = completed
      BY <1>1, <2>2, QueueTyped
    <3>2. \A i \in 1 .. Len(Queue) - 1 : Tail(Queue)[i] = Queue[i + 1]
      BY <3>1, HeadTailProperties
    <3> QED
      BY <1>2, <2>2, <3>1, <3>2
  <2> QED
    BY <2>1, <2>2
<1>5. /\ \A i, j \in 1 .. n : i < j => pending[i].index < pending[j].index
      /\ \A i, j \in 1 .. Len(Queue) : Queue[i].urb.index = Queue[j].urb.index => i = j
      /\ \A i \in 1 .. n, j \in 1 .. Len(Queue) : pending[i].index # Queue[j].urb.index
  BY DEF UsbfsInv, Placed
<1>6. d \in Nat
  OBVIOUS
<1>7. S = {pending[i].index : i \in 1 .. n} /\ T = {completed[i].urb.index : i \in 1 .. m}
  BY <1>2 DEF Entries
<1> HIDE DEF n, m, S, T, d
<1>8. IsFiniteSet(S) /\ Cardinality(S) = n
  <2> DEFINE f == [i \in 1 .. n |-> pending[i].index]
  <2>1. f \in [1 .. n -> S] /\ \A t \in S : \E i \in 1 .. n : f[i] = t
    BY <1>7
  <2>2. ASSUME NEW i \in 1 .. n, NEW j \in 1 .. n, f[i] = f[j] PROVE i = j
    <3>1. ~(i < j) /\ ~(j < i)
      BY <1>3, <1>5, <2>2
    <3> QED
      BY <1>2, <3>1
  <2> HIDE DEF f
  <2> QED
    BY <1>2, <2>1, <2>2, Counting
<1>9. IsFiniteSet(T) /\ Cardinality(T) = m
  <2> DEFINE f == [i \in 1 .. m |-> completed[i].urb.index]
  <2>1. f \in [1 .. m -> T] /\ \A t \in T : \E i \in 1 .. m : f[i] = t
    BY <1>7
  <2>2. ASSUME NEW i \in 1 .. m, NEW j \in 1 .. m, f[i] = f[j] PROVE i = j
    <3>1. Queue[i + d].urb.index = Queue[j + d].urb.index
      BY <1>4, <2>2
    <3>2. i + d = j + d
      BY <1>4, <1>5, <3>1
    <3> QED
      BY <1>2, <1>6, <3>2
  <2> HIDE DEF f
  <2> QED
    BY <1>2, <2>1, <2>2, Counting
<1>10. S \cap T = {}
  BY <1>4, <1>5, <1>7
<1>11. Cardinality(S \cap T) = 0
  BY <1>10, FS_EmptySet
<1>12. Cardinality(S \cup T) = n + m - 0
  BY <1>8, <1>9, <1>11, FS_Union
<1> QED
  BY <1>2, <1>12 DEF S, T, n, m

LEMMA RightTypes ==
    ASSUME UsbfsInv
    PROVE  TypeOK
<1>1. Types /\ Flow /\ Counted /\ Stream /\ Packets
  BY DEF UsbfsInv
<1>2. transferred \in 0 .. transfer.length
  <2>1. transferred \in Nat /\ received \in Nat
    BY <1>1 DEF Types
  <2>2. CASE stage = "idle"
    BY <1>1, <2>2 DEF Flow, Fresh, NoTransfer
  <2>3. CASE stage # "idle"
    <3>1. transfer.length \in Nat
      BY <1>1, <2>3, Whole DEF Flow
    <3>2. CASE Iso
      BY <1>1, <3>1, <3>2 DEF Packets
    <3>3. CASE ~Iso
      <4>1. received <= transfer.length
        BY <1>1, <3>3 DEF Stream
      <4>2. PICK off \in [0 .. Len(Queue) -> 0 .. received] : Runs(off)
        BY <1>1, <3>3 DEF Stream
      <4>3. Len(Queue) \in Nat
        BY <1>1, TypedQueue
      <4>4. off[0] = transferred /\ off[0] \in 0 .. received
        BY <4>2, <4>3 DEF Runs
      <4> QED
        BY <2>1, <3>1, <4>1, <4>4
    <3> QED
      BY <3>2, <3>3
  <2> QED
    BY <2>2, <2>3
<1>3. tpriv.urbs # <<>> /\ transfer.type # "control" =>
        tpriv.num_retired \in 0 .. Len(tpriv.urbs)
  <2>1. SUFFICES ASSUME Alive, ~Control PROVE tpriv.num_retired \in 0 .. Len(tpriv.urbs)
    BY DEF Alive, Control
  <2>2. stage \in {"submitting", "flying"}
    BY <1>1, <2>1, NoPrivTyped DEF Types, Flow, Fresh, Over, Alive
  <2>3. tpriv.urbs = Pieces /\ transfer \in Transfers
    BY <1>1, <2>1, <2>2 DEF Flow
  <2>4. Len(Pieces) \in Nat /\ tpriv.num_retired \in Nat
    BY <1>1, <2>3, Whole DEF Types, Priv
  <2>5. tpriv.num_retired < Len(Pieces)
    BY <1>1, <2>1 DEF Counted
  <2> QED
    BY <2>3, <2>4, <2>5
<1>4. reaping.status \in Statuses
  BY <1>1 DEF Types, Entry, NotReaping, Statuses
<1>5. tpriv.reap_action \in Actions /\ tpriv.reap_status \in Outcomes
  BY <1>1 DEF Types, Priv
<1> QED
  BY <1>1, <1>2, <1>3, <1>4, <1>5, OnePlace DEF TypeOK, Types, Actions

LEMMA RightPlaces ==
    ASSUME UsbfsInv
    PROVE  DataContiguous /\ PacketsInPlace
<1>1. Types /\ Flow /\ Stream /\ Buffered /\ Packets
  BY DEF UsbfsInv
<1>2. DataContiguous
  <2>1. SUFFICES ASSUME stage = "reported", Bulk, ~transfer.out
                 PROVE  /\ \A k \in 1 .. transferred : buffer[k] = k
                        /\ completed = <<>> /\ pending = <<>> => transferred = received
    BY DEF DataContiguous
  <2>2. ~Iso /\ reaping = NotReaping
    BY <1>1, <2>1 DEF Bulk, Iso, Flow, Over
  <2>3. PICK off : Runs(off)
    BY <1>1, <2>2 DEF Stream
  <2>4. completed = <<>> => Len(Queue) = 0
    BY <2>2 DEF Queue
  <2> QED
    BY <1>1, <2>1, <2>3, <2>4 DEF Buffered, Runs
<1>3. PacketsInPlace
  BY <1>1 DEF PacketsInPlace, Packets
<1> QED
  BY <1>2, <1>3

(* However a transfer was split and ended, its results are where they      *)
(* belong and inside its buffer, and each URB is with one owner: what      *)
(* handle_bulk_completion promises of surplus data, and what               *)
(* handle_iso_completion takes for granted of the order of the packets.    *)
THEOREM ResultsAreInPlace == Spec => []ResultsInPlace
<1>1. UsbfsInv => ResultsInPlace
  BY RightTypes, RightPlaces DEF ResultsInPlace
<1> QED
  BY <1>1, UsbfsInvariant, PTL

(* A transfer is reported as what it was: one whose cancellation succeeded *)
(* never as complete, and one reported complete has met no error and is    *)
(* all there (usbi_handle_transfer_completion,                             *)
(* usbi_handle_transfer_cancellation).                                     *)
THEOREM ReportsAreTrue == Spec => []ReportTrue
<1>1. UsbfsInv => ReportTrue
  BY DEF UsbfsInv, Verdict, ReportTrue, CancelHonoured, CompleteMeansComplete, Good
<1> QED
  BY <1>1, UsbfsInvariant, PTL
=============================================================================
