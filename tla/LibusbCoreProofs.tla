-------------------------- MODULE LibusbCoreProofs --------------------------
(***************************************************************************)
(* What libusb's contexts guarantee for any number of them, of devices and *)
(* of changes: the monitor runs while a context wants it and no longer; a  *)
(* device is destroyed with the last reference to it, not before; and what *)
(* libusb_exit leaves behind is what the code can be seen to leave.        *)
(***************************************************************************)
EXTENDS LibusbCore, FiniteSetTheorems, SequenceTheorems, TLAPS

AppLabels ==
    {"start", "init_backend", "init_io", "inited", "undo_backend",
     "undo_join", "undo_context", "arrived", "open2", "poll", "list",
     "listed", "opening", "no_device", "free_open", "free_failed", "open",
     "exit_default", "exit_active", "exit_devices",
     "exit_backend", "exit_join", "gone"}

(* The context counts for init_count, has opened a device, has not been    *)
(* initialised yet or not any more.                                        *)
Joining == {"undo_join", "exit_join"}
Counting == AppLabels \ (Joining \cup {"start", "init_backend", "undo_context", "gone"})
Holding == {"arrived", "open2", "opening", "no_device", "free_open", "open"}
Unlisted == {"start", "init_backend", "init_io", "inited", "poll", "list"}
Inactive == {"start", "exit_devices", "exit_backend", "exit_join", "gone"}
Deviceless == Inactive \ {"exit_devices"}
Unready == {"start", "init_backend", "init_io", "exit_backend", "exit_join",
            "undo_context", "gone"}

(* What the holder of linux_hotplug_lock is doing.                         *)
Removing == {"detach", "unlist", "tell", "unref"}
Adding == {"initialize", "parent", "retry", "connect", "arrived"}
Between == {"free", "read", "leave", "next"}

Device == [ctx : Contexts \cup {NoOne}, session : Sessions \cup {NoOne},
           enumerated : BOOLEAN, attached : BOOLEAN,
           refcnt : Int, parent : 0 .. MaxDevices]

(* TypeOK but for the counts of the devices, and what TypeOK leaves out.   *)
ContextTypes ==
    /\ app \in [Contexts -> AppLabels]
    /\ event \in [Contexts -> Messages]
    /\ active \subseteq Contexts /\ ready \subseteq Contexts
    /\ deflock \in Contexts \cup {NoOne}
    /\ handle \in [Contexts -> 0 .. MaxDevices]
    /\ removed \subseteq Contexts /\ gone \subseteq Contexts
    /\ foreign \in BOOLEAN /\ fault \in BOOLEAN
DeviceTypes ==
    /\ usb_devs \in [Contexts -> Seq(Devs)]
    /\ msgs \in [Contexts -> Seq(Messages)]
    /\ list \in [Contexts -> SUBSET Devs]
    /\ dev \in [Devs -> Device]
    /\ allocated \in 0 .. MaxDevices /\ unsaid \subseteq Devs
KernelTypes ==
    /\ plugged \subseteq Sessions /\ changes \in 0 .. MaxChanges
    /\ uevents \in Seq([op : {"add", "remove"}, session : Sessions])
Holder == [by : Contexts \cup {NoOne, "monitor"},
           pc : Removing \cup Adding \cup Between,
           op : {"none", "add", "remove"},
           session : Sessions \cup {NoOne}, todo : SUBSET Contexts,
           dev : 0 .. MaxDevices, adding : Seq(Devs)]
HotTypes ==
    /\ hot \in Holder
    /\ hot.op = "add" => hot.session \in Sessions
Types == ContextTypes /\ DeviceTypes /\ KernelTypes /\ HotTypes

Counted == \A d \in Devs : dev[d].refcnt \in Nat

(* The monitor.  The default context is referred to once, so that every    *)
(* context that is exited is one less that counts.                         *)
Wanting == {c \in Contexts : app[c] \in Counting}
Watched ==
    /\ default \in [ctx : Contexts \cup {NoOne}, refcnt : 0 .. 1]
    /\ default.refcnt = One(default.ctx # NoOne)
    /\ init_count = Cardinality(Wanting)
    /\ stopping \in Contexts \cup {NoOne}
    /\ \A c \in Contexts : app[c] \in Joining <=> stopping = c
    /\ stopping # NoOne => init_count = 0
    /\ control \in BOOLEAN /\ (control => stopping # NoOne)
    /\ socket \in {"none", "bound", "stale"}
    /\ monitor \in {"off", "polling", "locking", "reading"}
    /\ MonitorEnds
    /\ hot.by = "monitor" => monitor = "reading"

(* Where the threads are, and what that says of what they refer to.        *)
Settled(c) ==
    /\ c \in active => app[c] \notin Inactive
    /\ c \notin ready => app[c] \in Unready /\ msgs[c] = <<>>
    /\ handle[c] # 0 <=> app[c] \in Holding
    /\ event[c] # Idle => app[c] = "open"
    /\ app[c] \in Unlisted => list[c] = {}
    /\ app[c] \in Deviceless => usb_devs[c] = <<>>
Held ==
    /\ hot.by = NoOne => hot = Unlocked
    /\ hot.pc \in Between => hot.dev = 0 /\ hot.adding = <<>>
    /\ hot.pc \in Removing \cup Adding \cup {"next"} => hot.todo \subseteq active
Placed == (\A c \in Contexts : Settled(c)) /\ Held

(* Every reference of a context is to a device of that context.            *)
Of(c) == {d \in 1 .. allocated : dev[d].ctx = c}
Owns(c) ==
    /\ ToSet(usb_devs[c]) \subseteq Of(c) /\ list[c] \subseteq Of(c)
    /\ handle[c] \in Of(c) \cup {0}
    /\ \A m \in ToSet(msgs[c]) : m.event \in {"ARRIVED", "LEFT"} /\ m.dev \in Of(c)
    /\ event[c] # Idle => event[c].event # "idle" /\ event[c].dev \in Of(c)
    /\ event[c].event = "lost" => event[c].dev = handle[c]
HotOwns ==
    /\ hot.pc \in Removing =>
         /\ hot.dev \in 1 .. allocated /\ dev[hot.dev].ctx \in hot.todo
         /\ hot.adding = <<>>
         /\ hot.pc \in {"detach", "unlist"} =>
              hot.dev \in ToSet(usb_devs[dev[hot.dev].ctx])
    /\ hot.pc \in Adding =>
         /\ hot.dev = 0 /\ hot.adding # <<>> /\ dev[Added].ctx \in hot.todo
         /\ \A d \in ToSet(hot.adding) :
              d \in Of(dev[Added].ctx) /\ dev[d].enumerated
         /\ hot.pc = "arrived" => Added \in ToSet(usb_devs[dev[Added].ctx])
Spare == \A d \in Devs : d > allocated => dev[d].refcnt = 0 /\ dev[d].parent = 0
Owned ==
    /\ \A c \in Contexts : Owns(c)
    /\ HotOwns
    /\ unsaid \subseteq 1 .. allocated
    /\ \A d \in 1 .. allocated : dev[d].ctx \in Contexts /\ dev[d].session \in Sessions
    /\ Spare

(* A device has a parent of its own context, and the parent has none.      *)
Parents ==
    \A d \in Devs : dev[d].parent # 0 =>
        /\ dev[d].parent \in Of(dev[d].ctx)
        /\ dev[dev[d].parent].session = ParentOf[dev[d].session]
Orphans ==
    \A d \in ToSet(hot.adding) :
        ~(d = Added /\ hot.pc \in {"connect", "arrived"}) => dev[d].parent = 0
Tree == Parents /\ Orphans

(* The reference that a device is born with: of the list, of whoever is    *)
(* adding or removing it, of the message that it left, of the event thread *)
(* that handles the message, or of nobody.  It is one of them.             *)
InList(d) == One(d \in ToSet(usb_devs[dev[d].ctx]))
InAdding(d) == One(d \in ToSet(hot.adding) /\ ~(d = Added /\ hot.pc = "arrived"))
InTelling(d) == One(hot.dev = d /\ hot.pc = "tell")
Places(s, m) == {i \in DOMAIN s : s[i] = m}
InMessages(d) == Cardinality(Places(msgs[dev[d].ctx], Message("LEFT", d)))
InEvent(d) == One(event[dev[d].ctx] = Message("LEFT", d))
InNone(d) == One(d \in unsaid)
Born(d) == InList(d) + InAdding(d) + InTelling(d) + InMessages(d) + InEvent(d) + InNone(d)

(* The others: of the open handle, of the array, of whoever removes it and *)
(* of its children.                                                        *)
InHandle(d) ==
    LET c == dev[d].ctx IN One(handle[c] = d /\ app[c] \notin {"arrived", "open2"})
InArray(d) == One(d \in list[dev[d].ctx])
InHand(d) == One(hot.dev = d)
Uses(d) == InHandle(d) + InArray(d) + InHand(d)
ChildrenOf(ds, d) == {e \in Devs : ds[e].refcnt > 0 /\ ds[e].parent = d}
Kids(ds, d) == Cardinality(ChildrenOf(ds, d))

Distinct(s) == \A i, j \in 1 .. Len(s) : s[i] = s[j] => i = j
BornOnce ==
    /\ \A d \in 1 .. allocated : Born(d) <= 1
    /\ \A c \in Contexts : Distinct(usb_devs[c])
    /\ Distinct(hot.adding)

(* A device that has arrived, or that rtlsdr_open2 is about to open, lives *)
(* until the message that it left is handled, which comes later.           *)
Leaves(d, i) ==
    LET c == dev[d].ctx
    IN \/ d \in ToSet(usb_devs[c])
       \/ hot.pc = "tell" /\ hot.dev = d
       \/ \E j \in DOMAIN msgs[c] : j > i /\ msgs[c][j] = Message("LEFT", d)
Lasts(c) ==
    /\ \A i \in DOMAIN msgs[c] :
         msgs[c][i].event = "ARRIVED" /\ dev[msgs[c][i].dev].enumerated
           => Leaves(msgs[c][i].dev, i)
    /\ event[c].event = "ARRIVED" /\ dev[event[c].dev].enumerated
         => Leaves(event[c].dev, 0)
    /\ app[c] \in {"arrived", "open2"} => Leaves(handle[c], 0)
    /\ app[c] = "arrived" => ~dev[handle[c]].enumerated
Lasting == \A c \in Contexts : app[c] # "gone" => Lasts(c)

Referred == \A d \in 1 .. allocated : dev[d].refcnt = Born(d) + Uses(d) + Kids(dev, d)

Inv ==
    /\ Types /\ Counted /\ Watched
    /\ ~fault => Placed /\ Owned /\ Tree /\ BornOnce /\ Lasting /\ Referred

---------------------------------------------------------------------------
(* Sequences.                                                              *)

LEMMA OneIs == ASSUME NEW P PROVE One(P) \in 0 .. 1 /\ (One(P) = 1 <=> P)
  BY DEF One

LEMMA ElementsOf ==
    ASSUME NEW S, NEW s \in Seq(S)
    PROVE  /\ ToSet(s) = {s[i] : i \in 1 .. Len(s)} /\ ToSet(s) \subseteq S
           /\ Len(s) \in Nat /\ DOMAIN s = 1 .. Len(s)
  BY LenProperties, ElementOfSeq DEF ToSet

LEMMA EmptyElements == ToSet(<<>>) = {}
  BY DEF ToSet

LEMMA PushFront ==
    ASSUME NEW S, NEW s \in Seq(S), NEW e \in S
    PROVE  /\ <<e>> \o s \in Seq(S) /\ Len(<<e>> \o s) = Len(s) + 1
           /\ <<e>> \o s # <<>> /\ Head(<<e>> \o s) = e
           /\ ToSet(<<e>> \o s) = {e} \cup ToSet(s)
           /\ Distinct(s) /\ e \notin ToSet(s) => Distinct(<<e>> \o s)
<1> DEFINE r == <<e>> \o s
<1>1. /\ r \in Seq(S) /\ Len(r) = Len(s) + 1 /\ Len(s) \in Nat
      /\ \A k \in 1 .. Len(s) + 1 : r[k] = IF k = 1 THEN e ELSE s[k - 1]
  <2>1. <<e>> \in Seq(S) /\ Len(<<e>>) = 1 /\ <<e>>[1] = e
    OBVIOUS
  <2> QED
    BY <2>1, ConcatProperties, LenProperties
<1> HIDE DEF r
<1>2. r # <<>> /\ Head(r) = e
  BY <1>1
<1>3. ASSUME NEW x \in ToSet(r) PROVE x \in {e} \cup ToSet(s)
  <2>1. PICK k \in 1 .. Len(r) : x = r[k]
    BY <1>1, ElementsOf
  <2>2. CASE k = 1
    BY <1>1, <2>1, <2>2
  <2>3. CASE k # 1
    <3>1. k - 1 \in 1 .. Len(s) /\ x = s[k - 1]
      BY <1>1, <2>1, <2>3
    <3> QED
      BY <3>1, ElementsOf
  <2> QED
    BY <2>2, <2>3
<1>4. ASSUME NEW x \in {e} \cup ToSet(s) PROVE x \in ToSet(r)
  <2>1. CASE x = e
    <3>1. 1 \in 1 .. Len(r) /\ r[1] = e
      BY <1>1
    <3> QED
      BY <1>1, <2>1, <3>1, ElementsOf
  <2>2. CASE x # e
    <3>1. PICK k \in 1 .. Len(s) : x = s[k]
      BY <1>4, <2>2, ElementsOf
    <3>2. k + 1 \in 1 .. Len(r) /\ r[k + 1] = x
      BY <1>1, <3>1
    <3> QED
      BY <1>1, <3>2, ElementsOf
  <2> QED
    BY <2>1, <2>2
<1>5. ASSUME Distinct(s), e \notin ToSet(s) PROVE Distinct(r)
  <2> SUFFICES ASSUME NEW i \in 1 .. Len(r), NEW j \in 1 .. Len(r), r[i] = r[j]
               PROVE  i = j
    BY DEF Distinct
  <2>1. \A k \in 1 .. Len(s) : s[k] # e
    BY <1>5, ElementsOf
  <2>2. \A k \in 1 .. Len(r) : k # 1 => k - 1 \in 1 .. Len(s) /\ r[k] = s[k - 1]
    BY <1>1
  <2>3. CASE i = 1 \/ j = 1
    BY <1>1, <2>1, <2>2, <2>3
  <2>4. CASE i # 1 /\ j # 1
    BY <1>1, <1>5, <2>2, <2>4 DEF Distinct
  <2> QED
    BY <2>3, <2>4
<1> QED
  BY <1>1, <1>2, <1>3, <1>4, <1>5 DEF r

LEMMA DropFront ==
    ASSUME NEW S, NEW s \in Seq(S), s # <<>>
    PROVE  /\ Tail(s) \in Seq(S) /\ Head(s) \in ToSet(s)
           /\ Len(Tail(s)) = Len(s) - 1 /\ Len(s) \in Nat \ {0}
           /\ Head(s) = s[1]
           /\ \A i \in 1 .. Len(s) - 1 : Tail(s)[i] = s[i + 1]
           /\ ToSet(Tail(s)) \subseteq ToSet(s)
           /\ ToSet(s) = {Head(s)} \cup ToSet(Tail(s))
           /\ Distinct(s) => Distinct(Tail(s)) /\ Head(s) \notin ToSet(Tail(s))
<1> DEFINE r == Tail(s)
<1>1. /\ r \in Seq(S) /\ Len(r) = Len(s) - 1 /\ Len(s) \in Nat \ {0}
      /\ \A i \in 1 .. Len(s) - 1 : r[i] = s[i + 1]
  BY HeadTailProperties, EmptySeq
<1>2. Head(s) = s[1]
  OBVIOUS
<1> HIDE DEF r
<1>3. \A k \in 1 .. Len(r) : k + 1 \in 1 .. Len(s) /\ r[k] = s[k + 1]
  BY <1>1
<1>4. \A k \in 1 .. Len(s) : k # 1 => k - 1 \in 1 .. Len(r) /\ s[k] = r[k - 1]
  BY <1>1
<1>5. s[1] \in ToSet(s)
  BY <1>1, ElementsOf
<1>6. ToSet(r) \subseteq ToSet(s)
  BY <1>1, <1>3, ElementsOf
<1>7. ASSUME NEW x \in ToSet(s), x # s[1] PROVE x \in ToSet(r)
  <2>1. PICK k \in 1 .. Len(s) : x = s[k]
    BY ElementsOf
  <2>2. k - 1 \in 1 .. Len(r) /\ x = r[k - 1]
    BY <1>4, <1>7, <2>1
  <2> QED
    BY <1>1, <2>2, ElementsOf
<1>8. ASSUME Distinct(s) PROVE Distinct(r) /\ s[1] \notin ToSet(r)
  <2>1. Distinct(r)
    <3> SUFFICES ASSUME NEW i \in 1 .. Len(r), NEW j \in 1 .. Len(r), r[i] = r[j]
                 PROVE  i = j
      BY DEF Distinct
    <3>1. s[i + 1] = s[j + 1] /\ i + 1 \in 1 .. Len(s) /\ j + 1 \in 1 .. Len(s)
      BY <1>3
    <3>2. i + 1 = j + 1
      BY <1>8, <3>1 DEF Distinct
    <3> QED
      BY <3>2
  <2>2. ASSUME s[1] \in ToSet(r) PROVE FALSE
    <3>1. PICK k \in 1 .. Len(r) : s[1] = r[k]
      BY <1>1, <2>2, ElementsOf
    <3>2. k + 1 \in 1 .. Len(s) /\ s[1] = s[k + 1] /\ 1 \in 1 .. Len(s)
      BY <1>1, <1>3, <3>1
    <3>3. k + 1 = 1
      BY <1>8, <3>2 DEF Distinct
    <3> QED
      BY <3>3
  <2> QED
    BY <2>1, <2>2
<1> QED
  BY <1>1, <1>2, <1>5, <1>6, <1>7, <1>8 DEF r

(* Without the element at one place.                                       *)
LEMMA RemovePlace ==
    ASSUME NEW S, NEW s \in Seq(S), NEW i \in 1 .. Len(s), Distinct(s)
    PROVE  /\ RemoveAt(s, i) \in Seq(S) /\ Distinct(RemoveAt(s, i))
           /\ ToSet(RemoveAt(s, i)) = ToSet(s) \ {s[i]}
<1> DEFINE front == SubSeq(s, 1, i - 1)
           back == SubSeq(s, i + 1, Len(s))
           r == RemoveAt(s, i)
           old(k) == IF k < i THEN k ELSE k + 1
<1> Len(s) \in Nat
  BY LenProperties
<1>1. /\ front \in Seq(S) /\ Len(front) = i - 1
      /\ \A k \in 1 .. i - 1 : front[k] = s[k]
  BY SubSeqProperties, LenProperties
<1>2. /\ back \in Seq(S) /\ Len(back) = Len(s) - i
      /\ \A k \in 1 .. Len(s) - i : back[k] = s[i + k]
  BY SubSeqProperties, LenProperties
<1>3. r = front \o back
  BY DEF RemoveAt
<1> HIDE DEF front, back, r
<1>4. /\ r \in Seq(S) /\ Len(r) = Len(s) - 1
      /\ \A k \in 1 .. Len(s) - 1 : r[k] = IF k < i THEN front[k] ELSE back[k - (i - 1)]
  <2>1. /\ front \o back \in Seq(S) /\ Len(front \o back) = Len(front) + Len(back)
        /\ \A k \in 1 .. Len(front) + Len(back) : (front \o back)[k] =
             IF k <= Len(front) THEN front[k] ELSE back[k - Len(front)]
    BY <1>1, <1>2, ConcatProperties
  <2> QED
    BY <1>1, <1>2, <1>3, <2>1
<1>5. ASSUME NEW k \in 1 .. Len(r)
      PROVE  old(k) \in 1 .. Len(s) /\ old(k) # i /\ r[k] = s[old(k)]
  <2>1. CASE k < i
    <3>1. k \in 1 .. Len(s) /\ k # i /\ k \in 1 .. i - 1 /\ k \in 1 .. Len(s) - 1
      BY <1>4, <2>1
    <3> QED
      BY <1>1, <1>4, <2>1, <3>1
  <2>2. CASE ~(k < i)
    <3>1. k - (i - 1) \in 1 .. Len(s) - i /\ i + (k - (i - 1)) = k + 1
      BY <1>4, <2>2
    <3>2. back[k - (i - 1)] = s[k + 1]
      BY <1>2, <3>1
    <3> QED
      BY <1>4, <2>2, <3>1, <3>2
  <2> QED
    BY <2>1, <2>2
<1>6. \A k \in 1 .. Len(s) : k # i => \E j \in 1 .. Len(r) : old(j) = k
  <2> TAKE k \in 1 .. Len(s)
  <2> HAVE k # i
  <2>1. CASE k < i
    <3>1. k \in 1 .. Len(r) /\ old(k) = k
      BY <1>4, <2>1
    <3> QED
      BY <3>1
  <2>2. CASE ~(k < i)
    <3>1. k - 1 \in 1 .. Len(r) /\ old(k - 1) = k
      BY <1>4, <2>2
    <3> QED
      BY <3>1
  <2> QED
    BY <2>1, <2>2
<1>7. \A j, k \in 1 .. Len(r) : old(j) = old(k) => j = k
  BY <1>4
<1> HIDE DEF old
<1>8. Distinct(r)
  BY <1>5, <1>7 DEF Distinct
<1>9. ToSet(r) \subseteq ToSet(s) \ {s[i]}
  <2> SUFFICES ASSUME NEW x \in ToSet(r) PROVE x \in ToSet(s) \ {s[i]}
    OBVIOUS
  <2>1. PICK k \in 1 .. Len(r) : x = r[k]
    BY <1>4, ElementsOf
  <2>2. x # s[i]
    BY <1>5, <2>1 DEF Distinct
  <2> QED
    BY <1>5, <2>1, <2>2, ElementsOf
<1>10. ToSet(s) \ {s[i]} \subseteq ToSet(r)
  <2> SUFFICES ASSUME NEW x \in ToSet(s), x # s[i] PROVE x \in ToSet(r)
    OBVIOUS
  <2>1. PICK k \in 1 .. Len(s) : x = s[k] /\ k # i
    BY ElementsOf
  <2>2. PICK j \in 1 .. Len(r) : old(j) = k
    BY <1>6, <2>1
  <2> QED
    BY <1>4, <1>5, <2>1, <2>2, ElementsOf
<1> QED
  BY <1>4, <1>8, <1>9, <1>10 DEF r

(* How many of the messages are the same.                                  *)
LEMMA PlacesCounted ==
    ASSUME NEW S, NEW s \in Seq(S), NEW m
    PROVE  /\ IsFiniteSet(Places(s, m)) /\ Cardinality(Places(s, m)) \in Nat
           /\ m \in ToSet(s) <=> Cardinality(Places(s, m)) > 0
<1>1. Len(s) \in Nat /\ DOMAIN s = 1 .. Len(s)
  BY LenProperties
<1>2. Places(s, m) \subseteq 1 .. Len(s)
  BY <1>1 DEF Places
<1>3. IsFiniteSet(1 .. Len(s))
  BY <1>1, FS_Interval
<1>4. IsFiniteSet(Places(s, m))
  BY <1>2, <1>3, FS_Subset
<1>5. Cardinality(Places(s, m)) \in Nat
      /\ (Cardinality(Places(s, m)) = 0 <=> Places(s, m) = {})
  BY <1>4, FS_CardinalityType, FS_EmptySet
<1>6. m \in ToSet(s) <=> Places(s, m) # {}
  BY DEF ToSet, Places
<1> QED
  BY <1>4, <1>5, <1>6

LEMMA PlacesAppend ==
    ASSUME NEW S, NEW s \in Seq(S), NEW e \in S, NEW m
    PROVE  /\ Cardinality(Places(Append(s, e), m)) = Cardinality(Places(s, m)) + One(e = m)
           /\ Append(s, e) \in Seq(S) /\ Len(Append(s, e)) = Len(s) + 1
           /\ \A i \in 1 .. Len(s) : Append(s, e)[i] = s[i]
           /\ Append(s, e)[Len(s) + 1] = e
           /\ ToSet(Append(s, e)) = ToSet(s) \cup {e}
<1> DEFINE r == Append(s, e)
<1>1. /\ r \in Seq(S) /\ Len(r) = Len(s) + 1 /\ Len(s) \in Nat
      /\ \A i \in 1 .. Len(s) : r[i] = s[i]
      /\ r[Len(s) + 1] = e
  BY AppendProperties, LenProperties
<1> HIDE DEF r
<1>2. DOMAIN s = 1 .. Len(s) /\ DOMAIN r = 1 .. Len(s) + 1
  BY <1>1, LenProperties
<1>3. IsFiniteSet(Places(s, m)) /\ Cardinality(Places(s, m)) \in Nat
  BY PlacesCounted
<1>4. Len(s) + 1 \notin Places(s, m)
  BY <1>1, <1>2 DEF Places
<1>5. ToSet(r) = ToSet(s) \cup {e}
  BY <1>1, <1>2 DEF ToSet
<1>6. CASE e = m
  <2>1. Places(r, m) = Places(s, m) \cup {Len(s) + 1}
    BY <1>1, <1>2, <1>6 DEF Places
  <2> QED
    <3>1. Cardinality(Places(s, m) \cup {Len(s) + 1}) = Cardinality(Places(s, m)) + 1
      BY <1>3, <1>4, FS_AddElement
    <3> QED
      BY <1>1, <1>5, <1>6, <2>1, <3>1 DEF One, r
<1>7. CASE e # m
  <2>1. Places(r, m) = Places(s, m)
    BY <1>1, <1>2, <1>7 DEF Places
  <2> QED
    BY <1>1, <1>3, <1>5, <1>7, <2>1 DEF One, r
<1> QED
  BY <1>6, <1>7

LEMMA PlacesTail ==
    ASSUME NEW S, NEW s \in Seq(S), s # <<>>, NEW m
    PROVE  Cardinality(Places(s, m)) = Cardinality(Places(Tail(s), m)) + One(Head(s) = m)
<1> DEFINE r == Tail(s)
<1>1. /\ r \in Seq(S) /\ Len(r) = Len(s) - 1 /\ Len(s) \in Nat \ {0}
      /\ Head(s) = s[1]
      /\ \A i \in 1 .. Len(s) - 1 : r[i] = s[i + 1]
  BY DropFront
<1> HIDE DEF r
<1>2. DOMAIN s = 1 .. Len(s) /\ DOMAIN r = 1 .. Len(s) - 1
  BY <1>1, LenProperties
<1> DEFINE P == Places(r, m)
           Q == {i \in 2 .. Len(s) : s[i] = m}
           f == [i \in P |-> i + 1]
<1>3. P = {i \in 1 .. Len(s) - 1 : s[i + 1] = m}
  BY <1>1, <1>2 DEF Places
<1>4. f \in Bijection(P, Q)
  <2>1. f \in [P -> Q]
    BY <1>1, <1>3
  <2>2. \A a, b \in P : f[a] = f[b] => a = b
    BY <1>3
  <2>3. \A y \in Q : y - 1 \in P /\ f[y - 1] = y
    BY <1>1, <1>3
  <2> HIDE DEF f, P, Q
  <2> QED
    BY <2>1, <2>2, <2>3 DEF Bijection, Injection, Surjection, IsInjective
<1>5. IsFiniteSet(P) /\ Cardinality(P) \in Nat
  BY <1>1, PlacesCounted
<1>6. IsFiniteSet(Q) /\ Cardinality(Q) = Cardinality(P)
  <2> HIDE DEF P, Q, f
  <2> QED
    BY <1>4, <1>5, FS_Bijection DEF ExistsBijection
<1>7. CASE s[1] = m
  <2>1. Places(s, m) = Q \cup {1}
    BY <1>1, <1>2, <1>7 DEF Places
  <2>2. 1 \notin Q
    OBVIOUS
  <2> HIDE DEF Q, P
  <2> QED
    <3>1. Cardinality(Q \cup {1}) = Cardinality(Q) + 1
      BY <1>6, <2>2, FS_AddElement
    <3> QED
      BY <1>1, <1>5, <1>6, <1>7, <2>1, <3>1 DEF One, r, P
<1>8. CASE s[1] # m
  <2>1. Places(s, m) = Q
    BY <1>1, <1>2, <1>8 DEF Places
  <2> HIDE DEF Q, P
  <2> QED
    BY <1>1, <1>5, <1>6, <1>8, <2>1 DEF One, r, P
<1> QED
  BY <1>7, <1>8

LEMMA PlacesEmpty == ASSUME NEW m PROVE Cardinality(Places(<<>>, m)) = 0
<1>1. Places(<<>>, m) = {}
  BY DEF Places
<1> QED
  BY <1>1, FS_EmptySet

---------------------------------------------------------------------------
(* Devices: how the counts change with what is done to them.  All that is  *)
(* proved of a change is how the count of a device moves against that of   *)
(* its children.                                                           *)

Rising(ds, tier) ==
    \A d \in Devs : ds[d].parent # 0 =>
        ds[d].parent \in Devs /\ tier[ds[d].parent] < tier[d]
Sound(ds) == \E tier \in [Devs -> 1 .. Tiers] : Rising(ds, tier)
Same(x, y) ==
    /\ x.ctx = y.ctx /\ x.session = y.session /\ x.enumerated = y.enumerated
    /\ x.attached = y.attached /\ x.parent = y.parent
Kept(ds, d) == ds[d].refcnt - Kids(ds, d)

LEMMA DevsFinite == IsFiniteSet(Devs) /\ Devs \subseteq Nat \ {0} /\ 0 \notin Devs
  BY CoreAssumption, FS_Interval DEF Devs

LEMMA KidsCounted ==
    ASSUME NEW ds, NEW d
    PROVE  IsFiniteSet(ChildrenOf(ds, d)) /\ Kids(ds, d) \in Nat
           /\ (Kids(ds, d) = 0 <=> ChildrenOf(ds, d) = {})
<1>1. ChildrenOf(ds, d) \subseteq Devs
  BY DEF ChildrenOf
<1> QED
  BY <1>1, DevsFinite, FS_Subset, FS_CardinalityType, FS_EmptySet DEF Kids

LostKids(ds, D, d) == {e \in D \cap Devs : ds[e].parent = d}

LEMMA LostCounted ==
    ASSUME NEW ds, NEW D, NEW d, NEW S
    PROVE  /\ IsFiniteSet(LostKids(ds, D, d)) /\ Cardinality(LostKids(ds, D, d)) \in Nat
           /\ Lost(ds, S, D, d) = One(d \in S) + Cardinality(LostKids(ds, D, d))
           /\ Lost(ds, S, D, d) \in Nat
<1>1. LostKids(ds, D, d) \subseteq Devs
  BY DEF LostKids
<1>2. IsFiniteSet(LostKids(ds, D, d)) /\ Cardinality(LostKids(ds, D, d)) \in Nat
  BY <1>1, DevsFinite, FS_Subset, FS_CardinalityType
<1>3. Lost(ds, S, D, d) = One(d \in S) + Cardinality(LostKids(ds, D, d))
  BY DEF Lost, LostKids
<1>4. One(d \in S) \in Nat
  BY OneIs
<1> QED
  BY <1>2, <1>3, <1>4

(* What is destroyed is found tier by tier, from the leaves to the root.   *)
Right(ds, S, tier, n, D) ==
    D \in SUBSET Devs
      /\ \A d \in Devs : tier[d] >= n => (d \in D <=> d \in Doomed(ds, S, D))

LEMMA NextTier ==
    ASSUME NEW ds, NEW S, NEW tier \in [Devs -> 1 .. Tiers], Rising(ds, tier),
           NEW n \in Nat, \E D : Right(ds, S, tier, n + 1, D)
    PROVE  \E D : Right(ds, S, tier, n, D)
<1>1. PICK D : Right(ds, S, tier, n + 1, D)
  OBVIOUS
<1> DEFINE E == Doomed(ds, S, D)
<1>2. ASSUME NEW d \in Devs, tier[d] >= n PROVE Lost(ds, S, E, d) = Lost(ds, S, D, d)
  <2>1. ASSUME NEW e \in Devs, ds[e].parent = d PROVE e \in E <=> e \in D
    <3>1. tier[d] < tier[e] /\ tier[d] \in Int /\ tier[e] \in Int
      BY <2>1, DevsFinite DEF Rising
    <3> QED
      BY <1>1, <1>2, <3>1 DEF Right
  <2>2. LostKids(ds, E, d) = LostKids(ds, D, d)
    BY <2>1 DEF LostKids
  <2> QED
    BY <2>2, LostCounted
<1>3. \A d \in Devs : tier[d] >= n => (d \in E <=> d \in Doomed(ds, S, E))
  BY <1>2 DEF Doomed
<1>4. E \in SUBSET Devs
  BY DEF Doomed
<1> QED
  BY <1>3, <1>4 DEF Right

LEMMA DestroyedIs ==
    ASSUME NEW ds, NEW S, Sound(ds)
    PROVE  Destroyed(ds, S) \in SUBSET Devs /\ Destroyed(ds, S) = Doomed(ds, S, Destroyed(ds, S))
<1>1. PICK tier \in [Devs -> 1 .. Tiers] : Rising(ds, tier)
  BY DEF Sound
<1> DEFINE P(n) == \E D : Right(ds, S, tier, n, D)
<1>2. \A n \in Nat : P(n + 1) => P(n)
  BY <1>1, NextTier
<1>3. P(9)
  <2>1. \A d \in Devs : ~(tier[d] >= 9)
    BY <1>1 DEF Tiers
  <2> QED
    BY <2>1 DEF Right
<1> HIDE DEF P
<1>4. P(8) /\ P(7) /\ P(6) /\ P(5) /\ P(4) /\ P(3) /\ P(2) /\ P(1)
  <2>1. /\ P(7 + 1) => P(7)
        /\ P(6 + 1) => P(6)
        /\ P(5 + 1) => P(5)
        /\ P(4 + 1) => P(4)
        /\ P(3 + 1) => P(3)
        /\ P(2 + 1) => P(2)
        /\ P(1 + 1) => P(1)
    BY <1>2
  <2>2. 1 + 1 = 2 /\ 2 + 1 = 3 /\ 3 + 1 = 4 /\ 4 + 1 = 5 /\ 5 + 1 = 6 /\ 6 + 1 = 7
        /\ 7 + 1 = 8 /\ 8 + 1 = 9
    OBVIOUS
  <2>3. P(8)
    BY <1>2, <1>3, <2>2
  <2> QED
    BY <2>1, <2>2, <2>3
<1>5. PICK D : Right(ds, S, tier, 1, D)
  BY <1>4 DEF P
<1>6. D \in SUBSET Devs /\ \A d \in Devs : d \in D <=> d \in Doomed(ds, S, D)
  BY <1>1, <1>5 DEF Right
<1>7. D = Doomed(ds, S, D)
  BY <1>6 DEF Doomed
<1> QED
  BY <1>6, <1>7 DEF Destroyed

LEMMA DropTyped ==
    ASSUME NEW ds \in [Devs -> Device], NEW S
    PROVE  /\ UnrefAll(ds, S) \in [Devs -> Device]
           /\ \A d \in Devs :
                /\ Same(UnrefAll(ds, S)[d], ds[d])
                /\ UnrefAll(ds, S)[d].refcnt
                     = ds[d].refcnt - Lost(ds, S, Destroyed(ds, S), d)
<1>1. ASSUME NEW d \in Devs
      PROVE  [ds[d] EXCEPT !.refcnt = @ - Lost(ds, S, Destroyed(ds, S), d)] \in Device
  BY LostCounted DEF Device
<1> QED
  BY <1>1 DEF UnrefAll, Same, Device

(* Dropping references destroys devices, each of which drops its reference *)
(* to its parent.                                                          *)
LEMMA DropAll ==
    ASSUME NEW ds \in [Devs -> Device], NEW S \in SUBSET Devs, Sound(ds),
           \A d \in Devs : ds[d].refcnt >= Kids(ds, d) + One(d \in S)
    PROVE  \A d \in Devs :
              /\ UnrefAll(ds, S)[d].refcnt \in Nat
              /\ Kept(UnrefAll(ds, S), d) = Kept(ds, d) - One(d \in S)
<1> DEFINE new == UnrefAll(ds, S)
           D == Destroyed(ds, S)
           lost(d) == LostKids(ds, D, d)
<1>1. \A d \in Devs : Same(new[d], ds[d]) /\ new[d].refcnt = ds[d].refcnt - Lost(ds, S, D, d)
  BY DropTyped
<1>2. D \in SUBSET Devs
      /\ \A d \in Devs : d \in D <=> ds[d].refcnt > 0 /\ ds[d].refcnt = Lost(ds, S, D, d)
  BY DestroyedIs DEF Doomed
<1> HIDE DEF new, D
<1>3. ASSUME NEW d \in Devs
      PROVE  /\ lost(d) \subseteq ChildrenOf(ds, d) /\ lost(d) = ChildrenOf(ds, d) \cap D
             /\ IsFiniteSet(ChildrenOf(ds, d)) /\ Kids(ds, d) \in Nat
             /\ Cardinality(lost(d)) \in Nat /\ Cardinality(lost(d)) <= Kids(ds, d)
             /\ Lost(ds, S, D, d) = One(d \in S) + Cardinality(lost(d)) /\ One(d \in S) \in Nat
             /\ ds[d].refcnt \in Int
  <2>1. lost(d) = ChildrenOf(ds, d) \cap D
    BY <1>2 DEF LostKids, ChildrenOf
  <2>2. IsFiniteSet(ChildrenOf(ds, d)) /\ Kids(ds, d) \in Nat /\ One(d \in S) \in Nat
    BY KidsCounted, OneIs
  <2>3. Cardinality(lost(d)) \in Nat /\ Lost(ds, S, D, d) = One(d \in S) + Cardinality(lost(d))
    BY LostCounted
  <2>4. lost(d) \subseteq ChildrenOf(ds, d)
    BY <2>1
  <2>5. Cardinality(lost(d)) <= Kids(ds, d)
    BY <2>2, <2>4, FS_Subset DEF Kids
  <2> QED
    BY <2>1, <2>2, <2>3, <2>4, <2>5 DEF Device
<1>4. \A d \in Devs : new[d].refcnt \in Nat
  <2> TAKE d \in Devs
  <2>1. ds[d].refcnt >= Kids(ds, d) + One(d \in S)
    OBVIOUS
  <2> QED
    BY <1>1, <1>3, <2>1
<1> SUFFICES ASSUME NEW d \in Devs PROVE Kept(new, d) = Kept(ds, d) - One(d \in S)
  BY <1>4 DEF new
<1>5. ChildrenOf(new, d) = ChildrenOf(ds, d) \ D
  <2>1. ASSUME NEW e \in Devs
        PROVE  new[e].refcnt > 0 /\ new[e].parent = d
                 <=> ds[e].refcnt > 0 /\ ds[e].parent = d /\ e \notin D
    <3>1. new[e].parent = ds[e].parent /\ new[e].refcnt = ds[e].refcnt - Lost(ds, S, D, e)
          /\ new[e].refcnt \in Nat /\ ds[e].refcnt \in Int /\ Lost(ds, S, D, e) \in Nat
      BY <1>1, <1>3, <1>4, LostCounted DEF Same
    <3>2. e \in D <=> ds[e].refcnt > 0 /\ ds[e].refcnt = Lost(ds, S, D, e)
      BY <1>2
    <3> QED
      BY <3>1, <3>2
  <2> QED
    BY <2>1 DEF ChildrenOf
<1>6. Kids(new, d) = Kids(ds, d) - Cardinality(lost(d)) /\ Kids(new, d) \in Nat
  <2>1. ChildrenOf(ds, d) \cap D = lost(d) /\ IsFiniteSet(ChildrenOf(ds, d))
    BY <1>3
  <2> QED
    <3>1. Cardinality(ChildrenOf(ds, d) \ D)
            = Cardinality(ChildrenOf(ds, d)) - Cardinality(lost(d))
      BY <2>1, FS_Difference
    <3>2. Kids(new, d) \in Nat
      BY KidsCounted
    <3> QED
      BY <1>5, <3>1, <3>2 DEF Kids
<1>7. new[d].refcnt = ds[d].refcnt - Lost(ds, S, D, d)
  BY <1>1
<1>8. new[d].refcnt - Kids(new, d) = (ds[d].refcnt - Kids(ds, d)) - One(d \in S)
  BY <1>3, <1>6, <1>7
<1> QED
  BY <1>8 DEF Kept

(* Referring to a device that is alive.                                    *)
LEMMA RaiseAll ==
    ASSUME NEW ds \in [Devs -> Device], NEW S \in SUBSET Devs
    PROVE  /\ RefAll(ds, S) \in [Devs -> Device]
           /\ \A d \in Devs :
                /\ Same(RefAll(ds, S)[d], ds[d])
                /\ RefAll(ds, S)[d].refcnt = ds[d].refcnt + One(d \in S)
           /\ (\A d \in S : ds[d].refcnt > 0) =>
                \A d \in Devs : Kept(RefAll(ds, S), d) = Kept(ds, d) + One(d \in S)
<1> DEFINE new == RefAll(ds, S)
<1>1. new \in [Devs -> Device]
  BY DEF RefAll, Device
<1>2. \A d \in Devs : Same(new[d], ds[d]) /\ new[d].refcnt = ds[d].refcnt + One(d \in S)
  BY DEF RefAll, Same, Device, One
<1> HIDE DEF new
<1>3. ASSUME \A d \in S : ds[d].refcnt > 0, NEW d \in Devs
      PROVE  Kept(new, d) = Kept(ds, d) + One(d \in S)
  <2>1. \A e \in Devs : new[e].refcnt > 0 <=> ds[e].refcnt > 0
    BY <1>2, <1>3 DEF One, Device
  <2>2. ChildrenOf(new, d) = ChildrenOf(ds, d)
    BY <1>2, <2>1 DEF ChildrenOf, Same
  <2>3. Kids(new, d) = Kids(ds, d) /\ Kids(ds, d) \in Nat
    BY <2>2, KidsCounted DEF Kids
  <2>4. ds[d].refcnt \in Int /\ One(d \in S) \in Nat
    BY OneIs DEF Device
  <2> QED
    BY <1>2, <2>3, <2>4 DEF Kept
<1> QED
  BY <1>1, <1>2, <1>3 DEF new

LEMMA RaiseOne ==
    ASSUME NEW ds \in [Devs -> Device], NEW x
    PROVE  Ref(ds, x) = RefAll(ds, {x})
  BY DEF Ref, RefAll, Device

(* A new device has no children.                                           *)
AllBut(ds, new, n) == \A d \in Devs : d # n => new[d] = ds[d]

LEMMA NewDevice ==
    ASSUME NEW ds, NEW new, NEW n \in Devs, AllBut(ds, new, n), ds[n].refcnt = 0,
           new[n].refcnt = 1, new[n].parent = 0, \A d \in Devs : ds[d].parent # n
    PROVE  \A d \in Devs : Kept(new, d) = IF d = n THEN 1 ELSE Kept(ds, d)
<1>1. \A d \in Devs : d # n => new[d] = ds[d]
  BY DEF AllBut
<1>2. ASSUME NEW d \in Devs PROVE ChildrenOf(new, d) = ChildrenOf(ds, d)
  <2>1. ds[n].refcnt = 0 /\ d # 0
    BY DevsFinite
  <2>2. ~(new[n].parent = d) /\ ~(ds[n].refcnt > 0)
    BY <1>1, <2>1
  <2>3. \A e \in Devs : (new[e].refcnt > 0 /\ new[e].parent = d)
                          <=> (ds[e].refcnt > 0 /\ ds[e].parent = d)
    BY <1>1, <2>2
  <2> QED
    BY <2>3 DEF ChildrenOf
<1>3. ChildrenOf(new, n) = {}
  BY <1>1, DevsFinite DEF ChildrenOf
<1>4. Kids(new, n) = 0 /\ \A d \in Devs : Kids(new, d) = Kids(ds, d)
  BY <1>2, <1>3, KidsCounted DEF Kids
<1> QED
  BY <1>1, <1>4 DEF Kept

(* A device gets its parent.                                               *)
Adopted(ds, new, a, p) == new = [Ref(ds, p) EXCEPT ![a].parent = p]

LEMMA Adopt ==
    ASSUME NEW ds \in [Devs -> Device], NEW new, NEW a \in Devs, NEW p \in Devs,
           Adopted(ds, new, a, p), a # p,
           ds[a].parent = 0, ds[a].refcnt > 0, ds[p].refcnt > 0
    PROVE  /\ new \in [Devs -> Device]
           /\ \A d \in Devs :
                /\ new[d].ctx = ds[d].ctx /\ new[d].session = ds[d].session
                /\ new[d].enumerated = ds[d].enumerated
                /\ new[d].parent = IF d = a THEN p ELSE ds[d].parent
                /\ new[d].refcnt = ds[d].refcnt + One(d = p)
                /\ Kept(new, d) = Kept(ds, d)
<1> DEFINE mid == Ref(ds, p)
<1>0. new = [mid EXCEPT ![a].parent = p]
  BY DEF Adopted
<1>1. mid \in [Devs -> Device] /\ mid[p].refcnt = ds[p].refcnt + 1
      /\ \A d \in Devs : Same(mid[d], ds[d]) /\ (d # p => mid[d].refcnt = ds[d].refcnt)
  BY DEF Ref, Same, Device
<1> HIDE DEF mid
<1>2. new \in [Devs -> Device]
      /\ \A d \in Devs :
            /\ new[d].ctx = ds[d].ctx /\ new[d].session = ds[d].session
            /\ new[d].enumerated = ds[d].enumerated
            /\ new[d].parent = IF d = a THEN p ELSE ds[d].parent
            /\ new[d].refcnt = IF d = p THEN ds[d].refcnt + 1 ELSE ds[d].refcnt
  <2>1. p \in 0 .. MaxDevices
    BY CoreAssumption DEF Devs
  <2>2. new \in [Devs -> Device]
    BY <1>0, <1>1, <2>1 DEF Device
  <2> QED
    BY <1>0, <1>1, <2>2 DEF Same, Device
<1>3. \A e \in Devs : new[e].refcnt > 0 <=> ds[e].refcnt > 0
  BY <1>2 DEF Device
<1>4. ChildrenOf(new, p) = ChildrenOf(ds, p) \cup {a} /\ a \notin ChildrenOf(ds, p)
  <2>1. \A e \in Devs : (new[e].refcnt > 0 /\ new[e].parent = p)
                          <=> (ds[e].refcnt > 0 /\ ds[e].parent = p) \/ e = a
    BY <1>2, <1>3
  <2>2. ds[a].parent # p
    BY DevsFinite
  <2> QED
    BY <2>1, <2>2 DEF ChildrenOf
<1>5. ASSUME NEW d \in Devs, d # p PROVE ChildrenOf(new, d) = ChildrenOf(ds, d)
  <2>1. ds[a].parent # d /\ new[a].parent # d
    BY <1>2, <1>5, DevsFinite
  <2>2. \A e \in Devs : (new[e].refcnt > 0 /\ new[e].parent = d)
                          <=> (ds[e].refcnt > 0 /\ ds[e].parent = d)
    BY <1>2, <1>3, <2>1
  <2> QED
    BY <2>2 DEF ChildrenOf
<1>6. Kids(new, p) = Kids(ds, p) + 1
  <2>1. IsFiniteSet(ChildrenOf(ds, p))
    BY KidsCounted
  <2> QED
    BY <1>4, <2>1, FS_AddElement DEF Kids
<1>7. \A d \in Devs : d # p => Kids(new, d) = Kids(ds, d)
  BY <1>5 DEF Kids
<1>8. ASSUME NEW d \in Devs
      PROVE  Kept(new, d) = Kept(ds, d) /\ new[d].refcnt = ds[d].refcnt + One(d = p)
  <2>1. ds[d].refcnt \in Int /\ Kids(ds, d) \in Nat
    BY KidsCounted DEF Device
  <2> QED
    BY <1>2, <1>6, <1>7, <2>1 DEF Kept, One
<1> QED
  BY <1>2, <1>8

(* Marking a device attached or not.                                       *)
Marked(ds, new, x, b) == new = [ds EXCEPT ![x].attached = b]

LEMMA Mark ==
    ASSUME NEW ds \in [Devs -> Device], NEW new, NEW x, NEW b \in BOOLEAN,
           Marked(ds, new, x, b)
    PROVE  /\ new \in [Devs -> Device]
           /\ \A d \in Devs :
                /\ new[d].ctx = ds[d].ctx /\ new[d].session = ds[d].session
                /\ new[d].enumerated = ds[d].enumerated
                /\ new[d].parent = ds[d].parent /\ new[d].refcnt = ds[d].refcnt
                /\ Kept(new, d) = Kept(ds, d)
<1>1. new \in [Devs -> Device]
      /\ \A d \in Devs :
            /\ new[d].ctx = ds[d].ctx /\ new[d].session = ds[d].session
            /\ new[d].enumerated = ds[d].enumerated
            /\ new[d].parent = ds[d].parent /\ new[d].refcnt = ds[d].refcnt
  BY DEF Marked, Device
<1>2. \A d \in Devs : ChildrenOf(new, d) = ChildrenOf(ds, d)
  BY <1>1 DEF ChildrenOf
<1> QED
  BY <1>1, <1>2 DEF Kept, Kids

---------------------------------------------------------------------------
(* What is known while nothing has gone wrong.                             *)

Sane == /\ Types /\ Counted /\ Watched /\ ~fault
        /\ Placed /\ Owned /\ Tree /\ BornOnce /\ Lasting /\ Referred

LEMMA NoDeviceTyped == NoDevice \in Device
  BY CoreAssumption DEF NoDevice, Device

LEMMA DevsAre == Devs = 1 .. MaxDevices /\ MaxDevices \in Nat
  BY CoreAssumption DEF Devs

LEMMA AddedTyped ==
    ASSUME Sane, hot.pc \in Adding
    PROVE  /\ hot.adding \in Seq(Devs) /\ hot.adding # <<>>
           /\ Added \in ToSet(hot.adding) /\ Added \in 1 .. allocated
           /\ Added \in Devs /\ dev[Added].ctx \in hot.todo
           /\ dev[Added].ctx \in Contexts
           /\ hot.todo \subseteq active /\ dev[Added].ctx \in active
           /\ Len(hot.adding) \in Nat \ {0}
           /\ (Len(hot.adding) # 1 <=> Tail(hot.adding) # <<>>)
<1>1. hot.adding \in Seq(Devs) /\ hot.todo \subseteq Contexts
  BY DEF Sane, Types, HotTypes, Holder
<1>2. hot.adding # <<>> /\ dev[Added].ctx \in hot.todo
      /\ \A d \in ToSet(hot.adding) : d \in Of(dev[Added].ctx)
  BY DEF Sane, Owned, Owns, HotOwns
<1>3. Added \in ToSet(hot.adding) /\ Len(hot.adding) \in Nat \ {0}
      /\ Tail(hot.adding) \in Seq(Devs) /\ Len(Tail(hot.adding)) = Len(hot.adding) - 1
  BY <1>1, <1>2, DropFront DEF Added
<1>4. hot.todo \subseteq active
  BY DEF Sane, Placed, Held
<1>5. Added \in 1 .. allocated /\ Added \in Devs
  BY <1>1, <1>2, <1>3, ElementsOf DEF Of
<1>6. Len(hot.adding) # 1 <=> Tail(hot.adding) # <<>>
  <2> DEFINE r == Tail(hot.adding)
  <2>1. r \in Seq(Devs) /\ Len(r) = Len(hot.adding) - 1
    BY <1>3
  <2>2. r # <<>> => Len(r) \in Nat \ {0}
    BY <2>1, EmptySeq
  <2>3. r = <<>> => Len(r) = 0
    BY EmptySeq
  <2> HIDE DEF r
  <2>4. Len(hot.adding) # 1 <=> r # <<>>
    BY <1>3, <2>1, <2>2, <2>3
  <2> QED
    BY <2>4 DEF r
<1> QED
  BY <1>1, <1>2, <1>3, <1>4, <1>5, <1>6

(* The first device of a session.                                          *)
LEMMA ByDeviceFound ==
    ASSUME Types, NEW c \in Contexts, NEW s, InSession(c, s) # {}
    PROVE  ByDevice(c, s) \in ToSet(usb_devs[c]) /\ ByDevice(c, s) \in Devs
           /\ dev[ByDevice(c, s)].session = s
<1> DEFINE q == usb_devs[c]
           P(i) == dev[q[i]].session = s
           before == OpToRel(<, Nat)
           T == {i \in Nat : i \in DOMAIN q /\ P(i)}
           first(i) == P(i) /\ \A j \in 1 .. (i - 1) : dev[q[j]].session # s
<1>1. q \in Seq(Devs)
  BY DEF Types, DeviceTypes
<1>2. DOMAIN q = 1 .. Len(q) /\ Len(q) \in Nat /\ ToSet(q) \subseteq Devs
  BY <1>1, ElementsOf
<1>3. T \subseteq Nat /\ T # {}
  <2>1. PICK d \in ToSet(q) : dev[d].session = s
    BY DEF InSession
  <2>2. PICK i \in 1 .. Len(q) : d = q[i]
    BY <1>2, <2>1 DEF ToSet
  <2>3. i \in T
    BY <1>2, <2>1, <2>2
  <2> QED
    BY <2>3
<1>4. IsWellFoundedOn(before, Nat)
  BY NatLessThanWellFounded
<1>5. \A m, n \in Nat : <<m, n>> \in before <=> m < n
  BY DEF OpToRel
<1> HIDE DEF before
<1>6. PICK n \in T : \A m \in T : ~(<<m, n>> \in before)
  <2> HIDE DEF T
  <2> QED
    BY <1>3, <1>4, WFMin
<1>7. n \in DOMAIN q /\ first(n)
  <2>1. ASSUME NEW j \in 1 .. (n - 1) PROVE dev[q[j]].session # s
    <3>1. j \in Nat /\ j < n /\ j \in DOMAIN q
      BY <1>2
    <3>2. j \notin T
      BY <1>5, <1>6, <3>1
    <3> QED
      BY <3>1, <3>2
  <2> QED
    BY <2>1
<1>8. \E i \in DOMAIN q : first(i)
  BY <1>7
<1> DEFINE k == CHOOSE i \in DOMAIN q : first(i)
<1>9. k \in DOMAIN q /\ first(k)
  <2> HIDE DEF first
  <2> QED
    BY <1>8
<1>10. ByDevice(c, s) = q[k]
  BY DEF ByDevice
<1> HIDE DEF k
<1> QED
  BY <1>2, <1>9, <1>10 DEF ToSet

---------------------------------------------------------------------------
(* The monitor.                                                            *)

LEMMA WatchedKept ==
    ASSUME Types, Watched, UNCHANGED <<watch, default>>,
           hot'.by = "monitor" => hot.by = "monitor",
           \A c \in Contexts : /\ app'[c] \in Counting <=> app[c] \in Counting
                               /\ app'[c] \in Joining <=> app[c] \in Joining
    PROVE  Watched'
<1>1. Wanting' = Wanting
  BY DEF Wanting
<1> HIDE DEF Counting, Joining
<1> QED
  BY <1>1 DEF Watched, MonitorEnds, watch

LEMMA WantingFinite == IsFiniteSet(Wanting) /\ Cardinality(Wanting) \in Nat
<1>1. Wanting \subseteq Contexts
  BY DEF Wanting
<1> QED
  BY <1>1, CoreAssumption, FS_Subset, FS_CardinalityType

LEMMA WantingMoves ==
    ASSUME Types, Watched, NEW c \in Contexts, NEW l, GoTo(c, l)
    PROVE  Cardinality(Wanting')
             = init_count + One(l \in Counting) - One(app[c] \in Counting)
<1>1. \A x \in Contexts : app'[x] = IF x = c THEN l ELSE app[x]
  BY DEF Types, ContextTypes, GoTo
<1>2. init_count = Cardinality(Wanting) /\ init_count \in Nat
  BY WantingFinite DEF Watched
<1>3. CASE l \in Counting /\ app[c] \notin Counting
  <2>1. Wanting' = Wanting \cup {c} /\ c \notin Wanting
    BY <1>1, <1>3 DEF Wanting
  <2> QED
    BY <1>2, <1>3, <2>1, WantingFinite, FS_AddElement DEF One
<1>4. CASE l \notin Counting /\ app[c] \in Counting
  <2>1. Wanting' = Wanting \ {c} /\ c \in Wanting
    BY <1>1, <1>4 DEF Wanting
  <2>2. Cardinality(Wanting \ {c}) = Cardinality(Wanting) - 1
    BY <2>1, WantingFinite, FS_RemoveElement
  <2>3. One(l \in Counting) = 0 /\ One(app[c] \in Counting) = 1
    BY <1>4 DEF One
  <2> QED
    BY <1>2, <2>1, <2>2, <2>3
<1>5. CASE l \in Counting <=> app[c] \in Counting
  <2>1. Wanting' = Wanting
    BY <1>1, <1>5 DEF Wanting
  <2> QED
    BY <1>2, <1>5, <2>1 DEF One
<1> QED
  BY <1>3, <1>4, <1>5

LEMMA WatchedInit == Init => Watched
<1> SUFFICES ASSUME Init PROVE Watched
  OBVIOUS
<1>1. Wanting = {}
  BY DEF Init, Wanting, Counting
<1>2. Cardinality(Wanting) = 0
  BY <1>1, FS_EmptySet
<1>3. default \in [ctx : Contexts \cup {NoOne}, refcnt : 0 .. 1]
      /\ default.refcnt = One(default.ctx # NoOne)
  BY DEF Init, One
<1>4. \A c \in Contexts : app[c] \in Joining <=> stopping = c
  BY CoreAssumption DEF Init, Joining
<1>5. hot.by # "monitor"
  BY CoreAssumption DEF Init, Unlocked
<1> QED
  BY <1>2, <1>3, <1>4, <1>5 DEF Init, Watched, MonitorEnds

LEMMA WatchedMonitor ==
    ASSUME Sane, Wake \/ LockHot \/ MonitorLeaves
    PROVE  Watched'
<1>1. UNCHANGED <<app, default, socket, init_count, stopping>>
  BY DEF Wake, LockHot, MonitorLeaves, context
<1>2. Wanting' = Wanting
  BY <1>1 DEF Wanting
<1>3. control \in BOOLEAN /\ (control => stopping # NoOne)
      /\ (hot.by = "monitor" => monitor = "reading")
  BY DEF Sane, Watched
<1> DEFINE Goal == /\ control' \in BOOLEAN /\ (control' => control)
                   /\ monitor' \in {"off", "polling", "locking", "reading"}
                   /\ monitor' = "off" => stopping # NoOne
                   /\ monitor # "off"
                   /\ hot'.by = "monitor" => monitor' = "reading"
<1> SUFFICES Goal
  <2>1. Watched
    BY DEF Sane
  <2> HIDE DEF Counting, Joining
  <2> QED
    BY <1>1, <1>2, <2>1 DEF Watched, MonitorEnds
<1>4. CASE Wake
  BY <1>3, <1>4 DEF Wake
<1>5. CASE LockHot
  BY <1>3, <1>5 DEF LockHot
<1>6. CASE MonitorLeaves
  <2>1. hot'.by = NoOne
    BY <1>6 DEF MonitorLeaves, Leave, Unlocked
  <2> QED
    BY <1>3, <1>6, <2>1, CoreAssumption DEF MonitorLeaves
<1> QED
  BY <1>4, <1>5, <1>6

LEMMA WatchedMoves ==
    ASSUME Types, Watched, NEW c \in Contexts, NEW l, GoTo(c, l),
           UNCHANGED <<watch, default>>, hot'.by = "monitor" => hot.by = "monitor",
           l \in Counting <=> app[c] \in Counting,
           l \in Joining <=> app[c] \in Joining
    PROVE  Watched'
<1>1. \A x \in Contexts : app'[x] = IF x = c THEN l ELSE app[x]
  BY DEF Types, ContextTypes, GoTo
<1> HIDE DEF Counting, Joining
<1>2. \A x \in Contexts : /\ app'[x] \in Counting <=> app[x] \in Counting
                          /\ app'[x] \in Joining <=> app[x] \in Joining
  BY <1>1
<1> QED
  BY <1>2, WatchedKept

LEMMA SectionHolder ==
    ASSUME Sane, Section
    PROVE  hot'.by = hot.by
<1> HotTypes
  BY DEF Sane, Types
<1>1. CASE linux_netlink_read_message \/ Handled \/ Detach \/ Initialize \/ Connect
  BY <1>1 DEF linux_netlink_read_message, Handled, Detach, Initialize, Connect, Handle, HotTypes, Holder
<1>2. ASSUME NEW c \in Contexts, FindRemoved(c) \/ Unlist(c) \/ TellLeft(c) \/ DropFound(c)
      PROVE  hot'.by = hot.by
  BY <1>2 DEF FindRemoved, Unlist, TellLeft, DropFound, NextContext, HotTypes, Holder
<1>3. ASSUME NEW c \in Contexts, FindAdded(c) \/ InitializeFails(c) \/ FindParent(c) \/ TellArrived(c)
      PROVE  hot'.by = hot.by
  BY <1>3 DEF FindAdded, InitializeFails, FindParent, TellArrived, NextContext, Resume,
              Allocate, HotTypes, Holder
<1> QED
  BY <1>1, <1>2, <1>3 DEF Section

LEMMA WatchedSection ==
    ASSUME Sane, Section
    PROVE  Watched'
<1>1. UNCHANGED context /\ UNCHANGED watch
  BY DEF Section, linux_netlink_read_message, Handled, Detach, Initialize, Connect,
         FindRemoved, Unlist, TellLeft, DropFound, FindAdded, InitializeFails,
         FindParent, TellArrived
<1>2. hot'.by = hot.by
  BY SectionHolder
<1>3. app' = app /\ default' = default
  BY <1>1 DEF context
<1> QED
  BY <1>1, <1>2, <1>3, WatchedKept DEF Sane

LEMMA WatchedQuiet ==
    ASSUME Sane, Kernel \/ \E c \in Contexts : EventThread(c)
    PROVE  Watched'
<1>1. UNCHANGED <<watch, app, default>>
  BY DEF Kernel, Plug, Unplug, EventThread, TakeMessage, Match, NoticeGone, NoticeLeaves, context
<1>2. hot'.by = "monitor" => hot.by = "monitor"
  <2>1. CASE Kernel
    BY <2>1 DEF Kernel, Plug, Unplug
  <2>2. ASSUME NEW c \in Contexts, TakeMessage(c) \/ Match(c)
        PROVE  hot' = hot
    BY <2>2 DEF TakeMessage, Match
  <2>3. ASSUME NEW c \in Contexts, NoticeGone(c) \/ NoticeLeaves(c)
        PROVE  hot'.by # "monitor"
    <3>1. CASE NoticeGone(c)
      BY <3>1, CoreAssumption DEF NoticeGone, Disconnect, Unlocked
    <3>2. CASE NoticeLeaves(c)
      BY <3>2, CoreAssumption DEF NoticeLeaves, Leave, Unlocked
    <3> QED
      BY <2>3, <3>1, <3>2
  <2> QED
    BY <2>1, <2>2, <2>3 DEF EventThread
<1>3. \A c \in Contexts : app'[c] = app[c]
  BY <1>1
<1> QED
  BY <1>1, <1>2, <1>3, WatchedKept DEF Sane

(* An application: where it goes to, when that says nothing to the monitor.*)
LEMMA WatchedApplication ==
    ASSUME Sane, NEW c \in Contexts, Application(c)
    PROVE  Watched'
<1> USE DEF At
<1> Types /\ Watched
  BY DEF Sane
<1>1. CASE InitContext(c)
  <2>1. /\ app[c] = "start" /\ GoTo(c, "init_backend") /\ UNCHANGED watch /\ hot' = hot
        /\ default' = IF default.ctx = NoOne
                      THEN [ctx |-> c, refcnt |-> default.refcnt + 1] ELSE default
    BY <1>1 DEF InitContext
  <2>2. \A x \in Contexts : app'[x] = IF x = c THEN "init_backend" ELSE app[x]
    BY <2>1 DEF Types, ContextTypes, GoTo
  <2>3. Wanting' = Wanting /\ \A x \in Contexts : app'[x] \in Joining <=> app[x] \in Joining
    BY <2>1, <2>2 DEF Wanting, Counting, Joining
  <2>4. default' \in [ctx : Contexts \cup {NoOne}, refcnt : 0 .. 1]
        /\ default'.refcnt = One(default'.ctx # NoOne)
    BY <2>1, CoreAssumption DEF Watched, One
  <2> QED
    BY <2>1, <2>3, <2>4 DEF Watched, MonitorEnds, watch
<1>2. CASE InitBackend(c)
  <2>1. /\ app[c] = "init_backend" /\ GoTo(c, "init_io") /\ stopping = NoOne
        /\ UNCHANGED <<default, control, stopping, hot>>
        /\ init_count' = init_count + 1
        /\ IF init_count = 0 THEN linux_start_event_monitor
           ELSE socket' = socket /\ monitor' = monitor
    BY <1>2 DEF InitBackend
  <2>2. \A x \in Contexts : app'[x] = IF x = c THEN "init_io" ELSE app[x]
    BY <2>1 DEF Types, ContextTypes, GoTo
  <2>3. \A x \in Contexts : app'[x] \in Joining <=> app[x] \in Joining
    BY <2>1, <2>2 DEF Joining
  <2>4. One("init_io" \in Counting) = 1 /\ One(app[c] \in Counting) = 0
    BY <2>1 DEF One, Counting, AppLabels, Joining
  <2>5. init_count \in Nat
    BY WantingFinite DEF Watched
  <2>6. init_count' = Cardinality(Wanting') /\ init_count' # 0
    BY <2>1, <2>4, <2>5, WantingMoves
  <2>7. /\ socket' \in {"none", "bound", "stale"}
        /\ monitor' \in {"off", "polling", "locking", "reading"}
        /\ monitor' # "off" <=> socket' = "bound"
        /\ monitor' = monitor \/ monitor = "off"
    BY <2>1 DEF Watched, MonitorEnds, linux_start_event_monitor
  <2> HIDE DEF Counting, Joining
  <2> QED
    BY <2>1, <2>3, <2>6, <2>7 DEF Watched, MonitorEnds
<1>3. CASE UndoContext(c)
  <2>1. /\ app[c] = "undo_context" /\ GoTo(c, "gone") /\ UNCHANGED watch /\ hot' = hot
        /\ default' = IF default.ctx = c
                      THEN [ctx |-> NoOne, refcnt |-> default.refcnt - 1] ELSE default
    BY <1>3 DEF UndoContext
  <2>2. \A x \in Contexts : app'[x] = IF x = c THEN "gone" ELSE app[x]
    BY <2>1 DEF Types, ContextTypes, GoTo
  <2>3. Wanting' = Wanting /\ \A x \in Contexts : app'[x] \in Joining <=> app[x] \in Joining
    BY <2>1, <2>2 DEF Wanting, Counting, Joining
  <2>4. default' \in [ctx : Contexts \cup {NoOne}, refcnt : 0 .. 1]
        /\ default'.refcnt = One(default'.ctx # NoOne)
    BY <2>1, CoreAssumption DEF Watched, One
  <2> QED
    BY <2>1, <2>3, <2>4 DEF Watched, MonitorEnds, watch
<1>4. CASE ExitDefault(c)
  <2>1. /\ app[c] = "exit_default" /\ GoTo(c, "exit_active") /\ UNCHANGED watch /\ hot' = hot
        /\ default' = IF default.ctx = c THEN [ctx |-> NoOne, refcnt |-> 0] ELSE default
    BY <1>4 DEF ExitDefault, Watched
  <2>2. \A x \in Contexts : app'[x] = IF x = c THEN "exit_active" ELSE app[x]
    BY <2>1 DEF Types, ContextTypes, GoTo
  <2>3. Wanting' = Wanting /\ \A x \in Contexts : app'[x] \in Joining <=> app[x] \in Joining
    BY <2>1, <2>2 DEF Wanting, Counting, Joining, AppLabels
  <2>4. default' \in [ctx : Contexts \cup {NoOne}, refcnt : 0 .. 1]
        /\ default'.refcnt = One(default'.ctx # NoOne)
    BY <2>1, CoreAssumption DEF Watched, One
  <2> QED
    BY <2>1, <2>3, <2>4 DEF Watched, MonitorEnds, watch
<1>5. CASE OpExit(c)
  <2>1. /\ app[c] \in {"exit_backend", "undo_backend"} /\ stopping = NoOne
        /\ UNCHANGED <<default, monitor, socket, hot>>
        /\ init_count' = init_count - 1
    BY <1>5 DEF OpExit
  <2>2. init_count \in Nat /\ One(app[c] \in Counting) = 1
    BY <2>1, WantingFinite DEF Watched, Counting, One, AppLabels, Joining
  <2>3. init_count # 0
    <3>1. c \in Wanting
      BY <2>1 DEF Wanting, Counting, AppLabels, Joining
    <3>2. Wanting # {} => Cardinality(Wanting) # 0
      BY WantingFinite, FS_EmptySet
    <3> QED
      BY <3>1, <3>2 DEF Watched
  <2>4. CASE init_count = 1 /\ socket # "none"
    <3> DEFINE l == IF app[c] = "exit_backend" THEN "exit_join" ELSE "undo_join"
    <3>1. stopping' = c /\ control' \in BOOLEAN /\ GoTo(c, l)
      BY <1>5, <2>4 DEF OpExit
    <3>2. \A x \in Contexts : app'[x] = IF x = c THEN l ELSE app[x]
      BY <3>1 DEF Types, ContextTypes, GoTo
    <3>3. \A x \in Contexts : app'[x] \in Joining <=> c = x
      BY <2>1, <3>2, CoreAssumption DEF Watched, Joining
    <3>4. One(l \in Counting) = 0
      BY DEF One, Counting, Joining
    <3>5. init_count' = Cardinality(Wanting') /\ init_count' = 0
      <4> HIDE DEF l
      <4> QED
        BY <2>1, <2>2, <2>4, <3>1, <3>4, WantingMoves
    <3>6. c # NoOne /\ (monitor # "off" => socket = "bound")
      BY CoreAssumption DEF Watched, MonitorEnds
    <3> HIDE DEF l, Counting, Joining
    <3> QED
      BY <2>1, <3>1, <3>3, <3>5, <3>6 DEF Watched, MonitorEnds
  <2>5. CASE ~(init_count = 1 /\ socket # "none")
    <3> DEFINE l == IF app[c] = "exit_backend" THEN "gone" ELSE "undo_context"
    <3>1. stopping' = NoOne /\ control' = control /\ GoTo(c, l)
      BY <1>5, <2>1, <2>5 DEF OpExit, AfterExit
    <3>2. \A x \in Contexts : app'[x] = IF x = c THEN l ELSE app[x]
      BY <3>1 DEF Types, ContextTypes, GoTo
    <3>3. \A x \in Contexts : app'[x] \in Joining <=> app[x] \in Joining
      BY <2>1, <3>2 DEF Joining
    <3>4. One(l \in Counting) = 0
      BY DEF One, Counting, Joining
    <3>5. init_count' = Cardinality(Wanting')
      <4> HIDE DEF l
      <4> QED
        BY <2>1, <2>2, <3>1, <3>4, WantingMoves
    <3>6. init_count' = 0 => monitor = "off" /\ socket = "none"
      BY <2>1, <2>2, <2>3, <2>5 DEF Watched, MonitorEnds
    <3> HIDE DEF l, Counting, Joining
    <3> QED
      BY <2>1, <3>1, <3>3, <3>5, <3>6 DEF Watched, MonitorEnds
  <2> QED
    BY <2>4, <2>5
<1>6. CASE MonitorJoined(c)
  <2> DEFINE l == IF app[c] = "exit_join" THEN "gone" ELSE "undo_context"
  <2>1. /\ app[c] \in Joining /\ monitor = "off"
        /\ UNCHANGED <<default, monitor, init_count, hot>>
        /\ socket' = "none" /\ control' = FALSE /\ stopping' = NoOne /\ GoTo(c, l)
    BY <1>6 DEF MonitorJoined, AfterExit, Joining
  <2>2. \A x \in Contexts : app'[x] = IF x = c THEN l ELSE app[x]
    BY <2>1 DEF Types, ContextTypes, GoTo
  <2>3. stopping = c
    BY <2>1 DEF Watched
  <2>4. \A x \in Contexts : app'[x] \notin Joining
    BY <2>2, <2>3 DEF Watched, Joining
  <2>5. One(l \in Counting) = 0 /\ One(app[c] \in Counting) = 0
    BY <2>1 DEF One, Counting, Joining
  <2>6. init_count' = Cardinality(Wanting')
    <3>1. init_count \in Nat
      BY WantingFinite DEF Watched
    <3> HIDE DEF l
    <3> QED
      BY <2>1, <2>5, <3>1, WantingMoves
  <2> HIDE DEF l, Counting
  <2> QED
    BY <2>1, <2>4, <2>6, CoreAssumption DEF Watched, MonitorEnds
<1> USE DEF Counting, Joining, AppLabels
<1>7. CASE InitBackendFails(c)
  BY <1>7, WatchedMoves DEF InitBackendFails
<1>8. CASE InitIo(c)
  BY <1>8, WatchedMoves DEF InitIo
<1>9. CASE \E s \in Dongles : GetDevice2(c, s)
  BY <1>9, WatchedMoves DEF GetDevice2
<1>10. CASE GetDevice2Fails(c)
  BY <1>10, WatchedMoves DEF GetDevice2Fails
<1>11. CASE Device2Arrives(c)
  BY <1>11, WatchedMoves DEF Device2Arrives
<1>12. CASE Open2(c)
  BY <1>12, WatchedMoves DEF Open2
<1>13. CASE PollUevents(c)
  <2>1. hot'.by # "monitor"
    BY <1>13, CoreAssumption DEF PollUevents, Unlocked
  <2> QED
    BY <1>13, <2>1, WatchedMoves DEF PollUevents
<1>14. CASE PollLeaves(c)
  <2>1. hot'.by # "monitor"
    BY <1>14, CoreAssumption DEF PollLeaves, Leave, Unlocked
  <2> QED
    BY <1>14, <2>1, WatchedMoves DEF PollLeaves
<1>15. CASE GetDeviceList(c)
  BY <1>15, WatchedMoves DEF GetDeviceList
<1>16. CASE OpenListed(c)
  <2>1. \E l \in {"exit_default", "opening", "free_failed"} : GoTo(c, l)
    BY <1>16 DEF OpenListed
  <2> QED
    BY <1>16, <2>1, WatchedMoves DEF OpenListed
<1>17. CASE OpOpen(c)
  BY <1>17, WatchedMoves DEF OpOpen
<1>18. CASE OpOpenNoDevice(c)
  <2>1. hot'.by # "monitor"
    BY <1>18, CoreAssumption DEF OpOpenNoDevice, Disconnect, Unlocked
  <2> QED
    BY <1>18, <2>1, WatchedMoves DEF OpOpenNoDevice
<1>19. CASE NoDeviceLeaves(c)
  <2>1. hot'.by # "monitor"
    BY <1>19, CoreAssumption DEF NoDeviceLeaves, Leave, Unlocked
  <2> QED
    BY <1>19, <2>1, WatchedMoves DEF NoDeviceLeaves
<1>20. CASE FreeDeviceList(c)
  <2>1. \E l \in {"open", "exit_default"} : GoTo(c, l)
    BY <1>20 DEF FreeDeviceList
  <2> QED
    BY <1>20, <2>1, WatchedMoves DEF FreeDeviceList
<1>21. CASE Close(c)
  BY <1>21, WatchedMoves DEF Close
<1>22. CASE ExitActive(c)
  BY <1>22, WatchedMoves DEF ExitActive
<1>23. CASE ExitDevices(c)
  BY <1>23, WatchedMoves DEF ExitDevices
<1> QED
  BY <1>1, <1>2, <1>3, <1>4, <1>5, <1>6, <1>7, <1>8, <1>9, <1>10, <1>11, <1>12,
     <1>13, <1>14, <1>15, <1>16, <1>17, <1>18, <1>19, <1>20, <1>21, <1>22, <1>23
     DEF Application

LEMMA WatchedStep ==
    ASSUME Sane, Next
    PROVE  Watched'
  BY WatchedApplication, WatchedQuiet, WatchedSection, WatchedMonitor
     DEF Next, Monitor

---------------------------------------------------------------------------
(* Types.                                                                  *)

LEMMA UnrefTyped ==
    ASSUME NEW ds \in [Devs -> Device], NEW x
    PROVE  Unref(ds, x) \in [Devs -> Device]
  BY DropTyped DEF Unref

LEMMA RefTyped ==
    ASSUME NEW ds \in [Devs -> Device], NEW x
    PROVE  Ref(ds, x) \in [Devs -> Device]
<1>1. \A r \in Device : [r EXCEPT !.refcnt = @ + 1] \in Device
  BY DEF Device
<1> QED
  BY <1>1 DEF Ref

LEMMA NewTyped ==
    ASSUME NEW c \in Contexts, NEW s \in Sessions, NEW b \in BOOLEAN
    PROVE  /\ [NoDevice EXCEPT !.ctx = c, !.session = s, !.refcnt = 1, !.enumerated = b] \in Device
           /\ [NoDevice EXCEPT !.ctx = c, !.session = s, !.refcnt = 1, !.attached = b] \in Device
<1> DEFINE n0 == [NoDevice EXCEPT !.ctx = c]
           n1 == [n0 EXCEPT !.session = s]
           n2 == [n1 EXCEPT !.refcnt = 1]
<1>1. n0 \in Device
  BY NoDeviceTyped DEF Device
<1>2. n1 \in Device
  <2> HIDE DEF n0
  <2> QED
    BY <1>1 DEF Device
<1>3. n2 \in Device
  <2> HIDE DEF n1
  <2> QED
    BY <1>2 DEF Device
<1>4. [n2 EXCEPT !.enumerated = b] \in Device /\ [n2 EXCEPT !.attached = b] \in Device
  <2> HIDE DEF n2
  <2> QED
    BY <1>3 DEF Device
<1> QED
  BY <1>4

LEMMA AllocateTyped ==
    ASSUME Types, allocated # MaxDevices, NEW c \in Contexts, NEW s \in Sessions,
           NEW b \in BOOLEAN, usbi_alloc_device(c, s, b)
    PROVE  /\ dev' \in [Devs -> Device] /\ allocated' \in 0 .. MaxDevices
           /\ allocated + 1 \in Devs /\ allocated' = allocated + 1
           /\ dev'[allocated + 1] \in Device
           /\ dev'[allocated + 1].ctx = c /\ dev'[allocated + 1].session = s
           /\ dev'[allocated + 1].enumerated = b
           /\ dev'[allocated + 1].refcnt = 1 /\ dev'[allocated + 1].parent = 0
           /\ \A d \in Devs : d # allocated + 1 => dev'[d] = dev[d]
<1>1. allocated + 1 \in Devs /\ allocated' \in 0 .. MaxDevices
  BY DevsAre DEF Types, DeviceTypes, usbi_alloc_device
<1> DEFINE n == [NoDevice EXCEPT !.ctx = c, !.session = s, !.refcnt = 1, !.enumerated = b]
<1>2. n.ctx = c /\ n.session = s /\ n.enumerated = b /\ n.refcnt = 1 /\ n.parent = 0
  BY DEF NoDevice
<1>3. n \in Device
  BY NewTyped
<1>4. dev' = [dev EXCEPT ![allocated + 1] = n] /\ allocated' = allocated + 1
  BY DEF usbi_alloc_device
<1>5. dev \in [Devs -> Device]
  BY DEF Types, DeviceTypes
<1> HIDE DEF n
<1> QED
  BY <1>1, <1>2, <1>3, <1>4, <1>5

LEMMA NotificationTyped ==
    ASSUME Types, NEW c \in Contexts, NEW d \in Devs, NEW w \in {"ARRIVED", "LEFT"},
           usbi_hotplug_notification(c, d, w)
    PROVE  msgs' \in [Contexts -> Seq(Messages)] /\ unsaid' \subseteq Devs
<1>1. Message(w, d) \in Messages
  BY DevsAre DEF Message, Messages
<1>2. msgs \in [Contexts -> Seq(Messages)] /\ unsaid \subseteq Devs
  BY DEF Types, DeviceTypes
<1>3. Append(msgs[c], Message(w, d)) \in Seq(Messages)
  BY <1>1, <1>2, AppendProperties
<1> QED
  BY <1>2, <1>3 DEF usbi_hotplug_notification

LEMMA NextContextTyped ==
    ASSUME Types, NEW c, NextContext(c)
    PROVE  /\ HotTypes' /\ hot'.by = hot.by /\ hot'.pc = "next" /\ hot'.op = hot.op
           /\ hot'.todo = hot.todo \ {c} /\ hot'.dev = 0 /\ hot'.adding = <<>>
<1>1. 0 \in 0 .. MaxDevices /\ <<>> \in Seq(Devs)
  BY DevsAre
<1> QED
  BY <1>1 DEF Types, HotTypes, Holder, NextContext, Between

LEMMA ResumeTyped ==
    ASSUME Sane, hot.pc \in Adding, NEW c, Resume(c)
    PROVE  /\ HotTypes' /\ hot'.by = hot.by /\ hot'.dev = 0 /\ hot.dev = 0
           /\ \/ Tail(hot.adding) = <<>> /\ NextContext(c)
              \/ Tail(hot.adding) # <<>> /\ hot'.pc = "retry" /\ hot'.todo = hot.todo
           /\ hot'.adding = Tail(hot.adding)
<1> Types
  BY DEF Sane
<1>1. hot.dev = 0
  BY DEF Sane, Owned, Owns, HotOwns
<1>2. CASE Len(hot.adding) = 1
  <2>1. Tail(hot.adding) = <<>>
    BY <1>2, AddedTyped
  <2>2. NextContext(c)
    BY <1>2 DEF Resume
  <2> QED
    BY <1>1, <2>1, <2>2, NextContextTyped
<1>3. CASE Len(hot.adding) # 1
  <2>1. Tail(hot.adding) # <<>> /\ Tail(hot.adding) \in Seq(Devs)
    BY <1>3, AddedTyped, DropFront
  <2>2. hot' = [hot EXCEPT !.adding = Tail(@), !.pc = "retry"]
    BY <1>3 DEF Resume
  <2> QED
    BY <1>1, <2>1, <2>2 DEF Types, HotTypes, Holder, Adding
<1> QED
  BY <1>2, <1>3

LEMMA PushTyped ==
    ASSUME Types, allocated + 1 \in Devs, NEW c, NEW s, Allocate(c, s)
    PROVE  /\ HotTypes' /\ hot'.by = hot.by /\ hot'.pc = "initialize"
           /\ hot'.op = hot.op /\ hot'.todo = hot.todo /\ hot'.dev = hot.dev
           /\ hot'.adding = <<allocated + 1>> \o hot.adding
<1>1. <<allocated + 1>> \o hot.adding \in Seq(Devs)
  BY PushFront DEF Types, HotTypes, Holder
<1> QED
  BY <1>1 DEF Types, HotTypes, Holder, Allocate, Adding

LEMMA MessagesTyped ==
    /\ Idle \in Messages
    /\ \A d \in 0 .. MaxDevices : Message("lost", d) \in Messages
  BY DevsAre DEF Idle, Message, Messages

LEMMA InitTypes == Init => Types
<1> SUFFICES ASSUME Init PROVE Types
  OBVIOUS
<1>1. ContextTypes
  <2>1. "start" \in AppLabels /\ Idle \in Messages /\ 0 \in 0 .. MaxDevices
    BY MessagesTyped, DevsAre DEF AppLabels
  <2> QED
    BY <2>1 DEF Init, ContextTypes
<1>2. DeviceTypes
  BY NoDeviceTyped, DevsAre DEF Init, DeviceTypes
<1>3. KernelTypes
  BY CoreAssumption DEF Init, KernelTypes
<1>4. HotTypes
  BY DevsAre DEF Init, HotTypes, Holder, Unlocked, Between
<1> QED
  BY <1>1, <1>2, <1>3, <1>4 DEF Types

(* Looking for the parent of the device that is being added: there is none *)
(* or none yet; it is on the list; or it is to be added first.             *)
LEMMA ParentFound ==
    ASSUME Sane, NEW c \in Contexts, FindParent(c)
    PROVE  /\ hot.pc \in {"parent", "retry"} /\ dev[Added].ctx = c
           /\ dev[Added].session \in Sessions
           /\ UNCHANGED <<context, usb_devs, msgs, list, unsaid, watch, kernel>>
           /\ fault' \in BOOLEAN
           /\ \/ /\ \E l \in {"connect", "retry"} : hot' = [hot EXCEPT !.pc = l]
                 /\ UNCHANGED <<dev, allocated>>
              \/ \E d \in ToSet(usb_devs[c]) :
                    /\ d \in Devs /\ dev[d].session = ParentOf[dev[Added].session]
                    /\ dev[d].session \in Sessions
                    /\ dev' = [Ref(dev, d) EXCEPT ![Added].parent = d]
                    /\ hot' = [hot EXCEPT !.pc = "connect"]
                    /\ UNCHANGED allocated
              \/ /\ ParentOf[dev[Added].session] \in Sessions
                 /\ allocated # MaxDevices
                 /\ Allocate(c, ParentOf[dev[Added].session])
<1> DEFINE p == ParentOf[dev[Added].session]
           found == {d \in InSession(c, p) : dev[d].enumerated}
<1>1. /\ hot.pc \in {"parent", "retry"} /\ dev[Added].ctx = c
      /\ UNCHANGED <<context, usb_devs, msgs, list, unsaid, watch, kernel>>
      /\ fault' \in BOOLEAN
  BY DEF FindParent
<1>2. Added \in 1 .. allocated
  BY <1>1, AddedTyped DEF Adding
<1>3. dev[Added].session \in Sessions /\ p \in Sessions \cup {NoOne}
  BY <1>2, CoreAssumption DEF Sane, Owned, Owns, HotOwns
<1>4. ToSet(usb_devs[c]) \subseteq Devs
  BY ElementsOf DEF Sane, Types, DeviceTypes
<1>5. \/ /\ p = NoOne \/ (found = {} /\ hot.pc = "retry")
         /\ hot' = [hot EXCEPT !.pc = "connect"]
         /\ UNCHANGED <<dev, allocated>>
      \/ /\ p # NoOne /\ found # {}
         /\ dev' = [Ref(dev, CHOOSE d \in found : TRUE)
                      EXCEPT ![Added].parent = CHOOSE d \in found : TRUE]
         /\ hot' = [hot EXCEPT !.pc = "connect"]
         /\ UNCHANGED allocated
      \/ /\ p # NoOne /\ found = {} /\ hot.pc = "parent"
         /\ \/ hot' = [hot EXCEPT !.pc = "retry"] /\ UNCHANGED <<dev, allocated>>
            \/ allocated # MaxDevices /\ Allocate(c, p)
  BY DEF FindParent
<1>6. found # {} => (CHOOSE d \in found : TRUE) \in found
  OBVIOUS
<1>7. found \subseteq ToSet(usb_devs[c]) /\ \A d \in found : dev[d].session = p
  BY DEF InSession
<1> HIDE DEF found
<1> QED
  BY <1>1, <1>3, <1>4, <1>5, <1>6, <1>7

LEMMA TypesSection ==
    ASSUME Sane, Section
    PROVE  Types'
<1> Types
  BY DEF Sane
<1>1. ContextTypes'
  <2>1. UNCHANGED context /\ UNCHANGED <<foreign, gone>> /\ fault' \in BOOLEAN
    BY DEF Section, linux_netlink_read_message, Handled, Detach, Initialize, Connect,
           FindRemoved, Unlist, TellLeft, DropFound, FindAdded, InitializeFails,
           FindParent, TellArrived, Types, ContextTypes, watch, kernel
  <2> QED
    BY <2>1 DEF Types, ContextTypes, context
<1>2. KernelTypes'
  <2>1. CASE UNCHANGED kernel
    BY <2>1 DEF kernel, Types, KernelTypes
  <2>2. CASE linux_netlink_read_message
    BY <2>2, HeadTailProperties DEF linux_netlink_read_message, Types, KernelTypes
  <2> QED
    BY <2>1, <2>2 DEF Section, Handled, Detach, Initialize, Connect,
         FindRemoved, Unlist, TellLeft, DropFound, FindAdded, InitializeFails,
         FindParent, TellArrived
<1> SUFFICES DeviceTypes' /\ HotTypes'
  BY <1>1, <1>2 DEF Types
<1> USE DEF Hot
<1>3. CASE linux_netlink_read_message
  <2>1. DeviceTypes'
    BY <1>3 DEF linux_netlink_read_message, devices, Types, DeviceTypes
  <2>2. uevents # <<>> => Head(uevents) \in [op : {"add", "remove"}, session : Sessions]
    BY HeadTailProperties DEF Types, KernelTypes
  <2>3. HotTypes'
    <3>1. hot \in Holder /\ active \subseteq Contexts
      BY DEF Types, HotTypes, ContextTypes
    <3>2. CASE uevents = <<>>
      <4>1. hot' = [hot EXCEPT !.pc = "leave"]
        BY <1>3, <3>2 DEF linux_netlink_read_message
      <4> QED
        BY <3>1, <4>1 DEF Types, HotTypes, Holder, Between
    <3>3. CASE uevents # <<>>
      <4>1. PICK o \in {"add", "remove"}, x \in Sessions :
                hot' = [hot EXCEPT !.pc = "next", !.op = o, !.session = x, !.todo = active]
        BY <1>3, <2>2, <3>3 DEF linux_netlink_read_message, Handle
      <4> QED
        BY <3>1, <4>1 DEF HotTypes, Holder, Between
    <3> QED
      BY <3>2, <3>3
  <2> QED
    BY <2>1, <2>3
<1>4. CASE Handled \/ Initialize
  <2>1. DeviceTypes'
    BY <1>4 DEF Handled, Initialize, devices, Types, DeviceTypes
  <2>2. HotTypes'
    BY <1>4 DEF Handled, Initialize, Types, HotTypes, Holder, Between, Adding
  <2> QED
    BY <2>1, <2>2
<1>5. CASE Detach
  <2>1. dev' \in [Devs -> Device]
    BY <1>5 DEF Detach, Types, DeviceTypes, Device
  <2>2. HotTypes'
    BY <1>5 DEF Detach, Types, HotTypes, Holder, Removing
  <2> QED
    BY <1>5, <2>1, <2>2 DEF Detach, Types, DeviceTypes
<1>6. CASE Connect
  <2>1. dev' \in [Devs -> Device]
    BY <1>6 DEF Connect, Listed, Types, DeviceTypes, Device
  <2>2. Added \in Devs /\ dev[Added].ctx \in Contexts
    BY <1>6, AddedTyped DEF Connect, Adding
  <2>3. <<Added>> \o usb_devs[dev[Added].ctx] \in Seq(Devs)
    BY <2>2, PushFront DEF Types, DeviceTypes
  <2>4. HotTypes'
    BY <1>6 DEF Connect, Types, HotTypes, Holder, Adding
  <2> QED
    BY <1>6, <2>1, <2>3, <2>4 DEF Connect, Listed, Types, DeviceTypes
<1>7. ASSUME NEW c \in Contexts, FindRemoved(c) PROVE DeviceTypes' /\ HotTypes'
  <2>1. dev' \in [Devs -> Device]
    BY <1>7, RefTyped DEF FindRemoved, Types, DeviceTypes
  <2>2. CASE InSession(c, hot.session) = {}
    BY <1>7, <2>1, <2>2, NextContextTyped DEF FindRemoved, Types, DeviceTypes
  <2>3. CASE InSession(c, hot.session) # {}
    <3> DEFINE d == ByDevice(c, hot.session)
    <3>1. d \in 0 .. MaxDevices
      BY <2>3, ByDeviceFound, DevsAre
    <3>2. hot' = [hot EXCEPT !.dev = d, !.pc = "detach"]
      BY <1>7, <2>3 DEF FindRemoved
    <3> HIDE DEF d
    <3>3. HotTypes'
      BY <3>1, <3>2 DEF Types, HotTypes, Holder, Removing
    <3> QED
      BY <1>7, <2>1, <3>3 DEF FindRemoved, Types, DeviceTypes
  <2> QED
    BY <2>2, <2>3
<1>8. ASSUME NEW c \in Contexts, Unlist(c) PROVE DeviceTypes' /\ HotTypes'
  <2> DEFINE q == usb_devs[c]
             i == CHOOSE i \in DOMAIN q : q[i] = hot.dev
  <2>1. q \in Seq(Devs) /\ DOMAIN q = 1 .. Len(q)
    BY LenProperties DEF Types, DeviceTypes
  <2>2. hot.dev \in ToSet(q)
    BY <1>8 DEF Unlist, Here, Sane, Owned, Owns, HotOwns, Removing
  <2>3. i \in 1 .. Len(q)
    BY <2>1, <2>2 DEF ToSet
  <2>4. Distinct(q)
    BY DEF Sane, BornOnce
  <2>5. usb_devs' = [usb_devs EXCEPT ![c] = RemoveAt(q, i)]
    BY <1>8 DEF Unlist
  <2> HIDE DEF q, i
  <2>6. RemoveAt(q, i) \in Seq(Devs)
    BY <2>1, <2>3, <2>4, RemovePlace
  <2>7. HotTypes'
    BY <1>8 DEF Unlist, Types, HotTypes, Holder, Removing
  <2> QED
    BY <1>8, <2>5, <2>6, <2>7 DEF Unlist, Types, DeviceTypes
<1>9. ASSUME NEW c \in Contexts, TellLeft(c) PROVE DeviceTypes' /\ HotTypes'
  <2>1. hot.dev \in Devs
    BY <1>9, DevsAre DEF TellLeft, Sane, Owned, Owns, HotOwns, Removing, Types, DeviceTypes
  <2>2. msgs' \in [Contexts -> Seq(Messages)] /\ unsaid' \subseteq Devs
    BY <1>9, <2>1, NotificationTyped DEF TellLeft
  <2>3. HotTypes'
    BY <1>9 DEF TellLeft, Types, HotTypes, Holder, Removing
  <2> QED
    BY <1>9, <2>2, <2>3 DEF TellLeft, Types, DeviceTypes
<1>10. ASSUME NEW c \in Contexts, DropFound(c) PROVE DeviceTypes' /\ HotTypes'
  <2>1. dev' \in [Devs -> Device]
    BY <1>10, UnrefTyped DEF DropFound, Types, DeviceTypes
  <2> QED
    BY <1>10, <2>1, NextContextTyped DEF DropFound, Types, DeviceTypes
<1>11. ASSUME NEW c \in Contexts, FindAdded(c) PROVE DeviceTypes' /\ HotTypes'
  <2>1. CASE InSession(c, hot.session) # {} \/ allocated = MaxDevices
    BY <1>11, <2>1, NextContextTyped DEF FindAdded, Types, DeviceTypes
  <2>2. CASE ~(InSession(c, hot.session) # {} \/ allocated = MaxDevices)
    <3>1. Allocate(c, hot.session) /\ usbi_alloc_device(c, hot.session, TRUE)
      BY <1>11, <2>2 DEF FindAdded, Allocate
    <3>2. hot.session \in Sessions
      BY <1>11 DEF FindAdded, Types, HotTypes, Holder
    <3> QED
      BY <1>11, <2>2, <3>1, <3>2, AllocateTyped, PushTyped DEF FindAdded, Types, DeviceTypes
  <2> QED
    BY <2>1, <2>2
<1>12. ASSUME NEW c \in Contexts, InitializeFails(c) PROVE DeviceTypes' /\ HotTypes'
  <2>1. dev' \in [Devs -> Device]
    BY <1>12, UnrefTyped DEF InitializeFails, Types, DeviceTypes
  <2>2. HotTypes'
    BY <1>12, ResumeTyped DEF InitializeFails, Adding
  <2> QED
    BY <1>12, <2>1, <2>2 DEF InitializeFails, Types, DeviceTypes
<1>13. ASSUME NEW c \in Contexts, FindParent(c) PROVE DeviceTypes' /\ HotTypes'
  <2>1. UNCHANGED <<usb_devs, msgs, list, unsaid>> /\ hot.pc \in {"parent", "retry"}
    BY <1>13, ParentFound
  <2>2. ASSUME NEW l \in {"connect", "retry"}, hot' = [hot EXCEPT !.pc = l]
        PROVE  HotTypes'
    BY <2>2 DEF Types, HotTypes, Holder, Adding
  <2>3. CASE UNCHANGED <<dev, allocated>>
             /\ \E l \in {"connect", "retry"} : hot' = [hot EXCEPT !.pc = l]
    BY <2>1, <2>2, <2>3 DEF Types, DeviceTypes
  <2>4. ASSUME NEW d \in Devs, dev' = [Ref(dev, d) EXCEPT ![Added].parent = d],
               hot' = [hot EXCEPT !.pc = "connect"], allocated' = allocated
        PROVE  DeviceTypes' /\ HotTypes'
    <3>1. Ref(dev, d) \in [Devs -> Device]
      BY RefTyped DEF Types, DeviceTypes
    <3>2. d \in 0 .. MaxDevices
      BY DevsAre
    <3>3. dev' \in [Devs -> Device]
      <4> DEFINE mid == Ref(dev, d)
      <4> HIDE DEF mid
      <4> QED
        BY <2>4, <3>1, <3>2 DEF Device, mid
    <3> QED
      BY <2>1, <2>2, <2>4, <3>3 DEF Types, DeviceTypes
  <2>5. CASE /\ ParentOf[dev[Added].session] \in Sessions
             /\ allocated # MaxDevices
             /\ Allocate(c, ParentOf[dev[Added].session])
    <3>1. usbi_alloc_device(c, ParentOf[dev[Added].session], TRUE)
      BY <2>5 DEF Allocate
    <3> QED
      BY <2>1, <2>5, <3>1, AllocateTyped, PushTyped DEF Types, DeviceTypes
  <2> QED
    BY <1>13, <2>3, <2>4, <2>5, ParentFound
<1>14. ASSUME NEW c \in Contexts, TellArrived(c) PROVE DeviceTypes' /\ HotTypes'
  <2>1. Added \in Devs
    BY <1>14, AddedTyped DEF TellArrived, Adding
  <2>2. msgs' \in [Contexts -> Seq(Messages)] /\ unsaid' \subseteq Devs
    BY <1>14, <2>1, NotificationTyped DEF TellArrived
  <2>3. HotTypes'
    BY <1>14, ResumeTyped DEF TellArrived, Adding
  <2> QED
    BY <1>14, <2>2, <2>3 DEF TellArrived, Types, DeviceTypes
<1> QED
  BY <1>3, <1>4, <1>5, <1>6, <1>7, <1>8, <1>9, <1>10, <1>11, <1>12, <1>13, <1>14
     DEF Section

LEMMA UnlockedTyped ==
    /\ Unlocked \in Holder /\ Unlocked.by = NoOne /\ Unlocked.pc = "free"
    /\ Unlocked.op = "none" /\ Unlocked.todo = {}
    /\ Unlocked.dev = 0 /\ Unlocked.adding = <<>>
  BY DevsAre DEF Unlocked, Holder, Between

LEMMA DisconnectTyped ==
    ASSUME Types, NEW c \in Contexts, NEW d \in Devs, Disconnect(c, d)
    PROVE  /\ HotTypes' /\ hot.by = NoOne /\ hot'.by = c /\ hot'.pc \in {"next", "leave"}
           /\ hot'.op = "remove" /\ hot'.todo = active /\ hot'.dev = 0 /\ hot'.adding = <<>>
<1>1. dev[d].session \in Sessions \cup {NoOne} /\ active \subseteq Contexts
  BY DEF Types, ContextTypes, DeviceTypes, Device
<1> DEFINE l == IF dev[d].attached /\ dev[d].enumerated THEN "next" ELSE "leave"
           h0 == [Unlocked EXCEPT !.by = c, !.pc = l]
           h1 == [h0 EXCEPT !.op = "remove", !.session = dev[d].session, !.todo = active]
<1>2. l \in {"next", "leave"}
  OBVIOUS
<1> HIDE DEF l
<1>3. h0 \in Holder /\ h0.by = c /\ h0.pc = l /\ h0.dev = 0 /\ h0.adding = <<>>
  BY <1>2, UnlockedTyped DEF Holder, Between
<1> HIDE DEF h0
<1>4. /\ h1 \in Holder /\ h1.by = c /\ h1.pc = l /\ h1.dev = 0 /\ h1.adding = <<>>
      /\ h1.op = "remove" /\ h1.todo = active
  BY <1>1, <1>3 DEF Holder
<1>5. hot' = h1 /\ hot.by = NoOne
  BY DEF Disconnect, h0, l
<1> HIDE DEF h1
<1> QED
  BY <1>2, <1>4, <1>5 DEF HotTypes

LEMMA LeaveTyped == ASSUME Leave PROVE HotTypes' /\ hot' = Unlocked
  BY UnlockedTyped DEF Leave, HotTypes

LEMMA TakenTyped ==
    ASSUME NEW who \in Contexts \cup {"monitor"},
           hot' = [Unlocked EXCEPT !.by = who, !.pc = "read"]
    PROVE  HotTypes' /\ hot'.by = who /\ hot'.pc = "read" /\ hot'.dev = 0 /\ hot'.adding = <<>>
<1>1. hot' \in Holder /\ hot'.op = "none"
  BY UnlockedTyped DEF Holder, Between
<1> QED
  BY <1>1, UnlockedTyped DEF HotTypes, Holder

LEMMA HandleTyped ==
    ASSUME Sane, NEW c \in Contexts, app[c] \in Holding
    PROVE  handle[c] \in Devs /\ handle[c] \in 1 .. allocated /\ dev[handle[c]].ctx = c
<1>1. handle[c] # 0 /\ handle[c] \in Of(c) \cup {0} /\ handle[c] \in 0 .. MaxDevices
  BY DEF Sane, Placed, Settled, Owned, Owns, HotOwns, Types, ContextTypes
<1> QED
  BY <1>1, DevsAre DEF Of

(* The messages that a device left are of devices of the context.          *)
LEMMA LeftOwned ==
    ASSUME Sane, NEW c \in Contexts
    PROVE  /\ DevicesLeft(c) = {d \in Of(c) : Message("LEFT", d) \in ToSet(msgs[c])}
           /\ DevicesLeft(c) \subseteq Devs
<1>1. \A m \in ToSet(msgs[c]) : m \in Messages /\ m.dev \in Of(c)
  BY ElementsOf DEF Sane, Owned, Owns, HotOwns, Types, DeviceTypes
<1>2. \A m \in Messages : m = Message(m.event, m.dev)
  BY DEF Messages, Message
<1>3. \A d : Message("LEFT", d).event = "LEFT" /\ Message("LEFT", d).dev = d
  BY DEF Message
<1>4. DevicesLeft(c) = {d \in Of(c) : Message("LEFT", d) \in ToSet(msgs[c])}
  BY <1>1, <1>2, <1>3 DEF DevicesLeft
<1>5. Of(c) \subseteq Devs
  BY DevsAre DEF Of, Sane, Types, DeviceTypes
<1> QED
  BY <1>4, <1>5

LEMMA TypesKernel ==
    ASSUME Sane, Kernel \/ Monitor
    PROVE  Types'
<1> Types
  BY DEF Sane
<1>1. CASE Kernel
  <2>1. PICK s \in Sessions : Plug(s) \/ Unplug(s)
    BY <1>1 DEF Kernel
  <2>2. KernelTypes'
    <3>1. \A w \in {"add", "remove"} : Append(uevents, Uevent(w, s))
             \in Seq([op : {"add", "remove"}, session : Sessions])
      BY AppendProperties DEF Uevent, Types, KernelTypes
    <3>2. plugged' \subseteq Sessions /\ changes' \in 0 .. MaxChanges
      BY <2>1, CoreAssumption DEF Plug, Unplug, Types, KernelTypes
    <3> QED
      BY <2>1, <3>1, <3>2 DEF Plug, Unplug, Emit, Types, KernelTypes
  <2>3. ContextTypes'
    <3>1. gone' \subseteq Contexts /\ UNCHANGED <<context, foreign, fault>>
      BY <2>1 DEF Plug, Unplug, watch, Types, ContextTypes
    <3> QED
      BY <3>1 DEF context, Types, ContextTypes
  <2>4. DeviceTypes' /\ HotTypes'
    BY <2>1 DEF Plug, Unplug, devices, Types, DeviceTypes, HotTypes, Holder
  <2> QED
    BY <2>2, <2>3, <2>4 DEF Types
<1>2. CASE Monitor
  <2>1. ContextTypes' /\ DeviceTypes' /\ KernelTypes'
    BY <1>2 DEF Monitor, Wake, LockHot, MonitorLeaves, context, devices, kernel,
                Types, ContextTypes, DeviceTypes, KernelTypes
  <2>2. HotTypes'
    <3>1. CASE LockHot
      BY <3>1, TakenTyped DEF LockHot
    <3> QED
      BY <1>2, <3>1, LeaveTyped DEF Monitor, Wake, MonitorLeaves, Types, HotTypes, Holder
  <2> QED
    BY <2>1, <2>2 DEF Types
<1> QED
  BY <1>1, <1>2

LEMMA TypesEvent ==
    ASSUME Sane, NEW c \in Contexts, EventThread(c)
    PROVE  Types'
<1> Types
  BY DEF Sane
<1>1. KernelTypes'
  BY DEF EventThread, TakeMessage, Match, NoticeGone, NoticeLeaves, kernel, Types, KernelTypes
<1>2. CASE TakeMessage(c)
  <2>1. Head(msgs[c]) \in Messages /\ Tail(msgs[c]) \in Seq(Messages)
    BY <1>2, HeadTailProperties DEF TakeMessage, Types, DeviceTypes
  <2> QED
    BY <1>1, <1>2, <2>1 DEF TakeMessage, Types, ContextTypes, DeviceTypes, HotTypes, Holder, kernel, watch
<1>3. CASE Match(c)
  <2>1. dev' \in [Devs -> Device]
    BY <1>3, UnrefTyped DEF Match, Matched, Types, DeviceTypes
  <2>2. event' \in [Contexts -> Messages]
    BY <1>3, MessagesTyped DEF Match, Types, ContextTypes
  <2> QED
    BY <1>1, <1>3, <2>1, <2>2 DEF Match, Types, ContextTypes, DeviceTypes, HotTypes, Holder, kernel, watch
<1>4. CASE NoticeGone(c)
  <2>1. handle[c] \in Devs
    BY <1>4, HandleTyped DEF NoticeGone, At, Holding
  <2>2. HotTypes'
    BY <1>4, <2>1, DisconnectTyped DEF NoticeGone
  <2>3. event' \in [Contexts -> Messages]
    BY <1>4, <2>1, MessagesTyped, DevsAre DEF NoticeGone, Types, ContextTypes
  <2> QED
    BY <1>1, <1>4, <2>2, <2>3 DEF NoticeGone, Types, ContextTypes, DeviceTypes, devices, kernel, watch
<1>5. CASE NoticeLeaves(c)
  <2>1. event' \in [Contexts -> Messages]
    BY <1>5, MessagesTyped DEF NoticeLeaves, Types, ContextTypes
  <2> QED
    BY <1>1, <1>5, <2>1, LeaveTyped DEF NoticeLeaves, Types, ContextTypes, DeviceTypes, devices, kernel, watch
<1> QED
  BY <1>2, <1>3, <1>4, <1>5 DEF EventThread

LEMMA TypesApplication ==
    ASSUME Sane, NEW c \in Contexts, Application(c)
    PROVE  Types'
<1> Types
  BY DEF Sane
<1> USE DEF At
<1>1. KernelTypes'
  <2>1. UNCHANGED <<plugged, changes>>
    BY DEF Application, InitContext, InitBackendFails, InitBackend, InitIo, UndoContext,
           GetDevice2, GetDevice2Fails, Device2Arrives, Open2, PollUevents, PollLeaves,
           GetDeviceList, OpenListed, OpOpen, OpOpenNoDevice, NoDeviceLeaves,
           FreeDeviceList, Close, ExitDefault, ExitActive, ExitDevices, OpExit,
           MonitorJoined, kernel
  <2>2. uevents' \in {uevents, <<>>}
    BY DEF Application, InitContext, InitBackendFails, InitBackend, InitIo, UndoContext,
           GetDevice2, GetDevice2Fails, Device2Arrives, Open2, PollUevents, PollLeaves,
           GetDeviceList, OpenListed, OpOpen, OpOpenNoDevice, NoDeviceLeaves,
           FreeDeviceList, Close, ExitDefault, ExitActive, ExitDevices, OpExit,
           MonitorJoined, kernel
  <2>3. <<>> \in Seq([op : {"add", "remove"}, session : Sessions])
    OBVIOUS
  <2> QED
    BY <2>1, <2>2, <2>3 DEF Types, KernelTypes
<1>2. \E l \in AppLabels : GoTo(c, l)
  <2>1. \E l \in {"start", "init_backend", "init_io", "inited", "undo_backend",
                  "undo_join", "undo_context", "arrived", "open2", "poll", "list",
                  "listed", "opening"} \cup {"no_device", "free_open", "free_failed",
                  "open", "exit_default", "exit_active", "exit_devices",
                  "exit_backend", "exit_join", "gone"} : GoTo(c, l)
    BY DEF Application, InitContext, InitBackendFails, InitBackend, InitIo, UndoContext,
           GetDevice2, GetDevice2Fails, Device2Arrives, Open2, PollUevents, PollLeaves,
           GetDeviceList, OpenListed, OpOpen, OpOpenNoDevice, NoDeviceLeaves,
           FreeDeviceList, Close, ExitDefault, ExitActive, ExitDevices, OpExit,
           MonitorJoined, AfterExit
  <2> QED
    BY <2>1 DEF AppLabels
<1>3. app' \in [Contexts -> AppLabels]
  BY <1>2 DEF GoTo, Types, ContextTypes
<1>4. ContextTypes'
  <2>1. event' = event /\ active' \subseteq Contexts /\ ready' \subseteq Contexts
        /\ deflock' \in Contexts \cup {NoOne}
    BY DEF Application, InitContext, InitBackendFails, InitBackend, InitIo, UndoContext,
           GetDevice2, GetDevice2Fails, Device2Arrives, Open2, PollUevents, PollLeaves,
           GetDeviceList, OpenListed, OpOpen, OpOpenNoDevice, NoDeviceLeaves,
           FreeDeviceList, Close, ExitDefault, ExitActive, ExitDevices, OpExit,
           MonitorJoined, Types, ContextTypes
  <2>2. removed' \subseteq Contexts /\ gone' \subseteq Contexts /\ fault' = fault
    BY DEF Application, InitContext, InitBackendFails, InitBackend, InitIo, UndoContext,
           GetDevice2, GetDevice2Fails, Device2Arrives, Open2, PollUevents, PollLeaves,
           GetDeviceList, OpenListed, OpOpen, OpOpenNoDevice, NoDeviceLeaves,
           FreeDeviceList, Close, ExitDefault, ExitActive, ExitDevices, OpExit,
           MonitorJoined, Types, ContextTypes, kernel
  <2>3. foreign' \in BOOLEAN
    BY DEF Application, InitContext, InitBackendFails, InitBackend, InitIo, UndoContext,
           GetDevice2, GetDevice2Fails, Device2Arrives, Open2, PollUevents, PollLeaves,
           GetDeviceList, OpenListed, OpOpen, OpOpenNoDevice, NoDeviceLeaves,
           FreeDeviceList, Close, ExitDefault, ExitActive, ExitDevices, OpExit,
           MonitorJoined, Types, ContextTypes, watch
  <2>4. handle' \in [Contexts -> 0 .. MaxDevices]
    <3>1. CASE handle' = handle
      BY <3>1 DEF Types, ContextTypes
    <3>2. CASE \E s \in Dongles : GetDevice2(c, s)
      <4>1. allocated + 1 \in 0 .. MaxDevices
        BY <3>2, DevsAre DEF GetDevice2, Types, DeviceTypes
      <4> QED
        BY <3>2, <4>1 DEF GetDevice2, Types, ContextTypes
    <3>3. CASE OpenListed(c)
      <4>1. list[c] \subseteq 0 .. MaxDevices
        BY DevsAre DEF Types, DeviceTypes
      <4> QED
        BY <3>3, <4>1 DEF OpenListed, Types, ContextTypes
    <3>4. CASE OpOpen(c) \/ NoDeviceLeaves(c) \/ Close(c)
      BY <3>4, DevsAre DEF OpOpen, NoDeviceLeaves, Close, Types, ContextTypes
    <3> QED
      BY <3>1, <3>2, <3>3, <3>4
      DEF Application, InitContext, InitBackendFails, InitBackend, InitIo, UndoContext,
           GetDevice2Fails, Device2Arrives, Open2, PollUevents, PollLeaves,
           GetDeviceList, OpOpenNoDevice,
           FreeDeviceList, ExitDefault, ExitActive, ExitDevices, OpExit, MonitorJoined
  <2> QED
    BY <1>3, <2>1, <2>2, <2>3, <2>4 DEF Types, ContextTypes
<1>5. HotTypes'
  <2>1. CASE hot' = hot
    BY <2>1 DEF Types, HotTypes, Holder
  <2>2. CASE PollUevents(c)
    BY <2>2, TakenTyped DEF PollUevents
  <2>3. CASE PollLeaves(c) \/ NoDeviceLeaves(c)
    BY <2>3, LeaveTyped DEF PollLeaves, NoDeviceLeaves
  <2>4. CASE OpOpenNoDevice(c)
    <3>1. handle[c] \in Devs
      BY <2>4, HandleTyped DEF OpOpenNoDevice, Holding
    <3> QED
      BY <2>4, <3>1, DisconnectTyped DEF OpOpenNoDevice
  <2> QED
    BY <2>1, <2>2, <2>3, <2>4
    DEF Application, InitContext, InitBackendFails, InitBackend, InitIo, UndoContext,
        GetDevice2, GetDevice2Fails, Device2Arrives, Open2,
        GetDeviceList, OpenListed, OpOpen, FreeDeviceList, Close, ExitDefault, ExitActive,
        ExitDevices, OpExit, MonitorJoined
<1>6. DeviceTypes'
  <2> dev \in [Devs -> Device]
    BY DEF Types, DeviceTypes
  <2> DEFINE D == dev' \in [Devs -> Device]
  <2>1. <<>> \in Seq(Devs) /\ <<>> \in Seq(Messages)
    OBVIOUS
  <2>2. CASE UndoContext(c)
    <3>1. ToSet(usb_devs[c]) \subseteq Devs
      BY ElementsOf DEF Types, DeviceTypes
    <3>2. D
      BY <2>2, <3>1, DropTyped DEF UndoContext
    <3> QED
      BY <2>1, <2>2, <3>2 DEF UndoContext, Types, DeviceTypes
  <2>3. ASSUME NEW s \in Dongles, GetDevice2(c, s) PROVE DeviceTypes'
    <3> DEFINE n == [NoDevice EXCEPT !.ctx = c, !.session = s, !.refcnt = 1, !.attached = TRUE]
    <3>1. n \in Device
      BY NewTyped, CoreAssumption
    <3>2. allocated + 1 \in Devs /\ allocated + 1 \in 0 .. MaxDevices
      BY <2>3, DevsAre DEF GetDevice2, Types, DeviceTypes
    <3>3. <<allocated + 1>> \o usb_devs[c] \in Seq(Devs)
      BY <3>2, PushFront DEF Types, DeviceTypes
    <3>4. dev' = [dev EXCEPT ![allocated + 1] = n] /\ allocated' = allocated + 1
          /\ usb_devs' = [usb_devs EXCEPT ![c] = <<allocated + 1>> \o @]
          /\ UNCHANGED <<msgs, list, unsaid>>
      BY <2>3 DEF GetDevice2
    <3> HIDE DEF n
    <3> QED
      BY <3>1, <3>2, <3>3, <3>4 DEF Types, DeviceTypes
  <2>4. CASE Device2Arrives(c)
    <3>1. handle[c] \in Devs
      BY <2>4, HandleTyped DEF Device2Arrives, Holding
    <3>2. msgs' \in [Contexts -> Seq(Messages)] /\ unsaid' \subseteq Devs
      BY <2>4, <3>1, NotificationTyped DEF Device2Arrives
    <3> QED
      BY <2>4, <3>2 DEF Device2Arrives, Types, DeviceTypes
  <2>5. CASE Open2(c)
    BY <2>5, RefTyped DEF Open2, Types, DeviceTypes
  <2>6. CASE GetDeviceList(c)
    <3>1. ToSet(usb_devs[c]) \subseteq Devs
      BY ElementsOf DEF Types, DeviceTypes
    <3>2. D
      BY <2>6, <3>1, RaiseAll DEF GetDeviceList
    <3> QED
      BY <2>6, <3>1, <3>2 DEF GetDeviceList, Types, DeviceTypes
  <2>7. CASE OpenListed(c)
    <3>1. D
      BY <2>7, RefTyped DEF OpenListed
    <3>2. /\ UNCHANGED <<usb_devs, msgs, allocated, unsaid, list>>
          /\ \/ handle' = handle
             \/ \E d \in list[c] : handle' = [handle EXCEPT ![c] = d]
      BY <2>7 DEF OpenListed
    <3> QED
      BY <3>1, <3>2 DEF Types, DeviceTypes
  <2>8. CASE OpOpen(c) \/ NoDeviceLeaves(c) \/ Close(c)
    BY <2>8, UnrefTyped DEF OpOpen, NoDeviceLeaves, Close, Types, DeviceTypes
  <2>9. CASE FreeDeviceList(c)
    <3>1. D
      BY <2>9, DropTyped DEF FreeDeviceList, Types, DeviceTypes
    <3> QED
      BY <2>9, <3>1 DEF FreeDeviceList, Types, DeviceTypes
  <2>10. CASE ExitDevices(c)
    <3> DEFINE S == DevicesLeft(c)
               T == ToSet(usb_devs[c])
    <3>1. T \subseteq Devs
      BY ElementsOf DEF Types, DeviceTypes
    <3>2. S \subseteq Devs
      BY LeftOwned
    <3>3. dev' = UnrefAll(UnrefAll(dev, S), T)
      BY <2>10 DEF ExitDevices
    <3> HIDE DEF S, T
    <3>4. UnrefAll(dev, S) \in [Devs -> Device]
      BY <3>2, DropTyped
    <3>5. D
      <4> DEFINE mid == UnrefAll(dev, S)
      <4> HIDE DEF mid
      <4> QED
        BY <3>1, <3>3, <3>4, DropTyped DEF mid
    <3> QED
      BY <2>1, <2>10, <3>5 DEF ExitDevices, Types, DeviceTypes
  <2>11. CASE UNCHANGED devices
    BY <2>11 DEF devices, Types, DeviceTypes
  <2> QED
    BY <2>2, <2>3, <2>4, <2>5, <2>6, <2>7, <2>8, <2>9, <2>10, <2>11
    DEF Application, InitContext, InitBackendFails, InitBackend, InitIo,
        GetDevice2Fails, PollUevents, PollLeaves, OpOpenNoDevice,
        ExitDefault, ExitActive, OpExit, MonitorJoined
<1> QED
  BY <1>1, <1>4, <1>5, <1>6 DEF Types

LEMMA TypesStep ==
    ASSUME Sane, Next
    PROVE  Types'
  BY TypesApplication, TypesEvent, TypesSection, TypesKernel DEF Next

---------------------------------------------------------------------------
(* Where everybody is.                                                     *)

LEMMA SettledKept ==
    ASSUME NEW x \in Contexts, Settled(x),
           app'[x] = app[x], x \in active' => x \in active, x \in ready' <=> x \in ready,
           msgs'[x] = msgs[x] \/ x \in ready, handle'[x] = handle[x],
           event'[x] = event[x], list'[x] = list[x],
           usb_devs'[x] = usb_devs[x] \/ x \in active
    PROVE  Settled(x)'
<1>1. Deviceless \subseteq Inactive
  BY DEF Deviceless
<1> QED
  BY <1>1 DEF Settled

LEMMA HotKept ==
    ASSUME Sane, hot' = hot, \/ active \subseteq active'
                             \/ ~ActiveLocked
    PROVE  Held'
<1>1. ~ActiveLocked => hot.pc \notin Removing \cup Adding \cup {"next"}
  BY DEF ActiveLocked, Removing, Adding
<1> QED
  BY <1>1 DEF Sane, Placed, Held

LEMMA NotFree == ASSUME Sane, hot.pc # "free" PROVE hot.by # NoOne
  BY UnlockedTyped DEF Sane, Placed, Held

LEMMA PlacedSection ==
    ASSUME Sane, Section
    PROVE  Placed'
<1> Types /\ Types'
  BY TypesSection DEF Sane
<1>1. ASSUME NEW x \in Contexts PROVE Settled(x)'
  <2>1. Settled(x)
    BY DEF Sane, Placed
  <2>2. /\ UNCHANGED <<app, active, ready, handle, event>>
        /\ UNCHANGED list
    BY DEF Section, linux_netlink_read_message, Handled, Detach, Initialize, Connect,
           FindRemoved, Unlist, TellLeft, DropFound, FindAdded, InitializeFails,
           FindParent, TellArrived, context, devices
  <2>3. msgs'[x] = msgs[x] \/ x \in ready
    <3>1. ASSUME NEW c \in Contexts, NEW d, NEW w, usbi_hotplug_notification(c, d, w)
          PROVE  msgs'[x] = msgs[x] \/ x \in ready
      BY <3>1 DEF usbi_hotplug_notification, Types, DeviceTypes
    <3>2. CASE UNCHANGED msgs
      BY <3>2
    <3> QED
      BY <3>1, <3>2
      DEF Section, linux_netlink_read_message, Handled, Detach, Initialize, Connect,
          FindRemoved, Unlist, TellLeft, DropFound, FindAdded, InitializeFails,
          FindParent, TellArrived, devices
  <2>4. usb_devs'[x] = usb_devs[x] \/ x \in active
    <3>1. CASE UNCHANGED usb_devs
      BY <3>1
    <3>2. CASE Connect
      <4>1. dev[Added].ctx \in active
        BY <3>2, AddedTyped DEF Connect, Hot, Adding
      <4> QED
        BY <3>2, <4>1 DEF Connect, Listed, Types, DeviceTypes
    <3>3. ASSUME NEW c \in Contexts, Unlist(c) PROVE usb_devs'[x] = usb_devs[x] \/ x \in active
      <4>1. c \in active
        BY <3>3 DEF Unlist, Hot, Here, Sane, Placed, Held, Owned, Owns, HotOwns, Removing
      <4> QED
        BY <3>3, <4>1 DEF Unlist, Types, DeviceTypes
    <3> QED
      BY <3>1, <3>2, <3>3
      DEF Section, linux_netlink_read_message, Handled, Detach, Initialize,
          FindRemoved, TellLeft, DropFound, FindAdded, InitializeFails,
          FindParent, TellArrived, devices
  <2> QED
    BY <2>1, <2>2, <2>3, <2>4, SettledKept
<1>2. Held'
  <2>1. active' = active
    BY DEF Section, linux_netlink_read_message, Handled, Detach, Initialize, Connect,
           FindRemoved, Unlist, TellLeft, DropFound, FindAdded, InitializeFails,
           FindParent, TellArrived, context
  <2>2. hot.pc # "free"
    BY DEF Section, linux_netlink_read_message, Handled, Detach, Initialize, Connect,
           FindRemoved, Unlist, TellLeft, DropFound, FindAdded, InitializeFails,
           FindParent, TellArrived, Hot
  <2>3. hot'.by # NoOne
    BY <2>2, NotFree, SectionHolder
  <2> SUFFICES /\ hot'.pc \in Between => hot'.dev = 0 /\ hot'.adding = <<>>
               /\ hot'.pc \in Removing \cup Adding \cup {"next"} => hot'.todo \subseteq active
    BY <2>1, <2>3 DEF Held
  <2>4. hot \in Holder
    BY DEF Types, HotTypes
  <2>5. /\ hot.pc \in Between => hot.dev = 0 /\ hot.adding = <<>>
        /\ hot.pc \in Removing \cup Adding \cup {"next"} => hot.todo \subseteq active
    BY DEF Sane, Placed, Held
  <2> USE DEF Hot, Between, Removing, Adding
  <2>6. ASSUME NEW c \in Contexts, NextContext(c), hot.todo \subseteq active
        PROVE  /\ hot'.pc \in Between => hot'.dev = 0 /\ hot'.adding = <<>>
               /\ hot'.pc \in Removing \cup Adding \cup {"next"} => hot'.todo \subseteq active
    BY <2>6, NextContextTyped
  <2>7. CASE linux_netlink_read_message
    BY <2>4, <2>5, <2>7 DEF linux_netlink_read_message, Handle, Holder
  <2>8. CASE Handled \/ Detach \/ Initialize \/ Connect
    BY <2>4, <2>5, <2>8 DEF Handled, Detach, Initialize, Connect, Holder
  <2>9. ASSUME NEW c \in Contexts, FindRemoved(c) \/ Unlist(c) \/ TellLeft(c) \/ DropFound(c)
        PROVE  /\ hot'.pc \in Between => hot'.dev = 0 /\ hot'.adding = <<>>
               /\ hot'.pc \in Removing \cup Adding \cup {"next"} => hot'.todo \subseteq active
    BY <2>4, <2>5, <2>6, <2>9 DEF FindRemoved, Unlist, TellLeft, DropFound, Holder
  <2>10. ASSUME NEW c \in Contexts, FindAdded(c)
         PROVE  /\ hot'.pc \in Between => hot'.dev = 0 /\ hot'.adding = <<>>
                /\ hot'.pc \in Removing \cup Adding \cup {"next"} => hot'.todo \subseteq active
    BY <2>4, <2>5, <2>6, <2>10 DEF FindAdded, Allocate, Holder
  <2>11. ASSUME NEW c \in Contexts, InitializeFails(c) \/ TellArrived(c)
         PROVE  /\ hot'.pc \in Between => hot'.dev = 0 /\ hot'.adding = <<>>
                /\ hot'.pc \in Removing \cup Adding \cup {"next"} => hot'.todo \subseteq active
    <3>1. Resume(c) /\ hot.pc \in Adding
      BY <2>11 DEF InitializeFails, TellArrived
    <3> QED
      BY <2>5, <2>6, <3>1, ResumeTyped
  <2>12. ASSUME NEW c \in Contexts, FindParent(c)
         PROVE  /\ hot'.pc \in Between => hot'.dev = 0 /\ hot'.adding = <<>>
                /\ hot'.pc \in Removing \cup Adding \cup {"next"} => hot'.todo \subseteq active
    BY <2>4, <2>5, <2>12, ParentFound DEF Allocate, Holder
  <2> QED
    BY <2>7, <2>8, <2>9, <2>10, <2>11, <2>12 DEF Section
<1> QED
  BY <1>1, <1>2 DEF Placed

LEMMA PlacedKernel ==
    ASSUME Sane, Kernel \/ Monitor
    PROVE  Placed'
<1>1. UNCHANGED <<context, devices>>
  BY DEF Kernel, Plug, Unplug, Monitor, Wake, LockHot, MonitorLeaves
<1>2. ASSUME NEW x \in Contexts PROVE Settled(x)'
  BY <1>1 DEF Settled, context, devices, Sane, Placed
<1>3. Held'
  <2>1. CASE hot' = hot
    BY <1>1, <2>1, HotKept DEF context
  <2>2. CASE LockHot
    <3>1. hot'.by = "monitor" /\ hot'.pc = "read" /\ hot'.dev = 0 /\ hot'.adding = <<>>
      BY <2>2, TakenTyped DEF LockHot
    <3>2. "monitor" # NoOne
      BY CoreAssumption
    <3> QED
      BY <3>1, <3>2 DEF Held, Removing, Adding
  <2>3. CASE MonitorLeaves
    BY <2>3, UnlockedTyped DEF MonitorLeaves, Leave, Held, Removing, Adding
  <2> QED
    BY <2>1, <2>2, <2>3 DEF Kernel, Plug, Unplug, Monitor, Wake
<1> QED
  BY <1>2, <1>3 DEF Placed

LEMMA PlacedEvent ==
    ASSUME Sane, NEW c \in Contexts, EventThread(c)
    PROVE  Placed'
<1> Types
  BY DEF Sane
<1>1. ASSUME NEW x \in Contexts PROVE Settled(x)'
  <2>1. Settled(x)
    BY DEF Sane, Placed
  <2>2. CASE TakeMessage(c)
    BY <2>1, <2>2 DEF TakeMessage, At, Settled, Types, ContextTypes, DeviceTypes
  <2>3. CASE Match(c)
    BY <2>1, <2>3 DEF Match, Settled, Types, ContextTypes
  <2>4. CASE NoticeGone(c)
    BY <2>1, <2>4 DEF NoticeGone, At, Settled, Types, ContextTypes, devices
  <2>5. CASE NoticeLeaves(c)
    BY <2>1, <2>5 DEF NoticeLeaves, Settled, Types, ContextTypes, devices
  <2> QED
    BY <2>2, <2>3, <2>4, <2>5 DEF EventThread
<1>2. Held'
  <2>1. active' = active
    BY DEF EventThread, TakeMessage, Match, NoticeGone, NoticeLeaves
  <2>2. CASE hot' = hot
    BY <2>1, <2>2, HotKept
  <2>3. CASE NoticeGone(c)
    <3>1. handle[c] \in Devs
      BY <2>3, HandleTyped DEF NoticeGone, At, Holding
    <3> QED
      BY <2>1, <2>3, <3>1, DisconnectTyped, CoreAssumption
      DEF NoticeGone, Held, Removing, Adding
  <2>4. CASE NoticeLeaves(c)
    BY <2>4, UnlockedTyped DEF NoticeLeaves, Leave, Held, Removing, Adding
  <2> QED
    BY <2>2, <2>3, <2>4 DEF EventThread, TakeMessage, Match
<1> QED
  BY <1>1, <1>2 DEF Placed

LEMMA PlacedApplication ==
    ASSUME Sane, NEW c \in Contexts, Application(c)
    PROVE  Placed'
<1> Types
  BY DEF Sane
<1> USE DEF At
<1>1. ASSUME NEW x \in Contexts PROVE Settled(x)'
  <2>1. Settled(x)
    BY DEF Sane, Placed
  <2> USE DEF GoTo, Settled, Inactive, Deviceless, Unready, Holding, Unlisted,
              Types, ContextTypes, DeviceTypes, devices
  <2>2. CASE InitContext(c)
    BY <2>1, <2>2 DEF InitContext
  <2>3. CASE InitBackendFails(c)
    BY <2>1, <2>3 DEF InitBackendFails
  <2>4. CASE InitBackend(c)
    BY <2>1, <2>4 DEF InitBackend
  <2>5. CASE InitIo(c)
    BY <2>1, <2>5 DEF InitIo
  <2>6. CASE UndoContext(c)
    BY <2>1, <2>6 DEF UndoContext
  <2>7. CASE \E s \in Dongles : GetDevice2(c, s)
    BY <2>1, <2>7 DEF GetDevice2
  <2>8. CASE GetDevice2Fails(c)
    BY <2>1, <2>8 DEF GetDevice2Fails
  <2>9. CASE Device2Arrives(c)
    BY <2>1, <2>9 DEF Device2Arrives, usbi_hotplug_notification
  <2>10. CASE Open2(c)
    BY <2>1, <2>10 DEF Open2
  <2>11. CASE PollUevents(c) \/ PollLeaves(c)
    BY <2>1, <2>11 DEF PollUevents, PollLeaves
  <2>12. CASE GetDeviceList(c)
    BY <2>1, <2>12 DEF GetDeviceList
  <2>13. CASE OpenListed(c)
    <3>1. 0 \notin list[c]
      BY DevsAre
    <3> QED
      BY <2>1, <2>13, <3>1 DEF OpenListed
  <2>14. CASE OpOpen(c)
    BY <2>1, <2>14 DEF OpOpen
  <2>15. CASE OpOpenNoDevice(c)
    BY <2>1, <2>15 DEF OpOpenNoDevice
  <2>16. CASE NoDeviceLeaves(c)
    BY <2>1, <2>16 DEF NoDeviceLeaves
  <2>17. CASE FreeDeviceList(c)
    BY <2>1, <2>17 DEF FreeDeviceList
  <2>18. CASE Close(c)
    BY <2>1, <2>18 DEF Close
  <2>19. CASE ExitDefault(c)
    <3>1. app' = [app EXCEPT ![c] = "exit_active"]
      BY <2>19 DEF ExitDefault, Sane, Watched
    <3> QED
      BY <2>1, <2>19, <3>1 DEF ExitDefault
  <2>20. CASE ExitActive(c)
    BY <2>1, <2>20 DEF ExitActive
  <2>21. CASE ExitDevices(c)
    BY <2>1, <2>21 DEF ExitDevices
  <2>22. CASE OpExit(c)
    BY <2>1, <2>22 DEF OpExit, AfterExit
  <2>23. CASE MonitorJoined(c)
    BY <2>1, <2>23 DEF MonitorJoined, AfterExit
  <2> QED
    BY <2>2, <2>3, <2>4, <2>5, <2>6, <2>7, <2>8, <2>9, <2>10, <2>11, <2>12, <2>13,
       <2>14, <2>15, <2>16, <2>17, <2>18, <2>19, <2>20, <2>21, <2>22, <2>23
       DEF Application
<1>2. Held'
  <2>1. CASE hot' = hot
    <3>1. active \subseteq active' \/ ~ActiveLocked
      BY DEF Application, InitContext, InitBackendFails, InitBackend, InitIo, UndoContext,
             GetDevice2, GetDevice2Fails, Device2Arrives, Open2, PollUevents, PollLeaves,
             GetDeviceList, OpenListed, OpOpen, OpOpenNoDevice, NoDeviceLeaves,
             FreeDeviceList, Close, ExitDefault, ExitActive, ExitDevices, OpExit,
             MonitorJoined
    <3> QED
      BY <2>1, <3>1, HotKept
  <2>2. CASE PollUevents(c)
    BY <2>2, TakenTyped, CoreAssumption DEF PollUevents, Held, Removing, Adding
  <2>3. CASE PollLeaves(c) \/ NoDeviceLeaves(c)
    BY <2>3, UnlockedTyped DEF PollLeaves, NoDeviceLeaves, Leave, Held, Removing, Adding
  <2>4. CASE OpOpenNoDevice(c)
    <3>1. handle[c] \in Devs
      BY <2>4, HandleTyped DEF OpOpenNoDevice, Holding
    <3> QED
      BY <2>4, <3>1, DisconnectTyped, CoreAssumption
      DEF OpOpenNoDevice, Held, Removing, Adding
  <2> QED
    BY <2>1, <2>2, <2>3, <2>4
    DEF Application, InitContext, InitBackendFails, InitBackend, InitIo, UndoContext,
        GetDevice2, GetDevice2Fails, Device2Arrives, Open2,
        GetDeviceList, OpenListed, OpOpen, FreeDeviceList, Close, ExitDefault, ExitActive,
        ExitDevices, OpExit, MonitorJoined
<1> QED
  BY <1>1, <1>2 DEF Placed

LEMMA PlacedStep ==
    ASSUME Sane, Next
    PROVE  Placed'
  BY PlacedApplication, PlacedEvent, PlacedSection, PlacedKernel DEF Next

---------------------------------------------------------------------------
(* What a step leaves alone.                                               *)

(* Devices may be added; what identifies one does not change.              *)
Grown ==
    /\ allocated' \in Nat /\ allocated' >= allocated
    /\ \A d \in 1 .. allocated :
         /\ dev'[d].ctx = dev[d].ctx /\ dev'[d].session = dev[d].session
         /\ dev'[d].enumerated = dev[d].enumerated

(* None is added, none gets a parent.                                      *)
Kin ==
    /\ allocated' = allocated
    /\ \A d \in Devs :
         /\ dev'[d].ctx = dev[d].ctx /\ dev'[d].session = dev[d].session
         /\ dev'[d].enumerated = dev[d].enumerated /\ dev'[d].parent = dev[d].parent

(* The other contexts do not notice.                                       *)
Others(c) ==
    \A x \in Contexts \ {c} :
        /\ app'[x] = app[x] /\ event'[x] = event[x] /\ handle'[x] = handle[x]
        /\ usb_devs'[x] = usb_devs[x] /\ msgs'[x] = msgs[x] /\ list'[x] = list[x]

(* Nor does whoever holds linux_hotplug_lock.                              *)
HotStill ==
    \/ hot' = hot
    \/ hot.pc \in Between /\ hot'.pc \in Between /\ hot'.dev = 0 /\ hot'.adding = <<>>

(* Nor does who waits to tell another context that a device has left.     *)
StillTelling(c) ==
    hot.pc = "tell" /\ dev[hot.dev].ctx # c => hot'.pc = "tell" /\ hot'.dev = hot.dev

LEMMA AllocatedAre ==
    ASSUME Types
    PROVE  1 .. allocated \subseteq Devs /\ allocated \in Nat /\ \A c : Of(c) \subseteq Devs
  BY DevsAre DEF Types, DeviceTypes, Of

LEMMA KinGrown == ASSUME Types, Kin PROVE Grown
  BY AllocatedAre DEF Kin, Grown

LEMMA OfGrown ==
    ASSUME Types, Grown
    PROVE  \A c : Of(c) \subseteq Of(c)'
  BY AllocatedAre DEF Grown, Of

LEMMA TreeSound == ASSUME Sane PROVE Sound(dev)
<1>1. PICK tier \in [Sessions -> 1 .. Tiers] :
          \A s \in Sessions : ParentOf[s] # NoOne => tier[ParentOf[s]] < tier[s]
  BY CoreAssumption
<1> DEFINE of == [d \in Devs |-> IF dev[d].session \in Sessions THEN tier[dev[d].session] ELSE 1]
<1>2. of \in [Devs -> 1 .. Tiers]
  BY <1>1 DEF Tiers
<1>3. ASSUME NEW d \in Devs, dev[d].parent # 0
      PROVE  dev[d].parent \in Devs /\ of[dev[d].parent] < of[d]
  <2> DEFINE p == dev[d].parent
  <2>1. p \in 1 .. allocated /\ dev[p].session = ParentOf[dev[d].session]
    BY <1>3 DEF Sane, Tree, Parents, Of
  <2>2. d \in 1 .. allocated
    <3>1. d <= allocated
      BY <1>3, DevsAre, AllocatedAre DEF Sane, Owned, Spare
    <3> QED
      BY <3>1, DevsAre, AllocatedAre DEF Sane
  <2>3. p \in Devs /\ dev[p].session \in Sessions /\ dev[d].session \in Sessions
    BY <2>1, <2>2, AllocatedAre DEF Sane, Owned
  <2>4. ParentOf[dev[d].session] # NoOne
    BY <2>1, <2>3, CoreAssumption
  <2> QED
    BY <1>1, <2>1, <2>3, <2>4
<1> HIDE DEF of
<1>4. Rising(dev, of)
  BY <1>3 DEF Rising
<1> QED
  BY <1>2, <1>4 DEF Sound

LEMMA NoOwnParent == \A s \in Sessions : ParentOf[s] # s
<1>1. PICK tier \in [Sessions -> 1 .. Tiers] :
          \A s \in Sessions : ParentOf[s] # NoOne => tier[ParentOf[s]] < tier[s]
  BY CoreAssumption
<1>2. ASSUME NEW s \in Sessions, ParentOf[s] = s PROVE FALSE
  <2>1. tier[s] < tier[s] /\ tier[s] \in Int
    BY <1>1, <1>2, CoreAssumption DEF Tiers
  <2> QED
    BY <2>1
<1> QED
  BY <1>2

(* The references to a device, while nothing has gone wrong.               *)
LEMMA Terms ==
    ASSUME Sane, NEW d \in 1 .. allocated
    PROVE  /\ InList(d) \in 0 .. 1 /\ InAdding(d) \in 0 .. 1 /\ InTelling(d) \in 0 .. 1
           /\ InMessages(d) \in 0 .. 1 /\ InEvent(d) \in 0 .. 1 /\ InNone(d) \in 0 .. 1
           /\ InHandle(d) \in 0 .. 1 /\ InArray(d) \in 0 .. 1 /\ InHand(d) \in 0 .. 1
           /\ Born(d) \in 0 .. 1 /\ Uses(d) \in 0 .. 3
           /\ Kept(dev, d) = Born(d) + Uses(d)
           /\ Kids(dev, d) \in Nat /\ dev[d].refcnt = Kept(dev, d) + Kids(dev, d)
           /\ dev[d].refcnt \in Nat /\ d \in Devs /\ dev[d].ctx \in Contexts
           /\ (InMessages(d) > 0 <=> Message("LEFT", d) \in ToSet(msgs[dev[d].ctx]))
<1>1. d \in Devs /\ dev[d].ctx \in Contexts
  BY AllocatedAre DEF Sane, Owned
<1>2. /\ InList(d) \in 0 .. 1 /\ InAdding(d) \in 0 .. 1 /\ InTelling(d) \in 0 .. 1
      /\ InEvent(d) \in 0 .. 1 /\ InNone(d) \in 0 .. 1
      /\ InHandle(d) \in 0 .. 1 /\ InArray(d) \in 0 .. 1 /\ InHand(d) \in 0 .. 1
  BY OneIs DEF InList, InAdding, InTelling, InEvent, InNone, InHandle, InArray, InHand
<1>3. InMessages(d) \in Nat
      /\ (InMessages(d) > 0 <=> Message("LEFT", d) \in ToSet(msgs[dev[d].ctx]))
  <2>1. msgs[dev[d].ctx] \in Seq(Messages)
    BY <1>1 DEF Sane, Types, DeviceTypes
  <2> QED
    BY <2>1, PlacesCounted DEF InMessages
<1>4. Born(d) <= 1 /\ dev[d].refcnt = Born(d) + Uses(d) + Kids(dev, d)
  BY DEF Sane, BornOnce, Referred
<1>5. dev[d].refcnt \in Nat /\ Kids(dev, d) \in Nat
  BY <1>1, KidsCounted DEF Sane, Counted
<1>6. InMessages(d) <= Born(d) /\ Born(d) \in Nat
  BY <1>2, <1>3 DEF Born
<1>7. Uses(d) \in 0 .. 3
  BY <1>2 DEF Uses
<1> QED
  BY <1>1, <1>2, <1>3, <1>4, <1>5, <1>6, <1>7 DEF Kept

(* A device that was never allocated.                                      *)
LEMMA Unborn ==
    ASSUME Sane, NEW d \in Devs, d > allocated
    PROVE  Kept(dev, d) = 0 /\ Kids(dev, d) = 0 /\ dev[d].refcnt = 0
           /\ (\A e \in Devs : dev[e].parent # d)
<1>1. dev[d].refcnt = 0
  BY DEF Sane, Owned, Spare
<1>2. ASSUME NEW e \in Devs PROVE dev[e].parent # d
  <2>1. d # 0 /\ d \notin 1 .. allocated
    BY DevsFinite, AllocatedAre DEF Sane
  <2> QED
    BY <2>1 DEF Sane, Tree, Parents, Of
<1>3. ChildrenOf(dev, d) = {}
  BY <1>2 DEF ChildrenOf
<1>4. Kids(dev, d) = 0
  BY <1>3, KidsCounted
<1> QED
  BY <1>1, <1>2, <1>4 DEF Kept

LEMMA TermsKept ==
    ASSUME NEW d, dev'[d].ctx = dev[d].ctx
    PROVE  /\ usb_devs'[dev[d].ctx] = usb_devs[dev[d].ctx] => InList(d)' = InList(d)
           /\ msgs'[dev[d].ctx] = msgs[dev[d].ctx] => InMessages(d)' = InMessages(d)
           /\ event'[dev[d].ctx] = event[dev[d].ctx] => InEvent(d)' = InEvent(d)
           /\ unsaid' = unsaid => InNone(d)' = InNone(d)
           /\ handle'[dev[d].ctx] = handle[dev[d].ctx] /\ app'[dev[d].ctx] = app[dev[d].ctx]
                => InHandle(d)' = InHandle(d)
           /\ list'[dev[d].ctx] = list[dev[d].ctx] => InArray(d)' = InArray(d)
           /\ hot'.dev = hot.dev => InHand(d)' = InHand(d)
           /\ hot' = hot => InTelling(d)' = InTelling(d) /\ InAdding(d)' = InAdding(d)
           /\ hot'.dev = hot.dev /\ (hot.pc # "tell") /\ (hot'.pc # "tell")
                => InTelling(d)' = InTelling(d)
           /\ hot'.adding = hot.adding /\ (hot.pc # "arrived") /\ (hot'.pc # "arrived")
                => InAdding(d)' = InAdding(d)
<1> USE DEF One
<1>1. /\ usb_devs'[dev[d].ctx] = usb_devs[dev[d].ctx] => InList(d)' = InList(d)
      /\ msgs'[dev[d].ctx] = msgs[dev[d].ctx] => InMessages(d)' = InMessages(d)
      /\ event'[dev[d].ctx] = event[dev[d].ctx] => InEvent(d)' = InEvent(d)
      /\ unsaid' = unsaid => InNone(d)' = InNone(d)
  BY DEF InList, InMessages, InEvent, InNone
<1>2. /\ handle'[dev[d].ctx] = handle[dev[d].ctx] /\ app'[dev[d].ctx] = app[dev[d].ctx]
           => InHandle(d)' = InHandle(d)
      /\ list'[dev[d].ctx] = list[dev[d].ctx] => InArray(d)' = InArray(d)
      /\ hot'.dev = hot.dev => InHand(d)' = InHand(d)
  BY DEF InHandle, InArray, InHand
<1>3. /\ hot' = hot => InTelling(d)' = InTelling(d) /\ InAdding(d)' = InAdding(d)
      /\ hot'.dev = hot.dev /\ (hot.pc # "tell") /\ (hot'.pc # "tell")
           => InTelling(d)' = InTelling(d)
      /\ hot'.adding = hot.adding /\ (hot.pc # "arrived") /\ (hot'.pc # "arrived")
           => InAdding(d)' = InAdding(d)
  BY DEF InTelling, InAdding, Added
<1> QED
  BY <1>1, <1>2, <1>3

LEMMA OwnsKept ==
    ASSUME Sane, Grown, NEW x \in Contexts,
           ToSet(usb_devs'[x]) \subseteq ToSet(usb_devs[x]), list'[x] \subseteq list[x],
           handle'[x] \in {0, handle[x]}, ToSet(msgs'[x]) \subseteq ToSet(msgs[x]),
           event'[x] = event[x] \/ event'[x] = Idle,
           event'[x].event = "lost" => handle'[x] = handle[x]
    PROVE  Owns(x)'
<1>1. Owns(x)
  BY DEF Sane, Owned
<1>2. Of(x) \subseteq Of(x)'
  BY OfGrown DEF Sane
<1>3. Idle.event = "idle"
  BY DEF Idle, Message
<1> QED
  BY <1>1, <1>2, <1>3 DEF Owns

LEMMA LastsKept ==
    ASSUME Sane, Grown, NEW x \in Contexts, app[x] # "gone", msgs'[x] = msgs[x],
           event'[x] = event[x] \/ event'[x].event # "ARRIVED",
           app'[x] \notin {"arrived", "open2"} \/ app'[x] = app[x],
           app'[x] = app[x] => handle'[x] = handle[x] \/ app[x] \notin {"arrived", "open2"},
           \A d \in Of(x) :
             /\ d \in ToSet(usb_devs[x]) => d \in ToSet(usb_devs'[x])
                                            \/ (hot'.pc = "tell" /\ hot'.dev = d)
             /\ hot.pc = "tell" /\ hot.dev = d => hot'.pc = "tell" /\ hot'.dev = d
    PROVE  Lasts(x)'
<1>1. Lasts(x)
  BY DEF Sane, Lasting
<1>2. \A d \in Of(x) : dev[d].ctx = x /\ dev'[d].ctx = x /\ dev'[d].enumerated = dev[d].enumerated
  BY DEF Grown, Of
<1>3. ASSUME NEW d \in Of(x), NEW i, Leaves(d, i) PROVE Leaves(d, i)'
  BY <1>2, <1>3 DEF Leaves
<1>4. \A i \in DOMAIN msgs[x] : msgs[x][i].dev \in Of(x)
  BY DEF ToSet, Sane, Owned, Owns
<1>5. event[x].event = "ARRIVED" => event[x].dev \in Of(x)
  BY DEF Idle, Message, Sane, Owned, Owns
<1>6. app[x] \in {"arrived", "open2"} => handle[x] \in Of(x)
  BY DEF Sane, Owned, Owns, Placed, Settled, Holding
<1> QED
  BY <1>1, <1>2, <1>3, <1>4, <1>5, <1>6 DEF Lasts

LEMMA OthersKept ==
    ASSUME Sane, Grown, NEW c \in Contexts, Others(c), StillTelling(c)
    PROVE  \A x \in Contexts \ {c} : Owns(x)' /\ (app'[x] # "gone" => Lasts(x)')
<1> SUFFICES ASSUME NEW x \in Contexts, x # c
             PROVE  Owns(x)' /\ (app'[x] # "gone" => Lasts(x)')
  OBVIOUS
<1>1. /\ app'[x] = app[x] /\ event'[x] = event[x] /\ handle'[x] = handle[x]
      /\ usb_devs'[x] = usb_devs[x] /\ msgs'[x] = msgs[x] /\ list'[x] = list[x]
  BY DEF Others
<1>2. Owns(x)'
  BY <1>1, OwnsKept
<1>3. \A d \in Of(x) : hot.pc = "tell" /\ hot.dev = d => hot'.pc = "tell" /\ hot'.dev = d
  BY DEF StillTelling, Of
<1>4. ASSUME app'[x] # "gone" PROVE Lasts(x)'
  <2>1. app[x] # "gone" /\ msgs'[x] = msgs[x]
    BY <1>1, <1>4
  <2>2. event'[x] = event[x] \/ event'[x].event # "ARRIVED"
    BY <1>1
  <2>3. app'[x] \notin {"arrived", "open2"} \/ app'[x] = app[x]
    BY <1>1
  <2>4. app'[x] = app[x] => handle'[x] = handle[x] \/ app[x] \notin {"arrived", "open2"}
    BY <1>1
  <2>5. \A d \in Of(x) :
           /\ d \in ToSet(usb_devs[x]) => d \in ToSet(usb_devs'[x])
                                          \/ (hot'.pc = "tell" /\ hot'.dev = d)
           /\ hot.pc = "tell" /\ hot.dev = d => hot'.pc = "tell" /\ hot'.dev = d
    BY <1>1, <1>3
  <2> QED
    BY <2>1, <2>2, <2>3, <2>4, <2>5, LastsKept
<1> QED
  BY <1>2, <1>4

LEMMA HotOwnsKept ==
    ASSUME Sane, Grown, HotStill,
           \A d \in ToSet(hot.adding) : dev'[d].parent = dev[d].parent,
           \/ hot.pc \in Between
           \/ \A x \in active : ToSet(usb_devs[x]) \subseteq ToSet(usb_devs'[x])
    PROVE  HotOwns' /\ Orphans'
<1>1. CASE hot.pc \in Between
  <2>1. hot'.pc \in Between /\ hot'.adding = <<>>
    BY <1>1 DEF HotStill, Sane, Placed, Held
  <2>2. hot'.pc \notin Removing \cup Adding
    BY <2>1 DEF Between, Removing, Adding
  <2> QED
    BY <2>1, <2>2, EmptyElements DEF HotOwns, Orphans
<1>2. CASE hot.pc \notin Between
  <2>1. hot' = hot
    BY <1>2 DEF HotStill
  <2>2. HotOwns /\ Orphans
    BY DEF Sane, Owned, Tree
  <2>3. hot.pc \in Removing \cup Adding => hot.todo \subseteq active
    BY DEF Sane, Placed, Held
  <2>4. Orphans'
    BY <2>1, <2>2 DEF Orphans, Added
  <2>5. CASE hot.pc \in Removing
    <3>1. hot.pc \notin Adding
      BY <2>5 DEF Removing, Adding
    <3>2. hot.dev \in 1 .. allocated /\ dev[hot.dev].ctx \in hot.todo /\ hot.adding = <<>>
          /\ (hot.pc \in {"detach", "unlist"} => hot.dev \in ToSet(usb_devs[dev[hot.dev].ctx]))
      BY <2>2, <2>5 DEF HotOwns
    <3>3. hot.dev \in 1 .. allocated' /\ dev'[hot.dev].ctx = dev[hot.dev].ctx
      BY <3>2, AllocatedAre DEF Grown, Sane
    <3> QED
      BY <1>2, <2>1, <2>3, <2>4, <2>5, <3>1, <3>2, <3>3 DEF HotOwns
  <2>6. CASE hot.pc \in Adding
    <3>1. hot.pc \notin Removing
      BY <2>6 DEF Removing, Adding
    <3>2. /\ hot.dev = 0 /\ hot.adding # <<>> /\ dev[Added].ctx \in hot.todo
          /\ \A d \in ToSet(hot.adding) : d \in Of(dev[Added].ctx) /\ dev[d].enumerated
          /\ hot.pc = "arrived" => Added \in ToSet(usb_devs[dev[Added].ctx])
      BY <2>2, <2>6 DEF HotOwns
    <3>3. Added \in 1 .. allocated /\ Added' = Added
      BY <2>1, <2>6, AddedTyped DEF Added
    <3>4. dev'[Added].ctx = dev[Added].ctx
      BY <3>3 DEF Grown
    <3>5. \A d \in ToSet(hot.adding) : d \in Of(dev[Added].ctx)' /\ dev'[d].enumerated
      BY <3>2, <3>3, <3>4, OfGrown DEF Grown, Of, Sane
    <3>6. dev[Added].ctx \in active
      BY <2>3, <2>6, <3>2
    <3> QED
      BY <1>2, <2>1, <2>4, <2>6, <3>1, <3>2, <3>3, <3>4, <3>5, <3>6 DEF HotOwns
  <2>7. CASE hot.pc \notin Removing \cup Adding
    BY <2>1, <2>4, <2>7 DEF HotOwns
  <2> QED
    BY <2>5, <2>6, <2>7
<1> QED
  BY <1>1, <1>2

(* The counts: what is to be shown of a step that adds no device and gives *)
(* none a parent.                                                          *)
LEMMA KinStep ==
    ASSUME Sane, Types', Kin,
           \A d \in Devs : d > allocated => Kept(dev', d) = 0,
           \A d \in 1 .. allocated :
              /\ Born(d)' \in 0 .. 1 /\ Uses(d)' \in Nat
              /\ Kept(dev', d) = Born(d)' + Uses(d)'
    PROVE  /\ Parents' /\ Spare' /\ Referred' /\ Counted'
           /\ \A d \in 1 .. allocated' : Born(d)' <= 1
           /\ \A d \in 1 .. allocated' : dev'[d].ctx \in Contexts /\ dev'[d].session \in Sessions
<1>1. \A d \in Devs : dev'[d].refcnt = Kept(dev', d) + Kids(dev', d) /\ Kids(dev', d) \in Nat
  <2> TAKE d \in Devs
  <2>1. dev'[d].refcnt \in Int
    BY DEF Types, DeviceTypes, Device
  <2> QED
    BY <2>1, KidsCounted DEF Kept
<1>2. 1 .. allocated \subseteq Devs /\ allocated' = allocated /\ allocated \in Nat
  BY AllocatedAre DEF Kin, Sane
<1>3. Parents'
  <2>1. ASSUME NEW d \in Devs, dev'[d].parent # 0
        PROVE  /\ dev'[d].parent \in 1 .. allocated'
               /\ dev'[dev'[d].parent].ctx = dev'[d].ctx
               /\ dev'[dev'[d].parent].session = ParentOf[dev'[d].session]
    <3>1. dev'[d].parent = dev[d].parent /\ dev'[d].ctx = dev[d].ctx /\ dev'[d].session = dev[d].session
      BY DEF Kin
    <3>2. dev[d].parent \in Of(dev[d].ctx) /\ dev[dev[d].parent].session = ParentOf[dev[d].session]
      BY <2>1, <3>1 DEF Sane, Tree, Parents
    <3>3. dev[d].parent \in 1 .. allocated /\ dev[dev[d].parent].ctx = dev[d].ctx
      BY <3>2 DEF Of
    <3> QED
      BY <1>2, <3>1, <3>2, <3>3 DEF Kin
  <2> QED
    BY <2>1 DEF Parents, Of
<1>4. ASSUME NEW d \in Devs, d > allocated PROVE dev'[d].refcnt = 0 /\ dev'[d].parent = 0
  <2>1. \A e \in Devs : dev'[e].parent # d
    BY <1>4, Unborn DEF Kin
  <2>2. ChildrenOf(dev', d) = {}
    BY <2>1 DEF ChildrenOf
  <2>3. Kids(dev', d) = 0
    BY <2>2, KidsCounted
  <2>4. dev[d].parent = 0
    BY <1>4 DEF Sane, Owned, Spare
  <2> QED
    BY <1>1, <1>4, <2>3, <2>4 DEF Kin
<1>5. Spare'
  BY <1>2, <1>4 DEF Spare
<1>6. Referred'
  <2> SUFFICES ASSUME NEW d \in 1 .. allocated'
               PROVE  dev'[d].refcnt = Born(d)' + Uses(d)' + Kids(dev', d)
    BY DEF Referred
  <2> QED
    BY <1>1, <1>2
<1>7. Counted'
  <2> SUFFICES ASSUME NEW d \in Devs PROVE dev'[d].refcnt \in Nat
    BY DEF Counted
  <2>1. d \in 1 .. allocated \/ d > allocated
    BY <1>2, DevsFinite
  <2> QED
    BY <1>1, <1>2, <1>4, <2>1
<1>8. \A d \in 1 .. allocated' : Born(d)' <= 1
  BY <1>2
<1>9. \A d \in 1 .. allocated' : dev'[d].ctx \in Contexts /\ dev'[d].session \in Sessions
  BY <1>2 DEF Kin, Sane, Owned
<1> QED
  BY <1>3, <1>5, <1>6, <1>7, <1>8, <1>9

---------------------------------------------------------------------------
(* What is to be shown of a step, of its context and of its counts.        *)
Data == Owned /\ Tree /\ BornOnce /\ Lasting /\ Referred /\ Counted

(* What must be true of the context and of the holder of the lock after it.*)
Good(c) ==
    /\ Owns(c) /\ (app[c] # "gone" => Lasts(c)) /\ Distinct(usb_devs[c])
    /\ HotOwns /\ Orphans /\ Distinct(hot.adding) /\ unsaid \subseteq 1 .. allocated

LEMMA KinData ==
    ASSUME Sane, Types', Kin, NEW c \in Contexts, Others(c), StillTelling(c), Good(c)',
           \A d \in Devs : d > allocated => Kept(dev', d) = 0,
           \A d \in 1 .. allocated :
              /\ Born(d)' \in 0 .. 1 /\ Uses(d)' \in Nat
              /\ Kept(dev', d) = Born(d)' + Uses(d)'
    PROVE  Data'
<1>1. /\ Parents' /\ Spare' /\ Referred' /\ Counted'
      /\ \A d \in 1 .. allocated' : Born(d)' <= 1
      /\ \A d \in 1 .. allocated' : dev'[d].ctx \in Contexts /\ dev'[d].session \in Sessions
  BY KinStep
<1>2. \A x \in Contexts \ {c} : Owns(x)' /\ (app'[x] # "gone" => Lasts(x)')
  BY KinGrown, OthersKept DEF Sane
<1>3. \A x \in Contexts \ {c} : Distinct(usb_devs'[x])
  BY DEF Others, Sane, BornOnce
<1>4. /\ Owns(c)' /\ (app'[c] # "gone" => Lasts(c)') /\ Distinct(usb_devs'[c])
      /\ HotOwns' /\ Orphans' /\ Distinct(hot'.adding) /\ unsaid' \subseteq 1 .. allocated'
  BY DEF Good
<1>5. \A x \in Contexts : Owns(x)' /\ (app'[x] # "gone" => Lasts(x)') /\ Distinct(usb_devs'[x])
  BY <1>2, <1>3, <1>4
<1>6. Owned' /\ Tree'
  BY <1>1, <1>4, <1>5 DEF Owned, Tree
<1>7. BornOnce'
  BY <1>1, <1>4, <1>5 DEF BornOnce
<1>8. Lasting'
  BY <1>5 DEF Lasting
<1> QED
  BY <1>1, <1>6, <1>7, <1>8 DEF Data

(* A step that takes and drops no reference: the labels of the threads do  *)
(* not matter, but for those of rtlsdr_open2 and of the lock's holder.     *)
Opening2 == {"arrived", "open2"}
Quiet ==
    /\ UNCHANGED <<usb_devs, msgs, list, allocated, unsaid, dev, handle>>
    /\ \A x \in Contexts :
         /\ \/ app'[x] = app[x]
            \/ app[x] \notin Opening2 \cup {"gone"} /\ app'[x] \notin Opening2
         /\ \/ event'[x] = event[x]
            \/ /\ event[x].event \in {"idle", "lost"} /\ event'[x].event \in {"idle", "lost"}
               /\ event'[x] # Idle =>
                    event'[x].event = "lost" /\ event'[x].dev = handle[x] /\ handle[x] # 0
    /\ \/ HotStill
       \/ /\ hot.pc \in {"initialize", "parent", "retry"}
          /\ hot'.pc \in {"parent", "retry", "connect"} /\ hot'.todo = hot.todo
          /\ hot'.dev = hot.dev /\ hot'.adding = hot.adding

LEMMA QuietStep ==
    ASSUME Sane, Types', Quiet
    PROVE  Data'
<1>1. UNCHANGED <<usb_devs, msgs, list, allocated, unsaid, dev, handle>>
  BY DEF Quiet
<1>2. \A d : hot.pc = "tell" /\ hot.dev = d => hot'.pc = "tell" /\ hot'.dev = d
  BY DEF HotStill, Between, Quiet
<1>3. hot'.dev = hot.dev /\ hot'.adding = hot.adding
      /\ (hot' = hot \/ (hot.pc \notin {"tell", "arrived"} /\ hot'.pc \notin {"tell", "arrived"}))
  BY DEF Quiet, HotStill, Sane, Placed, Held, Between
<1>4. \A x : Of(x)' = Of(x)
  BY <1>1 DEF Of
<1>5. Kin /\ Grown
  BY <1>1, KinGrown DEF Kin, Sane
<1>6. ASSUME NEW x \in Contexts PROVE Owns(x)' /\ (app'[x] # "gone" => Lasts(x)')
  <2>1. Owns(x)
    BY DEF Sane, Owned
  <2>2. Idle.event = "idle"
    BY DEF Idle, Message
  <2>3. event'[x] = event[x] \/ (event'[x].event \notin {"ARRIVED"}
          /\ (event'[x] # Idle => event'[x].event = "lost" /\ event'[x].dev = handle[x]
                                  /\ handle[x] # 0))
    BY DEF Quiet
  <2>4. Owns(x)'
    BY <1>1, <1>4, <2>1, <2>2, <2>3 DEF Owns
  <2>5. ASSUME app'[x] # "gone" PROVE Lasts(x)'
    <3>1. app[x] # "gone" /\ msgs'[x] = msgs[x]
      BY <1>1, <2>5 DEF Quiet
    <3>2. event'[x] = event[x] \/ event'[x].event # "ARRIVED"
      BY <2>3
    <3>3. app'[x] \notin {"arrived", "open2"} \/ app'[x] = app[x]
      BY DEF Quiet, Opening2
    <3>4. app'[x] = app[x] => handle'[x] = handle[x] \/ app[x] \notin {"arrived", "open2"}
      BY <1>1
    <3>5. \A d \in Of(x) :
             /\ d \in ToSet(usb_devs[x]) => d \in ToSet(usb_devs'[x])
                                            \/ (hot'.pc = "tell" /\ hot'.dev = d)
             /\ hot.pc = "tell" /\ hot.dev = d => hot'.pc = "tell" /\ hot'.dev = d
      BY <1>1, <1>2
    <3> QED
      BY <1>5, <3>1, <3>2, <3>3, <3>4, <3>5, LastsKept
  <2> QED
    BY <2>4, <2>5
<1>7. ASSUME NEW d \in 1 .. allocated PROVE Born(d)' = Born(d) /\ Uses(d)' = Uses(d)
  <2>1. dev[d].ctx \in Contexts /\ dev'[d].ctx = dev[d].ctx
    BY <1>1, Terms
  <2>2. InList(d)' = InList(d) /\ InMessages(d)' = InMessages(d) /\ InNone(d)' = InNone(d)
        /\ InArray(d)' = InArray(d) /\ InHand(d)' = InHand(d)
    BY <1>1, <1>3, <2>1, TermsKept
  <2>3. InTelling(d)' = InTelling(d) /\ InAdding(d)' = InAdding(d)
    BY <1>1, <1>3, <2>1, TermsKept
  <2>4. InEvent(d)' = InEvent(d)
    BY <1>1, <2>1 DEF Quiet, InEvent, Message, One
  <2>5. InHandle(d)' = InHandle(d)
    BY <1>1, <2>1 DEF Quiet, InHandle, Opening2, One
  <2> QED
    BY <2>2, <2>3, <2>4, <2>5 DEF Born, Uses
<1>8. HotOwns' /\ Orphans'
  <2>1. CASE HotStill
    BY <1>1, <1>5, <2>1, HotOwnsKept
  <2>2. CASE /\ hot.pc \in {"initialize", "parent", "retry"}
             /\ hot'.pc \in {"parent", "retry", "connect"} /\ hot'.todo = hot.todo
             /\ hot'.dev = hot.dev /\ hot'.adding = hot.adding
    <3>1. /\ hot.dev = 0 /\ hot.adding # <<>> /\ dev[Added].ctx \in hot.todo
          /\ \A d \in ToSet(hot.adding) : d \in Of(dev[Added].ctx) /\ dev[d].enumerated
      BY <2>2 DEF Sane, Owned, HotOwns, Adding
    <3>2. Added' = Added
      BY <2>2 DEF Added
    <3>3. HotOwns'
      BY <1>1, <2>2, <3>1, <3>2 DEF HotOwns, Adding, Removing, Of
    <3>4. Orphans'
      BY <1>1, <2>2, <3>2 DEF Sane, Tree, Orphans
    <3> QED
      BY <3>3, <3>4
  <2> QED
    BY <2>1, <2>2 DEF Quiet
<1>9. ASSUME NEW d \in 1 .. allocated
      PROVE  /\ Born(d)' \in 0 .. 1 /\ Uses(d)' \in Nat
             /\ Kept(dev', d) = Born(d)' + Uses(d)'
  BY <1>1, <1>7, Terms
<1>10. \A d \in Devs : d > allocated => Kept(dev', d) = 0
  BY <1>1, Unborn
<1>11. Parents' /\ Spare' /\ Referred' /\ Counted'
       /\ (\A d \in 1 .. allocated' : Born(d)' <= 1)
       /\ (\A d \in 1 .. allocated' : dev'[d].ctx \in Contexts /\ dev'[d].session \in Sessions)
  BY <1>5, <1>9, <1>10, KinStep
<1>12. Owned' /\ Tree'
  BY <1>1, <1>6, <1>8, <1>11 DEF Owned, Tree, Sane
<1>13. BornOnce' /\ Lasting'
  BY <1>1, <1>3, <1>6, <1>11 DEF BornOnce, Lasting, Sane
<1> QED
  BY <1>11, <1>12, <1>13 DEF Data

LEMMA QuietKernel == ASSUME Sane, Kernel \/ Monitor PROVE Quiet
<1>1. UNCHANGED <<context, devices>>
  BY DEF Kernel, Plug, Unplug, Monitor, Wake, LockHot, MonitorLeaves
<1>2. HotStill
  <2>1. CASE hot' = hot
    BY <2>1 DEF HotStill
  <2>2. CASE LockHot
    BY <2>2, TakenTyped, UnlockedTyped DEF LockHot, HotStill, Between, Sane, Placed, Held
  <2>3. CASE MonitorLeaves
    BY <2>3, UnlockedTyped DEF MonitorLeaves, Leave, Hot, HotStill, Between
  <2> QED
    BY <2>1, <2>2, <2>3 DEF Kernel, Plug, Unplug, Monitor, Wake
<1> QED
  BY <1>1, <1>2 DEF Quiet, context, devices

LEMMA QuietHolder ==
    ASSUME Sane, UNCHANGED <<context, devices>>,
           \/ linux_netlink_read_message \/ Handled \/ Initialize
           \/ \E c \in Contexts : FindRemoved(c) \/ FindAdded(c) \/ FindParent(c)
    PROVE  Quiet
<1> Types /\ hot \in Holder
  BY DEF Sane, Types, HotTypes
<1>1. \/ HotStill
      \/ /\ hot.pc \in {"initialize", "parent", "retry"}
         /\ hot'.pc \in {"parent", "retry", "connect"} /\ hot'.todo = hot.todo
         /\ hot'.dev = hot.dev /\ hot'.adding = hot.adding
  <2>1. hot.pc \in Between => hot.dev = 0 /\ hot.adding = <<>>
    BY DEF Sane, Placed, Held
  <2>2. ASSUME NEW c, NextContext(c), hot.pc \in Between PROVE HotStill
    BY <2>2, NextContextTyped DEF HotStill, Between
  <2>3. CASE linux_netlink_read_message
    BY <2>1, <2>3 DEF linux_netlink_read_message, Handle, Hot, HotStill, Between, Holder
  <2>4. CASE Handled
    BY <2>1, <2>4 DEF Handled, Hot, HotStill, Between, Holder
  <2>5. CASE Initialize
    BY <2>5 DEF Initialize, Hot, Holder
  <2>6. ASSUME NEW c \in Contexts, FindRemoved(c) PROVE HotStill
    <3>1. CASE NextContext(c)
      BY <2>2, <2>6, <3>1 DEF FindRemoved, Hot, Between
    <3>2. CASE InSession(c, hot.session) # {}
      <4> DEFINE d == ByDevice(c, hot.session)
      <4>1. d \in Devs
        BY <3>2, ByDeviceFound
      <4>2. dev' = dev /\ dev' = Ref(dev, d) /\ dev \in [Devs -> Device]
        BY <2>6, <3>2 DEF FindRemoved, devices, Types, DeviceTypes
      <4>3. dev'[d].refcnt = dev[d].refcnt + 1 /\ dev[d].refcnt \in Int
        <5> HIDE DEF d
        <5>1. dev[d] \in Device
          BY <4>1, <4>2
        <5> QED
          BY <4>1, <4>2, <5>1 DEF Ref, Device
      <4> QED
        BY <4>2, <4>3
    <3> QED
      BY <2>6, <3>1, <3>2 DEF FindRemoved
  <2>7. ASSUME NEW c \in Contexts, FindAdded(c) PROVE HotStill
    <3>1. CASE NextContext(c)
      BY <2>2, <2>7, <3>1 DEF FindAdded, Hot, Between
    <3>2. CASE Allocate(c, hot.session)
      BY <3>2 DEF Allocate, usbi_alloc_device, devices, Types, DeviceTypes
    <3> QED
      BY <2>7, <3>1, <3>2 DEF FindAdded
  <2>8. ASSUME NEW c \in Contexts, FindParent(c), NEW l \in {"connect", "retry"},
               hot' = [hot EXCEPT !.pc = l]
        PROVE  /\ hot.pc \in {"initialize", "parent", "retry"}
               /\ hot'.pc \in {"parent", "retry", "connect"} /\ hot'.todo = hot.todo
               /\ hot'.dev = hot.dev /\ hot'.adding = hot.adding
    BY <2>8, ParentFound DEF Holder
  <2>9. ASSUME NEW c \in Contexts, FindParent(c)
        PROVE  \E l \in {"connect", "retry"} : hot' = [hot EXCEPT !.pc = l]
    <3>1. allocated' = allocated /\ allocated \in Nat
      BY AllocatedAre DEF devices
    <3>2. \A s : ~Allocate(c, s)
      BY <3>1 DEF Allocate, usbi_alloc_device
    <3> QED
      BY <2>9, <3>2, ParentFound
  <2> QED
    BY <2>3, <2>4, <2>5, <2>6, <2>7, <2>8, <2>9
<1> QED
  BY <1>1 DEF Quiet, context, devices

LEMMA QuietEvent ==
    ASSUME Sane, NEW c \in Contexts, NoticeGone(c) \/ NoticeLeaves(c)
    PROVE  Quiet
<1> Types
  BY DEF Sane
<1>1. UNCHANGED devices /\ UNCHANGED <<app, handle>>
  BY DEF NoticeGone, NoticeLeaves
<1>2. \A x \in Contexts :
        \/ event'[x] = event[x]
        \/ /\ event[x].event \in {"idle", "lost"} /\ event'[x].event \in {"idle", "lost"}
           /\ event'[x] # Idle =>
                event'[x].event = "lost" /\ event'[x].dev = handle[x] /\ handle[x] # 0
  <2>1. event \in [Contexts -> Messages]
    BY DEF Types, ContextTypes
  <2>2. CASE NoticeGone(c)
    <3>1. handle[c] # 0
      BY <2>2, HandleTyped, DevsFinite DEF NoticeGone, At, Holding
    <3> QED
      BY <2>1, <2>2, <3>1 DEF NoticeGone, Idle, Message
  <2>3. CASE NoticeLeaves(c)
    BY <2>1, <2>3 DEF NoticeLeaves, Idle, Message
  <2> QED
    BY <2>2, <2>3
<1>3. HotStill
  <2>1. CASE NoticeGone(c)
    <3>1. handle[c] \in Devs
      BY <2>1, HandleTyped DEF NoticeGone, At, Holding
    <3> QED
      BY <2>1, <3>1, DisconnectTyped, UnlockedTyped
      DEF NoticeGone, HotStill, Between, Sane, Placed, Held
  <2>2. CASE NoticeLeaves(c)
    BY <2>2, UnlockedTyped DEF NoticeLeaves, Leave, HotStill, Between
  <2> QED
    BY <2>1, <2>2
<1> QED
  BY <1>1, <1>2, <1>3 DEF Quiet, devices

LEMMA QuietApplication ==
    ASSUME Sane, NEW c \in Contexts,
           \/ InitContext(c) \/ InitBackendFails(c) \/ InitBackend(c) \/ InitIo(c)
           \/ GetDevice2Fails(c) \/ PollUevents(c) \/ PollLeaves(c) \/ OpOpenNoDevice(c)
           \/ ExitDefault(c) \/ ExitActive(c) \/ OpExit(c) \/ MonitorJoined(c)
    PROVE  Quiet
<1> Types
  BY DEF Sane
<1>1. UNCHANGED devices /\ UNCHANGED <<event, handle>>
  BY DEF InitContext, InitBackendFails, InitBackend, InitIo, GetDevice2Fails, PollUevents,
         PollLeaves, OpOpenNoDevice, ExitDefault, ExitActive, OpExit, MonitorJoined
<1>2. \A x \in Contexts :
        \/ app'[x] = app[x]
        \/ app[x] \notin Opening2 \cup {"gone"} /\ app'[x] \notin Opening2
  <2>1. \E l \in AppLabels \ Opening2 : GoTo(c, l)
    BY DEF InitContext, InitBackendFails, InitBackend, InitIo, GetDevice2Fails, PollUevents,
           PollLeaves, OpOpenNoDevice, ExitDefault, ExitActive, OpExit, MonitorJoined,
           AfterExit, AppLabels, Opening2
  <2>2. app[c] \notin Opening2 \cup {"gone"}
    BY DEF InitContext, InitBackendFails, InitBackend, InitIo, GetDevice2Fails, PollUevents,
           PollLeaves, OpOpenNoDevice, ExitDefault, ExitActive, OpExit, MonitorJoined,
           At, Opening2
  <2> QED
    BY <2>1, <2>2 DEF GoTo, Types, ContextTypes
<1>3. HotStill
  <2>1. CASE hot' = hot
    BY <2>1 DEF HotStill
  <2>2. CASE PollUevents(c)
    BY <2>2, TakenTyped, UnlockedTyped DEF PollUevents, HotStill, Between, Sane, Placed, Held
  <2>3. CASE PollLeaves(c)
    BY <2>3, UnlockedTyped DEF PollLeaves, Leave, HotStill, Between
  <2>4. CASE OpOpenNoDevice(c)
    <3>1. handle[c] \in Devs
      BY <2>4, HandleTyped DEF OpOpenNoDevice, At, Holding
    <3> QED
      BY <2>4, <3>1, DisconnectTyped, UnlockedTyped
      DEF OpOpenNoDevice, HotStill, Between, Sane, Placed, Held
  <2> QED
    BY <2>1, <2>2, <2>3, <2>4
    DEF InitContext, InitBackendFails, InitBackend, InitIo, GetDevice2Fails,
        ExitDefault, ExitActive, OpExit, MonitorJoined
<1> QED
  BY <1>1, <1>2, <1>3 DEF Quiet, devices

---------------------------------------------------------------------------
(* Steps that take or drop references.                                     *)

LEMMA KeptNat ==
    ASSUME Sane, NEW d \in Devs
    PROVE  Kept(dev, d) \in Nat /\ Kids(dev, d) \in Nat /\ dev[d].refcnt = Kept(dev, d) + Kids(dev, d)
<1>1. d \in 1 .. allocated \/ d > allocated
  BY AllocatedAre, DevsFinite DEF Sane
<1>2. CASE d \in 1 .. allocated
  <2>1. Born(d) \in Nat /\ Uses(d) \in Nat
    BY <1>2, Terms
  <2> QED
    BY <1>2, <2>1, Terms
<1> QED
  BY <1>1, <1>2, Unborn

LEMMA DropKept ==
    ASSUME Sane, NEW S, S \subseteq 1 .. allocated, \A d \in S : Kept(dev, d) >= 1,
           dev' = UnrefAll(dev, S), allocated' = allocated
    PROVE  Kin /\ \A d \in Devs : Kept(dev', d) = Kept(dev, d) - One(d \in S)
<1>1. S \in SUBSET Devs /\ dev \in [Devs -> Device]
  BY AllocatedAre DEF Sane, Types, DeviceTypes
<1>2. \A d \in Devs : dev[d].refcnt >= Kids(dev, d) + One(d \in S)
  <2> TAKE d \in Devs
  <2>1. d \in S => Kept(dev, d) >= 1
    OBVIOUS
  <2> QED
    BY <2>1, KeptNat DEF One
<1>3. \A d \in Devs : Kept(dev', d) = Kept(dev, d) - One(d \in S)
  BY <1>1, <1>2, TreeSound, DropAll
<1>4. Kin
  BY <1>1, DropTyped DEF Kin, Same
<1> QED
  BY <1>3, <1>4

LEMMA RaiseKept ==
    ASSUME Sane, NEW S, S \subseteq 1 .. allocated, \A d \in S : Kept(dev, d) >= 1,
           dev' = RefAll(dev, S), allocated' = allocated
    PROVE  Kin /\ \A d \in Devs : Kept(dev', d) = Kept(dev, d) + One(d \in S)
<1>1. S \in SUBSET Devs /\ dev \in [Devs -> Device]
  BY AllocatedAre DEF Sane, Types, DeviceTypes
<1>2. \A d \in S : dev[d].refcnt > 0
  BY <1>1, KeptNat
<1> QED
  BY <1>1, <1>2, RaiseAll DEF Kin, Same

(* The reference of the list, of the lock's holder, of a message.          *)
LEMMA ListedBorn ==
    ASSUME Sane, NEW c \in Contexts, NEW d \in ToSet(usb_devs[c])
    PROVE  d \in 1 .. allocated /\ dev[d].ctx = c /\ InList(d) = 1 /\ Born(d) = 1 /\ d \in Devs
<1>1. d \in Of(c)
  BY DEF Sane, Owned, Owns
<1>2. d \in 1 .. allocated /\ dev[d].ctx = c
  BY <1>1 DEF Of
<1>3. InList(d) = 1
  BY <1>2 DEF InList, One
<1> QED
  BY <1>2, <1>3, Terms DEF Born

LEMMA StaysBorn ==
    ASSUME Sane, NEW x \in Contexts, NEW d \in Of(x), NEW i, Leaves(d, i)
    PROVE  d \in 1 .. allocated /\ Born(d) = 1
<1>1. d \in 1 .. allocated /\ dev[d].ctx = x
  BY DEF Of
<1>2. CASE d \in ToSet(usb_devs[x])
  BY <1>2, ListedBorn
<1>3. CASE hot.pc = "tell" /\ hot.dev = d
  <2>1. InTelling(d) = 1
    BY <1>3 DEF InTelling, One
  <2> QED
    BY <1>1, <2>1, Terms DEF Born
<1>4. CASE \E j \in DOMAIN msgs[x] : msgs[x][j] = Message("LEFT", d)
  <2>1. Message("LEFT", d) \in ToSet(msgs[x])
    BY <1>4 DEF ToSet
  <2>2. InMessages(d) > 0
    BY <1>1, <2>1, Terms
  <2> QED
    BY <1>1, <2>2, Terms DEF Born
<1> QED
  BY <1>1, <1>2, <1>3, <1>4 DEF Leaves

(* A step of whoever holds linux_hotplug_lock.                             *)
LEMMA FindRemovedData ==
    ASSUME Sane, Types', NEW c \in Contexts, FindRemoved(c)
    PROVE  Data'
<1> DEFINE h == ByDevice(c, hot.session)
<1>1. CASE InSession(c, hot.session) = {}
  BY <1>1, QuietHolder, QuietStep DEF FindRemoved, devices
<1>2. CASE InSession(c, hot.session) # {}
  <2>1. h \in ToSet(usb_devs[c])
    BY <1>2, ByDeviceFound DEF Sane
  <2>2. dev' = Ref(dev, h) /\ hot' = [hot EXCEPT !.dev = h, !.pc = "detach"]
    BY <1>2 DEF FindRemoved
  <2> HIDE DEF h
  <2>3. /\ UNCHANGED <<app, event, handle, usb_devs, msgs, list, allocated, unsaid>>
        /\ hot.pc = "next" /\ c \in hot.todo
    BY DEF FindRemoved, context, Hot
  <2>4. hot \in Holder /\ dev \in [Devs -> Device]
    BY DEF Sane, Types, HotTypes, DeviceTypes
  <2>5. hot'.dev = h /\ hot'.pc = "detach" /\ hot'.todo = hot.todo /\ hot'.adding = hot.adding
    BY <2>2, <2>4 DEF Holder
  <2>6. hot.dev = 0 /\ hot.adding = <<>>
    BY <2>3 DEF Sane, Placed, Held, Between
  <2>7. h \in 1 .. allocated /\ dev[h].ctx = c /\ Born(h) = 1 /\ h \in Devs
    BY <2>1, ListedBorn
  <2>8. Kin /\ \A d \in Devs : Kept(dev', d) = Kept(dev, d) + One(d \in {h})
    <3>1. dev' = RefAll(dev, {h})
      BY <2>2, <2>4, RaiseOne
    <3>2. \A d \in {h} : Kept(dev, d) >= 1
      BY <2>7, Terms
    <3> QED
      BY <2>3, <2>7, <3>1, <3>2, RaiseKept
  <2>9. ASSUME NEW d \in 1 .. allocated
        PROVE  Born(d)' = Born(d) /\ Uses(d)' = Uses(d) + One(d \in {h}) /\ Uses(d) \in Nat
    <3>1. dev'[d].ctx = dev[d].ctx /\ d \in Devs /\ d # 0
      BY <2>8, Terms, DevsFinite DEF Kin
    <3>2. /\ InList(d)' = InList(d) /\ InMessages(d)' = InMessages(d) /\ InNone(d)' = InNone(d)
          /\ InEvent(d)' = InEvent(d) /\ InHandle(d)' = InHandle(d) /\ InArray(d)' = InArray(d)
      BY <2>3, <3>1, TermsKept
    <3>3. InAdding(d)' = InAdding(d)
      BY <2>3, <2>5, <3>1, TermsKept
    <3>4. InTelling(d)' = InTelling(d)
      BY <2>3, <2>5 DEF InTelling, One
    <3>5. InHand(d)' = InHand(d) + One(d \in {h})
      BY <2>5, <2>6, <3>1 DEF InHand, One
    <3>6. InHand(d) \in Nat /\ InHandle(d) \in Nat /\ InArray(d) \in Nat /\ One(d \in {h}) \in Nat
      BY Terms, OneIs
    <3> QED
      BY <3>2, <3>3, <3>4, <3>5, <3>6 DEF Born, Uses
  <2>10. ASSUME NEW d \in 1 .. allocated
         PROVE  /\ Born(d)' \in 0 .. 1 /\ Uses(d)' \in Nat
                /\ Kept(dev', d) = Born(d)' + Uses(d)'
    <3>1. Kept(dev', d) = Kept(dev, d) + One(d \in {h})
      BY <2>8, Terms
    <3> QED
      BY <2>9, <3>1, Terms, OneIs DEF One
  <2>11. \A d \in Devs : d > allocated => Kept(dev', d) = 0
    BY <2>7, <2>8, Unborn, DevsFinite, AllocatedAre DEF One, Sane
  <2>12. Good(c)'
    <3>1. Grown
      BY <2>8, KinGrown DEF Sane
    <3>2. Owns(c)'
      BY <2>3, <3>1, OwnsKept
    <3>3. app'[c] # "gone" => Lasts(c)'
      <4>1. \A d \in Of(c) :
               /\ d \in ToSet(usb_devs[c]) => d \in ToSet(usb_devs'[c])
                                              \/ (hot'.pc = "tell" /\ hot'.dev = d)
               /\ hot.pc = "tell" /\ hot.dev = d => hot'.pc = "tell" /\ hot'.dev = d
        BY <2>3
      <4> QED
        BY <2>3, <3>1, <4>1, LastsKept
    <3>4. HotOwns'
      BY <2>1, <2>3, <2>5, <2>6, <2>7, <2>8 DEF HotOwns, Kin, Adding, Removing
    <3>5. Orphans'
      BY <2>5, <2>6, EmptyElements DEF Orphans
    <3> QED
      BY <2>3, <2>5, <3>2, <3>3, <3>4, <3>5 DEF Good, Sane, BornOnce, Owned
  <2> QED
    BY <2>3, <2>8, <2>10, <2>11, <2>12, KinData DEF Others, StillTelling
<1> QED
  BY <1>1, <1>2

LEMMA RemovedTyped ==
    ASSUME Sane, hot.pc \in Removing
    PROVE  /\ hot.dev \in 1 .. allocated /\ hot.dev \in Devs /\ hot.dev # 0
           /\ dev[hot.dev].ctx \in hot.todo /\ dev[hot.dev].ctx \in Contexts
           /\ hot.todo \subseteq active /\ hot.adding = <<>>
<1>1. hot.dev \in 1 .. allocated /\ dev[hot.dev].ctx \in hot.todo /\ hot.adding = <<>>
  BY DEF Sane, Owned, HotOwns
<1> QED
  BY <1>1, Terms DEF Sane, Placed, Held

LEMMA DetachData ==
    ASSUME Sane, Types', Detach, NEW c, c = dev[hot.dev].ctx
    PROVE  Data'
<1> DEFINE h == hot.dev
<1>1. hot.pc = "detach" /\ hot.pc \in Removing
  BY DEF Detach, Hot, Removing
<1>2. h \in 1 .. allocated /\ h \in Devs /\ c \in hot.todo /\ c \in Contexts /\ hot.adding = <<>>
  BY <1>1, RemovedTyped
<1>3. h \in ToSet(usb_devs[c])
  BY <1>1 DEF Sane, Owned, HotOwns
<1>4. dev' = [dev EXCEPT ![h].attached = FALSE] /\ hot' = [hot EXCEPT !.pc = "unlist"]
      /\ UNCHANGED <<app, event, handle, usb_devs, msgs, list, allocated, unsaid>>
  BY DEF Detach, context
<1>5. hot \in Holder /\ dev \in [Devs -> Device]
  BY DEF Sane, Types, HotTypes, DeviceTypes
<1>6. hot'.dev = h /\ hot'.pc = "unlist" /\ hot'.todo = hot.todo /\ hot'.adding = hot.adding
  BY <1>4, <1>5 DEF Holder
<1> HIDE DEF h
<1>7. Kin /\ \A d \in Devs : Kept(dev', d) = Kept(dev, d)
  <2>1. \A d \in Devs :
           /\ dev'[d].ctx = dev[d].ctx /\ dev'[d].session = dev[d].session
           /\ dev'[d].enumerated = dev[d].enumerated
           /\ dev'[d].parent = dev[d].parent /\ Kept(dev', d) = Kept(dev, d)
    <3>1. Marked(dev, dev', h, FALSE)
      BY <1>4 DEF Marked
    <3>2. dev \in [Devs -> Device]
      BY <1>5
    <3> QED
      BY <3>1, <3>2, Mark
  <2> QED
    BY <1>4, <2>1 DEF Kin
<1>8. ASSUME NEW d \in 1 .. allocated PROVE Born(d)' = Born(d) /\ Uses(d)' = Uses(d)
  <2>1. dev'[d].ctx = dev[d].ctx
    BY <1>7, Terms DEF Kin
  <2>2. /\ InList(d)' = InList(d) /\ InMessages(d)' = InMessages(d) /\ InNone(d)' = InNone(d)
        /\ InEvent(d)' = InEvent(d) /\ InHandle(d)' = InHandle(d) /\ InArray(d)' = InArray(d)
    BY <1>4, <2>1, TermsKept
  <2>3. InAdding(d)' = InAdding(d) /\ InTelling(d)' = InTelling(d) /\ InHand(d)' = InHand(d)
    BY <1>1, <1>6, <2>1, TermsKept DEF h
  <2> QED
    BY <2>2, <2>3 DEF Born, Uses
<1>9. ASSUME NEW d \in 1 .. allocated
      PROVE  /\ Born(d)' \in 0 .. 1 /\ Uses(d)' \in Nat
             /\ Kept(dev', d) = Born(d)' + Uses(d)'
  BY <1>7, <1>8, Terms
<1>10. \A d \in Devs : d > allocated => Kept(dev', d) = 0
  BY <1>7, Unborn
<1>11. Good(c)'
  <2>1. Grown
    BY <1>7, KinGrown DEF Sane
  <2>2. Owns(c)'
    BY <1>2, <1>4, <2>1, OwnsKept
  <2>3. app'[c] # "gone" => Lasts(c)'
    <3>1. \A d \in Of(c) :
             /\ d \in ToSet(usb_devs[c]) => d \in ToSet(usb_devs'[c])
                                            \/ (hot'.pc = "tell" /\ hot'.dev = d)
             /\ hot.pc = "tell" /\ hot.dev = d => hot'.pc = "tell" /\ hot'.dev = d
      BY <1>1, <1>4
    <3> QED
      BY <1>2, <1>4, <2>1, <3>1, LastsKept
  <2>4. HotOwns'
    BY <1>2, <1>3, <1>4, <1>6, <1>7 DEF HotOwns, Kin, Adding, Removing
  <2>5. Orphans'
    BY <1>2, <1>6, EmptyElements DEF Orphans
  <2> QED
    BY <1>2, <1>4, <1>6, <2>2, <2>3, <2>4, <2>5 DEF Good, Sane, BornOnce, Owned
<1> QED
  BY <1>1, <1>2, <1>4, <1>7, <1>9, <1>10, <1>11, KinData DEF Others, StillTelling

LEMMA UnlistData ==
    ASSUME Sane, Types', NEW c \in Contexts, Unlist(c)
    PROVE  Data'
<1> DEFINE h == hot.dev
           s == usb_devs[c]
           k == CHOOSE i \in DOMAIN s : s[i] = h
<1>1. hot.pc = "unlist" /\ hot.pc \in Removing /\ c = dev[h].ctx
  BY DEF Unlist, Hot, Here, Removing
<1>2. h \in 1 .. allocated /\ h \in Devs /\ c \in hot.todo /\ c \in Contexts /\ hot.adding = <<>>
  BY <1>1, RemovedTyped
<1>3. h \in ToSet(s)
  BY <1>1 DEF Sane, Owned, HotOwns
<1>4. /\ usb_devs' = [usb_devs EXCEPT ![c] = RemoveAt(s, k)]
      /\ hot' = [hot EXCEPT !.pc = "tell"]
      /\ UNCHANGED <<app, event, handle, msgs, list, dev, allocated, unsaid>>
  BY DEF Unlist, context
<1>5. hot \in Holder /\ dev \in [Devs -> Device] /\ usb_devs \in [Contexts -> Seq(Devs)]
  BY DEF Sane, Types, HotTypes, DeviceTypes
<1>6. hot'.dev = h /\ hot'.pc = "tell" /\ hot'.todo = hot.todo /\ hot'.adding = hot.adding
  BY <1>4, <1>5 DEF Holder
<1>7. Kin /\ \A d \in Devs : Kept(dev', d) = Kept(dev, d)
  BY <1>4 DEF Kin
<1>8. ToSet(usb_devs'[c]) = ToSet(usb_devs[c]) \ {h} /\ Distinct(usb_devs'[c])
      /\ \A x \in Contexts \ {c} : usb_devs'[x] = usb_devs[x]
  <2>1. s \in Seq(Devs) /\ Distinct(s)
    BY <1>5 DEF Sane, BornOnce
  <2>2. k \in 1 .. Len(s) /\ s[k] = h
    BY <1>3, <2>1, ElementsOf DEF ToSet
  <2> HIDE DEF s, k
  <2>3. ToSet(RemoveAt(s, k)) = ToSet(s) \ {s[k]} /\ Distinct(RemoveAt(s, k))
    BY <2>1, <2>2, RemovePlace
  <2>4. usb_devs'[c] = RemoveAt(s, k) /\ \A x \in Contexts \ {c} : usb_devs'[x] = usb_devs[x]
    BY <1>4, <1>5
  <2> QED
    BY <2>2, <2>3, <2>4 DEF s
<1> HIDE DEF s, k
<1>9. ASSUME NEW d \in 1 .. allocated PROVE Born(d)' = Born(d) /\ Uses(d)' = Uses(d)
  <2>1. dev'[d].ctx = dev[d].ctx /\ dev[d].ctx \in Contexts
    BY <1>7, Terms DEF Kin
  <2>2. /\ InMessages(d)' = InMessages(d) /\ InNone(d)' = InNone(d)
        /\ InEvent(d)' = InEvent(d) /\ InHandle(d)' = InHandle(d) /\ InArray(d)' = InArray(d)
    BY <1>4, <2>1, TermsKept
  <2>3. InAdding(d)' = InAdding(d) /\ InHand(d)' = InHand(d)
    BY <1>1, <1>6, <2>1, TermsKept
  <2>4. InList(d)' + InTelling(d)' = InList(d) + InTelling(d)
    <3>1. CASE d = h
      BY <1>1, <1>3, <1>4, <1>6, <1>8, <3>1 DEF InList, InTelling, One, s
    <3>2. CASE d # h
      BY <1>1, <1>4, <1>6, <1>8, <2>1, <3>2 DEF InList, InTelling, One
    <3> QED
      BY <3>1, <3>2
  <2>5. InList(d)' \in Nat /\ InTelling(d)' \in Nat
    BY OneIs DEF InList, InTelling, One
  <2> QED
    BY <2>2, <2>3, <2>4, <2>5, Terms DEF Born, Uses
<1>10. ASSUME NEW d \in 1 .. allocated
       PROVE  /\ Born(d)' \in 0 .. 1 /\ Uses(d)' \in Nat
              /\ Kept(dev', d) = Born(d)' + Uses(d)'
  BY <1>7, <1>9, Terms
<1>11. \A d \in Devs : d > allocated => Kept(dev', d) = 0
  BY <1>7, Unborn
<1>12. Good(c)'
  <2>1. Grown
    BY <1>7, KinGrown DEF Sane
  <2>2. Owns(c)'
    BY <1>4, <1>8, <2>1, OwnsKept
  <2>3. app'[c] # "gone" => Lasts(c)'
    <3>1. \A d \in Of(c) :
             /\ d \in ToSet(usb_devs[c]) => d \in ToSet(usb_devs'[c])
                                            \/ (hot'.pc = "tell" /\ hot'.dev = d)
             /\ hot.pc = "tell" /\ hot.dev = d => hot'.pc = "tell" /\ hot'.dev = d
      BY <1>1, <1>6, <1>8
    <3> QED
      BY <1>4, <2>1, <3>1, LastsKept
  <2>4. HotOwns'
    BY <1>1, <1>2, <1>4, <1>6 DEF HotOwns, Adding, Removing
  <2>5. Orphans'
    BY <1>2, <1>6, EmptyElements DEF Orphans
  <2> QED
    BY <1>2, <1>4, <1>6, <1>8, <2>2, <2>3, <2>4, <2>5 DEF Good, Sane, BornOnce, Owned
<1>13. Others(c) /\ StillTelling(c)
  BY <1>1, <1>4, <1>8 DEF Others, StillTelling
<1> QED
  BY <1>7, <1>10, <1>11, <1>12, <1>13, KinData

LEMMA TellLeftData ==
    ASSUME Sane, Types', NEW c \in Contexts, TellLeft(c)
    PROVE  Data'
<1> DEFINE h == hot.dev
           m == Message("LEFT", h)
<1>1. hot.pc = "tell" /\ hot.pc \in Removing /\ c = dev[h].ctx
  BY DEF TellLeft, Hot, Here, Removing
<1>2. h \in 1 .. allocated /\ h \in Devs /\ c \in hot.todo /\ c \in Contexts /\ hot.adding = <<>>
  BY <1>1, RemovedTyped
<1>3. /\ \/ /\ c \in ready /\ msgs' = [msgs EXCEPT ![c] = Append(@, m)]
            /\ unsaid' = unsaid
         \/ c \notin ready /\ unsaid' = unsaid \cup {h} /\ msgs' = msgs
      /\ hot' = [hot EXCEPT !.pc = "unref"]
      /\ UNCHANGED <<app, event, handle, usb_devs, list, dev, allocated>>
  BY DEF TellLeft, context, usbi_hotplug_notification
<1>4. hot \in Holder /\ msgs \in [Contexts -> Seq(Messages)]
  BY DEF Sane, Types, HotTypes, DeviceTypes
<1>5. hot'.dev = h /\ hot'.pc = "unref" /\ hot'.todo = hot.todo /\ hot'.adding = hot.adding
  BY <1>3, <1>4 DEF Holder
<1>6. Kin /\ Grown /\ \A d \in Devs : Kept(dev', d) = Kept(dev, d)
  BY <1>3, KinGrown DEF Kin, Sane
<1>7. m \in Messages /\ m.event = "LEFT" /\ m.dev = h /\ \A d : m = Message("LEFT", d) <=> h = d
  BY <1>2, DevsAre DEF Message, Messages
<1> HIDE DEF m
<1>8. \A x \in Contexts \ {c} : msgs'[x] = msgs[x]
  BY <1>3, <1>4
<1>9. Born(h) = 1 /\ InTelling(h) = 1 /\ InMessages(h) = 0 /\ InNone(h) = 0
  <2>1. InTelling(h) = 1
    BY <1>1 DEF InTelling, One
  <2> QED
    BY <1>2, <2>1, Terms DEF Born
<1>10. ASSUME NEW d \in 1 .. allocated
       PROVE  /\ InMessages(d)' + InNone(d)' = InMessages(d) + InNone(d) + One(d = h)
              /\ InMessages(d)' \in Nat /\ InNone(d)' \in Nat
  <2>1. dev'[d].ctx = dev[d].ctx /\ dev[d].ctx \in Contexts
    BY <1>6, Terms DEF Kin
  <2>2. CASE c \in ready /\ msgs' = [msgs EXCEPT ![c] = Append(@, m)] /\ unsaid' = unsaid
    <3>1. InNone(d)' = InNone(d)
      BY <2>1, <2>2, TermsKept
    <3>2. CASE dev[d].ctx = c
      <4>1. msgs'[c] = Append(msgs[c], m)
        BY <1>4, <2>2
      <4>2. InMessages(d)' = InMessages(d) + One(m = Message("LEFT", d))
        BY <1>4, <1>7, <2>1, <3>2, <4>1, PlacesAppend DEF InMessages
      <4>3. One(m = Message("LEFT", d)) = One(d = h)
        BY <1>7 DEF One
      <4> QED
        BY <3>1, <4>2, <4>3, Terms, OneIs DEF One
    <3>3. CASE dev[d].ctx # c
      <4>1. InMessages(d)' = InMessages(d)
        BY <1>8, <2>1, <3>3, TermsKept
      <4> QED
        BY <1>1, <3>1, <3>3, <4>1, Terms DEF One
    <3> QED
      BY <3>2, <3>3
  <2>3. CASE c \notin ready /\ unsaid' = unsaid \cup {h} /\ msgs' = msgs
    <3>1. InMessages(d)' = InMessages(d)
      BY <2>1, <2>3, TermsKept
    <3>2. InNone(d)' = InNone(d) + One(d = h)
      BY <1>9, <2>3 DEF InNone, One
    <3> QED
      BY <3>1, <3>2, Terms, OneIs DEF One
  <2> QED
    BY <1>3, <2>2, <2>3
<1>11. ASSUME NEW d \in 1 .. allocated PROVE Born(d)' = Born(d) /\ Uses(d)' = Uses(d)
  <2>1. dev'[d].ctx = dev[d].ctx
    BY <1>6, Terms DEF Kin
  <2>2. /\ InList(d)' = InList(d) /\ InEvent(d)' = InEvent(d)
        /\ InHandle(d)' = InHandle(d) /\ InArray(d)' = InArray(d)
    BY <1>3, <2>1, TermsKept
  <2>3. InAdding(d)' = InAdding(d) /\ InHand(d)' = InHand(d)
    BY <1>1, <1>5, <2>1, TermsKept
  <2>4. InTelling(d) = One(d = h) /\ InTelling(d)' = 0
    BY <1>1, <1>5 DEF InTelling, One
  <2>5. InMessages(d)' + InNone(d)' = InMessages(d) + InNone(d) + One(d = h)
        /\ InMessages(d)' \in Nat /\ InNone(d)' \in Nat /\ One(d = h) \in Nat
    BY <1>10, OneIs
  <2> QED
    BY <2>2, <2>3, <2>4, <2>5, Terms DEF Born, Uses
<1>12. ASSUME NEW d \in 1 .. allocated
       PROVE  /\ Born(d)' \in 0 .. 1 /\ Uses(d)' \in Nat
              /\ Kept(dev', d) = Born(d)' + Uses(d)'
  BY <1>6, <1>11, Terms
<1>13. \A d \in Devs : d > allocated => Kept(dev', d) = 0
  BY <1>6, Unborn
<1>14. Owns(c)'
  <2>1. Owns(c) /\ \A x : Of(x)' = Of(x)
    BY <1>3 DEF Sane, Owned, Of
  <2>2. \A n \in ToSet(msgs'[c]) : n \in ToSet(msgs[c]) \/ n = m
    <3>1. CASE c \in ready /\ msgs' = [msgs EXCEPT ![c] = Append(@, m)]
      <4>1. msgs'[c] = Append(msgs[c], m) /\ msgs[c] \in Seq(Messages)
        BY <1>4, <3>1
      <4>2. Cardinality(Places(Append(msgs[c], m), m)) = Cardinality(Places(msgs[c], m)) + One(m = m)
            /\ ToSet(Append(msgs[c], m)) = ToSet(msgs[c]) \cup {m}
        BY <1>7, <4>1, PlacesAppend
      <4> QED
        BY <4>1, <4>2
    <3> QED
      BY <1>3, <3>1
  <2>3. h \in Of(c)
    BY <1>1, <1>2 DEF Of
  <2> QED
    BY <1>3, <1>7, <2>1, <2>2, <2>3 DEF Owns
<1>15. ASSUME app'[c] # "gone" PROVE Lasts(c)'
  <2>1. Lasts(c)
    BY <1>3, <1>15 DEF Sane, Lasting
  <2>2. CASE c \notin ready /\ msgs' = msgs
    <3>1. app[c] \in Unready /\ msgs[c] = <<>> /\ event[c] = Idle
      BY <2>2 DEF Sane, Placed, Settled, Unready
    <3> QED
      BY <1>3, <2>2, <3>1 DEF Lasts, Unready, Idle, Message
  <2>3. CASE msgs' = [msgs EXCEPT ![c] = Append(@, m)]
    <3>1. /\ DOMAIN msgs[c] = 1 .. Len(msgs[c]) /\ DOMAIN msgs'[c] = 1 .. Len(msgs[c]) + 1
          /\ Len(msgs[c]) \in Nat
          /\ \A i \in 1 .. Len(msgs[c]) : msgs'[c][i] = msgs[c][i]
          /\ msgs'[c][Len(msgs[c]) + 1] = m
      <4>1. msgs'[c] = Append(msgs[c], m) /\ msgs[c] \in Seq(Messages)
        BY <1>4, <2>3
      <4> QED
        BY <1>7, <4>1, AppendProperties, LenProperties
    <3>2. ASSUME NEW d \in Of(c), NEW i, i \in 0 .. Len(msgs[c]), Leaves(d, i)
          PROVE  Leaves(d, i)'
      <4>1. dev[d].ctx = c /\ dev'[d].ctx = c
        BY <1>3 DEF Of
      <4>2. CASE d \in ToSet(usb_devs[c])
        BY <1>3, <4>1, <4>2 DEF Leaves
      <4>3. CASE hot.pc = "tell" /\ hot.dev = d
        <5>1. Len(msgs[c]) + 1 > i /\ msgs'[c][Len(msgs[c]) + 1] = Message("LEFT", d)
          BY <1>7, <3>1, <3>2, <4>3
        <5> QED
          BY <3>1, <4>1, <5>1 DEF Leaves
      <4>4. CASE \E j \in DOMAIN msgs[c] : j > i /\ msgs[c][j] = Message("LEFT", d)
        BY <3>1, <4>1, <4>4 DEF Leaves
      <4> QED
        BY <3>2, <4>1, <4>2, <4>3, <4>4 DEF Leaves
    <3>3. \A i \in DOMAIN msgs[c] : msgs[c][i].dev \in Of(c)
      BY DEF ToSet, Sane, Owned, Owns
    <3>4. event[c].event = "ARRIVED" => event[c].dev \in Of(c)
      BY DEF Idle, Message, Sane, Owned, Owns
    <3>5. app[c] \in {"arrived", "open2"} => handle[c] \in Of(c)
      BY DEF Sane, Owned, Owns, Placed, Settled, Holding
    <3>6. ASSUME NEW i \in DOMAIN msgs'[c], NEW d, d = msgs'[c][i].dev,
                 msgs'[c][i].event = "ARRIVED", dev'[d].enumerated
          PROVE  Leaves(d, i)'
      <4>1. i \in 1 .. Len(msgs[c]) /\ msgs'[c][i] = msgs[c][i]
        BY <1>7, <3>1, <3>6
      <4>2. Leaves(d, i)
        BY <1>3, <2>1, <3>1, <3>6, <4>1 DEF Lasts
      <4>3. d \in Of(c)
        BY <3>1, <3>3, <3>6, <4>1
      <4> QED
        BY <3>1, <3>2, <4>1, <4>2, <4>3
    <3> QED
      BY <1>3, <2>1, <3>1, <3>2, <3>4, <3>5, <3>6 DEF Lasts
  <2> QED
    BY <1>3, <2>2, <2>3
<1>16. Good(c)'
  <2>1. HotOwns'
    BY <1>1, <1>2, <1>3, <1>5 DEF HotOwns, Adding, Removing
  <2>2. Orphans'
    BY <1>2, <1>5, EmptyElements DEF Orphans
  <2> QED
    BY <1>2, <1>3, <1>5, <1>14, <1>15, <2>1, <2>2 DEF Good, Sane, BornOnce, Owned
<1>17. Others(c) /\ StillTelling(c)
  BY <1>1, <1>3, <1>8 DEF Others, StillTelling
<1> QED
  BY <1>6, <1>12, <1>13, <1>16, <1>17, KinData

LEMMA DropFoundData ==
    ASSUME Sane, Types', NEW c \in Contexts, DropFound(c)
    PROVE  Data'
<1> DEFINE h == hot.dev
<1>1. hot.pc = "unref" /\ hot.pc \in Removing /\ c = dev[h].ctx
  BY DEF DropFound, Hot, Here, Removing
<1>2. h \in 1 .. allocated /\ h \in Devs /\ c \in hot.todo /\ c \in Contexts /\ hot.adding = <<>>
      /\ h # 0
  BY <1>1, RemovedTyped
<1>3. dev' = Unref(dev, h) /\ NextContext(c)
      /\ UNCHANGED <<app, event, handle, usb_devs, msgs, list, allocated, unsaid>>
  BY DEF DropFound, context
<1>4. hot'.dev = 0 /\ hot'.pc = "next" /\ hot'.adding = <<>>
  BY <1>3, NextContextTyped DEF Sane
<1> HIDE DEF h
<1>5. Kin /\ Grown /\ \A d \in Devs : Kept(dev', d) = Kept(dev, d) - One(d \in {h})
  <2>1. InHand(h) = 1
    BY DEF InHand, One, h
  <2>2. Kept(dev, h) >= 1 /\ dev[h].refcnt >= 1
    BY <1>2, <2>1, Terms DEF Uses
  <2>3. dev' = UnrefAll(dev, {h})
    BY <1>3 DEF Unref
  <2> QED
    <3>1. {h} \subseteq 1 .. allocated /\ \A d \in {h} : Kept(dev, d) >= 1
      BY <1>2, <2>2
    <3> QED
      BY <1>3, <2>3, <3>1, DropKept, KinGrown DEF Sane
<1>6. ASSUME NEW d \in 1 .. allocated
      PROVE  Born(d)' = Born(d) /\ Uses(d)' = Uses(d) - One(d \in {h}) /\ Uses(d)' \in Nat
  <2>1. dev'[d].ctx = dev[d].ctx /\ d # 0
    BY <1>5, Terms, DevsFinite DEF Kin
  <2>2. /\ InList(d)' = InList(d) /\ InMessages(d)' = InMessages(d) /\ InNone(d)' = InNone(d)
        /\ InEvent(d)' = InEvent(d) /\ InHandle(d)' = InHandle(d) /\ InArray(d)' = InArray(d)
    BY <1>3, <2>1, TermsKept
  <2>3. InAdding(d)' = InAdding(d)
    BY <1>1, <1>2, <1>4, <2>1, TermsKept
  <2>4. InTelling(d)' = InTelling(d)
    BY <1>1, <1>4 DEF InTelling, One
  <2>5. InHand(d)' = 0 /\ InHand(d) = One(d \in {h})
    BY <1>4, <2>1 DEF InHand, One, h
  <2> QED
    BY <2>2, <2>3, <2>4, <2>5, Terms DEF Born, Uses
<1>7. ASSUME NEW d \in 1 .. allocated
      PROVE  /\ Born(d)' \in 0 .. 1 /\ Uses(d)' \in Nat
             /\ Kept(dev', d) = Born(d)' + Uses(d)'
  <2>1. Kept(dev', d) = Kept(dev, d) - One(d \in {h})
    BY <1>5, Terms
  <2> QED
    BY <1>6, <2>1, Terms DEF One
<1>8. \A d \in Devs : d > allocated => Kept(dev', d) = 0
  BY <1>2, <1>5, Unborn, DevsFinite, AllocatedAre DEF One, Sane
<1>9. Good(c)'
  <2>1. Owns(c)'
    BY <1>3, <1>5, OwnsKept
  <2>2. app'[c] # "gone" => Lasts(c)'
    <3>1. \A d \in Of(c) :
             /\ d \in ToSet(usb_devs[c]) => d \in ToSet(usb_devs'[c])
                                            \/ (hot'.pc = "tell" /\ hot'.dev = d)
             /\ hot.pc = "tell" /\ hot.dev = d => hot'.pc = "tell" /\ hot'.dev = d
      BY <1>1, <1>3
    <3> QED
      BY <1>3, <1>5, <3>1, LastsKept
  <2>3. HotOwns' /\ Orphans' /\ Distinct(hot'.adding)
    BY <1>2, <1>4, EmptyElements DEF HotOwns, Orphans, Removing, Adding, Sane, BornOnce
  <2> QED
    BY <1>3, <2>1, <2>2, <2>3 DEF Good, Sane, BornOnce, Owned
<1>10. Others(c) /\ StillTelling(c)
  BY <1>1, <1>3 DEF Others, StillTelling
<1> QED
  BY <1>5, <1>7, <1>8, <1>9, <1>10, KinData

---------------------------------------------------------------------------
(* A new device.                                                           *)

LEMMA FreshData ==
    ASSUME Sane, Types', NEW c \in Contexts, NEW s \in Sessions, NEW x \in Device,
           allocated + 1 \in Devs, allocated' = allocated + 1,
           dev' = [dev EXCEPT ![allocated + 1] = x],
           x.ctx = c, x.session = s, x.refcnt = 1, x.parent = 0,
           Others(c), StillTelling(c), Good(c)',
           \A d \in Devs : d = allocated + 1 => Born(d)' = 1 /\ Uses(d)' = 0,
           \A d \in 1 .. allocated : Born(d)' = Born(d) /\ Uses(d)' = Uses(d)
    PROVE  Data'
<1> DEFINE n == allocated + 1
<1>1. dev \in [Devs -> Device] /\ allocated \in Nat /\ 1 .. allocated \subseteq Devs /\ n \in Devs
      /\ n > allocated /\ allocated' = n /\ 1 .. allocated' = 1 .. allocated \cup {n}
  BY AllocatedAre DEF Sane, Types, DeviceTypes
<1>2. dev'[n] = x /\ \A d \in Devs : d # n => dev'[d] = dev[d]
  BY <1>1
<1>3. dev[n].refcnt = 0 /\ \A d \in Devs : dev[d].parent # n
  BY <1>1, Unborn
<1>4. \A d \in Devs : Kept(dev', d) = IF d = n THEN 1 ELSE Kept(dev, d)
  <2>1. AllBut(dev, dev', n)
    BY <1>2 DEF AllBut
  <2>2. n \in Devs /\ dev[n].refcnt = 0 /\ (\A d \in Devs : dev[d].parent # n)
        /\ dev'[n].refcnt = 1 /\ dev'[n].parent = 0
    BY <1>1, <1>2, <1>3
  <2> HIDE DEF n
  <2> QED
    BY ONLY <2>1, <2>2, NewDevice
<1>5. \A d \in Devs : d = n => Born(d)' = 1 /\ Uses(d)' = 0
  OBVIOUS
<1>6. \A d \in Devs : n < d => d > allocated
  BY <1>1, DevsFinite
<1>7. \A d \in 1 .. allocated : d # n
  BY <1>1
<1> HIDE DEF n
<1>8. Grown
  BY <1>1, <1>2, <1>7 DEF Grown
<1>9. ASSUME NEW d \in Devs, dev'[d].parent # 0
      PROVE  /\ dev'[d].parent \in 1 .. allocated' /\ dev'[dev'[d].parent].ctx = dev'[d].ctx
             /\ dev'[dev'[d].parent].session = ParentOf[dev'[d].session]
  <2>1. d # n /\ dev'[d] = dev[d]
    BY <1>2, <1>9
  <2>2. dev[d].parent \in 1 .. allocated /\ dev[dev[d].parent].ctx = dev[d].ctx
        /\ dev[dev[d].parent].session = ParentOf[dev[d].session]
    BY <1>9, <2>1 DEF Sane, Tree, Parents, Of
  <2>3. dev'[dev[d].parent] = dev[dev[d].parent]
    BY <1>1, <1>2, <1>7, <2>2
  <2> QED
    BY <1>1, <2>1, <2>2, <2>3
<1>10. Tree'
  BY <1>9 DEF Tree, Parents, Of, Good
<1>11. \A d \in 1 .. allocated' : dev'[d].ctx \in Contexts /\ dev'[d].session \in Sessions
  BY <1>1, <1>2, <1>7 DEF Sane, Owned
<1>12. Spare'
  <2> SUFFICES ASSUME NEW d \in Devs, d > n PROVE dev'[d].refcnt = 0 /\ dev'[d].parent = 0
    BY <1>1 DEF Spare
  <2>1. d # n /\ d > allocated
    BY <1>1, <1>6, DevsFinite
  <2> QED
    BY <1>2, <2>1 DEF Sane, Owned, Spare
<1>13. \A y \in Contexts \ {c} : Owns(y)' /\ (app'[y] # "gone" => Lasts(y)')
  BY <1>8, OthersKept
<1>14. \A y \in Contexts \ {c} : Distinct(usb_devs'[y])
  BY DEF Others, Sane, BornOnce
<1>15. /\ Owns(c)' /\ (app'[c] # "gone" => Lasts(c)') /\ Distinct(usb_devs'[c])
       /\ HotOwns' /\ Distinct(hot'.adding) /\ unsaid' \subseteq 1 .. allocated'
  BY DEF Good
<1>16. \A y \in Contexts : Owns(y)' /\ (app'[y] # "gone" => Lasts(y)') /\ Distinct(usb_devs'[y])
  BY <1>13, <1>14, <1>15
<1>17. Owned' /\ Lasting'
  BY <1>11, <1>12, <1>15, <1>16 DEF Owned, Lasting
<1>18. ASSUME NEW d \in 1 .. allocated'
       PROVE  Born(d)' <= 1 /\ dev'[d].refcnt = Born(d)' + Uses(d)' + Kids(dev', d)
  <2>1. d \in Devs /\ Kids(dev', d) \in Nat
    BY <1>1, KidsCounted
  <2>2. CASE d = n
    <3>1. dev'[d].refcnt = 1 /\ Kept(dev', d) = 1
      BY <1>2, <1>4, <2>1, <2>2
    <3> QED
      BY <1>5, <2>1, <2>2, <3>1 DEF Kept
  <2>3. CASE d \in 1 .. allocated
    <3>1. dev'[d] = dev[d] /\ Kept(dev', d) = Kept(dev, d) /\ Born(d)' = Born(d)
          /\ Uses(d)' = Uses(d)
      BY <1>2, <1>4, <1>7, <2>1, <2>3
    <3>2. /\ Born(d) \in 0 .. 1 /\ Uses(d) \in 0 .. 3 /\ Kept(dev, d) = Born(d) + Uses(d)
          /\ dev[d].refcnt \in Nat
      BY <2>3, Terms
    <3> QED
      BY <2>1, <3>1, <3>2 DEF Kept
  <2> QED
    BY <1>1, <2>2, <2>3
<1>19. BornOnce' /\ Referred'
  BY <1>15, <1>16, <1>18 DEF BornOnce, Referred
<1>20. Counted'
  <2> SUFFICES ASSUME NEW d \in Devs PROVE dev'[d].refcnt \in Nat
    BY DEF Counted
  <2> QED
    BY <1>2 DEF Sane, Counted
<1> QED
  BY <1>10, <1>17, <1>19, <1>20 DEF Data

(* Nobody has ever referred to it.                                         *)
LEMMA Newborn ==
    ASSUME Sane, NEW c \in Contexts, NEW n \in Devs, n = allocated + 1, dev'[n].ctx = c,
           UNCHANGED <<msgs, event, unsaid, list>>, hot' = hot \/ hot'.dev = 0
    PROVE  /\ InMessages(n)' = 0 /\ InEvent(n)' = 0 /\ InNone(n)' = 0 /\ InArray(n)' = 0
           /\ InHand(n)' = 0 /\ n \notin Of(c) /\ n \notin 1 .. allocated /\ n # 0
<1>1. n \notin 1 .. allocated /\ n # 0
  BY AllocatedAre, DevsFinite DEF Sane
<1>2. n \notin Of(c)
  BY <1>1 DEF Of
<1>3. Owns(c) /\ unsaid \subseteq 1 .. allocated /\ msgs[c] \in Seq(Messages)
  BY DEF Sane, Owned, Types, DeviceTypes
<1>4. Message("LEFT", n).dev = n /\ Message("LEFT", n) # Idle
  BY DEF Message, Idle
<1>5. Message("LEFT", n) \notin ToSet(msgs[c]) /\ event[c] # Message("LEFT", n)
  BY <1>2, <1>3, <1>4 DEF Owns
<1>6. Cardinality(Places(msgs[c], Message("LEFT", n))) = 0
  <2> DEFINE k == Message("LEFT", n)
  <2>1. k \notin ToSet(msgs[c])
    BY <1>5
  <2> HIDE DEF k
  <2>2. Cardinality(Places(msgs[c], k)) = 0
    BY <1>3, <2>1, PlacesCounted
  <2> QED
    BY <2>2 DEF k
<1>7. InMessages(n)' = 0 /\ InEvent(n)' = 0
  BY <1>5, <1>6 DEF InMessages, InEvent, One
<1>8. InNone(n)' = 0 /\ InArray(n)' = 0
  BY <1>1, <1>2, <1>3 DEF InNone, InArray, One, Owns
<1>9. hot.dev # n
  <2>1. hot.pc \in Removing \cup Adding \cup Between
    BY DEF Sane, Types, HotTypes, Holder
  <2> QED
    BY <1>1, <2>1 DEF Sane, Owned, HotOwns, Placed, Held
<1>10. InHand(n)' = 0
  BY <1>1, <1>9 DEF InHand, One
<1> QED
  BY <1>1, <1>2, <1>7, <1>8, <1>10

(* linux_enumerate_device allocates a device or its parent.                *)
LEMMA AllocateData ==
    ASSUME Sane, Types', NEW c \in Contexts, NEW s \in Sessions, allocated # MaxDevices,
           Allocate(c, s), hot.pc \in {"next", "parent"}, c \in hot.todo,
           hot.pc = "parent" => dev[Added].ctx = c,
           UNCHANGED <<app, event, handle, usb_devs, msgs, list, unsaid>>
    PROVE  Data'
<1> DEFINE n == allocated + 1
           x == [NoDevice EXCEPT !.ctx = c, !.session = s, !.refcnt = 1, !.enumerated = TRUE]
<1>1. usbi_alloc_device(c, s, TRUE)
  BY DEF Allocate
<1>2. /\ n \in Devs /\ allocated' = n /\ dev' = [dev EXCEPT ![n] = x]
      /\ x \in Device /\ dev'[n] = x
      /\ x.ctx = c /\ x.session = s /\ x.enumerated = TRUE /\ x.refcnt = 1 /\ x.parent = 0
      /\ \A d \in Devs : d # n => dev'[d] = dev[d]
  <2>1. x \in Device
    BY NewTyped
  <2>2. dev' = [dev EXCEPT ![n] = x] /\ dev \in [Devs -> Device]
    BY <1>1 DEF usbi_alloc_device, Sane, Types, DeviceTypes
  <2>3. /\ n \in Devs /\ allocated' = n
        /\ dev'[n].ctx = c /\ dev'[n].session = s
        /\ dev'[n].enumerated = TRUE
        /\ dev'[n].refcnt = 1 /\ dev'[n].parent = 0
        /\ \A d \in Devs : d # n => dev'[d] = dev[d]
    BY <1>1, AllocateTyped DEF Sane
  <2> HIDE DEF x
  <2>4. dev'[n] = x
    BY <2>2, <2>3
  <2> QED
    BY <2>1, <2>2, <2>3, <2>4
<1> HIDE DEF x
<1>3. /\ hot'.pc = "initialize" /\ hot'.todo = hot.todo /\ hot'.dev = hot.dev
      /\ hot'.adding = <<n>> \o hot.adding
  BY <1>2, PushTyped DEF Sane
<1>4. hot.dev = 0 /\ hot.adding \in Seq(Devs)
  BY DEF Sane, Types, HotTypes, Holder, Placed, Held, Between, Owned, HotOwns, Adding
<1>5. \A d \in ToSet(hot.adding) : d \in Of(c) /\ dev[d].enumerated /\ dev[d].parent = 0
  <2>1. CASE hot.pc = "next"
    BY <2>1, EmptyElements DEF Sane, Placed, Held, Between
  <2>2. CASE hot.pc = "parent"
    BY <2>2 DEF Sane, Owned, HotOwns, Adding, Tree, Orphans
  <2> QED
    BY <2>1, <2>2
<1>6. n \notin 1 .. allocated /\ 1 .. allocated \subseteq Devs /\ n > allocated /\ n >= allocated
      /\ n \in Nat /\ 1 .. allocated \subseteq 1 .. n /\ n \in 1 .. n
  BY AllocatedAre DEF Sane
<1>7. /\ ToSet(<<n>> \o hot.adding) = {n} \cup ToSet(hot.adding)
      /\ <<n>> \o hot.adding # <<>> /\ Head(<<n>> \o hot.adding) = n
      /\ Distinct(<<n>> \o hot.adding)
  <2>1. n \notin ToSet(hot.adding) /\ Distinct(hot.adding)
    BY <1>5, <1>6 DEF Of, Sane, BornOnce
  <2> HIDE DEF n
  <2> QED
    BY <1>2, <1>4, <2>1, PushFront
<1>8. n \in Devs /\ n = allocated + 1
  BY <1>2
<1> HIDE DEF n
<1>9. Grown
  BY <1>2, <1>6 DEF Grown
<1>10. ASSUME NEW d \in 1 .. allocated PROVE Born(d)' = Born(d) /\ Uses(d)' = Uses(d)
  <2>1. dev'[d].ctx = dev[d].ctx /\ d # n
    BY <1>6, <1>9 DEF Grown
  <2>2. /\ InList(d)' = InList(d) /\ InMessages(d)' = InMessages(d) /\ InNone(d)' = InNone(d)
        /\ InEvent(d)' = InEvent(d) /\ InHandle(d)' = InHandle(d) /\ InArray(d)' = InArray(d)
    BY <2>1, TermsKept
  <2>3. InTelling(d)' = InTelling(d) /\ InHand(d)' = InHand(d)
    BY <1>3, <1>4 DEF InTelling, InHand, One
  <2>4. InAdding(d)' = InAdding(d)
    BY <1>3, <1>7, <2>1 DEF InAdding, One
  <2> QED
    BY <2>2, <2>3, <2>4 DEF Born, Uses
<1>11. ASSUME NEW e \in Devs, e = n PROVE Born(e)' = 1 /\ Uses(e)' = 0
  <2>1. /\ InMessages(e)' = 0 /\ InEvent(e)' = 0 /\ InNone(e)' = 0 /\ InArray(e)' = 0
        /\ InHand(e)' = 0 /\ e \notin Of(c) /\ e # 0
    BY <1>2, <1>3, <1>4, <1>8, <1>11, Newborn
  <2>2. Owns(c) /\ dev'[e].ctx = c
    BY <1>2, <1>11 DEF Sane, Owned
  <2>3. InList(e)' = 0
    BY <2>1, <2>2 DEF InList, One, Owns
  <2>4. InHandle(e)' = 0
    BY <2>1, <2>2 DEF InHandle, One, Owns
  <2>5. InTelling(e)' = 0 /\ InAdding(e)' = 1
    BY <1>3, <1>7, <1>11 DEF InTelling, InAdding, One
  <2> QED
    BY <2>1, <2>3, <2>4, <2>5 DEF Born, Uses
<1>12. Good(c)'
  <2>1. Owns(c)'
    BY <1>9, OwnsKept
  <2>2. app'[c] # "gone" => Lasts(c)'
    <3>1. \A d \in Of(c) :
             /\ d \in ToSet(usb_devs[c]) => d \in ToSet(usb_devs'[c])
                                            \/ (hot'.pc = "tell" /\ hot'.dev = d)
             /\ hot.pc = "tell" /\ hot.dev = d => hot'.pc = "tell" /\ hot'.dev = d
      OBVIOUS
    <3> QED
      BY <1>9, <3>1, LastsKept
  <2>3. Added' = n
    BY <1>3, <1>7 DEF Added
  <2>4. \A d \in ToSet(hot'.adding) : d \in 1 .. allocated' /\ dev'[d].ctx = c /\ dev'[d].enumerated
                                      /\ dev'[d].parent = 0
    BY <1>2, <1>3, <1>5, <1>6, <1>7 DEF Of
  <2>5. HotOwns'
    BY <1>2, <1>3, <1>4, <1>7, <2>3, <2>4 DEF HotOwns, Adding, Removing, Of
  <2>6. Orphans'
    BY <2>4 DEF Orphans
  <2>7. unsaid' \subseteq 1 .. allocated'
    BY <1>2, <1>6 DEF Sane, Owned
  <2> QED
    BY <1>3, <1>7, <2>1, <2>2, <2>5, <2>6, <2>7 DEF Good, Sane, BornOnce
<1>13. Others(c) /\ StillTelling(c)
  BY DEF Others, StillTelling
<1>14. \A d \in Devs : d = allocated + 1 => Born(d)' = 1 /\ Uses(d)' = 0
  BY <1>8, <1>11
<1>15. allocated + 1 \in Devs /\ allocated' = allocated + 1 /\ dev' = [dev EXCEPT ![allocated + 1] = x]
  BY <1>2, <1>8
<1> QED
  BY <1>2, <1>10, <1>12, <1>13, <1>14, <1>15, FreshData

LEMMA FindAddedData ==
    ASSUME Sane, Types', NEW c \in Contexts, FindAdded(c)
    PROVE  Data'
<1>1. CASE NextContext(c) /\ UNCHANGED <<dev, allocated>>
  BY <1>1, QuietHolder, QuietStep DEF FindAdded, devices
<1>2. CASE allocated # MaxDevices /\ Allocate(c, hot.session)
  <2>1. hot.session \in Sessions
    BY DEF FindAdded, Sane, Types, HotTypes
  <2>2. hot.pc = "next" /\ c \in hot.todo
        /\ UNCHANGED <<app, event, handle, usb_devs, msgs, list, unsaid>>
    BY DEF FindAdded, Hot, context
  <2> QED
    BY <1>2, <2>1, <2>2, AllocateData
<1> QED
  BY <1>1, <1>2 DEF FindAdded

(* The stack of the devices being added without the one that was dealt with. *)
LEMMA ResumeOwned ==
    ASSUME Sane, hot.pc \in Adding, NEW c \in Contexts, c = dev[Added].ctx, Resume(c), Grown,
           \A d \in ToSet(hot.adding) : dev'[d].parent = dev[d].parent
    PROVE  /\ HotOwns' /\ Orphans' /\ Distinct(hot'.adding)
           /\ hot'.dev = 0 /\ hot'.pc \in {"next", "retry"}
           /\ hot.dev = 0 /\ hot.pc # "tell"
           /\ ToSet(hot'.adding) = ToSet(hot.adding) \ {Added}
<1>1. /\ hot.adding \in Seq(Devs) /\ hot.adding # <<>> /\ Added = Head(hot.adding)
      /\ hot.todo \subseteq active
  BY AddedTyped DEF Added
<1>2. /\ hot'.dev = 0 /\ hot.dev = 0 /\ hot'.adding = Tail(hot.adding)
      /\ \/ Tail(hot.adding) = <<>> /\ NextContext(c)
         \/ Tail(hot.adding) # <<>> /\ hot'.pc = "retry" /\ hot'.todo = hot.todo
  BY ResumeTyped
<1>3. /\ ToSet(Tail(hot.adding)) = ToSet(hot.adding) \ {Added} /\ Distinct(Tail(hot.adding))
      /\ Tail(hot.adding) \in Seq(Devs)
  <2>1. Distinct(hot.adding)
    BY DEF Sane, BornOnce
  <2>2. /\ ToSet(hot.adding) = {Head(hot.adding)} \cup ToSet(Tail(hot.adding))
        /\ Distinct(Tail(hot.adding)) /\ Head(hot.adding) \notin ToSet(Tail(hot.adding))
        /\ Tail(hot.adding) \in Seq(Devs)
    BY <1>1, <2>1, DropFront
  <2> QED
    BY <1>1, <2>2
<1>4. Tail(hot.adding) = <<>> => hot'.pc = "next"
  BY <1>2, NextContextTyped DEF Sane
<1>5. hot'.pc \in {"next", "retry"} /\ hot.pc # "tell"
  BY <1>2, <1>4 DEF Adding
<1>6. /\ dev[Added].ctx \in hot.todo
      /\ \A d \in ToSet(hot.adding) : d \in Of(c) /\ dev[d].enumerated
  BY DEF Sane, Owned, HotOwns
<1>7. HotOwns'
  <2>1. CASE hot'.pc = "next"
    BY <2>1 DEF HotOwns, Removing, Adding
  <2>2. CASE hot'.pc = "retry"
    <3>1. Tail(hot.adding) # <<>> /\ hot'.todo = hot.todo
      BY <1>2, <2>2, NextContextTyped DEF Sane
    <3>2. Added' \in ToSet(hot'.adding)
      BY <1>2, <1>3, <3>1, DropFront DEF Added
    <3>3. \A d \in ToSet(hot'.adding) : d \in 1 .. allocated' /\ dev'[d].ctx = c /\ dev'[d].enumerated
      BY <1>2, <1>3, <1>6, AllocatedAre DEF Of, Grown, Sane
    <3> QED
      BY <1>2, <1>6, <2>2, <3>1, <3>2, <3>3 DEF HotOwns, Removing, Adding, Of
  <2> QED
    BY <1>5, <2>1, <2>2
<1>8. Orphans'
  <2> SUFFICES ASSUME NEW d \in ToSet(hot'.adding) PROVE dev'[d].parent = 0
    BY DEF Orphans
  <2>1. d \in ToSet(hot.adding) /\ d # Added
    BY <1>2, <1>3
  <2> QED
    BY <2>1 DEF Sane, Tree, Orphans
<1> QED
  BY <1>2, <1>3, <1>5, <1>7, <1>8

LEMMA InitializeFailsData ==
    ASSUME Sane, Types', NEW c \in Contexts, InitializeFails(c)
    PROVE  Data'
<1> DEFINE a == Added
<1>1. hot.pc = "initialize" /\ hot.pc \in Adding /\ c = dev[Added].ctx
  BY DEF InitializeFails, Hot, Adding
<1>2. a \in 1 .. allocated /\ a \in Devs /\ a \in ToSet(hot.adding)
  BY <1>1, AddedTyped
<1>3. dev' = Unref(dev, a) /\ Resume(c)
      /\ UNCHANGED <<app, event, handle, usb_devs, msgs, list, allocated, unsaid>>
  BY DEF InitializeFails, context
<1>4. InAdding(a) = 1
  BY <1>1, <1>2 DEF InAdding, One
<1> HIDE DEF a
<1>5. Kin /\ Grown /\ \A d \in Devs : Kept(dev', d) = Kept(dev, d) - One(d \in {a})
  <2>1. Kept(dev, a) >= 1 /\ dev[a].refcnt >= 1
    BY <1>2, <1>4, Terms DEF Born
  <2>2. dev' = UnrefAll(dev, {a})
    BY <1>3 DEF Unref
  <2>3. {a} \subseteq 1 .. allocated /\ \A d \in {a} : Kept(dev, d) >= 1
    BY <1>2, <2>1
  <2> QED
    BY <1>3, <2>2, <2>3, DropKept, KinGrown DEF Sane
<1>6. /\ HotOwns' /\ Orphans' /\ Distinct(hot'.adding)
      /\ hot'.dev = 0 /\ hot'.pc \in {"next", "retry"} /\ hot.dev = 0 /\ hot.pc # "tell"
      /\ ToSet(hot'.adding) = ToSet(hot.adding) \ {a}
  <2>1. ToSet(hot.adding) \subseteq Devs
    BY <1>1, AddedTyped, ElementsOf
  <2>2. \A d \in ToSet(hot.adding) : dev'[d].parent = dev[d].parent
    BY <1>5, <2>1 DEF Kin
  <2> QED
    BY <1>1, <1>3, <1>5, <2>2, ResumeOwned DEF a
<1>7. ASSUME NEW d \in 1 .. allocated
      PROVE  Born(d)' = Born(d) - One(d \in {a}) /\ Uses(d)' = Uses(d)
  <2>1. dev'[d].ctx = dev[d].ctx
    BY <1>5, Terms DEF Kin
  <2>2. /\ InList(d)' = InList(d) /\ InMessages(d)' = InMessages(d) /\ InNone(d)' = InNone(d)
        /\ InEvent(d)' = InEvent(d) /\ InHandle(d)' = InHandle(d) /\ InArray(d)' = InArray(d)
    BY <1>3, <2>1, TermsKept
  <2>3. InTelling(d)' = InTelling(d) /\ InHand(d)' = InHand(d)
    BY <1>6 DEF InTelling, InHand, One
  <2>4. InAdding(d)' = InAdding(d) - One(d \in {a})
    BY <1>1, <1>2, <1>6 DEF InAdding, One
  <2> QED
    BY <2>2, <2>3, <2>4, Terms, OneIs DEF Born, Uses, One
<1>8. ASSUME NEW d \in 1 .. allocated
      PROVE  /\ Born(d)' \in 0 .. 1 /\ Uses(d)' \in Nat
             /\ Kept(dev', d) = Born(d)' + Uses(d)'
  <2>1. Kept(dev', d) = Kept(dev, d) - One(d \in {a})
    BY <1>5, Terms
  <2>2. d = a => Born(d) = 1
    BY <1>2, <1>4, Terms DEF Born
  <2> QED
    BY <1>7, <2>1, <2>2, Terms DEF One
<1>9. \A d \in Devs : d > allocated => Kept(dev', d) = 0
  BY <1>2, <1>5, Unborn, DevsFinite, AllocatedAre DEF One, Sane
<1>10. Good(c)'
  <2>1. Owns(c)'
    BY <1>3, <1>5, OwnsKept
  <2>2. app'[c] # "gone" => Lasts(c)'
    <3>1. \A d \in Of(c) :
             /\ d \in ToSet(usb_devs[c]) => d \in ToSet(usb_devs'[c])
                                            \/ (hot'.pc = "tell" /\ hot'.dev = d)
             /\ hot.pc = "tell" /\ hot.dev = d => hot'.pc = "tell" /\ hot'.dev = d
      BY <1>1, <1>3
    <3> QED
      BY <1>3, <1>5, <3>1, LastsKept
  <2> QED
    BY <1>3, <1>6, <2>1, <2>2 DEF Good, Sane, BornOnce, Owned
<1>11. Others(c) /\ StillTelling(c)
  BY <1>1, <1>3 DEF Others, StillTelling
<1> QED
  BY <1>5, <1>8, <1>9, <1>10, <1>11, KinData

LEMMA ConnectData ==
    ASSUME Sane, Types', Connect, NEW c, c = dev[Added].ctx
    PROVE  Data'
<1> DEFINE a == Added
<1>1. hot.pc = "connect" /\ hot.pc \in Adding
  BY DEF Connect, Hot, Adding
<1>2. a \in 1 .. allocated /\ a \in Devs /\ a \in ToSet(hot.adding) /\ c \in Contexts
      /\ c \in hot.todo
  BY <1>1, AddedTyped
<1>3. /\ dev' = [dev EXCEPT ![a].attached = TRUE] /\ hot' = [hot EXCEPT !.pc = "arrived"]
      /\ usb_devs' = [usb_devs EXCEPT ![c] = <<a>> \o @]
      /\ UNCHANGED <<app, event, handle, msgs, list, allocated, unsaid>>
  BY DEF Connect, Listed, context
<1>4. hot \in Holder /\ dev \in [Devs -> Device] /\ usb_devs \in [Contexts -> Seq(Devs)]
  BY DEF Sane, Types, HotTypes, DeviceTypes
<1>5. hot'.dev = hot.dev /\ hot'.pc = "arrived" /\ hot'.todo = hot.todo /\ hot'.adding = hot.adding
  BY <1>3, <1>4 DEF Holder
<1>6. InAdding(a) = 1
  BY <1>1, <1>2 DEF InAdding, One
<1>7. Added' = Added
  BY <1>5 DEF Added
<1>8. /\ hot.dev = 0
      /\ \A d \in ToSet(hot.adding) : d \in Of(c) /\ dev[d].enumerated
      /\ \A d \in ToSet(hot.adding) : d # Added => dev[d].parent = 0
  BY <1>1 DEF Sane, Owned, HotOwns, Tree, Orphans
<1> HIDE DEF a
<1>9. Kin /\ Grown /\ \A d \in Devs : Kept(dev', d) = Kept(dev, d)
  <2>1. Kin /\ \A d \in Devs : Kept(dev', d) = Kept(dev, d)
    <3>1. \A d \in Devs :
             /\ dev'[d].ctx = dev[d].ctx /\ dev'[d].session = dev[d].session
             /\ dev'[d].enumerated = dev[d].enumerated
             /\ dev'[d].parent = dev[d].parent /\ Kept(dev', d) = Kept(dev, d)
      <4>1. Marked(dev, dev', a, TRUE)
        BY <1>3 DEF Marked
      <4>2. dev \in [Devs -> Device]
        BY <1>4
      <4> QED
        BY <4>1, <4>2, Mark
    <3> QED
      BY <1>3, <3>1 DEF Kin
  <2> QED
    BY <2>1, KinGrown DEF Sane
<1>10. InList(a) = 0 /\ a \notin ToSet(usb_devs[c])
  <2>1. InList(a) = 0
    BY <1>2, <1>6, Terms DEF Born
  <2>2. dev[a].ctx = c
    BY DEF a
  <2> QED
    BY <2>1, <2>2 DEF InList, One
<1>11. ToSet(usb_devs'[c]) = {a} \cup ToSet(usb_devs[c]) /\ Distinct(usb_devs'[c])
       /\ \A x \in Contexts \ {c} : usb_devs'[x] = usb_devs[x]
  <2>1. usb_devs[c] \in Seq(Devs) /\ Distinct(usb_devs[c])
    BY <1>2, <1>4 DEF Sane, BornOnce
  <2>2. ToSet(<<a>> \o usb_devs[c]) = {a} \cup ToSet(usb_devs[c])
        /\ Distinct(<<a>> \o usb_devs[c])
    BY <1>2, <1>10, <2>1, PushFront
  <2> QED
    BY <1>2, <1>3, <1>4, <2>2
<1>12. ASSUME NEW d \in 1 .. allocated PROVE Born(d)' = Born(d) /\ Uses(d)' = Uses(d)
  <2>1. dev'[d].ctx = dev[d].ctx /\ dev[d].ctx \in Contexts
    BY <1>9, Terms DEF Kin
  <2>2. /\ InMessages(d)' = InMessages(d) /\ InNone(d)' = InNone(d)
        /\ InEvent(d)' = InEvent(d) /\ InHandle(d)' = InHandle(d) /\ InArray(d)' = InArray(d)
    BY <1>3, <2>1, TermsKept
  <2>3. InTelling(d)' = InTelling(d) /\ InHand(d)' = InHand(d)
    BY <1>1, <1>5 DEF InTelling, InHand, One
  <2>4. InList(d)' + InAdding(d)' = InList(d) + InAdding(d)
    <3>1. CASE d = a
      <4>1. InAdding(d)' = 0
        BY <1>5, <1>7, <3>1 DEF InAdding, One, a
      <4>2. InList(d)' = 1
        BY <1>11, <2>1, <3>1 DEF InList, One, a
      <4> QED
        BY <1>6, <1>10, <3>1, <4>1, <4>2
    <3>2. CASE d # a
      <4>1. InAdding(d)' = InAdding(d)
        BY <1>1, <1>5, <1>7, <3>2 DEF InAdding, One, a
      <4>2. InList(d)' = InList(d)
        BY <1>11, <2>1, <3>2 DEF InList, One
      <4> QED
        BY <4>1, <4>2
    <3> QED
      BY <3>1, <3>2
  <2>5. InList(d)' \in Nat /\ InAdding(d)' \in Nat
    BY OneIs DEF InList, InAdding, One
  <2> QED
    BY <2>2, <2>3, <2>4, <2>5, Terms DEF Born, Uses
<1>13. ASSUME NEW d \in 1 .. allocated
       PROVE  /\ Born(d)' \in 0 .. 1 /\ Uses(d)' \in Nat
              /\ Kept(dev', d) = Born(d)' + Uses(d)'
  BY <1>9, <1>12, Terms
<1>14. \A d \in Devs : d > allocated => Kept(dev', d) = 0
  BY <1>9, Unborn
<1>15. Good(c)'
  <2>1. Owns(c)'
    <3>1. Owns(c) /\ Of(c) \subseteq Of(c)'
      BY <1>2, <1>9, OfGrown DEF Sane, Owned
    <3>2. a \in Of(c)
      BY <1>2, <1>8
    <3> QED
      BY <1>3, <1>11, <3>1, <3>2 DEF Owns
  <2>2. app'[c] # "gone" => Lasts(c)'
    <3>1. \A d \in Of(c) :
             /\ d \in ToSet(usb_devs[c]) => d \in ToSet(usb_devs'[c])
                                            \/ (hot'.pc = "tell" /\ hot'.dev = d)
             /\ hot.pc = "tell" /\ hot.dev = d => hot'.pc = "tell" /\ hot'.dev = d
      BY <1>1, <1>11
    <3> QED
      BY <1>2, <1>3, <1>9, <3>1, LastsKept
  <2>3. \A d \in ToSet(hot.adding) : d \in 1 .. allocated' /\ dev'[d].ctx = c /\ dev'[d].enumerated
                                     /\ (d # Added => dev'[d].parent = 0)
    <3>1. ToSet(hot.adding) \subseteq Devs
      BY <1>1, AddedTyped, ElementsOf
    <3> QED
      BY <1>8, <1>9, <3>1 DEF Kin, Of
  <2>4. HotOwns'
    <3>1. Added \in ToSet(hot.adding) /\ Added \in ToSet(usb_devs'[c]) /\ hot.adding # <<>>
      BY <1>1, <1>2, <1>11, AddedTyped DEF a
    <3>2. dev'[Added].ctx = c /\ hot'.dev = 0
      BY <1>5, <1>8, <2>3, <3>1
    <3> QED
      BY <1>2, <1>5, <1>7, <2>3, <3>1, <3>2 DEF HotOwns, Adding, Removing, Of
  <2>5. Orphans'
    BY <1>5, <1>7, <2>3 DEF Orphans
  <2> QED
    BY <1>3, <1>5, <1>11, <2>1, <2>2, <2>4, <2>5 DEF Good, Sane, BornOnce, Owned
<1>16. Others(c) /\ StillTelling(c)
  BY <1>1, <1>3, <1>11 DEF Others, StillTelling
<1> QED
  BY <1>2, <1>9, <1>13, <1>14, <1>15, <1>16, KinData

(* A message that a device has arrived holds no reference.                 *)
LEMMA Announced ==
    ASSUME Sane, NEW c \in Contexts, NEW a \in Of(c),
           usbi_hotplug_notification(c, a, "ARRIVED"),
           UNCHANGED <<dev, usb_devs, event, handle, list, allocated>>,
           app'[c] = app[c] \/ (app[c] = "arrived" /\ app'[c] = "open2"),
           dev[a].enumerated => a \in ToSet(usb_devs[c]),
           hot.pc = "tell" => hot' = hot
    PROVE  /\ Owns(c)' /\ (app'[c] # "gone" => Lasts(c)') /\ unsaid' = unsaid
           /\ \A x \in Contexts \ {c} : msgs'[x] = msgs[x]
           /\ \A d \in 1 .. allocated : InMessages(d)' = InMessages(d)
<1> DEFINE m == Message("ARRIVED", a)
<1>1. msgs \in [Contexts -> Seq(Messages)] /\ a \in Devs /\ a \in 1 .. allocated /\ dev[a].ctx = c
  BY AllocatedAre DEF Sane, Types, DeviceTypes, Of
<1>2. CASE c \notin ready
  <2>1. msgs' = msgs /\ unsaid' = unsaid /\ app'[c] = app[c]
    BY <1>2 DEF usbi_hotplug_notification, Sane, Placed, Settled, Unready
  <2>2. Grown /\ (\A d \in 1 .. allocated : InMessages(d)' = InMessages(d))
    BY <2>1, AllocatedAre, KinGrown DEF Kin, Sane, InMessages
  <2>3. Owns(c)'
    BY <2>1, <2>2, OwnsKept
  <2>4. \A d \in Of(c) :
           /\ d \in ToSet(usb_devs[c]) => d \in ToSet(usb_devs'[c])
                                          \/ (hot'.pc = "tell" /\ hot'.dev = d)
           /\ hot.pc = "tell" /\ hot.dev = d => hot'.pc = "tell" /\ hot'.dev = d
    OBVIOUS
  <2>5. app'[c] # "gone" => Lasts(c)'
    BY <2>1, <2>2, <2>4, LastsKept
  <2> QED
    BY <2>1, <2>2, <2>3, <2>5
<1>3. CASE c \in ready
  <2>1. msgs' = [msgs EXCEPT ![c] = Append(@, m)] /\ unsaid' = unsaid
    BY <1>3 DEF usbi_hotplug_notification
  <2>2. m \in Messages /\ m.event = "ARRIVED" /\ m.dev = a /\ \A d : m # Message("LEFT", d)
    BY <1>1, DevsAre DEF Message, Messages
  <2> HIDE DEF m
  <2>3. /\ msgs'[c] = Append(msgs[c], m) /\ msgs[c] \in Seq(Messages)
        /\ \A x \in Contexts \ {c} : msgs'[x] = msgs[x]
    BY <1>1, <2>1
  <2>4. /\ DOMAIN msgs[c] = 1 .. Len(msgs[c]) /\ DOMAIN msgs'[c] = 1 .. Len(msgs[c]) + 1
        /\ Len(msgs[c]) \in Nat
        /\ \A i \in 1 .. Len(msgs[c]) : msgs'[c][i] = msgs[c][i]
        /\ msgs'[c][Len(msgs[c]) + 1] = m
    BY <2>2, <2>3, AppendProperties, LenProperties
  <2>5. \A n \in ToSet(msgs'[c]) : n \in ToSet(msgs[c]) \/ n = m
    <3>1. Cardinality(Places(Append(msgs[c], m), m)) = Cardinality(Places(msgs[c], m)) + One(m = m)
          /\ ToSet(Append(msgs[c], m)) = ToSet(msgs[c]) \cup {m}
      BY <2>2, <2>3, PlacesAppend
    <3> QED
      BY <2>3, <3>1
  <2>6. \A x : Of(x)' = Of(x)
    BY DEF Of
  <2>7. ASSUME NEW d \in 1 .. allocated PROVE InMessages(d)' = InMessages(d)
    <3>1. dev'[d].ctx = dev[d].ctx /\ dev[d].ctx \in Contexts
      BY Terms
    <3>2. CASE dev[d].ctx = c
      <4>1. Cardinality(Places(Append(msgs[c], m), Message("LEFT", d)))
              = Cardinality(Places(msgs[c], Message("LEFT", d))) + One(m = Message("LEFT", d))
        BY <2>2, <2>3, PlacesAppend
      <4>2. One(m = Message("LEFT", d)) = 0
        BY <2>2 DEF One
      <4>3. InMessages(d)' = InMessages(d) + 0
        BY <2>3, <3>1, <3>2, <4>1, <4>2 DEF InMessages
      <4> QED
        BY <4>3, Terms
    <3>3. CASE dev[d].ctx # c
      BY <2>3, <3>1, <3>3, TermsKept
    <3> QED
      BY <3>2, <3>3
  <2>8. Owns(c)'
    <3>1. Owns(c)
      BY DEF Sane, Owned
    <3> QED
      BY <2>2, <2>5, <2>6, <3>1 DEF Owns
  <2>9. ASSUME app'[c] # "gone" PROVE Lasts(c)'
    <3>1. Lasts(c)
      BY <2>9 DEF Sane, Lasting, Opening2
    <3>2. \A d : hot.pc = "tell" /\ hot.dev = d => hot'.pc = "tell" /\ hot'.dev = d
      OBVIOUS
    <3>3. ASSUME NEW d \in Of(c), NEW i, Leaves(d, i)
          PROVE  Leaves(d, i)'
      <4>1. dev[d].ctx = c /\ dev'[d].ctx = c /\ usb_devs' = usb_devs
        BY DEF Of
      <4>2. CASE d \in ToSet(usb_devs[c])
        BY <4>1, <4>2 DEF Leaves
      <4>3. CASE hot.pc = "tell" /\ hot.dev = d
        BY <3>2, <4>3 DEF Leaves
      <4>4. CASE \E j \in DOMAIN msgs[c] : j > i /\ msgs[c][j] = Message("LEFT", d)
        BY <2>4, <4>1, <4>4 DEF Leaves
      <4> QED
        BY <3>3, <4>1, <4>2, <4>3, <4>4 DEF Leaves
    <3>4. ASSUME NEW i \in DOMAIN msgs'[c], NEW d, d = msgs'[c][i].dev,
                 msgs'[c][i].event = "ARRIVED", dev'[d].enumerated
          PROVE  Leaves(d, i)'
      <4>1. CASE i \in 1 .. Len(msgs[c])
        <5>1. msgs'[c][i] = msgs[c][i] /\ i \in DOMAIN msgs[c]
          BY <2>4, <4>1
        <5>2. Leaves(d, i)
          BY <3>1, <3>4, <5>1 DEF Lasts
        <5>3. d \in Of(c)
          BY <3>4, <5>1 DEF ToSet, Sane, Owned, Owns
        <5> QED
          BY <3>3, <5>2, <5>3
      <4>2. CASE i = Len(msgs[c]) + 1
        <5>1. d = a
          BY <2>2, <2>4, <3>4, <4>2
        <5>2. d \in ToSet(usb_devs'[c]) /\ dev'[d].ctx = c
          BY <1>1, <3>4, <5>1
        <5> QED
          BY <5>2 DEF Leaves
      <4> QED
        BY <2>4, <3>4, <4>1, <4>2
    <3>5. event[c].event = "ARRIVED" => event[c].dev \in Of(c)
      BY DEF Idle, Message, Sane, Owned, Owns
    <3>6. app[c] \in {"arrived", "open2"} => handle[c] \in Of(c)
      BY DEF Sane, Owned, Owns, Placed, Settled, Holding
    <3> QED
      BY <3>1, <3>3, <3>4, <3>5, <3>6 DEF Lasts, Opening2
  <2> QED
    BY <2>1, <2>3, <2>7, <2>8, <2>9
<1> QED
  BY <1>2, <1>3

LEMMA TellArrivedData ==
    ASSUME Sane, Types', NEW c \in Contexts, TellArrived(c)
    PROVE  Data'
<1> DEFINE a == Added
<1>1. hot.pc = "arrived" /\ hot.pc \in Adding /\ c = dev[Added].ctx
  BY DEF TellArrived, Hot, Adding
<1>2. a \in 1 .. allocated /\ a \in Devs /\ a \in ToSet(hot.adding) /\ c \in active
  BY <1>1, AddedTyped
<1>3. /\ usbi_hotplug_notification(c, a, "ARRIVED") /\ Resume(c)
      /\ UNCHANGED <<app, event, handle, usb_devs, list, dev, allocated>>
  BY DEF TellArrived, context
<1>4. a \in ToSet(usb_devs[c]) /\ a \in Of(c)
  BY <1>1, <1>2 DEF Sane, Owned, HotOwns, Of
<1>5. Kin /\ Grown /\ \A d \in Devs : Kept(dev', d) = Kept(dev, d)
  BY <1>3, KinGrown DEF Kin, Sane
<1>6. /\ HotOwns' /\ Orphans' /\ Distinct(hot'.adding)
      /\ hot'.dev = 0 /\ hot'.pc \in {"next", "retry"} /\ hot.dev = 0 /\ hot.pc # "tell"
      /\ ToSet(hot'.adding) = ToSet(hot.adding) \ {a}
  BY <1>1, <1>3, <1>5, ResumeOwned
<1> HIDE DEF a
<1>7. /\ Owns(c)' /\ (app'[c] # "gone" => Lasts(c)') /\ unsaid' = unsaid
      /\ \A x \in Contexts \ {c} : msgs'[x] = msgs[x]
      /\ \A d \in 1 .. allocated : InMessages(d)' = InMessages(d)
  BY <1>1, <1>3, <1>4, Announced
<1>8. ASSUME NEW d \in 1 .. allocated PROVE Born(d)' = Born(d) /\ Uses(d)' = Uses(d)
  <2>1. dev'[d].ctx = dev[d].ctx
    BY <1>3
  <2>2. /\ InList(d)' = InList(d) /\ InMessages(d)' = InMessages(d) /\ InNone(d)' = InNone(d)
        /\ InEvent(d)' = InEvent(d) /\ InHandle(d)' = InHandle(d) /\ InArray(d)' = InArray(d)
    BY <1>3, <1>7, <2>1, TermsKept
  <2>3. InTelling(d)' = InTelling(d) /\ InHand(d)' = InHand(d)
    BY <1>6 DEF InTelling, InHand, One
  <2>4. InAdding(d)' = InAdding(d)
    BY <1>1, <1>6 DEF InAdding, One, a
  <2> QED
    BY <2>2, <2>3, <2>4 DEF Born, Uses
<1>9. ASSUME NEW d \in 1 .. allocated
       PROVE  /\ Born(d)' \in 0 .. 1 /\ Uses(d)' \in Nat
              /\ Kept(dev', d) = Born(d)' + Uses(d)'
  BY <1>5, <1>8, Terms
<1>10. \A d \in Devs : d > allocated => Kept(dev', d) = 0
  BY <1>5, Unborn
<1>11. Good(c)'
  BY <1>3, <1>6, <1>7 DEF Good, Sane, BornOnce, Owned
<1>12. Others(c) /\ StillTelling(c)
  BY <1>1, <1>3, <1>7 DEF Others, StillTelling
<1> QED
  BY <1>5, <1>9, <1>10, <1>11, <1>12, KinData

(* A device gets its parent, and the parent a reference.                   *)
LEMMA AdoptData ==
    ASSUME Sane, Types', NEW c \in Contexts, hot.pc \in {"parent", "retry"}, dev[Added].ctx = c,
           NEW p \in ToSet(usb_devs[c]), dev[p].session = ParentOf[dev[Added].session],
           dev[p].session \in Sessions,
           dev' = [Ref(dev, p) EXCEPT ![Added].parent = p], hot' = [hot EXCEPT !.pc = "connect"],
           UNCHANGED <<app, event, handle, usb_devs, msgs, list, unsaid, allocated>>
    PROVE  Data'
<1> DEFINE a == Added
<1>1. hot.pc \in Adding
  BY DEF Adding
<1>2. /\ a \in 1 .. allocated /\ a \in Devs /\ a \in ToSet(hot.adding)
      /\ ToSet(hot.adding) \subseteq Devs /\ hot.adding # <<>>
  BY <1>1, AddedTyped, ElementsOf
<1>3. p \in 1 .. allocated /\ p \in Devs /\ dev[p].ctx = c /\ Born(p) = 1
  BY ListedBorn
<1>4. dev[a].session \in Sessions
  BY <1>2 DEF Sane, Owned
<1>5. p # a
  BY <1>4, NoOwnParent
<1>6. InAdding(a) = 1
  BY <1>2 DEF InAdding, One
<1>7. hot \in Holder /\ dev \in [Devs -> Device]
  BY DEF Sane, Types, HotTypes, DeviceTypes
<1>8. hot'.dev = hot.dev /\ hot'.pc = "connect" /\ hot'.todo = hot.todo /\ hot'.adding = hot.adding
      /\ Added' = Added
  BY <1>7 DEF Holder, Added
<1>9. /\ hot.dev = 0 /\ c \in hot.todo
      /\ \A d \in ToSet(hot.adding) : d \in Of(c) /\ dev[d].enumerated /\ dev[d].parent = 0
  BY <1>1 DEF Sane, Owned, HotOwns, Tree, Orphans
<1>10. a \in Devs /\ dev[a].parent = 0 /\ dev[a].ctx = c /\ dev[p].session = ParentOf[dev[a].session]
       /\ dev' = [Ref(dev, p) EXCEPT ![a].parent = p]
  BY <1>2, <1>9
<1> HIDE DEF a
<1>11. dev[a].refcnt > 0 /\ dev[p].refcnt > 0
  <2>1. /\ dev[p].refcnt = Born(p) + Uses(p) + Kids(dev, p)
        /\ Uses(p) \in Nat /\ Kids(dev, p) \in Nat /\ Born(p) \in Nat
    BY <1>3, Terms
  <2>2. /\ dev[a].refcnt = Born(a) + Uses(a) + Kids(dev, a)
        /\ Uses(a) \in Nat /\ Kids(dev, a) \in Nat
        /\ InList(a) \in Nat /\ InTelling(a) \in Nat /\ InMessages(a) \in Nat
        /\ InEvent(a) \in Nat /\ InNone(a) \in Nat
    BY <1>2, Terms
  <2>3. Born(a) >= 1
    BY <1>6, <2>2 DEF Born
  <2>4. Born(a) \in Nat
    BY <1>6, <2>2 DEF Born
  <2> QED
    BY <1>3, <2>1, <2>2, <2>3, <2>4
<1>12. \A d \in Devs :
          /\ dev'[d].ctx = dev[d].ctx /\ dev'[d].session = dev[d].session
          /\ dev'[d].enumerated = dev[d].enumerated
          /\ dev'[d].parent = IF d = a THEN p ELSE dev[d].parent
          /\ dev'[d].refcnt = dev[d].refcnt + One(d = p)
          /\ Kept(dev', d) = Kept(dev, d)
  <2>1. /\ a \in Devs /\ p \in Devs /\ a # p /\ dev[a].parent = 0 /\ dev[a].refcnt > 0
        /\ dev[p].refcnt > 0 /\ dev \in [Devs -> Device]
    BY <1>2, <1>3, <1>5, <1>7, <1>10, <1>11
  <2>2. Adopted(dev, dev', a, p)
    BY <1>10 DEF Adopted
  <2> QED
    BY ONLY <2>1, <2>2, Adopt, SMTT(60)
<1>13. Grown
  BY <1>12, AllocatedAre DEF Grown, Sane
<1>14. ASSUME NEW d \in Devs, dev'[d].parent # 0
       PROVE  /\ dev'[d].parent \in 1 .. allocated /\ dev'[dev'[d].parent].ctx = dev'[d].ctx
              /\ dev'[dev'[d].parent].session = ParentOf[dev'[d].session]
  <2>1. CASE d = a
    BY <1>3, <1>10, <1>12, <2>1
  <2>2. CASE d # a
    <3>1. dev[d].parent \in 1 .. allocated /\ dev[dev[d].parent].ctx = dev[d].ctx
          /\ dev[dev[d].parent].session = ParentOf[dev[d].session]
      BY <1>12, <1>14, <2>2 DEF Sane, Tree, Parents, Of
    <3>2. dev'[d].parent = dev[d].parent /\ dev[d].parent \in Devs
      BY <1>12, <2>2, <3>1, AllocatedAre DEF Sane
    <3> QED
      BY <1>12, <3>1, <3>2
  <2> QED
    BY <2>1, <2>2
<1>15. Parents'
  BY <1>14 DEF Parents, Of
<1>16. Orphans'
  BY <1>2, <1>8, <1>9, <1>12 DEF Orphans, a
<1>17. ASSUME NEW d \in 1 .. allocated
       PROVE  /\ Born(d)' = Born(d) /\ Uses(d)' = Uses(d)
              /\ Born(d)' <= 1 /\ dev'[d].refcnt = Born(d)' + Uses(d)' + Kids(dev', d)
              /\ dev'[d].refcnt \in Nat
              /\ dev'[d].ctx \in Contexts /\ dev'[d].session \in Sessions
  <2>1. dev'[d].ctx = dev[d].ctx /\ dev'[d].session = dev[d].session /\ d \in Devs
    BY <1>12, Terms
  <2>2. /\ InList(d)' = InList(d) /\ InMessages(d)' = InMessages(d) /\ InNone(d)' = InNone(d)
        /\ InEvent(d)' = InEvent(d) /\ InHandle(d)' = InHandle(d) /\ InArray(d)' = InArray(d)
    BY <2>1, TermsKept
  <2>3. InTelling(d)' = InTelling(d) /\ InHand(d)' = InHand(d) /\ InAdding(d)' = InAdding(d)
    BY <1>8, <2>1, TermsKept
  <2>4. Born(d)' = Born(d) /\ Uses(d)' = Uses(d)
    BY <2>2, <2>3 DEF Born, Uses
  <2>5. Kept(dev', d) = Kept(dev, d) /\ Kids(dev', d) \in Nat /\ dev'[d].refcnt = dev[d].refcnt + One(d = p)
    BY <1>12, <2>1, KidsCounted
  <2>6. dev'[d].refcnt = Kept(dev', d) + Kids(dev', d) /\ dev'[d].refcnt \in Nat
    BY <2>5, Terms, OneIs DEF Kept, One
  <2>7. dev[d].ctx \in Contexts /\ dev[d].session \in Sessions
    BY DEF Sane, Owned
  <2> QED
    BY <2>1, <2>4, <2>5, <2>6, <2>7, Terms
<1>18. Spare'
  <2>1. \A d \in Devs : d > allocated => d # a /\ d # p
    BY <1>2, <1>3, DevsFinite, AllocatedAre DEF Sane
  <2> QED
    BY <1>12, <2>1 DEF Spare, Sane, Owned, Counted, One
<1>19. HotOwns'
  <2>1. \A d \in ToSet(hot.adding) : d \in 1 .. allocated /\ dev'[d].ctx = c /\ dev'[d].enumerated
    BY <1>2, <1>9, <1>12 DEF Of
  <2>2. dev'[Added].ctx = c
    BY <1>2, <2>1 DEF a
  <2> QED
    BY <1>2, <1>8, <1>9, <2>1, <2>2 DEF HotOwns, Removing, Adding, Of
<1>20. ASSUME NEW x \in Contexts PROVE Owns(x)' /\ (app'[x] # "gone" => Lasts(x)')
  <2>1. Owns(x)'
    BY <1>13, OwnsKept
  <2>2. \A d \in Of(x) :
           /\ d \in ToSet(usb_devs[x]) => d \in ToSet(usb_devs'[x])
                                          \/ (hot'.pc = "tell" /\ hot'.dev = d)
           /\ hot.pc = "tell" /\ hot.dev = d => hot'.pc = "tell" /\ hot'.dev = d
    OBVIOUS
  <2>3. app'[x] # "gone" => Lasts(x)'
    BY <1>13, <2>2, LastsKept
  <2> QED
    BY <2>1, <2>3
<1>21. Owned' /\ Tree'
  BY <1>15, <1>16, <1>17, <1>18, <1>19, <1>20 DEF Owned, Tree, Sane
<1>22. BornOnce' /\ Lasting' /\ Referred'
  BY <1>8, <1>17, <1>20 DEF BornOnce, Lasting, Referred, Sane
<1>23. Counted'
  <2> SUFFICES ASSUME NEW d \in Devs PROVE dev'[d].refcnt \in Nat
    BY DEF Counted
  <2> QED
    BY <1>12, OneIs DEF Sane, Counted, One
<1> QED
  BY <1>21, <1>22, <1>23 DEF Data

LEMMA FindParentData ==
    ASSUME Sane, Types', NEW c \in Contexts, FindParent(c)
    PROVE  Data'
<1> DEFINE s == ParentOf[dev[Added].session]
<1>1. /\ hot.pc \in {"parent", "retry"} /\ dev[Added].ctx = c
      /\ UNCHANGED <<context, usb_devs, msgs, list, unsaid>>
      /\ \/ UNCHANGED <<dev, allocated>>
         \/ \E d \in ToSet(usb_devs[c]) :
               /\ dev[d].session = s /\ dev[d].session \in Sessions
               /\ dev' = [Ref(dev, d) EXCEPT ![Added].parent = d]
               /\ hot' = [hot EXCEPT !.pc = "connect"]
               /\ UNCHANGED allocated
         \/ s \in Sessions /\ allocated # MaxDevices /\ Allocate(c, s)
  BY ParentFound
<1>2. c \in hot.todo
  BY <1>1, AddedTyped DEF Adding
<1>3. CASE UNCHANGED <<dev, allocated>>
  BY <1>1, <1>3, QuietHolder, QuietStep DEF devices
<1>4. CASE s \in Sessions /\ allocated # MaxDevices /\ Allocate(c, s)
  <2>1. hot.pc = "parent"
    <3>1. allocated' # allocated
      BY <1>4, AllocatedAre DEF Allocate, usbi_alloc_device, Sane
    <3> QED
      BY <3>1 DEF FindParent
  <2> QED
    BY <1>1, <1>2, <1>4, <2>1, AllocateData DEF context
<1> QED
  BY <1>1, <1>3, <1>4, AdoptData DEF context

LEMMA SectionData ==
    ASSUME Sane, Types', Section
    PROVE  Data'
<1>1. CASE linux_netlink_read_message \/ Handled \/ Initialize
  <2>1. UNCHANGED <<context, devices>>
    BY <1>1 DEF linux_netlink_read_message, Handled, Initialize
  <2> QED
    BY <1>1, <2>1, QuietHolder, QuietStep
<1> QED
  BY <1>1, DetachData, ConnectData, FindRemovedData, UnlistData, TellLeftData, DropFoundData,
     FindAddedData, InitializeFailsData, FindParentData, TellArrivedData
  DEF Section

---------------------------------------------------------------------------
(* Steps of the threads of a context.                                      *)

BornHere(d) == InList(d) + InMessages(d) + InEvent(d)
UsedHere(d) == InHandle(d) + InArray(d)

LEMMA StillHot ==
    ASSUME Sane, HotStill
    PROVE  /\ hot'.dev = hot.dev /\ hot'.adding = hot.adding
           /\ \A c : StillTelling(c)
           /\ \A d : hot.pc = "tell" /\ hot.dev = d => hot'.pc = "tell" /\ hot'.dev = d
           /\ \A d : InHand(d)' = InHand(d) /\ InTelling(d)' = InTelling(d)
                     /\ InAdding(d)' = InAdding(d)
<1>1. hot'.dev = hot.dev /\ hot'.adding = hot.adding
      /\ (hot' = hot \/ (hot.pc \notin {"tell", "arrived"} /\ hot'.pc \notin {"tell", "arrived"}))
  BY DEF HotStill, Sane, Placed, Held, Between
<1>2. \A c : StillTelling(c)
  BY <1>1 DEF StillTelling
<1>3. \A d : hot.pc = "tell" /\ hot.dev = d => hot'.pc = "tell" /\ hot'.dev = d
  BY <1>1
<1>4. ASSUME NEW d
      PROVE  InHand(d)' = InHand(d) /\ InTelling(d)' = InTelling(d) /\ InAdding(d)' = InAdding(d)
  BY <1>1 DEF InHand, InTelling, InAdding, Added, One
<1> QED
  BY <1>1, <1>2, <1>3, <1>4

LEMMA ContextData ==
    ASSUME Sane, Types', Kin, NEW c \in Contexts, Others(c), HotStill, unsaid' = unsaid,
           \/ hot.pc \in Between \/ c \notin active
           \/ ToSet(usb_devs[c]) \subseteq ToSet(usb_devs'[c]),
           Owns(c)', app'[c] # "gone" => Lasts(c)', Distinct(usb_devs'[c]),
           \A d \in Of(c) :
             /\ BornHere(d)' \in Nat /\ BornHere(d)' <= BornHere(d) /\ UsedHere(d)' \in Nat
             /\ Kept(dev', d) - Kept(dev, d)
                  = (BornHere(d)' - BornHere(d)) + (UsedHere(d)' - UsedHere(d)),
           \A d \in Devs : d \notin Of(c) => Kept(dev', d) = Kept(dev, d)
    PROVE  Data'
<1>1. /\ hot'.dev = hot.dev /\ hot'.adding = hot.adding /\ StillTelling(c)
      /\ \A d : InHand(d)' = InHand(d) /\ InTelling(d)' = InTelling(d) /\ InAdding(d)' = InAdding(d)
  BY StillHot
<1>2. 1 .. allocated \subseteq Devs /\ allocated' = allocated /\ allocated \in Nat
  BY AllocatedAre DEF Kin, Sane
<1>3. HotOwns' /\ Orphans'
  <2>1. Grown
    BY KinGrown DEF Sane
  <2>2. \A d \in ToSet(hot.adding) : dev'[d].parent = dev[d].parent
    <3>1. hot.adding \in Seq(Devs)
      BY DEF Sane, Types, HotTypes, Holder
    <3> QED
      BY <3>1, ElementsOf DEF Kin
  <2>3. hot.pc \in Between \/ \A x \in active : ToSet(usb_devs[x]) \subseteq ToSet(usb_devs'[x])
    BY DEF Others, Sane, Types, ContextTypes
  <2> QED
    BY <2>1, <2>2, <2>3, HotOwnsKept
<1>4. Good(c)'
  BY <1>1, <1>2, <1>3 DEF Good, Sane, Owned, BornOnce
<1>5. \A d \in Devs : d > allocated => Kept(dev', d) = 0
  <2> SUFFICES ASSUME NEW d \in Devs, d > allocated PROVE Kept(dev', d) = 0
    OBVIOUS
  <2>1. d \notin Of(c)
    BY <1>2, DevsFinite DEF Of
  <2> QED
    BY <2>1, Unborn
<1>6. ASSUME NEW d \in 1 .. allocated
      PROVE  /\ Born(d)' \in 0 .. 1 /\ Uses(d)' \in Nat
             /\ Kept(dev', d) = Born(d)' + Uses(d)'
  <2>1. d \in Devs /\ dev[d].ctx \in Contexts /\ dev'[d].ctx = dev[d].ctx
    BY Terms DEF Kin
  <2>2. InNone(d)' = InNone(d)
    BY <2>1, TermsKept
  <2>3. Kept(dev, d) = Born(d) + Uses(d) /\ Born(d) \in 0 .. 1 /\ Uses(d) \in 0 .. 3
    BY Terms
  <2>4. CASE dev[d].ctx = c
    <3>1. d \in Of(c)
      BY <2>4 DEF Of
    <3>2. /\ InList(d) \in 0 .. 1 /\ InAdding(d) \in 0 .. 1 /\ InTelling(d) \in 0 .. 1
          /\ InMessages(d) \in 0 .. 1 /\ InEvent(d) \in 0 .. 1 /\ InNone(d) \in 0 .. 1
          /\ InHandle(d) \in 0 .. 1 /\ InArray(d) \in 0 .. 1 /\ InHand(d) \in 0 .. 1
      BY Terms
    <3>3. Born(d) = BornHere(d) + InAdding(d) + InTelling(d) + InNone(d)
          /\ Uses(d) = UsedHere(d) + InHand(d)
      BY <3>2 DEF Born, BornHere, Uses, UsedHere
    <3>4. BornHere(d) \in Nat /\ UsedHere(d) \in Nat
      BY <3>2 DEF BornHere, UsedHere
    <3>5. /\ InList(d)' \in Int /\ InMessages(d)' \in Int /\ InEvent(d)' \in Int
          /\ InHandle(d)' \in Int /\ InArray(d)' \in Int
      <4>1. InMessages(d)' \in Int
        <5>1. msgs' \in [Contexts -> Seq(Messages)]
          BY DEF Types, DeviceTypes
        <5>2. msgs'[c] \in Seq(Messages)
          BY <5>1
        <5>3. Cardinality(Places(msgs'[c], Message("LEFT", d))) \in Nat
          <6> DEFINE m == Message("LEFT", d)
                     s == msgs'[c]
          <6> HIDE DEF m, s
          <6>1. s \in Seq(Messages)
            BY <5>2 DEF s
          <6>2. Cardinality(Places(s, m)) \in Nat
            BY <6>1, PlacesCounted
          <6> QED
            BY <6>2 DEF m, s
        <5> QED
          BY <2>1, <2>4, <5>3 DEF InMessages
      <4> QED
        BY <4>1 DEF InList, InEvent, InHandle, InArray, One
    <3>6. Born(d)' = BornHere(d)' + InAdding(d) + InTelling(d) + InNone(d)
          /\ Uses(d)' = UsedHere(d)' + InHand(d)
      BY <1>1, <2>2, <3>2, <3>5 DEF Born, BornHere, Uses, UsedHere
    <3>7. /\ BornHere(d)' \in Nat /\ BornHere(d)' <= BornHere(d) /\ UsedHere(d)' \in Nat
          /\ Kept(dev', d) - Kept(dev, d)
               = (BornHere(d)' - BornHere(d)) + (UsedHere(d)' - UsedHere(d))
      BY <3>1
    <3>8. Kept(dev', d) \in Int /\ Kept(dev, d) \in Int
      <4>1. dev'[d].refcnt \in Int
        BY <2>1 DEF Types, DeviceTypes, Device
      <4> QED
        BY <2>1, <2>3, <4>1, KidsCounted DEF Kept
    <3> QED
      BY <2>3, <3>2, <3>3, <3>4, <3>6, <3>7, <3>8
  <2>5. CASE dev[d].ctx # c
    <3>1. /\ InList(d)' = InList(d) /\ InMessages(d)' = InMessages(d) /\ InEvent(d)' = InEvent(d)
          /\ InHandle(d)' = InHandle(d) /\ InArray(d)' = InArray(d)
      BY <2>1, <2>5, TermsKept DEF Others
    <3>2. Born(d)' = Born(d) /\ Uses(d)' = Uses(d)
      BY <1>1, <2>2, <3>1 DEF Born, Uses
    <3>3. Kept(dev', d) = Kept(dev, d)
      BY <2>1, <2>5 DEF Of
    <3> QED
      BY <2>3, <3>2, <3>3
  <2> QED
    BY <2>4, <2>5
<1> QED
  BY <1>1, <1>4, <1>5, <1>6, KinData

(* The handle is opened or closed, the array of devices made or freed.     *)
Using(c, d) == One(handle[c] = d /\ app[c] \notin Opening2) + One(d \in list[c])
Users(c) ==
    /\ UNCHANGED <<usb_devs, msgs, event, unsaid>>
    /\ \A x \in Contexts \ {c} : app'[x] = app[x] /\ handle'[x] = handle[x] /\ list'[x] = list[x]
    /\ app[c] # "gone" /\ app'[c] \notin Opening2
    /\ handle'[c] \in Of(c) \cup {0} /\ list'[c] \subseteq Of(c)
    /\ event[c] # Idle => handle'[c] = handle[c]

LEMMA UsersData ==
    ASSUME Sane, Types', Kin, NEW c \in Contexts, Users(c), HotStill,
           \A d \in Of(c) : Kept(dev', d) - Kept(dev, d) = Using(c, d)' - Using(c, d),
           \A d \in Devs : d \notin Of(c) => Kept(dev', d) = Kept(dev, d)
    PROVE  Data'
<1>1. Grown
  BY KinGrown DEF Sane
<1>2. Others(c) /\ unsaid' = unsaid /\ usb_devs' = usb_devs /\ msgs' = msgs /\ event' = event
  BY DEF Users, Others
<1>3. Owns(c)'
  <2>1. Owns(c)
    BY DEF Sane, Owned
  <2>2. Of(c) \subseteq Of(c)'
    BY <1>1, OfGrown DEF Sane
  <2>3. event[c].event = "lost" => event[c] # Idle
    BY DEF Idle, Message
  <2> QED
    BY <1>2, <2>1, <2>2, <2>3 DEF Owns, Users
<1>4. Lasts(c)'
  <2>1. \A d \in Of(c) :
           /\ d \in ToSet(usb_devs[c]) => d \in ToSet(usb_devs'[c])
                                          \/ (hot'.pc = "tell" /\ hot'.dev = d)
           /\ hot.pc = "tell" /\ hot.dev = d => hot'.pc = "tell" /\ hot'.dev = d
    BY <1>2, StillHot
  <2> QED
    BY <1>1, <1>2, <2>1, LastsKept DEF Users, Opening2
<1>5. Distinct(usb_devs'[c])
  BY <1>2 DEF Sane, BornOnce
<1>6. ASSUME NEW d \in Of(c)
      PROVE  /\ BornHere(d)' \in Nat /\ BornHere(d)' <= BornHere(d) /\ UsedHere(d)' \in Nat
             /\ Kept(dev', d) - Kept(dev, d)
                  = (BornHere(d)' - BornHere(d)) + (UsedHere(d)' - UsedHere(d))
  <2>1. d \in 1 .. allocated /\ dev[d].ctx = c
    BY DEF Of
  <2>2. dev'[d].ctx = c /\ dev'[d].ctx = dev[d].ctx
    BY <2>1, Terms DEF Kin
  <2>3. BornHere(d)' = BornHere(d)
    BY <1>2, <2>2, TermsKept DEF BornHere
  <2>4. BornHere(d) \in Nat
    BY <2>1, Terms DEF BornHere
  <2>5. UsedHere(d) = Using(c, d) /\ Using(c, d) \in Nat
    BY <2>1 DEF UsedHere, Using, InHandle, InArray, Opening2, One
  <2>6. UsedHere(d)' = Using(c, d)' /\ Using(c, d)' \in Nat
    BY <2>2 DEF UsedHere, Using, InHandle, InArray, Opening2, One
  <2> QED
    BY <2>3, <2>4, <2>5, <2>6
<1> QED
  BY <1>2, <1>3, <1>4, <1>5, <1>6, ContextData

LEMMA RaiseUsers ==
    ASSUME Sane, Types', NEW c \in Contexts, Users(c), HotStill, NEW S, S \subseteq Of(c),
           \A d \in S : Born(d) + Uses(d) >= 1,
           dev' = RefAll(dev, S), allocated' = allocated,
           \A d \in Of(c) : Using(c, d)' = Using(c, d) + One(d \in S)
    PROVE  Data'
<1>1. S \subseteq 1 .. allocated /\ \A d \in S : Kept(dev, d) >= 1
  BY Terms DEF Of
<1>2. Kin /\ \A d \in Devs : Kept(dev', d) = Kept(dev, d) + One(d \in S)
  BY <1>1, RaiseKept
<1>3. \A d \in Devs : Kept(dev, d) \in Int
  BY KeptNat
<1>4. \A d \in Of(c) : d \in Devs /\ Using(c, d) \in Int
  BY AllocatedAre DEF Using, One, Sane
<1>5. \A d \in Of(c) : Kept(dev', d) - Kept(dev, d) = Using(c, d)' - Using(c, d)
  BY <1>2, <1>3, <1>4 DEF One
<1>6. \A d \in Devs : d \notin Of(c) => Kept(dev', d) = Kept(dev, d)
  BY <1>2, <1>3 DEF One
<1> QED
  BY <1>2, <1>5, <1>6, UsersData

LEMMA DropUsers ==
    ASSUME Sane, Types', NEW c \in Contexts, Users(c), HotStill, NEW S, S \subseteq Of(c),
           \A d \in S : Born(d) + Uses(d) >= 1,
           dev' = UnrefAll(dev, S), allocated' = allocated,
           \A d \in Of(c) : Using(c, d)' = Using(c, d) - One(d \in S)
    PROVE  Data'
<1>1. S \subseteq 1 .. allocated /\ \A d \in S : Kept(dev, d) >= 1
  BY Terms DEF Of
<1>2. Kin /\ \A d \in Devs : Kept(dev', d) = Kept(dev, d) - One(d \in S)
  BY <1>1, DropKept
<1>3. \A d \in Devs : Kept(dev, d) \in Int
  BY KeptNat
<1>4. \A d \in Of(c) : d \in Devs /\ Using(c, d) \in Int
  BY AllocatedAre DEF Using, One, Sane
<1>5. \A d \in Of(c) : Kept(dev', d) - Kept(dev, d) = Using(c, d)' - Using(c, d)
  BY <1>2, <1>3, <1>4 DEF One
<1>6. \A d \in Devs : d \notin Of(c) => Kept(dev', d) = Kept(dev, d)
  BY <1>2, <1>3 DEF One
<1> QED
  BY <1>2, <1>5, <1>6, UsersData

LEMMA IdleUnless ==
    ASSUME Sane, NEW c \in Contexts
    PROVE  /\ app[c] # "open" => event[c] = Idle
           /\ app[c] \notin Holding => handle[c] = 0
           /\ app[c] \in Unlisted => list[c] = {}
           /\ c \in active => app[c] \notin Inactive
  BY DEF Sane, Placed, Settled

(* The handle is dropped.                                                  *)
LEMMA HandleDropped ==
    ASSUME Sane, Types', NEW c \in Contexts, app[c] \in {"opening", "no_device", "open"},
           event[c] = Idle, NEW l, l \notin Opening2, GoTo(c, l),
           dev' = Unref(dev, handle[c]), handle' = [handle EXCEPT ![c] = 0], HotStill,
           UNCHANGED <<event, usb_devs, msgs, list, unsaid, allocated>>
    PROVE  Data'
<1> DEFINE h == handle[c]
<1>1. h \in Devs /\ h \in 1 .. allocated /\ dev[h].ctx = c
  BY HandleTyped DEF Holding
<1>2. h \in Of(c) /\ 0 \notin Of(c)
  BY <1>1 DEF Of
<1>3. /\ app'[c] = l /\ handle'[c] = 0 /\ list'[c] = list[c]
      /\ \A x \in Contexts \ {c} : app'[x] = app[x] /\ handle'[x] = handle[x] /\ list'[x] = list[x]
  BY DEF GoTo, Sane, Types, ContextTypes
<1>4. Users(c)
  BY <1>3 DEF Users, Sane, Owned, Owns
<1>5. \A d \in Of(c) : Using(c, d)' = Using(c, d) - One(d \in {h})
  BY <1>2, <1>3 DEF Using, One, Opening2
<1>6. dev' = UnrefAll(dev, {h})
  BY DEF Unref
<1>7. Born(h) + Uses(h) >= 1
  <2>1. InHandle(h) = 1
    BY <1>1 DEF InHandle, One
  <2>2. Uses(h) >= 1
    BY <1>1, <2>1, Terms DEF Uses
  <2> HIDE DEF h
  <2> QED
    BY <1>1, <2>2, Terms
<1> DEFINE S == {h}
<1>8. S \subseteq Of(c) /\ dev' = UnrefAll(dev, S)
      /\ (\A d \in S : Born(d) + Uses(d) >= 1)
      /\ \A d \in Of(c) : Using(c, d)' = Using(c, d) - One(d \in S)
  BY <1>2, <1>5, <1>6, <1>7
<1> HIDE DEF S
<1> QED
  BY <1>4, <1>8, DropUsers

LEMMA OpOpenData ==
    ASSUME Sane, Types', NEW c \in Contexts, OpOpen(c)
    PROVE  Data'
<1>1. app[c] = "opening"
  BY DEF OpOpen, At
<1>2. event[c] = Idle /\ HotStill
  BY <1>1, IdleUnless DEF OpOpen, HotStill
<1>3. CASE UNCHANGED <<handle, dev>> /\ GoTo(c, "free_open")
  <2>1. Quiet
    BY <1>1, <1>2, <1>3 DEF OpOpen, Quiet, GoTo, Opening2, Sane, Types, ContextTypes
  <2> QED
    BY <2>1, QuietStep
<1>4. CASE handle' = [handle EXCEPT ![c] = 0] /\ dev' = Unref(dev, handle[c]) /\ GoTo(c, "free_failed")
  BY <1>1, <1>2, <1>4, HandleDropped DEF OpOpen, Opening2
<1> QED
  BY <1>3, <1>4 DEF OpOpen

LEMMA NoDeviceLeavesData ==
    ASSUME Sane, Types', NEW c \in Contexts, NoDeviceLeaves(c)
    PROVE  Data'
<1>1. app[c] = "no_device" /\ GoTo(c, "free_failed")
  BY DEF NoDeviceLeaves, At
<1>2. event[c] = Idle
  BY <1>1, IdleUnless
<1>3. HotStill
  BY UnlockedTyped DEF NoDeviceLeaves, Leave, HotStill, Between
<1> QED
  BY <1>1, <1>2, <1>3, HandleDropped DEF NoDeviceLeaves, Opening2

LEMMA CloseData ==
    ASSUME Sane, Types', NEW c \in Contexts, Close(c)
    PROVE  Data'
<1>1. app[c] = "open" /\ event[c] = Idle /\ GoTo(c, "exit_default") /\ HotStill
  BY DEF Close, At, HotStill
<1> QED
  BY <1>1, HandleDropped DEF Close, Opening2

LEMMA Open2Data ==
    ASSUME Sane, Types', NEW c \in Contexts, Open2(c)
    PROVE  Data'
<1> DEFINE h == handle[c]
           S == {h}
<1>1. app[c] = "open2" /\ GoTo(c, "open") /\ dev' = Ref(dev, h)
      /\ UNCHANGED <<event, handle, usb_devs, msgs, list, unsaid, allocated, hot>>
  BY DEF Open2, At
<1>2. h \in Devs /\ h \in 1 .. allocated /\ dev[h].ctx = c
  BY <1>1, HandleTyped DEF Holding
<1>3. h \in Of(c)
  BY <1>2 DEF Of
<1>4. Born(h) + Uses(h) >= 1
  <2>1. Leaves(h, 0)
    BY <1>1 DEF Sane, Lasting, Lasts
  <2> HIDE DEF h
  <2>2. Born(h) = 1
    BY <1>3, <2>1, StaysBorn
  <2> QED
    BY <1>2, <2>2, Terms
<1>5. app'[c] = "open" /\ \A x \in Contexts \ {c} : app'[x] = app[x]
  BY <1>1 DEF Sane, Types, ContextTypes, GoTo
<1>6. Users(c) /\ HotStill
  BY <1>1, <1>5 DEF Users, HotStill, Opening2, Sane, Owned, Owns
<1>7. \A d \in Of(c) : Using(c, d)' = Using(c, d) + One(d \in S)
  BY <1>1, <1>5 DEF Using, One, Opening2
<1>8. dev' = RefAll(dev, S)
  BY <1>1, RaiseOne DEF Sane, Types, DeviceTypes
<1>9. S \subseteq Of(c) /\ \A d \in S : Born(d) + Uses(d) >= 1
  BY <1>3, <1>4
<1> HIDE DEF S
<1> QED
  BY <1>1, <1>6, <1>7, <1>8, <1>9, RaiseUsers

LEMMA GetDeviceListData ==
    ASSUME Sane, Types', NEW c \in Contexts, GetDeviceList(c)
    PROVE  Data'
<1> DEFINE S == ToSet(usb_devs[c])
<1>1. app[c] = "list" /\ GoTo(c, "listed") /\ list' = [list EXCEPT ![c] = S]
      /\ dev' = RefAll(dev, S)
      /\ UNCHANGED <<event, handle, usb_devs, msgs, unsaid, allocated, hot>>
  BY DEF GetDeviceList, At
<1>2. list[c] = {} /\ event[c] = Idle
  BY <1>1, IdleUnless DEF Unlisted
<1>3. /\ app'[c] = "listed" /\ list'[c] = S
      /\ \A x \in Contexts \ {c} : app'[x] = app[x] /\ list'[x] = list[x]
  BY <1>1 DEF Sane, Types, ContextTypes, DeviceTypes, GoTo
<1>4. S \subseteq Of(c)
  BY DEF Sane, Owned, Owns
<1>5. Users(c) /\ HotStill
  BY <1>1, <1>3, <1>4 DEF Users, HotStill, Opening2, Sane, Owned, Owns
<1>6. \A d \in Of(c) : Using(c, d)' = Using(c, d) + One(d \in S)
  BY <1>1, <1>2, <1>3 DEF Using, One, Opening2
<1>7. \A d \in S : Born(d) + Uses(d) >= 1
  BY ListedBorn, Terms
<1> HIDE DEF S
<1> QED
  BY <1>1, <1>4, <1>5, <1>6, <1>7, RaiseUsers

LEMMA FreeDeviceListData ==
    ASSUME Sane, Types', NEW c \in Contexts, FreeDeviceList(c)
    PROVE  Data'
<1> DEFINE S == list[c]
<1>1. app[c] \in {"free_open", "free_failed"} /\ list' = [list EXCEPT ![c] = {}]
      /\ dev' = UnrefAll(dev, S)
      /\ UNCHANGED <<event, handle, usb_devs, msgs, unsaid, allocated, hot>>
  BY DEF FreeDeviceList
<1>2. PICK l \in {"open", "exit_default"} : GoTo(c, l)
  BY DEF FreeDeviceList
<1>3. /\ app'[c] = l /\ list'[c] = {}
      /\ \A x \in Contexts \ {c} : app'[x] = app[x] /\ list'[x] = list[x]
  BY <1>1, <1>2 DEF Sane, Types, ContextTypes, DeviceTypes, GoTo
<1>4. S \subseteq Of(c)
  BY DEF Sane, Owned, Owns
<1>5. Users(c) /\ HotStill
  BY <1>1, <1>2, <1>3 DEF Users, HotStill, Opening2, Sane, Owned, Owns
<1>6. \A d \in Of(c) : Using(c, d)' = Using(c, d) - One(d \in S)
  BY <1>1, <1>2, <1>3 DEF Using, One, Opening2
<1>7. ASSUME NEW d \in S PROVE Born(d) + Uses(d) >= 1
  <2>1. d \in 1 .. allocated /\ dev[d].ctx = c
    BY <1>4 DEF Of
  <2>2. InArray(d) = 1
    BY <2>1 DEF InArray, One
  <2> QED
    BY <2>1, <2>2, Terms DEF Uses
<1> HIDE DEF S
<1> QED
  BY <1>1, <1>4, <1>5, <1>6, <1>7, DropUsers

LEMMA OpenListedData ==
    ASSUME Sane, Types', NEW c \in Contexts, OpenListed(c)
    PROVE  Data'
<1>1. app[c] = "listed" /\ UNCHANGED <<event, usb_devs, msgs, list, unsaid, allocated, hot>>
  BY DEF OpenListed, At
<1>2. event[c] = Idle /\ handle[c] = 0 /\ HotStill
  BY <1>1, IdleUnless DEF Holding, HotStill
<1>3. ASSUME NEW l \in {"exit_default", "free_failed"}, GoTo(c, l), UNCHANGED <<handle, dev>>
      PROVE  Data'
  <2>1. Quiet
    BY <1>1, <1>2, <1>3 DEF Quiet, GoTo, Opening2, Sane, Types, ContextTypes
  <2> QED
    BY <2>1, QuietStep
<1>4. ASSUME NEW d \in list[c], handle' = [handle EXCEPT ![c] = d], dev' = Ref(dev, d),
             GoTo(c, "opening")
      PROVE  Data'
  <2> DEFINE S == {d}
  <2>1. d \in Of(c) /\ d \in 1 .. allocated /\ dev[d].ctx = c /\ d # 0
    BY DEF Sane, Owned, Owns, Of
  <2>2. /\ app'[c] = "opening" /\ handle'[c] = d /\ list' = list
        /\ \A x \in Contexts \ {c} : app'[x] = app[x] /\ handle'[x] = handle[x]
    BY <1>1, <1>4 DEF Sane, Types, ContextTypes, GoTo
  <2>3. Users(c)
    BY <1>1, <1>2, <2>1, <2>2 DEF Users, Opening2, Sane, Owned, Owns
  <2>4. \A e \in Of(c) : Using(c, e)' = Using(c, e) + One(e \in S)
    <3>1. 0 \notin Of(c)
      BY DEF Of
    <3> QED
      BY <1>1, <1>2, <2>2, <3>1 DEF Using, One, Opening2
  <2>5. dev' = RefAll(dev, S)
    BY <1>4, RaiseOne DEF Sane, Types, DeviceTypes
  <2>6. Born(d) + Uses(d) >= 1
    <3>1. InArray(d) = 1
      BY <2>1 DEF InArray, One
    <3> QED
      BY <2>1, <3>1, Terms DEF Uses
  <2>7. S \subseteq Of(c) /\ \A e \in S : Born(e) + Uses(e) >= 1
    BY <2>1, <2>6
  <2> HIDE DEF S
  <2> QED
    BY <1>1, <1>2, <2>3, <2>4, <2>5, <2>7, RaiseUsers
<1> QED
  BY <1>3, <1>4 DEF OpenListed

LEMMA Device2ArrivesData ==
    ASSUME Sane, Types', NEW c \in Contexts, Device2Arrives(c)
    PROVE  Data'
<1> DEFINE h == handle[c]
<1>1. app[c] = "arrived" /\ GoTo(c, "open2") /\ usbi_hotplug_notification(c, h, "ARRIVED")
      /\ UNCHANGED <<event, handle, usb_devs, list, dev, allocated, hot>>
  BY DEF Device2Arrives, At
<1>2. h \in Of(c)
  BY <1>1, HandleTyped DEF Holding, Of
<1>3. ~dev[h].enumerated
  BY <1>1 DEF Sane, Lasting, Lasts
<1>4. app'[c] = "open2" /\ \A x \in Contexts \ {c} : app'[x] = app[x]
  BY <1>1 DEF Sane, Types, ContextTypes, GoTo
<1>5. /\ Owns(c)' /\ (app'[c] # "gone" => Lasts(c)') /\ unsaid' = unsaid
      /\ \A x \in Contexts \ {c} : msgs'[x] = msgs[x]
      /\ \A d \in 1 .. allocated : InMessages(d)' = InMessages(d)
  <2> HIDE DEF h
  <2> QED
    BY <1>1, <1>2, <1>3, <1>4, Announced
<1>6. Kin /\ Others(c) /\ HotStill /\ \A d : Kept(dev', d) = Kept(dev, d)
  BY <1>1, <1>4, <1>5 DEF Kin, Others, HotStill
<1>7. ASSUME NEW d \in Of(c)
      PROVE  /\ BornHere(d)' \in Nat /\ BornHere(d)' <= BornHere(d) /\ UsedHere(d)' \in Nat
             /\ Kept(dev', d) - Kept(dev, d)
                  = (BornHere(d)' - BornHere(d)) + (UsedHere(d)' - UsedHere(d))
  <2>1. d \in 1 .. allocated /\ dev[d].ctx = c /\ d \in Devs
    BY AllocatedAre DEF Of, Sane
  <2>2. /\ InMessages(d)' = InMessages(d) /\ InList(d)' = InList(d) /\ InEvent(d)' = InEvent(d)
        /\ InArray(d)' = InArray(d)
    BY <1>1, <1>5, <2>1, TermsKept
  <2>3. InHandle(d)' = InHandle(d)
    BY <1>1, <1>4, <2>1 DEF InHandle, One
  <2>4. BornHere(d) \in Nat /\ UsedHere(d) \in Nat
    BY <2>1, Terms DEF BornHere, UsedHere
  <2>5. BornHere(d)' = BornHere(d) /\ UsedHere(d)' = UsedHere(d)
    BY <2>2, <2>3 DEF BornHere, UsedHere
  <2>6. Kept(dev, d) \in Int
    BY <2>1, KeptNat
  <2> QED
    BY <1>6, <2>4, <2>5, <2>6
<1>8. ToSet(usb_devs[c]) \subseteq ToSet(usb_devs'[c]) /\ Distinct(usb_devs'[c])
  BY <1>1 DEF Sane, BornOnce
<1> QED
  BY <1>5, <1>6, <1>7, <1>8, ContextData

(* A message passes to the event thread, with the reference it holds.      *)
LEMMA TakeMessageData ==
    ASSUME Sane, Types', NEW c \in Contexts, TakeMessage(c)
    PROVE  Data'
<1> DEFINE s == msgs[c]
<1>1. /\ app[c] = "open" /\ event[c] = Idle /\ s # <<>>
      /\ event' = [event EXCEPT ![c] = Head(s)] /\ msgs' = [msgs EXCEPT ![c] = Tail(s)]
      /\ UNCHANGED <<app, handle, usb_devs, list, dev, allocated, unsaid, hot>>
  BY DEF TakeMessage, At
<1>2. s \in Seq(Messages)
  BY DEF Sane, Types, DeviceTypes
<1>3. /\ event'[c] = Head(s) /\ msgs'[c] = Tail(s)
      /\ \A x \in Contexts \ {c} : event'[x] = event[x] /\ msgs'[x] = msgs[x]
  BY <1>1 DEF Sane, Types, ContextTypes, DeviceTypes
<1>4. /\ Tail(s) \in Seq(Messages) /\ Head(s) \in ToSet(s)
      /\ Len(Tail(s)) = Len(s) - 1 /\ Len(s) \in Nat \ {0} /\ Head(s) = s[1]
      /\ \A i \in 1 .. Len(s) - 1 : Tail(s)[i] = s[i + 1]
      /\ ToSet(Tail(s)) \subseteq ToSet(s)
      /\ DOMAIN s = 1 .. Len(s) /\ DOMAIN Tail(s) = 1 .. Len(s) - 1
  <2>1. s # <<>>
    BY <1>1
  <2> HIDE DEF s
  <2>2. /\ Tail(s) \in Seq(Messages) /\ Head(s) \in ToSet(s)
        /\ Len(Tail(s)) = Len(s) - 1 /\ Len(s) \in Nat \ {0} /\ Head(s) = s[1]
        /\ \A i \in 1 .. Len(s) - 1 : Tail(s)[i] = s[i + 1]
        /\ ToSet(Tail(s)) \subseteq ToSet(s)
    BY <1>2, <2>1, DropFront
  <2>3. DOMAIN s = 1 .. Len(s) /\ DOMAIN Tail(s) = 1 .. Len(Tail(s))
    BY <1>2, <2>2, ElementsOf
  <2> QED
    BY <2>2, <2>3
<1>5. ASSUME NEW m
      PROVE  Cardinality(Places(s, m)) = Cardinality(Places(Tail(s), m)) + One(Head(s) = m)
  <2>1. s # <<>>
    BY <1>1
  <2> HIDE DEF s
  <2> QED
    BY <1>2, <2>1, PlacesTail
<1> HIDE DEF s
<1>6. Kin /\ Others(c) /\ HotStill /\ \A d : Kept(dev', d) = Kept(dev, d)
  BY <1>1, <1>3 DEF Kin, Others, HotStill
<1>7. ASSUME NEW d \in Of(c)
      PROVE  /\ BornHere(d)' \in Nat /\ BornHere(d)' <= BornHere(d) /\ UsedHere(d)' \in Nat
             /\ Kept(dev', d) - Kept(dev, d)
                  = (BornHere(d)' - BornHere(d)) + (UsedHere(d)' - UsedHere(d))
  <2>1. d \in 1 .. allocated /\ dev[d].ctx = c /\ d \in Devs
    BY AllocatedAre DEF Of, Sane
  <2>2. /\ InList(d)' = InList(d) /\ InArray(d)' = InArray(d) /\ InHandle(d)' = InHandle(d)
    BY <1>1, <2>1, TermsKept
  <2> DEFINE m == Message("LEFT", d)
  <2>3. InMessages(d) = Cardinality(Places(s, m)) /\ InMessages(d)' = Cardinality(Places(Tail(s), m))
    BY <1>1, <1>3, <2>1 DEF InMessages, s
  <2>4. InEvent(d) = 0 /\ InEvent(d)' = One(Head(s) = m)
    BY <1>1, <1>3, <2>1 DEF InEvent, One, Idle, Message
  <2>5. Cardinality(Places(Tail(s), m)) \in Nat /\ One(Head(s) = m) \in Nat
    <3> HIDE DEF m
    <3> DEFINE r == Tail(s)
    <3>1. r \in Seq(Messages)
      BY <1>4
    <3> HIDE DEF r
    <3>2. Cardinality(Places(r, m)) \in Nat
      BY <3>1, PlacesCounted
    <3> QED
      BY <3>2, OneIs DEF r
  <2>6. InMessages(d)' + InEvent(d)' = InMessages(d) + InEvent(d)
    <3> HIDE DEF m
    <3> QED
      BY <1>5, <2>3, <2>4, <2>5
  <2>7. /\ InList(d) \in Nat /\ InMessages(d) \in Nat /\ InEvent(d) \in Nat
        /\ InHandle(d) \in Nat /\ InArray(d) \in Nat
    BY <2>1, Terms
  <2> HIDE DEF m
  <2>8. InMessages(d)' \in Nat /\ InEvent(d)' \in Nat
    BY <2>3, <2>4, <2>5
  <2>9. BornHere(d)' = BornHere(d) /\ UsedHere(d)' = UsedHere(d)
        /\ BornHere(d) \in Nat /\ UsedHere(d) \in Nat
    BY <2>2, <2>6, <2>7, <2>8 DEF BornHere, UsedHere
  <2>10. Kept(dev, d) \in Int
    BY <2>1, KeptNat
  <2> QED
    BY <1>6, <2>9, <2>10
<1>8. Owns(c)'
  <2>1. Owns(c) /\ Of(c)' = Of(c)
    BY <1>1 DEF Sane, Owned, Of
  <2>2. /\ ToSet(usb_devs'[c]) \subseteq Of(c) /\ list'[c] \subseteq Of(c)
        /\ handle'[c] \in Of(c) \cup {0}
    BY <1>1, <2>1 DEF Owns
  <2>3. \A m \in ToSet(s) : m.event \in {"ARRIVED", "LEFT"} /\ m.dev \in Of(c)
    BY <2>1 DEF Owns, s
  <2>4. event'[c].event \in {"ARRIVED", "LEFT"} /\ event'[c].dev \in Of(c)
    BY <1>3, <1>4, <2>3
  <2>5. \A m \in ToSet(msgs'[c]) : m.event \in {"ARRIVED", "LEFT"} /\ m.dev \in Of(c)
    BY <1>3, <1>4, <2>3
  <2> QED
    BY <2>1, <2>2, <2>4, <2>5 DEF Owns
<1>9. Lasts(c)'
  <2>1. Lasts(c)
    BY <1>1 DEF Sane, Lasting
  <2>2. ASSUME NEW d \in Of(c), NEW i \in Nat, Leaves(d, i + 1) PROVE Leaves(d, i)'
    <3>1. dev[d].ctx = c /\ dev'[d].ctx = c
      BY <1>1 DEF Of
    <3>2. CASE \E j \in DOMAIN s : j > i + 1 /\ s[j] = Message("LEFT", d)
      <4>1. PICK j \in DOMAIN s : j > i + 1 /\ s[j] = Message("LEFT", d)
        BY <3>2
      <4>2. j - 1 \in DOMAIN Tail(s) /\ j - 1 > i /\ Tail(s)[j - 1] = s[j]
        BY <1>4, <4>1
      <4> QED
        BY <1>3, <3>1, <4>1, <4>2 DEF Leaves, Message
    <3> QED
      BY <1>1, <2>2, <3>1, <3>2 DEF Leaves, s
  <2>3. \A m \in ToSet(s) : m.dev \in Of(c)
    BY DEF s, Sane, Owned, Owns
  <2>4. ASSUME NEW i \in DOMAIN msgs'[c], NEW e, e = msgs'[c][i].dev,
               msgs'[c][i].event = "ARRIVED", dev'[e].enumerated
        PROVE  e \in Of(c) /\ Leaves(e, i)'
    <3>1. i \in Nat /\ i + 1 \in DOMAIN s /\ msgs'[c][i] = s[i + 1]
      BY <1>3, <1>4
    <3>2. e \in Of(c)
      BY <2>3, <2>4, <3>1 DEF ToSet
    <3>3. Leaves(e, i + 1)
      BY <1>1, <2>1, <2>4, <3>1 DEF Lasts, s
    <3> QED
      BY <2>2, <3>1, <3>2, <3>3
  <2>5. ASSUME NEW e, e = event'[c].dev, event'[c].event = "ARRIVED", dev'[e].enumerated
        PROVE  e \in Of(c) /\ Leaves(e, 0)'
    <3>1. 0 + 1 \in DOMAIN s /\ event'[c] = s[0 + 1] /\ s[0 + 1] = s[1]
      BY <1>3, <1>4
    <3>2. e \in Of(c)
      BY <2>3, <2>5, <3>1 DEF ToSet
    <3>3. Leaves(e, 0 + 1)
      BY <1>1, <2>1, <2>5, <3>1 DEF Lasts, s
    <3> QED
      BY <2>2, <3>2, <3>3
  <2> QED
    BY <1>1, <2>4, <2>5 DEF Lasts
<1>10. ToSet(usb_devs[c]) \subseteq ToSet(usb_devs'[c]) /\ Distinct(usb_devs'[c])
  BY <1>1 DEF Sane, BornOnce
<1> QED
  BY <1>1, <1>6, <1>7, <1>8, <1>9, <1>10, ContextData

(* The message that a device left is handled: its reference is dropped.    *)
LEMMA MatchData ==
    ASSUME Sane, Types', NEW c \in Contexts, Match(c)
    PROVE  Data'
<1> DEFINE x == event[c].dev
           S == IF event[c].event = "LEFT" THEN {x} ELSE {}
<1>1. /\ event[c].event \in {"ARRIVED", "LEFT"} /\ event' = [event EXCEPT ![c] = Idle]
      /\ UNCHANGED <<app, handle, usb_devs, msgs, list, allocated, unsaid, hot>>
  BY DEF Match
<1>2. event[c] # Idle /\ app[c] = "open" /\ event[c] \in Messages
  BY <1>1, IdleUnless DEF Idle, Message, Sane, Types, ContextTypes
<1>3. x \in Of(c) /\ x \in 1 .. allocated /\ dev[x].ctx = c /\ x \in Devs
  BY <1>2, AllocatedAre DEF Sane, Owned, Owns, Of
<1>4. /\ event'[c] = Idle /\ Idle.event = "idle"
      /\ \A y \in Contexts \ {c} : event'[y] = event[y]
  BY <1>1 DEF Sane, Types, ContextTypes, Idle, Message
<1>5. event[c] = Message(event[c].event, x)
  BY <1>2 DEF Messages, Message
<1>6. ASSUME NEW d \in Of(c) PROVE InEvent(d) = One(d \in S) /\ InEvent(d)' = 0
  <2>1. dev[d].ctx = c
    BY DEF Of
  <2>2. dev'[d].ctx = c
    <3>1. Kin
      <4>1. CASE UNCHANGED dev
        BY <1>1, <4>1 DEF Kin
      <4>2. CASE dev' = Unref(dev, x)
        <5> HIDE DEF x
        <5>1. dev \in [Devs -> Device]
          BY DEF Sane, Types, DeviceTypes
        <5>2. \A e \in Devs : Same(Unref(dev, x)[e], dev[e])
          BY <5>1, DropTyped DEF Unref
        <5> QED
          BY <1>1, <4>2, <5>2 DEF Kin, Same
      <4> QED
        BY <4>1, <4>2 DEF Match, Matched
    <3> QED
      BY <2>1, <3>1, AllocatedAre DEF Kin, Of, Sane
  <2>3. event[c] = Message("LEFT", d) <=> d \in S
    BY <1>1, <1>5 DEF Message
  <2>4. Idle # Message("LEFT", d)
    BY DEF Idle, Message
  <2> QED
    BY <1>4, <2>1, <2>2, <2>3, <2>4 DEF InEvent, One
<1>7. S \subseteq Of(c) /\ S \subseteq 1 .. allocated
  BY <1>3
<1>8. ASSUME NEW d \in S PROVE Kept(dev, d) >= 1
  <2>1. InEvent(d) = 1
    BY <1>6, <1>7 DEF One
  <2> QED
    BY <1>7, <2>1, Terms DEF Born
<1>9. Kin /\ \A d \in Devs : Kept(dev', d) = Kept(dev, d) - One(d \in S)
  <2>1. CASE event[c].event = "LEFT"
    <3>1. dev' = UnrefAll(dev, S)
      BY <2>1 DEF Match, Matched, Unref
    <3> HIDE DEF S
    <3> QED
      BY <1>1, <1>7, <1>8, <3>1, DropKept
  <2>2. CASE event[c].event # "LEFT"
    <3>1. dev' = dev
      BY <2>2 DEF Match, Matched
    <3>2. \A d \in Devs : Kept(dev, d) \in Nat
      BY KeptNat
    <3> QED
      BY <1>1, <2>2, <3>1, <3>2 DEF Kin, One
  <2> QED
    BY <2>1, <2>2
<1> HIDE DEF S, x
<1>10. ASSUME NEW d \in Of(c)
       PROVE  /\ BornHere(d)' \in Nat /\ BornHere(d)' <= BornHere(d) /\ UsedHere(d)' \in Nat
              /\ Kept(dev', d) - Kept(dev, d)
                   = (BornHere(d)' - BornHere(d)) + (UsedHere(d)' - UsedHere(d))
  <2>1. d \in 1 .. allocated /\ dev[d].ctx = c /\ d \in Devs
    BY AllocatedAre DEF Of, Sane
  <2>2. dev'[d].ctx = dev[d].ctx
    BY <1>9, <2>1 DEF Kin
  <2>3. /\ InList(d)' = InList(d) /\ InArray(d)' = InArray(d) /\ InHandle(d)' = InHandle(d)
        /\ InMessages(d)' = InMessages(d)
    BY <1>1, <2>2, TermsKept
  <2>4. InEvent(d) = One(d \in S) /\ InEvent(d)' = 0 /\ One(d \in S) \in Nat
    BY <1>6, OneIs
  <2>5. /\ InList(d) \in Nat /\ InMessages(d) \in Nat /\ InEvent(d) \in Nat
        /\ InHandle(d) \in Nat /\ InArray(d) \in Nat
    BY <2>1, Terms
  <2>6. /\ BornHere(d)' = BornHere(d) - One(d \in S) /\ UsedHere(d)' = UsedHere(d)
        /\ BornHere(d)' \in Nat /\ BornHere(d) \in Nat /\ UsedHere(d) \in Nat
    BY <2>3, <2>4, <2>5 DEF BornHere, UsedHere
  <2>7. Kept(dev, d) \in Int /\ Kept(dev', d) = Kept(dev, d) - One(d \in S)
    BY <1>9, <2>1, KeptNat
  <2> QED
    BY <2>4, <2>6, <2>7
<1>11. \A d \in Devs : d \notin Of(c) => Kept(dev', d) = Kept(dev, d)
  <2> SUFFICES ASSUME NEW d \in Devs, d \notin Of(c) PROVE Kept(dev', d) = Kept(dev, d)
    OBVIOUS
  <2>1. Kept(dev, d) \in Nat
    BY KeptNat
  <2>2. One(d \in S) = 0
    BY <1>7 DEF One
  <2>3. Kept(dev', d) = Kept(dev, d) - One(d \in S)
    BY <1>9
  <2> QED
    BY <2>1, <2>2, <2>3
<1>12. Grown /\ Others(c) /\ HotStill
  BY <1>1, <1>4, <1>9, KinGrown DEF Others, HotStill, Sane
<1>13. Owns(c)'
  BY <1>1, <1>4, <1>12, OwnsKept
<1>14. Lasts(c)'
  <2>1. \A d \in Of(c) :
           /\ d \in ToSet(usb_devs[c]) => d \in ToSet(usb_devs'[c])
                                          \/ (hot'.pc = "tell" /\ hot'.dev = d)
           /\ hot.pc = "tell" /\ hot.dev = d => hot'.pc = "tell" /\ hot'.dev = d
    BY <1>1
  <2> QED
    BY <1>1, <1>2, <1>4, <1>12, <2>1, LastsKept
<1>15. ToSet(usb_devs[c]) \subseteq ToSet(usb_devs'[c]) /\ Distinct(usb_devs'[c])
  BY <1>1 DEF Sane, BornOnce
<1> QED
  BY <1>1, <1>9, <1>10, <1>11, <1>12, <1>13, <1>14, <1>15, ContextData

(* libusb_init is undone: the devices on the list are dropped.             *)
LEMMA UndoContextData ==
    ASSUME Sane, Types', NEW c \in Contexts, UndoContext(c)
    PROVE  Data'
<1> DEFINE S == ToSet(usb_devs[c])
<1>1. /\ app[c] = "undo_context" /\ GoTo(c, "gone") /\ dev' = UnrefAll(dev, S)
      /\ usb_devs' = [usb_devs EXCEPT ![c] = <<>>]
      /\ UNCHANGED <<event, handle, msgs, list, allocated, unsaid, hot>>
  BY DEF UndoContext, At
<1>2. hot.pc \in Between
  <2>1. hot \in Holder
    BY DEF Sane, Types, HotTypes
  <2> QED
    BY <2>1 DEF UndoContext, ActiveLocked, Between
<1>3. event[c] = Idle /\ handle[c] = 0
  BY <1>1, IdleUnless DEF Holding
<1>4. /\ app'[c] = "gone" /\ usb_devs'[c] = <<>>
      /\ \A x \in Contexts \ {c} : app'[x] = app[x] /\ usb_devs'[x] = usb_devs[x]
  BY <1>1 DEF Sane, Types, ContextTypes, DeviceTypes, GoTo
<1>5. S \subseteq Of(c) /\ S \subseteq 1 .. allocated
  BY DEF Sane, Owned, Owns, Of
<1>6. \A d \in S : Kept(dev, d) >= 1
  <2> SUFFICES ASSUME NEW d \in S PROVE Kept(dev, d) >= 1
    OBVIOUS
  <2>1. d \in 1 .. allocated /\ Born(d) = 1
    BY ListedBorn
  <2> HIDE DEF S
  <2> QED
    BY <2>1, Terms
<1>7. Kin /\ \A d \in Devs : Kept(dev', d) = Kept(dev, d) - One(d \in S)
  <2> HIDE DEF S
  <2> QED
    BY <1>1, <1>5, <1>6, DropKept
<1>8. ASSUME NEW d \in Of(c)
      PROVE  /\ BornHere(d)' \in Nat /\ BornHere(d)' <= BornHere(d) /\ UsedHere(d)' \in Nat
             /\ Kept(dev', d) - Kept(dev, d)
                  = (BornHere(d)' - BornHere(d)) + (UsedHere(d)' - UsedHere(d))
  <2>1. d \in 1 .. allocated /\ dev[d].ctx = c /\ d \in Devs
    BY AllocatedAre DEF Of, Sane
  <2>2. dev'[d].ctx = dev[d].ctx
    BY <1>7, <2>1 DEF Kin
  <2>3. InArray(d)' = InArray(d) /\ InEvent(d)' = InEvent(d) /\ InMessages(d)' = InMessages(d)
    BY <1>1, <2>2, TermsKept
  <2>4. InList(d) = One(d \in S) /\ InList(d)' = 0 /\ One(d \in S) \in Nat
    BY <1>4, <2>1, <2>2, EmptyElements, OneIs DEF InList, One
  <2>5. InHandle(d)' = InHandle(d)
    BY <1>1, <1>3, <2>1, <2>2 DEF InHandle, One
  <2>6. /\ InList(d) \in Nat /\ InMessages(d) \in Nat /\ InEvent(d) \in Nat
        /\ InHandle(d) \in Nat /\ InArray(d) \in Nat
    BY <2>1, Terms
  <2>7. /\ BornHere(d)' = BornHere(d) - One(d \in S) /\ UsedHere(d)' = UsedHere(d)
        /\ BornHere(d)' \in Nat /\ BornHere(d) \in Nat /\ UsedHere(d) \in Nat
    <3> HIDE DEF S
    <3> QED
      BY <2>3, <2>4, <2>5, <2>6 DEF BornHere, UsedHere
  <2>8. Kept(dev, d) \in Int /\ Kept(dev', d) = Kept(dev, d) - One(d \in S)
    BY <1>7, <2>1, KeptNat
  <2> HIDE DEF S
  <2> QED
    BY <2>4, <2>7, <2>8
<1>9. ASSUME NEW d \in Devs, d \notin Of(c) PROVE Kept(dev', d) = Kept(dev, d)
  <2>1. Kept(dev, d) \in Nat
    BY <1>9, KeptNat
  <2>2. One(d \in S) = 0
    BY <1>5, <1>9 DEF One
  <2>3. Kept(dev', d) = Kept(dev, d) - One(d \in S)
    BY <1>7, <1>9
  <2> HIDE DEF S
  <2> QED
    BY <2>1, <2>2, <2>3
<1>10. Grown /\ Others(c) /\ HotStill
  BY <1>1, <1>4, <1>7, KinGrown DEF Others, HotStill, Sane
<1>11. Owns(c)'
  BY <1>1, <1>4, <1>10, EmptyElements, OwnsKept
<1>12. Distinct(usb_devs'[c])
  BY <1>4 DEF Distinct
<1> HIDE DEF S
<1> QED
  BY <1>1, <1>2, <1>4, <1>7, <1>8, <1>9, <1>10, <1>11, <1>12, ContextData

(* libusb_exit: a device of a pending message is not on the list.          *)
LEMMA ExitDevicesData ==
    ASSUME Sane, Types', NEW c \in Contexts, ExitDevices(c)
    PROVE  Data'
<1> DEFINE L == DevicesLeft(c)
           S == ToSet(usb_devs[c])
           mid == UnrefAll(dev, L)
<1>1. /\ app[c] = "exit_devices" /\ GoTo(c, "exit_backend") /\ dev' = UnrefAll(mid, S)
      /\ usb_devs' = [usb_devs EXCEPT ![c] = <<>>] /\ msgs' = [msgs EXCEPT ![c] = <<>>]
      /\ UNCHANGED <<event, handle, list, allocated, unsaid, hot>>
  BY DEF ExitDevices, At
<1>2. event[c] = Idle /\ handle[c] = 0 /\ c \notin active
  BY <1>1, IdleUnless DEF Holding, Inactive
<1>3. /\ app'[c] = "exit_backend" /\ usb_devs'[c] = <<>> /\ msgs'[c] = <<>>
      /\ \A x \in Contexts \ {c} :
           app'[x] = app[x] /\ usb_devs'[x] = usb_devs[x] /\ msgs'[x] = msgs[x]
  BY <1>1 DEF Sane, Types, ContextTypes, DeviceTypes, GoTo
<1>4. /\ L = {d \in Of(c) : Message("LEFT", d) \in ToSet(msgs[c])} /\ S \subseteq Of(c)
      /\ L \in SUBSET Devs /\ S \in SUBSET Devs
  BY LeftOwned, AllocatedAre DEF Sane, Owned, Owns
<1>5. ASSUME NEW d \in Of(c)
      PROVE  /\ d \in 1 .. allocated /\ d \in Devs /\ dev[d].ctx = c
             /\ InMessages(d) = One(d \in L) /\ InList(d) = One(d \in S)
             /\ One(d \in L) \in Nat /\ One(d \in S) \in Nat
             /\ Kept(dev, d) >= One(d \in L) + One(d \in S) /\ Kept(dev, d) \in Int
  <2>1. d \in 1 .. allocated /\ dev[d].ctx = c /\ d \in Devs
    BY AllocatedAre DEF Of, Sane
  <2>2. InMessages(d) \in 0 .. 1 /\ (InMessages(d) > 0 <=> d \in L)
    BY <1>4, <2>1, Terms
  <2>3. InMessages(d) = One(d \in L)
    BY <2>2 DEF One
  <2>4. InList(d) = One(d \in S)
    BY <2>1 DEF InList
  <2>5. Kept(dev, d) >= InMessages(d) + InList(d) /\ Kept(dev, d) \in Int
    <3>1. /\ InList(d) \in 0 .. 1 /\ InAdding(d) \in 0 .. 1 /\ InTelling(d) \in 0 .. 1
          /\ InMessages(d) \in 0 .. 1 /\ InEvent(d) \in 0 .. 1 /\ InNone(d) \in 0 .. 1
          /\ Uses(d) \in 0 .. 3 /\ Kept(dev, d) = Born(d) + Uses(d)
      BY <2>1, Terms
    <3>2. Born(d) >= InMessages(d) + InList(d) /\ Born(d) \in Int
      BY <3>1 DEF Born
    <3> QED
      BY <3>1, <3>2
  <2>6. One(d \in L) \in Nat /\ One(d \in S) \in Nat
    BY OneIs DEF One
  <2> QED
    BY <2>1, <2>3, <2>4, <2>5, <2>6
<1>6. ASSUME NEW d \in Devs, d \notin Of(c)
      PROVE  One(d \in L) = 0 /\ One(d \in S) = 0 /\ Kept(dev, d) \in Nat
  BY <1>4, <1>6, KeptNat DEF One
<1> HIDE DEF L, S
<1>7. \A d \in Devs : /\ dev[d].refcnt >= Kids(dev, d) + One(d \in L)
                      /\ Kept(dev, d) - One(d \in L) >= One(d \in S)
                      /\ Kept(dev, d) \in Int /\ One(d \in L) \in Int /\ One(d \in S) \in Int
  <2> SUFFICES ASSUME NEW d \in Devs
               PROVE  /\ dev[d].refcnt >= Kids(dev, d) + One(d \in L)
                      /\ Kept(dev, d) - One(d \in L) >= One(d \in S)
                      /\ Kept(dev, d) \in Int /\ One(d \in L) \in Int /\ One(d \in S) \in Int
    OBVIOUS
  <2>1. Kept(dev, d) \in Nat /\ Kids(dev, d) \in Nat /\ dev[d].refcnt = Kept(dev, d) + Kids(dev, d)
    BY KeptNat
  <2>2. CASE d \in Of(c)
    BY <1>5, <2>1, <2>2
  <2>3. CASE d \notin Of(c)
    BY <1>6, <2>1, <2>3
  <2> QED
    BY <2>2, <2>3
<1>8. dev \in [Devs -> Device] /\ Sound(dev)
  BY TreeSound DEF Sane, Types, DeviceTypes
<1>9. /\ mid \in [Devs -> Device]
      /\ \A d \in Devs : Same(mid[d], dev[d])
      /\ \A d \in Devs : Kept(mid, d) = Kept(dev, d) - One(d \in L)
  BY <1>4, <1>7, <1>8, DropTyped, DropAll
<1> HIDE DEF mid
<1>10. Sound(mid)
  BY <1>8, <1>9 DEF Sound, Rising, Same
<1>11. \A d \in Devs : mid[d].refcnt >= Kids(mid, d) + One(d \in S)
  <2> SUFFICES ASSUME NEW d \in Devs PROVE mid[d].refcnt >= Kids(mid, d) + One(d \in S)
    OBVIOUS
  <2>1. mid[d].refcnt \in Int
    BY <1>9 DEF Device
  <2>2. Kids(mid, d) \in Int
    BY KidsCounted
  <2>3. Kept(mid, d) >= One(d \in S) /\ One(d \in S) \in Int
    BY <1>7, <1>9
  <2>4. Kept(mid, d) = mid[d].refcnt - Kids(mid, d)
    BY DEF Kept
  <2> QED
    BY <2>1, <2>2, <2>3, <2>4
<1>12. \A d \in Devs : /\ Same(dev'[d], mid[d])
                       /\ Kept(dev', d) = Kept(mid, d) - One(d \in S)
  BY <1>1, <1>4, <1>9, <1>10, <1>11, DropTyped, DropAll
<1>13. Kin
  BY <1>1, <1>9, <1>12 DEF Kin, Same
<1>14. \A d \in Devs : Kept(dev', d) = Kept(dev, d) - One(d \in L) - One(d \in S)
  BY <1>9, <1>12
<1>15. ASSUME NEW d \in Of(c)
       PROVE  /\ BornHere(d)' \in Nat /\ BornHere(d)' <= BornHere(d) /\ UsedHere(d)' \in Nat
              /\ Kept(dev', d) - Kept(dev, d)
                   = (BornHere(d)' - BornHere(d)) + (UsedHere(d)' - UsedHere(d))
  <2>1. /\ d \in 1 .. allocated /\ d \in Devs /\ dev[d].ctx = c
        /\ InMessages(d) = One(d \in L) /\ InList(d) = One(d \in S)
        /\ One(d \in L) \in Nat /\ One(d \in S) \in Nat /\ Kept(dev, d) \in Int
    BY <1>5
  <2>2. dev'[d].ctx = dev[d].ctx
    BY <1>13, <2>1 DEF Kin
  <2>3. InArray(d)' = InArray(d) /\ InEvent(d)' = InEvent(d)
    BY <1>1, <2>2, TermsKept
  <2>4. InList(d)' = 0 /\ InMessages(d)' = 0
    BY <1>3, <2>1, <2>2, EmptyElements, PlacesEmpty DEF InList, InMessages, One
  <2>5. InHandle(d)' = InHandle(d)
    BY <1>1, <1>2, <2>1, <2>2 DEF InHandle, One
  <2>6. InEvent(d) \in Nat /\ InHandle(d) \in Nat /\ InArray(d) \in Nat
    BY <2>1, Terms
  <2>7. /\ BornHere(d)' = BornHere(d) - One(d \in L) - One(d \in S) /\ UsedHere(d)' = UsedHere(d)
        /\ BornHere(d)' \in Nat /\ BornHere(d) \in Nat /\ UsedHere(d) \in Nat
    BY <2>1, <2>3, <2>4, <2>5, <2>6 DEF BornHere, UsedHere
  <2> QED
    BY <1>14, <2>1, <2>7
<1>16. \A d \in Devs : d \notin Of(c) => Kept(dev', d) = Kept(dev, d)
  BY <1>6, <1>14
<1>17. Grown /\ Others(c) /\ HotStill
  BY <1>1, <1>3, <1>13, KinGrown DEF Others, HotStill, Sane
<1>18. Owns(c)'
  BY <1>1, <1>3, <1>17, EmptyElements, OwnsKept
<1>19. Lasts(c)' /\ Distinct(usb_devs'[c])
  <2>1. event'[c].event # "ARRIVED"
    BY <1>1, <1>2 DEF Idle, Message
  <2> QED
    BY <1>3, <2>1 DEF Lasts, Distinct
<1> QED
  BY <1>1, <1>2, <1>13, <1>15, <1>16, <1>17, <1>18, <1>19, ContextData

(* The device of rtlsdr_open2, put on the list, is referred to by it only. *)
LEMMA GetDevice2Data ==
    ASSUME Sane, Types', NEW c \in Contexts, NEW s \in Dongles, GetDevice2(c, s)
    PROVE  Data'
<1> DEFINE n == allocated + 1
           x == [NoDevice EXCEPT !.ctx = c, !.session = s, !.refcnt = 1, !.attached = TRUE]
           q == usb_devs[c]
<1>1. /\ app[c] = "inited" /\ allocated < MaxDevices /\ allocated' = n
      /\ dev' = [dev EXCEPT ![n] = x] /\ usb_devs' = [usb_devs EXCEPT ![c] = <<n>> \o q]
      /\ handle' = [handle EXCEPT ![c] = n] /\ GoTo(c, "arrived")
      /\ UNCHANGED <<event, msgs, list, unsaid, hot>>
  BY DEF GetDevice2, At
<1>2. s \in Sessions
  BY CoreAssumption
<1>3. x \in Device /\ x.ctx = c /\ x.session = s /\ x.refcnt = 1 /\ x.parent = 0 /\ ~x.enumerated
  <2>1. x \in Device
    BY <1>2, NewTyped
  <2> QED
    BY <2>1 DEF NoDevice
<1> HIDE DEF x
<1>4. /\ n \in Devs /\ n \notin 1 .. allocated /\ 1 .. allocated \subseteq Devs /\ n > allocated
      /\ n >= allocated /\ n \in Nat /\ 1 .. allocated \subseteq 1 .. n /\ n \in 1 .. n
      /\ allocated \in Nat
  BY <1>1, AllocatedAre, DevsAre DEF Sane
<1>5. n = allocated + 1
  OBVIOUS
<1> HIDE DEF n
<1>6. /\ dev'[n] = x /\ \A d \in Devs : d # n => dev'[d] = dev[d]
  BY <1>1, <1>4 DEF Sane, Types, DeviceTypes
<1>7. /\ app'[c] = "arrived" /\ handle'[c] = n /\ usb_devs'[c] = <<n>> \o q
      /\ \A y \in Contexts \ {c} :
           app'[y] = app[y] /\ handle'[y] = handle[y] /\ usb_devs'[y] = usb_devs[y]
  BY <1>1 DEF Sane, Types, ContextTypes, DeviceTypes, GoTo
<1>8. event[c] = Idle /\ handle[c] = 0
  BY <1>1, IdleUnless DEF Holding
<1>9. Owns(c) /\ q \in Seq(Devs) /\ Distinct(q)
  BY DEF Sane, Types, DeviceTypes, Owned, BornOnce
<1>10. ToSet(<<n>> \o q) = {n} \cup ToSet(q) /\ Distinct(<<n>> \o q)
  <2>1. n \notin ToSet(q)
    BY <1>4, <1>9 DEF Owns, Of
  <2> HIDE DEF q
  <2> QED
    BY <1>4, <1>9, <2>1, PushFront
<1> HIDE DEF q
<1>11. Grown
  BY <1>1, <1>4, <1>6 DEF Grown
<1>12. Of(c) \subseteq Of(c)' /\ n \in Of(c)'
  BY <1>1, <1>3, <1>4, <1>6, <1>11, OfGrown DEF Of, Sane
<1>13. Others(c) /\ StillTelling(c) /\ HotStill
  BY <1>1, <1>7 DEF Others, StillTelling, HotStill
<1>14. ASSUME NEW d \in 1 .. allocated PROVE Born(d)' = Born(d) /\ Uses(d)' = Uses(d)
  <2>1. dev'[d].ctx = dev[d].ctx /\ d # n /\ dev[d].ctx \in Contexts
    BY <1>4, <1>11, Terms DEF Grown
  <2>2. /\ InMessages(d)' = InMessages(d) /\ InNone(d)' = InNone(d) /\ InEvent(d)' = InEvent(d)
        /\ InArray(d)' = InArray(d) /\ InTelling(d)' = InTelling(d) /\ InHand(d)' = InHand(d)
        /\ InAdding(d)' = InAdding(d)
    BY <1>1, <2>1, TermsKept
  <2>3. InList(d)' = InList(d)
    BY <1>7, <1>10, <2>1 DEF InList, One, q
  <2>4. InHandle(d)' = InHandle(d)
    <3>1. d # 0
      OBVIOUS
    <3> QED
      BY <1>7, <1>8, <2>1, <3>1 DEF InHandle, One
  <2> QED
    BY <2>2, <2>3, <2>4 DEF Born, Uses
<1>15. \A d \in ToSet(hot.adding) : d \in 1 .. allocated
  <2>1. CASE hot.pc \in Adding
    BY <2>1 DEF Sane, Owned, HotOwns, Of
  <2>2. CASE hot.pc \notin Adding
    <3>1. hot.adding = <<>>
      BY <2>2 DEF Sane, Placed, Held, Owned, HotOwns, Types, HotTypes, Holder
    <3> QED
      BY <3>1, EmptyElements
  <2> QED
    BY <2>1, <2>2
<1>16. hot.dev \in 1 .. allocated \/ hot.dev = 0
  BY DEF Sane, Placed, Held, Owned, HotOwns, Types, HotTypes, Holder
<1>17. ASSUME NEW e \in Devs, e = n PROVE Born(e)' = 1 /\ Uses(e)' = 0
  <2>1. dev'[e].ctx = c
    BY <1>3, <1>6, <1>17
  <2>2. /\ InMessages(e)' = 0 /\ InEvent(e)' = 0 /\ InNone(e)' = 0 /\ InArray(e)' = 0
        /\ InHand(e)' = 0
    BY <1>1, <1>5, <1>17, <2>1, Newborn
  <2>3. InList(e)' = 1
    BY <1>7, <1>10, <1>17, <2>1 DEF InList, One
  <2>4. InHandle(e)' = 0
    BY <1>7, <2>1 DEF InHandle, One
  <2>5. InTelling(e)' = 0 /\ InAdding(e)' = 0
    <3>1. e \notin 1 .. allocated /\ e # 0
      BY <1>4, <1>17
    <3> QED
      BY <1>1, <1>15, <1>16, <3>1 DEF InTelling, InAdding, One
  <2> QED
    BY <2>2, <2>3, <2>4, <2>5 DEF Born, Uses
<1>18. Good(c)'
  <2>1. Owns(c)'
    <3>1. ToSet(q) \subseteq Of(c) /\ list[c] \subseteq Of(c)
          /\ \A m \in ToSet(msgs[c]) : m.event \in {"ARRIVED", "LEFT"} /\ m.dev \in Of(c)
      BY <1>9 DEF Owns, q
    <3>2. ToSet(usb_devs'[c]) \subseteq Of(c)' /\ list'[c] \subseteq Of(c)'
      BY <1>1, <1>7, <1>10, <1>12, <3>1
    <3>3. handle'[c] \in Of(c)' \cup {0} /\ event'[c] = Idle /\ event'[c].event # "lost"
      BY <1>1, <1>7, <1>8, <1>12 DEF Idle, Message
    <3>4. \A m \in ToSet(msgs'[c]) : m.event \in {"ARRIVED", "LEFT"} /\ m.dev \in Of(c)'
      BY <1>1, <1>12, <3>1
    <3> QED
      BY <3>2, <3>3, <3>4 DEF Owns
  <2>2. Lasts(c)'
    <3>1. Lasts(c)
      BY <1>1 DEF Sane, Lasting
    <3>2. ASSUME NEW d \in Of(c), NEW i, Leaves(d, i) PROVE Leaves(d, i)'
      <4>1. dev[d].ctx = c /\ dev'[d].ctx = c
        BY <1>11 DEF Of, Grown
      <4> QED
        BY <1>1, <1>7, <1>10, <3>2, <4>1 DEF Leaves, q
    <3>3. \A i \in DOMAIN msgs[c] : msgs[c][i].dev \in Of(c)
      BY <1>9 DEF ToSet, Owns
    <3>4. ASSUME NEW e, e = n PROVE Leaves(e, 0)' /\ ~dev'[e].enumerated
      <4>1. dev'[e].ctx = c /\ ~dev'[e].enumerated
        BY <1>3, <1>6, <3>4
      <4> QED
        BY <1>7, <1>10, <3>4, <4>1 DEF Leaves
    <3>5. event'[c].event # "ARRIVED" /\ msgs' = msgs
      BY <1>1, <1>8 DEF Idle, Message
    <3>6. \A d \in Of(c) : dev'[d].enumerated = dev[d].enumerated
      BY <1>11 DEF Grown, Of
    <3>7. ASSUME NEW i \in DOMAIN msgs'[c], NEW e, e = msgs'[c][i].dev,
                 msgs'[c][i].event = "ARRIVED", dev'[e].enumerated
          PROVE  Leaves(e, i)'
      BY <3>1, <3>2, <3>3, <3>5, <3>6, <3>7 DEF Lasts
    <3> QED
      BY <1>7, <3>4, <3>5, <3>7 DEF Lasts
  <2>3. HotOwns' /\ Orphans'
    <3>1. \A d \in ToSet(hot.adding) : dev'[d].parent = dev[d].parent
      BY <1>4, <1>6, <1>15
    <3>2. \A y \in active : ToSet(usb_devs[y]) \subseteq ToSet(usb_devs'[y])
      BY <1>7, <1>10 DEF q, Sane, Types, ContextTypes
    <3> QED
      BY <1>11, <1>13, <3>1, <3>2, HotOwnsKept
  <2>4. unsaid' \subseteq 1 .. allocated'
    BY <1>1, <1>4 DEF Sane, Owned
  <2> QED
    BY <1>1, <1>7, <1>10, <2>1, <2>2, <2>3, <2>4 DEF Good, Sane, BornOnce
<1>19. allocated + 1 \in Devs /\ allocated' = allocated + 1 /\ dev' = [dev EXCEPT ![allocated + 1] = x]
       /\ \A d \in Devs : d = allocated + 1 => Born(d)' = 1 /\ Uses(d)' = 0
  BY <1>1, <1>4, <1>5, <1>17
<1> QED
  BY <1>2, <1>3, <1>13, <1>14, <1>18, <1>19, FreshData

---------------------------------------------------------------------------
(* Every step.                                                             *)

LEMMA EventData ==
    ASSUME Sane, Types', NEW c \in Contexts, EventThread(c)
    PROVE  Data'
  BY TakeMessageData, MatchData, QuietEvent, QuietStep DEF EventThread

LEMMA ApplicationData ==
    ASSUME Sane, Types', NEW c \in Contexts, Application(c)
    PROVE  Data'
<1>1. CASE \/ InitContext(c) \/ InitBackendFails(c) \/ InitBackend(c) \/ InitIo(c)
           \/ GetDevice2Fails(c) \/ PollUevents(c) \/ PollLeaves(c) \/ OpOpenNoDevice(c)
           \/ ExitDefault(c) \/ ExitActive(c) \/ OpExit(c) \/ MonitorJoined(c)
  BY <1>1, QuietApplication, QuietStep
<1>2. CASE UndoContext(c) \/ (\E s \in Dongles : GetDevice2(c, s)) \/ ExitDevices(c)
  BY <1>2, UndoContextData, GetDevice2Data, ExitDevicesData
<1>3. CASE Device2Arrives(c) \/ Open2(c) \/ GetDeviceList(c) \/ OpenListed(c)
  BY <1>3, Device2ArrivesData, Open2Data, GetDeviceListData, OpenListedData
<1>4. CASE OpOpen(c) \/ NoDeviceLeaves(c) \/ FreeDeviceList(c) \/ Close(c)
  BY <1>4, OpOpenData, NoDeviceLeavesData, FreeDeviceListData, CloseData
<1> QED
  BY <1>1, <1>2, <1>3, <1>4 DEF Application

LEMMA DataStep ==
    ASSUME Sane, Next
    PROVE  Data'
<1>1. Types'
  BY TypesStep
<1>2. CASE \E c \in Contexts : Application(c) \/ EventThread(c)
  BY <1>1, <1>2, ApplicationData, EventData
<1>3. CASE Section
  BY <1>1, <1>3, SectionData
<1>4. CASE Monitor \/ Kernel
  BY <1>1, <1>4, QuietKernel, QuietStep
<1> QED
  BY <1>2, <1>3, <1>4 DEF Next

LEMMA InitInv == Init => Inv
<1> SUFFICES ASSUME Init PROVE Inv
  OBVIOUS
<1>1. Types /\ Watched
  BY InitTypes, WatchedInit
<1>2. \A d \in Devs : dev[d].refcnt = 0 /\ dev[d].parent = 0
  BY DEF Init, NoDevice
<1>3. Counted
  BY <1>2 DEF Counted
<1>4. hot = Unlocked /\ hot.dev = 0 /\ hot.adding = <<>> /\ hot.pc = "free"
  BY UnlockedTyped DEF Init
<1>5. hot.pc \notin Removing \cup Adding \cup {"next"}
  BY <1>4 DEF Removing, Adding
<1>6. Placed
  <2>1. ASSUME NEW c \in Contexts PROVE Settled(c)
    BY DEF Init, Settled, Inactive, Unready, Holding, Unlisted, Deviceless
  <2> QED
    BY <1>4, <1>5, <2>1 DEF Placed, Held
<1>7. Owned
  <2>1. ASSUME NEW c \in Contexts PROVE Owns(c)
    BY EmptyElements DEF Init, Owns, Idle, Message
  <2>2. HotOwns
    BY <1>5 DEF HotOwns
  <2>3. unsaid = {} /\ allocated = 0 /\ Spare
    BY <1>2 DEF Init, Spare
  <2>4. 1 .. allocated = {}
    BY <2>3
  <2> QED
    BY <2>1, <2>2, <2>3, <2>4 DEF Owned
<1>8. Tree
  BY <1>2, <1>4, EmptyElements DEF Tree, Parents, Orphans
<1>9. 1 .. allocated = {}
  BY DEF Init
<1>10. BornOnce
  BY <1>4, <1>9 DEF BornOnce, Distinct, Init
<1>11. Lasting
  BY DEF Lasting, Lasts, Init, Idle, Message
<1>12. Referred
  BY <1>9 DEF Referred
<1> QED
  BY <1>1, <1>3, <1>6, <1>7, <1>8, <1>10, <1>11, <1>12 DEF Inv

LEMMA NoStepAfterFault == ASSUME Next PROVE ~fault
<1>1. CASE Monitor \/ Kernel
  BY <1>1 DEF Monitor, Kernel, Wake, LockHot, MonitorLeaves, Plug, Unplug, Hot
<1>2. CASE Section
  BY <1>2 DEF Section, linux_netlink_read_message, Handled, Detach, Initialize, Connect,
              FindRemoved, Unlist, TellLeft, DropFound, FindAdded, InitializeFails,
              FindParent, TellArrived, Hot
<1>3. ASSUME NEW c \in Contexts, EventThread(c) PROVE ~fault
  BY <1>3 DEF EventThread, TakeMessage, Match, NoticeGone, NoticeLeaves, At
<1>4. ASSUME NEW c \in Contexts, Application(c) PROVE ~fault
  BY <1>4 DEF Application, InitContext, InitBackendFails, InitBackend, InitIo, UndoContext,
              GetDevice2, GetDevice2Fails, Device2Arrives, Open2, PollUevents, PollLeaves,
              GetDeviceList, OpenListed, OpOpen, OpOpenNoDevice, NoDeviceLeaves,
              FreeDeviceList, Close, ExitDefault, ExitActive, ExitDevices, OpExit,
              MonitorJoined, At
<1> QED
  BY <1>1, <1>2, <1>3, <1>4 DEF Next

LEMMA InvStep == Inv /\ [Next]_vars => Inv'
<1> SUFFICES ASSUME Inv, [Next]_vars PROVE Inv'
  OBVIOUS
<1>1. CASE Next
  <2>1. Sane
    BY <1>1, NoStepAfterFault DEF Inv, Sane
  <2>2. Types' /\ Watched' /\ Placed' /\ Data'
    BY <1>1, <2>1, TypesStep, WatchedStep, PlacedStep, DataStep
  <2> QED
    BY <2>2 DEF Data, Inv
<1>2. CASE UNCHANGED vars
  <2>1. UNCHANGED <<app, event, active, default, deflock, ready, handle, removed, usb_devs,
                    msgs, list, dev, allocated, unsaid, monitor, socket, control,
                    init_count, stopping, foreign, hot, plugged, gone, uevents, changes, fault>>
    BY <1>2 DEF vars, context, devices, watch, kernel
  <2>2. (Types /\ Counted)'  = (Types /\ Counted)
    BY <2>1 DEF Types, ContextTypes, DeviceTypes, KernelTypes, HotTypes, Counted
  <2>3. Watched' = Watched
    BY <2>1 DEF Watched, MonitorEnds, Wanting
  <2>4. Placed' = Placed
    BY <2>1 DEF Placed, Settled, Held
  <2>5. Owned' = Owned /\ Tree' = Tree
    BY <2>1 DEF Owned, Owns, HotOwns, Spare, Of, Added, Tree, Parents, Orphans
  <2>6. Lasting' = Lasting
    BY <2>1 DEF Lasting, Lasts, Leaves
  <2>7. BornOnce' = BornOnce
    BY <2>1 DEF BornOnce, Born, InList, InAdding, InTelling, InMessages, InEvent, InNone, Added
  <2>8. Referred' = Referred
    BY <2>1 DEF Referred, Born, InList, InAdding, InTelling, InMessages, InEvent, InNone, Added,
                Uses, InHandle, InArray, InHand
  <2> QED
    BY <2>1, <2>2, <2>3, <2>4, <2>5, <2>6, <2>7, <2>8 DEF Inv
<1> QED
  BY <1>1, <1>2

LEMMA Invariant == Spec => []Inv
<1>1. Init => Inv
  BY InitInv
<1>2. Inv /\ [Next]_vars => Inv'
  BY InvStep
<1> QED
  BY <1>1, <1>2, PTL DEF Spec

---------------------------------------------------------------------------
(* The monitor runs for as long as a context wants it, and its thread and  *)
(* socket end with the last one (linux_netlink_start_event_monitor,        *)
(* linux_netlink_stop_event_monitor, init_count).                          *)
THEOREM MonitorStops == Spec => []MonitorEnds
<1>1. Inv => MonitorEnds
  BY DEF Inv, Watched
<1> QED
  BY <1>1, Invariant, PTL

LEMMA InvTyped == Inv => TypeOK
<1> SUFFICES ASSUME Inv PROVE TypeOK
  OBVIOUS
<1>1. Types /\ Counted /\ Watched
  BY DEF Inv
<1>2. /\ app \in [Contexts -> AppLabels] /\ event \in [Contexts -> Messages]
      /\ active \subseteq Contexts /\ ready \subseteq Contexts
      /\ deflock \in Contexts \cup {NoOne} /\ handle \in [Contexts -> 0 .. MaxDevices]
      /\ removed \subseteq Contexts /\ gone \subseteq Contexts
      /\ foreign \in BOOLEAN /\ fault \in BOOLEAN
      /\ allocated \in 0 .. MaxDevices /\ unsaid \subseteq Devs
      /\ plugged \subseteq Sessions /\ changes \in 0 .. MaxChanges
  BY <1>1 DEF Types, ContextTypes, DeviceTypes, KernelTypes
<1>3. \A c \in Contexts : /\ usb_devs[c] \in Seq(Devs) /\ msgs[c] \in Seq(Messages)
                          /\ list[c] \subseteq Devs
  BY <1>1 DEF Types, DeviceTypes
<1>4. dev \in [Devs -> [ctx : Contexts \cup {NoOne},
                        session : Sessions \cup {NoOne},
                        enumerated : BOOLEAN, attached : BOOLEAN,
                        refcnt : Nat, parent : 0 .. MaxDevices]]
  <2>1. dev \in [Devs -> Device] /\ \A d \in Devs : dev[d].refcnt \in Nat
    BY <1>1 DEF Types, DeviceTypes, Counted
  <2> QED
    BY <2>1 DEF Device
<1>5. hot.by \in Contexts \cup {NoOne, "monitor"}
      /\ hot.dev \in 0 .. MaxDevices /\ hot.adding \in Seq(Devs)
  BY <1>1 DEF Types, HotTypes, Holder
<1>6. init_count \in 0 .. Cardinality(Contexts)
  <2>1. Wanting \subseteq Contexts
    BY DEF Wanting
  <2>2. Cardinality(Wanting) \in Nat /\ Cardinality(Contexts) \in Nat
        /\ Cardinality(Wanting) <= Cardinality(Contexts)
    BY <2>1, CoreAssumption, FS_Subset, FS_CardinalityType
  <2> QED
    BY <1>1, <2>2 DEF Watched
<1>7. /\ default \in [ctx : Contexts \cup {NoOne}, refcnt : 0 .. 1]
      /\ stopping \in Contexts \cup {NoOne}
      /\ monitor \in {"off", "polling", "locking", "reading"}
      /\ socket \in {"none", "bound", "stale"} /\ control \in BOOLEAN
  BY <1>1 DEF Watched
<1> QED
  BY <1>2, <1>3, <1>4, <1>5, <1>6, <1>7 DEF TypeOK, AppLabels

LEMMA InvCounts == Inv => CountsReferences
<1> SUFFICES ASSUME Inv, ~fault, NEW d \in 1 .. allocated
             PROVE  dev[d].refcnt = References(d)
  BY DEF CountsReferences
<1>1. Sane
  BY DEF Inv, Sane
<1>2. References(d)
        = InList(d) + InMessages(d) + InEvent(d) + InHandle(d) + InArray(d) + Kids(dev, d)
          + InHand(d) + InTelling(d) + InAdding(d) + InNone(d)
  BY DEF References, InList, InMessages, InEvent, InHandle, InArray, Kids, ChildrenOf,
         InHand, InTelling, InAdding, InNone, Places
<1>3. /\ InList(d) \in 0 .. 1 /\ InAdding(d) \in 0 .. 1 /\ InTelling(d) \in 0 .. 1
      /\ InMessages(d) \in 0 .. 1 /\ InEvent(d) \in 0 .. 1 /\ InNone(d) \in 0 .. 1
      /\ InHandle(d) \in 0 .. 1 /\ InArray(d) \in 0 .. 1 /\ InHand(d) \in 0 .. 1
      /\ Kids(dev, d) \in Nat
  BY <1>1, Terms
<1>4. dev[d].refcnt = Born(d) + Uses(d) + Kids(dev, d)
  BY <1>1 DEF Sane, Referred
<1> QED
  BY <1>2, <1>3, <1>4 DEF Born, Uses

LEMMA InvLives == Inv => NothingDangles
<1> SUFFICES ASSUME Inv, ~fault, NEW c \in Contexts, app[c] # "gone"
             PROVE  /\ \A m \in ToSet(msgs[c]) \cup {event[c]} :
                         \/ m = Idle \/ dev[m.dev].refcnt > 0
                         \/ m.event = "ARRIVED" /\ ~dev[m.dev].enumerated
                    /\ handle[c] # 0 => dev[handle[c]].refcnt > 0
  BY DEF NothingDangles
<1>1. Sane /\ Lasts(c) /\ Owns(c)
  BY DEF Inv, Sane, Lasting, Owned
<1>2. ASSUME NEW d \in Of(c), Born(d) >= 1 \/ Uses(d) >= 1 PROVE dev[d].refcnt > 0
  <2>1. d \in 1 .. allocated
    BY DEF Of
  <2> QED
    BY <1>1, <1>2, <2>1, Terms
<1>3. ASSUME NEW d \in Of(c), NEW i, Leaves(d, i) PROVE dev[d].refcnt > 0
  BY <1>1, <1>2, <1>3, StaysBorn
<1>4. ASSUME NEW d \in Of(c), handle[c] = d PROVE dev[d].refcnt > 0
  <2>1. CASE app[c] \in {"arrived", "open2"}
    BY <1>1, <1>3, <1>4, <2>1 DEF Lasts
  <2>2. CASE app[c] \notin {"arrived", "open2"}
    <3>1. d \in 1 .. allocated /\ InHandle(d) = 1
      BY <1>4, <2>2 DEF Of, InHandle, One
    <3>2. Uses(d) >= 1
      BY <1>1, <3>1, Terms DEF Uses
    <3> QED
      BY <1>2, <3>2
  <2> QED
    BY <2>1, <2>2
<1>5. \A m \in Messages : m = Message(m.event, m.dev)
  BY DEF Messages, Message
<1>6. ASSUME NEW m \in ToSet(msgs[c])
      PROVE  dev[m.dev].refcnt > 0 \/ (m.event = "ARRIVED" /\ ~dev[m.dev].enumerated)
  <2>1. m.event \in {"ARRIVED", "LEFT"} /\ m.dev \in Of(c)
    BY <1>1 DEF Owns
  <2>2. CASE m.event = "LEFT"
    <3>1. m \in Messages
      BY <1>1, ElementsOf DEF Sane, Types, DeviceTypes
    <3>2. ASSUME NEW d \in Of(c), d = m.dev PROVE Born(d) >= 1
      <4>1. d \in 1 .. allocated /\ dev[d].ctx = c /\ Message("LEFT", d) = m
        BY <1>5, <2>2, <3>1, <3>2 DEF Of
      <4>2. InMessages(d) > 0
        BY <1>1, <4>1, Terms
      <4> QED
        BY <1>1, <4>1, <4>2, Terms DEF Born
    <3> QED
      BY <1>2, <2>1, <3>2
  <2>3. CASE m.event = "ARRIVED" /\ dev[m.dev].enumerated
    <3>1. PICK i \in DOMAIN msgs[c] : m = msgs[c][i]
      BY DEF ToSet
    <3>2. Leaves(m.dev, i)
      BY <1>1, <2>3, <3>1 DEF Lasts
    <3> QED
      BY <1>3, <2>1, <3>2
  <2> QED
    BY <2>1, <2>2, <2>3
<1>7. event[c] = Idle \/ dev[event[c].dev].refcnt > 0
      \/ (event[c].event = "ARRIVED" /\ ~dev[event[c].dev].enumerated)
  <2> SUFFICES ASSUME event[c] # Idle
               PROVE  dev[event[c].dev].refcnt > 0
                      \/ (event[c].event = "ARRIVED" /\ ~dev[event[c].dev].enumerated)
    OBVIOUS
  <2>1. event[c] \in Messages /\ event[c].event \in {"lost", "ARRIVED", "LEFT"}
        /\ event[c].dev \in Of(c)
        /\ (event[c].event = "lost" => event[c].dev = handle[c])
    BY <1>1 DEF Owns, Sane, Types, ContextTypes, Messages
  <2>2. CASE event[c].event = "lost"
    BY <1>4, <2>1, <2>2
  <2>3. CASE event[c].event = "LEFT"
    <3>1. ASSUME NEW d \in Of(c), d = event[c].dev PROVE Born(d) >= 1
      <4>1. d \in 1 .. allocated /\ dev[d].ctx = c /\ Message("LEFT", d) = event[c]
        BY <1>5, <2>1, <2>3, <3>1 DEF Of
      <4>2. InEvent(d) = 1
        BY <4>1 DEF InEvent, One
      <4> QED
        BY <1>1, <4>1, <4>2, Terms DEF Born
    <3> QED
      BY <1>2, <2>1, <3>1
  <2>4. CASE event[c].event = "ARRIVED" /\ dev[event[c].dev].enumerated
    BY <1>1, <1>3, <2>1, <2>4 DEF Lasts
  <2> QED
    BY <2>1, <2>2, <2>3, <2>4
<1>8. handle[c] # 0 => dev[handle[c]].refcnt > 0
  BY <1>1, <1>4 DEF Owns
<1> QED
  BY <1>6, <1>7, <1>8

(* A device lives exactly as long as somebody refers to it, whatever the   *)
(* threads of the contexts, the monitor and the kernel do: its count is    *)
(* the number of its references, and neither a message, nor the event      *)
(* thread, nor a handle has a device that is destroyed                     *)
(* (libusb_ref_device, libusb_unref_device).                               *)
THEOREM ReferencesCounted == Spec => []ReferencesHold
<1>1. Inv => ReferencesHold
  BY InvTyped, InvCounts, InvLives DEF ReferencesHold
<1> QED
  BY <1>1, Invariant, PTL

---------------------------------------------------------------------------
(* What is left of a context that has been exited.                         *)

LEMMA LeftBehind ==
    ASSUME Sane, NEW d \in 1 .. allocated, app[dev[d].ctx] = "gone", dev[d].refcnt > 0
    PROVE  \/ d \in unsaid \/ d \in list[dev[d].ctx] \/ d \in DevicesLeft(dev[d].ctx)
           \/ \E e \in Devs : dev[e].refcnt > 0 /\ dev[e].parent = d
<1> DEFINE c == dev[d].ctx
<1>1. c \in Contexts /\ d \in Devs /\ d # 0
  BY Terms
<1>2. event[c] = Idle /\ handle[c] = 0 /\ c \notin active
  BY <1>1, IdleUnless DEF Holding, Inactive
<1>3. usb_devs[c] = <<>>
  BY <1>1 DEF Sane, Placed, Settled, Deviceless, Inactive
<1>4. InList(d) = 0 /\ InEvent(d) = 0 /\ InHandle(d) = 0
  <2>1. d \notin ToSet(usb_devs[dev[d].ctx])
    BY <1>3, EmptyElements
  <2>2. event[dev[d].ctx] # Message("LEFT", d) /\ handle[dev[d].ctx] # d
    BY <1>1, <1>2 DEF Idle, Message
  <2> QED
    BY <2>1, <2>2 DEF InList, InEvent, InHandle, One
<1>5. InHand(d) = 0 /\ InTelling(d) = 0
  <2>1. hot.dev # d
    BY <1>1, <1>2, RemovedTyped
    DEF Sane, Placed, Held, Owned, HotOwns, Types, HotTypes, Holder
  <2> QED
    BY <2>1 DEF InHand, InTelling, One
<1>6. InAdding(d) = 0
  <2>1. CASE hot.pc \in Adding
    <3>1. dev[Added].ctx \in active /\ \A e \in ToSet(hot.adding) : e \in Of(dev[Added].ctx)
      BY <2>1, AddedTyped DEF Sane, Owned, HotOwns
    <3>2. d \notin ToSet(hot.adding)
      BY <1>2, <3>1 DEF Of
    <3> QED
      BY <3>2 DEF InAdding, One
  <2>2. CASE hot.pc \notin Adding
    <3>1. hot.adding = <<>>
      BY <2>2 DEF Sane, Placed, Held, Owned, HotOwns, Types, HotTypes, Holder
    <3> QED
      BY <3>1, EmptyElements DEF InAdding, One
  <2> QED
    BY <2>1, <2>2
<1>7. dev[d].refcnt = InMessages(d) + InArray(d) + InNone(d) + Kids(dev, d)
      /\ InMessages(d) \in 0 .. 1 /\ InArray(d) \in 0 .. 1 /\ InNone(d) \in 0 .. 1
      /\ Kids(dev, d) \in Nat
  <2>1. dev[d].refcnt = Born(d) + Uses(d) + Kids(dev, d)
    BY DEF Sane, Referred
  <2>2. /\ InMessages(d) \in 0 .. 1 /\ InArray(d) \in 0 .. 1 /\ InNone(d) \in 0 .. 1
        /\ Kids(dev, d) \in Nat
    BY Terms
  <2> QED
    BY <1>4, <1>5, <1>6, <2>1, <2>2 DEF Born, Uses
<1>8. CASE InMessages(d) > 0
  <2>1. Message("LEFT", d) \in ToSet(msgs[c])
    BY <1>8, Terms
  <2>2. d \in Of(c)
    BY DEF Of
  <2> QED
    BY <1>1, <2>1, <2>2, LeftOwned
<1>9. CASE InArray(d) > 0 \/ InNone(d) > 0
  BY <1>9 DEF InArray, InNone, One
<1>10. CASE Kids(dev, d) > 0
  <2>1. ChildrenOf(dev, d) # {}
    BY <1>10, KidsCounted
  <2> QED
    BY <2>1 DEF ChildrenOf
<1> QED
  BY <1>7, <1>8, <1>9, <1>10

(* A device that is still there after libusb_exit left while libusb_init   *)
(* was not yet finished, is in the array that rtlsdr_open does not free,   *)
(* or is the parent of a device that is still there (libusb_exit).         *)
THEOREM ExitLeavesNothing == Spec => []ExitDestroys
<1>1. Inv => ExitDestroys
  <2> DEFINE leaked == unsaid \cup UNION {list[c] \cup DevicesLeft(c) : c \in Contexts}
  <2> SUFFICES ASSUME Inv, ~fault, NEW d \in 1 .. allocated,
                      app[dev[d].ctx] = "gone", dev[d].refcnt > 0
               PROVE  d \in leaked \/ \E e \in Devs : dev[e].refcnt > 0 /\ dev[e].parent = d
    BY DEF ExitDestroys
  <2>1. Sane
    BY DEF Inv, Sane
  <2>2. dev[d].ctx \in Contexts
    BY <2>1, Terms
  <2> QED
    BY <2>1, <2>2, LeftBehind
<1> QED
  BY <1>1, Invariant, PTL
=============================================================================
