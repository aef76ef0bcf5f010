------------------------------ MODULE AppProofs -----------------------------
(***************************************************************************)
(* Proofs about the application around the driver: how a device is opened  *)
(* with the user's permission (UsbPermission), for any number of dongles,  *)
(* and the service that starts one device after another (RunnerService),   *)
(* for any number of devices.                                              *)
(***************************************************************************)
EXTENDS UsbPermission, RunnerService, TLAPS

---------------------------------------------------------------------------
(* The permission.                                                         *)

(* A thread has no receiver before it registers one, and once a connection *)
(* is in its future, or in its hands, its receiver is gone or leaving.     *)
Clean(d) ==
    /\ opening[d] \in {"obtain", "register"} => d \notin receivers
    /\ object[d] = "connection" =>
          /\ d \notin receivers \/ d \in leaving
          /\ opening[d] \notin {"obtain", "register"}
    /\ got[d] = "connection" =>
          /\ d \notin receivers \/ d \in leaving
          /\ opening[d] = "returned"

PermissionInv == PermissionTypeOK /\ \A d \in Dongles : Clean(d)

LEMMA PermissionInitInv == PermissionInit => PermissionInv
  BY DEF PermissionInit, PermissionInv, PermissionTypeOK, Clean, Stages, Results, Broadcasts

LEMMA StepType ==
    ASSUME PermissionTypeOK, NEW d \in Dongles, NEW l, NEW m \in Stages, Step(d, l, m)
    PROVE  /\ opening' \in [Dongles -> Stages] /\ opening[d] = l /\ opening'[d] = m
           /\ \A e \in Dongles : e # d => opening'[e] = opening[e]
  BY DEF Step, PermissionTypeOK

LEMMA SentType ==
    ASSUME PermissionTypeOK, NEW d \in Dongles, NEW g \in BOOLEAN
    PROVE  Sent(d, g) \subseteq Broadcasts
  BY DEF PermissionTypeOK, Sent, Broadcasts

LEMMA SetDoneType ==
    ASSUME PermissionTypeOK, NEW d \in Dongles, NEW c \in Results, SetDone(d, c)
    PROVE  /\ ready' \in [Dongles -> BOOLEAN] /\ object' \in [Dongles -> Results]
           /\ opening' \in [Dongles -> Stages]
           /\ ready'[d] /\ object'[d] = c
           /\ opening'[d] = opening[d] \/ (opening[d] = "waiting" /\ opening'[d] = "woken")
           /\ \A e \in Dongles : e # d =>
                 ready'[e] = ready[e] /\ object'[e] = object[e] /\ opening'[e] = opening[e]
  BY DEF SetDone, PermissionTypeOK, Stages, Results

LEMMA OpenerStep ==
    ASSUME PermissionInv, NEW d \in Dongles, Opener(d)
    PROVE  PermissionInv' /\ UNCHANGED future
  <1> USE DEF PermissionInv, Clean, Stages, Results, system, future
  <1>1. CASE Obtain(d)
    <2>1. opening' \in [Dongles -> Stages] /\ opening[d] = "obtain" /\ opening'[d] \in {"register", "returned"}
          /\ \A e \in Dongles : e # d => opening'[e] = opening[e]
      BY <1>1, StepType DEF Obtain
    <2>2. d \notin receivers
      BY <2>1
    <2>3. \/ got' = got
          \/ opening'[d] = "returned" /\ \E c \in Results : got' = [got EXCEPT ![d] = c]
      BY <1>1, StepType DEF Obtain, Opened
    <2>4. UNCHANGED <<perm, dialogs, inbox, receivers, leaving, ready, object>>
      BY <1>1 DEF Obtain
    <2> QED
      BY <2>1, <2>2, <2>3, <2>4 DEF PermissionTypeOK
  <1>2. CASE Register(d)
    <2>1. opening' \in [Dongles -> Stages] /\ opening[d] = "register" /\ opening'[d] = "request"
          /\ \A e \in Dongles : e # d => opening'[e] = opening[e]
      BY <1>2, StepType DEF Register
    <2>2. /\ receivers' = receivers \cup {d}
          /\ UNCHANGED <<perm, dialogs, inbox, leaving, ready, object, got>>
      BY <1>2 DEF Register
    <2>3. object[d] # "connection" /\ got[d] # "connection"
      BY <2>1
    <2>4. PermissionTypeOK'
      BY <2>1, <2>2 DEF PermissionTypeOK
    <2>5. \A e \in Dongles : Clean(e)'
      BY <2>1, <2>2, <2>3
    <2> QED
      BY <2>2, <2>4, <2>5
  <1>3. CASE Request(d)
    <2>1. opening' \in [Dongles -> Stages] /\ opening[d] = "request" /\ opening'[d] = "get"
          /\ \A e \in Dongles : e # d => opening'[e] = opening[e]
      BY <1>3, StepType DEF Request
    <2>2. /\ inbox' = inbox \cup Sent(d, TRUE) \/ inbox' = inbox
          /\ dialogs' = dialogs \cup {d} \/ dialogs' = dialogs
          /\ UNCHANGED <<perm, receivers, leaving, ready, object, got>>
      BY <1>3 DEF Request
    <2>3. Sent(d, TRUE) \subseteq Broadcasts
      BY SentType
    <2>4. PermissionTypeOK'
      BY <2>1, <2>2, <2>3 DEF PermissionTypeOK
    <2>5. \A e \in Dongles : Clean(e)'
      BY <2>1, <2>2
    <2> QED
      BY <2>2, <2>4, <2>5
  <1>4. CASE Get(d)
    BY <1>4, StepType DEF Get, PermissionTypeOK
  <1>5. CASE Wakeup(d)
    <2>1. PICK l \in {"woken", "spurious"} : Step(d, l, "returned")
      BY <1>5 DEF Wakeup
    <2>2. /\ opening' \in [Dongles -> Stages] /\ opening[d] = l /\ opening'[d] = "returned"
          /\ \A e \in Dongles : e # d => opening'[e] = opening[e]
      BY <2>1, StepType
    <2>3. /\ got' = [got EXCEPT ![d] = object[d]]
          /\ UNCHANGED <<perm, dialogs, inbox, receivers, leaving, ready, object>>
      BY <1>5 DEF Wakeup
    <2>4. PermissionTypeOK'
      BY <2>2, <2>3 DEF PermissionTypeOK
    <2>5. \A e \in Dongles : Clean(e)'
      BY <2>2, <2>3 DEF PermissionTypeOK
    <2> QED
      BY <2>3, <2>4, <2>5
  <1> QED
    BY <1>1, <1>2, <1>3, <1>4, <1>5 DEF Opener

LEMMA UserStep ==
    ASSUME PermissionInv, NEW d \in Dongles,
           SpuriousWakeup(d) \/ Answer(d) \/ PullOut(d)
    PROVE  PermissionInv' /\ UNCHANGED future
  <1> USE DEF PermissionInv, Clean, Stages, Results, system, future
  <1>1. CASE SpuriousWakeup(d)
    BY <1>1, StepType DEF SpuriousWakeup, PermissionTypeOK
  <1>2. CASE Answer(d)
    BY <1>2, SentType DEF Answer, PermissionTypeOK
  <1>3. CASE PullOut(d)
    BY <1>3 DEF PullOut, PermissionTypeOK
  <1> QED
    BY <1>1, <1>2, <1>3

LEMMA ReceiveStep ==
    ASSUME PermissionInv, Receive
    PROVE  /\ PermissionInv'
           /\ \A d \in Dongles : ready[d] => ready'[d] /\ object'[d] = object[d]
  <1> USE DEF PermissionInv, Clean, Results
  <1>1. PICK m \in inbox :
            /\ inbox' = inbox \ {m}
            /\ \/ Ignores(m.to) /\ UNCHANGED <<future, opening, leaving>>
               \/ ~Ignores(m.to) /\ m.about = m.to /\ Complete(m)
               \/ /\ ~Ignores(m.to) /\ m.about # m.to
                  /\ SetDone(m.to, "null") /\ UNCHANGED leaving
            /\ leaving = {} /\ UNCHANGED <<perm, dialogs, receivers, got>>
    BY DEF Receive
  <1>2. m.to \in Dongles
    BY DEF PermissionTypeOK, Broadcasts
  <1>3. CASE Ignores(m.to) /\ UNCHANGED <<future, opening, leaving>>
    BY <1>1, <1>3 DEF PermissionTypeOK, future
  <1>4. ASSUME ~Ignores(m.to), NEW c \in Results, SetDone(m.to, c),
               \/ leaving' = {m.to}
               \/ c = "null" /\ leaving' = leaving
        PROVE  /\ PermissionInv'
               /\ \A d \in Dongles : ready[d] => ready'[d] /\ object'[d] = object[d]
    <2>1. ~ready[m.to] /\ m.to \in receivers
      BY <1>4 DEF Ignores
    <2> QED
      BY <1>1, <1>2, <1>4, <2>1, SetDoneType DEF PermissionTypeOK
  <1>5. CASE ~Ignores(m.to) /\ m.about = m.to /\ Complete(m)
    BY <1>1, <1>4, <1>5 DEF Complete, Opened
  <1> QED
    BY <1>1, <1>3, <1>4, <1>5

LEMMA UnregisterStep ==
    ASSUME PermissionInv, Unregister PROVE PermissionInv' /\ UNCHANGED future
  BY DEF PermissionInv, PermissionTypeOK, Clean, Unregister, future

LEMMA PermissionSameInv ==
    ASSUME PermissionInv, UNCHANGED permissionVars PROVE PermissionInv' /\ UNCHANGED future
  BY DEF PermissionInv, PermissionTypeOK, Clean, permissionVars, future

LEMMA PermissionNextInv ==
    ASSUME PermissionInv, [PermissionNext]_permissionVars
    PROVE  /\ PermissionInv'
           /\ \A d \in Dongles : ready[d] => ready'[d] /\ object'[d] = object[d]
  <1>1. UNCHANGED future =>
            \A d \in Dongles : ready[d] => ready'[d] /\ object'[d] = object[d]
    BY DEF future
  <1> QED
    BY <1>1, OpenerStep, UserStep, ReceiveStep, UnregisterStep, PermissionSameInv
       DEF PermissionNext, MainThread
-----------------------------------------------------------------------------
(* The inductive invariant of the permission protocol.                     *)
THEOREM PermissionInvariant == PermissionSpec => []PermissionInv
  <1>1. PermissionInv /\ [PermissionNext]_permissionVars => PermissionInv'
    BY PermissionNextInv
  <1> QED
    BY <1>1, PermissionInitInv, PTL DEF PermissionSpec

(* Type correctness of the permission protocol.                            *)
THEOREM PermissionTypeCorrect == PermissionSpec => []PermissionTypeOK
  <1>1. PermissionInv => PermissionTypeOK
    BY DEF PermissionInv
  <1> QED
    BY <1>1, PermissionInvariant, PTL

(* Once a device is open, its receiver is gone or about to be unregistered. *)
THEOREM ConnectedCleanHolds == PermissionSpec => []ConnectedClean
  <1>1. PermissionInv => ConnectedClean
    BY DEF PermissionInv, Clean, ConnectedClean
  <1> QED
    BY <1>1, PermissionInvariant, PTL

(* The assertion of setDone never fails: a result is set once and stays.   *)
THEOREM SetOnceHolds == PermissionSpec => SetOnce
  <1>1. PermissionInv /\ [PermissionNext]_permissionVars =>
            [\A d \in Dongles : ready[d] => ready'[d] /\ object'[d] = object[d]]_permissionVars
    BY PermissionNextInv
  <1> QED
    BY <1>1, PermissionInvariant, PTL DEF PermissionSpec, SetOnce

---------------------------------------------------------------------------
(* The driver service.                                                     *)

(* Stages of a thread that has reset the field, or has announced that a    *)
(* device runs, and goes on to correct what it finds.                      *)
Renewing == {"poll", "notRunning", "assign", "tell", "listen", "lock", "open", "forget"}

(* Threads that will listen to the device in the field, or reset it.       *)
Keeps(t) ==
    \/ at[t] \in {"check", "announce", "tell", "listen", "name", "forget"}
    \/ at[t] = "lock" /\ callee[t] = thisSdrDevice

(* A session that the service will hear of.                                *)
Heard == \E s \in Sessions : at[s] \notin {"off", "gone"} /\ listeners[runs[s]] > 0

(* Whoever resets the field while a device is said to run goes on to say   *)
(* otherwise or to start the next one.                                     *)
RunningOwned ==
    isRunning /\ thisSdrDevice = NoDevice => \E t \in Threads : at[t] \in Renewing
ShownOwned ==
    callback = "running" /\ thisSdrDevice = NoDevice =>
        \E t \in Threads : at[t] \in Renewing \cup {"tellNot", "clear"}

(* The device in the field has a listener, or is about to get one, so that *)
(* a session that opens it will be heard; and there is such a session, or  *)
(* a thread about to open it.                                              *)
NextListened ==
    thisSdrDevice # NoDevice =>
        listeners[thisSdrDevice] > 0 \/ \E t \in Threads : Keeps(t)
DeviceOwned ==
    thisSdrDevice # NoDevice =>
        Heard \/ \E t \in Threads : Keeps(t) \/ at[t] \in {"lock", "open"}

Owned == RunningOwned /\ ShownOwned /\ NextListened /\ DeviceOwned
ServiceInv == TypeOK /\ (~lost => Owned)
-----------------------------------------------------------------------------
LEMMA ThreadFacts ==
    /\ Main \in Threads /\ Sessions \subseteq Threads /\ Sessions = Devices
    /\ \A t \in Threads : t # Main <=> t \in Sessions
    /\ NoDevice \notin Devices
  BY RunnerAssumption DEF Threads, Sessions

LEMMA InitInv == Init => ServiceInv
  <1> SUFFICES ASSUME Init PROVE ServiceInv
    OBVIOUS
  <1>0. /\ at = [t \in Threads |-> IF t = Main THEN "idle" ELSE "off"]
        /\ "idle" \in MainStages /\ "off" \in SessionStages
        /\ {"idle", "off"} \cap (Starting \cup {"lock"}) = {}
    BY DEF Init, MainStages, SessionStages, Starting
  <1>3. /\ at \in [Threads -> MainStages \cup SessionStages]
        /\ at[Main] \in MainStages
        /\ \A s \in Sessions : at[s] = "off" /\ at[s] \in SessionStages
        /\ \A t \in Threads : at[t] \notin Starting \cup {"lock"}
    BY <1>0, ThreadFacts
  <1>4. <<>> \in Seq(Devices) /\ 0 \in 0..MaxCatches
    BY RunnerAssumption
  <1>5. /\ asked \subseteq Devices /\ connecting \subseteq asked /\ starts \in Nat
        /\ workQueue \in Seq(Devices) /\ isRunning \in BOOLEAN
        /\ thisSdrDevice \in Devices \cup {NoDevice}
        /\ callback \in {"none", "running", "notRunning"}
        /\ listeners \in [Devices -> Nat] /\ lost \in BOOLEAN /\ crashed \in BOOLEAN
        /\ caught \in [Sessions -> 0..MaxCatches]
    BY <1>4 DEF Init
  <1>6. /\ runs \in [Sessions -> Devices \cup {NoDevice}]
        /\ pair \in [Threads -> Devices \cup {NoDevice}]
        /\ callee \in [Threads -> Devices \cup {NoDevice}]
        /\ \A s \in Sessions : runs[s] = NoDevice
        /\ \A t \in Threads : pair[t] = NoDevice /\ callee[t] = NoDevice
    BY DEF Init
  <1>1. TypeOK
    BY <1>3, <1>5, <1>6 DEF TypeOK
  <1>2. Owned
    BY DEF Init, Owned, RunningOwned, ShownOwned, DeviceOwned, NextListened
  <1> QED
    BY <1>1, <1>2 DEF ServiceInv

LEMMA GoStep ==
    ASSUME TypeOK, NEW t \in Threads, NEW l, NEW m, Go(t, l, m)
    PROVE  /\ at[t] = l /\ at'[t] = m /\ ~crashed
           /\ \A u \in Threads : u # t => at'[u] = at[u]
           /\ caught' = caught /\ lost' = lost /\ crashed' = crashed
  BY DEF Go, TypeOK, failures

(* A thread goes from one stage to another: what is left of the types.     *)
LEMMA GoType ==
    ASSUME TypeOK, NEW t \in Threads, NEW l, NEW m, Go(t, l, m),
           IF t = Main THEN m \in MainStages ELSE m \in SessionStages \ {"off"},
           l # "off", runs' = runs,
           asked' \subseteq Devices, connecting' \subseteq asked', starts' \in Nat,
           workQueue' \in Seq(Devices), isRunning' \in BOOLEAN,
           thisSdrDevice' \in Devices \cup {NoDevice},
           callback' \in {"none", "running", "notRunning"},
           listeners' \in [Devices -> Nat],
           NEW p \in Devices \cup {NoDevice}, pair' = [pair EXCEPT ![t] = p],
           (m \in Starting) <=> (p # NoDevice),
           NEW c \in Devices \cup {NoDevice}, callee' = [callee EXCEPT ![t] = c],
           (m = "lock") <=> (c # NoDevice)
    PROVE  TypeOK'
  <1>1. /\ at[t] = l /\ at' = [at EXCEPT ![t] = m] /\ UNCHANGED failures
    BY DEF Go
  <1>2. /\ at' \in [Threads -> MainStages \cup SessionStages]
        /\ at'[t] = m /\ \A u \in Threads : u # t => at'[u] = at[u]
    BY <1>1 DEF TypeOK
  <1>3. at'[Main] \in MainStages /\ \A s \in Sessions : at'[s] \in SessionStages
    BY <1>2, ThreadFacts DEF TypeOK
  <1>4. \A s \in Sessions : (at'[s] = "off") <=> (runs'[s] = NoDevice)
    <2>1. m # "off"
      BY DEF MainStages, Start, Starting, Stopping
    <2> QED
      BY <1>1, <1>2, <2>1, ThreadFacts DEF TypeOK
  <1>5. /\ pair' \in [Threads -> Devices \cup {NoDevice}]
        /\ \A u \in Threads : (at'[u] \in Starting) <=> (pair'[u] # NoDevice)
    BY <1>2 DEF TypeOK
  <1>6. /\ callee' \in [Threads -> Devices \cup {NoDevice}]
        /\ \A u \in Threads : (at'[u] = "lock") <=> (callee'[u] # NoDevice)
    BY <1>2 DEF TypeOK
  <1>7. /\ caught' \in [Sessions -> 0..MaxCatches]
        /\ lost' \in BOOLEAN /\ crashed' \in BOOLEAN
        /\ runs' \in [Sessions -> Devices \cup {NoDevice}]
    BY <1>1 DEF TypeOK, failures
  <1> QED
    BY <1>2, <1>3, <1>4, <1>5, <1>6, <1>7 DEF TypeOK

(* The same when it has no pair in hand, or keeps it.                      *)
LEMMA GoTypeSame ==
    ASSUME TypeOK, NEW t \in Threads, NEW l, NEW m, Go(t, l, m),
           IF t = Main THEN m \in MainStages ELSE m \in SessionStages \ {"off"},
           l # "off", runs' = runs,
           asked' \subseteq Devices, connecting' \subseteq asked', starts' \in Nat,
           workQueue' \in Seq(Devices), isRunning' \in BOOLEAN,
           thisSdrDevice' \in Devices \cup {NoDevice},
           callback' \in {"none", "running", "notRunning"},
           listeners' \in [Devices -> Nat],
           pair' = pair, callee' = callee,
           (l \in Starting) <=> (m \in Starting), l # "lock", m # "lock"
    PROVE  TypeOK'
  <1>1. at[t] = l
    BY DEF Go
  <1>2. /\ pair[t] \in Devices \cup {NoDevice} /\ pair' = [pair EXCEPT ![t] = pair[t]]
        /\ (m \in Starting) <=> (pair[t] # NoDevice)
    BY <1>1 DEF TypeOK
  <1>3. /\ callee[t] \in Devices \cup {NoDevice}
        /\ callee' = [callee EXCEPT ![t] = callee[t]]
        /\ (m = "lock") <=> (callee[t] # NoDevice)
    BY <1>1 DEF TypeOK
  <1> QED
    BY <1>2, <1>3, GoType

(* ... and of the owners, when the field and the listeners stay.           *)
LEMMA Frame ==
    ASSUME TypeOK, Owned, NEW t \in Threads, NEW l, NEW m, Go(t, l, m),
           listeners' = listeners, runs' = runs, thisSdrDevice' = thisSdrDevice,
           \A u \in Threads : u # t => callee'[u] = callee[u],
           thisSdrDevice # NoDevice /\ Keeps(t) => Keeps(t)',
           thisSdrDevice # NoDevice /\ l \in {"lock", "open"}
               => m \in {"lock", "open"} \/ Keeps(t)',
           t \in Sessions /\ l \notin {"off", "gone"} /\ listeners[runs[t]] > 0
               => m \notin {"off", "gone"},
           isRunning' /\ thisSdrDevice = NoDevice
               => m \in Renewing \/ (isRunning /\ l \notin Renewing),
           callback' = "running" /\ thisSdrDevice = NoDevice
               => \/ m \in Renewing \cup {"tellNot", "clear"}
                  \/ callback = "running" /\ l \notin Renewing \cup {"tellNot", "clear"}
    PROVE  Owned'
  <1>1. /\ at[t] = l /\ at'[t] = m
        /\ \A u \in Threads : u # t => at'[u] = at[u]
    BY GoStep
  <1>2. Heard => Heard'
    BY <1>1, ThreadFacts DEF Heard
  <1>3. \A u \in Threads : thisSdrDevice # NoDevice /\ Keeps(u) => Keeps(u)'
    BY <1>1 DEF Keeps
  <1>4. RunningOwned'
    BY <1>1 DEF Owned, RunningOwned
  <1>5. ShownOwned'
    BY <1>1 DEF Owned, ShownOwned
  <1>6. NextListened'
    BY <1>3 DEF Owned, NextListened
  <1>7. DeviceOwned'
    BY <1>1, <1>2, <1>3 DEF Owned, DeviceOwned
  <1> QED
    BY <1>4, <1>5, <1>6, <1>7 DEF Owned

(* An exception.  One that is not lost finds the field reset, by a thread  *)
(* that is not the one it is thrown in, or the callbacks being cleared.    *)
LEMMA ThrowStep ==
    ASSUME ServiceInv, NEW t \in Threads, NEW l, Throw(t, l),
           UNCHANGED <<messages, workQueue, fields, callback, devices, callee>>,
           \/ l \in {"tell", "listen", "open"}
           \/ l \in {"check", "name", "deref"} /\ thisSdrDevice = NoDevice
           \/ l = "tellNot" /\ Torn(t)
    PROVE  ServiceInv'
  <1>1. /\ UNCHANGED <<asked, starts, connecting, workQueue, isRunning, thisSdrDevice>>
        /\ UNCHANGED <<callback, listeners, runs, callee>>
        /\ lost' \in BOOLEAN /\ (lost => lost')
        /\ at[t] = l /\ l \notin {"off", "gone", "lock"}
        /\ l \in {"tell", "listen", "open"} => lost'
    BY DEF Throw, Caught, Uncaught, messages, fields, devices, ServiceInv, TypeOK
  <1>2. CASE Uncaught(t, l)
    <2>1. at' = at /\ pair' = pair /\ caught' = caught /\ crashed' = TRUE
      BY <1>2 DEF Uncaught
    <2>2. TypeOK'
      BY <1>1, <2>1 DEF ServiceInv, TypeOK
    <2>3. Owned => Owned'
      BY <1>1, <2>1 DEF Owned, RunningOwned, ShownOwned, NextListened, DeviceOwned,
         Keeps, Heard
    <2> QED
      BY <1>1, <2>2, <2>3 DEF ServiceInv
  <1>3. CASE Caught(t, l)
    <2>1. /\ t \in Sessions /\ caught[t] < MaxCatches
          /\ caught' = [caught EXCEPT ![t] = @ + 1]
          /\ at' = [at EXCEPT ![t] = "caught"]
          /\ pair' = [pair EXCEPT ![t] = NoDevice] /\ crashed' = crashed
      BY <1>3 DEF Caught
    <2>2. /\ at' \in [Threads -> MainStages \cup SessionStages]
          /\ at'[t] = "caught" /\ \A u \in Threads : u # t => at'[u] = at[u]
          /\ at'[Main] \in MainStages /\ \A s \in Sessions : at'[s] \in SessionStages
      BY <2>1, ThreadFacts DEF ServiceInv, TypeOK, SessionStages
    <2>3. caught' \in [Sessions -> 0..MaxCatches]
      <3>1. caught[t] + 1 \in 0..MaxCatches
        BY <2>1, RunnerAssumption DEF ServiceInv, TypeOK
      <3> QED
        BY <2>1, <3>1 DEF ServiceInv, TypeOK
    <2>4. /\ pair' \in [Threads -> Devices \cup {NoDevice}]
          /\ \A u \in Threads : (at'[u] \in Starting) <=> (pair'[u] # NoDevice)
      BY <2>1, <2>2 DEF ServiceInv, TypeOK, Starting
    <2>5. /\ \A u \in Threads : (at'[u] = "lock") <=> (callee'[u] # NoDevice)
          /\ \A s \in Sessions : (at'[s] = "off") <=> (runs'[s] = NoDevice)
      BY <1>1, <2>1, <2>2, ThreadFacts DEF ServiceInv, TypeOK
    <2>6. TypeOK'
      BY <1>1, <2>1, <2>2, <2>3, <2>4, <2>5 DEF ServiceInv, TypeOK
    <2>7. ASSUME ~lost' PROVE Owned'
      <3>1. /\ Owned
            /\ \/ l \in {"check", "name"} /\ thisSdrDevice = NoDevice
               \/ l = "deref"
               \/ l = "tellNot" /\ Torn(t)
        BY <1>1, <2>7 DEF ServiceInv
      <3>2. l # "deref"
        BY <1>1, <2>1, ThreadFacts
           DEF ServiceInv, TypeOK, SessionStages, Hearing, Start, Starting, Stopping
      <3>3. Heard => Heard'
        BY <1>1, <2>2, ThreadFacts DEF Heard
      <3>4. CASE l \in {"check", "name"} /\ thisSdrDevice = NoDevice
        <4>1. l \notin Renewing \cup {"tellNot", "clear"}
          BY <3>4 DEF Renewing
        <4> QED
          BY <1>1, <2>2, <3>1, <3>4, <4>1
             DEF Owned, RunningOwned, ShownOwned, NextListened, DeviceOwned
      <3>5. CASE l = "tellNot" /\ Torn(t)
        <4>1. PICK u \in Threads \ {t} : at[u] = "clear"
          BY <3>5 DEF Torn
        <4>2. at'[u] = "clear"
          BY <2>2, <4>1
        <4>3. \A w \in Threads : Keeps(w) => Keeps(w)'
          BY <1>1, <2>2, <3>5 DEF Keeps
        <4>4. RunningOwned'
          BY <1>1, <2>2, <3>1, <3>5 DEF Owned, RunningOwned, Renewing
        <4>5. NextListened' /\ DeviceOwned'
          BY <1>1, <2>2, <3>1, <3>3, <3>5, <4>3 DEF Owned, NextListened, DeviceOwned
        <4> QED
          BY <4>2, <4>4, <4>5 DEF Owned, ShownOwned
      <3> QED
        BY <3>1, <3>2, <3>4, <3>5
    <2> QED
      BY <2>6, <2>7 DEF ServiceInv
  <1> QED
    BY <1>2, <1>3 DEF Throw

LEMMA NotRunningStep ==
    ASSUME ServiceInv, NEW t \in Threads, NotRunning(t) PROVE ServiceInv'
  <1>1. /\ Go(t, "notRunning", "tellNot")
        /\ UNCHANGED <<asked, starts, connecting, workQueue, thisSdrDevice, callback,
                       listeners, runs, pair, callee>>
        /\ isRunning' = FALSE
    BY DEF NotRunning, messages, fields, devices
  <1>2. TypeOK'
    BY <1>1, GoTypeSame, ThreadFacts DEF ServiceInv, TypeOK, Done, MainStages, SessionStages, Hearing,
         Start, Starting, Stopping
  <1>3. ASSUME ~lost' PROVE Owned'
    <2>1. TypeOK /\ Owned /\ t \in Threads /\ at[t] = "notRunning" /\ at'[t] = "tellNot"
      BY <1>1, <1>3, GoStep, ThreadFacts DEF ServiceInv
    <2>2. ~Keeps(t)
      BY <1>1, <2>1 DEF Keeps
    <2> QED
      BY <1>1, <2>1, <2>2, Frame, ThreadFacts DEF Done, Renewing, Start
  <1> QED
    BY <1>2, <1>3 DEF ServiceInv

LEMMA ClearStep ==
    ASSUME ServiceInv, NEW t \in Threads, Clear(t) PROVE ServiceInv'
  <1>1. /\ Go(t, "clear", Done(t))
        /\ UNCHANGED <<asked, starts, connecting, workQueue, isRunning, thisSdrDevice,
                       listeners, runs, pair, callee>>
        /\ callback' = "none"
    BY DEF Clear, messages, fields, devices
  <1>2. TypeOK'
    BY <1>1, GoTypeSame, ThreadFacts DEF ServiceInv, TypeOK, Done, MainStages, SessionStages, Hearing,
         Start, Starting, Stopping
  <1>3. ASSUME ~lost' PROVE Owned'
    <2>1. TypeOK /\ Owned /\ t \in Threads /\ at[t] = "clear" /\ at'[t] = Done(t)
      BY <1>1, <1>3, GoStep, ThreadFacts DEF ServiceInv
    <2>2. ~Keeps(t)
      BY <1>1, <2>1 DEF Keeps
    <2> QED
      BY <1>1, <2>1, <2>2, Frame, ThreadFacts DEF Done, Renewing, Start
  <1> QED
    BY <1>2, <1>3 DEF ServiceInv

LEMMA AnnounceStep ==
    ASSUME ServiceInv, NEW t \in Threads, Announce(t) PROVE ServiceInv'
  <1>1. /\ Go(t, "announce", "tell")
        /\ UNCHANGED <<asked, starts, connecting, workQueue, thisSdrDevice, callback,
                       listeners, runs, pair, callee>>
        /\ isRunning' = TRUE
    BY DEF Announce, messages, fields, devices
  <1>2. TypeOK'
    BY <1>1, GoTypeSame, ThreadFacts DEF ServiceInv, TypeOK, Done, MainStages, SessionStages, Hearing,
         Start, Starting, Stopping
  <1>3. ASSUME ~lost' PROVE Owned'
    <2>1. TypeOK /\ Owned /\ t \in Threads /\ at[t] = "announce" /\ at'[t] = "tell"
      BY <1>1, <1>3, GoStep, ThreadFacts DEF ServiceInv
    <2>2. Keeps(t)'
      BY <1>1, <2>1 DEF Keeps
    <2> QED
      BY <1>1, <2>1, <2>2, Frame, ThreadFacts DEF Done, Renewing, Start
  <1> QED
    BY <1>2, <1>3 DEF ServiceInv

LEMMA OnStartCommandStep ==
    ASSUME ServiceInv, OnStartCommand PROVE ServiceInv'
  <1>1. /\ Go(Main, "idle", "poll")
        /\ UNCHANGED <<asked, connecting, workQueue, isRunning, thisSdrDevice, callback,
                       listeners, runs, pair, callee>>
        /\ starts > 0 /\ starts' = starts - 1
    BY DEF OnStartCommand, messages, fields, devices
  <1>4. starts' \in Nat
    BY <1>1 DEF ServiceInv, TypeOK
  <1>2. TypeOK'
    BY <1>1, <1>4, GoTypeSame, ThreadFacts DEF ServiceInv, TypeOK, Done, MainStages,
         SessionStages, Hearing, Start, Starting, Stopping
  <1>3. ASSUME ~lost' PROVE Owned'
    <2>1. TypeOK /\ Owned /\ Main \in Threads /\ at[Main] = "idle" /\ at'[Main] = "poll"
      BY <1>1, <1>3, GoStep, ThreadFacts DEF ServiceInv
    <2>2. ~Keeps(Main)
      BY <1>1, <2>1 DEF Keeps
    <2> QED
      BY <1>1, <2>1, <2>2, Frame, ThreadFacts DEF Done, Renewing, Start
  <1> QED
    BY <1>2, <1>3 DEF ServiceInv

LEMMA ToggleStep ==
    ASSUME ServiceInv, Toggle PROVE ServiceInv'
  <1>1. /\ Go(Main, "idle", "close")
        /\ UNCHANGED <<asked, starts, connecting, workQueue, isRunning, thisSdrDevice,
                       callback, listeners, runs, pair, callee>>
    BY DEF Toggle, messages, fields, devices
  <1>2. TypeOK'
    BY <1>1, GoTypeSame, ThreadFacts DEF ServiceInv, TypeOK, Done, MainStages, SessionStages, Hearing,
         Start, Starting, Stopping
  <1>3. ASSUME ~lost' PROVE Owned'
    <2>1. TypeOK /\ Owned /\ Main \in Threads /\ at[Main] = "idle" /\ at'[Main] = "close"
      BY <1>1, <1>3, GoStep, ThreadFacts DEF ServiceInv
    <2>2. ~Keeps(Main)
      BY <1>1, <2>1 DEF Keeps
    <2> QED
      BY <1>1, <2>1, <2>2, Frame, ThreadFacts DEF Done, Renewing, Start
  <1> QED
    BY <1>2, <1>3 DEF ServiceInv

LEMMA CloseServiceStep ==
    ASSUME ServiceInv, CloseService PROVE ServiceInv'
  <1>1. /\ Go(Main, "close", IF isRunning THEN "deref" ELSE "idle")
        /\ UNCHANGED <<asked, starts, connecting, workQueue, isRunning, thisSdrDevice,
                       callback, listeners, runs, pair, callee>>
    BY DEF CloseService, messages, fields, devices
  <1>2. TypeOK'
    BY <1>1, GoTypeSame, ThreadFacts DEF ServiceInv, TypeOK, Done, MainStages, SessionStages, Hearing,
         Start, Starting, Stopping
  <1>3. ASSUME ~lost' PROVE Owned'
    <2>1. TypeOK /\ Owned /\ Main \in Threads /\ at[Main] = "close" /\ at'[Main] = IF isRunning THEN "deref" ELSE "idle"
      BY <1>1, <1>3, GoStep, ThreadFacts DEF ServiceInv
    <2>2. ~Keeps(Main)
      BY <1>1, <2>1 DEF Keeps
    <2> QED
      BY <1>1, <2>1, <2>2, Frame, ThreadFacts DEF Done, Renewing, Start
  <1> QED
    BY <1>2, <1>3 DEF ServiceInv

LEMMA EndsStep ==
    ASSUME ServiceInv, NEW s \in Sessions, Ends(s) PROVE ServiceInv'
  <1>1. /\ Go(s, "running", "heard")
        /\ UNCHANGED <<asked, starts, connecting, workQueue, isRunning, thisSdrDevice,
                       callback, listeners, runs, pair, callee>>
    BY DEF Ends, AnnounceOnClosed, messages, fields, devices
  <1>2. TypeOK'
    BY <1>1, GoTypeSame, ThreadFacts DEF ServiceInv, TypeOK, Done, MainStages, SessionStages, Hearing,
         Start, Starting, Stopping
  <1>3. ASSUME ~lost' PROVE Owned'
    <2>1. TypeOK /\ Owned /\ s \in Threads /\ at[s] = "running" /\ at'[s] = "heard"
      BY <1>1, <1>3, GoStep, ThreadFacts DEF ServiceInv
    <2>2. ~Keeps(s)
      BY <1>1, <2>1 DEF Keeps
    <2> QED
      BY <1>1, <2>1, <2>2, Frame, ThreadFacts DEF Done, Renewing, Start
  <1> QED
    BY <1>2, <1>3 DEF ServiceInv

LEMMA AnnounceAgainStep ==
    ASSUME ServiceInv, NEW s \in Sessions, AnnounceOnClosed(s, "caught") PROVE ServiceInv'
  <1>1. /\ Go(s, "caught", "heard")
        /\ UNCHANGED <<asked, starts, connecting, workQueue, isRunning, thisSdrDevice,
                       callback, listeners, runs, pair, callee>>
    BY DEF AnnounceOnClosed, messages, fields, devices
  <1>2. TypeOK'
    BY <1>1, GoTypeSame, ThreadFacts DEF ServiceInv, TypeOK, Done, MainStages, SessionStages, Hearing,
         Start, Starting, Stopping
  <1>3. ASSUME ~lost' PROVE Owned'
    <2>1. TypeOK /\ Owned /\ s \in Threads /\ at[s] = "caught" /\ at'[s] = "heard"
      BY <1>1, <1>3, GoStep, ThreadFacts DEF ServiceInv
    <2>2. ~Keeps(s)
      BY <1>1, <2>1 DEF Keeps
    <2> QED
      BY <1>1, <2>1, <2>2, Frame, ThreadFacts DEF Done, Renewing, Start
  <1> QED
    BY <1>2, <1>3 DEF ServiceInv

LEMMA PollStep ==
    ASSUME ServiceInv, NEW t \in Threads, Poll(t) PROVE ServiceInv'
  <1> USE DEF Starting, Stopping, Start, MainStages, SessionStages, Hearing
  <1>1. UNCHANGED <<asked, starts, connecting, isRunning, thisSdrDevice, callback,
                    listeners, runs, callee>>
    BY DEF Poll, messages, fields, devices
  <1>2. PICK m \in {"notRunning", "assign"} : Go(t, "poll", m)
    BY DEF Poll
  <1>3. TypeOK'
    <2>1. CASE workQueue = <<>>
      <3>1. Go(t, "poll", "notRunning") /\ UNCHANGED <<workQueue, pair>>
        BY <2>1 DEF Poll
      <3> QED
        BY <1>1, <3>1, GoTypeSame, ThreadFacts DEF ServiceInv, TypeOK
    <2>2. CASE workQueue # <<>>
      <3>1. /\ Go(t, "poll", "assign") /\ workQueue' = Tail(workQueue)
            /\ pair' = [pair EXCEPT ![t] = Head(workQueue)]
        BY <2>2 DEF Poll
      <3>2. Head(workQueue) \in Devices /\ workQueue' \in Seq(Devices)
        BY <2>2, <3>1 DEF ServiceInv, TypeOK
      <3>3. callee' = [callee EXCEPT ![t] = NoDevice]
        BY <1>1, <3>1 DEF Go, ServiceInv, TypeOK
      <3>4. /\ asked' \subseteq Devices /\ connecting' \subseteq asked' /\ starts' \in Nat
            /\ isRunning' \in BOOLEAN /\ thisSdrDevice' \in Devices \cup {NoDevice}
            /\ callback' \in {"none", "running", "notRunning"}
            /\ listeners' \in [Devices -> Nat] /\ TypeOK
        BY <1>1 DEF ServiceInv, TypeOK
      <3> QED
        BY <1>1, <3>1, <3>2, <3>3, <3>4, GoType, ThreadFacts
    <2> QED
      BY <2>1, <2>2
  <1>4. ASSUME ~lost' PROVE Owned'
    <2>1. TypeOK /\ Owned /\ at[t] = "poll"
      BY <1>2, <1>4, GoStep DEF ServiceInv
    <2>2. ~Keeps(t)
      BY <2>1 DEF Keeps
    <2> QED
      BY <1>1, <1>2, <2>1, <2>2, Frame, ThreadFacts DEF Renewing
  <1> QED
    BY <1>3, <1>4 DEF ServiceInv

LEMMA TellNotStep ==
    ASSUME ServiceInv, NEW t \in Threads, TellNot(t) PROVE ServiceInv'
  <1>1. CASE Go(t, "tellNot", "clear") /\ UNCHANGED pair /\ Tells("notRunning")
    <2>1. /\ UNCHANGED <<asked, starts, connecting, workQueue, isRunning, thisSdrDevice,
                         listeners, runs, pair, callee>>
          /\ callback' \in {"none", "notRunning"}
      BY <1>1 DEF TellNot, Tells, messages, fields, devices
    <2>2. TypeOK'
      BY <1>1, <2>1, GoTypeSame, ThreadFacts DEF ServiceInv, TypeOK, MainStages,
         SessionStages, Hearing, Start, Starting, Stopping
    <2>3. ASSUME ~lost' PROVE Owned'
      <3>1. TypeOK /\ Owned /\ at[t] = "tellNot"
        BY <1>1, <2>3, GoStep DEF ServiceInv
      <3>2. ~Keeps(t)
        BY <3>1 DEF Keeps
      <3> QED
        BY <1>1, <2>1, <3>1, <3>2, Frame, ThreadFacts DEF Renewing
    <2> QED
      BY <2>2, <2>3 DEF ServiceInv
  <1>2. CASE Torn(t) /\ Throw(t, "tellNot") /\ UNCHANGED callback
    BY <1>2, ThrowStep DEF TellNot
  <1> QED
    BY <1>1, <1>2 DEF TellNot

LEMMA AssignStep ==
    ASSUME ServiceInv, NEW t \in Threads, Assign(t) PROVE ServiceInv'
  <1>1. /\ Go(t, "assign", "check") /\ thisSdrDevice' = pair[t]
        /\ UNCHANGED <<asked, starts, connecting, workQueue, isRunning, callback,
                       listeners, runs, pair, callee>>
    BY DEF Assign, messages, devices
  <1>2. thisSdrDevice' \in Devices
    BY <1>1 DEF Go, ServiceInv, TypeOK, Starting
  <1>3. TypeOK'
    BY <1>1, <1>2, GoTypeSame, ThreadFacts DEF ServiceInv, TypeOK, MainStages,
       SessionStages, Hearing, Start, Starting, Stopping
  <1>4. Owned'
    <2>1. Keeps(t)'
      BY <1>1, GoStep DEF Keeps, ServiceInv
    <2> QED
      BY <1>2, <2>1, ThreadFacts
         DEF Owned, RunningOwned, ShownOwned, NextListened, DeviceOwned
  <1> QED
    BY <1>3, <1>4 DEF ServiceInv

LEMMA CheckDeviceStep ==
    ASSUME ServiceInv, NEW t \in Threads, CheckDevice(t) PROVE ServiceInv'
  <1>1. UNCHANGED <<asked, starts, connecting, workQueue, isRunning, thisSdrDevice,
                    callback, listeners, runs, callee>>
    BY DEF CheckDevice, messages, fields, devices
  <1>2. CASE thisSdrDevice = NoDevice
    BY <1>2, ThrowStep DEF CheckDevice
  <1>3. CASE thisSdrDevice # NoDevice
    <2>1. Go(t, "check", "announce") /\ UNCHANGED pair
      BY <1>3 DEF CheckDevice
    <2>2. TypeOK'
      BY <1>1, <2>1, GoTypeSame, ThreadFacts DEF ServiceInv, TypeOK, MainStages,
         SessionStages, Hearing, Start, Starting, Stopping
    <2>3. ASSUME ~lost' PROVE Owned'
      <3>1. TypeOK /\ Owned /\ at[t] = "check" /\ at'[t] = "announce"
        BY <2>1, <2>3, GoStep DEF ServiceInv
      <3>2. Keeps(t)'
        BY <3>1 DEF Keeps
      <3> QED
        BY <1>1, <1>3, <2>1, <3>1, <3>2, Frame, ThreadFacts
    <2> QED
      BY <2>2, <2>3 DEF ServiceInv
  <1> QED
    BY <1>2, <1>3

LEMMA TellStep ==
    ASSUME ServiceInv, NEW t \in Threads, Tell(t) PROVE ServiceInv'
  <1>1. CASE Go(t, "tell", "listen") /\ UNCHANGED pair /\ Tells("running")
    <2>1. /\ UNCHANGED <<asked, starts, connecting, workQueue, isRunning, thisSdrDevice,
                         listeners, runs, pair, callee>>
          /\ callback' \in {"none", "running"}
      BY <1>1 DEF Tell, Tells, messages, fields, devices
    <2>2. TypeOK'
      BY <1>1, <2>1, GoTypeSame, ThreadFacts DEF ServiceInv, TypeOK, MainStages,
         SessionStages, Hearing, Start, Starting, Stopping
    <2>3. ASSUME ~lost' PROVE Owned'
      <3>1. TypeOK /\ Owned /\ at[t] = "tell" /\ at'[t] = "listen"
        BY <1>1, <2>3, GoStep DEF ServiceInv
      <3>2. Keeps(t)'
        BY <3>1 DEF Keeps
      <3> QED
        BY <1>1, <2>1, <3>1, <3>2, Frame, ThreadFacts DEF Renewing
    <2> QED
      BY <2>2, <2>3 DEF ServiceInv
  <1>2. CASE Torn(t) /\ Throw(t, "tell") /\ UNCHANGED callback
    BY <1>2, ThrowStep DEF Tell
  <1> QED
    BY <1>1, <1>2 DEF Tell

LEMMA ListenStep ==
    ASSUME ServiceInv, NEW t \in Threads, Listen(t) PROVE ServiceInv'
  <1>1. UNCHANGED <<asked, starts, connecting, workQueue, isRunning, thisSdrDevice,
                    callback, listeners, runs>>
    BY DEF Listen, messages, fields, devices
  <1>2. CASE thisSdrDevice = NoDevice
    BY <1>2, ThrowStep DEF Listen
  <1>3. CASE thisSdrDevice # NoDevice
    <2>1. /\ Go(t, "listen", "lock") /\ UNCHANGED pair
          /\ callee' = [callee EXCEPT ![t] = thisSdrDevice]
      BY <1>3 DEF Listen
    <2>2. TypeOK'
      <3>1. /\ pair[t] \in Devices \cup {NoDevice} /\ pair[t] # NoDevice
            /\ pair' = [pair EXCEPT ![t] = pair[t]]
        BY <2>1 DEF Go, ServiceInv, TypeOK, Starting
      <3>2. /\ asked' \subseteq Devices /\ connecting' \subseteq asked' /\ starts' \in Nat
            /\ workQueue' \in Seq(Devices) /\ isRunning' \in BOOLEAN
            /\ thisSdrDevice' \in Devices \cup {NoDevice}
            /\ callback' \in {"none", "running", "notRunning"}
            /\ listeners' \in [Devices -> Nat] /\ TypeOK
            /\ thisSdrDevice \in Devices \cup {NoDevice}
        BY <1>1 DEF ServiceInv, TypeOK
      <3>3. /\ "lock" \in MainStages /\ "lock" \in SessionStages \ {"off"}
            /\ "lock" \in Starting
        BY DEF MainStages, SessionStages, Hearing, Start, Starting
      <3> QED
        BY <1>1, <1>3, <2>1, <3>1, <3>2, <3>3, GoType
    <2>3. ASSUME ~lost' PROVE Owned'
      <3>1. TypeOK /\ Owned /\ at[t] = "listen" /\ at'[t] = "lock"
        BY <2>1, <2>3, GoStep DEF ServiceInv
      <3>2. Keeps(t)' /\ \A u \in Threads : u # t => callee'[u] = callee[u]
        BY <1>1, <2>1, <3>1 DEF Keeps, TypeOK
      <3> QED
        BY <1>1, <1>3, <2>1, <3>1, <3>2, Frame, ThreadFacts
    <2> QED
      BY <2>2, <2>3 DEF ServiceInv
  <1> QED
    BY <1>2, <1>3

LEMMA AddListenerStep ==
    ASSUME ServiceInv, NEW t \in Threads, AddListener(t) PROVE ServiceInv'
  <1>1. /\ UNCHANGED <<asked, starts, connecting, workQueue, isRunning, thisSdrDevice,
                       callback, runs, pair>>
        /\ Go(t, "lock", "open")
        /\ listeners' = [listeners EXCEPT ![callee[t]] = @ + 1]
        /\ callee' = [callee EXCEPT ![t] = NoDevice]
    BY DEF AddListener, messages, fields
  <1>2. /\ callee[t] \in Devices /\ pair[t] \in Devices \cup {NoDevice}
        /\ pair[t] # NoDevice /\ TypeOK
    BY <1>1 DEF Go, ServiceInv, TypeOK, Starting
  <1>3. /\ listeners' \in [Devices -> Nat] /\ listeners'[callee[t]] > 0
        /\ \A d \in Devices : listeners[d] > 0 => listeners'[d] > 0
    BY <1>1, <1>2 DEF TypeOK
  <1>4. TypeOK'
    <2>1. /\ "open" \in MainStages /\ "open" \in SessionStages \ {"off"}
          /\ "open" \in Starting
      BY DEF MainStages, SessionStages, Hearing, Start, Starting
    <2>2. /\ asked' \subseteq Devices /\ connecting' \subseteq asked' /\ starts' \in Nat
          /\ workQueue' \in Seq(Devices) /\ isRunning' \in BOOLEAN
          /\ thisSdrDevice' \in Devices \cup {NoDevice}
          /\ callback' \in {"none", "running", "notRunning"}
      BY <1>1 DEF ServiceInv, TypeOK
    <2>3. pair' = [pair EXCEPT ![t] = pair[t]]
      BY <1>1 DEF ServiceInv, TypeOK
    <2>4. /\ runs' = runs /\ IF t = Main THEN "open" \in MainStages
                                           ELSE "open" \in SessionStages \ {"off"}
          /\ ("open" \in Starting) <=> (pair[t] # NoDevice)
          /\ ("open" = "lock") <=> (NoDevice # NoDevice)
          /\ NoDevice \in Devices \cup {NoDevice}
      BY <1>1, <1>2, <2>1
    <2> QED
      BY <1>1, <1>2, <1>3, <2>2, <2>3, <2>4, GoType
  <1>5. ASSUME ~lost' PROVE Owned'
    <2>1. /\ Owned /\ at[t] = "lock" /\ at'[t] = "open"
          /\ \A u \in Threads : u # t => at'[u] = at[u] /\ callee'[u] = callee[u]
      BY <1>1, <1>2, <1>5, GoStep DEF ServiceInv, TypeOK
    <2>2. NextListened'
      <3>1. CASE thisSdrDevice = callee[t]
        BY <1>1, <1>3, <3>1 DEF NextListened
      <3>2. CASE thisSdrDevice # callee[t]
        <4>1. ~Keeps(t) /\ \A u \in Threads : Keeps(u) => Keeps(u)'
          BY <1>1, <2>1, <3>2 DEF Keeps
        <4>2. thisSdrDevice \in Devices \cup {NoDevice}
          BY <1>2 DEF TypeOK
        <4> QED
          BY <1>1, <1>3, <2>1, <4>1, <4>2 DEF Owned, NextListened
      <3> QED
        BY <3>1, <3>2
    <2>3. RunningOwned' /\ ShownOwned' /\ DeviceOwned'
      BY <2>1 DEF RunningOwned, ShownOwned, DeviceOwned, Renewing
    <2> QED
      BY <2>2, <2>3 DEF Owned
  <1> QED
    BY <1>4, <1>5 DEF ServiceInv

LEMMA OpenStep ==
    ASSUME ServiceInv, NEW t \in Threads, Open(t) PROVE ServiceInv'
  <1>1. /\ UNCHANGED <<asked, starts, connecting, workQueue, isRunning, thisSdrDevice,
                       callback, listeners, callee>>
        /\ at[t] = "open"
    BY DEF Open, messages, fields
  <1>2. CASE thisSdrDevice = NoDevice
    BY <1>2, ThrowStep DEF Open, devices
  <1>3. CASE thisSdrDevice # NoDevice
    <2>1. /\ at[pair[t]] = "off" /\ runs' = [runs EXCEPT ![pair[t]] = thisSdrDevice]
          /\ at' = [at EXCEPT ![t] = Done(t), ![pair[t]] = "running"]
          /\ pair' = [pair EXCEPT ![t] = NoDevice]
          /\ UNCHANGED <<caught, lost, crashed>>
      BY <1>3 DEF Open, StartSession, failures
    <2>2. pair[t] \in Sessions /\ pair[t] \in Threads /\ pair[t] # t
      BY <1>1, <2>1, ThreadFacts DEF ServiceInv, TypeOK, Starting
    <2>3. /\ at'[t] = Done(t) /\ at'[pair[t]] = "running"
          /\ \A u \in Threads : u # t /\ u # pair[t] => at'[u] = at[u]
          /\ pair'[t] = NoDevice /\ \A u \in Threads : u # t => pair'[u] = pair[u]
          /\ runs'[pair[t]] = thisSdrDevice
          /\ \A s \in Sessions : s # pair[t] => runs'[s] = runs[s]
      BY <2>1, <2>2, ThreadFacts DEF ServiceInv, TypeOK
    <2>4. TypeOK'
      <3>1. /\ IF t = Main THEN Done(t) \in MainStages ELSE Done(t) \in SessionStages
            /\ Done(t) \notin Starting \cup {"off", "lock"}
            /\ "running" \in SessionStages /\ "running" \notin Starting
        BY DEF Done, MainStages, SessionStages, Hearing, Start, Starting
      <3>2. /\ at' \in [Threads -> MainStages \cup SessionStages]
            /\ at'[Main] \in MainStages
            /\ \A s \in Sessions : at'[s] \in SessionStages
        <4>1. Done(t) \in MainStages \cup SessionStages
          BY <3>1
        <4>2. at' \in [Threads -> MainStages \cup SessionStages]
          BY <2>1, <3>1, <4>1 DEF ServiceInv, TypeOK
        <4>3. at'[Main] \in MainStages
          BY <2>2, <2>3, <3>1, ThreadFacts DEF ServiceInv, TypeOK
        <4>4. ASSUME NEW s \in Sessions PROVE at'[s] \in SessionStages
          <5>1. s \in Threads /\ s # Main /\ at[s] \in SessionStages
            BY ThreadFacts DEF ServiceInv, TypeOK
          <5> QED
            BY <2>2, <2>3, <3>1, <5>1
        <4> QED
          BY <4>2, <4>3, <4>4
      <3>3. /\ runs' \in [Sessions -> Devices \cup {NoDevice}]
            /\ \A s \in Sessions : (at'[s] = "off") <=> (runs'[s] = NoDevice)
        BY <1>1, <1>3, <2>1, <2>2, <2>3, <3>1, ThreadFacts DEF ServiceInv, TypeOK
      <3>4. /\ pair' \in [Threads -> Devices \cup {NoDevice}]
            /\ \A u \in Threads : (at'[u] \in Starting) <=> (pair'[u] # NoDevice)
        <4>1. pair' \in [Threads -> Devices \cup {NoDevice}]
          BY <2>1 DEF ServiceInv, TypeOK
        <4>2. pair[pair[t]] = NoDevice
          BY <2>1, <2>2 DEF ServiceInv, TypeOK, Starting
        <4> QED
          BY <2>2, <2>3, <3>1, <4>1, <4>2 DEF ServiceInv, TypeOK
      <3>5. \A u \in Threads : (at'[u] = "lock") <=> (callee'[u] # NoDevice)
        BY <1>1, <2>1, <2>2, <2>3, <3>1 DEF ServiceInv, TypeOK
      <3> QED
        BY <1>1, <2>1, <3>2, <3>3, <3>4, <3>5 DEF ServiceInv, TypeOK
    <2>5. ASSUME ~lost' PROVE Owned'
      <3>1. Owned
        BY <2>1, <2>5 DEF ServiceInv
      <3>2. \A u \in Threads : Keeps(u) => Keeps(u)'
        BY <1>1, <2>1, <2>2, <2>3 DEF Keeps
      <3>3. NextListened'
        BY <1>1, <3>1, <3>2 DEF Owned, NextListened
      <3>4. listeners[thisSdrDevice] > 0 => Heard'
        BY <1>1, <2>2, <2>3 DEF Heard
      <3>5. DeviceOwned'
        BY <1>1, <1>3, <3>1, <3>2, <3>4 DEF Owned, NextListened, DeviceOwned
      <3> QED
        BY <1>1, <1>3, <3>3, <3>5 DEF Owned, RunningOwned, ShownOwned
    <2> QED
      BY <2>4, <2>5 DEF ServiceInv
  <1> QED
    BY <1>2, <1>3

LEMMA OnServiceConnectedStep ==
    ASSUME ServiceInv, NEW d \in Devices, OnServiceConnected(d) PROVE ServiceInv'
  <1>1. /\ Go(Main, "idle", "asked") /\ connecting' = connecting \ {d}
        /\ workQueue' = Append(workQueue, d)
        /\ UNCHANGED <<asked, starts, isRunning, thisSdrDevice, callback,
                       listeners, runs, pair, callee>>
    BY DEF OnServiceConnected, fields, devices
  <1>2. workQueue' \in Seq(Devices) /\ connecting' \subseteq asked'
    BY <1>1 DEF ServiceInv, TypeOK
  <1>3. TypeOK'
    BY <1>1, <1>2, GoTypeSame, ThreadFacts DEF ServiceInv, TypeOK, MainStages, Start,
       Starting, Stopping
  <1>4. ASSUME ~lost' PROVE Owned'
    <2>1. TypeOK /\ Owned /\ Main \in Threads /\ at[Main] = "idle"
      BY <1>1, <1>4, GoStep, ThreadFacts DEF ServiceInv
    <2>2. ~Keeps(Main)
      BY <2>1 DEF Keeps
    <2> QED
      BY <1>1, <2>1, <2>2, Frame, ThreadFacts DEF Renewing
  <1> QED
    BY <1>3, <1>4 DEF ServiceInv

LEMMA StartOrCloseStep ==
    ASSUME ServiceInv, StartOrClose PROVE ServiceInv'
  <1>1. /\ starts' \in Nat
        /\ UNCHANGED <<asked, connecting, workQueue, isRunning, thisSdrDevice, callback,
                       listeners, runs, pair, callee>>
    BY DEF StartOrClose, fields, devices, ServiceInv, TypeOK
  <1>2. PICK m \in {"close", "idle"} : Go(Main, "asked", m)
    BY DEF StartOrClose
  <1>3. TypeOK'
    BY <1>1, <1>2, GoTypeSame, ThreadFacts DEF ServiceInv, TypeOK, MainStages, Start,
       Starting, Stopping
  <1>4. ASSUME ~lost' PROVE Owned'
    <2>1. TypeOK /\ Owned /\ Main \in Threads /\ at[Main] = "asked"
      BY <1>2, <1>4, GoStep, ThreadFacts DEF ServiceInv
    <2>2. ~Keeps(Main)
      BY <2>1 DEF Keeps
    <2> QED
      BY <1>1, <1>2, <2>1, <2>2, Frame, ThreadFacts DEF Renewing
  <1> QED
    BY <1>3, <1>4 DEF ServiceInv

LEMMA CloseDeviceStep ==
    ASSUME ServiceInv, CloseDevice PROVE ServiceInv'
  <1>1. UNCHANGED <<asked, starts, connecting, workQueue, isRunning, thisSdrDevice,
                    callback, listeners, runs, callee>>
    BY DEF CloseDevice, messages, fields, devices
  <1>2. CASE thisSdrDevice = NoDevice
    BY <1>2, ThrowStep, ThreadFacts DEF CloseDevice
  <1>3. CASE thisSdrDevice # NoDevice
    <2>1. Go(Main, "deref", "idle") /\ UNCHANGED pair
      BY <1>3 DEF CloseDevice
    <2>2. TypeOK'
      BY <1>1, <2>1, GoTypeSame, ThreadFacts DEF ServiceInv, TypeOK, MainStages, Start,
         Starting, Stopping
    <2>3. ASSUME ~lost' PROVE Owned'
      <3>1. TypeOK /\ Owned /\ Main \in Threads /\ at[Main] = "deref"
        BY <2>1, <2>3, GoStep, ThreadFacts DEF ServiceInv
      <3>2. ~Keeps(Main)
        BY <3>1 DEF Keeps
      <3> QED
        BY <1>1, <2>1, <3>1, <3>2, Frame, ThreadFacts DEF Renewing
    <2> QED
      BY <2>2, <2>3 DEF ServiceInv
  <1> QED
    BY <1>2, <1>3

LEMMA NextListenerStep ==
    ASSUME ServiceInv, NEW s \in Sessions, NextListener(s) PROVE ServiceInv'
  <1>1. /\ UNCHANGED <<asked, starts, connecting, workQueue, isRunning, thisSdrDevice,
                       callback, runs, pair, callee>>
        /\ at[s] = "heard" /\ s \in Threads /\ s # Main
    BY ThreadFacts DEF NextListener, messages, fields
  <1>2. runs[s] \in Devices /\ TypeOK
    BY <1>1 DEF ServiceInv, TypeOK
  <1>3. CASE /\ listeners[runs[s]] > 0
             /\ Go(s, "heard", IF thisSdrDevice = NoDevice THEN "forget" ELSE "name")
             /\ listeners' = [listeners EXCEPT ![runs[s]] = @ - 1]
    <2>1. listeners' \in [Devices -> Nat]
      BY <1>2, <1>3 DEF TypeOK
    <2>2. PICK m \in {"forget", "name"} :
              /\ Go(s, "heard", m)
              /\ m = IF thisSdrDevice = NoDevice THEN "forget" ELSE "name"
      BY <1>3
    <2>3. TypeOK'
      BY <1>1, <1>2, <2>1, <2>2, GoTypeSame DEF TypeOK, SessionStages, Hearing, Start,
         Starting, Stopping
    <2>4. ASSUME ~lost' PROVE Owned'
      <3>1. at'[s] = m
        BY <1>1, <1>2, <2>2, GoStep
      <3>2. CASE thisSdrDevice = NoDevice
        BY <1>1, <2>2, <3>1, <3>2
           DEF Owned, RunningOwned, ShownOwned, NextListened, DeviceOwned, Renewing
      <3>3. CASE thisSdrDevice # NoDevice
        <4>1. Keeps(s)'
          BY <2>2, <3>1, <3>3 DEF Keeps
        <4> QED
          BY <1>1, <3>3, <4>1
             DEF Owned, RunningOwned, ShownOwned, NextListened, DeviceOwned
      <3> QED
        BY <3>2, <3>3
    <2> QED
      BY <2>3, <2>4 DEF ServiceInv
  <1>4. CASE listeners[runs[s]] = 0 /\ Go(s, "heard", "gone") /\ UNCHANGED listeners
    <2>1. TypeOK'
      BY <1>1, <1>2, <1>4, GoTypeSame DEF TypeOK, SessionStages, Hearing, Start,
         Starting, Stopping
    <2>2. ASSUME ~lost' PROVE Owned'
      <3>1. Owned /\ ~Keeps(s)
        BY <1>1, <1>2, <1>4, <2>2, GoStep DEF ServiceInv, Keeps
      <3> QED
        BY <1>1, <1>2, <1>4, <3>1, Frame DEF Renewing
    <2> QED
      BY <2>1, <2>2 DEF ServiceInv
  <1> QED
    BY <1>3, <1>4 DEF NextListener

LEMMA NameDeviceStep ==
    ASSUME ServiceInv, NEW s \in Sessions, NameDevice(s) PROVE ServiceInv'
  <1>1. UNCHANGED <<asked, starts, connecting, workQueue, isRunning, thisSdrDevice,
                    callback, listeners, runs, callee>>
    BY DEF NameDevice, messages, fields, devices
  <1>2. CASE thisSdrDevice = NoDevice
    BY <1>2, ThrowStep, ThreadFacts DEF NameDevice
  <1>3. CASE thisSdrDevice # NoDevice
    <2>1. Go(s, "name", "forget") /\ UNCHANGED pair
      BY <1>3 DEF NameDevice
    <2>2. TypeOK'
      BY <1>1, <2>1, GoTypeSame, ThreadFacts DEF ServiceInv, TypeOK, SessionStages,
         Hearing, Start, Starting, Stopping
    <2>3. ASSUME ~lost' PROVE Owned'
      <3>1. TypeOK /\ Owned /\ s \in Threads /\ at'[s] = "forget"
        BY <2>1, <2>3, GoStep, ThreadFacts DEF ServiceInv
      <3>2. Keeps(s)'
        BY <3>1 DEF Keeps
      <3> QED
        BY <1>1, <1>3, <2>1, <3>1, <3>2, Frame
    <2> QED
      BY <2>2, <2>3 DEF ServiceInv
  <1> QED
    BY <1>2, <1>3

LEMMA ForgetStep ==
    ASSUME ServiceInv, NEW s \in Sessions, Forget(s) PROVE ServiceInv'
  <1>1. /\ UNCHANGED <<asked, starts, connecting, workQueue, isRunning, callback,
                       listeners, runs, pair, callee>>
        /\ Go(s, "forget", "poll") /\ thisSdrDevice' = NoDevice
    BY DEF Forget, messages, devices
  <1>2. TypeOK'
    BY <1>1, GoTypeSame, ThreadFacts DEF ServiceInv, TypeOK, SessionStages, Hearing,
       Start, Starting, Stopping
  <1>3. s \in Threads /\ at'[s] = "poll"
    BY <1>1, GoStep, ThreadFacts DEF ServiceInv
  <1>4. Owned'
    BY <1>1, <1>3
       DEF Owned, RunningOwned, ShownOwned, NextListened, DeviceOwned, Renewing
  <1> QED
    BY <1>2, <1>4 DEF ServiceInv

LEMMA AskStep ==
    ASSUME ServiceInv, NEW d \in Devices, Ask(d) PROVE ServiceInv'
  <1>1. /\ UNCHANGED <<workQueue, isRunning, thisSdrDevice, callback, listeners, runs,
                       at, pair, callee, caught, lost, crashed>>
        /\ asked' = asked \cup {d} /\ connecting' = connecting \cup {d}
        /\ starts' = starts + 1
    BY DEF Ask, fields, devices, failures
  <1>2. TypeOK'
    BY <1>1 DEF ServiceInv, TypeOK
  <1>3. Owned => Owned'
    BY <1>1 DEF Owned, RunningOwned, ShownOwned, NextListened, DeviceOwned, Keeps, Heard
  <1> QED
    BY <1>1, <1>2, <1>3 DEF ServiceInv

LEMMA RegisterCallbackStep ==
    ASSUME ServiceInv, RegisterCallback PROVE ServiceInv'
  <1>1. /\ UNCHANGED <<asked, starts, connecting, workQueue, isRunning, thisSdrDevice,
                       listeners, runs, at, pair, callee, caught, lost, crashed>>
        /\ callback' = IF isRunning THEN "running" ELSE "notRunning"
    BY DEF RegisterCallback, messages, fields, devices, failures
  <1>2. TypeOK'
    BY <1>1 DEF ServiceInv, TypeOK
  <1>3. ASSUME Owned PROVE Owned'
    <2>1. RunningOwned' /\ NextListened' /\ DeviceOwned'
      BY <1>1, <1>3 DEF Owned, RunningOwned, NextListened, DeviceOwned, Keeps, Heard
    <2>2. ShownOwned'
      BY <1>1, <1>3 DEF Owned, RunningOwned, ShownOwned
    <2> QED
      BY <2>1, <2>2 DEF Owned
  <1> QED
    BY <1>1, <1>2, <1>3 DEF ServiceInv

LEMMA SameInv ==
    ASSUME ServiceInv, UNCHANGED vars PROVE ServiceInv'
  BY DEF ServiceInv, TypeOK, Owned, RunningOwned, ShownOwned, NextListened, DeviceOwned,
     Keeps, Heard, vars

LEMMA StartStep ==
    ASSUME ServiceInv, NEW t \in Threads, StartWithDevice(t) PROVE ServiceInv'
  BY PollStep, NotRunningStep, TellNotStep, ClearStep, AssignStep, CheckDeviceStep,
     AnnounceStep, TellStep, ListenStep, AddListenerStep, OpenStep DEF StartWithDevice

LEMMA NextInv == ServiceInv /\ [Next]_vars => ServiceInv'
  <1> SUFFICES ASSUME ServiceInv, [Next]_vars PROVE ServiceInv'
    OBVIOUS
  <1>1. CASE MainStep
    BY <1>1, ThreadFacts, StartStep, OnStartCommandStep, StartOrCloseStep,
       CloseServiceStep, CloseDeviceStep, OnServiceConnectedStep DEF MainStep
  <1>2. CASE Toggle \/ RegisterCallback \/ \E d \in Devices : Ask(d)
    BY <1>2, ToggleStep, RegisterCallbackStep, AskStep
  <1>3. ASSUME NEW s \in Sessions, SessionStep(s) \/ Ends(s) PROVE ServiceInv'
    BY <1>3, ThreadFacts, StartStep, AnnounceAgainStep, NextListenerStep,
       NameDeviceStep, ForgetStep, EndsStep DEF SessionStep
  <1>4. CASE Rest \/ UNCHANGED vars
    BY <1>4, SameInv DEF Rest
  <1> QED
    BY <1>1, <1>2, <1>3, <1>4 DEF Next
-----------------------------------------------------------------------------
(* The inductive invariant: types, and, unless an exception has cut a      *)
(* start short, somebody left who will say that nothing runs any more, and *)
(* a session to be heard for the device in the field.                      *)
THEOREM ServiceInvariant == Spec => []ServiceInv
  BY InitInv, NextInv, PTL DEF Spec

(* Type correctness of the driver service.                                 *)
THEOREM ServiceTypeCorrect == Spec => []TypeOK
  <1>1. ServiceInv => TypeOK
    BY DEF ServiceInv
  <1> QED
    BY <1>1, ServiceInvariant, PTL

(* Once everything has ended, the service neither believes nor shows that  *)
(* a device runs, whatever exceptions onClosed has swallowed other than    *)
(* one between the announcement that a device runs and openAsync.          *)
THEOREM QuietNotRunningHolds == Spec => []QuietNotRunning
  <1>1. ASSUME ServiceInv, Quiet, ~lost
        PROVE  ~isRunning /\ thisSdrDevice = NoDevice /\ callback # "running"
    <2>1. Owned /\ \A t \in Threads : at[t] \in {"idle", "off", "gone"}
      BY <1>1, ThreadFacts DEF ServiceInv, Quiet
    <2>2. \A t \in Threads :
              ~Keeps(t) /\ at[t] \notin Renewing \cup {"tellNot", "clear", "lock", "open"}
      BY <2>1 DEF Keeps, Renewing
    <2>3. ~Heard
      BY <1>1 DEF Heard, Quiet, ServiceInv, TypeOK, MainStages
    <2> QED
      BY <2>1, <2>2, <2>3, ThreadFacts
         DEF Owned, RunningOwned, ShownOwned, DeviceOwned
  <1>2. ServiceInv => QuietNotRunning
    BY <1>1 DEF QuietNotRunning
  <1> QED
    BY <1>2, ServiceInvariant, PTL
=============================================================================
