--------------------------- MODULE RunnerService ----------------------------
(***************************************************************************)
(* The driver service: BinaryRunnerService.java, the activities that ask   *)
(* it for devices (DeviceOpenActivity, SdrServiceConnection), the toggle   *)
(* of StreamActivity, and the listeners of SdrDevice.java.                 *)
(*                                                                         *)
(* Main, the main thread, runs the service's messages one after another.   *)
(* openAsync of a device starts a session: a thread that opens it, streams *)
(* and tells the listeners that it has closed, and so runs onClosed, which *)
(* starts the next device.  The fields of the service are not protected: a *)
(* step is one access to a field, to the queue or to a list of listeners.  *)
(* An exception in onClosed goes to the catch around the announcement, if  *)
(* there is one, and the listeners that are left are told again.           *)
(***************************************************************************)
EXTENDS Naturals, Sequences

CONSTANTS Devices, \* the SdrDevice objects, one for each activity
          Main,    \* the main thread
          NoDevice,  \* null
          MaxCatches \* how many catches may surround an announcement

ASSUME RunnerAssumption ==
    /\ Main \notin Devices /\ NoDevice \notin Devices /\ Main # NoDevice
    /\ MaxCatches \in Nat

(* A session is named after the device of the queued pair that led to it,  *)
(* which need not be the device that it opens.                             *)
Sessions == Devices
Threads == Sessions \cup {Main}

VARIABLES
    asked,         \* devices whose activity has called startServer
    starts,        \* onStartCommand messages on their way
    connecting,    \* devices whose onServiceConnected is on its way
    workQueue,     \* devices to be started
    isRunning, thisSdrDevice,
    callback,      \* StreamActivity's in statusCallbacks: what it was told last
    listeners,     \* how often the service listens to each device
    runs,          \* the device of each session
    at,            \* where each thread is
    pair,          \* the queued pair that startWithDevice has in hand
    callee,        \* the device whose addOnStatusListener a thread is in
    caught,        \* the exceptions of each session caught so far
    lost,          \* an exception has cut a start short that had been announced
    crashed        \* an uncaught exception has ended the process

messages == <<asked, starts, connecting>>
fields == <<isRunning, thisSdrDevice>>
devices == <<listeners, runs>>
failures == <<caught, lost, crashed>>
vars == <<asked, starts, connecting, workQueue, isRunning, thisSdrDevice, callback,
          listeners, runs, at, pair, callee, caught, lost, crashed>>

(* The stages of startWithDevice, of Main's other messages, of a session.  *)
Starting == {"assign", "check", "announce", "tell", "listen", "lock", "open"}
Stopping == {"notRunning", "tellNot", "clear"}
Start == {"poll"} \cup Starting \cup Stopping
MainStages == {"idle", "asked", "close", "deref"} \cup Start
Hearing == {"heard", "name", "forget"} \cup Start
SessionStages == {"off", "running", "caught", "gone"} \cup Hearing

TypeOK ==
    /\ asked \subseteq Devices /\ connecting \subseteq asked
    /\ starts \in Nat
    /\ workQueue \in Seq(Devices)
    /\ isRunning \in BOOLEAN /\ thisSdrDevice \in Devices \cup {NoDevice}
    /\ callback \in {"none", "running", "notRunning"}
    /\ listeners \in [Devices -> Nat]
    /\ runs \in [Sessions -> Devices \cup {NoDevice}]
    /\ \A s \in Sessions : (at[s] = "off") <=> (runs[s] = NoDevice)
    /\ at \in [Threads -> MainStages \cup SessionStages]
    /\ at[Main] \in MainStages /\ \A s \in Sessions : at[s] \in SessionStages
    /\ pair \in [Threads -> Devices \cup {NoDevice}]
    /\ \A t \in Threads : (at[t] \in Starting) <=> (pair[t] # NoDevice)
    /\ callee \in [Threads -> Devices \cup {NoDevice}]
    /\ \A t \in Threads : (at[t] = "lock") <=> (callee[t] # NoDevice)
    /\ caught \in [Sessions -> 0..MaxCatches]
    /\ lost \in BOOLEAN /\ crashed \in BOOLEAN

Init ==
    /\ asked = {} /\ starts = 0 /\ connecting = {}
    /\ workQueue = <<>>
    /\ isRunning = FALSE /\ thisSdrDevice = NoDevice
    /\ callback = "none"
    /\ listeners = [d \in Devices |-> 0]
    /\ runs = [s \in Sessions |-> NoDevice]
    /\ at = [t \in Threads |-> IF t = Main THEN "idle" ELSE "off"]
    /\ pair = [t \in Threads |-> NoDevice]
    /\ callee = [t \in Threads |-> NoDevice]
    /\ caught = [s \in Sessions |-> 0]
    /\ lost = FALSE /\ crashed = FALSE
-----------------------------------------------------------------------------
Go(t, l, m) ==
    at[t] = l /\ ~crashed /\ at' = [at EXCEPT ![t] = m] /\ UNCHANGED failures

(* A null reference or a failed assertion.  The catch around a session's   *)
(* announcement announces again.  How many catches there are depends on    *)
(* the line that announces, from none up to MaxCatches.  On the main       *)
(* thread there is none: the exception ends the process.                   *)
Caught(t, l) ==
    /\ at[t] = l /\ ~crashed /\ t \in Sessions /\ caught[t] < MaxCatches
    /\ caught' = [caught EXCEPT ![t] = @ + 1]
    /\ at' = [at EXCEPT ![t] = "caught"]
    /\ pair' = [pair EXCEPT ![t] = NoDevice]
    /\ UNCHANGED crashed

Uncaught(t, l) ==
    /\ at[t] = l /\ ~crashed
    /\ crashed' = TRUE
    /\ UNCHANGED <<at, pair, caught>>

Throw(t, l) ==
    /\ Caught(t, l) \/ Uncaught(t, l)
    /\ lost' = (lost \/ l \in {"tell", "listen", "open"})

(* The callback, if there is one, is told.                                 *)
Tells(what) == callback' = IF callback = "none" THEN "none" ELSE what

(* startWithDevice ends where it was called from.                          *)
Done(t) == IF t = Main THEN "idle" ELSE "heard"

(* A device's list of listeners is locked while a session tells them that  *)
(* it has closed; a thread may take a lock that it has.                    *)
Locked(d, t) == \E s \in Sessions \ {t} : runs[s] = d /\ at[s] \in Hearing

(* The set of callbacks is cleared while t iterates over it.               *)
Torn(t) == callback # "none" /\ \E u \in Threads \ {t} : at[u] = "clear"
-----------------------------------------------------------------------------
(* startWithDevice, on thread t.                                           *)
Poll(t) ==
    /\ \/ /\ workQueue = <<>> /\ Go(t, "poll", "notRunning")
          /\ UNCHANGED <<workQueue, pair>>
       \/ /\ workQueue # <<>> /\ Go(t, "poll", "assign")
          /\ pair' = [pair EXCEPT ![t] = Head(workQueue)]
          /\ workQueue' = Tail(workQueue)
    /\ UNCHANGED <<messages, fields, callback, devices, callee>>

NotRunning(t) ==
    /\ Go(t, "notRunning", "tellNot")
    /\ isRunning' = FALSE
    /\ UNCHANGED <<messages, workQueue, thisSdrDevice, callback, devices, pair, callee>>

TellNot(t) ==
    /\ \/ /\ Go(t, "tellNot", "clear") /\ UNCHANGED pair
          /\ Tells("notRunning")
       \/ Torn(t) /\ Throw(t, "tellNot") /\ UNCHANGED callback
    /\ UNCHANGED <<messages, workQueue, fields, devices, callee>>

Clear(t) ==
    /\ Go(t, "clear", Done(t))
    /\ callback' = "none"
    /\ UNCHANGED <<messages, workQueue, fields, devices, pair, callee>>

Assign(t) ==
    /\ Go(t, "assign", "check")
    /\ thisSdrDevice' = pair[t]
    /\ UNCHANGED <<messages, workQueue, isRunning, callback, devices, pair, callee>>

(* Check.isNotNull and the argument of announceRunning.                    *)
CheckDevice(t) ==
    /\ IF thisSdrDevice = NoDevice
       THEN Throw(t, "check")
       ELSE Go(t, "check", "announce") /\ UNCHANGED pair
    /\ UNCHANGED <<messages, workQueue, fields, callback, devices, callee>>

Announce(t) ==
    /\ Go(t, "announce", "tell")
    /\ isRunning' = TRUE
    /\ UNCHANGED <<messages, workQueue, thisSdrDevice, callback, devices, pair, callee>>

Tell(t) ==
    /\ \/ /\ Go(t, "tell", "listen") /\ UNCHANGED pair
          /\ Tells("running")
       \/ Torn(t) /\ Throw(t, "tell") /\ UNCHANGED callback
    /\ UNCHANGED <<messages, workQueue, fields, devices, callee>>

(* The device whose addOnStatusListener is called, and which may have been *)
(* replaced in the field by the time its lock is free.                     *)
Listen(t) ==
    /\ IF thisSdrDevice = NoDevice
       THEN Throw(t, "listen") /\ UNCHANGED callee
       ELSE /\ Go(t, "listen", "lock") /\ UNCHANGED pair
            /\ callee' = [callee EXCEPT ![t] = thisSdrDevice]
    /\ UNCHANGED <<messages, workQueue, fields, callback, devices>>

AddListener(t) ==
    /\ Go(t, "lock", "open")
    /\ ~Locked(callee[t], t)
    /\ listeners' = [listeners EXCEPT ![callee[t]] = @ + 1]
    /\ callee' = [callee EXCEPT ![t] = NoDevice]
    /\ UNCHANGED <<messages, workQueue, fields, callback, runs, pair>>

(* openAsync.  The new thread takes the name of the pair in hand, which no *)
(* session has had yet.                                                    *)
StartSession(t, s) ==
    /\ at[s] = "off"
    /\ runs' = [runs EXCEPT ![s] = thisSdrDevice]
    /\ UNCHANGED failures

(* Mutant: openAsync is not asynchronous.                                  *)
OpenWaits(t) ==
    /\ at[t] = "open" /\ ~crashed
    /\ \/ /\ thisSdrDevice = NoDevice /\ Throw(t, "open") /\ UNCHANGED runs
       \/ /\ thisSdrDevice # NoDevice /\ StartSession(t, pair[t])
          /\ at' = [at EXCEPT ![pair[t]] = "running"]
          /\ UNCHANGED pair
       \/ /\ at[pair[t]] = "gone" /\ Go(t, "open", Done(t))
          /\ pair' = [pair EXCEPT ![t] = NoDevice]
          /\ UNCHANGED runs
    /\ UNCHANGED <<messages, workQueue, fields, callback, listeners, callee>>

Open(t) ==
    /\ at[t] = "open" /\ ~crashed
    /\ IF thisSdrDevice = NoDevice
       THEN Throw(t, "open") /\ UNCHANGED runs
       ELSE /\ StartSession(t, pair[t])
            /\ at' = [at EXCEPT ![t] = Done(t), ![pair[t]] = "running"]
            /\ pair' = [pair EXCEPT ![t] = NoDevice]
    /\ UNCHANGED <<messages, workQueue, fields, callback, listeners, callee>>

StartWithDevice(t) ==
    \/ Poll(t) \/ NotRunning(t) \/ TellNot(t) \/ Clear(t) \/ Assign(t)
    \/ CheckDevice(t) \/ Announce(t) \/ Tell(t) \/ Listen(t) \/ AddListener(t)
    \/ Open(t)
-----------------------------------------------------------------------------
(* The main thread.  An activity starts the service and binds to it.       *)
Ask(d) ==
    /\ at[Main] = "idle" /\ ~crashed /\ d \notin asked
    /\ asked' = asked \cup {d}
    /\ starts' = starts + 1
    /\ connecting' = connecting \cup {d}
    /\ UNCHANGED <<workQueue, fields, callback, devices, at, pair, callee, failures>>

OnStartCommand ==
    /\ starts > 0 /\ Go(Main, "idle", "poll")
    /\ starts' = starts - 1
    /\ UNCHANGED <<asked, connecting, workQueue, fields, callback, devices, pair, callee>>

(* onServiceConnected: the binder's startWithDevice.                       *)
OnServiceConnected(d) ==
    /\ d \in connecting /\ Go(Main, "idle", "asked")
    /\ connecting' = connecting \ {d}
    /\ workQueue' = Append(workQueue, d)
    /\ UNCHANGED <<asked, starts, fields, callback, devices, pair, callee>>

StartOrClose ==
    /\ IF isRunning
       THEN Go(Main, "asked", "close") /\ UNCHANGED starts
       ELSE Go(Main, "asked", "idle") /\ starts' = starts + 1
    /\ UNCHANGED <<asked, connecting, workQueue, fields, callback, devices, pair, callee>>

(* The toggle of StreamActivity is pressed while it shows a service.       *)
Toggle ==
    /\ isRunning /\ Go(Main, "idle", "close")
    /\ UNCHANGED <<messages, workQueue, fields, callback, devices, pair, callee>>

CloseService ==
    /\ Go(Main, "close", IF isRunning THEN "deref" ELSE "idle")
    /\ UNCHANGED <<messages, workQueue, fields, callback, devices, pair, callee>>

(* close() asks the device's session to end, which it may do at any time   *)
(* and, since a stop may be overwritten (SdrTcp), need not do when asked.  *)
CloseDevice ==
    /\ IF thisSdrDevice = NoDevice
       THEN Throw(Main, "deref")
       ELSE Go(Main, "deref", "idle") /\ UNCHANGED pair
    /\ UNCHANGED <<messages, workQueue, fields, callback, devices, callee>>

RegisterCallback ==
    /\ at[Main] = "idle" /\ ~crashed /\ callback = "none"
    /\ callback' = IF isRunning THEN "running" ELSE "notRunning"
    /\ UNCHANGED <<messages, workQueue, fields, devices, at, pair, callee, failures>>

MainStep ==
    \/ StartWithDevice(Main) \/ OnStartCommand \/ StartOrClose \/ CloseService
    \/ CloseDevice \/ \E d \in Devices : OnServiceConnected(d)
-----------------------------------------------------------------------------
(* The thread of session s.  It asks for the permission, opens the device, *)
(* streams, and announces that it has closed: because opening failed,      *)
(* because streaming ended, or because an exception was caught.  The first *)
(* listener in the list is that of the activity, which only ends then; so  *)
(* it does on onOpen, which changes nothing else either.                   *)
AnnounceOnClosed(s, l) ==
    /\ Go(s, l, "heard")
    /\ ~Locked(runs[s], s)
    /\ UNCHANGED <<messages, workQueue, fields, callback, devices, pair, callee>>

Ends(s) == AnnounceOnClosed(s, "running")

(* The next listener is taken off the list; onClosed looks for a device.   *)
NextListener(s) ==
    /\ at[s] = "heard"
    /\ \/ /\ listeners[runs[s]] > 0
          /\ Go(s, "heard", IF thisSdrDevice = NoDevice THEN "forget" ELSE "name")
          /\ listeners' = [listeners EXCEPT ![runs[s]] = @ - 1]
       \/ /\ listeners[runs[s]] = 0 /\ Go(s, "heard", "gone")
          /\ UNCHANGED listeners
    /\ UNCHANGED <<messages, workQueue, fields, callback, runs, pair, callee>>

NameDevice(s) ==
    /\ IF thisSdrDevice = NoDevice
       THEN Throw(s, "name")
       ELSE Go(s, "name", "forget") /\ UNCHANGED pair
    /\ UNCHANGED <<messages, workQueue, fields, callback, devices, callee>>

(* Mutant: onClosed forgets the device but starts no other.                *)
ForgetIdle(s) ==
    /\ Go(s, "forget", "heard")
    /\ thisSdrDevice' = NoDevice
    /\ UNCHANGED <<messages, workQueue, isRunning, callback, devices, pair, callee>>

Forget(s) ==
    /\ Go(s, "forget", "poll")
    /\ thisSdrDevice' = NoDevice
    /\ UNCHANGED <<messages, workQueue, isRunning, callback, devices, pair, callee>>

SessionStep(s) ==
    \/ StartWithDevice(s) \/ AnnounceOnClosed(s, "caught")
    \/ NextListener(s) \/ NameDevice(s) \/ Forget(s)

Quiet ==
    /\ ~crashed /\ at[Main] = "idle" /\ starts = 0 /\ connecting = {}
    /\ \A s \in Sessions : at[s] \in {"off", "gone"}

Rest == (crashed \/ (Quiet /\ asked = Devices)) /\ UNCHANGED vars

Next ==
    \/ MainStep \/ Toggle \/ RegisterCallback \/ Rest
    \/ \E d \in Devices : Ask(d)
    \/ \E s \in Sessions : SessionStep(s) \/ Ends(s)

Spec == Init /\ [][Next]_vars

(* The threads are scheduled and messages arrive.  A session may wait for  *)
(* the user, or stream, for ever.                                          *)
FairSpec ==
    Spec /\ WF_vars(MainStep) /\ \A s \in Sessions : WF_vars(SessionStep(s))
-----------------------------------------------------------------------------
(* However the ends of some sessions and the starts of others overlap, and *)
(* whatever exceptions onClosed swallows: once everything has ended, the   *)
(* service neither believes nor shows that a device runs, and would not    *)
(* wait for its end for ever, unless an exception has cut a start short    *)
(* between the announcement that it runs and openAsync.                    *)
QuietNotRunning ==
    Quiet /\ ~lost =>
        ~isRunning /\ thisSdrDevice = NoDevice /\ callback # "running"

(* The main thread never waits for ever for a list of listeners, whose     *)
(* lock is held during a whole onClosed and the start of the next device,  *)
(* also when a thread holds its own list and waits for another.            *)
MainReturns == at[Main] # "idle" ~> (at[Main] = "idle" \/ crashed)
-----------------------------------------------------------------------------
(* BinaryRunnerService.java:236-244: a device that is queued while none    *)
(* runs is started at once, for which isRunning has to tell the truth.     *)
(* Does not hold: the exception at line 104, after isRunning was set, is   *)
(* caught by the session's thread and nobody resets the field.             *)
RunningMeansRunning == Quiet => ~isRunning

(* README.md:29-35: the activity is told that the device has been opened,  *)
(* or else that the driver failed to start.  Both take an opening of it.   *)
(* Does not hold: a device queued between the last poll and the assignment *)
(* of isRunning is never opened.                                           *)
Answered == Quiet => \A d \in asked : \E s \in Sessions : runs[s] = d
=============================================================================
