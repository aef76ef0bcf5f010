--------------------------- MODULE UsbPermission ----------------------------
(***************************************************************************)
(* How the opening thread of an RtlSdrDevice obtains a connection to its   *)
(* dongle: UsbPermissionObtainer asks the user, a broadcast receiver on    *)
(* the main thread completes an AsyncFuture, and the opening thread waits  *)
(* in get().  All devices use the same broadcast action, so each receiver  *)
(* also hears the answers that are about other devices.                    *)
(*                                                                         *)
(* A step is one call of the opening thread, or a part of onReceive on the *)
(* main thread, which runs one onReceive at a time: up to setDone, which   *)
(* lets the opening thread go on, and from there to its end.  The locker   *)
(* of the future is held only within a step.                               *)
(***************************************************************************)
EXTENDS Naturals

CONSTANT Dongles   \* the dongles being opened, one opening thread each

VARIABLES
    perm,      \* the devices this application may access
    dialogs,   \* the devices about which the user is being asked
    inbox,     \* broadcasts on their way: [to, about, granted]
    receivers, \* devices whose receiver is registered
    leaving,   \* the receiver in onReceive, between setDone and unregistering
    ready, object, \* the AsyncFuture of each device
    opening,   \* where each opening thread is
    got        \* what get() has returned to it

future == <<ready, object>>
system == <<perm, dialogs, inbox, receivers, leaving>>
permissionVars ==
    <<perm, dialogs, inbox, receivers, leaving, ready, object, opening, got>>

Results == {"null", "connection"}
Broadcasts == [to : Dongles, about : Dongles, granted : BOOLEAN]
Stages == {"obtain", "register", "request", "get", "waiting", "woken",
           "spurious", "returned"}

PermissionTypeOK ==
    /\ perm \subseteq Dongles /\ dialogs \subseteq Dongles
    /\ receivers \subseteq Dongles /\ leaving \subseteq Dongles
    /\ inbox \subseteq Broadcasts
    /\ ready \in [Dongles -> BOOLEAN]
    /\ object \in [Dongles -> Results]
    /\ opening \in [Dongles -> Stages]
    /\ got \in [Dongles -> Results \cup {"nothing"}]
    /\ \A d \in Dongles : ~ready[d] => object[d] = "null"

PermissionInit ==
    /\ perm \in SUBSET Dongles
    /\ dialogs = {} /\ inbox = {} /\ receivers = {} /\ leaving = {}
    /\ ready = [d \in Dongles |-> FALSE]
    /\ object = [d \in Dongles |-> "null"]
    /\ opening = [d \in Dongles |-> "obtain"]
    /\ got = [d \in Dongles |-> "nothing"]
-----------------------------------------------------------------------------
Step(d, l, m) == opening[d] = l /\ opening' = [opening EXCEPT ![d] = m]

(* UsbManager.openDevice fails without the permission, and may fail with.  *)
Opened(d) == IF d \in perm THEN Results ELSE {"null"}

(* The broadcast of an answer goes to every receiver registered then.      *)
Sent(d, granted) == [to : receivers, about : {d}, granted : {granted}]

(* obtainFdFor: with the permission the future is complete from the start. *)
Obtain(d) ==
    /\ \/ /\ d \in perm /\ Step(d, "obtain", "returned")
          /\ \E c \in Opened(d) : got' = [got EXCEPT ![d] = c]
       \/ /\ d \notin perm /\ Step(d, "obtain", "register")
          /\ UNCHANGED got
    /\ UNCHANGED <<system, future>>

Register(d) ==
    /\ Step(d, "register", "request")
    /\ receivers' = receivers \cup {d}
    /\ UNCHANGED <<perm, dialogs, inbox, leaving, future, got>>

(* requestPermission answers at once when nobody has to be asked.          *)
Request(d) ==
    /\ Step(d, "request", "get")
    /\ IF d \in perm
       THEN inbox' = inbox \cup Sent(d, TRUE) /\ UNCHANGED dialogs
       ELSE dialogs' = dialogs \cup {d} /\ UNCHANGED inbox
    /\ UNCHANGED <<perm, receivers, leaving, future, got>>

(* get() waits without looking at ready, and then returns what is there,   *)
(* whether it was notified or Object.wait returned of itself.              *)
Get(d) == Step(d, "get", "waiting") /\ UNCHANGED <<system, future, got>>

Wakeup(d) ==
    /\ Step(d, "woken", "returned") \/ Step(d, "spurious", "returned")
    /\ got' = [got EXCEPT ![d] = object[d]]
    /\ UNCHANGED <<system, future>>

Opener(d) == Obtain(d) \/ Register(d) \/ Request(d) \/ Get(d) \/ Wakeup(d)

(* Object.wait may return without having been notified.                    *)
SpuriousWakeup(d) ==
    Step(d, "waiting", "spurious") /\ UNCHANGED <<system, future, got>>
-----------------------------------------------------------------------------
(* Mutant: setDone stores the result and does not notify.                  *)
SetDoneSilent(d, c) ==
    /\ ready' = [ready EXCEPT ![d] = TRUE]
    /\ object' = [object EXCEPT ![d] = c]
    /\ UNCHANGED opening

(* Mutant: setDone wakes the waiter and forgets to mark the result.        *)
SetDoneUnmarked(d, c) ==
    /\ object' = [object EXCEPT ![d] = c]
    /\ opening' = [opening EXCEPT ![d] = IF @ = "waiting" THEN "woken" ELSE @]
    /\ UNCHANGED ready

SetDone(d, c) ==
    /\ ready' = [ready EXCEPT ![d] = TRUE]
    /\ object' = [object EXCEPT ![d] = c]
    /\ opening' = [opening EXCEPT ![d] = IF @ = "waiting" THEN "woken" ELSE @]

(* A receiver whose future is complete ignores the broadcast; so does one  *)
(* that has been unregistered since.  (Mutant: it looks only at the        *)
(* registration.)                                                          *)
IgnoresGone(d) == d \notin receivers
Ignores(d) == d \notin receivers \/ ready[d]

(* The answer about the receiver's own device.  (Mutant: the receiver      *)
(* stays registered.)                                                      *)
CompleteStays(m) ==
    /\ \E c \in IF m.granted THEN Opened(m.to) ELSE {"null"} : SetDone(m.to, c)
    /\ UNCHANGED leaving

Complete(m) ==
    /\ \E c \in IF m.granted THEN Opened(m.to) ELSE {"null"} : SetDone(m.to, c)
    /\ leaving' = {m.to}

(* onReceive, as far as setDone.  The answer about another device          *)
(* completes the future too, but leaves the receiver registered.           *)
Receive ==
    /\ leaving = {}
    /\ \E m \in inbox :
        /\ inbox' = inbox \ {m}
        /\ \/ Ignores(m.to) /\ UNCHANGED <<future, opening, leaving>>
           \/ ~Ignores(m.to) /\ m.about = m.to /\ Complete(m)
           \/ /\ ~Ignores(m.to) /\ m.about # m.to
              /\ SetDone(m.to, "null") /\ UNCHANGED leaving
    /\ UNCHANGED <<perm, dialogs, receivers, got>>

(* The rest of onReceive, with the opening thread already running.         *)
Unregister ==
    /\ leaving # {} /\ leaving' = {}
    /\ receivers' = receivers \ leaving
    /\ UNCHANGED <<perm, dialogs, inbox, future, opening, got>>

MainThread == Receive \/ Unregister

(* The user answers, or a dongle is pulled out and its permission lapses.  *)
Answer(d) ==
    /\ d \in dialogs
    /\ dialogs' = dialogs \ {d}
    /\ \E granted \in BOOLEAN :
          /\ perm' = IF granted THEN perm \cup {d} ELSE perm
          /\ inbox' = inbox \cup Sent(d, granted)
    /\ UNCHANGED <<receivers, leaving, future, opening, got>>

PullOut(d) ==
    /\ d \in perm /\ perm' = perm \ {d}
    /\ UNCHANGED <<dialogs, inbox, receivers, leaving, future, opening, got>>

PermissionNext ==
    \/ \E d \in Dongles :
          Opener(d) \/ SpuriousWakeup(d) \/ Answer(d) \/ PullOut(d)
    \/ MainThread

PermissionSpec == PermissionInit /\ [][PermissionNext]_permissionVars

(* The opening threads and the main thread are scheduled, and each         *)
(* broadcast is delivered in the end.  The user need not answer.           *)
PermissionFairSpec ==
    /\ PermissionSpec
    /\ \A d \in Dongles : WF_permissionVars(Opener(d))
    /\ WF_permissionVars(MainThread)
-----------------------------------------------------------------------------
(* The assertion of setDone holds: no order of answers, about whatever     *)
(* device, completes a future twice and replaces a result that may have    *)
(* been handed out.                                                        *)
SetOnce ==
    [][\A d \in Dongles : ready[d] => ready'[d] /\ object'[d] = object[d]]_permissionVars

(* When an answer is on its way to a thread that waits already, the thread *)
(* returns with the result that the answer has put into its future, unless *)
(* Object.wait returns of itself before.                                   *)
WaiterWoken ==
    \A d \in Dongles :
        (opening[d] = "waiting" /\ ~ready[d] /\ \E m \in inbox : m.to = d)
            ~> \/ opening[d] = "returned" /\ ready[d] /\ got[d] = object[d]
               \/ opening[d] = "spurious"

(* Once a device is open, in its future or in the hands of its thread, its *)
(* receiver is gone or the main thread is about to unregister it: it never *)
(* hears the answers about devices opened later.                           *)
ConnectedClean ==
    \A d \in Dongles :
        object[d] = "connection" \/ got[d] = "connection"
            => d \notin receivers \/ d \in leaving
-----------------------------------------------------------------------------
(* AsyncFuture.java:33: "a future task that will block until result has    *)
(* been returned", and then no longer.                                     *)
(* Does not hold: get waits without having looked at ready.                *)
GetReturns == \A d \in Dongles : ready[d] ~> opening[d] = "returned"

(* A receiver whose future is complete is unregistered in the end.         *)
(* Does not hold: an answer about another device leaves it registered.     *)
ReceiverLeaves ==
    \A d \in Dongles : ready[d] /\ d \in receivers ~> d \notin receivers
=============================================================================
