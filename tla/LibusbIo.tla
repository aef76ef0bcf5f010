------------------------------ MODULE LibusbIo ------------------------------
(***************************************************************************)
(* libusb's input and output, io.c with sync.c: threads that open a        *)
(* device, make a synchronous transfer with it and close it again.         *)
(*                                                                         *)
(* libusb has no thread of its own.  Of those that wait for a transfer one *)
(* holds the events lock and polls for everybody, the others wait until it *)
(* leaves.  A byte in the event pipe interrupts the poll: when the set of  *)
(* file descriptors changes, a device is closed or a hotplug message waits.*)
(*                                                                         *)
(* A thread makes one transfer, by whose name the transfer and the handle  *)
(* go too.  The kernel, which completes URBs and lets time pass, is        *)
(* external; what a URB's data is does not matter here.                    *)
(***************************************************************************)
EXTENDS Integers, SequencesExt, FiniteSets

CONSTANTS Threads,
          Timed,        \* the transfers with a timeout
          MayFail,      \* bound: the transfers whose submission may fail
          Slow,         \* bound: the transfers whose timeout may expire
                        \* while they are being submitted
          MaxMessages,  \* bound: hotplug messages
          NoOne

ASSUME IoAssumption ==
    /\ IsFiniteSet(Threads)
    /\ Timed \subseteq Threads /\ MayFail \subseteq Threads
    /\ Slow \subseteq Timed /\ NoOne \notin Threads

VARIABLES
    pc,         \* where each thread is
    at,         \* the transfer that it completes or cancels
    until,      \* the transfer with whose timeout its waiting ends
    seen,       \* the flags that it has read, to write them back
    flying,     \* ctx->flying_transfers, the earliest timeout first
    flyLock,    \* who holds flying_transfers_lock
    lock,       \* who holds the lock of each transfer
    flags,      \* itransfer->flags
    timer,      \* of each transfer: "off", "running" or "expired"
    urb,        \* its URB: "none", "pending", "done" or "killed"
    action,     \* its reap_action: "normal" or "cancelled"
    status,     \* transfer->status, "none" until it is complete
    events,     \* who holds the events lock
    active,     \* ctx->event_handler_active
    waiters,    \* who holds the event waiters' lock
    closing,    \* ctx->device_close
    ipollfds,   \* ctx->ipollfds: the handles that are open
    modified,   \* ctx->pollfds_modified
    pollfds,    \* ctx->pollfds: the copy that is polled
    pipe,       \* bytes in the event pipe
    messages,   \* ctx->hotplug_msgs
    special,    \* special_event, of the thread that handles events
    sent        \* hotplug messages that the monitor has sent

threads == <<pc, at, until, seen>>
transfers == <<flying, flyLock, lock, flags, timer, urb, action, status>>
locks == <<events, active, waiters>>
eventData == <<closing, ipollfds, modified, pipe, messages, sent>>
polling == <<pollfds, special>>
vars == <<threads, transfers, locks, eventData, polling>>

Init ==
    /\ pc = [t \in Threads |-> "open"]
    /\ at = [t \in Threads |-> NoOne] /\ until = [t \in Threads |-> NoOne]
    /\ seen = [t \in Threads |-> {}]
    /\ flying = <<>> /\ flyLock = NoOne
    /\ lock = [t \in Threads |-> NoOne] /\ flags = [t \in Threads |-> {}]
    /\ timer = [t \in Threads |-> "off"] /\ urb = [t \in Threads |-> "none"]
    /\ action = [t \in Threads |-> "normal"]
    /\ status = [t \in Threads |-> "none"]
    /\ events = NoOne /\ active = FALSE /\ waiters = NoOne
    /\ closing = 0 /\ ipollfds = {} /\ modified = FALSE /\ pollfds = {}
    /\ pipe = 0 /\ messages = 0 /\ special = FALSE /\ sent = 0

Go(t, from, to) == pc[t] = from /\ pc' = [pc EXCEPT ![t] = to]

---------------------------------------------------------------------------
(* The event pipe holds one byte as long as there are pending events.      *)

PendingEvents(c, m, n) == c > 0 \/ m \/ n > 0
Pending == PendingEvents(closing, modified, messages)
Signal == pipe' = IF Pending THEN pipe ELSE pipe + 1

(* Mutant: the pipe is cleared although there is more.                     *)
ClearAlways(c, m, n) == pipe' = pipe - 1

ClearUnless(c, m, n) ==
    pipe' = IF PendingEvents(c, m, n) THEN pipe ELSE pipe - 1

(* usbi_add_pollfd, at the end of libusb_open.                             *)
Open(t) ==
    /\ Go(t, "open", "submit")
    /\ ipollfds' = ipollfds \cup {t} /\ modified' = TRUE /\ Signal
    /\ UNCHANGED <<at, until, seen, transfers, locks, closing, messages, sent,
                   polling>>

(* The monitor thread sends a hotplug message.                             *)
Message ==
    /\ sent < MaxMessages /\ sent' = sent + 1
    /\ messages' = messages + 1 /\ Signal
    /\ UNCHANGED <<threads, transfers, locks, closing, ipollfds, modified,
                   polling>>

---------------------------------------------------------------------------
(* libusb_submit_transfer.                                                 *)

(* Mutant: at the end.                                                     *)
InsertedLast(s, t) == {Append(s, t)}

(* Sorted by timeout: a new one comes behind those that have expired, and  *)
(* before those without one.                                               *)
Inserted(s, t) ==
    IF t \notin Timed THEN {Append(s, t)}
    ELSE {InsertAt(s, i, t) : i \in
            {j \in 1 .. Len(s) + 1 :
                /\ \A k \in 1 .. j - 1 : s[k] \in Timed
                /\ \A k \in j .. Len(s) : timer[s[k]] # "expired"}}

(* libusb_submit_transfer as far as add_to_flying_list.                    *)
Submit(t) ==
    /\ Go(t, "submit", "submitting")
    /\ flyLock = NoOne
    /\ lock' = [lock EXCEPT ![t] = t]
    /\ flags' = [flags EXCEPT ![t] = {"SUBMITTING"}]
    /\ flying' \in Inserted(flying, t)
    /\ timer' = [timer EXCEPT ![t] = IF t \in Timed THEN "running" ELSE @]
    /\ UNCHANGED <<at, until, seen, flyLock, urb, action, status, locks,
                   eventData, polling>>

SubmitFails(t) ==
    /\ t \in MayFail /\ Go(t, "submitting", "failing")
    /\ flags' = [flags EXCEPT ![t] = @ \ {"SUBMITTING"}]
    /\ UNCHANGED <<at, until, seen, flying, flyLock, lock, timer, urb, action,
                   status, locks, eventData, polling>>

(* remove_from_flying_list.                                                *)
RemoveFromFlying(t) ==
    flying' = RemoveAt(flying, CHOOSE i \in DOMAIN flying : flying[i] = t)

(* It is removed with the lock of the transfer held.                       *)
SubmitRemove(t) ==
    /\ Go(t, "failing", "close") /\ flyLock = NoOne
    /\ RemoveFromFlying(t)
    /\ lock' = [lock EXCEPT ![t] = NoOne]
    /\ status' = [status EXCEPT ![t] = "refused"]
    /\ UNCHANGED <<at, until, seen, flyLock, flags, timer, urb, action, locks,
                   eventData, polling>>

SubmitUrb(t) ==
    /\ Go(t, "submitting", "submitted") /\ urb' = [urb EXCEPT ![t] = "pending"]
    /\ UNCHANGED <<at, until, seen, flying, flyLock, lock, flags, timer, action,
                   status, locks, eventData, polling>>

Submitted(t) ==
    /\ Go(t, "submitted", "loop")
    /\ flags' = [flags EXCEPT ![t] = (@ \ {"SUBMITTING"}) \cup {"IN_FLIGHT"}]
    /\ lock' = [lock EXCEPT ![t] = NoOne]
    /\ UNCHANGED <<at, until, seen, flying, flyLock, timer, urb, action, status,
                   locks, eventData, polling>>

---------------------------------------------------------------------------
(* Timeouts.                                                               *)

Handled(u) == "TIMEOUT_HANDLED" \in flags[u]

(* Mutant: whether it has been handled or not.                             *)
NextTimeoutAgain ==
    IF flying # <<>> /\ Head(flying) \in Timed THEN Head(flying) ELSE NoOne

(* libusb_get_next_timeout: of the first transfer that is not handled yet. *)
NextTimeout ==
    LET first == {i \in DOMAIN flying :
                    /\ flying[i] \in Timed /\ ~Handled(flying[i])
                    /\ \A k \in 1 .. i - 1 : Handled(flying[k])}
    IN IF first # {} THEN flying[CHOOSE i \in first : TRUE] ELSE NoOne
Elapsed(u) == u # NoOne /\ timer[u] = "expired"

(* handle_timeouts: through the list, with flying_transfers_lock held.     *)
(* The flags are read and written without their own lock, which            *)
(* libusb_submit_transfer takes.                                           *)
TimeoutsBegin(t) ==
    /\ Go(t, "timeouts", "scan") /\ flyLock = NoOne /\ flyLock' = t
    /\ UNCHANGED <<at, until, seen, flying, lock, flags, timer, urb, action,
                   status, locks, eventData, polling>>

TimeoutsNext(t) ==
    /\ Elapsed(NextTimeout)
    /\ Go(t, "scan", "mark")
    /\ at' = [at EXCEPT ![t] = NextTimeout]
    /\ seen' = [seen EXCEPT ![t] = flags[NextTimeout]]
    /\ UNCHANGED <<until, transfers, locks, eventData, polling>>

TimeoutMark(t) ==
    /\ Go(t, "mark", "cancel")
    /\ flags' = [flags EXCEPT ![at[t]] = seen[t] \cup {"TIMEOUT_HANDLED"}]
    /\ seen' = [seen EXCEPT ![t] = {}]
    /\ UNCHANGED <<at, until, flying, flyLock, lock, timer, urb, action, status,
                   locks, eventData, polling>>

(* libusb_cancel_transfer.                                                 *)
TimeoutCancel(t) ==
    LET u == at[t]
        works == "IN_FLIGHT" \in flags[u] /\ urb[u] = "pending"
    IN /\ Go(t, "cancel", IF works THEN "timed out" ELSE "scan")
       /\ lock[u] = NoOne
       /\ urb' = [urb EXCEPT ![u] = IF works THEN "killed" ELSE @]
       /\ action' = [action EXCEPT ![u] = IF works THEN "cancelled" ELSE @]
       /\ flags' = [flags EXCEPT ![u] =
                      IF "IN_FLIGHT" \in @ THEN @ \cup {"CANCELLING"} ELSE @]
       /\ at' = [at EXCEPT ![t] = IF works THEN @ ELSE NoOne]
       /\ UNCHANGED <<until, seen, flying, flyLock, lock, timer, status, locks,
                      eventData, polling>>

TimedOut(t) ==
    /\ Go(t, "timed out", "scan")
    /\ flags' = [flags EXCEPT ![at[t]] = @ \cup {"TIMED_OUT"}]
    /\ at' = [at EXCEPT ![t] = NoOne]
    /\ UNCHANGED <<until, seen, flying, flyLock, lock, timer, urb, action, status,
                   locks, eventData, polling>>

TimeoutsEnd(t) ==
    /\ ~Elapsed(NextTimeout)
    /\ Go(t, "scan", IF events = t THEN "unlock" ELSE "loop")
    /\ flyLock' = NoOne
    /\ UNCHANGED <<at, until, seen, flying, lock, flags, timer, urb, action,
                   status, locks, eventData, polling>>

---------------------------------------------------------------------------
(* sync_transfer_wait_for_completion calls libusb_handle_events_completed  *)
(* until the transfer is complete.                                         *)

Complete(t) == status[t] # "none"

Loop(t) ==
    /\ flyLock = NoOne \/ Complete(t)
    /\ LET next == NextTimeout
       IN /\ Go(t, "loop", IF Complete(t) THEN "close"
                           ELSE IF Elapsed(next) THEN "timeouts" ELSE "try")
          /\ until' = [until EXCEPT ![t] = IF Complete(t) THEN NoOne ELSE next]
    /\ UNCHANGED <<at, seen, transfers, locks, eventData, polling>>

(* libusb_try_lock_events: not while a device is being closed.             *)
TryLockEvents(t) ==
    \/ /\ closing = 0 /\ events = NoOne
       /\ Go(t, "try", IF Complete(t) THEN "unlock" ELSE "refresh")
       /\ events' = t /\ active' = TRUE
       /\ UNCHANGED <<at, until, seen, transfers, waiters, eventData, polling>>
    \/ /\ closing > 0 \/ events # NoOne
       /\ Go(t, "try", "wait")
       /\ UNCHANGED <<at, until, seen, transfers, locks, eventData, polling>>

(* Another thread handles events: wait until it leaves, or for a timeout.  *)
LockWaiters(t) ==
    /\ waiters = NoOne
    /\ Go(t, "wait", IF Complete(t) THEN "loop" ELSE "check")
    /\ waiters' = IF Complete(t) THEN NoOne ELSE t
    /\ UNCHANGED <<at, until, seen, transfers, events, active, eventData, polling>>

HandlerActive == closing > 0 \/ active

Wait(t) ==
    /\ Go(t, "check", IF HandlerActive THEN "waiting" ELSE "try")
    /\ waiters' = NoOne
    /\ UNCHANGED <<at, until, seen, transfers, events, active, eventData, polling>>

WaitTimesOut(t) ==
    /\ Elapsed(until[t]) /\ waiters = NoOne
    /\ Go(t, "waiting", "timeouts")
    /\ UNCHANGED <<at, until, seen, transfers, locks, eventData, polling>>

---------------------------------------------------------------------------
(* handle_events, with the events lock held.                               *)

(* Copy the file descriptors, when they have changed.                      *)
Refresh(t) ==
    /\ Go(t, "refresh", "poll")
    /\ IF modified
       THEN /\ pollfds' = ipollfds /\ modified' = FALSE
            /\ ClearUnless(closing, FALSE, messages)
       ELSE UNCHANGED <<pollfds, modified, pipe>>
    /\ UNCHANGED <<at, until, seen, transfers, locks, closing, ipollfds, messages,
                   sent, special>>

Ready == {u \in pollfds : urb[u] \in {"done", "killed"}}

(* poll: the event pipe is looked at first.  A message is taken, and the   *)
(* poll repeated after the transfers, to see whether more happened.        *)
PollPipe(t) ==
    /\ pipe > 0
    /\ Go(t, "poll", IF Ready # {} THEN "reap"
                     ELSE IF messages > 0 THEN "repoll" ELSE "unlock")
    /\ special' = (messages > 0)
    /\ messages' = IF messages > 0 THEN messages - 1 ELSE 0
    /\ ClearUnless(closing, modified, messages')
    /\ UNCHANGED <<at, until, seen, transfers, locks, closing, ipollfds, modified,
                   sent, pollfds>>

PollDevices(t) ==
    /\ pipe = 0 /\ Ready # {} /\ Go(t, "poll", "reap") /\ special' = FALSE
    /\ UNCHANGED <<at, until, seen, transfers, locks, eventData, pollfds>>

PollTimesOut(t) ==
    /\ pipe = 0 /\ Ready = {} /\ Elapsed(until[t]) /\ Go(t, "poll", "timeouts")
    /\ UNCHANGED <<at, until, seen, transfers, locks, eventData, polling>>

(* After a special event: the same poll, which does not wait.              *)
PollAgain(t) ==
    /\ Go(t, "repoll", IF pipe > 0 \/ Ready # {} THEN "poll" ELSE "timeouts")
    /\ special' = FALSE
    /\ UNCHANGED <<at, until, seen, transfers, locks, eventData, pollfds>>

(* Reap a URB and decide how its transfer ended, with its lock held.       *)
(* Whether it timed out is read without a lock.                            *)
Reap(t, u) ==
    /\ urb[u] \in {"done", "killed"} /\ u \in pollfds /\ lock[u] = NoOne
    /\ Go(t, "reap", IF action[u] # "cancelled" THEN "completed"
                     ELSE IF "TIMED_OUT" \in flags[u] THEN "timeout"
                     ELSE "cancelled")
    /\ urb' = [urb EXCEPT ![u] = "none"]
    /\ at' = [at EXCEPT ![t] = u]
    /\ UNCHANGED <<until, seen, flying, flyLock, lock, flags, timer, action, status,
                   locks, eventData, polling>>

(* Mutant: the list is changed without its lock.                           *)
MayRemoveUnlocked == TRUE

MayRemove == flyLock = NoOne

(* usbi_handle_transfer_completion: the user's callback lets its thread go *)
(* on, which frees the transfer.                                           *)
HandleCompletion(t) ==
    /\ pc[t] \in {"completed", "timeout", "cancelled"} /\ MayRemove
    /\ LET u == at[t]
       IN /\ RemoveFromFlying(u)
          /\ flags' = [flags EXCEPT ![u] = (@ \ {"IN_FLIGHT"}) \cup {"COMPLETED"}]
          /\ status' = [status EXCEPT ![u] = pc[t]]
    /\ pc' = [pc EXCEPT ![t] = "reap"]
    /\ at' = [at EXCEPT ![t] = NoOne]
    /\ UNCHANGED <<until, seen, flyLock, lock, timer, urb, action, locks, eventData,
                   polling>>

ReapEnds(t) ==
    /\ Ready = {} /\ Go(t, "reap", IF special THEN "repoll" ELSE "unlock")
    /\ UNCHANGED <<at, until, seen, transfers, locks, eventData, polling>>

(* libusb_unlock_events: wake the waiters after the lock is free.          *)
UnlockEvents(t) ==
    /\ Go(t, "unlock", "broadcast") /\ events' = NoOne /\ active' = FALSE
    /\ UNCHANGED <<at, until, seen, transfers, waiters, eventData, polling>>

(* Mutant: no waiter is woken.                                             *)
WokenNone(u, t, to) == IF u = t THEN to ELSE pc[u]

Woken(u, t, to) ==
    IF u = t THEN to ELSE IF pc[u] = "waiting" THEN "loop" ELSE pc[u]

Broadcast(t) ==
    /\ pc[t] \in {"broadcast", "closed"} /\ waiters = NoOne
    /\ pc' = [u \in Threads |->
                Woken(u, t, IF pc[t] = "closed" THEN "done" ELSE "loop")]
    /\ UNCHANGED <<at, until, seen, transfers, locks, eventData, polling>>

---------------------------------------------------------------------------
(* libusb_close: interrupt the handler of events and take its place.       *)

(* Mutant: nobody is interrupted.                                          *)
CloseSilently == pipe' = pipe

CloseSignals == Signal

CloseBegin(t) ==
    /\ Go(t, "close", "close lock")
    /\ closing' = closing + 1 /\ CloseSignals
    /\ UNCHANGED <<at, until, seen, transfers, locks, ipollfds, modified, messages,
                   sent, polling>>

CloseLock(t) ==
    /\ events = NoOne /\ Go(t, "close lock", "close fd")
    /\ events' = t /\ active' = TRUE
    /\ UNCHANGED <<at, until, seen, transfers, waiters, eventData, polling>>

(* Mutant: the copy that is polled stays.                                  *)
RemoveUnnoticed == UNCHANGED modified

RemovePollfd == modified' = TRUE

(* do_close locks and unlocks the events itself, which ends active and     *)
(* wakes the waiters early; then op_close removes the file descriptor.     *)
DoClose(t) ==
    /\ pc[t] = "close fd" /\ waiters = NoOne
    /\ pc' = [u \in Threads |-> Woken(u, t, "close end")]
    /\ active' = FALSE
    /\ ipollfds' = ipollfds \ {t} /\ RemovePollfd
    /\ UNCHANGED <<at, until, seen, transfers, events, waiters, closing, pipe,
                   messages, sent, polling>>

CloseEnd(t) ==
    /\ Go(t, "close end", "close unlock")
    /\ closing' = closing - 1 /\ ClearUnless(closing - 1, modified, messages)
    /\ UNCHANGED <<at, until, seen, transfers, locks, ipollfds, modified, messages,
                   sent, polling>>

CloseUnlock(t) ==
    /\ Go(t, "close unlock", "closed") /\ events' = NoOne /\ active' = FALSE
    /\ UNCHANGED <<at, until, seen, transfers, waiters, eventData, polling>>

---------------------------------------------------------------------------
UrbCompletes(t) ==
    /\ urb[t] = "pending" /\ urb' = [urb EXCEPT ![t] = "done"]
    /\ UNCHANGED <<threads, flying, flyLock, lock, flags, timer, action, status,
                   locks, eventData, polling>>

(* Timeouts expire in their order.                                         *)
Expire(t) ==
    /\ timer[t] = "running" /\ timer' = [timer EXCEPT ![t] = "expired"]
    /\ pc[t] \in {"submitting", "submitted", "failing"} => t \in Slow
    /\ \A i, j \in DOMAIN flying :
         i < j /\ flying[j] = t => timer[flying[i]] # "running"
    /\ UNCHANGED <<threads, flying, flyLock, lock, flags, urb, action, status,
                   locks, eventData, polling>>

SubmitTransfer(t) ==
    Submit(t) \/ SubmitUrb(t) \/ SubmitFails(t) \/ SubmitRemove(t) \/ Submitted(t)

HandleTimeouts(t) ==
    \/ TimeoutsBegin(t) \/ TimeoutsNext(t) \/ TimeoutMark(t) \/ TimeoutCancel(t)
    \/ TimedOut(t) \/ TimeoutsEnd(t)

WaitForCompletion(t) ==
    \/ Loop(t) \/ TryLockEvents(t) \/ LockWaiters(t) \/ Wait(t) \/ WaitTimesOut(t)

HandleEvents(t) ==
    \/ Refresh(t) \/ PollPipe(t) \/ PollDevices(t) \/ PollTimesOut(t) \/ PollAgain(t)
    \/ \E u \in Threads : Reap(t, u)
    \/ HandleCompletion(t) \/ ReapEnds(t) \/ UnlockEvents(t) \/ Broadcast(t)

Close(t) ==
    CloseBegin(t) \/ CloseLock(t) \/ DoClose(t) \/ CloseEnd(t) \/ CloseUnlock(t)

Thread(t) ==
    \/ Open(t) \/ SubmitTransfer(t) \/ HandleTimeouts(t) \/ WaitForCompletion(t)
    \/ HandleEvents(t) \/ Close(t)

Next ==
    \/ \E t \in Threads : Thread(t) \/ UrbCompletes(t) \/ Expire(t)
    \/ Message

(* Threads run and get the locks they wait for; time passes.  Nothing      *)
(* makes a device complete a URB.                                          *)
Fairness == \A t \in Threads : SF_vars(Thread(t)) /\ WF_vars(Expire(t))

Spec == Init /\ [][Next]_vars /\ Fairness

---------------------------------------------------------------------------
AllFlags == {"SUBMITTING", "IN_FLIGHT", "CANCELLING", "TIMED_OUT", "COMPLETED",
             "TIMEOUT_HANDLED"}

TypeOK ==
    /\ at \in [Threads -> Threads \cup {NoOne}]
    /\ until \in [Threads -> Timed \cup {NoOne}]
    /\ IsInjective(flying) /\ ToSet(flying) \subseteq Threads
    /\ \A i, j \in DOMAIN flying :
         i < j /\ flying[j] \in Timed => flying[i] \in Timed
    /\ flyLock \in Threads \cup {NoOne}
    /\ lock \in [Threads -> Threads \cup {NoOne}]
    /\ flags \in [Threads -> SUBSET AllFlags]
    /\ events \in Threads \cup {NoOne} /\ waiters \in Threads \cup {NoOne}
    /\ closing \in 0 .. Cardinality(Threads)
    /\ ipollfds \subseteq Threads /\ pollfds \subseteq Threads

(* "Only signal an event if there are no prior pending events" (io.c:2607, *)
(* core.c:1450): the pipe holds one byte exactly while an event is pending,*)
(* so that no poll misses one and none returns for nothing.                *)
PipeMatches == pipe = IF Pending THEN 1 ELSE 0

(* "we want to perform the actual close of the device while holding the    *)
(* event handling lock, because we will be removing a file descriptor from *)
(* the polling loop" (core.c:1443): no thread polls a handle that is       *)
(* closed.                                                                 *)
PollsOpenHandles ==
    \A t \in Threads : pc[t] \in {"poll", "repoll", "reap"} =>
        pollfds \subseteq ipollfds

(* A transfer that a thread has in its hands, to time it out or to         *)
(* complete it, or that is on the list, is not complete: its owner would   *)
(* free it.                                                                *)
HandlesLiveTransfers ==
    /\ \A t \in Threads : at[t] # NoOne => ~Complete(at[t])
    /\ \A i \in DOMAIN flying : ~Complete(flying[i])

(* "timeout that this function should wait before giving up" (sync.c:79):  *)
(* a synchronous transfer with a timeout returns, whichever of the threads *)
(* handles events, and whether the device answers or not.                  *)
TimedReturns ==
    \A t \in Timed : pc[t] = "loop" ~> pc[t] = "done"

(* A URB that the device completes is noticed, and its transfer completed. *)
CompletionNoticed ==
    \A t \in Threads : urb[t] = "done" ~> Complete(t)

(* libusb_close returns, although a thread may be polling for a transfer   *)
(* that never completes.                                                   *)
CloseReturns ==
    \A t \in Threads : pc[t] = "close" ~> pc[t] = "done"

(* No thread has in its hands what another has closed or completed.        *)
UsesLive == TypeOK /\ PollsOpenHandles /\ HandlesLiveTransfers

(* A transfer that has timed out or that the device has completed returns, *)
(* whichever thread handles events (libusb_handle_events_timeout_completed)*)
TransfersReturn == TimedReturns /\ CompletionNoticed

(* "LIBUSB_ERROR_TIMEOUT if the transfer timed out" (sync.c:84): a         *)
(* transfer that libusb's timeout ended is not reported as cancelled.      *)
(* Does not hold: TIMED_OUT is set when the cancellation has been made,    *)
(* and may come after the completion.                                      *)
TimeoutReported == \A t \in Threads : status[t] # "cancelled"

(* "This function will fire off the USB transfer and then return           *)
(* immediately" (io.c:1457).                                               *)
(* Does not hold if Slow is not empty: a failing submission holds the lock *)
(* of the transfer and wants that of the list, the handling of timeouts    *)
(* the other way round.                                                    *)
SubmitReturns ==
    \A t \in Threads :
        pc[t] = "submitting" ~> pc[t] \notin {"submitting", "failing"}
=============================================================================
