---------------------------- MODULE RtlSdrStream ----------------------------
(***************************************************************************)
(* Asynchronous reading in librtlsdr.c, and the RTL-SDR device of          *)
(* rtlsdrdevice.c that starts it, is told of the server's end and closes   *)
(* the dongle.                                                             *)
(*                                                                         *)
(*   dev   the thread of openAsync, from the moment the dongle is set up:  *)
(*         rtlsdr_read_async, then rtlsdr_close                            *)
(*   srv   the server thread, which ends with closedcb (see SdrTcp)        *)
(*   cmd   the command listener: a command is a control transfer, and a    *)
(*         thread that waits for one handles the events of all transfers   *)
(*                                                                         *)
(* libusb is its event lock, the transfers in flight and those that are    *)
(* complete but not reaped.  A step is one access to a field of the device *)
(* that another thread can see, or one libusb call.                        *)
(***************************************************************************)
EXTENDS Naturals

CONSTANTS BufNum,  \* dev->xfer_buf_num
          Faults   \* which libusb calls may fail: "submit", "events"

ASSUME StreamAssumption ==
    /\ BufNum \in Nat \ {0}
    /\ Faults \subseteq {"submit", "events"}

Transfers == 1 .. BufNum

(* How a transfer can complete.  After "other" (a stall, an overflow) it   *)
(* is neither submitted again nor counted.                                 *)
Outcomes == {"completed", "error", "noDevice", "cancelled", "other"}

VARIABLES
    status,    \* dev->async_status
    cancel,    \* dev->async_cancel
    lost,      \* dev->dev_lost
    next,      \* next_status in rtlsdr_read_async
    i,         \* the loop index in rtlsdr_read_async
    errors,    \* dev->xfer_errors
    flight,    \* transfer -> "idle", "flying", or the outcome to be reaped
    cancelled, \* the transfers whose xfer->status is CANCELLED
    events,    \* who holds the event lock of libusb
    present,   \* the dongle is plugged in
    rtl,       \* dev->rtl_dev # NULL in rtlsdrdevice.c
    freed,     \* the device structure has been freed
    dev, srv, cmd, \* where the threads are
    fault      \* undefined behaviour ended the process

async == <<status, cancel, lost>>
local == <<next, i>>
xfer == <<errors, flight, cancelled>>
handle == <<present, rtl, freed, fault>>
vars == <<status, cancel, lost, next, i, errors, flight, cancelled, events,
          present, rtl, freed, dev, srv, cmd, fault>>

ReapLabels == {"reap", "flushReap", "lastReap"}
Loop == {"loop", "events", "test", "cancel", "flush", "last"} \cup ReapLabels
Reading == {"clear", "submit"} \cup Loop
Ending == {"release", "leave", "detach", "close", "end"}

TypeOK ==
    /\ status \in {"inactive", "canceling", "running"}
    /\ next \in {"inactive", "canceling"}
    /\ cancel \in BOOLEAN /\ lost \in BOOLEAN /\ present \in BOOLEAN
    /\ rtl \in BOOLEAN /\ freed \in BOOLEAN /\ fault \in BOOLEAN
    /\ errors \in Nat
    /\ i \in 1 .. BufNum + 1
    /\ flight \in [Transfers -> {"idle", "flying"} \cup Outcomes]
    /\ cancelled \subseteq Transfers
    /\ events \in {"free", "dev", "cmd"}
    /\ dev \in {"attach", "serve", "entry"} \cup Reading \cup Ending
    /\ srv \in {"none", "serving", "closed", "test", "set", "flag", "end"}
    /\ cmd \in {"idle", "command", "reap"}

Init ==
    /\ status = "inactive" /\ cancel = FALSE /\ lost = FALSE
    /\ next = "inactive" /\ i = 1
    /\ errors = 0 /\ flight = [x \in Transfers |-> "idle"] /\ cancelled = {}
    /\ events = "free"
    /\ present = TRUE /\ rtl = FALSE /\ freed = FALSE /\ fault = FALSE
    /\ dev = "attach" /\ srv = "none" /\ cmd = "idle"
-----------------------------------------------------------------------------
Dev(l, m) == dev = l /\ ~fault /\ dev' = m /\ UNCHANGED <<srv, cmd>>
Srv(l, m) == srv = l /\ ~fault /\ srv' = m /\ UNCHANGED <<dev, cmd>>
Cmd(l, m) == cmd = l /\ ~fault /\ cmd' = m /\ UNCHANGED <<dev, srv>>

(* Undefined behaviour: the process dies, or goes on as if nothing were.   *)
Undefined == fault' \in BOOLEAN

(* libusb_submit_transfer succeeds or fails.                               *)
Submitted(ok) == IF ok THEN present ELSE ~present \/ "submit" \in Faults

(* rtlsdr_cancel_async, called from the transfer callback: one step, since *)
(* the loop that it cancels waits for the callback.                        *)
CancelAsync ==
    IF status = "running" THEN status' = "canceling" /\ cancel' = TRUE
                          ELSE UNCHANGED <<status, cancel>>

(* libusb hands transfer x back, and _libusb_callback decides.  The        *)
(* application's callback, rtlsdr_callback, touches nothing of this.       *)
Completed(x) ==
    /\ flight[x] = "completed"
    /\ \E ok \in BOOLEAN :
          /\ Submitted(ok)
          /\ flight' = [flight EXCEPT ![x] = IF ok THEN "flying" ELSE "idle"]
    /\ errors' = 0
    /\ cancelled' = cancelled \ {x}
    /\ UNCHANGED async

(* Mutant: a dongle that is gone is taken for a failed transfer.           *)
FailedBlind(x) ==
    /\ flight[x] \in {"error", "noDevice", "other"}
    /\ flight' = [flight EXCEPT ![x] = "idle"]
    /\ cancelled' = cancelled \ {x}
    /\ UNCHANGED <<errors, async>>

Failed(x) ==
    /\ flight[x] \in {"error", "noDevice", "other"}
    /\ flight' = [flight EXCEPT ![x] = "idle"]
    /\ errors' = IF flight[x] = "error" THEN errors + 1 ELSE errors
    /\ cancelled' = cancelled \ {x}
    /\ IF errors' >= BufNum \/ flight[x] = "noDevice"
       THEN lost' = TRUE /\ CancelAsync
       ELSE UNCHANGED async

(* Mutant: a cancelled transfer is submitted again like a completed one.   *)
CancelledAgain(x) ==
    /\ flight[x] = "cancelled"
    /\ \E ok \in BOOLEAN :
          /\ Submitted(ok)
          /\ flight' = [flight EXCEPT ![x] = IF ok THEN "flying" ELSE "idle"]
    /\ cancelled' = cancelled \cup {x}
    /\ UNCHANGED <<errors, async>>

Cancelled(x) ==
    /\ flight[x] = "cancelled"
    /\ flight' = [flight EXCEPT ![x] = "idle"]
    /\ cancelled' = cancelled \cup {x}
    /\ UNCHANGED <<errors, async>>

Reapable == {x \in Transfers : flight[x] \in Outcomes}
Reap == \E x \in Reapable : Completed(x) \/ Failed(x) \/ Cancelled(x)
-----------------------------------------------------------------------------
(* openAsync from the moment it owns the dongle and a listening socket.    *)
Attach ==
    /\ Dev("attach", "serve")
    /\ rtl' = TRUE
    /\ UNCHANGED <<async, local, xfer, events, present, freed, fault>>

Serve ==
    /\ dev = "serve" /\ ~fault
    /\ dev' = "entry" /\ srv' = "serving" /\ UNCHANGED cmd
    /\ UNCHANGED <<async, local, xfer, events, handle>>

(* rtlsdr_read_async.                                                      *)
ReadEntry ==
    /\ \/ status = "inactive" /\ Dev("entry", "clear") /\ status' = "running"
       \/ status # "inactive" /\ Dev("entry", "detach") /\ UNCHANGED status
    /\ UNCHANGED <<cancel, lost, local, xfer, events, handle>>

ReadClear ==
    /\ Dev("clear", "submit")
    /\ cancel' = FALSE
    /\ next' = "inactive" /\ i' = 1
    /\ UNCHANGED <<status, lost, xfer, events, handle>>

(* The loops over dev->xfer; the mutant runs one too far.                  *)
MoreOver == i <= BufNum + 1
More == i <= BufNum

Submit ==
    /\ \/ /\ More /\ Submitted(TRUE)
          /\ Dev("submit", "submit")
          /\ flight' = [flight EXCEPT ![i] = "flying"]
          /\ i' = i + 1
          /\ UNCHANGED status
       \/ /\ More /\ Submitted(FALSE)
          /\ Dev("submit", "loop")
          /\ status' = "canceling"
          /\ UNCHANGED <<flight, i>>
       \/ /\ ~More
          /\ Dev("submit", "loop")
          /\ UNCHANGED <<status, flight, i>>
    /\ UNCHANGED <<cancel, lost, next, errors, cancelled, events, handle>>

LoopTest ==
    /\ Dev("loop", IF status = "inactive" THEN "release" ELSE "events")
    /\ UNCHANGED <<async, local, xfer, events, handle>>

(* libusb_handle_events_timeout_completed: with the event lock it reaps    *)
(* what is complete, without it it waits at most until the timeout.        *)
Handle(l, reap, back) ==
    /\ \/ events = "free" /\ Dev(l, reap) /\ events' = "dev"
       \/ events = "cmd" /\ Dev(l, back) /\ UNCHANGED events
    /\ UNCHANGED <<async, local, xfer, handle>>

ReapAll(l, back) ==
    /\ \/ Dev(l, l) /\ Reap /\ UNCHANGED events
       \/ /\ Dev(l, back) /\ Reapable = {} /\ events' = "free"
          /\ UNCHANGED <<async, xfer>>
    /\ UNCHANGED <<local, handle>>

(* The call that waits: async_cancel makes it return at once, an error     *)
(* ends the loop, a stray signal restarts it.                              *)
Events ==
    \/ ~cancel /\ Handle("events", "reap", "test")
    \/ /\ cancel /\ Dev("events", "test")
       /\ UNCHANGED <<async, local, xfer, events, handle>>

EventsFail ==
    /\ ~cancel /\ "events" \in Faults
    /\ \E l \in {"loop", "release"} : Dev("events", l)
    /\ UNCHANGED <<async, local, xfer, events, handle>>

EventsReap == ReapAll("reap", "test")

(* Mutant: next_status keeps the result of the round before.               *)
CancelTestKeeps ==
    /\ \/ /\ status = "canceling" /\ Dev("test", "cancel")
          /\ i' = 1 /\ UNCHANGED next
       \/ status # "canceling" /\ Dev("test", "loop") /\ UNCHANGED local
    /\ UNCHANGED <<async, xfer, events, handle>>

CancelTest ==
    /\ \/ /\ status = "canceling" /\ Dev("test", "cancel")
          /\ next' = "inactive" /\ i' = 1
       \/ status # "canceling" /\ Dev("test", "loop") /\ UNCHANGED local
    /\ UNCHANGED <<async, xfer, events, handle>>

(* One transfer of the cancellation round: libusb_cancel_transfer succeeds *)
(* on a transfer in flight and fails on any other.                         *)
CancelTransfer ==
    /\ More
    /\ i' = i + 1
    /\ \/ /\ i \in cancelled /\ Dev("cancel", "cancel")
          /\ UNCHANGED <<flight, next>>
       \/ /\ i \notin cancelled /\ Dev("cancel", "flush")
          /\ IF flight[i] = "flying"
             THEN flight' = [flight EXCEPT ![i] = "cancelled"] /\ next' = "canceling"
             ELSE UNCHANGED <<flight, next>>
    /\ UNCHANGED <<async, errors, cancelled, events, handle>>

Flush == Handle("flush", "flushReap", "cancel")
FlushReap == ReapAll("flushReap", "cancel")

CancelRound ==
    /\ ~More
    /\ Dev("cancel", IF lost \/ next = "inactive" THEN "last" ELSE "loop")
    /\ UNCHANGED <<async, local, xfer, events, handle>>

Last == Handle("last", "lastReap", "release")
LastReap == ReapAll("lastReap", "release")

(* _rtlsdr_free_async_buffers: undefined with a transfer in flight.        *)
InFlight == \E x \in Transfers : flight[x] # "idle"

Release ==
    /\ Dev("release", "leave")
    /\ flight' = [x \in Transfers |-> "idle"]
    /\ IF InFlight THEN Undefined ELSE UNCHANGED fault
    /\ UNCHANGED <<async, local, errors, cancelled, events, present, rtl, freed>>

Leave ==
    /\ Dev("leave", "detach")
    /\ status' = next
    /\ UNCHANGED <<cancel, lost, local, xfer, events, handle>>

Detach ==
    /\ Dev("detach", "close")
    /\ rtl' = FALSE
    /\ UNCHANGED <<async, local, xfer, events, present, freed, fault>>

(* rtlsdr_close spins until the status is INACTIVE.                        *)
Close ==
    /\ \/ /\ lost \/ status = "inactive"
          /\ Dev("close", "end") /\ freed' = TRUE
       \/ /\ ~lost /\ status # "inactive"
          /\ Dev("close", "close") /\ UNCHANGED freed
    /\ UNCHANGED <<async, local, xfer, events, present, rtl, fault>>

DevStep ==
    \/ Attach \/ Serve \/ ReadEntry \/ ReadClear \/ Submit \/ LoopTest \/ Events
    \/ EventsFail \/ EventsReap \/ CancelTest \/ CancelTransfer \/ Flush \/ FlushReap
    \/ CancelRound \/ Last \/ LastReap \/ Release \/ Leave \/ Detach \/ Close
-----------------------------------------------------------------------------
(* The server may end at any time, once its command listener has ended.    *)
ServerEnds ==
    /\ cmd = "idle" /\ Srv("serving", "closed")
    /\ UNCHANGED <<async, local, xfer, events, handle>>

(* tcpClosedCallback, then rtlsdr_cancel_async with its test and its two   *)
(* assignments.                                                            *)
ClosedTest ==
    /\ Srv("closed", IF rtl THEN "test" ELSE "end")
    /\ UNCHANGED <<async, local, xfer, events, handle>>

ClosedStep(l, m) ==
    /\ Srv(l, m)
    /\ IF freed THEN Undefined ELSE UNCHANGED fault
    /\ UNCHANGED <<lost, local, xfer, events, present, rtl, freed>>

ClosedCancel ==
    ClosedStep("test", IF status = "running" THEN "set" ELSE "end")
    /\ UNCHANGED <<status, cancel>>
(* Mutant: async_cancel is set, but the status is not.                     *)
ClosedSetFlag == ClosedStep("set", "flag") /\ cancel' = TRUE /\ UNCHANGED status
ClosedSet == ClosedStep("set", "flag") /\ status' = "canceling" /\ UNCHANGED cancel
ClosedFlag == ClosedStep("flag", "end") /\ cancel' = TRUE /\ UNCHANGED status

SrvStep == ClosedTest \/ ClosedCancel \/ ClosedSet \/ ClosedFlag

(* tcpCommandCallback tests rtl_dev; its control transfer then takes the   *)
(* event lock if it is free, reaps, and returns.                           *)
Command ==
    /\ srv = "serving" /\ rtl /\ Cmd("idle", "command")
    /\ UNCHANGED <<async, local, xfer, events, handle>>

Control ==
    /\ \/ events = "free" /\ Cmd("command", "reap") /\ events' = "cmd"
       \/ Cmd("command", "idle") /\ UNCHANGED events
    /\ IF freed THEN Undefined ELSE UNCHANGED fault
    /\ UNCHANGED <<async, local, xfer, present, rtl, freed>>

ControlReap ==
    /\ \/ Cmd("reap", "reap") /\ Reap /\ UNCHANGED events
       \/ /\ Cmd("reap", "idle") /\ Reapable = {} /\ events' = "free"
          /\ UNCHANGED <<async, xfer>>
    /\ IF freed THEN Undefined ELSE UNCHANGED fault
    /\ UNCHANGED <<local, present, rtl, freed>>

CmdStep == Control \/ ControlReap
-----------------------------------------------------------------------------
(* The dongle delivers, or fails, a transfer; callbacks are quicker than   *)
(* the dongle, so that reaping comes to an end.                            *)
Deliver ==
    /\ ~fault /\ dev \notin ReapLabels
    /\ \E x \in Transfers, o \in {"completed", "error", "other"} :
          flight[x] = "flying" /\ flight' = [flight EXCEPT ![x] = o]
    /\ UNCHANGED <<async, local, errors, cancelled, events, handle, dev, srv, cmd>>

(* The dongle is pulled out.                                               *)
Unplug ==
    /\ ~fault /\ present
    /\ present' = FALSE
    /\ flight' = [x \in Transfers |->
                     IF flight[x] = "flying" THEN "noDevice" ELSE flight[x]]
    /\ UNCHANGED <<async, local, errors, cancelled, events, rtl, freed, fault,
                   dev, srv, cmd>>

Rest == (fault \/ (dev = "end" /\ srv = "end")) /\ UNCHANGED vars

Next == \/ DevStep \/ SrvStep \/ CmdStep \/ ServerEnds \/ Command
        \/ Deliver \/ Unplug \/ Rest

Spec == Init /\ [][Next]_vars

(* Every thread is scheduled, and a stray signal does not interrupt every  *)
(* call.  Nothing makes the client come or go, the dongle deliver or a     *)
(* command arrive.                                                         *)
FairSpec == /\ Spec
            /\ WF_vars(DevStep) /\ WF_vars(SrvStep) /\ WF_vars(CmdStep)
            /\ SF_vars(Events)
-----------------------------------------------------------------------------
(* While it reads, a dongle found lost or a set async_cancel goes with a   *)
(* status that ends the loop: otherwise the loop would wait for a dongle   *)
(* that is gone, or spin without handling an event.                        *)
ToldToEnd == dev \in Reading /\ (lost \/ cancel) => status # "running"

(* The rounds skip a transfer whose status is CANCELLED: such a transfer   *)
(* is never in flight, whoever reaped it, or it would be freed active.     *)
CancelledIdle == \A x \in cancelled : flight[x] = "idle"

(* The loop keeps its promise to end once it has been told to.             *)
ReadEnds ==
    (dev \in Reading /\ status = "canceling") ~> (dev \notin Reading \/ fault)

(* Nor does it outlive the dongle, if a transfer was in flight when the    *)
(* dongle was pulled out.                                                  *)
UnplugEnds ==
    (dev \in Reading /\ \E x \in Transfers : flight[x] = "noDevice")
        ~> (dev \notin Reading \/ fault)
-----------------------------------------------------------------------------
(* libusb/io.c:1290: "It is not legal to free an active transfer".         *)
FreedIdle == dev = "release" => ~InFlight

(* librtlsdr.c:1672: "block until all async operations have been           *)
(* completed": when they have been, the dongle is closed.                  *)
(* Does not hold: a cancellation that crosses the end of the reading       *)
(* leaves the status at CANCELING.                                         *)
CloseReturns == dev = "close" ~> (dev = "end" \/ fault)
=============================================================================
