-------------------------- MODULE RtlSdrStreamProofs ------------------------
(***************************************************************************)
(* What asynchronous reading guarantees for any number of transfers and    *)
(* any failures of libusb.                                                 *)
(***************************************************************************)
EXTENDS RtlSdrStream, TLAPS

(* Before the first submission nothing has been reaped or cancelled.       *)
Early == {"attach", "serve", "entry"}
Fresh ==
    /\ dev \in Early => /\ ~lost /\ ~cancel /\ status = "inactive"
                        /\ srv \notin {"set", "flag"}
    /\ dev \in Early \cup {"clear"} => flight = [x \in Transfers |-> "idle"]
    /\ dev \in Early \cup {"clear", "submit"} =>
          /\ cancelled = {}
          /\ \A x \in Transfers : flight[x] # "cancelled"

(* Whoever saw a reason to end has already taken the status from RUNNING,  *)
(* which is assigned only once.                                            *)
Told == lost \/ cancel \/ srv = "flag" => status # "running"

StreamInv == TypeOK /\ Fresh /\ Told /\ CancelledIdle

LEMMA InitStream == StreamAssumption /\ Init => StreamInv
<1> SUFFICES ASSUME StreamAssumption, Init PROVE StreamInv
  OBVIOUS
<1>1. TypeOK
  <2>1. i \in 1 .. BufNum + 1
    BY DEF StreamAssumption, Init
  <2> QED BY <2>1 DEF Init, TypeOK
<1>2. Fresh /\ Told /\ CancelledIdle
  BY DEF Init, Fresh, Early, Told, CancelledIdle
<1> QED BY <1>1, <1>2 DEF StreamInv

(* Reaping one transfer.                                                   *)
LEMMA ReapKeeps ==
    ASSUME StreamAssumption, StreamInv, Reap,
           dev' = dev, srv' = srv, dev \notin Early \cup {"clear"}
    PROVE  /\ status' \in {"inactive", "canceling", "running"}
           /\ cancel' \in BOOLEAN /\ lost' \in BOOLEAN
           /\ errors' \in Nat
           /\ flight' \in [Transfers -> {"idle", "flying"} \cup Outcomes]
           /\ cancelled' \subseteq Transfers
           /\ Told' /\ CancelledIdle'
           /\ dev = "submit" => cancelled' = {} /\ \A x \in Transfers : flight'[x] # "cancelled"
<1> USE DEF StreamInv
<1>1. PICK x \in Reapable : Completed(x) \/ Failed(x) \/ Cancelled(x)
  BY DEF Reap
<1>2. x \in Transfers /\ flight[x] \in Outcomes
  BY DEF Reapable
<1>3. flight \in [Transfers -> {"idle", "flying"} \cup Outcomes] /\ cancelled \subseteq Transfers
      /\ errors \in Nat /\ cancel \in BOOLEAN /\ lost \in BOOLEAN
      /\ status \in {"inactive", "canceling", "running"}
  BY DEF TypeOK
<1>4. dev = "submit" => cancelled = {} /\ \A y \in Transfers : flight[y] # "cancelled"
  BY DEF Fresh
<1>5. CASE Completed(x)
  <2>1. /\ flight' \in [Transfers -> {"idle", "flying"} \cup Outcomes]
        /\ \A y \in Transfers : y # x => flight'[y] = flight[y]
        /\ flight'[x] \in {"idle", "flying"}
    BY <1>2, <1>3, <1>5 DEF Completed
  <2>2. errors' = 0 /\ cancelled' = cancelled \ {x}
        /\ status' = status /\ cancel' = cancel /\ lost' = lost
    BY <1>5 DEF Completed, async
  <2> QED BY <1>2, <1>3, <1>4, <2>1, <2>2 DEF Told, CancelledIdle
<1>6. CASE Failed(x)
  <2>1. /\ flight' = [flight EXCEPT ![x] = "idle"]
        /\ cancelled' = cancelled \ {x}
        /\ errors' \in Nat
    BY <1>3, <1>6 DEF Failed
  <2>2. /\ status' \in {"inactive", "canceling", "running"}
        /\ cancel' \in BOOLEAN /\ lost' \in BOOLEAN
        /\ Told'
    BY <1>3, <1>6 DEF Failed, CancelAsync, async, Told
  <2> QED BY <1>2, <1>3, <1>4, <2>1, <2>2 DEF CancelledIdle
<1>7. CASE Cancelled(x)
  <2>1. /\ flight' = [flight EXCEPT ![x] = "idle"]
        /\ cancelled' = cancelled \cup {x}
        /\ errors' = errors
        /\ status' = status /\ cancel' = cancel /\ lost' = lost
        /\ dev # "submit"
    BY <1>2, <1>4, <1>7 DEF Cancelled, async
  <2> QED BY <1>2, <1>3, <2>1 DEF CancelledIdle, Told
<1> QED BY <1>1, <1>5, <1>6, <1>7

(* A step of the protocol, action by action.                               *)
LEMMA StepStream ==
    ASSUME StreamAssumption, StreamInv, [Next]_vars
    PROVE  StreamInv'
<1> USE DEF StreamInv
<1>0. /\ flight \in [Transfers -> {"idle", "flying"} \cup Outcomes]
      /\ cancelled \subseteq Transfers /\ BufNum \in Nat /\ BufNum >= 1
      /\ i \in 1 .. BufNum + 1
  BY DEF TypeOK, StreamAssumption
<1> USE <1>0 DEF Dev, Srv, Cmd, Undefined, async, local, xfer, handle
<1>1. CASE Attach
  <2>1. TypeOK'
    BY <1>1 DEF Attach, TypeOK, Reading, Loop, ReapLabels, Ending
  <2>2. Fresh'
    BY <1>1 DEF Attach, Fresh, Early, TypeOK
  <2>3. Told' /\ CancelledIdle'
    BY <1>1 DEF Attach, Fresh, Early, Told, CancelledIdle
  <2> QED BY <2>1, <2>2, <2>3
<1>2. CASE Serve
  <2>1. TypeOK'
    BY <1>2 DEF Serve, TypeOK, Reading, Loop, ReapLabels, Ending
  <2>2. Fresh'
    BY <1>2 DEF Serve, Fresh, Early, TypeOK
  <2>3. Told' /\ CancelledIdle'
    BY <1>2 DEF Serve, Fresh, Early, Told, CancelledIdle
  <2> QED BY <2>1, <2>2, <2>3
<1>3. CASE ReadEntry
  <2>1. TypeOK'
    BY <1>3 DEF ReadEntry, TypeOK, Reading, Loop, ReapLabels, Ending
  <2>2. Fresh'
    BY <1>3 DEF ReadEntry, Fresh, Early, TypeOK
  <2>3. Told' /\ CancelledIdle'
    BY <1>3 DEF ReadEntry, Fresh, Early, Told, CancelledIdle
  <2> QED BY <2>1, <2>2, <2>3
<1>4. CASE ReadClear
  <2>0. /\ i' \in 1 .. BufNum + 1
        /\ next' \in {"inactive", "canceling"}
        /\ cancel' = FALSE /\ dev' = "submit"
        /\ status' = status /\ lost' = lost /\ errors' = errors
        /\ flight' = flight /\ cancelled' = cancelled /\ events' = events
        /\ present' = present /\ rtl' = rtl /\ freed' = freed
        /\ fault' = fault /\ srv' = srv /\ cmd' = cmd
    BY <1>4 DEF ReadClear, TypeOK, Transfers, Outcomes
  <2>1. TypeOK'
    <3>1. /\ cancel' \in BOOLEAN /\ lost' \in BOOLEAN /\ present' \in BOOLEAN
          /\ rtl' \in BOOLEAN /\ freed' \in BOOLEAN /\ fault' \in BOOLEAN
      BY <2>0, Zenon DEF TypeOK
    <3>2. /\ status' \in {"inactive", "canceling", "running"}
          /\ next' \in {"inactive", "canceling"}
          /\ errors' \in Nat /\ i' \in 1 .. BufNum + 1
          /\ events' \in {"free", "dev", "cmd"}
      BY <2>0 DEF TypeOK
    <3>3. /\ dev' \in {"attach", "serve", "entry"} \cup Reading \cup Ending
          /\ srv' \in {"none", "serving", "closed", "test", "set", "flag", "end"}
          /\ cmd' \in {"idle", "command", "reap"}
      BY <2>0 DEF TypeOK, Reading
    <3>4. /\ flight' \in [Transfers -> {"idle", "flying"} \cup Outcomes]
          /\ cancelled' \subseteq Transfers
      BY <2>0 DEF TypeOK
    <3> QED BY <3>1, <3>2, <3>3, <3>4 DEF TypeOK
  <2>2. Fresh'
    BY <1>4 DEF ReadClear, Fresh, Early, TypeOK
  <2>3. Told' /\ CancelledIdle'
    BY <1>4 DEF ReadClear, Fresh, Early, Told, CancelledIdle
  <2> QED BY <2>1, <2>2, <2>3
<1>5. CASE Submit
  <2>1. TypeOK'
    BY <1>5 DEF Submit, Submitted, More, TypeOK, Reading, Loop, ReapLabels, Ending
  <2>2. Fresh'
    BY <1>5 DEF Submit, Submitted, More, Fresh, Early, TypeOK
  <2>3. Told' /\ CancelledIdle'
    BY <1>5 DEF Submit, Submitted, More, Fresh, Early, Told, CancelledIdle
  <2> QED BY <2>1, <2>2, <2>3
<1>6. CASE LoopTest
  <2>1. TypeOK'
    BY <1>6 DEF LoopTest, TypeOK, Reading, Loop, ReapLabels, Ending
  <2>2. Fresh'
    BY <1>6 DEF LoopTest, Fresh, Early, TypeOK
  <2>3. Told' /\ CancelledIdle'
    BY <1>6 DEF LoopTest, Fresh, Early, Told, CancelledIdle
  <2> QED BY <2>1, <2>2, <2>3
<1>7. CASE Events
  <2>1. TypeOK'
    BY <1>7 DEF Events, Handle, TypeOK, Reading, Loop, ReapLabels, Ending
  <2>2. Fresh'
    BY <1>7 DEF Events, Handle, Fresh, Early, TypeOK
  <2>3. Told' /\ CancelledIdle'
    BY <1>7 DEF Events, Handle, Fresh, Early, Told, CancelledIdle
  <2> QED BY <2>1, <2>2, <2>3
<1>8. CASE EventsFail
  <2>1. TypeOK'
    BY <1>8 DEF EventsFail, TypeOK, Reading, Loop, ReapLabels, Ending
  <2>2. Fresh'
    BY <1>8 DEF EventsFail, Fresh, Early, TypeOK
  <2>3. Told' /\ CancelledIdle'
    BY <1>8 DEF EventsFail, Fresh, Early, Told, CancelledIdle
  <2> QED BY <2>1, <2>2, <2>3
<1>9. CASE EventsReap
  <2>1. CASE Reapable # {}
    <3>1. Reap /\ dev' = dev /\ srv' = srv /\ cmd' = cmd
      BY <1>9, <2>1 DEF EventsReap, ReapAll
    <3>2. dev \notin Early \cup {"clear"}
      BY <1>9, <2>1 DEF EventsReap, ReapAll, Early
    <3>3. TypeOK'
      BY <1>9, <3>1, <3>2, ReapKeeps DEF EventsReap, ReapAll, TypeOK
    <3>4. Fresh'
      BY <1>9, <3>1, <3>2, ReapKeeps DEF EventsReap, ReapAll, Fresh, Early
    <3> QED BY <3>1, <3>2, <3>3, <3>4, ReapKeeps
  <2>2. CASE Reapable = {}
    <3>1. ~Reap
      BY <2>2 DEF Reap
    <3>2. TypeOK'
      BY <1>9, <3>1 DEF EventsReap, ReapAll, TypeOK, Reading, Loop, ReapLabels, Ending
    <3> QED BY <1>9, <3>1, <3>2 DEF EventsReap, ReapAll, Fresh, Early, Told,
      CancelledIdle
  <2> QED BY <2>1, <2>2
<1>10. CASE CancelTest
  <2>1. TypeOK'
    BY <1>10 DEF CancelTest, TypeOK, Reading, Loop, ReapLabels, Ending
  <2>2. Fresh'
    BY <1>10 DEF CancelTest, Fresh, Early, TypeOK
  <2>3. Told' /\ CancelledIdle'
    BY <1>10 DEF CancelTest, Fresh, Early, Told, CancelledIdle
  <2> QED BY <2>1, <2>2, <2>3
<1>11. CASE CancelTransfer
  <2>0. i' \in 1 .. BufNum + 1 /\ flight' \in [Transfers -> {"idle", "flying"} \cup Outcomes]
    BY <1>11 DEF CancelTransfer, More, TypeOK, Transfers, Outcomes
  <2>1. TypeOK'
    BY <1>11, <2>0 DEF CancelTransfer, More, TypeOK, Reading, Loop, ReapLabels, Ending
  <2>2. Fresh'
    BY <1>11 DEF CancelTransfer, More, Fresh, Early, TypeOK
  <2>3. Told' /\ CancelledIdle'
    BY <1>11 DEF CancelTransfer, More, Fresh, Early, Told, CancelledIdle
  <2> QED BY <2>1, <2>2, <2>3
<1>12. CASE Flush
  <2>1. TypeOK'
    BY <1>12 DEF Flush, Handle, TypeOK, Reading, Loop, ReapLabels, Ending
  <2>2. Fresh'
    BY <1>12 DEF Flush, Handle, Fresh, Early, TypeOK
  <2>3. Told' /\ CancelledIdle'
    BY <1>12 DEF Flush, Handle, Fresh, Early, Told, CancelledIdle
  <2> QED BY <2>1, <2>2, <2>3
<1>13. CASE FlushReap
  <2>1. CASE Reapable # {}
    <3>1. Reap /\ dev' = dev /\ srv' = srv /\ cmd' = cmd
      BY <1>13, <2>1 DEF FlushReap, ReapAll
    <3>2. dev \notin Early \cup {"clear"}
      BY <1>13, <2>1 DEF FlushReap, ReapAll, Early
    <3>3. TypeOK'
      BY <1>13, <3>1, <3>2, ReapKeeps DEF FlushReap, ReapAll, TypeOK
    <3>4. Fresh'
      BY <1>13, <3>1, <3>2, ReapKeeps DEF FlushReap, ReapAll, Fresh, Early
    <3> QED BY <3>1, <3>2, <3>3, <3>4, ReapKeeps
  <2>2. CASE Reapable = {}
    <3>1. ~Reap
      BY <2>2 DEF Reap
    <3>2. TypeOK'
      BY <1>13, <3>1 DEF FlushReap, ReapAll, TypeOK, Reading, Loop, ReapLabels, Ending
    <3> QED BY <1>13, <3>1, <3>2 DEF FlushReap, ReapAll, Fresh, Early, Told,
      CancelledIdle
  <2> QED BY <2>1, <2>2
<1>14. CASE CancelRound
  <2>1. TypeOK'
    BY <1>14 DEF CancelRound, More, TypeOK, Reading, Loop, ReapLabels, Ending
  <2>2. Fresh'
    BY <1>14 DEF CancelRound, More, Fresh, Early, TypeOK
  <2>3. Told' /\ CancelledIdle'
    BY <1>14 DEF CancelRound, More, Fresh, Early, Told, CancelledIdle
  <2> QED BY <2>1, <2>2, <2>3
<1>15. CASE Last
  <2>1. TypeOK'
    BY <1>15 DEF Last, Handle, TypeOK, Reading, Loop, ReapLabels, Ending
  <2>2. Fresh'
    BY <1>15 DEF Last, Handle, Fresh, Early, TypeOK
  <2>3. Told' /\ CancelledIdle'
    BY <1>15 DEF Last, Handle, Fresh, Early, Told, CancelledIdle
  <2> QED BY <2>1, <2>2, <2>3
<1>16. CASE LastReap
  <2>1. CASE Reapable # {}
    <3>1. Reap /\ dev' = dev /\ srv' = srv /\ cmd' = cmd
      BY <1>16, <2>1 DEF LastReap, ReapAll
    <3>2. dev \notin Early \cup {"clear"}
      BY <1>16, <2>1 DEF LastReap, ReapAll, Early
    <3>3. TypeOK'
      BY <1>16, <3>1, <3>2, ReapKeeps DEF LastReap, ReapAll, TypeOK
    <3>4. Fresh'
      BY <1>16, <3>1, <3>2, ReapKeeps DEF LastReap, ReapAll, Fresh, Early
    <3> QED BY <3>1, <3>2, <3>3, <3>4, ReapKeeps
  <2>2. CASE Reapable = {}
    <3>1. ~Reap
      BY <2>2 DEF Reap
    <3>2. TypeOK'
      BY <1>16, <3>1 DEF LastReap, ReapAll, TypeOK, Reading, Loop, ReapLabels, Ending
    <3> QED BY <1>16, <3>1, <3>2 DEF LastReap, ReapAll, Fresh, Early, Told,
      CancelledIdle
  <2> QED BY <2>1, <2>2
<1>17. CASE Release
  <2>1. TypeOK'
    BY <1>17 DEF Release, TypeOK, Reading, Loop, ReapLabels, Ending
  <2>2. Fresh'
    BY <1>17 DEF Release, Fresh, Early, TypeOK
  <2>3. Told' /\ CancelledIdle'
    BY <1>17 DEF Release, Fresh, Early, Told, CancelledIdle
  <2> QED BY <2>1, <2>2, <2>3
<1>18. CASE Leave
  <2>1. TypeOK'
    BY <1>18 DEF Leave, TypeOK, Reading, Loop, ReapLabels, Ending
  <2>2. Fresh'
    BY <1>18 DEF Leave, Fresh, Early, TypeOK
  <2>3. Told' /\ CancelledIdle'
    BY <1>18 DEF Leave, TypeOK, Fresh, Early, Told, CancelledIdle
  <2> QED BY <2>1, <2>2, <2>3
<1>19. CASE Detach
  <2>0. rtl' \in BOOLEAN /\ dev' = "close"
    BY <1>19 DEF Detach, TypeOK
  <2>1. TypeOK'
    BY <1>19, <2>0 DEF Detach, TypeOK, Reading, Loop, ReapLabels, Ending
  <2>2. Fresh'
    BY <1>19 DEF Detach, Fresh, Early, TypeOK
  <2>3. Told' /\ CancelledIdle'
    BY <1>19 DEF Detach, Fresh, Early, Told, CancelledIdle
  <2> QED BY <2>1, <2>2, <2>3
<1>20. CASE Close
  <2>0. freed' \in BOOLEAN /\ dev' \in {"close", "end"}
    BY <1>20 DEF Close, TypeOK
  <2>1. TypeOK'
    BY <1>20, <2>0 DEF Close, TypeOK, Reading, Loop, ReapLabels, Ending
  <2>2. Fresh'
    BY <1>20 DEF Close, Fresh, Early, TypeOK
  <2>3. Told' /\ CancelledIdle'
    BY <1>20 DEF Close, Fresh, Early, Told, CancelledIdle
  <2> QED BY <2>1, <2>2, <2>3
<1>21. CASE ClosedTest
  <2>1. TypeOK'
    BY <1>21 DEF ClosedTest, TypeOK, Reading, Loop, ReapLabels, Ending
  <2>2. Fresh'
    BY <1>21 DEF ClosedTest, Fresh, Early, TypeOK
  <2>3. Told' /\ CancelledIdle'
    BY <1>21 DEF ClosedTest, Fresh, Early, Told, CancelledIdle
  <2> QED BY <2>1, <2>2, <2>3
<1>22. CASE ClosedCancel
  <2>1. TypeOK'
    BY <1>22 DEF ClosedCancel, ClosedStep, TypeOK, Reading, Loop, ReapLabels, Ending
  <2>2. Fresh'
    BY <1>22 DEF ClosedCancel, ClosedStep, Fresh, Early, TypeOK
  <2>3. Told' /\ CancelledIdle'
    BY <1>22 DEF ClosedCancel, ClosedStep, Fresh, Early, Told, CancelledIdle
  <2> QED BY <2>1, <2>2, <2>3
<1>23. CASE ClosedSet
  <2>1. TypeOK'
    BY <1>23 DEF ClosedSet, ClosedStep, TypeOK, Reading, Loop, ReapLabels, Ending
  <2>2. Fresh'
    BY <1>23 DEF ClosedSet, ClosedStep, Fresh, Early, TypeOK
  <2>3. Told' /\ CancelledIdle'
    BY <1>23 DEF ClosedSet, ClosedStep, Fresh, Early, Told, CancelledIdle
  <2> QED BY <2>1, <2>2, <2>3
<1>24. CASE ClosedFlag
  <2>1. TypeOK'
    BY <1>24 DEF ClosedFlag, ClosedStep, TypeOK, Reading, Loop, ReapLabels, Ending
  <2>2. Fresh'
    BY <1>24 DEF ClosedFlag, ClosedStep, Fresh, Early, TypeOK
  <2>3. Told' /\ CancelledIdle'
    BY <1>24 DEF ClosedFlag, ClosedStep, Fresh, Early, Told, CancelledIdle
  <2> QED BY <2>1, <2>2, <2>3
<1>25. CASE Control
  <2>1. TypeOK'
    BY <1>25 DEF Control, TypeOK, Reading, Loop, ReapLabels, Ending
  <2>2. Fresh'
    BY <1>25 DEF Control, Fresh, Early, TypeOK
  <2>3. Told' /\ CancelledIdle'
    BY <1>25 DEF Control, Fresh, Early, Told, CancelledIdle
  <2> QED BY <2>1, <2>2, <2>3
<1>26. CASE ControlReap
  <2>1. CASE Reapable # {}
    <3>1. Reap /\ dev' = dev /\ srv' = srv /\ cmd' = cmd
      BY <1>26, <2>1 DEF ControlReap
    <3>2. dev \notin Early \cup {"clear"}
      BY <1>26, <2>1 DEF ControlReap, Early, Fresh, Reapable, Outcomes
    <3>3. TypeOK'
      BY <1>26, <3>1, <3>2, ReapKeeps DEF ControlReap, TypeOK
    <3>4. Fresh'
      BY <1>26, <3>1, <3>2, ReapKeeps DEF ControlReap, Fresh, Early
    <3> QED BY <3>1, <3>2, <3>3, <3>4, ReapKeeps
  <2>2. CASE Reapable = {}
    <3>1. ~Reap
      BY <2>2 DEF Reap
    <3>2. TypeOK'
      BY <1>26, <3>1 DEF ControlReap, TypeOK, Reading, Loop, ReapLabels, Ending
    <3> QED BY <1>26, <3>1, <3>2 DEF ControlReap, Fresh, Early, Told, CancelledIdle
  <2> QED BY <2>1, <2>2
<1>27. CASE ServerEnds
  <2>1. TypeOK'
    BY <1>27 DEF ServerEnds, TypeOK, Reading, Loop, ReapLabels, Ending
  <2>2. Fresh'
    BY <1>27 DEF ServerEnds, Fresh, Early, TypeOK
  <2>3. Told' /\ CancelledIdle'
    BY <1>27 DEF ServerEnds, Fresh, Early, Told, CancelledIdle
  <2> QED BY <2>1, <2>2, <2>3
<1>28. CASE Command
  <2>1. TypeOK'
    BY <1>28 DEF Command, TypeOK, Reading, Loop, ReapLabels, Ending
  <2>2. Fresh'
    BY <1>28 DEF Command, Fresh, Early, TypeOK
  <2>3. Told' /\ CancelledIdle'
    BY <1>28 DEF Command, Fresh, Early, Told, CancelledIdle
  <2> QED BY <2>1, <2>2, <2>3
<1>29. CASE Deliver
  <2>0. flight' \in [Transfers -> {"idle", "flying"} \cup Outcomes]
    BY <1>29 DEF Deliver, TypeOK, Transfers, Outcomes
  <2>1. TypeOK'
    BY <1>29, <2>0 DEF Deliver, TypeOK, Reading, Loop, ReapLabels, Ending
  <2>2. Fresh'
    BY <1>29 DEF Deliver, Fresh, Early, TypeOK
  <2>3. Told' /\ CancelledIdle'
    BY <1>29 DEF Deliver, Fresh, Early, Told, CancelledIdle
  <2> QED BY <2>1, <2>2, <2>3
<1>30. CASE Unplug
  <2>0. /\ flight' \in [Transfers -> {"idle", "flying"} \cup Outcomes]
        /\ present' = FALSE
        /\ status' = status /\ cancel' = cancel /\ lost' = lost
        /\ next' = next /\ i' = i /\ errors' = errors
        /\ cancelled' = cancelled /\ events' = events /\ rtl' = rtl
        /\ freed' = freed /\ fault' = fault /\ dev' = dev /\ srv' = srv
        /\ cmd' = cmd
    BY <1>30 DEF Unplug, TypeOK, Transfers, Outcomes
  <2>1. TypeOK'
    <3>1. /\ cancel' \in BOOLEAN /\ lost' \in BOOLEAN /\ present' \in BOOLEAN
          /\ rtl' \in BOOLEAN /\ freed' \in BOOLEAN /\ fault' \in BOOLEAN
      BY <2>0, Zenon DEF TypeOK
    <3>2. /\ status' \in {"inactive", "canceling", "running"}
          /\ next' \in {"inactive", "canceling"}
          /\ errors' \in Nat /\ i' \in 1 .. BufNum + 1
          /\ events' \in {"free", "dev", "cmd"}
      BY <2>0 DEF TypeOK
    <3>3. /\ dev' \in {"attach", "serve", "entry"} \cup Reading \cup Ending
          /\ srv' \in {"none", "serving", "closed", "test", "set", "flag", "end"}
          /\ cmd' \in {"idle", "command", "reap"}
      BY <2>0 DEF TypeOK, Reading
    <3>4. /\ flight' \in [Transfers -> {"idle", "flying"} \cup Outcomes]
          /\ cancelled' \subseteq Transfers
      BY <2>0 DEF TypeOK
    <3> QED BY <3>1, <3>2, <3>3, <3>4 DEF TypeOK
  <2>2. Fresh'
    BY <1>30 DEF Unplug, Fresh, Early, TypeOK
  <2>3. Told' /\ CancelledIdle'
    BY <1>30 DEF Unplug, Fresh, Early, Told, CancelledIdle
  <2> QED BY <2>1, <2>2, <2>3
<1>31. CASE Rest
  <2>1. TypeOK'
    BY <1>31 DEF Rest, vars, TypeOK, Reading, Loop, ReapLabels, Ending
  <2>2. Fresh'
    BY <1>31 DEF Rest, vars, Fresh, Early, TypeOK
  <2>3. Told' /\ CancelledIdle'
    BY <1>31 DEF Rest, vars, Fresh, Early, Told, CancelledIdle
  <2> QED BY <2>1, <2>2, <2>3
<1>32. CASE UNCHANGED vars
  BY <1>32 DEF vars, TypeOK, Fresh, Told, CancelledIdle
<1> QED BY <1>1, <1>2, <1>3, <1>4, <1>5, <1>6, <1>7, <1>8, <1>9, <1>10, <1>11, <1>12,
      <1>13, <1>14, <1>15, <1>16, <1>17, <1>18, <1>19, <1>20, <1>21, <1>22, <1>23,
      <1>24, <1>25, <1>26, <1>27, <1>28, <1>29, <1>30, <1>31, <1>32 DEF Next,
      DevStep, SrvStep, CmdStep
-----------------------------------------------------------------------------
(* The inductive invariant: a reason to end is never recorded while the    *)
(* status still says RUNNING, and nothing is cancelled before the first    *)
(* submission.                                                             *)
THEOREM StreamInvariant ==
    ASSUME StreamAssumption
    PROVE  Spec => []StreamInv
<1>1. Init => StreamInv
  BY InitStream
<1>2. StreamInv /\ [Next]_vars => StreamInv'
  BY StepStream
<1> QED BY <1>1, <1>2, PTL DEF Spec

(* Type correctness of asynchronous reading.                               *)
THEOREM StreamTypeCorrect ==
    ASSUME StreamAssumption
    PROVE  Spec => []TypeOK
<1>1. StreamInv => TypeOK
  BY DEF StreamInv
<1> QED BY <1>1, StreamInvariant, PTL

(* A lost dongle or a set async_cancel goes with a status that ends the    *)
(* loop of rtlsdr_read_async.                                              *)
THEOREM ToldToEndHolds ==
    ASSUME StreamAssumption
    PROVE  Spec => []ToldToEnd
<1>1. StreamInv => ToldToEnd
  BY DEF StreamInv, Told, ToldToEnd
<1> QED BY <1>1, StreamInvariant, PTL

(* The transfers that the cancellation rounds skip are not in flight.      *)
THEOREM CancelledIdleHolds ==
    ASSUME StreamAssumption
    PROVE  Spec => []CancelledIdle
<1>1. StreamInv => CancelledIdle
  BY DEF StreamInv
<1> QED BY <1>1, StreamInvariant, PTL
=============================================================================
