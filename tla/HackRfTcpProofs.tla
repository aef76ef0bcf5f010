--------------------------- MODULE HackRfTcpProofs --------------------------
(***************************************************************************)
(* What a HackRF session guarantees for any number of USB requests, size   *)
(* of the queue, commands, packets and faults: a listener hears of its end *)
(* once, with the radio told to stop unless one threw in the catch; the    *)
(* gains and the filter that a client asks for reach the radio within its  *)
(* ranges; and the samples reach the client once and in order, in buffers  *)
(* with one owner.                                                         *)
(***************************************************************************)
EXTENDS HackRfTcp, SequenceTheorems, WellFoundedInduction, TLAPS

(* Where the thread of the session is: before the listeners are told that  *)
(* it is open, until they are told that it is closed, and after.           *)
Unannounced == {"open", "init", "bound"}
Starting == {"accept", "startCommand", "startRX", "startRequest"}
Serving == {"info", "poll", "write", "return", "afterLoop", "finally",
            "failFinally", "join", "failJoin", "stop", "stopRequest"}
Closed == {"catchStop", "catchRequest", "done", "thrown"}
SrvLabels == Unannounced \cup Starting \cup Serving \cup Closed \cup {"announce", "catch"}

(* What the listeners have been told, and what the radio cannot be doing.  *)
Telling ==
    /\ srv \in Unannounced => announced = <<>>
    /\ srv \in Starting \cup Serving \cup {"announce"} => announced = <<"open">>
    /\ srv = "catch" => announced \in {<<>>, <<"open">>, <<"closed">>, <<"open", "closed">>}
    /\ srv \in Closed => announced \in {<<"closed">>, <<"open", "closed">>}
Quiet ==
    srv \in Unannounced \cup Starting \cup {"announce", "done"} => radio # "receive"
SessionInv == srv \in SrvLabels /\ Telling /\ Quiet

(* The requests that the radio understands.                                *)
InRange ==
    [request : {"lna"}, value : {n \in 0 .. 40 : n % 8 = 0}]
    \cup [request : {"vga"}, value : {n \in 0 .. 62 : n % 2 = 0}]
    \cup [request : {"bandwidth"}, value : Range(supportedBandwidthValues)]
    \cup [request : {"rate", "freq"}, value : Int \cup Int \X Int]
RequestInv ==
    /\ todo \in [{"srv", "cmd"} -> Seq(InRange)]
    /\ cmd = "execute" => todo["cmd"] # <<>>

(* The usb thread is started once, by the session, and has room for the    *)
(* request that it is about to queue.                                      *)
RxLabels == {"none", "start", "fill", "giveUp", "giveUpRequest", "loop", "wait",
             "offer", "refill", "cancel", "lastStop", "lastRequest", "done"}
Room ==
    /\ killed \in 0 .. Len(flight) /\ Len(flight) <= NumRequests
    /\ srv \in Unannounced \cup Starting => rx = "none"
    /\ rx \in {"none", "start"} => flight = <<>>
    /\ rx \in {"fill", "offer", "refill"} => Len(flight) < NumRequests

(* The buffers and the marks on them, and the rest of the state.           *)
Filled == [array : Buffers, data : 0 .. MaxPackets]
Holders ==
    /\ queue \in Seq(Filled) /\ Len(queue) <= QueueSize
    /\ pool \in Seq(Buffers) /\ Len(pool) <= QueueSize
    /\ flight \in Seq(Buffers)
    /\ hand \in {NoBuffer} \cup Filled /\ held \in {NoBuffer} \cup Filled
    /\ sent \in 0 .. MaxPackets /\ got \in -MaxPackets .. MaxPackets
Plain ==
    /\ mode \in {"off", "receive"} /\ radio \in {"off", "receive", "stuck"}
    /\ faults \in 0 .. MaxFaults /\ commands \in 0 .. MaxCommands
    /\ interrupted \subseteq {"srv", "cmd"}
    /\ socket \in {"unbound", "bound", "closed"}
    /\ conn \in {"none", "open", "closed"}
    /\ client \in {"away", "connected", "left"}

(* A thread has a buffer in its hands between two places only.             *)
InHand ==
    /\ rx = "offer" <=> hand # NoBuffer
    /\ srv \in {"write", "return"} <=> held # NoBuffer

(* Each place has a buffer at most once, and no two places share one.      *)
ArraysIn(s) == [i \in DOMAIN s |-> s[i].array]
Queued == ArraysIn(queue)
Distinct(s) == \A i, j \in 1 .. Len(s) : s[i] = s[j] => i = j
Apart ==
    /\ Distinct(Queued) /\ Distinct(pool) /\ Distinct(flight)
    /\ Range(Queued) \cap Range(pool) = {} /\ Range(Queued) \cap Range(flight) = {}
    /\ Range(pool) \cap Range(flight) = {}
    /\ {hand.array, held.array}
         \cap (Range(Queued) \cup Range(pool) \cup Range(flight)) = {}
    /\ hand.array = held.array => hand.array = 0

(* Of two packets on the way to the client the one behind is the later.    *)
Later(n, m) == n # 0 => n > m
Ordered ==
    /\ got <= 0 /\ -got <= sent /\ hand.data <= sent /\ held.data <= sent
    /\ srv # "return" => Later(held.data, -got)
    /\ \A i \in 1 .. Len(queue) :
         /\ queue[i].data <= sent
         /\ Later(queue[i].data, -got) /\ Later(queue[i].data, held.data)
         /\ Later(hand.data, queue[i].data)
         /\ \A k \in 1 .. i - 1 : Later(queue[i].data, queue[k].data)
    /\ Later(hand.data, held.data) /\ Later(hand.data, -got)

BufferInv ==
    Plain /\ rx \in RxLabels /\ Room /\ InHand /\ Holders /\ Apart /\ Ordered

---------------------------------------------------------------------------
(* The end of a session.                                                   *)

(* The usb thread may stop the radio, and never starts it.                 *)
LEMMA ReceiveThreadQuiet ==
    ASSUME ReceiveThread
    PROVE  UNCHANGED <<srv, announced>> /\ (radio' = "receive" => radio = "receive")
<1>1. receiveLoop(held) => (radio' = "receive" => radio = "receive")
  BY DEF receiveLoop, Run, FillRequests, GiveUp, GiveUpRequest, TestMode,
     RequestWait, RequestWaitKilled, RequestWaitFails, Offer, Refill,
     CancelRequests, LastStop, LastRequest, RxStop, RxStopRequest, QueueRequest,
     Deliver, SendTransceiverMode
<1> QED
  BY <1>1 DEF ReceiveThread, session

(* The other threads leave both alone.                                     *)
LEMMA OthersQuiet ==
    ASSUME CommandThread \/ CloseTcp \/ Close \/ Connect \/ Leave
    PROVE  UNCHANGED <<srv, announced, radio>>
<1>1. CommandThread => UNCHANGED <<srv, announced, radio>>
  BY DEF CommandThread, ReadCommand, ReadFails, ExecuteCommand, CmdOnly
<1>2. CloseTcp \/ Close => UNCHANGED <<srv, announced, radio>>
  BY DEF CloseTcp, Close, CheckThread, InterruptThread, JoinThread, CloseOnly,
     driverVars
<1>3. Connect \/ Leave => UNCHANGED <<srv, announced, radio>>
  BY DEF Connect, Leave, ClientMoves, driverVars
<1> QED
  BY <1>1, <1>2, <1>3

LEMMA AppendClosed ==
    /\ Append(<<>>, "closed") = <<"closed">>
    /\ Append(<<"open">>, "closed") = <<"open", "closed">>
<1>1. Append(<<>>, "closed") = <<"closed">>
  OBVIOUS
<1> DEFINE s == <<"open">>
           e == "closed"
           t == <<"open", "closed">>
<1>2. /\ s \in Seq({"open", e}) /\ Len(s) = 1 /\ s[1] = "open"
      /\ t \in Seq({"open", e}) /\ Len(t) = 2 /\ t[1] = "open" /\ t[2] = e
  OBVIOUS
<1> HIDE DEF s, e, t
<1>3. e \in {"open", e}
  OBVIOUS
<1>4. Append(s, e) = t
  <2>1. /\ Append(s, e) \in Seq({"open", e}) /\ Len(Append(s, e)) = Len(s) + 1
        /\ \A i \in 1 .. Len(s) : Append(s, e)[i] = s[i]
        /\ Append(s, e)[Len(s) + 1] = e
    BY <1>2, <1>3, AppendProperties
  <2>2. Append(s, e)[1] = t[1] /\ Append(s, e)[2] = t[2]
    BY <1>2, <2>1
  <2>3. Len(Append(s, e)) = Len(t) /\ \A i \in 1 .. Len(t) : Append(s, e)[i] = t[i]
    BY <1>2, <2>1, <2>2
  <2> QED
    BY <1>2, <2>1, <2>3, SeqEqual
<1> QED
  BY <1>1, <1>4 DEF s, e, t

(* The listeners are told unless they have been.                           *)
LEMMA ClosedTold ==
    /\ "closed" \notin Range(<<>>) /\ "closed" \notin Range(<<"open">>)
    /\ "closed" \in Range(<<"closed">>) /\ "closed" \in Range(<<"open", "closed">>)
<1>1. "closed" \notin Range(<<>>) /\ "closed" \notin Range(<<"open">>)
  <2>1. DOMAIN <<>> = {} /\ DOMAIN <<"open">> = {1} /\ <<"open">>[1] = "open"
    OBVIOUS
  <2> QED
    BY <2>1 DEF Range
<1>2. <<"closed">>[1] = "closed" /\ <<"open", "closed">>[2] = "closed"
  OBVIOUS
<1>3. "closed" \in Range(<<"closed">>)
  BY <1>2 DEF Range
<1>4. "closed" \in Range(<<"open", "closed">>)
  BY <1>2 DEF Range
<1> QED
  BY <1>1, <1>3, <1>4

LEMMA SessionStep == SessionInv /\ [Next]_vars => SessionInv'
<1> SUFFICES ASSUME SessionInv, [Next]_vars PROVE SessionInv'
  OBVIOUS
<1> USE DEF SessionInv, Telling, Quiet, SrvLabels, Unannounced, Starting, Serving,
            Closed, SrvOnly, driverVars, session
<1>1. CASE OpenFails
  BY <1>1 DEF OpenFails
<1>2. CASE OnHackrfReady
  BY <1>2 DEF OnHackrfReady
<1>3. CASE InitDevice
  BY <1>3 DEF InitDevice
<1>4. CASE Bind
  BY <1>4 DEF Bind
<1>5. CASE AnnounceOnOpen
  <2>1. Append(<<>>, "open") = <<"open">>
    OBVIOUS
  <2>2. /\ announced' = <<"open">> /\ srv' \in {"accept", "catch"}
        /\ srv = "bound" /\ radio' = radio
    BY <1>5, <2>1 DEF AnnounceOnOpen
  <2> QED
    BY <2>2
<1>6. CASE Accept
  BY <1>6 DEF Accept
<1>7. CASE StartCommand
  BY <1>7 DEF StartCommand
<1>8. CASE StartRX
  BY <1>8 DEF StartRX
<1>9. CASE StartRequest
  BY <1>9 DEF StartRequest
<1>10. CASE SendDongleInfo
  BY <1>10 DEF SendDongleInfo, Loop
<1>11. CASE Poll
  BY <1>11 DEF Poll, Loop
<1>12. CASE Write
  BY <1>12 DEF Write
<1>13. CASE ReturnBuffer
  BY <1>13 DEF ReturnBuffer, Loop
<1>14. CASE AfterLoop
  BY <1>14 DEF AfterLoop
<1>15. CASE Finally
  BY <1>15 DEF Finally
<1>16. CASE Join
  BY <1>16 DEF Join
<1>17. CASE StopNormally
  <2>1. CASE Stop("stop", "stopRequest")
    BY <2>1 DEF Stop
  <2>2. CASE StopRequest("stopRequest", "announce", "catch")
    BY <2>2 DEF StopRequest, SendTransceiverMode
  <2>3. CASE AnnounceOnClosed("announce", "done", "catch")
    <3>1. announced' = <<"open", "closed">> /\ srv' \in {"done", "catch"}
          /\ srv = "announce" /\ radio' = radio
      BY <2>3, AppendClosed, ClosedTold DEF AnnounceOnClosed, Listening
    <3> QED
      BY <3>1
  <2> QED
    BY <1>17, <2>1, <2>2, <2>3 DEF StopNormally
<1>18. CASE Catch
  <2>1. CASE AnnounceOnClosed("catch", "catchStop", "thrown")
    <3>1. announced' \in {<<"closed">>, <<"open", "closed">>}
          /\ srv' \in {"catchStop", "thrown"}
      BY <2>1, AppendClosed, ClosedTold DEF AnnounceOnClosed, Listening
    <3> QED
      BY <3>1
  <2>2. CASE Stop("catchStop", "catchRequest")
    BY <2>2 DEF Stop
  <2>3. CASE StopRequest("catchRequest", "done", "done")
    BY <2>3 DEF StopRequest, SendTransceiverMode
  <2> QED
    BY <1>18, <2>1, <2>2, <2>3 DEF Catch
<1>19. CASE ReceiveThread
  BY <1>19, ReceiveThreadQuiet
<1>20. CASE CommandThread \/ CloseTcp \/ Close \/ Connect \/ Leave
  BY <1>20, OthersQuiet
<1>21. CASE UNCHANGED vars
  BY <1>21 DEF vars
<1> QED
  BY <1>1, <1>2, <1>3, <1>4, <1>5, <1>6, <1>7, <1>8, <1>9, <1>10, <1>11, <1>12,
     <1>13, <1>14, <1>15, <1>16, <1>17, <1>18, <1>19, <1>20, <1>21
  DEF Next, SessionThread

(* onHackrfReady, its catch and openAsync: on every path a listener is     *)
(* told of the end of the session once and last, whatever it throws; and   *)
(* at an end that no listener cut short, by throwing in the catch, the     *)
(* radio has been told to stop.                                            *)
THEOREM SessionEndsOnce == Spec => []SessionEnds
<1>1. Init => SessionInv
  BY DEF Init, DriverInit, SessionInv, Telling, Quiet, SrvLabels, Unannounced,
     Starting, Serving, Closed
<1>2. SessionInv => SessionEnds
  <2> SUFFICES ASSUME SessionInv PROVE SessionEnds
    OBVIOUS
  <2>1. announced \in {<<>>, <<"open">>, <<"closed">>, <<"open", "closed">>}
    BY DEF SessionInv, Telling, SrvLabels
  <2>2. ASSUME srv \in Over
        PROVE  Last(announced) = "closed"
    <3>1. announced = <<"closed">> \/ announced = <<"open", "closed">>
      BY <2>2 DEF SessionInv, Telling, Closed, Over
    <3>2. Last(<<"closed">>) = "closed" /\ Last(<<"open", "closed">>) = "closed"
      BY DEF Last
    <3> QED
      BY <3>1, <3>2
  <2>3. srv = "done" => radio # "receive"
    BY DEF SessionInv, Quiet
  <2> QED
    BY <2>1, <2>2, <2>3 DEF SessionEnds, AnnouncedOnce, RadioLeftOff
<1> QED
  BY <1>1, <1>2, SessionStep, PTL DEF Spec

---------------------------------------------------------------------------
(* The requests.                                                           *)

LEMMA ClampInRange ==
    ASSUME NEW n \in Int, NEW top \in Nat
    PROVE  Clamp(n, top) \in 0 .. top
  BY DEF Clamp

LEMMA QuotientInt ==
    ASSUME NEW n \in Int, NEW d \in Nat \ {0}
    PROVE  Quotient(n, d) \in Int
  BY DEF Quotient

LEMMA TimesInt ==
    ASSUME NEW a \in Int, NEW b \in Int
    PROVE  Times(a, b) \in Int
<1> DEFINE low == (a % 65536) * b
           high == ((a \div 65536) * b + low \div 65536) % 65536
<1>1. low \in Int /\ low % 65536 \in Int /\ low \div 65536 \in Int
  OBVIOUS
<1>2. (a \div 65536) * b \in Int
  OBVIOUS
<1> HIDE DEF low
<1>3. high \in Int
  BY <1>1, <1>2
<1> HIDE DEF high
<1>4. Times(a, b) = (IF high >= 32768 THEN high - 65536 ELSE high) * 65536 + (low % 65536)
  BY DEF Times, low, high
<1> QED
  BY <1>1, <1>3, <1>4

LEMMA ScaledInRange ==
    ASSUME NEW perc \in Int, NEW top \in Nat
    PROVE  Scaled(perc, top) \in 0 .. top
<1>1. Quotient(Times(perc, top), 100) \in Int
  BY TimesInt, QuotientInt
<1> QED
  BY <1>1, ClampInRange DEF Scaled

LEMMA PercentInt ==
    ASSUME NEW arg \in Int
    PROVE  remap_rtl_gain_to_perc(arg) \in Int
  BY QuotientInt DEF remap_rtl_gain_to_perc

(* The steps of the two amplifiers.                                        *)
LEMMA LnaInRange ==
    ASSUME NEW gain \in 0 .. 40
    PROVE  setRxLNAGain(gain) \in Seq(InRange)
<1>1. gain - (gain % 8) \in {n \in 0 .. 40 : n % 8 = 0}
  OBVIOUS
<1>2. Request("lna", gain - (gain % 8)) \in InRange
  BY <1>1 DEF Request, InRange
<1>3. setRxLNAGain(gain) = <<Request("lna", gain - (gain % 8))>>
  BY DEF setRxLNAGain
<1> QED
  BY <1>2, <1>3

LEMMA VgaInRange ==
    ASSUME NEW gain \in 0 .. 62
    PROVE  setRxVGAGain(gain) \in Seq(InRange)
<1>1. gain - (gain % 2) \in {n \in 0 .. 62 : n % 2 = 0}
  OBVIOUS
<1>2. Request("vga", gain - (gain % 2)) \in InRange
  BY <1>1 DEF Request, InRange
<1>3. setRxVGAGain(gain) = <<Request("vga", gain - (gain % 2))>>
  BY DEF setRxVGAGain
<1> QED
  BY <1>2, <1>3

(* A set of places in the table has a last one.                            *)
LEMMA MaxOfPlaces ==
    ASSUME NEW S \in SUBSET (1 .. 16), S # {}
    PROVE  Max(S) \in S
<1> DEFINE before == OpToRel(<, Nat)
           T == {n \in Nat : 16 - n \in S}
<1>1. IsWellFoundedOn(before, Nat)
  BY NatLessThanWellFounded
<1>2. \A m, n \in Nat : <<m, n>> \in before <=> m < n
  BY DEF OpToRel
<1>3. T \subseteq Nat /\ T # {}
  <2>1. PICK x \in S : TRUE
    OBVIOUS
  <2>2. 16 - x \in T
    BY <2>1
  <2> QED
    BY <2>2
<1> HIDE DEF before
<1>4. PICK n \in T : \A m \in T : ~(<<m, n>> \in before)
  <2> HIDE DEF T
  <2> QED
    BY <1>1, <1>3, WFMin
<1>5. n \in Nat /\ 16 - n \in S
  OBVIOUS
<1>6. ASSUME NEW y \in S PROVE 16 - n >= y
  <2>1. y \in Nat /\ 16 - y \in Nat /\ 16 - y \in T
    OBVIOUS
  <2>2. ~(16 - y < n)
    BY <1>2, <1>4, <1>5, <2>1
  <2> QED
    BY <1>5, <2>1, <2>2
<1>7. \E x \in S : \A y \in S : x >= y
  BY <1>5, <1>6
<1> QED
  BY <1>7 DEF Max

LEMMA BandwidthInRange ==
    ASSUME NEW rate \in Int
    PROVE  setBasebandFilterBandwidth(computeBasebandFilterBandwidth(rate)) \in Seq(InRange)
<1> DEFINE fits == {i \in DOMAIN supportedBandwidthValues :
                      supportedBandwidthValues[i] <= rate}
           i == IF fits = {} THEN 1 ELSE Max(fits)
<1>1. DOMAIN supportedBandwidthValues = 1 .. 16
  BY DEF supportedBandwidthValues
<1>2. i \in DOMAIN supportedBandwidthValues
  BY <1>1, MaxOfPlaces
<1>3. computeBasebandFilterBandwidth(rate) = supportedBandwidthValues[i]
  BY DEF computeBasebandFilterBandwidth
<1>4. computeBasebandFilterBandwidth(rate) \in Range(supportedBandwidthValues)
  BY <1>2, <1>3 DEF Range
<1> QED
  BY <1>4 DEF setBasebandFilterBandwidth, Request, InRange

LEMMA RequestsOfCommand ==
    ASSUME NEW c, c.argument \in Int
    PROVE  Requests(c) \in Seq(InRange)
<1> DEFINE arg == c.argument
           perc == remap_rtl_gain_to_perc(arg)
<1>1. perc \in Int /\ Scaled(perc, 40) \in 0 .. 40 /\ Scaled(perc, 62) \in 0 .. 62
  BY PercentInt, ScaledInRange
<1>2. Scaled(arg, 40) \in 0 .. 40 /\ Scaled(arg, 62) \in 0 .. 62
  BY ScaledInRange
<1>3. setFrequency(arg) \in Seq(InRange)
  BY DEF setFrequency, Request, InRange
<1>4. setSampleRate(arg)
         \o setBasebandFilterBandwidth(computeBasebandFilterBandwidth(Quotient(3 * arg, 4)))
        \in Seq(InRange)
  <2>1. Quotient(3 * arg, 4) \in Int
    BY QuotientInt
  <2>2. setSampleRate(arg) \in Seq(InRange)
    BY DEF setSampleRate, Request, InRange
  <2> QED
    BY <2>1, <2>2, BandwidthInRange, ConcatProperties
<1>5. setRxLNAGain(Scaled(perc, 40)) \in Seq(InRange)
  BY <1>1, LnaInRange
<1>6. setRxVGAGain(Scaled(perc, 62)) \in Seq(InRange)
  BY <1>1, VgaInRange
<1>7. setRxVGAGain(32) \o setRxLNAGain(30) \in Seq(InRange)
  BY VgaInRange, LnaInRange, ConcatProperties
<1>8. setRxLNAGain(Scaled(arg, 40)) \o setRxVGAGain(Scaled(arg, 62)) \in Seq(InRange)
  BY <1>2, VgaInRange, LnaInRange, ConcatProperties
<1>9. <<>> \in Seq(InRange)
  OBVIOUS
<1> HIDE DEF perc
<1>10. \/ c.command = "TCP_SET_FREQ" /\ Requests(c) = setFrequency(arg)
       \/ c.command = "TCP_SET_SAMPLE_RATE"
          /\ Requests(c) = setSampleRate(arg)
               \o setBasebandFilterBandwidth(computeBasebandFilterBandwidth(Quotient(3 * arg, 4)))
       \/ Requests(c) = setRxLNAGain(Scaled(perc, 40))
       \/ Requests(c) = setRxVGAGain(Scaled(perc, 62))
       \/ Requests(c) = setRxVGAGain(32) \o setRxLNAGain(30)
       \/ Requests(c) = setRxLNAGain(Scaled(arg, 40)) \o setRxVGAGain(Scaled(arg, 62))
       \/ Requests(c) = <<>>
  BY DEF Requests, perc
<1> QED
  BY <1>3, <1>4, <1>5, <1>6, <1>7, <1>8, <1>9, <1>10

(* todo is set to the requests of a command or shortened, and by nobody    *)
(* else than the two threads that send requests.                           *)
LEMMA TodoStep ==
    ASSUME RequestInv,
           NEW t \in {"srv", "cmd"}, NEW q \in Seq(InRange) \cup {Tail(todo[t])},
           todo[t] # <<>> \/ q \in Seq(InRange),
           todo' = [todo EXCEPT ![t] = q]
    PROVE  todo' \in [{"srv", "cmd"} -> Seq(InRange)] /\ todo'[t] = q
           /\ \A u \in {"srv", "cmd"} : u # t => todo'[u] = todo[u]
<1>1. todo[t] \in Seq(InRange)
  BY DEF RequestInv
<1>2. q \in Seq(InRange)
  <2>1. CASE q \in Seq(InRange)
    BY <2>1
  <2>2. CASE q = Tail(todo[t]) /\ todo[t] # <<>>
    <3>1. Tail(todo[t]) \in Seq(InRange)
      <4> HIDE DEF InRange
      <4> QED
        BY <1>1, <2>2, HeadTailProperties
    <3> QED
      BY <2>2, <3>1
  <2> QED
    BY <2>1, <2>2
<1> QED
  BY <1>2 DEF RequestInv

LEMMA OthersLeaveTodo ==
    ASSUME SessionThread \/ ReceiveThread \/ CloseTcp \/ Close \/ Connect \/ Leave,
           ~OnHackrfReady, ~InitDevice
    PROVE  todo' = todo /\ cmd' \in {cmd, "read"}
<1> USE DEF SrvOnly, driverVars, session
<1>1. CASE SessionThread
  BY <1>1 DEF SessionThread, OpenFails, Bind, AnnounceOnOpen, Accept, StartCommand,
     StartRX, StartRequest, SendDongleInfo, Poll, Write, ReturnBuffer, AfterLoop,
     Finally, Join, StopNormally, Stop, StopRequest, AnnounceOnClosed, Catch
<1>2. CASE ReceiveThread
  BY <1>2 DEF ReceiveThread
<1>3. CASE CloseTcp \/ Close
  BY <1>3 DEF CloseTcp, Close, CheckThread, InterruptThread, JoinThread, CloseOnly
<1>4. CASE Connect \/ Leave
  BY <1>4 DEF Connect, Leave, ClientMoves
<1> QED
  BY <1>1, <1>2, <1>3, <1>4

LEMMA RequestStep == RequestInv /\ [Next]_vars => RequestInv'
<1> SUFFICES ASSUME RequestInv, [Next]_vars PROVE RequestInv'
  OBVIOUS
<1>1. <<>> \in Seq(InRange)
  OBVIOUS
<1>2. CASE OnHackrfReady
  <2>1. InitRequests \in Seq(InRange)
    BY RequestsOfCommand, ConcatProperties DEF InitRequests
  <2> QED
    BY <1>2, <2>1, TodoStep DEF OnHackrfReady, RequestInv
<1>3. CASE InitDevice
  <2>1. PICK works \in BOOLEAN :
          todo' = [todo EXCEPT !["srv"] = IF works THEN Tail(todo["srv"]) ELSE <<>>]
    BY <1>3 DEF InitDevice
  <2>2. todo["srv"] # <<>> /\ cmd' = cmd
    BY <1>3 DEF InitDevice
  <2> QED
    BY <1>1, <2>1, <2>2, TodoStep DEF RequestInv
<1>4. CASE ReadCommand
  <2>1. PICK c \in Commands :
          /\ todo' = [todo EXCEPT !["cmd"] = Requests(c)]
          /\ cmd' = "execute" => Requests(c) # <<>>
    BY <1>4 DEF ReadCommand, NextRead
  <2>2. Requests(c) \in Seq(InRange)
    BY TcpAssumption, RequestsOfCommand
  <2> QED
    BY <2>1, <2>2, TodoStep DEF RequestInv
<1>5. CASE ExecuteCommand
  <2>1. PICK works \in BOOLEAN :
          /\ todo' = [todo EXCEPT !["cmd"] = IF works THEN Tail(todo["cmd"]) ELSE <<>>]
          /\ cmd' = "execute" => todo'["cmd"] # <<>>
    BY <1>5 DEF ExecuteCommand, NextRead
  <2>2. todo["cmd"] # <<>>
    BY <1>5 DEF ExecuteCommand, RequestInv
  <2> QED
    BY <1>1, <2>1, <2>2, TodoStep DEF RequestInv
<1>6. CASE ReadFails
  BY <1>6 DEF ReadFails, RequestInv
<1>7. CASE UNCHANGED vars
  BY <1>7 DEF vars, RequestInv
<1>8. CASE (SessionThread \/ ReceiveThread \/ CloseTcp \/ Close \/ Connect \/ Leave)
           /\ ~OnHackrfReady /\ ~InitDevice
  BY <1>8, OthersLeaveTodo DEF RequestInv
<1> QED
  BY <1>2, <1>3, <1>4, <1>5, <1>6, <1>7, <1>8 DEF Next, CommandThread, SessionThread

(* executeCommand, initDevice and the setters of Hackrf.java: whatever a   *)
(* client asks for, the gains that reach the radio are steps of its        *)
(* amplifiers and the filter is one of those that it has.  The rate and    *)
(* the frequency reach it unchecked.                                       *)
THEOREM GainsAndFilterReachRadioInRange == Spec => []GainsAndFilterInRange
<1>1. Init => RequestInv
  <2>1. <<>> \in Seq(InRange)
    OBVIOUS
  <2> QED
    BY <2>1 DEF Init, RequestInv
<1>2. RequestInv => GainsAndFilterInRange
  <2> SUFFICES ASSUME RequestInv,
                      NEW q \in {Requests(c) : c \in Probed} \cup Range(todo),
                      NEW r \in Range(q)
               PROVE  /\ r.request = "lna" => r.value \in 0 .. 40 /\ r.value % 8 = 0
                      /\ r.request = "vga" => r.value \in 0 .. 62 /\ r.value % 2 = 0
                      /\ r.request = "bandwidth" =>
                           r.value \in Range(supportedBandwidthValues)
    BY DEF GainsAndFilterInRange
  <2>1. q \in Seq(InRange)
    BY TcpAssumption, RequestsOfCommand DEF RequestInv, Range
  <2>2. r \in InRange
    BY <2>1, RangeOfSeq
  <2> QED
    BY <2>2 DEF InRange
<1> QED
  BY <1>1, <1>2, RequestStep, PTL DEF Spec

---------------------------------------------------------------------------
(* The buffers: what moving one between two places does to them.           *)

LEMMA DistinctAppend ==
    ASSUME NEW S, NEW s \in Seq(S), NEW e \in S, Distinct(s), e \notin Range(s)
    PROVE  /\ Append(s, e) \in Seq(S) /\ Len(Append(s, e)) = Len(s) + 1
           /\ Distinct(Append(s, e)) /\ Range(Append(s, e)) = Range(s) \cup {e}
<1> DEFINE t == Append(s, e)
<1>1. /\ t \in Seq(S) /\ Len(t) = Len(s) + 1 /\ t[Len(s) + 1] = e
      /\ \A i \in 1 .. Len(s) : t[i] = s[i]
  BY AppendProperties
<1> HIDE DEF t
<1>2. Len(s) \in Nat /\ \A i \in 1 .. Len(s) : s[i] # e
  BY LenProperties DEF Range
<1>3. Distinct(t)
  <2> SUFFICES ASSUME NEW i \in 1 .. Len(t), NEW j \in 1 .. Len(t), t[i] = t[j]
               PROVE  i = j
    BY DEF Distinct
  <2>1. CASE i \in 1 .. Len(s) /\ j \in 1 .. Len(s)
    BY <1>1, <2>1 DEF Distinct
  <2>2. CASE i = Len(s) + 1 \/ j = Len(s) + 1
    BY <1>1, <1>2, <2>2
  <2> QED
    BY <1>1, <1>2, <2>1, <2>2
<1>4. Range(t) = Range(s) \cup {e}
  <2>1. Range(t) = {t[i] : i \in 1 .. Len(t)} /\ Range(s) = {s[i] : i \in 1 .. Len(s)}
    BY <1>1, RangeEquality
  <2>2. 1 .. Len(t) = 1 .. Len(s) \cup {Len(s) + 1}
    BY <1>1, <1>2
  <2> QED
    BY <1>1, <2>1, <2>2
<1> QED
  BY <1>1, <1>3, <1>4 DEF t

LEMMA DistinctTail ==
    ASSUME NEW S, NEW s \in Seq(S), s # <<>>, Distinct(s)
    PROVE  /\ Tail(s) \in Seq(S) /\ Head(s) \in S /\ Len(Tail(s)) = Len(s) - 1
           /\ Distinct(Tail(s)) /\ Head(s) \notin Range(Tail(s))
           /\ Range(s) = Range(Tail(s)) \cup {Head(s)}
<1> DEFINE t == Tail(s)
<1>1. /\ t \in Seq(S) /\ Head(s) \in S /\ Len(t) = Len(s) - 1
      /\ \A i \in 1 .. Len(t) : t[i] = s[i + 1]
  BY HeadTailProperties
<1>2. Head(s) = s[1] /\ Len(s) \in Nat \ {0}
  BY EmptySeq
<1> HIDE DEF t
<1>3. Distinct(t)
  <2> SUFFICES ASSUME NEW i \in 1 .. Len(t), NEW j \in 1 .. Len(t), t[i] = t[j]
               PROVE  i = j
    BY DEF Distinct
  <2>1. i + 1 \in 1 .. Len(s) /\ j + 1 \in 1 .. Len(s) /\ s[i + 1] = s[j + 1]
    BY <1>1, <1>2
  <2> QED
    BY <2>1 DEF Distinct
<1>4. Range(t) = {t[i] : i \in 1 .. Len(t)} /\ Range(s) = {s[i] : i \in 1 .. Len(s)}
  BY <1>1, RangeEquality
<1>5. Head(s) \notin Range(t)
  <2> SUFFICES ASSUME NEW i \in 1 .. Len(t), t[i] = s[1] PROVE FALSE
    BY <1>2, <1>4
  <2>1. i + 1 \in 1 .. Len(s) /\ 1 \in 1 .. Len(s) /\ s[i + 1] = s[1]
    BY <1>1, <1>2
  <2>2. i + 1 = 1
    BY <2>1 DEF Distinct
  <2> QED
    BY <2>2
<1>6. Range(s) = Range(t) \cup {Head(s)}
  <2>1. ASSUME NEW i \in 1 .. Len(s) PROVE s[i] = s[1] \/ s[i] \in Range(t)
    <3>1. CASE i # 1
      <4>1. i - 1 \in 1 .. Len(t) /\ t[i - 1] = s[i]
        BY <1>1, <1>2, <3>1
      <4> QED
        BY <1>4, <4>1
    <3> QED
      BY <3>1
  <2>2. Range(t) \subseteq Range(s)
    BY <1>1, <1>2, <1>4
  <2>3. s[1] \in Range(s)
    BY <1>2, <1>4
  <2> QED
    BY <1>2, <1>4, <2>1, <2>2, <2>3
<1> QED
  BY <1>1, <1>3, <1>5, <1>6 DEF t

LEMMA DistinctConcat ==
    ASSUME NEW S, NEW s \in Seq(S), NEW t \in Seq(S), Distinct(s), Distinct(t),
           Range(s) \cap Range(t) = {}
    PROVE  /\ s \o t \in Seq(S)
           /\ Distinct(s \o t) /\ Range(s \o t) = Range(s) \cup Range(t)
<1>1. /\ s \o t \in Seq(S) /\ Len(s \o t) = Len(s) + Len(t)
      /\ \A i \in 1 .. Len(s) + Len(t) :
           (s \o t)[i] = IF i <= Len(s) THEN s[i] ELSE t[i - Len(s)]
  BY ConcatProperties
<1>2. /\ Len(s) \in Nat /\ Len(t) \in Nat
      /\ \A i \in 1 .. Len(s), j \in 1 .. Len(t) : s[i] # t[j]
  <2>1. Range(s) = {s[i] : i \in 1 .. Len(s)} /\ Range(t) = {t[i] : i \in 1 .. Len(t)}
    BY RangeEquality
  <2> QED
    BY <2>1, LenProperties
<1> DEFINE u == s \o t
<1> HIDE DEF u
<1>3. Distinct(u)
  <2> SUFFICES ASSUME NEW i \in 1 .. Len(u), NEW j \in 1 .. Len(u), u[i] = u[j]
               PROVE  i = j
    BY DEF Distinct
  <2>1. CASE i <= Len(s) /\ j <= Len(s)
    BY <1>1, <1>2, <2>1 DEF Distinct, u
  <2>2. CASE i > Len(s) /\ j > Len(s)
    <3>1. i - Len(s) \in 1 .. Len(t) /\ j - Len(s) \in 1 .. Len(t)
          /\ t[i - Len(s)] = t[j - Len(s)]
      BY <1>1, <1>2, <2>2 DEF u
    <3>2. i - Len(s) = j - Len(s)
      BY <3>1 DEF Distinct
    <3> QED
      BY <1>2, <3>2
  <2>3. CASE i <= Len(s) /\ j > Len(s)
    BY <1>1, <1>2, <2>3 DEF u
  <2>4. CASE i > Len(s) /\ j <= Len(s)
    BY <1>1, <1>2, <2>4 DEF u
  <2> QED
    BY <1>1, <1>2, <2>1, <2>2, <2>3, <2>4 DEF u
<1> QED
  BY <1>1, <1>3, RangeConcatenation DEF u

LEMMA ArraysInType ==
    ASSUME NEW s \in Seq(Filled)
    PROVE  /\ ArraysIn(s) \in Seq(Buffers) /\ Len(ArraysIn(s)) = Len(s)
           /\ \A i \in 1 .. Len(s) : ArraysIn(s)[i] = s[i].array
<1>1. DOMAIN s = 1 .. Len(s) /\ Len(s) \in Nat
  BY LenProperties
<1>2. \A i \in 1 .. Len(s) : s[i].array \in Buffers
  <2> SUFFICES ASSUME NEW i \in 1 .. Len(s) PROVE s[i].array \in Buffers
    OBVIOUS
  <2>1. s[i] \in Filled
    BY ElementOfSeq
  <2> QED
    BY <2>1 DEF Filled
<1>3. ArraysIn(s) \in [1 .. Len(s) -> Buffers]
  BY <1>1, <1>2 DEF ArraysIn
<1> QED
  BY <1>1, <1>3 DEF ArraysIn

LEMMA ArraysInTail ==
    ASSUME NEW s \in Seq(Filled), s # <<>>
    PROVE  /\ ArraysIn(s) # <<>> /\ ArraysIn(Tail(s)) = Tail(ArraysIn(s))
           /\ Head(ArraysIn(s)) = Head(s).array
<1> DEFINE a == ArraysIn(s)
           b == ArraysIn(Tail(s))
<1>1. /\ Tail(s) \in Seq(Filled) /\ Head(s) = s[1]
      /\ Len(s) \in Nat \ {0} /\ Len(Tail(s)) = Len(s) - 1
      /\ \A i \in 1 .. Len(Tail(s)) : Tail(s)[i] = s[i + 1]
  BY HeadTailProperties, EmptySeq
<1>2. /\ a \in Seq(Buffers) /\ Len(a) = Len(s)
      /\ \A i \in 1 .. Len(s) : a[i] = s[i].array
      /\ b \in Seq(Buffers) /\ Len(b) = Len(s) - 1
      /\ \A i \in 1 .. Len(s) - 1 : b[i] = Tail(s)[i].array
  BY <1>1, ArraysInType
<1> HIDE DEF a, b
<1>3. a # <<>>
  BY <1>1, <1>2
<1>4. /\ Tail(a) \in Seq(Buffers) /\ Len(Tail(a)) = Len(a) - 1
      /\ \A i \in 1 .. Len(Tail(a)) : Tail(a)[i] = a[i + 1]
  BY <1>2, <1>3, HeadTailProperties
<1>5. \A i \in 1 .. Len(b) : b[i] = Tail(a)[i]
  BY <1>1, <1>2, <1>4
<1>6. b = Tail(a)
  BY <1>1, <1>2, <1>4, <1>5, SeqEqual
<1> QED
  BY <1>1, <1>2, <1>3, <1>6 DEF a, b

LEMMA ArraysInAppend ==
    ASSUME NEW s \in Seq(Filled), NEW e \in Filled
    PROVE  ArraysIn(Append(s, e)) = Append(ArraysIn(s), e.array)
<1> DEFINE a == ArraysIn(s)
           b == ArraysIn(Append(s, e))
<1>1. /\ Append(s, e) \in Seq(Filled) /\ Len(s) \in Nat
      /\ Len(Append(s, e)) = Len(s) + 1 /\ Append(s, e)[Len(s) + 1] = e
      /\ \A i \in 1 .. Len(s) : Append(s, e)[i] = s[i]
  BY AppendProperties, LenProperties
<1>2. /\ a \in Seq(Buffers) /\ Len(a) = Len(s)
      /\ \A i \in 1 .. Len(s) : a[i] = s[i].array
      /\ b \in Seq(Buffers) /\ Len(b) = Len(s) + 1
      /\ \A i \in 1 .. Len(s) + 1 : b[i] = Append(s, e)[i].array
  BY <1>1, ArraysInType
<1>3. e.array \in Buffers
  BY DEF Filled
<1> HIDE DEF a, b
<1>4. /\ Append(a, e.array) \in Seq(Buffers) /\ Len(Append(a, e.array)) = Len(a) + 1
      /\ \A i \in 1 .. Len(a) : Append(a, e.array)[i] = a[i]
      /\ Append(a, e.array)[Len(a) + 1] = e.array
  BY <1>2, <1>3, AppendProperties
<1>5. \A i \in 1 .. Len(b) : b[i] = Append(a, e.array)[i]
  BY <1>1, <1>2, <1>4
<1>6. b = Append(a, e.array)
  BY <1>1, <1>2, <1>4, <1>5, SeqEqual
<1> QED
  BY <1>6 DEF a, b

(* A new array is one that is in none of the places.                       *)
LEMMA NewIsApart ==
    ASSUME Holders, NEW b, IsNew(b, held)
    PROVE  /\ b \in Buffers
           /\ b \notin Range(Queued) \cup Range(pool) \cup Range(flight)
           /\ b # hand.array /\ b # held.array
<1> DEFINE S == {NoBuffer} \cup Filled
           two == <<hand, held>>
           all == queue \o two
<1>1. b \in Buffers /\ b \notin Arrays(all) /\ b \notin Range(pool \o flight)
  BY DEF IsNew, Garbage
<1>2. queue \in Seq(S) /\ two \in Seq(S) /\ Len(two) = 2
      /\ two[1] = hand /\ two[2] = held /\ Len(queue) \in Nat
  <2>1. hand \in S /\ held \in S /\ Filled \subseteq S
    BY DEF Holders
  <2>2. queue \in Seq(S) /\ Len(queue) \in Nat
    BY <2>1, SeqMonotonic, LenProperties DEF Holders
  <2> HIDE DEF S
  <2> QED
    BY <2>1, <2>2
<1> HIDE DEF S, two
<1>3. /\ all \in Seq(S) /\ Len(all) = Len(queue) + 2
      /\ \A i \in 1 .. Len(queue) : all[i] = queue[i]
      /\ all[Len(queue) + 1] = hand /\ all[Len(queue) + 2] = held
  <2>1. /\ all \in Seq(S) /\ Len(all) = Len(queue) + 2
        /\ \A i \in 1 .. Len(queue) + 2 :
             all[i] = IF i <= Len(queue) THEN queue[i] ELSE two[i - Len(queue)]
    <3>1. /\ queue \o two \in Seq(S) /\ Len(queue \o two) = Len(queue) + Len(two)
          /\ \A i \in 1 .. Len(queue) + Len(two) : (queue \o two)[i] =
               IF i <= Len(queue) THEN queue[i] ELSE two[i - Len(queue)]
      BY <1>2, ConcatProperties
    <3> QED
      BY <1>2, <3>1
  <2> HIDE DEF all
  <2>2. \A i \in 1 .. Len(queue) : all[i] = queue[i]
    BY <1>2, <2>1
  <2>3. all[Len(queue) + 1] = two[1] /\ all[Len(queue) + 2] = two[2]
    BY <1>2, <2>1
  <2> QED
    BY <1>2, <2>1, <2>2, <2>3
<1> HIDE DEF all
<1>4. \A i \in 1 .. Len(queue) + 2 : all[i].array \in Arrays(all)
  <2>1. DOMAIN all = 1 .. Len(all)
    BY <1>3, LenProperties
  <2>2. DOMAIN all = 1 .. Len(queue) + 2
    BY <1>3, <2>1
  <2> QED
    BY <2>2 DEF Arrays
<1>5. b # hand.array /\ b # held.array
  BY <1>1, <1>2, <1>3, <1>4
<1>6. b \notin Range(Queued)
  <2>1. Range(Queued) = {Queued[i] : i \in 1 .. Len(queue)}
    BY ArraysInType, RangeEquality DEF Holders, Queued
  <2>2. \A i \in 1 .. Len(queue) : Queued[i] = all[i].array /\ i \in 1 .. Len(queue) + 2
    BY <1>2, <1>3, ArraysInType DEF Holders, Queued
  <2> QED
    BY <1>1, <1>4, <2>1, <2>2
<1>7. b \notin Range(pool) \cup Range(flight)
  BY <1>1, RangeConcatenation DEF Holders
<1> QED
  BY <1>1, <1>5, <1>6, <1>7

(* Every move below leaves the threads other than its own with what they   *)
(* had: the facts about the threads' places are in Room and InHand.        *)
Moved == Holders /\ Apart /\ Ordered

LEMMA QueueLeft ==
    ASSUME queue' = queue
    PROVE  Queued' = Queued
  BY DEF Queued

LEMMA NoneApart ==
    ASSUME Moved
    PROVE  0 \notin Range(Queued) \cup Range(pool) \cup Range(flight)
<1>1. 0 \notin Buffers
  BY DEF Buffers
<1>2. Queued \in Seq(Buffers) /\ pool \in Seq(Buffers) /\ flight \in Seq(Buffers)
  BY ArraysInType DEF Moved, Holders, Queued
<1> QED
  BY <1>1, <1>2, RangeOfSeq

LEMMA DataType ==
    ASSUME Holders
    PROVE  /\ MaxPackets \in Nat /\ hand.data \in 0 .. MaxPackets
           /\ held.data \in 0 .. MaxPackets
           /\ \A i \in 1 .. Len(queue) : queue[i].data \in 0 .. MaxPackets
<1>1. \A b \in Filled : b.data \in 0 .. MaxPackets
  BY DEF Filled
<1>2. \A i \in 1 .. Len(queue) : queue[i] \in Filled
  BY ElementOfSeq DEF Holders
<1> QED
  BY <1>1, <1>2, HackrfAssumption DEF Holders, NoBuffer, Buffer

LEMMA StillMove ==
    ASSUME Moved, UNCHANGED <<queue, pool, flight, hand, held, sent, got>>,
           srv' = "return" <=> srv = "return"
    PROVE  Moved'
  BY QueueLeft DEF Moved, Holders, Apart, Ordered

(* startRX: the queue is cleared.                                          *)
LEMMA ClearMove ==
    ASSUME Moved, queue' = <<>>, UNCHANGED <<pool, flight, hand, held, sent, got>>,
           srv # "return", srv' # "return"
    PROVE  Moved'
<1>1. Holders'
  BY HackrfAssumption DEF Moved, Holders
<1>2. Queued' = <<>> /\ Range(<<>>) = {}
  BY DEF Queued, ArraysIn, Range
<1>3. Apart'
  BY <1>2 DEF Moved, Apart, Distinct
<1>4. Ordered'
  BY DEF Moved, Ordered
<1> QED
  BY <1>1, <1>3, <1>4 DEF Moved

(* Poll: the head of the queue is in the hands of the session.             *)
LEMMA TakeMove ==
    ASSUME Moved, held = NoBuffer, queue # <<>>,
           held' = Head(queue), queue' = Tail(queue),
           UNCHANGED <<pool, flight, hand, sent, got>>,
           srv # "return", srv' # "return"
    PROVE  Moved'
<1>1. queue \in Seq(Filled)
  BY DEF Moved, Holders
<1>2. /\ queue' \in Seq(Filled) /\ held' \in Filled /\ held' = queue[1]
      /\ Len(queue) \in Nat \ {0} /\ Len(queue') = Len(queue) - 1
      /\ \A i \in 1 .. Len(queue') : queue'[i] = queue[i + 1]
  BY <1>1, HeadTailProperties, EmptySeq
<1>3. Holders'
  BY <1>2, HackrfAssumption DEF Moved, Holders
<1>4. Queued \in Seq(Buffers) /\ Queued # <<>>
      /\ Queued' = Tail(Queued) /\ held'.array = Head(Queued)
  BY <1>1, ArraysInType, ArraysInTail DEF Queued
<1>5. /\ Distinct(Queued') /\ Head(Queued) \in Buffers
      /\ Head(Queued) \notin Range(Queued')
      /\ Range(Queued) = Range(Queued') \cup {Head(Queued)}
  BY <1>4, DistinctTail DEF Moved, Apart
<1>6. Apart'
  <2>1. Distinct(pool') /\ Distinct(flight') /\ Range(pool') = Range(pool)
        /\ Range(flight') = Range(flight) /\ hand'.array = hand.array
    BY DEF Moved, Apart
  <2>2. /\ hand.array \notin Range(Queued) \cup Range(pool) \cup Range(flight)
        /\ Range(Queued) \cap Range(pool) = {} /\ Range(Queued) \cap Range(flight) = {}
        /\ Range(pool) \cap Range(flight) = {}
    BY DEF Moved, Apart
  <2> QED
    BY <1>4, <1>5, <2>1, <2>2 DEF Apart
<1>7. Ordered'
  <2>1. Ordered
    BY DEF Moved
  <2>2. sent \in Int /\ got \in Int
    BY DEF Moved, Holders
  <2>3. /\ got' <= 0 /\ -got' <= sent' /\ hand'.data <= sent' /\ held'.data <= sent'
        /\ Later(held'.data, -got') /\ Later(hand'.data, held'.data)
        /\ Later(hand'.data, -got')
    BY <1>2, <2>1 DEF Ordered
  <2>4. ASSUME NEW i \in 1 .. Len(queue')
        PROVE  /\ queue'[i].data <= sent'
               /\ Later(queue'[i].data, -got') /\ Later(queue'[i].data, held'.data)
               /\ Later(hand'.data, queue'[i].data)
               /\ \A k \in 1 .. i - 1 : Later(queue'[i].data, queue'[k].data)
    <3>1. i + 1 \in 1 .. Len(queue) /\ queue'[i] = queue[i + 1] /\ 1 \in 1 .. (i + 1) - 1
      BY <1>2
    <3>2. ASSUME NEW k \in 1 .. i - 1 PROVE Later(queue'[i].data, queue'[k].data)
      <4>1. k + 1 \in 1 .. (i + 1) - 1 /\ queue'[k] = queue[k + 1]
        BY <1>2
      <4> QED
        BY <2>1, <3>1, <4>1 DEF Ordered
    <3> QED
      BY <1>2, <2>1, <3>1, <3>2 DEF Ordered
  <2> QED
    BY <2>3, <2>4 DEF Ordered
<1> QED
  BY <1>3, <1>6, <1>7 DEF Moved

(* Write: the client has read the buffer, or the session drops it.         *)
LEMMA WriteMove ==
    ASSUME Moved, srv = "write",
           UNCHANGED <<queue, pool, flight, hand, sent>>,
           \/ /\ got' = (IF held.data = 0 THEN got ELSE -held.data)
              /\ srv' = "return" /\ held' = held
           \/ got' = got /\ srv' # "return" /\ held' = NoBuffer
    PROVE  Moved'
<1>1. /\ held \in {NoBuffer} \cup Filled /\ MaxPackets \in Nat
      /\ held.data \in 0 .. MaxPackets /\ got \in -MaxPackets .. MaxPackets
  BY DataType DEF Moved, Holders
<1>2. Holders'
  BY <1>1 DEF Moved, Holders
<1>3. Apart'
  <2>1. Queued' = Queued /\ held'.array \in {0, held.array}
    BY QueueLeft DEF NoBuffer, Buffer
  <2>2. held'.array \notin Range(Queued) \cup Range(pool) \cup Range(flight)
    BY <2>1, NoneApart DEF Moved, Apart
  <2> QED
    BY <2>1, <2>2 DEF Moved, Apart
<1>4. Ordered'
  <2>1. CASE srv' = "return"
    BY <1>1, <2>1 DEF Moved, Ordered, Later
  <2>2. CASE srv' # "return"
    <3>1. /\ held'.data = 0 /\ UNCHANGED <<queue, hand, got, sent>>
          /\ Ordered /\ sent \in Int
          /\ \A i \in 1 .. Len(queue) : queue[i].data \in 0 .. MaxPackets
          /\ hand.data \in 0 .. MaxPackets
      BY <2>2, DataType DEF Moved, NoBuffer, Buffer, Holders
    <3> QED
      BY <1>1, <3>1 DEF Ordered, Later
  <2> QED
    BY <2>1, <2>2
<1> QED
  BY <1>2, <1>3, <1>4 DEF Moved

(* ReturnBuffer: back into the pool, if it has room.                       *)
LEMMA ReturnMove ==
    ASSUME Moved, srv = "return", held # NoBuffer, held' = NoBuffer,
           returnBufferToBufferPool(held),
           UNCHANGED <<queue, flight, hand, sent, got>>, srv' # "return"
    PROVE  Moved'
<1>1. held \in Filled /\ held.array \in Buffers /\ pool \in Seq(Buffers)
      /\ held'.array = 0 /\ held'.data = 0
  BY DEF Moved, Holders, Filled, NoBuffer, Buffer
<1>2. /\ held.array \notin Range(Queued) \cup Range(pool) \cup Range(flight)
      /\ held.array # 0 /\ hand.array # held.array /\ Distinct(pool)
  BY <1>1 DEF Moved, Apart, Buffers
<1>3. \/ UNCHANGED pool
      \/ /\ pool' \in Seq(Buffers) /\ Len(pool) < QueueSize /\ Len(pool') = Len(pool) + 1
         /\ Distinct(pool') /\ Range(pool') = Range(pool) \cup {held.array}
  BY <1>1, <1>2, DistinctAppend DEF returnBufferToBufferPool
<1>4. Holders'
  <2>1. pool' \in Seq(Buffers) /\ Len(pool') <= QueueSize
    BY <1>1, <1>3, HackrfAssumption, LenProperties DEF Moved, Holders
  <2> QED
    BY <2>1 DEF Moved, Holders
<1>5. Apart'
  <2>1. Queued' = Queued
    BY QueueLeft
  <2>2. /\ Distinct(pool') /\ Range(pool') \in {Range(pool), Range(pool) \cup {held.array}}
    BY <1>2, <1>3
  <2>3. 0 \notin Range(Queued) \cup Range(pool') \cup Range(flight)
    BY <1>2, <2>2, NoneApart
  <2>4. hand.array \notin Range(Queued) \cup Range(pool') \cup Range(flight)
    BY <1>2, <2>2 DEF Moved, Apart
  <2>5. /\ Distinct(Queued) /\ Distinct(flight) /\ Range(Queued) \cap Range(flight) = {}
        /\ Range(Queued) \cap Range(pool') = {} /\ Range(pool') \cap Range(flight) = {}
    BY <1>2, <2>2 DEF Moved, Apart
  <2> QED
    BY <1>1, <2>1, <2>2, <2>3, <2>4, <2>5 DEF Apart
<1>6. Ordered'
  <2>1. /\ UNCHANGED <<queue, hand, got, sent>> /\ Ordered /\ sent \in Nat /\ got \in Int
        /\ \A i \in 1 .. Len(queue) : queue[i].data \in 0 .. MaxPackets
        /\ hand.data \in 0 .. MaxPackets /\ MaxPackets \in Nat
    BY DataType DEF Moved, Holders
  <2> QED
    BY <1>1, <2>1 DEF Ordered, Later
<1> QED
  BY <1>4, <1>5, <1>6 DEF Moved

(* QueueRequest: a buffer leaves the pool, or is new, and is in flight     *)
(* unless the request could not be queued.                                 *)
LEMMA RequestMove ==
    ASSUME Moved, NEW b \in Buffers, getBufferFromBufferPool(b, held),
           flight' = Append(flight, b) \/ flight' = flight,
           UNCHANGED <<queue, hand, held, sent, got, srv>>
    PROVE  Moved'
<1>1. /\ pool' \in Seq(Buffers) /\ Len(pool') <= QueueSize /\ Distinct(pool')
      /\ Range(pool') \subseteq Range(pool)
      /\ b \notin Range(Queued) \cup Range(pool') \cup Range(flight)
      /\ b # hand.array /\ b # held.array
  <2>1. CASE pool = <<>>
    <3>1. IsNew(b, held) /\ pool' = pool
      BY <2>1 DEF getBufferFromBufferPool
    <3> QED
      BY <3>1, NewIsApart DEF Moved, Holders, Apart
  <2>2. CASE pool # <<>>
    <3>1. pool' = Tail(pool) /\ b = Head(pool)
      BY <2>2 DEF getBufferFromBufferPool
    <3>2. /\ pool' \in Seq(Buffers) /\ Len(pool') = Len(pool) - 1 /\ Distinct(pool')
          /\ b \notin Range(pool') /\ Range(pool) = Range(pool') \cup {b}
      BY <2>2, <3>1, DistinctTail DEF Moved, Holders, Apart
    <3>3. Len(pool) \in Nat /\ Len(pool) <= QueueSize
      BY LenProperties DEF Moved, Holders
    <3> QED
      BY <3>2, <3>3, HackrfAssumption DEF Moved, Apart
  <2> QED
    BY <2>1, <2>2
<1>2. /\ flight' \in Seq(Buffers) /\ Distinct(flight')
      /\ Range(flight') \subseteq Range(flight) \cup {b}
  <2>1. flight \in Seq(Buffers) /\ Distinct(flight) /\ b \notin Range(flight)
    BY <1>1 DEF Moved, Holders, Apart
  <2>2. CASE flight' = flight
    BY <2>1, <2>2
  <2>3. CASE flight' = Append(flight, b)
    BY <2>1, <2>3, DistinctAppend
  <2> QED
    BY <2>2, <2>3
<1>3. Holders'
  BY <1>1, <1>2 DEF Moved, Holders
<1>4. Apart'
  BY <1>1, <1>2, QueueLeft DEF Moved, Apart
<1>5. Ordered'
  BY DEF Moved, Ordered
<1> QED
  BY <1>3, <1>4, <1>5 DEF Moved

(* requestWait: the buffer of the oldest request is in the hands of the    *)
(* usb thread, with the next packet or without one.                        *)
LEMMA DeliverMove ==
    ASSUME Moved, flight # <<>>, hand = NoBuffer,
           hand'.data \in 0 .. MaxPackets, hand' = Buffer(Head(flight), hand'.data),
           flight' = Tail(flight), sent' \in 0 .. MaxPackets,
           \/ hand'.data = 0 /\ sent' = sent
           \/ hand'.data = sent' /\ sent' = sent + 1,
           UNCHANGED <<queue, pool, held, got, srv>>
    PROVE  Moved'
<1> DEFINE data == hand'.data
<1>1. /\ flight' \in Seq(Buffers) /\ Head(flight) \in Buffers /\ Distinct(flight')
      /\ Head(flight) \notin Range(flight')
      /\ Range(flight) = Range(flight') \cup {Head(flight)}
  BY DistinctTail DEF Moved, Holders, Apart
<1>2. hand'.array = Head(flight) /\ hand'.data = data /\ hand' \in Filled
  BY <1>1 DEF Buffer, Filled
<1> HIDE DEF data
<1>3. Holders'
  BY <1>1, <1>2 DEF Moved, Holders
<1>4. Apart'
  <2>1. /\ Head(flight) \notin Range(Queued) \cup Range(pool) \cup Range(flight')
        /\ Head(flight) # held.array
    BY <1>1 DEF Moved, Apart
  <2> QED
    BY <1>1, <1>2, <2>1, QueueLeft DEF Moved, Apart
<1>5. Ordered'
  <2>1. /\ UNCHANGED <<queue, held, got, srv>> /\ Ordered /\ sent \in Nat /\ got \in Int
        /\ \A i \in 1 .. Len(queue) : queue[i].data \in Int
        /\ held.data \in Int /\ sent' \in Nat /\ sent <= sent'
        /\ hand'.data = data /\ data \in Nat /\ data <= sent'
        /\ data = 0 \/ data = sent + 1
    BY <1>2, DataType, HackrfAssumption DEF Moved, Holders
  <2>2. ASSUME NEW n \in Int, n <= sent PROVE n <= sent' /\ Later(data, n)
    BY <2>1, <2>2 DEF Later
  <2>3. -got <= sent' /\ held.data <= sent' /\ Later(data, -got)
        /\ Later(data, held.data)
    BY <2>1, <2>2 DEF Ordered
  <2>4. \A i \in 1 .. Len(queue) :
          queue[i].data <= sent' /\ Later(data, queue[i].data)
    BY <2>1, <2>2 DEF Ordered
  <2> QED
    BY <2>1, <2>3, <2>4 DEF Ordered
<1> QED
  BY <1>3, <1>4, <1>5 DEF Moved

(* Offer: the buffer joins the queue, or is dropped.                       *)
LEMMA OfferMove ==
    ASSUME Moved, hand # NoBuffer, hand' = NoBuffer,
           queue' = IF Len(queue) < QueueSize THEN Append(queue, hand) ELSE queue,
           UNCHANGED <<pool, flight, held, sent, got, srv>>
    PROVE  Moved'
<1>1. hand \in Filled /\ hand.array \in Buffers /\ queue \in Seq(Filled)
      /\ hand'.array = 0 /\ hand'.data = 0 /\ Len(queue) \in Nat
  BY LenProperties DEF Moved, Holders, Filled, NoBuffer, Buffer
<1>2. /\ hand.array \notin Range(Queued) \cup Range(pool) \cup Range(flight)
      /\ hand.array # 0 /\ hand.array # held.array /\ Distinct(Queued)
      /\ Queued \in Seq(Buffers)
  BY <1>1, ArraysInType DEF Moved, Apart, Buffers, Queued
<1>3. CASE Len(queue) < QueueSize
  <2>1. /\ queue' \in Seq(Filled) /\ Len(queue') = Len(queue) + 1
        /\ queue'[Len(queue) + 1] = hand
        /\ \A i \in 1 .. Len(queue) : queue'[i] = queue[i]
    BY <1>1, <1>3, AppendProperties
  <2>2. Queued' = Append(Queued, hand.array)
    BY <1>1, <1>3, ArraysInAppend DEF Queued
  <2>3. Distinct(Queued') /\ Range(Queued') = Range(Queued) \cup {hand.array}
    BY <1>1, <1>2, <2>2, DistinctAppend
  <2>4. Holders'
    BY <1>1, <1>3, <2>1, HackrfAssumption DEF Moved, Holders
  <2>5. Apart'
    <3>1. 0 \notin Range(Queued') \cup Range(pool) \cup Range(flight)
      BY <1>2, <2>3, NoneApart
    <3>2. held.array \notin Range(Queued') \cup Range(pool) \cup Range(flight)
      BY <1>2, <2>3 DEF Moved, Apart
    <3>3. /\ Distinct(pool) /\ Distinct(flight) /\ Range(pool) \cap Range(flight) = {}
          /\ Range(Queued') \cap Range(pool) = {} /\ Range(Queued') \cap Range(flight) = {}
      BY <1>2, <2>3 DEF Moved, Apart
    <3> QED
      BY <1>1, <2>3, <3>1, <3>2, <3>3 DEF Apart
  <2>6. Ordered'
    <3>1. /\ UNCHANGED <<held, got, sent, srv>> /\ Ordered /\ sent \in Nat /\ got \in Int
          /\ \A i \in 1 .. Len(queue) : queue[i].data \in Nat
          /\ held.data \in Nat /\ hand.data \in Nat
      BY DataType, HackrfAssumption DEF Moved, Holders
    <3>2. ASSUME NEW i \in 1 .. Len(queue')
          PROVE  /\ queue'[i].data <= sent'
                 /\ Later(queue'[i].data, -got') /\ Later(queue'[i].data, held'.data)
                 /\ Later(hand'.data, queue'[i].data)
                 /\ \A k \in 1 .. i - 1 : Later(queue'[i].data, queue'[k].data)
      <4>1. CASE i \in 1 .. Len(queue)
        <5>1. /\ queue'[i] = queue[i]
              /\ \A k \in 1 .. i - 1 : k \in 1 .. Len(queue) /\ queue'[k] = queue[k]
          BY <1>1, <2>1, <4>1
        <5> QED
          BY <1>1, <3>1, <4>1, <5>1 DEF Ordered, Later
      <4>2. CASE i = Len(queue) + 1
        <5>1. /\ queue'[i] = hand
              /\ \A k \in 1 .. i - 1 : k \in 1 .. Len(queue) /\ queue'[k] = queue[k]
          BY <1>1, <2>1, <4>2
        <5> QED
          BY <1>1, <3>1, <5>1 DEF Ordered, Later
      <4> QED
        BY <1>1, <2>1, <4>1, <4>2
    <3> QED
      BY <1>1, <3>1, <3>2 DEF Ordered, Later
  <2> QED
    BY <2>4, <2>5, <2>6 DEF Moved
<1>4. CASE ~(Len(queue) < QueueSize)
  <2>1. queue' = queue /\ Queued' = Queued
    BY <1>4, QueueLeft
  <2>2. Holders'
    BY <2>1 DEF Moved, Holders
  <2>3. Apart'
    BY <1>1, <2>1, NoneApart DEF Moved, Apart
  <2>4. Ordered'
    <3>1. /\ UNCHANGED <<queue, held, got, sent, srv>> /\ Ordered /\ sent \in Nat
          /\ hand'.data = 0
      BY <1>1, <2>1, HackrfAssumption DEF Moved, Holders
    <3> QED
      BY <3>1 DEF Ordered, Later
  <2> QED
    BY <2>2, <2>3, <2>4 DEF Moved
<1> QED
  BY <1>3, <1>4

(* The end of the usb thread: every request is cancelled.                  *)
LEMMA CancelMove ==
    ASSUME Moved, flight' = <<>>, UNCHANGED <<queue, pool, hand, held, sent, got, srv>>
    PROVE  Moved'
<1>1. Holders'
  BY DEF Moved, Holders
<1>2. Range(<<>>) = {}
  BY DEF Range
<1>3. Apart'
  BY <1>2, QueueLeft DEF Moved, Apart, Distinct
<1>4. Ordered'
  BY DEF Moved, Ordered
<1> QED
  BY <1>1, <1>3, <1>4 DEF Moved

(* The steps that move no buffer.                                          *)
Still == UNCHANGED <<queue, pool, flight, hand, held, sent, got>>

LEMMA SessionStill ==
    ASSUME SessionThread, ~StartRX, ~Poll, ~Write, ~ReturnBuffer
    PROVE  Still /\ srv # "return" /\ srv' # "return"
<1> USE DEF SrvOnly, driverVars, stream, buffers, Still
<1>1. CASE OpenFails \/ OnHackrfReady \/ InitDevice
  BY <1>1 DEF OpenFails, OnHackrfReady, InitDevice
<1>2. CASE Bind \/ AnnounceOnOpen \/ Accept \/ StartCommand \/ StartRequest
  BY <1>2 DEF Bind, AnnounceOnOpen, Accept, StartCommand, StartRequest
<1>3. CASE SendDongleInfo \/ AfterLoop \/ Finally \/ Join
  BY <1>3 DEF SendDongleInfo, AfterLoop, Finally, Join, Loop
<1>4. CASE StopNormally \/ Catch
  BY <1>4 DEF StopNormally, Catch, Stop, StopRequest, AnnounceOnClosed
<1> QED
  BY <1>1, <1>2, <1>3, <1>4 DEF SessionThread

LEMMA OthersStill ==
    ASSUME CommandThread \/ CloseTcp \/ Close \/ Connect \/ Leave
    PROVE  Still /\ srv' = srv /\ rx' = rx
<1> USE DEF driverVars, stream, Still
<1>1. CASE CommandThread
  BY <1>1 DEF CommandThread, ReadCommand, ReadFails, ExecuteCommand, CmdOnly
<1>2. CASE CloseTcp \/ Close
  BY <1>2 DEF CloseTcp, Close, CheckThread, InterruptThread, JoinThread, CloseOnly
<1>3. CASE Connect \/ Leave
  BY <1>3 DEF Connect, Leave, ClientMoves
<1> QED
  BY <1>1, <1>2, <1>3

LEMMA DriverStill ==
    ASSUME ReceiveThread, Run \/ GiveUp \/ GiveUpRequest \/ TestMode
                          \/ RequestWaitFails \/ LastStop \/ LastRequest
    PROVE  Still /\ srv' = srv
  BY DEF ReceiveThread, stream, Still, Run, GiveUp, GiveUpRequest, TestMode,
     RequestWaitFails, LastStop, LastRequest, RxStop, RxStopRequest, buffers

LEMMA MovedStep == BufferInv /\ [Next]_vars => Moved'
<1> SUFFICES ASSUME BufferInv, [Next]_vars PROVE Moved'
  OBVIOUS
<1> USE DEF session
<1>1. Moved
  BY DEF BufferInv, Moved
<1>2. CASE StartRX
  BY <1>1, <1>2, ClearMove DEF StartRX, stream
<1>3. CASE Poll
  <2>1. srv = "poll" /\ held = NoBuffer
    BY <1>3 DEF Poll, BufferInv, InHand
  <2>2. UNCHANGED <<pool, flight, hand, sent, got>> /\ srv' # "return"
    BY <1>3 DEF Poll, Loop
  <2>3. \/ queue # <<>> /\ held' = Head(queue) /\ queue' = Tail(queue)
        \/ UNCHANGED <<queue, held>>
    BY <1>3 DEF Poll
  <2> QED
    BY <1>1, <2>1, <2>2, <2>3, TakeMove, StillMove
<1>4. CASE Write
  <2>1. srv = "write" /\ UNCHANGED <<queue, pool, flight, hand, sent>>
    BY <1>4 DEF Write
  <2>2. \/ /\ got' = (IF held.data = 0 THEN got ELSE -held.data)
           /\ srv' = "return" /\ held' = held
        \/ got' = got /\ srv' # "return" /\ held' = NoBuffer
    BY <1>4 DEF Write
  <2> QED
    BY <1>1, <2>1, <2>2, WriteMove
<1>5. CASE ReturnBuffer
  <2>1. srv = "return" /\ held # NoBuffer
    BY <1>5 DEF ReturnBuffer, BufferInv, InHand
  <2>2. /\ held' = NoBuffer /\ returnBufferToBufferPool(held) /\ srv' # "return"
        /\ UNCHANGED <<queue, flight, hand, sent, got>>
    BY <1>5 DEF ReturnBuffer, Loop
  <2> QED
    BY <1>1, <2>1, <2>2, ReturnMove
<1>6. CASE SessionThread /\ ~StartRX /\ ~Poll /\ ~Write /\ ~ReturnBuffer
  BY <1>1, <1>6, SessionStill, StillMove DEF Still
<1>7. CASE CommandThread \/ CloseTcp \/ Close \/ Connect \/ Leave
  BY <1>1, <1>7, OthersStill, StillMove DEF Still
<1>8. CASE ReceiveThread
  <2>1. UNCHANGED <<srv, held, got>>
    BY <1>8 DEF ReceiveThread, stream
  <2>2. CASE FillRequests(held) \/ Refill(held)
    <3>1. UNCHANGED <<queue, hand, sent>>
      BY <2>2 DEF FillRequests, Refill, QueueRequest
    <3>2. PICK b \in Buffers : /\ getBufferFromBufferPool(b, held)
                               /\ flight' = Append(flight, b) \/ flight' = flight
      BY <2>2 DEF FillRequests, Refill, QueueRequest
    <3> QED
      BY <1>1, <2>1, <3>1, <3>2, RequestMove
  <2>3. CASE RequestWait
    <3>1. /\ rx = "wait" /\ flight # <<>> /\ sent < MaxPackets /\ sent' = sent + 1
          /\ hand'.data = sent' /\ hand' = Buffer(Head(flight), hand'.data)
          /\ flight' = Tail(flight) /\ UNCHANGED <<queue, pool>>
      BY <2>3 DEF RequestWait, Deliver, Buffer
    <3>2. hand = NoBuffer /\ sent' \in 0 .. MaxPackets
      BY <3>1, HackrfAssumption DEF BufferInv, InHand, Holders
    <3> QED
      BY <1>1, <2>1, <3>1, <3>2, DeliverMove
  <2>4. CASE RequestWaitKilled
    <3>1. /\ rx = "wait" /\ killed > 0 /\ sent' = sent /\ hand'.data = 0
          /\ hand' = Buffer(Head(flight), hand'.data) /\ flight' = Tail(flight)
          /\ UNCHANGED <<queue, pool>>
      BY <2>4 DEF RequestWaitKilled, Deliver, Buffer
    <3>2. hand = NoBuffer /\ sent' \in 0 .. MaxPackets /\ 0 \in 0 .. MaxPackets
      BY <3>1, HackrfAssumption DEF BufferInv, InHand, Holders
    <3>3. flight # <<>>
      BY <3>1 DEF BufferInv, Room
    <3> QED
      BY <1>1, <2>1, <3>1, <3>2, <3>3, DeliverMove
  <2>5. CASE Offer
    <3>1. /\ rx = "offer" /\ hand' = NoBuffer
          /\ queue' = IF Len(queue) < QueueSize THEN Append(queue, hand) ELSE queue
          /\ UNCHANGED <<pool, flight, sent>>
      BY <2>5 DEF Offer
    <3>2. hand # NoBuffer
      BY <3>1 DEF BufferInv, InHand
    <3> QED
      BY <1>1, <2>1, <3>1, <3>2, OfferMove
  <2>6. CASE CancelRequests
    <3>1. flight' = <<>> /\ UNCHANGED <<queue, pool, hand, sent>>
      BY <2>6 DEF CancelRequests
    <3> QED
      BY <1>1, <2>1, <3>1, CancelMove
  <2>7. CASE Run \/ GiveUp \/ GiveUpRequest \/ TestMode \/ RequestWaitFails
             \/ LastStop \/ LastRequest
    BY <1>1, <1>8, <2>7, DriverStill, StillMove DEF Still
  <2> QED
    BY <1>8, <2>2, <2>3, <2>4, <2>5, <2>6, <2>7 DEF ReceiveThread, receiveLoop
<1>9. CASE UNCHANGED vars
  BY <1>1, <1>9, StillMove DEF vars
<1> QED
  BY <1>2, <1>3, <1>4, <1>5, <1>6, <1>7, <1>8, <1>9 DEF Next, SessionThread

(* Where the threads are, and how many requests are in flight.             *)
Places == rx \in RxLabels /\ Room /\ InHand

LEMMA PlacesStep == BufferInv /\ [Next]_vars => Places'
<1> SUFFICES ASSUME BufferInv, [Next]_vars PROVE Places'
  OBVIOUS
<1> USE DEF session
<1>1. Places /\ Len(flight) \in Nat /\ flight \in Seq(Buffers) /\ NumRequests \in Nat \ {0}
  BY HackrfAssumption, LenProperties DEF BufferInv, Places, Holders
<1>2. ASSUME UNCHANGED <<rx, flight, hand>>, killed' \in {killed, Len(flight)},
             srv' \in Unannounced \cup Starting => srv \in Unannounced \cup Starting,
             srv' \in {"write", "return"} <=> held' # NoBuffer
      PROVE  Places'
  BY <1>1, <1>2 DEF Places, Room, InHand
<1>3. CASE SessionThread /\ ~StartRequest /\ ~Poll /\ ~Write /\ ~ReturnBuffer
  <2>1. /\ UNCHANGED <<rx, flight, hand, held>> /\ killed' \in {killed, Len(flight)}
        /\ srv' \in Unannounced \cup Starting => srv \in Unannounced \cup Starting
        /\ srv \notin {"write", "return"} /\ srv' \notin {"write", "return"}
    <3> USE DEF SrvOnly, driverVars, stream, buffers, Unannounced, Starting
    <3>1. CASE OpenFails \/ OnHackrfReady
      BY <3>1 DEF OpenFails, OnHackrfReady
    <3>2. CASE InitDevice
      BY <3>2 DEF InitDevice, sendUsbRequest
    <3>3. CASE Bind \/ AnnounceOnOpen \/ Accept \/ StartCommand \/ StartRX
      BY <3>3 DEF Bind, AnnounceOnOpen, Accept, StartCommand, StartRX
    <3>4. CASE SendDongleInfo \/ AfterLoop \/ Finally \/ Join
      BY <3>4 DEF SendDongleInfo, AfterLoop, Finally, Join, Loop
    <3>5. CASE StopNormally \/ Catch
      BY <3>5 DEF StopNormally, Catch, Stop, StopRequest, AnnounceOnClosed,
         SendTransceiverMode, sendUsbRequest
    <3> QED
      BY <1>3, <3>1, <3>2, <3>3, <3>4, <3>5 DEF SessionThread
  <2> QED
    BY <1>1, <1>2, <2>1 DEF Places, InHand
<1>4. CASE StartRequest
  <2>1. /\ srv = "startRequest" /\ UNCHANGED <<flight, hand, held>>
        /\ killed' \in {killed, Len(flight)}
        /\ \/ srv' = "info" /\ rx' = "start"
           \/ srv' = "failFinally" /\ rx' = rx
    BY <1>4 DEF StartRequest, SendTransceiverMode, sendUsbRequest, stream
  <2>2. rx = "none" /\ flight = <<>> /\ hand = NoBuffer /\ held = NoBuffer
    BY <1>1, <2>1 DEF Places, Room, InHand, Starting
  <2> QED
    BY <1>1, <2>1, <2>2 DEF Places, Room, InHand, RxLabels, Unannounced, Starting
<1>5. CASE Poll
  <2>1. /\ srv = "poll" /\ UNCHANGED <<rx, flight, killed, hand>>
        /\ \/ queue # <<>> /\ held' = Head(queue) /\ srv' = "write"
           \/ held' = held /\ srv' \in {"poll", "afterLoop"}
    BY <1>5 DEF Poll, Loop
  <2>2. queue # <<>> => Head(queue) \in Filled
    BY HeadTailProperties DEF BufferInv, Holders
  <2>3. NoBuffer \notin Filled
    BY DEF NoBuffer, Buffer, Filled, Buffers
  <2>4. held = NoBuffer
    BY <1>1, <2>1 DEF Places, InHand
  <2> QED
    BY <1>2, <2>1, <2>2, <2>3, <2>4 DEF Unannounced, Starting
<1>6. CASE Write \/ ReturnBuffer
  <2>1. /\ srv \in {"write", "return"} /\ UNCHANGED <<rx, flight, killed, hand>>
        /\ \/ held' = held /\ srv' = "return"
           \/ held' = NoBuffer /\ srv' \in {"poll", "afterLoop", "failFinally"}
    BY <1>6 DEF Write, ReturnBuffer, Loop
  <2>2. held # NoBuffer
    BY <1>1, <2>1 DEF Places, InHand
  <2> QED
    BY <1>2, <2>1, <2>2 DEF Unannounced, Starting
<1>7. CASE CommandThread \/ CloseTcp \/ Close \/ Connect \/ Leave
  <2>1. killed' \in {killed, Len(flight)}
    BY <1>7 DEF CommandThread, ReadCommand, ReadFails, ExecuteCommand, sendUsbRequest,
       CloseTcp, Close, CheckThread, InterruptThread, JoinThread, CloseOnly, driverVars,
       Connect, Leave, ClientMoves
  <2> QED
    BY <1>1, <1>2, <1>7, <2>1, OthersStill DEF Still, Places, InHand
<1>8. CASE ReceiveThread
  <2>1. UNCHANGED <<srv, held>> /\ receiveLoop(held)
    BY <1>8 DEF ReceiveThread, stream
  <2>2. ASSUME rx # "none", rx' \in RxLabels \ {"none"},
               killed' \in 0 .. Len(flight'), Len(flight') <= NumRequests,
               rx' = "start" => flight' = <<>>,
               rx' \in {"fill", "offer", "refill"} => Len(flight') < NumRequests,
               rx' = "offer" <=> hand' # NoBuffer
        PROVE  Places'
    BY <1>1, <2>1, <2>2 DEF Places, Room, InHand
  <2>3. CASE Run
    BY <1>1, <2>2, <2>3 DEF Run, Places, Room, InHand, RxLabels, buffers
  <2>4. CASE FillRequests(held) \/ Refill(held)
    <3>1. /\ rx \in {"fill", "refill"} /\ UNCHANGED <<killed, hand>>
          /\ \/ \E b \in Buffers : flight' = Append(flight, b)
             \/ flight' = flight
          /\ rx' \in {"fill", "loop", "giveUp", "cancel"}
          /\ rx' = "fill" => Len(flight) + 1 < NumRequests
      BY <2>4 DEF FillRequests, Refill, QueueRequest
    <3>2. Len(flight') \in {Len(flight), Len(flight) + 1}
      BY <1>1, <3>1, AppendProperties
    <3>3. hand = NoBuffer /\ Len(flight) < NumRequests /\ killed \in 0 .. Len(flight)
      BY <1>1, <3>1 DEF Places, Room, InHand
    <3> QED
      BY <1>1, <2>2, <3>1, <3>2, <3>3 DEF RxLabels
  <2>5. CASE GiveUp \/ GiveUpRequest \/ TestMode \/ RequestWaitFails \/ LastStop
             \/ LastRequest
    <3>1. /\ rx \in {"giveUp", "giveUpRequest", "loop", "wait", "lastStop", "lastRequest"}
          /\ rx' \in {"giveUpRequest", "loop", "cancel", "wait", "lastRequest", "done"}
          /\ UNCHANGED <<flight, hand>> /\ killed' \in {killed, Len(flight)}
      BY <2>5 DEF GiveUp, GiveUpRequest, TestMode, RequestWaitFails, LastStop,
         LastRequest, RxStop, RxStopRequest, SendTransceiverMode, sendUsbRequest, buffers
    <3> QED
      BY <1>1, <2>2, <3>1 DEF Places, Room, InHand, RxLabels
  <2>6. CASE RequestWait \/ RequestWaitKilled
    <3>1. /\ rx = "wait" /\ rx' = "offer" /\ flight' = Tail(flight)
          /\ \/ killed = 0 /\ killed' = 0 /\ flight # <<>>
             \/ killed > 0 /\ killed' = killed - 1
          /\ hand'.array = Head(flight)
      BY <2>6 DEF RequestWait, RequestWaitKilled, Deliver, Buffer
    <3>2. flight # <<>> /\ killed \in 0 .. Len(flight) /\ Len(flight) <= NumRequests
      BY <1>1, <3>1 DEF Places, Room
    <3>3. Head(flight) \in Buffers /\ Len(flight') = Len(flight) - 1
      BY <1>1, <3>1, <3>2, HeadTailProperties
    <3>4. hand' # NoBuffer
      BY <3>1, <3>3 DEF NoBuffer, Buffer, Buffers
    <3> QED
      BY <1>1, <2>2, <3>1, <3>2, <3>3, <3>4 DEF RxLabels
  <2>7. CASE Offer
    BY <1>1, <2>2, <2>7 DEF Offer, Places, Room, InHand, RxLabels
  <2>8. CASE CancelRequests
    <3>1. /\ rx = "cancel" /\ flight' = <<>> /\ killed' = 0 /\ hand' = hand
          /\ rx' \in {"lastStop", "done"}
      BY <2>8 DEF CancelRequests
    <3> QED
      BY <1>1, <2>2, <3>1 DEF Places, InHand, RxLabels
  <2> QED
    BY <2>1, <2>3, <2>4, <2>5, <2>6, <2>7, <2>8 DEF receiveLoop
<1>9. CASE UNCHANGED vars
  BY <1>1, <1>9, <1>2 DEF vars, Places, InHand
<1> QED
  BY <1>3, <1>4, <1>5, <1>6, <1>7, <1>8, <1>9 DEF Next, SessionThread

LEMMA PlainStep == BufferInv /\ [Next]_vars => Plain'
<1> SUFFICES ASSUME BufferInv, [Next]_vars PROVE Plain'
  OBVIOUS
<1>1. Plain /\ MaxFaults \in Nat /\ MaxCommands \in Nat
  BY HackrfAssumption, TcpAssumption DEF BufferInv
<1> USE DEF session, stream, driverVars, buffers, Plain
<1>2. ASSUME NEW works \in BOOLEAN, sendUsbRequest(works)
      PROVE  faults' \in 0 .. MaxFaults
  BY <1>1, <1>2 DEF sendUsbRequest
<1>3. ASSUME NEW works \in BOOLEAN, NEW to \in {"off", "receive"},
             SendTransceiverMode(to, works)
      PROVE  faults' \in 0 .. MaxFaults /\ radio' \in {"off", "receive", "stuck"}
  BY <1>1, <1>2, <1>3 DEF SendTransceiverMode
<1>4. UsbCallFails => faults' \in 0 .. MaxFaults
  BY <1>1 DEF UsbCallFails
<1>5. CASE SessionThread
  <2> USE DEF SrvOnly
  <2>1. CASE InitDevice
    BY <1>1, <1>2, <2>1 DEF InitDevice
  <2>2. CASE StartRequest
    BY <1>1, <1>3, <2>2 DEF StartRequest
  <2>3. CASE OpenFails \/ OnHackrfReady \/ Bind \/ AnnounceOnOpen \/ Accept \/ StartCommand
    BY <1>1, <2>3 DEF OpenFails, OnHackrfReady, Bind, AnnounceOnOpen, Accept, StartCommand
  <2>4. CASE StartRX \/ SendDongleInfo \/ Poll \/ Write \/ ReturnBuffer
    BY <1>1, <2>4 DEF StartRX, SendDongleInfo, Poll, Write, ReturnBuffer
  <2>5. CASE AfterLoop \/ Finally \/ Join
    BY <1>1, <2>5 DEF AfterLoop, Finally, Join
  <2>6. CASE Stop("stop", "stopRequest") \/ Stop("catchStop", "catchRequest")
             \/ AnnounceOnClosed("announce", "done", "catch")
             \/ AnnounceOnClosed("catch", "catchStop", "thrown")
    BY <1>1, <2>6 DEF Stop, AnnounceOnClosed
  <2>7. CASE StopRequest("stopRequest", "announce", "catch")
             \/ StopRequest("catchRequest", "done", "done")
    BY <1>1, <1>3, <2>7 DEF StopRequest
  <2> QED
    BY <1>5, <2>1, <2>2, <2>3, <2>4, <2>5, <2>6, <2>7 DEF SessionThread, StopNormally, Catch
<1>6. CASE CommandThread
  <2> USE DEF CmdOnly
  <2>1. CASE ReadCommand
    BY <1>1, <2>1 DEF ReadCommand
  <2>2. CASE ReadFails
    BY <1>1, <2>2 DEF ReadFails
  <2>3. CASE ExecuteCommand
    BY <1>1, <1>2, <2>3 DEF ExecuteCommand
  <2> QED
    BY <1>6, <2>1, <2>2, <2>3 DEF CommandThread
<1>7. CASE CloseTcp \/ Close
  BY <1>1, <1>7 DEF CloseTcp, Close, CheckThread, InterruptThread, JoinThread, CloseOnly
<1>8. CASE Connect \/ Leave
  BY <1>1, <1>8 DEF Connect, Leave, ClientMoves
<1>9. CASE ReceiveThread
  <2>1. UNCHANGED <<commands, session>> /\ receiveLoop(held)
    BY <1>9 DEF ReceiveThread
  <2>2. CASE FillRequests(held) \/ Refill(held)
    BY <1>1, <1>4, <2>1, <2>2 DEF FillRequests, Refill, QueueRequest
  <2>3. CASE GiveUpRequest \/ LastRequest
    BY <1>1, <1>3, <2>1, <2>3 DEF GiveUpRequest, LastRequest, RxStopRequest
  <2>4. CASE GiveUp \/ LastStop \/ Run \/ TestMode \/ Offer \/ CancelRequests
    BY <1>1, <2>1, <2>4 DEF GiveUp, LastStop, RxStop, Run, TestMode, Offer, CancelRequests
  <2>5. CASE RequestWait \/ RequestWaitKilled \/ RequestWaitFails
    BY <1>1, <1>4, <2>1, <2>5 DEF RequestWait, RequestWaitKilled, RequestWaitFails, Deliver
  <2> QED
    BY <2>1, <2>2, <2>3, <2>4, <2>5 DEF receiveLoop
<1>10. CASE UNCHANGED vars
  BY <1>1, <1>10 DEF vars
<1> QED
  BY <1>5, <1>6, <1>7, <1>8, <1>9, <1>10 DEF Next

LEMMA BufferStep == BufferInv /\ [Next]_vars => BufferInv'
  BY MovedStep, PlacesStep, PlainStep DEF BufferInv, Moved, Places

LEMMA InitBuffers == Init => BufferInv
<1> SUFFICES ASSUME Init PROVE BufferInv
  OBVIOUS
<1>1. /\ srv = "open" /\ rx = "none" /\ killed = 0 /\ sent = 0 /\ got = 0
      /\ queue = <<>> /\ pool = <<>> /\ flight = <<>>
      /\ hand = NoBuffer /\ held = NoBuffer
  BY DEF Init, DriverInit
<1>2. Plain
  BY HackrfAssumption, TcpAssumption DEF Init, DriverInit, Plain
<1>3. rx \in RxLabels /\ Room /\ InHand
  BY <1>1, HackrfAssumption DEF RxLabels, Room, InHand
<1>4. Holders
  BY <1>1, HackrfAssumption DEF Holders
<1>5. Apart
  <2>1. Queued = <<>> /\ Range(<<>>) = {}
    BY <1>1 DEF Queued, ArraysIn, Range
  <2>2. Distinct(<<>>)
    BY DEF Distinct
  <2> QED
    BY <1>1, <2>1, <2>2 DEF Apart, NoBuffer, Buffer
<1>6. Ordered
  BY <1>1 DEF Ordered, Later, NoBuffer, Buffer
<1> QED
  BY <1>2, <1>3, <1>4, <1>5, <1>6 DEF BufferInv

(* Buffers apart, one place after the other, have one owner each.          *)
LEMMA OneOwner == BufferInv => NoAlias
<1> SUFFICES ASSUME BufferInv PROVE NoAlias
  OBVIOUS
<1> DEFINE ArrayOf(buffer) == IF buffer = NoBuffer THEN <<>> ELSE <<buffer.array>>
           h == ArrayOf(hand)
           d == ArrayOf(held)
<1>1. /\ Holders /\ Apart /\ Moved
  BY DEF BufferInv, Moved
<1>2. /\ Queued \in Seq(Buffers) /\ pool \in Seq(Buffers) /\ flight \in Seq(Buffers)
  BY <1>1, ArraysInType DEF Holders, Queued
<1>3. ASSUME NEW buffer \in {NoBuffer} \cup Filled
      PROVE  /\ ArrayOf(buffer) \in Seq(Buffers) /\ Distinct(ArrayOf(buffer))
             /\ Range(ArrayOf(buffer)) \subseteq {buffer.array} \ {0}
  <2>1. CASE buffer = NoBuffer
    BY <2>1 DEF Distinct, Range
  <2>2. CASE buffer # NoBuffer
    <3>1. buffer.array \in Buffers /\ buffer.array # 0
      BY <2>2 DEF Filled, Buffers
    <3> DEFINE a == buffer.array
    <3> HIDE DEF a
    <3>2. <<a>> \in Seq({a}) /\ Len(<<a>>) = 1 /\ Range(<<a>>) = {a}
      BY DEF Range
    <3>3. Distinct(<<a>>)
      BY <3>2 DEF Distinct
    <3>4. a \in Buffers => <<a>> \in Seq(Buffers)
      OBVIOUS
    <3> QED
      BY <2>2, <3>1, <3>2, <3>3, <3>4 DEF a
  <2> QED
    BY <2>1, <2>2
<1>4. /\ h \in Seq(Buffers) /\ Distinct(h) /\ Range(h) \subseteq {hand.array} \ {0}
      /\ d \in Seq(Buffers) /\ Distinct(d) /\ Range(d) \subseteq {held.array} \ {0}
  BY <1>1, <1>3 DEF Holders
<1> HIDE DEF h, d
<1> DEFINE two == Queued \o pool
           three == two \o flight
           four == three \o h
           all == four \o d
<1>5. two \in Seq(Buffers) /\ Distinct(two) /\ Range(two) = Range(Queued) \cup Range(pool)
  BY <1>1, <1>2, DistinctConcat DEF Apart
<1> HIDE DEF two
<1>6. /\ three \in Seq(Buffers) /\ Distinct(three)
      /\ Range(three) = Range(Queued) \cup Range(pool) \cup Range(flight)
  <2>1. Range(two) \cap Range(flight) = {} /\ Distinct(flight)
    BY <1>1, <1>5 DEF Apart
  <2> QED
    BY <1>2, <1>5, <2>1, DistinctConcat
<1> HIDE DEF three
<1>7. four \in Seq(Buffers) /\ Distinct(four) /\ Range(four) = Range(three) \cup Range(h)
  <2>1. Range(three) \cap Range(h) = {}
    BY <1>1, <1>4, <1>6 DEF Apart
  <2> QED
    BY <1>4, <1>6, <2>1, DistinctConcat
<1> HIDE DEF four
<1>8. all \in Seq(Buffers) /\ Distinct(all)
  <2>1. Range(four) \cap Range(d) = {}
    BY <1>1, <1>4, <1>6, <1>7 DEF Apart
  <2> QED
    BY <1>4, <1>7, <2>1, DistinctConcat
<1> HIDE DEF all
<1>9. IsInjective(all)
  BY <1>8, LenProperties DEF IsInjective, Distinct
<1> QED
  BY <1>9 DEF NoAlias, all, four, three, two, h, d, Queued, ArraysIn

(* What is on its way to the client is later than what the client has.     *)
LEMMA WayOrdered == BufferInv => SamplesInOrder
<1> SUFFICES ASSUME BufferInv PROVE SamplesInOrder
  OBVIOUS
<1> DEFINE S == {NoBuffer} \cup Filled
           one == <<held>>
           last == <<hand>>
           front == one \o queue
           way == front \o last
           n == Len(queue)
<1>1. Holders /\ Ordered /\ n \in Nat
  BY LenProperties DEF BufferInv, Holders
<1>2. queue \in Seq(S) /\ one \in Seq(S) /\ last \in Seq(S)
      /\ Len(one) = 1 /\ one[1] = held /\ Len(last) = 1 /\ last[1] = hand
  <2>1. queue \in Seq(Filled) /\ Filled \subseteq S /\ hand \in S /\ held \in S
    BY <1>1 DEF Holders
  <2>2. queue \in Seq(S)
    BY <2>1, SeqMonotonic
  <2> HIDE DEF S
  <2> QED
    BY <2>1, <2>2
<1> HIDE DEF S, one, last
<1>3. /\ front \in Seq(S) /\ Len(front) = n + 1 /\ front[1] = held
      /\ \A i \in 1 .. n : front[i + 1] = queue[i]
  <2>1. /\ front \in Seq(S) /\ Len(front) = Len(one) + n
        /\ \A i \in 1 .. Len(one) + n :
             front[i] = IF i <= Len(one) THEN one[i] ELSE queue[i - Len(one)]
    BY <1>2, ConcatProperties
  <2> HIDE DEF front, n
  <2>2. \A i \in 1 .. n : i + 1 \in 1 .. 1 + n /\ ~(i + 1 <= 1) /\ (i + 1) - 1 = i
    BY <1>1
  <2> QED
    BY <1>1, <1>2, <2>1, <2>2
<1> HIDE DEF front
<1>4. /\ way \in Seq(S) /\ Len(way) = n + 2 /\ way[n + 2] = hand
      /\ \A i \in 1 .. n + 1 : way[i] = front[i]
  <2>1. /\ way \in Seq(S) /\ Len(way) = Len(front) + Len(last)
        /\ \A i \in 1 .. Len(front) + Len(last) :
             way[i] = IF i <= Len(front) THEN front[i] ELSE last[i - Len(front)]
    BY <1>2, <1>3, ConcatProperties
  <2> HIDE DEF way, n
  <2> QED
    BY <1>1, <1>2, <1>3, <2>1
<1> HIDE DEF way
<1>5. way[1] = held /\ \A i \in 1 .. n : way[i + 1] = queue[i]
  BY <1>1, <1>3, <1>4
<1>6. /\ got \in Int /\ got <= 0 /\ hand.data \in Nat /\ held.data \in Nat
      /\ \A i \in 1 .. n : queue[i].data \in Nat
  BY <1>1, DataType, HackrfAssumption DEF Ordered, Holders
<1>7. ASSUME NEW i \in 1 .. n + 2, way[i].data # 0
      PROVE  /\ way[i].data > -got \/ (i = 1 /\ srv = "return")
             /\ \A k \in 1 .. i - 1 : way[i].data > way[k].data
  <2> HIDE DEF n
  <2>1. CASE i = 1
    BY <1>1, <1>5, <1>6, <1>7, <2>1 DEF Ordered, Later
  <2>2. CASE i \in 2 .. n + 1
    <3>1. i - 1 \in 1 .. n /\ way[i] = queue[i - 1]
      BY <1>1, <1>5, <2>2
    <3>2. Later(way[i].data, -got) /\ Later(way[i].data, held.data)
          /\ \A k \in 1 .. (i - 1) - 1 : Later(way[i].data, queue[k].data)
      BY <1>1, <3>1 DEF Ordered, n
    <3>3. ASSUME NEW k \in 1 .. i - 1 PROVE way[i].data > way[k].data
      <4>1. CASE k = 1
        BY <1>5, <1>7, <3>2, <4>1 DEF Later
      <4>2. CASE k # 1
        <5>1. k - 1 \in 1 .. (i - 1) - 1 /\ k - 1 \in 1 .. n /\ way[k] = queue[k - 1]
          BY <1>1, <1>5, <2>2, <4>2
        <5> QED
          BY <1>7, <3>2, <5>1 DEF Later
      <4> QED
        BY <4>1, <4>2
    <3> QED
      BY <1>7, <3>2, <3>3 DEF Later
  <2>3. CASE i = n + 2
    <3>1. Later(hand.data, -got) /\ Later(hand.data, held.data)
          /\ \A k \in 1 .. n : Later(hand.data, queue[k].data)
      BY <1>1 DEF Ordered, n
    <3>2. ASSUME NEW k \in 1 .. i - 1 PROVE way[i].data > way[k].data
      <4>1. CASE k = 1
        BY <1>4, <1>5, <1>7, <2>3, <3>1, <4>1 DEF Later
      <4>2. CASE k # 1
        <5>1. k - 1 \in 1 .. n /\ way[k] = queue[k - 1]
          BY <1>1, <1>5, <2>3, <4>2
        <5> QED
          BY <1>4, <1>7, <2>3, <3>1, <5>1 DEF Later
      <4> QED
        BY <4>1, <4>2
    <3> QED
      BY <1>4, <1>7, <2>3, <3>1, <3>2 DEF Later
  <2> QED
    BY <1>1, <2>1, <2>2, <2>3
<1>8. DOMAIN way = 1 .. n + 2
  BY <1>4, LenProperties
<1> QED
  BY <1>6, <1>7, <1>8 DEF SamplesInOrder, way, front, one, last

(* Offer, Refill, poll, write and returnBufferToBufferPool: a buffer has   *)
(* one owner whatever the two threads and the radio do in between, and the *)
(* client reads each packet once, unsigned and in the order it was sent.   *)
THEOREM BuffersStayInOrder == Spec => []BuffersInOrder
<1>1. BufferInv => TypeOK
  <2> SUFFICES ASSUME BufferInv PROVE TypeOK
    OBVIOUS
  <2>1. Plain /\ Holders /\ killed \in 0 .. Len(flight) /\ Len(flight) <= NumRequests
    BY DEF BufferInv, Room
  <2> QED
    BY <2>1 DEF TypeOK, Plain, Holders, Filled
<1>2. BufferInv => BuffersInOrder
  BY <1>1, OneOwner, WayOrdered DEF BuffersInOrder
<1> QED
  BY <1>2, InitBuffers, BufferStep, PTL DEF Spec
=============================================================================
