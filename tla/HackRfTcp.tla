------------------------------ MODULE HackRfTcp -----------------------------
(***************************************************************************)
(* A HackRF session: HackRfSdrDevice.java, which opens the driver, runs    *)
(* the session and closes it, and the TCP server HackRfTcp.java.           *)
(*                                                                         *)
(*   srv   the thread of the session: openAsync's own, or the main thread  *)
(*         when the permission had to be asked for first (initHackrf)      *)
(*   cmd   the listener for commands (HardwareCommand)                     *)
(*   rx    the usb thread of the driver (Hackrf)                           *)
(*   closer a thread that calls close()                                    *)
(*                                                                         *)
(* and a client who connects, sends commands, reads and leaves as it likes.*)
(***************************************************************************)
EXTENDS Hackrf

CONSTANTS Commands,     \* [command, argument]: what a client may send
          Probed,       \* more of them, for what is promised of each
          MaxCommands   \* bound: commands that it sends

ASSUME TcpAssumption ==
    /\ MaxCommands \in Nat
    /\ \A c \in Commands \cup Probed : c.argument \in Int

VARIABLES
    srv, cmd, closer, \* where the threads are
    todo,        \* the requests that srv and cmd still have to send
    tcp,         \* tcp # null
    canceled,    \* canceled
    socket,      \* the server socket: "unbound", "bound", "closed"
    conn,        \* the connection: "none", "open", "closed"
    client,      \* "away", "connected", "left"
    interrupted, \* the interrupt flags of srv and cmd that are set
    error,       \* command.e
    held,        \* the buffer that srv took from the queue
    got,         \* the last new samples that the client has read, or 0
    commands,    \* the commands that it has sent
    announced    \* what the listeners of the device were told

session == <<tcp, canceled, socket, conn, client, interrupted, error,
             announced>>
stream == <<held, got>>
vars == <<mode, radio, queue, pool, flight, killed, hand, sent, faults,
          rx, srv, cmd, closer, todo, tcp, canceled, socket, conn,
          client, interrupted, error, held, got, commands, announced>>

(* -10 is 0 while 490 is 100                                               *)
remap_rtl_gain_to_perc(tenthsOfDb) ==
    Quotient(IF tenthsOfDb > 2147483637 THEN (tenthsOfDb - 2147483647) + 9 - 2147483647 - 1
             ELSE tenthsOfDb + 10, 5)

(* Mutant: no lower end.                                                   *)
ClampTop(n, top) == IF n > top THEN top ELSE n

Clamp(n, top) == IF n < 0 THEN 0 ELSE IF n > top THEN top ELSE n

(* A percentage of a gain's range, computed in an int.                     *)
Scaled(perc, top) == Clamp(Quotient(Times(perc, top), 100), top)

(* The requests of a command.                                              *)
Requests(c) ==
    LET arg == c.argument
        perc == remap_rtl_gain_to_perc(arg)
    IN CASE c.command = "TCP_SET_FREQ" -> setFrequency(arg)
         [] c.command = "TCP_SET_SAMPLE_RATE" ->
              setSampleRate(arg) \o
              setBasebandFilterBandwidth(computeBasebandFilterBandwidth(Quotient(3 * arg, 4)))
         [] c.command = "TCP_SET_IF_TUNER_GAIN" -> setRxLNAGain(Scaled(perc, 40))
         [] c.command = "TCP_SET_GAIN" -> setRxVGAGain(Scaled(perc, 62))
         [] c.command \in {"TCP_SET_AGC_MODE", "TCP_SET_GAIN_MODE"} ->
              setRxVGAGain(32) \o setRxLNAGain(30)
         [] c.command = "TCP_ANDROID_GAIN_BY_PERCENTAGE" ->
              setRxLNAGain(Scaled(arg, 40)) \o setRxVGAGain(Scaled(arg, 62))
         [] OTHER -> <<>>

(* initDevice, with the arguments of the session.                          *)
InitRequests ==
    Requests([command |-> "TCP_SET_SAMPLE_RATE", argument |-> 2048000]) \o
    Requests([command |-> "TCP_SET_FREQ", argument |-> 91800000]) \o
    Requests([command |-> "TCP_SET_GAIN_MODE", argument |-> 1])

Init ==
    /\ DriverInit
    /\ srv = "open" /\ cmd = "none" /\ closer = "none"
    /\ todo = [t \in {"srv", "cmd"} |-> <<>>]
    /\ tcp = FALSE /\ canceled = FALSE
    /\ socket = "unbound" /\ conn = "none" /\ client = "away"
    /\ interrupted = {} /\ error = FALSE
    /\ held = NoBuffer /\ got = 0 /\ commands = 0
    /\ announced = <<>>

---------------------------------------------------------------------------
(* The session is over, after all of the catch or not.                     *)
Over == {"done", "thrown"}

(* The thread of the session.                                              *)

SrvOnly(from, to) ==
    /\ srv = from
    /\ srv' = to
    /\ UNCHANGED <<driverVars, cmd, closer, todo, commands>>

(* initHackrf and the constructor: no permission, a device that is gone,   *)
(* or a queue of size 0: onHackrfError, or the catch of openAsync.         *)
OpenFails == /\ SrvOnly("open", "done")
             /\ announced' = Append(announced, "closed")
             /\ UNCHANGED <<tcp, canceled, socket, conn, client, interrupted,
                            error, stream>>

(* onHackrfReady: from now on close() finds a server to cancel.            *)
OnHackrfReady ==
    /\ srv = "open"
    /\ tcp' = TRUE
    /\ todo' = [todo EXCEPT !["srv"] = InitRequests]
    /\ srv' = "init"
    /\ UNCHANGED <<driverVars, cmd, closer, commands, canceled, socket,
                   conn, client, interrupted, error, announced, stream>>

(* initDevice, one request at a time.                                      *)
InitDevice ==
    /\ srv = "init"
    /\ todo["srv"] # <<>>
    /\ \E works \in BOOLEAN :
         /\ sendUsbRequest(works)
         /\ todo' = [todo EXCEPT !["srv"] = IF works THEN Tail(@) ELSE <<>>]
         /\ srv' = IF works THEN "init" ELSE "catch"
    /\ UNCHANGED <<mode, radio, queue, pool, flight, hand, sent, rx,
                   cmd, closer, commands, session, stream>>

(* prepareToAcceptConnections: a socket that close() has closed, or an     *)
(* address that is in use, cannot be bound.                                *)
Bind ==
    /\ todo["srv"] = <<>>
    /\ \/ /\ socket = "unbound"
          /\ SrvOnly("init", "bound")
          /\ socket' = "bound"
       \/ /\ SrvOnly("init", "catch")
          /\ socket' = socket
    /\ UNCHANGED <<tcp, canceled, conn, client, interrupted, error,
                   announced, stream>>

(* onOpen may throw, and ends the session before it has begun.             *)
AnnounceOnOpen ==
    /\ \/ SrvOnly("bound", "accept") \/ SrvOnly("bound", "catch")
    /\ announced' = Append(announced, "open")
    /\ UNCHANGED <<tcp, canceled, socket, conn, client, interrupted,
                   error, stream>>

(* accept: a client, or an exception after the time limit or because the   *)
(* socket is closed.  An interrupt does not end it.                        *)
Accept ==
    \/ /\ client = "connected" /\ socket = "bound"
       /\ SrvOnly("accept", "startCommand")
       /\ conn' = "open"
       /\ UNCHANGED <<tcp, canceled, socket, client, interrupted, error,
                      announced, stream>>
    \/ /\ client # "connected" \/ socket = "closed"
       /\ SrvOnly("accept", "failFinally")
       /\ UNCHANGED <<session, stream>>

(* command.start()                                                         *)
StartCommand ==
    /\ srv = "startCommand"
    /\ srv' = "startRX"
    /\ cmd' = "read"
    /\ UNCHANGED <<driverVars, closer, todo, commands, session, stream>>

(* startRX: clear the queue, set the mode, send the request, start the usb *)
(* thread.                                                                 *)
StartRX ==
    /\ srv = "startRX"
    /\ queue' = <<>>
    /\ mode' = "receive"
    /\ srv' = "startRequest"
    /\ UNCHANGED <<radio, pool, flight, killed, hand, sent, faults, rx,
                   cmd, closer, todo, commands, session, stream>>

StartRequest ==
    /\ srv = "startRequest"
    /\ \E works \in BOOLEAN :
         /\ SendTransceiverMode("receive", works)
         /\ srv' = IF works THEN "info" ELSE "failFinally"
         /\ rx' = IF works THEN "start" ELSE rx
    /\ UNCHANGED <<mode, queue, pool, flight, hand, sent,
                   cmd, closer, todo, commands, session, stream>>

(* The condition of the loop; a thread that has ended is not interrupted.  *)
(* Mutant: the flag is not read.                                           *)
LoopEndsInterrupted == "srv" \in interrupted \/ ("cmd" \in interrupted /\ cmd # "done")

LoopEnds == "srv" \in interrupted \/ ("cmd" \in interrupted /\ cmd # "done") \/ canceled

Loop == IF LoopEnds THEN "afterLoop" ELSE "poll"

(* A write ends when the client reads, and throws when it has left.        *)
SendDongleInfo ==
    /\ SrvOnly("info", IF client = "connected" THEN Loop ELSE "failFinally")
    /\ UNCHANGED <<session, stream>>

(* rxqueue.poll for a second.                                              *)
Poll ==
    /\ srv = "poll"
    /\ \/ /\ queue # <<>>
          /\ held' = Head(queue) /\ queue' = Tail(queue)
          /\ srv' = "write"
          /\ interrupted' = interrupted
       \/ /\ queue = <<>> /\ "srv" \notin interrupted
          /\ srv' = Loop
          /\ UNCHANGED <<queue, held, interrupted>>
       \/ /\ "srv" \in interrupted
          /\ interrupted' = interrupted \ {"srv"}
          /\ srv' = "afterLoop"
          /\ UNCHANGED <<queue, held>>
    /\ UNCHANGED <<mode, radio, pool, flight, killed, hand, sent, faults,
                   rx, cmd, closer, todo, commands, got, tcp, canceled,
                   socket, conn, client, error, announced>>

(* Mutant: the samples stay signed.                                        *)
WriteSigned ==
    /\ srv = "write"
    /\ \/ /\ client = "connected"
          /\ got' = IF held.data = 0 THEN got ELSE held.data
          /\ srv' = "return" /\ held' = held
       \/ /\ client = "left"
          /\ got' = got
          /\ srv' = "failFinally" /\ held' = NoBuffer
    /\ UNCHANGED <<mode, radio, queue, pool, flight, killed, hand, sent, faults, rx,
                   cmd, closer, todo, commands, session>>

(* Make the samples unsigned and write them.                               *)
Write ==
    /\ srv = "write"
    /\ \/ /\ client = "connected"
          /\ got' = IF held.data = 0 THEN got ELSE -held.data
          /\ srv' = "return" /\ held' = held
       \/ /\ client = "left"
          /\ got' = got
          /\ srv' = "failFinally" /\ held' = NoBuffer
    /\ UNCHANGED <<mode, radio, queue, pool, flight, killed, hand, sent, faults, rx,
                   cmd, closer, todo, commands, session>>

ReturnBuffer ==
    /\ srv = "return"
    /\ returnBufferToBufferPool(held)
    /\ held' = NoBuffer
    /\ srv' = Loop
    /\ UNCHANGED <<mode, radio, queue, flight, killed, hand, sent, faults, rx,
                   cmd, closer, todo, commands, got, session>>

(* The exception of the listener is looked at when the loop has ended.     *)
AfterLoop ==
    /\ SrvOnly("afterLoop", IF error THEN "failFinally" ELSE "finally")
    /\ UNCHANGED <<session, stream>>

(* Mutant: the connection is still open when the listener is joined.       *)
FinallyKeepsOpen ==
    /\ \/ SrvOnly("finally", "join") \/ SrvOnly("failFinally", "failJoin")
    /\ interrupted' = IF cmd \in {"none", "done"} THEN interrupted
                      ELSE interrupted \cup {"cmd"}
    /\ socket' = "closed"
    /\ UNCHANGED <<tcp, canceled, conn, client, error, announced, stream>>

(* finally: interrupt the listener, close connection and socket, ...       *)
Finally ==
    /\ \/ SrvOnly("finally", "join") \/ SrvOnly("failFinally", "failJoin")
    /\ interrupted' = IF cmd \in {"none", "done"} THEN interrupted
                      ELSE interrupted \cup {"cmd"}
    /\ conn' = IF conn = "open" THEN "closed" ELSE conn
    /\ socket' = "closed"
    /\ UNCHANGED <<tcp, canceled, client, error, announced, stream>>

(* ... join the listener, unless this thread is interrupted itself.        *)
Join ==
    /\ \/ SrvOnly("join", "stop") \/ SrvOnly("failJoin", "catch")
    /\ \/ cmd \in {"none", "done"} /\ interrupted' = interrupted
       \/ /\ cmd \notin {"none", "done"}
          /\ "srv" \in interrupted
          /\ interrupted' = interrupted \ {"srv"}
    /\ UNCHANGED <<tcp, canceled, socket, conn, client, error, announced,
                   stream>>

(* stop() of the driver, then announceOnClosed(null).                      *)
Stop(from, to) ==
    /\ srv = from
    /\ mode' = "off"
    /\ srv' = to
    /\ UNCHANGED <<radio, buffers, faults, rx, cmd, closer, todo, commands, session,
                   stream>>

StopRequest(from, done, failed) ==
    /\ srv = from
    /\ \E works \in BOOLEAN :
         /\ SendTransceiverMode("off", works)
         /\ srv' = IF works THEN done ELSE failed
    /\ UNCHANGED <<mode, queue, pool, flight, hand, sent, rx,
                   cmd, closer, todo, commands, session, stream>>

(* announceOnClosed takes the listener out of its list and tells it, so    *)
(* that a second call tells nobody.  onClosed may throw.                   *)
Listening == "closed" \notin Range(announced)

AnnounceOnClosed(from, to, thrown) ==
    /\ \/ SrvOnly(from, to)
       \/ Listening /\ SrvOnly(from, thrown)
    /\ announced' = IF Listening THEN Append(announced, "closed") ELSE announced
    /\ UNCHANGED <<tcp, canceled, socket, conn, client, interrupted,
                   error, stream>>

StopNormally == \/ Stop("stop", "stopRequest")
                \/ StopRequest("stopRequest", "announce", "catch")
                \/ AnnounceOnClosed("announce", "done", "catch")

(* Mutant: the radio is left as it is.                                     *)
CatchAnnounces == AnnounceOnClosed("catch", "done", "thrown")

(* The catch of onHackrfReady tells the listeners before it stops.  What   *)
(* they throw then skips the stop: openAsync catches it and tells who is   *)
(* left; in the main thread it ends the process, which is not modelled.    *)
Catch == \/ AnnounceOnClosed("catch", "catchStop", "thrown")
         \/ Stop("catchStop", "catchRequest")
         \/ StopRequest("catchRequest", "done", "done")

SessionThread ==
    \/ OpenFails \/ OnHackrfReady \/ InitDevice \/ Bind \/ AnnounceOnOpen
    \/ Accept \/ StartCommand \/ StartRX \/ StartRequest \/ SendDongleInfo
    \/ Poll \/ Write \/ ReturnBuffer \/ AfterLoop \/ Finally \/ Join
    \/ StopNormally \/ Catch

---------------------------------------------------------------------------
(* The listener for commands.                                              *)

CmdOnly == UNCHANGED <<mode, radio, queue, pool, flight, hand, sent,
                       rx, srv, closer, tcp, socket, conn, client,
                       announced, stream>>

(* while (!isInterrupted()), after each command.                           *)
NextRead == IF "cmd" \in interrupted' THEN "done" ELSE "read"

(* A command arrives; those that a client sent before it left do too.      *)
ReadCommand ==
    /\ cmd = "read"
    /\ conn = "open"
    /\ commands < MaxCommands
    /\ commands' = commands + 1
    /\ \E c \in Commands :
         LET exit == c.command = "TCP_ANDROID_EXIT" IN
         /\ todo' = [todo EXCEPT !["cmd"] = Requests(c)]
         /\ canceled' = (canceled \/ exit)
         /\ interrupted' = IF exit THEN interrupted \cup {"cmd"} ELSE interrupted
         /\ cmd' = IF Requests(c) = <<>> THEN NextRead ELSE "execute"
    /\ UNCHANGED <<killed, faults, error>>
    /\ CmdOnly

(* Reading fails when either end has closed the connection; an interrupt   *)
(* does not end it.                                                        *)
ReadFails ==
    /\ cmd = "read"
    /\ conn = "closed" \/ client = "left"
    /\ error' = TRUE
    /\ cmd' = "done"
    /\ UNCHANGED <<killed, faults, todo, commands, canceled, interrupted>>
    /\ CmdOnly

(* executeCommand: a request that fails ends the listener.                 *)
ExecuteCommand ==
    /\ cmd = "execute"
    /\ \E works \in BOOLEAN :
         /\ sendUsbRequest(works)
         /\ todo' = [todo EXCEPT !["cmd"] = IF works THEN Tail(@) ELSE <<>>]
         /\ error' = (error \/ ~works)
         /\ interrupted' = interrupted
         /\ cmd' = IF ~works THEN "done"
                   ELSE IF todo'["cmd"] = <<>> THEN NextRead ELSE "execute"
    /\ UNCHANGED <<commands, canceled>>
    /\ CmdOnly

CommandThread ==
    ReadCommand \/ ReadFails \/ ExecuteCommand

---------------------------------------------------------------------------
(* close() of the device.                                                  *)

CloseOnly(from, to) ==
    /\ closer = from
    /\ closer' = to
    /\ UNCHANGED <<driverVars, srv, cmd, todo, commands, tcp, conn, client,
                   error, announced, stream>>

(* processingThread # null: the thread of openAsync sets it to null at its *)
(* end.                                                                    *)
ThreadKnown == srv \notin Over

CloseTcp == /\ CloseOnly("none", "check")
            /\ canceled' = (canceled \/ tcp)
            /\ socket' = IF tcp THEN "closed" ELSE socket
            /\ interrupted' = interrupted

(* A session in the main thread is not one of a thread that close() knows. *)
CheckThread ==
    /\ \/ ThreadKnown /\ CloseOnly("check", "interrupt")
       \/ CloseOnly("check", "returned")
    /\ UNCHANGED <<canceled, socket, interrupted>>

(* The field is read again, and may have become null.                      *)
InterruptThread ==
    /\ CloseOnly("interrupt", IF ThreadKnown THEN "join" ELSE "nullPointer")
    /\ interrupted' = IF ThreadKnown THEN interrupted \cup {"srv"} ELSE interrupted
    /\ UNCHANGED <<canceled, socket>>

JoinThread == /\ srv \in Over
              /\ CloseOnly("join", "returned")
              /\ UNCHANGED <<canceled, socket, interrupted>>

Close == CheckThread \/ InterruptThread \/ JoinThread

---------------------------------------------------------------------------
(* The client.                                                             *)

ClientMoves(from, to) ==
    /\ client = from
    /\ client' = to
    /\ UNCHANGED <<driverVars, srv, cmd, closer, todo, commands, tcp,
                   canceled, socket, conn, interrupted, error, announced, stream>>

Connect == socket = "bound" /\ ClientMoves("away", "connected")
Leave == conn # "closed" /\ ClientMoves("connected", "left")

ReceiveThread ==
    receiveLoop(held) /\ UNCHANGED <<srv, cmd, closer, todo, commands, session, stream>>

Next ==
    \/ SessionThread
    \/ CommandThread
    \/ ReceiveThread
    \/ CloseTcp \/ Close
    \/ Connect \/ Leave

(* Every thread goes on when it can.  The client reads or leaves; the      *)
(* radio sends for as long as it receives, and owes nothing afterwards.    *)
Fairness ==
    /\ WF_vars(SessionThread)
    /\ WF_vars(CommandThread)
    /\ WF_vars(Close)
    /\ WF_vars((rx = "wait" /\ radio = "off" => killed > 0) /\ ReceiveThread)

Spec == Init /\ [][Next]_vars /\ Fairness

---------------------------------------------------------------------------

TypeOK ==
    /\ mode \in {"off", "receive"}
    /\ radio \in {"off", "receive", "stuck"}
    /\ queue \in Seq([array : Buffers, data : 0 .. MaxPackets]) /\ Len(queue) <= QueueSize
    /\ pool \in Seq(Buffers) /\ Len(pool) <= QueueSize
    /\ flight \in Seq(Buffers) /\ Len(flight) <= NumRequests
    /\ killed \in 0 .. Len(flight)
    /\ got \in -MaxPackets .. MaxPackets
    /\ {hand, held} \subseteq
         {NoBuffer} \cup [array : Buffers, data : 0 .. MaxPackets]
    /\ sent \in 0 .. MaxPackets /\ faults \in 0 .. MaxFaults
    /\ interrupted \subseteq {"srv", "cmd"}
    /\ commands \in 0 .. MaxCommands
    /\ socket \in {"unbound", "bound", "closed"}
    /\ conn \in {"none", "open", "closed"}
    /\ client \in {"away", "connected", "left"}

(* No buffer is in two places: in flight, queued, pooled, or in the hands  *)
(* of one of the threads (Offer, Refill, Poll, ReturnBuffer).              *)
NoAlias ==
    LET ArrayOf(buffer) == IF buffer = NoBuffer THEN <<>> ELSE <<buffer.array>>
        all == [i \in DOMAIN queue |-> queue[i].array] \o pool \o flight
                 \o ArrayOf(hand) \o ArrayOf(held)
    IN IsInjective(all)

(* The client reads each packet once, unsigned and in the order in which   *)
(* the radio sent it, whatever is dropped and killed in between: what is   *)
(* on its way to the client is later than what the client has read.        *)
SamplesInOrder ==
    LET way == <<held>> \o queue \o <<hand>>
    IN /\ got <= 0
       /\ \A i \in {i \in DOMAIN way : way[i].data # 0} :
            /\ way[i].data > -got \/ (i = 1 /\ srv = "return")
            /\ \A k \in 1 .. i - 1 : way[i].data > way[k].data

(* Whatever argument a client sends, the gains that are requested are      *)
(* steps of the LNA and of the VGA, and the filter is one the radio has.   *)
(* The rate and the frequency are passed on as they come, and nothing is   *)
(* said of them.                                                           *)
GainsAndFilterInRange ==
    \A r \in UNION {Range(q) : q \in {Requests(c) : c \in Probed} \cup Range(todo)} :
       /\ r.request = "lna" => r.value \in 0 .. 40 /\ r.value % 8 = 0
       /\ r.request = "vga" => r.value \in 0 .. 62 /\ r.value % 2 = 0
       /\ r.request = "bandwidth" => r.value \in Range(supportedBandwidthValues)

(* A listener hears of the end of a session once, and of its beginning at  *)
(* most once and before, on each of the paths of onHackrfReady, those on   *)
(* which it throws included.                                               *)
AnnouncedOnce ==
    /\ announced \in {<<>>, <<"open">>, <<"closed">>, <<"open", "closed">>}
    /\ srv \in Over => Last(announced) = "closed"

(* When the session has come to its end the radio has been told to stop,   *)
(* by the session or by the usb thread, unless that very request failed or *)
(* a listener threw in the catch: see RadioStopped.                        *)
RadioLeftOff == srv = "done" => radio # "receive"

(* What the code does not keep: a listener that throws in the catch keeps  *)
(* the radio from being told (line 86 for line 90).  Not run.              *)
RadioStopped == srv \in Over => radio # "receive"

(* close() comes back: the thread that it joins leaves whichever wait it   *)
(* is in, even if close() came before there was a server to cancel.        *)
CloseReturns == (closer # "none") ~> (closer \in {"returned", "nullPointer"})

(* After a close() that found a server, or a TCP_ANDROID_EXIT, the         *)
(* listeners are told that the session is over.                            *)
ClosedAnnounced == canceled ~> (Last(<<"open">> \o announced) = "closed")

(* The usb thread "will return as soon as the transceiverMode changes":    *)
(* requestWait has no time limit, but the request that stops the radio     *)
(* kills, with the interface, those that the thread waits for.             *)
ReceiveLoopReturns ==
    (rx # "none" /\ mode = "off" /\ radio = "off") ~> (rx = "done")

(* The samples that the client reads are those that the radio sent, once   *)
(* and in order, and no two owners share the buffer that they are in.      *)
BuffersInOrder == TypeOK /\ NoAlias /\ SamplesInOrder

(* On each of its paths a session ends once for its listener, and with the *)
(* radio told to stop where no listener threw in the catch (onHackrfReady).*)
SessionEnds == AnnouncedOnce /\ RadioLeftOff

(* The session, its listener, the usb thread and whoever calls close()     *)
(* join, interrupt and stop one another, and all of them leave.            *)
ThreadsLeave == CloseReturns /\ ClosedAnnounced /\ ReceiveLoopReturns
=============================================================================
