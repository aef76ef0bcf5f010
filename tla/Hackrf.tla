------------------------------- MODULE Hackrf -------------------------------
(***************************************************************************)
(* The HackRF driver, Hackrf.java: the control requests that set the radio *)
(* up, the queue of received buffers, the pool of used ones, and the usb   *)
(* thread (receiveLoop) that moves buffers between the USB requests in     *)
(* flight, the queue and the pool.                                         *)
(*                                                                         *)
(* A buffer with samples is an array and its data: 0 (nothing new), n (the *)
(* n-th packet of the radio, in its signed samples) or -n (the same packet *)
(* made unsigned).  In the pool and in a request only the array counts.    *)
(***************************************************************************)
EXTENDS Integers, SequencesExt

CONSTANTS NumRequests,  \* numUsbRequests
          QueueSize,    \* the capacity of queue and of bufferPool
          MaxPackets,   \* bound: packets that the radio sends
          MaxFaults     \* bound: USB calls that fail

ASSUME HackrfAssumption ==
    /\ NumRequests \in Nat \ {0}
    /\ QueueSize \in Nat \ {0}
    /\ MaxPackets \in Nat
    /\ MaxFaults \in Nat

(* Every buffer in use at once: in flight, queued, pooled, and one in the  *)
(* hands of either thread.                                                 *)
Buffers == 1 .. NumRequests + 2 * QueueSize + 2
Buffer(b, d) == [array |-> b, data |-> d]
NoBuffer == Buffer(0, 0)

VARIABLES
    mode,     \* transceiverMode: "off" or "receive"
    radio,    \* what the radio does: "off", "receive", or "stuck" when it did
              \* not hear that it should stop
    queue,    \* queue
    pool,     \* bufferPool
    flight,   \* the buffers of the USB requests in flight, the next to
              \* complete first
    killed,   \* how many of them come back without samples
    hand,     \* the buffer that the usb thread took from a request
    sent,     \* the packets that the radio has sent
    faults,   \* the USB calls that have failed
    rx        \* where the usb thread is

buffers == <<queue, pool, flight, killed, hand, sent>>
driverVars == <<mode, radio, queue, pool, flight, killed, hand, sent,
                faults, rx>>

---------------------------------------------------------------------------
(* The control requests: the values that the setters put into them.        *)

(* a * b in an int, for 0 <= b < 2^15: by the halves of a, since TLC's own  *)
(* integers are as wide.                                                   *)
Times(a, b) ==
    LET low == (a % 65536) * b
        high == ((a \div 65536) * b + low \div 65536) % 65536
    IN (IF high >= 32768 THEN high - 65536 ELSE high) * 65536 + (low % 65536)

(* Java's division rounds towards 0.                                       *)
Quotient(a, b) == IF a < 0 THEN -((-a) \div b) ELSE a \div b

supportedBandwidthValues ==
    <<1750000, 2500000, 3500000, 5000000, 5500000, 6000000, 7000000, 8000000,
      9000000, 10000000, 12000000, 14000000, 15000000, 20000000, 24000000,
      28000000>>

computeBasebandFilterBandwidth(sampRate) ==
    LET fits == {i \in DOMAIN supportedBandwidthValues :
                    supportedBandwidthValues[i] <= sampRate}
    IN supportedBandwidthValues[IF fits = {} THEN 1 ELSE Max(fits)]

Request(name, value) == [request |-> name, value |-> value]

(* What a setter sends: the LNA's gain in steps of 8 and the VGA's in      *)
(* steps of 2; beyond the last step it sends nothing.                      *)
setRxLNAGain(gain) ==
    IF gain > 40 THEN <<>> ELSE <<Request("lna", gain - (gain % 8))>>
setRxVGAGain(gain) ==
    IF gain > 62 THEN <<>> ELSE <<Request("vga", gain - (gain % 2))>>
setSampleRate(rate) == <<Request("rate", rate)>>
setBasebandFilterBandwidth(bandwidth) == <<Request("bandwidth", bandwidth)>>
(* The megahertz and the hertz below them, one word each.                  *)
setFrequency(frequency) ==
    <<Request("freq", <<frequency \div 1000000, frequency % 1000000>>)>>

(* Mutant: the interface stays claimed.                                    *)
SendUsbRequestKeeps(works) ==
    /\ faults' = faults + (IF works THEN 0 ELSE 1)
    /\ faults' <= MaxFaults
    /\ killed' = killed

(* sendUsbRequest: claim the interface, transfer, release it.  Releasing   *)
(* an interface kills the requests that another thread has in flight; they *)
(* complete without new samples.                                           *)
sendUsbRequest(works) ==
    \/ works /\ killed' = Len(flight) /\ faults' = faults
    \/ /\ ~works
       /\ faults < MaxFaults
       /\ faults' = faults + 1
       /\ killed' = killed

(* The second half of setTransceiverMode, whose first half sets the mode.  *)
SendTransceiverMode(to, works) ==
    /\ sendUsbRequest(works)
    /\ radio' = IF works THEN to
                ELSE IF to = "off" /\ radio = "receive" THEN "stuck" ELSE radio

---------------------------------------------------------------------------
(* Buffers.                                                                *)

(* A new array when the pool is empty: a buffer that nobody refers to.     *)
(* held is the buffer in the hands of the reader of the queue.             *)
Arrays(s) == {s[i].array : i \in DOMAIN s}

Garbage(held) ==
    Buffers \ (Arrays(queue \o <<hand, held>>) \cup Range(pool \o flight))

IsNew(b, held) ==
    b \in Garbage(held) /\ \A other \in Garbage(held) : b <= other

(* Mutant: peek for poll.                                                  *)
GetBufferPeeks(b, held) ==
    /\ IF pool = <<>> THEN IsNew(b, held) ELSE b = Head(pool)
    /\ pool' = pool

getBufferFromBufferPool(b, held) ==
    IF pool = <<>> THEN IsNew(b, held) /\ pool' = pool
                   ELSE b = Head(pool) /\ pool' = Tail(pool)

(* Mutant: add for offer.                                                  *)
ReturnBufferAdds(b) == pool' = Append(pool, b.array)

(* returnBufferToBufferPool: a full pool does not take the buffer.         *)
returnBufferToBufferPool(b) ==
    pool' = IF Len(pool) < QueueSize THEN Append(pool, b.array) ELSE pool

---------------------------------------------------------------------------
(* The usb thread.                                                         *)

UsbCallFails == faults < MaxFaults /\ faults' = faults + 1

(* run: with any other mode the thread has nothing to do.                  *)
Run == /\ rx = "start"
       /\ rx' = IF mode = "receive" THEN "fill" ELSE "done"
       /\ UNCHANGED <<mode, radio, buffers, faults>>

(* A request gets a buffer and is queued.                                  *)
QueueRequest(from, to, failed, held) ==
    /\ rx = from
    /\ \E b \in Buffers :
         /\ getBufferFromBufferPool(b, held)
         /\ \/ flight' = Append(flight, b) /\ faults' = faults /\ rx' = to
            \/ flight' = flight /\ UsbCallFails /\ rx' = failed
    /\ UNCHANGED <<mode, radio, queue, killed, hand, sent>>

(* The first requests; when one cannot be queued the radio is stopped.     *)
FillRequests(held) ==
    QueueRequest("fill", IF Len(flight) + 1 < NumRequests THEN "fill" ELSE "loop",
                 "giveUp", held)

(* stop(), called by this thread at two places: the mode, then the request.*)
RxStop(from, to) ==
    /\ rx = from
    /\ mode' = "off"
    /\ rx' = to
    /\ UNCHANGED <<radio, buffers, faults>>

RxStopRequest(from, done, failed) ==
    /\ rx = from
    /\ \E works \in BOOLEAN :
         /\ SendTransceiverMode("off", works)
         /\ rx' = IF works THEN done ELSE failed
    /\ UNCHANGED <<mode, queue, pool, flight, hand, sent>>

GiveUp == RxStop("giveUp", "giveUpRequest")
GiveUpRequest == RxStopRequest("giveUpRequest", "loop", "cancel")

(* The loop runs as long as the mode is RECEIVE.                           *)
TestMode == /\ rx = "loop"
            /\ rx' = IF mode = "receive" THEN "wait" ELSE "cancel"
            /\ UNCHANGED <<mode, radio, buffers, faults>>

(* requestWait, which has no time limit: the oldest request, with the next *)
(* packet, or without one if it was killed; or null.                       *)
Deliver(data) == /\ hand' = Buffer(Head(flight), data)
                 /\ flight' = Tail(flight)
                 /\ rx' = "offer"
                 /\ UNCHANGED <<mode, radio, queue, pool, faults>>

(* The radio fills a request, after it was stopped too if it fancies to.   *)
RequestWait == /\ rx = "wait"
               /\ flight # <<>> /\ killed = 0
               /\ sent < MaxPackets
               /\ sent' = sent + 1
               /\ killed' = killed
               /\ Deliver(sent')

RequestWaitKilled == /\ rx = "wait"
                     /\ killed > 0
                     /\ killed' = killed - 1
                     /\ sent' = sent
                     /\ Deliver(0)

RequestWaitFails == /\ rx = "wait"
                    /\ UsbCallFails
                    /\ rx' = "cancel"
                    /\ UNCHANGED <<mode, radio, buffers>>

(* queue.offer: a packet that a full queue does not take is dropped.       *)
Offer == /\ rx = "offer"
         /\ queue' = IF Len(queue) < QueueSize THEN Append(queue, hand) ELSE queue
         /\ hand' = NoBuffer
         /\ rx' = "refill"
         /\ UNCHANGED <<mode, radio, pool, flight, killed, sent, faults>>

Refill(held) == QueueRequest("refill", "loop", "cancel", held)

(* Cancel every request, then stop the radio if nobody else did.           *)
CancelRequests ==
    /\ rx = "cancel"
    /\ flight' = <<>> /\ killed' = 0
    /\ rx' = IF mode = "receive" THEN "lastStop" ELSE "done"
    /\ UNCHANGED <<mode, radio, queue, pool, hand, sent, faults>>

LastStop == RxStop("lastStop", "lastRequest")
LastRequest == RxStopRequest("lastRequest", "done", "done")

receiveLoop(held) ==
    \/ Run \/ FillRequests(held) \/ GiveUp \/ GiveUpRequest
    \/ TestMode \/ RequestWait \/ RequestWaitKilled \/ RequestWaitFails
    \/ Offer \/ Refill(held) \/ CancelRequests \/ LastStop \/ LastRequest

DriverInit ==
    /\ mode = "off" /\ radio = "off" /\ rx = "none"
    /\ queue = <<>> /\ pool = <<>> /\ flight = <<>>
    /\ killed = 0 /\ hand = NoBuffer /\ sent = 0 /\ faults = 0
=============================================================================
