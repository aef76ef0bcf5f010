------------------------------ MODULE WorkPool ------------------------------
(***************************************************************************)
(* The work pool of rtlsdr/src/main/cpp/src/workpool.c: a ring of max_ids  *)
(* queues (queue.c), each with a mutex and a condition variable, through   *)
(* which at most max_elements buffers (extbuffer.c) circulate.  A thread   *)
(* of stage i obtains a buffer from queue i, works on it and passes it to  *)
(* queue i+1; the last stage recycles it to queue 0.  Buffers are created  *)
(* on demand by stage 0.                                                   *)
(*                                                                         *)
(* A step is one critical section of a queue mutex, or one access to       *)
(* pool->elements, which no mutex protects.                                *)
(***************************************************************************)
EXTENDS Naturals, Sequences, FiniteSets

CONSTANTS MaxIds,      \* pool->max_ids; sdrtcp.c:259 uses 2
          MaxElements, \* pool->max_elements; POOL_MAX_ELEMENTS in sdrtcp.c:34
          Buffers,     \* addresses malloc may return for an extbuffer_t
          NoBuffer,    \* NULL
          Threads,     \* the threads that call the pool
          stage,       \* the id each thread passes to the pool
          MaxItems     \* bound: items stage 0 queues while the pool is open

Ids == 0 .. MaxIds - 1
Last == MaxIds - 1

ASSUME PoolAssumption ==
    /\ MaxIds \in Nat /\ MaxIds >= 2
    /\ MaxElements \in Nat \ {0}
    /\ NoBuffer \notin Buffers
    /\ stage \in [Threads -> Ids]
    /\ MaxItems \in Nat

(* How sdrtcp.c uses the pool: open_socket and feed share stage 0 under    *)
(* state_locker, the server thread is stage 1.                             *)
OneThreadPerId == \A s, t \in Threads : stage[s] = stage[t] => s = t

VARIABLES
    valid,     \* pool->valid
    elements,  \* pool->elements
    queues,    \* pool->queues: id -> sequence of buffers
    load,      \* buffer -> number of the item it carries, 0 for none
    pc,        \* thread -> where it is in pool_get_wait_lock
    hold,      \* thread -> the buffer it obtained
    seen,      \* thread -> the value of pool->elements it tested
    got,       \* id -> number of the last item that left queue id
    put        \* id -> number of the last item stage id passed on

poolVars == <<valid, elements, queues, load, pc, hold, seen, got, put>>

TypeOK ==
    /\ valid \in BOOLEAN
    /\ elements \in Nat
    /\ queues \in [Ids -> Seq(Buffers)]
    /\ load \in [Buffers -> Nat]
    /\ pc \in [Threads -> {"idle", "grow", "pop", "wait", "hold"}]
    /\ hold \in [Threads -> Buffers \cup {NoBuffer}]
    /\ seen \in [Threads -> Nat]
    /\ got \in [Ids -> Nat]
    /\ put \in [Ids -> Nat]

Init ==
    /\ valid = TRUE
    /\ elements = 0
    /\ queues = [i \in Ids |-> <<>>]
    /\ load = [b \in Buffers |-> 0]
    /\ pc = [t \in Threads |-> "idle"]
    /\ hold = [t \in Threads |-> NoBuffer]
    /\ seen = [t \in Threads |-> 0]
    /\ got = [i \in Ids |-> 0]
    /\ put = [i \in Ids |-> 0]
-----------------------------------------------------------------------------
Queued(b) == \E i \in Ids : \E k \in 1 .. Len(queues[i]) : queues[i][k] = b
Held(b) == \E t \in Threads : hold[t] = b
Live == {b \in Buffers : Queued(b) \/ Held(b)}

Goto(t, l) == pc' = [pc EXCEPT ![t] = l]

(* queue_add and the unlinking half of queue_pop; the mutants add at the   *)
(* wrong end and leave the element linked.                                 *)
EnqueueFront(q, b) == <<b>> \o q
Enqueue(q, b) == Append(q, b)
DequeueLinked(q) == q
Dequeue(q) == Tail(q)

(* queue_pop on a queue that is not empty.                                 *)
Obtain(t) ==
    LET i == stage[t] IN
    /\ queues[i] # <<>>
    /\ hold' = [hold EXCEPT ![t] = Head(queues[i])]
    /\ queues' = [queues EXCEPT ![i] = Dequeue(@)]
    /\ got' = [got EXCEPT ![i] = load[Head(queues[i])]]
    /\ Goto(t, "hold")
    /\ UNCHANGED <<valid, elements, load, seen, put>>

Move(t, l) == Goto(t, l) /\ UNCHANGED <<valid, elements, queues, load, hold,
                                        seen, got, put>>

(* The first stage may create a buffer; the mutant creates one too many.   *)
MayGrowOver(t) == stage[t] = 0 /\ elements <= MaxElements
MayGrow(t) == stage[t] = 0 /\ elements < MaxElements

(* pool_get_wait_lock: the pop that does not block and, when it finds      *)
(* nothing, the test of pool->elements.                                    *)
Get(t) ==
    /\ pc[t] = "idle" /\ valid
    /\ \/ Obtain(t)
       \/ /\ queues[stage[t]] = <<>>
          /\ MayGrow(t)
          /\ seen' = [seen EXCEPT ![t] = elements]
          /\ Goto(t, "grow")
          /\ UNCHANGED <<valid, elements, queues, load, hold, got, put>>
       \/ /\ queues[stage[t]] = <<>>
          /\ ~MayGrow(t)
          /\ Move(t, "pop")

(* A new buffer, then pool->elements++ without a lock: the increment may   *)
(* read the counter again or use the value the test loaded.                *)
Grow(t) ==
    /\ pc[t] = "grow"
    /\ \E b \in Buffers \ Live :
        /\ hold' = [hold EXCEPT ![t] = b]
        /\ load' = [load EXCEPT ![b] = 0]
    /\ elements' \in {elements + 1, seen[t] + 1}
    /\ Goto(t, "hold")
    /\ UNCHANGED <<valid, queues, seen, got, put>>

(* The pop that blocks: it looks again before it waits, and once more      *)
(* after the wait, whether a broadcast or the timeout ended it.            *)
Pop(t) ==
    /\ pc[t] = "pop"
    /\ Obtain(t) \/ (queues[stage[t]] = <<>> /\ Move(t, "wait"))

(* The mutant sleeps on whatever happens.                                  *)
WakeLost(t) == pc[t] = "wait" /\ Move(t, "wait")

Wake(t) ==
    /\ pc[t] = "wait"
    /\ Obtain(t) \/ (queues[stage[t]] = <<>> /\ Move(t, "idle"))

(* The id a buffer goes to after stage i, and the item it then carries:    *)
(* stage 0 fills it with a new item, the last stage empties it.  The       *)
(* mutant wraps around at the wrong constant.                              *)
TargetWraps(i) == (i + 1) % MaxElements
Target(i) == IF i = Last THEN 0 ELSE i + 1
Item(i, b) == IF i = 0 THEN put[0] + 1 ELSE load[b]

PutUnlock(t) ==
    LET i == stage[t]
        b == hold[t] IN
    /\ pc[t] = "hold" /\ valid
    /\ i = 0 => put[0] < MaxItems
    /\ queues' = [queues EXCEPT ![Target(i)] = Enqueue(@, b)]
    /\ load' = [load EXCEPT ![b] = IF i = Last THEN 0 ELSE Item(i, b)]
    /\ put' = [put EXCEPT ![i] = Item(i, b)]
    /\ hold' = [hold EXCEPT ![t] = NoBuffer]
    /\ Goto(t, "idle")
    /\ UNCHANGED <<valid, elements, seen, got>>

(* pool_get_unlock on a pool freed meanwhile: the buffer is leaked.        *)
PutInvalid(t) ==
    /\ pc[t] = "hold" /\ ~valid
    /\ hold' = [hold EXCEPT ![t] = NoBuffer]
    /\ Goto(t, "idle")
    /\ UNCHANGED <<valid, elements, queues, load, seen, got, put>>
-----------------------------------------------------------------------------
(* workpool.h:45 "non thread safe methods": no thread is inside the pool   *)
(* while it is freed, and none owns a buffer of it while it is set up.     *)
Outside == \A t \in Threads : pc[t] \in {"idle", "hold"}
Unused == \A t \in Threads : pc[t] = "idle"

(* The mutant leaves pool->queues dangling.                                *)
PoolFreeDangling ==
    /\ valid /\ Outside
    /\ valid' = FALSE
    /\ queues' = <<>>
    /\ UNCHANGED <<elements, load, pc, hold, seen, got, put>>

PoolFree ==
    /\ valid /\ Outside
    /\ valid' = FALSE
    /\ queues' = [i \in Ids |-> <<>>]
    /\ elements' = 0
    /\ UNCHANGED <<load, pc, hold, seen, got, put>>

(* pool_init followed by pool_set_threads.                                 *)
PoolSetThreads ==
    /\ ~valid /\ Unused
    /\ valid' = TRUE
    /\ queues' = [i \in Ids |-> <<>>]
    /\ elements' = 0
    /\ got' = [i \in Ids |-> 0]
    /\ put' = [i \in Ids |-> 0]
    /\ UNCHANGED <<load, pc, hold, seen>>

ThreadStep(t) == Get(t) \/ Grow(t) \/ Pop(t) \/ Wake(t) \/ PutUnlock(t)
                 \/ PutInvalid(t)

Next == PoolFree \/ PoolSetThreads \/ \E t \in Threads : ThreadStep(t)

Spec == Init /\ [][Next]_poolVars

(* A stage after the first keeps running: it neither stops nor blocks      *)
(* longer than the timed wait.  The first stage may stop feeding.          *)
FairSpec ==
    Spec /\ \A t \in Threads :
              (stage[t] # 0) => WF_poolVars(ThreadStep(t))
-----------------------------------------------------------------------------
(* A buffer is in one queue, or owned by one thread, never both: two       *)
(* threads never work on the same memory.                                  *)
NoAlias ==
    /\ \A i, j \in Ids : \A k \in 1 .. Len(queues[i]), l \in 1 .. Len(queues[j]) :
          queues[i][k] = queues[j][l] => i = j /\ k = l
    /\ \A t \in Threads, i \in Ids : \A k \in 1 .. Len(queues[i]) :
          hold[t] # queues[i][k]
    /\ \A s, t \in Threads : hold[s] = hold[t] /\ hold[s] # NoBuffer => s = t

(* While the pool is open, pool->elements counts the buffers in existence, *)
(* and there are never more than max_elements of them.                     *)
Conservation ==
    valid => /\ IsFiniteSet(Live)
             /\ elements = Cardinality(Live)
             /\ elements <= MaxElements

(* Each queue holds, oldest first and without a gap, exactly the items     *)
(* that the stage before it passed on and its own stage has not taken; a   *)
(* buffer that waits for stage 0 carries nothing.                          *)
Order ==
    valid =>
      /\ \A i \in Ids \ {0} :
           /\ Len(queues[i]) + got[i] = put[i - 1]
           /\ \A k \in 1 .. Len(queues[i]) : load[queues[i][k]] = got[i] + k
      /\ \A k \in 1 .. Len(queues[0]) : load[queues[0][k]] = 0

(* The pool is a bounded FIFO channel from stage 0 to the last stage.      *)
Channel == INSTANCE SampleChannel WITH
              Capacity <- MaxElements, in <- put[0], out <- got[Last],
              done <- put[Last], open <- valid
ImplementsChannel == Channel!Spec

(* An item that stage 0 queued reaches the last stage unless the pool is   *)
(* freed first.                                                            *)
Delivered ==
    \A n \in 1 .. MaxItems :
        (valid /\ put[0] >= n) ~> (got[Last] >= n \/ ~valid)
=============================================================================
