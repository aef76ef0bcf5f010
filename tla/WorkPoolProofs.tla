--------------------------- MODULE WorkPoolProofs ---------------------------
(***************************************************************************)
(* What WorkPool guarantees for every number of stages, every capacity and *)
(* every set of buffers, when each stage has at most one thread.           *)
(***************************************************************************)
EXTENDS WorkPool, FiniteSetTheorems, TLAPS

USE DEF Enqueue, Dequeue, MayGrow

(* A thread owns a buffer exactly when it is between a successful          *)
(* pool_get_wait_lock and its pool_get_unlock, and is inside the pool only *)
(* while the pool is open.                                                 *)
PcInv ==
    \A t \in Threads :
        /\ pc[t] = "hold" <=> hold[t] # NoBuffer
        /\ pc[t] \in {"grow", "pop", "wait"} => valid

(* The value of pool->elements that the one creating thread tested is      *)
(* still current when it increments the counter.                           *)
GrowInv ==
    valid => \A t \in Threads :
                pc[t] = "grow" => /\ stage[t] = 0
                                  /\ seen[t] = elements
                                  /\ elements < MaxElements

(* The owner of a buffer works on the item its stage took last.            *)
HoldInv ==
    valid =>
      /\ \A t \in Threads : pc[t] = "hold" =>
            /\ stage[t] = 0 => load[hold[t]] = 0
            /\ stage[t] # 0 => /\ load[hold[t]] = got[stage[t]]
                               /\ got[stage[t]] = put[stage[t]] + 1
      /\ \A i \in Ids \ {0} :
            (\A t \in Threads : stage[t] = i => pc[t] # "hold") => got[i] = put[i]

(* No stage is ahead of the first, and every item that the last stage has  *)
(* not handed back is in a buffer of its own.                              *)
ItemInv ==
    valid =>
      /\ \A i \in Ids : put[i] <= put[0] /\ got[i] <= put[0]
      /\ \A n \in 1 .. put[0] : put[Last] < n =>
            \E b \in Live : load[b] = n

PoolInv == TypeOK /\ NoAlias /\ Conservation /\ Order /\ PcInv /\ GrowInv
           /\ HoldInv /\ ItemInv
-----------------------------------------------------------------------------
(* Sequences: what queue_pop and queue_add do, position by position.       *)
LEMMA TailFacts ==
    ASSUME NEW S, NEW s \in Seq(S), s # <<>>
    PROVE  /\ Tail(s) \in Seq(S) /\ Len(s) >= 1
           /\ Len(Tail(s)) = Len(s) - 1 /\ Len(s) \in Nat
           /\ \A k \in 1 .. Len(s) - 1 : Tail(s)[k] = s[k + 1]
           /\ Head(s) = s[1] /\ Head(s) \in S
  OBVIOUS

LEMMA AppendFacts ==
    ASSUME NEW S, NEW s \in Seq(S), NEW e \in S
    PROVE  /\ Append(s, e) \in Seq(S)
           /\ Len(Append(s, e)) = Len(s) + 1 /\ Len(s) \in Nat
           /\ \A k \in 1 .. Len(s) : Append(s, e)[k] = s[k]
           /\ Append(s, e)[Len(s) + 1] = e
  OBVIOUS

LEMMA InitInv == ASSUME PoolAssumption PROVE Init => PoolInv
<1> SUFFICES ASSUME Init PROVE PoolInv
  OBVIOUS
<1> USE PoolAssumption DEF PoolAssumption, Init, Ids, Last
<1>1. TypeOK
  BY DEF TypeOK
<1>2. NoAlias
  BY DEF NoAlias
<1>3. Conservation
  <2>1. Live = {}
    BY DEF Live, Queued, Held
  <2> QED BY <2>1, FS_EmptySet DEF Conservation
<1>4. Order
  BY DEF Order
<1>5. PcInv /\ GrowInv /\ HoldInv /\ ItemInv
  BY DEF PcInv, GrowInv, HoldInv, ItemInv
<1> QED BY <1>1, <1>2, <1>3, <1>4, <1>5 DEF PoolInv

(* Taking the head of a queue keeps every buffer in exactly one place.     *)
LEMMA ObtainInv ==
    ASSUME PoolAssumption, OneThreadPerId, PoolInv, valid,
           NEW t \in Threads, pc[t] \in {"idle", "pop", "wait"}, Obtain(t)
    PROVE  PoolInv'
<1> DEFINE i == stage[t]
           b == Head(queues[i])
<1> USE PoolAssumption DEF PoolAssumption, Ids, Last
<1>1. /\ i \in Ids /\ queues[i] \in Seq(Buffers) /\ queues[i] # <<>>
      /\ hold' = [hold EXCEPT ![t] = b]
      /\ queues' = [queues EXCEPT ![i] = Tail(queues[i])]
      /\ got' = [got EXCEPT ![i] = load[b]]
      /\ pc' = [pc EXCEPT ![t] = "hold"]
      /\ valid' = valid /\ elements' = elements /\ load' = load
      /\ seen' = seen /\ put' = put
  BY DEF Obtain, Goto, PoolInv, TypeOK
<1>2. TypeOK
  BY DEF PoolInv
<1>3. /\ Tail(queues[i]) \in Seq(Buffers) /\ Len(queues[i]) >= 1
      /\ Len(Tail(queues[i])) = Len(queues[i]) - 1 /\ Len(queues[i]) \in Nat
      /\ \A k \in 1 .. Len(queues[i]) - 1 : Tail(queues[i])[k] = queues[i][k + 1]
      /\ b = queues[i][1] /\ b \in Buffers
  BY <1>1, TailFacts
<1>4. hold[t] = NoBuffer /\ b # NoBuffer
  BY <1>3 DEF PoolInv, PcInv
<1>5. TypeOK'
  BY <1>1, <1>2, <1>3 DEF TypeOK
<1>6. \A j \in Ids : /\ j # i => queues'[j] = queues[j]
                     /\ queues[j] \in Seq(Buffers) /\ Len(queues[j]) \in Nat
  <2>1. \A j \in Ids : queues[j] \in Seq(Buffers)
    BY <1>2 DEF TypeOK
  <2>2. \A j \in Ids : j # i => queues'[j] = queues[j]
    BY <1>1, <1>2 DEF TypeOK
  <2> QED BY <2>1, <2>2
<1>7. queues'[i] = Tail(queues[i])
  BY <1>1, <1>2 DEF TypeOK
<1> HIDE DEF b, i
<1>8. \A s \in Threads : hold'[s] = IF s = t THEN b ELSE hold[s]
  BY <1>1, <1>2 DEF TypeOK
<1>9. \A s \in Threads : pc'[s] = IF s = t THEN "hold" ELSE pc[s]
  BY <1>1, <1>2 DEF TypeOK
<1>10. NoAlias'
  <2>1. ASSUME NEW j \in Ids, NEW k \in 1 .. Len(queues'[j])
        PROVE  \E m \in 1 .. Len(queues[j]) :
                  /\ queues'[j][k] = queues[j][m]
                  /\ m = IF j = i THEN k + 1 ELSE k
    <3>1. CASE j = i
      BY <3>1, <1>3, <1>7
    <3>2. CASE j # i
      BY <3>2, <1>6
    <3> QED BY <3>1, <3>2
  <2>2. \A j, l \in Ids : \A k \in 1 .. Len(queues'[j]), m \in 1 .. Len(queues'[l]) :
           queues'[j][k] = queues'[l][m] => j = l /\ k = m
    <3> SUFFICES ASSUME NEW j \in Ids, NEW l \in Ids,
                        NEW k \in 1 .. Len(queues'[j]), NEW m \in 1 .. Len(queues'[l]),
                        queues'[j][k] = queues'[l][m]
                 PROVE  j = l /\ k = m
      OBVIOUS
    <3>1. PICK k0 \in 1 .. Len(queues[j]) :
             queues'[j][k] = queues[j][k0] /\ k0 = IF j = i THEN k + 1 ELSE k
      BY <2>1
    <3>2. PICK m0 \in 1 .. Len(queues[l]) :
             queues'[l][m] = queues[l][m0] /\ m0 = IF l = i THEN m + 1 ELSE m
      BY <2>1
    <3>3. queues[j][k0] = queues[l][m0]
      BY <3>1, <3>2
    <3>4. j = l /\ k0 = m0
      <4>1. \A x \in 1 .. Len(queues[j]), y \in 1 .. Len(queues[l]) :
               queues[j][x] = queues[l][y] => j = l /\ x = y
        BY DEF PoolInv, NoAlias
      <4> QED BY <4>1, <3>3
    <3> QED BY <3>1, <3>2, <3>4
  <2>3. \A s \in Threads, j \in Ids : \A k \in 1 .. Len(queues'[j]) :
           hold'[s] # queues'[j][k]
    <3> SUFFICES ASSUME NEW s \in Threads, NEW j \in Ids,
                        NEW k \in 1 .. Len(queues'[j])
                 PROVE  hold'[s] # queues'[j][k]
      OBVIOUS
    <3>1. PICK m \in 1 .. Len(queues[j]) :
             queues'[j][k] = queues[j][m] /\ m = IF j = i THEN k + 1 ELSE k
      BY <2>1
    <3>2. CASE s = t
      <4>1. i \in Ids /\ 1 \in 1 .. Len(queues[i]) /\ b = queues[i][1]
        BY <1>1, <1>3
      <4>2. ~(j = i /\ m = 1)
        BY <3>1
      <4> QED BY <3>1, <3>2, <4>1, <4>2, <1>8 DEF PoolInv, NoAlias
    <3>3. CASE s # t
      BY <3>1, <3>3, <1>8 DEF PoolInv, NoAlias
    <3> QED BY <3>2, <3>3
  <2>4. \A s, u \in Threads : hold'[s] = hold'[u] /\ hold'[s] # NoBuffer => s = u
    <3>1. i \in Ids /\ 1 \in 1 .. Len(queues[i]) /\ b = queues[i][1]
      BY <1>1, <1>3
    <3>2. \A s \in Threads : hold[s] # b
      BY <3>1 DEF PoolInv, NoAlias
    <3> QED BY <3>2, <1>8 DEF PoolInv, NoAlias
  <2> QED BY <2>2, <2>3, <2>4 DEF NoAlias
<1>11. Live' = Live
  <2>1. \A c \in Buffers : Queued(c)' \/ Held(c)' <=> Queued(c) \/ Held(c)
    <3> SUFFICES ASSUME NEW c \in Buffers
                 PROVE  Queued(c)' \/ Held(c)' <=> Queued(c) \/ Held(c)
      OBVIOUS
    <3>1. CASE c = b
      <4>1. Queued(c)
        BY <3>1, <1>1, <1>3 DEF Queued
      <4>2. Held(c)'
        BY <3>1, <1>8 DEF Held
      <4> QED BY <4>1, <4>2
    <3>2. CASE c # b
      <4>1. Held(c)' <=> Held(c)
        BY <3>2, <1>4, <1>8 DEF Held
      <4>2. ASSUME Queued(c) PROVE Queued(c)'
        <5>1. PICK j \in Ids : \E k \in 1 .. Len(queues[j]) : queues[j][k] = c
          BY <4>2 DEF Queued
        <5> PICK k \in 1 .. Len(queues[j]) : queues[j][k] = c
          BY <5>1
        <5>2. CASE j = i
          <6>1. k - 1 \in 1 .. Len(queues'[i]) /\ queues'[i][k - 1] = c
            BY <5>1, <5>2, <3>2, <1>3, <1>7
          <6> QED BY <6>1, <1>1 DEF Queued
        <5>3. CASE j # i
          BY <5>1, <5>3, <1>6 DEF Queued
        <5> QED BY <5>2, <5>3
      <4>3. ASSUME Queued(c)' PROVE Queued(c)
        <5>1. PICK j \in Ids : \E k \in 1 .. Len(queues'[j]) : queues'[j][k] = c
          BY <4>3 DEF Queued
        <5> PICK k \in 1 .. Len(queues'[j]) : queues'[j][k] = c
          BY <5>1
        <5>2. CASE j = i
          <6>1. k + 1 \in 1 .. Len(queues[i]) /\ queues[i][k + 1] = c
            BY <5>1, <5>2, <1>3, <1>7
          <6> QED BY <6>1, <1>1 DEF Queued
        <5>3. CASE j # i
          BY <5>1, <5>3, <1>6 DEF Queued
        <5> QED BY <5>2, <5>3
      <4> QED BY <4>1, <4>2, <4>3
    <3> QED BY <3>1, <3>2
  <2> QED BY <2>1 DEF Live
<1>12. Conservation'
  BY <1>11, <1>1 DEF PoolInv, Conservation
<1>13. load[b] = IF i = 0 THEN 0 ELSE got[i] + 1
  <2>1. 1 \in 1 .. Len(queues[i])
    BY <1>3
  <2>2. CASE i = 0
    BY <2>1, <2>2, <1>3 DEF PoolInv, Order
  <2>3. CASE i # 0
    <3>1. load[queues[i][1]] = got[i] + 1
      BY <2>1, <2>3, <1>1 DEF PoolInv, Order
    <3> QED BY <3>1, <2>3, <1>3
  <2> QED BY <2>2, <2>3
<1>14. \A j \in Ids : got'[j] = IF j = i THEN load[b] ELSE got[j]
  BY <1>1, <1>2 DEF TypeOK
<1>15. Order'
  <2>1. ASSUME NEW j \in Ids \ {0}
        PROVE  /\ Len(queues'[j]) + got'[j] = put'[j - 1]
               /\ \A k \in 1 .. Len(queues'[j]) :
                     load'[queues'[j][k]] = got'[j] + k
    <3>1. CASE j = i
      <4>1. got'[i] = got[i] + 1 /\ got[i] \in Nat
        BY <3>1, <1>13, <1>14, <1>1, <1>2 DEF TypeOK
      <4>2. \A k \in 1 .. Len(queues[i]) : load[queues[i][k]] = got[i] + k
        BY <3>1, <1>1 DEF PoolInv, Order
      <4>5. Len(queues[i]) + got[i] = put[i - 1]
        BY <3>1, <1>1 DEF PoolInv, Order
      <4>3. Len(queues'[i]) + got'[i] = put'[i - 1]
          <5>1. Len(queues'[i]) = Len(queues[i]) - 1 /\ Len(queues[i]) \in Nat
            BY <1>3, <1>7
          <5>2. put' = put
            BY <1>1
          <5> QED BY <4>1, <4>5, <5>1, <5>2
      <4>4. ASSUME NEW k \in 1 .. Len(queues'[i])
            PROVE  load'[queues'[i][k]] = got'[i] + k
        <5>1. k \in 1 .. Len(queues[i]) - 1 /\ k + 1 \in 1 .. Len(queues[i])
          BY <1>3, <1>7
        <5>2. queues'[i][k] = queues[i][k + 1]
          BY <5>1, <1>3, <1>7
        <5>3. load[queues[i][k + 1]] = got[i] + (k + 1)
          BY <5>1, <4>2
        <5> QED BY <5>1, <5>2, <5>3, <4>1, <1>1
      <4> QED BY <4>3, <4>4, <3>1
    <3>2. CASE j # i
      BY <3>2, <1>1, <1>6, <1>14 DEF PoolInv, Order
    <3> QED BY <3>1, <3>2
  <2>2. \A k \in 1 .. Len(queues'[0]) : load'[queues'[0][k]] = 0
    <3>1. CASE i = 0
      BY <3>1, <1>1, <1>3, <1>7 DEF PoolInv, Order
    <3>2. CASE i # 0
      BY <3>2, <1>1, <1>6 DEF PoolInv, Order
    <3> QED BY <3>1, <3>2
  <2> QED BY <2>1, <2>2 DEF Order
<1>16. PcInv'
  BY <1>1, <1>4, <1>8, <1>9 DEF PoolInv, PcInv
<1>17. GrowInv'
  BY <1>1, <1>9 DEF PoolInv, GrowInv
<1>18. HoldInv'
  <2>0. \A s \in Threads : stage[s] = i => s = t
    BY DEF OneThreadPerId, i
  <2>1. i # 0 => got[i] = put[i]
    BY <2>0, <1>1 DEF PoolInv, HoldInv
  <2>2. ASSUME NEW s \in Threads, pc'[s] = "hold"
        PROVE  /\ stage[s] = 0 => load'[hold'[s]] = 0
               /\ stage[s] # 0 => /\ load'[hold'[s]] = got'[stage[s]]
                                  /\ got'[stage[s]] = put'[stage[s]] + 1
    <3>1. CASE s = t
      BY <3>1, <2>1, <1>1, <1>8, <1>13, <1>14 DEF i
    <3>2. CASE s # t
      <4>1. stage[s] # i /\ stage[s] \in Ids
        BY <2>0, <3>2
      <4> QED BY <4>1, <3>2, <2>2, <1>1, <1>8, <1>9, <1>14 DEF PoolInv, HoldInv
    <3> QED BY <3>1, <3>2
  <2>3. ASSUME NEW j \in Ids \ {0}, \A s \in Threads : stage[s] = j => pc'[s] # "hold"
        PROVE  got'[j] = put'[j]
    <3>1. j # i
      BY <2>3, <1>9 DEF i
    <3>2. \A s \in Threads : stage[s] = j => pc[s] # "hold"
      BY <2>3, <1>9, <3>1 DEF i
    <3> QED BY <3>1, <3>2, <1>1, <1>14 DEF PoolInv, HoldInv
  <2> QED BY <2>2, <2>3 DEF HoldInv
<1>19. ItemInv'
  <2>1. got'[i] <= put[0]
    <3>1. CASE i = 0
      BY <3>1, <1>13, <1>14, <1>1, <1>2 DEF TypeOK
    <3>2. CASE i # 0
      <4>1. got'[i] = got[i] + 1 /\ Len(queues[i]) + got[i] = put[i - 1]
        BY <3>2, <1>13, <1>14, <1>1 DEF PoolInv, Order
      <4>2. i - 1 \in Ids /\ put[i - 1] <= put[0]
        BY <3>2, <1>1 DEF PoolInv, ItemInv
      <4>3. got[i] \in Nat /\ put[i - 1] \in Nat /\ put[0] \in Nat
        BY <4>2, <1>1, <1>2 DEF TypeOK
      <4>4. Len(queues[i]) \in Nat /\ Len(queues[i]) >= 1
        BY <1>3
      <4> QED BY <4>1, <4>2, <4>3, <4>4
    <3> QED BY <3>1, <3>2
  <2>2. \A j \in Ids : put'[j] <= put'[0] /\ got'[j] <= put'[0]
    BY <2>1, <1>1, <1>14 DEF PoolInv, ItemInv
  <2> QED BY <2>2, <1>1, <1>11 DEF PoolInv, ItemInv
<1> QED BY <1>5, <1>10, <1>12, <1>15, <1>16, <1>17, <1>18, <1>19 DEF PoolInv

(* A thread that found nothing, and holds nothing, changes nothing.        *)
LEMMA MoveInv ==
    ASSUME PoolAssumption, PoolInv, valid, NEW t \in Threads, pc[t] # "hold",
           NEW l \in {"pop", "wait", "idle"}, Move(t, l)
    PROVE  PoolInv'
<1>1. /\ pc' = [pc EXCEPT ![t] = l]
      /\ UNCHANGED <<valid, elements, queues, load, hold, seen, got, put>>
  BY DEF Move, Goto
<1>2. TypeOK
  BY DEF PoolInv
<1>3. \A s \in Threads : pc'[s] = IF s = t THEN l ELSE pc[s]
  BY <1>1, <1>2 DEF TypeOK
<1>4. TypeOK'
  BY <1>1, <1>2 DEF TypeOK
<1>5. Live' = Live
  BY <1>1 DEF Live, Queued, Held
<1>6. NoAlias' /\ Conservation' /\ Order'
  BY <1>1, <1>5 DEF PoolInv, NoAlias, Conservation, Order
<1>7. PcInv' /\ GrowInv'
  BY <1>1, <1>3 DEF PoolInv, PcInv, GrowInv
<1>8. HoldInv'
  <2>1. \A s \in Threads : pc'[s] = "hold" <=> pc[s] = "hold"
    BY <1>3
  <2> QED BY <2>1, <1>1 DEF PoolInv, HoldInv
<1>9. ItemInv'
  BY <1>1, <1>5 DEF PoolInv, ItemInv
<1> QED BY <1>4, <1>6, <1>7, <1>8, <1>9 DEF PoolInv

(* The first half of Get that allocates: the tested value is the counter.  *)
LEMMA TestInv ==
    ASSUME PoolAssumption, PoolInv, valid, NEW t \in Threads, pc[t] = "idle",
           stage[t] = 0, elements < MaxElements,
           seen' = [seen EXCEPT ![t] = elements],
           pc' = [pc EXCEPT ![t] = "grow"],
           UNCHANGED <<valid, elements, queues, load, hold, got, put>>,
           OneThreadPerId
    PROVE  PoolInv'
<1>2. TypeOK
  BY DEF PoolInv
<1>3. \A s \in Threads : /\ pc'[s] = IF s = t THEN "grow" ELSE pc[s]
                         /\ seen'[s] = IF s = t THEN elements ELSE seen[s]
  BY <1>2 DEF TypeOK
<1>4. TypeOK'
  BY <1>2 DEF TypeOK
<1>5. Live' = Live
  BY DEF Live, Queued, Held
<1>6. NoAlias' /\ Conservation' /\ Order'
  BY <1>5 DEF PoolInv, NoAlias, Conservation, Order
<1>7. PcInv' /\ GrowInv'
  BY <1>3 DEF PoolInv, PcInv, GrowInv
<1>8. HoldInv'
  <2>1. \A s \in Threads : pc'[s] = "hold" <=> pc[s] = "hold"
    BY <1>3
  <2> QED BY <2>1 DEF PoolInv, HoldInv
<1>9. ItemInv'
  BY <1>5 DEF PoolInv, ItemInv
<1> QED BY <1>4, <1>6, <1>7, <1>8, <1>9 DEF PoolInv

(* Creating a buffer keeps the counter exact and within the capacity,      *)
(* because the value that was tested is still the current one.             *)
LEMMA GrowStepInv ==
    ASSUME PoolAssumption, OneThreadPerId, PoolInv, NEW t \in Threads, Grow(t)
    PROVE  PoolInv'
<1> USE PoolAssumption DEF PoolAssumption, Ids, Last
<1>1. PICK b \in Buffers \ Live : /\ hold' = [hold EXCEPT ![t] = b]
                                  /\ load' = [load EXCEPT ![b] = 0]
  BY DEF Grow
<1>2. TypeOK /\ pc[t] = "grow" /\ valid /\ hold[t] = NoBuffer /\ b # NoBuffer
        /\ b \in Buffers
  BY DEF PoolInv, PcInv, Grow
<1>3. /\ pc' = [pc EXCEPT ![t] = "hold"]
      /\ UNCHANGED <<valid, queues, seen, got, put>>
      /\ stage[t] = 0 /\ elements < MaxElements
      /\ elements' = elements + 1
  BY <1>2 DEF Grow, Goto, PoolInv, GrowInv
<1>4. \A s \in Threads : /\ pc'[s] = IF s = t THEN "hold" ELSE pc[s]
                         /\ hold'[s] = IF s = t THEN b ELSE hold[s]
  BY <1>1, <1>2, <1>3 DEF TypeOK
<1>5. \A c \in Buffers : load'[c] = IF c = b THEN 0 ELSE load[c]
  BY <1>1, <1>2 DEF TypeOK
<1>6. TypeOK'
  <2>1. elements' \in Nat
    BY <1>2, <1>3 DEF TypeOK
  <2> QED BY <2>1, <1>1, <1>2, <1>3 DEF TypeOK
<1>7. /\ \A i \in Ids : \A k \in 1 .. Len(queues[i]) :
            queues[i][k] \in Buffers /\ queues[i][k] # b
      /\ \A s \in Threads : hold[s] # b
  <2>1. ASSUME NEW i \in Ids, NEW k \in 1 .. Len(queues[i])
        PROVE  queues[i][k] \in Buffers /\ queues[i][k] # b
    <3>1. queues[i] \in Seq(Buffers)
      BY <1>2 DEF TypeOK
    <3>2. queues[i][k] \in Buffers
      BY <3>1
    <3>3. Queued(queues[i][k])
      BY DEF Queued
    <3> QED BY <3>2, <3>3 DEF Live
  <2>2. ~Held(b)
    BY DEF Live
  <2> QED BY <2>1, <2>2 DEF Held
<1>8. NoAlias'
  <2>1. queues' = queues
    BY <1>3
  <2>2. \A i, j \in Ids : \A k \in 1 .. Len(queues[i]), l \in 1 .. Len(queues[j]) :
           queues[i][k] = queues[j][l] => i = j /\ k = l
    BY DEF PoolInv, NoAlias
  <2>3. \A s \in Threads, i \in Ids : \A k \in 1 .. Len(queues[i]) :
           hold'[s] # queues[i][k]
    BY <1>4, <1>7 DEF PoolInv, NoAlias
  <2>4. \A s, u \in Threads : hold'[s] = hold'[u] /\ hold'[s] # NoBuffer => s = u
    BY <1>4, <1>7 DEF PoolInv, NoAlias
  <2> QED BY <2>1, <2>2, <2>3, <2>4 DEF NoAlias
<1>9. Live' = Live \cup {b} /\ b \notin Live
  <2>1. \A c \in Buffers : Queued(c)' <=> Queued(c)
    BY <1>3 DEF Queued
  <2>2. \A c \in Buffers : Held(c)' <=> Held(c) \/ c = b
    BY <1>2, <1>4 DEF Held
  <2> QED BY <2>1, <2>2 DEF Live
<1>10. Conservation'
  <2>1. /\ IsFiniteSet(Live)
        /\ elements = Cardinality(Live)
        /\ elements <= MaxElements
    BY <1>2 DEF PoolInv, Conservation
  <2>2. IsFiniteSet(Live') /\ Cardinality(Live') = Cardinality(Live) + 1
    BY <2>1, <1>9, FS_AddElement
  <2>3. elements' <= MaxElements
    BY <1>2, <1>3 DEF TypeOK
  <2> QED BY <2>1, <2>2, <2>3, <1>3 DEF Conservation
<1>11. Order'
  BY <1>2, <1>3, <1>5, <1>7, SMTT(20) DEF PoolInv, Order
<1>12. PcInv'
  BY <1>2, <1>3, <1>4 DEF PoolInv, PcInv
<1>13. GrowInv'
  <2>1. \A s \in Threads : pc'[s] = "grow" => pc[s] = "grow" /\ s # t
    BY <1>4
  <2>2. \A s \in Threads : pc[s] = "grow" => s = t
    BY <1>2, <1>3 DEF PoolInv, GrowInv, OneThreadPerId
  <2> QED BY <2>1, <2>2 DEF GrowInv
<1>14. HoldInv'
  <2>1. ASSUME NEW s \in Threads, pc'[s] = "hold"
        PROVE  /\ stage[s] = 0 => load'[hold'[s]] = 0
               /\ stage[s] # 0 => /\ load'[hold'[s]] = got[stage[s]]
                                  /\ got[stage[s]] = put[stage[s]] + 1
    <3>1. CASE s = t
      BY <3>1, <1>3, <1>4, <1>5
    <3>2. CASE s # t
      <4>1. hold[s] \in Buffers /\ hold[s] # b /\ pc[s] = "hold"
        BY <2>1, <3>2, <1>2, <1>4, <1>7 DEF TypeOK, PoolInv, PcInv
      <4> QED BY <4>1, <3>2, <1>2, <1>4, <1>5 DEF PoolInv, HoldInv
    <3> QED BY <3>1, <3>2
  <2>2. ASSUME NEW i \in Ids \ {0}, \A s \in Threads : stage[s] = i => pc'[s] # "hold"
        PROVE  got[i] = put[i]
    <3>1. \A s \in Threads : stage[s] = i => pc[s] # "hold"
      BY <2>2, <1>3, <1>4
    <3> QED BY <3>1, <1>2 DEF PoolInv, HoldInv
  <2> QED BY <2>1, <2>2, <1>3 DEF HoldInv
<1>15. ItemInv'
  <2>1. ASSUME NEW n \in 1 .. put[0], put[Last] < n
        PROVE  \E c \in Live' : load'[c] = n
    <3>1. PICK c \in Live : load[c] = n
      BY <2>1, <1>2 DEF PoolInv, ItemInv
    <3>2. c \in Buffers /\ c # b /\ c \in Live'
      BY <1>9 DEF Live
    <3> QED BY <3>1, <3>2, <1>5
  <2> QED BY <2>1, <1>2, <1>3 DEF PoolInv, ItemInv
<1> QED BY <1>6, <1>8, <1>10, <1>11, <1>12, <1>13, <1>14, <1>15 DEF PoolInv

(* Passing a buffer on keeps it in one place, keeps the queues gap-free    *)
(* and, for the last stage, accounts for the item it carried.              *)
LEMMA PutInv ==
    ASSUME PoolAssumption, OneThreadPerId, PoolInv, NEW t \in Threads,
           PutUnlock(t)
    PROVE  PoolInv'
<1> DEFINE i == stage[t]
           b == hold[t]
           j == Target(i)
           n == IF i = Last THEN 0 ELSE Item(i, b)
<1> USE PoolAssumption DEF PoolAssumption, Ids, Last
<1>1. /\ valid /\ pc[t] = "hold"
      /\ queues' = [queues EXCEPT ![j] = Append(queues[j], b)]
      /\ load' = [load EXCEPT ![b] = n]
      /\ put' = [put EXCEPT ![i] = Item(i, b)]
      /\ hold' = [hold EXCEPT ![t] = NoBuffer]
      /\ pc' = [pc EXCEPT ![t] = "idle"]
      /\ UNCHANGED <<valid, elements, seen, got>>
  BY DEF PutUnlock, Goto, PoolInv, TypeOK
<1>2. TypeOK
  BY DEF PoolInv
<1>3. i \in Ids /\ j \in Ids /\ b \in Buffers /\ b # NoBuffer
  <2>1. i \in 0 .. MaxIds - 1
    OBVIOUS
  <2>2. j \in Ids
    BY <2>1 DEF Target
  <2>3. b \in Buffers /\ b # NoBuffer
    BY <1>1, <1>2 DEF PoolInv, TypeOK, PcInv
  <2> QED BY <2>1, <2>2, <2>3
<1>4. /\ Append(queues[j], b) \in Seq(Buffers)
      /\ Len(Append(queues[j], b)) = Len(queues[j]) + 1 /\ Len(queues[j]) \in Nat
      /\ \A k \in 1 .. Len(queues[j]) : Append(queues[j], b)[k] = queues[j][k]
      /\ Append(queues[j], b)[Len(queues[j]) + 1] = b
  <2>1. queues[j] \in Seq(Buffers)
    BY <1>2, <1>3 DEF TypeOK
  <2> QED BY <2>1, <1>3, AppendFacts
<1>5. /\ i = 0 => load[b] = 0
      /\ i # 0 => load[b] = got[i] /\ got[i] = put[i] + 1
  BY <1>1 DEF PoolInv, HoldInv
<1>6. /\ Item(i, b) = put[i] + 1 /\ Item(i, b) \in Nat /\ n \in Nat
      /\ n = IF i = Last THEN 0 ELSE put[i] + 1
  <2>1. i \in Nat /\ put[i] \in Nat /\ put[0] \in Nat /\ load[b] \in Nat
    BY <1>2, <1>3 DEF TypeOK
  <2>2. Item(i, b) = put[i] + 1
    BY <2>1, <1>5 DEF Item
  <2> QED BY <2>1, <2>2
<1>7. \A s \in Threads : stage[s] = i => s = t
  BY DEF OneThreadPerId
<1>8. j = IF i = Last THEN 0 ELSE i + 1
  BY DEF Target
<1>9. /\ \A k \in Ids : k # j => queues'[k] = queues[k]
      /\ queues'[j] = Append(queues[j], b)
  BY <1>1, <1>2, <1>3 DEF TypeOK
<1> HIDE DEF i, b, j, n
<1>10. /\ \A s \in Threads : /\ pc'[s] = IF s = t THEN "idle" ELSE pc[s]
                             /\ hold'[s] = IF s = t THEN NoBuffer ELSE hold[s]
       /\ \A c \in Buffers : load'[c] = IF c = b THEN n ELSE load[c]
       /\ \A k \in Ids : put'[k] = IF k = i THEN put[i] + 1 ELSE put[k]
  BY <1>1, <1>2, <1>3, <1>6 DEF TypeOK
<1>11. TypeOK'
  BY <1>1, <1>2, <1>3, <1>4, <1>6 DEF TypeOK
<1>12. /\ \A k \in Ids : \A m \in 1 .. Len(queues[k]) :
             queues[k][m] \in Buffers /\ queues[k][m] # b
       /\ \A s \in Threads : s # t => hold[s] # b
  <2>1. ASSUME NEW k \in Ids, NEW m \in 1 .. Len(queues[k])
        PROVE  queues[k][m] \in Buffers /\ queues[k][m] # b
    <3>1. queues[k] \in Seq(Buffers)
      BY <1>2 DEF TypeOK
    <3> QED BY <3>1 DEF PoolInv, NoAlias, b
  <2> QED BY <2>1, <1>3 DEF PoolInv, NoAlias, b
<1>13. \A k \in Ids : \A m \in 1 .. Len(queues'[k]) :
          \/ m \in 1 .. Len(queues[k]) /\ queues'[k][m] = queues[k][m]
          \/ k = j /\ m = Len(queues[j]) + 1 /\ queues'[k][m] = b
  <2> SUFFICES ASSUME NEW k \in Ids, NEW m \in 1 .. Len(queues'[k])
               PROVE  \/ m \in 1 .. Len(queues[k]) /\ queues'[k][m] = queues[k][m]
                      \/ k = j /\ m = Len(queues[j]) + 1 /\ queues'[k][m] = b
    OBVIOUS
  <2>1. CASE k = j
    BY <2>1, <1>4, <1>9
  <2>2. CASE k # j
    BY <2>2, <1>9
  <2> QED BY <2>1, <2>2
<1>14. NoAlias'
  <2>1. \A k, l \in Ids : \A x \in 1 .. Len(queues'[k]), y \in 1 .. Len(queues'[l]) :
           queues'[k][x] = queues'[l][y] => k = l /\ x = y
    <3> SUFFICES ASSUME NEW k \in Ids, NEW l \in Ids,
                        NEW x \in 1 .. Len(queues'[k]), NEW y \in 1 .. Len(queues'[l]),
                        queues'[k][x] = queues'[l][y]
                 PROVE  k = l /\ x = y
      OBVIOUS
    <3>1. \/ x \in 1 .. Len(queues[k]) /\ queues'[k][x] = queues[k][x]
          \/ k = j /\ x = Len(queues[j]) + 1 /\ queues'[k][x] = b
      BY <1>13
    <3>2. \/ y \in 1 .. Len(queues[l]) /\ queues'[l][y] = queues[l][y]
          \/ l = j /\ y = Len(queues[j]) + 1 /\ queues'[l][y] = b
      BY <1>13
    <3>3. \A u \in 1 .. Len(queues[k]), v \in 1 .. Len(queues[l]) :
             queues[k][u] = queues[l][v] => k = l /\ u = v
      BY DEF PoolInv, NoAlias
    <3> QED BY <3>1, <3>2, <3>3, <1>12
  <2>2. ASSUME NEW s \in Threads, NEW k \in Ids, NEW x \in 1 .. Len(queues'[k])
        PROVE  hold'[s] # queues'[k][x]
    <3>1. \/ x \in 1 .. Len(queues[k]) /\ queues'[k][x] = queues[k][x]
          \/ queues'[k][x] = b
      BY <1>13
    <3>2. \A u \in 1 .. Len(queues[k]) : hold[s] # queues[k][u]
      BY DEF PoolInv, NoAlias
    <3> QED BY <3>1, <3>2, <1>10, <1>12, <1>3
  <2>3. \A s, u \in Threads : hold'[s] = hold'[u] /\ hold'[s] # NoBuffer => s = u
    BY <1>10 DEF PoolInv, NoAlias
  <2> QED BY <2>1, <2>2, <2>3 DEF NoAlias
<1>15. Live' = Live
  <2> SUFFICES ASSUME NEW c \in Buffers
               PROVE  Queued(c)' \/ Held(c)' <=> Queued(c) \/ Held(c)
    BY DEF Live
  <2>1. CASE c = b
    <3>1. Held(c)
      BY <2>1 DEF Held, b
    <3>2. Len(queues[j]) + 1 \in 1 .. Len(queues'[j]) /\ queues'[j][Len(queues[j]) + 1] = b
      BY <1>4, <1>9
    <3>3. Queued(c)'
      BY <2>1, <3>2, <1>3 DEF Queued
    <3> QED BY <3>1, <3>3
  <2>2. CASE c # b
    <3>1. Held(c)' <=> Held(c)
      <4>1. c # NoBuffer
        OBVIOUS
      <4> QED BY <4>1, <2>2, <1>10 DEF Held, b
    <3>2. ASSUME Queued(c) PROVE Queued(c)'
      <4>1. PICK k \in Ids : \E m \in 1 .. Len(queues[k]) : queues[k][m] = c
        BY <3>2 DEF Queued
      <4>2. PICK m \in 1 .. Len(queues[k]) : queues[k][m] = c
        BY <4>1
      <4>3. m \in 1 .. Len(queues'[k]) /\ queues'[k][m] = c
        <5>1. CASE k = j
          BY <5>1, <4>2, <1>4, <1>9
        <5>2. CASE k # j
          BY <5>2, <4>2, <1>9
        <5> QED BY <5>1, <5>2
      <4> QED BY <4>3 DEF Queued
    <3>3. ASSUME Queued(c)' PROVE Queued(c)
      <4>1. PICK k \in Ids : \E m \in 1 .. Len(queues'[k]) : queues'[k][m] = c
        BY <3>3 DEF Queued
      <4>2. PICK m \in 1 .. Len(queues'[k]) : queues'[k][m] = c
        BY <4>1
      <4>3. m \in 1 .. Len(queues[k]) /\ queues[k][m] = c
        BY <4>2, <2>2, <1>13
      <4> QED BY <4>3 DEF Queued
    <3> QED BY <3>1, <3>2, <3>3
  <2> QED BY <2>1, <2>2
<1>16. Conservation'
  BY <1>15, <1>1 DEF PoolInv, Conservation
<1>17. PcInv' /\ GrowInv'
  BY <1>1, <1>10 DEF PoolInv, PcInv, GrowInv
<1>18. HoldInv'
  <2>1. ASSUME NEW s \in Threads, pc'[s] = "hold"
        PROVE  /\ stage[s] = 0 => load'[hold'[s]] = 0
               /\ stage[s] # 0 => /\ load'[hold'[s]] = got[stage[s]]
                                  /\ got[stage[s]] = put'[stage[s]] + 1
    <3>1. s # t /\ pc[s] = "hold" /\ hold'[s] = hold[s]
      BY <2>1, <1>10
    <3>2. stage[s] # i /\ stage[s] \in Ids
      BY <3>1, <1>7
    <3>3. hold[s] \in Buffers /\ hold[s] # b
      BY <3>1, <1>2, <1>12 DEF TypeOK, PoolInv, PcInv
    <3> QED BY <3>1, <3>2, <3>3, <1>1, <1>10 DEF PoolInv, HoldInv
  <2>2. ASSUME NEW k \in Ids \ {0}, \A s \in Threads : stage[s] = k => pc'[s] # "hold"
        PROVE  got[k] = put'[k]
    <3>1. CASE k = i
      BY <3>1, <1>5, <1>10
    <3>2. CASE k # i
      <4>1. \A s \in Threads : stage[s] = k => pc[s] # "hold"
        BY <2>2, <3>2, <1>10 DEF i
      <4> QED BY <4>1, <3>2, <1>1, <1>10 DEF PoolInv, HoldInv
    <3> QED BY <3>1, <3>2
  <2> QED BY <2>1, <2>2, <1>1 DEF HoldInv
<1>19. Order'
  <2>1. ASSUME NEW k \in Ids \ {0}
        PROVE  /\ Len(queues'[k]) + got[k] = put'[k - 1]
               /\ \A m \in 1 .. Len(queues'[k]) : load'[queues'[k][m]] = got[k] + m
    <3>1. /\ Len(queues[k]) + got[k] = put[k - 1]
          /\ \A m \in 1 .. Len(queues[k]) : load[queues[k][m]] = got[k] + m
      BY <1>1 DEF PoolInv, Order
    <3>2. CASE k = j
      <4>1. i # Last /\ k - 1 = i /\ i \in Nat /\ put[i] \in Nat /\ got[k] \in Nat
        BY <3>2, <1>2, <1>3, <1>8 DEF TypeOK
      <4>2. put'[k - 1] = put[i] + 1 /\ n = put[i] + 1 /\ put[i] = Len(queues[k]) +
      got[k]
        BY <4>1, <3>1, <1>3, <1>6, <1>10
      <4>3. Len(queues'[k]) = Len(queues[k]) + 1 /\ Len(queues[k]) \in Nat
        BY <3>2, <1>4, <1>9
      <4>4. Len(queues'[k]) + got[k] = put'[k - 1]
        BY <4>1, <4>2, <4>3
      <4>5. ASSUME NEW m \in 1 .. Len(queues'[k])
            PROVE  load'[queues'[k][m]] = got[k] + m
        <5>1. CASE m \in 1 .. Len(queues[k]) /\ queues'[k][m] = queues[k][m]
          BY <5>1, <3>1, <1>10, <1>12
        <5>2. CASE m = Len(queues[k]) + 1 /\ queues'[k][m] = b
          BY <5>2, <4>1, <4>2, <4>3, <1>3, <1>10
        <5> QED BY <5>1, <5>2, <3>2, <1>13
      <4> QED BY <4>4, <4>5
    <3>3. CASE k # j
      <4>1. k - 1 # i /\ k - 1 \in Ids
        BY <3>3, <1>3, <1>8
      <4>2. put'[k - 1] = put[k - 1] /\ queues'[k] = queues[k]
        BY <4>1, <3>3, <1>9, <1>10
      <4> QED BY <4>2, <3>1, <1>10, <1>12
    <3> QED BY <3>2, <3>3
  <2>2. ASSUME NEW m \in 1 .. Len(queues'[0])
        PROVE  load'[queues'[0][m]] = 0
    <3>1. CASE m \in 1 .. Len(queues[0]) /\ queues'[0][m] = queues[0][m]
      <4>1. load[queues[0][m]] = 0
        BY <3>1, <1>1 DEF PoolInv, Order
      <4>2. queues[0][m] \in Buffers /\ queues[0][m] # b
        BY <3>1, <1>12
      <4> QED BY <3>1, <4>1, <4>2, <1>10
    <3>2. CASE 0 = j /\ queues'[0][m] = b
      BY <3>2, <1>3, <1>6, <1>8, <1>10
    <3> QED BY <3>1, <3>2, <1>13
  <2> QED BY <2>1, <2>2, <1>1 DEF Order
<1>20. ItemInv'
  <2>1. \A k \in Ids : put[k] \in Nat /\ got[k] \in Nat
    BY <1>2 DEF TypeOK
  <2>2. \A k \in Ids : put[k] <= put[0] /\ got[k] <= put[0]
    BY <1>1 DEF PoolInv, ItemInv
  <2>3. 0 \in Ids /\ Last \in Ids /\ 0 # Last
    OBVIOUS
  <2>4. put'[0] >= put[0] /\ put'[Last] >= put[Last]
    BY <2>1, <2>3, <1>3, <1>10
  <2>5. \A k \in Ids : put'[k] <= put'[0] /\ got[k] <= put'[0]
    BY <2>1, <2>2, <2>4, <1>3, <1>5, <1>10
  <2>6. ASSUME NEW x \in 1 .. put'[0], put'[Last] < x
        PROVE  \E c \in Live : load'[c] = x
    <3>0. x \in Nat /\ put[Last] < x
      BY <2>1, <2>3, <2>4, <2>6, <1>10
    <3>1. CASE x \in 1 .. put[0]
      <4>1. PICK c \in Live : load[c] = x
        BY <3>0, <3>1, <1>1 DEF PoolInv, ItemInv
      <4>2. CASE i = Last
        <5>1. load[b] = put'[Last]
          BY <4>2, <2>3, <1>5, <1>10
        <5>2. c # b
          BY <5>1, <4>1, <2>1, <2>3, <2>6, <3>0, <1>10
        <5> QED BY <5>2, <4>1, <1>10 DEF Live
      <4>3. CASE i = 0
        <5>1. c # b
          BY <4>3, <4>1, <1>5, <3>1
        <5> QED BY <5>1, <4>1, <1>10 DEF Live
      <4>4. CASE i # 0 /\ i # Last
        <5>1. n = load[b]
          BY <4>4, <1>5, <1>6
        <5> QED BY <5>1, <4>1, <1>3, <1>10 DEF Live
      <4> QED BY <4>2, <4>3, <4>4
    <3>2. CASE x = put[0] + 1
      <4>1. i = 0 /\ n = x
        BY <3>2, <2>1, <2>3, <1>3, <1>6, <1>10
      <4>2. b \in Live
        BY <1>3 DEF Live, Held, b
      <4> QED BY <4>1, <4>2, <1>3, <1>10
    <3> QED BY <3>0, <3>1, <3>2, <2>1, <2>3, <1>3, <1>10
  <2> QED BY <2>5, <2>6, <1>1, <1>15 DEF ItemInv
<1> QED BY <1>11, <1>14, <1>16, <1>17, <1>18, <1>19, <1>20 DEF PoolInv

(* Freeing the pool, setting it up again, and handing a buffer back to a   *)
(* freed pool: nothing but the owners' buffers is left.                    *)
LEMMA ClosedInv ==
    ASSUME PoolAssumption, PoolInv,
           PoolFree \/ PoolSetThreads \/ \E t \in Threads : PutInvalid(t)
    PROVE  PoolInv'
<1> USE PoolAssumption DEF PoolAssumption, Ids, Last
<1>1. TypeOK /\ NoAlias /\ PcInv
  BY DEF PoolInv
<1>2. CASE PoolFree
  <2>1. TypeOK'
    <3>0. valid' = FALSE /\ elements' = 0 /\ queues' = [i \in Ids |-> <<>>]
      BY <1>2 DEF PoolFree
    <3>1. valid' \in BOOLEAN /\ elements' \in Nat /\ queues' \in [Ids -> Seq(Buffers)]
      <4>1. valid' \in BOOLEAN
        BY <3>0
      <4>2. elements' \in Nat
        BY <3>0
      <4>3. queues' \in [Ids -> Seq(Buffers)]
        BY <3>0
      <4> QED BY <4>1, <4>2, <4>3
    <3>2. UNCHANGED <<load, pc, hold, seen, got, put>>
      BY <1>2 DEF PoolFree
    <3> QED BY <3>1, <3>2, <1>1 DEF TypeOK
  <2>3. NoAlias'
    <3>1. /\ hold' = hold
          /\ \A i \in Ids : Len(queues'[i]) = 0 /\ 1 .. Len(queues'[i]) = {}
      BY <1>2 DEF PoolFree
    <3> QED BY <3>1, <1>1 DEF NoAlias
  <2>2. PcInv'
    BY <1>1, <1>2 DEF PoolFree, PcInv, Outside
  <2> QED BY <2>1, <2>2, <2>3, <1>2
         DEF PoolInv, PoolFree, Conservation, Order, GrowInv, HoldInv, ItemInv
<1>3. CASE PoolSetThreads
  <2>1. TypeOK'
    BY <1>1, <1>3 DEF PoolSetThreads, TypeOK
  <2>2. NoAlias' /\ Order'
    BY <1>1, <1>3 DEF PoolSetThreads, NoAlias, Order
  <2>3. \A t \in Threads : pc'[t] = "idle" /\ hold'[t] = NoBuffer
    BY <1>1, <1>3 DEF PoolSetThreads, Unused, PcInv
  <2>4. PcInv' /\ GrowInv'
    BY <2>3 DEF PcInv, GrowInv
  <2>5. HoldInv' /\ ItemInv'
    BY <1>3, <2>3 DEF PoolSetThreads, HoldInv, ItemInv
  <2>6. Live' = {}
    BY <1>3, <2>3 DEF PoolSetThreads, Live, Queued, Held
  <2>7. Conservation'
    BY <1>3, <2>6, FS_EmptySet DEF PoolSetThreads, Conservation
  <2> QED BY <2>1, <2>2, <2>4, <2>5, <2>7 DEF PoolInv
<1>4. ASSUME NEW t \in Threads, PutInvalid(t) PROVE PoolInv'
  <2>1. /\ ~valid' /\ UNCHANGED <<valid, elements, queues, load, seen, got, put>>
        /\ \A s \in Threads : /\ pc'[s] = IF s = t THEN "idle" ELSE pc[s]
                              /\ hold'[s] = IF s = t THEN NoBuffer ELSE hold[s]
    BY <1>1, <1>4 DEF PutInvalid, Goto, TypeOK
  <2>2. TypeOK'
    BY <1>1, <1>4 DEF PutInvalid, Goto, TypeOK
  <2>3. NoAlias'
    <3>1. \A i \in Ids : \A k \in 1 .. Len(queues[i]) : queues[i][k] # NoBuffer
      <4>1. \A i \in Ids : queues[i] \in Seq(Buffers)
        BY <1>1 DEF TypeOK
      <4> QED BY <4>1
    <3>2. /\ \A s \in Threads, i \in Ids : \A k \in 1 .. Len(queues[i]) :
                hold'[s] # queues[i][k]
          /\ \A s, u \in Threads : hold'[s] = hold'[u] /\ hold'[s] # NoBuffer => s = u
      BY <3>1, <2>1, <1>1 DEF NoAlias
    <3> QED BY <3>2, <2>1, <1>1, SMTT(20) DEF NoAlias
  <2>4. PcInv'
    BY <2>1, <1>1 DEF PcInv
  <2> QED BY <2>1, <2>2, <2>3, <2>4
         DEF PoolInv, Conservation, Order, GrowInv, HoldInv, ItemInv
<1> QED BY <1>2, <1>3, <1>4

LEMMA GetInv ==
    ASSUME PoolAssumption, OneThreadPerId, PoolInv, NEW t \in Threads,
           Get(t) \/ Pop(t) \/ Wake(t)
    PROVE  PoolInv'
<1>1. valid /\ pc[t] \in {"idle", "pop", "wait"}
  BY DEF PoolInv, PcInv, Get, Pop, Wake
<1>2. CASE Obtain(t)
  BY <1>1, <1>2, ObtainInv
<1>3. CASE \E l \in {"pop", "wait", "idle"} : Move(t, l)
  BY <1>1, <1>3, MoveInv
<1>4. CASE /\ pc[t] = "idle" /\ stage[t] = 0 /\ elements < MaxElements
           /\ seen' = [seen EXCEPT ![t] = elements]
           /\ pc' = [pc EXCEPT ![t] = "grow"]
           /\ UNCHANGED <<valid, elements, queues, load, hold, got, put>>
  BY <1>1, <1>4, TestInv
<1> QED BY <1>2, <1>3, <1>4 DEF Get, Pop, Wake, Goto

LEMMA NextInv ==
    ASSUME PoolAssumption, OneThreadPerId, PoolInv, [Next]_poolVars
    PROVE  PoolInv'
<1>1. CASE UNCHANGED poolVars
  BY <1>1 DEF poolVars, PoolInv, TypeOK, NoAlias, Conservation, Order, PcInv,
              GrowInv, HoldInv, ItemInv, Live, Queued, Held
<1>2. CASE Next
  BY <1>2, GetInv, GrowStepInv, PutInv, ClosedInv DEF Next, ThreadStep
<1> QED BY <1>1, <1>2
-----------------------------------------------------------------------------
(* With at most one thread per stage, every reachable state of the pool    *)
(* satisfies the inductive invariant.                                      *)
THEOREM PoolInvariant ==
    ASSUME PoolAssumption, OneThreadPerId
    PROVE  Spec => []PoolInv
<1>1. Init => PoolInv
  BY InitInv
<1>2. PoolInv /\ [Next]_poolVars => PoolInv'
  BY NextInv
<1> QED BY <1>1, <1>2, PTL DEF Spec

(* Type correctness of the pool.                                           *)
THEOREM PoolTypeCorrect ==
    ASSUME PoolAssumption, OneThreadPerId
    PROVE  Spec => []TypeOK
<1>1. PoolInv => TypeOK
  BY DEF PoolInv
<1> QED BY <1>1, PoolInvariant, PTL

(* No buffer is ever shared by two threads, or owned and queued at once.   *)
THEOREM NoAliasHolds ==
    ASSUME PoolAssumption, OneThreadPerId
    PROVE  Spec => []NoAlias
<1>1. PoolInv => NoAlias
  BY DEF PoolInv
<1> QED BY <1>1, PoolInvariant, PTL

(* The pool never owns more than max_elements buffers, and its counter is  *)
(* exact.                                                                  *)
THEOREM ConservationHolds ==
    ASSUME PoolAssumption, OneThreadPerId
    PROVE  Spec => []Conservation
<1>1. PoolInv => Conservation
  BY DEF PoolInv
<1> QED BY <1>1, PoolInvariant, PTL

(* Every queue holds its items in order and without a gap.                 *)
THEOREM OrderHolds ==
    ASSUME PoolAssumption, OneThreadPerId
    PROVE  Spec => []Order
<1>1. PoolInv => Order
  BY DEF PoolInv
<1> QED BY <1>1, PoolInvariant, PTL
-----------------------------------------------------------------------------
(* When stage 0 is about to queue an item, the items still in flight are   *)
(* in buffers other than the one it owns, so there is room for one more.   *)
LEMMA RoomToPut ==
    ASSUME PoolAssumption, PoolInv, valid, NEW t \in Threads,
           pc[t] = "hold", stage[t] = 0
    PROVE  put[0] - put[Last] < MaxElements
<1> USE PoolAssumption DEF PoolAssumption, Ids, Last
<1> DEFINE Others == Live \ {hold[t]}
           InFlight == put[Last] + 1 .. put[0]
           Carrier == [x \in InFlight |-> CHOOSE b \in Live : load[b] = x]
<1>1. TypeOK /\ put[0] \in Nat /\ put[Last] \in Nat /\ put[Last] <= put[0]
  <2>1. 0 \in Ids /\ Last \in Ids
    OBVIOUS
  <2>2. TypeOK /\ \A i \in Ids : put[i] <= put[0]
    BY DEF PoolInv, ItemInv
  <2>3. put[0] \in Nat /\ put[Last] \in Nat
    BY <2>1, <2>2 DEF TypeOK
  <2> QED BY <2>1, <2>2, <2>3
<1>2. /\ IsFiniteSet(Live) /\ Cardinality(Live) <= MaxElements
      /\ hold[t] \in Live /\ load[hold[t]] = 0
  BY <1>1 DEF PoolInv, Conservation, HoldInv, PcInv, TypeOK, Live, Held
<1>3. /\ IsFiniteSet(Others)
      /\ Cardinality(Others) = Cardinality(Live) - 1
  BY <1>2, FS_RemoveElement
<1>4. ASSUME NEW x \in InFlight
      PROVE  Carrier[x] \in Others /\ load[Carrier[x]] = x
  <2>1. x \in 1 .. put[0] /\ put[Last] < x
    BY <1>1
  <2>2. \E b \in Live : load[b] = x
    BY <2>1 DEF PoolInv, ItemInv
  <2>3. Carrier[x] \in Live /\ load[Carrier[x]] = x
    BY <2>2
  <2> QED BY <2>1, <2>3, <1>2
<1>5. Carrier \in Injection(InFlight, Others)
  <2> HIDE DEF InFlight, Others
  <2>1. Carrier \in [InFlight -> Others]
    BY <1>4
  <2>2. \A x, y \in InFlight : Carrier[x] = Carrier[y] => x = y
    <3> HIDE DEF Carrier
    <3> QED BY <1>4
  <2> HIDE DEF Carrier
  <2> QED BY <2>1, <2>2 DEF Injection, IsInjective
<1>6. IsFiniteSet(InFlight) /\ Cardinality(InFlight) <= Cardinality(Others)
  BY <1>3, <1>5, FS_Injection
<1>7. Cardinality(InFlight) = put[0] - put[Last]
  <2>1. put[Last] + 1 \in Int /\ put[0] \in Int
    BY <1>1
  <2>2. Cardinality(InFlight) =
           IF put[Last] + 1 > put[0] THEN 0 ELSE put[0] - (put[Last] + 1) + 1
    BY <2>1, FS_Interval
  <2> QED BY <1>1, <2>2
<1>8. Cardinality(Live) \in Nat
  BY <1>2, FS_CardinalityType
<1> QED BY <1>1, <1>2, <1>3, <1>6, <1>7, <1>8

(* The pool implements the bounded FIFO channel: every step of a stage is  *)
(* a step of the channel or leaves it alone.                               *)
THEOREM PoolImplementsChannel ==
    ASSUME PoolAssumption, OneThreadPerId
    PROVE  Spec => ImplementsChannel
<1> USE PoolAssumption DEF PoolAssumption, Ids, Last
<1>1. Init => Channel!Init
  BY DEF Init, Channel!Init
<1>2. ASSUME PoolInv, [Next]_poolVars
      PROVE  [Channel!Next]_(Channel!chanVars)
  <2> USE DEF Channel!chanVars
  <2>0. /\ TypeOK /\ 0 \in Ids /\ Last \in Ids /\ 0 # Last
        /\ put[0] \in Nat /\ put[Last] \in Nat /\ got[Last] \in Nat
    <3>1. TypeOK
      BY <1>2 DEF PoolInv
    <3>2. 0 \in Ids /\ Last \in Ids /\ 0 # Last
      OBVIOUS
    <3> QED BY <3>1, <3>2 DEF TypeOK
  <2>1. CASE UNCHANGED poolVars
    BY <2>1 DEF poolVars
  <2>2. ASSUME NEW t \in Threads, Obtain(t), pc[t] # "hold", valid
        PROVE  Channel!Take \/ UNCHANGED Channel!chanVars
    <3>1. CASE stage[t] # Last
      BY <3>1, <2>0, <2>2 DEF Obtain, TypeOK
    <3>2. CASE stage[t] = Last
      <4>1. got[Last] = put[Last]
        BY <3>2, <2>0, <2>2, <1>2 DEF PoolInv, HoldInv, OneThreadPerId
      <4>2. queues[Last] \in Seq(Buffers) /\ queues[Last] # <<>>
        BY <3>2, <2>0, <2>2 DEF TypeOK, Obtain
      <4>3. Len(queues[Last]) >= 1 /\ Len(queues[Last]) \in Nat
            /\ Head(queues[Last]) = queues[Last][1]
        BY <4>2, TailFacts
      <4>4. /\ load[queues[Last][1]] = got[Last] + 1
            /\ Len(queues[Last]) + got[Last] = put[Last - 1]
        <5>1. Last \in Ids \ {0} /\ 1 \in 1 .. Len(queues[Last])
          BY <2>0, <4>3
        <5>2. /\ Len(queues[Last]) + got[Last] = put[Last - 1]
              /\ \A k \in 1 .. Len(queues[Last]) : load[queues[Last][k]] = got[Last] + k
          BY <5>1, <2>2, <1>2 DEF PoolInv, Order
        <5> QED BY <5>1, <5>2
      <4>5. put[Last - 1] <= put[0]
        <5>1. Last - 1 \in Ids
          OBVIOUS
        <5> QED BY <5>1, <1>2, <2>2 DEF PoolInv, ItemInv
      <4>6. got[Last] < put[0]
        BY <4>3, <4>4, <4>5, <2>0, SMTT(20) DEF TypeOK
      <4>7. got'[Last] = got[Last] + 1 /\ put' = put /\ valid' = valid
        BY <3>2, <4>3, <4>4, <2>0, <2>2 DEF Obtain, TypeOK
      <4> QED BY <4>1, <4>6, <4>7, <2>2 DEF Channel!Take
    <3> QED BY <3>1, <3>2
  <2>3. ASSUME NEW t \in Threads, PutUnlock(t)
        PROVE  Channel!Put \/ Channel!Return \/ UNCHANGED Channel!chanVars
    <3>1. /\ valid /\ valid' = valid /\ got' = got /\ pc[t] = "hold"
          /\ \A i \in Ids : put'[i] = IF i = stage[t] THEN Item(i, hold[t]) ELSE put[i]
      BY <2>0, <2>3 DEF PutUnlock, TypeOK
    <3>2. CASE stage[t] = 0
      <4>1. put[0] - put[Last] < MaxElements
        BY <3>1, <3>2, <1>2, RoomToPut
      <4> QED BY <4>1, <3>1, <3>2, <2>0 DEF Channel!Put, Item
    <3>3. CASE stage[t] = Last
      <4>1. load[hold[t]] = got[Last] /\ got[Last] = put[Last] + 1
        BY <3>1, <3>3, <2>0, <1>2 DEF PoolInv, HoldInv
      <4> QED BY <4>1, <3>1, <3>3, <2>0 DEF Channel!Return, Item
    <3>4. CASE stage[t] # 0 /\ stage[t] # Last
      BY <3>1, <3>4, <2>0
    <3> QED BY <3>2, <3>3, <3>4
  <2>4. CASE PoolFree
    BY <2>4 DEF PoolFree, Channel!Close, Channel!Next
  <2>5. CASE PoolSetThreads
    BY <2>5, <2>0 DEF PoolSetThreads, Channel!Reopen, Channel!Next
  <2>6. ASSUME NEW t \in Threads, ThreadStep(t)
        PROVE  [Channel!Next]_(Channel!chanVars)
    <3>1. pc[t] = "hold" \/ pc[t] = "idle" \/ valid
      BY <1>2, <2>6 DEF PoolInv, PcInv, ThreadStep, Get, Grow, Pop, Wake, PutUnlock,
                        PutInvalid
    <3>2. CASE Grow(t) \/ PutInvalid(t)
      BY <3>2 DEF Grow, PutInvalid
    <3>3. CASE PutUnlock(t)
      BY <3>3, <2>3 DEF Channel!Next
    <3>4. CASE Get(t) \/ Pop(t) \/ Wake(t)
      <4>1. valid /\ pc[t] # "hold"
        BY <3>4, <1>2 DEF PoolInv, PcInv, Get, Pop, Wake
      <4>2. CASE Obtain(t)
        BY <4>1, <4>2, <2>2 DEF Channel!Next
      <4>3. CASE ~Obtain(t)
        BY <3>4, <4>3 DEF Get, Pop, Wake, Move
      <4> QED BY <4>2, <4>3
    <3> QED BY <2>6, <3>2, <3>3, <3>4 DEF ThreadStep
  <2> QED BY <1>2, <2>1, <2>4, <2>5, <2>6 DEF Next
<1> QED BY <1>1, <1>2, PoolInvariant, PTL DEF Spec, ImplementsChannel, Channel!Spec
=============================================================================
