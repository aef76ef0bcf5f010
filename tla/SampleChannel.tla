--------------------------- MODULE SampleChannel ----------------------------
(***************************************************************************)
(* What the work pool of rtlsdr/src/main/cpp/src/workpool.c promises to    *)
(* the TCP server that uses it: a bounded channel that loses, duplicates   *)
(* and reorders nothing while it is open.  Items are numbered in the order *)
(* in which the first stage queues them; item 1 is the dongle information  *)
(* block, the others are blocks of I/Q samples.                            *)
(*                                                                         *)
(*   in    number of items queued by the first stage                       *)
(*   out   number of the last item the last stage obtained                 *)
(*   done  number of the last item whose buffer was handed back            *)
(*   open  pool->valid                                                     *)
(*                                                                         *)
(* A buffer is occupied from the moment it is queued until it is handed    *)
(* back, so at most Capacity items are between `in' and `done'.            *)
(***************************************************************************)
EXTENDS Naturals

CONSTANT Capacity       \* pool->max_elements

VARIABLES in, out, done, open

chanVars == <<in, out, done, open>>

Init == in = 0 /\ out = 0 /\ done = 0 /\ open = TRUE

(* The first stage queues a filled buffer. *)
Put == /\ open
       /\ in - done < Capacity
       /\ in' = in + 1
       /\ UNCHANGED <<out, done, open>>

(* The last stage obtains the oldest item it has not seen. *)
Take == /\ open
        /\ out = done
        /\ out < in
        /\ out' = out + 1
        /\ UNCHANGED <<in, done, open>>

(* The last stage hands the buffer of the item it obtained back. *)
Return == /\ open
          /\ done < out
          /\ done' = out
          /\ UNCHANGED <<in, out, open>>

(* The pool is freed: whatever is in it is gone. *)
Close == /\ open
         /\ open' = FALSE
         /\ UNCHANGED <<in, out, done>>

Reopen == /\ ~open
          /\ in' = 0 /\ out' = 0 /\ done' = 0 /\ open' = TRUE

Next == Put \/ Take \/ Return \/ Close \/ Reopen

Spec == Init /\ [][Next]_chanVars
=============================================================================
