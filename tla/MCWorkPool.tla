----------------------------- MODULE MCWorkPool -----------------------------
(* Instances of WorkPool for TLC: who calls the pool with which id.        *)
EXTENDS WorkPool, TLC

CONSTANTS feeder, filter, sender

PipelineStage == feeder :> 0 @@ filter :> 1 @@ sender :> 2
=============================================================================
