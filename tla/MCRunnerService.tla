-------------------------- MODULE MCRunnerService ---------------------------
(* Instances of RunnerService for TLC.                                     *)
EXTENDS RunnerService

CONSTANTS d1, d2, d3

ThreeDevices == {d1, d2, d3}
=============================================================================
