------------------------------ MODULE MCSdrTcp ------------------------------
(* Instances of SdrTcp for TLC.                                            *)
EXTENDS SdrTcp
=============================================================================
