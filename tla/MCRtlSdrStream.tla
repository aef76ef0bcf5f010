-------------------------- MODULE MCRtlSdrStream ----------------------------
(* Instances of RtlSdrStream for TLC.                                      *)
EXTENDS RtlSdrStream
=============================================================================
