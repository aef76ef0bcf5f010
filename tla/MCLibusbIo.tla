----------------------------- MODULE MCLibusbIo -----------------------------
(***************************************************************************)
(* Two threads, of which one makes a transfer with a timeout.  Either      *)
(* transfer may be refused by the kernel.                                  *)
(***************************************************************************)
EXTENDS LibusbIo

CONSTANTS a, b
=============================================================================
