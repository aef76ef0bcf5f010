---------------------------- MODULE MCLibusbCore ----------------------------
(***************************************************************************)
(* Two contexts, a dongle and the hub that it is plugged into.             *)
(***************************************************************************)
EXTENDS LibusbCore

CONSTANTS c1, c2, hub, dongle

MCParentOf == hub :> NoOne @@ dongle :> hub
=============================================================================
