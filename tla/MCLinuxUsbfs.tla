---------------------------- MODULE MCLinuxUsbfs ----------------------------
(***************************************************************************)
(* Transfers of up to three URBs: bulk ones with each way of splitting,    *)
(* one with a partial last URB, with and without URBs that are returned    *)
(* after a disconnection; interrupt, control and isochronous ones; and     *)
(* one of each kind that is refused.                                       *)
(***************************************************************************)
EXTENDS LinuxUsbfs

BulkTransfer(length, caps) ==
    [NoTransfer EXCEPT !.type = "bulk", !.length = length, !.caps = caps]
Out(t) == [t EXCEPT !.out = TRUE, !.zero = TRUE]

MCTransfers ==
    {BulkTransfer(5, {}),
     BulkTransfer(6, {"BULK_CONTINUATION", "REAP_AFTER_DISCONNECT"}),
     BulkTransfer(3, {"BULK_SCATTER_GATHER"}),
     BulkTransfer(0, {"NO_PACKET_SIZE_LIM"}),
     [BulkTransfer(4, {"BULK_CONTINUATION"}) EXCEPT !.exact = TRUE],
     [BulkTransfer(4, {"REAP_AFTER_DISCONNECT"}) EXCEPT !.type = "interrupt"],
     Out(BulkTransfer(4, {"ZERO_PACKET"})), Out(BulkTransfer(4, {})),
     [NoTransfer EXCEPT !.type = "control", !.length = 2],
     [NoTransfer EXCEPT !.type = "control", !.length = 4],
     [NoTransfer EXCEPT !.type = "iso", !.packets = <<1, 1, 2, 1, 2>>],
     [NoTransfer EXCEPT !.type = "iso", !.packets = <<1, 4>>]}
=============================================================================
