-------------------------- MODULE MCUsbPermission ---------------------------
(* Two dongles, opened at the same time.                                   *)
EXTENDS UsbPermission

CONSTANTS d1, d2

MCDongles == {d1, d2}
=============================================================================
