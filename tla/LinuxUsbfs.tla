----------------------------- MODULE LinuxUsbfs -----------------------------
(***************************************************************************)
(* libusb's Linux backend, os/linux_usbfs.c: one transfer and the URBs     *)
(* that it is split into.  One thread submits the transfer, another reaps  *)
(* URBs in libusb_handle_events, a third may cancel it at any moment.      *)
(*                                                                         *)
(* The kernel (usbfs) is external.  URBs of an endpoint complete in the    *)
(* order of their submission.  After an error the endpoint halts; a URB    *)
(* submitted as a bulk continuation is then cancelled, or refused with     *)
(* EREMOTEIO.  A discarded URB completes at once.                          *)
(*                                                                         *)
(* Data is counted in units: the n-th unit that the device sends is n.     *)
(***************************************************************************)
EXTENDS Integers, SequencesExt, FiniteSetsExt

CONSTANTS Transfers,   \* the transfers that may be submitted
          MaxBulk,     \* MAX_BULK_BUFFER_LENGTH, in units
          MaxIso,      \* MAX_ISO_BUFFER_LENGTH, in units
          MaxControl,  \* MAX_CTRL_BUFFER_LENGTH, in units
          MaxFaults    \* bound: errors of the device and of the kernel

Capabilities == {"BULK_SCATTER_GATHER", "BULK_CONTINUATION",
                 "NO_PACKET_SIZE_LIM", "ZERO_PACKET", "REAP_AFTER_DISCONNECT"}

ASSUME UsbfsAssumption ==
    /\ MaxBulk \in Nat \ {0}
    /\ Transfers \subseteq
         [type : {"bulk", "interrupt", "control", "iso"}, length : Nat,
          packets : Seq(Nat), out : BOOLEAN, zero : BOOLEAN, exact : BOOLEAN,
          caps : SUBSET Capabilities]

VARIABLES
    transfer,     \* struct libusb_transfer
    stage,        \* "idle", "submitting", "flying", "refused" or "reported"
    outcome,      \* what the submission returned or the callback was told
    transferred,  \* itransfer->transferred
    buffer,       \* transfer->buffer; of an isochronous transfer, the results
                  \* in iso_packet_desc
    disappeared,  \* USBI_TRANSFER_DEVICE_DISAPPEARED
    tpriv,        \* struct linux_transfer_priv
    lock,         \* who holds itransfer->lock
    next,         \* submit: the URB to be submitted
    discard,      \* discard_urbs: the loop of whoever holds the lock
    reaping,      \* the URB that the event handler has reaped
    ending,       \* the status that the event handler is about to report
    cancel,       \* libusb_cancel_transfer: "uncalled" or what it returned
    pending,      \* kernel: URBs submitted, not complete
    completed,    \* kernel: complete, not reaped: the URB, its status, data
    endpoint,     \* kernel: "ok", "halted" or "disabled" (no continuation)
    device,       \* "attached", "gone", or "known" to be gone
    received,     \* units that the device has sent
    faults

user == <<transfer, stage, outcome, transferred, buffer, disappeared>>
priv == <<tpriv, lock, next, discard, reaping, ending, cancel>>
kernel == <<pending, completed, endpoint, device, received, faults>>
vars == <<user, priv, kernel>>

---------------------------------------------------------------------------
(* Splitting a transfer into URBs.                                         *)

bulk_buffer_len(t) ==
    IF \/ "BULK_SCATTER_GATHER" \in t.caps
       \/ /\ "NO_PACKET_SIZE_LIM" \in t.caps
          /\ "BULK_CONTINUATION" \notin t.caps
    THEN IF t.length = 0 THEN 1 ELSE t.length
    ELSE MaxBulk

use_bulk_continuation(t) ==
    "BULK_CONTINUATION" \in t.caps /\ "BULK_SCATTER_GATHER" \notin t.caps

num_urbs(t) ==
    LET len == bulk_buffer_len(t)
    IN IF t.length = 0 THEN 1
       ELSE t.length \div len + (IF t.length % len > 0 THEN 1 ELSE 0)

BulkFlags(t, i) ==
    {f \in {"SHORT_NOT_OK", "BULK_CONTINUATION", "ZERO_PACKET"} :
        CASE f = "SHORT_NOT_OK" ->
               use_bulk_continuation(t) /\ ~t.out /\ i < num_urbs(t)
          [] f = "BULK_CONTINUATION" -> use_bulk_continuation(t) /\ i > 1
          [] OTHER -> t.out /\ t.zero /\ i = num_urbs(t)}

(* Mutant: the last URB is never partial.                                  *)
BulkUrbsFull(t) ==
    [i \in 1 .. num_urbs(t) |->
        [index |-> i, at |-> (i - 1) * bulk_buffer_len(t),
         flags |-> BulkFlags(t, i), length |-> bulk_buffer_len(t)]]

BulkUrbs(t) ==
    LET len == bulk_buffer_len(t)
    IN [i \in 1 .. num_urbs(t) |->
          [index |-> i, at |-> (i - 1) * len, flags |-> BulkFlags(t, i),
           length |-> IF t.length = 0 THEN 0
                      ELSE IF i = num_urbs(t) /\ t.length % len > 0
                      THEN t.length % len ELSE len]]

(* An isochronous URB takes as many packets as fit: the next packet goes   *)
(* to the last URB, or to a new one.  at is the first packet of a URB,     *)
(* length the number of its packets, size their length.                    *)
Swallow(us, len) ==
    IF len > MaxIso - Last(us).size
    THEN Append(us, [at |-> Last(us).at + Last(us).length,
                     length |-> 1, size |-> len])
    ELSE [us EXCEPT ![Len(us)].length = @ + 1,
                    ![Len(us)].size = @ + len]

IsoUrbs(t) ==
    LET split[k \in 0 .. Len(t.packets)] ==
            IF k = 0 THEN <<[at |-> 0, length |-> 0, size |-> 0]>>
            ELSE Swallow(split[k - 1], t.packets[k])
        us == split[Len(t.packets)]
    IN [i \in DOMAIN us |-> [index |-> i, at |-> us[i].at, flags |-> {},
                             length |-> us[i].length]]

Urbs(t) ==
    IF t.type = "iso" THEN IsoUrbs(t)
    ELSE IF t.type = "control"
    THEN <<[index |-> 1, at |-> 0, flags |-> {}, length |-> t.length]>>
    ELSE BulkUrbs(t)

Size(t) == IF t.type = "iso" THEN Len(t.packets) ELSE t.length

(* What the backend refuses before it asks the kernel.                     *)
Unsupported(t) ==
    \/ t.type = "control" /\ t.length > MaxControl
    \/ t.type = "iso" /\ \E i \in DOMAIN t.packets : t.packets[i] > MaxIso
    \/ /\ t.type \in {"bulk", "interrupt"} /\ t.out /\ t.zero
       /\ "ZERO_PACKET" \notin t.caps

---------------------------------------------------------------------------
NoTransfer == [type |-> "none", length |-> 0, packets |-> <<>>, out |-> FALSE,
               zero |-> FALSE, exact |-> FALSE, caps |-> {}]
NoPriv == [urbs |-> <<>>, reap_action |-> "normal", num_retired |-> 0,
           reap_status |-> "completed", iso_packet_offset |-> 0]
NotDiscarding == [next |-> 0, first |-> 1, last |-> 0, ret |-> "success"]
NoUrb == [index |-> 0, at |-> 0, flags |-> {}, length |-> 0]
NotReaping == [urb |-> NoUrb, status |-> "ok", data |-> <<>>]

Init ==
    /\ transfer = NoTransfer /\ stage = "idle" /\ outcome = "none"
    /\ transferred = 0 /\ buffer = <<>> /\ disappeared = FALSE
    /\ tpriv = NoPriv /\ lock = "none" /\ next = 0
    /\ discard = NotDiscarding /\ reaping = NotReaping
    /\ ending = "none" /\ cancel = "uncalled"
    /\ pending = <<>> /\ completed = <<>> /\ endpoint = "ok"
    /\ device = "attached" /\ received = 0 /\ faults = 0

---------------------------------------------------------------------------
(* The kernel and the device.                                              *)

Bulk == transfer.type \in {"bulk", "interrupt"}
Iso == transfer.type = "iso"

(* A complete URB with its first n units of data, and the results of the   *)
(* packets of an isochronous one: k for the k-th packet, 0 for none.       *)
Complete(u, s, n) ==
    [urb |-> u, status |-> s,
     data |-> IF Iso
              THEN [j \in 1 .. u.length |-> IF j <= n THEN u.at + j ELSE 0]
              ELSE [j \in 1 .. n |-> received + j]]

(* After an error the URBs behind it stay where they are, unless they are  *)
(* continuations: those are cancelled, and the next ones refused.          *)
Finish(u, s, n) ==
    LET stops == s # "ok" /\ ~Iso
        unlinks == stops /\ use_bulk_continuation(transfer) /\ Bulk
        rest == IF unlinks THEN <<>> ELSE Tail(pending)
        unlinked == IF unlinks THEN Tail(pending) ELSE <<>>
    IN /\ pending' = rest
       /\ completed' =
            Append(completed, Complete(u, s, n))
              \o [i \in DOMAIN unlinked |-> Complete(unlinked[i], "killed", 0)]
       /\ endpoint' = IF unlinks THEN "disabled"
                      ELSE IF stops THEN "halted" ELSE endpoint
       /\ received' = received + n

Fault == faults < MaxFaults /\ faults' = faults + 1

(* Only the last URB can overflow (linux_usbfs.c:2380).                    *)
UrbCompletes ==
    /\ device = "attached" /\ endpoint = "ok" /\ pending # <<>>
    /\ LET u == Head(pending)
       IN \/ Finish(u, "ok", u.length) /\ UNCHANGED faults
          \/ /\ ~transfer.out /\ ~Iso
             /\ \E n \in 0 .. u.length - 1 :
                  Finish(u, IF "SHORT_NOT_OK" \in u.flags THEN "short"
                            ELSE "ok", n)
             /\ UNCHANGED faults
          \/ /\ Fault
             /\ \E s \in {"stall", "overflow", "error"}, n \in 0 .. u.length - 1 :
                  /\ s = "overflow" => u.index = Len(Urbs(transfer))
                  /\ Finish(u, s, n)
    /\ UNCHANGED <<device, user, priv>>

DeviceGone ==
    /\ device = "attached" /\ device' = "gone"
    /\ completed' = completed \o
         [i \in DOMAIN pending |-> Complete(pending[i], "gone", 0)]
    /\ pending' = <<>>
    /\ UNCHANGED <<endpoint, received, faults, user, priv>>

---------------------------------------------------------------------------
(* discard_urbs(first, last): one URB at a time, from the last one.        *)

StartDiscard(first, last) ==
    discard' = [next |-> last, first |-> first, last |-> last,
                ret |-> "success"]
Discarding == discard.next >= discard.first

DiscardUrb ==
    /\ lock # "none" /\ Discarding
    /\ LET u == discard.next
           waiting == {i \in DOMAIN pending : pending[i].index = u}
           ret == IF device # "attached" THEN "no_device"
                  ELSE IF waiting = {} /\ u = discard.last THEN "not_found"
                  ELSE discard.ret
       IN /\ discard' = [discard EXCEPT !.next = @ - 1, !.ret = ret]
          /\ IF waiting = {} THEN UNCHANGED <<pending, completed, received>>
             ELSE \E i \in waiting :
                    \E n \in 0 .. IF i = 1 /\ endpoint = "ok"
                                  THEN pending[i].length ELSE 0 :
                      /\ n = 0 \/ ~transfer.out
                      /\ pending' = RemoveAt(pending, i)
                      /\ completed' =
                           Append(completed, Complete(pending[i], "killed", n))
                      /\ received' = received + n
    /\ UNCHANGED <<endpoint, device, faults, user, tpriv, lock, next, reaping,
                   ending, cancel>>

---------------------------------------------------------------------------
(* libusb_submit_transfer and op_submit_transfer.                          *)

Refuse(r) ==
    /\ stage' = "refused" /\ outcome' = r
    /\ tpriv' = [tpriv EXCEPT !.urbs = <<>>]

Submit(t) ==
    /\ stage = "idle" /\ lock = "none" /\ transfer' = t
    /\ IF Unsupported(t)
       THEN Refuse("not_supported") /\ UNCHANGED <<lock, next, buffer>>
       ELSE /\ stage' = "submitting" /\ lock' = "submit" /\ next' = 1
            /\ tpriv' = [NoPriv EXCEPT !.urbs = Urbs(t)]
            /\ buffer' = [k \in 1 .. Size(t) |-> 0]
            /\ UNCHANGED outcome
    /\ UNCHANGED <<transferred, disappeared, discard, reaping, ending, cancel,
                   kernel>>

Submitting ==
    lock = "submit" /\ ~Discarding /\ next \in DOMAIN tpriv.urbs

Continuation == "BULK_CONTINUATION" \in tpriv.urbs[next].flags

SubmitUrb ==
    /\ Submitting /\ device = "attached"
    /\ ~(Continuation /\ endpoint = "disabled")
    /\ pending' = Append(pending, tpriv.urbs[next])
    /\ endpoint' = IF endpoint = "disabled" THEN "ok" ELSE endpoint
    /\ next' = next + 1
    /\ UNCHANGED <<completed, device, received, faults, user, tpriv, lock,
                   discard, reaping, ending, cancel>>

(* Mutant: the URBs that were not submitted are waited for.                *)
NotSubmittedWaited(n) == 0

(* The URBs that were not submitted count as retired.                      *)
NotSubmitted(n) == n - next + 1

(* The kernel refuses a URB.  When it is the first the transfer is         *)
(* refused, otherwise what was submitted is discarded, or awaited when the *)
(* kernel says that the transfer has ended early.                          *)
SubmitUrbFails ==
    /\ Submitting
    /\ \E errno \in {"ENODEV", "EREMOTEIO", "EIO"} :
         /\ CASE errno = "ENODEV" -> device # "attached" /\ UNCHANGED faults
              [] errno = "EREMOTEIO" ->
                   /\ device = "attached" /\ Continuation
                   /\ endpoint = "disabled" /\ UNCHANGED faults
              [] OTHER -> device = "attached" /\ Fault
         /\ IF next = 1
            THEN /\ Refuse(IF errno = "ENODEV" THEN "no_device" ELSE "io")
                 /\ lock' = "none" /\ UNCHANGED <<next, discard>>
            ELSE LET n == Len(tpriv.urbs)
                 IN /\ tpriv' = [tpriv EXCEPT
                         !.reap_action = IF errno = "EREMOTEIO" /\ Bulk
                                         THEN "completed_early"
                                         ELSE "submit_failed",
                         !.num_retired = NotSubmitted(n)]
                    /\ next' = n + 1
                    /\ IF errno = "EREMOTEIO" THEN UNCHANGED discard
                       ELSE StartDiscard(1, next - 1)
                    /\ UNCHANGED <<stage, outcome, lock>>
    /\ UNCHANGED <<transfer, transferred, buffer, disappeared, reaping, ending,
                   cancel, pending, completed, endpoint, device, received>>

(* The end of libusb_submit_transfer.                                      *)
EndSubmit ==
    /\ lock = "submit" /\ ~Discarding /\ next > Len(tpriv.urbs)
    /\ lock' = "none"
    /\ IF disappeared THEN Refuse("no_device")
       ELSE stage' = "flying" /\ UNCHANGED <<outcome, tpriv>>
    /\ UNCHANGED <<transfer, transferred, buffer, disappeared, next, discard,
                   reaping, ending, cancel, kernel>>

---------------------------------------------------------------------------
(* libusb_cancel_transfer and op_cancel_transfer.                          *)

Cancel ==
    /\ stage = "flying" /\ cancel = "uncalled" /\ lock = "none"
    /\ IF tpriv.urbs = <<>> THEN cancel' = "not_found" /\ UNCHANGED <<lock, discard>>
       ELSE /\ lock' = "cancel" /\ StartDiscard(1, Len(tpriv.urbs))
            /\ UNCHANGED cancel
    /\ UNCHANGED <<user, tpriv, next, reaping, ending, kernel>>

(* Mutant: the action stays.                                               *)
CancelActionKept == tpriv.reap_action

CancelAction ==
    IF transfer.type = "bulk" /\ tpriv.reap_action = "error" THEN "error"
    ELSE "cancelled"

EndCancel ==
    /\ lock = "cancel" /\ ~Discarding
    /\ lock' = "none" /\ cancel' = discard.ret
    /\ tpriv' = IF discard.ret = "success"
                THEN [tpriv EXCEPT !.reap_action = CancelAction] ELSE tpriv
    /\ UNCHANGED <<user, next, discard, reaping, ending, kernel>>

---------------------------------------------------------------------------
(* The event handler.                                                      *)

Idle == reaping = NotReaping /\ ending = "none"

(* reap_for_handle.  The kernel writes the data back and returns the URB.  *)
(* When the URBs have been freed this is undefined, and no step.           *)
Reap ==
    /\ Idle /\ completed # <<>> /\ tpriv.urbs # <<>>
    /\ device = "attached" \/ "REAP_AFTER_DISCONNECT" \in transfer.caps
    /\ reaping' = Head(completed)
    /\ completed' = Tail(completed)
    /\ LET u == reaping'.urb
           data == reaping'.data
       IN buffer' = IF Iso \/ transfer.out THEN buffer
                    ELSE [k \in DOMAIN buffer |->
                            IF k - u.at \in DOMAIN data THEN data[k - u.at]
                            ELSE buffer[k]]
    /\ UNCHANGED <<transfer, stage, outcome, transferred, disappeared, tpriv, lock,
                   next, discard, ending, cancel, pending, endpoint, device,
                   received, faults>>

(* A handler of a completion, which takes the lock; at its end the event   *)
(* handler looks for the next URB, or reports and frees the URBs.          *)
Handled == reaping' = NotReaping
Goon(p) == tpriv' = p /\ Handled /\ UNCHANGED <<ending, lock, discard>>
Done(p, status) ==
    /\ tpriv' = [p EXCEPT !.urbs = <<>>]
    /\ ending' = IF p.reap_action = "cancelled" THEN "cancelled" ELSE status
    /\ Handled /\ UNCHANGED <<lock, discard>>

Retire == [tpriv EXCEPT !.num_retired = @ + 1]
AllRetired(p) == p.num_retired = Len(p.urbs)

(* Mutant: the surplus stays where the URB put it.                         *)
SurplusStays(u, data) == buffer

(* Data of a URB behind the end goes behind the data that came before.     *)
Surplus(u, data) ==
    [k \in DOMAIN buffer |->
        IF k - transferred \in DOMAIN data
        THEN buffer[u.at + k - transferred] ELSE buffer[k]]

SurplusStatus(p) ==
    IF p.reap_action # "completed_early" /\ p.reap_status = "completed"
    THEN "error" ELSE p.reap_status

(* handle_bulk_completion, when the transfer is already ending.            *)
BulkSurplus ==
    /\ tpriv.reap_action # "normal"
    /\ buffer' = Surplus(reaping.urb, reaping.data)
    /\ transferred' = transferred + Len(reaping.data)
    /\ IF AllRetired(Retire) THEN Done(Retire, SurplusStatus(Retire))
       ELSE Goon(Retire)

(* Mutant: a stall or an overflow is no error.                             *)
AfterStall(p, status) ==
    IF status = "gone" THEN [p EXCEPT !.reap_status = "no_device"] ELSE p

(* What the status of a URB makes of the transfer's action and status.     *)
After(p, status) ==
    LET Keep(s) == IF p.reap_status = "completed" THEN s ELSE p.reap_status
    IN CASE status = "gone" -> [p EXCEPT !.reap_status = "no_device"]
         [] status \in {"stall", "overflow"} ->
              [p EXCEPT !.reap_status = Keep(status)]
         [] status = "error" ->
              [p EXCEPT !.reap_action = "error", !.reap_status = Keep("error")]
         [] OTHER -> p

(* Discard the URBs behind this one; the lock is held until that is done.  *)
CancelRemaining(p) ==
    IF AllRetired(p) THEN Done(p, p.reap_status)
    ELSE /\ tpriv' = p /\ Handled /\ UNCHANGED ending
         /\ lock' = "reap"
         /\ StartDiscard(reaping.urb.index + 1, Len(p.urbs))

EndReap ==
    /\ lock = "reap" /\ ~Discarding /\ lock' = "none"
    /\ UNCHANGED <<user, tpriv, next, discard, reaping, ending, cancel, kernel>>

(* handle_bulk_completion, before any URB has ended the transfer.          *)
BulkNormal ==
    /\ tpriv.reap_action = "normal"
    /\ transferred' = transferred + Len(reaping.data)
    /\ UNCHANGED buffer
    /\ LET u == reaping.urb
           p == After(Retire, reaping.status)
           short == Len(reaping.data) < u.length
       IN \/ /\ reaping.status \in {"ok", "short", "killed"}
             /\ \/ u.index = Len(p.urbs) /\ Done(p, p.reap_status)
                \/ /\ u.index < Len(p.urbs) /\ short
                   /\ CancelRemaining([p EXCEPT !.reap_action = "completed_early"])
                \/ u.index < Len(p.urbs) /\ ~short /\ Goon(p)
          \/ reaping.status = "overflow" /\ Done(p, p.reap_status)
          \/ reaping.status \in {"gone", "stall", "error"} /\ CancelRemaining(p)

(* Mutant: the results go to the packets of the URB's own place.           *)
IsoOffsetFirst(p) == 0

IsoOffset(p) == p.iso_packet_offset

(* handle_iso_completion: the results are written one behind the other.    *)
IsoCompletion ==
    LET n == reaping.urb.length
        p == [Retire EXCEPT !.iso_packet_offset = @ + n]
        k == IsoOffset(tpriv)
    IN /\ buffer' = [i \in DOMAIN buffer |->
                       IF i - k \in 1 .. n THEN reaping.data[i - k]
                       ELSE buffer[i]]
       /\ UNCHANGED transferred
       /\ IF tpriv.reap_action # "normal"
          THEN IF AllRetired(p) THEN Done(p, "error") ELSE Goon(p)
          ELSE IF reaping.urb.index = Len(p.urbs)
          THEN Done(p, CASE reaping.status \in {"ok", "killed"} -> "completed"
                         [] reaping.status = "gone" -> "no_device"
                         [] OTHER -> "error")
          ELSE Goon(p)

(* handle_control_completion.                                              *)
ControlCompletion ==
    /\ transferred' = transferred + Len(reaping.data)
    /\ UNCHANGED buffer
    /\ Done(tpriv, CASE reaping.status = "ok" -> "completed"
                     [] reaping.status = "killed" -> "cancelled"
                     [] reaping.status = "gone" -> "no_device"
                     [] OTHER -> reaping.status)

HandleCompletion ==
    /\ reaping # NotReaping /\ lock = "none"
    /\ \/ Bulk /\ BulkSurplus
       \/ Bulk /\ BulkNormal
       \/ Iso /\ IsoCompletion
       \/ transfer.type = "control" /\ ControlCompletion
    /\ UNCHANGED <<transfer, stage, outcome, disappeared, next, cancel, kernel>>

(* op_handle_events: the poll says that the device is gone.  A kernel that *)
(* does not return URBs any more makes libusb end the transfer itself      *)
(* (usbi_handle_disconnect).                                               *)
HandleDisconnect ==
    /\ Idle /\ device = "gone" /\ device' = "known"
    /\ IF \/ "REAP_AFTER_DISCONNECT" \in transfer.caps
          \/ stage \notin {"submitting", "flying"}
       THEN UNCHANGED <<disappeared, tpriv, ending>>
       ELSE IF stage = "submitting"
       THEN disappeared' = TRUE /\ UNCHANGED <<tpriv, ending>>
       ELSE /\ lock = "none" /\ UNCHANGED disappeared
            /\ tpriv' = [tpriv EXCEPT !.urbs = <<>>] /\ ending' = "no_device"
    /\ UNCHANGED <<transfer, stage, outcome, transferred, buffer, lock, next,
                   discard, reaping, cancel, pending, completed, endpoint,
                   received, faults>>

(* usbi_handle_transfer_completion.                                        *)
Report ==
    /\ ending # "none" /\ ending' = "none"
    /\ stage' = "reported"
    /\ outcome' = IF /\ ending = "completed" /\ transfer.exact
                     /\ transferred # transfer.length
                  THEN "error" ELSE ending
    /\ UNCHANGED <<transfer, transferred, buffer, disappeared, tpriv, lock, next,
                   discard, reaping, cancel, kernel>>

---------------------------------------------------------------------------
Next ==
    \/ \E t \in Transfers : Submit(t)
    \/ SubmitUrb \/ SubmitUrbFails \/ EndSubmit
    \/ Cancel \/ EndCancel \/ DiscardUrb
    \/ Reap \/ HandleCompletion \/ EndReap \/ HandleDisconnect \/ Report
    \/ UrbCompletes \/ DeviceGone

(* Threads run, and the event handler is called again and again.  Nothing  *)
(* makes the device complete a URB, or a user cancel.                      *)
Fairness ==
    /\ WF_vars(SubmitUrb \/ SubmitUrbFails \/ EndSubmit)
    /\ WF_vars(EndCancel) /\ WF_vars(DiscardUrb)
    /\ WF_vars(Reap) /\ WF_vars(HandleCompletion) /\ WF_vars(EndReap)
    /\ WF_vars(HandleDisconnect) /\ WF_vars(Report)

Spec == Init /\ [][Next]_vars /\ Fairness

---------------------------------------------------------------------------
Statuses == {"ok", "short", "killed", "gone", "stall", "overflow", "error"}
Outcomes == {"none", "completed", "cancelled", "no_device", "stall", "overflow",
             "error", "io", "not_supported"}
Entries(s) == {s[i].urb.index : i \in DOMAIN s}

(* A URB is with the kernel, or complete, or in the hands of the event     *)
(* handler, once; results stay inside the buffer.                          *)
TypeOK ==
    /\ transfer \in Transfers \cup {NoTransfer}
    /\ stage \in {"idle", "submitting", "flying", "refused", "reported"}
    /\ outcome \in Outcomes /\ ending \in Outcomes
    /\ transferred \in 0 .. transfer.length
    /\ lock \in {"none", "submit", "reap", "cancel"}
    /\ cancel \in {"uncalled", "success", "not_found", "no_device"}
    /\ tpriv.reap_action \in {"normal", "submit_failed", "cancelled",
                              "completed_early", "error"}
    /\ tpriv.reap_status \in Outcomes
    /\ tpriv.urbs # <<>> /\ transfer.type # "control" =>
         tpriv.num_retired \in 0 .. Len(tpriv.urbs)
    /\ reaping.status \in Statuses
    /\ Len(pending) + Len(completed) =
         Cardinality({pending[i].index : i \in DOMAIN pending}
                       \cup Entries(completed))

(* When libusb reports a transfer of a device to the host, its buffer      *)
(* begins with what the device sent, in order and without holes, however   *)
(* the URBs ended: "our objectives are not to lose any surplus data, and   *)
(* also to stick it at the end of the previously-received data"            *)
(* (linux_usbfs.c:2329-2333).  Nothing that came is missing, once every    *)
(* URB is back.                                                            *)
DataContiguous ==
    stage = "reported" /\ Bulk /\ ~transfer.out =>
      /\ \A k \in 1 .. transferred : buffer[k] = k
      /\ completed = <<>> /\ pending = <<>> => transferred = received

(* The results of an isochronous transfer that nobody ended stand at the   *)
(* packets that they belong to.                                            *)
PacketsInPlace ==
    stage = "reported" /\ Iso /\ tpriv.reap_action = "normal" =>
      \A k \in DOMAIN buffer : buffer[k] \in {0, k}

(* A transfer whose cancellation succeeded is reported as cancelled, or    *)
(* with the error that came before, and never as complete.                 *)
CancelHonoured ==
    stage = "reported" /\ cancel = "success" =>
      outcome \in {"cancelled", "error", "no_device"}

(* A transfer that is reported complete, and that no URB ended early, met  *)
(* no error; one of the host to the device is all there, and so is one of  *)
(* which the user wants all (LIBUSB_TRANSFER_SHORT_NOT_OK).  (Not when the *)
(* device goes while the URBs are discarded one by one: the cancellation   *)
(* is then called off, with some of them discarded.)                       *)
CompleteMeansComplete ==
    stage = "reported" /\ outcome = "completed" /\ ~Iso =>
      /\ tpriv.reap_action = "normal" /\ cancel # "no_device" =>
           faults = 0 /\ (transfer.out => transferred = transfer.length)
      /\ transfer.exact => transferred = transfer.length

(* What must end ends: after a cancellation, a URB that failed or came     *)
(* short, a submission that failed halfway, or the loss of the device,     *)
(* every URB comes back, is counted, and the transfer is reported.         *)
Ending ==
    /\ stage = "flying"
    /\ tpriv.reap_action # "normal" \/ device # "attached"
EndingReported == Ending ~> stage = "reported"

(* However a transfer was split and ended, its results are where they      *)
(* belong and inside its buffer, and each URB is with one owner.           *)
ResultsInPlace == TypeOK /\ DataContiguous /\ PacketsInPlace

(* A transfer is reported as what it was (usbi_handle_transfer_completion, *)
(* usbi_handle_transfer_cancellation).                                     *)
ReportTrue == CancelHonoured /\ CompleteMeansComplete

(* "EREMOTEIO means that this transfer simply didn't need all the URBs we  *)
(* submitted" (linux_usbfs.c:2006): where the kernel has continuations, a  *)
(* transfer that an error ended is not reported as complete.               *)
(* Does not hold: EREMOTEIO is also what a URB after a stall is refused    *)
(* with.                                                                   *)
NoErrorComplete ==
    /\ stage = "reported" /\ outcome = "completed" /\ Bulk
    /\ use_bulk_continuation(transfer)
    => faults = 0

(* "cancel remaining urbs and wait for their completion before reporting   *)
(* results" (linux_usbfs.c:2420): a transfer is reported, and its URBs     *)
(* freed, when the kernel has none of them any more.                       *)
(* Does not hold: after a stall, discarded URBs come back in the reverse   *)
(* order, and the first of them reports the transfer.                      *)
UrbsWaitedFor ==
    stage = "reported" /\ device = "attached" =>
      pending = <<>> /\ completed = <<>>
=============================================================================
