----------------------------- MODULE LibusbCore -----------------------------
(***************************************************************************)
(* libusb's contexts, devices and hotplug monitor: core.c, hotplug.c and   *)
(* os/linux_netlink.c, with the parts of os/linux_usbfs.c that add and     *)
(* remove devices, driven as librtlsdr drives them.                        *)
(*                                                                         *)
(* Each context has an application thread, which opens one dongle by its   *)
(* path (rtlsdr_open2) or from the list of devices (rtlsdr_open), closes   *)
(* it and exits the context, and an event thread, which takes hotplug      *)
(* messages and notices that the dongle has gone.  One monitor thread, for *)
(* all contexts, reads the kernel's uevents.                               *)
(*                                                                         *)
(* The kernel is external.  Memory does not run out before MaxDevices      *)
(* devices have been allocated.  Hotplug callbacks are left out: nothing   *)
(* in the driver registers one.                                            *)
(***************************************************************************)
EXTENDS Naturals, SequencesExt, FiniteSetsExt

CONSTANTS Contexts,    \* each is initialised, used and exited once
          Sessions,    \* session ids: bus number and device address
          ParentOf,    \* the hub that a session's device is plugged into
          Dongles,     \* the sessions that are RTL-SDR dongles
          ByPath,      \* the contexts that open by path; others use the list
          Initially,   \* the sessions of the devices attached at first
          MaxDevices,  \* bound: struct libusb_device ever allocated
          MaxChanges,  \* bound: devices plugged in and pulled out
          NoOne

(* The root hub and the ports below it: libusb_get_port_numbers names the  *)
(* limit of their number.                                                  *)
Tiers == 1 + 7

ASSUME CoreAssumption ==
    /\ Dongles \subseteq Sessions /\ ByPath \subseteq Contexts
    /\ ParentOf \in [Sessions -> Sessions \cup {NoOne}]
    /\ \E tier \in [Sessions -> 1 .. Tiers] : \A s \in Sessions :
         ParentOf[s] # NoOne => tier[ParentOf[s]] < tier[s]
    /\ Initially \subseteq Sessions
    /\ MaxDevices \in Nat /\ MaxChanges \in Nat
    /\ NoOne \notin Contexts \cup Sessions
    /\ IsFiniteSet(Contexts) /\ "monitor" \notin Contexts \cup {NoOne}

Devs == 1 .. MaxDevices

VARIABLES
    app,        \* where the application thread of a context is
    event,      \* where its event thread is: "idle", "lost" or a message
    active,     \* active_contexts_list
    default,    \* usbi_default_context and default_context_refcnt
    deflock,    \* who holds default_context_lock
    ready,      \* the contexts whose hotplug_msgs is initialised
    usb_devs,   \* ctx->usb_devs, first to last
    msgs,       \* ctx->hotplug_msgs
    handle,     \* the device of the context's open handle, or 0
    removed,    \* hpriv->fd_removed
    list,       \* the devices in the array of libusb_get_device_list
    dev,        \* struct libusb_device of each device
    allocated,  \* how many were ever allocated
    unsaid,     \* history: devices disconnected without a message
    monitor,    \* the event thread of linux_netlink.c
    socket,     \* linux_netlink_socket: "none" (-1), "bound", or "stale":
                \* a descriptor that has been closed
    control,    \* a byte is in netlink_control_pipe
    init_count,
    stopping,   \* who holds linux_hotplug_startstop_lock
    foreign,    \* history: somebody else's descriptor was closed
    hot,        \* who holds linux_hotplug_lock, and what it is doing
    plugged,    \* kernel: the sessions of the attached devices
    gone,       \* kernel: the contexts whose open dongle was pulled out
    uevents,    \* kernel: the queue of the netlink socket
    changes,
    fault       \* undefined behaviour ended the process

context == <<app, event, active, default, deflock, ready, handle, removed>>
devices == <<usb_devs, msgs, list, dev, allocated, unsaid>>
watch == <<monitor, socket, control, init_count, stopping, foreign>>
kernel == <<plugged, gone, uevents, changes>>
vars == <<context, devices, watch, hot, kernel, fault>>

NoDevice == [ctx |-> NoOne, session |-> NoOne, enumerated |-> FALSE,
             attached |-> FALSE, refcnt |-> 0, parent |-> 0]

(* A message of hotplug_msgs, or what the event thread is doing.           *)
Message(what, d) == [event |-> what, dev |-> d]
Idle == Message("idle", 0)

Unlocked == [by |-> NoOne, pc |-> "free", op |-> "none", session |-> NoOne,
             todo |-> {}, dev |-> 0, adding |-> <<>>]

Init ==
    /\ app = [c \in Contexts |-> "start"]
    /\ event = [c \in Contexts |-> Idle]
    /\ active = {} /\ default = [ctx |-> NoOne, refcnt |-> 0]
    /\ deflock = NoOne /\ ready = {}
    /\ handle = [c \in Contexts |-> 0] /\ removed = {}
    /\ usb_devs = [c \in Contexts |-> <<>>]
    /\ msgs = [c \in Contexts |-> <<>>]
    /\ list = [c \in Contexts |-> {}]
    /\ dev = [d \in Devs |-> NoDevice] /\ allocated = 0 /\ unsaid = {}
    /\ monitor = "off" /\ socket = "none" /\ control = FALSE
    /\ init_count = 0 /\ stopping = NoOne /\ foreign = FALSE
    /\ hot = Unlocked
    /\ plugged = Initially /\ gone = {} /\ uevents = <<>>
    /\ changes = 0 /\ fault = FALSE

---------------------------------------------------------------------------
(* References to devices.                                                  *)

Ref(ds, d) == [ds EXCEPT ![d].refcnt = @ + 1]

RefAll(ds, S) ==
    [d \in Devs |-> IF d \in S THEN [ds[d] EXCEPT !.refcnt = @ + 1] ELSE ds[d]]

(* Mutant: the parent of a destroyed device keeps its reference.           *)
UnrefAlone(ds, d) == [ds EXCEPT ![d].refcnt = @ - 1]

One(P) == IF P THEN 1 ELSE 0

(* The references to d that go when each device of S loses one and those   *)
(* of D are destroyed; a device is destroyed that loses its last one.      *)
Lost(ds, S, D, d) ==
    One(d \in S) + Cardinality({e \in D \cap Devs : ds[e].parent = d})
Doomed(ds, S, D) == {d \in Devs : ds[d].refcnt > 0 /\ ds[d].refcnt = Lost(ds, S, D, d)}
Destroyed(ds, S) == CHOOSE D \in SUBSET Devs : D = Doomed(ds, S, D)

(* A device that is destroyed drops its reference to its parent.           *)
UnrefAll(ds, S) ==
    LET D == Destroyed(ds, S)
    IN [d \in Devs |-> [ds[d] EXCEPT !.refcnt = @ - Lost(ds, S, D, d)]]

Unref(ds, d) == UnrefAll(ds, {d})

InSession(c, s) == {d \in ToSet(usb_devs[c]) : dev[d].session = s}

(* usbi_get_device_by_session_id finds the first of them.                  *)
ByDevice(c, s) ==
    LET i == CHOOSE i \in DOMAIN usb_devs[c] :
                 /\ dev[usb_devs[c][i]].session = s
                 /\ \A j \in 1 .. (i - 1) : dev[usb_devs[c][j]].session # s
    IN usb_devs[c][i]

usbi_alloc_device(c, s, enumerated) ==
    /\ allocated' = allocated + 1
    /\ dev' = [dev EXCEPT ![allocated + 1] =
                 [NoDevice EXCEPT !.ctx = c, !.session = s, !.refcnt = 1,
                                  !.enumerated = enumerated]]

(* There is no message before hotplug_msgs is initialised.                 *)
usbi_hotplug_notification(c, d, what) ==
    IF c \in ready
    THEN /\ msgs' = [msgs EXCEPT ![c] = Append(@, Message(what, d))]
         /\ UNCHANGED unsaid
    ELSE /\ unsaid' = IF what = "LEFT" THEN unsaid \cup {d} ELSE unsaid
         /\ UNCHANGED msgs

At(c, where) == app[c] = where /\ ~fault
GoTo(c, where) == app' = [app EXCEPT ![c] = where]

---------------------------------------------------------------------------
(* The kernel.                                                             *)

Uevent(what, s) == [op |-> what, session |-> s]

Emit(what, s) ==
    uevents' = IF socket = "bound" THEN Append(uevents, Uevent(what, s)) ELSE uevents

Plug(s) ==
    /\ s \notin plugged /\ changes < MaxChanges /\ ~fault
    /\ ParentOf[s] \in plugged \cup {NoOne}
    /\ plugged' = plugged \cup {s} /\ changes' = changes + 1
    /\ Emit("add", s)
    /\ UNCHANGED <<context, devices, watch, hot, gone, fault>>

Unplug(s) ==
    /\ s \in plugged /\ changes < MaxChanges /\ ~fault
    /\ \A t \in plugged : ParentOf[t] # s
    /\ plugged' = plugged \ {s} /\ changes' = changes + 1
    /\ gone' = gone \cup {c \in Contexts : handle[c] # 0 /\ dev[handle[c]].session = s}
    /\ Emit("remove", s)
    /\ UNCHANGED <<context, devices, watch, hot, fault>>

---------------------------------------------------------------------------
(* Whoever holds linux_hotplug_lock: the monitor thread with a uevent, an  *)
(* application thread that polls for uevents or found no device to open,   *)
(* or an event thread whose dongle has gone.                               *)

Hot(pc) == hot.pc = pc /\ ~fault
Leave == hot' = Unlocked

(* active_contexts_lock is held for as long as a uevent is handled.        *)
ActiveLocked == hot.pc \notin {"free", "read", "leave"}

(* Mutant: only one context is told.                                       *)
HandleOnce(op, s) ==
    hot' = [hot EXCEPT !.pc = "next", !.op = op, !.session = s,
                       !.todo = IF active = {} THEN {} ELSE {CHOOSE c \in active : TRUE}]

(* linux_device_disconnected and linux_hotplug_enumerate, for every active *)
(* context in turn.                                                        *)
Handle(op, s) ==
    hot' = [hot EXCEPT !.pc = "next", !.op = op, !.session = s, !.todo = active]

(* The address of a device that was never enumerated is 0.                 *)
Disconnect(who, d) ==
    /\ hot.by = NoOne
    /\ hot' = [Unlocked EXCEPT !.by = who,
                 !.pc = IF dev[d].attached /\ dev[d].enumerated
                        THEN "next" ELSE "leave",
                 !.op = "remove", !.session = dev[d].session, !.todo = active]

linux_netlink_read_message ==
    /\ Hot("read")
    /\ IF uevents = <<>>
       THEN /\ hot' = [hot EXCEPT !.pc = "leave"]
            /\ UNCHANGED uevents
       ELSE /\ Handle(Head(uevents).op, Head(uevents).session)
            /\ uevents' = Tail(uevents)
    /\ UNCHANGED <<context, devices, watch, plugged, gone, changes, fault>>

NextContext(c) == hot' = [hot EXCEPT !.todo = @ \ {c}, !.pc = "next", !.dev = 0,
                                     !.adding = <<>>]

Here(c) == dev[hot.dev].ctx = c

FindRemoved(c) ==
    /\ Hot("next") /\ hot.op = "remove" /\ c \in hot.todo
    /\ IF InSession(c, hot.session) = {}
       THEN NextContext(c) /\ UNCHANGED dev
       ELSE LET d == ByDevice(c, hot.session)
            IN /\ dev' = Ref(dev, d)
               /\ hot' = [hot EXCEPT !.dev = d, !.pc = "detach"]
    /\ UNCHANGED <<context, usb_devs, msgs, list, allocated, unsaid, watch,
                   kernel, fault>>

Detach ==
    /\ Hot("detach")
    /\ dev' = [dev EXCEPT ![hot.dev].attached = FALSE]
    /\ hot' = [hot EXCEPT !.pc = "unlist"]
    /\ UNCHANGED <<context, usb_devs, msgs, list, allocated, unsaid, watch,
                   kernel, fault>>

Unlist(c) ==
    /\ Hot("unlist") /\ Here(c)
    /\ usb_devs' = [usb_devs EXCEPT ![c] = RemoveAt(@, CHOOSE i \in DOMAIN @ : @[i] = hot.dev)]
    /\ hot' = [hot EXCEPT !.pc = "tell"]
    /\ UNCHANGED <<context, msgs, list, dev, allocated, unsaid, watch, kernel,
                   fault>>

(* The reference of the list becomes the reference of the message.         *)
TellLeft(c) ==
    /\ Hot("tell") /\ Here(c)
    /\ usbi_hotplug_notification(c, hot.dev, "LEFT")
    /\ hot' = [hot EXCEPT !.pc = "unref"]
    /\ UNCHANGED <<context, usb_devs, list, dev, allocated, watch, kernel, fault>>

(* Mutant: the reference of the list is dropped as well.                   *)
DropBoth(c) ==
    /\ Hot("unref") /\ Here(c)
    /\ dev' = Unref(Unref(dev, hot.dev), hot.dev)
    /\ NextContext(c)
    /\ UNCHANGED <<context, usb_devs, msgs, list, allocated, unsaid, watch,
                   kernel, fault>>

DropFound(c) ==
    /\ Hot("unref") /\ Here(c)
    /\ dev' = Unref(dev, hot.dev)
    /\ NextContext(c)
    /\ UNCHANGED <<context, usb_devs, msgs, list, allocated, unsaid, watch,
                   kernel, fault>>

(* linux_enumerate_device.  A parent that is not on the list is enumerated *)
(* first, once: "adding" is the stack of the devices being added.          *)
Allocate(c, s) ==
    /\ usbi_alloc_device(c, s, TRUE)
    /\ hot' = [hot EXCEPT !.adding = <<allocated + 1>> \o @, !.pc = "initialize"]

FindAdded(c) ==
    /\ Hot("next") /\ hot.op = "add" /\ c \in hot.todo
    /\ IF InSession(c, hot.session) # {} \/ allocated = MaxDevices
       THEN NextContext(c) /\ UNCHANGED <<dev, allocated>>
       ELSE Allocate(c, hot.session)
    /\ UNCHANGED <<context, usb_devs, msgs, list, unsaid, watch, kernel, fault>>

Added == Head(hot.adding)

(* The device of this context has been dealt with.                         *)
Resume(c) ==
    IF Len(hot.adding) = 1
    THEN NextContext(c)
    ELSE hot' = [hot EXCEPT !.adding = Tail(@), !.pc = "retry"]

(* initialize_device, usbi_sanitize_device: reading the descriptors fails  *)
(* if the device has gone, or is not accessible.                           *)
InitializeFails(c) ==
    /\ Hot("initialize") /\ dev[Added].ctx = c
    /\ dev' = Unref(dev, Added)
    /\ Resume(c)
    /\ UNCHANGED <<context, usb_devs, msgs, list, allocated, unsaid, watch,
                   kernel, fault>>

Initialize ==
    /\ Hot("initialize") /\ dev[Added].session \in plugged
    /\ hot' = [hot EXCEPT !.pc = "parent"]
    /\ UNCHANGED <<context, devices, watch, kernel, fault>>

(* linux_get_parent_info compares sysfs_dir along the list; a device of    *)
(* libusb_get_device2 has none.                                            *)
FindParent(c) ==
    LET p == ParentOf[dev[Added].session]
        before == {i \in DOMAIN usb_devs[c] :
                     \A j \in 1 .. i : dev[usb_devs[c][j]].session # p
                                       \/ ~dev[usb_devs[c][j]].enumerated}
        found == {d \in InSession(c, p) : dev[d].enumerated}
    IN /\ hot.pc \in {"parent", "retry"} /\ ~fault /\ dev[Added].ctx = c
       /\ fault' = (p # NoOne /\ \E i \in before : ~dev[usb_devs[c][i]].enumerated)
       /\ \/ /\ p = NoOne \/ (found = {} /\ hot.pc = "retry")
             /\ hot' = [hot EXCEPT !.pc = "connect"]
             /\ UNCHANGED <<dev, allocated>>
          \/ /\ p # NoOne /\ found # {}
             /\ LET d == CHOOSE d \in found : TRUE
                IN dev' = [Ref(dev, d) EXCEPT ![Added].parent = d]
             /\ hot' = [hot EXCEPT !.pc = "connect"]
             /\ UNCHANGED allocated
          \/ /\ p # NoOne /\ found = {} /\ hot.pc = "parent"
             /\ IF InSession(c, p) # {} \/ p \notin plugged
                   \/ allocated = MaxDevices
                THEN /\ hot' = [hot EXCEPT !.pc = "retry"]
                     /\ UNCHANGED <<dev, allocated>>
                ELSE Allocate(c, p)
       /\ UNCHANGED <<context, usb_devs, msgs, list, unsaid, watch, kernel>>

Listed(d) ==
    /\ dev' = [dev EXCEPT ![d].attached = TRUE]
    /\ usb_devs' = [usb_devs EXCEPT ![dev[d].ctx] = <<d>> \o @]

Connect ==
    /\ Hot("connect")
    /\ Listed(Added)
    /\ hot' = [hot EXCEPT !.pc = "arrived"]
    /\ UNCHANGED <<context, msgs, list, allocated, unsaid, watch, kernel, fault>>

TellArrived(c) ==
    /\ Hot("arrived") /\ dev[Added].ctx = c
    /\ usbi_hotplug_notification(c, Added, "ARRIVED")
    /\ Resume(c)
    /\ UNCHANGED <<context, usb_devs, list, dev, allocated, watch, kernel, fault>>

(* Every context has been told: a poll reads the next uevent.              *)
Handled ==
    /\ Hot("next") /\ hot.todo = {}
    /\ hot' = [hot EXCEPT !.pc = IF hot.by \in Contexts /\ app[hot.by] = "poll"
                                 THEN "read" ELSE "leave"]
    /\ UNCHANGED <<context, devices, watch, kernel, fault>>

---------------------------------------------------------------------------
(* The monitor thread.                                                     *)

Wake ==
    /\ monitor = "polling" /\ ~fault
    /\ monitor' = IF control THEN "off" ELSE "locking"
    /\ control \/ uevents # <<>>
    /\ control' = FALSE
    /\ UNCHANGED <<context, devices, socket, init_count, stopping, foreign, hot,
                   kernel, fault>>

LockHot ==
    /\ monitor = "locking" /\ hot.by = NoOne /\ ~fault
    /\ monitor' = "reading"
    /\ hot' = [Unlocked EXCEPT !.by = "monitor", !.pc = "read"]
    /\ UNCHANGED <<context, devices, socket, control, init_count, stopping,
                   foreign, kernel, fault>>

MonitorLeaves ==
    /\ Hot("leave") /\ hot.by = "monitor"
    /\ monitor' = "polling" /\ Leave
    /\ UNCHANGED <<context, devices, socket, control, init_count, stopping,
                   foreign, kernel, fault>>

---------------------------------------------------------------------------
(* libusb_init.                                                            *)

InitContext(c) ==
    /\ At(c, "start") /\ deflock = NoOne /\ ~ActiveLocked
    /\ deflock' = c
    /\ default' = IF default.ctx = NoOne
                  THEN [ctx |-> c, refcnt |-> default.refcnt + 1] ELSE default
    /\ active' = active \cup {c}
    /\ GoTo(c, "init_backend")
    /\ UNCHANGED <<event, ready, handle, removed, devices, watch, hot, kernel,
                   fault>>

(* The kernel's version cannot be read: op_init fails early.               *)
InitBackendFails(c) ==
    /\ At(c, "init_backend")
    /\ GoTo(c, "undo_context")
    /\ UNCHANGED <<event, active, default, deflock, ready, handle, removed,
                   devices, watch, hot, kernel, fault>>

(* linux_netlink_start_event_monitor: the socket cannot be created or set  *)
(* up; it cannot be bound, or a later step fails; or the thread starts.    *)
linux_start_event_monitor ==
    \/ socket' = "none" /\ UNCHANGED monitor
    \/ socket' = "stale" /\ UNCHANGED monitor
    \/ socket' = "bound" /\ monitor' = "polling"

(* Mutant: every context starts a monitor.                                 *)
InitBackendAlways(c) ==
    /\ At(c, "init_backend") /\ stopping = NoOne
    /\ linux_start_event_monitor
    /\ init_count' = init_count + 1
    /\ GoTo(c, "init_io")
    /\ UNCHANGED <<event, active, default, deflock, ready, handle, removed,
                   devices, control, stopping, foreign, hot, kernel, fault>>

(* op_init on Android: a monitor that does not start is no failure.        *)
InitBackend(c) ==
    /\ At(c, "init_backend") /\ stopping = NoOne
    /\ IF init_count = 0 THEN linux_start_event_monitor
       ELSE UNCHANGED <<socket, monitor>>
    /\ init_count' = init_count + 1
    /\ GoTo(c, "init_io")
    /\ UNCHANGED <<event, active, default, deflock, ready, handle, removed,
                   devices, control, stopping, foreign, hot, kernel, fault>>

(* usbi_io_init: hotplug_msgs is initialised, then the pipe may fail.      *)
InitIo(c) ==
    /\ At(c, "init_io")
    /\ ready' = ready \cup {c}
    /\ \/ deflock' = NoOne /\ GoTo(c, "inited")
       \/ GoTo(c, "undo_backend") /\ UNCHANGED deflock
    /\ UNCHANGED <<event, active, default, handle, removed, devices, watch, hot,
                   kernel, fault>>

(* err_free_ctx                                                            *)
UndoContext(c) ==
    /\ At(c, "undo_context") /\ ~ActiveLocked
    /\ default' = IF default.ctx = c
                  THEN [ctx |-> NoOne, refcnt |-> default.refcnt - 1] ELSE default
    /\ active' = active \ {c}
    /\ dev' = UnrefAll(dev, ToSet(usb_devs[c]))
    /\ usb_devs' = [usb_devs EXCEPT ![c] = <<>>]
    /\ deflock' = NoOne
    /\ GoTo(c, "gone")
    /\ UNCHANGED <<event, ready, handle, removed, msgs, list, allocated, unsaid,
                   watch, hot, kernel, fault>>

---------------------------------------------------------------------------
(* rtlsdr_open2: libusb_get_device2 and libusb_open2.                      *)

(* op_device2: usb_devs_lock is all that it takes.                         *)
GetDevice2(c, s) ==
    /\ At(c, "inited") /\ c \in ByPath /\ allocated < MaxDevices
    /\ allocated' = allocated + 1
    /\ dev' = [dev EXCEPT ![allocated + 1] =
                 [NoDevice EXCEPT !.ctx = c, !.session = s, !.refcnt = 1,
                                  !.attached = TRUE]]
    /\ usb_devs' = [usb_devs EXCEPT ![c] = <<allocated + 1>> \o @]
    /\ handle' = [handle EXCEPT ![c] = allocated + 1]
    /\ GoTo(c, "arrived")
    /\ UNCHANGED <<event, active, default, deflock, ready, removed, msgs, list,
                   unsaid, watch, hot, kernel, fault>>

(* There is no such device: rtlsdr_open2 exits the context.                *)
GetDevice2Fails(c) ==
    /\ At(c, "inited") /\ c \in ByPath
    /\ GoTo(c, "exit_default")
    /\ UNCHANGED <<event, active, default, deflock, ready, handle, removed,
                   devices, watch, hot, kernel, fault>>

Device2Arrives(c) ==
    /\ At(c, "arrived")
    /\ usbi_hotplug_notification(c, handle[c], "ARRIVED")
    /\ GoTo(c, "open2")
    /\ UNCHANGED <<event, active, default, deflock, ready, handle, removed,
                   usb_devs, list, dev, allocated, watch, hot, kernel, fault>>

(* libusb_open2: the file descriptor comes from Android.                   *)
Open2(c) ==
    /\ At(c, "open2")
    /\ dev' = Ref(dev, handle[c])
    /\ gone' = IF dev[handle[c]].session \in plugged THEN gone ELSE gone \cup {c}
    /\ GoTo(c, "open")
    /\ UNCHANGED <<event, active, default, deflock, ready, handle, removed,
                   usb_devs, msgs, list, allocated, unsaid, watch, hot, plugged,
                   uevents, changes, fault>>

---------------------------------------------------------------------------
(* rtlsdr_open: libusb_get_device_list and libusb_open.                    *)

PollUevents(c) ==
    /\ At(c, "inited") /\ c \notin ByPath /\ hot.by = NoOne
    /\ hot' = [Unlocked EXCEPT !.by = c, !.pc = "read"]
    /\ GoTo(c, "poll")
    /\ UNCHANGED <<event, active, default, deflock, ready, handle, removed,
                   devices, watch, kernel, fault>>

PollLeaves(c) ==
    /\ At(c, "poll") /\ hot.pc = "leave" /\ hot.by = c
    /\ Leave
    /\ GoTo(c, "list")
    /\ UNCHANGED <<event, active, default, deflock, ready, handle, removed,
                   devices, watch, kernel, fault>>

GetDeviceList(c) ==
    /\ At(c, "list")
    /\ list' = [list EXCEPT ![c] = ToSet(usb_devs[c])]
    /\ dev' = RefAll(dev, ToSet(usb_devs[c]))
    /\ GoTo(c, "listed")
    /\ UNCHANGED <<event, active, default, deflock, ready, handle, removed,
                   usb_devs, msgs, allocated, unsaid, watch, hot, kernel, fault>>

(* libusb_open of a dongle on the list.  Without one the list is not freed.*)
OpenListed(c) ==
    LET dongles == {d \in list[c] : dev[d].session \in Dongles}
    IN /\ At(c, "listed")
       /\ \/ /\ dongles = {}
             /\ GoTo(c, "exit_default")
             /\ UNCHANGED <<handle, dev>>
          \/ \E d \in dongles :
                IF dev[d].attached
                THEN /\ handle' = [handle EXCEPT ![c] = d]
                     /\ dev' = Ref(dev, d)
                     /\ GoTo(c, "opening")
                ELSE /\ GoTo(c, "free_failed")
                     /\ UNCHANGED <<handle, dev>>
       /\ UNCHANGED <<event, active, default, deflock, ready, removed, usb_devs,
                      msgs, list, allocated, unsaid, watch, hot, kernel, fault>>

(* op_open: the device's node is opened.                                   *)
OpOpen(c) ==
    /\ At(c, "opening") /\ dev[handle[c]].session \in plugged
    /\ \/ GoTo(c, "free_open") /\ UNCHANGED <<handle, dev>>
       \/ /\ handle' = [handle EXCEPT ![c] = 0]
          /\ dev' = Unref(dev, handle[c])
          /\ GoTo(c, "free_failed")
    /\ gone' = gone \ {c}
    /\ UNCHANGED <<event, active, default, deflock, ready, removed, usb_devs,
                   msgs, list, allocated, unsaid, watch, hot, plugged, uevents,
                   changes, fault>>

(* There is no node any more: the device is disconnected.                  *)
OpOpenNoDevice(c) ==
    /\ At(c, "opening") /\ dev[handle[c]].session \notin plugged
    /\ Disconnect(c, handle[c])
    /\ GoTo(c, "no_device")
    /\ UNCHANGED <<event, active, default, deflock, ready, handle, removed,
                   devices, watch, kernel, fault>>

NoDeviceLeaves(c) ==
    /\ At(c, "no_device") /\ hot.pc = "leave" /\ hot.by = c
    /\ Leave
    /\ handle' = [handle EXCEPT ![c] = 0]
    /\ dev' = Unref(dev, handle[c])
    /\ gone' = gone \ {c}
    /\ GoTo(c, "free_failed")
    /\ UNCHANGED <<event, active, default, deflock, ready, removed, usb_devs,
                   msgs, list, allocated, unsaid, watch, plugged, uevents,
                   changes, fault>>

FreeDeviceList(c) ==
    /\ app[c] \in {"free_open", "free_failed"} /\ ~fault
    /\ dev' = UnrefAll(dev, list[c])
    /\ list' = [list EXCEPT ![c] = {}]
    /\ GoTo(c, IF app[c] = "free_open" THEN "open" ELSE "exit_default")
    /\ UNCHANGED <<event, active, default, deflock, ready, handle, removed,
                   usb_devs, msgs, allocated, unsaid, watch, hot, kernel, fault>>

---------------------------------------------------------------------------
(* The event thread, under the events lock.                                *)

TakeMessage(c) ==
    /\ At(c, "open") /\ event[c] = Idle /\ msgs[c] # <<>>
    /\ event' = [event EXCEPT ![c] = Head(msgs[c])]
    /\ msgs' = [msgs EXCEPT ![c] = Tail(@)]
    /\ UNCHANGED <<app, active, default, deflock, ready, handle, removed,
                   usb_devs, list, dev, allocated, unsaid, watch, hot, kernel,
                   fault>>

(* Mutant: the device of a message that it arrived is dereferenced too.    *)
MatchedAny(m) == dev' = Unref(dev, m.dev)

Matched(m) == IF m.event = "LEFT" THEN dev' = Unref(dev, m.dev) ELSE UNCHANGED dev

Match(c) ==
    /\ event[c].event \in {"ARRIVED", "LEFT"} /\ ~fault
    /\ Matched(event[c])
    /\ event' = [event EXCEPT ![c] = Idle]
    /\ UNCHANGED <<app, active, default, deflock, ready, handle, removed,
                   usb_devs, msgs, list, allocated, unsaid, watch, hot, kernel,
                   fault>>

(* op_handle_events: the handle's descriptor polls an error.               *)
NoticeGone(c) ==
    /\ At(c, "open") /\ event[c] = Idle /\ c \in gone \ removed
    /\ Disconnect(c, handle[c])
    /\ event' = [event EXCEPT ![c] = Message("lost", handle[c])]
    /\ removed' = removed \cup {c}
    /\ UNCHANGED <<app, active, default, deflock, ready, handle, devices, watch,
                   kernel, fault>>

NoticeLeaves(c) ==
    /\ event[c].event = "lost" /\ hot.pc = "leave" /\ hot.by = c /\ ~fault
    /\ Leave
    /\ event' = [event EXCEPT ![c] = Idle]
    /\ UNCHANGED <<app, active, default, deflock, ready, handle, removed,
                   devices, watch, kernel, fault>>

---------------------------------------------------------------------------
(* libusb_close and libusb_exit.                                           *)

(* do_close is under the events lock.                                      *)
Close(c) ==
    /\ At(c, "open") /\ event[c] = Idle
    /\ dev' = Unref(dev, handle[c])
    /\ handle' = [handle EXCEPT ![c] = 0]
    /\ removed' = removed \ {c} /\ gone' = gone \ {c}
    /\ GoTo(c, "exit_default")
    /\ UNCHANGED <<event, active, default, deflock, ready, usb_devs, msgs, list,
                   allocated, unsaid, watch, hot, plugged, uevents, changes,
                   fault>>

ExitDefault(c) ==
    /\ At(c, "exit_default") /\ deflock = NoOne
    /\ IF default.ctx # c
       THEN GoTo(c, "exit_active") /\ UNCHANGED default
       ELSE IF default.refcnt > 1
       THEN /\ default' = [default EXCEPT !.refcnt = @ - 1]
            /\ GoTo(c, "gone")
       ELSE /\ default' = [ctx |-> NoOne, refcnt |-> 0]
            /\ GoTo(c, "exit_active")
    /\ UNCHANGED <<event, active, deflock, ready, handle, removed, devices,
                   watch, hot, kernel, fault>>

ExitActive(c) ==
    /\ At(c, "exit_active") /\ ~ActiveLocked
    /\ active' = active \ {c}
    /\ GoTo(c, "exit_devices")
    /\ UNCHANGED <<event, default, deflock, ready, handle, removed, devices,
                   watch, hot, kernel, fault>>

DevicesLeft(c) == UNION {IF m.event = "LEFT" THEN {m.dev} ELSE {} : m \in ToSet(msgs[c])}

(* Mutant: pending messages are not handled.                               *)
ExitUndrained(c) ==
    /\ At(c, "exit_devices")
    /\ dev' = UnrefAll(dev, ToSet(usb_devs[c]))
    /\ msgs' = [msgs EXCEPT ![c] = <<>>]
    /\ usb_devs' = [usb_devs EXCEPT ![c] = <<>>]
    /\ ready' = ready \ {c}
    /\ GoTo(c, "exit_backend")
    /\ UNCHANGED <<event, active, default, deflock, handle, removed, list,
                   allocated, unsaid, watch, hot, kernel, fault>>

(* The pending messages are handled, then the devices on the list dropped: *)
(* no other thread knows the context any more.  A device leaves once.      *)
ExitDevices(c) ==
    /\ At(c, "exit_devices")
    /\ dev' = UnrefAll(UnrefAll(dev, DevicesLeft(c)), ToSet(usb_devs[c]))
    /\ msgs' = [msgs EXCEPT ![c] = <<>>]
    /\ usb_devs' = [usb_devs EXCEPT ![c] = <<>>]
    /\ ready' = ready \ {c}
    /\ GoTo(c, "exit_backend")
    /\ UNCHANGED <<event, active, default, deflock, handle, removed, list,
                   allocated, unsaid, watch, hot, kernel, fault>>

AfterExit(c) == IF app[c] \in {"exit_backend", "exit_join"}
                THEN "gone" ELSE "undo_context"

(* Mutant: the monitor is not told to stop.                                *)
OpExitSilent(c) ==
    /\ app[c] \in {"exit_backend", "undo_backend"} /\ stopping = NoOne /\ ~fault
    /\ init_count' = init_count - 1
    /\ IF init_count = 1 /\ socket # "none"
       THEN /\ stopping' = c
            /\ UNCHANGED control
            /\ GoTo(c, IF app[c] = "exit_backend" THEN "exit_join" ELSE "undo_join")
       ELSE GoTo(c, AfterExit(c)) /\ UNCHANGED <<stopping, control>>
    /\ UNCHANGED <<event, active, default, deflock, ready, handle, removed,
                   devices, monitor, socket, foreign, hot, kernel, fault>>

(* op_exit: the last context stops the monitor and joins its thread, under *)
(* linux_hotplug_startstop_lock.                                           *)
OpExit(c) ==
    /\ app[c] \in {"exit_backend", "undo_backend"} /\ stopping = NoOne /\ ~fault
    /\ init_count' = init_count - 1
    /\ IF init_count = 1 /\ socket # "none"
       THEN /\ stopping' = c
            /\ control' = (socket = "bound")
            /\ GoTo(c, IF app[c] = "exit_backend" THEN "exit_join" ELSE "undo_join")
       ELSE GoTo(c, AfterExit(c)) /\ UNCHANGED <<stopping, control>>
    /\ UNCHANGED <<event, active, default, deflock, ready, handle, removed,
                   devices, monitor, socket, foreign, hot, kernel, fault>>

(* Mutant: the thread is not joined.                                       *)
MonitorAbandoned(c) ==
    /\ app[c] \in {"exit_join", "undo_join"} /\ ~fault
    /\ socket' = "none" /\ control' = FALSE /\ uevents' = <<>>
    /\ foreign' = (foreign \/ socket = "stale")
    /\ stopping' = NoOne
    /\ GoTo(c, AfterExit(c))
    /\ UNCHANGED <<event, active, default, deflock, ready, handle, removed,
                   devices, monitor, init_count, hot, plugged, gone, changes,
                   fault>>

MonitorJoined(c) ==
    /\ app[c] \in {"exit_join", "undo_join"} /\ monitor = "off" /\ ~fault
    /\ socket' = "none" /\ control' = FALSE /\ uevents' = <<>>
    /\ foreign' = (foreign \/ socket = "stale")
    /\ stopping' = NoOne
    /\ GoTo(c, AfterExit(c))
    /\ UNCHANGED <<event, active, default, deflock, ready, handle, removed,
                   devices, monitor, init_count, hot, plugged, gone, changes,
                   fault>>

---------------------------------------------------------------------------
Application(c) ==
    \/ InitContext(c) \/ InitBackendFails(c) \/ InitBackend(c) \/ InitIo(c)
    \/ UndoContext(c)
    \/ \E s \in Dongles : GetDevice2(c, s)
    \/ GetDevice2Fails(c) \/ Device2Arrives(c) \/ Open2(c)
    \/ PollUevents(c) \/ PollLeaves(c) \/ GetDeviceList(c) \/ OpenListed(c)
    \/ OpOpen(c) \/ OpOpenNoDevice(c) \/ NoDeviceLeaves(c) \/ FreeDeviceList(c)
    \/ Close(c) \/ ExitDefault(c) \/ ExitActive(c) \/ ExitDevices(c)
    \/ OpExit(c) \/ MonitorJoined(c)

EventThread(c) ==
    \/ TakeMessage(c) \/ Match(c) \/ NoticeGone(c) \/ NoticeLeaves(c)

Section ==
    \/ linux_netlink_read_message \/ Handled
    \/ Detach \/ Initialize \/ Connect
    \/ \E c \in Contexts :
          \/ FindRemoved(c) \/ Unlist(c) \/ TellLeft(c) \/ DropFound(c)
          \/ FindAdded(c) \/ InitializeFails(c) \/ FindParent(c) \/ TellArrived(c)

Monitor == Wake \/ LockHot \/ MonitorLeaves

Kernel == \E s \in Sessions : Plug(s) \/ Unplug(s)

Next ==
    \/ \E c \in Contexts : Application(c) \/ EventThread(c)
    \/ Section \/ Monitor \/ Kernel

(* Every thread that is not blocked runs.  An application need not open or *)
(* close anything, nothing is ever plugged in or pulled out.               *)
Fairness ==
    /\ WF_vars(Section) /\ WF_vars(Monitor)
    /\ \A c \in Contexts :
         /\ WF_vars(EventThread(c))
         /\ WF_vars(/\ app[c] \notin {"start", "inited", "open"}
                    /\ Application(c))

Spec == Init /\ [][Next]_vars /\ Fairness

---------------------------------------------------------------------------
Messages == [event : {"idle", "lost", "ARRIVED", "LEFT"}, dev : 0 .. MaxDevices]

TypeOK ==
    /\ app \in [Contexts ->
         {"start", "init_backend", "init_io", "inited", "undo_backend",
          "undo_join", "undo_context", "arrived", "open2", "poll", "list",
          "listed", "opening", "no_device", "free_open", "free_failed", "open",
          "exit_default", "exit_active", "exit_devices",
          "exit_backend", "exit_join", "gone"}]
    /\ event \in [Contexts -> Messages]
    /\ active \subseteq Contexts /\ ready \subseteq Contexts
    /\ default \in [ctx : Contexts \cup {NoOne}, refcnt : 0 .. 1]
    /\ deflock \in Contexts \cup {NoOne} /\ stopping \in Contexts \cup {NoOne}
    /\ handle \in [Contexts -> 0 .. MaxDevices]
    /\ removed \subseteq Contexts /\ gone \subseteq Contexts
    /\ \A c \in Contexts : /\ usb_devs[c] \in Seq(Devs) /\ msgs[c] \in Seq(Messages)
                           /\ list[c] \subseteq Devs
    /\ dev \in [Devs -> [ctx : Contexts \cup {NoOne},
                         session : Sessions \cup {NoOne},
                         enumerated : BOOLEAN, attached : BOOLEAN,
                         refcnt : Nat, parent : 0 .. MaxDevices]]
    /\ allocated \in 0 .. MaxDevices /\ unsaid \subseteq Devs
    /\ monitor \in {"off", "polling", "locking", "reading"}
    /\ socket \in {"none", "bound", "stale"}
    /\ control \in BOOLEAN /\ foreign \in BOOLEAN /\ fault \in BOOLEAN
    /\ init_count \in 0 .. Cardinality(Contexts)
    /\ hot.by \in Contexts \cup {NoOne, "monitor"}
    /\ hot.dev \in 0 .. MaxDevices /\ hot.adding \in Seq(Devs)
    /\ plugged \subseteq Sessions /\ changes \in 0 .. MaxChanges

(* The references to a device: from the list of its context, from a        *)
(* message that it left, from the handle, the array and the children, from *)
(* whoever is adding or removing it, and those that nobody will drop.      *)
References(d) ==
    LET c == dev[d].ctx
    IN One(d \in ToSet(usb_devs[c]))
       + Cardinality({i \in DOMAIN msgs[c] : msgs[c][i] = Message("LEFT", d)})
       + One(event[c] = Message("LEFT", d))
       + One(handle[c] = d /\ app[c] \notin {"arrived", "open2"})
       + One(d \in list[c])
       + Cardinality({e \in Devs : dev[e].refcnt > 0 /\ dev[e].parent = d})
       + One(hot.dev = d) + One(hot.dev = d /\ hot.pc = "tell")
       + One(d \in ToSet(hot.adding) /\ ~(d = Added /\ hot.pc = "arrived"))
       + One(d \in unsaid)

(* The count of a device is the number of references to it, at every       *)
(* moment of every thread: it is destroyed with the last of them and not   *)
(* before.                                                                 *)
CountsReferences ==
    ~fault => \A d \in 1 .. allocated : dev[d].refcnt = References(d)

(* A message that a device arrived holds no reference, nor does            *)
(* rtlsdr_open2 before libusb_open2: neither ever has a destroyed device.  *)
(* Only the arrival of a device of libusb_get_device2, which is announced  *)
(* without linux_hotplug_lock, may be told after it left.                  *)
NothingDangles ==
    ~fault => \A c \in {c \in Contexts : app[c] # "gone"} :
        /\ \A m \in ToSet(msgs[c]) \cup {event[c]} :
             \/ m = Idle \/ dev[m.dev].refcnt > 0
             \/ m.event = "ARRIVED" /\ ~dev[m.dev].enumerated
        /\ handle[c] # 0 => dev[handle[c]].refcnt > 0

(* A device that is still there after libusb_exit left during libusb_init, *)
(* which told nobody or was undone, or is in the array that rtlsdr_open    *)
(* did not free, or is the parent of a device that is still there.         *)
ExitDestroys ==
    LET leaked == unsaid \cup UNION {list[c] \cup DevicesLeft(c) : c \in Contexts}
    IN ~fault => \A d \in 1 .. allocated :
         app[dev[d].ctx] = "gone" /\ dev[d].refcnt > 0
            => d \in leaked \/ \E e \in Devs : dev[e].refcnt > 0 /\ dev[e].parent = d

(* The monitor runs for as long as a context wants it.  When the last one  *)
(* has gone, the thread has ended and its socket is closed.                *)
MonitorEnds ==
    /\ init_count = 0 /\ stopping = NoOne => monitor = "off" /\ socket = "none"
    /\ monitor # "off" => socket = "bound"
    /\ socket = "bound" /\ stopping = NoOne => monitor # "off"

(* Once the kernel has told the monitor that a device is removed, it is    *)
(* marked detached in every context that has it, unless a device of        *)
(* libusb_get_device2 with the same session hides it.                      *)
Hidden(d) == \E e \in ToSet(usb_devs[dev[d].ctx]) :
                 dev[e].session = dev[d].session /\ ~dev[e].enumerated
Told(d) == \E i \in DOMAIN uevents : uevents[i] = Uevent("remove", dev[d].session)
Stale(d) == dev[d].attached /\ dev[d].session \notin plugged
DetachNoticed ==
    \A d \in Devs :
        Stale(d) /\ Told(d)
           ~> \/ ~Stale(d) \/ Hidden(d) \/ socket # "bound" \/ fault
              \/ dev[d].ctx \notin active

(* libusb_init and libusb_exit return, whatever the monitor, the other     *)
(* contexts and the kernel do.                                             *)
Busy(c) == app[c] \notin {"start", "inited", "open", "gone"}
CallsReturn == \A c \in Contexts : Busy(c) ~> ~Busy(c) \/ fault

(* A device lives exactly as long as somebody refers to it, and nobody     *)
(* refers to one that is destroyed (libusb_ref_device, libusb_unref_device)*)
ReferencesHold == TypeOK /\ CountsReferences /\ NothingDangles

(* "device will still be marked as attached if hotplug monitor thread      *)
(* hasn't processed remove event yet" (os/linux_usbfs.c:2697): an event    *)
(* thread that has noticed that the dongle has gone leaves it detached.    *)
GoneDetached ==
    ~fault => \A c \in Contexts :
        c \in removed /\ event[c] = Idle => ~dev[handle[c]].attached

(* "already closed. nothing to do" (os/linux_netlink.c:156): stopping the  *)
(* monitor closes no descriptor that starting it has closed already.       *)
(* Does not hold: a monitor that could not be started leaves               *)
(* linux_netlink_socket set.                                               *)
OwnDescriptor == ~foreign
=============================================================================
