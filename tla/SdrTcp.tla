------------------------------- MODULE SdrTcp -------------------------------
(***************************************************************************)
(* The TCP server of rtlsdr/src/main/cpp/src/sdrtcp.c, one session of it:  *)
(* from sdrtcp_open_socket to the last callback.                           *)
(*                                                                         *)
(*   Dev      the thread that opens the server and feeds it (openAsync and *)
(*            the USB callback in rtlsdrdevice.c)                          *)
(*   Srv      tcp_server, started by sdrtcp_serve_client_async             *)
(*   Cmd      commandListener, started by Srv when a client connects       *)
(*   Closers  threads that call sdrtcp_stop_serving_client once            *)
(*                                                                         *)
(* obj->state is read and written with and without state_locker, so every  *)
(* such access is a step; a critical section that no unlocked access can   *)
(* observe half done is one step.  The work pool is the channel that       *)
(* WorkPool implements.                                                    *)
(***************************************************************************)
EXTENDS Naturals

CONSTANTS Closers,     \* threads other than Dev, Srv, Cmd that stop the server
          MaxElements, \* POOL_MAX_ELEMENTS
          MaxFed       \* bound: blocks fed in a session

Dev == "dev"
Srv == "srv"
Cmd == "cmd"
NoThread == "nobody"
Threads == {Dev, Srv, Cmd} \cup Closers

ASSUME ServerAssumption ==
    /\ Closers \cap {Dev, Srv, Cmd, NoThread} = {}
    /\ MaxElements \in Nat \ {0}
    /\ MaxFed \in Nat

(* The STAGE_ constants.                                                   *)
UNINITIALIZED == 0
INITIALIZED == 1
SOCKET_OPEN == 2
CLIENT_OPEN == 3
STARTED_ASYNC == 4
SERVING == 5
NEEDS_STOPPING == 6

VARIABLES
    state,     \* obj->state
    lock,      \* the owner of obj->state_locker
    listen,    \* obj->listen_socket # -1
    client,    \* obj->client_socket # -1
    leaked,    \* client sockets that nobody knows of any more
    in, out, done, open, \* obj->workpool, see SampleChannel
    request,   \* a complete command waits in the client socket
    pc,        \* thread -> where it is
    ret,       \* thread -> where it goes on after stop or cleanup
    asked,     \* a stop was requested while the server thread runs
    closed,    \* number of calls of closedcb
    fault      \* undefined behaviour ended the process

pool == <<in, out, done, open>>
sockets == <<listen, client, leaked>>
outside == <<request, asked, closed, fault>>
vars == <<state, lock, listen, client, leaked, in, out, done, open, request, pc, ret,
          asked, closed, fault>>

Pool == INSTANCE SampleChannel WITH Capacity <- MaxElements
Room == in - done < MaxElements

DevLabels == {"open", "header", "isInit", "create", "opened", "bind", "ready",
              "serve", "rejected", "async", "stream", "feed", "feedLock",
              "feedGet", "feedWait", "feedPut", "end"}
SrvLabels == {"none", "wait", "select", "accept", "store", "connected", "mark",
              "check", "spawn", "begin", "loop", "get", "pool", "item", "writable",
              "send", "failed", "put", "return", "join", "finish", "closed", "end"}
CmdLabels == {"none", "listen", "readable", "recv", "recvErr", "command", "end"}
StopLabels == {"stop", "stopAsync", "stopWrite", "cleanup", "release"}
ServeLoop == {"loop", "get", "pool", "item", "writable", "send", "failed",
              "put", "return"}

TypeOK ==
    /\ state \in UNINITIALIZED .. NEEDS_STOPPING
    /\ lock \in Threads \cup {NoThread}
    /\ listen \in BOOLEAN /\ client \in BOOLEAN /\ open \in BOOLEAN
    /\ in \in Nat /\ out \in Nat /\ done \in Nat
    /\ request \in BOOLEAN /\ asked \in BOOLEAN /\ fault \in BOOLEAN
    /\ closed \in Nat /\ leaked \in Nat
    /\ pc \in [Threads -> DevLabels \cup SrvLabels \cup CmdLabels \cup StopLabels]
    /\ ret \in [Threads -> {"stream", "closed", "listen", "end"}]

(* sdrtcp_init.                                                            *)
Init ==
    /\ state = UNINITIALIZED /\ lock = NoThread
    /\ listen = FALSE /\ client = FALSE /\ leaked = 0
    /\ in = 0 /\ out = 0 /\ done = 0 /\ open = FALSE
    /\ request = FALSE /\ asked = FALSE /\ closed = 0 /\ fault = FALSE
    /\ pc = [t \in Threads |-> IF t = Dev THEN "open"
                               ELSE IF t \in Closers THEN "stop" ELSE "none"]
    /\ ret = [t \in Threads |-> "end"]
-----------------------------------------------------------------------------
At(t, l) == pc[t] = l /\ ~fault
Goto(t, l) == pc' = [pc EXCEPT ![t] = l] /\ ret' = ret
(* A call of stop or cleanup; the mutant mixes up callee and return point. *)
CallSwapped(t, l, back) == /\ pc' = [pc EXCEPT ![t] = back]
                           /\ ret' = [ret EXCEPT ![t] = l]
Call(t, l, back) == /\ pc' = [pc EXCEPT ![t] = l]
                    /\ ret' = [ret EXCEPT ![t] = back]
Start(t, l, u, m) == pc' = [pc EXCEPT ![t] = l, ![u] = m] /\ ret' = ret

(* A test of obj->state without the lock.                                  *)
Test(t, l, cond, yes, no) ==
    /\ At(t, l)
    /\ Goto(t, IF cond THEN yes ELSE no)
    /\ UNCHANGED <<state, lock, sockets, pool, outside>>

(* An assignment to obj->state without the lock.                           *)
Assign(t, l, s, next) ==
    /\ At(t, l)
    /\ state' = s
    /\ Goto(t, next)
    /\ UNCHANGED <<lock, sockets, pool, outside>>

(* Undefined behaviour: the process dies, or goes on as if nothing were.   *)
Undefined(t, next) ==
    /\ fault' \in BOOLEAN
    /\ Goto(t, next)
    /\ UNCHANGED <<state, lock, sockets, pool, request, asked, closed>>
-----------------------------------------------------------------------------
(* sdrtcp_cleanup: both branches take the lock; what the second one does   *)
(* after the assignment can be seen half done by a thread in the pool.     *)
CleanupEnter(t) ==
    /\ At(t, "cleanup") /\ lock = NoThread
    /\ IF state = UNINITIALIZED
       THEN Goto(t, ret[t]) /\ UNCHANGED <<state, lock>>
       ELSE state' = UNINITIALIZED /\ lock' = t /\ Goto(t, "release")
    /\ UNCHANGED <<sockets, pool, outside>>

CleanupRelease(t) ==
    /\ At(t, "release")
    /\ open' = FALSE          \* pool_free
    /\ listen' = FALSE        \* close(listen_socket)
    /\ client' = FALSE        \* forgotten, never closed
    /\ leaked' = leaked + (IF client THEN 1 ELSE 0)
    /\ lock' = NoThread
    /\ Goto(t, ret[t])
    /\ UNCHANGED <<state, in, out, done, outside>>

(* sdrtcp_stop_serving_client: two tests and an assignment, none locked.   *)
StopTest(t) == Test(t, "stop", state = UNINITIALIZED, ret[t], "stopAsync")

StopChoose(t) == Test(t, "stopAsync", state < STARTED_ASYNC, "cleanup", "stopWrite")

StopWrite(t) ==
    /\ At(t, "stopWrite")
    /\ state' = NEEDS_STOPPING
    /\ asked' = TRUE
    /\ Goto(t, ret[t])
    /\ UNCHANGED <<lock, sockets, pool, request, closed, fault>>

StopStep(t) == \/ StopTest(t) \/ StopChoose(t) \/ StopWrite(t)
               \/ CleanupEnter(t) \/ CleanupRelease(t)
-----------------------------------------------------------------------------
(* sdrtcp_open_socket: a new pool, with the dongle information as its      *)
(* first item, before the state leaves UNINITIALIZED.                      *)
OpenInit ==
    /\ At(Dev, "open") /\ state = UNINITIALIZED /\ lock = NoThread
    /\ lock' = Dev
    /\ Pool!Reopen
    /\ Goto(Dev, "header")
    /\ UNCHANGED <<state, sockets, outside>>

OpenHeader ==
    /\ At(Dev, "header")
    /\ Pool!Put
    /\ state' = INITIALIZED /\ lock' = NoThread
    /\ Goto(Dev, "isInit")
    /\ UNCHANGED <<sockets, outside>>

OpenTest == Test(Dev, "isInit", state = INITIALIZED, "create", "opened")

OpenSocket ==
    /\ At(Dev, "create")
    /\ listen' \in BOOLEAN     \* socket() may fail
    /\ Goto(Dev, "opened")
    /\ UNCHANGED <<state, lock, client, leaked, pool, outside>>

OpenMark ==
    /\ At(Dev, "opened") /\ lock = NoThread
    /\ state' = IF listen THEN SOCKET_OPEN ELSE state
    /\ Goto(Dev, "bind")
    /\ UNCHANGED <<lock, sockets, pool, outside>>

(* Mutant: a failed bind returns without the cleanup.                      *)
OpenBindLeaks ==
    /\ At(Dev, "bind")
    /\ \/ state = SOCKET_OPEN /\ listen /\ Goto(Dev, "ready")
       \/ Goto(Dev, "end")
    /\ UNCHANGED <<state, lock, sockets, pool, outside>>

(* bind and listen may fail, and do on a socket closed meanwhile.          *)
OpenBind ==
    /\ At(Dev, "bind")
    /\ \/ state = SOCKET_OPEN /\ listen /\ Goto(Dev, "ready")
       \/ Call(Dev, "cleanup", "end")
    /\ UNCHANGED <<state, lock, sockets, pool, outside>>

OpenReturn ==
    /\ At(Dev, "ready")
    /\ IF state = SOCKET_OPEN THEN Goto(Dev, "serve")
                              ELSE Call(Dev, "cleanup", "end")
    /\ UNCHANGED <<state, lock, sockets, pool, outside>>

(* sdrtcp_serve_client_async: a wrong state is reported through closedcb   *)
(* before the cleanup; the caller streams all the same.                    *)
ServeTest == Test(Dev, "serve", state = SOCKET_OPEN, "async", "rejected")

ServeRejected ==
    /\ At(Dev, "rejected")
    /\ closed' = closed + 1
    /\ Call(Dev, "cleanup", "stream")
    /\ UNCHANGED <<state, lock, sockets, pool, request, asked, fault>>

ServeAsync ==
    /\ At(Dev, "async")
    /\ state' = STARTED_ASYNC
    /\ Start(Dev, "stream", Srv, "wait")
    /\ UNCHANGED <<lock, sockets, pool, outside>>

(* The device delivers a block, or streaming ends and the device stops     *)
(* the server.                                                             *)
Stream ==
    /\ At(Dev, "stream")
    /\ \/ in <= MaxFed /\ Goto(Dev, "feed")
       \/ Call(Dev, "stop", "end")
    /\ UNCHANGED <<state, lock, sockets, pool, outside>>

(* sdrtcp_feed.                                                            *)
FeedTest == Test(Dev, "feed", state = SERVING, "feedLock", "stream")

(* Mutant: the feeding thread does not take the lock.                      *)
FeedUnlocked == Test(Dev, "feedLock", state = SERVING, "feedGet", "stream")

FeedLock ==
    /\ At(Dev, "feedLock") /\ lock = NoThread
    /\ IF state = SERVING THEN lock' = Dev /\ Goto(Dev, "feedGet")
                          ELSE UNCHANGED lock /\ Goto(Dev, "stream")
    /\ UNCHANGED <<state, sockets, pool, outside>>

FeedUnlock == /\ lock' = NoThread
              /\ Goto(Dev, "stream")
              /\ UNCHANGED <<state, sockets, outside>>

(* pool_get_wait_lock(pool, 0, 1): a buffer at once, or after a wait of at *)
(* most a second, or none.                                                 *)
FeedGet ==
    /\ At(Dev, "feedGet")
    /\ \/ ~open /\ FeedUnlock /\ UNCHANGED pool
       \/ /\ open
          /\ Goto(Dev, IF Room THEN "feedPut" ELSE "feedWait")
          /\ UNCHANGED <<state, lock, sockets, pool, outside>>

(* Mutant: the wait for a buffer has no timeout.                           *)
FeedWaitForever ==
    /\ At(Dev, "feedWait") /\ Room
    /\ Goto(Dev, "feedPut")
    /\ UNCHANGED <<state, lock, sockets, pool, outside>>

FeedWait ==
    /\ At(Dev, "feedWait")
    /\ \/ /\ Room /\ Goto(Dev, "feedPut")
          /\ UNCHANGED <<state, lock, sockets, pool, outside>>
       \/ ~Room /\ FeedUnlock /\ UNCHANGED pool

FeedPut == At(Dev, "feedPut") /\ Pool!Put /\ FeedUnlock

DevStep ==
    \/ OpenInit \/ OpenHeader \/ OpenTest \/ OpenSocket \/ OpenMark \/ OpenBind
    \/ OpenReturn \/ ServeTest \/ ServeRejected \/ ServeAsync \/ Stream
    \/ FeedTest \/ FeedLock \/ FeedGet \/ FeedWait \/ FeedPut \/ StopStep(Dev)
-----------------------------------------------------------------------------
(* sdrtcp_wait_for_client.                                                 *)
WaitTest == Test(Srv, "wait", state = STARTED_ASYNC, "select", "check")

WaitSelect ==
    /\ At(Srv, "select")
    /\ \/ listen /\ \E l \in {"wait", "accept"} :
             (l = "accept" => state = STARTED_ASYNC) /\ Goto(Srv, l)
          /\ UNCHANGED <<state, lock, sockets, pool, outside>>
       \/ ~listen /\ Undefined(Srv, "wait")    \* FD_SET(-1)

(* accept fails, or hands over a connection, which is stored afterwards:   *)
(* maybe after another thread's cleanup.                                   *)
WaitAccept ==
    /\ At(Srv, "accept")
    /\ \/ state = STARTED_ASYNC /\ listen /\ Goto(Srv, "store")
       \/ state = STARTED_ASYNC /\ Goto(Srv, "check")
       \/ state # STARTED_ASYNC /\ Goto(Srv, "wait")
    /\ UNCHANGED <<state, lock, sockets, pool, outside>>

WaitStore ==
    /\ At(Srv, "store")
    /\ client' = TRUE
    /\ Goto(Srv, "connected")
    /\ UNCHANGED <<state, lock, listen, leaked, pool, outside>>

WaitConnected == Test(Srv, "connected", client, "mark", "check")
WaitMark == Assign(Srv, "mark", CLIENT_OPEN, "wait")

(* tcp_server: the command listener is started before the state says that  *)
(* a client is served.                                                     *)
ServerTest == Test(Srv, "check", state = CLIENT_OPEN, "spawn", "finish")

ServerSpawn ==
    /\ At(Srv, "spawn")
    /\ Start(Srv, "begin", Cmd, "listen")
    /\ UNCHANGED <<state, lock, sockets, pool, outside>>

ServerBegin == lock = NoThread /\ Assign(Srv, "begin", SERVING, "loop")

ServerJoin ==
    /\ At(Srv, "join") /\ pc[Cmd] = "end"
    /\ Goto(Srv, "finish")
    /\ UNCHANGED <<state, lock, sockets, pool, outside>>

(* Mutant: closedcb is called without the cleanup.                         *)
ServerFinishEarly == lock = NoThread /\ Test(Srv, "finish", TRUE, "closed", "closed")

ServerFinish ==
    /\ At(Srv, "finish") /\ lock = NoThread
    /\ IF state = UNINITIALIZED THEN Goto(Srv, "closed")
                                ELSE Call(Srv, "cleanup", "closed")
    /\ UNCHANGED <<state, lock, sockets, pool, outside>>

ServerClosed ==
    /\ At(Srv, "closed")
    /\ closed' = closed + 1
    /\ Goto(Srv, "end")
    /\ UNCHANGED <<state, lock, sockets, pool, request, asked, fault>>
-----------------------------------------------------------------------------
(* serveClient: obtain an item, send it piece by piece, hand it back.      *)
ServeLoopTest == Test(Srv, "loop", state = SERVING, "get", "join")
ServeGet == Test(Srv, "get", open, "pool", "loop")

ServePool ==
    /\ At(Srv, "pool")
    /\ \/ Pool!Take /\ Goto(Srv, "item")
          /\ UNCHANGED <<state, lock, sockets, outside>>
       \/ /\ open /\ out = in /\ Goto(Srv, "loop")        \* timeout
          /\ UNCHANGED <<state, lock, sockets, pool, outside>>
       \/ ~open /\ Undefined(Srv, "loop")     \* the pool was freed in use

(* The mutant does not look at the state while an item is being sent.      *)
ServeItemBlind == Test(Srv, "item", TRUE, "writable", "put")
ServeItem == Test(Srv, "item", state = SERVING, "writable", "put")

ServeSelect ==
    /\ At(Srv, "writable")
    /\ \/ /\ client
          /\ \E l \in {"item", "send", "failed"} :
                (l # "item" => state = SERVING) /\ Goto(Srv, l)
          /\ UNCHANGED <<state, lock, sockets, pool, outside>>
       \/ ~client /\ Undefined(Srv, "item")   \* FD_SET(-1)

(* The rest of the item, a part of it, or an error that is seen while the  *)
(* state is still SERVING.                                                 *)
ServeSend ==
    /\ At(Srv, "send")
    /\ \/ state = SERVING /\ client /\ \E l \in {"put", "item"} : Goto(Srv, l)
       \/ state = SERVING /\ Goto(Srv, "failed")
       \/ state # SERVING /\ Goto(Srv, "item")
    /\ UNCHANGED <<state, lock, sockets, pool, outside>>

ServeFail == Assign(Srv, "failed", NEEDS_STOPPING, "item")

ServePut == Test(Srv, "put", open, "return", "loop")

ServeReturn ==
    /\ At(Srv, "return")
    /\ \/ Pool!Return /\ Goto(Srv, "loop")
          /\ UNCHANGED <<state, lock, sockets, outside>>
       \/ ~open /\ Undefined(Srv, "loop")

SrvStep ==
    \/ WaitTest \/ WaitSelect \/ WaitAccept \/ WaitStore \/ WaitConnected
    \/ WaitMark \/ ServerTest \/ ServerSpawn \/ ServerBegin \/ ServerJoin
    \/ ServerFinish \/ ServerClosed \/ ServeLoopTest \/ ServeGet \/ ServePool \/ ServeItem
    \/ ServeSelect \/ ServeSend \/ ServeFail \/ ServePut \/ ServeReturn
    \/ CleanupEnter(Srv) \/ CleanupRelease(Srv)
-----------------------------------------------------------------------------
(* commandListener.                                                        *)
ListenTest == Test(Cmd, "listen", state = SERVING, "readable", "end")

ListenSelect ==
    /\ At(Cmd, "readable")
    /\ \/ /\ client
          /\ \E l \in {"listen", "recv"} :
                /\ l = "recv" => state = SERVING
                /\ l = "listen" => ~request \/ state # SERVING
                /\ Goto(Cmd, l)
          /\ UNCHANGED <<state, lock, sockets, pool, outside>>
       \/ ~client /\ Undefined(Cmd, "listen")

(* The end of a command, a part of one or end of file, or an error.        *)
ListenRecv ==
    /\ At(Cmd, "recv")
    /\ \/ state = SERVING /\ client /\ request /\ Goto(Cmd, "command")
       \/ state = SERVING /\ client /\ ~request /\ Goto(Cmd, "listen")
       \/ state = SERVING /\ Goto(Cmd, "recvErr")
       \/ state # SERVING /\ Goto(Cmd, "listen")
    /\ UNCHANGED <<state, lock, sockets, pool, outside>>

ListenRecvErr == Assign(Cmd, "recvErr", NEEDS_STOPPING, "listen")

(* commandcb: the device is tuned, or the client asks for the end.         *)
ListenCommand ==
    /\ At(Cmd, "command")
    /\ request' = FALSE
    /\ \/ state = SERVING /\ Goto(Cmd, "listen")
       \/ state = SERVING /\ Call(Cmd, "stop", "listen")
       \/ state # SERVING /\ Goto(Cmd, "listen")
    /\ UNCHANGED <<state, lock, sockets, pool, asked, closed, fault>>

CmdStep ==
    \/ ListenTest \/ ListenSelect \/ ListenRecv \/ ListenRecvErr
    \/ ListenCommand \/ StopStep(Cmd)
-----------------------------------------------------------------------------
(* A connected client sends a command.                                     *)
ClientRequest ==
    /\ client /\ ~request /\ ~fault
    /\ request' = TRUE
    /\ UNCHANGED <<state, lock, sockets, pool, pc, ret, asked, closed, fault>>

(* The session is over: nothing of it runs any more.                       *)
Over == fault \/ \A t \in Threads : pc[t] \in {"none", "end"}
Rest == Over /\ UNCHANGED vars

Next == \/ DevStep \/ SrvStep \/ CmdStep \/ ClientRequest \/ Rest
        \/ \E t \in Closers : StopStep(t)

Spec == Init /\ [][Next]_vars

(* The scheduler runs every thread, and the client reads what it is sent.  *)
FairSpec == /\ Spec
            /\ WF_vars(DevStep) /\ WF_vars(SrvStep) /\ WF_vars(CmdStep)
            /\ \A t \in Closers : WF_vars(StopStep(t))

(* The client may stop reading for ever: the server thread may then block  *)
(* in send, but never while it owns the lock.                              *)
StalledSpec == /\ Spec
               /\ WF_vars(DevStep) /\ WF_vars(CmdStep)
               /\ WF_vars(CleanupRelease(Srv))
               /\ \A t \in Closers : WF_vars(StopStep(t))
-----------------------------------------------------------------------------
(* When closedcb is called the session's resources are gone and cannot     *)
(* come back: no listening socket, no pool, no command listener that could *)
(* still call commandcb (sdrtcp.c:226-243).                                *)
ReleasedAtClosed ==
    pc[Srv] = "closed" => ~listen /\ ~open /\ pc[Cmd] \in {"none", "end"}

(* Whatever the order in which the threads stopped: once all of them have  *)
(* ended, the lock is free, and neither the listening socket nor the pool  *)
(* is left behind.  The client's socket is: nobody closes it (line 66).    *)
(* But it is the only one, whoever cleans up between accept and the store. *)
ReleasedAtEnd ==
    (\A t \in Threads : pc[t] \in {"none", "end"}) =>
        ~listen /\ ~open /\ lock = NoThread /\ ~client /\ leaked <= 1

(* sdrtcp_feed works on the pool under state_locker: nobody frees the pool *)
(* between pool_get_wait_lock and pool_get_unlock of the feeding thread.   *)
FeederOwnsPool ==
    [][pc[Dev] \in {"feedWait", "feedPut"} => open' = open]_vars

(* A server that has been told to stop while it serves does end, and says  *)
(* so through closedcb, if the client reads what it is sent.               *)
ServingEnds ==
    WF_vars(SrvStep) =>
        (pc[Srv] \in ServeLoop /\ state # SERVING) ~> (pc[Srv] = "end" \/ fault)

(* The thread that feeds, a USB callback, is never held up for ever, even  *)
(* if the client never reads again.                                        *)
FeedReturns ==
    (pc[Dev] \in {"feed", "feedLock", "feedGet", "feedWait", "feedPut"})
        ~> (pc[Dev] = "stream" \/ fault)
-----------------------------------------------------------------------------
(* sdrtcp.h:62: "if a command is received command cb will be called".      *)
(* Does not hold: a listener that is scheduled before the server thread    *)
(* sets STAGE_CLIENT_SERVING ends at once.                                 *)
CommandDelivered ==
    (request /\ state = SERVING) ~> (~request \/ state # SERVING \/ fault)

(* SdrDevice.java:81: "When anyone asks to close the rtl-tcp", the device  *)
(* "must also call announceOnClosed": a stop ends the server.              *)
(* Does not hold: the server thread's own assignments overwrite the stop.  *)
StopHonoured ==
    asked ~> (pc[Srv] = "end" \/ fault)
=============================================================================
