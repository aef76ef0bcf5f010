---------------------------- MODULE SdrTcpProofs ----------------------------
(***************************************************************************)
(* What the TCP server guarantees for any number of threads that stop it   *)
(* concurrently, any pool size and any number of blocks.                   *)
(***************************************************************************)
EXTENDS SdrTcp, TLAPS

(* Dev is still in sdrtcp_open_socket, before the state can say so, and    *)
(* until it knows whether it has a socket.                                 *)
Opening == {"open", "header", "isInit", "create", "opened"}
Feeding == {"stream", "feed", "feedLock", "feedGet", "feedWait", "feedPut"}
Stopping == {"stop", "stopAsync", "stopWrite"}
Waiting == {"wait", "select", "accept", "store", "connected", "mark", "check", "spawn"}
Serving == ServeLoop \cup {"begin", "join"}

(* Each thread runs its own code, and goes back to it after stop.          *)
Control ==
    /\ pc[Dev] \in DevLabels \cup StopLabels /\ ret[Dev] \in {"stream", "end"}
    /\ pc[Srv] \in SrvLabels \cup {"cleanup", "release"}
    /\ pc[Srv] \in {"cleanup", "release"} => ret[Srv] = "closed"
    /\ pc[Cmd] \in CmdLabels \cup StopLabels
    /\ pc[Cmd] \in StopLabels => ret[Cmd] = "listen"
    /\ \A t \in Closers : pc[t] \in StopLabels \cup {"end"} /\ ret[t] = "end"

(* Who owns state_locker between two steps.                                *)
Critical(t) ==
    \/ pc[t] = "release"
    \/ t = Dev /\ pc[t] \in {"header", "feedGet", "feedWait", "feedPut"}
LockInv == \A t \in Threads : lock = t <=> Critical(t)

(* The server thread exists only once the opening thread streams.          *)
SrvStarted ==
    pc[Srv] # "none" => pc[Dev] \in Feeding \cup StopLabels \cup {"end"}

(* The command listener runs only while tcp_server is between its creation *)
(* and its join.                                                           *)
CmdStarted ==
    /\ pc[Srv] \in {"none", "wait", "select", "accept", "store", "connected",
                    "mark", "check", "spawn"} => pc[Cmd] = "none"
    /\ pc[Srv] \in {"finish", "cleanup", "release", "closed", "end"} =>
          pc[Cmd] \in {"none", "end"}

(* State UNINITIALIZED means released, or being released under the lock,   *)
(* except for a socket that Dev created after somebody else's cleanup.     *)
Uninitialized ==
    state = UNINITIALIZED /\ pc[Dev] \notin {"open", "header"} =>
       \/ \E t \in Threads : pc[t] = "release"
       \/ ~open /\ (listen => pc[Dev] = "opened")

(* Nothing is left once the server thread reports the end, or once Dev is  *)
(* past the opening and there is no server thread.                         *)
Released ==
    (\/ pc[Srv] \in {"closed", "end"}
     \/ pc[Srv] = "none" /\ pc[Dev] \in Feeding \cup Stopping \cup {"end"})
       => ~listen /\ ~open

(* TypeOK without the program counters.                                    *)
Data ==
    /\ state \in UNINITIALIZED .. NEEDS_STOPPING
    /\ lock \in Threads \cup {NoThread}
    /\ listen \in BOOLEAN /\ client \in BOOLEAN /\ open \in BOOLEAN
    /\ in \in Nat /\ out \in Nat /\ done \in Nat
    /\ request \in BOOLEAN /\ asked \in BOOLEAN /\ fault \in BOOLEAN
    /\ closed \in Nat /\ leaked \in Nat

ServerInv == TypeOK /\ Control /\ LockInv /\ SrvStarted /\ CmdStarted
             /\ Uninitialized /\ Released
-----------------------------------------------------------------------------
(* A step of the server thread within wait_for_client, or within           *)
(* serveClient, that may assign any state but UNINITIALIZED.               *)
LEMMA SrvMove ==
    ASSUME ServerAssumption, ServerInv, Data', NEW m,
           pc' = [pc EXCEPT ![Srv] = m], ret' = ret,
           UNCHANGED <<lock, listen, open>>,
           state' = state \/ state' # UNINITIALIZED,
           \/ pc[Srv] \in Waiting /\ m \in Waiting \cup {"finish"}
           \/ pc[Srv] \in Serving /\ m \in Serving
    PROVE  ServerInv'
<1> USE ServerAssumption DEF ServerAssumption
<1> USE DEF Threads, Dev, Srv, Cmd, NoThread, UNINITIALIZED, INITIALIZED, SOCKET_OPEN,
        CLIENT_OPEN, STARTED_ASYNC, SERVING, NEEDS_STOPPING
<1> USE DEF DevLabels, SrvLabels, CmdLabels, StopLabels, Opening, Feeding, Stopping,
        Waiting, Serving, ServeLoop
<1>0. \A u \in Threads : pc'[u] = IF u = Srv THEN m ELSE pc[u]
  BY DEF ServerInv, TypeOK
<1>1. TypeOK'
  BY DEF ServerInv, TypeOK, Data
<1>2. Control'
  <2>1. /\ pc'[Dev] = pc[Dev] /\ pc'[Srv] = m /\ pc'[Cmd] = pc[Cmd]
        /\ \A u \in Closers : pc'[u] = pc[u]
    BY <1>0
  <2> QED BY <2>1 DEF ServerInv, Control
<1>3. LockInv'
  BY <1>0 DEF ServerInv, TypeOK, Control, LockInv, Critical, LockInv
<1>4. SrvStarted'
  BY <1>0 DEF ServerInv, TypeOK, Control, SrvStarted
<1>5. CmdStarted'
  BY <1>0 DEF ServerInv, TypeOK, Control, CmdStarted
<1>6. Uninitialized'
  BY <1>0 DEF ServerInv, TypeOK, Control, Uninitialized, Critical, LockInv
<1>7. Released'
  BY <1>0 DEF ServerInv, TypeOK, Control, Released, Critical, LockInv
<1> QED BY <1>1, <1>2, <1>3, <1>4, <1>5, <1>6, <1>7 DEF ServerInv

(* A step of the command listener.                                         *)
LEMMA CmdMove ==
    ASSUME ServerAssumption, ServerInv, Data', NEW m,
           pc' = [pc EXCEPT ![Cmd] = m],
           UNCHANGED <<lock, listen, open>>,
           state' = state \/ state' # UNINITIALIZED,
           pc[Cmd] \in CmdLabels \ {"none", "end"},
           \/ m \in CmdLabels \ {"none"} /\ ret' = ret
           \/ m = "stop" /\ ret' = [ret EXCEPT ![Cmd] = "listen"]
    PROVE  ServerInv'
<1> USE ServerAssumption DEF ServerAssumption
<1> USE DEF Threads, Dev, Srv, Cmd, NoThread, UNINITIALIZED, INITIALIZED, SOCKET_OPEN,
        CLIENT_OPEN, STARTED_ASYNC, SERVING, NEEDS_STOPPING
<1> USE DEF DevLabels, SrvLabels, CmdLabels, StopLabels, Opening, Feeding, Stopping,
        Waiting, Serving, ServeLoop
<1>0. \A u \in Threads : pc'[u] = IF u = Cmd THEN m ELSE pc[u]
  BY DEF ServerInv, TypeOK
<1>1. TypeOK'
  BY DEF ServerInv, TypeOK, Data
<1>2. Control'
  <2>1. /\ pc'[Dev] = pc[Dev] /\ pc'[Srv] = pc[Srv] /\ pc'[Cmd] = m
        /\ \A u \in Closers : pc'[u] = pc[u]
    BY <1>0
  <2>2. /\ ret'[Dev] \in {ret[Dev], "end"} /\ ret'[Srv] = ret[Srv]
        /\ m = "stop" => ret'[Cmd] = "listen"
        /\ m # "stop" => ret'[Cmd] = ret[Cmd]
        /\ \A u \in Closers : ret'[u] = ret[u]
    BY DEF ServerInv, TypeOK
  <2> QED BY <2>1, <2>2 DEF ServerInv, Control
<1>3. LockInv'
  BY <1>0 DEF ServerInv, TypeOK, Control, LockInv, Critical, LockInv
<1>4. SrvStarted'
  BY <1>0 DEF ServerInv, TypeOK, Control, SrvStarted
<1>5. CmdStarted'
  BY <1>0 DEF ServerInv, TypeOK, Control, CmdStarted
<1>6. Uninitialized'
  BY <1>0 DEF ServerInv, TypeOK, Control, Uninitialized, Critical, LockInv
<1>7. Released'
  BY <1>0 DEF ServerInv, TypeOK, Control, Released, Critical, LockInv
<1> QED BY <1>1, <1>2, <1>3, <1>4, <1>5, <1>6, <1>7 DEF ServerInv

(* A step of the feeding thread that does not own the lock.                *)
LEMMA DevMove ==
    ASSUME ServerAssumption, ServerInv, Data', NEW m,
           pc' = [pc EXCEPT ![Dev] = m],
           \/ ret' = ret
           \/ ret' = [ret EXCEPT ![Dev] = "end"],
           UNCHANGED <<lock, listen, open, state>>,
           pc[Dev] \in {"stream", "feed", "feedLock"},
           m \in {"stream", "feed", "feedLock", "stop"}
    PROVE  ServerInv'
<1> USE ServerAssumption DEF ServerAssumption
<1> USE DEF Threads, Dev, Srv, Cmd, NoThread, UNINITIALIZED, INITIALIZED, SOCKET_OPEN,
        CLIENT_OPEN, STARTED_ASYNC, SERVING, NEEDS_STOPPING
<1> USE DEF DevLabels, SrvLabels, CmdLabels, StopLabels, Opening, Feeding, Stopping,
        Waiting, Serving, ServeLoop
<1>0. \A u \in Threads : pc'[u] = IF u = Dev THEN m ELSE pc[u]
  BY DEF ServerInv, TypeOK
<1>1. TypeOK'
  BY DEF ServerInv, TypeOK, Data
<1>2. Control'
  <2>1. /\ pc'[Dev] = m /\ pc'[Srv] = pc[Srv] /\ pc'[Cmd] = pc[Cmd]
        /\ \A u \in Closers : pc'[u] = pc[u]
    BY <1>0
  <2>2. /\ ret'[Dev] \in {ret[Dev], "end"} /\ ret'[Srv] = ret[Srv]
        /\ ret'[Cmd] = ret[Cmd] /\ \A u \in Closers : ret'[u] = ret[u]
    BY DEF ServerInv, TypeOK
  <2> QED BY <2>1, <2>2 DEF ServerInv, Control
<1>3. LockInv'
  BY <1>0 DEF ServerInv, TypeOK, Control, LockInv, Critical, LockInv
<1>4. SrvStarted'
  BY <1>0 DEF ServerInv, TypeOK, Control, SrvStarted
<1>5. CmdStarted'
  BY <1>0 DEF ServerInv, TypeOK, Control, CmdStarted
<1>6. Uninitialized'
  BY <1>0 DEF ServerInv, TypeOK, Control, Uninitialized, Critical, LockInv
<1>7. Released'
  BY <1>0 DEF ServerInv, TypeOK, Control, Released, Critical, LockInv
<1> QED BY <1>1, <1>2, <1>3, <1>4, <1>5, <1>6, <1>7 DEF ServerInv

(* A step of the feeding thread that owns, takes or releases the lock.     *)
LEMMA FeedMove ==
    ASSUME ServerAssumption, ServerInv, Data', NEW m,
           pc' = [pc EXCEPT ![Dev] = m], ret' = ret,
           UNCHANGED <<listen, open, state>>,
           pc[Dev] \in {"feedLock", "feedGet", "feedWait", "feedPut"},
           pc[Dev] = "feedLock" => lock = NoThread,
           \/ m \in {"feedGet", "feedWait", "feedPut"} /\ lock' = Dev
           \/ m = "stream" /\ lock' = NoThread
    PROVE  ServerInv'
<1> USE ServerAssumption DEF ServerAssumption
<1> USE DEF Threads, Dev, Srv, Cmd, NoThread, UNINITIALIZED, INITIALIZED, SOCKET_OPEN,
        CLIENT_OPEN, STARTED_ASYNC, SERVING, NEEDS_STOPPING
<1> USE DEF DevLabels, SrvLabels, CmdLabels, StopLabels, Opening, Feeding, Stopping,
        Waiting, Serving, ServeLoop
<1>0. \A u \in Threads : pc'[u] = IF u = Dev THEN m ELSE pc[u]
  BY DEF ServerInv, TypeOK
<1>1. TypeOK'
  BY DEF ServerInv, TypeOK, Data
<1>2. Control'
  <2>1. /\ pc'[Dev] = m /\ pc'[Srv] = pc[Srv] /\ pc'[Cmd] = pc[Cmd]
        /\ \A u \in Closers : pc'[u] = pc[u]
    BY <1>0
  <2> QED BY <2>1 DEF ServerInv, Control
<1>3. LockInv'
  BY <1>0 DEF ServerInv, TypeOK, Control, LockInv, Critical, LockInv
<1>4. SrvStarted'
  BY <1>0 DEF ServerInv, TypeOK, Control, SrvStarted
<1>5. CmdStarted'
  BY <1>0 DEF ServerInv, TypeOK, Control, CmdStarted
<1>6. Uninitialized'
  BY <1>0 DEF ServerInv, TypeOK, Control, Uninitialized, Critical, LockInv
<1>7. Released'
  BY <1>0 DEF ServerInv, TypeOK, Control, Released, Critical, LockInv
<1> QED BY <1>1, <1>2, <1>3, <1>4, <1>5, <1>6, <1>7 DEF ServerInv

(* sdrtcp_stop_serving_client without a cleanup, by any thread but Srv.    *)
LEMMA StopMove ==
    ASSUME ServerAssumption, ServerInv, Data', NEW t \in Threads \ {Srv}, NEW m,
           pc' = [pc EXCEPT ![t] = m], ret' = ret,
           UNCHANGED <<lock, listen, open>>,
           state' = state \/ state' # UNINITIALIZED,
           pc[t] \in Stopping, m \in {"stopAsync", "stopWrite", "cleanup", ret[t]}
    PROVE  ServerInv'
<1> USE ServerAssumption DEF ServerAssumption
<1> USE DEF Threads, Dev, Srv, Cmd, NoThread, UNINITIALIZED, INITIALIZED, SOCKET_OPEN,
        CLIENT_OPEN, STARTED_ASYNC, SERVING, NEEDS_STOPPING
<1> USE DEF DevLabels, SrvLabels, CmdLabels, StopLabels, Opening, Feeding, Stopping,
        Waiting, Serving, ServeLoop
<1>0. \A u \in Threads : pc'[u] = IF u = t THEN m ELSE pc[u]
  BY DEF ServerInv, TypeOK
<1>1. TypeOK'
  BY DEF ServerInv, TypeOK, Data
<1>2. Control'
  BY <1>0 DEF ServerInv, TypeOK, Control, Threads
<1>3. LockInv'
  BY <1>0 DEF ServerInv, TypeOK, Control, LockInv, Critical, LockInv
<1>4. SrvStarted'
  BY <1>0 DEF ServerInv, TypeOK, Control, SrvStarted
<1>5. CmdStarted'
  BY <1>0 DEF ServerInv, TypeOK, Control, CmdStarted
<1>6. Uninitialized'
  BY <1>0 DEF ServerInv, TypeOK, Control, Uninitialized, Critical, LockInv
<1>7. Released'
  BY <1>0 DEF ServerInv, TypeOK, Control, Released, Critical, LockInv, Uninitialized
<1> QED BY <1>1, <1>2, <1>3, <1>4, <1>5, <1>6, <1>7 DEF ServerInv

(* sdrtcp_cleanup, by any thread: the lock is free on entry.               *)
LEMMA CleanupEnterInv ==
    ASSUME ServerAssumption, ServerInv, NEW t \in Threads, CleanupEnter(t)
    PROVE  ServerInv'
<1> DEFINE m == pc'[t]
<1> USE ServerAssumption DEF ServerAssumption
<1> USE DEF Threads, Dev, Srv, Cmd, NoThread, UNINITIALIZED, INITIALIZED, SOCKET_OPEN,
        CLIENT_OPEN, STARTED_ASYNC, SERVING, NEEDS_STOPPING
<1> USE DEF DevLabels, SrvLabels, CmdLabels, StopLabels, Opening, Feeding, Stopping,
        Waiting, Serving, ServeLoop
<1> USE DEF Test, At, Goto, Assign, Call, Start, Undefined, FeedUnlock, outside, pool,
        sockets, Pool!Put, Pool!Reopen, Pool!Take, Pool!Return, Pool!chanVars
<1>0. /\ \A u \in Threads : pc'[u] = IF u = t THEN m ELSE pc[u]
      /\ pc[t] = "cleanup" /\ lock = NoThread /\ ret' = ret
      /\ UNCHANGED <<listen, open>>
      /\ \/ state = UNINITIALIZED /\ m = ret[t] /\ UNCHANGED <<state, lock>>
         \/ state # UNINITIALIZED /\ m = "release" /\ state' = UNINITIALIZED /\ lock' = t
  BY DEF CleanupEnter, ServerInv, TypeOK
<1>1. TypeOK'
  <2>1. Data'
    <3>1. state' \in UNINITIALIZED .. NEEDS_STOPPING /\ lock' \in Threads \cup {NoThread}
      BY <1>0 DEF ServerInv, TypeOK
    <3>2. UNCHANGED <<listen, client, leaked, in, out, done, open, request, asked,
                      closed, fault>>
      BY DEF CleanupEnter
    <3> QED BY <3>1, <3>2 DEF ServerInv, TypeOK, Data
  <2>2. m \in {"stream", "closed", "listen", "end", "release"}
    BY <1>0 DEF ServerInv, TypeOK
  <2>3. pc' \in [Threads -> DevLabels \cup SrvLabels \cup CmdLabels \cup StopLabels]
    <3>1. pc' = [pc EXCEPT ![t] = m]
      BY <1>0 DEF CleanupEnter, ServerInv, TypeOK
    <3> HIDE DEF m
    <3> QED BY <2>2, <3>1 DEF ServerInv, TypeOK
  <2> QED BY <2>1, <2>3, <1>0 DEF Data, ServerInv, TypeOK
<1> HIDE DEF m
<1>2. Control'
  <2>1. CASE t = Dev
    <3>1. m \in {"stream", "end", "release"}
      BY <2>1, <1>0 DEF ServerInv, Control
    <3>2. /\ pc'[Dev] = m /\ pc'[Srv] = pc[Srv] /\ pc'[Cmd] = pc[Cmd]
          /\ \A u \in Closers : pc'[u] = pc[u]
      BY <2>1, <1>0
    <3>3. ret' = ret
      BY <1>0
    <3> HIDE DEF m
    <3> QED BY <3>1, <3>2, <3>3 DEF ServerInv, Control
  <2>2. CASE t = Srv
    <3>1. /\ pc'[Dev] = pc[Dev] /\ pc'[Srv] = m /\ pc'[Cmd] = pc[Cmd]
          /\ ret' = ret /\ \A u \in Closers : pc'[u] = pc[u]
      BY <2>2, <1>0
    <3>2. pc[Srv] \in StopLabels
      BY <2>2, <1>0
    <3> HIDE DEF m
    <3> QED BY <3>1, <3>2, <1>0, <2>2 DEF ServerInv, Control
  <2>3. CASE t = Cmd
    <3>1. /\ pc'[Dev] = pc[Dev] /\ pc'[Srv] = pc[Srv] /\ pc'[Cmd] = m
          /\ ret' = ret /\ \A u \in Closers : pc'[u] = pc[u]
      BY <2>3, <1>0
    <3>2. pc[Cmd] \in StopLabels
      BY <2>3, <1>0
    <3> HIDE DEF m
    <3> QED BY <3>1, <3>2, <1>0, <2>3 DEF ServerInv, Control
  <2>4. CASE t \in Closers
    BY <2>4, <1>0 DEF ServerInv, TypeOK, Control
  <2> QED BY <2>1, <2>2, <2>3, <2>4
<1>3. LockInv'
  BY <1>0 DEF ServerInv, TypeOK, Control, LockInv, Critical, LockInv
<1>4. SrvStarted'
  BY <1>0 DEF ServerInv, TypeOK, Control, SrvStarted
<1>5. CmdStarted'
  BY <1>0 DEF ServerInv, TypeOK, Control, CmdStarted
<1>6. Uninitialized'
  BY <1>0 DEF ServerInv, TypeOK, Control, Uninitialized, Critical, LockInv
<1>7. Released'
  <2>1. CASE state = UNINITIALIZED
    <3>1. \A u \in Threads : pc[u] # "release"
      BY <1>0 DEF ServerInv, LockInv, Critical
    <3>2. pc[Dev] \notin {"open", "header", "opened"} => ~listen /\ ~open
      BY <2>1, <3>1 DEF ServerInv, Uninitialized
    <3>3. CASE t = Dev
      BY <3>2, <3>3, <1>0 DEF Released
    <3>4. CASE t = Srv
      BY <3>2, <3>4, <1>0 DEF ServerInv, SrvStarted, Released
    <3>5. CASE t # Dev /\ t # Srv
      BY <3>5, <1>0 DEF ServerInv, Released
    <3> QED BY <3>3, <3>4, <3>5 DEF Released
  <2>2. CASE state # UNINITIALIZED
    BY <2>2, <1>0 DEF ServerInv, Released
  <2> QED BY <2>1, <2>2
<1> QED BY <1>1, <1>2, <1>3, <1>4, <1>5, <1>6, <1>7 DEF ServerInv

LEMMA CleanupReleaseInv ==
    ASSUME ServerAssumption, ServerInv, NEW t \in Threads, CleanupRelease(t)
    PROVE  ServerInv'
<1> DEFINE m == ret[t]
<1> USE ServerAssumption DEF ServerAssumption
<1> USE DEF Threads, Dev, Srv, Cmd, NoThread, UNINITIALIZED, INITIALIZED, SOCKET_OPEN,
        CLIENT_OPEN, STARTED_ASYNC, SERVING, NEEDS_STOPPING
<1> USE DEF DevLabels, SrvLabels, CmdLabels, StopLabels, Opening, Feeding, Stopping,
        Waiting, Serving, ServeLoop
<1> USE DEF Test, At, Goto, Assign, Call, Start, Undefined, FeedUnlock, outside, pool,
        sockets, Pool!Put, Pool!Reopen, Pool!Take, Pool!Return, Pool!chanVars
<1>0. /\ \A u \in Threads : pc'[u] = IF u = t THEN m ELSE pc[u]
      /\ pc[t] = "release" /\ lock' = NoThread /\ ret' = ret /\ state' = state
      /\ ~listen' /\ ~open'
  BY DEF CleanupRelease, ServerInv, TypeOK
<1>1. TypeOK'
  <2>1. leaked' \in Nat
    <3>1. leaked \in Nat /\ leaked' = leaked + (IF client THEN 1 ELSE 0)
      BY DEF CleanupRelease, ServerInv, TypeOK
    <3> QED BY <3>1
  <2>2. Data'
    BY <2>1, <1>0 DEF CleanupRelease, ServerInv, TypeOK, Data
  <2>3. pc' \in [Threads -> DevLabels \cup SrvLabels \cup CmdLabels \cup StopLabels]
    BY DEF CleanupRelease, ServerInv, TypeOK
  <2> QED BY <2>2, <2>3, <1>0 DEF Data, ServerInv, TypeOK
<1>2. Control'
  <2>1. CASE t = Dev
    <3>1. m \in {"stream", "end", "release"}
      BY <2>1, <1>0 DEF ServerInv, Control
    <3>2. /\ pc'[Dev] = m /\ pc'[Srv] = pc[Srv] /\ pc'[Cmd] = pc[Cmd]
          /\ \A u \in Closers : pc'[u] = pc[u]
      BY <2>1, <1>0
    <3>3. ret' = ret
      BY <1>0
    <3> HIDE DEF m
    <3> QED BY <3>1, <3>2, <3>3 DEF ServerInv, Control
  <2>2. CASE t = Srv
    <3>1. /\ pc'[Dev] = pc[Dev] /\ pc'[Srv] = m /\ pc'[Cmd] = pc[Cmd]
          /\ ret' = ret /\ \A u \in Closers : pc'[u] = pc[u]
      BY <2>2, <1>0
    <3>2. m = "closed"
      BY <2>2, <1>0 DEF ServerInv, Control
    <3> HIDE DEF m
    <3> QED BY <3>1, <3>2 DEF ServerInv, Control
  <2>3. CASE t = Cmd
    <3>1. /\ pc'[Dev] = pc[Dev] /\ pc'[Srv] = pc[Srv] /\ pc'[Cmd] = m
          /\ ret' = ret /\ \A u \in Closers : pc'[u] = pc[u]
      BY <2>3, <1>0
    <3>2. m = "listen"
      BY <2>3, <1>0 DEF ServerInv, Control
    <3> HIDE DEF m
    <3> QED BY <3>1, <3>2 DEF ServerInv, Control
  <2>4. CASE t \in Closers
    BY <2>4, <1>0 DEF ServerInv, TypeOK, Control
  <2> QED BY <2>1, <2>2, <2>3, <2>4
<1>3. LockInv'
  BY <1>0 DEF ServerInv, TypeOK, Control, LockInv, Critical, LockInv
<1>4. SrvStarted'
  BY <1>0 DEF ServerInv, TypeOK, Control, SrvStarted
<1>5. CmdStarted'
  BY <1>0 DEF ServerInv, TypeOK, Control, CmdStarted
<1>6. Uninitialized'
  BY <1>0 DEF ServerInv, TypeOK, Control, Uninitialized, Critical, LockInv
<1>7. Released'
  BY <1>0 DEF ServerInv, TypeOK, Control, Released, Critical, LockInv, Uninitialized
<1> QED BY <1>1, <1>2, <1>3, <1>4, <1>5, <1>6, <1>7 DEF ServerInv
-----------------------------------------------------------------------------
(* Stopping, by every thread.                                              *)
LEMMA StopInv ==
    ASSUME ServerAssumption, ServerInv, NEW t \in Threads \ {Srv}, StopStep(t)
    PROVE  ServerInv'
<1> USE ServerAssumption DEF ServerAssumption
<1> USE DEF Threads, Dev, Srv, Cmd, NoThread, UNINITIALIZED, INITIALIZED, SOCKET_OPEN,
        CLIENT_OPEN, STARTED_ASYNC, SERVING, NEEDS_STOPPING
<1> USE DEF DevLabels, SrvLabels, CmdLabels, StopLabels, Opening, Feeding, Stopping,
        Waiting, Serving, ServeLoop
<1> USE DEF Test, At, Goto, Assign, Call, Start, Undefined, FeedUnlock, outside, pool,
        sockets, Pool!Put, Pool!Reopen, Pool!Take, Pool!Return, Pool!chanVars
<1>1. CASE StopTest(t) \/ StopChoose(t) \/ StopWrite(t)
  <2>1. Data'
    <3>1. CASE StopTest(t) \/ StopChoose(t)
      BY <3>1 DEF StopTest, StopChoose, ServerInv, TypeOK, Data
    <3>2. CASE StopWrite(t)
      BY <3>2 DEF StopWrite, ServerInv, TypeOK, Data
    <3> QED BY <1>1, <3>1, <3>2
  <2>2. PICK m \in {"stopAsync", "stopWrite", "cleanup", ret[t]} :
           pc' = [pc EXCEPT ![t] = m]
    BY <1>1 DEF StopTest, StopChoose, StopWrite
  <2>3. /\ pc[t] \in Stopping /\ ret' = ret /\ UNCHANGED <<lock, listen, open>>
        /\ state' = state \/ state' # UNINITIALIZED
    BY <1>1 DEF StopTest, StopChoose, StopWrite
  <2> QED BY <2>1, <2>2, <2>3, StopMove
<1>2. CASE CleanupEnter(t)
  BY <1>2, CleanupEnterInv
<1>3. CASE CleanupRelease(t)
  BY <1>3, CleanupReleaseInv
<1> QED BY <1>1, <1>2, <1>3 DEF StopStep

(* sdrtcp_open_socket and sdrtcp_serve_client_async.                       *)
LEMMA OpenInv ==
    ASSUME ServerAssumption, ServerInv,
           \/ OpenInit \/ OpenHeader \/ OpenTest \/ OpenSocket \/ OpenMark
           \/ OpenBind \/ OpenReturn \/ ServeTest \/ ServeRejected \/ ServeAsync
    PROVE  ServerInv'
<1> USE ServerAssumption DEF ServerAssumption
<1> USE DEF Threads, Dev, Srv, Cmd, NoThread, UNINITIALIZED, INITIALIZED, SOCKET_OPEN,
        CLIENT_OPEN, STARTED_ASYNC, SERVING, NEEDS_STOPPING
<1> USE DEF DevLabels, SrvLabels, CmdLabels, StopLabels, Opening, Feeding, Stopping,
        Waiting, Serving, ServeLoop
<1> USE DEF Test, At, Goto, Assign, Call, Start, Undefined, FeedUnlock, outside, pool,
        sockets, Pool!Put, Pool!Reopen, Pool!Take, Pool!Return, Pool!chanVars
<1>1. CASE OpenInit
  <2>1. TypeOK'
    BY <1>1 DEF OpenInit, ServerInv, TypeOK, Control
  <2>2. Control'
    BY <1>1 DEF OpenInit, ServerInv, TypeOK, Control
  <2>3. LockInv'
    BY <1>1 DEF OpenInit, ServerInv, TypeOK, Control, LockInv, Critical
  <2>4. SrvStarted'
    BY <1>1 DEF OpenInit, ServerInv, TypeOK, Control, SrvStarted
  <2>5. CmdStarted'
    BY <1>1 DEF OpenInit, ServerInv, TypeOK, Control, CmdStarted
  <2>6. Uninitialized'
    BY <1>1 DEF OpenInit, ServerInv, TypeOK, Control, Uninitialized, Critical, LockInv
  <2>7. Released'
    BY <1>1 DEF OpenInit, ServerInv, TypeOK, Control,
                Released, Critical, LockInv, SrvStarted, Uninitialized
  <2> QED BY <2>1, <2>2, <2>3, <2>4, <2>5, <2>6, <2>7 DEF ServerInv
<1>2. CASE OpenHeader
  <2>1. TypeOK'
    BY <1>2 DEF OpenHeader, ServerInv, TypeOK, Control
  <2>2. Control'
    BY <1>2 DEF OpenHeader, ServerInv, TypeOK, Control
  <2>3. LockInv'
    BY <1>2 DEF OpenHeader, ServerInv, TypeOK, Control, LockInv, Critical
  <2>4. SrvStarted'
    BY <1>2 DEF OpenHeader, ServerInv, TypeOK, Control, SrvStarted
  <2>5. CmdStarted'
    BY <1>2 DEF OpenHeader, ServerInv, TypeOK, Control, CmdStarted
  <2>6. Uninitialized'
    BY <1>2 DEF OpenHeader, ServerInv, TypeOK,
                Control, Uninitialized, Critical, LockInv
  <2>7. Released'
    BY <1>2 DEF OpenHeader, ServerInv, TypeOK, Control,
                Released, Critical, LockInv, SrvStarted, Uninitialized
  <2> QED BY <2>1, <2>2, <2>3, <2>4, <2>5, <2>6, <2>7 DEF ServerInv
<1>3. CASE OpenTest
  <2>1. TypeOK'
    BY <1>3 DEF OpenTest, ServerInv, TypeOK, Control
  <2>2. Control'
    BY <1>3 DEF OpenTest, ServerInv, TypeOK, Control
  <2>3. LockInv'
    BY <1>3 DEF OpenTest, ServerInv, TypeOK, Control, LockInv, Critical
  <2>4. SrvStarted'
    BY <1>3 DEF OpenTest, ServerInv, TypeOK, Control, SrvStarted
  <2>5. CmdStarted'
    BY <1>3 DEF OpenTest, ServerInv, TypeOK, Control, CmdStarted
  <2>6. Uninitialized'
    BY <1>3 DEF OpenTest, ServerInv, TypeOK, Control, Uninitialized, Critical, LockInv
  <2>7. Released'
    BY <1>3 DEF OpenTest, ServerInv, TypeOK, Control,
                Released, Critical, LockInv, SrvStarted, Uninitialized
  <2> QED BY <2>1, <2>2, <2>3, <2>4, <2>5, <2>6, <2>7 DEF ServerInv
<1>4. CASE OpenSocket
  <2>1. TypeOK'
    BY <1>4 DEF OpenSocket, ServerInv, TypeOK, Control
  <2>2. Control'
    BY <1>4 DEF OpenSocket, ServerInv, TypeOK, Control
  <2>3. LockInv'
    BY <1>4 DEF OpenSocket, ServerInv, TypeOK, Control, LockInv, Critical
  <2>4. SrvStarted'
    BY <1>4 DEF OpenSocket, ServerInv, TypeOK, Control, SrvStarted
  <2>5. CmdStarted'
    BY <1>4 DEF OpenSocket, ServerInv, TypeOK, Control, CmdStarted
  <2>6. Uninitialized'
    BY <1>4 DEF OpenSocket, ServerInv, TypeOK,
                Control, Uninitialized, Critical, LockInv
  <2>7. Released'
    BY <1>4 DEF OpenSocket, ServerInv, TypeOK, Control,
                Released, Critical, LockInv, SrvStarted, Uninitialized
  <2> QED BY <2>1, <2>2, <2>3, <2>4, <2>5, <2>6, <2>7 DEF ServerInv
<1>5. CASE OpenMark
  <2>1. TypeOK'
    BY <1>5 DEF OpenMark, ServerInv, TypeOK, Control
  <2>2. Control'
    BY <1>5 DEF OpenMark, ServerInv, TypeOK, Control
  <2>3. LockInv'
    BY <1>5 DEF OpenMark, ServerInv, TypeOK, Control, LockInv, Critical
  <2>4. SrvStarted'
    BY <1>5 DEF OpenMark, ServerInv, TypeOK, Control, SrvStarted
  <2>5. CmdStarted'
    BY <1>5 DEF OpenMark, ServerInv, TypeOK, Control, CmdStarted
  <2>6. Uninitialized'
    BY <1>5 DEF OpenMark, ServerInv, TypeOK, Control, Uninitialized, Critical, LockInv
  <2>7. Released'
    BY <1>5 DEF OpenMark, ServerInv, TypeOK, Control,
                Released, Critical, LockInv, SrvStarted, Uninitialized
  <2> QED BY <2>1, <2>2, <2>3, <2>4, <2>5, <2>6, <2>7 DEF ServerInv
<1>6. CASE OpenBind
  <2>1. TypeOK'
    <3>1. Data'
      BY <1>6 DEF OpenBind, ServerInv, TypeOK, Data
    <3>2. /\ pc' \in [Threads -> DevLabels \cup SrvLabels \cup CmdLabels \cup StopLabels]
          /\ ret' \in [Threads -> {"stream", "closed", "listen", "end"}]
      <4>1. CASE Goto(Dev, "ready")
        BY <4>1 DEF ServerInv, TypeOK
      <4>2. CASE Call(Dev, "cleanup", "end")
        BY <4>2 DEF ServerInv, TypeOK
      <4> QED BY <1>6, <4>1, <4>2 DEF OpenBind
    <3> QED BY <3>1, <3>2 DEF TypeOK, Data
  <2>2. Control'
    <3>1. /\ pc'[Dev] \in {"ready", "cleanup"} /\ pc'[Srv] = pc[Srv]
          /\ pc'[Cmd] = pc[Cmd] /\ \A u \in Closers : pc'[u] = pc[u]
      BY <1>6 DEF OpenBind, ServerInv, TypeOK
    <3>2. /\ ret'[Dev] \in {ret[Dev], "end"} /\ ret'[Srv] = ret[Srv]
          /\ ret'[Cmd] = ret[Cmd] /\ \A u \in Closers : ret'[u] = ret[u]
      BY <1>6 DEF OpenBind, ServerInv, TypeOK
    <3> QED BY <3>1, <3>2 DEF ServerInv, Control
  <2>3. LockInv'
    BY <1>6 DEF OpenBind, ServerInv, TypeOK, Control, LockInv, Critical
  <2>4. SrvStarted'
    BY <1>6 DEF OpenBind, ServerInv, TypeOK, Control, SrvStarted
  <2>5. CmdStarted'
    BY <1>6 DEF OpenBind, ServerInv, TypeOK, Control, CmdStarted
  <2>6. Uninitialized'
    BY <1>6 DEF OpenBind, ServerInv, TypeOK, Control, Uninitialized, Critical, LockInv
  <2>7. Released'
    BY <1>6 DEF OpenBind, ServerInv, TypeOK, Control,
                Released, Critical, LockInv, SrvStarted, Uninitialized
  <2> QED BY <2>1, <2>2, <2>3, <2>4, <2>5, <2>6, <2>7 DEF ServerInv
<1>7. CASE OpenReturn
  <2>1. TypeOK'
    <3>1. Data'
      BY <1>7 DEF OpenReturn, ServerInv, TypeOK, Data
    <3>2. /\ pc' \in [Threads -> DevLabels \cup SrvLabels \cup CmdLabels \cup StopLabels]
          /\ ret' \in [Threads -> {"stream", "closed", "listen", "end"}]
      <4>1. CASE Goto(Dev, "serve")
        BY <4>1 DEF ServerInv, TypeOK
      <4>2. CASE Call(Dev, "cleanup", "end")
        BY <4>2 DEF ServerInv, TypeOK
      <4> QED BY <1>7, <4>1, <4>2 DEF OpenReturn
    <3> QED BY <3>1, <3>2 DEF TypeOK, Data
  <2>2. Control'
    <3>1. CASE Goto(Dev, "serve")
      BY <3>1, <1>7 DEF OpenReturn, ServerInv, TypeOK, Control
    <3>2. CASE Call(Dev, "cleanup", "end")
      BY <3>2, <1>7 DEF OpenReturn, ServerInv, TypeOK, Control
    <3> QED BY <1>7, <3>1, <3>2 DEF OpenReturn
  <2>3. LockInv'
    BY <1>7 DEF OpenReturn, ServerInv, TypeOK, Control, LockInv, Critical
  <2>4. SrvStarted'
    BY <1>7 DEF OpenReturn, ServerInv, TypeOK, Control, SrvStarted
  <2>5. CmdStarted'
    BY <1>7 DEF OpenReturn, ServerInv, TypeOK, Control, CmdStarted
  <2>6. Uninitialized'
    BY <1>7 DEF OpenReturn, ServerInv, TypeOK,
                Control, Uninitialized, Critical, LockInv
  <2>7. Released'
    BY <1>7 DEF OpenReturn, ServerInv, TypeOK, Control,
                Released, Critical, LockInv, SrvStarted, Uninitialized
  <2> QED BY <2>1, <2>2, <2>3, <2>4, <2>5, <2>6, <2>7 DEF ServerInv
<1>8. CASE ServeTest
  <2>1. TypeOK'
    BY <1>8 DEF ServeTest, ServerInv, TypeOK, Control
  <2>2. Control'
    BY <1>8 DEF ServeTest, ServerInv, TypeOK, Control
  <2>3. LockInv'
    BY <1>8 DEF ServeTest, ServerInv, TypeOK, Control, LockInv, Critical
  <2>4. SrvStarted'
    BY <1>8 DEF ServeTest, ServerInv, TypeOK, Control, SrvStarted
  <2>5. CmdStarted'
    BY <1>8 DEF ServeTest, ServerInv, TypeOK, Control, CmdStarted
  <2>6. Uninitialized'
    BY <1>8 DEF ServeTest, ServerInv, TypeOK,
                Control, Uninitialized, Critical, LockInv
  <2>7. Released'
    BY <1>8 DEF ServeTest, ServerInv, TypeOK, Control,
                Released, Critical, LockInv, SrvStarted, Uninitialized
  <2> QED BY <2>1, <2>2, <2>3, <2>4, <2>5, <2>6, <2>7 DEF ServerInv
<1>9. CASE ServeRejected
  <2>1. TypeOK'
    <3>1. Data'
      BY <1>9 DEF ServeRejected, ServerInv, TypeOK, Data
    <3>2. /\ pc' \in [Threads -> DevLabels \cup SrvLabels \cup CmdLabels \cup StopLabels]
          /\ ret' \in [Threads -> {"stream", "closed", "listen", "end"}]
      BY <1>9 DEF ServeRejected, ServerInv, TypeOK
    <3> QED BY <3>1, <3>2 DEF TypeOK, Data
  <2>2. Control'
    <3>1. /\ pc'[Dev] = "cleanup" /\ pc'[Srv] = pc[Srv] /\ pc'[Cmd] = pc[Cmd]
          /\ \A u \in Closers : pc'[u] = pc[u]
          /\ ret'[Dev] = "stream" /\ ret'[Srv] = ret[Srv] /\ ret'[Cmd] = ret[Cmd]
          /\ \A u \in Closers : ret'[u] = ret[u]
      BY <1>9 DEF ServeRejected, ServerInv, TypeOK
    <3> QED BY <3>1 DEF ServerInv, Control
  <2>3. LockInv'
    BY <1>9 DEF ServeRejected, ServerInv, TypeOK, Control, LockInv, Critical
  <2>4. SrvStarted'
    BY <1>9 DEF ServeRejected, ServerInv, TypeOK, Control, SrvStarted
  <2>5. CmdStarted'
    BY <1>9 DEF ServeRejected, ServerInv, TypeOK, Control, CmdStarted
  <2>6. Uninitialized'
    BY <1>9 DEF ServeRejected, ServerInv, TypeOK,
                Control, Uninitialized, Critical, LockInv
  <2>7. Released'
    BY <1>9 DEF ServeRejected, ServerInv, TypeOK, Control,
                Released, Critical, LockInv, SrvStarted, Uninitialized
  <2> QED BY <2>1, <2>2, <2>3, <2>4, <2>5, <2>6, <2>7 DEF ServerInv
<1>10. CASE ServeAsync
  <2>0. /\ pc[Dev] = "async"
        /\ state' = STARTED_ASYNC /\ ret' = ret /\ UNCHANGED <<lock, listen, open>>
        /\ \A t \in Threads : pc'[t] = IF t = Dev THEN "stream"
                                       ELSE IF t = Srv THEN "wait" ELSE pc[t]
    BY <1>10 DEF ServeAsync, ServerInv, TypeOK
  <2>1. TypeOK'
    <3>1. Data'
      BY <1>10 DEF ServeAsync, ServerInv, TypeOK, Data
    <3>2. /\ pc' \in [Threads -> DevLabels \cup SrvLabels \cup CmdLabels \cup StopLabels]
          /\ ret' \in [Threads -> {"stream", "closed", "listen", "end"}]
      BY <1>10 DEF ServeAsync, ServerInv, TypeOK
    <3> QED BY <3>1, <3>2 DEF TypeOK, Data
  <2>2. Control'
    <3>1. /\ pc'[Dev] = "stream" /\ pc'[Srv] = "wait" /\ pc'[Cmd] = pc[Cmd]
          /\ ret' = ret /\ \A u \in Closers : pc'[u] = pc[u]
      BY <2>0
    <3> QED BY <3>1 DEF ServerInv, Control
  <2>3. LockInv'
    BY <2>0 DEF ServerInv, TypeOK, SrvStarted, Control, LockInv, Critical
  <2>4. SrvStarted'
    BY <2>0 DEF ServerInv, TypeOK, Control, SrvStarted
  <2>5. CmdStarted'
    BY <2>0 DEF ServerInv, TypeOK, SrvStarted, Control, CmdStarted
  <2>6. Uninitialized'
    BY <2>0 DEF ServerInv, TypeOK, SrvStarted,
                Control, Uninitialized, Critical, LockInv
  <2>7. Released'
    BY <2>0 DEF ServerInv, TypeOK, Control,
                Released, Critical, LockInv, SrvStarted, Uninitialized
  <2> QED BY <2>1, <2>2, <2>3, <2>4, <2>5, <2>6, <2>7 DEF ServerInv
<1> QED BY <1>1, <1>2, <1>3, <1>4, <1>5, <1>6, <1>7, <1>8, <1>9, <1>10

(* Streaming: the callback that feeds the pool.                            *)
LEMMA StreamInv ==
    ASSUME ServerAssumption, ServerInv,
           Stream \/ FeedTest \/ FeedLock \/ FeedGet \/ FeedWait \/ FeedPut
    PROVE  ServerInv'
<1> USE ServerAssumption DEF ServerAssumption
<1> USE DEF Threads, Dev, Srv, Cmd, NoThread, UNINITIALIZED, INITIALIZED, SOCKET_OPEN,
        CLIENT_OPEN, STARTED_ASYNC, SERVING, NEEDS_STOPPING
<1> USE DEF DevLabels, SrvLabels, CmdLabels, StopLabels, Opening, Feeding, Stopping,
        Waiting, Serving, ServeLoop
<1> USE DEF Test, At, Goto, Assign, Call, Start, Undefined, FeedUnlock, outside, pool,
        sockets, Pool!Put, Pool!Reopen, Pool!Take, Pool!Return, Pool!chanVars
<1>1. CASE Stream
  <2>1. Data'
    BY <1>1 DEF Stream, ServerInv, TypeOK, Data
  <2> QED BY <2>1, <1>1, DevMove DEF Stream
<1>2. CASE FeedTest
  <2>1. Data'
    BY <1>2 DEF FeedTest, ServerInv, TypeOK, Data
  <2> QED BY <2>1, <1>2, DevMove DEF FeedTest
<1>3. CASE FeedLock
  <2>1. Data'
    BY <1>3 DEF FeedLock, ServerInv, TypeOK, Data
  <2>2. CASE state = SERVING
    BY <2>1, <2>2, <1>3, FeedMove DEF FeedLock
  <2>3. CASE state # SERVING
    BY <2>1, <2>3, <1>3, DevMove DEF FeedLock
  <2> QED BY <2>2, <2>3
<1>4. CASE FeedGet \/ FeedWait \/ FeedPut
  <2>1. lock = Dev
    BY <1>4 DEF FeedGet, FeedWait, FeedPut, ServerInv, LockInv, Critical
  <2>2. Data' /\ UNCHANGED <<listen, open, state>> /\ ret' = ret
    BY <1>4 DEF FeedGet, FeedWait, FeedPut, ServerInv, TypeOK, Data
  <2>3. PICK m \in {"stream", "feedWait", "feedPut"} :
           /\ pc' = [pc EXCEPT ![Dev] = m]
           /\ lock' = IF m = "stream" THEN NoThread ELSE lock
    BY <1>4 DEF FeedGet, FeedWait, FeedPut
  <2>4. pc[Dev] \in {"feedGet", "feedWait", "feedPut"}
    BY <1>4 DEF FeedGet, FeedWait, FeedPut
  <2> QED BY <2>1, <2>2, <2>3, <2>4, FeedMove
<1> QED BY <1>1, <1>2, <1>3, <1>4

(* tcp_server, wait_for_client and serveClient.                            *)
LEMMA ServerStepInv ==
    ASSUME ServerAssumption, ServerInv, SrvStep
    PROVE  ServerInv'
<1> USE ServerAssumption DEF ServerAssumption
<1> USE DEF Threads, Dev, Srv, Cmd, NoThread, UNINITIALIZED, INITIALIZED, SOCKET_OPEN,
        CLIENT_OPEN, STARTED_ASYNC, SERVING, NEEDS_STOPPING
<1> USE DEF DevLabels, SrvLabels, CmdLabels, StopLabels, Opening, Feeding, Stopping,
        Waiting, Serving, ServeLoop
<1> USE DEF Test, At, Goto, Assign, Call, Start, Undefined, FeedUnlock, outside, pool,
        sockets, Pool!Put, Pool!Reopen, Pool!Take, Pool!Return, Pool!chanVars
<1>1. CASE WaitTest
  <2>1. Data'
    BY <1>1 DEF WaitTest, ServerInv, TypeOK, Data
  <2> QED BY <2>1, <1>1, SrvMove DEF WaitTest
<1>2. CASE WaitSelect
  <2>1. Data'
    BY <1>2 DEF WaitSelect, ServerInv, TypeOK, Data
  <2> QED BY <2>1, <1>2, SrvMove DEF WaitSelect
<1>3. CASE WaitAccept
  <2>1. Data'
    BY <1>3 DEF WaitAccept, ServerInv, TypeOK, Data
  <2> QED BY <2>1, <1>3, SrvMove DEF WaitAccept
<1>23. CASE WaitStore
  <2>1. Data'
    BY <1>23 DEF WaitStore, ServerInv, TypeOK, Data
  <2> QED BY <2>1, <1>23, SrvMove DEF WaitStore
<1>4. CASE WaitConnected
  <2>1. Data'
    BY <1>4 DEF WaitConnected, ServerInv, TypeOK, Data
  <2> QED BY <2>1, <1>4, SrvMove DEF WaitConnected
<1>5. CASE WaitMark
  <2>1. Data'
    BY <1>5 DEF WaitMark, ServerInv, TypeOK, Data
  <2>2. PICK m \in Waiting : pc' = [pc EXCEPT ![Srv] = m]
    BY <1>5 DEF WaitMark
  <2>3. /\ pc[Srv] = "mark" /\ ret' = ret /\ UNCHANGED <<lock, listen, open>>
        /\ state' = state \/ state' # UNINITIALIZED
    BY <1>5 DEF WaitMark
  <2> QED BY <2>1, <2>2, <2>3, SrvMove
<1>6. CASE ServerTest
  <2>1. Data'
    BY <1>6 DEF ServerTest, ServerInv, TypeOK, Data
  <2> QED BY <2>1, <1>6, SrvMove DEF ServerTest
<1>7. CASE ServerBegin
  <2>1. Data'
    BY <1>7 DEF ServerBegin, ServerInv, TypeOK, Data
  <2>2. PICK m \in Serving : pc' = [pc EXCEPT ![Srv] = m]
    BY <1>7 DEF ServerBegin
  <2>3. /\ pc[Srv] = "begin" /\ ret' = ret /\ UNCHANGED <<lock, listen, open>>
        /\ state' = state \/ state' # UNINITIALIZED
    BY <1>7 DEF ServerBegin
  <2> QED BY <2>1, <2>2, <2>3, SrvMove
<1>8. CASE ServeLoopTest
  <2>1. Data'
    BY <1>8 DEF ServeLoopTest, ServerInv, TypeOK, Data
  <2> QED BY <2>1, <1>8, SrvMove DEF ServeLoopTest
<1>9. CASE ServeGet
  <2>1. Data'
    BY <1>9 DEF ServeGet, ServerInv, TypeOK, Data
  <2> QED BY <2>1, <1>9, SrvMove DEF ServeGet
<1>10. CASE ServePool
  <2>1. Data'
    BY <1>10 DEF ServePool, ServerInv, TypeOK, Data
  <2> QED BY <2>1, <1>10, SrvMove DEF ServePool
<1>11. CASE ServeItem
  <2>1. Data'
    BY <1>11 DEF ServeItem, ServerInv, TypeOK, Data
  <2> QED BY <2>1, <1>11, SrvMove DEF ServeItem
<1>12. CASE ServeSelect
  <2>1. Data'
    BY <1>12 DEF ServeSelect, ServerInv, TypeOK, Data
  <2> QED BY <2>1, <1>12, SrvMove DEF ServeSelect
<1>13. CASE ServeSend
  <2>1. Data'
    BY <1>13 DEF ServeSend, ServerInv, TypeOK, Data
  <2> QED BY <2>1, <1>13, SrvMove DEF ServeSend
<1>14. CASE ServeFail
  <2>1. Data'
    BY <1>14 DEF ServeFail, ServerInv, TypeOK, Data
  <2>2. PICK m \in Serving : pc' = [pc EXCEPT ![Srv] = m]
    BY <1>14 DEF ServeFail
  <2>3. /\ pc[Srv] = "failed" /\ ret' = ret /\ UNCHANGED <<lock, listen, open>>
        /\ state' = state \/ state' # UNINITIALIZED
    BY <1>14 DEF ServeFail
  <2> QED BY <2>1, <2>2, <2>3, SrvMove
<1>15. CASE ServePut
  <2>1. Data'
    BY <1>15 DEF ServePut, ServerInv, TypeOK, Data
  <2> QED BY <2>1, <1>15, SrvMove DEF ServePut
<1>16. CASE ServeReturn
  <2>1. Data'
    BY <1>16 DEF ServeReturn, ServerInv, TypeOK, Data
  <2> QED BY <2>1, <1>16, SrvMove DEF ServeReturn
<1>17. CASE ServerSpawn
  <2>0. /\ pc[Srv] = "spawn"
        /\ state' = state /\ ret' = ret /\ UNCHANGED <<lock, listen, open>>
        /\ \A t \in Threads : pc'[t] = IF t = Srv THEN "begin"
                                       ELSE IF t = Cmd THEN "listen" ELSE pc[t]
    BY <1>17 DEF ServerSpawn, ServerInv, TypeOK
  <2>1. TypeOK'
    BY <1>17 DEF ServerSpawn, ServerInv, TypeOK, Control
  <2>2. Control'
    <3>1. /\ pc'[Dev] = pc[Dev] /\ pc'[Srv] = "begin" /\ pc'[Cmd] = "listen"
          /\ ret' = ret /\ \A u \in Closers : pc'[u] = pc[u]
      BY <2>0
    <3> QED BY <3>1 DEF ServerInv, Control
  <2>3. LockInv'
    BY <2>0 DEF ServerInv, TypeOK, CmdStarted, Control, LockInv, Critical
  <2>4. SrvStarted'
    BY <2>0 DEF ServerInv, TypeOK, Control, SrvStarted
  <2>5. CmdStarted'
    BY <2>0 DEF ServerInv, TypeOK, Control, CmdStarted
  <2>6. Uninitialized'
    BY <2>0 DEF ServerInv, TypeOK, CmdStarted,
                Control, Uninitialized, Critical, LockInv
  <2>7. Released'
    BY <2>0 DEF ServerInv, TypeOK, Control,
                Released, Critical, LockInv, SrvStarted, Uninitialized
  <2> QED BY <2>1, <2>2, <2>3, <2>4, <2>5, <2>6, <2>7 DEF ServerInv
<1>18. CASE ServerJoin
  <2>1. TypeOK'
    BY <1>18 DEF ServerJoin, ServerInv, TypeOK, Control
  <2>2. Control'
    BY <1>18 DEF ServerJoin, ServerInv, TypeOK, Control
  <2>3. LockInv'
    BY <1>18 DEF ServerJoin, ServerInv, TypeOK, Control, LockInv, Critical
  <2>4. SrvStarted'
    BY <1>18 DEF ServerJoin, ServerInv, TypeOK, Control, SrvStarted
  <2>5. CmdStarted'
    BY <1>18 DEF ServerJoin, ServerInv, TypeOK, Control, CmdStarted
  <2>6. Uninitialized'
    BY <1>18 DEF ServerJoin, ServerInv, TypeOK,
                Control, Uninitialized, Critical, LockInv
  <2>7. Released'
    BY <1>18 DEF ServerJoin, ServerInv, TypeOK, Control,
                Released, Critical, LockInv, SrvStarted, Uninitialized
  <2> QED BY <2>1, <2>2, <2>3, <2>4, <2>5, <2>6, <2>7 DEF ServerInv
<1>19. CASE ServerFinish
  <2>1. TypeOK'
    <3>1. Data'
      BY <1>19 DEF ServerFinish, ServerInv, TypeOK, Data
    <3>2. /\ pc' \in [Threads -> DevLabels \cup SrvLabels \cup CmdLabels \cup StopLabels]
          /\ ret' \in [Threads -> {"stream", "closed", "listen", "end"}]
      <4>1. CASE Goto(Srv, "closed")
        BY <4>1 DEF ServerInv, TypeOK
      <4>2. CASE Call(Srv, "cleanup", "closed")
        BY <4>2 DEF ServerInv, TypeOK
      <4> QED BY <1>19, <4>1, <4>2 DEF ServerFinish
    <3> QED BY <3>1, <3>2 DEF TypeOK, Data
  <2>2. Control'
    <3>1. CASE Goto(Srv, "closed")
      BY <3>1, <1>19 DEF ServerFinish, ServerInv, TypeOK, Control
    <3>2. CASE Call(Srv, "cleanup", "closed")
      BY <3>2, <1>19 DEF ServerFinish, ServerInv, TypeOK, Control
    <3> QED BY <1>19, <3>1, <3>2 DEF ServerFinish
  <2>3. LockInv'
    BY <1>19 DEF ServerFinish, ServerInv, TypeOK, Control, LockInv, Critical
  <2>4. SrvStarted'
    BY <1>19 DEF ServerFinish, ServerInv, TypeOK, Control, SrvStarted
  <2>5. CmdStarted'
    BY <1>19 DEF ServerFinish, ServerInv, TypeOK, Control, CmdStarted
  <2>6. Uninitialized'
    BY <1>19 DEF ServerFinish, ServerInv, TypeOK,
                Control, Uninitialized, Critical, LockInv
  <2>7. Released'
    BY <1>19 DEF ServerFinish, ServerInv, TypeOK, Control,
                Released, Critical, LockInv, SrvStarted, Uninitialized
  <2> QED BY <2>1, <2>2, <2>3, <2>4, <2>5, <2>6, <2>7 DEF ServerInv
<1>20. CASE ServerClosed
  <2>1. TypeOK'
    <3>1. Data'
      BY <1>20 DEF ServerClosed, ServerInv, TypeOK, Data
    <3>2. /\ pc' \in [Threads -> DevLabels \cup SrvLabels \cup CmdLabels \cup StopLabels]
          /\ ret' \in [Threads -> {"stream", "closed", "listen", "end"}]
      BY <1>20 DEF ServerClosed, ServerInv, TypeOK
    <3> QED BY <3>1, <3>2 DEF TypeOK, Data
  <2>2. Control'
    <3>1. /\ pc'[Dev] = pc[Dev] /\ pc'[Srv] = "end" /\ pc'[Cmd] = pc[Cmd]
          /\ ret' = ret /\ \A u \in Closers : pc'[u] = pc[u]
      BY <1>20 DEF ServerClosed, ServerInv, TypeOK
    <3> QED BY <3>1 DEF ServerInv, Control
  <2>3. LockInv'
    BY <1>20 DEF ServerClosed, ServerInv, TypeOK, Control, LockInv, Critical
  <2>4. SrvStarted'
    BY <1>20 DEF ServerClosed, ServerInv, TypeOK, Control, SrvStarted
  <2>5. CmdStarted'
    BY <1>20 DEF ServerClosed, ServerInv, TypeOK, Control, CmdStarted
  <2>6. Uninitialized'
    BY <1>20 DEF ServerClosed, ServerInv, TypeOK,
                Control, Uninitialized, Critical, LockInv
  <2>7. Released'
    BY <1>20 DEF ServerClosed, ServerInv, TypeOK, Control,
                Released, Critical, LockInv, SrvStarted, Uninitialized
  <2> QED BY <2>1, <2>2, <2>3, <2>4, <2>5, <2>6, <2>7 DEF ServerInv
<1>21. CASE CleanupEnter(Srv)
  BY <1>21, CleanupEnterInv
<1>22. CASE CleanupRelease(Srv)
  BY <1>22, CleanupReleaseInv
<1> QED BY <1>1, <1>2, <1>3, <1>4, <1>5, <1>6, <1>7, <1>8, <1>9, <1>10, <1>11, <1>12,
      <1>13, <1>14, <1>15, <1>16, <1>17, <1>18, <1>19, <1>20, <1>21, <1>22, <1>23 DEF SrvStep

(* commandListener.                                                        *)
LEMMA CmdInv ==
    ASSUME ServerAssumption, ServerInv, CmdStep
    PROVE  ServerInv'
<1> USE ServerAssumption DEF ServerAssumption
<1> USE DEF Threads, Dev, Srv, Cmd, NoThread, UNINITIALIZED, INITIALIZED, SOCKET_OPEN,
        CLIENT_OPEN, STARTED_ASYNC, SERVING, NEEDS_STOPPING
<1> USE DEF DevLabels, SrvLabels, CmdLabels, StopLabels, Opening, Feeding, Stopping,
        Waiting, Serving, ServeLoop
<1> USE DEF Test, At, Goto, Assign, Call, Start, Undefined, FeedUnlock, outside, pool,
        sockets, Pool!Put, Pool!Reopen, Pool!Take, Pool!Return, Pool!chanVars
<1>1. CASE ListenTest
  <2>1. Data'
    BY <1>1 DEF ListenTest, ServerInv, TypeOK, Data
  <2>2. PICK m \in CmdLabels \ {"none"} : pc' = [pc EXCEPT ![Cmd] = m]
    BY <1>1 DEF ListenTest
  <2>3. /\ pc[Cmd] = "listen" /\ ret' = ret /\ UNCHANGED <<lock, listen, open>>
        /\ state' = state \/ state' # UNINITIALIZED
    BY <1>1 DEF ListenTest
  <2> QED BY <2>1, <2>2, <2>3, CmdMove
<1>2. CASE ListenSelect
  <2>1. Data'
    BY <1>2 DEF ListenSelect, ServerInv, TypeOK, Data
  <2>2. PICK m \in CmdLabels \ {"none"} : pc' = [pc EXCEPT ![Cmd] = m]
    BY <1>2 DEF ListenSelect
  <2>3. /\ pc[Cmd] = "readable" /\ ret' = ret /\ UNCHANGED <<lock, listen, open>>
        /\ state' = state \/ state' # UNINITIALIZED
    BY <1>2 DEF ListenSelect
  <2> QED BY <2>1, <2>2, <2>3, CmdMove
<1>3. CASE ListenRecv
  <2>1. Data'
    BY <1>3 DEF ListenRecv, ServerInv, TypeOK, Data
  <2>2. PICK m \in CmdLabels \ {"none"} : pc' = [pc EXCEPT ![Cmd] = m]
    BY <1>3 DEF ListenRecv
  <2>3. /\ pc[Cmd] = "recv" /\ ret' = ret /\ UNCHANGED <<lock, listen, open>>
        /\ state' = state \/ state' # UNINITIALIZED
    BY <1>3 DEF ListenRecv
  <2> QED BY <2>1, <2>2, <2>3, CmdMove
<1>4. CASE ListenRecvErr
  <2>1. Data'
    BY <1>4 DEF ListenRecvErr, ServerInv, TypeOK, Data
  <2>2. PICK m \in CmdLabels \ {"none"} : pc' = [pc EXCEPT ![Cmd] = m]
    BY <1>4 DEF ListenRecvErr
  <2>3. /\ pc[Cmd] = "recvErr" /\ ret' = ret /\ UNCHANGED <<lock, listen, open>>
        /\ state' = state \/ state' # UNINITIALIZED
    BY <1>4 DEF ListenRecvErr
  <2> QED BY <2>1, <2>2, <2>3, CmdMove
<1>5. CASE ListenCommand
  <2>1. Data'
    BY <1>5 DEF ListenCommand, ServerInv, TypeOK, Data
  <2>2. /\ pc[Cmd] = "command" /\ UNCHANGED <<lock, listen, open, state>>
    BY <1>5 DEF ListenCommand
  <2>3. \/ Goto(Cmd, "listen")
        \/ Call(Cmd, "stop", "listen")
    BY <1>5 DEF ListenCommand
  <2>4. CASE Goto(Cmd, "listen")
    BY <2>1, <2>2, <2>4, CmdMove
  <2>5. CASE Call(Cmd, "stop", "listen")
    BY <2>1, <2>2, <2>5, CmdMove
  <2> QED BY <2>3, <2>4, <2>5
<1>6. CASE StopStep(Cmd)
  BY <1>6, StopInv
<1> QED BY <1>1, <1>2, <1>3, <1>4, <1>5, <1>6 DEF CmdStep

(* The initial state satisfies the invariant.                              *)
LEMMA InitInv ==
    ASSUME ServerAssumption, Init
    PROVE  ServerInv
<1> USE ServerAssumption DEF ServerAssumption, Threads, Dev, Srv, Cmd, NoThread,
        UNINITIALIZED, NEEDS_STOPPING, DevLabels, SrvLabels, CmdLabels, StopLabels
<1>1. TypeOK
  <2>1. /\ state \in UNINITIALIZED .. NEEDS_STOPPING
        /\ in \in Nat /\ out \in Nat /\ done \in Nat /\ closed \in Nat /\ leaked \in Nat
    BY DEF Init
  <2>3. /\ lock \in Threads \cup {NoThread}
        /\ listen \in BOOLEAN /\ client \in BOOLEAN /\ open \in BOOLEAN
        /\ request \in BOOLEAN /\ asked \in BOOLEAN /\ fault \in BOOLEAN
    BY DEF Init
  <2>2. /\ pc \in [Threads -> DevLabels \cup SrvLabels \cup CmdLabels \cup StopLabels]
        /\ ret \in [Threads -> {"stream", "closed", "listen", "end"}]
    BY DEF Init
  <2> QED BY <2>1, <2>2, <2>3 DEF TypeOK
<1>2. Control /\ LockInv
  BY DEF Init, Control, LockInv, Critical
<1>3. SrvStarted /\ CmdStarted /\ Uninitialized /\ Released
  BY DEF Init, SrvStarted, CmdStarted, Uninitialized, Released, Feeding, Stopping
<1> QED BY <1>1, <1>2, <1>3 DEF ServerInv

(* A client's request, or no change at all.                                *)
LEMMA QuietInv ==
    ASSUME ServerAssumption, ServerInv, ClientRequest \/ UNCHANGED vars
    PROVE  ServerInv'
<1>1. UNCHANGED <<state, lock, listen, client, leaked, in, out, done, open, pc, ret,
                  asked, closed, fault>>
  BY DEF ClientRequest, vars, sockets, pool
<1>2. request' \in BOOLEAN
  BY DEF ClientRequest, vars, ServerInv, TypeOK
<1>3. TypeOK'
  BY <1>1, <1>2 DEF ServerInv, TypeOK
<1>4. Control' /\ LockInv' /\ SrvStarted' /\ CmdStarted' /\ Uninitialized' /\ Released'
  BY <1>1 DEF ServerInv, Control, LockInv, Critical, SrvStarted, CmdStarted,
              Uninitialized, Released
<1> QED BY <1>3, <1>4 DEF ServerInv

LEMMA NextInv ==
    ASSUME ServerAssumption, ServerInv, [Next]_vars
    PROVE  ServerInv'
<1>0. {Dev, Cmd} \cup Closers \subseteq Threads \ {Srv}
  BY ServerAssumption DEF ServerAssumption, Threads, Dev, Srv, Cmd
<1>1. CASE DevStep
  <2>1. CASE StopStep(Dev)
    BY <1>0, <2>1, ServerAssumption, StopInv
  <2> QED BY <1>1, <2>1, ServerAssumption, OpenInv, StreamInv DEF DevStep
<1>2. CASE SrvStep
  BY <1>2, ServerAssumption, ServerStepInv
<1>3. CASE CmdStep
  BY <1>3, ServerAssumption, CmdInv
<1>4. CASE \E t \in Closers : StopStep(t)
  BY <1>0, <1>4, ServerAssumption, StopInv
<1>5. CASE ClientRequest \/ Rest \/ UNCHANGED vars
  BY <1>5, ServerAssumption, QuietInv DEF Rest
<1> QED BY <1>1, <1>2, <1>3, <1>4, <1>5 DEF Next
-----------------------------------------------------------------------------
(* No connection has been accepted yet, or the first is about to be stored. *)
Unserved ==
    \/ pc[Srv] \in {"none", "store"}
    \/ state = STARTED_ASYNC /\ pc[Srv] \in {"wait", "select", "accept"}

(* A cleanup is over, and the server thread is not between the store of a   *)
(* client socket and the assignment of the state; or its last one is over.  *)
Forgotten ==
    \/ /\ state = UNINITIALIZED /\ pc[Srv] \notin {"connected", "mark"}
       /\ \A t \in Threads : pc[t] # "release"
    \/ pc[Srv] \in {"closed", "end"}

(* At most one connection is accepted in a session.                         *)
ClientInv ==
    /\ leaked <= 1 /\ (client => leaked = 0)
    /\ Unserved => ~client /\ leaked = 0
    /\ Forgotten => ~client

(* What a step must not do that leaves the client socket alone.             *)
LEMMA ClientKept ==
    ASSUME ClientInv, UNCHANGED <<client, leaked>>, Unserved' => Unserved,
           \A t \in Threads : pc[t] = "release" => pc'[t] = "release",
           state' = UNINITIALIZED =>
               state = UNINITIALIZED \/ \E t \in Threads : pc'[t] = "release",
           pc[Srv] \in {"connected", "mark"} /\ state = UNINITIALIZED =>
               pc'[Srv] \in {"connected", "mark"} \/ state' # UNINITIALIZED \/ ~client,
           pc'[Srv] \in {"closed", "end"} => Forgotten
    PROVE  ClientInv'
  BY DEF ClientInv, Forgotten

(* A step of another thread than the server's.                              *)
LEMMA ClientOthers ==
    ASSUME ServerAssumption, ServerInv, ClientInv, NEW t \in Threads \ {Srv}, NEW m,
           pc' = [pc EXCEPT ![t] = m], pc[t] # "release", UNCHANGED <<client, leaked>>,
           \/ state' = state
           \/ state' \notin {UNINITIALIZED, STARTED_ASYNC}
           \/ state' = UNINITIALIZED /\ m = "release"
    PROVE  ClientInv'
<1>1. \A u \in Threads : pc'[u] = IF u = t THEN m ELSE pc[u]
  BY DEF ServerInv, TypeOK
<1>2. pc'[Srv] = pc[Srv] /\ Srv \in Threads
  BY <1>1 DEF Threads
<1>3. Unserved' => Unserved
  BY <1>2 DEF Unserved, UNINITIALIZED, STARTED_ASYNC
<1>4. pc'[Srv] \in {"closed", "end"} => Forgotten
  BY <1>2 DEF Forgotten
<1> QED BY <1>1, <1>2, <1>3, <1>4, ClientKept

LEMMA ClientReleased ==
    ASSUME ServerAssumption, ServerInv, ClientInv, NEW t \in Threads, CleanupRelease(t)
    PROVE  ClientInv'
<1>1. /\ client' = FALSE /\ leaked' = leaked + (IF client THEN 1 ELSE 0)
      /\ state' = state /\ pc[t] = "release"
      /\ \A u \in Threads : pc'[u] = IF u = t THEN ret[t] ELSE pc[u]
  BY DEF CleanupRelease, At, Goto, ServerInv, TypeOK
<1>2. leaked \in Nat /\ Srv \in Threads /\ (t = Srv => ret[Srv] = "closed")
  BY <1>1 DEF ServerInv, TypeOK, Control, Threads
<1>3. Unserved' => Unserved
  BY <1>1, <1>2 DEF Unserved
<1> QED BY <1>1, <1>2, <1>3 DEF ClientInv

LEMMA ClientStop ==
    ASSUME ServerAssumption, ServerInv, ClientInv, NEW t \in Threads \ {Srv}, StopStep(t)
    PROVE  ClientInv'
<1> USE DEF UNINITIALIZED, STARTED_ASYNC, NEEDS_STOPPING, At, Goto, Test, sockets
<1>1. CASE StopTest(t) \/ StopChoose(t) \/ StopWrite(t)
  BY <1>1, ClientOthers DEF StopTest, StopChoose, StopWrite
<1>2. CASE CleanupEnter(t)
  BY <1>2, ClientOthers DEF CleanupEnter
<1>3. CASE CleanupRelease(t)
  BY <1>3, ClientReleased
<1> QED BY <1>1, <1>2, <1>3 DEF StopStep

LEMMA ClientDev ==
    ASSUME ServerAssumption, ServerInv, ClientInv, DevStep
    PROVE  ClientInv'
<1> USE DEF UNINITIALIZED, INITIALIZED, SOCKET_OPEN, STARTED_ASYNC, At, Goto, Test, Call,
        sockets
<1>0. Dev \in Threads \ {Srv}
  BY DEF Threads, Dev, Srv
<1>1. CASE OpenInit \/ OpenHeader \/ OpenTest \/ OpenSocket \/ OpenMark
  BY <1>0, <1>1, ClientOthers DEF OpenInit, OpenHeader, OpenTest, OpenSocket, OpenMark
<1>2. CASE OpenBind \/ OpenReturn \/ ServeTest \/ ServeRejected
  BY <1>0, <1>2, ClientOthers DEF OpenBind, OpenReturn, ServeTest, ServeRejected
<1>3. CASE ServeAsync
  <2>1. /\ pc[Dev] = "async" /\ UNCHANGED <<client, leaked>>
        /\ state' = STARTED_ASYNC /\ pc' = [pc EXCEPT ![Dev] = "stream", ![Srv] = "wait"]
    BY <1>3 DEF ServeAsync, Start
  <2>2. pc[Srv] = "none"
    BY <2>1 DEF ServerInv, SrvStarted, Feeding, StopLabels
  <2>3. pc'[Srv] = "wait"
    BY <2>1 DEF ServerInv, TypeOK, Threads
  <2> QED BY <2>1, <2>2, <2>3 DEF ClientInv, Unserved, Forgotten
<1>4. CASE Stream \/ FeedTest \/ FeedLock \/ FeedGet \/ FeedWait \/ FeedPut
  BY <1>0, <1>4, ClientOthers
     DEF Stream, FeedTest, FeedLock, FeedGet, FeedWait, FeedPut, FeedUnlock
<1>5. CASE StopStep(Dev)
  BY <1>0, <1>5, ClientStop
<1> QED BY <1>1, <1>2, <1>3, <1>4, <1>5 DEF DevStep

LEMMA ClientCmd ==
    ASSUME ServerAssumption, ServerInv, ClientInv, CmdStep
    PROVE  ClientInv'
<1> USE DEF UNINITIALIZED, STARTED_ASYNC, NEEDS_STOPPING, At, Goto, Test, Call, Assign,
        Undefined, sockets
<1>0. Cmd \in Threads \ {Srv}
  BY DEF Threads, Cmd, Srv
<1>1. CASE ListenTest \/ ListenSelect \/ ListenRecv \/ ListenRecvErr \/ ListenCommand
  BY <1>0, <1>1, ClientOthers
     DEF ListenTest, ListenSelect, ListenRecv, ListenRecvErr, ListenCommand
<1>2. CASE StopStep(Cmd)
  BY <1>0, <1>2, ClientStop
<1> QED BY <1>1, <1>2 DEF CmdStep

(* The server thread.                                                       *)
LEMMA ClientSrv ==
    ASSUME ServerAssumption, ServerInv, ClientInv, SrvStep
    PROVE  ClientInv'
<1> USE DEF UNINITIALIZED, CLIENT_OPEN, STARTED_ASYNC, SERVING, NEEDS_STOPPING, At, Goto,
        Test, Call, Assign, Undefined, sockets
<1>0. Srv \in Threads /\ Cmd \in Threads /\ pc \in [Threads -> DevLabels \cup SrvLabels
                                                \cup CmdLabels \cup StopLabels]
  BY DEF ServerInv, TypeOK, Threads
<1>1. CASE WaitTest \/ WaitSelect \/ WaitAccept \/ WaitConnected \/ WaitMark
  <2>1. PICK m \in Waiting \cup {"finish"} : pc' = [pc EXCEPT ![Srv] = m]
    BY <1>1 DEF WaitTest, WaitSelect, WaitAccept, WaitConnected, WaitMark, Waiting
  <2>2. \A u \in Threads : pc'[u] = IF u = Srv THEN m ELSE pc[u]
    BY <1>0, <2>1
  <2>3. UNCHANGED <<client, leaked>> /\ pc[Srv] # "release" /\ m \notin {"closed", "end"}
    BY <1>1, <2>1 DEF WaitTest, WaitSelect, WaitAccept, WaitConnected, WaitMark, Waiting
  <2>4. Unserved' => Unserved
    BY <1>0, <1>1, <2>2
       DEF WaitTest, WaitSelect, WaitAccept, WaitConnected, WaitMark, Unserved
  <2>5. /\ state' = state \/ state' # UNINITIALIZED
        /\ pc[Srv] \in {"connected", "mark"} =>
               pc'[Srv] \in {"connected", "mark"} \/ state' # UNINITIALIZED \/ ~client
    BY <1>0, <1>1, <2>2 DEF WaitTest, WaitSelect, WaitAccept, WaitConnected, WaitMark
  <2> QED BY <1>0, <2>2, <2>3, <2>4, <2>5, ClientKept
<1>2. CASE WaitStore
  <2>1. /\ client' = TRUE /\ UNCHANGED <<leaked, state>> /\ pc[Srv] = "store"
        /\ pc'[Srv] = "connected"
    BY <1>0, <1>2 DEF WaitStore
  <2> QED BY <2>1 DEF ClientInv, Unserved, Forgotten
<1>3. CASE ServerTest \/ ServerSpawn \/ ServerBegin \/ ServerJoin
  <2>1. /\ UNCHANGED <<client, leaked>> /\ state' \in {state, SERVING}
        /\ pc[Srv] \in {"check", "spawn", "begin", "join"}
        /\ pc'[Srv] \in {"spawn", "finish", "begin", "loop"}
        /\ \A u \in Threads \ {Srv, Cmd} : pc'[u] = pc[u]
        /\ pc'[Cmd] = pc[Cmd] \/ pc[Srv] = "spawn"
    BY <1>0, <1>3 DEF ServerTest, ServerSpawn, ServerBegin, ServerJoin, Start, Cmd, Srv
  <2>2. \A u \in Threads : pc[u] = "release" => pc'[u] = "release"
    BY <2>1 DEF ServerInv, CmdStarted
  <2>3. Unserved' => Unserved
    BY <2>1 DEF Unserved
  <2> QED BY <2>1, <2>2, <2>3, ClientKept
<1>4. CASE ServerFinish \/ ServerClosed \/ CleanupEnter(Srv)
  <2>1. /\ UNCHANGED <<client, leaked>>
        /\ pc[Srv] \in {"finish", "closed", "cleanup"}
        /\ pc'[Srv] \in {"closed", "end", "cleanup", "release"}
        /\ \A u \in Threads \ {Srv} : pc'[u] = pc[u]
        /\ state' = state \/ pc'[Srv] = "release"
        /\ state' # STARTED_ASYNC \/ state' = state
    BY <1>0, <1>4 DEF ServerFinish, ServerClosed, CleanupEnter, ServerInv, Control
  <2>2. pc'[Srv] \in {"closed", "end"} => Forgotten
    <3>1. CASE ServerClosed
      BY <3>1 DEF ServerClosed, Forgotten
    <3>2. CASE ~ServerClosed /\ pc'[Srv] \in {"closed", "end"}
      <4>1. state = UNINITIALIZED /\ lock = NoThread
        BY <1>0, <1>4, <3>2 DEF ServerFinish, CleanupEnter
      <4>2. \A u \in Threads : pc[u] # "release"
        BY <4>1, ServerAssumption
           DEF ServerInv, LockInv, Critical, ServerAssumption, Threads, NoThread, Dev,
               Srv, Cmd
      <4> QED BY <2>1, <4>1, <4>2 DEF Forgotten
    <3> QED BY <3>1, <3>2
  <2>3. Unserved' => Unserved
    BY <2>1 DEF Unserved
  <2> QED BY <1>0, <2>1, <2>2, <2>3, ClientKept
<1>5. CASE \/ ServeLoopTest \/ ServeGet \/ ServePool \/ ServeItem \/ ServeSelect
           \/ ServeSend \/ ServeFail \/ ServePut \/ ServeReturn
  <2>1. PICK m \in Serving : pc' = [pc EXCEPT ![Srv] = m]
    BY <1>5 DEF ServeLoopTest, ServeGet, ServePool, ServeItem, ServeSelect, ServeSend,
                ServeFail, ServePut, ServeReturn, Serving, ServeLoop
  <2>2. \A u \in Threads : pc'[u] = IF u = Srv THEN m ELSE pc[u]
    BY <1>0, <2>1
  <2>3. /\ UNCHANGED <<client, leaked>> /\ pc[Srv] \in ServeLoop
        /\ state' = state \/ state' = NEEDS_STOPPING
    BY <1>5 DEF ServeLoopTest, ServeGet, ServePool, ServeItem, ServeSelect, ServeSend,
                ServeFail, ServePut, ServeReturn, ServeLoop
  <2>4. Unserved' => Unserved
    BY <1>0, <2>2 DEF Unserved, Serving, ServeLoop
  <2> QED BY <1>0, <2>2, <2>3, <2>4, ClientKept DEF Serving, ServeLoop
<1>6. CASE CleanupRelease(Srv)
  BY <1>0, <1>6, ClientReleased
<1> QED BY <1>1, <1>2, <1>3, <1>4, <1>5, <1>6 DEF SrvStep

LEMMA ClientNext ==
    ASSUME ServerAssumption, ServerInv, ClientInv, [Next]_vars
    PROVE  ClientInv'
<1>1. CASE ClientRequest \/ Rest \/ UNCHANGED vars
  BY <1>1 DEF ClientRequest, Rest, vars, sockets, ClientInv, Unserved, Forgotten
<1>2. CASE \E t \in Closers : StopStep(t)
  <2>1. Closers \subseteq Threads \ {Srv}
    BY ServerAssumption DEF ServerAssumption, Threads, Dev, Srv, Cmd
  <2> QED BY <1>2, <2>1, ServerAssumption, ClientStop
<1> QED BY <1>1, <1>2, ServerAssumption, ClientDev, ClientSrv, ClientCmd DEF Next
-----------------------------------------------------------------------------
(* Every session of the server keeps to the invariant: each thread runs its *)
(* own code, state_locker has at most one owner, which is inside a critical *)
(* section, and state UNINITIALIZED means a released session.               *)
THEOREM ServerInvariant ==
    ASSUME ServerAssumption
    PROVE  Spec => []ServerInv
<1>1. Init => ServerInv
  BY ServerAssumption, InitInv
<1>2. ServerInv /\ [Next]_vars => ServerInv'
  BY ServerAssumption, NextInv
<1> QED BY <1>1, <1>2, PTL DEF Spec

(* A session accepts one client at most, and a cleanup forgets its socket, *)
(* also one that is stored after another cleanup.                          *)
THEOREM ClientInvariant ==
    ASSUME ServerAssumption
    PROVE  Spec => []ClientInv
<1>1. Init => ClientInv
  BY DEF Init, ClientInv, Unserved, Forgotten, Srv
<1>2. ServerInv /\ ClientInv /\ [Next]_vars => ClientInv'
  BY ServerAssumption, ClientNext
<1> QED BY <1>1, <1>2, ServerAssumption, ServerInvariant, PTL DEF Spec

(* obj->state, the sockets, the pool's counters and every thread's position *)
(* stay within their types.                                                 *)
THEOREM ServerTypeCorrect ==
    ASSUME ServerAssumption
    PROVE  Spec => []TypeOK
<1>1. ServerInv => TypeOK
  BY DEF ServerInv
<1> QED BY <1>1, ServerAssumption, ServerInvariant, PTL

(* closedcb is called on a released session: the listening socket is closed, *)
(* the pool freed and commandListener over (sdrtcp.c:226-243), whoever       *)
(* stopped the server and whenever.                                          *)
THEOREM ReleasedAtClosedHolds ==
    ASSUME ServerAssumption
    PROVE  Spec => []ReleasedAtClosed
<1>1. ServerInv => ReleasedAtClosed
  BY DEF ServerInv, Released, CmdStarted, ReleasedAtClosed
<1> QED BY <1>1, ServerAssumption, ServerInvariant, PTL

(* When every thread has ended, state_locker is free, neither the listening *)
(* socket nor the pool is left behind, and of all the client sockets at most *)
(* one is, wherever opening or serving failed.                               *)
THEOREM ReleasedAtEndHolds ==
    ASSUME ServerAssumption
    PROVE  Spec => []ReleasedAtEnd
<1>1. ServerInv /\ ClientInv => ReleasedAtEnd
  <2> SUFFICES ASSUME ServerInv, ClientInv, \A t \in Threads : pc[t] \in {"none", "end"}
               PROVE  ~listen /\ ~open /\ lock = NoThread /\ ~client /\ leaked <= 1
    BY DEF ReleasedAtEnd
  <2>1. \A t \in Threads : lock # t
    BY DEF ServerInv, LockInv, Critical
  <2>2. lock = NoThread
    BY <2>1 DEF ServerInv, TypeOK
  <2>3. pc[Dev] = "end" /\ pc[Srv] \in {"none", "end"}
    BY DEF ServerInv, Control, Threads, DevLabels, StopLabels
  <2>4. ~listen /\ ~open
    BY <2>3 DEF ServerInv, Released
  <2>5. ~client /\ leaked <= 1
    BY <2>3 DEF ClientInv, Unserved, Forgotten
  <2> QED BY <2>2, <2>4, <2>5
<1> QED BY <1>1, ServerAssumption, ServerInvariant, ClientInvariant, PTL

(* No step of any thread frees or reopens the pool between the             *)
(* pool_get_wait_lock and the pool_get_unlock of sdrtcp_feed.              *)
THEOREM FeederOwnsPoolHolds ==
    ASSUME ServerAssumption
    PROVE  Spec => FeederOwnsPool
<1> DEFINE Fed == pc[Dev] \in {"feedWait", "feedPut"} => open' = open
<1>1. ASSUME ServerInv, [Next]_vars
      PROVE  [Fed]_vars
  <2> SUFFICES ASSUME pc[Dev] \in {"feedWait", "feedPut"}, Next
               PROVE  open' = open
    BY <1>1
  <2> USE DEF Test, At, Goto, Assign, Call, Start, Undefined, FeedUnlock, outside,
              pool, sockets, vars
  <2>1. ASSUME NEW t \in Threads, CleanupRelease(t)
        PROVE  FALSE
    <3>1. pc[t] = "release"
      BY <2>1 DEF CleanupRelease
    <3>2. lock = t /\ lock = Dev
      BY <1>1, <3>1 DEF ServerInv, LockInv, Critical, Threads
    <3> QED BY <3>1, <3>2
  <2>2. ASSUME NEW t \in Threads, StopStep(t)
        PROVE  open' = open
    BY <2>1, <2>2 DEF StopStep, StopTest, StopChoose, StopWrite, CleanupEnter
  <2>3. CASE DevStep
    <3>1. ~OpenInit
      BY DEF OpenInit
    <3>2. ASSUME OpenHeader \/ FeedPut
          PROVE  open' = open
      BY <3>2 DEF OpenHeader, FeedPut, Pool!Put
    <3>3. ASSUME \/ OpenTest \/ OpenSocket \/ OpenMark \/ OpenBind \/ OpenReturn
                 \/ ServeTest \/ ServeRejected \/ ServeAsync
          PROVE  open' = open
      BY <3>3 DEF OpenTest, OpenSocket, OpenMark, OpenBind, OpenReturn, ServeTest,
                  ServeRejected, ServeAsync
    <3>4. ASSUME Stream \/ FeedTest \/ FeedLock \/ FeedGet \/ FeedWait
          PROVE  open' = open
      BY <3>4 DEF Stream, FeedTest, FeedLock, FeedGet, FeedWait
    <3> QED BY <2>2, <2>3, <3>1, <3>2, <3>3, <3>4 DEF DevStep, Threads
  <2>4. CASE SrvStep
    <3>1. ASSUME \/ WaitTest \/ WaitSelect \/ WaitAccept \/ WaitStore
                 \/ WaitConnected \/ WaitMark
                 \/ ServerTest \/ ServerSpawn \/ ServerBegin \/ ServerJoin
                 \/ ServerFinish \/ ServerClosed \/ CleanupEnter(Srv)
          PROVE  open' = open
      BY <3>1 DEF WaitTest, WaitSelect, WaitAccept, WaitStore, WaitConnected, WaitMark,
                  ServerTest,
                  ServerSpawn, ServerBegin, ServerJoin, ServerFinish, ServerClosed,
                  CleanupEnter
    <3>2. ASSUME \/ ServeLoopTest \/ ServeGet \/ ServePool \/ ServeItem \/ ServeSelect
                 \/ ServeSend \/ ServeFail \/ ServePut \/ ServeReturn
          PROVE  open' = open
      BY <3>2 DEF ServeLoopTest, ServeGet, ServePool, ServeItem, ServeSelect, ServeSend,
                  ServeFail, ServePut, ServeReturn, Pool!Take, Pool!Return
    <3> QED BY <2>1, <2>4, <3>1, <3>2 DEF SrvStep, Threads
  <2>5. CASE CmdStep
    <3>1. ASSUME \/ ListenTest \/ ListenSelect \/ ListenRecv \/ ListenRecvErr
                 \/ ListenCommand
          PROVE  open' = open
      BY <3>1 DEF ListenTest, ListenSelect, ListenRecv, ListenRecvErr, ListenCommand
    <3> QED BY <2>2, <2>5, <3>1 DEF CmdStep, Threads
  <2>6. CASE ClientRequest \/ Rest \/ \E t \in Closers : StopStep(t)
    BY <2>2, <2>6 DEF ClientRequest, Rest, Threads
  <2> QED BY <2>3, <2>4, <2>5, <2>6 DEF Next
<1> QED BY <1>1, ServerAssumption, ServerInvariant, PTL DEF Spec, FeederOwnsPool

=============================================================================
