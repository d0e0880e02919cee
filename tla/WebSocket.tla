------------------------------ MODULE WebSocket ------------------------------
(***************************************************************************)
(* The pool of WebSocket connections of components/web/src/web-socket.c    *)
(* with the two kinds of threads that share it: the http thread of         *)
(* web-server.c, which accepts a socket, finds it a slot of client_socks   *)
(* (evicting the oldest client when all are taken) and starts a thread for *)
(* it, and the connection threads, which read frames, run the handlers,    *)
(* broadcast under the global mutex and close their slot.                  *)
(*                                                                         *)
(* A file descriptor is named by the connection it was accepted for, so a  *)
(* close of a stale descriptor is visible as a second close.  A frame is   *)
(* one element of a small set: Frames.tla models its reassembly.  pthread  *)
(* objects of a slot are "fresh" (memset, initialised on first use),       *)
(* "live" or "dead" (destroyed); locking a dead one is undefined, and the  *)
(* model takes the outcome in which the lock succeeds.                     *)
(***************************************************************************)
EXTENDS Integers

CONSTANTS
    Conns,       \* the connections clients ever open (a bound of the model)
    Http,        \* the http thread
    None,        \* client_sock = -1, no holder, no connection
    MaxClients,  \* MAX_CLIENTS
    LongMax,     \* LONG_MAX, the start of the search for the oldest client
    MaxMsgs,     \* frames all clients together send (a bound of the model)
    Msgs,        \* the kinds of frame clients send in this instance
    Ends,        \* how clients end in this instance: with a FIN, without a trace
    Faults       \* what may fail in this instance: library calls, the memory for a
                 \* frame ("nomem"), a send to a client that is there but does not
                 \* read ("stall")

Slots    == 1..MaxClients
Threads  == Conns \union {Http}
Messages == {"login", "logout", "secure", "set", "restart", "ping", "close", "bad"}
Frames   == {"handshake", "config", "reply", "error", "bcast", "pong", "close"}

ASSUME Assumptions ==
    /\ MaxClients \in Nat \ {0} /\ LongMax \in Nat /\ MaxMsgs \in Nat
    /\ None \notin Conns \union Slots \union {Http}
    /\ Http \notin Conns
    /\ Msgs \subseteq Messages /\ Ends \subseteq {"gone", "lost"}
    /\ Faults \subseteq {"accept", "enomem", "handshake", "nomem", "stall", "thread"}

VARIABLES
    sock, state, seq, login, mtx, \* client_socks[i]: client_sock, state, conn_seq, is_login, mtx_*
    snd,                          \* who holds client_socks[i].mtx_snd
    mutex,                        \* who holds the global mutex
    conn_seq,                     \* the connection counter
    pc, slot,                     \* each thread: where it is, the client structure it works on
    rd, buf,                      \* each connection thread: the socket it reads, the frame in hand
    cur, failed,                  \* http thread: client_fd; is close_client called for a failure
    bi,                           \* the loop index of the broadcast that holds the mutex
    fd, peer, wire,               \* each connection: its descriptor, its client, what is on the way
    msgs,                         \* frames sent by clients
    got,                          \* what was written to each client
    auth,                         \* connections whose own login was accepted and not logged out
    due,                          \* slots the running broadcast has still to serve
    broke                         \* the slot whose send failed in the running broadcast

slotVars == <<sock, state, seq, login, mtx>>
thrVars  == <<slot, rd, buf>>
httpVars == <<cur, failed, conn_seq>>
netVars  == <<fd, peer, wire, msgs>>
castVars == <<mutex, bi, due, broke>>
vars == <<slotVars, snd, thrVars, httpVars, netVars, got, castVars, auth, pc>>

HttpPc == {"accept", "recv", "search", "close_begin", "close_sock", "close_clear",
           "claim", "setup", "handshake", "create", "exited"}
ConnPc == {"none", "start", "open", "send_lock", "send", "read", "recv", "dispatch",
           "bc_lock", "bc_check", "bc_send", "bc_unlock", "onclose", "last",
           "close_begin", "close_sock", "close_clear", "rebooting", "done"}

TypeOK ==
    /\ sock \in [Slots -> Conns \union {None}]
    /\ state \in [Slots -> {"INIT", "CONNECTING", "OPEN", "CLOSING", "CLOSED"}]
    /\ seq \in [Slots -> Nat]
    /\ login \in [Slots -> BOOLEAN]
    /\ mtx \in [Slots -> {"fresh", "live", "dead"}]
    /\ snd \in [Slots -> Conns \union {None}]
    /\ mutex \in Conns \union {None}
    /\ conn_seq \in Nat
    /\ pc \in [Threads -> HttpPc \union ConnPc]
    /\ slot \in [Threads -> Slots \union {None}]
    /\ rd \in [Conns -> Conns \union {None}]
    /\ buf \in [Conns -> Messages \union Frames \union {"nothing"}]
    /\ cur \in Conns \union {None}
    /\ failed \in BOOLEAN
    /\ bi \in 1..(MaxClients + 1)
    /\ fd \in [Conns -> {"none", "open", "closed"}]
    /\ peer \in [Conns -> {"none", "up", "gone", "lost"}]
    /\ wire \in [Conns -> Messages \union {"nothing", "page", "ws"}]
    /\ msgs \in Nat
    /\ got \in [Conns -> SUBSET Frames]
    /\ auth \in SUBSET Conns
    /\ due \in SUBSET Slots
    /\ broke \in Slots \union {None}

\* web_socket_main fills the table with -1 bytes: no descriptor, is_login true.
Init ==
    /\ sock = [s \in Slots |-> None]
    /\ state = [s \in Slots |-> "INIT"]
    /\ seq = [s \in Slots |-> 0]
    /\ login = [s \in Slots |-> TRUE]
    /\ mtx = [s \in Slots |-> "fresh"]
    /\ snd = [s \in Slots |-> None]
    /\ mutex = None
    /\ conn_seq = 0
    /\ pc = [t \in Threads |-> IF t = Http THEN "accept" ELSE "none"]
    /\ slot = [t \in Threads |-> None]
    /\ rd = [c \in Conns |-> None]
    /\ buf = [c \in Conns |-> "nothing"]
    /\ cur = None
    /\ failed = FALSE
    /\ bi = 1
    /\ fd = [c \in Conns |-> "none"]
    /\ peer = [c \in Conns |-> "none"]
    /\ wire = [c \in Conns |-> "nothing"]
    /\ msgs = 0
    /\ got = [c \in Conns |-> {}]
    /\ auth = {}
    /\ due = {}
    /\ broke = None

Goto(t, from, to) == pc[t] = from /\ pc' = [pc EXCEPT ![t] = to]

-----------------------------------------------------------------------------
(* Clients.  A client asks for a page or a WebSocket once it is accepted,   *)
(* sends frames after the handshake, and may leave (FIN) or vanish without  *)
(* a trace at any time.                                                     *)

PeerRequest(c, r) ==
    /\ pc[Http] = "recv" /\ cur = c /\ peer[c] = "up" /\ wire[c] = "nothing"
    /\ wire' = [wire EXCEPT ![c] = r]
    /\ UNCHANGED <<slotVars, snd, thrVars, httpVars, fd, peer, msgs, got, castVars, auth, pc>>

PeerMsg(c, m) ==
    /\ "handshake" \in got[c] /\ peer[c] = "up" /\ wire[c] = "nothing" /\ msgs < MaxMsgs
    /\ wire' = [wire EXCEPT ![c] = m]
    /\ msgs' = msgs + 1
    /\ UNCHANGED <<slotVars, snd, thrVars, httpVars, fd, peer, got, castVars, auth, pc>>

PeerEnd(c, how) ==
    /\ peer[c] = "up"
    /\ peer' = [peer EXCEPT ![c] = how]
    /\ UNCHANGED <<slotVars, snd, thrVars, httpVars, fd, wire, msgs, got, castVars, auth, pc>>

\* send() on a descriptor: to a client that is gone or lost it may fail at
\* once or after SO_SNDTIMEO, or fill a buffer nobody reads.  To one that is
\* there but does not read it fails after SO_SNDTIMEO, perhaps with a part of
\* the frame written.
CanSend(f)  == f # None /\ fd[f] = "open"
CanFail(f)  == IF CanSend(f) THEN peer[f] # "up" \/ "stall" \in Faults ELSE TRUE
Written(f, m) == got' = [got EXCEPT ![f] = @ \union {m}]

-----------------------------------------------------------------------------
(* close_client(slot[t], lock): the eviction and a thread's last step take  *)
(* the global mutex to clear the slot, a failed ws_accept does not.         *)

AfterClose(t) == IF t # Http THEN "done" ELSE IF failed THEN "accept" ELSE "claim"
Unlocked(t)   == t = Http /\ failed
DropCur(t)    == /\ cur' = IF Unlocked(t) THEN None ELSE cur
                 /\ UNCHANGED <<failed, conn_seq>>

\* Slip: the slot is given back before its socket is closed.
CloseBegin_ClearFirst(t) ==
    LET s == slot[t] IN
    /\ Goto(t, "close_begin", IF sock[s] = None THEN AfterClose(t) ELSE "close_sock")
    /\ sock' = [sock EXCEPT ![s] = None]
    /\ UNCHANGED <<state, seq, login, mtx, snd, thrVars, httpVars, netVars, got, castVars, auth>>

CloseBegin(t) ==
    LET s == slot[t] IN
    /\ pc[t] = "close_begin"
    /\ IF sock[s] = None
       THEN Goto(t, "close_begin", AfterClose(t)) /\ DropCur(t) /\ UNCHANGED state
       ELSE /\ Goto(t, "close_begin", "close_sock")
            /\ state' = [state EXCEPT ![s] = "CLOSED"]
            /\ UNCHANGED httpVars
    /\ UNCHANGED <<sock, seq, login, mtx, snd, thrVars, netVars, got, castVars, auth>>

CloseSock(t) ==
    LET f == sock[slot[t]] IN
    /\ Goto(t, "close_sock", "close_clear")
    /\ fd' = IF f = None THEN fd ELSE [fd EXCEPT ![f] = "closed"]
    /\ UNCHANGED <<slotVars, snd, thrVars, httpVars, peer, wire, msgs, got, castVars, auth>>

\* Slip: the slot is cleared without the global mutex.
CloseClear_NoLock(t) ==
    LET s == slot[t] IN
    /\ Goto(t, "close_clear", AfterClose(t))
    /\ sock' = [sock EXCEPT ![s] = None]
    /\ mtx' = [mtx EXCEPT ![s] = "dead"]
    /\ DropCur(t)
    /\ UNCHANGED <<state, seq, login, snd, thrVars, netVars, got, castVars, auth>>

CloseClear(t) ==
    LET s == slot[t] IN
    /\ Unlocked(t) \/ mutex = None
    /\ Goto(t, "close_clear", AfterClose(t))
    /\ sock' = [sock EXCEPT ![s] = None]
    /\ mtx' = [mtx EXCEPT ![s] = "dead"]
    /\ DropCur(t)
    /\ UNCHANGED <<state, seq, login, snd, thrVars, netVars, got, castVars, auth>>

-----------------------------------------------------------------------------
(* The http thread: http_thread, http_handler and ws_accept.                *)

Accept(c) ==
    /\ Goto(Http, "accept", "recv")
    /\ fd[c] = "none"
    /\ fd' = [fd EXCEPT ![c] = "open"]
    /\ peer' = [peer EXCEPT ![c] = "up"]
    /\ cur' = c
    /\ UNCHANGED <<slotVars, snd, thrVars, failed, conn_seq, wire, msgs, got, castVars, auth>>

\* An error of accept() ends the loop: nobody is accepted any more.
AcceptFails ==
    /\ "accept" \in Faults
    /\ Goto(Http, "accept", "exited")
    /\ UNCHANGED <<slotVars, snd, thrVars, httpVars, netVars, got, castVars, auth>>

\* A page, a bad request or a client that left: answered and closed.
ServePage ==
    /\ Goto(Http, "recv", "accept")
    /\ wire[cur] = "page" \/ (wire[cur] = "nothing" /\ peer[cur] = "gone")
    /\ wire' = [wire EXCEPT ![cur] = "nothing"]
    /\ fd' = [fd EXCEPT ![cur] = "closed"]
    /\ cur' = None
    /\ UNCHANGED <<slotVars, snd, thrVars, failed, conn_seq, peer, msgs, got, castVars, auth>>

Upgrade ==
    /\ Goto(Http, "recv", "search")
    /\ wire[cur] = "ws"
    /\ wire' = [wire EXCEPT ![cur] = "nothing"]
    /\ UNCHANGED <<slotVars, snd, thrVars, httpVars, fd, peer, msgs, got, castVars, auth>>

\* Slip: a slot is taken for free as soon as its state is CLOSED.
Free_ByState == {s \in Slots : sock[s] = None \/ state[s] = "CLOSED"}

Free == {s \in Slots : sock[s] = None}
\* Slip: the comparison of the search is turned round.
Oldest_Newest == {s \in Slots : \A r \in Slots : seq[s] >= seq[r]}

Oldest == {s \in Slots : /\ seq[s] < LongMax
                         /\ \A r \in Slots : seq[s] < seq[r] \/ (seq[s] = seq[r] /\ s <= r)}

\* Slip: the index of the slot after the free one.
FindFree_OffByOne ==
    /\ mutex = None
    /\ Goto(Http, "search", "claim")
    /\ \E s \in Free : slot' = [slot EXCEPT ![Http] = s + 1]
    /\ UNCHANGED <<slotVars, snd, rd, buf, httpVars, netVars, got, castVars, auth>>

FindFree ==
    /\ mutex = None
    /\ Goto(Http, "search", "claim")
    /\ \E s \in Free : /\ \A r \in Free : s <= r
                       /\ slot' = [slot EXCEPT ![Http] = s]
    /\ UNCHANGED <<slotVars, snd, rd, buf, httpVars, netVars, got, castVars, auth>>

Evict ==
    /\ mutex = None /\ Free = {}
    /\ Goto(Http, "search", "close_begin")
    /\ \E s \in Oldest : slot' = [slot EXCEPT ![Http] = s]
    /\ failed' = FALSE
    /\ UNCHANGED <<slotVars, snd, rd, buf, cur, conn_seq, netVars, got, castVars, auth>>

\* No slot is free and none is older than LONG_MAX: 429 and close.
TooMany ==
    /\ mutex = None /\ Free = {} /\ Oldest = {}
    /\ Goto(Http, "search", "accept")
    /\ fd' = [fd EXCEPT ![cur] = "closed"]
    /\ cur' = None
    /\ UNCHANGED <<slotVars, snd, thrVars, failed, conn_seq, peer, wire, msgs, got, castVars, auth>>

\* client_sock is published first, outside the mutex ...
Claim ==
    /\ Goto(Http, "claim", "setup")
    /\ sock' = [sock EXCEPT ![slot[Http]] = cur]
    /\ UNCHANGED <<state, seq, login, mtx, snd, thrVars, httpVars, netVars, got, castVars, auth>>

\* Slip: ws_accept sets the state OPEN itself, before the handshake.
Setup_Open ==
    LET s == slot[Http] IN
    /\ Goto(Http, "setup", "handshake")
    /\ state' = [state EXCEPT ![s] = "OPEN"]
    /\ conn_seq' = conn_seq + 1
    /\ seq' = [seq EXCEPT ![s] = conn_seq']
    /\ mtx' = [mtx EXCEPT ![s] = "live"]
    /\ snd' = [snd EXCEPT ![s] = None]
    /\ UNCHANGED <<sock, login, thrVars, cur, failed, netVars, got, castVars, auth>>

\* ... then the rest of the structure, and its mutexes are initialised.
Setup ==
    LET s == slot[Http] IN
    /\ Goto(Http, "setup", "handshake")
    /\ state' = [state EXCEPT ![s] = "CONNECTING"]
    /\ conn_seq' = conn_seq + 1
    /\ seq' = [seq EXCEPT ![s] = conn_seq']
    /\ mtx' = [mtx EXCEPT ![s] = "live"]
    /\ snd' = [snd EXCEPT ![s] = None]
    /\ UNCHANGED <<sock, login, thrVars, cur, failed, netVars, got, castVars, auth>>

\* A pthread_*_init without memory: panic() returns ESP_FAIL at once.
SetupFails ==
    LET s == slot[Http] IN
    /\ "enomem" \in Faults
    /\ Goto(Http, "setup", "accept")
    /\ state' = [state EXCEPT ![s] = "CONNECTING"]
    /\ conn_seq' = conn_seq + 1
    /\ seq' = [seq EXCEPT ![s] = conn_seq']
    /\ cur' = None
    /\ UNCHANGED <<sock, login, mtx, snd, thrVars, failed, netVars, got, castVars, auth>>

Handshake ==
    LET s == slot[Http] IN
    /\ Goto(Http, "handshake", "create")
    /\ CanSend(sock[s]) /\ snd[s] = None
    /\ Written(sock[s], "handshake")
    /\ UNCHANGED <<slotVars, snd, thrVars, httpVars, netVars, castVars, auth>>

\* No valid answer to the request's key, or the answer cannot be sent.
HandshakeFails ==
    /\ Goto(Http, "handshake", "close_begin")
    /\ "handshake" \in Faults \/ CanFail(sock[slot[Http]])
    /\ failed' = TRUE
    /\ UNCHANGED <<slotVars, snd, thrVars, cur, conn_seq, netVars, got, castVars, auth>>

Create ==
    /\ pc[Http] = "create"
    /\ pc' = [pc EXCEPT ![Http] = "accept", ![cur] = "start"]
    /\ slot' = [slot EXCEPT ![cur] = slot[Http]]
    /\ cur' = None
    /\ UNCHANGED <<slotVars, snd, rd, buf, failed, conn_seq, netVars, got, castVars, auth>>

CreateFails ==
    /\ "thread" \in Faults
    /\ Goto(Http, "create", "close_begin")
    /\ failed' = TRUE
    /\ UNCHANGED <<slotVars, snd, thrVars, cur, conn_seq, netVars, got, castVars, auth>>

-----------------------------------------------------------------------------
(* A connection thread: ws_establishconnection, next_frame, ws_onmessage.   *)

\* Slip: is_login is left as the previous user of the slot had it.
Start_KeepLogin(c) ==
    /\ Goto(c, "start", "open")
    /\ UNCHANGED <<slotVars, snd, thrVars, httpVars, netVars, got, castVars, auth>>

Start(c) ==
    /\ Goto(c, "start", "open")
    /\ login' = [login EXCEPT ![slot[c]] = FALSE]
    /\ UNCHANGED <<sock, state, seq, mtx, snd, thrVars, httpVars, netVars, got, castVars, auth>>

\* set_client_state does nothing on a slot whose client_sock is -1; then
\* ws_onopen runs on_ws_client, which sends the configuration.
Open(c) ==
    LET s == slot[c] IN
    /\ Goto(c, "open", "send_lock")
    /\ state' = IF sock[s] = None THEN state ELSE [state EXCEPT ![s] = "OPEN"]
    /\ buf' = [buf EXCEPT ![c] = "config"]
    /\ UNCHANGED <<sock, seq, login, mtx, snd, slot, rd, httpVars, netVars, got, castVars, auth>>

\* Handlers ignore a failed send; a failed pong ends the read loop, and so
\* does a CLOSE frame whether or not its answer was sent.
AfterSend(c, ok) ==
    IF buf[c] = "close" \/ (buf[c] = "pong" /\ ~ok) THEN "onclose" ELSE "read"

\* on_ws_restart then sleeps 500 ms and restarts the chip, which ends the
\* behaviour: the other threads may go on until it does.
AfterCast(c) == IF buf[c] = "close" THEN "rebooting" ELSE "read"

\* send_all: CLIENT_VALID, then mtx_snd is held around send().
SendLock(c) ==
    LET s == slot[c] IN
    /\ pc[c] = "send_lock"
    /\ IF sock[s] = None
       THEN Goto(c, "send_lock", AfterSend(c, FALSE)) /\ UNCHANGED snd
       ELSE /\ snd[s] = None
            /\ Goto(c, "send_lock", "send")
            /\ snd' = [snd EXCEPT ![s] = c]
    /\ UNCHANGED <<slotVars, thrVars, httpVars, netVars, got, castVars, auth>>

Release(c, s) == snd' = IF snd[s] = c THEN [snd EXCEPT ![s] = None] ELSE snd

Send(c) ==
    LET f == sock[slot[c]] IN
    /\ pc[c] = "send"
    /\ Release(c, slot[c])
    /\ \/ CanSend(f) /\ Written(f, buf[c]) /\ Goto(c, "send", AfterSend(c, TRUE))
       \/ CanFail(f) /\ UNCHANGED got /\ Goto(c, "send", AfterSend(c, FALSE))
    /\ UNCHANGED <<slotVars, thrVars, httpVars, netVars, castVars, auth>>

\* ws_sendframe has no memory for the frame: -1 before it sends anything, or
\* takes the global mutex.
NoMemory(c) ==
    /\ "nomem" \in Faults
    /\ \/ Goto(c, "send_lock", AfterSend(c, FALSE))
       \/ Goto(c, "bc_lock", AfterCast(c))
    /\ UNCHANGED <<slotVars, snd, thrVars, httpVars, netVars, got, castVars, auth>>

\* recv() is called on the client_sock of this moment.
Read(c) ==
    /\ Goto(c, "read", "recv")
    /\ rd' = [rd EXCEPT ![c] = sock[slot[c]]]
    /\ UNCHANGED <<slotVars, snd, slot, buf, httpVars, netVars, got, castVars, auth>>

\* A frame is rejected when it is malformed, or when the slot is CLOSING and
\* the frame is not a CLOSE frame.
RecvFrame(c) ==
    LET f == rd[c]
        s == slot[c]
        refused == \/ wire[f] = "bad"
                   \/ sock[s] # None /\ state[s] = "CLOSING" /\ wire[f] # "close" IN
    /\ pc[c] = "recv" /\ f # None /\ fd[f] = "open" /\ wire[f] # "nothing"
    /\ Goto(c, "recv", IF refused THEN "onclose" ELSE "dispatch")
    /\ buf' = [buf EXCEPT ![c] = wire[f]]
    /\ wire' = [wire EXCEPT ![f] = "nothing"]
    /\ UNCHANGED <<slotVars, snd, slot, rd, httpVars, fd, peer, msgs, got, castVars, auth>>

\* Slip: the thread returns at once when recv() fails.
RecvError_Return(c) ==
    LET f == rd[c] IN
    /\ pc[c] = "recv"
    /\ IF f = None THEN TRUE ELSE fd[f] = "closed" \/ (peer[f] = "gone" /\ wire[f] = "nothing")
    /\ Goto(c, "recv", "done")
    /\ UNCHANGED <<slotVars, snd, thrVars, httpVars, netVars, got, castVars, auth>>

\* Slip: a recv() that returns 0 is taken for an empty frame.
RecvError_ZeroIsData(c) ==
    LET f == rd[c] IN
    /\ pc[c] = "recv"
    /\ \/ /\ IF f = None THEN TRUE ELSE fd[f] = "closed"
          /\ Goto(c, "recv", "onclose")
       \/ /\ IF f = None THEN FALSE ELSE peer[f] = "gone" /\ wire[f] = "nothing"
          /\ Goto(c, "recv", "read")
    /\ UNCHANGED <<slotVars, snd, thrVars, httpVars, netVars, got, castVars, auth>>

RecvError(c) ==
    LET f == rd[c] IN
    /\ pc[c] = "recv"
    /\ IF f = None THEN TRUE ELSE fd[f] = "closed" \/ (peer[f] = "gone" /\ wire[f] = "nothing")
    /\ Goto(c, "recv", "onclose")
    /\ UNCHANGED <<slotVars, snd, thrVars, httpVars, netVars, got, castVars, auth>>

Reply(c, m) == buf' = [buf EXCEPT ![c] = m] /\ Goto(c, "dispatch", "send_lock")

\* on_ws_login: with the right password, or with any once the slot is logged
\* in; or with a wrong one, or one of a length no password has.
DoLogin(c) ==
    /\ buf[c] = "login" /\ Reply(c, "reply")
    /\ \/ login' = [login EXCEPT ![slot[c]] = TRUE] /\ auth' = auth \union {rd[c]}
       \/ ~login[slot[c]] /\ UNCHANGED <<login, auth>>
    /\ UNCHANGED <<sock, state, seq, mtx, snd, slot, rd, httpVars, netVars, got, castVars>>

\* A handler registered with authenticated = true on a slot not logged in.
Refuse(c) ==
    /\ buf[c] \in {"logout", "secure", "restart"} /\ ~login[slot[c]] /\ Reply(c, "error")
    /\ UNCHANGED <<slotVars, snd, slot, rd, httpVars, netVars, got, castVars, auth>>

\* on_ws_logout answers nothing.
DoLogout(c) ==
    /\ buf[c] = "logout" /\ login[slot[c]] /\ Goto(c, "dispatch", "read")
    /\ login' = [login EXCEPT ![slot[c]] = FALSE]
    /\ auth' = auth \ {rd[c]}
    /\ UNCHANGED <<sock, state, seq, mtx, snd, thrVars, httpVars, netVars, got, castVars>>

\* A handler that needs the login and answers (on_ws_update_password, ...).
DoSecure(c) ==
    /\ buf[c] = "secure" /\ login[slot[c]] /\ Reply(c, "reply")
    /\ UNCHANGED <<slotVars, snd, slot, rd, httpVars, netVars, got, castVars, auth>>

DoPing(c) ==
    /\ buf[c] = "ping" /\ Reply(c, "pong")
    /\ UNCHANGED <<slotVars, snd, slot, rd, httpVars, netVars, got, castVars, auth>>

\* actuator_update ends in a broadcast of the new value; on_ws_restart
\* broadcasts a CLOSE frame (web_socket_close_all_clients).
DoBroadcast(c) ==
    /\ \/ buf[c] = "set" /\ buf' = [buf EXCEPT ![c] = "bcast"]
       \/ buf[c] = "restart" /\ login[slot[c]] /\ buf' = [buf EXCEPT ![c] = "close"]
    /\ Goto(c, "dispatch", "bc_lock")
    /\ UNCHANGED <<slotVars, snd, slot, rd, httpVars, netVars, got, castVars, auth>>

DoClose(c) ==
    LET s == slot[c] IN
    /\ buf[c] = "close"
    /\ IF sock[s] # None /\ state[s] = "CLOSING"
       THEN Goto(c, "dispatch", "onclose") /\ UNCHANGED state
       ELSE /\ Goto(c, "dispatch", "send_lock")
            /\ state' = IF sock[s] = None THEN state ELSE [state EXCEPT ![s] = "CLOSING"]
    /\ UNCHANGED <<sock, seq, login, mtx, snd, thrVars, httpVars, netVars, got, castVars, auth>>

-----------------------------------------------------------------------------
(* ws_sendframe(NULL, ...): the loop over the slots under the mutex.        *)

Opened(s) == sock[s] # None /\ state[s] = "OPEN"

\* Slip: the loop starts at the second slot.
CastLock_OffByOne(c) ==
    /\ mutex = None
    /\ Goto(c, "bc_lock", "bc_check")
    /\ mutex' = c
    /\ bi' = 2
    /\ due' = {s \in Slots : Opened(s)}
    /\ UNCHANGED <<slotVars, snd, thrVars, httpVars, netVars, got, broke, auth>>

CastLock(c) ==
    /\ mutex = None
    /\ Goto(c, "bc_lock", "bc_check")
    /\ mutex' = c
    /\ bi' = 1
    /\ due' = {s \in Slots : Opened(s)}
    /\ UNCHANGED <<slotVars, snd, thrVars, httpVars, netVars, got, broke, auth>>

CastCheck(c) ==
    /\ pc[c] = "bc_check"
    /\ \/ bi > MaxClients /\ Goto(c, "bc_check", "bc_unlock") /\ UNCHANGED <<bi, snd>>
       \/ /\ bi <= MaxClients /\ ~Opened(bi)
          /\ bi' = bi + 1
          /\ UNCHANGED <<pc, snd>>
       \/ /\ bi <= MaxClients /\ Opened(bi) /\ snd[bi] = None
          /\ Goto(c, "bc_check", "bc_send")
          /\ snd' = [snd EXCEPT ![bi] = c]
          /\ UNCHANGED bi
    /\ UNCHANGED <<slotVars, thrVars, httpVars, netVars, got, mutex, due, broke, auth>>

\* Slip: a failed send returns from the middle of the loop.
CastSend_ReturnLocked(c) ==
    LET f == sock[bi] IN
    /\ pc[c] = "bc_send"
    /\ Release(c, bi)
    /\ \/ /\ CanSend(f) /\ Written(f, buf[c]) /\ Goto(c, "bc_send", "bc_check")
          /\ bi' = bi + 1
          /\ due' = due \ {bi}
          /\ UNCHANGED broke
       \/ CanFail(f) /\ broke' = bi /\ UNCHANGED <<got, bi, due>> /\ Goto(c, "bc_send", "read")
    /\ UNCHANGED <<slotVars, thrVars, httpVars, netVars, mutex, auth>>

CastSend(c) ==
    LET f == sock[bi] IN
    /\ pc[c] = "bc_send"
    /\ Release(c, bi)
    /\ \/ /\ CanSend(f) /\ Written(f, buf[c]) /\ Goto(c, "bc_send", "bc_check")
          /\ bi' = bi + 1
          /\ due' = due \ {bi}
          /\ UNCHANGED broke
       \/ CanFail(f) /\ broke' = bi /\ UNCHANGED <<got, bi, due>> /\ Goto(c, "bc_send", "bc_unlock")
    /\ UNCHANGED <<slotVars, thrVars, httpVars, netVars, mutex, auth>>

CastUnlock(c) ==
    /\ Goto(c, "bc_unlock", AfterCast(c))
    /\ mutex' = None
    /\ bi' = 1
    /\ due' = {}
    /\ broke' = None
    /\ UNCHANGED <<slotVars, snd, thrVars, httpVars, netVars, got, auth>>

-----------------------------------------------------------------------------
\* ws_onclose, then the state is read again: the slot of a thread that is
\* being evicted is closed by the http thread.
OnClose(c) ==
    /\ Goto(c, "onclose", "last")
    /\ UNCHANGED <<slotVars, snd, thrVars, httpVars, netVars, got, castVars, auth>>

Last(c) ==
    LET s == slot[c] IN
    /\ Goto(c, "last", IF sock[s] # None /\ state[s] = "CLOSED" THEN "done" ELSE "close_begin")
    /\ UNCHANGED <<slotVars, snd, thrVars, httpVars, netVars, got, castVars, auth>>

-----------------------------------------------------------------------------
Dispatch(c) == \/ DoLogin(c) \/ Refuse(c) \/ DoLogout(c) \/ DoSecure(c)
               \/ DoPing(c) \/ DoBroadcast(c) \/ DoClose(c)

ConnStep(c) ==
    \/ Start(c) \/ Open(c) \/ SendLock(c) \/ Send(c)
    \/ Read(c) \/ RecvFrame(c) \/ RecvError(c) \/ Dispatch(c)
    \/ NoMemory(c) \/ CastLock(c) \/ CastCheck(c) \/ CastSend(c) \/ CastUnlock(c)
    \/ OnClose(c) \/ Last(c)
    \/ CloseBegin(c) \/ CloseSock(c) \/ CloseClear(c)

WsAccept ==
    \/ FindFree \/ Evict \/ TooMany \/ Claim \/ Setup \/ SetupFails
    \/ Handshake \/ HandshakeFails \/ Create \/ CreateFails
    \/ CloseBegin(Http) \/ CloseSock(Http) \/ CloseClear(Http)

HttpStep == (\E c \in Conns : Accept(c)) \/ AcceptFails \/ ServePage \/ Upgrade \/ WsAccept

Leaving == \E c \in Conns, how \in Ends : PeerEnd(c, how)
Sending == \E c \in Conns, m \in Msgs : PeerMsg(c, m)
Asking  == \E c \in Conns, r \in {"page", "ws"} : PeerRequest(c, r)

Next == HttpStep \/ (\E c \in Conns : ConnStep(c)) \/ Leaving \/ Sending \/ Asking

Spec == Init /\ [][Next]_vars

\* The tasks are scheduled round robin at one priority and every send ends
\* (SO_SNDTIMEO), so a thread that can go on eventually does.  Nothing is
\* assumed of the clients or of a recv() on a silent one.
Fairness == WF_vars(HttpStep) /\ \A c \in Conns : WF_vars(ConnStep(c))

\* A calm device: a client asks for a WebSocket only while a slot is free.
CalmAsking == Asking /\ (\E s \in Slots : sock[s] = None)
CalmNext == HttpStep \/ (\E c \in Conns : ConnStep(c)) \/ Leaving \/ Sending \/ CalmAsking
CalmSpec == Init /\ [][CalmNext]_vars

FairSpec == Spec /\ Fairness

-----------------------------------------------------------------------------
(* What the pool must guarantee while no client is evicted.                 *)

Serving(c) == pc[c] \notin {"none", "done"}
Closing(c) == pc[c] \in {"close_clear", "done"}
HttpHolds(s) == pc[Http] \in {"setup", "handshake", "create", "close_begin", "close_sock", "close_clear"}
                /\ slot[Http] = s

\* Each slot is worked on by at most one thread: two connection threads never
\* share a client structure, nor does one share it with the http thread
\* between its claim and the creation of its thread (ws_accept, close_client).
OneThreadPerSlot ==
    /\ \A c, d \in Conns : Serving(c) /\ Serving(d) /\ slot[c] = slot[d] => c = d
    /\ \A c \in Conns : Serving(c) => ~HttpHolds(slot[c])

\* A thread that reads, answers or closes works on the socket of its own
\* connection: no answer, frame or close reaches another client
\* (client_sock is read again at each call of send, recv and close).
OwnSocket ==
    \A c \in Conns : Serving(c) =>
        /\ sock[slot[c]] = c
        /\ pc[c] # "close_clear" => fd[c] = "open"
        /\ pc[c] \in {"recv", "dispatch"} => rd[c] = c

\* No descriptor is lost: one that is open belongs to the request being
\* handled or to a thread that will close it (http_handler, ws_accept,
\* ws_establishconnection), and none is closed twice.
NoLeak ==
    /\ \A c \in Conns : fd[c] = "open" => cur = c \/ Serving(c)
    /\ \A t \in Threads : pc[t] = "close_sock" /\ sock[slot[t]] # None => fd[sock[slot[t]]] = "open"

\* A connection is logged in only by its own password: is_login left by the
\* previous user of the slot never serves the next one
\* (ws_establishconnection clears it, the search reuses slots).
LoginOwned ==
    \A c \in Conns : Serving(c) /\ pc[c] # "start" => (login[slot[c]] <=> c \in auth)

\* Nothing is written to a client before the answer to its handshake, by
\* whatever thread (ws_accept shakes hands before it starts the thread, and
\* a broadcast only goes to slots in state OPEN).
HandshakeFirst == \A c \in Conns : got[c] # {} => "handshake" \in got[c]

\* While the mutex is held, the client the broadcast checked is still the one
\* it sends to (ws_sendframe, close_client with lock).
CastTarget ==
    \A c \in Conns : pc[c] = "bc_send" =>
        sock[bi] # None /\ "handshake" \in got[sock[bi]] /\ mtx[bi] = "live"

\* A broadcast that has taken the mutex passes over an open client only when
\* the send to it, or to a client of a lower index, failed (the break of
\* ws_sendframe).
MissedOnlyAfterFailure ==
    \A c \in Conns, s \in due :
        pc[c] = "bc_unlock" /\ Opened(s) => broke # None /\ broke <= s

\* The slot of a client that left is given back, whatever its thread and the
\* others were doing (next_frame, close_client).
InTable(c)   == \E s \in Slots : sock[s] = c
SlotReturned == \A c \in Conns : (InTable(c) /\ peer[c] = "gone") ~> ~InTable(c)

\* The slots are a table of connections, each entered once and over for good
\* when its descriptor is closed and its slot cleared.
Over == {c \in Conns : fd[c] = "closed" /\ \A s \in Slots : sock[s] # c}
Table == INSTANCE ConnTable WITH table <- sock, past <- Over
ImplementsTable == Table!TableSpec

-----------------------------------------------------------------------------
(* What holds when clients are evicted too.                                 *)

\* The client that is evicted is older than every other one still connected:
\* no two of the table were accepted under the same number, and no slot
\* keeps the number of an earlier user (the search and the set-up of ws_accept).
EvictsOldest ==
    pc[Http] = "close_begin" /\ ~failed =>
        \A s \in Slots \ {slot[Http]} : sock[s] # None => seq[slot[Http]] < seq[s]

\* ws_accept returns: a new client is never kept waiting by the broadcasts
\* and the closing threads it competes with for the mutex.
AcceptReturns == (pc[Http] = "search") ~> (pc[Http] = "accept")

-----------------------------------------------------------------------------
(* What comments of the source say and the code does not do.                *)

\* "Called when a client disconnects to the server": the client structure
\* given to ws_onclose is that of the client that disconnected.
OnCloseMeansDisconnected ==
    \A c \in Conns : pc[c] = "onclose" => sock[slot[c]] \in {c, None}

=============================================================================
