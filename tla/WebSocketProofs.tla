-------------------------- MODULE WebSocketProofs --------------------------
(***************************************************************************)
(* Proofs about the connection pool, for any number of connections, slots  *)
(* and frames and any of the faults: while no client is evicted, each slot *)
(* belongs to one thread, which only touches its own connection.           *)
(***************************************************************************)
EXTENDS WebSocket, TLAPS

\* The http thread works for one accepted connection that has no thread yet,
\* and between the claim and the end of ws_accept owns its slot.
HttpOwns ==
    /\ pc[Http] \in HttpPc
    /\ pc[Http] \notin {"accept", "exited"} =>
           /\ cur \in Conns /\ pc[cur] = "none"
           /\ fd[cur] = IF pc[Http] = "close_clear" THEN "closed" ELSE "open"
    /\ pc[Http] \in {"accept", "exited"} => cur = None
    /\ pc[Http] \in {"recv", "search", "claim"} => \A s \in Slots : sock[s] # cur
    /\ pc[Http] = "claim" => slot[Http] \in Slots /\ sock[slot[Http]] = None
    /\ pc[Http] \in {"setup", "handshake", "create", "close_begin", "close_sock", "close_clear"} =>
           slot[Http] \in Slots /\ sock[slot[Http]] = cur
    /\ pc[Http] \in {"handshake", "create"} => mtx[slot[Http]] = "live" /\ state[slot[Http]] = "CONNECTING"
    /\ pc[Http] = "create" => "handshake" \in got[cur]
    /\ pc[Http] \in {"close_begin", "close_sock", "close_clear"} => failed

\* A client asks only while there is room, and only the http thread takes it.
Room ==
    /\ \A c \in Conns : wire[c] \in {"page", "ws"} => pc[Http] = "recv" /\ cur = c
    /\ pc[Http] = "search" \/ (pc[Http] = "recv" /\ wire[cur] = "ws") => \E s \in Slots : sock[s] = None

\* A connection thread owns its slot until it is done.
ConnOwns ==
    \A c \in Conns :
        /\ pc[c] \in ConnPc
        /\ Serving(c) => /\ slot[c] \in Slots /\ sock[slot[c]] = c /\ mtx[slot[c]] = "live"
                         /\ fd[c] = IF pc[c] = "close_clear" THEN "closed" ELSE "open"
                         /\ "handshake" \in got[c]
        /\ pc[c] \in {"recv", "dispatch"} => rd[c] = c
        /\ pc[c] \in {"send_lock", "send", "bc_lock", "bc_check", "bc_send", "bc_unlock"} => buf[c] \in Frames
        /\ pc[c] = "done" => fd[c] = "closed"
        /\ Serving(c) => (pc[c] \in {"close_sock", "close_clear"} <=> state[slot[c]] = "CLOSED")
        /\ c \in auth => pc[c] \notin {"none", "start"}
        /\ Serving(c) /\ pc[c] # "start" => (login[slot[c]] <=> c \in auth)

\* Only a slot with a running thread is OPEN, and a descriptor in the table
\* has been accepted and is there once.
SlotOwned ==
    /\ \A s \in Slots : state[s] = "OPEN" =>
           sock[s] \in Conns /\ Serving(sock[s]) /\ slot[sock[s]] = s
    /\ \A s \in Slots : sock[s] # None => fd[sock[s]] # "none"
    /\ \A r, s \in Slots : sock[r] = sock[s] /\ sock[s] # None => r = s

\* The mutex is held by the thread inside the broadcast loop.
CastOwned ==
    \A c \in Conns :
        /\ pc[c] \in {"bc_check", "bc_send", "bc_unlock"} <=> mutex = c
        /\ pc[c] = "bc_send" =>
               bi \in Slots /\ sock[bi] \in Conns /\ Serving(sock[bi]) /\ slot[sock[bi]] = bi

\* Every open descriptor has someone to close it, unless memory ran out
\* while a slot was set up.
NoneLost ==
    "enomem" \notin Faults => \A c \in Conns : fd[c] = "open" => cur = c \/ Serving(c)

IInv == TypeOK /\ HttpOwns /\ Room /\ ConnOwns /\ SlotOwned /\ CastOwned /\ HandshakeFirst
        /\ NoneLost

\* What the invariant says of a connection thread that is running, and of
\* the client a broadcast is sending to.
LEMMA Running ==
    ASSUME IInv, NEW c \in Conns, Serving(c)
    PROVE  /\ c \in Threads /\ c # Http /\ c # None /\ c # cur
           /\ slot[c] \in Slots /\ sock[slot[c]] = c
           /\ pc[c] = "close_sock" => fd[c] = "open"
           /\ pc[c] \in {"send_lock", "send", "bc_send"} => buf[c] \in Frames
           /\ pc[c] = "bc_send" => bi \in Slots /\ sock[bi] \in Conns /\ Serving(sock[bi])
           /\ \A d \in Conns : Serving(d) /\ slot[d] = slot[c] => d = c
  BY Assumptions DEF IInv, TypeOK, HttpOwns, ConnOwns, CastOwned, Threads, Serving, HttpPc

\* The effect of the steps that branch, on a slot that is the thread's own.
Moves(c, targets) == \E to \in targets : pc' = [pc EXCEPT ![c] = to]
SndTyped  == snd' \in [Slots -> Conns \union {None}]
GotTyped  == got' \in [Conns -> SUBSET Frames]
GotGrows(d) == \A e \in Conns : got[e] \subseteq got'[e] /\ (e # d => got'[e] = got[e])

\* A write to a typed connection extends what that connection got.
LEMMA WrittenGrows ==
    ASSUME TypeOK, NEW d \in Conns, NEW m \in Frames, Written(d, m)
    PROVE  GotTyped /\ GotGrows(d)
  BY DEF TypeOK, Written, GotTyped, GotGrows

LEMMA ReleaseTyped ==
    ASSUME TypeOK, NEW c, NEW s \in Slots, Release(c, s)
    PROVE  SndTyped
  BY DEF TypeOK, Release, SndTyped

SendLockEffect(c) ==
    /\ pc[c] = "send_lock" /\ SndTyped
    /\ pc' = [pc EXCEPT ![c] = "send"]
    /\ UNCHANGED <<slotVars, thrVars, httpVars, netVars, got, castVars, auth>>

LEMMA SendLockHas ==
    ASSUME IInv, NEW c \in Conns, SendLock(c)
    PROVE  SendLockEffect(c)
<1>1. pc[c] = "send_lock" /\ Serving(c) /\ TypeOK
  BY DEF SendLock, Serving, IInv
<1>2. slot[c] \in Slots /\ sock[slot[c]] # None
  BY <1>1, Running
<1>3. snd' = [snd EXCEPT ![slot[c]] = c]
  BY <1>2 DEF SendLock
<1>4. SndTyped
  BY <1>1, <1>2, <1>3 DEF SndTyped, TypeOK
<1>5. QED
  BY <1>1, <1>2, <1>4 DEF SendLock, SendLockEffect, Goto

SendEffect(c) ==
    /\ pc[c] = "send" /\ SndTyped /\ GotTyped /\ GotGrows(c)
    /\ Moves(c, {"read", "onclose"})
    /\ UNCHANGED <<slotVars, thrVars, httpVars, netVars, castVars, auth>>

LEMMA SendHas ==
    ASSUME IInv, NEW c \in Conns, Send(c)
    PROVE  SendEffect(c)
<1>1. pc[c] = "send" /\ Serving(c) /\ TypeOK
  BY DEF Send, Serving, IInv
<1>2. slot[c] \in Slots /\ sock[slot[c]] = c /\ buf[c] \in Frames
  BY <1>1, Running
<1>3. SndTyped
  BY <1>1, <1>2, ReleaseTyped DEF Send
<1>4. Moves(c, {"read", "onclose"})
  BY DEF Send, AfterSend, Goto, Moves
<1>5. GotTyped /\ GotGrows(c)
  <2>1. CASE Written(c, buf[c])
    BY <2>1, <1>1, <1>2, WrittenGrows
  <2>2. CASE UNCHANGED got
    BY <2>2, <1>1 DEF TypeOK, GotTyped, GotGrows
  <2>3. QED
    BY <1>2, <2>1, <2>2 DEF Send
<1>6. QED
  BY <1>1, <1>3, <1>4, <1>5 DEF Send, SendEffect

DoCloseEffect(c) ==
    /\ pc[c] = "dispatch" /\ buf[c] = "close"
    /\ state' = [state EXCEPT ![slot[c]] = "CLOSING"]
    /\ Moves(c, {"onclose", "send_lock"})
    /\ UNCHANGED <<sock, seq, login, mtx, snd, thrVars, httpVars, netVars, got, castVars, auth>>

LEMMA DoCloseHas ==
    ASSUME IInv, NEW c \in Conns, DoClose(c)
    PROVE  DoCloseEffect(c)
<1>1. pc[c] = "dispatch" /\ Serving(c) /\ TypeOK
  BY DEF DoClose, Serving, IInv, Goto
<1>2. slot[c] \in Slots /\ sock[slot[c]] # None
  BY <1>1, Running
<1>3. state' = [state EXCEPT ![slot[c]] = "CLOSING"]
  BY <1>1, <1>2 DEF DoClose, TypeOK
<1>4. QED
  BY <1>1, <1>3 DEF DoClose, DoCloseEffect, Moves, Goto

CastCheckEffect(c) ==
    /\ pc[c] = "bc_check" /\ SndTyped /\ bi' \in 1..(MaxClients + 1)
    /\ \/ Moves(c, {"bc_check", "bc_unlock"})
       \/ /\ pc' = [pc EXCEPT ![c] = "bc_send"]
          /\ bi' \in Slots /\ bi' = bi /\ state[bi] = "OPEN"
    /\ UNCHANGED <<slotVars, thrVars, httpVars, netVars, got, mutex, due, broke, auth>>

LEMMA CastCheckPc ==
    ASSUME TypeOK, NEW c \in Conns, CastCheckEffect(c)
    PROVE  pc' \in [Threads -> HttpPc \union ConnPc]
<1>1. pc \in [Threads -> HttpPc \union ConnPc]
  BY DEF TypeOK
<1>2. PICK to \in {"bc_check", "bc_unlock", "bc_send"} : pc' = [pc EXCEPT ![c] = to]
  BY DEF CastCheckEffect, Moves
<1>3. to \in ConnPc
  BY DEF ConnPc
<1>4. QED
  BY ONLY <1>1, <1>2, <1>3

LEMMA CastCheckHas ==
    ASSUME IInv, NEW c \in Conns, CastCheck(c)
    PROVE  CastCheckEffect(c)
<1>1. pc[c] = "bc_check" /\ TypeOK /\ bi \in 1..(MaxClients + 1) /\ pc \in [Threads -> HttpPc \union ConnPc]
  BY DEF CastCheck, IInv, TypeOK
<1>2. CASE bi > MaxClients
  <2>1. ~(bi <= MaxClients) /\ MaxClients \in Nat
    BY <1>1, <1>2, Assumptions
  <2>2. pc' = [pc EXCEPT ![c] = "bc_unlock"] /\ UNCHANGED <<bi, snd>>
    BY <2>1 DEF CastCheck, Goto
  <2>3. QED
    BY <1>1, <2>2 DEF CastCheck, CastCheckEffect, Moves, SndTyped, TypeOK
<1>3. CASE bi <= MaxClients /\ ~Opened(bi)
  <2>1. bi' = bi + 1 /\ UNCHANGED <<pc, snd>>
    BY <1>1, <1>3, Assumptions DEF CastCheck
  <2>2. pc' = [pc EXCEPT ![c] = "bc_check"]
    BY <2>1, <1>1 DEF Threads
  <2>3. QED
    BY <1>1, <1>3, <2>1, <2>2, Assumptions DEF CastCheck, CastCheckEffect, Moves, SndTyped, TypeOK, Slots
<1>4. CASE bi <= MaxClients /\ Opened(bi)
  <2>1. bi \in Slots /\ state[bi] = "OPEN" /\ ~(bi > MaxClients)
    BY <1>1, <1>4, Assumptions DEF Slots, Opened
  <2>2. pc' = [pc EXCEPT ![c] = "bc_send"] /\ bi' = bi /\ snd' = [snd EXCEPT ![bi] = c]
    BY <1>4, <2>1 DEF CastCheck, Goto
  <2>3. SndTyped
    BY <1>1, <2>1, <2>2 DEF SndTyped, TypeOK
  <2>4. QED
    BY <1>1, <2>1, <2>2, <2>3 DEF CastCheck, CastCheckEffect
<1>5. QED
  BY <1>1, <1>2, <1>3, <1>4, Assumptions

CastSendEffect(c) ==
    /\ pc[c] = "bc_send" /\ sock[bi] \in Conns /\ Serving(sock[bi])
    /\ SndTyped /\ GotTyped /\ GotGrows(sock[bi])
    /\ bi' \in 1..(MaxClients + 1) /\ due' \in SUBSET Slots /\ broke' \in Slots \union {None}
    /\ Moves(c, {"bc_check", "bc_unlock"})
    /\ UNCHANGED <<slotVars, thrVars, httpVars, netVars, mutex, auth>>

LEMMA CastSendHas ==
    ASSUME IInv, NEW c \in Conns, CastSend(c)
    PROVE  CastSendEffect(c)
<1>1. pc[c] = "bc_send" /\ Serving(c) /\ TypeOK
  BY DEF CastSend, Serving, IInv
<1>2. bi \in Slots /\ sock[bi] \in Conns /\ Serving(sock[bi]) /\ buf[c] \in Frames
  BY <1>1, Running
<1>3. SndTyped
  BY <1>1, <1>2, ReleaseTyped DEF CastSend
<1>4. Moves(c, {"bc_check", "bc_unlock"})
  BY DEF CastSend, Goto, Moves
<1>5. GotTyped /\ GotGrows(sock[bi])
  <2>1. CASE Written(sock[bi], buf[c])
    BY <2>1, <1>1, <1>2, WrittenGrows
  <2>2. CASE UNCHANGED got
    BY <2>2, <1>1 DEF TypeOK, GotTyped, GotGrows
  <2>3. QED
    BY <2>1, <2>2 DEF CastSend
<1>6. bi' \in 1..(MaxClients + 1) /\ due' \in SUBSET Slots
  <2>1. due \in SUBSET Slots /\ bi \in 1..MaxClients /\ MaxClients \in Nat
    BY <1>1, <1>2, Assumptions DEF TypeOK, Slots
  <2>2. (bi' = bi + 1 /\ due' = due \ {bi}) \/ (bi' = bi /\ due' = due)
    <3>1. CASE UNCHANGED <<got, bi, due>>
      BY <3>1
    <3>2. CASE bi' = bi + 1 /\ due' = due \ {bi}
      BY <3>2
    <3>3. QED
      BY <3>1, <3>2 DEF CastSend
  <2>3. bi' \in 1..(MaxClients + 1)
    BY <2>1, <2>2
  <2>4. QED
    BY <2>1, <2>2, <2>3
<1>7. broke' \in Slots \union {None}
  <2>1. broke \in Slots \union {None}
    BY <1>1 DEF TypeOK
  <2>2. broke' = broke \/ broke' = bi
    BY DEF CastSend
  <2>3. QED
    BY ONLY <2>1, <2>2, <1>2
<1>8. QED
  BY <1>1, <1>2, <1>3, <1>4, <1>5, <1>6, <1>7 DEF CastSend, CastSendEffect

\* A login answered, with the right password or with a wrong one.
LoginAnswered(c) ==
    /\ buf[c] = "login" /\ Reply(c, "reply")
    /\ UNCHANGED <<sock, state, seq, mtx, snd, slot, rd, httpVars, netVars, got, castVars>>
LoginRight(c) == LoginAnswered(c) /\ login' = [login EXCEPT ![slot[c]] = TRUE] /\ auth' = auth \union {rd[c]}
LoginWrong(c) == LoginAnswered(c) /\ UNCHANGED <<login, auth>>

LEMMA DoLoginHas ==
    ASSUME NEW c, DoLogin(c)
    PROVE  LoginRight(c) \/ LoginWrong(c)
  BY DEF DoLogin, LoginRight, LoginWrong, LoginAnswered

\* A frame without memory: nothing happens but a step of the thread.
NoMemoryEffect(c) ==
    /\ pc[c] \in {"send_lock", "bc_lock"}
    /\ Moves(c, {"read", "onclose", "rebooting"})
    /\ UNCHANGED <<slotVars, snd, thrVars, httpVars, netVars, got, castVars, auth>>

LEMMA NoMemoryHas ==
    ASSUME NEW c, NoMemory(c)
    PROVE  NoMemoryEffect(c)
  BY DEF NoMemory, NoMemoryEffect, AfterSend, AfterCast, Goto, Moves

CastUnlockEffect(c) ==
    /\ pc[c] = "bc_unlock" /\ mutex' = None /\ bi' = 1 /\ due' = {} /\ broke' = None
    /\ Moves(c, {"read", "rebooting"})
    /\ UNCHANGED <<slotVars, snd, thrVars, httpVars, netVars, got, auth>>

LEMMA CastUnlockHas ==
    ASSUME NEW c, CastUnlock(c)
    PROVE  CastUnlockEffect(c)
  BY DEF CastUnlock, CastUnlockEffect, AfterCast, Goto, Moves

CloseBeginEffect(c) ==
    /\ pc[c] = "close_begin" /\ pc' = [pc EXCEPT ![c] = "close_sock"]
    /\ state' = [state EXCEPT ![slot[c]] = "CLOSED"]
    /\ UNCHANGED <<sock, seq, login, mtx, snd, thrVars, httpVars, netVars, got, castVars, auth>>

LEMMA CloseBeginHas ==
    ASSUME IInv, NEW c \in Conns, CloseBegin(c)
    PROVE  CloseBeginEffect(c)
<1>1. pc[c] = "close_begin" /\ Serving(c)
  BY DEF CloseBegin, Serving
<1>2. sock[slot[c]] # None
  BY <1>1, Running
<1>3. QED
  BY <1>1, <1>2 DEF CloseBegin, CloseBeginEffect, Goto

CloseSockEffect(c) ==
    /\ pc[c] = "close_sock" /\ pc' = [pc EXCEPT ![c] = "close_clear"]
    /\ fd' = [fd EXCEPT ![c] = "closed"]
    /\ UNCHANGED <<slotVars, snd, thrVars, httpVars, peer, wire, msgs, got, castVars, auth>>

LEMMA CloseSockHas ==
    ASSUME IInv, NEW c \in Conns, CloseSock(c)
    PROVE  CloseSockEffect(c)
<1>1. pc[c] = "close_sock" /\ Serving(c)
  BY DEF CloseSock, Serving, Goto
<1>2. sock[slot[c]] = c /\ c # None
  BY <1>1, Running
<1>3. QED
  BY <1>1, <1>2 DEF CloseSock, CloseSockEffect, Goto

OpenEffect(c) ==
    /\ slot[c] \in Slots /\ sock[slot[c]] = c /\ c # None
    /\ state' = [state EXCEPT ![slot[c]] = "OPEN"]

LEMMA OpenHas ==
    ASSUME IInv, NEW c \in Conns, Open(c)
    PROVE  OpenEffect(c)
<1>1. Serving(c)
  BY DEF Open, Serving, Goto
<1>2. slot[c] \in Slots /\ sock[slot[c]] = c /\ c # None
  BY <1>1, Running
<1>3. QED
  BY <1>2 DEF Open, OpenEffect

CloseClearEffect(c) ==
    /\ slot[c] \in Slots /\ sock[slot[c]] = c /\ state[slot[c]] = "CLOSED"
    /\ sock' = [sock EXCEPT ![slot[c]] = None]
    /\ pc[c] = "close_clear" /\ pc' = [pc EXCEPT ![c] = "done"]
    /\ UNCHANGED <<state, slot, fd>>

LEMMA CloseClearHas ==
    ASSUME IInv, NEW c \in Conns, CloseClear(c)
    PROVE  CloseClearEffect(c)
<1>1. pc[c] = "close_clear" /\ Serving(c)
  BY DEF CloseClear, Serving, Goto
<1>2. slot[c] \in Slots /\ sock[slot[c]] = c /\ c # Http
  BY <1>1, Running
<1>3. state[slot[c]] = "CLOSED"
  BY <1>1 DEF IInv, ConnOwns
<1>4. QED
  BY <1>1, <1>2, <1>3 DEF CloseClear, CloseClearEffect, AfterClose, Goto, thrVars, netVars

\* A slot cleared by its own thread takes nothing from the others.
LEMMA CloseClearSlots ==
    ASSUME IInv, NEW c \in Conns, CloseClearEffect(c)
    PROVE  SlotOwned'
<1>1. SlotOwned /\ TypeOK /\ c # None /\ sock \in [Slots -> Conns \union {None}]
  BY Assumptions DEF IInv, TypeOK
<1>2. \A s \in Slots : s # slot[c] => sock'[s] = sock[s] /\ sock[s] # c
  <2>1. \A s \in Slots : s # slot[c] => sock'[s] = sock[s]
    BY ONLY <1>1, CloseClearEffect(c) DEF CloseClearEffect
  <2>2. \A s \in Slots : sock[s] = c => s = slot[c]
    <3>1. slot[c] \in Slots /\ sock[slot[c]] = c
      BY ONLY CloseClearEffect(c) DEF CloseClearEffect
    <3>2. \A r, s \in Slots : sock[r] = sock[s] /\ sock[s] # None => r = s
      BY ONLY <1>1 DEF SlotOwned
    <3>3. QED
      BY ONLY <1>1, <3>1, <3>2
  <2>3. QED
    BY ONLY <2>1, <2>2
<1>3. sock'[slot[c]] = None /\ state'[slot[c]] # "OPEN"
  BY <1>1 DEF CloseClearEffect, TypeOK
<1>4. \A d \in Conns : d # c => pc'[d] = pc[d]
  BY <1>1, Assumptions DEF CloseClearEffect, TypeOK, Threads
<1>5. QED
  BY <1>1, <1>2, <1>3, <1>4 DEF CloseClearEffect, SlotOwned, Serving

\* A step of a connection thread.
LEMMA ConnInductive ==
    ASSUME IInv, NEW c \in Conns, ConnStep(c)
    PROVE  IInv'
<1> USE Assumptions DEF IInv, TypeOK, HttpOwns, Room, ConnOwns, SlotOwned, CastOwned, HandshakeFirst, NoneLost,
        Goto, Threads, Slots, Serving, ConnPc, HttpPc, Messages, Frames, Moves, SndTyped, GotTyped, GotGrows,
        slotVars, thrVars, httpVars, netVars, castVars
<1>1. ASSUME Start(c) PROVE IInv'
  <2> USE <1>1 DEF Start
  <2>1. TypeOK'
    OBVIOUS
  <2>2. HttpOwns'
    OBVIOUS
  <2>3. Room'
    OBVIOUS
  <2>4. ConnOwns'
    OBVIOUS
  <2>5. SlotOwned'
    OBVIOUS
  <2>6. CastOwned'
    OBVIOUS
  <2>7. HandshakeFirst'
    OBVIOUS
  <2>8. NoneLost'
    OBVIOUS
  <2>9. QED
    BY <2>1, <2>2, <2>3, <2>4, <2>5, <2>6, <2>7, <2>8
<1>2. ASSUME Open(c) PROVE IInv'
  <2> USE <1>2 DEF Open
  <2>0. OpenEffect(c)
    BY ONLY IInv, <1>2, OpenHas
  <2> USE <2>0 DEF OpenEffect
  <2>1. TypeOK'
    OBVIOUS
  <2>2. HttpOwns'
    OBVIOUS
  <2>3. Room'
    OBVIOUS
  <2>4. ConnOwns'
    OBVIOUS
  <2>5. SlotOwned'
    OBVIOUS
  <2>6. CastOwned'
    OBVIOUS
  <2>7. HandshakeFirst'
    OBVIOUS
  <2>8. NoneLost'
    OBVIOUS
  <2>9. QED
    BY <2>1, <2>2, <2>3, <2>4, <2>5, <2>6, <2>7, <2>8
<1>3. ASSUME SendLock(c) PROVE IInv'
  <2>0. SendLockEffect(c)
    BY ONLY IInv, <1>3, SendLockHas
  <2> USE <2>0 DEF SendLockEffect
  <2>1. TypeOK'
    OBVIOUS
  <2>2. HttpOwns'
    OBVIOUS
  <2>3. Room'
    OBVIOUS
  <2>4. ConnOwns'
    OBVIOUS
  <2>5. SlotOwned'
    OBVIOUS
  <2>6. CastOwned'
    OBVIOUS
  <2>7. HandshakeFirst'
    OBVIOUS
  <2>8. NoneLost'
    OBVIOUS
  <2>9. QED
    BY <2>1, <2>2, <2>3, <2>4, <2>5, <2>6, <2>7, <2>8
<1>4. ASSUME Send(c) PROVE IInv'
  <2>0. SendEffect(c)
    BY ONLY IInv, <1>4, SendHas
  <2> USE <2>0 DEF SendEffect
  <2>1. TypeOK'
    OBVIOUS
  <2>2. HttpOwns'
    OBVIOUS
  <2>3. Room'
    OBVIOUS
  <2>4. ConnOwns'
    OBVIOUS
  <2>5. SlotOwned'
    OBVIOUS
  <2>6. CastOwned'
    OBVIOUS
  <2>7. HandshakeFirst'
    <3>1. "handshake" \in got[c]
      OBVIOUS
    <3>2. GotGrows(c)
      OBVIOUS
    <3>3. QED
      BY ONLY HandshakeFirst, <3>1, <3>2 DEF HandshakeFirst, GotGrows
  <2>8. NoneLost'
    OBVIOUS
  <2>9. QED
    BY <2>1, <2>2, <2>3, <2>4, <2>5, <2>6, <2>7, <2>8
<1>5. ASSUME Read(c) PROVE IInv'
  <2> USE <1>5 DEF Read
  <2>0. rd' = [rd EXCEPT ![c] = c]
    OBVIOUS
  <2> USE <2>0
  <2>1. TypeOK'
    OBVIOUS
  <2>2. HttpOwns'
    OBVIOUS
  <2>3. Room'
    OBVIOUS
  <2>4. ConnOwns'
    OBVIOUS
  <2>5. SlotOwned'
    OBVIOUS
  <2>6. CastOwned'
    OBVIOUS
  <2>7. HandshakeFirst'
    OBVIOUS
  <2>8. NoneLost'
    OBVIOUS
  <2>9. QED
    BY <2>1, <2>2, <2>3, <2>4, <2>5, <2>6, <2>7, <2>8
<1>6. ASSUME RecvFrame(c) PROVE IInv'
  <2> USE <1>6 DEF RecvFrame
  <2>1. TypeOK'
    OBVIOUS
  <2>2. HttpOwns'
    OBVIOUS
  <2>3. Room'
    OBVIOUS
  <2>4. ConnOwns'
    OBVIOUS
  <2>5. SlotOwned'
    OBVIOUS
  <2>6. CastOwned'
    OBVIOUS
  <2>7. HandshakeFirst'
    OBVIOUS
  <2>8. NoneLost'
    OBVIOUS
  <2>9. QED
    BY <2>1, <2>2, <2>3, <2>4, <2>5, <2>6, <2>7, <2>8
<1>7. ASSUME RecvError(c) PROVE IInv'
  <2> USE <1>7 DEF RecvError
  <2>1. TypeOK'
    OBVIOUS
  <2>2. HttpOwns'
    OBVIOUS
  <2>3. Room'
    OBVIOUS
  <2>4. ConnOwns'
    OBVIOUS
  <2>5. SlotOwned'
    OBVIOUS
  <2>6. CastOwned'
    OBVIOUS
  <2>7. HandshakeFirst'
    OBVIOUS
  <2>8. NoneLost'
    OBVIOUS
  <2>9. QED
    BY <2>1, <2>2, <2>3, <2>4, <2>5, <2>6, <2>7, <2>8
<1>9. ASSUME Refuse(c) PROVE IInv'
  <2> USE <1>9 DEF Refuse, Reply
  <2>1. TypeOK'
    OBVIOUS
  <2>2. HttpOwns'
    OBVIOUS
  <2>3. Room'
    OBVIOUS
  <2>4. ConnOwns'
    OBVIOUS
  <2>5. SlotOwned'
    OBVIOUS
  <2>6. CastOwned'
    OBVIOUS
  <2>7. HandshakeFirst'
    OBVIOUS
  <2>8. NoneLost'
    OBVIOUS
  <2>9. QED
    BY <2>1, <2>2, <2>3, <2>4, <2>5, <2>6, <2>7, <2>8
<1>10. ASSUME DoLogout(c) PROVE IInv'
  <2> USE <1>10 DEF DoLogout
  <2>1. TypeOK'
    OBVIOUS
  <2>2. HttpOwns'
    OBVIOUS
  <2>3. Room'
    OBVIOUS
  <2>4. ConnOwns'
    <3>1. slot[c] \in Slots /\ sock[slot[c]] = c /\ rd[c] = c
      BY ONLY IInv, <1>10 DEF IInv, ConnOwns, DoLogout, Goto, Serving
    <3>2. pc' = [pc EXCEPT ![c] = "read"] /\ login' = [login EXCEPT ![slot[c]] = FALSE]
          /\ auth' = auth \ {c}
      BY ONLY <1>10, <3>1 DEF DoLogout, Goto
    <3>3. ASSUME NEW d \in Conns, Serving(d), d # c
          PROVE  slot[d] \in Slots /\ login'[slot[d]] = login[slot[d]]
      <4>1. slot[d] \in Slots /\ sock[slot[d]] = d
        BY ONLY IInv, <3>3 DEF IInv, ConnOwns
      <4>2. slot[d] # slot[c] /\ login \in [Slots -> BOOLEAN]
        BY ONLY IInv, <3>1, <3>3, <4>1 DEF IInv, TypeOK
      <4>3. QED
        BY ONLY <3>1, <3>2, <4>1, <4>2
    <3>4. \A d \in Conns : d # c => pc'[d] = pc[d]
      BY ONLY <3>2, TypeOK DEF TypeOK, Threads
    <3>5. pc'[c] = "read" /\ ~login'[slot[c]] /\ pc[c] = "dispatch"
      BY ONLY <1>10, <3>1, <3>2, TypeOK DEF TypeOK, Threads, Slots, DoLogout, Goto
    <3>6. UNCHANGED <<slot, sock, mtx, fd, got, rd, buf, state>>
      BY ONLY <1>10 DEF DoLogout, slotVars, thrVars, netVars
    <3>7. ConnOwns
      BY ONLY IInv DEF IInv
    <3>8. QED
      BY ONLY <3>1, <3>2, <3>3, <3>4, <3>5, <3>6, <3>7 DEF ConnOwns, Serving, ConnPc
  <2>5. SlotOwned'
    OBVIOUS
  <2>6. CastOwned'
    OBVIOUS
  <2>7. HandshakeFirst'
    OBVIOUS
  <2>8. NoneLost'
    OBVIOUS
  <2>9. QED
    BY <2>1, <2>2, <2>3, <2>4, <2>5, <2>6, <2>7, <2>8
<1>11. ASSUME DoSecure(c) PROVE IInv'
  <2> USE <1>11 DEF DoSecure, Reply
  <2>1. TypeOK'
    OBVIOUS
  <2>2. HttpOwns'
    OBVIOUS
  <2>3. Room'
    OBVIOUS
  <2>4. ConnOwns'
    OBVIOUS
  <2>5. SlotOwned'
    OBVIOUS
  <2>6. CastOwned'
    OBVIOUS
  <2>7. HandshakeFirst'
    OBVIOUS
  <2>8. NoneLost'
    OBVIOUS
  <2>9. QED
    BY <2>1, <2>2, <2>3, <2>4, <2>5, <2>6, <2>7, <2>8
<1>12. ASSUME DoPing(c) PROVE IInv'
  <2> USE <1>12 DEF DoPing, Reply
  <2>1. TypeOK'
    OBVIOUS
  <2>2. HttpOwns'
    OBVIOUS
  <2>3. Room'
    OBVIOUS
  <2>4. ConnOwns'
    OBVIOUS
  <2>5. SlotOwned'
    OBVIOUS
  <2>6. CastOwned'
    OBVIOUS
  <2>7. HandshakeFirst'
    OBVIOUS
  <2>8. NoneLost'
    OBVIOUS
  <2>9. QED
    BY <2>1, <2>2, <2>3, <2>4, <2>5, <2>6, <2>7, <2>8
<1>13. ASSUME DoBroadcast(c) PROVE IInv'
  <2> USE <1>13 DEF DoBroadcast
  <2>0. buf' \in [Conns -> Messages \union Frames \union {"nothing"}]
    BY ONLY TypeOK, <1>13 DEF TypeOK, DoBroadcast, Messages, Frames
  <2> USE <2>0
  <2>1. TypeOK'
    OBVIOUS
  <2>2. HttpOwns'
    OBVIOUS
  <2>3. Room'
    OBVIOUS
  <2>4. ConnOwns'
    OBVIOUS
  <2>5. SlotOwned'
    OBVIOUS
  <2>6. CastOwned'
    OBVIOUS
  <2>7. HandshakeFirst'
    OBVIOUS
  <2>8. NoneLost'
    OBVIOUS
  <2>9. QED
    BY <2>1, <2>2, <2>3, <2>4, <2>5, <2>6, <2>7, <2>8
<1>14. ASSUME DoClose(c) PROVE IInv'
  <2>0. DoCloseEffect(c)
    BY ONLY IInv, <1>14, DoCloseHas
  <2> USE <2>0 DEF DoCloseEffect
  <2>1. TypeOK'
    <3>1. state' \in [Slots -> {"INIT", "CONNECTING", "OPEN", "CLOSING", "CLOSED"}]
      OBVIOUS
    <3>2. pc' \in [Threads -> HttpPc \union ConnPc]
      OBVIOUS
    <3>3. QED
      BY ONLY TypeOK, <2>0, <3>1, <3>2 DEF TypeOK, DoCloseEffect, thrVars, httpVars, netVars, castVars
  <2>2. HttpOwns'
    OBVIOUS
  <2>3. Room'
    OBVIOUS
  <2>4. ConnOwns'
    <3>1. Serving(c) /\ slot[c] \in Slots /\ \A d \in Conns : Serving(d) /\ slot[d] = slot[c] => d = c
      BY ONLY IInv, c \in Conns, <2>0, Running DEF DoCloseEffect, Serving
    <3>2. UNCHANGED <<sock, login, mtx, slot, rd, buf, fd, got, auth>>
      BY ONLY <2>0 DEF DoCloseEffect, thrVars, netVars
    <3>3. /\ \A d \in Conns \ {c} : pc'[d] = pc[d]
          /\ pc[c] = "dispatch" /\ pc'[c] \in {"onclose", "send_lock"}
      BY ONLY TypeOK, c \in Conns, <2>0 DEF DoCloseEffect, Moves, TypeOK, Threads
    <3>4. \A s \in Slots : state'[s] = IF s = slot[c] THEN "CLOSING" ELSE state[s]
      BY ONLY TypeOK, <2>0 DEF DoCloseEffect, TypeOK
    <3>5. buf[c] = "close"
      BY ONLY <2>0 DEF DoCloseEffect
    <3>6. QED
      BY ONLY ConnOwns, <3>1, <3>2, <3>3, <3>4, <3>5 DEF ConnOwns, Serving, ConnPc, Frames
  <2>5. SlotOwned'
    OBVIOUS
  <2>6. CastOwned'
    OBVIOUS
  <2>7. HandshakeFirst'
    OBVIOUS
  <2>8. NoneLost'
    OBVIOUS
  <2>9. QED
    BY <2>1, <2>2, <2>3, <2>4, <2>5, <2>6, <2>7, <2>8
<1>15. ASSUME CastLock(c) PROVE IInv'
  <2> USE <1>15 DEF CastLock, Opened
  <2>1. TypeOK'
    OBVIOUS
  <2>2. HttpOwns'
    OBVIOUS
  <2>3. Room'
    OBVIOUS
  <2>4. ConnOwns'
    OBVIOUS
  <2>5. SlotOwned'
    OBVIOUS
  <2>6. CastOwned'
    OBVIOUS
  <2>7. HandshakeFirst'
    OBVIOUS
  <2>8. NoneLost'
    OBVIOUS
  <2>9. QED
    BY <2>1, <2>2, <2>3, <2>4, <2>5, <2>6, <2>7, <2>8
<1>16. ASSUME CastCheck(c) PROVE IInv'
  <2>0. CastCheckEffect(c)
    BY ONLY IInv, <1>16, CastCheckHas
  <2> USE <2>0 DEF CastCheckEffect
  <2>1. TypeOK'
    <3>1. pc' \in [Threads -> HttpPc \union ConnPc]
      BY ONLY TypeOK, <2>0, CastCheckPc
    <3>2. QED
      BY ONLY TypeOK, <2>0, <3>1 DEF TypeOK, CastCheckEffect, SndTyped, slotVars, thrVars, httpVars, netVars
  <2>2. HttpOwns'
    OBVIOUS
  <2>3. Room'
    OBVIOUS
  <2>4. ConnOwns'
    OBVIOUS
  <2>5. SlotOwned'
    OBVIOUS
  <2>6. CastOwned'
    OBVIOUS
  <2>7. HandshakeFirst'
    OBVIOUS
  <2>8. NoneLost'
    OBVIOUS
  <2>9. QED
    BY <2>1, <2>2, <2>3, <2>4, <2>5, <2>6, <2>7, <2>8
<1>17. ASSUME CastSend(c) PROVE IInv'
  <2>0. CastSendEffect(c)
    BY ONLY IInv, <1>17, CastSendHas
  <2> USE <2>0 DEF CastSendEffect
  <2>1. TypeOK'
    OBVIOUS
  <2>2. HttpOwns'
    OBVIOUS
  <2>3. Room'
    OBVIOUS
  <2>4. ConnOwns'
    OBVIOUS
  <2>5. SlotOwned'
    OBVIOUS
  <2>6. CastOwned'
    OBVIOUS
  <2>7. HandshakeFirst'
    <3>1. "handshake" \in got[sock[bi]]
      OBVIOUS
    <3>2. GotGrows(sock[bi])
      OBVIOUS
    <3>3. QED
      BY ONLY HandshakeFirst, <3>1, <3>2 DEF HandshakeFirst, GotGrows
  <2>8. NoneLost'
    OBVIOUS
  <2>9. QED
    BY <2>1, <2>2, <2>3, <2>4, <2>5, <2>6, <2>7, <2>8
<1>18. ASSUME CastUnlock(c) PROVE IInv'
  <2>0. CastUnlockEffect(c)
    BY ONLY <1>18, CastUnlockHas
  <2> USE <2>0 DEF CastUnlockEffect, Moves
  <2>1. TypeOK'
    OBVIOUS
  <2>2. HttpOwns'
    OBVIOUS
  <2>3. Room'
    OBVIOUS
  <2>4. ConnOwns'
    OBVIOUS
  <2>5. SlotOwned'
    OBVIOUS
  <2>6. CastOwned'
    OBVIOUS
  <2>7. HandshakeFirst'
    OBVIOUS
  <2>8. NoneLost'
    OBVIOUS
  <2>9. QED
    BY <2>1, <2>2, <2>3, <2>4, <2>5, <2>6, <2>7, <2>8
<1>19. ASSUME OnClose(c) PROVE IInv'
  <2> USE <1>19 DEF OnClose
  <2>1. TypeOK'
    OBVIOUS
  <2>2. HttpOwns'
    OBVIOUS
  <2>3. Room'
    OBVIOUS
  <2>4. ConnOwns'
    OBVIOUS
  <2>5. SlotOwned'
    OBVIOUS
  <2>6. CastOwned'
    OBVIOUS
  <2>7. HandshakeFirst'
    OBVIOUS
  <2>8. NoneLost'
    OBVIOUS
  <2>9. QED
    BY <2>1, <2>2, <2>3, <2>4, <2>5, <2>6, <2>7, <2>8
<1>20. ASSUME Last(c) PROVE IInv'
  <2> USE <1>20 DEF Last
  <2>1. TypeOK'
    OBVIOUS
  <2>2. HttpOwns'
    OBVIOUS
  <2>3. Room'
    OBVIOUS
  <2>4. ConnOwns'
    OBVIOUS
  <2>5. SlotOwned'
    OBVIOUS
  <2>6. CastOwned'
    <3>1. pc' = [pc EXCEPT ![c] = "close_begin"] /\ pc \in [Threads -> HttpPc \union ConnPc]
      OBVIOUS
    <3>2. pc[c] = "last" /\ UNCHANGED <<mutex, bi, sock, slot>>
      OBVIOUS
    <3>3. QED
      BY ONLY CastOwned, <3>1, <3>2 DEF CastOwned, Serving, Threads
  <2>7. HandshakeFirst'
    OBVIOUS
  <2>8. NoneLost'
    OBVIOUS
  <2>9. QED
    BY <2>1, <2>2, <2>3, <2>4, <2>5, <2>6, <2>7, <2>8
<1>21. ASSUME CloseBegin(c) PROVE IInv'
  <2>0. CloseBeginEffect(c)
    BY ONLY IInv, <1>21, CloseBeginHas
  <2> USE <2>0 DEF CloseBeginEffect
  <2>1. TypeOK'
    OBVIOUS
  <2>2. HttpOwns'
    OBVIOUS
  <2>3. Room'
    OBVIOUS
  <2>4. ConnOwns'
    OBVIOUS
  <2>5. SlotOwned'
    OBVIOUS
  <2>6. CastOwned'
    OBVIOUS
  <2>7. HandshakeFirst'
    OBVIOUS
  <2>8. NoneLost'
    OBVIOUS
  <2>9. QED
    BY <2>1, <2>2, <2>3, <2>4, <2>5, <2>6, <2>7, <2>8
<1>22. ASSUME CloseSock(c) PROVE IInv'
  <2>0. CloseSockEffect(c)
    BY ONLY IInv, <1>22, CloseSockHas
  <2> USE <2>0 DEF CloseSockEffect
  <2>1. TypeOK'
    OBVIOUS
  <2>2. HttpOwns'
    OBVIOUS
  <2>3. Room'
    OBVIOUS
  <2>4. ConnOwns'
    OBVIOUS
  <2>5. SlotOwned'
    OBVIOUS
  <2>6. CastOwned'
    OBVIOUS
  <2>7. HandshakeFirst'
    OBVIOUS
  <2>8. NoneLost'
    OBVIOUS
  <2>9. QED
    BY <2>1, <2>2, <2>3, <2>4, <2>5, <2>6, <2>7, <2>8
<1>23. ASSUME CloseClear(c) PROVE IInv'
  <2> USE <1>23 DEF CloseClear, AfterClose, DropCur, Unlocked
  <2>1. TypeOK'
    OBVIOUS
  <2>2. HttpOwns'
    OBVIOUS
  <2>3. Room'
    OBVIOUS
  <2>4. ConnOwns'
    OBVIOUS
  <2>5. SlotOwned'
    BY ONLY IInv, <1>23, CloseClearHas, CloseClearSlots
  <2>6. CastOwned'
    OBVIOUS
  <2>7. HandshakeFirst'
    OBVIOUS
  <2>8. NoneLost'
    OBVIOUS
  <2>9. QED
    BY <2>1, <2>2, <2>3, <2>4, <2>5, <2>6, <2>7, <2>8
<1>24. ASSUME NoMemory(c) PROVE IInv'
  <2>0. NoMemoryEffect(c)
    BY ONLY <1>24, NoMemoryHas
  <2> USE <2>0 DEF NoMemoryEffect, Moves
  <2>1. TypeOK'
    OBVIOUS
  <2>2. HttpOwns'
    OBVIOUS
  <2>3. Room'
    OBVIOUS
  <2>4. ConnOwns'
    OBVIOUS
  <2>5. SlotOwned'
    OBVIOUS
  <2>6. CastOwned'
    OBVIOUS
  <2>7. HandshakeFirst'
    OBVIOUS
  <2>8. NoneLost'
    OBVIOUS
  <2>9. QED
    BY <2>1, <2>2, <2>3, <2>4, <2>5, <2>6, <2>7, <2>8
<1>25. ASSUME LoginRight(c) PROVE IInv'
  <2> USE <1>25 DEF LoginRight, LoginAnswered, Reply
  <2>0. auth' = auth \union {c}
    OBVIOUS
  <2> USE <2>0
  <2>1. TypeOK'
    <3>1. auth' \in SUBSET Conns /\ login' \in [Slots -> BOOLEAN]
      <4>1. auth' \in SUBSET Conns
        BY ONLY TypeOK, <2>0, c \in Conns DEF TypeOK
      <4>2. login' \in [Slots -> BOOLEAN]
        BY ONLY TypeOK, <1>25 DEF TypeOK, LoginRight, LoginAnswered
      <4>3. QED
        BY ONLY <4>1, <4>2
    <3>2. buf' \in [Conns -> Messages \union Frames \union {"nothing"}]
      OBVIOUS
    <3>3. pc' \in [Threads -> HttpPc \union ConnPc]
      OBVIOUS
    <3>4. QED
      BY ONLY TypeOK, <1>25, <3>1, <3>2, <3>3 DEF TypeOK, LoginRight, LoginAnswered, httpVars, netVars, castVars
  <2>2. HttpOwns'
    OBVIOUS
  <2>3. Room'
    OBVIOUS
  <2>4. ConnOwns'
    OBVIOUS
  <2>5. SlotOwned'
    OBVIOUS
  <2>6. CastOwned'
    OBVIOUS
  <2>7. HandshakeFirst'
    OBVIOUS
  <2>8. NoneLost'
    OBVIOUS
  <2>9. QED
    BY <2>1, <2>2, <2>3, <2>4, <2>5, <2>6, <2>7, <2>8
<1>26. ASSUME LoginWrong(c) PROVE IInv'
  <2> USE <1>26 DEF LoginWrong, LoginAnswered, Reply
  <2>1. TypeOK'
    OBVIOUS
  <2>2. HttpOwns'
    OBVIOUS
  <2>3. Room'
    OBVIOUS
  <2>4. ConnOwns'
    OBVIOUS
  <2>5. SlotOwned'
    OBVIOUS
  <2>6. CastOwned'
    OBVIOUS
  <2>7. HandshakeFirst'
    OBVIOUS
  <2>8. NoneLost'
    OBVIOUS
  <2>9. QED
    BY <2>1, <2>2, <2>3, <2>4, <2>5, <2>6, <2>7, <2>8
<1>27. QED
  BY <1>1, <1>2, <1>3, <1>4, <1>5, <1>6, <1>7, <1>9, <1>10, <1>11, <1>12, <1>13, <1>14, <1>15, <1>16, <1>17, <1>18, <1>19, <1>20, <1>21, <1>22, <1>23, <1>24, <1>25, <1>26, DoLoginHas DEF ConnStep, Dispatch

\* A step of the http thread while there is room.
LEMMA HttpInductive ==
    ASSUME IInv, HttpStep
    PROVE  IInv'
<1> USE Assumptions DEF IInv, TypeOK, HttpOwns, Room, ConnOwns, SlotOwned, CastOwned, HandshakeFirst, NoneLost,
        Goto, Threads, Slots, Serving, ConnPc, HttpPc, Messages, Frames,
        slotVars, thrVars, httpVars, netVars, castVars
<1>1. ASSUME NEW c \in Conns, Accept(c) PROVE IInv'
  <2> USE <1>1 DEF Accept
  <2>a. fd[c] = "none" /\ c # None
    OBVIOUS
  <2>0. pc[c] = "none" /\ \A s \in Slots : sock[s] # c
    BY ONLY IInv, <2>a, c \in Conns DEF IInv, ConnOwns, SlotOwned, Serving
  <2> USE <2>0
  <2>1. TypeOK'
    OBVIOUS
  <2>2. HttpOwns'
    OBVIOUS
  <2>3. Room'
    OBVIOUS
  <2>4. ConnOwns'
    OBVIOUS
  <2>5. SlotOwned'
    OBVIOUS
  <2>6. CastOwned'
    OBVIOUS
  <2>7. HandshakeFirst'
    OBVIOUS
  <2>8. NoneLost'
    OBVIOUS
  <2>9. QED
    BY <2>1, <2>2, <2>3, <2>4, <2>5, <2>6, <2>7, <2>8
<1>2. ASSUME AcceptFails PROVE IInv'
  <2> USE <1>2 DEF AcceptFails
  <2>1. TypeOK'
    OBVIOUS
  <2>2. HttpOwns'
    OBVIOUS
  <2>3. Room'
    OBVIOUS
  <2>4. ConnOwns'
    OBVIOUS
  <2>5. SlotOwned'
    OBVIOUS
  <2>6. CastOwned'
    OBVIOUS
  <2>7. HandshakeFirst'
    OBVIOUS
  <2>8. NoneLost'
    OBVIOUS
  <2>9. QED
    BY <2>1, <2>2, <2>3, <2>4, <2>5, <2>6, <2>7, <2>8
<1>3. ASSUME ServePage PROVE IInv'
  <2> USE <1>3 DEF ServePage
  <2>1. TypeOK'
    OBVIOUS
  <2>2. HttpOwns'
    OBVIOUS
  <2>3. Room'
    OBVIOUS
  <2>4. ConnOwns'
    OBVIOUS
  <2>5. SlotOwned'
    OBVIOUS
  <2>6. CastOwned'
    OBVIOUS
  <2>7. HandshakeFirst'
    OBVIOUS
  <2>8. NoneLost'
    OBVIOUS
  <2>9. QED
    BY <2>1, <2>2, <2>3, <2>4, <2>5, <2>6, <2>7, <2>8
<1>4. ASSUME Upgrade PROVE IInv'
  <2> USE <1>4 DEF Upgrade
  <2>1. TypeOK'
    OBVIOUS
  <2>2. HttpOwns'
    OBVIOUS
  <2>3. Room'
    OBVIOUS
  <2>4. ConnOwns'
    OBVIOUS
  <2>5. SlotOwned'
    OBVIOUS
  <2>6. CastOwned'
    OBVIOUS
  <2>7. HandshakeFirst'
    OBVIOUS
  <2>8. NoneLost'
    OBVIOUS
  <2>9. QED
    BY <2>1, <2>2, <2>3, <2>4, <2>5, <2>6, <2>7, <2>8
<1>5. ASSUME FindFree PROVE IInv'
  <2> USE <1>5 DEF FindFree, Free
  <2>0. PICK s \in Slots : sock[s] = None /\ slot' = [slot EXCEPT ![Http] = s]
    OBVIOUS
  <2> USE <2>0
  <2>1. TypeOK'
    OBVIOUS
  <2>2. HttpOwns'
    OBVIOUS
  <2>3. Room'
    OBVIOUS
  <2>4. ConnOwns'
    OBVIOUS
  <2>5. SlotOwned'
    OBVIOUS
  <2>6. CastOwned'
    OBVIOUS
  <2>7. HandshakeFirst'
    OBVIOUS
  <2>8. NoneLost'
    OBVIOUS
  <2>9. QED
    BY <2>1, <2>2, <2>3, <2>4, <2>5, <2>6, <2>7, <2>8
<1>6. ASSUME Claim PROVE IInv'
  <2> USE <1>6 DEF Claim
  <2>1. TypeOK'
    OBVIOUS
  <2>2. HttpOwns'
    OBVIOUS
  <2>3. Room'
    OBVIOUS
  <2>4. ConnOwns'
    OBVIOUS
  <2>5. SlotOwned'
    OBVIOUS
  <2>6. CastOwned'
    OBVIOUS
  <2>7. HandshakeFirst'
    OBVIOUS
  <2>8. NoneLost'
    OBVIOUS
  <2>9. QED
    BY <2>1, <2>2, <2>3, <2>4, <2>5, <2>6, <2>7, <2>8
<1>7. ASSUME Setup PROVE IInv'
  <2> USE <1>7 DEF Setup
  <2>1. TypeOK'
    OBVIOUS
  <2>2. HttpOwns'
    OBVIOUS
  <2>3. Room'
    OBVIOUS
  <2>4. ConnOwns'
    OBVIOUS
  <2>5. SlotOwned'
    OBVIOUS
  <2>6. CastOwned'
    OBVIOUS
  <2>7. HandshakeFirst'
    OBVIOUS
  <2>8. NoneLost'
    OBVIOUS
  <2>9. QED
    BY <2>1, <2>2, <2>3, <2>4, <2>5, <2>6, <2>7, <2>8
<1>8. ASSUME SetupFails PROVE IInv'
  <2> USE <1>8 DEF SetupFails
  <2>1. TypeOK'
    OBVIOUS
  <2>2. HttpOwns'
    OBVIOUS
  <2>3. Room'
    OBVIOUS
  <2>4. ConnOwns'
    OBVIOUS
  <2>5. SlotOwned'
    OBVIOUS
  <2>6. CastOwned'
    OBVIOUS
  <2>7. HandshakeFirst'
    OBVIOUS
  <2>8. NoneLost'
    OBVIOUS
  <2>9. QED
    BY <2>1, <2>2, <2>3, <2>4, <2>5, <2>6, <2>7, <2>8
<1>9. ASSUME Handshake PROVE IInv'
  <2> USE <1>9 DEF Handshake, Written, CanSend
  <2>1. TypeOK'
    OBVIOUS
  <2>2. HttpOwns'
    OBVIOUS
  <2>3. Room'
    OBVIOUS
  <2>4. ConnOwns'
    OBVIOUS
  <2>5. SlotOwned'
    OBVIOUS
  <2>6. CastOwned'
    OBVIOUS
  <2>7. HandshakeFirst'
    OBVIOUS
  <2>8. NoneLost'
    OBVIOUS
  <2>9. QED
    BY <2>1, <2>2, <2>3, <2>4, <2>5, <2>6, <2>7, <2>8
<1>10. ASSUME HandshakeFails PROVE IInv'
  <2> USE <1>10 DEF HandshakeFails
  <2>1. TypeOK'
    OBVIOUS
  <2>2. HttpOwns'
    OBVIOUS
  <2>3. Room'
    OBVIOUS
  <2>4. ConnOwns'
    OBVIOUS
  <2>5. SlotOwned'
    OBVIOUS
  <2>6. CastOwned'
    OBVIOUS
  <2>7. HandshakeFirst'
    OBVIOUS
  <2>8. NoneLost'
    OBVIOUS
  <2>9. QED
    BY <2>1, <2>2, <2>3, <2>4, <2>5, <2>6, <2>7, <2>8
<1>11. ASSUME Create PROVE IInv'
  <2> USE <1>11 DEF Create
  <2>1. TypeOK'
    OBVIOUS
  <2>2. HttpOwns'
    OBVIOUS
  <2>3. Room'
    OBVIOUS
  <2>4. ConnOwns'
    OBVIOUS
  <2>5. SlotOwned'
    OBVIOUS
  <2>6. CastOwned'
    <3>1. cur \in Conns /\ pc[cur] = "none" /\ Http \notin Conns
      OBVIOUS
    <3>2. /\ pc' = [pc EXCEPT ![Http] = "accept", ![cur] = "start"]
          /\ pc \in [Threads -> HttpPc \union ConnPc]
      OBVIOUS
    <3>3. UNCHANGED <<mutex, bi, sock>> /\ slot' = [slot EXCEPT ![cur] = slot[Http]]
      OBVIOUS
    <3>4. slot \in [Threads -> Slots \union {None}]
      OBVIOUS
    <3>5. QED
      BY ONLY CastOwned, <3>1, <3>2, <3>3, <3>4 DEF CastOwned, Serving, Threads
  <2>7. HandshakeFirst'
    OBVIOUS
  <2>8. NoneLost'
    OBVIOUS
  <2>9. QED
    BY <2>1, <2>2, <2>3, <2>4, <2>5, <2>6, <2>7, <2>8
<1>12. ASSUME CreateFails PROVE IInv'
  <2> USE <1>12 DEF CreateFails
  <2>1. TypeOK'
    OBVIOUS
  <2>2. HttpOwns'
    OBVIOUS
  <2>3. Room'
    OBVIOUS
  <2>4. ConnOwns'
    OBVIOUS
  <2>5. SlotOwned'
    OBVIOUS
  <2>6. CastOwned'
    OBVIOUS
  <2>7. HandshakeFirst'
    OBVIOUS
  <2>8. NoneLost'
    OBVIOUS
  <2>9. QED
    BY <2>1, <2>2, <2>3, <2>4, <2>5, <2>6, <2>7, <2>8
<1>13. ASSUME CloseBegin(Http) PROVE IInv'
  <2> USE <1>13 DEF CloseBegin, AfterClose, DropCur, Unlocked
  <2>0. /\ pc' = [pc EXCEPT ![Http] = "close_sock"] /\ state' = [state EXCEPT ![slot[Http]] = "CLOSED"]
        /\ UNCHANGED httpVars
    <3>1. pc[Http] = "close_begin"
      OBVIOUS
    <3>2. slot[Http] \in Slots /\ sock[slot[Http]] = cur /\ cur # None
      BY ONLY IInv, Assumptions, <3>1 DEF IInv, HttpOwns
    <3>3. QED
      BY ONLY <1>13, <3>1, <3>2 DEF CloseBegin, Goto, httpVars
  <2> USE <2>0
  <2>1. TypeOK'
    OBVIOUS
  <2>2. HttpOwns'
    OBVIOUS
  <2>3. Room'
    OBVIOUS
  <2>4. ConnOwns'
    OBVIOUS
  <2>5. SlotOwned'
    OBVIOUS
  <2>6. CastOwned'
    OBVIOUS
  <2>7. HandshakeFirst'
    OBVIOUS
  <2>8. NoneLost'
    OBVIOUS
  <2>9. QED
    BY <2>1, <2>2, <2>3, <2>4, <2>5, <2>6, <2>7, <2>8
<1>14. ASSUME CloseSock(Http) PROVE IInv'
  <2> USE <1>14 DEF CloseSock
  <2>1. TypeOK'
    OBVIOUS
  <2>2. HttpOwns'
    OBVIOUS
  <2>3. Room'
    OBVIOUS
  <2>4. ConnOwns'
    OBVIOUS
  <2>5. SlotOwned'
    OBVIOUS
  <2>6. CastOwned'
    OBVIOUS
  <2>7. HandshakeFirst'
    OBVIOUS
  <2>8. NoneLost'
    OBVIOUS
  <2>9. QED
    BY <2>1, <2>2, <2>3, <2>4, <2>5, <2>6, <2>7, <2>8
<1>15. ASSUME CloseClear(Http) PROVE IInv'
  <2> USE <1>15 DEF CloseClear, AfterClose, DropCur, Unlocked
  <2>1. TypeOK'
    OBVIOUS
  <2>2. HttpOwns'
    OBVIOUS
  <2>3. Room'
    OBVIOUS
  <2>4. ConnOwns'
    OBVIOUS
  <2>5. SlotOwned'
    OBVIOUS
  <2>6. CastOwned'
    OBVIOUS
  <2>7. HandshakeFirst'
    OBVIOUS
  <2>8. NoneLost'
    OBVIOUS
  <2>9. QED
    BY <2>1, <2>2, <2>3, <2>4, <2>5, <2>6, <2>7, <2>8
<1>16. ~Evict /\ ~TooMany
  BY DEF Evict, TooMany, Free
<1>17. QED
  BY <1>1, <1>2, <1>3, <1>4, <1>5, <1>6, <1>7, <1>8, <1>9, <1>10, <1>11, <1>12, <1>13, <1>14, <1>15, <1>16 DEF HttpStep, WsAccept

\* A step of a client that asks, sends, leaves or vanishes.
LEMMA PeerInductive ==
    ASSUME IInv, Leaving \/ Sending \/ CalmAsking
    PROVE  IInv'
<1> USE Assumptions DEF IInv, TypeOK, HttpOwns, Room, ConnOwns, SlotOwned, CastOwned, HandshakeFirst, NoneLost,
        Goto, Threads, Slots, Serving, ConnPc, HttpPc, Messages, Frames,
        slotVars, thrVars, httpVars, netVars, castVars
<1>1. ASSUME NEW c \in Conns, NEW how \in Ends, PeerEnd(c, how)
      PROVE  IInv'
  <2> USE <1>1 DEF PeerEnd
  <2>1. TypeOK'
    OBVIOUS
  <2>2. HttpOwns'
    OBVIOUS
  <2>3. Room'
    OBVIOUS
  <2>4. ConnOwns'
    OBVIOUS
  <2>5. SlotOwned'
    OBVIOUS
  <2>6. CastOwned'
    OBVIOUS
  <2>7. HandshakeFirst'
    OBVIOUS
  <2>8. NoneLost'
    OBVIOUS
  <2>9. QED
    BY <2>1, <2>2, <2>3, <2>4, <2>5, <2>6, <2>7, <2>8
<1>2. ASSUME NEW c \in Conns, NEW m \in Msgs, PeerMsg(c, m)
      PROVE  IInv'
  <2> USE <1>2 DEF PeerMsg
  <2>0. m \notin {"page", "ws"}
    OBVIOUS
  <2> USE <2>0
  <2>1. TypeOK'
    OBVIOUS
  <2>2. HttpOwns'
    OBVIOUS
  <2>3. Room'
    OBVIOUS
  <2>4. ConnOwns'
    OBVIOUS
  <2>5. SlotOwned'
    OBVIOUS
  <2>6. CastOwned'
    OBVIOUS
  <2>7. HandshakeFirst'
    OBVIOUS
  <2>8. NoneLost'
    OBVIOUS
  <2>9. QED
    BY <2>1, <2>2, <2>3, <2>4, <2>5, <2>6, <2>7, <2>8
<1>3. ASSUME NEW c \in Conns, NEW r \in {"page", "ws"}, PeerRequest(c, r), \E s \in Slots : sock[s] = None
      PROVE  IInv'
  <2> USE <1>3 DEF PeerRequest
  <2>1. TypeOK'
    OBVIOUS
  <2>2. HttpOwns'
    OBVIOUS
  <2>3. Room'
    OBVIOUS
  <2>4. ConnOwns'
    OBVIOUS
  <2>5. SlotOwned'
    OBVIOUS
  <2>6. CastOwned'
    OBVIOUS
  <2>7. HandshakeFirst'
    OBVIOUS
  <2>8. NoneLost'
    OBVIOUS
  <2>9. QED
    BY <2>1, <2>2, <2>3, <2>4, <2>5, <2>6, <2>7, <2>8
<1>4. CASE Leaving
  BY ONLY <1>1, <1>4 DEF Leaving
<1>5. CASE Sending
  BY ONLY <1>2, <1>5 DEF Sending
<1>6. CASE CalmAsking
  BY ONLY <1>3, <1>6 DEF CalmAsking, Asking
<1>7. QED
  BY ONLY <1>4, <1>5, <1>6, Leaving \/ Sending \/ CalmAsking

LEMMA Initially == Init => IInv
<1> SUFFICES ASSUME Init PROVE IInv
  OBVIOUS
<1> USE Assumptions DEF Init, Threads, Slots, Serving, ConnPc, HttpPc, Messages, Frames
<1>1. TypeOK
  <2>1. pc \in [Threads -> HttpPc \union ConnPc]
    OBVIOUS
  <2>2. bi \in 1..(MaxClients + 1)
    OBVIOUS
  <2>3. QED
    BY ONLY <2>1, <2>2, Init DEF Init, TypeOK
<1>2. HttpOwns /\ Room
  BY DEF HttpOwns, Room
<1>3. ConnOwns
  BY DEF ConnOwns
<1>4. SlotOwned /\ CastOwned /\ HandshakeFirst /\ NoneLost
  BY DEF SlotOwned, CastOwned, HandshakeFirst, NoneLost
<1>5. QED
  BY <1>1, <1>2, <1>3, <1>4 DEF IInv

LEMMA Inductive == IInv /\ [CalmNext]_vars => IInv'
<1>1. IInv /\ UNCHANGED vars => IInv'
  BY DEF IInv, TypeOK, HttpOwns, Room, ConnOwns, SlotOwned, CastOwned, HandshakeFirst, NoneLost, Serving,
     vars, slotVars, thrVars, httpVars, netVars, castVars
<1>2. QED
  BY <1>1, ConnInductive, HttpInductive, PeerInductive DEF CalmNext

\* The invariant of every behaviour in which no client is evicted.
THEOREM Ownership == CalmSpec => []IInv
  BY Initially, Inductive, PTL DEF CalmSpec

-----------------------------------------------------------------------------
(* The safety properties of WebSocket.tla, for every instance.              *)

LEMMA Consequences ==
    IInv => OneThreadPerSlot /\ OwnSocket /\ LoginOwned /\ HandshakeFirst /\ CastTarget
<1> SUFFICES ASSUME IInv PROVE OneThreadPerSlot /\ OwnSocket /\ LoginOwned /\ HandshakeFirst /\ CastTarget
  OBVIOUS
<1>1. OneThreadPerSlot
  BY Assumptions DEF IInv, HttpOwns, ConnOwns, OneThreadPerSlot, HttpHolds, Serving
<1>2. OwnSocket /\ LoginOwned
  BY DEF IInv, ConnOwns, OwnSocket, LoginOwned, Serving
<1>3. CastTarget
  BY Assumptions DEF IInv, TypeOK, ConnOwns, CastOwned, CastTarget, Serving
<1>4. QED
  BY <1>1, <1>2, <1>3 DEF IInv

\* Every variable keeps its type: in particular the index of a broadcast and
\* the slot of every thread stay inside the table (ws_sendframe, ws_accept).
THEOREM TypeCorrect == CalmSpec => []TypeOK
<1>1. IInv => TypeOK
  BY DEF IInv
<1>2. QED
  BY <1>1, Ownership, PTL

\* No two threads ever work on one client structure (close_client, ws_accept,
\* ws_establishconnection), for any number of slots and connections.
THEOREM OneThread == CalmSpec => []OneThreadPerSlot
  BY Consequences, Ownership, PTL

\* What a thread reads, writes and closes is its own connection, although
\* client_sock is read again at every call.
THEOREM OwnConnection == CalmSpec => []OwnSocket
  BY Consequences, Ownership, PTL

\* is_login is true exactly for connections that gave the password
\* themselves: a slot that is used again forgets its last user.
THEOREM OwnLogin == CalmSpec => []LoginOwned
  BY Consequences, Ownership, PTL

\* No thread writes to a client before the answer to its handshake.
THEOREM NothingBeforeHandshake == CalmSpec => []HandshakeFirst
  BY Consequences, Ownership, PTL

\* The client a broadcast has checked is still there, with its mutexes, when
\* the broadcast writes to it (ws_sendframe under the global mutex).
THEOREM CastReachesChecked == CalmSpec => []CastTarget
  BY Consequences, Ownership, PTL

\* When memory does not run out while a slot is set up, every open
\* descriptor has somebody to close it, and none is closed twice.
THEOREM NothingLost ==
    ASSUME "enomem" \notin Faults
    PROVE  CalmSpec => []NoLeak
<1>1. IInv => NoLeak
  <2> SUFFICES ASSUME IInv PROVE NoLeak
    OBVIOUS
  <2>1. \A c \in Conns : fd[c] = "open" => cur = c \/ Serving(c)
    BY DEF IInv, NoneLost
  <2>2. ASSUME NEW t \in Threads, pc[t] = "close_sock" PROVE fd[sock[slot[t]]] = "open"
    <3>1. CASE t = Http
      BY <3>1, <2>2 DEF IInv, HttpOwns
    <3>2. CASE t \in Conns
      BY <3>2, <2>2 DEF IInv, ConnOwns, Serving
    <3>3. QED
      BY <3>1, <3>2 DEF Threads
  <2>3. QED
    BY <2>1, <2>2 DEF NoLeak
<1>2. QED
  BY <1>1, Ownership, PTL

-----------------------------------------------------------------------------
(* The pool implements the table of connections.                            *)

\* A step that keeps the table and the closed descriptors keeps the mapping.
LEMMA Unmoved == UNCHANGED <<sock, fd>> => UNCHANGED <<sock, Over>>
  BY DEF Over

LEMMA EnterStep ==
    ASSUME IInv, Claim
    PROVE  Table!TableNext
<1>1. /\ pc[Http] = "claim" /\ cur \in Conns /\ fd[cur] = "open"
      /\ slot[Http] \in Slots /\ sock[slot[Http]] = None
      /\ \A s \in Slots : sock[s] # cur
  BY DEF IInv, HttpOwns, Claim, Goto
<1>2. sock' = [sock EXCEPT ![slot[Http]] = cur] /\ fd' = fd
  BY DEF Claim, netVars
<1>3. Over' = Over
  BY <1>1, <1>2, Assumptions DEF Over, IInv, TypeOK
<1>4. Table!Enter(cur, slot[Http])
  BY <1>1, <1>2, <1>3 DEF Table!Enter, Table!InTable, Over
<1>5. QED
  BY <1>1, <1>4 DEF Table!TableNext

LEMMA PassStep ==
    ASSUME IInv, ServePage
    PROVE  Table!TableNext
<1>1. cur \in Conns /\ \A s \in Slots : sock[s] # cur
  BY DEF IInv, HttpOwns, ServePage, Goto
<1>2. sock' = sock /\ fd' = [fd EXCEPT ![cur] = "closed"]
  BY DEF ServePage, slotVars
<1>3. Over' = Over \union {cur}
  BY <1>1, <1>2 DEF Over, IInv, TypeOK
<1>4. Table!Pass(cur)
  BY <1>1, <1>2, <1>3 DEF Table!Pass, Table!InTable
<1>5. QED
  BY <1>1, <1>4 DEF Table!TableNext

\* The owner of a slot is in no other one.
LEMMA Closer ==
    ASSUME IInv, NEW t \in Threads, pc[t] \in {"close_sock", "close_clear"}
    PROVE  /\ slot[t] \in Slots /\ sock[slot[t]] \in Conns
           /\ pc[t] = "close_clear" => fd[sock[slot[t]]] = "closed"
<1>1. CASE t = Http
  BY <1>1 DEF IInv, HttpOwns
<1>2. CASE t \in Conns
  BY <1>2 DEF IInv, ConnOwns, Serving
<1>3. QED
  BY <1>1, <1>2 DEF Threads

LEMMA CloseSockStep ==
    ASSUME IInv, NEW t \in Threads, CloseSock(t)
    PROVE  UNCHANGED <<sock, Over>>
<1>1. slot[t] \in Slots /\ sock[slot[t]] \in Conns /\ sock[slot[t]] # None
  BY Closer, Assumptions DEF CloseSock, Goto
<1>2. sock' = sock /\ fd' = [fd EXCEPT ![sock[slot[t]]] = "closed"]
  BY <1>1 DEF CloseSock, slotVars
<1>3. QED
  BY <1>1, <1>2 DEF Over, IInv, TypeOK

LEMMA LeaveStep ==
    ASSUME IInv, NEW t \in Threads, CloseClear(t)
    PROVE  Table!TableNext
<1> DEFINE s == slot[t]
<1>1. s \in Slots /\ sock[s] \in Conns /\ sock[s] # None /\ fd[sock[s]] = "closed"
  BY Closer, Assumptions DEF CloseClear, Goto
<1>2. \A r \in Slots : sock[r] = sock[s] => r = s
  BY <1>1 DEF IInv, SlotOwned
<1>3. sock' = [sock EXCEPT ![s] = None] /\ fd' = fd
  BY DEF CloseClear, netVars
<1>4. Over' = Over \union {sock[s]}
  BY <1>1, <1>2, <1>3, Assumptions DEF Over, IInv, TypeOK
<1>5. Table!Leave(s)
  BY <1>1, <1>3, <1>4 DEF Table!Leave
<1>6. QED
  BY <1>1, <1>5 DEF Table!TableNext

LEMMA OtherStep ==
    ASSUME IInv, [CalmNext]_vars,
           ~Claim, ~ServePage, \A t \in Threads : ~CloseSock(t) /\ ~CloseClear(t)
    PROVE  UNCHANGED <<sock, Over>>
<1> USE DEF slotVars, thrVars, httpVars, netVars, castVars
<1>1. ASSUME NEW c \in Conns, ConnStep(c) PROVE UNCHANGED <<sock, fd>>
  BY <1>1 DEF ConnStep, Dispatch, Start, Open, SendLock, Send, Read, RecvFrame, RecvError, DoLogin, NoMemory, Refuse,
     DoLogout, DoSecure, DoPing, DoBroadcast, DoClose, CastLock, CastCheck, CastSend, CastUnlock, OnClose, Last,
     CloseBegin, Threads
<1>2. ~Evict /\ ~TooMany
  BY DEF IInv, Room, Evict, TooMany, Free, Goto
<1>3. ASSUME NEW c \in Conns, Accept(c) PROVE UNCHANGED <<sock, Over>>
  <2>1. fd[c] = "none" /\ fd' = [fd EXCEPT ![c] = "open"] /\ sock' = sock
    BY <1>3 DEF Accept
  <2>2. QED
    BY <2>1 DEF Over, IInv, TypeOK
<1>4. ASSUME HttpStep, \A c \in Conns : ~Accept(c) PROVE UNCHANGED <<sock, fd>>
  BY <1>2, <1>4 DEF HttpStep, WsAccept, AcceptFails, Upgrade, FindFree, Setup, SetupFails, Handshake,
     HandshakeFails, Create, CreateFails, CloseBegin, Threads
<1>5. ASSUME Leaving \/ Sending \/ CalmAsking PROVE UNCHANGED <<sock, fd>>
  BY <1>5 DEF Leaving, Sending, CalmAsking, Asking, PeerEnd, PeerMsg, PeerRequest
<1>6. UNCHANGED vars => UNCHANGED <<sock, fd>>
  BY DEF vars
<1>7. QED
  BY <1>1, <1>3, <1>4, <1>5, <1>6, Unmoved DEF CalmNext

\* While nobody is evicted the pool is a table of connections: each enters a
\* free slot once, keeps it, and is over for good when it leaves.
THEOREM TableImplemented == CalmSpec => ImplementsTable
<1>1. Init => Table!TableInit
  BY DEF Init, Table!TableInit, Over
<1>2. IInv /\ [CalmNext]_vars => [Table!TableNext]_<<sock, Over>>
  <2> SUFFICES ASSUME IInv, [CalmNext]_vars PROVE [Table!TableNext]_<<sock, Over>>
    OBVIOUS
  <2>1. CASE Claim
    BY <2>1, EnterStep
  <2>2. CASE ServePage
    BY <2>2, PassStep
  <2>3. CASE \E t \in Threads : CloseSock(t)
    BY <2>3, CloseSockStep
  <2>4. CASE \E t \in Threads : CloseClear(t)
    BY <2>4, LeaveStep
  <2>5. QED
    BY <2>1, <2>2, <2>3, <2>4, OtherStep
<1>3. QED
  BY <1>1, <1>2, Ownership, PTL DEF CalmSpec, ImplementsTable, Table!TableSpec

-----------------------------------------------------------------------------
(* What a broadcast leaves out, while nobody is evicted.                    *)

\* A slot is OPEN only after its thread has opened it.
Opening == \A c \in Conns : pc[c] \in {"start", "open"} => state[slot[c]] # "OPEN"

\* What a broadcast still owes: slots whose thread is past the opening, and
\* of those it has passed, none that is open.
DueServed ==
    /\ mutex = None => due = {}
    /\ \A s \in due :
           /\ sock[s] \in Conns /\ Serving(sock[s]) /\ slot[sock[s]] = s
           /\ pc[sock[s]] \notin {"start", "open"}
           /\ s < bi => ~Opened(s)

\* The loop ends behind the last slot or at the client a write to which failed.
CastEnds ==
    \A c \in Conns : pc[c] = "bc_unlock" =>
        bi > MaxClients \/ (bi \in Slots /\ broke = bi)

CastInv == Opening /\ DueServed /\ CastEnds

\* A step of a connection thread keeps what the broadcast relies on.
LEMMA ConnCast ==
    ASSUME IInv, CastInv, NEW c \in Conns, ConnStep(c)
    PROVE  CastInv'
<1> USE Assumptions DEF IInv, TypeOK, ConnOwns, SlotOwned, CastOwned, CastInv, Opening, DueServed, CastEnds, Opened,
        Goto, Threads, Slots, Serving, ConnPc, slotVars, thrVars, httpVars, netVars, castVars
<1>1. ASSUME Start(c) PROVE CastInv'
  <2> USE <1>1 DEF Start
  <2>1. Opening'
    OBVIOUS
  <2>2. DueServed'
    OBVIOUS
  <2>3. CastEnds'
    OBVIOUS
  <2>4. QED
    BY <2>1, <2>2, <2>3
<1>2. ASSUME Open(c) PROVE CastInv'
  <2>0. OpenEffect(c)
    BY ONLY IInv, c \in Conns, <1>2, OpenHas
  <2> USE <1>2, <2>0 DEF OpenEffect, Moves, Open
  <2>a. \A d \in Conns : Serving(d) /\ slot[d] = slot[c] => d = c
    <3>1. Serving(c)
      BY ONLY <1>2 DEF Open, Goto, Serving
    <3>2. QED
      BY ONLY IInv, c \in Conns, <3>1, Running
  <2> USE <2>a
  <2>1. Opening'
    <3> SUFFICES ASSUME NEW d \in Conns, pc'[d] \in {"start", "open"} PROVE state'[slot'[d]] # "OPEN"
      BY DEF Opening
    <3>1. d # c /\ pc[d] \in {"start", "open"} /\ slot' = slot
      OBVIOUS
    <3>2. slot[d] # slot[c] /\ slot[d] \in Slots /\ state[slot[d]] # "OPEN"
      OBVIOUS
    <3>3. QED
      BY ONLY <3>1, <3>2, <2>0, TypeOK DEF TypeOK, OpenEffect
  <2>2. DueServed'
    OBVIOUS
  <2>3. CastEnds'
    OBVIOUS
  <2>4. QED
    BY <2>1, <2>2, <2>3
<1>3. ASSUME SendLock(c) PROVE CastInv'
  <2>0. SendLockEffect(c)
    BY ONLY IInv, c \in Conns, <1>3, SendLockHas
  <2> USE <1>3, <2>0 DEF SendLockEffect, Moves
  <2>1. Opening'
    OBVIOUS
  <2>2. DueServed'
    OBVIOUS
  <2>3. CastEnds'
    OBVIOUS
  <2>4. QED
    BY <2>1, <2>2, <2>3
<1>4. ASSUME Send(c) PROVE CastInv'
  <2>0. SendEffect(c)
    BY ONLY IInv, c \in Conns, <1>4, SendHas
  <2> USE <1>4, <2>0 DEF SendEffect, Moves
  <2>1. Opening'
    OBVIOUS
  <2>2. DueServed'
    OBVIOUS
  <2>3. CastEnds'
    OBVIOUS
  <2>4. QED
    BY <2>1, <2>2, <2>3
<1>5. ASSUME Read(c) PROVE CastInv'
  <2> USE <1>5 DEF Read
  <2>1. Opening'
    OBVIOUS
  <2>2. DueServed'
    OBVIOUS
  <2>3. CastEnds'
    OBVIOUS
  <2>4. QED
    BY <2>1, <2>2, <2>3
<1>6. ASSUME RecvFrame(c) PROVE CastInv'
  <2> USE <1>6 DEF RecvFrame
  <2>1. Opening'
    OBVIOUS
  <2>2. DueServed'
    OBVIOUS
  <2>3. CastEnds'
    OBVIOUS
  <2>4. QED
    BY <2>1, <2>2, <2>3
<1>7. ASSUME RecvError(c) PROVE CastInv'
  <2> USE <1>7 DEF RecvError
  <2>1. Opening'
    OBVIOUS
  <2>2. DueServed'
    OBVIOUS
  <2>3. CastEnds'
    OBVIOUS
  <2>4. QED
    BY <2>1, <2>2, <2>3
<1>9. ASSUME Refuse(c) PROVE CastInv'
  <2> USE <1>9 DEF Refuse, Reply
  <2>1. Opening'
    OBVIOUS
  <2>2. DueServed'
    OBVIOUS
  <2>3. CastEnds'
    OBVIOUS
  <2>4. QED
    BY <2>1, <2>2, <2>3
<1>10. ASSUME DoLogout(c) PROVE CastInv'
  <2> USE <1>10 DEF DoLogout
  <2>1. Opening'
    OBVIOUS
  <2>2. DueServed'
    OBVIOUS
  <2>3. CastEnds'
    OBVIOUS
  <2>4. QED
    BY <2>1, <2>2, <2>3
<1>11. ASSUME DoSecure(c) PROVE CastInv'
  <2> USE <1>11 DEF DoSecure, Reply
  <2>1. Opening'
    OBVIOUS
  <2>2. DueServed'
    OBVIOUS
  <2>3. CastEnds'
    OBVIOUS
  <2>4. QED
    BY <2>1, <2>2, <2>3
<1>12. ASSUME DoPing(c) PROVE CastInv'
  <2> USE <1>12 DEF DoPing, Reply
  <2>1. Opening'
    OBVIOUS
  <2>2. DueServed'
    OBVIOUS
  <2>3. CastEnds'
    OBVIOUS
  <2>4. QED
    BY <2>1, <2>2, <2>3
<1>13. ASSUME DoBroadcast(c) PROVE CastInv'
  <2> USE <1>13 DEF DoBroadcast
  <2>1. Opening'
    OBVIOUS
  <2>2. DueServed'
    OBVIOUS
  <2>3. CastEnds'
    OBVIOUS
  <2>4. QED
    BY <2>1, <2>2, <2>3
<1>14. ASSUME DoClose(c) PROVE CastInv'
  <2>0. DoCloseEffect(c)
    BY ONLY IInv, c \in Conns, <1>14, DoCloseHas
  <2> USE <1>14, <2>0 DEF DoCloseEffect, Moves
  <2>1. Opening'
    OBVIOUS
  <2>2. DueServed'
    OBVIOUS
  <2>3. CastEnds'
    OBVIOUS
  <2>4. QED
    BY <2>1, <2>2, <2>3
<1>15. ASSUME CastLock(c) PROVE CastInv'
  <2> USE <1>15 DEF CastLock, Opened
  <2>1. Opening'
    OBVIOUS
  <2>2. DueServed'
    OBVIOUS
  <2>3. CastEnds'
    OBVIOUS
  <2>4. QED
    BY <2>1, <2>2, <2>3
<1>16. ASSUME CastCheck(c) PROVE CastInv'
  <2> USE <1>16 DEF CastCheck, Opened
  <2>1. Opening'
    OBVIOUS
  <2>2. DueServed'
    OBVIOUS
  <2>3. CastEnds'
    OBVIOUS
  <2>4. QED
    BY <2>1, <2>2, <2>3
<1>17. ASSUME CastSend(c) PROVE CastInv'
  <2> USE <1>17 DEF CastSend, Release, CanSend, CanFail, Written
  <2>a. (bi' = bi + 1 /\ due' = due \ {bi} /\ pc' = [pc EXCEPT ![c] = "bc_check"]) \/ (bi' = bi /\ due' = due)
    BY ONLY <1>17 DEF CastSend, Goto
  <2>b. bi \in Nat /\ (\A s \in Slots : s \in Nat) /\ due \subseteq Slots
    OBVIOUS
  <2>c. \A s \in due' : s \in due /\ (s < bi' => s < bi)
    <3>1. CASE bi' = bi /\ due' = due
      BY ONLY <3>1
    <3>2. CASE bi' = bi + 1 /\ due' = due \ {bi}
      <4>1. \A s \in due' : s \in due /\ s \in Nat /\ s # bi
        BY ONLY <3>2, <2>b
      <4>2. QED
        BY ONLY <3>2, <2>b, <4>1
    <3>3. QED
      BY ONLY <2>a, <3>1, <3>2
  <2>d. UNCHANGED <<sock, state, slot>> /\ mutex' # None
    OBVIOUS
  <2>e. \A d \in Conns : Serving(d) => Serving(d)' /\ (pc[d] \notin {"start", "open"} => pc'[d] \notin {"start", "open"})
    OBVIOUS
  <2>1. Opening'
    OBVIOUS
  <2>2. DueServed'
    <3>1. ASSUME NEW s \in Slots, s \in due'
          PROVE  /\ sock'[s] \in Conns /\ Serving(sock[s])' /\ slot'[sock'[s]] = s
                 /\ pc'[sock'[s]] \notin {"start", "open"}
                 /\ s < bi' => ~Opened(s)'
      <4>1. s \in due /\ (s < bi' => s < bi)
        BY ONLY <3>1, <2>c
      <4>2. /\ sock[s] \in Conns /\ Serving(sock[s]) /\ slot[sock[s]] = s
            /\ pc[sock[s]] \notin {"start", "open"}
            /\ s < bi => ~Opened(s)
        BY ONLY CastInv, <4>1 DEF CastInv, DueServed
      <4>3. sock'[s] = sock[s] /\ slot'[sock[s]] = slot[sock[s]] /\ (Opened(s)' <=> Opened(s))
        BY ONLY <2>d DEF Opened
      <4>4. pc'[sock[s]] \notin {"none", "done"} /\ pc'[sock[s]] \notin {"start", "open"}
        BY ONLY <4>2, <2>e DEF Serving
      <4>5. QED
        BY ONLY <4>1, <4>2, <4>3, <4>4 DEF Serving
    <3>2. \A s \in due' : s \in Slots
      BY ONLY <2>b, <2>c
    <3>3. QED
      BY ONLY <3>1, <3>2, <2>d DEF DueServed
  <2>3. CastEnds'
    OBVIOUS
  <2>4. QED
    BY <2>1, <2>2, <2>3
<1>18. ASSUME CastUnlock(c) PROVE CastInv'
  <2>0. CastUnlockEffect(c)
    BY ONLY <1>18, CastUnlockHas
  <2> USE <2>0 DEF CastUnlockEffect, Moves
  <2>1. Opening'
    OBVIOUS
  <2>2. DueServed'
    OBVIOUS
  <2>3. CastEnds'
    OBVIOUS
  <2>4. QED
    BY <2>1, <2>2, <2>3
<1>19. ASSUME OnClose(c) PROVE CastInv'
  <2> USE <1>19 DEF OnClose
  <2>1. Opening'
    OBVIOUS
  <2>2. DueServed'
    OBVIOUS
  <2>3. CastEnds'
    OBVIOUS
  <2>4. QED
    BY <2>1, <2>2, <2>3
<1>20. ASSUME Last(c) PROVE CastInv'
  <2> USE <1>20 DEF Last
  <2>1. Opening'
    OBVIOUS
  <2>2. DueServed'
    OBVIOUS
  <2>3. CastEnds'
    OBVIOUS
  <2>4. QED
    BY <2>1, <2>2, <2>3
<1>21. ASSUME CloseBegin(c) PROVE CastInv'
  <2>0. CloseBeginEffect(c)
    BY ONLY IInv, c \in Conns, <1>21, CloseBeginHas
  <2> USE <1>21, <2>0 DEF CloseBeginEffect, Moves
  <2>1. Opening'
    OBVIOUS
  <2>2. DueServed'
    OBVIOUS
  <2>3. CastEnds'
    OBVIOUS
  <2>4. QED
    BY <2>1, <2>2, <2>3
<1>22. ASSUME CloseSock(c) PROVE CastInv'
  <2>0. CloseSockEffect(c)
    BY ONLY IInv, c \in Conns, <1>22, CloseSockHas
  <2> USE <1>22, <2>0 DEF CloseSockEffect, Moves
  <2>1. Opening'
    OBVIOUS
  <2>2. DueServed'
    OBVIOUS
  <2>3. CastEnds'
    OBVIOUS
  <2>4. QED
    BY <2>1, <2>2, <2>3
<1>23. ASSUME CloseClear(c) PROVE CastInv'
  <2>0. CloseClearEffect(c)
    BY ONLY IInv, c \in Conns, <1>23, CloseClearHas
  <2> USE <1>23, <2>0 DEF CloseClearEffect, Moves, CloseClear
  <2>a. mutex = None /\ due = {} /\ due' = {} /\ \A d \in Conns : pc[d] # "bc_unlock"
    <3>1. mutex = None /\ due' = due
      BY ONLY <1>23, c \in Conns, Assumptions DEF CloseClear, Unlocked, castVars
    <3>2. QED
      BY ONLY IInv, CastInv, <3>1, Assumptions DEF IInv, CastOwned, CastInv, DueServed
  <2> USE <2>a
  <2>1. Opening'
    OBVIOUS
  <2>2. DueServed'
    OBVIOUS
  <2>3. CastEnds'
    OBVIOUS
  <2>4. QED
    BY <2>1, <2>2, <2>3
<1>24. ASSUME NoMemory(c) PROVE CastInv'
  <2>0. NoMemoryEffect(c)
    BY ONLY <1>24, NoMemoryHas
  <2> USE <2>0 DEF NoMemoryEffect, Moves
  <2>1. Opening'
    OBVIOUS
  <2>2. DueServed'
    OBVIOUS
  <2>3. CastEnds'
    OBVIOUS
  <2>4. QED
    BY <2>1, <2>2, <2>3
<1>25. ASSUME LoginRight(c) PROVE CastInv'
  <2> USE <1>25 DEF LoginRight, LoginAnswered, Reply
  <2>1. Opening'
    OBVIOUS
  <2>2. DueServed'
    OBVIOUS
  <2>3. CastEnds'
    OBVIOUS
  <2>4. QED
    BY <2>1, <2>2, <2>3
<1>26. ASSUME LoginWrong(c) PROVE CastInv'
  <2> USE <1>26 DEF LoginWrong, LoginAnswered, Reply
  <2>1. Opening'
    OBVIOUS
  <2>2. DueServed'
    OBVIOUS
  <2>3. CastEnds'
    OBVIOUS
  <2>4. QED
    BY <2>1, <2>2, <2>3
<1>27. QED
  BY ONLY ConnStep(c), <1>1, <1>2, <1>3, <1>4, <1>5, <1>6, <1>7, <1>9, <1>10, <1>11, <1>12, <1>13, <1>14, <1>15, <1>16, <1>17, <1>18, <1>19, <1>20, <1>21, <1>22, <1>23, <1>24, <1>25, <1>26, DoLoginHas DEF ConnStep, Dispatch

\* So does a step of the http thread.
LEMMA HttpCast ==
    ASSUME IInv, CastInv, HttpStep
    PROVE  CastInv'
<1> USE Assumptions DEF IInv, TypeOK, HttpOwns, Room, ConnOwns, SlotOwned, CastOwned, CastInv, Opening, DueServed, CastEnds, Opened,
        Goto, Threads, Slots, Serving, HttpPc, slotVars, thrVars, httpVars, netVars, castVars
<1>1. ASSUME NEW c \in Conns, Accept(c) PROVE CastInv'
  <2> USE <1>1 DEF Accept
  <2>1. Opening'
    OBVIOUS
  <2>2. DueServed'
    OBVIOUS
  <2>3. CastEnds'
    OBVIOUS
  <2>4. QED
    BY <2>1, <2>2, <2>3
<1>2. ASSUME AcceptFails PROVE CastInv'
  <2> USE <1>2 DEF AcceptFails
  <2>1. Opening'
    OBVIOUS
  <2>2. DueServed'
    OBVIOUS
  <2>3. CastEnds'
    OBVIOUS
  <2>4. QED
    BY <2>1, <2>2, <2>3
<1>3. ASSUME ServePage PROVE CastInv'
  <2> USE <1>3 DEF ServePage
  <2>1. Opening'
    OBVIOUS
  <2>2. DueServed'
    OBVIOUS
  <2>3. CastEnds'
    OBVIOUS
  <2>4. QED
    BY <2>1, <2>2, <2>3
<1>4. ASSUME Upgrade PROVE CastInv'
  <2> USE <1>4 DEF Upgrade
  <2>1. Opening'
    OBVIOUS
  <2>2. DueServed'
    OBVIOUS
  <2>3. CastEnds'
    OBVIOUS
  <2>4. QED
    BY <2>1, <2>2, <2>3
<1>5. ASSUME FindFree PROVE CastInv'
  <2> USE <1>5 DEF FindFree, Free
  <2>1. Opening'
    OBVIOUS
  <2>2. DueServed'
    OBVIOUS
  <2>3. CastEnds'
    OBVIOUS
  <2>4. QED
    BY <2>1, <2>2, <2>3
<1>6. ASSUME Claim PROVE CastInv'
  <2> USE <1>6 DEF Claim
  <2>1. Opening'
    OBVIOUS
  <2>2. DueServed'
    OBVIOUS
  <2>3. CastEnds'
    OBVIOUS
  <2>4. QED
    BY <2>1, <2>2, <2>3
<1>7. ASSUME Setup PROVE CastInv'
  <2> USE <1>7 DEF Setup
  <2>1. Opening'
    OBVIOUS
  <2>2. DueServed'
    OBVIOUS
  <2>3. CastEnds'
    OBVIOUS
  <2>4. QED
    BY <2>1, <2>2, <2>3
<1>8. ASSUME SetupFails PROVE CastInv'
  <2> USE <1>8 DEF SetupFails
  <2>1. Opening'
    OBVIOUS
  <2>2. DueServed'
    OBVIOUS
  <2>3. CastEnds'
    OBVIOUS
  <2>4. QED
    BY <2>1, <2>2, <2>3
<1>9. ASSUME Handshake PROVE CastInv'
  <2> USE <1>9 DEF Handshake, CanSend, Written
  <2>1. Opening'
    OBVIOUS
  <2>2. DueServed'
    OBVIOUS
  <2>3. CastEnds'
    OBVIOUS
  <2>4. QED
    BY <2>1, <2>2, <2>3
<1>10. ASSUME HandshakeFails PROVE CastInv'
  <2> USE <1>10 DEF HandshakeFails, CanFail
  <2>1. Opening'
    OBVIOUS
  <2>2. DueServed'
    OBVIOUS
  <2>3. CastEnds'
    OBVIOUS
  <2>4. QED
    BY <2>1, <2>2, <2>3
<1>11. ASSUME Create PROVE CastInv'
  <2> USE <1>11 DEF Create
  <2>1. Opening'
    OBVIOUS
  <2>2. DueServed'
    OBVIOUS
  <2>3. CastEnds'
    OBVIOUS
  <2>4. QED
    BY <2>1, <2>2, <2>3
<1>12. ASSUME CreateFails PROVE CastInv'
  <2> USE <1>12 DEF CreateFails
  <2>1. Opening'
    OBVIOUS
  <2>2. DueServed'
    OBVIOUS
  <2>3. CastEnds'
    OBVIOUS
  <2>4. QED
    BY <2>1, <2>2, <2>3
<1>13. ASSUME CloseBegin(Http) PROVE CastInv'
  <2> USE <1>13 DEF CloseBegin, AfterClose, DropCur, Unlocked
  <2>a. /\ slot[Http] \in Slots /\ sock[slot[Http]] = cur /\ pc[cur] = "none"
        /\ state' = [state EXCEPT ![slot[Http]] = "CLOSED"] /\ pc' = [pc EXCEPT ![Http] = "close_sock"]
    <3>1. slot[Http] \in Slots /\ sock[slot[Http]] = cur /\ cur \in Conns /\ pc[cur] = "none"
      BY ONLY IInv, <1>13 DEF IInv, HttpOwns, CloseBegin, Goto
    <3>2. QED
      BY ONLY <1>13, <3>1, Assumptions DEF CloseBegin, Goto
  <2> USE <2>a
  <2>1. Opening'
    OBVIOUS
  <2>2. DueServed'
    OBVIOUS
  <2>3. CastEnds'
    OBVIOUS
  <2>4. QED
    BY <2>1, <2>2, <2>3
<1>14. ASSUME CloseSock(Http) PROVE CastInv'
  <2> USE <1>14 DEF CloseSock
  <2>1. Opening'
    OBVIOUS
  <2>2. DueServed'
    OBVIOUS
  <2>3. CastEnds'
    OBVIOUS
  <2>4. QED
    BY <2>1, <2>2, <2>3
<1>15. ASSUME CloseClear(Http) PROVE CastInv'
  <2> USE <1>15 DEF CloseClear, AfterClose, DropCur, Unlocked
  <2>1. Opening'
    OBVIOUS
  <2>2. DueServed'
    OBVIOUS
  <2>3. CastEnds'
    OBVIOUS
  <2>4. QED
    BY <2>1, <2>2, <2>3
<1>16. ~Evict /\ ~TooMany
  BY DEF Evict, TooMany, Free
<1>17. QED
  BY ONLY HttpStep, <1>1, <1>2, <1>3, <1>4, <1>5, <1>6, <1>7, <1>8, <1>9, <1>10, <1>11, <1>12, <1>13, <1>14, <1>15, <1>16 DEF HttpStep, WsAccept

\* What clients do is nothing to a broadcast.
LEMMA PeerCast ==
    ASSUME IInv, CastInv, Leaving \/ Sending \/ CalmAsking
    PROVE  CastInv'
  BY DEF CastInv, Opening, DueServed, CastEnds, Opened, Serving, slotVars, thrVars, httpVars, netVars, castVars,
     Leaving, PeerEnd, Sending, PeerMsg, CalmAsking, Asking, PeerRequest

LEMMA CastInductive == IInv /\ CastInv /\ [CalmNext]_vars => CastInv'
<1>1. CastInv /\ UNCHANGED vars => CastInv'
  BY DEF CastInv, Opening, DueServed, CastEnds, Opened, Serving, vars, slotVars, thrVars, netVars, castVars
<1>2. QED
  BY <1>1, ConnCast, HttpCast, PeerCast DEF CalmNext

\* A broadcast that has taken the mutex leaves out an open client only when
\* the send to it or to a client of a lower slot failed, for whatever reason:
\* the break of ws_sendframe is the only way past one, and no client opens
\* behind the index while the mutex is held.
THEOREM MissedAfterFailure == CalmSpec => []MissedOnlyAfterFailure
<1>1. Init => CastInv
  BY Assumptions DEF Init, CastInv, Opening, DueServed, CastEnds, Threads
<1>2. IInv /\ CastInv => MissedOnlyAfterFailure
  <2> SUFFICES ASSUME IInv, CastInv, NEW c \in Conns, NEW s \in due, pc[c] = "bc_unlock", Opened(s)
               PROVE  broke # None /\ broke <= s
    BY DEF MissedOnlyAfterFailure
  <2>1. s \in Slots /\ s \in Nat /\ s <= MaxClients /\ bi \in Nat /\ MaxClients \in Nat
    BY Assumptions DEF IInv, TypeOK, Slots
  <2>2. ~(s < bi)
    BY DEF CastInv, DueServed
  <2>3. bi \in Slots /\ broke = bi
    BY <2>1, <2>2 DEF CastInv, CastEnds
  <2>4. QED
    BY <2>1, <2>2, <2>3, Assumptions
<1>3. QED
  BY <1>1, <1>2, CastInductive, Ownership, PTL DEF CalmSpec

-----------------------------------------------------------------------------
(* The pool when clients are evicted too.                                   *)

\* Where the http thread has the slot it works for.
HttpSlot == {"claim", "setup", "handshake", "create", "close_begin", "close_sock", "close_clear"}

\* Inside the loop of a broadcast.
Casting == {"bc_check", "bc_send", "bc_unlock"}

\* The http thread holds an accepted connection without a thread; the slot it
\* works for may be shared with the thread of an evicted client.
HttpPlace ==
    /\ pc[Http] \in HttpPc
    /\ pc[Http] \notin {"accept", "exited"} => cur \in Conns /\ fd[cur] # "none" /\ pc[cur] = "none"
    /\ pc[Http] \in HttpSlot => slot[Http] \in Slots

ConnPlace ==
    \A c \in Conns :
        /\ pc[c] \in ConnPc
        /\ fd[c] = "none" => pc[c] = "none"
        /\ pc[c] # "none" => slot[c] \in Slots
        /\ pc[c] = "dispatch" => rd[c] \in Conns
        /\ pc[c] \in {"send_lock", "send", "bc_lock", "bc_check", "bc_send", "bc_unlock"} => buf[c] \in Frames
        /\ pc[c] \in Casting <=> mutex = c
        /\ pc[c] = "bc_send" => bi \in Slots

Places == HttpPlace /\ ConnPlace

\* No thread reads from a connection whose request is still being answered:
\* its descriptor enters the table at the claim.
Evicting == pc[Http] \in {"close_begin", "close_sock", "close_clear"} /\ ~failed
Unseen ==
    /\ \A s \in Slots : sock[s] # None => fd[sock[s]] # "none"
    /\ \A c \in Conns : rd[c] # None => fd[rd[c]] # "none"
    /\ pc[Http] \in {"recv", "search", "claim"} \/ Evicting =>
           (\A s \in Slots : sock[s] # cur) /\ (\A c \in Conns : rd[c] # cur)
    /\ \A c \in Conns : wire[c] \in {"page", "ws"} => pc[Http] = "recv" /\ cur = c

\* The numbers of the slots: none is given twice, and a descriptor in the
\* table has its own unless ws_accept is just about to give it one.
Ages ==
    /\ \A s \in Slots : seq[s] <= conn_seq
    /\ \A r, s \in Slots : seq[r] = seq[s] /\ seq[s] # 0 => r = s
    /\ \A s \in Slots : sock[s] # None => seq[s] # 0 \/ (pc[Http] = "setup" /\ slot[Http] = s)

EInv == TypeOK /\ Places /\ Unseen /\ Ages /\ EvictsOldest

\* A thread that goes to one of a few places stays on the map.
LEMMA MovesTyped ==
    ASSUME TypeOK, NEW t, NEW targets \in SUBSET (HttpPc \union ConnPc), Moves(t, targets)
    PROVE  pc' \in [Threads -> HttpPc \union ConnPc]
  BY DEF TypeOK, Moves

\* A step of a connection thread, that of an evicted client included.
LEMMA ConnPlaces ==
    ASSUME TypeOK, Places, Unseen, NEW c \in Conns, ConnStep(c)
    PROVE  TypeOK' /\ Places' /\ Unseen'
<1> USE Assumptions DEF TypeOK, Places, HttpPlace, ConnPlace, Unseen, Evicting, HttpSlot, Casting, Goto, Threads, Slots, ConnPc, HttpPc, Messages, Frames,
        slotVars, thrVars, httpVars, netVars, castVars
<1>1. ASSUME Start(c) PROVE TypeOK' /\ Places' /\ Unseen'
  <2> USE <1>1 DEF Start
  <2>1. TypeOK'
    OBVIOUS
  <2>2. HttpPlace'
    OBVIOUS
  <2>3. ConnPlace'
    OBVIOUS
  <2>4. Unseen'
    OBVIOUS
  <2>5. QED
    BY <2>1, <2>2, <2>3, <2>4
<1>2. ASSUME Open(c) PROVE TypeOK' /\ Places' /\ Unseen'
  <2> USE <1>2 DEF Open
  <2>1. TypeOK'
    OBVIOUS
  <2>2. HttpPlace'
    OBVIOUS
  <2>3. ConnPlace'
    OBVIOUS
  <2>4. Unseen'
    OBVIOUS
  <2>5. QED
    BY <2>1, <2>2, <2>3, <2>4
<1>3. ASSUME SendLock(c) PROVE TypeOK' /\ Places' /\ Unseen'
  <2> USE <1>3 DEF SendLock, AfterSend
  <2>1. TypeOK'
    <3>1. Moves(c, {"send", "read", "onclose"})
      BY ONLY <1>3 DEF SendLock, Moves, Goto, AfterSend
    <3>2. pc' \in [Threads -> HttpPc \union ConnPc]
      BY ONLY TypeOK, <3>1, MovesTyped DEF HttpPc, ConnPc
    <3>3. slot[c] \in Slots
      OBVIOUS
    <3>4. snd' = snd \/ snd' = [snd EXCEPT ![slot[c]] = c]
      BY ONLY <1>3 DEF SendLock
    <3>5. snd' \in [Slots -> Conns \union {None}]
      <4>1. snd \in [Slots -> Conns \union {None}]
        BY ONLY TypeOK DEF TypeOK
      <4>2. CASE snd' = snd
        BY ONLY <4>1, <4>2
      <4>3. CASE snd' # snd
        BY ONLY <4>1, <4>3, <3>4, <3>3, c \in Conns
      <4>4. QED
        BY ONLY <4>2, <4>3
    <3>6. QED
      BY ONLY TypeOK, <1>3, <3>1, <3>2, <3>3, <3>4, <3>5 DEF TypeOK, SendLock, SndTyped, slotVars, thrVars, httpVars, netVars, castVars
  <2>2. HttpPlace'
    OBVIOUS
  <2>3. ConnPlace'
    OBVIOUS
  <2>4. Unseen'
    OBVIOUS
  <2>5. QED
    BY <2>1, <2>2, <2>3, <2>4
<1>4. ASSUME Send(c) PROVE TypeOK' /\ Places' /\ Unseen'
  <2> USE <1>4 DEF Send, AfterSend, Release, CanSend, CanFail, Written
  <2>1. TypeOK'
    <3>1. Moves(c, {"read", "onclose"})
      BY ONLY <1>4 DEF Send, Moves, Goto, AfterSend
    <3>2. pc' \in [Threads -> HttpPc \union ConnPc]
      BY ONLY TypeOK, <3>1, MovesTyped DEF HttpPc, ConnPc
    <3>3. SndTyped
      BY TypeOK, ReleaseTyped
    <3>4. buf[c] \in Frames
      OBVIOUS
    <3>5. sock[slot[c]] # None => sock[slot[c]] \in Conns
      OBVIOUS
    <3>6. got' = got \/ \E f \in Conns : got' = [got EXCEPT ![f] = @ \union {buf[c]}]
      BY ONLY <1>4, <3>5 DEF Send, CanSend, Written
    <3>7. got' \in [Conns -> SUBSET Frames]
      BY ONLY TypeOK, <3>4, <3>6 DEF TypeOK
    <3>8. QED
      BY ONLY TypeOK, <1>4, <3>1, <3>2, <3>3, <3>4, <3>5, <3>6, <3>7 DEF TypeOK, Send, SndTyped, slotVars, thrVars, httpVars, netVars, castVars
  <2>2. HttpPlace'
    OBVIOUS
  <2>3. ConnPlace'
    OBVIOUS
  <2>4. Unseen'
    OBVIOUS
  <2>5. QED
    BY <2>1, <2>2, <2>3, <2>4
<1>5. ASSUME Read(c) PROVE TypeOK' /\ Places' /\ Unseen'
  <2> USE <1>5 DEF Read
  <2>1. TypeOK'
    OBVIOUS
  <2>2. HttpPlace'
    OBVIOUS
  <2>3. ConnPlace'
    OBVIOUS
  <2>4. Unseen'
    OBVIOUS
  <2>5. QED
    BY <2>1, <2>2, <2>3, <2>4
<1>6. ASSUME RecvFrame(c) PROVE TypeOK' /\ Places' /\ Unseen'
  <2> USE <1>6 DEF RecvFrame
  <2>1. TypeOK'
    <3>1. Moves(c, {"onclose", "dispatch"})
      BY ONLY <1>6 DEF RecvFrame, Moves, Goto
    <3>2. pc' \in [Threads -> HttpPc \union ConnPc]
      BY ONLY TypeOK, <3>1, MovesTyped DEF HttpPc, ConnPc
    <3>3. rd[c] \in Conns /\ wire[rd[c]] \in Messages
      <4>1. rd[c] \in Conns /\ wire[rd[c]] # "nothing"
        BY ONLY <1>6, TypeOK, c \in Conns DEF RecvFrame, TypeOK
      <4>2. wire[rd[c]] \notin {"page", "ws"}
        BY ONLY <4>1, Unseen, c \in Conns DEF Unseen
      <4>3. QED
        BY ONLY <4>1, <4>2, TypeOK DEF TypeOK
    <3>4. buf' \in [Conns -> Messages \union Frames \union {"nothing"}]
      OBVIOUS
    <3>5. wire' \in [Conns -> Messages \union {"nothing", "page", "ws"}]
      OBVIOUS
    <3>6. QED
      BY ONLY TypeOK, <1>6, <3>1, <3>2, <3>3, <3>4, <3>5 DEF TypeOK, RecvFrame, SndTyped, slotVars, thrVars, httpVars, netVars, castVars
  <2>2. HttpPlace'
    OBVIOUS
  <2>3. ConnPlace'
    OBVIOUS
  <2>4. Unseen'
    OBVIOUS
  <2>5. QED
    BY <2>1, <2>2, <2>3, <2>4
<1>7. ASSUME RecvError(c) PROVE TypeOK' /\ Places' /\ Unseen'
  <2> USE <1>7 DEF RecvError
  <2>1. TypeOK'
    OBVIOUS
  <2>2. HttpPlace'
    OBVIOUS
  <2>3. ConnPlace'
    OBVIOUS
  <2>4. Unseen'
    OBVIOUS
  <2>5. QED
    BY <2>1, <2>2, <2>3, <2>4
<1>9. ASSUME Refuse(c) PROVE TypeOK' /\ Places' /\ Unseen'
  <2> USE <1>9 DEF Refuse, Reply
  <2>1. TypeOK'
    OBVIOUS
  <2>2. HttpPlace'
    OBVIOUS
  <2>3. ConnPlace'
    OBVIOUS
  <2>4. Unseen'
    OBVIOUS
  <2>5. QED
    BY <2>1, <2>2, <2>3, <2>4
<1>10. ASSUME DoLogout(c) PROVE TypeOK' /\ Places' /\ Unseen'
  <2> USE <1>10 DEF DoLogout
  <2>1. TypeOK'
    OBVIOUS
  <2>2. HttpPlace'
    OBVIOUS
  <2>3. ConnPlace'
    OBVIOUS
  <2>4. Unseen'
    OBVIOUS
  <2>5. QED
    BY <2>1, <2>2, <2>3, <2>4
<1>11. ASSUME DoSecure(c) PROVE TypeOK' /\ Places' /\ Unseen'
  <2> USE <1>11 DEF DoSecure, Reply
  <2>1. TypeOK'
    OBVIOUS
  <2>2. HttpPlace'
    OBVIOUS
  <2>3. ConnPlace'
    OBVIOUS
  <2>4. Unseen'
    OBVIOUS
  <2>5. QED
    BY <2>1, <2>2, <2>3, <2>4
<1>12. ASSUME DoPing(c) PROVE TypeOK' /\ Places' /\ Unseen'
  <2> USE <1>12 DEF DoPing, Reply
  <2>1. TypeOK'
    OBVIOUS
  <2>2. HttpPlace'
    OBVIOUS
  <2>3. ConnPlace'
    OBVIOUS
  <2>4. Unseen'
    OBVIOUS
  <2>5. QED
    BY <2>1, <2>2, <2>3, <2>4
<1>13. ASSUME DoBroadcast(c) PROVE TypeOK' /\ Places' /\ Unseen'
  <2> USE <1>13 DEF DoBroadcast
  <2>1. TypeOK'
    <3>1. pc' \in [Threads -> HttpPc \union ConnPc]
      OBVIOUS
    <3>2. \E m \in Frames : buf' = [buf EXCEPT ![c] = m]
      BY ONLY <1>13 DEF DoBroadcast, Frames
    <3>3. buf' \in [Conns -> Messages \union Frames \union {"nothing"}]
      BY ONLY TypeOK, <3>2 DEF TypeOK
    <3>4. QED
      BY ONLY TypeOK, <1>13, <3>1, <3>2, <3>3 DEF TypeOK, DoBroadcast, SndTyped, slotVars, thrVars, httpVars, netVars, castVars
  <2>2. HttpPlace'
    OBVIOUS
  <2>3. ConnPlace'
    OBVIOUS
  <2>4. Unseen'
    OBVIOUS
  <2>5. QED
    BY <2>1, <2>2, <2>3, <2>4
<1>14. ASSUME DoClose(c) PROVE TypeOK' /\ Places' /\ Unseen'
  <2> USE <1>14 DEF DoClose
  <2>1. TypeOK'
    <3>1. Moves(c, {"onclose", "send_lock"})
      BY ONLY <1>14 DEF DoClose, Moves, Goto
    <3>2. pc' \in [Threads -> HttpPc \union ConnPc]
      BY ONLY TypeOK, <3>1, MovesTyped DEF HttpPc, ConnPc
    <3>3. state' = state \/ state' = [state EXCEPT ![slot[c]] = "CLOSING"]
      BY ONLY <1>14 DEF DoClose
    <3>4. state' \in [Slots -> {"INIT", "CONNECTING", "OPEN", "CLOSING", "CLOSED"}]
      BY ONLY TypeOK, <3>3 DEF TypeOK
    <3>5. QED
      BY ONLY TypeOK, <1>14, <3>1, <3>2, <3>3, <3>4 DEF TypeOK, DoClose, SndTyped, slotVars, thrVars, httpVars, netVars, castVars
  <2>2. HttpPlace'
    OBVIOUS
  <2>3. ConnPlace'
    OBVIOUS
  <2>4. Unseen'
    OBVIOUS
  <2>5. QED
    BY <2>1, <2>2, <2>3, <2>4
<1>15. ASSUME CastLock(c) PROVE TypeOK' /\ Places' /\ Unseen'
  <2> USE <1>15 DEF CastLock, Opened
  <2>1. TypeOK'
    OBVIOUS
  <2>2. HttpPlace'
    OBVIOUS
  <2>3. ConnPlace'
    OBVIOUS
  <2>4. Unseen'
    OBVIOUS
  <2>5. QED
    BY <2>1, <2>2, <2>3, <2>4
<1>16. ASSUME CastCheck(c) PROVE TypeOK' /\ Places' /\ Unseen'
  <2> USE <1>16 DEF CastCheck, Opened
  <2>1. TypeOK'
    <3>1. Moves(c, {"bc_check", "bc_send", "bc_unlock"})
      <4>1. pc' = pc \/ Moves(c, {"bc_send", "bc_unlock"})
        BY ONLY <1>16 DEF CastCheck, Goto, Moves
      <4>2. pc = [pc EXCEPT ![c] = "bc_check"]
        OBVIOUS
      <4>3. QED
        BY ONLY <4>1, <4>2 DEF Moves
    <3>2. pc' \in [Threads -> HttpPc \union ConnPc]
      BY ONLY TypeOK, <3>1, MovesTyped DEF HttpPc, ConnPc
    <3>3. snd' \in [Slots -> Conns \union {None}]
      OBVIOUS
    <3>4. bi' \in 1..(MaxClients + 1)
      OBVIOUS
    <3>5. QED
      BY ONLY TypeOK, <1>16, <3>1, <3>2, <3>3, <3>4 DEF TypeOK, CastCheck, SndTyped, slotVars, thrVars, httpVars, netVars, castVars
  <2>2. HttpPlace'
    OBVIOUS
  <2>3. ConnPlace'
    OBVIOUS
  <2>4. Unseen'
    OBVIOUS
  <2>5. QED
    BY <2>1, <2>2, <2>3, <2>4
<1>17. ASSUME CastSend(c) PROVE TypeOK' /\ Places' /\ Unseen'
  <2> USE <1>17 DEF CastSend, Release, CanSend, CanFail, Written
  <2>1. TypeOK'
    <3>1. Moves(c, {"bc_check", "bc_unlock"})
      BY ONLY <1>17 DEF CastSend, Moves, Goto
    <3>2. pc' \in [Threads -> HttpPc \union ConnPc]
      BY ONLY TypeOK, <3>1, MovesTyped DEF HttpPc, ConnPc
    <3>3. bi \in Slots /\ buf[c] \in Frames /\ (sock[bi] # None => sock[bi] \in Conns)
      OBVIOUS
    <3>4. SndTyped
      BY TypeOK, <3>3, ReleaseTyped
    <3>5. got' = got \/ \E f \in Conns : got' = [got EXCEPT ![f] = @ \union {buf[c]}]
      BY ONLY <1>17, <3>3 DEF CastSend, CanSend, Written
    <3>6. got' \in [Conns -> SUBSET Frames]
      BY ONLY TypeOK, <3>3, <3>5 DEF TypeOK
    <3>7. (bi' = bi /\ due' = due) \/ (bi' = bi + 1 /\ due' = due \ {bi})
      BY ONLY <1>17 DEF CastSend
    <3>8. bi' \in 1..(MaxClients + 1)
      BY ONLY TypeOK, Assumptions, <3>3, <3>7 DEF TypeOK, Slots
    <3>9. due' \in SUBSET Slots
      BY ONLY TypeOK, <3>7 DEF TypeOK
    <3>10. broke' \in Slots \union {None}
      <4>1. broke' = broke \/ broke' = bi
        BY ONLY <1>17 DEF CastSend
      <4>2. QED
        BY ONLY <4>1, <3>3, TypeOK DEF TypeOK
    <3>11. QED
      BY ONLY TypeOK, <1>17, <3>1, <3>2, <3>3, <3>4, <3>5, <3>6, <3>7, <3>8, <3>9, <3>10 DEF TypeOK, CastSend, SndTyped, slotVars, thrVars, httpVars, netVars, castVars
  <2>2. HttpPlace'
    OBVIOUS
  <2>3. ConnPlace'
    OBVIOUS
  <2>4. Unseen'
    OBVIOUS
  <2>5. QED
    BY <2>1, <2>2, <2>3, <2>4
<1>18. ASSUME CastUnlock(c) PROVE TypeOK' /\ Places' /\ Unseen'
  <2>0. CastUnlockEffect(c)
    BY ONLY <1>18, CastUnlockHas
  <2> USE <2>0 DEF CastUnlockEffect, Moves
  <2>1. TypeOK'
    OBVIOUS
  <2>2. HttpPlace'
    OBVIOUS
  <2>3. ConnPlace'
    OBVIOUS
  <2>4. Unseen'
    OBVIOUS
  <2>5. QED
    BY <2>1, <2>2, <2>3, <2>4
<1>19. ASSUME OnClose(c) PROVE TypeOK' /\ Places' /\ Unseen'
  <2> USE <1>19 DEF OnClose
  <2>1. TypeOK'
    OBVIOUS
  <2>2. HttpPlace'
    OBVIOUS
  <2>3. ConnPlace'
    OBVIOUS
  <2>4. Unseen'
    OBVIOUS
  <2>5. QED
    BY <2>1, <2>2, <2>3, <2>4
<1>20. ASSUME Last(c) PROVE TypeOK' /\ Places' /\ Unseen'
  <2> USE <1>20 DEF Last
  <2>1. TypeOK'
    OBVIOUS
  <2>2. HttpPlace'
    OBVIOUS
  <2>3. ConnPlace'
    OBVIOUS
  <2>4. Unseen'
    OBVIOUS
  <2>5. QED
    BY <2>1, <2>2, <2>3, <2>4
<1>21. ASSUME CloseBegin(c) PROVE TypeOK' /\ Places' /\ Unseen'
  <2> USE <1>21 DEF CloseBegin, AfterClose, DropCur, Unlocked
  <2>1. TypeOK'
    <3>1. Moves(c, {"done", "close_sock"})
      BY ONLY <1>21, c \in Conns, Assumptions DEF CloseBegin, AfterClose, Moves, Goto
    <3>2. pc' \in [Threads -> HttpPc \union ConnPc]
      BY ONLY TypeOK, <3>1, MovesTyped DEF HttpPc, ConnPc
    <3>3. state' = state \/ state' = [state EXCEPT ![slot[c]] = "CLOSED"]
      BY ONLY <1>21 DEF CloseBegin
    <3>4. state' \in [Slots -> {"INIT", "CONNECTING", "OPEN", "CLOSING", "CLOSED"}]
      BY ONLY TypeOK, <3>3 DEF TypeOK
    <3>5. cur' \in Conns \union {None}
      OBVIOUS
    <3>6. QED
      BY ONLY TypeOK, <1>21, <3>1, <3>2, <3>3, <3>4, <3>5 DEF TypeOK, CloseBegin, SndTyped, slotVars, thrVars, httpVars, netVars, castVars, DropCur
  <2>2. HttpPlace'
    OBVIOUS
  <2>3. ConnPlace'
    OBVIOUS
  <2>4. Unseen'
    OBVIOUS
  <2>5. QED
    BY <2>1, <2>2, <2>3, <2>4
<1>22. ASSUME CloseSock(c) PROVE TypeOK' /\ Places' /\ Unseen'
  <2> USE <1>22 DEF CloseSock
  <2>1. TypeOK'
    OBVIOUS
  <2>2. HttpPlace'
    OBVIOUS
  <2>3. ConnPlace'
    OBVIOUS
  <2>4. Unseen'
    OBVIOUS
  <2>5. QED
    BY <2>1, <2>2, <2>3, <2>4
<1>23. ASSUME CloseClear(c) PROVE TypeOK' /\ Places' /\ Unseen'
  <2> USE <1>23 DEF CloseClear, AfterClose, DropCur, Unlocked
  <2>1. TypeOK'
    OBVIOUS
  <2>2. HttpPlace'
    OBVIOUS
  <2>3. ConnPlace'
    OBVIOUS
  <2>4. Unseen'
    OBVIOUS
  <2>5. QED
    BY <2>1, <2>2, <2>3, <2>4
<1>24. ASSUME NoMemory(c) PROVE TypeOK' /\ Places' /\ Unseen'
  <2>0. NoMemoryEffect(c)
    BY ONLY <1>24, NoMemoryHas
  <2> USE <2>0 DEF NoMemoryEffect, Moves
  <2>1. TypeOK'
    OBVIOUS
  <2>2. HttpPlace'
    OBVIOUS
  <2>3. ConnPlace'
    OBVIOUS
  <2>4. Unseen'
    OBVIOUS
  <2>5. QED
    BY <2>1, <2>2, <2>3, <2>4
<1>25. ASSUME LoginRight(c) PROVE TypeOK' /\ Places' /\ Unseen'
  <2> USE <1>25 DEF LoginRight, LoginAnswered, Reply
  <2>1. TypeOK'
    OBVIOUS
  <2>2. HttpPlace'
    OBVIOUS
  <2>3. ConnPlace'
    OBVIOUS
  <2>4. Unseen'
    OBVIOUS
  <2>5. QED
    BY <2>1, <2>2, <2>3, <2>4
<1>26. ASSUME LoginWrong(c) PROVE TypeOK' /\ Places' /\ Unseen'
  <2> USE <1>26 DEF LoginWrong, LoginAnswered, Reply
  <2>1. TypeOK'
    OBVIOUS
  <2>2. HttpPlace'
    OBVIOUS
  <2>3. ConnPlace'
    OBVIOUS
  <2>4. Unseen'
    OBVIOUS
  <2>5. QED
    BY <2>1, <2>2, <2>3, <2>4
<1>27. QED
  BY ONLY ConnStep(c), <1>1, <1>2, <1>3, <1>4, <1>5, <1>6, <1>7, <1>9, <1>10, <1>11, <1>12, <1>13, <1>14, <1>15, <1>16, <1>17, <1>18, <1>19, <1>20, <1>21, <1>22, <1>23, <1>24, <1>25, <1>26, DoLoginHas DEF ConnStep, Dispatch

\* A step of the http thread, evictions included.
LEMMA HttpPlaces ==
    ASSUME TypeOK, Places, Unseen, HttpStep
    PROVE  TypeOK' /\ Places' /\ Unseen'
<1> USE Assumptions DEF TypeOK, Places, HttpPlace, ConnPlace, Unseen, Evicting, HttpSlot, Casting, Goto, Threads, Slots, ConnPc, HttpPc, Messages, Frames,
        slotVars, thrVars, httpVars, netVars, castVars
<1>1. ASSUME NEW c \in Conns, Accept(c) PROVE TypeOK' /\ Places' /\ Unseen'
  <2> USE <1>1 DEF Accept
  <2>1. TypeOK'
    OBVIOUS
  <2>2. HttpPlace'
    OBVIOUS
  <2>3. ConnPlace'
    OBVIOUS
  <2>4. Unseen'
    OBVIOUS
  <2>5. QED
    BY <2>1, <2>2, <2>3, <2>4
<1>2. ASSUME AcceptFails PROVE TypeOK' /\ Places' /\ Unseen'
  <2> USE <1>2 DEF AcceptFails
  <2>1. TypeOK'
    OBVIOUS
  <2>2. HttpPlace'
    OBVIOUS
  <2>3. ConnPlace'
    OBVIOUS
  <2>4. Unseen'
    OBVIOUS
  <2>5. QED
    BY <2>1, <2>2, <2>3, <2>4
<1>3. ASSUME ServePage PROVE TypeOK' /\ Places' /\ Unseen'
  <2> USE <1>3 DEF ServePage
  <2>1. TypeOK'
    OBVIOUS
  <2>2. HttpPlace'
    OBVIOUS
  <2>3. ConnPlace'
    OBVIOUS
  <2>4. Unseen'
    OBVIOUS
  <2>5. QED
    BY <2>1, <2>2, <2>3, <2>4
<1>4. ASSUME Upgrade PROVE TypeOK' /\ Places' /\ Unseen'
  <2> USE <1>4 DEF Upgrade
  <2>1. TypeOK'
    OBVIOUS
  <2>2. HttpPlace'
    OBVIOUS
  <2>3. ConnPlace'
    OBVIOUS
  <2>4. Unseen'
    OBVIOUS
  <2>5. QED
    BY <2>1, <2>2, <2>3, <2>4
<1>5. ASSUME FindFree PROVE TypeOK' /\ Places' /\ Unseen'
  <2> USE <1>5 DEF FindFree, Free
  <2>1. TypeOK'
    OBVIOUS
  <2>2. HttpPlace'
    OBVIOUS
  <2>3. ConnPlace'
    OBVIOUS
  <2>4. Unseen'
    OBVIOUS
  <2>5. QED
    BY <2>1, <2>2, <2>3, <2>4
<1>6. ASSUME Evict PROVE TypeOK' /\ Places' /\ Unseen'
  <2> USE <1>6 DEF Evict, Oldest
  <2>1. TypeOK'
    <3>1. pc' \in [Threads -> HttpPc \union ConnPc]
      OBVIOUS
    <3>2. slot' \in [Threads -> Slots \union {None}]
      OBVIOUS
    <3>3. QED
      BY ONLY TypeOK, <1>6, <3>1, <3>2 DEF TypeOK, Evict, SndTyped, slotVars, thrVars, httpVars, netVars, castVars
  <2>2. HttpPlace'
    OBVIOUS
  <2>3. ConnPlace'
    OBVIOUS
  <2>4. Unseen'
    OBVIOUS
  <2>5. QED
    BY <2>1, <2>2, <2>3, <2>4
<1>7. ASSUME TooMany PROVE TypeOK' /\ Places' /\ Unseen'
  <2> USE <1>7 DEF TooMany
  <2>1. TypeOK'
    OBVIOUS
  <2>2. HttpPlace'
    OBVIOUS
  <2>3. ConnPlace'
    OBVIOUS
  <2>4. Unseen'
    OBVIOUS
  <2>5. QED
    BY <2>1, <2>2, <2>3, <2>4
<1>8. ASSUME Claim PROVE TypeOK' /\ Places' /\ Unseen'
  <2> USE <1>8 DEF Claim
  <2>1. TypeOK'
    OBVIOUS
  <2>2. HttpPlace'
    OBVIOUS
  <2>3. ConnPlace'
    OBVIOUS
  <2>4. Unseen'
    OBVIOUS
  <2>5. QED
    BY <2>1, <2>2, <2>3, <2>4
<1>9. ASSUME Setup PROVE TypeOK' /\ Places' /\ Unseen'
  <2> USE <1>9 DEF Setup
  <2>1. TypeOK'
    OBVIOUS
  <2>2. HttpPlace'
    OBVIOUS
  <2>3. ConnPlace'
    OBVIOUS
  <2>4. Unseen'
    OBVIOUS
  <2>5. QED
    BY <2>1, <2>2, <2>3, <2>4
<1>10. ASSUME SetupFails PROVE TypeOK' /\ Places' /\ Unseen'
  <2> USE <1>10 DEF SetupFails
  <2>1. TypeOK'
    OBVIOUS
  <2>2. HttpPlace'
    OBVIOUS
  <2>3. ConnPlace'
    OBVIOUS
  <2>4. Unseen'
    OBVIOUS
  <2>5. QED
    BY <2>1, <2>2, <2>3, <2>4
<1>11. ASSUME Handshake PROVE TypeOK' /\ Places' /\ Unseen'
  <2> USE <1>11 DEF Handshake, CanSend, Written
  <2>1. TypeOK'
    OBVIOUS
  <2>2. HttpPlace'
    OBVIOUS
  <2>3. ConnPlace'
    OBVIOUS
  <2>4. Unseen'
    OBVIOUS
  <2>5. QED
    BY <2>1, <2>2, <2>3, <2>4
<1>12. ASSUME HandshakeFails PROVE TypeOK' /\ Places' /\ Unseen'
  <2> USE <1>12 DEF HandshakeFails, CanFail
  <2>1. TypeOK'
    OBVIOUS
  <2>2. HttpPlace'
    OBVIOUS
  <2>3. ConnPlace'
    OBVIOUS
  <2>4. Unseen'
    OBVIOUS
  <2>5. QED
    BY <2>1, <2>2, <2>3, <2>4
<1>13. ASSUME Create PROVE TypeOK' /\ Places' /\ Unseen'
  <2> USE <1>13 DEF Create
  <2>1. TypeOK'
    OBVIOUS
  <2>2. HttpPlace'
    OBVIOUS
  <2>3. ConnPlace'
    <3>1. /\ cur \in Conns /\ fd[cur] # "none" /\ pc[cur] = "none" /\ slot[Http] \in Slots
          /\ cur # Http /\ pc'[cur] = "start" /\ slot'[cur] = slot[Http]
          /\ UNCHANGED <<fd, rd, buf, mutex, bi>>
      OBVIOUS
    <3>2. \A c \in Conns : c # cur => pc'[c] = pc[c] /\ slot'[c] = slot[c]
      OBVIOUS
    <3>3. ASSUME NEW c \in Conns, c # cur
          PROVE  /\ pc'[c] \in ConnPc
                 /\ fd'[c] = "none" => pc'[c] = "none"
                 /\ pc'[c] # "none" => slot'[c] \in Slots
                 /\ pc'[c] = "dispatch" => rd'[c] \in Conns
                 /\ pc'[c] \in {"send_lock", "send", "bc_lock", "bc_check", "bc_send", "bc_unlock"} => buf'[c] \in Frames
                 /\ pc'[c] \in Casting <=> mutex' = c
                 /\ pc'[c] = "bc_send" => bi' \in Slots
      BY ONLY Places, <3>1, <3>2, <3>3 DEF Places, ConnPlace
    <3>4. pc'[cur] \in ConnPc /\ pc'[cur] \notin Casting /\ mutex # cur
      BY ONLY Places, <3>1 DEF Places, ConnPlace, ConnPc, Casting
    <3>5. QED
      BY ONLY <3>1, <3>3, <3>4 DEF ConnPlace, Casting
  <2>4. Unseen'
    OBVIOUS
  <2>5. QED
    BY <2>1, <2>2, <2>3, <2>4
<1>14. ASSUME CreateFails PROVE TypeOK' /\ Places' /\ Unseen'
  <2> USE <1>14 DEF CreateFails
  <2>1. TypeOK'
    OBVIOUS
  <2>2. HttpPlace'
    OBVIOUS
  <2>3. ConnPlace'
    OBVIOUS
  <2>4. Unseen'
    OBVIOUS
  <2>5. QED
    BY <2>1, <2>2, <2>3, <2>4
<1>15. ASSUME CloseBegin(Http) PROVE TypeOK' /\ Places' /\ Unseen'
  <2> USE <1>15 DEF CloseBegin, AfterClose, DropCur, Unlocked
  <2>1. TypeOK'
    <3>1. Moves(Http, {"accept", "claim", "close_sock"})
      BY ONLY <1>15 DEF CloseBegin, Moves, Goto, AfterClose
    <3>2. pc' \in [Threads -> HttpPc \union ConnPc]
      BY ONLY TypeOK, <3>1, MovesTyped DEF HttpPc, ConnPc
    <3>3. state' = state \/ state' = [state EXCEPT ![slot[Http]] = "CLOSED"]
      BY ONLY <1>15 DEF CloseBegin
    <3>4. state' \in [Slots -> {"INIT", "CONNECTING", "OPEN", "CLOSING", "CLOSED"}]
      BY ONLY TypeOK, <3>3 DEF TypeOK
    <3>5. cur' \in Conns \union {None}
      OBVIOUS
    <3>6. QED
      BY ONLY TypeOK, <1>15, <3>1, <3>2, <3>3, <3>4, <3>5 DEF TypeOK, CloseBegin, SndTyped, slotVars, thrVars, httpVars, netVars, castVars, DropCur
  <2>2. HttpPlace'
    OBVIOUS
  <2>3. ConnPlace'
    OBVIOUS
  <2>4. Unseen'
    OBVIOUS
  <2>5. QED
    BY <2>1, <2>2, <2>3, <2>4
<1>16. ASSUME CloseSock(Http) PROVE TypeOK' /\ Places' /\ Unseen'
  <2> USE <1>16 DEF CloseSock
  <2>1. TypeOK'
    OBVIOUS
  <2>2. HttpPlace'
    OBVIOUS
  <2>3. ConnPlace'
    OBVIOUS
  <2>4. Unseen'
    OBVIOUS
  <2>5. QED
    BY <2>1, <2>2, <2>3, <2>4
<1>17. ASSUME CloseClear(Http) PROVE TypeOK' /\ Places' /\ Unseen'
  <2> USE <1>17 DEF CloseClear, AfterClose, DropCur, Unlocked
  <2>1. TypeOK'
    OBVIOUS
  <2>2. HttpPlace'
    OBVIOUS
  <2>3. ConnPlace'
    OBVIOUS
  <2>4. Unseen'
    OBVIOUS
  <2>5. QED
    BY <2>1, <2>2, <2>3, <2>4
<1>18. QED
  BY ONLY HttpStep, <1>1, <1>2, <1>3, <1>4, <1>5, <1>6, <1>7, <1>8, <1>9, <1>10, <1>11, <1>12, <1>13, <1>14, <1>15, <1>16, <1>17 DEF HttpStep, WsAccept

\* No connection thread touches the numbers, or puts a descriptor into the table.
Quiet ==
    /\ UNCHANGED <<seq, conn_seq, failed>> /\ slot'[Http] = slot[Http] /\ pc'[Http] = pc[Http]
    /\ \A s \in Slots : sock'[s] = sock[s] \/ sock'[s] = None

LEMMA ConnQuiet ==
    ASSUME TypeOK, NEW c \in Conns, ConnStep(c)
    PROVE  Quiet
<1>1. c # Http /\ Http \in Threads
  BY Assumptions DEF Threads
<1>2. UNCHANGED <<seq, conn_seq, failed, slot>>
  BY <1>1 DEF ConnStep, Dispatch, Start, Open, SendLock, Send, Read, RecvFrame, RecvError, DoLogin, NoMemory, Refuse,
     DoLogout, DoSecure, DoPing, DoBroadcast, DoClose, CastLock, CastCheck, CastSend, CastUnlock, OnClose, Last,
     CloseBegin, CloseSock, CloseClear, DropCur, Unlocked, slotVars, thrVars, httpVars
<1>3. pc' = pc \/ \E to : pc' = [pc EXCEPT ![c] = to]
  BY DEF ConnStep, Dispatch, Start, Open, SendLock, Send, Read, RecvFrame, RecvError, DoLogin, NoMemory, Refuse,
     DoLogout, DoSecure, DoPing, DoBroadcast, DoClose, CastLock, CastCheck, CastSend, CastUnlock, OnClose, Last,
     CloseBegin, CloseSock, CloseClear, Reply, Goto
<1>4. sock' = sock \/ sock' = [sock EXCEPT ![slot[c]] = None]
  BY DEF ConnStep, Dispatch, Start, Open, SendLock, Send, Read, RecvFrame, RecvError, DoLogin, NoMemory, Refuse,
     DoLogout, DoSecure, DoPing, DoBroadcast, DoClose, CastLock, CastCheck, CastSend, CastUnlock, OnClose, Last,
     CloseBegin, CloseSock, CloseClear, slotVars
<1>5. pc'[Http] = pc[Http]
  BY <1>1, <1>3 DEF TypeOK
<1>6. QED
  BY <1>2, <1>4, <1>5 DEF TypeOK, Quiet

LEMMA QuietAges ==
    ASSUME Ages, EvictsOldest, Quiet
    PROVE  Ages' /\ EvictsOldest'
  BY DEF Quiet, Ages, EvictsOldest

LEMMA HttpAges ==
    ASSUME TypeOK, Places, Ages, EvictsOldest, HttpStep
    PROVE  Ages' /\ EvictsOldest'
<1> USE Assumptions DEF TypeOK, Places, HttpPlace, HttpSlot, Ages, EvictsOldest, Goto, Threads, slotVars, thrVars, httpVars
<1>1. CASE \E c \in Conns : Accept(c)
  BY <1>1 DEF Accept
<1>2. CASE AcceptFails \/ ServePage \/ Upgrade \/ TooMany
  BY <1>2 DEF AcceptFails, ServePage, Upgrade, TooMany
<1>3. CASE FindFree \/ Handshake \/ HandshakeFails \/ CreateFails
  BY <1>3 DEF FindFree, Handshake, HandshakeFails, CreateFails
<1>4. CASE Claim
  BY <1>4 DEF Claim
<1>5. CASE Setup
  BY <1>5 DEF Setup
<1>6. CASE SetupFails
  BY <1>6 DEF SetupFails
<1>7. CASE Create
  BY <1>7 DEF Create
<1>8. CASE Evict
  BY <1>8 DEF Evict, Oldest, Free
<1>9. CASE CloseBegin(Http) \/ CloseSock(Http) \/ CloseClear(Http)
  BY <1>9 DEF CloseBegin, CloseSock, CloseClear, AfterClose, DropCur
<1>10. QED
  BY <1>1, <1>2, <1>3, <1>4, <1>5, <1>6, <1>7, <1>8, <1>9 DEF HttpStep, WsAccept

\* A step of a client that asks, sends, leaves or vanishes.
LEMMA PeerPlaces ==
    ASSUME EInv, Leaving \/ Sending \/ Asking
    PROVE  EInv'
<1> USE Assumptions DEF EInv, Places, HttpPlace, ConnPlace, Unseen, Evicting, Ages, EvictsOldest, Messages,
        slotVars, thrVars, httpVars, netVars, castVars
<1>1. ASSUME NEW c \in Conns, NEW how \in Ends, PeerEnd(c, how)
      PROVE  EInv'
  <2>1. TypeOK'
    BY <1>1 DEF PeerEnd, TypeOK
  <2>2. QED
    BY <1>1, <2>1 DEF PeerEnd
<1>2. ASSUME NEW c \in Conns, NEW m \in Msgs, PeerMsg(c, m)
      PROVE  EInv'
  <2>1. TypeOK' /\ m \notin {"page", "ws"}
    BY <1>2 DEF PeerMsg, TypeOK
  <2>2. Unseen'
    BY <1>2, <2>1 DEF PeerMsg, TypeOK
  <2>3. QED
    BY <1>2, <2>1, <2>2 DEF PeerMsg
<1>3. ASSUME NEW c \in Conns, NEW r \in {"page", "ws"}, PeerRequest(c, r)
      PROVE  EInv'
  <2>1. TypeOK'
    BY <1>3 DEF PeerRequest, TypeOK
  <2>2. Unseen'
    BY <1>3 DEF PeerRequest, TypeOK
  <2>3. QED
    BY <1>3, <2>1, <2>2 DEF PeerRequest
<1>4. QED
  BY ONLY <1>1, <1>2, <1>3, Leaving \/ Sending \/ Asking DEF Leaving, Sending, Asking

LEMMA EvictionInductive == EInv /\ [Next]_vars => EInv'
<1>1. EInv /\ UNCHANGED vars => EInv'
  BY DEF EInv, TypeOK, Places, HttpPlace, ConnPlace, Unseen, Evicting, Ages, EvictsOldest,
     vars, slotVars, thrVars, httpVars, netVars, castVars
<1>2. ASSUME EInv, NEW c \in Conns, ConnStep(c) PROVE EInv'
  BY <1>2, ConnPlaces, ConnQuiet, QuietAges DEF EInv
<1>3. ASSUME EInv, HttpStep PROVE EInv'
  BY <1>3, HttpPlaces, HttpAges DEF EInv
<1>4. QED
  BY <1>1, <1>2, <1>3, PeerPlaces DEF Next

\* The invariant of every behaviour, whether clients are evicted or not.
THEOREM Evictions == Spec => []EInv
<1>1. Init => EInv
  <2> SUFFICES ASSUME Init PROVE EInv
    OBVIOUS
  <2>1. TypeOK
    BY Initially DEF IInv
  <2>2. Places /\ Unseen
    BY Assumptions DEF Init, Places, HttpPlace, ConnPlace, Unseen, Evicting, HttpSlot, Casting, Threads, ConnPc, HttpPc
  <2>3. Ages /\ EvictsOldest
    BY Assumptions DEF Init, Ages, EvictsOldest, Threads
  <2>4. QED
    BY <2>1, <2>2, <2>3 DEF EInv
<1>2. QED
  BY <1>1, EvictionInductive, PTL DEF Spec

\* Whatever the stale threads of evicted clients do, every variable keeps its
\* type: they index the table, the broadcast and the buffers inside their bounds.
THEOREM TypeCorrectEvicting == Spec => []TypeOK
<1>1. EInv => TypeOK
  BY DEF EInv
<1>2. QED
  BY <1>1, Evictions, PTL

\* The client that is evicted is older than every other one connected, for any
\* number of slots, although stale threads clear slots during the search.
THEOREM OldestEvicted == Spec => []EvictsOldest
<1>1. EInv => EvictsOldest
  BY DEF EInv
<1>2. QED
  BY <1>1, Evictions, PTL

\* Broadcasts exclude each other even with stale threads about: at most one
\* thread is inside the loop of ws_sendframe, and it holds the global mutex.
OneBroadcast == \A c, d \in Conns : pc[c] \in Casting /\ pc[d] \in Casting => c = d /\ mutex = c
THEOREM BroadcastsExclude == Spec => []OneBroadcast
<1>1. EInv => OneBroadcast
  BY DEF EInv, Places, ConnPlace, OneBroadcast
<1>2. QED
  BY <1>1, Evictions, PTL
=============================================================================
