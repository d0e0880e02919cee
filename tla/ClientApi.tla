------------------------------ MODULE ClientApi ------------------------------
(***************************************************************************)
(* The web application's connection to the device,                         *)
(* components/web/src/api.ts: requests that wait for a reply of their code *)
(* or for a timeout, the login, the configuration the device sends, and    *)
(* the connection, which is made again when it is lost.  Every action of   *)
(* the page is one task of the browser's event loop.                       *)
(*                                                                         *)
(* The other end is one connection thread of the device (WebSocket.tla):   *)
(* it handles the messages of a connection in order.  A message that was   *)
(* received is a Blob whose bytes come later (arrayBuffer().then), and by  *)
(* then the connection may be gone.                                        *)
(***************************************************************************)
EXTENDS Integers, Sequences

CONSTANTS
    Right, Wrong,  \* a password the device accepts, one it does not
    Stored,        \* what localStorage may remember in this instance
    None,          \* nothing remembered
    MaxCalls,      \* requests of the page (a bound of the model)
    MaxLosses,     \* connections that fail or are lost (a bound of the model)
    MaxCasts       \* configurations changed by other clients (a bound of the model)

ASSUME Assumptions ==
    /\ Right # Wrong /\ None \notin {Right, Wrong}
    /\ Stored \subseteq {Right, Wrong, None}
    /\ MaxCalls \in Nat /\ MaxLosses \in Nat /\ MaxCasts \in Nat

VARIABLES
    link,       \* this.ws: "none", "connecting", "open", "lost" (no close event yet)
    conn,       \* how many times it was set
    timer,      \* the timer that calls connect() is running
    status, isLogin,
    remember,   \* localStorage "remember"
    calls,      \* the calls of request(), in order
    waiting,    \* waitingReplyStack: the calls that wait
    toDev, toPage,  \* messages on their way
    blobs,      \* messages received whose bytes are not there yet
    login,      \* is_login of the connection on the device
    losses, casts,
    answered,   \* calls whose reply the page has handled
    stale       \* a message was handled after its connection was lost

netVars  == <<link, conn, timer, losses>>
callVars == <<calls, waiting, answered>>
vars == <<netVars, status, isLogin, remember, callVars, toDev, toPage, blobs, login, casts, stale>>

Codes == {"login", "secure"}
\* A call: what it asks, whether Login.vue made it, whether the page showed a
\* login then, how it ended, the reply that woke it, and what Login.vue then
\* put in localStorage.
Call  == [code : Codes, pass : {Right, Wrong, None}, form : BOOLEAN, shown : BOOLEAN,
          conn : Nat, alone : BOOLEAN, by : Nat, kept : {Right, Wrong, None},
          end : {"none", "true", "false", "error", "timeout", "unsent"}]
Message == [code : {"login", "secure", "logout"}, pass : {Right, Wrong, None}, id : Nat]
Answer  == [code : Codes \union {"logout", "config"}, id : Nat, conn : Nat,
            ok : {"true", "false", "error"}]

TypeOK ==
    /\ link \in {"none", "connecting", "open", "lost"} /\ conn \in Nat /\ timer \in BOOLEAN
    /\ status \in {"DISCONNECTED", "CONNECTIING", "CONNECTED"} /\ isLogin \in BOOLEAN
    /\ remember \in {Right, Wrong, None}
    /\ calls \in Seq(Call)
    /\ waiting = {i \in 1..Len(calls) : calls[i].end = "none"}
    /\ toDev \in Seq(Message) /\ toPage \in Seq(Answer) /\ blobs \in Seq(Answer)
    /\ login \in BOOLEAN /\ losses \in Nat /\ casts \in Nat
    /\ answered \subseteq 1..Len(calls) /\ stale \in BOOLEAN

\* The constructor calls connect().
Init ==
    /\ link = "connecting" /\ conn = 1 /\ timer = FALSE
    /\ status = "CONNECTIING" /\ isLogin = FALSE /\ remember \in Stored
    /\ calls = <<>> /\ waiting = {} /\ toDev = <<>> /\ toPage = <<>> /\ blobs = <<>>
    /\ login = FALSE /\ losses = 0 /\ casts = 0 /\ answered = {} /\ stale = FALSE

-----------------------------------------------------------------------------
(* request(): the waiter is pushed, then send() writes the message or throws *)
(* (no socket, or one that is still connecting), or writes into the void.    *)

Throws == link \in {"none", "connecting"}

\* No earlier call of this code on this connection is still to be answered.
Alone(code) ==
    \A i \in 1..Len(calls) :
        calls[i].code = code /\ calls[i].conn = conn => i \in answered \/ calls[i].end = "unsent"

Request(code, pass, form) ==
    LET id == Len(calls) + 1 IN
    /\ calls' = Append(calls, [code |-> code, pass |-> pass, form |-> form, shown |-> isLogin,
                               conn |-> conn, alone |-> Alone(code), by |-> 0, kept |-> None,
                               end |-> IF Throws THEN "unsent" ELSE "none"])
    /\ waiting' = IF Throws THEN waiting ELSE waiting \union {id}
    /\ toDev' = IF link = "open"
                THEN Append(toDev, [code |-> code, pass |-> pass, id |-> id]) ELSE toDev

\* Login.vue.  The menu opens it when no login is shown, but it stays open, and
\* can be submitted, when the page logs in by itself behind it.
UserLogin(pass) ==
    /\ Len(calls) < MaxCalls
    /\ Request("login", pass, TRUE)
    /\ UNCHANGED <<netVars, status, isLogin, remember, answered, toPage, blobs, login, casts, stale>>

\* clickLogin tries what is remembered before it opens the form.
ClickLogin ==
    /\ ~isLogin /\ remember # None /\ Len(calls) < MaxCalls
    /\ Request("login", remember, FALSE)
    /\ UNCHANGED <<netVars, status, isLogin, remember, answered, toPage, blobs, login, casts, stale>>

\* The forms that need the login (requestTruthy).
UserForm ==
    /\ Len(calls) < MaxCalls
    /\ Request("secure", None, FALSE)
    /\ UNCHANGED <<netVars, status, isLogin, remember, answered, toPage, blobs, login, casts, stale>>

\* logout() waits for nothing.
UserLogout ==
    /\ isLogin /\ link \in {"open", "lost"}
    /\ toDev' = IF link = "open"
                THEN Append(toDev, [code |-> "logout", pass |-> None, id |-> 0]) ELSE toDev
    /\ isLogin' = FALSE
    /\ UNCHANGED <<netVars, status, remember, callVars, toPage, blobs, login, casts, stale>>

\* Slip: the waiter of a request that timed out stays in the stack.
Timeout_Keep(i) ==
    /\ i \in waiting /\ calls[i].end = "none"
    /\ calls' = [calls EXCEPT ![i].end = "timeout"]
    /\ UNCHANGED <<netVars, status, isLogin, remember, waiting, answered,
                   toDev, toPage, blobs, login, casts, stale>>

Timeout(i) ==
    /\ i \in waiting
    /\ calls' = [calls EXCEPT ![i].end = "timeout"]
    /\ waiting' = waiting \ {i}
    /\ UNCHANGED <<netVars, status, isLogin, remember, answered,
                   toDev, toPage, blobs, login, casts, stale>>

-----------------------------------------------------------------------------
(* The device.                                                              *)

\* on_ws_login says true to whatever password comes once it is logged in.
Accepts(m) == login \/ m.pass = Right

Replies(m) ==
    IF m.code = "login" THEN {IF Accepts(m) THEN "true" ELSE "false"}
    ELSE IF ~login THEN {"error"}
    ELSE {"true", "false"}

Handle ==
    /\ toDev # <<>> /\ toDev' = Tail(toDev)
    /\ LET m == Head(toDev) IN
       /\ login' = CASE m.code = "login"  -> Accepts(m)
                     [] m.code = "logout" -> FALSE
                     [] OTHER             -> login
       /\ IF m.code = "logout" /\ login
          THEN UNCHANGED toPage
          ELSE \E ok \in Replies(m) : toPage' =
                   Append(toPage, [code |-> m.code, id |-> m.id, conn |-> conn, ok |-> ok])
    /\ UNCHANGED <<netVars, status, isLogin, remember, callVars, blobs, casts, stale>>

Config == [code |-> "config", id |-> 0, conn |-> conn, ok |-> "true"]

Broadcast ==
    /\ link = "open" /\ casts < MaxCasts /\ casts' = casts + 1
    /\ toPage' = Append(toPage, Config)
    /\ UNCHANGED <<netVars, status, isLogin, remember, callVars, toDev, blobs, login, stale>>

-----------------------------------------------------------------------------
(* Messages reach the page.                                                 *)

Receive ==
    /\ toPage # <<>> /\ toPage' = Tail(toPage)
    /\ blobs' = Append(blobs, Head(toPage))
    /\ UNCHANGED <<netVars, status, isLogin, remember, callVars, toDev, login, casts, stale>>

\* Slip: a reply wakes the oldest waiter, whatever its code.
Woken_Oldest(m) == {i \in waiting : \A j \in waiting : i <= j}
Woken(m) == {i \in waiting : calls[i].code = m.code}

\* Slip: login() resolves with any reply.
LoggedIn_Any(m) == {i \in Woken(m) : calls[i].code = "login"}

\* The calls of login() that resolve with a reply, and those of Login.vue.
LoggedIn(m) == {i \in Woken(m) : calls[i].code = "login" /\ m.ok = "true"}
Forms(m)    == {i \in LoggedIn(m) : calls[i].form}

\* Login.vue reads the checkbox and the password of its form when the call
\* resolves.  Until then the user may have changed both, so they are any.
Remember(m, kept) ==
    LET checked == {i \in Forms(m) : kept[i] # None} IN
    \/ checked = {} /\ UNCHANGED remember
    \/ \E i \in checked : (\A j \in checked : j <= i) /\ remember' = kept[i]

\* onGotBinaryMessage for a reply: every waiter of its code is called, in
\* order; login() sets isLogin when its own call resolves.
HandleReply ==
    /\ blobs # <<>> /\ Head(blobs).code # "config" /\ blobs' = Tail(blobs)
    /\ LET m == Head(blobs) IN
       /\ \E kept \in [Forms(m) -> {Right, Wrong, None}] :
             /\ calls' = [i \in 1..Len(calls) |->
                    IF i \notin Woken(m) THEN calls[i]
                    ELSE [calls[i] EXCEPT !.end = m.ok, !.by = m.id,
                                          !.kept = IF i \in Forms(m) THEN kept[i] ELSE None]]
             /\ Remember(m, kept)
       /\ waiting' = waiting \ Woken(m)
       /\ isLogin' = (isLogin \/ LoggedIn(m) # {})
       /\ answered' = IF m.code = "logout" THEN answered ELSE answered \union {m.id}
       /\ stale' = (stale \/ m.conn # conn \/ link # "open")
    /\ UNCHANGED <<netVars, status, toDev, toPage, login, casts>>

\* updateAppConfig, and with it autoLogin().
HandleConfig ==
    /\ blobs # <<>> /\ Head(blobs).code = "config" /\ blobs' = Tail(blobs)
    /\ status' = IF status = "CONNECTIING" THEN "CONNECTED" ELSE status
    /\ stale' = (stale \/ Head(blobs).conn # conn \/ link # "open")
    /\ IF ~isLogin /\ remember # None /\ Len(calls) < MaxCalls
       THEN Request("login", remember, FALSE) ELSE UNCHANGED <<calls, waiting, toDev>>
    /\ UNCHANGED <<netVars, isLogin, remember, answered, toPage, login, casts>>

-----------------------------------------------------------------------------
(* The connection.                                                          *)

\* Slip: setInterval in place of setTimeout.
Connect_Again ==
    /\ timer
    /\ link' = "connecting" /\ conn' = conn + 1 /\ status' = "CONNECTIING"
    /\ UNCHANGED <<timer, isLogin, remember, callVars, toDev, toPage, blobs, login, losses, casts, stale>>

\* connect() by the timer; `new WebSocket' does not fail.
Connect ==
    /\ timer /\ timer' = FALSE
    /\ link' = "connecting" /\ conn' = conn + 1 /\ status' = "CONNECTIING"
    /\ UNCHANGED <<isLogin, remember, callVars, toDev, toPage, blobs, login, losses, casts, stale>>

\* The device has a slot, logs nobody in and sends its configuration.
Open ==
    /\ link = "connecting" /\ link' = "open"
    /\ login' = FALSE /\ toPage' = <<Config>> /\ toDev' = <<>>
    /\ UNCHANGED <<conn, timer, status, isLogin, remember, callVars, blobs, losses, casts, stale>>

Lose ==
    /\ link \in {"connecting", "open"} /\ losses < MaxLosses
    /\ link' = "lost" /\ losses' = losses + 1 /\ toDev' = <<>> /\ toPage' = <<>>
    /\ UNCHANGED <<conn, timer, status, isLogin, remember, callVars, blobs, login, casts, stale>>

\* Slip: the login of the lost connection is kept.
OnClose_KeepLogin ==
    /\ link = "lost" /\ link' = "none" /\ timer' = TRUE
    /\ status' = "DISCONNECTED"
    /\ UNCHANGED <<conn, isLogin, remember, callVars, toDev, toPage, blobs, login, losses, casts, stale>>

\* Slip: no timer after a connection that never opened.
OnClose_Once ==
    /\ link = "lost" /\ link' = "none" /\ timer' = (status = "CONNECTED")
    /\ status' = "DISCONNECTED" /\ isLogin' = FALSE
    /\ UNCHANGED <<conn, remember, callVars, toDev, toPage, blobs, login, losses, casts, stale>>

\* wsOnClose; autoReconnect is only cleared by disconnect(), which no view calls.
OnClose ==
    /\ link = "lost" /\ link' = "none" /\ timer' = TRUE
    /\ status' = "DISCONNECTED" /\ isLogin' = FALSE
    /\ UNCHANGED <<conn, remember, callVars, toDev, toPage, blobs, login, losses, casts, stale>>

Network == Open \/ Receive \/ Handle
Page == HandleReply \/ HandleConfig \/ Connect \/ OnClose \/ \E i \in waiting : Timeout(i)
User == (\E p \in {Right, Wrong} : UserLogin(p)) \/ ClickLogin \/ UserForm \/ UserLogout

Next == Network \/ Page \/ User \/ Broadcast \/ Lose
Spec == Init /\ [][Next]_vars

\* The event loop runs every task and timer, and a device that is there answers.
FairSpec ==
    /\ Spec
    /\ WF_vars(Open) /\ WF_vars(Receive) /\ WF_vars(Handle)
    /\ WF_vars(HandleReply) /\ WF_vars(HandleConfig) /\ WF_vars(Connect) /\ WF_vars(OnClose)
    /\ \A i \in 1..MaxCalls : WF_vars(Timeout(i))

-----------------------------------------------------------------------------
\* The page has one socket or one timer that will make one, never both and
\* never neither: connect() never throws "Already connected" and the page is
\* never left without a way back.
OneConnection == timer <=> link = "none"

\* "Syncronus request-response": a request made when no other of its code was
\* unanswered on its connection is answered with its own reply, unless the
\* connection is lost and the reply to a later one comes in its time.
OwnReply ==
    \A i \in 1..Len(calls) : LET c == calls[i] IN
        c.by # 0 /\ c.alone => c.by = i \/ calls[c.by].conn # c.conn

\* Nobody submits a login form that was left open while a login is shown.
NoStaleForm == \A i \in 1..Len(calls) : calls[i].code = "login" => ~calls[i].shown

\* Whom the page shows as logged in is logged in on the device, if every call
\* got its own reply, none was handled after its connection was lost, and no
\* form that was left open asked for a second login (a logout may be sent
\* before its reply comes).
LoginView ==
    /\ isLogin /\ link = "open" /\ ~stale /\ NoStaleForm
    /\ \A i \in 1..Len(calls) : calls[i].by \in {0, i}
    => login

\* As long as no form that was left open is submitted: when Login.vue puts a
\* wrong password in localStorage, the password that was sent was the right one
\* and the field was changed before the reply came; or the reply was another's;
\* or the device had been logged in by a call that the page had given up or
\* whose reply went to another (on_ws_login then takes any password).
RememberedRight ==
    NoStaleForm => \A i \in 1..Len(calls) : LET c == calls[i] IN
        c.kept = Wrong =>
            \/ c.pass = Right
            \/ c.by # i
            \/ \E j \in 1..(i - 1) : /\ calls[j].code = "login" /\ calls[j].conn = c.conn
                                     /\ calls[j].end = "timeout" \/ calls[j].by \notin {0, j}

\* Every request ends, whatever happens to its message or its connection.
Settles == \A i \in 1..MaxCalls : i \in waiting ~> i \notin waiting

\* A page that lost the device comes back to it.
Reconnects == status # "CONNECTED" ~> status = "CONNECTED"

=============================================================================
