------------------------------ MODULE LoginProofs ------------------------------
(***************************************************************************)
(* Proofs about the login of ClientApi: whom the page shows as logged in,  *)
(* and which password it remembers, for any number of requests, lost       *)
(* connections and configurations.                                         *)
(*                                                                         *)
(* The page and the device each keep a flag, and only messages in order    *)
(* tie them together.  Who logged the device in is always to be found: the *)
(* page that still shows it, a logout on its way, or a login call whose    *)
(* reply is on its way, was given up, or went to another call (Author).    *)
(* All of this holds until a login form that was left open is submitted:   *)
(* from then on a logout may pass between a login and its reply.           *)
(***************************************************************************)
EXTENDS ClientApiProofs

\* A call whose own reply did not decide it.
Bad(j) == calls[j].end = "timeout" \/ calls[j].by \notin {0, j}

\* s holds the reply that accepts login call j.
Says(s, j) == \E k \in 1..Len(s) : s[k].code = "login" /\ s[k].id = j /\ s[k].ok = "true"
InFlight(j) == Says(toPage, j) \/ Says(blobs, j)

\* Logouts among the messages to the device, before or behind others.
OutIn(s) == \E k \in 1..Len(s) : s[k].code = "logout"
NoneBehind(s, i) == \A a, b \in 1..Len(s) : s[a].id = i /\ a < b => s[b].code # "logout"
NoneBefore(s, a) == \A b \in 1..Len(s) : b < a => s[b].code # "logout"

\* A login call that may have logged the device in without the page's knowledge.
InBy(j) ==
    calls[j].code = "login" /\ calls[j].conn = conn /\ (Bad(j) \/ (j \in waiting /\ InFlight(j)))

-----------------------------------------------------------------------------
(* The invariant.                                                           *)

\* How a call ended and what woke it agree; only an accepted login is remembered.
Ended ==
    \A i \in 1..Len(calls) :
        /\ calls[i].end \in {"none", "unsent", "timeout"} => calls[i].by = 0
        /\ calls[i].end \in {"true", "false", "error"} => calls[i].by # 0
        /\ calls[i].by = i => i \in answered
        /\ calls[i].kept # None => calls[i].code = "login" /\ calls[i].end = "true"

\* A message carries the password of its call, a reply its connection.
Origin ==
    /\ \A k \in 1..Len(toDev) : toDev[k].code = "login" => toDev[k].pass = calls[toDev[k].id].pass
    /\ \A k \in 1..Len(toPage) : toPage[k].code = "login" => toPage[k].conn = calls[toPage[k].id].conn
    /\ \A k \in 1..Len(blobs) : blobs[k].code = "login" => blobs[k].conn = calls[blobs[k].id].conn

\* Nobody waits for a login while the page shows one, and without a
\* connection it shows none.
Shown ==
    /\ isLogin => \A i \in waiting : calls[i].code # "login"
    /\ link \in {"none", "connecting"} /\ ~stale => ~isLogin

\* Between a login and its reply no logout is sent.
StaysIn ==
    \A i \in waiting : calls[i].code = "login" /\ calls[i].conn = conn =>
        /\ NoneBehind(toDev, i)
        /\ InFlight(i) => login /\ ~OutIn(toDev)

\* LoginView, with no logout under way.
Sure ==
    isLogin /\ link = "open" /\ ~stale /\ (\A i \in 1..Len(calls) : calls[i].by \in {0, i}) =>
        login /\ ~OutIn(toDev)

\* Who logged the device in.
Author == link = "open" /\ login => isLogin \/ OutIn(toDev) \/ \E j \in 1..Len(calls) : InBy(j)

\* The same, as a login that is still to be handled will find it.
Asked ==
    \A a \in 1..Len(toDev) :
        toDev[a].code = "login" /\ toDev[a].id \in waiting /\ login /\ NoneBefore(toDev, a) =>
            \E j \in 1..Len(calls) : j < toDev[a].id /\ InBy(j)

\* A reply that accepts a wrong password is behind that of the login it owes it to.
Owed(i, t) ==
    \E j \in 1..Len(calls) :
        /\ j < i /\ calls[j].code = "login" /\ calls[j].conn = calls[i].conn
        /\ Bad(j) \/ (j \in waiting /\ (Says(blobs, j) \/ Says(t, j)))
Accepted ==
    /\ \A a \in 1..Len(toPage) :
           toPage[a].code = "login" /\ toPage[a].ok = "true" /\ toPage[a].id \in waiting
           /\ calls[toPage[a].id].pass # Right => Owed(toPage[a].id, toPage)
    /\ \A a \in 1..Len(blobs) :
           blobs[a].code = "login" /\ blobs[a].ok = "true" /\ blobs[a].id \in waiting
           /\ calls[blobs[a].id].pass # Right => Owed(blobs[a].id, blobs)

LInv == Ended /\ Origin /\ Shown /\ StaysIn /\ Sure /\ Author /\ Asked /\ Accepted /\ RememberedRight

LoginInv == NoStaleForm => LInv

-----------------------------------------------------------------------------
(* Messages in a queue that grows or shrinks.                               *)

LEMMA LongerSays ==
    ASSUME NEW s, NEW u, Longer(u, s), NEW j
    PROVE  /\ Says(s, j) => Says(u, j)
           /\ Says(u, j) => \/ Says(s, j)
                            \/ LET m == u[Len(s) + 1] IN m.code = "login" /\ m.id = j /\ m.ok = "true"
<1>1. \A k \in 1..Len(s) : k \in 1..Len(u) /\ u[k] = s[k]
  BY DEF Longer
<1>2. \A k \in 1..Len(u) : k \in 1..Len(s) \/ k = Len(s) + 1
  BY DEF Longer
<1> QED
  BY <1>1, <1>2 DEF Says

LEMMA ShorterSays ==
    ASSUME NEW s, NEW u, Shorter(u, s), NEW j
    PROVE  /\ Says(u, j) => Says(s, j)
           /\ Says(s, j) => Says(u, j) \/ (s[1].code = "login" /\ s[1].id = j /\ s[1].ok = "true")
<1>1. \A k \in 1..Len(u) : u[k] = s[k + 1] /\ k + 1 \in 1..Len(s)
  BY DEF Shorter
<1>2. \A k \in 1..Len(s) : k = 1 \/ (k - 1 \in 1..Len(u) /\ u[k - 1] = s[k])
  BY DEF Shorter
<1> QED
  BY <1>1, <1>2 DEF Says

LEMMA LongerOut ==
    ASSUME NEW s, NEW u, Longer(u, s)
    PROVE  OutIn(u) <=> OutIn(s) \/ u[Len(s) + 1].code = "logout"
<1>1. \A k \in 1..Len(s) : k \in 1..Len(u) /\ u[k] = s[k]
  BY DEF Longer
<1>2. \A k \in 1..Len(u) : k \in 1..Len(s) \/ k = Len(s) + 1
  BY DEF Longer
<1>3. Len(s) + 1 \in 1..Len(u)
  BY DEF Longer
<1> QED
  BY <1>1, <1>2, <1>3 DEF OutIn

LEMMA ShorterOut ==
    ASSUME NEW s, NEW u, Shorter(u, s)
    PROVE  OutIn(s) <=> OutIn(u) \/ s[1].code = "logout"
<1>1. \A k \in 1..Len(u) : u[k] = s[k + 1] /\ k + 1 \in 1..Len(s)
  BY DEF Shorter
<1>2. \A k \in 1..Len(s) : k = 1 \/ (k - 1 \in 1..Len(u) /\ u[k - 1] = s[k])
  BY DEF Shorter
<1>3. 1 \in 1..Len(s)
  BY DEF Shorter
<1> QED
  BY <1>1, <1>2, <1>3 DEF OutIn

LEMMA LongerBehind ==
    ASSUME NEW s, NEW u, Longer(u, s), NEW i, NoneBehind(s, i),
           u[Len(s) + 1].code # "logout" \/ ~Has(s, i)
    PROVE  NoneBehind(u, i)
<1> SUFFICES ASSUME NEW a \in 1..Len(u), NEW b \in 1..Len(u), u[a].id = i, a < b PROVE u[b].code # "logout"
  BY DEF NoneBehind
<1>1. a \in 1..Len(s) /\ u[a] = s[a]
  BY DEF Longer
<1>2. CASE b \in 1..Len(s)
  BY <1>1, <1>2 DEF Longer, NoneBehind
<1>3. CASE b = Len(s) + 1
  BY <1>1, <1>3 DEF Has
<1> QED
  BY <1>2, <1>3 DEF Longer

LEMMA ShorterBehind ==
    ASSUME NEW s, NEW u, Shorter(u, s), NEW i, NoneBehind(s, i)
    PROVE  NoneBehind(u, i) /\ (s[1].id = i => ~OutIn(u))
<1>1. \A k \in 1..Len(u) : u[k] = s[k + 1] /\ k + 1 \in 1..Len(s) /\ k \in Nat /\ 1 < k + 1
  BY DEF Shorter
<1>2. 1 \in 1..Len(s)
  BY DEF Shorter
<1>3. NoneBehind(u, i)
  <2> SUFFICES ASSUME NEW a \in 1..Len(u), NEW b \in 1..Len(u), u[a].id = i, a < b PROVE u[b].code # "logout"
    BY DEF NoneBehind
  <2>1. a + 1 \in 1..Len(s) /\ b + 1 \in 1..Len(s) /\ a + 1 < b + 1 /\ s[a + 1] = u[a] /\ s[b + 1] = u[b]
    BY <1>1
  <2> QED
    BY <2>1 DEF NoneBehind
<1>4. s[1].id = i => ~OutIn(u)
  BY <1>1, <1>2 DEF NoneBehind, OutIn
<1> QED
  BY <1>3, <1>4

\* What is before a message of a shorter queue was before it, or was first.
LEMMA ShorterBefore ==
    ASSUME NEW s, NEW u, Shorter(u, s), NEW a \in 1..Len(u), NoneBefore(u, a), s[1].code # "logout"
    PROVE  NoneBefore(s, a + 1) /\ a + 1 \in 1..Len(s) /\ s[a + 1] = u[a]
<1> SUFFICES ASSUME NEW b \in 1..Len(s), b < a + 1 PROVE s[b].code # "logout"
  BY DEF NoneBefore, Shorter
<1>1. CASE b = 1
  BY <1>1
<1>2. CASE b # 1
  <2>1. b - 1 \in 1..Len(u) /\ b - 1 < a /\ (b - 1) + 1 = b
    BY <1>2 DEF Shorter
  <2> QED
    BY <2>1 DEF Shorter, NoneBefore
<1> QED
  BY <1>1, <1>2

LEMMA LongerBefore ==
    ASSUME NEW s, NEW u, Longer(u, s), NEW a \in 1..Len(u), NoneBefore(u, a)
    PROVE  \/ a \in 1..Len(s) /\ u[a] = s[a] /\ NoneBefore(s, a)
           \/ a = Len(s) + 1 /\ ~OutIn(s)
<1>1. \A k \in 1..Len(s) : k \in 1..Len(u) /\ u[k] = s[k] /\ k < Len(s) + 1
  BY DEF Longer
<1>2. CASE a \in 1..Len(s)
  BY <1>1, <1>2 DEF NoneBefore
<1>3. CASE a = Len(s) + 1
  BY <1>1, <1>3 DEF NoneBefore, OutIn
<1> QED
  BY <1>2, <1>3 DEF Longer

-----------------------------------------------------------------------------
(* The steps, as the login sees them.                                       *)

\* The page asks: by a form, or by itself when a configuration comes.
Asking(code, pass, form) ==
    /\ code = "login" => ~isLogin
    /\ UNCHANGED <<isLogin, login, link, conn, answered, toPage>>
    /\ stale => stale'
    /\ Len(calls') = Len(calls) + 1 /\ \A i \in 1..Len(calls) : calls'[i] = calls[i]
    /\ calls'[Len(calls) + 1] =
           [code |-> code, pass |-> pass, form |-> form, shown |-> isLogin,
            conn |-> conn, alone |-> Alone(code), by |-> 0, kept |-> None,
            end |-> IF Throws THEN "unsent" ELSE "none"]
    /\ \/ link # "open" /\ toDev' = toDev
       \/ /\ link = "open" /\ Longer(toDev', toDev)
          /\ toDev'[Len(toDev) + 1] = [code |-> code, pass |-> pass, id |-> Len(calls) + 1]
    /\ blobs' = blobs \/ (Shorter(blobs', blobs) /\ blobs[1].code = "config")

\* A step that leaves the calls alone, and one that ends some of them.
Same == UNCHANGED <<calls, waiting, answered>>
Ending ==
    /\ Len(calls') = Len(calls)
    /\ \A i \in 1..Len(calls) :
          /\ calls'[i].code = calls[i].code /\ calls'[i].conn = calls[i].conn
          /\ calls'[i].pass = calls[i].pass /\ calls'[i].shown = calls[i].shown

Replying ==
    /\ Ending /\ Shorter(blobs', blobs)
    /\ UNCHANGED <<toDev, toPage, login, link, conn>>
    /\ blobs[1].code \in {"login", "secure", "logout"} /\ blobs[1].ok \in {"true", "false", "error"}
    /\ blobs[1].code # "logout" => blobs[1].id \in 1..Len(calls)
    /\ \A i \in 1..Len(calls) :
          /\ calls'[i].end = (IF i \in Woken(blobs[1]) THEN blobs[1].ok ELSE calls[i].end)
          /\ calls'[i].by = (IF i \in Woken(blobs[1]) THEN blobs[1].id ELSE calls[i].by)
          /\ calls'[i].kept # None =>
                 i \in Forms(blobs[1]) \/ (i \notin Woken(blobs[1]) /\ calls'[i].kept = calls[i].kept)
    /\ answered' = IF blobs[1].code = "logout" THEN answered ELSE answered \union {blobs[1].id}
    /\ isLogin' <=> isLogin \/ LoggedIn(blobs[1]) # {}
    /\ stale' <=> stale \/ blobs[1].conn # conn \/ link # "open"

Expiring(i) ==
    /\ Ending /\ i \in waiting
    /\ UNCHANGED <<toDev, toPage, blobs, login, isLogin, link, conn, answered, stale>>
    /\ \A j \in 1..Len(calls) :
          /\ calls'[j].by = calls[j].by /\ calls'[j].kept = calls[j].kept
          /\ calls'[j].end = IF j = i THEN "timeout" ELSE calls[j].end

LoggingOut ==
    /\ Same /\ UNCHANGED <<toPage, blobs, login, link, conn, stale>>
    /\ isLogin /\ ~isLogin'
    /\ \/ link # "open" /\ toDev' = toDev
       \/ /\ Longer(toDev', toDev) /\ toDev'[Len(toDev) + 1].code = "logout" /\ toDev'[Len(toDev) + 1].id = 0

Handling ==
    LET m == toDev[1] IN
    /\ Same /\ UNCHANGED <<blobs, isLogin, link, conn, stale>>
    /\ Shorter(toDev', toDev)
    /\ m.code = "login"  => (login' <=> login \/ m.pass = Right)
    /\ m.code = "logout" => ~login'
    /\ m.code \notin {"login", "logout"} => login' = login
    /\ \/ toPage' = toPage /\ m.code = "logout"
       \/ /\ Longer(toPage', toPage) /\ toPage'[Len(toPage) + 1].code = m.code
          /\ toPage'[Len(toPage) + 1].id = m.id /\ toPage'[Len(toPage) + 1].conn = conn
          /\ m.code = "login" => (toPage'[Len(toPage) + 1].ok = "true" <=> login')

Receiving ==
    /\ Same /\ UNCHANGED <<toDev, login, isLogin, link, conn, stale>>
    /\ Shorter(toPage', toPage) /\ Longer(blobs', blobs) /\ blobs'[Len(blobs) + 1] = toPage[1]

\* A configuration comes to the page, or is taken by it.
Configuring ==
    /\ Same /\ UNCHANGED <<toDev, login, isLogin, link, conn>>
    /\ stale => stale'
    /\ \/ blobs' = blobs /\ Longer(toPage', toPage) /\ toPage'[Len(toPage) + 1].code = "config"
       \/ toPage' = toPage /\ Shorter(blobs', blobs) /\ blobs[1].code = "config"

Opening ==
    /\ Same /\ UNCHANGED <<blobs, isLogin, conn, stale>>
    /\ link = "connecting" /\ link' = "open" /\ ~login'
    /\ Len(toDev') = 0 /\ Len(toPage') = 1 /\ toPage'[1].code = "config"

Losing ==
    /\ Same /\ UNCHANGED <<blobs, isLogin, login, conn, stale>>
    /\ link \in {"connecting", "open"} /\ link' = "lost" /\ Len(toDev') = 0 /\ Len(toPage') = 0

\* The end of a connection, and the beginning of the next one.
Reconnecting ==
    /\ Same /\ UNCHANGED <<blobs, toDev, toPage, login, stale>>
    /\ \/ link = "lost" /\ link' = "none" /\ ~isLogin' /\ conn' = conn
       \/ link = "none" /\ link' = "connecting" /\ conn' = conn + 1 /\ isLogin' = isLogin

Nothing == Same /\ UNCHANGED <<toDev, toPage, blobs, login, isLogin, link, conn, stale>>

LEMMA AskingHas ==
    ASSUME IInv, NEW code \in Codes, NEW pass \in Passes, NEW form \in BOOLEAN,
           Asks(code, pass, form), code = "login" => ~isLogin, stale => stale'
    PROVE  Asking(code, pass, form)
<1>1. TypeOK /\ Request(code, pass, form)
  BY DEF IInv, Asks
<1>2. /\ Len(calls') = Len(calls) + 1
      /\ \A i \in 1..Len(calls) : calls'[i] = calls[i]
      /\ calls'[Len(calls) + 1] =
             [code |-> code, pass |-> pass, form |-> form, shown |-> isLogin,
              conn |-> conn, alone |-> Alone(code), by |-> 0, kept |-> None,
              end |-> IF Throws THEN "unsent" ELSE "none"]
  BY <1>1, RequestCall
<1>3. UNCHANGED <<isLogin, login, link, conn, answered, toPage>>
  BY DEF Asks, netVars
<1>4. \/ link # "open" /\ toDev' = toDev
      \/ /\ link = "open" /\ Longer(toDev', toDev)
         /\ toDev'[Len(toDev) + 1] = [code |-> code, pass |-> pass, id |-> Len(calls) + 1]
  <2>1. toDev \in Seq(Message)
    BY <1>1 DEF TypeOK
  <2> QED
    BY <1>1, <2>1, AppendLonger DEF Request
<1>5. blobs' = blobs \/ (Shorter(blobs', blobs) /\ blobs[1].code = "config")
  BY AskQueues
<1> QED
  BY <1>2, <1>3, <1>4, <1>5 DEF Asking

LEMMA ReplyingHas == ASSUME IInv, HandleReply PROVE Replying
<1> DEFINE m == Head(blobs)
<1>1. /\ m = blobs[1] /\ m \in Answer /\ m.code # "config" /\ Due(m) /\ TypeOK
      /\ Len(calls') = Len(calls)
      /\ \A i \in 1..Len(calls) :
            /\ calls[i] \in Call
            /\ calls'[i].code = calls[i].code /\ calls'[i].conn = calls[i].conn
            /\ calls'[i].pass = calls[i].pass /\ calls'[i].shown = calls[i].shown
            /\ calls'[i].end = (IF i \in Woken(m) THEN m.ok ELSE calls[i].end)
            /\ calls'[i].by = (IF i \in Woken(m) THEN m.id ELSE calls[i].by)
            /\ calls'[i].kept # None => i \in Forms(m) \/ (i \notin Woken(m) /\ calls'[i].kept = calls[i].kept)
      /\ answered' = IF m.code = "logout" THEN answered ELSE answered \union {m.id}
  BY ReplyCalls DEF IInv
<1>2. Shorter(blobs', blobs)
  BY <1>1, BlobTaken DEF HandleReply
<1>3. m.code \in {"login", "secure", "logout"} /\ m.ok \in {"true", "false", "error"}
  BY <1>1 DEF Answer, Codes
<1>4. m.code # "logout" => m.id \in 1..Len(calls)
  BY <1>1, <1>3 DEF Due, Codes
<1>5. /\ UNCHANGED <<toDev, toPage, login, link, conn>>
      /\ isLogin' <=> isLogin \/ LoggedIn(m) # {}
      /\ stale' <=> stale \/ m.conn # conn \/ link # "open"
  BY DEF HandleReply, netVars
<1> HIDE DEF m
<1> QED
  BY <1>1, <1>2, <1>3, <1>4, <1>5 DEF Replying, Ending

LEMMA ExpiringHas == ASSUME IInv, NEW i \in waiting, Timeout(i) PROVE Expiring(i)
<1>1. TypeOK /\ i \in 1..Len(calls) /\ \A j \in 1..Len(calls) : calls[j] \in Call
  BY DEF IInv, TypeOK
<1>2. /\ Len(calls') = Len(calls)
      /\ \A j \in 1..Len(calls) :
            /\ calls'[j].code = calls[j].code /\ calls'[j].conn = calls[j].conn
            /\ calls'[j].by = calls[j].by
            /\ calls'[j].end = IF j = i THEN "timeout" ELSE calls[j].end
  BY <1>1, TimeoutCalls
<1>3. \A j \in 1..Len(calls) : calls'[j].pass = calls[j].pass /\ calls'[j].shown = calls[j].shown /\ calls'[j].kept = calls[j].kept
  BY <1>1 DEF Timeout, Call
<1>4. UNCHANGED <<toDev, toPage, blobs, login, isLogin, link, conn, answered, stale>>
  BY DEF Timeout, netVars
<1> QED
  BY <1>2, <1>3, <1>4 DEF Expiring, Ending

LEMMA HandlingHas == ASSUME IInv, Handle PROVE Handling
<1> DEFINE m == Head(toDev)
<1>1. TypeOK /\ toDev # <<>> /\ toDev \in Seq(Message) /\ toPage \in Seq(Answer) /\ toDev' = Tail(toDev)
  BY DEF IInv, TypeOK, Handle
<1>2. m = toDev[1] /\ m \in Message /\ Shorter(toDev', toDev)
  BY <1>1, TailShorter
<1>3. /\ m.code = "login"  => (login' <=> login \/ m.pass = Right)
      /\ m.code = "logout" => ~login'
      /\ m.code \notin {"login", "logout"} => login' = login
  BY DEF Handle, Accepts
<1>4. Same /\ UNCHANGED <<blobs, isLogin, link, conn, stale>>
  BY DEF Handle, Same, netVars, callVars
<1>5. \/ toPage' = toPage /\ m.code = "logout"
      \/ /\ Longer(toPage', toPage) /\ toPage'[Len(toPage) + 1].code = m.code
         /\ toPage'[Len(toPage) + 1].id = m.id /\ toPage'[Len(toPage) + 1].conn = conn
         /\ m.code = "login" => (toPage'[Len(toPage) + 1].ok = "true" <=> login')
  <2>1. CASE m.code = "logout" /\ login
    BY <2>1 DEF Handle
  <2>2. CASE ~(m.code = "logout" /\ login)
    <3>1. PICK ok \in Replies(m) :
              toPage' = Append(toPage, [code |-> m.code, id |-> m.id, conn |-> conn, ok |-> ok])
      BY <2>2 DEF Handle
    <3>2. Longer(toPage', toPage)
          /\ toPage'[Len(toPage) + 1] = [code |-> m.code, id |-> m.id, conn |-> conn, ok |-> ok]
      BY <1>1, <3>1, AppendLonger
    <3>3. m.code = "login" => (ok = "true" <=> login')
      BY <1>3, <3>1 DEF Replies, Accepts
    <3> QED
      BY <3>2, <3>3
  <2> QED
    BY <2>1, <2>2
<1> QED
  BY <1>2, <1>3, <1>4, <1>5 DEF Handling

LEMMA ConfiguringHas ==
    ASSUME IInv, Broadcast \/ (HandleConfig /\ UNCHANGED callVars /\ UNCHANGED toDev)
    PROVE  Configuring
<1>1. TypeOK
  BY DEF IInv
<1>2. CASE Broadcast
  <2>1. Longer(toPage', toPage) /\ toPage'[Len(toPage) + 1].code = "config"
    BY <1>1, <1>2, BroadcastQueue
  <2> QED
    BY <1>2, <2>1 DEF Broadcast, Configuring, Same, netVars, callVars
<1>3. CASE HandleConfig /\ UNCHANGED callVars /\ UNCHANGED toDev
  <2>1. Shorter(blobs', blobs) /\ Head(blobs) = blobs[1]
    BY <1>1, <1>3, BlobTaken DEF HandleConfig
  <2> QED
    BY <1>3, <2>1 DEF HandleConfig, Configuring, Same, netVars, callVars
<1> QED
  BY <1>2, <1>3

LEMMA LinkHas ==
    ASSUME IInv
    PROVE  /\ Open => Opening
           /\ Lose => Losing
           /\ Connect \/ OnClose => Reconnecting
           /\ UserLogout => LoggingOut
           /\ Receive => Receiving
           /\ UNCHANGED vars => Nothing
<1> USE DEF Same, netVars, callVars
<1>1. TypeOK /\ (timer => link = "none")
  BY DEF IInv, OneConnection
<1>2. Open => Opening
  BY DEF Open, Opening, Config
<1>3. Lose => Losing
  BY DEF Lose, Losing
<1>4. Connect \/ OnClose => Reconnecting
  BY <1>1 DEF Connect, OnClose, Reconnecting
<1>5. UserLogout => LoggingOut
  <2> SUFFICES ASSUME UserLogout PROVE LoggingOut
    OBVIOUS
  <2>1. \/ link # "open" /\ toDev' = toDev
        \/ /\ Longer(toDev', toDev) /\ toDev'[Len(toDev) + 1].code = "logout" /\ toDev'[Len(toDev) + 1].id = 0
    <3>1. toDev \in Seq(Message)
      BY <1>1 DEF TypeOK
    <3> QED
      BY <3>1, AppendLonger DEF UserLogout
  <2> QED
    BY <2>1 DEF UserLogout, LoggingOut
<1>6. Receive => Receiving
  BY <1>1, ReceiveQueues DEF Receive, Receiving
<1>7. UNCHANGED vars => Nothing
  BY DEF vars, Nothing
<1> QED
  BY <1>2, <1>3, <1>4, <1>5, <1>6, <1>7

LEMMA Steps ==
    ASSUME IInv, [Next]_vars, NoStaleForm'
    PROVE  \/ \E code \in Codes, pass \in Passes, form \in BOOLEAN : Asking(code, pass, form)
           \/ \E i \in waiting : Expiring(i)
           \/ Replying \/ LoggingOut \/ Handling \/ Receiving \/ Configuring
           \/ Opening \/ Losing \/ Reconnecting \/ Nothing
<1>0. TypeOK
  BY DEF IInv
<1>1. ASSUME NEW p \in {Right, Wrong}, UserLogin(p)
      PROVE  \E code \in Codes, pass \in Passes, form \in BOOLEAN : Asking(code, pass, form)
  <2>1. Asks("login", p, TRUE) /\ stale' = stale /\ "login" \in Codes /\ p \in Passes
    BY <1>1 DEF UserLogin, Asks, Codes, Passes
  <2>2. ~isLogin
    <3>1. /\ Len(calls) \in Nat /\ Len(calls') = Len(calls) + 1
          /\ calls'[Len(calls) + 1].code = "login" /\ calls'[Len(calls) + 1].shown = isLogin
      <4>1. Request("login", p, TRUE) /\ "login" \in Codes /\ p \in Passes /\ TRUE \in BOOLEAN
        BY <2>1 DEF Asks
      <4>2. /\ Len(calls) \in Nat /\ Len(calls') = Len(calls) + 1
            /\ calls'[Len(calls) + 1] =
                   [code |-> "login", pass |-> p, form |-> TRUE, shown |-> isLogin,
                    conn |-> conn, alone |-> Alone("login"), by |-> 0, kept |-> None,
                    end |-> IF Throws THEN "unsent" ELSE "none"]
        BY <1>0, <4>1, RequestCall
      <4> QED
        BY <4>2
    <3> QED
      BY <3>1 DEF NoStaleForm
  <2>3. Asking("login", p, TRUE)
    BY <2>1, <2>2, AskingHas
  <2> QED
    BY <2>1, <2>3
<1>1a. ASSUME ClickLogin
      PROVE  \E code \in Codes, pass \in Passes, form \in BOOLEAN : Asking(code, pass, form)
  <2>1. /\ Asks("login", remember, FALSE) /\ ~isLogin /\ stale' = stale
        /\ "login" \in Codes /\ remember \in Passes
    BY <1>0, <1>1a DEF ClickLogin, Asks, Codes, Passes, TypeOK
  <2>2. Asking("login", remember, FALSE)
    BY <2>1, AskingHas
  <2> QED
    BY <2>1, <2>2
<1>2. ASSUME UserForm
      PROVE  \E code \in Codes, pass \in Passes, form \in BOOLEAN : Asking(code, pass, form)
  <2>1. Asks("secure", None, FALSE) /\ stale' = stale /\ "secure" \in Codes /\ None \in Passes
    BY <1>2 DEF UserForm, Asks, Codes, Passes
  <2>2. Asking("secure", None, FALSE)
    BY <2>1, AskingHas
  <2> QED
    BY <2>1, <2>2
<1>3. ASSUME HandleConfig, ~(UNCHANGED callVars /\ UNCHANGED toDev)
      PROVE  \E code \in Codes, pass \in Passes, form \in BOOLEAN : Asking(code, pass, form)
  <2>1. /\ Asks("login", remember, FALSE) /\ ~isLogin /\ (stale => stale')
        /\ "login" \in Codes /\ remember \in Passes
    BY <1>0, <1>3 DEF HandleConfig, Asks, Codes, Passes, TypeOK, callVars
  <2>2. Asking("login", remember, FALSE)
    BY <2>1, AskingHas
  <2> QED
    BY <2>1, <2>2
<1>4. HandleReply => Replying
  BY ReplyingHas
<1>5. ASSUME NEW i \in waiting, Timeout(i) PROVE Expiring(i)
  BY <1>5, ExpiringHas
<1> QED
  BY <1>1, <1>1a, <1>2, <1>3, <1>4, <1>5, HandlingHas, ConfiguringHas, LinkHas DEF Next, Network, Page, User

-----------------------------------------------------------------------------
(* What the steps form.                                                     *)

\* The calls before a step, seen after it.
Kept1 ==
    /\ Len(calls) \in Nat /\ Len(calls') \in Nat /\ answered \subseteq answered'
    /\ waiting = {i \in 1..Len(calls) : calls[i].end = "none"}
    /\ waiting' = {i \in 1..Len(calls') : calls'[i].end = "none"}
    /\ \A i \in 1..Len(calls) :
          /\ i \in 1..Len(calls')
          /\ calls'[i].code = calls[i].code /\ calls'[i].conn = calls[i].conn
          /\ calls'[i].pass = calls[i].pass /\ calls'[i].shown = calls[i].shown
          /\ i \in waiting' => i \in waiting
          /\ i \notin waiting => calls'[i].end = calls[i].end /\ calls'[i].by = calls[i].by
    /\ \A i \in 1..Len(calls') : i \in 1..Len(calls) \/ i = Len(calls) + 1

LEMMA Calls1 ==
    ASSUME IInv, IInv', [Next]_vars, NoStaleForm'
    PROVE  Kept1
<1>1. /\ Len(calls) \in Nat /\ Len(calls') \in Nat
      /\ waiting = {i \in 1..Len(calls) : calls[i].end = "none"}
      /\ waiting' = {i \in 1..Len(calls') : calls'[i].end = "none"}
  BY DEF IInv, TypeOK
<1>2. answered \subseteq answered'
  BY AnsweredGrow
<1>3. ASSUME NEW code \in Codes, NEW pass \in Passes, NEW form \in BOOLEAN, Asking(code, pass, form)
      PROVE  Kept1
  BY <1>1, <1>2, <1>3 DEF Asking, Kept1
<1>4. ASSUME NEW i \in waiting, Expiring(i) PROVE Kept1
  BY <1>1, <1>2, <1>4 DEF Expiring, Ending, Kept1
<1>5. CASE Replying
  <2>1. \A i \in 1..Len(calls) : i \in Woken(blobs[1]) => i \in waiting
    BY DEF Woken
  <2> QED
    BY <1>1, <1>2, <1>5, <2>1 DEF Replying, Ending, Kept1
<1>6. CASE Same
  BY <1>1, <1>2, <1>6 DEF Same, Kept1
<1> QED
  BY <1>3, <1>4, <1>5, <1>6, Steps
     DEF LoggingOut, Handling, Receiving, Configuring, Opening, Losing, Reconnecting, Nothing

\* What is remembered for a call is settled with the call.
LEMMA KeptStays ==
    ASSUME IInv, [Next]_vars, NoStaleForm', NEW i \in 1..Len(calls), i \notin waiting, calls'[i].kept # None
    PROVE  calls'[i].kept = calls[i].kept
<1>1. i \notin Woken(blobs[1]) /\ i \notin Forms(blobs[1])
  BY DEF Forms, LoggedIn, Woken
<1>2. Replying => calls'[i].kept = calls[i].kept
  BY <1>1 DEF Replying
<1>3. ASSUME NEW k \in waiting, Expiring(k) PROVE calls'[i].kept = calls[i].kept
  BY <1>3 DEF Expiring
<1>4. ASSUME NEW code \in Codes, NEW pass \in Passes, NEW form \in BOOLEAN, Asking(code, pass, form)
      PROVE  calls'[i].kept = calls[i].kept
  BY <1>4 DEF Asking
<1>5. Same => calls'[i].kept = calls[i].kept
  BY DEF Same
<1> QED
  BY <1>2, <1>3, <1>4, <1>5, Steps
     DEF LoggingOut, Handling, Receiving, Configuring, Opening, Losing, Reconnecting, Nothing

\* A call that its own reply did not decide never will be.
LEMMA BadStays ==
    ASSUME Kept1, Ended, NEW j \in 1..Len(calls), Bad(j)
    PROVE  Bad(j)'
<1>1. j \notin waiting
  BY DEF Kept1, Ended, Bad
<1> QED
  BY <1>1 DEF Kept1, Bad

\* What is in a queue belongs to a call that is older than those behind it.
LEMMA Queues1 ==
    ASSUME IInv
    PROVE  /\ Len(toDev) \in Nat /\ Len(toPage) \in Nat /\ Len(blobs) \in Nat
           /\ \A k \in 1..Len(toDev) : toDev[k].code = "login" =>
                 /\ toDev[k].id \in 1..Len(calls) /\ calls[toDev[k].id].code = "login"
                 /\ calls[toDev[k].id].conn = conn /\ toDev[k].id \notin answered
                 /\ calls[toDev[k].id].end # "unsent"
           /\ \A k \in 1..Len(toPage) : toPage[k].code = "login" =>
                 /\ toPage[k].id \in 1..Len(calls) /\ calls[toPage[k].id].code = "login"
                 /\ calls[toPage[k].id].conn = conn
           /\ \A k \in 1..Len(blobs) : blobs[k].code = "login" =>
                 blobs[k].id \in 1..Len(calls) /\ calls[blobs[k].id].code = "login"
           /\ \A k \in 1..Len(toDev) : toDev[k].id <= Len(calls) /\ toDev[k].id \in Nat
<1>1. Len(toDev) \in Nat /\ Len(toPage) \in Nat /\ Len(blobs) \in Nat /\ Len(calls) \in Nat
  BY DEF IInv, TypeOK
<1>2. Wire
  BY DEF IInv
<1>3. \A k \in 1..Len(toDev) : toDev[k].id <= Len(calls) /\ toDev[k].id \in Nat
  BY <1>1, OldIds
<1> QED
  BY <1>1, <1>2, <1>3 DEF Wire, Due, Now, Codes

LEMMA EndedNext == ASSUME IInv, IInv', LInv, [Next]_vars, NoStaleForm' PROVE Ended'
<1>1. Kept1 /\ Ended
  BY Calls1 DEF LInv
<1> SUFFICES ASSUME NEW i \in 1..Len(calls')
             PROVE  /\ calls'[i].end \in {"none", "unsent", "timeout"} => calls'[i].by = 0
                    /\ calls'[i].end \in {"true", "false", "error"} => calls'[i].by # 0
                    /\ calls'[i].by = i => i \in answered'
                    /\ calls'[i].kept # None => calls'[i].code = "login" /\ calls'[i].end = "true"
  BY DEF Ended
<1>2. CASE i \in 1..Len(calls) /\ i \notin waiting
  <2>1. /\ calls'[i].end = calls[i].end /\ calls'[i].by = calls[i].by /\ calls'[i].code = calls[i].code
        /\ answered \subseteq answered'
    BY <1>1, <1>2 DEF Kept1
  <2>2. calls'[i].kept # None => calls'[i].kept = calls[i].kept
    BY <1>2, KeptStays
  <2> QED
    BY <1>1, <1>2, <2>1, <2>2 DEF Ended
<1>3. CASE i \in waiting
  <2>1. i \in 1..Len(calls) /\ calls[i].end = "none" /\ calls[i].by = 0 /\ calls[i].kept = None
    BY <1>1, <1>3 DEF Kept1, Ended
  <2>3. ASSUME NEW k \in waiting, Expiring(k)
        PROVE  calls'[i].by = 0 /\ calls'[i].end \in {"none", "timeout"} /\ calls'[i].kept = None
    BY <2>1, <2>3 DEF Expiring
  <2>4. ASSUME Replying, i \in Woken(blobs[1])
        PROVE  /\ calls'[i].by # 0 /\ calls'[i].end \in {"true", "false", "error"}
               /\ calls'[i].by = i => i \in answered'
               /\ calls'[i].kept # None => calls'[i].code = "login" /\ calls'[i].end = "true"
    <3>1. blobs[1].code = calls[i].code /\ blobs[1].code # "logout"
      <4>1. calls[i] \in Call
        BY <2>1 DEF IInv, TypeOK
      <4> QED
        BY <2>4, <4>1 DEF Woken, Call, Codes
    <3>2. /\ calls'[i].by # 0 /\ calls'[i].end \in {"true", "false", "error"}
          /\ calls'[i].by = i => i \in answered'
      BY <1>1, <2>1, <2>4, <3>1 DEF Replying, Kept1
    <3>3. calls'[i].kept # None => i \in Forms(blobs[1])
      BY <2>1, <2>4 DEF Replying
    <3>4. calls'[i].end = blobs[1].ok /\ calls'[i].code = calls[i].code
      BY <2>1, <2>4 DEF Replying, Ending
    <3>5. i \in Forms(blobs[1]) => calls[i].code = "login" /\ blobs[1].ok = "true"
      BY DEF Forms, LoggedIn
    <3> QED
      BY <3>2, <3>3, <3>4, <3>5
  <2>5. ASSUME Replying, i \notin Woken(blobs[1])
        PROVE  calls'[i].by = 0 /\ calls'[i].end = "none" /\ calls'[i].kept = None
    <3>1. i \notin Forms(blobs[1])
      BY <2>5 DEF Forms, LoggedIn
    <3> QED
      BY <2>1, <2>5, <3>1 DEF Replying
  <2>6. ASSUME NEW code \in Codes, NEW pass \in Passes, NEW form \in BOOLEAN, Asking(code, pass, form)
        PROVE  calls'[i].by = 0 /\ calls'[i].end = "none" /\ calls'[i].kept = None
    BY <2>1, <2>6 DEF Asking
  <2>7. Same => calls'[i].by = 0 /\ calls'[i].end = "none" /\ calls'[i].kept = None
    BY <2>1 DEF Same
  <2> QED
    BY <2>1, <2>3, <2>4, <2>5, <2>6, <2>7, Steps
       DEF LoggingOut, Handling, Receiving, Configuring, Opening, Losing, Reconnecting, Nothing
<1>4. ASSUME i = Len(calls) + 1, i \notin 1..Len(calls)
      PROVE  calls'[i].by = 0 /\ calls'[i].end \in {"none", "unsent"} /\ calls'[i].kept = None
  <2>1. ASSUME NEW code \in Codes, NEW pass \in Passes, NEW form \in BOOLEAN, Asking(code, pass, form)
        PROVE  calls'[i].by = 0 /\ calls'[i].end \in {"none", "unsent"} /\ calls'[i].kept = None
    BY <1>4, <2>1 DEF Asking
  <2>2. (Same \/ Ending) => Len(calls') = Len(calls)
    BY DEF Same, Ending
  <2> QED
    BY <1>1, <1>4, <2>1, <2>2, Steps
       DEF LoggingOut, Handling, Receiving, Configuring, Opening, Losing, Reconnecting, Nothing, Replying, Expiring
<1> QED
  BY <1>1, <1>2, <1>3, <1>4 DEF Kept1

\* A queue whose messages keep what they say of their calls.
LEMMA OriginNext == ASSUME IInv, IInv', LInv, [Next]_vars, NoStaleForm' PROVE Origin'
<1>1. Kept1 /\ Origin
  BY Calls1 DEF LInv
<1>2. /\ \A k \in 1..Len(toDev) : toDev[k].code = "login" => toDev[k].pass = calls'[toDev[k].id].pass
      /\ \A k \in 1..Len(toPage) : toPage[k].code = "login" => toPage[k].conn = calls'[toPage[k].id].conn
      /\ \A k \in 1..Len(blobs) : blobs[k].code = "login" => blobs[k].conn = calls'[blobs[k].id].conn
  BY <1>1, Queues1 DEF Kept1, Origin
<1>3. ASSUME NEW code \in Codes, NEW pass \in Passes, NEW form \in BOOLEAN, Asking(code, pass, form)
      PROVE  Origin'
  <2>1. ASSUME NEW k \in 1..Len(toDev'), toDev'[k].code = "login"
        PROVE  toDev'[k].pass = calls'[toDev'[k].id].pass
    <3>1. CASE k \in 1..Len(toDev) /\ toDev'[k] = toDev[k]
      BY <1>2, <2>1, <3>1
    <3>2. CASE toDev'[k] = [code |-> code, pass |-> pass, id |-> Len(calls) + 1]
      BY <1>3, <3>2 DEF Asking
    <3> QED
      BY <1>3, <2>1, <3>1, <3>2 DEF Asking, Longer
  <2>2. ASSUME NEW k \in 1..Len(blobs'), blobs'[k].code = "login"
        PROVE  blobs'[k].conn = calls'[blobs'[k].id].conn
    BY <1>2, <1>3, <2>2 DEF Asking, Shorter
  <2>3. toPage' = toPage
    BY <1>3 DEF Asking
  <2> QED
    BY <1>2, <2>1, <2>2, <2>3 DEF Origin
<1>4. ASSUME NEW i \in waiting, Expiring(i) PROVE Origin'
  BY <1>2, <1>4 DEF Expiring, Origin
<1>5. CASE Replying
  BY <1>2, <1>5 DEF Replying, Origin, Shorter
<1>6. CASE LoggingOut
  BY <1>2, <1>6 DEF LoggingOut, Same, Origin, Longer
<1>7. CASE Handling
  <2>1. 1 \in 1..Len(toDev)
    BY <1>7 DEF Handling, Shorter
  <2>2. toDev[1].code = "login" => calls'[toDev[1].id].conn = conn
    BY <1>1, <2>1, Queues1, SMTT(30) DEF Kept1
  <2>3. blobs' = blobs
    BY <1>7 DEF Handling
  <2>4. ASSUME NEW k \in 1..Len(toDev'), toDev'[k].code = "login"
        PROVE  toDev'[k].pass = calls'[toDev'[k].id].pass
    <3>1. k + 1 \in 1..Len(toDev) /\ toDev'[k] = toDev[k + 1]
      BY <1>7, <2>4 DEF Handling, Shorter
    <3> QED
      BY <1>2, <2>4, <3>1
  <2>5. ASSUME NEW k \in 1..Len(toPage'), toPage'[k].code = "login"
        PROVE  toPage'[k].conn = calls'[toPage'[k].id].conn
    <3>1. CASE k \in 1..Len(toPage) /\ toPage'[k] = toPage[k]
      BY <1>2, <2>5, <3>1
    <3>2. CASE toPage'[k].code = toDev[1].code /\ toPage'[k].id = toDev[1].id /\ toPage'[k].conn = conn
      BY <2>2, <2>5, <3>2
    <3> QED
      BY <1>7, <3>1, <3>2 DEF Handling, Longer
  <2> QED
    BY <1>2, <2>3, <2>4, <2>5 DEF Origin
<1>8. CASE Receiving
  <2>1. 1 \in 1..Len(toPage) /\ toDev' = toDev
    BY <1>8 DEF Receiving, Shorter
  <2>2. ASSUME NEW k \in 1..Len(toPage'), toPage'[k].code = "login"
        PROVE  toPage'[k].conn = calls'[toPage'[k].id].conn
    BY <1>2, <1>8, <2>2 DEF Receiving, Shorter
  <2>3. ASSUME NEW k \in 1..Len(blobs'), blobs'[k].code = "login"
        PROVE  blobs'[k].conn = calls'[blobs'[k].id].conn
    <3>1. (k \in 1..Len(blobs) /\ blobs'[k] = blobs[k]) \/ blobs'[k] = toPage[1]
      BY <1>8 DEF Receiving, Longer
    <3> QED
      BY <1>2, <2>1, <2>3, <3>1
  <2> QED
    BY <1>2, <2>1, <2>2, <2>3 DEF Origin
<1>9. CASE Configuring
  <2>1. toDev' = toDev
    BY <1>9 DEF Configuring
  <2>2. ASSUME NEW k \in 1..Len(toPage'), toPage'[k].code = "login"
        PROVE  toPage'[k].conn = calls'[toPage'[k].id].conn
    <3>1. k \in 1..Len(toPage) /\ toPage'[k] = toPage[k]
      BY <1>9, <2>2 DEF Configuring, Longer
    <3> QED
      BY <1>2, <2>2, <3>1
  <2>3. ASSUME NEW k \in 1..Len(blobs'), blobs'[k].code = "login"
        PROVE  blobs'[k].conn = calls'[blobs'[k].id].conn
    <3>1. (k \in 1..Len(blobs) /\ blobs'[k] = blobs[k]) \/ (k + 1 \in 1..Len(blobs) /\ blobs'[k] = blobs[k + 1])
      BY <1>9, <2>3 DEF Configuring, Shorter
    <3> QED
      BY <1>2, <2>3, <3>1
  <2> QED
    BY <1>2, <2>1, <2>2, <2>3 DEF Origin
<1>10. CASE Opening \/ Losing \/ Reconnecting \/ Nothing
  BY <1>2, <1>10 DEF Opening, Losing, Reconnecting, Nothing, Origin
<1> QED
  BY <1>3, <1>4, <1>5, <1>6, <1>7, <1>8, <1>9, <1>10, Steps

\* The reply to a login wakes every login that waits.
LEMMA WakesLogins ==
    ASSUME IInv, Replying, blobs[1].code = "login", NEW i \in waiting, calls[i].code = "login"
    PROVE  i \in Woken(blobs[1]) /\ calls'[i].end # "none" /\ calls'[i].by = blobs[1].id
<1>1. i \in 1..Len(calls) /\ i \in Woken(blobs[1])
  BY DEF IInv, TypeOK, Woken
<1> QED
  BY <1>1 DEF Replying

LEMMA ShownNext == ASSUME IInv, IInv', LInv, [Next]_vars, NoStaleForm' PROVE Shown'
<1>1. Kept1 /\ Shown
  BY Calls1 DEF LInv
<1>2. CASE Replying
  <2>1. ASSUME LoggedIn(blobs[1]) # {} PROVE blobs[1].code = "login"
    BY <2>1 DEF LoggedIn, Woken
  <2>2. ASSUME LoggedIn(blobs[1]) # {}, NEW i \in waiting' PROVE calls'[i].code # "login"
    <3>1. i \in waiting /\ i \in 1..Len(calls) /\ calls'[i].end = "none"
      BY <1>1, <1>2, <2>2 DEF Kept1, Replying, Ending
    <3> QED
      BY <1>1, <1>2, <2>1, <2>2, <3>1, WakesLogins DEF Kept1
  <2>3. ASSUME isLogin, NEW i \in waiting' PROVE calls'[i].code # "login"
    BY <1>1, <1>2, <2>3 DEF Kept1, Replying, Ending, Shown
  <2> QED
    BY <1>1, <1>2, <2>2, <2>3 DEF Replying, Shown
<1>3. ASSUME NEW code \in Codes, NEW pass \in Passes, NEW form \in BOOLEAN, Asking(code, pass, form)
      PROVE  Shown'
  BY <1>1, <1>3 DEF Asking, Shown, Kept1
<1>4. ASSUME NEW i \in waiting, Expiring(i) PROVE Shown'
  BY <1>1, <1>4 DEF Expiring, Ending, Shown, Kept1
<1>5. CASE LoggingOut \/ Handling \/ Receiving \/ Configuring \/ Nothing
  BY <1>1, <1>5 DEF LoggingOut, Handling, Receiving, Configuring, Nothing, Same, Shown
<1>6. CASE Opening \/ Losing \/ Reconnecting
  BY <1>1, <1>6 DEF Opening, Losing, Reconnecting, Same, Shown
<1> QED
  BY <1>2, <1>3, <1>4, <1>5, <1>6, Steps

-----------------------------------------------------------------------------
(* Between a login and its reply.                                           *)

\* A reply in flight was in flight, or is the one the device sends now.
LEMMA InFlightBefore ==
    ASSUME IInv, [Next]_vars, NoStaleForm', NEW j \in 1..Len(calls), InFlight(j)'
    PROVE  \/ InFlight(j)
           \/ Handling /\ toDev[1].code = "login" /\ toDev[1].id = j /\ login'
<1>1. CASE toPage' = toPage \/ Shorter(toPage', toPage)
  <2>1. CASE blobs' = blobs \/ Shorter(blobs', blobs)
    BY <1>1, <2>1, ShorterSays DEF InFlight
  <2>2. CASE Receiving
    <3>1. Shorter(toPage', toPage) /\ Longer(blobs', blobs) /\ blobs'[Len(blobs) + 1] = toPage[1]
          /\ 1 \in 1..Len(toPage)
      BY <2>2 DEF Receiving, Shorter
    <3>2. Says(toPage', j) => Says(toPage, j)
      BY <3>1, ShorterSays
    <3>3. Says(blobs', j) => Says(blobs, j) \/ Says(toPage, j)
      <4>1. (toPage[1].code = "login" /\ toPage[1].id = j /\ toPage[1].ok = "true") => Says(toPage, j)
        BY <3>1 DEF Says
      <4> QED
        BY <3>1, <4>1, LongerSays
    <3> QED
      BY <3>2, <3>3 DEF InFlight
  <2> QED
    BY <1>1, <2>1, <2>2, Steps
       DEF Asking, Replying, Expiring, LoggingOut, Handling, Configuring, Opening, Losing, Reconnecting, Nothing
<1>2. CASE Handling
  <2>1. blobs' = blobs
    BY <1>2 DEF Handling
  <2>2. CASE toPage' = toPage
    BY <2>1, <2>2 DEF InFlight
  <2>3. CASE Longer(toPage', toPage) /\ toPage'[Len(toPage) + 1].code = toDev[1].code
             /\ toPage'[Len(toPage) + 1].id = toDev[1].id
             /\ (toDev[1].code = "login" => (toPage'[Len(toPage) + 1].ok = "true" <=> login'))
    BY <1>2, <2>1, <2>3, LongerSays DEF InFlight
  <2> QED
    BY <1>2, <2>2, <2>3 DEF Handling
<1>3. CASE Configuring /\ Longer(toPage', toPage) /\ toPage'[Len(toPage) + 1].code = "config" /\ blobs' = blobs
  BY <1>3, LongerSays DEF InFlight
<1>4. CASE Opening \/ Losing
  <2>1. blobs' = blobs /\ ~Says(toPage', j)
    BY <1>4 DEF Opening, Losing, Says
  <2> QED
    BY <2>1 DEF InFlight
<1>5. \/ toPage' = toPage \/ Shorter(toPage', toPage) \/ Handling \/ Opening \/ Losing
      \/ Configuring /\ Longer(toPage', toPage) /\ toPage'[Len(toPage) + 1].code = "config" /\ blobs' = blobs
  BY Steps DEF Asking, Replying, Expiring, LoggingOut, Receiving, Configuring, Reconnecting, Nothing
<1> QED
  BY <1>1, <1>2, <1>3, <1>4, <1>5

LEMMA StaysInNext == ASSUME IInv, IInv', LInv, [Next]_vars, NoStaleForm' PROVE StaysIn'
<1>1. Kept1 /\ StaysIn /\ Shown /\ Len(calls) \in Nat
  BY Calls1 DEF LInv, Kept1
<1> SUFFICES ASSUME NEW i \in waiting', calls'[i].code = "login", calls'[i].conn = conn'
             PROVE  NoneBehind(toDev', i) /\ (InFlight(i)' => login' /\ ~OutIn(toDev'))
  BY DEF StaysIn, NoneBehind, InFlight, OutIn, Says
<1>2. i \in 1..Len(calls') /\ calls'[i].end = "none"
  BY <1>1 DEF Kept1
<1>3. CASE i \in 1..Len(calls)
  <2>1. i \in waiting /\ calls[i].code = "login" /\ calls[i].conn = conn' /\ calls[i].end = "none"
    BY <1>1, <1>3 DEF Kept1
  <2>2. ASSUME calls[i].conn = conn
        PROVE  NoneBehind(toDev, i) /\ (InFlight(i) => login /\ ~OutIn(toDev))
    BY <1>1, <2>1, <2>2 DEF StaysIn
  <2>3. ASSUME NEW code \in Codes, NEW pass \in Passes, NEW form \in BOOLEAN, Asking(code, pass, form)
        PROVE  NoneBehind(toDev', i) /\ (InFlight(i)' => login' /\ ~OutIn(toDev'))
    <3>1. /\ conn' = conn /\ login' = login
          /\ toDev' = toDev \/ (Longer(toDev', toDev) /\ toDev'[Len(toDev) + 1].code # "logout")
      BY <2>3 DEF Asking, Codes
    <3>2. NoneBehind(toDev', i) /\ (OutIn(toDev') => OutIn(toDev))
      BY <2>1, <2>2, <3>1, LongerBehind, LongerOut
    <3>3. ~Handling
      BY <1>1, <2>3 DEF Asking, Handling, Same
    <3> QED
      BY <1>3, <2>1, <2>2, <3>1, <3>2, <3>3, InFlightBefore
  <2>4. CASE Replying \/ Receiving \/ Configuring \/ Nothing \/ \E k \in waiting : Expiring(k)
    <3>1. conn' = conn /\ login' = login /\ toDev' = toDev
      BY <2>4 DEF Replying, Receiving, Configuring, Nothing, Expiring
    <3>2. ~Handling
      BY <3>1 DEF Handling, Shorter
    <3> QED
      BY <1>3, <2>1, <2>2, <3>1, <3>2, InFlightBefore
  <2>5. CASE LoggingOut
    BY <1>1, <2>1, <2>5 DEF LoggingOut, Shown
  <2>6. CASE Handling
    <3>1. conn' = conn /\ Shorter(toDev', toDev) /\ NoneBehind(toDev, i)
      BY <2>1, <2>2, <2>6 DEF Handling
    <3>2. NoneBehind(toDev', i) /\ (toDev[1].id = i => ~OutIn(toDev'))
      BY <3>1, ShorterBehind
    <3>3. ASSUME InFlight(i) PROVE login' /\ ~OutIn(toDev')
      <4>1. login /\ ~OutIn(toDev') /\ toDev[1].code # "logout"
        BY <2>1, <2>2, <3>1, <3>3, ShorterOut
      <4> QED
        BY <2>6, <4>1 DEF Handling
    <3> QED
      BY <1>3, <3>2, <3>3, InFlightBefore
  <2>7. CASE Opening
    BY <2>1, <2>7, <1>3 DEF Opening, IInv, Fifo
  <2>8. CASE Losing
    <3>1. /\ conn' = conn /\ login' = login /\ NoneBehind(toDev', i) /\ ~OutIn(toDev')
          /\ Len(toDev') = 0 /\ ~Handling
      BY <2>8 DEF Losing, NoneBehind, OutIn, Handling
    <3> QED
      BY <1>3, <2>1, <2>2, <3>1, InFlightBefore
  <2>9. CASE Reconnecting
    <3>1. conn' = conn
      <4>1. calls[i].conn <= conn /\ conn \in Nat
        BY <1>3 DEF IInv, Fifo, TypeOK
      <4> QED
        BY <2>1, <2>9, <4>1 DEF Reconnecting
    <3>2. login' = login /\ toDev' = toDev
      BY <2>9 DEF Reconnecting
    <3>3. ~Handling
      BY <3>2 DEF Handling, Shorter
    <3> QED
      BY <1>3, <2>1, <2>2, <3>1, <3>2, <3>3, InFlightBefore
  <2> QED
    BY <2>3, <2>4, <2>5, <2>6, <2>7, <2>8, <2>9, Steps
<1>4. CASE i = Len(calls) + 1
  <2>1. PICK code \in Codes, pass \in Passes, form \in BOOLEAN : Asking(code, pass, form)
    <3>1. Len(calls') # Len(calls)
      BY <1>1, <1>2, <1>4
    <3> QED
      BY <3>1, Steps DEF LoggingOut, Handling, Receiving, Configuring, Opening, Losing, Reconnecting,
                         Nothing, Same, Replying, Expiring, Ending
  <2>2. \A k \in 1..Len(toDev) : toDev[k].id # i
    BY <1>1, <1>4, Queues1
  <2>3. NoneBehind(toDev', i)
    <3>1. CASE toDev' = toDev
      BY <2>2, <3>1 DEF NoneBehind
    <3>2. CASE Longer(toDev', toDev)
      BY <2>2, <3>2 DEF Longer, NoneBehind
    <3> QED
      BY <2>1, <3>1, <3>2 DEF Asking
  <2>4. ~InFlight(i)'
    <3>1. ~Says(toPage, i) /\ ~Says(blobs, i)
      BY <1>1, <1>4, Queues1 DEF Says
    <3>2. toPage' = toPage /\ (blobs' = blobs \/ Shorter(blobs', blobs))
      BY <2>1 DEF Asking
    <3> QED
      BY <3>1, <3>2, ShorterSays DEF InFlight
  <2> QED
    BY <2>3, <2>4
<1> QED
  BY <1>1, <1>2, <1>3, <1>4 DEF Kept1

\* Who is shown as logged in by its own reply is logged in.
LEMMA SureNext == ASSUME IInv, IInv', LInv, [Next]_vars, NoStaleForm' PROVE Sure'
<1>1. Kept1 /\ Sure /\ Shown /\ Ended /\ StaysIn /\ Origin
  BY Calls1 DEF LInv
<1> DEFINE Own == \A i \in 1..Len(calls) : calls[i].by \in {0, i}
<1> SUFFICES ASSUME isLogin', link' = "open", ~stale', \A i \in 1..Len(calls') : calls'[i].by \in {0, i}
             PROVE  login' /\ ~OutIn(toDev')
  BY DEF Sure, OutIn
<1>2. Own
  BY <1>1 DEF Kept1, Ended
<1>3. CASE isLogin /\ ~Opening /\ ~Losing /\ ~Reconnecting
  <2>1. login /\ ~OutIn(toDev)
    <3>1. ~stale /\ link = "open"
      <4>1. ASSUME NEW code \in Codes, NEW pass \in Passes, NEW form \in BOOLEAN, Asking(code, pass, form)
            PROVE  (stale => stale') /\ link' = link
        BY <4>1 DEF Asking
      <4>2. CASE Replying \/ Configuring
        BY <4>2 DEF Replying, Configuring
      <4>3. CASE LoggingOut \/ Handling \/ Receiving \/ Nothing \/ \E i \in waiting : Expiring(i)
        <5>1. stale' = stale /\ link' = link
          BY <4>3 DEF LoggingOut, Handling, Receiving, Nothing, Expiring
        <5> QED
          BY <5>1
      <4> QED
        BY <1>3, <4>1, <4>2, <4>3, Steps
    <3> QED
      BY <1>1, <1>2, <1>3, <3>1 DEF Sure
  <2>2. ASSUME NEW code \in Codes, NEW pass \in Passes, NEW form \in BOOLEAN, Asking(code, pass, form)
        PROVE  login' /\ ~OutIn(toDev')
    <3>1. /\ login' = login
          /\ toDev' = toDev \/ (Longer(toDev', toDev) /\ toDev'[Len(toDev) + 1].code # "logout")
      BY <2>2 DEF Asking, Codes
    <3> QED
      BY <2>1, <3>1, LongerOut
  <2>3. CASE Handling
    <3>1. ~OutIn(toDev') /\ toDev[1].code # "logout"
      BY <2>1, <2>3, ShorterOut DEF Handling
    <3> QED
      BY <2>1, <2>3, <3>1 DEF Handling
  <2> QED
    BY <1>3, <2>1, <2>2, <2>3, Steps
       DEF Replying, Expiring, LoggingOut, Receiving, Configuring, Nothing
<1>4. CASE ~isLogin
  <2>1. Replying /\ LoggedIn(blobs[1]) # {}
    BY <1>4, Steps
       DEF Asking, Replying, Expiring, LoggingOut, Handling, Receiving, Configuring, Opening, Losing,
           Reconnecting, Nothing
  <2>2. PICK i \in LoggedIn(blobs[1]) : TRUE
    BY <2>1
  <2>3. /\ i \in waiting /\ i \in 1..Len(calls) /\ calls[i].code = "login" /\ i \in Woken(blobs[1])
        /\ blobs[1].code = "login" /\ blobs[1].ok = "true" /\ 1 \in 1..Len(blobs)
    BY <1>1, <2>1, <2>2 DEF LoggedIn, Woken, Kept1, Replying, Shorter
  <2>4. blobs[1].id = i
    BY <1>1, <2>1, <2>3 DEF Replying, Kept1
  <2>5. calls[i].conn = conn /\ InFlight(i)
    BY <1>1, <2>1, <2>3, <2>4 DEF Origin, Replying, InFlight, Says
  <2>6. login /\ ~OutIn(toDev)
    BY <1>1, <2>3, <2>5 DEF StaysIn
  <2> QED
    BY <2>1, <2>6 DEF Replying
<1>5. CASE isLogin /\ (Opening \/ Losing \/ Reconnecting)
  BY <1>1, <1>5 DEF Opening, Losing, Reconnecting, Shown
<1> QED
  BY <1>3, <1>4, <1>5

-----------------------------------------------------------------------------
(* Who logged the device in.                                                *)

\* A reply in flight stays so, or is handled.
LEMMA SaysKept ==
    ASSUME IInv, [Next]_vars, NoStaleForm', NEW j
    PROVE  /\ Says(blobs, j) =>
                  \/ Says(blobs', j)
                  \/ Replying /\ blobs[1].code = "login" /\ blobs[1].id = j /\ blobs[1].ok = "true"
           /\ Says(toPage, j) /\ link = "open" /\ ~Losing => Says(toPage', j) \/ Says(blobs', j)
<1>1. ASSUME Says(blobs, j), ~Replying PROVE Says(blobs', j)
  <2>1. blobs' = blobs \/ Longer(blobs', blobs) \/ (Shorter(blobs', blobs) /\ blobs[1].code = "config")
    BY <1>1, Steps
       DEF Asking, Expiring, LoggingOut, Handling, Receiving, Configuring, Opening, Losing, Reconnecting, Nothing
  <2> QED
    BY <1>1, <2>1, LongerSays, ShorterSays
<1>2. ASSUME Says(blobs, j), Replying
      PROVE  \/ Says(blobs', j)
             \/ blobs[1].code = "login" /\ blobs[1].id = j /\ blobs[1].ok = "true"
  <2>1. Shorter(blobs', blobs)
    BY <1>2 DEF Replying
  <2> QED
    BY <1>2, <2>1, ShorterSays
<1>3. ASSUME Says(toPage, j), ~Losing, link = "open" PROVE Says(toPage', j) \/ Says(blobs', j)
  <2>1. \/ toPage' = toPage \/ Longer(toPage', toPage) \/ Receiving
    BY <1>3, Steps
       DEF Asking, Replying, Expiring, LoggingOut, Handling, Configuring, Opening, Reconnecting, Nothing
  <2>2. CASE Receiving
    <3>1. /\ Shorter(toPage', toPage) /\ Longer(blobs', blobs) /\ blobs'[Len(blobs) + 1] = toPage[1]
          /\ Len(blobs) + 1 \in 1..Len(blobs')
      BY <2>2 DEF Receiving, Longer
    <3>2. (toPage[1].code = "login" /\ toPage[1].id = j /\ toPage[1].ok = "true") => Says(blobs', j)
      BY <3>1 DEF Says
    <3> QED
      BY <1>3, <3>1, <3>2, ShorterSays
  <2> QED
    BY <1>3, <2>1, <2>2, LongerSays
<1> QED
  BY <1>1, <1>2, <1>3

\* A call that waits keeps waiting, is given up, or is woken.
LEMMA WaitsOn ==
    ASSUME IInv, IInv', LInv, [Next]_vars, NoStaleForm', NEW j \in waiting
    PROVE  \/ j \in waiting'
           \/ Bad(j)'
           \/ Replying /\ j \in Woken(blobs[1]) /\ (blobs[1].id # j => Bad(j)')
<1>1. Kept1 /\ j \in 1..Len(calls) /\ calls[j].end = "none" /\ calls[j] \in Call
  BY Calls1, SMTT(30) DEF Kept1, IInv, TypeOK
<1>2. ASSUME NEW i \in waiting, Expiring(i) PROVE j \in waiting' \/ Bad(j)'
  BY <1>1, <1>2 DEF Expiring, Ending, Kept1, Bad
<1>3. ASSUME Replying, j \notin Woken(blobs[1]) PROVE j \in waiting'
  BY <1>1, <1>3 DEF Replying, Ending, Kept1
<1>4. ASSUME Replying, j \in Woken(blobs[1]), blobs[1].id # j PROVE Bad(j)'
  <2>1. blobs[1].code \in Codes
    BY <1>1, <1>4 DEF Woken, Call
  <2>2. blobs[1].id # 0
    BY <1>1, <1>4, <2>1 DEF Replying, Codes, Kept1
  <2> QED
    BY <1>1, <1>4, <2>2 DEF Replying, Bad
<1>5. ASSUME NEW code \in Codes, NEW pass \in Passes, NEW form \in BOOLEAN, Asking(code, pass, form)
      PROVE  j \in waiting'
  BY <1>1, <1>5 DEF Asking, Kept1
<1>6. CASE Same
  BY <1>6 DEF Same
<1> QED
  BY <1>2, <1>3, <1>4, <1>5, <1>6, Steps
     DEF LoggingOut, Handling, Receiving, Configuring, Opening, Losing, Reconnecting, Nothing

\* Of the replies to a call there is one.
LEMMA OneReply ==
    ASSUME IInv, Replying, NEW j \in 1..Len(calls), InFlight(j), blobs[1].id = j
    PROVE  blobs[1].code = "login" /\ blobs[1].ok = "true"
<1>1. /\ 1 \in 1..Len(blobs) /\ Len(calls) \in Nat /\ Len(blobs) \in Nat /\ Len(toPage) \in Nat
      /\ Growing(blobs) /\ Below(blobs, toPage)
  BY DEF IInv, TypeOK, Order, Replying, Shorter
<1>2. ~Says(toPage, j)
  BY <1>1 DEF Says, Below
<1>3. PICK k \in 1..Len(blobs) : blobs[k].code = "login" /\ blobs[k].id = j /\ blobs[k].ok = "true"
  BY <1>2 DEF InFlight, Says
<1>4. k = 1
  BY <1>1, <1>3 DEF Growing
<1> QED
  BY <1>3, <1>4

\* Such a call remains one while the connection is open, or the page shows a login.
LEMMA InByNext ==
    ASSUME IInv, IInv', LInv, [Next]_vars, NoStaleForm',
           link = "open", link' = "open", conn' = conn,
           NEW j \in 1..Len(calls), InBy(j)
    PROVE  InBy(j)' \/ (isLogin' /\ \A i \in waiting' : calls'[i].code # "login")
<1>1. Kept1 /\ Ended /\ calls'[j].code = "login" /\ calls'[j].conn = conn'
  BY Calls1 DEF LInv, Kept1, InBy
<1>2. CASE Bad(j)
  BY <1>1, <1>2, BadStays DEF InBy
<1>3. CASE j \in waiting /\ InFlight(j) /\ ~Replying
  <2>1. ~Losing
    BY DEF Losing
  <2>2. InFlight(j)'
    BY <1>3, <2>1, SaysKept DEF InFlight
  <2> QED
    BY <1>1, <1>3, <2>2, WaitsOn DEF InBy
<1>4. CASE j \in waiting /\ InFlight(j) /\ Replying
  <2>1. CASE blobs[1].id = j
    <3>1. /\ blobs[1].code = "login" /\ blobs[1].ok = "true" /\ calls[j].code = "login"
          /\ j \in Woken(blobs[1])
      BY <1>4, <2>1, OneReply, WakesLogins DEF InBy
    <3>2. isLogin'
      BY <1>4, <3>1 DEF Replying, LoggedIn
    <3>3. \A i \in waiting' : calls'[i].code # "login"
      <4> SUFFICES ASSUME NEW i \in waiting', calls'[i].code = "login" PROVE FALSE
        OBVIOUS
      <4>1. i \in 1..Len(calls) /\ i \in waiting /\ calls[i].code = "login" /\ calls'[i].end = "none"
        BY <1>1, <1>4 DEF Kept1, Replying, Ending
      <4> QED
        BY <1>4, <3>1, <4>1, WakesLogins
    <3> QED
      BY <3>2, <3>3
  <2>2. CASE blobs[1].id # j
    <3>1. ~Losing
      BY DEF Losing
    <3>2. InFlight(j)'
      BY <1>4, <2>2, <3>1, SaysKept DEF InFlight
    <3> QED
      BY <1>1, <1>4, <2>2, <3>2, WaitsOn DEF InBy
  <2> QED
    BY <2>1, <2>2
<1> QED
  BY <1>2, <1>3, <1>4 DEF InBy

\* The login that the device handles now is such a call.
LEMMA Handled ==
    ASSUME IInv, IInv', LInv, [Next]_vars, NoStaleForm', Handling, toDev[1].code = "login", login',
           NEW j, j = toDev[1].id
    PROVE  j \in 1..Len(calls) /\ InBy(j)'
<1>1. Kept1 /\ Ended /\ Same /\ conn' = conn /\ 1 \in 1..Len(toDev)
  BY Calls1 DEF LInv, Handling, Shorter
<1>2. /\ j \in 1..Len(calls) /\ calls[j].code = "login" /\ calls[j].conn = conn
      /\ j \notin answered /\ calls[j].end # "unsent" /\ calls[j] \in Call
  BY <1>1, Queues1 DEF IInv, TypeOK
<1>3. CASE j \in waiting
  <2>1. /\ Longer(toPage', toPage) /\ toPage'[Len(toPage) + 1].code = "login"
        /\ toPage'[Len(toPage) + 1].id = j /\ toPage'[Len(toPage) + 1].ok = "true"
    BY DEF Handling
  <2>2. Says(toPage', j)
    BY <2>1 DEF Says, Longer
  <2> QED
    BY <1>1, <1>2, <1>3, <2>2 DEF InBy, InFlight, Same
<1>4. CASE j \notin waiting
  <2>1. calls[j].end \in {"timeout", "true", "false", "error"}
    BY <1>1, <1>2, <1>4 DEF Call, Kept1
  <2>2. Bad(j)
    BY <1>1, <1>2, <2>1 DEF Ended, Bad
  <2> QED
    BY <1>1, <1>2, <2>2 DEF InBy, Same, Bad
<1> QED
  BY <1>3, <1>4

LEMMA AuthorNext == ASSUME IInv, IInv', LInv, [Next]_vars, NoStaleForm' PROVE Author'
<1>1. Kept1 /\ Author
  BY Calls1 DEF LInv
<1> SUFFICES ASSUME link' = "open", login'
             PROVE  isLogin' \/ OutIn(toDev') \/ \E j \in 1..Len(calls') : InBy(j)'
  BY DEF Author, OutIn
<1>2. ~Opening /\ ~Losing /\ ~Reconnecting
  BY DEF Opening, Losing, Reconnecting
<1>3. link = "open" /\ conn' = conn
  BY <1>2, Steps DEF Asking, Replying, Expiring, LoggingOut, Handling, Receiving, Configuring, Nothing
<1>4. ASSUME NEW j \in 1..Len(calls), InBy(j)
      PROVE  isLogin' \/ \E i \in 1..Len(calls') : InBy(i)'
  BY <1>1, <1>3, <1>4, InByNext DEF Kept1
<1>5. CASE Handling
  <2>1. CASE toDev[1].code = "login"
    <3>1. \E j : j = toDev[1].id
      OBVIOUS
    <3>2. \E j \in 1..Len(calls) : InBy(j)'
      BY <1>5, <2>1, <3>1, Handled
    <3> QED
      BY <1>1, <3>2 DEF Kept1
  <2>2. CASE toDev[1].code # "login"
    <3>1. login /\ toDev[1].code # "logout"
      BY <1>5, <2>2 DEF Handling
    <3>2. isLogin' = isLogin /\ (OutIn(toDev) => OutIn(toDev'))
      BY <1>5, <3>1, ShorterOut DEF Handling
    <3> QED
      BY <1>1, <1>3, <1>4, <3>1, <3>2 DEF Author
  <2> QED
    BY <2>1, <2>2
<1>6. ASSUME NEW code \in Codes, NEW pass \in Passes, NEW form \in BOOLEAN, Asking(code, pass, form)
      PROVE  isLogin' \/ OutIn(toDev') \/ \E j \in 1..Len(calls') : InBy(j)'
  <2>1. isLogin' = isLogin /\ login' = login /\ (OutIn(toDev) => OutIn(toDev'))
    BY <1>6, LongerOut DEF Asking
  <2> QED
    BY <1>1, <1>3, <1>4, <2>1 DEF Author
<1>7. CASE LoggingOut
  <2>1. Longer(toDev', toDev) /\ toDev'[Len(toDev) + 1].code = "logout"
    BY <1>3, <1>7 DEF LoggingOut
  <2> QED
    BY <2>1, LongerOut
<1>8. CASE Replying
  <2>1. login' = login /\ toDev' = toDev /\ (isLogin => isLogin')
    BY <1>8 DEF Replying
  <2> QED
    BY <1>1, <1>3, <1>4, <2>1 DEF Author
<1>9. CASE Receiving \/ Configuring \/ Nothing \/ \E i \in waiting : Expiring(i)
  <2>1. login' = login /\ toDev' = toDev /\ isLogin' = isLogin
    BY <1>9 DEF Receiving, Configuring, Nothing, Expiring
  <2> QED
    BY <1>1, <1>3, <1>4, <2>1 DEF Author
<1> QED
  BY <1>2, <1>5, <1>6, <1>7, <1>8, <1>9, Steps

LEMMA AskedNext == ASSUME IInv, IInv', LInv, [Next]_vars, NoStaleForm' PROVE Asked'
<1>1. Kept1 /\ Asked /\ Author /\ Shown
  BY Calls1 DEF LInv
<1> SUFFICES ASSUME NEW a \in 1..Len(toDev'), toDev'[a].code = "login", toDev'[a].id \in waiting',
                    login', NoneBefore(toDev', a)
             PROVE  \E j \in 1..Len(calls') : j < toDev'[a].id /\ InBy(j)'
  BY DEF Asked, NoneBefore
<1> DEFINE id == toDev'[a].id
<1>2. link' = "open" /\ ~Opening /\ ~Losing /\ ~Reconnecting
  <2>1. toDev' # <<>>
    OBVIOUS
  <2>2. link' = "open"
    BY <2>1 DEF IInv, Wire
  <2> QED
    BY <2>2 DEF Opening, Losing, Reconnecting
<1>3. link = "open" /\ conn' = conn
  BY <1>2, Steps DEF Asking, Replying, Expiring, LoggingOut, Handling, Receiving, Configuring, Nothing
<1>4. calls'[id].code = "login" /\ id \in 1..Len(calls')
  BY DEF IInv, Wire, Due, Codes
<1>5. ASSUME NEW j \in 1..Len(calls), InBy(j) PROVE InBy(j)'
  BY <1>2, <1>3, <1>4, <1>5, InByNext
\* A login that was there before finds what it would have found.
<1>6. ASSUME NEW b \in 1..Len(toDev), toDev[b] = toDev'[a], NoneBefore(toDev, b), login
      PROVE  \E j \in 1..Len(calls') : j < id /\ InBy(j)'
  <2>1. id \in waiting
    BY <1>1, <1>6, Queues1 DEF Kept1
  <2>2. PICK j \in 1..Len(calls) : j < id /\ InBy(j)
    BY <1>1, <1>6, <2>1 DEF Asked
  <2> QED
    BY <1>1, <1>5, <2>2 DEF Kept1
<1>7. CASE Handling
  <2>1. /\ Shorter(toDev', toDev) /\ toDev[1].code # "logout" /\ 1 \in 1..Len(toDev)
        /\ a + 1 \in 1..Len(toDev) /\ toDev[a + 1] = toDev'[a] /\ 1 < a + 1
    BY <1>7 DEF Handling, Shorter
  <2>2. NoneBefore(toDev, a + 1)
    BY <2>1, ShorterBefore
  <2>3. CASE toDev[1].code = "login"
    <3>1. PICK j : j = toDev[1].id
      OBVIOUS
    <3>2. j \in 1..Len(calls) /\ InBy(j)'
      BY <1>7, <2>3, <3>1, Handled
    <3>3. j < id
      <4>1. Growing(toDev)
        BY DEF IInv, Order
      <4>2. toDev[1].id # 0 /\ toDev[a + 1].id # 0
        BY <1>4, <2>1, <3>1, <3>2
      <4> QED
        BY <2>1, <3>1, <4>1, <4>2 DEF Growing
    <3> QED
      BY <1>1, <3>2, <3>3 DEF Kept1
  <2>4. CASE toDev[1].code # "login"
    <3>1. login
      BY <1>7, <2>1, <2>4 DEF Handling
    <3> QED
      BY <1>6, <2>1, <2>2, <3>1
  <2> QED
    BY <2>3, <2>4
<1>8. ASSUME NEW code \in Codes, NEW pass \in Passes, NEW form \in BOOLEAN, Asking(code, pass, form)
      PROVE  \E j \in 1..Len(calls') : j < id /\ InBy(j)'
  <2>1. /\ Longer(toDev', toDev) /\ login
        /\ toDev'[Len(toDev) + 1] = [code |-> code, pass |-> pass, id |-> Len(calls) + 1]
        /\ code = "login" => ~isLogin
    BY <1>3, <1>8 DEF Asking
  <2>2. CASE a \in 1..Len(toDev) /\ toDev'[a] = toDev[a] /\ NoneBefore(toDev, a)
    BY <1>6, <2>1, <2>2
  <2>3. CASE a = Len(toDev) + 1 /\ ~OutIn(toDev)
    <3>1. ~isLogin /\ id = Len(calls) + 1
      BY <2>1, <2>3
    <3>2. PICK j \in 1..Len(calls) : InBy(j)
      BY <1>1, <1>3, <2>1, <2>3, <3>1 DEF Author
    <3>3. j < id
      BY <1>1, <3>1 DEF Kept1
    <3> QED
      BY <1>1, <1>5, <3>2, <3>3 DEF Kept1
  <2> QED
    BY <2>1, <2>2, <2>3, LongerBefore
<1>9. CASE LoggingOut
  <2>1. a \in 1..Len(toDev) /\ toDev'[a] = toDev[a]
    BY <1>3, <1>9 DEF LoggingOut, Longer
  <2>2. id \in waiting /\ calls[id].code = "login"
    BY <1>1, <2>1, Queues1 DEF Kept1
  <2> QED
    BY <1>1, <1>9, <2>2 DEF LoggingOut, Shown
<1>10. CASE Replying \/ Receiving \/ Configuring \/ Nothing \/ \E i \in waiting : Expiring(i)
  <2>1. login' = login /\ toDev' = toDev
    BY <1>10 DEF Replying, Receiving, Configuring, Nothing, Expiring
  <2> QED
    BY <1>6, <2>1
<1> QED
  BY <1>2, <1>7, <1>8, <1>9, <1>10, Steps

\* A login that one owes a reply to stays such, unless its own reply wakes it.
LEMMA OwedKept ==
    ASSUME IInv, IInv', LInv, [Next]_vars, NoStaleForm', NEW i \in waiting', i \in 1..Len(calls),
           calls[i].code = "login", NEW j \in 1..Len(calls), calls[j].code = "login",
           Bad(j) \/ j \in waiting
    PROVE  Bad(j)' \/ (j \in waiting' /\ ~(Replying /\ blobs[1].code = "login"))
<1>1. Kept1 /\ Ended /\ i \in waiting /\ calls'[i].end = "none"
  BY Calls1 DEF LInv, Kept1
<1>2. CASE Bad(j)
  BY <1>1, <1>2, BadStays
<1>3. ASSUME Replying PROVE blobs[1].code # "login"
  BY <1>1, <1>3, WakesLogins
<1>4. CASE j \in waiting
  <2>1. ASSUME Replying PROVE j \notin Woken(blobs[1])
    BY <1>3, <2>1 DEF Woken
  <2> QED
    BY <1>3, <1>4, <2>1, WaitsOn
<1> QED
  BY <1>2, <1>4

LEMMA AcceptedNext == ASSUME IInv, IInv', LInv, [Next]_vars, NoStaleForm' PROVE Accepted'
<1>1. Kept1 /\ Accepted /\ Asked /\ Origin
  BY Calls1 DEF LInv
\* The calls that owe, and how their replies go on.
<1>2. ASSUME NEW i \in 1..Len(calls), i \in waiting', calls[i].code = "login",
             NEW j \in 1..Len(calls), j < i, calls[j].code = "login", calls[j].conn = calls[i].conn,
             Bad(j) \/ j \in waiting
      PROVE  /\ j \in 1..Len(calls') /\ calls'[j].code = "login" /\ calls'[j].conn = calls'[i].conn
             /\ Bad(j)' \/ (j \in waiting' /\ ~(Replying /\ blobs[1].code = "login"))
  BY <1>1, <1>2, OwedKept DEF Kept1
\* A reply of the page's queue keeps what it is owed.
<1>3. ASSUME NEW i \in 1..Len(calls), i \in waiting', calls[i].code = "login", Owed(i, toPage),
             link = "open", ~Losing
      PROVE  Owed(i, toPage)'
  <2>1. PICK j \in 1..Len(calls) :
            /\ j < i /\ calls[j].code = "login" /\ calls[j].conn = calls[i].conn
            /\ Bad(j) \/ (j \in waiting /\ (Says(blobs, j) \/ Says(toPage, j)))
    BY <1>3 DEF Owed
  <2>2. /\ j \in 1..Len(calls') /\ calls'[j].code = "login" /\ calls'[j].conn = calls'[i].conn
        /\ Bad(j)' \/ (j \in waiting' /\ ~(Replying /\ blobs[1].code = "login"))
    BY <1>2, <1>3, <2>1
  <2>3. Bad(j)' \/ (j \in waiting' /\ (Says(blobs', j) \/ Says(toPage', j)))
    <3>1. CASE Bad(j)'
      BY <3>1
    <3>2. CASE ~Bad(j)'
      <4>1. Says(blobs, j) \/ Says(toPage, j)
        BY <1>1, <2>1, <3>2, BadStays DEF LInv, Kept1
      <4> QED
        BY <1>3, <2>2, <3>2, <4>1, SaysKept
    <3> QED
      BY <3>1, <3>2
  <2> QED
    BY <2>1, <2>2, <2>3 DEF Owed
<1>4. ASSUME NEW i \in 1..Len(calls), i \in waiting', calls[i].code = "login", Owed(i, blobs)
      PROVE  Owed(i, blobs)'
  <2>1. PICK j \in 1..Len(calls) :
            /\ j < i /\ calls[j].code = "login" /\ calls[j].conn = calls[i].conn
            /\ Bad(j) \/ (j \in waiting /\ Says(blobs, j))
    BY <1>4 DEF Owed
  <2>2. /\ j \in 1..Len(calls') /\ calls'[j].code = "login" /\ calls'[j].conn = calls'[i].conn
        /\ Bad(j)' \/ (j \in waiting' /\ ~(Replying /\ blobs[1].code = "login"))
    BY <1>2, <1>4, <2>1
  <2>3. Bad(j)' \/ (j \in waiting' /\ Says(blobs', j))
    <3>1. CASE Bad(j)'
      BY <3>1
    <3>2. CASE ~Bad(j)'
      <4>1. Says(blobs, j)
        BY <1>1, <2>1, <3>2, BadStays DEF LInv, Kept1
      <4> QED
        BY <2>2, <3>2, <4>1, SaysKept
    <3> QED
      BY <3>1, <3>2
  <2> QED
    BY <2>1, <2>2, <2>3 DEF Owed
<1>5. ASSUME NEW a \in 1..Len(toPage'), toPage'[a].code = "login", toPage'[a].ok = "true",
             NEW i, i = toPage'[a].id, i \in waiting', calls'[i].pass # Right
      PROVE  Owed(i, toPage)'
  <2>1. link' = "open" /\ ~Losing
    <3>1. link' = "open"
      BY <1>5 DEF IInv, Wire
    <3> QED
      BY <3>1 DEF Losing
\* A reply that was in the queue.
  <2>2. ASSUME NEW b \in 1..Len(toPage), toPage[b] = toPage'[a], link = "open" PROVE Owed(i, toPage)'
    <3>1. i \in 1..Len(calls) /\ calls[i].code = "login"
      BY <1>5, <2>2, Queues1
    <3>2. i \in waiting /\ calls[i].pass # Right
      BY <1>1, <1>5, <3>1 DEF Kept1
    <3>3. Owed(i, toPage)
      BY <1>1, <1>5, <2>2, <3>2 DEF Accepted
    <3> QED
      BY <1>3, <1>5, <2>1, <2>2, <3>1, <3>3
\* The reply that the device gives now: a login is accepted for its
\* password, or because the device is logged in already.
  <2>3. ASSUME Handling, a = Len(toPage) + 1, Longer(toPage', toPage), toPage'[a].code = toDev[1].code,
               toPage'[a].id = toDev[1].id, toDev[1].code = "login" => (toPage'[a].ok = "true" <=> login')
        PROVE  Owed(i, toPage)'
    <3>1. /\ toDev[1].code = "login" /\ toDev[1].id = i /\ 1 \in 1..Len(toDev) /\ link = "open"
          /\ login' /\ (login' <=> login \/ toDev[1].pass = Right)
      BY <1>5, <2>1, <2>3 DEF Handling, Shorter
    <3>2. i \in 1..Len(calls) /\ calls[i].code = "login" /\ calls[i].conn = conn
      BY <3>1, Queues1
    <3>3. i \in waiting /\ calls[i].pass # Right
      BY <1>1, <1>5, <3>2 DEF Kept1
    <3>4. login
      BY <1>1, <3>1, <3>3, Assumptions DEF Origin
    <3>5. NoneBefore(toDev, 1)
      BY DEF NoneBefore
    <3>6. PICK j \in 1..Len(calls) : j < i /\ InBy(j)
      BY <1>1, <3>1, <3>3, <3>4, <3>5 DEF Asked
    <3>7. Owed(i, toPage)
      BY <3>2, <3>6 DEF Owed, InBy, InFlight
    <3> QED
      BY <1>3, <1>5, <2>1, <3>1, <3>2, <3>7
  <2>4. CASE Handling
    <3>1. link = "open"
      BY <2>1, <2>4 DEF Handling
    <3>2. CASE toPage' = toPage
      BY <1>5, <2>2, <3>1, <3>2
    <3>3. CASE Longer(toPage', toPage) /\ a \in 1..Len(toPage)
      BY <2>2, <3>1, <3>3 DEF Longer
    <3>4. CASE Longer(toPage', toPage) /\ a = Len(toPage) + 1
      <4>1. toPage' # toPage
        BY <3>4 DEF Longer
      <4> QED
        BY <2>3, <2>4, <3>4, <4>1 DEF Handling
    <3> QED
      BY <2>4, <3>2, <3>3, <3>4 DEF Handling, Longer
  <2>5. CASE Receiving
    <3>1. a + 1 \in 1..Len(toPage) /\ toPage[a + 1] = toPage'[a] /\ link = "open"
      BY <2>1, <2>5 DEF Receiving, Shorter
    <3> QED
      BY <2>2, <3>1
  <2>6. CASE Configuring
    <3>1. /\ link = "open"
          /\ toPage' = toPage \/ (Longer(toPage', toPage) /\ toPage'[Len(toPage) + 1].code = "config")
      BY <2>1, <2>6 DEF Configuring
    <3> QED
      BY <1>5, <2>2, <3>1 DEF Longer
  <2>7. CASE Opening
    BY <1>5, <2>7 DEF Opening
  <2>8. CASE Replying \/ LoggingOut \/ Nothing \/ \E k \in waiting : Expiring(k)
    <3>1. toPage' = toPage /\ link' = link
      BY <2>8 DEF Replying, LoggingOut, Nothing, Expiring
    <3> QED
      BY <1>5, <2>1, <2>2, <3>1
  <2>9. ASSUME NEW code \in Codes, NEW pass \in Passes, NEW form \in BOOLEAN, Asking(code, pass, form)
        PROVE  Owed(i, toPage)'
    <3>1. toPage' = toPage /\ link' = link
      BY <2>9 DEF Asking
    <3> QED
      BY <1>5, <2>1, <2>2, <3>1
  <2>10. ~Reconnecting
    BY <2>1 DEF Reconnecting
  <2> QED
    BY <2>1, <2>4, <2>5, <2>6, <2>7, <2>8, <2>9, <2>10, Steps
<1>6. ASSUME NEW a \in 1..Len(blobs'), blobs'[a].code = "login", blobs'[a].ok = "true",
             NEW i, i = blobs'[a].id, i \in waiting', calls'[i].pass # Right
      PROVE  Owed(i, blobs)'
  <2>1. ASSUME NEW b \in 1..Len(blobs), blobs[b] = blobs'[a] PROVE Owed(i, blobs)'
    <3>1. i \in 1..Len(calls) /\ calls[i].code = "login"
      BY <1>6, <2>1, Queues1
    <3>2. i \in waiting /\ calls[i].pass # Right
      BY <1>1, <1>6, <3>1 DEF Kept1
    <3>3. Owed(i, blobs)
      BY <1>1, <1>6, <2>1, <3>2 DEF Accepted
    <3> QED
      BY <1>4, <1>6, <3>1, <3>3
\* The reply that the page takes next is behind the one it is owed to.
  <2>2. ASSUME Receiving, a = Len(blobs) + 1 PROVE Owed(i, blobs)'
    <3>1. /\ blobs'[a] = toPage[1] /\ 1 \in 1..Len(toPage) /\ Longer(blobs', blobs)
          /\ UNCHANGED <<calls, waiting>>
      BY <2>2 DEF Receiving, Shorter, Same
    <3>2. i \in 1..Len(calls) /\ i \in waiting /\ calls[i].pass # Right /\ toPage[1].id = i
      BY <1>6, <3>1, Queues1
    <3>3. Owed(i, toPage)
      BY <1>1, <1>6, <3>1, <3>2 DEF Accepted
    <3>4. PICK j \in 1..Len(calls) :
              /\ j < i /\ calls[j].code = "login" /\ calls[j].conn = calls[i].conn
              /\ Bad(j) \/ (j \in waiting /\ (Says(blobs, j) \/ Says(toPage, j)))
      BY <3>3 DEF Owed
    <3>5. ~Says(toPage, j)
      <4>1. \A k \in 1..Len(toPage) : toPage[k].id # 0 => k = 1 \/ i < toPage[k].id
        <5>1. Growing(toPage) /\ Len(toPage) \in Nat /\ i # 0
          BY <3>2 DEF IInv, Order, TypeOK
        <5>2. \A k \in 1..Len(toPage) : k = 1 \/ 1 < k
          BY <5>1
        <5> QED
          BY <3>1, <3>2, <5>1, <5>2 DEF Growing
      <4>2. \A k \in 1..Len(toPage) : toPage[k].id # j
        BY <1>1, <3>2, <3>4, <4>1 DEF Kept1
      <4> QED
        BY <4>2 DEF Says
    <3>6. Bad(j) \/ (j \in waiting /\ Says(blobs', j))
      BY <3>1, <3>4, <3>5, LongerSays
    <3> QED
      BY <3>1, <3>4, <3>6 DEF Owed, Bad
  <2>3. CASE Receiving
    BY <2>1, <2>2, <2>3 DEF Receiving, Longer
  <2>4. CASE blobs' = blobs
    BY <1>6, <2>1, <2>4
  <2>5. CASE Shorter(blobs', blobs)
    <3>1. a + 1 \in 1..Len(blobs) /\ blobs[a + 1] = blobs'[a]
      BY <2>5 DEF Shorter
    <3> QED
      BY <2>1, <3>1
  <2> QED
    BY <2>3, <2>4, <2>5, Steps
       DEF Asking, Replying, Expiring, LoggingOut, Handling, Configuring, Opening, Losing, Reconnecting, Nothing
<1> QED
  BY <1>5, <1>6 DEF Accepted, Owed

\* The call that its own reply accepts with a wrong password is behind the
\* login that the reply is owed to: woken by the same reply, or long decided.
LEMMA RememberedNext == ASSUME IInv, IInv', LInv, [Next]_vars, NoStaleForm' PROVE RememberedRight'
<1>1. Kept1 /\ RememberedRight /\ Accepted /\ Ended
  BY Calls1 DEF LInv
<1>0. NoStaleForm
  BY <1>1 DEF NoStaleForm, Kept1
<1> SUFFICES ASSUME NEW i \in 1..Len(calls'), calls'[i].kept = Wrong, calls'[i].pass # Right, calls'[i].by = i
             PROVE  \E j \in 1..(i - 1) : calls'[j].code = "login" /\ calls'[j].conn = calls'[i].conn /\ Bad(j)'
  BY DEF RememberedRight, Bad
<1>2. /\ i \in answered' /\ i \notin waiting'
      /\ calls'[i].code = "login" /\ calls'[i].end = "true"
  BY <1>1, EndedNext, Assumptions DEF Ended, Kept1
<1>3. i \in 1..Len(calls)
  <2>1. ASSUME NEW code \in Codes, NEW pass \in Passes, NEW form \in BOOLEAN, Asking(code, pass, form)
        PROVE  i \in 1..Len(calls)
    <3>1. \A k \in 1..Len(calls') : k \in 1..Len(calls) \/ k = Len(calls) + 1
      BY <1>1 DEF Kept1
    <3>2. calls'[Len(calls) + 1].end # "true"
      BY <2>1 DEF Asking
    <3> QED
      BY <1>2, <3>1, <3>2
  <2>2. (Same \/ Ending) => Len(calls') = Len(calls)
    BY DEF Same, Ending
  <2> QED
    BY <2>1, <2>2, Steps
       DEF LoggingOut, Handling, Receiving, Configuring, Opening, Losing, Reconnecting, Nothing, Replying, Expiring
<1>4. calls[i].pass # Right /\ calls[i].code = "login" /\ Len(calls) \in Nat
  BY <1>1, <1>2, <1>3 DEF Kept1
<1>5. ASSUME NEW j \in 1..Len(calls), j < i, calls[j].code = "login", calls[j].conn = calls[i].conn, Bad(j)'
      PROVE  \E k \in 1..(i - 1) : calls'[k].code = "login" /\ calls'[k].conn = calls'[i].conn /\ Bad(k)'
  <2>1. j \in 1..(i - 1)
    BY <1>3, <1>4, <1>5
  <2> QED
    BY <1>1, <1>3, <1>5, <2>1 DEF Kept1
<1>6. CASE i \notin waiting
  <2>1. calls[i].kept = Wrong /\ calls[i].by = i
    BY <1>1, <1>3, <1>6, KeptStays, Assumptions DEF Kept1
  <2>2. PICK j \in 1..(i - 1) : calls[j].code = "login" /\ calls[j].conn = calls[i].conn /\ Bad(j)
    BY <1>0, <1>1, <1>3, <1>4, <2>1 DEF RememberedRight, Bad
  <2>3. j \in 1..Len(calls) /\ j < i
    BY <1>3, <1>4
  <2> QED
    BY <1>1, <1>5, <2>2, <2>3, BadStays
<1>7. CASE i \in waiting
  <2>1. calls[i].end = "none"
    BY <1>1, <1>7 DEF Kept1
  <2>2. Replying /\ i \in Woken(blobs[1])
    <3>1. ASSUME NEW k \in waiting, Expiring(k) PROVE FALSE
      BY <1>2, <1>3, <2>1, <3>1 DEF Expiring
    <3>2. ASSUME NEW code \in Codes, NEW pass \in Passes, NEW form \in BOOLEAN, Asking(code, pass, form)
          PROVE  FALSE
      BY <1>2, <1>3, <2>1, <3>2 DEF Asking
    <3>3. ~Same
      BY <1>2, <2>1 DEF Same
    <3>4. Replying
      BY <3>1, <3>2, <3>3, Steps
         DEF LoggingOut, Handling, Receiving, Configuring, Opening, Losing, Reconnecting, Nothing
    <3> QED
      BY <1>2, <1>3, <2>1, <3>4 DEF Replying
  <2>3. blobs[1].id = i /\ blobs[1].ok = "true" /\ blobs[1].code = "login" /\ 1 \in 1..Len(blobs)
    BY <1>2, <1>3, <1>4, <2>2 DEF Replying, Woken, Shorter
  <2>4. PICK j \in 1..Len(calls) :
            /\ j < i /\ calls[j].code = "login" /\ calls[j].conn = calls[i].conn
            /\ Bad(j) \/ (j \in waiting /\ Says(blobs, j))
    BY <1>1, <1>4, <1>7, <2>3 DEF Accepted, Owed
  <2>5. Bad(j)'
    <3>1. CASE Bad(j)
      BY <1>1, <3>1, BadStays
    <3>2. CASE j \in waiting
      <4>1. j \in Woken(blobs[1]) /\ calls'[j].by = i
        BY <2>2, <2>3, <2>4, <3>2, WakesLogins
      <4> QED
        BY <1>3, <2>4, <4>1 DEF Bad
    <3> QED
      BY <2>4, <3>1, <3>2
  <2> QED
    BY <1>5, <2>4, <2>5
<1> QED
  BY <1>6, <1>7

-----------------------------------------------------------------------------
(* The theorems.                                                            *)

LEMMA LoginInit == Init => LInv
<1> SUFFICES ASSUME Init PROVE LInv
  OBVIOUS
<1>1. Len(calls) = 0 /\ Len(toDev) = 0 /\ Len(toPage) = 0 /\ Len(blobs) = 0 /\ waiting = {} /\ ~isLogin /\ ~login
  BY DEF Init
<1>2. Ended /\ Origin /\ Shown /\ StaysIn
  BY <1>1 DEF Ended, Origin, Shown, StaysIn
<1>3. Sure /\ Author /\ Asked /\ Accepted /\ RememberedRight
  BY <1>1 DEF Sure, Author, Asked, Accepted, RememberedRight
<1> QED
  BY <1>2, <1>3 DEF LInv

LEMMA LoginNext == IInv /\ IInv' /\ LoginInv /\ [Next]_vars => LoginInv'
<1> SUFFICES ASSUME IInv, IInv', LoginInv, [Next]_vars, NoStaleForm' PROVE LInv'
  BY DEF LoginInv
<1>1. NoStaleForm
  BY Calls1 DEF Kept1, NoStaleForm
<1>2. LInv
  BY <1>1 DEF LoginInv
<1> QED
  BY <1>2, EndedNext, OriginNext, ShownNext, StaysInNext, SureNext, AuthorNext, AskedNext, AcceptedNext,
     RememberedNext DEF LInv

\* Every state of the page and the device keeps who logged in, who is told so
\* and what is remembered in agreement, until a form that was left open asks
\* for a second login (api.ts login, logout and onGotBinaryMessage; Login.vue;
\* on_ws_login and on_ws_logout of the device).
THEOREM LoginAgrees == Spec => []LoginInv
<1>1. Init => LoginInv
  BY LoginInit DEF LoginInv
<1> QED
  BY <1>1, Correspondence, LoginNext, PTL DEF Spec

\* Whom the page shows as logged in is logged in on the device, if every call
\* got its own reply, none was handled after its connection was lost and no
\* form that was left open asked for a second login (isLogin of api.ts,
\* is_login of the client on the device).
THEOREM ShownIsIn == Spec => []LoginView
<1>1. LoginInv => LoginView
  BY DEF LoginInv, LInv, Sure, LoginView
<1> QED
  BY <1>1, LoginAgrees, PTL

\* The password that Login.vue reads from its form when the call resolves, and
\* remembers, is a wrong one only if the right one was sent and the field was
\* changed since, or the reply was another's, or the device had been logged in
\* by a call of which the page does not know that it was accepted; or if a form
\* that was left open was submitted (Login.vue, on_ws_login).
THEOREM WrongNotKept == Spec => []RememberedRight
<1>1. LoginInv => RememberedRight
  BY DEF LoginInv, LInv, RememberedRight
<1> QED
  BY <1>1, LoginAgrees, PTL

=============================================================================
