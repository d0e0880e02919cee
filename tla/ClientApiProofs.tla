---------------------------- MODULE ClientApiProofs ----------------------------
(***************************************************************************)
(* Proofs about ClientApi, for any number of requests, lost connections    *)
(* and configurations.                                                     *)
(*                                                                         *)
(* That a reply wakes the request it belongs to follows from the order in  *)
(* which a connection and its thread keep messages: ids grow along the     *)
(* three queues from the device's hands to the page's (Order), a queue     *)
(* holds replies that are due (Wire), and none is left out (Fifo).         *)
(***************************************************************************)
EXTENDS ClientApi, TLAPS

Passes == {Right, Wrong, None}

\* What is under way belongs to a call that was sent and is not answered yet.
Due(m) ==
    /\ m.code \in Codes => /\ m.id \in 1..Len(calls) /\ calls[m.id].code = m.code
                           /\ m.id \notin answered /\ calls[m.id].end # "unsent"
    /\ m.code \notin Codes => m.id = 0
Now(m) == m.code \in Codes => calls[m.id].conn = conn

Wire ==
    /\ \A k \in 1..Len(toDev) : Due(toDev[k]) /\ Now(toDev[k])
    /\ \A k \in 1..Len(toPage) : Due(toPage[k]) /\ Now(toPage[k])
    /\ \A k \in 1..Len(blobs) : Due(blobs[k])
    /\ link # "open" => toDev = <<>> /\ toPage = <<>>

\* The ids of requests grow in a queue, and from one queue to the next.
Growing(s) == \A a, b \in 1..Len(s) : a < b /\ s[a].id # 0 /\ s[b].id # 0 => s[a].id < s[b].id
Below(s, t) == \A a \in 1..Len(s), b \in 1..Len(t) : s[a].id # 0 /\ t[b].id # 0 => s[a].id < t[b].id

Order ==
    /\ Growing(blobs) /\ Growing(toPage) /\ Growing(toDev)
    /\ Below(blobs, toPage) /\ Below(blobs, toDev) /\ Below(toPage, toDev)

Has(s, i) == \E k \in 1..Len(s) : s[k].id = i
Queued(i) == Has(toDev, i) \/ Has(toPage, i) \/ Has(blobs, i)

\* No call of a connection is left out.
Fifo ==
    /\ \A i \in 1..Len(calls) : calls[i].conn <= conn
    /\ link = "connecting" => \A i \in 1..Len(calls) : calls[i].conn = conn => calls[i].end = "unsent"
    /\ link = "open" => \A i \in 1..Len(calls) :
           calls[i].conn = conn /\ calls[i].end # "unsent" => i \in answered \/ Queued(i)
    /\ \A k \in 1..Len(blobs) : \A i \in 1..Len(calls) :
           /\ blobs[k].code \in Codes /\ i < blobs[k].id
           /\ calls[i].conn = calls[blobs[k].id].conn /\ calls[i].end # "unsent"
           => i \in answered \/ Has(blobs, i)

Alones ==
    \A i \in 1..Len(calls) : calls[i].alone =>
        \A j \in 1..(i - 1) : calls[j].code = calls[i].code /\ calls[j].conn = calls[i].conn =>
            j \in answered \/ calls[j].end = "unsent"

Done == answered \intersect waiting = {}

\* calls[i].by names a call.
Woke == \A i \in 1..Len(calls) : calls[i].by \in 0..Len(calls)

IInv == TypeOK /\ OneConnection /\ Wire /\ Order /\ Fifo /\ Alones /\ Done /\ Woke /\ OwnReply

-----------------------------------------------------------------------------
(* Sequences.                                                               *)

LEMMA Appended ==
    ASSUME NEW S, NEW s \in Seq(S), NEW m
    PROVE  /\ Len(Append(s, m)) = Len(s) + 1 /\ Append(s, m)[Len(s) + 1] = m /\ Len(s) \in Nat
           /\ \A k \in 1..Len(s) : Append(s, m)[k] = s[k]
OBVIOUS

LEMMA Tailed ==
    ASSUME NEW S, NEW s \in Seq(S), s # <<>>
    PROVE  /\ Head(s) = s[1] /\ Head(s) \in S /\ Tail(s) \in Seq(S)
           /\ Len(s) \in Nat /\ Len(s) >= 1 /\ Len(Tail(s)) = Len(s) - 1
           /\ \A k \in 1..Len(Tail(s)) : Tail(s)[k] = s[k + 1] /\ k + 1 \in 1..Len(s)
OBVIOUS

-----------------------------------------------------------------------------
(* Types.                                                                   *)

LEMMA TypeInit == Init => TypeOK
<1> SUFFICES ASSUME Init PROVE TypeOK
  OBVIOUS
<1>1. /\ calls \in Seq(Call) /\ toDev \in Seq(Message) /\ toPage \in Seq(Answer)
      /\ blobs \in Seq(Answer) /\ Len(calls) = 0
  BY DEF Init
<1>2. waiting = {i \in 1..Len(calls) : calls[i].end = "none"} /\ answered \subseteq 1..Len(calls)
  BY <1>1 DEF Init
<1>3. remember \in {Right, Wrong, None}
  BY Assumptions DEF Init
<1> QED
  BY <1>1, <1>2, <1>3 DEF Init, TypeOK

LEMMA RequestCall ==
    ASSUME TypeOK, NEW code \in Codes, NEW pass \in Passes, NEW form \in BOOLEAN,
           Request(code, pass, form)
    PROVE  /\ Len(calls) \in Nat /\ Len(calls') = Len(calls) + 1 /\ calls' \in Seq(Call)
           /\ \A i \in 1..Len(calls) : calls'[i] = calls[i]
           /\ calls'[Len(calls) + 1] =
                  [code |-> code, pass |-> pass, form |-> form, shown |-> isLogin,
                   conn |-> conn, alone |-> Alone(code), by |-> 0, kept |-> None,
                   end |-> IF Throws THEN "unsent" ELSE "none"]
           /\ waiting' = {i \in 1..Len(calls') : calls'[i].end = "none"}
           /\ toDev' \in Seq(Message)
<1> DEFINE c == [code |-> code, pass |-> pass, form |-> form, shown |-> isLogin,
                 conn |-> conn, alone |-> Alone(code), by |-> 0, kept |-> None,
                 end |-> IF Throws THEN "unsent" ELSE "none"]
<1>1. calls \in Seq(Call) /\ waiting = {i \in 1..Len(calls) : calls[i].end = "none"} /\ toDev \in Seq(Message)
  BY DEF TypeOK
<1>2. c \in Call
  BY DEF Call, Passes, TypeOK, Alone
<1>3. calls' = Append(calls, c)
  BY DEF Request
<1>4. /\ Len(calls) \in Nat /\ Len(calls') = Len(calls) + 1 /\ calls'[Len(calls) + 1] = c
      /\ \A i \in 1..Len(calls) : calls'[i] = calls[i]
  BY <1>1, <1>3, Appended
<1>5. calls' \in Seq(Call)
  BY <1>1, <1>2, <1>3
<1>6. c.end = (IF Throws THEN "unsent" ELSE "none")
  OBVIOUS
<1> HIDE DEF c
<1>7. waiting' = {i \in 1..Len(calls') : calls'[i].end = "none"}
  BY <1>1, <1>4, <1>6 DEF Request
<1>8. toDev' \in Seq(Message)
  <2>1. [code |-> code, pass |-> pass, id |-> Len(calls) + 1] \in Message
    BY <1>4 DEF Message, Codes, Passes
  <2> QED
    BY <1>1, <2>1 DEF Request
<1> QED
  BY <1>4, <1>5, <1>7, <1>8 DEF c

\* The actions in which the page makes a request.
Asks(code, pass, form) ==
    /\ Request(code, pass, form)
    /\ UNCHANGED <<netVars, isLogin, remember, answered, toPage, login, casts>>
    /\ blobs' = blobs \/ (blobs # <<>> /\ Head(blobs).code = "config" /\ blobs' = Tail(blobs))

LEMMA TypeRequest ==
    ASSUME TypeOK, NEW code \in Codes, NEW pass \in Passes, NEW form \in BOOLEAN,
           Asks(code, pass, form),
           status' \in {"DISCONNECTED", "CONNECTIING", "CONNECTED"}, stale' \in BOOLEAN
    PROVE  TypeOK'
<1>1. /\ Len(calls) \in Nat /\ Len(calls') = Len(calls) + 1 /\ calls' \in Seq(Call)
      /\ waiting' = {i \in 1..Len(calls') : calls'[i].end = "none"} /\ toDev' \in Seq(Message)
  BY RequestCall DEF Asks
<1>2. blobs' \in Seq(Answer)
  BY Tailed DEF Asks, TypeOK
<1>3. answered' \subseteq 1..Len(calls')
  BY <1>1 DEF Asks, TypeOK
<1>4. /\ UNCHANGED <<link, conn, timer, losses, isLogin, remember, toPage, login, casts>>
  BY DEF Asks, netVars
<1> QED
  BY <1>1, <1>2, <1>3, <1>4 DEF TypeOK

\* What the handling of a reply does to the calls.
LEMMA ReplyCalls ==
    ASSUME IInv, HandleReply
    PROVE  LET m == Head(blobs) IN
           /\ m = blobs[1] /\ Len(blobs) >= 1 /\ m \in Answer /\ m.code # "config" /\ Due(m)
           /\ blobs' = Tail(blobs) /\ blobs' \in Seq(Answer)
           /\ Len(calls') = Len(calls) /\ calls' \in Seq(Call) /\ Len(calls) \in Nat
           /\ \A i \in 1..Len(calls) :
                 /\ calls[i] \in Call
                 /\ calls'[i].code = calls[i].code /\ calls'[i].conn = calls[i].conn
                 /\ calls'[i].alone = calls[i].alone /\ calls'[i].pass = calls[i].pass
                 /\ calls'[i].form = calls[i].form /\ calls'[i].shown = calls[i].shown
                 /\ calls'[i].end = (IF i \in Woken(m) THEN m.ok ELSE calls[i].end)
                 /\ calls'[i].by = (IF i \in Woken(m) THEN m.id ELSE calls[i].by)
                 /\ calls'[i].kept # None => i \in Forms(m) \/ (i \notin Woken(m) /\ calls'[i].kept = calls[i].kept)
           /\ waiting' = waiting \ Woken(m) /\ waiting' = {i \in 1..Len(calls') : calls'[i].end = "none"}
           /\ answered' = IF m.code = "logout" THEN answered ELSE answered \union {m.id}
           /\ answered' \subseteq 1..Len(calls')
           /\ m.id \in Nat /\ m.ok \in {"true", "false", "error"}
<1> DEFINE m == Head(blobs)
<1>0. TypeOK /\ Wire
  BY DEF IInv
<1>1. blobs # <<>> /\ m.code # "config" /\ blobs' = Tail(blobs)
  BY DEF HandleReply
<1>2. m = blobs[1] /\ m \in Answer /\ blobs' \in Seq(Answer) /\ Len(blobs) >= 1 /\ 1 \in 1..Len(blobs)
  BY <1>0, <1>1, Tailed DEF TypeOK
<1>3. Due(m)
  BY <1>0, <1>2 DEF Wire
<1>4. m.id \in Nat /\ m.ok \in {"true", "false", "error"} /\ m.code \in Codes \union {"logout", "config"}
  BY <1>2 DEF Answer
<1>5. Len(calls) \in Nat /\ \A i \in 1..Len(calls) : calls[i] \in Call
  BY <1>0 DEF TypeOK
<1>k. PICK kept \in [Forms(m) -> Passes] :
          calls' = [i \in 1..Len(calls) |->
                 IF i \notin Woken(m) THEN calls[i]
                 ELSE [calls[i] EXCEPT !.end = m.ok, !.by = m.id,
                                       !.kept = IF i \in Forms(m) THEN kept[i] ELSE None]]
  BY DEF HandleReply, Passes
<1> DEFINE K(i) == IF i \in Forms(m) THEN kept[i] ELSE None
           G(i) == IF i \notin Woken(m) THEN calls[i]
                   ELSE [calls[i] EXCEPT !.end = m.ok, !.by = m.id, !.kept = K(i)]
<1>6. calls' = [i \in 1..Len(calls) |-> G(i)] /\ waiting' = waiting \ Woken(m)
      /\ answered' = IF m.code = "logout" THEN answered ELSE answered \union {m.id}
  BY <1>k DEF HandleReply
<1>p. \A i : K(i) \in Passes /\ (K(i) # None => i \in Forms(m))
  BY DEF Passes
<1> HIDE DEF m
<1>7. \A i \in 1..Len(calls) : G(i) \in Call
  <2> HIDE DEF K
  <2> QED
    BY <1>4, <1>5, <1>p DEF Call, Passes
<1>8. calls' \in Seq(Call) /\ Len(calls') = Len(calls)
  <2>1. PICK n \in Nat : n = Len(calls)
    BY <1>5
  <2> HIDE DEF G
  <2>2. calls' \in [1..n -> Call]
    BY <1>6, <1>7, <2>1
  <2> QED
    BY <2>1, <2>2
<1>9. \A i \in 1..Len(calls) :
         /\ calls'[i].code = calls[i].code /\ calls'[i].conn = calls[i].conn
         /\ calls'[i].alone = calls[i].alone /\ calls'[i].pass = calls[i].pass
         /\ calls'[i].form = calls[i].form /\ calls'[i].shown = calls[i].shown
         /\ calls'[i].end = (IF i \in Woken(m) THEN m.ok ELSE calls[i].end)
         /\ calls'[i].by = (IF i \in Woken(m) THEN m.id ELSE calls[i].by)
         /\ calls'[i].kept # None => i \in Forms(m) \/ (i \notin Woken(m) /\ calls'[i].kept = calls[i].kept)
  <2> SUFFICES ASSUME NEW i \in 1..Len(calls)
               PROVE  /\ calls'[i].code = calls[i].code /\ calls'[i].conn = calls[i].conn
                      /\ calls'[i].alone = calls[i].alone /\ calls'[i].pass = calls[i].pass
                      /\ calls'[i].form = calls[i].form /\ calls'[i].shown = calls[i].shown
                      /\ calls'[i].end = (IF i \in Woken(m) THEN m.ok ELSE calls[i].end)
                      /\ calls'[i].by = (IF i \in Woken(m) THEN m.id ELSE calls[i].by)
                      /\ calls'[i].kept # None =>
                             i \in Forms(m) \/ (i \notin Woken(m) /\ calls'[i].kept = calls[i].kept)
    OBVIOUS
  <2>1. calls'[i] = G(i) /\ calls[i] \in Call
    BY <1>5, <1>6
  <2> HIDE DEF K
  <2>2. CASE i \in Woken(m)
    BY <1>p, <2>1, <2>2 DEF Call
  <2>3. CASE i \notin Woken(m)
    BY <2>1, <2>3
  <2> QED
    BY <2>2, <2>3
<1>10. waiting' = {i \in 1..Len(calls') : calls'[i].end = "none"}
  <2>1. \A i \in 1..Len(calls) : calls'[i].end = (IF i \in Woken(m) THEN m.ok ELSE calls[i].end)
    BY <1>9
  <2>2. m.ok # "none" /\ waiting = {i \in 1..Len(calls) : calls[i].end = "none"}
    BY <1>0, <1>4 DEF TypeOK
  <2>3. waiting' = waiting \ Woken(m) /\ Len(calls') = Len(calls)
    BY <1>6, <1>8
  <2> QED
    BY <2>1, <2>2, <2>3
<1>11. answered' \subseteq 1..Len(calls')
  BY <1>0, <1>1, <1>3, <1>4, <1>6, <1>8 DEF TypeOK, Due
<1> QED
  BY <1>1, <1>2, <1>3, <1>4, <1>5, <1>6, <1>8, <1>9, <1>10, <1>11 DEF m

LEMMA TypeNext == IInv /\ [Next]_vars => TypeOK'
<1> SUFFICES ASSUME IInv, [Next]_vars PROVE TypeOK'
  OBVIOUS
<1> USE DEF netVars, callVars
<1>0. TypeOK /\ Wire
  BY DEF IInv
<1>1. ASSUME NEW p \in {Right, Wrong}, UserLogin(p) PROVE TypeOK'
  <2>1. Asks("login", p, TRUE) /\ UNCHANGED <<status, stale>> /\ "login" \in Codes /\ p \in Passes
    BY <1>1 DEF UserLogin, Asks, Codes, Passes
  <2> QED
    BY <1>0, <2>1, TypeRequest DEF TypeOK
<1>1a. CASE ClickLogin
  <2>1. Asks("login", remember, FALSE) /\ UNCHANGED <<status, stale>> /\ "login" \in Codes /\ remember \in Passes
    BY <1>0, <1>1a DEF ClickLogin, Asks, Codes, Passes, TypeOK
  <2> QED
    BY <1>0, <2>1, TypeRequest DEF TypeOK
<1>2. CASE UserForm
  <2>1. Asks("secure", None, FALSE) /\ UNCHANGED <<status, stale>> /\ "secure" \in Codes /\ None \in Passes
    BY <1>2 DEF UserForm, Asks, Codes, Passes
  <2> QED
    BY <1>0, <2>1, TypeRequest DEF TypeOK
<1>3. CASE UserLogout
  <2>1. [code |-> "logout", pass |-> None, id |-> 0] \in Message
    BY DEF Message
  <2>2. toDev' \in Seq(Message)
    BY <1>0, <1>3, <2>1 DEF UserLogout, TypeOK
  <2> QED
    BY <1>0, <1>3, <2>2 DEF UserLogout, TypeOK
<1>4. ASSUME NEW i \in waiting, Timeout(i) PROVE TypeOK'
  <2>1. i \in 1..Len(calls) /\ calls[i] \in Call /\ Len(calls) \in Nat
    BY <1>0 DEF TypeOK
  <2>2. [calls[i] EXCEPT !.end = "timeout"] \in Call
    BY <2>1 DEF Call
  <2>3. calls' \in Seq(Call) /\ Len(calls') = Len(calls)
    BY <1>0, <1>4, <2>1, <2>2 DEF Timeout, TypeOK
  <2>4. \A j \in 1..Len(calls) : calls'[j].end = IF j = i THEN "timeout" ELSE calls[j].end
    <3> SUFFICES ASSUME NEW j \in 1..Len(calls)
                 PROVE  calls'[j].end = IF j = i THEN "timeout" ELSE calls[j].end
      OBVIOUS
    <3>1. calls'[j] = IF j = i THEN [calls[i] EXCEPT !.end = "timeout"] ELSE calls[j]
      BY <1>0, <1>4, <2>1 DEF Timeout, TypeOK
    <3> QED
      BY <2>1, <3>1 DEF Call
  <2>5. waiting' = {j \in 1..Len(calls') : calls'[j].end = "none"}
    BY <1>0, <1>4, <2>3, <2>4 DEF Timeout, TypeOK
  <2> QED
    BY <1>0, <1>4, <2>3, <2>5 DEF Timeout, TypeOK
<1>5. CASE Handle
  <2>1. Head(toDev) \in Message /\ Tail(toDev) \in Seq(Message)
    BY <1>0, <1>5, Tailed DEF Handle, TypeOK
  <2>2. \A ok \in Replies(Head(toDev)) :
           [code |-> Head(toDev).code, id |-> Head(toDev).id, conn |-> conn, ok |-> ok] \in Answer
    BY <1>0, <2>1 DEF Replies, Answer, Message, Codes, TypeOK
  <2>3. toPage' \in Seq(Answer)
    <3>1. CASE UNCHANGED toPage
      BY <1>0, <3>1 DEF TypeOK
    <3>2. CASE ~UNCHANGED toPage
      <4>1. PICK ok \in Replies(Head(toDev)) : toPage' = Append(toPage,
                [code |-> Head(toDev).code, id |-> Head(toDev).id, conn |-> conn, ok |-> ok])
        BY <1>5, <3>2 DEF Handle
      <4> QED
        BY <1>0, <2>2, <4>1 DEF TypeOK
    <3> QED
      BY <3>1, <3>2
  <2>4. login' \in BOOLEAN
    BY <1>0, <1>5, <2>1 DEF Handle, TypeOK, Accepts
  <2> QED
    BY <1>0, <1>5, <2>1, <2>3, <2>4 DEF Handle, TypeOK
<1>6. CASE Broadcast
  <2>1. Config \in Answer
    BY <1>0 DEF Config, Answer, TypeOK
  <2> QED
    BY <1>0, <1>6, <2>1 DEF Broadcast, TypeOK
<1>7. CASE Receive
  <2>1. Head(toPage) \in Answer /\ Tail(toPage) \in Seq(Answer)
    BY <1>0, <1>7, Tailed DEF Receive, TypeOK
  <2> QED
    BY <1>0, <1>7, <2>1 DEF Receive, TypeOK
<1>8. CASE HandleReply
  <2>1. /\ calls' \in Seq(Call) /\ blobs' \in Seq(Answer) /\ answered' \subseteq 1..Len(calls')
        /\ waiting' = {i \in 1..Len(calls') : calls'[i].end = "none"}
    BY <1>8, ReplyCalls
  <2>2. isLogin' \in BOOLEAN /\ stale' \in BOOLEAN
    BY <1>0, <1>8 DEF HandleReply, TypeOK
  <2>3. remember' \in Passes
    <3>1. remember \in Passes
      BY <1>0 DEF TypeOK, Passes
    <3>2. PICK kept \in [Forms(Head(blobs)) -> Passes] : Remember(Head(blobs), kept)
      BY <1>8 DEF HandleReply, Passes
    <3> QED
      BY <3>1, <3>2 DEF Remember
  <2> QED
    BY <1>0, <1>8, <2>1, <2>2, <2>3 DEF HandleReply, TypeOK, Passes
<1>9. CASE HandleConfig
  <2>1. /\ status' \in {"DISCONNECTED", "CONNECTIING", "CONNECTED"} /\ stale' \in BOOLEAN
        /\ blobs # <<>> /\ Head(blobs).code = "config" /\ blobs' = Tail(blobs)
    BY <1>0, <1>9 DEF HandleConfig, TypeOK
  <2>2. CASE Request("login", remember, FALSE)
    <3>1. Asks("login", remember, FALSE) /\ "login" \in Codes /\ remember \in Passes
      BY <1>0, <1>9, <2>1, <2>2 DEF HandleConfig, Asks, Codes, Passes, TypeOK
    <3> QED
      BY <1>0, <2>1, <3>1, TypeRequest
  <2>3. CASE UNCHANGED <<calls, waiting, toDev>>
    <3>1. blobs' \in Seq(Answer)
      BY <1>0, <2>1, Tailed DEF TypeOK
    <3> QED
      BY <1>0, <1>9, <2>1, <2>3, <3>1 DEF HandleConfig, TypeOK
  <2> QED
    BY <1>9, <2>2, <2>3 DEF HandleConfig
<1>10. CASE Connect
  <2>1. conn' \in Nat
    BY <1>0, <1>10 DEF Connect, TypeOK
  <2>2. calls' \in Seq(Call) /\ waiting' = {i \in 1..Len(calls') : calls'[i].end = "none"}
    BY <1>0, <1>10 DEF Connect, TypeOK
  <2> QED
    BY <1>0, <1>10, <2>1, <2>2 DEF Connect, TypeOK
<1>11. CASE Open
  <2>1. <<Config>> \in Seq(Answer) /\ <<>> \in Seq(Message)
    BY <1>0 DEF Config, Answer, TypeOK
  <2> QED
    BY <1>0, <1>11, <2>1 DEF Open, TypeOK
<1>12. CASE Lose
  BY <1>0, <1>12 DEF Lose, TypeOK
<1>13. CASE OnClose
  BY <1>0, <1>13 DEF OnClose, TypeOK
<1>14. CASE UNCHANGED vars
  BY <1>0, <1>14 DEF vars, TypeOK
<1> QED
  BY <1>1, <1>1a, <1>2, <1>3, <1>4, <1>5, <1>6, <1>7, <1>8, <1>9, <1>10, <1>11, <1>12, <1>13, <1>14
     DEF Next, Network, Page, User

-----------------------------------------------------------------------------
(* What no step changes.                                                    *)

CallsKept ==
    /\ Len(calls) \in Nat /\ Len(calls') \in Nat /\ Len(calls) <= Len(calls')
    /\ \A i \in 1..Len(calls) :
          /\ calls'[i].code = calls[i].code /\ calls'[i].conn = calls[i].conn
          /\ calls'[i].alone = calls[i].alone
          /\ calls'[i].end = "unsent" <=> calls[i].end = "unsent"

\* Where calls and the answered ones change.
LEMMA Parts ==
    ASSUME IInv, [Next]_vars
    PROVE  \/ \E code \in Codes, pass \in Passes, form \in BOOLEAN : Asks(code, pass, form)
           \/ \E i \in waiting : Timeout(i)
           \/ HandleReply
           \/ UNCHANGED callVars
<1> USE DEF netVars, callVars
<1>0. TypeOK
  BY DEF IInv
<1>1. ASSUME NEW p \in {Right, Wrong}, UserLogin(p)
      PROVE  \E code \in Codes, pass \in Passes, k \in BOOLEAN : Asks(code, pass, k)
  <2>1. Asks("login", p, TRUE) /\ "login" \in Codes /\ p \in Passes
    BY <1>1 DEF UserLogin, Asks, Codes, Passes
  <2> QED
    BY <2>1
<1>2. ASSUME UserForm
      PROVE  \E code \in Codes, pass \in Passes, k \in BOOLEAN : Asks(code, pass, k)
  <2>1. Asks("secure", None, FALSE) /\ "secure" \in Codes /\ None \in Passes
    BY <1>2 DEF UserForm, Asks, Codes, Passes
  <2> QED
    BY <2>1
<1>3. ASSUME HandleConfig, ~UNCHANGED callVars
      PROVE  \E code \in Codes, pass \in Passes, k \in BOOLEAN : Asks(code, pass, k)
  <2>1. Asks("login", remember, FALSE) /\ "login" \in Codes /\ remember \in Passes
    BY <1>0, <1>3 DEF HandleConfig, Asks, Codes, Passes, TypeOK
  <2> QED
    BY <2>1
<1>4. ASSUME UserLogout \/ Network \/ Broadcast \/ Connect \/ OnClose \/ Lose \/ UNCHANGED vars
      PROVE  UNCHANGED callVars
  BY <1>4 DEF UserLogout, Network, Open, Receive, Handle, Broadcast, Connect, OnClose, Lose, vars
<1>5. ASSUME ClickLogin
      PROVE  \E code \in Codes, pass \in Passes, k \in BOOLEAN : Asks(code, pass, k)
  <2>1. Asks("login", remember, FALSE) /\ "login" \in Codes /\ remember \in Passes
    BY <1>0, <1>5 DEF ClickLogin, Asks, Codes, Passes, TypeOK
  <2> QED
    BY <2>1
<1> QED
  BY <1>1, <1>2, <1>3, <1>4, <1>5 DEF Next, Page, User

LEMMA TimeoutCalls ==
    ASSUME TypeOK, NEW i \in waiting, Timeout(i)
    PROVE  /\ Len(calls') = Len(calls) /\ Len(calls) \in Nat /\ answered' = answered
           /\ \A j \in 1..Len(calls) :
                 /\ calls'[j].code = calls[j].code /\ calls'[j].conn = calls[j].conn
                 /\ calls'[j].alone = calls[j].alone /\ calls'[j].by = calls[j].by
                 /\ calls'[j].end = IF j = i THEN "timeout" ELSE calls[j].end
<1>1. i \in 1..Len(calls) /\ calls[i] \in Call /\ Len(calls) \in Nat /\ calls \in Seq(Call)
  BY DEF TypeOK
<1>2. Len(calls') = Len(calls) /\ answered' = answered
  BY <1>1 DEF Timeout, callVars
<1>3. ASSUME NEW j \in 1..Len(calls)
      PROVE  /\ calls'[j].code = calls[j].code /\ calls'[j].conn = calls[j].conn
             /\ calls'[j].alone = calls[j].alone /\ calls'[j].by = calls[j].by
             /\ calls'[j].end = IF j = i THEN "timeout" ELSE calls[j].end
  <2>1. calls'[j] = IF j = i THEN [calls[i] EXCEPT !.end = "timeout"] ELSE calls[j]
    BY <1>1 DEF Timeout
  <2> QED
    BY <1>1, <2>1 DEF Call
<1> QED
  BY <1>1, <1>2, <1>3

LEMMA Keeping ==
    ASSUME IInv, [Next]_vars
    PROVE  CallsKept
<1>0. TypeOK /\ Len(calls) \in Nat /\ waiting = {i \in 1..Len(calls) : calls[i].end = "none"}
  BY DEF IInv, TypeOK
<1>1. ASSUME NEW code \in Codes, NEW pass \in Passes, NEW form \in BOOLEAN, Asks(code, pass, form)
      PROVE  CallsKept
  <2>1. /\ Len(calls') = Len(calls) + 1 /\ \A i \in 1..Len(calls) : calls'[i] = calls[i]
    BY <1>0, <1>1, RequestCall DEF Asks
  <2> QED
    BY <1>0, <2>1 DEF CallsKept
<1>2. ASSUME NEW i \in waiting, Timeout(i) PROVE CallsKept
  BY <1>0, <1>2, TimeoutCalls DEF CallsKept
<1>3. CASE HandleReply
  <2> DEFINE m == Head(blobs)
  <2>1. /\ Len(calls') = Len(calls) /\ m.ok \in {"true", "false", "error"}
        /\ \A i \in 1..Len(calls) :
              /\ calls'[i].code = calls[i].code /\ calls'[i].conn = calls[i].conn
              /\ calls'[i].alone = calls[i].alone
              /\ calls'[i].end = (IF i \in Woken(m) THEN m.ok ELSE calls[i].end)
    BY <1>3, ReplyCalls
  <2>2. \A i \in Woken(m) : calls[i].end = "none"
    BY <1>0 DEF Woken
  <2> QED
    BY <1>0, <2>1, <2>2 DEF CallsKept
<1>4. CASE UNCHANGED callVars
  BY <1>0, <1>4 DEF callVars, CallsKept
<1> QED
  BY <1>1, <1>2, <1>3, <1>4, Parts

\* A message that was due is due while its call is not answered.
DueNext(m) ==
    /\ m.code \in Codes => /\ m.id \in 1..Len(calls') /\ calls'[m.id].code = m.code
                           /\ m.id \notin answered' /\ calls'[m.id].end # "unsent"
    /\ m.code \notin Codes => m.id = 0
NowNext(m) == m.code \in Codes => calls'[m.id].conn = conn'

LEMMA StillDue ==
    ASSUME CallsKept
    PROVE  \A m : Due(m) /\ (m.code \in Codes => m.id \notin answered') =>
                     /\ DueNext(m)
                     /\ conn' = conn /\ Now(m) => NowNext(m)
<1> SUFFICES ASSUME NEW m, Due(m), m.code \in Codes => m.id \notin answered'
             PROVE  DueNext(m) /\ (conn' = conn /\ Now(m) => NowNext(m))
  OBVIOUS
<1>1. m.code \in Codes => m.id \in 1..Len(calls)
  BY DEF Due
<1>2. DueNext(m)
  BY <1>1 DEF Due, DueNext, CallsKept
<1>3. conn' = conn /\ Now(m) => NowNext(m)
  BY <1>1 DEF Now, NowNext, CallsKept
<1> QED
  BY <1>2, <1>3

-----------------------------------------------------------------------------
(* The queues.                                                              *)

Longer(u, s) ==
    /\ Len(s) \in Nat /\ Len(u) = Len(s) + 1
    /\ \A k \in 1..Len(s) : u[k] = s[k]
Shorter(u, s) ==
    /\ Len(s) \in Nat /\ Len(s) >= 1 /\ Len(u) = Len(s) - 1
    /\ \A k \in 1..Len(u) : u[k] = s[k + 1] /\ k + 1 \in 1..Len(s)

LEMMA AppendLonger ==
    ASSUME NEW S, NEW s \in Seq(S), NEW m
    PROVE  Longer(Append(s, m), s) /\ Append(s, m)[Len(s) + 1] = m
BY DEF Longer

LEMMA TailShorter ==
    ASSUME NEW S, NEW s \in Seq(S), s # <<>>
    PROVE  Shorter(Tail(s), s) /\ Head(s) = s[1] /\ Head(s) \in S
BY DEF Shorter

LEMMA LongerGrows ==
    ASSUME NEW s, NEW u, Longer(u, s), Growing(s), u[Len(s) + 1].id \in Nat,
           \A k \in 1..Len(s) : s[k].id \in Nat,
           \A k \in 1..Len(s) : u[Len(s) + 1].id # 0 /\ s[k].id # 0 => s[k].id < u[Len(s) + 1].id
    PROVE  Growing(u)
BY DEF Longer, Growing

LEMMA LongerBelow ==
    ASSUME NEW s, NEW u, NEW t, Longer(u, s), Below(s, t),
           \A k \in 1..Len(t) : u[Len(s) + 1].id # 0 /\ t[k].id # 0 => u[Len(s) + 1].id < t[k].id
    PROVE  Below(u, t)
BY DEF Longer, Below

LEMMA LongerAbove ==
    ASSUME NEW s, NEW u, NEW t, Longer(u, s), Below(t, s),
           \A k \in 1..Len(t) : u[Len(s) + 1].id # 0 /\ t[k].id # 0 => t[k].id < u[Len(s) + 1].id
    PROVE  Below(t, u)
BY DEF Longer, Below

LEMMA ShorterOrder ==
    ASSUME NEW s, NEW u, Shorter(u, s), Growing(s)
    PROVE  /\ Growing(u)
           /\ \A k \in 1..Len(u) : s[1].id # 0 /\ u[k].id # 0 => s[1].id < u[k].id
BY SMTT(30) DEF Shorter, Growing

LEMMA ShorterBelow ==
    ASSUME NEW s, NEW u, NEW t, Shorter(u, s)
    PROVE  (Below(s, t) => Below(u, t)) /\ (Below(t, s) => Below(t, u))
BY DEF Shorter, Below

LEMMA AskQueues ==
    ASSUME IInv, NEW code \in Codes, NEW pass \in Passes, NEW form \in BOOLEAN, Asks(code, pass, form)
    PROVE  /\ toPage' = toPage /\ link' = link /\ conn' = conn /\ answered' = answered
           /\ \/ toDev' = toDev
              \/ /\ link = "open" /\ Longer(toDev', toDev)
                 /\ toDev'[Len(toDev) + 1].code = code /\ toDev'[Len(toDev) + 1].id = Len(calls) + 1
           /\ blobs' = blobs \/ (Shorter(blobs', blobs) /\ blobs[1].code = "config")
<1>0. TypeOK
  BY DEF IInv
<1>1. toPage' = toPage /\ link' = link /\ conn' = conn /\ answered' = answered
  BY DEF Asks, netVars
<1>2. \/ toDev' = toDev
      \/ /\ link = "open" /\ Longer(toDev', toDev)
         /\ toDev'[Len(toDev) + 1].code = code /\ toDev'[Len(toDev) + 1].id = Len(calls) + 1
  <2>1. CASE link = "open"
    <3>1. toDev' = Append(toDev, [code |-> code, pass |-> pass, id |-> Len(calls) + 1])
      BY <2>1 DEF Asks, Request
    <3>2. toDev \in Seq(Message)
      BY <1>0 DEF TypeOK
    <3> QED
      BY <2>1, <3>1, <3>2, AppendLonger
  <2>2. CASE link # "open"
    BY <2>2 DEF Asks, Request
  <2> QED
    BY <2>1, <2>2
<1>3. blobs' = blobs \/ (Shorter(blobs', blobs) /\ blobs[1].code = "config")
  <2>1. CASE blobs' = blobs
    BY <2>1
  <2>2. CASE blobs # <<>> /\ Head(blobs).code = "config" /\ blobs' = Tail(blobs)
    <3>1. blobs \in Seq(Answer)
      BY <1>0 DEF TypeOK
    <3> QED
      BY <2>2, <3>1, TailShorter
  <2> QED
    BY <2>1, <2>2 DEF Asks
<1> QED
  BY <1>1, <1>2, <1>3

LEMMA LogoutQueue ==
    ASSUME TypeOK, UserLogout
    PROVE  /\ UNCHANGED <<toPage, blobs, netVars, callVars>>
           /\ \/ toDev' = toDev
              \/ /\ link = "open" /\ Longer(toDev', toDev)
                 /\ toDev'[Len(toDev) + 1].code = "logout" /\ toDev'[Len(toDev) + 1].id = 0
<1>1. toDev \in Seq(Message)
  BY DEF TypeOK
<1> QED
  BY <1>1, AppendLonger DEF UserLogout

LEMMA HandleQueues ==
    ASSUME TypeOK, Handle
    PROVE  /\ UNCHANGED <<blobs, netVars, callVars>>
           /\ Shorter(toDev', toDev)
           /\ \/ toPage' = toPage /\ toDev[1].code = "logout"
              \/ /\ Longer(toPage', toPage) /\ toPage'[Len(toPage) + 1].code = toDev[1].code
                 /\ toPage'[Len(toPage) + 1].id = toDev[1].id
<1>1. toDev \in Seq(Message) /\ toPage \in Seq(Answer) /\ toDev # <<>> /\ toDev' = Tail(toDev)
  BY DEF TypeOK, Handle
<1>2. Shorter(toDev', toDev) /\ Head(toDev) = toDev[1]
  BY <1>1, TailShorter
<1>3. CASE UNCHANGED toPage /\ toDev[1].code = "logout"
  BY <1>2, <1>3 DEF Handle
<1>4. CASE ~(UNCHANGED toPage /\ toDev[1].code = "logout")
  <2>1. PICK ok \in Replies(Head(toDev)) : toPage' = Append(toPage,
            [code |-> Head(toDev).code, id |-> Head(toDev).id, conn |-> conn, ok |-> ok])
    BY <1>2, <1>4 DEF Handle
  <2>2. /\ Longer(toPage', toPage) /\ toPage'[Len(toPage) + 1].code = toDev[1].code
        /\ toPage'[Len(toPage) + 1].id = toDev[1].id
    BY <1>1, <1>2, <2>1, AppendLonger
  <2> QED
    BY <1>2, <2>2 DEF Handle
<1> QED
  BY <1>3, <1>4

LEMMA BroadcastQueue ==
    ASSUME TypeOK, Broadcast
    PROVE  /\ UNCHANGED <<toDev, blobs, netVars, callVars>> /\ link = "open"
           /\ Longer(toPage', toPage)
           /\ toPage'[Len(toPage) + 1].code = "config" /\ toPage'[Len(toPage) + 1].id = 0
<1>1. toPage \in Seq(Answer) /\ toPage' = Append(toPage, Config)
  BY DEF TypeOK, Broadcast
<1>2. Longer(toPage', toPage) /\ toPage'[Len(toPage) + 1] = Config
  BY <1>1, AppendLonger
<1> QED
  BY <1>2 DEF Broadcast, Config

LEMMA ReceiveQueues ==
    ASSUME TypeOK, Receive
    PROVE  /\ UNCHANGED <<toDev, netVars, callVars>>
           /\ Shorter(toPage', toPage) /\ Longer(blobs', blobs) /\ blobs'[Len(blobs) + 1] = toPage[1]
<1>1. toPage \in Seq(Answer) /\ blobs \in Seq(Answer) /\ toPage # <<>> /\ toPage' = Tail(toPage)
  BY DEF TypeOK, Receive
<1>2. Shorter(toPage', toPage) /\ Head(toPage) = toPage[1]
  BY <1>1, TailShorter
<1>3. Longer(blobs', blobs) /\ blobs'[Len(blobs) + 1] = toPage[1]
  BY <1>1, <1>2, AppendLonger DEF Receive
<1> QED
  BY <1>2, <1>3 DEF Receive

LEMMA BlobTaken ==
    ASSUME TypeOK, blobs # <<>>, blobs' = Tail(blobs)
    PROVE  Shorter(blobs', blobs) /\ Head(blobs) = blobs[1]
<1>1. blobs \in Seq(Answer)
  BY DEF TypeOK
<1> QED
  BY <1>1, TailShorter

\* The steps as the queues see them.
LEMMA QueueSteps ==
    ASSUME IInv, [Next]_vars
    PROVE  \/ \E code \in Codes, pass \in Passes, form \in BOOLEAN : Asks(code, pass, form)
           \/ UserLogout \/ Handle \/ Broadcast \/ Receive \/ HandleReply \/ Open \/ Lose
           \/ /\ blobs # <<>> /\ Head(blobs).code = "config" /\ blobs' = Tail(blobs)
              /\ UNCHANGED <<toDev, toPage, netVars, callVars>>
           \/ Connect \/ OnClose
           \/ (\E i \in waiting : Timeout(i)) /\ UNCHANGED <<toDev, toPage, blobs, netVars>>
           \/ UNCHANGED <<toDev, toPage, blobs, netVars, callVars>>
<1> USE DEF netVars, callVars
<1>0. TypeOK
  BY DEF IInv
<1>1. CASE HandleConfig /\ UNCHANGED callVars /\ UNCHANGED toDev
  BY <1>1 DEF HandleConfig
<1>2. CASE HandleConfig /\ ~(UNCHANGED callVars /\ UNCHANGED toDev)
  <2>1. Asks("login", remember, FALSE) /\ "login" \in Codes /\ remember \in Passes
    BY <1>0, <1>2 DEF HandleConfig, Asks, Codes, Passes, TypeOK
  <2> QED
    BY <2>1
<1>3. ASSUME NEW i \in waiting, Timeout(i) PROVE UNCHANGED <<toDev, toPage, blobs, netVars>>
  BY <1>3 DEF Timeout
<1>4. ASSUME NEW p \in {Right, Wrong}, UserLogin(p)
      PROVE  \E code \in Codes, pass \in Passes, k \in BOOLEAN : Asks(code, pass, k)
  <2>1. Asks("login", p, TRUE) /\ "login" \in Codes /\ p \in Passes
    BY <1>4 DEF UserLogin, Asks, Codes, Passes
  <2> QED
    BY <2>1
<1>5. ASSUME UserForm
      PROVE  \E code \in Codes, pass \in Passes, k \in BOOLEAN : Asks(code, pass, k)
  <2>1. Asks("secure", None, FALSE) /\ "secure" \in Codes /\ None \in Passes
    BY <1>5 DEF UserForm, Asks, Codes, Passes
  <2> QED
    BY <2>1
<1>6. ASSUME ClickLogin
      PROVE  \E code \in Codes, pass \in Passes, k \in BOOLEAN : Asks(code, pass, k)
  <2>1. Asks("login", remember, FALSE) /\ "login" \in Codes /\ remember \in Passes
    BY <1>0, <1>6 DEF ClickLogin, Asks, Codes, Passes, TypeOK
  <2> QED
    BY <2>1
<1> QED
  BY <1>1, <1>2, <1>3, <1>4, <1>5, <1>6 DEF Next, Network, Page, User, vars

LEMMA OldIds ==
    ASSUME IInv
    PROVE  /\ Len(calls) \in Nat /\ answered \subseteq 1..Len(calls)
           /\ \A k \in 1..Len(toDev) : toDev[k].id \in 0..Len(calls)
           /\ \A k \in 1..Len(toPage) : toPage[k].id \in 0..Len(calls)
           /\ \A k \in 1..Len(blobs) : blobs[k].id \in 0..Len(calls)
<1>1. Len(calls) \in Nat /\ answered \subseteq 1..Len(calls)
  BY DEF IInv, TypeOK
<1>2. \A m : Due(m) => m.id \in 0..Len(calls)
  BY <1>1 DEF Due
<1> QED
  BY <1>1, <1>2 DEF IInv, Wire

LEMMA OrderNext == IInv /\ [Next]_vars => Order'
<1> SUFFICES ASSUME IInv, [Next]_vars
             PROVE  /\ Growing(blobs') /\ Growing(toPage') /\ Growing(toDev')
                    /\ Below(blobs', toPage') /\ Below(blobs', toDev') /\ Below(toPage', toDev')
  BY DEF Order
<1> DEFINE Goal == /\ Growing(blobs') /\ Growing(toPage') /\ Growing(toDev')
                   /\ Below(blobs', toPage') /\ Below(blobs', toDev') /\ Below(toPage', toDev')
<1> USE DEF netVars
<1>0. /\ TypeOK
      /\ Growing(blobs) /\ Growing(toPage) /\ Growing(toDev)
      /\ Below(blobs, toPage) /\ Below(blobs, toDev) /\ Below(toPage, toDev)
  BY DEF IInv, Order
<1>1. /\ Len(calls) \in Nat
      /\ \A k \in 1..Len(toDev) : toDev[k].id \in Nat /\ toDev[k].id < Len(calls) + 1
      /\ \A k \in 1..Len(toPage) : toPage[k].id \in Nat /\ toPage[k].id < Len(calls) + 1
      /\ \A k \in 1..Len(blobs) : blobs[k].id \in Nat /\ blobs[k].id < Len(calls) + 1
  BY OldIds
<1>2. ASSUME Longer(toDev', toDev), toDev'[Len(toDev) + 1].id \in {0, Len(calls) + 1}
      PROVE  Growing(toDev') /\ Below(blobs, toDev') /\ Below(toPage, toDev')
  <2>1. Growing(toDev')
    BY <1>0, <1>1, <1>2, LongerGrows
  <2>2. Below(blobs, toDev')
    BY <1>0, <1>1, <1>2, LongerAbove
  <2>3. Below(toPage, toDev')
    BY <1>0, <1>1, <1>2, LongerAbove
  <2> QED
    BY <2>1, <2>2, <2>3
<1>3. ASSUME Shorter(blobs', blobs)
      PROVE  Growing(blobs') /\ \A t : Below(blobs, t) => Below(blobs', t)
  BY <1>0, <1>3, ShorterOrder, ShorterBelow
<1>4. ASSUME NEW code \in Codes, NEW pass \in Passes, NEW form \in BOOLEAN, Asks(code, pass, form)
      PROVE  Goal
  <2>1. Growing(toDev') /\ Below(blobs, toDev') /\ Below(toPage, toDev') /\ toPage' = toPage
    BY <1>0, <1>2, <1>4, AskQueues
  <2>2. Growing(blobs') /\ \A t : Below(blobs, t) => Below(blobs', t)
    BY <1>0, <1>3, <1>4, AskQueues
  <2> QED
    BY <1>0, <2>1, <2>2
<1>5. CASE UserLogout
  <2>1. Growing(toDev') /\ Below(blobs, toDev') /\ Below(toPage, toDev') /\ UNCHANGED <<toPage, blobs>>
    BY <1>0, <1>2, <1>5, LogoutQueue
  <2> QED
    BY <1>0, <2>1
<1>6. CASE Handle
  <2>1. Shorter(toDev', toDev) /\ blobs' = blobs /\ toDev[1].id \in Nat
    BY <1>0, <1>1, <1>6, HandleQueues DEF Shorter
  <2>2. /\ Growing(toDev') /\ Below(blobs, toDev') /\ Below(toPage, toDev')
        /\ \A k \in 1..Len(toDev') : toDev[1].id # 0 /\ toDev'[k].id # 0 => toDev[1].id < toDev'[k].id
    BY <1>0, <2>1, ShorterOrder, ShorterBelow
  <2>3. CASE toPage' = toPage
    BY <1>0, <2>1, <2>2, <2>3
  <2>4. CASE Longer(toPage', toPage) /\ toPage'[Len(toPage) + 1].id = toDev[1].id
    <3>1. 1 \in 1..Len(toDev)
      BY <2>1 DEF Shorter
    <3>2. /\ \A k \in 1..Len(toPage) : toPage[k].id # 0 /\ toDev[1].id # 0 => toPage[k].id < toDev[1].id
          /\ \A k \in 1..Len(blobs) : blobs[k].id # 0 /\ toDev[1].id # 0 => blobs[k].id < toDev[1].id
      BY <1>0, <3>1 DEF Below
    <3>3. Growing(toPage')
      BY <1>0, <1>1, <2>1, <2>4, <3>2, LongerGrows
    <3>4. Below(blobs, toPage')
      BY <1>0, <2>4, <3>2, LongerAbove
    <3>5. Below(toPage', toDev')
      BY <2>2, <2>4, LongerBelow
    <3> QED
      BY <1>0, <2>1, <2>2, <3>3, <3>4, <3>5
  <2> QED
    BY <1>0, <1>6, <2>3, <2>4, HandleQueues
<1>7. CASE Broadcast
  <2>1. /\ Longer(toPage', toPage) /\ toPage'[Len(toPage) + 1].id = 0 /\ UNCHANGED <<toDev, blobs>>
    BY <1>0, <1>7, BroadcastQueue
  <2>2. Growing(toPage')
    BY <1>0, <1>1, <2>1, LongerGrows
  <2>3. Below(blobs, toPage')
    BY <1>0, <2>1, LongerAbove
  <2>4. Below(toPage', toDev)
    BY <1>0, <2>1, LongerBelow
  <2> QED
    BY <1>0, <2>1, <2>2, <2>3, <2>4
<1>8. CASE Receive
  <2>1. /\ Shorter(toPage', toPage) /\ Longer(blobs', blobs) /\ toDev' = toDev
        /\ blobs'[Len(blobs) + 1] = toPage[1] /\ 1 \in 1..Len(toPage)
    BY <1>0, <1>8, ReceiveQueues DEF Shorter
  <2>2. /\ Growing(toPage') /\ Below(blobs, toPage') /\ Below(toPage', toDev)
        /\ \A k \in 1..Len(toPage') : toPage[1].id # 0 /\ toPage'[k].id # 0 => toPage[1].id < toPage'[k].id
    BY <1>0, <2>1, ShorterOrder, ShorterBelow
  <2>3. /\ \A k \in 1..Len(blobs) : blobs[k].id # 0 /\ toPage[1].id # 0 => blobs[k].id < toPage[1].id
        /\ \A k \in 1..Len(toDev) : toDev[k].id # 0 /\ toPage[1].id # 0 => toPage[1].id < toDev[k].id
    BY <1>0, <2>1 DEF Below
  <2>4. Growing(blobs')
    BY <1>0, <1>1, <2>1, <2>3, LongerGrows
  <2>5. Below(blobs', toPage')
    BY <2>1, <2>2, LongerBelow
  <2>6. Below(blobs', toDev)
    BY <1>0, <2>1, <2>3, LongerBelow
  <2> QED
    BY <1>0, <2>1, <2>2, <2>4, <2>5, <2>6
<1>9. ASSUME blobs # <<>>, blobs' = Tail(blobs), UNCHANGED <<toDev, toPage>> PROVE Goal
  <2>1. Growing(blobs') /\ \A t : Below(blobs, t) => Below(blobs', t)
    BY <1>0, <1>3, <1>9, BlobTaken
  <2> QED
    BY <1>0, <1>9, <2>1
<1>10. CASE HandleReply
  BY <1>9, <1>10 DEF HandleReply
<1>11. CASE Open
  <2>1. Len(toDev') = 0 /\ Len(toPage') = 1 /\ toPage'[1].id = 0 /\ blobs' = blobs
    BY <1>11 DEF Open, Config
  <2> QED
    BY <1>0, <2>1 DEF Growing, Below
<1>12. CASE Lose
  <2>1. Len(toDev') = 0 /\ Len(toPage') = 0 /\ blobs' = blobs
    BY <1>12 DEF Lose
  <2> QED
    BY <1>0, <2>1 DEF Growing, Below
<1>13. ASSUME UNCHANGED <<toDev, toPage, blobs>> PROVE Goal
  BY <1>0, <1>13
<1>14. CASE Connect \/ OnClose
  BY <1>13, <1>14 DEF Connect, OnClose
<1> QED
  BY <1>4, <1>5, <1>6, <1>7, <1>8, <1>9, <1>10, <1>11, <1>12, <1>13, <1>14, QueueSteps

LEMMA OneNext == IInv /\ [Next]_vars => OneConnection'
<1> SUFFICES ASSUME IInv, [Next]_vars PROVE OneConnection'
  OBVIOUS
<1>0. OneConnection
  BY DEF IInv
<1>1. CASE Connect
  BY <1>1 DEF Connect, OneConnection
<1>2. CASE Open
  BY <1>0, <1>2 DEF Open, OneConnection
<1>3. CASE Lose
  BY <1>0, <1>3 DEF Lose, OneConnection
<1>4. CASE OnClose
  BY <1>4 DEF OnClose, OneConnection
<1>5. CASE UNCHANGED netVars
  BY <1>0, <1>5 DEF netVars, OneConnection
<1>6. ASSUME NEW code \in Codes, NEW pass \in Passes, NEW form \in BOOLEAN, Asks(code, pass, form)
      PROVE  UNCHANGED netVars
  BY <1>6 DEF Asks
<1>7. UserLogout \/ Handle \/ Broadcast \/ Receive \/ HandleReply => UNCHANGED netVars
  BY DEF UserLogout, Handle, Broadcast, Receive, HandleReply
<1> QED
  BY <1>1, <1>2, <1>3, <1>4, <1>5, <1>6, <1>7, QueueSteps

\* The call that a request adds.
LEMMA NewCall ==
    ASSUME IInv, NEW code \in Codes, NEW pass \in Passes, NEW form \in BOOLEAN, Asks(code, pass, form)
    PROVE  /\ Len(calls') = Len(calls) + 1 /\ Len(calls) \in Nat
           /\ \A i \in 1..Len(calls) : calls'[i] = calls[i]
           /\ calls'[Len(calls) + 1].code = code /\ calls'[Len(calls) + 1].conn = conn
           /\ calls'[Len(calls) + 1].alone = Alone(code) /\ calls'[Len(calls) + 1].by = 0
           /\ calls'[Len(calls) + 1].end = (IF Throws THEN "unsent" ELSE "none")
           /\ waiting' \subseteq waiting \union {Len(calls) + 1}
<1>1. TypeOK /\ Request(code, pass, form)
  BY DEF IInv, Asks
<1>2. /\ Len(calls) \in Nat /\ Len(calls') = Len(calls) + 1
      /\ \A i \in 1..Len(calls) : calls'[i] = calls[i]
      /\ calls'[Len(calls) + 1] =
             [code |-> code, pass |-> pass, form |-> form, shown |-> isLogin,
              conn |-> conn, alone |-> Alone(code), by |-> 0, kept |-> None,
              end |-> IF Throws THEN "unsent" ELSE "none"]
  BY <1>1, RequestCall
<1>3. waiting' \subseteq waiting \union {Len(calls) + 1}
  BY <1>1 DEF Request
<1> QED
  BY <1>2, <1>3

LEMMA WireNext == IInv /\ [Next]_vars => Wire'
<1> SUFFICES ASSUME IInv, [Next]_vars
             PROVE  /\ \A k \in 1..Len(toDev') : DueNext(toDev'[k]) /\ NowNext(toDev'[k])
                    /\ \A k \in 1..Len(toPage') : DueNext(toPage'[k]) /\ NowNext(toPage'[k])
                    /\ \A k \in 1..Len(blobs') : DueNext(blobs'[k])
                    /\ link' # "open" => toDev' = <<>> /\ toPage' = <<>>
  BY DEF Wire, Due, Now, DueNext, NowNext
<1> DEFINE Goal == /\ \A k \in 1..Len(toDev') : DueNext(toDev'[k]) /\ NowNext(toDev'[k])
                   /\ \A k \in 1..Len(toPage') : DueNext(toPage'[k]) /\ NowNext(toPage'[k])
                   /\ \A k \in 1..Len(blobs') : DueNext(blobs'[k])
                   /\ link' # "open" => toDev' = <<>> /\ toPage' = <<>>
<1> USE DEF netVars, callVars
<1>0. TypeOK /\ Wire /\ Order /\ OneConnection /\ CallsKept /\ Len(calls) \in Nat
  BY Keeping DEF IInv, TypeOK
<1>1. ASSUME answered' = answered
      PROVE  \A m : Due(m) => DueNext(m) /\ (conn' = conn /\ Now(m) => NowNext(m))
  <2>1. \A m : Due(m) => (m.code \in Codes => m.id \notin answered')
    BY <1>1 DEF Due
  <2> QED
    BY <1>0, <2>1, StillDue
<1>2. /\ \A k \in 1..Len(toDev) : Due(toDev[k]) /\ Now(toDev[k])
      /\ \A k \in 1..Len(toPage) : Due(toPage[k]) /\ Now(toPage[k])
      /\ \A k \in 1..Len(blobs) : Due(blobs[k])
      /\ link # "open" => toDev = <<>> /\ toPage = <<>>
  BY <1>0 DEF Wire
<1>3. \A m : m.code \notin Codes /\ m.id = 0 => DueNext(m) /\ NowNext(m)
  BY DEF DueNext, NowNext
<1>4. ASSUME NEW code \in Codes, NEW pass \in Passes, NEW form \in BOOLEAN, Asks(code, pass, form)
      PROVE  Goal
  <2>1. toPage' = toPage /\ link' = link /\ conn' = conn /\ answered' = answered
    BY <1>4, AskQueues
  <2>2. \A k \in 1..Len(toDev') : DueNext(toDev'[k]) /\ NowNext(toDev'[k])
    <3>1. CASE toDev' = toDev
      BY <1>1, <1>2, <2>1, <3>1
    <3>2. CASE /\ link = "open" /\ Longer(toDev', toDev)
               /\ toDev'[Len(toDev) + 1].code = code /\ toDev'[Len(toDev) + 1].id = Len(calls) + 1
      <4> DEFINE c == calls'[Len(calls) + 1]
      <4>1. Len(calls') = Len(calls) + 1 /\ c.code = code /\ c.conn = conn /\ c.end # "unsent"
        BY <1>0, <1>4, <3>2, NewCall DEF Throws
      <4>2. Len(calls) + 1 \notin answered'
        BY <1>0, <2>1, OldIds
      <4>3. DueNext(toDev'[Len(toDev) + 1]) /\ NowNext(toDev'[Len(toDev) + 1])
        BY <1>0, <2>1, <3>2, <4>1, <4>2 DEF DueNext, NowNext
      <4>4. ASSUME NEW k \in 1..Len(toDev) PROVE DueNext(toDev'[k]) /\ NowNext(toDev'[k])
        BY <1>1, <1>2, <2>1, <3>2 DEF Longer
      <4>5. \A k \in 1..Len(toDev') : k \in 1..Len(toDev) \/ k = Len(toDev) + 1
        BY <3>2 DEF Longer
      <4> QED
        BY <4>3, <4>4, <4>5
    <3> QED
      BY <1>4, <3>1, <3>2, AskQueues
  <2>3. \A k \in 1..Len(blobs') : DueNext(blobs'[k])
    <3>1. CASE blobs' = blobs
      BY <1>1, <1>2, <2>1, <3>1
    <3>2. CASE Shorter(blobs', blobs)
      BY <1>1, <1>2, <2>1, <3>2 DEF Shorter
    <3> QED
      BY <1>4, <3>1, <3>2, AskQueues
  <2>4. link' # "open" => toDev' = <<>>
    BY <1>2, <1>4, <2>1, AskQueues
  <2> QED
    BY <1>1, <1>2, <2>1, <2>2, <2>3, <2>4
<1>5. CASE UserLogout
  <2>1. UNCHANGED <<toPage, blobs, link, conn, answered>>
    BY <1>0, <1>5, LogoutQueue
  <2>2. CASE toDev' = toDev
    BY <1>1, <1>2, <2>1, <2>2
  <2>3. CASE /\ link = "open" /\ Longer(toDev', toDev)
             /\ toDev'[Len(toDev) + 1].code = "logout" /\ toDev'[Len(toDev) + 1].id = 0
    <3>1. DueNext(toDev'[Len(toDev) + 1]) /\ NowNext(toDev'[Len(toDev) + 1])
      BY <1>3, <2>3 DEF Codes
    <3>2. ASSUME NEW k \in 1..Len(toDev) PROVE DueNext(toDev'[k]) /\ NowNext(toDev'[k])
      BY <1>1, <1>2, <2>1, <2>3 DEF Longer
    <3>3. \A k \in 1..Len(toDev') : k \in 1..Len(toDev) \/ k = Len(toDev) + 1
      BY <2>3 DEF Longer
    <3> QED
      BY <1>1, <1>2, <2>1, <2>3, <3>1, <3>2, <3>3
  <2> QED
    BY <1>0, <1>5, <2>2, <2>3, LogoutQueue
<1>6. CASE Handle
  <2>1. UNCHANGED <<blobs, link, conn, answered>> /\ Shorter(toDev', toDev)
    BY <1>0, <1>6, HandleQueues
  <2>2. link = "open" /\ 1 \in 1..Len(toDev)
    BY <1>2, <2>1 DEF Shorter
  <2>3. \A k \in 1..Len(toDev') : DueNext(toDev'[k]) /\ NowNext(toDev'[k])
    BY <1>1, <1>2, <2>1 DEF Shorter
  <2>4. \A k \in 1..Len(toPage') : DueNext(toPage'[k]) /\ NowNext(toPage'[k])
    <3>1. CASE toPage' = toPage
      BY <1>1, <1>2, <2>1, <3>1
    <3>2. CASE /\ Longer(toPage', toPage) /\ toPage'[Len(toPage) + 1].code = toDev[1].code
               /\ toPage'[Len(toPage) + 1].id = toDev[1].id
      <4>1. DueNext(toDev[1]) /\ NowNext(toDev[1])
        BY <1>1, <1>2, <2>1, <2>2
      <4>2. DueNext(toPage'[Len(toPage) + 1]) /\ NowNext(toPage'[Len(toPage) + 1])
        BY <3>2, <4>1 DEF DueNext, NowNext
      <4>3. ASSUME NEW k \in 1..Len(toPage) PROVE DueNext(toPage'[k]) /\ NowNext(toPage'[k])
        BY <1>1, <1>2, <2>1, <3>2 DEF Longer
      <4>4. \A k \in 1..Len(toPage') : k \in 1..Len(toPage) \/ k = Len(toPage) + 1
        BY <3>2 DEF Longer
      <4> QED
        BY <4>2, <4>3, <4>4
    <3> QED
      BY <1>0, <1>6, <3>1, <3>2, HandleQueues
  <2> QED
    BY <1>1, <1>2, <2>1, <2>2, <2>3, <2>4
<1>7. CASE Broadcast
  <2>1. /\ UNCHANGED <<toDev, blobs, link, conn, answered>> /\ link = "open" /\ Longer(toPage', toPage)
        /\ toPage'[Len(toPage) + 1].code = "config" /\ toPage'[Len(toPage) + 1].id = 0
    BY <1>0, <1>7, BroadcastQueue
  <2>2. DueNext(toPage'[Len(toPage) + 1]) /\ NowNext(toPage'[Len(toPage) + 1])
    BY <1>3, <2>1 DEF Codes
  <2>3. ASSUME NEW k \in 1..Len(toPage) PROVE DueNext(toPage'[k]) /\ NowNext(toPage'[k])
    BY <1>1, <1>2, <2>1 DEF Longer
  <2>4. \A k \in 1..Len(toPage') : k \in 1..Len(toPage) \/ k = Len(toPage) + 1
    BY <2>1 DEF Longer
  <2> QED
    BY <1>1, <1>2, <2>1, <2>2, <2>3, <2>4
<1>8. CASE Receive
  <2>1. /\ UNCHANGED <<toDev, link, conn, answered>> /\ Shorter(toPage', toPage)
        /\ Longer(blobs', blobs) /\ blobs'[Len(blobs) + 1] = toPage[1]
    BY <1>0, <1>8, ReceiveQueues
  <2>2. link = "open" /\ 1 \in 1..Len(toPage)
    BY <1>2, <2>1 DEF Shorter
  <2>3. \A k \in 1..Len(toPage') : DueNext(toPage'[k]) /\ NowNext(toPage'[k])
    BY <1>1, <1>2, <2>1 DEF Shorter
  <2>4. DueNext(blobs'[Len(blobs) + 1])
    BY <1>1, <1>2, <2>1, <2>2
  <2>5. ASSUME NEW k \in 1..Len(blobs) PROVE DueNext(blobs'[k])
    BY <1>1, <1>2, <2>1 DEF Longer
  <2>6. \A k \in 1..Len(blobs') : k \in 1..Len(blobs) \/ k = Len(blobs) + 1
    BY <2>1 DEF Longer
  <2> QED
    BY <1>1, <1>2, <2>1, <2>2, <2>3, <2>4, <2>5, <2>6
<1>9. CASE HandleReply
  <2> DEFINE m == Head(blobs)
  <2>1. /\ UNCHANGED <<toDev, toPage, link, conn>> /\ Shorter(blobs', blobs) /\ m = blobs[1]
        /\ answered' = IF m.code = "logout" THEN answered ELSE answered \union {m.id}
        /\ m.code # "config" /\ m \in Answer /\ Due(m)
    BY <1>0, <1>9, BlobTaken, ReplyCalls DEF HandleReply
  <2>2. m.code # "logout" => m.id # 0
    BY <1>0, <2>1 DEF Answer, Due
  <2>3. 1 \in 1..Len(blobs) /\ m.id \in Nat
    BY <2>1 DEF Shorter, Answer
  <2>4. \A x : Due(x) /\ (m.id # 0 /\ x.id # 0 => m.id < x.id) => (x.code \in Codes => x.id \notin answered')
    BY <1>0, <2>1, <2>2, <2>3 DEF Due
  <2>5. \A x : Due(x) /\ (m.id # 0 /\ x.id # 0 => m.id < x.id) => DueNext(x) /\ (Now(x) => NowNext(x))
    BY <1>0, <2>1, <2>4, StillDue
  <2>6. \A k \in 1..Len(toDev) : m.id # 0 /\ toDev[k].id # 0 => m.id < toDev[k].id
    BY <1>0, <2>1, <2>3 DEF Order, Below
  <2>7. \A k \in 1..Len(toPage) : m.id # 0 /\ toPage[k].id # 0 => m.id < toPage[k].id
    BY <1>0, <2>1, <2>3 DEF Order, Below
  <2>8. \A k \in 1..Len(blobs') : m.id # 0 /\ blobs'[k].id # 0 => m.id < blobs'[k].id
    BY <1>0, <2>1, ShorterOrder DEF Order
  <2>9. \A k \in 1..Len(blobs') : Due(blobs'[k])
    BY <1>2, <2>1 DEF Shorter
  <2> QED
    BY <1>2, <2>1, <2>5, <2>6, <2>7, <2>8, <2>9
<1>10. CASE Connect
  <2>1. link # "open" /\ link' = "connecting" /\ UNCHANGED <<toDev, toPage, blobs, callVars>>
    BY <1>0, <1>10 DEF Connect, OneConnection
  <2>2. Len(toDev') = 0 /\ Len(toPage') = 0
    BY <1>2, <2>1
  <2> QED
    BY <1>1, <1>2, <2>1, <2>2
<1>11. CASE Open
  <2>1. /\ link' = "open" /\ toDev' = <<>> /\ Len(toPage') = 1 /\ toPage'[1].id = 0
        /\ toPage'[1].code = "config" /\ UNCHANGED <<conn, blobs, callVars>>
    BY <1>11 DEF Open, Config
  <2>2. DueNext(toPage'[1]) /\ NowNext(toPage'[1])
    BY <1>3, <2>1 DEF Codes
  <2> QED
    BY <1>1, <1>2, <2>1, <2>2
<1>12. CASE Lose
  BY <1>1, <1>2, <1>12 DEF Lose
<1>13. CASE OnClose
  BY <1>1, <1>2, <1>13 DEF OnClose
<1>14. ASSUME blobs # <<>>, blobs' = Tail(blobs), UNCHANGED <<toDev, toPage, netVars, callVars>>
       PROVE  Goal
  <2>1. Shorter(blobs', blobs)
    BY <1>0, <1>14, BlobTaken
  <2> QED
    BY <1>1, <1>2, <1>14, <2>1 DEF Shorter
<1>15. ASSUME UNCHANGED <<toDev, toPage, blobs, netVars>>, answered' = answered PROVE Goal
  BY <1>1, <1>2, <1>15
<1>16. ASSUME NEW i \in waiting, Timeout(i) PROVE answered' = answered
  BY <1>16 DEF Timeout
<1> QED
  BY <1>4, <1>5, <1>6, <1>7, <1>8, <1>9, <1>10, <1>11, <1>12, <1>13, <1>14, <1>15, <1>16, QueueSteps

-----------------------------------------------------------------------------
(* No reply is left out.                                                    *)

LEMMA LongerHas ==
    ASSUME NEW s, NEW u, Longer(u, s)
    PROVE  (\A i : Has(s, i) => Has(u, i)) /\ Has(u, u[Len(s) + 1].id)
<1>1. \A k \in 1..Len(s) : k \in 1..Len(u)
  BY DEF Longer
<1>2. Len(s) + 1 \in 1..Len(u)
  BY DEF Longer
<1> QED
  BY <1>1, <1>2 DEF Longer, Has

LEMMA ShorterHas ==
    ASSUME NEW s, NEW u, Shorter(u, s), NEW i, Has(s, i)
    PROVE  i = s[1].id \/ Has(u, i)
<1>1. PICK k \in 1..Len(s) : s[k].id = i
  BY DEF Has
<1>2. CASE k = 1
  BY <1>1, <1>2
<1>3. CASE k # 1
  <2>1. k - 1 \in 1..Len(u) /\ (k - 1) + 1 = k
    BY <1>3 DEF Shorter
  <2>2. u[k - 1].id = i
    BY <1>1, <2>1 DEF Shorter
  <2> QED
    BY <2>1, <2>2 DEF Has
<1> QED
  BY <1>2, <1>3

LEMMA AnsweredGrow == ASSUME IInv, [Next]_vars PROVE answered \subseteq answered'
<1>1. ASSUME NEW code \in Codes, NEW pass \in Passes, NEW form \in BOOLEAN, Asks(code, pass, form)
      PROVE  answered' = answered
  BY <1>1, AskQueues
<1>2. ASSUME NEW i \in waiting, Timeout(i) PROVE answered' = answered
  BY <1>2 DEF Timeout
<1>3. CASE HandleReply
  BY <1>3 DEF HandleReply
<1> QED
  BY <1>1, <1>2, <1>3, Parts DEF callVars

\* A blob leaves only when its reply is handled.
LEMMA BlobsKept ==
    ASSUME IInv, [Next]_vars, NEW i \in 1..Len(calls), Has(blobs, i)
    PROVE  i \in answered' \/ Has(blobs', i)
<1> USE DEF netVars
<1>0. TypeOK /\ Wire /\ i # 0
  BY DEF IInv, TypeOK
<1>1. CASE blobs' = blobs
  BY <1>1
<1>2. ASSUME Shorter(blobs', blobs), blobs[1].code \notin Codes PROVE Has(blobs', i)
  <2>1. 1 \in 1..Len(blobs)
    BY <1>2 DEF Shorter
  <2>2. blobs[1].id = 0
    BY <1>0, <1>2, <2>1 DEF Wire, Due
  <2> QED
    BY <1>0, <1>2, <2>2, ShorterHas
<1>3. ASSUME blobs # <<>>, Head(blobs).code = "config", blobs' = Tail(blobs) PROVE Has(blobs', i)
  <2>1. Shorter(blobs', blobs) /\ Head(blobs) = blobs[1]
    BY <1>0, <1>3, BlobTaken
  <2> QED
    BY <1>2, <1>3, <2>1 DEF Codes
<1>4. ASSUME NEW code \in Codes, NEW pass \in Passes, NEW form \in BOOLEAN, Asks(code, pass, form)
      PROVE  Has(blobs', i)
  BY <1>3, <1>4 DEF Asks
<1>5. CASE HandleReply
  <2>1. Shorter(blobs', blobs) /\ Head(blobs) = blobs[1] /\ blobs \in Seq(Answer)
    BY <1>0, <1>5, BlobTaken DEF HandleReply, TypeOK
  <2>2. CASE blobs[1].code = "logout"
    BY <1>2, <2>1, <2>2 DEF Codes
  <2>3. CASE blobs[1].code # "logout"
    <3>1. blobs[1].id \in answered'
      BY <1>5, <2>1, <2>3 DEF HandleReply
    <3> QED
      BY <2>1, <3>1, ShorterHas
  <2> QED
    BY <2>2, <2>3
<1>6. CASE Receive
  BY <1>0, <1>6, ReceiveQueues, LongerHas
<1>7. CASE UserLogout \/ Handle \/ Broadcast \/ Open \/ Lose \/ Connect \/ OnClose
  <2>1. blobs' = blobs
    BY <1>7 DEF UserLogout, Handle, Broadcast, Open, Lose, Connect, OnClose
  <2> QED
    BY <2>1
<1> QED
  BY <1>1, <1>3, <1>4, <1>5, <1>6, <1>7, QueueSteps

\* Nor is one left out of the queues while the connection lasts.
LEMMA QueuesKept ==
    ASSUME IInv, [Next]_vars, link = "open", link' = "open", NEW i \in 1..Len(calls), Queued(i)
    PROVE  i \in answered' \/ Has(toDev', i) \/ Has(toPage', i) \/ Has(blobs', i)
<1> USE DEF netVars
<1>0. TypeOK /\ Wire /\ i # 0
  BY DEF IInv, TypeOK
<1>1. Has(blobs, i) => i \in answered' \/ Has(blobs', i)
  BY BlobsKept
<1>2. CASE Handle
  <2>1. /\ Shorter(toDev', toDev) /\ UNCHANGED blobs
        /\ \/ toPage' = toPage /\ toDev[1].code = "logout"
           \/ Longer(toPage', toPage) /\ toPage'[Len(toPage) + 1].id = toDev[1].id
    BY <1>0, <1>2, HandleQueues
  <2>2. toDev[1].code = "logout" => toDev[1].id = 0
    <3>1. 1 \in 1..Len(toDev)
      BY <2>1 DEF Shorter
    <3> QED
      BY <1>0, <3>1 DEF Wire, Due, Codes
  <2>3. Has(toDev, i) => Has(toDev', i) \/ i = toDev[1].id
    BY <2>1, ShorterHas
  <2>4. /\ Has(toPage, i) => Has(toPage', i)
        /\ i = toDev[1].id => Has(toPage', i)
    BY <1>0, <2>1, <2>2, LongerHas
  <2> QED
    BY <1>1, <2>3, <2>4 DEF Queued
<1>3. CASE Receive
  <2>1. /\ Shorter(toPage', toPage) /\ Longer(blobs', blobs) /\ UNCHANGED toDev
        /\ blobs'[Len(blobs) + 1] = toPage[1]
    BY <1>0, <1>3, ReceiveQueues
  <2>2. Has(toPage, i) => Has(toPage', i) \/ i = toPage[1].id
    BY <2>1, ShorterHas
  <2>3. Has(blobs', toPage[1].id)
    BY <2>1, LongerHas
  <2> QED
    BY <1>1, <2>1, <2>2, <2>3 DEF Queued
<1>4. ASSUME toDev' = toDev \/ Longer(toDev', toDev), toPage' = toPage \/ Longer(toPage', toPage)
      PROVE  i \in answered' \/ Has(toDev', i) \/ Has(toPage', i) \/ Has(blobs', i)
  <2>1. (Has(toDev, i) => Has(toDev', i)) /\ (Has(toPage, i) => Has(toPage', i))
    BY <1>4, LongerHas
  <2> QED
    BY <1>1, <2>1 DEF Queued
<1>5. ASSUME NEW code \in Codes, NEW pass \in Passes, NEW form \in BOOLEAN, Asks(code, pass, form)
      PROVE  (toDev' = toDev \/ Longer(toDev', toDev)) /\ toPage' = toPage
  BY <1>5, AskQueues
<1>6. CASE UserLogout
  BY <1>0, <1>4, <1>6, LogoutQueue
<1>7. CASE Broadcast
  BY <1>0, <1>4, <1>7, BroadcastQueue
<1>8. CASE UNCHANGED <<toDev, toPage>>
  BY <1>4, <1>8
<1>9. HandleReply => UNCHANGED <<toDev, toPage>>
  BY DEF HandleReply
<1>10. ~(Open \/ Lose \/ Connect \/ OnClose)
  BY DEF Open, Lose, Connect, OnClose
<1> QED
  BY <1>2, <1>3, <1>4, <1>5, <1>6, <1>7, <1>8, <1>9, <1>10, QueueSteps

\* Which calls there are after a step.
LEMMA OldOrNew ==
    ASSUME IInv, [Next]_vars, NEW i \in 1..Len(calls')
    PROVE  \/ i \in 1..Len(calls)
           \/ /\ i = Len(calls) + 1 /\ i \notin 1..Len(calls)
              /\ \E code \in Codes, pass \in Passes, form \in BOOLEAN : Asks(code, pass, form)
<1>0. TypeOK /\ Len(calls) \in Nat
  BY DEF IInv, TypeOK
<1>1. ASSUME NEW code \in Codes, NEW pass \in Passes, NEW form \in BOOLEAN, Asks(code, pass, form)
      PROVE  Len(calls') = Len(calls) + 1
  BY <1>1, NewCall
<1>2. ASSUME NEW j \in waiting, Timeout(j) PROVE Len(calls') = Len(calls)
  BY <1>0, <1>2, TimeoutCalls
<1>3. HandleReply => Len(calls') = Len(calls)
  BY ReplyCalls
<1> QED
  BY <1>0, <1>1, <1>2, <1>3, Parts DEF callVars

LEMMA FifoOld == IInv /\ [Next]_vars => \A i \in 1..Len(calls') : calls'[i].conn <= conn'
<1> SUFFICES ASSUME IInv, [Next]_vars, NEW i \in 1..Len(calls') PROVE calls'[i].conn <= conn'
  OBVIOUS
<1>0. /\ conn \in Nat /\ conn' \in Nat /\ CallsKept
      /\ \A j \in 1..Len(calls) : calls[j].conn <= conn /\ calls[j].conn \in Nat
  <2>1. TypeOK /\ TypeOK' /\ CallsKept
    BY Keeping, TypeNext DEF IInv
  <2>2. \A j \in 1..Len(calls) : calls[j] \in Call
    BY <2>1 DEF TypeOK
  <2>3. \A j \in 1..Len(calls) : calls[j].conn <= conn
    BY DEF IInv, Fifo
  <2>4. conn \in Nat /\ conn' \in Nat
    BY <2>1 DEF TypeOK
  <2> QED
    BY <2>1, <2>2, <2>3, <2>4 DEF Call
<1>1. conn <= conn'
  <2>1. CASE Connect
    BY <1>0, <2>1 DEF Connect
  <2>2. CASE conn' = conn
    BY <1>0, <2>2
  <2>3. Open \/ Lose \/ OnClose \/ UNCHANGED netVars => conn' = conn
    BY DEF Open, Lose, OnClose, netVars
  <2>4. ASSUME NEW code \in Codes, NEW pass \in Passes, NEW form \in BOOLEAN, Asks(code, pass, form)
        PROVE  conn' = conn
    BY <2>4, AskQueues
  <2>5. UserLogout \/ Handle \/ Broadcast \/ Receive \/ HandleReply => UNCHANGED netVars
    BY DEF UserLogout, Handle, Broadcast, Receive, HandleReply
  <2> QED
    BY <2>1, <2>2, <2>3, <2>4, <2>5, QueueSteps
<1>2. CASE i \in 1..Len(calls)
  <2>1. calls'[i].conn = calls[i].conn
    BY <1>0, <1>2 DEF CallsKept
  <2> QED
    BY <1>0, <1>1, <1>2, <2>1
<1>3. ASSUME i = Len(calls) + 1, NEW code \in Codes, NEW pass \in Passes, NEW form \in BOOLEAN,
             Asks(code, pass, form)
      PROVE  calls'[i].conn <= conn'
  BY <1>0, <1>1, <1>3, NewCall
<1> QED
  BY <1>2, <1>3, OldOrNew

LEMMA FifoConnecting ==
    IInv /\ [Next]_vars /\ link' = "connecting" =>
        \A i \in 1..Len(calls') : calls'[i].conn = conn' => calls'[i].end = "unsent"
<1> SUFFICES ASSUME IInv, [Next]_vars, link' = "connecting",
                    NEW i \in 1..Len(calls'), calls'[i].conn = conn'
             PROVE  calls'[i].end = "unsent"
  OBVIOUS
<1>0. TypeOK /\ CallsKept
  BY Keeping DEF IInv
<1>1. CASE Connect
  <2>1. conn' = conn + 1 /\ calls' = calls
    BY <1>1 DEF Connect, callVars
  <2>2. calls[i].conn <= conn /\ calls[i] \in Call /\ conn \in Nat
    BY <1>0, <2>1 DEF IInv, Fifo, TypeOK
  <2> QED
    BY <2>1, <2>2 DEF Call
<1>2. ASSUME link = "connecting", conn' = conn PROVE calls'[i].end = "unsent"
  <2>1. CASE i \in 1..Len(calls)
    BY <1>0, <1>2, <2>1 DEF IInv, Fifo, CallsKept
  <2>2. ASSUME i = Len(calls) + 1, NEW code \in Codes, NEW pass \in Passes, NEW form \in BOOLEAN,
               Asks(code, pass, form)
        PROVE  calls'[i].end = "unsent"
    BY <1>2, <2>2, NewCall DEF Throws
  <2> QED
    BY <2>1, <2>2, OldOrNew
<1>3. UserLogout \/ Handle \/ Broadcast \/ Receive \/ HandleReply => UNCHANGED <<link, conn>>
  BY DEF UserLogout, Handle, Broadcast, Receive, HandleReply, netVars
<1>4. ASSUME NEW code \in Codes, NEW pass \in Passes, NEW form \in BOOLEAN, Asks(code, pass, form)
      PROVE  UNCHANGED <<link, conn>>
  BY <1>4, AskQueues
<1>5. ~(Open \/ Lose \/ OnClose)
  BY DEF Open, Lose, OnClose
<1> QED
  BY <1>1, <1>2, <1>3, <1>4, <1>5, QueueSteps DEF netVars

LEMMA FifoOpen ==
    IInv /\ [Next]_vars /\ link' = "open" =>
        \A i \in 1..Len(calls') : calls'[i].conn = conn' /\ calls'[i].end # "unsent" =>
            i \in answered' \/ Has(toDev', i) \/ Has(toPage', i) \/ Has(blobs', i)
<1> SUFFICES ASSUME IInv, [Next]_vars, link' = "open",
                    NEW i \in 1..Len(calls'), calls'[i].conn = conn', calls'[i].end # "unsent"
             PROVE  i \in answered' \/ Has(toDev', i) \/ Has(toPage', i) \/ Has(blobs', i)
  OBVIOUS
<1>0. TypeOK /\ CallsKept /\ answered \subseteq answered'
  BY Keeping, AnsweredGrow DEF IInv
<1>1. CASE Open
  <2>1. calls' = calls /\ conn' = conn /\ link = "connecting"
    BY <1>1 DEF Open, callVars
  <2> QED
    BY <2>1 DEF IInv, Fifo
<1>2. ASSUME link = "open", conn' = conn
      PROVE  i \in answered' \/ Has(toDev', i) \/ Has(toPage', i) \/ Has(blobs', i)
  <2>1. CASE i \in 1..Len(calls)
    <3>1. i \in answered \/ Queued(i)
      BY <1>0, <1>2, <2>1 DEF IInv, Fifo, CallsKept
    <3> QED
      BY <1>0, <1>2, <2>1, <3>1, QueuesKept
  <2>2. ASSUME i = Len(calls) + 1, NEW code \in Codes, NEW pass \in Passes, NEW form \in BOOLEAN,
               Asks(code, pass, form)
        PROVE  Has(toDev', i)
    <3>1. toDev' = Append(toDev, [code |-> code, pass |-> pass, id |-> i])
      BY <1>2, <2>2 DEF Asks, Request
    <3>2. Longer(toDev', toDev) /\ toDev'[Len(toDev) + 1].id = i
      BY <1>0, <3>1, AppendLonger DEF TypeOK
    <3> QED
      BY <3>2, LongerHas
  <2> QED
    BY <2>1, <2>2, OldOrNew
<1>3. UserLogout \/ Handle \/ Broadcast \/ Receive \/ HandleReply => UNCHANGED <<link, conn>>
  BY DEF UserLogout, Handle, Broadcast, Receive, HandleReply, netVars
<1>4. ASSUME NEW code \in Codes, NEW pass \in Passes, NEW form \in BOOLEAN, Asks(code, pass, form)
      PROVE  UNCHANGED <<link, conn>>
  BY <1>4, AskQueues
<1>5. ~(Connect \/ Lose \/ OnClose)
  BY DEF Connect, Lose, OnClose
<1> QED
  BY <1>1, <1>2, <1>3, <1>4, <1>5, QueueSteps DEF netVars

\* The reply to a call is behind those to the earlier calls of its connection.
Before(s, k) ==
    \A i \in 1..Len(calls) :
        /\ s[k].code \in Codes /\ i < s[k].id
        /\ calls[i].conn = calls[s[k].id].conn /\ calls[i].end # "unsent"
        => i \in answered \/ Has(blobs, i)
BeforeNext(s, k) ==
    \A i \in 1..Len(calls') :
        /\ s[k].code \in Codes /\ i < s[k].id
        /\ calls'[i].conn = calls'[s[k].id].conn /\ calls'[i].end # "unsent"
        => i \in answered' \/ Has(blobs', i)

LEMMA StillBefore ==
    ASSUME IInv, [Next]_vars, NEW s, NEW k, s[k].id \in 0..Len(calls), Before(s, k)
    PROVE  BeforeNext(s, k)
<1> SUFFICES ASSUME NEW i \in 1..Len(calls'), s[k].code \in Codes, i < s[k].id,
                    calls'[i].conn = calls'[s[k].id].conn, calls'[i].end # "unsent"
             PROVE  i \in answered' \/ Has(blobs', i)
  BY DEF BeforeNext
<1>1. CallsKept /\ answered \subseteq answered' /\ Len(calls) \in Nat
  BY Keeping, AnsweredGrow DEF CallsKept
<1>2. i \in 1..Len(calls) /\ s[k].id \in 1..Len(calls)
  BY <1>1
<1>3. i \in answered \/ Has(blobs, i)
  BY <1>1, <1>2 DEF Before, CallsKept
<1> QED
  BY <1>1, <1>2, <1>3, BlobsKept

LEMMA FifoBlobs == IInv /\ [Next]_vars => \A k \in 1..Len(blobs') : BeforeNext(blobs', k)
<1> SUFFICES ASSUME IInv, [Next]_vars, NEW k \in 1..Len(blobs') PROVE BeforeNext(blobs', k)
  OBVIOUS
<1> USE DEF netVars
<1>0. /\ TypeOK /\ Wire /\ Order /\ Len(calls) \in Nat
      /\ \A j \in 1..Len(blobs) : blobs[j].id \in 0..Len(calls) /\ Before(blobs, j)
  BY OldIds DEF IInv, Fifo, Before
<1>1. \A j \in 1..Len(blobs) : BeforeNext(blobs, j)
  BY <1>0, StillBefore
<1>2. CASE blobs' = blobs
  BY <1>1, <1>2
<1>3. CASE Shorter(blobs', blobs)
  <2>1. blobs'[k] = blobs[k + 1] /\ k + 1 \in 1..Len(blobs)
    BY <1>3 DEF Shorter
  <2> QED
    BY <1>1, <2>1 DEF BeforeNext
<1>4. CASE Receive
  <2>1. /\ Longer(blobs', blobs) /\ Shorter(toPage', toPage) /\ blobs'[Len(blobs) + 1] = toPage[1]
        /\ 1 \in 1..Len(toPage) /\ link = "open"
    BY <1>0, <1>4, ReceiveQueues DEF Shorter, Wire
  <2>2. CASE k \in 1..Len(blobs)
    <3>1. blobs'[k] = blobs[k]
      BY <2>1, <2>2 DEF Longer
    <3> QED
      BY <1>1, <2>2, <3>1 DEF BeforeNext
  <2>3. CASE k = Len(blobs) + 1
    <3> DEFINE b == toPage[1]
    <3>1. Due(b) /\ Now(b) /\ blobs'[k] = b
      BY <1>0, <2>1, <2>3 DEF Wire
    <3>2. b.id \in 0..Len(calls)
      BY <2>1, OldIds
    <3>3. Before(toPage, 1)
      <4> SUFFICES ASSUME NEW i \in 1..Len(calls), b.code \in Codes, i < b.id,
                          calls[i].conn = calls[b.id].conn, calls[i].end # "unsent"
                   PROVE  i \in answered \/ Has(blobs, i)
        BY DEF Before
      <4>1. calls[b.id].conn = conn /\ b.id # 0 /\ i # 0
        BY <1>0, <3>1, <3>2 DEF Now
      <4>2. i \in answered \/ Queued(i)
        BY <2>1, <4>1 DEF IInv, Fifo
      <4>3. ~Has(toDev, i)
        <5> SUFFICES ASSUME NEW a \in 1..Len(toDev), toDev[a].id = i PROVE FALSE
          BY DEF Has
        <5>1. b.id < i
          BY <1>0, <2>1, <4>1 DEF Order, Below
        <5> QED
          BY <1>0, <3>2, <5>1
      <4>4. ~Has(toPage, i)
        <5> SUFFICES ASSUME NEW a \in 1..Len(toPage), toPage[a].id = i PROVE FALSE
          BY DEF Has
        <5>1. a # 1 /\ 1 < a
          BY <1>0, <2>1, <3>2
        <5>2. b.id < i
          BY <1>0, <2>1, <4>1, <5>1 DEF Order, Growing
        <5> QED
          BY <1>0, <3>2, <5>2
      <4> QED
        BY <4>2, <4>3, <4>4 DEF Queued
    <3>4. BeforeNext(toPage, 1)
      BY <3>2, <3>3, StillBefore
    <3> QED
      BY <3>1, <3>4 DEF BeforeNext
  <2> QED
    BY <2>1, <2>2, <2>3 DEF Longer
<1>5. ASSUME blobs # <<>>, blobs' = Tail(blobs) PROVE Shorter(blobs', blobs)
  BY <1>0, <1>5, BlobTaken
<1>6. HandleReply => blobs # <<>> /\ blobs' = Tail(blobs)
  BY DEF HandleReply
<1>7. ASSUME NEW code \in Codes, NEW pass \in Passes, NEW form \in BOOLEAN, Asks(code, pass, form)
      PROVE  blobs' = blobs \/ Shorter(blobs', blobs)
  BY <1>7, AskQueues
<1>8. UserLogout \/ Handle \/ Broadcast \/ Open \/ Lose \/ Connect \/ OnClose => blobs' = blobs
  BY DEF UserLogout, Handle, Broadcast, Open, Lose, Connect, OnClose
<1> QED
  BY <1>2, <1>3, <1>4, <1>5, <1>6, <1>7, <1>8, QueueSteps

LEMMA FifoNext == IInv /\ [Next]_vars => Fifo'
BY FifoOld, FifoConnecting, FifoOpen, FifoBlobs DEF Fifo, Queued, BeforeNext

-----------------------------------------------------------------------------
(* Replies and the calls they wake.                                         *)

LEMMA AlonesNext == IInv /\ [Next]_vars => Alones'
<1> SUFFICES ASSUME IInv, [Next]_vars, NEW i \in 1..Len(calls'), calls'[i].alone, NEW j \in 1..(i - 1),
                    calls'[j].code = calls'[i].code, calls'[j].conn = calls'[i].conn
             PROVE  j \in answered' \/ calls'[j].end = "unsent"
  BY DEF Alones
<1>1. CallsKept /\ answered \subseteq answered' /\ Len(calls) \in Nat /\ Len(calls') \in Nat
  BY Keeping, AnsweredGrow DEF CallsKept
<1>2. CASE i \in 1..Len(calls)
  <2>1. j \in 1..Len(calls)
    BY <1>1, <1>2
  <2> QED
    BY <1>1, <1>2, <2>1 DEF IInv, Alones, CallsKept
<1>3. ASSUME i = Len(calls) + 1, NEW code \in Codes, NEW pass \in Passes, NEW form \in BOOLEAN,
             Asks(code, pass, form)
      PROVE  j \in answered' \/ calls'[j].end = "unsent"
  <2>1. j \in 1..Len(calls) /\ calls'[j] = calls[j]
    BY <1>1, <1>3, NewCall
  <2>2. calls'[i].code = code /\ calls'[i].conn = conn /\ Alone(code)
    BY <1>3, NewCall
  <2> QED
    BY <1>1, <2>1, <2>2 DEF Alone
<1> QED
  BY <1>2, <1>3, OldOrNew

LEMMA DoneNext == IInv /\ [Next]_vars => Done'
<1> SUFFICES ASSUME IInv, [Next]_vars, NEW i \in answered', i \in waiting' PROVE FALSE
  BY DEF Done
<1>0. /\ TypeOK /\ Done /\ Len(calls) \in Nat /\ answered \subseteq 1..Len(calls)
      /\ waiting = {k \in 1..Len(calls) : calls[k].end = "none"}
  BY DEF IInv, TypeOK
<1>1. ASSUME NEW code \in Codes, NEW pass \in Passes, NEW form \in BOOLEAN, Asks(code, pass, form)
      PROVE  FALSE
  <2>1. i \in answered /\ i \in waiting \union {Len(calls) + 1}
    BY <1>1, NewCall, AskQueues
  <2> QED
    BY <1>0, <2>1 DEF Done
<1>2. ASSUME NEW k \in waiting, Timeout(k) PROVE FALSE
  BY <1>0, <1>2 DEF Timeout, Done
<1>3. CASE HandleReply
  <2> DEFINE m == Head(blobs)
  <2>1. /\ waiting' = waiting \ Woken(m) /\ Due(m) /\ m \in Answer /\ m.code # "config"
        /\ answered' = IF m.code = "logout" THEN answered ELSE answered \union {m.id}
    BY <1>3, ReplyCalls
  <2>2. m.code # "logout" => m.code \in Codes
    BY <2>1 DEF Answer
  <2>3. CASE i \in answered
    BY <1>0, <2>1, <2>3 DEF Done
  <2>4. CASE m.code \in Codes /\ i = m.id
    BY <2>1, <2>4 DEF Due, Woken
  <2> QED
    BY <2>1, <2>2, <2>3, <2>4
<1>4. CASE UNCHANGED callVars
  BY <1>0, <1>4 DEF callVars, Done
<1> QED
  BY <1>1, <1>2, <1>3, <1>4, Parts

\* The reply at the head wakes no call but its own, of those made alone on its connection.
LEMMA OwnCall ==
    ASSUME IInv, HandleReply, NEW i \in Woken(Head(blobs)), calls[i].alone
    PROVE  Head(blobs).id = i \/ calls[Head(blobs).id].conn # calls[i].conn
<1> DEFINE m == Head(blobs)
<1> SUFFICES ASSUME m.id # i, calls[m.id].conn = calls[i].conn PROVE FALSE
  OBVIOUS
<1>1. /\ m = blobs[1] /\ 1 \in 1..Len(blobs) /\ Due(m) /\ m.id \in Nat /\ Len(blobs) \in Nat
  BY ReplyCalls DEF IInv, TypeOK
<1>2. /\ i \in waiting /\ i \in 1..Len(calls) /\ calls[i].code = m.code /\ calls[i].end = "none"
      /\ calls[i] \in Call /\ i \notin answered
  BY DEF Woken, IInv, TypeOK, Done
<1>3. m.code \in Codes
  BY <1>2 DEF Call
<1>4. m.id \in 1..Len(calls) /\ calls[m.id].code = m.code /\ m.id \notin answered /\ calls[m.id].end # "unsent"
  BY <1>1, <1>3 DEF Due
<1>5. CASE m.id < i
  <2>1. m.id \in 1..(i - 1)
    BY <1>2, <1>4, <1>5
  <2> QED
    BY <1>2, <1>4, <2>1 DEF IInv, Alones
<1>6. CASE i < m.id
  <2>1. Has(blobs, i)
    BY <1>1, <1>2, <1>3, <1>6 DEF IInv, Fifo
  <2>2. PICK k \in 1..Len(blobs) : blobs[k].id = i
    BY <2>1 DEF Has
  <2>3. k # 1 /\ 1 < k
    BY <1>1, <2>2
  <2>4. blobs[1].id < blobs[k].id
    BY <1>1, <1>2, <1>4, <2>2, <2>3 DEF IInv, Order, Growing
  <2> QED
    BY <1>1, <1>2, <1>4, <1>6, <2>2, <2>4
<1> QED
  BY <1>1, <1>2, <1>5, <1>6

\* What a step does to the call that a reply woke.
LEMMA ByNext ==
    ASSUME IInv, [Next]_vars, NEW i \in 1..Len(calls)
    PROVE  \/ calls'[i].by = calls[i].by
           \/ /\ HandleReply /\ i \in Woken(Head(blobs)) /\ calls'[i].by = Head(blobs).id
              /\ Head(blobs).id \in 1..Len(calls)
<1>0. TypeOK
  BY DEF IInv
<1>1. ASSUME NEW code \in Codes, NEW pass \in Passes, NEW form \in BOOLEAN, Asks(code, pass, form)
      PROVE  calls'[i].by = calls[i].by
  BY <1>1, NewCall
<1>2. ASSUME NEW k \in waiting, Timeout(k) PROVE calls'[i].by = calls[i].by
  BY <1>0, <1>2, TimeoutCalls
<1>3. ASSUME HandleReply, calls'[i].by # calls[i].by
      PROVE  /\ i \in Woken(Head(blobs)) /\ calls'[i].by = Head(blobs).id
             /\ Head(blobs).id \in 1..Len(calls)
  <2> DEFINE m == Head(blobs)
  <2>1. calls'[i].by = (IF i \in Woken(m) THEN m.id ELSE calls[i].by) /\ Due(m) /\ calls[i] \in Call
    BY <1>3, ReplyCalls
  <2>2. i \in Woken(m) /\ calls'[i].by = m.id
    BY <1>3, <2>1
  <2>3. m.code \in Codes
    BY <2>1, <2>2 DEF Woken, Call
  <2> QED
    BY <2>1, <2>2, <2>3 DEF Due
<1> QED
  BY <1>1, <1>2, <1>3, Parts DEF callVars

LEMMA WokeNext == IInv /\ [Next]_vars => Woke'
<1> SUFFICES ASSUME IInv, [Next]_vars, NEW i \in 1..Len(calls') PROVE calls'[i].by \in 0..Len(calls')
  BY DEF Woke
<1>1. Len(calls) \in Nat /\ Len(calls') \in Nat /\ Len(calls) <= Len(calls')
  BY Keeping DEF CallsKept
<1>2. CASE i \in 1..Len(calls)
  <2>1. calls[i].by \in 0..Len(calls)
    BY <1>2 DEF IInv, Woke
  <2> QED
    BY <1>1, <1>2, <2>1, ByNext
<1>3. ASSUME i = Len(calls) + 1, NEW code \in Codes, NEW pass \in Passes, NEW form \in BOOLEAN,
             Asks(code, pass, form)
      PROVE  calls'[i].by = 0
  BY <1>3, NewCall
<1> QED
  BY <1>1, <1>2, <1>3, OldOrNew

LEMMA OwnNext == IInv /\ [Next]_vars => OwnReply'
<1> SUFFICES ASSUME IInv, [Next]_vars, NEW i \in 1..Len(calls'), calls'[i].by # 0, calls'[i].alone
             PROVE  calls'[i].by = i \/ calls'[calls'[i].by].conn # calls'[i].conn
  BY DEF OwnReply
<1>1. CallsKept
  BY Keeping
<1>2. CASE i \in 1..Len(calls)
  <2>1. CASE calls'[i].by = calls[i].by
    <3>1. calls[i].by \in 1..Len(calls)
      BY <1>1, <1>2, <2>1 DEF IInv, Woke, CallsKept
    <3> QED
      BY <1>1, <1>2, <2>1, <3>1 DEF IInv, OwnReply, CallsKept
  <2>2. CASE /\ HandleReply /\ i \in Woken(Head(blobs)) /\ calls'[i].by = Head(blobs).id
             /\ Head(blobs).id \in 1..Len(calls)
    BY <1>1, <1>2, <2>2, OwnCall DEF CallsKept
  <2> QED
    BY <1>2, <2>1, <2>2, ByNext
<1>3. ASSUME i = Len(calls) + 1, NEW code \in Codes, NEW pass \in Passes, NEW form \in BOOLEAN,
             Asks(code, pass, form)
      PROVE  calls'[i].by = 0
  BY <1>3, NewCall
<1> QED
  BY <1>2, <1>3, OldOrNew

-----------------------------------------------------------------------------
(* Theorems.                                                                *)

LEMMA InitInv == Init => IInv
<1> SUFFICES ASSUME Init PROVE IInv
  OBVIOUS
<1>1. /\ Len(calls) = 0 /\ Len(toDev) = 0 /\ Len(toPage) = 0 /\ Len(blobs) = 0
      /\ toDev = <<>> /\ toPage = <<>> /\ answered = {} /\ link = "connecting" /\ timer = FALSE
  BY DEF Init
<1>2. Wire
  BY <1>1 DEF Wire
<1>3. Order
  BY <1>1 DEF Order, Growing, Below
<1>4. Fifo
  BY <1>1 DEF Fifo
<1>5. Alones /\ Done /\ Woke /\ OwnReply /\ OneConnection
  BY <1>1 DEF Alones, Done, Woke, OwnReply, OneConnection
<1> QED
  BY <1>2, <1>3, <1>4, <1>5, TypeInit DEF IInv

\* The inductive invariant: what is under way is due to a call of its
\* connection, in the order of the calls, and no call is left out.
THEOREM Correspondence == Spec => []IInv
<1>1. Init => IInv
  BY InitInv
<1>2. IInv /\ [Next]_vars => IInv'
  <2> SUFFICES ASSUME IInv, [Next]_vars PROVE IInv'
    OBVIOUS
  <2>1. TypeOK' /\ OneConnection' /\ Wire' /\ Order' /\ Fifo'
    BY TypeNext, OneNext, WireNext, OrderNext, FifoNext
  <2>2. Alones' /\ Done' /\ Woke' /\ OwnReply'
    BY AlonesNext, DoneNext, WokeNext, OwnNext
  <2> QED
    BY <2>1, <2>2 DEF IInv
<1> QED
  BY <1>1, <1>2, PTL DEF Spec

\* The page's state is of its type; the waiters are the calls without an end.
THEOREM TypeCorrect == Spec => []TypeOK
<1>1. IInv => TypeOK
  BY DEF IInv
<1> QED
  BY <1>1, Correspondence, PTL

\* The page has a socket or a timer that makes one, never both, never neither.
THEOREM OneOrTheOther == Spec => []OneConnection
<1>1. IInv => OneConnection
  BY DEF IInv
<1> QED
  BY <1>1, Correspondence, PTL

\* A request that was alone on its connection is woken by its own reply, or
\* by that of a request of another connection.
THEOREM RepliesMatch == Spec => []OwnReply
<1>1. IInv => OwnReply
  BY DEF IInv
<1> QED
  BY <1>1, Correspondence, PTL

=============================================================================
