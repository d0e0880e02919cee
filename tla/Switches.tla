------------------------------- MODULE Switches -------------------------------
(***************************************************************************)
(* The switches as several clients see them: the GTK client (clients/gtk,  *)
(* shb.c and websocket_client.c), the web application (api.ts) and the     *)
(* terminal all change the one byte config.switch_values, and a client     *)
(* computes the byte it sends from the last value it was told.  It         *)
(* composes what the threads of the device do with that byte               *)
(* (actuator_update, the broadcast of the configuration, the message a     *)
(* client gets when it connects) with the clients and their connections.   *)
(* How the relays get the byte is in Actuator.tla, how it is saved in      *)
(* Config.tla, how a broadcast walks the slots in WebSocket.tla.           *)
(*                                                                         *)
(* A byte is the set of the switches that are on.                          *)
(***************************************************************************)
EXTENDS Integers, Sequences

CONSTANTS
    Clients,
    Terminal,    \* the thread of the terminal
    Switch,      \* the switches, APP_SWITCH_COUNT of them
    Known,       \* clients that cannot be used before the first configuration (web)
    Saved,       \* the values the device may start with (a bound of the model)
    MaxChanges,  \* clicks and commands (a bound of the model)
    MaxDrops     \* connections lost (a bound of the model)

ASSUME Assumptions ==
    /\ Terminal \notin Clients /\ Known \subseteq Clients
    /\ Saved \subseteq SUBSET Switch
    /\ MaxChanges \in Nat /\ MaxDrops \in Nat

VARIABLES
    val, ver,  \* config.switch_values, and the number of updates that made it
    casts,     \* broadcasts that a thread has built and not sent yet
    conn,      \* each client's connection: none, or how far its thread has come
    nth,       \* how often the client was connected
    copy,      \* what on_ws_client has copied for a client that connects
    up, down,  \* messages between a client and its thread
    view,      \* what a client shows: the last value it was told
    seen,      \* and which value that was, -1 when it was told none
    changes, drops,
    overlap,   \* two threads were between their change and its broadcast, at the last change
    late,      \* clients that connect and were sent a broadcast before their configuration
    missed     \* clients that the last thing meant for them did not reach

devVars  == <<val, ver, casts, overlap>>
connVars == <<conn, nth, copy, late, missed>>
viewVars == <<view, seen>>
vars == <<devVars, connVars, up, down, viewVars, changes, drops>>

Byte   == SUBSET Switch
Told   == [val : Byte, ver : Nat]
Thread == (Clients \X Nat) \union {<<Terminal, 0>>}
Built  == [val : Byte, ver : Nat, by : Thread]
Asked  == [val : Byte, bit : Switch, seen : Int]
Self(c) == <<c, nth[c]>>

TypeOK ==
    /\ val \in Byte /\ ver \in Nat
    /\ casts \subseteq Built
    /\ conn \in [Clients -> {"none", "opened", "copied", "open"}]
    /\ nth \in [Clients -> Nat] /\ copy \in [Clients -> Told]
    /\ up \in [Clients -> Seq(Asked)]
    /\ down \in [Clients -> Seq(Told)]
    /\ view \in [Clients -> Byte] /\ seen \in [Clients -> Int]
    /\ changes \in Nat /\ drops \in Nat
    /\ overlap \in BOOLEAN /\ late \subseteq Clients /\ missed \subseteq Clients

Init ==
    /\ val \in Saved /\ ver = 0 /\ casts = {}
    /\ conn = [c \in Clients |-> "none"] /\ nth = [c \in Clients |-> 0]
    /\ copy = [c \in Clients |-> [val |-> {}, ver |-> 0]]
    /\ up = [c \in Clients |-> <<>>] /\ down = [c \in Clients |-> <<>>]
    /\ view = [c \in Clients |-> {}] /\ seen = [c \in Clients |-> -1]
    /\ changes = 0 /\ drops = 0 /\ overlap = FALSE /\ late = {} /\ missed = {}

-----------------------------------------------------------------------------
(* The clients.                                                             *)

Toggled(v, i) == IF i \in v THEN v \ {i} ELSE v \union {i}

\* Slip: the buttons are counted from 1 and the bits from 0.
Click_OffByOne(c, i) ==
    /\ changes < MaxChanges /\ changes' = changes + 1
    /\ conn[c] # "none" /\ (c \in Known => seen[c] >= 0)
    /\ up' = [up EXCEPT ![c] = Append(@, [val |-> Toggled(view[c], i + 1), bit |-> i, seen |-> seen[c]])]
    /\ UNCHANGED <<devVars, connVars, down, viewVars, drops>>

\* on_button_clicked and updateActuator.  Without a connection nothing is
\* sent.  The web page hides its switches until it has a configuration.
Click(c, i) ==
    /\ changes < MaxChanges /\ changes' = changes + 1
    /\ conn[c] # "none" /\ (c \in Known => seen[c] >= 0)
    /\ up' = [up EXCEPT ![c] = Append(@, [val |-> Toggled(view[c], i), bit |-> i, seen |-> seen[c]])]
    /\ UNCHANGED <<devVars, connVars, down, viewVars, drops>>

\* on_ws_config and on_ws_actuator; updateAppConfig and wsOnSwitchUpdate.
Show(c) ==
    /\ down[c] # <<>> /\ down' = [down EXCEPT ![c] = Tail(@)]
    /\ view' = [view EXCEPT ![c] = Head(down[c]).val]
    /\ seen' = [seen EXCEPT ![c] = Head(down[c]).ver]
    /\ UNCHANGED <<devVars, connVars, up, changes, drops>>

\* connect_websocket, again after three seconds without a connection; connect().
Connect(c) ==
    /\ conn[c] = "none"
    /\ conn' = [conn EXCEPT ![c] = "opened"] /\ nth' = [nth EXCEPT ![c] = @ + 1]
    /\ late' = late \ {c} /\ missed' = missed \ {c}
    /\ UNCHANGED <<devVars, copy, up, down, viewVars, changes, drops>>

\* The connection is lost with what is on its way; the client shows what it
\* showed.
Drop(c) ==
    /\ conn[c] # "none" /\ drops < MaxDrops /\ drops' = drops + 1
    /\ conn' = [conn EXCEPT ![c] = "none"]
    /\ up' = [up EXCEPT ![c] = <<>>] /\ down' = [down EXCEPT ![c] = <<>>]
    /\ UNCHANGED <<devVars, nth, copy, late, missed, viewVars, changes>>

-----------------------------------------------------------------------------
(* The device: ws_onopen calls on_ws_client, which copies the configuration *)
(* and sends the copy; the connection is OPEN from before, and broadcasts   *)
(* reach it.                                                                *)

CopyConfig(c) ==
    /\ conn[c] = "opened" /\ conn' = [conn EXCEPT ![c] = "copied"]
    /\ copy' = [copy EXCEPT ![c] = [val |-> val, ver |-> ver]]
    /\ UNCHANGED <<devVars, nth, late, missed, up, down, viewVars, changes, drops>>

\* The send may fail (no memory, or the client does not read); nobody asks.
SendConfig(c) ==
    /\ conn[c] = "copied" /\ conn' = [conn EXCEPT ![c] = "open"]
    /\ \/ down' = [down EXCEPT ![c] = Append(@, copy[c])] /\ UNCHANGED missed
       \/ missed' = missed \union {c} /\ UNCHANGED down
    /\ UNCHANGED <<devVars, nth, copy, late, up, viewVars, changes, drops>>

\* actuator_update: the value is stored and the broadcast of it follows.
Update(t, v) ==
    /\ \A m \in casts : m.by # t
    /\ val' = v /\ ver' = ver + 1
    /\ casts' = casts \union {[val |-> v, ver |-> ver + 1, by |-> t]}
    /\ overlap' = (casts # {})

Apply(c) ==
    /\ conn[c] = "open" /\ up[c] # <<>> /\ up' = [up EXCEPT ![c] = Tail(@)]
    /\ Update(Self(c), Head(up[c]).val)
    /\ UNCHANGED <<connVars, down, viewVars, changes, drops>>

Command(v) ==
    /\ changes < MaxChanges /\ changes' = changes + 1
    /\ Update(<<Terminal, 0>>, v)
    /\ UNCHANGED <<connVars, up, down, viewVars, drops>>

\* A name is changed by a client: the whole configuration is copied and then
\* broadcast.
Rename(c) ==
    /\ conn[c] = "open" /\ changes < MaxChanges /\ changes' = changes + 1
    /\ \A m \in casts : m.by # Self(c)
    /\ casts' = casts \union {[val |-> val, ver |-> ver, by |-> Self(c)]}
    /\ overlap' = (casts # {})
    /\ UNCHANGED <<val, ver, connVars, up, down, viewVars, drops>>

Connected == {c \in Clients : conn[c] # "none"}

\* A broadcast comes to some clients: what each connection is sent, and whom
\* it came too early for or did not reach.
Reach(m, some) ==
    /\ down' = [c \in Clients |->
           IF c \in some THEN Append(down[c], [val |-> m.val, ver |-> m.ver]) ELSE down[c]]
    /\ late' = {c \in Clients : conn[c] = "copied"}

\* Slip: the client that asked is left out.
Cast_Others(m) ==
    /\ m \in casts /\ casts' = casts \ {m}
    /\ \E some \in SUBSET Connected :
           /\ Reach(m, {c \in some : m.by # Self(c)})
           /\ missed' = {c \in Clients : conn[c] = "open"} \ some
    /\ UNCHANGED <<val, ver, overlap, conn, nth, copy, up, viewVars, changes, drops>>

\* The broadcast, under the global mutex.  It stops at the first client that
\* cannot be sent to, and without memory it reaches nobody: the slots are in
\* any order, so those it does not come to are any.  They stay connected, and
\* nothing is sent to them again.
Cast(m) ==
    /\ m \in casts /\ casts' = casts \ {m}
    /\ \E some \in SUBSET Connected :
           /\ Reach(m, some)
           /\ missed' = {c \in Clients : conn[c] = "open"} \ some
    /\ UNCHANGED <<val, ver, overlap, conn, nth, copy, up, viewVars, changes, drops>>

-----------------------------------------------------------------------------
Device(c) == CopyConfig(c) \/ SendConfig(c) \/ Apply(c)

Next ==
    \/ \E c \in Clients :
           \/ Show(c) \/ Connect(c) \/ Drop(c) \/ Device(c) \/ Rename(c)
           \/ \E i \in Switch : Click(c, i)
    \/ \E v \in Byte : Command(v)
    \/ \E m \in casts : Cast(m)

Spec == Init /\ [][Next]_vars

-----------------------------------------------------------------------------
Quiet == casts = {} /\ \A c \in Clients : down[c] = <<>> /\ conn[c] \in {"none", "open"}

\* "Broadcast to other client": once everything sent has arrived, a client
\* shows the value the device has, but in three cases: its first configuration
\* or the last broadcast did not reach it (a send to it, or to a client of a
\* slot before its own, failed); a broadcast was sent to it between the copy
\* and the sending of its first configuration; or at the last change another
\* thread was between its change and its broadcast.  The next change that is
\* broadcast alone, and reaches the client, makes all of them good.
ViewTrue ==
    Quiet /\ ~overlap =>
        \A c \in Clients : conn[c] = "open" /\ c \notin late \union missed => view[c] = val

\* A click changes only its own switch, unless the client that was clicked had
\* not been told of the last change when it was: then it undoes that change,
\* and, when it was told nothing yet, all switches that are on.
ClickIsOne ==
    [][\A c \in Clients : Apply(c) /\ Head(up[c]).seen = ver =>
           val' = Toggled(val, Head(up[c]).bit)]_vars

=============================================================================
