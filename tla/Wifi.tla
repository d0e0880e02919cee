-------------------------------- MODULE Wifi --------------------------------
(***************************************************************************)
(* WiFi of main/wifi.c and main/wifi_action.c: the bits of APP_STATE,      *)
(* which the event handler and the actions share, the retries, and the     *)
(* mode of the driver.  The event handler runs in the event task; the      *)
(* actions run in the connection threads of the web socket and in the      *)
(* terminal, several at once.                                              *)
(*                                                                         *)
(* The driver is external: it keeps its mode and auto-connect flag in the  *)
(* flash, starts and stops its interfaces when the mode changes, keeps the *)
(* link of the station, and posts its events to a queue.                   *)
(***************************************************************************)
EXTENDS Sequences, Integers, FiniteSets

CONSTANTS
    Callers,   \* the threads that call actions
    Ops,       \* the actions called in this instance
    MaxCalls,  \* calls between two boots (a bound of the model)
    MaxRetry,  \* CONFIG_APP_WIFI_MAX_RETRY
    Faults     \* what may fail in this instance: esp_wifi_get_mode ("get"),
               \* esp_wifi_get_config of the AP ("config"), esp_wifi_start ("start")

Actions == {"connect", "disconnect", "update_sta", "ap_start", "ap_stop", "scan"}
Bits    == {"ap_started", "sta_connecting", "sta_connected", "sta_fail", "wifi_error"}
Events  == {"AP_START", "AP_STOP", "STA_START", "STA_STOP", "STA_CONNECTED",
            "ASSOC_LEAVE", "DISCONNECTED", "NO_AP_FOUND"}
Ifaces  == {"ap", "sta"}

ASSUME Assumptions == /\ Ops \subseteq Actions /\ MaxCalls \in Nat /\ MaxRetry \in Nat
                      /\ Faults \subseteq {"get", "config", "start"}

VARIABLES
    mode, auto, apNamed,  \* driver, in flash: its mode, auto-connect, is an AP configured
    started, link, queue, \* driver: esp_wifi_start called, the station's link, events posted
    bits, retry,          \* APP_STATE, retry_cntr
    epc, ev,              \* the event task: where it is, the event in hand
    up,                   \* app_wifi_start: has it returned, and how
    pc, op, got,          \* each caller: where it is, its action, cur_mode
    calls                 \* actions called since the boot

flash   == <<mode, auto, apNamed>>
driver  == <<started, link, queue>>
app     == <<bits, retry>>
task    == <<epc, ev>>
callers == <<pc, op, got, calls>>
vars    == <<flash, driver, app, task, up, callers>>

EPc == {"idle", "handle", "start", "connected", "sleep", "retry", "connect"}
CPc == {"idle", "check", "clear", "auto_off", "get", "mode", "start", "stop",
        "auto_on", "config", "wait", "force", "call", "answer"}

TypeOK ==
    /\ mode \subseteq Ifaces /\ auto \in BOOLEAN /\ apNamed \in BOOLEAN
    /\ started \in BOOLEAN /\ link \in {"idle", "connecting", "connected"} /\ queue \in Seq(Events)
    /\ bits \subseteq Bits /\ retry \in 0..MaxRetry
    /\ epc \in EPc /\ ev \in Events \union {"none"}
    /\ up \in {"no", "yes", "failed"}
    /\ pc \in [Callers -> CPc] /\ op \in [Callers -> Actions \union {"none", "join"}]
    /\ got \in [Callers -> SUBSET Ifaces] /\ calls \in 0..MaxCalls

\* The flash holds what the last boots left in it.
Init ==
    /\ mode \in SUBSET Ifaces /\ auto \in BOOLEAN /\ apNamed \in BOOLEAN
    /\ started = FALSE /\ link = "idle" /\ queue = <<>>
    /\ bits = {} /\ retry = 0
    /\ epc = "idle" /\ ev = "none"
    /\ up = "no"
    /\ pc = [t \in Callers |-> "idle"] /\ op = [t \in Callers |-> "none"]
    /\ got = [t \in Callers |-> {}] /\ calls = 0

Goto(t, from, to) == pc[t] = from /\ pc' = [pc EXCEPT ![t] = to]
EGoto(from, to)   == epc = from /\ epc' = to

-----------------------------------------------------------------------------
(* The driver.                                                              *)

StaUp == started /\ "sta" \in mode
ApUp  == started /\ "ap" \in mode

\* A station that stops leaves its network; an attempt may be given up silently.
Leaving == IF link = "connected" THEN {<<"ASSOC_LEAVE">>}
           ELSE IF link = "connecting" THEN {<<"ASSOC_LEAVE">>, <<>>} ELSE {<<>>}

EventIf(i, b, e) == IF i \in b THEN <<e>> ELSE <<>>

\* esp_wifi_set_mode, esp_wifi_start, esp_wifi_stop: the interfaces in use
\* change from (started, mode) to (s, md), and each change is an event.
Reconfigure(md, s) ==
    LET was == IF started THEN mode ELSE {}
        now == IF s THEN md ELSE {} IN
    /\ mode' = md /\ started' = s
    /\ link' = IF "sta" \in now THEN link ELSE "idle"
    /\ \E left \in (IF "sta" \in was \ now THEN Leaving ELSE {<<>>}) :
           queue' = queue \o left
                    \o EventIf("sta", was \ now, "STA_STOP") \o EventIf("ap", was \ now, "AP_STOP")
                    \o EventIf("sta", now \ was, "STA_START") \o EventIf("ap", now \ was, "AP_START")

\* esp_wifi_connect fails without a station and has no effect on a live link.
DriverConnect ==
    /\ link' = IF StaUp /\ link = "idle" THEN "connecting" ELSE link
    /\ UNCHANGED <<started, queue>>

LinkUp ==
    /\ link = "connecting" /\ link' = "connected"
    /\ queue' = Append(queue, "STA_CONNECTED")
    /\ UNCHANGED <<flash, started, app, task, up, callers>>

\* The attempt fails or the link is lost; the driver does not try again.
LinkDown ==
    /\ link # "idle" /\ link' = "idle"
    /\ \E e \in {"DISCONNECTED", "NO_AP_FOUND"} :
           /\ e = "NO_AP_FOUND" => link = "connecting"
           /\ queue' = Append(queue, e)
    /\ UNCHANGED <<flash, started, app, task, up, callers>>

-----------------------------------------------------------------------------
(* handle_wifi_event.                                                       *)

Take ==
    /\ EGoto("idle", "handle") /\ queue # <<>>
    /\ ev' = Head(queue) /\ queue' = Tail(queue)
    /\ UNCHANGED <<flash, started, link, app, up, callers>>

OnApStart ==
    /\ ev = "AP_START" /\ EGoto("handle", "idle")
    /\ bits' = bits \union {"ap_started"}
    /\ UNCHANGED <<flash, driver, retry, ev, up, callers>>

\* Slip: the bit is left when the AP stops.
OnApStop_Kept ==
    /\ ev = "AP_STOP" /\ EGoto("handle", "idle")
    /\ UNCHANGED <<flash, driver, app, ev, up, callers>>

OnApStop ==
    /\ ev = "AP_STOP" /\ EGoto("handle", "idle")
    /\ bits' = bits \ {"ap_started"}
    /\ UNCHANGED <<flash, driver, retry, ev, up, callers>>

\* esp_wifi_get_auto_connect, and then the connection if it was on.
OnStaStart ==
    /\ ev = "STA_START" /\ EGoto("handle", IF auto THEN "start" ELSE "idle")
    /\ UNCHANGED <<flash, driver, app, ev, up, callers>>

StartConnecting ==
    /\ EGoto("start", "connect")
    /\ bits' = (bits \ {"sta_fail"}) \union {"sta_connecting"}
    /\ UNCHANGED <<flash, driver, retry, ev, up, callers>>

\* Slip: the bit of an attempt outlives the station.
OnStaStop_KeepsBit ==
    /\ ev = "STA_STOP" /\ EGoto("handle", "idle")
    /\ UNCHANGED <<flash, driver, app, ev, up, callers>>

OnStaStop ==
    /\ ev = "STA_STOP" /\ EGoto("handle", "idle")
    /\ bits' = bits \ {"sta_connecting"}
    /\ UNCHANGED <<flash, driver, retry, ev, up, callers>>

OnStaConnected ==
    /\ ev = "STA_CONNECTED" /\ EGoto("handle", "connected")
    /\ bits' = bits \ {"sta_connecting", "sta_fail"}
    /\ UNCHANGED <<flash, driver, retry, ev, up, callers>>

SetConnected ==
    /\ EGoto("connected", "idle")
    /\ bits' = bits \union {"sta_connected"}
    /\ retry' = 0
    /\ UNCHANGED <<flash, driver, ev, up, callers>>

\* Slip: only the bit of the attempt is cleared when the user disconnects.
OnAssocLeave_KeepsBit ==
    /\ ev = "ASSOC_LEAVE" /\ EGoto("handle", "idle")
    /\ bits' = bits \ {"sta_connecting", "sta_fail"}
    /\ UNCHANGED <<flash, driver, retry, ev, up, callers>>

OnAssocLeave ==
    /\ ev = "ASSOC_LEAVE" /\ EGoto("handle", "idle")
    /\ bits' = bits \ {"sta_connecting", "sta_fail", "sta_connected"}
    /\ UNCHANGED <<flash, driver, retry, ev, up, callers>>

\* Slip: one attempt too many is counted.
OnDisconnected_OffByOne ==
    /\ ev \in {"DISCONNECTED", "NO_AP_FOUND"} /\ retry <= MaxRetry
    /\ EGoto("handle", IF ev = "NO_AP_FOUND" THEN "sleep" ELSE "retry")
    /\ bits' = bits \ {"sta_connected"}
    /\ retry' = retry + 1
    /\ UNCHANGED <<flash, driver, ev, up, callers>>

\* The ten seconds before another attempt when the network was not found are
\* spent in the event task.
OnDisconnected ==
    /\ ev \in {"DISCONNECTED", "NO_AP_FOUND"} /\ retry < MaxRetry
    /\ EGoto("handle", IF ev = "NO_AP_FOUND" THEN "sleep" ELSE "retry")
    /\ bits' = bits \ {"sta_connected"}
    /\ retry' = retry + 1
    /\ UNCHANGED <<flash, driver, ev, up, callers>>

Wake ==
    /\ EGoto("sleep", "retry")
    /\ UNCHANGED <<flash, driver, app, ev, up, callers>>

\* Slip: the reconnection is given up when the bit is not set.
Retry_GivesUp ==
    /\ EGoto("retry", IF "sta_connecting" \in bits THEN "connect" ELSE "idle")
    /\ bits' = bits \union {"sta_connecting"}
    /\ UNCHANGED <<flash, driver, retry, ev, up, callers>>

Retry ==
    /\ EGoto("retry", "connect")
    /\ bits' = bits \union {"sta_connecting"}
    /\ UNCHANGED <<flash, driver, retry, ev, up, callers>>

Connect ==
    /\ EGoto("connect", "idle")
    /\ DriverConnect
    /\ UNCHANGED <<flash, app, ev, up, callers>>

\* The chip restarts: the flash is all that is left.
Restart ==
    /\ started' = FALSE /\ link' = "idle" /\ queue' = <<>>
    /\ bits' = {} /\ retry' = 0
    /\ epc' = "idle" /\ ev' = "none"
    /\ up' = "no"
    /\ pc' = [t \in Callers |-> "idle"] /\ op' = [t \in Callers |-> "none"]
    /\ got' = [t \in Callers |-> {}] /\ calls' = 0
    /\ UNCHANGED flash

GiveUp ==
    /\ epc = "handle" /\ ev \in {"DISCONNECTED", "NO_AP_FOUND"} /\ retry = MaxRetry
    /\ Restart

HandleEvent ==
    \/ Take \/ OnApStart \/ OnApStop \/ OnStaStart \/ StartConnecting \/ OnStaStop
    \/ OnStaConnected \/ SetConnected \/ OnAssocLeave
    \/ OnDisconnected \/ Wake \/ Retry \/ Connect \/ GiveUp

-----------------------------------------------------------------------------
(* app_wifi_start.                                                          *)

\* The test for a configured station reads the configuration of the AP.
AutoAtBoot == auto' = (auto /\ apNamed) \/ ("config" \in Faults /\ UNCHANGED auto)

WifiStart ==
    /\ up = "no" /\ up' = "yes"
    /\ IF mode = {}
       THEN UNCHANGED <<mode, auto, driver>>
       ELSE AutoAtBoot /\ Reconfigure(mode, TRUE)
    /\ UNCHANGED <<apNamed, app, task, callers>>

\* It takes its event handlers back and registers no web socket handler, so
\* that no client's action comes any more.
WifiStartFails ==
    /\ up = "no" /\ up' = "failed"
    /\ \/ "get" \in Faults /\ UNCHANGED auto
       \/ "start" \in Faults /\ mode # {} /\ AutoAtBoot
    /\ bits' = bits \union {"wifi_error"}
    /\ UNCHANGED <<mode, apNamed, driver, retry, task, callers>>

Boot == WifiStart \/ WifiStartFails

-----------------------------------------------------------------------------
(* The actions of wifi_action.c, called by the handlers of wifi.c and by    *)
(* the terminal.                                                            *)

Return(t) == pc' = [pc EXCEPT ![t] = "idle"] /\ op' = [op EXCEPT ![t] = "none"]

\* on_ws_get_set_config_sta disconnects, waits a second, and joins a network.
Disconnected(t) ==
    IF op[t] = "update_sta"
    THEN pc' = [pc EXCEPT ![t] = "get"] /\ op' = [op EXCEPT ![t] = "join"]
    ELSE Return(t)

\* app_wifi_connect: of the saved network or of another ("connect", in the
\* terminal), of another ("join", in on_ws_get_set_config_sta).
Joins(t) == op[t] \in {"connect", "join"}

Call(t, o) ==
    /\ up = "yes" /\ calls < MaxCalls
    /\ Goto(t, "idle", IF o \in {"connect", "scan"} THEN "get" ELSE "check")
    /\ op' = [op EXCEPT ![t] = o]
    /\ calls' = calls + 1
    /\ UNCHANGED <<flash, driver, app, task, up, got>>

CheckAp(t) ==
    /\ pc[t] = "check" /\ op[t] \in {"ap_start", "ap_stop"}
    /\ IF ("ap_started" \in bits) = (op[t] = "ap_stop")
       THEN Goto(t, "check", "get") /\ UNCHANGED op
       ELSE Return(t)
    /\ UNCHANGED <<flash, driver, app, task, up, got, calls>>

CheckSta(t) ==
    /\ pc[t] = "check" /\ op[t] \in {"disconnect", "update_sta"}
    /\ IF "sta_connecting" \in bits THEN Goto(t, "check", "clear") /\ UNCHANGED op
       ELSE IF "sta_connected" \in bits THEN Goto(t, "check", "auto_off") /\ UNCHANGED op
       ELSE Disconnected(t)
    /\ UNCHANGED <<flash, driver, app, task, up, got, calls>>

\* xEventGroupClearBits returns the bits as they were before.
ClearConnecting(t) ==
    /\ pc[t] = "clear"
    /\ bits' = bits \ {"sta_connecting"}
    /\ IF bits \intersect {"sta_connecting", "sta_connected"} # {}
       THEN Goto(t, "clear", "auto_off") /\ UNCHANGED op
       ELSE Disconnected(t)
    /\ UNCHANGED <<flash, driver, retry, task, up, got, calls>>

AutoOff(t) ==
    /\ Goto(t, "auto_off", "get")
    /\ auto' = FALSE
    /\ UNCHANGED <<mode, apNamed, driver, app, task, up, op, got, calls>>

Target(t) == IF op[t] \in {"ap_start", "ap_stop"} THEN "ap" ELSE "sta"

\* set_wifi_mode and unset_wifi_mode: the mode is read, then written.
GetMode(t) ==
    /\ Goto(t, "get", "mode")
    /\ got' = [got EXCEPT ![t] = mode]
    /\ UNCHANGED <<flash, driver, app, task, up, op, calls>>

Unsets(t) == op[t] \in {"disconnect", "update_sta", "ap_stop"}

\* After set_wifi_mode.  esp_wifi_scan_start keeps no state of the program.
ModeSet(t) ==
    IF op[t] = "scan" THEN Return(t)
    ELSE /\ pc' = [pc EXCEPT ![t] = IF Joins(t) THEN "auto_on" ELSE "config"]
         /\ UNCHANGED op

\* Both return when the mode cannot be read.
GetModeFails(t) ==
    /\ "get" \in Faults /\ pc[t] = "get"
    /\ IF Unsets(t) THEN Disconnected(t) ELSE ModeSet(t)
    /\ UNCHANGED <<flash, driver, app, task, up, got, calls>>

SetMode(t) ==
    /\ pc[t] = "mode" /\ ~Unsets(t)
    /\ IF got[t] = {}
       THEN Reconfigure({Target(t)}, started) /\ Goto(t, "mode", "start") /\ UNCHANGED op
       ELSE /\ IF Target(t) \in got[t]
               THEN UNCHANGED <<mode, driver>>
               ELSE Reconfigure(Ifaces, started)
            /\ ModeSet(t)
    /\ UNCHANGED <<auto, apNamed, app, task, up, got, calls>>

StartDriver(t) ==
    /\ pc[t] = "start" /\ ModeSet(t)
    /\ Reconfigure(mode, TRUE)
    /\ UNCHANGED <<auto, apNamed, app, task, up, got, calls>>

\* Only logged.
StartFails(t) ==
    /\ "start" \in Faults /\ pc[t] = "start" /\ ModeSet(t)
    /\ UNCHANGED <<flash, driver, app, task, up, got, calls>>

UnsetMode(t) ==
    /\ pc[t] = "mode" /\ Unsets(t)
    /\ IF got[t] = Ifaces
       THEN Reconfigure(Ifaces \ {Target(t)}, started) /\ Disconnected(t)
       ELSE IF got[t] = {Target(t)}
       THEN Reconfigure({}, started) /\ Goto(t, "mode", "stop") /\ UNCHANGED op
       ELSE UNCHANGED <<mode, driver>> /\ Disconnected(t)
    /\ UNCHANGED <<auto, apNamed, app, task, up, got, calls>>

StopDriver(t) ==
    /\ pc[t] = "stop" /\ Disconnected(t)
    /\ Reconfigure(mode, FALSE)
    /\ UNCHANGED <<auto, apNamed, app, task, up, got, calls>>

AutoOn(t) ==
    /\ Goto(t, "auto_on", "config")
    /\ auto' = TRUE
    /\ UNCHANGED <<mode, apNamed, driver, app, task, up, op, got, calls>>

\* esp_wifi_set_config fails for an interface that is off; ESP_ERROR_CHECK
\* then aborts for the station, while the AP only logs it.
SetConfig(t) ==
    /\ pc[t] = "config"
    /\ IF Joins(t) /\ "sta" \notin mode
       THEN Restart
       ELSE /\ Goto(t, "config", "wait")
            /\ apNamed' = (apNamed \/ (op[t] = "ap_start" /\ "ap" \in mode))
            /\ UNCHANGED <<mode, auto, driver, app, task, up, op, got, calls>>

\* app_wifi_ap_start returns APP_ERR_ERROR: the AP keeps its name.
NoApConfig(t) ==
    /\ "config" \in Faults /\ pc[t] = "config" /\ op[t] = "ap_start" /\ Return(t)
    /\ UNCHANGED <<flash, driver, app, task, up, got, calls>>

\* The command named no network: the saved one is used.
UseSaved(t) ==
    /\ Goto(t, "config", "wait") /\ op[t] # "join"
    /\ UNCHANGED <<flash, driver, app, task, up, op, got, calls>>

Awaited(t) == IF op[t] = "ap_start" THEN "ap_started" ELSE "sta_connecting"

\* xEventGroupWaitBits clears the bit it was waiting for (xClearOnExit = 1).
WaitDone(t) ==
    /\ Goto(t, "wait", "answer") /\ Awaited(t) \in bits
    /\ bits' = bits \ {Awaited(t)}
    /\ UNCHANGED <<flash, driver, retry, task, up, op, got, calls>>

\* Three seconds went by.
WaitTimeout(t) ==
    /\ pc[t] = "wait" /\ Awaited(t) \notin bits
    /\ IF Joins(t) THEN Goto(t, "wait", "force") /\ UNCHANGED op ELSE Return(t)
    /\ UNCHANGED <<flash, driver, app, task, up, got, calls>>

MarkConnecting(t) ==
    /\ Goto(t, "force", "call")
    /\ bits' = bits \union {"sta_connecting"}
    /\ UNCHANGED <<flash, driver, retry, task, up, op, got, calls>>

ConnectAnyway(t) ==
    /\ Goto(t, "call", "answer")
    /\ DriverConnect
    /\ UNCHANGED <<flash, app, task, up, op, got, calls>>

\* The action returns APP_OK.
Answer(t) ==
    /\ pc[t] = "answer" /\ Return(t)
    /\ UNCHANGED <<flash, driver, app, task, up, got, calls>>

Step(t) ==
    \/ CheckAp(t) \/ CheckSta(t) \/ ClearConnecting(t) \/ AutoOff(t)
    \/ GetMode(t) \/ GetModeFails(t) \/ SetMode(t) \/ StartDriver(t) \/ StartFails(t)
    \/ UnsetMode(t) \/ StopDriver(t) \/ AutoOn(t) \/ SetConfig(t) \/ NoApConfig(t) \/ UseSaved(t) \/ WaitDone(t) \/ WaitTimeout(t)
    \/ MarkConnecting(t) \/ ConnectAnyway(t) \/ Answer(t)

PowerLoss == up # "no" /\ Restart

Next ==
    \/ HandleEvent \/ Boot \/ LinkUp \/ LinkDown \/ PowerLoss
    \/ \E t \in Callers : Step(t) \/ \E o \in Ops : Call(t, o)

Spec == Init /\ [][Next]_vars

\* The event task goes on, its sleep ends, and app_main runs to its end.
FairSpec == Spec /\ WF_vars(HandleEvent) /\ WF_vars(Boot)

-----------------------------------------------------------------------------
\* All that the driver told has been handled.
Settled == up = "yes" /\ epc = "idle" /\ queue = <<>>

\* STATE_STA_CONNECTED, "Connected to AP": once its events are handled the
\* bit is set exactly when the station is connected, whatever actions and
\* mode changes overlap.
ConnectedFollows == Settled => ("sta_connected" \in bits <=> link = "connected")

\* STATE_AP_STARTED, "AP mode started": the bit is never left behind by an
\* AP that stopped, even when it stops while its start is being waited for.
StartedIsSound == Settled => ("ap_started" \in bits => ApUp)

\* A link that was lost, not by the user, is tried again, whatever the
\* actions did to STATE_STA_CONNECTING meanwhile, unless the station is
\* turned off or the chip restarts.
Lost == ev \in {"DISCONNECTED", "NO_AP_FOUND"} /\ epc = "handle"
Reconnects == Lost ~> (link # "idle" \/ ~StaUp)

\* "If not connected because WIFI_START not triggered, call connect": when
\* app_wifi_connect returns APP_OK and nobody else is calling an action, a
\* station that is on and meant to connect does so, or the event task is
\* about to make it; the bit that app_wifi_connect waits for is never that of
\* an attempt that is over.
Alone(t) == \A u \in Callers : u # t => pc[u] = "idle"
ConnectTried ==
    \A t \in Callers : pc[t] = "answer" /\ Joins(t) /\ Alone(t) /\ StaUp /\ auto =>
        link # "idle" \/ ~Settled
=============================================================================
