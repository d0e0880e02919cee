------------------------------- MODULE Config -------------------------------
(***************************************************************************)
(* The configuration of main/config.c: a structure in memory, loaded from  *)
(* the flash (NVS) at boot, changed by the handlers that connection        *)
(* threads run, saved as one blob, and broadcast; next to it the hash of   *)
(* the password, which is only in the flash.                               *)
(*                                                                         *)
(* A value is the number of the write that made it: 0 is the default of    *)
(* config_reset and the password "admin", Blank a structure that was never *)
(* loaded.  NVS is external: it writes an entry as a whole or not at all,  *)
(* erases a namespace entry by entry, serves one call at a time, and keeps *)
(* what it has through a loss of power.                                    *)
(***************************************************************************)
EXTENDS Integers

CONSTANTS
    Handlers,    \* the threads that run message handlers
    None,        \* no such entry in the flash
    MaxWrites,   \* changes made by clients (a bound of the model)
    MaxBoots,    \* restarts and losses of power (a bound of the model)
    Faults       \* the library calls that may fail in this instance

Fields == {"hostname", "switches", "values"}
Items  == Fields \union {"pwd"}
Blank  == -1

ASSUME Assumptions ==
    /\ MaxWrites \in Nat /\ MaxBoots \in Nat
    /\ None \notin Int /\ None \notin [Fields -> Int]
    /\ Faults \subseteq {"open", "read", "save", "erase"}

VARIABLES
    cfg, pwd,    \* the two entries of the flash
    ram,         \* struct app_config config
    boot,        \* how far app_main is
    registered,  \* the handlers of config_load are registered
    pc,          \* each handler thread: where it is
    item, mine,  \* ... the item it changes, the number of its write
    copy,        \* ... the message on_ws_client has built
    seen,        \* what clients were last told of the configuration
    acked,       \* the last write of each item that was answered true
    lost,        \* the last save of the configuration failed
    factory,     \* this boot is that of a reset, and nothing was changed since
    half,        \* an erase was cut short when it had taken the password
    writes, boots

flash == <<cfg, pwd>>
local == <<pc, item, mine, copy>>
ghost == <<acked, lost, factory, half>>
vars  == <<flash, ram, boot, registered, local, seen, ghost, writes, boots>>

Value == Nat \union {Blank}
Pc    == {"idle", "save", "reply", "copy", "cast", "erase", "wifi", "wait_reset", "wait"}

TypeOK ==
    /\ cfg \in [Fields -> Value] \union {None}
    /\ pwd \in Nat \union {None}
    /\ ram \in [Fields -> Value]
    /\ boot \in {"load", "default_pwd", "default_cfg", "setup", "up"}
    /\ registered \in BOOLEAN
    /\ pc \in [Handlers -> Pc]
    /\ item \in [Handlers -> Items]
    /\ mine \in [Handlers -> Nat]
    /\ copy \in [Handlers -> [Fields -> Value]]
    /\ seen \in [Fields -> Value]
    /\ acked \in [Items -> Nat]
    /\ lost \in BOOLEAN /\ factory \in BOOLEAN /\ half \in BOOLEAN
    /\ writes \in Nat /\ boots \in Nat

AllBlank == [f \in Fields |-> Blank]
Default  == [f \in Fields |-> 0]
NoAcks   == [x \in Items |-> 0]

Init ==
    /\ cfg = None /\ pwd = None
    /\ ram = AllBlank /\ boot = "load" /\ registered = FALSE
    /\ pc = [h \in Handlers |-> "idle"]
    /\ item = [h \in Handlers |-> "pwd"]
    /\ mine = [h \in Handlers |-> 0]
    /\ copy = [h \in Handlers |-> AllBlank]
    /\ seen = AllBlank
    /\ acked = NoAcks /\ lost = FALSE /\ factory = FALSE /\ half = FALSE
    /\ writes = 0 /\ boots = 0

Goto(h, from, to) == pc[h] = from /\ pc' = [pc EXCEPT ![h] = to]

\* nvs_erase_all holds the lock of NVS: who writes the flash waits for its end.
Erasing == \E h \in Handlers : pc[h] = "erase"

\* config_save: the blob is what the structure is now.
Saved   == cfg' = ram /\ lost' = FALSE
NotSaved == "save" \in Faults /\ lost' = TRUE /\ UNCHANGED cfg

-----------------------------------------------------------------------------
(* Boot: config_load and the update of actuator_setup.                      *)

\* Slip: the structure is not reset when there is no saved one.
Load_NoReset ==
    /\ boot = "load"
    /\ boot' = IF cfg = None THEN "default_pwd" ELSE "setup"
    /\ ram' = cfg
    /\ registered' = TRUE
    /\ UNCHANGED <<flash, local, seen, ghost, writes, boots>>

\* Slip: the default configuration is set without the default password.
Load_NoPassword ==
    /\ boot = "load"
    /\ IF cfg = None THEN ram' = Default /\ boot' = "default_cfg"
                     ELSE ram' = cfg /\ boot' = "setup"
    /\ registered' = TRUE
    /\ UNCHANGED <<flash, local, seen, ghost, writes, boots>>

\* An entry that cannot be read, or whose length is not the structure's, is
\* taken for none: the defaults replace it and the password.
Load ==
    /\ boot = "load"
    /\ \/ cfg # None /\ ram' = cfg /\ boot' = "setup"
       \/ (cfg = None \/ "read" \in Faults) /\ ram' = Default /\ boot' = "default_pwd"
    /\ registered' = TRUE
    /\ UNCHANGED <<flash, local, seen, ghost, writes, boots>>

\* nvs_open fails: config_load returns before it registers its handlers, and
\* app_main goes on.
LoadFails ==
    /\ "open" \in Faults
    /\ boot = "load" /\ boot' = "setup"
    /\ UNCHANGED <<flash, ram, registered, local, seen, ghost, writes, boots>>

DefaultPwd ==
    /\ boot = "default_pwd" /\ boot' = "default_cfg"
    /\ \/ pwd' = 0 /\ half' = FALSE
       \/ "save" \in Faults /\ UNCHANGED <<pwd, half>>
    /\ UNCHANGED <<cfg, ram, registered, local, seen, acked, lost, factory, writes, boots>>

DefaultCfg ==
    /\ boot = "default_cfg" /\ boot' = "setup"
    /\ Saved \/ NotSaved
    /\ UNCHANGED <<pwd, ram, registered, local, seen, acked, factory, half, writes, boots>>

\* actuator_update of the loaded value saves the configuration once more;
\* the clients that connect from then on are told it (WS_ON_OPEN).
Setup ==
    /\ boot = "setup" /\ boot' = "up"
    /\ Saved \/ NotSaved
    /\ seen' = ram
    /\ UNCHANGED <<pwd, ram, registered, local, acked, factory, half, writes, boots>>

-----------------------------------------------------------------------------
(* Handlers.  A message of the wrong size is answered false and changes     *)
(* nothing.                                                                 *)

\* on_ws_update_hostname, on_ws_update_switches (and _sensors), actuator_update.
UpdateField(h, f) ==
    /\ boot = "up" /\ Goto(h, "idle", "save")
    /\ registered \/ f = "values"
    /\ writes < MaxWrites
    /\ writes' = writes + 1
    /\ ram' = [ram EXCEPT ![f] = writes']
    /\ item' = [item EXCEPT ![h] = f]
    /\ mine' = [mine EXCEPT ![h] = writes']
    /\ factory' = FALSE
    /\ UNCHANGED <<flash, boot, registered, copy, seen, acked, lost, half, boots>>

\* Slip: nothing is written when the switch values are the saved ones.
SaveField_Skipped(h) ==
    /\ IF cfg # None /\ cfg["values"] = ram["values"] THEN UNCHANGED <<cfg, lost>> ELSE Saved
    /\ Goto(h, "save", IF item[h] = "values" THEN "cast" ELSE "reply")
    /\ UNCHANGED <<pwd, ram, boot, registered, item, mine, copy, seen, acked, factory, half, writes, boots>>

\* A failed save is answered false and not broadcast, though the memory has
\* changed; actuator_update looks at no result and answers nothing.
SaveField(h) ==
    /\ ~Erasing
    /\ \/ Saved /\ Goto(h, "save", IF item[h] = "values" THEN "cast" ELSE "reply")
       \/ NotSaved /\ Goto(h, "save", IF item[h] = "values" THEN "cast" ELSE "idle")
    /\ UNCHANGED <<pwd, ram, boot, registered, item, mine, copy, seen, acked, factory, half, writes, boots>>

\* on_ws_update_password: only the flash changes; a failed save changes nothing.
UpdatePassword(h) ==
    /\ boot = "up" /\ registered /\ ~Erasing /\ Goto(h, "idle", "reply")
    /\ writes < MaxWrites
    /\ writes' = writes + 1
    /\ pwd' = writes'
    /\ item' = [item EXCEPT ![h] = "pwd"]
    /\ mine' = [mine EXCEPT ![h] = writes']
    /\ factory' = FALSE /\ half' = FALSE
    /\ UNCHANGED <<cfg, ram, boot, registered, copy, seen, acked, lost, boots>>

AnswerTrue(h) ==
    LET x == item[h] IN
    /\ Goto(h, "reply", IF x = "pwd" THEN "idle" ELSE "copy")
    /\ acked' = IF acked[x] < mine[h] THEN [acked EXCEPT ![x] = mine[h]] ELSE acked
    /\ UNCHANGED <<flash, ram, boot, registered, item, mine, copy, seen, lost, factory, half, writes, boots>>

\* on_ws_client(NULL): the structure is copied into the message ...
CopyConfig(h) ==
    /\ Goto(h, "copy", "cast")
    /\ copy' = [copy EXCEPT ![h] = ram]
    /\ UNCHANGED <<flash, ram, boot, registered, item, mine, seen, ghost, writes, boots>>

\* ... and the message is sent to every client under the mutex.
Broadcast(h) ==
    /\ Goto(h, "cast", "idle")
    /\ seen' = IF item[h] = "values" THEN [seen EXCEPT !["values"] = mine[h]] ELSE copy[h]
    /\ copy' = [copy EXCEPT ![h] = AllBlank]
    /\ UNCHANGED <<flash, ram, boot, registered, item, mine, ghost, writes, boots>>

-----------------------------------------------------------------------------
(* cmd_reset and on_ws_restart: both close the clients and wait 500 ms, in  *)
(* which other threads go on, before the chip restarts.                     *)

Clear(h) ==
    /\ boot = "up" /\ registered /\ ~Erasing /\ boots < MaxBoots
    /\ Goto(h, "idle", "erase")
    /\ acked' = NoAcks /\ factory' = FALSE
    /\ UNCHANGED <<flash, ram, boot, registered, item, mine, copy, seen, lost, half, writes, boots>>

\* nvs_erase_all takes the entries in the order they lie on the pages.
EraseEntry(h) ==
    /\ pc[h] = "erase"
    /\ \/ cfg # None /\ cfg' = None /\ UNCHANGED pwd
       \/ pwd # None /\ pwd' = None /\ UNCHANGED cfg
    /\ UNCHANGED <<ram, boot, registered, local, seen, ghost, writes, boots>>

\* Slip: the reset erases the password only.
Erased_OnlyPassword(h) ==
    /\ Goto(h, "erase", "wifi")
    /\ pwd = None
    /\ half' = FALSE
    /\ UNCHANGED <<flash, ram, boot, registered, item, mine, copy, seen, acked, lost, factory, writes, boots>>

Erased(h) ==
    /\ Goto(h, "erase", "wifi")
    /\ cfg = None /\ pwd = None
    /\ half' = FALSE
    /\ UNCHANGED <<flash, ram, boot, registered, item, mine, copy, seen, acked, lost, factory, writes, boots>>

\* The erase fails after some entries: this too is only logged.
EraseFails(h) ==
    /\ "erase" \in Faults
    /\ Goto(h, "erase", "wait")
    /\ half' = (half \/ pwd = None)
    /\ UNCHANGED <<flash, ram, boot, registered, item, mine, copy, seen, acked, lost, factory, writes, boots>>

\* An nvs_open or erase that fails at once is only logged: the device restarts
\* as it was.
ClearFails(h) ==
    /\ "erase" \in Faults
    /\ boot = "up" /\ registered /\ boots < MaxBoots
    /\ Goto(h, "idle", "wait")
    /\ UNCHANGED <<flash, ram, boot, registered, item, mine, copy, seen, ghost, writes, boots>>

\* reset_wifi_config erases another part of the flash; its result is not used.
ResetWifi(h) ==
    /\ Goto(h, "wifi", "wait_reset")
    /\ UNCHANGED <<flash, ram, boot, registered, item, mine, copy, seen, ghost, writes, boots>>

AskRestart(h) ==
    /\ boot = "up" /\ registered /\ boots < MaxBoots
    /\ Goto(h, "idle", "wait")
    /\ UNCHANGED <<flash, ram, boot, registered, item, mine, copy, seen, ghost, writes, boots>>

Reboot ==
    /\ boot' = "load" /\ registered' = FALSE
    /\ ram' = AllBlank
    /\ pc' = [h \in Handlers |-> "idle"]
    /\ item' = [h \in Handlers |-> "pwd"]
    /\ mine' = [h \in Handlers |-> 0]
    /\ copy' = [h \in Handlers |-> AllBlank]
    /\ seen' = AllBlank
    /\ half' = (half \/ (Erasing /\ pwd = None))
    /\ boots' = boots + 1
    /\ UNCHANGED <<flash, acked, writes>>

Restart(h) ==
    /\ pc[h] \in {"wait", "wait_reset"}
    /\ Reboot
    /\ factory' = (pc[h] = "wait_reset")
    /\ lost' = FALSE

PowerLoss ==
    /\ boots < MaxBoots
    /\ Reboot
    /\ factory' = FALSE /\ lost' = FALSE

-----------------------------------------------------------------------------
Starting == Load \/ LoadFails \/ DefaultPwd \/ DefaultCfg \/ Setup

Change(h) == UpdatePassword(h) \/ \E f \in Fields : UpdateField(h, f)

Finish(h) == SaveField(h) \/ AnswerTrue(h) \/ CopyConfig(h) \/ Broadcast(h)

Closing(h) == EraseEntry(h) \/ Erased(h) \/ EraseFails(h) \/ ResetWifi(h) \/ Restart(h)

Leave(h) == Clear(h) \/ ClearFails(h) \/ AskRestart(h)

Next ==
    \/ Starting \/ PowerLoss
    \/ \E h \in Handlers : Change(h) \/ Finish(h) \/ Leave(h) \/ Closing(h)

Spec == Init /\ [][Next]_vars

\* Nobody changes anything while a reset or a restart is under way.
Idle    == \A h \in Handlers : pc[h] = "idle"
Staying == \A h \in Handlers : pc[h] \notin {"erase", "wifi", "wait_reset", "wait"}
QuietNext ==
    \/ Starting \/ PowerLoss
    \/ \E h \in Handlers :
           (Change(h) /\ Staying) \/ Finish(h) \/ (Leave(h) /\ Idle) \/ Closing(h)
QuietSpec == Init /\ [][QuietNext]_vars

-----------------------------------------------------------------------------
\* A change that was answered true is in the flash from then on, whatever
\* else is being changed and however often the power fails: the saved value
\* is that write or a later one (nvs_save before the answer).
AckedDurable ==
    /\ \A f \in Fields : acked[f] > 0 => cfg # None /\ cfg[f] >= acked[f]
    /\ acked["pwd"] > 0 => pwd # None /\ pwd >= acked["pwd"]

\* A device that has a configuration has a password to log in with (the
\* default password is saved before the default configuration): a loss of power
\* at any step of config_load or of a reset leaves no entry "cfg" without "pwd",
\* but for one that cuts nvs_erase_all short when it has taken the password.
LoginPossible == cfg # None /\ ~half /\ ~Erasing => pwd # None

\* "Reset Configuration including password and switches": the boot that
\* follows a reset starts from the defaults.
ResetClears == boot = "up" /\ factory => ram = Default /\ pwd = 0

\* When no handler is running, the flash holds what the memory holds, unless
\* the last save failed: no update is overwritten by the save of another,
\* whatever the order of their steps.
FlashFollows == boot = "up" /\ Idle /\ ~lost => cfg = ram

\* "Broadcast update config": when no handler is running, the clients were
\* last told the configuration in force. Two broadcasts may overtake each other,
\* so it holds of one handler at a time only; what clients end up showing when
\* several send is ViewTrue of Switches.
ClientsFollow == boot = "up" /\ Idle => seen = ram

=============================================================================
