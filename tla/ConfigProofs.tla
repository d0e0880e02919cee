---------------------------- MODULE ConfigProofs ----------------------------
(***************************************************************************)
(* Proofs about the configuration, for any number of handler threads,      *)
(* changes, restarts and losses of power.                                  *)
(***************************************************************************)
EXTENDS Config, TLAPS

-----------------------------------------------------------------------------
(* The flash follows the memory: whatever may fail, and whoever resets.     *)

\* The steps of a reset or of a restart.
Leaving == {"erase", "wifi", "wait_reset", "wait"}

\* A difference between memory and flash has someone who will remove it.
Dirty ==
    boot = "up" /\ ~lost /\ cfg # ram =>
        \E h \in Handlers : pc[h] \in {"save"} \union Leaving

FInv == TypeOK /\ Dirty

-----------------------------------------------------------------------------
(* What the device keeps when resets are left alone, no save fails and the  *)
(* flash opens and can be read.  An erase may fail or be cut short.         *)

\* The entries are erased.
Resetting == {"wifi", "wait_reset"}

\* A reset or restart has the device for itself, and an erase keeps no promise.
Exclusive ==
    /\ boot # "up" => Idle
    /\ \A g, h \in Handlers : pc[h] \in Leaving /\ g # h => pc[g] = "idle"
    /\ \A h \in Handlers : pc[h] = "erase" => ~factory /\ \A x \in Items : acked[x] = 0

\* The password is written before the configuration; a reset erases both.
Entries ==
    /\ boot \in {"default_pwd", "default_cfg"} => cfg = None
    /\ boot = "default_cfg" => pwd # None
    /\ boot = "setup" => cfg # None
    /\ boot = "up" /\ cfg = None => \E h \in Handlers : pc[h] \in Leaving
    /\ \A h \in Handlers : pc[h] \in Resetting => cfg = None

\* Memory is never older than the flash, nor the flash than what was answered.
Ordered ==
    /\ boot \in {"setup", "up"} /\ cfg # None => \A f \in Fields : cfg[f] <= ram[f]
    /\ \A f \in Fields : ram[f] <= writes
    /\ cfg # None => \A f \in Fields : cfg[f] <= writes
    /\ pwd # None => pwd <= writes
    /\ \A x \in Items : acked[x] > 0 => cfg # None
    /\ acked["pwd"] > 0 => pwd # None /\ acked["pwd"] <= pwd
    /\ cfg # None => \A f \in Fields : acked[f] = 0 \/ acked[f] <= cfg[f]

\* What a handler wrote is in memory until its save, then in the flash.
Written ==
    \A h \in Handlers :
        /\ pc[h] = "save" => item[h] \in Fields /\ mine[h] <= ram[item[h]]
        /\ pc[h] = "reply" => IF item[h] = "pwd" THEN pwd # None /\ mine[h] <= pwd ELSE mine[h] <= cfg[item[h]]

\* From the restart of a reset on, the device has the defaults.
Factory ==
    factory =>
        /\ boot = "load" => cfg = None
        /\ boot # "load" => ram = Default
        /\ boot \in {"default_cfg", "setup", "up"} => pwd = 0

QInv == TypeOK /\ Exclusive /\ Entries /\ Ordered /\ Written /\ Factory /\ LoginPossible

LEMMA RebootTyped ==
    ASSUME TypeOK, Reboot, lost' \in BOOLEAN, factory' \in BOOLEAN
    PROVE  TypeOK'
<1>1. AllBlank \in [Fields -> Value] /\ "pwd" \in Items
  BY DEF AllBlank, Value, Items
<1>2. copy' \in [Handlers -> [Fields -> Value]]
  BY <1>1 DEF Reboot
<1>3. item' \in [Handlers -> Items] /\ mine' \in [Handlers -> Nat] /\ pc' \in [Handlers -> Pc]
  BY <1>1 DEF Reboot, Pc
<1>4. ram' \in [Fields -> Value] /\ seen' \in [Fields -> Value]
  BY <1>1 DEF Reboot
<1>5. /\ cfg' = cfg /\ pwd' = pwd /\ acked' = acked /\ writes' = writes
      /\ boots' \in Nat /\ boot' = "load" /\ registered' = FALSE
  BY DEF Reboot, TypeOK, flash
<1>6. cfg' \in [Fields -> Value] \union {None} /\ pwd' \in Nat \union {None} /\ acked' \in [Items -> Nat] /\ writes' \in Nat
  BY ONLY TypeOK, <1>5 DEF TypeOK
<1>7. half' \in BOOLEAN
  BY DEF Reboot, TypeOK
<1>8. QED
  BY ONLY lost' \in BOOLEAN, factory' \in BOOLEAN, <1>7, <1>2, <1>3, <1>4, <1>5, <1>6 DEF TypeOK

\* Each step leaves every variable in its type.
LEMMA StepTyped ==
    ASSUME TypeOK, Next
    PROVE  TypeOK'
<1>0. Default \in [Fields -> Value] /\ AllBlank \in [Fields -> Value] /\ NoAcks \in [Items -> Nat]
  BY DEF Default, AllBlank, NoAcks, Value
<1>1. CASE Load
  BY <1>0, <1>1 DEF Load, TypeOK, flash, local, ghost, Goto, Pc, Value
<1>2. CASE LoadFails
  BY <1>0, <1>2 DEF LoadFails, TypeOK, flash, local, ghost, Goto, Pc, Value
<1>3. CASE DefaultPwd
  <2>1. pwd' \in Nat \union {None}
    BY <1>3 DEF DefaultPwd, TypeOK
  <2>2. half' \in BOOLEAN
    BY <1>3, Zenon DEF DefaultPwd, TypeOK
  <2>3. QED
    BY <1>3, <2>1, <2>2 DEF DefaultPwd, TypeOK, local
<1>4. CASE DefaultCfg
  BY <1>0, <1>4 DEF DefaultCfg, Saved, NotSaved, TypeOK, flash, local, ghost, Goto, Pc, Value
<1>5. CASE Setup
  BY <1>0, <1>5 DEF Setup, Saved, NotSaved, TypeOK, flash, local, ghost, Goto, Pc, Value
<1>6. CASE PowerLoss
  BY <1>6, RebootTyped DEF PowerLoss
<1>7. ASSUME NEW h \in Handlers, NEW f \in Fields, UpdateField(h, f) PROVE TypeOK'
  <2>1. writes' \in Nat /\ writes' \in Value
    BY <1>7 DEF UpdateField, TypeOK, Value
  <2>2. ram' \in [Fields -> Value] /\ item' \in [Handlers -> Items] /\ mine' \in [Handlers -> Nat]
    BY <1>7, <2>1 DEF UpdateField, TypeOK, Items
  <2>3. QED
    BY <1>7, <2>1, <2>2 DEF UpdateField, TypeOK, flash, local, ghost, Goto, Pc
<1>8. ASSUME NEW h \in Handlers, UpdatePassword(h) PROVE TypeOK'
  <2>1. writes' \in Nat /\ pwd' = writes' /\ "pwd" \in Items
    BY <1>8 DEF UpdatePassword, TypeOK, Items
  <2>2. item' \in [Handlers -> Items] /\ mine' \in [Handlers -> Nat] /\ pc' \in [Handlers -> Pc]
    BY <1>8, <2>1 DEF UpdatePassword, TypeOK, Goto, Pc
  <2>3. QED
    BY <1>8, <2>1, <2>2 DEF UpdatePassword, TypeOK
<1>9. ASSUME NEW h \in Handlers, SaveField(h) PROVE TypeOK'
  BY <1>0, <1>9 DEF SaveField, Saved, NotSaved, TypeOK, flash, local, ghost, Goto, Pc
<1>10. ASSUME NEW h \in Handlers, AnswerTrue(h) PROVE TypeOK'
  BY <1>0, <1>10 DEF AnswerTrue, TypeOK, flash, local, ghost, Goto, Pc
<1>11. ASSUME NEW h \in Handlers, CopyConfig(h) PROVE TypeOK'
  BY <1>0, <1>11 DEF CopyConfig, TypeOK, flash, local, ghost, Goto, Pc
<1>12. ASSUME NEW h \in Handlers, Broadcast(h) PROVE TypeOK'
  BY <1>0, <1>12 DEF Broadcast, Fields, Value, AllBlank, TypeOK, flash, local, ghost, Goto, Pc
<1>13. ASSUME NEW h \in Handlers, Clear(h) PROVE TypeOK'
  BY <1>0, <1>13 DEF Clear, TypeOK, flash, local, ghost, Goto, Pc
<1>14. ASSUME NEW h \in Handlers, ClearFails(h) PROVE TypeOK'
  BY <1>0, <1>14 DEF ClearFails, TypeOK, flash, local, ghost, Goto, Pc
<1>15. ASSUME NEW h \in Handlers, ResetWifi(h) PROVE TypeOK'
  BY <1>0, <1>15 DEF ResetWifi, TypeOK, flash, local, ghost, Goto, Pc
<1>16. ASSUME NEW h \in Handlers, AskRestart(h) PROVE TypeOK'
  BY <1>0, <1>16 DEF AskRestart, TypeOK, flash, local, ghost, Goto, Pc
<1>17. ASSUME NEW h \in Handlers, Restart(h) PROVE TypeOK'
  BY <1>17, RebootTyped DEF Restart
<1>18. ASSUME NEW h \in Handlers, EraseEntry(h) PROVE TypeOK'
  BY <1>18 DEF EraseEntry, TypeOK, local, ghost
<1>19. ASSUME NEW h \in Handlers, Erased(h) PROVE TypeOK'
  BY <1>19 DEF Erased, TypeOK, flash, Goto, Pc
<1>20. ASSUME NEW h \in Handlers, EraseFails(h) PROVE TypeOK'
  BY <1>20 DEF EraseFails, TypeOK, flash, Goto, Pc
<1>21. QED
  BY <1>1, <1>2, <1>3, <1>4, <1>5, <1>6, <1>7, <1>8, <1>9, <1>10, <1>11, <1>12, <1>13, <1>14, <1>15, <1>16, <1>17, <1>18, <1>19, <1>20 DEF Next, Starting, Change, Finish, Leave, Closing

LEMMA Initially == Init => FInv /\ QInv
<1> SUFFICES ASSUME Init PROVE FInv /\ QInv
  OBVIOUS
<1>1. AllBlank \in [Fields -> Value] /\ NoAcks \in [Items -> Nat] /\ None \in {None}
  BY DEF AllBlank, NoAcks, Value
<1>2. TypeOK
  BY <1>1 DEF Init, TypeOK, Pc, Items
<1>3. \A f \in Fields : ram[f] <= writes
  BY DEF Init, AllBlank, Blank
<1>4. \A x \in Items : acked[x] = 0
  BY DEF Init, NoAcks
<1>5. QED
  BY <1>2, <1>3, <1>4 DEF Init, FInv, QInv, Dirty, Exclusive, Entries, Ordered, Written, Factory,
     LoginPossible, Idle, Resetting, Leaving, Items

-----------------------------------------------------------------------------
LEMMA WitnessKept ==
    ASSUME FInv, NEW h \in Handlers, NEW to, pc' = [pc EXCEPT ![h] = to],
           pc[h] \notin {"save"} \union Leaving, UNCHANGED <<boot, lost, cfg, ram>>
    PROVE  Dirty'
<1> SUFFICES ASSUME boot = "up", ~lost, cfg # ram
             PROVE  \E g \in Handlers : pc'[g] \in {"save"} \union Leaving
  BY DEF Dirty
<1>1. PICK g \in Handlers : pc[g] \in {"save"} \union Leaving
  BY DEF FInv, Dirty
<1>2. pc'[g] = pc[g]
  BY <1>1 DEF FInv, TypeOK
<1>3. QED
  BY <1>1, <1>2

LEMMA DirtyInductive ==
    ASSUME FInv, Next
    PROVE  Dirty'
<1>0. pc \in [Handlers -> Pc]
  BY DEF FInv, TypeOK
<1>1. CASE Starting
  BY <1>1 DEF Starting, Load, LoadFails, DefaultPwd, DefaultCfg, Setup, Saved, NotSaved, Dirty
<1>2. CASE PowerLoss
  BY <1>2 DEF PowerLoss, Reboot, Dirty
<1>3. ASSUME NEW h \in Handlers, Change(h) PROVE Dirty'
  <2>1. CASE UpdatePassword(h)
    BY <2>1, WitnessKept DEF UpdatePassword, Goto, Leaving
  <2>2. ASSUME NEW f \in Fields, UpdateField(h, f) PROVE Dirty'
    <3>1. pc'[h] = "save"
      BY <1>0, <2>2 DEF UpdateField, Goto
    <3>2. QED
      BY <3>1 DEF Dirty
  <2>3. QED
    BY <1>3, <2>1, <2>2 DEF Change
<1>4. ASSUME NEW h \in Handlers, Finish(h) PROVE Dirty'
  <2>1. CASE SaveField(h)
    BY <2>1 DEF SaveField, Saved, NotSaved, Dirty
  <2>2. CASE AnswerTrue(h)
    BY <2>2, WitnessKept DEF AnswerTrue, Leaving, Goto, flash
  <2>3. CASE CopyConfig(h)
    BY <2>3, WitnessKept DEF CopyConfig, Leaving, Goto, flash, ghost
  <2>4. CASE Broadcast(h)
    BY <2>4, WitnessKept DEF Broadcast, Leaving, Goto, flash, ghost
  <2>5. QED
    BY <1>4, <2>1, <2>2, <2>3, <2>4 DEF Finish
<1>5. ASSUME NEW h \in Handlers, NEW to \in Leaving, pc' = [pc EXCEPT ![h] = to]
      PROVE  Dirty'
  <2>1. pc'[h] = to
    BY <1>0, <1>5
  <2>2. QED
    BY <1>5, <2>1 DEF Dirty
<1>6. ASSUME NEW h \in Handlers, Leave(h) PROVE Dirty'
  <2>1. \E to \in Leaving : pc' = [pc EXCEPT ![h] = to]
    BY <1>6 DEF Leave, Clear, ClearFails, AskRestart, Goto, Leaving
  <2>2. QED
    BY <1>5, <2>1
<1>7. ASSUME NEW h \in Handlers, Closing(h) PROVE Dirty'
  <2>1. CASE EraseEntry(h)
    BY <2>1 DEF EraseEntry, local, Leaving, Dirty
  <2>2. CASE Erased(h) \/ EraseFails(h) \/ ResetWifi(h)
    <3>1. \E to \in Leaving : pc' = [pc EXCEPT ![h] = to]
      BY <2>2 DEF Erased, EraseFails, ResetWifi, Goto, Leaving
    <3>2. QED
      BY <1>5, <3>1
  <2>3. CASE Restart(h)
    BY <2>3 DEF Restart, Reboot, Dirty
  <2>4. QED
    BY <1>7, <2>1, <2>2, <2>3 DEF Closing
<1>8. QED
  BY <1>1, <1>2, <1>3, <1>4, <1>6, <1>7 DEF Next

LEMMA FlashInductive == FInv /\ [Next]_vars => FInv'
<1> SUFFICES ASSUME FInv, [Next]_vars PROVE FInv'
  OBVIOUS
<1>1. CASE UNCHANGED vars
  BY <1>1 DEF vars, flash, local, ghost, FInv, TypeOK, Dirty
<1>2. CASE Next
  BY <1>2, StepTyped, DirtyInductive DEF FInv
<1>3. QED
  BY <1>1, <1>2

\* Every variable keeps its type, whatever fails and whoever resets.
THEOREM TypeCorrect == Spec => []TypeOK
<1>1. FInv => TypeOK
  BY DEF FInv
<1>2. QED
  BY <1>1, Initially, FlashInductive, PTL DEF Spec

\* No update is overwritten by the save of another thread: with no handler
\* running and the last save done, the flash holds what the memory holds, for
\* any number of threads and any failures (config_save after each change).
THEOREM FlashFollowsMemory == Spec => []FlashFollows
<1>1. FInv => FlashFollows
  BY DEF FInv, Dirty, FlashFollows, Idle, Leaving
<1>2. QED
  BY <1>1, Initially, FlashInductive, PTL DEF Spec

-----------------------------------------------------------------------------
(* Resets left alone, no failed save: the second invariant.                 *)

Busy  == {"save", "reply", "copy", "cast"}

\* A quiet step is a step of the system.
LEMMA QuietIsNext == QuietNext => Next
  BY DEF QuietNext, Next

\* While a thread works for a client, nobody resets and there is a configuration.
LEMMA Working ==
    ASSUME QInv, boot = "up", NEW h \in Handlers, Staying \/ pc[h] \in Busy
    PROVE  Staying /\ cfg # None
<1>1. Staying
  BY DEF QInv, Exclusive, Staying, Busy, Leaving
<1>2. QED
  BY <1>1 DEF QInv, Entries, Staying, Leaving

LEMMA BusyIsUp ==
    ASSUME QInv, NEW h \in Handlers, pc[h] # "idle"
    PROVE  boot = "up"
  BY DEF QInv, Exclusive, Idle

\* A step of such a thread, to another point of its handler.
LEMMA StillStaying ==
    ASSUME QInv, boot = "up", NEW h \in Handlers, Staying,
           NEW to \in Busy \union {"idle"}, pc' = [pc EXCEPT ![h] = to], boot' = boot
    PROVE  Staying' /\ Exclusive' /\ \A g \in Handlers : g # h => pc'[g] = pc[g]
<1>1. pc \in [Handlers -> Pc]
  BY DEF QInv, TypeOK
<1>2. \A g \in Handlers : g # h => pc'[g] = pc[g]
  BY <1>1
<1>3. pc'[h] = to
  BY <1>1
<1>4. Staying'
  BY <1>2, <1>3 DEF Staying, Busy
<1>5. QED
  BY <1>2, <1>4 DEF Staying, Exclusive, Leaving

LEMMA Numbers ==
    ASSUME TypeOK
    PROVE  /\ writes \in Nat /\ "pwd" \in Items /\ Fields \subseteq Items
           /\ \A f \in Fields : ram[f] \in Int
           /\ \A x \in Items : acked[x] \in Nat
           /\ cfg # None => \A f \in Fields : cfg[f] \in Int
           /\ pwd # None => pwd \in Nat
  BY DEF TypeOK, Value, Blank, Items

\* The steps of boot.
LEMMA StartingInductive ==
    ASSUME QInv, TypeOK', Starting, {"open", "read", "save"} \intersect Faults = {}
    PROVE  Exclusive' /\ Entries' /\ Ordered' /\ Written' /\ Factory'
<1>0. \A f \in Fields : Default[f] = 0
  BY DEF Default
<1>1. CASE Load
  <2>1. Idle /\ boot = "load" /\ boot' \in {"default_pwd", "setup"}
    BY <1>1 DEF Load, QInv, Exclusive
  <2>2. Exclusive'
    BY <1>1, <2>1 DEF Load, Exclusive, Idle, local
  <2>3. Entries'
    BY <1>1, <2>1 DEF Load, QInv, Entries, Idle, Resetting, flash, local
  <2>4. Ordered'
    <3>1. cfg' = cfg /\ pwd' = pwd /\ acked' = acked /\ writes' = writes
      BY <1>1 DEF Load, flash, ghost
    <3>2. ram' = IF cfg = None THEN Default ELSE cfg
      BY <1>1, Assumptions DEF Load
    <3>3. CASE cfg = None
      BY <1>0, <3>1, <3>2, <3>3, Numbers DEF QInv, Ordered
    <3>4. CASE cfg # None
      BY <3>1, <3>2, <3>4, Numbers DEF QInv, Ordered
    <3>5. QED
      BY <3>3, <3>4
  <2>5. Written'
    BY <1>1, <2>1 DEF Load, Written, Idle, local
  <2>6. Factory'
    BY <1>1, <2>1 DEF Load, QInv, Factory, flash, ghost
  <2>7. QED
    BY <2>2, <2>3, <2>4, <2>5, <2>6
<1>2. CASE DefaultPwd
  <2>1. Idle /\ boot = "default_pwd" /\ boot' = "default_cfg" /\ pwd' = 0 /\ cfg = None
    BY <1>2 DEF DefaultPwd, QInv, Exclusive, Entries
  <2>2. Exclusive'
    BY <1>2, <2>1 DEF DefaultPwd, Exclusive, Idle, local
  <2>3. Entries'
    BY <1>2, <2>1, Assumptions DEF DefaultPwd, Entries, Idle, Resetting, local
  <2>4. Ordered'
    BY <1>2, <2>1 DEF DefaultPwd, QInv, Ordered, TypeOK, Items
  <2>5. Written'
    BY <1>2, <2>1 DEF DefaultPwd, Written, Idle, local
  <2>6. Factory'
    BY <1>2, <2>1 DEF DefaultPwd, QInv, Factory
  <2>7. QED
    BY <2>2, <2>3, <2>4, <2>5, <2>6
<1>3. CASE DefaultCfg
  <2>1. /\ Idle /\ boot = "default_cfg" /\ boot' = "setup" /\ cfg = None /\ pwd # None
        /\ cfg' = ram /\ ram' = ram /\ pwd' = pwd
    BY <1>3 DEF DefaultCfg, QInv, Exclusive, Entries, Saved, NotSaved
  <2>2. Exclusive'
    BY <1>3, <2>1 DEF DefaultCfg, Exclusive, Idle, local
  <2>3. Entries'
    <3>1. cfg' # None
      BY <2>1, Assumptions DEF QInv, TypeOK, Value, Blank
    <3>2. QED
      BY <1>3, <2>1, <3>1 DEF DefaultCfg, Entries, Idle, Resetting, local
  <2>4. Ordered'
    <3>1. \A x \in Items : acked[x] = 0 /\ acked' = acked /\ writes' = writes
      BY <1>3, <2>1 DEF DefaultCfg, QInv, Ordered, TypeOK
    <3>2. \A f \in Fields : f \in Items /\ cfg'[f] <= ram'[f]
      <4>1. Fields \subseteq Items
        BY DEF Items
      <4>2. ram \in [Fields -> Value]
        BY DEF QInv, TypeOK
      <4>3. \A f \in Fields : cfg'[f] = ram'[f] /\ ram'[f] \in Int
        BY ONLY <2>1, <4>2 DEF Value, Blank
      <4>4. QED
        BY ONLY <4>1, <4>3
    <3>3. pwd' \in Nat /\ "pwd" \in Items
      BY <2>1 DEF QInv, TypeOK, Items
    <3>4. QED
      BY <2>1, <3>1, <3>2, <3>3 DEF QInv, Ordered
  <2>5. Written'
    BY <1>3, <2>1 DEF DefaultCfg, Written, Idle, local
  <2>6. Factory'
    BY <1>3, <2>1 DEF DefaultCfg, QInv, Factory
  <2>7. QED
    BY <2>2, <2>3, <2>4, <2>5, <2>6
<1>4. CASE Setup
  <2>1. /\ Idle /\ boot = "setup" /\ boot' = "up" /\ cfg # None
        /\ cfg' = ram /\ ram' = ram /\ pwd' = pwd
    BY <1>4 DEF Setup, QInv, Exclusive, Entries, Saved, NotSaved
  <2>2. Exclusive'
    BY <1>4, <2>1 DEF Setup, Exclusive, Idle, local
  <2>3. Entries'
    <3>1. cfg' # None
      BY <2>1, Assumptions DEF QInv, TypeOK, Value, Blank
    <3>2. QED
      BY <1>4, <2>1, <3>1 DEF Setup, Entries, Idle, Resetting, local
  <2>4. Ordered'
    <3>1. acked' = acked /\ writes' = writes
      BY <1>4 DEF Setup
    <3>2. \A f \in Fields : cfg'[f] <= ram'[f] /\ cfg[f] <= ram[f] /\ f \in Items
      BY <2>1, Numbers DEF QInv, Ordered
    <3>3. \A f \in Fields : acked[f] = 0 \/ acked[f] <= cfg'[f]
      <4>1. ASSUME NEW f \in Fields PROVE acked[f] = 0 \/ acked[f] <= cfg'[f]
        <5>1. acked[f] \in Nat /\ cfg[f] \in Int /\ ram[f] \in Int /\ cfg'[f] = ram[f]
          BY <2>1, <3>2, Numbers DEF QInv
        <5>2. acked[f] = 0 \/ acked[f] <= cfg[f]
          BY <2>1 DEF QInv, Ordered
        <5>3. QED
          BY <3>2, <5>1, <5>2
      <4>2. QED
        BY <4>1
    <3>4. \A f \in Fields : ram'[f] <= writes' /\ cfg'[f] <= writes'
      BY <2>1, <3>1 DEF QInv, Ordered
    <3>5. /\ pwd' # None => pwd' <= writes'
          /\ acked'["pwd"] > 0 => pwd' # None /\ acked'["pwd"] <= pwd'
      BY <2>1, <3>1 DEF QInv, Ordered
    <3>6. cfg' # None
      BY <2>1, Assumptions DEF QInv, TypeOK, Value, Blank
    <3>7. QED
      BY <3>1, <3>2, <3>3, <3>4, <3>5, <3>6 DEF Ordered
  <2>5. Written'
    BY <1>4, <2>1 DEF Setup, Written, Idle, local
  <2>6. Factory'
    BY <1>4, <2>1 DEF Setup, QInv, Factory
  <2>7. QED
    BY <2>2, <2>3, <2>4, <2>5, <2>6
<1>5. QED
  BY <1>1, <1>2, <1>3, <1>4 DEF Starting, LoadFails

\* A restart or a loss of power keeps the flash and what was answered.
LEMMA RebootInductive ==
    ASSUME QInv, TypeOK', PowerLoss \/ \E h \in Handlers : Restart(h)
    PROVE  Exclusive' /\ Entries' /\ Ordered' /\ Written' /\ Factory'
<1>1. /\ Reboot /\ boot' = "load" /\ cfg' = cfg /\ pwd' = pwd /\ acked' = acked
      /\ writes' = writes /\ ram' = AllBlank /\ \A g \in Handlers : pc'[g] = "idle"
  BY DEF PowerLoss, Restart, Reboot, flash
<1>2. factory' => cfg = None
  BY DEF PowerLoss, Restart, QInv, Entries, Resetting
<1>3. \A f \in Fields : ram'[f] <= writes
  BY <1>1 DEF AllBlank, Blank, QInv, TypeOK
<1>4. Exclusive' /\ Written'
  BY <1>1 DEF Exclusive, Idle, Written
<1>5. Entries'
  BY <1>1 DEF QInv, Entries, Resetting
<1>6. Ordered'
  BY <1>1, <1>3 DEF QInv, Ordered
<1>7. Factory'
  BY <1>1, <1>2 DEF Factory
<1>8. QED
  BY <1>4, <1>5, <1>6, <1>7

\* What thread h has written, as in Written.
WrittenBy(h) ==
    /\ pc[h] = "save" => item[h] \in Fields /\ mine[h] <= ram[item[h]]
    /\ pc[h] = "reply" => IF item[h] = "pwd" THEN pwd # None /\ mine[h] <= pwd ELSE mine[h] <= cfg[item[h]]

\* A step that makes nothing older leaves the writes of the other threads there.
LEMMA OthersWritten ==
    ASSUME QInv, TypeOK', NEW h \in Handlers, WrittenBy(h)',
           cfg # None, cfg' # None, pwd # None => pwd' # None /\ pwd <= pwd',
           \A g \in Handlers : g # h => pc'[g] = pc[g] /\ item'[g] = item[g] /\ mine'[g] = mine[g],
           \A f \in Fields : ram[f] <= ram'[f] /\ cfg[f] <= cfg'[f]
    PROVE  Written'
<1>1. ASSUME NEW g \in Handlers, g # h PROVE WrittenBy(g)'
  <2>1. /\ pc'[g] = pc[g] /\ item'[g] = item[g] /\ mine'[g] = mine[g]
        /\ WrittenBy(g) /\ mine[g] \in Int /\ item[g] \in Items
    BY <1>1 DEF QInv, Written, WrittenBy, TypeOK
  <2>2. /\ \A f \in Fields : ram[f] \in Int /\ ram'[f] \in Int /\ cfg[f] \in Int /\ cfg'[f] \in Int
        /\ pwd # None => pwd \in Int /\ pwd' \in Int
    BY DEF QInv, TypeOK, Value, Blank
  <2>3. CASE pc[g] = "save"
    BY <2>1, <2>2, <2>3 DEF WrittenBy
  <2>4. CASE pc[g] = "reply" /\ item[g] = "pwd"
    BY <2>1, <2>2, <2>4 DEF WrittenBy
  <2>5. CASE pc[g] = "reply" /\ item[g] # "pwd"
    <3>1. item[g] \in Fields
      BY <2>1, <2>5 DEF Items
    <3>2. QED
      BY <2>1, <2>2, <2>5, <3>1 DEF WrittenBy
  <2>6. QED
    BY <2>1, <2>3, <2>4, <2>5 DEF WrittenBy
<1>2. QED
  BY <1>1 DEF Written, WrittenBy

\* A handler begins a change.
LEMMA ChangeInductive ==
    ASSUME QInv, TypeOK', NEW h \in Handlers, Change(h), Staying
    PROVE  Exclusive' /\ Entries' /\ Ordered' /\ Written' /\ Factory'
<1>0. /\ boot = "up" /\ boot' = "up" /\ cfg # None /\ TypeOK
      /\ writes' = writes + 1 /\ cfg' = cfg /\ acked' = acked /\ factory' = FALSE
  BY Working DEF Change, UpdateField, UpdatePassword, QInv, flash
<1>1. ASSUME NEW f \in Fields, UpdateField(h, f)
      PROVE  Exclusive' /\ Entries' /\ Ordered' /\ Written' /\ Factory'
  <2>1. /\ pc' = [pc EXCEPT ![h] = "save"] /\ pwd' = pwd
        /\ ram' = [ram EXCEPT ![f] = writes'] /\ item'[h] = f /\ mine'[h] = writes'
        /\ \A g \in Handlers : g # h => item'[g] = item[g] /\ mine'[g] = mine[g]
        /\ "save" \in Busy \union {"idle"}
    BY <1>0, <1>1 DEF UpdateField, Goto, TypeOK, flash, Busy
  <2>2. Staying' /\ Exclusive' /\ \A g \in Handlers : g # h => pc'[g] = pc[g]
    BY <1>0, <2>1, StillStaying
  <2>3. ram'[f] = writes + 1 /\ \A e \in Fields : ram[e] <= ram'[e] /\ ram'[e] <= writes'
    BY <1>0, <2>1, Numbers DEF QInv, Ordered, TypeOK
  <2>4. Entries'
    BY <1>0, <2>1, <2>2 DEF QInv, Entries, Staying, Resetting
  <2>5. Ordered'
    <3>1. \A e \in Fields : cfg[e] <= ram'[e] /\ cfg[e] <= writes'
      <4>1. ASSUME NEW e \in Fields PROVE cfg[e] <= ram'[e] /\ cfg[e] <= writes'
        <5>1. cfg[e] \in Int /\ ram[e] \in Int /\ ram'[e] \in Int /\ writes \in Nat
          BY <1>0, Numbers DEF TypeOK, Value, Blank
        <5>2. cfg[e] <= ram[e] /\ cfg[e] <= writes
          BY <1>0 DEF QInv, Ordered
        <5>3. QED
          BY <1>0, <2>3, <5>1, <5>2
      <4>2. QED
        BY <4>1
    <3>2. pwd # None => pwd <= writes'
      BY <1>0, Numbers DEF QInv, Ordered
    <3>3. QED
      BY <1>0, <2>1, <2>3, <3>1, <3>2 DEF QInv, Ordered
  <2>6. Written'
    <3>1. WrittenBy(h)'
      <4>1. pc'[h] = "save"
        BY <1>0, <2>1 DEF TypeOK
      <4>2. QED
        BY <1>0, <2>1, <2>3, <4>1, Numbers DEF WrittenBy
    <3>2. (pwd # None => pwd' # None /\ pwd <= pwd') /\ \A e \in Fields : cfg[e] <= cfg'[e]
      BY <1>0, <2>1, Numbers
    <3>3. QED
      BY <1>0, <2>1, <2>2, <2>3, <3>1, <3>2, OthersWritten
  <2>7. QED
    BY <1>0, <2>2, <2>4, <2>5, <2>6 DEF Factory
<1>2. CASE UpdatePassword(h)
  <2>1. /\ pc' = [pc EXCEPT ![h] = "reply"] /\ pwd' = writes' /\ ram' = ram
        /\ item'[h] = "pwd" /\ mine'[h] = writes'
        /\ \A g \in Handlers : g # h => item'[g] = item[g] /\ mine'[g] = mine[g]
        /\ "reply" \in Busy \union {"idle"}
    BY <1>0, <1>2 DEF UpdatePassword, Goto, TypeOK, Busy
  <2>2. Staying' /\ Exclusive' /\ \A g \in Handlers : g # h => pc'[g] = pc[g]
    BY <1>0, <2>1, StillStaying
  <2>3. writes' \in Nat /\ (pwd # None => pwd <= pwd') /\ pwd' # None
    BY <1>0, <2>1, Numbers, Assumptions DEF QInv, Ordered
  <2>4. Entries'
    BY <1>0, <2>1, <2>2, <2>3 DEF QInv, Entries, Staying, Resetting
  <2>5. Ordered'
    <3>1. \A e \in Fields : cfg[e] <= writes' /\ ram[e] <= writes'
      <4>1. \A e \in Fields : cfg[e] <= writes /\ ram[e] <= writes /\ cfg[e] \in Int /\ ram[e] \in Int
        BY <1>0, Numbers DEF QInv, Ordered
      <4>2. writes \in Nat
        BY <1>0, Numbers
      <4>3. QED
        BY <1>0, <4>1, <4>2
    <3>2. pwd' <= writes' /\ acked["pwd"] <= pwd'
      <4>1. acked["pwd"] \in Nat /\ (acked["pwd"] > 0 => pwd # None /\ acked["pwd"] <= pwd /\ pwd \in Nat)
        BY <1>0, Numbers DEF QInv, Ordered
      <4>2. CASE acked["pwd"] > 0
        BY <2>1, <2>3, <4>1, <4>2
      <4>3. CASE acked["pwd"] = 0
        BY <2>1, <2>3, <4>3
      <4>4. QED
        BY <4>1, <4>2, <4>3
    <3>3. QED
      BY <1>0, <2>1, <2>3, <3>1, <3>2 DEF QInv, Ordered
  <2>6. Written'
    <3>1. WrittenBy(h)'
      <4>1. pc'[h] = "reply"
        BY <1>0, <2>1 DEF TypeOK
      <4>2. QED
        BY <2>1, <2>3, <4>1 DEF WrittenBy
    <3>2. \A e \in Fields : cfg[e] <= cfg'[e] /\ ram[e] <= ram'[e]
      BY <1>0, <2>1, Numbers
    <3>3. QED
      BY <1>0, <2>1, <2>2, <2>3, <3>1, <3>2, OthersWritten
  <2>7. QED
    BY <1>0, <2>2, <2>4, <2>5, <2>6 DEF Factory
<1>3. QED
  BY <1>1, <1>2 DEF Change

\* The later steps of a handler, when no save fails.
LEMMA FinishInductive ==
    ASSUME QInv, TypeOK', NEW h \in Handlers, Finish(h), "save" \notin Faults
    PROVE  Exclusive' /\ Entries' /\ Ordered' /\ Written' /\ Factory'
<1>0. /\ pc[h] \in Busy /\ pc[h] # "idle" /\ boot' = boot /\ pwd' = pwd /\ ram' = ram /\ item' = item /\ mine' = mine
      /\ factory' = factory /\ writes' = writes
  BY DEF Finish, SaveField, AnswerTrue, CopyConfig, Broadcast, Goto, Busy, flash, ghost
<1>1. boot = "up" /\ Staying /\ cfg # None /\ TypeOK
  BY <1>0, BusyIsUp, Working DEF QInv
<1>2. Factory'
  BY <1>0, <1>1 DEF QInv, Factory
<1>3. /\ \A f \in Fields : ram[f] <= ram'[f] /\ cfg[f] <= cfg[f]
      /\ pwd # None => pwd' # None /\ pwd <= pwd'
  BY <1>0, <1>1, Numbers
<1>4. ASSUME NEW to \in {"copy", "cast", "idle"}, pc' = [pc EXCEPT ![h] = to], cfg' = cfg
      PROVE  Exclusive' /\ Entries' /\ Written'
  <2>1. to \in Busy \union {"idle"} /\ pc'[h] = to
    BY <1>1, <1>4 DEF Busy, TypeOK
  <2>2. Staying' /\ Exclusive' /\ \A g \in Handlers : g # h => pc'[g] = pc[g]
    BY <1>0, <1>1, <1>4, <2>1, StillStaying
  <2>3. Entries'
    BY <1>0, <1>1, <1>4, <2>2 DEF QInv, Entries, Staying, Resetting
  <2>4. WrittenBy(h)'
    BY <1>4, <2>1 DEF WrittenBy
  <2>5. Written'
    BY <1>0, <1>1, <1>3, <1>4, <2>2, <2>4, OthersWritten
  <2>6. QED
    BY <2>2, <2>3, <2>5
<1>5. CASE SaveField(h)
  <2>1. /\ cfg' = ram /\ acked' = acked /\ pc[h] = "save"
        /\ pc' = [pc EXCEPT ![h] = IF item[h] = "values" THEN "cast" ELSE "reply"]
    BY <1>5 DEF SaveField, Saved, NotSaved, Goto
  <2>2. PICK to \in {"cast", "reply"} : pc' = [pc EXCEPT ![h] = to] /\ pc'[h] = to
    BY <1>1, <2>1 DEF TypeOK
  <2>3. Staying' /\ Exclusive' /\ \A g \in Handlers : g # h => pc'[g] = pc[g]
    BY <1>0, <1>1, <2>2, StillStaying DEF Busy
  <2>4. cfg' # None /\ \A f \in Fields : cfg[f] <= cfg'[f] /\ cfg'[f] <= ram'[f] /\ cfg'[f] <= writes'
    <3>1. cfg' # None
      BY <1>1, <2>1, Assumptions DEF TypeOK, Value, Blank
    <3>2. QED
      BY <1>0, <1>1, <2>1, <3>1, Numbers DEF QInv, Ordered
  <2>5. Entries'
    BY <1>0, <1>1, <2>3, <2>4 DEF Entries, Staying, Resetting
  <2>6. Ordered'
    <3>1. \A f \in Fields : acked[f] = 0 \/ acked[f] <= cfg'[f]
      <4>1. ASSUME NEW f \in Fields PROVE acked[f] = 0 \/ acked[f] <= cfg'[f]
        <5>1. acked[f] \in Nat /\ cfg[f] \in Int /\ cfg'[f] \in Int
          BY <1>1, <2>1, Numbers
        <5>2. acked[f] = 0 \/ acked[f] <= cfg[f]
          BY <1>1 DEF QInv, Ordered
        <5>3. QED
          BY <2>4, <5>1, <5>2
      <4>2. QED
        BY <4>1
    <3>2. QED
      BY <1>0, <1>1, <2>1, <2>4, <3>1 DEF QInv, Ordered
  <2>7. WrittenBy(h)'
    <3>1. item[h] \in Fields /\ mine[h] <= ram[item[h]]
      BY <2>1 DEF QInv, Written
    <3>2. QED
      BY <1>0, <2>1, <2>2, <3>1 DEF WrittenBy, Fields
  <2>8. Written'
    BY <1>0, <1>1, <1>3, <2>3, <2>4, <2>7, OthersWritten
  <2>9. QED
    BY <1>2, <2>3, <2>5, <2>6, <2>8
<1>6. CASE AnswerTrue(h)
  <2>1. /\ pc[h] = "reply" /\ cfg' = cfg
        /\ pc' = [pc EXCEPT ![h] = IF item[h] = "pwd" THEN "idle" ELSE "copy"]
        /\ acked' = IF acked[item[h]] < mine[h] THEN [acked EXCEPT ![item[h]] = mine[h]] ELSE acked
    BY <1>6 DEF AnswerTrue, Goto, flash
  <2>2. Exclusive' /\ Entries' /\ Written'
    <3>1. PICK to \in {"copy", "idle"} : pc' = [pc EXCEPT ![h] = to]
      BY <2>1
    <3>2. QED
      BY <1>4, <2>1, <3>1
  <2>3. \A x \in Items : acked'[x] = acked[x] \/ (x = item[h] /\ acked'[x] = mine[h])
    BY <1>1, <2>1 DEF TypeOK
  <2>4. /\ item[h] = "pwd" => pwd # None /\ mine[h] <= pwd
        /\ item[h] # "pwd" => mine[h] <= cfg[item[h]]
    BY <2>1 DEF QInv, Written
  <2>5. "pwd" \notin Fields /\ "pwd" \in Items /\ Fields \subseteq Items
    BY DEF Fields, Items
  <2>6. acked'["pwd"] > 0 => pwd # None /\ acked'["pwd"] <= pwd
    BY <2>3, <2>4, <2>5 DEF QInv, Ordered
  <2>7. \A f \in Fields : acked'[f] = 0 \/ acked'[f] <= cfg[f]
    BY <1>1, <2>3, <2>4, <2>5 DEF QInv, Ordered
  <2>8. Ordered'
    BY <1>0, <1>1, <2>1, <2>6, <2>7 DEF QInv, Ordered
  <2>9. QED
    BY <1>2, <2>2, <2>8
<1>7. CASE CopyConfig(h) \/ Broadcast(h)
  <2>1. cfg' = cfg /\ acked' = acked /\ \E to \in {"cast", "idle"} : pc' = [pc EXCEPT ![h] = to]
    BY <1>7 DEF CopyConfig, Broadcast, Goto, flash, ghost
  <2>2. Exclusive' /\ Entries' /\ Written'
    BY <1>4, <2>1
  <2>3. Ordered'
    BY <1>0, <2>1 DEF QInv, Ordered
  <2>4. QED
    BY <1>2, <2>2, <2>3
<1>8. QED
  BY <1>5, <1>6, <1>7 DEF Finish

\* A reset or a restart begins on an idle device, and goes on alone.
LEMMA LeaveInductive ==
    ASSUME QInv, TypeOK', NEW h \in Handlers,
           (Leave(h) /\ Idle) \/ (Closing(h) /\ ~Restart(h))
    PROVE  Exclusive' /\ Entries' /\ Ordered' /\ Written' /\ Factory'
<1>0. /\ pc[h] \in {"idle"} \union Leaving /\ boot' = boot /\ boot = "up"
      /\ ram' = ram /\ writes' = writes /\ TypeOK
  BY BusyIsUp DEF Leave, Clear, ClearFails, AskRestart, Closing, EraseEntry, Erased, EraseFails,
                  ResetWifi, Goto, flash, QInv, Leaving
<1>1. \A g \in Handlers : g # h => pc[g] = "idle"
  BY DEF Idle, QInv, Exclusive, Closing, EraseEntry, Erased, EraseFails, ResetWifi, Goto, Leaving
<1>2. PICK to \in Leaving : pc' = [pc EXCEPT ![h] = to]
  <2>1. CASE EraseEntry(h)
    <3>1. pc[h] = "erase" /\ pc' = pc
      BY <2>1 DEF EraseEntry, local
    <3>2. pc' = [pc EXCEPT ![h] = "erase"]
      BY <1>0, <3>1 DEF TypeOK
    <3>3. QED
      BY <3>2 DEF Leaving
  <2>2. QED
    BY <2>1 DEF Leave, Clear, ClearFails, AskRestart, Closing, Erased, EraseFails, ResetWifi, Goto, Leaving
<1>3. pc'[h] = to /\ \A g \in Handlers : g # h => pc'[g] = "idle"
  BY <1>0, <1>1, <1>2 DEF TypeOK
<1>4. Written'
  BY <1>3 DEF Written, Leaving
<1>5. ASSUME pc'[h] = "erase" => ~factory' /\ \A x \in Items : acked'[x] = 0
      PROVE  Exclusive'
  BY <1>0, <1>3, <1>5 DEF Exclusive, Leaving
<1>6. CASE Clear(h)
  <2>1. /\ cfg' = cfg /\ pwd' = pwd /\ acked' = NoAcks /\ factory' = FALSE
        /\ pc'[h] = "erase"
    BY <1>0, <1>6 DEF Clear, Goto, flash, TypeOK
  <2>2. Entries'
    BY <1>0, <1>3, <2>1 DEF Entries, Resetting, Leaving
  <2>3. Ordered'
    <3>1. \A x \in Items : acked'[x] = 0
      BY <2>1 DEF NoAcks
    <3>2. "pwd" \in Items /\ Fields \subseteq Items
      BY DEF Items
    <3>3. QED
      BY <1>0, <2>1, <3>1, <3>2 DEF QInv, Ordered
  <2>4. QED
    BY <1>5, <1>4, <2>1, <2>2, <2>3 DEF Factory, NoAcks
<1>7. CASE ClearFails(h) \/ AskRestart(h)
  <2>1. /\ cfg' = cfg /\ pwd' = pwd /\ acked' = acked /\ factory' = factory
        /\ pc[h] = "idle" /\ pc'[h] = "wait"
    BY <1>0, <1>7 DEF ClearFails, AskRestart, Goto, flash, ghost, TypeOK
  <2>2. Entries'
    BY <1>0, <1>1, <1>3, <2>1 DEF QInv, Entries, Resetting, Leaving
  <2>3. QED
    BY <1>0, <1>5, <1>4, <2>1, <2>2 DEF QInv, Ordered, Factory
<1>8. ASSUME pc[h] = "erase" PROVE ~factory /\ \A x \in Items : acked[x] = 0
  BY <1>8 DEF QInv, Exclusive
<1>9. CASE EraseEntry(h)
  <2>1. /\ acked' = acked /\ factory' = factory /\ pc[h] = "erase" /\ pc'[h] = "erase"
        /\ cfg' = cfg \/ cfg' = None
        /\ pwd' = pwd \/ pwd' = None
    BY <1>9 DEF EraseEntry, local, ghost
  <2>2. Entries'
    BY <1>0, <1>3, <2>1 DEF Entries, Resetting, Leaving
  <2>3. Ordered'
    <3>1. "pwd" \in Items /\ Fields \subseteq Items
      BY DEF Items
    <3>2. QED
      BY <1>0, <1>8, <2>1, <3>1 DEF QInv, Ordered
  <2>4. QED
    BY <1>5, <1>4, <1>8, <2>1, <2>2, <2>3 DEF Factory
<1>10. CASE Erased(h)
  <2>1. /\ cfg' = cfg /\ pwd' = pwd /\ acked' = acked /\ factory' = factory
        /\ cfg = None /\ pc[h] = "erase" /\ pc'[h] = "wifi"
    BY <1>0, <1>10 DEF Erased, Goto, flash, TypeOK
  <2>2. Entries'
    BY <1>0, <1>1, <1>3, <2>1 DEF QInv, Entries, Resetting, Leaving
  <2>3. QED
    BY <1>0, <1>5, <1>4, <2>1, <2>2 DEF QInv, Ordered, Factory
<1>11. CASE EraseFails(h)
  <2>1. /\ cfg' = cfg /\ pwd' = pwd /\ acked' = acked /\ factory' = factory
        /\ pc[h] = "erase" /\ pc'[h] = "wait"
    BY <1>0, <1>11 DEF EraseFails, Goto, flash, TypeOK
  <2>2. Entries'
    BY <1>0, <1>1, <1>3, <2>1 DEF QInv, Entries, Resetting, Leaving
  <2>3. QED
    BY <1>0, <1>5, <1>4, <2>1, <2>2 DEF QInv, Ordered, Factory
<1>12. CASE ResetWifi(h)
  <2>1. /\ cfg' = cfg /\ pwd' = pwd /\ acked' = acked /\ factory' = factory
        /\ pc[h] = "wifi" /\ pc'[h] = "wait_reset"
    BY <1>0, <1>12 DEF ResetWifi, Goto, flash, ghost, TypeOK
  <2>2. Entries'
    BY <1>0, <1>1, <1>3, <2>1 DEF QInv, Entries, Resetting, Leaving
  <2>3. QED
    BY <1>0, <1>5, <1>4, <2>1, <2>2 DEF QInv, Ordered, Factory
<1>13. QED
  BY <1>6, <1>7, <1>9, <1>10, <1>11, <1>12 DEF Leave, Closing

\* The password goes with the configuration, but for an erase cut short.
LEMMA LoginInductive ==
    ASSUME QInv, QuietNext, {"open", "read", "save"} \intersect Faults = {}
    PROVE  LoginPossible'
<1>0. TypeOK /\ pc \in [Handlers -> Pc] /\ LoginPossible
  BY DEF QInv, TypeOK
<1>1. CASE Starting
  <2>1. Erasing' = Erasing
    BY <1>1 DEF Starting, Load, LoadFails, DefaultPwd, DefaultCfg, Setup, Erasing, local
  <2>2. CASE Load \/ LoadFails
    BY <1>0, <2>1, <2>2 DEF Load, LoadFails, LoginPossible, flash, ghost
  <2>3. CASE DefaultPwd
    BY <2>3, Assumptions DEF DefaultPwd, LoginPossible
  <2>4. CASE DefaultCfg
    BY <2>4 DEF DefaultCfg, QInv, Entries, LoginPossible
  <2>5. CASE Setup
    BY <1>0, <2>1, <2>5 DEF Setup, QInv, Entries, LoginPossible
  <2>6. QED
    BY <1>1, <2>2, <2>3, <2>4, <2>5 DEF Starting
<1>2. ASSUME Reboot PROVE LoginPossible'
  BY <1>0, <1>2 DEF Reboot, LoginPossible, flash
<1>3. ASSUME NEW h \in Handlers, Change(h), Staying PROVE LoginPossible'
  <2>1. ~Erasing /\ cfg' = cfg
    BY <1>3 DEF Change, UpdateField, UpdatePassword, Erasing, Staying, flash
  <2>2. CASE UpdatePassword(h)
    BY <1>0, <2>2, Assumptions DEF UpdatePassword, TypeOK, LoginPossible
  <2>3. ASSUME NEW f \in Fields, UpdateField(h, f) PROVE LoginPossible'
    BY <1>0, <2>1, <2>3 DEF UpdateField, LoginPossible, flash
  <2>4. QED
    BY <1>3, <2>2, <2>3 DEF Change
<1>4. ASSUME NEW h \in Handlers, Finish(h) PROVE LoginPossible'
  <2>1. pc[h] \in Busy /\ pc[h] # "idle" /\ pwd' = pwd /\ half' = half
    BY <1>4 DEF Finish, SaveField, AnswerTrue, CopyConfig, Broadcast, Saved, NotSaved, Goto, Busy, flash, ghost
  <2>2. Staying /\ cfg # None
    BY <2>1, BusyIsUp, Working
  <2>3. QED
    BY <1>0, <2>1, <2>2 DEF Staying, Erasing, LoginPossible
<1>5. ASSUME NEW h \in Handlers, Leave(h), Idle PROVE LoginPossible'
  <2>1. flash' = flash /\ half' = half /\ ~Erasing
    BY <1>5 DEF Leave, Clear, ClearFails, AskRestart, Idle, Erasing, ghost
  <2>2. QED
    BY <1>0, <2>1 DEF LoginPossible, flash
<1>6. ASSUME NEW h \in Handlers, Closing(h), ~Restart(h) PROVE LoginPossible'
  <2>1. CASE EraseEntry(h)
    BY <2>1 DEF EraseEntry, Erasing, LoginPossible, local
  <2>2. CASE Erased(h)
    BY <2>2 DEF Erased, LoginPossible, flash
  <2>3. CASE EraseFails(h)
    BY <2>3 DEF EraseFails, LoginPossible, flash
  <2>4. CASE ResetWifi(h)
    BY <2>4 DEF ResetWifi, Goto, QInv, Entries, Resetting, LoginPossible, flash
  <2>5. QED
    BY <1>6, <2>1, <2>2, <2>3, <2>4 DEF Closing
<1>7. QED
  BY <1>1, <1>2, <1>3, <1>4, <1>5, <1>6 DEF QuietNext, PowerLoss, Closing, Restart

LEMMA QuietInductive ==
    ASSUME {"open", "read", "save"} \intersect Faults = {}
    PROVE  QInv /\ [QuietNext]_vars => QInv'
<1> SUFFICES ASSUME QInv, [QuietNext]_vars PROVE QInv'
  OBVIOUS
<1>1. CASE UNCHANGED vars
  BY <1>1 DEF vars, flash, local, ghost, QInv, TypeOK, Exclusive, Idle, Entries, Ordered, Written, Factory,
          LoginPossible, Erasing
<1>2. CASE QuietNext
  <2>1. TypeOK'
    BY <1>2, QuietIsNext, StepTyped DEF QInv
  <2>2. Exclusive' /\ Entries' /\ Ordered' /\ Written' /\ Factory'
    <3>1. CASE Starting
      BY <2>1, <3>1, StartingInductive
    <3>2. CASE PowerLoss
      BY <2>1, <3>2, RebootInductive
    <3>3. ASSUME NEW h \in Handlers, (Change(h) /\ Staying) \/ Finish(h)
          PROVE  Exclusive' /\ Entries' /\ Ordered' /\ Written' /\ Factory'
      BY <2>1, <3>3, ChangeInductive, FinishInductive
    <3>4. ASSUME NEW h \in Handlers, (Leave(h) /\ Idle) \/ Closing(h)
          PROVE  Exclusive' /\ Entries' /\ Ordered' /\ Written' /\ Factory'
      BY <2>1, <3>4, LeaveInductive, RebootInductive
    <3>5. QED
      BY <1>2, <3>1, <3>2, <3>3, <3>4 DEF QuietNext
  <2>3. LoginPossible'
    BY <1>2, LoginInductive
  <2>4. QED
    BY <2>1, <2>2, <2>3 DEF QInv
<1>3. QED
  BY <1>1, <1>2

\* A change that was answered true survives every loss of power and restart,
\* with any number of threads changing things at once, as long as no save and
\* no read at boot fails (the handlers save before they answer).
THEOREM AnswersAreDurable ==
    ASSUME {"open", "read", "save"} \intersect Faults = {}
    PROVE  QuietSpec => []AckedDurable
<1>1. QInv => AckedDurable
  <2> SUFFICES ASSUME QInv PROVE AckedDurable
    OBVIOUS
  <2>1. \A x \in Items : acked[x] > 0 => cfg # None
    BY DEF QInv, Ordered
  <2>2. /\ writes \in Nat /\ "pwd" \in Items /\ Fields \subseteq Items
        /\ \A x \in Items : acked[x] \in Nat
        /\ cfg # None => \A f \in Fields : cfg[f] \in Int
        /\ pwd # None => pwd \in Nat
    BY Numbers DEF QInv
  <2>3. /\ acked["pwd"] > 0 => pwd # None /\ acked["pwd"] <= pwd
        /\ cfg # None => \A f \in Fields : acked[f] = 0 \/ acked[f] <= cfg[f]
    BY DEF QInv, Ordered
  <2>4. QED
    BY <2>1, <2>2, <2>3 DEF AckedDurable
<1>2. QED
  BY <1>1, Initially, QuietInductive, PTL DEF QuietSpec

\* Power may be lost at any step of config_load or of a reset, and an erase may
\* fail: a configuration is left without a password only by an nvs_erase_all
\* that was cut short when it had taken the password, and by none after the
\* next default or new password (update_password before config_save).
THEOREM LoginStaysPossible ==
    ASSUME {"open", "read", "save"} \intersect Faults = {}
    PROVE  QuietSpec => []LoginPossible
<1>1. QInv => LoginPossible
  BY DEF QInv
<1>2. QED
  BY <1>1, Initially, QuietInductive, PTL DEF QuietSpec

\* The boot after a reset that nobody disturbed starts from the defaults.
THEOREM QuietResetClears ==
    ASSUME {"open", "read", "save"} \intersect Faults = {}
    PROVE  QuietSpec => []ResetClears
<1>1. QInv => ResetClears
  BY DEF QInv, Factory, ResetClears
<1>2. QED
  BY <1>1, Initially, QuietInductive, PTL DEF QuietSpec

=============================================================================
