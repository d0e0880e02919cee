-------------------------- MODULE ActuatorProofs --------------------------
(***************************************************************************)
(* Proofs about the relays, for a register of any width and any number of  *)
(* threads: while commands come one at a time, the relays show the value   *)
(* that is stored and broadcast, and never anything in between.            *)
(***************************************************************************)
EXTENDS Actuator, TLAPS

\* One update runs at a time.
OneActive == \A s, t \in Tasks : pc[s] # "idle" /\ pc[t] # "idle" => s = t

\* Once app_main has set the pins, clock and latch are low between pulses.
PinsLow ==
    pc[Main] \notin {"boot", "setup"} =>
        /\ clk = 0 \/ \E t \in Tasks : pc[t] = "clk0"
        /\ stcp = 0 \/ \E t \in Tasks : pc[t] = "stcp0"

\* The bits above index i have been shifted in, bit i + 1 last.
ShiftedAbove(t) ==
    /\ pc[t] = "clk1" => ds = 1 - val[t][i[t]]
    /\ pc[t] \in {"ds", "clk1"} =>
           \A k \in Bits : k < NBits - 1 - i[t] => reg[k] = 1 - val[t][i[t] + 1 + k]
    /\ pc[t] = "clk0" =>
           \A k \in Bits : k <= NBits - 1 - i[t] => reg[k] = 1 - val[t][i[t] + k]

\* What register, outputs and memory hold after the loop.
Latched(t) ==
    /\ pc[t] = "stcp1" => reg = Inverted(val[t])
    /\ pc[t] \in {"stcp0", "store", "save", "cast"} => latch = Inverted(val[t])
    /\ pc[t] \in {"save", "cast"} => ram = val[t]

AtRest == Settled => latch = Inverted(ram) /\ seen = ram

IInv ==
    /\ TypeOK /\ OneActive /\ PinsLow /\ AtRest
    /\ \A t \in Tasks : /\ pc[t] \in {"boot", "setup"} => t = Main
                        /\ ShiftedAbove(t) /\ Latched(t)

-----------------------------------------------------------------------------
\* The register after a pulse of the clock is a byte, and so is its inverse.
LEMMA BytesTyped ==
    ASSUME TypeOK
    PROVE  /\ ShiftedIn \in Bytes /\ Zero \in Bytes
           /\ \A v \in Bytes : Inverted(v) \in Bytes
           /\ NBits - 1 \in Bits /\ 0 \in Bits
<1>1. NBits \in Nat \ {0}
  BY Assumptions
<1>2. NBits - 1 \in Bits /\ 0 \in Bits /\ Zero \in Bytes
  BY <1>1 DEF Bits, Bytes, Zero
<1>3. ASSUME NEW v \in Bytes PROVE Inverted(v) \in Bytes
  BY <1>3 DEF Inverted, Bytes
<1>4. \A k \in Bits : k # 0 => k - 1 \in Bits
  BY <1>1 DEF Bits
<1>5. ShiftedIn \in Bytes
  BY <1>4 DEF ShiftedIn, TypeOK, Bytes
<1>6. QED
  BY <1>2, <1>3, <1>5

\* A step of the update leaves the values in their types.
LEMMA UpdateTyped ==
    ASSUME TypeOK, NEW t \in Tasks, Update(t)
    PROVE  TypeOK'
<1>0. NBits \in Nat \ {0} /\ t \in Tasks /\ i[t] \in Bits /\ val[t] \in Bytes
  BY Assumptions DEF TypeOK
<1>1. CASE SetData(t)
  <2>1. val[t][i[t]] \in {0, 1}
    BY <1>0 DEF Bytes
  <2>2. ds' \in {0, 1}
    BY <1>1, <2>1 DEF SetData
  <2>3. QED
    BY <1>1, <2>2 DEF SetData, TypeOK, Goto, Pc, chip, data
<1>2. CASE ClockUp(t)
  BY <1>2, BytesTyped DEF ClockUp, SetClock, TypeOK, Goto, Pc, data
<1>3. CASE ClockDown(t)
  <2>1. i' \in [Tasks -> Bits]
    BY <1>0, <1>3 DEF ClockDown, TypeOK, Bits
  <2>2. pc' \in [Tasks -> Pc]
    BY <1>3 DEF ClockDown, TypeOK, Goto, Pc
  <2>3. QED
    BY <1>3, <2>1, <2>2 DEF ClockDown, SetClock, TypeOK, data
<1>4. CASE LatchUp(t)
  BY <1>4 DEF LatchUp, SetLatch, TypeOK, Goto, Pc, data
<1>5. CASE LatchDown(t)
  BY <1>5 DEF LatchDown, SetLatch, TypeOK, Goto, Pc, data
<1>6. CASE StoreValue(t)
  BY <1>6 DEF StoreValue, TypeOK, Goto, Pc, pins, chip
<1>7. CASE SaveConfig(t)
  BY <1>7 DEF SaveConfig, TypeOK, Goto, Pc, pins, chip
<1>8. CASE CastValue(t)
  BY <1>8, BytesTyped DEF CastValue, TypeOK, Goto, Pc, pins, chip
<1>9. QED
  BY <1>1, <1>2, <1>3, <1>4, <1>5, <1>6, <1>7, <1>8 DEF Update

\* The task that runs an update is the only one, and has left setup.
LEMMA Alone ==
    ASSUME IInv, NEW t \in Tasks, pc[t] \notin {"idle", "boot", "setup"}
    PROVE  /\ \A u \in Tasks : u # t => pc[u] = "idle"
           /\ pc[Main] \notin {"boot", "setup"}
           /\ pc[t] # "clk0" => clk = 0
           /\ pc[t] # "stcp0" => stcp = 0
<1>1. \A u \in Tasks : u # t => pc[u] = "idle"
  BY DEF IInv, OneActive
<1>2. pc[Main] \notin {"boot", "setup"}
  BY <1>1 DEF Tasks
<1>3. QED
  BY <1>1, <1>2 DEF IInv, PinsLow

\* What one step of the update does to a device where nothing else runs.
LEMMA OthersIdle ==
    ASSUME IInv, NEW t \in Tasks, pc[t] \notin {"idle", "boot", "setup"},
           NEW to \in Pc \ {"boot", "setup"}, pc' = [pc EXCEPT ![t] = to]
    PROVE  /\ pc'[t] = to /\ \A u \in Tasks : u # t => pc'[u] = "idle"
           /\ OneActive'
           /\ \A u \in Tasks : pc'[u] \in {"boot", "setup"} => u = Main
<1>1. \A u \in Tasks : u # t => pc[u] = "idle"
  BY Alone
<1>2. pc \in [Tasks -> Pc]
  BY DEF IInv, TypeOK
<1>3. pc'[t] = to /\ \A u \in Tasks : u # t => pc'[u] = "idle"
  BY <1>1, <1>2
<1>4. QED
  BY <1>3 DEF OneActive

\* Then only the conditions on that task are left to show.
LEMMA StepKeeps ==
    ASSUME IInv, TypeOK', NEW t \in Tasks, pc[t] \notin {"idle", "boot", "setup"},
           NEW to \in Pc \ {"boot", "setup"}, pc' = [pc EXCEPT ![t] = to],
           clk' = IF to = "clk0" THEN 1 ELSE 0,
           stcp' = IF to = "stcp0" THEN 1 ELSE 0,
           ShiftedAbove(t)', Latched(t)',
           to = "idle" => latch' = Inverted(ram') /\ seen' = ram'
    PROVE  IInv'
<1>1. /\ pc'[t] = to /\ \A u \in Tasks : u # t => pc'[u] = "idle"
      /\ OneActive'
      /\ \A u \in Tasks : pc'[u] \in {"boot", "setup"} => u = Main
  BY OthersIdle
<1>2. PinsLow'
  BY <1>1 DEF PinsLow
<1>3. AtRest'
  BY <1>1 DEF AtRest, Settled
<1>4. \A u \in Tasks : ShiftedAbove(u)' /\ Latched(u)'
  <2>1. ASSUME NEW u \in Tasks, u # t PROVE ShiftedAbove(u)' /\ Latched(u)'
    BY <1>1, <2>1 DEF ShiftedAbove, Latched
  <2>2. QED
    BY <2>1
<1>5. QED
  BY <1>1, <1>2, <1>3, <1>4 DEF IInv

LEMMA UpdateInductive ==
    ASSUME IInv, NEW t \in Tasks, Update(t)
    PROVE  IInv'
<1>0. /\ TypeOK /\ TypeOK' /\ NBits \in Nat \ {0} /\ i[t] \in Bits /\ val[t] \in Bytes
      /\ ShiftedAbove(t) /\ Latched(t)
      /\ pc \in [Tasks -> Pc] /\ pc' \in [Tasks -> Pc]
  BY UpdateTyped, Assumptions DEF IInv, TypeOK
<1>1. CASE SetData(t)
  <2>1. pc[t] = "ds" /\ pc' = [pc EXCEPT ![t] = "clk1"] /\ pc'[t] = "clk1"
    BY <1>0, <1>1 DEF SetData, Goto
  <2>2. clk' = 0 /\ stcp' = 0
    BY <1>1, <2>1, Alone DEF SetData
  <2>3. ShiftedAbove(t)' /\ Latched(t)'
    BY <1>0, <1>1, <2>1 DEF SetData, ShiftedAbove, Latched, chip
  <2>4. "clk1" \in Pc \ {"boot", "setup"}
    BY DEF Pc
  <2>5. QED
    BY <1>0, <2>1, <2>2, <2>3, <2>4, StepKeeps
<1>2. CASE ClockUp(t)
  <2>1. pc[t] = "clk1" /\ pc' = [pc EXCEPT ![t] = "clk0"] /\ pc'[t] = "clk0"
    BY <1>0, <1>2 DEF ClockUp, Goto
  <2>2. clk = 0 /\ clk' = 1 /\ stcp' = 0 /\ reg' = ShiftedIn
    BY <1>2, <2>1, Alone DEF ClockUp, SetClock
  <2>3. ASSUME NEW k \in Bits, k <= NBits - 1 - i[t]
        PROVE  reg'[k] = 1 - val[t][i[t] + k]
    <3>1. CASE k = 0
      <4>1. reg'[k] = ds /\ i[t] + k = i[t]
        BY <1>0, <2>2, <3>1 DEF ShiftedIn, Bits
      <4>2. QED
        BY <1>0, <2>1, <4>1 DEF ShiftedAbove
    <3>2. CASE k # 0
      <4>1. k - 1 \in Bits /\ k - 1 < NBits - 1 - i[t] /\ i[t] + 1 + (k - 1) = i[t] + k
        BY <1>0, <2>3, <3>2 DEF Bits
      <4>2. reg'[k] = reg[k - 1]
        BY <2>2, <3>2 DEF ShiftedIn
      <4>3. reg[k - 1] = 1 - val[t][i[t] + 1 + (k - 1)]
        BY <1>0, <2>1, <4>1 DEF ShiftedAbove
      <4>4. QED
        BY <4>1, <4>2, <4>3
    <3>3. QED
      BY <3>1, <3>2
  <2>4. ShiftedAbove(t)' /\ Latched(t)'
    BY <1>2, <2>1, <2>3 DEF ClockUp, ShiftedAbove, Latched
  <2>5. "clk0" \in Pc \ {"boot", "setup"}
    BY DEF Pc
  <2>6. QED
    BY <1>0, <2>1, <2>2, <2>4, <2>5, StepKeeps
<1>3. CASE ClockDown(t)
  <2>1. pc[t] = "clk0"
    BY <1>3 DEF ClockDown, Goto
  <2>2. clk' = 0 /\ stcp' = 0 /\ reg' = reg /\ val' = val
    BY <1>3, <2>1, Alone DEF ClockDown, SetClock
  <2>3. CASE i[t] > 0
    <3>1. pc' = [pc EXCEPT ![t] = "ds"] /\ pc'[t] = "ds" /\ i'[t] = i[t] - 1
      BY <1>0, <1>3, <2>3 DEF ClockDown, Goto, TypeOK
    <3>2. ASSUME NEW k \in Bits, k < NBits - 1 - i'[t]
          PROVE  reg'[k] = 1 - val'[t][i'[t] + 1 + k]
      <4>1. k <= NBits - 1 - i[t] /\ i'[t] + 1 + k = i[t] + k
        BY <1>0, <3>1, <3>2 DEF Bits
      <4>2. QED
        BY <1>0, <2>1, <2>2, <4>1 DEF ShiftedAbove
    <3>3. ShiftedAbove(t)' /\ Latched(t)'
      BY <3>1, <3>2 DEF ShiftedAbove, Latched
    <3>4. "ds" \in Pc \ {"boot", "setup"}
      BY DEF Pc
    <3>5. QED
      BY <1>0, <2>1, <2>2, <3>1, <3>3, <3>4, StepKeeps
  <2>4. CASE ~(i[t] > 0)
    <3>1. pc' = [pc EXCEPT ![t] = "stcp1"] /\ pc'[t] = "stcp1" /\ i[t] = 0
      BY <1>0, <1>3, <2>4 DEF ClockDown, Goto, Bits
    <3>2. \A k \in Bits : reg[k] = 1 - val[t][k]
      BY <1>0, <2>1, <3>1 DEF ShiftedAbove, Bits
    <3>3. reg = Inverted(val[t])
      BY <1>0, <3>2 DEF Inverted, TypeOK, Bytes
    <3>4. ShiftedAbove(t)' /\ Latched(t)'
      BY <2>2, <3>1, <3>3 DEF ShiftedAbove, Latched, Inverted
    <3>5. "stcp1" \in Pc \ {"boot", "setup"}
      BY DEF Pc
    <3>6. QED
      BY <1>0, <2>1, <2>2, <3>1, <3>4, <3>5, StepKeeps
  <2>5. QED
    BY <2>3, <2>4
<1>4. CASE LatchUp(t)
  <2>1. pc[t] = "stcp1" /\ pc' = [pc EXCEPT ![t] = "stcp0"] /\ pc'[t] = "stcp0"
    BY <1>0, <1>4 DEF LatchUp, Goto
  <2>2. clk' = 0 /\ stcp' = 1 /\ latch' = reg /\ val' = val
    BY <1>4, <2>1, Alone DEF LatchUp, SetLatch
  <2>3. ShiftedAbove(t)' /\ Latched(t)'
    BY <1>0, <2>1, <2>2 DEF ShiftedAbove, Latched, Inverted
  <2>4. "stcp0" \in Pc \ {"boot", "setup"}
    BY DEF Pc
  <2>5. QED
    BY <1>0, <2>1, <2>2, <2>3, <2>4, StepKeeps
<1>5. CASE LatchDown(t)
  <2>1. pc[t] = "stcp0" /\ pc' = [pc EXCEPT ![t] = "store"] /\ pc'[t] = "store"
    BY <1>0, <1>5 DEF LatchDown, Goto
  <2>2. clk' = 0 /\ stcp' = 0 /\ latch' = latch /\ val' = val
    BY <1>5, <2>1, Alone DEF LatchDown, SetLatch
  <2>3. ShiftedAbove(t)' /\ Latched(t)'
    BY <1>0, <2>1, <2>2 DEF ShiftedAbove, Latched, Inverted
  <2>4. "store" \in Pc \ {"boot", "setup"}
    BY DEF Pc
  <2>5. QED
    BY <1>0, <2>1, <2>2, <2>3, <2>4, StepKeeps
<1>6. CASE StoreValue(t)
  <2>1. pc[t] = "store" /\ pc' = [pc EXCEPT ![t] = "save"] /\ pc'[t] = "save"
    BY <1>0, <1>6 DEF StoreValue, Goto
  <2>2. clk' = 0 /\ stcp' = 0 /\ latch' = latch /\ val' = val /\ ram' = val[t]
    BY <1>6, <2>1, Alone DEF StoreValue, pins, chip
  <2>3. ShiftedAbove(t)' /\ Latched(t)'
    BY <1>0, <2>1, <2>2 DEF ShiftedAbove, Latched, Inverted
  <2>4. "save" \in Pc \ {"boot", "setup"}
    BY DEF Pc
  <2>5. QED
    BY <1>0, <2>1, <2>2, <2>3, <2>4, StepKeeps
<1>7. CASE SaveConfig(t)
  <2>1. pc[t] = "save" /\ pc' = [pc EXCEPT ![t] = "cast"] /\ pc'[t] = "cast"
    BY <1>0, <1>7 DEF SaveConfig, Goto
  <2>2. clk' = 0 /\ stcp' = 0 /\ latch' = latch /\ val' = val /\ ram' = ram
    BY <1>7, <2>1, Alone DEF SaveConfig, pins, chip
  <2>3. ShiftedAbove(t)' /\ Latched(t)'
    BY <1>0, <2>1, <2>2 DEF ShiftedAbove, Latched, Inverted
  <2>4. "cast" \in Pc \ {"boot", "setup"}
    BY DEF Pc
  <2>5. QED
    BY <1>0, <2>1, <2>2, <2>3, <2>4, StepKeeps
<1>8. CASE CastValue(t)
  <2>1. pc[t] = "cast" /\ pc' = [pc EXCEPT ![t] = "idle"] /\ pc'[t] = "idle"
    BY <1>0, <1>8 DEF CastValue, Goto
  <2>2. clk' = 0 /\ stcp' = 0 /\ latch' = latch /\ ram' = ram /\ seen' = val[t]
    BY <1>8, <2>1, Alone DEF CastValue, pins, chip
  <2>3. latch' = Inverted(ram') /\ seen' = ram'
    BY <1>0, <2>1, <2>2 DEF Latched, Inverted
  <2>4. ShiftedAbove(t)' /\ Latched(t)'
    BY <2>1 DEF ShiftedAbove, Latched
  <2>5. "idle" \in Pc \ {"boot", "setup"}
    BY DEF Pc
  <2>6. QED
    BY <1>0, <2>1, <2>2, <2>3, <2>4, <2>5, StepKeeps
<1>9. QED
  BY <1>1, <1>2, <1>3, <1>4, <1>5, <1>6, <1>7, <1>8 DEF Update

\* Boot, a command to a device at rest, and a loss of power.
LEMMA OthersInductive ==
    ASSUME IInv, LoadValue \/ SetupPins \/ OneByOne \/ PowerLoss
    PROVE  IInv'
<1>0. TypeOK /\ NBits - 1 \in Bits /\ 0 \in Bits /\ Zero \in Bytes /\ Main \in Tasks /\ NBits \in Nat \ {0}
  BY BytesTyped, Assumptions DEF IInv, Tasks
<1>1. CASE LoadValue
  <2>1. pc[Main] = "boot" /\ pc' = [pc EXCEPT ![Main] = "setup"] /\ pc'[Main] = "setup"
    BY <1>0, <1>1 DEF LoadValue, Goto, TypeOK
  <2>2. \A u \in Tasks : u # Main => pc[u] = "idle" /\ pc'[u] = "idle"
    BY <1>0, <2>1 DEF IInv, OneActive, TypeOK
  <2>3. TypeOK'
    BY <1>0, <1>1, <2>1 DEF LoadValue, TypeOK, Pc, pins, chip
  <2>4. QED
    BY <1>0, <2>1, <2>2, <2>3 DEF IInv, OneActive, PinsLow, AtRest, Settled, ShiftedAbove, Latched
<1>2. CASE SetupPins
  <2>1. /\ pc[Main] = "setup" /\ pc' = [pc EXCEPT ![Main] = "ds"] /\ pc'[Main] = "ds"
        /\ i' = [i EXCEPT ![Main] = NBits - 1] /\ i'[Main] = NBits - 1
        /\ clk' = 0 /\ stcp' = 0
    BY <1>0, <1>2 DEF SetupPins, Goto, TypeOK
  <2>2. \A u \in Tasks : u # Main => pc[u] = "idle" /\ pc'[u] = "idle"
    BY <1>0, <2>1 DEF IInv, OneActive, TypeOK
  <2>3. TypeOK'
    BY <1>0, <1>2, <2>1 DEF SetupPins, TypeOK, Pc, chip, data
  <2>4. \A k \in Bits : ~(k < NBits - 1 - i'[Main])
    BY <1>0, <2>1 DEF Bits
  <2>5. ShiftedAbove(Main)' /\ Latched(Main)'
    BY <2>1, <2>4 DEF ShiftedAbove, Latched
  <2>6. \A u \in Tasks : ShiftedAbove(u)' /\ Latched(u)'
    BY <2>2, <2>5 DEF ShiftedAbove, Latched
  <2>7. QED
    BY <1>0, <2>1, <2>2, <2>3, <2>6 DEF IInv, OneActive, PinsLow, AtRest, Settled
<1>3. CASE OneByOne
  <2>0. PICK t \in Callers, v \in Bytes : Command(t, v) /\ \A u \in Tasks : pc[u] = "idle"
    BY <1>3 DEF OneByOne
  <2>1. /\ t \in Tasks /\ t # Main
        /\ pc' = [pc EXCEPT ![t] = "ds"] /\ pc'[t] = "ds"
        /\ i' = [i EXCEPT ![t] = NBits - 1] /\ i'[t] = NBits - 1
        /\ val' = [val EXCEPT ![t] = v]
        /\ UNCHANGED <<pins, chip, data>>
    BY <1>0, <2>0, Assumptions DEF Command, Goto, TypeOK, Tasks
  <2>2. \A u \in Tasks : u # t => pc'[u] = "idle"
    BY <1>0, <2>0, <2>1 DEF TypeOK
  <2>3. TypeOK'
    BY <1>0, <2>0, <2>1 DEF TypeOK, Pc, pins, chip, data
  <2>4. \A k \in Bits : ~(k < NBits - 1 - i'[t])
    BY <1>0, <2>1 DEF Bits
  <2>5. ShiftedAbove(t)' /\ Latched(t)'
    BY <2>1, <2>4 DEF ShiftedAbove, Latched
  <2>6. \A u \in Tasks : ShiftedAbove(u)' /\ Latched(u)'
    BY <2>2, <2>5 DEF ShiftedAbove, Latched
  <2>7. clk' = 0 /\ stcp' = 0
    BY <1>0, <2>0, <2>1 DEF IInv, PinsLow, pins
  <2>8. QED
    BY <1>0, <2>1, <2>2, <2>3, <2>6, <2>7 DEF IInv, OneActive, PinsLow, AtRest, Settled
<1>4. CASE PowerLoss
  <2>1. /\ \A u \in Tasks : pc'[u] = IF u = Main THEN "boot" ELSE "idle"
        /\ pc'[Main] = "boot"
    BY <1>0, <1>4 DEF PowerLoss
  <2>2. TypeOK'
    BY <1>0, <1>4 DEF PowerLoss, TypeOK, Pc
  <2>3. QED
    BY <1>0, <2>1, <2>2 DEF IInv, OneActive, PinsLow, AtRest, Settled, ShiftedAbove, Latched
<1>5. QED
  BY <1>1, <1>2, <1>3, <1>4

LEMMA Initially == Init => IInv
<1> SUFFICES ASSUME Init PROVE IInv
  OBVIOUS
<1>1. NBits \in Nat \ {0} /\ Main \in Tasks
  BY Assumptions DEF Tasks
<1>2. TypeOK
  BY <1>1 DEF Init, TypeOK, Zero, Bytes, Bits, Pc
<1>3. /\ \A u \in Tasks : pc[u] = IF u = Main THEN "boot" ELSE "idle"
      /\ pc[Main] = "boot"
  BY <1>1 DEF Init
<1>4. QED
  BY <1>1, <1>2, <1>3 DEF IInv, OneActive, PinsLow, AtRest, Settled, ShiftedAbove, Latched

LEMMA Inductive == IInv /\ [SerialNext]_vars => IInv'
<1> SUFFICES ASSUME IInv, [SerialNext]_vars PROVE IInv'
  OBVIOUS
<1>1. CASE UNCHANGED vars
  BY <1>1 DEF vars, pins, chip, data, IInv, TypeOK, OneActive, PinsLow, AtRest, Settled, ShiftedAbove, Latched
<1>2. CASE SerialNext
  BY <1>2, UpdateInductive, OthersInductive DEF SerialNext, Running, Boot
<1>3. QED
  BY <1>1, <1>2

\* The inductive invariant holds of every device that takes one command at a time.
THEOREM Relays == SerialSpec => []IInv
  BY Initially, Inductive, PTL DEF SerialSpec

-----------------------------------------------------------------------------
\* Every variable of the actuator keeps its type, the loop index its range.
THEOREM TypeCorrect == SerialSpec => []TypeOK
<1>1. IInv => TypeOK
  BY DEF IInv
<1>2. QED
  BY <1>1, Relays, PTL

\* At rest the relays show config.switch_values, bit for bit, for a register
\* of any width (actuator_update, actuator_setup).
THEOREM RelaysShowValue == SerialSpec => []RelaysFollow
<1>1. IInv => RelaysFollow
  BY DEF IInv, AtRest, RelaysFollow
<1>2. QED
  BY <1>1, Relays, PTL

\* At rest the clients know what the relays show (the broadcast of actuator_update).
THEOREM ClientsKnowRelays == SerialSpec => []ClientsFollow
<1>1. IInv => ClientsFollow
  BY DEF IInv, AtRest, ClientsFollow
<1>2. QED
  BY <1>1, Relays, PTL

\* A relay line changes only by the latch, to a whole value that was asked for.
LEMMA WholeStep == IInv /\ [SerialNext]_vars =>
    [latch' # latch => PowerLoss \/ \E t \in Tasks : pc[t] = "stcp1" /\ latch' = Inverted(val[t])]_vars
<1> SUFFICES ASSUME IInv, SerialNext, latch' # latch, ~PowerLoss
             PROVE  \E t \in Tasks : pc[t] = "stcp1" /\ latch' = Inverted(val[t])
  OBVIOUS
<1>1. ~Boot /\ ~OneByOne
  BY DEF Boot, LoadValue, SetupPins, OneByOne, Command, chip
<1>2. PICK t \in Tasks : Update(t)
  BY <1>1 DEF SerialNext, Running
<1>3. LatchUp(t) \/ LatchDown(t)
  BY <1>2 DEF Update, SetData, ClockUp, ClockDown, StoreValue, SaveConfig, CastValue, chip
<1>4. LatchUp(t)
  BY <1>3 DEF LatchDown, SetLatch
<1>5. pc[t] = "stcp1" /\ latch' = reg
  BY <1>4 DEF LatchUp, SetLatch, Goto
<1>6. QED
  BY <1>5 DEF IInv, Latched

THEOREM OnlyWholeValues == SerialSpec => OnlyWhole
  BY WholeStep, Relays, PTL DEF SerialSpec, OnlyWhole

=============================================================================
