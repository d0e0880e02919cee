------------------------------ MODULE Actuator ------------------------------
(***************************************************************************)
(* The relays of main/actuator.c: a byte is shifted, bit by bit, into a    *)
(* 74HC595 register over three pins, latched to its outputs, stored in     *)
(* config.switch_values, saved and broadcast.  actuator_update runs in     *)
(* app_main at boot, then in whatever thread got a command (each           *)
(* connection thread of the web socket, the terminal), and takes no lock.  *)
(*                                                                         *)
(* A byte is the function from its bit numbers to {0, 1}; the register is  *)
(* external and is what the datasheet says: it shifts on the rising edge   *)
(* of the clock and shows what it holds on the rising edge of the latch.   *)
(***************************************************************************)
EXTENDS Integers

CONSTANTS
    NBits,    \* APP_SWITCH_COUNT
    Main,     \* the task of app_main
    Callers   \* the threads that may call actuator_update after boot

ASSUME Assumptions == NBits \in Nat \ {0} /\ Main \notin Callers

Tasks == Callers \union {Main}
Bits  == 0..(NBits - 1)
Bytes == [Bits -> {0, 1}]

\* The relay module is active low: a line at 0 is a relay that is on.
Inverted(v) == [k \in Bits |-> 1 - v[k]]

VARIABLES
    ds, clk, stcp,  \* the levels of the three pins
    reg, latch,     \* the 74HC595: its stages, its outputs
    ram, nvs,       \* config.switch_values, its saved copy
    seen,           \* the value last broadcast
    pc, val, i      \* each task: where it is, its argument, its loop index

pins == <<ds, clk, stcp>>
chip == <<reg, latch>>
data == <<ram, nvs, seen>>
vars == <<pins, chip, data, pc, val, i>>

Pc == {"boot", "setup", "ds", "clk1", "clk0", "stcp1", "stcp0", "store", "save", "cast", "idle"}

TypeOK ==
    /\ ds \in {0, 1} /\ clk \in {0, 1} /\ stcp \in {0, 1}
    /\ reg \in Bytes /\ latch \in Bytes
    /\ ram \in Bytes /\ nvs \in Bytes /\ seen \in Bytes
    /\ pc \in [Tasks -> Pc]
    /\ val \in [Tasks -> Bytes]
    /\ i \in [Tasks -> Bits]

Zero == [k \in Bits |-> 0]

\* Pins, register and outputs hold anything when the power comes.
Init ==
    /\ ds \in {0, 1} /\ clk \in {0, 1} /\ stcp \in {0, 1}
    /\ reg \in Bytes /\ latch \in Bytes
    /\ ram = Zero /\ nvs \in Bytes /\ seen = Zero
    /\ pc = [t \in Tasks |-> IF t = Main THEN "boot" ELSE "idle"]
    /\ val = [t \in Tasks |-> Zero]
    /\ i = [t \in Tasks |-> 0]

Goto(t, from, to) == pc[t] = from /\ pc' = [pc EXCEPT ![t] = to]

-----------------------------------------------------------------------------
(* The register: what a level set on a pin does.                            *)

ShiftedIn == [k \in Bits |-> IF k = 0 THEN ds ELSE reg[k - 1]]

SetClock(level) ==
    /\ clk' = level
    /\ reg' = IF clk = 0 /\ level = 1 THEN ShiftedIn ELSE reg

SetLatch(level) ==
    /\ stcp' = level
    /\ latch' = IF stcp = 0 /\ level = 1 THEN reg ELSE latch

-----------------------------------------------------------------------------
(* Boot: config_load, then actuator_setup with the saved value.             *)

LoadValue ==
    /\ Goto(Main, "boot", "setup")
    /\ ram' = nvs
    /\ UNCHANGED <<pins, chip, nvs, seen, val, i>>

\* Slip: the pins are left as the reset of the chip had them.
SetupPins_NotSet ==
    /\ Goto(Main, "setup", "ds")
    /\ val' = [val EXCEPT ![Main] = ram]
    /\ i' = [i EXCEPT ![Main] = NBits - 1]
    /\ UNCHANGED <<pins, chip, data>>

SetupPins ==
    /\ Goto(Main, "setup", "ds")
    /\ clk' = 0 /\ ds' = 0 /\ stcp' = 0
    /\ val' = [val EXCEPT ![Main] = ram]
    /\ i' = [i EXCEPT ![Main] = NBits - 1]
    /\ UNCHANGED <<chip, data>>

\* A thread gets an actuator message or command, once the device is up.
Command(t, v) ==
    /\ pc[Main] = "idle"
    /\ Goto(t, "idle", "ds")
    /\ val' = [val EXCEPT ![t] = v]
    /\ i' = [i EXCEPT ![t] = NBits - 1]
    /\ UNCHANGED <<pins, chip, data>>

-----------------------------------------------------------------------------
(* actuator_update, one call of gpio_set_level at a time.                   *)

SetData(t) ==
    /\ Goto(t, "ds", "clk1")
    /\ ds' = 1 - val[t][i[t]]
    /\ UNCHANGED <<clk, stcp, chip, data, val, i>>

ClockUp(t) ==
    /\ Goto(t, "clk1", "clk0")
    /\ SetClock(1)
    /\ UNCHANGED <<ds, stcp, latch, data, val, i>>

\* Slip: the loop ends before bit 0.
ClockDown_OffByOne(t) ==
    /\ SetClock(0)
    /\ IF i[t] > 1 THEN Goto(t, "clk0", "ds") /\ i' = [i EXCEPT ![t] = @ - 1]
                   ELSE Goto(t, "clk0", "stcp1") /\ UNCHANGED i
    /\ UNCHANGED <<ds, stcp, latch, data, val>>

ClockDown(t) ==
    /\ SetClock(0)
    /\ IF i[t] > 0 THEN Goto(t, "clk0", "ds") /\ i' = [i EXCEPT ![t] = @ - 1]
                   ELSE Goto(t, "clk0", "stcp1") /\ UNCHANGED i
    /\ UNCHANGED <<ds, stcp, latch, data, val>>

LatchUp(t) ==
    /\ Goto(t, "stcp1", "stcp0")
    /\ SetLatch(1)
    /\ UNCHANGED <<ds, clk, reg, data, val, i>>

LatchDown(t) ==
    /\ Goto(t, "stcp0", "store")
    /\ SetLatch(0)
    /\ UNCHANGED <<ds, clk, reg, data, val, i>>

StoreValue(t) ==
    /\ Goto(t, "store", "save")
    /\ ram' = val[t]
    /\ UNCHANGED <<pins, chip, nvs, seen, val, i>>

\* config_save writes the configuration of this moment; its result is not
\* looked at, and a failed one leaves the saved copy as it was.
SaveConfig(t) ==
    /\ Goto(t, "save", "cast")
    /\ nvs' \in {ram, nvs}
    /\ UNCHANGED <<pins, chip, ram, seen, val, i>>

\* Slip: what is broadcast is the saved value.
CastValue_Saved(t) ==
    /\ Goto(t, "cast", "idle")
    /\ seen' = nvs
    /\ val' = [val EXCEPT ![t] = Zero]
    /\ UNCHANGED <<pins, chip, ram, nvs, i>>

\* The argument is gone when the call returns.
CastValue(t) ==
    /\ Goto(t, "cast", "idle")
    /\ seen' = val[t]
    /\ val' = [val EXCEPT ![t] = Zero]
    /\ UNCHANGED <<pins, chip, ram, nvs, i>>

\* The power fails or the chip restarts: only the flash is kept.
PowerLoss ==
    /\ ds' \in {0, 1} /\ clk' \in {0, 1} /\ stcp' \in {0, 1}
    /\ reg' \in Bytes /\ latch' \in Bytes
    /\ ram' = Zero /\ seen' = Zero
    /\ pc' = [t \in Tasks |-> IF t = Main THEN "boot" ELSE "idle"]
    /\ val' = [t \in Tasks |-> Zero]
    /\ i' = [t \in Tasks |-> 0]
    /\ UNCHANGED nvs

-----------------------------------------------------------------------------
Update(t) ==
    \/ SetData(t) \/ ClockUp(t) \/ ClockDown(t) \/ LatchUp(t) \/ LatchDown(t)
    \/ StoreValue(t) \/ SaveConfig(t) \/ CastValue(t)

Boot == LoadValue \/ SetupPins
Running == Boot \/ \E t \in Tasks : Update(t)

Next == Running \/ PowerLoss \/ \E t \in Callers, v \in Bytes : Command(t, v)
Spec == Init /\ [][Next]_vars

\* One command at a time, as with one client and nobody at the terminal.
OneByOne == \E t \in Callers, v \in Bytes : Command(t, v) /\ \A u \in Tasks : pc[u] = "idle"
SerialNext == Running \/ PowerLoss \/ OneByOne
SerialSpec == Init /\ [][SerialNext]_vars

-----------------------------------------------------------------------------
Settled == \A t \in Tasks : pc[t] = "idle"

\* "Digital value in bits, 1: on, 0: off": when no update is running the
\* relays show config.switch_values, after a boot from the saved value too,
\* whatever register and pins held when the power came.
RelaysFollow == Settled => latch = Inverted(ram)

\* The relays never show a byte nobody asked for: their lines change only
\* all at once, from one whole value to another (the latch of the register
\* is raised once all the bits are in), unless the power fails.
OnlyWhole ==
    [][latch' # latch => PowerLoss \/ \E t \in Tasks : pc[t] = "stcp1" /\ latch' = Inverted(val[t])]_vars

\* When no update is running, the clients were last told what the relays
\* show, even if it could not be saved ("Broadcast to other client").
ClientsFollow == Settled => latch = Inverted(seen)

=============================================================================
