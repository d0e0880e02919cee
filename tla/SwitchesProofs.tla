----------------------------- MODULE SwitchesProofs -----------------------------
(***************************************************************************)
(* Proofs about Switches, for any number of clients, switches, changes and *)
(* lost connections.                                                       *)
(*                                                                         *)
(* Whatever was told to a client or is on its way to one carries the       *)
(* number of the update that made it.  What is newest is the value of the  *)
(* device (Newest); so a click computed from it toggles one bit.           *)
(***************************************************************************)
EXTENDS Switches, TLAPS

\* A value told, or about to be: not from the future, and right if newest.
IsTrue(v, n) == n <= ver /\ (n = ver => v = val)

NewestCasts == \A m \in casts : IsTrue(m.val, m.ver)
NewestCopy  == \A c \in Clients : conn[c] = "copied" => IsTrue(copy[c].val, copy[c].ver)
NewestDown  == \A c \in Clients : \A k \in 1..Len(down[c]) : IsTrue(down[c][k].val, down[c][k].ver)
NewestView  == \A c \in Clients : IsTrue(view[c], seen[c])
NewestUp    == \A c \in Clients : \A k \in 1..Len(up[c]) :
                   /\ up[c][k].seen <= ver
                   /\ up[c][k].seen = ver => up[c][k].val = Toggled(val, up[c][k].bit)

Newest == NewestCasts /\ NewestCopy /\ NewestDown /\ NewestView /\ NewestUp

IInv == TypeOK /\ Newest

-----------------------------------------------------------------------------
LEMMA ToggledByte ==
    ASSUME NEW v \in Byte, NEW i \in Switch
    PROVE  Toggled(v, i) \in Byte
BY DEF Toggled, Byte

LEMMA TypeInit == Init => TypeOK
<1> SUFFICES ASSUME Init PROVE TypeOK
  OBVIOUS
<1>1. {} \in Byte /\ val \in Byte
  BY Assumptions DEF Init, Byte
<1>2. [val |-> {}, ver |-> 0] \in Told
  BY <1>1 DEF Told
<1>3. up \in [Clients -> Seq(Asked)] /\ down \in [Clients -> Seq(Told)]
  BY DEF Init
<1>4. copy \in [Clients -> Told] /\ view \in [Clients -> Byte]
  BY <1>1, <1>2 DEF Init
<1>5. casts \subseteq Built /\ late \subseteq Clients /\ missed \subseteq Clients
  BY DEF Init
<1>6. conn \in [Clients -> {"none", "opened", "copied", "open"}]
  BY DEF Init
<1>7. nth \in [Clients -> Nat] /\ seen \in [Clients -> Int]
  BY DEF Init
<1>8. ver \in Nat /\ changes \in Nat /\ drops \in Nat /\ overlap \in BOOLEAN
  BY DEF Init
<1> QED
  BY <1>1, <1>3, <1>4, <1>5, <1>6, <1>7, <1>8 DEF TypeOK

LEMMA TypeUpdate ==
    ASSUME TypeOK, NEW t \in Thread, NEW v \in Byte, Update(t, v)
    PROVE  /\ val' \in Byte /\ ver' \in Nat /\ overlap' \in BOOLEAN
           /\ casts' \subseteq Built
BY DEF TypeOK, Update, Built

LEMMA SelfIsThread ==
    ASSUME TypeOK, NEW c \in Clients
    PROVE  Self(c) \in Thread
BY DEF TypeOK, Self, Thread

LEMMA TypeNext == TypeOK /\ [Next]_vars => TypeOK'
<1> SUFFICES ASSUME TypeOK, [Next]_vars PROVE TypeOK'
  OBVIOUS
<1> USE DEF devVars, connVars, viewVars
<1>1. ASSUME NEW c \in Clients, Show(c) PROVE TypeOK'
  <2>1. Head(down[c]) \in Told /\ Tail(down[c]) \in Seq(Told)
    BY <1>1 DEF TypeOK, Show
  <2>2. view' \in [Clients -> Byte] /\ seen' \in [Clients -> Int]
    BY <1>1, <2>1 DEF TypeOK, Show, Told
  <2>3. down' \in [Clients -> Seq(Told)]
    BY <1>1, <2>1 DEF TypeOK, Show
  <2> QED
    BY <1>1, <2>2, <2>3 DEF TypeOK, Show
<1>2. ASSUME NEW c \in Clients, Connect(c) PROVE TypeOK'
  BY <1>2 DEF TypeOK, Connect
<1>3. ASSUME NEW c \in Clients, Drop(c) PROVE TypeOK'
  BY <1>3 DEF TypeOK, Drop
<1>4. ASSUME NEW c \in Clients, CopyConfig(c) PROVE TypeOK'
  BY <1>4 DEF TypeOK, CopyConfig, Told
<1>5. ASSUME NEW c \in Clients, SendConfig(c) PROVE TypeOK'
  <2>1. down' \in [Clients -> Seq(Told)]
    <3>1. CASE down' = down
      BY <3>1 DEF TypeOK
    <3>2. CASE down' = [down EXCEPT ![c] = Append(@, copy[c])]
      BY <3>2 DEF TypeOK
    <3> QED
      BY <1>5, <3>1, <3>2 DEF SendConfig
  <2>2. missed' \subseteq Clients
    BY <1>5 DEF TypeOK, SendConfig
  <2> QED
    BY <1>5, <2>1, <2>2 DEF TypeOK, SendConfig
<1>6. ASSUME NEW c \in Clients, Apply(c) PROVE TypeOK'
  <2>0. Head(up[c]) \in Asked /\ Tail(up[c]) \in Seq(Asked)
    BY <1>6 DEF TypeOK, Apply
  <2>1. Head(up[c]).val \in Byte
    BY <2>0 DEF Asked
  <2>2. Update(Self(c), Head(up[c]).val)
    BY <1>6 DEF Apply
  <2>3. /\ val' \in Byte /\ ver' \in Nat /\ overlap' \in BOOLEAN
        /\ casts' \subseteq Built
    BY <2>1, <2>2, TypeUpdate, SelfIsThread
  <2> QED
    BY <1>6, <2>0, <2>3 DEF TypeOK, Apply
<1>7. ASSUME NEW c \in Clients, Rename(c) PROVE TypeOK'
  BY <1>7, SelfIsThread DEF TypeOK, Rename, Built
<1>8. ASSUME NEW c \in Clients, NEW i \in Switch, Click(c, i) PROVE TypeOK'
  <2>1. [val |-> Toggled(view[c], i), bit |-> i, seen |-> seen[c]]
            \in Asked
    BY ToggledByte DEF TypeOK, Asked
  <2> QED
    BY <1>8, <2>1 DEF TypeOK, Click
<1>9. ASSUME NEW v \in Byte, Command(v) PROVE TypeOK'
  <2>1. <<Terminal, 0>> \in Thread
    BY DEF Thread
  <2>2. /\ val' \in Byte /\ ver' \in Nat /\ overlap' \in BOOLEAN
        /\ casts' \subseteq Built
    BY <1>9, <2>1, TypeUpdate DEF Command
  <2> QED
    BY <1>9, <2>2 DEF TypeOK, Command
<1>10. ASSUME NEW m \in casts, Cast(m) PROVE TypeOK'
  <2>1. [val |-> m.val, ver |-> m.ver] \in Told
    BY DEF TypeOK, Told, Built
  <2>2. down' \in [Clients -> Seq(Told)]
    BY <1>10, <2>1 DEF TypeOK, Cast, Reach
  <2>3. missed' \subseteq Clients /\ late' \subseteq Clients
    BY <1>10 DEF Cast, Reach
  <2> QED
    BY <1>10, <2>2, <2>3 DEF TypeOK, Cast
<1>11. CASE UNCHANGED vars
  BY <1>11 DEF TypeOK, vars
<1> QED
  BY <1>1, <1>2, <1>3, <1>4, <1>5, <1>6, <1>7, <1>8, <1>9, <1>10, <1>11 DEF Next, Device

\* The variables keep their types.
THEOREM TypeCorrect == Spec => []TypeOK
<1>1. Init => TypeOK
  BY TypeInit
<1>2. TypeOK /\ [Next]_vars => TypeOK'
  BY TypeNext
<1> QED
  BY <1>1, <1>2, PTL DEF Spec

-----------------------------------------------------------------------------
\* An update makes everything told before it old.
LEMMA NewestUpdate ==
    ASSUME IInv, NEW t \in Thread, NEW v \in Byte, Update(t, v),
           UNCHANGED <<connVars, down, viewVars>>,
           \A c \in Clients : \A k \in 1..Len(up'[c]) : \E j \in 1..Len(up[c]) : up'[c][k] = up[c][j]
    PROVE  Newest'
<1> USE DEF IInv, Newest, connVars, viewVars
<1>1. ver \in Nat /\ ver' = ver + 1 /\ val' = v
  BY DEF TypeOK, Update
<1>2. NewestCasts'
  <2> SUFFICES ASSUME NEW m \in casts' PROVE IsTrue(m.val, m.ver)'
    BY DEF NewestCasts
  <2>1. CASE m \in casts
    BY <1>1, <2>1 DEF NewestCasts, IsTrue, TypeOK, Built
  <2>2. CASE m = [val |-> v, ver |-> ver + 1, by |-> t]
    BY <1>1, <2>2 DEF IsTrue
  <2> QED
    BY <2>1, <2>2 DEF Update
<1>3. NewestCopy'
  BY <1>1 DEF NewestCopy, IsTrue, TypeOK, Told
<1>4. NewestDown'
  <2> SUFFICES ASSUME NEW c \in Clients, NEW k \in 1..Len(down[c])
               PROVE  IsTrue(down[c][k].val, down[c][k].ver)'
    BY DEF NewestDown
  <2>1. down[c][k] \in Told
    BY DEF TypeOK
  <2>2. down[c][k].ver \in Nat /\ down[c][k].ver <= ver
    BY <2>1 DEF NewestDown, IsTrue, Told
  <2> QED
    BY <1>1, <2>2 DEF IsTrue
<1>5. NewestView'
  BY <1>1 DEF NewestView, IsTrue, TypeOK
<1>6. NewestUp'
  <2> SUFFICES ASSUME NEW c \in Clients, NEW k \in 1..Len(up'[c])
               PROVE  up'[c][k].seen < ver' /\ up'[c][k].seen \in Int
    BY <1>1 DEF NewestUp
  <2>1. PICK j \in 1..Len(up[c]) : up'[c][k] = up[c][j]
    OBVIOUS
  <2>2. up[c][j] \in Asked
    BY DEF TypeOK
  <2>3. up[c][j].seen <= ver /\ up[c][j].seen \in Int
    BY <2>2 DEF NewestUp, Asked
  <2> QED
    BY <1>1, <2>1, <2>3
<1> QED
  BY <1>2, <1>3, <1>4, <1>5, <1>6

LEMMA NewestInit == Init => Newest
BY DEF Init, Newest, NewestCasts, NewestCopy, NewestDown, NewestView, NewestUp, IsTrue

LEMMA NewestNext == IInv /\ [Next]_vars => Newest'
<1> SUFFICES ASSUME IInv, [Next]_vars PROVE Newest'
  OBVIOUS
<1> USE DEF devVars, connVars, viewVars
<1>0. TypeOK /\ NewestCasts /\ NewestCopy /\ NewestDown /\ NewestView /\ NewestUp /\ ver \in Nat
  BY DEF IInv, Newest, TypeOK
<1>1. ASSUME NEW c \in Clients, Show(c) PROVE Newest'
  <2>1. Head(down[c]) = down[c][1] /\ 1 \in 1..Len(down[c])
    BY <1>0, <1>1 DEF TypeOK, Show
  <2>2. NewestView'
    BY <1>0, <1>1, <2>1 DEF TypeOK, Show, NewestView, NewestDown, IsTrue
  <2>3. ASSUME NEW k \in 1..Len(Tail(down[c]))
        PROVE  Tail(down[c])[k] = down[c][k + 1] /\ k + 1 \in 1..Len(down[c])
    BY <1>0, <1>1 DEF TypeOK, Show
  <2>4. NewestDown'
    BY <1>0, <1>1, <2>3 DEF TypeOK, Show, NewestDown, IsTrue
  <2> QED
    BY <1>0, <1>1, <2>2, <2>4 DEF Show, Newest, NewestCasts, NewestCopy, NewestUp, IsTrue
<1>2. ASSUME NEW c \in Clients, Connect(c) PROVE Newest'
  BY <1>0, <1>2 DEF TypeOK, Connect, Newest, NewestCasts, NewestCopy, NewestDown, NewestView, NewestUp, IsTrue
<1>3. ASSUME NEW c \in Clients, Drop(c) PROVE Newest'
  BY <1>0, <1>3 DEF TypeOK, Drop, Newest, NewestCasts, NewestCopy, NewestDown, NewestView, NewestUp, IsTrue
<1>4. ASSUME NEW c \in Clients, CopyConfig(c) PROVE Newest'
  BY <1>0, <1>4 DEF TypeOK, CopyConfig, Newest, NewestCasts, NewestCopy, NewestDown, NewestView, NewestUp, IsTrue
<1>5. ASSUME NEW c \in Clients, SendConfig(c) PROVE Newest'
  <2>1. IsTrue(copy[c].val, copy[c].ver)
    BY <1>0, <1>5 DEF SendConfig, NewestCopy
  <2>2. NewestDown'
    <3>1. CASE down' = down
      BY <1>0, <1>5, <3>1 DEF SendConfig, NewestDown, IsTrue
    <3>2. CASE down' = [down EXCEPT ![c] = Append(@, copy[c])]
      BY <1>0, <1>5, <2>1, <3>2 DEF TypeOK, SendConfig, NewestDown, IsTrue
    <3> QED
      BY <1>5, <3>1, <3>2 DEF SendConfig
  <2> QED
    BY <1>0, <1>5, <2>2 DEF TypeOK, SendConfig, Newest, NewestCasts, NewestCopy, NewestView, NewestUp, IsTrue
<1>6. ASSUME NEW c \in Clients, Apply(c) PROVE Newest'
  <2>0. Head(up[c]) \in Asked
    BY <1>0, <1>6 DEF TypeOK, Apply
  <2>1. Head(up[c]).val \in Byte /\ Update(Self(c), Head(up[c]).val) /\ Self(c) \in Thread
    BY <1>0, <1>6, <2>0, SelfIsThread DEF Asked, Apply
  <2>2. ASSUME NEW d \in Clients, NEW k \in 1..Len(up'[d])
        PROVE  \E j \in 1..Len(up[d]) : up'[d][k] = up[d][j]
    <3>1. CASE d = c
      <4>1. up'[d] = Tail(up[d])
        BY <1>0, <1>6, <3>1 DEF TypeOK, Apply
      <4>2. k + 1 \in 1..Len(up[d]) /\ up'[d][k] = up[d][k + 1]
        BY <1>0, <1>6, <3>1, <4>1 DEF TypeOK, Apply
      <4> QED
        BY <4>2
    <3>2. CASE d # c
      BY <1>0, <1>6, <3>2 DEF TypeOK, Apply
    <3> QED
      BY <3>1, <3>2
  <2>3. UNCHANGED <<connVars, down, viewVars>>
    BY <1>6 DEF Apply
  <2> QED
    BY <2>1, <2>2, <2>3, NewestUpdate
<1>7. ASSUME NEW c \in Clients, Rename(c) PROVE Newest'
  BY <1>0, <1>7, SMTT(30) DEF TypeOK, Rename, Newest, NewestCasts, NewestCopy, NewestDown, NewestView, NewestUp, IsTrue
<1>8. ASSUME NEW c \in Clients, NEW i \in Switch, Click(c, i) PROVE Newest'
  <2>1. NewestUp'
    BY <1>0, <1>8 DEF TypeOK, Click, NewestUp, NewestView, IsTrue
  <2> QED
    BY <1>0, <1>8, <2>1 DEF TypeOK, Click, Newest, NewestCasts, NewestCopy, NewestDown, NewestView, IsTrue
<1>9. ASSUME NEW v \in Byte, Command(v) PROVE Newest'
  <2>1. <<Terminal, 0>> \in Thread
    BY DEF Thread
  <2> QED
    BY <1>9, <2>1, NewestUpdate DEF Command
<1>10. ASSUME NEW m \in casts, Cast(m) PROVE Newest'
  <2>0. ASSUME NEW c \in Clients, NEW k \in 1..Len(down'[c])
        PROVE  \/ k \in 1..Len(down[c]) /\ down'[c][k] = down[c][k]
               \/ down'[c][k] = [val |-> m.val, ver |-> m.ver]
    <3>1. down[c] \in Seq(Told)
      BY <1>0 DEF TypeOK
    <3>2. down'[c] \in {down[c], Append(down[c], [val |-> m.val, ver |-> m.ver])}
      BY <1>10 DEF Cast, Reach
    <3> QED
      BY <3>1, <3>2
  <2>1. NewestDown'
    BY <1>0, <1>10, <2>0 DEF Cast, NewestDown, NewestCasts, IsTrue
  <2> QED
    BY <1>0, <1>10, <2>1 DEF TypeOK, Cast, Newest, NewestCasts, NewestCopy, NewestView, NewestUp, IsTrue
<1>11. CASE UNCHANGED vars
  BY <1>0, <1>11 DEF vars, Newest, NewestCasts, NewestCopy, NewestDown, NewestView, NewestUp, IsTrue
<1> QED
  BY <1>1, <1>2, <1>3, <1>4, <1>5, <1>6, <1>7, <1>8, <1>9, <1>10, <1>11 DEF Next, Device

\* Nothing that was told to a client, or is on its way, is both as new as the
\* value of the device and different from it.
THEOREM ToldIsTrue == Spec => []IInv
<1>1. Init => IInv
  BY TypeInit, NewestInit DEF IInv
<1>2. IInv /\ [Next]_vars => IInv'
  BY TypeNext, NewestNext DEF IInv
<1> QED
  BY <1>1, <1>2, PTL DEF Spec

\* A click of a client that had been told the newest value changes one switch.
THEOREM OneClickOneSwitch == Spec => ClickIsOne
<1> DEFINE OneBit == \A c \in Clients : Apply(c) /\ Head(up[c]).seen = ver =>
                         val' = Toggled(val, Head(up[c]).bit)
<1>1. IInv => OneBit
  <2> SUFFICES ASSUME IInv, NEW c \in Clients, Apply(c), Head(up[c]).seen = ver
               PROVE  val' = Toggled(val, Head(up[c]).bit)
    OBVIOUS
  <2>1. Head(up[c]) = up[c][1] /\ 1 \in 1..Len(up[c])
    BY DEF IInv, TypeOK, Apply
  <2>2. up[c][1].val = Toggled(val, up[c][1].bit)
    BY <2>1 DEF IInv, Newest, NewestUp
  <2> QED
    BY <2>1, <2>2 DEF Apply, Update
<1>2. IInv /\ [Next]_vars => [OneBit]_vars
  BY <1>1
<1> QED
  BY <1>2, ToldIsTrue, PTL DEF Spec, ClickIsOne

-----------------------------------------------------------------------------
(* While no two threads overlap, what is pending is the newest value, and a *)
(* client that missed nothing, and for which no broadcast came too early,   *)
(* was last sent the newest one or is meant by the pending broadcast.       *)

LastTold(c) == IF down[c] = <<>> THEN seen[c] ELSE down[c][Len(down[c])].ver

PendingNew == \A m \in casts : m.ver = ver
CopiedNew  == \A c \in Clients : conn[c] = "copied" /\ c \notin late => copy[c].ver = ver \/ casts # {}
OpenNew    == \A c \in Clients : conn[c] = "open" /\ c \notin late \union missed => LastTold(c) = ver \/ casts # {}
Serial     == ~overlap => PendingNew /\ CopiedNew /\ OpenNew

LEMMA TailLast ==
    ASSUME NEW S, NEW s \in Seq(S), Len(s) > 1
    PROVE  Tail(s) # <<>> /\ Tail(s)[Len(Tail(s))] = s[Len(s)]
<1>1. PICK n \in Nat : n = Len(s)
  OBVIOUS
<1>2. Len(Tail(s)) = n - 1 /\ n - 1 \in 1..(n - 1)
  BY <1>1
<1>3. \A i \in 1..(n - 1) : Tail(s)[i] = s[i + 1]
  BY <1>1
<1>4. Tail(s)[n - 1] = s[n]
  BY <1>2, <1>3
<1> QED
  BY <1>1, <1>2, <1>4

LEMMA SerialInit == Init => Serial
BY DEF Init, Serial, PendingNew, CopiedNew, OpenNew

LEMMA SerialUpdate ==
    ASSUME NEW t \in Thread, NEW v \in Byte, Update(t, v)
    PROVE  Serial'
<1> SUFFICES ASSUME ~overlap' PROVE (PendingNew /\ CopiedNew /\ OpenNew)'
  BY DEF Serial
<1>1. casts = {}
  BY DEF Update
<1>2. casts' = {[val |-> v, ver |-> ver + 1, by |-> t]} /\ ver' = ver + 1
  BY <1>1 DEF Update
<1>3. casts' # {} /\ \A m \in casts' : m.ver = ver'
  BY <1>2
<1> QED
  BY <1>3 DEF PendingNew, CopiedNew, OpenNew

LEMMA SerialNext == IInv /\ Serial /\ [Next]_vars => Serial'
<1> SUFFICES ASSUME IInv, Serial, [Next]_vars, ~overlap' PROVE (PendingNew /\ CopiedNew /\ OpenNew)'
  BY DEF Serial
<1> USE DEF devVars, connVars, viewVars
<1>0. TypeOK /\ ver \in Nat
  BY DEF IInv, TypeOK
<1>1. ASSUME NEW c \in Clients, Show(c) PROVE (PendingNew /\ CopiedNew /\ OpenNew)'
  <2>1. down[c] \in Seq(Told) /\ down[c] # <<>> /\ ~overlap
    BY <1>0, <1>1 DEF TypeOK, Show
  <2>2. LastTold(c)' = LastTold(c)
    <3>1. down'[c] = Tail(down[c]) /\ seen'[c] = down[c][1].ver
      BY <1>0, <1>1, <2>1 DEF TypeOK, Show
    <3>2. CASE Len(down[c]) = 1
      BY <2>1, <3>1, <3>2 DEF LastTold
    <3>3. CASE Len(down[c]) > 1
      <4>1. Tail(down[c]) # <<>> /\ Tail(down[c])[Len(Tail(down[c]))] = down[c][Len(down[c])]
        BY <2>1, <3>3, TailLast
      <4> QED
        BY <2>1, <3>1, <4>1 DEF LastTold
    <3>4. Len(down[c]) \in Nat /\ Len(down[c]) # 0
      BY <2>1
    <3>5. \A n \in Nat : n # 0 => n = 1 \/ n > 1
      OBVIOUS
    <3> QED
      BY <3>2, <3>3, <3>4, <3>5
  <2>3. \A d \in Clients : LastTold(d)' = LastTold(d)
    BY <1>0, <1>1, <2>2 DEF TypeOK, Show, LastTold
  <2> QED
    BY <1>1, <2>1, <2>3 DEF Show, Serial, PendingNew, CopiedNew, OpenNew
<1>2. ASSUME NEW c \in Clients, Connect(c) PROVE (PendingNew /\ CopiedNew /\ OpenNew)'
  BY <1>0, <1>2 DEF TypeOK, Connect, Serial, PendingNew, CopiedNew, OpenNew, LastTold
<1>3. ASSUME NEW c \in Clients, Drop(c) PROVE (PendingNew /\ CopiedNew /\ OpenNew)'
  BY <1>0, <1>3 DEF TypeOK, Drop, Serial, PendingNew, CopiedNew, OpenNew, LastTold
<1>4. ASSUME NEW c \in Clients, CopyConfig(c) PROVE (PendingNew /\ CopiedNew /\ OpenNew)'
  BY <1>0, <1>4 DEF TypeOK, CopyConfig, Serial, PendingNew, CopiedNew, OpenNew, LastTold
<1>5. ASSUME NEW c \in Clients, SendConfig(c) PROVE (PendingNew /\ CopiedNew /\ OpenNew)'
  <2>1. conn[c] = "copied" /\ down[c] \in Seq(Told)
    BY <1>0, <1>5 DEF TypeOK, SendConfig
  <2>2. c \in missed' \/ LastTold(c)' = copy[c].ver
    <3>1. CASE down' = [down EXCEPT ![c] = Append(@, copy[c])]
      <4>1. down'[c] = Append(down[c], copy[c])
        BY <1>0, <3>1 DEF TypeOK
      <4> QED
        BY <2>1, <4>1 DEF LastTold
    <3> QED
      BY <1>5, <3>1 DEF SendConfig
  <2>3. OpenNew'
    BY <1>0, <1>5, <2>1, <2>2 DEF TypeOK, SendConfig, Serial, OpenNew, CopiedNew, LastTold
  <2> QED
    BY <1>0, <1>5, <2>3 DEF TypeOK, SendConfig, Serial, PendingNew, CopiedNew
<1>6. ASSUME NEW c \in Clients, Apply(c) PROVE (PendingNew /\ CopiedNew /\ OpenNew)'
  <2>0. Head(up[c]) \in Asked
    BY <1>0, <1>6 DEF TypeOK, Apply
  <2>1. Head(up[c]).val \in Byte /\ Update(Self(c), Head(up[c]).val) /\ Self(c) \in Thread
    BY <1>0, <1>6, <2>0, SelfIsThread DEF Asked, Apply
  <2> QED
    BY <2>1, SerialUpdate DEF Serial
<1>7. ASSUME NEW c \in Clients, Rename(c) PROVE (PendingNew /\ CopiedNew /\ OpenNew)'
  <2>1. casts = {}
    BY <1>7 DEF Rename
  <2>2. casts' = {[val |-> val, ver |-> ver, by |-> Self(c)]} /\ ver' = ver
    BY <1>7, <2>1 DEF Rename
  <2>3. casts' # {} /\ \A m \in casts' : m.ver = ver'
    BY <2>2
  <2> QED
    BY <2>3 DEF PendingNew, CopiedNew, OpenNew
<1>8. ASSUME NEW c \in Clients, NEW i \in Switch, Click(c, i) PROVE (PendingNew /\ CopiedNew /\ OpenNew)'
  BY <1>0, <1>8 DEF Click, Serial, PendingNew, CopiedNew, OpenNew, LastTold
<1>9. ASSUME NEW v \in Byte, Command(v) PROVE (PendingNew /\ CopiedNew /\ OpenNew)'
  <2>1. <<Terminal, 0>> \in Thread
    BY DEF Thread
  <2> QED
    BY <1>9, <2>1, SerialUpdate DEF Command, Serial
<1>10. ASSUME NEW m \in casts, Cast(m) PROVE (PendingNew /\ CopiedNew /\ OpenNew)'
  <2>1. ~overlap /\ m.ver = ver /\ ver' = ver
    BY <1>10 DEF Cast, Serial, PendingNew
  <2>2. OpenNew'
    <3> SUFFICES ASSUME NEW c \in Clients, conn[c] = "open", c \notin missed' PROVE LastTold(c)' = ver
      BY <1>10, <2>1 DEF Cast, OpenNew
    <3>1. down'[c] = Append(down[c], [val |-> m.val, ver |-> ver]) /\ down[c] \in Seq(Told)
      BY <1>0, <1>10, <2>1 DEF TypeOK, Cast, Reach
    <3> QED
      BY <3>1 DEF LastTold
  <2> QED
    BY <1>10, <2>1, <2>2 DEF Cast, Reach, Serial, PendingNew, CopiedNew
<1>11. CASE UNCHANGED vars
  BY <1>11 DEF vars, Serial, PendingNew, CopiedNew, OpenNew, LastTold
<1> QED
  BY <1>1, <1>2, <1>3, <1>4, <1>5, <1>6, <1>7, <1>8, <1>9, <1>10, <1>11 DEF Next, Device

\* When everything sent has arrived, clients show what the device has, unless
\* a send failed before them, a broadcast overtook their first configuration, or
\* threads overlapped at the last change.
THEOREM ViewsAgree == Spec => []ViewTrue
<1>1. Init => Serial
  BY SerialInit
<1>2. IInv /\ Serial /\ [Next]_vars => Serial'
  BY SerialNext
<1>3. IInv /\ Serial => ViewTrue
  BY DEF IInv, Newest, NewestView, IsTrue, Serial, OpenNew, LastTold, ViewTrue, Quiet
<1> QED
  BY <1>1, <1>2, <1>3, ToldIsTrue, PTL DEF Spec

=============================================================================
