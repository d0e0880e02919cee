------------------------------ MODULE FramesProofs ------------------------------
(***************************************************************************)
(* Proofs about Frames, for every limit, every payload length that the     *)
(* width of the sizes can hold, and any number of frames.                  *)
(*                                                                         *)
(* The invariant says what the reader knows at each place (Place), what it *)
(* has of the message in hand (Fragments, Sizes) and that this comes after *)
(* all it handed over (Before).                                            *)
(***************************************************************************)
EXTENDS Frames, TLAPS

Alive   == pc \notin {"error", "stopped", "overrun"}
Pending == IF pc = "body" /\ Last.op \in DataOps THEN Last.len ELSE 0

Place ==
    /\ pc \in {"body", "pong", "pongid", "message", "close", "answer"} => Here >= 1
    /\ pc = "body" => /\ Last.op \in DataOps \union ControlOps
                      /\ Last.op = "cont" => first # 0 /\ first < Here
                      /\ Last.op \in {"txt", "bin"} => first = Here /\ size = 0
    /\ pc = "message" => first # 0 /\ Last.op \in DataOps /\ Last.fin
    /\ pc = "pong" => Last.op = "ping" /\ ctrl = [at |-> Here, size |-> Last.len]
    /\ pc \in {"close", "answer"} => Last.op = "close" /\ ctrl = [at |-> Here, size |-> Last.len]

Fragments ==
    first # 0 /\ Alive =>
        /\ stream[first].op \in {"txt", "bin"}
        /\ \A i \in first..Here : stream[i].op \in DataOps =>
               /\ i > first => stream[i].op = "cont"
               /\ stream[i].fin => i = Here /\ pc \in {"body", "message"}

Sizes ==
    Alive => /\ first = 0 => size = 0
             /\ first # 0 => size = Offset(Here) - Offset(first - 1) - Pending

Before == \A k \in 1..Len(delivered) :
    /\ 1 <= delivered[k].from /\ delivered[k].from <= delivered[k].to
    /\ delivered[k].to <= Here
    /\ first # 0 => delivered[k].to < first

PongsBefore == \A k \in Pongs :
    /\ 1 <= out[k].at /\ out[k].at <= Here
    /\ pc \in {"body", "pong"} => out[k].at < Here

IInv ==
    /\ TypeOK /\ Place /\ Fragments /\ Sizes /\ Before /\ PongsBefore
    /\ MessagesWhole /\ NothingSkipped /\ PingsAnswered /\ CloseIsLast /\ BuffersReturned

-----------------------------------------------------------------------------
(* Helpers.                                                                 *)

LEMMA Lengthy ==
    /\ \A n \in ControlLengths \union Lengths \union Codes : n \in Nat
    /\ \A n \in Ids : n \in Int
    /\ Word \in Nat /\ \A n \in Lengths : n < Word
BY Assumptions

LEMMA FrameFields ==
    ASSUME NEW f \in Frame
    PROVE  /\ f.op \in DataOps \union ControlOps \union {"rsv", "other"}
           /\ f.fin \in BOOLEAN /\ f.len \in Nat /\ f.val \in Int
           /\ f.op = "close" => f.val \in Nat
           /\ f.op \in DataOps => f.len < Word
<1> USE Lengthy DEF DataOps, ControlOps
<1>1. CASE f \in [op : DataOps, fin : BOOLEAN, len : Lengths, val : {0}]
  BY <1>1
<1>2. CASE f \in [op : {"ping"}, fin : BOOLEAN, len : ControlLengths, val : {0}]
  BY <1>2
<1>3. CASE f \in [op : {"pong"}, fin : BOOLEAN, len : ControlLengths \ {IdSize}, val : {0}]
  BY <1>3
<1>4. CASE f \in [op : {"pong"}, fin : BOOLEAN, len : ControlLengths \intersect {IdSize}, val : Ids]
  BY <1>4
<1>5. CASE f \in [op : {"close"}, fin : BOOLEAN, len : ControlLengths \intersect {0, 1}, val : {0}]
  BY <1>5
<1>6. CASE f \in [op : {"close"}, fin : BOOLEAN, len : ControlLengths \ {0, 1}, val : Codes]
  BY <1>6
<1>7. CASE f \in [op : {"rsv", "other"}, fin : BOOLEAN, len : {0}, val : {0}]
  BY <1>7
<1> QED
  BY <1>1, <1>2, <1>3, <1>4, <1>5, <1>6, <1>7 DEF Frame

LEMMA StreamTypes ==
    ASSUME TypeOK
    PROVE  /\ Here \in Nat /\ stream \in Seq(Frame) /\ bytes \in Seq(Nat) /\ Len(bytes) = Here
           /\ \A i \in 1..Here : stream[i] \in Frame /\ bytes[i] \in Nat
           /\ \A i \in 0..Here : Offset(i) \in Nat
           /\ first \in 0..Here /\ first \in Nat /\ size \in Nat
BY DEF TypeOK, Here, Offset

\* A header that was read: the history is longer by one and else the same.
LEMMA HeaderStream ==
    ASSUME TypeOK, NEW f \in Frame, ReadHeader(f)
    PROVE  /\ Here' = Here + 1
           /\ Last' = f /\ stream'[Here + 1] = f
           /\ \A i \in 1..Here : stream'[i] = stream[i]
           /\ \A i \in 0..Here : Offset(i)' = Offset(i)
           /\ Offset(Here)' = Offset(Here) + (IF f.op \in DataOps THEN f.len ELSE 0)
<1> USE StreamTypes
<1>1. stream' = Append(stream, f)
  BY DEF ReadHeader
<1>2. Here' = Here + 1
  BY <1>1 DEF Here
<1>3. stream'[Here + 1] = f /\ \A i \in 1..Here : stream'[i] = stream[i]
  BY <1>1 DEF Here
<1>4. bytes' = Append(bytes, Offset(Here) + (IF f.op \in DataOps THEN f.len ELSE 0))
  BY DEF ReadHeader
<1>5. \A i \in 1..Here : bytes'[i] = bytes[i]
  BY <1>4
<1>6. bytes'[Here + 1] = Offset(Here) + (IF f.op \in DataOps THEN f.len ELSE 0)
  BY <1>4
<1>7. Last' = f
  BY <1>2, <1>3 DEF Last
<1>8. \A i \in 0..Here : Offset(i)' = Offset(i)
  BY <1>5 DEF Offset
<1>9. Offset(Here)' = bytes'[Here + 1]
  BY <1>2 DEF Offset
<1> QED
  BY <1>2, <1>3, <1>6, <1>7, <1>8, <1>9

LEMMA SameStream ==
    ASSUME UNCHANGED inVars
    PROVE  /\ stream' = stream /\ Here' = Here /\ Last' = Last
           /\ \A i : Offset(i)' = Offset(i)
BY DEF inVars, Here, Last, Offset

-----------------------------------------------------------------------------
LEMMA TypeInit == Init => TypeOK
<1> SUFFICES ASSUME Init PROVE TypeOK
  OBVIOUS
<1>1. /\ stream \in Seq(Frame) /\ bytes \in Seq(Nat) /\ Len(bytes) = Here /\ Here = 0
      /\ delivered \in Seq(Handed) /\ out \in Seq(Written)
  BY DEF Init, Here
<1>2. ctrl \in Copied /\ first \in 0..Here
  BY <1>1 DEF Init, Copied
<1>3. pingId \in -1..(MaxPings - 1) /\ pongId \in Int /\ -1 <= pongId /\ pongId <= pingId
  BY Assumptions DEF Init
<1> QED
  BY <1>1, <1>2, <1>3 DEF Init, TypeOK, Pcs

LEMMA TypeNext == TypeOK /\ Place /\ Fragments /\ [Next]_vars => TypeOK'
<1> SUFFICES ASSUME TypeOK, Place, Fragments, [Next]_vars PROVE TypeOK'
  OBVIOUS
<1> USE DEF inVars, msgVars, pingVars, peerVars
<1>1. ASSUME NEW f \in Frame, ReadHeader(f) PROVE TypeOK'
  <2>1. stream' \in Seq(Frame) /\ Here' = Here + 1 /\ Here \in Nat
    BY <1>1, HeaderStream, StreamTypes DEF ReadHeader
  <2>2. bytes' \in Seq(Nat) /\ Len(bytes') = Here + 1
    <3> DEFINE n == Offset(Here) + (IF f.op \in DataOps THEN f.len ELSE 0)
    <3>1. n \in Nat
      BY StreamTypes, FrameFields
    <3>2. bytes' = Append(bytes, n)
      BY <1>1 DEF ReadHeader
    <3>3. bytes \in Seq(Nat) /\ Len(bytes) = Here /\ Here \in Nat
      BY StreamTypes
    <3> HIDE DEF n
    <3> QED
      BY <3>1, <3>2, <3>3
  <2>3. pc' \in Pcs /\ first' \in 0..(Here + 1)
    BY <1>1, StreamTypes DEF ReadHeader, Pcs
  <2> QED
    BY <1>1, <2>1, <2>2, <2>3 DEF TypeOK, ReadHeader
<1>2. ASSUME HeaderFails \/ BodyFails \/ Overrun \/ PongFails \/ CloseFails \/ Fail PROVE TypeOK'
  BY <1>2, SameStream DEF TypeOK, HeaderFails, BodyFails, Overrun, PongFails, CloseFails, Fail, Pcs
<1>3. CASE ReadData
  <2>1. Last \in Frame
    BY <1>3, StreamTypes DEF ReadData, Place, Last
  <2>2. size' \in Nat /\ held' \in BOOLEAN /\ pc' \in Pcs
    BY <1>3, <2>1, FrameFields, StreamTypes DEF ReadData, Total, Pcs, TypeOK, NeedsMemory
  <2> QED
    BY <1>3, <2>2, SameStream DEF TypeOK, ReadData
<1>4. ASSUME ReadPing \/ ReadPong \/ ReadClose PROVE TypeOK'
  <2>1. Last \in Frame
    BY <1>4, StreamTypes DEF ReadPing, ReadPong, ReadClose, Place, Last
  <2>2. ctrl' \in Copied
    BY <1>4, <2>1, FrameFields, StreamTypes DEF ReadPing, ReadPong, ReadClose, ToCtrl, Copied
  <2> QED
    BY <1>4, <2>2, SameStream DEF TypeOK, ReadPing, ReadPong, ReadClose, Pcs
<1>5. CASE SendPong
  <2>1. [op |-> "pong", at |-> ctrl.at, size |-> ctrl.size, code |-> 0] \in Written
    BY DEF TypeOK, Copied, Written
  <2>2. out' \in Seq(Written)
    BY <1>5, <2>1 DEF SendPong, TypeOK
  <2> QED
    BY <1>5, <2>2, SameStream DEF TypeOK, SendPong, Pcs
<1>6. CASE TakePong
  <2>1. Last \in Frame
    BY <1>6, StreamTypes DEF TakePong, Place, Last
  <2>2. pongId' \in Int /\ -1 <= pongId' /\ pongId' <= pingId
    BY <1>6, <2>1, FrameFields DEF TakePong, TypeOK
  <2> QED
    BY <1>6, <2>2, SameStream DEF TypeOK, TakePong, Pcs
<1>7. CASE Deliver
  <2>1. first \in 1..Here /\ stream[first] \in Frame
    BY <1>7, StreamTypes DEF Deliver, Place
  <2>2. stream[first].op \in DataOps
    BY <1>7, StreamTypes DEF Deliver, Place, Fragments, Alive, DataOps
  <2>3. [type |-> stream[first].op, from |-> first, to |-> Here, size |-> size] \in Handed
    BY <2>1, <2>2, StreamTypes DEF Handed
  <2>4. delivered' \in Seq(Handed)
    BY <1>7, <2>3 DEF TypeOK, Deliver
  <2>5. first' \in 0..Here /\ Here' = Here
    BY <1>7, SameStream, StreamTypes DEF Deliver
  <2> QED
    BY <1>7, <2>4, <2>5 DEF TypeOK, Deliver, Pcs
<1>8. CASE TakeClose
  BY <1>8, SameStream DEF TypeOK, TakeClose, Pcs
<1>9. CASE SendClose
  <2>1. Last \in Frame /\ Last.op = "close"
    BY <1>9, StreamTypes DEF SendClose, Place, Last
  <2>2. Answer \in Written
    BY <2>1, FrameFields DEF Answer, TypeOK, Copied, Written
  <2>3. out' \in Seq(Written)
    BY <1>9, <2>2 DEF SendClose, TypeOK
  <2> QED
    BY <1>9, <2>3, SameStream DEF TypeOK, SendClose, Pcs
<1>10. ASSUME Others PROVE TypeOK'
  BY <1>10, Assumptions, SameStream DEF Others, TypeOK, OthersSetClosing, OthersClose, OthersPing
<1>11. CASE UNCHANGED vars
  BY <1>11, SameStream DEF TypeOK, vars
<1> QED
  BY <1>1, <1>2, <1>3, <1>4, <1>5, <1>6, <1>7, <1>8, <1>9, <1>10, <1>11 DEF Next, Reader

-----------------------------------------------------------------------------
(* Each part of the invariant is kept.  An action that is not named in a    *)
(* proof leaves alone what its part is about.                               *)

LEMMA PlaceNext == IInv /\ [Next]_vars => Place'
<1> SUFFICES ASSUME IInv, [Next]_vars PROVE Place'
  OBVIOUS
<1> USE DEF inVars, msgVars, pingVars, peerVars
<1>0. TypeOK /\ Place /\ Here \in Nat /\ first \in 0..Here
  BY StreamTypes DEF IInv
<1>1. ASSUME NEW f \in Frame, ReadHeader(f) PROVE Place'
  <2>1. Here' = Here + 1 /\ Last' = f
    BY <1>0, <1>1, HeaderStream
  <2>2. pc = "header" /\ pc' \in {"error", "body"}
    BY <1>1 DEF ReadHeader
  <2>3. CASE pc' = "error"
    BY <1>0, <2>1, <2>2, <2>3 DEF Place
  <2>4. CASE pc' = "body"
    <3>1. ~Rejected(f) /\ first' = IF f.op \in {"txt", "bin"} THEN Here + 1 ELSE first
      BY <1>1, <2>4 DEF ReadHeader
    <3>2. f.op \in DataOps \union ControlOps
      BY <3>1, FrameFields DEF Rejected
    <3>3. f.op = "cont" => first # 0 /\ first' = first
      BY <3>1 DEF Rejected, Unexpected
    <3>4. f.op \in {"txt", "bin"} => size' = 0
      BY <1>1, <2>2, <3>1 DEF ReadHeader, Rejected, Unexpected, DataOps, IInv, Sizes, Alive
    <3> QED
      BY <1>0, <2>1, <2>4, <3>1, <3>2, <3>3, <3>4 DEF Place
  <2> QED
    BY <2>2, <2>3, <2>4
<1>2. ASSUME HeaderFails \/ BodyFails \/ Overrun \/ PongFails \/ CloseFails \/ Fail PROVE Place'
  BY <1>0, <1>2, SameStream DEF HeaderFails, BodyFails, Overrun, PongFails, CloseFails, Fail, Place
<1>3. CASE ReadData
  <2>1. first # 0
    BY <1>0, <1>3 DEF ReadData, Place, DataOps
  <2> QED
    BY <1>0, <1>3, <2>1, SameStream DEF ReadData, Place
<1>4. ASSUME ReadPing \/ ReadPong \/ ReadClose PROVE Place'
  BY <1>0, <1>4, SameStream DEF ReadPing, ReadPong, ReadClose, ToCtrl, Place
<1>5. ASSUME SendPong \/ TakePong \/ Deliver PROVE Place'
  BY <1>0, <1>5, SameStream DEF SendPong, TakePong, Deliver, Place
<1>6. ASSUME TakeClose \/ SendClose PROVE Place'
  BY <1>0, <1>6, SameStream DEF TakeClose, SendClose, Place
<1>7. ASSUME Others PROVE Place'
  BY <1>0, <1>7, SameStream DEF Others, OthersSetClosing, OthersClose, OthersPing, Place
<1>8. CASE UNCHANGED vars
  BY <1>0, <1>8, SameStream DEF vars, Place
<1> QED
  BY <1>1, <1>2, <1>3, <1>4, <1>5, <1>6, <1>7, <1>8 DEF Next, Reader

LEMMA FragmentsNext == IInv /\ [Next]_vars => Fragments'
<1> SUFFICES ASSUME IInv, [Next]_vars, first' # 0, Alive' PROVE Fragments'
  BY DEF Fragments
<1> USE DEF inVars, msgVars, pingVars, peerVars
<1>0. TypeOK /\ Place /\ Fragments /\ Here \in Nat /\ first \in 0..Here
  BY StreamTypes DEF IInv
<1>1. ASSUME NEW f \in Frame, ReadHeader(f) PROVE Fragments'
  <2>1. /\ Here' = Here + 1 /\ stream'[Here + 1] = f
        /\ \A i \in 1..Here : stream'[i] = stream[i]
    BY <1>0, <1>1, HeaderStream
  <2>2. pc = "header" /\ pc' = "body" /\ ~Rejected(f)
    BY <1>1 DEF ReadHeader, Alive
  <2>3. CASE f.op \in {"txt", "bin"}
    <3>1. first' = Here + 1
      BY <1>1, <2>2, <2>3 DEF ReadHeader
    <3> QED
      BY <1>0, <2>1, <2>2, <2>3, <3>1 DEF Fragments
  <2>4. CASE f.op \notin {"txt", "bin"}
    <3>1. first' = first /\ first # 0 /\ first \in 1..Here
      BY <1>0, <1>1, <2>2, <2>4 DEF ReadHeader
    <3>2. f.op \in DataOps => f.op = "cont"
      BY <2>4 DEF DataOps
    <3>3. /\ stream[first].op \in {"txt", "bin"}
          /\ \A i \in first..Here : stream[i].op \in DataOps =>
                (i > first => stream[i].op = "cont") /\ ~stream[i].fin
      BY <1>0, <2>2, <3>1 DEF Fragments, Alive
    <3> QED
      BY <1>0, <2>1, <2>2, <3>1, <3>2, <3>3 DEF Fragments
  <2> QED
    BY <2>3, <2>4
<1>2. CASE ReadData
  <2>1. first # 0 /\ pc = "body" /\ Last.op \in DataOps
    BY <1>0, <1>2 DEF ReadData, Place, DataOps
  <2> QED
    BY <1>0, <1>2, <2>1, SameStream DEF ReadData, Fragments, Alive, Last
<1>3. ASSUME ReadPing \/ ReadPong \/ ReadClose PROVE Fragments'
  <2>1. Last.op \notin DataOps /\ pc = "body"
    BY <1>3 DEF ReadPing, ReadPong, ReadClose, DataOps
  <2>2. first' = first
    BY <1>3 DEF ReadPing, ReadPong, ReadClose
  <2> QED
    BY <1>0, <1>3, <2>1, <2>2, SameStream DEF ReadPing, ReadPong, ReadClose, Fragments, Alive, Last
<1>4. ASSUME HeaderFails \/ SendPong \/ TakePong \/ TakeClose PROVE Fragments'
  BY <1>0, <1>4, SameStream DEF HeaderFails, SendPong, TakePong, TakeClose, Fragments, Alive
<1>5. ASSUME Others \/ UNCHANGED vars PROVE Fragments'
  BY <1>0, <1>5, SameStream DEF Others, OthersSetClosing, OthersClose, OthersPing, vars, Fragments, Alive
<1>6. CASE Deliver
  BY <1>6 DEF Deliver
<1>7. ASSUME BodyFails \/ Overrun \/ PongFails \/ CloseFails \/ Fail \/ SendClose PROVE FALSE
  BY <1>7 DEF BodyFails, Overrun, PongFails, CloseFails, Fail, SendClose, Alive
<1> QED
  BY <1>1, <1>2, <1>3, <1>4, <1>5, <1>6, <1>7 DEF Next, Reader

LEMMA SizesNext == IInv /\ [Next]_vars => Sizes'
<1> SUFFICES ASSUME IInv, [Next]_vars, Alive' PROVE Sizes'
  BY DEF Sizes
<1> USE DEF inVars, msgVars, pingVars, peerVars
<1>0. /\ TypeOK /\ Place /\ Sizes /\ Here \in Nat /\ first \in 0..Here /\ first \in Nat
      /\ size \in Nat /\ \A i \in 0..Here : Offset(i) \in Nat
  BY StreamTypes DEF IInv
<1>1. ASSUME NEW f \in Frame, ReadHeader(f) PROVE Sizes'
  <2>1. /\ Here' = Here + 1 /\ Last' = f
        /\ \A i \in 0..Here : Offset(i)' = Offset(i)
        /\ Offset(Here)' = Offset(Here) + (IF f.op \in DataOps THEN f.len ELSE 0)
    BY <1>0, <1>1, HeaderStream
  <2>2. pc = "header" /\ pc' = "body" /\ ~Rejected(f) /\ size' = size
    BY <1>1 DEF ReadHeader, Alive
  <2>3. Pending' = (IF f.op \in DataOps THEN f.len ELSE 0) /\ Pending = 0 /\ f.len \in Nat
    BY <2>1, <2>2, FrameFields DEF Pending
  <2>4. CASE f.op \in {"txt", "bin"}
    <3>1. first' = Here + 1 /\ first = 0 /\ f.op \in DataOps
      BY <1>1, <2>2, <2>4 DEF ReadHeader, Rejected, Unexpected, DataOps
    <3>2. size = 0 /\ first' - 1 = Here
      BY <1>0, <2>2, <3>1 DEF Sizes, Alive
    <3>3. Offset(first - 1)' = Offset(Here)
      BY <1>0, <2>1, <3>1, <3>2
    <3> QED
      BY <1>0, <2>1, <2>2, <2>3, <3>1, <3>2, <3>3 DEF Sizes, Alive
  <2>5. CASE f.op \notin {"txt", "bin"}
    <3>1. first' = first
      BY <1>1, <2>2, <2>5 DEF ReadHeader
    <3>2. first # 0 => Offset(first - 1)' = Offset(first - 1)
      BY <1>0, <2>1, <3>1
    <3>3. first = 0 => size' = 0
      BY <1>0, <2>2 DEF Sizes, Alive
    <3>4. first # 0 => size = Offset(Here) - Offset(first - 1)
      BY <1>0, <2>2, <2>3 DEF Sizes, Alive
    <3>5. first # 0 => first - 1 \in 0..Here
      BY <1>0
    <3>6. first # 0 => size' = Offset(Here)' - Offset(first - 1)' - Pending'
      BY <1>0, <2>1, <2>2, <2>3, <3>2, <3>4, <3>5
    <3> QED
      BY <1>0, <2>2, <3>1, <3>3, <3>6 DEF Sizes, Alive
  <2> QED
    BY <2>4, <2>5
<1>2. CASE ReadData
  <2>1. first # 0 /\ pc = "body" /\ Last.op \in DataOps /\ first' = first
    BY <1>0, <1>2 DEF ReadData, Place, DataOps
  <2>2. pc' # "body" /\ size' = size + Last.len /\ size' <= MaxFrameLength
    BY <1>2 DEF ReadData, Fits, Sum, Total
  <2>3. Last.len \in Nat
    BY <1>0, <1>2, StreamTypes, FrameFields DEF ReadData, Place, Last
  <2>4. size = Offset(Here) - Offset(first - 1) - Last.len
    BY <1>0, <2>1 DEF Sizes, Alive, Pending
  <2>5. /\ Pending' = 0 /\ Offset(Here)' = Offset(Here) /\ Offset(first - 1)' = Offset(first - 1)
    BY <1>2, <2>1, <2>2, SameStream DEF Pending, ReadData, Offset
  <2>6. first - 1 \in 0..Here
    BY <1>0, <2>1
  <2>7. size' = Offset(Here)' - Offset(first - 1)' - Pending'
    BY <1>0, <2>2, <2>3, <2>4, <2>5, <2>6
  <2> QED
    BY <2>1, <2>2, <2>7 DEF Sizes
<1>3. ASSUME ReadPing \/ ReadPong \/ ReadClose PROVE Sizes'
  <2>1. /\ pc = "body" /\ Last.op \notin DataOps /\ pc' # "body"
        /\ first' = first /\ size' = size /\ UNCHANGED inVars
    BY <1>3 DEF ReadPing, ReadPong, ReadClose, DataOps
  <2>2. Pending = 0 /\ Pending' = 0
    BY <2>1 DEF Pending
  <2> QED
    BY <1>0, <2>1, <2>2, SameStream DEF Sizes, Alive, Offset
<1>4. ASSUME HeaderFails \/ SendPong \/ TakePong \/ TakeClose PROVE Sizes'
  <2>1. pc # "body" /\ pc' # "body" /\ first' = first /\ size' = size /\ UNCHANGED inVars /\ Alive
    BY <1>4 DEF HeaderFails, SendPong, TakePong, TakeClose, Alive
  <2>2. Pending = 0 /\ Pending' = 0
    BY <2>1 DEF Pending
  <2> QED
    BY <1>0, <2>1, <2>2, SameStream DEF Sizes, Offset
<1>5. ASSUME Others \/ UNCHANGED vars PROVE Sizes'
  <2>1. UNCHANGED <<inVars, msgVars, pc>>
    BY <1>5 DEF Others, OthersSetClosing, OthersClose, OthersPing, vars
  <2> QED
    BY <1>0, <2>1, SameStream DEF Sizes, Offset, Pending, Alive
<1>6. CASE Deliver
  <2>1. MaxFrameLength \in Nat
    BY Assumptions
  <2> QED
    BY <1>6, <2>1 DEF Deliver, Sizes
<1>7. ASSUME BodyFails \/ Overrun \/ PongFails \/ CloseFails \/ Fail \/ SendClose PROVE FALSE
  BY <1>7 DEF BodyFails, Overrun, PongFails, CloseFails, Fail, SendClose, Alive
<1> QED
  BY <1>1, <1>2, <1>3, <1>4, <1>5, <1>6, <1>7 DEF Next, Reader

LEMMA Appended ==
    ASSUME NEW S, NEW s \in Seq(S), NEW m
    PROVE  /\ Len(Append(s, m)) = Len(s) + 1 /\ Append(s, m)[Len(s) + 1] = m
           /\ \A k \in 1..Len(s) : Append(s, m)[k] = s[k]
OBVIOUS

LEMMA HandedOver ==
    ASSUME TypeOK
    PROVE  /\ Len(delivered) \in Nat /\ Len(out) \in Nat
           /\ \A k \in 1..Len(delivered) : delivered[k] \in Handed
           /\ \A k \in 1..Len(out) : out[k] \in Written
           /\ \A m : delivered' = Append(delivered, m) =>
                  /\ Len(delivered') = Len(delivered) + 1 /\ delivered'[Len(delivered) + 1] = m
                  /\ \A k \in 1..Len(delivered) : delivered'[k] = delivered[k]
           /\ \A m : out' = Append(out, m) =>
                  /\ Len(out') = Len(out) + 1 /\ out'[Len(out) + 1] = m
                  /\ \A k \in 1..Len(out) : out'[k] = out[k]
<1>1. delivered \in Seq(Handed) /\ out \in Seq(Written)
  BY DEF TypeOK
<1>2. /\ Len(delivered) \in Nat /\ Len(out) \in Nat
      /\ \A k \in 1..Len(delivered) : delivered[k] \in Handed
      /\ \A k \in 1..Len(out) : out[k] \in Written
  BY <1>1
<1>3. ASSUME NEW m, delivered' = Append(delivered, m)
      PROVE  /\ Len(delivered') = Len(delivered) + 1 /\ delivered'[Len(delivered) + 1] = m
             /\ \A k \in 1..Len(delivered) : delivered'[k] = delivered[k]
  BY <1>1, <1>3, Appended
<1>4. ASSUME NEW m, out' = Append(out, m)
      PROVE  /\ Len(out') = Len(out) + 1 /\ out'[Len(out) + 1] = m
             /\ \A k \in 1..Len(out) : out'[k] = out[k]
  BY <1>1, <1>4, Appended
<1> QED
  BY <1>2, <1>3, <1>4

\* Every action but Deliver leaves the messages handed over as they are, and
\* only SendPong and SendClose write.
LEMMA Quietly ==
    ASSUME [Next]_vars
    PROVE  /\ Deliver \/ UNCHANGED delivered
           /\ SendPong \/ SendClose \/ UNCHANGED out
           /\ (\E f \in Frame : ReadHeader(f)) \/ UNCHANGED inVars
           /\ (\E f \in Frame : ReadHeader(f)) \/ Deliver \/ UNCHANGED first
<1> USE DEF inVars, msgVars
<1>1. ASSUME NEW f \in Frame, ReadHeader(f) PROVE UNCHANGED <<delivered, out>>
  BY <1>1 DEF ReadHeader
<1>2. CASE Deliver
  BY <1>2 DEF Deliver
<1>3. CASE SendPong
  BY <1>3 DEF SendPong
<1>4. CASE SendClose
  BY <1>4 DEF SendClose
<1>5. ASSUME HeaderFails \/ BodyFails \/ Overrun \/ PongFails \/ CloseFails \/ Fail \/ TakeClose
      PROVE  UNCHANGED <<inVars, first, delivered, out>>
  BY <1>5 DEF HeaderFails, BodyFails, Overrun, PongFails, CloseFails, Fail, TakeClose
<1>6. ASSUME ReadData \/ ReadPing \/ ReadPong \/ ReadClose \/ TakePong
      PROVE  UNCHANGED <<inVars, first, delivered, out>>
  BY <1>6 DEF ReadData, ReadPing, ReadPong, ReadClose, TakePong
<1>7. ASSUME Others \/ UNCHANGED vars
      PROVE  UNCHANGED <<inVars, first, delivered, out>>
  BY <1>7 DEF Others, OthersSetClosing, OthersClose, OthersPing, vars
<1> QED
  BY <1>1, <1>2, <1>3, <1>4, <1>5, <1>6, <1>7 DEF Next, Reader

LEMMA BeforeNext == IInv /\ [Next]_vars => Before'
<1> SUFFICES ASSUME IInv, [Next]_vars PROVE Before'
  OBVIOUS
<1>0. /\ TypeOK /\ Place /\ Before /\ Here \in Nat /\ first \in 0..Here
      /\ \A k \in 1..Len(delivered) : delivered[k].from \in Nat /\ delivered[k].to \in Nat
  BY StreamTypes, HandedOver DEF IInv, Handed
<1>1. ASSUME NEW f \in Frame, ReadHeader(f) PROVE Before'
  <2>1. Here' = Here + 1 /\ delivered' = delivered
    BY <1>0, <1>1, HeaderStream DEF ReadHeader
  <2>2. first' = first \/ first' = Here + 1
    BY <1>1 DEF ReadHeader
  <2> QED
    BY <1>0, <2>1, <2>2 DEF Before
<1>2. CASE Deliver
  <2>1. first # 0 /\ Here' = Here /\ first' = 0
    BY <1>0, <1>2, SameStream DEF Deliver, Place
  <2>2. delivered' = Append(delivered, [type |-> stream[first].op, from |-> first, to |-> Here, size |-> size])
    BY <1>2 DEF Deliver
  <2>3. /\ Len(delivered') = Len(delivered) + 1 /\ Len(delivered) \in Nat
        /\ delivered'[Len(delivered) + 1].from = first /\ delivered'[Len(delivered) + 1].to = Here
        /\ \A k \in 1..Len(delivered) : delivered'[k] = delivered[k]
    BY <1>0, <2>2, HandedOver
  <2> QED
    BY <1>0, <2>1, <2>3 DEF Before
<1>3. CASE UNCHANGED <<inVars, first, delivered>>
  BY <1>0, <1>3, SameStream DEF Before
<1> QED
  BY <1>1, <1>2, <1>3, Quietly

LEMMA PongsBeforeNext == IInv /\ [Next]_vars => PongsBefore'
<1> SUFFICES ASSUME IInv, [Next]_vars PROVE PongsBefore'
  OBVIOUS
<1> USE DEF inVars, msgVars, pingVars, peerVars
<1>0. /\ TypeOK /\ Place /\ PongsBefore /\ Here \in Nat
      /\ \A k \in 1..Len(out) : out[k].at \in Nat
  BY StreamTypes, HandedOver DEF IInv, Written
<1>1. ASSUME NEW f \in Frame, ReadHeader(f) PROVE PongsBefore'
  <2>1. Here' = Here + 1 /\ out' = out
    BY <1>0, <1>1, HeaderStream DEF ReadHeader
  <2> QED
    BY <1>0, <2>1 DEF PongsBefore, Pongs
<1>2. CASE SendPong
  <2>1. Here' = Here /\ pc' = "header" /\ ctrl.at = Here /\ Here >= 1
    BY <1>0, <1>2, SameStream DEF SendPong, Place
  <2>2. out' = Append(out, [op |-> "pong", at |-> ctrl.at, size |-> ctrl.size, code |-> 0])
    BY <1>2 DEF SendPong
  <2>3. /\ Len(out') = Len(out) + 1 /\ Len(out) \in Nat
        /\ out'[Len(out) + 1].at = Here
        /\ \A k \in 1..Len(out) : out'[k] = out[k]
    BY <1>0, <2>1, <2>2, HandedOver
  <2> QED
    BY <1>0, <2>1, <2>3 DEF PongsBefore, Pongs
<1>3. CASE SendClose
  <2>1. Here' = Here /\ pc' = "stopped" /\ out' = Append(out, Answer) /\ Answer.op = "close"
    BY <1>3, SameStream DEF SendClose, Answer
  <2>2. /\ Len(out') = Len(out) + 1 /\ Len(out) \in Nat
        /\ out'[Len(out) + 1].op = "close"
        /\ \A k \in 1..Len(out) : out'[k] = out[k]
    BY <1>0, <2>1, HandedOver
  <2> QED
    BY <1>0, <2>1, <2>2 DEF PongsBefore, Pongs
<1>4. ASSUME UNCHANGED <<inVars, out>> PROVE PongsBefore'
  <2>1. pc' \in {"body", "pong"} => pc \in {"body", "pong"}
    BY <1>4 DEF Next, Reader, Others, HeaderFails, BodyFails, Overrun, ReadData, ReadPing, SendPong, PongFails,
           ReadPong, TakePong, ReadClose, Fail, Deliver, TakeClose, SendClose, CloseFails,
           OthersSetClosing, OthersClose, OthersPing, ReadHeader, vars
  <2> QED
    BY <1>0, <1>4, <2>1, SameStream DEF PongsBefore, Pongs
<1> QED
  BY <1>1, <1>2, <1>3, <1>4, Quietly

-----------------------------------------------------------------------------
(* The properties.                                                          *)

IsWhole(m) ==
    /\ m.type = stream[m.from].op /\ m.type # "cont"
    /\ stream[m.to].op \in DataOps /\ stream[m.to].fin
    /\ \A i \in m.from..m.to : stream[i].op \in DataOps =>
           /\ i > m.from => stream[i].op = "cont"
           /\ i < m.to => ~stream[i].fin
    /\ m.size = Offset(m.to) - Offset(m.from - 1)

LEMMA WholeNext == IInv /\ [Next]_vars => Whole'
<1> SUFFICES ASSUME IInv, [Next]_vars PROVE \A k \in 1..Len(delivered') : IsWhole(delivered[k])'
  BY DEF Whole, IsWhole
<1>0. /\ TypeOK /\ Place /\ Before /\ Fragments /\ Sizes /\ Here \in Nat /\ first \in 0..Here
      /\ \A k \in 1..Len(delivered) : delivered[k].from \in Nat /\ delivered[k].to \in Nat
      /\ \A k \in 1..Len(delivered) : IsWhole(delivered[k])
  BY StreamTypes, HandedOver DEF IInv, Handed, MessagesWhole, Whole, IsWhole
<1>1. ASSUME NEW f \in Frame, ReadHeader(f) PROVE \A k \in 1..Len(delivered') : IsWhole(delivered[k])'
  <2>1. /\ Here' = Here + 1 /\ delivered' = delivered
        /\ \A i \in 1..Here : stream'[i] = stream[i]
        /\ \A i \in 0..Here : Offset(i)' = Offset(i)
    BY <1>0, <1>1, HeaderStream DEF ReadHeader
  <2> SUFFICES ASSUME NEW k \in 1..Len(delivered) PROVE IsWhole(delivered[k])'
    BY <2>1
  <2>2. /\ delivered[k].from \in 1..Here /\ delivered[k].to \in 1..Here
        /\ delivered[k].from - 1 \in 0..Here /\ delivered[k].to \in 0..Here
        /\ \A i \in delivered[k].from..delivered[k].to : i \in 1..Here
    BY <1>0 DEF Before
  <2>3. /\ Offset(delivered[k].to)' = Offset(delivered[k].to)
        /\ Offset(delivered[k].from - 1)' = Offset(delivered[k].from - 1)
    BY <2>1, <2>2
  <2>4. /\ stream'[delivered[k].from] = stream[delivered[k].from]
        /\ stream'[delivered[k].to] = stream[delivered[k].to]
        /\ \A i \in delivered[k].from..delivered[k].to : stream'[i] = stream[i]
    BY <2>1, <2>2
  <2>5. IsWhole(delivered[k]) /\ delivered'[k] = delivered[k]
    BY <1>0, <2>1
  <2> QED
    BY <2>3, <2>4, <2>5, SMTT(30) DEF IsWhole
<1>2. CASE Deliver
  <2> DEFINE m == [type |-> stream[first].op, from |-> first, to |-> Here, size |-> size]
  <2>1. UNCHANGED inVars /\ delivered' = Append(delivered, m)
    BY <1>2 DEF Deliver
  <2>2. /\ Len(delivered') = Len(delivered) + 1 /\ Len(delivered) \in Nat
        /\ delivered'[Len(delivered) + 1] = m
        /\ \A k \in 1..Len(delivered) : delivered'[k] = delivered[k]
    BY <1>0, <2>1, HandedOver
  <2>3. first # 0 /\ pc = "message" /\ Last.op \in DataOps /\ Last.fin /\ Pending = 0
    BY <1>0, <1>2 DEF Deliver, Place, Pending
  <2>4. IsWhole(m)
    <3>1. m.type = stream[m.from].op /\ m.type # "cont"
      BY <1>0, <2>3 DEF Fragments, Alive
    <3>2. stream[m.to].op \in DataOps /\ stream[m.to].fin
      BY <2>3 DEF Last
    <3>3. \A i \in m.from..m.to : stream[i].op \in DataOps =>
             /\ i > m.from => stream[i].op = "cont"
             /\ i < m.to => ~stream[i].fin
      BY <1>0, <2>3 DEF Fragments, Alive
    <3>4. size = Offset(Here) - Offset(first - 1) - 0
      BY <1>0, <2>3 DEF Sizes, Alive
    <3>5. Offset(Here) \in Nat /\ Offset(first - 1) \in Nat
      <4>1. first - 1 \in 0..Here /\ Here \in 0..Here
        BY <1>0, <2>3
      <4> QED
        BY <1>0, <4>1, StreamTypes
    <3>6. m.size = Offset(m.to) - Offset(m.from - 1)
      BY <3>4, <3>5
    <3> HIDE DEF m
    <3> QED
      BY <3>1, <3>2, <3>3, <3>6 DEF IsWhole
  <2>5. \A k \in 1..Len(delivered') : IsWhole(delivered'[k])
    BY <1>0, <2>2, <2>4
  <2>6. stream' = stream /\ \A i : Offset(i)' = Offset(i)
    BY <2>1, SameStream
  <2> QED
    BY <2>5, <2>6 DEF IsWhole
<1>3. CASE UNCHANGED <<inVars, delivered>>
  BY <1>0, <1>3, SameStream DEF IsWhole
<1> QED
  BY <1>1, <1>2, <1>3, Quietly

\* The sum of the sizes wraps only when the frame alone nearly does.
LEMMA WrapIsLong ==
    ASSUME size \in Nat, Last.len \in Nat, size <= MaxFrameLength, Wraps
    PROVE  Last.len >= Word - MaxFrameLength
BY Assumptions DEF Wraps, Total

LEMMA LimitedNext == IInv /\ [Next]_vars => Limited'
<1> SUFFICES ASSUME IInv, [Next]_vars PROVE Limited'
  OBVIOUS
<1> USE DEF inVars, msgVars, pingVars, peerVars
<1>0. /\ TypeOK /\ Place /\ Limited /\ size \in Nat
      /\ \A k \in 1..Len(delivered) : delivered[k].size <= MaxFrameLength
  BY StreamTypes DEF IInv, MessagesWhole, Limited
<1>1. CASE ReadData
  <2>1. size' <= MaxFrameLength /\ pc' # "overrun" /\ delivered' = delivered
    BY <1>1 DEF ReadData, Fits, Sum
  <2> QED
    BY <1>0, <2>1 DEF Limited
<1>2. CASE Overrun
  <2>1. pc = "body" /\ Last.op \in DataOps /\ Wraps /\ UNCHANGED <<inVars, first, size, delivered>>
    BY <1>2 DEF Overrun
  <2>2. Last \in Frame /\ Last.len \in Nat
    BY <1>0, <2>1, StreamTypes, FrameFields DEF Place, Last
  <2>3. Last.len >= Word - MaxFrameLength
    BY <1>0, <2>1, <2>2, WrapIsLong DEF Limited
  <2>4. first # 0
    BY <1>0, <2>1 DEF Place, DataOps
  <2>5. Last.op = "cont"
    <3>1. Last.op \in {"txt", "bin"} => size = 0 /\ Last.len < Word
      BY <1>0, <2>1, <2>2, FrameFields DEF Place, DataOps
    <3>2. Last.op \in {"txt", "bin"} => ~Wraps
      BY <2>2, <3>1, Assumptions DEF Wraps, Total
    <3> QED
      BY <2>1, <3>2 DEF DataOps
  <2> QED
    BY <1>0, <2>1, <2>3, <2>4, <2>5, SameStream DEF Limited
<1>3. CASE Deliver
  <2>1. delivered' = Append(delivered, [type |-> stream[first].op, from |-> first, to |-> Here, size |-> size])
    BY <1>3 DEF Deliver
  <2>2. /\ Len(delivered') = Len(delivered) + 1 /\ Len(delivered) \in Nat
        /\ delivered'[Len(delivered) + 1].size = size
        /\ \A k \in 1..Len(delivered) : delivered'[k] = delivered[k]
    BY <1>0, <2>1, HandedOver
  <2>3. size' = 0 /\ pc' = "header" /\ 0 <= MaxFrameLength
    BY <1>3, Assumptions DEF Deliver
  <2> QED
    BY <1>0, <2>2, <2>3 DEF Limited
<1>4. ASSUME NEW f \in Frame, ReadHeader(f) PROVE Limited'
  BY <1>0, <1>4 DEF ReadHeader, Limited
<1>5. ASSUME UNCHANGED <<inVars, first, size, delivered>>, pc' # "overrun" \/ pc = "overrun"
      PROVE  Limited'
  BY <1>0, <1>5, SameStream DEF Limited
<1>6. ASSUME \/ HeaderFails \/ BodyFails \/ PongFails \/ CloseFails \/ Fail \/ TakeClose
             \/ ReadPing \/ ReadPong \/ ReadClose \/ TakePong \/ SendPong \/ SendClose
      PROVE  UNCHANGED <<inVars, first, size, delivered>> /\ pc' # "overrun"
  BY <1>6 DEF HeaderFails, BodyFails, PongFails, CloseFails, Fail, TakeClose,
     ReadPing, ReadPong, ReadClose, TakePong, SendPong, SendClose
<1>7. ASSUME Others \/ UNCHANGED vars
      PROVE  UNCHANGED <<inVars, first, size, delivered, pc>>
  BY <1>7 DEF Others, OthersSetClosing, OthersClose, OthersPing, vars
<1> QED
  BY <1>1, <1>2, <1>3, <1>4, <1>5, <1>6, <1>7 DEF Next, Reader

Covered(i) ==
    \/ \E k \in 1..Len(delivered) : delivered[k].from <= i /\ i <= delivered[k].to
    \/ first # 0 /\ first <= i
    \/ i = Here /\ pc \in {"error", "stopped"}

LEMMA SkippedNext == IInv /\ [Next]_vars => NothingSkipped'
<1> SUFFICES ASSUME IInv, [Next]_vars PROVE NothingSkipped'
  OBVIOUS
<1> DEFINE Ordered == \A j, k \in 1..Len(delivered) : j < k => delivered[j].to < delivered[k].from
           AllIn   == \A i \in 1..Here : stream[i].op \in DataOps => Covered(i)
<1>0. /\ TypeOK /\ Place /\ Before /\ Here \in Nat /\ first \in 0..Here /\ Ordered /\ AllIn
      /\ \A k \in 1..Len(delivered) : delivered[k].from \in Nat /\ delivered[k].to \in Nat
  BY StreamTypes, HandedOver DEF IInv, Handed, NothingSkipped, Covered
<1>1. ASSUME NEW f \in Frame, ReadHeader(f) PROVE Ordered' /\ AllIn'
  <2>1. /\ Here' = Here + 1 /\ delivered' = delivered /\ stream'[Here + 1] = f
        /\ \A i \in 1..Here : stream'[i] = stream[i]
    BY <1>0, <1>1, HeaderStream DEF ReadHeader
  <2>2. pc = "header"
    BY <1>1 DEF ReadHeader
  <2>3. CASE pc' = "error"
    <3>1. first' = first
      BY <1>1, <2>3 DEF ReadHeader
    <3>2. Ordered'
      BY <1>0, <2>1
    <3>3. ASSUME NEW i \in 1..(Here + 1), stream'[i].op \in DataOps PROVE Covered(i)'
      <4>1. CASE i = Here + 1
        BY <2>1, <2>3, <4>1 DEF Covered
      <4>2. CASE i \in 1..Here
        <5>1. Covered(i)
          BY <1>0, <2>1, <3>3, <4>2
        <5> QED
          BY <2>1, <2>2, <3>1, <5>1 DEF Covered
      <4> QED
        BY <1>0, <4>1, <4>2
    <3>4. AllIn'
      BY <2>1, <3>3
    <3> QED
      BY <3>2, <3>4
  <2>4. CASE pc' = "body"
    <3>1. ~Rejected(f) /\ first' = IF f.op \in {"txt", "bin"} THEN Here + 1 ELSE first
      BY <1>1, <2>4 DEF ReadHeader
    <3>2. f.op \in {"txt", "bin"} => first = 0
      BY <3>1 DEF Rejected, Unexpected, DataOps
    <3>3. f.op \in DataOps => first' # 0 /\ first' <= Here + 1
      <4>1. CASE f.op \in {"txt", "bin"}
        BY <1>0, <3>1, <4>1
      <4>2. CASE f.op = "cont"
        <5>1. first # 0 /\ first' = first
          BY <3>1, <4>2 DEF Rejected, Unexpected
        <5> QED
          BY <1>0, <5>1
      <4> QED
        BY <4>1, <4>2 DEF DataOps
    <3>4. \A i \in 1..Here : first # 0 /\ first <= i => first' # 0 /\ first' <= i
      BY <3>1, <3>2
    <3>5. \A i \in 1..Here : stream[i].op \in DataOps => Covered(i)'
      BY <1>0, <2>1, <2>2, <3>4 DEF Covered
    <3>6. Ordered'
      BY <1>0, <2>1
    <3>7. ASSUME NEW i \in 1..(Here + 1), stream'[i].op \in DataOps PROVE Covered(i)'
      <4>1. CASE i = Here + 1
        BY <2>1, <3>3, <3>7, <4>1 DEF Covered
      <4>2. CASE i \in 1..Here
        BY <2>1, <3>5, <3>7, <4>2
      <4> QED
        BY <1>0, <4>1, <4>2
    <3>8. AllIn'
      BY <2>1, <3>7
    <3> QED
      BY <3>6, <3>8
  <2> QED
    BY <1>1, <2>3, <2>4 DEF ReadHeader
<1>2. ASSUME Deliver PROVE Ordered' /\ AllIn'
  <2>1. first # 0 /\ Here' = Here /\ stream' = stream /\ first' = 0 /\ pc = "message"
    BY <1>0, <1>2, SameStream DEF Deliver, Place
  <2>2. delivered' = Append(delivered, [type |-> stream[first].op, from |-> first, to |-> Here, size |-> size])
    BY <1>2 DEF Deliver
  <2>3. /\ Len(delivered') = Len(delivered) + 1 /\ Len(delivered) \in Nat
        /\ delivered'[Len(delivered) + 1].from = first /\ delivered'[Len(delivered) + 1].to = Here
        /\ \A k \in 1..Len(delivered) : delivered'[k] = delivered[k]
    BY <1>0, <2>2, HandedOver
  <2>4. Ordered'
    <3>1. \A j \in 1..Len(delivered) : delivered[j].to < first
      BY <1>0, <2>1 DEF Before
    <3>2. ASSUME NEW j \in 1..Len(delivered'), NEW k \in 1..Len(delivered'), j < k
          PROVE  delivered'[j].to < delivered'[k].from
      <4>1. j \in 1..Len(delivered) /\ delivered'[j] = delivered[j]
        BY <2>3, <3>2
      <4>2. CASE k \in 1..Len(delivered)
        BY <1>0, <2>3, <3>2, <4>1, <4>2
      <4>3. CASE k = Len(delivered) + 1
        BY <2>3, <3>1, <4>1, <4>3
      <4> QED
        BY <2>3, <4>2, <4>3
    <3> QED
      BY <3>2
  <2>5. ASSUME NEW i \in 1..Here, stream[i].op \in DataOps PROVE Covered(i)'
    <3>1. CASE first <= i
      <4>1. Len(delivered) + 1 \in 1..Len(delivered')
        BY <2>3
      <4> QED
        BY <2>3, <3>1, <4>1 DEF Covered
    <3>2. CASE ~(first <= i)
      <4>1. PICK k \in 1..Len(delivered) : delivered[k].from <= i /\ i <= delivered[k].to
        BY <1>0, <2>1, <2>5, <3>2 DEF Covered
      <4>2. k \in 1..Len(delivered') /\ delivered'[k] = delivered[k]
        BY <2>3
      <4> QED
        BY <4>1, <4>2 DEF Covered
    <3> QED
      BY <3>1, <3>2
  <2> QED
    BY <2>1, <2>4, <2>5
<1>3. ASSUME UNCHANGED <<inVars, first, delivered>> PROVE Ordered' /\ AllIn'
  <2>1. pc \in {"error", "stopped"} => pc' \in {"error", "stopped"}
    BY <1>3 DEF Next, Reader, Others, HeaderFails, BodyFails, Overrun, ReadData, ReadPing, SendPong, PongFails,
           ReadPong, TakePong, ReadClose, Fail, Deliver, TakeClose, SendClose, CloseFails,
           OthersSetClosing, OthersClose, OthersPing, ReadHeader, vars
  <2> QED
    BY <1>0, <1>3, <2>1, SameStream DEF Covered
<1>4. Ordered' /\ AllIn'
  BY <1>1, <1>2, <1>3, Quietly
<1> QED
  BY <1>4 DEF NothingSkipped, Covered

LEMMA PingsNext == IInv /\ [Next]_vars => PingsAnswered'
<1> SUFFICES ASSUME IInv, [Next]_vars PROVE PingsAnswered'
  OBVIOUS
<1> USE DEF inVars, msgVars, pingVars, peerVars
<1>0. /\ TypeOK /\ Place /\ PingsAnswered /\ PongsBefore /\ Here \in Nat /\ Len(out) \in Nat
      /\ \A k \in 1..Len(out) : out[k].at \in Nat
  BY StreamTypes, HandedOver DEF IInv, Written
<1>1. ASSUME NEW f \in Frame, ReadHeader(f) PROVE PingsAnswered'
  <2>1. /\ Here' = Here + 1 /\ out' = out /\ Pongs' = Pongs /\ stream'[Here + 1] = f
        /\ \A i \in 1..Here : stream'[i] = stream[i]
    BY <1>0, <1>1, HeaderStream DEF ReadHeader, Pongs
  <2>2. pc = "header" /\ pc' \in {"body", "error"}
    BY <1>1 DEF ReadHeader
  <2>3. \A k \in Pongs : out[k].at \in 1..Here
    BY <1>0 DEF PongsBefore, Pongs
  <2> QED
    BY <1>0, <2>1, <2>2, <2>3 DEF PingsAnswered
<1>2. CASE SendPong
  <2>1. /\ Here' = Here /\ stream' = stream /\ pc = "pong" /\ pc' = "header"
        /\ Last.op = "ping" /\ ctrl.at = Here /\ ctrl.size = Last.len /\ Here >= 1
    BY <1>0, <1>2, SameStream DEF SendPong, Place
  <2>2. out' = Append(out, [op |-> "pong", at |-> ctrl.at, size |-> ctrl.size, code |-> 0])
    BY <1>2 DEF SendPong
  <2> DEFINE n == Len(out) + 1
  <2>3. /\ Len(out') = n
        /\ out'[n].at = Here /\ out'[n].op = "pong" /\ out'[n].size = Last.len
        /\ \A k \in 1..Len(out) : out'[k] = out[k]
    BY <1>0, <2>1, <2>2, HandedOver
  <2>4. Pongs' = Pongs \union {n} /\ n \notin Pongs
    BY <1>0, <2>3 DEF Pongs
  <2>5. \A k \in Pongs : out'[k] = out[k] /\ out[k].at < Here /\ k < n /\ k \in Int
    BY <1>0, <2>1, <2>3 DEF Pongs, PongsBefore
  <2>6. stream[Here].op = "ping" /\ stream[Here].len = Last.len
    BY <2>1 DEF Last
  <2> HIDE DEF n
  <2>7. \A k \in Pongs' : stream'[out'[k].at].op = "ping" /\ out'[k].size = stream'[out'[k].at].len
    BY <1>0, <2>1, <2>3, <2>4, <2>5, <2>6 DEF PingsAnswered
  <2>8. \A j, k \in Pongs' : j < k => out'[j].at < out'[k].at
    BY <1>0, <2>3, <2>4, <2>5 DEF PingsAnswered, n
  <2>9. \A i \in 1..Here : stream[i].op = "ping" => \E k \in Pongs' : out'[k].at = i
    BY <1>0, <2>1, <2>3, <2>4, <2>5 DEF PingsAnswered
  <2> QED
    BY <2>1, <2>7, <2>8, <2>9 DEF PingsAnswered
<1>3. CASE SendClose
  <2>1. /\ Here' = Here /\ stream' = stream /\ pc = "answer" /\ pc' = "stopped"
        /\ out' = Append(out, Answer) /\ Answer.op = "close"
    BY <1>3, SameStream DEF SendClose, Answer
  <2>2. /\ Len(out') = Len(out) + 1 /\ out'[Len(out) + 1].op = "close"
        /\ \A k \in 1..Len(out) : out'[k] = out[k]
    BY <1>0, <2>1, HandedOver
  <2>3. Pongs' = Pongs /\ \A k \in Pongs : out'[k] = out[k]
    BY <1>0, <2>2 DEF Pongs
  <2>4. \A i \in 1..Here : stream[i].op = "ping" => \E k \in Pongs : out[k].at = i
    BY <1>0, <2>1 DEF PingsAnswered
  <2>5. /\ \A k \in Pongs' : stream'[out'[k].at].op = "ping" /\ out'[k].size = stream'[out'[k].at].len
        /\ \A j, k \in Pongs' : j < k => out'[j].at < out'[k].at
    BY <1>0, <2>1, <2>3, ZenonT(40) DEF PingsAnswered
  <2>6. \A i \in 1..Here' : stream'[i].op = "ping" => \E k \in Pongs' : out'[k].at = i
    BY <2>1, <2>3, <2>4, ZenonT(40)
  <2> QED
    BY <2>5, <2>6 DEF PingsAnswered
<1>4. ASSUME UNCHANGED <<inVars, out>> PROVE PingsAnswered'
  <2>1. Last.op = "ping" /\ pc \in {"body", "pong", "error", "stopped"} =>
            pc' \in {"body", "pong", "error", "stopped"} \/ SendPong
    BY <1>4 DEF Next, Reader, Others, HeaderFails, BodyFails, Overrun, ReadData, ReadPing, PongFails, DataOps,
           ReadPong, TakePong, ReadClose, Fail, Deliver, TakeClose, SendClose, CloseFails,
           OthersSetClosing, OthersClose, OthersPing, ReadHeader, vars
  <2>2. CASE SendPong
    BY <1>2, <2>2
  <2>3. CASE ~SendPong
    <3>1. Pongs' = Pongs
      BY <1>4 DEF Pongs
    <3> QED
      BY <1>0, <1>4, <2>1, <2>3, <3>1, SameStream DEF PingsAnswered, Last
  <2> QED
    BY <2>2, <2>3
<1> QED
  BY <1>1, <1>2, <1>3, <1>4, Quietly

LEMMA AnswerCode ==
    ASSUME TypeOK, ctrl = [at |-> Here, size |-> Last.len], Last.val \in Nat
    PROVE  /\ Answer.size = 2 => Answer.code \notin Reserved /\ Answer.code < 5000
           /\ Answer.size # 2 => Answer.at = Here /\ Answer.size = Last.len /\ Answer.code = Last.val
<1>1. CASE ctrl.size \notin {1, 2} \/ (ctrl.size = 2 /\ ValidCode(Last.val))
  <2>1. Answer.size = ctrl.size /\ Answer.code = Last.val /\ Answer.at = ctrl.at
    BY <1>1 DEF Answer
  <2>2. ValidCode(Last.val) => Last.val \notin Reserved /\ Last.val < 5000
    <3>1. \A n \in Nat : ValidCode(n) => n \notin Reserved /\ n < 5000
      <4> SUFFICES ASSUME NEW n \in Nat, ValidCode(n) PROVE n \notin Reserved /\ n < 5000
        OBVIOUS
      <4>1. \/ 1000 <= n /\ n <= 1003
            \/ 1007 <= n /\ n <= 1011
            \/ 3000 <= n /\ n <= 4999
        BY DEF ValidCode
      <4>2. ~(n <= 999) /\ ~(1004 <= n /\ n <= 1006) /\ ~(1012 <= n /\ n <= 2999) /\ n < 5000
        <5>1. CASE 1000 <= n /\ n <= 1003
          BY <5>1
        <5>2. CASE 1007 <= n /\ n <= 1011
          BY <5>2
        <5>3. CASE 3000 <= n /\ n <= 4999
          BY <5>3
        <5> QED
          BY <4>1, <5>1, <5>2, <5>3
      <4> QED
        BY <4>2, SMTT(30) DEF Reserved
    <3> QED
      BY <3>1
  <2> QED
    BY <1>1, <2>1, <2>2
<1>2. CASE ~(ctrl.size \notin {1, 2} \/ (ctrl.size = 2 /\ ValidCode(Last.val)))
  <2>1. Answer.code = 1002 /\ Answer.size = 2
    BY <1>2 DEF Answer
  <2> QED
    BY <2>1 DEF Reserved
<1> QED
  BY <1>1, <1>2

LEMMA CloseNext == IInv /\ [Next]_vars => CloseIsLast'
<1> SUFFICES ASSUME IInv, [Next]_vars PROVE CloseIsLast'
  OBVIOUS
<1> USE DEF inVars, msgVars, pingVars, peerVars
<1>0. TypeOK /\ Place /\ CloseIsLast /\ Here \in Nat /\ Len(out) \in Nat
  BY StreamTypes, HandedOver DEF IInv
<1>1. CASE SendClose
  <2>1. /\ Here' = Here /\ Last' = Last /\ pc = "answer" /\ pc' = "stopped"
        /\ out' = Append(out, Answer) /\ Last.op = "close" /\ Here >= 1
        /\ ctrl = [at |-> Here, size |-> Last.len]
    BY <1>0, <1>1, SameStream DEF SendClose, Place
  <2>2. \A k \in 1..Len(out) : out[k].op # "close"
    BY <1>0, <2>1 DEF CloseIsLast
  <2>3. /\ Len(out') = Len(out) + 1 /\ out'[Len(out) + 1] = Answer
        /\ \A k \in 1..Len(out) : out'[k] = out[k]
    BY <1>0, <2>1, HandedOver
  <2>4. Last.val \in Nat
    <3>1. Last \in Frame
      BY <1>0, <2>1, StreamTypes DEF Last
    <3> QED
      BY <2>1, <3>1, FrameFields
  <2>5. /\ Answer.size = 2 => Answer.code \notin Reserved /\ Answer.code < 5000
        /\ Answer.size # 2 => Answer.at = Here /\ Answer.size = Last.len /\ Answer.code = Last.val
    BY <1>0, <2>1, <2>4, AnswerCode
  <2>6. \A k \in 1..Len(out') : out'[k].op = "close" => k = Len(out') /\ out'[k] = Answer
    BY <1>0, <2>2, <2>3
  <2> QED
    BY <2>1, <2>5, <2>6 DEF CloseIsLast
<1>2. CASE SendPong
  <2>1. /\ pc = "pong"
        /\ out' = Append(out, [op |-> "pong", at |-> ctrl.at, size |-> ctrl.size, code |-> 0])
    BY <1>2 DEF SendPong
  <2>2. \A k \in 1..Len(out) : out[k].op # "close"
    BY <1>0, <2>1 DEF CloseIsLast
  <2>3. /\ Len(out') = Len(out) + 1 /\ out'[Len(out) + 1].op = "pong"
        /\ \A k \in 1..Len(out) : out'[k] = out[k]
    BY <1>0, <2>1, HandedOver
  <2>4. \A k \in 1..Len(out') : out'[k].op # "close"
    BY <1>0, <2>2, <2>3
  <2> QED
    BY <2>4 DEF CloseIsLast
<1>3. ASSUME NEW f \in Frame, ReadHeader(f) PROVE CloseIsLast'
  BY <1>0, <1>3 DEF ReadHeader, CloseIsLast
<1>4. ASSUME UNCHANGED <<inVars, out>> PROVE CloseIsLast'
  <2>1. pc = "stopped" => pc' = "stopped"
    BY <1>4 DEF Next, Reader, Others, HeaderFails, BodyFails, Overrun, ReadData, ReadPing, SendPong, PongFails,
           ReadPong, TakePong, ReadClose, Fail, Deliver, TakeClose, SendClose, CloseFails,
           OthersSetClosing, OthersClose, OthersPing, ReadHeader, vars
  <2> QED
    BY <1>0, <1>4, <2>1, SameStream DEF CloseIsLast
<1> QED
  BY <1>1, <1>2, <1>3, <1>4, Quietly

LEMMA BuffersNext == IInv /\ [Next]_vars => BuffersReturned'
<1> SUFFICES ASSUME IInv, [Next]_vars PROVE BuffersReturned'
  OBVIOUS
<1> USE DEF inVars, msgVars, pingVars, peerVars
<1>0. Place /\ BuffersReturned /\ Here \in Nat
  BY StreamTypes DEF IInv
<1>1. ASSUME NEW f \in Frame, ReadHeader(f) PROVE BuffersReturned'
  BY <1>0, <1>1 DEF ReadHeader, BuffersReturned
<1>2. CASE ReadData
  BY <1>0, <1>2 DEF ReadData, Place, DataOps, BuffersReturned
<1>3. ASSUME HeaderFails \/ BodyFails \/ Overrun \/ PongFails \/ CloseFails \/ Fail \/ Deliver
      PROVE  BuffersReturned'
  BY <1>0, <1>3 DEF HeaderFails, BodyFails, Overrun, PongFails, CloseFails, Fail, Deliver, BuffersReturned
<1>4. ASSUME ReadPing \/ ReadPong \/ ReadClose \/ SendPong \/ TakePong \/ TakeClose \/ SendClose
      PROVE  BuffersReturned'
  BY <1>0, <1>4 DEF ReadPing, ReadPong, ReadClose, SendPong, TakePong, TakeClose, SendClose, BuffersReturned
<1>5. ASSUME Others \/ UNCHANGED vars PROVE BuffersReturned'
  BY <1>0, <1>5 DEF Others, OthersSetClosing, OthersClose, OthersPing, vars, BuffersReturned
<1> QED
  BY <1>1, <1>2, <1>3, <1>4, <1>5 DEF Next, Reader

LEMMA InitIInv == Init => IInv
<1> SUFFICES ASSUME Init PROVE IInv
  OBVIOUS
<1>1. /\ pc = "header" /\ first = 0 /\ size = 0 /\ held = FALSE /\ Here = 0
      /\ Len(delivered) = 0 /\ Len(out) = 0
  BY DEF Init, Here
<1>2. 0 <= MaxFrameLength
  BY Assumptions
<1>3. Place /\ Fragments /\ Sizes /\ BuffersReturned
  BY <1>1, <1>2 DEF Place, Fragments, Sizes, BuffersReturned
<1>4. Before /\ PongsBefore /\ MessagesWhole /\ CloseIsLast
  BY <1>1, <1>2 DEF Before, PongsBefore, Pongs, MessagesWhole, Whole, Limited, CloseIsLast
<1>5. NothingSkipped /\ PingsAnswered
  BY <1>1 DEF NothingSkipped, PingsAnswered, Pongs
<1> QED
  BY <1>3, <1>4, <1>5, TypeInit DEF IInv

\* The reader always knows where it is, how much of the message in hand it has,
\* and whether the 64-bit sum of the sizes has wrapped: the inductive invariant.
THEOREM Reading == Spec => []IInv
<1>1. Init => IInv
  BY InitIInv
<1>2. IInv /\ [Next]_vars => IInv'
  <2> SUFFICES ASSUME IInv, [Next]_vars PROVE IInv'
    OBVIOUS
  <2>1. TypeOK'
    BY TypeNext DEF IInv
  <2> QED
    BY <2>1, PlaceNext, FragmentsNext, SizesNext, BeforeNext, PongsBeforeNext, WholeNext, LimitedNext,
       SkippedNext, PingsNext, CloseNext, BuffersNext DEF IInv, MessagesWhole
<1> QED
  BY <1>1, <1>2, PTL DEF Spec

\* The variables keep their types, and a PONG never acknowledges a ping that
\* was not sent.
THEOREM TypeCorrect == Spec => []TypeOK
<1>1. IInv => TypeOK
  BY DEF IInv
<1> QED
  BY <1>1, Reading, PTL

\* ws_onmessage gets whole messages of the client, and no memory of a message
\* outgrows the limit, for any limit and any width of the sizes: the one way past
\* it is a continuation frame so long that frame_size wraps (read_frame).
THEOREM WholeMessages == Spec => []MessagesWhole
<1>1. IInv => MessagesWhole
  BY DEF IInv
<1> QED
  BY <1>1, Reading, PTL

\* It gets them in order, none twice and none left out.
THEOREM InOrder == Spec => []NothingSkipped
<1>1. IInv => NothingSkipped
  BY DEF IInv
<1> QED
  BY <1>1, Reading, PTL

\* Each PING is answered once, in order, with its own payload.
THEOREM Pinged == Spec => []PingsAnswered
<1>1. IInv => PingsAnswered
  BY DEF IInv
<1> QED
  BY <1>1, Reading, PTL

\* The reader writes one CLOSE frame at most, and nothing after it: a bare code
\* that may be on the wire, or the empty or reasoned CLOSE of the client as it came.
THEOREM ClosedOnce == Spec => []CloseIsLast
<1>1. IInv => CloseIsLast
  BY DEF IInv
<1> QED
  BY <1>1, Reading, PTL

\* The memory of a message is given back, but when the client vanishes
\* between two fragments.
THEOREM MemoryBack == Spec => []BuffersReturned
<1>1. IInv => BuffersReturned
  BY DEF IInv
<1> QED
  BY <1>1, Reading, PTL

=============================================================================
