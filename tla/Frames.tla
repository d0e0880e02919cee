-------------------------------- MODULE Frames --------------------------------
(***************************************************************************)
(* next_frame and read_frame of components/web/src/web-socket.c: how the   *)
(* thread of a connection turns the frames of its client into messages,    *)
(* answers PING and CLOSE frames that come between the fragments of a      *)
(* message, and gives the connection up, while other threads close the     *)
(* connection, ping the client or evict it.  WebSocket.tla takes the       *)
(* results of this reader as the frames its threads receive.               *)
(*                                                                         *)
(* `stream' is the history of the frames whose header was read; a payload  *)
(* is named by the position of its frame.                                  *)
(***************************************************************************)
EXTENDS Integers, Sequences

CONSTANTS
    MaxFrameLength,  \* MAX_FRAME_LENGTH
    Word,            \* 2^64: sizes are uint64_t
    MaxControl,      \* the longest payload of a control frame
    IdSize,          \* sizeof(last_pong_id)
    Lengths,         \* lengths of data frames in this instance
    ControlLengths,  \* lengths of control frames in this instance
    Codes,           \* codes in CLOSE frames in this instance
    Ids,             \* numbers in PONG frames in this instance
    MaxFrames,       \* frames the client sends (a bound of the model)
    MaxPings         \* pings of the server (a bound of the model)

ASSUME Assumptions ==
    /\ MaxFrameLength \in Nat /\ MaxControl \in Nat /\ IdSize \in Nat
    /\ Word \in Nat /\ MaxFrameLength < Word /\ Lengths \subseteq 0..(Word - 1)
    /\ ControlLengths \subseteq Nat /\ Codes \subseteq Nat /\ Ids \subseteq Int
    /\ MaxFrames \in Nat /\ MaxPings \in Nat

DataOps    == {"txt", "bin", "cont"}
ControlOps == {"ping", "pong", "close"}

(* What a client may put on the wire: reserved bits set and unknown opcodes *)
(* are "rsv" and "other"; `val' is the code of a CLOSE, the id of a PONG.   *)
Frame ==
         [op : DataOps, fin : BOOLEAN, len : Lengths, val : {0}]
  \union [op : {"ping"}, fin : BOOLEAN, len : ControlLengths, val : {0}]
  \union [op : {"pong"}, fin : BOOLEAN, len : ControlLengths \ {IdSize}, val : {0}]
  \union [op : {"pong"}, fin : BOOLEAN, len : ControlLengths \intersect {IdSize}, val : Ids]
  \union [op : {"close"}, fin : BOOLEAN, len : ControlLengths \intersect {0, 1}, val : {0}]
  \union [op : {"close"}, fin : BOOLEAN, len : ControlLengths \ {0, 1}, val : Codes]
  \union [op : {"rsv", "other"}, fin : BOOLEAN, len : {0}, val : {0}]

VARIABLES
    stream,     \* the frames begun so far
    bytes,      \* bytes[i]: data bytes in the first i of them
    pc,         \* where the reader is
    first,      \* where the message in hand began, 0 while frame_type = -1
    size,       \* wfd->frame_size, and msg_idx_data
    held,       \* msg_data # NULL
    ctrl,       \* wfd->msg_ctrl: the frame it was read from, and frame_size
    state,      \* client->state; "closed" also stands for client_sock = -1
    pingId,     \* client->current_ping_id
    pongId,     \* client->last_pong_id
    delivered,  \* calls of ws_onmessage
    out         \* control frames the reader wrote

inVars   == <<stream, bytes>>
msgVars  == <<first, size, held>>
pingVars == <<pingId, pongId>>
peerVars == <<state, pingId>>
vars == <<inVars, pc, msgVars, ctrl, state, pingVars, delivered, out>>

Pcs == {"header", "body", "pong", "pongid", "message", "close", "answer", "error", "stopped", "left", "overrun"}
Here  == Len(stream)
Last  == stream[Here]
Offset(i) == IF i = 0 THEN 0 ELSE bytes[i]

Copied  == [at : Nat, size : Nat]
Handed  == [type : DataOps, from : Nat, to : Nat, size : Nat]
Written == [op : {"pong", "close"}, at : Nat, size : Nat, code : Nat]

TypeOK ==
    /\ stream \in Seq(Frame) /\ bytes \in Seq(Nat) /\ Len(bytes) = Here
    /\ pc \in Pcs /\ state \in {"open", "closing", "closed"}
    /\ first \in 0..Here /\ size \in Nat /\ held \in BOOLEAN
    /\ ctrl \in Copied
    /\ pingId \in -1..(MaxPings - 1) /\ pongId \in Int /\ -1 <= pongId /\ pongId <= pingId
    /\ delivered \in Seq(Handed) /\ out \in Seq(Written)

Init ==
    /\ stream = <<>> /\ bytes = <<>> /\ pc = "header"
    /\ first = 0 /\ size = 0 /\ held = FALSE /\ ctrl = [at |-> 0, size |-> 0]
    /\ state = "open" /\ pingId = -1 /\ pongId = -1
    /\ delivered = <<>> /\ out = <<>>

-----------------------------------------------------------------------------
(* The header of a frame.                                                   *)

Unexpected(f) ==
    \/ first = 0 /\ f.op = "cont"
    \/ first # 0 /\ f.op \in DataOps \ {"cont"}

\* Slip: a new message may begin before the one in hand has ended.
Rejected_NoOrder(f) ==
    \/ f.op \in {"rsv", "other"}
    \/ first = 0 /\ f.op = "cont"
    \/ state = "closing" /\ f.op # "close"
    \/ f.op \in ControlOps /\ (~f.fin \/ f.len > MaxControl)

Rejected(f) ==
    \/ f.op \in {"rsv", "other"}
    \/ Unexpected(f)
    \/ state = "closing" /\ f.op # "close"
    \/ f.op \in ControlOps /\ (~f.fin \/ f.len > MaxControl)

ReadHeader(f) ==
    /\ pc = "header" /\ Here < MaxFrames
    /\ stream' = Append(stream, f)
    /\ bytes' = Append(bytes, Offset(Here) + (IF f.op \in DataOps THEN f.len ELSE 0))
    /\ IF Rejected(f)
       THEN pc' = "error" /\ UNCHANGED first
       ELSE pc' = "body" /\ first' = IF f.op \in {"txt", "bin"} THEN Here + 1 ELSE first
    /\ UNCHANGED <<size, held, ctrl, state, pingVars, delivered, out>>

\* recv fails before a frame: the return at this place frees nothing.
HeaderFails ==
    /\ pc = "header" /\ pc' = "left"
    /\ UNCHANGED <<inVars, msgVars, ctrl, state, pingVars, delivered, out>>

-----------------------------------------------------------------------------
(* read_frame: the length, its limit, the masks, the memory, the payload.   *)

NeedsMemory == Last.op \in DataOps /\ (Last.len > 0 \/ (Last.fin /\ size > 0))
\* frame_size += frame_length, in 64 bits, is what the limit is compared with.
Total == size + Last.len
Wraps == Total >= Word
Sum   == IF Wraps THEN Total - Word ELSE Total
Fits  == Sum <= MaxFrameLength

\* recv or realloc fails, or the message is too long.
BodyFails ==
    /\ pc = "body" /\ pc' = "error"
    /\ UNCHANGED <<inVars, msgVars, ctrl, state, pingVars, delivered, out>>

\* Slip: only the length of the frame is compared with the limit.
ReadData_FrameLimit ==
    /\ pc = "body" /\ Last.op \in DataOps /\ Last.len <= MaxFrameLength
    /\ size' = Total
    /\ held' = (held \/ NeedsMemory)
    /\ pc' = IF Last.fin THEN "message" ELSE "header"
    /\ UNCHANGED <<inVars, first, ctrl, state, pingVars, delivered, out>>

ReadData ==
    /\ pc = "body" /\ Last.op \in DataOps /\ Fits /\ ~Wraps
    /\ size' = Total
    /\ held' = (held \/ NeedsMemory)
    /\ pc' = IF Last.fin THEN "message" ELSE "header"
    /\ UNCHANGED <<inVars, first, ctrl, state, pingVars, delivered, out>>

\* The sum wrapped and passed: realloc makes the memory of the message smaller
\* and the bytes of the frame are copied past its end.  What the program does
\* from there on is not defined, and the model of the reader ends.
Overrun ==
    /\ pc = "body" /\ Last.op \in DataOps /\ Fits /\ Wraps
    /\ pc' = "overrun"
    /\ UNCHANGED <<inVars, msgVars, ctrl, state, pingVars, delivered, out>>

\* Slip: frame_size is not reset, the sizes of control frames add up.
ToCtrl_NoReset == ctrl' = [at |-> Here, size |-> ctrl.size + Last.len]
ToCtrl == ctrl' = [at |-> Here, size |-> Last.len]

ReadPing ==
    /\ pc = "body" /\ Last.op = "ping" /\ pc' = "pong"
    /\ ToCtrl
    /\ UNCHANGED <<inVars, msgVars, state, pingVars, delivered, out>>

\* do_pong: a failed send ends the connection.
SendPong ==
    /\ pc = "pong" /\ state # "closed" /\ pc' = "header"
    /\ out' = Append(out, [op |-> "pong", at |-> ctrl.at, size |-> ctrl.size, code |-> 0])
    /\ UNCHANGED <<inVars, msgVars, ctrl, state, pingVars, delivered>>

PongFails ==
    /\ pc = "pong" /\ pc' = "error"
    /\ UNCHANGED <<inVars, msgVars, ctrl, state, pingVars, delivered, out>>

ReadPong ==
    /\ pc = "body" /\ Last.op = "pong"
    /\ ToCtrl
    /\ pc' = IF Last.len = IdSize THEN "pongid" ELSE "header"
    /\ UNCHANGED <<inVars, msgVars, state, pingVars, delivered, out>>

\* Slip: any id that is not negative is taken.
TakePong_Any ==
    /\ pc = "pongid" /\ pc' = "header"
    /\ pongId' = IF Last.val < 0 THEN pongId ELSE Last.val
    /\ UNCHANGED <<inVars, msgVars, ctrl, peerVars, delivered, out>>

\* Under mtx_ping, an id that was never sent is ignored.
TakePong ==
    /\ pc = "pongid" /\ pc' = "header"
    /\ pongId' = IF Last.val < 0 \/ Last.val > pingId THEN pongId ELSE Last.val
    /\ UNCHANGED <<inVars, msgVars, ctrl, peerVars, delivered, out>>

\* Slip: the memory of a message cut off by a CLOSE is not given back.
ReadClose_Keep ==
    /\ pc = "body" /\ Last.op = "close" /\ pc' = "close"
    /\ ToCtrl
    /\ UNCHANGED <<inVars, msgVars, state, pingVars, delivered, out>>

ReadClose ==
    /\ pc = "body" /\ Last.op = "close" /\ pc' = "close"
    /\ ToCtrl
    /\ held' = FALSE
    /\ UNCHANGED <<inVars, first, size, state, pingVars, delivered, out>>

Fail ==
    /\ pc = "error" /\ pc' = "stopped"
    /\ held' = FALSE
    /\ UNCHANGED <<inVars, first, size, ctrl, state, pingVars, delivered, out>>

-----------------------------------------------------------------------------
(* What ws_establishconnection does with the result.                        *)

\* ws_onmessage, then the fields are reset at the start of the next call.
Deliver ==
    /\ pc = "message" /\ pc' = "header"
    /\ delivered' = Append(delivered,
           [type |-> stream[first].op, from |-> first, to |-> Here, size |-> size])
    /\ first' = 0 /\ size' = 0 /\ held' = FALSE
    /\ UNCHANGED <<inVars, ctrl, state, pingVars, out>>

TakeClose ==
    /\ pc = "close"
    /\ IF state = "closing"
       THEN pc' = "stopped" /\ UNCHANGED state
       ELSE pc' = "answer" /\ state' = IF state = "open" THEN "closing" ELSE state
    /\ UNCHANGED <<inVars, msgVars, ctrl, pingVars, delivered, out>>

\* Slip: the gap between 1003 and 1007 is forgotten.
ValidCode_NoGap(c) == c \in 1000..1011 \union 3000..4999
ValidCode(c) == c \in 1000..1003 \union 1007..1011 \union 3000..4999

\* do_close: an empty CLOSE or one with a reason is sent back as it is, else
\* its code when that is valid, else 1002.
Answer ==
    IF ctrl.size \notin {1, 2} \/ (ctrl.size = 2 /\ ValidCode(Last.val))
    THEN [op |-> "close", at |-> ctrl.at, size |-> ctrl.size, code |-> Last.val]
    ELSE [op |-> "close", at |-> 0, size |-> 2, code |-> 1002]

SendClose ==
    /\ pc = "answer" /\ state # "closed" /\ pc' = "stopped"
    /\ out' = Append(out, Answer)
    /\ UNCHANGED <<inVars, msgVars, ctrl, state, pingVars, delivered>>

CloseFails ==
    /\ pc = "answer" /\ pc' = "stopped"
    /\ UNCHANGED <<inVars, msgVars, ctrl, state, pingVars, delivered, out>>

Reader ==
    \/ \E f \in Frame : ReadHeader(f)
    \/ HeaderFails \/ BodyFails \/ ReadData \/ Overrun \/ ReadPing \/ SendPong \/ PongFails
    \/ ReadPong \/ TakePong \/ ReadClose \/ Fail \/ Deliver \/ TakeClose
    \/ SendClose \/ CloseFails

-----------------------------------------------------------------------------
(* Other threads.                                                           *)

\* start_close_timeout, after ws_close_client has sent a CLOSE frame.
OthersSetClosing ==
    /\ state = "open" /\ state' = "closing"
    /\ UNCHANGED <<inVars, pc, msgVars, ctrl, pingVars, delivered, out>>

\* close_client, by the http thread (eviction) or close_timeout.  Bytes the
\* reader holds in wfd->frm are still read.
OthersClose ==
    /\ state # "closed" /\ state' = "closed"
    /\ UNCHANGED <<inVars, pc, msgVars, ctrl, pingVars, delivered, out>>

\* send_ping_close.
OthersPing ==
    /\ state = "open" /\ pingId < MaxPings - 1 /\ pingId' = pingId + 1
    /\ UNCHANGED <<inVars, pc, msgVars, ctrl, state, pongId, delivered, out>>

Others == OthersSetClosing \/ OthersClose \/ OthersPing

Next == Reader \/ Others
Spec == Init /\ [][Next]_vars

-----------------------------------------------------------------------------
\* What ws_onmessage gets is one message of the client: from a text or binary
\* frame to the next final data frame, all of whose data frames in between
\* continue it, with the type of the first and the bytes of all, whatever
\* control frames came between the fragments.
Whole ==
    \A k \in 1..Len(delivered) : LET m == delivered[k] IN
        /\ m.type = stream[m.from].op /\ m.type # "cont"
        /\ stream[m.to].op \in DataOps /\ stream[m.to].fin
        /\ \A i \in m.from..m.to : stream[i].op \in DataOps =>
               /\ i > m.from => stream[i].op = "cont"
               /\ i < m.to => ~stream[i].fin
        /\ m.size = Offset(m.to) - Offset(m.from - 1)

\* "We need to limit the amount supported here ... this is still true for
\* continuation frames": no message and no memory of one is longer than the
\* limit, but for one way past it, a continuation frame whose length is within
\* MAX_FRAME_LENGTH of 2^64, so that the sum of the sizes wraps.
Limited ==
    /\ \A k \in 1..Len(delivered) : delivered[k].size <= MaxFrameLength
    /\ size <= MaxFrameLength
    /\ pc = "overrun" => first # 0 /\ Last.op = "cont" /\ Last.len >= Word - MaxFrameLength

\* Both: what is handed over is whole, and within the limit.
MessagesWhole == Whole /\ Limited

\* Messages are handed over in the order they were sent, none twice, and no
\* data frame is left out: each is in a message handed over, in the one in
\* hand, or is the last frame of a connection that is being given up.
NothingSkipped ==
    /\ \A j, k \in 1..Len(delivered) : j < k => delivered[j].to < delivered[k].from
    /\ \A i \in 1..Here : stream[i].op \in DataOps =>
           \/ \E k \in 1..Len(delivered) : delivered[k].from <= i /\ i <= delivered[k].to
           \/ first # 0 /\ first <= i
           \/ i = Here /\ pc \in {"error", "stopped"}

Pongs == {k \in 1..Len(out) : out[k].op = "pong"}

\* Before it reads on, the reader has answered each PING once, in order, with
\* the payload of that PING and no more, in the middle of a message too ("We
\* should answer to a PING frame as soon as possible").
PingsAnswered ==
    /\ \A k \in Pongs : /\ stream[out[k].at].op = "ping"
                        /\ out[k].size = stream[out[k].at].len
    /\ \A j, k \in Pongs : j < k => out[j].at < out[k].at
    /\ \A i \in 1..Here : stream[i].op = "ping" =>
           \/ \E k \in Pongs : out[k].at = i
           \/ i = Here /\ pc \in {"body", "pong", "error", "stopped"}

Reserved == 0..999 \union 1004..1006 \union 1012..2999

\* The reader writes at most one CLOSE frame and nothing after it.  One that is
\* only a code never carries a code that may not be on the wire; any other is
\* the CLOSE of the client as it came, whose code is not looked at.
CloseIsLast ==
    \A k \in 1..Len(out) : out[k].op = "close" =>
        /\ k = Len(out) /\ Last.op = "close" /\ pc = "stopped"
        /\ out[k].size = 2 => out[k].code \notin Reserved /\ out[k].code < 5000
        /\ out[k].size # 2 => out[k].at = Here /\ out[k].size = Last.len /\ out[k].code = Last.val

\* The memory of a message is given back however the reader ends, but for one
\* way: the client vanishes between two fragments ("left").
BuffersReturned == held => first # 0 /\ pc \notin {"close", "answer", "stopped"}

=============================================================================
