----------------------------- MODULE ConnTable -----------------------------
(***************************************************************************)
(* What the pool of connections promises while nobody is evicted: a table  *)
(* in which a connection is entered once, in a free slot, keeps that slot, *)
(* and is over for good when it leaves.  WebSocket implements it.          *)
(***************************************************************************)
CONSTANTS Conns, Slots, None

VARIABLES table,  \* who has each slot
          past    \* connections that are over

TableInit == table = [s \in Slots |-> None] /\ past = {}

InTable(c) == \E s \in Slots : table[s] = c

\* ws_accept adds the client.
Enter(c, s) ==
    /\ table[s] = None /\ c \notin past /\ ~InTable(c)
    /\ table' = [table EXCEPT ![s] = c]
    /\ UNCHANGED past

\* Its thread, or the failed ws_accept, closes it.
Leave(s) ==
    /\ table[s] # None
    /\ past' = past \union {table[s]}
    /\ table' = [table EXCEPT ![s] = None]

\* A connection that only asked for a page, or was refused.
Pass(c) ==
    /\ ~InTable(c)
    /\ past' = past \union {c}
    /\ UNCHANGED table

TableNext ==
    \/ \E c \in Conns, s \in Slots : Enter(c, s)
    \/ \E s \in Slots : Leave(s)
    \/ \E c \in Conns : Pass(c)

TableSpec == TableInit /\ [][TableNext]_<<table, past>>
=============================================================================
