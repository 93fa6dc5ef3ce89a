---------------------------- MODULE PacketChannel ----------------------------
(***************************************************************************)
(* What a socket promises for the packets handed to it: each one is put    *)
(* on the connection at most once, and only if it was handed in.  Packets  *)
(* may be lost (a disconnect empties the queue) and may be delivered in    *)
(* another order than they were handed in: the socket promises no more.    *)
(***************************************************************************)
EXTENDS Naturals, Sequences

CONSTANT Ids                  \* the identities a packet can have

VARIABLES
    submitted,                \* the packets handed in so far
    pending,                  \* those that may still reach the connection
    delivered                 \* those put on the connection, in that order

chanVars == <<submitted, pending, delivered>>

ChanInit ==
    /\ submitted = {}
    /\ pending = {}
    /\ delivered = << >>

Submit(p) ==
    /\ p \notin submitted
    /\ submitted' = submitted \cup {p}
    /\ pending' = pending \cup {p}
    /\ UNCHANGED delivered

Deliver(p) ==
    /\ p \in pending
    /\ pending' = pending \ {p}
    /\ delivered' = Append(delivered, p)
    /\ UNCHANGED submitted

Lose ==
    /\ pending' \in SUBSET pending
    /\ UNCHANGED <<submitted, delivered>>

ChanNext ==
    \/ \E p \in Ids : Submit(p) \/ Deliver(p)
    \/ Lose

ChanSpec == ChanInit /\ [][ChanNext]_chanVars
===============================================================================
