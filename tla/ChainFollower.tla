--------------------------- MODULE ChainFollower ---------------------------
(***************************************************************************)
(* What the workers (the ChainSyncReceivers) may rely on: the events they  *)
(* are handed describe one chain, one block at a time.  A block is handed  *)
(* over only when its parent is the last block every worker has handled,   *)
(* so that none is skipped, repeated or out of order, and a roll back only *)
(* leads to a block of the chain they have handled.                        *)
(***************************************************************************)
EXTENDS Chain

CONSTANTS Workers, None

VARIABLES
    followed,       \* per worker, the last block of the chain it handled
    event           \* the event in the workers' hands, or None

Init ==
    /\ followed \in [Workers -> Block]
    /\ event = None

\* ChainSyncEvent::Block
Advance(b) ==
    /\ b # Origin
    /\ \A w \in Workers : Parent[b] = followed[w]
    /\ event' = [kind |-> "Block", point |-> b]

\* ChainSyncEvent::Rollback
Retreat(b) ==
    /\ \A w \in Workers : b \in Ancestors[followed[w]]
    /\ event' = [kind |-> "Rollback", point |-> b]

Hand ==
    /\ event = None
    /\ \E b \in Block : Advance(b) \/ Retreat(b)
    /\ UNCHANGED followed

\* Every worker has handled the event.
Handled ==
    /\ event # None
    /\ followed' = [w \in Workers |-> event.point]
    /\ event' = None

Next == Hand \/ Handled

Spec == Init /\ [][Next]_<<followed, event>>
=============================================================================
