------------------------------- MODULE Chain -------------------------------
(***************************************************************************)
(* The block tree a Cardano node selects its chain from.  A block hash     *)
(* commits to the whole history below it, so a block stands for its point  *)
(* (slot, hash) and for the chain that ends in it.                         *)
(***************************************************************************)
EXTENDS Naturals

CONSTANTS
    Block,      \* every block of every fork, the genesis point included
    Origin,     \* Point::Origin
    Parent,     \* the block a block extends
    Slot,       \* abs_slot of a block; slot_or_default() of Origin is 0
    Ancestors   \* the blocks of the chain that ends in a block, itself included

ASSUME OriginAssumption == Origin \in Block

ASSUME ParentAssumption == Parent \in [Block \ {Origin} -> Block]

\* Slots never decrease along a chain (a boundary block may share its slot
\* with its successor).
ASSUME SlotAssumption ==
    /\ Slot \in [Block -> Nat]
    /\ Slot[Origin] = 0
    /\ \A b \in Block : \A a \in Ancestors[b] : Slot[a] <= Slot[b]

\* Ancestors is the reflexive and transitive closure of Parent: every chain
\* starts at Origin and never forks backwards.
ASSUME AncestorsAssumption ==
    /\ Ancestors \in [Block -> SUBSET Block]
    /\ Ancestors[Origin] = {Origin}
    /\ \A b \in Block \ {Origin} : Ancestors[b] = {b} \cup Ancestors[Parent[b]]
    /\ \A b \in Block \ {Origin} : b \notin Ancestors[Parent[b]]

ASSUME ChainAssumption ==
    \A b \in Block :
        /\ Origin \in Ancestors[b]
        /\ \A a \in Ancestors[b] : Ancestors[a] \subseteq Ancestors[b]

\* The newest block two chains share.
IsForkPoint(c, a, b) ==
    /\ c \in Ancestors[a] \cap Ancestors[b]
    /\ \A d \in Ancestors[a] \cap Ancestors[b] : d \in Ancestors[c]
=============================================================================
