--------------------------- MODULE ChainSyncState ---------------------------
(***************************************************************************)
(* ChainSyncState (src/core/lib.rs): the published position of the         *)
(* indexer.  It is a set of atomic cells, and handle_sync_response stores  *)
(* a reply of the node into them one after the other, in an order that     *)
(* depends on the transport and the reply.  tip_block_hash is read by      *)
(* nobody and left out.                                                    *)
(***************************************************************************)
EXTENDS Chain, Integers, Sequences, FiniteSets

CONSTANT None           \* Rust's None

\* A block has a number.
ASSUME FiniteChainAssumption == \A b \in Block : IsFiniteSet(Ancestors[b])

\* tip_block_number, tip_abs_slot, current_block_abs_slot, current_block_number
Cells == {"tipNumber", "tipSlot", "slot", "number"}

\* Mutant: the number of the block before.
NumberOfParent(b) == Cardinality(Ancestors[b]) - 2

\* Block numbers; that of the origin is 0.
Number(b) == Cardinality(Ancestors[b]) - 1

Store(c, v) == <<c, v>>

TipStores(t) == <<Store("tipNumber", Number(t)), Store("tipSlot", Slot[t])>>

\* Mutant: over TCP the block is stored before the tip, as over a socket.
ForwardStoresBlockFirst(transport, b, t) ==
    <<Store("slot", Slot[b]), Store("number", Number(b))>> \o TipStores(t)

\* Mutant: the tip is left to the roll backs.
ForwardStoresBlock(transport, b, t) ==
    <<Store("slot", Slot[b]), Store("number", Number(b))>>

\* RollForward to block b, with the tip t.
ForwardStores(transport, b, t) ==
    LET own == <<Store("slot", Slot[b]), Store("number", Number(b))>>
    IN  IF transport = "N2N" THEN TipStores(t) \o own ELSE own \o TipStores(t)

\* Mutant: the tip is stored first, as for the origin.
RollBackStoresTipFirst(transport, p, t) ==
    TipStores(t) \o <<Store("slot", Slot[p]), Store("number", None)>>

\* Mutant: the slot that is rolled back to is not stored.
RollBackStoresTip(transport, p, t) == TipStores(t) \o <<Store("number", None)>>

\* RollBackward: to the origin, or to a point.  Over a socket the tip is
\* stored twice for a point.
RollBackStores(transport, p, t) ==
    LET none == Store("number", None)
    IN  CASE transport = "N2N" /\ p = Origin -> TipStores(t) \o <<Store("slot", None), none>>
          [] transport = "N2N" /\ p # Origin -> <<Store("slot", Slot[p]), none>> \o TipStores(t)
          [] transport = "N2C" /\ p = Origin -> <<Store("slot", 0), none>> \o TipStores(t)
          [] transport = "N2C" /\ p # Origin ->
                TipStores(t) \o <<Store("slot", Slot[p]), none>> \o TipStores(t)
=============================================================================
