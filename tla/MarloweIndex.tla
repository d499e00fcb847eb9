---------------------------- MODULE MarloweIndex ----------------------------
(***************************************************************************)
(* The Marlowe worker (src/modules/marlowe/worker.rs), the index it keeps  *)
(* (src/modules/marlowe/state.rs) and the start of the process that        *)
(* resumes from it (src/main.rs).                                          *)
(*                                                                         *)
(* The worker is fed the events ChainFollower allows.  It looks the inputs *)
(* of every transaction up among the outputs it knows to be Marlowe        *)
(* contracts, derives the new version of each contract, and writes it to   *)
(* the database and to three tables in memory.  Every write to the         *)
(* database is a step of its own, and the process can stop between any     *)
(* two steps; what is in memory is then lost.                              *)
(***************************************************************************)
EXTENDS Chain, Sequences, FiniteSets, Selection

CONSTANTS
    BlockNumber,    \* the number of a block, from which short ids are made
    Tx,             \* transactions
    TxsOf,          \* the transactions of a block, in order
    Inputs,         \* the outputs a transaction consumes, in order
    Outputs,        \* the kinds of the outputs a transaction produces, in order
    Redeemers,      \* the input indexes a transaction carries a redeemer for
    Start,          \* the default intersect point of the network
    ForksReturn,    \* may the node return to a chain it has abandoned?
    None,           \* Rust's None
    MaxRollbacks,   \* bound on roll backs and reconnections while running
    MaxCrashes      \* bound on stops of the process

(***************************************************************************)
(* An output is, to this program, of one of these kinds:                   *)
(*   "other"  not at the address of a known Marlowe validator              *)
(*   "open"   Marlowe, with a datum whose contract can go on               *)
(*   "close"  Marlowe, with a datum whose contract is Close                *)
(*   "hash"   Marlowe, with only the hash of its datum; the datum is not   *)
(*            known before the output is consumed                          *)
(*   "bad"    at the address, without a datum that can be read             *)
(***************************************************************************)
Kinds == {"other", "open", "close", "hash", "bad"}

\* OutputReference.
OutRef == [tx : Tx, index : Nat]

ASSUME LedgerAssumption ==
    /\ BlockNumber \in [Block -> Nat]
    /\ TxsOf \in [Block -> Seq(Tx)]
    /\ Inputs \in [Tx -> Seq(OutRef)]
    /\ Outputs \in [Tx -> Seq(Kinds)]
    /\ Redeemers \in [Tx -> SUBSET Nat]
    /\ Start \in Block

\* Marlowe exists only where the slots of a chain are strictly increasing.
ASSUME StrictSlotAssumption ==
    \A b \in Block : \A a \in Ancestors[b] \ {b} : Slot[a] < Slot[b]

ASSUME NoneAssumption == None \notin Block \cup Nat \cup OutRef

ASSUME BoundsAssumption ==
    /\ ForksReturn \in BOOLEAN
    /\ MaxRollbacks \in Nat
    /\ MaxCrashes \in Nat

VARIABLES
    \* the worker
    wpc,            \* where the worker is in the handling of an event
    followed,       \* the chain the events handled so far describe
    at,             \* the number of transactions of the block already read
    todo,           \* the MarloweEvents of the current transaction to apply
    evt,            \* the MarloweEvent the last step put on evt_main_chan
    \* on disk
    db,             \* contracts_db: contracts by short id
    lastSlot,       \* state_db "last_seen_slot_num"
    lastHash,       \* state_db "index_tip_block_hash"
    \* in memory
    cache,          \* contracts_mem_cache: contracts by short id
    ids,            \* contracts_long_to_short_lookup
    refs,           \* out_ref_to_short_id_lookup
    rollbacks, crashes

disk == <<db, lastSlot, lastHash>>
memory == <<cache, ids, refs>>
bounds == <<rollbacks, crashes>>
vars == <<wpc, followed, at, todo, evt, db, lastSlot, lastHash, cache, ids,
          refs, rollbacks, crashes>>

AsPoint(b) == IF b = Origin THEN None ELSE b

-----------------------------------------------------------------------------
(* Contracts and transitions.                                              *)

Transition == [tx : Tx, index : Nat, end : BOOLEAN, slot : Nat, block : Block,
               datum : {"open", "close", None}, hashed : BOOLEAN]

ShortId == Seq(0..9)

Contract == [id : OutRef, short : ShortId, transitions : Seq(Transition)]

MarloweEvent == [kind : {"Add", "Update", "Close"}, contract : Contract]

\* u64's Display.
Digits[n \in Nat] == IF n < 10 THEN <<n>> ELSE Append(Digits[n \div 10], n % 10)

\* Mutant: the output index is left out of the short id.
MakeShortIdOfTx(b, n, i) == Digits[BlockNumber[b]] \o Digits[n]

\* format!("{}{}{}", block_num, tx_index, i): base58 only renames the result.
MakeShortId(b, n, i) == Digits[BlockNumber[b]] \o Digits[n] \o Digits[i]

LastTransition(c) == c.transitions[Len(c.transitions)]

\* Mutant: the end of the contract is not looked at.
OutRefEvenIfEnded(c) ==
    [tx |-> LastTransition(c).tx, index |-> LastTransition(c).index]

\* get_out_ref_if_still_active
OutRefIfActive(c) ==
    IF LastTransition(c).end THEN None
    ELSE [tx |-> LastTransition(c).tx, index |-> LastTransition(c).index]

\* read_marlowe_info_from_utxo
DatumOf(kind) == IF kind \in {"open", "close"} THEN kind ELSE None
HasHash(kind) == kind \in {"open", "close", "hash"}

\* The outputs of a transaction at the address of a known validator.
MarloweOutputs(t) == {i \in 0..Len(Outputs[t]) - 1 : Outputs[t][i + 1] # "other"}

-----------------------------------------------------------------------------
(* apply_transaction.                                                      *)

\* The inputs that are found by get_by_outref.
ConsumedInputs(t) == {n \in 1..Len(Inputs[t]) : Inputs[t][n] \in DOMAIN refs}

ConsumedShort(t, n) == refs[Inputs[t][n]].short

\* The looked up contract must be in the database and must not have ended.  (The
\* comparison of its tx_id with "hash#index" never holds and is left out.)
LookupPanics(t) == \E n \in ConsumedInputs(t) :
    \/ ConsumedShort(t, n) \notin DOMAIN db
    \/ LastTransition(db[ConsumedShort(t, n)]).end

\* Consuming a Marlowe output takes a redeemer for that input, at most one
\* Marlowe output, and at least the hash of the consumed datum.
StepPanics(t, n) ==
    \/ n - 1 \notin Redeemers[t]
    \/ Cardinality(MarloweOutputs(t)) > 1
    \/ LET last == LastTransition(db[ConsumedShort(t, n)])
       IN  last.datum = None /\ ~last.hashed

\* The transition keeps the index of the consumed output.
NewTransition(t, b, n) ==
    LET out == MarloweOutputs(t)
        kind == IF out = {} THEN "other"
                ELSE Outputs[t][1 + CHOOSE i \in out : \A j \in out : i <= j]
    IN  [tx |-> t, index |-> Inputs[t][n].index, end |-> out = {},
         slot |-> Slot[b], block |-> b, datum |-> DatumOf(kind),
         hashed |-> HasHash(kind)]

\* The consumed datum is attached to the previous transition if it was
\* known only by its hash; the chain lets nothing but an open contract step.
Reveal(transitions) ==
    [transitions EXCEPT ![Len(transitions)].datum = IF @ = None THEN "open" ELSE @]

\* Mutant: the version that is stepped comes from the cache.
StepEventOnCached(t, b, n) ==
    IF StepPanics(t, n) THEN [kind |-> "Panic"]
    ELSE LET old == cache[ConsumedShort(t, n)]
             new == NewTransition(t, b, n)
         IN  [kind |-> IF new.end \/ new.datum # "open" THEN "Close" ELSE "Update",
              contract |-> [old EXCEPT !.transitions = Append(Reveal(@), new)]]

\* A transition without a datum counts as closed.
StepEvent(t, b, n) ==
    IF StepPanics(t, n) THEN [kind |-> "Panic"]
    ELSE LET old == db[ConsumedShort(t, n)]
             new == NewTransition(t, b, n)
         IN  [kind |-> IF new.end \/ new.datum # "open" THEN "Close" ELSE "Update",
              contract |-> [old EXCEPT !.transitions = Append(Reveal(@), new)]]

\* A transaction that consumes no known contract: a contract per readable
\* Marlowe output.
AddEvent(t, b, n, i) ==
    [kind |-> "Add",
     contract |->
        [id |-> [tx |-> t, index |-> i],
         short |-> MakeShortId(b, n, i),
         transitions |-> <<[tx |-> t, index |-> i, end |-> FALSE,
                            slot |-> Slot[b], block |-> b,
                            datum |-> DatumOf(Outputs[t][i + 1]),
                            hashed |-> TRUE]>>]]

\* The positions of the Marlowe outputs whose datum can be read.
Readable(t) == {k \in 1..Len(Outputs[t]) : Outputs[t][k] \notin {"other", "bad"}}

\* Mutant: the outputs of a step are taken for new contracts as well.
EventsOfBoth(t, b, n) ==
    LET stepped == Keep([k \in 1..Len(Inputs[t]) |-> k], ConsumedInputs(t))
        added == Keep([k \in 1..Len(Outputs[t]) |-> k - 1], Readable(t))
    IN  [k \in DOMAIN stepped |-> StepEvent(t, b, stepped[k])]
        \o [k \in DOMAIN added |-> AddEvent(t, b, n, added[k])]

\* The events of the n-th transaction (from 0) of block b, in order.
EventsOf(t, b, n) ==
    LET stepped == Keep([k \in 1..Len(Inputs[t]) |-> k], ConsumedInputs(t))
        added == Keep([k \in 1..Len(Outputs[t]) |-> k - 1], Readable(t))
    IN  IF stepped # <<>>
        THEN [k \in DOMAIN stepped |-> StepEvent(t, b, stepped[k])]
        ELSE [k \in DOMAIN added |-> AddEvent(t, b, n, added[k])]

-----------------------------------------------------------------------------
(* MarloweState.                                                           *)

\* HashMap::insert, and HashMap::remove.
Put(f, k, v) == [x \in DOMAIN f \cup {k} |-> IF x = k THEN v ELSE f[x]]
Drop(f, k) == [x \in DOMAIN f \ {k} |-> f[x]]

\* init_mem_cache
LoadIds(store) == [i \in {store[s].id : s \in DOMAIN store} |->
                        CHOOSE s \in DOMAIN store : store[s].id = i]

\* apply_internal unwraps the version it replaces and the reference to it.
ApplyPanics(e) ==
    /\ e.kind # "Add"
    /\ \/ e.contract.short \notin DOMAIN db
       \/ LET old == OutRefIfActive(db[e.contract.short])
          IN  old # None /\ old \notin DOMAIN refs

\* Mutant: a Close event adds no reference.
ReplaceRefUnlessClosed(e) ==
    LET c == e.contract
        kept == IF e.kind = "Add" THEN refs
                ELSE Drop(refs, OutRefIfActive(db[c.short]))
        ref == OutRefIfActive(c)
    IN  IF ref = None \/ e.kind = "Close" THEN kept
        ELSE Put(kept, ref, [slot |-> LastTransition(c).slot, short |-> c.short])

\* The reference to the replaced version is dropped and one to the new
\* version is added, if they have not ended.
ReplaceRef(e) ==
    LET c == e.contract
        kept == IF e.kind = "Add" THEN refs
                ELSE Drop(refs, OutRefIfActive(db[c.short]))
        ref == OutRefIfActive(c)
    IN  IF ref = None THEN kept
        ELSE Put(kept, ref, [slot |-> LastTransition(c).slot, short |-> c.short])

\* Mutant: the block that is rolled back to is undone as well.
TruncateThere(c, slot) ==
    [c EXCEPT !.transitions = Keep(@, {k \in DOMAIN @ : @[k].slot < slot})]

\* What remains of a contract that is rolled back to a slot.
Truncate(c, slot) ==
    [c EXCEPT !.transitions = Keep(@, {k \in DOMAIN @ : @[k].slot <= slot})]

\* Mutant: the roll back keeps one slot too many.
RollbackDbByOne(store, slot) ==
    [s \in {x \in DOMAIN store : Truncate(store[x], slot + 1).transitions # <<>>} |->
        Truncate(store[s], slot + 1)]

\* Mutant: contracts left without a transition are kept.
RollbackDbKeepsEmpty(store, slot) ==
    [s \in DOMAIN store |-> Truncate(store[s], slot)]

\* The transaction of rollback: truncated contracts, less the empty ones.
RollbackDb(store, slot) ==
    [s \in {x \in DOMAIN store : Truncate(store[x], slot).transitions # <<>>} |->
        Truncate(store[s], slot)]

\* out_ref_to_short_id_lookup.retain(slot > slot_num)
RetainRefs(table, slot) ==
    [o \in {x \in DOMAIN table : table[x].slot > slot} |-> table[o]]

-----------------------------------------------------------------------------
(* The process starts and stops.                                           *)

Init ==
    /\ wpc = "down"
    /\ followed = Start
    /\ at = 0
    /\ todo = <<>>
    /\ evt = None
    /\ db = <<>>
    /\ lastSlot = None
    /\ lastHash = None
    /\ cache = <<>>
    /\ ids = <<>>
    /\ refs = <<>>
    /\ rollbacks = 0
    /\ crashes = 0

\* The process stops anywhere and loses its memory.
Crash ==
    /\ wpc \notin {"down", "refused"}
    /\ crashes < MaxCrashes
    /\ crashes' = crashes + 1
    /\ wpc' = "down"
    /\ at' = 0
    /\ todo' = <<>>
    /\ evt' = None
    /\ cache' = <<>>
    /\ ids' = <<>>
    /\ refs' = <<>>
    /\ UNCHANGED <<followed, disk, rollbacks>>

\* The points the node's first answer can take the worker back to: the
\* saved point if it is a point of the node's chain, else the origin.
ResumePoints ==
    {Origin} \cup
    IF lastHash = None THEN {Start}
    ELSE {b \in {lastHash} : /\ Slot[b] = lastSlot
                             /\ b \in Ancestors[followed] \/ ForksReturn}

\* main: the cache is loaded, the references are not; half a saved point is
\* an "inconsistent state".
Restart ==
    /\ wpc = "down"
    /\ IF (lastSlot = None) # (lastHash = None)
       THEN /\ wpc' = "refused"
            /\ UNCHANGED <<followed, memory>>
       ELSE /\ wpc' = "resuming"
            /\ followed' \in ResumePoints
            /\ cache' = db
            /\ ids' = LoadIds(db)
            /\ refs' = <<>>
    /\ UNCHANGED <<at, todo, evt, disk, bounds>>

-----------------------------------------------------------------------------
(* handle_event: ChainSyncEvent::Block.                                    *)

\* Mutant: the position is saved before the block is applied.
HandleBlockSavesFirst ==
    /\ wpc = "idle"
    /\ \E b \in Block \ {Origin} :
          /\ Parent[b] = followed
          /\ followed' = b
          /\ lastHash' = b
          /\ lastSlot' = Slot[b]
    /\ at' = 0
    /\ evt' = None
    /\ wpc' = "block"
    /\ UNCHANGED <<todo, db, memory, bounds>>

HandleBlock ==
    /\ wpc = "idle"
    /\ \E b \in Block \ {Origin} :
          /\ Parent[b] = followed
          /\ followed' = b
    /\ at' = 0
    /\ evt' = None
    /\ wpc' = "block"
    /\ UNCHANGED <<todo, disk, memory, bounds>>

\* apply_transaction up to its first event: every input is looked up before
\* anything is written.
ReadTransaction ==
    /\ wpc = "block"
    /\ todo = <<>>
    /\ at < Len(TxsOf[followed])
    /\ LET t == TxsOf[followed][at + 1]
       IN  IF LookupPanics(t)
           THEN wpc' = "panicked" /\ UNCHANGED todo
           ELSE wpc' = wpc /\ todo' = EventsOf(t, followed, at)
    /\ at' = at + 1
    /\ evt' = None
    /\ UNCHANGED <<followed, disk, memory, bounds>>

\* apply: insert writes the cache (only if the contract is new to it), the
\* long id and the database, then the references change and the event is
\* sent.
Apply ==
    /\ wpc = "block"
    /\ todo # <<>>
    /\ LET e == Head(todo)
       IN  IF e.kind = "Panic"
           THEN /\ wpc' = "panicked"
                /\ evt' = None
                /\ UNCHANGED <<db, memory>>
           ELSE /\ db' = Put(db, e.contract.short, e.contract)
                /\ cache' = IF e.contract.short \in DOMAIN cache THEN cache
                            ELSE Put(cache, e.contract.short, e.contract)
                /\ ids' = Put(ids, e.contract.id, e.contract.short)
                /\ IF ApplyPanics(e)
                   THEN wpc' = "panicked" /\ evt' = None /\ UNCHANGED refs
                   ELSE wpc' = wpc /\ evt' = e /\ refs' = ReplaceRef(e)
    /\ todo' = Tail(todo)
    /\ UNCHANGED <<followed, at, lastSlot, lastHash, bounds>>

\* The three writes that save the position are separate; known_chain_tip,
\* the one in the middle, is never read.
SaveHash ==
    /\ wpc = "block"
    /\ todo = <<>>
    /\ at = Len(TxsOf[followed])
    /\ lastHash' = followed
    /\ evt' = None
    /\ wpc' = "saving"
    /\ UNCHANGED <<followed, at, todo, db, lastSlot, memory, bounds>>

SaveSlot ==
    /\ wpc = "saving"
    /\ lastSlot' = Slot[followed]
    /\ at' = 0
    /\ wpc' = "idle"
    /\ UNCHANGED <<followed, todo, evt, db, lastHash, memory, bounds>>

-----------------------------------------------------------------------------
(* handle_event: ChainSyncEvent::Rollback.                                 *)

\* Mutant: the cache is not initialised again.
RollbackContractsOnDisk(p) ==
    /\ refs' = RetainRefs(refs, Slot[p])
    /\ db' = RollbackDb(db, Slot[p])
    /\ UNCHANGED <<cache, ids>>
    /\ evt' = None
    /\ wpc' = "rolling"

\* rollback up to the re-initialised cache.
RollbackContracts(p) ==
    /\ refs' = RetainRefs(refs, Slot[p])
    /\ db' = RollbackDb(db, Slot[p])
    /\ cache' = db'
    /\ ids' = LoadIds(db')
    /\ evt' = None
    /\ wpc' = "rolling"

HandleRollback ==
    /\ wpc = "idle"
    /\ rollbacks < MaxRollbacks
    /\ rollbacks' = rollbacks + 1
    /\ \E p \in Ancestors[followed] :
          /\ followed' = p
          /\ RollbackContracts(p)
    /\ UNCHANGED <<at, todo, lastSlot, lastHash, crashes>>

\* The first event of every connection is a roll back to where it starts.
FirstRollback ==
    /\ wpc = "resuming"
    /\ RollbackContracts(followed)
    /\ UNCHANGED <<followed, at, todo, lastSlot, lastHash, bounds>>

SaveRollbackSlot ==
    /\ wpc = "rolling"
    /\ lastSlot' = Slot[followed]
    /\ wpc' = "rolled"
    /\ UNCHANGED <<followed, at, todo, evt, db, lastHash, memory, bounds>>

SaveRollbackHash ==
    /\ wpc = "rolled"
    /\ lastHash' = AsPoint(followed)
    /\ wpc' = "idle"
    /\ UNCHANGED <<followed, at, todo, evt, db, lastSlot, memory, bounds>>

-----------------------------------------------------------------------------

Next ==
    \/ Restart \/ Crash
    \/ HandleBlock \/ ReadTransaction \/ Apply \/ SaveHash \/ SaveSlot
    \/ HandleRollback \/ FirstRollback \/ SaveRollbackSlot \/ SaveRollbackHash

Spec == Init /\ [][Next]_vars

-----------------------------------------------------------------------------
(* What the chain says, independently of what the worker looks up.         *)

Elements(seq) == {seq[k] : k \in DOMAIN seq}

\* The readable Marlowe outputs of a transaction.
Contracts(t) == {[tx |-> t, index |-> i] :
                    i \in {j \in MarloweOutputs(t) : Outputs[t][j + 1] # "bad"}}

\* The Marlowe contracts a transaction moves on or ends.
Moved(t) == {o \in Elements(Inputs[t]) : o \in Contracts(o.tx)}

\* The transactions of the blocks of a chain that are indexed.
ChainTxs(b) == UNION {Elements(TxsOf[a]) : a \in Ancestors[b] \ Ancestors[Start]}

\* The outputs that create contracts, and those that have not been consumed.
Created(b) == UNION {Contracts(t) : t \in {u \in ChainTxs(b) : Moved(u) = {}}}
Unspent(b) == (UNION {Contracts(t) : t \in ChainTxs(b)})
              \ (UNION {Moved(t) : t \in ChainTxs(b)})

IndexedIds == {db[s].id : s \in DOMAIN db}

-----------------------------------------------------------------------------
(* What the program relies on and cannot check: rules of the ledger and of *)
(* the Marlowe validators, and short ids that happen not to collide.       *)

\* The transactions of a chain up to the n-th of its last block.
TxsUpTo(b, n) ==
    (UNION {Elements(TxsOf[a]) : a \in Ancestors[b] \ {b}})
    \cup {TxsOf[b][k] : k \in 1..n}

\* A transaction is on a chain once.  (The blocks are a parameter, here and
\* below, because TLC evaluates what has none in every run.)
TransactionsDiffer(blocks) ==
    \A b \in blocks : \A a \in Ancestors[b] :
        \A j \in DOMAIN TxsOf[a], k \in DOMAIN TxsOf[b] :
            TxsOf[a][j] = TxsOf[b][k] => a = b /\ j = k

\* The digits of two positions on a chain that contracts are at, one after the
\* other as a short id has them, differ.
ShortIdsDiffer(blocks) ==
    \A b \in blocks : \A a \in Ancestors[b] :
        \A j \in DOMAIN TxsOf[a], k \in DOMAIN TxsOf[b] :
            \A o \in Contracts(TxsOf[a][j]), p \in Contracts(TxsOf[b][k]) :
                Digits[BlockNumber[a]] \o Digits[j - 1] \o Digits[o.index]
                  = Digits[BlockNumber[b]] \o Digits[k - 1] \o Digits[p.index]
                    => a = b /\ j = k /\ o = p

\* The inputs of a transaction are different, and the contracts among them
\* come from earlier transactions of its chain.
InputsAreEarlier(blocks) ==
    \A b \in blocks : \A k \in DOMAIN TxsOf[b] :
        LET t == TxsOf[b][k]
        IN  /\ \A m, n \in DOMAIN Inputs[t] : Inputs[t][m] = Inputs[t][n] => m = n
            /\ \A o \in Moved(t) : o.tx \in TxsUpTo(b, k - 1)

\* A contract is moved with a redeemer, and what goes on is one output with a
\* datum, at the same output index (as the program assumes).
ContractsKeepIndex(blocks) ==
    \A b \in blocks : \A t \in Elements(TxsOf[b]) : \A n \in DOMAIN Inputs[t] :
        Inputs[t][n] \in Moved(t) =>
            /\ n - 1 \in Redeemers[t]
            /\ \A i \in MarloweOutputs(t) : /\ i = Inputs[t][n].index
                                          /\ Outputs[t][i + 1] # "bad"

\* A contract is moved once on a chain.
ContractsMoveOnce(blocks) ==
    \A b \in blocks : \A a \in Ancestors[b] :
        \A j \in DOMAIN TxsOf[a], k \in DOMAIN TxsOf[b] :
            Moved(TxsOf[a][j]) \cap Moved(TxsOf[b][k]) # {} => a = b /\ j = k

\* The default intersect point is before every contract.
NoContractsUpTo(start) ==
    \A a \in Ancestors[start] : \A t \in Elements(TxsOf[a]) : Contracts(t) = {}

-----------------------------------------------------------------------------
(* Properties.                                                             *)

IsContractTable(f) ==
    /\ \A s \in DOMAIN f : s \in ShortId /\ f[s] \in Contract
    /\ \A s \in DOMAIN f : f[s].short = s /\ f[s].transitions # <<>>

TypeOK ==
    /\ wpc \in {"down", "refused", "panicked", "resuming", "idle", "block",
                "saving", "rolling", "rolled"}
    /\ followed \in Block
    /\ at \in Nat
    /\ \A k \in DOMAIN todo : todo[k] \in MarloweEvent \cup [kind : {"Panic"}]
    /\ evt \in MarloweEvent \cup {None}
    /\ IsContractTable(db)
    /\ IsContractTable(cache)
    /\ lastSlot \in Nat \cup {None}
    /\ lastHash \in Block \cup {None}
    /\ \A i \in DOMAIN ids : i \in OutRef /\ ids[i] \in ShortId
    /\ \A o \in DOMAIN refs : o \in OutRef /\ refs[o] \in [slot : Nat, short : ShortId]
    /\ rollbacks \in 0..MaxRollbacks
    /\ crashes \in 0..MaxCrashes

\* After every handled event the database holds only what is on the chain
\* followed: roll backs by slot, and the roll back that follows a stop in
\* the middle of a block, leave nothing of an abandoned block behind.
DbOnChain ==
    wpc = "idle" => \A s \in DOMAIN db : \A k \in DOMAIN db[s].transitions :
                        db[s].transitions[k].block \in Ancestors[followed]

\* After every handled event each contract created on the chain followed is
\* in the database, through forks, reconnections and stops at any write.
CreationsIndexed == wpc = "idle" => Created(followed) \subseteq IndexedIds

\* In every state, also in the middle of a write and while the process is
\* down: if the saved slot and hash are one point of the chain, everything
\* created up to it is on disk, so that resuming there misses nothing.
ResumePointCovered ==
    lastHash # None /\ lastHash \in Ancestors[followed] /\ lastSlot = Slot[lastHash]
        => Created(lastHash) \subseteq IndexedIds

\* The cache the queries read has the contracts of the database under the
\* same short and long ids while the worker is up; a cached version may lack
\* the newest transitions but is never another history.
CacheFollowsDb ==
    wpc \in {"idle", "block", "saving", "rolling", "rolled"} =>
        /\ DOMAIN cache = DOMAIN db
        /\ DOMAIN ids = IndexedIds
        /\ \A s \in DOMAIN db :
              /\ ids[db[s].id] = s
              /\ cache[s].id = db[s].id
              /\ Len(cache[s].transitions) <= Len(db[s].transitions)
              /\ \A k \in DOMAIN cache[s].transitions :
                    cache[s].transitions[k].tx = db[s].transitions[k].tx

\* A stored contract is a chain of outputs in time: every transition consumes
\* the output its predecessor stands for, in the same or in a later block of
\* the same chain, and nothing follows the end.
HistoryIsLinked ==
    \A s \in DOMAIN db : \A k \in 2..Len(db[s].transitions) :
        LET before == db[s].transitions[k - 1]
            after == db[s].transitions[k]
        IN  /\ [tx |-> before.tx, index |-> before.index] \in Elements(Inputs[after.tx])
            /\ before.block \in Ancestors[after.block]
            /\ ~before.end

\* No unwrap, expect or panic! of the worker is reached on any fork, after
\* any roll back or restart, as long as contracts keep their output index.
NoWorkerPanic == wpc # "panicked"

\* A new contract never takes the place of one that is stored, although the
\* same block is applied again after a stop and short ids are made of
\* positions that two forks share.
NeverOverwrites ==
    [][evt' # None /\ evt'.kind = "Add" => evt'.contract.short \notin DOMAIN db]_vars

\* As long as the process has neither stopped nor rolled back, every unspent
\* contract output of the chain is found by its reference, and no other
\* output is.
LookupComplete ==
    wpc = "idle" /\ rollbacks = 0 /\ crashes = 0 =>
        /\ DOMAIN refs = Unspent(followed)
        /\ \A o \in DOMAIN refs :
              /\ refs[o].short \in DOMAIN db
              /\ OutRefIfActive(db[refs[o].short]) = o

\* As long as the process has neither stopped nor rolled back, the contracts
\* are those created on the chain and no step is taken for a new contract.
NoPhantomContract ==
    wpc = "idle" /\ rollbacks = 0 /\ crashes = 0 => IndexedIds = Created(followed)

\* The facts about contracts that are on disk.
Facts == UNION {{[contract |-> db[s].id, tx |-> db[s].transitions[k].tx,
                  block |-> db[s].transitions[k].block,
                  end |-> db[s].transitions[k].end] :
                    k \in DOMAIN db[s].transitions} : s \in DOMAIN db}

\* The database as such, in every state and not only between events, is an
\* index of one chain: blocks half applied, roll backs by slot, stops between
\* any two writes and the roll back after a restart show in it as facts
\* recorded one by one and forgotten down to a point.
Index == INSTANCE ChainIndex WITH facts <- Facts
ImplementsChainIndex == Index!Spec

\* state.rs:195 "drop refs to anything later than slot_num".
RefsNotFromTheFuture ==
    wpc = "idle" => \A o \in DOMAIN refs : refs[o].slot <= Slot[followed]

\* state.rs:382 "contracts that have not ended [...] can be found by the
\* out_ref".
ActiveFoundByOutRef ==
    wpc = "idle" => \A s \in DOMAIN db :
        OutRefIfActive(db[s]) # None => OutRefIfActive(db[s]) \in DOMAIN refs

\* state.rs:457 "we add a this out as a ref to the lookup table so we find it
\* fast when it is stepped or closed": a reference is a contract output.
RefsAreContractOutputs == \A o \in DOMAIN refs : o \in Contracts(o.tx)

\* main.rs:137 panics with "inconsistent state" for half a saved point.
StartupStateIsConsistent == wpc # "refused"
=============================================================================
