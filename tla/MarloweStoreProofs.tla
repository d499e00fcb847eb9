------------------------- MODULE MarloweStoreProofs -------------------------
(***************************************************************************)
(* Proofs about the contracts MarloweIndex stores and caches, for every    *)
(* block tree on which a chain has a transaction once and the short ids of *)
(* its contracts differ.  Nothing is assumed of the transactions           *)
(* themselves, so all this holds also where steps are taken for new        *)
(* contracts.                                                              *)
(***************************************************************************)
EXTENDS MarloweIndexProofs

PositionRules == TransactionsDiffer(Block) /\ ShortIdsDiffer(Block)

(***************************************************************************)
(* The inductive invariant.                                                *)
(***************************************************************************)

First(c) == c.transitions[1]

\* A contract has the ids of the output it began with.
Born(c) ==
    \E k \in DOMAIN TxsOf[First(c).block] :
        /\ TxsOf[First(c).block][k] = c.id.tx
        /\ c.id \in Contracts(c.id.tx)
        /\ c.short = MakeShortId(First(c).block, k - 1, c.id.index)

\* A history is in the order of the slots.
Sorted(c) ==
    \A j, k \in DOMAIN c.transitions :
        j <= k => c.transitions[j].slot <= c.transitions[k].slot

\* c is a later version than d, or the same.
Longer(c, d) ==
    /\ Len(d.transitions) <= Len(c.transitions)
    /\ \A k \in DOMAIN d.transitions : c.transitions[k].tx = d.transitions[k].tx

SoundIn(table) == \A s \in DOMAIN table : Born(table[s]) /\ Sorted(table[s])

Real == {k \in DOMAIN todo : todo[k].kind # "Panic"}
Adds == {k \in DOMAIN todo : todo[k].kind = "Add"}

SoundTodo ==
    wpc = "block" => \A k \in Real : Born(todo[k].contract) /\ Sorted(todo[k].contract)

\* The contracts to be added are of the transaction that was read last, and
\* neither stored nor added twice.
AddsAreNew ==
    wpc = "block" =>
        \A k \in Adds :
            /\ at \in 1..Len(TxsOf[followed])
            /\ todo[k].contract.id.tx = TxsOf[followed][at]
            /\ \A s \in DOMAIN db : db[s].id # todo[k].contract.id
            /\ \A j \in Adds : j # k => todo[j].contract.id # todo[k].contract.id

\* Nothing of the transactions still to be read is stored, although the block
\* may have been read before a stop.
RestIsNew ==
    wpc = "block" =>
        \A s \in DOMAIN db : \A k \in at + 1..Len(TxsOf[followed]) :
            db[s].id.tx # TxsOf[followed][k]

\* The steps to be applied go on from what the cache has.
StepsFollowCache ==
    wpc = "block" =>
        \A k \in Real \ Adds :
            LET c == todo[k].contract
            IN  /\ c.short \in DOMAIN cache
                /\ c.id = cache[c.short].id
                /\ Longer(c, cache[c.short])

StoreInv ==
    SoundIn(db) /\ SoundTodo /\ AddsAreNew /\ RestIsNew /\ CacheFollowsDb /\ StepsFollowCache

(***************************************************************************)
(* Facts about positions.                                                  *)
(***************************************************************************)

\* On one chain a transaction has one position.
LEMMA OnePosition ==
  ASSUME PositionRules, NEW b \in Block, NEW x \in Ancestors[b], NEW y \in Ancestors[b],
         NEW j \in DOMAIN TxsOf[x], NEW k \in DOMAIN TxsOf[y], TxsOf[x][j] = TxsOf[y][k]
  PROVE  x = y /\ j = k
  <1>1. x \in Block /\ y \in Block
    BY AncestorFacts
  <1>2. x \in Ancestors[y] \/ y \in Ancestors[x]
    BY Comparable
  <1> QED
    BY <1>1, <1>2 DEF PositionRules, TransactionsDiffer

\* On one chain a short id stands for one contract.
LEMMA OneShort ==
  ASSUME PositionRules, NEW b \in Block, NEW x \in Ancestors[b], NEW y \in Ancestors[b],
         NEW j \in DOMAIN TxsOf[x], NEW k \in DOMAIN TxsOf[y],
         NEW o \in Contracts(TxsOf[x][j]), NEW p \in Contracts(TxsOf[y][k]),
         MakeShortId(x, j - 1, o.index) = MakeShortId(y, k - 1, p.index)
  PROVE  o = p
  <1>1. x \in Block /\ y \in Block
    BY AncestorFacts
  <1>2. x \in Ancestors[y] \/ y \in Ancestors[x]
    BY Comparable
  <1> DEFINE Written(a, l, i) == Digits[BlockNumber[a]] \o Digits[l - 1] \o Digits[i]
  <1>3. Written(x, j, o.index) = Written(y, k, p.index)
    BY DEF MakeShortId
  <1>4. \A c \in Block : \A a \in Ancestors[c] :
          \A l \in DOMAIN TxsOf[a], m \in DOMAIN TxsOf[c] :
            \A q \in Contracts(TxsOf[a][l]), r \in Contracts(TxsOf[c][m]) :
              Written(a, l, q.index) = Written(c, m, r.index) => a = c /\ l = m /\ q = r
    BY DEF PositionRules, ShortIdsDiffer
  <1> HIDE DEF Written
  <1>5. CASE x \in Ancestors[y]
    BY <1>1, <1>3, <1>4, <1>5
  <1>6. CASE y \in Ancestors[x]
    BY <1>1, <1>3, <1>4, <1>6
  <1> QED
    BY <1>2, <1>5, <1>6

\* The block a contract began in.
LEMMA FirstFacts ==
  ASSUME NEW b \in Block, NEW c \in Version, OnChain(c, b)
  PROVE  1 \in DOMAIN c.transitions /\ First(c).block \in Ancestors[b]
  <1>1. 1 \in DOMAIN c.transitions
    BY VersionFacts
  <1> QED
    BY <1>1 DEF OnChain, First

\* Of two contracts of a chain, either both ids are the same or none is.
LEMMA IdsTogether ==
  ASSUME PositionRules, NEW b \in Block, NEW c \in Version, NEW d \in Version,
         OnChain(c, b), OnChain(d, b), Born(c), Born(d)
  PROVE  c.id = d.id <=> c.short = d.short
  <1> DEFINE x == First(c).block
             y == First(d).block
  <1>1. x \in Ancestors[b] /\ y \in Ancestors[b]
    BY FirstFacts
  <1>2. PICK j \in DOMAIN TxsOf[x] : /\ TxsOf[x][j] = c.id.tx
                                     /\ c.id \in Contracts(c.id.tx)
                                     /\ c.short = MakeShortId(x, j - 1, c.id.index)
    BY DEF Born
  <1>3. PICK k \in DOMAIN TxsOf[y] : /\ TxsOf[y][k] = d.id.tx
                                     /\ d.id \in Contracts(d.id.tx)
                                     /\ d.short = MakeShortId(y, k - 1, d.id.index)
    BY DEF Born
  <1> HIDE DEF x, y
  <1>4. CASE c.id = d.id
    <2>1. x = y /\ j = k
      BY <1>1, <1>2, <1>3, <1>4, OnePosition
    <2> QED
      BY <2>1, <1>2, <1>3, <1>4
  <1>5. CASE c.short = d.short
    <2>1. c.id \in Contracts(TxsOf[x][j]) /\ d.id \in Contracts(TxsOf[y][k])
      BY <1>2, <1>3
    <2>2. MakeShortId(x, j - 1, c.id.index) = MakeShortId(y, k - 1, d.id.index)
      BY <1>2, <1>3, <1>5
    <2>3. c.id = d.id
      BY <1>1, <2>1, <2>2, OneShort
    <2> QED
      BY <2>3, <1>5
  <1> QED
    BY <1>4, <1>5

(***************************************************************************)
(* Facts about histories.                                                  *)
(***************************************************************************)

\* A roll back keeps the beginning of a history, up to the slot.
LEMMA TruncateIsBeginning ==
  ASSUME NEW c \in Version, Sorted(c), NEW slot \in Nat
  PROVE  LET d == Truncate(c, slot)
         IN  /\ d.id = c.id /\ d.short = c.short
             /\ d.transitions \in Seq(Transition)
             /\ Len(d.transitions) <= Len(c.transitions)
             /\ DOMAIN d.transitions = {k \in DOMAIN c.transitions : c.transitions[k].slot <= slot}
             /\ \A k \in DOMAIN d.transitions : d.transitions[k] = c.transitions[k]
  <1> DEFINE ts == c.transitions
             P == {k \in DOMAIN ts : ts[k].slot <= slot}
             kept == Keep(ts, P)
  <1>1. ts \in Seq(Transition) /\ c \in Versions(OutRef, ShortId)
    BY VersionFacts
  <1>2. Truncate(c, slot) = [c EXCEPT !.transitions = kept]
    BY DEF Truncate
  <1>3. \A p \in P : \A j \in DOMAIN ts : j < p => j \in P
    <2> TAKE p \in P
    <2> TAKE j \in DOMAIN ts
    <2> HAVE j < p
    <2>1. ts[j].slot <= ts[p].slot
      BY <1>1 DEF Sorted
    <2>2. ts[j] \in Transition /\ ts[p] \in Transition
      BY <1>1
    <2>3. ts[j].slot \in Nat /\ ts[p].slot \in Nat /\ ts[p].slot <= slot
      BY <2>2 DEF Transition
    <2> QED
      BY <2>1, <2>3
  <1>4. P \in SUBSET (DOMAIN ts)
    OBVIOUS
  <1> HIDE DEF P, ts
  <1>5. /\ kept \in Seq(Transition) /\ Len(kept) <= Len(ts) /\ P = DOMAIN kept
        /\ \A k \in DOMAIN kept : kept[k] = ts[k]
    BY <1>1, <1>3, <1>4, KeepBeginning
  <1> HIDE DEF kept
  <1>6. /\ Truncate(c, slot).id = c.id /\ Truncate(c, slot).short = c.short
        /\ Truncate(c, slot).transitions = kept
    BY <1>1, <1>2 DEF Versions
  <1> QED
    BY <1>5, <1>6 DEF P, ts

\* A roll back leaves sound contracts.
LEMMA RollbackSound ==
  ASSUME NEW table, VersionsIn(table), SoundIn(table), NEW slot \in Nat
  PROVE  SoundIn(RollbackDb(table, slot))
  <1> SUFFICES ASSUME NEW s \in DOMAIN RollbackDb(table, slot)
               PROVE  Born(RollbackDb(table, slot)[s]) /\ Sorted(RollbackDb(table, slot)[s])
    BY DEF SoundIn
  <1> DEFINE c == table[s]
             d == Truncate(c, slot)
  <1>1. s \in DOMAIN table /\ RollbackDb(table, slot)[s] = d /\ d.transitions # <<>>
    BY DEF RollbackDb
  <1>2. c \in Version /\ Born(c) /\ Sorted(c)
    BY <1>1 DEF VersionsIn, SoundIn
  <1> HIDE DEF c
  <1>3. /\ d.id = c.id /\ d.short = c.short /\ d.transitions \in Seq(Transition)
        /\ DOMAIN d.transitions = {k \in DOMAIN c.transitions : c.transitions[k].slot <= slot}
        /\ \A k \in DOMAIN d.transitions : d.transitions[k] = c.transitions[k]
    BY <1>2, TruncateIsBeginning
  <1> HIDE DEF d
  <1>4. 1 \in DOMAIN d.transitions
    BY <1>1, <1>3
  <1>5. First(d) = First(c)
    BY <1>3, <1>4 DEF First
  <1>6. Born(d)
    BY <1>2, <1>3, <1>5 DEF Born
  <1>7. Sorted(d)
    BY <1>2, <1>3 DEF Sorted
  <1> QED
    BY <1>1, <1>6, <1>7

\* A step of the chain's last block keeps a contract sound.
LEMMA SteppedSound ==
  ASSUME NEW b \in Block, NEW t \in Tx, NEW n \in ConsumedInputs(t),
         NEW c \in Version, OnChain(c, b), Born(c), Sorted(c)
  PROVE  LET d == Stepped(c, t, b, n)
         IN  /\ Born(d) /\ Sorted(d)
             /\ d.id = c.id /\ d.short = c.short
             /\ \A e : Longer(c, e) /\ e \in Version => Longer(d, e)
  <1> DEFINE d == Stepped(c, t, b, n)
             l == Len(c.transitions)
             old == c.transitions
             new == d.transitions
  <1>1. c \in Versions(OutRef, ShortId) /\ l \in Nat \ {0}
    BY VersionFacts
  <1>2. /\ d.id = c.id /\ d.short = c.short
        /\ d \in Versions(OutRef, ShortId) /\ Len(new) = l + 1
        /\ DOMAIN old = 1..l /\ DOMAIN new = 1..l + 1
        /\ new[l + 1] = NewTransition(t, b, n)
        /\ \A k \in 1..l : /\ new[k].tx = old[k].tx
                           /\ new[k].block = old[k].block
                           /\ new[k].slot = old[k].slot
    BY <1>1, SteppedFacts
  <1>3. new[l + 1].slot = Slot[b]
    BY <1>2, NewTransitionFacts
  <1>4. Len(old) = l
    OBVIOUS
  <1> HIDE DEF d, l
  <1>5. First(d).block = First(c).block
    BY <1>1, <1>2 DEF First
  <1>6. Born(d)
    BY <1>2, <1>5 DEF Born
  <1>7. \A k \in 1..l : new[k].slot <= Slot[b] /\ new[k].slot \in Nat
    <2> TAKE k \in 1..l
    <2>1. old[k].block \in Ancestors[b] /\ old[k].slot = Slot[old[k].block]
      BY <1>2 DEF OnChain
    <2>2. old[k].block \in Block
      BY <2>1, AncestorFacts
    <2> QED
      BY <1>2, <2>1, <2>2, SlotAssumption
  <1>8. Slot[b] \in Nat
    BY SlotAssumption
  <1>9. ASSUME NEW j \in 1..l + 1, NEW k \in 1..l + 1, j <= k
        PROVE  new[j].slot <= new[k].slot
    <2>1. CASE k = l + 1 /\ j = l + 1
      BY <1>3, <1>8, <2>1
    <2>2. CASE k = l + 1 /\ j # l + 1
      BY <1>1, <1>3, <1>7, <2>2
    <2>3. CASE k # l + 1
      <3>1. j \in 1..l /\ k \in 1..l
        BY <1>1, <1>9, <2>3
      <3>2. old[j].slot <= old[k].slot
        BY <1>2, <1>9, <3>1 DEF Sorted
      <3> QED
        BY <1>2, <3>1, <3>2
    <2> QED
      BY <2>1, <2>2, <2>3
  <1>10. Sorted(d)
    BY <1>2, <1>9 DEF Sorted
  <1>11. ASSUME NEW e, Longer(c, e), e \in Version
         PROVE  Longer(d, e)
    <2>1. Len(e.transitions) \in Nat /\ DOMAIN e.transitions = 1..Len(e.transitions)
      BY <1>11, VersionFacts
    <2>2. Len(e.transitions) <= l
      BY <1>4, <1>11 DEF Longer
    <2>3. \A k \in DOMAIN e.transitions : k \in 1..l /\ old[k].tx = e.transitions[k].tx
      BY <1>1, <1>11, <2>1, <2>2 DEF Longer
    <2> QED
      BY <1>1, <1>2, <2>1, <2>2, <2>3 DEF Longer
  <1> QED
    BY <1>2, <1>6, <1>10, <1>11 DEF d

\* A new contract is sound.
LEMMA AddedSound ==
  ASSUME NEW b \in Block, NEW j \in DOMAIN TxsOf[b], NEW n \in Nat, n = j - 1,
         NEW k \in Readable(TxsOf[b][j])
  PROVE  LET t == TxsOf[b][j]
             c == AddEvent(t, b, n, k - 1).contract
         IN  Born(c) /\ Sorted(c) /\ c.id = [tx |-> t, index |-> k - 1]
  <1> DEFINE t == TxsOf[b][j]
             i == k - 1
             new == [tx |-> t, index |-> i, end |-> FALSE, slot |-> Slot[b], block |-> b,
                     datum |-> DatumOf(Outputs[t][i + 1]), hashed |-> TRUE]
             c == AddEvent(t, b, n, i).contract
  <1>1. TxsOf[b] \in Seq(Tx)
    BY LedgerAssumption
  <1>2. t \in Tx
    BY <1>1
  <1>3. Len(Outputs[t]) \in Nat
    BY <1>2, LedgerAssumption
  <1>4. k \in 1..Len(Outputs[t]) /\ Outputs[t][k] \notin {"other", "bad"}
    BY DEF Readable
  <1> HIDE DEF t
  <1>5. i \in 0..Len(Outputs[t]) - 1 /\ i + 1 = k
    BY <1>3, <1>4
  <1>6. i \in MarloweOutputs(t) /\ Outputs[t][i + 1] # "bad"
    BY <1>4, <1>5 DEF MarloweOutputs
  <1>7. /\ c.id = [tx |-> t, index |-> i] /\ c.short = MakeShortId(b, n, i)
        /\ c.transitions = <<new>>
    BY DEF AddEvent
  <1> HIDE DEF i, c, new
  <1>8. c.id \in Contracts(t)
    BY <1>6, <1>7 DEF Contracts
  <1>9. First(c) = new /\ new.block = b /\ new.slot = Slot[b] /\ DOMAIN c.transitions = {1}
    BY <1>7 DEF First, new
  <1>10. Born(c)
    BY <1>7, <1>8, <1>9 DEF Born, t
  <1>11. Sorted(c)
    <2>1. \A x \in DOMAIN c.transitions : c.transitions[x].slot = Slot[b]
      BY <1>9 DEF First
    <2>2. Slot[b] \in Nat
      BY SlotAssumption
    <2> QED
      BY <2>1, <2>2 DEF Sorted
  <1> QED
    BY <1>7, <1>10, <1>11 DEF c, t, i

(***************************************************************************)
(* Facts about tables.                                                     *)
(***************************************************************************)

\* In a sound table of one chain a contract is stored once.
LEMMA StoredOnce ==
  ASSUME PositionRules, NEW b \in Block, NEW table,
         VersionsIn(table), TableOn(table, b), SoundIn(table),
         NEW r \in DOMAIN table, NEW s \in DOMAIN table, table[r].id = table[s].id
  PROVE  r = s
  <1>1. /\ table[r] \in Version /\ table[s] \in Version
        /\ OnChain(table[r], b) /\ OnChain(table[s], b)
        /\ Born(table[r]) /\ Born(table[s])
        /\ table[r].short = r /\ table[s].short = s
    BY DEF VersionsIn, TableOn, SoundIn
  <1> QED
    BY <1>1, IdsTogether

\* The long ids loaded from such a table are those of its contracts.
LEMMA LoadedIds ==
  ASSUME PositionRules, NEW b \in Block, NEW table,
         VersionsIn(table), TableOn(table, b), SoundIn(table)
  PROVE  /\ DOMAIN LoadIds(table) = {table[s].id : s \in DOMAIN table}
         /\ \A s \in DOMAIN table : LoadIds(table)[table[s].id] = s
  <1>1. DOMAIN LoadIds(table) = {table[s].id : s \in DOMAIN table}
    BY DEF LoadIds
  <1>2. ASSUME NEW s \in DOMAIN table
        PROVE  LoadIds(table)[table[s].id] = s
    <2> DEFINE r == CHOOSE x \in DOMAIN table : table[x].id = table[s].id
    <2>1. LoadIds(table)[table[s].id] = r
      BY DEF LoadIds
    <2>2. r \in DOMAIN table /\ table[r].id = table[s].id
      OBVIOUS
    <2> HIDE DEF r
    <2> QED
      BY <2>1, <2>2, StoredOnce
  <1> QED
    BY <1>1, <1>2

\* The rest of a sequence.
LEMMA TailFacts ==
  ASSUME NEW T, NEW seq \in Seq(T), seq # <<>>
  PROVE  /\ Head(seq) = seq[1] /\ 1 \in DOMAIN seq
         /\ \A k \in DOMAIN Tail(seq) : /\ k + 1 \in DOMAIN seq /\ k + 1 # 1
                                       /\ Tail(seq)[k] = seq[k + 1]
         /\ \A j, k \in DOMAIN Tail(seq) : j # k => j + 1 # k + 1
  OBVIOUS

(***************************************************************************)
(* Every step keeps the inductive invariant.                               *)
(***************************************************************************)

AllInv == IInv /\ TypeInv /\ StoreInv

\* What the invariants say of the database together.
LEMMA DbFacts ==
  ASSUME AllInv, wpc \in {"idle", "block", "saving", "rolling", "rolled"}
  PROVE  /\ followed \in Block
         /\ VersionsIn(db) /\ TableOn(db, followed) /\ SoundIn(db)
         /\ DOMAIN cache = DOMAIN db /\ VersionsIn(cache)
  BY DEF AllInv, IInv, TypeInv, StoreInv, PositionFits, DbFits, TablesTyped, CacheFollowsDb

\* The steps outside of a block that change nothing of what is stored or cached.
LEMMA NothingStored ==
  ASSUME StoreInv, UNCHANGED <<db, cache, ids>>, wpc' # "block",
         \/ wpc \in {"idle", "block", "saving", "rolling", "rolled"}
         \/ wpc' \notin {"idle", "block", "saving", "rolling", "rolled"}
  PROVE  StoreInv'
  <1>1. SoundIn(db)'
    BY DEF StoreInv, SoundIn
  <1>2. CacheFollowsDb'
    BY DEF StoreInv, CacheFollowsDb, IndexedIds
  <1>3. SoundTodo' /\ AddsAreNew' /\ RestIsNew' /\ StepsFollowCache'
    BY DEF SoundTodo, AddsAreNew, RestIsNew, StepsFollowCache
  <1> QED
    BY <1>1, <1>2, <1>3 DEF StoreInv

\* A process that stops or starts has the database only.
LEMMA OnlyDb ==
  ASSUME StoreInv, UNCHANGED db, wpc' \notin {"idle", "block", "saving", "rolling", "rolled"}
  PROVE  StoreInv'
  <1>1. SoundIn(db)'
    BY DEF StoreInv, SoundIn
  <1>2. CacheFollowsDb' /\ SoundTodo' /\ AddsAreNew' /\ RestIsNew' /\ StepsFollowCache'
    BY DEF CacheFollowsDb, SoundTodo, AddsAreNew, RestIsNew, StepsFollowCache
  <1> QED
    BY <1>1, <1>2 DEF StoreInv

\* The transactions of a new block are new to the chain.
LEMMA HandleBlockStores ==
  ASSUME PositionRules, AllInv, HandleBlock
  PROVE  StoreInv'
  <1>1. /\ followed' \in Block \ {Origin} /\ Parent[followed'] = followed
        /\ at' = 0 /\ wpc = "idle" /\ wpc' = "block"
        /\ UNCHANGED <<todo, db, cache, ids>>
    BY DEF HandleBlock, disk, memory
  <1>2. todo' = <<>>
    BY <1>1 DEF AllInv, IInv, TodoFits
  <1>3. /\ followed \in Block /\ VersionsIn(db) /\ TableOn(db, followed) /\ SoundIn(db)
    BY <1>1, DbFacts
  <1>4. /\ Ancestors[followed'] = {followed'} \cup Ancestors[followed]
        /\ followed' \notin Ancestors[followed] /\ followed' \in Ancestors[followed']
    BY <1>1, <1>3, AncestorFacts, AncestorsAssumption
  <1>5. ASSUME NEW s \in DOMAIN db, NEW k \in DOMAIN TxsOf[followed']
        PROVE  db[s].id.tx # TxsOf[followed'][k]
    <2> DEFINE x == First(db[s]).block
    <2>1. db[s] \in Version /\ OnChain(db[s], followed) /\ Born(db[s])
      BY <1>3 DEF VersionsIn, TableOn, SoundIn
    <2>2. x \in Ancestors[followed]
      BY <1>3, <2>1, FirstFacts
    <2>3. PICK j \in DOMAIN TxsOf[x] : TxsOf[x][j] = db[s].id.tx
      BY <2>1 DEF Born
    <2> HIDE DEF x
    <2>4. x \in Ancestors[followed'] /\ x # followed'
      BY <2>2, <1>4
    <2> QED
      BY <1>1, <1>4, <2>3, <2>4, OnePosition
  <1>6. RestIsNew'
    <2>1. TxsOf[followed'] \in Seq(Tx)
      BY <1>1, LedgerAssumption
    <2>2. \A k \in 0 + 1..Len(TxsOf[followed']) : k \in DOMAIN TxsOf[followed']
      BY <2>1
    <2> QED
      BY <1>1, <1>5, <2>2 DEF RestIsNew
  <1>7. SoundTodo' /\ AddsAreNew' /\ StepsFollowCache'
    BY <1>2 DEF SoundTodo, AddsAreNew, StepsFollowCache, Real, Adds
  <1>8. SoundIn(db)' /\ CacheFollowsDb'
    BY <1>1 DEF AllInv, StoreInv, SoundIn, CacheFollowsDb, IndexedIds
  <1> QED
    BY <1>6, <1>7, <1>8 DEF StoreInv

\* What a transaction does to the contracts follows from what is stored.
LEMMA ReadTransactionStores ==
  ASSUME PositionRules, AllInv, ReadTransaction
  PROVE  StoreInv'
  <1> DEFINE t == TxsOf[followed][at + 1]
             es == EventsOf(t, followed, at)
  <1>1. /\ UNCHANGED <<followed, db, cache, ids>>
        /\ at' = at + 1 /\ wpc = "block" /\ at < Len(TxsOf[followed]) /\ todo = <<>>
        /\ IF LookupPanics(t)
           THEN wpc' = "panicked" /\ UNCHANGED todo
           ELSE wpc' = wpc /\ todo' = es
    BY DEF ReadTransaction, disk, memory
  <1>2. CASE LookupPanics(t)
    BY <1>1, <1>2, OnlyDb DEF AllInv
  <1>3. CASE ~ LookupPanics(t)
    <2>1. wpc' = "block" /\ todo' = es
      BY <1>1, <1>3
    <2>2. /\ followed \in Block /\ VersionsIn(db) /\ TableOn(db, followed) /\ SoundIn(db)
          /\ DOMAIN cache = DOMAIN db /\ VersionsIn(cache)
      BY <1>1, DbFacts
    <2>3. at \in Nat /\ TxsOf[followed] \in Seq(Tx)
      BY <2>2, LedgerAssumption DEF AllInv, IInv, PositionFits
    <2>4. at + 1 \in DOMAIN TxsOf[followed] /\ t \in Tx /\ at = (at + 1) - 1
      BY <1>1, <2>3
    <2>5. \A s \in DOMAIN db : db[s].id.tx # t
      BY <1>1, <2>3, <2>4 DEF AllInv, StoreInv, RestIsNew
    <2>6. RestIsNew'
      <3>1. \A k \in (at + 1) + 1..Len(TxsOf[followed]) : k \in at + 1..Len(TxsOf[followed])
        BY <2>3
      <3> QED
        BY <1>1, <3>1 DEF AllInv, StoreInv, RestIsNew
    <2>7. SoundIn(db)' /\ CacheFollowsDb'
      BY <1>1, <2>1 DEF AllInv, StoreInv, SoundIn, CacheFollowsDb, IndexedIds
    <2> HIDE DEF t, es
    <2>8. CASE Steps(es, t, followed)
      <3>1. PICK l \in Nat : \E f \in [1..l -> ConsumedInputs(t)] :
               es = [k \in 1..l |-> StepEvent(t, followed, f[k])]
        BY <2>8 DEF Steps
      <3>2. PICK f \in [1..l -> ConsumedInputs(t)] :
               es = [k \in 1..l |-> StepEvent(t, followed, f[k])]
        BY <3>1
      <3>3. ASSUME NEW k \in DOMAIN es, es[k].kind # "Panic"
            PROVE  LET c == es[k].contract
                   IN  /\ es[k].kind # "Add"
                       /\ Born(c) /\ Sorted(c)
                       /\ c.short \in DOMAIN cache /\ c.id = cache[c.short].id
                       /\ Longer(c, cache[c.short])
        <4> DEFINE n == f[k]
                   old == db[ConsumedShort(t, n)]
                   r == ConsumedShort(t, n)
        <4>1. n \in ConsumedInputs(t) /\ es[k] = StepEvent(t, followed, n)
          BY <3>2
        <4> HIDE DEF n
        <4>2. ~ StepPanics(t, n)
          BY <3>3, <4>1 DEF StepEvent
        <4>3. /\ es[k].kind \in {"Update", "Close"}
              /\ es[k].contract = Stepped(old, t, followed, n)
          BY <4>1, <4>2, StepEventShape
        <4>4. r \in DOMAIN db
          BY <1>3, <4>1 DEF LookupPanics
        <4>5. /\ old \in Version /\ OnChain(old, followed) /\ Born(old) /\ Sorted(old)
              /\ old.short = r
          BY <4>4, <2>2 DEF VersionsIn, TableOn, SoundIn
        <4>6. /\ r \in DOMAIN cache /\ cache[r] \in Version /\ old.id = cache[r].id
              /\ Longer(old, cache[r])
          BY <1>1, <4>4, <2>2 DEF AllInv, StoreInv, CacheFollowsDb, Longer, VersionsIn
        <4> HIDE DEF old, r
        <4>7. /\ Born(Stepped(old, t, followed, n)) /\ Sorted(Stepped(old, t, followed, n))
              /\ Stepped(old, t, followed, n).id = old.id
              /\ Stepped(old, t, followed, n).short = old.short
              /\ Longer(Stepped(old, t, followed, n), cache[r])
          BY <2>2, <2>4, <4>1, <4>5, <4>6, SteppedSound
        <4> QED
          BY <4>3, <4>5, <4>6, <4>7
      <3>4. \A k \in Adds' : FALSE
        BY <2>1, <3>3 DEF Adds
      <3>5. SoundTodo'
        BY <2>1, <3>3 DEF SoundTodo, Real
      <3>6. AddsAreNew'
        BY <3>4 DEF AddsAreNew
      <3>7. StepsFollowCache'
        BY <1>1, <2>1, <3>3 DEF StepsFollowCache, Real
      <3> QED
        BY <2>6, <2>7, <3>5, <3>6, <3>7 DEF StoreInv
    <2>9. CASE Additions(es, t, followed, at)
      <3>1. PICK l \in Nat : \E f \in [1..l -> Readable(t)] :
               /\ \A i, j \in 1..l : i # j => f[i] # f[j]
               /\ es = [k \in 1..l |-> AddEvent(t, followed, at, f[k] - 1)]
        BY <2>9 DEF Additions
      <3>2. PICK f \in [1..l -> Readable(t)] :
               /\ \A i, j \in 1..l : i # j => f[i] # f[j]
               /\ es = [k \in 1..l |-> AddEvent(t, followed, at, f[k] - 1)]
        BY <3>1
      <3>3. ASSUME NEW k \in DOMAIN es
            PROVE  /\ es[k].kind = "Add"
                   /\ Born(es[k].contract) /\ Sorted(es[k].contract)
                   /\ es[k].contract.id.tx = t /\ es[k].contract.id.index = f[k] - 1
        <4>1. k \in 1..l /\ f[k] \in Readable(t) /\ es[k] = AddEvent(t, followed, at, f[k] - 1)
          BY <3>2
        <4>2. es[k].kind = "Add"
          BY <4>1 DEF AddEvent
        <4> DEFINE c == AddEvent(t, followed, at, f[k] - 1).contract
        <4>3. Born(c) /\ Sorted(c) /\ c.id = [tx |-> t, index |-> f[k] - 1]
          BY <2>2, <2>3, <2>4, <4>1, AddedSound DEF t
        <4> HIDE DEF c
        <4>4. es[k].contract = c
          BY <4>1 DEF c
        <4> QED
          BY <4>2, <4>3, <4>4
      <3>4. SoundTodo'
        BY <2>1, <3>3 DEF SoundTodo, Real
      <3>5. StepsFollowCache'
        BY <2>1, <3>3 DEF StepsFollowCache, Real, Adds
      <3>6. \A i, j \in DOMAIN es : i # j => es[i].contract.id # es[j].contract.id
        <4> SUFFICES ASSUME NEW i \in DOMAIN es, NEW j \in DOMAIN es, i # j
                     PROVE  es[i].contract.id # es[j].contract.id
          OBVIOUS
        <4>1. i \in 1..l /\ j \in 1..l /\ f[i] # f[j]
          BY <3>2
        <4>2. f[i] \in Nat /\ f[j] \in Nat
          BY <4>1 DEF Readable
        <4>3. f[i] - 1 # f[j] - 1
          BY <4>1, <4>2
        <4>4. es[i].contract.id.index = f[i] - 1 /\ es[j].contract.id.index = f[j] - 1
          BY <3>3
        <4> QED
          BY <4>3, <4>4
      <3>7. AddsAreNew'
        <4>1. at + 1 \in 1..Len(TxsOf[followed])
          BY <2>3, <2>4
        <4>2. ASSUME NEW k \in DOMAIN es
              PROVE  /\ es[k].contract.id.tx = t
                     /\ \A s \in DOMAIN db : db[s].id # es[k].contract.id
          BY <2>5, <3>3
        <4> QED
          BY <1>1, <2>1, <4>1, <4>2, <3>6 DEF AddsAreNew, Adds, t
      <3> QED
        BY <2>6, <2>7, <3>4, <3>5, <3>7 DEF StoreInv
    <2> QED
      BY <2>4, <2>8, <2>9, EventsOfFacts DEF es
  <1> QED
    BY <1>2, <1>3

\* A roll back loads the cache and the long ids again.
LEMMA RollbackStores ==
  ASSUME PositionRules, AllInv, NEW p \in Block, NEW top \in Block, p \in Ancestors[top],
         TableOn(db, top), RollbackContracts(p)
  PROVE  StoreInv'
  <1>1. /\ db' = RollbackDb(db, Slot[p]) /\ cache' = db' /\ ids' = LoadIds(db')
        /\ wpc' = "rolling"
    BY DEF RollbackContracts
  <1>2. VersionsIn(db) /\ SoundIn(db) /\ Slot[p] \in Nat
    BY SlotAssumption DEF AllInv, TypeInv, TablesTyped, StoreInv
  <1>3. VersionsIn(db') /\ TableOn(db', p) /\ SoundIn(db')
    BY <1>1, <1>2, RollbackDbTyped, RollbackDbFacts, RollbackSound
  <1>4. /\ DOMAIN ids' = {db'[s].id : s \in DOMAIN db'}
        /\ \A s \in DOMAIN db' : ids'[db'[s].id] = s
    <2> DEFINE new == RollbackDb(db, Slot[p])
    <2>1. db' = new
      BY <1>1
    <2> HIDE DEF new
    <2>2. VersionsIn(new) /\ TableOn(new, p) /\ SoundIn(new)
      BY <1>3, <2>1
    <2>3. /\ DOMAIN LoadIds(new) = {new[s].id : s \in DOMAIN new}
          /\ \A s \in DOMAIN new : LoadIds(new)[new[s].id] = s
      BY <2>2, LoadedIds
    <2> QED
      BY <1>1, <2>1, <2>3
  <1>5. \A s \in DOMAIN db' : Len(db'[s].transitions) <= Len(db'[s].transitions)
    <2> TAKE s \in DOMAIN db'
    <2>1. db'[s] \in Version
      BY <1>3 DEF VersionsIn
    <2>2. Len(db'[s].transitions) \in Nat
      BY <2>1, VersionFacts
    <2> QED
      BY <2>2
  <1>6. CacheFollowsDb'
    BY <1>1, <1>4, <1>5 DEF CacheFollowsDb, IndexedIds
  <1>7. SoundTodo' /\ AddsAreNew' /\ RestIsNew' /\ StepsFollowCache'
    BY <1>1 DEF SoundTodo, AddsAreNew, RestIsNew, StepsFollowCache
  <1> QED
    BY <1>3, <1>6, <1>7 DEF StoreInv, SoundIn

\* To a block of the chain followed.
LEMMA HandleRollbackStores ==
  ASSUME PositionRules, AllInv, HandleRollback
  PROVE  StoreInv'
  <1>1. PICK p \in Ancestors[followed] : RollbackContracts(p)
    BY DEF HandleRollback
  <1>2. wpc = "idle"
    BY DEF HandleRollback
  <1>3. followed \in Block /\ TableOn(db, followed)
    BY <1>2, DbFacts
  <1>4. p \in Block
    BY <1>3, AncestorFacts
  <1> QED
    BY <1>1, <1>3, <1>4, RollbackStores

\* To the point the process resumes from.
LEMMA FirstRollbackStores ==
  ASSUME PositionRules, AllInv, FirstRollback
  PROVE  StoreInv'
  <1>1. RollbackContracts(followed)
    BY DEF FirstRollback
  <1>2. PICK top \in Block : followed \in Ancestors[top] /\ TableOn(db, top)
    BY DEF AllInv, IInv, OneChain
  <1>3. followed \in Block
    BY DEF AllInv, IInv, PositionFits
  <1> QED
    BY <1>1, <1>2, <1>3, RollbackStores

\* The version that is written is new to the database, or goes on from the one
\* that is stored and cached.
LEMMA ApplyStores ==
  ASSUME PositionRules, AllInv, Apply
  PROVE  StoreInv'
  <1> DEFINE e == Head(todo)
             c == e.contract
  <1>1. /\ UNCHANGED <<followed, at>> /\ wpc = "block" /\ todo # <<>> /\ todo' = Tail(todo)
        /\ \/ e.kind = "Panic" /\ wpc' = "panicked" /\ UNCHANGED db
           \/ /\ e.kind # "Panic"
              /\ db' = Put(db, c.short, c)
              /\ cache' = IF c.short \in DOMAIN cache THEN cache ELSE Put(cache, c.short, c)
              /\ ids' = Put(ids, c.id, c.short)
              /\ wpc' \in {"panicked", "block"}
    <2>1. CASE e.kind = "Panic"
      BY <2>1 DEF Apply, memory, bounds
    <2>2. CASE e.kind # "Panic"
      BY <2>2 DEF Apply, bounds
    <2> QED
      BY <2>1, <2>2
  <1>2. /\ followed \in Block /\ VersionsIn(db) /\ TableOn(db, followed) /\ SoundIn(db)
        /\ DOMAIN cache = DOMAIN db /\ VersionsIn(cache)
    BY <1>1, DbFacts
  <1>3. /\ todo \in Seq(TypedEvents) /\ todo \in Seq(EventsOn(followed))
        /\ 1 \in DOMAIN todo /\ e = todo[1] /\ e \in TypedEvents /\ e \in EventsOn(followed)
        /\ \A k \in DOMAIN todo' : /\ k + 1 \in DOMAIN todo /\ k + 1 # 1
                                   /\ todo'[k] = todo[k + 1]
        /\ \A j, k \in DOMAIN todo' : j # k => j + 1 # k + 1
    <2>1. todo \in Seq(TypedEvents) /\ todo \in Seq(EventsOn(followed))
      BY <1>1 DEF AllInv, IInv, TodoFits, TypeInv, MessagesTyped
    <2>2. todo[1] \in TypedEvents /\ todo[1] \in EventsOn(followed) /\ 1 \in DOMAIN todo
      BY <2>1, <1>1
    <2> QED
      BY <1>1, <2>1, <2>2, TailFacts
  <1> HIDE DEF e
  <1>4. CASE e.kind = "Panic"
    <2>1. wpc' = "panicked" /\ UNCHANGED db
      BY <1>1, <1>4
    <2> QED
      BY <2>1, OnlyDb DEF AllInv
  <1>5. CASE e.kind # "Panic"
    <2>1. /\ c \in Version /\ OnChain(c, followed) /\ Born(c) /\ Sorted(c)
      <3>1. c \in Version
        BY <1>3, <1>5 DEF TypedEvents
      <3>2. OnChain(c, followed)
        BY <1>3, <1>5 DEF EventsOn
      <3>3. 1 \in Real
        BY <1>3, <1>5 DEF Real
      <3>4. Born(c) /\ Sorted(c)
        BY <1>1, <1>3, <3>3 DEF AllInv, StoreInv, SoundTodo
      <3> QED
        BY <3>1, <3>2, <3>4
    <2> HIDE DEF c
    <2>2. /\ DOMAIN db' = DOMAIN db \cup {c.short}
          /\ db'[c.short] = c
          /\ \A s \in DOMAIN db' : s # c.short => s \in DOMAIN db /\ db'[s] = db[s]
      BY <1>1, <1>5 DEF Put
    <2>3. SoundIn(db')
      BY <1>2, <2>1, <2>2 DEF SoundIn
    <2>4. \A s \in DOMAIN db : db[s].id = c.id <=> s = c.short
      <3> TAKE s \in DOMAIN db
      <3>1. /\ db[s] \in Version /\ OnChain(db[s], followed) /\ Born(db[s]) /\ db[s].short = s
        BY <1>2 DEF VersionsIn, TableOn, SoundIn
      <3> QED
        BY <1>2, <2>1, <3>1, IdsTogether
    <2>5. CASE wpc' = "panicked"
      BY <2>3, <2>5 DEF StoreInv, SoundIn, CacheFollowsDb, SoundTodo, AddsAreNew, RestIsNew,
                        StepsFollowCache
    <2>6. CASE wpc' = "block"
      <3>1. /\ DOMAIN ids = IndexedIds
            /\ \A s \in DOMAIN db : /\ ids[db[s].id] = s
                                    /\ cache[s].id = db[s].id
                                    /\ Longer(db[s], cache[s])
        BY <1>1 DEF AllInv, StoreInv, CacheFollowsDb, Longer
      <3>2. at \in Nat /\ TxsOf[followed] \in Seq(Tx)
        BY <1>2, LedgerAssumption DEF AllInv, IInv, PositionFits
      <3>3. /\ DOMAIN cache' = DOMAIN db'
            /\ \A s \in DOMAIN db : cache'[s] = cache[s]
            /\ cache'[c.short].id = c.id /\ Longer(c, cache'[c.short])
            /\ \A k \in Adds : k # 1 => todo[k].contract.id # c.id
            /\ \A k \in at + 1..Len(TxsOf[followed]) : c.id.tx # TxsOf[followed][k]
        <4>1. CASE e.kind = "Add"
          <5>1. 1 \in Adds
            BY <1>3, <4>1 DEF Adds
          <5>2. /\ at \in 1..Len(TxsOf[followed]) /\ c.id.tx = TxsOf[followed][at]
                /\ \A s \in DOMAIN db : db[s].id # c.id
                /\ \A j \in Adds : j # 1 => todo[j].contract.id # c.id
            BY <1>1, <1>3, <5>1 DEF AllInv, StoreInv, AddsAreNew, c
          <5>3. c.short \notin DOMAIN db
            BY <2>4, <5>2
          <5>4. cache' = Put(cache, c.short, c)
            BY <1>1, <1>2, <1>5, <5>3
          <5>5. Longer(c, c)
            <6>1. Len(c.transitions) \in Nat
              BY <2>1, VersionFacts
            <6> QED
              BY <6>1 DEF Longer
          <5>6. \A k \in at + 1..Len(TxsOf[followed]) : c.id.tx # TxsOf[followed][k]
            <6> TAKE k \in at + 1..Len(TxsOf[followed])
            <6>1. k \in DOMAIN TxsOf[followed] /\ at \in DOMAIN TxsOf[followed] /\ k # at
              BY <3>2, <5>2
            <6>2. followed \in Ancestors[followed]
              BY <1>2, AncestorFacts
            <6> QED
              BY <1>2, <5>2, <6>1, <6>2, OnePosition
          <5>7. /\ DOMAIN cache' = DOMAIN db' /\ cache'[c.short] = c
                /\ \A s \in DOMAIN db : cache'[s] = cache[s]
            BY <1>2, <2>2, <5>3, <5>4 DEF Put
          <5> QED
            BY <5>2, <5>5, <5>6, <5>7
        <4>2. CASE e.kind # "Add"
          <5>1. 1 \in Real \ Adds
            BY <1>3, <1>5, <4>2 DEF Real, Adds
          <5>2. c.short \in DOMAIN cache /\ c.id = cache[c.short].id /\ Longer(c, cache[c.short])
            BY <1>1, <1>3, <5>1 DEF AllInv, StoreInv, StepsFollowCache, c
          <5>3. c.short \in DOMAIN db /\ db[c.short].id = c.id
            BY <1>2, <3>1, <5>2
          <5>4. cache' = cache /\ DOMAIN db' = DOMAIN db
            BY <1>1, <1>5, <2>2, <5>2, <5>3
          <5>5. \A k \in Adds : todo[k].contract.id # c.id
            BY <1>1, <5>3 DEF AllInv, StoreInv, AddsAreNew
          <5>6. \A k \in at + 1..Len(TxsOf[followed]) : c.id.tx # TxsOf[followed][k]
            BY <1>1, <5>3 DEF AllInv, StoreInv, RestIsNew
          <5> QED
            BY <1>2, <5>2, <5>4, <5>5, <5>6
        <4> QED
          BY <4>1, <4>2
      <3>4. CacheFollowsDb'
        <4>1. IndexedIds' = IndexedIds \cup {c.id}
          <5>1. ASSUME NEW s \in DOMAIN db
                PROVE  \E r \in DOMAIN db' : db'[r].id = db[s].id
            <6>1. CASE s = c.short
              BY <2>2, <2>4, <6>1
            <6>2. CASE s # c.short
              BY <2>2, <6>2
            <6> QED
              BY <6>1, <6>2
          <5> QED
            BY <2>2, <5>1 DEF IndexedIds
        <4>2. DOMAIN ids' = IndexedIds'
          BY <1>1, <1>5, <3>1, <4>1 DEF Put
        <4>3. ASSUME NEW s \in DOMAIN db'
              PROVE  /\ ids'[db'[s].id] = s
                     /\ cache'[s].id = db'[s].id
                     /\ Longer(db'[s], cache'[s])
          <5>1. CASE s = c.short
            BY <1>1, <1>5, <2>2, <3>3, <5>1 DEF Put
          <5>2. CASE s # c.short
            <6>1. s \in DOMAIN db /\ db'[s] = db[s] /\ db[s].id # c.id
              BY <2>2, <2>4, <5>2
            <6>2. db[s].id \in DOMAIN ids
              BY <3>1, <6>1 DEF IndexedIds
            <6>3. ids'[db[s].id] = ids[db[s].id]
              BY <1>1, <1>5, <6>1, <6>2 DEF Put
            <6> QED
              BY <3>1, <3>3, <6>1, <6>3
          <5> QED
            BY <5>1, <5>2
        <4> QED
          BY <3>3, <4>2, <4>3 DEF CacheFollowsDb, Longer
      <3>5. /\ \A k \in Real' : k + 1 \in Real
            /\ \A k \in Adds' : k + 1 \in Adds /\ k + 1 # 1
            /\ \A k \in (Real \ Adds)' : k + 1 \in Real \ Adds
            /\ \A k \in DOMAIN todo' : todo'[k] = todo[k + 1]
        BY <1>3 DEF Real, Adds
      <3>6. SoundTodo'
        BY <1>1, <1>3, <3>5 DEF AllInv, StoreInv, SoundTodo, Real
      <3>7. AddsAreNew'
        <4> SUFFICES ASSUME NEW k \in Adds'
                     PROVE  /\ at \in 1..Len(TxsOf[followed])
                            /\ todo'[k].contract.id.tx = TxsOf[followed][at]
                            /\ \A s \in DOMAIN db' : db'[s].id # todo'[k].contract.id
                            /\ \A j \in Adds' : j # k => todo'[j].contract.id
                                                            # todo'[k].contract.id
          BY <1>1 DEF AddsAreNew
        <4>1. /\ k + 1 \in Adds /\ k + 1 # 1 /\ todo'[k] = todo[k + 1]
          BY <3>5 DEF Adds
        <4>2. /\ at \in 1..Len(TxsOf[followed])
              /\ todo[k + 1].contract.id.tx = TxsOf[followed][at]
              /\ \A s \in DOMAIN db : db[s].id # todo[k + 1].contract.id
              /\ \A j \in Adds : j # k + 1 => todo[j].contract.id # todo[k + 1].contract.id
          BY <1>1, <4>1 DEF AllInv, StoreInv, AddsAreNew
        <4>3. \A s \in DOMAIN db' : db'[s].id # todo[k + 1].contract.id
          BY <2>2, <3>3, <4>1, <4>2
        <4>4. ASSUME NEW j \in Adds', j # k
              PROVE  todo'[j].contract.id # todo[k + 1].contract.id
          <5>1. j \in DOMAIN todo' /\ k \in DOMAIN todo'
            BY DEF Adds
          <5>2. j + 1 \in Adds /\ todo'[j] = todo[j + 1] /\ j + 1 # k + 1
            BY <1>3, <3>5, <4>4, <5>1
          <5> QED
            BY <4>2, <5>2
        <4> QED
          BY <4>1, <4>2, <4>3, <4>4
      <3>8. RestIsNew'
        BY <1>1, <2>2, <3>3 DEF AllInv, StoreInv, RestIsNew
      <3>9. StepsFollowCache'
        <4> SUFFICES ASSUME NEW k \in (Real \ Adds)'
                     PROVE  LET d == todo'[k].contract
                            IN  /\ d.short \in DOMAIN cache' /\ d.id = cache'[d.short].id
                                /\ Longer(d, cache'[d.short])
          BY DEF StepsFollowCache
        <4>1. k + 1 \in Real \ Adds /\ todo'[k] = todo[k + 1]
          BY <3>5 DEF Real
        <4> DEFINE d == todo[k + 1].contract
        <4>2. d.short \in DOMAIN cache /\ d.id = cache[d.short].id /\ Longer(d, cache[d.short])
          BY <1>1, <4>1 DEF AllInv, StoreInv, StepsFollowCache
        <4> HIDE DEF d
        <4>3. d.short \in DOMAIN cache' /\ cache'[d.short] = cache[d.short]
          BY <1>2, <2>2, <3>3, <4>2
        <4> QED
          BY <4>1, <4>2, <4>3 DEF d
      <3> QED
        BY <2>3, <3>4, <3>6, <3>7, <3>8, <3>9 DEF StoreInv, SoundIn
    <2> QED
      BY <1>1, <1>5, <2>5, <2>6
  <1> QED
    BY <1>1, <1>4, <1>5

\* Every step keeps the invariant.
LEMMA StoreKept ==
  ASSUME PositionRules, AllInv, [Next]_vars
  PROVE  StoreInv'
  <1>1. CASE UNCHANGED vars
    BY <1>1 DEF vars, AllInv, StoreInv, SoundIn, SoundTodo, AddsAreNew, RestIsNew,
                CacheFollowsDb, StepsFollowCache, IndexedIds, Real, Adds
  <1>2. CASE Crash
    <2>1. UNCHANGED db /\ wpc' = "down"
      BY <1>2 DEF Crash, disk
    <2> QED
      BY <2>1, OnlyDb DEF AllInv
  <1>3. CASE Restart
    <2>1. UNCHANGED db /\ wpc' \in {"refused", "resuming"}
      BY <1>3 DEF Restart, disk
    <2> QED
      BY <2>1, OnlyDb DEF AllInv
  <1>4. CASE SaveHash
    <2>1. UNCHANGED <<db, cache, ids>> /\ wpc = "block" /\ wpc' = "saving"
      BY <1>4 DEF SaveHash, memory
    <2> QED
      BY <2>1, NothingStored DEF AllInv
  <1>5. CASE SaveSlot
    <2>1. UNCHANGED <<db, cache, ids>> /\ wpc = "saving" /\ wpc' = "idle"
      BY <1>5 DEF SaveSlot, memory
    <2> QED
      BY <2>1, NothingStored DEF AllInv
  <1>6. CASE SaveRollbackSlot
    <2>1. UNCHANGED <<db, cache, ids>> /\ wpc = "rolling" /\ wpc' = "rolled"
      BY <1>6 DEF SaveRollbackSlot, memory
    <2> QED
      BY <2>1, NothingStored DEF AllInv
  <1>7. CASE SaveRollbackHash
    <2>1. UNCHANGED <<db, cache, ids>> /\ wpc = "rolled" /\ wpc' = "idle"
      BY <1>7 DEF SaveRollbackHash, memory
    <2> QED
      BY <2>1, NothingStored DEF AllInv
  <1> QED
    BY <1>1, <1>2, <1>3, <1>4, <1>5, <1>6, <1>7, HandleBlockStores, ReadTransactionStores,
       ApplyStores, HandleRollbackStores, FirstRollbackStores DEF Next

(***************************************************************************)
(* The theorems.                                                           *)
(***************************************************************************)

\* What is stored begins with the output it is named after and is in order;
\* what is about to be added is not stored.
THEOREM StoreInvariance ==
  ASSUME PositionRules
  PROVE  Spec => []StoreInv
  <1>1. Init => StoreInv
    BY DEF Init, StoreInv, SoundIn, SoundTodo, AddsAreNew, RestIsNew, CacheFollowsDb,
           StepsFollowCache
  <1>2. IInv /\ TypeInv /\ StoreInv /\ [Next]_vars => StoreInv'
    BY StoreKept DEF AllInv
  <1> QED
    BY <1>1, <1>2, Invariance, TypesInvariance, PTL DEF Spec

\* The cache and the long ids the queries use have exactly the contracts of
\* the database while the worker is up, and no cached version is of another
\* history, although a version that is cached is not written again.
THEOREM CacheFollows ==
  ASSUME PositionRules
  PROVE  Spec => []CacheFollowsDb
  <1>1. StoreInv => CacheFollowsDb
    BY DEF StoreInv
  <1> QED
    BY <1>1, StoreInvariance, PTL

\* A new contract never takes the place of one that is stored, whatever was
\* applied before a stop and whatever forks there were.
THEOREM NewIsNew ==
  ASSUME PositionRules
  PROVE  Spec => NeverOverwrites
  <1> DEFINE New == evt' # None /\ evt'.kind = "Add" => evt'.contract.short \notin DOMAIN db
  <1>1. IInv /\ TypeInv /\ StoreInv /\ [Next]_vars => [New]_vars
    <2> SUFFICES ASSUME AllInv, Next, evt' # None, evt'.kind = "Add"
                 PROVE  evt'.contract.short \notin DOMAIN db
      BY DEF AllInv
    <2>1. CASE Apply
      <3> DEFINE e == Head(todo)
                 c == e.contract
      <3>1. wpc = "block" /\ todo # <<>> /\ evt' \in {None, e}
        BY <2>1 DEF Apply
      <3>2. e = evt' /\ e.kind = "Add"
        BY <3>1
      <3>3. /\ todo \in Seq(TypedEvents) /\ todo \in Seq(EventsOn(followed))
        BY <3>1 DEF AllInv, IInv, TodoFits, TypeInv, MessagesTyped
      <3>4. 1 \in DOMAIN todo /\ e = todo[1] /\ e \in TypedEvents /\ e \in EventsOn(followed)
        BY <3>1, <3>3
      <3> HIDE DEF e
      <3>5. 1 \in Adds /\ 1 \in Real
        BY <3>2, <3>4 DEF Adds, Real
      <3>6. /\ \A s \in DOMAIN db : db[s].id # c.id
            /\ Born(c)
        BY <3>1, <3>4, <3>5 DEF AllInv, StoreInv, AddsAreNew, SoundTodo
      <3>7. c \in Version /\ OnChain(c, followed)
        BY <3>2, <3>4 DEF TypedEvents, EventsOn
      <3>8. /\ followed \in Block /\ VersionsIn(db) /\ TableOn(db, followed) /\ SoundIn(db)
        BY <3>1, DbFacts
      <3>9. ASSUME c.short \in DOMAIN db PROVE FALSE
        <4> DEFINE d == db[c.short]
        <4>1. d \in Version /\ OnChain(d, followed) /\ Born(d) /\ d.short = c.short
          BY <3>8, <3>9 DEF VersionsIn, TableOn, SoundIn
        <4>2. d.id # c.id
          BY <3>6, <3>9
        <4> HIDE DEF d, c
        <4> QED
          BY <3>6, <3>7, <3>8, <4>1, <4>2, IdsTogether
      <3> QED
        BY <3>2, <3>9
    <2>2. CASE SaveSlot \/ SaveRollbackSlot \/ SaveRollbackHash \/ Restart
      <3>1. evt' = evt /\ wpc # "block"
        BY <2>2 DEF SaveSlot, SaveRollbackSlot, SaveRollbackHash, Restart
      <3> QED
        BY <3>1 DEF AllInv, TypeInv, MessagesTyped
    <2>3. CASE \/ Crash \/ HandleBlock \/ ReadTransaction \/ SaveHash
               \/ HandleRollback \/ FirstRollback
      BY <2>3 DEF Crash, HandleBlock, ReadTransaction, SaveHash, HandleRollback, FirstRollback,
                  RollbackContracts
    <2> QED
      BY <2>1, <2>2, <2>3 DEF Next
  <1> QED
    BY <1>1, Invariance, TypesInvariance, StoreInvariance, PTL DEF Spec, NeverOverwrites
=============================================================================
