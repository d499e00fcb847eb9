------------------------- MODULE MarloweIndexProofs -------------------------
(***************************************************************************)
(* Proofs about MarloweIndex for every block tree, every ledger, any       *)
(* number of roll backs and of stops of the process, whether or not the    *)
(* node returns to chains it has left.                                     *)
(***************************************************************************)
EXTENDS MarloweIndex, SelectionProofs

(***************************************************************************)
(* The inductive invariant.                                                *)
(***************************************************************************)

\* The short ids the worker makes, whatever they look like.
Shorts == {MakeShortId(b, n, i) : b \in Block, n \in Nat, i \in Nat}

Stored == [id : OutRef, short : Shorts, transitions : Seq(Transition)]

\* Everything that happened to the contract happened on the chain of b.
OnChain(c, b) ==
    \A k \in DOMAIN c.transitions :
        /\ c.transitions[k].block \in Ancestors[b]
        /\ c.transitions[k].slot = Slot[c.transitions[k].block]

TableOn(table, b) == \A s \in DOMAIN table : table[s] \in Stored /\ OnChain(table[s], b)

EventsOn(b) ==
    [kind : {"Panic"}]
    \cup {e \in [kind : {"Add", "Update", "Close"}, contract : Stored] : OnChain(e.contract, b)}

\* The position of the worker and the saved one are of their types.
PositionFits ==
    /\ followed \in Block /\ at \in Nat
    /\ lastSlot \in Nat \cup {None}
    /\ lastHash \in Block \cup {None}

\* In every state the database, the chain followed and the saved hash are of
\* one chain, which may be longer than the one followed.
OneChain ==
    \E top \in Block :
        /\ followed \in Ancestors[top]
        /\ TableOn(db, top)
        /\ lastHash # None => lastHash \in Ancestors[top]

\* Nothing is stored before the first slot is saved.
NothingUnsaved ==
    lastSlot = None => /\ DOMAIN db = {}
                       /\ wpc \in {"down", "resuming", "rolling", "refused"}

\* Once the first roll back of a connection is done, the database has
\* nothing above the chain followed.
DbFits ==
    wpc \in {"idle", "block", "saving", "rolling", "rolled"} => TableOn(db, followed)

\* The saved hash is not above the chain followed while blocks are handled.
SavedFits ==
    wpc \in {"idle", "block", "saving"} /\ lastHash # None => lastHash \in Ancestors[followed]

\* The events still to be applied are of the chain followed.
TodoFits ==
    /\ wpc = "block" => todo \in Seq(EventsOn(followed))
    /\ wpc \notin {"block", "panicked"} => todo = <<>>

IInv == PositionFits /\ OneChain /\ NothingUnsaved /\ DbFits /\ SavedFits /\ TodoFits

(***************************************************************************)
(* Facts about chains.                                                     *)
(***************************************************************************)

\* A block is on its own chain, and so are the ancestors of its ancestors.
LEMMA AncestorFacts ==
  ASSUME NEW b \in Block
  PROVE  /\ Ancestors[b] \subseteq Block
         /\ b \in Ancestors[b]
         /\ Origin \in Ancestors[b]
         /\ \A a \in Ancestors[b] : Ancestors[a] \subseteq Ancestors[b]
         /\ \A c \in Block \ {Origin} :
               Parent[c] = b => Ancestors[c] = {c} \cup Ancestors[b]
  <1>1. b \in Ancestors[b]
    BY AncestorsAssumption
  <1> QED
    BY <1>1, AncestorsAssumption, ChainAssumption

\* Two blocks of one chain: one is on the chain of the other.
LEMMA Comparable ==
  ASSUME NEW top \in Block, NEW a \in Ancestors[top], NEW p \in Ancestors[top]
  PROVE  a \in Ancestors[p] \/ p \in Ancestors[a]
  <1> DEFINE Forked(t) == \E x, y \in Ancestors[t] :
                             x \notin Ancestors[y] /\ y \notin Ancestors[x]
             Bad == {Slot[t] : t \in {u \in Block : Forked(u)}}
  <1> SUFFICES ASSUME Forked(top) PROVE FALSE
    OBVIOUS
  <1>1. Bad # {} /\ Bad \in SUBSET Nat
    BY SlotAssumption
  <1>2. PICK n \in Bad : \A m \in Bad : n <= m
    <2> HIDE DEF Bad
    <2> QED
      BY <1>1, LeastElement
  <1>3. PICK t \in Block : Forked(t) /\ Slot[t] = n
    BY <1>2
  <1>4. PICK x \in Ancestors[t], y \in Ancestors[t] :
           x \notin Ancestors[y] /\ y \notin Ancestors[x]
    BY <1>3
  <1>5. t # Origin
    <2> SUFFICES ASSUME t = Origin PROVE FALSE
      OBVIOUS
    <2>1. x = Origin /\ y = Origin
      BY <1>4, AncestorsAssumption
    <2> QED
      BY <2>1, <1>4, AncestorFacts, OriginAssumption
  <1>6. /\ Parent[t] \in Block
        /\ Ancestors[t] = {t} \cup Ancestors[Parent[t]]
        /\ t \notin Ancestors[Parent[t]]
    BY <1>5, ParentAssumption, AncestorsAssumption
  <1>7. Parent[t] \in Ancestors[t] /\ Parent[t] # t
    BY <1>6, AncestorFacts
  <1>8. Slot[Parent[t]] < Slot[t]
    BY <1>7, StrictSlotAssumption
  <1>9. ~ Forked(Parent[t])
    <2> SUFFICES ASSUME Forked(Parent[t]) PROVE FALSE
      OBVIOUS
    <2>1. Slot[Parent[t]] \in Bad
      BY <1>6
    <2>2. n <= Slot[Parent[t]]
      BY <2>1, <1>2
    <2>3. Slot[Parent[t]] \in Nat /\ n \in Nat
      BY <1>1, <1>6, SlotAssumption
    <2> QED
      BY <2>2, <2>3, <1>3, <1>8
  <1>10. x # t /\ y # t
    BY <1>4
  <1> QED
    BY <1>4, <1>6, <1>9, <1>10

\* On one chain, a block that is not later than another is on its chain: a
\* roll back by slot is a roll back to the block.
LEMMA NotLater ==
  ASSUME NEW top \in Block, NEW a \in Ancestors[top], NEW p \in Ancestors[top],
         Slot[a] <= Slot[p]
  PROVE  a \in Ancestors[p]
  <1>1. a \in Block /\ p \in Block
    BY AncestorFacts
  <1>2. CASE p \in Ancestors[a] /\ p # a
    <2>1. Slot[p] < Slot[a]
      BY <1>1, <1>2, StrictSlotAssumption
    <2> QED
      BY <2>1, <1>1, SlotAssumption
  <1>3. CASE p = a
    BY <1>1, <1>3, AncestorFacts
  <1> QED
    BY <1>2, <1>3, Comparable

(***************************************************************************)
(* Facts about contracts.                                                  *)
(***************************************************************************)

\* What is on the chain of a block is on the chain of its successors.
LEMMA TableOnLonger ==
  ASSUME NEW table, NEW b \in Block, NEW a \in Ancestors[b], TableOn(table, a)
  PROVE  TableOn(table, b)
  BY AncestorFacts DEF TableOn, OnChain

\* A contract rolled back to a slot of the chain is on the chain of its block.
LEMMA TruncateFacts ==
  ASSUME NEW top \in Block, NEW p \in Ancestors[top], NEW c \in Stored, OnChain(c, top)
  PROVE  Truncate(c, Slot[p]) \in Stored /\ OnChain(Truncate(c, Slot[p]), p)
  <1> DEFINE ts == c.transitions
             P == {k \in DOMAIN ts : ts[k].slot <= Slot[p]}
             kept == Keep(ts, P)
  <1>1. ts \in Seq(Transition)
    BY DEF Stored
  <1>2. kept \in Seq(Transition) /\ IsSelection(kept, ts, P \cap DOMAIN ts)
    <2> HIDE DEF P, ts
    <2> QED
      BY <1>1, KeepSelects
  <1>3. \A i \in DOMAIN kept : \E k \in P : kept[i] = ts[k]
    BY <1>2 DEF IsSelection
  <1>4. Truncate(c, Slot[p]) = [c EXCEPT !.transitions = kept]
    BY DEF Truncate
  <1> HIDE DEF kept
  <1>5. Truncate(c, Slot[p]) \in Stored /\ Truncate(c, Slot[p]).transitions = kept
    BY <1>2, <1>4 DEF Stored
  <1>6. ASSUME NEW i \in DOMAIN kept
        PROVE  kept[i].block \in Ancestors[p] /\ kept[i].slot = Slot[kept[i].block]
    <2>1. PICK k \in P : kept[i] = ts[k]
      BY <1>3
    <2>2. /\ ts[k].block \in Ancestors[top] /\ ts[k].slot = Slot[ts[k].block]
          /\ ts[k].slot <= Slot[p]
      BY DEF OnChain
    <2>3. ts[k].block \in Ancestors[p]
      BY <2>2, NotLater
    <2> QED
      BY <2>1, <2>2, <2>3
  <1> QED
    BY <1>5, <1>6 DEF OnChain

\* A database that is rolled back is on the chain of the block.
LEMMA RollbackDbFacts ==
  ASSUME NEW top \in Block, NEW p \in Ancestors[top], NEW table, TableOn(table, top)
  PROVE  /\ TableOn(RollbackDb(table, Slot[p]), p)
         /\ DOMAIN RollbackDb(table, Slot[p]) \subseteq DOMAIN table
  <1>1. DOMAIN RollbackDb(table, Slot[p]) \subseteq DOMAIN table
    BY DEF RollbackDb
  <1>2. \A s \in DOMAIN RollbackDb(table, Slot[p]) :
           RollbackDb(table, Slot[p])[s] = Truncate(table[s], Slot[p])
    BY DEF RollbackDb
  <1> QED
    BY <1>1, <1>2, TruncateFacts DEF TableOn

\* Revealing a datum leaves everything else of a history alone.
LEMMA RevealFacts ==
  ASSUME NEW ts \in Seq(Transition)
  PROVE  /\ Reveal(ts) \in Seq(Transition)
         /\ Len(Reveal(ts)) = Len(ts) /\ DOMAIN Reveal(ts) = DOMAIN ts
         /\ \A k \in DOMAIN ts :
               /\ Reveal(ts)[k].tx = ts[k].tx /\ Reveal(ts)[k].index = ts[k].index
               /\ Reveal(ts)[k].block = ts[k].block /\ Reveal(ts)[k].slot = ts[k].slot
               /\ Reveal(ts)[k].end = ts[k].end /\ Reveal(ts)[k].hashed = ts[k].hashed
  <1> DEFINE l == Len(ts)
             datum == IF ts[l].datum = None THEN "open" ELSE ts[l].datum
             shown == [ts[l] EXCEPT !.datum = datum]
  <1>1. Reveal(ts) = [ts EXCEPT ![l] = shown]
    BY DEF Reveal
  <1>2. DOMAIN ts = 1..l /\ l \in Nat
    OBVIOUS
  <1>3. ASSUME l \in DOMAIN ts
        PROVE  /\ shown \in Transition
               /\ shown.tx = ts[l].tx /\ shown.index = ts[l].index
               /\ shown.block = ts[l].block /\ shown.slot = ts[l].slot
               /\ shown.end = ts[l].end /\ shown.hashed = ts[l].hashed
    <2>1. ts[l] \in Transition
      BY <1>3
    <2>2. datum \in {"open", "close", None}
      BY <2>1 DEF Transition
    <2> HIDE DEF datum, l
    <2> QED
      BY <2>1, <2>2 DEF Transition
  <1> HIDE DEF shown
  <1>4. CASE l \in DOMAIN ts
    <2>1. Reveal(ts) \in Seq(Transition) /\ Len(Reveal(ts)) = Len(ts)
      BY <1>1, <1>3, <1>4
    <2>2. DOMAIN Reveal(ts) = DOMAIN ts
      BY <1>1
    <2>3. \A k \in DOMAIN ts : Reveal(ts)[k] = IF k = l THEN shown ELSE ts[k]
      BY <1>1
    <2> HIDE DEF l
    <2> QED
      BY <2>1, <2>2, <2>3, <1>3, <1>4
  <1>5. CASE l \notin DOMAIN ts
    <2>1. Reveal(ts) = ts
      BY <1>1, <1>5, <1>2
    <2> QED
      BY <2>1
  <1> QED
    BY <1>4, <1>5

(***************************************************************************)
(* The events of a transaction.                                            *)
(***************************************************************************)

\* Contracts with ids of I and short ids of S.
Versions(I, S) == [id : I, short : S, transitions : Seq(Transition)]

\* A contract after a step.
Stepped(c, t, b, n) ==
    [c EXCEPT !.transitions = Append(Reveal(@), NewTransition(t, b, n))]

\* The transition a step adds.
LEMMA NewTransitionFacts ==
  ASSUME NEW b \in Block, NEW t \in Tx, NEW n \in ConsumedInputs(t)
  PROVE  LET new == NewTransition(t, b, n)
         IN  /\ new \in Transition
             /\ new.tx = t /\ new.index = Inputs[t][n].index
             /\ new.block = b /\ new.slot = Slot[b]
             /\ new.end = (MarloweOutputs(t) = {})
  <1>1. Inputs[t][n].index \in Nat
    <2>1. Inputs[t] \in Seq(OutRef) /\ n \in 1..Len(Inputs[t])
      BY LedgerAssumption DEF ConsumedInputs
    <2>2. Inputs[t][n] \in OutRef
      BY <2>1
    <2> QED
      BY <2>2 DEF OutRef
  <1>2. \A kind : DatumOf(kind) \in {"open", "close", None} /\ HasHash(kind) \in BOOLEAN
    BY DEF DatumOf, HasHash
  <1>3. Slot[b] \in Nat /\ (MarloweOutputs(t) = {}) \in BOOLEAN
    BY SlotAssumption
  <1> QED
    BY <1>1, <1>2, <1>3 DEF NewTransition, Transition

\* What a step does to a contract: a transition more, the others the same but
\* for a datum.
LEMMA SteppedFacts ==
  ASSUME NEW b \in Block, NEW t \in Tx, NEW n \in ConsumedInputs(t), NEW I, NEW S,
         NEW c \in Versions(I, S)
  PROVE  LET d == Stepped(c, t, b, n)
             l == Len(c.transitions)
         IN  /\ d \in Versions(I, S)
             /\ d.id = c.id /\ d.short = c.short
             /\ l \in Nat /\ Len(d.transitions) = l + 1
             /\ DOMAIN c.transitions = 1..l /\ DOMAIN d.transitions = 1..l + 1
             /\ d.transitions[l + 1] = NewTransition(t, b, n)
             /\ \A k \in 1..l :
                   /\ d.transitions[k].tx = c.transitions[k].tx
                   /\ d.transitions[k].index = c.transitions[k].index
                   /\ d.transitions[k].block = c.transitions[k].block
                   /\ d.transitions[k].slot = c.transitions[k].slot
                   /\ d.transitions[k].end = c.transitions[k].end
                   /\ d.transitions[k].hashed = c.transitions[k].hashed
  <1> DEFINE new == NewTransition(t, b, n)
             old == c.transitions
             shown == Reveal(old)
             ts == Append(shown, new)
             l == Len(old)
  <1>1. old \in Seq(Transition) /\ l \in Nat /\ DOMAIN old = 1..l
    BY DEF Versions
  <1>2. new \in Transition
    BY NewTransitionFacts
  <1>3. /\ shown \in Seq(Transition) /\ Len(shown) = l /\ DOMAIN shown = 1..l
        /\ \A k \in 1..l :
              /\ shown[k].tx = old[k].tx /\ shown[k].index = old[k].index
              /\ shown[k].block = old[k].block /\ shown[k].slot = old[k].slot
              /\ shown[k].end = old[k].end /\ shown[k].hashed = old[k].hashed
    BY <1>1, RevealFacts
  <1> HIDE DEF new, shown
  <1>4. /\ ts \in Seq(Transition) /\ Len(ts) = l + 1 /\ DOMAIN ts = 1..l + 1
        /\ ts[l + 1] = new /\ \A k \in 1..l : ts[k] = shown[k]
    BY <1>1, <1>2, <1>3
  <1> HIDE DEF ts, l
  <1>5. /\ Stepped(c, t, b, n) = [c EXCEPT !.transitions = ts]
    BY DEF Stepped, ts, shown, new
  <1>6. /\ Stepped(c, t, b, n) \in Versions(I, S)
        /\ Stepped(c, t, b, n).id = c.id /\ Stepped(c, t, b, n).short = c.short
        /\ Stepped(c, t, b, n).transitions = ts
    BY <1>4, <1>5 DEF Versions
  <1> QED
    BY <1>1, <1>3, <1>4, <1>6 DEF l, new

\* A step that does not panic steps the stored version.
LEMMA StepEventShape ==
  ASSUME NEW b, NEW t, NEW n, ~ StepPanics(t, n)
  PROVE  LET e == StepEvent(t, b, n)
         IN  /\ e = [kind |-> e.kind, contract |-> e.contract]
             /\ e.kind \in {"Update", "Close"}
             /\ e.contract = Stepped(db[ConsumedShort(t, n)], t, b, n)
  BY DEF StepEvent, Stepped

\* A contract that is known and has not ended gets one transition more, of
\* the block that is handled.
LEMMA StepEventFits ==
  ASSUME NEW b \in Block, NEW t \in Tx, NEW n \in ConsumedInputs(t),
         TableOn(db, b), ~ LookupPanics(t)
  PROVE  StepEvent(t, b, n) \in EventsOn(b)
  <1>1. CASE StepPanics(t, n)
    BY <1>1 DEF StepEvent, EventsOn
  <1>2. CASE ~ StepPanics(t, n)
    <2> DEFINE old == db[ConsumedShort(t, n)]
               c == Stepped(old, t, b, n)
               e == StepEvent(t, b, n)
               l == Len(old.transitions)
    <2>1. old \in Stored /\ OnChain(old, b)
      BY DEF LookupPanics, TableOn
    <2>2. /\ c \in Stored /\ l \in Nat
          /\ DOMAIN old.transitions = 1..l /\ DOMAIN c.transitions = 1..l + 1
          /\ c.transitions[l + 1].block = b /\ c.transitions[l + 1].slot = Slot[b]
          /\ \A k \in 1..l : /\ c.transitions[k].block = old.transitions[k].block
                              /\ c.transitions[k].slot = old.transitions[k].slot
      <3> HIDE DEF old
      <3>1. old \in Versions(OutRef, Shorts)
        BY <2>1 DEF Stored, Versions
      <3>2. /\ c \in Versions(OutRef, Shorts)
            /\ l \in Nat
            /\ DOMAIN old.transitions = 1..l /\ DOMAIN c.transitions = 1..l + 1
            /\ c.transitions[l + 1] = NewTransition(t, b, n)
            /\ \A k \in 1..l : /\ c.transitions[k].block = old.transitions[k].block
                                /\ c.transitions[k].slot = old.transitions[k].slot
        BY <3>1, SteppedFacts
      <3>3. NewTransition(t, b, n).block = b /\ NewTransition(t, b, n).slot = Slot[b]
        BY NewTransitionFacts
      <3> HIDE DEF c, l
      <3> QED
        BY <3>2, <3>3 DEF Stored, Versions
    <2>3. /\ e = [kind |-> e.kind, contract |-> c]
          /\ e.kind \in {"Update", "Close"}
      BY <1>2, StepEventShape
    <2> HIDE DEF old, c, e, l
    <2>4. OnChain(c, b)
      <3> SUFFICES ASSUME NEW k \in 1..l + 1
                   PROVE  /\ c.transitions[k].block \in Ancestors[b]
                          /\ c.transitions[k].slot = Slot[c.transitions[k].block]
        BY <2>2 DEF OnChain
      <3>1. CASE k \in 1..l
        BY <2>1, <2>2, <3>1 DEF OnChain
      <3>2. CASE k = l + 1
        BY <2>2, <3>2, AncestorFacts
      <3> QED
        BY <2>2, <3>1, <3>2
    <2>5. e \in EventsOn(b)
      BY <2>2, <2>3, <2>4 DEF EventsOn
    <2> QED
      BY <2>5 DEF e
  <1> QED
    BY <1>1, <1>2

\* A new contract begins in the block that is handled.
LEMMA AddEventFits ==
  ASSUME NEW b \in Block, NEW t \in Tx, NEW n \in Nat, NEW i \in Nat
  PROVE  AddEvent(t, b, n, i) \in EventsOn(b)
  <1> DEFINE new == [tx |-> t, index |-> i, end |-> FALSE, slot |-> Slot[b], block |-> b,
                     datum |-> DatumOf(Outputs[t][i + 1]), hashed |-> TRUE]
             c == [id |-> [tx |-> t, index |-> i], short |-> MakeShortId(b, n, i),
                   transitions |-> <<new>>]
  <1>1. new \in Transition /\ new.block = b /\ new.slot = Slot[b]
    BY SlotAssumption DEF Transition, DatumOf
  <1>2. MakeShortId(b, n, i) \in Shorts
    BY DEF Shorts
  <1> HIDE DEF new
  <1>3. <<new>> \in Seq(Transition) /\ \A k \in DOMAIN <<new>> : <<new>>[k] = new
    BY <1>1
  <1>4. c \in Stored
    BY <1>2, <1>3 DEF Stored, OutRef
  <1>5. OnChain(c, b)
    BY <1>1, <1>3, AncestorFacts DEF OnChain
  <1>6. AddEvent(t, b, n, i) = [kind |-> "Add", contract |-> c]
    BY DEF AddEvent, new
  <1> HIDE DEF c
  <1> QED
    BY <1>4, <1>5, <1>6 DEF EventsOn

\* es are steps of all the inputs that are found, each once.
Steps(es, t, b) ==
    \E l \in Nat \ {0} : \E f \in [1..l -> ConsumedInputs(t)] :
        /\ \A i, j \in 1..l : i # j => f[i] # f[j]
        /\ \A p \in ConsumedInputs(t) : \E i \in 1..l : f[i] = p
        /\ es = [k \in 1..l |-> StepEvent(t, b, f[k])]

\* es add a contract for every readable output.
Additions(es, t, b, n) ==
    \E l \in Nat : \E f \in [1..l -> Readable(t)] :
        /\ \A i, j \in 1..l : i # j => f[i] # f[j]
        /\ \A p \in Readable(t) : \E i \in 1..l : f[i] = p
        /\ es = [k \in 1..l |-> AddEvent(t, b, n, f[k] - 1)]

\* seq has the numbers of P, each once, less d.
Lists(seq, d, P) ==
    \E m \in Nat : \E f \in [1..m -> P] :
        /\ DOMAIN seq = 1..m
        /\ \A i, j \in 1..m : i # j => f[i] # f[j]
        /\ \A p \in P : \E i \in 1..m : f[i] = p
        /\ \A i \in 1..m : seq[i] = f[i] - d

\* What a filter keeps of the positions of a sequence lists the positions.
LEMMA Listing ==
  ASSUME NEW l \in Nat, NEW d \in {0, 1}, NEW P \in SUBSET (1..l)
  PROVE  Lists(Keep([k \in 1..l |-> k - d], P), d, P)
  <1> DEFINE seq == [k \in 1..l |-> k - d]
             kept == Keep(seq, P)
             m == Len(kept)
  <1>1. seq \in Seq(Nat) /\ DOMAIN seq = 1..l /\ \A k \in 1..l : seq[k] = k - d
    <2>1. \A k \in 1..l : k - d \in Nat
      OBVIOUS
    <2> QED
      BY <2>1
  <1> HIDE DEF seq
  <1>2. kept \in Seq(Nat) /\ IsSelection(kept, seq, P \cap DOMAIN seq)
    BY <1>1, KeepSelects
  <1>3. P \cap DOMAIN seq = P
    BY <1>1
  <1>4. m \in Nat /\ DOMAIN kept = 1..m
    BY <1>2
  <1> HIDE DEF kept, m
  <1>5. PICK f \in [1..m -> P] :
           /\ \A i, j \in 1..m : i < j => f[i] < f[j]
           /\ \A p \in P : \E i \in 1..m : f[i] = p
           /\ \A i \in 1..m : kept[i] = seq[f[i]]
    <2>1. IsSelection(kept, seq, P)
      BY <1>2, <1>3
    <2>2. PICK f \in [DOMAIN kept -> P] :
             /\ \A i, j \in DOMAIN kept : i < j => f[i] < f[j]
             /\ \A p \in P : \E i \in DOMAIN kept : f[i] = p
             /\ \A i \in DOMAIN kept : kept[i] = seq[f[i]]
      BY <2>1, Zenon DEF IsSelection
    <2> QED
      BY <2>2, <1>4
  <1>6. \A i \in 1..m : f[i] \in 1..l /\ kept[i] = f[i] - d
    BY <1>1, <1>5
  <1>7. ASSUME NEW i \in 1..m, NEW j \in 1..m, i # j
        PROVE  f[i] # f[j]
    <2>1. i < j \/ j < i
      BY <1>4, <1>7
    <2>2. f[i] < f[j] \/ f[j] < f[i]
      BY <1>5, <2>1
    <2>3. f[i] \in Nat /\ f[j] \in Nat
      BY <1>6
    <2> QED
      BY <2>2, <2>3
  <1>8. Lists(kept, d, P)
    BY <1>4, <1>5, <1>6, <1>7 DEF Lists
  <1> QED
    BY <1>8 DEF kept, seq

\* A transaction steps the contracts it consumes or, if it consumes none, adds
\* those it makes.
LEMMA EventsOfFacts ==
  ASSUME NEW b, NEW t \in Tx, NEW n
  PROVE  \/ Steps(EventsOf(t, b, n), t, b)
         \/ ConsumedInputs(t) = {} /\ Additions(EventsOf(t, b, n), t, b, n)
  <1> DEFINE li == Len(Inputs[t])
             lo == Len(Outputs[t])
             stepped == Keep([k \in 1..li |-> k], ConsumedInputs(t))
             added == Keep([k \in 1..lo |-> k - 1], Readable(t))
             steps == [k \in DOMAIN stepped |-> StepEvent(t, b, stepped[k])]
             adds == [k \in DOMAIN added |-> AddEvent(t, b, n, added[k])]
  <1>1. li \in Nat /\ lo \in Nat
    BY LedgerAssumption
  <1>2. ConsumedInputs(t) \in SUBSET (1..li) /\ Readable(t) \in SUBSET (1..lo)
    BY DEF ConsumedInputs, Readable
  <1>3. EventsOf(t, b, n) = IF stepped # <<>> THEN steps ELSE adds
    BY DEF EventsOf
  <1> HIDE DEF li, lo
  <1>4. PICK m \in Nat : \E f \in [1..m -> ConsumedInputs(t)] :
           /\ DOMAIN stepped = 1..m
           /\ \A i, j \in 1..m : i # j => f[i] # f[j]
           /\ \A p \in ConsumedInputs(t) : \E i \in 1..m : f[i] = p
           /\ \A i \in 1..m : stepped[i] = f[i]
    <2>1. [k \in 1..li |-> k] = [k \in 1..li |-> k - 0]
      BY <1>1
    <2>2. Lists(stepped, 0, ConsumedInputs(t))
      BY <1>1, <1>2, <2>1, Listing
    <2> HIDE DEF stepped
    <2>3. PICK m \in Nat : \E f \in [1..m -> ConsumedInputs(t)] :
             /\ DOMAIN stepped = 1..m
             /\ \A i, j \in 1..m : i # j => f[i] # f[j]
             /\ \A p \in ConsumedInputs(t) : \E i \in 1..m : f[i] = p
             /\ \A i \in 1..m : stepped[i] = f[i] - 0
      BY <2>2 DEF Lists
    <2>4. \A x \in ConsumedInputs(t) : x - 0 = x
      BY <1>1, <1>2
    <2> QED
      BY <2>3, <2>4
  <1>5. PICK o \in Nat : \E f \in [1..o -> Readable(t)] :
           /\ DOMAIN added = 1..o
           /\ \A i, j \in 1..o : i # j => f[i] # f[j]
           /\ \A p \in Readable(t) : \E i \in 1..o : f[i] = p
           /\ \A i \in 1..o : added[i] = f[i] - 1
    <2>1. Lists(added, 1, Readable(t))
      BY <1>1, <1>2, Listing
    <2> HIDE DEF added
    <2> QED
      BY <2>1 DEF Lists
  <1>6. stepped = <<>> <=> DOMAIN stepped = {}
    <2> DEFINE seq == [k \in 1..li |-> k]
    <2>1. seq \in Seq(Nat)
      BY <1>1
    <2> HIDE DEF seq
    <2>2. Keep(seq, ConsumedInputs(t)) \in Seq(Nat)
      BY <2>1, KeepSelects
    <2>3. stepped \in Seq(Nat)
      BY <2>2 DEF seq
    <2> HIDE DEF stepped
    <2> QED
      BY <2>3
  <1> HIDE DEF stepped, added
  <1>7. CASE stepped # <<>>
    <2>1. EventsOf(t, b, n) = steps
      BY <1>3, <1>7
    <2>2. m # 0
      BY <1>4, <1>6, <1>7
    <2>3. Steps(steps, t, b)
      BY <1>4, <2>2 DEF Steps
    <2> QED
      BY <2>1, <2>3
  <1>8. CASE stepped = <<>>
    <2>1. EventsOf(t, b, n) = adds
      BY <1>3, <1>8
    <2>2. Additions(adds, t, b, n)
      BY <1>5 DEF Additions
    <2>3. ConsumedInputs(t) = {}
      BY <1>4, <1>6, <1>8
    <2> QED
      BY <2>1, <2>2, <2>3
  <1> QED
    BY <1>7, <1>8

\* Hence its events are of a kind if all steps and additions are.
LEMMA EventsAreIn ==
  ASSUME NEW b, NEW t \in Tx, NEW n, NEW S,
         \A k \in ConsumedInputs(t) : StepEvent(t, b, k) \in S,
         \A k \in Readable(t) : AddEvent(t, b, n, k - 1) \in S
  PROVE  EventsOf(t, b, n) \in Seq(S)
  <1>1. CASE Steps(EventsOf(t, b, n), t, b)
    <2>1. PICK l \in Nat : \E f \in [1..l -> ConsumedInputs(t)] :
             EventsOf(t, b, n) = [k \in 1..l |-> StepEvent(t, b, f[k])]
      BY <1>1 DEF Steps
    <2>2. PICK f \in [1..l -> ConsumedInputs(t)] :
             EventsOf(t, b, n) = [k \in 1..l |-> StepEvent(t, b, f[k])]
      BY <2>1
    <2>3. \A k \in 1..l : StepEvent(t, b, f[k]) \in S
      OBVIOUS
    <2> QED
      BY <2>2, <2>3
  <1>2. CASE Additions(EventsOf(t, b, n), t, b, n)
    <2>1. PICK l \in Nat : \E f \in [1..l -> Readable(t)] :
             EventsOf(t, b, n) = [k \in 1..l |-> AddEvent(t, b, n, f[k] - 1)]
      BY <1>2 DEF Additions
    <2>2. PICK f \in [1..l -> Readable(t)] :
             EventsOf(t, b, n) = [k \in 1..l |-> AddEvent(t, b, n, f[k] - 1)]
      BY <2>1
    <2>3. \A k \in 1..l : AddEvent(t, b, n, f[k] - 1) \in S
      OBVIOUS
    <2> QED
      BY <2>2, <2>3
  <1> QED
    BY <1>1, <1>2, EventsOfFacts

\* The events of a transaction are of the chain of its block.
LEMMA EventsFit ==
  ASSUME NEW b \in Block, NEW t \in Tx, NEW n \in Nat,
         TableOn(db, b), ~ LookupPanics(t)
  PROVE  EventsOf(t, b, n) \in Seq(EventsOn(b))
  <1>1. \A k \in ConsumedInputs(t) : StepEvent(t, b, k) \in EventsOn(b)
    BY StepEventFits
  <1>2. \A k \in Readable(t) : k - 1 \in Nat
    BY DEF Readable
  <1>3. \A k \in Readable(t) : AddEvent(t, b, n, k - 1) \in EventsOn(b)
    BY <1>2, AddEventFits
  <1> QED
    BY <1>1, <1>3, EventsAreIn

\* A contract of the chain can be put into a table of the chain.
LEMMA PutFits ==
  ASSUME NEW b, NEW table, TableOn(table, b),
         NEW c \in Stored, OnChain(c, b), NEW s
  PROVE  TableOn(Put(table, s, c), b)
  <1>1. \A x \in DOMAIN Put(table, s, c) :
           Put(table, s, c)[x] = c \/ (x \in DOMAIN table /\ Put(table, s, c)[x] = table[x])
    BY DEF Put
  <1> QED
    BY <1>1 DEF TableOn

(***************************************************************************)
(* Every step keeps the inductive invariant: one lemma per action.         *)
(***************************************************************************)

\* The process has never run.
LEMMA InitIInv ==
  ASSUME Init
  PROVE  IInv
  <1>1. followed = Start /\ Start \in Block /\ Start \in Ancestors[Start]
    BY LedgerAssumption, AncestorFacts DEF Init
  <1>2. DOMAIN db = {} /\ TableOn(db, Start)
    BY DEF Init, TableOn
  <1>3. OneChain
    BY <1>1, <1>2 DEF Init, OneChain
  <1> QED
    BY <1>1, <1>2, <1>3 DEF Init, IInv, PositionFits, NothingUnsaved, DbFits,
                            SavedFits, TodoFits

\* What is on disk stays.
LEMMA CrashKeeps ==
  ASSUME IInv, Crash
  PROVE  IInv'
  BY DEF IInv, Crash, disk, PositionFits, OneChain, NothingUnsaved, DbFits,
         SavedFits, TodoFits, TableOn

\* The process goes on from the origin, from the saved hash, or, if it has
\* never saved anything, from the start: always on the one chain.
LEMMA RestartKeeps ==
  ASSUME IInv, Restart
  PROVE  IInv'
  <1>1. /\ UNCHANGED <<at, todo, evt, db, lastSlot, lastHash>> /\ wpc = "down"
        /\ wpc' \in {"refused", "resuming"}
    BY DEF Restart, disk
  <1>2. TodoFits' /\ NothingUnsaved' /\ DbFits' /\ SavedFits'
    BY <1>1 DEF IInv, TodoFits, NothingUnsaved, DbFits, SavedFits
  <1>3. PICK top \in Block : /\ followed \in Ancestors[top]
                             /\ TableOn(db, top)
                             /\ lastHash # None => lastHash \in Ancestors[top]
    BY DEF IInv, OneChain
  <1>4. followed \in Block /\ Origin \in Ancestors[top]
    BY <1>3, AncestorFacts DEF IInv, PositionFits
  <1>5. CASE \/ followed' = followed \/ followed' = Origin
             \/ followed' = lastHash /\ lastHash # None
    <2>1. followed' \in Ancestors[top]
      BY <1>3, <1>4, <1>5
    <2>2. OneChain'
      BY <1>1, <1>3, <2>1 DEF OneChain, TableOn
    <2>3. followed' \in Block
      BY <2>1, AncestorFacts
    <2> QED
      BY <1>1, <1>2, <2>2, <2>3 DEF IInv, PositionFits
  <1>6. CASE lastHash = None /\ lastSlot = None /\ followed' = Start
    <2>1. DOMAIN db = {}
      BY <1>6 DEF IInv, NothingUnsaved
    <2>2. Start \in Block /\ Start \in Ancestors[Start] /\ TableOn(db, Start)
      BY <2>1, LedgerAssumption, AncestorFacts DEF TableOn
    <2>3. OneChain'
      BY <1>1, <1>6, <2>2 DEF OneChain, TableOn
    <2> QED
      BY <1>1, <1>2, <1>6, <2>2, <2>3 DEF IInv, PositionFits
  <1>7. \/ followed' = followed
        \/ (lastSlot = None) = (lastHash = None) /\ followed' \in ResumePoints
    BY DEF Restart
  <1>8. \/ \/ followed' = followed \/ followed' = Origin
           \/ followed' = lastHash /\ lastHash # None
        \/ lastHash = None /\ lastSlot = None /\ followed' = Start
    <2>1. CASE followed' = followed
      BY <2>1
    <2>2. CASE (lastSlot = None) = (lastHash = None) /\ followed' \in ResumePoints
      <3>1. CASE lastHash = None
        BY <2>2, <3>1 DEF ResumePoints
      <3>2. CASE lastHash # None
        BY <2>2, <3>2 DEF ResumePoints
      <3> QED
        BY <3>1, <3>2
    <2> QED
      BY <1>7, <2>1, <2>2
  <1> QED
    BY Zenon, <1>5, <1>6, <1>8

\* The chain followed grows by the block.
LEMMA HandleBlockKeeps ==
  ASSUME IInv, HandleBlock
  PROVE  IInv'
  <1>1. /\ followed' \in Block \ {Origin} /\ Parent[followed'] = followed
        /\ at' = 0 /\ wpc = "idle" /\ wpc' = "block"
        /\ UNCHANGED <<todo, db, lastSlot, lastHash>>
    BY DEF HandleBlock, disk
  <1>2. followed \in Block /\ TableOn(db, followed) /\ todo = <<>>
    BY <1>1 DEF IInv, PositionFits, DbFits, TodoFits
  <1>3. /\ Ancestors[followed'] = {followed'} \cup Ancestors[followed]
        /\ followed \in Ancestors[followed'] /\ followed' \in Ancestors[followed']
    BY <1>1, <1>2, AncestorFacts
  <1>4. TableOn(db, followed')
    BY <1>1, <1>2, <1>3, TableOnLonger
  <1>5. lastHash # None => lastHash \in Ancestors[followed']
    BY <1>1, <1>3 DEF IInv, SavedFits
  <1>6. OneChain' /\ DbFits' /\ SavedFits'
    BY <1>1, <1>3, <1>4, <1>5 DEF OneChain, DbFits, SavedFits, TableOn
  <1>7. TodoFits'
    BY <1>1, <1>2 DEF TodoFits
  <1>8. PositionFits' /\ NothingUnsaved'
    BY <1>1 DEF IInv, PositionFits, NothingUnsaved
  <1> QED
    BY <1>6, <1>7, <1>8 DEF IInv

\* The events that are read are of the chain followed.
LEMMA ReadTransactionKeeps ==
  ASSUME IInv, ReadTransaction
  PROVE  IInv'
  <1> DEFINE t == TxsOf[followed][at + 1]
  <1>1. /\ UNCHANGED <<followed, db, lastSlot, lastHash>>
        /\ at' = at + 1 /\ wpc = "block" /\ at < Len(TxsOf[followed])
        /\ IF LookupPanics(t)
           THEN wpc' = "panicked" /\ UNCHANGED todo
           ELSE wpc' = wpc /\ todo' = EventsOf(t, followed, at)
    BY DEF ReadTransaction, disk
  <1>2. followed \in Block /\ at \in Nat /\ TableOn(db, followed)
    BY <1>1 DEF IInv, PositionFits, DbFits
  <1>3. t \in Tx
    BY <1>1, <1>2, LedgerAssumption
  <1> HIDE DEF t
  <1>4. TodoFits'
    <2>1. CASE LookupPanics(t)
      BY <1>1, <2>1 DEF TodoFits
    <2>2. CASE ~ LookupPanics(t)
      <3>1. EventsOf(t, followed, at) \in Seq(EventsOn(followed))
        BY <1>2, <1>3, <2>2, EventsFit
      <3> QED
        BY <1>1, <2>2, <3>1 DEF TodoFits
    <2> QED
      BY <2>1, <2>2
  <1>5. wpc' \in {"panicked", "block"} /\ lastSlot # None
    BY <1>1 DEF IInv, NothingUnsaved
  <1>6. PositionFits' /\ OneChain' /\ NothingUnsaved' /\ DbFits' /\ SavedFits'
    BY <1>1, <1>2, <1>5 DEF IInv, PositionFits, OneChain, NothingUnsaved, DbFits,
                            SavedFits, TableOn
  <1> QED
    BY <1>4, <1>6 DEF IInv

\* What is written is of the chain followed.
LEMMA ApplyKeeps ==
  ASSUME IInv, Apply
  PROVE  IInv'
  <1> DEFINE e == Head(todo)
  <1>1. /\ UNCHANGED <<followed, at, lastSlot, lastHash>>
        /\ wpc = "block" /\ todo # <<>> /\ todo' = Tail(todo)
        /\ wpc' \in {"panicked", "block"}
        /\ \/ db' = db
           \/ e.kind # "Panic" /\ db' = Put(db, e.contract.short, e.contract)
    BY DEF Apply
  <1>2. /\ followed \in Block /\ TableOn(db, followed)
        /\ todo \in Seq(EventsOn(followed)) /\ lastSlot # None
    BY <1>1 DEF IInv, PositionFits, DbFits, TodoFits, NothingUnsaved
  <1>3. e \in EventsOn(followed) /\ Tail(todo) \in Seq(EventsOn(followed))
    BY <1>1, <1>2
  <1> HIDE DEF e
  <1>4. TableOn(db', followed)
    <2>1. CASE db' = db
      BY <1>2, <2>1
    <2>2. CASE e.kind # "Panic" /\ db' = Put(db, e.contract.short, e.contract)
      <3>1. e.contract \in Stored /\ OnChain(e.contract, followed)
        BY <1>3, <2>2 DEF EventsOn
      <3> QED
        BY <1>2, <2>2, <3>1, PutFits
    <2> QED
      BY <1>1, <2>1, <2>2
  <1>5. PICK top \in Block : /\ followed \in Ancestors[top]
                             /\ lastHash # None => lastHash \in Ancestors[top]
    BY DEF IInv, OneChain
  <1>6. TableOn(db', top)
    BY <1>4, <1>5, TableOnLonger
  <1>7. OneChain' /\ DbFits' /\ TodoFits'
    BY <1>1, <1>3, <1>4, <1>5, <1>6 DEF OneChain, DbFits, TodoFits, TableOn
  <1>8. PositionFits' /\ NothingUnsaved' /\ SavedFits'
    BY <1>1, <1>2 DEF IInv, PositionFits, NothingUnsaved, SavedFits
  <1> QED
    BY <1>7, <1>8 DEF IInv

\* The block that has been handled is saved.
LEMMA SaveHashKeeps ==
  ASSUME IInv, SaveHash
  PROVE  IInv'
  <1>1. /\ UNCHANGED <<followed, at, todo, db, lastSlot>> /\ lastHash' = followed
        /\ wpc = "block" /\ wpc' = "saving" /\ todo = <<>>
    BY DEF SaveHash
  <1>2. followed \in Block /\ followed \in Ancestors[followed] /\ TableOn(db, followed)
    BY <1>1, AncestorFacts DEF IInv, PositionFits, DbFits
  <1> QED
    BY <1>1, <1>2 DEF IInv, PositionFits, OneChain, NothingUnsaved, DbFits,
                      SavedFits, TodoFits, TableOn

\* Then its slot.
LEMMA SaveSlotKeeps ==
  ASSUME IInv, SaveSlot
  PROVE  IInv'
  <1>1. Slot[followed] \in Nat /\ Slot[followed] # None
    BY SlotAssumption, NoneAssumption DEF IInv, PositionFits
  <1>2. UNCHANGED <<followed, todo, db, lastHash>>
    BY DEF SaveSlot
  <1> QED
    BY <1>1, <1>2 DEF SaveSlot, IInv, PositionFits, OneChain, NothingUnsaved, DbFits,
                      SavedFits, TodoFits, TableOn

\* A roll back to a block of the chain leaves what is on the block's chain.
LEMMA RollbackKeeps ==
  ASSUME IInv, NEW p \in Block, NEW top \in Block, p \in Ancestors[top],
         TableOn(db, top), lastHash # None => lastHash \in Ancestors[top],
         RollbackContracts(p), followed' = p,
         UNCHANGED <<at, todo, lastSlot, lastHash>>, todo = <<>>
  PROVE  IInv'
  <1>1. db' = RollbackDb(db, Slot[p]) /\ wpc' = "rolling"
    BY DEF RollbackContracts
  <1>2. TableOn(db', p) /\ DOMAIN db' \subseteq DOMAIN db
    BY <1>1, RollbackDbFacts
  <1>3. TableOn(db', top)
    BY <1>2, TableOnLonger
  <1>4. OneChain' /\ DbFits'
    BY <1>2, <1>3 DEF OneChain, DbFits, TableOn
  <1> QED
    BY <1>1, <1>2, <1>4 DEF IInv, PositionFits, NothingUnsaved, SavedFits, TodoFits

\* To any block of the chain followed.
LEMMA HandleRollbackKeeps ==
  ASSUME IInv, HandleRollback
  PROVE  IInv'
  <1>1. PICK p \in Ancestors[followed] : followed' = p /\ RollbackContracts(p)
    BY DEF HandleRollback
  <1>2. wpc = "idle" /\ UNCHANGED <<at, todo, lastSlot, lastHash>>
    BY DEF HandleRollback
  <1>3. PICK top \in Block : /\ followed \in Ancestors[top]
                             /\ TableOn(db, top)
                             /\ lastHash # None => lastHash \in Ancestors[top]
    BY DEF IInv, OneChain
  <1>4. p \in Block /\ p \in Ancestors[top] /\ todo = <<>>
    BY <1>1, <1>2, <1>3, AncestorFacts DEF IInv, PositionFits, TodoFits
  <1> QED
    BY <1>1, <1>2, <1>3, <1>4, RollbackKeeps

\* To the point the process resumes from.
LEMMA FirstRollbackKeeps ==
  ASSUME IInv, FirstRollback
  PROVE  IInv'
  <1>1. /\ RollbackContracts(followed) /\ wpc = "resuming"
        /\ UNCHANGED <<followed, at, todo, lastSlot, lastHash>>
    BY DEF FirstRollback
  <1>2. PICK top \in Block : /\ followed \in Ancestors[top]
                             /\ TableOn(db, top)
                             /\ lastHash # None => lastHash \in Ancestors[top]
    BY DEF IInv, OneChain
  <1>3. followed \in Block /\ todo = <<>> /\ followed' = followed
    BY <1>1 DEF IInv, PositionFits, TodoFits
  <1> QED
    BY <1>1, <1>2, <1>3, RollbackKeeps

\* The slot that was rolled back to is saved.
LEMMA SaveRollbackSlotKeeps ==
  ASSUME IInv, SaveRollbackSlot
  PROVE  IInv'
  <1>1. Slot[followed] \in Nat /\ Slot[followed] # None
    BY SlotAssumption, NoneAssumption DEF IInv, PositionFits
  <1>2. UNCHANGED <<followed, at, todo, db, lastHash>>
    BY DEF SaveRollbackSlot
  <1> QED
    BY <1>1, <1>2 DEF SaveRollbackSlot, IInv, PositionFits, OneChain, NothingUnsaved,
                      DbFits, SavedFits, TodoFits, TableOn

\* Then its hash, or none for the origin.
LEMMA SaveRollbackHashKeeps ==
  ASSUME IInv, SaveRollbackHash
  PROVE  IInv'
  <1>1. /\ UNCHANGED <<followed, at, todo, db, lastSlot>> /\ lastHash' = AsPoint(followed)
        /\ wpc = "rolled" /\ wpc' = "idle"
    BY DEF SaveRollbackHash
  <1>2. /\ followed \in Block /\ followed \in Ancestors[followed] /\ TableOn(db, followed)
        /\ AsPoint(followed) \in {followed, None}
    BY <1>1, AncestorFacts DEF IInv, PositionFits, DbFits, AsPoint
  <1> QED
    BY <1>1, <1>2 DEF IInv, PositionFits, OneChain, NothingUnsaved, DbFits,
                      SavedFits, TodoFits, TableOn

(***************************************************************************)
(* Short ids.                                                              *)
(***************************************************************************)

\* One digit after the other: what Digits is, without recursion.
DigitsFrom(f, n) == IF n < 10 THEN <<n>> ELSE Append(f[n \div 10], n % 10)

\* A tenth of a number that is not a digit is smaller.
LEMMA Tenth ==
  ASSUME NEW n \in Nat
  PROVE  /\ n \div 10 \in Nat
         /\ n >= 10 => n \div 10 < n
         /\ n % 10 \in 0..9
  OBVIOUS

\* The recursion of Digits has a solution.
LEMMA DigitsEquation == Digits = [n \in Nat |-> DigitsFrom(Digits, n)]
  <1> DEFINE Upto(l) == {f \in [0..l -> Seq(Nat)] : \A n \in 0..l : f[n] = DigitsFrom(f, n)}
  <1>1. \A l \in Nat : Upto(l) # {}
    <2> DEFINE Bad == {l \in Nat : Upto(l) = {}}
    <2> SUFFICES ASSUME Bad # {} PROVE FALSE
      OBVIOUS
    <2>1. PICK l \in Bad : \A m \in Bad : l <= m
      <3>1. Bad \in SUBSET Nat
        OBVIOUS
      <3> HIDE DEF Bad
      <3> QED
        BY <3>1, LeastElement
    <2>2. l \in Nat /\ Upto(l) = {}
      OBVIOUS
    <2>3. CASE l = 0
      <3> DEFINE f == [n \in 0..0 |-> <<0>>]
      <3>1. f \in [0..0 -> Seq(Nat)]
        OBVIOUS
      <3>2. \A n \in 0..0 : f[n] = DigitsFrom(f, n)
        BY DEF DigitsFrom
      <3> HIDE DEF f
      <3> QED
        BY <2>2, <2>3, <3>1, <3>2
    <2>4. CASE l # 0
      <3>1. l - 1 \in Nat /\ l - 1 \notin Bad
        <4>1. l - 1 \in Nat /\ ~(l <= l - 1)
          BY <2>2, <2>4
        <4> HIDE DEF Bad
        <4> QED
          BY <2>1, <4>1
      <3>2. PICK f \in Upto(l - 1) : TRUE
        BY <3>1
      <3>3. f \in [0..l - 1 -> Seq(Nat)] /\ \A n \in 0..l - 1 : f[n] = DigitsFrom(f, n)
        OBVIOUS
      <3> DEFINE g == [n \in 0..l |-> IF n = l THEN DigitsFrom(f, l) ELSE f[n]]
      <3>4. \A n \in 0..l : n >= 10 => n \div 10 \in 0..l - 1
        BY <2>2, Tenth
      <3>5. DigitsFrom(f, l) \in Seq(Nat)
        <4>1. CASE l < 10
          BY <2>2, <4>1 DEF DigitsFrom
        <4>2. CASE l >= 10
          <5>1. f[l \div 10] \in Seq(Nat) /\ l % 10 \in Nat
            BY <2>2, <3>3, <3>4, <4>2, Tenth
          <5> QED
            BY <2>2, <4>2, <5>1 DEF DigitsFrom
        <4> QED
          BY <2>2, <4>1, <4>2
      <3>6. g \in [0..l -> Seq(Nat)]
        BY <2>2, <3>3, <3>5
      <3>7. \A n \in 0..l - 1 : g[n] = f[n]
        BY <2>2
      <3>8. \A n \in 0..l : g[n] = DigitsFrom(f, n)
        <4>1. g[l] = DigitsFrom(f, l)
          BY <2>2
        <4>2. \A n \in 0..l : n = l \/ n \in 0..l - 1
          BY <2>2
        <4> HIDE DEF g
        <4> QED
          BY <3>3, <3>7, <4>1, <4>2
      <3> HIDE DEF g
      <3>9. \A n \in 0..l : DigitsFrom(f, n) = DigitsFrom(g, n)
        <4> TAKE n \in 0..l
        <4>1. CASE n < 10
          BY <4>1 DEF DigitsFrom
        <4>2. CASE n >= 10
          BY <2>2, <4>2, <3>4, <3>7 DEF DigitsFrom
        <4> QED
          BY <2>2, <4>1, <4>2
      <3>10. g \in Upto(l)
        BY <3>6, <3>8, <3>9
      <3> QED
        BY <3>10, <2>2
    <2> QED
      BY <2>3, <2>4
  <1>2. ASSUME NEW l \in Nat, NEW m \in Nat, NEW f \in Upto(l), NEW g \in Upto(m),
               NEW k \in Nat, k <= l, k <= m
        PROVE  f[k] = g[k]
    <2> DEFINE Bad == {n \in Nat : n <= l /\ n <= m /\ f[n] # g[n]}
    <2> SUFFICES ASSUME Bad # {} PROVE FALSE
      BY <1>2
    <2>1. PICK n \in Bad : \A j \in Bad : n <= j
      <3>1. Bad \in SUBSET Nat
        OBVIOUS
      <3> HIDE DEF Bad
      <3> QED
        BY <3>1, LeastElement
    <2>2. n \in 0..l /\ n \in 0..m /\ f[n] # g[n] /\ n \in Nat
      OBVIOUS
    <2>3. f[n] = DigitsFrom(f, n) /\ g[n] = DigitsFrom(g, n)
      BY <2>2
    <2>4. n >= 10 => f[n \div 10] = g[n \div 10]
      <3> SUFFICES ASSUME n >= 10 PROVE f[n \div 10] = g[n \div 10]
        OBVIOUS
      <3>1. n \div 10 \in Nat /\ n \div 10 < n
        BY <2>2, Tenth
      <3>2. n \div 10 <= l /\ n \div 10 <= m /\ n \div 10 \notin Bad
        BY <2>1, <2>2, <3>1
      <3> QED
        BY <3>1, <3>2
    <2> QED
      BY <2>2, <2>3, <2>4 DEF DigitsFrom
  <1> DEFINE part == [l \in Nat |-> CHOOSE f \in Upto(l) : TRUE]
             whole == [n \in Nat |-> part[n][n]]
  <1>3. \A l \in Nat : part[l] \in Upto(l)
    BY <1>1
  <1> HIDE DEF part
  <1>4. ASSUME NEW n \in Nat
        PROVE  whole[n] = DigitsFrom(whole, n)
    <2>1. whole[n] = part[n][n]
      OBVIOUS
    <2>2. part[n][n] = DigitsFrom(part[n], n)
      BY <1>3
    <2>3. n >= 10 => part[n][n \div 10] = whole[n \div 10]
      <3> SUFFICES ASSUME n >= 10 PROVE part[n][n \div 10] = whole[n \div 10]
        OBVIOUS
      <3>1. n \div 10 \in Nat /\ n \div 10 <= n /\ n \div 10 <= n \div 10
        BY Tenth
      <3>2. part[n] \in Upto(n) /\ part[n \div 10] \in Upto(n \div 10)
        BY <1>3, <3>1
      <3> HIDE DEF Upto
      <3>3. part[n][n \div 10] = part[n \div 10][n \div 10]
        BY <1>2, <3>1, <3>2
      <3> QED
        BY <3>1, <3>3
    <2> HIDE DEF whole
    <2> QED
      BY <2>1, <2>2, <2>3 DEF DigitsFrom
  <1>5. whole = [n \in Nat |-> DigitsFrom(whole, n)]
    <2>1. whole = [n \in Nat |-> whole[n]]
      OBVIOUS
    <2> HIDE DEF whole
    <2> QED
      BY <1>4, <2>1
  <1> HIDE DEF whole
  <1>6. \E f : f = [n \in Nat |-> DigitsFrom(f, n)]
    BY <1>5
  <1>7. Digits = CHOOSE f : f = [n \in Nat |-> DigitsFrom(f, n)]
    BY DEF Digits, DigitsFrom
  <1> QED
    BY <1>6, <1>7

\* A number is shown by digits.
LEMMA DigitsAreDigits ==
  ASSUME NEW n \in Nat
  PROVE  Digits[n] \in Seq(0..9)
  <1> DEFINE Bad == {m \in Nat : Digits[m] \notin Seq(0..9)}
  <1> SUFFICES ASSUME Bad # {} PROVE FALSE
    OBVIOUS
  <1>1. PICK m \in Bad : \A j \in Bad : m <= j
    <2>1. Bad \in SUBSET Nat
      OBVIOUS
    <2> HIDE DEF Bad
    <2> QED
      BY <2>1, LeastElement
  <1>2. m \in Nat /\ Digits[m] \notin Seq(0..9)
    OBVIOUS
  <1>3. Digits[m] = DigitsFrom(Digits, m)
    BY <1>2, DigitsEquation
  <1>4. CASE m < 10
    <2>1. Digits[m] = <<m>> /\ m \in 0..9
      BY <1>2, <1>3, <1>4 DEF DigitsFrom
    <2> QED
      BY <1>2, <2>1
  <1>5. CASE m >= 10
    <2>1. Digits[m] = Append(Digits[m \div 10], m % 10)
      BY <1>2, <1>3, <1>5 DEF DigitsFrom
    <2>2. m \div 10 \in Nat /\ m \div 10 < m /\ m % 10 \in 0..9
      BY <1>2, <1>5, Tenth
    <2>3. Digits[m \div 10] \in Seq(0..9)
      BY <1>1, <1>2, <2>2
    <2> QED
      BY <1>2, <2>1, <2>2, <2>3
  <1> QED
    BY <1>2, <1>4, <1>5

\* A short id is made of digits.
LEMMA ShortIdsAreDigits ==
  ASSUME NEW b \in Block, NEW n \in Nat, NEW i \in Nat
  PROVE  MakeShortId(b, n, i) \in ShortId
  <1>1. BlockNumber[b] \in Nat
    BY LedgerAssumption
  <1>2. /\ Digits[BlockNumber[b]] \in Seq(0..9)
        /\ Digits[n] \in Seq(0..9) /\ Digits[i] \in Seq(0..9)
    BY <1>1, DigitsAreDigits
  <1>3. Digits[BlockNumber[b]] \o Digits[n] \in Seq(0..9)
    BY <1>2
  <1> QED
    BY <1>2, <1>3 DEF MakeShortId, ShortId

(***************************************************************************)
(* Types.                                                                  *)
(***************************************************************************)

\* Contracts as they are stored: no history is empty.
Version == {c \in Contract : c.transitions # <<>>}

TypedEvents ==
    [kind : {"Panic"}] \cup [kind : {"Add", "Update", "Close"}, contract : Version]

VersionsIn(table) == \A s \in DOMAIN table : table[s] \in Version /\ table[s].short = s

ControlTyped ==
    /\ wpc \in {"down", "refused", "panicked", "resuming", "idle", "block",
                "saving", "rolling", "rolled"}
    /\ rollbacks \in 0..MaxRollbacks
    /\ crashes \in 0..MaxCrashes

\* An event is only sent while a block is handled.
MessagesTyped ==
    /\ todo \in Seq(TypedEvents)
    /\ evt \in TypedEvents \cup {None}
    /\ wpc # "block" => evt = None
    /\ evt # None => evt.kind # "Panic"

TablesTyped == VersionsIn(db) /\ VersionsIn(cache)

LookupsTyped ==
    /\ \A i \in DOMAIN ids : i \in OutRef /\ ids[i] \in ShortId
    /\ \A o \in DOMAIN refs : o \in OutRef /\ refs[o] \in [slot : Nat, short : ShortId]

TypeInv == ControlTyped /\ MessagesTyped /\ TablesTyped /\ LookupsTyped

\* The parts of a stored contract.
LEMMA VersionFacts ==
  ASSUME NEW c \in Version
  PROVE  /\ c \in Versions(OutRef, ShortId)
         /\ c.id \in OutRef /\ c.short \in ShortId
         /\ c.transitions \in Seq(Transition)
         /\ Len(c.transitions) \in Nat \ {0}
         /\ DOMAIN c.transitions = 1..Len(c.transitions)
         /\ LastTransition(c) \in Transition
         /\ OutRefIfActive(c) \in OutRef \cup {None}
  <1>1. c \in Versions(OutRef, ShortId)
    BY DEF Version, Contract, Versions
  <1>2. c.transitions \in Seq(Transition) /\ c.transitions # <<>>
    BY <1>1 DEF Version, Versions
  <1>3. LastTransition(c) \in Transition
    BY <1>2 DEF LastTransition
  <1>4. OutRefIfActive(c) \in OutRef \cup {None}
    BY <1>3 DEF OutRefIfActive, Transition, OutRef
  <1> QED
    BY <1>1, <1>2, <1>3, <1>4 DEF Versions

\* A typed contract can be put into a typed table under its short id.
LEMMA PutTyped ==
  ASSUME NEW table, VersionsIn(table), NEW c \in Version
  PROVE  VersionsIn(Put(table, c.short, c))
  BY DEF VersionsIn, Put

\* A roll back leaves no contract without a transition.
LEMMA RollbackDbTyped ==
  ASSUME NEW table, VersionsIn(table), NEW slot
  PROVE  VersionsIn(RollbackDb(table, slot))
  <1> DEFINE new == RollbackDb(table, slot)
  <1>1. ASSUME NEW s \in DOMAIN new
        PROVE  new[s] \in Version /\ new[s].short = s
    <2> DEFINE c == table[s]
               ts == c.transitions
               kept == Keep(ts, {k \in DOMAIN ts : ts[k].slot <= slot})
    <2>1. s \in DOMAIN table /\ new[s] = Truncate(c, slot) /\ new[s].transitions # <<>>
      BY DEF RollbackDb
    <2>2. c \in Versions(OutRef, ShortId) /\ c.short = s /\ ts \in Seq(Transition)
      BY <2>1, VersionFacts DEF VersionsIn
    <2>3. kept \in Seq(Transition)
      <3> DEFINE P == {k \in DOMAIN ts : ts[k].slot <= slot}
      <3> HIDE DEF P, ts
      <3>1. Keep(ts, P) \in Seq(Transition)
        BY <2>2, KeepSelects
      <3> QED
        BY <3>1 DEF P
    <2>4. Truncate(c, slot) = [c EXCEPT !.transitions = kept]
      BY DEF Truncate
    <2> HIDE DEF c, kept, new
    <2>5. new[s] \in Versions(OutRef, ShortId) /\ new[s].short = s
      BY <2>1, <2>2, <2>3, <2>4 DEF Versions
    <2> QED
      BY <2>1, <2>5 DEF Version, Contract, Versions
  <1> QED
    BY <1>1 DEF VersionsIn

\* The long ids that are loaded lead to short ids of the table.
LEMMA LoadIdsTyped ==
  ASSUME NEW table, VersionsIn(table)
  PROVE  \A i \in DOMAIN LoadIds(table) : i \in OutRef /\ LoadIds(table)[i] \in ShortId
  <1> TAKE i \in DOMAIN LoadIds(table)
  <1>1. \E s \in DOMAIN table : table[s].id = i
    BY DEF LoadIds
  <1>2. LoadIds(table)[i] \in DOMAIN table /\ table[LoadIds(table)[i]].id = i
    BY <1>1 DEF LoadIds
  <1> QED
    BY <1>2, VersionFacts DEF VersionsIn

\* The events of a transaction are typed.
LEMMA EventsTyped ==
  ASSUME NEW b \in Block, NEW t \in Tx, NEW n \in Nat, VersionsIn(db), ~ LookupPanics(t)
  PROVE  EventsOf(t, b, n) \in Seq(TypedEvents)
  <1>1. ASSUME NEW k \in ConsumedInputs(t)
        PROVE  StepEvent(t, b, k) \in TypedEvents
    <2>1. CASE StepPanics(t, k)
      BY <2>1 DEF StepEvent, TypedEvents
    <2>2. CASE ~ StepPanics(t, k)
      <3> DEFINE old == db[ConsumedShort(t, k)]
                 c == Stepped(old, t, b, k)
                 e == StepEvent(t, b, k)
      <3>1. old \in Version
        BY DEF LookupPanics, VersionsIn
      <3> HIDE DEF old
      <3>2. old \in Versions(OutRef, ShortId)
        BY <3>1, VersionFacts
      <3>3. c \in Versions(OutRef, ShortId) /\ Len(c.transitions) = Len(old.transitions) + 1
        BY <3>2, SteppedFacts
      <3>4. Len(old.transitions) \in Nat
        BY <3>1, VersionFacts
      <3>5. /\ e = [kind |-> e.kind, contract |-> c]
            /\ e.kind \in {"Update", "Close"}
        BY <2>2, StepEventShape DEF old
      <3> HIDE DEF c, e
      <3>6. c.transitions # <<>>
        <4>1. Len(<<>>) = 0
          OBVIOUS
        <4> QED
          BY <3>3, <3>4, <4>1
      <3>7. c \in Version
        BY <3>3, <3>6 DEF Version, Contract, Versions
      <3>8. e \in TypedEvents
        BY <3>5, <3>7 DEF TypedEvents
      <3> QED
        BY <3>8 DEF e
    <2> QED
      BY <2>1, <2>2
  <1>2. ASSUME NEW k \in Readable(t)
        PROVE  AddEvent(t, b, n, k - 1) \in TypedEvents
    <2> DEFINE i == k - 1
               new == [tx |-> t, index |-> i, end |-> FALSE, slot |-> Slot[b], block |-> b,
                       datum |-> DatumOf(Outputs[t][i + 1]), hashed |-> TRUE]
               c == [id |-> [tx |-> t, index |-> i], short |-> MakeShortId(b, n, i),
                     transitions |-> <<new>>]
    <2>1. i \in Nat
      BY DEF Readable
    <2>2. new \in Transition
      BY <2>1, SlotAssumption DEF Transition, DatumOf
    <2>3. MakeShortId(b, n, i) \in ShortId
      BY <2>1, ShortIdsAreDigits
    <2> HIDE DEF new, i
    <2>4. c \in Version
      <3>1. <<new>> \in Seq(Transition) /\ <<new>> # <<>>
        BY <2>2
      <3>2. [tx |-> t, index |-> i] \in OutRef
        BY <2>1 DEF OutRef
      <3> QED
        BY <2>3, <3>1, <3>2 DEF Version, Contract
    <2>5. AddEvent(t, b, n, i) = [kind |-> "Add", contract |-> c]
      BY DEF AddEvent, new
    <2> HIDE DEF c
    <2>6. AddEvent(t, b, n, i) \in TypedEvents
      BY <2>4, <2>5 DEF TypedEvents
    <2> QED
      BY <2>6 DEF i
  <1> QED
    BY <1>1, <1>2, EventsAreIn

\* The reference to the new version is one to a contract.
LEMMA ReplaceRefTyped ==
  ASSUME LookupsTyped, NEW e, e.contract \in Version
  PROVE  \A o \in DOMAIN ReplaceRef(e) :
            o \in OutRef /\ ReplaceRef(e)[o] \in [slot : Nat, short : ShortId]
  <1> DEFINE c == e.contract
             kept == IF e.kind = "Add" THEN refs ELSE Drop(refs, OutRefIfActive(db[c.short]))
             ref == OutRefIfActive(c)
             entry == [slot |-> LastTransition(c).slot, short |-> c.short]
  <1>1. \A o \in DOMAIN kept : o \in DOMAIN refs /\ kept[o] = refs[o]
    BY DEF Drop
  <1>2. entry \in [slot : Nat, short : ShortId] /\ ref \in OutRef \cup {None}
    BY VersionFacts DEF Transition
  <1>3. ReplaceRef(e) = IF ref = None THEN kept ELSE Put(kept, ref, entry)
    BY DEF ReplaceRef
  <1> HIDE DEF kept, ref, entry
  <1>4. \A o \in DOMAIN ReplaceRef(e) :
           \/ o \in DOMAIN kept /\ ReplaceRef(e)[o] = kept[o]
           \/ o = ref /\ ref # None /\ ReplaceRef(e)[o] = entry
    BY <1>3 DEF Put
  <1> QED
    BY <1>1, <1>2, <1>4 DEF LookupsTyped

\* Every step keeps the types.
LEMMA TypesKept ==
  ASSUME IInv, TypeInv, [Next]_vars
  PROVE  TypeInv'
  <1> USE DEF TypeInv
  <1>1. CASE UNCHANGED vars
    BY <1>1 DEF vars, ControlTyped, MessagesTyped, TablesTyped, LookupsTyped, VersionsIn
  <1>2. CASE Crash
    <2>1. /\ crashes < MaxCrashes /\ crashes' = crashes + 1 /\ wpc' = "down"
          /\ todo' = <<>> /\ evt' = None /\ cache' = <<>> /\ ids' = <<>> /\ refs' = <<>>
          /\ UNCHANGED <<db, rollbacks>>
      BY <1>2 DEF Crash, disk
    <2>2. ControlTyped'
      BY <2>1, BoundsAssumption DEF ControlTyped
    <2> QED
      BY <2>1, <2>2 DEF MessagesTyped, TablesTyped, LookupsTyped, VersionsIn
  <1>3. CASE Restart
    <2>1. /\ wpc = "down" /\ UNCHANGED <<todo, evt, db, rollbacks, crashes>>
          /\ \/ wpc' = "refused" /\ UNCHANGED <<cache, ids, refs>>
             \/ wpc' = "resuming" /\ cache' = db /\ ids' = LoadIds(db) /\ refs' = <<>>
      BY <1>3 DEF Restart, disk, bounds, memory
    <2>2. ControlTyped' /\ MessagesTyped'
      BY <2>1 DEF ControlTyped, MessagesTyped
    <2>3. TablesTyped'
      BY <2>1 DEF TablesTyped, VersionsIn
    <2>4. LookupsTyped'
      <3>1. CASE UNCHANGED <<cache, ids, refs>>
        BY <3>1 DEF LookupsTyped
      <3>2. CASE ids' = LoadIds(db) /\ refs' = <<>>
        BY <3>2, LoadIdsTyped DEF LookupsTyped, TablesTyped
      <3> QED
        BY <2>1, <3>1, <3>2
    <2> QED
      BY <2>2, <2>3, <2>4
  <1>4. CASE HandleBlock
    BY <1>4 DEF HandleBlock, disk, memory, bounds, ControlTyped, MessagesTyped, TablesTyped,
                LookupsTyped, VersionsIn
  <1>5. CASE ReadTransaction
    <2> DEFINE t == TxsOf[followed][at + 1]
    <2>1. /\ UNCHANGED <<followed, db, cache, ids, refs, rollbacks, crashes>>
          /\ evt' = None /\ wpc = "block" /\ at < Len(TxsOf[followed])
          /\ IF LookupPanics(t)
             THEN wpc' = "panicked" /\ UNCHANGED todo
             ELSE wpc' = wpc /\ todo' = EventsOf(t, followed, at)
      BY <1>5 DEF ReadTransaction, disk, memory, bounds
    <2>2. followed \in Block /\ at \in Nat
      BY DEF IInv, PositionFits
    <2>3. t \in Tx
      BY <2>1, <2>2, LedgerAssumption
    <2> HIDE DEF t
    <2>4. todo' \in Seq(TypedEvents)
      BY <2>1, <2>2, <2>3, EventsTyped DEF MessagesTyped, TablesTyped
    <2> QED
      BY <2>1, <2>4 DEF ControlTyped, MessagesTyped, TablesTyped, LookupsTyped, VersionsIn
  <1>6. CASE Apply
    <2> DEFINE e == Head(todo)
    <2>1. /\ UNCHANGED <<rollbacks, crashes>>
          /\ wpc = "block" /\ todo # <<>> /\ todo' = Tail(todo)
          /\ wpc' \in {"panicked", "block"}
          /\ \/ e.kind = "Panic" /\ wpc' = "panicked" /\ evt' = None
                /\ UNCHANGED <<db, cache, ids, refs>>
             \/ /\ e.kind # "Panic"
                /\ db' = Put(db, e.contract.short, e.contract)
                /\ cache' = IF e.contract.short \in DOMAIN cache THEN cache
                            ELSE Put(cache, e.contract.short, e.contract)
                /\ ids' = Put(ids, e.contract.id, e.contract.short)
                /\ \/ wpc' = "panicked" /\ evt' = None /\ UNCHANGED refs
                   \/ wpc' = wpc /\ evt' = e /\ refs' = ReplaceRef(e)
      <3>1. CASE e.kind = "Panic"
        BY <1>6, <3>1 DEF Apply, memory, bounds
      <3>2. CASE e.kind # "Panic"
        BY <1>6, <3>2 DEF Apply, bounds
      <3> QED
        BY <3>1, <3>2
    <2>2. e \in TypedEvents /\ todo' \in Seq(TypedEvents)
      BY <2>1 DEF MessagesTyped
    <2> HIDE DEF e
    <2>3. ControlTyped'
      BY <2>1 DEF ControlTyped
    <2>4. CASE e.kind = "Panic" /\ UNCHANGED <<db, cache, ids, refs>>
                /\ wpc' = "panicked" /\ evt' = None
      BY <2>2, <2>3, <2>4 DEF MessagesTyped, TablesTyped, LookupsTyped, VersionsIn
    <2>5. CASE e.kind # "Panic"
      <3>1. e.contract \in Version
        BY <2>2, <2>5 DEF TypedEvents
      <3>2. e.contract.id \in OutRef /\ e.contract.short \in ShortId
        BY <3>1, VersionFacts
      <3>3. MessagesTyped'
        BY <2>1, <2>2, <2>5 DEF MessagesTyped
      <3>4. TablesTyped'
        <4>1. VersionsIn(db') /\ VersionsIn(cache')
          BY <2>1, <2>5, <3>1, PutTyped DEF TablesTyped
        <4> QED
          BY <4>1 DEF TablesTyped, VersionsIn
      <3>5. \A i \in DOMAIN ids' : i \in OutRef /\ ids'[i] \in ShortId
        BY <2>1, <2>5, <3>2 DEF LookupsTyped, Put
      <3>6. \A o \in DOMAIN refs' : o \in OutRef /\ refs'[o] \in [slot : Nat, short : ShortId]
        <4>1. refs' = refs \/ refs' = ReplaceRef(e)
          BY <2>1, <2>5
        <4>2. CASE refs' = refs
          BY <4>2 DEF LookupsTyped
        <4>3. CASE refs' = ReplaceRef(e)
          BY <4>3, <3>1, ReplaceRefTyped
        <4> QED
          BY <4>1, <4>2, <4>3
      <3> QED
        BY <2>3, <3>3, <3>4, <3>5, <3>6 DEF LookupsTyped
    <2> QED
      BY <2>1, <2>4, <2>5
  <1>7. CASE SaveHash
    BY <1>7 DEF SaveHash, memory, bounds, ControlTyped, MessagesTyped, TablesTyped,
                LookupsTyped, VersionsIn
  <1>8. CASE SaveSlot
    BY <1>8 DEF SaveSlot, memory, bounds, ControlTyped, MessagesTyped, TablesTyped,
                LookupsTyped, VersionsIn
  <1>9. ASSUME NEW p \in Block, RollbackContracts(p), UNCHANGED todo, ControlTyped'
        PROVE  TypeInv'
    <2>1. /\ refs' = RetainRefs(refs, Slot[p]) /\ db' = RollbackDb(db, Slot[p])
          /\ cache' = db' /\ ids' = LoadIds(db') /\ evt' = None /\ wpc' = "rolling"
      BY <1>9 DEF RollbackContracts
    <2>2. VersionsIn(db')
      BY <2>1, RollbackDbTyped DEF TablesTyped
    <2>3. TablesTyped'
      BY <2>1, <2>2 DEF TablesTyped, VersionsIn
    <2>4. \A i \in DOMAIN ids' : i \in OutRef /\ ids'[i] \in ShortId
      BY <2>1, <2>2, LoadIdsTyped
    <2>5. \A o \in DOMAIN refs' : o \in OutRef /\ refs'[o] \in [slot : Nat, short : ShortId]
      BY <2>1 DEF LookupsTyped, RetainRefs
    <2> QED
      BY <1>9, <2>1, <2>3, <2>4, <2>5 DEF MessagesTyped, LookupsTyped
  <1>10. CASE HandleRollback
    <2>1. PICK p \in Ancestors[followed] : RollbackContracts(p)
      BY <1>10 DEF HandleRollback
    <2>2. rollbacks < MaxRollbacks /\ rollbacks' = rollbacks + 1 /\ UNCHANGED <<todo, crashes>>
      BY <1>10 DEF HandleRollback
    <2>3. wpc' = "rolling" /\ p \in Block
      BY <2>1, AncestorFacts DEF RollbackContracts, IInv, PositionFits
    <2>4. ControlTyped'
      BY <2>2, <2>3, BoundsAssumption DEF ControlTyped
    <2> QED
      BY <1>9, <2>1, <2>2, <2>3, <2>4
  <1>11. CASE FirstRollback
    <2>1. RollbackContracts(followed) /\ UNCHANGED <<todo, rollbacks, crashes>>
      BY <1>11 DEF FirstRollback, bounds
    <2>2. wpc' = "rolling" /\ followed \in Block
      BY <2>1 DEF RollbackContracts, IInv, PositionFits
    <2>3. ControlTyped'
      BY <2>1, <2>2 DEF ControlTyped
    <2> QED
      BY <1>9, <2>1, <2>2, <2>3
  <1>12. CASE SaveRollbackSlot
    BY <1>12 DEF SaveRollbackSlot, memory, bounds, ControlTyped, MessagesTyped, TablesTyped,
                 LookupsTyped, VersionsIn
  <1>13. CASE SaveRollbackHash
    BY <1>13 DEF SaveRollbackHash, memory, bounds, ControlTyped, MessagesTyped, TablesTyped,
                 LookupsTyped, VersionsIn
  <1> QED
    BY <1>1, <1>2, <1>3, <1>4, <1>5, <1>6, <1>7, <1>8, <1>10, <1>11, <1>12, <1>13 DEF Next

(***************************************************************************)
(* The theorems.                                                           *)
(***************************************************************************)

\* The database, the saved hash and the chain followed are of one chain in
\* every state, and the events still to be applied are of it.
THEOREM Invariance == Spec => []IInv
  <1>1. Init => IInv
    BY InitIInv
  <1>2. IInv /\ [Next]_vars => IInv'
    <2> SUFFICES ASSUME IInv, [Next]_vars
                 PROVE  IInv'
      OBVIOUS
    <2>1. CASE UNCHANGED vars
      BY <2>1 DEF vars, IInv, PositionFits, OneChain, NothingUnsaved, DbFits,
                  SavedFits, TodoFits, TableOn
    <2> QED
      BY <2>1, CrashKeeps, RestartKeeps, HandleBlockKeeps, ReadTransactionKeeps,
         ApplyKeeps, SaveHashKeeps, SaveSlotKeeps, HandleRollbackKeeps,
         FirstRollbackKeeps, SaveRollbackSlotKeeps, SaveRollbackHashKeeps DEF Next
  <1> QED
    BY <1>1, <1>2, PTL DEF Spec

\* After every handled event nothing of an abandoned block is in the
\* database, whatever forks, roll backs and stops between any two writes
\* there were: rolling back by slot is enough.
THEOREM NothingOfOtherForks == Spec => []DbOnChain
  <1>1. IInv => DbOnChain
    BY DEF IInv, DbFits, TableOn, OnChain, DbOnChain
  <1> QED
    BY <1>1, Invariance, PTL

\* Every variable keeps its type: short ids are made of digits, a contract is
\* stored under its own short id, and no stored history is ever empty,
\* whatever is rolled back.
THEOREM TypesInvariance == Spec => []TypeInv
  <1>1. Init => TypeInv
    <2> SUFFICES ASSUME Init PROVE TypeInv
      OBVIOUS
    <2>1. /\ wpc = "down" /\ todo = <<>> /\ evt = None /\ DOMAIN db = {} /\ DOMAIN cache = {}
          /\ DOMAIN ids = {} /\ DOMAIN refs = {} /\ rollbacks = 0 /\ crashes = 0
      BY DEF Init
    <2> QED
      BY <2>1, BoundsAssumption DEF TypeInv, ControlTyped, MessagesTyped, TablesTyped,
                                    LookupsTyped, VersionsIn
  <1>2. IInv /\ TypeInv /\ [Next]_vars => TypeInv'
    BY TypesKept
  <1> QED
    BY <1>1, <1>2, Invariance, PTL DEF Spec

\* The type invariant holds for every block tree, ledger and bound.
THEOREM TypeCorrect == Spec => []TypeOK
  <1>1. IInv /\ TypeInv => TypeOK
    <2> SUFFICES ASSUME IInv, TypeInv PROVE TypeOK
      OBVIOUS
    <2>1. \A table : VersionsIn(table) => IsContractTable(table)
      <3> SUFFICES ASSUME NEW table, VersionsIn(table) PROVE IsContractTable(table)
        OBVIOUS
      <3>1. \A s \in DOMAIN table : s \in ShortId
        BY VersionFacts DEF VersionsIn
      <3> QED
        BY <3>1 DEF VersionsIn, IsContractTable, Version
    <2>2. IsContractTable(db) /\ IsContractTable(cache)
      BY <2>1 DEF TypeInv, TablesTyped
    <2>3. \A e \in TypedEvents : e \in MarloweEvent \cup [kind : {"Panic"}]
      BY DEF TypedEvents, MarloweEvent, Version
    <2>4. \A k \in DOMAIN todo : todo[k] \in TypedEvents
      BY DEF TypeInv, MessagesTyped
    <2>5. evt \in MarloweEvent \cup {None}
      <3>1. CASE evt = None
        BY <3>1
      <3>2. CASE evt # None
        <4>1. evt \in TypedEvents /\ evt.kind # "Panic"
          BY <3>2 DEF TypeInv, MessagesTyped
        <4>2. evt \in [kind : {"Add", "Update", "Close"}, contract : Version]
          BY <4>1 DEF TypedEvents
        <4> QED
          BY <4>2 DEF MarloweEvent, Version
      <3> QED
        BY <3>1, <3>2
    <2> QED
      BY <2>2, <2>3, <2>4, <2>5 DEF TypeOK, TypeInv, ControlTyped, LookupsTyped, IInv, PositionFits
  <1> QED
    BY <1>1, Invariance, TypesInvariance, PTL

=============================================================================
