------------------------ MODULE MarloweHistoryProofs ------------------------
(***************************************************************************)
(* Proofs about the histories MarloweIndex stores, for every block tree    *)
(* and ledger that keep the rules the program relies on: the references    *)
(* lead to the contracts they stand for, so that no step panics, every     *)
(* stored history is a chain of outputs, and the database as a whole is an *)
(* index of one chain.                                                     *)
(***************************************************************************)
EXTENDS MarloweStoreProofs

LedgerRules == PositionRules /\ InputsAreEarlier(Block) /\ ContractsKeepIndex(Block)

(***************************************************************************)
(* The inductive invariant.                                                *)
(***************************************************************************)

\* Every transition is where the chain has it, consumes the output of its
\* predecessor, and can be consumed in its turn unless it is the end.
Linked(c) ==
    /\ \A k \in DOMAIN c.transitions :
          LET x == c.transitions[k]
          IN  /\ x.tx \in Elements(TxsOf[x.block])
              /\ x.end \/ x.hashed
    /\ \A k \in 2..Len(c.transitions) :
          LET before == c.transitions[k - 1]
              after == c.transitions[k]
          IN  /\ [tx |-> before.tx, index |-> before.index] \in Elements(Inputs[after.tx])
              /\ before.block \in Ancestors[after.block]
              /\ ~before.end

LinkedIn(table) == \A s \in DOMAIN table : Linked(table[s])

\* The transaction that is being applied, and those applied before it.
Current == TxsOf[followed][at]
Working == wpc = "block" /\ todo # <<>>
Done == IF wpc # "block" THEN Len(TxsOf[followed]) ELSE IF todo = <<>> THEN at ELSE at - 1
Handled == TxsUpTo(followed, Done)

AtFits == wpc = "block" => at \in 0..Len(TxsOf[followed]) /\ (todo # <<>> => at # 0)

\* The reference to an output leads to the contract it is the last of.
Leads(o) ==
    /\ refs[o].short \in DOMAIN db
    /\ OutRefIfActive(db[refs[o].short]) = o
    /\ refs[o].slot = LastTransition(db[refs[o].short]).slot

\* A reference that outlives a roll back may lead nowhere, but only as long
\* as its transaction is not on the chain followed.
HandledLead == \A o \in DOMAIN refs : o.tx \in Handled => Leads(o)

\* What the current transaction leads astray, one of its events puts right.
CurrentLead ==
    Working => \A o \in DOMAIN refs : o.tx = Current =>
        Leads(o) \/ \E k \in DOMAIN todo : OutRefIfActive(todo[k].contract) = o

\* The events to be applied add outputs of the current transaction, or step
\* the stored versions of contracts it consumes.
PlannedAdds ==
    \E f \in [DOMAIN todo -> Readable(Current)] :
        /\ \A j, k \in DOMAIN todo : j # k => f[j] # f[k]
        /\ \A k \in DOMAIN todo : todo[k] = AddEvent(Current, followed, at - 1, f[k] - 1)

PlannedSteps ==
    \E f \in [DOMAIN todo -> Nat] :
        /\ \A j, k \in DOMAIN todo : j # k => f[j] # f[k]
        /\ \A k \in DOMAIN todo :
              /\ f[k] \in ConsumedInputs(Current)
              /\ todo[k].kind # "Add"
              /\ todo[k].contract = Stepped(db[refs[Inputs[Current][f[k]]].short],
                                            Current, followed, f[k])

Planned == Working => PlannedAdds \/ PlannedSteps

NoPanic == wpc # "panicked" /\ \A k \in DOMAIN todo : todo[k].kind # "Panic"

HistoryInv ==
    /\ LinkedIn(db) /\ AtFits /\ RefsAreContractOutputs
    /\ HandledLead /\ CurrentLead /\ Planned /\ NoPanic

(***************************************************************************)
(* Facts about the transactions of a chain.                                *)
(***************************************************************************)

\* Membership, without the union.
LEMMA InUpTo ==
  ASSUME NEW b, NEW n, NEW t
  PROVE  t \in TxsUpTo(b, n) <=>
            \/ \E a \in Ancestors[b] \ {b} : t \in Elements(TxsOf[a])
            \/ \E j \in 1..n : TxsOf[b][j] = t
  <1> DEFINE earlier == UNION {Elements(TxsOf[a]) : a \in Ancestors[b] \ {b}}
             here == {TxsOf[b][k] : k \in 1..n}
  <1>1. t \in earlier <=> \E a \in Ancestors[b] \ {b} : t \in Elements(TxsOf[a])
    BY Zenon
  <1>2. t \in here <=> \E j \in 1..n : TxsOf[b][j] = t
    BY Zenon
  <1>3. TxsUpTo(b, n) = earlier \cup here
    BY DEF TxsUpTo
  <1> HIDE DEF earlier, here
  <1> QED
    BY <1>1, <1>2, <1>3

\* What a chain has up to the n-th transaction of its last block.
LEMMA UpToFacts ==
  ASSUME NEW b \in Block, NEW n \in 0..Len(TxsOf[b]), NEW t
  PROVE  t \in TxsUpTo(b, n) <=>
            \E a \in Ancestors[b] : \E j \in DOMAIN TxsOf[a] :
                TxsOf[a][j] = t /\ (a # b \/ j <= n)
  <1>1. TxsOf[b] \in Seq(Tx) /\ DOMAIN TxsOf[b] = 1..Len(TxsOf[b]) /\ Len(TxsOf[b]) \in Nat
    BY LedgerAssumption
  <1>2. b \in Ancestors[b]
    BY AncestorFacts
  <1>3. t \in TxsUpTo(b, n) <=>
           \/ \E a \in Ancestors[b] \ {b} : \E j \in DOMAIN TxsOf[a] : TxsOf[a][j] = t
           \/ \E j \in 1..n : TxsOf[b][j] = t
    BY InUpTo DEF Elements
  <1>4. \A j : j \in 1..n <=> j \in DOMAIN TxsOf[b] /\ j <= n
    BY <1>1
  <1> QED
    BY <1>2, <1>3, <1>4

\* What comes later is not among it.
LEMMA NotUpTo ==
  ASSUME PositionRules, NEW b \in Block, NEW n \in 0..Len(TxsOf[b]),
         NEW k \in DOMAIN TxsOf[b], n < k
  PROVE  TxsOf[b][k] \notin TxsUpTo(b, n)
  <1> SUFFICES ASSUME TxsOf[b][k] \in TxsUpTo(b, n) PROVE FALSE
    OBVIOUS
  <1>1. PICK a \in Ancestors[b] : \E j \in DOMAIN TxsOf[a] :
           TxsOf[a][j] = TxsOf[b][k] /\ (a # b \/ j <= n)
    BY UpToFacts
  <1>2. PICK j \in DOMAIN TxsOf[a] : TxsOf[a][j] = TxsOf[b][k] /\ (a # b \/ j <= n)
    BY <1>1
  <1>3. a = b /\ j = k
    BY <1>2, AncestorFacts, OnePosition
  <1>4. TxsOf[b] \in Seq(Tx)
    BY LedgerAssumption
  <1> QED
    BY <1>2, <1>3, <1>4

\* A transaction further, and a block further.
LEMMA UpToNext ==
  ASSUME NEW b \in Block, NEW n \in Nat, n + 1 \in DOMAIN TxsOf[b], NEW t
  PROVE  t \in TxsUpTo(b, n + 1) <=> t \in TxsUpTo(b, n) \/ t = TxsOf[b][n + 1]
  <1>1. 1..n + 1 = 1..n \cup {n + 1}
    OBVIOUS
  <1> QED
    BY <1>1, InUpTo

\* A new block begins with what the chain of its parent has.
LEMMA UpToBlock ==
  ASSUME NEW b \in Block, NEW c \in Block \ {Origin}, Parent[c] = b, NEW t
  PROVE  t \in TxsUpTo(c, 0) <=> t \in TxsUpTo(b, Len(TxsOf[b]))
  <1>1. TxsOf[b] \in Seq(Tx) /\ DOMAIN TxsOf[b] = 1..Len(TxsOf[b]) /\ Len(TxsOf[b]) \in Nat
    BY LedgerAssumption
  <1>2. /\ Ancestors[c] = {c} \cup Ancestors[b] /\ c \notin Ancestors[b]
        /\ b \in Ancestors[b]
    BY AncestorFacts, AncestorsAssumption
  <1>3. t \in TxsUpTo(c, 0) <=> \E a \in Ancestors[b] : t \in Elements(TxsOf[a])
    BY <1>2 DEF TxsUpTo
  <1>4. t \in TxsUpTo(b, Len(TxsOf[b])) <=>
           \/ \E a \in Ancestors[b] \ {b} : t \in Elements(TxsOf[a])
           \/ \E k \in 1..Len(TxsOf[b]) : TxsOf[b][k] = t
    BY InUpTo
  <1>5. (\E k \in 1..Len(TxsOf[b]) : TxsOf[b][k] = t) <=> t \in Elements(TxsOf[b])
    BY <1>1 DEF Elements
  <1> QED
    BY <1>2, <1>3, <1>4, <1>5

\* A block back: what the chain of p has, a longer one has.
LEMMA UpToShorter ==
  ASSUME NEW b \in Block, NEW p \in Ancestors[b], NEW t \in TxsUpTo(p, Len(TxsOf[p]))
  PROVE  /\ \E a \in Ancestors[p] : a \in Ancestors[b] /\ t \in Elements(TxsOf[a])
         /\ t \in TxsUpTo(b, Len(TxsOf[b]))
  <1>1. p \in Block /\ Ancestors[p] \subseteq Ancestors[b]
    BY AncestorFacts
  <1>2. Len(TxsOf[p]) \in 0..Len(TxsOf[p]) /\ Len(TxsOf[b]) \in 0..Len(TxsOf[b])
    <2>1. TxsOf[p] \in Seq(Tx) /\ TxsOf[b] \in Seq(Tx)
      BY <1>1, LedgerAssumption
    <2> QED
      BY <2>1
  <1>3. PICK a \in Ancestors[p] : \E j \in DOMAIN TxsOf[a] : TxsOf[a][j] = t
    BY <1>1, <1>2, UpToFacts
  <1>4. PICK j \in DOMAIN TxsOf[a] : TxsOf[a][j] = t
    BY <1>3
  <1>5. a # b \/ j <= Len(TxsOf[b])
    <2>1. TxsOf[b] \in Seq(Tx)
      BY LedgerAssumption
    <2> QED
      BY <1>4, <2>1
  <1> QED
    BY <1>1, <1>2, <1>4, <1>5, UpToFacts DEF Elements

(***************************************************************************)
(* Facts about moves.                                                      *)
(***************************************************************************)

\* The n-th input of t, the k-th transaction of b, is a contract that is known
\* and moved by the rules.
MovesWell(t, b, k, n) ==
    LET o == Inputs[t][n]
    IN  /\ o \in DOMAIN refs /\ o \in OutRef
        /\ o.tx \in TxsUpTo(b, k - 1)
        /\ n - 1 \in Redeemers[t]
        /\ \A i \in MarloweOutputs(t) : i = o.index /\ Outputs[t][i + 1] # "bad"
        /\ \A m \in ConsumedInputs(t) : m # n => Inputs[t][m] # o

\* So is every input that is found.
LEMMA MoveFacts ==
  ASSUME LedgerRules, RefsAreContractOutputs, NEW b \in Block, NEW k \in DOMAIN TxsOf[b],
         NEW n \in ConsumedInputs(TxsOf[b][k])
  PROVE  MovesWell(TxsOf[b][k], b, k, n)
  <1> DEFINE t == TxsOf[b][k]
             o == Inputs[t][n]
  <1>1. t \in Tx /\ Inputs[t] \in Seq(OutRef)
    BY LedgerAssumption
  <1>2. /\ n \in DOMAIN Inputs[t] /\ o \in DOMAIN refs
        /\ \A m \in ConsumedInputs(t) : m \in DOMAIN Inputs[t]
    BY <1>1 DEF ConsumedInputs
  <1>3. o \in OutRef /\ o \in Elements(Inputs[t])
    BY <1>1, <1>2 DEF Elements
  <1>4. o \in Moved(t)
    BY <1>2, <1>3 DEF Moved, RefsAreContractOutputs
  <1>5. t \in Elements(TxsOf[b])
    BY DEF Elements
  <1>6. /\ n - 1 \in Redeemers[t]
        /\ \A i \in MarloweOutputs(t) : i = o.index /\ Outputs[t][i + 1] # "bad"
    BY <1>2, <1>4, <1>5 DEF LedgerRules, ContractsKeepIndex
  <1>7. /\ o.tx \in TxsUpTo(b, k - 1)
        /\ \A m \in DOMAIN Inputs[t] : Inputs[t][m] = o => m = n
    BY <1>2, <1>4 DEF LedgerRules, InputsAreEarlier
  <1> QED
    BY <1>2, <1>3, <1>6, <1>7 DEF MovesWell

\* What goes on can be consumed in its turn.
LEMMA NextIsHashed ==
  ASSUME NEW b \in Block, NEW t \in Tx, NEW n \in ConsumedInputs(t), NEW i,
         \A j \in MarloweOutputs(t) : j = i /\ Outputs[t][j + 1] # "bad"
  PROVE  LET new == NewTransition(t, b, n)
         IN  /\ new.end \/ new.hashed
             /\ ~new.end => i \in MarloweOutputs(t) /\ [tx |-> t, index |-> i] \in Contracts(t)
  <1> DEFINE new == NewTransition(t, b, n)
             first == CHOOSE x \in MarloweOutputs(t) : \A y \in MarloweOutputs(t) : x <= y
  <1>1. new.end = (MarloweOutputs(t) = {})
    BY NewTransitionFacts
  <1>2. CASE MarloweOutputs(t) = {}
    BY <1>1, <1>2
  <1>3. CASE MarloweOutputs(t) # {}
    <2>1. i \in MarloweOutputs(t) /\ MarloweOutputs(t) = {i} /\ Outputs[t][i + 1] # "bad"
      BY <1>3
    <2>2. Outputs[t] \in Seq(Kinds)
      BY LedgerAssumption
    <2>3. i \in 0..Len(Outputs[t]) - 1 /\ Outputs[t][i + 1] # "other"
      BY <2>1 DEF MarloweOutputs
    <2>4. i \in Nat /\ i + 1 = 1 + i /\ i + 1 \in DOMAIN Outputs[t]
      BY <2>2, <2>3
    <2>5. HasHash(Outputs[t][1 + i])
      BY <2>1, <2>2, <2>3, <2>4 DEF Kinds, HasHash
    <2>6. first = i
      <3>1. \A y \in MarloweOutputs(t) : i <= y
        BY <2>1, <2>4
      <3> QED
        BY <2>1, <3>1
    <2>7. new.hashed = HasHash(Outputs[t][1 + first])
      BY <1>3 DEF NewTransition
    <2> HIDE DEF new, first
    <2>8. [tx |-> t, index |-> i] \in Contracts(t)
      BY <2>1 DEF Contracts
    <2> QED
      BY <2>1, <2>5, <2>6, <2>7, <2>8 DEF new
  <1> QED
    BY <1>2, <1>3

\* A linked history stays linked when its last output is consumed.
LEMMA SteppedLinked ==
  ASSUME NEW b \in Block, NEW j \in DOMAIN TxsOf[b], NEW n \in ConsumedInputs(TxsOf[b][j]),
         NEW c \in Version, Linked(c), OnChain(c, b),
         OutRefIfActive(c) = Inputs[TxsOf[b][j]][n],
         ~ LastTransition(c).end,
         NewTransition(TxsOf[b][j], b, n).end \/ NewTransition(TxsOf[b][j], b, n).hashed
  PROVE  Linked(Stepped(c, TxsOf[b][j], b, n))
  <1> DEFINE t == TxsOf[b][j]
             d == Stepped(c, t, b, n)
             l == Len(c.transitions)
             old == c.transitions
             new == d.transitions
  <1>1. c \in Versions(OutRef, ShortId) /\ l \in Nat \ {0}
    BY VersionFacts
  <1>2. t \in Tx /\ t \in Elements(TxsOf[b]) /\ Inputs[t] \in Seq(OutRef)
    BY LedgerAssumption DEF Elements
  <1>3. Inputs[t][n] \in Elements(Inputs[t])
    BY <1>2 DEF ConsumedInputs, Elements
  <1>4. /\ DOMAIN old = 1..l /\ DOMAIN new = 1..l + 1 /\ Len(new) = l + 1
        /\ new[l + 1] = NewTransition(t, b, n)
        /\ \A k \in 1..l : /\ new[k].tx = old[k].tx /\ new[k].index = old[k].index
                           /\ new[k].block = old[k].block
                           /\ new[k].end = old[k].end /\ new[k].hashed = old[k].hashed
    BY <1>1, <1>2, SteppedFacts
  <1>5. new[l + 1].tx = t /\ new[l + 1].block = b
    BY <1>2, <1>4, NewTransitionFacts
  <1>6. new[l + 1].end \/ new[l + 1].hashed
    BY <1>4
  <1>7. /\ [tx |-> old[l].tx, index |-> old[l].index] = Inputs[t][n] /\ ~old[l].end
    BY DEF OutRefIfActive, LastTransition
  <1>8. old[l].block \in Ancestors[b]
    BY <1>1, <1>4 DEF OnChain
  <1> HIDE DEF t, d, l
  <1>9. ASSUME NEW k \in 1..l + 1
        PROVE  new[k].tx \in Elements(TxsOf[new[k].block]) /\ (new[k].end \/ new[k].hashed)
    <2>1. CASE k = l + 1
      BY <1>2, <1>5, <1>6, <2>1
    <2>2. CASE k # l + 1
      <3>1. k \in 1..l
        BY <1>1, <2>2
      <3> QED
        BY <1>4, <3>1 DEF Linked
    <2> QED
      BY <2>1, <2>2
  <1>10. ASSUME NEW k \in 2..l + 1
         PROVE  /\ [tx |-> new[k - 1].tx, index |-> new[k - 1].index]
                      \in Elements(Inputs[new[k].tx])
                /\ new[k - 1].block \in Ancestors[new[k].block]
                /\ ~new[k - 1].end
    <2>1. k - 1 \in 1..l
      BY <1>1
    <2>2. CASE k = l + 1
      <3>1. k - 1 = l
        BY <1>1, <2>2
      <3>2. /\ new[l].tx = old[l].tx /\ new[l].index = old[l].index
            /\ new[l].block = old[l].block /\ new[l].end = old[l].end
        BY <1>4, <2>1, <3>1
      <3>3. [tx |-> new[l].tx, index |-> new[l].index] = Inputs[t][n]
        BY <1>7, <3>2
      <3>4. new[l].block \in Ancestors[b] /\ ~new[l].end
        BY <1>7, <1>8, <3>2
      <3> QED
        BY <1>3, <1>5, <2>2, <3>1, <3>3, <3>4
    <2>3. CASE k # l + 1
      <3>1. k \in 1..l /\ k \in 2..Len(old)
        BY <1>1, <2>3 DEF l
      <3>2. /\ [tx |-> old[k - 1].tx, index |-> old[k - 1].index]
                  \in Elements(Inputs[old[k].tx])
            /\ old[k - 1].block \in Ancestors[old[k].block]
            /\ ~old[k - 1].end
        BY <3>1 DEF Linked
      <3> QED
        BY <1>4, <2>1, <3>1, <3>2
    <2> QED
      BY <2>2, <2>3
  <1> QED
    BY <1>4, <1>9, <1>10 DEF Linked, t, d

\* A roll back keeps the beginning of a linked history.
LEMMA RollbackLinked ==
  ASSUME NEW table, VersionsIn(table), SoundIn(table), LinkedIn(table), NEW slot \in Nat
  PROVE  LinkedIn(RollbackDb(table, slot))
  <1> SUFFICES ASSUME NEW s \in DOMAIN RollbackDb(table, slot)
               PROVE  Linked(RollbackDb(table, slot)[s])
    BY DEF LinkedIn
  <1> DEFINE c == table[s]
             d == Truncate(c, slot)
  <1>1. s \in DOMAIN table /\ RollbackDb(table, slot)[s] = d
    BY DEF RollbackDb
  <1>2. c \in Version /\ Sorted(c) /\ Linked(c)
    BY <1>1 DEF VersionsIn, SoundIn, LinkedIn
  <1>3. c.transitions \in Seq(Transition)
    BY <1>2, VersionFacts
  <1> HIDE DEF c
  <1>4. /\ d.transitions \in Seq(Transition) /\ Len(d.transitions) <= Len(c.transitions)
        /\ \A k \in DOMAIN d.transitions : d.transitions[k] = c.transitions[k]
    BY <1>2, TruncateIsBeginning
  <1> HIDE DEF d
  <1>5. \A k \in DOMAIN d.transitions : k \in DOMAIN c.transitions
    BY <1>3, <1>4
  <1>6. \A k \in 2..Len(d.transitions) : /\ k \in 2..Len(c.transitions)
                                        /\ k \in DOMAIN d.transitions
                                        /\ k - 1 \in DOMAIN d.transitions
    BY <1>3, <1>4
  <1>7. Linked(d)
    BY <1>2, <1>4, <1>5, <1>6 DEF Linked
  <1> QED
    BY <1>1, <1>7

(***************************************************************************)
(* Facts about events.                                                     *)
(***************************************************************************)

\* A contract that transaction t of block b creates: it stands for the output
\* it is named after.
Begins(c, t, b) ==
    /\ c.id.tx = t /\ c.id \in Contracts(t)
    /\ OutRefIfActive(c) = c.id /\ LastTransition(c).slot = Slot[b]
    /\ Linked(c)
    /\ DOMAIN c.transitions = {1}
    /\ First(c).block = b /\ First(c).tx = t /\ ~First(c).end

\* An event that adds a contract adds one of these.
LEMMA AddShape ==
  ASSUME NEW b \in Block, NEW j \in DOMAIN TxsOf[b], NEW n \in Nat,
         NEW k \in Readable(TxsOf[b][j])
  PROVE  LET e == AddEvent(TxsOf[b][j], b, n, k - 1)
         IN  /\ e.kind = "Add" /\ e.contract.id = [tx |-> TxsOf[b][j], index |-> k - 1]
             /\ Begins(e.contract, TxsOf[b][j], b)
  <1> DEFINE t == TxsOf[b][j]
             i == k - 1
             new == [tx |-> t, index |-> i, end |-> FALSE, slot |-> Slot[b], block |-> b,
                     datum |-> DatumOf(Outputs[t][i + 1]), hashed |-> TRUE]
             e == AddEvent(t, b, n, i)
             c == e.contract
  <1>1. t \in Tx /\ t \in Elements(TxsOf[b])
    BY LedgerAssumption DEF Elements
  <1>2. Len(Outputs[t]) \in Nat
    BY <1>1, LedgerAssumption
  <1>3. k \in 1..Len(Outputs[t]) /\ Outputs[t][k] \notin {"other", "bad"}
    BY DEF Readable
  <1> HIDE DEF t
  <1>4. i \in 0..Len(Outputs[t]) - 1 /\ i + 1 = k
    BY <1>2, <1>3
  <1>5. i \in MarloweOutputs(t) /\ Outputs[t][i + 1] # "bad"
    BY <1>3, <1>4 DEF MarloweOutputs
  <1>6. /\ e.kind = "Add" /\ c.id = [tx |-> t, index |-> i] /\ c.transitions = <<new>>
    BY DEF AddEvent
  <1> HIDE DEF i, e, c
  <1>7. /\ new.tx = t /\ new.index = i /\ ~new.end /\ new.block = b /\ new.slot = Slot[b]
        /\ new.hashed
    OBVIOUS
  <1> HIDE DEF new
  <1>8. c.id \in Contracts(t)
    BY <1>5, <1>6 DEF Contracts
  <1>9. First(c) = new /\ LastTransition(c) = new /\ DOMAIN c.transitions = {1}
    BY <1>6 DEF First, LastTransition
  <1>10. OutRefIfActive(c) = c.id
    BY <1>6, <1>7, <1>9 DEF OutRefIfActive
  <1>11. Linked(c)
    <2>1. \A x \in DOMAIN c.transitions : c.transitions[x] = new
      BY <1>6, <1>9
    <2>2. \A x \in 2..Len(c.transitions) : FALSE
      BY <1>6
    <2> QED
      BY <1>1, <1>7, <2>1, <2>2 DEF Linked
  <1> QED
    BY <1>6, <1>7, <1>8, <1>9, <1>10, <1>11 DEF c, e, i, t, Begins

\* The n-th input of t steps the contract it stands for, and the new version
\* stands for the output it goes on with.
StepsWell(t, b, n) ==
    LET o == Inputs[t][n]
        s == ConsumedShort(t, n)
        e == StepEvent(t, b, n)
        c == e.contract
        next == [tx |-> t, index |-> o.index]
    IN  /\ s = refs[o].short /\ s \in DOMAIN db
        /\ OutRefIfActive(db[s]) = o /\ o # None /\ ~LastTransition(db[s]).end
        /\ e.kind \in {"Update", "Close"}
        /\ c = Stepped(db[s], t, b, n)
        /\ c.short = s /\ c.id = db[s].id
        /\ LastTransition(c).slot = Slot[b]
        /\ OutRefIfActive(c) = IF MarloweOutputs(t) = {} THEN None ELSE next
        /\ MarloweOutputs(t) # {} => next \in Contracts(t)
        /\ Linked(c)

\* So it does if its reference leads to the contract.
LEMMA StepShape ==
  ASSUME LedgerRules, RefsAreContractOutputs, VersionsIn(db), LinkedIn(db),
         NEW b \in Block, TableOn(db, b), NEW j \in DOMAIN TxsOf[b],
         NEW n \in ConsumedInputs(TxsOf[b][j]),
         Leads(Inputs[TxsOf[b][j]][n])
  PROVE  StepsWell(TxsOf[b][j], b, n)
  <1> DEFINE t == TxsOf[b][j]
             o == Inputs[t][n]
             s == ConsumedShort(t, n)
             old == db[s]
             new == NewTransition(t, b, n)
             c == Stepped(old, t, b, n)
             l == Len(old.transitions)
             next == [tx |-> t, index |-> o.index]
  <1>1. /\ t \in Tx /\ o \in OutRef /\ n - 1 \in Redeemers[t]
        /\ \A i \in MarloweOutputs(t) : i = o.index /\ Outputs[t][i + 1] # "bad"
    BY MoveFacts, LedgerAssumption DEF MovesWell
  <1>2. s = refs[o].short /\ s \in DOMAIN db /\ OutRefIfActive(old) = o
    BY DEF ConsumedShort, Leads
  <1>3. o # None
    BY <1>1, NoneAssumption
  <1>4. ~LastTransition(old).end
    BY <1>2, <1>3 DEF OutRefIfActive
  <1>5. old \in Version /\ Linked(old) /\ old.short = s /\ OnChain(old, b)
    BY <1>2 DEF VersionsIn, LinkedIn, TableOn
  <1>6. l \in Nat \ {0} /\ old \in Versions(OutRef, ShortId) /\ DOMAIN old.transitions = 1..l
    BY <1>5, VersionFacts
  <1>7. LastTransition(old).hashed
    <2>1. l \in DOMAIN old.transitions
      BY <1>6
    <2> QED
      BY <1>4, <1>5, <2>1 DEF Linked, LastTransition
  <1>8. ~(Cardinality(MarloweOutputs(t)) > 1)
    <2>1. CASE MarloweOutputs(t) = {}
      BY <2>1, FS_EmptySet
    <2>2. CASE MarloweOutputs(t) # {}
      <3>1. MarloweOutputs(t) = {o.index}
        BY <1>1, <2>2
      <3>2. Cardinality({o.index}) = 1
        BY FS_Singleton
      <3> QED
        BY <3>1, <3>2
    <2> QED
      BY <2>1, <2>2
  <1>9. ~ StepPanics(t, n)
    BY <1>1, <1>7, <1>8 DEF StepPanics
  <1>10. /\ StepEvent(t, b, n).kind \in {"Update", "Close"}
         /\ StepEvent(t, b, n).contract = c /\ c = Stepped(old, t, b, n)
    BY <1>9, StepEventShape
  <1>11. /\ new.end \/ new.hashed
         /\ new.end = (MarloweOutputs(t) = {})
         /\ ~new.end => o.index \in MarloweOutputs(t) /\ next \in Contracts(t)
         /\ new.tx = t /\ new.index = o.index /\ new.slot = Slot[b]
    BY <1>1, NextIsHashed, NewTransitionFacts
  <1>12. Linked(c)
    BY <1>2, <1>4, <1>5, <1>11, SteppedLinked
  <1> HIDE DEF t, o, s, old, new, next
  <1>13. /\ c.short = old.short /\ c.id = old.id
         /\ Len(c.transitions) = l + 1 /\ c.transitions[l + 1] = new
    BY <1>1, <1>6, SteppedFacts DEF new, t
  <1> HIDE DEF c, l
  <1>14. LastTransition(c) = new
    BY <1>13 DEF LastTransition
  <1>15. OutRefIfActive(c) = IF MarloweOutputs(t) = {} THEN None ELSE next
    BY <1>11, <1>14 DEF OutRefIfActive, next
  <1>16. MarloweOutputs(t) # {} => next \in Contracts(t)
    BY <1>11
  <1> QED
    BY <1>1, <1>2, <1>3, <1>4, <1>5, <1>9, <1>10, <1>11, <1>12, <1>13, <1>14, <1>15, <1>16
    DEF t, o, s, old, next, StepsWell

(***************************************************************************)
(* Every step keeps the inductive invariant.                               *)
(***************************************************************************)

\* The control of a step that reads a transaction: all inputs that are found
\* lead to the contract that is consumed, so that no unwrap panics.
LEMMA ReadControl ==
  ASSUME LedgerRules, AllInv, HistoryInv, ReadTransaction
  PROVE  LET t == TxsOf[followed][at + 1]
         IN  /\ UNCHANGED <<followed, db, refs>> /\ at' = at + 1
             /\ wpc = "block" /\ wpc' = "block"
             /\ todo = <<>> /\ todo' = EventsOf(t, followed, at)
             /\ followed \in Block /\ t \in Tx
             /\ at + 1 \in DOMAIN TxsOf[followed] /\ at + 1 \in 0..Len(TxsOf[followed])
             /\ at \in Nat /\ (at + 1) - 1 = at /\ at + 1 # 0
             /\ Handled = TxsUpTo(followed, at)
             /\ \A n \in ConsumedInputs(t) :
                   StepsWell(t, followed, n) /\ MovesWell(t, followed, at + 1, n)
  <1> DEFINE j == at + 1
             t == TxsOf[followed][j]
             es == EventsOf(t, followed, at)
  <1>1. /\ UNCHANGED <<followed, db, refs>>
        /\ at' = j /\ wpc = "block" /\ at < Len(TxsOf[followed]) /\ todo = <<>>
        /\ IF LookupPanics(t)
           THEN wpc' = "panicked" /\ UNCHANGED todo
           ELSE wpc' = wpc /\ todo' = es
    BY DEF ReadTransaction, disk, memory
  <1>2. /\ followed \in Block /\ VersionsIn(db) /\ TableOn(db, followed) /\ LinkedIn(db)
        /\ RefsAreContractOutputs
    BY <1>1, DbFacts DEF HistoryInv
  <1>3. at \in Nat /\ TxsOf[followed] \in Seq(Tx)
    BY <1>2, LedgerAssumption DEF AllInv, IInv, PositionFits
  <1>4. /\ j \in DOMAIN TxsOf[followed] /\ j - 1 = at /\ j # 0 /\ j \in 0..Len(TxsOf[followed])
    BY <1>1, <1>3
  <1>5. t \in Tx
    BY <1>3, <1>4
  <1>6. Handled = TxsUpTo(followed, at)
    BY <1>1 DEF Handled, Done
  <1> HIDE DEF j
  <1>7. ASSUME NEW n \in ConsumedInputs(t)
        PROVE  MovesWell(t, followed, j, n) /\ Leads(Inputs[t][n])
    <2>1. MovesWell(t, followed, j, n)
      BY <1>2, <1>4, MoveFacts
    <2>2. Inputs[t][n] \in DOMAIN refs /\ Inputs[t][n].tx \in TxsUpTo(followed, j - 1)
      BY <2>1 DEF MovesWell
    <2> QED
      BY <1>4, <1>6, <2>1, <2>2 DEF HistoryInv, HandledLead
  <1>8. \A n \in ConsumedInputs(t) : StepsWell(t, followed, n)
    BY <1>2, <1>4, <1>7, StepShape
  <1>9. ~ LookupPanics(t)
    BY <1>8 DEF LookupPanics, StepsWell
  <1>10. wpc' = "block" /\ todo' = es
    BY <1>1, <1>9
  <1> QED
    BY <1>1, <1>2, <1>3, <1>4, <1>5, <1>6, <1>7, <1>8, <1>10 DEF j

\* The events of a transaction are those that were planned.
LEMMA ReadTransactionHistory ==
  ASSUME LedgerRules, AllInv, HistoryInv, ReadTransaction
  PROVE  HistoryInv'
  <1> DEFINE j == at + 1
             t == TxsOf[followed][j]
             es == EventsOf(t, followed, at)
  <1>1. UNCHANGED <<followed, db, refs>> /\ at' = j /\ wpc = "block" /\ todo = <<>>
    BY ReadControl
  <1>2. /\ followed \in Block /\ VersionsIn(db) /\ TableOn(db, followed) /\ LinkedIn(db)
        /\ RefsAreContractOutputs
    BY <1>1, DbFacts DEF HistoryInv
  <1>3. at \in Nat /\ Handled = TxsUpTo(followed, at)
    BY ReadControl
  <1>4. /\ j \in DOMAIN TxsOf[followed] /\ j - 1 = at /\ j # 0 /\ j \in 0..Len(TxsOf[followed])
    BY ReadControl
  <1>5. t \in Tx
    BY ReadControl
  <1>6. Handled = TxsUpTo(followed, at)
    BY <1>3
  <1>8. \A n \in ConsumedInputs(t) : StepsWell(t, followed, n)
    BY ReadControl
  <1>9. ASSUME NEW n \in ConsumedInputs(t), NEW i \in MarloweOutputs(t)
        PROVE  i = Inputs[t][n].index
    <2>1. MovesWell(t, followed, j, n)
      BY ReadControl
    <2> QED
      BY <2>1 DEF MovesWell
  <1>11. wpc' = "block" /\ todo' = es
    BY ReadControl
  <1> HIDE DEF j
  <1>12. LinkedIn(db)' /\ RefsAreContractOutputs'
    BY <1>1, <1>2 DEF LinkedIn, RefsAreContractOutputs
  <1>13. AtFits'
    BY <1>1, <1>4, <1>11 DEF AtFits
  <1>14. Current' = t /\ \A o : Leads(o)' <=> Leads(o)
    BY <1>1 DEF Current, Leads
  <1>15. \A o \in DOMAIN refs : o.tx \in TxsUpTo(followed, at) => Leads(o)
    BY <1>6 DEF HistoryInv, HandledLead
  <1>16. todo' # <<>> => HandledLead'
    <2> SUFFICES ASSUME todo' # <<>> PROVE HandledLead'
      OBVIOUS
    <2>1. Done' = at
      BY <1>1, <1>4, <1>11 DEF Done
    <2> QED
      BY <1>1, <1>14, <1>15, <2>1 DEF HandledLead, Handled
  <1>17. CASE Steps(es, t, followed)
    <2>1. PICK l \in Nat \ {0} : \E f \in [1..l -> ConsumedInputs(t)] :
             /\ \A x, y \in 1..l : x # y => f[x] # f[y]
             /\ es = [k \in 1..l |-> StepEvent(t, followed, f[k])]
      BY <1>17 DEF Steps
    <2>2. PICK f \in [1..l -> ConsumedInputs(t)] :
             /\ \A x, y \in 1..l : x # y => f[x] # f[y]
             /\ es = [k \in 1..l |-> StepEvent(t, followed, f[k])]
      BY <2>1
    <2> HIDE DEF t, es
    <2>3. /\ DOMAIN todo' = 1..l /\ 1 \in DOMAIN todo'
          /\ \A k \in 1..l : f[k] \in ConsumedInputs(t) /\ todo'[k] = StepEvent(t, followed, f[k])
      BY <1>11, <2>2
    <2>4. todo' # <<>>
      BY <2>3
    <2>5. ASSUME NEW k \in DOMAIN todo'
          PROVE  todo'[k].kind \in {"Update", "Close"}
      <3>1. todo'[k] = StepEvent(t, followed, f[k]) /\ StepsWell(t, followed, f[k])
        BY <1>8, <2>3
      <3> QED
        BY <3>1 DEF StepsWell
    <2>6. NoPanic'
      BY <1>11, <2>5 DEF NoPanic
    <2>7. PlannedSteps'
      <3>1. f \in [DOMAIN todo' -> Nat]
        BY <2>3 DEF ConsumedInputs
      <3>2. \A x, y \in DOMAIN todo' : x # y => f[x] # f[y]
        BY <2>2, <2>3
      <3>3. ASSUME NEW k \in DOMAIN todo'
            PROVE  /\ f[k] \in ConsumedInputs(t) /\ todo'[k].kind # "Add"
                   /\ todo'[k].contract = Stepped(db[refs[Inputs[t][f[k]]].short],
                                                  t, followed, f[k])
        <4>1. f[k] \in ConsumedInputs(t) /\ todo'[k] = StepEvent(t, followed, f[k])
          BY <2>3
        <4> QED
          BY <1>8, <2>5, <4>1 DEF StepsWell
      <3> QED
        BY <1>1, <1>14, <3>1, <3>2, <3>3 DEF PlannedSteps, ConsumedInputs
    <2>8. CurrentLead'
      <3> SUFFICES ASSUME NEW o \in DOMAIN refs, o.tx = t
                   PROVE  OutRefIfActive(todo'[1].contract) = o
        BY <1>1, <1>14, <2>3 DEF CurrentLead
      <3>1. o \in Contracts(t) /\ o \in OutRef
        BY <1>2 DEF RefsAreContractOutputs, AllInv, TypeInv, LookupsTyped
      <3>2. o.index \in MarloweOutputs(t)
        BY <3>1 DEF Contracts
      <3>3. f[1] \in ConsumedInputs(t) /\ todo'[1] = StepEvent(t, followed, f[1])
        BY <2>3
      <3>4. OutRefIfActive(todo'[1].contract) = [tx |-> t, index |-> Inputs[t][f[1]].index]
        BY <1>8, <3>2, <3>3 DEF StepsWell
      <3>5. o.index = Inputs[t][f[1]].index
        BY <1>9, <3>2, <3>3
      <3>6. o = [tx |-> o.tx, index |-> o.index]
        BY <3>1 DEF OutRef
      <3> QED
        BY <3>4, <3>5, <3>6
    <2> QED
      BY <1>12, <1>13, <1>16, <2>4, <2>6, <2>7, <2>8 DEF HistoryInv, Planned
  <1>18. CASE ConsumedInputs(t) = {} /\ Additions(es, t, followed, at)
    <2>1. PICK l \in Nat : \E f \in [1..l -> Readable(t)] :
             /\ \A x, y \in 1..l : x # y => f[x] # f[y]
             /\ \A p \in Readable(t) : \E i \in 1..l : f[i] = p
             /\ es = [k \in 1..l |-> AddEvent(t, followed, at, f[k] - 1)]
      BY <1>18 DEF Additions
    <2>2. PICK f \in [1..l -> Readable(t)] :
             /\ \A x, y \in 1..l : x # y => f[x] # f[y]
             /\ \A p \in Readable(t) : \E i \in 1..l : f[i] = p
             /\ es = [k \in 1..l |-> AddEvent(t, followed, at, f[k] - 1)]
      BY <2>1
    <2>3. ASSUME NEW k \in Readable(t)
          PROVE  LET e == AddEvent(t, followed, at, k - 1)
                 IN  e.kind = "Add" /\ OutRefIfActive(e.contract) = [tx |-> t, index |-> k - 1]
      <3> DEFINE e == AddEvent(t, followed, at, k - 1)
      <3>1. /\ e.kind = "Add" /\ e.contract.id = [tx |-> t, index |-> k - 1]
            /\ Begins(e.contract, t, followed)
        BY <1>2, <1>3, <1>4, AddShape
      <3> HIDE DEF e
      <3>2. OutRefIfActive(e.contract) = [tx |-> t, index |-> k - 1]
        BY <3>1 DEF Begins
      <3> QED
        BY <3>1, <3>2 DEF e
    <2> HIDE DEF t, es
    <2>4. /\ DOMAIN todo' = 1..l
          /\ \A k \in 1..l : /\ f[k] \in Readable(t)
                             /\ todo'[k] = AddEvent(t, followed, at, f[k] - 1)
      BY <1>11, <2>2
    <2>5. NoPanic'
      BY <1>11, <2>3, <2>4 DEF NoPanic
    <2>6. PlannedAdds'
      <3>1. f \in [DOMAIN todo' -> Readable(t)]
        BY <2>4
      <3> QED
        BY <1>1, <1>4, <1>14, <2>2, <2>4, <3>1 DEF PlannedAdds
    <2>7. ASSUME NEW o \in DOMAIN refs, o.tx = t
          PROVE  \E k \in DOMAIN todo' : OutRefIfActive(todo'[k].contract) = o
      <3>1. o \in Contracts(t) /\ o \in OutRef
        BY <1>2, <2>7 DEF RefsAreContractOutputs, AllInv, TypeInv, LookupsTyped
      <3>2. o.index \in MarloweOutputs(t) /\ Outputs[t][o.index + 1] # "bad"
        BY <3>1 DEF Contracts
      <3>3. o.index + 1 \in Readable(t) /\ (o.index + 1) - 1 = o.index
        <4>1. Len(Outputs[t]) \in Nat
          BY <1>5, LedgerAssumption
        <4> QED
          BY <3>2, <4>1 DEF MarloweOutputs, Readable
      <3>4. PICK k \in 1..l : f[k] = o.index + 1
        BY <2>2, <3>3
      <3>5. OutRefIfActive(todo'[k].contract) = [tx |-> t, index |-> o.index]
        BY <2>3, <2>4, <3>3, <3>4
      <3>6. o = [tx |-> o.tx, index |-> o.index]
        BY <3>1 DEF OutRef
      <3> QED
        BY <2>4, <2>7, <3>5, <3>6
    <2>8. CurrentLead'
      BY <1>1, <1>14, <2>7 DEF CurrentLead
    <2>9. HandledLead'
      <3>1. CASE todo' # <<>>
        BY <1>16, <3>1
      <3>2. CASE todo' = <<>>
        <4>1. Done' = j
          BY <1>1, <1>11, <3>2 DEF Done
        <4>2. \A o \in DOMAIN refs : o.tx # t
          BY <2>7, <3>2
        <4>3. \A x : x \in TxsUpTo(followed, j) <=> x \in TxsUpTo(followed, at) \/ x = t
          BY <1>2, <1>3, <1>4, UpToNext DEF j, t
        <4> QED
          BY <1>1, <1>14, <1>15, <4>1, <4>2, <4>3 DEF HandledLead, Handled
      <3> QED
        BY <3>1, <3>2
    <2> QED
      BY <1>12, <1>13, <2>5, <2>6, <2>8, <2>9 DEF HistoryInv, Planned
  <1> HIDE DEF t, es
  <1> QED
    BY <1>5, <1>17, <1>18, EventsOfFacts DEF es

\* What writing a new contract does.
WritesNew(c) ==
    /\ c \in Version /\ Begins(c, Current, followed)
    /\ c.short \notin DOMAIN db /\ \A s \in DOMAIN db : db[s].id # c.id
    /\ db' = Put(db, c.short, c)
    /\ refs' = Put(refs, c.id, [slot |-> Slot[followed], short |-> c.short])

\* What writing a step of output o does.
WritesStep(c, n, o) ==
    /\ c \in Version /\ Leads(o) /\ MovesWell(Current, followed, at, n)
    /\ c.short = refs[o].short /\ c.short \in DOMAIN db
    /\ OutRefIfActive(db[c.short]) = o /\ ~LastTransition(db[c.short]).end
    /\ c = Stepped(db[c.short], Current, followed, n) /\ c.id = db[c.short].id
    /\ Linked(c)
    /\ db' = Put(db, c.short, c)
    /\ IF MarloweOutputs(Current) = {}
       THEN OutRefIfActive(c) = None /\ refs' = Drop(refs, o)
       ELSE LET next == [tx |-> Current, index |-> o.index]
            IN  /\ next \in Contracts(Current) /\ OutRefIfActive(c) = next
                /\ LastTransition(c).slot = Slot[followed]
                /\ refs' = Put(Drop(refs, o), next,
                               [slot |-> Slot[followed], short |-> c.short])

\* The control of a step that writes a version.
LEMMA ApplyControl ==
  ASSUME AllInv, HistoryInv, Apply
  PROVE  LET e == Head(todo)
         IN  /\ UNCHANGED <<followed, at, lastSlot, lastHash>>
             /\ wpc = "block" /\ todo # <<>> /\ todo' = Tail(todo)
             /\ 1 \in DOMAIN todo /\ e = todo[1] /\ e \in TypedEvents /\ e.kind # "Panic"
             /\ e.contract \in Version
             /\ \A k \in DOMAIN todo' : /\ k + 1 \in DOMAIN todo /\ k + 1 # 1
                                        /\ todo'[k] = todo[k + 1]
             /\ \A j, k \in DOMAIN todo' : j # k => j + 1 # k + 1
             /\ \A k \in DOMAIN todo : k # 1 => k - 1 \in DOMAIN todo' /\ todo'[k - 1] = todo[k]
             /\ followed \in Block /\ VersionsIn(db) /\ TableOn(db, followed) /\ LinkedIn(db)
             /\ RefsAreContractOutputs
             /\ at \in DOMAIN TxsOf[followed] /\ at \in 0..Len(TxsOf[followed])
             /\ at - 1 \in Nat /\ at - 1 \in 0..Len(TxsOf[followed])
             /\ (at - 1) + 1 = at
             /\ Current \in Tx /\ Handled = TxsUpTo(followed, at - 1)
  <1> DEFINE e == Head(todo)
  <1>1. /\ UNCHANGED <<followed, at, lastSlot, lastHash>>
        /\ wpc = "block" /\ todo # <<>> /\ todo' = Tail(todo)
    BY DEF Apply
  <1>2. todo \in Seq(TypedEvents) /\ 1 \in DOMAIN todo /\ e = todo[1] /\ e \in TypedEvents
    <2>1. todo \in Seq(TypedEvents)
      BY DEF AllInv, TypeInv, MessagesTyped
    <2> QED
      BY <1>1, <2>1
  <1>3. e.kind # "Panic" /\ e.contract \in Version
    <2>1. e.kind # "Panic"
      BY <1>2 DEF HistoryInv, NoPanic
    <2> QED
      BY <1>2, <2>1 DEF TypedEvents
  <1>4. /\ \A k \in DOMAIN Tail(todo) : /\ k + 1 \in DOMAIN todo /\ k + 1 # 1
                                        /\ Tail(todo)[k] = todo[k + 1]
        /\ \A j, k \in DOMAIN Tail(todo) : j # k => j + 1 # k + 1
    BY <1>1, <1>2, TailFacts
  <1>5. \A k \in DOMAIN todo : k # 1 => k - 1 \in DOMAIN Tail(todo) /\ Tail(todo)[k - 1] = todo[k]
    BY <1>1, <1>2
  <1>6. /\ followed \in Block /\ VersionsIn(db) /\ TableOn(db, followed) /\ LinkedIn(db)
        /\ RefsAreContractOutputs
    BY <1>1, DbFacts DEF HistoryInv
  <1>7. TxsOf[followed] \in Seq(Tx)
    BY <1>6, LedgerAssumption
  <1>8. at \in 0..Len(TxsOf[followed]) /\ at # 0
    BY <1>1 DEF HistoryInv, AtFits
  <1>9. /\ at \in DOMAIN TxsOf[followed] /\ at - 1 \in Nat /\ at - 1 \in 0..Len(TxsOf[followed])
        /\ (at - 1) + 1 = at
    BY <1>7, <1>8
  <1>10. Current \in Tx
    BY <1>7, <1>9 DEF Current
  <1>11. Handled = TxsUpTo(followed, at - 1)
    BY <1>1 DEF Handled, Done
  <1> HIDE DEF e
  <1> QED
    BY <1>1, <1>2, <1>3, <1>4, <1>5, <1>6, <1>8, <1>9, <1>10, <1>11 DEF e

\* A planned addition is written.
LEMMA ApplyAdds ==
  ASSUME LedgerRules, AllInv, HistoryInv, Apply, PlannedAdds
  PROVE  Head(todo).kind = "Add" /\ WritesNew(Head(todo).contract) /\ wpc' = "block"
  <1> DEFINE e == Head(todo)
             c == e.contract
             n == at - 1
  <1>1. /\ wpc = "block" /\ 1 \in DOMAIN todo /\ e = todo[1] /\ followed \in Block
        /\ at \in DOMAIN TxsOf[followed] /\ n \in Nat /\ c \in Version /\ e.kind # "Panic"
        /\ e \in TypedEvents
    BY ApplyControl
  <1>2. PICK f \in [DOMAIN todo -> Readable(Current)] :
           \A k \in DOMAIN todo : todo[k] = AddEvent(Current, followed, n, f[k] - 1)
    BY DEF PlannedAdds
  <1>3. f[1] \in Readable(Current) /\ e = AddEvent(Current, followed, n, f[1] - 1)
    BY <1>1, <1>2
  <1> HIDE DEF n
  <1>4. e.kind = "Add" /\ Begins(c, Current, followed)
    <2> DEFINE new == AddEvent(TxsOf[followed][at], followed, n, f[1] - 1)
    <2>1. f[1] \in Readable(TxsOf[followed][at])
      BY <1>3 DEF Current
    <2>2. new.kind = "Add" /\ Begins(new.contract, TxsOf[followed][at], followed)
      BY <1>1, <2>1, AddShape
    <2> QED
      BY <1>3, <2>2 DEF Current
  <1>5. c.id \in OutRef /\ c.id # None
    BY <1>1, VersionFacts, NoneAssumption
  <1>6. \A s \in DOMAIN db : db[s].id # c.id
    <2>1. 1 \in Adds
      BY <1>1, <1>4 DEF Adds
    <2> QED
      BY <1>1, <2>1 DEF AllInv, StoreInv, AddsAreNew
  <1>7. c.short \notin DOMAIN db
    <2>1. 1 \in Real
      BY <1>1 DEF Real
    <2>2. Born(c)
      BY <1>1, <2>1 DEF AllInv, StoreInv, SoundTodo
    <2>3. OnChain(c, followed)
      <3>1. todo \in Seq(EventsOn(followed))
        BY <1>1 DEF AllInv, IInv, TodoFits
      <3>2. todo[1] \in EventsOn(followed)
        BY <1>1, <3>1
      <3> QED
        BY <1>1, <3>2 DEF EventsOn
    <2>4. /\ VersionsIn(db) /\ TableOn(db, followed) /\ SoundIn(db)
      BY <1>1, DbFacts
    <2> SUFFICES ASSUME c.short \in DOMAIN db PROVE FALSE
      OBVIOUS
    <2> DEFINE d == db[c.short]
    <2>5. d \in Version /\ OnChain(d, followed) /\ Born(d) /\ d.short = c.short /\ d.id # c.id
      BY <1>6, <2>4 DEF VersionsIn, TableOn, SoundIn
    <2> HIDE DEF c, d
    <2> QED
      BY <1>1, <2>2, <2>3, <2>5, IdsTogether DEF LedgerRules
  <1>8. ~ ApplyPanics(e)
    BY <1>4 DEF ApplyPanics
  <1>9. db' = Put(db, c.short, c) /\ wpc' = "block" /\ refs' = ReplaceRef(e)
    BY <1>1, <1>8 DEF Apply
  <1>10. ReplaceRef(e) = Put(refs, c.id, [slot |-> Slot[followed], short |-> c.short])
    BY <1>4, <1>5 DEF ReplaceRef, Begins
  <1> HIDE DEF e, c
  <1> QED
    BY <1>1, <1>4, <1>6, <1>7, <1>9, <1>10 DEF WritesNew, e, c

\* A planned step is written.
LEMMA ApplySteps ==
  ASSUME LedgerRules, AllInv, HistoryInv, Apply,
         NEW f \in [DOMAIN todo -> Nat],
         \A k \in DOMAIN todo :
            /\ f[k] \in ConsumedInputs(Current)
            /\ todo[k].kind # "Add"
            /\ todo[k].contract = Stepped(db[refs[Inputs[Current][f[k]]].short],
                                          Current, followed, f[k])
  PROVE  /\ Head(todo).kind # "Add"
         /\ WritesStep(Head(todo).contract, f[1], Inputs[Current][f[1]])
         /\ wpc' = "block"
  <1> DEFINE e == Head(todo)
             c == e.contract
             n == f[1]
             o == Inputs[Current][n]
             s == refs[o].short
             next == [tx |-> Current, index |-> o.index]
             entry == [slot |-> Slot[followed], short |-> c.short]
  <1>1. /\ wpc = "block" /\ 1 \in DOMAIN todo /\ e = todo[1] /\ followed \in Block
        /\ at \in DOMAIN TxsOf[followed] /\ c \in Version /\ e.kind # "Panic"
        /\ VersionsIn(db) /\ TableOn(db, followed) /\ LinkedIn(db) /\ RefsAreContractOutputs
        /\ Handled = TxsUpTo(followed, at - 1) /\ Current \in Tx
    BY ApplyControl
  <1>2. n \in ConsumedInputs(Current) /\ e.kind # "Add" /\ c = Stepped(db[s], Current, followed, n)
    BY <1>1
  <1>3. MovesWell(Current, followed, at, n)
    BY <1>1, <1>2, MoveFacts DEF Current
  <1>4. o \in DOMAIN refs /\ o.tx \in Handled
    BY <1>1, <1>3 DEF MovesWell
  <1>5. Leads(o)
    BY <1>4 DEF HistoryInv, HandledLead
  <1>6. StepsWell(Current, followed, n)
    BY <1>1, <1>2, <1>5, StepShape DEF Current
  <1>7. /\ s \in DOMAIN db /\ OutRefIfActive(db[s]) = o /\ o # None
        /\ ~LastTransition(db[s]).end
        /\ c.short = s /\ c.id = db[s].id
        /\ LastTransition(c).slot = Slot[followed]
        /\ OutRefIfActive(c) = IF MarloweOutputs(Current) = {} THEN None ELSE next
        /\ MarloweOutputs(Current) # {} => next \in Contracts(Current)
        /\ Linked(c)
    <2> HIDE DEF c, n
    <2>1. /\ StepEvent(Current, followed, n).contract = Stepped(db[s], Current, followed, n)
          /\ s = ConsumedShort(Current, n)
      BY <1>6 DEF StepsWell
    <2>2. c = StepEvent(Current, followed, n).contract
      BY <1>2, <2>1
    <2> QED
      BY <1>6, <2>1, <2>2 DEF StepsWell
  <1>8. ~ ApplyPanics(e)
    BY <1>4, <1>7 DEF ApplyPanics
  <1>9. db' = Put(db, c.short, c) /\ wpc' = "block" /\ refs' = ReplaceRef(e)
    BY <1>1, <1>8 DEF Apply
  <1>10. next # None
    <2>1. next \in OutRef
      BY <1>1, <1>3 DEF MovesWell, OutRef
    <2> QED
      BY <2>1, NoneAssumption
  <1> HIDE DEF e, n, o, s, next
  <1>11. ReplaceRef(e) = IF MarloweOutputs(Current) = {} THEN Drop(refs, o)
                         ELSE Put(Drop(refs, o), next, entry)
    BY <1>2, <1>7, <1>10 DEF ReplaceRef
  <1>12. /\ c.short = refs[o].short /\ c.short \in DOMAIN db
         /\ OutRefIfActive(db[c.short]) = o /\ ~LastTransition(db[c.short]).end
         /\ c = Stepped(db[c.short], Current, followed, n) /\ c.id = db[c.short].id
    BY <1>2, <1>7 DEF s
  <1>13. MarloweOutputs(Current) = {} => OutRefIfActive(c) = None /\ refs' = Drop(refs, o)
    BY <1>7, <1>9, <1>11
  <1>14. MarloweOutputs(Current) # {} =>
            /\ next \in Contracts(Current) /\ OutRefIfActive(c) = next
            /\ LastTransition(c).slot = Slot[followed]
            /\ refs' = Put(Drop(refs, o), next, [slot |-> Slot[followed], short |-> c.short])
    BY <1>7, <1>9, <1>11
  <1>15. WritesStep(c, n, o)
    <2> HIDE DEF c
    <2> QED
      BY <1>1, <1>3, <1>5, <1>7, <1>9, <1>12, <1>13, <1>14 DEF WritesStep, next
  <1> QED
    BY <1>2, <1>9, <1>15 DEF e, n, o

\* After a write the references lead as they did, the new one too, so that an
\* output of the transaction is led astray only if an event is left for it.
LEMMA ApplyLeads ==
  ASSUME AllInv, HistoryInv, Apply, wpc' = "block",
         \A o \in DOMAIN refs' :
            IF OutRefIfActive(todo[1].contract) = o THEN Leads(o)'
            ELSE o \in DOMAIN refs /\ (Leads(o) => Leads(o)')
  PROVE  AtFits' /\ HandledLead' /\ CurrentLead' /\ NoPanic'
  <1>1. /\ UNCHANGED <<followed, at>> /\ wpc = "block" /\ todo # <<>> /\ 1 \in DOMAIN todo
        /\ \A k \in DOMAIN todo' : k + 1 \in DOMAIN todo /\ todo'[k] = todo[k + 1]
        /\ \A k \in DOMAIN todo : k # 1 => k - 1 \in DOMAIN todo' /\ todo'[k - 1] = todo[k]
        /\ at \in 0..Len(TxsOf[followed]) /\ at - 1 \in Nat /\ (at - 1) + 1 = at
        /\ at \in DOMAIN TxsOf[followed] /\ followed \in Block
        /\ Handled = TxsUpTo(followed, at - 1)
    BY ApplyControl
  <1>2. AtFits'
    BY <1>1 DEF AtFits
  <1>3. NoPanic'
    BY <1>1 DEF HistoryInv, NoPanic
  <1>4. Working
    BY <1>1 DEF Working
  <1>5. ASSUME NEW o \in DOMAIN refs', o.tx = Current
        PROVE  Leads(o)' \/ \E k \in DOMAIN todo' : OutRefIfActive(todo'[k].contract) = o
    <2>1. CASE OutRefIfActive(todo[1].contract) = o
      BY <2>1
    <2>2. CASE OutRefIfActive(todo[1].contract) # o
      <3>1. o \in DOMAIN refs /\ (Leads(o) => Leads(o)')
        BY <2>2
      <3>2. Leads(o) \/ \E k \in DOMAIN todo : OutRefIfActive(todo[k].contract) = o
        BY <1>4, <1>5, <3>1 DEF HistoryInv, CurrentLead
      <3>3. ASSUME NEW k \in DOMAIN todo, OutRefIfActive(todo[k].contract) = o
            PROVE  \E m \in DOMAIN todo' : OutRefIfActive(todo'[m].contract) = o
        <4>1. k # 1
          BY <2>2, <3>3
        <4>2. k - 1 \in DOMAIN todo' /\ todo'[k - 1] = todo[k]
          BY <1>1, <4>1
        <4> QED
          BY <3>3, <4>2
      <3> QED
        BY <3>1, <3>2, <3>3
    <2> QED
      BY <2>1, <2>2
  <1>6. Current' = Current
    BY <1>1 DEF Current
  <1>7. CurrentLead'
    BY <1>5, <1>6 DEF CurrentLead
  <1>8. ASSUME NEW o \in DOMAIN refs', o.tx \in Handled
        PROVE  Leads(o)'
    BY <1>8 DEF HistoryInv, HandledLead
  <1>9. CASE todo' # <<>>
    <2>1. Handled' = Handled
      BY <1>1, <1>9 DEF Handled, Done
    <2> QED
      BY <1>2, <1>3, <1>7, <1>8, <2>1 DEF HandledLead
  <1>10. CASE todo' = <<>>
    <2>1. Handled' = TxsUpTo(followed, at)
      BY <1>1, <1>10 DEF Handled, Done
    <2>2. \A t : t \in TxsUpTo(followed, (at - 1) + 1) <=>
                    t \in TxsUpTo(followed, at - 1) \/ t = TxsOf[followed][(at - 1) + 1]
      BY <1>1, UpToNext
    <2>3. \A t : t \in Handled' <=> t \in Handled \/ t = Current
      BY <1>1, <2>1, <2>2 DEF Current
    <2>4. \A k \in DOMAIN todo' : FALSE
      BY <1>10
    <2> QED
      BY <1>2, <1>3, <1>5, <1>7, <1>8, <2>3, <2>4 DEF HandledLead
  <1> QED
    BY <1>9, <1>10

\* Writing an addition leaves the others as they were planned.
LEMMA ApplyAddsHistory ==
  ASSUME LedgerRules, AllInv, HistoryInv, Apply, PlannedAdds
  PROVE  HistoryInv'
  <1> DEFINE c == Head(todo).contract
             entry == [slot |-> Slot[followed], short |-> c.short]
  <1>1. /\ UNCHANGED <<followed, at>> /\ todo' = Tail(todo) /\ c = todo[1].contract
        /\ \A k \in DOMAIN todo' : k + 1 \in DOMAIN todo /\ todo'[k] = todo[k + 1]
        /\ \A j, k \in DOMAIN todo' : j # k => j + 1 # k + 1
        /\ Current \in Tx
    BY ApplyControl
  <1>2. WritesNew(c) /\ wpc' = "block"
    BY ApplyAdds
  <1> HIDE DEF c
  <1>3. /\ Begins(c, Current, followed) /\ c.short \notin DOMAIN db
        /\ db' = Put(db, c.short, c) /\ refs' = Put(refs, c.id, entry)
    BY <1>2 DEF WritesNew
  <1>4. /\ c.id.tx = Current /\ c.id \in Contracts(Current) /\ Linked(c)
        /\ OutRefIfActive(c) = c.id /\ LastTransition(c).slot = Slot[followed]
    BY <1>3 DEF Begins
  <1>5. /\ DOMAIN db' = DOMAIN db \cup {c.short} /\ db'[c.short] = c
        /\ \A s \in DOMAIN db : s # c.short /\ db'[s] = db[s]
    BY <1>3 DEF Put
  <1>6. /\ DOMAIN refs' = DOMAIN refs \cup {c.id} /\ refs'[c.id] = entry
        /\ \A o \in DOMAIN refs : o # c.id => refs'[o] = refs[o]
    BY <1>3 DEF Put
  <1>7. LinkedIn(db)'
    BY <1>4, <1>5 DEF HistoryInv, LinkedIn
  <1>8. RefsAreContractOutputs'
    BY <1>4, <1>6 DEF HistoryInv, RefsAreContractOutputs
  <1>9. ASSUME NEW o \in DOMAIN refs', o = c.id
        PROVE  Leads(o)'
    BY <1>4, <1>5, <1>6, <1>9 DEF Leads
  <1>10. ASSUME NEW o \in DOMAIN refs, o # c.id, Leads(o)
         PROVE  Leads(o)'
    BY <1>5, <1>6, <1>10 DEF Leads
  <1>11. AtFits' /\ HandledLead' /\ CurrentLead' /\ NoPanic'
    <2>1. ASSUME NEW o \in DOMAIN refs'
          PROVE  IF OutRefIfActive(todo[1].contract) = o THEN Leads(o)'
                 ELSE o \in DOMAIN refs /\ (Leads(o) => Leads(o)')
      BY <1>1, <1>4, <1>6, <1>9, <1>10
    <2> QED
      BY <1>2, <2>1, ApplyLeads
  <1>12. Planned'
    <2>1. Current' = Current
      BY <1>1 DEF Current
    <2>2. PICK f \in [DOMAIN todo -> Readable(Current)] :
             /\ \A j, k \in DOMAIN todo : j # k => f[j] # f[k]
             /\ \A k \in DOMAIN todo : todo[k] = AddEvent(Current, followed, at - 1, f[k] - 1)
      BY DEF PlannedAdds
    <2> DEFINE g == [k \in DOMAIN todo' |-> f[k + 1]]
    <2>3. g \in [DOMAIN todo' -> Readable(Current)]
      BY <1>1
    <2>4. \A j, k \in DOMAIN todo' : j # k => g[j] # g[k]
      BY <1>1, <2>2
    <2>5. \A k \in DOMAIN todo' : todo'[k] = AddEvent(Current, followed, at - 1, g[k] - 1)
      BY <1>1, <2>2
    <2> HIDE DEF g
    <2>6. PlannedAdds'
      BY <1>1, <2>1, <2>3, <2>4, <2>5 DEF PlannedAdds
    <2> QED
      BY <2>6 DEF Planned
  <1> QED
    BY <1>7, <1>8, <1>11, <1>12 DEF HistoryInv

\* Writing a step leaves the others as they were planned: they are of other
\* contracts.
LEMMA ApplyStepsHistory ==
  ASSUME LedgerRules, AllInv, HistoryInv, Apply, PlannedSteps
  PROVE  HistoryInv'
  <1>1. PICK f \in [DOMAIN todo -> Nat] :
           /\ \A j, k \in DOMAIN todo : j # k => f[j] # f[k]
           /\ \A k \in DOMAIN todo :
                 /\ f[k] \in ConsumedInputs(Current)
                 /\ todo[k].kind # "Add"
                 /\ todo[k].contract = Stepped(db[refs[Inputs[Current][f[k]]].short],
                                               Current, followed, f[k])
    BY DEF PlannedSteps
  <1> DEFINE c == Head(todo).contract
             n == f[1]
             o == Inputs[Current][n]
             next == [tx |-> Current, index |-> o.index]
             entry == [slot |-> Slot[followed], short |-> c.short]
  <1>2. /\ UNCHANGED <<followed, at>> /\ c = todo[1].contract /\ 1 \in DOMAIN todo
        /\ \A k \in DOMAIN todo' : /\ k + 1 \in DOMAIN todo /\ k + 1 # 1
                                   /\ todo'[k] = todo[k + 1]
        /\ \A j, k \in DOMAIN todo' : j # k => j + 1 # k + 1
        /\ at \in DOMAIN TxsOf[followed] /\ at - 1 \in 0..Len(TxsOf[followed])
        /\ followed \in Block /\ Handled = TxsUpTo(followed, at - 1) /\ at - 1 < at
        /\ RefsAreContractOutputs
    BY ApplyControl
  <1>3. WritesStep(c, n, o) /\ wpc' = "block"
    BY <1>1, ApplySteps
  <1>4. \A x \in DOMAIN refs : x \in OutRef /\ x # None
    BY NoneAssumption DEF AllInv, TypeInv, LookupsTyped
  <1>5. Current \notin Handled
    BY <1>2, NotUpTo DEF Current, LedgerRules
  <1>6. ASSUME NEW m \in ConsumedInputs(Current)
        PROVE  MovesWell(Current, followed, at, m) /\ Inputs[Current][m].tx \in Handled
    <2>1. MovesWell(Current, followed, at, m)
      BY <1>2, <1>6, MoveFacts DEF Current
    <2> QED
      BY <1>2, <2>1 DEF MovesWell
  <1>7. n \in ConsumedInputs(Current)
    BY <1>1, <1>2
  <1> HIDE DEF c, n, o, next
  <1>8. /\ c.short = refs[o].short /\ OutRefIfActive(db[c.short]) = o /\ c.short \in DOMAIN db
        /\ db' = Put(db, c.short, c) /\ Linked(c)
        /\ MarloweOutputs(Current) = {} => OutRefIfActive(c) = None /\ refs' = Drop(refs, o)
        /\ MarloweOutputs(Current) # {} =>
              /\ next \in Contracts(Current) /\ OutRefIfActive(c) = next
              /\ LastTransition(c).slot = Slot[followed]
              /\ refs' = Put(Drop(refs, o), next, entry)
    BY <1>3 DEF WritesStep, next
  <1>9. /\ DOMAIN db' = DOMAIN db /\ db'[c.short] = c
        /\ \A s \in DOMAIN db : s # c.short => db'[s] = db[s]
    BY <1>8 DEF Put
  <1>10. /\ DOMAIN refs' \subseteq (DOMAIN refs \ {o}) \cup {next}
         /\ DOMAIN refs \ {o} \subseteq DOMAIN refs'
         /\ \A x \in DOMAIN refs : x # o /\ x # next => refs'[x] = refs[x]
         /\ \A x \in DOMAIN refs' : x = OutRefIfActive(c) => x = next /\ refs'[x] = entry
         /\ \A x \in DOMAIN refs' : x # OutRefIfActive(c) => x \in DOMAIN refs /\ x # o
         /\ \A x \in DOMAIN refs' : x = OutRefIfActive(c) \/ refs'[x] = refs[x]
    <2>1. CASE MarloweOutputs(Current) = {}
      BY <1>4, <1>8, <2>1 DEF Drop
    <2>2. CASE MarloweOutputs(Current) # {}
      BY <1>8, <2>2 DEF Drop, Put
    <2> QED
      BY <2>1, <2>2
  <1>11. LinkedIn(db)'
    BY <1>8, <1>9 DEF HistoryInv, LinkedIn
  <1>12. RefsAreContractOutputs'
    <2>1. CASE MarloweOutputs(Current) = {}
      BY <1>2, <1>8, <2>1 DEF Drop, RefsAreContractOutputs
    <2>2. CASE MarloweOutputs(Current) # {}
      BY <1>2, <1>8, <1>10, <2>2 DEF RefsAreContractOutputs, next
    <2> QED
      BY <2>1, <2>2
  <1>13. ASSUME NEW x \in DOMAIN refs, x # o, Leads(x)
         PROVE  refs[x].short # c.short
    BY <1>8, <1>13 DEF Leads
  <1>14. ASSUME NEW x \in DOMAIN refs', x # OutRefIfActive(c), Leads(x)
         PROVE  Leads(x)'
    <2>1. x \in DOMAIN refs /\ x # o /\ refs'[x] = refs[x]
      BY <1>10, <1>14
    <2>2. refs[x].short # c.short
      BY <1>13, <1>14, <2>1
    <2> QED
      BY <1>9, <1>14, <2>1, <2>2 DEF Leads
  <1>15. ASSUME NEW x \in DOMAIN refs', x = OutRefIfActive(c)
         PROVE  Leads(x)'
    <2>1. x = next /\ refs'[x] = entry /\ x # None
      <3>1. x = next /\ refs'[x] = entry
        BY <1>10, <1>15
      <3>2. OutRefIfActive(c) # None
        <4>1. CASE MarloweOutputs(Current) = {}
          BY <1>4, <1>8, <1>15, <4>1 DEF Drop
        <4>2. CASE MarloweOutputs(Current) # {}
          <5>1. c \in Version
            BY <1>3 DEF WritesStep
          <5>2. next \in OutRef
            BY <1>2, <1>6, <1>7, LedgerAssumption DEF MovesWell, next, OutRef, o, Current
          <5> QED
            BY <1>8, <4>2, <5>2, NoneAssumption
        <4> QED
          BY <4>1, <4>2
      <3> QED
        BY <1>15, <3>1, <3>2
    <2>2. MarloweOutputs(Current) # {}
      BY <1>8, <1>15, <2>1
    <2>3. refs'[x].short = c.short /\ refs'[x].slot = Slot[followed]
      BY <2>1
    <2>4. c.short \in DOMAIN db' /\ db'[c.short] = c /\ LastTransition(c).slot = Slot[followed]
      BY <1>8, <1>9, <2>2
    <2>5. OutRefIfActive(c) = x
      BY <1>15
    <2> HIDE DEF entry
    <2> QED
      BY <2>3, <2>4, <2>5 DEF Leads
  <1>16. AtFits' /\ HandledLead' /\ CurrentLead' /\ NoPanic'
    <2>1. ASSUME NEW x \in DOMAIN refs'
          PROVE  IF OutRefIfActive(todo[1].contract) = x THEN Leads(x)'
                 ELSE x \in DOMAIN refs /\ (Leads(x) => Leads(x)')
      BY <1>2, <1>10, <1>14, <1>15
    <2> QED
      BY <1>3, <2>1, ApplyLeads
  <1>17. Planned'
    <2>1. Current' = Current
      BY <1>2 DEF Current
    <2> DEFINE g == [k \in DOMAIN todo' |-> f[k + 1]]
    <2>2. g \in [DOMAIN todo' -> Nat] /\ \A j, k \in DOMAIN todo' : j # k => g[j] # g[k]
      BY <1>1, <1>2
    <2>3. ASSUME NEW k \in DOMAIN todo'
          PROVE  /\ g[k] \in 1..Len(Inputs[Current]) /\ Inputs[Current][g[k]] \in DOMAIN refs'
                 /\ todo'[k].kind # "Add"
                 /\ todo'[k].contract = Stepped(db'[refs'[Inputs[Current][g[k]]].short],
                                                Current, followed, g[k])
      <3> DEFINE m == f[k + 1]
                 x == Inputs[Current][m]
      <3>1. /\ m \in ConsumedInputs(Current) /\ m # n /\ todo'[k].kind # "Add"
            /\ todo'[k].contract = Stepped(db[refs[x].short], Current, followed, m)
        BY <1>1, <1>2 DEF n
      <3>2. x # o
        BY <1>6, <1>7, <3>1 DEF MovesWell, o
      <3>3. x \in DOMAIN refs /\ x.tx \in Handled /\ m \in 1..Len(Inputs[Current])
        BY <1>6, <3>1 DEF ConsumedInputs
      <3>4. x # next
        BY <1>5, <3>3 DEF next
      <3>5. Leads(x)
        BY <3>3 DEF HistoryInv, HandledLead
      <3> HIDE DEF x, m
      <3>6. x \in DOMAIN refs' /\ refs'[x] = refs[x]
        BY <1>10, <3>2, <3>3, <3>4
      <3>7. db'[refs'[x].short] = db[refs[x].short]
        BY <1>9, <1>13, <3>2, <3>3, <3>5, <3>6 DEF Leads
      <3>8. g[k] = m
        BY DEF m
      <3> HIDE DEF g
      <3> QED
        BY <3>1, <3>3, <3>6, <3>7, <3>8 DEF x
    <2> HIDE DEF g
    <2>4. PlannedSteps'
      BY <1>2, <2>1, <2>2, <2>3 DEF PlannedSteps, ConsumedInputs
    <2> QED
      BY <2>4 DEF Planned
  <1> QED
    BY <1>11, <1>12, <1>16, <1>17 DEF HistoryInv

\* What is written to the database is what was planned.
LEMMA ApplyHistory ==
  ASSUME LedgerRules, AllInv, HistoryInv, Apply
  PROVE  HistoryInv'
  <1>1. Working
    BY DEF Apply, Working
  <1> QED
    BY <1>1, ApplyAddsHistory, ApplyStepsHistory DEF HistoryInv, Planned

(***************************************************************************)
(* Every other step keeps the inductive invariant.                         *)
(***************************************************************************)

\* Outside of a block only the references matter.
LEMMA OutsideHistory ==
  ASSUME wpc' \notin {"block", "panicked"}, todo' = <<>>,
         LinkedIn(db)', RefsAreContractOutputs', HandledLead'
  PROVE  HistoryInv'
  <1>1. AtFits' /\ CurrentLead' /\ Planned' /\ NoPanic'
    BY DEF AtFits, CurrentLead, Planned, NoPanic, Working
  <1> QED
    BY <1>1 DEF HistoryInv

\* Without references there is nothing to lead astray.
LEMMA NoReferences ==
  ASSUME refs' = <<>>
  PROVE  RefsAreContractOutputs' /\ HandledLead'
  BY DEF RefsAreContractOutputs, HandledLead

\* Nothing is stored at first.
LEMMA InitHistory ==
  ASSUME Init
  PROVE  HistoryInv
  BY DEF Init, HistoryInv, LinkedIn, AtFits, RefsAreContractOutputs, HandledLead, CurrentLead,
         Planned, NoPanic, Working

\* A stop loses the references.
LEMMA CrashHistory ==
  ASSUME HistoryInv, Crash
  PROVE  HistoryInv'
  <1>1. UNCHANGED db /\ wpc' = "down" /\ todo' = <<>> /\ refs' = <<>>
    BY DEF Crash, disk
  <1>2. LinkedIn(db)'
    BY <1>1 DEF HistoryInv, LinkedIn
  <1> QED
    BY <1>1, <1>2, NoReferences, OutsideHistory

\* So long as nothing is written, and what is handled stays the same, the
\* references lead where they did.
LEMMA NothingWritten ==
  ASSUME HistoryInv, UNCHANGED <<db, refs>>, Handled' = Handled
  PROVE  LinkedIn(db)' /\ RefsAreContractOutputs' /\ HandledLead'
  <1>1. ASSUME NEW o \in DOMAIN refs, Leads(o)
        PROVE  Leads(o)'
    BY <1>1 DEF Leads
  <1> QED
    BY <1>1 DEF HistoryInv, LinkedIn, RefsAreContractOutputs, HandledLead

\* A restart finds no references.
LEMMA RestartHistory ==
  ASSUME AllInv, HistoryInv, Restart
  PROVE  HistoryInv'
  <1>1. /\ UNCHANGED <<at, todo, db>> /\ wpc = "down" /\ wpc' \in {"refused", "resuming"}
        /\ wpc' = "refused" => UNCHANGED <<followed, refs>>
        /\ wpc' = "resuming" => refs' = <<>>
    BY DEF Restart, disk, memory
  <1>2. todo' = <<>>
    BY <1>1 DEF AllInv, IInv, TodoFits
  <1>3. LinkedIn(db)'
    BY <1>1 DEF HistoryInv, LinkedIn
  <1>4. CASE wpc' = "refused"
    <2>1. Handled' = Handled
      BY <1>1, <1>4 DEF Handled, Done
    <2> QED
      BY <1>1, <1>2, <1>4, <2>1, NothingWritten, OutsideHistory
  <1>5. CASE wpc' = "resuming"
    BY <1>1, <1>2, <1>3, <1>5, NoReferences, OutsideHistory
  <1> QED
    BY <1>1, <1>4, <1>5

\* A block goes on where the one before it ended.
LEMMA HandleBlockHistory ==
  ASSUME AllInv, HistoryInv, HandleBlock
  PROVE  HistoryInv'
  <1>1. /\ followed' \in Block \ {Origin} /\ Parent[followed'] = followed
        /\ at' = 0 /\ wpc = "idle" /\ wpc' = "block" /\ UNCHANGED <<todo, db, refs>>
    BY DEF HandleBlock, disk, memory
  <1>2. followed \in Block /\ todo = <<>>
    BY <1>1, DbFacts DEF AllInv, IInv, TodoFits
  <1>3. Handled' = TxsUpTo(followed', 0) /\ Handled = TxsUpTo(followed, Len(TxsOf[followed]))
    BY <1>1, <1>2 DEF Handled, Done
  <1>4. \A t : t \in Handled' <=> t \in Handled
    <2> TAKE t
    <2>1. t \in TxsUpTo(followed', 0) <=> t \in TxsUpTo(followed, Len(TxsOf[followed]))
      BY <1>1, <1>2, UpToBlock
    <2> QED
      BY <1>3, <2>1
  <1>5. LinkedIn(db)' /\ RefsAreContractOutputs' /\ HandledLead'
    <2>1. ASSUME NEW o \in DOMAIN refs, Leads(o)
          PROVE  Leads(o)'
      BY <1>1, <2>1 DEF Leads
    <2> QED
      BY <1>1, <1>4, <2>1 DEF HistoryInv, LinkedIn, RefsAreContractOutputs, HandledLead
  <1>6. AtFits'
    <2>1. TxsOf[followed'] \in Seq(Tx)
      BY <1>1, LedgerAssumption
    <2>2. 0 \in 0..Len(TxsOf[followed'])
      BY <2>1
    <2> QED
      BY <1>1, <1>2, <2>2 DEF AtFits
  <1>7. CurrentLead' /\ Planned' /\ NoPanic'
    BY <1>1, <1>2 DEF CurrentLead, Planned, NoPanic, Working
  <1> QED
    BY <1>5, <1>6, <1>7 DEF HistoryInv

\* The steps that save a position write nothing else.
LEMMA SavingHistory ==
  ASSUME AllInv, HistoryInv, SaveHash \/ SaveSlot \/ SaveRollbackSlot \/ SaveRollbackHash
  PROVE  HistoryInv'
  <1>1. /\ UNCHANGED <<followed, todo, db, refs>> /\ wpc' \in {"saving", "idle", "rolled"}
        /\ wpc \in {"block", "saving", "rolling", "rolled"}
        /\ wpc = "block" => todo = <<>> /\ at = Len(TxsOf[followed])
    BY DEF SaveHash, SaveSlot, SaveRollbackSlot, SaveRollbackHash, memory
  <1>2. todo' = <<>>
    BY <1>1 DEF AllInv, IInv, TodoFits
  <1>3. Done = Len(TxsOf[followed]) /\ Done' = Len(TxsOf[followed])
    BY <1>1 DEF Done
  <1>4. Handled' = Handled
    BY <1>1, <1>3 DEF Handled
  <1> QED
    BY <1>1, <1>2, <1>4, NothingWritten, OutsideHistory

\* A roll back removes the references to outputs of the transactions it
\* leaves on the chain: their contracts have moved on above it.
LEMMA RollbackHistory ==
  ASSUME LedgerRules, AllInv, HistoryInv, NEW p \in Block, NEW top \in Block,
         p \in Ancestors[top], TableOn(db, top), p \in Ancestors[followed], followed \in Block,
         wpc # "block", RollbackContracts(p), followed' = p, todo' = <<>>
  PROVE  HistoryInv'
  <1>1. /\ db' = RollbackDb(db, Slot[p]) /\ refs' = RetainRefs(refs, Slot[p])
        /\ wpc' = "rolling"
    BY DEF RollbackContracts
  <1>2. VersionsIn(db) /\ SoundIn(db) /\ LinkedIn(db) /\ Slot[p] \in Nat
    BY SlotAssumption DEF AllInv, TypeInv, TablesTyped, StoreInv, HistoryInv
  <1>3. LinkedIn(db)'
    <2>1. LinkedIn(RollbackDb(db, Slot[p]))
      BY <1>2, RollbackLinked
    <2> QED
      BY <1>1, <2>1 DEF LinkedIn
  <1>4. \A o \in DOMAIN refs' : o \in DOMAIN refs /\ refs[o].slot > Slot[p]
    BY <1>1 DEF RetainRefs
  <1>5. RefsAreContractOutputs'
    BY <1>4 DEF HistoryInv, RefsAreContractOutputs
  <1>6. Handled = TxsUpTo(followed, Len(TxsOf[followed])) /\ Handled' = TxsUpTo(p, Len(TxsOf[p]))
    BY <1>1 DEF Handled, Done
  <1>7. ASSUME NEW o \in DOMAIN refs', o.tx \in Handled'
        PROVE  FALSE
    <2> DEFINE s == refs[o].short
               c == db[s]
               last == LastTransition(c)
               l == Len(c.transitions)
    <2>1. o \in DOMAIN refs /\ refs[o].slot > Slot[p] /\ o # None
      BY <1>4, NoneAssumption DEF AllInv, TypeInv, LookupsTyped
    <2>2. /\ \E a \in Ancestors[p] : o.tx \in Elements(TxsOf[a])
          /\ o.tx \in Handled
      BY <1>6, <1>7, UpToShorter
    <2>3. s \in DOMAIN db /\ OutRefIfActive(c) = o /\ refs[o].slot = last.slot
      BY <2>1, <2>2 DEF HistoryInv, HandledLead, Leads
    <2>4. o.tx = last.tx
      BY <2>1, <2>3 DEF OutRefIfActive
    <2>5. c \in Version /\ Linked(c) /\ OnChain(c, top)
      BY <1>2, <2>3 DEF VersionsIn, LinkedIn, TableOn
    <2>6. l \in DOMAIN c.transitions /\ last = c.transitions[l]
      BY <2>5, VersionFacts DEF LastTransition
    <2> HIDE DEF c, last, l, s
    <2>7. /\ last.block \in Ancestors[top] /\ last.slot = Slot[last.block]
          /\ last.tx \in Elements(TxsOf[last.block])
      BY <2>5, <2>6 DEF Linked, OnChain
    <2>8. PICK a \in Ancestors[p] : o.tx \in Elements(TxsOf[a])
      BY <2>2
    <2>9. a \in Ancestors[top] /\ a \in Block
      BY <2>8, AncestorFacts
    <2>10. PICK j \in DOMAIN TxsOf[a] : o.tx = TxsOf[a][j]
      BY <2>8 DEF Elements
    <2>11. PICK k \in DOMAIN TxsOf[last.block] : last.tx = TxsOf[last.block][k]
      BY <2>7 DEF Elements
    <2>12. last.block = a
      <3>1. TxsOf[a][j] = TxsOf[last.block][k]
        BY <2>4, <2>10, <2>11
      <3> DEFINE x == last.block
      <3>2. x \in Ancestors[top] /\ k \in DOMAIN TxsOf[x] /\ TxsOf[a][j] = TxsOf[x][k]
        BY <2>7, <2>11, <3>1
      <3> HIDE DEF x
      <3>3. a = x
        BY <2>9, <2>10, <3>2, OnePosition DEF LedgerRules
      <3> QED
        BY <3>3 DEF x
    <2>13. Slot[a] <= Slot[p]
      <3>1. a = p \/ Slot[a] < Slot[p]
        BY StrictSlotAssumption
      <3> QED
        BY <2>9, <3>1, SlotAssumption
    <2> QED
      BY <1>2, <2>1, <2>3, <2>7, <2>9, <2>12, <2>13, SlotAssumption
  <1>8. HandledLead'
    BY <1>7 DEF HandledLead
  <1> QED
    BY <1>1, <1>3, <1>5, <1>8, OutsideHistory

\* The roll backs of a connection and of a running worker.
LEMMA RollbacksHistory ==
  ASSUME LedgerRules, AllInv, HistoryInv, HandleRollback \/ FirstRollback
  PROVE  HistoryInv'
  <1>1. CASE HandleRollback
    <2>1. PICK p \in Ancestors[followed] : followed' = p /\ RollbackContracts(p)
      BY <1>1 DEF HandleRollback
    <2>2. wpc = "idle" /\ UNCHANGED todo
      BY <1>1 DEF HandleRollback
    <2>3. followed \in Block /\ TableOn(db, followed) /\ todo' = <<>>
      BY <2>2, DbFacts DEF AllInv, IInv, TodoFits
    <2>4. p \in Block
      BY <2>3, AncestorFacts
    <2> QED
      BY <2>1, <2>2, <2>3, <2>4, RollbackHistory
  <1>2. CASE FirstRollback
    <2>1. RollbackContracts(followed) /\ wpc = "resuming" /\ UNCHANGED <<followed, todo>>
      BY <1>2 DEF FirstRollback
    <2>2. PICK top \in Block : followed \in Ancestors[top] /\ TableOn(db, top)
      BY DEF AllInv, IInv, OneChain
    <2>3. followed \in Block /\ todo' = <<>>
      BY <2>1 DEF AllInv, IInv, PositionFits, TodoFits
    <2>4. PICK p \in Block : p = followed
      BY <2>3
    <2>5. p \in Ancestors[top] /\ p \in Ancestors[followed] /\ RollbackContracts(p)
      BY <2>1, <2>2, <2>3, <2>4, AncestorFacts
    <2> QED
      BY <2>1, <2>2, <2>3, <2>4, <2>5, RollbackHistory
  <1> QED
    BY <1>1, <1>2

\* Every step keeps the inductive invariant.
LEMMA HistoryKept ==
  ASSUME LedgerRules, AllInv, HistoryInv, [Next]_vars
  PROVE  HistoryInv'
  <1>1. CASE UNCHANGED vars
    BY <1>1 DEF vars, HistoryInv, LinkedIn, AtFits, RefsAreContractOutputs, HandledLead,
                CurrentLead, Planned, PlannedAdds, PlannedSteps, ConsumedInputs, NoPanic,
                Leads, Working, Handled, Done, Current
  <1> QED
    BY <1>1, CrashHistory, RestartHistory, HandleBlockHistory, ReadTransactionHistory,
       ApplyHistory, SavingHistory, RollbacksHistory DEF Next

\* The invariant holds under the rules of the ledger, for every tree of blocks,
\* through forks, reconnections and stops of the process at any write.
THEOREM HistoryInvariance ==
  ASSUME LedgerRules
  PROVE  Spec => []HistoryInv
  <1>1. Init => HistoryInv
    BY InitHistory
  <1>2. IInv /\ TypeInv /\ StoreInv /\ HistoryInv /\ [Next]_vars => HistoryInv'
    BY HistoryKept DEF AllInv
  <1>3. PositionRules
    BY DEF LedgerRules
  <1> QED
    BY <1>1, <1>2, <1>3, Invariance, TypesInvariance, StoreInvariance, PTL DEF Spec

\* A stored contract is a chain of outputs of one chain of blocks, with nothing
\* after its end.
THEOREM HistoriesLinked ==
  ASSUME LedgerRules
  PROVE  Spec => []HistoryIsLinked
  <1>1. HistoryInv => HistoryIsLinked
    BY DEF HistoryInv, LinkedIn, Linked, HistoryIsLinked
  <1> QED
    BY <1>1, HistoryInvariance, PTL

\* No unwrap, expect or panic! of the worker is reached.
THEOREM WorkerDoesNotPanic ==
  ASSUME LedgerRules
  PROVE  Spec => []NoWorkerPanic
  <1>1. HistoryInv => NoWorkerPanic
    BY DEF HistoryInv, NoPanic, NoWorkerPanic
  <1> QED
    BY <1>1, HistoryInvariance, PTL

\* A reference is a contract output, as long as contracts keep their output
\* index: the disagreement with state.rs:457 comes from that assumption alone.
THEOREM ReferencesAreOutputs ==
  ASSUME LedgerRules
  PROVE  Spec => []RefsAreContractOutputs
  <1>1. HistoryInv => RefsAreContractOutputs
    BY DEF HistoryInv
  <1> QED
    BY <1>1, HistoryInvariance, PTL

(***************************************************************************)
(* The database is an index of one chain.                                  *)
(***************************************************************************)

\* Facts, of any table.
Fact(c, k) ==
    [contract |-> c.id, tx |-> c.transitions[k].tx, block |-> c.transitions[k].block,
     end |-> c.transitions[k].end]

FactsIn(table) == UNION {{Fact(table[s], k) : k \in DOMAIN table[s].transitions} :
                            s \in DOMAIN table}

\* Membership, without the unions.
LEMMA InFacts ==
  ASSUME NEW table, NEW f
  PROVE  f \in FactsIn(table) <=>
            \E s \in DOMAIN table : \E k \in DOMAIN table[s].transitions :
                f = Fact(table[s], k)
  <1> DEFINE of(s) == {Fact(table[s], k) : k \in DOMAIN table[s].transitions}
  <1>1. ASSUME NEW s
        PROVE  f \in of(s) <=> \E k \in DOMAIN table[s].transitions : f = Fact(table[s], k)
    BY Zenon
  <1>2. FactsIn(table) = UNION {of(s) : s \in DOMAIN table}
    BY DEF FactsIn
  <1> HIDE DEF of
  <1>3. f \in UNION {of(s) : s \in DOMAIN table} <=> \E s \in DOMAIN table : f \in of(s)
    BY Zenon
  <1> QED
    BY <1>1, <1>2, <1>3

\* The facts of the database, in this state and in the next.
LEMMA FactsAre == Facts = FactsIn(db) /\ Facts' = FactsIn(db')
  BY DEF Facts, FactsIn, Fact

\* Writing a new contract adds its fact.
LEMMA NewFact ==
  ASSUME NEW table, NEW c, c.short \notin DOMAIN table, DOMAIN c.transitions = {1}
  PROVE  FactsIn(Put(table, c.short, c)) = FactsIn(table) \cup {Fact(c, 1)}
  <1> DEFINE new == Put(table, c.short, c)
  <1>1. /\ DOMAIN new = DOMAIN table \cup {c.short} /\ new[c.short] = c
        /\ \A s \in DOMAIN table : s # c.short /\ new[s] = table[s]
    BY DEF Put
  <1> HIDE DEF new
  <1>2. ASSUME NEW f
        PROVE  f \in FactsIn(new) <=> f \in FactsIn(table) \/ f = Fact(c, 1)
    <2>1. f \in FactsIn(new) <=>
             \E s \in DOMAIN new : \E k \in DOMAIN new[s].transitions : f = Fact(new[s], k)
      BY InFacts
    <2>2. f \in FactsIn(table) <=>
             \E s \in DOMAIN table : \E k \in DOMAIN table[s].transitions :
                f = Fact(table[s], k)
      BY InFacts
    <2> QED
      BY <1>1, <2>1, <2>2
  <1> QED
    BY <1>2 DEF new

\* Writing a step adds the fact of its last transition.
LEMMA SteppedFact ==
  ASSUME NEW b \in Block, NEW t \in Tx, NEW n \in ConsumedInputs(t),
         NEW table, VersionsIn(table), NEW s \in DOMAIN table
  PROVE  LET c == Stepped(table[s], t, b, n)
         IN  FactsIn(Put(table, s, c)) = FactsIn(table) \cup {Fact(c, Len(c.transitions))}
  <1> DEFINE old == table[s]
             c == Stepped(old, t, b, n)
             l == Len(old.transitions)
             new == Put(table, s, c)
  <1>1. old \in Versions(OutRef, ShortId)
    BY VersionFacts DEF VersionsIn
  <1>2. /\ c.id = old.id /\ l \in Nat /\ Len(c.transitions) = l + 1
        /\ DOMAIN old.transitions = 1..l /\ DOMAIN c.transitions = 1..l + 1
        /\ \A k \in 1..l : /\ c.transitions[k].tx = old.transitions[k].tx
                           /\ c.transitions[k].block = old.transitions[k].block
                           /\ c.transitions[k].end = old.transitions[k].end
    BY <1>1, SteppedFacts
  <1> HIDE DEF c
  <1>3. /\ DOMAIN new = DOMAIN table /\ new[s] = c
        /\ \A r \in DOMAIN table : r # s => new[r] = table[r]
    BY DEF Put
  <1> HIDE DEF old, l, new
  <1>4. \A k \in 1..l : Fact(c, k) = Fact(old, k)
    BY <1>2 DEF Fact
  <1>5. 1..l + 1 = 1..l \cup {l + 1}
    BY <1>2
  <1>6. ASSUME NEW f
        PROVE  f \in FactsIn(new) <=> f \in FactsIn(table) \/ f = Fact(c, l + 1)
    <2>1. f \in FactsIn(new) <=>
             \E r \in DOMAIN new : \E k \in DOMAIN new[r].transitions : f = Fact(new[r], k)
      BY InFacts
    <2>2. f \in FactsIn(table) <=>
             \E r \in DOMAIN table : \E k \in DOMAIN table[r].transitions :
                f = Fact(table[r], k)
      BY InFacts
    <2>3. (\E k \in DOMAIN c.transitions : f = Fact(c, k))
             <=> (\E k \in DOMAIN old.transitions : f = Fact(old, k)) \/ f = Fact(c, l + 1)
      BY <1>2, <1>4, <1>5
    <2>4. (\E r \in DOMAIN new : \E k \in DOMAIN new[r].transitions : f = Fact(new[r], k))
             <=> \/ \E k \in DOMAIN c.transitions : f = Fact(c, k)
                 \/ \E r \in DOMAIN table \ {s} : \E k \in DOMAIN table[r].transitions :
                       f = Fact(table[r], k)
      BY <1>3
    <2>5. (\E r \in DOMAIN table : \E k \in DOMAIN table[r].transitions : f = Fact(table[r], k))
             <=> \/ \E k \in DOMAIN old.transitions : f = Fact(old, k)
                 \/ \E r \in DOMAIN table \ {s} : \E k \in DOMAIN table[r].transitions :
                       f = Fact(table[r], k)
      BY DEF old
    <2> QED
      BY <2>1, <2>2, <2>3, <2>4, <2>5
  <1>7. FactsIn(new) = FactsIn(table) \cup {Fact(c, l + 1)}
    BY <1>6
  <1>8. new = Put(table, s, c)
    BY DEF new
  <1>9. c = Stepped(table[s], t, b, n)
    BY DEF c, old
  <1> QED
    BY <1>2, <1>7, <1>8, <1>9

\* A roll back forgets what is not on the chain of its block.
LEMMA RolledFacts ==
  ASSUME NEW table, NEW top \in Block, NEW p \in Ancestors[top],
         VersionsIn(table), TableOn(table, top), SoundIn(table)
  PROVE  FactsIn(RollbackDb(table, Slot[p])) = {f \in FactsIn(table) : f.block \in Ancestors[p]}
  <1> DEFINE new == RollbackDb(table, Slot[p])
  <1>1. p \in Block /\ Slot[p] \in Nat
    BY AncestorFacts, SlotAssumption
  <1>2. ASSUME NEW s \in DOMAIN table
        PROVE  /\ Truncate(table[s], Slot[p]).id = table[s].id
               /\ \A k \in DOMAIN table[s].transitions :
                     k \in DOMAIN Truncate(table[s], Slot[p]).transitions
                        <=> table[s].transitions[k].block \in Ancestors[p]
               /\ DOMAIN Truncate(table[s], Slot[p]).transitions \subseteq DOMAIN table[s].transitions
               /\ \A k \in DOMAIN Truncate(table[s], Slot[p]).transitions :
                     Fact(Truncate(table[s], Slot[p]), k) = Fact(table[s], k)
               /\ s \in DOMAIN new <=> DOMAIN Truncate(table[s], Slot[p]).transitions # {}
    <2> DEFINE c == table[s]
               d == Truncate(c, Slot[p])
    <2>1. c \in Version /\ Sorted(c) /\ OnChain(c, top)
      BY DEF VersionsIn, SoundIn, TableOn
    <2> HIDE DEF c
    <2>2. /\ d.id = c.id /\ d.transitions \in Seq(Transition)
          /\ DOMAIN d.transitions = {k \in DOMAIN c.transitions : c.transitions[k].slot <= Slot[p]}
          /\ \A k \in DOMAIN d.transitions : d.transitions[k] = c.transitions[k]
      BY <1>1, <2>1, TruncateIsBeginning
    <2>3. s \in DOMAIN new <=> d.transitions # <<>>
      BY DEF RollbackDb, c
    <2> HIDE DEF d
    <2>4. d.transitions # <<>> <=> DOMAIN d.transitions # {}
      BY <2>2
    <2>5. ASSUME NEW k \in DOMAIN c.transitions
          PROVE  c.transitions[k].slot <= Slot[p] <=> c.transitions[k].block \in Ancestors[p]
      <3> DEFINE a == c.transitions[k].block
      <3>1. a \in Ancestors[top] /\ c.transitions[k].slot = Slot[a]
        BY <2>1 DEF OnChain
      <3> HIDE DEF a
      <3>2. a \in Block /\ Slot[a] \in Nat
        BY <3>1, AncestorFacts, SlotAssumption
      <3>3. Slot[a] <= Slot[p] => a \in Ancestors[p]
        BY <3>1, NotLater
      <3>4. a \in Ancestors[p] => Slot[a] <= Slot[p]
        <4>1. a \in Ancestors[p] \ {p} => Slot[a] < Slot[p]
          BY <1>1, StrictSlotAssumption
        <4> QED
          BY <1>1, <3>2, <4>1
      <3> QED
        BY <3>1, <3>3, <3>4 DEF a
    <2>6. \A k \in DOMAIN d.transitions : Fact(d, k) = Fact(c, k)
      BY <2>2 DEF Fact
    <2> QED
      BY <2>2, <2>3, <2>4, <2>5, <2>6 DEF c, d
  <1>3. DOMAIN new \subseteq DOMAIN table /\ \A s \in DOMAIN new : new[s] = Truncate(table[s], Slot[p])
    BY DEF RollbackDb
  <1>4. \A s \in DOMAIN table : \A k \in DOMAIN table[s].transitions :
           Fact(table[s], k).block = table[s].transitions[k].block
    BY DEF Fact
  <1> HIDE DEF new
  <1>5. ASSUME NEW f
        PROVE  f \in FactsIn(new) <=> f \in FactsIn(table) /\ f.block \in Ancestors[p]
    <2>1. ASSUME NEW s \in DOMAIN new, NEW k \in DOMAIN new[s].transitions, f = Fact(new[s], k)
          PROVE  f \in FactsIn(table) /\ f.block \in Ancestors[p]
      <3>1. s \in DOMAIN table /\ new[s] = Truncate(table[s], Slot[p])
        BY <1>3
      <3>2. k \in DOMAIN table[s].transitions /\ f = Fact(table[s], k)
        BY <1>2, <2>1, <3>1
      <3>3. table[s].transitions[k].block \in Ancestors[p]
        BY <1>2, <2>1, <3>1, <3>2
      <3> QED
        BY <1>4, <3>1, <3>2, <3>3, InFacts
    <2>2. ASSUME NEW s \in DOMAIN table, NEW k \in DOMAIN table[s].transitions,
                 f = Fact(table[s], k), f.block \in Ancestors[p]
          PROVE  f \in FactsIn(new)
      <3>1. k \in DOMAIN Truncate(table[s], Slot[p]).transitions
        BY <1>2, <1>4, <2>2
      <3>2. s \in DOMAIN new /\ new[s] = Truncate(table[s], Slot[p])
        BY <1>2, <1>3, <3>1
      <3>3. f = Fact(new[s], k) /\ k \in DOMAIN new[s].transitions
        BY <1>2, <2>2, <3>1, <3>2
      <3> QED
        BY <3>2, <3>3, InFacts
    <2>3. f \in FactsIn(new) => \E s \in DOMAIN new : \E k \in DOMAIN new[s].transitions :
                                   f = Fact(new[s], k)
      BY InFacts
    <2>4. f \in FactsIn(table) => \E s \in DOMAIN table : \E k \in DOMAIN table[s].transitions :
                                     f = Fact(table[s], k)
      BY InFacts
    <2> QED
      BY <2>1, <2>2, <2>3, <2>4
  <1>6. \A f : f \in FactsIn(new) <=> f \in {g \in FactsIn(table) : g.block \in Ancestors[p]}
    BY <1>5
  <1> QED
    BY <1>6 DEF new

\* A fact that is added is on the chain followed, with the others, and of a
\* contract that had not ended.
LEMMA Recorded ==
  ASSUME NEW b, NEW f, f.block = b, FactsIn(db') = FactsIn(db) \cup {f},
         \A g \in FactsIn(db) : g.block \in Ancestors[b],
         \A g \in FactsIn(db) : g.contract = f.contract => ~g.end
  PROVE  [Index!Next]_Facts
  <1>1. Facts' = Facts \cup {f}
    BY FactsAre
  <1>2. CASE f \in Facts
    BY <1>1, <1>2
  <1>3. CASE f \notin Facts
    <2>1. f \in Facts' \ Facts
      BY <1>1, <1>3
    <2>2. \A g \in Facts : /\ g.block \in Ancestors[f.block]
                           /\ g.contract = f.contract => ~g.end
      BY FactsAre
    <2> HIDE DEF Facts
    <2>3. Index!Record
      BY <1>1, <2>1, <2>2 DEF Index!Record
    <2> QED
      BY <2>3 DEF Index!Next
  <1> QED
    BY <1>2, <1>3

\* The facts of a table on the chain of b are of that chain.
LEMMA FactsOnChain ==
  ASSUME NEW b, NEW table, TableOn(table, b), NEW g \in FactsIn(table)
  PROVE  g.block \in Ancestors[b]
  <1>1. PICK s \in DOMAIN table : \E k \in DOMAIN table[s].transitions : g = Fact(table[s], k)
    BY InFacts
  <1>2. PICK k \in DOMAIN table[s].transitions : g = Fact(table[s], k)
    BY <1>1
  <1> QED
    BY <1>2 DEF Fact, TableOn, OnChain

\* Nothing ended belongs to a contract that is still active.
LEMMA NotEnded ==
  ASSUME PositionRules, NEW b \in Block, NEW table,
         VersionsIn(table), TableOn(table, b), SoundIn(table), LinkedIn(table),
         NEW s \in DOMAIN table, ~LastTransition(table[s]).end,
         NEW g \in FactsIn(table), g.contract = table[s].id
  PROVE  ~g.end
  <1>1. PICK r \in DOMAIN table : \E k \in DOMAIN table[r].transitions : g = Fact(table[r], k)
    BY InFacts
  <1>2. PICK k \in DOMAIN table[r].transitions : g = Fact(table[r], k)
    BY <1>1
  <1>3. table[r].id = table[s].id
    BY <1>2 DEF Fact
  <1>4. r = s
    BY <1>3, StoredOnce
  <1> DEFINE c == table[s]
             l == Len(c.transitions)
  <1>5. c \in Version /\ Linked(c)
    BY DEF VersionsIn, LinkedIn
  <1>6. l \in Nat \ {0} /\ DOMAIN c.transitions = 1..l
    BY <1>5, VersionFacts
  <1>7. g.end = c.transitions[k].end /\ k \in 1..l /\ ~c.transitions[l].end
    BY <1>2, <1>4, <1>6 DEF Fact, LastTransition
  <1> HIDE DEF c
  <1>8. CASE k # l
    <2>1. k + 1 \in 2..Len(c.transitions) /\ (k + 1) - 1 = k
      BY <1>6, <1>7, <1>8
    <2>2. ~c.transitions[(k + 1) - 1].end
      BY <1>5, <2>1 DEF Linked
    <2> QED
      BY <1>7, <2>1, <2>2
  <1> QED
    BY <1>7, <1>8

\* Writing a version records one fact.
LEMMA ApplyRecords ==
  ASSUME LedgerRules, AllInv, HistoryInv, Apply
  PROVE  [Index!Next]_Facts
  <1> DEFINE c == Head(todo).contract
  <1>1. /\ followed \in Block /\ VersionsIn(db) /\ TableOn(db, followed) /\ LinkedIn(db)
        /\ Current \in Tx /\ wpc = "block" /\ todo # <<>>
    BY ApplyControl
  <1>2. SoundIn(db) /\ PositionRules
    BY <1>1, DbFacts DEF LedgerRules
  <1>3. \A g \in FactsIn(db) : g.block \in Ancestors[followed]
    BY <1>1, FactsOnChain
  <1>4. CASE PlannedAdds
    <2>1. WritesNew(c)
      BY <1>4, ApplyAdds
    <2> HIDE DEF c
    <2> DEFINE f == Fact(c, 1)
    <2>2. /\ c.short \notin DOMAIN db /\ \A s \in DOMAIN db : db[s].id # c.id
          /\ db' = Put(db, c.short, c) /\ Begins(c, Current, followed)
      BY <2>1 DEF WritesNew
    <2>3. FactsIn(db') = FactsIn(db) \cup {f}
      BY <2>2, NewFact DEF Begins
    <2>4. f.block = followed /\ f.contract = c.id
      BY <2>2 DEF Begins, Fact, First
    <2> HIDE DEF f
    <2>5. ASSUME NEW g \in FactsIn(db), g.contract = c.id
          PROVE  FALSE
      <3>1. PICK s \in DOMAIN db : \E k \in DOMAIN db[s].transitions : g = Fact(db[s], k)
        BY InFacts
      <3>2. g.contract = db[s].id
        BY <3>1 DEF Fact
      <3> QED
        BY <2>2, <2>5, <3>2
    <2> QED
      BY <1>3, <2>3, <2>4, <2>5, Recorded
  <1>5. CASE PlannedSteps
    <2>1. PICK n, o : WritesStep(c, n, o) /\ n \in ConsumedInputs(Current)
      <3>1. PICK f \in [DOMAIN todo -> Nat] :
               /\ \A j, k \in DOMAIN todo : j # k => f[j] # f[k]
               /\ \A k \in DOMAIN todo :
                     /\ f[k] \in ConsumedInputs(Current)
                     /\ todo[k].kind # "Add"
                     /\ todo[k].contract = Stepped(db[refs[Inputs[Current][f[k]]].short],
                                                   Current, followed, f[k])
        BY <1>5 DEF PlannedSteps
      <3>2. 1 \in DOMAIN todo
        BY ApplyControl
      <3>3. WritesStep(c, f[1], Inputs[Current][f[1]])
        BY <3>1, ApplySteps
      <3> QED
        BY <3>1, <3>2, <3>3
    <2> HIDE DEF c
    <2> DEFINE s == c.short
               l == Len(c.transitions)
               f == Fact(c, l)
    <2>2. /\ s \in DOMAIN db /\ ~LastTransition(db[s]).end /\ c.id = db[s].id
          /\ c = Stepped(db[s], Current, followed, n) /\ db' = Put(db, s, c)
      BY <2>1 DEF WritesStep
    <2> HIDE DEF s
    <2>3. FactsIn(db') = FactsIn(db) \cup {f}
      BY <1>1, <2>1, <2>2, SteppedFact
    <2>4. f.block = followed /\ f.contract = db[s].id
      <3>1. db[s] \in Versions(OutRef, ShortId)
        BY <1>1, <2>2, VersionFacts DEF VersionsIn
      <3>2. c.transitions[l] = NewTransition(Current, followed, n)
        BY <1>1, <2>1, <2>2, <3>1, SteppedFacts
      <3>3. c.transitions[l].block = followed
        BY <1>1, <2>1, <3>2, NewTransitionFacts
      <3> QED
        BY <2>2, <3>3 DEF Fact
    <2> HIDE DEF f
    <2>5. ASSUME NEW g \in FactsIn(db), g.contract = f.contract
          PROVE  ~g.end
      BY <1>1, <1>2, <2>2, <2>4, <2>5, NotEnded
    <2> QED
      BY <1>3, <2>3, <2>4, <2>5, Recorded
  <1> QED
    BY <1>1, <1>4, <1>5 DEF HistoryInv, Planned, Working

\* A roll back forgets what is not on the chain that is left.
LEMMA RollbackForgets ==
  ASSUME AllInv, NEW p \in Block, NEW top \in Block, p \in Ancestors[top],
         TableOn(db, top), RollbackContracts(p)
  PROVE  [Index!Next]_Facts
  <1>1. db' = RollbackDb(db, Slot[p])
    BY DEF RollbackContracts
  <1>2. VersionsIn(db) /\ SoundIn(db)
    BY DEF AllInv, TypeInv, TablesTyped, StoreInv
  <1>3. FactsIn(db') = {f \in FactsIn(db) : f.block \in Ancestors[p]}
    BY <1>1, <1>2, RolledFacts
  <1>4. Facts' = {f \in Facts : f.block \in Ancestors[p]}
    BY <1>3, FactsAre
  <1> HIDE DEF Facts
  <1>5. Index!Forget
    BY <1>4 DEF Index!Forget
  <1> QED
    BY <1>5 DEF Index!Next

\* Every step is one of the abstract index, or shows in it as none.
LEMMA StepIndexes ==
  ASSUME LedgerRules, AllInv, HistoryInv, [Next]_vars
  PROVE  [Index!Next]_Facts
  <1>1. CASE UNCHANGED db
    <2>1. UNCHANGED Facts
      BY <1>1, FactsAre
    <2> QED
      BY <2>1
  <1>2. CASE Apply
    BY <1>2, ApplyRecords
  <1>3. CASE HandleRollback
    <2>1. PICK p \in Ancestors[followed] : RollbackContracts(p)
      BY <1>3 DEF HandleRollback
    <2>2. wpc = "idle"
      BY <1>3 DEF HandleRollback
    <2>3. followed \in Block /\ TableOn(db, followed)
      BY <2>2, DbFacts
    <2>4. p \in Block
      BY <2>3, AncestorFacts
    <2> QED
      BY <2>1, <2>3, <2>4, RollbackForgets
  <1>4. CASE FirstRollback
    <2>1. PICK top \in Block : followed \in Ancestors[top] /\ TableOn(db, top)
      BY DEF AllInv, IInv, OneChain
    <2>2. PICK p \in Block : p = followed
      BY DEF AllInv, IInv, PositionFits
    <2>3. RollbackContracts(p)
      BY <1>4, <2>2 DEF FirstRollback
    <2> QED
      BY <2>1, <2>2, <2>3, RollbackForgets
  <1>5. CASE UNCHANGED vars
    BY <1>1, <1>5 DEF vars
  <1> QED
    BY <1>1, <1>2, <1>3, <1>4, <1>5
    DEF Next, Restart, Crash, HandleBlock, ReadTransaction, SaveHash, SaveSlot,
        SaveRollbackSlot, SaveRollbackHash, disk

\* At every moment, half applied blocks and half saved positions included, the
\* database is an index of one chain, that grows fact by fact and goes back
\* only to a block of the chain.
THEOREM IndexesOneChain ==
  ASSUME LedgerRules
  PROVE  Spec => ImplementsChainIndex
  <1>1. Init => Index!Init
    BY DEF Init, Index!Init, Facts
  <1>2. IInv /\ TypeInv /\ StoreInv /\ HistoryInv /\ [Next]_vars => [Index!Next]_Facts
    BY StepIndexes DEF AllInv
  <1>3. PositionRules
    BY DEF LedgerRules
  <1> QED
    BY <1>1, <1>2, <1>3, Invariance, TypesInvariance, StoreInvariance, HistoryInvariance, PTL
    DEF Spec, ImplementsChainIndex, Index!Spec

(***************************************************************************)
(* Nothing is missed.                                                      *)
(***************************************************************************)

IdsIn(table) == {table[s].id : s \in DOMAIN table}

\* What is created by transaction t is in the table or among the others.
StoredFrom(t, known) == Moved(t) = {} => Contracts(t) \subseteq known

Pending == {todo[k].contract.id : k \in Adds}

\* The chain followed is covered whenever no block is being handled.
ChainCovered ==
    wpc \in {"idle", "saving", "rolling", "rolled", "resuming"} =>
        Created(followed) \subseteq IdsIn(db)

\* While a block is handled, what has been read of it is covered by the
\* database and the events that are still to be applied.
BlockCovered ==
    wpc = "block" =>
        \A a \in Ancestors[followed] \ Ancestors[Start] : \A j \in DOMAIN TxsOf[a] :
            a # followed \/ j <= at => StoredFrom(TxsOf[a][j], IdsIn(db) \cup Pending)

SavedIsFollowed == wpc = "saving" => lastHash = followed

CoverInv == ChainCovered /\ BlockCovered /\ SavedIsFollowed /\ ResumePointCovered

\* The ids in the database, in this state and in the next.
LEMMA IdsAre == IndexedIds = IdsIn(db) /\ IndexedIds' = IdsIn(db')
  BY DEF IndexedIds, IdsIn

\* Membership, without the unions.
LEMMA InCreated ==
  ASSUME NEW b, NEW o
  PROVE  o \in Created(b) <=>
            \E a \in Ancestors[b] \ Ancestors[Start] : \E j \in DOMAIN TxsOf[a] :
                Moved(TxsOf[a][j]) = {} /\ o \in Contracts(TxsOf[a][j])
  <1> DEFINE new == {u \in ChainTxs(b) : Moved(u) = {}}
  <1>1. o \in Created(b) <=> \E t \in new : o \in Contracts(t)
    BY Zenon DEF Created
  <1>2. \A t : t \in ChainTxs(b) <=>
           \E a \in Ancestors[b] \ Ancestors[Start] : t \in Elements(TxsOf[a])
    BY Zenon DEF ChainTxs
  <1>3. \A t, a : t \in Elements(TxsOf[a]) <=> \E j \in DOMAIN TxsOf[a] : t = TxsOf[a][j]
    BY Zenon DEF Elements
  <1>4. \A t : t \in new <=> t \in ChainTxs(b) /\ Moved(t) = {}
    OBVIOUS
  <1> HIDE DEF new
  <1>5. ASSUME o \in Created(b)
        PROVE  \E a \in Ancestors[b] \ Ancestors[Start] : \E j \in DOMAIN TxsOf[a] :
                  Moved(TxsOf[a][j]) = {} /\ o \in Contracts(TxsOf[a][j])
    <2>1. PICK t \in new : o \in Contracts(t)
      BY <1>1, <1>5
    <2>2. PICK a \in Ancestors[b] \ Ancestors[Start] : t \in Elements(TxsOf[a])
      BY <1>2, <1>4, <2>1
    <2>3. PICK j \in DOMAIN TxsOf[a] : t = TxsOf[a][j]
      BY <2>2 DEF Elements
    <2> QED
      BY <1>4, <2>1, <2>2, <2>3
  <1>6. ASSUME NEW a \in Ancestors[b] \ Ancestors[Start], NEW j \in DOMAIN TxsOf[a],
               Moved(TxsOf[a][j]) = {}, o \in Contracts(TxsOf[a][j])
        PROVE  o \in Created(b)
    <2>1. TxsOf[a][j] \in new
      BY <1>2, <1>3, <1>4, <1>6
    <2> QED
      BY <1>1, <1>6, <2>1
  <1> QED
    BY <1>5, <1>6

\* A contract is named after the transaction that has it.
LEMMA ContractTx ==
  ASSUME NEW t, NEW o \in Contracts(t)
  PROVE  o.tx = t
  BY DEF Contracts

\* A longer chain has created more, and no chain up to the start anything.
LEMMA CreatedGrows ==
  ASSUME NEW b \in Block, NEW p \in Ancestors[b]
  PROVE  Created(p) \subseteq Created(b)
  <1>1. Ancestors[p] \subseteq Ancestors[b]
    BY AncestorFacts
  <1> QED
    BY <1>1, InCreated

\* Up to the start nothing is created.
LEMMA NothingBefore ==
  ASSUME NEW p \in Ancestors[Start]
  PROVE  Created(p) = {}
  <1>1. Ancestors[p] \subseteq Ancestors[Start]
    BY LedgerAssumption, AncestorFacts
  <1> QED
    BY <1>1, InCreated

\* A roll back to p keeps what is created up to p.
LEMMA RollbackCovers ==
  ASSUME PositionRules, NEW top \in Block, NEW p \in Ancestors[top], NEW table,
         VersionsIn(table), TableOn(table, top), SoundIn(table),
         NEW q \in Ancestors[p], Created(q) \subseteq IdsIn(table)
  PROVE  Created(q) \subseteq IdsIn(RollbackDb(table, Slot[p]))
  <1> SUFFICES ASSUME NEW o \in Created(q)
               PROVE  \E s \in DOMAIN RollbackDb(table, Slot[p]) :
                         RollbackDb(table, Slot[p])[s].id = o
    BY DEF IdsIn
  <1>1. p \in Block /\ Slot[p] \in Nat
    BY AncestorFacts, SlotAssumption
  <1>2. PICK a \in Ancestors[q] : \E j \in DOMAIN TxsOf[a] : o \in Contracts(TxsOf[a][j])
    BY InCreated
  <1>3. PICK j \in DOMAIN TxsOf[a] : o \in Contracts(TxsOf[a][j])
    BY <1>2
  <1>4. o.tx = TxsOf[a][j]
    BY <1>3, ContractTx
  <1>5. a \in Ancestors[p] /\ a \in Ancestors[top] /\ a \in Block
    BY <1>1, <1>2, AncestorFacts
  <1>6. PICK s \in DOMAIN table : table[s].id = o
    BY DEF IdsIn
  <1> DEFINE c == table[s]
             d == Truncate(c, Slot[p])
             x == First(c).block
  <1>7. c \in Version /\ OnChain(c, top) /\ Born(c) /\ Sorted(c) /\ c.id = o
    BY <1>6 DEF VersionsIn, TableOn, SoundIn
  <1> HIDE DEF c
  <1>8. 1 \in DOMAIN c.transitions /\ x \in Ancestors[top] /\ First(c).slot = Slot[x]
    <2>1. 1 \in DOMAIN c.transitions /\ x \in Ancestors[top]
      BY <1>7, FirstFacts
    <2> QED
      BY <1>7, <2>1 DEF OnChain, First
  <1>9. PICK k \in DOMAIN TxsOf[x] : TxsOf[x][k] = o.tx
    BY <1>7 DEF Born
  <1> HIDE DEF x
  <1>10. x = a
    <2>1. TxsOf[x][k] = TxsOf[a][j]
      BY <1>4, <1>9
    <2> QED
      BY <1>3, <1>5, <1>8, <1>9, <2>1, OnePosition
  <1>11. Slot[a] <= Slot[p]
    BY <1>1, <1>5, SlotAssumption
  <1>12. /\ d.id = o
         /\ DOMAIN d.transitions = {i \in DOMAIN c.transitions : c.transitions[i].slot <= Slot[p]}
    BY <1>1, <1>7, TruncateIsBeginning
  <1> HIDE DEF d
  <1>13. 1 \in DOMAIN d.transitions
    BY <1>8, <1>10, <1>11, <1>12 DEF First
  <1>14. d.transitions # <<>>
    BY <1>13
  <1>15. s \in DOMAIN RollbackDb(table, Slot[p]) /\ RollbackDb(table, Slot[p])[s] = d
    BY <1>14 DEF RollbackDb, d, c
  <1> QED
    BY <1>12, <1>15

(***************************************************************************)
(* Every step keeps what is covered.                                       *)
(***************************************************************************)

\* Nothing is promised of an empty database.
LEMMA InitCovers ==
  ASSUME Init
  PROVE  CoverInv
  BY DEF Init, CoverInv, ChainCovered, BlockCovered, SavedIsFollowed, ResumePointCovered

\* A stop changes nothing that is on disk.
LEMMA CrashCovers ==
  ASSUME CoverInv, Crash
  PROVE  CoverInv'
  <1>1. wpc' = "down" /\ UNCHANGED <<db, lastSlot, lastHash, followed>>
    BY DEF Crash, disk
  <1>2. ResumePointCovered'
    BY <1>1, IdsAre DEF CoverInv, ResumePointCovered, IndexedIds
  <1> QED
    BY <1>1, <1>2 DEF CoverInv, ChainCovered, BlockCovered, SavedIsFollowed

\* The point to go on from is the saved one, below which nothing is missed, or
\* one before anything is created.
LEMMA RestartCovers ==
  ASSUME ForksReturn = FALSE, AllInv, CoverInv, Restart
  PROVE  CoverInv'
  <1>1. UNCHANGED <<db, lastSlot, lastHash>>
    BY DEF Restart, disk
  <1>2. CASE (lastSlot = None) # (lastHash = None)
    <2>1. wpc' = "refused" /\ UNCHANGED followed
      BY <1>2 DEF Restart
    <2>2. ResumePointCovered'
      BY <1>1, <2>1, IdsAre DEF CoverInv, ResumePointCovered, IndexedIds
    <2> QED
      BY <2>1, <2>2 DEF CoverInv, ChainCovered, BlockCovered, SavedIsFollowed
  <1>3. CASE (lastSlot = None) = (lastHash = None)
    <2>1. wpc' = "resuming" /\ followed' \in ResumePoints
      BY <1>3 DEF Restart
    <2>2. \/ followed' = Origin
          \/ lastHash = None /\ followed' = Start
          \/ /\ lastHash # None /\ followed' = lastHash /\ Slot[lastHash] = lastSlot
             /\ lastHash \in Ancestors[followed]
      BY <2>1 DEF ResumePoints
    <2>3. Origin \in Ancestors[Start] /\ Start \in Ancestors[Start] /\ Ancestors[Origin] = {Origin}
      BY LedgerAssumption, AncestorFacts, AncestorsAssumption
    <2>4. Created(Origin) = {} /\ Created(Start) = {}
      BY <2>3, NothingBefore
    <2>5. ASSUME lastHash # None, followed' = lastHash, Slot[lastHash] = lastSlot,
                 lastHash \in Ancestors[followed]
          PROVE  Created(lastHash) \subseteq IndexedIds
      BY <2>5 DEF CoverInv, ResumePointCovered
    <2>6. Created(followed') \subseteq IdsIn(db)
      BY <2>2, <2>4, <2>5, IdsAre
    <2>7. ChainCovered'
      BY <1>1, <2>6 DEF ChainCovered, Created, ChainTxs
    <2>8. lastHash # None /\ lastHash \in Ancestors[followed'] =>
             Created(lastHash) \subseteq IdsIn(db) \/ followed' = lastHash
      BY <2>2, <2>3, <2>4
    <2>9. ResumePointCovered'
      BY <1>1, <2>6, <2>8, IdsAre DEF ResumePointCovered
    <2> QED
      BY <2>1, <2>7, <2>9 DEF CoverInv, BlockCovered, SavedIsFollowed
  <1> QED
    BY <1>2, <1>3

\* A block is handled on top of a chain that is covered.
LEMMA HandleBlockCovers ==
  ASSUME AllInv, CoverInv, HandleBlock
  PROVE  CoverInv'
  <1>1. /\ followed' \in Block \ {Origin} /\ Parent[followed'] = followed
        /\ at' = 0 /\ wpc = "idle" /\ wpc' = "block"
        /\ UNCHANGED <<db, lastSlot, lastHash>>
    BY DEF HandleBlock, disk
  <1>2. followed \in Block /\ (lastHash # None => lastHash \in Ancestors[followed])
    BY <1>1, DbFacts DEF AllInv, IInv, SavedFits
  <1>3. Ancestors[followed'] = {followed'} \cup Ancestors[followed]
    BY <1>1, <1>2, AncestorFacts
  <1>4. ResumePointCovered'
    BY <1>1, <1>2, IdsAre DEF CoverInv, ResumePointCovered
  <1>5. Created(followed) \subseteq IdsIn(db)
    BY <1>1 DEF CoverInv, ChainCovered
  <1>6. ASSUME NEW a \in Ancestors[followed'] \ Ancestors[Start], NEW j \in DOMAIN TxsOf[a],
               a # followed' \/ j <= 0, Moved(TxsOf[a][j]) = {},
               NEW o \in Contracts(TxsOf[a][j])
        PROVE  o \in IdsIn(db)
    <2>1. TxsOf[followed'] \in Seq(Tx)
      BY <1>1, LedgerAssumption
    <2>2. a # followed'
      BY <1>6, <2>1
    <2>3. o \in Created(followed)
      BY <1>3, <1>6, <2>2, InCreated
    <2> QED
      BY <1>5, <2>3
  <1>7. BlockCovered'
    BY <1>1, <1>6 DEF BlockCovered, StoredFrom
  <1> QED
    BY <1>1, <1>4, <1>7 DEF CoverInv, ChainCovered, SavedIsFollowed

\* A transaction that moves no contract has all it creates added.
LEMMA ReadTransactionCovers ==
  ASSUME AllInv, HistoryInv, HistoryInv', CoverInv, ReadTransaction
  PROVE  CoverInv'
  <1> DEFINE t == TxsOf[followed][at + 1]
             es == EventsOf(t, followed, at)
  <1>1. /\ UNCHANGED <<followed, db, lastSlot, lastHash>> /\ at' = at + 1
        /\ wpc = "block" /\ todo = <<>> /\ at < Len(TxsOf[followed])
        /\ wpc' = "panicked" \/ (wpc' = "block" /\ todo' = es)
    BY DEF ReadTransaction, disk
  <1>2. wpc' = "block" /\ todo' = es
    BY <1>1 DEF HistoryInv, NoPanic
  <1>3. /\ followed \in Block /\ TxsOf[followed] \in Seq(Tx) /\ at \in Nat
    BY <1>1, DbFacts, LedgerAssumption DEF AllInv, IInv, PositionFits
  <1>4. at + 1 \in DOMAIN TxsOf[followed] /\ t \in Tx
    BY <1>1, <1>3
  <1>5. Len(Outputs[t]) \in Nat
    BY <1>4, LedgerAssumption
  <1> HIDE DEF t, es
  <1>6. ASSUME Moved(t) = {}, NEW o \in Contracts(t)
        PROVE  o \in Pending'
    <2>1. ConsumedInputs(t) = {}
      <3> SUFFICES ASSUME NEW n \in ConsumedInputs(t) PROVE FALSE
        OBVIOUS
      <3>1. Inputs[t] \in Seq(OutRef)
        BY <1>4, LedgerAssumption
      <3>2. Inputs[t][n] \in DOMAIN refs /\ Inputs[t][n] \in Elements(Inputs[t])
        BY <3>1 DEF ConsumedInputs, Elements
      <3>3. Inputs[t][n] \in Moved(t)
        BY <3>2 DEF Moved, HistoryInv, RefsAreContractOutputs
      <3> QED
        BY <1>6, <3>3
    <2>2. Additions(es, t, followed, at)
      <3>1. ASSUME Steps(es, t, followed) PROVE FALSE
        <4>1. PICK l \in Nat \ {0} : \E f \in [1..l -> ConsumedInputs(t)] : TRUE
          BY <3>1 DEF Steps
        <4>2. 1 \in 1..l
          BY <4>1
        <4> QED
          BY <2>1, <4>1, <4>2
      <3> QED
        BY <1>4, <3>1, EventsOfFacts DEF es
    <2>3. PICK l \in Nat : \E f \in [1..l -> Readable(t)] :
             /\ \A x, y \in 1..l : x # y => f[x] # f[y]
             /\ \A p \in Readable(t) : \E i \in 1..l : f[i] = p
             /\ es = [k \in 1..l |-> AddEvent(t, followed, at, f[k] - 1)]
      BY <2>2 DEF Additions
    <2>4. PICK f \in [1..l -> Readable(t)] :
             /\ \A p \in Readable(t) : \E i \in 1..l : f[i] = p
             /\ es = [k \in 1..l |-> AddEvent(t, followed, at, f[k] - 1)]
      BY <2>3
    <2>5. PICK i \in MarloweOutputs(t) : o = [tx |-> t, index |-> i] /\ Outputs[t][i + 1] # "bad"
      BY <1>6 DEF Contracts
    <2>6. i + 1 \in Readable(t) /\ (i + 1) - 1 = i
      <3>1. i \in 0..Len(Outputs[t]) - 1 /\ Outputs[t][i + 1] # "other"
        BY <2>5 DEF MarloweOutputs
      <3>2. i + 1 \in 1..Len(Outputs[t]) /\ (i + 1) - 1 = i
        BY <1>5, <3>1
      <3> QED
        BY <2>5, <3>1, <3>2 DEF Readable
    <2>7. PICK k \in 1..l : f[k] = i + 1
      BY <2>4, <2>6
    <2>8. k \in DOMAIN todo' /\ todo'[k] = AddEvent(t, followed, at, i)
      BY <1>2, <2>4, <2>6, <2>7
    <2>9. todo'[k].kind = "Add" /\ todo'[k].contract.id = o
      BY <2>5, <2>8 DEF AddEvent
    <2> QED
      BY <2>8, <2>9 DEF Pending, Adds
  <1>7. ASSUME NEW a \in Ancestors[followed] \ Ancestors[Start], NEW j \in DOMAIN TxsOf[a],
               a # followed \/ j <= at + 1
        PROVE  StoredFrom(TxsOf[a][j], IdsIn(db) \cup Pending')
    <2>1. CASE a # followed \/ j <= at
      <3>1. StoredFrom(TxsOf[a][j], IdsIn(db) \cup Pending)
        BY <1>1, <2>1 DEF CoverInv, BlockCovered
      <3>2. Pending = {}
        BY <1>1 DEF Pending, Adds
      <3> QED
        BY <3>1, <3>2 DEF StoredFrom
    <2>2. CASE a = followed /\ ~(j <= at)
      <3>1. j = at + 1
        BY <1>3, <1>7, <2>2
      <3> QED
        BY <1>6, <2>2, <3>1 DEF StoredFrom, t
    <2> QED
      BY <2>1, <2>2
  <1>8. BlockCovered'
    BY <1>1, <1>7 DEF BlockCovered
  <1>9. ResumePointCovered'
    BY <1>1, IdsAre DEF CoverInv, ResumePointCovered
  <1> QED
    BY <1>2, <1>8, <1>9 DEF CoverInv, ChainCovered, SavedIsFollowed

\* Writing a version loses no contract and gains the one it is of.
LEMMA ApplyIds ==
  ASSUME LedgerRules, AllInv, HistoryInv, Apply
  PROVE  /\ wpc' = "block" /\ Head(todo).contract.id \in IdsIn(db')
         /\ IdsIn(db) \subseteq IdsIn(db')
  <1> DEFINE c == Head(todo).contract
             s == c.short
  <1>1. wpc' = "block" /\ db' = Put(db, s, c) /\ (s \in DOMAIN db => c.id = db[s].id)
    <2>1. CASE PlannedAdds
      BY <2>1, ApplyAdds DEF WritesNew
    <2>2. CASE PlannedSteps
      <3>1. PICK f \in [DOMAIN todo -> Nat] :
               /\ \A j, k \in DOMAIN todo : j # k => f[j] # f[k]
               /\ \A k \in DOMAIN todo :
                     /\ f[k] \in ConsumedInputs(Current)
                     /\ todo[k].kind # "Add"
                     /\ todo[k].contract = Stepped(db[refs[Inputs[Current][f[k]]].short],
                                                   Current, followed, f[k])
        BY <2>2 DEF PlannedSteps
      <3>2. WritesStep(c, f[1], Inputs[Current][f[1]]) /\ wpc' = "block"
        BY <3>1, ApplySteps
      <3> HIDE DEF c
      <3> QED
        BY <3>2 DEF WritesStep
    <2>3. Working
      BY DEF Apply, Working
    <2> QED
      BY <2>1, <2>2, <2>3 DEF HistoryInv, Planned
  <1> HIDE DEF c, s
  <1>2. /\ DOMAIN db' = DOMAIN db \cup {s} /\ db'[s] = c
        /\ \A r \in DOMAIN db : r # s => db'[r] = db[r]
    BY <1>1 DEF Put
  <1>3. \A r \in DOMAIN db : r \in DOMAIN db' /\ db'[r].id = db[r].id
    BY <1>1, <1>2
  <1>4. IdsIn(db) \subseteq IdsIn(db')
    BY <1>3 DEF IdsIn
  <1>5. c.id \in IdsIn(db')
    BY <1>2 DEF IdsIn
  <1> QED
    BY <1>1, <1>4, <1>5 DEF c

\* What is applied is no longer pending but stored.
LEMMA ApplyCovers ==
  ASSUME LedgerRules, AllInv, HistoryInv, CoverInv, Apply
  PROVE  CoverInv'
  <1>1. /\ UNCHANGED <<followed, at, lastSlot, lastHash>> /\ wpc = "block"
        /\ \A k \in DOMAIN todo : k # 1 => k - 1 \in DOMAIN todo' /\ todo'[k - 1] = todo[k]
        /\ Head(todo) = todo[1]
    BY ApplyControl
  <1>2. /\ wpc' = "block" /\ todo[1].contract.id \in IdsIn(db')
        /\ IdsIn(db) \subseteq IdsIn(db')
    BY <1>1, ApplyIds
  <1>3. Pending \subseteq IdsIn(db') \cup Pending'
    <2> SUFFICES ASSUME NEW k \in Adds
                 PROVE  todo[k].contract.id \in IdsIn(db') \cup Pending'
      BY DEF Pending
    <2>1. CASE k = 1
      BY <1>2, <2>1
    <2>2. CASE k # 1
      <3>1. k \in DOMAIN todo /\ todo[k].kind = "Add"
        BY DEF Adds
      <3>2. k - 1 \in DOMAIN todo' /\ todo'[k - 1] = todo[k]
        BY <1>1, <2>2, <3>1
      <3>3. k - 1 \in Adds'
        BY <3>1, <3>2 DEF Adds
      <3> QED
        BY <3>2, <3>3 DEF Pending
    <2> QED
      BY <2>1, <2>2
  <1>4. BlockCovered'
    <2>1. ASSUME NEW a \in Ancestors[followed] \ Ancestors[Start], NEW j \in DOMAIN TxsOf[a],
                 a # followed \/ j <= at
          PROVE  StoredFrom(TxsOf[a][j], IdsIn(db') \cup Pending')
      <3>1. StoredFrom(TxsOf[a][j], IdsIn(db) \cup Pending)
        BY <1>1, <2>1 DEF CoverInv, BlockCovered
      <3> QED
        BY <1>2, <1>3, <3>1 DEF StoredFrom
    <2>2. IdsIn(db)' = IdsIn(db')
      BY DEF IdsIn
    <2> QED
      BY <1>1, <2>1, <2>2 DEF BlockCovered
  <1>5. ResumePointCovered'
    BY <1>1, <1>2, IdsAre DEF CoverInv, ResumePointCovered
  <1> QED
    BY <1>2, <1>4, <1>5 DEF CoverInv, ChainCovered, SavedIsFollowed

\* After the last transaction the chain with the block is covered.
LEMMA SaveHashCovers ==
  ASSUME AllInv, CoverInv, SaveHash
  PROVE  CoverInv'
  <1>1. /\ UNCHANGED <<followed, db>> /\ lastHash' = followed /\ wpc = "block"
        /\ wpc' = "saving" /\ todo = <<>> /\ at = Len(TxsOf[followed])
    BY DEF SaveHash
  <1>2. Pending = {}
    BY <1>1 DEF Pending, Adds
  <1>3. followed \in Block /\ TxsOf[followed] \in Seq(Tx)
    BY <1>1, DbFacts, LedgerAssumption
  <1>4. ASSUME NEW o \in Created(followed)
        PROVE  o \in IdsIn(db)
    <2>1. PICK a \in Ancestors[followed] \ Ancestors[Start] : \E j \in DOMAIN TxsOf[a] :
             Moved(TxsOf[a][j]) = {} /\ o \in Contracts(TxsOf[a][j])
      BY InCreated
    <2>2. PICK j \in DOMAIN TxsOf[a] : Moved(TxsOf[a][j]) = {} /\ o \in Contracts(TxsOf[a][j])
      BY <2>1
    <2>3. a # followed \/ j <= at
      BY <1>1, <1>3, <2>2
    <2>4. StoredFrom(TxsOf[a][j], IdsIn(db) \cup Pending)
      BY <1>1, <2>3 DEF CoverInv, BlockCovered
    <2> QED
      BY <1>2, <2>2, <2>4 DEF StoredFrom
  <1>5. ChainCovered' /\ ResumePointCovered'
    BY <1>1, <1>4, IdsAre DEF ChainCovered, ResumePointCovered, Created, ChainTxs, IdsIn
  <1> QED
    BY <1>1, <1>5 DEF CoverInv, BlockCovered, SavedIsFollowed

\* The other steps that save a position leave the chain and the database.
LEMMA SavingCovers ==
  ASSUME AllInv, CoverInv, SaveSlot \/ SaveRollbackSlot \/ SaveRollbackHash
  PROVE  CoverInv'
  <1>1. /\ UNCHANGED <<followed, db>> /\ wpc \in {"saving", "rolling", "rolled"}
        /\ wpc' \in {"idle", "rolled"}
        /\ \/ lastHash' = lastHash /\ lastSlot' = Slot[followed]
           \/ lastHash' \in {followed, None} /\ lastSlot' = lastSlot
    BY DEF SaveSlot, SaveRollbackSlot, SaveRollbackHash, AsPoint
  <1>2. followed \in Block /\ Created(followed) \subseteq IdsIn(db)
    BY <1>1, DbFacts DEF CoverInv, ChainCovered
  <1>3. ASSUME lastHash' # None, lastHash' \in Ancestors[followed], lastSlot' = Slot[lastHash']
        PROVE  lastHash' = followed
    <2>1. CASE lastHash' \in {followed, None}
      BY <1>3, <2>1
    <2>2. CASE lastHash' = lastHash /\ lastSlot' = Slot[followed]
      <3>1. PICK a \in Ancestors[followed] : a = lastHash'
        BY <1>3
      <3>2. Slot[a] = Slot[followed] /\ a \in Block
        BY <1>2, <1>3, <2>2, <3>1, AncestorFacts
      <3>3. a = followed \/ Slot[a] < Slot[followed]
        BY <1>2, StrictSlotAssumption
      <3>4. Slot[followed] \in Nat
        BY <1>2, SlotAssumption
      <3> QED
        BY <3>1, <3>2, <3>3, <3>4
    <2> QED
      BY <1>1, <2>1, <2>2
  <1>4. ChainCovered'
    BY <1>1, <1>2 DEF ChainCovered, Created, ChainTxs, IdsIn
  <1>5. ResumePointCovered'
    BY <1>1, <1>2, <1>3, IdsAre DEF ResumePointCovered
  <1> QED
    BY <1>1, <1>4, <1>5 DEF CoverInv, BlockCovered, SavedIsFollowed

\* A roll back to p, from a chain that is covered.
LEMMA RollbackContractsCovers ==
  ASSUME PositionRules, AllInv, CoverInv, NEW p \in Block, NEW top \in Block, p \in Ancestors[top],
         TableOn(db, top), followed \in Block, p \in Ancestors[followed],
         wpc \in {"idle", "resuming"},
         RollbackContracts(p), followed' = p, UNCHANGED <<lastSlot, lastHash>>
  PROVE  CoverInv'
  <1>1. db' = RollbackDb(db, Slot[p]) /\ wpc' = "rolling"
    BY DEF RollbackContracts
  <1>2. VersionsIn(db) /\ SoundIn(db)
    BY DEF AllInv, TypeInv, TablesTyped, StoreInv
  <1>3. p \in Ancestors[p] /\ Ancestors[p] \subseteq Ancestors[followed]
    BY AncestorFacts
  <1>4. ASSUME NEW q \in Ancestors[p], Created(q) \subseteq IdsIn(db)
        PROVE  Created(q) \subseteq IdsIn(db')
    BY <1>1, <1>2, <1>4, RollbackCovers
  <1>5. Created(p) \subseteq IdsIn(db)
    BY CreatedGrows DEF CoverInv, ChainCovered
  <1>6. Created(p) \subseteq IdsIn(db')
    BY <1>3, <1>4, <1>5
  <1>7. ChainCovered'
    BY <1>6 DEF ChainCovered, Created, ChainTxs, IdsIn
  <1>8. ASSUME lastHash # None, lastHash \in Ancestors[p], lastSlot = Slot[lastHash]
        PROVE  Created(lastHash) \subseteq IndexedIds'
    <2>1. PICK q \in Ancestors[p] : q = lastHash
      BY <1>8
    <2>2. Created(q) \subseteq IdsIn(db)
      BY <1>3, <1>8, <2>1, IdsAre DEF CoverInv, ResumePointCovered
    <2>3. Created(q) \subseteq IdsIn(db')
      BY <1>4, <2>2
    <2> QED
      BY <2>1, <2>3, IdsAre
  <1>9. ResumePointCovered'
    BY <1>8 DEF ResumePointCovered, Created, ChainTxs
  <1> QED
    BY <1>1, <1>7, <1>9 DEF CoverInv, BlockCovered, SavedIsFollowed

\* The roll backs of a connection and of a running worker.
LEMMA RollbacksCover ==
  ASSUME PositionRules, AllInv, CoverInv, HandleRollback \/ FirstRollback
  PROVE  CoverInv'
  <1>1. CASE HandleRollback
    <2>1. PICK p \in Ancestors[followed] : followed' = p /\ RollbackContracts(p)
      BY <1>1 DEF HandleRollback
    <2>2. wpc = "idle" /\ UNCHANGED <<lastSlot, lastHash>>
      BY <1>1 DEF HandleRollback
    <2>3. followed \in Block /\ TableOn(db, followed)
      BY <2>2, DbFacts
    <2>4. p \in Block
      BY <2>3, AncestorFacts
    <2> QED
      BY <2>1, <2>2, <2>3, <2>4, RollbackContractsCovers
  <1>2. CASE FirstRollback
    <2>1. /\ RollbackContracts(followed) /\ wpc = "resuming"
          /\ UNCHANGED <<followed, lastSlot, lastHash>>
      BY <1>2 DEF FirstRollback
    <2>2. PICK top \in Block : followed \in Ancestors[top] /\ TableOn(db, top)
      BY DEF AllInv, IInv, OneChain
    <2>3. PICK p \in Block : p = followed
      BY DEF AllInv, IInv, PositionFits
    <2>4. p \in Ancestors[top] /\ p \in Ancestors[followed] /\ RollbackContracts(p)
      BY <2>1, <2>2, <2>3, AncestorFacts
    <2> QED
      BY <2>1, <2>2, <2>3, <2>4, RollbackContractsCovers
  <1> QED
    BY <1>1, <1>2

\* Every step keeps the inductive invariant.
LEMMA CoverKept ==
  ASSUME LedgerRules, ForksReturn = FALSE, AllInv, HistoryInv, HistoryInv', CoverInv, [Next]_vars
  PROVE  CoverInv'
  <1>1. CASE UNCHANGED vars
    BY <1>1 DEF vars, CoverInv, ChainCovered, BlockCovered, SavedIsFollowed, ResumePointCovered,
                Created, ChainTxs, IdsIn, IndexedIds, Pending, Adds
  <1> QED
    BY <1>1, CrashCovers, RestartCovers, HandleBlockCovers, ReadTransactionCovers, ApplyCovers,
       SaveHashCovers, SavingCovers, RollbacksCover DEF Next, LedgerRules

\* The invariant holds if, besides, the node does not return to a chain that
\* the worker was rolled back from before the process stopped.
THEOREM CoverInvariance ==
  ASSUME LedgerRules, ForksReturn = FALSE
  PROVE  Spec => []CoverInv
  <1>1. Init => CoverInv
    BY InitCovers
  <1>2. /\ IInv /\ TypeInv /\ StoreInv /\ HistoryInv /\ HistoryInv' /\ CoverInv /\ [Next]_vars
        => CoverInv'
    BY CoverKept DEF AllInv
  <1>3. PositionRules
    BY DEF LedgerRules
  <1> QED
    BY <1>1, <1>2, <1>3, Invariance, TypesInvariance, StoreInvariance, HistoryInvariance, PTL
    DEF Spec

\* After every handled event each contract created on the chain followed is in
\* the database.
THEOREM NothingMissed ==
  ASSUME LedgerRules, ForksReturn = FALSE
  PROVE  Spec => []CreationsIndexed
  <1>1. CoverInv => CreationsIndexed
    BY IdsAre DEF CoverInv, ChainCovered, CreationsIndexed
  <1> QED
    BY <1>1, CoverInvariance, PTL

\* Wherever the process stops, going on from the saved point misses nothing.
THEOREM ResumingMissesNothing ==
  ASSUME LedgerRules, ForksReturn = FALSE
  PROVE  Spec => []ResumePointCovered
  <1>1. CoverInv => ResumePointCovered
    BY DEF CoverInv
  <1> QED
    BY <1>1, CoverInvariance, PTL

(***************************************************************************)
(* What is found before the first roll back and the first stop.            *)
(***************************************************************************)

\* Then every contract is found when it is moved, if it is moved once and
\* none was there before the start.
CalmRules == LedgerRules /\ ContractsMoveOnce(Block) /\ NoContractsUpTo(Start)

Calm == rollbacks = 0 /\ crashes = 0

\* The outputs transactions leave, and those that create contracts.
LeftBy(o, txs) == (\E t \in txs : o \in Contracts(t)) /\ \A t \in txs : o \notin Moved(t)
CreatedBy(o, txs) == \E t \in txs : Moved(t) = {} /\ o \in Contracts(t)

\* Before the first block there is nothing.
NothingYet ==
    Calm /\ wpc \in {"down", "refused", "resuming", "rolling", "rolled"} =>
        /\ DOMAIN db = {} /\ DOMAIN refs = {} /\ followed \in Ancestors[Start]
        /\ wpc \in {"down", "refused"} => lastHash = None

\* Between blocks, exactly what is left of the chain is found, and exactly
\* what is created is stored.
AllFound ==
    Calm /\ wpc \in {"idle", "saving"} =>
        \A o : /\ o \in DOMAIN refs <=> LeftBy(o, TxsUpTo(followed, Len(TxsOf[followed])))
               /\ o \in IdsIn(db) <=> CreatedBy(o, TxsUpTo(followed, Len(TxsOf[followed])))

\* The outputs the events still to be applied lead to.
Gained == {OutRefIfActive(todo[k].contract) : k \in DOMAIN todo}

\* In a block, so it is with what the current transaction moves and creates.
FoundNext ==
    Calm /\ wpc = "block" =>
        \A o \in OutRef :
            /\ LeftBy(o, TxsUpTo(followed, at)) <=>
                  (o \in DOMAIN refs /\ ~(Working /\ o \in Moved(Current))) \/ o \in Gained
            /\ CreatedBy(o, TxsUpTo(followed, at)) <=> o \in IdsIn(db) \cup Pending

\* What it moves and is still found will be stepped.
MovesLeft ==
    Calm /\ Working =>
        \A o \in DOMAIN refs : o \in Moved(Current) =>
            \E k \in DOMAIN todo : todo[k].contract.short = refs[o].short

CalmInv == NothingYet /\ AllFound /\ FoundNext /\ MovesLeft

\* What a transaction has was not moved by earlier ones, nor by itself.
LEMMA OutputsAreFresh ==
  ASSUME LedgerRules, NEW b \in Block, NEW k \in DOMAIN TxsOf[b],
         NEW o \in Contracts(TxsOf[b][k])
  PROVE  /\ \A u \in TxsUpTo(b, k - 1) : o \notin Moved(u)
         /\ o \notin Moved(TxsOf[b][k])
  <1> DEFINE t == TxsOf[b][k]
  <1>1. o.tx = t
    BY ContractTx
  <1>2. TxsOf[b] \in Seq(Tx) /\ k \in 1..Len(TxsOf[b]) /\ Len(TxsOf[b]) \in Nat
    BY LedgerAssumption
  <1>3. k - 1 \in 0..Len(TxsOf[b]) /\ k - 1 < k
    BY <1>2
  <1>4. t \notin TxsUpTo(b, k - 1)
    BY <1>3, NotUpTo DEF LedgerRules
  <1>5. o \notin Moved(t)
    <2>1. \A p \in Moved(t) : p.tx \in TxsUpTo(b, k - 1)
      BY DEF LedgerRules, InputsAreEarlier
    <2> QED
      BY <1>1, <1>4, <2>1
  <1>6. ASSUME NEW u \in TxsUpTo(b, k - 1), o \in Moved(u)
        PROVE  FALSE
    <2>1. PICK a \in Ancestors[b] : \E j \in DOMAIN TxsOf[a] :
             TxsOf[a][j] = u /\ (a # b \/ j <= k - 1)
      BY <1>3, UpToFacts
    <2>2. PICK j \in DOMAIN TxsOf[a] : TxsOf[a][j] = u /\ (a # b \/ j <= k - 1)
      BY <2>1
    <2>3. a \in Block /\ b \in Ancestors[b]
      BY AncestorFacts
    <2>4. j \in 1..Len(TxsOf[a]) /\ Len(TxsOf[a]) \in Nat
      <3>1. TxsOf[a] \in Seq(Tx)
        BY <2>3, LedgerAssumption
      <3> QED
        BY <2>2, <3>1
    <2>5. j - 1 \in 0..Len(TxsOf[a])
      BY <2>4
    <2>6. t \in TxsUpTo(a, j - 1)
      <3>1. \A p \in Moved(TxsOf[a][j]) : p.tx \in TxsUpTo(a, j - 1)
        BY <2>3 DEF LedgerRules, InputsAreEarlier
      <3> QED
        BY <1>1, <1>6, <2>2, <3>1
    <2>7. PICK x \in Ancestors[a] : \E i \in DOMAIN TxsOf[x] :
             TxsOf[x][i] = t /\ (x # a \/ i <= j - 1)
      BY <2>3, <2>5, <2>6, UpToFacts
    <2>8. PICK i \in DOMAIN TxsOf[x] : TxsOf[x][i] = t /\ (x # a \/ i <= j - 1)
      BY <2>7
    <2>9. x \in Ancestors[b]
      BY <2>3, AncestorFacts
    <2>10. x = b /\ i = k
      BY <2>3, <2>8, <2>9, OnePosition DEF LedgerRules
    <2>11. a = b
      <3>1. a # b => Slot[a] < Slot[b] /\ Slot[b] < Slot[a]
        BY <2>3, <2>10, StrictSlotAssumption
      <3> QED
        BY <2>3, <3>1, SlotAssumption
    <2> QED
      BY <1>2, <2>2, <2>4, <2>8, <2>10, <2>11
  <1> QED
    BY <1>5, <1>6

\* Transaction t after others.
LEMMA LeftByNext ==
  ASSUME LedgerRules, NEW b \in Block, NEW k \in DOMAIN TxsOf[b], NEW o
  PROVE  LET t == TxsOf[b][k]
             before == TxsUpTo(b, k - 1)
             upto == TxsUpTo(b, k)
         IN  /\ LeftBy(o, upto) <=> (LeftBy(o, before) /\ o \notin Moved(t)) \/ o \in Contracts(t)
             /\ CreatedBy(o, upto) <=>
                   CreatedBy(o, before) \/ (Moved(t) = {} /\ o \in Contracts(t))
  <1> DEFINE t == TxsOf[b][k]
             before == TxsUpTo(b, k - 1)
             upto == TxsUpTo(b, k)
  <1>1. TxsOf[b] \in Seq(Tx) /\ k \in 1..Len(TxsOf[b])
    BY LedgerAssumption
  <1>2. k - 1 \in Nat /\ (k - 1) + 1 = k
    BY <1>1
  <1>3. ASSUME NEW u
        PROVE  u \in upto <=> u \in before \/ u = t
    <2>1. u \in TxsUpTo(b, (k - 1) + 1) <=> u \in TxsUpTo(b, k - 1) \/ u = TxsOf[b][(k - 1) + 1]
      BY <1>2, UpToNext
    <2> QED
      BY <1>2, <2>1
  <1>4. o \in Contracts(t) => o \notin Moved(t) /\ \A u \in before : o \notin Moved(u)
    BY OutputsAreFresh
  <1> HIDE DEF t, before, upto
  <1>5. LeftBy(o, upto) <=> (LeftBy(o, before) /\ o \notin Moved(t)) \/ o \in Contracts(t)
    BY <1>3, <1>4 DEF LeftBy
  <1>6. CreatedBy(o, upto) <=> CreatedBy(o, before) \/ (Moved(t) = {} /\ o \in Contracts(t))
    BY <1>3 DEF CreatedBy
  <1> QED
    BY <1>5, <1>6 DEF t, before, upto

\* A transaction moves nothing else than what the ones before have left.
LEMMA MovesAreLeft ==
  ASSUME CalmRules, NEW b \in Block, NEW k \in DOMAIN TxsOf[b], NEW o \in Moved(TxsOf[b][k])
  PROVE  LeftBy(o, TxsUpTo(b, k - 1))
  <1> DEFINE t == TxsOf[b][k]
  <1>1. o \in Contracts(o.tx) /\ o.tx \in TxsUpTo(b, k - 1)
    BY DEF Moved, CalmRules, LedgerRules, InputsAreEarlier
  <1>2. TxsOf[b] \in Seq(Tx) /\ k \in 1..Len(TxsOf[b]) /\ Len(TxsOf[b]) \in Nat
    BY LedgerAssumption
  <1>3. k - 1 \in 0..Len(TxsOf[b])
    BY <1>2
  <1>4. ASSUME NEW u \in TxsUpTo(b, k - 1), o \in Moved(u)
        PROVE  FALSE
    <2>1. PICK a \in Ancestors[b] : \E j \in DOMAIN TxsOf[a] :
             TxsOf[a][j] = u /\ (a # b \/ j <= k - 1)
      BY <1>3, UpToFacts
    <2>2. PICK j \in DOMAIN TxsOf[a] : TxsOf[a][j] = u /\ (a # b \/ j <= k - 1)
      BY <2>1
    <2>3. o \in Moved(TxsOf[a][j]) \cap Moved(TxsOf[b][k])
      BY <1>4, <2>2
    <2>4. a = b /\ j = k
      BY <2>3 DEF CalmRules, ContractsMoveOnce
    <2> QED
      BY <1>2, <2>2, <2>4
  <1> QED
    BY <1>1, <1>4 DEF LeftBy

\* Up to the start nothing is left and nothing is created.
LEMMA NothingToFind ==
  ASSUME CalmRules, NEW p \in Ancestors[Start], NEW o
  PROVE  /\ ~LeftBy(o, TxsUpTo(p, Len(TxsOf[p])))
         /\ ~CreatedBy(o, TxsUpTo(p, Len(TxsOf[p])))
  <1>1. Start \in Block
    BY LedgerAssumption
  <1>2. ASSUME NEW t \in TxsUpTo(p, Len(TxsOf[p]))
        PROVE  Contracts(t) = {}
    <2>1. PICK a \in Ancestors[p] : a \in Ancestors[Start] /\ t \in Elements(TxsOf[a])
      BY <1>1, UpToShorter
    <2> QED
      BY <2>1 DEF CalmRules, NoContractsUpTo
  <1> QED
    BY <1>2 DEF LeftBy, CreatedBy

\* Nothing is found at first.
LEMMA InitCalm ==
  ASSUME Init
  PROVE  CalmInv
  <1>1. Start \in Ancestors[Start]
    BY LedgerAssumption, AncestorFacts
  <1> QED
    BY <1>1 DEF Init, CalmInv, NothingYet, AllFound, FoundNext, MovesLeft, Working

\* Outside of a block only the tables matter.
LEMMA CalmOutside ==
  ASSUME wpc' # "block", NothingYet', AllFound'
  PROVE  CalmInv'
  BY DEF CalmInv, FoundNext, MovesLeft, Working

\* A disturbed state promises nothing.
LEMMA Disturbed ==
  ASSUME ~Calm'
  PROVE  CalmInv'
  BY DEF CalmInv, NothingYet, AllFound, FoundNext, MovesLeft

\* A stop and a roll back disturb.
LEMMA DisturbsCalm ==
  ASSUME AllInv, Crash \/ HandleRollback
  PROVE  CalmInv'
  <1>1. rollbacks \in Nat /\ crashes \in Nat
    BY BoundsAssumption DEF AllInv, TypeInv, ControlTyped
  <1>2. rollbacks' = rollbacks + 1 \/ crashes' = crashes + 1
    BY DEF Crash, HandleRollback
  <1>3. ~Calm'
    BY <1>1, <1>2 DEF Calm
  <1> QED
    BY <1>3, Disturbed

\* The first connection starts at the default point, or at the origin.
LEMMA RestartCalm ==
  ASSUME AllInv, CalmInv, Restart
  PROVE  CalmInv'
  <1>1. CASE ~Calm
    <2>1. ~Calm'
      BY <1>1 DEF Calm, Restart, bounds
    <2> QED
      BY <2>1, Disturbed
  <1>2. CASE Calm
    <2>1. /\ UNCHANGED <<db, lastHash>> /\ wpc = "down"
          /\ \/ wpc' = "refused" /\ UNCHANGED <<followed, refs>>
             \/ wpc' = "resuming" /\ followed' \in ResumePoints /\ refs' = <<>>
      BY DEF Restart, disk, memory
    <2>2. /\ DOMAIN db = {} /\ DOMAIN refs = {} /\ followed \in Ancestors[Start]
          /\ lastHash = None
      BY <1>2, <2>1 DEF CalmInv, NothingYet
    <2>3. Origin \in Ancestors[Start] /\ Start \in Ancestors[Start]
      BY LedgerAssumption, AncestorFacts
    <2>4. followed' \in Ancestors[Start] /\ DOMAIN refs' = {} /\ DOMAIN db' = {} /\ lastHash' = None
      BY <2>1, <2>2, <2>3 DEF ResumePoints
    <2>5. NothingYet' /\ AllFound'
      BY <2>1, <2>4 DEF NothingYet, AllFound
    <2> QED
      BY <2>1, <2>5, CalmOutside
  <1> QED
    BY <1>1, <1>2

\* Nor does the first roll back find anything.
LEMMA FirstRollbackCalm ==
  ASSUME AllInv, CalmInv, FirstRollback
  PROVE  CalmInv'
  <1>1. CASE ~Calm
    <2>1. ~Calm'
      BY <1>1 DEF Calm, FirstRollback, bounds
    <2> QED
      BY <2>1, Disturbed
  <1>2. CASE Calm
    <2>1. /\ db' = RollbackDb(db, Slot[followed]) /\ refs' = RetainRefs(refs, Slot[followed])
          /\ wpc = "resuming" /\ wpc' = "rolling" /\ UNCHANGED followed
      BY DEF FirstRollback, RollbackContracts
    <2>2. DOMAIN db = {} /\ DOMAIN refs = {} /\ followed \in Ancestors[Start]
      BY <1>2, <2>1 DEF CalmInv, NothingYet
    <2>3. DOMAIN db' = {} /\ DOMAIN refs' = {}
      BY <2>1, <2>2 DEF RollbackDb, RetainRefs
    <2>4. NothingYet' /\ AllFound'
      BY <2>1, <2>2, <2>3 DEF NothingYet, AllFound
    <2> QED
      BY <2>1, <2>4, CalmOutside
  <1> QED
    BY <1>1, <1>2

\* Nothing is what is to be found at the start.
LEMMA SaveRollbackCalm ==
  ASSUME CalmRules, AllInv, CalmInv, SaveRollbackSlot \/ SaveRollbackHash
  PROVE  CalmInv'
  <1>1. CASE ~Calm
    <2>1. ~Calm'
      BY <1>1 DEF Calm, SaveRollbackSlot, SaveRollbackHash, bounds
    <2> QED
      BY <2>1, Disturbed
  <1>2. CASE Calm
    <2>1. /\ UNCHANGED <<db, refs, followed>> /\ wpc \in {"rolling", "rolled"}
          /\ wpc' \in {"idle", "rolled"}
      BY DEF SaveRollbackSlot, SaveRollbackHash, memory
    <2>2. DOMAIN db = {} /\ DOMAIN refs = {} /\ followed \in Ancestors[Start]
      BY <1>2, <2>1 DEF CalmInv, NothingYet
    <2>3. IdsIn(db) = {}
      BY <2>2 DEF IdsIn
    <2>4. \A o : /\ ~LeftBy(o, TxsUpTo(followed, Len(TxsOf[followed])))
                 /\ ~CreatedBy(o, TxsUpTo(followed, Len(TxsOf[followed])))
      BY <2>2, NothingToFind
    <2>5. AllFound'
      BY <2>1, <2>2, <2>3, <2>4 DEF AllFound, IdsIn
    <2>6. NothingYet'
      BY <2>1, <2>2 DEF NothingYet
    <2> QED
      BY <2>1, <2>5, <2>6, CalmOutside
  <1> QED
    BY <1>1, <1>2

\* A block begins with what the chain has left.
LEMMA HandleBlockCalm ==
  ASSUME AllInv, CalmInv, HandleBlock
  PROVE  CalmInv'
  <1>1. /\ followed' \in Block \ {Origin} /\ Parent[followed'] = followed
        /\ at' = 0 /\ wpc = "idle" /\ wpc' = "block"
        /\ UNCHANGED <<db, refs, todo, rollbacks, crashes>>
    BY DEF HandleBlock, disk, memory, bounds
  <1>2. followed \in Block /\ todo = <<>>
    BY <1>1, DbFacts DEF AllInv, IInv, TodoFits
  <1>3. ASSUME NEW t
        PROVE  t \in TxsUpTo(followed', 0) <=> t \in TxsUpTo(followed, Len(TxsOf[followed]))
    BY <1>1, <1>2, UpToBlock
  <1>4. ASSUME Calm, NEW o
        PROVE  /\ LeftBy(o, TxsUpTo(followed', 0)) <=> o \in DOMAIN refs
               /\ CreatedBy(o, TxsUpTo(followed', 0)) <=> o \in IdsIn(db)
    <2>1. /\ o \in DOMAIN refs <=> LeftBy(o, TxsUpTo(followed, Len(TxsOf[followed])))
          /\ o \in IdsIn(db) <=> CreatedBy(o, TxsUpTo(followed, Len(TxsOf[followed])))
      BY <1>1, <1>4 DEF CalmInv, AllFound
    <2> QED
      BY <1>3, <2>1 DEF LeftBy, CreatedBy
  <1>5. Gained' = {} /\ Pending' = {} /\ ~Working' /\ IdsIn(db)' = IdsIn(db) /\ Calm' = Calm
    BY <1>1, <1>2 DEF Gained, Pending, Adds, Working, IdsIn, Calm
  <1>6. FoundNext'
    BY <1>1, <1>4, <1>5 DEF FoundNext
  <1>7. MovesLeft' /\ NothingYet' /\ AllFound'
    BY <1>1, <1>5 DEF MovesLeft, NothingYet, AllFound
  <1> QED
    BY <1>6, <1>7 DEF CalmInv

\* And ends with it.
LEMMA SaveHashCalm ==
  ASSUME AllInv, HistoryInv, CalmInv, SaveHash
  PROVE  CalmInv'
  <1>1. /\ UNCHANGED <<followed, db, refs, rollbacks, crashes>> /\ wpc = "block"
        /\ wpc' = "saving" /\ todo = <<>> /\ at = Len(TxsOf[followed])
    BY DEF SaveHash, memory, bounds
  <1>2. Gained = {} /\ Pending = {} /\ ~Working
    BY <1>1 DEF Gained, Pending, Adds, Working
  <1>3. \A o \in DOMAIN refs : o \in OutRef
    BY DEF AllInv, TypeInv, LookupsTyped
  <1>4. \A o \in IdsIn(db) : o \in OutRef
    <2>1. VersionsIn(db)
      BY DEF AllInv, TypeInv, TablesTyped
    <2> QED
      BY <2>1, VersionFacts DEF IdsIn, VersionsIn
  <1>5. ASSUME NEW o, o \notin OutRef, NEW txs, \A t \in txs : t \in Tx
        PROVE  ~LeftBy(o, txs) /\ ~CreatedBy(o, txs)
    <2>1. ASSUME NEW t \in Tx, o \in Contracts(t) PROVE FALSE
      <3>1. \E i \in MarloweOutputs(t) : o = [tx |-> t, index |-> i]
        BY <2>1 DEF Contracts
      <3>2. \A i \in MarloweOutputs(t) : i \in Nat
        <4>1. Len(Outputs[t]) \in Nat
          BY LedgerAssumption
        <4> QED
          BY <4>1 DEF MarloweOutputs
      <3> QED
        BY <1>5, <3>1, <3>2 DEF OutRef
    <2> QED
      BY <1>5, <2>1 DEF LeftBy, CreatedBy
  <1>6. \A t \in TxsUpTo(followed, Len(TxsOf[followed])) : t \in Tx
    <2>1. followed \in Block /\ TxsOf[followed] \in Seq(Tx)
      BY <1>1, DbFacts, LedgerAssumption
    <2>2. Len(TxsOf[followed]) \in 0..Len(TxsOf[followed])
      BY <2>1
    <2> SUFFICES ASSUME NEW t \in TxsUpTo(followed, Len(TxsOf[followed])) PROVE t \in Tx
      OBVIOUS
    <2>3. PICK a \in Ancestors[followed] : \E j \in DOMAIN TxsOf[a] : TxsOf[a][j] = t
      BY <2>1, <2>2, UpToFacts
    <2>4. a \in Block
      BY <2>1, AncestorFacts
    <2>5. TxsOf[a] \in Seq(Tx)
      BY <2>4, LedgerAssumption
    <2> QED
      BY <2>3, <2>5
  <1>7. ASSUME Calm, NEW o
        PROVE  /\ o \in DOMAIN refs <=> LeftBy(o, TxsUpTo(followed, Len(TxsOf[followed])))
               /\ o \in IdsIn(db) <=> CreatedBy(o, TxsUpTo(followed, Len(TxsOf[followed])))
    <2>1. CASE o \in OutRef
      BY <1>1, <1>2, <1>7, <2>1 DEF CalmInv, FoundNext
    <2>2. CASE o \notin OutRef
      BY <1>3, <1>4, <1>5, <1>6, <2>2
    <2> QED
      BY <2>1, <2>2
  <1>8. AllFound'
    BY <1>1, <1>7 DEF AllFound, Calm, IdsIn
  <1>9. NothingYet'
    BY <1>1 DEF NothingYet
  <1> QED
    BY <1>1, <1>8, <1>9, CalmOutside

\* Saving the slot changes nothing of it.
LEMMA SaveSlotCalm ==
  ASSUME CalmInv, SaveSlot
  PROVE  CalmInv'
  <1>1. /\ UNCHANGED <<followed, db, refs, rollbacks, crashes>> /\ wpc = "saving" /\ wpc' = "idle"
    BY DEF SaveSlot, memory, bounds
  <1>2. AllFound' /\ NothingYet'
    BY <1>1 DEF CalmInv, AllFound, NothingYet, Calm, IdsIn
  <1> QED
    BY <1>1, <1>2, CalmOutside

\* The outputs a step goes on with are all a transaction has.
LEMMA StepGains ==
  ASSUME NEW b \in Block, NEW j \in DOMAIN TxsOf[b], NEW t \in Tx,
         NEW n \in ConsumedInputs(t), StepsWell(t, b, n), MovesWell(t, b, j, n)
  PROVE  /\ StepEvent(t, b, n).kind # "Add"
         /\ StepEvent(t, b, n).contract.short = refs[Inputs[t][n]].short
         /\ \A o \in OutRef : o \in Contracts(t) <=>
               o = OutRefIfActive(StepEvent(t, b, n).contract)
  <1> DEFINE next == [tx |-> t, index |-> Inputs[t][n].index]
             c == StepEvent(t, b, n).contract
  <1>1. /\ StepEvent(t, b, n).kind \in {"Update", "Close"}
        /\ c.short = refs[Inputs[t][n]].short
        /\ OutRefIfActive(c) = IF MarloweOutputs(t) = {} THEN None ELSE next
        /\ MarloweOutputs(t) # {} => next \in Contracts(t)
    BY DEF StepsWell
  <1>2. \A i \in MarloweOutputs(t) : i = Inputs[t][n].index
    BY DEF MovesWell
  <1> HIDE DEF c
  <1>3. ASSUME NEW o \in OutRef
        PROVE  o \in Contracts(t) <=> o = OutRefIfActive(c)
    <2>1. o # None
      BY NoneAssumption
    <2>2. o \in Contracts(t) => o = next /\ MarloweOutputs(t) # {}
      BY <1>2 DEF Contracts
    <2> QED
      BY <1>1, <2>1, <2>2
  <1> QED
    BY <1>1, <1>3 DEF c

\* Events that add exactly what a transaction has.
AddsWhatItHas(es, t) ==
  /\ \A k \in DOMAIN es : es[k].kind = "Add"
  /\ \A k \in DOMAIN es : OutRefIfActive(es[k].contract) = es[k].contract.id
  /\ \A o : o \in Contracts(t) <=> \E k \in DOMAIN es : es[k].contract.id = o

\* What is planned for a transaction that moves no contract.
LEMMA ReadAdds ==
  ASSUME NEW b \in Block, NEW j \in DOMAIN TxsOf[b], NEW n \in Nat, n = j - 1,
         NEW es, Additions(es, TxsOf[b][j], b, n)
  PROVE  AddsWhatItHas(es, TxsOf[b][j])
  <1> DEFINE t == TxsOf[b][j]
  <1>1. t \in Tx
    BY LedgerAssumption
  <1>2. Len(Outputs[t]) \in Nat
    BY <1>1, LedgerAssumption
  <1>3. ASSUME NEW k \in Readable(t)
        PROVE  LET e == AddEvent(t, b, n, k - 1)
               IN  /\ e.kind = "Add" /\ OutRefIfActive(e.contract) = e.contract.id
                   /\ e.contract.id = [tx |-> t, index |-> k - 1]
                   /\ e.contract.id \in Contracts(t)
    <2> DEFINE e == AddEvent(t, b, n, k - 1)
    <2>1. /\ e.kind = "Add" /\ e.contract.id = [tx |-> t, index |-> k - 1]
          /\ Begins(e.contract, t, b)
      BY AddShape
    <2> HIDE DEF e, t
    <2>2. OutRefIfActive(e.contract) = e.contract.id /\ e.contract.id \in Contracts(t)
      BY <2>1 DEF Begins
    <2> QED
      BY <2>1, <2>2 DEF e
  <1>4. PICK l \in Nat : \E f \in [1..l -> Readable(t)] :
           /\ \A x, y \in 1..l : x # y => f[x] # f[y]
           /\ \A p \in Readable(t) : \E i \in 1..l : f[i] = p
           /\ es = [k \in 1..l |-> AddEvent(t, b, n, f[k] - 1)]
    BY DEF Additions
  <1>5. PICK f \in [1..l -> Readable(t)] :
           /\ \A p \in Readable(t) : \E i \in 1..l : f[i] = p
           /\ es = [k \in 1..l |-> AddEvent(t, b, n, f[k] - 1)]
    BY <1>4
  <1> HIDE DEF t
  <1>6. /\ DOMAIN es = 1..l
        /\ \A k \in 1..l : f[k] \in Readable(t) /\ es[k] = AddEvent(t, b, n, f[k] - 1)
    BY <1>5
  <1>7. ASSUME NEW k \in DOMAIN es
        PROVE  /\ es[k].kind = "Add" /\ OutRefIfActive(es[k].contract) = es[k].contract.id
               /\ es[k].contract.id \in Contracts(t)
    <2>1. PICK r \in Readable(t) : es[k] = AddEvent(t, b, n, r - 1)
      BY <1>6, <1>7
    <2> DEFINE e == AddEvent(t, b, n, r - 1)
    <2>2. /\ e.kind = "Add" /\ OutRefIfActive(e.contract) = e.contract.id
          /\ e.contract.id \in Contracts(t)
      BY <1>3
    <2> HIDE DEF e
    <2>3. es[k] = e
      BY <2>1 DEF e
    <2> QED
      BY <2>2, <2>3
  <1>8. ASSUME NEW o \in Contracts(t)
        PROVE  \E k \in DOMAIN es : es[k].contract.id = o
    <2>1. PICK i \in MarloweOutputs(t) : o = [tx |-> t, index |-> i] /\ Outputs[t][i + 1] # "bad"
      BY DEF Contracts
    <2>2. i \in 0..Len(Outputs[t]) - 1 /\ Outputs[t][i + 1] # "other"
      BY DEF MarloweOutputs
    <2>3. i + 1 \in 1..Len(Outputs[t]) /\ (i + 1) - 1 = i
      BY <1>2, <2>2
    <2>4. i + 1 \in Readable(t)
      BY <2>1, <2>2, <2>3 DEF Readable
    <2>5. PICK k \in 1..l : f[k] = i + 1
      BY <1>5, <2>4
    <2>6. es[k] = AddEvent(t, b, n, i)
      BY <1>6, <2>3, <2>5
    <2> QED
      BY <1>6, <2>1, <2>6 DEF AddEvent
  <1> QED
    BY <1>7, <1>8 DEF t, AddsWhatItHas

\* What a transaction moves is what it is found to consume, and what it has is
\* what its events lead to.
LEMMA ReadTransactionCalm ==
  ASSUME CalmRules, AllInv, HistoryInv, CalmInv, ReadTransaction
  PROVE  CalmInv'
  <1> DEFINE t == TxsOf[followed][at + 1]
             es == EventsOf(t, followed, at)
  <1>1. /\ UNCHANGED <<followed, db, refs>> /\ at' = at + 1
        /\ wpc = "block" /\ wpc' = "block" /\ todo = <<>> /\ todo' = es
        /\ followed \in Block /\ t \in Tx
        /\ at + 1 \in DOMAIN TxsOf[followed] /\ at \in Nat /\ (at + 1) - 1 = at
    BY ReadControl DEF CalmRules
  <1>2. \A n \in ConsumedInputs(t) :
           StepsWell(t, followed, n) /\ MovesWell(t, followed, at + 1, n)
    BY ReadControl DEF CalmRules
  <1>3. UNCHANGED <<rollbacks, crashes>>
    BY DEF ReadTransaction, bounds
  <1>4. RefsAreContractOutputs /\ \A o \in DOMAIN refs : o \in OutRef
    BY DEF HistoryInv, AllInv, TypeInv, LookupsTyped
  <1>5. Inputs[t] \in Seq(OutRef)
    BY <1>1, LedgerAssumption
  <1>6. Current' = t
    BY <1>1 DEF Current
  <1>7. IdsIn(db)' = IdsIn(db) /\ Calm' = Calm
    BY <1>1, <1>3 DEF IdsIn, Calm
  <1>8. Gained = {} /\ Pending = {} /\ ~Working
    BY <1>1 DEF Gained, Pending, Adds, Working
  <1>9. ASSUME Calm, NEW o \in OutRef
        PROVE  /\ LeftBy(o, TxsUpTo(followed, at)) <=> o \in DOMAIN refs
               /\ CreatedBy(o, TxsUpTo(followed, at)) <=> o \in IdsIn(db)
    BY <1>1, <1>8, <1>9 DEF CalmInv, FoundNext
  <1>10. ASSUME NEW o \in OutRef
         PROVE  /\ LeftBy(o, TxsUpTo(followed, at + 1)) <=>
                      \/ LeftBy(o, TxsUpTo(followed, at)) /\ o \notin Moved(t)
                      \/ o \in Contracts(t)
                /\ CreatedBy(o, TxsUpTo(followed, at + 1)) <=>
                      CreatedBy(o, TxsUpTo(followed, at)) \/ (Moved(t) = {} /\ o \in Contracts(t))
    BY <1>1, LeftByNext DEF CalmRules
  <1>11. \A o \in Moved(t) : o \in OutRef /\ LeftBy(o, TxsUpTo(followed, at))
    <2>1. \A o \in Moved(t) : o \in OutRef
      BY <1>5 DEF Moved, Elements
    <2>2. ASSUME NEW o \in Moved(t)
          PROVE  LeftBy(o, TxsUpTo(followed, at))
      <3>1. LeftBy(o, TxsUpTo(followed, (at + 1) - 1))
        BY <1>1, MovesAreLeft
      <3> QED
        BY <1>1, <3>1
    <2> QED
      BY <2>1, <2>2
  <1> HIDE DEF t, es
  <1>12. ASSUME NEW o \in Moved(t), o \in DOMAIN refs
         PROVE  \E n \in ConsumedInputs(t) : Inputs[t][n] = o
    BY <1>5, <1>12 DEF Moved, Elements, ConsumedInputs
  <1>13. ASSUME NEW n \in ConsumedInputs(t)
         PROVE  Inputs[t][n] \in Moved(t)
    <2>1. Inputs[t][n] \in DOMAIN refs /\ Inputs[t][n] \in Elements(Inputs[t])
      BY <1>5 DEF ConsumedInputs, Elements
    <2> QED
      BY <1>4, <2>1 DEF RefsAreContractOutputs, Moved
  <1>14. CASE Steps(es, t, followed)
    <2>1. PICK l \in Nat \ {0} : \E f \in [1..l -> ConsumedInputs(t)] :
             /\ \A i, j \in 1..l : i # j => f[i] # f[j]
             /\ \A p \in ConsumedInputs(t) : \E i \in 1..l : f[i] = p
             /\ es = [k \in 1..l |-> StepEvent(t, followed, f[k])]
      BY <1>14 DEF Steps
    <2>2. PICK f \in [1..l -> ConsumedInputs(t)] :
             /\ \A p \in ConsumedInputs(t) : \E i \in 1..l : f[i] = p
             /\ es = [k \in 1..l |-> StepEvent(t, followed, f[k])]
      BY <2>1
    <2>3. /\ DOMAIN todo' = 1..l /\ 1 \in 1..l
          /\ \A k \in 1..l : f[k] \in ConsumedInputs(t) /\ todo'[k] = StepEvent(t, followed, f[k])
      <3>1. /\ DOMAIN es = 1..l
            /\ \A k \in 1..l : f[k] \in ConsumedInputs(t) /\ es[k] = StepEvent(t, followed, f[k])
        BY <2>2
      <3>2. 1 \in 1..l
        BY <2>1
      <3> QED
        BY <1>1, <3>1, <3>2
    <2>4. ASSUME NEW k \in 1..l
          PROVE  /\ todo'[k].kind # "Add"
                 /\ todo'[k].contract.short = refs[Inputs[t][f[k]]].short
                 /\ \A o \in OutRef : o \in Contracts(t) <=> o = OutRefIfActive(todo'[k].contract)
      BY <1>1, <1>2, <2>3, StepGains
    <2>5. \A o \in OutRef : o \in Gained' <=> o \in Contracts(t)
      BY <2>3, <2>4 DEF Gained
    <2>6. Pending' = {}
      BY <2>3, <2>4 DEF Pending, Adds
    <2>7. Working'
      BY <1>1, <2>3 DEF Working
    <2>8. Moved(t) # {}
      BY <1>13, <2>3
    <2>9. FoundNext'
      BY <1>1, <1>6, <1>7, <1>9, <1>10, <2>5, <2>6, <2>7, <2>8 DEF FoundNext
    <2>10. MovesLeft'
      <3> SUFFICES ASSUME NEW o \in DOMAIN refs, o \in Moved(t)
                   PROVE  \E k \in DOMAIN todo' : todo'[k].contract.short = refs[o].short
        BY <1>1, <1>6 DEF MovesLeft
      <3>1. PICK n \in ConsumedInputs(t) : Inputs[t][n] = o
        BY <1>12
      <3>2. PICK k \in 1..l : f[k] = n
        BY <2>2
      <3> QED
        BY <2>3, <2>4, <3>1, <3>2
    <2> QED
      BY <1>1, <2>9, <2>10 DEF CalmInv, NothingYet, AllFound
  <1>15. CASE ConsumedInputs(t) = {} /\ Additions(es, t, followed, at)
    <2>1. /\ \A k \in DOMAIN todo' : /\ todo'[k].kind = "Add"
                                     /\ OutRefIfActive(todo'[k].contract) = todo'[k].contract.id
          /\ \A o : o \in Contracts(t) <=> \E k \in DOMAIN todo' : todo'[k].contract.id = o
      <3>1. Additions(es, TxsOf[followed][at + 1], followed, at)
        BY <1>15 DEF t
      <3>2. AddsWhatItHas(es, TxsOf[followed][at + 1])
        BY <1>1, <3>1, ReadAdds
      <3>3. AddsWhatItHas(es, t)
        BY <3>2 DEF t
      <3> QED
        BY <1>1, <3>3 DEF AddsWhatItHas
    <2>2. \A o : o \in Gained' <=> o \in Contracts(t)
      BY <2>1 DEF Gained
    <2>3. \A o : o \in Pending' <=> o \in Contracts(t)
      BY <2>1 DEF Pending, Adds
    <2>4. Calm => Moved(t) = {}
      BY <1>9, <1>11, <1>12, <1>15
    <2>5. FoundNext'
      BY <1>1, <1>6, <1>7, <1>9, <1>10, <2>2, <2>3, <2>4 DEF FoundNext
    <2>6. MovesLeft'
      BY <1>6, <1>7, <2>4 DEF MovesLeft
    <2> QED
      BY <1>1, <2>5, <2>6 DEF CalmInv, NothingYet, AllFound
  <1> QED
    BY <1>1, <1>14, <1>15, EventsOfFacts DEF es

\* A write that takes what it moves from the references, puts there what its
\* event leads to, and stores a contract only if it adds one, keeps the balance
\* between what is found and what is left.
LEMMA ApplyFound ==
  ASSUME AllInv, HistoryInv, CalmInv, Apply, wpc' = "block",
         NEW x, x = OutRefIfActive(todo[1].contract), x \notin Moved(Current),
         NEW gone, gone \in Moved(Current) \/ gone = None,
         \A o \in OutRef : o \in DOMAIN refs' <=> (o \in DOMAIN refs /\ o # gone) \/ o = x,
         \A o \in DOMAIN refs : o # gone /\ o # x => o \in DOMAIN refs' /\ refs'[o] = refs[o],
         \A o \in DOMAIN refs : o \in Moved(Current) /\ o # gone =>
            todo[1].contract.short # refs[o].short,
         \A o \in OutRef : o \in IdsIn(db') <=>
            o \in IdsIn(db) \/ (1 \in Adds /\ o = todo[1].contract.id)
  PROVE  CalmInv'
  <1>1. /\ UNCHANGED <<followed, at>> /\ wpc = "block" /\ todo # <<>> /\ 1 \in DOMAIN todo
        /\ \A k \in DOMAIN todo' : k + 1 \in DOMAIN todo /\ k + 1 # 1 /\ todo'[k] = todo[k + 1]
        /\ \A k \in DOMAIN todo : k # 1 => k - 1 \in DOMAIN todo' /\ todo'[k - 1] = todo[k]
        /\ Current \in Tx
    BY ApplyControl
  <1>2. UNCHANGED <<rollbacks, crashes>>
    BY DEF Apply, bounds
  <1>3. Current' = Current /\ Calm' = Calm /\ Working /\ IdsIn(db)' = IdsIn(db')
    BY <1>1, <1>2 DEF Current, Calm, Working, IdsIn
  <1>4. \A o \in Moved(Current) : o \in OutRef
    <2>1. Inputs[Current] \in Seq(OutRef)
      BY <1>1, LedgerAssumption
    <2> QED
      BY <2>1 DEF Moved, Elements
  <1>5. \A o : o \in Gained <=> o = x \/ o \in Gained'
    <2>1. ASSUME NEW k \in DOMAIN todo
          PROVE  OutRefIfActive(todo[k].contract) \in {x} \cup Gained'
      <3>1. CASE k = 1
        BY <3>1
      <3>2. CASE k # 1
        BY <1>1, <3>2 DEF Gained
      <3> QED
        BY <3>1, <3>2
    <2>2. ASSUME NEW k \in DOMAIN todo'
          PROVE  OutRefIfActive(todo'[k].contract) \in Gained
      BY <1>1 DEF Gained
    <2>3. x \in Gained
      BY <1>1 DEF Gained
    <2> QED
      BY <2>1, <2>2, <2>3 DEF Gained
  <1>6. \A o : o \in Pending <=> (1 \in Adds /\ o = todo[1].contract.id) \/ o \in Pending'
    <2>1. ASSUME NEW k \in Adds
          PROVE  (1 \in Adds /\ todo[k].contract.id = todo[1].contract.id)
                 \/ todo[k].contract.id \in Pending'
      <3>1. CASE k = 1
        BY <3>1
      <3>2. CASE k # 1
        <4>1. k - 1 \in Adds' /\ todo'[k - 1] = todo[k]
          BY <1>1, <3>2 DEF Adds
        <4> QED
          BY <4>1 DEF Pending
      <3> QED
        BY <3>1, <3>2
    <2>2. ASSUME NEW k \in Adds'
          PROVE  todo'[k].contract.id \in Pending
      <3>1. k + 1 \in Adds /\ todo'[k] = todo[k + 1]
        BY <1>1 DEF Adds
      <3> QED
        BY <3>1 DEF Pending
    <2>3. 1 \in Adds => todo[1].contract.id \in Pending
      BY DEF Pending
    <2> QED
      BY <2>1, <2>2, <2>3 DEF Pending
  <1>7. ASSUME Calm, NEW o \in DOMAIN refs, o \in Moved(Current), o # gone
        PROVE  \E k \in DOMAIN todo' : todo'[k].contract.short = refs[o].short
    <2>1. PICK k \in DOMAIN todo : todo[k].contract.short = refs[o].short
      BY <1>3, <1>7 DEF CalmInv, MovesLeft
    <2>2. k # 1
      BY <1>7, <2>1
    <2> QED
      BY <1>1, <2>1, <2>2
  <1>8. ASSUME Calm, NEW o \in OutRef
        PROVE  /\ LeftBy(o, TxsUpTo(followed, at)) <=>
                     (o \in DOMAIN refs' /\ ~(Working' /\ o \in Moved(Current))) \/ o \in Gained'
               /\ CreatedBy(o, TxsUpTo(followed, at)) <=> o \in IdsIn(db') \cup Pending'
    <2>1. /\ LeftBy(o, TxsUpTo(followed, at)) <=>
                (o \in DOMAIN refs /\ o \notin Moved(Current)) \/ o \in Gained
          /\ CreatedBy(o, TxsUpTo(followed, at)) <=> o \in IdsIn(db) \cup Pending
      BY <1>1, <1>3, <1>8 DEF CalmInv, FoundNext
    <2>2. o \in IdsIn(db) \cup Pending <=> o \in IdsIn(db') \cup Pending'
      BY <1>6
    <2>3. o # None
      BY NoneAssumption
    <2>4. ~Working' => todo' = <<>>
      BY DEF Working
    <2>5. o \in DOMAIN refs /\ o \in Moved(Current) /\ o # gone => Working'
      <3>1. todo' = <<>> => \A k \in DOMAIN todo' : FALSE
        OBVIOUS
      <3> QED
        BY <1>7, <1>8, <2>4, <3>1
    <2>6. (o \in DOMAIN refs /\ o \notin Moved(Current)) \/ o \in Gained <=>
             (o \in DOMAIN refs' /\ ~(Working' /\ o \in Moved(Current))) \/ o \in Gained'
      BY <1>5, <2>3, <2>5
    <2> QED
      BY <2>1, <2>2, <2>6
  <1>9. FoundNext'
    BY <1>1, <1>3, <1>8 DEF FoundNext
  <1>10. MovesLeft'
    <2> SUFFICES ASSUME Calm, NEW o \in DOMAIN refs', o \in Moved(Current)
                 PROVE  \E k \in DOMAIN todo' : todo'[k].contract.short = refs'[o].short
      BY <1>3 DEF MovesLeft
    <2>1. o \in DOMAIN refs /\ o # gone /\ o # x
      BY <1>4
    <2> QED
      BY <1>7, <2>1
  <1> QED
    BY <1>9, <1>10 DEF CalmInv, NothingYet, AllFound

\* The references of what is on the chain lead somewhere.
LEMMA MovedLead ==
  ASSUME LedgerRules, AllInv, HistoryInv, Apply, NEW o \in DOMAIN refs, o \in Moved(Current)
  PROVE  Leads(o)
  <1>1. followed \in Block /\ at \in DOMAIN TxsOf[followed] /\ Handled = TxsUpTo(followed, at - 1)
    BY ApplyControl
  <1>2. o.tx \in TxsUpTo(followed, at - 1)
    BY <1>1 DEF Current, LedgerRules, InputsAreEarlier
  <1> QED
    BY <1>1, <1>2 DEF HistoryInv, HandledLead

\* A new contract is found and stored.
LEMMA ApplyAddsCalm ==
  ASSUME CalmRules, AllInv, HistoryInv, CalmInv, Apply, PlannedAdds
  PROVE  CalmInv'
  <1> DEFINE c == Head(todo).contract
             entry == [slot |-> Slot[followed], short |-> c.short]
  <1>1. /\ Head(todo) = todo[1] /\ 1 \in DOMAIN todo
        /\ followed \in Block /\ at \in DOMAIN TxsOf[followed]
    BY ApplyControl
  <1>2. Head(todo).kind = "Add" /\ WritesNew(c) /\ wpc' = "block"
    BY ApplyAdds DEF CalmRules
  <1>3. 1 \in Adds /\ c = todo[1].contract
    BY <1>1, <1>2 DEF Adds
  <1> HIDE DEF c
  <1>4. /\ Begins(c, Current, followed) /\ c.short \notin DOMAIN db
        /\ db' = Put(db, c.short, c) /\ refs' = Put(refs, c.id, entry)
    BY <1>2 DEF WritesNew
  <1>5. c.id \in Contracts(Current) /\ OutRefIfActive(c) = c.id
    BY <1>4 DEF Begins
  <1>6. c.id \notin Moved(Current)
    BY <1>1, <1>5, OutputsAreFresh DEF Current, CalmRules
  <1>7. /\ DOMAIN refs' = DOMAIN refs \cup {c.id}
        /\ \A o \in DOMAIN refs : o # c.id => refs'[o] = refs[o]
    BY <1>4 DEF Put
  <1>8. /\ DOMAIN db' = DOMAIN db \cup {c.short} /\ db'[c.short] = c
        /\ \A s \in DOMAIN db : db'[s] = db[s]
    BY <1>4 DEF Put
  <1>9. \A o : o \in IdsIn(db') <=> o \in IdsIn(db) \/ o = c.id
    BY <1>8 DEF IdsIn
  <1>10. \A o \in DOMAIN refs : o \in Moved(Current) => c.short # refs[o].short
    BY <1>4, MovedLead DEF Leads, CalmRules
  <1>11. \A o \in DOMAIN refs : o \in OutRef /\ o # None
    BY NoneAssumption DEF AllInv, TypeInv, LookupsTyped
  <1>12. \A o \in OutRef : o # None
    BY NoneAssumption
  <1> QED
    BY <1>2, <1>3, <1>5, <1>6, <1>7, <1>9, <1>10, <1>11, <1>12, ApplyFound

\* A step replaces the reference to what it moves.
LEMMA ApplyStepsCalm ==
  ASSUME CalmRules, AllInv, HistoryInv, CalmInv, Apply, PlannedSteps
  PROVE  CalmInv'
  <1>1. PICK f \in [DOMAIN todo -> Nat] :
           \A k \in DOMAIN todo :
              /\ f[k] \in ConsumedInputs(Current)
              /\ todo[k].kind # "Add"
              /\ todo[k].contract = Stepped(db[refs[Inputs[Current][f[k]]].short],
                                            Current, followed, f[k])
    BY DEF PlannedSteps
  <1> DEFINE c == Head(todo).contract
             n == f[1]
             o == Inputs[Current][n]
             next == [tx |-> Current, index |-> o.index]
             entry == [slot |-> Slot[followed], short |-> c.short]
  <1>2. /\ c = todo[1].contract /\ 1 \in DOMAIN todo /\ Current \in Tx
        /\ followed \in Block /\ at \in DOMAIN TxsOf[followed] /\ RefsAreContractOutputs
    BY ApplyControl
  <1>3. WritesStep(c, n, o) /\ wpc' = "block"
    BY <1>1, ApplySteps DEF CalmRules
  <1>4. 1 \notin Adds
    BY <1>1, <1>2 DEF Adds
  <1>5. n \in ConsumedInputs(Current)
    BY <1>1, <1>2
  <1>6. o \in DOMAIN refs /\ o \in Moved(Current)
    <2>1. Inputs[Current] \in Seq(OutRef)
      BY <1>2, LedgerAssumption
    <2>2. o \in DOMAIN refs /\ o \in Elements(Inputs[Current])
      BY <1>5, <2>1 DEF ConsumedInputs, Elements
    <2> QED
      BY <1>2, <2>2 DEF RefsAreContractOutputs, Moved
  <1> HIDE DEF c, n, o, next
  <1>7. /\ c.short = refs[o].short /\ OutRefIfActive(db[c.short]) = o /\ c.short \in DOMAIN db
        /\ db' = Put(db, c.short, c) /\ c.id = db[c.short].id
        /\ MarloweOutputs(Current) = {} => OutRefIfActive(c) = None /\ refs' = Drop(refs, o)
        /\ MarloweOutputs(Current) # {} =>
              /\ next \in Contracts(Current) /\ OutRefIfActive(c) = next
              /\ refs' = Put(Drop(refs, o), next, entry)
    BY <1>3 DEF WritesStep, next
  <1>8. \A p \in OutRef : p # None
    BY NoneAssumption
  <1>9. \A p \in DOMAIN refs : p \in OutRef
    BY DEF AllInv, TypeInv, LookupsTyped
  <1>10. OutRefIfActive(c) \notin Moved(Current)
    <2>1. \A p \in Moved(Current) : p \in OutRef
      <3>1. Inputs[Current] \in Seq(OutRef)
        BY <1>2, LedgerAssumption
      <3> QED
        BY <3>1 DEF Moved, Elements
    <2>2. CASE MarloweOutputs(Current) = {}
      BY <1>7, <1>8, <2>1, <2>2
    <2>3. CASE MarloweOutputs(Current) # {}
      <3>1. next \in Contracts(TxsOf[followed][at])
        BY <1>7, <2>3 DEF Current
      <3>2. next \notin Moved(TxsOf[followed][at])
        BY <1>2, <3>1, OutputsAreFresh DEF CalmRules
      <3> QED
        BY <1>7, <2>3, <3>2 DEF Current
    <2> QED
      BY <2>2, <2>3
  <1>11. \A p \in OutRef : p \in DOMAIN refs' <=>
            (p \in DOMAIN refs /\ p # o) \/ p = OutRefIfActive(c)
    <2>1. CASE MarloweOutputs(Current) = {}
      BY <1>7, <1>8, <2>1 DEF Drop
    <2>2. CASE MarloweOutputs(Current) # {}
      BY <1>7, <2>2 DEF Drop, Put
    <2> QED
      BY <2>1, <2>2
  <1>12. \A p \in DOMAIN refs : p # o /\ p # OutRefIfActive(c) =>
            p \in DOMAIN refs' /\ refs'[p] = refs[p]
    <2>1. CASE MarloweOutputs(Current) = {}
      BY <1>7, <2>1 DEF Drop
    <2>2. CASE MarloweOutputs(Current) # {}
      BY <1>7, <2>2 DEF Drop, Put
    <2> QED
      BY <2>1, <2>2
  <1>13. /\ DOMAIN db' = DOMAIN db /\ db'[c.short] = c
         /\ \A s \in DOMAIN db : s # c.short => db'[s] = db[s]
    BY <1>7 DEF Put
  <1>14. \A p : p \in IdsIn(db') <=> p \in IdsIn(db)
    <2>1. \A s \in DOMAIN db : db'[s].id = db[s].id
      BY <1>7, <1>13
    <2> QED
      BY <1>13, <2>1 DEF IdsIn
  <1>15. ASSUME NEW p \in DOMAIN refs, p \in Moved(Current), p # o
         PROVE  c.short # refs[p].short
    BY <1>7, <1>15, MovedLead DEF Leads, CalmRules
  <1>16. c = todo[1].contract
    BY <1>2
  <1> QED
    BY <1>3, <1>4, <1>6, <1>10, <1>11, <1>12, <1>14, <1>15, <1>16, ApplyFound

\* Every write keeps the balance.
LEMMA ApplyCalm ==
  ASSUME CalmRules, AllInv, HistoryInv, CalmInv, Apply
  PROVE  CalmInv'
  <1>1. Working
    BY DEF Apply, Working
  <1> QED
    BY <1>1, ApplyAddsCalm, ApplyStepsCalm DEF HistoryInv, Planned

\* Every step keeps the inductive invariant.
LEMMA CalmKept ==
  ASSUME CalmRules, AllInv, HistoryInv, CalmInv, [Next]_vars
  PROVE  CalmInv'
  <1>1. CASE Next
    BY <1>1, DisturbsCalm, RestartCalm, FirstRollbackCalm, SaveRollbackCalm, HandleBlockCalm,
       ReadTransactionCalm, ApplyCalm, SaveHashCalm, SaveSlotCalm DEF Next
  <1>2. CASE UNCHANGED vars
    BY <1>2 DEF vars, CalmInv, NothingYet, AllFound, FoundNext, MovesLeft, Calm, Gained, Pending,
       Adds, Working, Current, IdsIn
  <1> QED
    BY <1>1, <1>2

\* What was before the start has no contract and moves none.
LEMMA NoneUpToStart ==
  ASSUME CalmRules, NEW a \in Ancestors[Start], NEW j \in DOMAIN TxsOf[a]
  PROVE  Contracts(TxsOf[a][j]) = {} /\ Moved(TxsOf[a][j]) = {}
  <1>1. Start \in Block /\ a \in Block /\ Ancestors[a] \subseteq Ancestors[Start]
    BY LedgerAssumption, AncestorFacts
  <1>2. \A p \in Ancestors[Start] : \A t \in Elements(TxsOf[p]) : Contracts(t) = {}
    BY DEF CalmRules, NoContractsUpTo
  <1>3. Contracts(TxsOf[a][j]) = {}
    BY <1>2 DEF Elements
  <1>4. ASSUME NEW o \in Moved(TxsOf[a][j])
        PROVE  FALSE
    <2>1. o \in Contracts(o.tx) /\ o.tx \in TxsUpTo(a, j - 1)
      BY <1>1 DEF Moved, CalmRules, LedgerRules, InputsAreEarlier
    <2>2. TxsOf[a] \in Seq(Tx)
      BY <1>1, LedgerAssumption
    <2>3. j - 1 \in 0..Len(TxsOf[a])
      BY <2>2
    <2>4. PICK p \in Ancestors[a] : \E i \in DOMAIN TxsOf[p] : TxsOf[p][i] = o.tx
      BY <1>1, <2>1, <2>3, UpToFacts
    <2>5. o.tx \in Elements(TxsOf[p])
      BY <2>4 DEF Elements
    <2> QED
      BY <1>1, <1>2, <2>1, <2>5
  <1> QED
    BY <1>3, <1>4

\* So that it makes no difference to what a chain leaves and creates.
LEMMA FromTheStart ==
  ASSUME CalmRules, NEW b \in Block, NEW o
  PROVE  /\ o \in Unspent(b) <=> LeftBy(o, TxsUpTo(b, Len(TxsOf[b])))
         /\ o \in Created(b) <=> CreatedBy(o, TxsUpTo(b, Len(TxsOf[b])))
  <1> DEFINE all == TxsUpTo(b, Len(TxsOf[b]))
             from == ChainTxs(b)
  <1>1. TxsOf[b] \in Seq(Tx)
    BY LedgerAssumption
  <1>2. Len(TxsOf[b]) \in 0..Len(TxsOf[b])
    BY <1>1
  <1>3. \A t : t \in from <=>
           \E a \in Ancestors[b] \ Ancestors[Start] : t \in Elements(TxsOf[a])
    BY Zenon DEF ChainTxs
  <1>4. \A t \in from : t \in all
    <2> SUFFICES ASSUME NEW t \in from PROVE t \in all
      OBVIOUS
    <2>1. PICK a \in Ancestors[b] : t \in Elements(TxsOf[a])
      BY <1>3
    <2>2. PICK j \in DOMAIN TxsOf[a] : t = TxsOf[a][j]
      BY <2>1 DEF Elements
    <2>3. a = b => j <= Len(TxsOf[b])
      BY <1>1, <2>2
    <2> QED
      BY <1>2, <2>2, <2>3, UpToFacts
  <1>5. ASSUME NEW t \in all, t \notin from
        PROVE  Contracts(t) = {} /\ Moved(t) = {}
    <2>1. PICK a \in Ancestors[b] : \E j \in DOMAIN TxsOf[a] : TxsOf[a][j] = t
      BY <1>2, UpToFacts
    <2>2. PICK j \in DOMAIN TxsOf[a] : TxsOf[a][j] = t
      BY <2>1
    <2>3. t \in Elements(TxsOf[a])
      BY <2>2 DEF Elements
    <2>4. a \in Ancestors[Start]
      BY <1>3, <1>5, <2>3
    <2> QED
      BY <2>2, <2>4, NoneUpToStart
  <1> HIDE DEF all, from
  <1>6. o \in Unspent(b) <=> LeftBy(o, from)
    <2> DEFINE had == UNION {Contracts(t) : t \in from}
               moved == UNION {Moved(t) : t \in from}
    <2>1. o \in had <=> \E t \in from : o \in Contracts(t)
      BY Zenon
    <2>2. o \in moved <=> \E t \in from : o \in Moved(t)
      BY Zenon
    <2>3. o \in Unspent(b) <=> o \in had /\ o \notin moved
      BY DEF Unspent, from
    <2> HIDE DEF had, moved
    <2> QED
      BY <2>1, <2>2, <2>3 DEF LeftBy
  <1>7. o \in Created(b) <=> CreatedBy(o, from)
    <2> DEFINE new == {u \in from : Moved(u) = {}}
    <2>1. o \in Created(b) <=> \E t \in new : o \in Contracts(t)
      BY Zenon DEF Created, from
    <2> QED
      BY <2>1 DEF CreatedBy
  <1>8. LeftBy(o, from) <=> LeftBy(o, all)
    BY <1>4, <1>5 DEF LeftBy
  <1>9. CreatedBy(o, from) <=> CreatedBy(o, all)
    BY <1>4, <1>5 DEF CreatedBy
  <1> QED
    BY <1>6, <1>7, <1>8, <1>9 DEF all

\* The balance between what is found and what is left holds before the first
\* roll back and the first stop of the process.
THEOREM CalmInvariance ==
  ASSUME CalmRules
  PROVE  Spec => []CalmInv
  <1>1. Init => CalmInv
    BY InitCalm
  <1>2. IInv /\ TypeInv /\ StoreInv /\ HistoryInv /\ CalmInv /\ [Next]_vars => CalmInv'
    BY CalmKept DEF AllInv
  <1>3. PositionRules /\ LedgerRules
    BY DEF CalmRules, LedgerRules
  <1> QED
    BY <1>1, <1>2, <1>3, Invariance, TypesInvariance, StoreInvariance, HistoryInvariance, PTL
    DEF Spec

\* Until then every unspent contract output of the chain is found by its
\* reference, no other output is, and the reference leads to the version that
\* stands for it, on every ledger whose contracts keep their output index and
\* move once.  (One that changes its index is found by a wrong reference.)
THEOREM UnspentAreFound ==
  ASSUME CalmRules
  PROVE  Spec => []LookupComplete
  <1>1. IInv /\ TypeInv /\ StoreInv /\ HistoryInv /\ CalmInv => LookupComplete
    <2> SUFFICES ASSUME IInv, TypeInv, StoreInv, HistoryInv, CalmInv, wpc = "idle", Calm
                 PROVE  /\ DOMAIN refs = Unspent(followed)
                        /\ \A o \in DOMAIN refs : Leads(o)
      BY DEF LookupComplete, Calm, Leads
    <2>1. followed \in Block
      BY DbFacts DEF AllInv
    <2>2. \A o : o \in DOMAIN refs <=> LeftBy(o, TxsUpTo(followed, Len(TxsOf[followed])))
      BY DEF CalmInv, AllFound
    <2>3. \A o : o \in DOMAIN refs <=> o \in Unspent(followed)
      BY <2>1, <2>2, FromTheStart
    <2>4. ASSUME NEW o \in DOMAIN refs
          PROVE  Leads(o)
      <3>1. PICK t \in TxsUpTo(followed, Len(TxsOf[followed])) : o \in Contracts(t)
        BY <2>2 DEF LeftBy
      <3>2. o.tx \in Handled
        BY <3>1, ContractTx DEF Handled, Done
      <3> QED
        BY <3>2 DEF HistoryInv, HandledLead
    <2> QED
      BY <2>3, <2>4
  <1>2. PositionRules /\ LedgerRules
    BY DEF CalmRules, LedgerRules
  <1> QED
    BY <1>1, <1>2, CalmInvariance, Invariance, TypesInvariance, StoreInvariance,
       HistoryInvariance, PTL

\* Until then, on the same ledgers, the contracts stored are those created on
\* the chain, and no step is taken for a new contract.
THEOREM NoPhantoms ==
  ASSUME CalmRules
  PROVE  Spec => []NoPhantomContract
  <1>1. IInv /\ TypeInv /\ StoreInv /\ CalmInv => NoPhantomContract
    <2> SUFFICES ASSUME IInv, TypeInv, StoreInv, CalmInv, wpc = "idle", Calm
                 PROVE  IndexedIds = Created(followed)
      BY DEF NoPhantomContract, Calm
    <2>1. followed \in Block
      BY DbFacts DEF AllInv
    <2>2. \A o : o \in IdsIn(db) <=> CreatedBy(o, TxsUpTo(followed, Len(TxsOf[followed])))
      BY DEF CalmInv, AllFound
    <2>3. \A o : o \in IdsIn(db) <=> o \in Created(followed)
      BY <2>1, <2>2, FromTheStart
    <2> QED
      BY <2>3, IdsAre
  <1>2. PositionRules /\ LedgerRules
    BY DEF CalmRules, LedgerRules
  <1> QED
    BY <1>1, <1>2, CalmInvariance, Invariance, TypesInvariance, StoreInvariance, PTL
=============================================================================
