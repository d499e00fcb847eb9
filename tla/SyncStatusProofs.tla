-------------------------- MODULE SyncStatusProofs --------------------------
(***************************************************************************)
(* Proofs about SyncStatus for every block tree and any number of replies: *)
(* what a report shows that is read between two stores, and that its       *)
(* window adds up.  The inductive invariant says which cells already hold  *)
(* the last reply and which still hold the one before; another one unrolls *)
(* the ring.                                                               *)
(***************************************************************************)
EXTENDS SyncStatus, SelectionProofs, SequenceTheorems

(***************************************************************************)
(* The inductive invariant.                                                *)
(***************************************************************************)

\* load().unwrap_or_default()
Value(c) == IF cell[c] = None THEN 0 ELSE cell[c]

\* A store.
Entry == Cells \X (Nat \cup {None})

Typed ==
    /\ transport \in {"N2N", "N2C"}
    /\ point \in Block /\ tip \in Block
    /\ before \in Block \X Block
    /\ forward \in BOOLEAN
    /\ replies \in Nat
    /\ cell \in [Cells -> Nat \cup {None}]
    /\ stores \in Seq(Entry)

\* Every value loaded is the one in its cell, unless a store came between.
SeenFits ==
    /\ seen \in Seq(Nat) /\ Len(seen) <= 4
    /\ disturbed \in BOOLEAN
    /\ ~disturbed => \A i \in DOMAIN seen : seen[i] = Value(Loads[i])

\* A reply goes on from the one before, on the chain of its tip.
ReplyFits ==
    /\ replies = 0 => stores = <<>> /\ ~forward /\ cell = [c \in Cells |-> None]
    /\ replies > 0 =>
          /\ point \in Ancestors[tip]
          /\ forward => point # Origin /\ Parent[point] = before[1]
          /\ ~forward => point \in Ancestors[before[1]]
    /\ replies > 1 => before[1] \in Ancestors[before[2]]

\* What is left of four stores.
Rest(a, b, c, d) == {<<a, b, c, d>>, <<b, c, d>>, <<c, d>>, <<d>>, <<>>}

\* Over TCP the stores are the rest of those of the last reply.
StoresFit ==
    transport = "N2N" =>
        LET tn == <<"tipNumber", Number(tip)>>
            ts == <<"tipSlot", Slot[tip]>>
            s == <<"slot", Slot[point]>>
        IN  IF forward THEN stores \in Rest(tn, ts, s, <<"number", Number(point)>>)
            ELSE IF point = Origin
            THEN stores \in Rest(tn, ts, <<"slot", None>>, <<"number", None>>)
            ELSE stores \in Rest(s, <<"number", None>>, tn, ts)

\* Over TCP the number of the block is not above that of the tip, except in
\* the middle of a roll back to the origin.
NumbersFit ==
    transport = "N2N" =>
        /\ (stores = <<>> \/ point # Origin) /\ cell["number"] # None =>
              cell["tipNumber"] # None /\ cell["number"] <= cell["tipNumber"]
        /\ (stores = <<>> \/ forward) /\ cell["number"] # None =>
              cell["number"] <= Number(point)
        /\ forward /\ Len(stores) <= 3 => cell["tipNumber"] = Number(tip)
        /\ ~forward /\ point # Origin /\ Len(stores) <= 2 => cell["number"] = None
        /\ ~forward /\ stores = <<>> => cell["number"] = None

\* Over TCP the slots are those of the last reply once stored, and those of
\* the reply before until then.
OldSlot == IF forward \/ point = Origin THEN Len(stores) >= 2 ELSE Len(stores) = 4
OldTip == IF forward \/ point = Origin THEN Len(stores) >= 3 ELSE Len(stores) >= 1

SlotsFit ==
    transport = "N2N" =>
        /\ replies > 0 /\ ~OldSlot => Value("slot") = Slot[point]
        /\ replies > 0 /\ ~OldTip => Value("tipSlot") = Slot[tip]
        /\ replies > 1 /\ OldSlot => Value("slot") = Slot[before[1]]
        /\ replies > 1 /\ OldTip => Value("tipSlot") = Slot[before[2]]

IInv == Typed /\ SeenFits /\ ReplyFits /\ StoresFit /\ NumbersFit /\ SlotsFit

(***************************************************************************)
(* Arithmetic.                                                             *)
(***************************************************************************)

\* A remainder is the number that differs by a multiple.
LEMMA Remainder ==
  ASSUME NEW w \in Nat \ {0}, NEW x \in Int, NEW k \in Int, NEW r \in 0..w - 1,
         x = k * w + r
  PROVE  x % w = r
  <1> DEFINE q == x \div w
             m == x % w
  <1>1. q \in Int /\ m \in 0..w - 1 /\ x = w * q + m
    OBVIOUS
  <1> HIDE DEF q, m
  <1>2. w * (q - k) = r - m
    BY <1>1
  <1>3. q - k = 0
    <2>1. CASE q - k >= 1
      <3>1. w * (q - k) >= w
        BY <1>1, <2>1
      <3> QED
        BY <1>1, <1>2, <3>1
    <2>2. CASE q - k <= -1
      <3>1. w * (q - k) <= -w
        BY <1>1, <2>2
      <3> QED
        BY <1>1, <1>2, <3>1
    <2> QED
      BY <1>1, <2>1, <2>2
  <1>4. m = r
    BY <1>1, <1>3
  <1> QED
    BY <1>4 DEF m

\* No more than 100 percent, as long as the block is not above the tip.
LEMMA AtMostHundred ==
  ASSUME NEW n \in Nat, NEW t \in Nat, n <= t
  PROVE  Percentage(n, t) <= 100
  <1>1. CASE t = 0
    BY <1>1 DEF Percentage
  <1>2. CASE t > 0
    <2> DEFINE x == n * 100
               q == x \div t
               m == x % t
    <2>1. x \in Int /\ x <= 100 * t
      OBVIOUS
    <2> HIDE DEF x
    <2>2. q \in Int /\ m \in 0..t - 1 /\ x = t * q + m
      BY <1>2, <2>1
    <2> HIDE DEF q, m
    <2>3. q <= 100
      <3> SUFFICES ASSUME q >= 101 PROVE FALSE
        BY <2>2
      <3>1. t * q >= t * 101
        BY <1>2, <2>2
      <3> QED
        BY <1>2, <2>1, <2>2, <3>1
    <2> QED
      BY <1>2, <2>3 DEF Percentage, q, x
  <1> QED
    BY <1>1, <1>2

\* The stream only claims to be synced within a slot of the tip.
LEMMA SyncedIsNear ==
  ASSUME NEW d, NEW h, TimeLeft(d, h) = <<"Fully synced!">>
  PROVE  d < 2
  BY DEF TimeLeft

\* The number of a block is not above that of one above it.
LEMMA NumbersGrow ==
  ASSUME NEW b \in Block
  PROVE  /\ Number(b) \in Nat
         /\ \A a \in Ancestors[b] : a \in Block /\ Number(a) <= Number(b)
  <1>1. IsFiniteSet(Ancestors[b]) /\ Cardinality(Ancestors[b]) \in Nat
    BY FiniteChainAssumption, FS_CardinalityType
  <1>2. Cardinality(Ancestors[b]) # 0
    BY <1>1, FS_EmptySet, ChainAssumption
  <1>3. ASSUME NEW a \in Ancestors[b]
        PROVE  a \in Block /\ Number(a) <= Number(b)
    <2>1. a \in Block /\ Ancestors[a] \subseteq Ancestors[b]
      BY AncestorsAssumption, ChainAssumption
    <2>2. IsFiniteSet(Ancestors[a]) /\ Cardinality(Ancestors[a]) \in Nat
      BY <2>1, FiniteChainAssumption, FS_CardinalityType
    <2>3. Cardinality(Ancestors[a]) <= Cardinality(Ancestors[b])
      BY <1>1, <2>1, FS_Subset
    <2> QED
      BY <1>1, <2>1, <2>2, <2>3 DEF Number
  <1> QED
    BY <1>1, <1>2, <1>3 DEF Number

\* A block is among its own ancestors, and so is its parent.
LEMMA AboveParent ==
  ASSUME NEW b \in Block
  PROVE  b \in Ancestors[b] /\ (b # Origin => Parent[b] \in Ancestors[b])
  <1>1. \A a \in Block : a \in Ancestors[a]
    BY OriginAssumption, AncestorsAssumption
  <1> QED
    BY <1>1, AncestorsAssumption, ParentAssumption

(***************************************************************************)
(* Every step preserves the invariant.                                     *)
(***************************************************************************)

\* Nothing is loaded at first, and after each report.
LEMMA NothingSeen ==
  ASSUME seen = <<>>, disturbed = FALSE
  PROVE  SeenFits
  <1>1. <<>> \in Seq(Nat) /\ Len(<<>>) = 0 /\ DOMAIN <<>> = {}
    OBVIOUS
  <1>2. seen \in Seq(Nat) /\ Len(seen) <= 4 /\ ~(Len(seen) > 2) /\ DOMAIN seen = {}
    BY <1>1
  <1> QED
    BY <1>2 DEF SeenFits

\* Before the first reply all cells are empty.
LEMMA InitIInv == Init => IInv
  <1> SUFFICES ASSUME Init PROVE IInv
    OBVIOUS
  <1> USE DEF Init
  <1>1. Typed
    <2>1. point \in Block /\ tip \in Block /\ before \in Block \X Block
      BY StatusAssumption, OriginAssumption
    <2>2. cell \in [Cells -> Nat \cup {None}] /\ cell["slot"] = None
      BY DEF Cells
    <2>3. <<>> \in Seq(Entry)
      OBVIOUS
    <2> QED
      BY <2>1, <2>2, <2>3 DEF Typed
  <1>2. SeenFits
    BY NothingSeen
  <1>3. ReplyFits
    BY DEF ReplyFits
  <1>4. StoresFit
    BY OriginAssumption DEF StoresFit, Rest
  <1>5. NumbersFit
    BY DEF NumbersFit, Cells
  <1>6. SlotsFit
    BY DEF SlotsFit
  <1> QED
    BY <1>1, <1>2, <1>3, <1>4, <1>5, <1>6 DEF IInv

\* Two pairs make four.
LEMMA TwoAndTwo ==
  ASSUME NEW a, NEW b, NEW c, NEW d
  PROVE  <<a, b>> \o <<c, d>> = <<a, b, c, d>>
  <1> DEFINE T == {a, b, c, d}
             l == <<a, b>> \o <<c, d>>
             r == <<a, b, c, d>>
  <1>1. <<a, b>> \in Seq(T) /\ <<c, d>> \in Seq(T) /\ Len(<<a, b>>) = 2 /\ Len(<<c, d>>) = 2
    OBVIOUS
  <1>2. l \in Seq(T) /\ Len(l) = 4
    BY <1>1
  <1>3. l[1] = a /\ l[2] = b /\ l[3] = c /\ l[4] = d
    BY <1>1
  <1>4. r \in Seq(T) /\ Len(r) = 4 /\ r[1] = a /\ r[2] = b /\ r[3] = c /\ r[4] = d
    OBVIOUS
  <1> HIDE DEF T, l, r
  <1>5. \A i \in 1..Len(l) : l[i] = r[i]
    BY <1>2, <1>3, <1>4
  <1>6. l = r
    BY <1>2, <1>4, <1>5, SeqEqual
  <1> QED
    BY <1>6 DEF l, r

\* The stores of a reply over TCP, in order.
LEMMA StoresOverTcp ==
  ASSUME transport = "N2N", NEW b \in Block, NEW t \in Block
  PROVE  LET tn == <<"tipNumber", Number(t)>>
             ts == <<"tipSlot", Slot[t]>>
             s == <<"slot", Slot[b]>>
         IN  /\ ForwardStores(transport, b, t) = <<tn, ts, s, <<"number", Number(b)>>>>
             /\ b = Origin =>
                   RollBackStores(transport, b, t) = <<tn, ts, <<"slot", None>>, <<"number", None>>>>
             /\ b # Origin =>
                   RollBackStores(transport, b, t) = <<s, <<"number", None>>, tn, ts>>
  <1>1. \A a1, a2, a3, a4 : <<a1, a2>> \o <<a3, a4>> = <<a1, a2, a3, a4>>
    BY TwoAndTwo, Zenon
  <1>2. ForwardStores(transport, b, t) =
           <<<<"tipNumber", Number(t)>>, <<"tipSlot", Slot[t]>>,
             <<"slot", Slot[b]>>, <<"number", Number(b)>>>>
    BY <1>1, Zenon DEF ForwardStores, TipStores, Store
  <1>3. CASE b = Origin
    <2>1. RollBackStores(transport, b, t) = TipStores(t) \o <<<<"slot", None>>, <<"number", None>>>>
      BY <1>3 DEF RollBackStores, Store
    <2>2. RollBackStores(transport, b, t) =
             <<<<"tipNumber", Number(t)>>, <<"tipSlot", Slot[t]>>,
               <<"slot", None>>, <<"number", None>>>>
      BY <1>1, <2>1, Zenon DEF TipStores, Store
    <2> QED
      BY <1>2, <1>3, <2>2
  <1>4. CASE b # Origin
    <2>1. RollBackStores(transport, b, t) = <<<<"slot", Slot[b]>>, <<"number", None>>>> \o TipStores(t)
      BY <1>4 DEF RollBackStores, Store
    <2>2. RollBackStores(transport, b, t) =
             <<<<"slot", Slot[b]>>, <<"number", None>>,
               <<"tipNumber", Number(t)>>, <<"tipSlot", Slot[t]>>>>
      BY <1>1, <2>1, Zenon DEF TipStores, Store
    <2> QED
      BY <1>2, <1>4, <2>2
  <1> QED
    BY <1>3, <1>4

\* Every reply stores numbers and slots.
LEMMA StoresTyped ==
  ASSUME NEW b \in Block, NEW t \in Block, transport \in {"N2N", "N2C"}
  PROVE  ForwardStores(transport, b, t) \in Seq(Entry) /\ RollBackStores(transport, b, t) \in Seq(Entry)
  <1> DEFINE tn == <<"tipNumber", Number(t)>>
             ts == <<"tipSlot", Slot[t]>>
             s == <<"slot", Slot[b]>>
             n == <<"number", Number(b)>>
  <1>1. tn \in Entry /\ ts \in Entry /\ s \in Entry /\ n \in Entry
    BY NumbersGrow, SlotAssumption DEF Entry, Cells
  <1>2. /\ <<"slot", None>> \in Entry /\ <<"number", None>> \in Entry
        /\ <<"slot", 0>> \in Entry
    BY OriginAssumption, SlotAssumption DEF Entry, Cells
  <1>3. <<tn, ts>> \in Seq(Entry) /\ <<s, n>> \in Seq(Entry)
    BY <1>1
  <1>4. /\ <<<<"slot", None>>, <<"number", None>>>> \in Seq(Entry)
        /\ <<<<"slot", 0>>, <<"number", None>>>> \in Seq(Entry)
        /\ <<s, <<"number", None>>>> \in Seq(Entry)
    BY <1>1, <1>2
  <1>5. ForwardStores(transport, b, t) \in Seq(Entry)
    BY <1>3 DEF ForwardStores, TipStores, Store
  <1>6. RollBackStores(transport, b, t) \in Seq(Entry)
    <2> DEFINE none == <<"number", None>>
    <2>1. /\ <<tn, ts>> \o <<<<"slot", None>>, none>> \in Seq(Entry)
          /\ <<<<"slot", 0>>, none>> \o <<tn, ts>> \in Seq(Entry)
          /\ <<s, none>> \o <<tn, ts>> \in Seq(Entry)
          /\ <<tn, ts>> \o <<s, none>> \o <<tn, ts>> \in Seq(Entry)
      BY <1>3, <1>4
    <2> HIDE DEF tn, ts, s, none
    <2>2. RollBackStores(transport, b, t) \in {<<tn, ts>> \o <<<<"slot", None>>, none>>,
                                   <<<<"slot", 0>>, none>> \o <<tn, ts>>,
                                   <<s, none>> \o <<tn, ts>>,
                                   <<tn, ts>> \o <<s, none>> \o <<tn, ts>>}
      BY DEF RollBackStores, TipStores, Store, tn, ts, s, none
    <2> QED
      BY <2>1, <2>2
  <1> QED
    BY <1>5, <1>6

\* What a reply of the node is, when nothing of the last one is left to store.
LEMMA HandleReplyFits ==
  ASSUME IInv, HandleReply
  PROVE  IInv'
  <1> USE DEF IInv
  <1>1. /\ stores = <<>> /\ replies \in Nat /\ replies' = replies + 1
        /\ before' = <<point, tip>> /\ before'[1] = point /\ before'[2] = tip
        /\ point \in Block /\ tip \in Block
        /\ UNCHANGED <<transport, cell, seen, disturbed, report>>
    BY DEF HandleReply, Typed, stream
  <1>2. point' \in Block /\ tip' \in Block /\ point' \in Ancestors[tip']
    BY DEF HandleReply, TipsFor
  <1>3. \/ /\ replies > 0 /\ point' # Origin /\ Parent[point'] = point
           /\ forward' = TRUE
           /\ stores' = ForwardStores(transport, point', tip')
        \/ /\ point' \in Ancestors[point]
           /\ forward' = FALSE
           /\ stores' = RollBackStores(transport, point', tip')
    BY DEF HandleReply
  <1>4. Typed'
    <2>1. stores' \in Seq(Entry) /\ forward' \in BOOLEAN
      BY <1>2, <1>3, StoresTyped DEF Typed
    <2>2. before' \in Block \X Block
      BY <1>1
    <2> QED
      BY <1>1, <1>2, <2>1, <2>2 DEF Typed
  <1>5. SeenFits'
    BY <1>1 DEF SeenFits, Value
  <1>6. ReplyFits'
    BY <1>1, <1>2, <1>3 DEF ReplyFits
  <1>7. StoresFit'
    <2> SUFFICES ASSUME transport = "N2N" PROVE StoresFit'
      BY <1>1 DEF StoresFit
    <2>1. CASE forward'
      BY <1>2, <1>3, <2>1, StoresOverTcp DEF StoresFit, Rest, Number
    <2>2. CASE ~forward'
      BY <1>2, <1>3, <2>2, StoresOverTcp DEF StoresFit, Rest, Number
    <2> QED
      BY <2>1, <2>2
  <1>8. transport = "N2N" => Len(stores') = 4 /\ stores' # <<>>
    BY <1>2, <1>3, StoresOverTcp
  <1>9. NumbersFit'
    <2> SUFFICES ASSUME transport = "N2N" PROVE NumbersFit'
      BY <1>1 DEF NumbersFit
    <2>1. stores' # <<>> /\ ~(Len(stores') <= 3) /\ ~(Len(stores') <= 2)
      BY <1>8
    <2>2. cell["number"] # None =>
             /\ cell["number"] \in Nat
             /\ cell["tipNumber"] # None
             /\ cell["number"] <= cell["tipNumber"]
             /\ cell["number"] <= Number(point)
      BY <1>1 DEF NumbersFit, Typed, Cells
    <2>3. forward' /\ cell["number"] # None => cell["number"] <= Number(point')
      <3>1. forward' => Number(point) <= Number(point')
        BY <1>2, <1>3, AboveParent, NumbersGrow
      <3>2. Number(point) \in Nat /\ Number(point') \in Nat
        BY <1>1, <1>2, NumbersGrow
      <3> QED
        BY <2>2, <3>1, <3>2
    <2>4. Number(point)' = Number(point') /\ Number(tip)' = Number(tip')
      BY DEF Number
    <2> QED
      BY <1>1, <1>8, <2>1, <2>2, <2>3, <2>4 DEF NumbersFit
  <1>10. SlotsFit'
    <2> SUFFICES ASSUME transport = "N2N" PROVE SlotsFit'
      BY <1>1 DEF SlotsFit
    <2>1. OldSlot' /\ OldTip'
      <3>1. Len(stores') = 4 /\ Len(stores') >= 2 /\ Len(stores') >= 3 /\ Len(stores') >= 1
        BY <1>8
      <3> QED
        BY <3>1, Zenon DEF OldSlot, OldTip
    <2>2. replies > 0 => Value("slot") = Slot[point] /\ Value("tipSlot") = Slot[tip]
      BY <1>1 DEF SlotsFit, OldSlot, OldTip
    <2>3. Value("slot")' = Value("slot") /\ Value("tipSlot")' = Value("tipSlot")
      BY <1>1 DEF Value
    <2> QED
      BY <1>1, <2>1, <2>2, <2>3 DEF SlotsFit
  <1> QED
    BY <1>4, <1>5, <1>6, <1>7, <1>9, <1>10

\* A store leaves the rest of four.
LEMMA RestTail ==
  ASSUME NEW a, NEW b, NEW c, NEW d, NEW s \in Rest(a, b, c, d), s # <<>>
  PROVE  Tail(s) \in Rest(a, b, c, d)
  <1>1. CASE s = <<a, b, c, d>>
    <2>1. Tail(s) = <<b, c, d>>
      BY <1>1
    <2> QED
      BY <2>1 DEF Rest
  <1>2. CASE s = <<b, c, d>>
    <2>1. Tail(s) = <<c, d>>
      BY <1>2
    <2> QED
      BY <2>1 DEF Rest
  <1>3. CASE s = <<c, d>>
    <2>1. Tail(s) = <<d>>
      BY <1>3
    <2> QED
      BY <2>1 DEF Rest
  <1>4. CASE s = <<d>>
    <2>1. Tail(s) = <<>>
      BY <1>4
    <2> QED
      BY <2>1 DEF Rest
  <1> QED
    BY <1>1, <1>2, <1>3, <1>4 DEF Rest

\* The store that comes next when n of four are left.
Stored(n, e, a, b, c, d) ==
    \/ n = 4 /\ e = a
    \/ n = 3 /\ e = b
    \/ n = 2 /\ e = c
    \/ n = 1 /\ e = d

\* What is stored is told by how much is left.
LEMMA RestHead ==
  ASSUME NEW a, NEW b, NEW c, NEW d, NEW s \in Rest(a, b, c, d), s # <<>>
  PROVE  Stored(Len(s), Head(s), a, b, c, d)
  BY DEF Rest, Stored

\* No more than four are left.
LEMMA RestLength ==
  ASSUME NEW a, NEW b, NEW c, NEW d, NEW s \in Rest(a, b, c, d)
  PROVE  Len(s) <= 4
  <1>1. CASE s = <<>>
    BY <1>1
  <1>2. CASE s # <<>>
    <2>1. Stored(Len(s), Head(s), a, b, c, d)
      BY <1>2, RestHead
    <2>2. Len(s) = 1 \/ Len(s) = 2 \/ Len(s) = 3 \/ Len(s) = 4
      BY <2>1, Zenon DEF Stored
    <2> QED
      BY <2>2
  <1> QED
    BY <1>1, <1>2

\* A store goes on with what the reply has begun.
LEMMA StoreOneFits ==
  ASSUME IInv, StoreOne
  PROVE  IInv'
  <1> USE DEF IInv
  <1> DEFINE e == Head(stores)
             L == Len(stores)
  <1>1. /\ stores # <<>> /\ stores \in Seq(Entry) /\ stores' = Tail(stores)
        /\ UNCHANGED <<transport, point, tip, before, forward, replies, seen, report>>
    BY DEF StoreOne, Typed, chainSync, stream
  <1>2. /\ e \in Entry /\ stores' \in Seq(Entry)
        /\ L \in Nat /\ L' = L - 1 /\ (stores' = <<>> <=> L' = 0)
    <2>1. e \in Entry /\ Tail(stores) \in Seq(Entry) /\ Len(Tail(stores)) = Len(stores) - 1
      BY <1>1
    <2>2. stores' \in Seq(Entry) /\ Len(stores') = Len(stores) - 1
      BY <1>1, <2>1
    <2>3. stores' = <<>> <=> Len(stores') = 0
      BY <2>2, EmptySeq
    <2> QED
      BY <1>1, <2>1, <2>2, <2>3
  <1>3. e[1] \in Cells /\ e[2] \in Nat \cup {None}
    BY <1>2 DEF Entry
  <1>4. cell' = [cell EXCEPT ![e[1]] = e[2]] /\ cell \in [Cells -> Nat \cup {None}]
    BY DEF StoreOne, Typed
  <1>5. disturbed' = (seen # <<>>)
    BY DEF StoreOne
  <1> HIDE DEF e, L
  <1>6. \A c \in Cells : cell'[c] = IF c = e[1] THEN e[2] ELSE cell[c]
    BY <1>3, <1>4
  <1>7. Typed'
    <2>1. cell' \in [Cells -> Nat \cup {None}]
      BY <1>3, <1>4
    <2> QED
      BY <1>1, <1>2, <2>1 DEF Typed
  <1>8. SeenFits'
    <2>1. CASE seen = <<>>
      BY <1>1, <1>5, <2>1 DEF SeenFits
    <2>2. CASE seen # <<>>
      BY <1>1, <1>5, <2>2 DEF SeenFits
    <2> QED
      BY <2>1, <2>2
  <1>9. replies > 0
    BY <1>1 DEF ReplyFits, Typed
  <1>10. ReplyFits'
    BY <1>1, <1>9 DEF ReplyFits
  <1>11. ASSUME transport = "N2N"
         PROVE  StoresFit' /\ NumbersFit' /\ SlotsFit'
    <2> DEFINE n == Number(point)
               m == Number(tip)
               u == Slot[point]
               v == Slot[tip]
               number == cell["number"]
               tipNumber == cell["tipNumber"]
               slot == cell["slot"]
               tipSlot == cell["tipSlot"]
    <2>1. /\ transport = "N2N" /\ stores # <<>> /\ forward \in BOOLEAN
          /\ n \in Nat /\ m \in Nat /\ n <= m /\ u \in Nat /\ v \in Nat
          /\ (point = Origin => u = 0)
          /\ None \notin Nat
          /\ number \in Nat \cup {None} /\ tipNumber \in Nat \cup {None}
          /\ slot \in Nat \cup {None} /\ tipSlot \in Nat \cup {None}
      BY <1>1, <1>4, <1>9, <1>11, NumbersGrow, SlotAssumption, StatusAssumption
         DEF ReplyFits, Typed, Cells
    <2>2. /\ UNCHANGED <<point, forward, transport, replies, before, n, m, u, v>>
          /\ stores' = <<>> <=> L' = 0
      BY <1>1, <1>2
    <2>3. /\ number' = IF "number" = e[1] THEN e[2] ELSE number
          /\ tipNumber' = IF "tipNumber" = e[1] THEN e[2] ELSE tipNumber
          /\ slot' = IF "slot" = e[1] THEN e[2] ELSE slot
          /\ tipSlot' = IF "tipSlot" = e[1] THEN e[2] ELSE tipSlot
      BY <1>6 DEF Cells
    <2>4. L \in Nat /\ L' = L - 1
      BY <1>2
    <2>5. /\ \/ point = Origin
             \/ (number # None => tipNumber # None /\ number <= tipNumber)
          /\ forward => /\ number # None => number <= n
                        /\ L <= 3 => tipNumber = m
          /\ ~forward /\ point # Origin /\ L <= 2 => number = None
          /\ forward => point # Origin
      BY <1>9, <2>1 DEF NumbersFit, ReplyFits, L
    <2>6. LET old == IF forward \/ point = Origin THEN L >= 2 ELSE L = 4
              oldTip == IF forward \/ point = Origin THEN L >= 3 ELSE L >= 1
              value == IF slot = None THEN 0 ELSE slot
              tipValue == IF tipSlot = None THEN 0 ELSE tipSlot
          IN  /\ ~old => value = u
              /\ ~oldTip => tipValue = v
              /\ replies > 1 /\ old => value = Slot[before[1]]
              /\ replies > 1 /\ oldTip => tipValue = Slot[before[2]]
      BY <1>9, <2>1 DEF SlotsFit, OldSlot, OldTip, Value, L
    <2>10. (/\ (stores' = <<>> \/ point # Origin) /\ number' # None =>
                 tipNumber' # None /\ number' <= tipNumber'
            /\ (stores' = <<>> \/ forward) /\ number' # None => number' <= n
            /\ forward /\ L' <= 3 => tipNumber' = m
            /\ ~forward /\ point # Origin /\ L' <= 2 => number' = None
            /\ ~forward /\ stores' = <<>> => number' = None)
           => NumbersFit'
      BY <1>1 DEF NumbersFit, L
    <2>11. (LET old == IF forward \/ point = Origin THEN L' >= 2 ELSE L' = 4
                oldTip == IF forward \/ point = Origin THEN L' >= 3 ELSE L' >= 1
                value == IF slot' = None THEN 0 ELSE slot'
                tipValue == IF tipSlot' = None THEN 0 ELSE tipSlot'
            IN  /\ ~old => value = u
                /\ ~oldTip => tipValue = v
                /\ replies > 1 /\ old => value = Slot[before[1]]
                /\ replies > 1 /\ oldTip => tipValue = Slot[before[2]])
           => SlotsFit'
      BY <1>1 DEF SlotsFit, OldSlot, OldTip, Value, L
    <2>12. StoresFit
      OBVIOUS
    <2> HIDE DEF n, m, u, v, number, tipNumber, slot, tipSlot, IInv
    <2>7. CASE forward
      <3>1. stores \in Rest(<<"tipNumber", m>>, <<"tipSlot", v>>, <<"slot", u>>, <<"number", n>>)
        BY <2>1, <2>12, <2>7 DEF StoresFit, n, m, u, v
      <3>2. stores' \in Rest(<<"tipNumber", m>>, <<"tipSlot", v>>, <<"slot", u>>, <<"number", n>>)
        BY <1>1, <3>1, RestTail
      <3>3. StoresFit'
        BY <1>1, <2>2, <2>7, <3>2 DEF StoresFit, n, m, u, v
      <3>4. \/ L = 4 /\ e[1] = "tipNumber" /\ e[2] = m
            \/ L = 3 /\ e[1] = "tipSlot" /\ e[2] = v
            \/ L = 2 /\ e[1] = "slot" /\ e[2] = u
            \/ L = 1 /\ e[1] = "number" /\ e[2] = n
        <4> DEFINE s1 == <<"tipNumber", m>>
                   s2 == <<"tipSlot", v>>
                   s3 == <<"slot", u>>
                   s4 == <<"number", n>>
        <4>1. stores \in Rest(s1, s2, s3, s4) /\ stores # <<>>
          BY <2>1, <3>1
        <4> HIDE DEF s1, s2, s3, s4
        <4>2. Stored(Len(stores), Head(stores), s1, s2, s3, s4)
          BY <4>1, RestHead
        <4> QED
          BY <4>2 DEF Stored, L, e, s1, s2, s3, s4
      <3>5. NumbersFit'
        BY <2>1, <2>2, <2>3, <2>4, <2>5, <2>10, <2>7, <3>4
      <3>6. SlotsFit'
        BY <2>1, <2>2, <2>3, <2>4, <2>6, <2>11, <2>7, <3>4
      <3> QED
        BY <3>3, <3>5, <3>6
    <2>8. CASE ~forward /\ point = Origin
      <3>1. stores \in Rest(<<"tipNumber", m>>, <<"tipSlot", v>>, <<"slot", None>>, <<"number", None>>)
        BY <2>1, <2>12, <2>8 DEF StoresFit, n, m, u, v
      <3>2. stores' \in Rest(<<"tipNumber", m>>, <<"tipSlot", v>>, <<"slot", None>>, <<"number", None>>)
        BY <1>1, <3>1, RestTail
      <3>3. StoresFit'
        BY <1>1, <2>2, <2>8, <3>2 DEF StoresFit, n, m, u, v
      <3>4. \/ L = 4 /\ e[1] = "tipNumber" /\ e[2] = m
            \/ L = 3 /\ e[1] = "tipSlot" /\ e[2] = v
            \/ L = 2 /\ e[1] = "slot" /\ e[2] = None
            \/ L = 1 /\ e[1] = "number" /\ e[2] = None
        <4> DEFINE s1 == <<"tipNumber", m>>
                   s2 == <<"tipSlot", v>>
                   s3 == <<"slot", None>>
                   s4 == <<"number", None>>
        <4>1. stores \in Rest(s1, s2, s3, s4) /\ stores # <<>>
          BY <2>1, <3>1
        <4> HIDE DEF s1, s2, s3, s4
        <4>2. Stored(Len(stores), Head(stores), s1, s2, s3, s4)
          BY <4>1, RestHead
        <4> QED
          BY <4>2 DEF Stored, L, e, s1, s2, s3, s4
      <3>5. NumbersFit'
        BY <2>1, <2>2, <2>3, <2>4, <2>5, <2>10, <2>8, <3>4
      <3>6. SlotsFit'
        BY <2>1, <2>2, <2>3, <2>4, <2>6, <2>11, <2>8, <3>4
      <3> QED
        BY <3>3, <3>5, <3>6
    <2>9. CASE ~forward /\ point # Origin
      <3>1. stores \in Rest(<<"slot", u>>, <<"number", None>>, <<"tipNumber", m>>, <<"tipSlot", v>>)
        BY <2>1, <2>12, <2>9 DEF StoresFit, n, m, u, v
      <3>2. stores' \in Rest(<<"slot", u>>, <<"number", None>>, <<"tipNumber", m>>, <<"tipSlot", v>>)
        BY <1>1, <3>1, RestTail
      <3>3. StoresFit'
        BY <1>1, <2>2, <2>9, <3>2 DEF StoresFit, n, m, u, v
      <3>4. \/ L = 4 /\ e[1] = "slot" /\ e[2] = u
            \/ L = 3 /\ e[1] = "number" /\ e[2] = None
            \/ L = 2 /\ e[1] = "tipNumber" /\ e[2] = m
            \/ L = 1 /\ e[1] = "tipSlot" /\ e[2] = v
        <4> DEFINE s1 == <<"slot", u>>
                   s2 == <<"number", None>>
                   s3 == <<"tipNumber", m>>
                   s4 == <<"tipSlot", v>>
        <4>1. stores \in Rest(s1, s2, s3, s4) /\ stores # <<>>
          BY <2>1, <3>1
        <4> HIDE DEF s1, s2, s3, s4
        <4>2. Stored(Len(stores), Head(stores), s1, s2, s3, s4)
          BY <4>1, RestHead
        <4> QED
          BY <4>2 DEF Stored, L, e, s1, s2, s3, s4
      <3>5. NumbersFit'
        BY <2>1, <2>2, <2>3, <2>4, <2>5, <2>10, <2>9, <3>4
      <3>6. SlotsFit'
        BY <2>1, <2>2, <2>3, <2>4, <2>6, <2>11, <2>9, <3>4
      <3> QED
        BY <3>3, <3>5, <3>6
    <2> QED
      BY <2>1, <2>7, <2>8, <2>9
  <1>12. StoresFit' /\ NumbersFit' /\ SlotsFit'
    <2>1. CASE transport = "N2N"
      BY <1>11, <2>1
    <2>2. CASE transport # "N2N"
      BY <1>1, <2>2 DEF StoresFit, NumbersFit, SlotsFit
    <2> QED
      BY <2>1, <2>2
  <1> QED
    BY <1>7, <1>8, <1>10, <1>12

\* A load reads a cell as it is.
LEMMA LoadOneFits ==
  ASSUME IInv, LoadOne
  PROVE  IInv'
  <1> USE DEF IInv
  <1> DEFINE l == Len(seen)
             c == Loads[l + 1]
  <1>1. UNCHANGED <<transport, point, tip, before, forward, replies, cell, stores, report>>
    BY DEF LoadOne, chainSync, stream
  <1>2. Typed' /\ ReplyFits'
    BY <1>1 DEF Typed, ReplyFits
  <1>3. StoresFit' /\ NumbersFit' /\ SlotsFit'
    BY <1>1 DEF StoresFit, NumbersFit, SlotsFit, OldSlot, OldTip, Value, Number
  <1>4. seen \in Seq(Nat) /\ l \in Nat /\ l < Len(Loads)
    <2>1. seen \in Seq(Nat) /\ l < Len(Loads)
      BY DEF LoadOne, SeenFits
    <2> QED
      BY <2>1, LenProperties
  <1>5. /\ Len(Loads) = 4 /\ Loads[1] = "tipSlot" /\ Loads[2] = "tipNumber"
        /\ Loads[3] = "slot" /\ Loads[4] = "number"
    BY DEF Loads
  <1>6. seen' = Append(seen, Value(c))
    BY DEF LoadOne, Value
  <1>7. \A x \in Cells : Value(x) \in Nat
    BY DEF Typed, Value
  <1>8. c \in Cells
    <2> HIDE DEF l
    <2>1. l \in Nat /\ l < 4
      BY <1>4, <1>5
    <2>2. \/ l = 0 /\ c = Loads[1]
          \/ l = 1 /\ c = Loads[2]
          \/ l = 2 /\ c = Loads[3]
          \/ l = 3 /\ c = Loads[4]
      BY <2>1
    <2> QED
      BY <1>5, <2>2 DEF Cells
  <1>9. Value(c) \in Nat
    BY <1>7, <1>8
  <1> HIDE DEF c
  <1>10. /\ seen' \in Seq(Nat) /\ Len(seen') = l + 1 /\ DOMAIN seen' = 1..l + 1
         /\ seen'[l + 1] = Value(c)
         /\ \A i \in 1..l : seen'[i] = seen[i]
    BY <1>4, <1>6, <1>9
  <1>11. /\ disturbed' \in BOOLEAN
         /\ ~disturbed' => ~disturbed \/ l = 0
         /\ ~disturbed => \A i \in 1..l : seen[i] = Value(Loads[i])
    BY <1>4 DEF LoadOne, SeenFits
  <1>12. \A x \in Cells : Value(x)' = Value(x)
    BY <1>1 DEF Value
  <1> HIDE DEF l
  <1>13. ~disturbed' => \A i \in DOMAIN seen' : seen'[i] = Value(Loads[i])'
    <2> SUFFICES ASSUME ~disturbed', NEW i \in 1..l + 1
                 PROVE  seen'[i] = Value(Loads[i])'
      BY <1>10
    <2>1. Value(Loads[i])' = Value(Loads[i])
      BY <1>1 DEF Value
    <2>2. CASE i = l + 1
      BY <1>10, <2>1, <2>2 DEF c
    <2>3. CASE i # l + 1
      <3>1. i \in 1..l /\ ~disturbed
        BY <1>4, <1>11, <2>3
      <3> QED
        BY <1>10, <1>11, <2>1, <3>1
    <2> QED
      BY <2>2, <2>3
  <1>14. SeenFits'
    BY <1>4, <1>5, <1>10, <1>11, <1>13 DEF SeenFits
  <1> QED
    BY <1>2, <1>3, <1>14

\* A report changes nothing but the stream.
LEMMA ReportFits ==
  ASSUME IInv, Report
  PROVE  IInv'
  <1> USE DEF IInv, Report
  <1>1. UNCHANGED <<transport, point, tip, before, forward, replies, cell, stores>>
    BY DEF chainSync
  <1>2. Typed' /\ ReplyFits'
    BY <1>1 DEF Typed, ReplyFits
  <1>3. StoresFit' /\ NumbersFit' /\ SlotsFit'
    BY <1>1 DEF StoresFit, NumbersFit, SlotsFit, OldSlot, OldTip, Value, Number
  <1>4. SeenFits'
    <2>1. seen' = <<>> /\ disturbed' = FALSE
      BY DEF Report
    <2>2. <<>> \in Seq(Nat) /\ Len(<<>>) = 0 /\ DOMAIN <<>> = {}
      OBVIOUS
    <2>3. seen' \in Seq(Nat) /\ Len(seen') <= 4 /\ DOMAIN seen' = {}
      BY <2>1, <2>2
    <2> QED
      BY <2>1, <2>3 DEF SeenFits
  <1> QED
    BY <1>2, <1>3, <1>4

(***************************************************************************)
(* The theorems.                                                           *)
(***************************************************************************)

\* Every cell is that of the last reply or of the one before, according to
\* what is left to store.
THEOREM Invariance == Spec => []IInv
  <1>1. IInv /\ [Next]_vars => IInv'
    <2> SUFFICES ASSUME IInv, [Next]_vars PROVE IInv'
      OBVIOUS
    <2>1. CASE HandleReply
      BY <2>1, HandleReplyFits
    <2>2. CASE StoreOne
      BY <2>2, StoreOneFits
    <2>3. CASE LoadOne
      BY <2>3, LoadOneFits
    <2>4. CASE Report
      BY <2>4, ReportFits
    <2>5. CASE UNCHANGED vars
      BY <2>5 DEF vars, chainSync, stream, IInv, Typed, SeenFits, ReplyFits, StoresFit,
                  NumbersFit, SlotsFit, OldSlot, OldTip, Value, Number
    <2> QED
      BY <2>1, <2>2, <2>3, <2>4, <2>5 DEF Next, Reader
  <1> QED
    BY <1>1, InitIInv, PTL DEF Spec

\* What an undisturbed report has seen is in the cells.
LEMMA SeesTheCells ==
  ASSUME IInv, Report, ~disturbed
  PROVE  /\ seen[1] = Value("tipSlot") /\ seen[2] = Value("tipNumber")
         /\ seen[3] = Value("slot") /\ seen[4] = Value("number")
  <1>1. /\ Len(Loads) = 4 /\ Loads[1] = "tipSlot" /\ Loads[2] = "tipNumber"
        /\ Loads[3] = "slot" /\ Loads[4] = "number"
    BY DEF Loads
  <1>2. DOMAIN seen = 1..4
    BY <1>1, LenProperties DEF IInv, SeenFits, Report
  <1>3. \A i \in 1..4 : seen[i] = Value(Loads[i])
    BY <1>2 DEF IInv, SeenFits
  <1> QED
    BY <1>1, <1>3

\* Over TCP a report that no store came between never exceeds 100 percent,
\* whatever has been stored of a reply that is not a roll back to the origin.
THEOREM NoMoreThanHundred == Spec => NeverOverHundred
  <1>1. IInv /\ [Next]_vars =>
           [Report /\ Orderly /\ ~disturbed => report'.percentage <= 100]_vars
    <2> SUFFICES ASSUME IInv, Report, Orderly, ~disturbed
                 PROVE  report'.percentage <= 100
      OBVIOUS
    <2>1. report'.percentage = Percentage(seen[4], seen[2])
      BY DEF Report
    <2>2. seen[4] = Value("number") /\ seen[2] = Value("tipNumber")
      BY SeesTheCells
    <2>3. /\ cell["number"] \in Nat \cup {None} /\ cell["tipNumber"] \in Nat \cup {None}
          /\ cell["number"] # None =>
                cell["tipNumber"] # None /\ cell["number"] <= cell["tipNumber"]
      BY DEF IInv, Typed, NumbersFit, Orderly, Cells
    <2>4. Value("number") \in Nat /\ Value("tipNumber") \in Nat
          /\ Value("number") <= Value("tipNumber")
      BY <2>3 DEF Value
    <2> QED
      BY <2>1, <2>2, <2>4, AtMostHundred
  <1> QED
    BY <1>1, Invariance, PTL DEF Spec, NeverOverHundred

\* Over TCP a report that no store came between claims to be synced only near
\* the tip of the last reply, or of the one before while the last is being
\* stored.
THEOREM NotSyncedTooSoon == Spec => NeverSyncedTooSoon
  <1> DEFINE Claims == /\ Report /\ Orderly /\ ~disturbed
                       /\ report'.timeLeft = <<"Fully synced!">>
                       /\ replies > 1 \/ (replies = 1 /\ stores = <<>>)
             Holds == \/ Near(point, tip)
                      \/ stores # <<>> /\ Near(before[1], before[2])
  <1>1. IInv /\ [Next]_vars => [Claims => Holds]_vars
    <2> SUFFICES ASSUME IInv, Claims PROVE Holds
      OBVIOUS
    <2>0. /\ Report /\ ~disturbed /\ report'.timeLeft = <<"Fully synced!">>
          /\ transport = "N2N" /\ (stores = <<>> \/ point # Origin)
          /\ replies > 1 \/ (replies = 1 /\ stores = <<>>)
      BY DEF Orderly
    <2> HIDE DEF Claims
    <2> DEFINE u == Slot[point]
               v == Slot[tip]
               oldU == Slot[before[1]]
               oldV == Slot[before[2]]
               x == Value("slot")
               y == Value("tipSlot")
               L == Len(stores)
    <2>1. AbsDiff(y, x) < 2
      <3>1. TimeLeft(AbsDiff(seen[1], seen[3]), diffHistory') = <<"Fully synced!">>
        BY <2>0 DEF Report
      <3> QED
        BY <2>0, <3>1, SyncedIsNear, SeesTheCells
    <2>2. /\ transport = "N2N" /\ replies > 0 /\ replies \in Nat
          /\ stores = <<>> \/ (replies > 1 /\ point # Origin)
      <3>1. replies \in Nat
        BY DEF IInv, Typed
      <3>2. replies > 0
        <4>1. CASE replies > 1
          BY <3>1, <4>1
        <4>2. CASE replies = 1
          BY <4>2
        <4> QED
          BY <2>0, <4>1, <4>2, Zenon
      <3>3. CASE stores = <<>>
        BY <2>0, <3>1, <3>2, <3>3
      <3>4. CASE stores # <<>>
        BY <2>0, <3>1, <3>2, <3>4
      <3> QED
        BY <3>3, <3>4
    <2>3. /\ L \in Nat /\ (stores = <<>> <=> L = 0) /\ L <= 4
      <3>1. stores \in Seq(Entry)
        BY DEF IInv, Typed
      <3>2. L <= 4
        BY <2>2, RestLength DEF IInv, StoresFit
      <3> QED
        BY <3>1, <3>2, EmptySeq
    <2>4. /\ u \in Nat /\ v \in Nat /\ u <= v
          /\ oldU \in Nat
          /\ forward => oldU <= u
          /\ ~forward => u <= oldU
          /\ replies > 1 => oldV \in Nat /\ oldU <= oldV
      <3>1. /\ point \in Block /\ tip \in Block /\ before[1] \in Block /\ before[2] \in Block
        BY DEF IInv, Typed
      <3>2. forward => before[1] \in Ancestors[point]
        BY <2>2, <3>1, AboveParent DEF IInv, ReplyFits
      <3> QED
        BY <2>2, <3>1, <3>2, SlotAssumption DEF IInv, ReplyFits
    <2>5. /\ L = 0 => x = u /\ y = v
          /\ forward /\ replies > 1 =>
                /\ IF L >= 2 THEN x = oldU ELSE x = u
                /\ IF L >= 3 THEN y = oldV ELSE y = v
          /\ ~forward /\ point # Origin /\ replies > 1 =>
                /\ IF L = 4 THEN x = oldU ELSE x = u
                /\ IF L >= 1 THEN y = oldV ELSE y = v
      BY <2>2 DEF IInv, SlotsFit, OldSlot, OldTip
    <2> HIDE DEF u, v, oldU, oldV, x, y, L
    <2>6. \/ AbsDiff(v, u) < 2
          \/ L # 0 /\ AbsDiff(oldV, oldU) < 2
      <3>1. CASE stores = <<>>
        BY <2>1, <2>2, <2>3, <2>5, <3>1
      <3>2. CASE stores # <<>> /\ forward
        BY <2>1, <2>2, <2>3, <2>4, <2>5, <3>2 DEF AbsDiff
      <3>3. CASE stores # <<>> /\ ~forward
        BY <2>1, <2>2, <2>3, <2>4, <2>5, <3>3 DEF AbsDiff
      <3> QED
        BY <3>1, <3>2, <3>3
    <2> QED
      BY <2>3, <2>6 DEF Near, u, v, oldU, oldV
  <1> QED
    BY <1>1, Invariance, PTL DEF Spec, NeverSyncedTooSoon

(***************************************************************************)
(* The window of the last changes.                                         *)
(***************************************************************************)

\* A sum is made of partial sums.
LEMMA PartialSums ==
  ASSUME NEW h \in [0..Window - 1 -> Int]
  PROVE  \E s \in [0..Window -> Int] :
            /\ s[0] = 0
            /\ \A n \in 1..Window : s[n] = s[n - 1] + h[n - 1]
            /\ SumOf(h) = s[Window]
  <1> DEFINE Step(f, n) == IF n = 0 THEN 0 ELSE f[n - 1] + h[n - 1]
             Sums(f, n) == f = [m \in 0..n |-> Step(f, m)]
             Good == {n \in 0..Window : \E f : Sums(f, n) /\ f \in [0..n -> Int]}
  <1>1. Window \in Nat \ {0, 1}
    BY StatusAssumption
  <1>2. 0 \in Good
    <2> DEFINE f == [m \in 0..0 |-> 0]
    <2>1. Sums(f, 0) /\ f \in [0..0 -> Int]
      OBVIOUS
    <2>2. 0 \in 0..Window
      BY <1>1
    <2> HIDE DEF f, Sums
    <2> QED
      BY <2>1, <2>2
  <1>3. ASSUME NEW n \in 1..Window, n - 1 \in Good
        PROVE  n \in Good
    <2>1. PICK f : Sums(f, n - 1) /\ f \in [0..n - 1 -> Int]
      BY <1>3
    <2>2. /\ n \in Nat /\ n # 0 /\ n - 1 \in 0..n - 1 /\ n - 1 \in 0..Window - 1
          /\ h[n - 1] \in Int /\ f[n - 1] \in Int
      <3>1. n \in Nat /\ n # 0 /\ n - 1 \in 0..n - 1 /\ n - 1 \in 0..Window - 1
        BY <1>1
      <3>2. h[n - 1] \in Int
        BY <3>1
      <3>3. f[n - 1] \in Int
        <4>1. f \in [0..n - 1 -> Int]
          BY <2>1
        <4> QED
          BY <3>1, <4>1
      <3> QED
        BY <3>1, <3>2, <3>3
    <2> DEFINE g == [m \in 0..n |-> IF m = n THEN f[n - 1] + h[n - 1] ELSE f[m]]
    <2>3. g \in [0..n -> Int] /\ g[n] = f[n - 1] + h[n - 1] /\ g = [m \in 0..n |-> g[m]]
      <3>1. \A m \in 0..n : m # n => m \in 0..n - 1
        BY <2>2
      <3>2. n \in 0..n
        BY <2>2
      <3> QED
        BY <2>1, <2>2, <3>1, <3>2
    <2>4. \A m \in 0..n - 1 : g[m] = f[m] /\ f[m] = Step(f, m)
      <3> TAKE m \in 0..n - 1
      <3>1. m \in 0..n /\ m # n
        BY <2>2
      <3>2. g[m] = f[m]
        BY <3>1
      <3>3. f[m] = Step(f, m)
        BY <2>1
      <3> QED
        BY <3>2, <3>3
    <2> HIDE DEF g
    <2>5. \A m \in 0..n : g[m] = Step(g, m)
      <3> TAKE m \in 0..n
      <3>1. CASE m = 0
        BY <2>2, <2>4, <3>1
      <3>2. CASE m # 0
        <4>1. m - 1 \in 0..n - 1
          BY <2>2, <3>2
        <4>2. g[m - 1] = f[m - 1]
          BY <2>4, <4>1
        <4>3. CASE m = n
          BY <2>3, <3>2, <4>2, <4>3
        <4>4. CASE m # n
          <5>1. m \in 0..n - 1
            BY <2>2, <4>4
          <5> QED
            BY <2>4, <3>2, <4>2, <5>1
        <4> QED
          BY <4>3, <4>4
      <3> QED
        BY <3>1, <3>2
    <2>6. Sums(g, n)
      BY <2>3, <2>5
    <2> HIDE DEF Sums
    <2> QED
      BY <1>1, <2>3, <2>6
  <1>4. Window \in Good
    <2>1. Window \in Nat /\ Window \in 0..Window
      BY <1>1
    <2> HIDE DEF Good
    <2>2. \A n \in 0..Window : n \in Good
      BY <1>2, <1>3, <2>1, UpTo
    <2> QED
      BY <2>1, <2>2
  <1> DEFINE s == CHOOSE f : Sums(f, Window)
  <1>5. SumOf(h) = s[Window]
    BY DEF SumOf
  <1>6. Sums(s, Window)
    <2>1. \E f : Sums(f, Window)
      BY <1>4
    <2> HIDE DEF Sums
    <2> QED
      BY <2>1, Zenon
  <1> HIDE DEF s
  <1>7. \A n \in 0..Window : s[n] = Step(s, n)
    BY <1>6
  <1>8. s = [n \in 0..Window |-> s[n]]
    BY <1>6
  <1>9. s[0] = 0 /\ \A n \in 1..Window : s[n] = s[n - 1] + h[n - 1]
    BY <1>1, <1>7
  <1>10. \A n \in 0..Window : s[n] \in Int
    <2> DEFINE S == {n \in 0..Window : s[n] \in Int}
    <2>1. 0 \in S
      BY <1>1, <1>9
    <2>2. ASSUME NEW n \in 1..Window, n - 1 \in S
          PROVE  n \in S
      <3>1. h[n - 1] \in Int /\ s[n - 1] \in Int /\ n \in 0..Window
        BY <1>1, <2>2
      <3> QED
        BY <1>9, <3>1
    <2> HIDE DEF S
    <2>3. \A n \in 0..Window : n \in S
      BY <1>1, <2>1, <2>2, UpTo
    <2> QED
      BY <2>3 DEF S
  <1>11. s \in [0..Window -> Int]
    BY <1>8, <1>10
  <1> QED
    BY <1>5, <1>9, <1>11

\* Nothing adds up to nothing.
LEMMA SumOfZeros == SumOf([i \in 0..Window - 1 |-> 0]) = 0
  <1> DEFINE h == [i \in 0..Window - 1 |-> 0]
  <1>1. Window \in Nat \ {0, 1} /\ h \in [0..Window - 1 -> Int]
    BY StatusAssumption
  <1>2. \A i \in 0..Window - 1 : h[i] = 0
    OBVIOUS
  <1> HIDE DEF h
  <1>3. PICK s \in [0..Window -> Int] :
           /\ s[0] = 0
           /\ \A n \in 1..Window : s[n] = s[n - 1] + h[n - 1]
           /\ SumOf(h) = s[Window]
    BY <1>1, PartialSums
  <1> DEFINE S == {n \in 0..Window : s[n] = 0}
  <1>4. 0 \in S
    BY <1>1, <1>3
  <1>5. ASSUME NEW n \in 1..Window, n - 1 \in S
        PROVE  n \in S
    <2>1. n - 1 \in 0..Window - 1 /\ n \in 0..Window /\ s[n - 1] = 0
      BY <1>1, <1>5
    <2> QED
      BY <1>2, <1>3, <2>1
  <1> HIDE DEF S
  <1>6. \A n \in 0..Window : n \in S
    BY <1>1, <1>4, <1>5, UpTo
  <1>7. s[Window] = 0
    BY <1>1, <1>6 DEF S
  <1> QED
    BY <1>3, <1>7 DEF h

\* A sum changes as the entry that changes.
LEMMA SumUpdate ==
  ASSUME NEW h \in [0..Window - 1 -> Int], NEW i \in 0..Window - 1, NEW v \in Int
  PROVE  SumOf([h EXCEPT ![i] = v]) = SumOf(h) - h[i] + v
  <1> DEFINE g == [h EXCEPT ![i] = v]
  <1>1. Window \in Nat \ {0, 1} /\ g \in [0..Window - 1 -> Int] /\ h[i] \in Int
    BY StatusAssumption
  <1>2. g[i] = v /\ \A j \in 0..Window - 1 : j # i => g[j] = h[j]
    OBVIOUS
  <1> HIDE DEF g
  <1>3. PICK s \in [0..Window -> Int] :
           /\ s[0] = 0
           /\ \A n \in 1..Window : s[n] = s[n - 1] + h[n - 1]
           /\ SumOf(h) = s[Window]
    BY PartialSums
  <1>4. PICK t \in [0..Window -> Int] :
           /\ t[0] = 0
           /\ \A n \in 1..Window : t[n] = t[n - 1] + g[n - 1]
           /\ SumOf(g) = t[Window]
    BY <1>1, PartialSums
  <1> DEFINE S == {n \in 0..Window : t[n] = s[n] + (IF i < n THEN v - h[i] ELSE 0)}
  <1>5. 0 \in S
    BY <1>1, <1>3, <1>4
  <1>6. ASSUME NEW n \in 1..Window, n - 1 \in S
        PROVE  n \in S
    <2> DEFINE d == v - h[i]
               a == s[n - 1]
               b == t[n - 1]
    <2>1. n - 1 \in 0..Window - 1 /\ n - 1 \in 0..Window /\ n \in 0..Window /\ i \in Int
      BY <1>1
    <2>2. a \in Int /\ b \in Int /\ h[n - 1] \in Int /\ d \in Int
      <3>1. \A f \in [0..Window -> Int] : f[n - 1] \in Int
        BY <2>1
      <3>2. a \in Int
        BY <3>1
      <3>3. b \in Int
        BY <3>1
      <3>4. h[n - 1] \in Int
        BY <2>1
      <3>5. d \in Int
        BY <1>1
      <3> QED
        BY <3>2, <3>3, <3>4, <3>5
    <2>3. s[n] = a + h[n - 1] /\ t[n] = b + g[n - 1]
      BY <1>3, <1>4
    <2>4. b = a + (IF i < n - 1 THEN d ELSE 0)
      BY <1>6
    <2>5. t[n] = s[n] + (IF i < n THEN d ELSE 0)
      <3>1. CASE n - 1 = i
        <4>1. g[n - 1] = v /\ h[n - 1] = h[i] /\ i < n /\ ~(i < n - 1)
          BY <1>2, <2>1, <3>1
        <4>2. g[n - 1] = h[n - 1] + d
          BY <1>1, <4>1
        <4>3. b = a
          BY <2>2, <2>4, <4>1
        <4> HIDE DEF a, b, d
        <4> QED
          BY <2>2, <2>3, <4>1, <4>2, <4>3
      <3>2. CASE n - 1 # i
        <4>1. g[n - 1] = h[n - 1] /\ (i < n <=> i < n - 1)
          BY <1>2, <2>1, <3>2
        <4> HIDE DEF a, b, d
        <4> QED
          BY <2>2, <2>3, <2>4, <4>1
      <3> QED
        BY <3>1, <3>2
    <2> QED
      BY <2>1, <2>5
  <1> HIDE DEF S
  <1>7. \A n \in 0..Window : n \in S
    BY <1>1, <1>5, <1>6, UpTo
  <1>8. t[Window] = s[Window] + (v - h[i])
    BY <1>1, <1>7 DEF S
  <1>9. SumOf(g) = SumOf(h) - h[i] + v
    <2>1. s[Window] \in Int /\ t[Window] \in Int
      BY <1>1
    <2> QED
      BY <1>1, <1>3, <1>4, <1>8, <2>1
  <1> QED
    BY <1>9 DEF g
\* How many reports ago, from the oldest in the window, the i-th change came in.
Age(i) == IF index <= i THEN i - index ELSE i - index + Window

\* The window has the changes between the last distances, in a ring, and they
\* add up.
StreamFits ==
    /\ diffHistory \in [0..Window - 1 -> Int]
    /\ index \in 0..Window - 1
    /\ lastDiff \in Nat
    /\ diffs \in Seq(Nat) /\ Len(diffs) = Window + 1
    /\ lastDiff = diffs[Window + 1]
    /\ \A i \in 0..Window - 1 : diffHistory[i] = diffs[Age(i) + 2] - diffs[Age(i) + 1]
    /\ WindowTelescopes
    /\ report = None \/ report.percentage \in Nat

\* The window is empty at first.
LEMMA InitStreamFits == Init => StreamFits
  <1> SUFFICES ASSUME Init PROVE StreamFits
    OBVIOUS
  <1>1. Window \in Nat \ {0, 1}
    BY StatusAssumption
  <1>2. /\ diffHistory = [i \in 0..Window - 1 |-> 0] /\ index = 0 /\ lastDiff = 0
        /\ report = None /\ diffs = [i \in 1..Window + 1 |-> 0]
    BY DEF Init
  <1>3. /\ diffs \in [1..Window + 1 -> Nat] /\ \A i \in 1..Window + 1 : diffs[i] = 0
    BY <1>2
  <1>4. diffs \in Seq(Nat) /\ Len(diffs) = Window + 1
    BY <1>1, <1>3
  <1>5. WindowTelescopes
    <2>1. diffs[1] = 0
      BY <1>1, <1>3
    <2> QED
      BY <1>2, <2>1, SumOfZeros DEF WindowTelescopes
  <1>6. \A i \in 0..Window - 1 : diffHistory[i] = diffs[Age(i) + 2] - diffs[Age(i) + 1]
    BY <1>1, <1>2, <1>3 DEF Age
  <1> QED
    BY <1>1, <1>2, <1>3, <1>4, <1>5, <1>6 DEF StreamFits

\* A step around the ring.
LEMMA Around ==
  ASSUME NEW i \in 0..Window - 1
  PROVE  NextIndex(i) = IF i = Window - 1 THEN 0 ELSE i + 1
  <1>1. Window \in Nat \ {0, 1} /\ i \in Nat /\ i <= Window - 1
    BY StatusAssumption
  <1>2. CASE i = Window - 1
    <2>1. i + 1 = Window /\ Window = 1 * Window + 0
      BY <1>1, <1>2
    <2>2. Window % Window = 0
      BY <1>1, <2>1, Remainder
    <2> QED
      BY <1>2, <2>1, <2>2 DEF NextIndex
  <1>3. CASE i # Window - 1
    <2>1. i + 1 \in 0..Window - 1 /\ i + 1 = 0 * Window + (i + 1)
      BY <1>1, <1>3
    <2>2. (i + 1) % Window = i + 1
      BY <1>1, <2>1, Remainder
    <2> QED
      BY <1>3, <2>2 DEF NextIndex
  <1> QED
    BY <1>2, <1>3

\* A percentage is a number.
LEMMA PercentageTyped ==
  ASSUME NEW n \in Nat, NEW t \in Nat
  PROVE  Percentage(n, t) \in Nat
  <1>1. CASE t = 0 /\ n = 0
    BY <1>1 DEF Percentage
  <1>2. CASE t = 0 /\ n > 0
    <2>1. WordSize \in Nat /\ WordSize >= 2
      BY StatusAssumption
    <2>2. WordSize \div 2 \in Nat /\ WordSize \div 2 >= 1
      BY <2>1
    <2> QED
      BY <1>2, <2>2 DEF Percentage
  <1>3. CASE t > 0
    <2> DEFINE x == n * 100
    <2>1. x \in Nat
      OBVIOUS
    <2> HIDE DEF x
    <2>2. x \div t \in Nat
      <3>1. x \div t \in Int /\ x % t \in 0..t - 1 /\ x = t * (x \div t) + (x % t)
        BY <1>3, <2>1
      <3> DEFINE q == x \div t
      <3>2. q \in Int /\ x < t * q + t
        BY <1>3, <2>1, <3>1
      <3> HIDE DEF q
      <3>3. CASE q <= -1
        <4>1. t * q <= -t
          BY <1>3, <3>2, <3>3
        <4> QED
          BY <1>3, <2>1, <3>2, <4>1
      <3> QED
        BY <3>2, <3>3 DEF q
    <2> QED
      BY <1>3, <2>2 DEF Percentage, x
  <1> QED
    BY <1>1, <1>2, <1>3

\* A report replaces the oldest change by the new one.
LEMMA ReportKeepsWindow ==
  ASSUME SeenFits, StreamFits, Report
  PROVE  StreamFits'
  <1> DEFINE diff == AbsDiff(seen[1], seen[3])
             W == Window
  <1>1. W \in Nat \ {0, 1} /\ index \in 0..W - 1 /\ lastDiff \in Nat
    BY StatusAssumption DEF StreamFits
  <1>2. /\ seen[1] \in Nat /\ seen[2] \in Nat /\ seen[3] \in Nat /\ seen[4] \in Nat
    <2>1. seen \in Seq(Nat) /\ Len(seen) = 4
      BY DEF SeenFits, Report, Loads
    <2>2. \A k \in 1..Len(seen) : seen[k] \in Nat
      BY <2>1, ElementOfSeq
    <2> QED
      BY <2>1, <2>2
  <1>3. diff \in Nat
    BY <1>2 DEF AbsDiff
  <1>4. /\ diffHistory' = [diffHistory EXCEPT ![index] = diff - lastDiff]
        /\ lastDiff' = diff /\ diffs' = Append(Tail(diffs), diff)
        /\ report'.percentage = Percentage(seen[4], seen[2])
        /\ index' = NextIndex(index)
    BY DEF Report
  <1> HIDE DEF diff
  <1>5. index' = (IF index = W - 1 THEN 0 ELSE index + 1) /\ index' \in 0..W - 1
    BY <1>1, <1>4, Around
  <1>6. /\ diffHistory \in [0..W - 1 -> Int] /\ diff - lastDiff \in Int
        /\ diffHistory' \in [0..W - 1 -> Int]
        /\ diffHistory'[index] = diff - lastDiff
        /\ \A i \in 0..W - 1 : i # index => diffHistory'[i] = diffHistory[i]
    BY <1>1, <1>3, <1>4 DEF StreamFits
  <1>7. /\ diffs \in Seq(Nat) /\ Len(diffs) = W + 1
        /\ lastDiff = diffs[W + 1]
        /\ \A i \in 0..W - 1 : diffHistory[i] = diffs[Age(i) + 2] - diffs[Age(i) + 1]
    BY DEF StreamFits
  <1>8. /\ diffs' \in Seq(Nat) /\ Len(diffs') = W + 1
        /\ diffs'[W + 1] = diff
        /\ \A k \in 1..W : diffs'[k] = diffs[k + 1]
    <2>1. diffs # <<>>
      BY <1>1, <1>7
    <2>2. /\ Tail(diffs) \in Seq(Nat) /\ Len(Tail(diffs)) = W
          /\ \A k \in 1..W : Tail(diffs)[k] = diffs[k + 1]
      BY <1>1, <1>7, <2>1
    <2> QED
      BY <1>1, <1>3, <1>4, <2>2
  <1>9. /\ diffs[1] \in Nat /\ diffs[2] \in Nat
        /\ \A k \in 1..W + 1 : diffs[k] \in Nat
    BY <1>1, <1>7
  <1>10. WindowTelescopes'
    <2>1. SumOf(diffHistory') = SumOf(diffHistory) - diffHistory[index] + (diff - lastDiff)
      <3> DEFINE v == diff - lastDiff
      <3>1. \A h \in [0..Window - 1 -> Int], i \in 0..Window - 1, x \in Int :
               SumOf([h EXCEPT ![i] = x]) = SumOf(h) - h[i] + x
        BY SumUpdate
      <3>2. diffHistory \in [0..Window - 1 -> Int] /\ v \in Int /\ index \in 0..Window - 1
        BY <1>1, <1>6
      <3>3. diffHistory' = [diffHistory EXCEPT ![index] = v]
        BY <1>4
      <3> HIDE DEF v
      <3>4. SumOf([diffHistory EXCEPT ![index] = v]) = SumOf(diffHistory) - diffHistory[index] + v
        BY <3>1, <3>2, Zenon
      <3> QED
        BY <3>3, <3>4, Zenon DEF v
    <2>2. Age(index) = 0
      BY <1>1 DEF Age
    <2>3. diffHistory[index] = diffs[2] - diffs[1]
      BY <1>1, <1>7, <2>2
    <2>4. SumOf(diffHistory) = lastDiff - diffs[1]
      BY DEF StreamFits, WindowTelescopes
    <2>5. diffs'[1] = diffs[2]
      BY <1>1, <1>8
    <2>6. SumOf(diffHistory') = diff - diffs'[1]
      BY <1>1, <1>3, <1>9, <2>1, <2>3, <2>4, <2>5
    <2>7. SumOf(diffHistory)' = SumOf(diffHistory')
      BY DEF SumOf
    <2> QED
      BY <1>4, <2>6, <2>7 DEF WindowTelescopes
  <1>11. \A i \in 0..W - 1 : diffHistory'[i] = diffs'[Age(i)' + 2] - diffs'[Age(i)' + 1]
    <2> SUFFICES ASSUME NEW i \in 0..W - 1
                 PROVE  diffHistory'[i] = diffs'[Age(i)' + 2] - diffs'[Age(i)' + 1]
      OBVIOUS
    <2>1. CASE i = index
      <3>1. Age(i)' = W - 1
        BY <1>1, <1>5, <2>1 DEF Age
      <3>2. diffs'[W] = diffs[W + 1]
        BY <1>1, <1>8
      <3> QED
        BY <1>1, <1>6, <1>7, <1>8, <2>1, <3>1, <3>2
    <2>2. CASE i # index
      <3>1. Age(i) \in 1..W - 1 /\ Age(i)' = Age(i) - 1
        BY <1>1, <1>5, <2>2 DEF Age
      <3> DEFINE k == Age(i)
      <3>2. diffs'[k + 1] = diffs[k + 2] /\ diffs'[k] = diffs[k + 1]
        <4> HIDE DEF k
        <4>1. k \in 1..W - 1
          BY <3>1 DEF k
        <4> QED
          BY <1>1, <1>8, <4>1
      <3>3. (k - 1) + 2 = k + 1 /\ (k - 1) + 1 = k
        BY <3>1
      <3> QED
        BY <1>6, <1>7, <2>2, <3>1, <3>2, <3>3
    <2> QED
      BY <2>1, <2>2
  <1>12. report'.percentage \in Nat
    BY <1>2, <1>4, PercentageTyped
  <1> QED
    BY <1>1, <1>3, <1>4, <1>5, <1>6, <1>8, <1>10, <1>11, <1>12 DEF StreamFits

\* The stream has the last changes of the distance in its ring, always.
THEOREM StreamInvariance == Spec => []StreamFits
  <1>1. IInv /\ StreamFits /\ [Next]_vars => StreamFits'
    <2> SUFFICES ASSUME IInv, StreamFits, [Next]_vars PROVE StreamFits'
      OBVIOUS
    <2>1. CASE Report
      BY <2>1, ReportKeepsWindow DEF IInv
    <2>2. CASE HandleReply \/ StoreOne \/ LoadOne \/ UNCHANGED vars
      <3>1. UNCHANGED stream
        BY <2>2 DEF HandleReply, StoreOne, LoadOne, vars
      <3>2. UNCHANGED <<diffHistory, index, lastDiff, report, diffs>>
        BY <3>1 DEF stream
      <3> QED
        BY <3>2 DEF StreamFits, WindowTelescopes, Age, SumOf
    <2> QED
      BY <2>1, <2>2 DEF Next, Reader
  <1> QED
    BY <1>1, InitStreamFits, Invariance, PTL DEF Spec

\* The changes in the window add up to the change of the distance over as many
\* reports (sync_status, mod.rs 155), wherever the ring has wrapped around and
\* for every length of the window.
THEOREM WindowAddsUp == Spec => []WindowTelescopes
  <1>1. StreamFits => WindowTelescopes
    BY DEF StreamFits
  <1> QED
    BY <1>1, StreamInvariance, PTL

\* The types of the reply, the cells, the loads, the window and the report.
THEOREM TypeCorrect == Spec => []TypeOK
  <1>1. IInv /\ StreamFits => TypeOK
    <2> SUFFICES ASSUME IInv, StreamFits PROVE TypeOK
      OBVIOUS
    <2>1. /\ transport \in {"N2N", "N2C"}
          /\ {point, tip, before[1], before[2]} \subseteq Block
          /\ cell \in [Cells -> Nat \cup {None}]
      BY DEF IInv, Typed
    <2>2. point \in Ancestors[tip] \/ replies = 0
      BY DEF IInv, Typed, ReplyFits
    <2>3. seen \in Seq(Nat) /\ Len(seen) <= Len(Loads)
      BY DEF IInv, SeenFits, Loads
    <2>4. index \in DOMAIN diffHistory /\ lastDiff \in Nat
          /\ (report = None \/ report.percentage \in Nat)
      BY DEF StreamFits
    <2> QED
      BY <2>1, <2>2, <2>3, <2>4 DEF TypeOK
  <1> QED
    BY <1>1, Invariance, StreamInvariance, PTL
=============================================================================
