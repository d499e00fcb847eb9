-------------------------- MODULE ChainSyncProofs --------------------------
(***************************************************************************)
(* Proofs about ChainSync for every block tree, every number of forks and  *)
(* faults, and both transports.  The inductive invariant says where the    *)
(* node's cursor is relative to what the workers have handled, counting    *)
(* the reply in flight and the event in the workers' hands.                *)
(***************************************************************************)
EXTENDS ChainSync, SequenceTheorems, FiniteSetTheorems, TLAPS

(***************************************************************************)
(* The inductive invariant.                                                *)
(***************************************************************************)

\* Where run is decides whether there is a client and an event.
Control ==
    /\ pc # "panicked"
    /\ pc \in {"connecting", "retrying"} => ~conn
    /\ pc \in {"waiting", "fetching", "storing", "dispatching"} => conn
    /\ pc \in {"storing", "dispatching"} => event \in Event
    /\ pc \notin {"storing", "dispatching"} => event = None
    /\ pc = "storing" => event.kind # "Noop" /\ stores # <<>>
    /\ pc = "fetching" =>
          /\ proto = "Idle"
          /\ reply # None
          /\ reply \in [kind : {"Forward"}, point : Block, tip : Block]

\* The block a worker will have handled once the event in hand is handled.
Held(w) == IF pc \in {"storing", "dispatching"} /\ event.kind # "Noop"
           THEN event.point ELSE followed[w]

\* The same once the reply in flight is handled too.
Ahead(w) == IF reply # None /\ reply.kind # "Await" THEN reply.point ELSE Held(w)

\* The event in hand continues what the workers have handled.
EventFits == \A w \in Workers :
    pc \in {"storing", "dispatching"} =>
        /\ event.kind = "Block" =>
              event.point # Origin /\ Parent[event.point] = followed[w]
        /\ event.kind = "Rollback" => event.point \in Ancestors[followed[w]]

\* The intersect already counts the event in hand.
IntersectFits == \A w \in Workers : intersect = AsPoint(Held(w))

\* The reply in flight continues it, on the chain of the tip it carries.
ReplyFits ==
    reply # None =>
        /\ reply.kind = "Forward" =>
              /\ reply.point # Origin
              /\ \A w \in Workers : Parent[reply.point] = Held(w)
        /\ reply.kind = "Backward" =>
              \A w \in Workers : reply.point \in Ancestors[Held(w)]
        /\ reply.kind # "Await" => reply.point \in Ancestors[reply.tip]

\* The node's cursor is where the client will be, or an ancestor of it that
\* the node has yet to announce.
CursorFits ==
    conn =>
        /\ cursor \in Ancestors[tip]
        /\ \A w \in Workers :
              IF rollPending THEN cursor \in Ancestors[Ahead(w)]
                             ELSE cursor = Ahead(w)

\* What a cell holds once a reply is stored that has become event e, with the
\* tip t.
Final(e, over, t, c) ==
    CASE c = "tipNumber" -> Number(t)
      [] c = "tipSlot" -> Slot[t]
      [] c = "slot" -> IF e.kind = "Rollback" /\ e.point = Origin /\ over = "N2N"
                       THEN None ELSE Slot[e.point]
      [] c = "number" -> IF e.kind = "Block" THEN Number(e.point) ELSE None

Entry == Cells \X (Nat \cup {None})
FinalEntry(e, over, t) == {x \in Entry : x[2] = Final(e, over, t, x[1])}

\* A cell is named by a store still to be done.
Pending(s, c) == \E k \in DOMAIN s : s[k][1] = c

\* While a reply is stored, each cell has its new value or is yet to get it.
StoresFit ==
    pc = "storing" =>
        \E t \in Block :
            /\ event.point \in Ancestors[t]
            /\ stores \in Seq(FinalEntry(event, transport, t))
            /\ \A c \in Cells : \/ cell[c] = Final(event, transport, t, c)
                               \/ Pending(stores, c)

IInv ==
    /\ TypeOK
    /\ Control
    /\ EventFits
    /\ IntersectFits
    /\ ReplyFits
    /\ CursorFits
    /\ StoresFit
    /\ PublishedOnOneChain

\* Cancelling workers is harmless only if there is just one of them.
NoneCancelled == Concurrent => \E w \in Workers : Workers = {w}

(***************************************************************************)
(* Facts about the block tree.                                             *)
(***************************************************************************)

\* Ancestry is a partial order with Origin at its bottom, along which slots
\* do not decrease (what connect and the roll back check rely on).
LEMMA AncestorFacts ==
  ASSUME NEW b \in Block
  PROVE  /\ Ancestors[b] \subseteq Block
         /\ b \in Ancestors[b]
         /\ Origin \in Ancestors[b]
         /\ \A a \in Ancestors[b] : /\ Ancestors[a] \subseteq Ancestors[b]
                                    /\ Slot[a] <= Slot[b]
  <1>1. b \in Ancestors[b]
    BY AncestorsAssumption
  <1>2. QED
    BY <1>1, AncestorsAssumption, ChainAssumption, SlotAssumption

(***************************************************************************)
(* Facts about the stores.                                                 *)
(***************************************************************************)

\* Blocks are numbered by naturals.
LEMMA NumberTyped ==
  ASSUME NEW b \in Block
  PROVE  Number(b) \in Nat
  <1>1. IsFiniteSet(Ancestors[b]) /\ Cardinality(Ancestors[b]) \in Nat
    BY FiniteChainAssumption, FS_CardinalityType
  <1>2. Cardinality(Ancestors[b]) # 0
    BY <1>1, FS_EmptySet, ChainAssumption
  <1> QED
    BY <1>1, <1>2 DEF Number

\* The elements of two pairs put together.
LEMMA TwoPairs ==
  ASSUME NEW T, NEW a \in T, NEW b \in T, NEW c \in T, NEW d \in T,
         NEW s, s = <<a, b>> \o <<c, d>>
  PROVE  /\ s \in Seq(T) /\ Len(s) = 4
         /\ s[1] = a /\ s[2] = b /\ s[3] = c /\ s[4] = d
  <1>1. <<a, b>> \in Seq(T) /\ <<c, d>> \in Seq(T) /\ Len(<<a, b>>) = 2 /\ Len(<<c, d>>) = 2
    OBVIOUS
  <1> QED
    BY <1>1

\* Four stores, one for each cell, possibly followed by others.
LEMMA EachCellStored ==
  ASSUME NEW T, NEW a \in T, NEW b \in T, NEW c \in T, NEW d \in T,
         Cells = {a[1], b[1], c[1], d[1]},
         NEW s, NEW more \in Seq(T),
         s = <<a, b>> \o <<c, d>> \/ s = (<<a, b>> \o <<c, d>>) \o more
  PROVE  s \in Seq(T) /\ s # <<>> /\ \A x \in Cells : Pending(s, x)
  <1> DEFINE four == <<a, b>> \o <<c, d>>
  <1>1. /\ four \in Seq(T) /\ Len(four) = 4
        /\ four[1] = a /\ four[2] = b /\ four[3] = c /\ four[4] = d
    BY TwoPairs
  <1> HIDE DEF four
  <1>2. s = four \/ s = four \o more
    BY DEF four
  <1>3. s \in Seq(T) /\ Len(s) >= 4 /\ s[1] = a /\ s[2] = b /\ s[3] = c /\ s[4] = d
    <2>1. CASE s = four
      <3>1. four[1] = s[1] /\ four[2] = s[2] /\ four[3] = s[3] /\ four[4] = s[4]
        BY <2>1, Zenon
      <3>2. s \in Seq(T) /\ Len(s) = 4
        BY <1>1, <2>1, Zenon
      <3>3. Len(s) >= 4
        BY <3>2
      <3> QED
        BY <1>1, <3>1, <3>2, <3>3, Zenon
    <2>2. CASE s = four \o more
      <3>1. Len(more) \in Nat
        BY LenProperties
      <3> DEFINE all == four \o more
      <3>2. /\ all \in Seq(T) /\ Len(all) = Len(four) + Len(more)
            /\ \A i \in 1 .. Len(four) + Len(more) :
                  all[i] = IF i <= Len(four) THEN four[i] ELSE more[i - Len(four)]
        BY <1>1, ConcatProperties
      <3> HIDE DEF all
      <3>3. /\ Len(all) >= 4
            /\ all[1] = four[1] /\ all[2] = four[2] /\ all[3] = four[3] /\ all[4] = four[4]
        BY <1>1, <3>1, <3>2
      <3>4. s = all
        BY <2>2 DEF all
      <3> QED
        BY <1>1, <3>2, <3>3, <3>4
    <2> QED
      BY <1>2, <2>1, <2>2
  <1>4. 1 \in DOMAIN s /\ 2 \in DOMAIN s /\ 3 \in DOMAIN s /\ 4 \in DOMAIN s
    BY <1>3
  <1>5. s # <<>>
    BY <1>3
  <1> QED
    BY <1>3, <1>4, <1>5 DEF Pending

\* A block is stored with its number and its tip, on both transports.
LEMMA ForwardStoresFinal ==
  ASSUME NEW b \in Block, NEW t \in Block, transport \in {"N2N", "N2C"},
         NEW e, e.kind = "Block", e.point = b,
         NEW s, s = ForwardStores(transport, b, t)
  PROVE  /\ s \in Seq(FinalEntry(e, transport, t)) /\ s # <<>>
         /\ \A c \in Cells : Pending(s, c)
  <1> DEFINE T == FinalEntry(e, transport, t)
             tn == <<"tipNumber", Number(t)>>
             ts == <<"tipSlot", Slot[t]>>
             sl == <<"slot", Slot[b]>>
             n == <<"number", Number(b)>>
  <1>1. Number(t) \in Nat /\ Number(b) \in Nat /\ Slot[t] \in Nat /\ Slot[b] \in Nat
    BY NumberTyped, SlotAssumption
  <1>2. tn \in T /\ ts \in T /\ sl \in T /\ n \in T
    BY <1>1 DEF FinalEntry, Entry, Final, Cells
  <1>3. tn[1] = "tipNumber" /\ ts[1] = "tipSlot" /\ sl[1] = "slot" /\ n[1] = "number"
    OBVIOUS
  <1>4. s = <<tn, ts>> \o <<sl, n>> \/ s = <<sl, n>> \o <<tn, ts>>
    BY DEF ForwardStores, TipStores, Store
  <1>5. <<>> \in Seq(T)
    OBVIOUS
  <1>6. Cells = {tn[1], ts[1], sl[1], n[1]} /\ Cells = {sl[1], n[1], tn[1], ts[1]}
    BY <1>3 DEF Cells
  <1> HIDE DEF T, tn, ts, sl, n
  <1>7. CASE s = <<tn, ts>> \o <<sl, n>>
    BY <1>2, <1>5, <1>6, <1>7, EachCellStored DEF T
  <1>8. CASE s = <<sl, n>> \o <<tn, ts>>
    BY <1>2, <1>5, <1>6, <1>8, EachCellStored DEF T
  <1> QED
    BY <1>4, <1>7, <1>8

\* A roll back is stored with its slot, if it has one, without a number, and
\* with its tip, once or twice.
LEMMA RollBackStoresFinal ==
  ASSUME NEW b \in Block, NEW t \in Block, transport \in {"N2N", "N2C"},
         NEW e, e.kind = "Rollback", e.point = b,
         NEW s, s = RollBackStores(transport, b, t)
  PROVE  /\ s \in Seq(FinalEntry(e, transport, t)) /\ s # <<>>
         /\ \A c \in Cells : Pending(s, c)
  <1> DEFINE T == FinalEntry(e, transport, t)
             tn == <<"tipNumber", Number(t)>>
             ts == <<"tipSlot", Slot[t]>>
             v == IF b = Origin /\ transport = "N2N" THEN None ELSE Slot[b]
             sl == <<"slot", v>>
             n == <<"number", None>>
  <1>1. Number(t) \in Nat /\ Slot[t] \in Nat /\ v \in Nat \cup {None}
    BY NumberTyped, SlotAssumption
  <1>2. tn \in T /\ ts \in T /\ sl \in T /\ n \in T
    BY <1>1 DEF FinalEntry, Entry, Final, Cells
  <1>3. tn[1] = "tipNumber" /\ ts[1] = "tipSlot" /\ sl[1] = "slot" /\ n[1] = "number"
    OBVIOUS
  <1>4. \/ s = <<tn, ts>> \o <<sl, n>>
        \/ s = <<sl, n>> \o <<tn, ts>>
        \/ s = (<<tn, ts>> \o <<sl, n>>) \o <<tn, ts>>
    <2>1. CASE transport = "N2N" /\ b = Origin
      BY <2>1 DEF RollBackStores, TipStores, Store
    <2>2. CASE transport = "N2N" /\ b # Origin
      BY <2>2 DEF RollBackStores, TipStores, Store
    <2>3. CASE transport = "N2C" /\ b = Origin
      BY <2>3, SlotAssumption DEF RollBackStores, TipStores, Store
    <2>4. CASE transport = "N2C" /\ b # Origin
      BY <2>4 DEF RollBackStores, TipStores, Store
    <2> QED
      BY <2>1, <2>2, <2>3, <2>4
  <1>5. <<tn, ts>> \in Seq(T)
    BY <1>2
  <1>6. Cells = {tn[1], ts[1], sl[1], n[1]} /\ Cells = {sl[1], n[1], tn[1], ts[1]}
    BY <1>3 DEF Cells
  <1> HIDE DEF T, tn, ts, sl, n
  <1>7. CASE s = <<tn, ts>> \o <<sl, n>> \/ s = (<<tn, ts>> \o <<sl, n>>) \o <<tn, ts>>
    BY <1>2, <1>5, <1>6, <1>7, EachCellStored DEF T
  <1>8. CASE s = <<sl, n>> \o <<tn, ts>>
    BY <1>2, <1>5, <1>6, <1>8, EachCellStored DEF T
  <1> QED
    BY <1>4, <1>7, <1>8

\* Stores of a reply are stores.
LEMMA EntriesTyped ==
  ASSUME NEW e, NEW over, NEW t, NEW s \in Seq(FinalEntry(e, over, t))
  PROVE  s \in Seq(Cells \X (Nat \cup {None}))
  <1>1. FinalEntry(e, over, t) \subseteq Entry
    BY DEF FinalEntry
  <1> QED
    BY <1>1, SeqMonotonic DEF Entry

\* IInv holds before the first connection: there is no client, no reply
\* and no event yet.
LEMMA InitIInv == Init => IInv
  <1> SUFFICES ASSUME Init PROVE IInv
    OBVIOUS
  <1>1. TypeOK
    <2>1. switches \in 0..MaxSwitches /\ faults \in 0..MaxFaults
      BY BoundsAssumption DEF Init
    <2>2. followed \in [Workers -> Block] /\ intersect \in Block \cup {None}
      BY DEF Init, AsPoint
    <2>3. cell \in [Cells -> Nat \cup {None}]
      BY DEF Init
    <2>4. stores \in Seq(Cells \X (Nat \cup {None}))
      BY EmptySeq DEF Init
    <2>5. cursor \in Block
      BY OriginAssumption DEF Init
    <2> QED
      BY <2>1, <2>2, <2>3, <2>4, <2>5 DEF Init, TypeOK
  <1>2. Control /\ ReplyFits /\ CursorFits /\ StoresFit /\ PublishedOnOneChain
    BY DEF Init, Control, ReplyFits, CursorFits, StoresFit, PublishedOnOneChain
  <1>3. EventFits /\ IntersectFits
    BY DEF Init, EventFits, IntersectFits, Held
  <1> QED
    BY <1>1, <1>2, <1>3 DEF IInv

(***************************************************************************)
(* Every step keeps the inductive invariant: one lemma per action.         *)
(***************************************************************************)

\* connect puts the cursor on the intersect, which is what the workers have
\* handled, or on the origin, which is an ancestor of everything.
LEMMA ConnectKeeps == IInv /\ Connect => IInv'
  <1> SUFFICES ASSUME IInv, Connect PROVE IInv'
    OBVIOUS
  <1> USE DEF IInv, Connect
  <1>1. TypeOK'
    BY OriginAssumption DEF TypeOK
  <1>2. /\ Control' /\ EventFits' /\ IntersectFits' /\ ReplyFits'
        /\ StoresFit' /\ PublishedOnOneChain'
    BY DEF Control, EventFits, IntersectFits, ReplyFits, StoresFit,
           PublishedOnOneChain, Held
  <1>3. CursorFits'
    <2>1. cursor' \in Ancestors[tip]
      BY AncestorFacts DEF TypeOK
    <2>2. ASSUME NEW w \in Workers PROVE cursor' \in Ancestors[followed[w]]
      <3>1. followed[w] \in Block /\ intersect = AsPoint(followed[w])
        BY DEF TypeOK, IntersectFits, Held
      <3> QED
        BY <3>1, AncestorFacts DEF AsPoint
    <2>3. \A w \in Workers : Ahead(w)' = followed[w]
      BY DEF Ahead, Held
    <2> QED
      BY <2>1, <2>2, <2>3 DEF CursorFits
  <1> QED
    BY <1>1, <1>2, <1>3

\* A failed connection leaves everything but the program counter alone.
LEMMA ConnectFailsKeeps == IInv /\ ConnectFails => IInv'
  <1> SUFFICES ASSUME IInv, ConnectFails PROVE IInv'
    OBVIOUS
  <1>1. TypeOK'
    <2>1. faults' \in 0..MaxFaults
      BY BoundsAssumption DEF IInv, TypeOK, ConnectFails
    <2> QED
      BY <2>1 DEF IInv, TypeOK, ConnectFails
  <1> QED
    BY <1>1 DEF IInv, Control, ConnectFails, EventFits, IntersectFits, Held,
                ReplyFits, CursorFits, StoresFit, PublishedOnOneChain

\* next without a client drops nothing and goes on to reconnect.
LEMMA NextNotConnectedKeeps == IInv /\ NextNotConnected => IInv'
  <1> SUFFICES ASSUME IInv, NextNotConnected PROVE IInv'
    OBVIOUS
  <1> QED
    BY DEF IInv, TypeOK, Control, NextNotConnected, DropClient, EventFits,
           IntersectFits, Held, ReplyFits, CursorFits, StoresFit, PublishedOnOneChain

\* A failed request drops the connection with the reply it may carry; the
\* intersect still is the last handled block.
LEMMA RequestFailsKeeps == IInv /\ RequestFails => IInv'
  <1> SUFFICES ASSUME IInv, RequestFails PROVE IInv'
    OBVIOUS
  <1>1. TypeOK'
    <2>1. faults' \in 0..MaxFaults
      BY BoundsAssumption DEF IInv, TypeOK, RequestFails
    <2> QED
      BY <2>1 DEF IInv, TypeOK, RequestFails, DropClient
  <1> QED
    BY <1>1 DEF IInv, Control, RequestFails, DropClient, EventFits,
                IntersectFits, Held, ReplyFits, CursorFits, StoresFit, PublishedOnOneChain

\* A request hands the agency to the node and moves nothing else.
LEMMA RequestKeeps == IInv /\ Request => IInv'
  <1> SUFFICES ASSUME IInv, Request PROVE IInv'
    OBVIOUS
  <1> USE DEF IInv, Request
  <1>1. TypeOK' /\ Control' /\ EventFits' /\ IntersectFits' /\ StoresFit' /\ PublishedOnOneChain'
    BY DEF TypeOK, Control, EventFits, IntersectFits, Held, StoresFit, PublishedOnOneChain
  <1>2. \A w \in Workers : Held(w)' = Held(w) /\ Ahead(w)' = Ahead(w)
    BY DEF Held, Ahead
  <1>3. ReplyFits' /\ CursorFits'
    BY <1>2 DEF ReplyFits, CursorFits
  <1> QED
    BY <1>1, <1>3

\* Await becomes a Noop, which no worker moves on.
LEMMA HandleAwaitKeeps == IInv /\ HandleAwait => IInv'
  <1> SUFFICES ASSUME IInv, HandleAwait PROVE IInv'
    OBVIOUS
  <1> USE DEF IInv, HandleAwait
  <1>1. TypeOK' /\ Control' /\ EventFits' /\ IntersectFits' /\ StoresFit' /\ PublishedOnOneChain'
    BY DEF TypeOK, Control, Event, EventFits, IntersectFits, Held,
           StoresFit, PublishedOnOneChain
  <1>2. \A w \in Workers : Held(w)' = Held(w) /\ Ahead(w)' = Ahead(w)
    BY DEF Held, Ahead
  <1>3. ReplyFits' /\ CursorFits'
    BY <1>2 DEF ReplyFits, CursorFits
  <1> QED
    BY <1>1, <1>3

\* The block at hand extends the intersect, which becomes that block, and all
\* four cells are to be stored.
LEMMA TakeBlockKeeps ==
  ASSUME IInv, TakeBlock, pc \in {"waiting", "fetching"},
         conn, reply # None, reply.kind = "Forward",
         proto' \in {"Idle", "CanAwait", "MustReply"},
         UNCHANGED <<transport, conn, followed, start, tip, cursor, rollPending,
                     switches, faults>>
  PROVE  IInv'
  <1> USE DEF IInv
  <1>1. /\ pc' = "storing" /\ reply' = None /\ intersect' = reply.point /\ cell' = cell
        /\ stores' = ForwardStores(transport, reply.point, reply.tip)
        /\ event' = [kind |-> "Block", point |-> reply.point]
    BY DEF TakeBlock
  <1>2. /\ reply.point \in Block /\ reply.tip \in Block
        /\ transport \in {"N2N", "N2C"}
        /\ reply.point # Origin /\ reply.point \in Ancestors[reply.tip]
    BY DEF TypeOK, Reply, ReplyFits
  <1>3. /\ event'.kind = "Block" /\ event'.point = reply.point /\ event' \in Event
    BY <1>1, <1>2 DEF Event
  <1>4. /\ stores' \in Seq(FinalEntry(event', transport, reply.tip)) /\ stores' # <<>>
        /\ \A c \in Cells : Pending(stores', c)
    BY <1>1, <1>2, <1>3, ForwardStoresFinal
  <1>5. TypeOK'
    <2>1. stores' \in Seq(Cells \X (Nat \cup {None}))
      BY <1>4, EntriesTyped
    <2> QED
      BY <1>1, <1>2, <1>3, <2>1 DEF TypeOK
  <1>6. Control'
    BY <1>1, <1>3, <1>4 DEF Control
  <1>7. EventFits' /\ IntersectFits'
    <2>1. \A w \in Workers : Held(w) = followed[w]
      BY DEF Held
    <2>2. \A w \in Workers : Parent[reply.point] = followed[w]
      BY <2>1 DEF ReplyFits
    <2>3. \A w \in Workers : Held(w)' = reply.point
      BY <1>1, <1>3 DEF Held
    <2>4. EventFits'
      BY <1>2, <1>3, <2>2 DEF EventFits
    <2>5. IntersectFits'
      BY <1>1, <1>2, <2>3 DEF IntersectFits, AsPoint
    <2> QED
      BY <2>4, <2>5
  <1>8. ReplyFits'
    BY <1>1 DEF ReplyFits
  <1>9. CursorFits'
    BY <1>1, <1>3 DEF CursorFits, Held, Ahead
  <1>10. StoresFit' /\ PublishedOnOneChain'
    BY <1>1, <1>2, <1>3, <1>4 DEF StoresFit, PublishedOnOneChain
  <1> QED
    BY <1>5, <1>6, <1>7, <1>8, <1>9, <1>10

\* A block from a socket is at hand at once.
LEMMA HandleForwardN2CKeeps == IInv /\ HandleForwardN2C => IInv'
  <1> SUFFICES ASSUME IInv, HandleForwardN2C PROVE IInv'
    OBVIOUS
  <1>1. conn /\ pc \in {"waiting", "fetching"}
    BY DEF IInv, Control, HandleForwardN2C
  <1> QED
    BY <1>1, TakeBlockKeeps DEF HandleForwardN2C

\* A header from a peer leaves the reply in place while its block is fetched.
LEMMA HandleForwardN2NKeeps == IInv /\ HandleForwardN2N => IInv'
  <1> SUFFICES ASSUME IInv, HandleForwardN2N PROVE IInv'
    OBVIOUS
  <1> USE DEF IInv, HandleForwardN2N
  <1>1. TypeOK' /\ EventFits' /\ IntersectFits' /\ StoresFit' /\ PublishedOnOneChain'
    BY DEF TypeOK, Control, EventFits, IntersectFits, Held, StoresFit, PublishedOnOneChain
  <1>2. Control'
    BY DEF TypeOK, Control, Reply
  <1>3. \A w \in Workers : Held(w)' = Held(w) /\ Ahead(w)' = Ahead(w)
    BY DEF Held, Ahead
  <1>4. ReplyFits' /\ CursorFits'
    BY <1>3 DEF ReplyFits, CursorFits
  <1> QED
    BY <1>1, <1>2, <1>4

\* A failed fetch drops the connection and the header, not the intersect.
LEMMA FetchFailsKeeps == IInv /\ FetchFails => IInv'
  <1> SUFFICES ASSUME IInv, FetchFails PROVE IInv'
    OBVIOUS
  <1>1. TypeOK'
    <2>1. faults' \in 0..MaxFaults
      BY BoundsAssumption DEF IInv, TypeOK, FetchFails
    <2> QED
      BY <2>1 DEF IInv, TypeOK, FetchFails, DropClient
  <1> QED
    BY <1>1 DEF IInv, Control, FetchFails, DropClient, EventFits,
                IntersectFits, Held, ReplyFits, CursorFits, StoresFit, PublishedOnOneChain

\* The fetched block is at hand, and the reply still is its header.
LEMMA BlockFetchedKeeps == IInv /\ BlockFetched => IInv'
  <1> SUFFICES ASSUME IInv, BlockFetched PROVE IInv'
    OBVIOUS
  <1>1. /\ conn /\ reply # None /\ reply.kind = "Forward"
        /\ pc \in {"waiting", "fetching"}
        /\ proto \in {"Idle", "CanAwait", "MustReply"}
    BY DEF IInv, TypeOK, Control, BlockFetched
  <1> QED
    BY <1>1, TakeBlockKeeps DEF BlockFetched

\* The check of handle_sync_response never fires.
LEMMA NeverAboveIntersect ==
  ASSUME IInv, HandleRollBack
  PROVE  ~AboveIntersect(reply.point)
  <1> PICK w \in Workers : TRUE
    BY WorkersAssumption
  <1>1. Held(w) \in Block /\ intersect = AsPoint(Held(w))
    BY DEF IInv, TypeOK, HandleRollBack, Held, IntersectFits
  <1>2. reply.point \in Ancestors[Held(w)]
    BY DEF IInv, HandleRollBack, ReplyFits
  <1>3. Slot[reply.point] <= Slot[Held(w)]
    BY <1>1, <1>2, AncestorFacts
  <1>4. reply.point \in Block
    BY <1>1, <1>2, AncestorFacts
  <1> QED
    BY <1>1, <1>3, <1>4, SlotAssumption DEF AboveIntersect, AsPoint

\* A roll back takes the intersect to a block the workers have handled, and
\* all four cells are to be stored.
LEMMA HandleRollBackKeeps == IInv /\ HandleRollBack => IInv'
  <1> SUFFICES ASSUME IInv, HandleRollBack PROVE IInv'
    OBVIOUS
  <1> USE DEF IInv
  <1>1. /\ pc = "waiting" /\ pc' = "storing"
        /\ reply # None /\ reply.kind = "Backward" /\ reply' = None
        /\ proto' = "Idle"
        /\ intersect' = AsPoint(reply.point)
        /\ stores' = RollBackStores(transport, reply.point, reply.tip)
        /\ event' = [kind |-> "Rollback", point |-> reply.point]
        /\ UNCHANGED <<transport, conn, cell, followed, start, tip, cursor,
                       rollPending, switches, faults>>
    BY NeverAboveIntersect DEF HandleRollBack
  <1>2. /\ reply.point \in Block /\ reply.tip \in Block
        /\ transport \in {"N2N", "N2C"}
        /\ reply.point \in Ancestors[reply.tip]
    BY <1>1 DEF TypeOK, Reply, ReplyFits
  <1>3. /\ event'.kind = "Rollback" /\ event'.point = reply.point /\ event' \in Event
    BY <1>1, <1>2 DEF Event
  <1>4. /\ stores' \in Seq(FinalEntry(event', transport, reply.tip)) /\ stores' # <<>>
        /\ \A c \in Cells : Pending(stores', c)
    BY <1>1, <1>2, <1>3, RollBackStoresFinal
  <1>5. TypeOK'
    <2>1. stores' \in Seq(Cells \X (Nat \cup {None}))
      BY <1>4, EntriesTyped
    <2> QED
      BY <1>1, <1>2, <1>3, <2>1 DEF TypeOK, AsPoint
  <1>6. Control'
    BY <1>1, <1>3, <1>4 DEF Control
  <1>7. EventFits' /\ IntersectFits'
    BY <1>1, <1>3 DEF EventFits, IntersectFits, ReplyFits, Held
  <1>8. ReplyFits'
    BY <1>1 DEF ReplyFits
  <1>9. CursorFits'
    BY <1>1, <1>3 DEF CursorFits, Held, Ahead
  <1>10. StoresFit' /\ PublishedOnOneChain'
    BY <1>1, <1>2, <1>3, <1>4 DEF StoresFit, PublishedOnOneChain
  <1> QED
    BY <1>5, <1>6, <1>7, <1>8, <1>9, <1>10

\* When every cell has its final value, the status is that of the event.
LEMMA AllFinal ==
  ASSUME NEW b \in Block, NEW t \in Block, b \in Ancestors[t],
         NEW e, e.point = b, e.kind \in {"Block", "Rollback"},
         NEW cells, \A c \in Cells : cells[c] = Final(e, transport, t, c)
  PROVE  /\ cells["tipNumber"] = Number(t)
         /\ cells["tipSlot"] = Slot[t]
         /\ \/ cells["slot"] = Slot[b]
            \/ cells["slot"] = None /\ b = Origin /\ transport = "N2N"
         /\ cells["number"] \in {Number(b), None}
  <1>1. /\ cells["tipNumber"] = Final(e, transport, t, "tipNumber")
        /\ cells["tipSlot"] = Final(e, transport, t, "tipSlot")
        /\ cells["slot"] = Final(e, transport, t, "slot")
        /\ cells["number"] = Final(e, transport, t, "number")
    BY DEF Cells
  <1> QED
    BY <1>1 DEF Final

\* Each store gives a cell its new value, and the last one leaves none with an
\* old one.
LEMMA StoreOneKeeps == IInv /\ StoreOne => IInv'
  <1> SUFFICES ASSUME IInv, StoreOne PROVE IInv'
    OBVIOUS
  <1> USE DEF IInv
  <1> DEFINE x == Head(stores)
  <1>1. /\ pc = "storing" /\ pc' \in {"storing", "dispatching"}
        /\ pc' = "storing" <=> stores' # <<>>
        /\ stores' = Tail(stores)
        /\ cell' = [cell EXCEPT ![x[1]] = x[2]]
        /\ UNCHANGED <<transport, conn, intersect, event, followed, start, proto,
                       reply, tip, cursor, rollPending, switches, faults>>
    BY DEF StoreOne
  <1>2. /\ stores \in Seq(Cells \X (Nat \cup {None})) /\ stores # <<>>
        /\ event \in Event /\ event.kind \in {"Block", "Rollback"} /\ event.point \in Block
        /\ cell \in [Cells -> Nat \cup {None}]
    BY <1>1 DEF TypeOK, Control, Event
  <1>3. x \in Cells \X (Nat \cup {None}) /\ stores' \in Seq(Cells \X (Nat \cup {None}))
    BY <1>1, <1>2
  <1>4. PICK t \in Block :
          /\ event.point \in Ancestors[t]
          /\ stores \in Seq(FinalEntry(event, transport, t))
          /\ \A c \in Cells : \/ cell[c] = Final(event, transport, t, c)
                             \/ Pending(stores, c)
    BY <1>1 DEF StoresFit
  <1>5. /\ x \in FinalEntry(event, transport, t)
        /\ stores' \in Seq(FinalEntry(event, transport, t))
    BY <1>1, <1>2, <1>4, HeadTailProperties
  <1>6. x[1] \in Cells /\ x[2] = Final(event, transport, t, x[1])
    BY <1>3, <1>5 DEF FinalEntry
  <1>7. \A k \in DOMAIN stores :
           k = 1 \/ (k - 1 \in DOMAIN stores' /\ stores'[k - 1] = stores[k])
    <2>1. DOMAIN stores = 1..Len(stores) /\ DOMAIN stores' = 1..Len(stores')
      BY <1>2, <1>3
    <2>2. Len(stores) \in Nat /\ Len(stores') = Len(stores) - 1
      BY <1>1, <1>2, <1>3, HeadTailProperties
    <2>3. \A i \in 1 .. Len(stores') : stores'[i] = stores[i + 1]
      BY <1>1, <1>2, HeadTailProperties
    <2> SUFFICES ASSUME NEW k \in 1..Len(stores), k # 1
                 PROVE  k - 1 \in 1..Len(stores') /\ stores'[k - 1] = stores[k]
      BY <2>1
    <2>4. k - 1 \in 1..Len(stores') /\ (k - 1) + 1 = k
      BY <2>2
    <2> QED
      BY <2>3, <2>4
  <1>8. stores[1] = x
    BY <1>2
  <1> HIDE DEF x
  <1>9. ASSUME NEW c \in Cells
        PROVE  cell'[c] = Final(event, transport, t, c) \/ Pending(stores', c)
    <2>1. CASE c = x[1]
      BY <1>1, <1>2, <1>6, <2>1
    <2>2. CASE c # x[1] /\ cell[c] = Final(event, transport, t, c)
      BY <1>1, <1>2, <2>2
    <2>3. CASE c # x[1] /\ Pending(stores, c)
      BY <1>7, <1>8, <2>3 DEF Pending
    <2> QED
      BY <1>4, <2>1, <2>2, <2>3
  <1>10. TypeOK'
    <2>1. cell' \in [Cells -> Nat \cup {None}]
      BY <1>1, <1>2, <1>3
    <2> QED
      BY <1>1, <1>3, <2>1 DEF TypeOK
  <1>11. Control'
    BY <1>1 DEF Control
  <1>12. \A w \in Workers : Held(w)' = Held(w) /\ Ahead(w)' = Ahead(w)
    BY <1>1 DEF Held, Ahead
  <1>13. EventFits' /\ IntersectFits'
    BY <1>1, <1>12 DEF EventFits, IntersectFits
  <1>14. ReplyFits' /\ CursorFits'
    BY <1>1, <1>12 DEF ReplyFits, CursorFits
  <1>15. StoresFit'
    BY <1>1, <1>4, <1>5, <1>9 DEF StoresFit
  <1>16. PublishedOnOneChain'
    <2> SUFFICES ASSUME pc' # "storing" PROVE PublishedOnOneChain'
      BY DEF PublishedOnOneChain
    <2>1. stores' = <<>>
      BY <1>1
    <2>2. \A c \in Cells : cell'[c] = Final(event, transport, t, c)
      BY <1>9, <2>1 DEF Pending
    <2> PICK w \in Workers : TRUE
      BY WorkersAssumption
    <2>3. intersect = AsPoint(event.point)
      BY <1>1, <1>2 DEF IntersectFits, Held
    <2>4. event.point = IF intersect = None THEN Origin ELSE intersect
      BY <1>2, <2>3, NoneAssumption DEF AsPoint
    <2> DEFINE b == IF intersect = None THEN Origin ELSE intersect
    <2>5. b = event.point /\ b \in Block /\ b \in Ancestors[t]
      BY <1>2, <1>4, <2>4
    <2> HIDE DEF b
    <2>6. /\ cell'["tipNumber"] = Number(t)
          /\ cell'["tipSlot"] = Slot[t]
          /\ \/ cell'["slot"] = Slot[b]
             \/ cell'["slot"] = None /\ b = Origin /\ transport = "N2N"
          /\ cell'["number"] \in {Number(b), None}
      BY <1>2, <2>2, <2>5, AllFinal
    <2> QED
      BY <1>1, <2>5, <2>6 DEF PublishedOnOneChain, b
  <1> QED
    BY <1>10, <1>11, <1>13, <1>14, <1>15, <1>16

\* The roll back the node announces is to its cursor, which is an ancestor
\* of what the workers hold.
LEMMA NodeRollsBackKeeps == IInv /\ NodeRollsBack => IInv'
  <1> SUFFICES ASSUME IInv, NodeRollsBack PROVE IInv'
    OBVIOUS
  <1> USE DEF IInv, NodeRollsBack, Owed, clientVars
  <1>1. TypeOK'
    BY DEF TypeOK, Reply
  <1>2. Control' /\ EventFits' /\ IntersectFits' /\ StoresFit' /\ PublishedOnOneChain'
    BY DEF Control, EventFits, IntersectFits, Held, StoresFit, PublishedOnOneChain
  <1>3. \A w \in Workers : Held(w)' = Held(w) /\ Ahead(w) = Held(w)
    BY DEF Held, Ahead
  <1>4. ReplyFits'
    BY <1>3 DEF ReplyFits, CursorFits
  <1>5. reply' # None /\ reply'.point = cursor /\ reply'.kind = "Backward"
    BY NoneAssumption DEF TypeOK, Reply
  <1>6. CursorFits'
    <2>1. \A w \in Workers : Ahead(w)' = cursor
      BY <1>3, <1>5 DEF Ahead
    <2> QED
      BY <2>1 DEF CursorFits
  <1> QED
    BY <1>1, <1>2, <1>4, <1>6

\* The block the node sends is the child of the block last sent.
LEMMA NodeRollsForwardKeeps == IInv /\ NodeRollsForward => IInv'
  <1> SUFFICES ASSUME IInv, NodeRollsForward PROVE IInv'
    OBVIOUS
  <1> USE DEF IInv, Owed, clientVars
  <1>1. PICK b \in Ancestors[tip] \ {Origin} :
           /\ Parent[b] = cursor
           /\ reply' = [kind |-> "Forward", point |-> b, tip |-> tip]
           /\ cursor' = b
    BY DEF NodeRollsForward
  <1>2. b \in Block
    BY AncestorFacts DEF TypeOK
  <1>3. TypeOK'
    BY <1>1, <1>2 DEF TypeOK, Reply, NodeRollsForward
  <1>4. Control' /\ EventFits' /\ IntersectFits' /\ StoresFit' /\ PublishedOnOneChain'
    BY DEF NodeRollsForward, Control, EventFits, IntersectFits, Held, StoresFit, PublishedOnOneChain
  <1>5. \A w \in Workers : Held(w)' = Held(w) /\ Ahead(w) = Held(w)
    BY DEF NodeRollsForward, Held, Ahead
  <1>6. \A w \in Workers : cursor = Held(w)
    BY <1>5 DEF NodeRollsForward, CursorFits
  <1>7. ReplyFits'
    BY <1>1, <1>5, <1>6 DEF ReplyFits
  <1>8. CursorFits'
    <2>1. reply' # None
      BY <1>1, <1>2, NoneAssumption DEF TypeOK, Reply
    <2> QED
      BY <1>1, <2>1 DEF NodeRollsForward, CursorFits, Ahead
  <1> QED
    BY <1>3, <1>4, <1>7, <1>8

\* Await carries no point.
LEMMA NodeAwaitsKeeps == IInv /\ NodeAwaits => IInv'
  <1> SUFFICES ASSUME IInv, NodeAwaits PROVE IInv'
    OBVIOUS
  <1> USE DEF IInv, NodeAwaits, Owed, clientVars
  <1>1. TypeOK'
    BY DEF TypeOK, Reply
  <1>2. Control' /\ EventFits' /\ IntersectFits' /\ StoresFit' /\ PublishedOnOneChain'
    BY DEF Control, EventFits, IntersectFits, Held, StoresFit, PublishedOnOneChain
  <1>3. \A w \in Workers : Held(w)' = Held(w) /\ Ahead(w)' = Ahead(w)
    BY DEF Held, Ahead
  <1>4. ReplyFits' /\ CursorFits'
    BY <1>3 DEF ReplyFits, CursorFits
  <1> QED
    BY <1>1, <1>2, <1>4

\* A change of the node's chain moves the cursor back to an ancestor only,
\* and a moved cursor is announced before anything else is sent.
LEMMA SwitchTipKeeps == IInv /\ SwitchTip => IInv'
  <1> SUFFICES ASSUME IInv, SwitchTip PROVE IInv'
    OBVIOUS
  <1> USE DEF IInv, clientVars
  <1>1. TypeOK'
    BY BoundsAssumption DEF TypeOK, SwitchTip
  <1>2. Control' /\ EventFits' /\ IntersectFits' /\ ReplyFits' /\ StoresFit' /\ PublishedOnOneChain'
    BY DEF SwitchTip, Control, EventFits, IntersectFits, ReplyFits, Held, StoresFit, PublishedOnOneChain
  <1>3. CursorFits'
    <2> SUFFICES ASSUME conn PROVE CursorFits'
      BY DEF SwitchTip, CursorFits
    <2>1. /\ cursor' \in Ancestors[cursor]
          /\ cursor' \in Ancestors[tip']
          /\ rollPending' = (rollPending \/ cursor' # cursor)
      BY DEF SwitchTip, IsForkPoint
    <2>2. ASSUME NEW w \in Workers
          PROVE  IF rollPending' THEN cursor' \in Ancestors[Ahead(w)] ELSE cursor' = Ahead(w)
      <3>1. Ahead(w) \in Block
        BY DEF TypeOK, Control, Ahead, Held, Reply, Event
      <3>2. cursor \in Ancestors[Ahead(w)]
        BY <3>1, AncestorFacts DEF CursorFits
      <3> QED
        BY <2>1, <3>1, <3>2, AncestorFacts DEF CursorFits
    <2>3. \A w \in Workers : Ahead(w)' = Ahead(w)
      BY DEF SwitchTip, Ahead, Held
    <2> QED
      BY <2>1, <2>2, <2>3 DEF CursorFits
  <1> QED
    BY <1>1, <1>2, <1>3

\* When no worker is cancelled, handling the event takes every worker to
\* the intersect.
LEMMA DispatchKeeps ==
  ASSUME NoneCancelled, IInv, Dispatch
  PROVE  IInv'
  <1> USE DEF IInv, Dispatch
  <1>1. \A done \in Handlers : done = Workers
    BY DEF NoneCancelled, Handlers
  <1>2. \A w \in Workers : followed'[w] = Held(w)
    BY <1>1 DEF Held
  <1>3. \A w \in Workers : Held(w)' = Held(w)
    BY <1>2 DEF Held
  <1>4. TypeOK'
    BY DEF TypeOK, Control, Event
  <1>5. Control' /\ EventFits'
    BY DEF Control, EventFits
  <1>6. IntersectFits' /\ ReplyFits' /\ StoresFit' /\ PublishedOnOneChain'
    BY <1>3 DEF IntersectFits, ReplyFits, StoresFit, PublishedOnOneChain
  <1>7. \A w \in Workers : Ahead(w)' = Ahead(w)
    BY <1>3 DEF Ahead
  <1>8. CursorFits'
    BY <1>7 DEF CursorFits
  <1> QED
    BY <1>4, <1>5, <1>6, <1>8

(***************************************************************************)
(* The inductive invariant and what follows from it.                       *)
(***************************************************************************)

\* A step that changes none of the variables keeps IInv.
LEMMA StutterKeeps == IInv /\ UNCHANGED vars => IInv'
  <1> SUFFICES ASSUME IInv, UNCHANGED vars PROVE IInv'
    OBVIOUS
  <1> USE DEF IInv, vars
  <1>1. TypeOK' /\ Control' /\ EventFits' /\ IntersectFits' /\ StoresFit' /\ PublishedOnOneChain'
    BY DEF TypeOK, Control, EventFits, IntersectFits, Held, StoresFit, PublishedOnOneChain
  <1>2. \A w \in Workers : Held(w)' = Held(w) /\ Ahead(w)' = Ahead(w)
    BY DEF Held, Ahead
  <1>3. ReplyFits' /\ CursorFits'
    BY <1>2 DEF ReplyFits, CursorFits
  <1> QED
    BY <1>1, <1>3

\* Every step of the client, of the node and of the environment keeps IInv.
LEMMA NextIInv ==
  ASSUME NoneCancelled, IInv, [Next]_vars
  PROVE  IInv'
  <1>1. CASE Connect BY <1>1, ConnectKeeps
  <1>2. CASE NextNotConnected BY <1>2, NextNotConnectedKeeps
  <1>3. CASE Request BY <1>3, RequestKeeps
  <1>4. CASE HandleAwait BY <1>4, HandleAwaitKeeps
  <1>5. CASE HandleForwardN2C BY <1>5, HandleForwardN2CKeeps
  <1>6. CASE HandleForwardN2N BY <1>6, HandleForwardN2NKeeps
  <1>7. CASE HandleRollBack BY <1>7, HandleRollBackKeeps
  <1>8. CASE BlockFetched BY <1>8, BlockFetchedKeeps
  <1>9. CASE Dispatch BY <1>9, DispatchKeeps
  <1>10. CASE NodeRollsBack BY <1>10, NodeRollsBackKeeps
  <1>11. CASE NodeRollsForward BY <1>11, NodeRollsForwardKeeps
  <1>12. CASE NodeAwaits BY <1>12, NodeAwaitsKeeps
  <1>13. CASE ConnectFails BY <1>13, ConnectFailsKeeps
  <1>14. CASE RequestFails BY <1>14, RequestFailsKeeps
  <1>15. CASE FetchFails BY <1>15, FetchFailsKeeps
  <1>16. CASE SwitchTip BY <1>16, SwitchTipKeeps
  <1>17. CASE StoreOne BY <1>17, StoreOneKeeps
  <1>18. CASE UNCHANGED vars BY <1>18, StutterKeeps
  <1> QED
    BY <1>1, <1>2, <1>3, <1>4, <1>5, <1>6, <1>7, <1>8, <1>9, <1>10, <1>11,
       <1>12, <1>13, <1>14, <1>15, <1>16, <1>17, <1>18
       DEF Next, ClientStep, HandleReply, NodeStep, Fault

\* IInv holds in every state of ChainSync, whatever the node, the forks and
\* the failures do, as long as no worker is cancelled by another.
THEOREM Invariance == ASSUME NoneCancelled PROVE Spec => []IInv
  <1>1. Init => IInv
    BY InitIInv
  <1>2. IInv /\ [Next]_vars => IInv'
    BY NextIInv
  <1> QED
    BY <1>1, <1>2, PTL DEF Spec

\* The fields of the client and of the connection keep their types.
THEOREM TypeCorrect == ASSUME NoneCancelled PROVE Spec => []TypeOK
  <1>1. IInv => TypeOK
    BY DEF IInv
  <1> QED
    BY <1>1, Invariance, PTL

\* "old intersect is lower than rollback" is unreachable, for every block
\* tree and every interleaving of forks, failures and reconnections.
THEOREM RollbackNeverPanics == ASSUME NoneCancelled PROVE Spec => []NoRollbackPanic
  <1>1. IInv => NoRollbackPanic
    BY DEF IInv, Control, NoRollbackPanic
  <1> QED
    BY <1>1, Invariance, PTL

\* A reconnection asks for exactly the last block the workers have handled.
THEOREM ResumesWhereHandled ==
  ASSUME NoneCancelled PROVE Spec => []ResumePointIsHandled
  <1>1. IInv => ResumePointIsHandled
    BY DEF IInv, IntersectFits, Held, ResumePointIsHandled
  <1> QED
    BY <1>1, Invariance, PTL

\* Between the replies the stored slot, number and tip are those of the point a
\* reconnection asks for and of a chain through it, although every cell is
\* stored by itself and forks and failures may come between any two replies.
THEOREM StatusOfOneChain ==
  ASSUME NoneCancelled PROVE Spec => []PublishedOnOneChain
  <1>1. IInv => PublishedOnOneChain
    BY DEF IInv
  <1> QED
    BY <1>1, Invariance, PTL

(***************************************************************************)
(* ChainSync implements ChainFollower.                                     *)
(***************************************************************************)

\* The last store of a reply hands its event to the workers: the child of the
\* block they have handled, or one of its ancestors.
LEMMA StoreOneHands ==
  ASSUME IInv, StoreOne
  PROVE  CF!Hand \/ UNCHANGED <<followed, Handed>>
  <1>1. /\ pc = "storing" /\ pc' \in {"storing", "dispatching"}
        /\ event \in Event /\ event.kind \in {"Block", "Rollback"}
        /\ UNCHANGED <<event, followed>>
    BY DEF IInv, Control, StoreOne, Event
  <1>2. Handed = None
    BY <1>1 DEF Handed
  <1>3. CASE pc' = "storing"
    BY <1>1, <1>2, <1>3 DEF Handed
  <1>4. CASE pc' = "dispatching"
    <2>1. Handed' = event
      BY <1>1, <1>4 DEF Handed
    <2>2. event.point \in Block /\ event = [kind |-> event.kind, point |-> event.point]
      BY <1>1 DEF Event
    <2>3. CASE event.kind = "Block"
      <3>1. event.point # Origin /\ \A w \in Workers : Parent[event.point] = followed[w]
        BY <1>1, <2>3, WorkersAssumption DEF IInv, EventFits
      <3>2. CF!Advance(event.point)
        BY <2>1, <2>2, <2>3, <3>1 DEF CF!Advance
      <3> QED
        BY <1>1, <1>2, <2>2, <3>2 DEF CF!Hand
    <2>4. CASE event.kind = "Rollback"
      <3>1. \A w \in Workers : event.point \in Ancestors[followed[w]]
        BY <1>1, <2>4 DEF IInv, EventFits
      <3>2. CF!Retreat(event.point)
        BY <2>1, <2>2, <2>4, <3>1 DEF CF!Retreat
      <3> QED
        BY <1>1, <1>2, <2>2, <3>2 DEF CF!Hand
    <2> QED
      BY <1>1, <2>3, <2>4
  <1> QED
    BY <1>1, <1>3, <1>4

\* When next returns, every worker has handled the event.
LEMMA DispatchHandles ==
  ASSUME NoneCancelled, IInv, Dispatch
  PROVE  CF!Handled \/ UNCHANGED <<followed, Handed>>
  <1>1. \A done \in Handlers : done = Workers
    BY DEF NoneCancelled, Handlers
  <1>2. /\ followed' = [w \in Workers |->
                          IF event.kind # "Noop" THEN event.point ELSE followed[w]]
        /\ pc = "dispatching" /\ pc' = "running"
    BY <1>1 DEF Dispatch
  <1>3. event \in Event /\ followed \in [Workers -> Block]
    BY <1>2 DEF IInv, TypeOK, Control
  <1>4. Handed' = None
    BY <1>2 DEF Handed
  <1>5. CASE event.kind = "Noop"
    <2>1. followed' = followed
      BY <1>2, <1>3, <1>5
    <2> QED
      BY <1>2, <1>4, <1>5, <2>1 DEF Handed
  <1>6. CASE event.kind # "Noop"
    <2>1. Handed = event /\ event # None
      BY <1>2, <1>3, <1>6, NoneAssumption DEF Handed
    <2> QED
      BY <1>2, <1>4, <1>6, <2>1 DEF CF!Handled
  <1> QED
    BY <1>5, <1>6

\* Whatever the node, the network and the forks do, the workers are fed one
\* chain: a block is handed over only as the child of the last one they have
\* handled, so that none is skipped, repeated or out of order.
THEOREM ImplementsChainFollower ==
  ASSUME NoneCancelled PROVE Spec => WorkersFollowAChain
  <1>1. Init => CF!Init
    BY DEF Init, CF!Init, Handed
  <1>2. IInv /\ [Next]_vars => [CF!Next]_<<followed, Handed>>
    <2> SUFFICES ASSUME IInv, [Next]_vars PROVE [CF!Next]_<<followed, Handed>>
      OBVIOUS
    <2>1. CASE Dispatch
      BY <2>1, DispatchHandles DEF CF!Next
    <2>2. CASE StoreOne
      BY <2>2, StoreOneHands DEF CF!Next
    <2>3. CASE ~Dispatch /\ ~StoreOne
      <3>1. followed' = followed
        BY <2>3 DEF Next, ClientStep, HandleReply, NodeStep, Fault, vars,
                    clientVars, Connect, NextNotConnected, Request, HandleAwait,
                    HandleForwardN2C, HandleForwardN2N, HandleRollBack,
                    BlockFetched, NodeRollsBack, NodeRollsForward, NodeAwaits,
                    ConnectFails, RequestFails, FetchFails, SwitchTip
      <3>2. \/ UNCHANGED <<pc, event>>
            \/ pc # "dispatching" /\ pc' # "dispatching"
            \/ HandleAwait
        BY <2>3 DEF Next, ClientStep, HandleReply, NodeStep, Fault, vars,
                    clientVars, Connect, NextNotConnected, Request,
                    HandleForwardN2C, HandleForwardN2N, HandleRollBack, TakeBlock,
                    BlockFetched, NodeRollsBack, NodeRollsForward, NodeAwaits,
                    ConnectFails, RequestFails, FetchFails, DropClient, SwitchTip
      <3>3. Handed' = Handed
        BY <3>2 DEF Handed, HandleAwait
      <3> QED
        BY <3>1, <3>3
    <2> QED
      BY <2>1, <2>2, <2>3
  <1> QED
    BY <1>1, <1>2, Invariance, PTL DEF Spec, WorkersFollowAChain, CF!Spec
=============================================================================
