---------------------------- MODULE QueryProofs ----------------------------
(***************************************************************************)
(* Proofs about Query for any contracts, any stores, any queries and any   *)
(* number of inserts and roll backs.  That the unwraps of a query do not   *)
(* fail beside inserts rests on two facts about a store without roll backs:*)
(* everything in the database is cached, and the keys an iterator still    *)
(* has to read are those it has not passed.  That it finds what it should  *)
(* rests on counting: the range it cuts out is as long as the contracts    *)
(* that were counted, and everything else it reads is new.                 *)
(***************************************************************************)
EXTENDS Query, SelectionProofs

(***************************************************************************)
(* The inductive invariant.                                                *)
(***************************************************************************)

\* The store has known contracts only, and the worker a contract in hand
\* from the lock to the write to the database.
StoreFits ==
    /\ DOMAIN db \subseteq Short /\ DOMAIN cache \subseteq Short
    /\ \/ worker \in [pc : {"idle", "rolled", "init"}]
       \/ \E pc \in {"insert", "cached"}, s \in Short : \E v :
             worker = [pc |-> pc, short |-> s, version |-> v]

\* What is in the database, or is about to be, is cached.
Cached ==
    /\ worker.pc = "cached" => worker.short \in DOMAIN cache
    /\ ~undone => DOMAIN db \subseteq DOMAIN cache

\* The keys of a query are cached.  A plain query begins with none.
KeysFit ==
    /\ Plain /\ qpc \in {"start", "range", "keys", "prefilter", "long id",
                         "long id found"} => pre = <<>>
    /\ qpc \in {"start", "range"} => keys = <<>>
    /\ Plain /\ ~undone => /\ keys \in Seq(Short)
                           /\ \A k \in DOMAIN keys : keys[k] \in DOMAIN cache

\* The contracts of C are read or still ahead of the iterator.
Covered(C) ==
    \A c \in C : c \in KeysAhead \/ \E k \in DOMAIN keys : keys[k] = c

\* The range a plain query cuts out ends at a number of contracts that are
\* all covered.
RangeFits ==
    Plain /\ qpc = "keys" =>
        /\ from = 0
        /\ ~undone => \E C \in SUBSET DOMAIN db : to = Cardinality(C) /\ Covered(C)

IInv == StoreFits /\ Cached /\ KeysFit /\ RangeFits /\ PanicsOnlyIfUndone

(***************************************************************************)
(* Facts about keys.                                                       *)
(***************************************************************************)

\* A set that is covered by the entries of a sequence is no larger than the
\* sequence is long.
LEMMA NoMoreThanEntries ==
  ASSUME NEW T, NEW seq \in Seq(T), NEW C,
         \A c \in C : \E k \in DOMAIN seq : seq[k] = c
  PROVE  IsFiniteSet(C) /\ Cardinality(C) \in Nat /\ Cardinality(C) <= Len(seq)
  <1> DEFINE D == 1..Len(seq)
             E == {seq[k] : k \in D}
             f == [k \in D |-> seq[k]]
  <1>1. IsFiniteSet(D) /\ Cardinality(D) = Len(seq) /\ Len(seq) \in Nat
    <2>1. Len(seq) \in Nat
      OBVIOUS
    <2>2. /\ IsFiniteSet(1..Len(seq))
          /\ Cardinality(1..Len(seq)) = IF 1 > Len(seq) THEN 0 ELSE Len(seq) - 1 + 1
      BY <2>1, FS_Interval
    <2> QED
      BY <2>1, <2>2
  <1>2. f \in Surjection(D, E)
    BY DEF Surjection
  <1>3. IsFiniteSet(E) /\ Cardinality(E) <= Len(seq)
    BY <1>1, <1>2, FS_Surjection
  <1>4. C \in SUBSET E
    OBVIOUS
  <1>5. IsFiniteSet(C) /\ Cardinality(C) <= Cardinality(E)
    BY <1>3, <1>4, FS_Subset
  <1>6. Cardinality(C) \in Nat /\ Cardinality(E) \in Nat
    BY <1>3, <1>5, FS_CardinalityType
  <1> QED
    BY <1>1, <1>3, <1>5, <1>6

\* What is in a sequence an element is appended to.
LEMMA AppendFacts ==
  ASSUME NEW T, NEW seq \in Seq(T), NEW e \in T, NEW new, new = Append(seq, e)
  PROVE  /\ new \in Seq(T)
         /\ new # <<>> /\ new[Len(new)] = e
         /\ \A k \in DOMAIN seq : k \in DOMAIN new /\ new[k] = seq[k]
         /\ \A k \in DOMAIN new : k \in DOMAIN seq \/ new[k] = e
         /\ Len(new) \in DOMAIN new
  OBVIOUS

\* What is in a sequence that is cut off.
LEMMA SubSeqFacts ==
  ASSUME NEW T, NEW seq \in Seq(T), NEW n \in 0..Len(seq), NEW new,
         new = SubSeq(seq, 1, n)
  PROVE  /\ new \in Seq(T)
         /\ \A k \in DOMAIN new : \E j \in DOMAIN seq : new[k] = seq[j]
  <1>1. /\ DOMAIN seq = 1..Len(seq) /\ Len(seq) \in Nat /\ n \in Nat
        /\ new = [k \in 1..n |-> seq[k]]
    OBVIOUS
  <1>2. \A k \in 1..n : k \in 1..Len(seq) /\ new[k] = seq[k] /\ seq[k] \in T
    BY <1>1
  <1> QED
    BY <1>1, <1>2

\* IInv holds when the query comes in: the cache is the database.
LEMMA InitIInv == Init => IInv
  <1> SUFFICES ASSUME Init PROVE IInv
    OBVIOUS
  <1> USE DEF Init
  <1>1. StoreFits /\ Cached
    BY StoreAssumption DEF StoreFits, Cached
  <1>2. KeysFit /\ RangeFits
    BY DEF KeysFit, RangeFits
  <1>3. PanicsOnlyIfUndone
    BY DEF PanicsOnlyIfUndone
  <1> QED
    BY <1>1, <1>2, <1>3 DEF IInv

(***************************************************************************)
(* The steps of the worker.                                                *)
(***************************************************************************)

\* What a step of the worker has to leave alone: unless it takes a contract
\* out, every contract stays in the database and in the cache.
LEMMA WorkerKeeps ==
  ASSUME IInv, UNCHANGED reading, StoreFits', Cached', undone => undone',
         ~undone' => DOMAIN db \subseteq DOMAIN db' /\ DOMAIN cache \subseteq DOMAIN cache'
  PROVE  IInv'
  <1> USE DEF IInv, reading
  <1>1. Plain' <=> Plain
    BY DEF Plain, IsEq
  <1>2. KeysFit'
    BY <1>1 DEF KeysFit
  <1>3. RangeFits'
    <2> SUFFICES ASSUME Plain, qpc = "keys", ~undone'
                 PROVE  \E C \in SUBSET DOMAIN db' : to' = Cardinality(C) /\ Covered(C)'
      BY <1>1 DEF RangeFits
    <2>1. PICK C \in SUBSET DOMAIN db : to = Cardinality(C) /\ Covered(C)
      BY DEF RangeFits
    <2>2. Covered(C)'
      BY <2>1 DEF Covered, KeysAhead
    <2> QED
      BY <2>1, <2>2
  <1>4. PanicsOnlyIfUndone'
    BY <1>1 DEF PanicsOnlyIfUndone
  <1> QED
    BY <1>2, <1>3, <1>4

\* insert up to its locks.
LEMMA BeginInsertKeeps == IInv /\ BeginInsert => IInv'
  <1> SUFFICES ASSUME IInv, BeginInsert PROVE IInv'
    OBVIOUS
  <1> USE DEF BeginInsert, since
  <1>1. StoreFits'
    BY DEF IInv, StoreFits
  <1>2. Cached'
    BY DEF IInv, Cached
  <1> QED
    BY <1>1, <1>2, WorkerKeeps

\* The cache is written before the database.
LEMMA InsertCacheKeeps == IInv /\ InsertCache => IInv'
  <1> SUFFICES ASSUME IInv, InsertCache PROVE IInv'
    OBVIOUS
  <1> USE DEF InsertCache
  <1>1. PICK s \in Short : \E v : worker = [pc |-> "insert", short |-> s, version |-> v]
    BY DEF IInv, StoreFits
  <1>2. PICK v : worker = [pc |-> "insert", short |-> s, version |-> v]
    BY <1>1
  <1>3. worker' = [pc |-> "cached", short |-> s, version |-> v]
    BY <1>2
  <1>4. DOMAIN cache' = DOMAIN cache \cup {s}
    BY <1>2 DEF Put
  <1>5. StoreFits'
    BY <1>3, <1>4 DEF IInv, StoreFits
  <1>6. Cached'
    BY <1>3, <1>4 DEF IInv, Cached
  <1> QED
    BY <1>4, <1>5, <1>6, WorkerKeeps

\* What enters the database is cached.
LEMMA InsertDbKeeps == IInv /\ InsertDb => IInv'
  <1> SUFFICES ASSUME IInv, InsertDb PROVE IInv'
    OBVIOUS
  <1> USE DEF InsertDb, since
  <1>1. worker.short \in Short /\ worker'.pc = "idle"
    BY DEF IInv, StoreFits
  <1>2. DOMAIN db' = DOMAIN db \cup {worker.short}
    BY DEF Put
  <1>3. StoreFits'
    BY <1>1, <1>2 DEF IInv, StoreFits
  <1>4. Cached'
    BY <1>1, <1>2 DEF IInv, Cached
  <1> QED
    BY <1>2, <1>3, <1>4, WorkerKeeps

\* A roll back that takes no contract out leaves the domains alone.
LEMMA RollbackDbKeeps == IInv /\ RollbackDb => IInv'
  <1> SUFFICES ASSUME IInv, RollbackDb PROVE IInv'
    OBVIOUS
  <1> USE DEF RollbackDb
  <1>1. DOMAIN db' \subseteq DOMAIN db /\ worker' = [pc |-> "rolled"]
    OBVIOUS
  <1>2. (undone => undone') /\ (~undone' => ~undone /\ DOMAIN db' = DOMAIN db)
    OBVIOUS
  <1>3. StoreFits'
    BY <1>1 DEF IInv, StoreFits
  <1>4. Cached'
    BY <1>1, <1>2 DEF IInv, Cached
  <1> QED
    BY <1>2, <1>3, <1>4, WorkerKeeps

\* init_mem_cache up to its locks.
LEMMA BeginInitCacheKeeps == IInv /\ BeginInitCache => IInv'
  <1> SUFFICES ASSUME IInv, BeginInitCache PROVE IInv'
    OBVIOUS
  <1> USE DEF BeginInitCache, since
  <1>1. StoreFits'
    BY DEF IInv, StoreFits
  <1>2. Cached'
    BY DEF IInv, Cached
  <1> QED
    BY <1>1, <1>2, WorkerKeeps

\* The cache shrinks to the database only if a contract was taken out.
LEMMA InitCacheKeeps == IInv /\ InitCache => IInv'
  <1> SUFFICES ASSUME IInv, InitCache PROVE IInv'
    OBVIOUS
  <1> USE DEF InitCache
  <1>1. StoreFits'
    BY DEF IInv, StoreFits
  <1>2. Cached'
    BY DEF IInv, Cached
  <1> QED
    BY <1>1, <1>2, WorkerKeeps

(***************************************************************************)
(* The steps of the query.                                                 *)
(***************************************************************************)

\* A step of the query leaves the store alone.
LEMMA QueryKeeps ==
  ASSUME IInv, UNCHANGED <<store, since, query>>, KeysFit', RangeFits',
         Plain /\ answer' # None /\ answer'.kind = "panic" =>
            undone \/ (answer # None /\ answer.kind = "panic")
  PROVE  IInv'
  <1> USE DEF IInv, store, since
  <1>1. StoreFits' /\ Cached'
    BY DEF StoreFits, Cached
  <1>2. PanicsOnlyIfUndone'
    BY DEF PanicsOnlyIfUndone, Plain, IsEq
  <1> QED
    BY <1>1, <1>2

\* contracts up to the count: nothing is read.
LEMMA StartKeeps == IInv /\ Start => IInv'
  <1> SUFFICES ASSUME IInv, Start PROVE IInv'
    OBVIOUS
  <1>1. KeysFit'
    BY DEF IInv, Start, KeysFit, Plain, IsEq, store, since
  <1>2. RangeFits'
    BY DEF Start, RangeFits, Answered, Fails
  <1>3. \/ answer' = answer
        \/ answer' = [kind |-> "empty"]
        \/ \E e : answer' = [kind |-> "error", error |-> e]
    BY Zenon DEF Start, Fails, Answered
  <1>4. answer' = answer \/ answer'.kind # "panic"
    BY <1>3
  <1>5. UNCHANGED <<store, since, query>>
    BY DEF Start
  <1> QED
    BY <1>1, <1>2, <1>4, <1>5, QueryKeeps

\* Before a key is read, all contracts of the database are ahead.
LEMMA ReadRangeKeeps == IInv /\ ReadRange => IInv'
  <1> SUFFICES ASSUME IInv, ReadRange PROVE IInv'
    OBVIOUS
  <1>1. KeysFit'
    BY DEF IInv, ReadRange, KeysFit, Plain, IsEq, Panics, Fails, Answered, store, since
  <1>2. Plain => from' = 0 /\ to' = Cardinality(DOMAIN db)
    BY CursorAssumption DEF ReadRange, Plain
  <1>3. keys = <<>> /\ keys' = keys /\ db' = db
    BY DEF IInv, ReadRange, KeysFit, store
  <1>4. Covered(DOMAIN db)'
    BY <1>3 DEF Covered, KeysAhead
  <1>5. RangeFits'
    BY <1>2, <1>3, <1>4 DEF ReadRange, RangeFits, Plain, IsEq
  <1>6. Plain => \/ answer' = answer
                 \/ \E e : answer' = [kind |-> "error", error |-> e]
    <2>1. Plain => ShortIdText \notin {query.after, query.before}
      BY CursorAssumption DEF Plain
    <2> QED
      BY <2>1, Zenon DEF ReadRange, Fails, Answered
  <1>7. Plain => answer' = answer \/ answer'.kind # "panic"
    BY <1>6
  <1>8. UNCHANGED <<store, since, query>>
    BY DEF ReadRange
  <1> QED
    BY <1>1, <1>5, <1>7, <1>8, QueryKeeps

\* The least key ahead is read, so that what it passes is nothing but itself.
LEMMA ReadKeyKeeps == IInv /\ ReadKey => IInv'
  <1> SUFFICES ASSUME IInv, ReadKey PROVE IInv'
    OBVIOUS
  <1> DEFINE s == CHOOSE x \in KeysAhead : \A y \in KeysAhead : x <= y
  <1>1. KeysAhead \in SUBSET Short /\ KeysAhead \in SUBSET Nat /\ KeysAhead # {}
    BY StoreAssumption DEF IInv, ReadKey, StoreFits, KeysAhead
  <1>2. s \in KeysAhead /\ \A y \in KeysAhead : s <= y
    <2>1. \E x \in KeysAhead : \A y \in KeysAhead : x <= y
      BY <1>1, LeastElement
    <2> QED
      BY <2>1
  <1>3. keys' = Append(keys, s) /\ s \in Short /\ s \in DOMAIN db
    BY <1>1, <1>2 DEF ReadKey, KeysAhead
  <1> HIDE DEF s
  <1>4. ASSUME Plain, ~undone
        PROVE  /\ keys' \in Seq(Short)
               /\ keys' # <<>> /\ keys'[Len(keys')] = s
               /\ \A k \in DOMAIN keys : k \in DOMAIN keys' /\ keys'[k] = keys[k]
               /\ \A k \in DOMAIN keys' : k \in DOMAIN keys \/ keys'[k] = s
               /\ Len(keys') \in DOMAIN keys'
    <2>1. keys \in Seq(Short)
      BY <1>4 DEF IInv, KeysFit
    <2> QED
      BY <1>3, <2>1, AppendFacts
  <1>5. KeysFit'
    <2>1. Plain' <=> Plain
      BY DEF ReadKey, Plain, IsEq
    <2>2. ~undone => s \in DOMAIN cache
      BY <1>3 DEF IInv, Cached
    <2>3. Plain /\ ~undone => keys' \in Seq(Short)
      BY <1>4
    <2>4. Plain => pre' = <<>>
      BY DEF IInv, ReadKey, KeysFit
    <2>5. Plain /\ ~undone => \A k \in DOMAIN keys' : keys'[k] \in DOMAIN cache
      BY <1>4, <2>2 DEF IInv, KeysFit
    <2> QED
      BY <2>1, <2>3, <2>4, <2>5 DEF ReadKey, KeysFit, store, since
  <1>6. ASSUME Plain, ~undone, NEW C \in SUBSET DOMAIN db, Covered(C) PROVE Covered(C)'
    <2> SUFFICES ASSUME NEW c \in C
                 PROVE  c \in KeysAhead' \/ \E k \in DOMAIN keys' : keys'[k] = c
      BY DEF Covered
    <2>1. CASE \E k \in DOMAIN keys : keys[k] = c
      BY <1>4, <1>6, <2>1
    <2>2. CASE c \in KeysAhead
      <3>1. c \in Nat /\ s \in Nat /\ s <= c
        BY <1>1, <1>2, <2>2
      <3>2. CASE c = s
        BY <1>4, <1>6, <3>2
      <3>3. CASE c > s
        BY <1>4, <1>6, <3>3 DEF ReadKey, KeysAhead, store
      <3> QED
        BY <3>1, <3>2, <3>3
    <2> QED
      BY <1>6, <2>1, <2>2 DEF Covered
  <1>7. RangeFits'
    BY <1>6 DEF IInv, ReadKey, RangeFits, Plain, IsEq, store, since
  <1>8. UNCHANGED <<store, since, query, answer>>
    BY DEF ReadKey
  <1> QED
    BY <1>5, <1>7, <1>8, QueryKeeps
\* Nothing is ahead when the range is cut: the contracts that were counted
\* have been read, so that the keys are no fewer than the range is long.
LEMMA CutRangeKeeps == IInv /\ CutRange => IInv'
  <1> SUFFICES ASSUME IInv, CutRange PROVE IInv'
    OBVIOUS
  <1>1. ASSUME Plain, ~undone PROVE ~(to > Len(keys) \/ to > to - from) /\ to \in 0..Len(keys)
    <2>1. PICK C \in SUBSET DOMAIN db : to = Cardinality(C) /\ Covered(C)
      BY <1>1 DEF IInv, CutRange, RangeFits
    <2>2. \A c \in C : \E k \in DOMAIN keys : keys[k] = c
      BY <2>1 DEF CutRange, Covered
    <2>3. keys \in Seq(Short)
      BY <1>1 DEF IInv, KeysFit
    <2>4. to \in Nat /\ to <= Len(keys) /\ Len(keys) \in Nat
      BY <2>1, <2>2, <2>3, NoMoreThanEntries
    <2>5. from = 0
      BY <1>1 DEF IInv, CutRange, RangeFits
    <2> QED
      BY <2>4, <2>5
  <1>2. Plain /\ answer' # None /\ answer'.kind = "panic" =>
            undone \/ (answer # None /\ answer.kind = "panic")
    BY <1>1 DEF CutRange
  <1>3. ASSUME Plain, ~undone
        PROVE  /\ keys' \in Seq(Short)
               /\ \A k \in DOMAIN keys' : \E j \in DOMAIN keys : keys'[k] = keys[j]
    <2>1. keys \in Seq(Short) /\ from = 0
      BY <1>3 DEF IInv, CutRange, KeysFit, RangeFits
    <2>2. to \in 0..Len(keys)
      BY <1>1, <1>3
    <2>3. keys' = SubSeq(keys, 1, to)
      BY <1>1, <1>3, <2>1 DEF CutRange
    <2> QED
      BY <2>1, <2>2, <2>3, SubSeqFacts
  <1>4. KeysFit'
    BY <1>3 DEF IInv, CutRange, KeysFit, Plain, IsEq, Panics, Answered, store, since
  <1>5. RangeFits'
    BY DEF CutRange, RangeFits, Panics, Answered
  <1>6. UNCHANGED <<store, since, query>>
    BY DEF CutRange
  <1> QED
    BY <1>2, <1>4, <1>5, <1>6, QueryKeeps

\* A plain query asks for no short id, so that the keys stay.
LEMMA PreFilterShortIdKeeps == IInv /\ PreFilterShortId => IInv'
  <1> SUFFICES ASSUME IInv, PreFilterShortId PROVE IInv'
    OBVIOUS
  <1>1. Plain => UNCHANGED <<pre, keys>>
    BY DEF PreFilterShortId, Plain
  <1>2. KeysFit'
    BY <1>1 DEF IInv, PreFilterShortId, KeysFit, Plain, IsEq, store, since
  <1>3. RangeFits'
    BY DEF PreFilterShortId, RangeFits
  <1>4. UNCHANGED <<store, since, query, answer>>
    BY DEF PreFilterShortId
  <1> QED
    BY <1>2, <1>3, <1>4, QueryKeeps

\* The lookup of a long id only takes a lock.
LEMMA FindLongIdKeeps == IInv /\ FindLongId => IInv'
  <1> SUFFICES ASSUME IInv, FindLongId PROVE IInv'
    OBVIOUS
  <1>1. StoreFits' /\ Cached'
    BY DEF IInv, FindLongId, StoreFits, Cached, since
  <1>2. KeysFit'
    BY DEF IInv, FindLongId, KeysFit, Plain, IsEq, since
  <1>3. RangeFits'
    BY DEF FindLongId, RangeFits
  <1>4. PanicsOnlyIfUndone'
    BY DEF IInv, FindLongId, PanicsOnlyIfUndone, Plain, IsEq, since
  <1> QED
    BY <1>1, <1>2, <1>3, <1>4 DEF IInv

\* The contract that is found under its long id is a cached one.
LEMMA PreFilterIdKeeps == IInv /\ PreFilterId => IInv'
  <1> SUFFICES ASSUME IInv, PreFilterId PROVE IInv'
    OBVIOUS
  <1> DEFINE found == KnownAs(query.filter.id) \cap DOMAIN cache
             s == CHOOSE x \in found : TRUE
  <1>1. StoreFits' /\ Cached'
    BY DEF IInv, PreFilterId, StoreFits, Cached, since
  <1>2. \/ UNCHANGED <<keys, pre>>
        \/ s \in DOMAIN cache /\ keys' = Append(pre, s)
    BY DEF PreFilterId
  <1> HIDE DEF s
  <1>3. ASSUME Plain, ~undone
        PROVE  \/ UNCHANGED keys
               \/ /\ s \in DOMAIN cache /\ keys' \in Seq(Short)
                  /\ \A k \in DOMAIN keys' : keys'[k] = s
    <2>1. CASE UNCHANGED <<keys, pre>>
      BY <2>1
    <2>2. CASE s \in DOMAIN cache /\ keys' = Append(pre, s)
      <3>1. s \in Short /\ pre = <<>>
        BY <1>3, <2>2 DEF IInv, StoreFits, KeysFit, PreFilterId
      <3>2. <<>> \in Seq(Short) /\ keys' = Append(<<>>, s)
        BY <2>2, <3>1
      <3>3. /\ keys' \in Seq(Short)
            /\ \A k \in DOMAIN keys' : k \in DOMAIN <<>> \/ keys'[k] = s
        BY <3>1, <3>2, AppendFacts
      <3> QED
        BY <2>2, <3>3
    <2> QED
      BY <1>2, <2>1, <2>2
  <1>4. KeysFit'
    BY <1>3 DEF IInv, PreFilterId, KeysFit, Plain, IsEq, since
  <1>5. RangeFits'
    BY DEF PreFilterId, RangeFits
  <1>6. PanicsOnlyIfUndone'
    BY DEF IInv, PreFilterId, PanicsOnlyIfUndone, Plain, IsEq, since
  <1> QED
    BY <1>1, <1>4, <1>5, <1>6 DEF IInv

\* The key that is looked up is cached.
LEMMA LookUpKeeps == IInv /\ LookUp => IInv'
  <1> SUFFICES ASSUME IInv, LookUp PROVE IInv'
    OBVIOUS
  <1>1. Plain /\ ~undone => keys \in Seq(Short) /\ keys # <<>> /\ keys' = Tail(keys)
    BY DEF IInv, KeysFit, LookUp
  <1>2. ASSUME Plain, ~undone
        PROVE  /\ keys' \in Seq(Short)
               /\ \A k \in DOMAIN keys' : k + 1 \in DOMAIN keys /\ keys'[k] = keys[k + 1]
               /\ 1 \in DOMAIN keys /\ Head(keys) = keys[1]
    BY <1>1, <1>2
  <1>3. KeysFit'
    BY <1>2 DEF IInv, LookUp, KeysFit, Plain, IsEq, Panics, Answered, store, since
  <1>4. RangeFits'
    BY DEF LookUp, RangeFits, Panics, Answered
  <1>5. Plain /\ ~undone => Head(keys) \in DOMAIN cache
    BY <1>2 DEF IInv, KeysFit
  <1>6. Plain /\ ~undone => answer' = answer
    BY <1>5 DEF LookUp
  <1>7. UNCHANGED <<store, since, query>>
    BY DEF LookUp
  <1> QED
    BY <1>3, <1>4, <1>6, <1>7, QueryKeeps

\* A page is no panic.
LEMMA MakePageKeeps == IInv /\ MakePage => IInv'
  <1> SUFFICES ASSUME IInv, MakePage PROVE IInv'
    OBVIOUS
  <1>1. KeysFit'
    BY DEF IInv, MakePage, KeysFit, Plain, IsEq, Fails, Answered, store, since
  <1>2. RangeFits'
    BY DEF MakePage, RangeFits, Fails, Answered
  <1>3. answer' = Page \/ \E e : answer' = [kind |-> "error", error |-> e]
    BY Zenon DEF MakePage, Fails, Answered
  <1>4. answer'.kind # "panic"
    BY <1>3 DEF Page
  <1>5. UNCHANGED <<store, since, query>>
    BY DEF MakePage
  <1> QED
    BY <1>1, <1>2, <1>4, <1>5, QueryKeeps

\* A plain query asks for no field that panics.
LEMMA ResolveFieldsKeeps == IInv /\ ResolveFields => IInv'
  <1> SUFFICES ASSUME IInv, ResolveFields PROVE IInv'
    OBVIOUS
  <1>1. ASSUME Plain, NEW c PROVE ~FieldPanics(c)
    BY <1>1 DEF Plain, FieldPanics, TransitionsPanic
  <1>2. Plain => answer' = answer
    BY <1>1 DEF ResolveFields
  <1>3. KeysFit'
    BY DEF IInv, ResolveFields, KeysFit, Plain, IsEq, Panics, Answered, store, since
  <1>4. RangeFits'
    BY DEF ResolveFields, RangeFits, Panics, Answered
  <1>5. UNCHANGED <<store, since, query>>
    BY DEF ResolveFields
  <1> QED
    BY <1>2, <1>3, <1>4, <1>5, QueryKeeps

(***************************************************************************)
(* The theorem.                                                            *)
(***************************************************************************)

\* IInv holds throughout, beside any inserts and roll backs.
THEOREM Invariance == Spec => []IInv
  <1>1. Init => IInv
    BY InitIInv
  <1>2. IInv /\ [Next]_vars => IInv'
    <2> SUFFICES ASSUME IInv, [Next]_vars PROVE IInv'
      OBVIOUS
    <2>1. CASE BeginInsert
      BY <2>1, BeginInsertKeeps
    <2>2. CASE RollbackDb
      BY <2>2, RollbackDbKeeps
    <2>3. CASE WorkerStep
      BY <2>3, InsertCacheKeeps, InsertDbKeeps, BeginInitCacheKeeps, InitCacheKeeps
         DEF WorkerStep
    <2>4. CASE QueryStep
      BY <2>4, StartKeeps, ReadRangeKeeps, ReadKeyKeeps, CutRangeKeeps,
         PreFilterShortIdKeeps, FindLongIdKeeps, PreFilterIdKeeps, LookUpKeeps,
         MakePageKeeps, ResolveFieldsKeeps
         DEF QueryStep
    <2>5. CASE UNCHANGED vars
      <3>1. UNCHANGED reading /\ UNCHANGED since /\ UNCHANGED store
        BY <2>5 DEF vars
      <3>2. StoreFits' /\ Cached'
        BY <3>1 DEF IInv, StoreFits, Cached, store, since
      <3> QED
        BY <3>1, <3>2, WorkerKeeps DEF store, since
    <2> QED
      BY <2>1, <2>2, <2>3, <2>4, <2>5 DEF Next
  <1> QED
    BY <1>1, <1>2, PTL DEF Spec

\* Whatever the worker inserts meanwhile and however often, the unwraps on the
\* range and on the cache do not fail unless a contract was rolled back
\* (contracts_query_base, query.rs 87 and 160).
THEOREM InsertsNeverPanic == Spec => []PanicsOnlyIfUndone
  <1>1. IInv => PanicsOnlyIfUndone
    BY DEF IInv
  <1> QED
    BY <1>1, Invariance, PTL

(***************************************************************************)
(* The types and the result: the inductive invariant of ResultComplete.    *)
(***************************************************************************)

\* The store has versions of known contracts, and so has the worker in hand.
StoreVersions ==
    /\ \A s \in DOMAIN db : s \in Short /\ db[s] \in Versions(s)
    /\ \A s \in DOMAIN cache : s \in Short /\ cache[s] \in Versions(s)
    /\ IsFiniteSet(DOMAIN db)
    /\ longs \subseteq Short
    /\ lookupLock \in {"free", "reader", "writer"} /\ cacheLock \in {"free", "writer"}
    /\ writes \in 0..MaxWrites
    /\ \/ worker \in [pc : {"idle", "rolled", "init"}]
       \/ \E pc \in {"insert", "cached"}, s \in Short : \E v \in Versions(s) :
             worker = [pc |-> pc, short |-> s, version |-> v]

\* What was stored all the time is in the database and in the cache, and what
\* is there was stored when the query came in or has been inserted since.
SinceFits ==
    /\ stable \subseteq stored \cap DOMAIN db \cap DOMAIN cache
    /\ DOMAIN db \cup DOMAIN cache \subseteq stored \cup added
    /\ worker.pc = "cached" => worker.short \in DOMAIN db \cup added
    /\ added \subseteq Short /\ IsFiniteSet(added)

\* What a query has read before it looks keys up, and what it never has.
ReadsFit ==
    /\ qpc \in Phases
    /\ query \in Queries
    /\ from \in Nat /\ to \in Nat
    /\ keys \in Seq(Nat) /\ pre \in Seq(Nat)
    /\ matched \in Seq([short : Short, version : Nat])
    /\ qpc \in {"start", "range"} => keys = <<>>
    /\ qpc \in {"start", "range", "keys", "prefilter"} => pre = <<>>
    /\ qpc \in {"start", "range", "keys", "prefilter", "long id", "long id found"} =>
          matched = <<>>
    /\ qpc \in {"long id", "long id found"} =>
          /\ query.filter # None /\ IsEq(query.filter.id)
          /\ query.filter.shortId = None => pre = <<>>
    /\ qpc \notin {"start", "done"} => PageSize \in Nat \ {0}

\* Keys are looked up in their order.
InOrder ==
    SearchesAll =>
        /\ \A j, k \in DOMAIN keys : j < k => keys[j] < keys[k]
        /\ \A j, k \in DOMAIN matched : j < k => matched[j].short < matched[k].short
        /\ \A j \in DOMAIN matched, k \in DOMAIN keys : matched[j].short < keys[k]

\* What has been found was stored, and matched, when it was looked up.
FoundFits ==
    \A k \in DOMAIN matched :
        /\ matched[k].version \in Versions(matched[k].short)
        /\ matched[k].short \in stored \cup added
        /\ SearchesAll => Selected(matched[k].short, matched[k].version)

\* The end of the range is the number of the contracts C that were counted.
\* All others that are read are new.
CountFits ==
    SearchesAll /\ qpc = "keys" =>
        /\ from = 0
        /\ Covered(stable)
        /\ \E C \in SUBSET Short :
              /\ IsFiniteSet(C) /\ to = Cardinality(C)
              /\ \A s \in DOMAIN db : s \in C \cup added
              /\ \A k \in DOMAIN keys : keys[k] \in C \cup added

\* The contracts that the query should find.
Expected == {s \in stable : \A v \in Versions(s) : Selected(s, v)}

\* The range has been cut, and nothing went wrong since.
Cut ==
    \/ qpc \in {"prefilter", "long id", "long id found", "lookup", "fields"}
    \/ qpc = "done" /\ \/ answer.kind = "page"
                       \/ answer.kind = "error" /\ answer.error = "no result"

\* Those it should find are found, or will be, or are among the few that were
\* cut off.
FewAreLost ==
    SearchesAll /\ Cut =>
        /\ qpc \in {"fields", "done"} => keys = <<>>
        /\ \E M \in SUBSET Short :
              /\ IsFiniteSet(M) /\ Cardinality(M) <= Cardinality(added)
              /\ \A s \in Expected : \/ s \in M \/ s \in MatchedShorts
                                     \/ \E k \in DOMAIN keys : keys[k] = s

\* The answer, and the page if there is one.
Errors == {"first and last", "page", "pageSize", "wrong order", "no result",
           "invalid pagination"}
AnswerFits ==
    /\ qpc = "fields" => answer.kind = "page"
    /\ qpc = "done" => \/ answer.kind \in {"panic", "empty", "page"}
                       \/ answer.kind = "error" /\ answer.error \in Errors
    /\ qpc \in {"fields", "done"} /\ answer.kind = "page" =>
          /\ answer = Page /\ matched # <<>> /\ ~InvalidFirstLast
          /\ PageSize \in Nat \ {0}
          /\ CurrentPage \in 1..TotalPages(Len(FirstLast(matched)), PageSize)

\* What has been read, found and lost, beside the worker, and the answer.
RInv == StoreVersions /\ SinceFits /\ ReadsFit /\ InOrder /\ FoundFits
        /\ CountFits /\ FewAreLost /\ AnswerFits

\* A subset of a set that is no larger than another is no larger either.
LEMMA NoLarger ==
  ASSUME NEW A, NEW B, NEW C, IsFiniteSet(B), IsFiniteSet(C), A \subseteq B,
         Cardinality(B) <= Cardinality(C)
  PROVE  IsFiniteSet(A) /\ Cardinality(A) <= Cardinality(C)
  <1>1. A \in SUBSET B
    OBVIOUS
  <1>2. IsFiniteSet(A) /\ Cardinality(A) <= Cardinality(B)
    BY <1>1, FS_Subset
  <1>3. Cardinality(A) \in Nat /\ Cardinality(B) \in Nat /\ Cardinality(C) \in Nat
    BY <1>2, FS_CardinalityType
  <1> QED
    BY <1>2, <1>3

\* The empty set is no larger than any.
LEMMA EmptySetIsLeast ==
  ASSUME NEW C, IsFiniteSet(C)
  PROVE  IsFiniteSet({}) /\ Cardinality({}) <= Cardinality(C)
  <1>1. IsFiniteSet({}) /\ Cardinality({}) = 0
    BY FS_EmptySet
  <1>2. Cardinality(C) \in Nat
    BY FS_CardinalityType
  <1> QED
    BY <1>1, <1>2

\* The elements of a sequence.
LEMMA Elements ==
  ASSUME NEW T, NEW seq \in Seq(T)
  PROVE  \A k \in DOMAIN seq : seq[k] \in T
  OBVIOUS

\* The empty sequence has no positions.
LEMMA EmptySequence ==
  ASSUME NEW seq, seq = <<>>
  PROVE  DOMAIN seq = {}
  OBVIOUS

(***************************************************************************)
(* The store.                                                              *)
(***************************************************************************)

\* A roll back keeps some of the transitions.
LEMMA KeptBounds ==
  ASSUME NEW s, NEW slot, db[s] \in Nat
  PROVE  Kept(s, slot) \in 0..db[s]
  <1> DEFINE D == 1..db[s]
             E == {k \in D : History[s].transitions[k].slot <= slot}
  <1>1. IsFiniteSet(D) /\ Cardinality(D) = db[s]
    <2>1. /\ IsFiniteSet(1..db[s])
          /\ Cardinality(1..db[s]) = IF 1 > db[s] THEN 0 ELSE db[s] - 1 + 1
      BY FS_Interval
    <2> QED
      BY <2>1
  <1>2. E \in SUBSET D
    OBVIOUS
  <1>3. IsFiniteSet(E) /\ Cardinality(E) <= Cardinality(D)
    BY <1>1, <1>2, FS_Subset
  <1>4. Cardinality(E) \in Nat
    BY <1>3, FS_CardinalityType
  <1> QED
    BY <1>1, <1>3, <1>4 DEF Kept

\* The contracts of the initial stores have one transition.
LEMMA StoreVersionsInit == Init => StoreVersions /\ SinceFits
  <1> SUFFICES ASSUME Init PROVE StoreVersions /\ SinceFits
    OBVIOUS
  <1>1. PICK S \in InitialStores : db = [s \in S |-> 1] /\ cache = db /\ longs = S
    BY DEF Init
  <1>2. S \subseteq Short /\ IsFiniteSet(S) /\ \A s \in Short : 1 \in Versions(s)
    BY StoreAssumption DEF Versions
  <1>3. MaxWrites \in Nat /\ worker = [pc |-> "idle"] /\ writes = 0
    BY StoreAssumption DEF Init
  <1>4. StoreVersions
    BY <1>1, <1>2, <1>3 DEF Init, StoreVersions
  <1>5. IsFiniteSet(added) /\ added = {}
    BY FS_EmptySet DEF Init
  <1>6. SinceFits
    BY <1>1, <1>3, <1>5 DEF Init, SinceFits
  <1> QED
    BY <1>4, <1>6

\* The version that is inserted is the next one.
LEMMA BeginInsertVersions ==
  StoreVersions /\ SinceFits /\ BeginInsert => StoreVersions' /\ SinceFits'
  <1> SUFFICES ASSUME StoreVersions, SinceFits, BeginInsert
               PROVE  StoreVersions' /\ SinceFits'
    OBVIOUS
  <1>1. PICK s \in Short :
          LET v == IF s \in DOMAIN db THEN db[s] + 1 ELSE 1
          IN  /\ v <= Len(History[s].transitions)
              /\ worker' = [pc |-> "insert", short |-> s, version |-> v]
    BY DEF BeginInsert
  <1> DEFINE v == IF s \in DOMAIN db THEN db[s] + 1 ELSE 1
  <1>2. worker' = [pc |-> "insert", short |-> s, version |-> v] /\ v <= Len(History[s].transitions)
    BY <1>1
  <1>3. Len(History[s].transitions) \in Nat /\ (s \in DOMAIN db => db[s] \in Nat)
    BY StoreAssumption DEF StoreVersions, Versions
  <1>4. v \in Versions(s)
    BY <1>2, <1>3 DEF Versions
  <1> HIDE DEF v
  <1>5. writes' \in 0..MaxWrites
    BY StoreAssumption DEF BeginInsert, StoreVersions
  <1>6. StoreVersions'
    BY <1>2, <1>4, <1>5 DEF BeginInsert, StoreVersions, since
  <1>7. SinceFits'
    BY <1>2 DEF BeginInsert, SinceFits, since
  <1> QED
    BY <1>6, <1>7

\* What is inserted into the cache is new, or in the database.
LEMMA InsertCacheVersions ==
  StoreVersions /\ SinceFits /\ InsertCache => StoreVersions' /\ SinceFits'
  <1> SUFFICES ASSUME StoreVersions, SinceFits, InsertCache
               PROVE  StoreVersions' /\ SinceFits'
    OBVIOUS
  <1>1. PICK pc \in {"insert", "cached"}, s \in Short : \E v \in Versions(s) :
           worker = [pc |-> pc, short |-> s, version |-> v]
    BY DEF StoreVersions, InsertCache
  <1>2. PICK v \in Versions(s) : worker = [pc |-> pc, short |-> s, version |-> v]
    BY <1>1
  <1>3. worker' = [pc |-> "cached", short |-> s, version |-> v]
    BY <1>2 DEF InsertCache
  <1>4. /\ DOMAIN cache' = DOMAIN cache \cup {s}
        /\ \A x \in DOMAIN cache' : cache'[x] = IF x \in DOMAIN cache THEN cache[x] ELSE v
    BY <1>2 DEF InsertCache, Put
  <1>5. StoreVersions'
    BY <1>2, <1>3, <1>4 DEF InsertCache, StoreVersions
  <1>6. added' = added \cup ({s} \ DOMAIN db)
    BY <1>2 DEF InsertCache
  <1>7. IsFiniteSet(added')
    <2>1. IsFiniteSet(added \cup {s})
      BY FS_AddElement DEF SinceFits
    <2>2. added' \in SUBSET (added \cup {s})
      BY <1>6
    <2> QED
      BY <2>1, <2>2, FS_Subset
  <1>8. SinceFits'
    BY <1>3, <1>4, <1>6, <1>7 DEF InsertCache, SinceFits
  <1> QED
    BY <1>5, <1>8

\* What enters the database was there or is new.
LEMMA InsertDbVersions ==
  StoreVersions /\ SinceFits /\ InsertDb => StoreVersions' /\ SinceFits'
  <1> SUFFICES ASSUME StoreVersions, SinceFits, InsertDb
               PROVE  StoreVersions' /\ SinceFits'
    OBVIOUS
  <1>1. PICK pc \in {"insert", "cached"}, s \in Short : \E v \in Versions(s) :
           worker = [pc |-> pc, short |-> s, version |-> v]
    BY DEF StoreVersions, InsertDb
  <1>2. PICK v \in Versions(s) : worker = [pc |-> pc, short |-> s, version |-> v]
    BY <1>1
  <1>3. /\ DOMAIN db' = DOMAIN db \cup {s}
        /\ \A x \in DOMAIN db' : db'[x] = IF x = s THEN v ELSE db[x]
    BY <1>2 DEF InsertDb, Put
  <1>4. IsFiniteSet(DOMAIN db')
    BY <1>3, FS_AddElement DEF StoreVersions
  <1>5. worker' = [pc |-> "idle"]
    BY DEF InsertDb
  <1>6. StoreVersions'
    BY <1>3, <1>4, <1>5 DEF InsertDb, StoreVersions, since
  <1>7. s \in DOMAIN db \cup added
    BY <1>2 DEF InsertDb, SinceFits
  <1>8. SinceFits'
    BY <1>3, <1>5, <1>7 DEF InsertDb, SinceFits, since
  <1> QED
    BY <1>6, <1>8

\* A roll back leaves contracts with some of their transitions.
LEMMA RollbackDbVersions ==
  StoreVersions /\ SinceFits /\ RollbackDb => StoreVersions' /\ SinceFits'
  <1> SUFFICES ASSUME StoreVersions, SinceFits, RollbackDb
               PROVE  StoreVersions' /\ SinceFits'
    OBVIOUS
  <1>1. PICK slot :
          db' = [s \in {x \in DOMAIN db : Kept(x, slot) > 0} |-> Kept(s, slot)]
    BY DEF RollbackDb
  <1>2. ASSUME NEW s \in DOMAIN db'
        PROVE  s \in DOMAIN db /\ s \in Short /\ db'[s] \in Versions(s)
    <2>1. s \in DOMAIN db /\ Kept(s, slot) > 0 /\ db'[s] = Kept(s, slot)
      BY <1>1
    <2>2. s \in Short /\ db[s] \in 1..Len(History[s].transitions)
      BY <2>1 DEF StoreVersions, Versions
    <2>3. Len(History[s].transitions) \in Nat
      BY <2>2, StoreAssumption
    <2>4. Kept(s, slot) \in 0..db[s]
      BY <2>2, <2>3, KeptBounds
    <2> QED
      BY <2>1, <2>2, <2>3, <2>4 DEF Versions
  <1>3. DOMAIN db' \in SUBSET DOMAIN db
    BY <1>2
  <1>4. IsFiniteSet(DOMAIN db')
    BY <1>3, FS_Subset DEF StoreVersions
  <1>5. worker' = [pc |-> "rolled"] /\ writes' \in 0..MaxWrites
    BY StoreAssumption DEF RollbackDb, StoreVersions
  <1>6. StoreVersions'
    BY <1>2, <1>4, <1>5 DEF RollbackDb, StoreVersions
  <1>7. SinceFits'
    BY <1>3, <1>5 DEF RollbackDb, SinceFits
  <1> QED
    BY <1>6, <1>7

\* init_mem_cache copies the database.
LEMMA InitCacheVersions ==
  StoreVersions /\ SinceFits /\ (BeginInitCache \/ InitCache) => StoreVersions' /\ SinceFits'
  <1> SUFFICES ASSUME StoreVersions, SinceFits, BeginInitCache \/ InitCache
               PROVE  StoreVersions' /\ SinceFits'
    OBVIOUS
  <1>1. CASE BeginInitCache
    BY <1>1 DEF BeginInitCache, StoreVersions, SinceFits, since
  <1>2. CASE InitCache
    <2>1. worker' = [pc |-> "idle"] /\ cache' = db /\ longs' = DOMAIN db
      BY <1>2 DEF InitCache
    <2> QED
      BY <1>2, <2>1 DEF InitCache, StoreVersions, SinceFits
  <1> QED
    BY <1>1, <1>2

\* A step of the query takes and gives back locks at most.
LEMMA QueryLeavesStore ==
  QueryStep => UNCHANGED <<db, cache, longs, worker, writes, since, query>>
  <1> SUFFICES ASSUME QueryStep
               PROVE  UNCHANGED <<db, cache, longs, worker, writes, since, query>>
    OBVIOUS
  <1> QED
    BY DEF QueryStep, Start, ReadRange, ReadKey, CutRange, PreFilterShortId, FindLongId,
           PreFilterId, LookUp, MakePage, ResolveFields, store

\* The locks stay among their values.
LEMMA QueryVersions ==
  StoreVersions /\ SinceFits /\ QueryStep => StoreVersions' /\ SinceFits'
  <1> SUFFICES ASSUME StoreVersions, SinceFits, QueryStep
               PROVE  StoreVersions' /\ SinceFits'
    OBVIOUS
  <1>1. UNCHANGED <<db, cache, longs, worker, writes, since>>
    BY QueryLeavesStore
  <1>2. lookupLock' \in {lookupLock, "free", "reader"} /\ cacheLock' = cacheLock
    BY DEF QueryStep, Start, ReadRange, ReadKey, CutRange, PreFilterShortId, FindLongId,
           PreFilterId, LookUp, MakePage, ResolveFields, store
  <1>3. StoreVersions'
    BY <1>1, <1>2 DEF StoreVersions
  <1>4. SinceFits'
    BY <1>1 DEF SinceFits, since
  <1> QED
    BY <1>3, <1>4

\* The worker's steps.
WorkerSteps == BeginInsert \/ RollbackDb \/ WorkerStep

\* What is stored is what fits, whoever moves.
LEMMA StoreKeeps ==
  StoreVersions /\ SinceFits /\ [Next]_vars => StoreVersions' /\ SinceFits'
  <1> SUFFICES ASSUME StoreVersions, SinceFits, [Next]_vars
               PROVE  StoreVersions' /\ SinceFits'
    OBVIOUS
  <1>1. CASE UNCHANGED vars
    BY <1>1 DEF vars, store, since, StoreVersions, SinceFits
  <1> QED
    BY <1>1, BeginInsertVersions, RollbackDbVersions, InsertCacheVersions,
       InsertDbVersions, InitCacheVersions, QueryVersions DEF Next, WorkerStep

\* For the query, a step of the worker only makes stable smaller and added
\* larger; what enters the database is new.
LEMMA WorkerMoves ==
  ASSUME StoreVersions, SinceFits, WorkerSteps
  PROVE  /\ UNCHANGED <<reading, stored>>
         /\ stable' \subseteq stable \cap DOMAIN db'
         /\ added \subseteq added'
         /\ DOMAIN db' \subseteq DOMAIN db \cup added'
  <1>1. UNCHANGED <<reading, stored>> /\ added \subseteq added' /\ stable' \subseteq stable
    BY DEF WorkerSteps, WorkerStep, BeginInsert, RollbackDb, InsertCache, InsertDb,
           BeginInitCache, InitCache, since
  <1>2. SinceFits'
    BY StoreKeeps DEF WorkerSteps, Next
  <1>3. DOMAIN db' \subseteq DOMAIN db \cup added'
    <2>1. CASE InsertDb
      BY <2>1 DEF InsertDb, Put, SinceFits, since
    <2>2. CASE RollbackDb
      BY <2>2 DEF RollbackDb
    <2>3. CASE BeginInsert \/ InsertCache \/ BeginInitCache \/ InitCache
      BY <2>3 DEF BeginInsert, InsertCache, BeginInitCache, InitCache
    <2> QED
      BY <2>1, <2>2, <2>3 DEF WorkerSteps, WorkerStep
  <1> QED
    BY <1>1, <1>2, <1>3 DEF SinceFits

(***************************************************************************)
(* The query beside a step of the worker.                                  *)
(***************************************************************************)

\* What a query has before it starts.
LEMMA InitRInv == Init => RInv
  <1> SUFFICES ASSUME Init PROVE RInv
    OBVIOUS
  <1>1. StoreVersions /\ SinceFits
    BY StoreVersionsInit
  <1>2. keys = <<>> /\ pre = <<>> /\ matched = <<>> /\ qpc = "start" /\ query \in Queries
    BY DEF Init
  <1>3. ReadsFit
    BY <1>2 DEF Init, ReadsFit, Phases
  <1>4. InOrder /\ FoundFits
    BY <1>2 DEF InOrder, FoundFits
  <1>5. CountFits /\ FewAreLost /\ AnswerFits
    BY <1>2 DEF CountFits, FewAreLost, Cut, AnswerFits
  <1> QED
    BY <1>1, <1>3, <1>4, <1>5 DEF RInv

\* The page depends on what was found and on the query.
LEMMA PageSame ==
  ASSUME UNCHANGED <<query, from, matched>>
  PROVE  /\ Page' = Page
         /\ PageSize' = PageSize /\ CurrentPage' = CurrentPage
         /\ TotalPages(Len(FirstLast(matched)), PageSize)' =
               TotalPages(Len(FirstLast(matched)), PageSize)
         /\ InvalidFirstLast' <=> InvalidFirstLast
  <1>1. PageSize' = PageSize /\ (InvalidFirstLast' <=> InvalidFirstLast)
    BY DEF PageSize, InvalidFirstLast
  <1>2. FirstLast(matched)' = FirstLast(matched)
    BY DEF FirstLast
  <1>3. CurrentPage' = CurrentPage
    BY DEF CurrentPage, FirstLast, PageSize
  <1>4. Page' = Page
    BY DEF Page, CurrentPage, FirstLast, PageSize
  <1>5. TotalPages(Len(FirstLast(matched)), PageSize)' = TotalPages(Len(FirstLast(matched)), PageSize)
    BY <1>1, <1>2 DEF TotalPages
  <1> QED
    BY <1>1, <1>3, <1>4, <1>5

\* What the worker does takes nothing from what a query has found, and adds
\* nothing to what it has to find.
LEMMA WorkerKeepsResult ==
  ASSUME RInv, UNCHANGED <<reading, stored>>, StoreVersions', SinceFits',
         stable' \subseteq stable \cap DOMAIN db', added \subseteq added',
         DOMAIN db' \subseteq DOMAIN db \cup added'
  PROVE  RInv'
  <1> USE DEF reading
  <1>1. ReadsFit'
    BY DEF RInv, ReadsFit, PageSize, IsEq
  <1>2. SearchesAll' <=> SearchesAll
    BY DEF SearchesAll, IsEq
  <1>3. InOrder'
    BY <1>2 DEF RInv, InOrder
  <1>4. \A s, v : Selected(s, v)' <=> Selected(s, v)
    BY DEF Selected
  <1>5. FoundFits'
    BY <1>2, <1>4 DEF RInv, FoundFits
  <1>6. CountFits'
    <2> SUFFICES ASSUME SearchesAll, qpc = "keys"
                 PROVE  /\ Covered(stable)'
                        /\ \E C \in SUBSET Short :
                              /\ IsFiniteSet(C) /\ to = Cardinality(C)
                              /\ \A s \in DOMAIN db' : s \in C \cup added'
                              /\ \A k \in DOMAIN keys : keys[k] \in C \cup added'
      BY <1>2 DEF RInv, CountFits
    <2>1. Covered(stable)
      BY DEF RInv, CountFits
    <2>2. Covered(stable)'
      BY <2>1 DEF Covered, KeysAhead
    <2>3. PICK C \in SUBSET Short :
            /\ IsFiniteSet(C) /\ to = Cardinality(C)
            /\ \A s \in DOMAIN db : s \in C \cup added
            /\ \A k \in DOMAIN keys : keys[k] \in C \cup added
      BY DEF RInv, CountFits
    <2> QED
      BY <2>2, <2>3
  <1>7. FewAreLost'
    <2> SUFFICES ASSUME SearchesAll, Cut
                 PROVE  /\ qpc \in {"fields", "done"} => keys = <<>>
                        /\ \E M \in SUBSET Short :
                            /\ IsFiniteSet(M) /\ Cardinality(M) <= Cardinality(added')
                            /\ \A s \in Expected' : \/ s \in M \/ s \in MatchedShorts
                                                    \/ \E k \in DOMAIN keys : keys[k] = s
      <3>1. (Cut' <=> Cut) /\ MatchedShorts' = MatchedShorts /\ UNCHANGED <<qpc, keys>>
        BY DEF Cut, MatchedShorts
      <3> QED
        BY <1>2, <3>1 DEF FewAreLost
    <2>1. PICK M \in SUBSET Short :
              /\ IsFiniteSet(M) /\ Cardinality(M) <= Cardinality(added)
              /\ \A s \in Expected : \/ s \in M \/ s \in MatchedShorts
                                     \/ \E k \in DOMAIN keys : keys[k] = s
      BY DEF RInv, FewAreLost
    <2>2. Expected' \subseteq Expected
      BY <1>4 DEF Expected
    <2>3. /\ IsFiniteSet(added') /\ Cardinality(added) <= Cardinality(added')
          /\ Cardinality(added) \in Nat /\ Cardinality(added') \in Nat
      <3>1. IsFiniteSet(added') /\ added \in SUBSET added'
        BY DEF SinceFits
      <3> QED
        BY <3>1, FS_Subset, FS_CardinalityType
    <2>4. Cardinality(M) \in Nat
      BY <2>1, FS_CardinalityType
    <2>5. Cardinality(M) <= Cardinality(added')
      BY <2>1, <2>3, <2>4
    <2> QED
      BY <2>1, <2>2, <2>5 DEF RInv, FewAreLost
  <1>8. AnswerFits'
    BY PageSame DEF RInv, AnswerFits
  <1> QED
    BY <1>1, <1>3, <1>5, <1>6, <1>7, <1>8 DEF RInv

(***************************************************************************)
(* The query reads keys.                                                   *)
(***************************************************************************)

\* What of the invariant a step of the query has to show: the rest is about
\* the store and what it leaves alone.
LEMMA QueryKeepsResult ==
  ASSUME RInv, QueryStep, ReadsFit', InOrder', FoundFits', CountFits', FewAreLost', AnswerFits'
  PROVE  RInv'
  <1>1. StoreVersions' /\ SinceFits'
    BY StoreKeeps DEF RInv, Next
  <1> QED
    BY <1>1 DEF RInv

\* What a step of the query never changes.
LEMMA QuerySame ==
  ASSUME QueryStep
  PROVE  /\ SearchesAll' <=> SearchesAll
         /\ PageSize' = PageSize
         /\ Expected' = Expected
         /\ \A s, v : Selected(s, v)' <=> Selected(s, v)
  <1>1. query' = query /\ stable' = stable
    BY QueryLeavesStore DEF since
  <1>2. \A s, v : Selected(s, v)' <=> Selected(s, v)
    BY <1>1 DEF Selected
  <1>3. Expected' = Expected
    BY <1>1, <1>2 DEF Expected
  <1> QED
    BY <1>1, <1>2, <1>3 DEF SearchesAll, IsEq, PageSize

\* Before the range is cut there is nothing found and nothing lost.
LEMMA StartKeepsResult == RInv /\ Start => RInv'
  <1> SUFFICES ASSUME RInv, Start PROVE RInv'
    OBVIOUS
  <1>1. qpc = "start" /\ keys = <<>> /\ matched = <<>>
    BY DEF Start, RInv, ReadsFit
  <1>2. UNCHANGED <<query, from, to, keys, pre, matched, store, since>> /\ QueryStep
    BY DEF Start, QueryStep
  <1>3. \/ qpc' = "range" /\ (query.pageSize = None \/ query.pageSize \in MinPageSize..MaxPageSize)
        \/ qpc' = "done" /\ answer' = [kind |-> "empty"]
        \/ qpc' = "done" /\ \E e \in {"first and last", "page", "pageSize"} :
                               answer' = [kind |-> "error", error |-> e]
    BY Zenon DEF Start, Answered, Fails
  <1>4. qpc' = "range" => PageSize \in Nat \ {0}
    BY <1>3, PageSizeAssumption DEF PageSize
  <1>5. ReadsFit'
    BY <1>1, <1>2, <1>3, <1>4 DEF RInv, ReadsFit, Phases, PageSize, IsEq
  <1>6. InOrder' /\ FoundFits'
    BY <1>1, <1>2 DEF InOrder, FoundFits
  <1>7. CountFits' /\ FewAreLost' /\ AnswerFits'
    <2> USE DEF CountFits, FewAreLost, Cut, AnswerFits, Errors
    <2>1. CASE qpc' = "range"
      BY <2>1
    <2>2. CASE qpc' = "done" /\ answer' = [kind |-> "empty"]
      BY <2>2
    <2>3. CASE qpc' = "done" /\ \E e \in {"first and last", "page", "pageSize"} :
                                   answer' = [kind |-> "error", error |-> e]
      <3>1. PICK e \in {"first and last", "page", "pageSize"} :
               answer' = [kind |-> "error", error |-> e]
        BY <2>3
      <3>2. answer'.kind = "error" /\ answer'.error = e
        BY <3>1
      <3> QED
        BY <2>3, <3>2
    <2> QED
      BY <1>3, <2>1, <2>2, <2>3
  <1> QED
    BY <1>2, <1>5, <1>6, <1>7, QueryKeepsResult

\* All contracts of the database are counted, and all are ahead.
LEMMA ReadRangeKeepsResult == RInv /\ ReadRange => RInv'
  <1> SUFFICES ASSUME RInv, ReadRange PROVE RInv'
    OBVIOUS
  <1>1. qpc = "range" /\ keys = <<>> /\ matched = <<>>
    BY DEF ReadRange, RInv, ReadsFit
  <1>2. UNCHANGED <<query, keys, pre, matched, store, since>> /\ QueryStep
    BY DEF ReadRange, QueryStep
  <1>3. \/ qpc' = "keys"
        \/ qpc' = "done" /\ answer' = [kind |-> "panic"]
        \/ qpc' = "done" /\ answer' = [kind |-> "error", error |-> "wrong order"]
    BY Zenon DEF ReadRange, Answered, Fails, Panics
  <1>4. IsFiniteSet(DOMAIN db) /\ Cardinality(DOMAIN db) \in Nat
    BY FS_CardinalityType DEF RInv, StoreVersions
  <1>5. from' \in Nat /\ to' \in Nat
    <2>1. /\ from' = IF query.after \in Nat THEN query.after + 1 ELSE 0
          /\ to' = IF query.before \in Nat THEN query.before ELSE Cardinality(DOMAIN db)
      BY DEF ReadRange
    <2> QED
      BY <1>4, <2>1
  <1>6. PageSize' \in Nat \ {0}
    BY <1>1, <1>2 DEF RInv, ReadsFit, PageSize
  <1>7. ReadsFit'
    BY <1>1, <1>2, <1>3, <1>5, <1>6 DEF RInv, ReadsFit, Phases, IsEq
  <1>8. InOrder' /\ FoundFits'
    BY <1>1, <1>2 DEF InOrder, FoundFits
  <1>9. CountFits'
    <2> SUFFICES ASSUME SearchesAll PROVE CountFits'
      BY <1>2, QuerySame DEF CountFits
    <2>1. from' = 0 /\ to' = Cardinality(DOMAIN db)
      BY CursorAssumption DEF SearchesAll, ReadRange
    <2>2. keys' = <<>> /\ db' = db /\ stable' = stable /\ added' = added
      BY <1>1, <1>2 DEF store, since
    <2>3. Covered(stable)'
      BY <2>2 DEF Covered, KeysAhead, RInv, SinceFits
    <2>4. DOMAIN db \in SUBSET Short
      BY DEF RInv, StoreVersions
    <2> QED
      BY <1>4, <2>1, <2>2, <2>3, <2>4 DEF CountFits
  <1>10. FewAreLost' /\ AnswerFits'
    <2> USE DEF FewAreLost, Cut, AnswerFits, Errors
    <2>1. CASE qpc' = "keys"
      BY <2>1
    <2>2. CASE qpc' = "done" /\ answer' = [kind |-> "panic"]
      BY <2>2
    <2>3. CASE qpc' = "done" /\ answer' = [kind |-> "error", error |-> "wrong order"]
      BY <2>3
    <2> QED
      BY <1>3, <2>1, <2>2, <2>3
  <1> QED
    BY <1>2, <1>7, <1>8, <1>9, <1>10, QueryKeepsResult

\* The least key ahead is read: the keys stay in their order, and what has
\* been ahead is ahead or read.
LEMMA ReadKeyKeepsResult == RInv /\ ReadKey => RInv'
  <1> SUFFICES ASSUME RInv, ReadKey PROVE RInv'
    OBVIOUS
  <1> DEFINE s == CHOOSE x \in KeysAhead : \A y \in KeysAhead : x <= y
  <1>1. KeysAhead \in SUBSET Short /\ KeysAhead \in SUBSET Nat /\ KeysAhead # {}
    BY StoreAssumption DEF RInv, ReadKey, StoreVersions, KeysAhead
  <1>2. s \in KeysAhead /\ \A y \in KeysAhead : s <= y
    <2>1. \E x \in KeysAhead : \A y \in KeysAhead : x <= y
      BY <1>1, LeastElement
    <2> QED
      BY <2>1
  <1>3. /\ keys' = Append(keys, s) /\ s \in Short /\ s \in Nat /\ s \in DOMAIN db
        /\ keys = <<>> \/ s > keys[Len(keys)]
    BY <1>1, <1>2 DEF ReadKey, KeysAhead
  <1> HIDE DEF s
  <1>4. qpc = "keys" /\ matched = <<>> /\ keys \in Seq(Nat)
    BY DEF ReadKey, RInv, ReadsFit
  <1>5. UNCHANGED <<qpc, query, from, to, pre, matched, answer, store, since>> /\ QueryStep
    BY DEF ReadKey, QueryStep
  <1>6. /\ keys' \in Seq(Nat)
        /\ keys' # <<>> /\ keys'[Len(keys')] = s
        /\ \A k \in DOMAIN keys : k \in DOMAIN keys' /\ keys'[k] = keys[k]
        /\ \A k \in DOMAIN keys' : k \in DOMAIN keys \/ keys'[k] = s
        /\ Len(keys') \in DOMAIN keys'
    BY <1>3, <1>4, AppendFacts
  <1>7. ReadsFit'
    BY <1>4, <1>5, <1>6 DEF RInv, ReadsFit, PageSize, IsEq
  <1>8. InOrder'
    <2> SUFFICES ASSUME SearchesAll, NEW j \in DOMAIN keys', NEW k \in DOMAIN keys', j < k
                 PROVE  keys'[j] < keys'[k]
      BY <1>4, <1>5, QuerySame DEF InOrder
    <2>1. DOMAIN keys = 1..Len(keys) /\ DOMAIN keys' = 1..(Len(keys) + 1) /\ Len(keys) \in Nat
      BY <1>3, <1>4
    <2>2. j \in 1..Len(keys) /\ keys'[j] = keys[j]
      BY <1>6, <2>1
    <2>3. \A i \in 1..Len(keys) : keys[i] \in Nat /\ (i < Len(keys) => keys[i] < keys[Len(keys)])
      <3>1. \A i \in 1..Len(keys) : keys[i] \in Nat
        BY <1>4
      <3>2. \A i, l \in 1..Len(keys) : i < l => keys[i] < keys[l]
        BY <2>1 DEF RInv, InOrder
      <3>3. Len(keys) \in 1..Len(keys)
        BY <2>1, <2>2
      <3> QED
        BY <3>1, <3>2, <3>3
    <2>4. CASE k \in 1..Len(keys)
      <3>1. keys'[k] = keys[k]
        BY <1>6, <2>1, <2>4
      <3> QED
        BY <2>1, <2>2, <2>4, <3>1 DEF RInv, InOrder
    <2>5. CASE k = Len(keys) + 1
      <3>1. keys'[k] = s
        BY <1>6, <2>1, <2>5
      <3>2. s > keys[Len(keys)]
        BY <1>3, <2>1, <2>2
      <3>3. Len(keys) \in 1..Len(keys) /\ (j = Len(keys) \/ j < Len(keys))
        BY <2>1, <2>2
      <3>4. keys[j] \in Nat /\ keys[Len(keys)] \in Nat /\ keys[j] <= keys[Len(keys)]
        BY <2>2, <2>3, <3>3
      <3> QED
        BY <1>3, <2>2, <3>1, <3>2, <3>4
    <2> QED
      BY <2>1, <2>4, <2>5
  <1>9. FoundFits'
    BY <1>4, <1>5 DEF FoundFits
  <1>10. CountFits'
    <2> SUFFICES ASSUME SearchesAll PROVE CountFits'
      BY <1>5, QuerySame DEF CountFits
    <2>1. PICK C \in SUBSET Short :
            /\ IsFiniteSet(C) /\ to = Cardinality(C)
            /\ \A x \in DOMAIN db : x \in C \cup added
            /\ \A k \in DOMAIN keys : keys[k] \in C \cup added
      BY <1>4 DEF RInv, CountFits
    <2>2. \A k \in DOMAIN keys' : keys'[k] \in C \cup added
      BY <1>3, <1>6, <2>1
    <2>3. Covered(stable)'
      <3> SUFFICES ASSUME NEW c \in stable
                   PROVE  c \in KeysAhead' \/ \E k \in DOMAIN keys' : keys'[k] = c
        BY <1>5 DEF Covered, since
      <3>1. CASE \E k \in DOMAIN keys : keys[k] = c
        BY <1>6, <3>1
      <3>2. CASE c \in KeysAhead
        <4>1. c \in Nat /\ s \in Nat /\ s <= c
          BY <1>1, <1>2, <3>2
        <4>2. CASE c = s
          BY <1>6, <4>2
        <4>3. CASE c > s
          BY <1>6, <3>2, <4>3, <1>5 DEF KeysAhead, store
        <4> QED
          BY <4>1, <4>2, <4>3
      <3> QED
        BY <1>4, <3>1, <3>2 DEF RInv, CountFits, Covered
    <2> QED
      BY <1>4, <1>5, <2>1, <2>2, <2>3 DEF RInv, CountFits, store, since
  <1>11. FewAreLost' /\ AnswerFits'
    BY <1>4, <1>5 DEF FewAreLost, Cut, AnswerFits
  <1> QED
    BY <1>5, <1>7, <1>8, <1>9, <1>10, <1>11, QueryKeepsResult
\* A sequence of different elements of a set is no longer than the set is large.
LEMMA NoMoreThanElements ==
  ASSUME NEW T, NEW seq \in Seq(T), NEW X, IsFiniteSet(X),
         \A k \in DOMAIN seq : seq[k] \in X,
         \A j, k \in DOMAIN seq : seq[j] = seq[k] => j = k
  PROVE  Len(seq) <= Cardinality(X)
  <1> DEFINE D == 1..Len(seq)
             f == [k \in D |-> seq[k]]
  <1>1. D = DOMAIN seq /\ Len(seq) \in Nat
    OBVIOUS
  <1>2. Cardinality(D) = Len(seq)
    <2>1. Cardinality(1..Len(seq)) = IF 1 > Len(seq) THEN 0 ELSE Len(seq) - 1 + 1
      BY <1>1, FS_Interval
    <2> QED
      BY <1>1, <2>1
  <1>3. f \in Injection(D, X)
    BY <1>1 DEF Injection, IsInjective
  <1>4. Cardinality(D) <= Cardinality(X)
    BY <1>3, FS_Injection
  <1> QED
    BY <1>2, <1>4

\* What a sequence loses when it is cut off after its first n elements is no
\* more than what it is longer.
LEMMA CutOff ==
  ASSUME NEW T, NEW seq \in Seq(T), NEW n \in 0..Len(seq)
  PROVE  LET M == {seq[k] : k \in (n + 1)..Len(seq)}
         IN  IsFiniteSet(M) /\ Cardinality(M) \in Nat /\ Cardinality(M) <= Len(seq) - n
  <1> DEFINE D == (n + 1)..Len(seq)
             M == {seq[k] : k \in D}
             f == [k \in D |-> seq[k]]
  <1>1. n \in Nat /\ Len(seq) \in Nat /\ n <= Len(seq)
    OBVIOUS
  <1>2. IsFiniteSet(D) /\ Cardinality(D) = Len(seq) - n
    <2>1. n + 1 \in Int /\ Len(seq) \in Int
      BY <1>1
    <2>2. \A a, b \in Int : /\ IsFiniteSet(a..b)
                            /\ Cardinality(a..b) = IF a > b THEN 0 ELSE b - a + 1
      BY FS_Interval
    <2>3. /\ IsFiniteSet((n + 1)..Len(seq))
          /\ Cardinality((n + 1)..Len(seq)) =
                IF n + 1 > Len(seq) THEN 0 ELSE Len(seq) - (n + 1) + 1
      BY ONLY <2>1, <2>2, Zenon
    <2> QED
      BY <1>1, <2>3
  <1>3. f \in Surjection(D, M)
    BY DEF Surjection
  <1> HIDE DEF D, f
  <1>4. IsFiniteSet(M) /\ Cardinality(M) <= Cardinality(D)
    BY <1>2, <1>3, FS_Surjection
  <1>5. Cardinality(M) \in Nat
    BY <1>4, FS_CardinalityType
  <1> QED
    BY <1>2, <1>4, <1>5 DEF D

\* Nothing is ahead when the range is cut: the keys are the contracts that
\* were there all the time and others that were counted or are new, so that
\* the range, which is as long as the count, loses no more than are new.
LEMMA CutRangeKeepsResult == RInv /\ CutRange => RInv'
  <1> SUFFICES ASSUME RInv, CutRange PROVE RInv'
    OBVIOUS
  <1>1. qpc = "keys" /\ matched = <<>> /\ KeysAhead = {}
    BY DEF CutRange, RInv, ReadsFit
  <1>2. UNCHANGED <<query, from, to, pre, matched, store, since>> /\ QueryStep
    BY DEF CutRange, QueryStep
  <1>3. keys \in Seq(Nat) /\ from \in Nat /\ to \in Nat
    BY DEF RInv, ReadsFit
  <1>4. \/ qpc' = "done" /\ answer' = [kind |-> "panic"] /\ keys' = keys
        \/ /\ qpc' = "prefilter" /\ to \in 0..Len(keys) /\ keys' = SubSeq(keys, 1, to)
           /\ answer' = answer
    <2>1. CASE to > Len(keys) \/ to > to - from
      BY <2>1 DEF CutRange, Panics, Answered
    <2>2. CASE ~(to > Len(keys) \/ to > to - from)
      <3>1. from = 0 /\ to \in 0..Len(keys) /\ from + 1 = 1
        BY <1>3, <2>2
      <3> QED
        BY <2>2, <3>1 DEF CutRange
    <2> QED
      BY <2>1, <2>2
  <1>5. /\ keys' \in Seq(Nat)
        /\ \A k \in DOMAIN keys' : k \in DOMAIN keys /\ keys'[k] = keys[k]
        /\ qpc' = "prefilter" => DOMAIN keys' = 1..to
    <2>1. CASE keys' = keys /\ qpc' = "done"
      BY <1>3, <2>1
    <2>2. CASE to \in 0..Len(keys) /\ keys' = SubSeq(keys, 1, to)
      <3>1. /\ DOMAIN keys = 1..Len(keys) /\ Len(keys) \in Nat
            /\ keys' = [k \in 1..to |-> keys[k]]
        BY <1>3, <2>2
      <3>2. \A k \in 1..to : k \in 1..Len(keys) /\ keys'[k] = keys[k] /\ keys[k] \in Nat
        BY <1>3, <2>2, <3>1
      <3> QED
        BY <1>3, <3>1, <3>2
    <2> QED
      BY <1>4, <2>1, <2>2
  <1>6. PageSize' \in Nat \ {0}
    BY <1>1, <1>2 DEF RInv, ReadsFit, PageSize
  <1>7. ReadsFit'
    <2>1. qpc' \in {"done", "prefilter"}
      BY <1>4
    <2> QED
      BY <1>1, <1>2, <1>3, <1>5, <1>6, <2>1 DEF RInv, ReadsFit, Phases, IsEq
  <1>8. InOrder'
    BY <1>1, <1>2, <1>5, QuerySame DEF RInv, InOrder
  <1>9. FoundFits'
    BY <1>1, <1>2 DEF FoundFits
  <1>10. CountFits'
    BY <1>4 DEF CountFits
  <1>11. AnswerFits'
    <2> USE DEF AnswerFits
    <2>1. CASE qpc' = "done" /\ answer' = [kind |-> "panic"]
      BY <2>1
    <2>2. CASE qpc' = "prefilter"
      BY <2>2
    <2> QED
      BY <1>4, <2>1, <2>2
  <1>12. FewAreLost'
    <2>1. CASE qpc' = "done" /\ answer' = [kind |-> "panic"]
      BY <2>1 DEF FewAreLost, Cut
    <2>2. CASE qpc' = "prefilter" /\ to \in 0..Len(keys)
      <3> DEFINE M == {keys[k] : k \in (to + 1)..Len(keys)}
      <3> SUFFICES ASSUME SearchesAll
                   PROVE  /\ M \in SUBSET Short
                          /\ IsFiniteSet(M) /\ Cardinality(M) <= Cardinality(added)
                          /\ \A s \in Expected : s \in M \/ \E k \in DOMAIN keys' : keys'[k] = s
        <4>1. added' = added /\ Expected' = Expected /\ (SearchesAll' <=> SearchesAll)
          BY <1>2, QuerySame DEF since
        <4> HIDE DEF M
        <4> QED
          BY <2>2, <4>1 DEF FewAreLost
      <3>1. PICK C \in SUBSET Short :
              /\ IsFiniteSet(C) /\ to = Cardinality(C)
              /\ \A x \in DOMAIN db : x \in C \cup added
              /\ \A k \in DOMAIN keys : keys[k] \in C \cup added
        BY <1>1 DEF RInv, CountFits
      <3>2. IsFiniteSet(added) /\ added \subseteq Short
        BY DEF RInv, SinceFits
      <3>3. /\ IsFiniteSet(C \cup added)
            /\ Cardinality(C \cup added) = Cardinality(C) + Cardinality(added)
                                             - Cardinality(C \cap added)
        BY <3>1, <3>2, FS_Union
      <3>4. /\ Cardinality(C \cap added) \in Nat /\ Cardinality(added) \in Nat
            /\ Cardinality(C \cup added) \in Nat
        <4>1. IsFiniteSet(C \cap added)
          <5>1. C \cap added \in SUBSET added
            OBVIOUS
          <5> QED
            BY <3>2, <5>1, FS_Subset
        <4> QED
          BY <3>2, <3>3, <4>1, FS_CardinalityType
      <3>5. \A j, k \in DOMAIN keys : keys[j] = keys[k] => j = k
        <4> SUFFICES ASSUME NEW j \in DOMAIN keys, NEW k \in DOMAIN keys, j # k
                     PROVE  keys[j] # keys[k]
          OBVIOUS
        <4>1. j \in Nat /\ k \in Nat /\ keys[j] \in Nat /\ keys[k] \in Nat
          BY <1>3
        <4>2. (j < k => keys[j] < keys[k]) /\ (k < j => keys[k] < keys[j])
          BY DEF RInv, InOrder
        <4> QED
          BY <4>1, <4>2
      <3>6. Len(keys) <= Cardinality(C \cup added)
        BY <1>3, <3>1, <3>3, <3>5, NoMoreThanElements
      <3>7. IsFiniteSet(M) /\ Cardinality(M) \in Nat /\ Cardinality(M) <= Len(keys) - to
        BY <1>3, <2>2, CutOff
      <3>8. Cardinality(M) <= Cardinality(added)
        <4> HIDE DEF M
        <4>1. Len(keys) \in Nat /\ Len(keys) <= to + Cardinality(added)
          BY <1>3, <3>1, <3>3, <3>4, <3>6
        <4> QED
          BY <1>3, <3>4, <3>7, <4>1
      <3>9. M \in SUBSET Short
        <4>1. \A k \in (to + 1)..Len(keys) : k \in DOMAIN keys
          BY <1>3
        <4> QED
          BY <3>1, <3>2, <4>1
      <3>10. ASSUME NEW s \in Expected
             PROVE  s \in M \/ \E k \in DOMAIN keys' : keys'[k] = s
        <4>1. s \in stable
          BY DEF Expected
        <4>2. PICK k \in DOMAIN keys : keys[k] = s
          BY <1>1, <4>1 DEF RInv, CountFits, Covered
        <4>3. k \in 1..to \/ k \in (to + 1)..Len(keys)
          BY <1>3
        <4>4. CASE k \in 1..to
          BY <1>5, <2>2, <4>2, <4>4
        <4>5. CASE k \in (to + 1)..Len(keys)
          BY <4>2, <4>5
        <4> QED
          BY <4>3, <4>4, <4>5
      <3> QED
        BY <3>7, <3>8, <3>9, <3>10
    <2> QED
      BY <1>4, <2>1, <2>2
  <1> QED
    BY <1>2, <1>7, <1>8, <1>9, <1>10, <1>11, <1>12, QueryKeepsResult

(***************************************************************************)
(* The query filters and looks keys up.                                    *)
(***************************************************************************)

\* One key is in order.
LEMMA OneKey ==
  ASSUME NEW T, NEW n \in T, NEW seq, seq = <<n>>
  PROVE  seq \in Seq(T) /\ DOMAIN seq = {1} /\ seq[1] = n
  OBVIOUS

\* Before something is looked up there is nothing found and no answer.
LEMMA NothingFound ==
  ASSUME matched' = <<>>, qpc' \in {"prefilter", "long id", "long id found", "lookup"}
  PROVE  FoundFits' /\ CountFits' /\ AnswerFits'
  <1>1. FoundFits'
    <2>1. DOMAIN matched' = {}
      BY EmptySequence
    <2> QED
      BY <2>1, Zenon DEF FoundFits
  <1>2. CountFits'
    BY DEF CountFits
  <1>3. AnswerFits'
    BY DEF AnswerFits
  <1> QED
    BY <1>1, <1>2, <1>3

\* If the new keys have all contracts that should be found, none is lost.
LEMMA NoneLost ==
  ASSUME RInv, QueryStep, qpc' \in {"long id", "long id found", "lookup"},
         SearchesAll => \A s \in Expected : \E k \in DOMAIN keys' : keys'[k] = s
  PROVE  FewAreLost'
  <1> SUFFICES ASSUME SearchesAll PROVE FewAreLost'
    BY QuerySame DEF FewAreLost
  <1>1. Expected' = Expected /\ added' = added
    BY QuerySame, QueryLeavesStore DEF since
  <1>2. IsFiniteSet({}) /\ Cardinality({}) <= Cardinality(added)
    BY EmptySetIsLeast DEF RInv, SinceFits
  <1> QED
    BY <1>1, <1>2 DEF FewAreLost

\* If keys and result stay, nothing more is lost.
LEMMA SameLost ==
  ASSUME RInv, QueryStep, UNCHANGED <<keys, matched>>, Cut,
         qpc' \in {"fields", "done"} => keys = <<>>
  PROVE  FewAreLost'
  <1> SUFFICES ASSUME SearchesAll PROVE FewAreLost'
    BY QuerySame DEF FewAreLost
  <1>1. Expected' = Expected /\ added' = added
    BY QuerySame, QueryLeavesStore DEF since
  <1>2. MatchedShorts' = MatchedShorts
    BY DEF MatchedShorts
  <1>3. PICK M \in SUBSET Short :
            /\ IsFiniteSet(M) /\ Cardinality(M) <= Cardinality(added)
            /\ \A s \in Expected : \/ s \in M \/ s \in MatchedShorts
                                   \/ \E k \in DOMAIN keys : keys[k] = s
    BY DEF RInv, FewAreLost
  <1> QED
    BY <1>1, <1>2, <1>3 DEF FewAreLost

\* A contract that should be found has the short id the query asks for.
LEMMA PreFilterShortIdKeepsResult == RInv /\ PreFilterShortId => RInv'
  <1> SUFFICES ASSUME RInv, PreFilterShortId PROVE RInv'
    OBVIOUS
  <1>1. qpc = "prefilter" /\ matched = <<>> /\ pre = <<>> /\ query \in Queries
    BY DEF PreFilterShortId, RInv, ReadsFit
  <1>2. UNCHANGED <<query, from, to, matched, answer, store, since>> /\ QueryStep
    BY DEF PreFilterShortId, QueryStep
  <1>3. /\ qpc' \in {"long id", "lookup"}
        /\ qpc' = "long id" => query.filter # None /\ IsEq(query.filter.id)
    BY DEF PreFilterShortId
  <1> DEFINE f == query.filter.shortId
             replaced == query.filter # None /\ IsEq(query.filter.shortId)
  <1>4. ASSUME replaced
        PROVE  /\ Text(f) \in Nat /\ f.hits = {Text(f)}
               /\ keys' = <<Text(f)>> /\ pre' = <<Text(f)>>
    <2>1. PICK n \in f.hits \cap Nat : f.hits = {n}
      BY <1>1, <1>4, EqAssumption
    <2>2. Text(f) = n
      BY <2>1 DEF Text
    <2> QED
      BY <1>4, <2>1, <2>2 DEF PreFilterShortId
  <1>5. ~replaced => UNCHANGED <<pre, keys>>
    BY DEF PreFilterShortId
  <1>6. ASSUME replaced
        PROVE  keys' \in Seq(Nat) /\ DOMAIN keys' = {1} /\ keys'[1] = Text(f) /\ pre' \in Seq(Nat)
    <2>1. \A seq : seq = <<Text(f)>> =>
            seq \in Seq(Nat) /\ DOMAIN seq = {1} /\ seq[1] = Text(f)
      BY <1>4, <1>6, OneKey
    <2> QED
      BY <1>4, <1>6, <2>1
  <1>7. keys' \in Seq(Nat) /\ pre' \in Seq(Nat)
    <2>1. CASE replaced
      BY <1>6, <2>1
    <2>2. CASE ~replaced
      BY <1>5, <2>2 DEF RInv, ReadsFit
    <2> QED
      BY <2>1, <2>2
  <1>8. PageSize' \in Nat \ {0}
    BY <1>1, <1>2 DEF RInv, ReadsFit, PageSize
  <1>9. f = None => pre' = <<>>
    BY <1>1, <1>5 DEF IsEq
  <1>10. ReadsFit'
    BY <1>1, <1>2, <1>3, <1>7, <1>8, <1>9 DEF RInv, ReadsFit, Phases, IsEq
  <1>11. InOrder'
    <2>1. CASE replaced
      BY <1>1, <1>2, <1>6, <2>1, QuerySame DEF InOrder
    <2>2. CASE ~replaced
      BY <1>2, <1>5, <2>2, QuerySame DEF RInv, InOrder
    <2> QED
      BY <2>1, <2>2
  <1>12. FoundFits' /\ CountFits' /\ AnswerFits'
    BY <1>1, <1>2, <1>3, NothingFound
  <1>13. FewAreLost'
    <2>1. CASE ~replaced
      BY <1>1, <1>2, <1>3, <1>5, <2>1, SameLost DEF Cut
    <2>2. CASE replaced
      <3>1. ASSUME SearchesAll, NEW s \in Expected PROVE s = Text(f)
        <4>1. s \in Short /\ 1 \in Versions(s)
          BY StoreAssumption DEF RInv, SinceFits, StoreVersions, Expected, Versions
        <4>2. Selected(s, 1)
          BY <4>1 DEF Expected
        <4>3. StrCheckOpt(f, s) /\ f # None /\ f.op = "Eq"
          BY <2>2, <4>2 DEF Selected, IsEq
        <4> QED
          BY <1>4, <2>2, <4>3 DEF StrCheckOpt, StrCheck
      <3>2. SearchesAll => \A s \in Expected : \E k \in DOMAIN keys' : keys'[k] = s
        BY <1>6, <2>2, <3>1
      <3> QED
        BY <1>2, <1>3, <3>2, NoneLost
    <2> QED
      BY <2>1, <2>2
  <1> QED
    BY <1>2, <1>10, <1>11, <1>12, <1>13, QueryKeepsResult

\* The lookup of a long id only takes a lock.
LEMMA FindLongIdKeepsResult == RInv /\ FindLongId => RInv'
  <1> SUFFICES ASSUME RInv, FindLongId PROVE RInv'
    OBVIOUS
  <1>1. qpc = "long id" /\ matched = <<>>
    BY DEF FindLongId, RInv, ReadsFit
  <1>2. UNCHANGED <<query, from, to, keys, pre, matched, answer, since>> /\ QueryStep
    BY DEF FindLongId, QueryStep
  <1>3. qpc' \in {"long id found", "lookup"}
    BY DEF FindLongId
  <1>4. PageSize' \in Nat \ {0}
    BY <1>1, <1>2 DEF RInv, ReadsFit, PageSize
  <1>5. ReadsFit'
    BY <1>1, <1>2, <1>3, <1>4 DEF RInv, ReadsFit, Phases, IsEq
  <1>6. InOrder'
    BY <1>2, QuerySame DEF RInv, InOrder
  <1>7. FoundFits' /\ CountFits' /\ AnswerFits'
    BY <1>1, <1>2, <1>3, NothingFound
  <1>8. FewAreLost'
    BY <1>1, <1>2, <1>3, SameLost DEF Cut
  <1> QED
    BY <1>2, <1>5, <1>6, <1>7, <1>8, QueryKeepsResult

\* A contract that should be found has the long id the query asks for, and
\* there is but one.
LEMMA PreFilterIdKeepsResult == RInv /\ PreFilterId => RInv'
  <1> SUFFICES ASSUME RInv, PreFilterId PROVE RInv'
    OBVIOUS
  <1>1. /\ qpc = "long id found" /\ matched = <<>> /\ query \in Queries
        /\ query.filter # None /\ IsEq(query.filter.id)
        /\ query.filter.shortId = None => pre = <<>>
        /\ pre \in Seq(Nat) /\ keys \in Seq(Nat)
    BY DEF PreFilterId, RInv, ReadsFit
  <1>2. UNCHANGED <<query, from, to, matched, answer, since>> /\ QueryStep
    BY DEF PreFilterId, QueryStep
  <1>3. qpc' = "lookup"
    BY DEF PreFilterId
  <1> DEFINE f == query.filter.id
             found == KnownAs(f) \cap DOMAIN cache
             n == CHOOSE s \in found : TRUE
  <1>4. \/ UNCHANGED <<keys, pre>>
        \/ found # {} /\ pre' = Append(pre, n) /\ keys' = Append(pre, n)
    BY DEF PreFilterId
  <1>5. found # {} => n \in Short /\ n \in Nat /\ History[n].id \in f.hits
    <2>1. found # {} => n \in found
      BY Zenon
    <2> QED
      BY <2>1, StoreAssumption DEF KnownAs, RInv, StoreVersions
  <1> HIDE DEF n, found
  <1>6. keys' \in Seq(Nat) /\ pre' \in Seq(Nat)
    <2>1. CASE UNCHANGED <<keys, pre>>
      BY <1>1, <2>1
    <2>2. CASE found # {} /\ pre' = Append(pre, n) /\ keys' = Append(pre, n)
      <3>1. n \in Nat
        BY <1>5, <2>2
      <3> HIDE <1>4, <1>5
      <3> QED
        BY <1>1, <2>2, <3>1, AppendFacts
    <2> QED
      BY <1>4, <2>1, <2>2
  <1>7. SearchesAll => pre = <<>>
    BY <1>1 DEF SearchesAll
  <1>8. \/ UNCHANGED keys
        \/ /\ found # {}
           /\ SearchesAll => DOMAIN keys' = {1} /\ keys'[1] = n
    <2>1. ASSUME SearchesAll, found # {}, keys' = Append(pre, n)
          PROVE  DOMAIN keys' = {1} /\ keys'[1] = n
      <3>1. keys' = <<n>>
        BY <1>7, <2>1
      <3> QED
        BY <1>5, <2>1, <3>1, OneKey
    <2> QED
      BY <1>4, <2>1
  <1>9. PageSize' \in Nat \ {0}
    BY <1>1, <1>2 DEF RInv, ReadsFit, PageSize
  <1>10. ReadsFit'
    BY <1>1, <1>2, <1>3, <1>6, <1>9 DEF RInv, ReadsFit, Phases
  <1>11. InOrder'
    <2>1. CASE UNCHANGED keys
      BY <1>2, <2>1, QuerySame DEF RInv, InOrder
    <2>2. CASE SearchesAll => DOMAIN keys' = {1} /\ keys'[1] = n
      <3>1. SearchesAll' => DOMAIN keys' = {1}
        BY <1>2, <2>2, QuerySame
      <3>2. matched' = <<>>
        BY <1>1, <1>2
      <3> QED
        BY <3>1, <3>2 DEF InOrder
    <2> QED
      BY <1>8, <2>1, <2>2
  <1>12. FoundFits' /\ CountFits' /\ AnswerFits'
    BY <1>1, <1>2, <1>3, NothingFound
  <1>13. FewAreLost'
    <2>1. CASE UNCHANGED keys
      BY <1>1, <1>2, <1>3, <2>1, SameLost DEF Cut
    <2>2. CASE found # {} /\ (SearchesAll => DOMAIN keys' = {1} /\ keys'[1] = n)
      <3>1. ASSUME SearchesAll, NEW s \in Expected PROVE s = n
        <4>1. s \in Short /\ 1 \in Versions(s)
          BY StoreAssumption DEF RInv, SinceFits, StoreVersions, Expected, Versions
        <4>2. Selected(s, 1)
          BY <4>1 DEF Expected
        <4>3. StrCheckOpt(f, Version(s, 1).id) /\ f # None /\ f.op = "Eq"
          BY <1>1, <4>2 DEF Selected, Matches, IsEq
        <4>4. Version(s, 1).id = History[s].id
          BY <4>1, StoreAssumption DEF Version
        <4>5. History[s].id \in f.hits
          BY <4>3, <4>4 DEF StrCheckOpt, StrCheck
        <4>6. PICK x \in f.hits : f.hits = {x}
          BY <1>1, EqAssumption
        <4>7. History[s].id = History[n].id
          BY <1>5, <2>2, <4>5, <4>6
        <4> QED
          BY <1>5, <2>2, <4>1, <4>7, LongIdAssumption
      <3>2. SearchesAll => \A s \in Expected : \E k \in DOMAIN keys' : keys'[k] = s
        BY <2>2, <3>1
      <3> QED
        BY <1>2, <1>3, <3>2, NoneLost
    <2> QED
      BY <1>8, <2>1, <2>2
  <1> QED
    BY <1>2, <1>10, <1>11, <1>12, <1>13, QueryKeepsResult
\* What a key that is looked up comes to: the filters let it pass exactly if
\* the contract, as it is cached, is selected.
LEMMA LookUpCases ==
  ASSUME RInv, LookUp
  PROVE  LET s == Head(keys)
         IN  /\ s = keys[1] /\ s \in Nat
             /\ \/ /\ qpc' = "done" /\ answer' = [kind |-> "panic"] /\ matched' = matched
                \/ /\ qpc' = "lookup" /\ answer' = answer /\ s \in DOMAIN cache
                   /\ matched' = Append(matched, [short |-> s, version |-> cache[s]])
                   /\ SearchesAll => Selected(s, cache[s])
                \/ /\ qpc' = "lookup" /\ answer' = answer /\ matched' = matched
                   /\ SearchesAll => ~Selected(s, cache[s])
  <1> DEFINE s == Head(keys)
             v == cache[s]
             skipped == query.filter # None /\ SkipsShortId(query.filter.shortId, s)
             passes == query.filter = None \/ Matches(query.filter, Version(s, v))
  <1>1. keys \in Seq(Nat) /\ keys # <<>> /\ qpc = "lookup"
    BY DEF LookUp, RInv, ReadsFit
  <1>2. s = keys[1] /\ s \in Nat
    BY <1>1
  <1>3. IF ~skipped /\ s \notin DOMAIN cache
        THEN Panics /\ UNCHANGED matched
        ELSE /\ matched' = IF ~skipped /\ passes
                           THEN Append(matched, [short |-> s, version |-> v])
                           ELSE matched
             /\ UNCHANGED <<qpc, answer>>
    BY DEF LookUp
  <1>4. SearchesAll => (Selected(s, v) <=> ~skipped /\ passes)
    <2> SUFFICES ASSUME SearchesAll PROVE Selected(s, v) <=> ~skipped /\ passes
      OBVIOUS
    <2>1. CASE query.filter = None
      BY <2>1 DEF Selected
    <2>2. CASE query.filter # None
      <3> DEFINE f == query.filter.shortId
      <3>1. f # None => f.op \in {"Eq", "Neq"}
        BY <2>2 DEF SearchesAll
      <3>2. SkipsShortId(f, s) <=> ~StrCheckOpt(f, s)
        BY <3>1 DEF SkipsShortId, StrCheckOpt, StrCheck
      <3> QED
        BY <2>2, <3>2 DEF Selected
    <2> QED
      BY <2>1, <2>2
  <1> HIDE DEF s, v, skipped, passes
  <1>5. \/ /\ qpc' = "done" /\ answer' = [kind |-> "panic"] /\ matched' = matched
        \/ /\ qpc' = "lookup" /\ answer' = answer /\ s \in DOMAIN cache
           /\ matched' = Append(matched, [short |-> s, version |-> v])
           /\ SearchesAll => Selected(s, v)
        \/ /\ qpc' = "lookup" /\ answer' = answer /\ matched' = matched
           /\ SearchesAll => ~Selected(s, v)
    <2>1. CASE ~skipped /\ s \notin DOMAIN cache
      BY <1>3, <2>1, Zenon DEF Panics, Answered
    <2>2. CASE ~skipped /\ s \in DOMAIN cache /\ passes
      BY <1>1, <1>3, <1>4, <2>2
    <2>3. CASE ~(~skipped /\ s \notin DOMAIN cache) /\ ~(~skipped /\ passes)
      BY <1>1, <1>3, <1>4, <2>3
    <2> QED
      BY <2>1, <2>2, <2>3
  <1> QED
    BY <1>2, <1>5 DEF s, v

\* A contract that passes joins the result; one that should be found passes,
\* because it is cached in one of its versions.
LEMMA LookUpKeepsResult == RInv /\ LookUp => RInv'
  <1> SUFFICES ASSUME RInv, LookUp PROVE RInv'
    OBVIOUS
  <1> DEFINE s == Head(keys)
             found == [short |-> s, version |-> cache[s]]
             panics == qpc' = "done" /\ answer' = [kind |-> "panic"] /\ matched' = matched
             adds == /\ qpc' = "lookup" /\ answer' = answer /\ s \in DOMAIN cache
                     /\ matched' = Append(matched, found)
                     /\ SearchesAll => Selected(s, cache[s])
             skips == /\ qpc' = "lookup" /\ answer' = answer /\ matched' = matched
                      /\ SearchesAll => ~Selected(s, cache[s])
  <1>1. s = keys[1] /\ s \in Nat /\ (panics \/ adds \/ skips)
    BY LookUpCases
  <1>2. qpc = "lookup" /\ keys' = Tail(keys) /\ keys # <<>> /\ keys \in Seq(Nat)
    BY DEF LookUp, RInv, ReadsFit
  <1>3. UNCHANGED <<query, from, to, pre, store, since>> /\ QueryStep
    BY DEF LookUp, QueryStep
  <1>4. /\ keys' \in Seq(Nat)
        /\ 1 \in DOMAIN keys
        /\ \A k \in DOMAIN keys' : k + 1 \in DOMAIN keys /\ keys'[k] = keys[k + 1]
        /\ \A k \in DOMAIN keys : k # 1 => k - 1 \in DOMAIN keys' /\ keys'[k - 1] = keys[k]
    BY <1>2
  <1>5. s \in DOMAIN cache => /\ s \in Short /\ cache[s] \in Versions(s) /\ cache[s] \in Nat
                              /\ s \in stored \cup added
    BY StoreAssumption DEF RInv, StoreVersions, SinceFits, Versions
  <1>6. matched \in Seq([short : Short, version : Nat])
    BY DEF RInv, ReadsFit
  <1> HIDE DEF s
  <1>7. ASSUME adds
        PROVE  /\ matched' \in Seq([short : Short, version : Nat])
               /\ \A k \in DOMAIN matched : k \in DOMAIN matched' /\ matched'[k] = matched[k]
               /\ \A k \in DOMAIN matched' : k \in DOMAIN matched \/ matched'[k] = found
               /\ Len(matched') \in DOMAIN matched' /\ matched'[Len(matched')] = found
    <2>1. found \in [short : Short, version : Nat] /\ matched' = Append(matched, found)
      BY <1>5, <1>7
    <2> HIDE DEF found
    <2> QED
      BY <1>6, <2>1, AppendFacts
  <1>8. found.short = s /\ found.version = cache[s]
    OBVIOUS
  <1>9. ReadsFit'
    <2>1. matched' \in Seq([short : Short, version : Nat])
      BY <1>1, <1>6, <1>7
    <2>2. qpc' \in {"done", "lookup"}
      BY <1>1
    <2>3. PageSize' \in Nat \ {0}
      BY <1>2, <1>3 DEF RInv, ReadsFit, PageSize
    <2> HIDE DEF panics, adds, skips, found
    <2> QED
      BY <1>3, <1>4, <2>1, <2>2, <2>3 DEF RInv, ReadsFit, Phases
  <1>10. FoundFits'
    <2>1. stored' = stored /\ added' = added
      BY <1>3 DEF since
    <2>2. \A x, v : Selected(x, v)' <=> Selected(x, v)
      BY <1>3, QuerySame
    <2>3. SearchesAll' <=> SearchesAll
      BY <1>3, QuerySame
    <2>4. CASE matched' = matched
      BY <2>1, <2>2, <2>3, <2>4 DEF RInv, FoundFits
    <2>5. CASE adds
      <3> SUFFICES ASSUME NEW k \in DOMAIN matched'
                   PROVE  /\ matched'[k].version \in Versions(matched'[k].short)
                          /\ matched'[k].short \in stored \cup added
                          /\ SearchesAll => Selected(matched'[k].short, matched'[k].version)
        BY <2>1, <2>2, <2>3 DEF FoundFits
      <3>1. CASE k \in DOMAIN matched
        BY <1>7, <2>5, <3>1 DEF RInv, FoundFits
      <3>2. CASE matched'[k] = found
        BY <1>5, <1>8, <2>5, <3>2
      <3> QED
        BY <1>7, <2>5, <3>1, <3>2
    <2> QED
      BY <1>1, <2>4, <2>5
  <1>11. InOrder'
    <2> SUFFICES ASSUME SearchesAll
                 PROVE  /\ \A j, k \in DOMAIN keys' : j < k => keys'[j] < keys'[k]
                        /\ \A j, k \in DOMAIN matched' : j < k => matched'[j].short < matched'[k].short
                        /\ \A j \in DOMAIN matched', k \in DOMAIN keys' :
                              matched'[j].short < keys'[k]
      BY <1>3, QuerySame DEF InOrder
    <2> USE DEF RInv, InOrder
    <2>1. ASSUME NEW j \in DOMAIN keys', NEW k \in DOMAIN keys', j < k PROVE keys'[j] < keys'[k]
      <3>1. j + 1 \in DOMAIN keys /\ k + 1 \in DOMAIN keys /\ j \in Nat /\ k \in Nat
        BY <1>4
      <3>2. j + 1 < k + 1
        BY <2>1, <3>1
      <3> QED
        BY <1>4, <3>1, <3>2
    <2>2. ASSUME NEW k \in DOMAIN keys' PROVE s < keys'[k]
      <3>1. k + 1 \in DOMAIN keys /\ k \in Nat /\ k >= 1
        BY <1>4
      <3>2. 1 < k + 1
        BY <3>1
      <3> QED
        BY <1>1, <1>4, <3>1, <3>2
    <2>3. ASSUME NEW j \in DOMAIN matched, NEW k \in DOMAIN keys PROVE matched[j].short < keys[k]
      OBVIOUS
    <2>4. ASSUME NEW j \in DOMAIN matched PROVE matched[j].short < s
      BY <1>1, <1>4, <2>3
    <2>5. CASE matched' = matched
      <3>1. ASSUME NEW j \in DOMAIN matched, NEW k \in DOMAIN keys' PROVE matched[j].short < keys'[k]
        BY <1>4, <2>3
      <3> QED
        BY <2>1, <2>5, <3>1
    <2>6. CASE adds
      <3>1. /\ DOMAIN matched = 1..Len(matched) /\ Len(matched) \in Nat
            /\ DOMAIN matched' = 1..(Len(matched) + 1)
        <4>1. matched' = Append(matched, found)
          BY <2>6
        <4> HIDE DEF found
        <4> QED
          BY <1>6, <4>1
      <3>2. ASSUME NEW j \in DOMAIN matched', NEW k \in DOMAIN matched', j < k
            PROVE  matched'[j].short < matched'[k].short
        <4>1. j \in DOMAIN matched /\ matched'[j] = matched[j]
          <5>1. j \in DOMAIN matched
            BY <3>1, <3>2
          <5> QED
            BY <1>7, <2>6, <5>1
        <4>2. CASE k \in DOMAIN matched
          BY <1>7, <2>6, <3>2, <4>1, <4>2
        <4>3. CASE matched'[k] = found
          BY <1>8, <2>4, <4>1, <4>3
        <4> QED
          BY <1>7, <2>6, <4>2, <4>3
      <3>3. ASSUME NEW j \in DOMAIN matched', NEW k \in DOMAIN keys'
            PROVE  matched'[j].short < keys'[k]
        <4>1. CASE j \in DOMAIN matched
          BY <1>4, <1>7, <2>3, <2>6, <4>1
        <4>2. CASE matched'[j] = found
          BY <1>8, <2>2, <4>2
        <4> QED
          BY <1>7, <2>6, <4>1, <4>2
      <3> QED
        BY <2>1, <3>2, <3>3
    <2> QED
      BY <1>1, <2>5, <2>6
  <1>12. CountFits'
    BY <1>1 DEF CountFits
  <1>13. AnswerFits'
    <2> USE DEF AnswerFits
    <2>1. CASE panics
      BY <2>1
    <2>2. CASE qpc' = "lookup"
      BY <2>2
    <2> QED
      BY <1>1, <2>1, <2>2
  <1>14. FewAreLost'
    <2>1. CASE panics
      BY <2>1 DEF FewAreLost, Cut
    <2>2. CASE adds \/ skips
      <3> SUFFICES ASSUME SearchesAll PROVE FewAreLost'
        BY <1>3, QuerySame DEF FewAreLost
      <3>1. Expected' = Expected /\ added' = added /\ qpc' = "lookup"
        BY <1>3, <2>2, QuerySame DEF since
      <3>2. PICK M \in SUBSET Short :
              /\ IsFiniteSet(M) /\ Cardinality(M) <= Cardinality(added)
              /\ \A x \in Expected : \/ x \in M \/ x \in MatchedShorts
                                     \/ \E k \in DOMAIN keys : keys[k] = x
        BY <1>2 DEF RInv, FewAreLost, Cut
      <3>3. ASSUME NEW x \in Expected
            PROVE  \/ x \in M \/ x \in MatchedShorts'
                   \/ \E k \in DOMAIN keys' : keys'[k] = x
        <4>1. \A k \in DOMAIN matched : matched[k].short \in MatchedShorts'
          <5>1. CASE matched' = matched
            BY <5>1 DEF MatchedShorts
          <5>2. CASE adds
            BY <1>7, <5>2 DEF MatchedShorts
          <5> QED
            BY <2>2, <5>1, <5>2
        <4>2. CASE x \in M
          BY <4>2
        <4>3. CASE x \in MatchedShorts
          BY <4>1, <4>3 DEF MatchedShorts
        <4>4. CASE \E k \in DOMAIN keys : keys[k] = x
          <5>1. PICK k \in DOMAIN keys : keys[k] = x
            BY <4>4
          <5>2. CASE k # 1
            BY <1>4, <5>1, <5>2
          <5>3. CASE k = 1
            <6>1. x = s /\ x \in DOMAIN cache
              BY <1>1, <5>1, <5>3 DEF Expected, RInv, SinceFits
            <6>2. Selected(s, cache[s])
              BY <1>5, <6>1 DEF Expected
            <6>3. adds
              BY <2>2, <6>2
            <6> QED
              BY <1>7, <1>8, <6>1, <6>3 DEF MatchedShorts
          <5> QED
            BY <5>2, <5>3
        <4> QED
          BY <3>2, <4>2, <4>3, <4>4
      <3> QED
        BY <3>1, <3>2, <3>3 DEF FewAreLost
    <2> QED
      BY <1>1, <2>1, <2>2
  <1> QED
    BY <1>3, <1>9, <1>10, <1>11, <1>12, <1>13, <1>14, QueryKeepsResult
\* A page is made of what was found, if there is such a page.
LEMMA MakePageKeepsResult == RInv /\ MakePage => RInv'
  <1> SUFFICES ASSUME RInv, MakePage PROVE RInv'
    OBVIOUS
  <1>1. qpc = "lookup" /\ keys = <<>>
    BY DEF MakePage
  <1>2. UNCHANGED <<query, from, to, keys, pre, matched, store, since>> /\ QueryStep
    BY DEF MakePage, QueryStep
  <1> DEFINE valid == /\ matched # <<>> /\ ~InvalidFirstLast
                      /\ CurrentPage \in 1..TotalPages(Len(FirstLast(matched)), PageSize)
  <1>3. \/ qpc' = "done" /\ answer' = [kind |-> "error", error |-> "no result"]
        \/ qpc' = "done" /\ answer' = [kind |-> "error", error |-> "invalid pagination"]
        \/ qpc' = "fields" /\ answer' = Page /\ valid
    BY Zenon DEF MakePage, Fails, Answered
  <1>4. PageSize \in Nat \ {0} /\ PageSize' = PageSize
    BY <1>1, <1>2, PageSame DEF RInv, ReadsFit
  <1>5. ReadsFit'
    <2>1. qpc' \in {"done", "fields"}
      BY <1>3
    <2> QED
      BY <1>1, <1>2, <1>4, <2>1 DEF RInv, ReadsFit, Phases
  <1>6. InOrder'
    BY <1>2, QuerySame DEF RInv, InOrder
  <1>7. FoundFits'
    BY <1>2, QuerySame DEF RInv, FoundFits, since
  <1>8. CountFits'
    BY <1>3 DEF CountFits
  <1>9. FewAreLost'
    BY <1>1, <1>2, SameLost DEF Cut
  <1>10. AnswerFits'
    <2>1. CASE qpc' = "done" /\ answer' = [kind |-> "error", error |-> "no result"]
      BY <2>1 DEF AnswerFits, Errors
    <2>2. CASE qpc' = "done" /\ answer' = [kind |-> "error", error |-> "invalid pagination"]
      BY <2>2 DEF AnswerFits, Errors
    <2>3. CASE qpc' = "fields" /\ answer' = Page /\ valid
      <3>1. Page.kind = "page"
        BY DEF Page
      <3>2. /\ Page' = Page /\ CurrentPage' = CurrentPage
            /\ TotalPages(Len(FirstLast(matched)), PageSize)' =
                  TotalPages(Len(FirstLast(matched)), PageSize)
            /\ InvalidFirstLast' <=> InvalidFirstLast
            /\ matched' = matched
        BY <1>2, PageSame
      <3> QED
        BY <1>4, <2>3, <3>1, <3>2 DEF AnswerFits
    <2> QED
      BY <1>3, <2>1, <2>2, <2>3
  <1> QED
    BY <1>2, <1>5, <1>6, <1>7, <1>8, <1>9, <1>10, QueryKeepsResult

\* The fields of the contracts on a page leave it as it is.
LEMMA ResolveFieldsKeepsResult == RInv /\ ResolveFields => RInv'
  <1> SUFFICES ASSUME RInv, ResolveFields PROVE RInv'
    OBVIOUS
  <1>1. qpc = "fields"
    BY DEF ResolveFields
  <1>2. UNCHANGED <<query, from, to, keys, pre, matched, store, since>> /\ QueryStep
    BY DEF ResolveFields, QueryStep
  <1>3. qpc' = "done" /\ (answer' = [kind |-> "panic"] \/ answer' = answer)
    BY Zenon DEF ResolveFields, Panics, Answered
  <1>4. ReadsFit'
    BY <1>1, <1>2, <1>3 DEF RInv, ReadsFit, Phases
  <1>5. InOrder'
    BY <1>2, QuerySame DEF RInv, InOrder
  <1>6. FoundFits'
    BY <1>2, QuerySame DEF RInv, FoundFits, since
  <1>7. CountFits'
    BY <1>3 DEF CountFits
  <1>8. FewAreLost'
    <2>1. Cut
      BY <1>1 DEF Cut
    <2>2. CASE SearchesAll
      <3>1. keys = <<>>
        BY <1>1, <2>1, <2>2 DEF RInv, FewAreLost
      <3> QED
        BY <1>2, <2>1, <3>1, SameLost
    <2>3. CASE ~SearchesAll
      BY <1>2, <2>3, QuerySame DEF FewAreLost
    <2> QED
      BY <2>2, <2>3
  <1>9. AnswerFits'
    <2>1. CASE answer' = [kind |-> "panic"]
      BY <1>3, <2>1 DEF AnswerFits
    <2>2. CASE answer' = answer
      BY <1>1, <1>2, <1>3, <2>2, PageSame DEF RInv, AnswerFits
    <2> QED
      BY <1>3, <2>1, <2>2
  <1> QED
    BY <1>2, <1>4, <1>5, <1>6, <1>7, <1>8, <1>9, QueryKeepsResult

(***************************************************************************)
(* The theorems.                                                           *)
(***************************************************************************)

\* RInv holds throughout, beside any inserts and roll backs, for every query.
THEOREM ResultInvariance == Spec => []RInv
  <1>1. Init => RInv
    BY InitRInv
  <1>2. RInv /\ [Next]_vars => RInv'
    <2> SUFFICES ASSUME RInv, [Next]_vars PROVE RInv'
      OBVIOUS
    <2>1. StoreVersions' /\ SinceFits' /\ StoreVersions /\ SinceFits
      BY StoreKeeps DEF RInv
    <2>2. CASE WorkerSteps
      BY <2>1, <2>2, WorkerMoves, WorkerKeepsResult
    <2>3. CASE QueryStep
      BY <2>3, StartKeepsResult, ReadRangeKeepsResult, ReadKeyKeepsResult,
         CutRangeKeepsResult, PreFilterShortIdKeepsResult, FindLongIdKeepsResult,
         PreFilterIdKeepsResult, LookUpKeepsResult, MakePageKeepsResult,
         ResolveFieldsKeepsResult
         DEF QueryStep
    <2>4. CASE UNCHANGED vars
      <3>1. UNCHANGED <<reading, stored>> /\ stable' = stable /\ added' = added /\ db' = db
        BY <2>4 DEF vars, store, since
      <3>2. stable' \subseteq stable \cap DOMAIN db'
        BY <2>1, <3>1 DEF SinceFits
      <3> QED
        BY <2>1, <3>1, <3>2, WorkerKeepsResult
    <2> QED
      BY <2>2, <2>3, <2>4 DEF Next, WorkerSteps
  <1> QED
    BY <1>1, <1>2, PTL DEF Spec

\* A query that takes no snapshot (contracts_query_base) still finds, beside
\* any inserts and roll backs, every contract that was stored all the time and
\* is selected in all its versions, less one at most for every contract that
\* is new; nothing else, and nothing twice.
THEOREM QueriesFind == Spec => []ResultComplete
  <1>1. RInv => ResultComplete
    <2> SUFFICES ASSUME RInv, SearchesAll, qpc \in {"fields", "done"},
                        answer.kind \notin {"panic", "empty"},
                        answer.kind = "error" => answer.error = "no result"
                 PROVE  /\ Cardinality(Expected \ MatchedShorts) <= Cardinality(added)
                        /\ \A s \in MatchedShorts : /\ s \in stored \cup added
                                                    /\ \E v \in Versions(s) : Selected(s, v)
                        /\ \A j, k \in DOMAIN matched : j < k => matched[j].short < matched[k].short
      BY DEF ResultComplete, Expected
    <2>1. Cut
      BY DEF RInv, AnswerFits, Cut
    <2>2. PICK M \in SUBSET Short :
              /\ IsFiniteSet(M) /\ Cardinality(M) <= Cardinality(added)
              /\ \A s \in Expected : \/ s \in M \/ s \in MatchedShorts
                                     \/ \E k \in DOMAIN keys : keys[k] = s
      BY <2>1 DEF RInv, FewAreLost
    <2>3. keys = <<>>
      BY <2>1 DEF RInv, FewAreLost
    <2> DEFINE Missed == Expected \ MatchedShorts
    <2>4. Missed \in SUBSET M
      <3> SUFFICES ASSUME NEW s \in Expected, s \notin MatchedShorts PROVE s \in M
        OBVIOUS
      <3>1. DOMAIN keys = {}
        BY <2>3, EmptySequence
      <3> QED
        BY <2>2, <3>1, Zenon
    <2>5. Cardinality(Missed) <= Cardinality(added)
      BY <2>2, <2>4, NoLarger DEF RInv, SinceFits
    <2>6. ASSUME NEW s \in MatchedShorts
          PROVE  s \in stored \cup added /\ \E v \in Versions(s) : Selected(s, v)
      <3>1. PICK k \in DOMAIN matched : matched[k].short = s
        BY DEF MatchedShorts
      <3> QED
        BY <3>1 DEF RInv, FoundFits
    <2>7. \A j, k \in DOMAIN matched : j < k => matched[j].short < matched[k].short
      BY DEF RInv, InOrder
    <2> QED
      BY <2>5, <2>6, <2>7
  <1> QED
    BY <1>1, ResultInvariance, PTL

(***************************************************************************)
(* Pages.                                                                  *)
(***************************************************************************)

\* The quotient and the remainder.
LEMMA Quotient ==
  ASSUME NEW a \in Nat, NEW d \in Nat \ {0}
  PROVE  a \div d \in Nat /\ (a \div d) * d <= a /\ a < (a \div d) * d + d
  OBVIOUS

\* There is only one quotient.
LEMMA OneQuotient ==
  ASSUME NEW a \in Int, NEW d \in Nat \ {0}, NEW q \in Int, NEW r \in Int,
         q * d <= a, a < q * d + d, r * d <= a, a < r * d + d
  PROVE  q = r
  OBVIOUS

\* Multiples in their order.
LEMMA Multiples ==
  ASSUME NEW d \in Nat \ {0}, NEW q \in Int, NEW r \in Int, q < r
  PROVE  q * d \in Int /\ r * d \in Int /\ q * d + d <= r * d
  OBVIOUS

\* A page that exists starts in the items, holds what falls into its share,
\* and has another one before and after it exactly if items are left there.
LEMMA PageArithmetic ==
  ASSUME NEW n \in Nat \ {0}, NEW d \in Nat \ {0}, NEW c \in 1..TotalPages(n, d)
  PROVE  /\ c \in Nat /\ TotalPages(n, d) \in Nat
         /\ PageStart(c, d, n) \in Nat /\ PageEnd(c, d, n) \in Nat
         /\ PageStart(c, d, n) < PageEnd(c, d, n) /\ PageEnd(c, d, n) <= n
         /\ \A i \in 1..n : ((i - 1) \div d) + 1 = c
                               <=> PageStart(c, d, n) < i /\ i <= PageEnd(c, d, n)
         /\ TotalPages(n, d) = ((n - 1) \div d) + 1
         /\ PageEnd(c, d, n) < n <=> c < TotalPages(n, d)
         /\ PageStart(c, d, n) > 0 <=> c > 1
  <1> DEFINE p == TotalPages(n, d)
             before == (c - 1) * d
  <1>1. n + d - 1 \in Nat /\ n - 1 \in Nat
    OBVIOUS
  <1>2. p \in Nat /\ p * d \in Nat /\ p * d <= n + d - 1 /\ n + d - 1 < p * d + d
    BY <1>1, Quotient DEF TotalPages
  <1> HIDE DEF p
  <1>3. c \in Nat /\ 1 <= c /\ c <= p
    BY <1>2 DEF p
  <1>4. before \in Nat /\ before < n
    <2>1. c - 1 \in Int /\ p \in Int /\ c - 1 < p
      BY <1>2, <1>3
    <2>2. before \in Int /\ before + d <= p * d
      BY <2>1, Multiples
    <2>3. before \in Nat
      <3>1. CASE c = 1
        BY <3>1
      <3>2. CASE c > 1
        <4>1. 0 \in Int /\ c - 1 \in Int /\ 0 < c - 1
          BY <1>3, <3>2
        <4>2. 0 * d + d <= before /\ 0 * d = 0
          BY <4>1, Multiples
        <4> HIDE DEF before
        <4> QED
          BY <2>2, <4>2
      <3> QED
        BY <1>3, <3>1, <3>2
    <2> HIDE DEF before
    <2> QED
      BY <1>2, <2>2, <2>3
  <1>5. c > 1 <=> before > 0
    <2>1. CASE c = 1
      BY <2>1
    <2>2. CASE c > 1
      <3>1. 0 \in Int /\ c - 1 \in Int /\ 0 < c - 1
        BY <1>3, <2>2
      <3>2. 0 * d + d <= before /\ 0 * d = 0
        BY <3>1, Multiples
      <3> HIDE DEF before
      <3> QED
        BY <1>4, <2>2, <3>2
    <2> QED
      BY <1>3, <2>1, <2>2
  <1>6. before + d < n <=> c < p
    <2>1. before + d = c * d
      BY <1>3
    <2>2. CASE c < p
      <3>1. c * d + d <= p * d
        BY <1>2, <1>3, <2>2, Multiples
      <3> HIDE DEF before
      <3> QED
        BY <1>2, <1>4, <2>1, <2>2, <3>1
    <2>3. CASE c = p
      <3> HIDE DEF before
      <3> QED
        BY <1>2, <1>4, <2>1, <2>3
    <2> QED
      BY <1>2, <1>3, <2>2, <2>3
  <1>7. p = ((n - 1) \div d) + 1
    <2> DEFINE q == (n - 1) \div d
    <2>1. q \in Nat /\ q * d <= n - 1 /\ n - 1 < q * d + d
      BY <1>1, Quotient
    <2> HIDE DEF q
    <2>2. (q + 1) * d = q * d + d /\ q * d \in Int
      BY <2>1
    <2>3. (q + 1) * d <= n + d - 1 /\ n + d - 1 < (q + 1) * d + d
      BY <2>1, <2>2
    <2>4. p = q + 1
      BY <1>1, <1>2, <2>1, <2>3, OneQuotient
    <2> QED
      BY <2>4 DEF q
  <1>8. ASSUME NEW i \in 1..n
        PROVE  ((i - 1) \div d) + 1 = c <=> before < i /\ i <= before + d
    <2> DEFINE q == (i - 1) \div d
    <2>1. i - 1 \in Nat /\ c - 1 \in Int
      BY <1>3
    <2>2. q \in Nat /\ q * d <= i - 1 /\ i - 1 < q * d + d
      BY <2>1, Quotient
    <2> HIDE DEF q
    <2>3. ASSUME q = c - 1 PROVE before < i /\ i <= before + d
      <3>1. q * d = before
        BY <2>3
      <3> HIDE DEF before
      <3> QED
        BY <1>4, <2>2, <3>1
    <2>4. ASSUME before < i, i <= before + d PROVE q = c - 1
      <3>1. (c - 1) * d <= i - 1 /\ i - 1 < (c - 1) * d + d
        <4>1. before <= i - 1 /\ i - 1 < before + d
          <5> HIDE DEF before
          <5> QED
            BY <1>4, <2>4
        <4> QED
          BY <4>1
      <3> HIDE DEF before
      <3> QED
        BY <2>1, <2>2, <3>1, OneQuotient
    <2>5. q + 1 = c <=> q = c - 1
      BY <1>3, <2>2
    <2> QED
      BY <2>3, <2>4, <2>5 DEF q
  <1>9. /\ PageStart(c, d, n) = before
        /\ PageEnd(c, d, n) = IF before + d <= n THEN before + d ELSE n
    <2>1. PageStart(c, d, n) = Least(before, n) /\ PageEnd(c, d, n) = Least(before + d, n)
      BY DEF PageStart, PageEnd
    <2> HIDE DEF before
    <2> QED
      BY <1>4, <2>1 DEF Least
  <1> HIDE DEF before
  <1> QED
    BY <1>2, <1>3, <1>4, <1>5, <1>6, <1>7, <1>8, <1>9 DEF p
\* The first or the last of what was found: there is some of it, if anything
\* was found.
LEMMA FirstLastFacts ==
  ASSUME NEW T, NEW items \in Seq(T), items # <<>>, query \in QueryParams, ~InvalidFirstLast
  PROVE  /\ FirstLast(items) \in Seq(T) /\ Len(FirstLast(items)) \in Nat \ {0}
         /\ query.first = None /\ query.last = None => FirstLast(items) = items
  <1>1. /\ query.first # None => query.first \in Int /\ query.first >= 1
        /\ query.last # None => query.last \in Int /\ query.last >= 1
    BY DEF QueryParams, InvalidFirstLast
  <1>2. Len(items) \in Nat \ {0} /\ DOMAIN items = 1..Len(items) /\ \A i \in 1..Len(items) : items[i] \in T
    OBVIOUS
  <1>3. CASE query.first # None
    <2> DEFINE n == Least(query.first, Len(items))
    <2>1. n \in 1..Len(items)
      BY <1>1, <1>2, <1>3 DEF Least
    <2>2. FirstLast(items) = SubSeq(items, 1, n)
      BY <1>3 DEF FirstLast
    <2> HIDE DEF n
    <2>3. SubSeq(items, 1, n) \in Seq(T) /\ Len(SubSeq(items, 1, n)) = n /\ n \in Nat \ {0}
      BY <1>2, <2>1
    <2> QED
      BY <1>3, <2>2, <2>3
  <1>4. CASE query.first = None /\ query.last # None
    <2> DEFINE n == Least(query.last, Len(items))
               m == 1 + Len(items) - n
    <2>1. n \in 1..Len(items)
      BY <1>1, <1>2, <1>4 DEF Least
    <2>2. FirstLast(items) = SubSeq(items, m, Len(items))
      BY <1>4 DEF FirstLast
    <2>3. m \in 1..Len(items) /\ Len(items) - m + 1 = n
      BY <1>2, <2>1
    <2> HIDE DEF n, m
    <2>4. /\ SubSeq(items, m, Len(items)) \in Seq(T)
          /\ Len(SubSeq(items, m, Len(items))) = Len(items) - m + 1
      BY <1>2, <2>3
    <2> QED
      BY <1>2, <1>4, <2>1, <2>2, <2>3, <2>4
  <1>5. CASE query.first = None /\ query.last = None
    <2>1. FirstLast(items) = items
      BY <1>5 DEF FirstLast
    <2> QED
      BY <1>2, <2>1
  <1> QED
    BY <1>3, <1>4, <1>5

\* The part of a sequence between two positions.
LEMMA PartOf ==
  ASSUME NEW T, NEW items \in Seq(T), NEW m \in Nat, NEW n \in Nat, m < n, n <= Len(items),
         NEW part, part = SubSeq(items, m + 1, n)
  PROVE  /\ part \in Seq(T) /\ DOMAIN part = 1..(n - m) /\ part # <<>>
         /\ \A j \in 1..(n - m) : part[j] = items[m + j]
  <1>1. Len(items) \in Nat /\ DOMAIN items = 1..Len(items) /\ \A i \in 1..Len(items) : items[i] \in T
    OBVIOUS
  <1>2. PICK a \in 1..Len(items) : a = m + 1
    BY <1>1
  <1>3. n \in 1..Len(items)
    BY <1>1
  <1>4. /\ part \in Seq(T)
        /\ part = [j \in 1..(n - a + 1) |-> items[a + j - 1]]
    BY <1>1, <1>2, <1>3
  <1>5. n - a + 1 = n - m /\ n - m \in Nat \ {0}
    BY <1>2
  <1>6. ASSUME NEW j \in 1..(n - m) PROVE part[j] = items[m + j]
    <2>1. a + j - 1 = m + j
      BY <1>2
    <2> QED
      BY <1>4, <1>5, <2>1
  <1>7. DOMAIN part = 1..(n - m) /\ 1 \in DOMAIN part
    BY <1>4, <1>5
  <1>8. part # <<>>
    BY <1>7, EmptySequence
  <1> QED
    BY <1>4, <1>6, <1>7, <1>8

\* What is on a page that was made, with the values it was made of.
LEMMA PageFacts ==
  ASSUME RInv, qpc \in {"fields", "done"}, answer.kind = "page"
  PROVE  LET items == FirstLast(matched)
             n == Len(items)
             d == PageSize
             c == CurrentPage
         IN  /\ answer = Page
             /\ items \in Seq([short : Short, version : Nat])
             /\ n \in Nat \ {0} /\ d \in Nat \ {0} /\ c \in 1..TotalPages(n, d)
             /\ query.first = None /\ query.last = None => items = matched
  <1>1. /\ answer = Page /\ matched # <<>> /\ ~InvalidFirstLast
        /\ PageSize \in Nat \ {0}
        /\ CurrentPage \in 1..TotalPages(Len(FirstLast(matched)), PageSize)
    BY DEF RInv, AnswerFits
  <1>2. matched \in Seq([short : Short, version : Nat]) /\ query \in QueryParams
    BY QueriesAssumption DEF RInv, ReadsFit
  <1>3. /\ FirstLast(matched) \in Seq([short : Short, version : Nat])
        /\ Len(FirstLast(matched)) \in Nat \ {0}
        /\ query.first = None /\ query.last = None => FirstLast(matched) = matched
    BY <1>1, <1>2, FirstLastFacts
  <1> QED
    BY <1>1, <1>3

\* The pages of a result partition it (contracts_query_base, query.rs 181):
\* an answer has the items that fall into the share of its page and no other,
\* for every result and every page size.  The number of pages is rounded up as
\* the code's division of floats does it below 2^24 items.
THEOREM PagesPartition == Spec => []PageHoldsItsShare
  <1>1. RInv => PageHoldsItsShare
    <2> SUFFICES ASSUME RInv, qpc \in {"fields", "done"}, answer.kind = "page"
                 PROVE  PageHoldsItsShare
      BY DEF PageHoldsItsShare
    <2> DEFINE items == FirstLast(matched)
               n == Len(items)
               d == PageSize
               c == CurrentPage
               start == PageStart(c, d, n)
               end == PageEnd(c, d, n)
               share == {i \in DOMAIN items : ((i - 1) \div d) + 1 = c}
    <2>1. /\ answer = Page
          /\ items \in Seq([short : Short, version : Nat])
          /\ n \in Nat \ {0} /\ d \in Nat \ {0} /\ c \in 1..TotalPages(n, d)
          /\ query.first = None /\ query.last = None => items = matched
      BY PageFacts
    <2>2. /\ c \in Nat /\ TotalPages(n, d) \in Nat
          /\ start \in Nat /\ end \in Nat /\ start < end /\ end <= n
          /\ \A i \in 1..n : ((i - 1) \div d) + 1 = c <=> start < i /\ i <= end
          /\ TotalPages(n, d) = ((n - 1) \div d) + 1
          /\ end < n <=> c < TotalPages(n, d)
          /\ start > 0 <=> c > 1
      <3> HIDE DEF items, d, c
      <3> QED
        BY <2>1, PageArithmetic
    <2>3. /\ answer.edges = SubSeq(items, start + 1, end)
          /\ answer.current = c /\ answer.pages = TotalPages(n, d)
          /\ answer.hasNext = (end < Len(IF query.last # None THEN items ELSE matched))
          /\ answer.hasPrevious = (IF query.first # None THEN from # 0 ELSE start > 0)
      BY <2>1 DEF Page
    <2> HIDE DEF c, d, items, start, end
    <2>4. /\ DOMAIN answer.edges = 1..(end - start) /\ answer.edges # <<>>
          /\ \A j \in 1..(end - start) : answer.edges[j] = items[start + j]
      <3>1. PICK T : items \in Seq(T)
        BY <2>1
      <3>2. start \in Nat /\ end \in Nat /\ start < end /\ end <= Len(items)
        BY <2>2
      <3>3. PICK part : part = answer.edges
        OBVIOUS
      <3>4. part = SubSeq(items, start + 1, end)
        BY <2>3, <3>3
      <3>5. DOMAIN part = 1..(end - start)
        BY <3>1, <3>2, <3>4, PartOf
      <3>6. part # <<>>
        <4>1. 1 \in DOMAIN part
          BY <3>2, <3>5
        <4> QED
          BY <4>1, EmptySequence
      <3>7. \A j \in 1..(end - start) : part[j] = items[start + j]
        BY <3>1, <3>2, <3>4, PartOf
      <3> QED
        BY <3>3, <3>5, <3>6, <3>7
    <2>5. DOMAIN items = 1..n
      BY <2>1
    <2>6. \A i \in 1..n : i \in share <=> start < i /\ i <= end
      BY <2>2, <2>5
    <2>7. IsSelection(answer.edges, items, share)
      <3> DEFINE at == [j \in 1..(end - start) |-> start + j]
      <3>1. ASSUME NEW j \in 1..(end - start) PROVE start + j \in share
        <4>1. n \in Nat /\ start \in Nat /\ end \in Nat /\ end <= n
          BY <2>1, <2>2
        <4> HIDE DEF share, n
        <4>2. start + j \in 1..n /\ start < start + j /\ start + j <= end
          BY <4>1
        <4> QED
          BY <2>6, <4>2
      <3>2. ASSUME NEW i \in share
            PROVE  i - start \in 1..(end - start) /\ start + (i - start) = i
        <4>1. i \in 1..n
          BY <2>5
        <4>2. start < i /\ i <= end
          BY <2>6, <4>1
        <4>3. i \in Nat /\ start \in Nat /\ end \in Nat
          BY <2>2, <4>1
        <4> QED
          BY <4>2, <4>3
      <3> HIDE DEF share
      <3>3. at \in [DOMAIN answer.edges -> share]
        BY <2>4, <3>1
      <3>4. \A i, j \in DOMAIN answer.edges : i < j => at[i] < at[j]
        BY <2>2, <2>4
      <3>5. \A i \in share : \E j \in DOMAIN answer.edges : at[j] = i
        BY <2>4, <3>2
      <3>6. \A j \in DOMAIN answer.edges : answer.edges[j] = items[at[j]]
        BY <2>4
      <3> HIDE DEF at
      <3> QED
        BY <3>3, <3>4, <3>5, <3>6 DEF IsSelection
    <2>8. answer.pages = ((n - 1) \div d) + 1
      BY <2>2, <2>3
    <2>9. ASSUME query.first = None
          PROVE  /\ answer.hasNext = (c < answer.pages)
                 /\ answer.hasPrevious = (c > 1)
      <3>1. Len(IF query.last # None THEN items ELSE matched) = n
        BY <2>1, <2>9 DEF n
      <3> HIDE DEF n
      <3> QED
        BY <2>2, <2>3, <2>9, <3>1
    <2> QED
      BY <2>3, <2>4, <2>7, <2>8, <2>9 DEF PageHoldsItsShare, items, d, c
  <1> QED
    BY <1>1, ResultInvariance, PTL

\* The types of the store, of the result and of the answer.
THEOREM TypeCorrect == Spec => []TypeOK
  <1>1. RInv => TypeOK
    <2> SUFFICES ASSUME RInv PROVE TypeOK
      OBVIOUS
    <2>1. qpc \in Phases /\ matched \in Seq([short : Short, version : Nat])
      BY DEF RInv, ReadsFit
    <2>2. \A table \in {db, cache} : \A s \in DOMAIN table :
             s \in Short /\ table[s] \in 1..Len(History[s].transitions)
      BY DEF RInv, StoreVersions, Versions
    <2>3. /\ longs \subseteq Short
          /\ lookupLock \in {"free", "reader", "writer"} /\ cacheLock \in {"free", "writer"}
          /\ worker.pc \in {"idle", "insert", "cached", "rolled", "init"}
          /\ writes \in 0..MaxWrites
      BY DEF RInv, StoreVersions
    <2>4. stable \subseteq stored \cap DOMAIN db /\ added \subseteq Short
      BY DEF RInv, SinceFits
    <2>5. ASSUME qpc \in {"fields", "done"}, answer.kind = "page" PROVE answer \in Pages
      <3> DEFINE items == FirstLast(matched)
                 n == Len(items)
                 d == PageSize
                 c == CurrentPage
                 start == PageStart(c, d, n)
                 end == PageEnd(c, d, n)
                 edges == SubSeq(items, start + 1, end)
                 next == end < Len(IF query.last # None THEN items ELSE matched)
                 previous == IF query.first # None THEN from # 0 ELSE start > 0
      <3>1. /\ answer = Page
            /\ items \in Seq([short : Short, version : Nat])
            /\ n \in Nat \ {0} /\ d \in Nat \ {0} /\ c \in 1..TotalPages(n, d)
        BY <2>5, PageFacts
      <3>2. /\ c \in Nat /\ TotalPages(n, d) \in Nat
            /\ start \in Nat /\ end \in Nat /\ start < end /\ end <= n
        <4> HIDE DEF items, d, c
        <4> QED
          BY <3>1, PageArithmetic
      <3>3. edges \in Seq([short : Short, version : Nat])
        <4> HIDE DEF items, start, end
        <4> QED
          BY <3>1, <3>2, PartOf
      <3>4. next \in BOOLEAN /\ previous \in BOOLEAN
        <4> HIDE DEF items, start, end
        <4>1. next \in BOOLEAN
          OBVIOUS
        <4>2. (from # 0) \in BOOLEAN /\ (start > 0) \in BOOLEAN
          OBVIOUS
        <4>3. previous \in {from # 0, start > 0}
          OBVIOUS
        <4> QED
          BY <4>1, <4>2, <4>3
      <3>5. answer = [kind |-> "page", edges |-> edges, current |-> c,
                      pages |-> TotalPages(n, d), hasNext |-> next, hasPrevious |-> previous]
        BY <3>1 DEF Page
      <3> HIDE DEF items, n, d, c, edges, next, previous
      <3> QED
        BY <3>2, <3>3, <3>4, <3>5 DEF Pages
    <2>6. /\ qpc = "fields" => answer.kind = "page"
          /\ qpc = "done" => \/ answer.kind \in {"panic", "empty", "page"}
                             \/ answer.kind = "error" /\ answer.error # ""
      BY DEF RInv, AnswerFits, Errors
    <2>7. \A k \in DOMAIN matched : matched[k] \in [short : Short, version : Nat]
      BY <2>1, Elements
    <2>8. <<lookupLock, cacheLock>> \in {"free", "reader", "writer"} \X {"free", "writer"}
      BY <2>3
    <2>9. qpc = "fields" => answer \in Pages
      BY <2>5, <2>6
    <2>10. qpc = "done" => \/ answer.kind \in {"panic", "empty"}
                           \/ answer.kind = "error" /\ answer.error # ""
                           \/ answer \in Pages
      BY <2>5, <2>6
    <2> QED
      BY <2>1, <2>2, <2>3, <2>4, <2>7, <2>8, <2>9, <2>10, Zenon DEF TypeOK
  <1> QED
    BY <1>1, ResultInvariance, PTL
=============================================================================
