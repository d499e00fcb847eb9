-------------------------------- MODULE Query --------------------------------
(***************************************************************************)
(* The GraphQL query "contracts" (graphql/query.rs, resolvers/mod.rs)      *)
(* beside the worker's writes to the store it reads (state.rs).            *)
(*                                                                         *)
(* A query takes no snapshot: it counts the contracts of the database,     *)
(* reads the keys one by one, and looks every key up in the cache.  The    *)
(* worker inserts into the cache before the database, and a roll back      *)
(* leaves the database before the cache is initialised again.              *)
(***************************************************************************)
EXTENDS Filters, Selection

CONSTANTS
    Short,          \* short ids, as numbers in the order of their keys
    History,        \* every contract with all the transitions it can have
    InitialStores,  \* the short ids stored when the query comes in
    Queries,        \* the parameters of a query, see QueryParams
    ShortIdText,    \* a cursor that is the text of a short id
    MinPageSize,    \* 5
    MaxPageSize,    \* 100000
    DefaultPageSize,\* 50
    MaxWrites       \* bound on the worker's inserts and roll backs

ASSUME StoreAssumption ==
    /\ Short \subseteq Nat \ {0}
    /\ \A s \in Short :
          /\ {"short", "id", "transitions"} \subseteq DOMAIN History[s]
          /\ History[s].short = s
          /\ Len(History[s].transitions) \in Nat \ {0}
          /\ DOMAIN History[s].transitions = 1..Len(History[s].transitions)
    /\ InitialStores \subseteq SUBSET Short
    /\ \A S \in InitialStores : IsFiniteSet(S)
    /\ MaxWrites \in Nat

\* A contract has its long id alone.
ASSUME LongIdAssumption ==
    \A s, t \in Short : History[s].id = History[t].id => s = t

ASSUME PageSizeAssumption ==
    /\ MinPageSize \in Nat \ {0} /\ MaxPageSize \in Nat
    /\ DefaultPageSize \in MinPageSize..MaxPageSize

VARIABLES
    \* the store: contracts are versions, the number of their transitions
    db,             \* contracts_db
    cache,          \* contracts_mem_cache
    longs,          \* contracts_long_to_short_lookup, by short id
    lookupLock,     \* the lock of longs: "free", "reader" or "writer"
    cacheLock,      \* the lock of cache
    worker,         \* where the worker is, and what it inserts
    writes,
    \* the query
    qpc, query,
    from, to,       \* start_pos, end_pos
    keys,           \* the keys read, then those still to be looked up
    pre,            \* pre_filtered
    matched,        \* x_filtered_items
    answer,
    \* what happened to the store since the query came in
    stable,         \* contracts that were in the database all the time
    stored,         \* contracts that were stored then
    added,          \* contracts inserted since then
    undone          \* has a contract been taken out?

store == <<db, cache, longs, lookupLock, cacheLock, worker, writes>>
since == <<stored, stable, added, undone>>
reading == <<qpc, query, from, to, keys, pre, matched, answer>>
vars == <<store, reading, since>>

\* QueryParams, with the fields of the contracts that are asked for.  A cursor
\* is a position, or the text of a short id (which is what edges carry).
QueryParams ==
    [after : Nat \cup {None, ShortIdText}, before : Nat \cup {None, ShortIdText},
     first : Int \cup {None}, last : Int \cup {None},
     page : Int \cup {None}, pageSize : Nat \cup {None},
     filter : {q.filter : q \in Queries},
     describe : BOOLEAN, transitions : {q.transitions : q \in Queries}]

ASSUME CursorAssumption == None \notin Nat /\ ShortIdText \notin Nat \cup {None}

ASSUME QueriesAssumption == Queries \subseteq QueryParams

\* One string is equal to the text of a filter.
IsEq(f) == f # None /\ f.op = "Eq"
ASSUME EqAssumption ==
    \A q \in {r \in Queries : r.filter # None} :
        /\ IsEq(q.filter.shortId) => \E n \in q.filter.shortId.hits \cap Nat :
                                        q.filter.shortId.hits = {n}
        /\ IsEq(q.filter.id) => \E x \in q.filter.id.hits : q.filter.id.hits = {x}

\* The contract with its first transitions.
Version(s, v) == [History[s] EXCEPT !.transitions = SubSeq(@, 1, v)]
Put(f, k, v) == [x \in DOMAIN f \cup {k} |-> IF x = k THEN v ELSE f[x]]

Init ==
    /\ \E S \in InitialStores :
          /\ db = [s \in S |-> 1]
          /\ cache = db
          /\ longs = S
    /\ lookupLock = "free"
    /\ cacheLock = "free"
    /\ worker = [pc |-> "idle"]
    /\ writes = 0
    /\ qpc = "start"
    /\ query \in Queries
    /\ from = 0 /\ to = 0
    /\ keys = <<>> /\ pre = <<>> /\ matched = <<>>
    /\ answer = None
    /\ stored = DOMAIN db /\ stable = stored /\ added = {} /\ undone = FALSE

-----------------------------------------------------------------------------
(* The worker.                                                             *)

\* Mutant: insert locks the cache before the lookup.
BeginInsertCacheFirst ==
    /\ worker.pc = "idle" /\ writes < MaxWrites
    /\ cacheLock = "free"
    /\ \E s \in Short :
          LET v == IF s \in DOMAIN db THEN db[s] + 1 ELSE 1
          IN  /\ v <= Len(History[s].transitions)
              /\ worker' = [pc |-> "insert", short |-> s, version |-> v]
    /\ cacheLock' = "writer"
    /\ writes' = writes + 1
    /\ UNCHANGED <<db, cache, longs, lookupLock, reading, since>>

\* insert takes the lock of the lookup, then that of the cache.
BeginInsert ==
    /\ worker.pc = "idle" /\ writes < MaxWrites
    /\ lookupLock = "free"
    /\ \E s \in Short :
          LET v == IF s \in DOMAIN db THEN db[s] + 1 ELSE 1
          IN  /\ v <= Len(History[s].transitions)
              /\ worker' = [pc |-> "insert", short |-> s, version |-> v]
    /\ lookupLock' = "writer"
    /\ writes' = writes + 1
    /\ UNCHANGED <<db, cache, longs, cacheLock, reading, since>>

\* Both locks are the worker's, or free for it to take.
WorkerHasLocks == lookupLock # "reader" /\ cacheLock # "reader"

\* Mutant: the contract is not cached.
InsertCacheNot ==
    /\ worker.pc = "insert" /\ WorkerHasLocks
    /\ longs' = longs \cup {worker.short}
    /\ lookupLock' = "free" /\ cacheLock' = "free"
    /\ worker' = [worker EXCEPT !.pc = "cached"]
    /\ UNCHANGED <<db, cache, writes, reading, since>>

\* or_insert: a contract that is cached stays what it is.
InsertCache ==
    /\ worker.pc = "insert" /\ WorkerHasLocks
    /\ cache' = IF worker.short \in DOMAIN cache THEN cache
                ELSE Put(cache, worker.short, worker.version)
    /\ longs' = longs \cup {worker.short}
    /\ lookupLock' = "free" /\ cacheLock' = "free"
    /\ worker' = [worker EXCEPT !.pc = "cached"]
    /\ added' = added \cup ({worker.short} \ DOMAIN db)
    /\ UNCHANGED <<db, writes, reading, stored, stable, undone>>

InsertDb ==
    /\ worker.pc = "cached"
    /\ db' = Put(db, worker.short, worker.version)
    /\ worker' = [pc |-> "idle"]
    /\ UNCHANGED <<cache, longs, lookupLock, cacheLock, writes, reading, since>>

\* The versions of a roll back to a slot.
Kept(s, slot) == Cardinality({k \in 1..db[s] : History[s].transitions[k].slot <= slot})

\* Mutant: contracts left without a transition are kept.
RollbackDbKeepsEmpty ==
    /\ worker.pc = "idle" /\ writes < MaxWrites
    /\ \E slot \in {0} \cup UNION {{History[s].transitions[k].slot : k \in 1..db[s]} :
                                      s \in DOMAIN db} :
          db' = [s \in DOMAIN db |-> Kept(s, slot)]
    /\ worker' = [pc |-> "rolled"]
    /\ writes' = writes + 1
    /\ UNCHANGED <<cache, longs, lookupLock, cacheLock, reading, since>>

\* rollback, up to init_mem_cache.
RollbackDb ==
    /\ worker.pc = "idle" /\ writes < MaxWrites
    /\ \E slot \in {0} \cup UNION {{History[s].transitions[k].slot : k \in 1..db[s]} :
                                      s \in DOMAIN db} :
          db' = [s \in {x \in DOMAIN db : Kept(x, slot) > 0} |-> Kept(s, slot)]
    /\ worker' = [pc |-> "rolled"]
    /\ writes' = writes + 1
    /\ stable' = stable \cap DOMAIN db'
    /\ undone' = (undone \/ DOMAIN db' # DOMAIN db)
    /\ UNCHANGED <<cache, longs, lookupLock, cacheLock, reading, stored, added>>

\* init_mem_cache takes the same locks in the same order.
BeginInitCache ==
    /\ worker.pc = "rolled"
    /\ lookupLock = "free"
    /\ lookupLock' = "writer"
    /\ worker' = [pc |-> "init"]
    /\ UNCHANGED <<db, cache, longs, cacheLock, writes, reading, since>>

InitCache ==
    /\ worker.pc = "init" /\ WorkerHasLocks
    /\ cache' = db
    /\ longs' = DOMAIN db
    /\ undone' = (undone \/ ~(DOMAIN cache \subseteq DOMAIN db))
    /\ lookupLock' = "free" /\ cacheLock' = "free"
    /\ worker' = [pc |-> "idle"]
    /\ UNCHANGED <<db, writes, reading, stored, stable, added>>

-----------------------------------------------------------------------------
(* The query.                                                              *)

Answered(result) == answer' = result /\ qpc' = "done"
Fails(error) == Answered([kind |-> "error", error |-> error])
Panics == Answered([kind |-> "panic"])

\* MarloweQueryRoot::contracts, and the count that comes first.
Start ==
    /\ qpc = "start"
    /\ IF query.first # None /\ query.last # None
       THEN Fails("first and last")
       ELSE IF query.page # None /\ query.page < 1
       THEN Fails("page")
       ELSE IF db = <<>> THEN Answered([kind |-> "empty"])
       ELSE IF query.pageSize # None /\ query.pageSize \notin MinPageSize..MaxPageSize
       THEN Fails("pageSize")
       ELSE qpc' = "range" /\ UNCHANGED answer
    /\ UNCHANGED <<query, from, to, keys, pre, matched, store, since>>

\* The contracts are counted once more.  The text of a short id does not
\* parse as a position.
ReadRange ==
    /\ qpc = "range"
    /\ from' = IF query.after \in Nat THEN query.after + 1 ELSE 0
    /\ to' = IF query.before \in Nat THEN query.before ELSE Cardinality(DOMAIN db)
    /\ IF ShortIdText \in {query.after, query.before} THEN Panics
       ELSE IF from' > to' THEN Fails("wrong order")
       ELSE qpc' = "keys" /\ UNCHANGED answer
    /\ UNCHANGED <<query, keys, pre, matched, store, since>>

KeysAhead == {s \in DOMAIN db : keys = <<>> \/ s > keys[Len(keys)]}

\* Mutant: the keys are read by their positions.
ReadKeyAt ==
    /\ qpc = "keys"
    /\ Len(keys) < Cardinality(DOMAIN db)
    /\ keys' = Append(keys, CHOOSE s \in DOMAIN db :
                              Cardinality({x \in DOMAIN db : x < s}) = Len(keys))
    /\ UNCHANGED <<qpc, query, from, to, pre, matched, answer, store, since>>

\* all_indexed_contract_ids: an iterator over the tree as it is now.
ReadKey ==
    /\ qpc = "keys"
    /\ KeysAhead # {}
    /\ keys' = Append(keys, CHOOSE s \in KeysAhead : \A x \in KeysAhead : s <= x)
    /\ UNCHANGED <<qpc, query, from, to, pre, matched, answer, store, since>>

\* The range is cut out of the keys and then once more out of the range.
CutRange ==
    /\ qpc = "keys"
    /\ KeysAhead = {}
    /\ IF to > Len(keys) \/ to > to - from
       THEN Panics /\ UNCHANGED keys
       ELSE /\ keys' = SubSeq(keys, from + 1, to)
            /\ qpc' = "prefilter"
            /\ UNCHANGED answer
    /\ UNCHANGED <<query, from, to, pre, matched, store, since>>

Text(f) == CHOOSE s \in f.hits : TRUE

\* A short id that has to be equal replaces the keys.
PreFilterShortId ==
    /\ qpc = "prefilter"
    /\ IF query.filter # None /\ IsEq(query.filter.shortId)
       THEN pre' = <<Text(query.filter.shortId)>> /\ keys' = pre'
       ELSE UNCHANGED <<pre, keys>>
    /\ qpc' = IF query.filter # None /\ IsEq(query.filter.id) THEN "long id" ELSE "lookup"
    /\ UNCHANGED <<query, from, to, matched, answer, store, since>>

KnownAs(f) == {s \in longs : History[s].id \in f.hits}

\* get_by_long_id_from_mem_cache holds the lookup while it waits for the cache.
FindLongId ==
    /\ qpc = "long id"
    /\ lookupLock = "free"
    /\ IF KnownAs(query.filter.id) = {}
       THEN qpc' = "lookup" /\ UNCHANGED lookupLock
       ELSE qpc' = "long id found" /\ lookupLock' = "reader"
    /\ UNCHANGED <<query, from, to, keys, pre, matched, answer,
                   db, cache, longs, cacheLock, worker, writes, since>>

\* A contract found joins the short id that is asked for, if any.
PreFilterId ==
    /\ qpc = "long id found"
    /\ cacheLock = "free"
    /\ LET found == KnownAs(query.filter.id) \cap DOMAIN cache
       IN  IF found = {} THEN UNCHANGED <<keys, pre>>
           ELSE pre' = Append(pre, CHOOSE s \in found : TRUE) /\ keys' = pre'
    /\ lookupLock' = "free"
    /\ qpc' = "lookup"
    /\ UNCHANGED <<query, from, to, matched, answer,
                   db, cache, longs, cacheLock, worker, writes, since>>

\* Contains and NotContains look for the text of the filter in itself.
SkipsShortId(f, s) ==
    /\ f # None
    /\ CASE f.op = "Eq" -> s \notin f.hits
         [] f.op = "Neq" -> s \in f.hits
         [] f.op = "Contains" -> FALSE
         [] f.op = "NotContains" -> TRUE

\* A key is looked up and the contract goes through the filters.
LookUp ==
    /\ qpc = "lookup"
    /\ keys # <<>>
    /\ cacheLock = "free"
    /\ LET s == Head(keys)
           skipped == query.filter # None /\ SkipsShortId(query.filter.shortId, s)
           passes == query.filter = None \/ Matches(query.filter, Version(s, cache[s]))
       IN  IF ~skipped /\ s \notin DOMAIN cache
           THEN Panics /\ UNCHANGED matched
           ELSE /\ matched' = IF ~skipped /\ passes
                              THEN Append(matched, [short |-> s, version |-> cache[s]])
                              ELSE matched
                /\ UNCHANGED <<qpc, answer>>
    /\ keys' = Tail(keys)
    /\ UNCHANGED <<query, from, to, pre, store, since>>

-----------------------------------------------------------------------------
(* The page.                                                               *)

Least(m, n) == IF m <= n THEN m ELSE n

\* The first or the last of the items; all of them if there are fewer.
FirstLast(items) ==
    IF query.first # None THEN SubSeq(items, 1, Least(query.first, Len(items)))
    ELSE IF query.last # None
    THEN SubSeq(items, 1 + Len(items) - Least(query.last, Len(items)), Len(items))
    ELSE items

\* Mutant: the last, partial page is left out.
TotalPagesRoundedDown(n, size) == n \div size

\* (n as f32 / size as f32).ceil(), which is exact for fewer than 2^24 items
TotalPages(n, size) == (n + size - 1) \div size

\* page_start and page_end, cut off at the end of the items.
PageStart(page, size, n) == Least((page - 1) * size, n)
PageEnd(page, size, n) == Least((page - 1) * size + size, n)

PageSize == IF query.pageSize = None THEN DefaultPageSize ELSE query.pageSize

InvalidFirstLast ==
    \/ query.first # None /\ query.first < 1
    \/ query.last # None /\ query.last < 1

\* The page asked for, or the last one.
CurrentPage == IF query.page # None THEN query.page
               ELSE TotalPages(Len(FirstLast(matched)), PageSize)

\* has_next_page compares with all the matching contracts if "first" is used,
\* and has_previous_page with the start of the range.
Page ==
    LET items == FirstLast(matched)
        start == PageStart(CurrentPage, PageSize, Len(items))
        end == PageEnd(CurrentPage, PageSize, Len(items))
    IN  [kind |-> "page",
         edges |-> SubSeq(items, start + 1, end),
         current |-> CurrentPage,
         pages |-> TotalPages(Len(items), PageSize),
         hasNext |-> end < Len(IF query.last # None THEN items ELSE matched),
         hasPrevious |-> IF query.first # None THEN from # 0 ELSE start > 0]

MakePage ==
    /\ qpc = "lookup"
    /\ keys = <<>>
    /\ IF matched = <<>> THEN Fails("no result")
       ELSE IF \/ InvalidFirstLast
               \/ CurrentPage \notin 1..TotalPages(Len(FirstLast(matched)), PageSize)
       THEN Fails("invalid pagination")
       ELSE answer' = Page /\ qpc' = "fields"
    /\ UNCHANGED <<query, from, to, keys, pre, matched, store, since>>

\* The fields of the contracts on the page.  describe unwraps the step of a
\* datum, and "last" the last of the transitions it selects.
FieldPanics(c) ==
    \/ /\ query.describe
       /\ ~LastOf(c).end /\ LastOf(c).datum # None /\ ~LastOf(c).datum.steps
    \/ TransitionsPanic(query.transitions, c)

ResolveFields ==
    /\ qpc = "fields"
    /\ IF \E k \in DOMAIN answer.edges :
              FieldPanics(Version(answer.edges[k].short, answer.edges[k].version))
       THEN Panics
       ELSE qpc' = "done" /\ UNCHANGED answer
    /\ UNCHANGED <<query, from, to, keys, pre, matched, store, since>>

-----------------------------------------------------------------------------

WorkerStep == InsertCache \/ InsertDb \/ BeginInitCache \/ InitCache

QueryStep ==
    \/ Start \/ ReadRange \/ ReadKey \/ CutRange
    \/ PreFilterShortId \/ FindLongId \/ PreFilterId \/ LookUp
    \/ MakePage \/ ResolveFields

Next == BeginInsert \/ RollbackDb \/ WorkerStep \/ QueryStep

\* The runtimes go on polling the query and the handler of an event.
Fairness == WF_vars(QueryStep) /\ WF_vars(WorkerStep)

Spec == Init /\ [][Next]_vars /\ Fairness

-----------------------------------------------------------------------------
(* Properties.                                                             *)

Pages == [kind : {"page"}, edges : Seq([short : Short, version : Nat]),
          current : Nat, pages : Nat, hasNext : BOOLEAN, hasPrevious : BOOLEAN]

Phases == {"start", "range", "keys", "prefilter", "long id", "long id found",
           "lookup", "fields", "done"}

TypeOK ==
    /\ qpc \in Phases
    /\ \A table \in {db, cache} : \A s \in DOMAIN table :
          s \in Short /\ table[s] \in 1..Len(History[s].transitions)
    /\ longs \subseteq Short
    /\ <<lookupLock, cacheLock>> \in {"free", "reader", "writer"} \X {"free", "writer"}
    /\ worker.pc \in {"idle", "insert", "cached", "rolled", "init"}
    /\ writes \in 0..MaxWrites
    /\ \A k \in DOMAIN matched : matched[k] \in [short : Short, version : Nat]
    /\ qpc = "fields" => answer \in Pages
    /\ qpc = "done" => \/ answer.kind \in {"panic", "empty"}
                       \/ answer.kind = "error" /\ answer.error # ""
                       \/ answer \in Pages
    /\ stable \subseteq stored \cap DOMAIN db /\ added \subseteq Short

\* Queries without the arguments and fields that panic by themselves: cursors
\* (query.rs 66, 73, 95), a short id nobody has (160), describe and the last
\* of the transitions (contract.rs 64, 252).
Plain ==
    /\ query.after = None /\ query.before = None
    /\ ~query.describe /\ query.transitions = None
    /\ query.filter # None => ~IsEq(query.filter.shortId)

\* The unwraps on the count, the keys and the cache, which are read one after
\* the other, fail only if a contract was rolled back under the query; no
\* insert, at whatever moment, makes them fail.
PanicsOnlyIfUndone == Plain /\ answer # None /\ answer.kind = "panic" => undone

\* The filter as it is documented, on the first v transitions.
Selected(s, v) ==
    query.filter = None \/ /\ StrCheckOpt(query.filter.shortId, s)
                           /\ Matches(query.filter, Version(s, v))

Versions(s) == 1..Len(History[s].transitions)
MatchedShorts == {matched[k].short : k \in DOMAIN matched}

\* All keys are searched, and the short id is compared as it should be.
SearchesAll ==
    /\ query.after = None /\ query.before = None
    /\ query.filter # None /\ query.filter.shortId # None =>
          query.filter.shortId.op \in {"Eq", "Neq"} /\ ~IsEq(query.filter.id)

\* A query beside inserts and roll backs finds the contracts that were stored
\* all the time and match in all their versions, less at most one for every
\* contract that is new (the range ends at a count taken before the keys are
\* read); it finds nothing that was never stored or never matches, and nothing
\* twice.
ResultComplete ==
    SearchesAll /\ qpc \in {"fields", "done"} /\ answer.kind \notin {"panic", "empty"}
            /\ (answer.kind = "error" => answer.error = "no result") =>
        LET expected == {s \in stable : \A v \in Versions(s) : Selected(s, v)}
        IN  /\ Cardinality(expected \ MatchedShorts) <= Cardinality(added)
            /\ \A s \in MatchedShorts : /\ s \in stored \cup added
                                        /\ \E v \in Versions(s) : Selected(s, v)
            /\ \A j, k \in DOMAIN matched : j < k => matched[j].short < matched[k].short

\* The pages of a result partition it: the i-th item is on this page exactly
\* if it falls into the page's share, the last page is not empty, and the
\* flags say whether there is a page before and after ("first" makes them mean
\* something else).
PageHoldsItsShare ==
    qpc \in {"fields", "done"} /\ answer.kind = "page" =>
        LET items == FirstLast(matched)
            PageOf(i) == ((i - 1) \div PageSize) + 1
        IN  /\ IsSelection(answer.edges, items,
                            {i \in DOMAIN items : PageOf(i) = answer.current})
            /\ answer.pages = PageOf(Len(items))
            /\ answer.edges # <<>>
            /\ query.first = None =>
                  /\ answer.hasNext = (answer.current < answer.pages)
                  /\ answer.hasPrevious = (answer.current > 1)

\* tests.rs:48 asks for the contracts after: "short_20", the short id that the
\* edges of an answer carry as their cursors, and tests.rs:57 asserts that the
\* answer is a page.
CursorsAreAccepted ==
    ShortIdText \in {query.after, query.before} /\ answer # None =>
        answer.kind # "panic"

\* Every query is answered, whatever locks the worker takes meanwhile.
QueryAnswered == <>(qpc = "done")
=============================================================================
