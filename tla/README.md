# A verification project for marlowe-indexer

marlowe-indexer follows a Cardano node, picks the Marlowe contracts out of the
blocks, keeps them in a sled database and in memory, and serves them over
GraphQL.  This directory holds TLA+ models of the code in `src/`, the
TLC configurations that check them on small instances, and proofs checked by
TLAPS.  `PROJECT.json` maps every definition to the lines it models and lists
the hazards, the runs, the mutants and the theorems.

    tlc -workers 2 -config ChainSync.cfg MCChainSync.tla
    tlapm MarloweIndexProofs.tla

## 1. The system

| Component | Source | State | Operations | Talks to |
|---|---|---|---|---|
| Chain sync | `src/core/lib.rs` | client, `intersect`, the atomics of `ChainSyncState` | `run`, `connect`, `next`, `handle_sync_response` | the node (pallas mini-protocols); calls `handle_event` of every worker |
| Configuration | `src/core/configuration.rs` | magic, address, `process_concurrently` | builder | read by chain sync |
| Marlowe worker | `src/modules/marlowe/worker.rs` | the tip, the sender of `evt_main_chan` | `handle_event`, `apply_transaction`, `apply` | reads and writes the store; sends `MarloweEvent`s |
| Marlowe store | `src/modules/marlowe/state.rs` | two sled trees; three maps under `RwLock`s (`contracts_mem_cache`, `contracts_long_to_short_lookup`, `out_ref_to_short_id_lookup`); the broadcast channel | `insert`, `apply_internal`, `rollback`, `init_mem_cache`, the setters and getters of the position | shared by worker, processor and queries |
| Event processor | `src/modules/marlowe/mod.rs` | an unbounded channel, one task | `process_messages` | receives from the worker, broadcasts to subscribers; converts slots with `slot_config_by_magic` |
| Subscriptions | `graphql/subscriptions.rs` | one broadcast receiver, or a polling loop, per client | `event`, `contract` | the broadcast channel, the cache |
| Queries | `graphql/query.rs`, `filters.rs`, `types.rs`, `resolvers/` | none | `contracts` and the fields `describe`, `transitions` | database keys, then the cache, one key at a time, under the worker's locks |
| Sync status | `src/modules/mod.rs` | per stream, the last ten changes of the distance to the tip | `stats`, `sync_status` | loads the atomics of `ChainSyncState` one by one |
| Process start | `src/main.rs` | none | choice of the intersect point, threads | creates everything, joins the worker thread |
| Address module | `src/modules/address/` | a sled tree | a second `ChainSyncReceiver` | behind the feature `WIP`, which nothing declares |
| REST API, other resolvers, args, logging, types | | none | projections, parsing, output | |

One OS thread runs chain sync and, inside the same future, the workers.  The
node is concurrent with it: it changes its chain between any two messages and
between the header of a block and its body.  The processor task, the streams
and the queries run on another runtime and share the store.  Nothing is
transactional except the contracts part of a roll back, so a stop of the
process may fall between any two writes.  What has to hold:

* chain sync: workers see one chain without gaps or repetitions whatever fails;
  a reconnection resumes where the workers are; its panic is unreachable; it
  reaches the tip;
* worker and store: the database describes the chain followed, across forks,
  restarts and half-applied blocks; a contract is a chain of outputs; references
  find exactly the unspent contract outputs; the cache agrees with the database;
* processor and subscriptions: nothing is lost or reordered; a stream never
  skips an event silently; publishing should not stop the indexer (on preview it
  does);
* queries: a query finds what is stored although it takes no snapshot; its pages
  partition the result; only a roll back under it can make it panic; it is
  answered whatever locks the worker takes;
* status: a report read between two stores is not absurd, and the reports
  settle on the last reply.

## 2. The modules

    Chain               block trees: Parent, Ancestors, Slot and their assumptions
    ChainFollower       what the workers are promised: one chain, block by block
    ChainSyncState      the cells of the status, and what each reply stores
    ChainIndex          what a database promises: facts of one chain
    Selection           what a filter keeps of a sequence
    ChainSync           connect / run / next / handle_sync_response, and the node
    MarloweIndex        handle_event, apply_transaction, the store, the start
    ContractStream      MarloweIndex and the subscription "contract"
    EventBus            worker -> processor -> broadcast -> subscription "event"
    Filters             the filters of a query, on one contract
    Query               the query "contracts" beside the worker
    SyncStatus          the cells of the status, "stats" and "syncStatus"
    *Proofs             the theorems about ChainSync, EventBus, Query, SyncStatus
                        and Selection; those about MarloweIndex are in
                        MarloweIndexProofs (one chain, types),
                        MarloweStoreProofs (ids and cache) and
                        MarloweHistoryProofs (histories, references, the
                        refinement, completeness), each on top of the other
    MC*                 the instances for TLC

`ChainFollower` sits between `ChainSync`, which implements it, and
`MarloweIndex`, which is driven by the events it allows.  `ChainIndex` is
implemented by `MarloweIndex`.  `ContractStream` composes the index with a
stream.  `EventBus` starts where `MarloweIndex` sends, `Query` has the worker's
writes at the grain of the store's locks.  `ChainSync` and `SyncStatus` share
`ChainSyncState`: the first has the stores among forks and failures, the second
beside the loads of the reports.

### Chain, ChainFollower, ChainIndex, Selection and ChainSyncState

A block hash commits to everything below it, so a block is its point and its
chain.  `Chain` states what a block tree is as assumptions TLC evaluates on
every instance and the proofs use.  `ChainFollower` is the abstract
specification of what the workers are fed, in two steps: an event is handed over
and then handled.  A block is handed over only if its parent is the last block
every worker has handled, so a block that is skipped, repeated or delivered as
its own ancestor is no step of it; a roll back leads to a block of the chain
handled so far.  `ChainSync` implements it (`WorkersFollowAChain`, where the
event is the one in the hands of `handle_event`), and `MarloweIndex` is driven by
the events it allows (`HandleBlock`, `HandleRollback`).

`ChainIndex` is the abstract specification of a database: at every moment it
holds facts (a transaction of a block created, moved or ended a contract) of
one chain; a fact is added if the others are below it and its contract has not
ended; facts are forgotten only by going back to a block.  `MarloweIndex`
implements it with the transitions of the database as the facts
(`ImplementsChainIndex`), stops and half-finished roll backs included.

`Selection` has `Keep`, what `Iterator::filter` and `Vec::retain` do.  It is a
recursive function on the length because the proof system cannot expand
`SelectSeq`; `IsSelection` says the same without recursion, and the streams of
`EventBus` are stated with it.

`ChainSyncState` has the four cells of the status that are read, and the sequence
of stores each arm of `handle_sync_response` does, which is different for the two
transports and for a roll back to a point and to the origin.

### ChainSync

`pc` is where `run` and `next` are: `connecting` is the first loop of `run`,
`retrying` the reconnection after an error, `waiting` the `await` of a
reply, `fetching` the `await` of `fetch_single` (a TCP peer sends headers
only), `storing` the stores of a reply into the cells, `dispatching` the call of
`handle_event`.  `conn` is `client.is_some()`, `intersect` the field of that name
(`None` is the origin), `cell` the atomics, and `stores` the stores still to be
done.  Each arm of `handle_sync_response` is an action, named after it, that
fills `stores`; `StoreOne` does one of them.  `followed[w]` is a history variable: the chain that the events
handled by worker `w` describe.

The node is external: a cursor per connection, agency (`proto`), one reply in
flight, a roll back pending after the cursor was placed or moved, and a tip
that changes to any other block at any time.  `select_all` lets only the worker
that is ready first finish an event, hence `Handlers`.

### MarloweIndex

One action per write or group of writes that nothing can separate:

| Action | Code |
|---|---|
| `Restart` | `main.rs` 115-138: cache from the database, intersect from the saved point |
| `FirstRollback`, `HandleRollback` | `MarloweState::rollback` up to `init_mem_cache` |
| `SaveRollbackSlot`, `SaveRollbackHash` | its last two writes, in that order |
| `HandleBlock` | `handle_event` for a block, until its first transaction |
| `ReadTransaction` | `apply_transaction` up to its first event: all inputs are looked up first |
| `Apply` | `apply_internal` for one event: cache, long id, database, references; then the send |
| `SaveHash`, `SaveSlot` | the writes after the last transaction, in that order |
| `Crash` | a stop: memory is lost, the two trees stay |

A filter, a retain or a collect over outputs or transitions is `Keep`.  A
transaction is a sequence of inputs and of output kinds.  An output is a
Marlowe output or not; if it is, its datum goes on, is `Close`, is known by its
hash only, or cannot be read.  This is all `apply_transaction` distinguishes.
The position of a redeemer is that of its input in the body.  A hashed datum
stands for an open contract, and the consuming transaction carries the datum, as
the ledger demands.  `MakeShortId` concatenates decimal digits as `format!`
does; base58 is injective and left out.

`ResumePoints` is what the node may answer to the saved point: that point if it
is on the node's chain, else the origin.  `ForksReturn` says whether the node may
come back to a chain that the worker was rolled back from before the process
stopped; see section 6.

### EventBus and ContractStream

`queue` is `evt_main_chan`, `Take` and `Process` are one turn of
`process_messages` (other threads subscribe and read in between), `sent` is the
log of the broadcast channel of which the last `Capacity` messages are kept.
`Process` ends in `Broadcast` or in the panic of `slot_config_by_magic`.
`ContractStream` adds the polling stream to `MarloweIndex`: `Poll` reads the
cache between any two steps of the worker.

### Filters and Query

`Filters` has one operator per filter of `filters.rs` and `query.rs`, on one
contract: `Matches` is the conjunction, `SelectedTransitions` what the field
`transitions` keeps.  A string filter is the set of the strings it hits, so
that "Eq", "Contains" and their negations differ as in `str_check`.

`Query` has a contract as a version, the number of its transitions so far.  The
worker's side is cut where a query can get in between: `BeginInsert` takes the
lock of the lookup, `InsertCache` the lock of the cache and writes both,
`InsertDb` writes the database, `RollbackDb` and `BeginInitCache`, `InitCache`
are a roll back.  The query's side follows `contracts_query_base`: `Start`
(arguments, first count), `ReadRange` (second count), `ReadKey` (one key from
the iterator), `CutRange`, `PreFilterShortId`, `FindLongId` and `PreFilterId`
(the two locks one after the other), `LookUp` (one key), `MakePage`,
`ResolveFields`.  An unwrap that fails is the answer `panic`.  `stored`,
`stable`, `added` and `undone` are history variables: what happened to the
store since the query came in.

### SyncStatus

`cell` and `stores` are those of `ChainSync`.  `LoadOne` loads a cell, `Report`
computes the report from what was loaded: the distance in slots, the ring of
changes, the time left and the percentage; the time of the slot is left out
(section 5).  Replies are the ones `ChainSync` can get: a child of
the last point, or an ancestor of it, with a tip above.

## 3. The runs

| Run | Instance | Shows |
|---|---|---|
| `ChainSync` | a tree with forks, every start point, both transports, one worker, 2 changes of the node's chain, 2 failures | `NoRollbackPanic`, `ResumePointIsHandled`, `PublishedOnOneChain`, `WorkersFollowAChain`, `CatchesUp` |
| `MarloweIndex` | every chain of up to 4 blocks over 8 block contents, 2 roll backs or reconnections, 1 stop | see below |
| `EventBus` | 4 networks, one of them without a clock, 3 kinds of events, 3 events, capacity 2, 2 subscribers with any of 2 filters | order, no gaps, delivery |
| `Query` | 4 contracts, 4 initial stores, 35 queries, 2 inserts or roll backs | see below |
| `SyncStatus` | 5 blocks, both transports, 2 replies | see below |
| `MarloweIndexRefs` | 3 blocks, 1 roll back | references of undone blocks are the ones kept |
| `MarloweIndexRestart` | 3 blocks, 1 stop | active contracts without reference |
| `MarloweIndexShifted` | a step to another output index | a reference to an output that is no contract |
| `MarloweIndexHalfSaved` | 3 blocks, 1 stop | a stop between the slot and the hash of the first roll back: a database the program refuses |
| `EventBusNetworks` | as `EventBus` | on preview the worker is taken down by an event |
| `ContractStream` | 3 blocks, one stream | a stream that outlives its contract |
| `QueryCursors` | as `Query`, nothing written | a query after a cursor panics |

The last seven each check one sentence of a comment, a doc, a test or an
assertion and find it violated; `findings` in `PROJECT.json` quotes the sentence.

The properties of `ChainSync`: `NoRollbackPanic`; `ResumePointIsHandled` (between
events a reconnection asks for exactly what the workers have handled);
`PublishedOnOneChain` (once a reply is stored the cells, which were stored one by
one and keep their values through failed fetches, forks and reconnections, have
the slot and the number of that point and a tip above it; in the middle of a
reply they are of two replies, and what a reader can make of that is the subject
of `SyncStatus`); `WorkersFollowAChain`, the refinement of `ChainFollower`; and
`CatchesUp`.

The properties of the passing run of `MarloweIndex`: `DbOnChain` (nothing of
an abandoned block stays), `CreationsIndexed` (every contract of the chain is
there), `ResumePointCovered` (in every state, whatever is saved as the resume
point is covered by what is saved as contracts), `CacheFollowsDb`,
`HistoryIsLinked`, `NeverOverwrites` (applying a block again after a stop, or a
block of another fork, never replaces a contract), `NoWorkerPanic`, and, as long
as there was neither stop nor roll back, `LookupComplete` and
`NoPhantomContract`.  Those two need that condition because of the findings on
the reference table: after a roll back or a restart references are missing and
steps of known contracts are indexed as new contracts.  `DbOnChain` and the
others hold nevertheless, which is what the run is for.  `ImplementsChainIndex`
is the refinement.

The properties of `Query`: `PanicsOnlyIfUndone` (the unwraps on counts, keys and
cache, read one after the other, fail only if a contract was rolled back under
the query), `ResultComplete` (of the contracts that were stored all the time
and match in all their versions, at most one per newly inserted contract is
missing; nothing is found twice, or was never stored, or never matches),
`PageHoldsItsShare` (the pages partition the result and the flags are right) and
`QueryAnswered` (no deadlock between the query's and the worker's locks).

The properties of `SyncStatus`: `WindowTelescopes` (the ring adds up to the
change of the distance, so the average is the true one), `NeverOverHundred` and
`NeverSyncedTooSoon` (what a report can show that was read in the middle of a
reply's stores, but with no store between its own loads) and `StatusSettles`.  A
report that a store did come between (`disturbed`) may combine two replies in
any way and is excluded from the two; `StatusSettles` says that such reports do
not last.

Every property of a passing run has a mutant: a definition changed as a bug
would change it, defined just before the original, under which TLC finds the
property violated.

### Bounds

* `MaxSwitches = 2`, `MaxFaults = 2`: a fork during a roll back in flight, and
  a failure during the recovery from a failure.  The proofs have no bound.
* `Depth = 4`: create, step, end and a transaction that spends the end's change
  need four blocks when each is in a block of its own; contents with two
  transactions put pairs of them in one block.
* `MaxRollbacks = 2`, `MaxCrashes = 1`: a fork back and forth, with a stop
  anywhere, also within a roll back.
* `Query`: `MinPageSize = 2`, `MaxPageSize = 5`, `DefaultPageSize = 2` stand for
  5, 100000 and 50, so that four contracts make two full pages, three a partial
  one, and there are sizes out of the range on the lower side.  Every field of
  every filter is used by some query.  `MaxWrites = 2`: an insert and a roll
  back, in both orders, anywhere in a query.  The proofs have no bound.
* `SyncStatus`: `Window = 2` for 10, so that the ring wraps within the loads of
  two replies; `WordSize = 256` for 2^64, which only bounds the percentage of a
  tip of zero.  `MaxReplies = 2`: one reply stored over another.  A connection
  begins with a roll back, so rolling back a block that was itself stored takes
  a third reply; that is left to the theorems.
* `Capacity = 2` with three events: a stream can be exactly at, and one behind,
  the limit.  The code has 1000.
* `CHECK_DEADLOCK FALSE` everywhere: when the bounds are used up, the node's
  chain is read, or the process refuses to start, nothing is left to do.

### Fairness

`ChainSync`: weak fairness of the client's own steps (`run` never returns, the
runtime polls it) and of the node's answers to what it owes.  None for failures
and forks, which only have to stop eventually, by their bounds.  `EventBus`:
weak fairness of the processor's two steps and of every open stream, whose
client goes on reading; none for the worker and for subscribing.
`ContractStream`: weak fairness of the poll and of finishing what the worker has
begun; none for new blocks.  `Query`: weak fairness of the query's next step and
of the worker's, which both runtimes go on polling; none for a new insert or
roll back.  `SyncStatus`: weak fairness of the stores of a reply that has come
and of the reader; none for replies.  `MarloweIndex` has safety properties
only.

## 4. The proofs

`ChainSyncProofs` proves, for every block tree, any number of forks and
failures, both transports and every start point, that `Spec` implies `TypeOK`,
`NoRollbackPanic`, `ResumePointIsHandled`, `PublishedOnOneChain` and
`WorkersFollowAChain`.  Assumed are the named assumptions of `Chain` and
`ChainSync`, and `NoneCancelled`: events are handled by the workers one after
the other, or there is one worker.  Without it the theorem is false: with a
second worker `select_all` would drop the future of the slower one, which then
misses the block (`Handlers`); `main.rs` always asks for concurrent processing
and has one worker.

None of the properties is inductive.  That the panic is unreachable, for
instance, needs to know where the node's cursor can be.  `IInv` adds

* `Control`: which of client, event and reply exist at each `pc`;
* `EventFits`, `IntersectFits`: the event being handled leads from what the
  workers hold to the intersect;
* `ReplyFits`: a forward in flight is a child of the intersect, and a roll back
  in flight is to an ancestor of it;
* `CursorFits`: unless a roll back is pending, the node's cursor is where the
  client will be after the reply in flight; if one is pending, it is at an
  ancestor of that;
* `StoresFit`: while a reply is stored there is one tip for which every store left
  writes the value the cell will have in the end (`Final`), and every cell has
  that value or is still to get it.

TLC checked `IInv` as an invariant before it was proved.  There is one lemma per
action; the ones that need the shape of the tree (`Connect`, `SwitchTip`, the
node's steps) rest on `AncestorFacts`.  For the stores, every sequence of
`ChainSyncState` writes final values only and names all four cells
(`ForwardStoresFinal`, `RollBackStoresFinal`), so when none is left every cell is
final.  The refinement is proved from `IInv`: the last store of a reply hands its
event over (`StoreOneHands`), `Dispatch` handles it (`DispatchHandles`), and all
other steps stutter.

### MarloweIndex

Every property of the passing run is proved for every block tree, with any number
of roll backs and stops, and for every ledger that fulfils the hypothesis of the
theorem:

| Hypothesis | Theorems | What it says |
|---|---|---|
| none | `NothingOfOtherForks` (`DbOnChain`), `TypeCorrect` (`TypeOK`) | the named assumptions of `Chain` and `MarloweIndex` only |
| `PositionRules` | `CacheFollows` (`CacheFollowsDb`), `NewIsNew` (`NeverOverwrites`) | a chain has a transaction once (the ledger); the digits of the positions of two contracts on a chain, one after the other, differ |
| `LedgerRules` | `HistoriesLinked` (`HistoryIsLinked`), `WorkerDoesNotPanic` (`NoWorkerPanic`), `ReferencesAreOutputs` (`RefsAreContractOutputs`), `IndexesOneChain` (`ImplementsChainIndex`) | besides, inputs are outputs of earlier transactions, each once (the ledger), and a moved contract has a redeemer and goes on in at most one output with a datum, at the index it had (what `apply_transaction` takes for granted) |
| `LedgerRules`, `ForksReturn = FALSE` | `NothingMissed` (`CreationsIndexed`), `ResumingMissesNothing` (`ResumePointCovered`) | besides, the node does not return to a chain the worker was rolled back from before a stop; without it both are false (section 6) |
| `CalmRules` | `UnspentAreFound` (`LookupComplete`), `NoPhantoms` (`NoPhantomContract`) | `LedgerRules` (so the output index is kept), and a contract is moved once (the ledger), and the default start, one of the points in `main.rs` 122-134, is before the first contract |

These rules are not the program's, which cannot check them: they are stated in
`MarloweIndex`, and `MCRulesAssumption` checks that the instances of the runs
fulfil them, so no theorem is about nothing.  Two of them are known to be more
than the chain guarantees.  Short ids are concatenations, so they may collide
in large blocks; and nothing forces a contract to keep its output index:
`MarloweIndexShifted` violates `RefsAreContractOutputs`, which the theorem proves
from the rule, so that rule alone is what the violation comes from.

**One chain (`IInv`).**  `DbOnChain` is about a worker that is idle, and is not
inductive: a stop may leave the contracts truncated and the hash not saved, and
the node may then resume from that hash, above what is stored.  `IInv` therefore
says that in every state there is one block whose chain holds everything stored,
the saved hash and the chain followed (`OneChain`); that the database is within
the chain followed once the first roll back of a connection is done (`DbFits`);
that the events not yet applied are of it (`TodoFits`); and that nothing is
stored before the first slot is saved (`NothingUnsaved`), which is why no roll
back is needed when the database is new.  The step that matters is a roll back:
two ancestors of one block are comparable (`Comparable`), and of two of them the
one whose slot is not later is below (`NotLater`), so truncating by slot is
truncating by block (`TruncateFacts`).  `StrictSlotAssumption` is what this rests
on.

**Ids and cache (`StoreInv`).**  A contract, stored or planned, has the ids of the
output it began with (`Born`) and its transitions in the order of slots; the
contracts to be added are not stored yet (`AddsAreNew`), nor is anything of the
transactions still to be read, although the block may have been half applied
before a stop (`RestIsNew`); planned steps go on from what the cache has
(`StepsFollowCache`).  Two versions on one chain have the same short id exactly if
they have the same long one (`IdsTogether`).

**Histories and references (`HistoryInv`).**  The invariant has to say what
references are worth while a roll back keeps the wrong ones.  It turns out that
a reference may lead nowhere, but only as long as its transaction is not on the
chain followed (`HandledLead`); when that transaction is applied, one of its
events puts the reference right (`CurrentLead`).  As inputs come from earlier
transactions of the chain, every reference that is looked up leads to the version
it is the last of, so no unwrap fails.  `Planned` relates the events still to be
applied to the versions in the database: each is a step of its own contract, so
applying one does not disturb the others.

**The refinement.**  The facts of the database after a step are those before and
one more (`NewFact`, `SteppedFact`), those up to a block (`RolledFacts`), or the
same; the new fact is on the chain of the others and of a contract that has not
ended (`Recorded`).  Every other action stutters.

**Completeness (`CoverInv`).**  What a transaction that has been read creates is
stored or among the events still to be applied; the saved hash is of the chain
followed from the first write of the position on.

**Lookup (`CalmInv`).**  Until something is rolled back or stops, the outputs left
by the transactions read so far are the references not about to be moved, and
the outputs the planned events lead to (`FoundNext`); what the current
transaction moves and is still found has an event that steps it (`MovesLeft`).
Between blocks this is the equality with `Unspent`.

### EventBus

`EventBusProofs` proves, for any events, filters, capacity and finitely many
subscribers, that what is broadcast is the selection of the processable events
(`EventsInOrder`), and that a stream has given its client the selection of what
was broadcast since the subscription (`StreamsWithoutGaps`).  That publishing
cannot stop the indexer is not true of the networks the program offers
(`EventBusNetworks`), so it is no theorem.  `SelectionProofs` has the lemmas: a selection
grows by the next element if it is selected and by nothing otherwise, it does
not look beyond its positions, and what `Keep` returns is one (`KeepSelects`).

### Query

`QueryProofs` proves all four safety properties for any stores, contracts,
filters, paging and number of writes, in two invariants.

**No panic (`IInv`).**  Every stored contract is cached unless one was undone
(`Cached`); the keys read are stored and so found in the cache (`KeysFit`); and
the contracts counted are read, or are still ahead of the iterator
(`RangeFits`), so the range does not end behind the keys.  The last needs a set
of contracts as a witness and a lemma on its size (`NoMoreThanEntries`).  This
is `PanicsOnlyIfUndone`.

**The result (`RInv`).**  A query takes no snapshot: it counts, then iterates,
then looks up, with inserts and roll backs between any two reads.  What makes
`ResultComplete` true nevertheless is counting.  The end of the range is the
size of some set `C` of contracts, and every contract that is read and is not
in `C` is new (`CountFits`); what was stored all the time is read or still ahead
of the iterator.  So if `n` keys are cut off at the end of the range, at least `n`
of the keys read are new.  `FewAreLost` keeps that fact once the count is
forgotten: there is a set `M` of contracts, no larger than the set of the new
ones, such that every contract the query should find is found, still to be
looked up, or in `M`.  `StoreVersions` and `SinceFits` tie the store to what was
stored when the query came in and what has been since; `InOrder` and `FoundFits`
say that results have the order of their keys and matched when they were looked
up.

**The page (`AnswerFits`, `PageArithmetic`).**  `PageHoldsItsShare` is arithmetic of
quotients on top of the invariant that an answer is the page of the result the
query has found.  The code divides two `f32`s and rounds up; the model divides
integers, which is the same below 2^24 items.

The assumptions are named in `Query`: short ids are positive numbers, a contract
has its long id alone (`LongIdAssumption`), and the text of an `Eq` filter is one
string (`EqAssumption`).

### SyncStatus

`SyncStatusProofs` proves `TypeOK`, `NeverOverHundred`, `NeverSyncedTooSoon` and
`WindowTelescopes` for every block tree, start and length of the window, and any
number of replies.  `NeverOverHundred` and
`NeverSyncedTooSoon` need to know what each cell holds in the middle of a reply:
`StoresFit` says that what is left to store over TCP is the rest of the stores of
the last reply, `SlotsFit` and `NumbersFit` which cells hold that reply and which
still the one before, and `SeenFits` that a report no store came between saw the
cells.  The order of the stores matters in every case: the mutants swap it.

`WindowTelescopes` is about the stream alone.  Its invariant, `StreamFits`, unrolls
the ring: the change at the i-th place is that between the distances of `Age(i)`
and `Age(i) + 1` reports after the oldest, so the one a report overwrites is the
first of them, and the sum moves on by one distance.  The sum is a recursive
function; that it changes as its entry does (`SumUpdate`) follows from its
partial sums (`PartialSums`), by the least number at which two of them differ
(`UpTo`).  That the index comes round is arithmetic of remainders (`Remainder`).

### Only model-checked

* liveness: `CatchesUp`, `EverythingDelivered`, `QueryAnswered`,
  `StatusSettles`, and the violated `SubscriptionEnds` (temporal, out of the
  prover's reach);
* of `MarloweIndex`: what the four runs find violated. `RefsAreContractOutputs`
  alone is also proved, under the rule that its run breaks;
* `ContractStream`.

## 5. What is not modelled

* the content of contracts: inputs, continuations, metadata, amounts; the
  decoding of blocks, datums and redeemers is taken to succeed except where an
  output is of the kind `bad`;
* `get_marlowe_scan`, an HTTP request in the middle of a transaction whose
  result is only stored;
* `known_chain_tip`, which is written and never read;
* sled's delayed flush: a power failure may lose the last writes of a tree,
  and the two trees independently;
* readers of the status in `ChainSync`, and disconnections in `SyncStatus`: the
  stores are one by one in both; `tip_block_hash`, which nobody reads;
* a check of `worker.rs` 123 that never fires: it compares a `tx_id` with
  `hash#index`, which no `tx_id` is;
* the locks of the store are in `Query` only; the lock of the references is the
  worker's alone in the code and is left out;
* of queries: counts and texts that only go into the answer or the log, the four
  filters marked as not implemented, and the fields of a contract that are
  projections; `contract_debug` is built with the feature `debug` only, and
  nothing uses `handler.rs`;
* of the status: the number of contracts, the format of durations, and the time
  of the slot.  `slot_to_posix_time_with_specific_magic` extends the slots of the
  Shelley era backwards: on mainnet, where the slots before it last twenty
  seconds, the time shown for one of these is wrong, and so is the one shown
  before the first reply, for slot 0;
* the address module, behind the feature `WIP` which `Cargo.toml` does not
  declare and with its state commented out; the REST API, whose routes are
  commented out; the command line and logging.

## 6. Limits of what holds

* `ResumePointCovered` and `CreationsIndexed` are checked and proved with
  `ForksReturn = FALSE`.  If the process stops after a roll back has
  truncated the contracts and before it has saved the slot and the hash, and
  the node then returns to the abandoned chain, the old point is found, and the
  truncated transitions are never indexed again.
* `NoWorkerPanic` and `HistoryIsLinked` are checked and proved for contracts that
  keep their output index; `MarloweIndexShifted` shows what precedes a panic when
  they do not.
* `NeverOverwrites` is checked for blocks of up to two transactions, and proved
  for chains whose short ids do not collide.  They are concatenations without separators, so in larger blocks two outputs may
  get the same one: transaction 1, output 11 and transaction 11, output 1.
* A step of a contract whose output has only a datum hash is announced as
  `Close` (`worker.rs` 397); the reference is kept, so the index recovers.

Queries and status:

* `Contains` and `NotContains` on a short id compare the filter's text with
  itself (`query.rs` 151-152): everything or nothing is found.  A short id that
  nobody has panics; a short id and a long id that both have to be equal return
  the contract twice if they are of one contract, where `tests.rs` 193 expects
  one.  `ResultComplete` leaves these out (`SearchesAll`).
* A position as a cursor panics too unless the range starts at the beginning,
  because the range is cut twice (`query.rs` 95).
* An insert between the count and the keys takes a contract off the end of the
  range: the "at most one per new contract" of `ResultComplete`.
* With `first`, `hasPrevious` means that the range does not start at the
  beginning and `hasNext` counts all that match.  The page shown by default is
  the last one in the order of keys, which is not that of time.
* The number of pages is computed with `f32`, exact below 2^24 contracts.
* A filter on the number of accounts is only fulfilled if some account holds
  something.
* Over a socket a reply stores the block before the tip, and a roll back to the
  origin over TCP the tip before the point: a report in the middle of it may then
  exceed 100 % or claim to be synced.  `Orderly` excludes these, and the mutants
  show them.  So may any report with a store between its loads (`disturbed`).
* Before the first reply the report says "Fully synced!", the first estimates
  include the initial distance as a change, and the estimate is withheld
  whenever the last element of the ring is 0.
* With overflow checks, as in a debug build, the time of a slot before the first
  of the Shelley era panics: `stats` fails on mainnet before the first reply.
* `stats` converts slots with the same table as the processor, so that on
  preview it hits `unimplemented!`.
* A roll back behind the point the process started from is possible, contrary to
  what the comment at `lib.rs` 391 expects; `ChainSync` and `MarloweIndex`
  both have it.

## 7. What is left

1. `ChainSync` and `MarloweIndex` in one module, through `followed`, with
   `CatchesUp` stated for what is indexed.  At present they meet in the
   abstract `ChainFollower`.
2. What the passing runs check is proved but for the liveness properties.  The
   safety half of `QueryAnswered`, that the locks are taken in one order so that
   query and worker never wait for each other, could be stated and proved on
   its own.
