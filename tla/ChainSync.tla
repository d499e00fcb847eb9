----------------------------- MODULE ChainSync -----------------------------
(***************************************************************************)
(* CardanoChainSync (src/core/lib.rs): the task that connects to a node,   *)
(* asks it for the next change of its chain, stores the progress into the  *)
(* cells of ChainSyncState, one by one, and hands the event to the         *)
(* workers, reconnecting at its intersect point whenever something fails.  *)
(*                                                                         *)
(* The node is external.  It follows the Ouroboros chain-sync protocol: it *)
(* keeps a read cursor per connection, owes one reply per request, answers *)
(* Await when the cursor is at its tip, and first announces a roll back    *)
(* whenever the cursor had to be moved off the chain already sent.         *)
(***************************************************************************)
EXTENDS ChainSyncState

CONSTANTS
    Workers,        \* the ChainSyncReceivers of CardanoChainSync.workers
    Concurrent,     \* Configuration.process_concurrently
    MaxSwitches,    \* bound on changes of the node's chain
    MaxFaults       \* bound on failed connections, requests and fetches

ASSUME WorkersAssumption == Workers # {} /\ Concurrent \in BOOLEAN

\* chainsync::NextResponse, with the tip it carries.
Reply == [kind : {"Forward", "Backward"}, point : Block, tip : Block]
         \cup [kind : {"Await"}]

\* ChainSyncEvent.
Event == [kind : {"Block", "Rollback"}, point : Block] \cup [kind : {"Noop"}]

ASSUME NoneAssumption == None \notin Block \cup Nat \cup Reply \cup Event

ASSUME BoundsAssumption == MaxSwitches \in Nat /\ MaxFaults \in Nat

VARIABLES
    \* the client
    pc,             \* where run() and next() are
    transport,      \* Client::TcpClient ("N2N") or Client::SocketClient ("N2C")
    conn,           \* client.is_some()
    intersect,      \* CardanoChainSync.intersect
    cell,           \* the cells of ChainSyncState, by name
    stores,         \* the stores of the reply still to be done
    event,          \* the ChainSyncEvent made of the reply
    followed,       \* per worker, the chain its handled events describe
    start,          \* stored_original_intersect
    \* the connection and the node
    proto,          \* the client's chain-sync state: who has agency
    reply,          \* the node's reply in flight
    tip,            \* the node's selected chain
    cursor,         \* the node's read pointer for this client
    rollPending,    \* the cursor was moved and the client has not been told
    switches, faults

clientVars == <<pc, conn, intersect, cell, stores, event, followed>>
vars == <<pc, transport, conn, intersect, cell, stores, event, followed, start,
          proto, reply, tip, cursor, rollPending, switches, faults>>

\* Option<Point>: None stands for the origin, which is not a Point::Specific.
AsPoint(b) == IF b = Origin THEN None ELSE b

TypeOK ==
    /\ pc \in {"connecting", "running", "waiting", "fetching", "storing",
               "dispatching", "retrying", "panicked"}
    /\ transport \in {"N2N", "N2C"}
    /\ conn \in BOOLEAN
    /\ intersect \in Block \cup {None}
    /\ cell \in [Cells -> Nat \cup {None}]
    /\ stores \in Seq(Cells \X (Nat \cup {None}))
    /\ event \in Event \cup {None}
    /\ followed \in [Workers -> Block]
    /\ start \in Block
    /\ proto \in {"Idle", "CanAwait", "MustReply"}
    /\ reply \in Reply \cup {None}
    /\ tip \in Block
    /\ cursor \in Block
    /\ rollPending \in BOOLEAN
    /\ switches \in 0..MaxSwitches
    /\ faults \in 0..MaxFaults

-----------------------------------------------------------------------------
(* ChainSyncState::new and CardanoChainSync::new: a process starts at the  *)
(* point its workers last saved, or at the default point of the network.   *)

Init ==
    /\ pc = "connecting"
    /\ transport \in {"N2N", "N2C"}
    /\ conn = FALSE
    /\ start \in Block
    /\ intersect = AsPoint(start)
    /\ cell = [c \in Cells |-> None]
    /\ stores = <<>>
    /\ event = None
    /\ followed = [w \in Workers |-> start]
    /\ proto = "Idle"
    /\ reply = None
    /\ tip \in Block
    /\ cursor = Origin
    /\ rollPending = FALSE
    /\ switches = 0
    /\ faults = 0

-----------------------------------------------------------------------------
(* The connection.                                                         *)

\* connect: the node's cursor is put on the intersect point if the node's
\* chain has it; a point that is not found is only logged, and the cursor
\* stays where a new connection has it, at the origin.  (No client is there
\* when connect is called, so that its early return is never taken.)
Connect ==
    /\ pc \in {"connecting", "retrying"}
    /\ conn' = TRUE
    /\ cursor' = IF intersect # None /\ intersect \in Ancestors[tip]
                 THEN intersect ELSE Origin
    /\ rollPending' = TRUE
    /\ proto' = "Idle"
    /\ reply' = None
    /\ pc' = "running"
    /\ UNCHANGED <<transport, intersect, cell, stores, event, followed, start,
                   tip, switches, faults>>

\* connect returns an error: the first loop of run tries again, the second
\* goes on to next without a client.
ConnectFails ==
    /\ pc \in {"connecting", "retrying"}
    /\ faults < MaxFaults
    /\ faults' = faults + 1
    /\ pc' = IF pc = "connecting" THEN "connecting" ELSE "running"
    /\ UNCHANGED <<transport, conn, intersect, cell, stores, event, followed,
                   start, proto, reply, tip, cursor, rollPending, switches>>

\* next returns an error: run drops the client and will connect again.
DropClient ==
    /\ pc' = "retrying"
    /\ conn' = FALSE
    /\ reply' = None

\* Mutant: an error of next does not lead back to connect.
NextNotConnectedIgnored ==
    /\ pc = "running"
    /\ ~conn
    /\ UNCHANGED vars

\* next: "Not connected."
NextNotConnected ==
    /\ pc = "running"
    /\ ~conn
    /\ DropClient
    /\ UNCHANGED <<transport, intersect, cell, stores, event, followed, start,
                   proto, tip, cursor, rollPending, switches, faults>>

\* request_next or recv_while_must_reply returns an error.
RequestFails ==
    /\ pc = "waiting"
    /\ faults < MaxFaults
    /\ faults' = faults + 1
    /\ DropClient
    /\ UNCHANGED <<transport, intersect, cell, stores, event, followed, start,
                   proto, tip, cursor, rollPending, switches>>

-----------------------------------------------------------------------------
(* next and handle_sync_response.                                          *)

\* next: with agency the client sends a request, otherwise it owes none and
\* only waits for the reply the node still owes.
Request ==
    /\ pc = "running"
    /\ conn
    /\ proto' = IF proto = "Idle" THEN "CanAwait" ELSE proto
    /\ pc' = "waiting"
    /\ UNCHANGED <<transport, conn, intersect, cell, stores, event, followed,
                   start, reply, tip, cursor, rollPending, switches, faults>>

\* NextResponse::Await: the node now must reply without another request.
HandleAwait ==
    /\ pc = "waiting"
    /\ reply # None
    /\ reply.kind = "Await"
    /\ proto' = "MustReply"
    /\ reply' = None
    /\ event' = [kind |-> "Noop"]
    /\ pc' = "dispatching"
    /\ UNCHANGED <<transport, conn, intersect, cell, stores, followed, start,
                   tip, cursor, rollPending, switches, faults>>

\* The block is at hand: it is the next intersect, and its slot and number
\* and the tip are to be stored.
TakeBlock ==
    /\ intersect' = reply.point
    /\ stores' = ForwardStores(transport, reply.point, reply.tip)
    /\ event' = [kind |-> "Block", point |-> reply.point]
    /\ reply' = None
    /\ pc' = "storing"
    /\ UNCHANGED cell

\* NextResponse::RollForward from a socket, which carries the block.
HandleForwardN2C ==
    /\ pc = "waiting"
    /\ transport = "N2C"
    /\ reply # None
    /\ reply.kind = "Forward"
    /\ proto' = "Idle"
    /\ TakeBlock
    /\ UNCHANGED <<transport, conn, followed, start, tip, cursor, rollPending,
                   switches, faults>>

\* Mutant: the intersect is saved before the block is fetched.
HandleForwardN2NEagerly ==
    /\ pc = "waiting"
    /\ transport = "N2N"
    /\ reply # None
    /\ reply.kind = "Forward"
    /\ proto' = "Idle"
    /\ pc' = "fetching"
    /\ intersect' = reply.point
    /\ UNCHANGED <<transport, conn, cell, stores, event, followed, start, reply,
                   tip, cursor, rollPending, switches, faults>>

\* NextResponse::RollForward from a peer carries a header: the block is asked
\* for with fetch_single, and the node's chain may move meanwhile.
HandleForwardN2N ==
    /\ pc = "waiting"
    /\ transport = "N2N"
    /\ reply # None
    /\ reply.kind = "Forward"
    /\ proto' = "Idle"
    /\ pc' = "fetching"
    /\ UNCHANGED <<transport, conn, intersect, cell, stores, event, followed,
                   start, reply, tip, cursor, rollPending, switches, faults>>

BlockFetched ==
    /\ pc = "fetching"
    /\ TakeBlock
    /\ UNCHANGED <<transport, conn, followed, start, proto, tip, cursor,
                   rollPending, switches, faults>>

\* Mutant: a failed fetch is swallowed and the next block is asked for.
FetchFailsSkips ==
    /\ pc = "fetching"
    /\ faults < MaxFaults
    /\ faults' = faults + 1
    /\ pc' = "running"
    /\ reply' = None
    /\ UNCHANGED <<transport, conn, intersect, cell, stores, event, followed,
                   start, proto, tip, cursor, rollPending, switches>>

\* "no block!!": the intersect still is the last block handed to the workers.
FetchFails ==
    /\ pc = "fetching"
    /\ faults < MaxFaults
    /\ faults' = faults + 1
    /\ DropClient
    /\ UNCHANGED <<transport, intersect, cell, stores, event, followed, start,
                   proto, tip, cursor, rollPending, switches>>

\* Mutant: the comparison also refuses the intersect itself.
AtOrAboveIntersect(p) ==
    p # Origin /\ intersect # None /\ Slot[intersect] <= Slot[p]

\* NextResponse::RollBackward: to a point above the intersect it panics.
AboveIntersect(p) == p # Origin /\ intersect # None /\ Slot[intersect] < Slot[p]

HandleRollBack ==
    /\ pc = "waiting"
    /\ reply # None
    /\ reply.kind = "Backward"
    /\ proto' = "Idle"
    /\ reply' = None
    /\ IF AboveIntersect(reply.point)
       THEN /\ pc' = "panicked"
            /\ UNCHANGED <<intersect, stores, event>>
       ELSE /\ pc' = "storing"
            /\ intersect' = AsPoint(reply.point)
            /\ stores' = RollBackStores(transport, reply.point, reply.tip)
            /\ event' = [kind |-> "Rollback", point |-> reply.point]
    /\ UNCHANGED <<transport, conn, cell, followed, start, tip, cursor,
                   rollPending, switches, faults>>

\* One cell of ChainSyncState is stored; after the last one the event is
\* returned to next.
StoreOne ==
    /\ pc = "storing"
    /\ cell' = [cell EXCEPT ![Head(stores)[1]] = Head(stores)[2]]
    /\ stores' = Tail(stores)
    /\ pc' = IF Tail(stores) = <<>> THEN "dispatching" ELSE "storing"
    /\ UNCHANGED <<transport, conn, intersect, event, followed, start, proto,
                   reply, tip, cursor, rollPending, switches, faults>>

\* The workers that have handled the event when next returns: with
\* select_all the first one to finish cancels the others.
Handlers == IF Concurrent THEN {{w} : w \in Workers} ELSE {Workers}

Dispatch ==
    /\ pc = "dispatching"
    /\ \E done \in Handlers :
          followed' = [w \in Workers |->
                         IF w \in done /\ event.kind # "Noop" THEN event.point
                                                              ELSE followed[w]]
    /\ event' = None
    /\ pc' = "running"
    /\ UNCHANGED <<transport, conn, intersect, cell, stores, start, proto,
                   reply, tip, cursor, rollPending, switches, faults>>

-----------------------------------------------------------------------------
(* The node (external).                                                    *)

\* A reply is owed and none is in flight.
Owed == conn /\ proto # "Idle" /\ reply = None

NodeRollsBack ==
    /\ Owed
    /\ rollPending
    /\ reply' = [kind |-> "Backward", point |-> cursor, tip |-> tip]
    /\ rollPending' = FALSE
    /\ UNCHANGED <<clientVars, transport, start, proto, tip, cursor, switches,
                   faults>>

NodeRollsForward ==
    /\ Owed
    /\ ~rollPending
    /\ \E b \in Ancestors[tip] \ {Origin} :
          /\ Parent[b] = cursor
          /\ reply' = [kind |-> "Forward", point |-> b, tip |-> tip]
          /\ cursor' = b
    /\ UNCHANGED <<clientVars, transport, start, proto, tip, rollPending,
                   switches, faults>>

NodeAwaits ==
    /\ Owed
    /\ proto = "CanAwait"
    /\ ~rollPending
    /\ cursor = tip
    /\ reply' = [kind |-> "Await"]
    /\ UNCHANGED <<clientVars, transport, start, proto, tip, cursor,
                   rollPending, switches, faults>>

\* The node selects another chain (a longer one, another fork, or another
\* node answers the address); a cursor that is not on it is moved back.
SwitchTip ==
    /\ switches < MaxSwitches
    /\ switches' = switches + 1
    /\ \E new \in Block \ {tip} :
          /\ tip' = new
          /\ \E c \in Block :
                /\ IsForkPoint(c, cursor, new)
                /\ cursor' = c
                /\ rollPending' = (rollPending \/ c # cursor)
    /\ UNCHANGED <<clientVars, transport, start, proto, reply, faults>>

-----------------------------------------------------------------------------

NodeStep == NodeRollsBack \/ NodeRollsForward \/ NodeAwaits

HandleReply == HandleAwait \/ HandleForwardN2C \/ HandleForwardN2N
               \/ HandleRollBack

ClientStep == Connect \/ NextNotConnected \/ Request \/ HandleReply
              \/ BlockFetched \/ StoreOne \/ Dispatch

Fault == ConnectFails \/ RequestFails \/ FetchFails

Next == ClientStep \/ NodeStep \/ Fault \/ SwitchTip

\* run never stops and a node answers what it owes; failures and forks have
\* no fairness.
Fairness == WF_vars(ClientStep) /\ WF_vars(NodeStep)

Spec == Init /\ [][Next]_vars /\ Fairness

-----------------------------------------------------------------------------
(* Properties.                                                             *)

\* "old intersect is lower than rollback" is never reached: however requests,
\* reconnections and forks interleave, the node never takes the client to a
\* slot above its intersect (handle_sync_response).
NoRollbackPanic == pc # "panicked"

\* Whenever no event is made or in the workers' hands, the point the next
\* connection will ask for is the last block every worker has handled: a
\* reconnection neither skips a block nor repeats one that was not rolled back.
ResumePointIsHandled ==
    pc \notin {"storing", "dispatching"} =>
        \A w \in Workers : intersect = AsPoint(followed[w])

\* Except while a reply is being stored, the sync status never mixes two
\* chains, nor two places of one: its slot and number are those of the point a
\* reconnection asks for, and its tip is on a chain through that point, however
\* forks, failed fetches and reconnections interleave.  A roll back has no
\* number, and one to the origin over TCP has no slot either.
PublishedOnOneChain ==
    pc # "storing" /\ (\E c \in Cells : cell[c] # None) =>
        LET b == IF intersect = None THEN Origin ELSE intersect
        IN  /\ \E t \in Block : /\ b \in Ancestors[t]
                               /\ cell["tipNumber"] = Number(t)
                               /\ cell["tipSlot"] = Slot[t]
            /\ \/ cell["slot"] = Slot[b]
               \/ cell["slot"] = None /\ b = Origin /\ transport = "N2N"
            /\ cell["number"] \in {Number(b), None}

\* The event in the workers' hands, if it moves them.
Handed == IF pc = "dispatching" /\ event.kind # "Noop" THEN event ELSE None

\* The workers are fed one chain, block by block, none skipped, repeated or out
\* of order, with roll backs only to blocks they have handled, through forks,
\* failed fetches and reconnections.
CF == INSTANCE ChainFollower WITH event <- Handed
WorkersFollowAChain == CF!Spec

\* Once the node's chain and the connection are stable, every worker ends up
\* at the node's tip and stays there.
CatchesUp == <>[](\A w \in Workers : followed[w] = tip)
=============================================================================
