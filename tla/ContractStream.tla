--------------------------- MODULE ContractStream ---------------------------
(***************************************************************************)
(* The GraphQL subscription "contract" (graphql/subscriptions.rs) beside   *)
(* the worker of MarloweIndex: every two seconds it yields what the cache  *)
(* has under the short id, and it ends when that contract has ended.       *)
(***************************************************************************)
EXTENDS MarloweIndex

VARIABLES
    stream,     \* "none", "open" or "ended"
    watched,    \* the short id asked for
    seen        \* what was yielded last

streamVars == <<stream, watched, seen>>

Up == wpc \notin {"down", "refused", "panicked"}

StreamInit ==
    /\ Init
    /\ stream = "none"
    /\ watched = None
    /\ seen = None

\* A client subscribes to a contract it has seen.
Open ==
    /\ Up
    /\ stream = "none"
    /\ stream' = "open"
    /\ watched' \in DOMAIN cache
    /\ seen' = None
    /\ UNCHANGED vars

\* get_by_shortid_from_mem_cache; nothing changes once a contract has ended.
Poll ==
    /\ Up
    /\ stream = "open"
    /\ IF watched \in DOMAIN cache
       THEN /\ seen' = cache[watched]
            /\ stream' = IF LastTransition(cache[watched]).end THEN "ended"
                                                               ELSE "open"
       ELSE seen' = None /\ UNCHANGED stream
    /\ UNCHANGED <<watched, vars>>

StreamNext ==
    \/ Next /\ UNCHANGED streamVars
    \/ Open
    \/ Poll

\* The stream is polled, and the worker goes on with what it has begun.
StreamSpec ==
    /\ StreamInit /\ [][StreamNext]_<<vars, streamVars>>
    /\ WF_<<vars, streamVars>>(Poll)
    /\ WF_<<vars, streamVars>>(UNCHANGED streamVars /\
          (Restart \/ FirstRollback \/ SaveRollbackSlot \/ SaveRollbackHash
           \/ ReadTransaction \/ Apply \/ SaveHash \/ SaveSlot))

\* subscriptions.rs:103 "Subscription will end when contract does."
SubscriptionEnds ==
    (/\ stream = "open"
     /\ watched \in DOMAIN db
     /\ LastTransition(db[watched]).end)
    ~> (stream = "ended" \/ ~Up)
=============================================================================
