------------------------------ MODULE EventBus ------------------------------
(***************************************************************************)
(* The way of a MarloweEvent from the worker to the GraphQL subscribers    *)
(* (src/modules/marlowe/mod.rs, graphql/subscriptions.rs): the worker puts *)
(* it on an unbounded channel, one processor task computes the state of    *)
(* the contract and broadcasts the result, and every subscriber reads the  *)
(* broadcast through a stream of its own.                                  *)
(*                                                                         *)
(* The channels are external (tokio).  A broadcast channel keeps the last  *)
(* Capacity messages; a receiver that has fallen further behind gets       *)
(* Lagged instead of a message.                                            *)
(***************************************************************************)
EXTENDS Naturals, Sequences, FiniteSets, Selection

CONSTANTS
    Networks,       \* the magics the program is started with
    SlotConfigs,    \* the magics slot_config_by_magic has a clock for
    Subscribers,
    Filters,        \* MarloweSubscriptionFilters: sets of event types
    Events,         \* the MarloweEvents the worker may apply
    Capacity,       \* of the broadcast channel
    None,           \* Rust's None
    MaxEvents       \* bound on the events applied

\* An event has a type, and the last datum of its contract is absent, can be
\* stepped, or cannot.
ASSUME EventsAssumption ==
    /\ Events \subseteq [type : {"Init", "Update", "Closed"},
                         datum : {"absent", "steps", "fails"}]
    /\ None \notin Events

ASSUME FiltersAssumption == Filters \subseteq SUBSET {"Init", "Update", "Closed"}

ASSUME SubscribersAssumption == IsFiniteSet(Subscribers)

ASSUME CapacityAssumption == Capacity \in Nat \ {0} /\ MaxEvents \in Nat

VARIABLES
    magic,          \* the network of this process
    worker,         \* "running" until its send fails
    applied,        \* every event the worker has put on evt_main_chan
    queue,          \* evt_main_chan
    processor,      \* process_messages: "running", or "dead" from a panic
    handling,       \* the event process_messages has received
    sent,           \* every message broadcast so far
    streams         \* the subscribers' streams

vars == <<magic, worker, applied, queue, processor, handling, sent, streams>>

\* A stream reads from message "from" on, and is about to read "next".
Stream == [status : {"none", "open", "ended"}, filter : Filters,
           from : Nat, next : Nat, got : Seq(Events)]

TypeOK ==
    /\ magic \in Networks
    /\ worker \in {"running", "panicked"}
    /\ applied \in Seq(Events) /\ Len(applied) <= MaxEvents
    /\ queue \in Seq(Events)
    /\ processor \in {"running", "dead"}
    /\ handling \in Events \cup {None}
    /\ sent \in Seq(Events)
    /\ streams \in [Subscribers -> Stream]
    /\ \A s \in Subscribers : streams[s].next <= Len(sent) + 1

Init ==
    /\ magic \in Networks
    /\ worker = "running"
    /\ applied = <<>>
    /\ queue = <<>>
    /\ processor = "running"
    /\ handling = None
    /\ sent = <<>>
    /\ \E filter \in [Subscribers -> Filters] :
          streams = [s \in Subscribers |->
                        [status |-> "none", filter |-> filter[s], from |-> 1,
                         next |-> 1, got |-> <<>>]]

-----------------------------------------------------------------------------
(* The worker and the processor.                                           *)

\* MarloweSyncModule::apply: sending to a channel whose receiver is gone is
\* unwrapped.
Apply ==
    /\ worker = "running"
    /\ Len(applied) < MaxEvents
    /\ \E e \in Events :
          IF processor = "dead"
          THEN worker' = "panicked" /\ UNCHANGED <<applied, queue>>
          ELSE /\ applied' = Append(applied, e)
               /\ queue' = Append(queue, e)
               /\ UNCHANGED worker
    /\ UNCHANGED <<magic, processor, handling, sent, streams>>

\* MarloweState keeps the receiver the channel was made with.
ReceiverCount == 1 + Cardinality({s \in Subscribers : streams[s].status = "open"})

\* process_messages: an event nobody is subscribed to is skipped.
Take ==
    /\ processor = "running"
    /\ handling = None
    /\ queue # <<>>
    /\ handling' = IF ReceiverCount = 0 THEN None ELSE Head(queue)
    /\ queue' = Tail(queue)
    /\ UNCHANGED <<magic, worker, applied, processor, sent, streams>>

\* The time at the slot of a datum is asked for on every network.
HasNoClock(e) == e.datum # "absent" /\ magic \notin SlotConfigs

\* Mutant: an event without a datum is not broadcast.
BroadcastWithDatum ==
    /\ ~HasNoClock(handling)
    /\ sent' = IF handling.datum = "steps" THEN Append(sent, handling) ELSE sent
    /\ UNCHANGED <<queue, processor>>

\* A contract that cannot be stepped is logged and not broadcast.
Broadcast ==
    /\ ~HasNoClock(handling)
    /\ sent' = IF handling.datum = "fails" THEN sent ELSE Append(sent, handling)
    /\ UNCHANGED <<queue, processor>>

\* unimplemented!: the task ends, and the channel's receiver with it.
ProcessorPanics ==
    /\ HasNoClock(handling)
    /\ processor' = "dead"
    /\ queue' = <<>>
    /\ UNCHANGED sent

\* Mutant: a failed event is kept and tried again.
ProcessAgain ==
    /\ handling # None
    /\ Broadcast \/ ProcessorPanics
    /\ handling' = IF handling.datum = "fails" THEN handling ELSE None
    /\ UNCHANGED <<magic, worker, applied, streams>>

Process ==
    /\ handling # None
    /\ Broadcast \/ ProcessorPanics
    /\ handling' = None
    /\ UNCHANGED <<magic, worker, applied, streams>>

-----------------------------------------------------------------------------
(* The subscription "event".                                               *)

\* Mutant: the first message after the subscription is missed.
SubscribeLate(s) ==
    /\ streams[s].status = "none"
    /\ streams' = [streams EXCEPT ![s].status = "open",
                                  ![s].from = Len(sent) + 2,
                                  ![s].next = Len(sent) + 2]
    /\ UNCHANGED <<magic, worker, applied, queue, processor, handling, sent>>

\* event: a receiver gets what is sent from now on.
Subscribe(s) ==
    /\ streams[s].status = "none"
    /\ streams' = [streams EXCEPT ![s].status = "open",
                                  ![s].from = Len(sent) + 1,
                                  ![s].next = Len(sent) + 1]
    /\ UNCHANGED <<magic, worker, applied, queue, processor, handling, sent>>

\* The client goes away and the stream is dropped.
Unsubscribe(s) ==
    /\ streams[s].status = "open"
    /\ streams' = [streams EXCEPT ![s].status = "ended"]
    /\ UNCHANGED <<magic, worker, applied, queue, processor, handling, sent>>

\* tokio: the next message has been overwritten.
Lagged(s) == Len(sent) - streams[s].next >= Capacity

\* check_filter
CheckFilter(filter, e) == e.type \in filter

\* Mutant: Lagged is skipped and the oldest message kept is read next.
ReceiveOnLag(s) ==
    /\ streams[s].status = "open"
    /\ streams[s].next <= Len(sent)
    /\ LET n == IF Lagged(s) THEN Len(sent) - Capacity + 1 ELSE streams[s].next
       IN  streams' = [streams EXCEPT
              ![s].next = n + 1,
              ![s].got = IF CheckFilter(streams[s].filter, sent[n])
                         THEN Append(@, sent[n]) ELSE @]
    /\ UNCHANGED <<magic, worker, applied, queue, processor, handling, sent>>

\* while let Ok(msg): any error ends the stream, Lagged included.
Receive(s) ==
    /\ streams[s].status = "open"
    /\ streams[s].next <= Len(sent)
    /\ IF Lagged(s)
       THEN streams' = [streams EXCEPT ![s].status = "ended"]
       ELSE LET e == sent[streams[s].next]
            IN  streams' = [streams EXCEPT
                   ![s].next = @ + 1,
                   ![s].got = IF CheckFilter(streams[s].filter, e)
                              THEN Append(@, e) ELSE @]
    /\ UNCHANGED <<magic, worker, applied, queue, processor, handling, sent>>

-----------------------------------------------------------------------------

Next ==
    \/ Apply \/ Take \/ Process
    \/ \E s \in Subscribers : Subscribe(s) \/ Unsubscribe(s) \/ Receive(s)

\* The runtime polls every task that can go on; when events arrive and who
\* subscribes is up to others.
Fairness ==
    /\ WF_vars(Take) /\ WF_vars(Process)
    /\ \A s \in Subscribers : WF_vars(Receive(s))

Spec == Init /\ [][Next]_vars /\ Fairness

-----------------------------------------------------------------------------
(* Properties.                                                             *)

\* The number of events that have been processed.
Processed == Len(applied) - Len(queue) - (IF handling = None THEN 0 ELSE 1)

\* Subscribers are told of the events in the order the index applied them,
\* and of each once: the events that could be processed were broadcast, and
\* those in hand and on the channel are the ones applied since.
NothingLostOnTheWay ==
    processor = "running" =>
        /\ Processed \in 0..Len(applied)
        /\ IsSelection(sent, applied,
                       {k \in 1..Processed : applied[k].datum # "fails"})
        /\ handling # None => handling = applied[Processed + 1]
        /\ \A k \in DOMAIN queue :
              queue[k] = applied[Len(applied) - Len(queue) + k]

\* A stream has given its client every event since the subscription that
\* passes the filter, in order and without a gap: one that cannot keep up
\* ends rather than miss an event.
NoGaps ==
    \A s \in Subscribers :
        LET st == streams[s]
        IN  IsSelection(st.got, sent, {k \in st.from..st.next - 1 :
                                          CheckFilter(st.filter, sent[k])})

\* Publishing never takes the indexer down (worker.rs:88 unwraps the send).
PublishingIsSafe == worker # "panicked"

\* When no more events come, none is left on the channel or in hand, each has
\* been broadcast unless the processor is dead, and every open stream has been
\* read to the end.
EverythingDelivered ==
    <>[](/\ queue = <<>> /\ handling = None
         /\ \A s \in Subscribers :
               streams[s].status = "open" => streams[s].next = Len(sent) + 1)
=============================================================================
