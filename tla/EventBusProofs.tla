--------------------------- MODULE EventBusProofs ---------------------------
(***************************************************************************)
(* Proofs about EventBus for any events, filters, subscribers and channel  *)
(* capacity, and any number of events.                                     *)
(***************************************************************************)
EXTENDS EventBus, SelectionProofs

(***************************************************************************)
(* Types.                                                                  *)
(***************************************************************************)

\* A stream reads on from where it began, and has given nothing before.
Started ==
    \A s \in Subscribers :
        /\ 1 <= streams[s].from /\ streams[s].from <= streams[s].next
        /\ streams[s].status = "none" => streams[s].got = <<>>

IInv == TypeOK /\ Started /\ NothingLostOnTheWay /\ NoGaps

\* The receiver that MarloweState keeps makes the number of receivers
\* positive, so that no event is skipped for the lack of one.
LEMMA NeverUnheard ==
  ReceiverCount # 0
  <1> DEFINE Open == {s \in Subscribers : streams[s].status = "open"}
  <1>1. IsFiniteSet(Open)
    BY SubscribersAssumption, FS_Subset
  <1>2. Cardinality(Open) \in Nat
    BY <1>1, FS_CardinalityType
  <1> QED
    BY <1>2 DEF ReceiverCount

\* Every step of the worker and the processor keeps the types.
LEMMA TypesOfBus ==
  ASSUME TypeOK, Apply \/ Take \/ Process
  PROVE  TypeOK'
  <1> USE DEF TypeOK
  <1>1. CASE Apply
    <2>1. PICK e \in Events :
            IF processor = "dead"
            THEN worker' = "panicked" /\ UNCHANGED <<applied, queue>>
            ELSE /\ applied' = Append(applied, e)
                 /\ queue' = Append(queue, e)
                 /\ UNCHANGED worker
      BY <1>1 DEF Apply
    <2>2. UNCHANGED <<magic, processor, handling, sent, streams>>
      BY <1>1 DEF Apply
    <2>3. applied' \in Seq(Events) /\ queue' \in Seq(Events)
      <3>3. applied \in Seq(Events) /\ queue \in Seq(Events)
        OBVIOUS
      <3> HIDE DEF TypeOK
      <3>1. CASE processor = "dead"
        <4>1. applied' = applied /\ queue' = queue
          BY Zenon, <2>1, <3>1
        <4> QED
          BY <4>1, <3>3
      <3>2. CASE processor # "dead"
        <4>1. applied' = Append(applied, e) /\ queue' = Append(queue, e)
          BY Zenon, <2>1, <3>2
        <4> QED
          BY <4>1, <3>3
      <3> QED
        BY <3>1, <3>2
    <2>4. Len(applied') <= MaxEvents
      BY <1>1, <2>1, CapacityAssumption DEF Apply
    <2>5. worker' \in {"running", "panicked"}
      BY <2>1
    <2> QED
      BY <2>2, <2>3, <2>4, <2>5
  <1>2. CASE Take
    <2>1. queue' \in Seq(Events) /\ handling' \in Events \cup {None}
      BY <1>2 DEF Take
    <2> QED
      BY <1>2, <2>1 DEF Take
  <1>3. CASE Process
    <2>1. /\ UNCHANGED <<magic, worker, applied, streams>>
          /\ handling' = None /\ handling \in Events
      BY <1>3 DEF Process
    <2>2. CASE Broadcast
      <3>1. UNCHANGED <<queue, processor>>
        BY <2>2 DEF Broadcast
      <3>2. sent' = sent \/ sent' = Append(sent, handling)
        BY <2>2 DEF Broadcast
      <3>3. sent' \in Seq(Events) /\ Len(sent) <= Len(sent')
        <4>1. sent \in Seq(Events)
          OBVIOUS
        <4> HIDE DEF TypeOK
        <4>2. CASE sent' = Append(sent, handling)
          BY <4>1, <4>2, <2>1
        <4>3. CASE sent' = sent
          BY <4>1, <4>3
        <4> QED
          BY <3>2, <4>2, <4>3
      <3>4. \A s \in Subscribers : streams'[s].next <= Len(sent') + 1
        BY <3>3, <2>1 DEF Stream
      <3> QED
        BY <2>1, <3>1, <3>3, <3>4
    <2>3. CASE ProcessorPanics
      BY <2>1, <2>3 DEF ProcessorPanics
    <2> QED
      BY <1>3, <2>2, <2>3 DEF Process
  <1> QED
    BY <1>1, <1>2, <1>3

\* Every step of a subscriber keeps the types and the order of positions.
LEMMA TypesOfStreams ==
  ASSUME TypeOK, Started, NEW s \in Subscribers,
         Subscribe(s) \/ Unsubscribe(s) \/ Receive(s)
  PROVE  TypeOK' /\ Started'
  <1>1. /\ streams \in [Subscribers -> Stream]
        /\ streams[s] \in Stream
        /\ streams[s].from \in Nat /\ streams[s].next \in Nat
        /\ sent \in Seq(Events) /\ Len(sent) \in Nat
        /\ 1 <= streams[s].from /\ streams[s].from <= streams[s].next
        /\ streams[s].next <= Len(sent) + 1
    BY DEF TypeOK, Started, Stream
  <1>2. \E r \in Stream : /\ streams' = [streams EXCEPT ![s] = r]
                          /\ 1 <= r.from /\ r.from <= r.next
                          /\ r.next <= Len(sent) + 1
                          /\ r.status # "none"
    <2>1. CASE Subscribe(s)
      <3> DEFINE r == [streams[s] EXCEPT !.status = "open",
                                         !.from = Len(sent) + 1,
                                         !.next = Len(sent) + 1]
      <3>1. r \in Stream /\ r.from = Len(sent) + 1 /\ r.next = Len(sent) + 1
            /\ r.status # "none"
        <4>1. Len(sent) + 1 \in Nat
          BY <1>1
        <4> QED
          BY <4>1, <1>1 DEF Stream
      <3>2. streams' = [streams EXCEPT ![s] = r]
        BY <2>1, <1>1 DEF Subscribe
      <3>3. 1 <= r.from /\ r.from <= r.next /\ r.next <= Len(sent) + 1
        BY <3>1, <1>1
      <3> HIDE DEF r
      <3> QED
        BY Zenon, <3>1, <3>2, <3>3
    <2>2. CASE Unsubscribe(s) \/ (Receive(s) /\ Lagged(s))
      <3> DEFINE r == [streams[s] EXCEPT !.status = "ended"]
      <3>1. r \in Stream /\ r.from = streams[s].from /\ r.next = streams[s].next
            /\ r.status # "none"
        BY <1>1 DEF Stream
      <3>2. streams' = [streams EXCEPT ![s] = r]
        BY <2>2, <1>1 DEF Unsubscribe, Receive
      <3>3. 1 <= r.from /\ r.from <= r.next /\ r.next <= Len(sent) + 1
        BY <3>1, <1>1
      <3> HIDE DEF r
      <3> QED
        BY Zenon, <3>1, <3>2, <3>3
    <2>3. CASE Receive(s) /\ ~Lagged(s)
      <3> DEFINE e == sent[streams[s].next]
                 got == IF CheckFilter(streams[s].filter, e)
                        THEN Append(streams[s].got, e) ELSE streams[s].got
                 r == [streams[s] EXCEPT !.next = streams[s].next + 1, !.got = got]
      <3>1. streams[s].next \in 1..Len(sent)
        BY <2>3, <1>1 DEF Receive, Stream
      <3>2. e \in Events /\ streams[s].got \in Seq(Events)
        BY <3>1, <1>1 DEF Stream
      <3>3. got \in Seq(Events)
        BY <3>2
      <3>4. streams' = [streams EXCEPT ![s] = r]
        BY <2>3, <1>1 DEF Receive
      <3> HIDE DEF got
      <3>5. r \in Stream /\ r.from = streams[s].from /\ r.next = streams[s].next + 1
            /\ r.status # "none"
        <4>1. streams[s].next + 1 \in Nat /\ streams[s].status = "open"
          BY <2>3, <1>1 DEF Receive
        <4> QED
          BY <4>1, <1>1, <3>3 DEF Stream
      <3>6. 1 <= r.from /\ r.from <= r.next /\ r.next <= Len(sent) + 1
        BY <3>1, <3>5, <1>1
      <3> HIDE DEF r
      <3> QED
        BY Zenon, <3>4, <3>5, <3>6
    <2> QED
      BY <2>1, <2>2, <2>3
  <1>3. UNCHANGED <<magic, worker, applied, queue, processor, handling, sent>>
    BY DEF Subscribe, Unsubscribe, Receive
  <1> QED
    BY <1>1, <1>2, <1>3 DEF TypeOK, Started

(***************************************************************************)
(* The order of the events.                                                *)
(***************************************************************************)

\* What is broadcast next is the next event applied.
LEMMA BusKeepsOrder ==
  ASSUME TypeOK, NothingLostOnTheWay, Apply \/ Take \/ Process
  PROVE  NothingLostOnTheWay'
  <1> DEFINE Told(a, n) == {k \in 1..n : a[k].datum # "fails"}
  <1> SUFFICES ASSUME processor' = "running"
               PROVE  NothingLostOnTheWay'
    BY DEF NothingLostOnTheWay
  <1>1. processor = "running"
    BY DEF Apply, Take, Process, Broadcast, ProcessorPanics
  <1>2. /\ Processed \in 0..Len(applied)
        /\ IsSelection(sent, applied, Told(applied, Processed))
        /\ handling # None => handling = applied[Processed + 1]
        /\ \A k \in DOMAIN queue :
              queue[k] = applied[Len(applied) - Len(queue) + k]
    BY <1>1 DEF NothingLostOnTheWay
  <1>3. CASE Apply
    <2>1. PICK e \in Events : /\ applied' = Append(applied, e)
                              /\ queue' = Append(queue, e)
                              /\ handling' = handling /\ sent' = sent
      BY <1>3, <1>1 DEF Apply
    <2>2. /\ applied \in Seq(Events) /\ queue \in Seq(Events)
          /\ Len(applied') = Len(applied) + 1 /\ Len(queue') = Len(queue) + 1
          /\ \A k \in 1..Len(applied) : applied'[k] = applied[k]
      BY <2>1 DEF TypeOK
    <2>3. Processed' = Processed
      BY <2>1, <2>2 DEF Processed
    <2>4. Told(applied', Processed') = Told(applied, Processed)
      BY <2>3, <2>2, <1>2
    <2>5. IsSelection(sent', applied', Told(applied', Processed'))
      <3>1. \A p \in Told(applied, Processed) : applied[p] = applied'[p]
        BY <2>2, <1>2
      <3> HIDE DEF Told
      <3> QED
        <4>1. IsSelection(sent, applied', Told(applied, Processed))
          BY <3>1, <1>2, SelectElsewhere
        <4> QED
          BY <4>1, <2>1, <2>4
    <2>6. handling' # None => handling' = applied'[Processed' + 1]
      <3> SUFFICES ASSUME handling # None
                   PROVE  handling = applied'[Processed + 1]
        BY <2>1, <2>3
      <3>1. Processed + 1 \in 1..Len(applied)
        BY <2>2, <1>2 DEF Processed
      <3> QED
        BY <3>1, <2>2, <1>2
    <2>7. \A k \in DOMAIN queue' :
            queue'[k] = applied'[Len(applied') - Len(queue') + k]
      BY <2>1, <2>2, <1>2 DEF Processed
    <2> QED
      BY <2>2, <2>3, <2>5, <2>6, <2>7, <1>2 DEF NothingLostOnTheWay
  <1>4. CASE Take
    <2>1. /\ handling = None /\ handling' = queue[1] /\ queue' = Tail(queue)
          /\ applied' = applied /\ sent' = sent /\ queue # <<>>
      BY <1>4, NeverUnheard DEF Take
    <2>2. /\ queue \in Seq(Events) /\ Len(queue) > 0 /\ queue[1] \in Events
          /\ Len(queue') = Len(queue) - 1
          /\ \A k \in 1..Len(queue') : queue'[k] = queue[k + 1]
      BY <2>1 DEF TypeOK
    <2>3. Len(applied) \in Nat /\ Len(queue) \in Nat /\ handling' # None
      BY <2>1, <2>2, EventsAssumption DEF TypeOK
    <2>4. Processed' = Processed
      BY <2>1, <2>2, <2>3 DEF Processed
    <2>5. handling' = applied'[Processed' + 1]
      BY <2>1, <2>2, <2>3, <2>4, <1>2 DEF Processed
    <2>6. \A k \in DOMAIN queue' :
            queue'[k] = applied'[Len(applied') - Len(queue') + k]
      <3> TAKE k \in DOMAIN queue'
      <3>1. /\ DOMAIN queue = 1..Len(queue) /\ DOMAIN queue' = 1..Len(queue')
            /\ k \in Nat
        BY <2>1, <2>2
      <3>2. k + 1 \in DOMAIN queue /\ queue'[k] = queue[k + 1]
        BY <3>1, <2>2
      <3>3. queue[k + 1] = applied[Len(applied) - Len(queue) + (k + 1)]
        BY <3>2, <1>2
      <3>4. Len(applied) - Len(queue) + (k + 1) = Len(applied') - Len(queue') + k
        BY <3>1, <2>1, <2>2, <2>3
      <3> QED
        BY <3>2, <3>3, <3>4, <2>1
    <2> QED
      BY <2>1, <2>4, <2>5, <2>6, <1>2 DEF NothingLostOnTheWay
  <1>5. CASE Process
    <2>1. /\ Broadcast /\ handling # None /\ handling' = None
          /\ applied' = applied /\ queue' = queue
      BY <1>5, <1>1 DEF Process, Broadcast, ProcessorPanics
    <2>2. /\ Len(applied) \in Nat /\ Len(queue) \in Nat
          /\ applied \in Seq(Events) /\ sent \in Seq(Events)
      BY DEF TypeOK
    <2>3. /\ Processed' = Processed + 1
          /\ Processed + 1 \in DOMAIN applied /\ Processed \in Nat
          /\ Processed' \in 0..Len(applied')
      BY <2>1, <2>2, <1>2 DEF Processed
    <2> DEFINE n == Processed + 1
    <2>4. handling = applied[n]
      BY <2>1, <1>2
    <2>5. IsSelection(sent', applied', Told(applied', Processed'))
      <3>1. CASE handling.datum = "fails"
        <4>1. sent' = sent
          BY <2>1, <3>1 DEF Broadcast
        <4>2. Told(applied', Processed') = Told(applied, Processed)
          BY <2>1, <2>3, <2>4, <3>1
        <4> QED
          BY <4>1, <4>2, <2>1, <1>2
      <3>2. CASE handling.datum # "fails"
        <4>1. sent' = Append(sent, applied[n])
          BY <2>1, <2>4, <3>2 DEF Broadcast
        <4>2. Told(applied', Processed') = Told(applied, Processed) \cup {n}
          BY <2>1, <2>3, <2>4, <3>2
        <4>3. /\ Told(applied, Processed) \in SUBSET Nat
              /\ \A p \in Told(applied, Processed) : p < n
              /\ n \in DOMAIN applied
          BY <2>3
        <4> HIDE DEF n, Told
        <4>4. IsSelection(Append(sent, applied[n]), applied,
                          Told(applied, Processed) \cup {n})
          BY <4>3, <2>2, <1>2, SelectNext
        <4> QED
          BY <4>1, <4>2, <4>4, <2>1
      <3> QED
        BY <3>1, <3>2
    <2> QED
      BY <2>1, <2>3, <2>5, <1>2 DEF NothingLostOnTheWay
  <1> QED
    BY <1>3, <1>4, <1>5

\* A subscriber changes nothing on the way of the events.
LEMMA StreamsKeepOrder ==
  ASSUME NothingLostOnTheWay, NEW s \in Subscribers,
         Subscribe(s) \/ Unsubscribe(s) \/ Receive(s)
  PROVE  NothingLostOnTheWay'
  <1>1. UNCHANGED <<applied, queue, processor, handling, sent>>
    BY DEF Subscribe, Unsubscribe, Receive
  <1> QED
    BY <1>1 DEF NothingLostOnTheWay, Processed

\* The positions a stream has selected up to n.
Passed(st, msgs, n) == {k \in st.from..n : CheckFilter(st.filter, msgs[k])}

\* What is broadcast later is not in what a stream has read.
LEMMA BusKeepsStreams ==
  ASSUME TypeOK, Started, NoGaps, Apply \/ Take \/ Process
  PROVE  NoGaps' /\ Started'
  <1>1. /\ streams' = streams
        /\ sent' = sent \/ sent' = Append(sent, handling)
    BY DEF Apply, Take, Process, Broadcast, ProcessorPanics
  <1>2. Started'
    BY <1>1 DEF Started
  <1>3. ASSUME NEW s \in Subscribers
        PROVE  IsSelection(streams[s].got, sent',
                           Passed(streams[s], sent', streams[s].next - 1))
    <2> DEFINE st == streams[s]
    <2>1. IsSelection(st.got, sent, Passed(st, sent, st.next - 1))
      BY DEF NoGaps, Passed
    <2>2. /\ st.from \in Nat /\ st.next \in Nat /\ 1 <= st.from
          /\ st.next - 1 <= Len(sent) /\ sent \in Seq(Events)
      BY DEF TypeOK, Stream, Started
    <2>3. \A k \in st.from..st.next - 1 : sent'[k] = sent[k]
      BY <1>1, <2>2
    <2>4. Passed(st, sent', st.next - 1) = Passed(st, sent, st.next - 1)
      BY <2>3 DEF Passed
    <2>5. \A k \in Passed(st, sent, st.next - 1) : sent[k] = sent'[k]
      BY <2>3 DEF Passed
    <2> HIDE DEF st
    <2>6. IsSelection(st.got, sent', Passed(st, sent, st.next - 1))
      BY <2>1, <2>5, SelectElsewhere
    <2> QED
      BY <2>4, <2>6 DEF st
  <1> QED
    BY <1>1, <1>2, <1>3 DEF NoGaps, Passed

\* A stream reads the next message or ends.
LEMMA StreamKeepsUp ==
  ASSUME TypeOK, Started, NoGaps, NEW s \in Subscribers,
         Subscribe(s) \/ Unsubscribe(s) \/ Receive(s)
  PROVE  NoGaps'
  <1>1. /\ streams \in [Subscribers -> Stream] /\ sent' = sent
        /\ streams[s].from \in Nat /\ streams[s].next \in Nat
        /\ 1 <= streams[s].from /\ streams[s].from <= streams[s].next
        /\ streams[s].got \in Seq(Events) /\ sent \in Seq(Events)
        /\ \A u \in Subscribers :
              IsSelection(streams[u].got, sent,
                          Passed(streams[u], sent, streams[u].next - 1))
    BY DEF TypeOK, Stream, Started, NoGaps, Passed, Subscribe, Unsubscribe, Receive
  <1>2. \A u \in Subscribers \ {s} : streams'[u] = streams[u]
    BY <1>1 DEF Subscribe, Unsubscribe, Receive
  <1>3. IsSelection(streams'[s].got, sent,
                    Passed(streams'[s], sent, streams'[s].next - 1))
    <2>1. CASE Unsubscribe(s) \/ (Receive(s) /\ Lagged(s))
      <3>1. streams' = [streams EXCEPT ![s].status = "ended"]
        BY <2>1 DEF Unsubscribe, Receive
      <3>2. /\ streams'[s].got = streams[s].got
            /\ streams'[s].from = streams[s].from
            /\ streams'[s].next = streams[s].next
            /\ streams'[s].filter = streams[s].filter
        BY <3>1, <1>1 DEF Stream
      <3>3. Passed(streams'[s], sent, streams'[s].next - 1)
              = Passed(streams[s], sent, streams[s].next - 1)
        BY <3>2 DEF Passed
      <3> QED
        BY <3>2, <3>3, <1>1
    <2>2. CASE Subscribe(s)
      <3>1. streams[s].got = <<>>
        BY <2>2 DEF Subscribe, Started
      <3>2. /\ streams'[s].got = <<>>
            /\ streams'[s].from = Len(sent) + 1
            /\ streams'[s].next = Len(sent) + 1
        BY <2>2, <3>1, <1>1 DEF Subscribe, Stream
      <3>3. Passed(streams'[s], sent, streams'[s].next - 1) = {}
        BY <3>2, <1>1 DEF Passed
      <3> QED
        BY <3>2, <3>3, <1>1, SelectNothing
    <2>3. CASE Receive(s) /\ ~Lagged(s)
      <3> DEFINE n == streams[s].next
                 P == Passed(streams[s], sent, n - 1)
                 passes == CheckFilter(streams[s].filter, sent[n])
      <3>1. n \in DOMAIN sent /\ n \in Nat
        BY <2>3, <1>1 DEF Receive
      <3>2. /\ streams'[s].next = n + 1
            /\ streams'[s].from = streams[s].from
            /\ streams'[s].filter = streams[s].filter
            /\ streams'[s].got = IF passes THEN Append(streams[s].got, sent[n])
                                           ELSE streams[s].got
        BY <2>3, <1>1 DEF Receive, Stream
      <3>3. streams'[s].next - 1 = n
        BY <3>1, <3>2
      <3>4. Passed(streams'[s], sent, streams'[s].next - 1)
              = Passed(streams[s], sent, n)
        BY <3>2, <3>3 DEF Passed
      <3>5. P \in SUBSET Nat /\ \A p \in P : p < n
        BY <3>1, <1>1 DEF Passed
      <3>6. Passed(streams[s], sent, n) = IF passes THEN P \cup {n} ELSE P
        BY <3>1, <1>1 DEF Passed
      <3>7. IsSelection(streams[s].got, sent, P)
        BY <1>1
      <3> HIDE DEF P, n
      <3>8. CASE passes
        <4>1. IsSelection(Append(streams[s].got, sent[n]), sent, P \cup {n})
          BY <3>1, <3>5, <3>7, <1>1, SelectNext
        <4> QED
          BY <4>1, <3>2, <3>4, <3>6, <3>8
      <3>9. CASE ~passes
        BY <3>2, <3>4, <3>6, <3>7, <3>9
      <3> QED
        BY <3>8, <3>9
    <2> QED
      BY <2>1, <2>2, <2>3
  <1>4. \A u \in Subscribers :
          IsSelection(streams'[u].got, sent',
                      Passed(streams'[u], sent', streams'[u].next - 1))
    <2> TAKE u \in Subscribers
    <2>1. CASE u = s
      BY <2>1, <1>1, <1>3
    <2>2. CASE u # s
      BY <2>2, <1>1, <1>2
    <2> QED
      BY <2>1, <2>2
  <1> QED
    BY <1>4 DEF NoGaps, Passed

(***************************************************************************)
(* The theorems.                                                           *)
(***************************************************************************)

\* No event has been applied and no stream has begun.
LEMMA InitIInv ==
  ASSUME Init
  PROVE  IInv
  <1>1. PICK filter \in [Subscribers -> Filters] :
          streams = [s \in Subscribers |->
                        [status |-> "none", filter |-> filter[s], from |-> 1,
                         next |-> 1, got |-> <<>>]]
    BY DEF Init
  <1>2. /\ magic \in Networks /\ worker = "running" /\ applied = <<>>
        /\ queue = <<>> /\ processor = "running" /\ handling = None /\ sent = <<>>
    BY DEF Init
  <1>3. /\ <<>> \in Seq(Events) /\ Len(<<>>) = 0 /\ DOMAIN <<>> = {}
        /\ 0 <= MaxEvents
    BY CapacityAssumption
  <1>4. streams \in [Subscribers -> Stream]
    BY <1>1, <1>3 DEF Stream
  <1>5. TypeOK /\ Started
    BY <1>1, <1>2, <1>3, <1>4 DEF TypeOK, Started
  <1>6. NothingLostOnTheWay
    <2>1. Processed = 0
      BY <1>2, <1>3 DEF Processed
    <2>2. {k \in 1..Processed : applied[k].datum # "fails"} = {}
      BY <2>1
    <2>3. IsSelection(sent, applied, {k \in 1..Processed : applied[k].datum # "fails"})
      BY <2>2, <1>2, <1>3, SelectNothing
    <2> QED
      BY <2>1, <2>3, <1>2, <1>3 DEF NothingLostOnTheWay
  <1>7. NoGaps
    <2> SUFFICES ASSUME NEW s \in Subscribers
                 PROVE  IsSelection(streams[s].got, sent,
                                    Passed(streams[s], sent, streams[s].next - 1))
      BY DEF NoGaps, Passed
    <2>1. streams[s].got = <<>> /\ streams[s].from = 1 /\ streams[s].next = 1
      BY <1>1
    <2>2. Passed(streams[s], sent, streams[s].next - 1) = {}
      BY <2>1 DEF Passed
    <2> QED
      BY <2>1, <2>2, <1>2, <1>3, SelectNothing
  <1> QED
    BY <1>5, <1>6, <1>7 DEF IInv

\* Every step keeps the invariant.
LEMMA NextKeeps ==
  ASSUME IInv, [Next]_vars
  PROVE  IInv'
  <1> USE DEF IInv
  <1>1. CASE Apply \/ Take \/ Process
    BY <1>1, TypesOfBus, BusKeepsOrder, BusKeepsStreams
  <1>2. CASE \E s \in Subscribers : Subscribe(s) \/ Unsubscribe(s) \/ Receive(s)
    BY <1>2, TypesOfStreams, StreamsKeepOrder, StreamKeepsUp
  <1>3. CASE UNCHANGED vars
    BY <1>3 DEF vars, TypeOK, Started, NothingLostOnTheWay, Processed, NoGaps
  <1> QED
    BY <1>1, <1>2, <1>3 DEF Next

\* The variables keep their types, the events their order and the streams
\* their place, for any number of events and subscribers.
THEOREM Invariance == Spec => []IInv
  BY InitIInv, NextKeeps, PTL DEF Spec

\* Events, streams and their places in the log keep their types.
THEOREM TypeCorrect == Spec => []TypeOK
  <1>1. IInv => TypeOK
    BY DEF IInv
  <1> QED
    BY <1>1, Invariance, PTL

\* The events are broadcast in the order in which the index applied them,
\* each of them once and none left out unless its contract cannot be stepped.
THEOREM EventsInOrder == Spec => []NothingLostOnTheWay
  <1>1. IInv => NothingLostOnTheWay
    BY DEF IInv
  <1> QED
    BY <1>1, Invariance, PTL

\* No subscriber misses an event that passes its filter without its stream
\* being ended, whatever the capacity of the channel.
THEOREM StreamsWithoutGaps == Spec => []NoGaps
  <1>1. IInv => NoGaps
    BY DEF IInv
  <1> QED
    BY <1>1, Invariance, PTL
=============================================================================
