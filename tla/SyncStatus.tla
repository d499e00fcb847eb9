----------------------------- MODULE SyncStatus -----------------------------
(***************************************************************************)
(* The published position of the indexer (ChainSyncState, core/lib.rs) and *)
(* the GraphQL query "stats" and subscription "syncStatus" that report it  *)
(* (modules/mod.rs).                                                       *)
(*                                                                         *)
(* The thread of the chain sync stores the cells of the position one after *)
(* the other, and the server loads them one after the other.  The stream   *)
(* of reports keeps a window of the last changes of the distance to the    *)
(* tip.  The time of the slot, which every report also shows, is left out. *)
(***************************************************************************)
EXTENDS ChainSyncState

CONSTANTS
    Starts,         \* the intersect points the process may start from
    Window,         \* 10, the length of diff_history
    WordSize,       \* 2^64
    MaxReplies      \* bound on the replies of the node

ASSUME StatusAssumption ==
    /\ Starts \subseteq Block
    /\ Window \in Nat \ {0, 1}
    /\ WordSize \in Nat \ {0, 1}
    /\ MaxReplies \in Nat
    /\ None \notin Nat

VARIABLES
    \* the chain sync
    transport,      \* "N2N" or "N2C"
    point, tip,     \* of the last reply, as ChainSync!HandleReply leaves them
    forward,        \* was it a RollForward?
    before,         \* the point and the tip of the reply before
    replies,
    cell,           \* the cells, by name
    stores,         \* the stores of the last reply still to be done
    \* the stream
    seen,           \* the values loaded for the next report
    disturbed,      \* was a cell stored since the first of these loads?
    diffHistory, index, lastDiff,
    report,         \* the last report
    diffs           \* the distances in the last Window + 1 reports

chainSync == <<transport, point, tip, forward, before, replies>>
stream == <<diffHistory, index, lastDiff, report, diffs>>
vars == <<chainSync, cell, stores, seen, disturbed, stream>>

Init ==
    /\ transport \in {"N2N", "N2C"}
    /\ point \in Starts
    /\ tip = Origin
    /\ forward = FALSE
    /\ before = <<point, tip>>
    /\ replies = 0
    /\ cell = [c \in Cells |-> None]
    /\ stores = <<>>
    /\ seen = <<>>
    /\ disturbed = FALSE
    /\ diffHistory = [i \in 0..Window - 1 |-> 0]
    /\ index = 0
    /\ lastDiff = 0
    /\ report = None
    /\ diffs = [i \in 1..Window + 1 |-> 0]

-----------------------------------------------------------------------------
(* The stores of handle_sync_response.                                     *)

\* The tips the node can name: its chain goes through the point of the reply.
TipsFor(b) == {t \in Block : b \in Ancestors[t]}

HandleReply ==
    /\ stores = <<>>
    /\ replies < MaxReplies
    /\ replies' = replies + 1
    /\ before' = <<point, tip>>
    /\ \E b \in Block : \E t \in TipsFor(b) :
          /\ point' = b
          /\ tip' = t
          /\ \/ /\ replies > 0
                /\ b # Origin /\ Parent[b] = point
                /\ forward' = TRUE
                /\ stores' = ForwardStores(transport, b, t)
             \/ /\ b \in Ancestors[point]
                /\ forward' = FALSE
                /\ stores' = RollBackStores(transport, b, t)
    /\ UNCHANGED <<transport, cell, seen, disturbed, stream>>

StoreOne ==
    /\ stores # <<>>
    /\ cell' = [cell EXCEPT ![Head(stores)[1]] = Head(stores)[2]]
    /\ stores' = Tail(stores)
    /\ disturbed' = (seen # <<>>)
    /\ UNCHANGED <<chainSync, seen, stream>>

-----------------------------------------------------------------------------
(* The report.                                                             *)

\* The order of the loads.
Loads == <<"tipSlot", "tipNumber", "slot", "number">>

\* load().unwrap_or_default()
LoadOne ==
    /\ Len(seen) < Len(Loads)
    /\ LET v == cell[Loads[Len(seen) + 1]]
       IN  seen' = Append(seen, IF v = None THEN 0 ELSE v)
    /\ disturbed' = (disturbed /\ seen # <<>>)
    /\ UNCHANGED <<chainSync, cell, stores, stream>>

\* Mutant: a plain subtraction.
Difference(m, n) == m - n

AbsDiff(m, n) == IF m < n THEN n - m ELSE m - n

\* (number as f64 / tip as f64) * 100.0, as an integer: 0/0 is 0, and the
\* division of anything else by 0 is the largest integer.
Percentage(n, t) ==
    CASE t > 0 -> (n * 100) \div t
      [] t = 0 /\ n = 0 -> 0
      [] t = 0 /\ n > 0 -> WordSize \div 2 - 1

\* history.iter().sum()
SumOf(history) ==
    LET sum[n \in 0..Window] == IF n = 0 THEN 0 ELSE sum[n - 1] + history[n - 1]
    IN  sum[Window]

\* What is left: unknown until the window is full, and then the distance by
\* the average change, in seconds.
TimeLeft(diff, history) ==
    IF diff < 2 THEN <<"Fully synced!">>
    ELSE IF history[Window - 1] = 0 THEN <<"estimating">>
    ELSE IF SumOf(history) = 0 THEN <<"seconds", 0>>
    ELSE <<"seconds", (diff * Window) \div AbsDiff(SumOf(history), 0)>>

\* Mutant: the window wraps around one element too early.
NextIndexTooEarly(i) == (i + 1) % (Window - 1)

NextIndex(i) == (i + 1) % Window

Report ==
    /\ Len(seen) = Len(Loads)
    /\ LET diff == AbsDiff(seen[1], seen[3])
           history == [diffHistory EXCEPT ![index] = diff - lastDiff]
       IN  /\ diffHistory' = history
           /\ lastDiff' = diff
           /\ diffs' = Append(Tail(diffs), diff)
           /\ report' = [tipSlot |-> seen[1], tipNumber |-> seen[2],
                         slot |-> seen[3], number |-> seen[4], diff |-> diff,
                         percentage |-> Percentage(seen[4], seen[2]),
                         timeLeft |-> TimeLeft(diff, history)]
    /\ index' = NextIndex(index)
    /\ seen' = <<>>
    /\ disturbed' = FALSE
    /\ UNCHANGED <<chainSync, cell, stores>>

-----------------------------------------------------------------------------

Reader == LoadOne \/ Report

Next == HandleReply \/ StoreOne \/ Reader

\* The thread of the chain sync goes on with what it has begun, and the
\* client of the stream goes on reading.
Fairness == WF_vars(StoreOne) /\ WF_vars(Reader)

Spec == Init /\ [][Next]_vars /\ Fairness

-----------------------------------------------------------------------------
(* Properties.                                                             *)

TypeOK ==
    /\ transport \in {"N2N", "N2C"}
    /\ {point, tip, before[1], before[2]} \subseteq Block
    /\ point \in Ancestors[tip] \/ replies = 0
    /\ cell \in [Cells -> Nat \cup {None}]
    /\ seen \in Seq(Nat) /\ Len(seen) <= Len(Loads)
    /\ index \in DOMAIN diffHistory /\ lastDiff \in Nat
    /\ report = None \/ report.percentage \in Nat

\* The changes in the window add up to the change of the distance over as many
\* reports, so that the average the estimate divides by is the true one; the
\* first changes count from a distance of 0.
WindowTelescopes == SumOf(diffHistory) = lastDiff - diffs[1]

\* A report read over TCP, not in the middle of a roll back to the origin, which
\* alone stores the new tip before it takes back the point.
Orderly == transport = "N2N" /\ (stores = <<>> \/ point # Origin)

\* A report that no store came between never shows more than 100 percent,
\* even if it was read in the middle of a reply's stores: over TCP the tip is
\* stored before the block that may exceed the old tip, and a roll back takes
\* the number of the block away.  (A report that a store came between may be of
\* two replies and show anything, until the next one.)
NeverOverHundred ==
    [][Report /\ Orderly /\ ~disturbed => report'.percentage <= 100]_vars

Near(p, t) == AbsDiff(Slot[t], Slot[p]) < 2

\* A report that no store came between says "Fully synced!" only if the last
\* reply, or the one before while the last is being stored, puts the indexer
\* within a slot of the tip; but the empty cells before the first reply read as
\* synced.
NeverSyncedTooSoon ==
    [][Report /\ Orderly /\ ~disturbed /\ report'.timeLeft = <<"Fully synced!">>
            /\ (replies > 1 \/ (replies = 1 /\ stores = <<>>))
         => \/ Near(point, tip)
            \/ stores # <<>> /\ Near(before[1], before[2])]_vars

\* Once the node falls silent, the reports settle on its last reply: its tip,
\* its point, the number of the block unless it was a roll back; with nothing
\* left to do exactly if the point is at the tip.
StatusOfLastReply ==
    /\ report # None
    /\ report.tipSlot = Slot[tip] /\ report.tipNumber = Number(tip)
    /\ report.slot = Slot[point]
    /\ report.number = IF forward THEN Number(point) ELSE 0
    /\ (report.timeLeft = <<"Fully synced!">>) <=> Near(point, tip)
    /\ forward /\ point = tip => report.percentage = 100

StatusSettles == <>[](replies > 0 => StatusOfLastReply)
=============================================================================
