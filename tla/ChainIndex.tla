----------------------------- MODULE ChainIndex -----------------------------
(***************************************************************************)
(* What the database of an indexer promises, whatever the node, the        *)
(* network and the process do: at every moment it holds facts about one    *)
(* chain, which become known one at a time and are forgotten only by going *)
(* back to a point of that chain, then exactly those above the point.      *)
(*                                                                         *)
(* A fact is that a transaction of a block has created, moved or ended a   *)
(* contract.                                                               *)
(***************************************************************************)
EXTENDS Chain

VARIABLE facts      \* records with the fields contract, tx, block and end

Init == facts = {}

\* A fact of the chain that the others are of.  Nothing happens to a contract
\* that has ended.
Record ==
    \E f \in facts' \ facts :
        /\ facts' = facts \cup {f}
        /\ \A g \in facts : /\ g.block \in Ancestors[f.block]
                            /\ g.contract = f.contract => ~g.end

Forget ==
    \E p \in Block : facts' = {f \in facts : f.block \in Ancestors[p]}

Next == Record \/ Forget

Spec == Init /\ [][Next]_facts
=============================================================================
