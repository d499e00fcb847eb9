--------------------------- MODULE MCMarloweIndex ---------------------------
(***************************************************************************)
(* Every chain of Depth blocks after the start block over a small universe *)
(* of transactions:                                                        *)
(*                                                                         *)
(*   c0 creates a contract, s0 steps it, e0 ends it with change, g0 spends *)
(*   the change; h0 steps c0 instead, with a hashed datum; y0 closes that; *)
(*   d0 creates two contracts beside an unreadable output; m0 steps c0 and *)
(*   moves it to another output index.                                     *)
(*                                                                         *)
(* A block is a number: the numbers of the contents of its chain's blocks  *)
(* are its digits, so that its prefixes are its ancestors and 0 is the     *)
(* origin.                                                                 *)
(***************************************************************************)
EXTENDS MarloweIndex

CONSTANTS Depth, Contents

Ref(t, i) == [tx |-> t, index |-> i]

MCTx == {"c0", "s0", "e0", "g0", "h0", "y0", "d0", "m0"}
MCInputs == [t \in MCTx |->
    CASE t = "s0" -> <<Ref("c0", 0)>>
      [] t = "e0" -> <<Ref("s0", 0)>>
      [] t = "g0" -> <<Ref("e0", 0)>>
      [] t = "h0" -> <<Ref("c0", 0)>>
      [] t = "y0" -> <<Ref("h0", 0)>>
      [] t = "m0" -> <<Ref("c0", 0)>>
      [] OTHER -> <<>>]
MCOutputs == [t \in MCTx |->
    CASE t = "c0" -> <<"open", "other">>
      [] t = "s0" -> <<"open">>
      [] t = "e0" -> <<"other">>
      [] t = "g0" -> <<"other">>
      [] t = "h0" -> <<"hash", "other">>
      [] t = "y0" -> <<"close">>
      [] t = "d0" -> <<"bad", "open", "close">>
      [] t = "m0" -> <<"other", "open">>]

\* The ledger demands a redeemer for every input at a script address.
MCRedeemers == [t \in MCTx |->
    {k \in 0..Len(MCInputs[t]) - 1 :
        LET o == MCInputs[t][k + 1] IN MCOutputs[o.tx][o.index + 1] # "other"}]

\* The contents a block can have; the first is that of the start block.  A
\* contract keeps its output index in all but the last.
MCForkContents == <<<<>>, <<"c0">>, <<"s0">>, <<"e0", "g0">>, <<"h0">>, <<"y0">>,
                    <<"c0", "d0">>, <<"c0", "s0">>, <<"s0", "e0">>>>
MCShiftedContents == <<<<>>, <<"c0">>, <<"m0">>>>

Base == Len(Contents) + 1

\* The transactions of the chain that ends in b, in order.
ChainOf[b \in Nat] ==
    IF b = 0 THEN <<>> ELSE ChainOf[b \div Base] \o Contents[b % Base]

\* No transaction twice, no output twice, and only outputs of earlier ones.
ValidTransactions(txs) ==
    /\ \A j, k \in DOMAIN txs : txs[j] = txs[k] => j = k
    /\ \A j, k \in DOMAIN txs :
          j # k => Elements(MCInputs[txs[j]]) \cap Elements(MCInputs[txs[k]]) = {}
    /\ \A k \in DOMAIN txs : \A o \in Elements(MCInputs[txs[k]]) :
          \E j \in 1..k - 1 : txs[j] = o.tx

Prefixes(b) == {b \div Base^k : k \in 0..Depth + 1}

\* The chains of n blocks after the start, and all of up to Depth blocks.
ChainsOfLength[n \in Nat] ==
    IF n = 0 THEN {1}
    ELSE {b \in {Base * p + d : p \in ChainsOfLength[n - 1], d \in 1..Base - 1} :
             ValidTransactions(ChainOf[b])}

Chains == {0} \cup UNION {ChainsOfLength[n] : n \in 0..Depth}
AncestorsOf == [b \in Chains |-> Prefixes(b)]
NumberOf == [b \in Chains |-> Cardinality(AncestorsOf[b]) - 1]
SlotOf == [b \in Chains |-> IF b = 0 THEN 0 ELSE 10 + NumberOf[b]]
ContentsOf == [b \in Chains |-> IF b = 0 THEN <<>> ELSE Contents[b % Base]]

\* TLC evaluates a definition without parameters once, but not one that a
\* configuration substitutes for a constant: hence the second names.
MCBlock == Chains
MCOrigin == 0
MCStart == 1
MCParent == [b \in MCBlock \ {0} |-> b \div Base]
MCAncestors == AncestorsOf
MCBlockNumber == NumberOf
MCSlot == SlotOf
MCTxsOf == ContentsOf

\* The chains follow the rules the theorems assume, except that contracts
\* change their output index in the last choice of contents.
ASSUME MCRulesAssumption ==
    /\ TransactionsDiffer(Block) /\ ShortIdsDiffer(Block) /\ InputsAreEarlier(Block)
    /\ Contents # MCShiftedContents => ContractsKeepIndex(Block)
    /\ ContractsMoveOnce(Block) /\ NoContractsUpTo(Start)
=============================================================================
