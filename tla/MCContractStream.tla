-------------------------- MODULE MCContractStream --------------------------
(* The universe of MCMarloweIndex with a subscriber to one contract.       *)
EXTENDS MCMarloweIndex, ContractStream
=============================================================================
