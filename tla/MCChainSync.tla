---------------------------- MODULE MCChainSync ----------------------------
(***************************************************************************)
(* A block tree with a short fork, a long fork and a fork of a fork:       *)
(*                                                                         *)
(*      g - a1 - a2 - a3                                                   *)
(*           \ - b2 - b3                                                   *)
(*                                                                         *)
(* b2 has the slot of a3, so that slots do not order blocks of two forks.  *)
(***************************************************************************)
EXTENDS ChainSync

MCBlock == {"g", "a1", "a2", "a3", "b2", "b3"}
MCOrigin == "g"
MCParent == [b \in MCBlock \ {"g"} |->
                CASE b = "a1" -> "g"
                  [] b = "a2" -> "a1"
                  [] b = "a3" -> "a2"
                  [] b = "b2" -> "a1"
                  [] b = "b3" -> "b2"]
MCSlot == [b \in MCBlock |->
                CASE b = "g" -> 0
                  [] b = "a1" -> 1
                  [] b = "a2" -> 2
                  [] b = "a3" -> 4
                  [] b = "b2" -> 4
                  [] b = "b3" -> 5]
MCAncestors == [b \in MCBlock |->
                CASE b = "g" -> {"g"}
                  [] b = "a1" -> {"g", "a1"}
                  [] b = "a2" -> {"g", "a1", "a2"}
                  [] b = "a3" -> {"g", "a1", "a2", "a3"}
                  [] b = "b2" -> {"g", "a1", "b2"}
                  [] b = "b3" -> {"g", "a1", "b2", "b3"}]
=============================================================================
