---------------------------- MODULE MCSyncStatus ----------------------------
(***************************************************************************)
(* The reports on a tree of five blocks with a start in its middle.        *)
(*                                                                         *)
(*      g - a1 - b2 - b3                                                   *)
(*            \ - a2                                                       *)
(***************************************************************************)
EXTENDS SyncStatus

MCBlock == {"g", "a1", "a2", "b2", "b3"}
MCOrigin == "g"
MCParent == [b \in MCBlock \ {"g"} |->
                CASE b = "a1" -> "g" [] b \in {"a2", "b2"} -> "a1" [] b = "b3" -> "b2"]
MCSlot == [b \in MCBlock |-> CASE b = "g" -> 0 [] b = "a1" -> 1 [] b = "a2" -> 4
                               [] b = "b2" -> 3 [] b = "b3" -> 7]
MCAncestors == [b \in MCBlock |->
                {"g", b} \cup (IF b = "g" THEN {} ELSE {"a1"})
                         \cup (IF b = "b3" THEN {"b2"} ELSE {})]
MCStarts == {"b2"}
=============================================================================
