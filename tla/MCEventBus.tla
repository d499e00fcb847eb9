----------------------------- MODULE MCEventBus -----------------------------
(***************************************************************************)
(* Two subscribers, one of them interested in a part of the events only.   *)
(* Magics: 764824073 mainnet, 1 preprod, 2 preview, 4 sanchonet.           *)
(***************************************************************************)
EXTENDS EventBus

MCSlotConfigs == {764824073, 1, 3, 4}
MCNetworks == {764824073, 1, 2, 4}

MCFilters == {{"Init", "Update", "Closed"}, {"Closed"}}

MCEvents == {[type |-> "Init", datum |-> "steps"],
             [type |-> "Update", datum |-> "fails"],
             [type |-> "Closed", datum |-> "absent"]}
=============================================================================
