----------------------------- MODULE MCConfigHeal -----------------------------
(***************************************************************************)
(* Two keys, a third that comes with an update, and one buff override.     *)
(***************************************************************************)
EXTENDS ConfigHeal

MCFirst == {"Enabled", "BuffsEnabled"}
MCNew == {"SeasonsEnabled"}
MCOverrides == {"BuffOverrides.storm"}
MCValues == {"true", "false"}
MCDefault == [k \in MCFirst \cup MCNew |-> "true"]
MCOverridden == [v \in {"true"} |-> {7}]
MCShipped == [storm |-> {1}, fog |-> {2}]
MCSpecOf == [k \in MCOverrides |-> "storm"]
=============================================================================
