----------------------------- MODULE MCAntFarm -----------------------------
(* Small instances of AntFarm for TLC: job names per ant.                  *)
EXTENDS AntFarm

(* Jobs that start and end like most. *)
SoundConfigs == {<<{"miner", "gateway"}, {"gateway"}>>}

(* A spender, an unknown job, a supplier as the second ant. *)
SpenderConfigs  == {<<{"miner", "gateway"}, {"bigspender"}>>}
UnknownConfigs  == {<<{"gateway"}, {"miner", "unknown"}>>}
SupplierConfigs == {<<{"miner", "bigspender"}, {"littlesupplier"}>>}
AllConfigs == SoundConfigs \cup SpenderConfigs \cup UnknownConfigs \cup SupplierConfigs
=============================================================================
