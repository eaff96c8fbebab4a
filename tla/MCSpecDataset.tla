---------------------------- MODULE MCSpecDataset ----------------------------
(* Every outcome of NSeeds seeds.                                          *)
EXTENDS SpecDataset

AllProfiles   == [Seeds -> Kinds]
=============================================================================
