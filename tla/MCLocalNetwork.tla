---- MODULE MCLocalNetwork ----
(* Instances of LocalNetwork *)
EXTENDS LocalNetwork

AllOps == {"all_to_all_v", "all_to_all", "all_gather", "all_reduce"}
====
