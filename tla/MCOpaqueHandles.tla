--------------------------- MODULE MCOpaqueHandles ---------------------------
(***************************************************************************)
(* OpaqueHandles on two small instances: one in which two clients compete  *)
(* for the store, whose shares just fit it, and one with a longer time, in *)
(* which a list outlives a handle and both end while one client reads on.  *)
(***************************************************************************)
EXTENDS OpaqueHandles, TLC

CONSTANTS c1, c2

VARIABLE instance

Long == INSTANCE OpaqueHandles WITH Ttl <- 2, PagingTtl <- 3, MaxTime <- 4

OneClient ==
  /\ store'[c2] = <<>>
  /\ \A k \in Call : calls'[k].pc # "idle" => calls'[k].client = c1

MCInit == Init /\ instance \in {"shares", "lineage"}

MCNext ==
  \/ instance = "shares" /\ Next /\ UNCHANGED instance
  \/ instance = "lineage" /\ Long!Next /\ OneClient /\ UNCHANGED instance

MCSpec == MCInit /\ [][MCNext]_<<vars, instance>>

MCSymmetry == Permutations(Call)
==============================================================================
