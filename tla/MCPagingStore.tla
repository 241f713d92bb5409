---------------------------- MODULE MCPagingStore ----------------------------
(***************************************************************************)
(* PagingStore on a small instance in which every limit binds: a list of   *)
(* five ids is cut to four, a third list is one too many for the store and *)
(* for a client, two lists of four are too long for the store, and one of  *)
(* four beside one of three for a client.  A list of three can be copied.  *)
(***************************************************************************)
EXTENDS PagingStore, TLC

CONSTANTS c1, c2, u1, u2, u3, d1, d2

\* A search, and the hard references of two documents of one scope.
MCListing ==
  {[scope |-> "a", kind |-> "search", target |-> "none"],
   [scope |-> "a", kind |-> "hard_reference", target |-> d1],
   [scope |-> "a", kind |-> "hard_reference", target |-> d2]}

\* Ids are random, and clients and documents are interchangeable.
Symmetry == Permutations(SnapshotId) \cup Permutations(Client) \cup Permutations({d1, d2})
==============================================================================
