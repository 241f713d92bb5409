--------------------------- MODULE MCContentReads ---------------------------
(* A few clients read one document with calls in flight. *)
EXTENDS ContentReads, TLC

\* A whole document is larger than some of its pages.
MCSize == [v \in Variant |-> IF v = "full" THEN 2 ELSE 1]

\* A whole document takes several answers; some pages fit into one.
MCLength == [v \in Variant |-> IF v = "full" THEN 3 ELSE 1]

\* Any text fits into one answer.
MCShort == [v \in Variant |-> 1]

MCSymmetry == Permutations(Client) \cup Permutations(Call) \cup Permutations(Version)
=============================================================================
