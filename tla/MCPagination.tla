---------------------------- MODULE MCPagination ----------------------------
(* Tables of up to four rows, pages of up to three, two changes; rows that   *)
(* the condition does not tell apart may change places.                      *)
EXTENDS Pagination, TLC

CONSTANTS r1, r2, r3, r4

MCRows == {r1, r2, r3, r4}
MCMatching == {r1, r2, r3}
MCPerPage == 0..3
Symmetry == Permutations(Matching) \cup Permutations(Rows \ Matching)
=============================================================================
