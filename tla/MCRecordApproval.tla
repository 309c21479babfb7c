--------------------------- MODULE MCRecordApproval ---------------------------
(***************************************************************************)
(* Small instances of RecordApproval: two records, either of which may be  *)
(* the revision of the other, and a quotation.                             *)
(***************************************************************************)
EXTENDS RecordApproval

CONSTANTS f1, f2, q1, p1, p2, u1, u2

\* Records and post requests are interchangeable.
Symmetry == Permutations({f1, f2}) \cup Permutations({u1, u2})
=============================================================================
