---------------------------- MODULE MCDocuments ----------------------------
(* Instances of Documents for TLC: interchangeable documents and branches,   *)
(* and what each run offers.                                               *)
EXTENDS Documents, TLC

Interchangeable == Permutations(Doc) \cup Permutations(Branch)

Serial == {}
Failing == {"fail"}
=============================================================================
