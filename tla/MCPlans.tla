------------------------------ MODULE MCPlans ------------------------------
(* Instances of Plans for TLC: the traffic of each run, and symmetry.        *)
EXTENDS Plans, TLC

Everything == {"CREATE_ORG", "RESTORE_ORG", "UPGRADE_PLAN"}
\* Requests of every kind overlap; staff's coin changes and the nightly job do not.
Trading == {"drop", "found", "file", "delete", "grant", "purge", "coins", "nightly"}
\* Deletions, restores and revivals alone.
Restoring == {"file", "delete"}
RestoreOnly == {"RESTORE_ORG"}

Interchangeable == Permutations(Code) \cup Permutations(Handler)
=============================================================================
