----------------------------- MODULE MCObjects ------------------------------
(* Instances of Objects for TLC: what each run lets happen, and symmetry.    *)
EXTENDS Objects, TLC

\* Calls to the storage fail.
Flaky == {"unreachable"}
\* Drains and jobs die half way; moving a file fails.
Ordinary == {"stop"}
\* Requests and the migration die half way too.
Failures == {"stop", "fail"}

Interchangeable == Permutations(Object) \cup Permutations(Handler) \cup Permutations(Drainer)
=============================================================================
