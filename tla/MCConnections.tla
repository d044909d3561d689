--------------------------- MODULE MCConnections ----------------------------
(* Instances of Connections for TLC: what each run lets happen.             *)
EXTENDS Connections

\* A test fails after it made the folder.
Usual == {"partial"}
=============================================================================
