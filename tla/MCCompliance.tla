---------------------------- MODULE MCCompliance ----------------------------
(* Instances of Compliance for TLC: small trees, and what each run offers. *)
EXTENDS Compliance, TLC
CONSTANTS root

\* Every other node hangs from the root.
Under == [n \in Node |-> IF n = root THEN {} ELSE {root}]

Asks(mandatory, inherit, days, retake) ==
  [mandatory |-> mandatory, inherit |-> inherit, deadlineDays |-> days, retakeEveryNDays |-> retake]
\* Mandatory with a window of its own, or opt-in with the course's.
Mixed == {Asks(TRUE, TRUE, 1, Never), Asks(FALSE, TRUE, Never, Never)}
Plain == {Asks(TRUE, FALSE, Never, Never), Asks(FALSE, FALSE, Never, Never)}

\* Schedules: due after a day, or two, and never again or again after a day.
Once == {<<1, Never>>}
OnceOrDaily == {<<2, Never>>, <<2, 1>>}

Serial == {}
Overlapping == {"overlap"}
Widening == {"widen"}
=============================================================================
