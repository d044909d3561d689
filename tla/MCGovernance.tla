---------------------------- MODULE MCGovernance ----------------------------
(* An instance of Governance for TLC: a founder at the root, the head of a    *)
(* branch beneath who may create sub-branches, and a member.                  *)
EXTENDS Governance, TLC

CONSTANTS founder, chair, head, mate, root, main, sub, h1, h2

Ground == root :> {} @@ main :> {root}
Bosses == {<<founder, root>>, <<head, main>>}
Rights == {<<founder, root, "sub">>, <<founder, root, "co">>, <<head, main, "sub">>}
CoOwner == {{"co"}}
Filed == {<<"JOIN_BRANCH", main>>, <<"VISIBILITY", sub>>, <<"DELETE_BRANCH", sub>>, <<"COURSE_ASSIGN", sub>>}

\* One handler works on the structure, the other on requests and people.
Structure == {"create", "place", "remove", "delete"}
Shared == h1 :> Structure @@ h2 :> {"decide", "file", "restore"}
Apart == {}

=============================================================================
