----------------------------- MODULE Governance -----------------------------
(* The tree of branches of one organization, who owns what, and the requests *)
(* that change it: the role routes, the central policy, the request routes   *)
(* and the Supreme-gated owner routes.  A handler reads what it decides on   *)
(* in one step and writes in later ones, so two of them interleave.          *)
EXTENDS Integers, FiniteSets

CONSTANTS
  Person, Branch, Handler,
  Root,          \* the branch the organization starts from
  Acting,        \* the people whose calls are explored; the others only use the Supreme routes
  Standing,      \* the branches that exist at the start, with what is above each
  Seated,        \* the owners at the start
  Granted,       \* the delegation flags they hold
  Grants,        \* bound: the sets of flags offered when an owner is appointed
  Offered,       \* "overlap": two handlers that the code leaves to race
  Newcomers,     \* bound: the people placed, removed, given flags, who join, or whose profile goes
  Asked,         \* bound: the <<kind, branch>> pairs requests are filed for
  Menu,          \* bound: the calls each handler is given
  MaxRequests,   \* bound: requests open at once
  Kept,          \* the backup files from before the start
  Backed,        \* bound: the branches backed up
  MaxBackups     \* bound: backup files made

Flag == {"sub", "co"}        \* canCreateSubgroups, canAddCoOwners
Kind == {"JOIN_BRANCH", "VISIBILITY", "DELETE_BRANCH", "COURSE_ASSIGN"}
Seat == {"OWNER", "MEMBER"}

\* A .bkp file: one branch's placements, and the branches beneath it, when it was taken.
BackupOK(b) ==
  /\ b.node \in Branch /\ b.below \subseteq Branch
  /\ b.owns \cup b.sits \subseteq Person \X {b.node}
  /\ \A r \in b.rights : r[3] \in Flag /\ <<r[1], r[2]>> \in b.owns

\* What is above a branch is a path: finite, and each level's own path is a part of it.
ASSUME StandingAssumption ==
  /\ Root \in DOMAIN Standing /\ DOMAIN Standing \subseteq Branch
  /\ Standing[Root] = {} /\ \A n \in DOMAIN Standing \ {Root} : Root \in Standing[n]
  /\ \A n \in DOMAIN Standing :
       /\ Standing[n] \subseteq DOMAIN Standing \ {n} /\ IsFiniteSet(Standing[n])
       /\ \A a, b \in Standing[n] :
            Standing[a] \subseteq Standing[n] /\ (a = b \/ a \in Standing[b] \/ b \in Standing[a])
  /\ IsFiniteSet(Person)
  /\ Seated \subseteq Person \X DOMAIN Standing
  /\ \A r \in Granted : r[3] \in Flag /\ <<r[1], r[2]>> \in Seated
  /\ Acting \subseteq Person /\ Grants \subseteq SUBSET Flag /\ Asked \subseteq Kind \X Branch
  /\ \A b \in Kept : BackupOK(b)

VARIABLES
  live,      \* the branches with a row
  above,     \* the branches named in each one's path before itself, fixed at creation
  public,    \* the branches whose own flag says visible
  owns,      \* <<person, branch>>: OWNER placements
  rights,    \* <<person, branch, flag>>: the flags they carry
  sits,      \* <<person, branch>>: MEMBER placements
  belongs,   \* the people with a membership
  profiles,  \* the people who still have a profile
  placed,    \* <<branch, inherited below>>: placements of the library's course
  requests,  \* the request rows
  job,       \* what each handler has read and has still to do
  backups    \* the backup files people keep

vars == <<live, above, public, owns, rights, sits, belongs, profiles, placed, requests, job, backups>>
people == <<owns, rights, sits, belongs, profiles>>
tree == <<live, above, public>>

Idle == [do |-> "idle"]
Request(kind, n, p, as) == [kind |-> kind, node |-> n, by |-> p, as |-> as, status |-> "PENDING"]

Init ==
  /\ live = DOMAIN Standing
  /\ above = [n \in Branch |-> IF n \in DOMAIN Standing THEN Standing[n] ELSE {}]
  /\ public = live
  /\ owns = Seated /\ rights = Granted
  /\ sits = {} /\ belongs = Person /\ profiles = Person
  /\ placed = {} /\ requests = {}
  /\ job = [h \in Handler |-> Idle]
  /\ backups = Kept
-----------------------------------------------------------------------------
(* The central policy. *)

Owners(n) == {p \in Person : <<p, n>> \in owns}
Occupied(n) == \E p \in Person : <<p, n>> \in owns \cup sits
Children(n) == {c \in live : n \in above[c] /\ above[c] = above[n] \cup {n}}

\* An owner of the branch itself or of one above it.
Governs(p, n) == \E a \in above[n] \cup {n} : <<p, a>> \in owns
\* An owner of the layer above.
Over(p, n) == \E a \in above[n] : <<p, a>> \in owns
Holds(p, n, f) == \E a \in above[n] \cup {n} : <<p, a, f>> \in rights

can(p, action, n) ==
  CASE action \in {"manage_flags", "delete_role"} -> Over(p, n)
    [] action = "set_visibility" -> n # Root /\ Governs(p, n)
    [] action = "create_sub_role" -> Holds(p, n, "sub")
    [] action = "add_co_owner" -> Holds(p, n, "co") \/ Over(p, n)
    [] OTHER -> Governs(p, n)

canGrantCapability(p, n, f) == Over(p, n) \/ Holds(p, n, f)

\* The levels that keep a branch hidden whatever its own flag says.
HiddenAbove(n) == {a \in (above[n] \cap live) \ {Root} : a \notin public}

\* Mutant: the branch itself is what the decider must govern.
NoGate(chain, n) == n

\* Where a chain of hidden levels starts; the branch itself when there is none.
Topmost(chain, n) == IF chain = {} THEN n ELSE CHOOSE a \in chain : above[a] \cap chain = {}

\* Who handles content for a branch: the nearest level that has an owner.
IsHandler(p, n) ==
  \E a \in live \cap (above[n] \cup {n}) :
    /\ <<p, a>> \in owns
    /\ \A b \in live \cap (above[n] \cup {n}) : a \in above[b] => Owners(b) = {}

\* The course is on the branch, or on one above that hands it down.
Reached(n) == \E a \in live \cap (above[n] \cup {n}) : <<a, TRUE>> \in placed \/ <<n, FALSE>> \in placed

\* Mutant: an owner's seat is decided like a member's, by anyone who manages the branch.
MayDecideAnySeat(p, r) ==
  CASE r.kind = "DELETE_BRANCH" -> can(p, "delete_role", r.node)
    [] r.kind = "JOIN_BRANCH" -> can(p, "add_people", r.node)
    [] r.kind = "VISIBILITY" -> can(p, "add_people", Topmost(HiddenAbove(r.node), r.node))
    [] OTHER -> IsHandler(p, r.node)

\* May p decide request r?
MayDecide(p, r) ==
  CASE r.kind = "DELETE_BRANCH" -> can(p, "delete_role", r.node)
    [] r.kind = "JOIN_BRANCH" -> can(p, IF r.as = "OWNER" THEN "add_co_owner" ELSE "add_people", r.node)
    [] r.kind = "VISIBILITY" -> can(p, "add_people", Topmost(HiddenAbove(r.node), r.node))
    [] OTHER -> IsHandler(p, r.node)
-----------------------------------------------------------------------------
(* Handlers start by reading; `Take` gives one its work, `Done` ends it. *)

\* Pairs of handlers nothing in the code keeps apart, explored only with
\* "overlap": two removals from one branch, two decisions on one request.
Races(j, k) ==
  \/ j.do = "remove" /\ k.do = "remove" /\ j.node = k.node
  \/ {j.do, k.do} \subseteq {"decide", "join", "raze", "close"} /\ j.request = k.request

Take(h, j) ==
  /\ "overlap" \in Offered \/ \A k \in Handler : ~Races(j, job[k])
  /\ job' = [job EXCEPT ![h] = j]

Free(h, do) == job[h] = Idle /\ do \in Menu[h]
Then(h, j) == job' = [job EXCEPT ![h] = j]
Done(h) == job' = [job EXCEPT ![h] = Idle]

\* A call on a branch: the branch is there and the caller is in the organization.
Calls(p, n) == p \in Acting /\ n \in live /\ p \in belongs

\* POST /roles/:roleId/children
Fresh == {c \in Branch \ live : above[c] = {} /\ c # Root}     \* bound: branches ever made

CreateSubRole(h, p, n, shown) ==
  /\ Free(h, "create")
  /\ Calls(p, n) /\ can(p, "create_sub_role", n) /\ Fresh # {}
  /\ Take(h, [do |-> "create", node |-> n, shown |-> shown])
  /\ UNCHANGED <<tree, people, placed, requests, backups>>

\* The next role number and the row, in one transaction; numbers are never reused.
CreateCommit(h) ==
  /\ job[h].do = "create"
  /\ \E c \in Fresh :
       /\ live' = live \cup {c}
       /\ above' = [above EXCEPT ![c] = above[job[h].node] \cup {job[h].node}]
       /\ public' = IF job[h].shown THEN public \cup {c} ELSE public
  /\ Done(h)
  /\ UNCHANGED <<people, placed, requests, backups>>

\* POST /roles/:roleId/people
AddPerson(h, p, n, q, as, fs) ==
  /\ Free(h, "place")
  /\ Calls(p, n) /\ can(p, "add_people", n)
  /\ q \in profiles
  /\ as = "MEMBER" => <<q, n>> \notin sits
  /\ as = "OWNER" =>
       /\ can(p, "add_co_owner", n)
       /\ \A f \in fs : canGrantCapability(p, n, f)
       /\ <<q, n>> \notin owns
  /\ Take(h, [do |-> "place", node |-> n, who |-> q, as |-> as,
              flags |-> IF as = "OWNER" THEN fs ELSE {}])
  /\ UNCHANGED <<tree, people, placed, requests, backups>>

\* A placement already there keeps the flags it has.
Sit(q, n, as, fs) ==
  IF as = "MEMBER" THEN sits' = sits \cup {<<q, n>>} /\ UNCHANGED <<owns, rights>>
  ELSE /\ owns' = owns \cup {<<q, n>>}
       /\ rights' = IF <<q, n>> \in owns THEN rights ELSE rights \cup {<<q, n, f>> : f \in fs}
       /\ UNCHANGED sits

\* One transaction; the foreign keys refuse a branch or a profile that is gone.
placePerson(h) ==
  LET j == job[h] IN
  /\ j.do = "place"
  /\ IF j.node \in live /\ j.who \in profiles
       THEN belongs' = belongs \cup {j.who} /\ Sit(j.who, j.node, j.as, j.flags)
       ELSE UNCHANGED <<belongs, owns, rights, sits>>
  /\ Done(h)
  /\ UNCHANGED <<tree, profiles, placed, requests, backups>>

\* Mutant: the count that keeps the last owner takes in the branch's members.
RemovableAmongAll(p, n, q, as) ==
  IF as = "MEMBER" THEN <<q, n>> \in sits
  ELSE /\ <<q, n>> \in owns /\ can(p, "add_co_owner", n)
       /\ Cardinality(Owners(n)) + Cardinality({x \in sits : x[2] = n}) > 1

\* An owner goes only by someone who may appoint owners, and only beside another.
Removable(p, n, q, as) ==
  IF as = "MEMBER" THEN <<q, n>> \in sits
  ELSE <<q, n>> \in owns /\ can(p, "add_co_owner", n) /\ Cardinality(Owners(n)) > 1

\* DELETE /roles/:roleId/people/:profileId: of a person's two placements, either is found.
RemovePerson(h, p, n, q, as) ==
  /\ Free(h, "remove")
  /\ Calls(p, n) /\ can(p, "add_people", n)
  /\ Removable(p, n, q, as)
  /\ Take(h, [do |-> "remove", node |-> n, who |-> q, as |-> as, supreme |-> FALSE])
  /\ UNCHANGED <<tree, people, placed, requests, backups>>

\* DELETE /orgs/:id/owners/:profileId, with the Supreme password
RemoveOwner(h, q) ==
  /\ Free(h, "remove")
  /\ <<q, Root>> \in owns /\ Cardinality(Owners(Root)) > 1
  /\ Take(h, [do |-> "remove", node |-> Root, who |-> q, as |-> "OWNER", supreme |-> TRUE])
  /\ UNCHANGED <<tree, people, placed, requests, backups>>

\* The row goes; the delete of one already gone fails the call.  Only the role route
\* looks whether it was the person's last.
RemoveCommit(h) ==
  LET j == job[h]  at == <<j.who, j.node>> IN
  /\ j.do = "remove"
  /\ IF j.as = "MEMBER" THEN sits' = sits \ {at} /\ UNCHANGED <<owns, rights>>
     ELSE /\ owns' = owns \ {at}
          /\ rights' = {r \in rights : <<r[1], r[2]>> # at}
          /\ UNCHANGED sits
  /\ IF j.supreme \/ at \notin (IF j.as = "MEMBER" THEN sits ELSE owns) THEN Done(h) ELSE Then(h, [do |-> "leave", who |-> j.who])
  /\ UNCHANGED <<tree, belongs, profiles, placed, requests, backups>>

\* Mutant: the membership goes without a look at the person's other branches.
LeaveAtOnce(h) ==
  LET q == job[h].who IN
  /\ job[h].do = "leave"
  /\ belongs' = belongs \ {q}
  /\ Done(h)
  /\ UNCHANGED <<tree, owns, rights, sits, profiles, placed, requests, backups>>

\* Their last placement gone, the membership goes too.
Leave(h) ==
  LET q == job[h].who IN
  /\ job[h].do = "leave"
  /\ belongs' = IF \E n \in Branch : <<q, n>> \in owns \cup sits THEN belongs ELSE belongs \ {q}
  /\ Done(h)
  /\ UNCHANGED <<tree, owns, rights, sits, profiles, placed, requests, backups>>

\* POST /orgs/:id/owners, with the Supreme password: no plan limit is asked
AddOwner(q) ==
  /\ q \in profiles \ Acting /\ <<q, Root>> \notin owns
  /\ belongs' = belongs \cup {q}
  /\ owns' = owns \cup {<<q, Root>>}
  /\ rights' = rights \cup {<<q, Root, f>> : f \in Flag}
  /\ UNCHANGED <<tree, sits, profiles, placed, requests, job, backups>>

\* PATCH /roles/:roleId
SetVisibility(p, n, shown) ==
  /\ Calls(p, n) /\ can(p, "set_visibility", n)
  /\ public' = IF shown THEN public \cup {n} ELSE public \ {n}
  /\ UNCHANGED <<live, above, people, placed, requests, job, backups>>

\* PATCH /roles/:roleId/people/:profileId: one flag of an owner, on or off
SetFlag(p, n, q, f, on) ==
  /\ Calls(p, n) /\ can(p, "manage_flags", n)
  /\ on => canGrantCapability(p, n, f)
  /\ <<q, n>> \in owns
  /\ rights' = IF on THEN rights \cup {<<q, n, f>>} ELSE rights \ {<<q, n, f>>}
  /\ UNCHANGED <<tree, owns, sits, belongs, profiles, placed, requests, job, backups>>

\* An owner's profile may go between a removal's look at the other owners and its write.
KeepsRemovals(q) ==
  "overlap" \in Offered \/ ~\E h \in Handler : job[h].do = "remove" /\ <<q, job[h].node>> \in owns

\* DELETE /admin/users/:profileId, refused only to owners of a root, and DELETE /me, of a
\* person without memberships; requests stay.  One step: no acting person comes to own a root.
DeleteProfile(q) ==
  /\ q \in profiles \cap Acting /\ <<q, Root>> \notin owns /\ KeepsRemovals(q)
  /\ profiles' = profiles \ {q} /\ belongs' = belongs \ {q}
  /\ owns' = {o \in owns : o[1] # q} /\ sits' = {s \in sits : s[1] # q}
  /\ rights' = {r \in rights : r[1] # q}
  /\ UNCHANGED <<tree, placed, requests, job, backups>>

Empty(n) == Children(n) = {} /\ ~Occupied(n)

\* DELETE /roles/:roleId: the layer above, and only an empty branch
DeleteRole(h, p, n) ==
  /\ Free(h, "delete")
  /\ Calls(p, n) /\ n # Root /\ can(p, "delete_role", n) /\ Empty(n)
  /\ Take(h, [do |-> "delete", node |-> n])
  /\ UNCHANGED <<tree, people, placed, requests, backups>>

\* Its requests go with it.
DeleteRequests(h) ==
  /\ job[h].do = "delete"
  /\ requests' = {r \in requests : r.node # job[h].node}
  /\ Then(h, [do |-> "unroot", node |-> job[h].node])
  /\ UNCHANGED <<tree, people, placed, backups>>

\* The foreign key keeps a branch someone has been placed on meanwhile.
Uproot(n) ==
  IF Occupied(n) THEN UNCHANGED tree
  ELSE live' = live \ {n} /\ public' = public \ {n} /\ UNCHANGED above

DeleteCommit(h) ==
  /\ job[h].do = "unroot"
  /\ Uproot(job[h].node)
  /\ Done(h)
  /\ UNCHANGED <<people, placed, requests, backups>>
-----------------------------------------------------------------------------
(* Backups of one branch: whoever manages it takes them and puts them back. *)

\* POST /roles/:roleId/export-bkp
ExportBackup(p, n) ==
  /\ Calls(p, n) /\ can(p, "export_backup", n)
  /\ Cardinality(backups \ Kept) < MaxBackups
  /\ backups' = backups \cup
       {[node |-> n, below |-> Children(n), owns |-> {s \in owns : s[2] = n},
         sits |-> {s \in sits : s[2] = n}, rights |-> {r \in rights : r[2] = n}]}
  /\ UNCHANGED <<tree, people, placed, requests, job>>

\* POST /roles/:roleId/restore-bkp: only where the structure is what it was
RestoreBackup(h, p, b) ==
  /\ Free(h, "restore")
  /\ Calls(p, b.node) /\ can(p, "restore_backup", b.node) /\ Children(b.node) = b.below
  /\ Take(h, [do |-> "restore", backup |-> b])
  /\ UNCHANGED <<tree, people, placed, requests, backups>>

Surviving(rows) == {r \in rows : r[1] \in profiles}
Elsewhere(rows, n) == {r \in rows : r[2] # n}

\* Everyone on the branch goes and those of the backup come, with the flags they had, but
\* for the people whose profile is gone: one transaction, which the foreign key undoes
\* when the branch is gone.  A removal under way finds the row it read gone, and fails.
RestoreCommit(h) ==
  LET b == job[h].backup  n == b.node IN
  /\ job[h].do = "restore"
  /\ \/ /\ n \in live
        /\ owns' = Elsewhere(owns, n) \cup Surviving(b.owns)
        /\ sits' = Elsewhere(sits, n) \cup Surviving(b.sits)
        /\ rights' = Elsewhere(rights, n) \cup Surviving(b.rights)
        /\ belongs' = belongs \cup {r[1] : r \in Surviving(b.owns \cup b.sits)}
        /\ job' = [k \in Handler |-> IF k = h \/ (job[k].do = "remove" /\ job[k].node = n) THEN Idle ELSE job[k]]
     \/ n \notin live /\ UNCHANGED <<owns, sits, rights, belongs>> /\ Done(h)
  /\ UNCHANGED <<tree, profiles, placed, requests, backups>>
-----------------------------------------------------------------------------
(* Requests. *)

OnBranch(p, n) == <<p, n>> \in owns \cup sits

\* What each kind asks of the branch and of the one who files.
MayFile(p, kind, n) ==
  CASE kind = "COURSE_ASSIGN" -> (OnBranch(p, n) \/ can(p, "create_content", n)) /\ ~Reached(n)
    [] kind = "JOIN_BRANCH" -> n \in public /\ HiddenAbove(n) = {} /\ ~OnBranch(p, n)
    [] kind = "VISIBILITY" -> n # Root /\ <<p, n>> \in owns /\ HiddenAbove(n) # {}
    [] OTHER -> n # Root /\ <<p, n>> \in owns

\* POST /orgs/:id/requests
FileRequest(h, p, kind, n, as) ==
  /\ Free(h, "file")
  /\ Calls(p, n) /\ MayFile(p, kind, n)
  /\ kind # "JOIN_BRANCH" => as = "MEMBER"
  /\ ~\E r \in requests : r.kind = kind /\ r.by = p /\ r.node = n /\ r.status = "PENDING"
  /\ Take(h, [do |-> "file", node |-> n, request |-> Request(kind, n, p, as),
              auto |-> kind = "COURSE_ASSIGN" /\ can(p, "create_content", n)])
  /\ UNCHANGED <<tree, people, placed, requests, backups>>

\* An owner's own course request is placed at once and leaves no row.
FileCommit(h) ==
  LET j == job[h] IN
  /\ j.do = "file"
  /\ \/ j.auto /\ UNCHANGED requests
        /\ placed' = IF <<j.node, TRUE>> \in placed THEN placed ELSE placed \cup {<<j.node, FALSE>>}
     \/ /\ ~j.auto /\ UNCHANGED placed
        /\ requests' = requests \cup {j.request}
        /\ Cardinality(requests') <= MaxRequests
  /\ Done(h)
  /\ UNCHANGED <<tree, people, backups>>

\* POST /requests/:requestId/decide.  A refusal has nothing to carry out.
DecideRequest(h, p, r, approve) ==
  /\ Free(h, "decide")
  /\ r.status = "PENDING" /\ r.node \in live
  /\ MayDecide(p, r)
  /\ \/ /\ approve
        /\ Take(h, [do |-> "decide", request |-> r, by |-> p,
                    open |-> IF r.kind = "VISIBILITY" THEN HiddenAbove(r.node) \cup {r.node} ELSE {}])
     \/ ~approve /\ Take(h, [do |-> "close", request |-> r])
  /\ UNCHANGED <<tree, people, placed, requests, backups>>

Deciding(h, kind) == job[h].do = "decide" /\ job[h].request.kind = kind

\* What is left of a decision, by the step it is at.
Rest(h, do) == Then(h, [do |-> do, request |-> job[h].request])

\* The membership first, the seat after: the two are not one transaction.
ApproveJoin(h) ==
  LET r == job[h].request IN
  /\ Deciding(h, "JOIN_BRANCH")
  /\ \/ r.by \notin profiles /\ UNCHANGED belongs /\ Done(h)
     \/ /\ r.by \in profiles
        /\ <<r.by, r.node>> \notin (IF r.as = "OWNER" THEN owns ELSE sits)
        /\ belongs' = belongs \cup {r.by} /\ Rest(h, "join")
     \/ /\ <<r.by, r.node>> \in (IF r.as = "OWNER" THEN owns ELSE sits)
        /\ UNCHANGED belongs /\ Rest(h, "close")
  /\ UNCHANGED <<tree, owns, rights, sits, profiles, placed, requests, backups>>

\* A sub-owner joins with no delegation rights.  The call fails where the branch or the
\* membership has gone meanwhile, or the seat has been given to them.
JoinCommit(h) ==
  LET r == job[h].request  seats == IF r.as = "OWNER" THEN owns ELSE sits IN
  /\ job[h].do = "join"
  /\ IF r.node \in live /\ r.by \in belongs /\ <<r.by, r.node>> \notin seats
       THEN Sit(r.by, r.node, r.as, {}) /\ Rest(h, "close")
       ELSE UNCHANGED <<owns, rights, sits>> /\ Done(h)
  /\ UNCHANGED <<tree, belongs, profiles, placed, requests, backups>>

\* Every hidden level above opens with the branch itself.
ApproveVisibility(h) ==
  /\ Deciding(h, "VISIBILITY")
  /\ public' = public \cup (job[h].open \cap live)
  /\ Rest(h, "close")
  /\ UNCHANGED <<live, above, people, placed, requests, backups>>

\* A branch that is not empty sends the decision back; the others' requests for it are
\* rejected, not deleted.
ApproveDelete(h) ==
  LET n == job[h].request.node IN
  /\ Deciding(h, "DELETE_BRANCH")
  /\ \/ ~Empty(n) /\ Done(h) /\ UNCHANGED requests
     \/ /\ Empty(n) /\ Rest(h, "raze")
        /\ requests' = {IF r.node = n /\ r # job[h].request THEN [r EXCEPT !.status = "REJECTED"] ELSE r : r \in requests}
  /\ UNCHANGED <<tree, people, placed, backups>>

RazeCommit(h) ==
  LET n == job[h].request.node IN
  /\ job[h].do = "raze"
  /\ Uproot(n)
  /\ IF n \notin live' THEN Rest(h, "close") ELSE Done(h)
  /\ UNCHANGED <<people, placed, requests, backups>>

\* The approver's settings replace those of a placement already there.
ApproveCourse(h) ==
  LET n == job[h].request.node IN
  /\ Deciding(h, "COURSE_ASSIGN")
  /\ \E inherit \in BOOLEAN : placed' = (placed \ ({n} \X BOOLEAN)) \cup {<<n, inherit>>}
  /\ Rest(h, "close")
  /\ UNCHANGED <<tree, people, requests, backups>>

\* The requester is told and the row goes.
CloseRequest(h) ==
  /\ job[h].do = "close"
  /\ requests' = requests \ {job[h].request}
  /\ Done(h)
  /\ UNCHANGED <<tree, people, placed, backups>>

\* DELETE /requests/:requestId: the one who filed it, whoever may decide it, or any
\* owner when its branch is gone
ClearRequest(p, r) ==
  /\ p \in profiles
  /\ \/ r.by = p
     \/ r.node \in live /\ MayDecide(p, r)
     \/ r.node \notin live /\ \E n \in Branch : <<p, n>> \in owns
  /\ requests' = requests \ {r}
  /\ UNCHANGED <<tree, people, placed, job, backups>>
-----------------------------------------------------------------------------
Work(h) ==
  \/ CreateCommit(h) \/ placePerson(h) \/ RemoveCommit(h) \/ Leave(h)
  \/ DeleteRequests(h) \/ DeleteCommit(h)
  \/ FileCommit(h) \/ ApproveJoin(h) \/ JoinCommit(h) \/ ApproveVisibility(h)
  \/ ApproveDelete(h) \/ RazeCommit(h) \/ ApproveCourse(h) \/ CloseRequest(h)

Call(h, p) ==
  /\ job[h] = Idle
  /\ \/ \E n \in live :
          \/ \E shown \in BOOLEAN : CreateSubRole(h, p, n, shown)
          \/ DeleteRole(h, p, n)
          \/ \E q \in Newcomers \cap Acting, as \in Seat :
               RemovePerson(h, p, n, q, as) \/ \E fs \in Grants : AddPerson(h, p, n, q, as, fs)
     \/ \E a \in Asked, as \in Seat :
          /\ a[1] = "JOIN_BRANCH" => p \in Newcomers
          /\ FileRequest(h, p, a[1], a[2], as)
     \/ \E r \in requests, approve \in BOOLEAN : DecideRequest(h, p, r, approve)

AtOnce(p) ==
  \/ \E n \in live, shown \in BOOLEAN : SetVisibility(p, n, shown)
  \/ \E n \in live, q \in Newcomers, f \in UNION Grants, on \in BOOLEAN : SetFlag(p, n, q, f, on)
  \/ \E r \in requests : ClearRequest(p, r)

Next ==
  \/ \E h \in Handler : Work(h) \/ RestoreCommit(h)
  \/ \E h \in Handler, p \in Acting : Call(h, p) \/ \E b \in backups : RestoreBackup(h, p, b)
  \/ \E p \in Acting : AtOnce(p) \/ \E n \in Backed : ExportBackup(p, n)
  \/ \E q \in Newcomers : AddOwner(q) \/ DeleteProfile(q) \/ \E h \in Handler : RemoveOwner(h, q)

Spec == Init /\ [][Next]_vars
-----------------------------------------------------------------------------
(* Properties. *)

\* Type invariant.  Also: a flag belongs to an owner, a placement to a member, and a
\* branch that is gone has nobody on it.
TypeOK ==
  /\ Root \in live /\ live \subseteq Branch /\ public \subseteq live
  /\ above \in [Branch -> SUBSET Branch]
  /\ owns \cup sits \subseteq belongs \X live
  /\ \A r \in rights : r[3] \in Flag /\ <<r[1], r[2]>> \in owns
  /\ belongs \subseteq profiles /\ profiles \subseteq Person
  /\ placed \subseteq Branch \X BOOLEAN
  /\ \A x, y \in placed : x[1] = y[1] => x = y
  /\ \A r \in requests : r \in [kind : Kind, node : Branch, by : Person, as : Seat, status : {"PENDING", "REJECTED"}]
  /\ \A b \in backups : BackupOK(b)

\* The branches whose owners nobody among the acting people may choose: none of them
\* starts above it or with the right to appoint co-owners there.  The root's are chosen
\* with the Supreme password.
ChosenAtStart ==
  {n \in DOMAIN Standing : \A p \in Acting, a \in Standing[n] \cup {n} :
     /\ a # n \/ n = Root => <<p, a>> \notin Seated
     /\ <<p, a, "co">> \notin Granted}

\* Those of them with no backup older than the start, of the branch or of one above it.
ChosenAbove == {n \in ChosenAtStart : \A b \in Kept : b.node \notin Standing[n] \cup {n}}

\* Authority only flows down (I3, I6): whatever the acting people create, grant each other
\* on branches beneath, ask for, approve among themselves, back up and put back, such a
\* branch keeps the owners and the flags the layer above gave it, but for the profiles
\* that are deleted.
AuthorityFromAbove ==
  \A p \in Acting, n \in ChosenAbove :
    /\ <<p, n>> \in owns <=> <<p, n>> \in Seated /\ p \in profiles
    /\ \A f \in Flag : <<p, n, f>> \in rights <=> <<p, n, f>> \in Granted /\ p \in profiles

\* Approving one branch's visibility opens hidden levels above it too: only a decider who
\* governs every one of them is let to, at the moment the handler looks.
OpensOnlyGoverned ==
  [][\A h \in Handler : job'[h].do = "decide" /\ job[h] = Idle
        => \A n \in job'[h].open : Governs(job'[h].by, n)]_job

\* Handler h puts back a backup of n in which nobody who still has a profile owns it.
RestoresOwnerless(h, n) ==
  /\ job[h].do = "restore" /\ job[h].backup.node = n /\ job'[h] = Idle
  /\ Surviving(job[h].backup.owns) = {}

\* A branch that has an owner keeps one while it exists (I2), across removals by the role
\* route and the Supreme route, people who hold two placements, joins, deletions and
\* restored backups.  Two things take the last owner: a profile that is deleted takes its
\* seats along, and a backup without owners left is put back as it is.
OwnedStaysOwned ==
  [][\A n \in live \cap live' : Owners(n) # {} =>
       \/ Owners(n)' # {}
       \/ \E q \in profiles \ profiles' : q \in Owners(n)
       \/ \E h \in Handler : RestoresOwnerless(h, n)]_owns

\* I2 as it is written, but for deleted profiles: no restored backup leaves a branch
\* without owner.
RestoredStaysOwned ==
  [][\A n \in live \cap live' : Owners(n) # {} =>
       Owners(n)' # {} \/ \E q \in profiles \ profiles' : q \in Owners(n)]_owns

\* What an older backup holds is not given back: where nobody acting may appoint owners,
\* a flag is one the layer above left.  (restore-bkp)
DemotionStands ==
  \A p \in Acting, n \in ChosenAtStart, f \in Flag : <<p, n, f>> \in rights => <<p, n, f>> \in Granted
=============================================================================
