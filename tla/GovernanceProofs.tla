--------------------------- MODULE GovernanceProofs --------------------------
(* What Governance promises for every tree of branches, every set of people  *)
(* and handlers, and every menu of calls.                                    *)
EXTENDS Governance, FiniteSetTheorems, WellFoundedInduction, TLAPS

-----------------------------------------------------------------------------
(* Types.  What a handler has read is of its kind, and nobody deletes the     *)
(* root.                                                                   *)

Row == [kind : Kind, node : Branch, by : Person, as : Seat, status : {"PENDING", "REJECTED"}]

\* A request that may be on file: nobody asks for the root to be deleted.
Filed(r) == r \in Row /\ (r.kind = "DELETE_BRANCH" => r.node # Root)

JobOK(j) ==
  /\ j.do = "create" => j.node \in Branch
  /\ j.do = "place" => /\ j.node \in Branch /\ j.who \in Person /\ j.as \in Seat
                       /\ j.flags \subseteq Flag
  /\ j.do = "remove" => j.node \in Branch /\ j.who \in Person /\ j.as \in Seat
  /\ j.do = "leave" => j.who \in Person
  /\ j.do \in {"delete", "unroot"} => j.node \in Branch \ {Root}
  /\ j.do = "file" => j.node \in Branch /\ Filed(j.request)
  /\ j.do \in {"decide", "join", "raze", "close"} => Filed(j.request)
  /\ j.do = "join" => j.request.kind = "JOIN_BRANCH"
  /\ j.do = "raze" => j.request.kind = "DELETE_BRANCH"

JobsTyped == job = [h \in Handler |-> job[h]] /\ \A h \in Handler : JobOK(job[h])
RequestsTyped == \A r \in requests : Filed(r)
TreeTyped ==
  /\ Root \in live /\ live \subseteq Branch /\ public \subseteq live
  /\ above \in [Branch -> SUBSET Branch]
SeatsTyped ==
  /\ owns \subseteq belongs \X live /\ sits \subseteq belongs \X live
  /\ belongs \subseteq profiles /\ profiles \subseteq Person
FlagsTyped == \A r \in rights : r[3] \in Flag /\ <<r[1], r[2]>> \in owns
PlacedTyped ==
  placed \subseteq Branch \X BOOLEAN /\ \A x \in placed, y \in placed : x[1] = y[1] => x = y

\* Backup files are what the export writes, and one is put back from a file that is there.
Files ==
  /\ \A b \in backups : BackupOK(b)
  /\ \A h \in Handler : job[h].do = "restore" => job[h].backup \in backups

Typed ==
  /\ JobsTyped /\ RequestsTyped /\ TreeTyped /\ SeatsTyped /\ FlagsTyped /\ PlacedTyped

LEMMA TypedIsTypeOK == Typed /\ Files => TypeOK
  BY DEF Typed, Files, TypeOK, JobsTyped, RequestsTyped, TreeTyped, SeatsTyped, FlagsTyped, PlacedTyped,
         Filed, Row

LEMMA JobUpdate ==
  ASSUME JobsTyped, NEW h \in Handler, NEW j, JobOK(j), job' = [job EXCEPT ![h] = j]
  PROVE  JobsTyped' /\ job'[h] = j /\ \A k \in Handler \ {h} : job'[k] = job[k]
<1>1. /\ job' = [k \in Handler |-> job'[k]] /\ job'[h] = j
      /\ \A k \in Handler \ {h} : job'[k] = job[k]
  BY DEF JobsTyped
<1>2. \A k \in Handler : JobOK(job'[k])
  BY <1>1 DEF JobsTyped
<1>3. QED
  BY <1>1, <1>2 DEF JobsTyped

LEMMA DoneUpdate ==
  ASSUME JobsTyped, NEW h \in Handler, Done(h)
  PROVE  JobsTyped' /\ job'[h] = Idle /\ \A k \in Handler \ {h} : job'[k] = job[k]
<1>1. JobOK(Idle)
  BY DEF JobOK, Idle
<1>2. QED
  BY <1>1, JobUpdate DEF Done

\* The next step of a decision.
LEMMA RestUpdate ==
  ASSUME JobsTyped, NEW h \in Handler, NEW do \in {"join", "raze", "close"}, Rest(h, do),
         Filed(job[h].request),
         do = "join" => job[h].request.kind = "JOIN_BRANCH",
         do = "raze" => job[h].request.kind = "DELETE_BRANCH"
  PROVE  /\ JobsTyped' /\ \A k \in Handler \ {h} : job'[k] = job[k]
         /\ job'[h] = [do |-> do, request |-> job[h].request]
<1>1. JobOK([do |-> do, request |-> job[h].request])
  BY DEF JobOK
<1>2. QED
  BY <1>1, JobUpdate DEF Rest, Then

LEMMA SitTyped ==
  ASSUME SeatsTyped, FlagsTyped, NEW q, NEW n \in live, NEW as, NEW fs \in SUBSET Flag,
         Sit(q, n, as, fs), belongs' = belongs \cup {q}, q \in profiles,
         UNCHANGED <<live, profiles>>
  PROVE  SeatsTyped' /\ FlagsTyped'
<1>1. /\ owns \subseteq owns' /\ owns' \subseteq owns \cup {<<q, n>>}
      /\ sits' \subseteq sits \cup {<<q, n>>}
  BY DEF Sit
<1>2. SeatsTyped'
  BY <1>1 DEF SeatsTyped
<1>3. \A r \in rights' : r \in rights \/ \E f \in fs : r = <<q, n, f>> /\ <<q, n>> \in owns'
  BY DEF Sit
<1>4. ASSUME NEW r \in rights' PROVE r[3] \in Flag /\ <<r[1], r[2]>> \in owns'
  <2>1. CASE r \in rights
    BY <1>1, <2>1 DEF FlagsTyped
  <2>2. CASE r \notin rights
    <3>1. PICK f \in fs : r = <<q, n, f>> /\ <<q, n>> \in owns'
      BY <1>3, <2>2
    <3>2. r[1] = q /\ r[2] = n /\ r[3] = f
      BY <3>1
    <3>3. QED
      BY <3>1, <3>2
  <2>3. QED
    BY <2>1, <2>2
<1>5. QED
  BY <1>2, <1>4 DEF FlagsTyped

LEMMA UprootTyped ==
  ASSUME TreeTyped, SeatsTyped, NEW n \in Branch \ {Root}, Uproot(n),
         UNCHANGED <<owns, sits, belongs, profiles>>
  PROVE  TreeTyped' /\ SeatsTyped'
<1>1. CASE Occupied(n)
  BY <1>1 DEF Uproot, tree, TreeTyped, SeatsTyped
<1>2. CASE ~Occupied(n)
  <2>1. live' = live \ {n} /\ public' = public \ {n} /\ above' = above
    BY <1>2 DEF Uproot
  <2>2. \A p \in Person : <<p, n>> \notin owns \cup sits
    BY <1>2 DEF Occupied
  <2>3. owns \subseteq belongs \X live' /\ sits \subseteq belongs \X live'
    BY <2>1, <2>2 DEF SeatsTyped
  <2>4. QED
    BY <2>1, <2>3 DEF TreeTyped, SeatsTyped
<1>3. QED
  BY <1>1, <1>2

LEMMA InitTyped == Init => Typed
<1> SUFFICES ASSUME Init PROVE Typed
  OBVIOUS
<1>1. JobsTyped
  BY DEF Init, JobsTyped, JobOK, Idle
<1>2. RequestsTyped /\ PlacedTyped
  BY DEF Init, RequestsTyped, PlacedTyped
<1>3. TreeTyped
  <2>1. \A n \in DOMAIN Standing : Standing[n] \subseteq Branch
    BY StandingAssumption
  <2>2. QED
    BY <2>1, StandingAssumption DEF Init, TreeTyped
<1>4. SeatsTyped /\ FlagsTyped
  BY StandingAssumption DEF Init, SeatsTyped, FlagsTyped
<1>5. QED
  BY <1>1, <1>2, <1>3, <1>4 DEF Typed

\* A call that takes up work, and what it may be given to do.
LEMMA TakeUpdate ==
  ASSUME JobsTyped, NEW h \in Handler, NEW j, JobOK(j), Take(h, j)
  PROVE  JobsTyped' /\ job'[h] = j /\ \A k \in Handler \ {h} : job'[k] = job[k]
  BY JobUpdate DEF Take

LEMMA UntouchedTyped ==
  ASSUME Typed, UNCHANGED <<tree, people, placed, requests>>, JobsTyped'
  PROVE  Typed'
  BY DEF Typed, tree, people, RequestsTyped, TreeTyped, SeatsTyped, FlagsTyped, PlacedTyped

LEMMA CallTyped ==
  ASSUME Typed, NEW h \in Handler, NEW p \in Acting, Call(h, p)
  PROVE  Typed'
<1>1. JobsTyped /\ TreeTyped /\ SeatsTyped /\ RequestsTyped
  BY DEF Typed
<1> USE <1>1
<1>2. ASSUME NEW n \in live, NEW shown \in BOOLEAN, CreateSubRole(h, p, n, shown) PROVE Typed'
  <2>1. JobOK([do |-> "create", node |-> n, shown |-> shown])
    BY DEF JobOK, TreeTyped
  <2>2. QED
    BY <1>2, <2>1, TakeUpdate, UntouchedTyped DEF CreateSubRole
<1>3. ASSUME NEW n \in live, DeleteRole(h, p, n) PROVE Typed'
  <2>1. JobOK([do |-> "delete", node |-> n])
    BY <1>3 DEF JobOK, TreeTyped, DeleteRole
  <2>2. QED
    BY <1>3, <2>1, TakeUpdate, UntouchedTyped DEF DeleteRole
<1>4. ASSUME NEW n \in live, NEW q \in Acting, NEW as \in Seat, RemovePerson(h, p, n, q, as)
      PROVE  Typed'
  <2>1. JobOK([do |-> "remove", node |-> n, who |-> q, as |-> as, supreme |-> FALSE])
    BY StandingAssumption DEF JobOK, TreeTyped
  <2>2. QED
    BY <1>4, <2>1, TakeUpdate, UntouchedTyped DEF RemovePerson
<1>5. ASSUME NEW n \in live, NEW q \in Acting, NEW as \in Seat, NEW fs \in Grants,
             AddPerson(h, p, n, q, as, fs)
      PROVE  Typed'
  <2> DEFINE flags == IF as = "OWNER" THEN fs ELSE {}
  <2>1. flags \subseteq Flag
    BY StandingAssumption
  <2> HIDE DEF flags
  <2>2. JobOK([do |-> "place", node |-> n, who |-> q, as |-> as, flags |-> flags])
    BY <2>1, StandingAssumption DEF JobOK, TreeTyped
  <2>3. Take(h, [do |-> "place", node |-> n, who |-> q, as |-> as, flags |-> flags])
    BY <1>5 DEF AddPerson, flags
  <2>4. QED
    BY <1>5, <2>2, <2>3, TakeUpdate, UntouchedTyped DEF AddPerson
<1>6. ASSUME NEW a \in Asked, NEW as \in Seat, FileRequest(h, p, a[1], a[2], as) PROVE Typed'
  <2> DEFINE kind == a[1]
             n == a[2]
             r == Request(kind, n, p, as)
             auto == kind = "COURSE_ASSIGN" /\ can(p, "create_content", n)
             j == [do |-> "file", node |-> n, request |-> r, auto |-> auto]
  <2>1. kind \in Kind /\ n \in Branch
    BY StandingAssumption
  <2>2. kind = "DELETE_BRANCH" => n # Root
    BY <1>6 DEF FileRequest, MayFile
  <2>3. Filed(r)
    BY <2>1, <2>2, StandingAssumption DEF Filed, Row, Request
  <2>4. Take(h, j) /\ UNCHANGED <<tree, people, placed, requests>>
    BY <1>6 DEF FileRequest
  <2> HIDE DEF r, auto, n
  <2>5. JobOK(j)
    BY <2>1, <2>3 DEF JobOK
  <2> HIDE DEF j
  <2>6. QED
    BY <2>4, <2>5, TakeUpdate, UntouchedTyped
<1>7. ASSUME NEW r \in requests, NEW approve \in BOOLEAN, DecideRequest(h, p, r, approve)
      PROVE  Typed'
  <2> DEFINE open == IF r.kind = "VISIBILITY" THEN HiddenAbove(r.node) \cup {r.node} ELSE {}
             j == IF approve THEN [do |-> "decide", request |-> r, by |-> p, open |-> open]
                             ELSE [do |-> "close", request |-> r]
  <2>1. Filed(r)
    BY DEF RequestsTyped
  <2>2. Take(h, j) /\ UNCHANGED <<tree, people, placed, requests>>
    BY <1>7 DEF DecideRequest
  <2> HIDE DEF open
  <2>3. JobOK(j)
    BY <2>1 DEF JobOK
  <2> HIDE DEF j
  <2>4. QED
    BY <2>2, <2>3, TakeUpdate, UntouchedTyped
<1>8. QED
  BY <1>2, <1>3, <1>4, <1>5, <1>6, <1>7 DEF Call

LEMMA WorkTyped ==
  ASSUME Typed, NEW h \in Handler, Work(h)
  PROVE  Typed'
<1>1. JobsTyped /\ RequestsTyped /\ TreeTyped /\ SeatsTyped /\ FlagsTyped /\ PlacedTyped
  BY DEF Typed
<1>2. JobOK(job[h])
  BY <1>1 DEF JobsTyped
<1> USE <1>1
<1>3. CASE CreateCommit(h)
  <2>1. job[h].node \in Branch /\ JobsTyped'
    BY <1>2, <1>3, DoneUpdate DEF CreateCommit, JobOK
  <2>2. PICK c \in Fresh :
          /\ live' = live \cup {c}
          /\ above' = [above EXCEPT ![c] = above[job[h].node] \cup {job[h].node}]
          /\ public' = IF job[h].shown THEN public \cup {c} ELSE public
    BY <1>3 DEF CreateCommit
  <2>3. TreeTyped'
    BY <2>1, <2>2 DEF TreeTyped, Fresh
  <2>4. SeatsTyped'
    BY <1>3, <2>2 DEF CreateCommit, people, SeatsTyped
  <2>5. QED
    BY <1>3, <2>1, <2>3, <2>4 DEF CreateCommit, people, Typed, RequestsTyped, FlagsTyped, PlacedTyped
<1>4. CASE placePerson(h)
  <2>1. /\ job[h].node \in Branch /\ job[h].flags \in SUBSET Flag /\ JobsTyped'
        /\ UNCHANGED <<live, above, public, profiles, placed, requests>>
    BY <1>2, <1>4, DoneUpdate DEF placePerson, JobOK, tree
  <2>2. SeatsTyped' /\ FlagsTyped'
    <3>1. CASE job[h].node \in live /\ job[h].who \in profiles
      BY <1>4, <2>1, <3>1, SitTyped DEF placePerson
    <3>2. CASE ~(job[h].node \in live /\ job[h].who \in profiles)
      BY <1>4, <2>1, <3>2 DEF placePerson, SeatsTyped, FlagsTyped
    <3>3. QED
      BY <3>1, <3>2
  <2>3. QED
    BY <2>1, <2>2 DEF Typed, RequestsTyped, TreeTyped, PlacedTyped
<1>5. CASE RemoveCommit(h)
  <2> DEFINE at == <<job[h].who, job[h].node>>
  <2>1. JobsTyped'
    <3>1. job[h].who \in Person
      BY <1>2, <1>5 DEF RemoveCommit, JobOK
    <3>2. JobOK([do |-> "leave", who |-> job[h].who])
      BY <3>1 DEF JobOK
    <3>3. QED
      BY <1>5, <3>2, DoneUpdate, JobUpdate DEF RemoveCommit, Then
  <2>2. SeatsTyped'
    BY <1>5 DEF RemoveCommit, SeatsTyped, tree
  <2>3. FlagsTyped'
    <3>1. CASE owns' = owns /\ rights' = rights
      BY <3>1 DEF FlagsTyped
    <3>2. CASE owns' = owns \ {at} /\ rights' = {r \in rights : <<r[1], r[2]>> # at}
      BY <3>2 DEF FlagsTyped
    <3>3. QED
      BY <1>5, <3>1, <3>2 DEF RemoveCommit
  <2>4. QED
    BY <1>5, <2>1, <2>2, <2>3 DEF RemoveCommit, tree, Typed, RequestsTyped, TreeTyped, PlacedTyped
<1>6. CASE Leave(h)
  <2>1. belongs' \subseteq belongs /\ owns \subseteq belongs' \X live /\ sits \subseteq belongs' \X live
    <3>1. CASE belongs' = belongs
      BY <3>1 DEF SeatsTyped
    <3>2. CASE belongs' = belongs \ {job[h].who} /\ ~\E n \in Branch : <<job[h].who, n>> \in owns \cup sits
      <4>1. \A n \in live : <<job[h].who, n>> \notin owns /\ <<job[h].who, n>> \notin sits
        BY <3>2 DEF TreeTyped
      <4>2. QED
        BY <3>2, <4>1 DEF SeatsTyped
    <3>3. QED
      BY <1>6, <3>1, <3>2 DEF Leave
  <2>2. SeatsTyped'
    BY <1>6, <2>1 DEF Leave, SeatsTyped, tree
  <2>3. QED
    BY <1>6, <2>2, DoneUpdate
    DEF Leave, tree, Typed, RequestsTyped, TreeTyped, PlacedTyped, FlagsTyped
<1>7. CASE DeleteRequests(h)
  <2>1. JobOK([do |-> "unroot", node |-> job[h].node])
    BY <1>2, <1>7 DEF DeleteRequests, JobOK
  <2>2. JobsTyped'
    BY <1>7, <2>1, JobUpdate DEF DeleteRequests, Then
  <2>3. RequestsTyped'
    BY <1>7 DEF DeleteRequests, RequestsTyped
  <2>4. QED
    BY <1>7, <2>2, <2>3
    DEF DeleteRequests, tree, people, Typed, TreeTyped, SeatsTyped, FlagsTyped, PlacedTyped
<1>8. CASE DeleteCommit(h)
  <2>1. job[h].node \in Branch \ {Root}
    BY <1>2, <1>8 DEF DeleteCommit, JobOK
  <2>2. TreeTyped' /\ SeatsTyped'
    BY <1>8, <2>1, UprootTyped DEF DeleteCommit, people
  <2>3. QED
    BY <1>8, <2>2, DoneUpdate DEF DeleteCommit, people, Typed, RequestsTyped, FlagsTyped, PlacedTyped
<1>9. CASE FileCommit(h)
  <2>1. job[h].node \in Branch /\ Filed(job[h].request)
    BY <1>2, <1>9 DEF FileCommit, JobOK
  <2>2. RequestsTyped'
    BY <1>9, <2>1 DEF FileCommit, RequestsTyped
  <2>3. PlacedTyped'
    <3>1. CASE placed' = placed
      BY <3>1 DEF PlacedTyped
    <3>2. CASE placed' = placed \cup {<<job[h].node, FALSE>>} /\ <<job[h].node, TRUE>> \notin placed
      <4>1. placed \subseteq Branch \X BOOLEAN /\ \A x \in placed, y \in placed : x[1] = y[1] => x = y
        BY DEF PlacedTyped
      <4>2. ASSUME NEW y \in placed, y[1] = job[h].node PROVE y = <<job[h].node, FALSE>>
        <5>1. y = <<y[1], y[2]>> /\ y[2] \in BOOLEAN
          BY <4>1
        <5>2. y[2] # TRUE
          BY <3>2, <4>2, <5>1
        <5>3. QED
          BY <4>2, <5>1, <5>2
      <4> DEFINE new == <<job[h].node, FALSE>>
      <4>3. new \in Branch \X BOOLEAN /\ new[1] = job[h].node
        BY <2>1
      <4>4. placed' = placed \cup {new} /\ \A y \in placed : y[1] = job[h].node => y = new
        BY <3>2, <4>2
      <4> HIDE DEF new
      <4>5. QED
        BY <4>1, <4>3, <4>4 DEF PlacedTyped
    <3>3. QED
      BY <1>9, <3>1, <3>2 DEF FileCommit
  <2>4. QED
    BY <1>9, <2>2, <2>3, DoneUpdate
    DEF FileCommit, tree, people, Typed, TreeTyped, SeatsTyped, FlagsTyped
<1>10. CASE ApproveJoin(h)
  <2>1. Filed(job[h].request) /\ job[h].request.kind = "JOIN_BRANCH"
    BY <1>2, <1>10 DEF ApproveJoin, Deciding, JobOK
  <2>2. JobsTyped'
    BY <1>10, <2>1, DoneUpdate, RestUpdate DEF ApproveJoin
  <2>3. SeatsTyped'
    BY <1>10 DEF ApproveJoin, SeatsTyped, tree
  <2>4. QED
    BY <1>10, <2>2, <2>3
    DEF ApproveJoin, tree, Typed, RequestsTyped, TreeTyped, PlacedTyped, FlagsTyped
<1>11. CASE JoinCommit(h)
  <2>1. Filed(job[h].request) /\ job[h].request.kind = "JOIN_BRANCH"
    BY <1>2, <1>11 DEF JoinCommit, JobOK
  <2>2. JobsTyped'
    BY <1>11, <2>1, DoneUpdate, RestUpdate DEF JoinCommit
  <2>3. SeatsTyped' /\ FlagsTyped'
    <3>1. CASE UNCHANGED <<owns, rights, sits>>
      BY <1>11, <3>1 DEF JoinCommit, SeatsTyped, FlagsTyped, tree
    <3>2. CASE /\ job[h].request.node \in live /\ job[h].request.by \in belongs
               /\ Sit(job[h].request.by, job[h].request.node, job[h].request.as, {})
      <4>1. job[h].request.by \in profiles /\ belongs' = belongs \cup {job[h].request.by}
        BY <1>11, <3>2 DEF JoinCommit, SeatsTyped
      <4>2. UNCHANGED <<live, profiles>>
        BY <1>11 DEF JoinCommit, tree
      <4>3. {} \in SUBSET Flag
        OBVIOUS
      <4>4. QED
        BY <3>2, <4>1, <4>2, <4>3, SitTyped
    <3>3. QED
      BY <1>11, <3>1, <3>2 DEF JoinCommit
  <2>4. QED
    BY <1>11, <2>2, <2>3 DEF JoinCommit, tree, Typed, RequestsTyped, TreeTyped, PlacedTyped
<1>12. CASE ApproveVisibility(h)
  <2>1. Filed(job[h].request)
    BY <1>2, <1>12 DEF ApproveVisibility, Deciding, JobOK
  <2>2. JobsTyped'
    BY <1>12, <2>1, RestUpdate DEF ApproveVisibility
  <2>3. TreeTyped'
    BY <1>12 DEF ApproveVisibility, TreeTyped
  <2>4. QED
    BY <1>12, <2>2, <2>3
    DEF ApproveVisibility, people, Typed, RequestsTyped, SeatsTyped, PlacedTyped, FlagsTyped
<1>13. CASE ApproveDelete(h)
  <2>1. Filed(job[h].request) /\ job[h].request.kind = "DELETE_BRANCH"
    BY <1>2, <1>13 DEF ApproveDelete, Deciding, JobOK
  <2>2. JobsTyped'
    BY <1>13, <2>1, DoneUpdate, RestUpdate DEF ApproveDelete
  <2>3. \A r \in requests : Filed([r EXCEPT !.status = "REJECTED"])
    BY DEF RequestsTyped, Filed, Row
  <2>4. RequestsTyped'
    BY <1>13, <2>3 DEF ApproveDelete, RequestsTyped
  <2>5. QED
    BY <1>13, <2>2, <2>4
    DEF ApproveDelete, tree, people, Typed, TreeTyped, SeatsTyped, PlacedTyped, FlagsTyped
<1>14. CASE RazeCommit(h)
  <2>1. Filed(job[h].request) /\ job[h].request.node \in Branch \ {Root}
    BY <1>2, <1>14 DEF RazeCommit, JobOK, Filed, Row
  <2>2. TreeTyped' /\ SeatsTyped'
    BY <1>14, <2>1, UprootTyped DEF RazeCommit, people
  <2>3. JobsTyped'
    BY <1>14, <2>1, DoneUpdate, RestUpdate DEF RazeCommit
  <2>4. QED
    BY <1>14, <2>2, <2>3 DEF RazeCommit, people, Typed, RequestsTyped, FlagsTyped, PlacedTyped
<1>15. CASE ApproveCourse(h)
  <2>1. Filed(job[h].request) /\ job[h].request.node \in Branch
    BY <1>2, <1>15 DEF ApproveCourse, Deciding, JobOK, Filed, Row
  <2>2. JobsTyped'
    BY <1>15, <2>1, RestUpdate DEF ApproveCourse
  <2>3. PICK inherit \in BOOLEAN :
          placed' = (placed \ ({job[h].request.node} \X BOOLEAN)) \cup {<<job[h].request.node, inherit>>}
    BY <1>15 DEF ApproveCourse
  <2>4. PlacedTyped'
    BY <2>1, <2>3 DEF PlacedTyped
  <2>5. QED
    BY <1>15, <2>2, <2>4
    DEF ApproveCourse, tree, people, Typed, RequestsTyped, TreeTyped, SeatsTyped, FlagsTyped
<1>16. CASE CloseRequest(h)
  BY <1>16, DoneUpdate
  DEF CloseRequest, tree, people, Typed, RequestsTyped, TreeTyped, SeatsTyped, FlagsTyped, PlacedTyped
<1>17. QED
  BY <1>3, <1>4, <1>5, <1>6, <1>7, <1>8, <1>9, <1>10, <1>11, <1>12, <1>13, <1>14, <1>15, <1>16 DEF Work

LEMMA AtOnceTyped ==
  ASSUME Typed, NEW p \in Acting, AtOnce(p)
  PROVE  Typed'
<1>1. ASSUME NEW n \in live, NEW shown \in BOOLEAN, SetVisibility(p, n, shown) PROVE Typed'
  BY <1>1 DEF SetVisibility, people, Typed, JobsTyped, RequestsTyped, TreeTyped, SeatsTyped, FlagsTyped,
              PlacedTyped
<1>2. ASSUME NEW n \in live, NEW q \in Newcomers, NEW f \in UNION Grants, NEW on \in BOOLEAN,
             SetFlag(p, n, q, f, on)
      PROVE  Typed'
  <2>1. f \in Flag
    BY StandingAssumption
  <2>2. ASSUME NEW r \in rights' PROVE r[3] \in Flag /\ <<r[1], r[2]>> \in owns'
    <3>1. r \in rights \/ r = <<q, n, f>>
      BY <1>2 DEF SetFlag
    <3>2. CASE r = <<q, n, f>>
      BY <1>2, <2>1, <3>2 DEF SetFlag
    <3>3. CASE r \in rights
      BY <1>2, <3>3 DEF SetFlag, Typed, FlagsTyped
    <3>4. QED
      BY <3>1, <3>2, <3>3
  <2>3. QED
    BY <1>2, <2>2 DEF SetFlag, tree, Typed, JobsTyped, RequestsTyped, TreeTyped, SeatsTyped, FlagsTyped,
                     PlacedTyped
<1>3. ASSUME NEW r \in requests, ClearRequest(p, r) PROVE Typed'
  BY <1>3 DEF ClearRequest, tree, people, Typed, JobsTyped, RequestsTyped, TreeTyped, SeatsTyped,
              FlagsTyped, PlacedTyped
<1>4. QED
  BY <1>1, <1>2, <1>3 DEF AtOnce

LEMMA AddOwnerTyped ==
  ASSUME Typed, NEW q, AddOwner(q)
  PROVE  Typed'
<1>1. SeatsTyped'
  BY DEF AddOwner, Typed, SeatsTyped, TreeTyped, tree
<1>2. ASSUME NEW r \in rights' PROVE r[3] \in Flag /\ <<r[1], r[2]>> \in owns'
  <2>1. r \in rights \/ \E f \in Flag : r = <<q, Root, f>>
    BY DEF AddOwner
  <2>2. CASE r \in rights
    BY <2>2 DEF AddOwner, Typed, FlagsTyped
  <2>3. ASSUME NEW f \in Flag, r = <<q, Root, f>> PROVE r[3] \in Flag /\ <<r[1], r[2]>> \in owns'
    BY <2>3 DEF AddOwner
  <2>4. QED
    BY <2>1, <2>2, <2>3
<1>3. QED
  BY <1>1, <1>2 DEF AddOwner, tree, Typed, JobsTyped, RequestsTyped, TreeTyped, FlagsTyped, PlacedTyped

LEMMA DeleteProfileTyped ==
  ASSUME Typed, NEW q, DeleteProfile(q)
  PROVE  Typed'
<1>1. SeatsTyped'
  BY DEF DeleteProfile, Typed, SeatsTyped, tree
<1>2. FlagsTyped'
  BY DEF DeleteProfile, Typed, FlagsTyped
<1>3. QED
  BY <1>1, <1>2 DEF DeleteProfile, tree, Typed, JobsTyped, RequestsTyped, TreeTyped, PlacedTyped

LEMMA RemoveOwnerTyped ==
  ASSUME Typed, NEW h \in Handler, NEW q, RemoveOwner(h, q)
  PROVE  Typed'
<1>1. Root \in Branch /\ q \in Person
  BY DEF Typed, TreeTyped, SeatsTyped, RemoveOwner
<1>2. JobOK([do |-> "remove", node |-> Root, who |-> q, as |-> "OWNER", supreme |-> TRUE])
  BY <1>1 DEF JobOK, Seat
<1>3. QED
  BY <1>2, TakeUpdate, UntouchedTyped DEF RemoveOwner, Typed

LEMMA BackedUpTyped ==
  ASSUME Typed, Files, NEW p, NEW n, ExportBackup(p, n)
  PROVE  Typed' /\ Files'
<1>1. Typed'
  BY DEF ExportBackup, tree, people, Typed, JobsTyped, RequestsTyped, TreeTyped, SeatsTyped, FlagsTyped,
         PlacedTyped
<1> DEFINE b == [node |-> n, below |-> Children(n), owns |-> {s \in owns : s[2] = n},
                 sits |-> {s \in sits : s[2] = n}, rights |-> {r \in rights : r[2] = n}]
<1>2. backups' = backups \cup {b} /\ job' = job /\ n \in live
  BY DEF ExportBackup, Calls
<1>3. n \in Branch /\ Children(n) \subseteq Branch /\ live \subseteq Branch
  BY <1>2 DEF Typed, TreeTyped, Children
<1>4. owns \subseteq Person \X Branch /\ sits \subseteq Person \X Branch
  BY <1>3 DEF Typed, SeatsTyped
<1>5. \A r \in rights : r[3] \in Flag /\ <<r[1], r[2]>> \in owns
  BY DEF Typed, FlagsTyped
<1>6. BackupOK(b)
  BY <1>3, <1>4, <1>5 DEF BackupOK
<1> HIDE DEF b
<1> QED
  BY <1>1, <1>2, <1>6 DEF Files

\* A restore ends its own handler and the removals it finds at work.
LEMMA RestoreEnds ==
  ASSUME Typed, NEW h \in Handler, RestoreCommit(h)
  PROVE  /\ JobsTyped' /\ job'[h] = Idle
         /\ \A k \in Handler : job'[k] = Idle \/ (k # h /\ job'[k] = job[k])
<1>1. job[h].do = "restore" /\ JobsTyped
  BY DEF RestoreCommit, Typed
<1>2. CASE Done(h)
  BY <1>1, <1>2, DoneUpdate
<1>3. CASE ~Done(h)
  <2>1. job' = [k \in Handler |-> IF k = h \/ (job[k].do = "remove" /\ job[k].node = job[h].backup.node)
                                 THEN Idle ELSE job[k]]
    BY <1>3 DEF RestoreCommit
  <2>2. JobOK(Idle)
    BY DEF JobOK, Idle
  <2> QED
    BY <1>1, <2>1, <2>2 DEF JobsTyped
<1> QED
  BY <1>2, <1>3

\* What a restore puts on the branch, and leaves on the others.
LEMMA RestoreSeats ==
  ASSUME Typed, Files, NEW h \in Handler, RestoreCommit(h)
  PROVE  \/ UNCHANGED <<owns, sits, rights, belongs>>
         \/ \E b \in backups :
              /\ BackupOK(b) /\ b = job[h].backup /\ b.node \in live
              /\ owns' = Elsewhere(owns, b.node) \cup Surviving(b.owns)
              /\ sits' = Elsewhere(sits, b.node) \cup Surviving(b.sits)
              /\ rights' = Elsewhere(rights, b.node) \cup Surviving(b.rights)
              /\ belongs' = belongs \cup {r[1] : r \in Surviving(b.owns \cup b.sits)}
              /\ \A k \in Handler : job'[k].do = "remove" => job'[k].node # b.node
<1> DEFINE b == job[h].backup
<1>1. b \in backups /\ BackupOK(b)
  BY DEF RestoreCommit, Files
<1>2. CASE b.node \notin live
  BY <1>2 DEF RestoreCommit
<1>3. CASE b.node \in live
  <2>1. /\ owns' = Elsewhere(owns, b.node) \cup Surviving(b.owns)
        /\ sits' = Elsewhere(sits, b.node) \cup Surviving(b.sits)
        /\ rights' = Elsewhere(rights, b.node) \cup Surviving(b.rights)
        /\ belongs' = belongs \cup {r[1] : r \in Surviving(b.owns \cup b.sits)}
        /\ job' = [k \in Handler |-> IF k = h \/ (job[k].do = "remove" /\ job[k].node = b.node) THEN Idle ELSE job[k]]
    BY <1>3 DEF RestoreCommit
  <2>2. \A k \in Handler : job'[k].do = "remove" => job'[k].node # b.node
    BY <2>1 DEF Idle
  <2> HIDE DEF b
  <2> QED
    BY <1>1, <1>3, <2>1, <2>2 DEF b
<1> QED
  BY <1>2, <1>3

LEMMA RestoreTyped ==
  ASSUME Typed, Files, NEW h \in Handler, RestoreCommit(h)
  PROVE  Typed'
<1>1. JobsTyped' /\ UNCHANGED <<live, above, public, profiles, placed, requests>>
  BY RestoreEnds DEF RestoreCommit, tree
<1>2. SeatsTyped' /\ FlagsTyped'
  <2>1. CASE UNCHANGED <<owns, sits, rights, belongs>>
    BY <1>1, <2>1 DEF Typed, SeatsTyped, FlagsTyped
  <2>2. ASSUME NEW b \in backups, BackupOK(b), b.node \in live,
               owns' = Elsewhere(owns, b.node) \cup Surviving(b.owns),
               sits' = Elsewhere(sits, b.node) \cup Surviving(b.sits),
               rights' = Elsewhere(rights, b.node) \cup Surviving(b.rights),
               belongs' = belongs \cup {r[1] : r \in Surviving(b.owns \cup b.sits)}
        PROVE  SeatsTyped' /\ FlagsTyped'
    <3>1. /\ b.owns \cup b.sits \subseteq Person \X {b.node}
          /\ \A r \in b.rights : r[3] \in Flag /\ <<r[1], r[2]>> \in b.owns
      BY <2>2 DEF BackupOK
    <3>2. ASSUME NEW s \in Surviving(b.owns \cup b.sits)
          PROVE  s \in belongs' \X live' /\ s[1] \in profiles
      BY <1>1, <2>2, <3>1, <3>2 DEF Surviving
    <3>3. Surviving(b.owns) \subseteq belongs' \X live' /\ Surviving(b.sits) \subseteq belongs' \X live'
      BY <3>2 DEF Surviving
    <3>4. Elsewhere(owns, b.node) \subseteq belongs' \X live' /\ Elsewhere(sits, b.node) \subseteq belongs' \X live'
      BY <1>1, <2>2 DEF Elsewhere, Typed, SeatsTyped
    <3>5. belongs' \subseteq profiles
      BY <2>2, <3>2 DEF Typed, SeatsTyped
    <3>6. SeatsTyped'
      BY <1>1, <2>2, <3>3, <3>4, <3>5 DEF Typed, SeatsTyped
    <3>7. ASSUME NEW r \in rights' PROVE r[3] \in Flag /\ <<r[1], r[2]>> \in owns'
      <4>1. CASE r \in Elsewhere(rights, b.node)
        <5>1. r \in rights /\ r[2] # b.node
          BY <4>1 DEF Elsewhere
        <5>2. r[3] \in Flag /\ <<r[1], r[2]>> \in owns
          BY <5>1 DEF Typed, FlagsTyped
        <5> QED
          BY <2>2, <5>1, <5>2 DEF Elsewhere
      <4>2. CASE r \in Surviving(b.rights)
        <5>1. r \in b.rights /\ r[1] \in profiles
          BY <4>2 DEF Surviving
        <5>2. r[3] \in Flag /\ <<r[1], r[2]>> \in b.owns
          BY <3>1, <5>1
        <5> QED
          BY <2>2, <5>1, <5>2 DEF Surviving
      <4> QED
        BY <2>2, <4>1, <4>2
    <3> QED
      BY <3>6, <3>7 DEF FlagsTyped
  <2> QED
    BY <2>1, <2>2, RestoreSeats
<1> QED
  BY <1>1, <1>2 DEF Typed, RequestsTyped, TreeTyped, PlacedTyped

LEMMA RestoreBegun ==
  ASSUME Typed, NEW h \in Handler, NEW p, NEW b \in backups, RestoreBackup(h, p, b)
  PROVE  /\ Typed' /\ Take(h, [do |-> "restore", backup |-> b])
         /\ UNCHANGED <<tree, people, placed, requests, backups>>
         /\ job'[h] = [do |-> "restore", backup |-> b] /\ \A k \in Handler \ {h} : job'[k] = job[k]
<1>1. JobOK([do |-> "restore", backup |-> b])
  BY DEF JobOK
<1>2. JobsTyped
  BY DEF Typed
<1> QED
  BY <1>1, <1>2, TakeUpdate, UntouchedTyped DEF RestoreBackup

\* The work a call takes up, and what it has looked at.
Given(p, j) ==
  \/ j.do = "create" /\ j.node \in live
  \/ j.do \in {"delete", "file", "close"}
  \/ j.do = "place" /\ (j.as = "OWNER" => can(p, "add_co_owner", j.node))
  \/ j.do = "remove" /\ j.node \in live /\ ~j.supreme /\ Removable(p, j.node, j.who, j.as)
  \/ /\ j.do = "decide" /\ j.by = p /\ j.request \in requests /\ MayDecide(p, j.request)
     /\ j.open = IF j.request.kind = "VISIBILITY" THEN HiddenAbove(j.request.node) \cup {j.request.node}
                 ELSE {}

LEMMA CallTakes ==
  ASSUME NEW h \in Handler, NEW p \in Acting, Call(h, p)
  PROVE  \E j : /\ Take(h, j) /\ Given(p, j)
                /\ UNCHANGED <<tree, people, placed, requests>>
<1>1. ASSUME NEW n \in live, NEW shown, CreateSubRole(h, p, n, shown)
      PROVE  \E j : Take(h, j) /\ Given(p, j) /\ UNCHANGED <<tree, people, placed, requests>>
  <2>1. Given(p, [do |-> "create", node |-> n, shown |-> shown])
    BY DEF Given
  <2>2. QED
    BY <1>1, <2>1 DEF CreateSubRole
<1>2. ASSUME NEW n, DeleteRole(h, p, n)
      PROVE  \E j : Take(h, j) /\ Given(p, j) /\ UNCHANGED <<tree, people, placed, requests>>
  <2>1. Given(p, [do |-> "delete", node |-> n])
    BY DEF Given
  <2>2. QED
    BY <1>2, <2>1 DEF DeleteRole
<1>3. ASSUME NEW n \in live, NEW q, NEW as, RemovePerson(h, p, n, q, as)
      PROVE  \E j : Take(h, j) /\ Given(p, j) /\ UNCHANGED <<tree, people, placed, requests>>
  <2>1. Removable(p, n, q, as)
    BY <1>3 DEF RemovePerson
  <2>2. Given(p, [do |-> "remove", node |-> n, who |-> q, as |-> as, supreme |-> FALSE])
    BY <2>1 DEF Given
  <2>3. QED
    BY <1>3, <2>2 DEF RemovePerson
<1>4. ASSUME NEW n, NEW q, NEW as, NEW fs, AddPerson(h, p, n, q, as, fs)
      PROVE  \E j : Take(h, j) /\ Given(p, j) /\ UNCHANGED <<tree, people, placed, requests>>
  <2> DEFINE flags == IF as = "OWNER" THEN fs ELSE {}
             j == [do |-> "place", node |-> n, who |-> q, as |-> as, flags |-> flags]
  <2>1. Take(h, j) /\ (as = "OWNER" => can(p, "add_co_owner", n))
    BY <1>4 DEF AddPerson
  <2> HIDE DEF flags
  <2>2. Given(p, j)
    BY <2>1 DEF Given
  <2>3. QED
    BY <1>4, <2>1, <2>2 DEF AddPerson
<1>5. ASSUME NEW k, NEW n, NEW as, FileRequest(h, p, k, n, as)
      PROVE  \E j : Take(h, j) /\ Given(p, j) /\ UNCHANGED <<tree, people, placed, requests>>
  <2>1. PICK r, auto : Take(h, [do |-> "file", node |-> n, request |-> r, auto |-> auto])
    BY <1>5 DEF FileRequest
  <2>2. Given(p, [do |-> "file", node |-> n, request |-> r, auto |-> auto])
    BY DEF Given
  <2>3. QED
    BY <1>5, <2>1, <2>2 DEF FileRequest
<1>6. ASSUME NEW r \in requests, NEW approve \in BOOLEAN, DecideRequest(h, p, r, approve)
      PROVE  \E j : Take(h, j) /\ Given(p, j) /\ UNCHANGED <<tree, people, placed, requests>>
  <2> DEFINE open == IF r.kind = "VISIBILITY" THEN HiddenAbove(r.node) \cup {r.node} ELSE {}
             j == [do |-> "decide", request |-> r, by |-> p, open |-> open]
             k == [do |-> "close", request |-> r]
  <2>1. /\ Take(h, j) \/ Take(h, k)
        /\ MayDecide(p, r) /\ UNCHANGED <<tree, people, placed, requests>>
    BY <1>6 DEF DecideRequest
  <2>2. Given(p, j) /\ Given(p, k)
    BY <2>1 DEF Given
  <2> HIDE DEF j, k
  <2>3. QED
    BY <2>1, <2>2
<1>7. QED
  BY <1>1, <1>2, <1>3, <1>4, <1>5, <1>6 DEF Call

LEMMA WorkKeepsFiles ==
  ASSUME NEW h \in Handler, Work(h)
  PROVE  backups' = backups /\ profiles' = profiles
<1>1. CASE CreateCommit(h) \/ placePerson(h) \/ RemoveCommit(h) \/ Leave(h) \/ DeleteRequests(h)
  BY <1>1 DEF CreateCommit, placePerson, RemoveCommit, Leave, DeleteRequests, people
<1>2. CASE DeleteCommit(h) \/ FileCommit(h) \/ ApproveJoin(h) \/ JoinCommit(h) \/ ApproveVisibility(h)
  BY <1>2 DEF DeleteCommit, FileCommit, ApproveJoin, JoinCommit, ApproveVisibility, people
<1>3. CASE ApproveDelete(h) \/ RazeCommit(h) \/ ApproveCourse(h) \/ CloseRequest(h)
  BY <1>3 DEF ApproveDelete, RazeCommit, ApproveCourse, CloseRequest, people
<1> QED
  BY <1>1, <1>2, <1>3 DEF Work

\* Nothing else writes a backup file or takes one up.
LEMMA FilesKept ==
  ASSUME Typed, Files,
         \/ \E h \in Handler : Work(h)
         \/ \E h \in Handler, p \in Acting : Call(h, p)
         \/ \E p \in Acting : AtOnce(p)
         \/ \E q : AddOwner(q) \/ DeleteProfile(q) \/ \E h \in Handler : RemoveOwner(h, q)
  PROVE  Files'
<1>1. ASSUME backups' = backups, \A k \in Handler : job'[k].do = "restore" => job'[k] = job[k]
      PROVE  Files'
  BY <1>1 DEF Files
<1>2. ASSUME NEW h \in Handler, NEW j, j.do # "restore", job' = [job EXCEPT ![h] = j]
      PROVE  \A k \in Handler : job'[k].do = "restore" => job'[k] = job[k]
  BY <1>2 DEF Typed, JobsTyped
<1>3. ASSUME NEW h \in Handler, Work(h) PROVE Files'
  <2>1. backups' = backups
    BY <1>3, WorkKeepsFiles
  <2>2. \/ job' = [job EXCEPT ![h] = Idle]
        \/ \E q : job' = [job EXCEPT ![h] = [do |-> "leave", who |-> q]]
        \/ \E n : job' = [job EXCEPT ![h] = [do |-> "unroot", node |-> n]]
        \/ \E do \in {"join", "raze", "close"} : \E r : job' = [job EXCEPT ![h] = [do |-> do, request |-> r]]
    BY <1>3 DEF Work, CreateCommit, placePerson, RemoveCommit, Leave, DeleteRequests, DeleteCommit, FileCommit,
           ApproveJoin, JoinCommit, ApproveVisibility, ApproveDelete, RazeCommit, ApproveCourse, CloseRequest,
           Done, Then, Rest
  <2> QED
    BY <1>1, <1>2, <2>1, <2>2 DEF Idle
<1>4. ASSUME NEW h \in Handler, NEW p \in Acting, Call(h, p) PROVE Files'
  <2>1. backups' = backups
    BY <1>4 DEF Call, CreateSubRole, DeleteRole, RemovePerson, AddPerson, FileRequest, DecideRequest
  <2>2. PICK j : j.do # "restore" /\ Take(h, j)
    BY <1>4, CallTakes DEF Given
  <2> QED
    BY <1>1, <1>2, <2>1, <2>2 DEF Take
<1>5. ASSUME NEW p \in Acting, AtOnce(p) PROVE Files'
  BY <1>1, <1>5 DEF AtOnce, SetVisibility, SetFlag, ClearRequest
<1>6. ASSUME NEW q, AddOwner(q) \/ DeleteProfile(q) PROVE Files'
  BY <1>1, <1>6 DEF AddOwner, DeleteProfile
<1>7. ASSUME NEW q, NEW h \in Handler, RemoveOwner(h, q) PROVE Files'
  <2> DEFINE j == [do |-> "remove", node |-> Root, who |-> q, as |-> "OWNER", supreme |-> TRUE]
  <2>1. backups' = backups /\ job' = [job EXCEPT ![h] = j] /\ j.do # "restore"
    BY <1>7 DEF RemoveOwner, Take
  <2> HIDE DEF j
  <2> QED
    BY <1>1, <1>2, <2>1
<1> QED
  BY <1>3, <1>4, <1>5, <1>6, <1>7

LEMMA StepTyped ==
  ASSUME Typed, Files, [Next]_vars
  PROVE  Typed' /\ Files'
<1>1. CASE UNCHANGED vars
  BY <1>1 DEF vars, Typed, Files, JobsTyped, RequestsTyped, TreeTyped, SeatsTyped, FlagsTyped, PlacedTyped
<1>2. CASE \E h \in Handler : RestoreCommit(h)
  <2>1. PICK h \in Handler : RestoreCommit(h)
    BY <1>2
  <2>2. backups' = backups /\ \A k \in Handler : job'[k].do = "restore" => job'[k] = job[k]
    BY <2>1, RestoreEnds DEF RestoreCommit, Idle
  <2> QED
    BY <2>1, <2>2, RestoreTyped DEF Files
<1>3. CASE \E h \in Handler, p \in Acting : \E b \in backups : RestoreBackup(h, p, b)
  <2>1. PICK h \in Handler, p \in Acting, b \in backups : RestoreBackup(h, p, b)
    BY <1>3
  <2>2. /\ Typed' /\ backups' = backups /\ job'[h] = [do |-> "restore", backup |-> b]
        /\ \A k \in Handler \ {h} : job'[k] = job[k]
    BY <2>1, RestoreBegun
  <2>3. ASSUME NEW k \in Handler, job'[k].do = "restore" PROVE job'[k].backup \in backups
    BY <2>2, <2>3 DEF Files
  <2> QED
    BY <2>2, <2>3 DEF Files
<1>4. CASE \E p \in Acting : \E n \in Backed : ExportBackup(p, n)
  BY <1>4, BackedUpTyped
<1>5. CASE \/ \E h \in Handler : Work(h)
           \/ \E h \in Handler, p \in Acting : Call(h, p)
           \/ \E p \in Acting : AtOnce(p)
           \/ \E q \in Newcomers : AddOwner(q) \/ DeleteProfile(q) \/ \E h \in Handler : RemoveOwner(h, q)
  BY <1>5, FilesKept, WorkTyped, CallTyped, AtOnceTyped, AddOwnerTyped, DeleteProfileTyped, RemoveOwnerTyped
<1> QED
  BY <1>1, <1>2, <1>3, <1>4, <1>5 DEF Next

LEMMA InitFiles == Init => Files
  BY StandingAssumption DEF Init, Files, Idle

LEMMA AlwaysTyped == Spec => [](Typed /\ Files)
<1>1. Typed /\ Files /\ [Next]_vars => (Typed /\ Files)'
  BY StepTyped
<1> QED
  BY <1>1, InitTyped, InitFiles, PTL DEF Spec

(* Every row and every handler's locals are of their kind; a flag belongs to   *)
(* an owner, a placement to a member with a profile, and a branch that is gone *)
(* has nobody on it (placePerson, removePerson, the delete routes).           *)
THEOREM TypeCorrect == Spec => []TypeOK
<1>1. QED
  BY AlwaysTyped, TypedIsTypeOK, PTL

-----------------------------------------------------------------------------
(* Paths.  A branch's path is fixed when it is created, and each level of it   *)
(* has its own path as a part: of two levels of one path, one is above the     *)
(* other.                                                                  *)

Made(n) == n = Root \/ above[n] # {}

Woven(n) ==
  /\ IsFiniteSet(above[n]) /\ n \notin above[n]
  /\ \A a \in above[n] :
       /\ Made(a) /\ above[a] \subseteq above[n]
       /\ \A b \in above[n] : a = b \/ a \in above[b] \/ b \in above[a]

Paths ==
  /\ \A n \in DOMAIN Standing : above[n] = Standing[n]
  /\ \A n \in Branch : Woven(n)
  /\ \A n \in live : Made(n)
  /\ \A h \in Handler, n \in Branch : job[h].do = "create" /\ job[h].node = n => Made(n)

LEMMA InitPaths == Init => Paths
<1> SUFFICES ASSUME Init PROVE Paths
  OBVIOUS
<1>1. \A n \in Branch : above[n] = IF n \in DOMAIN Standing THEN Standing[n] ELSE {}
  BY DEF Init
<1>2. \A n \in DOMAIN Standing : above[n] = Standing[n]
  BY <1>1, StandingAssumption
<1>3. \A n \in DOMAIN Standing : Made(n)
  BY <1>2, StandingAssumption DEF Made
<1>4. ASSUME NEW n \in Branch PROVE Woven(n)
  <2>1. CASE n \in DOMAIN Standing
    <3>1. Standing[n] \subseteq DOMAIN Standing \ {n} /\ IsFiniteSet(Standing[n])
      BY <2>1, StandingAssumption
    <3>2. \A a, b \in Standing[n] :
            Standing[a] \subseteq Standing[n] /\ (a = b \/ a \in Standing[b] \/ b \in Standing[a])
      BY <2>1, StandingAssumption
    <3>3. QED
      BY <1>2, <1>3, <2>1, <3>1, <3>2 DEF Woven
  <2>2. CASE n \notin DOMAIN Standing
    BY <1>1, <2>2, FS_EmptySet DEF Woven
  <2>3. QED
    BY <2>1, <2>2
<1>5. \A h \in Handler : job[h].do # "create"
  BY DEF Init, Idle
<1>6. QED
  BY <1>2, <1>3, <1>4, <1>5 DEF Paths, Init

\* Only a branch's creation changes a path.
LEMMA AboveStays ==
  ASSUME Typed, NEW h \in Handler, Work(h), ~CreateCommit(h)
  PROVE  above' = above /\ live' \subseteq live /\ \A k \in Handler : job'[k].do = "create" => job'[k] = job[k]
<1>1. above' = above /\ live' \subseteq live
  BY DEF Work, placePerson, RemoveCommit, Leave, DeleteRequests, DeleteCommit, Uproot, FileCommit, ApproveJoin,
         JoinCommit, ApproveVisibility, ApproveDelete, RazeCommit, ApproveCourse, CloseRequest, tree
<1>2. \/ job' = [job EXCEPT ![h] = Idle]
      \/ \E q : job' = [job EXCEPT ![h] = [do |-> "leave", who |-> q]]
      \/ \E n : job' = [job EXCEPT ![h] = [do |-> "unroot", node |-> n]]
      \/ \E do \in {"join", "raze", "close"} : \E r : job' = [job EXCEPT ![h] = [do |-> do, request |-> r]]
  BY DEF Work, placePerson, RemoveCommit, Leave, DeleteRequests, DeleteCommit, FileCommit, ApproveJoin,
         JoinCommit, ApproveVisibility, ApproveDelete, RazeCommit, ApproveCourse, CloseRequest,
         Done, Then, Rest
<1>3. ASSUME NEW j, j.do # "create", job' = [job EXCEPT ![h] = j]
      PROVE  \A k \in Handler : job'[k].do = "create" => job'[k] = job[k]
  BY <1>3 DEF Typed, JobsTyped
<1>4. QED
  BY <1>1, <1>2, <1>3 DEF Idle

LEMMA CreatePaths ==
  ASSUME Typed, Paths, NEW h \in Handler, CreateCommit(h)
  PROVE  Paths'
<1> DEFINE n == job[h].node
<1>1. PICK c \in Fresh :
        live' = live \cup {c} /\ above' = [above EXCEPT ![c] = above[n] \cup {n}]
  BY DEF CreateCommit
<1>2. /\ above \in [Branch -> SUBSET Branch] /\ n \in Branch /\ Made(n)
      /\ \A m \in Branch : Woven(m)
  BY DEF CreateCommit, Typed, TreeTyped, JobsTyped, JobOK, Paths
<1>3. c \in Branch /\ above[c] = {} /\ c # Root
  BY <1>1 DEF Fresh
<1>4. ~Made(c) /\ c # n /\ \A m \in Branch : c \notin above[m]
  BY <1>2, <1>3 DEF Made, Woven
<1>5. above'[c] = above[n] \cup {n} /\ \A m \in Branch \ {c} : above'[m] = above[m]
  BY <1>1, <1>2, <1>3
<1>6. \A m \in Branch : Made(m) => Made(m)'
  BY <1>2, <1>5 DEF Made
<1> HIDE DEF n
<1>7. ASSUME NEW m \in Branch PROVE Woven(m)'
  <2>1. \A a \in Branch : a # c => above'[a] = above[a]
    BY <1>5
  <2>2. CASE m # c
    <3>1. above'[m] = above[m] /\ \A a \in above[m] : above'[a] = above[a] /\ a \in Branch
      BY <1>2, <1>4, <2>1, <2>2
    <3>2. QED
      BY <1>2, <1>6, <3>1 DEF Woven
  <2>3. CASE m = c
    <3>1. IsFiniteSet(above[n] \cup {n})
      BY <1>2, FS_AddElement DEF Woven
    <3>2. \A a \in above[n] \cup {n} : a \in Branch /\ a # c /\ above'[a] = above[a]
      BY <1>2, <1>4, <2>1
    <3>3. \A a \in above[n] \cup {n} :
            /\ Made(a) /\ above[a] \subseteq above[n]
            /\ \A b \in above[n] \cup {n} : a = b \/ a \in above[b] \/ b \in above[a]
      BY <1>2 DEF Woven
    <3>4. QED
      BY <1>5, <1>6, <2>3, <3>1, <3>2, <3>3 DEF Woven
  <2>4. QED
    BY <2>2, <2>3
<1>8. \A m \in DOMAIN Standing : above'[m] = Standing[m]
  <2>1. \A m \in DOMAIN Standing : m \in Branch /\ Made(m)
    BY StandingAssumption DEF Paths, Made
  <2>2. QED
    BY <1>4, <1>5, <2>1 DEF Paths
<1>9. \A m \in live' : Made(m)'
  <2>1. Made(c)'
    BY <1>3, <1>5 DEF Made
  <2>2. QED
    BY <1>1, <1>6, <2>1 DEF Paths, Typed, TreeTyped
<1>10. \A k \in Handler : job'[k].do = "create" => job'[k] = job[k]
  BY DoneUpdate DEF CreateCommit, Typed, Idle
<1>11. \A k \in Handler, m \in Branch : job'[k].do = "create" /\ job'[k].node = m => Made(m)'
  BY <1>6, <1>10 DEF Paths
<1>12. QED
  BY <1>7, <1>8, <1>9, <1>11 DEF Paths

LEMMA StepPaths ==
  ASSUME Typed, Files, Paths, [Next]_vars
  PROVE  Paths'
<1>1. ASSUME above' = above, live' \subseteq live,
             \A k \in Handler, n \in Branch : job'[k].do = "create" /\ job'[k].node = n => Made(n)
      PROVE  Paths'
  BY <1>1 DEF Paths, Woven, Made
<1>2. ASSUME above' = above, live' \subseteq live,
             \A k \in Handler : job'[k].do = "create" => job'[k] = job[k]
      PROVE  Paths'
  BY <1>1, <1>2 DEF Paths
<1>3. ASSUME NEW h \in Handler, Work(h) PROVE Paths'
  BY <1>2, <1>3, AboveStays, CreatePaths
<1>4. ASSUME NEW h \in Handler, NEW j, Take(h, j), UNCHANGED <<tree, people, placed, requests>>,
             \A n \in Branch : j.do = "create" /\ j.node = n => Made(n)
      PROVE  Paths'
  <2>1. job'[h] = j /\ \A k \in Handler \ {h} : job'[k] = job[k]
    BY <1>4 DEF Take, Typed, JobsTyped
  <2>2. \A k \in Handler, n \in Branch : job'[k].do = "create" /\ job'[k].node = n => Made(n)
    BY <1>4, <2>1 DEF Paths
  <2>3. above' = above /\ live' = live
    BY <1>4 DEF tree
  <2>4. QED
    BY <1>1, <2>2, <2>3
<1>5. ASSUME NEW h \in Handler, NEW p \in Acting, Call(h, p) PROVE Paths'
  <2>1. PICK j : Take(h, j) /\ Given(p, j) /\ UNCHANGED <<tree, people, placed, requests>>
    BY <1>5, CallTakes
  <2>2. \A n \in Branch : j.do = "create" /\ j.node = n => Made(n)
    BY <2>1 DEF Given, Paths
  <2>3. QED
    BY <1>4, <2>1, <2>2
<1>6. ASSUME NEW p \in Acting, AtOnce(p) PROVE Paths'
  BY <1>2, <1>6 DEF AtOnce, SetVisibility, SetFlag, ClearRequest, tree
<1>7. ASSUME NEW q, AddOwner(q) \/ DeleteProfile(q) PROVE Paths'
  BY <1>2, <1>7 DEF AddOwner, DeleteProfile, tree
<1>8. ASSUME NEW q, NEW h \in Handler, RemoveOwner(h, q) PROVE Paths'
  BY <1>4, <1>8 DEF RemoveOwner
<1>9. CASE UNCHANGED vars
  BY <1>2, <1>9 DEF vars, tree
<1>10. ASSUME NEW h \in Handler, RestoreCommit(h) PROVE Paths'
  BY <1>2, <1>10, RestoreEnds DEF RestoreCommit, tree, Idle
<1>11. ASSUME NEW h \in Handler, NEW p, NEW b \in backups, RestoreBackup(h, p, b) PROVE Paths'
  <2> DEFINE j == [do |-> "restore", backup |-> b]
  <2>1. j.do # "create"
    OBVIOUS
  <2>2. Take(h, j) /\ UNCHANGED <<tree, people, placed, requests>>
    BY <1>11, RestoreBegun
  <2> HIDE DEF j
  <2> QED
    BY <1>4, <2>1, <2>2
<1>12. ASSUME NEW p, NEW n, ExportBackup(p, n) PROVE Paths'
  BY <1>2, <1>12 DEF ExportBackup, tree
<1>13. QED
  BY <1>3, <1>5, <1>6, <1>7, <1>8, <1>9, <1>10, <1>11, <1>12 DEF Next

-----------------------------------------------------------------------------
(* Authority.  A branch whose owners are chosen above: so is every branch      *)
(* above it, and no acting person owns one of those or may appoint on them.   *)

LEMMA ChosenClosed ==
  ASSUME NEW n \in ChosenAbove, NEW a \in Standing[n]
  PROVE  a \in ChosenAbove /\ \A p \in Acting : <<p, a>> \notin Seated
<1>1. n \in DOMAIN Standing /\ a \in DOMAIN Standing /\ a # n /\ n \notin Standing[n]
  BY StandingAssumption DEF ChosenAbove, ChosenAtStart
<1>2. Standing[a] \subseteq Standing[n]
  BY <1>1, StandingAssumption
<1>3. \A p \in Acting, b \in Standing[n] : <<p, b>> \notin Seated /\ <<p, b, "co">> \notin Granted
  BY <1>1 DEF ChosenAbove, ChosenAtStart
<1>4. QED
  BY <1>1, <1>2, <1>3 DEF ChosenAbove, ChosenAtStart

LEMMA NoSay ==
  ASSUME Paths, AuthorityFromAbove, NEW p \in Acting, NEW n \in ChosenAbove
  PROVE  /\ ~Over(p, n) /\ ~Holds(p, n, "co") /\ ~can(p, "add_co_owner", n)
         /\ ~can(p, "manage_flags", n)
<1>1. above[n] = Standing[n] /\ <<p, n, "co">> \notin Granted
  BY DEF Paths, ChosenAbove, ChosenAtStart
<1>2. \A a \in Standing[n] : a \in ChosenAbove /\ <<p, a>> \notin Seated /\ <<p, a, "co">> \notin Granted
  BY ChosenClosed DEF ChosenAbove, ChosenAtStart
<1>3. ~Over(p, n)
  BY <1>1, <1>2 DEF Over, AuthorityFromAbove
<1>4. ~Holds(p, n, "co")
  BY <1>1, <1>2 DEF Holds, AuthorityFromAbove, Flag
<1>5. QED
  BY <1>3, <1>4 DEF can

\* What a handler has been let to do concerns none of these branches' owners among the
\* acting people.
Let(j) ==
  /\ j.do \in {"place", "remove"} /\ j.as = "OWNER" /\ j.node \in ChosenAbove => j.who \notin Acting
  /\ j.do \in {"decide", "join"} /\ j.request.kind = "JOIN_BRANCH" /\ j.request.as = "OWNER"
       => j.request.node \notin ChosenAbove

\* A backup of such a branch holds its owners and flags, but for people whose profile had
\* gone when it was taken.
Copies ==
  \A b \in backups, p \in Acting \cap profiles : b.node \in ChosenAbove =>
    /\ <<p, b.node>> \in b.owns <=> <<p, b.node>> \in Seated
    /\ \A f \in Flag : <<p, b.node, f>> \in b.rights <=> <<p, b.node, f>> \in Granted

Authority == AuthorityFromAbove /\ Copies /\ \A h \in Handler : Let(job[h])

LEMMA InitAuthority == Init => Authority
<1> SUFFICES ASSUME Init PROVE Authority
  OBVIOUS
<1>1. AuthorityFromAbove
  BY StandingAssumption DEF Init, AuthorityFromAbove
<1>2. \A h \in Handler : Let(job[h])
  BY DEF Init, Let, Idle
<1>3. Copies
  BY DEF Init, Copies, ChosenAbove
<1>4. QED
  BY <1>1, <1>2, <1>3 DEF Authority

\* An owner's seat taken, with flags or without, by someone who is not one of the acting
\* people, or on a branch that is not one of these.
LEMMA SitAuthority ==
  ASSUME AuthorityFromAbove, NEW q, NEW n, NEW as, NEW fs, Sit(q, n, as, fs),
         as \in Seat, as = "OWNER" => n \notin ChosenAbove \/ q \notin Acting,
         profiles' = profiles
  PROVE  AuthorityFromAbove'
<1>1. ASSUME NEW p \in Acting, NEW m \in ChosenAbove
      PROVE  /\ <<p, m>> \in owns' <=> <<p, m>> \in owns
             /\ \A f \in Flag : <<p, m, f>> \in rights' <=> <<p, m, f>> \in rights
  <2>1. CASE as = "MEMBER"
    BY <2>1 DEF Sit
  <2>2. CASE as = "OWNER"
    <3>1. /\ owns' = owns \cup {<<q, n>>}
          /\ rights' = rights \/ rights' = rights \cup {<<q, n, f>> : f \in fs}
      BY <2>2 DEF Sit
    <3>2. p # q \/ m # n
      BY <2>2
    <3>3. QED
      BY <3>1, <3>2
  <2>3. QED
    BY <2>1, <2>2 DEF Seat
<1>2. QED
  BY <1>1 DEF AuthorityFromAbove

LEMMA WorkAuthority ==
  ASSUME Typed, Authority, NEW h \in Handler, Work(h)
  PROVE  Authority'
<1>1. Let(job[h]) /\ JobOK(job[h]) /\ AuthorityFromAbove /\ JobsTyped
  BY DEF Authority, Typed, JobsTyped
<1>2. ASSUME NEW j, Let(j), job' = [job EXCEPT ![h] = j] PROVE \A k \in Handler : Let(job'[k])
  BY <1>2 DEF Authority, Typed, JobsTyped
<1>3. \A k \in Handler : Let(job'[k])
  <2>1. Let(Idle)
    BY DEF Let, Idle
  <2>2. \A q : Let([do |-> "leave", who |-> q])
    BY DEF Let
  <2>3. \A n : Let([do |-> "unroot", node |-> n])
    BY DEF Let
  <2>4. \A do \in {"raze", "close"} : \A r : Let([do |-> do, request |-> r])
    BY DEF Let
  <2>5. job[h].do = "decide" => Let([do |-> "join", request |-> job[h].request])
    BY <1>1 DEF Let
  <2>6. \/ job' = [job EXCEPT ![h] = Idle]
        \/ \E q : job' = [job EXCEPT ![h] = [do |-> "leave", who |-> q]]
        \/ \E n : job' = [job EXCEPT ![h] = [do |-> "unroot", node |-> n]]
        \/ \E do \in {"raze", "close"} : \E r : job' = [job EXCEPT ![h] = [do |-> do, request |-> r]]
        \/ /\ job[h].do = "decide"
           /\ job' = [job EXCEPT ![h] = [do |-> "join", request |-> job[h].request]]
    BY DEF Work, CreateCommit, placePerson, RemoveCommit, Leave, DeleteRequests, DeleteCommit, FileCommit,
           ApproveJoin, JoinCommit, ApproveVisibility, ApproveDelete, RazeCommit, ApproveCourse,
           CloseRequest, Done, Then, Rest, Deciding
  <2>7. QED
    BY <1>2, <2>1, <2>2, <2>3, <2>4, <2>5, <2>6
<1>4. AuthorityFromAbove'
  <2>1. CASE UNCHANGED <<owns, rights, profiles>>
    BY <1>1, <2>1 DEF AuthorityFromAbove
  <2>2. CASE placePerson(h)
    <3>1. profiles' = profiles
      BY <2>2 DEF placePerson
    <3>2. CASE Sit(job[h].who, job[h].node, job[h].as, job[h].flags)
      BY <1>1, <2>2, <3>1, <3>2, SitAuthority DEF placePerson, Let, JobOK
    <3>3. QED
      BY <2>1, <2>2, <3>1, <3>2 DEF placePerson
  <2>3. CASE RemoveCommit(h)
    <3> DEFINE at == <<job[h].who, job[h].node>>
    <3>1. profiles' = profiles /\ job[h].do = "remove"
      BY <2>3 DEF RemoveCommit
    <3>2. CASE job[h].as = "MEMBER"
      BY <2>1, <2>3, <3>1, <3>2 DEF RemoveCommit
    <3>3. CASE job[h].as # "MEMBER"
      <4>1. job[h].as = "OWNER"
        BY <1>1, <3>1, <3>3 DEF JobOK, Seat
      <4>2. owns' = owns \ {at} /\ rights' = {r \in rights : <<r[1], r[2]>> # at}
        BY <2>3, <3>3 DEF RemoveCommit
      <4>3. ASSUME NEW p \in Acting, NEW m \in ChosenAbove
            PROVE  /\ <<p, m>> \in owns' <=> <<p, m>> \in owns
                   /\ \A f \in Flag : <<p, m, f>> \in rights' <=> <<p, m, f>> \in rights
        <5>1. <<p, m>> # at
          BY <1>1, <3>1, <4>1 DEF Let
        <5>2. QED
          BY <4>2, <5>1
      <4>4. QED
        BY <1>1, <3>1, <4>3 DEF AuthorityFromAbove
    <3>4. QED
      BY <3>2, <3>3
  <2>4. CASE JoinCommit(h)
    <3>1. /\ profiles' = profiles /\ job[h].do = "join" /\ job[h].request.kind = "JOIN_BRANCH"
      BY <1>1, <2>4 DEF JoinCommit, JobOK
    <3>2. CASE Sit(job[h].request.by, job[h].request.node, job[h].request.as, {})
      BY <1>1, <3>1, <3>2, SitAuthority DEF Let, JobOK, Filed, Row
    <3>3. QED
      BY <2>1, <2>4, <3>1, <3>2 DEF JoinCommit
  <2>5. UNCHANGED <<owns, rights, profiles>> \/ placePerson(h) \/ RemoveCommit(h) \/ JoinCommit(h)
    BY DEF Work, CreateCommit, Leave, DeleteRequests, DeleteCommit, FileCommit, ApproveJoin,
           ApproveVisibility, ApproveDelete, RazeCommit, ApproveCourse, CloseRequest, people
  <2>6. QED
    BY <2>1, <2>2, <2>3, <2>4, <2>5
<1>5. backups' = backups /\ profiles' = profiles
  BY WorkKeepsFiles
<1>6. QED
  BY <1>3, <1>4, <1>5 DEF Authority, Copies

LEMMA ExportCopies ==
  ASSUME Typed, Authority, NEW x, NEW m, ExportBackup(x, m)
  PROVE  Copies'
<1> DEFINE e == [node |-> m, below |-> Children(m), owns |-> {s \in owns : s[2] = m},
                 sits |-> {s \in sits : s[2] = m}, rights |-> {r \in rights : r[2] = m}]
<1>1. backups' = backups \cup {e} /\ profiles' = profiles
  BY DEF ExportBackup, people
<1>2. ASSUME NEW p \in Acting \cap profiles, m \in ChosenAbove
      PROVE  /\ <<p, m>> \in e.owns <=> <<p, m>> \in Seated
             /\ \A f \in Flag : <<p, m, f>> \in e.rights <=> <<p, m, f>> \in Granted
  BY <1>2 DEF Authority, AuthorityFromAbove
<1>3. e.node = m
  OBVIOUS
<1> HIDE DEF e
<1> QED
  BY <1>1, <1>2, <1>3 DEF Authority, Copies

LEMMA RestoreAuthority ==
  ASSUME Typed, Files, Authority, NEW h \in Handler, RestoreCommit(h)
  PROVE  Authority'
<1>1. UNCHANGED <<backups, profiles>> /\ \A k \in Handler : job'[k] = Idle \/ job'[k] = job[k]
  BY RestoreEnds DEF RestoreCommit
<1>2. Copies' /\ \A k \in Handler : Let(job'[k])
  BY <1>1 DEF Authority, Copies, Let, Idle
<1>3. CASE UNCHANGED <<owns, sits, rights, belongs>>
  BY <1>1, <1>2, <1>3 DEF Authority, AuthorityFromAbove
<1>4. ASSUME NEW b \in backups, owns' = Elsewhere(owns, b.node) \cup Surviving(b.owns),
             rights' = Elsewhere(rights, b.node) \cup Surviving(b.rights), BackupOK(b)
      PROVE  Authority'
  <2>1. ASSUME NEW p \in Acting, NEW n \in ChosenAbove
        PROVE  /\ <<p, n>> \in owns' <=> <<p, n>> \in Seated /\ p \in profiles'
               /\ \A f \in Flag : <<p, n, f>> \in rights' <=> <<p, n, f>> \in Granted /\ p \in profiles'
    <3>1. /\ <<p, n>> \in owns <=> <<p, n>> \in Seated /\ p \in profiles
          /\ \A f \in Flag : <<p, n, f>> \in rights <=> <<p, n, f>> \in Granted /\ p \in profiles
      BY DEF Authority, AuthorityFromAbove
    <3>2. CASE n # b.node
      <4>1. <<p, n>> \notin b.owns /\ \A f \in Flag : <<p, n, f>> \notin b.rights
        BY <1>4, <3>2 DEF BackupOK
      <4> QED
        BY <1>1, <1>4, <3>1, <3>2, <4>1 DEF Elsewhere, Surviving
    <3>3. CASE n = b.node
      <4>1. p \in profiles => /\ <<p, n>> \in b.owns <=> <<p, n>> \in Seated
                             /\ \A f \in Flag : <<p, n, f>> \in b.rights <=> <<p, n, f>> \in Granted
        BY <3>3 DEF Authority, Copies
      <4>2. /\ <<p, n>> \in owns' <=> <<p, n>> \in b.owns /\ p \in profiles
            /\ \A f \in Flag : <<p, n, f>> \in rights' <=> <<p, n, f>> \in b.rights /\ p \in profiles
        BY <1>4, <3>3 DEF Elsewhere, Surviving
      <4> QED
        BY <1>1, <4>1, <4>2
    <3> QED
      BY <3>2, <3>3
  <2> QED
    BY <1>2, <2>1 DEF Authority, AuthorityFromAbove
<1> QED
  BY <1>3, <1>4, RestoreSeats

LEMMA StepAuthority ==
  ASSUME Typed, Files, Paths, Authority, [Next]_vars
  PROVE  Authority'
<1>1. AuthorityFromAbove /\ Copies /\ JobsTyped
  BY DEF Authority, Typed
<1>2. ASSUME NEW h \in Handler, NEW j, Let(j), Take(h, j), UNCHANGED <<tree, people, placed, requests, backups>>
      PROVE  Authority'
  <2>1. \A k \in Handler : Let(job'[k])
    BY <1>1, <1>2 DEF Authority, Take, JobsTyped
  <2>2. AuthorityFromAbove'
    BY <1>1, <1>2 DEF AuthorityFromAbove, people
  <2>3. Copies'
    BY <1>1, <1>2 DEF Copies, people
  <2>4. QED
    BY <2>1, <2>2, <2>3 DEF Authority
<1>3. ASSUME NEW h \in Handler, NEW p \in Acting, Call(h, p) PROVE Authority'
  <2>1. PICK j : Take(h, j) /\ Given(p, j) /\ UNCHANGED <<tree, people, placed, requests>>
    BY <1>3, CallTakes
  <2>2. j.do = "place" /\ j.as = "OWNER" => j.node \notin ChosenAbove
    BY <1>1, <2>1, NoSay DEF Given
  <2>3. j.do = "remove" /\ j.as = "OWNER" => j.node \notin ChosenAbove
    BY <1>1, <2>1, NoSay DEF Given, Removable
  <2>4. j.do = "decide" /\ j.request.kind = "JOIN_BRANCH" /\ j.request.as = "OWNER"
          => j.request.node \notin ChosenAbove
    BY <1>1, <2>1, NoSay DEF Given, MayDecide
  <2>5. j.do # "join"
    BY <2>1 DEF Given
  <2>6. Let(j)
    BY <2>2, <2>3, <2>4, <2>5 DEF Let
  <2>7. backups' = backups
    BY <1>3 DEF Call, CreateSubRole, DeleteRole, RemovePerson, AddPerson, FileRequest, DecideRequest
  <2>8. QED
    BY <1>2, <2>1, <2>6, <2>7
<1>4. ASSUME NEW q, NEW h \in Handler, RemoveOwner(h, q) PROVE Authority'
  <2> DEFINE j == [do |-> "remove", node |-> Root, who |-> q, as |-> "OWNER", supreme |-> TRUE]
  <2>1. Root \in ChosenAbove /\ q \in Acting => <<q, Root>> \notin Seated
    BY DEF ChosenAbove, ChosenAtStart
  <2>2. Root \in ChosenAbove => q \notin Acting
    BY <1>1, <1>4, <2>1 DEF RemoveOwner, AuthorityFromAbove
  <2>3. Let(j)
    BY <2>2 DEF Let
  <2> HIDE DEF j
  <2>4. Take(h, j) /\ UNCHANGED <<tree, people, placed, requests, backups>>
    BY <1>4 DEF RemoveOwner, j
  <2>5. QED
    BY <1>2, <2>3, <2>4
<1>5. ASSUME AuthorityFromAbove', UNCHANGED <<job, backups>>, profiles' \subseteq profiles PROVE Authority'
  <2>1. Copies'
    BY <1>1, <1>5 DEF Copies
  <2> QED
    BY <1>5, <2>1 DEF Authority, Let
<1>6. ASSUME NEW p \in Acting, NEW n \in live, NEW q, NEW f, NEW on, SetFlag(p, n, q, f, on)
      PROVE  Authority'
  <2>1. n \notin ChosenAbove
    BY <1>1, <1>6, NoSay DEF SetFlag
  <2>2. ASSUME NEW x \in Acting, NEW m \in ChosenAbove, NEW g \in Flag
        PROVE  <<x, m, g>> \in rights' <=> <<x, m, g>> \in rights
    <3>1. <<x, m, g>> # <<q, n, f>>
      BY <2>1
    <3>2. QED
      BY <1>6, <3>1 DEF SetFlag
  <2>3. AuthorityFromAbove'
    BY <1>1, <1>6, <2>2 DEF SetFlag, AuthorityFromAbove
  <2>4. QED
    BY <1>5, <1>6, <2>3 DEF SetFlag
<1>7. ASSUME NEW p \in Acting, AtOnce(p) PROVE Authority'
  <2>1. CASE UNCHANGED <<owns, rights, profiles, job, backups>>
    BY <1>1, <1>5, <2>1 DEF AuthorityFromAbove
  <2>2. QED
    BY <1>6, <1>7, <2>1 DEF AtOnce, SetVisibility, ClearRequest, people
<1>8. ASSUME NEW q, AddOwner(q) PROVE Authority'
  <2>1. ASSUME NEW p \in Acting, NEW n \in ChosenAbove
        PROVE  /\ <<p, n>> \in owns' <=> <<p, n>> \in owns
               /\ \A f \in Flag : <<p, n, f>> \in rights' <=> <<p, n, f>> \in rights
    BY <1>8 DEF AddOwner
  <2>2. AuthorityFromAbove'
    BY <1>1, <1>8, <2>1 DEF AddOwner, AuthorityFromAbove
  <2>3. QED
    BY <1>5, <1>8, <2>2 DEF AddOwner
<1>9. ASSUME NEW q, DeleteProfile(q) PROVE Authority'
  <2>1. ASSUME NEW p \in Acting, NEW n \in ChosenAbove
        PROVE  /\ <<p, n>> \in owns' <=> <<p, n>> \in owns /\ p # q
               /\ p \in profiles' <=> p \in profiles /\ p # q
               /\ \A f \in Flag : <<p, n, f>> \in rights' <=> <<p, n, f>> \in rights /\ p # q
    BY <1>9 DEF DeleteProfile
  <2>2. AuthorityFromAbove'
    BY <1>1, <2>1 DEF AuthorityFromAbove
  <2>3. QED
    BY <1>5, <1>9, <2>2 DEF DeleteProfile
<1>10. CASE UNCHANGED vars
  BY <1>1, <1>5, <1>10 DEF vars, AuthorityFromAbove
<1>11. ASSUME NEW h \in Handler, NEW p, NEW b \in backups, RestoreBackup(h, p, b) PROVE Authority'
  <2>1. Let([do |-> "restore", backup |-> b])
    BY DEF Let
  <2> QED
    BY <1>2, <1>11, <2>1, RestoreBegun
<1>12. ASSUME NEW p, NEW n, ExportBackup(p, n) PROVE Authority'
  <2>1. AuthorityFromAbove' /\ job' = job
    BY <1>1, <1>12 DEF ExportBackup, AuthorityFromAbove, people
  <2> QED
    BY <1>12, <2>1, ExportCopies DEF Authority, Let
<1>13. QED
  BY <1>3, <1>4, <1>7, <1>8, <1>9, <1>10, <1>11, <1>12, WorkAuthority, RestoreAuthority DEF Next

LEMMA AlwaysPaths == Spec => [](Typed /\ Files /\ Paths)
<1>1. Init => Typed /\ Files /\ Paths
  BY InitTyped, InitFiles, InitPaths
<1>2. (Typed /\ Files /\ Paths) /\ [Next]_vars => (Typed /\ Files /\ Paths)'
  BY StepTyped, StepPaths
<1>3. QED
  BY <1>1, <1>2, PTL DEF Spec

(* Whatever the acting people create, grant, ask for, approve, back up and put *)
(* back, and however their calls interleave, a branch above which none of them *)
(* starts, and of which no older backup is about, keeps the owners and the     *)
(* flags the layer above gave it (can, canGrantCapability, the people, request *)
(* and backup routes).                                                      *)
THEOREM AuthorityFlowsDown == Spec => []AuthorityFromAbove
<1>1. Authority /\ (Typed /\ Files /\ Paths) /\ [Next]_vars => Authority'
  BY StepAuthority
<1>2. Authority => AuthorityFromAbove
  BY DEF Authority
<1>3. QED
  BY <1>1, <1>2, InitAuthority, AlwaysPaths, PTL DEF Spec

-----------------------------------------------------------------------------
(* Hidden levels.  A chain on one path has a topmost level, and whoever       *)
(* governs it governs every level of the chain and the branch itself.         *)

LEMMA ChainHasTop ==
  ASSUME Typed, Paths, NEW n \in Branch, NEW chain \in SUBSET above[n], chain # {}
  PROVE  \E a \in chain : above[a] \cap chain = {}
<1>1. \A a \in chain : a \in Branch /\ Woven(a)
  BY DEF Typed, TreeTyped, Paths
<1> DEFINE Size(a) == Cardinality(above[a])
           T == {Size(a) : a \in chain}
           R == {ss \in Nat \X Nat : ss[1] < ss[2]}
<1>2. \A a \in chain : Size(a) \in Nat
  BY <1>1, FS_CardinalityType DEF Woven
<1>3. IsWellFoundedOn(R, Nat)
  BY NatLessThanWellFounded, Zenon DEF OpToRel
<1>4. T \subseteq Nat /\ T # {}
  BY <1>2
<1>5. PICK t \in T : \A u \in T : <<u, t>> \notin R
  <2> HIDE DEF T, R
  <2>1. QED
    BY <1>3, <1>4, WFMin
<1>6. PICK a \in chain : Size(a) = t
  BY <1>5
<1>7. ASSUME NEW b \in above[a] \cap chain PROVE FALSE
  <2>1. above[b] \subseteq above[a] /\ b \notin above[b] /\ IsFiniteSet(above[a])
    BY <1>1, <1>6 DEF Woven
  <2>2. Size(b) <= Size(a) /\ Size(b) # Size(a)
    BY <1>7, <2>1, FS_Subset
  <2>3. Size(b) \in Nat /\ Size(a) \in Nat /\ Size(b) \in T
    BY <1>2
  <2> HIDE DEF Size, T
  <2>4. <<Size(b), t>> \in R
    BY <1>6, <2>2, <2>3
  <2>5. QED
    BY <1>5, <2>3, <2>4
<1>8. QED
  BY <1>6, <1>7

LEMMA GovernsDown ==
  ASSUME Typed, Paths, NEW p, NEW n \in Branch, NEW chain \in SUBSET above[n],
         Governs(p, Topmost(chain, n)), NEW m \in chain \cup {n}
  PROVE  Governs(p, m)
<1>1. CASE chain = {}
  BY <1>1 DEF Topmost
<1>2. CASE chain # {}
  <2> DEFINE top == Topmost(chain, n)
  <2>1. top \in chain /\ above[top] \cap chain = {}
    BY <1>2, ChainHasTop DEF Topmost
  <2> HIDE DEF top
  <2>2. Woven(n) /\ top \in above[n] /\ above[top] \subseteq above[n]
    BY <2>1 DEF Paths, Woven
  <2>3. CASE m = n
    BY <2>2, <2>3 DEF Governs, top
  <2>4. CASE m \in chain
    <3>1. m \in Branch /\ m \in above[n] /\ Woven(m) /\ m \notin above[top]
      BY <2>1, <2>4 DEF Paths, Typed, TreeTyped
    <3>2. m = top \/ top \in above[m]
      BY <2>2, <3>1 DEF Woven
    <3>3. above[top] \cup {top} \subseteq above[m] \cup {m}
      BY <3>1, <3>2 DEF Woven
    <3>4. QED
      BY <3>3 DEF Governs, top
  <2>5. QED
    BY <2>3, <2>4
<1>3. QED
  BY <1>1, <1>2

LEMMA DecidesOnlyGoverned ==
  ASSUME Typed, Files, Paths, [Next]_vars, NEW h \in Handler, job'[h].do = "decide", job[h] = Idle,
         NEW n \in job'[h].open
  PROVE  Governs(job'[h].by, n)
<1>1. JobsTyped
  BY DEF Typed
<1>2. job'[h] # job[h]
  BY DEF Idle
<1>3. ASSUME NEW k \in Handler, Work(k) PROVE FALSE
  <2>1. job[k].do # "idle"
    BY <1>3 DEF Work, CreateCommit, placePerson, RemoveCommit, Leave, DeleteRequests, DeleteCommit, FileCommit,
           ApproveJoin, JoinCommit, ApproveVisibility, ApproveDelete, RazeCommit, ApproveCourse,
           CloseRequest, Deciding
  <2>2. k # h
    BY <2>1 DEF Idle
  <2>3. \E j : job' = [job EXCEPT ![k] = j]
    BY <1>3 DEF Work, CreateCommit, placePerson, RemoveCommit, Leave, DeleteRequests, DeleteCommit, FileCommit,
           ApproveJoin, JoinCommit, ApproveVisibility, ApproveDelete, RazeCommit, ApproveCourse,
           CloseRequest, Done, Then, Rest
  <2>4. QED
    BY <1>1, <1>2, <2>2, <2>3 DEF JobsTyped
<1>4. ASSUME NEW k \in Handler, NEW p \in Acting, Call(k, p) PROVE Governs(job'[h].by, n)
  <2>1. PICK j : Take(k, j) /\ Given(p, j) /\ UNCHANGED <<tree, people, placed, requests>>
    BY <1>4, CallTakes
  <2>2. k = h /\ job'[h] = j
    BY <1>1, <1>2, <2>1 DEF Take, JobsTyped
  <2> DEFINE r == j.request
  <2>3. /\ j.do = "decide" /\ j.by = p /\ r \in requests /\ MayDecide(p, r)
        /\ j.open = IF r.kind = "VISIBILITY" THEN HiddenAbove(r.node) \cup {r.node} ELSE {}
    BY <2>1, <2>2 DEF Given
  <2>4. r.kind = "VISIBILITY" /\ n \in HiddenAbove(r.node) \cup {r.node} /\ r.node \in Branch
    BY <2>2, <2>3 DEF Typed, RequestsTyped, Filed, Row
  <2>5. Governs(p, Topmost(HiddenAbove(r.node), r.node))
    BY <2>3, <2>4 DEF MayDecide, can
  <2>6. HiddenAbove(r.node) \subseteq above[r.node]
    BY DEF HiddenAbove
  <2>7. QED
    BY <2>2, <2>3, <2>4, <2>5, <2>6, GovernsDown
<1>5. ASSUME NEW k \in Handler, NEW q, RemoveOwner(k, q) PROVE FALSE
  <2> DEFINE j == [do |-> "remove", node |-> Root, who |-> q, as |-> "OWNER", supreme |-> TRUE]
  <2>1. j.do = "remove"
    OBVIOUS
  <2>2. job' = [job EXCEPT ![k] = j]
    BY <1>5 DEF RemoveOwner, Take
  <2> HIDE DEF j
  <2>3. QED
    BY <1>1, <1>2, <2>1, <2>2 DEF JobsTyped
<1>6. CASE job' = job
  BY <1>2, <1>6
<1>7. ASSUME NEW p \in Acting, AtOnce(p) PROVE job' = job
  BY <1>7 DEF AtOnce, SetVisibility, SetFlag, ClearRequest
<1>8. ASSUME NEW q, AddOwner(q) \/ DeleteProfile(q) PROVE job' = job
  BY <1>8 DEF AddOwner, DeleteProfile
<1>9. ASSUME NEW k \in Handler, RestoreCommit(k) PROVE FALSE
  BY <1>2, <1>9, RestoreEnds DEF Idle
<1>10. ASSUME NEW k \in Handler, NEW p, NEW b \in backups, RestoreBackup(k, p, b) PROVE FALSE
  <2>1. job'[k] = [do |-> "restore", backup |-> b] /\ \A g \in Handler \ {k} : job'[g] = job[g]
    BY <1>10, <1>1, RestoreBegun
  <2> QED
    BY <1>2, <2>1
<1>11. ASSUME NEW p, NEW m, ExportBackup(p, m) PROVE job' = job
  BY <1>11 DEF ExportBackup
<1>12. QED
  BY <1>3, <1>4, <1>5, <1>6, <1>7, <1>8, <1>9, <1>10, <1>11 DEF Next, vars

(* However many levels hide a branch, a handler takes up the approval of its    *)
(* visibility only for someone who governs each of the levels it will open     *)
(* (decideRequest, hiddenAncestors).                                         *)
THEOREM GovernedBeforeOpened == Spec => OpensOnlyGoverned
<1>1. (Typed /\ Files /\ Paths) /\ [Next]_vars
        => [\A h \in Handler : job'[h].do = "decide" /\ job[h] = Idle
              => \A n \in job'[h].open : Governs(job'[h].by, n)]_job
  BY DecidesOnlyGoverned
<1>2. QED
  BY <1>1, AlwaysPaths, PTL DEF Spec, OpensOnlyGoverned

-----------------------------------------------------------------------------
(* Owners.  While two removals from one branch do not race, and no profile is   *)
(* deleted under one, a removal at work leaves an owner.                      *)

Beside(j) ==
  j.do = "remove" /\ j.as = "OWNER" => \E q \in Person : q # j.who /\ <<q, j.node>> \in owns

Removals ==
  /\ \A h \in Handler : Beside(job[h])
  /\ \A h \in Handler, k \in Handler :
       h # k /\ job[h].do = "remove" /\ job[k].do = "remove" => job[h].node # job[k].node

LEMMA TwoOwners ==
  ASSUME NEW n, NEW q \in Owners(n), Cardinality(Owners(n)) > 1
  PROVE  \E p \in Person : p # q /\ <<p, n>> \in owns
<1>1. SUFFICES ASSUME ~\E p \in Person : p # q /\ <<p, n>> \in owns PROVE FALSE
  OBVIOUS
<1>2. Owners(n) = {q}
  BY <1>1 DEF Owners
<1>3. QED
  BY <1>2, FS_Singleton

LEMMA InitRemovals == Init => Removals
  BY DEF Init, Removals, Beside, Idle

\* Owners come, and no handler takes up a removal.
LEMMA GrowsRemovals ==
  ASSUME Removals, owns \subseteq owns',
         \A k \in Handler : job'[k].do = "remove" => job'[k] = job[k]
  PROVE  Removals'
<1>1. ASSUME NEW k \in Handler, job'[k].do = "remove", job'[k].as = "OWNER"
      PROVE  \E q \in Person : q # job'[k].who /\ <<q, job'[k].node>> \in owns'
  BY <1>1 DEF Removals, Beside
<1>2. \A h \in Handler, k \in Handler :
        h # k /\ job'[h].do = "remove" /\ job'[k].do = "remove" => job'[h].node # job'[k].node
  BY DEF Removals
<1>3. QED
  BY <1>1, <1>2 DEF Removals, Beside

LEMMA WorkRemovals ==
  ASSUME Typed, Removals, NEW h \in Handler, Work(h)
  PROVE  Removals' /\ \A n \in Branch : Owners(n) # {} => Owners(n)' # {}
<1>1. JobsTyped /\ JobOK(job[h])
  BY DEF Typed, JobsTyped
<1>2. \A k \in Handler : job'[k].do = "remove" => job'[k] = job[k] /\ k # h
  <2>1. ASSUME NEW j, j.do # "remove", job' = [job EXCEPT ![h] = j]
        PROVE  \A k \in Handler : job'[k].do = "remove" => job'[k] = job[k] /\ k # h
    BY <1>1, <2>1 DEF JobsTyped
  <2>2. \/ job' = [job EXCEPT ![h] = Idle]
        \/ \E q : job' = [job EXCEPT ![h] = [do |-> "leave", who |-> q]]
        \/ \E n : job' = [job EXCEPT ![h] = [do |-> "unroot", node |-> n]]
        \/ \E do \in {"join", "raze", "close"} : \E r : job' = [job EXCEPT ![h] = [do |-> do, request |-> r]]
    BY DEF Work, CreateCommit, placePerson, RemoveCommit, Leave, DeleteRequests, DeleteCommit, FileCommit,
           ApproveJoin, JoinCommit, ApproveVisibility, ApproveDelete, RazeCommit, ApproveCourse,
           CloseRequest, Done, Then, Rest
  <2>3. QED
    BY <2>1, <2>2 DEF Idle
<1>3. CASE RemoveCommit(h) /\ job[h].as # "MEMBER"
  <2> DEFINE at == <<job[h].who, job[h].node>>
  <2>1. job[h].do = "remove" /\ job[h].as = "OWNER" /\ owns' = owns \ {at}
    BY <1>1, <1>3 DEF RemoveCommit, JobOK, Seat
  <2>2. ASSUME NEW n \in Branch, Owners(n) # {} PROVE Owners(n)' # {}
    <3>1. CASE n = job[h].node
      <4>1. PICK q \in Person : q # job[h].who /\ <<q, n>> \in owns
        BY <2>1, <3>1 DEF Removals, Beside
      <4>2. QED
        BY <2>1, <4>1 DEF Owners
    <3>2. CASE n # job[h].node
      BY <2>1, <2>2, <3>2 DEF Owners
    <3>3. QED
      BY <3>1, <3>2
  <2>3. ASSUME NEW k \in Handler, job'[k].do = "remove", job'[k].as = "OWNER"
        PROVE  \E q \in Person : q # job'[k].who /\ <<q, job'[k].node>> \in owns'
    <3>1. k # h /\ job'[k] = job[k] /\ job[k].node # job[h].node
      BY <1>2, <2>1, <2>3 DEF Removals
    <3>2. PICK q \in Person : q # job[k].who /\ <<q, job[k].node>> \in owns
      BY <2>3, <3>1 DEF Removals, Beside
    <3>3. <<q, job[k].node>> \in owns'
      BY <2>1, <3>1, <3>2
    <3>4. QED
      BY <3>1, <3>2, <3>3
  <2>4. \A g \in Handler, k \in Handler :
          g # k /\ job'[g].do = "remove" /\ job'[k].do = "remove" => job'[g].node # job'[k].node
    BY <1>2 DEF Removals
  <2>5. QED
    BY <2>2, <2>3, <2>4 DEF Removals, Beside
<1>4. CASE ~(RemoveCommit(h) /\ job[h].as # "MEMBER")
  <2>1. owns \subseteq owns'
    BY <1>4 DEF Work, CreateCommit, placePerson, RemoveCommit, Leave, DeleteRequests, DeleteCommit,
           FileCommit, ApproveJoin, JoinCommit, ApproveVisibility, ApproveDelete, RazeCommit, ApproveCourse,
           CloseRequest, people, Sit
  <2>2. QED
    BY <1>2, <2>1, GrowsRemovals DEF Owners
<1>5. QED
  BY <1>3, <1>4

LEMMA TakeRemovals ==
  ASSUME "overlap" \notin Offered, Typed, Removals, NEW h \in Handler, NEW j, Take(h, j), owns' = owns,
         Beside(j)
  PROVE  Removals'
<1>1. job'[h] = j /\ \A k \in Handler \ {h} : job'[k] = job[k]
  BY DEF Take, Typed, JobsTyped
<1>2. \A k \in Handler : job[k].do = "remove" /\ j.do = "remove" => job[k].node # j.node
  BY DEF Take, Races
<1>3. \A g \in Handler, k \in Handler :
        g # k /\ job'[g].do = "remove" /\ job'[k].do = "remove" => job'[g].node # job'[k].node
  BY <1>1, <1>2 DEF Removals
<1>4. ASSUME NEW k \in Handler, job'[k].do = "remove", job'[k].as = "OWNER"
      PROVE  \E q \in Person : q # job'[k].who /\ <<q, job'[k].node>> \in owns'
  <2>1. CASE k = h
    BY <1>1, <1>4, <2>1 DEF Beside
  <2>2. CASE k # h
    BY <1>1, <1>4, <2>2 DEF Removals, Beside
  <2>3. QED
    BY <2>1, <2>2
<1>5. QED
  BY <1>3, <1>4 DEF Removals, Beside

\* A restore ends the removals of its branch, and leaves the owners of the others alone.
LEMMA RestoreRemovals ==
  ASSUME Typed, Files, Removals, NEW h \in Handler, RestoreCommit(h)
  PROVE  Removals' /\ \A n \in Branch : Owners(n) # {} => Owners(n)' # {} \/ RestoresOwnerless(h, n)
<1>1. \A k \in Handler : job'[k].do = "remove" => job'[k] = job[k]
  BY RestoreEnds DEF Idle
<1>2. job[h].do = "restore" /\ job'[h] = Idle
  BY RestoreEnds DEF RestoreCommit
<1>3. CASE UNCHANGED <<owns, sits, rights, belongs>>
  BY <1>1, <1>3, GrowsRemovals DEF Owners
<1>4. ASSUME NEW b \in backups, BackupOK(b), b = job[h].backup,
             owns' = Elsewhere(owns, b.node) \cup Surviving(b.owns),
             \A k \in Handler : job'[k].do = "remove" => job'[k].node # b.node
      PROVE  Removals' /\ \A n \in Branch : Owners(n) # {} => Owners(n)' # {} \/ RestoresOwnerless(h, n)
  <2>1. ASSUME NEW k \in Handler, job'[k].do = "remove", job'[k].as = "OWNER"
        PROVE  \E q \in Person : q # job'[k].who /\ <<q, job'[k].node>> \in owns'
    <3>1. job'[k] = job[k] /\ job[k].node # b.node
      BY <1>1, <1>4, <2>1
    <3>2. PICK q \in Person : q # job[k].who /\ <<q, job[k].node>> \in owns
      BY <2>1, <3>1 DEF Removals, Beside
    <3>3. <<q, job[k].node>> \in owns'
      BY <1>4, <3>1, <3>2 DEF Elsewhere
    <3> QED
      BY <3>1, <3>2, <3>3
  <2>2. \A g \in Handler, k \in Handler :
          g # k /\ job'[g].do = "remove" /\ job'[k].do = "remove" => job'[g].node # job'[k].node
    BY <1>1 DEF Removals
  <2>3. ASSUME NEW n \in Branch, Owners(n) # {} PROVE Owners(n)' # {} \/ RestoresOwnerless(h, n)
    <3>1. CASE n # b.node
      <4>1. PICK q \in Person : <<q, n>> \in owns
        BY <2>3 DEF Owners
      <4>2. <<q, n>> \in owns'
        BY <1>4, <3>1, <4>1 DEF Elsewhere
      <4> QED
        BY <4>2 DEF Owners
    <3>2. CASE n = b.node /\ Surviving(b.owns) = {}
      BY <1>2, <1>4, <3>2 DEF RestoresOwnerless
    <3>3. CASE n = b.node /\ Surviving(b.owns) # {}
      <4>1. PICK s \in Surviving(b.owns) : TRUE
        BY <3>3
      <4>2. s \in b.owns /\ s \in owns'
        BY <1>4, <4>1 DEF Surviving
      <4>3. s = <<s[1], n>> /\ s[1] \in Person
        BY <1>4, <3>3, <4>2 DEF BackupOK
      <4> QED
        BY <4>2, <4>3 DEF Owners
    <3> QED
      BY <3>1, <3>2, <3>3
  <2> QED
    BY <2>1, <2>2, <2>3 DEF Removals, Beside
<1> QED
  BY <1>3, <1>4, RestoreSeats

\* How a branch comes to have no owner.
LosesOwners(n) ==
  \/ \E q \in profiles \ profiles' : q \in Owners(n)
  \/ \E h \in Handler : RestoresOwnerless(h, n)

LEMMA StepRemovals ==
  ASSUME "overlap" \notin Offered, Typed, Files, Removals, [Next]_vars
  PROVE  /\ Removals'
         /\ \A n \in Branch : Owners(n) # {} => Owners(n)' # {} \/ LosesOwners(n)
<1>1. ASSUME owns \subseteq owns', Removals'
      PROVE  /\ Removals'
             /\ \A n \in Branch : Owners(n) # {} => Owners(n)' # {} \/ LosesOwners(n)
  BY <1>1 DEF Owners
<1>2. ASSUME NEW h \in Handler, NEW p \in Acting, Call(h, p) PROVE owns \subseteq owns' /\ Removals'
  <2>1. PICK j : Take(h, j) /\ Given(p, j) /\ UNCHANGED <<tree, people, placed, requests>>
    BY <1>2, CallTakes
  <2>2. ASSUME j.do = "remove", j.as = "OWNER"
        PROVE  \E q \in Person : q # j.who /\ <<q, j.node>> \in owns
    <3>1. Removable(p, j.node, j.who, j.as)
      BY <2>1, <2>2 DEF Given
    <3>2. <<j.who, j.node>> \in owns /\ Cardinality(Owners(j.node)) > 1
      BY <2>2, <3>1 DEF Removable
    <3>3. j.who \in Owners(j.node)
      BY <3>2 DEF Owners, Typed, SeatsTyped
    <3>4. QED
      BY <3>2, <3>3, TwoOwners
  <2>3. QED
    BY <2>1, <2>2, TakeRemovals DEF Beside, people
<1>3. ASSUME NEW h \in Handler, NEW q, RemoveOwner(h, q) PROVE owns \subseteq owns' /\ Removals'
  <2> DEFINE j == [do |-> "remove", node |-> Root, who |-> q, as |-> "OWNER", supreme |-> TRUE]
  <2>1. q \in Owners(Root) /\ Cardinality(Owners(Root)) > 1
    BY <1>3 DEF RemoveOwner, Owners, Typed, SeatsTyped
  <2>2. \E p \in Person : p # q /\ <<p, Root>> \in owns
    BY <2>1, TwoOwners
  <2>3. Beside(j)
    BY <2>2 DEF Beside
  <2> HIDE DEF j
  <2>4. Take(h, j) /\ owns' = owns
    BY <1>3 DEF RemoveOwner, people, j
  <2>5. QED
    BY <2>3, <2>4, TakeRemovals
<1>4. ASSUME NEW q, DeleteProfile(q)
      PROVE  /\ Removals'
             /\ \A n \in Branch : Owners(n) # {} =>
                  Owners(n)' # {} \/ \E p \in profiles \ profiles' : p \in Owners(n)
  <2>1. /\ q \in profiles \ profiles' /\ owns' = {o \in owns : o[1] # q} /\ job' = job
        /\ \A h \in Handler : job[h].do = "remove" => <<q, job[h].node>> \notin owns
    BY <1>4 DEF DeleteProfile, KeepsRemovals
  <2>2. ASSUME NEW h \in Handler, job[h].do = "remove", job[h].as = "OWNER"
        PROVE  \E p \in Person : p # job[h].who /\ <<p, job[h].node>> \in owns'
    <3>1. PICK p \in Person : p # job[h].who /\ <<p, job[h].node>> \in owns
      BY <2>2 DEF Removals, Beside
    <3>2. <<p, job[h].node>> \in owns'
      BY <2>1, <2>2, <3>1
    <3>3. QED
      BY <3>1, <3>2
  <2>3. Removals'
    <3>1. ASSUME NEW h \in Handler, job'[h].do = "remove", job'[h].as = "OWNER"
          PROVE  \E p \in Person : p # job'[h].who /\ <<p, job'[h].node>> \in owns'
      <4>1. job'[h] = job[h]
        BY <2>1
      <4>2. QED
        BY <2>2, <3>1, <4>1
    <3>2. \A g \in Handler, h \in Handler :
            g # h /\ job'[g].do = "remove" /\ job'[h].do = "remove" => job'[g].node # job'[h].node
      BY <2>1 DEF Removals
    <3>3. QED
      BY <3>1, <3>2 DEF Removals, Beside
  <2>4. ASSUME NEW n \in Branch, Owners(n) # {}, q \notin Owners(n) PROVE Owners(n)' # {}
    <3>1. PICK p \in Person : <<p, n>> \in owns /\ p # q
      BY <2>4 DEF Owners
    <3>2. <<p, n>> \in owns'
      BY <2>1, <3>1
    <3>3. QED
      BY <3>1, <3>2 DEF Owners
  <2>5. QED
    BY <2>1, <2>3, <2>4
<1>5. ASSUME NEW p \in Acting, AtOnce(p) PROVE owns \subseteq owns' /\ Removals'
  <2>1. owns' = owns /\ job' = job
    BY <1>5 DEF AtOnce, SetVisibility, SetFlag, ClearRequest, people
  <2>2. QED
    BY <2>1, GrowsRemovals
<1>6. ASSUME NEW q, AddOwner(q) PROVE owns \subseteq owns' /\ Removals'
  <2>1. owns \subseteq owns' /\ job' = job
    BY <1>6 DEF AddOwner
  <2>2. QED
    BY <2>1, GrowsRemovals
<1>7. ASSUME UNCHANGED vars PROVE owns \subseteq owns' /\ Removals'
  <2>1. owns' = owns /\ job' = job
    BY <1>7 DEF vars, people
  <2>2. QED
    BY <2>1, GrowsRemovals
<1>8. ASSUME NEW h \in Handler, NEW p, NEW b \in backups, RestoreBackup(h, p, b)
      PROVE  owns \subseteq owns' /\ Removals'
  <2>1. Take(h, [do |-> "restore", backup |-> b]) /\ owns' = owns
    BY <1>8, RestoreBegun DEF people
  <2>2. Beside([do |-> "restore", backup |-> b])
    BY DEF Beside
  <2> QED
    BY <2>1, <2>2, TakeRemovals
<1>9. ASSUME NEW p, NEW m, ExportBackup(p, m) PROVE owns \subseteq owns' /\ Removals'
  <2>1. owns' = owns /\ job' = job
    BY <1>9 DEF ExportBackup, people
  <2> QED
    BY <2>1, GrowsRemovals
<1>10. QED
  BY <1>1, <1>2, <1>3, <1>4, <1>5, <1>6, <1>7, <1>8, <1>9, WorkRemovals, RestoreRemovals DEF Next, LosesOwners

(* While removals from one branch do not race and no owner's profile goes under *)
(* one, a branch that has an owner keeps one as long as it exists, across the   *)
(* role route, the Supreme route, joins, deletions and restored backups.  Two   *)
(* things take the last: a deleted profile takes its seats along, and a backup  *)
(* of the branch with no owner left is put back as it is (I2: removePerson, the *)
(* owner routes, restore-bkp).                                              *)
THEOREM OwnersStay == "overlap" \notin Offered => (Spec => OwnedStaysOwned)
<1> SUFFICES ASSUME "overlap" \notin Offered PROVE Spec => OwnedStaysOwned
  OBVIOUS
<1>1. Init => Typed /\ Files /\ Removals
  BY InitTyped, InitFiles, InitRemovals
<1>2. (Typed /\ Files /\ Removals) /\ [Next]_vars => (Typed /\ Files /\ Removals)'
  BY StepTyped, StepRemovals
<1>3. (Typed /\ Files /\ Removals) /\ [Next]_vars
        => [\A n \in live \cap live' : Owners(n) # {} =>
              \/ Owners(n)' # {}
              \/ \E q \in profiles \ profiles' : q \in Owners(n)
              \/ \E h \in Handler : RestoresOwnerless(h, n)]_owns
  BY StepRemovals DEF Typed, TreeTyped, LosesOwners
<1>4. QED
  BY <1>1, <1>2, <1>3, PTL DEF Spec, OwnedStaysOwned
=============================================================================
