----------------------------- MODULE Compliance -----------------------------
(***************************************************************************)
(* One course, the branches it is placed on, and who is late with it:       *)
(* apps/api/src/courses/helpers.ts (the deadline arithmetic), the course     *)
(* routes that place, withdraw, republish and complete it, the compliance    *)
(* report and the nightly job.                                             *)
(*                                                                         *)
(* Lateness is never stored.  Three views compute it from the same rows:    *)
(* My Learning, the report of a branch, and the course's own page.  The     *)
(* library shows the stored status as it is.                               *)
(*                                                                         *)
(* A deadline that runs from the latest of several instants has passed when *)
(* it has passed from each of them; one that runs from the earliest, when   *)
(* it has passed from some.  The views below are written that way.          *)
(*                                                                         *)
(* The database promises no order among rows.  Where the code lets the      *)
(* first row win, any row that may come first is a possible winner.         *)
(*                                                                         *)
(* Refusals (no authority, an archived course, a missing row) change        *)
(* nothing and are left out, as are notifications and audit entries.        *)
(***************************************************************************)
EXTENDS Integers

CONSTANTS
  Profile,      \* people of the organization
  Node,         \* role nodes
  Ancestors,    \* the role nodes strictly above each node
  Settings,     \* bound: what placing the course may ask for
  Schedules,    \* bound: <<deadlineDays, retakeEveryNDays>> of the course
  Offered,      \* bound: "overlap", requests interleave; "widen", a placement
                \* is reconfigured to oblige people it did not oblige before
  MaxVersion,   \* bound on editions
  MaxTime       \* bound on the clock

Never == 0      \* null, for an instant and for a number of days

ASSUME TreeAssumption ==
  /\ Ancestors \in [Node -> SUBSET Node]
  /\ \A n \in Node : n \notin Ancestors[n]
  /\ \A n \in Node : \A m \in Ancestors[n] : Ancestors[m] \subseteq Ancestors[n]
ASSUME BoundsAssumption == MaxVersion \in Nat /\ MaxTime \in Nat
ASSUME SettingsAssumption ==
  /\ Settings \subseteq [mandatory : BOOLEAN, inherit : BOOLEAN, deadlineDays : Nat, retakeEveryNDays : Nat]
  /\ Schedules \subseteq Nat \X Nat /\ Schedules # {}

VARIABLES
  now,        \* the wall clock
  course,     \* the Course row
  cp,         \* CoursePlacement rows: where the course is placed, and how
  occupies,   \* Placement rows: since when each person sits in each node
  record,     \* CompletionRecord rows
  resets,     \* publishedAt of the editions that reset completions
  completing, \* locals of a completion in flight
  publishing, \* locals of a republication in flight
  sweep,      \* locals of the nightly job: the records it found due
  owedSince   \* history: since when each person has owed the course

vars == <<now, course, cp, occupies, record, resets, completing, publishing, sweep, owedSince>>

-----------------------------------------------------------------------------
(* Rows and locals.                                                        *)

CourseRow == [withdrawn : BOOLEAN, version : Nat, deadlineDays : Nat, retakeEveryNDays : Nat]
PlacementRow == [mandatory : BOOLEAN, inherit : BOOLEAN, deadlineDays : Nat,
                 retakeEveryNDays : Nat, createdAt : Nat]
NoPlacement == [mandatory |-> FALSE, inherit |-> FALSE, deadlineDays |-> Never,
                retakeEveryNDays |-> Never, createdAt |-> Never]
RecordRow == [status : {"none", "COMPLETED", "EXPIRED"}, completedAt : Nat,
              validUntil : Nat, courseVersion : Nat]
NoRecord == [status |-> "none", completedAt |-> Never, validUntil |-> Never, courseVersion |-> 0]
Request == [open : BOOLEAN, version : Nat, retake : Nat]
NoRequest == [open |-> FALSE, version |-> 0, retake |-> Never]
Publication == [at : {"idle", "log", "find", "expire"}, reset : BOOLEAN, todo : SUBSET Profile]
NoPublication == [at |-> "idle", reset |-> FALSE, todo |-> {}]

TypeOK ==
  /\ now \in Nat
  /\ course \in CourseRow
  /\ cp \in [Node -> PlacementRow]
  /\ occupies \in [Profile -> [Node -> Nat]]
  /\ record \in [Profile -> RecordRow]
  /\ resets \subseteq Nat
  /\ completing \in [Profile -> Request]
  /\ publishing \in Publication
  /\ sweep \subseteq Profile
  /\ owedSince \in [Profile -> Nat]

-----------------------------------------------------------------------------
(* Who the course reaches.  A sighting pairs a placement of the course with *)
(* a node the person sits in.                                              *)

Placed(n) == cp[n].createdAt # Never
SelfOrAncestor(a, n) == a = n \/ a \in Ancestors[n]
Reaches(n, m) == n = m \/ (cp[n].inherit /\ SelfOrAncestor(n, m))

Sightings(p) ==
  {s \in Node \X Node : Placed(s[1]) /\ occupies[p][s[2]] # Never /\ Reaches(s[1], s[2])}
MandatorySightings(p) == {s \in Sightings(p) : cp[s[1]].mandatory}
Obliged(p) == MandatorySightings(p) # {}

LaterOf(a, b) == IF a > b THEN a ELSE b
\* Mutant: the deadline runs from the day the course was placed.
ReachedAtPlacing(p, s) == cp[s[1]].createdAt
ReachedAt(p, s) == LaterOf(cp[s[1]].createdAt, occupies[p][s[2]])

OrElse(own, default) == IF own # Never THEN own ELSE default
DeadlineDays(n) == OrElse(cp[n].deadlineDays, course.deadlineDays)
RetakeDays(n) == OrElse(cp[n].retakeEveryNDays, course.retakeEveryNDays)

(* The placement whose settings hold for a person: a mandatory one when any *)
(* reaches them, and among those the first the database returns.            *)
Winners(p) ==
  {s[1] : s \in IF Obliged(p) THEN MandatorySightings(p) ELSE Sightings(p)}

-----------------------------------------------------------------------------
(* What a completion is worth.                                             *)

IsCompliant(p) ==
  /\ record[p].status = "COMPLETED"
  /\ record[p].validUntil = Never \/ record[p].validUntil > now
HasLapsed(p) ==
  /\ record[p].status = "COMPLETED"
  /\ record[p].validUntil # Never /\ record[p].validUntil <= now
EffectiveStatus(p, mandatory) ==
  CASE record[p].status = "none" -> IF mandatory THEN "ASSIGNED" ELSE "AVAILABLE"
    [] HasLapsed(p) -> "EXPIRED"
    [] OTHER -> record[p].status

\* Mutant: an edition that resets completions reopens the window for everybody.
ReopenedForAll(p) ==
  {t \in {record[p].validUntil} : t # Never /\ t <= now}
    \cup {t \in resets : t > record[p].completedAt /\ t <= now}

(* The instants at which a new cycle opened for somebody who had completed. *)
Reopenings(p) ==
  IF record[p].completedAt = Never THEN {}
  ELSE {t \in {record[p].validUntil} : t # Never /\ t <= now}
         \cup {t \in resets : t > record[p].completedAt /\ t <= now}

IsPastDeadline(start, days) == days # Never /\ start + days < now

(* The window has closed from the earliest sighting and from every reopening. *)
WindowClosed(p, sightings, days) ==
  /\ \E s \in sightings : IsPastDeadline(ReachedAt(p, s), days)
  /\ \A t \in Reopenings(p) : IsPastDeadline(t, days)

-----------------------------------------------------------------------------
(* The three views of lateness, and the library.                           *)

(* My Learning, and the nightly notices, when placement w wins.             *)
LearnerOverdue(p, w) ==
  /\ ~course.withdrawn /\ Obliged(p) /\ ~IsCompliant(p)
  /\ WindowClosed(p, MandatorySightings(p), DeadlineDays(w))

(* The report of branch b.  One placement lends its settings to everybody   *)
(* in the report: a mandatory one if the branch sees any.                   *)
Subtree(b) == {n \in Node : SelfOrAncestor(b, n)}
SeenFrom(b) == {n \in Node : Placed(n) /\ (n \in Subtree(b) \/ (cp[n].inherit /\ SelfOrAncestor(n, b)))}
ReportWinners(b) ==
  IF \E n \in SeenFrom(b) : cp[n].mandatory THEN {n \in SeenFrom(b) : cp[n].mandatory}
                                            ELSE SeenFrom(b)
ReportSightings(b, p) == {s \in Sightings(p) : s[1] \in SeenFrom(b) /\ s[2] \in Subtree(b)}
ReportClock(b, p) ==
  LET mandatory == {s \in ReportSightings(b, p) : cp[s[1]].mandatory}
  IN  IF mandatory # {} THEN mandatory ELSE ReportSightings(b, p)
ReportOverdue(b, p, w) ==
  /\ cp[w].mandatory /\ ~IsCompliant(p)
  /\ WindowClosed(p, ReportClock(b, p), DeadlineDays(w))

(* The course's own page, when sighting s is the first one it meets.        *)
CoursePageOverdue(p, s) ==
  /\ cp[s[1]].mandatory /\ ~IsCompliant(p)
  /\ WindowClosed(p, {s}, DeadlineDays(s[1]))

(* The library repeats the stored status, to those the course reaches.      *)
LibraryStatus(p) ==
  CASE Sightings(p) = {} -> "none"
    [] record[p].status = "none" -> "AVAILABLE"
    [] OTHER -> record[p].status

-----------------------------------------------------------------------------
Init ==
  /\ now = 1
  /\ \E s \in Schedules :
       course = [withdrawn |-> FALSE, version |-> 1, deadlineDays |-> s[1], retakeEveryNDays |-> s[2]]
  /\ cp = [n \in Node |-> NoPlacement]
  /\ occupies = [p \in Profile |-> [n \in Node |-> Never]]
  /\ record = [p \in Profile |-> NoRecord]
  /\ resets = {}
  /\ completing = [p \in Profile |-> NoRequest]
  /\ publishing = NoPublication
  /\ sweep = {}
  /\ owedSince = [p \in Profile |-> Never]

(* A handler runs from its first step to its last within one instant, with  *)
(* nothing in between, unless the run offers overlapping requests.          *)
Quiet == /\ publishing = NoPublication /\ sweep = {}
         /\ \A p \in Profile : ~completing[p].open
MayBegin == "overlap" \in Offered \/ Quiet

-----------------------------------------------------------------------------
(* People come and go.                                                     *)

PlacePerson(p, n) ==
  /\ occupies[p][n] = Never
  /\ occupies' = [occupies EXCEPT ![p][n] = now]
  /\ UNCHANGED <<now, course, cp, record, resets, completing, publishing, sweep>>

RemovePerson(p, n) ==
  /\ occupies[p][n] # Never
  /\ occupies' = [occupies EXCEPT ![p][n] = Never]
  /\ UNCHANGED <<now, course, cp, record, resets, completing, publishing, sweep>>

-----------------------------------------------------------------------------
(* Placing the course.  Placing it where it already is reconfigures the row *)
(* and leaves createdAt as it was.                                         *)

Narrows(n, s) == (s.mandatory => cp[n].mandatory) /\ (s.inherit => cp[n].inherit)

Place(n, s) ==
  /\ Placed(n) => "widen" \in Offered \/ Narrows(n, s)
  /\ cp' = [cp EXCEPT ![n] =
              [mandatory |-> s.mandatory, inherit |-> s.inherit,
               deadlineDays |-> s.deadlineDays, retakeEveryNDays |-> s.retakeEveryNDays,
               createdAt |-> IF Placed(n) THEN cp[n].createdAt ELSE now]]
  /\ UNCHANGED <<now, course, occupies, record, resets, completing, publishing, sweep>>

Unplace(n) ==
  /\ Placed(n)
  /\ cp' = [cp EXCEPT ![n] = NoPlacement]
  /\ UNCHANGED <<now, course, occupies, record, resets, completing, publishing, sweep>>

-----------------------------------------------------------------------------
(* The course itself.                                                      *)

Withdraw(w) ==
  /\ course.withdrawn # w
  /\ course' = [course EXCEPT !.withdrawn = w]
  /\ UNCHANGED <<now, cp, occupies, record, resets, completing, publishing, sweep>>

(* An edit of the metadata: no new edition.                                *)
EditSchedule(s) ==
  /\ <<course.deadlineDays, course.retakeEveryNDays>> # s
  /\ course' = [course EXCEPT !.deadlineDays = s[1], !.retakeEveryNDays = s[2]]
  /\ UNCHANGED <<now, cp, occupies, record, resets, completing, publishing, sweep>>

(* New content: only out of deployment, and straight back into it.  A new   *)
(* edition and a completion never bear the same instant.                   *)
Publish(reset) ==
  /\ publishing = NoPublication /\ course.withdrawn /\ course.version < MaxVersion
  /\ \A p \in Profile : record[p].completedAt # now
  /\ course' = [course EXCEPT !.version = @ + 1, !.withdrawn = FALSE]
  /\ publishing' = [at |-> "log", reset |-> reset, todo |-> {}]
  /\ UNCHANGED <<now, cp, occupies, record, resets, completing, sweep>>

LogEdition ==
  /\ publishing.at = "log"
  /\ IF publishing.reset
       THEN /\ resets' = resets \cup {now}
            /\ publishing' = [publishing EXCEPT !.at = "find"]
       ELSE /\ resets' = resets
            /\ publishing' = NoPublication
  /\ UNCHANGED <<now, course, cp, occupies, record, completing, sweep>>

FindOutdated ==
  /\ publishing.at = "find"
  /\ LET outdated == {p \in Profile : record[p].status = "COMPLETED" /\ record[p].courseVersion < course.version}
     IN  publishing' = IF outdated = {} THEN NoPublication
                       ELSE [at |-> "expire", reset |-> TRUE, todo |-> outdated]
  /\ UNCHANGED <<now, course, cp, occupies, record, resets, completing, sweep>>

ExpireOutdated(p) ==
  /\ publishing.at = "expire" /\ p \in publishing.todo
  /\ record' = [record EXCEPT ![p].status = "EXPIRED"]
  /\ publishing' = IF publishing.todo = {p} THEN NoPublication
                   ELSE [publishing EXCEPT !.todo = @ \ {p}]
  /\ UNCHANGED <<now, course, cp, occupies, resets, completing, sweep>>

-----------------------------------------------------------------------------
(* Completing it: by hand, or by passing the exam.                         *)

OpenCompletion(p, w) ==
  /\ ~completing[p].open /\ ~course.withdrawn /\ w \in Winners(p) /\ now \notin resets
  /\ completing' = [completing EXCEPT ![p] =
                      [open |-> TRUE, version |-> course.version, retake |-> RetakeDays(w)]]
  /\ UNCHANGED <<now, course, cp, occupies, record, resets, publishing, sweep>>

\* Mutant: the row takes the exam's verdict for its status.
RecordVerdict(p) ==
  /\ completing[p].open
  /\ record' = [record EXCEPT ![p].status = "PASSED", ![p].completedAt = now]
  /\ completing' = [completing EXCEPT ![p] = NoRequest]
  /\ UNCHANGED <<now, course, cp, occupies, resets, publishing, sweep>>

RecordCompletion(p) ==
  /\ completing[p].open
  /\ now \notin resets
  /\ record' = [record EXCEPT ![p] =
                  [status |-> "COMPLETED", completedAt |-> now,
                   validUntil |-> IF completing[p].retake # Never THEN now + completing[p].retake
                                                                   ELSE Never,
                   courseVersion |-> completing[p].version]]
  /\ completing' = [completing EXCEPT ![p] = NoRequest]
  /\ UNCHANGED <<now, course, cp, occupies, resets, publishing, sweep>>

-----------------------------------------------------------------------------
(* The nightly job: find the completions past their validity, then rewrite  *)
(* and announce them one after the other.                                  *)

SweepFind ==
  /\ sweep = {}
  /\ sweep' = {p \in Profile : record[p].status = "COMPLETED"
                                 /\ record[p].validUntil # Never /\ record[p].validUntil < now}
  /\ sweep' # {}
  /\ UNCHANGED <<now, course, cp, occupies, record, resets, completing, publishing>>

\* Mutant: the rewrite forgets when the completion ran out.
SweepForget(p) ==
  /\ p \in sweep
  /\ record' = [record EXCEPT ![p].status = "EXPIRED", ![p].validUntil = Never]
  /\ sweep' = sweep \ {p}
  /\ UNCHANGED <<now, course, cp, occupies, resets, completing, publishing>>

SweepExpire(p) ==
  /\ p \in sweep
  /\ record' = [record EXCEPT ![p].status = "EXPIRED"]
  /\ sweep' = sweep \ {p}
  /\ UNCHANGED <<now, course, cp, occupies, resets, completing, publishing>>

-----------------------------------------------------------------------------
Tick ==
  /\ now < MaxTime
  /\ now' = now + 1
  /\ UNCHANGED <<course, cp, occupies, record, resets, completing, publishing, sweep>>

(* A person owes the course while a mandatory placement reaches them and no *)
(* completion of theirs counts.                                            *)
Owes(p) == Obliged(p) /\ ~IsCompliant(p)
Remember ==
  owedSince' = [p \in Profile |->
                  IF ~Owes(p)' THEN Never
                  ELSE IF owedSince[p] # Never THEN owedSince[p] ELSE now']

Begin ==
  \/ \E p \in Profile, n \in Node : PlacePerson(p, n) \/ RemovePerson(p, n)
  \/ \E n \in Node, s \in Settings : Place(n, s)
  \/ \E n \in Node : Unplace(n)
  \/ \E w \in BOOLEAN : Withdraw(w)
  \/ \E s \in Schedules : EditSchedule(s)
  \/ \E reset \in BOOLEAN : Publish(reset)
  \/ \E p \in Profile, w \in Node : OpenCompletion(p, w)
  \/ SweepFind
  \/ Tick
Continue ==
  \/ LogEdition
  \/ FindOutdated
  \/ \E p \in Profile : ExpireOutdated(p) \/ RecordCompletion(p) \/ SweepExpire(p)

Next == ((MayBegin /\ Begin) \/ Continue) /\ Remember
Spec == Init /\ [][Next]_vars

-----------------------------------------------------------------------------
(* Properties.                                                             *)

(* Nobody is called late before they have had the whole window: since they  *)
(* last began to owe the course - it reached them as an obligation, their   *)
(* completion lapsed, or an edition reset it - more than the deadline that  *)
(* holds for them has gone by.  (deadlineStartsAt, coursesReaching)         *)
WholeWindowGranted ==
  \A p \in Profile : \A w \in Winners(p) :
    LearnerOverdue(p, w) => /\ owedSince[p] # Never
                            /\ owedSince[p] + DeadlineDays(w) < now

(* What the three views of lateness say of a person - their own page, the   *)
(* report of every branch, the course's page - does not depend on whether   *)
(* the nightly job has rewritten a lapsed completion yet.  (hasLapsed,      *)
(* isCompliant, effectiveStatus)                                           *)
Verdict(p) ==
  [done   |-> IsCompliant(p),
   status |-> [mandatory \in BOOLEAN |-> EffectiveStatus(p, mandatory)],
   late   |-> {w \in Winners(p) : LearnerOverdue(p, w)},
   report |-> [b \in Node |-> {w \in ReportWinners(b) : ReportOverdue(b, p, w)}],
   page   |-> {s \in Sightings(p) : CoursePageOverdue(p, s)}]
SweepChangesNoVerdict ==
  [][(sweep' # sweep) => \A p \in Profile : Verdict(p)' = Verdict(p)]_vars

(* Nor does what the library shows beside the course.  (myStatus)           *)
LibraryDoesNotWait ==
  [][(sweep' # sweep) => \A p \in Profile : LibraryStatus(p)' = LibraryStatus(p)]_vars

(* A deadline is not an amnesty: while nobody changes what is asked of a     *)
(* person and no completion of theirs still has time to run, being late     *)
(* ends only by completing the course, or when an edition resets a          *)
(* completion they had.  (deadlineStartsAt, isPastDeadline)                 *)
LateStaysLate ==
  [][(cp' = cp /\ occupies' = occupies /\ course'.deadlineDays = course.deadlineDays /\ ~course'.withdrawn)
     => \A p \in Profile :
          (/\ record'[p].completedAt = record[p].completedAt
           /\ record[p].validUntil <= now
           /\ resets' = resets \/ record[p].completedAt = Never)
          => \A w \in Winners(p) : LearnerOverdue(p, w) => LearnerOverdue(p, w)']_vars

(* The nightly job expires only completions that have run out.              *)
OnlyRunOutIsExpired ==
  [][\A p \in Profile : (sweep' # sweep /\ record[p].status = "COMPLETED" /\ record'[p].status = "EXPIRED")
       => record[p].validUntil # Never /\ record[p].validUntil < now]_vars

(* While the course is deployed, the report of any branch that sees all of  *)
(* a person's placements says of them what their own page says.             *)
ReportAgreesWithLearner ==
  ~course.withdrawn =>
    \A b \in Node, p \in Profile :
      (\A n \in Node : occupies[p][n] # Never => n \in Subtree(b)) =>
        ((\E w \in ReportWinners(b) : ReportOverdue(b, p, w)) <=> (\E w \in Winners(p) : LearnerOverdue(p, w)))
=============================================================================
