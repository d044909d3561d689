-------------------------- MODULE ComplianceProofs --------------------------
(* What Compliance promises for every tree, every set of people and every    *)
(* length of deadline and cycle.                                            *)
EXTENDS Compliance, TLAPS

USE DEF Never

-----------------------------------------------------------------------------
(* Every variable keeps its type, whatever the bounds and the traffic.     *)

LEMMA TypeInit == Init => TypeOK
BY SettingsAssumption
   DEF Init, TypeOK, CourseRow, PlacementRow, NoPlacement, RecordRow, NoRecord, Request, NoRequest,
       Publication, NoPublication

LEMMA RememberType == now' \in Nat /\ owedSince \in [Profile -> Nat] /\ Remember
                        => owedSince' \in [Profile -> Nat]
BY DEF Remember

LEMMA RetakeType ==
  ASSUME course \in CourseRow, cp \in [Node -> PlacementRow], NEW w \in Node
  PROVE  RetakeDays(w) \in Nat /\ DeadlineDays(w) \in Nat
BY DEF RetakeDays, DeadlineDays, OrElse, CourseRow, PlacementRow

LEMMA PublicationType ==
  ASSUME publishing \in Publication, NEW a \in {"idle", "log", "find", "expire"}, NEW T \in SUBSET Profile
  PROVE  /\ NoPublication \in Publication
         /\ [publishing EXCEPT !.at = a] \in Publication
         /\ [publishing EXCEPT !.todo = T] \in Publication
         /\ [at |-> a, reset |-> TRUE, todo |-> T] \in Publication
<1>1. {} \in SUBSET Profile
  OBVIOUS
<1>2. NoPublication \in Publication
  BY <1>1 DEF NoPublication, Publication
<1>3. PICK x \in {"idle", "log", "find", "expire"}, r \in BOOLEAN, D \in SUBSET Profile :
        publishing = [at |-> x, reset |-> r, todo |-> D]
  BY Zenon DEF Publication
<1>4. [publishing EXCEPT !.at = a] = [at |-> a, reset |-> r, todo |-> D]
  BY <1>3
<1>5. [publishing EXCEPT !.todo = T] = [at |-> x, reset |-> r, todo |-> T]
  BY <1>3
<1> QED
  BY <1>2, <1>4, <1>5 DEF Publication

LEMMA TypeStep == TypeOK /\ [Next]_vars => TypeOK'
<1> SUFFICES ASSUME TypeOK, [Next]_vars PROVE TypeOK'
    OBVIOUS
<1> USE DEF TypeOK
<1>1. CASE UNCHANGED vars
  BY <1>1 DEF vars
<1>2. CASE Next
  <2> DEFINE Rest == /\ now' \in Nat /\ course' \in CourseRow /\ cp' \in [Node -> PlacementRow]
                     /\ occupies' \in [Profile -> [Node -> Nat]] /\ record' \in [Profile -> RecordRow]
                     /\ resets' \subseteq Nat /\ completing' \in [Profile -> Request]
                     /\ publishing' \in Publication /\ sweep' \subseteq Profile
  <2> SUFFICES Rest
    BY <1>2, RememberType DEF Next
  <2>1. ASSUME NEW p \in Profile, NEW n \in Node, PlacePerson(p, n) PROVE Rest
    BY <2>1 DEF PlacePerson
  <2>2. ASSUME NEW p \in Profile, NEW n \in Node, RemovePerson(p, n) PROVE Rest
    BY <2>2 DEF RemovePerson
  <2>3. ASSUME NEW n \in Node, NEW s \in Settings, Place(n, s) PROVE Rest
    <3>1. s \in [mandatory : BOOLEAN, inherit : BOOLEAN, deadlineDays : Nat, retakeEveryNDays : Nat]
      BY SettingsAssumption
    <3>2. cp[n].createdAt \in Nat
      BY DEF PlacementRow
    <3>3. PICK c \in Nat : cp' = [cp EXCEPT ![n] =
              [mandatory |-> s.mandatory, inherit |-> s.inherit, deadlineDays |-> s.deadlineDays,
               retakeEveryNDays |-> s.retakeEveryNDays, createdAt |-> c]]
      BY <2>3, <3>2 DEF Place
    <3>4. cp' \in [Node -> PlacementRow]
      BY <3>1, <3>3 DEF PlacementRow
    <3> QED
      BY <2>3, <3>4 DEF Place
  <2>4. ASSUME NEW n \in Node, Unplace(n) PROVE Rest
    BY <2>4 DEF Unplace, NoPlacement, PlacementRow
  <2>5. ASSUME NEW w \in BOOLEAN, Withdraw(w) PROVE Rest
    BY <2>5 DEF Withdraw, CourseRow
  <2>6. ASSUME NEW s \in Schedules, EditSchedule(s) PROVE Rest
    <3>1. s[1] \in Nat /\ s[2] \in Nat
      BY SettingsAssumption
    <3>2. course' = [course EXCEPT !.deadlineDays = s[1], !.retakeEveryNDays = s[2]]
      BY <2>6 DEF EditSchedule
    <3>3. course' \in CourseRow
      BY <3>1, <3>2 DEF CourseRow
    <3> QED
      BY <2>6, <3>3 DEF EditSchedule
  <2>7. ASSUME NEW reset \in BOOLEAN, Publish(reset) PROVE Rest
    <3>1. course' \in CourseRow
      <4>1. course' = [course EXCEPT !.version = @ + 1, !.withdrawn = FALSE]
        BY <2>7 DEF Publish
      <4>2. course.version + 1 \in Nat
        BY DEF CourseRow
      <4>3. \A v \in Nat : [course EXCEPT !.version = v, !.withdrawn = FALSE] \in CourseRow
        BY DEF CourseRow
      <4> QED
        BY <4>1, <4>2, <4>3
    <3>2. publishing' \in Publication
      <4>1. publishing' = [at |-> "log", reset |-> reset, todo |-> {}] /\ reset \in BOOLEAN
        BY <2>7 DEF Publish
      <4>2. {} \in SUBSET Profile
        OBVIOUS
      <4> QED
        BY <4>1, <4>2 DEF Publication
    <3> QED
      BY <2>7, <3>1, <3>2 DEF Publish
  <2>8. ASSUME NEW p \in Profile, NEW w \in Node, OpenCompletion(p, w) PROVE Rest
    BY <2>8, RetakeType DEF OpenCompletion, CourseRow, Request
  <2>9. CASE SweepFind
    BY <2>9 DEF SweepFind
  <2>10. CASE Tick
    BY <2>10 DEF Tick
  <2>11. CASE LogEdition
    <3>1. publishing' = [publishing EXCEPT !.at = "find"] \/ publishing' = NoPublication
      BY <2>11 DEF LogEdition
    <3>2. publishing' \in Publication
      BY <3>1, PublicationType, {} \in SUBSET Profile
    <3> QED
      BY <2>11, <3>2 DEF LogEdition
  <2>12. CASE FindOutdated
    <3> DEFINE O == {p \in Profile : record[p].status = "COMPLETED" /\ record[p].courseVersion < course.version}
    <3>1. publishing' = NoPublication \/ publishing' = [at |-> "expire", reset |-> TRUE, todo |-> O]
      BY <2>12 DEF FindOutdated
    <3>2. O \in SUBSET Profile
      OBVIOUS
    <3> HIDE DEF O
    <3>3. publishing' \in Publication
      BY <3>1, <3>2, PublicationType
    <3> QED
      BY <2>12, <3>3 DEF FindOutdated
  <2>13. ASSUME NEW p \in Profile, ExpireOutdated(p) PROVE Rest
    <3>1. record' \in [Profile -> RecordRow]
      BY <2>13 DEF ExpireOutdated, RecordRow
    <3>2. publishing' \in Publication
      <4>1. publishing' = NoPublication \/ publishing' = [publishing EXCEPT !.todo = @ \ {p}]
        BY <2>13 DEF ExpireOutdated
      <4>2. publishing.todo \ {p} \in SUBSET Profile
        BY DEF Publication
      <4> QED
        BY <4>1, <4>2, PublicationType
    <3> QED
      BY <2>13, <3>1, <3>2 DEF ExpireOutdated
  <2>14. ASSUME NEW p \in Profile, RecordCompletion(p) PROVE Rest
    <3>1. completing[p] \in Request
      OBVIOUS
    <3>2. record' \in [Profile -> RecordRow]
      BY <2>14, <3>1 DEF RecordCompletion, RecordRow, Request
    <3> QED
      BY <2>14, <3>2 DEF RecordCompletion, Request, NoRequest
  <2>15. ASSUME NEW p \in Profile, SweepExpire(p) PROVE Rest
    BY <2>15 DEF SweepExpire, RecordRow
  <2> HIDE DEF Rest
  <2> QED
    BY <1>2, <2>1, <2>2, <2>3, <2>4, <2>5, <2>6, <2>7, <2>8, <2>9, <2>10, <2>11, <2>12, <2>13, <2>14, <2>15
       DEF Next, Begin, Continue
<1> QED
  BY <1>1, <1>2

(* The type invariant of the module, for every instance of it.             *)
THEOREM TypeCorrect == Spec => []TypeOK
BY TypeInit, TypeStep, PTL DEF Spec

-----------------------------------------------------------------------------
(* The inductive invariant behind the two promises.  Requests that do not   *)
(* overlap leave at most one handler between its steps (Alone); instants in *)
(* the rows are in the past (Dated); what the open handlers know is true    *)
(* (Informed); and whoever owes the course was reached, or had their cycle  *)
(* reopened, no earlier than the instant remembered for them (Dunned).      *)

Alone ==
  /\ publishing.at = "idle" => publishing = NoPublication
  /\ publishing # NoPublication => sweep = {} /\ \A p \in Profile : ~completing[p].open
  /\ sweep # {} => \A p \in Profile : ~completing[p].open

Dated ==
  /\ now # Never
  /\ \A n \in Node : cp[n].createdAt <= now
  /\ \A p \in Profile : /\ record[p].completedAt <= now
                        /\ record[p].status = "COMPLETED" => record[p].completedAt # Never
                        /\ owedSince[p] <= now

Informed ==
  /\ publishing # NoPublication => \A p \in Profile : record[p].completedAt < now
  /\ publishing.at \in {"find", "expire"} => now \in resets
  /\ publishing.at = "expire" => \A p \in publishing.todo : record[p].status = "COMPLETED" \/ record[p].status = "EXPIRED"
  /\ \A p \in sweep : record[p].status = "COMPLETED" /\ record[p].validUntil # Never /\ record[p].validUntil < now

DunnedSince(p) ==
  IF Owes(p) THEN /\ owedSince[p] # Never
                  /\ \/ \A s \in MandatorySightings(p) : ReachedAt(p, s) >= owedSince[p]
                     \/ \E t \in Reopenings(p) : t >= owedSince[p]
  ELSE owedSince[p] = Never

IInv == TypeOK /\ Alone /\ Dated /\ Informed /\ \A p \in Profile : DunnedSince(p)

(* What a step may do to the sightings and to the cycle of one person.      *)
NoOldNews(p) ==
  \A s \in MandatorySightings(p)' :
    \/ s \in MandatorySightings(p) /\ ReachedAt(p, s)' = ReachedAt(p, s)
    \/ ReachedAt(p, s)' >= now'
Reopens(p) ==
  /\ IsCompliant(p)' \/ Reopenings(p) \subseteq Reopenings(p)'
  /\ IsCompliant(p) => IsCompliant(p)' \/ now' \in Reopenings(p)'

LEMMA ReachedAtType ==
  ASSUME TypeOK, NEW p \in Profile, NEW s \in Sightings(p)
  PROVE  ReachedAt(p, s) \in Nat
<1>1. s[1] \in Node /\ s[2] \in Node
  BY DEF Sightings
<1>2. cp[s[1]].createdAt \in Nat /\ occupies[p][s[2]] \in Nat
  BY <1>1 DEF TypeOK, PlacementRow
<1> QED
  BY <1>2 DEF ReachedAt, LaterOf

LEMMA ReopeningsType ==
  ASSUME TypeOK, NEW p \in Profile
  PROVE  Reopenings(p) \subseteq Nat
BY DEF TypeOK, RecordRow, Reopenings

LEMMA DunnedStep ==
  ASSUME NEW p \in Profile, TypeOK, TypeOK', now' >= now, now' # Never, owedSince[p] <= now,
         DunnedSince(p), NoOldNews(p), Reopens(p), Remember
  PROVE  DunnedSince(p)' /\ owedSince'[p] <= now'
<1> USE DEF TypeOK
<1>1. owedSince'[p] = IF ~Owes(p)' THEN Never ELSE IF owedSince[p] # Never THEN owedSince[p] ELSE now'
  BY DEF Remember
<1>2. CASE ~Owes(p)'
  BY <1>1, <1>2 DEF DunnedSince
<1>3. CASE Owes(p)' /\ Owes(p)
  <2>1. owedSince'[p] = owedSince[p] /\ owedSince[p] # Never
    BY <1>1, <1>3 DEF DunnedSince
  <2>2. ASSUME \A s \in MandatorySightings(p) : ReachedAt(p, s) >= owedSince[p]
        PROVE  \A s \in MandatorySightings(p)' : ReachedAt(p, s)' >= owedSince[p]
    <3> TAKE s \in MandatorySightings(p)'
    <3>1. s \in Sightings(p)'
      BY DEF MandatorySightings
    <3>2. ReachedAt(p, s)' \in Nat
      <4>1. s[1] \in Node /\ s[2] \in Node
        BY <3>1 DEF Sightings
      <4>2. cp'[s[1]].createdAt \in Nat /\ occupies'[p][s[2]] \in Nat
        BY <4>1 DEF PlacementRow
      <4> QED
        BY <4>2 DEF ReachedAt, LaterOf
    <3>3. CASE s \in MandatorySightings(p) /\ ReachedAt(p, s)' = ReachedAt(p, s)
      BY <2>2, <3>3
    <3>4. CASE ReachedAt(p, s)' >= now'
      BY <3>2, <3>4
    <3> QED
      BY <3>3, <3>4 DEF NoOldNews
  <2>3. ASSUME NEW t \in Reopenings(p), t >= owedSince[p]
        PROVE  \E u \in Reopenings(p)' : u >= owedSince[p]
    BY <1>3, <2>3 DEF Reopens, Owes
  <2>4. \/ \A s \in MandatorySightings(p) : ReachedAt(p, s) >= owedSince[p]
        \/ \E t \in Reopenings(p) : t >= owedSince[p]
    BY <1>3 DEF DunnedSince
  <2>5. \/ \A s \in MandatorySightings(p)' : ReachedAt(p, s)' >= owedSince'[p]
        \/ \E t \in Reopenings(p)' : t >= owedSince'[p]
    BY <2>1, <2>2, <2>3, <2>4
  <2> QED
    BY <1>3, <2>1, <2>5 DEF DunnedSince
<1>4. CASE Owes(p)' /\ ~Owes(p)
  <2>1. owedSince'[p] = now'
    BY <1>1, <1>4 DEF DunnedSince
  <2>2. CASE ~Obliged(p)
    <3>1. \A s \in MandatorySightings(p)' : ReachedAt(p, s)' >= now'
      BY <2>2 DEF Obliged, NoOldNews
    <3> QED
      BY <1>4, <2>1, <3>1 DEF DunnedSince
  <2>3. CASE IsCompliant(p)
    <3>1. now' \in Reopenings(p)'
      BY <1>4, <2>3 DEF Owes, Reopens
    <3>2. now' >= now'
      OBVIOUS
    <3> QED
      BY <1>4, <2>1, <3>1, <3>2 DEF DunnedSince
  <2> QED
    BY <1>4, <2>2, <2>3 DEF Owes
<1> QED
  BY <1>2, <1>3, <1>4

-----------------------------------------------------------------------------
(* Steps that touch only who sits where, or where the course is placed.     *)

LEMMA SameRecords ==
  ASSUME NEW p \in Profile, UNCHANGED <<now, record, resets>>
  PROVE  Reopens(p)
BY DEF Reopens, IsCompliant, Reopenings

LEMMA SamePlaces ==
  ASSUME NEW p \in Profile, UNCHANGED <<cp, occupies>>
  PROVE  NoOldNews(p)
BY DEF NoOldNews, MandatorySightings, Sightings, Placed, Reaches, ReachedAt

LEMMA PeopleMove ==
  ASSUME TypeOK, NEW p \in Profile, NEW q \in Profile, NEW n \in Node,
         PlacePerson(q, n) \/ RemovePerson(q, n)
  PROVE  NoOldNews(p)
<1> SUFFICES ASSUME NEW s \in MandatorySightings(p)'
             PROVE  \/ s \in MandatorySightings(p) /\ ReachedAt(p, s)' = ReachedAt(p, s)
                    \/ ReachedAt(p, s)' >= now'
  BY DEF NoOldNews
<1>1. s \in Node \X Node /\ s[1] \in Node /\ s[2] \in Node /\ occupies'[p][s[2]] # Never
  BY DEF MandatorySightings, Sightings
<1>2. cp' = cp /\ now' = now /\ now \in Nat /\ occupies \in [Profile -> [Node -> Nat]]
  BY DEF PlacePerson, RemovePerson, TypeOK
<1>3. occupies'[p][s[2]] = occupies[p][s[2]] \/ occupies'[p][s[2]] = now
  <2>1. CASE PlacePerson(q, n)
    BY <1>1, <1>2, <2>1 DEF PlacePerson
  <2>2. CASE RemovePerson(q, n)
    BY <1>1, <1>2, <2>2 DEF RemovePerson
  <2> QED
    BY <2>1, <2>2
<1>4. cp[s[1]].createdAt \in Nat
  BY <1>1 DEF TypeOK, PlacementRow
<1>5. CASE occupies'[p][s[2]] = occupies[p][s[2]]
  BY <1>1, <1>2, <1>5 DEF MandatorySightings, Sightings, Placed, Reaches, ReachedAt
<1>6. CASE occupies'[p][s[2]] = now
  BY <1>2, <1>4, <1>6 DEF ReachedAt, LaterOf
<1> QED
  BY <1>3, <1>5, <1>6

LEMMA CourseMoves ==
  ASSUME TypeOK, "widen" \notin Offered, NEW p \in Profile, NEW n \in Node,
         Unplace(n) \/ \E a \in Settings : Place(n, a)
  PROVE  NoOldNews(p)
<1> SUFFICES ASSUME NEW s \in MandatorySightings(p)'
             PROVE  \/ s \in MandatorySightings(p) /\ ReachedAt(p, s)' = ReachedAt(p, s)
                    \/ ReachedAt(p, s)' >= now'
  BY DEF NoOldNews
<1>1. s \in Node \X Node /\ s[1] \in Node /\ s[2] \in Node
  BY DEF MandatorySightings, Sightings
<1>2. /\ Placed(s[1])' /\ Reaches(s[1], s[2])' /\ cp'[s[1]].mandatory
      /\ occupies'[p][s[2]] # Never
  BY DEF MandatorySightings, Sightings
<1>3. occupies' = occupies /\ now' = now /\ now \in Nat /\ occupies[p][s[2]] \in Nat
  BY <1>1 DEF Unplace, Place, TypeOK
<1>4. CASE cp'[s[1]] = cp[s[1]]
  BY <1>1, <1>2, <1>3, <1>4 DEF MandatorySightings, Sightings, Placed, Reaches, ReachedAt
<1>5. CASE cp'[s[1]] # cp[s[1]]
  <2>1. s[1] = n
    BY <1>1, <1>5 DEF Unplace, Place, TypeOK
  <2>2. ~Unplace(n)
    BY <1>1, <1>2, <2>1 DEF Unplace, NoPlacement, Placed, TypeOK
  <2>3. PICK a \in Settings : Place(n, a)
    BY <2>2
  <2>4. cp'[n] = [mandatory |-> a.mandatory, inherit |-> a.inherit, deadlineDays |-> a.deadlineDays,
                  retakeEveryNDays |-> a.retakeEveryNDays,
                  createdAt |-> IF Placed(n) THEN cp[n].createdAt ELSE now]
    BY <2>3 DEF Place, TypeOK
  <2>5. CASE Placed(n)
    <3>1. (a.mandatory => cp[n].mandatory) /\ (a.inherit => cp[n].inherit)
      BY <2>3, <2>5 DEF Place, Narrows
    <3>2. cp'[n].createdAt = cp[n].createdAt /\ cp[n].mandatory /\ (cp'[n].inherit => cp[n].inherit)
      BY <1>2, <2>1, <2>4, <2>5, <3>1
    <3>3. s \in MandatorySightings(p)
      BY <1>1, <1>2, <1>3, <2>1, <2>5, <3>2 DEF MandatorySightings, Sightings, Reaches
    <3> QED
      BY <1>3, <2>1, <3>2, <3>3 DEF ReachedAt
  <2>6. CASE ~Placed(n)
    BY <1>3, <2>1, <2>4, <2>6 DEF ReachedAt, LaterOf
  <2> QED
    BY <2>5, <2>6
<1> QED
  BY <1>4, <1>5

-----------------------------------------------------------------------------
(* The invariant is kept by every step.                                    *)

Narrow == "overlap" \notin Offered /\ "widen" \notin Offered

LEMMA IInvInit == Init => IInv
<1> SUFFICES ASSUME Init PROVE IInv
  OBVIOUS
<1>1. TypeOK
  BY TypeInit
<1>2. \A p \in Profile : ~Obliged(p)
  BY DEF Init, Obliged, MandatorySightings, Sightings
<1>3. Alone /\ Dated /\ Informed
  BY DEF Init, Alone, Dated, Informed, NoPublication, NoRequest, NoRecord, NoPlacement
<1> QED
  BY <1>1, <1>2, <1>3 DEF Init, IInv, DunnedSince, Owes

(* A step keeps the promise when it brings nobody old news, reopens a cycle *)
(* wherever it ends a completion, and keeps the rest of the invariant.      *)
LEMMA KeepsIInv ==
  ASSUME IInv, TypeOK', Remember, now' \in {now, now + 1},
         Alone', Informed', \A n \in Node : cp'[n].createdAt <= now',
         \A p \in Profile : /\ record'[p].completedAt <= now'
                            /\ record'[p].status = "COMPLETED" => record'[p].completedAt # Never,
         \A p \in Profile : NoOldNews(p) /\ Reopens(p)
  PROVE  IInv'
<1>1. now \in Nat /\ now # Never
  BY DEF IInv, TypeOK, Dated
<1>2. now' >= now /\ now' # Never
  BY <1>1
<1>3. \A p \in Profile : DunnedSince(p)' /\ owedSince'[p] <= now'
  <2> TAKE p \in Profile
  <2>1. NoOldNews(p) /\ Reopens(p)
    OBVIOUS
  <2>2. DunnedSince(p)
    BY DEF IInv
  <2>3. TypeOK /\ owedSince[p] <= now
    BY DEF IInv, Dated
  <2> QED
    BY <1>2, <2>1, <2>2, <2>3, DunnedStep
<1> QED
  BY <1>2, <1>3 DEF IInv, Dated

LEMMA IInvStep == Narrow /\ IInv /\ [Next]_vars => IInv'
<1> SUFFICES ASSUME Narrow, IInv, [Next]_vars PROVE IInv'
  OBVIOUS
<1>1. TypeOK /\ TypeOK' /\ Alone /\ Dated /\ Informed
  BY TypeStep DEF IInv
<1>2. CASE UNCHANGED vars
  BY <1>2 DEF vars, IInv, TypeOK, Alone, Dated, Informed, DunnedSince, Owes, Obliged, IsCompliant,
              MandatorySightings, Sightings, Placed, Reaches, ReachedAt, Reopenings
<1>3. CASE Next
  <2> USE <1>1
  <2>a. Remember /\ now \in Nat
    BY <1>3 DEF Next, TypeOK
  <2>b. /\ \A n \in Node : cp[n].createdAt <= now
        /\ \A p \in Profile : /\ record[p].completedAt <= now
                              /\ record[p].status = "COMPLETED" => record[p].completedAt # Never
    BY DEF Dated
  <2>0. /\ Remember /\ now \in Nat /\ \A n \in Node : cp[n].createdAt <= now
        /\ \A p \in Profile : /\ record[p].completedAt <= now
                              /\ record[p].status = "COMPLETED" => record[p].completedAt # Never
    BY <2>a, <2>b
  <2> DEFINE Calm == publishing = NoPublication /\ sweep = {} /\ \A p \in Profile : ~completing[p].open
  <2>1. CASE MayBegin /\ Begin
    <3>1. Calm
      BY <2>1 DEF MayBegin, Narrow, Quiet
    <3>2. ASSUME NEW q \in Profile, NEW n \in Node, PlacePerson(q, n) \/ RemovePerson(q, n) PROVE IInv'
      <4>1. UNCHANGED <<now, course, cp, record, resets, completing, publishing, sweep>>
        BY <3>2 DEF PlacePerson, RemovePerson
      <4>2. \A p \in Profile : NoOldNews(p) /\ Reopens(p)
        BY <3>2, <4>1, PeopleMove, SameRecords
      <4>3. Alone' /\ Informed'
        BY <4>1 DEF Alone, Informed
      <4> QED
        BY <2>0, <4>1, <4>2, <4>3, KeepsIInv
    <3>3. ASSUME NEW n \in Node, Unplace(n) \/ \E a \in Settings : Place(n, a) PROVE IInv'
      <4>1. UNCHANGED <<now, course, occupies, record, resets, completing, publishing, sweep>>
        BY <3>3 DEF Place, Unplace
      <4>2. \A p \in Profile : NoOldNews(p) /\ Reopens(p)
        BY <3>3, <4>1, CourseMoves, SameRecords DEF Narrow
      <4>3. Alone' /\ Informed'
        BY <4>1 DEF Alone, Informed
      <4>4. \A m \in Node : cp'[m].createdAt <= now'
        <5>1. CASE Unplace(n)
          BY <2>0, <4>1, <5>1 DEF Unplace, NoPlacement, TypeOK
        <5>2. ASSUME NEW a \in Settings, Place(n, a) PROVE \A m \in Node : cp'[m].createdAt <= now'
          BY <2>0, <4>1, <5>2 DEF Place, TypeOK
        <5> QED
          BY <3>3, <5>1, <5>2
      <4> QED
        BY <2>0, <4>1, <4>2, <4>3, <4>4, KeepsIInv
    <3>4. ASSUME \/ \E w \in BOOLEAN : Withdraw(w)
                 \/ \E s \in Schedules : EditSchedule(s)
          PROVE  IInv'
      <4>1. UNCHANGED <<now, cp, occupies, record, resets, completing, publishing, sweep>>
        BY <3>4 DEF Withdraw, EditSchedule
      <4>2. \A p \in Profile : NoOldNews(p) /\ Reopens(p)
        BY <4>1, SamePlaces, SameRecords
      <4>3. Alone' /\ Informed'
        BY <4>1 DEF Alone, Informed
      <4> QED
        BY <2>0, <4>1, <4>2, <4>3, KeepsIInv
    <3>5. ASSUME NEW reset \in BOOLEAN, Publish(reset) PROVE IInv'
      <4>1. UNCHANGED <<now, cp, occupies, record, resets, completing, sweep>>
        BY <3>5 DEF Publish
      <4>2. \A p \in Profile : NoOldNews(p) /\ Reopens(p)
        BY <4>1, SamePlaces, SameRecords
      <4>3. publishing'.at = "log" /\ \A p \in Profile : record[p].completedAt # now
        BY <3>5 DEF Publish
      <4>4. \A p \in Profile : record'[p].completedAt < now'
        <5> TAKE p \in Profile
        <5>1. record[p].completedAt \in Nat /\ record[p].completedAt <= now /\ record[p].completedAt # now
          BY <2>0, <4>3 DEF TypeOK, RecordRow
        <5> QED
          BY <2>0, <4>1, <5>1
      <4>5. Alone' /\ Informed'
        BY <3>1, <4>1, <4>3, <4>4 DEF Alone, Informed
      <4> QED
        BY <2>0, <4>1, <4>2, <4>5, KeepsIInv
    <3>6. ASSUME NEW q \in Profile, NEW w \in Node, OpenCompletion(q, w) PROVE IInv'
      <4>1. UNCHANGED <<now, cp, occupies, record, resets, publishing, sweep>>
        BY <3>6 DEF OpenCompletion
      <4>2. \A p \in Profile : NoOldNews(p) /\ Reopens(p)
        BY <4>1, SamePlaces, SameRecords
      <4>3. Alone' /\ Informed'
        BY <3>1, <4>1 DEF Alone, Informed
      <4> QED
        BY <2>0, <4>1, <4>2, <4>3, KeepsIInv
    <3>7. CASE SweepFind
      <4>1. UNCHANGED <<now, cp, occupies, record, resets, completing, publishing>>
        BY <3>7 DEF SweepFind
      <4>2. \A p \in Profile : NoOldNews(p) /\ Reopens(p)
        BY <4>1, SamePlaces, SameRecords
      <4>3. \A p \in sweep' : record[p].status = "COMPLETED" /\ record[p].validUntil # Never /\ record[p].validUntil < now
        BY <3>7 DEF SweepFind
      <4>4. Alone' /\ Informed'
        BY <3>1, <4>1, <4>3 DEF Alone, Informed
      <4> QED
        BY <2>0, <4>1, <4>2, <4>4, KeepsIInv
    <3>8. CASE Tick
      <4>1. now' = now + 1 /\ UNCHANGED <<cp, occupies, record, resets, completing, publishing, sweep>>
        BY <3>8 DEF Tick
      <4>2. \A p \in Profile : NoOldNews(p)
        BY <4>1, SamePlaces
      <4>3. \A p \in Profile : Reopens(p)
        <5> TAKE p \in Profile
        <5>1. record[p].validUntil \in Nat /\ record[p].completedAt \in Nat /\ resets \subseteq Nat
          BY DEF TypeOK, RecordRow
        <5>2. Reopenings(p) \subseteq Reopenings(p)'
          <6>1. \A t \in Nat : t <= now => t <= now'
            BY <2>0, <4>1
          <6>2. ASSUME NEW t \in Reopenings(p) PROVE t \in Reopenings(p)'
            BY <4>1, <5>1, <6>1, <6>2 DEF Reopenings
          <6> QED
            BY <6>2
        <5>3. IsCompliant(p) => IsCompliant(p)' \/ now' \in Reopenings(p)'
          <6> SUFFICES ASSUME IsCompliant(p), ~IsCompliant(p)' PROVE now' \in Reopenings(p)'
            OBVIOUS
          <6>1. record[p].status = "COMPLETED" /\ record[p].validUntil = now' /\ record[p].validUntil # Never
            BY <2>0, <4>1, <5>1 DEF IsCompliant
          <6>2. record[p].completedAt # Never
            BY <2>0, <6>1
          <6> QED
            BY <4>1, <5>1, <6>1, <6>2 DEF Reopenings
        <5> QED
          BY <5>2, <5>3 DEF Reopens
      <4>4. Alone' /\ Informed'
        BY <3>1, <4>1 DEF Alone, Informed, NoPublication
      <4>5. \A n \in Node : cp'[n].createdAt <= now'
        BY <2>0, <4>1 DEF TypeOK, PlacementRow
      <4>6. \A p \in Profile : record'[p].completedAt <= now'
        BY <2>0, <4>1 DEF TypeOK, RecordRow
      <4> QED
        BY <2>0, <4>1, <4>2, <4>3, <4>4, <4>5, <4>6, KeepsIInv
    <3> QED
      BY <2>1, <3>2, <3>3, <3>4, <3>5, <3>6, <3>7, <3>8 DEF Begin
  <2>2. CASE LogEdition
    <3>1. UNCHANGED <<now, cp, occupies, record, completing, sweep>> /\ resets \subseteq resets'
      BY <2>2 DEF LogEdition
    <3>2. \A p \in Profile : NoOldNews(p)
      BY <3>1, SamePlaces
    <3>3. \A p \in Profile : Reopens(p)
      BY <3>1 DEF Reopens, IsCompliant, Reopenings
    <3>4. publishing # NoPublication /\ sweep = {} /\ \A p \in Profile : ~completing[p].open
      BY <2>2 DEF LogEdition, Alone, NoPublication
    <3>5. publishing' = NoPublication \/ (publishing'.at = "find" /\ now \in resets')
      BY <2>2 DEF LogEdition, TypeOK, Publication
    <3>6. Alone' /\ Informed'
      BY <3>1, <3>4, <3>5 DEF Alone, Informed, NoPublication
    <3> QED
      BY <2>0, <3>1, <3>2, <3>3, <3>6, KeepsIInv
  <2>3. CASE FindOutdated
    <3>1. UNCHANGED <<now, cp, occupies, record, resets, completing, sweep>>
      BY <2>3 DEF FindOutdated
    <3>2. \A p \in Profile : NoOldNews(p) /\ Reopens(p)
      BY <3>1, SamePlaces, SameRecords
    <3>3. publishing # NoPublication /\ publishing.at = "find" /\ sweep = {} /\ \A p \in Profile : ~completing[p].open
      BY <2>3 DEF FindOutdated, Alone, NoPublication
    <3>4. publishing' = NoPublication
            \/ (publishing'.at = "expire" /\ \A p \in publishing'.todo : record[p].status = "COMPLETED")
      BY <2>3 DEF FindOutdated
    <3>5. Alone' /\ Informed'
      BY <3>1, <3>3, <3>4 DEF Alone, Informed, NoPublication
    <3> QED
      BY <2>0, <3>1, <3>2, <3>5, KeepsIInv
  <2>4. ASSUME NEW q \in Profile, ExpireOutdated(q) PROVE IInv'
    <3>1. UNCHANGED <<now, cp, occupies, resets, completing, sweep>>
            /\ record' = [record EXCEPT ![q].status = "EXPIRED"]
            /\ publishing.at = "expire" /\ q \in publishing.todo
      BY <2>4 DEF ExpireOutdated
    <3>2. publishing # NoPublication /\ sweep = {} /\ \A p \in Profile : ~completing[p].open
      BY <3>1 DEF Alone, NoPublication
    <3>3. \A p \in Profile : NoOldNews(p)
      BY <3>1, SamePlaces
    <3>4. \A p \in Profile : /\ record'[p].completedAt = record[p].completedAt
                             /\ record'[p].validUntil = record[p].validUntil
                             /\ p # q => record'[p] = record[p]
                             /\ p = q => record'[p].status = "EXPIRED"
      BY <3>1 DEF TypeOK, RecordRow
    <3>5. \A p \in Profile : Reopens(p)
      <4> TAKE p \in Profile
      <4>1. Reopenings(p)' = Reopenings(p)
        BY <3>1, <3>4 DEF Reopenings
      <4>2. CASE p # q
        BY <3>1, <3>4, <4>1, <4>2 DEF Reopens, IsCompliant
      <4>3. CASE p = q /\ IsCompliant(p)
        <5>1. record[p].completedAt # Never
          BY <2>0, <4>3 DEF IsCompliant
        <5>2. now \in resets /\ record[p].completedAt < now
          BY <3>1, <3>2 DEF Informed
        <5>3. now \in Reopenings(p)
          BY <2>0, <5>1, <5>2 DEF Reopenings
        <5> QED
          BY <3>1, <4>1, <5>3 DEF Reopens
      <4> QED
        BY <4>1, <4>2, <4>3 DEF Reopens
    <3>6. publishing' = NoPublication \/ publishing' = [publishing EXCEPT !.todo = @ \ {q}]
      BY <2>4 DEF ExpireOutdated
    <3>7. publishing' = NoPublication
            \/ (publishing'.at = "expire" /\ publishing'.todo \subseteq publishing.todo)
      BY <3>1, <3>6 DEF TypeOK, Publication
    <3>8. Alone' /\ Informed'
      BY <3>1, <3>2, <3>4, <3>7 DEF Alone, Informed, NoPublication
    <3> QED
      BY <2>0, <3>1, <3>3, <3>4, <3>5, <3>8, KeepsIInv
  <2>5. ASSUME NEW q \in Profile, RecordCompletion(q) PROVE IInv'
    <3>1. UNCHANGED <<now, cp, occupies, resets, publishing, sweep>>
      BY <2>5 DEF RecordCompletion
    <3>2. publishing = NoPublication /\ sweep = {}
      BY <2>5 DEF RecordCompletion, Alone
    <3>3. \A p \in Profile : NoOldNews(p)
      BY <3>1, SamePlaces
    <3>4. completing[q].retake \in Nat
      BY DEF TypeOK, Request
    <3>5. /\ \A p \in Profile : p # q => record'[p] = record[p]
          /\ record'[q].status = "COMPLETED" /\ record'[q].completedAt = now
          /\ record'[q].validUntil = Never \/ record'[q].validUntil > now
      <4>1. record' = [record EXCEPT ![q] =
                  [status |-> "COMPLETED", completedAt |-> now,
                   validUntil |-> IF completing[q].retake # Never THEN now + completing[q].retake ELSE Never,
                   courseVersion |-> completing[q].version]]
        BY <2>5 DEF RecordCompletion
      <4> QED
        BY <2>0, <3>4, <4>1 DEF TypeOK
    <3>6. \A p \in Profile : Reopens(p)
      BY <3>1, <3>5 DEF Reopens, IsCompliant, Reopenings
    <3>7. now # Never
      BY DEF Dated
    <3>8. Alone' /\ Informed'
      BY <3>1, <3>2 DEF Alone, Informed, NoPublication
    <3> QED
      BY <2>0, <3>1, <3>3, <3>5, <3>6, <3>7, <3>8, KeepsIInv
  <2>6. ASSUME NEW q \in Profile, SweepExpire(q) PROVE IInv'
    <3>1. UNCHANGED <<now, cp, occupies, resets, completing, publishing>>
            /\ record' = [record EXCEPT ![q].status = "EXPIRED"] /\ sweep' = sweep \ {q} /\ q \in sweep
      BY <2>6 DEF SweepExpire
    <3>2. publishing = NoPublication /\ \A p \in Profile : ~completing[p].open
      BY <3>1 DEF Alone
    <3>3. \A p \in Profile : NoOldNews(p)
      BY <3>1, SamePlaces
    <3>4. \A p \in Profile : /\ record'[p].completedAt = record[p].completedAt
                             /\ record'[p].validUntil = record[p].validUntil
                             /\ p # q => record'[p] = record[p]
                             /\ p = q => record'[p].status = "EXPIRED"
      BY <3>1 DEF TypeOK, RecordRow
    <3>5. \A p \in Profile : Reopens(p)
      <4> TAKE p \in Profile
      <4>1. Reopenings(p)' = Reopenings(p)
        BY <3>1, <3>4 DEF Reopenings
      <4>2. CASE p # q
        BY <3>1, <3>4, <4>1, <4>2 DEF Reopens, IsCompliant
      <4>3. CASE p = q
        <5>1. record[p].validUntil \in Nat /\ record[p].validUntil # Never /\ record[p].validUntil < now
          BY <3>1, <4>3 DEF Informed, TypeOK, RecordRow
        <5>2. ~IsCompliant(p)
          BY <2>0, <5>1 DEF IsCompliant
        <5> QED
          BY <4>1, <5>2 DEF Reopens
      <4> QED
        BY <4>2, <4>3
    <3>6. Alone' /\ Informed'
      BY <3>1, <3>2, <3>4 DEF Alone, Informed, NoPublication
    <3> QED
      BY <2>0, <3>1, <3>3, <3>4, <3>5, <3>6, KeepsIInv
  <2> QED
    BY <1>3, <2>1, <2>2, <2>3, <2>4, <2>5, <2>6 DEF Next, Continue
<1> QED
  BY <1>2, <1>3

-----------------------------------------------------------------------------
(* What the invariant says of the views.                                   *)

LEMMA WindowFromInv == IInv => WholeWindowGranted
<1> SUFFICES ASSUME IInv, NEW p \in Profile, NEW w \in Winners(p), LearnerOverdue(p, w)
             PROVE  owedSince[p] # Never /\ owedSince[p] + DeadlineDays(w) < now
  BY DEF WholeWindowGranted
<1>1. TypeOK /\ now \in Nat /\ owedSince[p] \in Nat
  BY DEF IInv, TypeOK
<1>2. w \in Node
  BY DEF Winners, MandatorySightings, Sightings
<1>3. DeadlineDays(w) \in Nat
  BY <1>1, <1>2, RetakeType DEF TypeOK
<1>4. Owes(p) /\ WindowClosed(p, MandatorySightings(p), DeadlineDays(w))
  BY DEF LearnerOverdue, Owes
<1>5. /\ owedSince[p] # Never
      /\ \/ \A s \in MandatorySightings(p) : ReachedAt(p, s) >= owedSince[p]
         \/ \E t \in Reopenings(p) : t >= owedSince[p]
  BY <1>4 DEF IInv, DunnedSince
<1>6. CASE \A s \in MandatorySightings(p) : ReachedAt(p, s) >= owedSince[p]
  <2>1. PICK s \in MandatorySightings(p) : IsPastDeadline(ReachedAt(p, s), DeadlineDays(w))
    BY <1>4 DEF WindowClosed
  <2>2. ReachedAt(p, s) \in Nat
    BY <1>1, ReachedAtType DEF MandatorySightings
  <2> QED
    BY <1>1, <1>3, <1>5, <1>6, <2>1, <2>2 DEF IsPastDeadline
<1>7. CASE \E t \in Reopenings(p) : t >= owedSince[p]
  <2>1. PICK t \in Reopenings(p) : t >= owedSince[p]
    BY <1>7
  <2>2. IsPastDeadline(t, DeadlineDays(w)) /\ t \in Nat
    BY <1>1, <1>4, ReopeningsType DEF WindowClosed
  <2> QED
    BY <1>1, <1>3, <1>5, <2>1, <2>2 DEF IsPastDeadline
<1> QED
  BY <1>5, <1>6, <1>7

(* As long as requests do not overlap and no placement is widened in place, *)
(* nobody is called late before they have had the whole window.            *)
THEOREM WholeWindow == ASSUME Narrow PROVE Spec => []WholeWindowGranted
<1>1. Init => IInv
  BY IInvInit
<1>2. IInv /\ [Next]_vars => IInv'
  BY IInvStep
<1>3. IInv => WholeWindowGranted
  BY WindowFromInv
<1> QED
  BY <1>1, <1>2, <1>3, PTL DEF Spec

(* The views read the completion only through what it is worth and when the  *)
(* cycle opened again; everything else they read is as it was.              *)
LEMMA SameViews ==
  ASSUME UNCHANGED <<now, course, cp, occupies, resets>>, NEW p \in Profile,
         IsCompliant(p)' <=> IsCompliant(p), Reopenings(p)' = Reopenings(p),
         \A m \in BOOLEAN : EffectiveStatus(p, m)' = EffectiveStatus(p, m)
  PROVE  Verdict(p)' = Verdict(p)
<1>1. /\ Sightings(p)' = Sightings(p) /\ MandatorySightings(p)' = MandatorySightings(p)
      /\ Winners(p)' = Winners(p) /\ Obliged(p)' = Obliged(p)
  BY DEF Winners, Obliged, MandatorySightings, Sightings, Placed, Reaches
<1>3. {w \in Winners(p) : LearnerOverdue(p, w)}' = {w \in Winners(p) : LearnerOverdue(p, w)}
  <2>1. \A w \in Winners(p) : LearnerOverdue(p, w)' <=> LearnerOverdue(p, w)
    BY <1>1 DEF LearnerOverdue, WindowClosed, IsPastDeadline, ReachedAt, DeadlineDays
  <2> QED
    BY <1>1, <2>1
<1>4. \A b \in Node : {w \in ReportWinners(b) : ReportOverdue(b, p, w)}'
                         = {w \in ReportWinners(b) : ReportOverdue(b, p, w)}
  <2> SUFFICES ASSUME NEW b \in Node
               PROVE  {w \in ReportWinners(b) : ReportOverdue(b, p, w)}'
                        = {w \in ReportWinners(b) : ReportOverdue(b, p, w)}
    OBVIOUS
  <2>1. SeenFrom(b)' = SeenFrom(b)
    BY DEF SeenFrom, Subtree, Placed
  <2>2. ReportWinners(b)' = ReportWinners(b)
    BY <2>1 DEF ReportWinners
  <2>3. ReportSightings(b, p)' = ReportSightings(b, p)
    BY <1>1, <2>1 DEF ReportSightings, Subtree
  <2>4. ReportClock(b, p)' = ReportClock(b, p)
    BY <2>3 DEF ReportClock
  <2>5. \A w \in ReportWinners(b) : ReportOverdue(b, p, w)' <=> ReportOverdue(b, p, w)
    BY <2>4 DEF ReportOverdue, WindowClosed, IsPastDeadline, ReachedAt, DeadlineDays
  <2> QED
    BY <2>2, <2>5
<1>5. {s \in Sightings(p) : CoursePageOverdue(p, s)}' = {s \in Sightings(p) : CoursePageOverdue(p, s)}
  <2>1. \A s \in Sightings(p) : CoursePageOverdue(p, s)' <=> CoursePageOverdue(p, s)
    BY DEF CoursePageOverdue, WindowClosed, IsPastDeadline, ReachedAt, DeadlineDays
  <2> QED
    BY <1>1, <2>1
<1>6. [m \in BOOLEAN |-> EffectiveStatus(p, m)]' = [m \in BOOLEAN |-> EffectiveStatus(p, m)]
  OBVIOUS
<1>7. [b \in Node |-> {w \in ReportWinners(b) : ReportOverdue(b, p, w)}]'
        = [b \in Node |-> {w \in ReportWinners(b) : ReportOverdue(b, p, w)}]
  BY <1>4
<1>8. IsCompliant(p)' = IsCompliant(p)
  BY Zenon DEF IsCompliant
<1> QED
  BY <1>3, <1>5, <1>6, <1>7, <1>8 DEF Verdict

LEMMA VerdictStep ==
  ASSUME IInv, [Next]_vars, sweep' # sweep, NEW p \in Profile
  PROVE  Verdict(p)' = Verdict(p)
<1>1. UNCHANGED <<now, course, cp, occupies, resets>>
  BY DEF Next, Begin, Continue, vars, SweepFind, SweepExpire, PlacePerson, RemovePerson, Place, Unplace,
         Withdraw, EditSchedule, Publish, OpenCompletion, Tick, LogEdition, FindOutdated, ExpireOutdated,
         RecordCompletion
<1>2. record' = record \/ \E q \in sweep : record' = [record EXCEPT ![q].status = "EXPIRED"]
  BY DEF Next, Begin, Continue, vars, SweepFind, SweepExpire, PlacePerson, RemovePerson, Place, Unplace,
         Withdraw, EditSchedule, Publish, OpenCompletion, Tick, LogEdition, FindOutdated, ExpireOutdated,
         RecordCompletion
<1>3. CASE record'[p] = record[p]
  <2>1. Reopenings(p)' = Reopenings(p) /\ (IsCompliant(p)' <=> IsCompliant(p))
    BY <1>1, <1>3 DEF Reopenings, IsCompliant
  <2>2. \A m \in BOOLEAN : EffectiveStatus(p, m)' = EffectiveStatus(p, m)
    BY <1>1, <1>3 DEF EffectiveStatus, HasLapsed
  <2> QED
    BY <1>1, <2>1, <2>2, SameViews
<1>4. CASE p \in sweep /\ record' = [record EXCEPT ![p].status = "EXPIRED"]
  <2>1. /\ record[p].status = "COMPLETED" /\ record[p].validUntil # Never /\ record[p].validUntil < now
        /\ record[p].validUntil \in Nat /\ now \in Nat
    BY <1>4 DEF IInv, Informed, TypeOK, RecordRow
  <2>2. /\ record'[p].status = "EXPIRED" /\ record'[p].completedAt = record[p].completedAt
        /\ record'[p].validUntil = record[p].validUntil
    BY <1>4 DEF IInv, TypeOK, RecordRow
  <2>3. IsCompliant(p)' <=> IsCompliant(p)
    BY <2>1, <2>2 DEF IsCompliant
  <2>4. Reopenings(p)' = Reopenings(p)
    BY <1>1, <2>2 DEF Reopenings
  <2>5. \A m \in BOOLEAN : EffectiveStatus(p, m) = "EXPIRED" /\ EffectiveStatus(p, m)' = "EXPIRED"
    BY <2>1, <2>2 DEF EffectiveStatus, HasLapsed
  <2> QED
    BY <1>1, <2>3, <2>4, <2>5, SameViews
<1> QED
  BY <1>2, <1>3, <1>4 DEF IInv, TypeOK

(* Under the same conditions the nightly rewrite of lapsed completions      *)
(* changes nothing the three views of lateness say of anybody: not whether  *)
(* they are compliant, nor their status, nor whether they are late.         *)
THEOREM SweepSilent == ASSUME Narrow PROVE Spec => SweepChangesNoVerdict
<1>1. Init => IInv
  BY IInvInit
<1>2. IInv /\ [Next]_vars => IInv'
  BY IInvStep
<1>3. IInv /\ [Next]_vars => ((sweep' # sweep) => \A p \in Profile : Verdict(p)' = Verdict(p))
  BY VerdictStep
<1> QED
  BY <1>1, <1>2, <1>3, PTL DEF Spec, SweepChangesNoVerdict
-----------------------------------------------------------------------------
(* A deadline is no amnesty.  What IInv leaves open is how the instants of   *)
(* one row stand to each other: a completion is spent only after the day it  *)
(* was made, it runs out after it was made, and no edition is of tomorrow.   *)

Aging ==
  /\ \A p \in Profile : /\ record[p].status # "COMPLETED" => record[p].completedAt < now
                        /\ record[p].validUntil # Never => record[p].completedAt < record[p].validUntil
  /\ \A t \in resets : t <= now

LEMMA AgingInit == Init => Aging
BY DEF Init, Aging, NoRecord, Never

LEMMA Movers ==
  ASSUME [Next]_vars
  PROVE  \/ UNCHANGED <<now, record, resets>>
         \/ Tick \/ LogEdition
         \/ \E p \in Profile : ExpireOutdated(p) \/ RecordCompletion(p) \/ SweepExpire(p)
<1>1. CASE Begin
  <2>1. ASSUME NEW p \in Profile, NEW n \in Node, PlacePerson(p, n) \/ RemovePerson(p, n)
        PROVE  UNCHANGED <<now, record, resets>>
    BY <2>1 DEF PlacePerson, RemovePerson
  <2>2. ASSUME NEW n \in Node, Unplace(n) \/ \E s \in Settings : Place(n, s)
        PROVE  UNCHANGED <<now, record, resets>>
    BY <2>2 DEF Unplace, Place
  <2>3. ASSUME NEW w \in BOOLEAN, Withdraw(w) \/ Publish(w)
        PROVE  UNCHANGED <<now, record, resets>>
    BY <2>3 DEF Withdraw, Publish
  <2>4. ASSUME NEW s \in Schedules, EditSchedule(s)
        PROVE  UNCHANGED <<now, record, resets>>
    BY <2>4 DEF EditSchedule
  <2>5. ASSUME NEW p \in Profile, NEW w \in Node, OpenCompletion(p, w)
        PROVE  UNCHANGED <<now, record, resets>>
    BY <2>5 DEF OpenCompletion
  <2>6. CASE SweepFind
    BY <2>6 DEF SweepFind
  <2> QED
    BY <1>1, <2>1, <2>2, <2>3, <2>4, <2>5, <2>6 DEF Begin
<1>2. CASE Continue
  BY <1>2 DEF Continue, FindOutdated
<1>3. CASE UNCHANGED vars
  BY <1>3 DEF vars
<1> QED
  BY <1>1, <1>2, <1>3 DEF Next

LEMMA ClockMoves ==
  ASSUME TypeOK, [Next]_vars
  PROVE  now \in Nat /\ now' \in Nat /\ now <= now'
<1>1. now \in Nat
  BY DEF TypeOK
<1>2. now' = now \/ now' = now + 1
  BY Movers DEF Tick, LogEdition, ExpireOutdated, RecordCompletion, SweepExpire
<1> QED
  BY <1>1, <1>2

(* A record changes only when it is completed, or when one of the two jobs   *)
(* that rewrite spent completions comes to it.                             *)
LEMMA RecordMoves ==
  ASSUME IInv, [Next]_vars, NEW p \in Profile
  PROVE  \/ record'[p] = record[p]
         \/ record'[p] = [record[p] EXCEPT !.status = "EXPIRED"] /\ publishing # NoPublication /\ now' = now
         \/ record'[p] = [record[p] EXCEPT !.status = "EXPIRED"] /\ p \in sweep /\ now' = now
         \/ RecordCompletion(p)
<1>1. record \in [Profile -> RecordRow]
  BY DEF IInv, TypeOK
<1>2. ASSUME NEW q \in Profile, ExpireOutdated(q)
      PROVE  \/ record'[p] = record[p]
             \/ record'[p] = [record[p] EXCEPT !.status = "EXPIRED"] /\ publishing # NoPublication /\ now' = now
  BY <1>1, <1>2 DEF ExpireOutdated, NoPublication
<1>3. ASSUME NEW q \in Profile, SweepExpire(q)
      PROVE  \/ record'[p] = record[p]
             \/ record'[p] = [record[p] EXCEPT !.status = "EXPIRED"] /\ p \in sweep /\ now' = now
  BY <1>1, <1>3 DEF SweepExpire
<1>4. ASSUME NEW q \in Profile, RecordCompletion(q)
      PROVE  record'[p] = record[p] \/ RecordCompletion(p)
  BY <1>1, <1>4 DEF RecordCompletion
<1>5. CASE record' = record
  BY <1>5
<1> QED
  BY <1>2, <1>3, <1>4, <1>5, Movers DEF Tick, LogEdition

LEMMA ResetsMove ==
  ASSUME [Next]_vars
  PROVE  resets' = resets \/ (resets' = resets \cup {now} /\ now' = now)
BY Movers DEF Tick, LogEdition, ExpireOutdated, RecordCompletion, SweepExpire

LEMMA AgingStep ==
  ASSUME IInv, Aging, [Next]_vars
  PROVE  Aging'
<1>1. now \in Nat /\ now' \in Nat /\ now <= now'
  BY ClockMoves DEF IInv
<1>2. \A t \in resets' : t <= now'
  <2>1. \A t \in resets : t \in Nat /\ t <= now
    BY DEF IInv, TypeOK, Aging
  <2> QED
    BY <1>1, <2>1, ResetsMove
<1>3. ASSUME NEW p \in Profile
      PROVE  /\ record'[p].status # "COMPLETED" => record'[p].completedAt < now'
             /\ record'[p].validUntil # Never => record'[p].completedAt < record'[p].validUntil
  <2>1. record[p] \in RecordRow /\ record[p].completedAt \in Nat /\ record[p].validUntil \in Nat
    BY DEF IInv, TypeOK, RecordRow
  <2>2. /\ record[p].status # "COMPLETED" => record[p].completedAt < now
        /\ record[p].validUntil # Never => record[p].completedAt < record[p].validUntil
    BY DEF Aging
  <2>3. CASE record'[p] = record[p]
    BY <1>1, <2>1, <2>2, <2>3
  <2>4. ASSUME record'[p] = [record[p] EXCEPT !.status = "EXPIRED"],
               publishing # NoPublication \/ p \in sweep, now' = now
        PROVE  /\ record'[p].status # "COMPLETED" => record'[p].completedAt < now'
               /\ record'[p].validUntil # Never => record'[p].completedAt < record'[p].validUntil
    <3>1. record'[p].completedAt = record[p].completedAt /\ record'[p].validUntil = record[p].validUntil
      BY <2>1, <2>4 DEF RecordRow
    <3>2. record[p].completedAt < now
      BY <1>1, <2>1, <2>2, <2>4 DEF IInv, Informed
    <3> QED
      BY <2>2, <2>4, <3>1, <3>2
  <2>5. CASE RecordCompletion(p)
    <3>1. completing[p].retake \in Nat
      BY DEF IInv, TypeOK, Request
    <3>2. /\ record'[p].status = "COMPLETED" /\ record'[p].completedAt = now
          /\ record'[p].validUntil = IF completing[p].retake # Never THEN now + completing[p].retake ELSE Never
      BY <2>5 DEF RecordCompletion, IInv, TypeOK
    <3> QED
      BY <1>1, <3>1, <3>2 DEF Never
  <2> QED
    BY <2>3, <2>4, <2>5, RecordMoves
<1> QED
  BY <1>2, <1>3 DEF Aging

LEMMA LateStep ==
  ASSUME IInv, Aging, [Next]_vars,
         cp' = cp, occupies' = occupies, course'.deadlineDays = course.deadlineDays, ~course'.withdrawn,
         NEW p \in Profile, record'[p].completedAt = record[p].completedAt, record[p].validUntil <= now,
         resets' = resets \/ record[p].completedAt = Never,
         NEW w \in Winners(p), LearnerOverdue(p, w)
  PROVE  LearnerOverdue(p, w)'
<1>1. now \in Nat /\ now' \in Nat /\ now <= now'
  BY ClockMoves DEF IInv
<1>2. /\ MandatorySightings(p)' = MandatorySightings(p) /\ Obliged(p)' = Obliged(p)
      /\ DeadlineDays(w)' = DeadlineDays(w)
  BY DEF Obliged, MandatorySightings, Sightings, Placed, Reaches, DeadlineDays, OrElse
<1>3. record[p].completedAt \in Nat /\ record[p].validUntil \in Nat /\ record[p] \in RecordRow
  BY DEF IInv, TypeOK, RecordRow
<1>4. ~IsCompliant(p)
  BY DEF LearnerOverdue
<1>5. ~RecordCompletion(p)
  <2> SUFFICES ASSUME RecordCompletion(p) PROVE FALSE
    OBVIOUS
  <2>1. record'[p].completedAt = now
    BY DEF RecordCompletion, IInv, TypeOK
  <2>2. record[p].completedAt = now
    BY <2>1
  <2>3. /\ record[p].status # "COMPLETED" => record[p].completedAt < now
        /\ record[p].validUntil # Never => record[p].completedAt < record[p].validUntil
    BY DEF Aging
  <2>4. record[p].status = "COMPLETED"
    BY <1>1, <2>2, <2>3
  <2>5. record[p].validUntil # Never
    BY <1>4, <2>4 DEF IsCompliant
  <2> QED
    BY <1>1, <1>3, <2>2, <2>3, <2>5
<1>6. /\ record'[p].validUntil = record[p].validUntil
      /\ record'[p].status = record[p].status \/ record'[p].status = "EXPIRED"
  BY <1>3, <1>5, RecordMoves DEF RecordRow
<1>7. ~IsCompliant(p)'
  BY <1>1, <1>3, <1>4, <1>6 DEF IsCompliant
<1>8. Reopenings(p)' \subseteq Reopenings(p)
  <2>1. CASE record[p].completedAt = Never
    BY <2>1 DEF Reopenings
  <2>2. CASE record[p].completedAt # Never /\ resets' = resets
    BY <1>6, <2>2 DEF Reopenings, Aging
  <2> QED
    BY <2>1, <2>2
<1>9. DeadlineDays(w) \in Nat
  <2>1. w \in Node
    BY DEF Winners, MandatorySightings, Sightings
  <2> QED
    BY <2>1 DEF DeadlineDays, OrElse, IInv, TypeOK, PlacementRow, CourseRow
<1>10. WindowClosed(p, MandatorySightings(p), DeadlineDays(w))
  BY DEF LearnerOverdue
<1>11. \E s \in MandatorySightings(p)' : IsPastDeadline(ReachedAt(p, s), DeadlineDays(w))'
  <2>1. PICK s \in MandatorySightings(p) : IsPastDeadline(ReachedAt(p, s), DeadlineDays(w))
    BY <1>10 DEF WindowClosed
  <2>2. ReachedAt(p, s) \in Nat /\ ReachedAt(p, s)' = ReachedAt(p, s)
    BY ReachedAtType DEF IInv, MandatorySightings, ReachedAt
  <2>3. ReachedAt(p, s) + DeadlineDays(w) < now'
    BY <1>1, <1>9, <2>1, <2>2 DEF IsPastDeadline
  <2> QED
    BY <1>2, <2>1, <2>2, <2>3 DEF IsPastDeadline
<1>12. \A t \in Reopenings(p)' : IsPastDeadline(t, DeadlineDays(w))'
  <2> TAKE t \in Reopenings(p)'
  <2>1. t \in Reopenings(p) /\ t \in Nat
    BY <1>8, ReopeningsType DEF IInv
  <2>2. IsPastDeadline(t, DeadlineDays(w))
    BY <1>10, <2>1 DEF WindowClosed
  <2> QED
    BY <1>1, <1>2, <1>9, <2>1, <2>2 DEF IsPastDeadline
<1> QED
  BY <1>2, <1>7, <1>11, <1>12 DEF LearnerOverdue, WindowClosed

(* Under the same conditions, and while nobody changes what is asked, late   *)
(* stays late until the course is completed: neither time nor the two jobs   *)
(* that rewrite spent completions let anybody off.                         *)
THEOREM NoAmnesty == ASSUME Narrow PROVE Spec => LateStaysLate
<1> DEFINE Asked == cp' = cp /\ occupies' = occupies /\ course'.deadlineDays = course.deadlineDays /\ ~course'.withdrawn
<1>1. Init => IInv /\ Aging
  BY IInvInit, AgingInit
<1>2. IInv /\ Aging /\ [Next]_vars => (IInv /\ Aging)'
  BY IInvStep, AgingStep
<1>3. IInv /\ Aging /\ [Next]_vars =>
        (Asked => \A p \in Profile :
          (/\ record'[p].completedAt = record[p].completedAt
           /\ record[p].validUntil <= now
           /\ resets' = resets \/ record[p].completedAt = Never)
          => \A w \in Winners(p) : LearnerOverdue(p, w) => LearnerOverdue(p, w)')
  BY LateStep
<1> QED
  BY <1>1, <1>2, <1>3, PTL DEF Spec, LateStaysLate
=============================================================================
