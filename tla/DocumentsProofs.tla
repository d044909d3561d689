-------------------------- MODULE DocumentsProofs --------------------------
(* What Documents promises for every number of documents, branches and       *)
(* requests: types hold whatever interleaves and fails; the safety           *)
(* properties when one request runs at a time, however often it fails.       *)
EXTENDS Documents, TLAPS

-----------------------------------------------------------------------------
(* Types.  What a handler remembers depends on the step it is about to take. *)

WellFormed(r) ==
  /\ r.at # "idle" => r.doc \in Doc
  /\ r.at \in {"retire", "carry", "link"} => r.previous \in Doc /\ r.kind \in {"create", "approve"}
  /\ r.at \in {"publish", "place"} => r.kind = "approve"
  /\ r.at = "discard" => r.kind \in {"reject", "withdraw"}
  /\ r.at = "tell" => r.kind \in {"approve", "reject"}
  /\ r.at = "file" \/ r.kind = "approve" => r.branch \in Branch

Typed ==
  /\ TypeOK
  /\ \A h \in Handler : WellFormed(handler[h])
  /\ \A d \in Doc : Undecided(d) => review[d].branch \in Branch

LEMMA UpdateTyped ==
  ASSUME handler \in [Handler -> Request], \A g \in Handler : WellFormed(handler[g]),
         NEW h \in Handler, NEW r \in Request, WellFormed(r),
         handler' = [handler EXCEPT ![h] = r]
  PROVE  handler' \in [Handler -> Request] /\ \A g \in Handler : WellFormed(handler'[g])
<1>1. handler' \in [Handler -> Request]
  OBVIOUS
<1>2. \A g \in Handler : handler'[g] = IF g = h THEN r ELSE handler[g]
  OBVIOUS
<1>3. ASSUME NEW g \in Handler PROVE WellFormed(handler'[g])
  <2>1. CASE g = h
    BY <1>2, <2>1
  <2>2. CASE g # h
    <3>1. handler'[g] = handler[g]
      BY <1>2, <2>2
    <3>2. QED
      BY <3>1
  <2>3. QED
    BY <2>1, <2>2
<1>4. QED
  BY <1>1, <1>3

LEMMA FinishTyped ==
  ASSUME Typed, NEW h \in Handler, Finish(h)
  PROVE  handler' \in [Handler -> Request] /\ \A g \in Handler : WellFormed(handler'[g])
<1>1. Idle \in Request /\ WellFormed(Idle)
  BY DEF Idle, Request, Steps, WellFormed
<1>2. QED
  BY <1>1, UpdateTyped DEF Finish, Typed, TypeOK

LEMMA BeginTyped ==
  ASSUME Typed, NEW h \in Handler, NEW kind \in {"create", "approve", "reject", "withdraw"}, NEW step \in Steps,
         NEW d \in Doc, NEW previous \in Doc \cup {None}, NEW b \in Branch \cup {None},
         Begin(h, kind, step, d, previous, b),
         WellFormed([kind |-> kind, at |-> step, doc |-> d, previous |-> previous, branch |-> b, todo |-> {}])
  PROVE  handler' \in [Handler -> Request] /\ \A g \in Handler : WellFormed(handler'[g])
<1> DEFINE r == [kind |-> kind, at |-> step, doc |-> d, previous |-> previous, branch |-> b, todo |-> {}]
<1>1. r \in Request
  BY DEF Request
<1>2. handler' = [handler EXCEPT ![h] = r]
  BY DEF Begin
<1>3. QED
  BY <1>1, <1>2, UpdateTyped DEF Typed, TypeOK

LEMMA ProceedTyped ==
  ASSUME Typed, NEW h \in Handler, NEW step \in Steps, NEW todo \in SUBSET Branch, Proceed(h, step, todo),
         WellFormed([kind |-> handler[h].kind, at |-> step, doc |-> handler[h].doc,
                     previous |-> handler[h].previous, branch |-> handler[h].branch, todo |-> todo])
  PROVE  handler' \in [Handler -> Request] /\ \A g \in Handler : WellFormed(handler'[g])
<1> DEFINE r == [kind |-> handler[h].kind, at |-> step, doc |-> handler[h].doc,
                 previous |-> handler[h].previous, branch |-> handler[h].branch, todo |-> todo]
<1>1. handler[h] \in Request
  BY DEF Typed, TypeOK
<1>2. r \in Request
  BY <1>1 DEF Request
<1>3. handler' = [handler EXCEPT ![h] = r]
  BY DEF Proceed
<1>4. QED
  BY <1>2, <1>3, UpdateTyped DEF Typed, TypeOK

LEMMA ReviewsKept ==
  ASSUME Typed, UNCHANGED review
  PROVE  review' \in [Doc -> ReviewRow] /\ \A d \in Doc : Undecided(d)' => review'[d].branch \in Branch
BY DEF Typed, TypeOK, Undecided

LEMMA InitTyped == Init => Typed
BY NoneAssumption
   DEF Init, Typed, TypeOK, WellFormed, Undecided, CourseRow, NoCourse, ReviewRow, NoReview, Request, Idle, Steps

LEMMA CreateTyped ==
  ASSUME Typed, NEW h \in Handler, NEW d \in Doc, NEW r \in Doc \cup {None}
  PROVE  /\ \A b \in Branch : CreateDraft(h, d, b, r) => Typed'
         /\ CreateLive(h, d, r) => Typed'
<1>1. ASSUME NEW s \in {"draft", "live"}, Created(d, s, r) PROVE course' \in [Doc -> CourseRow]
  BY <1>1 DEF Typed, TypeOK, Created, CourseRow
<1>2. ASSUME NEW b \in Branch, CreateDraft(h, d, b, r) PROVE Typed'
  <2>1. Begin(h, "create", "file", d, r, b) /\ Created(d, "draft", r) /\ UNCHANGED <<placements, review, told, cutShort>>
    BY <1>2 DEF CreateDraft
  <2>2. handler' \in [Handler -> Request] /\ \A g \in Handler : WellFormed(handler'[g])
    BY <2>1, BeginTyped DEF WellFormed, Steps
  <2>3. QED
    BY <1>1, <2>1, <2>2, ReviewsKept DEF Typed, TypeOK
<1>3. ASSUME CreateLive(h, d, r) PROVE Typed'
  <2>1. Created(d, "live", r) /\ UNCHANGED <<placements, review, told, cutShort>>
    BY <1>3 DEF CreateLive
  <2>2. handler' \in [Handler -> Request] /\ \A g \in Handler : WellFormed(handler'[g])
    <3>1. CASE r = None
      BY <1>3, <3>1 DEF CreateLive, Typed, TypeOK
    <3>2. CASE r # None
      <4>1. Begin(h, "create", "retire", d, r, None)
        BY <1>3, <3>2 DEF CreateLive
      <4>2. QED
        BY <3>2, <4>1, BeginTyped DEF WellFormed, Steps
    <3>3. QED
      BY <3>1, <3>2
  <2>3. QED
    BY <1>1, <2>1, <2>2, ReviewsKept DEF Typed, TypeOK
<1>4. QED
  BY <1>2, <1>3

LEMMA DecideTyped ==
  ASSUME Typed, NEW h \in Handler, NEW d \in Doc,
         Approve(h, d) \/ Reject(h, d) \/ WithdrawReview(h, d)
  PROVE  Typed'
<1>1. handler' \in [Handler -> Request] /\ \A g \in Handler : WellFormed(handler'[g])
  <2>1. CASE Approve(h, d)
    <3>1. PICK step \in {"publish", "place"} :
            Begin(h, "approve", step, d, course[d].supersedes, review[d].branch)
      BY <2>1 DEF Approve
    <3>2. course[d].supersedes \in Doc \cup {None} /\ review[d].branch \in Branch
      BY <2>1 DEF Approve, Typed, TypeOK, CourseRow
    <3>3. QED
      BY <3>1, <3>2, BeginTyped DEF WellFormed, Steps
  <2>2. CASE Reject(h, d)
    <3>1. PICK step \in {"discard", "tell"} : Begin(h, "reject", step, d, None, None)
      BY <2>2 DEF Reject
    <3>2. QED
      BY <3>1, BeginTyped DEF WellFormed, Steps
  <2>3. CASE WithdrawReview(h, d)
    <3>1. PICK step \in {"discard", "clear"} : Begin(h, "withdraw", step, d, None, None)
      BY <2>3 DEF WithdrawReview
    <3>2. QED
      BY <3>1, BeginTyped DEF WellFormed, Steps
  <2>4. QED
    BY <2>1, <2>2, <2>3
<1>2. UNCHANGED <<course, placements, review, told, cutShort>>
  BY DEF Approve, Reject, WithdrawReview
<1>3. QED
  BY <1>1, <1>2, ReviewsKept DEF Typed, TypeOK

LEMMA ManageTyped ==
  ASSUME Typed, NEW d \in Doc,
         \/ SendBack(d) \/ Resubmit(d) \/ DeleteCourse(d)
         \/ \E b \in Branch : PlaceCourse(d, b) \/ Unplace(d, b)
  PROVE  Typed'
<1>1. CASE SendBack(d) \/ Resubmit(d)
  <2>1. PICK s \in {"PENDING", "CHANGES_REQUESTED"} : review' = [review EXCEPT ![d].status = s]
    BY <1>1 DEF SendBack, Resubmit
  <2>2. Undecided(d) /\ UNCHANGED <<course, placements, told, handler, cutShort>>
    BY <1>1 DEF SendBack, Resubmit
  <2>3. review' \in [Doc -> ReviewRow]
    BY <2>1 DEF Typed, TypeOK, ReviewRow
  <2>4. \A e \in Doc : Undecided(e)' => review'[e].branch \in Branch
    BY <2>1, <2>2 DEF Typed, TypeOK, ReviewRow, Undecided
  <2>5. QED
    BY <2>2, <2>3, <2>4 DEF Typed, TypeOK
<1>2. CASE DeleteCourse(d)
  <2>1. course' \in [Doc -> CourseRow] /\ placements' \in [Doc -> SUBSET Branch]
    BY <1>2 DEF DeleteCourse, Typed, TypeOK, CourseRow
  <2>2. QED
    BY <1>2, <2>1, ReviewsKept DEF DeleteCourse, Typed, TypeOK
<1>3. CASE \E b \in Branch : PlaceCourse(d, b) \/ Unplace(d, b)
  <2>1. placements' \in [Doc -> SUBSET Branch]
    BY <1>3 DEF PlaceCourse, Unplace, Typed, TypeOK
  <2>2. UNCHANGED <<course, review, told, handler, cutShort>>
    BY <1>3 DEF PlaceCourse, Unplace
  <2>3. QED
    BY <2>1, <2>2, ReviewsKept DEF Typed, TypeOK
<1>4. QED
  BY <1>1, <1>2, <1>3

LEMMA GotoTyped ==
  ASSUME Typed, NEW h \in Handler, NEW step \in Steps, Goto(h, step),
         handler[h].at # "idle",
         step \in {"retire", "carry", "link"} => handler[h].previous \in Doc /\ handler[h].kind \in {"create", "approve"},
         step \in {"publish", "place"} => handler[h].kind = "approve",
         step = "discard" => handler[h].kind \in {"reject", "withdraw"},
         step = "tell" => handler[h].kind \in {"approve", "reject"},
         step # "file"
  PROVE  handler' \in [Handler -> Request] /\ \A g \in Handler : WellFormed(handler'[g])
<1>1. WellFormed(handler[h])
  BY DEF Typed
<1>2. WellFormed([kind |-> handler[h].kind, at |-> step, doc |-> handler[h].doc,
                  previous |-> handler[h].previous, branch |-> handler[h].branch, todo |-> {}])
  BY <1>1 DEF WellFormed
<1>3. QED
  BY <1>2, ProceedTyped DEF Goto

LEMMA AfterRetiringTyped ==
  ASSUME Typed, NEW h \in Handler, AfterRetiring(h), handler[h].at # "idle"
  PROVE  handler' \in [Handler -> Request] /\ \A g \in Handler : WellFormed(handler'[g])
BY GotoTyped, FinishTyped DEF AfterRetiring, Steps

LEMMA StepTyped ==
  ASSUME Typed, NEW h \in Handler, Step(h)
  PROVE  Typed'
<1>0. WellFormed(handler[h]) /\ handler[h] \in Request
  BY DEF Typed, TypeOK
<1>1. CASE FileReview(h)
  <2>1. handler[h].branch \in Branch
    BY <1>0, <1>1 DEF FileReview, At, WellFormed
  <2>2. review' \in [Doc -> ReviewRow] /\ \A d \in Doc : Undecided(d)' => review'[d].branch \in Branch
    BY <1>1, <2>1 DEF FileReview, Typed, TypeOK, ReviewRow, Undecided
  <2>3. QED
    BY <1>1, <2>2, FinishTyped DEF FileReview, Typed, TypeOK
<1>2. CASE FindInherited(h)
  <2>1. CASE Proceed(h, "carry", placements[handler[h].previous])
    <3>1. handler[h].previous \in Doc /\ handler[h].at = "retire"
      BY <1>0, <1>2 DEF FindInherited, At, WellFormed
    <3>2. placements[handler[h].previous] \in SUBSET Branch
      BY <3>1 DEF Typed, TypeOK
    <3>3. WellFormed([kind |-> handler[h].kind, at |-> "carry", doc |-> handler[h].doc,
                      previous |-> handler[h].previous, branch |-> handler[h].branch,
                      todo |-> placements[handler[h].previous]])
      BY <1>0, <3>1 DEF WellFormed
    <3>4. handler' \in [Handler -> Request] /\ \A g \in Handler : WellFormed(handler'[g])
      BY <2>1, <3>2, <3>3, ProceedTyped DEF Steps
    <3>5. QED
      BY <1>2, <3>4, ReviewsKept DEF FindInherited, Typed, TypeOK
  <2>2. CASE AfterRetiring(h)
    <3>1. handler[h].at # "idle"
      BY <1>2 DEF FindInherited, At
    <3>2. QED
      BY <1>2, <2>2, <3>1, AfterRetiringTyped, ReviewsKept DEF FindInherited, Typed, TypeOK
  <2>3. QED
    BY <1>2, <2>1, <2>2 DEF FindInherited
<1>3. CASE \E b \in Branch : Carry(h, b)
  <2>1. PICK b \in Branch : Carry(h, b)
    BY <1>3
  <2>2. handler[h].todo \ {b} \in SUBSET Branch
    BY <1>0 DEF Request
  <2>3. WellFormed([kind |-> handler[h].kind, at |-> "carry", doc |-> handler[h].doc,
                    previous |-> handler[h].previous, branch |-> handler[h].branch,
                    todo |-> handler[h].todo \ {b}])
    BY <1>0, <2>1 DEF Carry, At, WellFormed
  <2>4. handler' \in [Handler -> Request] /\ \A g \in Handler : WellFormed(handler'[g])
    BY <2>1, <2>2, <2>3, ProceedTyped DEF Carry, Steps
  <2>5. placements' \in [Doc -> SUBSET Branch]
    BY <2>1 DEF Carry, Typed, TypeOK
  <2>6. QED
    BY <2>1, <2>4, <2>5, ReviewsKept DEF Carry, Typed, TypeOK
<1>4. CASE RetireOld(h)
  <2>1. handler[h].at = "carry" /\ handler[h].previous \in Doc /\ handler[h].doc \in Doc
        /\ handler[h].kind \in {"create", "approve"}
    BY <1>0, <1>4 DEF RetireOld, At, WellFormed
  <2>2. course' \in [Doc -> CourseRow]
    BY <1>4, <2>1 DEF RetireOld, Typed, TypeOK, CourseRow
  <2>3. QED
    BY <1>4, <2>1, <2>2, GotoTyped, ReviewsKept DEF RetireOld, Steps, Typed, TypeOK
<1>5. CASE Link(h)
  <2>1. handler[h].at = "link" /\ handler[h].previous \in Doc
    BY <1>0, <1>5 DEF Link, At, WellFormed
  <2>2. course' \in [Doc -> CourseRow]
    BY <1>5, <2>1 DEF Link, Typed, TypeOK, CourseRow
  <2>3. QED
    BY <1>5, <2>1, <2>2, AfterRetiringTyped, ReviewsKept DEF Link, Typed, TypeOK
<1>6. CASE Publish(h)
  <2>1. handler[h].at = "publish" /\ handler[h].kind = "approve"
    BY <1>0, <1>6 DEF Publish, At, WellFormed
  <2>2. course' \in [Doc -> CourseRow]
    BY <1>6 DEF Publish, Typed, TypeOK, CourseRow
  <2>3. handler' \in [Handler -> Request] /\ \A g \in Handler : WellFormed(handler'[g])
    <3>1. CASE handler[h].previous = None
      BY <1>6, <2>1, <3>1, GotoTyped DEF Publish, Steps
    <3>2. CASE handler[h].previous # None
      <4>1. handler[h].previous \in Doc
        BY <1>0, <3>2 DEF Request
      <4>2. QED
        BY <1>6, <2>1, <3>2, <4>1, GotoTyped DEF Publish, Steps
    <3>3. QED
      BY <3>1, <3>2
  <2>4. QED
    BY <1>6, <2>2, <2>3, ReviewsKept DEF Publish, Typed, TypeOK
<1>7. CASE PlaceReviewed(h)
  <2>1. handler[h].at = "place" /\ handler[h].kind = "approve" /\ handler[h].branch \in Branch
    BY <1>0, <1>7 DEF PlaceReviewed, At, WellFormed
  <2>2. placements' \in [Doc -> SUBSET Branch]
    BY <1>7, <2>1 DEF PlaceReviewed, Typed, TypeOK
  <2>3. QED
    BY <1>7, <2>1, <2>2, GotoTyped, ReviewsKept DEF PlaceReviewed, Steps, Typed, TypeOK
<1>8. CASE Discard(h)
  <2>1. handler[h].at = "discard" /\ handler[h].kind \in {"reject", "withdraw"}
    BY <1>0, <1>8 DEF Discard, At, WellFormed
  <2>2. course' \in [Doc -> CourseRow] /\ placements' \in [Doc -> SUBSET Branch]
    BY <1>8 DEF Discard, Typed, TypeOK, CourseRow
  <2>3. PICK step \in {"tell", "clear"} : Goto(h, step) /\ (step = "tell" => handler[h].kind = "reject")
    BY <1>8 DEF Discard
  <2>4. handler' \in [Handler -> Request] /\ \A g \in Handler : WellFormed(handler'[g])
    BY <2>1, <2>3, GotoTyped DEF Steps
  <2>5. QED
    BY <1>8, <2>2, <2>4, ReviewsKept DEF Discard, Typed, TypeOK
<1>9. CASE Tell(h)
  <2>1. handler[h].at = "tell"
    BY <1>9 DEF Tell, At
  <2>2. told' \in [Doc -> SUBSET Verdicts]
    BY <1>9 DEF Tell, Typed, TypeOK, Verdicts
  <2>3. QED
    BY <1>9, <2>1, <2>2, GotoTyped, ReviewsKept DEF Tell, Steps, Typed, TypeOK
<1>10. CASE Clear(h)
  <2>1. review' \in [Doc -> ReviewRow] /\ \A d \in Doc : Undecided(d)' => review'[d].branch \in Branch
    BY <1>10 DEF Clear, Typed, TypeOK, ReviewRow, NoReview, Undecided
  <2>2. QED
    BY <1>10, <2>1, FinishTyped DEF Clear, Typed, TypeOK
<1>11. CASE Fail(h)
  <2>1. handler[h].doc \in Doc
    BY <1>11 DEF Fail, At, Typed, WellFormed
  <2>2. cutShort' \subseteq Doc
    BY <1>11, <2>1 DEF Fail, Typed, TypeOK
  <2>3. QED
    BY <1>11, <2>2, FinishTyped, ReviewsKept DEF Fail, Typed, TypeOK
<1>12. QED
  BY <1>1, <1>2, <1>3, <1>4, <1>5, <1>6, <1>7, <1>8, <1>9, <1>10, <1>11 DEF Step

LEMMA NextTyped == Typed /\ [Next]_vars => Typed'
<1> SUFFICES ASSUME Typed, [Next]_vars PROVE Typed'
  OBVIOUS
<1>1. CASE UNCHANGED vars
  BY <1>1 DEF vars, Typed, TypeOK, WellFormed, Undecided
<1>2. CASE Next
  <2>1. CASE \E h \in Handler : Step(h)
    BY <2>1, StepTyped
  <2>2. CASE \E h \in Handler, d \in Doc, r \in Doc \cup {None} :
               CreateLive(h, d, r) \/ \E b \in Branch : CreateDraft(h, d, b, r)
    BY <2>2, CreateTyped
  <2>3. CASE \E h \in Handler, d \in Doc : Approve(h, d) \/ Reject(h, d) \/ WithdrawReview(h, d)
    BY <2>3, DecideTyped
  <2>4. CASE \/ \E d \in Doc : SendBack(d) \/ Resubmit(d) \/ DeleteCourse(d)
             \/ \E d \in Doc, b \in Branch : PlaceCourse(d, b) \/ Unplace(d, b)
    BY <2>4, ManageTyped
  <2>5. QED
    BY <1>2, <2>1, <2>2, <2>3, <2>4 DEF Next
<1>3. QED
  BY <1>1, <1>2

(* Every row, mailbox and request keeps its shape, whatever interleaves and  *)
(* fails; in particular no decision loses the branch of its review.         *)
THEOREM TypeCorrect == Spec => []TypeOK
<1>1. Typed => TypeOK
  BY DEF Typed
<1>2. QED
  BY InitTyped, NextTyped, <1>1, PTL DEF Spec

-----------------------------------------------------------------------------
(* Safety, one request at a time.  Between two steps of a handler the        *)
(* document is where the next step expects it, so a failure leaves nothing   *)
(* that a later decision on the same review could undo.                     *)

Alone == "overlap" \notin Offered

OneAtATime ==
  \A g, h \in Handler : handler[g].at # "idle" /\ handler[h].at # "idle" => g = h

Ready(r) ==
  /\ r.at # "idle" => course[r.doc].state # "unused"
  /\ r.at \in {"publish", "discard"} => course[r.doc].state = "draft"
  /\ r.at \in {"retire", "carry", "link", "place"} => course[r.doc].state = "live"
  /\ r.at = "tell" => /\ course[r.doc].state # "draft"
                      /\ r.kind = "approve" => course[r.doc].state = "live"
  /\ r.at = "carry" => placements[r.previous] \subseteq placements[r.doc] \cup r.todo

\* What VerdictStands asks but for the rejections.
Announced ==
  \A d \in Doc :
    /\ told[d] # {} => course[d].state # "draft"
    /\ "content_published" \in told[d] => course[d].state # "discarded"

UnusedIsUntouched ==
  \A d \in Doc : course[d].state = "unused" => ~Undecided(d) /\ told[d] = {}

Safe ==
  /\ Typed
  /\ OneAtATime
  /\ \A h \in Handler : Ready(handler[h])
  /\ ForwardsOnlyToPublished
  /\ Announced
  /\ UnusedIsUntouched

LEMMA InitSafe == Init => Safe
BY InitTyped, NoneAssumption
   DEF Init, Safe, OneAtATime, Ready, ForwardsOnlyToPublished, Announced, UnusedIsUntouched,
       Idle, NoCourse, NoReview, Undecided

(* Only the request that takes a step is in flight, before it and after it.  *)
LEMMA OnlyOne ==
  ASSUME Safe, NEW h \in Handler, \A g \in Handler \ {h} : handler[g].at = "idle",
         NEW r, handler' = [handler EXCEPT ![h] = r], Ready(handler[h])'
  PROVE  OneAtATime' /\ \A g \in Handler : Ready(handler[g])'
<1>1. \A g \in Handler \ {h} : handler'[g].at = "idle"
  BY DEF Safe, Typed, TypeOK
<1>2. OneAtATime'
  BY <1>1 DEF OneAtATime
<1>3. ASSUME NEW g \in Handler PROVE Ready(handler[g])'
  <2>1. CASE g = h
    BY <2>1
  <2>2. CASE g # h
    BY <1>1, <2>2 DEF Ready
  <2>3. QED
    BY <2>1, <2>2
<1>4. QED
  BY <1>2, <1>3

LEMMA Others ==
  ASSUME Safe, NEW h \in Handler, handler[h].at # "idle"
  PROVE  \A g \in Handler \ {h} : handler[g].at = "idle"
BY DEF Safe, OneAtATime

LEMMA AllIdle ==
  ASSUME Alone, MayBegin
  PROVE  \A g \in Handler : handler[g].at = "idle"
BY DEF Alone, MayBegin, At

LEMMA FinishSafe ==
  ASSUME Safe, NEW h \in Handler, handler[h].at # "idle", Finish(h)
  PROVE  OneAtATime' /\ \A g \in Handler : Ready(handler[g])'
<1>1. handler'[h] = Idle
  BY DEF Finish, Safe, Typed, TypeOK
<1>2. Ready(handler[h])'
  BY <1>1 DEF Ready, Idle
<1>3. QED
  BY <1>2, Others, OnlyOne DEF Finish

LEMMA ProceedSafe ==
  ASSUME Safe, NEW h \in Handler, handler[h].at # "idle", NEW step, NEW todo, Proceed(h, step, todo)
  PROVE  /\ handler'[h].kind = handler[h].kind /\ handler'[h].at = step /\ handler'[h].todo = todo
         /\ handler'[h].doc = handler[h].doc /\ handler'[h].previous = handler[h].previous
         /\ Ready(handler[h])' => OneAtATime' /\ \A g \in Handler : Ready(handler[g])'
<1> DEFINE r == [kind |-> handler[h].kind, at |-> step, doc |-> handler[h].doc,
                 previous |-> handler[h].previous, branch |-> handler[h].branch, todo |-> todo]
<1>1. handler' = [handler EXCEPT ![h] = r]
  BY DEF Proceed
<1>2. handler'[h] = r
  BY <1>1 DEF Safe, Typed, TypeOK
<1>3. /\ handler'[h].kind = handler[h].kind /\ handler'[h].at = step /\ handler'[h].todo = todo
      /\ handler'[h].doc = handler[h].doc /\ handler'[h].previous = handler[h].previous
  BY <1>2
<1>4. Ready(handler[h])' => OneAtATime' /\ \A g \in Handler : Ready(handler[g])'
  BY <1>1, Others, OnlyOne
<1>5. QED
  BY <1>3, <1>4

LEMMA BeginSafe ==
  ASSUME Alone, Safe, MayBegin, NEW h \in Handler, NEW kind, NEW step, NEW d, NEW previous, NEW b,
         Begin(h, kind, step, d, previous, b)
  PROVE  /\ handler'[h].kind = kind /\ handler'[h].at = step /\ handler'[h].doc = d
         /\ Ready(handler[h])' => OneAtATime' /\ \A g \in Handler : Ready(handler[g])'
<1> DEFINE r == [kind |-> kind, at |-> step, doc |-> d, previous |-> previous, branch |-> b, todo |-> {}]
<1>1. handler' = [handler EXCEPT ![h] = r]
  BY DEF Begin
<1>2. handler'[h] = r
  BY <1>1 DEF Safe, Typed, TypeOK
<1>3. handler'[h].kind = kind /\ handler'[h].at = step /\ handler'[h].doc = d
  BY <1>2
<1>4. Ready(handler[h])' => OneAtATime' /\ \A g \in Handler : Ready(handler[g])'
  BY <1>1, AllIdle, OnlyOne
<1>5. QED
  BY <1>3, <1>4

LEMMA IdleSafe ==
  ASSUME Alone, Safe, MayBegin, UNCHANGED handler
  PROVE  OneAtATime' /\ \A g \in Handler : Ready(handler[g])'
BY AllIdle DEF OneAtATime, Ready

RowsSafe == ForwardsOnlyToPublished /\ Announced /\ UnusedIsUntouched

LEMMA RowsKept ==
  ASSUME Safe, UNCHANGED <<course, review, told>>
  PROVE  RowsSafe'
BY DEF Safe, RowsSafe, ForwardsOnlyToPublished, Announced, UnusedIsUntouched, Undecided

LEMMA Located ==
  ASSUME Safe, NEW h \in Handler, handler[h].at # "idle"
  PROVE  /\ handler[h] \in Request /\ WellFormed(handler[h]) /\ Ready(handler[h])
         /\ handler[h].doc \in Doc /\ course[handler[h].doc].state # "unused"
BY DEF Safe, Typed, TypeOK, WellFormed, Ready

LEMMA CreateSafe ==
  ASSUME Alone, Safe, NEW h \in Handler, NEW d \in Doc, NEW r \in Doc \cup {None},
         CreateLive(h, d, r) \/ \E b \in Branch : CreateDraft(h, d, b, r)
  PROVE  OneAtATime' /\ (\A g \in Handler : Ready(handler[g])') /\ RowsSafe'
<1>1. MayBegin /\ course[d].state = "unused" /\ UNCHANGED <<placements, review, told>>
  BY DEF CreateLive, CreateDraft
<1>2. PICK s \in {"draft", "live"} :
        /\ Created(d, s, r)
        /\ \/ CreateLive(h, d, r) /\ s = "live"
           \/ s = "draft" /\ \E b \in Branch : CreateDraft(h, d, b, r)
  BY DEF CreateLive, CreateDraft
<1>3. course' = [course EXCEPT ![d] = [state |-> s, supersedes |-> r, supersededBy |-> None]]
  BY <1>2 DEF Created
<1>4. /\ course'[d] = [state |-> s, supersedes |-> r, supersededBy |-> None]
      /\ \A e \in Doc \ {d} : course'[e] = course[e]
  BY <1>3 DEF Safe, Typed, TypeOK
<1>5. RowsSafe'
  <2>1. ForwardsOnlyToPublished'
    BY <1>1, <1>4, NoneAssumption DEF Safe, ForwardsOnlyToPublished
  <2>2. Announced' /\ UnusedIsUntouched'
    BY <1>1, <1>2, <1>4 DEF Safe, Announced, UnusedIsUntouched, Undecided
  <2>3. QED
    BY <2>1, <2>2 DEF RowsSafe
<1>6. OneAtATime' /\ \A g \in Handler : Ready(handler[g])'
  <2>1. CASE CreateLive(h, d, r) /\ r = None
    <3>1. UNCHANGED handler
      BY <2>1 DEF CreateLive
    <3>2. QED
      BY <1>1, <3>1, IdleSafe
  <2>2. CASE s = "live" /\ CreateLive(h, d, r) /\ r # None
    <3>1. Begin(h, "create", "retire", d, r, None)
      BY <2>2 DEF CreateLive
    <3>2. Ready(handler[h])'
      <4>1. handler'[h].at = "retire" /\ handler'[h].doc = d
        BY <1>1, <3>1, BeginSafe
      <4>2. QED
        BY <1>4, <2>2, <4>1 DEF Ready
    <3>3. QED
      BY <1>1, <3>1, <3>2, BeginSafe
  <2>3. CASE s = "draft" /\ \E b \in Branch : CreateDraft(h, d, b, r)
    <3>1. PICK b \in Branch : Begin(h, "create", "file", d, r, b)
      BY <2>3 DEF CreateDraft
    <3>2. Ready(handler[h])'
      <4>1. handler'[h].at = "file" /\ handler'[h].doc = d
        BY <1>1, <3>1, BeginSafe
      <4>2. QED
        BY <1>4, <2>3, <4>1 DEF Ready
    <3>3. QED
      BY <1>1, <3>1, <3>2, BeginSafe
  <2>4. QED
    BY <1>2, <2>1, <2>2, <2>3
<1>7. QED
  BY <1>5, <1>6

LEMMA DecideSafe ==
  ASSUME Alone, Safe, NEW h \in Handler, NEW d \in Doc,
         Approve(h, d) \/ Reject(h, d) \/ WithdrawReview(h, d)
  PROVE  OneAtATime' /\ (\A g \in Handler : Ready(handler[g])') /\ RowsSafe'
<1>1. MayBegin /\ Undecided(d) /\ UNCHANGED <<course, placements, review, told>>
  BY DEF Approve, Reject, WithdrawReview
<1>2. course[d].state # "unused"
  BY <1>1 DEF Safe, UnusedIsUntouched
<1>3. PICK kind \in {"approve", "reject", "withdraw"}, step \in {"publish", "place", "discard", "tell", "clear"},
           previous \in Doc \cup {None}, b \in Branch \cup {None} :
        /\ Begin(h, kind, step, d, previous, b)
        /\ step \in {"publish", "discard"} => course[d].state = "draft"
        /\ step = "place" => course[d].state = "live"
        /\ step = "tell" => kind # "approve" /\ course[d].state # "draft"
  <2>1. CASE Approve(h, d)
    <3>1. course[d].supersedes \in Doc \cup {None} /\ review[d].branch \in Branch \cup {None}
      BY DEF Safe, Typed, TypeOK, CourseRow, ReviewRow
    <3>2. CASE course[d].state = "draft"
      BY <2>1, <3>1, <3>2 DEF Approve
    <3>3. CASE course[d].state = "live"
      BY <2>1, <3>1, <3>3 DEF Approve
    <3>4. QED
      BY <2>1, <3>2, <3>3 DEF Approve, Exists
  <2>2. CASE Reject(h, d)
    <3>1. CASE course[d].state = "draft"
      BY <2>2, <3>1 DEF Reject
    <3>2. CASE course[d].state # "draft"
      BY <2>2, <3>2 DEF Reject
    <3>3. QED
      BY <3>1, <3>2
  <2>3. CASE WithdrawReview(h, d)
    <3>1. CASE review[d].status = "PENDING" /\ course[d].state = "draft"
      BY <2>3, <3>1 DEF WithdrawReview
    <3>2. CASE ~(review[d].status = "PENDING" /\ course[d].state = "draft")
      BY <2>3, <3>2 DEF WithdrawReview
    <3>3. QED
      BY <3>1, <3>2
  <2>4. QED
    BY <2>1, <2>2, <2>3
<1>4. Ready(handler[h])'
  <2>1. handler'[h].at = step /\ handler'[h].doc = d /\ handler'[h].kind = kind
    BY <1>1, <1>3, BeginSafe
  <2>2. QED
    BY <1>1, <1>2, <1>3, <2>1 DEF Ready
<1>5. QED
  BY <1>1, <1>3, <1>4, BeginSafe, RowsKept

LEMMA ManageSafe ==
  ASSUME Alone, Safe, NEW d \in Doc,
         \/ SendBack(d) \/ Resubmit(d) \/ DeleteCourse(d)
         \/ \E b \in Branch : PlaceCourse(d, b) \/ Unplace(d, b)
  PROVE  OneAtATime' /\ (\A g \in Handler : Ready(handler[g])') /\ RowsSafe'
<1>1. MayBegin /\ UNCHANGED <<told, handler>>
  BY DEF SendBack, Resubmit, DeleteCourse, PlaceCourse, Unplace
<1>2. CASE SendBack(d) \/ Resubmit(d)
  <2>1. PICK s \in {"PENDING", "CHANGES_REQUESTED"} : review' = [review EXCEPT ![d].status = s]
    BY <1>2 DEF SendBack, Resubmit
  <2>2. Undecided(d) /\ UNCHANGED course
    BY <1>2 DEF SendBack, Resubmit
  <2>3. \A e \in Doc : Undecided(e)' => Undecided(e)
    BY <2>1, <2>2 DEF Undecided, Safe, Typed, TypeOK, ReviewRow
  <2>4. QED
    BY <1>1, <2>2, <2>3, IdleSafe
       DEF Safe, RowsSafe, ForwardsOnlyToPublished, Announced, UnusedIsUntouched
<1>3. CASE DeleteCourse(d)
  <2>1. /\ course'[d].state = "deleted" /\ course'[d].supersededBy = course[d].supersededBy
        /\ \A e \in Doc \ {d} : course'[e] = course[e]
        /\ UNCHANGED review /\ course[d].state \in {"draft", "live"}
    BY <1>3 DEF DeleteCourse, Exists, Safe, Typed, TypeOK, CourseRow
  <2>2. QED
    BY <1>1, <2>1, IdleSafe
       DEF Safe, RowsSafe, ForwardsOnlyToPublished, Announced, UnusedIsUntouched, Undecided
<1>4. CASE \E b \in Branch : PlaceCourse(d, b) \/ Unplace(d, b)
  <2>1. UNCHANGED <<course, review, told>>
    BY <1>4 DEF PlaceCourse, Unplace
  <2>2. QED
    BY <1>1, <2>1, IdleSafe, RowsKept
<1>5. QED
  BY <1>2, <1>3, <1>4

LEMMA AfterRetiringSafe ==
  ASSUME Safe, NEW h \in Handler, handler[h].at # "idle", AfterRetiring(h),
         course'[handler[h].doc].state = "live"
  PROVE  OneAtATime' /\ \A g \in Handler : Ready(handler[g])'
<1>1. CASE Goto(h, "place")
  <2>1. Proceed(h, "place", {})
    BY <1>1 DEF Goto
  <2>2. handler'[h].at = "place" /\ handler'[h].doc = handler[h].doc
    BY <2>1, ProceedSafe
  <2>3. Ready(handler[h])'
    BY <2>2 DEF Ready
  <2>4. QED
    BY <2>1, <2>3, ProceedSafe
<1>2. CASE Finish(h)
  BY <1>2, FinishSafe
<1>3. QED
  BY <1>1, <1>2 DEF AfterRetiring

LEMMA StepSafe ==
  ASSUME Safe, NEW h \in Handler, Step(h)
  PROVE  OneAtATime' /\ (\A g \in Handler : Ready(handler[g])') /\ RowsSafe'
<1> DEFINE doc == handler[h].doc
           previous == handler[h].previous
<1>0. handler[h].at # "idle"
  BY DEF Step, At, FileReview, FindInherited, Carry, RetireOld, Link, Publish, PlaceReviewed, Discard, Tell,
         Clear, Fail
<1>1. doc \in Doc /\ course[doc].state # "unused" /\ WellFormed(handler[h]) /\ Ready(handler[h])
      /\ handler[h] \in Request
  BY <1>0, Located
<1>2. ASSUME NEW step, Goto(h, step)
      PROVE  /\ handler'[h].at = step /\ handler'[h].kind = handler[h].kind /\ handler'[h].doc = doc
             /\ Ready(handler[h])' => OneAtATime' /\ \A g \in Handler : Ready(handler[g])'
  BY <1>0, <1>2, ProceedSafe DEF Goto
<1>3. CASE FileReview(h) \/ Clear(h)
  <2>1. Finish(h) /\ UNCHANGED <<course, told>>
    BY <1>3 DEF FileReview, Clear
  <2>2. \A d \in Doc : d # doc => review'[d] = review[d]
    BY <1>3 DEF FileReview, Clear, Safe, Typed, TypeOK
  <2>3. RowsSafe'
    BY <1>1, <2>1, <2>2
       DEF Safe, RowsSafe, ForwardsOnlyToPublished, Announced, UnusedIsUntouched, Undecided
  <2>4. QED
    BY <1>0, <2>1, <2>3, FinishSafe
<1>4. CASE FindInherited(h)
  <2>1. course[doc].state = "live" /\ UNCHANGED <<course, placements, review, told>>
    BY <1>1, <1>4 DEF FindInherited, At, Ready
  <2>2. CASE Proceed(h, "carry", placements[previous])
    <3>1. /\ handler'[h].at = "carry" /\ handler'[h].todo = placements[previous]
          /\ handler'[h].doc = doc /\ handler'[h].previous = previous
      BY <1>0, <2>2, ProceedSafe
    <3>2. Ready(handler[h])'
      BY <2>1, <3>1 DEF Ready
    <3>3. QED
      BY <1>0, <2>1, <2>2, <3>2, ProceedSafe, RowsKept
  <2>3. CASE AfterRetiring(h)
    BY <1>0, <2>1, <2>3, AfterRetiringSafe, RowsKept
  <2>4. QED
    BY <1>4, <2>2, <2>3 DEF FindInherited
<1>5. CASE \E b \in Branch : Carry(h, b)
  <2>1. PICK b \in Branch : Carry(h, b)
    BY <1>5
  <2>2. Proceed(h, "carry", handler[h].todo \ {b}) /\ UNCHANGED <<course, review, told>>
    BY <2>1 DEF Carry
  <2>3. /\ handler'[h].at = "carry" /\ handler'[h].todo = handler[h].todo \ {b}
        /\ handler'[h].doc = doc /\ handler'[h].previous = previous
    BY <1>0, <2>2, ProceedSafe
  <2>4. handler[h].at = "carry" /\ previous \in Doc
    BY <1>1, <2>1 DEF Carry, At, WellFormed
  <2>5. course[doc].state = "live" /\ placements[previous] \subseteq placements[doc] \cup handler[h].todo
    BY <1>1, <2>4 DEF Ready
  <2>6. placements'[previous] \subseteq placements'[doc] \cup (handler[h].todo \ {b})
    <3>1. placements'[doc] = placements[doc] \cup {b}
      BY <1>1, <2>1 DEF Carry, Safe, Typed, TypeOK
    <3>2. previous # doc => placements'[previous] = placements[previous]
      BY <1>1, <2>1, <2>4 DEF Carry, Safe, Typed, TypeOK
    <3>3. QED
      BY <2>5, <3>1, <3>2
  <2>7. Ready(handler[h])'
    BY <2>2, <2>3, <2>5, <2>6 DEF Ready
  <2>8. QED
    BY <1>0, <2>2, <2>7, ProceedSafe, RowsKept
<1>6. CASE RetireOld(h)
  <2>1. previous \in Doc /\ course[doc].state = "live" /\ UNCHANGED <<placements, review, told>>
    BY <1>1, <1>6 DEF RetireOld, At, WellFormed, Ready
  <2>2. /\ course'[previous].state = course[previous].state /\ course'[previous].supersededBy = doc
        /\ \A d \in Doc \ {previous} : course'[d] = course[d]
    BY <1>6, <2>1 DEF RetireOld, Safe, Typed, TypeOK, CourseRow
  <2>3. Goto(h, "link")
    BY <1>6 DEF RetireOld
  <2>4. course'[doc].state = "live"
    BY <1>1, <2>1, <2>2
  <2>5. Ready(handler[h])'
    BY <1>2, <2>3, <2>4 DEF Ready
  <2>6. RowsSafe'
    BY <1>1, <2>1, <2>2
       DEF Safe, RowsSafe, ForwardsOnlyToPublished, Announced, UnusedIsUntouched, Undecided
  <2>7. QED
    BY <1>2, <2>3, <2>5, <2>6
<1>7. CASE Link(h)
  <2>1. AfterRetiring(h) /\ course[doc].state = "live" /\ UNCHANGED <<placements, review, told>>
    BY <1>1, <1>7 DEF Link, At, Ready
  <2>2. /\ course'[doc].state = "live" /\ course'[doc].supersededBy = course[doc].supersededBy
        /\ \A d \in Doc \ {doc} : course'[d] = course[d]
    BY <1>1, <1>7, <2>1 DEF Link, Safe, Typed, TypeOK, CourseRow
  <2>3. RowsSafe'
    BY <1>1, <2>1, <2>2
       DEF Safe, RowsSafe, ForwardsOnlyToPublished, Announced, UnusedIsUntouched, Undecided
  <2>4. QED
    BY <1>0, <2>1, <2>2, <2>3, AfterRetiringSafe
<1>8. CASE Publish(h)
  <2>1. UNCHANGED <<placements, review, told>>
    BY <1>8 DEF Publish
  <2>2. /\ course'[doc].state = "live" /\ course'[doc].supersededBy = course[doc].supersededBy
        /\ \A d \in Doc \ {doc} : course'[d] = course[d]
    BY <1>1, <1>8 DEF Publish, Safe, Typed, TypeOK, CourseRow
  <2>3. PICK step \in {"retire", "place"} : Goto(h, step)
    BY <1>8 DEF Publish
  <2>4. Ready(handler[h])'
    BY <1>2, <2>2, <2>3 DEF Ready
  <2>5. RowsSafe'
    BY <1>1, <2>1, <2>2
       DEF Safe, RowsSafe, ForwardsOnlyToPublished, Announced, UnusedIsUntouched, Undecided
  <2>6. QED
    BY <1>2, <2>3, <2>4, <2>5
<1>9. CASE PlaceReviewed(h)
  <2>1. Goto(h, "tell") /\ course[doc].state = "live" /\ UNCHANGED <<course, review, told>>
    BY <1>1, <1>9 DEF PlaceReviewed, At, Ready
  <2>2. Ready(handler[h])'
    BY <1>2, <2>1 DEF Ready
  <2>3. QED
    BY <1>2, <2>1, <2>2, RowsKept
<1>10. CASE Discard(h)
  <2>1. course[doc].state = "draft" /\ handler[h].kind # "approve" /\ UNCHANGED <<review, told>>
    BY <1>1, <1>10 DEF Discard, At, Ready, WellFormed
  <2>2. /\ course'[doc].state = "discarded" /\ course'[doc].supersededBy = course[doc].supersededBy
        /\ \A d \in Doc \ {doc} : course'[d] = course[d]
    BY <1>1, <1>10 DEF Discard, Safe, Typed, TypeOK, CourseRow
  <2>3. PICK step \in {"tell", "clear"} : Goto(h, step)
    BY <1>10 DEF Discard
  <2>4. Ready(handler[h])'
    BY <1>2, <2>1, <2>2, <2>3 DEF Ready
  <2>5. RowsSafe'
    BY <1>1, <2>1, <2>2
       DEF Safe, RowsSafe, ForwardsOnlyToPublished, Announced, UnusedIsUntouched, Undecided
  <2>6. QED
    BY <1>2, <2>3, <2>4, <2>5
<1>11. CASE Tell(h)
  <2>1. Goto(h, "clear") /\ UNCHANGED <<course, placements, review>>
    BY <1>11 DEF Tell
  <2>2. course[doc].state # "draft" /\ (handler[h].kind = "approve" => course[doc].state = "live")
    BY <1>1, <1>11 DEF Tell, At, Ready
  <2>3. Ready(handler[h])'
    BY <1>1, <1>2, <2>1 DEF Ready
  <2>4. /\ \A d \in Doc \ {doc} : told'[d] = told[d]
        /\ told'[doc] = told[doc] \cup {IF handler[h].kind = "approve" THEN "content_published"
                                                                       ELSE "content_rejected"}
    BY <1>1, <1>11 DEF Tell, Safe, Typed, TypeOK
  <2>5. RowsSafe'
    BY <1>1, <2>1, <2>2, <2>4
       DEF Safe, RowsSafe, ForwardsOnlyToPublished, Announced, UnusedIsUntouched, Undecided
  <2>6. QED
    BY <1>2, <2>1, <2>3, <2>5
<1>12. CASE Fail(h)
  BY <1>0, <1>12, FinishSafe, RowsKept DEF Fail
<1>13. QED
  BY <1>3, <1>4, <1>5, <1>6, <1>7, <1>8, <1>9, <1>10, <1>11, <1>12 DEF Step

LEMMA NextSafe == Alone /\ Safe /\ [Next]_vars => Safe'
<1> SUFFICES ASSUME Alone, Safe, [Next]_vars PROVE Safe'
  OBVIOUS
<1>1. Typed'
  BY NextTyped DEF Safe
<1>2. OneAtATime' /\ (\A g \in Handler : Ready(handler[g])') /\ RowsSafe'
  <2>1. CASE UNCHANGED vars
    BY <2>1, RowsKept DEF vars, Safe, OneAtATime, Ready
  <2>2. CASE \E h \in Handler : Step(h)
    BY <2>2, StepSafe
  <2>3. CASE \E h \in Handler, d \in Doc, r \in Doc \cup {None} :
               CreateLive(h, d, r) \/ \E b \in Branch : CreateDraft(h, d, b, r)
    BY <2>3, CreateSafe
  <2>4. CASE \E h \in Handler, d \in Doc : Approve(h, d) \/ Reject(h, d) \/ WithdrawReview(h, d)
    BY <2>4, DecideSafe
  <2>5. CASE \/ \E d \in Doc : SendBack(d) \/ Resubmit(d) \/ DeleteCourse(d)
             \/ \E d \in Doc, b \in Branch : PlaceCourse(d, b) \/ Unplace(d, b)
    BY <2>5, ManageSafe
  <2>6. QED
    BY <2>1, <2>2, <2>3, <2>4, <2>5 DEF Next
<1>3. QED
  BY <1>1, <1>2 DEF Safe, RowsSafe

(* As long as requests do not overlap, nothing ever forwards to a draft,     *)
(* whatever fails half way through an approval or a direct publication.      *)
THEOREM Forwarding == ASSUME Alone PROVE Spec => []ForwardsOnlyToPublished
<1>1. Safe => ForwardsOnlyToPublished
  BY DEF Safe
<1>2. Safe /\ [Next]_vars => Safe'
  BY NextSafe
<1>3. QED
  BY InitSafe, <1>1, <1>2, PTL DEF Spec

-----------------------------------------------------------------------------
(* Rejections.  A document under review is in force only while its approval  *)
(* is under way, or after one that died: so a rejection finds it in force    *)
(* only then.                                                              *)

Approving(d) ==
  \E h \in Handler : /\ handler[h].kind = "approve" /\ handler[h].doc = d
                     /\ handler[h].at \notin {"idle", "publish"}
NotInForce(d) == course[d].state # "live" \/ d \in cutShort

ReviewExcused == \A d \in Doc : Undecided(d) => NotInForce(d) \/ Approving(d)
TellExcused ==
  \A h \in Handler : /\ handler[h].at = "tell" /\ handler[h].kind = "reject" => NotInForce(handler[h].doc)
                     /\ handler[h].at = "file" => course[handler[h].doc].state = "draft"
ToldExcused == \A d \in Doc : "content_rejected" \in told[d] => NotInForce(d)
Excused == ReviewExcused /\ TellExcused /\ ToldExcused

LEMMA InitExcused == Init => Excused
BY DEF Init, Excused, ReviewExcused, TellExcused, ToldExcused, NotInForce, Undecided, Idle, NoCourse, NoReview

LEMMA OnesDoc ==
  ASSUME Safe, NEW h \in Handler, handler[h].at # "idle"
  PROVE  /\ handler[h].doc \in Doc
         /\ \A d \in Doc : Approving(d) => handler[h].kind = "approve" /\ handler[h].doc = d /\ handler[h].at # "publish"
         /\ \A g \in Handler \ {h} : handler[g].at = "idle"
BY Located, Others DEF Approving

LEMMA ProceedExcused ==
  ASSUME Safe, NEW h \in Handler, handler[h].at # "idle", NEW doc \in Doc, handler[h].doc = doc, NEW todo,
         NEW step \in {"retire", "carry", "link", "place", "tell", "clear"}, Proceed(h, step, todo)
  PROVE  /\ handler[h].kind = "approve" => Approving(doc)'
         /\ \A d \in Doc : Approving(d) => Approving(d)'
         /\ \A g \in Handler : handler'[g].at # "idle" =>
              g = h /\ handler'[h].at = step /\ handler'[h].doc = doc /\ handler'[h].kind = handler[h].kind
<1>1. handler'[h].kind = handler[h].kind /\ handler'[h].at = step /\ handler'[h].doc = doc
  BY ProceedSafe
<1>2. handler[h].kind = "approve" => Approving(doc)'
  BY <1>1 DEF Approving
<1>3. ASSUME NEW d \in Doc, Approving(d) PROVE Approving(d)'
  <2>1. handler[h].kind = "approve" /\ handler[h].doc = d
    BY <1>3, OnesDoc
  <2> QED
    BY <1>2, <2>1
<1>4. \A g \in Handler \ {h} : handler'[g] = handler[g] /\ handler[g].at = "idle"
  BY OnesDoc DEF Proceed, Safe, Typed, TypeOK
<1> QED
  BY <1>1, <1>2, <1>3, <1>4

LEMMA FinishExcused ==
  ASSUME Safe, NEW h \in Handler, handler[h].at # "idle", Finish(h)
  PROVE  \A g \in Handler : handler'[g].at = "idle"
BY OnesDoc DEF Finish, Idle, Safe, Typed, TypeOK

LEMMA BeginExcused ==
  ASSUME Alone, Safe, MayBegin, NEW h \in Handler, NEW kind, NEW step, NEW d, NEW previous, NEW b,
         Begin(h, kind, step, d, previous, b)
  PROVE  /\ \A e \in Doc : ~Approving(e)
         /\ \A g \in Handler : handler'[g].at # "idle" =>
              g = h /\ handler'[h].at = step /\ handler'[h].doc = d /\ handler'[h].kind = kind
<1>1. \A g \in Handler \ {h} : handler'[g] = handler[g]
  BY DEF Begin, Safe, Typed, TypeOK
<1> QED
  BY <1>1, AllIdle, BeginSafe DEF Approving

LEMMA BegunExcused ==
  ASSUME Alone, Safe, Excused, NEW h \in Handler, NEW d \in Doc,
         \/ \E r \in Doc \cup {None} : CreateLive(h, d, r) \/ \E b \in Branch : CreateDraft(h, d, b, r)
         \/ Approve(h, d) \/ Reject(h, d) \/ WithdrawReview(h, d)
  PROVE  Excused'
<1>1. MayBegin /\ UNCHANGED <<review, told, cutShort>>
  BY DEF CreateLive, CreateDraft, Approve, Reject, WithdrawReview
<1>2. \A e \in Doc : ~Approving(e)
  BY <1>1, AllIdle DEF Approving
<1>3. \A e \in Doc : Undecided(e) => NotInForce(e)
  BY <1>2 DEF Excused, ReviewExcused
<1>4. CASE \E r \in Doc \cup {None} : CreateLive(h, d, r) \/ \E b \in Branch : CreateDraft(h, d, b, r)
  <2>1. PICK r \in Doc \cup {None}, s \in {"draft", "live"} :
          /\ Created(d, s, r) /\ course[d].state = "unused"
          /\ \/ s = "live" /\ CreateLive(h, d, r)
             \/ s = "draft" /\ \E b \in Branch : CreateDraft(h, d, b, r)
    BY <1>4 DEF CreateLive, CreateDraft
  <2>2. course'[d].state = s /\ \A e \in Doc \ {d} : course'[e] = course[e]
    BY <2>1 DEF Created, Safe, Typed, TypeOK
  <2>3. ~Undecided(d) /\ told[d] = {}
    BY <2>1 DEF Safe, UnusedIsUntouched
  <2>4. ReviewExcused' /\ ToldExcused'
    BY <1>1, <1>3, <2>2, <2>3 DEF Excused, ReviewExcused, ToldExcused, NotInForce, Undecided
  <2>5. TellExcused'
    <3>1. CASE s = "live" /\ CreateLive(h, d, r)
      <4>1. CASE UNCHANGED handler
        BY <1>1, <4>1, AllIdle DEF TellExcused
      <4>2. CASE Begin(h, "create", "retire", d, r, None)
        BY <1>1, <4>2, BeginExcused DEF TellExcused
      <4> QED
        BY <3>1, <4>1, <4>2 DEF CreateLive
    <3>2. CASE s = "draft" /\ \E b \in Branch : CreateDraft(h, d, b, r)
      <4>1. PICK b \in Branch : Begin(h, "create", "file", d, r, b)
        BY <3>2 DEF CreateDraft
      <4> QED
        BY <1>1, <2>2, <3>2, <4>1, BeginExcused DEF TellExcused
    <3> QED
      BY <2>1, <3>1, <3>2
  <2> QED
    BY <2>4, <2>5 DEF Excused
<1>5. CASE Approve(h, d) \/ Reject(h, d) \/ WithdrawReview(h, d)
  <2>1. Undecided(d) /\ UNCHANGED course
    BY <1>5 DEF Approve, Reject, WithdrawReview
  <2>2. ReviewExcused' /\ ToldExcused'
    BY <1>1, <1>3, <2>1 DEF Excused, ReviewExcused, ToldExcused, NotInForce, Undecided
  <2>3. PICK kind \in {"approve", "reject", "withdraw"}, step \in {"publish", "place", "discard", "tell", "clear"},
             previous \in Doc \cup {None}, b \in Branch \cup {None} : Begin(h, kind, step, d, previous, b)
    <3>1. CASE Approve(h, d)
      <4>1. course[d].supersedes \in Doc \cup {None} /\ review[d].branch \in Branch \cup {None}
        BY DEF Safe, Typed, TypeOK, CourseRow, ReviewRow
      <4> QED
        BY <3>1, <4>1 DEF Approve
    <3>2. CASE Reject(h, d)
      BY <3>2 DEF Reject
    <3>3. CASE WithdrawReview(h, d)
      BY <3>3 DEF WithdrawReview
    <3> QED
      BY <1>5, <3>1, <3>2, <3>3
  <2>4. TellExcused'
    <3>1. \A g \in Handler : handler'[g].at # "idle" => handler'[g].doc = d /\ handler'[g].at # "file"
      BY <1>1, <2>3, BeginExcused
    <3>2. NotInForce(d)'
      BY <1>1, <1>3, <2>1 DEF NotInForce
    <3> QED
      BY <3>1, <3>2 DEF TellExcused, NotInForce
  <2> QED
    BY <2>2, <2>4 DEF Excused
<1> QED
  BY <1>4, <1>5

LEMMA ManagedExcused ==
  ASSUME Alone, Safe, Excused, NEW d \in Doc,
         \/ SendBack(d) \/ Resubmit(d) \/ DeleteCourse(d)
         \/ \E b \in Branch : PlaceCourse(d, b) \/ Unplace(d, b)
  PROVE  Excused'
<1>1. MayBegin /\ UNCHANGED <<told, handler, cutShort>>
  BY DEF SendBack, Resubmit, DeleteCourse, PlaceCourse, Unplace
<1>2. \A e \in Doc : Undecided(e)' => Undecided(e)
  BY DEF SendBack, Resubmit, DeleteCourse, PlaceCourse, Unplace, Undecided, Safe, Typed, TypeOK, ReviewRow
<1>3. \A e \in Doc : NotInForce(e) => NotInForce(e)'
  <2>1. CASE DeleteCourse(d)
    BY <1>1, <2>1 DEF DeleteCourse, NotInForce, Safe, Typed, TypeOK, CourseRow
  <2>2. CASE UNCHANGED course
    BY <1>1, <2>2 DEF NotInForce
  <2> QED
    BY <2>1, <2>2 DEF SendBack, Resubmit, PlaceCourse, Unplace
<1>4. TellExcused'
  BY <1>1, AllIdle DEF TellExcused
<1>5. ReviewExcused' /\ ToldExcused'
  BY <1>1, <1>2, <1>3 DEF Excused, ReviewExcused, ToldExcused, Approving
<1> QED
  BY <1>4, <1>5 DEF Excused

LEMMA StepExcused ==
  ASSUME Safe, Excused, NEW h \in Handler, Step(h)
  PROVE  Excused'
<1>0. handler[h].at # "idle"
  BY DEF Step, At, FileReview, FindInherited, Carry, RetireOld, Link, Publish, PlaceReviewed, Discard, Tell,
         Clear, Fail
<1>1. PICK doc \in Doc : handler[h].doc = doc /\ WellFormed(handler[h]) /\ Ready(handler[h])
  BY <1>0, Located
<1>2. CASE FileReview(h) \/ Clear(h)
  <2>1. Finish(h) /\ UNCHANGED <<course, told, cutShort>>
    BY <1>2 DEF FileReview, Clear
  <2>2. TellExcused'
    BY <1>0, <2>1, FinishExcused DEF TellExcused
  <2>3. ToldExcused'
    BY <2>1 DEF Excused, ToldExcused, NotInForce
  <2>4. /\ \A d \in Doc \ {doc} : review'[d] = review[d]
        /\ Clear(h) => review'[doc] = NoReview
    BY <1>1, <1>2 DEF FileReview, Clear, Safe, Typed, TypeOK
  <2>5. FileReview(h) => course[doc].state = "draft"
    BY <1>1 DEF FileReview, At, Excused, TellExcused
  <2>6. ASSUME NEW d \in Doc, Undecided(d)' PROVE NotInForce(d)'
    <3>1. CASE d = doc
      BY <1>2, <2>1, <2>4, <2>5, <2>6, <3>1 DEF NotInForce, Undecided, NoReview
    <3>2. CASE d # doc
      BY <1>0, <1>1, <2>1, <2>4, <2>6, <3>2, OnesDoc DEF Excused, ReviewExcused, NotInForce, Undecided
    <3> QED
      BY <3>1, <3>2
  <2> QED
    BY <2>2, <2>3, <2>6 DEF Excused, ReviewExcused
<1>3. CASE Fail(h)
  <2>1. Finish(h) /\ UNCHANGED <<course, review, told>> /\ cutShort \subseteq cutShort'
        /\ (handler[h].kind = "approve" /\ handler[h].at # "publish" => doc \in cutShort')
    BY <1>1, <1>3 DEF Fail, At
  <2>2. TellExcused'
    BY <1>0, <2>1, FinishExcused DEF TellExcused
  <2>3. \A d \in Doc : NotInForce(d) \/ Approving(d) => NotInForce(d)'
    BY <1>0, <1>1, <2>1, OnesDoc DEF NotInForce
  <2> QED
    BY <2>1, <2>2, <2>3 DEF Excused, ReviewExcused, ToldExcused, Undecided
<1>4. CASE (FindInherited(h) \/ Link(h)) /\ Finish(h)
  <2>1. UNCHANGED <<review, told, cutShort>> /\ handler[h].at \in {"retire", "link"}
    BY <1>4 DEF FindInherited, Link, At
  <2>2. handler[h].kind # "approve"
    BY <1>0, <1>4, <2>1 DEF FindInherited, Link, AfterRetiring, Finish, Goto, Proceed, Idle, Safe, Typed, TypeOK
  <2>3. TellExcused'
    BY <1>0, <1>4, FinishExcused DEF TellExcused
  <2>4. \A d \in Doc : course'[d].state = course[d].state
    BY <1>1, <1>4 DEF FindInherited, Link, Safe, Typed, TypeOK, CourseRow
  <2>5. \A d \in Doc : ~Approving(d)
    BY <1>0, <2>2, OnesDoc
  <2> QED
    BY <2>1, <2>3, <2>4, <2>5 DEF Excused, ReviewExcused, ToldExcused, NotInForce, Undecided
<1>5. ASSUME NEW step \in {"retire", "carry", "link", "place", "tell", "clear"}, NEW todo, Proceed(h, step, todo),
             UNCHANGED <<review, cutShort>>, \A d \in Doc \ {doc} : told'[d] = told[d],
             \A d \in Doc : course'[d].state = "live" =>
                              course[d].state = "live" \/ (d = doc /\ handler[h].kind = "approve"),
             step = "tell" /\ handler[h].kind = "reject" => NotInForce(doc)',
             "content_rejected" \in told'[doc] => NotInForce(doc)'
      PROVE  Excused'
  <2>1. /\ handler[h].kind = "approve" => Approving(doc)'
        /\ \A d \in Doc : Approving(d) => Approving(d)'
        /\ \A g \in Handler : handler'[g].at # "idle" =>
              g = h /\ handler'[h].at = step /\ handler'[h].doc = doc /\ handler'[h].kind = handler[h].kind
    BY <1>0, <1>1, <1>5, ProceedExcused
  <2>2. TellExcused'
    BY <1>5, <2>1 DEF TellExcused, NotInForce
  <2>3. ReviewExcused'
    BY <1>5, <2>1 DEF Excused, ReviewExcused, NotInForce, Undecided
  <2>4. ToldExcused'
    BY <1>5 DEF Excused, ToldExcused, NotInForce
  <2> QED
    BY <2>2, <2>3, <2>4 DEF Excused
<1>6. CASE (FindInherited(h) \/ Link(h)) /\ ~Finish(h)
  <2>1. PICK step, todo : step \in {"carry", "place"} /\ Proceed(h, step, todo)
    BY <1>6 DEF FindInherited, Link, AfterRetiring, Goto
  <2>2. UNCHANGED <<review, told, cutShort>>
    BY <1>6 DEF FindInherited, Link
  <2>3. \A d \in Doc : course'[d].state = course[d].state
    BY <1>1, <1>6 DEF FindInherited, Link, Safe, Typed, TypeOK, CourseRow
  <2>4. "content_rejected" \in told'[doc] => NotInForce(doc)'
    BY <1>1, <2>2, <2>3 DEF Excused, ToldExcused, NotInForce
  <2> QED
    BY <1>5, <2>1, <2>2, <2>3, <2>4
<1>7. CASE (\E b \in Branch : Carry(h, b)) \/ PlaceReviewed(h)
  <2>1. PICK step, todo :
          /\ step \in {"carry", "tell"}
          /\ Proceed(h, step, todo)
          /\ step = "tell" => handler[h].at = "place"
    <3>1. CASE \E b \in Branch : Carry(h, b)
      <4>1. \E todo : Proceed(h, "carry", todo)
        BY <3>1 DEF Carry
      <4> QED
        BY <4>1
    <3>2. CASE PlaceReviewed(h)
      <4>1. Proceed(h, "tell", {}) /\ handler[h].at = "place"
        BY <3>2 DEF PlaceReviewed, Goto, At
      <4> QED
        BY <4>1
    <3> QED
      BY <1>7, <3>1, <3>2
  <2>2. UNCHANGED <<course, review, told, cutShort>>
    BY <1>7 DEF Carry, PlaceReviewed
  <2>3. step = "tell" => handler[h].kind # "reject"
    BY <1>1, <2>1 DEF WellFormed
  <2>4. "content_rejected" \in told'[doc] => NotInForce(doc)'
    BY <1>1, <2>2 DEF Excused, ToldExcused, NotInForce
  <2> QED
    BY <1>5, <2>1, <2>2, <2>3, <2>4
<1>8. CASE RetireOld(h)
  <2>1. Proceed(h, "link", {}) /\ UNCHANGED <<review, told, cutShort>> /\ handler[h].previous \in Doc
    BY <1>1, <1>8 DEF RetireOld, Goto, At, WellFormed
  <2>2. \A d \in Doc : course'[d].state = course[d].state
    BY <1>8, <2>1 DEF RetireOld, Safe, Typed, TypeOK, CourseRow
  <2>3. "content_rejected" \in told'[doc] => NotInForce(doc)'
    BY <1>1, <2>1, <2>2 DEF Excused, ToldExcused, NotInForce
  <2> QED
    BY <1>5, <2>1, <2>2, <2>3
<1>9. CASE Publish(h)
  <2>1. PICK step \in {"retire", "place"} : Proceed(h, step, {})
    BY <1>9 DEF Publish, Goto
  <2>2. UNCHANGED <<review, told, cutShort>> /\ handler[h].at = "publish"
    BY <1>9 DEF Publish, At
  <2>3. handler[h].kind = "approve" /\ course[doc].state = "draft"
    BY <1>1, <2>2 DEF WellFormed, Ready
  <2>4. \A d \in Doc \ {doc} : course'[d] = course[d]
    BY <1>1, <1>9 DEF Publish, Safe, Typed, TypeOK
  <2>5. told[doc] = {}
    BY <1>1, <2>3 DEF Safe, Announced
  <2> QED
    BY <1>5, <2>1, <2>2, <2>3, <2>4, <2>5
<1>10. CASE Discard(h)
  <2>1. PICK step \in {"tell", "clear"} : Proceed(h, step, {})
    BY <1>10 DEF Discard, Goto
  <2>2. UNCHANGED <<review, told, cutShort>>
    BY <1>10 DEF Discard
  <2>3. course'[doc].state = "discarded" /\ \A d \in Doc \ {doc} : course'[d] = course[d]
    BY <1>1, <1>10 DEF Discard, Safe, Typed, TypeOK, CourseRow
  <2> QED
    BY <1>5, <2>1, <2>2, <2>3 DEF NotInForce
<1>11. CASE Tell(h)
  <2>1. Proceed(h, "clear", {}) /\ UNCHANGED <<course, review, cutShort>> /\ handler[h].at = "tell"
    BY <1>11 DEF Tell, Goto, At
  <2>2. /\ \A d \in Doc \ {doc} : told'[d] = told[d]
        /\ told'[doc] = told[doc] \cup {IF handler[h].kind = "approve" THEN "content_published"
                                                                       ELSE "content_rejected"}
    BY <1>1, <1>11 DEF Tell, Safe, Typed, TypeOK
  <2>3. handler[h].kind \in {"approve", "reject"}
    BY <1>1, <2>1 DEF WellFormed
  <2>4. handler[h].kind = "reject" => NotInForce(doc)
    BY <1>1, <2>1 DEF Excused, TellExcused
  <2>5. "content_rejected" \in told'[doc] => NotInForce(doc)'
    BY <1>1, <2>1, <2>2, <2>3, <2>4 DEF Excused, ToldExcused, NotInForce
  <2> QED
    BY <1>5, <2>1, <2>2, <2>5
<1> QED
  BY <1>2, <1>3, <1>4, <1>6, <1>7, <1>8, <1>9, <1>10, <1>11 DEF Step

LEMMA NextExcused == Alone /\ Safe /\ Excused /\ [Next]_vars => Excused'
<1> SUFFICES ASSUME Alone, Safe, Excused, [Next]_vars PROVE Excused'
  OBVIOUS
<1>1. CASE UNCHANGED vars
  BY <1>1 DEF vars, Excused, ReviewExcused, TellExcused, ToldExcused, NotInForce, Undecided, Approving
<1>2. CASE \E h \in Handler : Step(h)
  BY <1>2, StepExcused
<1>3. CASE \E h \in Handler, d \in Doc :
             \/ \E r \in Doc \cup {None} : CreateLive(h, d, r) \/ \E b \in Branch : CreateDraft(h, d, b, r)
             \/ Approve(h, d) \/ Reject(h, d) \/ WithdrawReview(h, d)
  BY <1>3, BegunExcused
<1>4. CASE \/ \E d \in Doc : SendBack(d) \/ Resubmit(d) \/ DeleteCourse(d)
           \/ \E d \in Doc, b \in Branch : PlaceCourse(d, b) \/ Unplace(d, b)
  BY <1>4, ManagedExcused
<1> QED
  BY <1>1, <1>2, <1>3, <1>4 DEF Next

(* As long as requests do not overlap, what the author was told is true of   *)
(* the document through any number of failures and retries: published means  *)
(* never discarded by the review, rejected means not in force - but where an *)
(* approval had published it before it died.                                *)
THEOREM Verdict == ASSUME Alone PROVE Spec => []VerdictStands
<1>1. Safe /\ Excused => VerdictStands
  BY DEF Safe, Announced, Excused, ToldExcused, NotInForce, VerdictStands
<1>2. Safe /\ [Next]_vars => Safe'
  BY NextSafe
<1>3. Safe /\ Excused /\ [Next]_vars => Excused'
  BY NextExcused
<1>4. QED
  BY InitSafe, InitExcused, <1>1, <1>2, <1>3, PTL DEF Spec

(* Only the retirement of a document makes it forward to another.            *)
LEMMA OnlyRetiringForwards ==
  ASSUME Safe, [Next]_vars, NEW old \in Doc, NEW new \in Doc,
         course[old].supersededBy # new, course'[old].supersededBy = new
  PROVE  \E h \in Handler : RetireOld(h) /\ handler[h].doc = new /\ handler[h].previous = old
<1>0. course \in [Doc -> CourseRow] /\ new # None
  BY NoneAssumption DEF Safe, Typed, TypeOK
<1>1. CASE UNCHANGED course
  BY <1>1
<1>2. CASE \E h \in Handler, d \in Doc, r \in Doc \cup {None} :
             CreateLive(h, d, r) \/ \E b \in Branch : CreateDraft(h, d, b, r)
  <2>1. PICK d \in Doc, r \in Doc \cup {None}, s \in {"draft", "live"} : Created(d, s, r)
    BY <1>2 DEF CreateLive, CreateDraft
  <2>2. course'[old].supersededBy \in {None, course[old].supersededBy}
    BY <1>0, <2>1 DEF Created
  <2>3. QED
    BY <1>0, <2>2
<1>3. CASE \E h \in Handler : Link(h) \/ Publish(h) \/ Discard(h)
  <2>1. course'[old].supersededBy = course[old].supersededBy
    BY <1>0, <1>3 DEF Link, Publish, Discard, CourseRow
  <2>2. QED
    BY <2>1
<1>4. CASE \E d \in Doc : DeleteCourse(d)
  <2>1. course'[old].supersededBy = course[old].supersededBy
    BY <1>0, <1>4 DEF DeleteCourse, CourseRow
  <2>2. QED
    BY <2>1
<1>5. CASE \E h \in Handler : RetireOld(h)
  <2>1. PICK h \in Handler : RetireOld(h)
    BY <1>5
  <2>2. course' = [course EXCEPT ![handler[h].previous].supersededBy = handler[h].doc]
    BY <2>1 DEF RetireOld
  <2>3. old = handler[h].previous
    BY <1>0, <2>2 DEF CourseRow
  <2>4. course'[old].supersededBy = handler[h].doc
    BY <1>0, <2>2, <2>3 DEF CourseRow
  <2>5. QED
    BY <2>1, <2>3, <2>4
<1>6. QED
  BY <1>1, <1>2, <1>3, <1>4, <1>5
     DEF Next, Step, vars, FileReview, FindInherited, Carry, PlaceReviewed, Tell, Clear, Fail,
         Approve, Reject, WithdrawReview, SendBack, Resubmit, PlaceCourse, Unplace

(* As long as requests do not overlap, a replacement never narrows the       *)
(* audience of the document it retires, whatever failed before.              *)
THEOREM Audience == ASSUME Alone PROVE Spec => AudienceKept
<1>1. ASSUME Safe, [Next]_vars, NEW old \in Doc, NEW new \in Doc,
             course[old].supersededBy # new, course'[old].supersededBy = new
      PROVE  placements[old] \subseteq placements'[new]
  <2>1. PICK h \in Handler : RetireOld(h) /\ handler[h].doc = new /\ handler[h].previous = old
    BY <1>1, OnlyRetiringForwards
  <2>2. handler[h].at = "carry" /\ handler[h].todo = {} /\ UNCHANGED placements
    BY <2>1 DEF RetireOld, At
  <2>3. placements[old] \subseteq placements[new] \cup {}
    BY <1>1, <2>1, <2>2, Located DEF Ready
  <2>4. QED
    BY <2>2, <2>3
<1>2. Safe /\ [Next]_vars =>
        [\A old, new \in Doc :
           (course[old].supersededBy # new /\ course'[old].supersededBy = new)
           => placements[old] \subseteq placements'[new]]_vars
  BY <1>1
<1>3. Safe /\ [Next]_vars => Safe'
  BY NextSafe
<1>4. QED
  BY InitSafe, <1>2, <1>3, PTL DEF Spec, AudienceKept
=============================================================================
