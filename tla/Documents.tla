------------------------------ MODULE Documents ------------------------------
(***************************************************************************)
(* A document from proposal to retirement: a member's draft and its review,  *)
(* a manager's direct publication, and the replacement of an older document  *)
(* (apps/api/src/courses/routes.ts, apps/api/src/requests/routes.ts).        *)
(*                                                                         *)
(* No handler here is one transaction.  Each is a sequence of awaited        *)
(* database calls, and a failed call or a restart leaves whatever the        *)
(* earlier ones committed.  handler[h] holds the locals of one request in    *)
(* flight; the reads a handler makes before its first write are one step.    *)
(*                                                                         *)
(* A placement is only where a document reaches: the terms it carries, the   *)
(* library and deployment flags, and who has authority are left out, so an   *)
(* action is offered to whoever may take it.  A document code is never       *)
(* reused.                                                                 *)
(***************************************************************************)
EXTENDS Naturals

CONSTANTS
  Doc,       \* documents
  Branch,    \* role nodes a document may be placed on
  Handler,   \* request slots
  None,      \* null
  Offered    \* bound: "fail", a handler may die half way; "overlap", requests
             \* interleave

ASSUME NoneAssumption == None \notin Doc \cup Branch

VARIABLES
  course,      \* Course rows
  placements,  \* CoursePlacement rows
  review,      \* VaultRequest rows of kind CONTENT_REVIEW, by document
  told,        \* mailbox: the verdicts each document's author has received
  handler,     \* locals of the requests in flight
  cutShort     \* history: the documents with an approval that published and then died

vars == <<course, placements, review, told, handler, cutShort>>

-----------------------------------------------------------------------------
(* Rows and locals.                                                        *)

CourseRow == [state : {"unused", "draft", "live", "discarded", "deleted"},
              supersedes : Doc \cup {None}, supersededBy : Doc \cup {None}]
NoCourse == [state |-> "unused", supersedes |-> None, supersededBy |-> None]
ReviewRow == [status : {"none", "PENDING", "CHANGES_REQUESTED"}, branch : Branch \cup {None}]
NoReview == [status |-> "none", branch |-> None]
Verdicts == {"content_published", "content_rejected"}
Steps == {"idle", "file", "publish", "retire", "carry", "link", "place", "discard", "tell", "clear"}
Request == [kind : {"none", "create", "approve", "reject", "withdraw"}, at : Steps,
            doc : Doc \cup {None}, previous : Doc \cup {None},
            branch : Branch \cup {None}, todo : SUBSET Branch]
Idle == [kind |-> "none", at |-> "idle", doc |-> None, previous |-> None, branch |-> None, todo |-> {}]

TypeOK ==
  /\ course \in [Doc -> CourseRow]
  /\ placements \in [Doc -> SUBSET Branch]
  /\ review \in [Doc -> ReviewRow]
  /\ told \in [Doc -> SUBSET Verdicts]
  /\ handler \in [Handler -> Request]
  /\ cutShort \subseteq Doc

Exists(d) == course[d].state \in {"draft", "live"}
Undecided(d) == review[d].status \in {"PENDING", "CHANGES_REQUESTED"}

Init ==
  /\ course = [d \in Doc |-> NoCourse]
  /\ placements = [d \in Doc |-> {}]
  /\ review = [d \in Doc |-> NoReview]
  /\ told = [d \in Doc |-> {}]
  /\ handler = [h \in Handler |-> Idle]
  /\ cutShort = {}

-----------------------------------------------------------------------------
(* Requests.                                                               *)

At(h, step) == handler[h].at = step
MayBegin == "overlap" \in Offered \/ \A h \in Handler : At(h, "idle")

Begin(h, kind, step, d, previous, b) ==
  /\ At(h, "idle")
  /\ handler' = [handler EXCEPT ![h] = [kind |-> kind, at |-> step, doc |-> d,
                                        previous |-> previous, branch |-> b, todo |-> {}]]
Proceed(h, step, todo) ==
  handler' = [handler EXCEPT ![h] = [kind |-> @.kind, at |-> step, doc |-> @.doc,
                                     previous |-> @.previous, branch |-> @.branch, todo |-> todo]]
Goto(h, step) == Proceed(h, step, {})
Finish(h) == handler' = [handler EXCEPT ![h] = Idle]

(* The process restarts, a database call fails, or the row a step would      *)
(* write is gone: the handler throws and its later steps never happen.       *)
Fail(h) ==
  /\ ~At(h, "idle")
  /\ \/ "fail" \in Offered
     \/ handler[h].at \in {"publish", "carry", "link", "place", "discard"} /\ ~Exists(handler[h].doc)
     \/ At(h, "carry") /\ ~Exists(handler[h].previous)
  /\ Finish(h)
  /\ cutShort' = IF handler[h].kind = "approve" /\ ~At(h, "publish")
                   THEN cutShort \cup {handler[h].doc} ELSE cutShort
  /\ UNCHANGED <<course, placements, review, told>>

-----------------------------------------------------------------------------
(* POST /orgs/:id/courses.  A document may name an older one it replaces,    *)
(* unless that one has been replaced already.                              *)

MayReplace(r) == r \in {None} \cup {d \in Doc : Exists(d) /\ course[d].supersededBy = None}
Created(d, state, r) ==
  course' = [course EXCEPT ![d] = [state |-> state, supersedes |-> r, supersededBy |-> None]]

CreateDraft(h, d, b, r) ==
  /\ MayBegin /\ course[d].state = "unused" /\ MayReplace(r)
  /\ Begin(h, "create", "file", d, r, b)
  /\ Created(d, "draft", r)
  /\ UNCHANGED <<placements, review, told, cutShort>>

\* Mutant: a proposed replacement retires its predecessor straight away.
FileAndRetire(h) ==
  /\ At(h, "file")
  /\ review' = [review EXCEPT ![handler[h].doc] = [status |-> "PENDING", branch |-> handler[h].branch]]
  /\ IF handler[h].previous = None THEN Finish(h) ELSE Goto(h, "retire")
  /\ UNCHANGED <<course, placements, told, cutShort>>

FileReview(h) ==
  /\ At(h, "file")
  /\ review' = [review EXCEPT ![handler[h].doc] = [status |-> "PENDING", branch |-> handler[h].branch]]
  /\ Finish(h)
  /\ UNCHANGED <<course, placements, told, cutShort>>

CreateLive(h, d, r) ==
  /\ MayBegin /\ course[d].state = "unused" /\ MayReplace(r)
  /\ IF r = None THEN At(h, "idle") /\ UNCHANGED handler
                 ELSE Begin(h, "create", "retire", d, r, None)
  /\ Created(d, "live", r)
  /\ UNCHANGED <<placements, review, told, cutShort>>

-----------------------------------------------------------------------------
(* retireSuperseded, on a direct publication or on the approval of a draft.  *)

AfterRetiring(h) == IF handler[h].kind = "approve" THEN Goto(h, "place") ELSE Finish(h)

FindInherited(h) ==
  /\ At(h, "retire")
  /\ IF Exists(handler[h].doc) /\ Exists(handler[h].previous)
       THEN Proceed(h, "carry", placements[handler[h].previous])
       ELSE AfterRetiring(h)
  /\ UNCHANGED <<course, placements, review, told, cutShort>>

Carry(h, b) ==
  /\ At(h, "carry") /\ b \in handler[h].todo /\ Exists(handler[h].doc)
  /\ placements' = [placements EXCEPT ![handler[h].doc] = @ \cup {b}]
  /\ Proceed(h, "carry", handler[h].todo \ {b})
  /\ UNCHANGED <<course, review, told, cutShort>>

\* Mutant: retired while placements are still to be carried over.
RetireEarly(h) ==
  /\ At(h, "carry") /\ Exists(handler[h].previous)
  /\ course' = [course EXCEPT ![handler[h].previous].supersededBy = handler[h].doc]
  /\ Goto(h, "link")
  /\ UNCHANGED <<placements, review, told, cutShort>>

RetireOld(h) ==
  /\ At(h, "carry") /\ handler[h].todo = {} /\ Exists(handler[h].previous)
  /\ course' = [course EXCEPT ![handler[h].previous].supersededBy = handler[h].doc]
  /\ Goto(h, "link")
  /\ UNCHANGED <<placements, review, told, cutShort>>

Link(h) ==
  /\ At(h, "link") /\ Exists(handler[h].doc)
  /\ course' = [course EXCEPT ![handler[h].doc].supersedes = handler[h].previous]
  /\ AfterRetiring(h)
  /\ UNCHANGED <<placements, review, told, cutShort>>

-----------------------------------------------------------------------------
(* POST /requests/:requestId/decide.                                       *)

\* Mutant: the decision forgets which branch the review was for.
ApproveNowhere(h, d) ==
  /\ MayBegin /\ Undecided(d) /\ Exists(d)
  /\ Begin(h, "approve", IF course[d].state = "draft" THEN "publish" ELSE "place",
           d, course[d].supersedes, None)
  /\ UNCHANGED <<course, placements, review, told, cutShort>>

Approve(h, d) ==
  /\ MayBegin /\ Undecided(d) /\ Exists(d)
  /\ Begin(h, "approve", IF course[d].state = "draft" THEN "publish" ELSE "place",
           d, course[d].supersedes, review[d].branch)
  /\ UNCHANGED <<course, placements, review, told, cutShort>>

Publish(h) ==
  /\ At(h, "publish") /\ Exists(handler[h].doc)
  /\ course' = [course EXCEPT ![handler[h].doc].state = "live"]
  /\ Goto(h, IF handler[h].previous # None THEN "retire" ELSE "place")
  /\ UNCHANGED <<placements, review, told, cutShort>>

PlaceReviewed(h) ==
  /\ At(h, "place") /\ Exists(handler[h].doc)
  /\ placements' = [placements EXCEPT ![handler[h].doc] = @ \cup {handler[h].branch}]
  /\ Goto(h, "tell")
  /\ UNCHANGED <<course, review, told, cutShort>>

\* Mutant: a rejection removes the document whether or not it is still a draft.
RejectAny(h, d) ==
  /\ MayBegin /\ Undecided(d)
  /\ Begin(h, "reject", IF Exists(d) THEN "discard" ELSE "tell", d, None, None)
  /\ UNCHANGED <<course, placements, review, told, cutShort>>

Reject(h, d) ==
  /\ MayBegin /\ Undecided(d)
  /\ Begin(h, "reject", IF course[d].state = "draft" THEN "discard" ELSE "tell", d, None, None)
  /\ UNCHANGED <<course, placements, review, told, cutShort>>

Discard(h) ==
  /\ At(h, "discard") /\ Exists(handler[h].doc)
  /\ course' = [course EXCEPT ![handler[h].doc].state = "discarded"]
  /\ placements' = [placements EXCEPT ![handler[h].doc] = {}]
  /\ Goto(h, IF handler[h].kind = "reject" THEN "tell" ELSE "clear")
  /\ UNCHANGED <<review, told, cutShort>>

Tell(h) ==
  /\ At(h, "tell")
  /\ told' = [told EXCEPT ![handler[h].doc] = @ \cup
                {IF handler[h].kind = "approve" THEN "content_published" ELSE "content_rejected"}]
  /\ Goto(h, "clear")
  /\ UNCHANGED <<course, placements, review, cutShort>>

Clear(h) ==
  /\ At(h, "clear")
  /\ review' = [review EXCEPT ![handler[h].doc] = NoReview]
  /\ Finish(h)
  /\ UNCHANGED <<course, placements, told, cutShort>>

(* Sending a document back and resubmitting it: one write of the row each.   *)
SendBack(d) ==
  /\ MayBegin /\ Undecided(d)
  /\ review' = [review EXCEPT ![d].status = "CHANGES_REQUESTED"]
  /\ UNCHANGED <<course, placements, told, handler, cutShort>>

Resubmit(d) ==
  /\ MayBegin /\ Undecided(d)
  /\ review' = [review EXCEPT ![d].status = "PENDING"]
  /\ UNCHANGED <<course, placements, told, handler, cutShort>>

(* DELETE /requests/:requestId, by the author or by a reviewer.              *)
WithdrawReview(h, d) ==
  /\ MayBegin /\ Undecided(d)
  /\ Begin(h, "withdraw", IF review[d].status = "PENDING" /\ course[d].state = "draft"
                            THEN "discard" ELSE "clear", d, None, None)
  /\ UNCHANGED <<course, placements, review, told, cutShort>>

-----------------------------------------------------------------------------
(* What managers do beside the review, in one write each.  An archived       *)
(* document takes no new branch until a manager unarchives it; both are one  *)
(* action here.                                                            *)

PlaceCourse(d, b) ==
  /\ MayBegin /\ Exists(d) /\ b \notin placements[d]
  /\ placements' = [placements EXCEPT ![d] = @ \cup {b}]
  /\ UNCHANGED <<course, review, told, handler, cutShort>>

Unplace(d, b) ==
  /\ MayBegin /\ b \in placements[d]
  /\ placements' = [placements EXCEPT ![d] = @ \ {b}]
  /\ UNCHANGED <<course, review, told, handler, cutShort>>

(* Neither the review of the document nor the pointers of others follow it.  *)
DeleteCourse(d) ==
  /\ MayBegin /\ Exists(d)
  /\ course' = [course EXCEPT ![d].state = "deleted"]
  /\ placements' = [placements EXCEPT ![d] = {}]
  /\ UNCHANGED <<review, told, handler, cutShort>>

Step(h) ==
  \/ FileReview(h) \/ FindInherited(h) \/ RetireOld(h) \/ Link(h)
  \/ Publish(h) \/ PlaceReviewed(h) \/ Discard(h) \/ Tell(h) \/ Clear(h) \/ Fail(h)
  \/ \E b \in Branch : Carry(h, b)

Next ==
  \/ \E h \in Handler : Step(h)
  \/ \E h \in Handler, d \in Doc :
       \/ \E r \in Doc \cup {None} :
            CreateLive(h, d, r) \/ \E b \in Branch : CreateDraft(h, d, b, r)
       \/ Approve(h, d) \/ Reject(h, d) \/ WithdrawReview(h, d)
  \/ \E d \in Doc : SendBack(d) \/ Resubmit(d) \/ DeleteCourse(d)
  \/ \E d \in Doc, b \in Branch : PlaceCourse(d, b) \/ Unplace(d, b)

Spec == Init /\ [][Next]_vars

-----------------------------------------------------------------------------
(* Properties.                                                             *)

(* A replacement is held until it is approved: nothing forwards to a draft,  *)
(* nor to a draft that was turned down, wherever the approval is cut short.  *)
(* (POST /orgs/:id/courses, decide)                                        *)
ForwardsOnlyToPublished ==
  \A old, new \in Doc :
    course[old].supersededBy = new => course[new].state \in {"live", "deleted"}

(* A replacement never narrows the audience: the moment a document forwards  *)
(* to another, the other is placed on every branch it was.                  *)
(* (retireSuperseded)                                                      *)
AudienceKept ==
  [][\A old, new \in Doc :
       (course[old].supersededBy # new /\ course'[old].supersededBy = new)
       => placements[old] \subseteq placements'[new]]_vars

(* A verdict the author has been told is true of the document, through every *)
(* failure between the first call of a decision and the last: one announced  *)
(* as published is never a draft again nor discarded by the review, and one  *)
(* announced as rejected is not in force - unless an approval of it had      *)
(* published it and died, and the decision was taken again the other way.   *)
(* (decide, the rejection and withdrawal of a review)                       *)
VerdictStands ==
  \A d \in Doc :
    /\ told[d] # {} => course[d].state # "draft"
    /\ "content_published" \in told[d] => course[d].state # "discarded"
    /\ "content_rejected" \in told[d] => course[d].state # "live" \/ d \in cutShort

(* What was rejected is not in force, whatever died before.  (decide)        *)
RejectedNotLive ==
  \A d \in Doc : "content_rejected" \in told[d] => course[d].state # "live"

(* A document is replaced once: from then on it forwards to its replacement. *)
(* (POST /orgs/:id/courses, retireSuperseded)                               *)
ReplacedOnce ==
  [][\A d \in Doc : course[d].supersededBy # None
       => course'[d].supersededBy = course[d].supersededBy]_vars

(* A draft never outlives its review.  (DELETE /requests/:requestId)         *)
DraftUnderReview ==
  (\A h \in Handler : At(h, "idle"))
    => \A d \in Doc : course[d].state = "draft" => Undecided(d)
=============================================================================
