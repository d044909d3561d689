------------------------------- MODULE Objects ------------------------------
(***************************************************************************)
(* The files behind documents: uploads into the organization's own storage, *)
(* the documents that claim them, and what cleans up after both, the         *)
(* deletion queue, the collector, the migration of files still in our        *)
(* database and the nightly comparison with Google Drive                     *)
(* (apps/api/src/storage/{jobs,routes,adapter,gdrive-store}.ts,              *)
(* apps/api/src/courses/routes.ts).                                         *)
(*                                                                         *)
(* One organization whose storage is connected and reachable.  The storage   *)
(* takes part in no transaction: every call to it, and every database call   *)
(* outside a transaction, is a step of its own.                             *)
(***************************************************************************)
EXTENDS Naturals, FiniteSets

CONSTANTS
  Object,       \* object keys; minted at random, never reused
  File,         \* StoredFile ids
  Doc,          \* documents
  Handler,      \* slots for requests in flight
  Drainer,      \* drains of the deletion queue in flight
  None,         \* null
  Drive,        \* adapter is gdrive, not s3
  MaxAttempts,  \* MAX_DELETE_ATTEMPTS
  Grace,        \* ABANDONED_UPLOAD_MS, in days
  MaxEntries,   \* bound on the queue entries one key ever has
  MaxTime,      \* bound on the days
  Offered       \* bound: what happens besides

ASSUME ObjectsAssumption ==
  /\ Object \cap File = {} /\ None \notin Object \cup File \cup Doc
  /\ {"gone", "lost"} \cap (Object \cup File \cup {None}) = {}
  /\ Drive \in BOOLEAN
  /\ MaxAttempts \in Nat \ {0} /\ Grace \in Nat /\ MaxEntries \in Nat \ {0} /\ MaxTime \in Nat

VARIABLES
  now,      \* the day
  blob,     \* the organization's storage: what each key holds
  row,      \* StorageObject rows, with the upload session of each
  queue,    \* StorageDeletion rows
  file,     \* StoredFile rows
  doc,      \* Course rows: what storageRef points at
  handler,  \* locals of the requests in flight
  drain,    \* locals of the drains in flight
  night,    \* locals of the collector and of reconcileGdrive
  move,     \* locals of migrateInlineFiles
  taken     \* history: contents readers were shown and are no longer

rows == <<now, blob, row, queue, file, doc, handler, drain, night, move>>
vars == <<now, blob, row, queue, file, doc, handler, drain, night, move, taken>>
-----------------------------------------------------------------------------
(* Rows and locals.                                                        *)

Content == Object \cup File
Ref == Content \cup {None}
Gone == "gone"
Lost == "lost"

\* `sound`: what arrived is what was sent.  `committed`: POST commit succeeded.
ObjectRow == [state : {"none", "here", "gone"}, course : Doc \cup {None}, created : 0 .. MaxTime,
              session : {"none", "open", "complete"}, sound : BOOLEAN, committed : BOOLEAN]
NoRow == [state |-> "none", course |-> None, created |-> 0, session |-> "none",
          sound |-> TRUE, committed |-> FALSE]

\* A key's entries are numbered in turn.
Entry == Object \X (1 .. MaxEntries)
EntryRow == [state : {"none", "here", "gone"}, attempts : 0 .. MaxAttempts]

Pc == {"rest", "make", "write", "release", "claim", "delete", "confirm"}
Locals == [pc : Pc, doc : Doc \cup {None}, prev : Ref, new : Ref]
Rest == [pc |-> "rest", doc |-> None, prev |-> None, new |-> None]

\* A drain works from the entries as it read them.
Read == Entry \X (0 .. MaxAttempts)
DrainLocals == [todo : SUBSET Read, at : {"next", "forget", "note"}, entry : Read \cup {None}]
NoDrain == [todo |-> {}, at |-> "next", entry |-> None]

\* Documents still to move; the one being moved, its file and its new object.
MoveLocals == [todo : SUBSET (Doc \X File), at : {"next", "put", "record", "point"},
               doc : Doc \cup {None}, file : File \cup {None}, object : Object \cup {None}]
NoMove == [todo |-> {}, at |-> "next", doc |-> None, file |-> None, object |-> None]

TypeOK ==
  /\ now \in 0 .. MaxTime
  /\ blob \in [Object -> Content \cup {None, Gone}]
  /\ row \in [Object -> ObjectRow]
  /\ queue \in [Entry -> EntryRow]
  /\ file \in [File -> {"none", "here", "gone"}]
  /\ doc \in [Doc -> [state : {"none", "live", "deleted"}, ref : Ref]]
  /\ handler \in [Handler -> Locals]
  /\ drain \in [Drainer -> DrainLocals]
  /\ night \in [doing : {"rest", "collect", "reconcile"}, todo : SUBSET Object, compared : 0 .. MaxTime + 1]
  /\ move \in MoveLocals
  /\ taken \subseteq Content \cup {Lost}


Init ==
  /\ now = 0 /\ taken = {}
  /\ blob = [k \in Object |-> None] /\ row = [k \in Object |-> NoRow]
  /\ queue = [e \in Entry |-> [state |-> "none", attempts |-> 0]] /\ file = [f \in File |-> "none"]
  /\ doc = [d \in Doc |-> [state |-> "none", ref |-> None]]
  /\ handler = [h \in Handler |-> Rest] /\ drain = [w \in Drainer |-> NoDrain]
  /\ night = [doing |-> "rest", todo |-> {}, compared |-> 0] /\ move = NoMove
-----------------------------------------------------------------------------
(* Operators the handlers are built from.                                  *)

At(h, pc) == handler[h].pc = pc
Goto(h, l) == handler' = [handler EXCEPT ![h] = l]
AtRest == night.doing = "rest"
NightDone == night' = [night EXCEPT !.doing = "rest", !.todo = {}]
\* On to the next object of the list.
NightNext(k) == IF night.todo = {k} THEN NightDone ELSE night' = [night EXCEPT !.todo = @ \ {k}]
Step(h, pc) == Goto(h, [handler[h] EXCEPT !.pc = pc])
Done(h) == Goto(h, Rest)

Here(k) == row[k].state = "here"
Live(d) == doc[d].state = "live"
Stored(k) == blob[k] \in Content
Waiting(e) == queue[e].state = "here"
\* Mutant: an entry is tried again for ever.
DueForever(e) == Waiting(e)
Due(e) == Waiting(e) /\ queue[e].attempts < MaxAttempts
Queued(k) == \E n \in 1 .. MaxEntries : Waiting(<<k, n>>)

\* storageDeletion.create: the next entry of the key.  Bound: a key that has had
\* them all gets no other.
Free(k) == {n \in 1 .. MaxEntries : queue[<<k, n>>].state = "none"}
Enqueue(k) ==
  IF Free(k) = {} THEN UNCHANGED queue
  ELSE queue' = [queue EXCEPT ![<<k, CHOOSE n \in Free(k) : \A m \in Free(k) : n <= m>>].state = "here"]

\* The row goes and its upload session with it.
DropRow(k) == row' = [row EXCEPT ![k] = IF Here(k) THEN [@ EXCEPT !.state = "gone", !.session = "none"]
                                                  ELSE @]

\* Mutant: the object row is deleted and the remote delete is not queued.
ReleaseRowOnly(ref) ==
  CASE ref \in File -> file' = [file EXCEPT ![ref] = "gone"] /\ UNCHANGED <<queue, row>>
    [] ref \in Object -> DropRow(ref) /\ UNCHANGED <<queue, file>>
    [] OTHER -> UNCHANGED <<queue, row, file>>

\* deletionOpsFor: what a document held is released in the caller's transaction.
Release(ref) ==
  CASE ref \in File -> file' = [file EXCEPT ![ref] = "gone"] /\ UNCHANGED <<queue, row>>
    [] ref \in Object -> Enqueue(ref) /\ DropRow(ref) /\ UNCHANGED file
    [] OTHER -> UNCHANGED <<queue, row, file>>

Used(ref) == \E d \in Doc : doc[d].ref = ref
InHand(ref) == \E h \in Handler : ~At(h, "rest") /\ handler[h].new = ref
Editing(d) == \E h \in Handler : ~At(h, "rest") /\ handler[h].doc = d
\* Bounds: an upload goes to one request, once its commit went well and within the collector's
\* grace; two editions of a document, its migration and the comparison with Drive keep apart.
OfferedOnce(k) == "reuse" \in Offered \/ (~Used(k) /\ ~InHand(k) /\ k \notin taken)
Ready(k) == "early" \in Offered \/ row[k].committed
InGrace(k) == "late" \in Offered \/ row[k].created + Grace >= now
Apart(d) == \/ "overlap" \in Offered
            \/ ~Editing(d) /\ move.doc # d /\ \A m \in move.todo : m[1] # d

(* The process restarts, or a database call throws: the later steps never    *)
(* happen.                                                                 *)
Fail(h) ==
  /\ ~At(h, "rest")
  /\ \/ "fail" \in Offered
     \/ handler[h].pc \in {"write", "delete"} /\ ~Live(handler[h].doc)
     \/ handler[h].pc \in {"claim", "confirm"} /\ ~Here(handler[h].new)
  /\ Done(h)
  /\ UNCHANGED <<now, blob, row, queue, file, doc, drain, night, move>>
-----------------------------------------------------------------------------
(* Upload: a ticket, the browser's bytes, the commit.                      *)

NewUpload(k, session) ==
  /\ row[k].state = "none" /\ move.object # k
  /\ now + Grace < MaxTime                 \* bound: it can still be collected
  /\ row' = [row EXCEPT ![k] = [NoRow EXCEPT !.state = "here", !.created = now, !.session = session]]
  /\ UNCHANGED <<now, blob, queue, file, doc, handler, drain, night, move>>

\* POST /orgs/:id/storage/upload-url.
UploadUrl(k) == ~Drive /\ NewUpload(k, "none")

\* beginGdriveUpload opens a session; a call of it that fails leaves the row without.
BeginGdriveUpload(k) ==
  Drive /\ \/ NewUpload(k, "open")
           \/ "stop" \in Offered /\ NewUpload(k, "none")

\* The browser's bytes land, within the minutes a presigned URL is good for.
PutPresigned(k) ==
  /\ ~Drive /\ blob[k] = None /\ Here(k) /\ row[k].created = now
  /\ blob' = [blob EXCEPT ![k] = k]
  /\ UNCHANGED <<now, row, queue, file, doc, handler, drain, night, move>>

\* PUT /stream/u/:sessionId, the chunk that completes the upload.
PutThroughGateway(k, sound) ==
  /\ blob[k] = None /\ row[k].session = "open" /\ row[k].created + Grace >= now
  /\ blob' = [blob EXCEPT ![k] = k]
  /\ row' = [row EXCEPT ![k].session = "complete", ![k].sound = sound]
  /\ UNCHANGED <<now, queue, file, doc, handler, drain, night, move>>

\* POST /orgs/:id/storage/commit, what it reads before it asks the storage.
BeginCommit(h, k) ==
  /\ At(h, "rest") /\ Here(k) /\ row[k].course = None /\ ~row[k].committed
  /\ Drive => row[k].session = "complete"
  /\ Goto(h, [Rest EXCEPT !.pc = "confirm", !.new = k])
  /\ UNCHANGED <<now, blob, row, queue, file, doc, drain, night, move>>

\* The storage answers: an object that did not arrive stays a ticket.
CommitS3(h) ==
  LET k == handler[h].new IN
  /\ ~Drive /\ At(h, "confirm") /\ Here(k)
  /\ row' = [row EXCEPT ![k].committed = @ \/ Stored(k)]
  /\ Done(h)
  /\ UNCHANGED <<now, blob, queue, file, doc, drain, night, move>>

\* One that is not what was sent is given up, in one transaction.
CommitGdriveUpload(h) ==
  LET k == handler[h].new IN
  /\ Drive /\ At(h, "confirm") /\ Here(k)
  /\ IF row[k].sound
       THEN row' = [row EXCEPT ![k].committed = TRUE, ![k].session = "none"] /\ UNCHANGED queue
       ELSE Enqueue(k) /\ DropRow(k)
  /\ Done(h)
  /\ UNCHANGED <<now, blob, file, doc, drain, night, move>>
-----------------------------------------------------------------------------
(* Documents.                                                              *)

\* POST /orgs/:id/courses with an upload, up to course.create.
CreateCourse(h, d, k) ==
  /\ At(h, "rest") /\ doc[d].state = "none" /\ ~Editing(d)
  /\ Here(k) /\ row[k].course = None /\ Ready(k) /\ OfferedOnce(k) /\ InGrace(k)
  /\ Goto(h, [pc |-> "make", doc |-> d, prev |-> None, new |-> k])
  /\ UNCHANGED <<now, blob, row, queue, file, doc, drain, night, move>>

Make(h) ==
  /\ At(h, "make")
  /\ doc' = [doc EXCEPT ![handler[h].doc] = [state |-> "live", ref |-> handler[h].new]]
  /\ Step(h, "claim")
  /\ UNCHANGED <<now, blob, row, queue, file, drain, night, move>>

\* The object row is pointed at the document.
Claim(h) ==
  /\ At(h, "claim") /\ Here(handler[h].new)
  /\ row' = [row EXCEPT ![handler[h].new].course = handler[h].doc]
  /\ Done(h)
  /\ UNCHANGED <<now, blob, queue, file, doc, drain, night, move>>

\* POST /orgs/:id/courses with a file kept in our database (saveInline).
CreateInline(d, f) ==
  /\ doc[d].state = "none" /\ ~Editing(d) /\ file[f] = "none"
  /\ file' = [file EXCEPT ![f] = "here"]
  /\ doc' = [doc EXCEPT ![d] = [state |-> "live", ref |-> f]]
  /\ UNCHANGED <<now, blob, row, queue, handler, drain, night, move>>

\* PATCH /courses/:code with new content: an upload, or no file at all.
PublishEdition(h, d, new) ==
  /\ At(h, "rest") /\ Live(d) /\ Apart(d)
  /\ new \in Object => /\ Here(new) /\ row[new].course \in {None, d} /\ Ready(new)
                       /\ OfferedOnce(new) /\ InGrace(new)
  /\ new \in File => file[new] = "none"
  /\ Goto(h, [pc |-> "write", doc |-> d, prev |-> doc[d].ref, new |-> new])
  /\ file' = [f \in File |-> IF f = new THEN "here" ELSE file[f]]
  /\ UNCHANGED <<now, blob, row, queue, doc, drain, night, move>>

WriteEdition(h) ==
  LET l == handler[h] IN
  /\ At(h, "write") /\ Live(l.doc)
  /\ doc' = [doc EXCEPT ![l.doc].ref = l.new]
  /\ Step(h, "release")
  /\ UNCHANGED <<now, blob, row, queue, file, drain, night, move>>

ReleasePrevious(h) ==
  /\ At(h, "release")
  /\ Release(handler[h].prev)
  /\ IF handler[h].new \in Object THEN Step(h, "claim") ELSE Done(h)
  /\ UNCHANGED <<now, blob, doc, drain, night, move>>

\* DELETE /courses/:code; the rejection and the withdrawal of a draft do the same.
DeleteCourse(h, d) ==
  /\ At(h, "rest") /\ Live(d)
  /\ Goto(h, [pc |-> "delete", doc |-> d, prev |-> doc[d].ref, new |-> None])
  /\ UNCHANGED <<now, blob, row, queue, file, doc, drain, night, move>>

DeleteCommit(h) ==
  LET d == handler[h].doc IN
  /\ At(h, "delete") /\ Live(d)
  /\ Release(handler[h].prev)
  /\ doc' = [doc EXCEPT ![d] = [state |-> "deleted", ref |-> None]]
  /\ Done(h)
  /\ UNCHANGED <<now, blob, drain, night, move>>
-----------------------------------------------------------------------------
(* drainDeletionQueue: after a delete, and nightly; two may run at once.     *)

Drains(w, l) == drain' = [drain EXCEPT ![w] = l]
NextEntry(w) == Drains(w, [NoDrain EXCEPT !.todo = drain[w].todo])

StartDrain(w) ==
  /\ drain[w] = NoDrain
  /\ \E e \in Entry : Due(e)
  /\ Drains(w, [NoDrain EXCEPT !.todo = {<<e, queue[e].attempts>> : e \in {e \in Entry : Due(e)}}])
  /\ UNCHANGED <<now, blob, row, queue, file, doc, handler, night, move>>

RemoteDelete(w, r) ==
  /\ drain[w].at = "next" /\ r \in drain[w].todo
  /\ LET k == r[1][1]
         Then(at) == Drains(w, [todo |-> drain[w].todo \ {r}, at |-> at, entry |-> r])
     IN \/ blob' = [blob EXCEPT ![k] = Gone] /\ Then("forget")
        \/ "unreachable" \in Offered /\ Then("note") /\ UNCHANGED blob
  /\ UNCHANGED <<now, row, queue, file, doc, handler, night, move>>

\* An entry another drain has deleted makes the delete throw, and the update that
\* would count the failure throws too: the rest of the batch is left.
Forget(w) ==
  LET e == drain[w].entry[1] IN
  /\ drain[w].at = "forget"
  /\ IF Waiting(e)
       THEN queue' = [queue EXCEPT ![e] = [state |-> "gone", attempts |-> 0]] /\ NextEntry(w)
       ELSE Drains(w, NoDrain) /\ UNCHANGED queue
  /\ UNCHANGED <<now, blob, row, file, doc, handler, night, move>>

NoteFailure(w) ==
  LET e == drain[w].entry[1] IN
  /\ drain[w].at = "note"
  /\ IF Waiting(e)
       THEN queue' = [queue EXCEPT ![e].attempts = drain[w].entry[2] + 1] /\ NextEntry(w)
       ELSE Drains(w, NoDrain) /\ UNCHANGED queue
  /\ UNCHANGED <<now, blob, row, file, doc, handler, night, move>>

\* Bound: a drain dies between a call to the storage and what it writes of it.
DrainDies(w) ==
  /\ "stop" \in Offered /\ drain[w].at # "next"
  /\ Drains(w, NoDrain)
  /\ UNCHANGED <<now, blob, row, queue, file, doc, handler, night, move>>
-----------------------------------------------------------------------------
(* collectOrphans.                                                         *)

\* Mutant: an upload is taken for abandoned on the day it was made.
AbandonedAtOnce(k) == Here(k) /\ row[k].course = None /\ row[k].created <= now

Abandoned(k) == Here(k) /\ row[k].course = None /\ row[k].created + Grace < now
Orphaned(k) == Here(k) /\ row[k].course # None /\ doc[row[k].course].state = "deleted"

\* Mutant: only what a deleted document left behind.
OrphanedOnly ==
  /\ AtRest
  /\ night' = [night EXCEPT !.doing = "collect", !.todo = {k \in Object : Orphaned(k)}]
  /\ night'.todo # {}
  /\ UNCHANGED <<now, blob, row, queue, file, doc, handler, drain, move>>

ListOrphans ==
  /\ AtRest
  /\ night' = [night EXCEPT !.doing = "collect", !.todo = {k \in Object : Abandoned(k) \/ Orphaned(k)}]
  /\ night'.todo # {}
  /\ UNCHANGED <<now, blob, row, queue, file, doc, handler, drain, move>>

\* One transaction each; a row gone since it was listed ends the sweep.
CollectOrphan(k) ==
  /\ night.doing = "collect" /\ k \in night.todo
  /\ IF Here(k)
       THEN Enqueue(k) /\ DropRow(k) /\ NightNext(k)
       ELSE NightDone /\ UNCHANGED <<queue, row>>
  /\ UNCHANGED <<now, blob, file, doc, handler, drain, move>>

NightDies ==
  /\ "stop" \in Offered /\ ~AtRest
  /\ NightDone
  /\ UNCHANGED <<now, blob, row, queue, file, doc, handler, drain, move>>
-----------------------------------------------------------------------------
(* reconcileGdrive: every file in the Drive folder is looked up here.        *)

ListDrive ==
  /\ Drive /\ AtRest /\ night.compared <= now     \* bound: once a day
  /\ "overlap" \in Offered \/ move = NoMove
  /\ night' = [doing |-> "reconcile", todo |-> {k \in Object : Stored(k)}, compared |-> now + 1]
  /\ night'.todo # {}
  /\ UNCHANGED <<now, blob, row, queue, file, doc, handler, drain, move>>

ReconcileFile(k) ==
  /\ night.doing = "reconcile" /\ k \in night.todo
  /\ IF Here(k) THEN UNCHANGED queue ELSE Enqueue(k)
  /\ NightNext(k)
  /\ UNCHANGED <<now, blob, row, file, doc, handler, drain, move>>
-----------------------------------------------------------------------------
(* migrateInlineFiles, asked for by an owner.                               *)

Move(l) == move' = [l EXCEPT !.todo = move.todo]
NextMove == Move(NoMove)

StartMove ==
  /\ move = NoMove
  /\ "overlap" \in Offered \/ night.doing # "reconcile"
  /\ move' = [NoMove EXCEPT !.todo = {<<d, doc[d].ref>> : d \in
                {d \in Doc : Live(d) /\ doc[d].ref \in File /\ Apart(d)}}]
  /\ move'.todo # {}
  /\ UNCHANGED <<now, blob, row, queue, file, doc, handler, drain, night>>

\* The file is read; one that is gone is passed over.
ReadFile(d, f) ==
  /\ move.at = "next" /\ <<d, f>> \in move.todo
  /\ move' = IF file[f] = "here"
               THEN [NoMove EXCEPT !.todo = move.todo \ {<<d, f>>}, !.at = "put", !.doc = d, !.file = f]
               ELSE [NoMove EXCEPT !.todo = move.todo \ {<<d, f>>}]
  /\ UNCHANGED <<now, blob, row, queue, file, doc, handler, drain, night>>

\* Uploaded under a key of its own and verified; a refused upload is reported.
PutObject(k) ==
  /\ move.at = "put"
  /\ \/ /\ row[k].state = "none" /\ blob[k] = None
        /\ blob' = [blob EXCEPT ![k] = move.file]
        /\ Move([move EXCEPT !.at = "record", !.object = k])
     \/ Offered \cap {"unreachable", "stop"} # {} /\ NextMove /\ UNCHANGED blob
  /\ UNCHANGED <<now, row, queue, file, doc, handler, drain, night>>

\* One transaction: the object's row is made, the file dropped.
RecordObject ==
  /\ move.at = "record"
  /\ row' = [row EXCEPT ![move.object] =
               [NoRow EXCEPT !.state = "here", !.course = move.doc, !.created = now, !.committed = TRUE]]
  /\ file' = [file EXCEPT ![move.file] = "gone"]
  /\ Move([move EXCEPT !.at = "point"])
  /\ UNCHANGED <<now, blob, queue, doc, handler, drain, night>>

\* And only then is the document pointed at it.
PointDocument ==
  /\ move.at = "point"
  /\ doc' = IF Live(move.doc) THEN [doc EXCEPT ![move.doc].ref = move.object] ELSE doc
  /\ NextMove
  /\ UNCHANGED <<now, blob, row, queue, file, handler, drain, night>>

\* Bound: with "stop" alone it dies before anything was uploaded.
MoveDies ==
  /\ move # NoMove
  /\ "fail" \in Offered \/ ("stop" \in Offered /\ move.at = "put")
  /\ move' = NoMove
  /\ UNCHANGED <<now, blob, row, queue, file, doc, handler, drain, night>>
-----------------------------------------------------------------------------
\* Bound: a request that attaches an upload does not outlast the day.
Tick ==
  /\ now < MaxTime
  /\ "late" \in Offered \/ \A h \in Handler : At(h, "confirm") \/ handler[h].new \notin Object
  /\ now' = now + 1
  /\ UNCHANGED <<blob, row, queue, file, doc, handler, drain, night, move>>

(* What a reader of a document gets: the content its reference names; while  *)
(* the migration has not pointed it at its object yet, the file's; nothing   *)
(* when it holds no file.  (GET /courses/:code/content, resolve)             *)
Shown(d) ==
  LET r == doc[d].ref IN
  IF ~Live(d) \/ r = None THEN None
  ELSE IF r \in File
       THEN IF file[r] = "here" \/ (move.at = "point" /\ move.doc = d /\ move.file = r
                                    /\ Here(move.object) /\ Stored(move.object)) THEN r ELSE Lost
  ELSE IF Stored(r) /\ Here(r) THEN blob[r] ELSE Lost

Work(h) == Make(h) \/ Claim(h) \/ WriteEdition(h) \/ ReleasePrevious(h) \/ DeleteCommit(h)
           \/ CommitS3(h) \/ CommitGdriveUpload(h) \/ Fail(h)
Request(h) ==
  \E d \in Doc :
    \/ \E k \in Object : CreateCourse(h, d, k)
    \/ \E new \in Ref : PublishEdition(h, d, new)
    \/ DeleteCourse(h, d)
Draining(w) == (\E r \in drain[w].todo : RemoteDelete(w, r)) \/ Forget(w) \/ NoteFailure(w)
Collecting == \E k \in Object : CollectOrphan(k)
Moving ==
  \/ \E d \in Doc, f \in File : ReadFile(d, f)
  \/ \E k \in Object : PutObject(k)
  \/ RecordObject \/ PointDocument

Events ==
  \/ \E h \in Handler : Work(h) \/ Request(h) \/ \E k \in Object : BeginCommit(h, k)
  \/ \E k \in Object : \/ UploadUrl(k) \/ BeginGdriveUpload(k) \/ PutPresigned(k)
                       \/ \E sound \in BOOLEAN : PutThroughGateway(k, sound)
  \/ \E d \in Doc, f \in File : CreateInline(d, f)
  \/ \E w \in Drainer : StartDrain(w) \/ Draining(w) \/ DrainDies(w)
  \/ ListOrphans \/ Collecting \/ NightDies \/ ListDrive
  \/ \E k \in Object : ReconcileFile(k)
  \/ StartMove \/ Moving \/ MoveDies
  \/ Tick

Next ==
  /\ Events
  /\ taken' = taken \cup ({Shown(d) : d \in {d \in Doc : Shown(d)' # Shown(d)}} \ {None})

Spec == Init /\ [][Next]_vars

\* Requests and drains run to their end; the nightly job drains, collects, and comes
\* again; a comparison with Drive that was begun ends.
Fairness ==
  /\ \A h \in Handler : WF_rows(Work(h))
  /\ \A w \in Drainer : WF_rows(StartDrain(w) \/ Draining(w))
  /\ WF_rows(ListOrphans \/ Collecting)
  /\ WF_rows(\E k \in Object : ReconcileFile(k))
  /\ WF_rows(Moving)
  /\ WF_rows(Tick)

FairSpec == Spec /\ Fairness
-----------------------------------------------------------------------------
(* Properties.                                                             *)

(* Wherever the bytes are, in our database, on the way or in the             *)
(* organization's storage, readers get what the abstract shelf promises: a   *)
(* document keeps its content until a new edition or its deletion, moving a  *)
(* file shows nothing else in between, and no old content comes back.        *)
(* (POST and PATCH /courses, DELETE, drains, collectOrphans, migration)       *)
Promise == INSTANCE Shelf WITH shown <- [d \in Doc |-> Shown(d)], Nothing <- None
KeepsItsPromise == Promise!Spec

(* No object is left in the organization's storage that neither a row, an    *)
(* entry of the deletion queue nor a migration under way accounts for: it    *)
(* would be paid for forever.  (deletionOpsFor, collectOrphans, commit)       *)
Accounted ==
  \A k \in Object : Stored(k) => \/ Here(k) \/ Queued(k)
                                 \/ move.at = "record" /\ move.object = k

(* What no document shows is removed in the end, through failed and          *)
(* overlapping drains, unless the storage refused it to the last attempt.    *)
(* (drainDeletionQueue, collectOrphans)                                     *)
GivenUp(k) == \E n \in 1 .. MaxEntries : queue[<<k, n>>].attempts = MaxAttempts
Reclaimed ==
  \A k \in Object : Stored(k) ~> (blob[k] = Gone \/ Used(k) \/ GivenUp(k))

(* A document that is live has its content, whenever and however often the   *)
(* migration is cut short.  (migrateInlineFiles)                             *)
NothingLost == \A d \in Doc : Shown(d) # Lost
=============================================================================
