---------------------------- MODULE ObjectsProofs ---------------------------
(* What Objects promises for every number of uploads, documents, requests and *)
(* drains in flight.                                                        *)
EXTENDS Objects, WellFoundedInduction, TLAPS
-----------------------------------------------------------------------------
(* Types.                                                                  *)

\* What a drain has in hand was read with an attempt left.
Attempts ==
  \A w \in Drainer :
    /\ \A r \in drain[w].todo : r[2] < MaxAttempts
    /\ drain[w].at # "next" => drain[w].entry \in Read /\ drain[w].entry[2] < MaxAttempts

\* Which locals a request and the migration have set, by where they are.
Shaped ==
  /\ \A h \in Handler : LET l == handler[h] IN
       /\ l.pc = "rest" => l = Rest
       /\ l.pc = "confirm" => l.new \in Object /\ l.doc = None /\ l.prev = None
       /\ l.pc \in {"make", "claim"} => l.new \in Object
       /\ l.pc \in {"make", "write", "release", "claim", "delete"} => l.doc \in Doc
       /\ l.pc = "delete" => l.new = None
  /\ IF move.at = "next" THEN move.doc = None /\ move.file = None
                         ELSE move.doc \in Doc /\ move.file \in File
  /\ IF move.at \in {"record", "point"} THEN move.object \in Object ELSE move.object = None

Typed == TypeOK /\ Attempts /\ Shaped

\* The next entry of a key, while it has one left.
LEMMA NextFree ==
  ASSUME NEW k, Free(k) # {}
  PROVE  (CHOOSE n \in Free(k) : \A m \in Free(k) : n <= m) \in Free(k)
<1> DEFINE R == OpToRel(<, Nat)
<1>1. Free(k) \subseteq Nat
  BY ObjectsAssumption DEF Free
<1>2. IsWellFoundedOn(R, Nat)
  BY NatLessThanWellFounded
<1>3. \A x \in Nat, y \in Nat : <<y, x>> \in R <=> y < x
  BY DEF OpToRel
<1> HIDE DEF R
<1>4. \E x \in Free(k) : \A y \in Free(k) : ~ (<<y, x>> \in R)
  BY <1>1, <1>2, WFMin
<1>5. PICK n \in Free(k) : \A m \in Free(k) : ~ (m < n)
  BY <1>1, <1>3, <1>4
<1>6. \A m \in Free(k) : n <= m
  BY <1>1, <1>5
<1>7. QED
  BY <1>6

\* Enqueuing makes at most one entry, of that key, where there was none; it makes
\* one if the key has any left.
LEMMA Enqueued ==
  ASSUME TypeOK, NEW k \in Object, Enqueue(k)
  PROVE  /\ queue' \in [Entry -> EntryRow]
         /\ \A e \in Entry : \/ queue'[e] = queue[e]
                             \/ e[1] = k /\ queue[e].state = "none" /\ queue'[e].state = "here"
         /\ Free(k) # {} => Queued(k)'
<1>1. CASE Free(k) = {}
  BY <1>1 DEF Enqueue, TypeOK
<1>2. CASE Free(k) # {}
  <2> DEFINE n == CHOOSE n \in Free(k) : \A m \in Free(k) : n <= m
  <2>1. n \in 1 .. MaxEntries /\ queue[<<k, n>>].state = "none"
    BY <1>2, NextFree DEF Free
  <2>2. queue' = [queue EXCEPT ![<<k, n>>].state = "here"]
    BY <1>2 DEF Enqueue
  <2> HIDE DEF n
  <2>3. <<k, n>> \in Entry /\ queue \in [Entry -> EntryRow]
    BY <2>1 DEF Entry, TypeOK
  <2>4. queue'[<<k, n>>] = [queue[<<k, n>>] EXCEPT !.state = "here"]
        /\ \A e \in Entry : e # <<k, n>> => queue'[e] = queue[e]
    BY <2>2, <2>3
  <2>5. queue'[<<k, n>>] \in EntryRow /\ queue'[<<k, n>>].state = "here"
    BY <2>3, <2>4 DEF EntryRow
  <2>6. queue' \in [Entry -> EntryRow]
    BY <2>2, <2>3, <2>5
  <2>7. Queued(k)'
    BY <2>1, <2>5 DEF Queued, Waiting
  <2>8. ASSUME NEW e \in Entry
        PROVE  \/ queue'[e] = queue[e]
               \/ e[1] = k /\ queue[e].state = "none" /\ queue'[e].state = "here"
    <3>1. CASE e = <<k, n>>
      BY <2>1, <2>5, <3>1
    <3>2. QED
      BY <2>4, <3>1
  <2>9. QED
    BY <2>6, <2>7, <2>8
<1>3. QED
  BY <1>1, <1>2

\* Dropping a row ends its session and leaves the rest of it, and every other row.
LEMMA Dropped ==
  ASSUME TypeOK, NEW k \in Object, DropRow(k)
  PROVE  /\ row' \in [Object -> ObjectRow]
         /\ row'[k].state = (IF Here(k) THEN "gone" ELSE row[k].state)
         /\ row'[k].session = (IF Here(k) THEN "none" ELSE row[k].session)
         /\ row'[k].course = row[k].course /\ row'[k].created = row[k].created
         /\ row'[k].sound = row[k].sound /\ row'[k].committed = row[k].committed
         /\ \A j \in Object \ {k} : row'[j] = row[j]
<1>1. CASE Here(k)
  <2>1. row' = [row EXCEPT ![k] = [@ EXCEPT !.state = "gone", !.session = "none"]]
    BY <1>1 DEF DropRow
  <2>2. row'[k] = [row[k] EXCEPT !.state = "gone", !.session = "none"]
        /\ row \in [Object -> ObjectRow] /\ \A j \in Object \ {k} : row'[j] = row[j]
    BY <2>1 DEF TypeOK
  <2>3. row[k] \in ObjectRow /\ row'[k] \in ObjectRow
    BY <2>2 DEF ObjectRow
  <2>4. row' \in [Object -> ObjectRow]
    BY <2>1, <2>2, <2>3
  <2>5. QED
    BY <1>1, <2>2, <2>3, <2>4 DEF ObjectRow
<1>2. CASE ~Here(k)
  <2>1. row' = row
    BY <1>2 DEF DropRow, TypeOK
  <2>2. QED
    BY <1>2, <2>1 DEF TypeOK
<1>3. QED
  BY <1>1, <1>2

LEMMA FilesAreNoObjects == \A r \in File : r \notin Object
  BY ObjectsAssumption

LEMMA Released ==
  ASSUME TypeOK, NEW r \in Ref, Release(r)
  PROVE  /\ r \in Object => Enqueue(r) /\ DropRow(r) /\ file' = file
         /\ r \in File => /\ queue' = queue /\ row' = row
                          /\ file' = [file EXCEPT ![r] = "gone"]
         /\ r = None => queue' = queue /\ row' = row /\ file' = file
<1>1. CASE r \in Object
  <2>1. r \notin File /\ r # None
    BY <1>1, ObjectsAssumption
  <2>2. QED
    BY <1>1, <2>1 DEF Release
<1>2. CASE r \in File
  <2>1. r \notin Object /\ r # None
    BY <1>2, ObjectsAssumption
  <2>2. QED
    BY <1>2, <2>1 DEF Release
<1>3. CASE r = None
  <2>1. r \notin Object /\ r \notin File
    BY <1>3, ObjectsAssumption
  <2>2. QED
    BY <1>3, <2>1 DEF Release
<1>4. QED
  BY <1>1, <1>2, <1>3 DEF Ref, Content

LEMMA ReleasedTyped ==
  ASSUME TypeOK, NEW r \in Ref, Release(r)
  PROVE  /\ queue' \in [Entry -> EntryRow] /\ row' \in [Object -> ObjectRow]
         /\ file' \in [File -> {"none", "here", "gone"}]
<1>1. CASE r \in Object
  BY <1>1, Released, Enqueued, Dropped DEF TypeOK
<1>2. CASE r \in File
  BY <1>2, Released DEF TypeOK
<1>3. CASE r = None
  BY <1>3, Released DEF TypeOK
<1>4. QED
  BY <1>1, <1>2, <1>3 DEF Ref, Content

\* A request in flight changes its own locals and no other's.
LEMMA Moves ==
  ASSUME TypeOK, NEW h \in Handler, NEW l \in Locals, Goto(h, l)
  PROVE  /\ handler' \in [Handler -> Locals] /\ handler'[h] = l
         /\ \A g \in Handler \ {h} : handler'[g] = handler[g]
  BY DEF TypeOK, Goto

LEMMA RestTyped == Rest \in Locals
  BY DEF Rest, Locals, Pc, Ref

LEMMA Rests ==
  ASSUME TypeOK, NEW h \in Handler, Done(h)
  PROVE  /\ handler' \in [Handler -> Locals] /\ handler'[h] = Rest
         /\ \A g \in Handler \ {h} : handler'[g] = handler[g]
  BY RestTyped, Moves DEF Done

LEMMA StepsOn ==
  ASSUME TypeOK, NEW h \in Handler, NEW pc \in Pc, Step(h, pc)
  PROVE  /\ handler' \in [Handler -> Locals] /\ handler'[h] = [handler[h] EXCEPT !.pc = pc]
         /\ handler'[h].pc = pc /\ handler'[h].doc = handler[h].doc
         /\ handler'[h].prev = handler[h].prev /\ handler'[h].new = handler[h].new
         /\ \A g \in Handler \ {h} : handler'[g] = handler[g]
<1>1. handler[h] \in Locals
  BY DEF TypeOK
<1>2. [handler[h] EXCEPT !.pc = pc] \in Locals
  BY <1>1 DEF Locals
<1>3. QED
  BY <1>1, <1>2, Moves DEF Step, Locals

\* A drain changes its own locals and no other's.
LEMMA DrainMoves ==
  ASSUME TypeOK, NEW w \in Drainer, NEW l \in DrainLocals, Drains(w, l)
  PROVE  /\ drain' \in [Drainer -> DrainLocals] /\ drain'[w] = l
         /\ \A v \in Drainer \ {w} : drain'[v] = drain[v]
  BY DEF TypeOK, Drains

LEMMA NoDrainTyped == NoDrain \in DrainLocals
  BY DEF NoDrain, DrainLocals

\* One that goes on, or gives up, has nothing in hand and nothing more to do.
LEMMA DrainOn ==
  ASSUME Typed, NEW w \in Drainer, NextEntry(w) \/ Drains(w, NoDrain)
  PROVE  /\ drain' \in [Drainer -> DrainLocals] /\ Attempts'
         /\ drain'[w].at = "next" /\ drain'[w].todo \subseteq drain[w].todo
         /\ \A v \in Drainer \ {w} : drain'[v] = drain[v]
<1> USE DEF Typed
<1>1. drain[w] \in DrainLocals
  BY DEF TypeOK
<1>2. PICK l \in DrainLocals : Drains(w, l) /\ l.at = "next" /\ l.todo \subseteq drain[w].todo
  <2>1. [NoDrain EXCEPT !.todo = drain[w].todo] \in DrainLocals
    BY <1>1 DEF NoDrain, DrainLocals
  <2>2. QED
    BY <2>1, NoDrainTyped DEF NextEntry, NoDrain
<1>3. /\ drain' \in [Drainer -> DrainLocals] /\ drain'[w] = l
      /\ \A v \in Drainer \ {w} : drain'[v] = drain[v]
  BY <1>2, DrainMoves
<1>4. Attempts'
  BY <1>2, <1>3 DEF Attempts
<1>5. QED
  BY <1>2, <1>3, <1>4

LEMMA ReaderSees == ASSUME TypeOK, NEW d \in Doc PROVE Shown(d) \in Content \cup {None, Lost}
<1>1. doc[d].ref \in Ref
  BY DEF TypeOK
<1>2. QED
  BY <1>1 DEF Shown, Stored, Ref, Content

LEMMA TakenTyped ==
  ASSUME TypeOK, Next
  PROVE  taken' \subseteq Content \cup {Lost}
  BY ReaderSees DEF Next, TypeOK

LEMMA InitTyped == Init => Typed
<1>1. NoRow \in ObjectRow
  BY ObjectsAssumption DEF NoRow, ObjectRow
<1>2. NoMove \in MoveLocals
  BY DEF NoMove, MoveLocals
<1>3. [state |-> "none", attempts |-> 0] \in EntryRow
  BY ObjectsAssumption DEF EntryRow
<1>4. ASSUME Init
      PROVE  /\ row \in [Object -> ObjectRow] /\ move \in MoveLocals /\ queue \in [Entry -> EntryRow]
             /\ handler \in [Handler -> Locals] /\ drain \in [Drainer -> DrainLocals]
  BY <1>1, <1>2, <1>3, <1>4, RestTyped, NoDrainTyped DEF Init
<1>5. ASSUME Init PROVE now \in 0 .. MaxTime /\ taken \subseteq Content \cup {Lost}
  BY <1>5, ObjectsAssumption DEF Init
<1>6. ASSUME Init
      PROVE  /\ blob \in [Object -> Content \cup {None, Gone}]
             /\ file \in [File -> {"none", "here", "gone"}]
             /\ doc \in [Doc -> [state : {"none", "live", "deleted"}, ref : Ref]]
             /\ night \in [doing : {"rest", "collect", "reconcile"}, todo : SUBSET Object,
                           compared : 0 .. MaxTime + 1]
  BY <1>6, ObjectsAssumption DEF Init, Ref
<1>7. Init => Attempts
  BY DEF Init, Attempts, NoDrain
<1>8. Init => Shaped
  BY DEF Init, Shaped, Rest, NoMove
<1>9. QED
  BY <1>4, <1>5, <1>6, <1>7, <1>8 DEF Typed, TypeOK

\* What a request at rest, and one in flight, may go on with.
LEMMA Reshaped ==
  ASSUME Typed, NEW h \in Handler, move' = move,
         \A g \in Handler \ {h} : handler'[g] = handler[g],
         LET l == handler'[h] IN
           /\ l.pc = "rest" => l = Rest
           /\ l.pc = "confirm" => l.new \in Object /\ l.doc = None /\ l.prev = None
           /\ l.pc \in {"make", "claim"} => l.new \in Object
           /\ l.pc \in {"make", "write", "release", "claim", "delete"} => l.doc \in Doc
           /\ l.pc = "delete" => l.new = None
  PROVE  Shaped'
  BY DEF Typed, Shaped

LEMMA RestShaped ==
  ASSUME Typed, NEW h \in Handler, Done(h), move' = move
  PROVE  Shaped'
<1>1. handler'[h] = Rest /\ \A g \in Handler \ {h} : handler'[g] = handler[g]
  BY Rests DEF Typed
<1>2. QED
  BY <1>1, Reshaped DEF Rest

LEMMA KeepsShape ==
  ASSUME Typed, handler' = handler, move' = move
  PROVE  Shaped'
  BY DEF Typed, Shaped

LEMMA KeepsAttempts == ASSUME Typed, drain' = drain PROVE Attempts'
  BY DEF Typed, Attempts

\* An object row rewritten is an object row.
LEMMA RowTyped ==
  ASSUME TypeOK, NEW k \in Object
  PROVE  /\ row[k] \in ObjectRow
         /\ \A session \in {"none", "open", "complete"}, sound \in BOOLEAN :
              [row[k] EXCEPT !.session = session, !.sound = sound] \in ObjectRow
         /\ \A session \in {"none", "open", "complete"}, yes \in BOOLEAN :
              [row[k] EXCEPT !.committed = yes, !.session = session] \in ObjectRow
         /\ \A yes \in BOOLEAN : [row[k] EXCEPT !.committed = yes] \in ObjectRow
         /\ \A d \in Doc \cup {None} : [row[k] EXCEPT !.course = d] \in ObjectRow
<1>1. row[k] \in ObjectRow
  BY DEF TypeOK
<1>2. QED
  BY <1>1 DEF ObjectRow

LEMMA UploadTyped ==
  ASSUME Typed, NEW k \in Object, taken' \subseteq Content \cup {Lost},
         \/ UploadUrl(k) \/ BeginGdriveUpload(k) \/ PutPresigned(k)
         \/ \E sound \in BOOLEAN : PutThroughGateway(k, sound)
  PROVE  Typed'
<1> USE DEF Typed
<1>1. ASSUME NEW session \in {"none", "open"}, NewUpload(k, session) PROVE TypeOK'
  <2>1. [NoRow EXCEPT !.state = "here", !.created = now, !.session = session] \in ObjectRow
    BY ObjectsAssumption DEF NoRow, ObjectRow, TypeOK
  <2>2. row' \in [Object -> ObjectRow]
    BY <1>1, <2>1 DEF NewUpload, TypeOK
  <2>3. QED
    BY <1>1, <2>2 DEF NewUpload, TypeOK
<1>2. CASE PutPresigned(k)
  <2>1. blob' \in [Object -> Content \cup {None, Gone}]
    BY <1>2 DEF PutPresigned, TypeOK, Content
  <2>2. QED
    BY <1>2, <2>1, KeepsShape, KeepsAttempts DEF PutPresigned, TypeOK
<1>3. ASSUME NEW sound \in BOOLEAN, PutThroughGateway(k, sound) PROVE TypeOK'
  <2>1. blob' \in [Object -> Content \cup {None, Gone}]
    BY <1>3 DEF PutThroughGateway, TypeOK, Content
  <2>2. [row[k] EXCEPT !.session = "complete", !.sound = sound] \in ObjectRow
    BY RowTyped
  <2>3. row' = [row EXCEPT ![k] = [row[k] EXCEPT !.session = "complete", !.sound = sound]]
    BY <1>3 DEF PutThroughGateway, TypeOK
  <2>4. row' \in [Object -> ObjectRow]
    BY <2>2, <2>3 DEF TypeOK
  <2>5. QED
    BY <1>3, <2>1, <2>4 DEF PutThroughGateway, TypeOK
<1>4. handler' = handler /\ move' = move /\ drain' = drain
  BY DEF UploadUrl, BeginGdriveUpload, NewUpload, PutPresigned, PutThroughGateway
<1>5. Shaped' /\ Attempts'
  BY <1>4, KeepsShape, KeepsAttempts
<1>6. QED
  BY <1>1, <1>2, <1>3, <1>5 DEF UploadUrl, BeginGdriveUpload

LEMMA CommitTyped ==
  ASSUME Typed, NEW h \in Handler, taken' \subseteq Content \cup {Lost},
         CommitS3(h) \/ CommitGdriveUpload(h) \/ Fail(h) \/ Claim(h)
  PROVE  Typed'
<1> USE DEF Typed
<1> DEFINE k == handler[h].new
<1>1. handler' \in [Handler -> Locals] /\ Shaped' /\ Attempts'
  <2>1. Done(h) /\ move' = move /\ drain' = drain
    BY DEF CommitS3, CommitGdriveUpload, Fail, Claim
  <2>2. QED
    BY <2>1, Rests, RestShaped, KeepsAttempts
<1>2. CASE CommitS3(h)
  <2>1. k \in Object
    BY <1>2 DEF CommitS3, At, Shaped
  <2>2. (row[k].committed \/ Stored(k)) \in BOOLEAN
    BY <2>1 DEF Stored, TypeOK, ObjectRow
  <2>3. row' = [row EXCEPT ![k] = [row[k] EXCEPT !.committed = row[k].committed \/ Stored(k)]]
    BY <1>2, <2>1 DEF CommitS3, TypeOK
  <2>4. [row[k] EXCEPT !.committed = row[k].committed \/ Stored(k)] \in ObjectRow
    BY <2>1, <2>2, RowTyped
  <2>5. row' \in [Object -> ObjectRow]
    BY <2>1, <2>3, <2>4 DEF TypeOK
  <2>6. TypeOK'
    BY <1>1, <1>2, <2>5 DEF CommitS3, TypeOK
  <2>7. QED
    BY <1>1, <2>6
<1>3. CASE CommitGdriveUpload(h)
  <2>1. k \in Object
    BY <1>3 DEF CommitGdriveUpload, At, Shaped
  <2>2. CASE row[k].sound
    <3>1. row' = [row EXCEPT ![k] = [row[k] EXCEPT !.committed = TRUE, !.session = "none"]]
          /\ queue' = queue
      <4>1. /\ row' = [row EXCEPT ![k].committed = TRUE, ![k].session = "none"]
            /\ queue' = queue
        BY <1>3, <2>2 DEF CommitGdriveUpload
      <4>2. row \in [Object -> ObjectRow]
        BY DEF TypeOK
      <4>3. QED
        BY <2>1, <4>1, <4>2
    <3>2. [row[k] EXCEPT !.committed = TRUE, !.session = "none"] \in ObjectRow
      BY <2>1, RowTyped
    <3>3. row' \in [Object -> ObjectRow]
      BY <2>1, <3>1, <3>2 DEF TypeOK
    <3>4. QED
      BY <1>1, <1>3, <3>1, <3>3 DEF CommitGdriveUpload, TypeOK
  <2>3. CASE ~row[k].sound
    <3>1. Enqueue(k) /\ DropRow(k)
      BY <1>3, <2>3 DEF CommitGdriveUpload
    <3>2. QED
      BY <1>1, <1>3, <2>1, <3>1, Enqueued, Dropped DEF CommitGdriveUpload, TypeOK
  <2>4. QED
    BY <2>2, <2>3
<1>4. CASE Fail(h)
  BY <1>1, <1>4 DEF Fail, TypeOK
<1>5. CASE Claim(h)
  <2>1. k \in Object
    BY <1>5 DEF Claim, At, Shaped
  <2>2. row' = [row EXCEPT ![k] = [row[k] EXCEPT !.course = handler[h].doc]]
    BY <1>5 DEF Claim, TypeOK
  <2>3. [row[k] EXCEPT !.course = handler[h].doc] \in ObjectRow
    BY <2>1, RowTyped DEF TypeOK, Locals
  <2>4. row' \in [Object -> ObjectRow]
    BY <2>1, <2>2, <2>3 DEF TypeOK
  <2>5. QED
    BY <1>1, <1>5, <2>4 DEF Claim, TypeOK
<1>6. QED
  BY <1>2, <1>3, <1>4, <1>5

LEMMA DocumentTyped ==
  ASSUME Typed, NEW h \in Handler, taken' \subseteq Content \cup {Lost},
         \/ Make(h) \/ WriteEdition(h) \/ ReleasePrevious(h) \/ DeleteCommit(h) \/ Request(h)
         \/ \E k \in Object : BeginCommit(h, k)
  PROVE  Typed'
<1> USE DEF Typed
<1> DEFINE l == handler[h]
           DocType == [state : {"none", "live", "deleted"}, ref : Ref]
<1>1. l \in Locals /\ doc \in [Doc -> DocType]
  BY DEF TypeOK
<1>2. l.prev \in Ref /\ l.new \in Ref
  BY <1>1 DEF Locals
<1>3. drain' = drain /\ move' = move
  BY DEF Make, WriteEdition, ReleasePrevious, DeleteCommit, Request, CreateCourse, PublishEdition,
         DeleteCourse, BeginCommit
<1>4. Attempts'
  BY <1>3, KeepsAttempts
<1>5. ASSUME NEW pc \in Pc, Step(h, pc),
             \/ pc = "claim" /\ l.pc \in {"make", "release"} /\ l.new \in Object
             \/ pc = "release" /\ l.pc = "write"
      PROVE  handler' \in [Handler -> Locals] /\ Shaped'
  <2>1. /\ handler' \in [Handler -> Locals]
        /\ handler'[h].pc = pc /\ handler'[h].doc = l.doc /\ handler'[h].new = l.new
        /\ \A g \in Handler \ {h} : handler'[g] = handler[g]
    BY <1>5, StepsOn
  <2>2. l.doc \in Doc
    BY <1>5 DEF Shaped
  <2>3. QED
    BY <1>3, <1>5, <2>1, <2>2, Reshaped
<1>6. ASSUME NEW m \in Locals, Goto(h, m), m.pc \in {"make", "write", "delete", "confirm"},
             IF m.pc = "confirm" THEN m.new \in Object /\ m.doc = None /\ m.prev = None
             ELSE m.doc \in Doc,
             m.pc = "make" => m.new \in Object, m.pc = "delete" => m.new = None
      PROVE  handler' \in [Handler -> Locals] /\ Shaped'
  <2>1. /\ handler' \in [Handler -> Locals] /\ handler'[h] = m
        /\ \A g \in Handler \ {h} : handler'[g] = handler[g]
    BY <1>6, Moves
  <2>2. QED
    BY <1>3, <1>6, <2>1, Reshaped
<1>7. CASE Make(h)
  <2>1. l.new \in Object
    BY <1>7 DEF Make, At, Shaped
  <2>2. handler' \in [Handler -> Locals] /\ Shaped'
    BY <1>5, <1>7, <2>1 DEF Make, At, Pc
  <2>3. doc' \in [Doc -> DocType]
    BY <1>1, <1>2, <1>7 DEF Make
  <2>4. QED
    BY <1>4, <1>7, <2>2, <2>3 DEF Make, TypeOK
<1>8. CASE WriteEdition(h)
  <2>1. handler' \in [Handler -> Locals] /\ Shaped'
    BY <1>5, <1>8 DEF WriteEdition, At, Pc
  <2>2. doc' \in [Doc -> DocType]
    BY <1>1, <1>2, <1>8 DEF WriteEdition
  <2>3. QED
    BY <1>4, <1>8, <2>1, <2>2 DEF WriteEdition, TypeOK
<1>9. CASE ReleasePrevious(h)
  <2>1. handler' \in [Handler -> Locals] /\ Shaped'
    BY <1>3, <1>5, <1>9, Rests, RestShaped DEF ReleasePrevious, At, Pc
  <2>2. /\ queue' \in [Entry -> EntryRow] /\ row' \in [Object -> ObjectRow]
        /\ file' \in [File -> {"none", "here", "gone"}]
    BY <1>2, <1>9, ReleasedTyped DEF ReleasePrevious
  <2>3. QED
    BY <1>4, <1>9, <2>1, <2>2 DEF ReleasePrevious, TypeOK
<1>10. CASE DeleteCommit(h)
  <2>1. handler' \in [Handler -> Locals] /\ Shaped'
    BY <1>3, <1>10, Rests, RestShaped DEF DeleteCommit
  <2>2. /\ queue' \in [Entry -> EntryRow] /\ row' \in [Object -> ObjectRow]
        /\ file' \in [File -> {"none", "here", "gone"}]
    BY <1>2, <1>10, ReleasedTyped DEF DeleteCommit
  <2>3. doc' \in [Doc -> DocType]
    BY <1>1, <1>10 DEF DeleteCommit, Ref
  <2>4. QED
    BY <1>4, <1>10, <2>1, <2>2, <2>3 DEF DeleteCommit, TypeOK
<1>11. ASSUME NEW d \in Doc, NEW k \in Object, CreateCourse(h, d, k) PROVE Typed'
  <2>1. [pc |-> "make", doc |-> d, prev |-> None, new |-> k] \in Locals
    BY DEF Locals, Pc, Ref, Content
  <2>2. handler' \in [Handler -> Locals] /\ Shaped'
    BY <1>6, <1>11, <2>1 DEF CreateCourse
  <2>3. QED
    BY <1>4, <1>11, <2>2 DEF CreateCourse, TypeOK
<1>12. ASSUME NEW d \in Doc, NEW new \in Ref, PublishEdition(h, d, new) PROVE Typed'
  <2>1. [pc |-> "write", doc |-> d, prev |-> doc[d].ref, new |-> new] \in Locals
    BY <1>1 DEF Locals, Pc
  <2>2. handler' \in [Handler -> Locals] /\ Shaped'
    BY <1>6, <1>12, <2>1 DEF PublishEdition
  <2>3. file' \in [File -> {"none", "here", "gone"}]
    BY <1>12 DEF PublishEdition, TypeOK
  <2>4. QED
    BY <1>4, <1>12, <2>2, <2>3 DEF PublishEdition, TypeOK
<1>13. ASSUME NEW d \in Doc, DeleteCourse(h, d) PROVE Typed'
  <2>1. [pc |-> "delete", doc |-> d, prev |-> doc[d].ref, new |-> None] \in Locals
    BY <1>1 DEF Locals, Pc, Ref
  <2>2. handler' \in [Handler -> Locals] /\ Shaped'
    BY <1>6, <1>13, <2>1 DEF DeleteCourse
  <2>3. QED
    BY <1>4, <1>13, <2>2 DEF DeleteCourse, TypeOK
<1>14. ASSUME NEW k \in Object, BeginCommit(h, k) PROVE Typed'
  <2> DEFINE m == [Rest EXCEPT !.pc = "confirm", !.new = k]
  <2>1. m \in Locals /\ m.pc = "confirm" /\ m.new = k /\ m.doc = None /\ m.prev = None
    BY DEF Rest, Locals, Pc, Ref, Content
  <2>2. Goto(h, m)
    BY <1>14 DEF BeginCommit
  <2> HIDE DEF m
  <2>3. handler' \in [Handler -> Locals] /\ Shaped'
    BY <1>6, <2>1, <2>2
  <2>4. QED
    BY <1>4, <1>14, <2>3 DEF BeginCommit, TypeOK
<1>15. QED
  BY <1>7, <1>8, <1>9, <1>10, <1>11, <1>12, <1>13, <1>14 DEF Request

LEMMA CreateInlineTyped ==
  ASSUME Typed, NEW d \in Doc, NEW f \in File, taken' \subseteq Content \cup {Lost},
         CreateInline(d, f)
  PROVE  Typed'
<1> USE DEF Typed
<1>1. file' \in [File -> {"none", "here", "gone"}]
      /\ doc' \in [Doc -> [state : {"none", "live", "deleted"}, ref : Ref]]
  BY DEF CreateInline, TypeOK, Ref, Content
<1>2. handler' = handler /\ move' = move /\ drain' = drain
  BY DEF CreateInline
<1>3. QED
  BY <1>1, <1>2, KeepsShape, KeepsAttempts DEF CreateInline, TypeOK

LEMMA DrainTyped ==
  ASSUME Typed, NEW w \in Drainer, taken' \subseteq Content \cup {Lost},
         StartDrain(w) \/ Draining(w) \/ DrainDies(w)
  PROVE  Typed'
<1> USE DEF Typed
<1>0. Shaped'
  BY KeepsShape DEF StartDrain, Draining, RemoteDelete, Forget, NoteFailure, DrainDies
<1>1. drain[w] \in DrainLocals
  BY DEF TypeOK
<1>2. CASE StartDrain(w)
  <2> DEFINE T == {<<e, queue[e].attempts>> : e \in {e \in Entry : Due(e)}}
             l == [NoDrain EXCEPT !.todo = T]
  <2>1. T \subseteq Read /\ \A r \in T : r[2] < MaxAttempts
    <3>1. \A e \in Entry : Due(e) => queue[e].attempts \in 0 .. MaxAttempts
                                     /\ queue[e].attempts < MaxAttempts
      BY DEF TypeOK, EntryRow, Due
    <3>2. QED
      BY <3>1 DEF Read
  <2>2. l.todo = T /\ l.at = "next" /\ l.entry = None
    BY DEF NoDrain
  <2>3. l \in DrainLocals
    BY <2>1 DEF NoDrain, DrainLocals
  <2>4. Drains(w, l)
    BY <1>2 DEF StartDrain
  <2> HIDE DEF l, T
  <2>5. /\ drain' \in [Drainer -> DrainLocals] /\ drain'[w] = l
        /\ \A v \in Drainer \ {w} : drain'[v] = drain[v]
    BY <2>3, <2>4, DrainMoves
  <2>6. Attempts'
    BY <2>1, <2>2, <2>5 DEF Attempts
  <2>7. QED
    BY <1>0, <1>2, <2>5, <2>6 DEF StartDrain, TypeOK
<1>3. ASSUME NEW r \in drain[w].todo, RemoteDelete(w, r) PROVE Typed'
  <2>1. PICK at \in {"forget", "note"} :
          Drains(w, [todo |-> drain[w].todo \ {r}, at |-> at, entry |-> r])
    BY <1>3 DEF RemoteDelete
  <2> DEFINE l == [todo |-> drain[w].todo \ {r}, at |-> at, entry |-> r]
  <2>2. r \in Read /\ r[2] < MaxAttempts
    BY <1>1 DEF DrainLocals, Attempts
  <2>3. l \in DrainLocals
    BY <1>1, <2>2 DEF DrainLocals
  <2>4. l.todo \subseteq drain[w].todo /\ l.entry = r
    OBVIOUS
  <2> HIDE DEF l
  <2>5. /\ drain' \in [Drainer -> DrainLocals] /\ drain'[w] = l
        /\ \A v \in Drainer \ {w} : drain'[v] = drain[v]
    BY <2>1, <2>3, DrainMoves DEF l
  <2>6. Attempts'
    BY <2>2, <2>4, <2>5 DEF Attempts
  <2>7. blob' \in [Object -> Content \cup {None, Gone}]
    BY <1>3 DEF RemoteDelete, TypeOK
  <2>8. QED
    BY <1>0, <1>3, <2>5, <2>6, <2>7 DEF RemoteDelete, TypeOK
<1>4. CASE Forget(w) \/ NoteFailure(w) \/ DrainDies(w)
  <2> DEFINE e == drain[w].entry[1]
  <2>1. drain' \in [Drainer -> DrainLocals] /\ Attempts'
    BY <1>4, DrainOn DEF Forget, NoteFailure, DrainDies
  <2>2. drain[w].at # "next"
    BY <1>4 DEF Forget, NoteFailure, DrainDies
  <2>3. drain[w].entry \in Read /\ drain[w].entry[2] < MaxAttempts
    BY <2>2 DEF Attempts
  <2>4. e \in Entry /\ drain[w].entry[2] + 1 \in 0 .. MaxAttempts
    BY <2>3, ObjectsAssumption DEF Read
  <2>5. \/ queue' = queue
        \/ queue' = [queue EXCEPT ![e] = [state |-> "gone", attempts |-> 0]]
        \/ queue' = [queue EXCEPT ![e].attempts = drain[w].entry[2] + 1]
    BY <1>4 DEF Forget, NoteFailure, DrainDies
  <2> HIDE DEF e
  <2>6. [state |-> "gone", attempts |-> 0] \in EntryRow
    BY ObjectsAssumption DEF EntryRow
  <2>7. queue' \in [Entry -> EntryRow]
    <3>1. CASE queue' = queue
      BY <3>1 DEF TypeOK
    <3>2. CASE queue' = [queue EXCEPT ![e] = [state |-> "gone", attempts |-> 0]]
      BY <2>4, <2>6, <3>2 DEF TypeOK
    <3>3. CASE queue' = [queue EXCEPT ![e].attempts = drain[w].entry[2] + 1]
      <4>1. queue[e] \in EntryRow
        BY <2>4 DEF TypeOK
      <4>2. [queue[e] EXCEPT !.attempts = drain[w].entry[2] + 1] \in EntryRow
        BY <2>4, <4>1 DEF EntryRow
      <4>3. QED
        BY <2>4, <3>3, <4>2 DEF TypeOK
    <3>4. QED
      BY <2>5, <3>1, <3>2, <3>3
  <2>8. UNCHANGED <<now, blob, row, file, doc, handler, night, move>>
    BY <1>4 DEF Forget, NoteFailure, DrainDies
  <2>9. QED
    BY <1>0, <2>1, <2>7, <2>8 DEF TypeOK
<1>5. QED
  BY <1>2, <1>3, <1>4 DEF Draining

LEMMA NightTyped ==
  ASSUME Typed, taken' \subseteq Content \cup {Lost},
         \/ ListOrphans \/ Collecting \/ NightDies \/ ListDrive
         \/ \E k \in Object : ReconcileFile(k)
  PROVE  Typed'
<1> USE DEF Typed
<1> DEFINE NightType == [doing : {"rest", "collect", "reconcile"}, todo : SUBSET Object,
                         compared : 0 .. MaxTime + 1]
<1>1. night \in NightType
  BY DEF TypeOK
<1>2. handler' = handler /\ move' = move /\ drain' = drain
  BY DEF ListOrphans, Collecting, CollectOrphan, NightDies, ListDrive, ReconcileFile
<1>3. Shaped' /\ Attempts'
  BY <1>2, KeepsShape, KeepsAttempts
<1>4. NightDone => night' \in NightType
  BY <1>1 DEF NightDone
<1>5. ASSUME NEW k, NightNext(k) PROVE night' \in NightType
  BY <1>1, <1>4, <1>5 DEF NightNext
<1>6. CASE ListOrphans
  <2>1. night' \in NightType
    BY <1>1, <1>6 DEF ListOrphans
  <2>2. QED
    BY <1>3, <1>6, <2>1 DEF ListOrphans, TypeOK
<1>7. ASSUME NEW k \in Object, CollectOrphan(k) PROVE Typed'
  <2>1. night' \in NightType
    BY <1>4, <1>5, <1>7 DEF CollectOrphan
  <2>2. queue' \in [Entry -> EntryRow] /\ row' \in [Object -> ObjectRow]
    <3>1. CASE Here(k)
      BY <1>7, <3>1, Enqueued, Dropped DEF CollectOrphan
    <3>2. CASE ~Here(k)
      BY <1>7, <3>2 DEF CollectOrphan, TypeOK
    <3>3. QED
      BY <3>1, <3>2
  <2>3. QED
    BY <1>3, <1>7, <2>1, <2>2 DEF CollectOrphan, TypeOK
<1>8. CASE NightDies
  BY <1>3, <1>4, <1>8 DEF NightDies, TypeOK
<1>9. CASE ListDrive
  <2>1. night' \in NightType
    BY <1>9, ObjectsAssumption DEF ListDrive, TypeOK
  <2>2. QED
    BY <1>3, <1>9, <2>1 DEF ListDrive, TypeOK
<1>10. ASSUME NEW k \in Object, ReconcileFile(k) PROVE Typed'
  <2>1. night' \in NightType
    BY <1>5, <1>10 DEF ReconcileFile
  <2>2. queue' \in [Entry -> EntryRow]
    BY <1>10, Enqueued DEF ReconcileFile, TypeOK
  <2>3. QED
    BY <1>3, <1>10, <2>1, <2>2 DEF ReconcileFile, TypeOK
<1>11. QED
  BY <1>6, <1>7, <1>8, <1>9, <1>10 DEF Collecting

\* What each step of the migration makes of its locals.
LEMMA MoveOn ==
  ASSUME Typed
  PROVE  /\ NoMove \in MoveLocals
         /\ \A T \in SUBSET (Doc \X File) : move' = [NoMove EXCEPT !.todo = T] =>
              /\ move' \in MoveLocals /\ move'.todo = T /\ move'.at = "next"
              /\ move'.doc = None /\ move'.file = None /\ move'.object = None
         /\ NextMove =>
              /\ move' \in MoveLocals /\ move'.todo = move.todo /\ move'.at = "next"
              /\ move'.doc = None /\ move'.file = None /\ move'.object = None
<1>1. NoMove \in MoveLocals
  BY DEF NoMove, MoveLocals
<1>2. ASSUME NEW T \in SUBSET (Doc \X File), move' = [NoMove EXCEPT !.todo = T]
      PROVE  /\ move' \in MoveLocals /\ move'.todo = T /\ move'.at = "next"
             /\ move'.doc = None /\ move'.file = None /\ move'.object = None
  BY <1>2 DEF NoMove, MoveLocals
<1>3. move.todo \in SUBSET (Doc \X File)
  BY DEF Typed, TypeOK, MoveLocals
<1>4. NextMove => move' = [NoMove EXCEPT !.todo = move.todo]
  BY DEF NextMove, Move
<1>5. QED
  BY <1>1, <1>2, <1>3, <1>4

\* And what it makes of them, step by step.
LEMMA MoveSteps ==
  ASSUME Typed
  PROVE  /\ \A d \in Doc, f \in File : ReadFile(d, f) /\ file[f] = "here" =>
              /\ move' \in MoveLocals /\ move'.todo = move.todo \ {<<d, f>>} /\ move'.at = "put"
              /\ move'.doc = d /\ move'.file = f /\ move'.object = None
         /\ \A d \in Doc, f \in File : ReadFile(d, f) /\ file[f] # "here" =>
              /\ move' \in MoveLocals /\ move'.todo = move.todo \ {<<d, f>>} /\ move'.at = "next"
              /\ move'.doc = None /\ move'.file = None /\ move'.object = None
         /\ \A k \in Object : Move([move EXCEPT !.at = "record", !.object = k]) =>
              /\ move' \in MoveLocals /\ move'.todo = move.todo /\ move'.at = "record"
              /\ move'.doc = move.doc /\ move'.file = move.file /\ move'.object = k
         /\ RecordObject =>
              /\ move' \in MoveLocals /\ move'.todo = move.todo /\ move'.at = "point"
              /\ move'.doc = move.doc /\ move'.file = move.file /\ move'.object = move.object
<1>1. move \in MoveLocals
  BY DEF Typed, TypeOK
<1>2. ASSUME NEW d \in Doc, NEW f \in File, ReadFile(d, f), file[f] = "here"
      PROVE  /\ move' \in MoveLocals /\ move'.todo = move.todo \ {<<d, f>>} /\ move'.at = "put"
             /\ move'.doc = d /\ move'.file = f /\ move'.object = None
  BY <1>1, <1>2 DEF ReadFile, NoMove, MoveLocals
<1>3. ASSUME NEW d \in Doc, NEW f \in File, ReadFile(d, f), file[f] # "here"
      PROVE  /\ move' \in MoveLocals /\ move'.todo = move.todo \ {<<d, f>>} /\ move'.at = "next"
             /\ move'.doc = None /\ move'.file = None /\ move'.object = None
  BY <1>1, <1>3 DEF ReadFile, NoMove, MoveLocals
<1>4. ASSUME NEW k \in Object, Move([move EXCEPT !.at = "record", !.object = k])
      PROVE  /\ move' \in MoveLocals /\ move'.todo = move.todo /\ move'.at = "record"
             /\ move'.doc = move.doc /\ move'.file = move.file /\ move'.object = k
  BY <1>1, <1>4 DEF Move, MoveLocals
<1>5. ASSUME RecordObject
      PROVE  /\ move' \in MoveLocals /\ move'.todo = move.todo /\ move'.at = "point"
             /\ move'.doc = move.doc /\ move'.file = move.file /\ move'.object = move.object
  BY <1>1, <1>5 DEF RecordObject, Move, MoveLocals
<1>6. QED
  BY <1>2, <1>3, <1>4, <1>5

LEMMA MoveTyped ==
  ASSUME Typed, taken' \subseteq Content \cup {Lost}, StartMove \/ Moving \/ MoveDies
  PROVE  Typed'
<1> USE DEF Typed
<1>1. handler' = handler /\ drain' = drain
  BY DEF StartMove, Moving, ReadFile, PutObject, RecordObject, PointDocument, MoveDies
<1>2. Attempts'
  BY <1>1, KeepsAttempts
<1>3. ASSUME IF move'.at = "next" THEN move'.doc = None /\ move'.file = None
                                 ELSE move'.doc \in Doc /\ move'.file \in File,
             IF move'.at \in {"record", "point"} THEN move'.object \in Object ELSE move'.object = None
      PROVE  Shaped'
  BY <1>1, <1>3 DEF Shaped
<1>4. CASE StartMove
  <2> DEFINE T == {<<d, doc[d].ref>> : d \in {d \in Doc : Live(d) /\ doc[d].ref \in File /\ Apart(d)}}
  <2>1. T \in SUBSET (Doc \X File)
    OBVIOUS
  <2>2. move' = [NoMove EXCEPT !.todo = T]
    BY <1>4 DEF StartMove
  <2> HIDE DEF T
  <2>3. move' \in MoveLocals /\ Shaped'
    BY <1>3, <2>1, <2>2, MoveOn
  <2>4. QED
    BY <1>2, <1>4, <2>3 DEF StartMove, TypeOK
<1>5. ASSUME NEW d \in Doc, NEW f \in File, ReadFile(d, f) PROVE Typed'
  <2>1. move' \in MoveLocals /\ Shaped'
    BY <1>3, <1>5, MoveSteps
  <2>2. QED
    BY <1>2, <1>5, <2>1 DEF ReadFile, TypeOK
<1>6. ASSUME NEW k \in Object, PutObject(k) PROVE Typed'
  <2>1. move.doc \in Doc /\ move.file \in File
    BY <1>6 DEF PutObject, Shaped
  <2>2. move' \in MoveLocals /\ Shaped'
    BY <1>3, <1>6, <2>1, MoveSteps, MoveOn DEF PutObject
  <2>3. blob' \in [Object -> Content \cup {None, Gone}]
    BY <1>6, <2>1 DEF PutObject, TypeOK, Content
  <2>4. QED
    BY <1>2, <1>6, <2>2, <2>3 DEF PutObject, TypeOK
<1>7. CASE RecordObject
  <2>1. move.doc \in Doc /\ move.file \in File /\ move.object \in Object
    BY <1>7 DEF RecordObject, Shaped
  <2>2. move' \in MoveLocals /\ Shaped'
    BY <1>3, <1>7, <2>1, MoveSteps
  <2>3. [NoRow EXCEPT !.state = "here", !.course = move.doc, !.created = now, !.committed = TRUE]
          \in ObjectRow
    BY <2>1, ObjectsAssumption DEF NoRow, ObjectRow, TypeOK
  <2>4. row' \in [Object -> ObjectRow] /\ file' \in [File -> {"none", "here", "gone"}]
    BY <1>7, <2>1, <2>3 DEF RecordObject, TypeOK
  <2>5. QED
    BY <1>2, <1>7, <2>2, <2>4 DEF RecordObject, TypeOK
<1>8. CASE PointDocument
  <2>1. move' \in MoveLocals /\ Shaped'
    BY <1>3, <1>8, MoveOn DEF PointDocument
  <2>2. move.object \in Ref
    BY DEF TypeOK, MoveLocals, Ref, Content
  <2>3. doc' \in [Doc -> [state : {"none", "live", "deleted"}, ref : Ref]]
    BY <1>8, <2>2 DEF PointDocument, TypeOK
  <2>4. QED
    BY <1>2, <1>8, <2>1, <2>3 DEF PointDocument, TypeOK
<1>9. CASE MoveDies
  <2>1. move' \in MoveLocals /\ Shaped'
    BY <1>3, <1>9, MoveOn DEF MoveDies, NoMove
  <2>2. QED
    BY <1>2, <1>9, <2>1 DEF MoveDies, TypeOK
<1>10. QED
  BY <1>4, <1>5, <1>6, <1>7, <1>8, <1>9 DEF Moving

LEMMA StepTyped ==
  ASSUME Typed, [Next]_vars
  PROVE  Typed'
<1>1. CASE Next
  <2>1. taken' \subseteq Content \cup {Lost}
    BY <1>1, TakenTyped DEF Typed
  <2>2. CASE Tick
    <3>1. TypeOK'
      BY <2>1, <2>2, ObjectsAssumption DEF Tick, Typed, TypeOK
    <3>2. QED
      BY <2>2, <3>1, KeepsShape, KeepsAttempts DEF Tick, Typed
  <2>3. ASSUME NEW h \in Handler, Work(h) \/ Request(h) \/ \E k \in Object : BeginCommit(h, k)
        PROVE  Typed'
    BY <2>1, <2>3, DocumentTyped, CommitTyped DEF Work
  <2>4. ASSUME NEW d \in Doc, NEW f \in File, CreateInline(d, f) PROVE Typed'
    BY <2>1, <2>4, CreateInlineTyped
  <2>5. CASE \/ ListOrphans \/ Collecting \/ NightDies \/ ListDrive
             \/ \E k \in Object : ReconcileFile(k)
    BY <2>1, <2>5, NightTyped
  <2>6. CASE StartMove \/ Moving \/ MoveDies
    BY <2>1, <2>6, MoveTyped
  <2>7. QED
    BY <1>1, <2>1, <2>2, <2>3, <2>4, <2>5, <2>6, UploadTyped, DrainTyped DEF Next, Events
<1>2. CASE UNCHANGED vars
  BY <1>2 DEF vars, Typed, TypeOK, Attempts, Shaped
<1>3. QED
  BY <1>1, <1>2

(* Rows, requests, drains and jobs hold values of their kind: no entry is      *)
(* tried beyond its last attempt, however drains overlap (drainDeletionQueue). *)
THEOREM TypeCorrect == Spec => []TypeOK
<1>1. Typed => TypeOK
  BY DEF Typed
<1>2. QED
  BY <1>1, InitTyped, StepTyped, PTL DEF Spec

-----------------------------------------------------------------------------
(* No object is paid for that nothing accounts for: while the migration and   *)
(* the comparison with Drive keep apart and the process dies in neither of     *)
(* the migration's last steps.                                              *)

\* The queue holds keys whose row is gone, and an entry goes after the object.
Entries ==
  /\ \A e \in Entry : /\ queue[e].state # "none" => row[e[1]].state = "gone"
                      /\ queue[e].state = "gone" => blob[e[1]] = Gone
  /\ \A w \in Drainer :
       /\ \A r \in drain[w].todo : row[r[1][1]].state = "gone"
       /\ drain[w].at # "next" => row[drain[w].entry[1][1]].state = "gone"
       /\ drain[w].at = "forget" => blob[drain[w].entry[1][1]] = Gone

\* The only object without a row is the one the migration has yet to record.
Rows ==
  \A k \in Object :
    /\ row[k].session # "none" => Here(k)
    /\ blob[k] = Gone => row[k].state = "gone"
    /\ Stored(k) /\ row[k].state = "none" => move.at = "record" /\ move.object = k

\* Every key a document, a request or the nightly job names has had a row.
Named(k) ==
  \/ \E d \in Doc : doc[d].ref = k
  \/ \E h \in Handler : handler[h].prev = k \/ handler[h].new = k
  \/ k \in night.todo
Minted == \A k \in Object : Named(k) => row[k].state # "none"

\* The migration's object, before its row is made and after; none is on its way
\* while Drive is compared.
OnItsWay ==
  /\ night.doing = "reconcile" => move = NoMove
  /\ move.at = "record" => row[move.object].state = "none" /\ blob[move.object] = move.file
  /\ move.at = "point" => row[move.object].state # "none"

Kept == Entries /\ Rows /\ Minted /\ OnItsWay /\ Accounted

\* Rows are made once and go once.
Ages ==
  \A k \in Object : /\ row[k].state # "none" => row'[k].state # "none"
                    /\ row[k].state = "gone" => row'[k].state = "gone"

LEMMA KeepsMinted ==
  ASSUME Minted, Ages,
         \A k \in Object : Named(k)' => Named(k) \/ row[k].state # "none" \/ row'[k].state # "none"
  PROVE  Minted'
  BY DEF Minted, Ages

LEMMA InitKept == Init => Kept
<1> SUFFICES ASSUME Init PROVE Kept
  OBVIOUS
<1> USE DEF Init
<1>1. Entries
  <2>1. \A e \in Entry : queue[e].state = "none"
    OBVIOUS
  <2>2. \A w \in Drainer : drain[w].todo = {} /\ drain[w].at = "next"
    BY DEF NoDrain
  <2>3. QED
    BY <2>1, <2>2 DEF Entries
<1>2. \A k \in Object : blob[k] = None /\ row[k].session = "none"
  BY DEF NoRow
<1>3. None \notin Content
  BY ObjectsAssumption DEF Content
<1>4. \A d \in Doc : doc[d].ref = None
  OBVIOUS
<1>5. \A h \in Handler : handler[h].prev = None /\ handler[h].new = None
  BY DEF Rest
<1>6. \A k \in Object : ~Named(k)
  BY <1>4, <1>5, ObjectsAssumption DEF Named
<1>7. move.at = "next"
  BY DEF NoMove
<1>8. \A k \in Object : blob[k] # Gone
  BY <1>2, ObjectsAssumption DEF Gone
<1>9. QED
  BY <1>1, <1>2, <1>3, <1>6, <1>7, <1>8 DEF Kept, Rows, Minted, OnItsWay, Accounted, Stored

LEMMA EntryKeys ==
  ASSUME Typed
  PROVE  /\ \A e \in Entry : e[1] \in Object
         /\ \A k \in Object, n \in 1 .. MaxEntries : <<k, n>> \in Entry
         /\ \A w \in Drainer : /\ \A r \in drain[w].todo : r[1] \in Entry /\ r[1][1] \in Object
                               /\ drain[w].at # "next" => /\ drain[w].entry[1] \in Entry
                                                          /\ drain[w].entry[1][1] \in Object
<1>1. \A e \in Entry : e[1] \in Object
  BY DEF Entry
<1>2. \A k \in Object, n \in 1 .. MaxEntries : <<k, n>> \in Entry
  BY DEF Entry
<1>3. \A r \in Read : r[1] \in Entry
  BY DEF Read
<1>4. ASSUME NEW w \in Drainer
      PROVE  drain[w].todo \subseteq Read /\ (drain[w].at # "next" => drain[w].entry \in Read)
  BY DEF Typed, TypeOK, DrainLocals, Attempts
<1>5. QED
  BY <1>1, <1>2, <1>3, <1>4

LEMMA KeepsEntries ==
  ASSUME Typed, Entries, Ages, \A k \in Object : blob[k] = Gone => blob'[k] = Gone,
         queue' = queue, drain' = drain
  PROVE  Entries'
<1>1. \A e \in Entry : /\ queue'[e].state # "none" => row'[e[1]].state = "gone"
                       /\ queue'[e].state = "gone" => blob'[e[1]] = Gone
  BY EntryKeys DEF Entries, Ages
<1>2. ASSUME NEW w \in Drainer
      PROVE  /\ \A r \in drain[w].todo : row'[r[1][1]].state = "gone"
             /\ drain[w].at # "next" => row'[drain[w].entry[1][1]].state = "gone"
             /\ drain[w].at = "forget" => blob'[drain[w].entry[1][1]] = Gone
  BY EntryKeys DEF Entries, Ages
<1>3. QED
  BY <1>1, <1>2 DEF Entries

\* A row that goes goes with an entry of the queue, in one transaction.
LEMMA DropKeeps ==
  ASSUME Typed, Kept, NEW k \in Object, row[k].state # "none", Enqueue(k), DropRow(k),
         blob' = blob, drain' = drain, move' = move,
         night'.doing = "reconcile" => night.doing = "reconcile"
  PROVE  Ages /\ Entries' /\ Rows' /\ OnItsWay' /\ Accounted'
<1> USE DEF Typed
<1>1. /\ row'[k].state = (IF Here(k) THEN "gone" ELSE row[k].state)
      /\ row'[k].session = (IF Here(k) THEN "none" ELSE row[k].session)
      /\ \A j \in Object \ {k} : row'[j] = row[j]
  BY Dropped
<1>2. /\ \A e \in Entry : \/ queue'[e] = queue[e]
                          \/ e[1] = k /\ queue[e].state = "none" /\ queue'[e].state = "here"
      /\ Free(k) # {} => Queued(k)'
  BY Enqueued
<1>3. row'[k].state = "gone"
  BY <1>1 DEF Here, TypeOK, ObjectRow
<1>4. Ages
  BY <1>1, <1>3 DEF Ages
<1>5. Entries'
  <2>1. ASSUME NEW e \in Entry
        PROVE  /\ queue'[e].state # "none" => row'[e[1]].state = "gone"
               /\ queue'[e].state = "gone" => blob'[e[1]] = Gone
    <3>1. e[1] \in Object
      BY EntryKeys
    <3>2. CASE queue'[e] = queue[e]
      BY <1>4, <3>1, <3>2 DEF Kept, Entries, Ages
    <3>3. CASE e[1] = k /\ queue'[e].state = "here"
      BY <1>3, <3>3
    <3>4. QED
      BY <1>2, <3>2, <3>3
  <2>2. ASSUME NEW w \in Drainer
        PROVE  /\ \A r \in drain[w].todo : row'[r[1][1]].state = "gone"
               /\ drain[w].at # "next" => row'[drain[w].entry[1][1]].state = "gone"
               /\ drain[w].at = "forget" => blob'[drain[w].entry[1][1]] = Gone
    BY <1>4, EntryKeys DEF Kept, Entries, Ages
  <2>3. QED
    BY <2>1, <2>2 DEF Entries
<1>6. Rows'
  BY <1>1, <1>3 DEF Kept, Rows, Here, Stored
<1>7. OnItsWay'
  <2>1. move.at \in {"record", "point"} => move.object \in Object
    BY DEF Shaped
  <2>2. QED
    BY <1>1, <1>4, <2>1 DEF Kept, OnItsWay, Ages
<1>8. Accounted'
  <2>1. ASSUME NEW j \in Object, Queued(j) PROVE Queued(j)'
    <3>1. PICK n \in 1 .. MaxEntries : queue[<<j, n>>].state = "here"
      BY <2>1 DEF Queued, Waiting
    <3>2. queue'[<<j, n>>].state = "here"
      BY <1>2, <3>1, EntryKeys
    <3>3. QED
      BY <3>2 DEF Queued, Waiting
  <2>2. Here(k) => Queued(k)'
    <3>1. SUFFICES ASSUME Here(k) PROVE Free(k) # {}
      BY <1>2
    <3>2. queue[<<k, 1>>].state = "none"
      BY <3>1, EntryKeys, ObjectsAssumption DEF Kept, Entries, Here
    <3>3. QED
      BY <3>2, ObjectsAssumption DEF Free
  <2>3. ASSUME NEW j \in Object, Stored(j)'
        PROVE  Here(j)' \/ Queued(j)' \/ (move'.at = "record" /\ move'.object = j)
    <3>1. Stored(j)
      BY <2>3 DEF Stored
    <3>2. CASE j = k
      <4>1. ~(move.at = "record" /\ move.object = k)
        BY DEF Kept, OnItsWay
      <4>2. QED
        BY <2>1, <2>2, <3>1, <3>2, <4>1 DEF Kept, Accounted
    <3>3. CASE j # k
      BY <1>1, <2>1, <3>1, <3>3 DEF Kept, Accounted, Here
    <3>4. QED
      BY <3>2, <3>3
  <2>4. QED
    BY <2>3 DEF Accounted
<1>9. QED
  BY <1>4, <1>5, <1>6, <1>7, <1>8

\* A step that leaves the storage, the rows, the queue, the drains and the migration.
LEMMA StorageKept ==
  ASSUME Typed, Kept, UNCHANGED <<blob, row, queue, drain, move>>,
         night'.doing = "reconcile" => night.doing = "reconcile",
         \A k \in Object : Named(k)' => Named(k) \/ row[k].state # "none"
  PROVE  Kept'
<1>1. Ages
  BY DEF Ages
<1>2. Minted'
  BY <1>1, KeepsMinted DEF Kept
<1>3. Rows' /\ OnItsWay' /\ Accounted' /\ Entries'
  BY DEF Kept, Rows, OnItsWay, Accounted, Entries, Stored, Here, Queued, Waiting
<1>4. QED
  BY <1>2, <1>3 DEF Kept

\* What a request names when it moves on.
LEMMA NamesKept ==
  ASSUME Typed, NEW h \in Handler, doc' = doc, night' = night,
         handler'[h].prev = handler[h].prev \/ handler'[h].prev = None,
         handler'[h].new = handler[h].new \/ handler'[h].new = None,
         \A g \in Handler \ {h} : handler'[g] = handler[g]
  PROVE  \A k \in Object : Named(k)' => Named(k)
  BY ObjectsAssumption DEF Named

\* What the steps that rewrite a row make of it.
LEMMA Rewritten ==
  ASSUME TypeOK, NEW k \in Object, NEW r \in ObjectRow, row' = [row EXCEPT ![k] = r]
  PROVE  row'[k] = r /\ \A j \in Object \ {k} : row'[j] = row[j]
  BY DEF TypeOK

LEMMA RowFields ==
  ASSUME TypeOK, NEW k \in Object
  PROVE  /\ \A sound \in BOOLEAN :
              LET r == [row[k] EXCEPT !.session = "complete", !.sound = sound] IN
              /\ r.state = row[k].state /\ r.course = row[k].course /\ r.created = row[k].created
              /\ r.committed = row[k].committed /\ r.session = "complete" /\ r.sound = sound
         /\ \A yes \in BOOLEAN :
              LET r == [row[k] EXCEPT !.committed = yes] IN
              /\ r.state = row[k].state /\ r.course = row[k].course /\ r.created = row[k].created
              /\ r.committed = yes /\ r.session = row[k].session /\ r.sound = row[k].sound
         /\ LET r == [row[k] EXCEPT !.committed = TRUE, !.session = "none"] IN
              /\ r.state = row[k].state /\ r.course = row[k].course /\ r.created = row[k].created
              /\ r.committed = TRUE /\ r.session = "none" /\ r.sound = row[k].sound
         /\ \A d \in Doc \cup {None} :
              LET r == [row[k] EXCEPT !.course = d] IN
              /\ r.state = row[k].state /\ r.course = d /\ r.created = row[k].created
              /\ r.committed = row[k].committed /\ r.session = row[k].session
              /\ r.sound = row[k].sound
<1>1. row[k] \in ObjectRow
  BY DEF TypeOK
<1>2. QED
  BY <1>1 DEF ObjectRow

LEMMA GatewayRow ==
  ASSUME TypeOK, NEW k \in Object, NEW sound \in BOOLEAN, PutThroughGateway(k, sound)
  PROVE  /\ row'[k].state = row[k].state /\ row'[k].course = row[k].course
         /\ row'[k].created = row[k].created /\ row'[k].committed = row[k].committed
         /\ row'[k].session = "complete" /\ row'[k].sound = sound
         /\ \A j \in Object \ {k} : row'[j] = row[j]
<1>1. row' = [row EXCEPT ![k] = [row[k] EXCEPT !.session = "complete", !.sound = sound]]
  BY DEF PutThroughGateway, TypeOK
<1>2. [row[k] EXCEPT !.session = "complete", !.sound = sound] \in ObjectRow
  BY RowTyped
<1>3. row'[k] = [row[k] EXCEPT !.session = "complete", !.sound = sound]
      /\ \A j \in Object \ {k} : row'[j] = row[j]
  BY <1>1, <1>2, Rewritten
<1>4. QED
  BY <1>3, RowFields

\* A commit that succeeds, and the pointing of a row at its document.
LEMMA RequestRow ==
  ASSUME Typed, NEW h \in Handler, NEW k, k = handler[h].new,
         CommitS3(h) \/ Claim(h) \/ (CommitGdriveUpload(h) /\ row[k].sound)
  PROVE  /\ k \in Object /\ row'[k].state = row[k].state
         /\ row'[k].created = row[k].created /\ row'[k].sound = row[k].sound
         /\ row'[k].session = (IF CommitGdriveUpload(h) THEN "none" ELSE row[k].session)
         /\ row'[k].course = (IF Claim(h) THEN handler[h].doc ELSE row[k].course)
         /\ row'[k].committed = IF Claim(h) THEN row[k].committed
                                ELSE IF CommitGdriveUpload(h) THEN TRUE
                                ELSE row[k].committed \/ Stored(k)
         /\ \A j \in Object \ {k} : row'[j] = row[j]
<1> USE DEF Typed
<1>1. k \in Object
  BY DEF CommitS3, CommitGdriveUpload, Claim, At, Shaped
<1>2. CASE CommitS3(h)
  <2>1. (row[k].committed \/ Stored(k)) \in BOOLEAN
    BY <1>1 DEF Stored, TypeOK, ObjectRow
  <2>2. row' = [row EXCEPT ![k] = [row[k] EXCEPT !.committed = row[k].committed \/ Stored(k)]]
    BY <1>1, <1>2 DEF CommitS3, TypeOK
  <2>3. row'[k] = [row[k] EXCEPT !.committed = row[k].committed \/ Stored(k)]
        /\ \A j \in Object \ {k} : row'[j] = row[j]
    BY <1>1, <2>1, <2>2, RowTyped, Rewritten
  <2>4. ~Claim(h) /\ ~CommitGdriveUpload(h)
    BY <1>2 DEF CommitS3, Claim, CommitGdriveUpload, At
  <2>5. QED
    BY <1>1, <2>1, <2>3, <2>4, RowFields
<1>3. CASE Claim(h)
  <2>1. handler[h].doc \in Doc \cup {None}
    BY DEF TypeOK, Locals
  <2>2. row' = [row EXCEPT ![k] = [row[k] EXCEPT !.course = handler[h].doc]]
    BY <1>1, <1>3 DEF Claim, TypeOK
  <2>3. row'[k] = [row[k] EXCEPT !.course = handler[h].doc]
        /\ \A j \in Object \ {k} : row'[j] = row[j]
    BY <1>1, <2>1, <2>2, RowTyped, Rewritten
  <2>4. ~CommitGdriveUpload(h)
    BY <1>3 DEF Claim, CommitGdriveUpload, At
  <2>5. QED
    BY <1>1, <1>3, <2>1, <2>3, <2>4, RowFields
<1>4. CASE CommitGdriveUpload(h) /\ row[k].sound
  <2>1. row' = [row EXCEPT ![k] = [row[k] EXCEPT !.committed = TRUE, !.session = "none"]]
    BY <1>1, <1>4 DEF CommitGdriveUpload, TypeOK
  <2>2. row'[k] = [row[k] EXCEPT !.committed = TRUE, !.session = "none"]
        /\ \A j \in Object \ {k} : row'[j] = row[j]
    BY <1>1, <2>1, RowTyped, Rewritten
  <2>3. ~Claim(h)
    BY <1>4 DEF Claim, CommitGdriveUpload, At
  <2> DEFINE r == [row[k] EXCEPT !.committed = TRUE, !.session = "none"]
  <2>4. /\ r.state = row[k].state /\ r.course = row[k].course /\ r.created = row[k].created
        /\ r.committed = TRUE /\ r.session = "none" /\ r.sound = row[k].sound
    BY <1>1, RowFields
  <2>5. row'[k] = r
    BY <2>2
  <2> HIDE DEF r
  <2>6. QED
    BY <1>1, <1>4, <2>2, <2>3, <2>4, <2>5
<1>5. QED
  BY <1>2, <1>3, <1>4

LEMMA UploadKept ==
  ASSUME Typed, Kept, NEW k \in Object,
         \/ UploadUrl(k) \/ BeginGdriveUpload(k) \/ PutPresigned(k)
         \/ \E sound \in BOOLEAN : PutThroughGateway(k, sound)
  PROVE  Kept'
<1> USE DEF Typed
<1>1. ASSUME NEW session \in {"none", "open"}, NewUpload(k, session) PROVE Kept'
  <2>1. /\ row[k].state = "none" /\ row'[k].state = "here" /\ move.object # k
        /\ \A j \in Object \ {k} : row'[j] = row[j]
        /\ UNCHANGED <<blob, queue, drain, move, doc, handler, night>>
    BY <1>1 DEF NewUpload, TypeOK, NoRow
  <2>2. Ages
    BY <2>1 DEF Ages
  <2>3. Entries'
    BY <2>1, <2>2, KeepsEntries DEF Kept
  <2>4. Rows'
    BY <2>1 DEF Kept, Rows, Here, Stored
  <2>5. Minted'
    BY <2>1, <2>2, KeepsMinted DEF Kept, Named
  <2>6. OnItsWay'
    BY <2>1, <2>2 DEF Kept, OnItsWay, Ages, Shaped
  <2>7. Accounted'
    BY <2>1 DEF Kept, Accounted, Here, Stored, Queued, Waiting
  <2>8. QED
    BY <2>3, <2>4, <2>5, <2>6, <2>7 DEF Kept
<1>2. CASE PutPresigned(k) \/ \E sound \in BOOLEAN : PutThroughGateway(k, sound)
  <2>1. /\ Here(k) /\ blob[k] = None /\ blob' = [blob EXCEPT ![k] = k]
        /\ UNCHANGED <<queue, drain, move, doc, handler, night>>
    BY <1>2 DEF PutPresigned, PutThroughGateway, Kept, Rows
  <2>2. /\ row'[k].state = row[k].state
        /\ \A j \in Object \ {k} : row'[j] = row[j]
    BY <1>2, GatewayRow DEF PutPresigned
  <2>3. blob'[k] = k /\ \A j \in Object \ {k} : blob'[j] = blob[j]
    BY <2>1 DEF TypeOK
  <2>4. Ages
    BY <2>2 DEF Ages
  <2>5. k # Gone /\ None # Gone
    BY ObjectsAssumption DEF Gone
  <2>6. Entries'
    BY <2>1, <2>3, <2>4, <2>5, KeepsEntries DEF Kept
  <2>7. Rows'
    BY <2>1, <2>2, <2>3, <2>5 DEF Kept, Rows, Here, Stored
  <2>8. Minted'
    BY <2>1, <2>4, KeepsMinted DEF Kept, Named
  <2>9. OnItsWay'
    <3>1. move.at = "record" => move.object # k
      BY <2>1 DEF Kept, OnItsWay, Here
    <3>2. QED
      BY <2>1, <2>2, <2>3, <3>1 DEF Kept, OnItsWay, Shaped
  <2>10. Accounted'
    BY <2>1, <2>2, <2>3 DEF Kept, Accounted, Here, Stored, Queued, Waiting
  <2>11. QED
    BY <2>6, <2>7, <2>8, <2>9, <2>10 DEF Kept
<1>3. QED
  BY <1>1, <1>2 DEF UploadUrl, BeginGdriveUpload

LEMMA CommitKept ==
  ASSUME Typed, Kept, NEW h \in Handler,
         CommitS3(h) \/ CommitGdriveUpload(h) \/ Fail(h) \/ Claim(h)
  PROVE  Kept'
<1> USE DEF Typed
<1> DEFINE k == handler[h].new
<1>1. \A j \in Object : Named(j)' => Named(j)
  <2>1. handler'[h] = Rest /\ \A g \in Handler \ {h} : handler'[g] = handler[g]
    BY Rests DEF CommitS3, CommitGdriveUpload, Fail, Claim
  <2>2. doc' = doc /\ night' = night
    BY DEF CommitS3, CommitGdriveUpload, Fail, Claim
  <2>3. QED
    BY <2>1, <2>2, NamesKept DEF Rest
<1>2. CASE Fail(h)
  BY <1>1, <1>2, StorageKept DEF Fail
<1>3. CASE CommitS3(h) \/ Claim(h) \/ (CommitGdriveUpload(h) /\ row[k].sound)
  <2>1. k \in Object
    BY <1>3 DEF CommitS3, CommitGdriveUpload, Claim, At, Shaped
  <2>2. /\ row'[k].state = row[k].state
        /\ row'[k].session = row[k].session \/ row'[k].session = "none"
        /\ \A j \in Object \ {k} : row'[j] = row[j]
    BY <1>3, <2>1, RequestRow
  <2>3. UNCHANGED <<blob, queue, drain, move, night>>
    BY <1>3 DEF CommitS3, CommitGdriveUpload, Claim
  <2>4. Ages
    BY <2>2 DEF Ages
  <2>5. Entries'
    BY <2>3, <2>4, KeepsEntries DEF Kept
  <2>6. Rows' /\ Accounted'
    BY <2>2, <2>3 DEF Kept, Rows, Accounted, Here, Stored, Queued, Waiting
  <2>7. Minted'
    BY <1>1, <2>4, KeepsMinted DEF Kept
  <2>8. OnItsWay'
    BY <2>2, <2>3 DEF Kept, OnItsWay, Shaped
  <2>9. QED
    BY <2>5, <2>6, <2>7, <2>8 DEF Kept
<1>4. CASE CommitGdriveUpload(h) /\ ~row[k].sound
  <2>1. k \in Object /\ Here(k)
    BY <1>4 DEF CommitGdriveUpload, At, Shaped
  <2>2. Enqueue(k) /\ DropRow(k) /\ UNCHANGED <<blob, drain, move, night>>
    BY <1>4 DEF CommitGdriveUpload
  <2>3. Ages /\ Entries' /\ Rows' /\ OnItsWay' /\ Accounted'
    BY <2>1, <2>2, DropKeeps DEF Here
  <2>4. Minted'
    BY <1>1, <2>3, KeepsMinted DEF Kept
  <2>5. QED
    BY <2>3, <2>4 DEF Kept
<1>5. QED
  BY <1>2, <1>3, <1>4

LEMMA ReleaseKeeps ==
  ASSUME Typed, Kept, NEW r \in Ref, Release(r), r \in Object => row[r].state # "none",
         blob' = blob, drain' = drain, move' = move, night' = night
  PROVE  Ages /\ Entries' /\ Rows' /\ OnItsWay' /\ Accounted'
<1>1. CASE r \in Object
  BY <1>1, Released, DropKeeps DEF Typed
<1>2. CASE r \notin Object
  <2>1. row' = row /\ queue' = queue
    BY <1>2, Released DEF Typed, Ref, Content
  <2>2. Ages
    BY <2>1 DEF Ages
  <2>3. QED
    BY <2>1, <2>2 DEF Kept, Entries, Rows, OnItsWay, Accounted, Stored, Here, Queued, Waiting
<1>3. QED
  BY <1>1, <1>2

LEMMA DocumentKept ==
  ASSUME Typed, Kept, NEW h \in Handler,
         \/ Make(h) \/ WriteEdition(h) \/ ReleasePrevious(h) \/ DeleteCommit(h) \/ Request(h)
         \/ \E k \in Object : BeginCommit(h, k)
  PROVE  Kept'
<1> USE DEF Typed
<1> DEFINE l == handler[h]
<1>1. l.prev \in Ref /\ l.new \in Ref
  BY DEF TypeOK, Locals
<1>2. \A k \in Object : l.prev = k \/ l.new = k => row[k].state # "none"
  BY DEF Kept, Minted, Named
<1>3. ASSUME NEW pc \in Pc, Step(h, pc)
      PROVE  /\ handler'[h].prev = l.prev /\ handler'[h].new = l.new
             /\ \A g \in Handler \ {h} : handler'[g] = handler[g]
  BY <1>3, StepsOn
<1>4. CASE Make(h) \/ WriteEdition(h)
  <2>1. PICK pc \in Pc : Step(h, pc)
    BY <1>4 DEF Make, WriteEdition, Pc
  <2>2. \A d \in Doc : doc'[d].ref = doc[d].ref \/ doc'[d].ref = l.new
    <3>1. CASE Make(h)
      BY <3>1 DEF Make, TypeOK
    <3>2. CASE WriteEdition(h)
      BY <3>2 DEF WriteEdition, TypeOK
    <3>3. QED
      BY <1>4, <3>1, <3>2
  <2>3. UNCHANGED <<blob, row, queue, drain, move, night>>
    BY <1>4 DEF Make, WriteEdition
  <2>4. \A k \in Object : Named(k)' => Named(k) \/ row[k].state # "none"
    BY <1>2, <1>3, <2>1, <2>2, <2>3 DEF Named
  <2>5. QED
    BY <2>3, <2>4, StorageKept
<1>5. CASE ReleasePrevious(h) \/ DeleteCommit(h)
  <2>1. Release(l.prev) /\ UNCHANGED <<blob, drain, move, night>>
    BY <1>5 DEF ReleasePrevious, DeleteCommit
  <2>2. Ages /\ Entries' /\ Rows' /\ OnItsWay' /\ Accounted'
    BY <1>1, <1>2, <2>1, ReleaseKeeps
  <2>3. /\ handler'[h].prev = l.prev \/ handler'[h].prev = None
        /\ handler'[h].new = l.new \/ handler'[h].new = None
        /\ \A g \in Handler \ {h} : handler'[g] = handler[g]
    <3>1. Done(h) \/ Step(h, "claim")
      BY <1>5 DEF ReleasePrevious, DeleteCommit
    <3>2. QED
      BY <1>3, <3>1, Rests DEF Rest, Pc
  <2>4. \A d \in Doc : doc'[d].ref = doc[d].ref \/ doc'[d].ref = None
    BY <1>5 DEF ReleasePrevious, DeleteCommit, TypeOK
  <2>5. \A k \in Object : Named(k)' => Named(k)
    BY <2>1, <2>3, <2>4, ObjectsAssumption DEF Named
  <2>6. Minted'
    BY <2>2, <2>5, KeepsMinted DEF Kept
  <2>7. QED
    BY <2>2, <2>6 DEF Kept
<1>6. ASSUME NEW m \in Locals, Goto(h, m), UNCHANGED <<blob, row, queue, doc, drain, night, move>>,
             \A k \in Object : m.prev = k \/ m.new = k => Named(k) \/ row[k].state # "none"
      PROVE  Kept'
  <2>1. handler'[h] = m /\ \A g \in Handler \ {h} : handler'[g] = handler[g]
    BY <1>6, Moves
  <2>2. \A k \in Object : Named(k)' => Named(k) \/ row[k].state # "none"
    BY <1>6, <2>1 DEF Named
  <2>3. QED
    BY <1>6, <2>2, StorageKept
<1>7. ASSUME NEW d \in Doc, NEW k \in Object, CreateCourse(h, d, k) PROVE Kept'
  <2> DEFINE m == [pc |-> "make", doc |-> d, prev |-> None, new |-> k]
  <2>1. m \in Locals /\ m.prev = None /\ m.new = k
    BY DEF Locals, Pc, Ref, Content
  <2>2. Goto(h, m)
    BY <1>7 DEF CreateCourse
  <2> HIDE DEF m
  <2>3. QED
    BY <1>6, <1>7, <2>1, <2>2, ObjectsAssumption DEF CreateCourse, Here
<1>8. ASSUME NEW d \in Doc, NEW new \in Ref, PublishEdition(h, d, new) PROVE Kept'
  <2> DEFINE m == [pc |-> "write", doc |-> d, prev |-> doc[d].ref, new |-> new]
  <2>1. m \in Locals /\ m.prev = doc[d].ref /\ m.new = new
    BY DEF Locals, Pc, TypeOK
  <2>2. Goto(h, m)
    BY <1>8 DEF PublishEdition
  <2> HIDE DEF m
  <2>3. QED
    BY <1>6, <1>8, <2>1, <2>2 DEF PublishEdition, Here, Named
<1>9. ASSUME NEW d \in Doc, DeleteCourse(h, d) PROVE Kept'
  <2> DEFINE m == [pc |-> "delete", doc |-> d, prev |-> doc[d].ref, new |-> None]
  <2>1. m \in Locals /\ m.prev = doc[d].ref /\ m.new = None
    BY DEF Locals, Pc, TypeOK, Ref
  <2>2. Goto(h, m)
    BY <1>9 DEF DeleteCourse
  <2> HIDE DEF m
  <2>3. QED
    BY <1>6, <1>9, <2>1, <2>2, ObjectsAssumption DEF DeleteCourse, Named
<1>10. ASSUME NEW k \in Object, BeginCommit(h, k) PROVE Kept'
  <2> DEFINE m == [Rest EXCEPT !.pc = "confirm", !.new = k]
  <2>1. m \in Locals /\ m.new = k /\ m.prev = None
    BY DEF Rest, Locals, Pc, Ref, Content
  <2>2. Goto(h, m)
    BY <1>10 DEF BeginCommit
  <2> HIDE DEF m
  <2>3. QED
    BY <1>6, <1>10, <2>1, <2>2, ObjectsAssumption DEF BeginCommit, Here
<1>11. QED
  BY <1>4, <1>5, <1>7, <1>8, <1>9, <1>10 DEF Request

LEMMA CreateInlineKept ==
  ASSUME Typed, Kept, NEW d \in Doc, NEW f \in File, CreateInline(d, f)
  PROVE  Kept'
<1>1. \A c \in Doc : doc'[c].ref = doc[c].ref \/ doc'[c].ref = f
  BY DEF CreateInline, Typed, TypeOK
<1>2. UNCHANGED <<blob, row, queue, drain, move, handler, night>>
  BY DEF CreateInline
<1>3. f \notin Object
  BY FilesAreNoObjects
<1>4. \A k \in Object : Named(k)' => Named(k)
  BY <1>1, <1>2, <1>3 DEF Named
<1>5. QED
  BY <1>2, <1>4, StorageKept

LEMMA DrainKept ==
  ASSUME Typed, Kept, NEW w \in Drainer, StartDrain(w) \/ Draining(w) \/ DrainDies(w)
  PROVE  Kept'
<1> USE DEF Typed
<1>1. UNCHANGED <<row, doc, handler, night, move>>
  BY DEF StartDrain, Draining, RemoteDelete, Forget, NoteFailure, DrainDies
<1>2. Ages /\ Minted'
  BY <1>1 DEF Ages, Kept, Minted, Named
<1>3. ASSUME blob' = blob, NEW T, drain'[w].todo = T, drain'[w].at = "next",
             \A r \in T : row[r[1][1]].state = "gone",
             \A v \in Drainer \ {w} : drain'[v] = drain[v],
             \A e \in Entry : /\ queue'[e].state # "none" => queue[e].state # "none"
                              /\ queue'[e].state = "gone" => blob[e[1]] = Gone
                              /\ Waiting(e) => Waiting(e)' \/ blob[e[1]] = Gone
      PROVE  Kept'
  <2>1. Rows' /\ OnItsWay'
    BY <1>1, <1>3 DEF Kept, Rows, OnItsWay, Here, Stored
  <2>2. Entries'
    <3>1. \A e \in Entry : /\ queue'[e].state # "none" => row'[e[1]].state = "gone"
                           /\ queue'[e].state = "gone" => blob'[e[1]] = Gone
      BY <1>1, <1>3 DEF Kept, Entries
    <3>2. ASSUME NEW v \in Drainer
          PROVE  /\ \A r \in drain'[v].todo : row'[r[1][1]].state = "gone"
                 /\ drain'[v].at # "next" => row'[drain'[v].entry[1][1]].state = "gone"
                 /\ drain'[v].at = "forget" => blob'[drain'[v].entry[1][1]] = Gone
      <4>1. CASE v = w
        BY <1>1, <1>3, <4>1
      <4>2. CASE v # w
        BY <1>1, <1>3, <4>2 DEF Kept, Entries
      <4>3. QED
        BY <4>1, <4>2
    <3>3. QED
      BY <3>1, <3>2 DEF Entries
  <2>3. Accounted'
    <3>1. ASSUME NEW k \in Object, Stored(k)', Queued(k) PROVE Queued(k)'
      <4>1. PICK n \in 1 .. MaxEntries : Waiting(<<k, n>>)
        BY <3>1 DEF Queued
      <4>2. blob[k] # Gone
        BY <1>3, <3>1, ObjectsAssumption DEF Stored, Content, Gone
      <4>3. Waiting(<<k, n>>)'
        BY <1>3, <4>1, <4>2, EntryKeys
      <4>4. QED
        BY <4>3 DEF Queued
    <3>2. QED
      BY <1>1, <1>3, <3>1 DEF Kept, Accounted, Stored, Here
  <2>4. QED
    BY <1>2, <2>1, <2>2, <2>3 DEF Kept
<1>4. CASE StartDrain(w)
  <2> DEFINE T == {<<e, queue[e].attempts>> : e \in {e \in Entry : Due(e)}}
             l == [NoDrain EXCEPT !.todo = T]
  <2>1. l.todo = T /\ l.at = "next"
    BY DEF NoDrain
  <2>2. drain' = [drain EXCEPT ![w] = l]
    BY <1>4 DEF StartDrain, Drains
  <2>3. \A r \in T : row[r[1][1]].state = "gone"
    <3>1. \A e \in Entry : Due(e) => row[e[1]].state = "gone"
      BY DEF Kept, Entries, Due, Waiting
    <3>2. QED
      BY <3>1
  <2> HIDE DEF l, T
  <2>4. /\ drain'[w] = l /\ \A v \in Drainer \ {w} : drain'[v] = drain[v]
    BY <2>2 DEF TypeOK
  <2>5. blob' = blob /\ queue' = queue
    BY <1>4 DEF StartDrain
  <2>6. \A e \in Entry : queue[e].state = "gone" => blob[e[1]] = Gone
    BY DEF Kept, Entries
  <2>7. QED
    BY <1>3, <2>1, <2>3, <2>4, <2>5, <2>6 DEF Waiting
<1>5. ASSUME NEW r \in drain[w].todo, RemoteDelete(w, r) PROVE Kept'
  <2> DEFINE k == r[1][1]
  <2>1. k \in Object /\ row[k].state = "gone"
    BY EntryKeys DEF Kept, Entries
  <2>2. PICK at \in {"forget", "note"} :
          /\ Drains(w, [todo |-> drain[w].todo \ {r}, at |-> at, entry |-> r])
          /\ \/ at = "forget" /\ blob' = [blob EXCEPT ![k] = Gone]
             \/ at = "note" /\ blob' = blob
    BY <1>5 DEF RemoteDelete
  <2>3. queue' = queue
    BY <1>5 DEF RemoteDelete
  <2>4. /\ drain'[w].todo = drain[w].todo \ {r} /\ drain'[w].at = at /\ drain'[w].entry = r
        /\ \A v \in Drainer \ {w} : drain'[v] = drain[v]
    BY <2>2 DEF Drains, TypeOK
  <2> HIDE DEF k
  <2>5. /\ blob'[k] = Gone \/ blob'[k] = blob[k]
        /\ at = "forget" => blob'[k] = Gone
        /\ \A j \in Object \ {k} : blob'[j] = blob[j]
    BY <2>1, <2>2 DEF TypeOK
  <2>6. Gone \notin Content
    BY ObjectsAssumption DEF Gone, Content
  <2>7. Entries'
    <3>1. \A e \in Entry : /\ queue'[e].state # "none" => row'[e[1]].state = "gone"
                           /\ queue'[e].state = "gone" => blob'[e[1]] = Gone
      BY <1>1, <2>3, <2>5, EntryKeys DEF Kept, Entries
    <3>2. ASSUME NEW v \in Drainer
          PROVE  /\ \A q \in drain'[v].todo : row'[q[1][1]].state = "gone"
                 /\ drain'[v].at # "next" => row'[drain'[v].entry[1][1]].state = "gone"
                 /\ drain'[v].at = "forget" => blob'[drain'[v].entry[1][1]] = Gone
      <4>1. CASE v = w
        BY <1>1, <2>1, <2>4, <2>5, <4>1 DEF Kept, Entries, k
      <4>2. CASE v # w
        <5>1. drain'[v] = drain[v]
          BY <2>4, <4>2
        <5>2. drain[v].at # "next" => drain[v].entry[1][1] \in Object
          BY EntryKeys
        <5>3. QED
          BY <1>1, <2>5, <5>1, <5>2 DEF Kept, Entries
      <4>3. QED
        BY <4>1, <4>2
    <3>3. QED
      BY <3>1, <3>2 DEF Entries
  <2>8. Rows'
    BY <1>1, <2>1, <2>5, <2>6 DEF Kept, Rows, Here, Stored
  <2>9. OnItsWay'
    BY <1>1, <2>1, <2>5 DEF Kept, OnItsWay, Shaped
  <2>10. Accounted'
    BY <1>1, <2>3, <2>5, <2>6 DEF Kept, Accounted, Here, Stored, Queued, Waiting
  <2>11. QED
    BY <1>2, <2>7, <2>8, <2>9, <2>10 DEF Kept
<1>6. CASE Forget(w) \/ NoteFailure(w) \/ DrainDies(w)
  <2> DEFINE e == drain[w].entry[1]
  <2>1. /\ drain'[w].at = "next" /\ drain'[w].todo \subseteq drain[w].todo
        /\ \A v \in Drainer \ {w} : drain'[v] = drain[v]
    BY <1>6, DrainOn DEF Forget, NoteFailure, DrainDies
  <2>2. drain[w].at # "next"
    BY <1>6 DEF Forget, NoteFailure, DrainDies
  <2>3. e \in Entry
    BY <2>2, EntryKeys
  <2>4. blob' = blob
    BY <1>6 DEF Forget, NoteFailure, DrainDies
  <2>5. \/ queue' = queue
        \/ /\ drain[w].at = "forget" /\ Waiting(e)
           /\ queue' = [queue EXCEPT ![e] = [state |-> "gone", attempts |-> 0]]
        \/ queue' = [queue EXCEPT ![e].attempts = drain[w].entry[2] + 1]
    BY <1>6 DEF Forget, NoteFailure, DrainDies
  <2>6. drain[w].at = "forget" => blob[e[1]] = Gone
    BY DEF Kept, Entries
  <2> HIDE DEF e
  <2>7. /\ \A x \in Entry \ {e} : queue'[x].state = queue[x].state
        /\ \/ queue'[e].state = queue[e].state
           \/ queue'[e].state = "gone" /\ blob[e[1]] = Gone /\ Waiting(e)
    BY <2>3, <2>5, <2>6 DEF TypeOK, EntryRow
  <2>8. \A x \in Entry : /\ queue'[x].state # "none" => queue[x].state # "none"
                         /\ queue'[x].state = "gone" => blob[x[1]] = Gone
                         /\ Waiting(x) => Waiting(x)' \/ blob[x[1]] = Gone
    <3>1. ASSUME NEW x \in Entry, x # e
          PROVE  queue'[x].state = queue[x].state
      BY <2>7, <3>1
    <3>2. \A x \in Entry : queue[x].state = "gone" => blob[x[1]] = Gone
      BY DEF Kept, Entries
    <3>3. QED
      BY <2>7, <3>1, <3>2 DEF Waiting
  <2>9. \A r \in drain'[w].todo : row[r[1][1]].state = "gone"
    BY <2>1 DEF Kept, Entries
  <2>10. QED
    BY <1>3, <2>1, <2>4, <2>8, <2>9
<1>7. QED
  BY <1>4, <1>5, <1>6 DEF Draining

LEMMA NightKept ==
  ASSUME Typed, Kept, "overlap" \notin Offered,
         \/ ListOrphans \/ Collecting \/ NightDies \/ ListDrive
         \/ \E k \in Object : ReconcileFile(k)
  PROVE  Kept'
<1> USE DEF Typed
<1>1. UNCHANGED <<blob, doc, handler, drain, move>>
  BY DEF ListOrphans, Collecting, CollectOrphan, NightDies, ListDrive, ReconcileFile
<1>2. NightDone => night'.todo = {} /\ night'.doing = "rest"
  BY DEF NightDone, TypeOK
<1>3. ASSUME NEW k, NightNext(k)
      PROVE  night'.todo \subseteq night.todo /\ night'.doing \in {"rest", night.doing}
  BY <1>2, <1>3 DEF NightNext, TypeOK
<1>4. CASE ListOrphans \/ NightDies
  <2>1. night'.doing # "reconcile" /\ \A k \in night'.todo : k \in Object /\ Here(k)
    <3>1. CASE NightDies
      BY <1>2, <3>1 DEF NightDies
    <3>2. CASE ListOrphans
      <4>1. /\ night'.doing = "collect"
            /\ night'.todo = {k \in Object : Abandoned(k) \/ Orphaned(k)}
        BY <3>2 DEF ListOrphans, TypeOK
      <4>2. QED
        BY <4>1 DEF Abandoned, Orphaned
    <3>3. QED
      BY <1>4, <3>1, <3>2
  <2>2. \A k \in Object : Named(k)' => Named(k) \/ row[k].state # "none"
    BY <1>1, <2>1 DEF Named, Here
  <2>3. row' = row /\ queue' = queue
    BY <1>4 DEF ListOrphans, NightDies
  <2>4. QED
    BY <1>1, <2>1, <2>2, <2>3, StorageKept
<1>5. CASE ListDrive
  <2>1. move = NoMove /\ night'.todo = {k \in Object : Stored(k)}
    BY <1>5 DEF ListDrive, TypeOK
  <2>2. \A k \in Object : Stored(k) => row[k].state # "none"
    BY <2>1 DEF Kept, Rows, NoMove
  <2>3. \A k \in Object : Named(k)' => Named(k) \/ row[k].state # "none"
    BY <1>1, <2>1, <2>2 DEF Named
  <2>4. row' = row /\ queue' = queue
    BY <1>5 DEF ListDrive
  <2>5. Ages
    BY <2>4 DEF Ages
  <2>6. Minted'
    BY <2>3, <2>5, KeepsMinted DEF Kept
  <2>7. OnItsWay'
    BY <1>1, <2>1, <2>4 DEF Kept, OnItsWay
  <2>8. Entries' /\ Rows' /\ Accounted'
    BY <1>1, <2>4 DEF Kept, Entries, Rows, Accounted, Stored, Here, Queued, Waiting
  <2>9. QED
    BY <2>6, <2>7, <2>8 DEF Kept
<1>6. ASSUME NEW k \in Object, CollectOrphan(k), Here(k) PROVE Kept'
  <2>1. Enqueue(k) /\ DropRow(k) /\ NightNext(k)
    BY <1>6 DEF CollectOrphan
  <2>2. Ages /\ Entries' /\ Rows' /\ OnItsWay' /\ Accounted'
    BY <1>1, <1>3, <1>6, <2>1, DropKeeps DEF Here
  <2>3. \A j \in Object : Named(j)' => Named(j)
    BY <1>1, <1>3, <2>1 DEF Named
  <2>4. Minted'
    BY <2>2, <2>3, KeepsMinted DEF Kept
  <2>5. QED
    BY <2>2, <2>4 DEF Kept
<1>7. ASSUME NEW k \in Object, CollectOrphan(k), ~Here(k) PROVE Kept'
  <2>1. NightDone /\ row' = row /\ queue' = queue
    BY <1>7 DEF CollectOrphan
  <2>2. \A j \in Object : Named(j)' => Named(j)
    BY <1>1, <1>2, <2>1 DEF Named
  <2>3. QED
    BY <1>1, <1>2, <2>1, <2>2, StorageKept
<1>8. ASSUME NEW k \in Object, ReconcileFile(k) PROVE Kept'
  <2>1. \A j \in Object : Named(j)' => Named(j)
    BY <1>1, <1>3, <1>8 DEF Named, ReconcileFile
  <2>2. night.doing = "reconcile" /\ k \in night.todo /\ row' = row
        /\ night'.doing \in {"rest", "reconcile"}
    BY <1>3, <1>8 DEF ReconcileFile
  <2>3. CASE Here(k)
    <3>1. queue' = queue
      BY <1>8, <2>3 DEF ReconcileFile
    <3>2. QED
      BY <1>1, <2>1, <2>2, <3>1, StorageKept
  <2>4. CASE ~Here(k)
    <3>1. Enqueue(k) /\ row[k].state # "none"
      BY <1>8, <2>2, <2>4 DEF ReconcileFile, Kept, Minted, Named
    <3>2. DropRow(k)
      BY <2>2, <2>4 DEF DropRow, TypeOK
    <3>3. Ages /\ Entries' /\ Rows' /\ OnItsWay' /\ Accounted'
      BY <1>1, <2>2, <3>1, <3>2, DropKeeps
    <3>4. Minted'
      BY <2>1, <3>3, KeepsMinted DEF Kept
    <3>5. QED
      BY <3>3, <3>4 DEF Kept
  <2>5. QED
    BY <2>3, <2>4
<1>9. QED
  BY <1>4, <1>5, <1>6, <1>7, <1>8 DEF Collecting

LEMMA MoveKept ==
  ASSUME Typed, Kept, "overlap" \notin Offered, "fail" \notin Offered,
         StartMove \/ Moving \/ MoveDies
  PROVE  Kept'
<1> USE DEF Typed
<1>1. UNCHANGED <<queue, handler, drain, night>>
  BY DEF StartMove, Moving, ReadFile, PutObject, RecordObject, PointDocument, MoveDies
<1>2. ASSUME UNCHANGED <<blob, row>>, move.at # "record", move'.at \notin {"record", "point"},
             night.doing # "reconcile",
             \A k \in Object : Named(k)' => Named(k) \/ row[k].state # "none"
      PROVE  Kept'
  <2>1. Ages
    BY <1>2 DEF Ages
  <2>2. Minted'
    BY <1>2, <2>1, KeepsMinted DEF Kept
  <2>3. Entries' /\ Rows' /\ Accounted' /\ OnItsWay'
    BY <1>1, <1>2 DEF Kept, Entries, Rows, Accounted, OnItsWay, Stored, Here, Queued, Waiting
  <2>4. QED
    BY <2>2, <2>3 DEF Kept
<1>3. night.doing = "reconcile" => move = NoMove
  BY DEF Kept, OnItsWay
<1>4. CASE StartMove
  <2>1. move'.at = "next" /\ move.at = "next"
    BY <1>4 DEF StartMove, NoMove
  <2>2. UNCHANGED <<blob, row, doc>> /\ night.doing # "reconcile"
    BY <1>4 DEF StartMove
  <2>3. QED
    BY <1>1, <1>2, <2>1, <2>2 DEF Named
<1>5. ASSUME NEW d \in Doc, NEW f \in File, ReadFile(d, f) PROVE Kept'
  <2>1. move'.at \in {"next", "put"} /\ move.at = "next" /\ move.todo # {}
    BY <1>5, MoveSteps DEF ReadFile
  <2>2. UNCHANGED <<blob, row, doc>> /\ night.doing # "reconcile"
    BY <1>3, <1>5, <2>1 DEF ReadFile, NoMove
  <2>3. QED
    BY <1>1, <1>2, <2>1, <2>2 DEF Named
<1>6. ASSUME NEW k \in Object, PutObject(k) PROVE Kept'
  <2>1. move.at = "put" /\ UNCHANGED <<row, doc>> /\ night.doing # "reconcile"
    BY <1>3, <1>6 DEF PutObject, NoMove
  <2>2. CASE NextMove /\ blob' = blob
    BY <1>1, <1>2, <2>1, <2>2, MoveOn DEF Named
  <2>3. CASE /\ row[k].state = "none" /\ blob[k] = None
             /\ blob' = [blob EXCEPT ![k] = move.file]
             /\ Move([move EXCEPT !.at = "record", !.object = k])
    <3>1. move'.at = "record" /\ move'.object = k /\ move'.file = move.file
      BY <2>3, MoveSteps
    <3>2. blob'[k] = move.file /\ \A j \in Object \ {k} : blob'[j] = blob[j]
      BY <2>3 DEF TypeOK
    <3>3. move.file \in File /\ move.file # Gone /\ None # Gone
      BY <2>1, ObjectsAssumption DEF Shaped, Gone
    <3>4. Ages
      BY <2>1 DEF Ages
    <3>5. Entries'
      BY <1>1, <2>3, <3>2, <3>3, <3>4, KeepsEntries DEF Kept
    <3>6. Minted'
      BY <1>1, <2>1 DEF Kept, Minted, Named
    <3>7. Rows'
      BY <2>1, <2>3, <3>1, <3>2, <3>3 DEF Kept, Rows, Here, Stored
    <3>8. OnItsWay'
      BY <1>1, <2>1, <2>3, <3>1, <3>2 DEF OnItsWay
    <3>9. Accounted'
      BY <1>1, <2>1, <3>1, <3>2 DEF Kept, Accounted, Here, Stored, Queued, Waiting
    <3>10. QED
      BY <3>5, <3>6, <3>7, <3>8, <3>9 DEF Kept
  <2>4. QED
    BY <1>6, <2>2, <2>3 DEF PutObject
<1>7. CASE RecordObject
  <2> DEFINE k == move.object
             r == [NoRow EXCEPT !.state = "here", !.course = move.doc, !.created = now,
                                !.committed = TRUE]
  <2>1. /\ move.at = "record" /\ k \in Object /\ row[k].state = "none" /\ blob[k] = move.file
        /\ move.file \in File /\ night.doing # "reconcile"
    BY <1>3, <1>7 DEF RecordObject, Shaped, Kept, OnItsWay, NoMove
  <2>2. /\ row' = [row EXCEPT ![k] = r] /\ UNCHANGED <<blob, doc>>
        /\ move'.at = "point" /\ move'.object = k
    BY <1>7, MoveSteps DEF RecordObject
  <2>3. r.state = "here" /\ r.session = "none"
    BY DEF NoRow
  <2> HIDE DEF r
  <2>4. row'[k] = r /\ \A j \in Object \ {k} : row'[j] = row[j]
    BY <2>1, <2>2 DEF TypeOK
  <2>5. Ages
    BY <2>1, <2>3, <2>4 DEF Ages
  <2>6. Entries'
    BY <1>1, <2>2, <2>5, KeepsEntries DEF Kept
  <2>7. Minted'
    BY <1>1, <2>2, <2>5, KeepsMinted DEF Kept, Named
  <2>8. blob[k] # Gone
    BY <2>1, ObjectsAssumption DEF Gone
  <2>9. Rows'
    BY <2>1, <2>2, <2>3, <2>4, <2>8 DEF Kept, Rows, Here, Stored
  <2>10. OnItsWay'
    BY <1>1, <2>1, <2>2, <2>3, <2>4 DEF OnItsWay
  <2>11. Accounted'
    BY <1>1, <2>1, <2>2, <2>3, <2>4 DEF Kept, Accounted, Here, Stored, Queued, Waiting
  <2>12. QED
    BY <2>6, <2>7, <2>9, <2>10, <2>11 DEF Kept
<1>8. CASE PointDocument
  <2>1. move.at = "point" /\ move'.at = "next" /\ UNCHANGED <<blob, row>>
        /\ night.doing # "reconcile"
    BY <1>3, <1>8, MoveOn DEF PointDocument, NoMove
  <2>2. \A d \in Doc : doc'[d].ref = doc[d].ref \/ doc'[d].ref = move.object
    BY <1>8 DEF PointDocument, TypeOK
  <2>3. row[move.object].state # "none"
    BY <2>1 DEF Kept, OnItsWay
  <2>4. \A k \in Object : Named(k)' => Named(k) \/ row[k].state # "none"
    BY <1>1, <2>2, <2>3 DEF Named
  <2>5. QED
    BY <1>2, <2>1, <2>4
<1>9. CASE MoveDies
  <2>1. move.at = "put" /\ move'.at = "next" /\ UNCHANGED <<blob, row, doc>>
        /\ night.doing # "reconcile"
    BY <1>3, <1>9 DEF MoveDies, NoMove
  <2>2. QED
    BY <1>1, <1>2, <2>1 DEF Named
<1>10. QED
  BY <1>4, <1>5, <1>6, <1>7, <1>8, <1>9 DEF Moving

LEMMA EventKept ==
  ASSUME Typed, Kept, Events, "overlap" \notin Offered, "fail" \notin Offered
  PROVE  Kept'
<1>1. CASE Tick
  <2>1. UNCHANGED <<blob, row, queue, drain, move, doc, handler, night>>
    BY <1>1 DEF Tick
  <2>2. QED
    BY <2>1, StorageKept DEF Named
<1>2. ASSUME NEW h \in Handler, Work(h) \/ Request(h) \/ \E k \in Object : BeginCommit(h, k)
      PROVE  Kept'
  BY <1>2, DocumentKept, CommitKept DEF Work
<1>3. CASE \/ ListOrphans \/ Collecting \/ NightDies \/ ListDrive
           \/ \E k \in Object : ReconcileFile(k)
  BY <1>3, NightKept
<1>4. CASE StartMove \/ Moving \/ MoveDies
  BY <1>4, MoveKept
<1>5. QED
  BY <1>1, <1>2, <1>3, <1>4, UploadKept, DrainKept, CreateInlineKept DEF Events

LEMMA KeptNext ==
  ASSUME "overlap" \notin Offered, "fail" \notin Offered
  PROVE  Typed /\ Kept /\ [Next]_vars => Kept'
<1>1. Typed /\ Kept /\ Next => Kept'
  BY EventKept DEF Next
<1>2. ASSUME Kept, UNCHANGED vars PROVE Kept'
  BY <1>2 DEF vars, Kept, Entries, Rows, Minted, Named, OnItsWay, Accounted, Stored, Here, Queued,
              Waiting
<1>3. QED
  BY <1>1, <1>2

(* No object stays in the organization's storage unaccounted for, whatever     *)
(* drains overlap, die or are refused, uploads are attached late or twice, and  *)
(* the nightly job stops half way: what leaves a row enters the queue in the    *)
(* same transaction (deletionOpsFor).  Left out: requests and migrations that    *)
(* die after an upload, and a migration beside the comparison with Drive.       *)
THEOREM NothingForgotten ==
  ASSUME "overlap" \notin Offered, "fail" \notin Offered
  PROVE  Spec => []Accounted
<1>1. Kept => Accounted
  BY DEF Kept
<1>2. QED
  BY <1>1, InitTyped, StepTyped, InitKept, KeptNext, PTL DEF Spec
-----------------------------------------------------------------------------
(* The shelf.  Readers get what the abstract specification promises, while     *)
(* an upload goes to one request within its grace, and what the bounds of the   *)
(* model keep apart stays apart.                                            *)

Orderly == Offered \cap {"overlap", "fail", "reuse", "late", "early"} = {}

Working == {"make", "write", "release", "claim"}
Works(h) == handler[h].pc \in Working
\* A request whose content is yet to be shown.
Placing(h) == handler[h].pc \in {"make", "write"}

\* A content that has been shown.
Spent(c) == c \in taken \/ \E d \in Doc : Shown(d) = c

\* Whatever a live document refers to can be read.
Readable ==
  \A d \in Doc : LET r == doc[d].ref IN
    /\ ~Live(d) => r = None
    /\ r \in File => \/ file[r] = "here"
                     \/ /\ move.at = "point" /\ move.doc = d /\ move.file = r
                        /\ Here(move.object) /\ Stored(move.object)
    /\ r \in Object => Here(r) /\ Stored(r)

\* A document names a file or an object: it refers to it, or a request or the migration
\* holds it for the document.
Names(d, r) ==
  \/ doc[d].ref = r
  \/ \E h \in Handler : handler[h].doc = d /\ r \in {handler[h].prev, handler[h].new}
  \/ move.doc = d /\ r \in {move.file, move.object}
  \/ <<d, r>> \in move.todo

\* No two documents name the same.
OneDoc == \A r \in Content : \A c, d \in Doc : Names(c, r) /\ Names(d, r) => c = d

\* A file that nobody made yet is new to everyone.
Files ==
  /\ \A f \in File : file[f] = "none" => ~Spent(f) /\ \A d \in Doc : ~Names(d, f)
  /\ \A k \in Object : blob[k] \in File => file[blob[k]] # "none"

\* A committed upload is in the storage, and it is what was sent.
Uploads ==
  /\ \A k \in Object :
       /\ blob[k] \in {k, None, Gone} \cup File
       /\ row[k].session = "complete" => Stored(k)
       /\ Here(k) /\ row[k].committed => Stored(k) /\ (Drive => row[k].sound)
  /\ \A h \in Handler :
       /\ handler[h].new \in Object => blob[handler[h].new] \notin File
       /\ At(h, "confirm") /\ Here(handler[h].new) /\ Drive => Stored(handler[h].new)

\* An object a file was moved to is its document's, which refers to it, is about to
\* release it, or is about to be pointed at it.
Moved ==
  \A k \in Object : LET d == row[k].course IN
    /\ d \in Doc => doc[d].state # "none"
    /\ Here(k) /\ blob[k] \in File =>
         /\ d \in Doc
         /\ Live(d) => \/ doc[d].ref = k
                       \/ \E h \in Handler : /\ At(h, "release") /\ handler[h].doc = d
                                             /\ handler[h].prev = k
                       \/ move.at = "point" /\ move.object = k

\* A request that changes what a document shows is alone with it.
Alone ==
  \A h \in Handler : LET d == handler[h].doc IN
    /\ Works(h) => /\ \A g \in Handler \ {h} : Works(g) => handler[g].doc # d
                   /\ move.doc # d /\ \A m \in move.todo : m[1] # d
    /\ At(h, "make") => doc[d].state = "none"
    /\ handler[h].pc \in {"write", "release", "claim", "delete"} => doc[d].state # "none"

\* What is about to be shown is new, is in nobody else's hands, and is there.
Coming ==
  \A h \in Handler : LET n == handler[h].new IN
    Placing(h) /\ n # None =>
      /\ ~Spent(n) /\ ~Used(n)
      /\ \A g \in Handler : handler[g].prev # n
      /\ \A g \in Handler \ {h} : handler[g].new = n => At(g, "confirm")
      /\ n \in File => file[n] = "here"
      /\ n \in Object /\ (At(h, "make") \/ Live(handler[h].doc)) => Here(n) /\ row[n].committed

\* An upload in a request's hands is out of the collector's reach.
Claiming ==
  \A h \in Handler : LET n == handler[h].new IN
    Works(h) /\ n \in Object /\ Here(n) => /\ row[n].created + Grace >= now
                                          /\ row[n].course \in {None, handler[h].doc}

\* What is about to be released was shown, and no longer is when its time comes.
Going ==
  \A h \in Handler : LET l == handler[h] IN
    /\ l.prev \in Object /\ Here(l.prev) => Spent(l.prev) \/ blob[l.prev] \in File
    /\ At(h, "write") /\ Live(l.doc) => doc[l.doc].ref = l.prev
    /\ At(h, "release") /\ l.prev # None => doc[l.doc].ref # l.prev

\* The object a document refers to is its own, or will be.
Held ==
  \A d \in Doc : LET r == doc[d].ref IN
    r \in Object =>
      /\ row[r].committed
      /\ \/ row[r].course = d
         \/ /\ row[r].course = None
            /\ \E h \in Handler : /\ handler[h].pc \in {"release", "claim"}
                                  /\ handler[h].doc = d /\ handler[h].new = r

\* What the collector listed may still be collected.
Sweep ==
  night.doing = "collect" => \A k \in night.todo : Here(k) => Abandoned(k) \/ Orphaned(k)

\* The migration's documents refer to the files it read, until it points them at objects
\* that are in nobody else's hands.
Migration ==
  /\ \A m \in move.todo : /\ doc[m[1]].state # "none"
                          /\ Live(m[1]) => doc[m[1]].ref = m[2]
                          /\ \A n \in move.todo : m[1] = n[1] => m[2] = n[2]
                          /\ move.at # "next" => m[1] # move.doc
  /\ move.at # "next" => /\ doc[move.doc].state # "none"
                         /\ Live(move.doc) => doc[move.doc].ref = move.file
  /\ move.at \in {"record", "point"} =>
       \A h \in Handler : handler[h].new # move.object /\ handler[h].prev # move.object
  /\ move.at = "point" =>
       /\ Here(move.object) => /\ row[move.object].course = move.doc
                               /\ row[move.object].committed /\ blob[move.object] = move.file
       /\ Live(move.doc) => Here(move.object)

Lasting == /\ Readable /\ OneDoc /\ Files /\ Uploads /\ Moved /\ Alone
           /\ Coming /\ Claiming /\ Going /\ Held /\ Sweep /\ Migration

\* A step takes what it replaces, as Next says.
Taking == taken' = taken \cup ({Shown(d) : d \in {d \in Doc : Shown(d)' # Shown(d)}} \ {None})

\* What a step shows: nothing else, or one document's c.
Quiet == \A d \in Doc : Shown(d)' = Shown(d)
Shows(d, c) == (\A e \in Doc \ {d} : Shown(e)' = Shown(e)) /\ Shown(d)' = c

Holds(r) == IF r \in Object THEN blob[r] ELSE r
Reads == \A d \in Doc : Shown(d) = Holds(doc[d].ref)

\* A reader gets what the reference of the document holds.
LEMMA ReaderReads == TypeOK /\ Readable => Reads
<1> SUFFICES ASSUME TypeOK, Readable, NEW d \in Doc PROVE Shown(d) = Holds(doc[d].ref)
  BY DEF Reads
<1> DEFINE r == doc[d].ref
<1>1. CASE r = None
  BY <1>1, ObjectsAssumption DEF Shown, Holds
<1>2. CASE r \in File
  <2>1. Live(d) /\ r # None /\ r \notin Object
    BY <1>2, ObjectsAssumption DEF Readable
  <2>2. QED
    BY <1>2, <2>1 DEF Readable, Shown, Holds
<1>3. CASE r \in Object
  <2>1. Live(d) /\ r # None /\ r \notin File
    BY <1>3, ObjectsAssumption DEF Readable
  <2>2. QED
    BY <1>3, <2>1 DEF Readable, Shown, Holds
<1>4. QED
  BY <1>1, <1>2, <1>3 DEF TypeOK, Ref, Content

LEMMA ReaderReadsNext == TypeOK' /\ Readable' => Reads'
  BY ReaderReads, PTL

LEMMA Unseen ==
  ASSUME Taking, Quiet
  PROVE  taken' = taken /\ \A c : Spent(c)' <=> Spent(c)
<1>1. taken' = taken
  BY DEF Taking, Quiet
<1>2. QED
  BY <1>1 DEF Quiet, Spent

LEMMA Seen ==
  ASSUME Taking, NEW d \in Doc, NEW c, Shows(d, c)
  PROVE  \A x : x # None => (Spent(x)' <=> Spent(x) \/ x = c)
<1> SUFFICES ASSUME NEW x, x # None PROVE Spent(x)' <=> Spent(x) \/ x = c
  OBVIOUS
<1>1. Spent(x)' => Spent(x) \/ x = c
  BY DEF Taking, Shows, Spent
<1>2. x = c => Spent(x)'
  BY DEF Shows, Spent
<1>3. Spent(x) => Spent(x)'
  <2>1. x \in taken => x \in taken'
    BY DEF Taking
  <2>2. ASSUME NEW e \in Doc, Shown(e) = x PROVE x \in taken' \/ Shown(e)' = x
    BY <2>2 DEF Taking
  <2>3. QED
    BY <2>1, <2>2 DEF Spent
<1>4. QED
  BY <1>1, <1>2, <1>3

\* A step that writes no document changes nothing that is shown, as long as all can
\* still be read.
LEMMA StillShown ==
  ASSUME Typed, Typed', Readable, Readable', Taking, doc' = doc,
         \A k \in Object : Here(k) /\ Stored(k) => blob'[k] = blob[k]
  PROVE  Quiet /\ taken' = taken /\ \A c : Spent(c)' <=> Spent(c)
<1>1. Reads /\ Reads'
  BY ReaderReads, ReaderReadsNext DEF Typed
<1>2. ASSUME NEW d \in Doc PROVE Shown(d)' = Shown(d)
  <2>1. doc[d].ref \in Object => blob'[doc[d].ref] = blob[doc[d].ref]
    BY DEF Readable
  <2>2. QED
    BY <1>1, <2>1 DEF Reads, Holds
<1>3. QED
  BY <1>2, Unseen DEF Quiet

\* A step that leaves everything but the queue, the drains and, of the night's work,
\* what keeps Sweep.
LEMMA Unmoved ==
  ASSUME Typed, Typed', Lasting, Taking, UNCHANGED <<now, blob, row, file, doc, handler, move>>, Sweep'
  PROVE  Lasting' /\ Quiet
<1>1. Readable'
  BY DEF Lasting, Readable, Live, Here, Stored
<1>2. Quiet /\ taken' = taken /\ \A c : Spent(c)' <=> Spent(c)
  BY <1>1, StillShown DEF Lasting
<1>3. OneDoc' /\ Files'
  BY <1>2 DEF Lasting, OneDoc, Files, Names
<1>4. Uploads' /\ Moved' /\ Alone' /\ Claiming'
  BY DEF Lasting, Uploads, Moved, Alone, Claiming, Live, Here, Stored, At, Works
<1>5. Coming' /\ Going'
  BY <1>2 DEF Lasting, Coming, Going, Live, Here, At, Placing, Used
<1>6. Held' /\ Migration'
  BY DEF Lasting, Held, Migration, Live, Here
<1>7. QED
  BY <1>1, <1>2, <1>3, <1>4, <1>5, <1>6 DEF Lasting

\* The storage loses only what has no row.
LEMMA DrainLasts ==
  ASSUME Typed, Typed', Kept, Lasting, Taking, NEW w \in Drainer,
         StartDrain(w) \/ Draining(w) \/ DrainDies(w)
  PROVE  Lasting' /\ Quiet
<1>1. UNCHANGED <<now, row, file, doc, handler, night, move>>
  BY DEF StartDrain, Draining, RemoteDelete, Forget, NoteFailure, DrainDies
<1>2. \A k \in Object : blob'[k] = blob[k] \/ (row[k].state = "gone" /\ blob'[k] = Gone)
  <2>1. CASE blob' = blob
    BY <2>1
  <2>2. ASSUME NEW r \in drain[w].todo, blob' = [blob EXCEPT ![r[1][1]] = Gone]
        PROVE  \A k \in Object : blob'[k] = blob[k] \/ (row[k].state = "gone" /\ blob'[k] = Gone)
    <3>1. row[r[1][1]].state = "gone"
      BY DEF Kept, Entries
    <3>2. QED
      BY <2>2, <3>1 DEF Typed, TypeOK
  <2>3. QED
    BY <2>1, <2>2 DEF StartDrain, Draining, RemoteDelete, Forget, NoteFailure, DrainDies
<1>3. \A k \in Object : Here(k) => blob'[k] = blob[k]
  BY <1>2 DEF Here
<1>4. Gone \notin File /\ Gone \notin Content
  BY ObjectsAssumption DEF Gone, Content
<1>5. move.at \in {"record", "point"} => move.object \in Object
  BY DEF Typed, Shaped
<1>6. Readable'
  BY <1>1, <1>3, <1>5 DEF Lasting, Readable, Live, Here, Stored
<1>7. Quiet /\ taken' = taken /\ \A c : Spent(c)' <=> Spent(c)
  BY <1>1, <1>3, <1>6, StillShown DEF Lasting
<1>8. OneDoc'
  BY <1>1 DEF Lasting, OneDoc, Names
<1>9. Files'
  BY <1>1, <1>2, <1>4, <1>7 DEF Lasting, Files, Names
<1>10. Uploads'
  <2>1. \A k \in Object : row[k].session = "complete" => Here(k)
    BY DEF Kept, Rows
  <2>2. \A h \in Handler : At(h, "confirm") => handler[h].new \in Object
    BY DEF Typed, Shaped, At
  <2>3. QED
    BY <1>1, <1>2, <1>3, <1>4, <2>1, <2>2 DEF Lasting, Uploads, Here, Stored, At
<1>11. Moved'
  BY <1>1, <1>3 DEF Lasting, Moved, Live, Here, At
<1>12. Alone' /\ Claiming' /\ Held' /\ Sweep'
  BY <1>1 DEF Lasting, Alone, Claiming, Held, Sweep, Abandoned, Orphaned, Live, Here, At, Works
<1>13. Coming'
  BY <1>1, <1>7 DEF Lasting, Coming, Live, Here, At, Placing, Used
<1>14. Going'
  BY <1>1, <1>3, <1>7 DEF Lasting, Going, Live, Here, At
<1>15. Migration'
  BY <1>1, <1>3, <1>5 DEF Lasting, Migration, Live, Here
<1>16. QED
  BY <1>6, <1>7, <1>8, <1>9, <1>10, <1>11, <1>12, <1>13, <1>14, <1>15 DEF Lasting

\* The nightly job lists, and gives up.
LEMMA ListLasts ==
  ASSUME Typed, Typed', Lasting, Taking,
         ListOrphans \/ NightDies \/ ListDrive \/ \E k \in Object : ReconcileFile(k)
  PROVE  Lasting' /\ Quiet
<1>1. UNCHANGED <<now, blob, row, file, doc, handler, move>>
  BY DEF ListOrphans, NightDies, ListDrive, ReconcileFile
<1>2. CASE ListOrphans
  <2>1. night'.todo = {k \in Object : Abandoned(k) \/ Orphaned(k)}
    BY <1>2 DEF ListOrphans, Typed, TypeOK
  <2>2. Sweep'
    BY <1>1, <2>1 DEF Sweep, Abandoned, Orphaned, Here
  <2>3. QED
    BY <1>1, <2>2, Unmoved
<1>3. CASE NightDies \/ ListDrive \/ \E k \in Object : ReconcileFile(k)
  <2>1. night'.doing # "collect"
    <3>1. NightDone => night'.doing = "rest"
      BY DEF NightDone, Typed, TypeOK
    <3>2. ListDrive => night'.doing = "reconcile"
      BY DEF ListDrive
    <3>3. ASSUME NEW k \in Object, ReconcileFile(k) PROVE night'.doing # "collect"
      BY <3>1, <3>3 DEF ReconcileFile, NightNext, Typed, TypeOK
    <3>4. QED
      BY <1>3, <3>1, <3>2, <3>3 DEF NightDies
  <2>2. Sweep'
    BY <2>1 DEF Sweep
  <2>3. QED
    BY <1>1, <2>2, Unmoved
<1>4. QED
  BY <1>2, <1>3

\* A day passes: only when no request has an upload in hand.
LEMMA TickLasts ==
  ASSUME Typed, Typed', Lasting, Taking, Orderly, Tick
  PROVE  Lasting' /\ Quiet
<1>1. UNCHANGED <<blob, row, file, doc, handler, night, move>> /\ now' = now + 1
  BY DEF Tick
<1>2. \A h \in Handler : Works(h) => handler[h].new \notin Object
  BY DEF Tick, Orderly, Works, Working, At
<1>3. Readable'
  BY <1>1 DEF Lasting, Readable, Live, Here, Stored
<1>4. Quiet /\ taken' = taken /\ \A c : Spent(c)' <=> Spent(c)
  BY <1>1, <1>3, StillShown DEF Lasting
<1>5. OneDoc' /\ Files'
  BY <1>1, <1>4 DEF Lasting, OneDoc, Files, Names
<1>6. Uploads' /\ Moved' /\ Alone'
  BY <1>1 DEF Lasting, Uploads, Moved, Alone, Live, Here, Stored, At, Works
<1>7. Claiming'
  BY <1>1, <1>2 DEF Claiming, Works
<1>8. Coming' /\ Going'
  BY <1>1, <1>4 DEF Lasting, Coming, Going, Live, Here, At, Placing, Used
<1>9. Held' /\ Migration'
  BY <1>1 DEF Lasting, Held, Migration, Live, Here
<1>10. Sweep'
  <2>1. \A k \in Object : row[k].created + Grace < now => row[k].created + Grace < now + 1
    BY ObjectsAssumption DEF Typed, TypeOK, ObjectRow
  <2>2. ASSUME NEW k \in Object, Abandoned(k) \/ Orphaned(k) PROVE Abandoned(k)' \/ Orphaned(k)'
    BY <1>1, <2>1, <2>2 DEF Abandoned, Orphaned, Here
  <2>3. night.todo \subseteq Object
    BY DEF Typed, TypeOK
  <2>4. QED
    BY <1>1, <2>2, <2>3 DEF Lasting, Sweep, Here
<1>11. QED
  BY <1>3, <1>4, <1>5, <1>6, <1>7, <1>8, <1>9, <1>10 DEF Lasting

\* The one key a step may make a row for, or bring into the storage, is named by nobody.
LEMMA UploadLasts ==
  ASSUME Typed, Typed', Kept, Lasting, Taking, NEW k \in Object,
         UploadUrl(k) \/ BeginGdriveUpload(k)
  PROVE  Lasting' /\ Quiet
<1>1. PICK session \in {"none", "open"} : NewUpload(k, session)
  BY DEF UploadUrl, BeginGdriveUpload
<1> DEFINE r == [NoRow EXCEPT !.state = "here", !.created = now, !.session = session]
<1>2. /\ row' = [row EXCEPT ![k] = r] /\ row[k].state = "none" /\ move.object # k
      /\ UNCHANGED <<now, blob, file, doc, handler, night, move>>
  BY <1>1 DEF NewUpload
<1>3. r.course = None /\ r.committed = FALSE /\ r.session # "complete"
  BY DEF NoRow
<1> HIDE DEF r
<1>4. /\ row'[k].course = None /\ row'[k].committed = FALSE /\ row'[k].session # "complete"
      /\ \A j \in Object \ {k} : row'[j] = row[j]
  BY <1>2, <1>3 DEF Typed, TypeOK
<1>5. /\ \A d \in Doc : doc[d].ref # k
      /\ \A h \in Handler : handler[h].new # k /\ handler[h].prev # k
      /\ k \notin night.todo
  BY <1>2 DEF Kept, Minted, Named
<1>6. ~Stored(k)
  BY <1>2 DEF Kept, Rows
<1>7. blob[k] \notin File
  BY <1>6 DEF Stored, Content
<1>8. None \notin Doc
  BY ObjectsAssumption
<1>9. move.at \in {"record", "point"} => move.object \in Object
  BY DEF Typed, Shaped
<1>10. night.todo \subseteq Object
  BY DEF Typed, TypeOK
<1>11. Readable'
  BY <1>2, <1>4, <1>5, <1>9 DEF Lasting, Readable, Live, Here, Stored
<1>12. Quiet /\ taken' = taken /\ \A c : Spent(c)' <=> Spent(c)
  BY <1>2, <1>11, StillShown DEF Lasting
<1>13. OneDoc' /\ Files'
  BY <1>2, <1>12 DEF Lasting, OneDoc, Files, Names
<1>14. Uploads'
  <2>1. \A h \in Handler : At(h, "confirm") => handler[h].new \in Object
    BY DEF Typed, Shaped, At
  <2>2. QED
    BY <1>2, <1>4, <1>5, <2>1 DEF Lasting, Uploads, Here, Stored, At
<1>15. Moved'
  BY <1>2, <1>4, <1>7, <1>8 DEF Lasting, Moved, Live, Here, At
<1>16. Alone'
  BY <1>2 DEF Lasting, Alone, At, Works
<1>17. Coming'
  BY <1>2, <1>4, <1>5, <1>12 DEF Lasting, Coming, Live, Here, At, Placing, Used
<1>18. Claiming'
  BY <1>2, <1>4, <1>5 DEF Lasting, Claiming, Here, Works
<1>19. Going'
  BY <1>2, <1>4, <1>5, <1>12 DEF Lasting, Going, Live, Here, At
<1>20. Held'
  BY <1>2, <1>4, <1>5 DEF Lasting, Held
<1>21. Sweep'
  BY <1>2, <1>4, <1>5, <1>10 DEF Lasting, Sweep, Abandoned, Orphaned, Here
<1>22. Migration'
  BY <1>2, <1>4, <1>9 DEF Lasting, Migration, Live, Here
<1>23. QED
  BY <1>11, <1>12, <1>13, <1>14, <1>15, <1>16, <1>17, <1>18, <1>19, <1>20, <1>21, <1>22 DEF Lasting

LEMMA PutLasts ==
  ASSUME Typed, Typed', Kept, Lasting, Taking, NEW k \in Object,
         PutPresigned(k) \/ \E sound \in BOOLEAN : PutThroughGateway(k, sound)
  PROVE  Lasting' /\ Quiet
<1>1. /\ Here(k) /\ blob[k] = None /\ blob' = [blob EXCEPT ![k] = k]
      /\ UNCHANGED <<now, file, doc, handler, night, move>>
  BY DEF PutPresigned, PutThroughGateway, Kept, Rows
<1>2. /\ row'[k].state = row[k].state /\ row'[k].course = row[k].course
      /\ row'[k].created = row[k].created /\ row'[k].committed = row[k].committed
      /\ \A j \in Object \ {k} : row'[j] = row[j]
  BY GatewayRow DEF PutPresigned, Typed
<1>3. blob'[k] = k /\ \A j \in Object \ {k} : blob'[j] = blob[j]
  BY <1>1 DEF Typed, TypeOK
<1>4. k \notin File /\ None \notin Content /\ k \in Content
  BY ObjectsAssumption DEF Content
<1>5. ~Stored(k) /\ ~row[k].committed
  BY <1>1, <1>4 DEF Stored, Lasting, Uploads
<1>6. \A d \in Doc : doc[d].ref # k
  BY <1>5 DEF Lasting, Readable
<1>7. /\ move.at \in {"record", "point"} => move.object \in Object
      /\ move.at # "next" => move.file \in File
  BY DEF Typed, Shaped
<1>8. move.at \in {"record", "point"} => move.object # k
  BY <1>1, <1>4, <1>7 DEF Lasting, Migration, Kept, OnItsWay, Here, Content
<1>9. night.todo \subseteq Object
  BY DEF Typed, TypeOK
<1>10. Readable'
  BY <1>1, <1>2, <1>3, <1>6, <1>7, <1>8 DEF Lasting, Readable, Live, Here, Stored
<1>11. Quiet /\ taken' = taken /\ \A c : Spent(c)' <=> Spent(c)
  BY <1>1, <1>3, <1>5, <1>10, StillShown DEF Lasting
<1>12. OneDoc' /\ Files'
  BY <1>1, <1>3, <1>4, <1>11 DEF Lasting, OneDoc, Files, Names
<1>13. Uploads'
  <2>1. \A h \in Handler : At(h, "confirm") => handler[h].new \in Object
    BY DEF Typed, Shaped, At
  <2>2. QED
    BY <1>1, <1>2, <1>3, <1>4, <1>5, <2>1 DEF Lasting, Uploads, Here, Stored, At
<1>14. Moved'
  BY <1>1, <1>2, <1>3, <1>4 DEF Lasting, Moved, Live, Here, At
<1>15. Alone'
  BY <1>1 DEF Lasting, Alone, At, Works
<1>16. Coming'
  BY <1>1, <1>2, <1>11 DEF Lasting, Coming, Live, Here, At, Placing, Used
<1>17. Claiming'
  BY <1>1, <1>2 DEF Lasting, Claiming, Here, Works
<1>18. Going'
  BY <1>1, <1>2, <1>3, <1>4, <1>11 DEF Lasting, Going, Live, Here, At, Content
<1>19. Held'
  BY <1>1, <1>2 DEF Lasting, Held
<1>20. Sweep'
  BY <1>1, <1>2, <1>9 DEF Lasting, Sweep, Abandoned, Orphaned, Here
<1>21. Migration'
  BY <1>1, <1>2, <1>3, <1>7, <1>8 DEF Lasting, Migration, Live, Here
<1>22. QED
  BY <1>10, <1>11, <1>12, <1>13, <1>14, <1>15, <1>16, <1>17, <1>18, <1>19, <1>20, <1>21 DEF Lasting

\* A request that ends: what it held is held no more.
LEMMA EndsNaming ==
  ASSUME Lasting, NEW h \in Handler, handler'[h] = Rest,
         \A g \in Handler \ {h} : handler'[g] = handler[g],
         UNCHANGED <<doc, move>>
  PROVE  /\ \A d \in Doc, r \in Content : Names(d, r)' => Names(d, r)
         /\ OneDoc' /\ Alone'
<1>1. None \notin Doc
  BY ObjectsAssumption
<1>2. \A d \in Doc, r \in Content : Names(d, r)' => Names(d, r)
  BY <1>1 DEF Names, Rest
<1>3. OneDoc'
  BY <1>2 DEF Lasting, OneDoc
<1>4. Alone'
  BY DEF Lasting, Alone, At, Works, Working, Rest
<1>5. QED
  BY <1>2, <1>3, <1>4

LEMMA BeginCommitLasts ==
  ASSUME Typed, Typed', Kept, Lasting, Taking, NEW h \in Handler, NEW k \in Object, BeginCommit(h, k)
  PROVE  Lasting' /\ Quiet
<1> DEFINE m == [Rest EXCEPT !.pc = "confirm", !.new = k]
<1>1. m \in Locals /\ m.pc = "confirm" /\ m.new = k /\ m.doc = None /\ m.prev = None
  BY DEF Rest, Locals, Pc, Ref, Content
<1>2. Goto(h, m)
  BY DEF BeginCommit
<1> HIDE DEF m
<1>3. /\ handler'[h].pc = "confirm" /\ handler'[h].new = k /\ handler'[h].doc = None
      /\ handler'[h].prev = None /\ \A g \in Handler \ {h} : handler'[g] = handler[g]
  BY <1>1, <1>2, Moves DEF Typed
<1>4. /\ handler[h] = Rest /\ Here(k) /\ row[k].course = None
      /\ Drive => row[k].session = "complete"
      /\ UNCHANGED <<now, blob, row, file, doc, night, move>>
  BY DEF BeginCommit, At, Typed, Shaped
<1>5. None \notin Doc /\ None \notin Content /\ None \notin Object
  BY ObjectsAssumption DEF Content
<1>6. blob[k] \notin File
  BY <1>4, <1>5 DEF Lasting, Moved
<1>7. move.at \in {"record", "point"} => move.object \in Object
  BY DEF Typed, Shaped
<1>8. \A d \in Doc, r \in Content : Names(d, r)' => Names(d, r)
  BY <1>3, <1>4, <1>5 DEF Names
<1>9. Readable'
  BY <1>4 DEF Lasting, Readable, Live, Here, Stored
<1>10. Quiet /\ taken' = taken /\ \A c : Spent(c)' <=> Spent(c)
  BY <1>4, <1>9, StillShown DEF Lasting
<1>11. OneDoc' /\ Files'
  BY <1>4, <1>8, <1>10 DEF Lasting, OneDoc, Files, Content
<1>12. Uploads'
  BY <1>3, <1>4, <1>6 DEF Lasting, Uploads, Here, Stored, At
<1>13. Moved'
  BY <1>3, <1>4 DEF Lasting, Moved, Live, Here, At, Rest
<1>14. Alone'
  BY <1>3, <1>4, <1>5 DEF Lasting, Alone, At, Works, Working, Rest
<1>15. Coming'
  BY <1>3, <1>4, <1>10 DEF Lasting, Coming, Live, Here, At, Placing, Used, Rest
<1>16. Claiming'
  BY <1>3, <1>4 DEF Lasting, Claiming, Here, Works, Working, Rest
<1>17. Going'
  BY <1>3, <1>4, <1>5, <1>10 DEF Lasting, Going, Live, Here, At, Rest
<1>18. Held'
  BY <1>3, <1>4 DEF Lasting, Held, Rest
<1>19. Sweep'
  BY <1>4 DEF Lasting, Sweep, Abandoned, Orphaned, Here
<1>20. Migration'
  <2>1. move.at \in {"record", "point"} => move.object # k /\ move.object # None
    <3>1. move.at = "record" => row[move.object].state = "none"
      BY DEF Kept, OnItsWay
    <3>2. move.at = "point" /\ move.object = k => row[k].course = move.doc /\ move.doc \in Doc
      BY <1>4 DEF Lasting, Migration, Typed, Shaped
    <3>3. QED
      BY <1>4, <1>5, <1>7, <3>1, <3>2 DEF Here
  <2>2. QED
    BY <1>3, <1>4, <2>1 DEF Lasting, Migration, Live, Here
<1>21. QED
  BY <1>9, <1>10, <1>11, <1>12, <1>13, <1>14, <1>15, <1>16, <1>17, <1>18, <1>19, <1>20 DEF Lasting

LEMMA CommitLasts ==
  ASSUME Typed, Typed', Kept, Lasting, Taking, NEW h \in Handler,
         CommitS3(h) \/ (CommitGdriveUpload(h) /\ row[handler[h].new].sound)
  PROVE  Lasting' /\ Quiet
<1> DEFINE k == handler[h].new
<1>1. At(h, "confirm") /\ Here(k) /\ UNCHANGED <<now, blob, file, doc, night, move>>
  BY DEF CommitS3, CommitGdriveUpload
<1>2. /\ k \in Object /\ row'[k].state = row[k].state
      /\ row'[k].created = row[k].created /\ row'[k].sound = row[k].sound
      /\ row'[k].session = (IF CommitGdriveUpload(h) THEN "none" ELSE row[k].session)
      /\ row'[k].course = row[k].course
      /\ row'[k].committed = (IF CommitGdriveUpload(h) THEN TRUE ELSE row[k].committed \/ Stored(k))
      /\ \A j \in Object \ {k} : row'[j] = row[j]
  <2>1. ~Claim(h)
    BY <1>1 DEF Claim, At
  <2>2. QED
    BY <2>1, RequestRow
<1>3. handler'[h] = Rest /\ \A g \in Handler \ {h} : handler'[g] = handler[g]
  BY Rests DEF CommitS3, CommitGdriveUpload, Typed
<1>4. Drive => CommitGdriveUpload(h) /\ row[k].sound
  BY DEF CommitS3
<1>5. CommitGdriveUpload(h) => Drive
  BY DEF CommitGdriveUpload
<1> HIDE DEF k
<1>6. \A j \in Object : /\ row'[j].state = row[j].state /\ row'[j].course = row[j].course
                        /\ row'[j].created = row[j].created
                        /\ row[j].committed => row'[j].committed
  BY <1>2
<1>7. None \notin Doc /\ None \notin Object /\ None \notin Content
  BY ObjectsAssumption DEF Content
<1>8. /\ move.at \in {"record", "point"} => move.object \in Object
      /\ night.todo \subseteq Object
  BY DEF Typed, TypeOK, Shaped
<1>9. Readable'
  BY <1>1, <1>6, <1>8 DEF Lasting, Readable, Live, Here, Stored
<1>10. Quiet /\ taken' = taken /\ \A c : Spent(c)' <=> Spent(c)
  BY <1>1, <1>9, StillShown DEF Lasting
<1>11. /\ \A d \in Doc, r \in Content : Names(d, r)' => Names(d, r)
       /\ OneDoc' /\ Alone'
  BY <1>1, <1>3, EndsNaming
<1>12. Files'
  BY <1>1, <1>10, <1>11 DEF Lasting, Files, Content
<1>13. Uploads'
  <2>1. CommitGdriveUpload(h) => Stored(k)
    BY <1>1, <1>5 DEF Lasting, Uploads, k
  <2>2. \A g \in Handler : At(g, "confirm") => handler[g].new \in Object
    BY DEF Typed, Shaped, At
  <2>3. \A j \in Object : /\ row'[j].session = "complete" => row[j].session = "complete"
                          /\ row'[j].sound = row[j].sound
    BY <1>2
  <2>4. \A j \in Object : Here(j) /\ row'[j].committed => Stored(j) /\ (Drive => row[j].sound)
    BY <1>2, <1>4, <2>1 DEF Lasting, Uploads, k
  <2>5. QED
    BY <1>1, <1>3, <1>6, <1>7, <2>2, <2>3, <2>4 DEF Lasting, Uploads, Here, Stored, At, Rest
<1>14. Moved'
  BY <1>1, <1>3, <1>6 DEF Lasting, Moved, Live, Here, At
<1>15. Coming'
  BY <1>1, <1>3, <1>6, <1>7, <1>10 DEF Lasting, Coming, Live, Here, At, Placing, Used, Rest
<1>16. Claiming'
  BY <1>1, <1>3, <1>6 DEF Lasting, Claiming, Here, Works, Working, Rest
<1>17. Going'
  BY <1>1, <1>3, <1>6, <1>7, <1>10 DEF Lasting, Going, Live, Here, At, Rest
<1>18. Held'
  BY <1>1, <1>3, <1>6 DEF Lasting, Held, At
<1>19. Sweep'
  BY <1>1, <1>6, <1>8 DEF Lasting, Sweep, Abandoned, Orphaned, Here
<1>20. Migration'
  BY <1>1, <1>3, <1>6, <1>7, <1>8 DEF Lasting, Migration, Live, Here, Rest
<1>21. QED
  BY <1>9, <1>10, <1>11, <1>12, <1>13, <1>14, <1>15, <1>16, <1>17, <1>18, <1>19, <1>20 DEF Lasting

\* The row is pointed at the document that refers to it, or to nothing any more.
LEMMA ClaimLasts ==
  ASSUME Typed, Typed', Kept, Lasting, Taking, NEW h \in Handler, Claim(h)
  PROVE  Lasting' /\ Quiet
<1>0. PICK k \in Object, d \in Doc : k = handler[h].new /\ d = handler[h].doc
  BY DEF Claim, At, Typed, Shaped
<1>1. At(h, "claim") /\ Here(k) /\ UNCHANGED <<now, blob, file, doc, night, move>>
  BY <1>0 DEF Claim
<1>2. /\ k \in Object /\ row'[k].state = row[k].state
      /\ row'[k].created = row[k].created /\ row'[k].sound = row[k].sound
      /\ row'[k].session = row[k].session /\ row'[k].course = d
      /\ row'[k].committed = row[k].committed
      /\ \A j \in Object \ {k} : row'[j] = row[j]
  <2>1. ~CommitGdriveUpload(h)
    BY <1>1 DEF CommitGdriveUpload, At
  <2>2. QED
    BY <1>0, <2>1, RequestRow
<1>3. handler'[h] = Rest /\ \A g \in Handler \ {h} : handler'[g] = handler[g]
  BY Rests DEF Claim, Typed
<1>4. Names(d, k) /\ k \in Content
  BY <1>0 DEF Names, Content
<1>5. /\ row[k].created + Grace >= now /\ row[k].course \in {None, d}
  BY <1>0, <1>1 DEF Lasting, Claiming, Works, Working, At
<1>6. blob[k] \notin File /\ doc[d].state # "none"
  BY <1>0, <1>1 DEF Lasting, Uploads, Alone, At
<1>7. \A g \in Handler \ {h} : Works(g) => handler[g].doc # d
  BY <1>0, <1>1 DEF Lasting, Alone, Works, Working, At
<1>8. \A g \in Handler : Works(g) => handler[g].doc \in Doc
  BY DEF Works, Working, Typed, Shaped
<1>9. \A g \in Handler \ {h} : Works(g) => handler[g].new # k
  <2>1. ASSUME NEW g \in Handler \ {h}, Works(g), handler[g].new = k PROVE FALSE
    <3>1. Names(handler[g].doc, k)
      BY <1>8, <2>1 DEF Names
    <3>2. QED
      BY <1>1, <1>4, <1>7, <1>8, <2>1, <3>1 DEF Lasting, OneDoc
  <2>2. QED
    BY <2>1
<1>10. \A e \in Doc : doc[e].ref = k => e = d
  <2>1. ASSUME NEW e \in Doc, doc[e].ref = k PROVE e = d
    <3>1. Names(e, k)
      BY <2>1 DEF Names
    <3>2. QED
      BY <1>1, <1>4, <3>1 DEF Lasting, OneDoc
  <2>2. QED
    BY <2>1
<1>11. \A j \in Object : /\ row'[j].state = row[j].state /\ row'[j].created = row[j].created
                         /\ row'[j].committed = row[j].committed /\ row'[j].sound = row[j].sound
                         /\ row'[j].session = row[j].session
  BY <1>2
<1>12. None \notin Doc /\ None \notin Object /\ None \notin Content
  BY ObjectsAssumption DEF Content
<1>13. /\ move.at \in {"record", "point"} => move.object \in Object
       /\ night.todo \subseteq Object
  BY DEF Typed, TypeOK, Shaped
<1>14. Readable'
  BY <1>1, <1>11, <1>13 DEF Lasting, Readable, Live, Here, Stored
<1>15. Quiet /\ taken' = taken /\ \A c : Spent(c)' <=> Spent(c)
  BY <1>1, <1>14, StillShown DEF Lasting
<1>16. /\ \A e \in Doc, r \in Content : Names(e, r)' => Names(e, r)
       /\ OneDoc' /\ Alone'
  BY <1>1, <1>3, EndsNaming
<1>17. Files'
  BY <1>1, <1>15, <1>16 DEF Lasting, Files, Content
<1>18. Uploads'
  <2>1. \A g \in Handler : At(g, "confirm") => handler[g].new \in Object
    BY DEF Typed, Shaped, At
  <2>2. QED
    BY <1>1, <1>3, <1>11, <1>12, <2>1 DEF Lasting, Uploads, Here, Stored, At, Rest
<1>19. Moved'
  BY <1>1, <1>2, <1>3, <1>6, <1>11 DEF Lasting, Moved, Live, Here, At
<1>20. Coming'
  BY <1>1, <1>3, <1>11, <1>12, <1>15 DEF Lasting, Coming, Live, Here, At, Placing, Used, Rest
<1>21. Claiming'
  BY <1>1, <1>2, <1>3, <1>9, <1>11 DEF Lasting, Claiming, Here, Works, Working, Rest
<1>22. Going'
  BY <1>1, <1>3, <1>11, <1>12, <1>15 DEF Lasting, Going, Live, Here, At, Rest
<1>23. Held'
  <2>1. ASSUME NEW e \in Doc, NEW r \in Object, r = doc[e].ref
        PROVE  /\ row'[r].committed
               /\ \/ row'[r].course = e
                  \/ /\ row'[r].course = None
                     /\ \E g \in Handler : /\ handler'[g].pc \in {"release", "claim"}
                                           /\ handler'[g].doc = e /\ handler'[g].new = r
    <3>1. CASE r = k
      <4>1. e = d
        BY <1>10, <2>1, <3>1
      <4>2. row[r].committed
        BY <2>1 DEF Lasting, Held
      <4>3. QED
        BY <1>2, <3>1, <4>1, <4>2
    <3>2. CASE r # k
      <4>1. /\ row[r].committed
            /\ \/ row[r].course = e
               \/ /\ row[r].course = None
                  /\ \E g \in Handler : /\ handler[g].pc \in {"release", "claim"}
                                        /\ handler[g].doc = e /\ handler[g].new = r
        BY <2>1 DEF Lasting, Held
      <4>2. row'[r] = row[r]
        BY <1>2, <3>2
      <4>3. \A g \in Handler : handler[g].new = r => handler'[g] = handler[g]
        BY <1>0, <1>3, <3>2
      <4>4. QED
        BY <4>1, <4>2, <4>3
    <3>3. QED
      BY <3>1, <3>2
  <2>2. QED
    BY <1>1, <2>1 DEF Held
<1>24. Sweep'
  <2>1. Here(k) /\ (Abandoned(k) \/ Orphaned(k)) => Orphaned(k)'
    <3>1. now \in Nat /\ row[k].created \in Nat
      BY <1>2, ObjectsAssumption DEF Typed, TypeOK, ObjectRow
    <3>2. ~Abandoned(k)
      BY <1>5, <3>1, ObjectsAssumption DEF Abandoned
    <3>3. QED
      BY <1>1, <1>2, <1>5, <1>12, <3>2 DEF Orphaned, Here
  <2>2. ASSUME NEW j \in Object, j # k, Abandoned(j) \/ Orphaned(j)
        PROVE  Abandoned(j)' \/ Orphaned(j)'
    BY <1>1, <1>2, <2>2 DEF Abandoned, Orphaned, Here
  <2>3. \A j \in Object : Here(j)' => Here(j)
    BY <1>11 DEF Here
  <2>4. ASSUME NEW j \in night.todo, night.doing = "collect", Here(j)
        PROVE  Abandoned(j)' \/ Orphaned(j)'
    BY <1>13, <2>1, <2>2, <2>4 DEF Lasting, Sweep
  <2>5. QED
    BY <1>1, <1>13, <2>3, <2>4 DEF Sweep
<1>25. Migration'
  <2>1. move.at = "point" => move.object # k
    BY <1>0 DEF Lasting, Migration
  <2>2. QED
    BY <1>1, <1>2, <1>3, <1>11, <1>12, <1>13, <2>1 DEF Lasting, Migration, Live, Here, Rest
<1>26. QED
  BY <1>14, <1>15, <1>16, <1>17, <1>18, <1>19, <1>20, <1>21, <1>22, <1>23, <1>24, <1>25 DEF Lasting

\* A row may go that no document refers to, no request is about to show and the
\* migration is not about to point a live document at.
LEMMA DropLasts ==
  ASSUME Typed, Typed', Kept, Lasting, Taking, NEW k \in Object, Here(k), DropRow(k),
         UNCHANGED <<now, blob, file, doc, move>>,
         \A g \in Handler : \/ handler'[g] = handler[g]
                            \/ At(g, "confirm") /\ handler'[g] = Rest,
         night'.todo \subseteq night.todo, night'.doing = "collect" => night.doing = "collect",
         \A d \in Doc : doc[d].ref # k,
         \A g \in Handler : At(g, "make") \/ (At(g, "write") /\ Live(handler[g].doc))
                              => handler[g].new # k,
         move.at = "point" /\ Live(move.doc) => move.object # k
  PROVE  Lasting' /\ Quiet
<1>1. /\ row'[k].state = "gone" /\ row'[k].session = "none"
      /\ row'[k].course = row[k].course /\ row'[k].created = row[k].created
      /\ row'[k].sound = row[k].sound /\ row'[k].committed = row[k].committed
      /\ \A j \in Object \ {k} : row'[j] = row[j]
  BY Dropped DEF Typed
<1>2. \A j \in Object : /\ Here(j)' => Here(j)
                        /\ row'[j].course = row[j].course /\ row'[j].created = row[j].created
                        /\ row'[j].sound = row[j].sound /\ row'[j].committed = row[j].committed
                        /\ row'[j].session = "complete" => row[j].session = "complete"
  BY <1>1 DEF Here
<1>3. \A j \in Object \ {k} : Here(j)' <=> Here(j)
  BY <1>1 DEF Here
<1>4. None \notin Doc /\ None \notin Object /\ None \notin Content
  BY ObjectsAssumption DEF Content
<1>5. /\ move.at \in {"record", "point"} => move.object \in Object
      /\ move.at # "next" => move.doc \in Doc
      /\ night.todo \subseteq Object
      /\ \A g \in Handler : At(g, "confirm") => handler[g].new \in Object /\ handler[g].doc = None
  BY DEF Typed, TypeOK, Shaped, At
<1>6. Readable'
  <2>1. ASSUME NEW d \in Doc, NEW r, r = doc[d].ref
        PROVE  /\ r \in File => \/ file[r] = "here"
                                \/ /\ move.at = "point" /\ move.doc = d /\ move.file = r
                                   /\ Here(move.object)' /\ Stored(move.object)
               /\ r \in Object => Here(r)' /\ Stored(r)
    <3>1. CASE r \in File
      <4>1. Live(d)
        BY <2>1, <3>1, ObjectsAssumption DEF Lasting, Readable
      <4>2. ASSUME move.at = "point", move.doc = d, Here(move.object) PROVE Here(move.object)'
        BY <1>3, <1>5, <4>1, <4>2 DEF Here
      <4>3. QED
        BY <2>1, <3>1, <4>2, FilesAreNoObjects DEF Lasting, Readable
    <3>2. CASE r \in Object
      BY <1>3, <2>1, <3>2, FilesAreNoObjects DEF Lasting, Readable
    <3>3. QED
      BY <3>1, <3>2
  <2>2. \A d \in Doc : ~Live(d) => doc[d].ref = None
    BY DEF Lasting, Readable
  <2>3. QED
    BY <2>1, <2>2 DEF Readable, Live, Stored, Here
<1>7. Quiet /\ taken' = taken /\ \A c : Spent(c)' <=> Spent(c)
  BY <1>6, StillShown DEF Lasting
<1>8. \A d \in Doc, r \in Content : Names(d, r)' => Names(d, r)
  BY <1>4 DEF Names, Rest
<1>9. OneDoc'
  BY <1>8 DEF Lasting, OneDoc
<1>10. Files'
  BY <1>7, <1>8 DEF Lasting, Files, Content
<1>11. Uploads'
  BY <1>2, <1>4, <1>5 DEF Lasting, Uploads, Stored, At, Rest
<1>12. Moved'
  <2>1. ASSUME NEW j \in Object, Here(j), blob[j] \in File, Live(row[j].course)
        PROVE  \/ doc[row[j].course].ref = j
               \/ \E h \in Handler : /\ handler'[h].pc = "release" /\ handler'[h].doc = row[j].course
                                     /\ handler'[h].prev = j
               \/ move.at = "point" /\ move.object = j
    BY <2>1 DEF Lasting, Moved, At
  <2>2. QED
    BY <1>2, <2>1 DEF Lasting, Moved, Live, At
<1>13. Alone'
  BY DEF Lasting, Alone, At, Works, Working, Rest
<1>14. Coming'
  BY <1>1, <1>2, <1>3, <1>4, <1>7 DEF Lasting, Coming, Live, At, Placing, Used, Rest
<1>15. Claiming'
  BY <1>2 DEF Lasting, Claiming, Works, Working, Rest
<1>16. Going'
  BY <1>2, <1>4, <1>7 DEF Lasting, Going, Live, At, Rest
<1>17. Held'
  BY <1>2 DEF Lasting, Held, At
<1>18. Sweep'
  BY <1>2, <1>5 DEF Lasting, Sweep, Abandoned, Orphaned, Here
<1>19. Migration'
  <2>1. move.at = "point" /\ Live(move.doc) => Here(move.object)'
    BY <1>3, <1>5 DEF Lasting, Migration
  <2>2. \A g \in Handler : /\ handler'[g].new = handler[g].new \/ handler'[g].new = None
                           /\ handler'[g].prev = handler[g].prev \/ handler'[g].prev = None
    BY DEF Rest
  <2>3. QED
    BY <1>2, <1>4, <1>5, <2>1, <2>2 DEF Lasting, Migration, Live
<1>20. QED
  BY <1>6, <1>7, <1>9, <1>10, <1>11, <1>12, <1>13, <1>14, <1>15, <1>16, <1>17, <1>18, <1>19 DEF Lasting

\* An upload that is not what was sent was never committed.
LEMMA RefuseLasts ==
  ASSUME Typed, Typed', Kept, Lasting, Taking, NEW h \in Handler,
         CommitGdriveUpload(h), ~row[handler[h].new].sound
  PROVE  Lasting' /\ Quiet
<1>1. PICK k \in Object : k = handler[h].new
  BY DEF CommitGdriveUpload, At, Typed, Shaped
<1>2. /\ Drive /\ At(h, "confirm") /\ Here(k) /\ DropRow(k)
      /\ UNCHANGED <<now, blob, file, doc, night, move>>
  BY <1>1 DEF CommitGdriveUpload
<1>3. handler'[h] = Rest /\ \A g \in Handler \ {h} : handler'[g] = handler[g]
  BY Rests DEF CommitGdriveUpload, Typed
<1>4. ~row[k].committed
  BY <1>1, <1>2 DEF Lasting, Uploads
<1>5. \A d \in Doc : doc[d].ref # k
  BY <1>4 DEF Lasting, Held
<1>6. \A g \in Handler : At(g, "make") \/ (At(g, "write") /\ Live(handler[g].doc))
                              => handler[g].new # k
  BY <1>4, ObjectsAssumption DEF Lasting, Coming, Placing, At
<1>7. move.at = "point" => move.object # k
  BY <1>1 DEF Lasting, Migration
<1>8. QED
  BY <1>2, <1>3, <1>5, <1>6, <1>7, DropLasts

\* The collector takes what is abandoned or orphaned still.
LEMMA CollectLasts ==
  ASSUME Typed, Typed', Kept, Lasting, Taking, Collecting
  PROVE  Lasting' /\ Quiet
<1>1. PICK k \in Object : CollectOrphan(k)
  BY DEF Collecting
<1>2. /\ night.doing = "collect" /\ k \in night.todo
      /\ UNCHANGED <<now, blob, file, doc, handler, move>>
  BY <1>1 DEF CollectOrphan
<1>3. night'.todo \subseteq night.todo /\ (night'.doing = "collect" => night.doing = "collect")
  <2>1. NightDone => night'.todo = {}
    BY DEF NightDone, Typed, TypeOK
  <2>2. NightNext(k) => night'.todo \subseteq night.todo
    BY <2>1 DEF NightNext, Typed, TypeOK
  <2>3. QED
    BY <1>1, <1>2, <2>1, <2>2 DEF CollectOrphan
<1>4. CASE ~Here(k)
  <2>1. row' = row
    BY <1>1, <1>4 DEF CollectOrphan
  <2>2. night.todo \subseteq Object
    BY DEF Typed, TypeOK
  <2>3. Sweep'
    BY <1>2, <1>3, <2>1, <2>2 DEF Lasting, Sweep, Abandoned, Orphaned, Here
  <2>4. QED
    BY <1>2, <2>1, <2>3, Unmoved
<1>5. CASE Here(k)
  <2>1. DropRow(k)
    BY <1>1, <1>5 DEF CollectOrphan
  <2>2. Abandoned(k) \/ Orphaned(k)
    BY <1>2, <1>5 DEF Lasting, Sweep
  <2>3. now \in Nat /\ row[k].created \in Nat /\ Grace \in Nat
    BY ObjectsAssumption DEF Typed, TypeOK, ObjectRow
  <2>4. ASSUME NEW g \in Handler, Works(g), handler[g].new = k,
               At(g, "make") \/ doc[handler[g].doc].state # "deleted"
        PROVE  FALSE
    <3>1. row[k].created + Grace >= now /\ row[k].course \in {None, handler[g].doc}
      BY <1>5, <2>4 DEF Lasting, Claiming
    <3>2. ~Abandoned(k)
      BY <2>3, <3>1 DEF Abandoned
    <3>3. At(g, "make") => doc[handler[g].doc].state = "none"
      BY DEF Lasting, Alone
    <3>4. QED
      BY <2>2, <2>4, <3>1, <3>2, <3>3 DEF Orphaned
  <2>5. ASSUME NEW d \in Doc, doc[d].ref = k PROVE FALSE
    <3>1. Live(d)
      BY <2>5, ObjectsAssumption DEF Lasting, Readable
    <3>2. CASE row[k].course = d
      BY <2>2, <3>1, <3>2, ObjectsAssumption DEF Abandoned, Orphaned, Live
    <3>3. CASE /\ row[k].course = None
               /\ \E g \in Handler : /\ handler[g].pc \in {"release", "claim"}
                                     /\ handler[g].doc = d /\ handler[g].new = k
      BY <2>4, <3>1, <3>3 DEF Live, Works, Working
    <3>4. QED
      BY <2>5, <3>2, <3>3 DEF Lasting, Held
  <2>6. \A g \in Handler : At(g, "make") \/ (At(g, "write") /\ Live(handler[g].doc))
                              => handler[g].new # k
    BY <2>4 DEF Works, Working, At, Live
  <2>7. move.at = "point" /\ Live(move.doc) => move.object # k
    <3>1. SUFFICES ASSUME move.at = "point", Live(move.doc), move.object = k PROVE FALSE
      OBVIOUS
    <3>2. row[k].course = move.doc /\ move.doc \in Doc
      BY <1>5, <3>1 DEF Lasting, Migration, Typed, Shaped
    <3>3. QED
      BY <2>2, <3>1, <3>2, ObjectsAssumption DEF Abandoned, Orphaned, Live
  <2>8. QED
    BY <1>2, <1>3, <1>5, <2>1, <2>5, <2>6, <2>7, DropLasts
<1>6. QED
  BY <1>4, <1>5

\* A request that fails, where only what it found gone makes it fail.
LEMMA FailLasts ==
  ASSUME Typed, Typed', Kept, Lasting, Taking, Orderly, NEW h \in Handler, Fail(h)
  PROVE  Lasting' /\ Quiet
<1>1. UNCHANGED <<now, blob, row, file, doc, night, move>>
  BY DEF Fail
<1>2. handler'[h] = Rest /\ \A g \in Handler \ {h} : handler'[g] = handler[g]
  BY Rests DEF Fail, Typed
<1>3. ~At(h, "release") /\ (At(h, "claim") => ~Here(handler[h].new))
  BY DEF Fail, Orderly, At
<1>4. None \notin Doc /\ None \notin Object /\ None \notin Content
  BY ObjectsAssumption DEF Content
<1>5. move.at \in {"record", "point"} => move.object \in Object
  BY DEF Typed, Shaped
<1>6. Readable'
  BY <1>1 DEF Lasting, Readable, Live, Here, Stored
<1>7. Quiet /\ taken' = taken /\ \A c : Spent(c)' <=> Spent(c)
  BY <1>1, <1>6, StillShown DEF Lasting
<1>8. /\ \A d \in Doc, r \in Content : Names(d, r)' => Names(d, r)
      /\ OneDoc' /\ Alone'
  BY <1>1, <1>2, EndsNaming
<1>9. Files'
  BY <1>1, <1>7, <1>8 DEF Lasting, Files, Content
<1>10. Uploads'
  BY <1>1, <1>2, <1>4 DEF Lasting, Uploads, Here, Stored, At, Rest
<1>11. Moved'
  BY <1>1, <1>2, <1>3 DEF Lasting, Moved, Live, Here, At
<1>12. Coming'
  BY <1>1, <1>2, <1>4, <1>7 DEF Lasting, Coming, Live, Here, At, Placing, Used, Rest
<1>13. Claiming'
  BY <1>1, <1>2 DEF Lasting, Claiming, Here, Works, Working, Rest
<1>14. Going'
  BY <1>1, <1>2, <1>4, <1>7 DEF Lasting, Going, Live, Here, At, Rest
<1>15. Held'
  <2>1. \A d \in Doc : doc[d].ref \in Object => Here(doc[d].ref)
    BY DEF Lasting, Readable
  <2>2. QED
    BY <1>1, <1>2, <1>3, <2>1 DEF Lasting, Held, At
<1>16. Sweep'
  BY <1>1 DEF Lasting, Sweep, Abandoned, Orphaned, Here
<1>17. Migration'
  BY <1>1, <1>2, <1>4, <1>5 DEF Lasting, Migration, Live, Here, Rest
<1>18. QED
  BY <1>6, <1>7, <1>8, <1>9, <1>10, <1>11, <1>12, <1>13, <1>14, <1>15, <1>16, <1>17 DEF Lasting

\* Who works has a document, and nobody else's previous and next content is set.
LEMMA WhoNames ==
  ASSUME Typed
  PROVE  \A h \in Handler :
           /\ Works(h) => handler[h].doc \in Doc
           /\ handler[h].prev \in Content => handler[h].doc \in Doc
           /\ handler[h].new \in File => handler[h].doc \in Doc
<1> SUFFICES ASSUME NEW h \in Handler
             PROVE  /\ Works(h) => handler[h].doc \in Doc
                    /\ handler[h].prev \in Content => handler[h].doc \in Doc
                    /\ handler[h].new \in File => handler[h].doc \in Doc
  OBVIOUS
<1>1. None \notin Content /\ \A f \in File : f \notin Object
  BY ObjectsAssumption DEF Content
<1>2. handler[h].pc \in Pc /\ handler[h] \in Locals
  BY DEF Typed, TypeOK, Locals
<1>3. CASE handler[h].pc = "rest"
  BY <1>1, <1>3 DEF Typed, Shaped, Rest, Works, Working, Content
<1>4. CASE handler[h].pc = "confirm"
  BY <1>1, <1>4 DEF Typed, Shaped, Works, Working
<1>5. CASE handler[h].pc \in {"make", "write", "release", "claim", "delete"}
  BY <1>5 DEF Typed, Shaped
<1>6. QED
  BY <1>2, <1>3, <1>4, <1>5 DEF Pc

\* An object the storage holds for a document is what was uploaded, or a file.
LEMMA WhatIsHeld ==
  ASSUME Typed, Lasting, NEW d \in Doc, doc[d].ref \in Object
  PROVE  /\ Live(d) /\ Here(doc[d].ref)
         /\ Spent(doc[d].ref) \/ blob[doc[d].ref] \in File
         /\ move.at \in {"record", "point"} /\ Kept => doc[d].ref # move.object
<1> DEFINE r == doc[d].ref
<1>1. Live(d) /\ Here(r) /\ Stored(r)
  BY ObjectsAssumption DEF Lasting, Readable
<1>2. blob[r] = r \/ blob[r] \in File
  <2>1. None \notin Content /\ Gone \notin Content
    BY ObjectsAssumption DEF Content, Gone
  <2>2. QED
    BY <1>1, <2>1 DEF Lasting, Uploads, Stored
<1>3. blob[r] = r => Spent(r)
  BY ReaderReads DEF Typed, Lasting, Reads, Holds, Spent
<1>4. ASSUME move.at \in {"record", "point"}, Kept, r = move.object PROVE FALSE
  <2>1. move.at # "record"
    BY <1>1, <1>4 DEF Kept, OnItsWay, Here
  <2>2. row[r].course = move.doc /\ move.doc \in Doc /\ None \notin Doc
    BY <1>1, <1>4, <2>1, ObjectsAssumption DEF Lasting, Migration, Typed, Shaped
  <2>3. move.doc = d
    BY <2>2 DEF Lasting, Held
  <2>4. r = move.file /\ move.file \in File
    BY <1>1, <1>4, <2>1, <2>3 DEF Lasting, Migration, Typed, Shaped
  <2>5. QED
    BY <2>4, FilesAreNoObjects
<1>5. QED
  BY <1>1, <1>2, <1>3, <1>4

\* An upload that is offered for the first time is in nobody's hands.
LEMMA Untouched ==
  ASSUME Typed, Kept, Lasting, Orderly, NEW k \in Object, NEW d \in Doc, Here(k), OfferedOnce(k),
         row[k].course = None \/ (row[k].course = d /\ Live(d) /\ Apart(d))
  PROVE  /\ ~Spent(k) /\ ~Used(k) /\ blob[k] \notin File
         /\ \A g \in Handler : handler[g].prev # k /\ handler[g].new # k
         /\ move.at \in {"record", "point"} => move.object # k
         /\ \A e \in Doc : ~Names(e, k)
<1>1. ~Used(k) /\ ~InHand(k) /\ k \notin taken
  BY DEF OfferedOnce, Orderly
<1>2. None \notin Doc /\ None \notin Object /\ k \notin File
  BY ObjectsAssumption
<1>3. ~Spent(k)
  <2>1. ASSUME NEW e \in Doc, Shown(e) = k PROVE FALSE
    <3>1. Holds(doc[e].ref) = k
      BY <2>1, ReaderReads DEF Typed, Lasting, Reads
    <3>2. doc[e].ref \in Object /\ blob[doc[e].ref] = k
      BY <1>1, <3>1 DEF Holds, Used
    <3>3. Gone # k /\ None # k
      BY ObjectsAssumption DEF Gone
    <3>4. doc[e].ref = k
      BY <1>2, <3>2, <3>3 DEF Lasting, Uploads
    <3>5. QED
      BY <1>1, <3>4 DEF Used
  <2>2. QED
    BY <1>1, <2>1 DEF Spent
<1>4. move.at \in {"record", "point"} => move.object # k
  <2>1. ASSUME move.at \in {"record", "point"}, move.object = k PROVE FALSE
    <3>1. move.at = "point"
      BY <2>1 DEF Kept, OnItsWay, Here
    <3>2. row[k].course = move.doc /\ move.doc \in Doc
      BY <2>1, <3>1 DEF Lasting, Migration, Typed, Shaped
    <3>3. QED
      BY <1>2, <3>2 DEF Apart, Orderly
  <2>2. QED
    BY <2>1
<1>5. blob[k] \notin File
  <2>1. ASSUME blob[k] \in File PROVE FALSE
    <3>1. row[k].course = d /\ Live(d) /\ Apart(d)
      BY <1>2, <2>1 DEF Lasting, Moved
    <3>2. ~Editing(d) /\ \A g \in Handler : At(g, "release") => handler[g].doc # d
      BY <3>1 DEF Apart, Orderly, Editing, At
    <3>3. QED
      BY <1>1, <1>4, <2>1, <3>1, <3>2 DEF Lasting, Moved, Used
  <2>2. QED
    BY <2>1
<1>6. \A g \in Handler : handler[g].prev # k /\ handler[g].new # k
  <2>1. \A g \in Handler : handler[g].prev # k
    BY <1>3, <1>5 DEF Lasting, Going
  <2>2. \A g \in Handler : At(g, "rest") => handler[g].new = None
    BY DEF Typed, Shaped, At, Rest
  <2>3. QED
    BY <1>1, <1>2, <2>1, <2>2 DEF InHand
<1>7. \A e \in Doc : ~Names(e, k)
  <2>1. move.file # k /\ move.object # k /\ \A e \in Doc : <<e, k>> \notin move.todo
    BY <1>2, <1>4 DEF Typed, TypeOK, Shaped, MoveLocals
  <2>2. QED
    BY <1>1, <1>6, <2>1 DEF Names, Used
<1>8. QED
  BY <1>1, <1>3, <1>4, <1>5, <1>6, <1>7

LEMMA CreateLasts ==
  ASSUME Typed, Typed', Kept, Lasting, Taking, Orderly, NEW h \in Handler, NEW d \in Doc,
         NEW k \in Object, CreateCourse(h, d, k)
  PROVE  Lasting' /\ Quiet
<1> DEFINE m == [pc |-> "make", doc |-> d, prev |-> None, new |-> k]
<1>1. m \in Locals /\ m.pc = "make" /\ m.new = k /\ m.doc = d /\ m.prev = None
  BY DEF Locals, Pc, Ref, Content
<1>2. Goto(h, m)
  BY DEF CreateCourse
<1> HIDE DEF m
<1>3. /\ handler'[h].pc = "make" /\ handler'[h].new = k /\ handler'[h].doc = d
      /\ handler'[h].prev = None /\ \A g \in Handler \ {h} : handler'[g] = handler[g]
  BY <1>1, <1>2, Moves DEF Typed
<1>4. /\ handler[h] = Rest /\ handler[h].pc = "rest" /\ Here(k) /\ row[k].course = None
      /\ row[k].committed
      /\ doc[d].state = "none" /\ ~Editing(d) /\ OfferedOnce(k) /\ row[k].created + Grace >= now
      /\ UNCHANGED <<now, blob, row, file, doc, night, move>>
  BY DEF CreateCourse, At, Typed, Shaped, InGrace, Ready, Orderly
<1>5. None \notin Doc /\ None \notin Content /\ None \notin Object /\ k \notin File
  BY ObjectsAssumption DEF Content
<1>6. /\ ~Spent(k) /\ ~Used(k) /\ blob[k] \notin File
      /\ \A g \in Handler : handler[g].prev # k /\ handler[g].new # k
      /\ move.at \in {"record", "point"} => move.object # k
      /\ \A e \in Doc : ~Names(e, k)
  BY <1>4, Untouched
<1>7. move.at \in {"record", "point"} => move.object \in Object
  BY DEF Typed, Shaped
<1>8. \A e \in Doc, r \in Content : Names(e, r)' => Names(e, r) \/ (e = d /\ r = k)
  BY <1>3, <1>4, <1>5 DEF Names
<1>9. Readable'
  BY <1>4 DEF Lasting, Readable, Live, Here, Stored
<1>10. Quiet /\ taken' = taken /\ \A c : Spent(c)' <=> Spent(c)
  BY <1>4, <1>9, StillShown DEF Lasting
<1>11. OneDoc'
  BY <1>6, <1>8 DEF Lasting, OneDoc
<1>12. Files'
  BY <1>4, <1>5, <1>8, <1>10 DEF Lasting, Files, Content
<1>13. Uploads'
  BY <1>3, <1>4, <1>6 DEF Lasting, Uploads, Here, Stored, At
<1>14. Moved'
  BY <1>3, <1>4 DEF Lasting, Moved, Live, Here, At, Rest
<1>15. \A g \in Handler : Works(g) => handler[g].doc # d
  BY <1>4 DEF Editing, Works, Working, At
<1>16. move.doc # d /\ \A x \in move.todo : x[1] # d
  BY <1>4, <1>5 DEF Lasting, Migration, Typed, Shaped
<1>17. Alone'
  BY <1>3, <1>4, <1>15, <1>16 DEF Lasting, Alone, At, Works, Working, Rest
<1>18. Coming'
  <2>1. ASSUME NEW g \in Handler \ {h}, Placing(g), handler[g].new # None
        PROVE  handler[g].new # k
    BY <1>6
  <2>2. QED
    BY <1>3, <1>4, <1>5, <1>6, <1>10, <2>1 DEF Lasting, Coming, Live, Here, At, Placing, Used
<1>19. Claiming'
  BY <1>3, <1>4 DEF Lasting, Claiming, Here, Works, Working
<1>20. Going'
  BY <1>3, <1>4, <1>5, <1>10 DEF Lasting, Going, Live, Here, At
<1>21. Held'
  BY <1>3, <1>4 DEF Lasting, Held, Rest
<1>22. Sweep'
  BY <1>4 DEF Lasting, Sweep, Abandoned, Orphaned, Here
<1>23. Migration'
  BY <1>3, <1>4, <1>5, <1>6, <1>7 DEF Lasting, Migration, Live, Here
<1>24. QED
  BY <1>9, <1>10, <1>11, <1>12, <1>13, <1>14, <1>17, <1>18, <1>19, <1>20, <1>21, <1>22, <1>23 DEF Lasting

LEMMA PublishLasts ==
  ASSUME Typed, Typed', Kept, Lasting, Taking, Orderly, NEW h \in Handler, NEW d \in Doc,
         NEW new \in Ref, PublishEdition(h, d, new)
  PROVE  Lasting' /\ Quiet
<1> DEFINE m == [pc |-> "write", doc |-> d, prev |-> doc[d].ref, new |-> new]
<1>1. m \in Locals /\ m.pc = "write" /\ m.new = new /\ m.doc = d /\ m.prev = doc[d].ref
  BY DEF Locals, Pc, Typed, TypeOK
<1>2. Goto(h, m)
  BY DEF PublishEdition
<1> HIDE DEF m
<1>3. /\ handler'[h].pc = "write" /\ handler'[h].new = new /\ handler'[h].doc = d
      /\ handler'[h].prev = doc[d].ref /\ \A g \in Handler \ {h} : handler'[g] = handler[g]
  BY <1>1, <1>2, Moves DEF Typed
<1>4. /\ handler[h] = Rest /\ handler[h].pc = "rest" /\ Live(d) /\ Apart(d)
      /\ new \in Object => /\ Here(new) /\ row[new].course \in {None, d} /\ row[new].committed
                           /\ OfferedOnce(new) /\ row[new].created + Grace >= now
      /\ new \in File => file[new] = "none"
      /\ UNCHANGED <<now, blob, row, doc, night, move>>
  BY DEF PublishEdition, At, Typed, Shaped, InGrace, Ready, Orderly
<1>5. \A f \in File : file'[f] = IF f = new THEN "here" ELSE file[f]
  BY DEF PublishEdition
<1>6. None \notin Doc /\ None \notin Content /\ None \notin Object /\ None \notin File
  BY ObjectsAssumption DEF Content
<1>7. new \in Object =>
        /\ ~Spent(new) /\ ~Used(new) /\ blob[new] \notin File
        /\ \A g \in Handler : handler[g].prev # new /\ handler[g].new # new
        /\ move.at \in {"record", "point"} => move.object # new
        /\ \A e \in Doc : ~Names(e, new)
  BY <1>4, Untouched
<1>8. new \in File => ~Spent(new) /\ (\A e \in Doc : ~Names(e, new))
  BY <1>4 DEF Lasting, Files
<1>9. new \in File => ~Used(new) /\ (\A g \in Handler : handler[g].prev # new /\ handler[g].new # new)
  BY <1>8, WhoNames DEF Names, Used, Content
<1>10. new # None => /\ ~Spent(new) /\ ~Used(new) /\ (\A e \in Doc : ~Names(e, new))
                     /\ (\A g \in Handler : handler[g].prev # new /\ handler[g].new # new)
  BY <1>7, <1>8, <1>9 DEF Ref, Content
<1>11. move.at \in {"record", "point"} => move.object \in Object
  BY DEF Typed, Shaped
<1>12. \A e \in Doc, r \in Content : Names(e, r)' => Names(e, r) \/ (e = d /\ r = new)
  BY <1>3, <1>4 DEF Names
<1>13. \A f \in File : file[f] = "here" => file'[f] = "here"
  BY <1>5
<1>14. Readable'
  BY <1>4, <1>13 DEF Lasting, Readable, Live, Here, Stored
<1>15. Quiet /\ taken' = taken /\ \A c : Spent(c)' <=> Spent(c)
  BY <1>4, <1>14, StillShown DEF Lasting
<1>16. OneDoc'
  BY <1>6, <1>10, <1>12 DEF Lasting, OneDoc
<1>17. Files'
  <2>1. \A f \in File : file'[f] = "none" => file[f] = "none" /\ f # new
    BY <1>5
  <2>2. \A k \in Object : blob[k] \in File => file'[blob[k]] # "none"
    BY <1>5 DEF Lasting, Files
  <2>3. QED
    BY <1>4, <1>12, <1>15, <2>1, <2>2 DEF Lasting, Files, Content
<1>18. Uploads'
  BY <1>3, <1>4, <1>7 DEF Lasting, Uploads, Here, Stored, At
<1>19. Moved'
  BY <1>3, <1>4 DEF Lasting, Moved, Live, Here, At, Rest
<1>20. (\A g \in Handler : Works(g) => handler[g].doc # d)
       /\ move.doc # d /\ \A x \in move.todo : x[1] # d
  BY <1>4 DEF Apart, Orderly, Editing, Works, Working, At
<1>21. Alone'
  BY <1>3, <1>4, <1>20 DEF Lasting, Alone, At, Works, Working, Rest, Live
<1>22. Coming'
  <2>1. ASSUME NEW g \in Handler \ {h}, Placing(g), handler[g].new # None
        PROVE  handler[g].new # new /\ handler[g].new # doc[d].ref
               /\ (handler[g].new \in File => file'[handler[g].new] = "here")
    BY <1>10, <1>13, <2>1 DEF Lasting, Coming, Used
  <2>2. new # None => doc[d].ref # new
    BY <1>10 DEF Used
  <2>3. new \in File => file'[new] = "here"
    BY <1>5
  <2>4. ASSUME new # None
        PROVE  /\ ~Spent(new)' /\ ~Used(new)'
               /\ \A g \in Handler : handler'[g].prev # new
               /\ \A g \in Handler \ {h} : handler'[g].new # new
               /\ new \in Object => Here(new)' /\ row'[new].committed
    BY <1>3, <1>4, <1>10, <1>15, <2>2, <2>4 DEF Used, Here
  <2>5. ASSUME NEW g \in Handler \ {h}, Placing(g), NEW n, n = handler[g].new, n # None
        PROVE  /\ ~Spent(n)' /\ ~Used(n)'
               /\ \A j \in Handler : handler'[j].prev # n
               /\ \A j \in Handler \ {g} : handler'[j].new = n => handler'[j].pc = "confirm"
               /\ n \in File => file'[n] = "here"
               /\ n \in Object /\ (At(g, "make") \/ Live(handler[g].doc)) => Here(n)' /\ row'[n].committed
    <3>1. /\ ~Spent(n) /\ ~Used(n) /\ \A j \in Handler : handler[j].prev # n
          /\ \A j \in Handler \ {g} : handler[j].new = n => handler[j].pc = "confirm"
          /\ n \in Object /\ (At(g, "make") \/ Live(handler[g].doc)) => Here(n) /\ row[n].committed
      BY <2>5 DEF Lasting, Coming, At
    <3>2. QED
      BY <1>3, <1>4, <1>15, <2>1, <2>5, <3>1 DEF Used, Here
  <2>6. QED
    BY <1>3, <1>4, <2>3, <2>4, <2>5 DEF Coming, Placing, At, Live
<1>23. Claiming'
  BY <1>3, <1>4 DEF Lasting, Claiming, Here, Works, Working
<1>24. Going'
  <2>1. doc[d].ref \in Object => Spent(doc[d].ref) \/ blob[doc[d].ref] \in File
    BY WhatIsHeld
  <2>2. QED
    BY <1>3, <1>4, <1>15, <2>1 DEF Lasting, Going, Live, Here, At
<1>25. Held'
  BY <1>3, <1>4 DEF Lasting, Held, Rest
<1>26. Sweep'
  BY <1>4 DEF Lasting, Sweep, Abandoned, Orphaned, Here
<1>27. Migration'
  <2>1. move.at \in {"record", "point"} => doc[d].ref # move.object
    BY <1>11, WhatIsHeld
  <2>2. move.at \in {"record", "point"} => new # move.object
    BY <1>7, <1>11
  <2>3. QED
    BY <1>3, <1>4, <1>11, <2>1, <2>2 DEF Lasting, Migration, Live, Here
<1>28. QED
  BY <1>14, <1>15, <1>16, <1>17, <1>18, <1>19, <1>21, <1>22, <1>23, <1>24, <1>25, <1>26, <1>27 DEF Lasting

LEMMA DeleteLasts ==
  ASSUME Typed, Typed', Kept, Lasting, Taking, NEW h \in Handler, NEW d \in Doc, DeleteCourse(h, d)
  PROVE  Lasting' /\ Quiet
<1> DEFINE m == [pc |-> "delete", doc |-> d, prev |-> doc[d].ref, new |-> None]
<1>1. m \in Locals /\ m.pc = "delete" /\ m.new = None /\ m.doc = d /\ m.prev = doc[d].ref
  BY DEF Locals, Pc, Ref, Typed, TypeOK
<1>2. Goto(h, m)
  BY DEF DeleteCourse
<1> HIDE DEF m
<1>3. /\ handler'[h].pc = "delete" /\ handler'[h].new = None /\ handler'[h].doc = d
      /\ handler'[h].prev = doc[d].ref /\ \A g \in Handler \ {h} : handler'[g] = handler[g]
  BY <1>1, <1>2, Moves DEF Typed
<1>4. /\ handler[h] = Rest /\ handler[h].pc = "rest" /\ Live(d)
      /\ UNCHANGED <<now, blob, row, file, doc, night, move>>
  BY DEF DeleteCourse, At, Typed, Shaped
<1>5. None \notin Doc /\ None \notin Content /\ None \notin Object
  BY ObjectsAssumption DEF Content
<1>6. move.at \in {"record", "point"} => move.object \in Object /\ doc[d].ref # move.object
  BY WhatIsHeld DEF Typed, Shaped
<1>7. \A e \in Doc, r \in Content : Names(e, r)' => Names(e, r)
  BY <1>3, <1>4, <1>5 DEF Names
<1>8. Readable'
  BY <1>4 DEF Lasting, Readable, Live, Here, Stored
<1>9. Quiet /\ taken' = taken /\ \A c : Spent(c)' <=> Spent(c)
  BY <1>4, <1>8, StillShown DEF Lasting
<1>10. OneDoc' /\ Files'
  BY <1>4, <1>7, <1>9 DEF Lasting, OneDoc, Files, Content
<1>11. Uploads'
  BY <1>3, <1>4, <1>5 DEF Lasting, Uploads, Here, Stored, At
<1>12. Moved'
  BY <1>3, <1>4 DEF Lasting, Moved, Live, Here, At, Rest
<1>13. Alone'
  BY <1>3, <1>4 DEF Lasting, Alone, At, Works, Working, Live
<1>14. Coming'
  BY <1>3, <1>4, <1>5, <1>9 DEF Lasting, Coming, Live, Here, At, Placing, Used
<1>15. Claiming'
  BY <1>3, <1>4, <1>5 DEF Lasting, Claiming, Here, Works
<1>16. Going'
  <2>1. doc[d].ref \in Object => Spent(doc[d].ref) \/ blob[doc[d].ref] \in File
    BY WhatIsHeld
  <2>2. QED
    BY <1>3, <1>4, <1>9, <2>1 DEF Lasting, Going, Live, Here, At
<1>17. Held'
  BY <1>3, <1>4 DEF Lasting, Held, Rest
<1>18. Sweep'
  BY <1>4 DEF Lasting, Sweep, Abandoned, Orphaned, Here
<1>19. Migration'
  BY <1>3, <1>4, <1>5, <1>6 DEF Lasting, Migration, Live, Here
<1>20. QED
  BY <1>8, <1>9, <1>10, <1>11, <1>12, <1>13, <1>14, <1>15, <1>16, <1>17, <1>18, <1>19 DEF Lasting

\* A first edition from an upload is shown.
LEMMA MakeLasts ==
  ASSUME Typed, Typed', Kept, Lasting, Taking, NEW h \in Handler, Make(h)
  PROVE  /\ Lasting'
         /\ Shows(handler[h].doc, handler[h].new) /\ handler[h].doc \in Doc
         /\ handler[h].new \in Content /\ ~Spent(handler[h].new)
<1>0. PICK d \in Doc, n \in Object : d = handler[h].doc /\ n = handler[h].new
  BY DEF Make, At, Typed, Shaped
<1>1. /\ At(h, "make") /\ Step(h, "claim") /\ UNCHANGED <<now, blob, row, file, night, move>>
      /\ doc' = [doc EXCEPT ![d] = [state |-> "live", ref |-> n]]
  BY <1>0 DEF Make
<1>2. /\ doc'[d].state = "live" /\ doc'[d].ref = n
      /\ \A e \in Doc \ {d} : doc'[e] = doc[e]
  BY <1>1 DEF Typed, TypeOK
<1>3. /\ handler'[h].pc = "claim" /\ handler'[h].doc = d
      /\ handler'[h].prev = handler[h].prev /\ handler'[h].new = n
      /\ \A g \in Handler \ {h} : handler'[g] = handler[g]
  BY <1>0, <1>1, StepsOn DEF Typed, Pc
<1>4. n \in Content /\ n # None /\ n \notin File /\ None \notin Doc /\ None \notin Content
      /\ Gone \notin Content /\ None \notin Object
  BY ObjectsAssumption DEF Content, Gone
<1>5. /\ ~Spent(n) /\ ~Used(n) /\ Here(n) /\ row[n].committed
      /\ \A g \in Handler : handler[g].prev # n
      /\ \A g \in Handler \ {h} : handler[g].new = n => At(g, "confirm")
  BY <1>0, <1>1, <1>4 DEF Lasting, Coming, Placing, At
<1>6. Stored(n) /\ blob[n] = n
  BY <1>0, <1>4, <1>5 DEF Lasting, Uploads, Stored
<1>7. /\ \A g \in Handler \ {h} : Works(g) => handler[g].doc # d
      /\ move.doc # d /\ \A x \in move.todo : x[1] # d
      /\ doc[d].state = "none"
  BY <1>0, <1>1 DEF Lasting, Alone, Works, Working, At
<1>8. row[n].created + Grace >= now /\ row[n].course \in {None, d}
  BY <1>0, <1>1, <1>5 DEF Lasting, Claiming, Works, Working, At
<1>9. /\ move.at \in {"record", "point"} => move.object \in Object
      /\ move.at # "next" => move.doc \in Doc
  BY DEF Typed, Shaped
<1>10. Readable'
  BY <1>1, <1>2, <1>4, <1>5, <1>6 DEF Lasting, Readable, Live, Here, Stored
<1>11. Shows(d, n)
  <2>1. Reads /\ Reads'
    BY <1>10, ReaderReads, ReaderReadsNext DEF Typed, Lasting
  <2>2. \A e \in Doc \ {d} : Shown(e)' = Shown(e)
    BY <1>1, <1>2, <2>1 DEF Reads, Holds
  <2>3. Shown(d)' = n
    BY <1>1, <1>2, <1>6, <2>1 DEF Reads, Holds
  <2>4. QED
    BY <2>2, <2>3 DEF Shows
<1>12. \A x : x # None => (Spent(x)' <=> Spent(x) \/ x = n)
  BY <1>11, Seen
<1>13. \A e \in Doc, r \in Content : Names(e, r)' => Names(e, r)
  BY <1>0, <1>1, <1>2, <1>3 DEF Names
<1>14. OneDoc'
  BY <1>13 DEF Lasting, OneDoc
<1>15. Files'
  BY <1>1, <1>4, <1>12, <1>13 DEF Lasting, Files, Content
<1>16. Uploads'
  BY <1>0, <1>1, <1>3 DEF Lasting, Uploads, Here, Stored, At
<1>17. Moved'
  BY <1>1, <1>2, <1>3, <1>7 DEF Lasting, Moved, Live, Here, At
<1>18. Alone'
  BY <1>0, <1>1, <1>2, <1>3, <1>7 DEF Lasting, Alone, At, Works, Working
<1>19. Coming'
  <2>1. ASSUME NEW g \in Handler \ {h}, Placing(g), NEW m, m = handler[g].new, m # None
        PROVE  /\ ~Spent(m)' /\ ~Used(m)'
               /\ \A j \in Handler : handler'[j].prev # m
               /\ \A j \in Handler \ {g} : handler'[j].new = m => handler'[j].pc = "confirm"
               /\ m \in File => file'[m] = "here"
               /\ m \in Object /\ (At(g, "make") \/ Live(handler[g].doc)') => Here(m)' /\ row'[m].committed
    <3>1. /\ ~Spent(m) /\ ~Used(m) /\ \A j \in Handler : handler[j].prev # m
          /\ \A j \in Handler \ {g} : handler[j].new = m => handler[j].pc = "confirm"
          /\ m \in File => file[m] = "here"
          /\ m \in Object /\ (At(g, "make") \/ Live(handler[g].doc)) => Here(m) /\ row[m].committed
      BY <2>1 DEF Lasting, Coming, At
    <3>2. n # m
      BY <1>5, <2>1 DEF Placing, At
    <3>3. handler[g].doc # d /\ handler[g].doc \in Doc
      BY <1>7, <2>1, WhoNames DEF Placing, Works, Working, At
    <3>4. QED
      BY <1>0, <1>1, <1>2, <1>3, <1>12, <2>1, <3>1, <3>2, <3>3 DEF Used, Here, Live
  <2>2. QED
    BY <1>3, <2>1 DEF Coming, Placing, At, Live
<1>20. Claiming'
  BY <1>0, <1>1, <1>3, <1>8 DEF Lasting, Claiming, Here, Works, Working
<1>21. Going'
  <2>1. \A x : Spent(x) => Spent(x)' \/ x = None
    BY <1>12
  <2>2. \A g \in Handler \ {h} : At(g, "write") \/ At(g, "release") => handler[g].doc \in Doc \ {d}
    BY <1>7, WhoNames DEF Works, Working, At
  <2>3. QED
    BY <1>1, <1>2, <1>3, <1>4, <2>1, <2>2 DEF Lasting, Going, Live, Here, At
<1>22. Held'
  BY <1>0, <1>1, <1>2, <1>3, <1>5, <1>8 DEF Lasting, Held, At
<1>23. Sweep'
  BY <1>1, <1>2, <1>7 DEF Lasting, Sweep, Abandoned, Orphaned, Here, Typed, TypeOK, ObjectRow
<1>24. Migration'
  <2>1. move.todo \subseteq Doc \X File
    BY DEF Typed, TypeOK, MoveLocals
  <2>2. \A x \in move.todo : x[1] \in Doc \ {d}
    BY <1>7, <2>1
  <2>3. QED
    BY <1>0, <1>1, <1>2, <1>3, <1>7, <1>9, <2>2 DEF Lasting, Migration, Live, Here
<1>25. QED
  BY <1>0, <1>4, <1>5, <1>10, <1>11, <1>14, <1>15, <1>16, <1>17, <1>18, <1>19, <1>20, <1>21, <1>22, <1>23,
     <1>24 DEF Lasting

\* A new edition takes the place of what the request read.
LEMMA WriteLasts ==
  ASSUME Typed, Typed', Kept, Lasting, Taking, NEW h \in Handler, WriteEdition(h)
  PROVE  /\ Lasting'
         /\ Shows(handler[h].doc, handler[h].new) /\ handler[h].doc \in Doc
         /\ handler[h].new = None \/ (handler[h].new \in Content /\ ~Spent(handler[h].new))
<1>0. PICK d \in Doc, n \in Ref : d = handler[h].doc /\ n = handler[h].new
  BY DEF WriteEdition, At, Typed, Shaped, TypeOK, Locals
<1>1. /\ At(h, "write") /\ Live(d) /\ Step(h, "release")
      /\ UNCHANGED <<now, blob, row, file, night, move>>
      /\ doc' = [doc EXCEPT ![d].ref = n]
  BY <1>0 DEF WriteEdition
<1>2. /\ doc'[d].state = "live" /\ doc[d].state = "live" /\ doc'[d].ref = n
      /\ \A e \in Doc \ {d} : doc'[e] = doc[e]
  BY <1>1 DEF Typed, TypeOK, Live
<1>3. /\ handler'[h].pc = "release" /\ handler'[h].doc = d
      /\ handler'[h].prev = handler[h].prev /\ handler'[h].new = n
      /\ \A g \in Handler \ {h} : handler'[g] = handler[g]
  BY <1>0, <1>1, StepsOn DEF Typed, Pc
<1>4. /\ None \notin Doc /\ None \notin Content /\ Gone \notin Content /\ None \notin Object
      /\ None \notin File
  BY ObjectsAssumption DEF Content, Gone
<1>5. n # None =>
        /\ ~Spent(n) /\ ~Used(n)
        /\ n \in Object => Here(n) /\ row[n].committed
        /\ n \in File => file[n] = "here"
        /\ \A g \in Handler : handler[g].prev # n
        /\ \A g \in Handler \ {h} : handler[g].new = n => At(g, "confirm")
  BY <1>0, <1>1 DEF Lasting, Coming, Placing, At
<1>6. n \in Object => Stored(n) /\ blob[n] = n
  BY <1>0, <1>4, <1>5 DEF Lasting, Uploads, Stored
<1>7. /\ \A g \in Handler \ {h} : Works(g) => handler[g].doc # d
      /\ move.doc # d /\ \A x \in move.todo : x[1] # d
  BY <1>0, <1>1 DEF Lasting, Alone, Works, Working, At
<1>8. n \in Object => row[n].created + Grace >= now /\ row[n].course \in {None, d}
  BY <1>0, <1>1, <1>4, <1>5 DEF Lasting, Claiming, Works, Working, At
<1>9. doc[d].ref = handler[h].prev
  BY <1>0, <1>1 DEF Lasting, Going
<1>10. /\ move.at \in {"record", "point"} => move.object \in Object
       /\ move.at # "next" => move.doc \in Doc
  BY DEF Typed, Shaped
<1>11. Readable'
  BY <1>1, <1>2, <1>4, <1>5, <1>6 DEF Lasting, Readable, Live, Here, Stored
<1>12. Shows(d, n)
  <2>1. Reads /\ Reads'
    BY <1>11, ReaderReads, ReaderReadsNext DEF Typed, Lasting
  <2>2. \A e \in Doc \ {d} : Shown(e)' = Shown(e)
    BY <1>1, <1>2, <2>1 DEF Reads, Holds
  <2>3. Shown(d)' = n
    BY <1>1, <1>2, <1>6, <2>1 DEF Reads, Holds
  <2>4. QED
    BY <2>2, <2>3 DEF Shows
<1>13. \A x : x # None => (Spent(x)' <=> Spent(x) \/ x = n)
  BY <1>12, Seen
<1>14. \A e \in Doc, r \in Content : Names(e, r)' => Names(e, r)
  BY <1>0, <1>1, <1>2, <1>3 DEF Names
<1>15. OneDoc'
  BY <1>14 DEF Lasting, OneDoc
<1>16. Files'
  <2>1. \A f \in File : file[f] = "none" => f # n
    BY <1>4, <1>5
  <2>2. QED
    BY <1>1, <1>4, <1>13, <1>14, <2>1 DEF Lasting, Files, Content
<1>17. Uploads'
  BY <1>0, <1>1, <1>3 DEF Lasting, Uploads, Here, Stored, At
<1>18. Moved'
  <2>1. ASSUME NEW k \in Object, Here(k), blob[k] \in File, NEW e \in Doc, e = row[k].course, Live(e)
        PROVE  \/ doc'[e].ref = k
               \/ \E g \in Handler : /\ handler'[g].pc = "release" /\ handler'[g].doc = e
                                     /\ handler'[g].prev = k
               \/ move.at = "point" /\ move.object = k
    <3>1. CASE doc[e].ref = k
      BY <1>2, <1>3, <1>9, <3>1
    <3>2. CASE \E g \in Handler : At(g, "release") /\ handler[g].doc = e /\ handler[g].prev = k
      BY <1>1, <1>3, <3>2 DEF At
    <3>3. QED
      BY <2>1, <3>1, <3>2 DEF Lasting, Moved
  <2>2. \A e \in Doc : doc'[e].state = doc[e].state
    BY <1>2
  <2>3. QED
    BY <1>1, <2>1, <2>2 DEF Lasting, Moved, Live, Here, At
<1>19. Alone'
  BY <1>0, <1>1, <1>2, <1>3, <1>7 DEF Lasting, Alone, At, Works, Working
<1>20. Coming'
  <2>1. ASSUME NEW g \in Handler \ {h}, Placing(g), NEW m, m = handler[g].new, m # None
        PROVE  /\ ~Spent(m)' /\ ~Used(m)'
               /\ \A j \in Handler : handler'[j].prev # m
               /\ \A j \in Handler \ {g} : handler'[j].new = m => handler'[j].pc = "confirm"
               /\ m \in File => file'[m] = "here"
               /\ m \in Object /\ (At(g, "make") \/ Live(handler[g].doc)') => Here(m)' /\ row'[m].committed
    <3>1. /\ ~Spent(m) /\ ~Used(m) /\ \A j \in Handler : handler[j].prev # m
          /\ \A j \in Handler \ {g} : handler[j].new = m => handler[j].pc = "confirm"
          /\ m \in File => file[m] = "here"
          /\ m \in Object /\ (At(g, "make") \/ Live(handler[g].doc)) => Here(m) /\ row[m].committed
      BY <2>1 DEF Lasting, Coming, At
    <3>2. n # m
      BY <1>5, <2>1 DEF Placing, At
    <3>3. handler[g].doc # d /\ handler[g].doc \in Doc
      BY <1>7, <2>1, WhoNames DEF Placing, Works, Working, At
    <3>4. QED
      BY <1>0, <1>1, <1>2, <1>3, <1>13, <2>1, <3>1, <3>2, <3>3 DEF Used, Here, Live
  <2>2. QED
    BY <1>3, <2>1 DEF Coming, Placing, At, Live
<1>21. Claiming'
  BY <1>0, <1>1, <1>3, <1>8 DEF Lasting, Claiming, Here, Works, Working
<1>22. Going'
  <2>1. \A x : Spent(x) => Spent(x)' \/ x = None
    BY <1>13
  <2>2. \A g \in Handler \ {h} : At(g, "write") \/ At(g, "release") => handler[g].doc \in Doc \ {d}
    BY <1>7, WhoNames DEF Works, Working, At
  <2>3. handler[h].prev # None => n # handler[h].prev
    BY <1>5
  <2>4. QED
    BY <1>0, <1>1, <1>2, <1>3, <1>4, <2>1, <2>2, <2>3 DEF Lasting, Going, Live, Here, At
<1>23. Held'
  <2>1. n \in Object => row[n].committed
    BY <1>4, <1>5
  <2>2. QED
    BY <1>0, <1>1, <1>2, <1>3, <1>8, <2>1 DEF Lasting, Held, At
<1>24. Sweep'
  <2>1. \A e \in Doc : doc'[e].state = doc[e].state
    BY <1>2
  <2>2. QED
    BY <1>1, <2>1 DEF Lasting, Sweep, Abandoned, Orphaned, Here, Typed, TypeOK, ObjectRow
<1>25. Migration'
  <2>1. move.todo \subseteq Doc \X File
    BY DEF Typed, TypeOK, MoveLocals
  <2>2. \A x \in move.todo : x[1] \in Doc \ {d}
    BY <1>7, <2>1
  <2>3. QED
    BY <1>0, <1>1, <1>2, <1>3, <1>7, <1>10, <2>2 DEF Lasting, Migration, Live, Here
<1>26. QED
  BY <1>0, <1>5, <1>11, <1>12, <1>15, <1>16, <1>17, <1>18, <1>19, <1>20, <1>21, <1>22, <1>23, <1>24, <1>25
     DEF Lasting, Ref

\* What releasing leaves: everything but the content released.
LEMMA ReleaseLeaves ==
  ASSUME Typed, NEW p \in Ref, Release(p)
  PROVE  /\ \A j \in Object : /\ Here(j)' <=> Here(j) /\ j # p
                              /\ row'[j].course = row[j].course /\ row'[j].created = row[j].created
                              /\ row'[j].sound = row[j].sound
                              /\ row'[j].committed = row[j].committed
                              /\ row'[j].session = "complete" => row[j].session = "complete"
         /\ \A f \in File : file'[f] = IF f = p THEN "gone" ELSE file[f]
<1>1. CASE p \in Object
  <2>1. DropRow(p) /\ file' = file
    BY <1>1, Released DEF Typed
  <2>2. /\ row'[p].state = (IF Here(p) THEN "gone" ELSE row[p].state)
        /\ row'[p].session = (IF Here(p) THEN "none" ELSE row[p].session)
        /\ row'[p].course = row[p].course /\ row'[p].created = row[p].created
        /\ row'[p].sound = row[p].sound /\ row'[p].committed = row[p].committed
        /\ \A j \in Object \ {p} : row'[j] = row[j]
    BY <1>1, <2>1, Dropped DEF Typed
  <2>3. QED
    BY <1>1, <2>1, <2>2, FilesAreNoObjects DEF Here
<1>2. CASE p \in File
  <2>1. row' = row /\ file' = [file EXCEPT ![p] = "gone"] /\ p \notin Object
    BY <1>2, Released, FilesAreNoObjects DEF Typed
  <2>2. QED
    BY <2>1 DEF Typed, TypeOK, Here
<1>3. CASE p = None
  <2>1. row' = row /\ file' = file
    BY <1>3, Released DEF Typed
  <2>2. QED
    BY <1>3, <2>1, ObjectsAssumption DEF Here
<1>4. QED
  BY <1>1, <1>2, <1>3 DEF Ref, Content

LEMMA ReleaseLasts ==
  ASSUME Typed, Typed', Kept, Lasting, Taking, NEW h \in Handler, ReleasePrevious(h)
  PROVE  Lasting' /\ Quiet
<1>0. PICK d \in Doc, p \in Ref : d = handler[h].doc /\ p = handler[h].prev
  BY DEF ReleasePrevious, At, Typed, Shaped, TypeOK, Locals
<1>1. At(h, "release") /\ Release(p) /\ UNCHANGED <<now, blob, doc, night, move>>
  BY <1>0 DEF ReleasePrevious
<1>2. /\ \A j \in Object : /\ Here(j)' <=> Here(j) /\ j # p
                           /\ row'[j].course = row[j].course /\ row'[j].created = row[j].created
                           /\ row'[j].sound = row[j].sound
                           /\ row'[j].committed = row[j].committed
                           /\ row'[j].session = "complete" => row[j].session = "complete"
      /\ \A f \in File : file'[f] = IF f = p THEN "gone" ELSE file[f]
  BY <1>1, ReleaseLeaves
<1>3. /\ \/ handler[h].new \in Object /\ handler'[h].pc = "claim" /\ handler'[h].doc = d
            /\ handler'[h].prev = p /\ handler'[h].new = handler[h].new
         \/ handler[h].new \notin Object /\ handler'[h] = Rest
      /\ \A g \in Handler \ {h} : handler'[g] = handler[g]
  <2>1. CASE handler[h].new \in Object
    BY <1>0, <2>1, StepsOn DEF ReleasePrevious, Typed, Pc
  <2>2. CASE handler[h].new \notin Object
    BY <2>2, Rests DEF ReleasePrevious, Typed
  <2>3. QED
    BY <2>1, <2>2
<1>4. None \notin Doc /\ None \notin Object /\ None \notin Content /\ None \notin File
  BY ObjectsAssumption DEF Content
<1>5. /\ move.at \in {"record", "point"} => move.object \in Object /\ move.object # p
      /\ move.at # "next" => move.doc \in Doc /\ move.file \in File
  BY <1>0 DEF Typed, Shaped, Lasting, Migration
<1>6. \A e \in Doc : p # None => doc[e].ref # p
  <2>1. ASSUME NEW e \in Doc, doc[e].ref = p, p # None PROVE FALSE
    <3>1. p \in Content /\ Names(d, p) /\ Names(e, p)
      BY <1>0, <2>1 DEF Names, Ref
    <3>2. e = d
      BY <3>1 DEF Lasting, OneDoc
    <3>3. QED
      BY <1>0, <1>1, <2>1, <3>2 DEF Lasting, Going
  <2>2. QED
    BY <2>1
<1>7. Readable'
  <2>1. ASSUME NEW e \in Doc, NEW r, r = doc[e].ref
        PROVE  /\ r \in File => \/ file'[r] = "here"
                                \/ /\ move.at = "point" /\ move.doc = e /\ move.file = r
                                   /\ Here(move.object)' /\ Stored(move.object)
               /\ r \in Object => Here(r)' /\ Stored(r)
    <3>1. /\ r \in File => \/ file[r] = "here"
                            \/ /\ move.at = "point" /\ move.doc = e /\ move.file = r
                               /\ Here(move.object) /\ Stored(move.object)
          /\ r \in Object => Here(r) /\ Stored(r)
      BY <2>1 DEF Lasting, Readable
    <3>2. r \in Content => r # p
      BY <1>4, <1>6, <2>1
    <3>3. r \in File => file'[r] = file[r]
      BY <1>2, <3>2 DEF Content
    <3>4. move.at = "point" /\ Here(move.object) => Here(move.object)'
      BY <1>1, <1>2, <1>5
    <3>5. r \in Object /\ Here(r) => Here(r)'
      BY <1>2, <3>2 DEF Content
    <3>6. QED
      BY <3>1, <3>3, <3>4, <3>5
  <2>2. QED
    BY <1>1, <2>1 DEF Lasting, Readable, Live, Stored, Here
<1>8. Quiet /\ taken' = taken /\ \A c : Spent(c)' <=> Spent(c)
  BY <1>1, <1>7, StillShown DEF Lasting
<1>9. \A e \in Doc, r \in Content : Names(e, r)' => Names(e, r)
  BY <1>0, <1>1, <1>3, <1>4 DEF Names, Rest
<1>10. OneDoc'
  BY <1>9 DEF Lasting, OneDoc
<1>11. Files'
  BY <1>1, <1>2, <1>8, <1>9 DEF Lasting, Files, Content
<1>12. Uploads'
  <2>1. \A g \in Handler : At(g, "confirm") => handler[g].new \in Object
    BY DEF Typed, Shaped, At
  <2>2. \A g \in Handler : /\ handler'[g].new \in Object => handler'[g].new = handler[g].new
                           /\ At(g, "confirm")' => At(g, "confirm") /\ handler'[g] = handler[g]
    BY <1>3, <1>4 DEF At, Rest
  <2>3. QED
    BY <1>1, <1>2, <2>1, <2>2 DEF Lasting, Uploads, Stored
<1>13. Moved'
  <2>1. ASSUME NEW k \in Object, Here(k), k # p, blob[k] \in File, Live(row[k].course)
        PROVE  \/ doc[row[k].course].ref = k
               \/ \E g \in Handler : /\ handler'[g].pc = "release" /\ handler'[g].doc = row[k].course
                                     /\ handler'[g].prev = k
               \/ move.at = "point" /\ move.object = k
    BY <1>0, <1>3, <2>1 DEF Lasting, Moved, At
  <2>2. QED
    BY <1>1, <1>2, <2>1 DEF Lasting, Moved, Live, At
<1>14. Alone'
  <2>1. \A g \in Handler : /\ Works(g)' => Works(g) /\ handler'[g].doc = handler[g].doc
                           /\ At(g, "make")' => At(g, "make") /\ handler'[g].doc = handler[g].doc
                           /\ handler'[g].pc \in {"write", "release", "claim", "delete"}
                              => handler[g].pc \in {"write", "release", "claim", "delete"}
                                 /\ handler'[g].doc = handler[g].doc
    BY <1>0, <1>1, <1>3 DEF Works, Working, At, Rest
  <2>2. QED
    BY <1>1, <2>1 DEF Lasting, Alone
<1>15. Coming'
  <2>1. \A g \in Handler : /\ Placing(g)' => Placing(g) /\ handler'[g] = handler[g]
                           /\ At(g, "confirm") => handler'[g] = handler[g]
                           /\ handler'[g].prev = handler[g].prev \/ handler'[g].prev = None
                           /\ handler'[g].new = handler[g].new \/ handler'[g].new = None
    BY <1>0, <1>1, <1>3 DEF Placing, At, Rest
  <2>2. ASSUME NEW g \in Handler, Placing(g)', NEW n, n = handler[g].new, n # None
        PROVE  /\ ~Spent(n)' /\ ~Used(n)'
               /\ \A j \in Handler : handler'[j].prev # n
               /\ \A j \in Handler \ {g} : handler'[j].new = n => handler'[j].pc = "confirm"
               /\ n \in File => file'[n] = "here"
               /\ n \in Object /\ (At(g, "make") \/ Live(handler[g].doc)) => Here(n)' /\ row'[n].committed
    <3>1. /\ ~Spent(n) /\ ~Used(n) /\ \A j \in Handler : handler[j].prev # n
          /\ \A j \in Handler \ {g} : handler[j].new = n => handler[j].pc = "confirm"
          /\ n \in File => file[n] = "here"
          /\ n \in Object /\ (At(g, "make") \/ Live(handler[g].doc)) => Here(n) /\ row[n].committed
      BY <2>1, <2>2 DEF Lasting, Coming, At
    <3>2. n # p
      BY <1>0, <3>1
    <3>3. QED
      BY <1>1, <1>2, <1>8, <2>1, <2>2, <3>1, <3>2 DEF Used, At
  <2>3. QED
    BY <1>1, <2>1, <2>2 DEF Coming, At, Live
<1>16. Claiming'
  BY <1>0, <1>1, <1>2, <1>3 DEF Lasting, Claiming, Works, Working, At, Rest
<1>17. Going'
  BY <1>0, <1>1, <1>2, <1>3, <1>4, <1>8 DEF Lasting, Going, Live, At, Rest
<1>18. Held'
  BY <1>0, <1>1, <1>2, <1>3 DEF Lasting, Held, At
<1>19. Sweep'
  <2>1. night.todo \subseteq Object
    BY DEF Typed, TypeOK
  <2>2. QED
    BY <1>1, <1>2, <2>1 DEF Lasting, Sweep, Abandoned, Orphaned
<1>20. Migration'
  <2>1. move.at \in {"record", "point"} => \A g \in Handler : handler'[g].new # move.object
                                                             /\ handler'[g].prev # move.object
    BY <1>0, <1>3, <1>4, <1>5 DEF Lasting, Migration, Rest
  <2>2. QED
    BY <1>1, <1>2, <1>5, <2>1 DEF Lasting, Migration, Live
<1>21. QED
  BY <1>7, <1>8, <1>10, <1>11, <1>12, <1>13, <1>14, <1>15, <1>16, <1>17, <1>18, <1>19, <1>20 DEF Lasting

LEMMA DeleteCommitLasts ==
  ASSUME Typed, Typed', Kept, Lasting, Taking, NEW h \in Handler, DeleteCommit(h)
  PROVE  /\ Lasting'
         /\ Shows(handler[h].doc, None) /\ handler[h].doc \in Doc
<1>0. PICK d \in Doc, p \in Ref : d = handler[h].doc /\ p = handler[h].prev
  BY DEF DeleteCommit, At, Typed, Shaped, TypeOK, Locals
<1>1. /\ At(h, "delete") /\ Live(d) /\ Release(p) /\ UNCHANGED <<now, blob, night, move>>
      /\ doc' = [doc EXCEPT ![d] = [state |-> "deleted", ref |-> None]]
  BY <1>0 DEF DeleteCommit
<1>2. /\ \A j \in Object : /\ Here(j)' <=> Here(j) /\ j # p
                           /\ row'[j].course = row[j].course /\ row'[j].created = row[j].created
                           /\ row'[j].sound = row[j].sound
                           /\ row'[j].committed = row[j].committed
                           /\ row'[j].session = "complete" => row[j].session = "complete"
      /\ \A f \in File : file'[f] = IF f = p THEN "gone" ELSE file[f]
  BY <1>1, ReleaseLeaves
<1>3. handler'[h] = Rest /\ \A g \in Handler \ {h} : handler'[g] = handler[g]
  BY Rests DEF DeleteCommit, Typed
<1>4. None \notin Doc /\ None \notin Object /\ None \notin Content /\ None \notin File
  BY ObjectsAssumption DEF Content
<1>5. /\ doc'[d].state = "deleted" /\ doc'[d].ref = None
      /\ \A e \in Doc \ {d} : doc'[e] = doc[e]
  BY <1>1 DEF Typed, TypeOK
<1>6. /\ move.at \in {"record", "point"} => move.object \in Object /\ move.object # p
      /\ move.at # "next" => move.doc \in Doc /\ move.file \in File
  BY <1>0 DEF Typed, Shaped, Lasting, Migration
<1>7. \A e \in Doc \ {d} : p # None => doc[e].ref # p
  <2>1. ASSUME NEW e \in Doc \ {d}, doc[e].ref = p, p # None PROVE FALSE
    <3>1. p \in Content /\ Names(d, p) /\ Names(e, p)
      BY <1>0, <2>1 DEF Names, Ref
    <3>2. QED
      BY <2>1, <3>1 DEF Lasting, OneDoc
  <2>2. QED
    BY <2>1
<1>8. Readable'
  <2>1. ASSUME NEW e \in Doc \ {d}, NEW r, r = doc[e].ref
        PROVE  /\ r \in File => \/ file'[r] = "here"
                                \/ /\ move.at = "point" /\ move.doc = e /\ move.file = r
                                   /\ Here(move.object)' /\ Stored(move.object)
               /\ r \in Object => Here(r)' /\ Stored(r)
    <3>1. /\ r \in File => \/ file[r] = "here"
                            \/ /\ move.at = "point" /\ move.doc = e /\ move.file = r
                               /\ Here(move.object) /\ Stored(move.object)
          /\ r \in Object => Here(r) /\ Stored(r)
      BY <2>1 DEF Lasting, Readable
    <3>2. r \in Content => r # p
      BY <1>4, <1>7, <2>1
    <3>3. r \in File => file'[r] = file[r]
      BY <1>2, <3>2 DEF Content
    <3>4. move.at = "point" /\ Here(move.object) => Here(move.object)'
      BY <1>1, <1>2, <1>6
    <3>5. r \in Object /\ Here(r) => Here(r)'
      BY <1>2, <3>2 DEF Content
    <3>6. QED
      BY <3>1, <3>3, <3>4, <3>5
  <2>2. \A e \in Doc \ {d} : ~Live(e) => doc[e].ref = None
    BY DEF Lasting, Readable
  <2>3. QED
    BY <1>1, <1>4, <1>5, <2>1, <2>2 DEF Readable, Live, Stored, Here
<1>9. Shows(d, None)
  <2>1. Reads /\ Reads'
    BY <1>8, ReaderReads, ReaderReadsNext DEF Typed, Lasting
  <2>2. \A e \in Doc \ {d} : Shown(e)' = Shown(e)
    BY <1>1, <1>5, <2>1 DEF Reads, Holds
  <2>3. Shown(d)' = None
    BY <1>4, <1>5, <2>1 DEF Reads, Holds
  <2>4. QED
    BY <2>2, <2>3 DEF Shows
<1>10. \A x : x # None => (Spent(x)' <=> Spent(x))
  BY <1>9, Seen
<1>11. \A e \in Doc, r \in Content : Names(e, r)' => Names(e, r)
  BY <1>1, <1>3, <1>4, <1>5 DEF Names, Rest
<1>12. OneDoc'
  BY <1>11 DEF Lasting, OneDoc
<1>13. Files'
  BY <1>1, <1>2, <1>4, <1>10, <1>11 DEF Lasting, Files, Content
<1>14. Uploads'
  <2>1. \A g \in Handler : At(g, "confirm") => handler[g].new \in Object
    BY DEF Typed, Shaped, At
  <2>2. \A g \in Handler : /\ handler'[g].new \in Object => handler'[g].new = handler[g].new
                           /\ At(g, "confirm")' => At(g, "confirm") /\ handler'[g] = handler[g]
    BY <1>3, <1>4 DEF At, Rest
  <2>3. QED
    BY <1>1, <1>2, <2>1, <2>2 DEF Lasting, Uploads, Stored
<1>15. Moved'
  <2>1. ASSUME NEW k \in Object, Here(k), k # p, blob[k] \in File, NEW e, e = row[k].course,
               e \in Doc \ {d}, Live(e)
        PROVE  \/ doc[e].ref = k
               \/ \E g \in Handler : /\ handler'[g].pc = "release" /\ handler'[g].doc = e
                                     /\ handler'[g].prev = k
               \/ move.at = "point" /\ move.object = k
    BY <1>1, <1>3, <2>1 DEF Lasting, Moved, At
  <2>2. \A e \in Doc : doc[e].state # "none" => doc'[e].state # "none"
    BY <1>5
  <2>3. \A e \in Doc : doc'[e].state = "live" => e # d /\ Live(e)
    BY <1>5 DEF Live
  <2>4. QED
    BY <1>1, <1>2, <1>5, <2>1, <2>2, <2>3 DEF Lasting, Moved, Live, At
<1>16. Alone'
  <2>1. doc[d].state # "none" /\ \A e \in Doc : doc[e].state # "none" <=> doc'[e].state # "none"
    BY <1>1, <1>5 DEF Live
  <2>2. \A g \in Handler : handler[g].pc \in {"make", "write", "release", "claim", "delete"}
                             => handler[g].doc \in Doc
    BY DEF Typed, Shaped
  <2>3. QED
    BY <1>1, <1>3, <2>1, <2>2 DEF Lasting, Alone, Works, Working, At, Rest
<1>17. Coming'
  <2>1. ASSUME NEW g \in Handler \ {h}, Placing(g), NEW n, n = handler[g].new, n # None
        PROVE  /\ ~Spent(n)' /\ ~Used(n)'
               /\ \A j \in Handler : handler'[j].prev # n
               /\ \A j \in Handler \ {g} : handler'[j].new = n => handler'[j].pc = "confirm"
               /\ n \in File => file'[n] = "here"
               /\ n \in Object /\ (At(g, "make") \/ Live(handler[g].doc)') => Here(n)' /\ row'[n].committed
    <3>1. /\ ~Spent(n) /\ ~Used(n) /\ \A j \in Handler : handler[j].prev # n
          /\ \A j \in Handler \ {g} : handler[j].new = n => handler[j].pc = "confirm"
          /\ n \in File => file[n] = "here"
          /\ n \in Object /\ (At(g, "make") \/ Live(handler[g].doc)) => Here(n) /\ row[n].committed
      BY <2>1 DEF Lasting, Coming, At
    <3>2. n # p
      BY <1>0, <3>1
    <3>3. handler[g].doc \in Doc
      BY <2>1, WhoNames DEF Placing, Works, Working
    <3>4. Live(handler[g].doc)' => Live(handler[g].doc)
      BY <1>3, <1>5, <3>3 DEF Live
    <3>5. ~Used(n)'
      BY <1>5, <2>1, <3>1 DEF Used
    <3>6. QED
      BY <1>1, <1>2, <1>3, <1>10, <2>1, <3>1, <3>2, <3>4, <3>5 DEF Rest
  <2>2. QED
    BY <1>3, <2>1 DEF Coming, Placing, At, Live, Rest
<1>18. Claiming'
  BY <1>0, <1>1, <1>2, <1>3 DEF Lasting, Claiming, Works, Working, At, Rest
<1>19. Going'
  <2>1. \A g \in Handler \ {h} : At(g, "write") \/ At(g, "release") => handler[g].doc \in Doc
    BY DEF Typed, Shaped, At
  <2>2. QED
    BY <1>0, <1>1, <1>2, <1>3, <1>4, <1>5, <1>10, <2>1 DEF Lasting, Going, Live, At, Rest
<1>20. Held'
  BY <1>0, <1>1, <1>2, <1>3, <1>4, <1>5 DEF Lasting, Held, At
<1>21. Sweep'
  <2>1. night.todo \subseteq Object
    BY DEF Typed, TypeOK
  <2>2. \A k \in Object : row[k].course \in Doc \cup {None}
    BY DEF Typed, TypeOK, ObjectRow
  <2>3. \A e \in Doc : doc[e].state = "deleted" => doc'[e].state = "deleted"
    BY <1>5
  <2>4. ASSUME NEW k \in Object, Here(k)', Abandoned(k) \/ Orphaned(k)
        PROVE  Abandoned(k)' \/ Orphaned(k)'
    BY <1>1, <1>2, <2>2, <2>3, <2>4 DEF Abandoned, Orphaned
  <2>5. QED
    BY <1>1, <1>2, <2>1, <2>4 DEF Lasting, Sweep
<1>22. Migration'
  <2>1. move.at \in {"record", "point"} => \A g \in Handler : handler'[g].new # move.object
                                                             /\ handler'[g].prev # move.object
    BY <1>0, <1>3, <1>4, <1>6 DEF Lasting, Migration, Rest
  <2>2. move.todo \subseteq Doc \X File
    BY DEF Typed, TypeOK, MoveLocals
  <2>3. \A x \in move.todo : x[1] \in Doc
    BY <2>2
  <2>4. \A e \in Doc : /\ doc'[e].state = "live" => Live(e) /\ doc'[e] = doc[e]
                       /\ doc[e].state # "none" => doc'[e].state # "none"
    BY <1>5 DEF Live
  <2>5. QED
    BY <1>1, <1>2, <1>6, <2>1, <2>3, <2>4 DEF Lasting, Migration, Live
<1>23. QED
  BY <1>0, <1>8, <1>9, <1>12, <1>13, <1>14, <1>15, <1>16, <1>17, <1>18, <1>19, <1>20, <1>21, <1>22
     DEF Lasting

LEMMA InlineLasts ==
  ASSUME Typed, Typed', Kept, Lasting, Taking, NEW d \in Doc, NEW f \in File, CreateInline(d, f)
  PROVE  Lasting' /\ Shows(d, f) /\ ~Spent(f)
<1>1. /\ doc[d].state = "none" /\ ~Editing(d) /\ file[f] = "none"
      /\ file' = [file EXCEPT ![f] = "here"]
      /\ doc' = [doc EXCEPT ![d] = [state |-> "live", ref |-> f]]
      /\ UNCHANGED <<now, blob, row, handler, night, move>>
  BY DEF CreateInline
<1>2. /\ doc'[d].state = "live" /\ doc'[d].ref = f
      /\ \A e \in Doc \ {d} : doc'[e] = doc[e]
      /\ file'[f] = "here" /\ \A g \in File \ {f} : file'[g] = file[g]
  BY <1>1 DEF Typed, TypeOK
<1>3. None \notin Doc /\ None \notin Object /\ None \notin Content /\ f \notin Object /\ f \in Content
      /\ f # None
  BY ObjectsAssumption DEF Content
<1>4. ~Spent(f) /\ \A e \in Doc : ~Names(e, f)
  BY <1>1 DEF Lasting, Files
<1>5. /\ move.at \in {"record", "point"} => move.object \in Object
      /\ move.at # "next" => move.doc \in Doc /\ move.file \in File
  BY DEF Typed, Shaped
<1>6. move.doc # d /\ \A x \in move.todo : x[1] # d
  BY <1>1, <1>3 DEF Lasting, Migration, Typed, Shaped
<1>7. \A g \in Handler : Works(g) => handler[g].doc \in Doc \ {d}
  BY <1>1, WhoNames DEF Editing, Works, Working, At
<1>8. Readable'
  <2>1. \A e \in Doc : e # d => doc[e].ref # f
    BY <1>4 DEF Names
  <2>2. QED
    BY <1>1, <1>2, <1>3, <2>1 DEF Lasting, Readable, Live, Stored, Here
<1>9. Shows(d, f)
  <2>1. Reads /\ Reads'
    BY <1>8, ReaderReads, ReaderReadsNext DEF Typed, Lasting
  <2>2. \A e \in Doc \ {d} : Shown(e)' = Shown(e)
    BY <1>1, <1>2, <2>1 DEF Reads, Holds
  <2>3. Shown(d)' = f
    BY <1>2, <1>3, <2>1 DEF Reads, Holds
  <2>4. QED
    BY <2>2, <2>3 DEF Shows
<1>10. \A x : x # None => (Spent(x)' <=> Spent(x) \/ x = f)
  BY <1>9, Seen
<1>11. \A e \in Doc, r \in Content : Names(e, r)' => Names(e, r) \/ (e = d /\ r = f)
  BY <1>1, <1>2 DEF Names
<1>12. OneDoc'
  BY <1>4, <1>11 DEF Lasting, OneDoc
<1>13. Files'
  <2>1. \A g \in File : file'[g] = "none" => g # f /\ g # None /\ file[g] = "none"
    BY <1>2, <1>3, ObjectsAssumption
  <2>2. \A k \in Object : blob[k] \in File => file'[blob[k]] # "none"
    BY <1>2 DEF Lasting, Files
  <2>3. QED
    BY <1>1, <1>10, <1>11, <2>1, <2>2 DEF Lasting, Files, Content
<1>14. Uploads'
  BY <1>1 DEF Lasting, Uploads, Here, Stored, At
<1>15. Moved'
  BY <1>1, <1>2 DEF Lasting, Moved, Live, Here, At
<1>16. Alone'
  BY <1>1, <1>2, <1>7 DEF Lasting, Alone, Works, Working, At
<1>17. Coming'
  <2>1. ASSUME NEW g \in Handler, Placing(g), NEW n, n = handler[g].new, n # None
        PROVE  n # f /\ handler[g].doc \in Doc \ {d}
    <3>1. handler[g].doc \in Doc \ {d}
      BY <1>7, <2>1 DEF Placing, Works, Working
    <3>2. Names(handler[g].doc, n)
      BY <2>1, <3>1 DEF Names
    <3>3. QED
      BY <1>4, <3>1, <3>2
  <2>2. ASSUME NEW g \in Handler, Placing(g), NEW n, n = handler[g].new, n # None
        PROVE  /\ ~Spent(n)' /\ ~Used(n)'
               /\ n \in File => file'[n] = "here"
               /\ Live(handler[g].doc)' <=> Live(handler[g].doc)
    <3>1. n # f /\ handler[g].doc \in Doc \ {d} /\ ~Spent(n) /\ ~Used(n)
          /\ (n \in File => file[n] = "here")
      BY <2>1, <2>2 DEF Lasting, Coming
    <3>2. ~Used(n)'
      BY <1>2, <3>1 DEF Used
    <3>3. QED
      BY <1>1, <1>2, <1>10, <2>2, <3>1, <3>2 DEF Live
  <2>3. QED
    BY <1>1, <2>2 DEF Lasting, Coming, Placing, At, Live, Here
<1>18. Claiming'
  BY <1>1 DEF Lasting, Claiming, Works, Here
<1>19. Going'
  <2>1. \A g \in Handler : At(g, "write") \/ At(g, "release") => handler[g].doc \in Doc \ {d}
    BY <1>7 DEF Works, Working, At
  <2>2. QED
    BY <1>1, <1>2, <1>3, <1>10, <2>1 DEF Lasting, Going, Live, At, Here
<1>20. Held'
  BY <1>1, <1>2, <1>3 DEF Lasting, Held
<1>21. Sweep'
  BY <1>1, <1>2 DEF Lasting, Sweep, Abandoned, Orphaned, Here, Typed, TypeOK, ObjectRow
<1>22. Migration'
  <2>1. move.todo \subseteq Doc \X File
    BY DEF Typed, TypeOK, MoveLocals
  <2>2. \A x \in move.todo : x[1] \in Doc \ {d}
    BY <1>6, <2>1
  <2>3. QED
    BY <1>1, <1>2, <1>5, <1>6, <2>2 DEF Lasting, Migration, Live, Here
<1>23. QED
  BY <1>4, <1>8, <1>9, <1>12, <1>13, <1>14, <1>15, <1>16, <1>17, <1>18, <1>19, <1>20, <1>21, <1>22
     DEF Lasting

\* The migration gives up, or goes on with the next of its list: nothing in hand.
LEMMA MoveEndsLasts ==
  ASSUME Typed, Typed', Kept, Lasting, Taking, move.at # "point",
         UNCHANGED <<now, blob, row, file, doc, handler, night>>,
         move'.todo \subseteq move.todo, move'.at = "next", move'.doc = None, move'.file = None,
         move'.object = None
  PROVE  Lasting' /\ Quiet
<1>1. None \notin Doc /\ None \notin Content
  BY ObjectsAssumption DEF Content
<1>2. Readable'
  BY DEF Lasting, Readable, Live, Here, Stored
<1>3. Quiet /\ taken' = taken /\ \A c : Spent(c)' <=> Spent(c)
  BY <1>2, StillShown DEF Lasting
<1>4. \A e \in Doc, r \in Content : Names(e, r)' => Names(e, r)
  BY <1>1 DEF Names
<1>5. OneDoc' /\ Files'
  BY <1>3, <1>4 DEF Lasting, OneDoc, Files, Content
<1>6. Uploads' /\ Moved' /\ Claiming'
  BY DEF Lasting, Uploads, Moved, Claiming, Live, Here, Stored, At, Works
<1>7. Alone'
  BY <1>1, WhoNames DEF Lasting, Alone, At, Works
<1>8. Coming' /\ Going'
  BY <1>3 DEF Lasting, Coming, Going, Live, Here, At, Placing, Used
<1>9. Held' /\ Sweep'
  BY DEF Lasting, Held, Sweep, Abandoned, Orphaned, Here
<1>10. Migration'
  BY DEF Lasting, Migration, Live
<1>11. QED
  BY <1>2, <1>3, <1>5, <1>6, <1>7, <1>8, <1>9, <1>10 DEF Lasting

LEMMA StartMoveLasts ==
  ASSUME Typed, Typed', Kept, Lasting, Taking, Orderly, StartMove
  PROVE  Lasting' /\ Quiet
<1> DEFINE T == {<<d, doc[d].ref>> : d \in {d \in Doc : Live(d) /\ doc[d].ref \in File /\ Apart(d)}}
<1>1. UNCHANGED <<now, blob, row, file, doc, handler, night>> /\ move.at = "next"
  BY DEF StartMove, NoMove
<1>2. /\ move'.todo = T /\ move'.at = "next" /\ move'.doc = None /\ move'.file = None
      /\ move'.object = None
  <2>1. T \in SUBSET (Doc \X File) /\ move' = [NoMove EXCEPT !.todo = T]
    BY DEF StartMove
  <2>2. QED
    BY <2>1, MoveOn
<1>3. \A m \in T : /\ m[1] \in Doc /\ Live(m[1]) /\ m[2] = doc[m[1]].ref
                   /\ m = <<m[1], doc[m[1]].ref>> /\ ~Editing(m[1])
  BY DEF Apart, Orderly
<1> HIDE DEF T
<1>4. None \notin Doc /\ None \notin Content
  BY ObjectsAssumption DEF Content
<1>5. Readable'
  BY <1>1 DEF Lasting, Readable, Live, Here, Stored
<1>6. Quiet /\ taken' = taken /\ \A c : Spent(c)' <=> Spent(c)
  BY <1>1, <1>5, StillShown DEF Lasting
<1>7. \A e \in Doc, r \in Content : Names(e, r)' => Names(e, r)
  <2>1. ASSUME NEW e \in Doc, NEW r \in Content, <<e, r>> \in T PROVE doc[e].ref = r
    BY <1>3, <2>1
  <2>2. QED
    BY <1>1, <1>2, <1>4, <2>1 DEF Names
<1>8. OneDoc' /\ Files'
  BY <1>1, <1>6, <1>7 DEF Lasting, OneDoc, Files, Content
<1>9. Uploads' /\ Moved' /\ Claiming'
  BY <1>1 DEF Lasting, Uploads, Moved, Claiming, Live, Here, Stored, At, Works
<1>10. Alone'
  <2>1. \A h \in Handler : Works(h) => \A m \in T : m[1] # handler[h].doc
    BY <1>3 DEF Editing, Works, Working, At
  <2>2. QED
    BY <1>1, <1>2, <1>4, <2>1, WhoNames DEF Lasting, Alone, At, Works
<1>11. Coming' /\ Going'
  BY <1>1, <1>6 DEF Lasting, Coming, Going, Live, Here, At, Placing, Used
<1>12. Held' /\ Sweep'
  BY <1>1 DEF Lasting, Held, Sweep, Abandoned, Orphaned, Here
<1>13. Migration'
  BY <1>1, <1>2, <1>3 DEF Migration, Live
<1>14. QED
  BY <1>5, <1>6, <1>8, <1>9, <1>10, <1>11, <1>12, <1>13 DEF Lasting

LEMMA ReadLasts ==
  ASSUME Typed, Typed', Kept, Lasting, Taking, NEW d \in Doc, NEW f \in File, ReadFile(d, f)
  PROVE  Lasting' /\ Quiet
<1>1. /\ move.at = "next" /\ <<d, f>> \in move.todo
      /\ UNCHANGED <<now, blob, row, file, doc, handler, night>>
  BY DEF ReadFile
<1>2. CASE file[f] # "here"
  BY <1>1, <1>2, MoveSteps, MoveEndsLasts
<1>3. CASE file[f] = "here"
  <2>1. /\ move'.todo = move.todo \ {<<d, f>>} /\ move'.at = "put"
        /\ move'.doc = d /\ move'.file = f /\ move'.object = None
    BY <1>3, MoveSteps
  <2>2. None \notin Content
    BY ObjectsAssumption DEF Content
  <2>3. Readable'
    BY <1>1 DEF Lasting, Readable, Live, Here, Stored
  <2>4. Quiet /\ taken' = taken /\ \A c : Spent(c)' <=> Spent(c)
    BY <1>1, <2>3, StillShown DEF Lasting
  <2>5. \A e \in Doc, r \in Content : Names(e, r)' => Names(e, r)
    BY <1>1, <2>1, <2>2 DEF Names
  <2>6. OneDoc' /\ Files'
    BY <1>1, <2>4, <2>5 DEF Lasting, OneDoc, Files, Content
  <2>7. Uploads' /\ Moved' /\ Claiming'
    BY <1>1 DEF Lasting, Uploads, Moved, Claiming, Live, Here, Stored, At, Works
  <2>8. Alone'
    BY <1>1, <2>1 DEF Lasting, Alone, At, Works
  <2>9. Coming' /\ Going'
    BY <1>1, <2>4 DEF Lasting, Coming, Going, Live, Here, At, Placing, Used
  <2>10. Held' /\ Sweep'
    BY <1>1 DEF Lasting, Held, Sweep, Abandoned, Orphaned, Here
  <2>11. \A m \in move'.todo : m \in move.todo /\ m[1] # d
    <3>1. move.todo \subseteq Doc \X File
      BY DEF Typed, TypeOK, MoveLocals
    <3>2. ASSUME NEW m \in move.todo, m[1] = d PROVE m = <<d, f>>
      <4>1. m[2] = f
        BY <1>1, <3>2 DEF Lasting, Migration
      <4>2. QED
        BY <3>1, <3>2, <4>1
    <3>3. QED
      BY <2>1, <3>2
  <2>12. doc[d].state # "none" /\ (Live(d) => doc[d].ref = f)
    BY <1>1 DEF Lasting, Migration
  <2>13. Migration'
    BY <1>1, <2>1, <2>11, <2>12 DEF Lasting, Migration, Live
  <2>14. QED
    BY <2>3, <2>4, <2>6, <2>7, <2>8, <2>9, <2>10, <2>13 DEF Lasting
<1>4. QED
  BY <1>2, <1>3

\* A copy arrives under a key nobody has named.
LEMMA PutObjectLasts ==
  ASSUME Typed, Typed', Kept, Lasting, Taking, NEW k \in Object, PutObject(k)
  PROVE  Lasting' /\ Quiet
<1>1. /\ move.at = "put" /\ move.doc \in Doc /\ move.file \in File
      /\ UNCHANGED <<now, row, file, doc, handler, night>>
  BY DEF PutObject, Typed, Shaped
<1>2. CASE NextMove /\ blob' = blob
  BY <1>1, <1>2, MoveOn, MoveEndsLasts
<1>3. CASE /\ row[k].state = "none" /\ blob[k] = None
           /\ blob' = [blob EXCEPT ![k] = move.file]
           /\ Move([move EXCEPT !.at = "record", !.object = k])
  <2>1. /\ move'.todo = move.todo /\ move'.at = "record"
        /\ move'.doc = move.doc /\ move'.file = move.file /\ move'.object = k
    BY <1>3, MoveSteps
  <2>2. blob'[k] = move.file /\ \A j \in Object \ {k} : blob'[j] = blob[j]
    BY <1>3 DEF Typed, TypeOK
  <2>3. /\ \A d \in Doc : doc[d].ref # k
        /\ \A h \in Handler : handler[h].new # k /\ handler[h].prev # k
    BY <1>3 DEF Kept, Minted, Named
  <2>4. ~Here(k) /\ row[k].session = "none"
    BY <1>3 DEF Here, Kept, Rows, Typed, TypeOK, ObjectRow
  <2>5. k \notin File /\ None \notin Content
    BY ObjectsAssumption DEF Content
  <2>6. Readable'
    BY <1>1, <2>1, <2>2, <2>4 DEF Lasting, Readable, Live, Here, Stored
  <2>7. Quiet /\ taken' = taken /\ \A c : Spent(c)' <=> Spent(c)
    BY <1>1, <2>2, <2>4, <2>6, StillShown DEF Lasting
  <2>8. \A e \in Doc, r \in Content : Names(e, r)' => Names(e, r) \/ (e = move.doc /\ r = k)
    BY <1>1, <2>1 DEF Names
  <2>9. \A e \in Doc : ~Names(e, k)
    <3>1. move.file # k /\ move.object # k /\ \A e \in Doc : <<e, k>> \notin move.todo
      BY <1>1, <2>5, ObjectsAssumption DEF Typed, TypeOK, Shaped, MoveLocals
    <3>2. QED
      BY <2>3, <3>1 DEF Names
  <2>10. OneDoc'
    BY <2>8, <2>9 DEF Lasting, OneDoc
  <2>11. Files'
    <3>1. file[move.file] # "none"
      <4>1. Names(move.doc, move.file)
        BY DEF Names
      <4>2. QED
        BY <1>1, <4>1 DEF Lasting, Files
    <3>2. \A j \in Object : blob'[j] \in File => file[blob'[j]] # "none"
      BY <2>2, <3>1 DEF Lasting, Files
    <3>3. QED
      BY <1>1, <2>5, <2>7, <2>8, <3>2 DEF Lasting, Files, Content
  <2>12. Uploads'
    <3>1. \A h \in Handler : At(h, "confirm") => handler[h].new \in Object
      BY DEF Typed, Shaped, At
    <3>2. QED
      BY <1>1, <2>2, <2>3, <2>4, <3>1 DEF Lasting, Uploads, Here, Stored, At
  <2>13. Moved'
    BY <1>1, <2>1, <2>2, <2>4 DEF Lasting, Moved, Live, Here, At
  <2>14. Alone' /\ Claiming'
    BY <1>1, <2>1 DEF Lasting, Alone, Claiming, Here, At, Works
  <2>15. Coming'
    BY <1>1, <2>7 DEF Lasting, Coming, Live, Here, At, Placing, Used
  <2>16. Going'
    BY <1>1, <2>2, <2>3, <2>7 DEF Lasting, Going, Live, Here, At
  <2>17. Held' /\ Sweep'
    BY <1>1 DEF Lasting, Held, Sweep, Abandoned, Orphaned, Here
  <2>18. Migration'
    BY <1>1, <2>1, <2>3 DEF Lasting, Migration, Live
  <2>19. QED
    BY <2>6, <2>7, <2>10, <2>11, <2>12, <2>13, <2>14, <2>15, <2>16, <2>17, <2>18 DEF Lasting
<1>4. QED
  BY <1>2, <1>3 DEF PutObject

\* From the transaction on, the file is gone and the object stands in for it.
LEMMA RecordLasts ==
  ASSUME Typed, Typed', Kept, Lasting, Taking, RecordObject
  PROVE  Lasting' /\ Quiet
<1> DEFINE r == [NoRow EXCEPT !.state = "here", !.course = move.doc, !.created = now,
                              !.committed = TRUE]
<1>1. PICK d \in Doc, f \in File, k \in Object : d = move.doc /\ f = move.file /\ k = move.object
  BY DEF RecordObject, Typed, Shaped
<1>2. r.state = "here" /\ r.session = "none" /\ r.course = d /\ r.committed /\ r.sound
  BY <1>1 DEF NoRow
<1>3. /\ move.at = "record" /\ UNCHANGED <<now, blob, doc, handler, night>>
      /\ row' = [row EXCEPT ![k] = r] /\ file' = [file EXCEPT ![f] = "gone"]
  BY <1>1 DEF RecordObject
<1> HIDE DEF r
<1>4. /\ move'.todo = move.todo /\ move'.at = "point"
      /\ move'.doc = d /\ move'.file = f /\ move'.object = k
  BY <1>1, MoveSteps
<1>5. /\ row'[k].state = "here" /\ row'[k].session = "none" /\ row'[k].course = d
      /\ row'[k].committed /\ row'[k].sound
      /\ \A j \in Object \ {k} : row'[j] = row[j]
      /\ file'[f] = "gone" /\ \A g \in File \ {f} : file'[g] = file[g]
  BY <1>2, <1>3 DEF Typed, TypeOK
<1>6. row[k].state = "none" /\ blob[k] = f /\ f \in Content /\ Stored(k) /\ ~Here(k)
  BY <1>1, <1>3 DEF Kept, OnItsWay, Stored, Content, Here
<1>7. /\ \A e \in Doc : doc[e].ref # k
      /\ \A h \in Handler : handler[h].new # k /\ handler[h].prev # k
      /\ k \notin night.todo /\ night.todo \subseteq Object
  BY <1>6 DEF Kept, Minted, Named, Typed, TypeOK
<1>8. /\ doc[d].state # "none" /\ (Live(d) => doc[d].ref = f)
      /\ \A m \in move.todo : m[1] # d
  BY <1>1, <1>3 DEF Lasting, Migration
<1>9. Names(d, f)
  BY <1>1 DEF Names
<1>10. \A e \in Doc : Names(e, f) => e = d
  BY <1>6, <1>9 DEF Lasting, OneDoc
<1>11. Readable'
  <2>1. ASSUME NEW e \in Doc, NEW x, x = doc[e].ref
        PROVE  /\ x \in File => \/ file'[x] = "here"
                                \/ move'.doc = e /\ move'.file = x
               /\ x \in Object => x # k /\ Here(x) /\ Stored(x)
    <3>1. CASE x = f
      BY <1>4, <1>10, <2>1, <3>1, FilesAreNoObjects DEF Names
    <3>2. CASE x # f
      <4>1. x \in File => file[x] = "here"
        BY <1>3, <2>1 DEF Lasting, Readable
      <4>2. QED
        BY <1>5, <1>7, <2>1, <3>2, <4>1 DEF Lasting, Readable
    <3>3. QED
      BY <3>1, <3>2
  <2>2. Here(k)' /\ Stored(k)'
    BY <1>3, <1>5, <1>6 DEF Here, Stored
  <2>3. QED
    BY <1>3, <1>4, <1>5, <2>1, <2>2 DEF Lasting, Readable, Live, Stored, Here
<1>12. Quiet /\ taken' = taken /\ \A c : Spent(c)' <=> Spent(c)
  BY <1>3, <1>11, StillShown DEF Lasting
<1>13. \A e \in Doc, x \in Content : Names(e, x)' => Names(e, x)
  BY <1>1, <1>3, <1>4 DEF Names
<1>14. OneDoc'
  BY <1>13 DEF Lasting, OneDoc
<1>15. Files'
  <2>1. \A g \in File : file'[g] = "none" <=> file[g] = "none" /\ g # f
    BY <1>5
  <2>2. file[f] # "none"
    BY <1>9 DEF Lasting, Files
  <2>3. QED
    BY <1>3, <1>12, <1>13, <2>1, <2>2 DEF Lasting, Files, Content
<1>16. Uploads'
  <2>1. \A h \in Handler : At(h, "confirm") => handler[h].new \in Object
    BY DEF Typed, Shaped, At
  <2>2. QED
    BY <1>3, <1>5, <1>6, <1>7, <2>1 DEF Lasting, Uploads, Here, Stored, At
<1>17. Moved'
  BY <1>3, <1>4, <1>5, <1>8 DEF Lasting, Moved, Live, Here, At
<1>18. Alone'
  BY <1>1, <1>3, <1>4 DEF Lasting, Alone, At, Works
<1>19. Claiming'
  BY <1>3, <1>5, <1>7 DEF Lasting, Claiming, Here, Works
<1>20. Coming'
  <2>1. ASSUME NEW h \in Handler, Placing(h), handler[h].new = f PROVE FALSE
    <3>1. handler[h].doc \in Doc /\ handler[h].doc # d
      BY <1>1, <2>1, WhoNames DEF Lasting, Alone, Placing, Works, Working
    <3>2. QED
      BY <1>10, <2>1, <3>1 DEF Names
  <2>2. QED
    BY <1>3, <1>5, <1>7, <1>12, <2>1 DEF Lasting, Coming, Live, Here, At, Placing, Used
<1>21. Going'
  BY <1>3, <1>5, <1>7, <1>12 DEF Lasting, Going, Live, Here, At
<1>22. Held'
  BY <1>3, <1>5, <1>7 DEF Lasting, Held
<1>23. Sweep'
  BY <1>3, <1>5, <1>7 DEF Lasting, Sweep, Abandoned, Orphaned, Here
<1>24. Migration'
  BY <1>3, <1>4, <1>5, <1>6, <1>7, <1>8 DEF Lasting, Migration, Live, Here
<1>25. QED
  BY <1>11, <1>12, <1>14, <1>15, <1>16, <1>17, <1>18, <1>19, <1>20, <1>21, <1>22, <1>23, <1>24 DEF Lasting

\* The document is pointed at the object, which holds what the file held.
LEMMA PointLasts ==
  ASSUME Typed, Typed', Kept, Lasting, Taking, PointDocument
  PROVE  Lasting' /\ Quiet
<1>1. PICK d \in Doc, f \in File, k \in Object : d = move.doc /\ f = move.file /\ k = move.object
  BY DEF PointDocument, Typed, Shaped
<1>2. /\ move.at = "point" /\ UNCHANGED <<now, blob, row, file, handler, night>>
      /\ doc' = IF Live(d) THEN [doc EXCEPT ![d].ref = k] ELSE doc
  BY <1>1 DEF PointDocument
<1>3. /\ move'.todo = move.todo /\ move'.at = "next" /\ move'.doc = None /\ move'.file = None
      /\ move'.object = None
  BY MoveOn DEF PointDocument
<1>4. /\ \A e \in Doc : doc'[e].state = doc[e].state
      /\ \A e \in Doc \ {d} : doc'[e] = doc[e]
      /\ doc'[d].ref = IF Live(d) THEN k ELSE doc[d].ref
  BY <1>2 DEF Typed, TypeOK
<1>5. /\ Live(d) => Here(k) /\ doc[d].ref = f
      /\ Here(k) => row[k].course = d /\ row[k].committed /\ blob[k] = f
      /\ \A h \in Handler : handler[h].new # k /\ handler[h].prev # k
      /\ \A m \in move.todo : m[1] # d
  BY <1>1, <1>2 DEF Lasting, Migration
<1>6. None \notin Doc /\ None \notin Content /\ f \in Content /\ f \notin Object /\ k \notin File
      /\ k \in Content
  BY ObjectsAssumption DEF Content
<1>7. ~Live(d) => doc[d].ref = None
  BY DEF Lasting, Readable
<1>8. Readable'
  <2>1. ASSUME NEW e \in Doc \ {d}, NEW x, x = doc[e].ref
        PROVE  /\ x \in File => file[x] = "here"
               /\ x \in Object => Here(x) /\ Stored(x)
    BY <1>1, <2>1 DEF Lasting, Readable
  <2>2. Live(d) => Here(k) /\ Stored(k)
    BY <1>5, <1>6 DEF Stored
  <2>3. \A e \in Doc : ~Live(e) => doc[e].ref = None
    BY DEF Lasting, Readable
  <2>4. None \notin File /\ None \notin Object
    BY <1>6 DEF Content
  <2>5. QED
    BY <1>2, <1>4, <1>6, <1>7, <2>1, <2>2, <2>3, <2>4 DEF Readable, Live, Stored, Here
<1>9. Quiet /\ taken' = taken /\ \A c : Spent(c)' <=> Spent(c)
  <2>1. Reads /\ Reads'
    BY <1>8, ReaderReads, ReaderReadsNext DEF Typed, Lasting
  <2>2. \A e \in Doc : Shown(e)' = Shown(e)
    <3>1. ASSUME NEW e \in Doc PROVE Shown(e)' = Shown(e)
      <4>1. Shown(e)' = (IF doc'[e].ref \in Object THEN blob'[doc'[e].ref] ELSE doc'[e].ref)
            /\ Shown(e) = (IF doc[e].ref \in Object THEN blob[doc[e].ref] ELSE doc[e].ref)
        BY <2>1 DEF Reads, Holds
      <4>2. CASE e = d
        BY <1>2, <1>4, <1>5, <1>6, <1>7, <4>1, <4>2
      <4>3. CASE e # d
        BY <1>2, <1>4, <4>1, <4>3
      <4>4. QED
        BY <4>2, <4>3
    <3>2. QED
      BY <3>1
  <2>3. QED
    BY <2>2, Unseen DEF Quiet
<1>10. \A e \in Doc, x \in Content : Names(e, x)' => Names(e, x)
  BY <1>1, <1>2, <1>3, <1>4, <1>6 DEF Names
<1>11. OneDoc' /\ Files'
  BY <1>2, <1>9, <1>10 DEF Lasting, OneDoc, Files, Content
<1>12. Uploads' /\ Claiming'
  BY <1>2 DEF Lasting, Uploads, Claiming, Here, Stored, At, Works
<1>13. Moved'
  <2>1. ASSUME NEW j \in Object, Here(j), blob[j] \in File, Live(row[j].course), row[j].course \in Doc
        PROVE  \/ doc'[row[j].course].ref = j
               \/ \E h \in Handler : /\ At(h, "release") /\ handler[h].doc = row[j].course
                                     /\ handler[h].prev = j
    <3>1. CASE j = k
      BY <1>4, <1>5, <2>1, <3>1
    <3>2. CASE j # k
      <4>1. doc[row[j].course].ref = j => row[j].course # d
        BY <1>5, <1>6, <2>1
      <4>2. QED
        BY <1>1, <1>4, <2>1, <3>2, <4>1 DEF Lasting, Moved
    <3>3. QED
      BY <3>1, <3>2
  <2>2. QED
    BY <1>2, <1>4, <2>1 DEF Lasting, Moved, Live, Here, At
<1>14. Alone'
  <2>1. \A h \in Handler : handler[h].pc \in {"make", "write", "release", "claim", "delete"}
                             => handler[h].doc \in Doc
    BY DEF Typed, Shaped
  <2>2. QED
    BY <1>2, <1>3, <1>4, <1>6, <2>1 DEF Lasting, Alone, At, Works, Working
<1>15. \A h \in Handler : Works(h) => handler[h].doc \in Doc \ {d}
  BY <1>1, WhoNames DEF Lasting, Alone
<1>16. Coming'
  <2>1. ASSUME NEW h \in Handler, Placing(h) PROVE handler[h].doc \in Doc \ {d} /\ handler[h].new # k
    BY <1>5, <1>15, <2>1 DEF Placing, Works, Working
  <2>2. ASSUME NEW n, ~Used(n), n # k PROVE ~Used(n)'
    BY <1>4, <2>2 DEF Used
  <2>3. QED
    BY <1>2, <1>4, <1>9, <2>1, <2>2 DEF Lasting, Coming, Live, Here, At, Placing
<1>17. Going'
  <2>1. \A h \in Handler : At(h, "write") \/ At(h, "release") => handler[h].doc \in Doc \ {d}
    BY <1>15 DEF Works, Working, At
  <2>2. QED
    BY <1>2, <1>4, <1>9, <2>1 DEF Lasting, Going, Live, Here, At
<1>18. Held'
  BY <1>2, <1>4, <1>5, <1>7 DEF Lasting, Held
<1>19. Sweep'
  BY <1>2, <1>4 DEF Lasting, Sweep, Abandoned, Orphaned, Here, Typed, TypeOK, ObjectRow
<1>20. Migration'
  <2>1. move.todo \subseteq Doc \X File
    BY DEF Typed, TypeOK, MoveLocals
  <2>2. \A m \in move.todo : m[1] \in Doc \ {d}
    BY <1>5, <2>1
  <2>3. QED
    BY <1>3, <1>4, <2>2 DEF Lasting, Migration, Live
<1>21. QED
  BY <1>8, <1>9, <1>11, <1>12, <1>13, <1>14, <1>16, <1>17, <1>18, <1>19, <1>20 DEF Lasting

LEMMA InitLasts == Init => Lasting
<1> SUFFICES ASSUME Init PROVE Lasting
  OBVIOUS
<1>1. /\ \A k \in Object : row[k] = NoRow /\ blob[k] = None
      /\ \A d \in Doc : doc[d].state = "none" /\ doc[d].ref = None
      /\ \A h \in Handler : handler[h] = Rest
      /\ taken = {} /\ night.doing = "rest" /\ move = NoMove
      /\ \A f \in File : file[f] = "none"
  BY DEF Init
<1>2. None \notin Doc /\ None \notin Content /\ None \notin Object /\ None \notin File
  BY ObjectsAssumption DEF Content
<1>3. \A h \in Handler : /\ handler[h].pc = "rest" /\ handler[h].doc = None
                         /\ handler[h].prev = None /\ handler[h].new = None
  BY <1>1 DEF Rest
<1>4. \A k \in Object : /\ row[k].state = "none" /\ row[k].course = None /\ row[k].session = "none"
  BY <1>1 DEF NoRow
<1>5. /\ move.at = "next" /\ move.todo = {} /\ move.doc = None /\ move.file = None
      /\ move.object = None
  BY <1>1 DEF NoMove
<1>6. \A d \in Doc, r \in Content : ~Names(d, r)
  BY <1>1, <1>2, <1>3, <1>5 DEF Names
<1>7. \A f \in File : ~Spent(f)
  BY <1>1, <1>2 DEF Spent, Shown, Live
<1>8. Readable /\ OneDoc /\ Files
  BY <1>1, <1>2, <1>6, <1>7 DEF Readable, OneDoc, Files, Content
<1>9. Uploads /\ Moved /\ Alone
  BY <1>1, <1>2, <1>3, <1>4 DEF Uploads, Moved, Alone, Here, At, Works, Working
<1>10. Coming /\ Claiming /\ Going /\ Held /\ Sweep /\ Migration
  BY <1>1, <1>2, <1>3, <1>5 DEF Coming, Claiming, Going, Held, Sweep, Migration, At, Placing, Works, Working
<1>11. QED
  BY <1>8, <1>9, <1>10 DEF Lasting

\* What a step shows is what nobody was shown before, in one document.
ShowsOne == Quiet \/ \E d \in Doc, c \in Content \cup {None} :
                       Shows(d, c) /\ (c = None \/ ~Spent(c))

LEMMA EventLasts ==
  ASSUME Typed, Typed', Kept, Lasting, Taking, Orderly, Events
  PROVE  Lasting' /\ ShowsOne
<1>1. ASSUME NEW h \in Handler, Work(h) PROVE Lasting' /\ ShowsOne
  BY <1>1, MakeLasts, ClaimLasts, WriteLasts, ReleaseLasts, DeleteCommitLasts, CommitLasts, RefuseLasts,
     FailLasts DEF Work, ShowsOne
<1>2. ASSUME NEW h \in Handler, Request(h) \/ \E k \in Object : BeginCommit(h, k)
      PROVE  Lasting' /\ Quiet
  BY <1>2, CreateLasts, PublishLasts, DeleteLasts, BeginCommitLasts DEF Request
<1>3. ASSUME NEW k \in Object, \/ UploadUrl(k) \/ BeginGdriveUpload(k) \/ PutPresigned(k)
                               \/ \E sound \in BOOLEAN : PutThroughGateway(k, sound)
      PROVE  Lasting' /\ Quiet
  BY <1>3, UploadLasts, PutLasts
<1>4. ASSUME NEW d \in Doc, NEW f \in File, CreateInline(d, f) PROVE Lasting' /\ ShowsOne
  BY <1>4, InlineLasts DEF ShowsOne, Content
<1>5. ASSUME NEW w \in Drainer, StartDrain(w) \/ Draining(w) \/ DrainDies(w) PROVE Lasting' /\ Quiet
  BY <1>5, DrainLasts
<1>6. CASE ListOrphans \/ Collecting \/ NightDies \/ ListDrive \/ \E k \in Object : ReconcileFile(k)
  BY <1>6, ListLasts, CollectLasts DEF ShowsOne
<1>7. ASSUME Moving PROVE Lasting' /\ Quiet
  BY <1>7, ReadLasts, PutObjectLasts, RecordLasts, PointLasts DEF Moving
<1>8. ASSUME StartMove \/ MoveDies PROVE Lasting' /\ Quiet
  <2>1. CASE StartMove
    BY <2>1, StartMoveLasts
  <2>2. CASE MoveDies
    <3>1. move.at = "put" /\ UNCHANGED <<now, blob, row, file, doc, handler, night>> /\ move' = NoMove
      BY <2>2 DEF MoveDies, Orderly
    <3>2. QED
      BY <3>1, MoveEndsLasts DEF NoMove
  <2>3. QED
    BY <1>8, <2>1, <2>2
<1>9. ASSUME Tick PROVE Lasting' /\ Quiet
  BY <1>9, TickLasts
<1>10. QED
  BY <1>1, <1>2, <1>3, <1>4, <1>5, <1>6, <1>7, <1>8, <1>9 DEF Events, ShowsOne

LEMMA Lasts ==
  ASSUME Orderly
  PROVE  Typed /\ Typed' /\ Kept /\ Lasting /\ [Next]_vars => Lasting'
<1>1. Typed /\ Typed' /\ Kept /\ Lasting /\ Next => Lasting'
  BY EventLasts DEF Next, Taking
<1>2. ASSUME Lasting, UNCHANGED vars PROVE Lasting'
  <2>1. \A d \in Doc : Shown(d)' = Shown(d)
    BY <1>2 DEF vars, Shown, Live, Here, Stored
  <2>2. \A c : Spent(c)' <=> Spent(c)
    BY <1>2, <2>1 DEF vars, Spent
  <2>3. Readable' /\ Uploads' /\ Moved' /\ Alone'
    BY <1>2 DEF vars, Lasting, Readable, Uploads, Moved, Alone, Live, Here, Stored, At, Works
  <2>4. OneDoc' /\ Files'
    BY <1>2, <2>2 DEF vars, Lasting, OneDoc, Files, Names
  <2>5. Coming' /\ Claiming' /\ Going'
    BY <1>2, <2>2 DEF vars, Lasting, Coming, Claiming, Going, Live, Here, At, Placing, Works, Used
  <2>6. Held' /\ Sweep' /\ Migration'
    BY <1>2 DEF vars, Lasting, Held, Sweep, Migration, Abandoned, Orphaned, Live, Here
  <2>7. QED
    BY <2>3, <2>4, <2>5, <2>6 DEF Lasting
<1>3. QED
  BY <1>1, <1>2

(* A live document has its content in every state, whatever the migration,     *)
(* drains and the nightly job are doing (migrateInlineFiles, collectOrphans).   *)
THEOREM NothingIsLost ==
  ASSUME Orderly
  PROVE  Spec => []NothingLost
<1>1. "overlap" \notin Offered /\ "fail" \notin Offered
  BY DEF Orderly
<1>2. Typed /\ Lasting => NothingLost
  <2>1. Lost \notin Object \cup File \cup {None}
    BY ObjectsAssumption DEF Lost
  <2>2. ASSUME Typed, Lasting, NEW d \in Doc PROVE Shown(d) # Lost
    <3>1. Shown(d) = Holds(doc[d].ref)
      BY <2>2, ReaderReads DEF Typed, Lasting, Reads
    <3>2. doc[d].ref \in Object => blob[doc[d].ref] \in Content
      BY <2>2 DEF Lasting, Readable, Stored
    <3>3. doc[d].ref \in Ref
      BY <2>2 DEF Typed, TypeOK
    <3>4. QED
      BY <2>1, <3>1, <3>2, <3>3 DEF Holds, Ref, Content
  <2>3. QED
    BY <2>2 DEF NothingLost
<1>3. QED
  BY <1>1, <1>2, InitTyped, StepTyped, InitKept, KeptNext, InitLasts, Lasts, PTL DEF Spec

\* What the shelf says of a step, in the terms of Objects.
LEMMA StepShows ==
  ASSUME Typed, Typed', Lasting, Taking, ShowsOne
  PROVE  [Promise!Next]_(Promise!shelf)
<1> DEFINE s == [d \in Doc |-> Shown(d)]
<1>1. CASE Quiet
  <2>1. taken' = taken /\ s' = s
    BY <1>1, Unseen DEF Quiet
  <2>2. QED
    BY <2>1 DEF Promise!shelf
<1>2. ASSUME NEW d \in Doc, NEW c \in Content \cup {None}, Shows(d, c), c = None \/ ~Spent(c)
      PROVE  [Promise!Next]_(Promise!shelf)
  <2>1. s' = [s EXCEPT ![d] = c]
    BY <1>2 DEF Shows
  <2>2. CASE c = Shown(d)
    <3>1. Quiet
      BY <1>2, <2>2 DEF Shows, Quiet
    <3>2. QED
      BY <1>1, <3>1
  <2>3. CASE c # Shown(d)
    <3>1. taken' = taken \cup ({s[d]} \ {None})
      <4>1. {Shown(e) : e \in {e \in Doc : Shown(e)' # Shown(e)}} = {Shown(d)}
        BY <1>2, <2>3 DEF Shows
      <4>2. QED
        BY <4>1 DEF Taking
    <3>2. c # None => c \notin taken /\ \A e \in Doc : s[e] # c
      BY <1>2 DEF Spent
    <3>3. Promise!Show(d, c)
      BY <2>1, <2>3, <3>1, <3>2 DEF Promise!Show, Promise!New
    <3>4. QED
      BY <3>3 DEF Promise!Next
  <2>4. QED
    BY <2>2, <2>3
<1>3. QED
  BY <1>1, <1>2 DEF ShowsOne

(* Objects implements the shelf: whatever uploads, commits, editions,          *)
(* deletions, drains, sweeps and migrations are under way, what readers get     *)
(* changes by one document at a time, and to a content nobody was shown         *)
(* before (POST and PATCH /courses, DELETE, drains, collectOrphans, migration). *)
THEOREM PromiseKept ==
  ASSUME Orderly
  PROVE  Spec => KeepsItsPromise
<1>1. "overlap" \notin Offered /\ "fail" \notin Offered
  BY DEF Orderly
<1>2. Init => Promise!Init
  BY DEF Init, Promise!Init, Shown, Live
<1>3. Typed /\ Typed' /\ Kept /\ Lasting /\ [Next]_vars => [Promise!Next]_(Promise!shelf)
  <2>1. Typed /\ Typed' /\ Kept /\ Lasting /\ Next => [Promise!Next]_(Promise!shelf)
    BY EventLasts, StepShows DEF Next, Taking
  <2>2. UNCHANGED vars => UNCHANGED Promise!shelf
    BY DEF vars, Promise!shelf, Shown, Live, Here, Stored
  <2>3. QED
    BY <2>1, <2>2
<1>4. QED
  BY <1>1, <1>2, <1>3, InitTyped, StepTyped, InitKept, KeptNext, InitLasts, Lasts, PTL
     DEF Spec, KeepsItsPromise, Promise!Spec
=============================================================================
