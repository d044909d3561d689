----------------------------- MODULE Connections ----------------------------
(***************************************************************************)
(* An organization's storage connection: the Google sign-in that waits for   *)
(* an hour, the test that makes the folder, the save that re-seals the       *)
(* grant, the NAS connection, the sweep of sign-ins nobody used, and the     *)
(* health checks that move the connection between ACTIVE and DEGRADED        *)
(* (apps/api/src/storage/{org-storage,gdrive-store,routes,jobs,gateway}.ts).  *)
(*                                                                         *)
(* Google and the NAS take part in no transaction: a request reads its rows,  *)
(* spends seconds at the remote, and writes by what it read.                 *)
(***************************************************************************)
EXTENDS Integers, FiniteSets

CONSTANTS
  Org,         \* organizations
  Grant,       \* Google grants, one per sign-in: also the id of its pending row
  Folder,      \* Drive folders, minted by Google
  Handler,     \* slots for requests and sweeps in flight
  Checker,     \* slots for health checks and gateway requests in flight
  None,        \* null
  PendingTtl,  \* PENDING_TTL_MS
  MaxTime,     \* bound on the clock
  MaxKeys,     \* bound on the data keys ever made
  Offered      \* bound: what happens besides

ASSUME ConnectionsAssumption ==
  /\ None \notin Org \cup Grant \cup Folder /\ "create" \notin Org
  /\ PendingTtl \in Nat /\ MaxTime \in Nat /\ MaxKeys \in Nat \ {0}

VARIABLES
  now,      \* the clock
  calm,     \* from here on the remotes answer every call
  grant,    \* Google: each grant
  folder,   \* Google: each folder
  pending,  \* StoragePendingConnection rows
  store,    \* OrgStorage rows
  keys,     \* data keys made so far
  req,      \* locals of the requests in flight
  check     \* locals of the checks in flight

vars == <<now, calm, grant, folder, pending, store, keys, req, check>>
-----------------------------------------------------------------------------
(* Rows and locals.                                                        *)

Time == 0 .. MaxTime
Root == Folder \cup {None}
Held == Grant \cup {None}

PendingRow == [state : {"none", "open", "gone"}, purpose : Org \cup {"create"}, root : Root,
               expires : 0 .. MaxTime + PendingTtl]
NoPending == [state |-> "none", purpose |-> "create", root |-> None, expires |-> 0]

Status == {"UNCONFIGURED", "ACTIVE", "DEGRADED"}
StoreRow == [adapter : {"none", "s3", "gdrive"}, status : Status,
             grant : Held, root : Root, key : 0 .. MaxKeys]
NoStore == [adapter |-> "none", status |-> "UNCONFIGURED", grant |-> None, root |-> None, key |-> 0]

\* `old` and `key`: what connectGdrive keeps of the row it found.
Locals == [pc : {"rest", "test", "remember", "connect", "save", "forget", "revoke", "nas", "nas_save",
                 "keys", "keys_save", "folder", "grant", "row"},
           org : Org \cup {None}, grant : Held, purpose : Org \cup {"create"}, root : Root,
           old : Held, key : 0 .. MaxKeys]
Rest == [pc |-> "rest", org |-> None, grant |-> None, purpose |-> "create", root |-> None,
         old |-> None, key |-> 0]

\* What a check keeps of the row it read.
CheckLocals == [org : Org \cup {None}, grant : Held, status : Status, reader : BOOLEAN]
NoCheck == [org |-> None, grant |-> None, status |-> "UNCONFIGURED", reader |-> FALSE]

TypeOK ==
  /\ now \in Time /\ calm \in BOOLEAN /\ keys \in 0 .. MaxKeys
  /\ grant \in [Grant -> {"none", "good", "withdrawn", "revoked"}]
  /\ folder \in [Folder -> {"none", "there", "gone"}]
  /\ pending \in [Grant -> PendingRow]
  /\ store \in [Org -> StoreRow]
  /\ req \in [Handler -> Locals]
  /\ check \in [Checker -> CheckLocals]

Init ==
  /\ now = 0 /\ calm = FALSE /\ keys = 0
  /\ grant = [g \in Grant |-> "none"]
  /\ folder = [f \in Folder |-> "none"]
  /\ pending = [g \in Grant |-> NoPending]
  /\ store = [o \in Org |-> NoStore]
  /\ req = [h \in Handler |-> Rest] /\ check = [c \in Checker |-> NoCheck]
-----------------------------------------------------------------------------
(* Operators the handlers are built from.                                  *)

At(h, pc) == req[h].pc = pc
Goto(h, l) == req' = [req EXCEPT ![h] = l]
Step(h, pc) == Goto(h, [req[h] EXCEPT !.pc = pc])
Done(h) == Goto(h, Rest)

Open(g) == pending[g].state = "open"
\* usablePending
Usable(g) == Open(g) /\ pending[g].expires >= now
Drive(o) == store[o].adapter = "gdrive"

PendingGone(g) ==
  pending' = [pending EXCEPT ![g] = [NoPending EXCEPT !.state = "gone"]]

Using(g) == \E h \in Handler : req[h].grant = g
Busy(o) == \E h \in Handler : req[h].org = o
\* Bounds: a sign-in, and an organization, is in one request's hands at a time.
OneAtATime(g) == "twice" \in Offered \/ ~Using(g)
OneRequest(o) == "twice" \in Offered \/ ~Busy(o)

\* Google is told to forget a grant; that the call failed is passed over.
Revoked(g) == \/ grant' = [grant EXCEPT ![g] = IF @ = "good" THEN "revoked" ELSE @]
              \/ ~calm /\ UNCHANGED grant

\* Ids are minted at random: which one it is makes no difference.
NoFolder == {f \in Folder : folder[f] = "none"}
NewFolder == CHOOSE f \in NoFolder : TRUE
NoGrant == {g \in Grant : grant[g] = "none"}
NewGrant == CHOOSE g \in NoGrant : TRUE

\* testDrive: the folder is opened, or made on first use; then the rest of the test.
TestDrive(g, root, ok, found) ==
  \/ /\ grant[g] = "good" /\ root \in Folder /\ folder[root] = "there"
     /\ ok /\ found = root /\ UNCHANGED folder
  \/ /\ grant[g] = "good" /\ root = None /\ NoFolder # {}
     /\ ok \/ "partial" \in Offered
     /\ found = NewFolder /\ folder' = [folder EXCEPT ![NewFolder] = "there"]
  \/ /\ ~calm \/ grant[g] # "good" \/ (root \in Folder /\ folder[root] # "there")
     /\ ~ok /\ found = root /\ UNCHANGED folder
-----------------------------------------------------------------------------
(* Google sign-in.                                                         *)

\* POST /storage/google/authorize, then the callback: the grant is filed for an hour.
Callback(purpose) ==
  LET g == NewGrant IN
  /\ NoGrant # {}
  /\ grant' = [grant EXCEPT ![g] = "good"]
  /\ pending' = [pending EXCEPT ![g] = [state |-> "open", purpose |-> purpose, root |-> None,
                                        expires |-> now + PendingTtl]]
  /\ UNCHANGED <<now, calm, folder, store, keys, req, check>>

\* POST /storage/test, and the same test at the start of POST /orgs: a reconnection
\* tests the organization's own folder.
TestPending(h, g) ==
  /\ At(h, "rest") /\ Usable(g) /\ OneAtATime(g)
  /\ LET p == pending[g]
         own == p.purpose # "create" /\ Drive(p.purpose)
     IN Goto(h, [Rest EXCEPT !.pc = "test", !.grant = g, !.root = IF own THEN store[p.purpose].root ELSE p.root])
  /\ UNCHANGED <<now, calm, grant, folder, pending, store, keys, check>>

RunTest(h) ==
  /\ At(h, "test")
  /\ \E ok \in BOOLEAN, root \in Root :
       /\ TestDrive(req[h].grant, req[h].root, ok, root)
       /\ Goto(h, [req[h] EXCEPT !.pc = "remember", !.root = root])
  /\ UNCHANGED <<now, calm, grant, pending, store, keys, check>>

\* The folders are remembered whether or not the test passed.
Remember(h) ==
  /\ At(h, "remember")
  /\ pending' = [pending EXCEPT ![req[h].grant].root = IF Open(req[h].grant) THEN req[h].root ELSE @]
  /\ Done(h)
  /\ UNCHANGED <<now, calm, grant, folder, store, keys, check>>
-----------------------------------------------------------------------------
(* connectGdrive: POST /orgs/:id/storage, and at the end of POST /orgs.      *)

ConnectGdrive(h, o, g) ==
  LET p == pending[g]
      existing == store[o]
  IN
  /\ At(h, "rest") /\ Usable(g) /\ p.purpose \in {"create", o} /\ existing.adapter # "s3"
  /\ OneAtATime(g) /\ OneRequest(o)
  /\ Goto(h, [pc |-> "connect", org |-> o, grant |-> g, purpose |-> p.purpose,
              root |-> IF Drive(o) THEN existing.root ELSE p.root,
              old |-> existing.grant, key |-> existing.key])
  /\ UNCHANGED <<now, calm, grant, folder, pending, store, keys, check>>

\* A test that fails is reported; a folder it made is not remembered.
ConnectTest(h) ==
  /\ At(h, "connect")
  /\ \E ok \in BOOLEAN, root \in Root :
       /\ TestDrive(req[h].grant, req[h].root, ok, root)
       /\ IF ok THEN Goto(h, [req[h] EXCEPT !.pc = "save", !.root = root]) ELSE Done(h)
  /\ UNCHANGED <<now, calm, grant, pending, store, keys, check>>

\* The key the organization has, or its first.
KeyFor(key) ==
  IF key # 0 THEN UNCHANGED keys ELSE keys < MaxKeys /\ keys' = keys + 1
KeptOrNew(key) == IF key # 0 THEN key ELSE keys + 1

\* remoteTargetKey is unique: the folder of another organization is refused.
SaveConnection(h) ==
  LET l == req[h] IN
  /\ At(h, "save")
  /\ IF \E o \in Org \ {l.org} : store[o].root = l.root
       THEN Done(h) /\ UNCHANGED <<store, keys>>
       ELSE /\ KeyFor(l.key)
            /\ store' = [store EXCEPT ![l.org] =
                 [adapter |-> "gdrive", status |-> "ACTIVE", grant |-> l.grant, root |-> l.root,
                  key |-> KeptOrNew(l.key)]]
            /\ Step(h, "forget")
  /\ UNCHANGED <<now, calm, grant, folder, pending, check>>

ForgetPending(h) ==
  /\ At(h, "forget")
  /\ PendingGone(req[h].grant)
  /\ IF req[h].old \in Grant \ {req[h].grant} THEN Step(h, "revoke") ELSE Done(h)
  /\ UNCHANGED <<now, calm, grant, folder, store, keys, check>>

\* The grant this one replaces is told to Google to forget.
RevokeReplaced(h) ==
  /\ At(h, "revoke")
  /\ Revoked(req[h].old)
  /\ Done(h)
  /\ UNCHANGED <<now, calm, folder, pending, store, keys, check>>
-----------------------------------------------------------------------------
(* A NAS.                                                                  *)

\* connectStorage, up to its test; the test; the save, with the row read again.
ConnectStorage(h, o) ==
  /\ At(h, "rest") /\ ~Drive(o) /\ OneRequest(o)
  /\ Goto(h, [Rest EXCEPT !.pc = "nas", !.org = o])
  /\ UNCHANGED <<now, calm, grant, folder, pending, store, keys, check>>

TestConnection(h, from, to) ==
  /\ At(h, from)
  /\ Step(h, to) \/ (~calm /\ Done(h))
  /\ UNCHANGED <<now, calm, grant, folder, pending, store, keys, check>>

\* Mutant: every connection makes a data key.
SaveStorageNewKey(h) ==
  LET o == req[h].org IN
  /\ At(h, "nas_save")
  /\ keys < MaxKeys /\ keys' = keys + 1
  /\ store' = [store EXCEPT ![o] = [NoStore EXCEPT !.adapter = "s3", !.status = "ACTIVE",
                                      !.key = keys + 1]]
  /\ Done(h)
  /\ UNCHANGED <<now, calm, grant, folder, pending, check>>

SaveStorage(h) ==
  LET o == req[h].org IN
  /\ At(h, "nas_save")
  /\ KeyFor(store[o].key)
  /\ store' = [store EXCEPT ![o] = [NoStore EXCEPT !.adapter = "s3", !.status = "ACTIVE",
                                      !.key = KeptOrNew(store[o].key)]]
  /\ Done(h)
  /\ UNCHANGED <<now, calm, grant, folder, pending, check>>

\* PUT /orgs/:id/storage/credentials
ReplaceCredentials(h, o) ==
  /\ At(h, "rest") /\ store[o].adapter = "s3" /\ OneRequest(o)
  /\ Goto(h, [Rest EXCEPT !.pc = "keys", !.org = o])
  /\ UNCHANGED <<now, calm, grant, folder, pending, store, keys, check>>

SaveCredentials(h) ==
  /\ At(h, "keys_save")
  /\ store' = [store EXCEPT ![req[h].org].status = "ACTIVE"]
  /\ Done(h)
  /\ UNCHANGED <<now, calm, grant, folder, pending, keys, check>>
-----------------------------------------------------------------------------
(* Sign-ins nobody used: abandoned by their profile, or swept after an hour. *)

Discard(h, g) ==
  /\ At(h, "rest") /\ Open(g) /\ OneAtATime(g)
  /\ Goto(h, [Rest EXCEPT !.pc = "folder", !.grant = g, !.purpose = pending[g].purpose, !.root = pending[g].root])
  /\ UNCHANGED <<now, calm, grant, folder, pending, store, keys, check>>

\* DELETE /storage/google/connections/:id
AbandonSignIn(h, g) == Discard(h, g)

\* sweepPendingConnections, nightly.
SweepPending(h, g) == pending[g].expires < now /\ Discard(h, g)

\* Mutant: the folder goes whoever made it.
DropAnyFolder(h) ==
  LET l == req[h] IN
  /\ At(h, "folder")
  /\ folder' = [f \in Folder |-> IF f = l.root /\ grant[l.grant] = "good"
                                   THEN "gone" ELSE folder[f]]
  /\ Step(h, "grant")
  /\ UNCHANGED <<now, calm, grant, pending, store, keys, check>>

\* Only a folder this sign-in made is removed; a failure is passed over.
DropFolder(h) ==
  LET l == req[h] IN
  /\ At(h, "folder")
  /\ \/ folder' = [f \in Folder |-> IF l.purpose = "create" /\ f = l.root /\ grant[l.grant] = "good"
                                      THEN "gone" ELSE folder[f]]
     \/ ~calm /\ UNCHANGED folder
  /\ Step(h, "grant")
  /\ UNCHANGED <<now, calm, grant, pending, store, keys, check>>

RevokeSignIn(h) ==
  /\ At(h, "grant")
  /\ Revoked(req[h].grant)
  /\ Step(h, "row")
  /\ UNCHANGED <<now, calm, folder, pending, store, keys, check>>

DropPending(h) ==
  /\ At(h, "row")
  /\ PendingGone(req[h].grant)
  /\ Done(h)
  /\ UNCHANGED <<now, calm, grant, folder, store, keys, check>>
-----------------------------------------------------------------------------
(* Health.  Every check works from the row it read first.                   *)

ReadRow(c, o, reader) ==
  /\ check[c] = NoCheck /\ store[o].adapter # "none"
  /\ check' = [check EXCEPT ![c] = [org |-> o, grant |-> store[o].grant, status |-> store[o].status,
                                    reader |-> reader]]
  /\ UNCHANGED <<now, calm, grant, folder, pending, store, keys, req>>

\* runHealthChecks: nightly, POST /jobs/storage-health, POST storage/check.
RunHealthChecks(c, o) == ReadRow(c, o, FALSE)

\* A reader's or an upload's request to the gateway.
GatewayRequest(c, o) == Drive(o) /\ ReadRow(c, o, TRUE)

\* probeGdrive and probeS3: what the remote may answer to this grant; none is a NAS.
Answers(g) ==
  CASE g = None -> {"ok"} \cup IF calm THEN {} ELSE {"definitive"}
    [] g # None /\ grant[g] # "good" -> {"definitive"}
    [] OTHER -> {"ok"} \cup IF calm THEN {} ELSE {"transient", "definitive"}

\* Mutant: the reason is written where the status belongs.
RecordedReason(o, status) ==
  store' = [store EXCEPT ![o].status = IF status = "DEGRADED" THEN "UNREACHABLE" ELSE status]

Recorded(o, status) == store' = [store EXCEPT ![o].status = status]

\* Mutant: a check that passes clears nothing.
NoRecovery(c, outcome) ==
  /\ check[c].org # None /\ outcome \in Answers(check[c].grant) /\ ~check[c].reader
  /\ Recorded(check[c].org, IF outcome = "ok" THEN check[c].status ELSE "DEGRADED")
  /\ check' = [check EXCEPT ![c] = NoCheck]
  /\ UNCHANGED <<now, calm, grant, folder, pending, keys, req>>

\* recordHealth, of one answer.  Whether a transient failure has lasted its quarter
\* of an hour is left open.
RecordHealth(c, outcome) ==
  LET l == check[c] IN
  /\ l.org # None /\ outcome \in Answers(l.grant) /\ ~l.reader
  /\ \/ outcome = "ok" /\ Recorded(l.org, "ACTIVE")
     \/ outcome # "ok" /\ Recorded(l.org, "DEGRADED")
     \/ outcome = "transient" /\ l.status # "DEGRADED" /\ UNCHANGED store
  /\ check' = [check EXCEPT ![c] = NoCheck]
  /\ UNCHANGED <<now, calm, grant, folder, pending, keys, req>>

\* The gateway notes only what is definitive, and asks for a check of its own.
NoteFailure(c) ==
  LET l == check[c] IN
  /\ l.org # None /\ l.reader
  /\ \/ "definitive" \in Answers(l.grant)
        /\ Recorded(l.org, "DEGRADED")
     \/ Answers(l.grant) # {"definitive"} /\ UNCHANGED store
  /\ check' = [check EXCEPT ![c] = NoCheck]
  /\ UNCHANGED <<now, calm, grant, folder, pending, keys, req>>
-----------------------------------------------------------------------------
(* What people and the remotes do.                                         *)

\* The account's holder removes our access in their Google account.
Withdraw(g) ==
  /\ grant[g] = "good" /\ \E o \in Org : store[o].grant = g
  /\ grant' = [grant EXCEPT ![g] = "withdrawn"]
  /\ UNCHANGED <<now, calm, folder, pending, store, keys, req, check>>

\* The remotes stop failing.
Settle ==
  /\ ~calm /\ calm' = TRUE
  /\ UNCHANGED <<now, grant, folder, pending, store, keys, req, check>>

Tick ==
  /\ now < MaxTime
  /\ now' = now + 1
  /\ UNCHANGED <<calm, grant, folder, pending, store, keys, req, check>>

Work(h) ==
  \/ RunTest(h) \/ Remember(h)
  \/ ConnectTest(h) \/ SaveConnection(h) \/ ForgetPending(h) \/ RevokeReplaced(h)
  \/ TestConnection(h, "nas", "nas_save") \/ SaveStorage(h)
  \/ TestConnection(h, "keys", "keys_save") \/ SaveCredentials(h)
  \/ DropFolder(h) \/ RevokeSignIn(h) \/ DropPending(h)
Health(c) == (\E outcome \in {"ok", "transient", "definitive"} : RecordHealth(c, outcome)) \/ NoteFailure(c)

Next ==
  \/ \E purpose \in Org \cup {"create"} : Callback(purpose)
  \/ \E h \in Handler : Work(h)
  \/ \E h \in Handler, g \in Grant : TestPending(h, g) \/ AbandonSignIn(h, g) \/ SweepPending(h, g)
  \/ \E h \in Handler, o \in Org, g \in Grant : ConnectGdrive(h, o, g)
  \/ \E h \in Handler, o \in Org : ConnectStorage(h, o) \/ ReplaceCredentials(h, o)
  \/ \E c \in Checker : Health(c) \/ \E o \in Org : RunHealthChecks(c, o) \/ GatewayRequest(c, o)
  \/ \E g \in Grant : Withdraw(g)
  \/ Settle \/ Tick

Spec == Init /\ [][Next]_vars

\* A check that was begun ends, and every organization is checked night after night.
Fairness ==
  /\ \A c \in Checker : WF_vars(Health(c))
  /\ \A o \in Org : SF_vars(\E c \in Checker : RunHealthChecks(c, o))

FairSpec == Spec /\ Fairness
-----------------------------------------------------------------------------
(* Properties.                                                             *)

(* Clearing up after sign-ins, tests and reconnections never takes the       *)
(* folder or the grant an organization's documents depend on: the folder     *)
(* stands and the grant is not one we revoked.                               *)
(* (connectGdrive, testPending, sweepPendingConnections, abandon)            *)
FolderKept ==
  \A o \in Org : Drive(o) =>
    LET s == store[o] IN
    folder[s.root] = "there" /\ grant[s.grant] \in {"good", "withdrawn"}

(* The data key is made once: no reconnection and no change of credentials    *)
(* replaces it, or every document encrypted under it would be lost.           *)
(* (connectStorage, connectGdrive)                                          *)
KeyKept == [][\A o \in Org : store[o].key # 0 => store'[o].key = store[o].key]_vars

(* However checks, readers' failures and reconnections overlap, and whatever  *)
(* rows they had read, the status comes to say what the remote does.          *)
(* (recordHealth, noteFailure, runHealthChecks)                             *)
Broken(o) == store[o].adapter # "none" /\ Answers(store[o].grant) = {"definitive"}
Works(o) == store[o].adapter # "none" /\ Answers(store[o].grant) = {"ok"}
StatusComesTrue ==
  \A o \in Org : /\ <>[]Works(o) => <>[](store[o].status = "ACTIVE")
                 /\ <>[]Broken(o) => <>[](store[o].status = "DEGRADED")
=============================================================================
