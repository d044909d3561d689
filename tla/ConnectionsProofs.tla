-------------------------- MODULE ConnectionsProofs --------------------------
(* What Connections promises for every number of organizations, grants,      *)
(* folders and requests in flight, whatever calls fail.                      *)
EXTENDS Connections, TLAPS

-----------------------------------------------------------------------------
(* Types.                                                                  *)

\* Ids are there to be minted when the guard says so.
LEMMA Minted ==
  /\ NoFolder # {} => NewFolder \in Folder /\ folder[NewFolder] = "none"
  /\ NoGrant # {} => NewGrant \in Grant /\ grant[NewGrant] = "none"
<1>1. NoFolder # {} => NewFolder \in NoFolder
  BY DEF NewFolder
<1>2. NoGrant # {} => NewGrant \in NoGrant
  BY DEF NewGrant
<1>3. QED
  BY <1>1, <1>2 DEF NoFolder, NoGrant

\* A request in flight changes its own locals and no other's.
LEMMA Moves ==
  ASSUME TypeOK, NEW h \in Handler, NEW l \in Locals, Goto(h, l)
  PROVE  /\ req' \in [Handler -> Locals] /\ req'[h] = l
         /\ \A k \in Handler \ {h} : req'[k] = req[k]
  BY DEF TypeOK, Goto

LEMMA RestTyped == Rest \in Locals
  BY ConnectionsAssumption DEF Rest, Locals, Root, Held

LEMMA Rests ==
  ASSUME TypeOK, NEW h \in Handler, Done(h)
  PROVE  /\ req' \in [Handler -> Locals] /\ req'[h] = Rest
         /\ \A k \in Handler \ {h} : req'[k] = req[k]
  BY RestTyped, Moves DEF Done

Pcs == {"rest", "test", "remember", "connect", "save", "forget", "revoke", "nas", "nas_save",
        "keys", "keys_save", "folder", "grant", "row"}

LEMMA StepsOn ==
  ASSUME TypeOK, NEW h \in Handler, NEW pc \in Pcs, Step(h, pc)
  PROVE  /\ req' \in [Handler -> Locals] /\ req'[h] = [req[h] EXCEPT !.pc = pc]
         /\ \A k \in Handler \ {h} : req'[k] = req[k]
<1>1. [req[h] EXCEPT !.pc = pc] \in Locals
  BY DEF TypeOK, Locals, Pcs
<1>2. QED
  BY <1>1, Moves DEF Step

LEMMA TestDriveTyped ==
  ASSUME TypeOK, NEW g, NEW root \in Root, NEW ok, NEW found, TestDrive(g, root, ok, found)
  PROVE  found \in Root /\ folder' \in [Folder -> {"none", "there", "gone"}]
  BY Minted DEF TypeOK, TestDrive, Root

LEMMA RevokedTyped ==
  ASSUME TypeOK, NEW g, Revoked(g)
  PROVE  grant' \in [Grant -> {"none", "good", "withdrawn", "revoked"}]
  BY DEF TypeOK, Revoked

LEMMA PendingGoneTyped ==
  ASSUME TypeOK, NEW g, PendingGone(g)
  PROVE  pending' \in [Grant -> PendingRow]
<1>1. [NoPending EXCEPT !.state = "gone"] \in PendingRow
  BY ConnectionsAssumption DEF NoPending, PendingRow, Root
<1>2. QED
  BY <1>1 DEF TypeOK, PendingGone

LEMMA KeysTyped ==
  ASSUME TypeOK, NEW key \in 0 .. MaxKeys, KeyFor(key)
  PROVE  keys' \in 0 .. MaxKeys /\ KeptOrNew(key) \in 0 .. MaxKeys
  BY ConnectionsAssumption DEF TypeOK, KeyFor, KeptOrNew

LEMMA InitTyped == Init => TypeOK
<1>1. NoPending \in PendingRow
  BY ConnectionsAssumption DEF NoPending, PendingRow, Root
<1>2. NoStore \in StoreRow
  BY ConnectionsAssumption DEF NoStore, StoreRow, Status, Root, Held
<1>3. NoCheck \in CheckLocals
  BY DEF NoCheck, CheckLocals, Status, Held
<1>4. Init => now \in Time /\ keys \in 0 .. MaxKeys
  BY ConnectionsAssumption DEF Init, Time
<1>5. ASSUME Init
      PROVE  /\ grant \in [Grant -> {"none", "good", "withdrawn", "revoked"}]
             /\ folder \in [Folder -> {"none", "there", "gone"}]
             /\ pending \in [Grant -> PendingRow] /\ store \in [Org -> StoreRow]
             /\ req \in [Handler -> Locals] /\ check \in [Checker -> CheckLocals]
  BY <1>1, <1>2, <1>3, <1>5, RestTyped DEF Init
<1>6. Init => calm \in BOOLEAN
  BY DEF Init
<1>7. QED
  BY <1>4, <1>5, <1>6 DEF TypeOK

LEMMA StepTyped ==
  ASSUME TypeOK, [Next]_vars
  PROVE  TypeOK'
<1>1. ASSUME NEW purpose \in Org \cup {"create"}, Callback(purpose) PROVE TypeOK'
  <2>1. [state |-> "open", purpose |-> purpose, root |-> None, expires |-> now + PendingTtl]
          \in PendingRow
    BY ConnectionsAssumption DEF TypeOK, PendingRow, Root, Time
  <2>2. QED
    BY <1>1, <2>1 DEF TypeOK, Callback
<1>2. ASSUME NEW h \in Handler, RunTest(h) PROVE TypeOK'
  <2>1. PICK ok \in BOOLEAN, root \in Root :
          /\ TestDrive(req[h].grant, req[h].root, ok, root)
          /\ Goto(h, [req[h] EXCEPT !.pc = "remember", !.root = root])
    BY <1>2 DEF RunTest
  <2>2. req[h] \in Locals
    BY DEF TypeOK
  <2>3. req[h].root \in Root /\ [req[h] EXCEPT !.pc = "remember", !.root = root] \in Locals
    BY <2>2 DEF Locals
  <2>4. QED
    BY <1>2, <2>1, <2>2, <2>3, Moves, TestDriveTyped DEF TypeOK, RunTest
<1>3. ASSUME NEW h \in Handler, Remember(h) PROVE TypeOK'
  <2> DEFINE g == req[h].grant
             root == IF Open(g) THEN req[h].root ELSE pending[g].root
  <2>1. pending' = [pending EXCEPT ![g] = [pending[g] EXCEPT !.root = root]]
    BY <1>3 DEF Remember
  <2>2. pending' \in [Grant -> PendingRow]
    <3>1. CASE g \in Grant
      <4>1. [pending[g] EXCEPT !.root = root] \in PendingRow
        BY <3>1 DEF TypeOK, PendingRow, Locals
      <4> HIDE DEF root
      <4>2. QED
        BY <2>1, <4>1 DEF TypeOK
    <3>2. CASE g \notin Grant
      <4> HIDE DEF root
      <4>1. QED
        BY <2>1, <3>2 DEF TypeOK
    <3>3. QED
      BY <3>1, <3>2
  <2>3. QED
    BY <1>3, <2>2, Rests DEF TypeOK, Remember
<1>4. ASSUME NEW h \in Handler, ConnectTest(h) PROVE TypeOK'
  <2>1. PICK ok \in BOOLEAN, root \in Root :
          /\ TestDrive(req[h].grant, req[h].root, ok, root)
          /\ IF ok THEN Goto(h, [req[h] EXCEPT !.pc = "save", !.root = root]) ELSE Done(h)
    BY <1>4 DEF ConnectTest
  <2>2. req[h] \in Locals
    BY DEF TypeOK
  <2>3. req[h].root \in Root /\ [req[h] EXCEPT !.pc = "save", !.root = root] \in Locals
    BY <2>2 DEF Locals
  <2>4. QED
    BY <1>4, <2>1, <2>2, <2>3, Moves, Rests, TestDriveTyped DEF TypeOK, ConnectTest
<1>5. ASSUME NEW h \in Handler, SaveConnection(h) PROVE TypeOK'
  <2> DEFINE l == req[h]
             s == [adapter |-> "gdrive", status |-> "ACTIVE", grant |-> l.grant, root |-> l.root,
                   key |-> KeptOrNew(l.key)]
  <2>1. l \in Locals /\ l.key \in 0 .. MaxKeys
    BY DEF TypeOK, Locals
  <2>2. CASE \E o \in Org \ {l.org} : store[o].root = l.root
    BY <1>5, <2>2, Rests DEF TypeOK, SaveConnection
  <2>3. CASE ~\E o \in Org \ {l.org} : store[o].root = l.root
    <3>1. KeyFor(l.key) /\ store' = [store EXCEPT ![l.org] = s] /\ Step(h, "forget")
      BY <1>5, <2>3 DEF SaveConnection
    <3>2. s \in StoreRow
      BY <2>1, <3>1, KeysTyped DEF StoreRow, Status, Locals
    <3> HIDE DEF s
    <3>3. store' \in [Org -> StoreRow]
      BY <3>1, <3>2 DEF TypeOK
    <3>4. keys' \in 0 .. MaxKeys
      BY <2>1, <3>1, KeysTyped
    <3>5. req' \in [Handler -> Locals]
      BY <3>1, StepsOn DEF Pcs
    <3>6. QED
      BY <1>5, <3>3, <3>4, <3>5 DEF TypeOK, SaveConnection
  <2>4. QED
    BY <2>2, <2>3
<1>6. ASSUME NEW h \in Handler, ForgetPending(h) PROVE TypeOK'
  BY <1>6, PendingGoneTyped, StepsOn, Rests DEF TypeOK, ForgetPending, Pcs
<1>7. ASSUME NEW h \in Handler, RevokeReplaced(h) PROVE TypeOK'
  BY <1>7, RevokedTyped, Rests DEF TypeOK, RevokeReplaced
<1>8. ASSUME NEW h \in Handler, NEW from \in Pcs, NEW to \in Pcs, TestConnection(h, from, to)
      PROVE  TypeOK'
  BY <1>8, StepsOn, Rests DEF TypeOK, TestConnection
<1>9. ASSUME NEW h \in Handler, SaveStorage(h) PROVE TypeOK'
  <2> DEFINE o == req[h].org
             s == [NoStore EXCEPT !.adapter = "s3", !.status = "ACTIVE", !.key = KeptOrNew(store[o].key)]
  <2>1. /\ KeyFor(store[o].key) /\ store' = [store EXCEPT ![o] = s] /\ Done(h)
        /\ UNCHANGED <<now, calm, grant, folder, pending, check>>
    BY <1>9 DEF SaveStorage
  <2>2. CASE o \in Org
    <3>1. store[o].key \in 0 .. MaxKeys
      BY <2>2 DEF TypeOK, StoreRow
    <3>2. keys' \in 0 .. MaxKeys /\ KeptOrNew(store[o].key) \in 0 .. MaxKeys
      BY <2>1, <3>1, KeysTyped
    <3>3. s \in StoreRow
      BY <3>2, ConnectionsAssumption DEF StoreRow, NoStore, Status, Held, Root
    <3> HIDE DEF s
    <3>4. QED
      BY <2>1, <3>2, <3>3, Rests DEF TypeOK
  <2>3. CASE o \notin Org
    <3> HIDE DEF s
    <3>1. store' = store
      BY <2>1, <2>3 DEF TypeOK
    <3>2. keys' \in 0 .. MaxKeys
      BY <2>1, ConnectionsAssumption DEF TypeOK, KeyFor
    <3>3. QED
      BY <2>1, <3>1, <3>2, Rests DEF TypeOK
  <2>4. QED
    BY <2>2, <2>3
<1>10. ASSUME NEW o, NEW status \in Status, Recorded(o, status) PROVE store' \in [Org -> StoreRow]
  BY <1>10 DEF TypeOK, Recorded, StoreRow
<1>11. ASSUME NEW h \in Handler, SaveCredentials(h) PROVE TypeOK'
  <2>1. Recorded(req[h].org, "ACTIVE")
    BY <1>11 DEF SaveCredentials, Recorded
  <2>2. QED
    BY <1>10, <1>11, <2>1, Rests DEF TypeOK, SaveCredentials, Status
<1>12. ASSUME NEW h \in Handler, DropFolder(h) PROVE TypeOK'
  <2>1. folder' \in [Folder -> {"none", "there", "gone"}]
    BY <1>12 DEF TypeOK, DropFolder
  <2>2. QED
    BY <1>12, <2>1, StepsOn DEF TypeOK, DropFolder, Pcs
<1>13. ASSUME NEW h \in Handler, RevokeSignIn(h) PROVE TypeOK'
  BY <1>13, RevokedTyped, StepsOn DEF TypeOK, RevokeSignIn, Pcs
<1>14. ASSUME NEW h \in Handler, DropPending(h) PROVE TypeOK'
  BY <1>14, PendingGoneTyped, Rests DEF TypeOK, DropPending
<1>15. ASSUME NEW h \in Handler, NEW g \in Grant, TestPending(h, g) PROVE TypeOK'
  <2>1. PICK root \in Root : Goto(h, [Rest EXCEPT !.pc = "test", !.grant = g, !.root = root])
    BY <1>15 DEF TypeOK, TestPending, Drive, PendingRow, StoreRow
  <2>2. [Rest EXCEPT !.pc = "test", !.grant = g, !.root = root] \in Locals
    BY RestTyped DEF Locals, Held
  <2>3. QED
    BY <1>15, <2>1, <2>2, Moves DEF TypeOK, TestPending
<1>16. ASSUME NEW h \in Handler, NEW g \in Grant, Discard(h, g) PROVE TypeOK'
  <2>1. [Rest EXCEPT !.pc = "folder", !.grant = g, !.purpose = pending[g].purpose,
                     !.root = pending[g].root] \in Locals
    BY RestTyped DEF TypeOK, Locals, Held, PendingRow
  <2>2. QED
    BY <1>16, <2>1, Moves DEF TypeOK, Discard
<1>17. ASSUME NEW h \in Handler, NEW o \in Org, NEW g \in Grant, ConnectGdrive(h, o, g)
       PROVE  TypeOK'
  <2> DEFINE l == [pc |-> "connect", org |-> o, grant |-> g, purpose |-> pending[g].purpose,
                   root |-> IF Drive(o) THEN store[o].root ELSE pending[g].root,
                   old |-> store[o].grant, key |-> store[o].key]
  <2>1. l \in Locals
    BY DEF TypeOK, Locals, Held, PendingRow, StoreRow, Drive
  <2>2. Goto(h, l)
    BY <1>17 DEF ConnectGdrive
  <2> HIDE DEF l
  <2>3. QED
    BY <1>17, <2>1, <2>2, Moves DEF TypeOK, ConnectGdrive
<1>18. ASSUME NEW h \in Handler, NEW o \in Org, ConnectStorage(h, o) \/ ReplaceCredentials(h, o)
       PROVE  TypeOK'
  <2>1. PICK pc \in {"nas", "keys"} : Goto(h, [Rest EXCEPT !.pc = pc, !.org = o])
    BY <1>18 DEF ConnectStorage, ReplaceCredentials
  <2>2. [Rest EXCEPT !.pc = pc, !.org = o] \in Locals
    BY RestTyped DEF Locals
  <2>3. QED
    BY <1>18, <2>1, <2>2, Moves DEF TypeOK, ConnectStorage, ReplaceCredentials
<1>19. ASSUME NEW c \in Checker, check' = [check EXCEPT ![c] = NoCheck]
       PROVE  check' \in [Checker -> CheckLocals]
  BY <1>19 DEF TypeOK, CheckLocals, NoCheck, Status, Held
<1>20. ASSUME NEW c \in Checker, Health(c) PROVE TypeOK'
  <2>1. store' \in [Org -> StoreRow]
    <3>1. \/ store' = store
          \/ Recorded(check[c].org, "ACTIVE") \/ Recorded(check[c].org, "DEGRADED")
      BY <1>20 DEF Health, RecordHealth, NoteFailure
    <3>2. CASE store' = store
      BY <3>2 DEF TypeOK
    <3>3. QED
      BY <1>10, <3>1, <3>2 DEF Status
  <2>2. check' = [check EXCEPT ![c] = NoCheck] /\ UNCHANGED <<now, calm, grant, folder, pending, keys, req>>
    BY <1>20 DEF Health, RecordHealth, NoteFailure
  <2>3. QED
    BY <1>19, <2>1, <2>2 DEF TypeOK
<1>21. ASSUME NEW c \in Checker, NEW o \in Org, NEW reader \in BOOLEAN, ReadRow(c, o, reader)
       PROVE  TypeOK'
  <2>1. [org |-> o, grant |-> store[o].grant, status |-> store[o].status, reader |-> reader]
          \in CheckLocals
    BY DEF TypeOK, CheckLocals, StoreRow
  <2>2. QED
    BY <1>21, <2>1 DEF TypeOK, ReadRow
<1>22. ASSUME NEW g \in Grant, Withdraw(g) PROVE TypeOK'
  BY <1>22 DEF TypeOK, Withdraw
<1>23. ASSUME Settle \/ Tick PROVE TypeOK'
  <2>1. CASE Settle
    <3>1. calm' \in BOOLEAN
      BY <2>1 DEF Settle
    <3>2. QED
      BY <2>1, <3>1 DEF TypeOK, Settle
  <2>2. CASE Tick
    BY <2>2, ConnectionsAssumption DEF TypeOK, Tick, Time
  <2>3. QED
    BY <1>23, <2>1, <2>2
<1>24. ASSUME UNCHANGED vars PROVE TypeOK'
  BY <1>24 DEF TypeOK, vars
<1>25. ASSUME NEW h \in Handler, Work(h) PROVE TypeOK'
  BY <1>2, <1>3, <1>4, <1>5, <1>6, <1>7, <1>8, <1>9, <1>11, <1>12, <1>13, <1>14, <1>25 DEF Work, Pcs
<1>26. ASSUME NEW h \in Handler, NEW g \in Grant,
              TestPending(h, g) \/ AbandonSignIn(h, g) \/ SweepPending(h, g)
       PROVE  TypeOK'
  BY <1>15, <1>16, <1>26 DEF AbandonSignIn, SweepPending
<1>27. ASSUME NEW c \in Checker, NEW o \in Org, RunHealthChecks(c, o) \/ GatewayRequest(c, o)
       PROVE  TypeOK'
  BY <1>21, <1>27 DEF RunHealthChecks, GatewayRequest
<1>28. CASE Next
  BY <1>1, <1>17, <1>18, <1>20, <1>22, <1>23, <1>25, <1>26, <1>27, <1>28 DEF Next
<1>29. QED
  BY <1>24, <1>28

(* Every row, folder, grant and request holds values of its kind: a status is *)
(* one of the three, a key one of those made (connectStorage, recordHealth).   *)
THEOREM TypeCorrect == Spec => []TypeOK
<1>1. QED
  BY InitTyped, StepTyped, PTL DEF Spec

-----------------------------------------------------------------------------
(* No folder in use is cleared up: while a sign-in and an organization are in *)
(* one request's hands at a time.                                            *)

Working == {"test", "remember", "connect", "save", "forget", "folder", "grant", "row"}
Keeping == {"connect", "save", "forget", "nas", "nas_save", "keys", "keys_save"}

\* A request's sign-in and its organization are its own.
Alone ==
  \A h \in Handler, k \in Handler :
    h # k => /\ req[h].grant \in Grant => req[k].grant # req[h].grant
             /\ req[h].org \in Org => req[k].org # req[h].org

\* A request at work on a sign-in is the only one that ends it.
Holding ==
  \A h \in Handler :
    /\ req[h].pc \in Working => req[h].grant \in Grant /\ Open(req[h].grant)
    /\ req[h].pc \in Keeping => req[h].org \in Org

\* The grant a connection replaces is of a sign-in long over, and once replaced it
\* belongs to no organization.
Replacing ==
  \A h \in Handler :
    req[h].old \in Grant =>
      /\ pending[req[h].old].state = "gone"
      /\ req[h].pc \in {"connect", "save", "forget", "revoke"}
      /\ req[h].pc \in {"connect", "save"} => store[req[h].org].grant = req[h].old
      /\ req[h].pc \in {"forget", "revoke"} => \A o \in Org : store[o].grant # req[h].old

\* The key a connection read is still the organization's.
KeyNow ==
  \A h \in Handler : req[h].pc \in {"connect", "save"} => req[h].key = store[req[h].org].key

\* A grant, and a folder, that someone names has been minted.
Known ==
  /\ \A g \in Grant : pending[g].state = "none" <=> grant[g] = "none"
  /\ \A g \in Grant : pending[g].root \in Folder => folder[pending[g].root] # "none"
  /\ \A h \in Handler : req[h].root \in Folder => folder[req[h].root] # "none"
  /\ \A o \in Org : store[o].root \in Folder => folder[store[o].root] # "none"

\* An organization's grant is its own, and its sign-in is over or about to be.
Filed ==
  \A o \in Org :
    /\ Drive(o) => store[o].root \in Folder /\ store[o].grant \in Grant
    /\ store[o].grant \in Grant =>
         /\ Drive(o)
         /\ \/ pending[store[o].grant].state = "gone"
            \/ \E h \in Handler : At(h, "forget") /\ req[h].grant = store[o].grant /\ req[h].org = o
         /\ \A p \in Org \ {o} : store[p].grant # store[o].grant

\* What is saved passed its test, and still would.
Tested ==
  \A h \in Handler :
    At(h, "save") => /\ req[h].root \in Folder /\ folder[req[h].root] = "there"
                     /\ grant[req[h].grant] = "good"

\* A folder the sign-in made belongs to no organization, and no other sign-in names it.
Claims(g, f) ==
  \/ pending[g].root = f
  \/ \E h \in Handler : /\ req[h].grant = g /\ req[h].root = f
                        /\ req[h].pc \in {"test", "remember", "connect", "save"}
Made(g, f) ==
  /\ Open(g) /\ pending[g].purpose = "create"
  /\ \A h \in Handler : At(h, "forget") => req[h].grant # g
  /\ \/ pending[g].root = f
     \/ \E h \in Handler : /\ req[h].grant = g /\ req[h].root = f
                           /\ req[h].pc \in {"test", "remember"}
Apart ==
  \A g \in Grant, f \in Folder :
    Made(g, f) => /\ \A o \in Org : store[o].root # f
                  /\ \A k \in Grant \ {g} : ~Claims(k, f)

\* What a sign-in's clearing up read of it still holds.
Dropping ==
  \A h \in Handler :
    At(h, "folder") => /\ req[h].purpose = pending[req[h].grant].purpose
                       /\ req[h].root = pending[req[h].grant].root

Secure ==
  /\ Alone /\ Holding /\ Replacing /\ KeyNow /\ Known /\ Filed /\ Tested /\ Apart /\ Dropping
  /\ FolderKept

\* One lemma per action: what it moves and writes, then each part of Secure.

\* What connectGdrive keeps of what it read.
LEMMA ConnectGdriveLocals ==
  ASSUME TypeOK, NEW h \in Handler, NEW o \in Org, NEW g \in Grant, ConnectGdrive(h, o, g)
  PROVE  \E l \in Locals :
           /\ Goto(h, l) /\ l.pc = "connect" /\ l.org = o /\ l.grant = g
           /\ l.root = (IF Drive(o) THEN store[o].root ELSE pending[g].root)
           /\ l.old = store[o].grant /\ l.key = store[o].key
<1> DEFINE l == [pc |-> "connect", org |-> o, grant |-> g, purpose |-> pending[g].purpose,
                 root |-> IF Drive(o) THEN store[o].root ELSE pending[g].root,
                 old |-> store[o].grant, key |-> store[o].key]
<1>1. l \in Locals
  BY DEF TypeOK, Locals, Held, PendingRow, StoreRow, Drive
<1>2. Goto(h, l)
  BY DEF ConnectGdrive
<1>3. /\ l.pc = "connect" /\ l.org = o /\ l.grant = g
      /\ l.root = (IF Drive(o) THEN store[o].root ELSE pending[g].root)
      /\ l.old = store[o].grant /\ l.key = store[o].key
  OBVIOUS
<1> HIDE DEF l
<1>4. QED
  BY <1>1, <1>2, <1>3

LEMMA RunTestSecure ==
  ASSUME TypeOK, TypeOK', Secure, NEW h \in Handler, RunTest(h)
  PROVE  Secure'
<1>1. PICK ok \in BOOLEAN, root \in Root :
        /\ TestDrive(req[h].grant, req[h].root, ok, root)
        /\ Goto(h, [req[h] EXCEPT !.pc = "remember", !.root = root])
  BY DEF RunTest
<1>2. /\ \A k \in Handler \ {h} : req'[k] = req[k]
      /\ req'[h] = [req[h] EXCEPT !.pc = "remember", !.root = root]
      /\ req[h].pc = "test"
  BY <1>1 DEF TypeOK, Goto, RunTest, At
<1>3. UNCHANGED <<grant, pending, store>>
  BY DEF RunTest
<1>4. \/ root = req[h].root /\ folder' = folder
      \/ root \in Folder /\ folder[root] = "none" /\ folder' = [folder EXCEPT ![root] = "there"]
  BY <1>1, Minted DEF TestDrive
<1>5. \A f \in Folder : folder[f] # "none" => folder'[f] = folder[f]
  BY <1>4 DEF TypeOK
<1>6. /\ req'[h].pc = "remember" /\ req'[h].org = req[h].org /\ req'[h].grant = req[h].grant
      /\ req'[h].purpose = req[h].purpose /\ req'[h].root = root /\ req'[h].old = req[h].old
  BY <1>2 DEF TypeOK, Locals
<1>7. req[h].pc = "test" /\ \A k \in Handler \ {h} : req'[k] = req[k]
  BY <1>2
<1> USE <1>3, <1>4, <1>5, <1>6, <1>7
<1>8. Alone'
  BY DEF Secure, Alone
<1>9. Holding'
  BY DEF Secure, Holding, Working, Keeping, Open
<1>10. Replacing'
  BY DEF Secure, Replacing
<1>11. KeyNow'
  BY DEF Secure, KeyNow
<1>12. Known'
  BY DEF Secure, Known, TypeOK
<1>13. Filed'
  BY DEF Secure, Filed, Drive, At
<1>14. Tested'
  BY DEF Secure, Tested, At
<1>15. Apart'
  BY DEF Secure, Known, Apart, Made, Claims, Open, At, Holding, Working
<1>16. Dropping'
  BY DEF Secure, Dropping, At
<1>17. FolderKept'
  BY DEF Secure, FolderKept, Drive, Filed
<1>18. QED
  BY <1>8, <1>9, <1>10, <1>11, <1>12, <1>13, <1>14, <1>15, <1>16, <1>17 DEF Secure

LEMMA RememberSecure ==
  ASSUME TypeOK, TypeOK', Secure, NEW h \in Handler, Remember(h)
  PROVE  Secure'
<1>1. None \notin Org \cup Grant \cup Folder
  BY ConnectionsAssumption
<1>2. /\ \A k \in Handler \ {h} : req'[k] = req[k]
      /\ req'[h].pc = "rest" /\ req'[h].org = None /\ req'[h].grant = None
      /\ req'[h].root = None /\ req'[h].old = None
      /\ req[h].pc = "remember"
  BY Rests DEF Remember, Rest, At
<1>3. UNCHANGED <<grant, folder, store>>
  BY DEF Remember
<1>4. req[h].grant \in Grant /\ Open(req[h].grant)
  BY <1>2 DEF Secure, Holding, Working
<1>5. \A g \in Grant : /\ pending'[g].state = pending[g].state /\ pending'[g].purpose = pending[g].purpose
                       /\ pending'[g].root = IF g = req[h].grant THEN req[h].root ELSE pending[g].root
  BY <1>4 DEF Remember, TypeOK, PendingRow
<1> USE <1>1, <1>2, <1>3, <1>4, <1>5
<1>6. Alone'
  BY DEF Secure, Alone
<1>7. Holding'
  BY DEF Secure, Holding, Working, Keeping, Open
<1>8. Replacing'
  BY DEF Secure, Replacing
<1>9. KeyNow'
  BY DEF Secure, KeyNow
<1>10. Known'
  BY DEF Secure, Known, TypeOK
<1>11. Filed'
  BY DEF Secure, Filed, Drive, At
<1>12. Tested'
  BY DEF Secure, Tested, At
<1>13. Apart'
  BY DEF Secure, Known, Apart, Made, Claims, Open, At, Holding, Working
<1>14. Dropping'
  BY DEF Secure, Dropping, At, Alone, Holding, Working
<1>15. FolderKept'
  BY DEF Secure, FolderKept, Drive, Filed
<1>16. QED
  BY <1>6, <1>7, <1>8, <1>9, <1>10, <1>11, <1>12, <1>13, <1>14, <1>15 DEF Secure

LEMMA ConnectTestSecure ==
  ASSUME TypeOK, TypeOK', Secure, NEW h \in Handler, ConnectTest(h)
  PROVE  Secure'
<1>1. PICK ok \in BOOLEAN, root \in Root :
        /\ TestDrive(req[h].grant, req[h].root, ok, root)
        /\ IF ok THEN Goto(h, [req[h] EXCEPT !.pc = "save", !.root = root]) ELSE Done(h)
  BY DEF ConnectTest
<1>2. /\ \A k \in Handler \ {h} : req'[k] = req[k]
      /\ req'[h] = IF ok THEN [req[h] EXCEPT !.pc = "save", !.root = root] ELSE Rest
      /\ req[h].pc = "connect"
  BY <1>1, Rests DEF TypeOK, Goto, ConnectTest, At
<1>3. UNCHANGED <<grant, pending, store>>
  BY DEF ConnectTest
<1>4. \/ root = req[h].root /\ folder' = folder
      \/ root \in Folder /\ folder[root] = "none" /\ folder' = [folder EXCEPT ![root] = "there"]
  BY <1>1, Minted DEF TestDrive
<1>5. \A f \in Folder : folder[f] # "none" => folder'[f] = folder[f]
  BY <1>4 DEF TypeOK
<1>6. \/ /\ req'[h].pc = "save" /\ req'[h].org = req[h].org /\ req'[h].grant = req[h].grant
         /\ req'[h].purpose = req[h].purpose /\ req'[h].root = root /\ req'[h].old = req[h].old
         /\ req'[h].key = req[h].key /\ grant[req[h].grant] = "good"
         /\ root \in Folder /\ folder'[root] = "there"
      \/ req'[h].pc = "rest" /\ req'[h].org = None /\ req'[h].grant = None
         /\ req'[h].root = None /\ req'[h].old = None
  BY <1>1, <1>2, <1>4, Minted DEF TypeOK, Locals, Rest, TestDrive
<1>7. None \notin Org \cup Grant \cup Folder
  BY ConnectionsAssumption
<1>8. req[h].pc = "connect" /\ \A k \in Handler \ {h} : req'[k] = req[k]
  BY <1>2
<1> USE <1>3, <1>4, <1>5, <1>6, <1>7, <1>8
<1>9. Alone'
  BY DEF Secure, Alone
<1>10. Holding'
  BY DEF Secure, Holding, Working, Keeping, Open
<1>11. Replacing'
  BY DEF Secure, Replacing
<1>12. KeyNow'
  BY DEF Secure, KeyNow
<1>13. Known'
  BY DEF Secure, Known, TypeOK
<1>14. Filed'
  BY DEF Secure, Filed, Drive, At
<1>15. Tested'
  BY DEF Secure, Tested, At
<1>16. Apart'
  BY DEF Secure, Known, Apart, Made, Claims, Open, At, Holding, Working
<1>17. Dropping'
  BY DEF Secure, Dropping, At
<1>18. FolderKept'
  BY DEF Secure, FolderKept, Drive, Filed
<1>19. QED
  BY <1>9, <1>10, <1>11, <1>12, <1>13, <1>14, <1>15, <1>16, <1>17, <1>18 DEF Secure

LEMMA SaveConnectionSecure ==
  ASSUME TypeOK, TypeOK', Secure, NEW h \in Handler, SaveConnection(h),
         ~\E o \in Org \ {req[h].org} : store[o].root = req[h].root
  PROVE  Secure'
<1>1. /\ \A k \in Handler \ {h} : req'[k] = req[k]
      /\ req'[h] = [req[h] EXCEPT !.pc = "forget"] /\ req[h].pc = "save"
  BY StepsOn DEF SaveConnection, Pcs, At
<1>2. UNCHANGED <<grant, folder, pending>>
  BY DEF SaveConnection
<1>3. /\ req'[h].pc = "forget" /\ req'[h].org = req[h].org /\ req'[h].grant = req[h].grant
      /\ req'[h].root = req[h].root /\ req'[h].old = req[h].old
  BY <1>1 DEF TypeOK, Locals
<1>4. req[h].org \in Org /\ req[h].grant \in Grant /\ Open(req[h].grant)
  BY <1>1 DEF Secure, Holding, Working, Keeping
<1>5. /\ \A o \in Org \ {req[h].org} : store'[o] = store[o]
      /\ store'[req[h].org].adapter = "gdrive"
      /\ store'[req[h].org].grant = req[h].grant /\ store'[req[h].org].root = req[h].root
  BY <1>4 DEF SaveConnection, TypeOK
<1>6. req[h].pc = "save" /\ \A k \in Handler \ {h} : req'[k] = req[k]
  BY <1>1
<1> USE <1>2, <1>3, <1>4, <1>5, <1>6
<1>7. Alone'
  BY DEF Secure, Alone
<1>8. Holding'
  BY DEF Secure, Holding, Working, Keeping, Open
<1>9. Replacing'
  BY DEF Secure, Replacing, Alone, Holding, Working, Keeping, Filed, Open
<1>10. KeyNow'
  BY DEF Secure, KeyNow, Alone, Holding, Keeping
<1>11. Known'
  BY DEF Secure, Known, TypeOK, Tested, At
<1>12. Filed'
  BY DEF Secure, Filed, Drive, At, Alone, Tested, Holding, Working, Open
<1>13. Tested'
  BY DEF Secure, Tested, At
<1>14. Apart'
  BY DEF Secure, Known, Apart, Made, Claims, Open, At, Holding, Working, Alone, Tested
<1>15. Dropping'
  BY DEF Secure, Dropping, At
<1>16. FolderKept'
  BY DEF Secure, FolderKept, Drive, Filed, Tested, At
<1>17. QED
  BY <1>7, <1>8, <1>9, <1>10, <1>11, <1>12, <1>13, <1>14, <1>15, <1>16 DEF Secure

\* Refused: the folder is another organization's.
LEMMA SaveRefusedSecure ==
  ASSUME TypeOK, TypeOK', Secure, NEW h \in Handler, SaveConnection(h),
         \E o \in Org \ {req[h].org} : store[o].root = req[h].root
  PROVE  Secure'
<1>1. None \notin Org \cup Grant \cup Folder
  BY ConnectionsAssumption
<1>2. /\ \A k \in Handler \ {h} : req'[k] = req[k]
      /\ req'[h].pc = "rest" /\ req'[h].org = None /\ req'[h].grant = None
      /\ req'[h].root = None /\ req'[h].old = None
      /\ req[h].pc = "save"
  BY Rests DEF SaveConnection, Rest, At
<1>3. UNCHANGED <<grant, folder, pending, store>>
  BY DEF SaveConnection
<1> USE <1>1, <1>2, <1>3
<1>4. Alone'
  BY DEF Secure, Alone
<1>5. Holding'
  BY DEF Secure, Holding, Working, Keeping, Open
<1>6. Replacing'
  BY DEF Secure, Replacing
<1>7. KeyNow'
  BY DEF Secure, KeyNow
<1>8. Known'
  BY DEF Secure, Known, TypeOK
<1>9. Filed'
  BY DEF Secure, Filed, Drive, At
<1>10. Tested'
  BY DEF Secure, Tested, At
<1>11. Apart'
  BY DEF Secure, Known, Apart, Made, Claims, Open, At, Holding, Working
<1>12. Dropping'
  BY DEF Secure, Dropping, At
<1>13. FolderKept'
  BY DEF Secure, FolderKept, Drive, Filed
<1>14. QED
  BY <1>4, <1>5, <1>6, <1>7, <1>8, <1>9, <1>10, <1>11, <1>12, <1>13 DEF Secure

LEMMA ForgetPendingSecure ==
  ASSUME TypeOK, TypeOK', Secure, NEW h \in Handler, ForgetPending(h)
  PROVE  Secure'
<1>1. None \notin Org \cup Grant \cup Folder
  BY ConnectionsAssumption
<1>2. \A k \in Handler \ {h} : req'[k] = req[k]
  BY Rests, StepsOn DEF ForgetPending, Pcs
<1>3. req[h].pc = "forget" /\ req[h].grant \in Grant /\ Open(req[h].grant)
  BY DEF Secure, Holding, Working, ForgetPending, At
<1>4. UNCHANGED <<grant, folder, store>>
  BY DEF ForgetPending
<1>5. \/ /\ req'[h].pc = "revoke" /\ req'[h].org = req[h].org /\ req'[h].grant = req[h].grant
         /\ req'[h].root = req[h].root /\ req'[h].old = req[h].old
      \/ /\ req'[h].pc = "rest" /\ req'[h].org = None /\ req'[h].grant = None
         /\ req'[h].root = None /\ req'[h].old = None
  BY Rests, StepsOn DEF ForgetPending, Rest, Pcs, TypeOK, Locals
<1>6. \A g \in Grant : IF g = req[h].grant THEN pending'[g].state = "gone" /\ pending'[g].root = None
                                           ELSE pending'[g] = pending[g]
  BY <1>3 DEF ForgetPending, PendingGone, NoPending, TypeOK
<1> USE <1>1, <1>2, <1>3, <1>4, <1>5, <1>6
<1>7. Alone'
  BY DEF Secure, Alone
<1>8. Holding'
  BY DEF Secure, Holding, Working, Keeping, Open, Alone
<1>9. Replacing'
  BY DEF Secure, Replacing
<1>10. KeyNow'
  BY DEF Secure, KeyNow
<1>11. Known'
  BY DEF Secure, Known, TypeOK, Open
<1>12. Filed'
  BY DEF Secure, Filed, Drive, At
<1>13. Tested'
  BY DEF Secure, Tested, At
<1>14. Apart'
  BY DEF Secure, Known, Apart, Made, Claims, Open, At, Holding, Working
<1>15. Dropping'
  BY DEF Secure, Dropping, At, Alone, Holding, Working
<1>16. FolderKept'
  BY DEF Secure, FolderKept, Drive, Filed
<1>17. QED
  BY <1>7, <1>8, <1>9, <1>10, <1>11, <1>12, <1>13, <1>14, <1>15, <1>16 DEF Secure

LEMMA RevokeReplacedSecure ==
  ASSUME TypeOK, TypeOK', Secure, NEW h \in Handler, RevokeReplaced(h)
  PROVE  Secure'
<1>1. None \notin Org \cup Grant \cup Folder
  BY ConnectionsAssumption
<1>2. /\ \A k \in Handler \ {h} : req'[k] = req[k]
      /\ req'[h].pc = "rest" /\ req'[h].org = None /\ req'[h].grant = None
      /\ req'[h].root = None /\ req'[h].old = None
      /\ req[h].pc = "revoke"
  BY Rests DEF RevokeReplaced, Rest, At
<1>3. UNCHANGED <<folder, pending, store>>
  BY DEF RevokeReplaced
<1>4. \A g \in Grant : /\ grant'[g] = "none" <=> grant[g] = "none"
                       /\ g # req[h].old => grant'[g] = grant[g]
  BY DEF RevokeReplaced, Revoked, TypeOK
<1> USE <1>1, <1>2, <1>3, <1>4
<1>5. Alone'
  BY DEF Secure, Alone
<1>6. Holding'
  BY DEF Secure, Holding, Working, Keeping, Open
<1>7. Replacing'
  BY DEF Secure, Replacing
<1>8. KeyNow'
  BY DEF Secure, KeyNow
<1>9. Known'
  BY DEF Secure, Known, TypeOK
<1>10. Filed'
  BY DEF Secure, Filed, Drive, At
<1>11. Tested'
  BY DEF Secure, Tested, At, Replacing, Holding, Working, Open
<1>12. Apart'
  BY DEF Secure, Known, Apart, Made, Claims, Open, At, Holding, Working
<1>13. Dropping'
  BY DEF Secure, Dropping, At
<1>14. FolderKept'
  BY DEF Secure, FolderKept, Drive, Filed, Replacing
<1>15. QED
  BY <1>5, <1>6, <1>7, <1>8, <1>9, <1>10, <1>11, <1>12, <1>13, <1>14 DEF Secure

LEMMA TestConnectionSecure ==
  ASSUME TypeOK, TypeOK', Secure, NEW h \in Handler, NEW from \in {"nas", "keys"},
         TestConnection(h, from, IF from = "nas" THEN "nas_save" ELSE "keys_save")
  PROVE  Secure'
<1>1. None \notin Org \cup Grant \cup Folder
  BY ConnectionsAssumption
<1>2. \A k \in Handler \ {h} : req'[k] = req[k]
  BY Rests, StepsOn DEF TestConnection, Pcs
<1>3. req[h].pc \in {"nas", "keys"}
  BY DEF TestConnection, At
<1>4. \/ /\ req'[h].pc \in {"nas_save", "keys_save"} /\ req'[h].org = req[h].org
         /\ req'[h].grant = req[h].grant /\ req'[h].root = req[h].root /\ req'[h].old = req[h].old
      \/ /\ req'[h].pc = "rest" /\ req'[h].org = None /\ req'[h].grant = None
         /\ req'[h].root = None /\ req'[h].old = None
  BY Rests, StepsOn DEF TestConnection, Rest, Pcs, TypeOK, Locals
<1>5. UNCHANGED <<grant, folder, pending, store>>
  BY DEF TestConnection
<1> USE <1>1, <1>2, <1>3, <1>4, <1>5
<1>6. Alone'
  BY DEF Secure, Alone
<1>7. Holding'
  BY DEF Secure, Holding, Working, Keeping, Open
<1>8. Replacing'
  BY DEF Secure, Replacing
<1>9. KeyNow'
  BY DEF Secure, KeyNow
<1>10. Known'
  BY DEF Secure, Known, TypeOK
<1>11. Filed'
  BY DEF Secure, Filed, Drive, At
<1>12. Tested'
  BY DEF Secure, Tested, At
<1>13. Apart'
  BY DEF Secure, Known, Apart, Made, Claims, Open, At, Holding, Working
<1>14. Dropping'
  BY DEF Secure, Dropping, At
<1>15. FolderKept'
  BY DEF Secure, FolderKept, Drive, Filed
<1>16. QED
  BY <1>6, <1>7, <1>8, <1>9, <1>10, <1>11, <1>12, <1>13, <1>14, <1>15 DEF Secure

LEMMA SaveStorageSecure ==
  ASSUME TypeOK, TypeOK', Secure, NEW h \in Handler, SaveStorage(h)
  PROVE  Secure'
<1>1. None \notin Org \cup Grant \cup Folder
  BY ConnectionsAssumption
<1>2. /\ \A k \in Handler \ {h} : req'[k] = req[k]
      /\ req'[h].pc = "rest" /\ req'[h].org = None /\ req'[h].grant = None
      /\ req'[h].root = None /\ req'[h].old = None
      /\ req[h].pc = "nas_save"
  BY Rests DEF SaveStorage, Rest, At
<1>3. UNCHANGED <<grant, folder, pending>>
  BY DEF SaveStorage
<1>4. req[h].org \in Org
  BY <1>2 DEF Secure, Holding, Keeping
<1>5. /\ \A o \in Org \ {req[h].org} : store'[o] = store[o]
      /\ store'[req[h].org].adapter = "s3"
      /\ store'[req[h].org].grant = None /\ store'[req[h].org].root = None
  BY <1>4 DEF SaveStorage, TypeOK, NoStore
<1> USE <1>1, <1>2, <1>3, <1>4, <1>5
<1>6. Alone'
  BY DEF Secure, Alone
<1>7. Holding'
  BY DEF Secure, Holding, Working, Keeping, Open
<1>8. Replacing'
  BY DEF Secure, Replacing, Alone, Holding, Keeping
<1>9. KeyNow'
  BY DEF Secure, KeyNow, Alone, Holding, Keeping
<1>10. Known'
  BY DEF Secure, Known, TypeOK
<1>11. Filed'
  BY DEF Secure, Filed, Drive, At
<1>12. Tested'
  BY DEF Secure, Tested, At
<1>13. Apart'
  BY DEF Secure, Known, Apart, Made, Claims, Open, At, Holding, Working
<1>14. Dropping'
  BY DEF Secure, Dropping, At
<1>15. FolderKept'
  BY DEF Secure, FolderKept, Drive, Filed
<1>16. QED
  BY <1>6, <1>7, <1>8, <1>9, <1>10, <1>11, <1>12, <1>13, <1>14, <1>15 DEF Secure

LEMMA SaveCredentialsSecure ==
  ASSUME TypeOK, TypeOK', Secure, NEW h \in Handler, SaveCredentials(h)
  PROVE  Secure'
<1>1. None \notin Org \cup Grant \cup Folder
  BY ConnectionsAssumption
<1>2. /\ \A k \in Handler \ {h} : req'[k] = req[k]
      /\ req'[h].pc = "rest" /\ req'[h].org = None /\ req'[h].grant = None
      /\ req'[h].root = None /\ req'[h].old = None
      /\ req[h].pc = "keys_save"
  BY Rests DEF SaveCredentials, Rest, At
<1>3. UNCHANGED <<grant, folder, pending>>
  BY DEF SaveCredentials
<1>4. \A o \in Org : /\ store'[o].adapter = store[o].adapter /\ store'[o].grant = store[o].grant
                     /\ store'[o].root = store[o].root /\ store'[o].key = store[o].key
  BY DEF SaveCredentials, TypeOK, StoreRow
<1> USE <1>1, <1>2, <1>3, <1>4
<1>5. Alone'
  BY DEF Secure, Alone
<1>6. Holding'
  BY DEF Secure, Holding, Working, Keeping, Open
<1>7. Replacing'
  BY DEF Secure, Replacing, Holding, Keeping
<1>8. KeyNow'
  BY DEF Secure, KeyNow, Holding, Keeping
<1>9. Known'
  BY DEF Secure, Known, TypeOK
<1>10. Filed'
  BY DEF Secure, Filed, Drive, At
<1>11. Tested'
  BY DEF Secure, Tested, At
<1>12. Apart'
  BY DEF Secure, Known, Apart, Made, Claims, Open, At, Holding, Working
<1>13. Dropping'
  BY DEF Secure, Dropping, At
<1>14. FolderKept'
  BY DEF Secure, FolderKept, Drive, Filed
<1>15. QED
  BY <1>5, <1>6, <1>7, <1>8, <1>9, <1>10, <1>11, <1>12, <1>13, <1>14 DEF Secure

LEMMA HealthSecure ==
  ASSUME TypeOK, TypeOK', Secure, NEW c \in Checker, Health(c)
  PROVE  Secure'
<1>1. UNCHANGED <<grant, folder, pending, req>>
  BY DEF Health, RecordHealth, NoteFailure
<1>2. \A o \in Org : /\ store'[o].adapter = store[o].adapter /\ store'[o].grant = store[o].grant
                     /\ store'[o].root = store[o].root /\ store'[o].key = store[o].key
  BY DEF Health, RecordHealth, NoteFailure, Recorded, TypeOK, StoreRow
<1> USE <1>1, <1>2
<1>3. Alone'
  BY DEF Secure, Alone
<1>4. Holding'
  BY DEF Secure, Holding, Working, Keeping, Open
<1>5. Replacing'
  BY DEF Secure, Replacing, Holding, Keeping
<1>6. KeyNow'
  BY DEF Secure, KeyNow, Holding, Keeping
<1>7. Known'
  BY DEF Secure, Known, TypeOK
<1>8. Filed'
  BY DEF Secure, Filed, Drive, At
<1>9. Tested'
  BY DEF Secure, Tested, At
<1>10. Apart'
  BY DEF Secure, Known, Apart, Made, Claims, Open, At, Holding, Working
<1>11. Dropping'
  BY DEF Secure, Dropping, At
<1>12. FolderKept'
  BY DEF Secure, FolderKept, Drive, Filed
<1>13. QED
  BY <1>3, <1>4, <1>5, <1>6, <1>7, <1>8, <1>9, <1>10, <1>11, <1>12 DEF Secure

LEMMA DropFolderSecure ==
  ASSUME TypeOK, TypeOK', Secure, NEW h \in Handler, DropFolder(h)
  PROVE  Secure'
<1>1. /\ \A k \in Handler \ {h} : req'[k] = req[k]
      /\ req'[h].pc = "grant" /\ req'[h].org = req[h].org /\ req'[h].grant = req[h].grant
      /\ req'[h].purpose = req[h].purpose /\ req'[h].root = req[h].root
      /\ req'[h].old = req[h].old /\ req[h].pc = "folder"
  BY StepsOn DEF DropFolder, At, Pcs, TypeOK, Locals
<1>2. UNCHANGED <<grant, pending, store>>
  BY DEF DropFolder
<1>3. \A f \in Folder : /\ folder[f] # "none" => folder'[f] # "none"
                        /\ folder'[f] # folder[f] => req[h].purpose = "create" /\ f = req[h].root
  BY DEF DropFolder, TypeOK
<1>4. \A f \in Folder : folder'[f] # folder[f] => Made(req[h].grant, f)
  BY <1>1, <1>3 DEF Secure, Dropping, Holding, Alone, Made, At, Working
<1> USE <1>1, <1>2, <1>3, <1>4
<1>5. Alone'
  BY DEF Secure, Alone
<1>6. Holding'
  BY DEF Secure, Holding, Working, Keeping, Open
<1>7. Replacing'
  BY DEF Secure, Replacing
<1>8. KeyNow'
  BY DEF Secure, KeyNow
<1>9. Known'
  BY DEF Secure, Known, TypeOK
<1>10. Filed'
  BY DEF Secure, Filed, Drive, At
<1>11. Tested'
  BY DEF Secure, Tested, At, Apart, Claims, Holding, Working, Alone
<1>12. Apart'
  BY DEF Secure, Known, Apart, Made, Claims, Open, At, Holding, Working
<1>13. Dropping'
  BY DEF Secure, Dropping, At
<1>14. FolderKept'
  BY DEF Secure, FolderKept, Drive, Filed, Apart, Holding, Working
<1>15. QED
  BY <1>5, <1>6, <1>7, <1>8, <1>9, <1>10, <1>11, <1>12, <1>13, <1>14 DEF Secure

LEMMA RevokeSignInSecure ==
  ASSUME TypeOK, TypeOK', Secure, NEW h \in Handler, RevokeSignIn(h)
  PROVE  Secure'
<1>1. /\ \A k \in Handler \ {h} : req'[k] = req[k]
      /\ req'[h].pc = "row" /\ req'[h].org = req[h].org /\ req'[h].grant = req[h].grant
      /\ req'[h].purpose = req[h].purpose /\ req'[h].root = req[h].root
      /\ req'[h].old = req[h].old /\ req[h].pc = "grant"
  BY StepsOn DEF RevokeSignIn, At, Pcs, TypeOK, Locals
<1>2. UNCHANGED <<folder, pending, store>>
  BY DEF RevokeSignIn
<1>3. \A g \in Grant : /\ grant'[g] = "none" <=> grant[g] = "none"
                       /\ g # req[h].grant => grant'[g] = grant[g]
  BY DEF RevokeSignIn, Revoked, TypeOK
<1> USE <1>1, <1>2, <1>3
<1>4. Alone'
  BY DEF Secure, Alone
<1>5. Holding'
  BY DEF Secure, Holding, Working, Keeping, Open
<1>6. Replacing'
  BY DEF Secure, Replacing
<1>7. KeyNow'
  BY DEF Secure, KeyNow
<1>8. Known'
  BY DEF Secure, Known, TypeOK
<1>9. Filed'
  BY DEF Secure, Filed, Drive, At
<1>10. Tested'
  BY DEF Secure, Tested, At, Alone, Holding, Working
<1>11. Apart'
  BY DEF Secure, Known, Apart, Made, Claims, Open, At, Holding, Working
<1>12. Dropping'
  BY DEF Secure, Dropping, At
<1>13. FolderKept'
  BY DEF Secure, FolderKept, Drive, Filed, Holding, Open, Alone, Working, At
<1>14. QED
  BY <1>4, <1>5, <1>6, <1>7, <1>8, <1>9, <1>10, <1>11, <1>12, <1>13 DEF Secure

LEMMA DropPendingSecure ==
  ASSUME TypeOK, TypeOK', Secure, NEW h \in Handler, DropPending(h)
  PROVE  Secure'
<1>1. None \notin Org \cup Grant \cup Folder
  BY ConnectionsAssumption
<1>2. /\ \A k \in Handler \ {h} : req'[k] = req[k]
      /\ req'[h].pc = "rest" /\ req'[h].org = None /\ req'[h].grant = None
      /\ req'[h].root = None /\ req'[h].old = None
      /\ req[h].pc = "row"
  BY Rests DEF DropPending, Rest, At
<1>3. UNCHANGED <<grant, folder, store>>
  BY DEF DropPending
<1>4. req[h].grant \in Grant /\ Open(req[h].grant)
  BY <1>2 DEF Secure, Holding, Working
<1>5. \A g \in Grant : IF g = req[h].grant THEN pending'[g].state = "gone" /\ pending'[g].root = None
                                           ELSE pending'[g] = pending[g]
  BY <1>4 DEF DropPending, PendingGone, NoPending, TypeOK
<1> USE <1>1, <1>2, <1>3, <1>4, <1>5
<1>6. Alone'
  BY DEF Secure, Alone
<1>7. Holding'
  BY DEF Secure, Holding, Working, Keeping, Open, Alone
<1>8. Replacing'
  BY DEF Secure, Replacing
<1>9. KeyNow'
  BY DEF Secure, KeyNow
<1>10. Known'
  BY DEF Secure, Known, TypeOK, Open
<1>11. Filed'
  BY DEF Secure, Filed, Drive, At
<1>12. Tested'
  BY DEF Secure, Tested, At
<1>13. Apart'
  BY DEF Secure, Known, Apart, Made, Claims, Open, At, Holding, Working
<1>14. Dropping'
  BY DEF Secure, Dropping, At, Alone, Holding, Working
<1>15. FolderKept'
  BY DEF Secure, FolderKept, Drive, Filed
<1>16. QED
  BY <1>6, <1>7, <1>8, <1>9, <1>10, <1>11, <1>12, <1>13, <1>14, <1>15 DEF Secure

LEMMA TestPendingSecure ==
  ASSUME "twice" \notin Offered, TypeOK, TypeOK', Secure, NEW h \in Handler, NEW g \in Grant, TestPending(h, g)
  PROVE  Secure'
<1>1. None \notin Org \cup Grant \cup Folder
  BY ConnectionsAssumption
<1>2. PICK root \in Root :
        /\ Goto(h, [Rest EXCEPT !.pc = "test", !.grant = g, !.root = root])
        /\ \/ root = pending[g].root
           \/ pending[g].purpose # "create" /\ \E o \in Org : Drive(o) /\ root = store[o].root
  BY DEF TestPending, TypeOK, PendingRow, StoreRow
<1>3. [Rest EXCEPT !.pc = "test", !.grant = g, !.root = root] \in Locals
  BY RestTyped DEF Locals, Held
<1>4. /\ \A k \in Handler \ {h} : req'[k] = req[k]
      /\ req'[h].pc = "test" /\ req'[h].org = None /\ req'[h].grant = g
      /\ req'[h].root = root /\ req'[h].old = None /\ req[h].pc = "rest"
  <2> DEFINE l == [Rest EXCEPT !.pc = "test", !.grant = g, !.root = root]
  <2>1. Goto(h, l) /\ l \in Locals
    BY <1>2, <1>3 DEF TestPending
  <2>3. req'[h] = l /\ \A k \in Handler \ {h} : req'[k] = req[k]
    <3> HIDE DEF l
    <3>1. QED
      BY <2>1, Moves
  <2>4. QED
    BY <2>3 DEF TestPending, At, Rest
<1>5. /\ Open(g) /\ \A k \in Handler : req[k].grant # g
      /\ UNCHANGED <<grant, folder, pending, store>>
  BY DEF TestPending, Usable, OneAtATime, Using
<1> USE <1>1, <1>2, <1>3, <1>4, <1>5
<1>6. Alone'
  BY DEF Secure, Alone
<1>7. Holding'
  BY DEF Secure, Holding, Working, Keeping, Open
<1>8. Replacing'
  BY DEF Secure, Replacing
<1>9. KeyNow'
  BY DEF Secure, KeyNow
<1>10. Known'
  BY DEF Secure, Known, TypeOK
<1>11. Filed'
  BY DEF Secure, Filed, Drive, At
<1>12. Tested'
  BY DEF Secure, Tested, At
<1>13. Apart'
  BY DEF Secure, Known, Apart, Made, Claims, Open, At, Holding, Working
<1>14. Dropping'
  BY DEF Secure, Dropping, At
<1>15. FolderKept'
  BY DEF Secure, FolderKept, Drive, Filed
<1>16. QED
  BY <1>6, <1>7, <1>8, <1>9, <1>10, <1>11, <1>12, <1>13, <1>14, <1>15 DEF Secure

LEMMA ConnectGdriveSecure ==
  ASSUME "twice" \notin Offered, TypeOK, TypeOK', Secure, NEW h \in Handler, NEW o \in Org, NEW g \in Grant,
         ConnectGdrive(h, o, g)
  PROVE  Secure'
<1>1. None \notin Org \cup Grant \cup Folder
  BY ConnectionsAssumption
<1>2. PICK l \in Locals :
        /\ Goto(h, l) /\ l.pc = "connect" /\ l.org = o /\ l.grant = g
        /\ l.root = (IF Drive(o) THEN store[o].root ELSE pending[g].root)
        /\ l.old = store[o].grant /\ l.key = store[o].key
  BY ConnectGdriveLocals
<1>3. /\ \A k \in Handler \ {h} : req'[k] = req[k]
      /\ req'[h] = l /\ req[h].pc = "rest"
  BY <1>2, Moves DEF ConnectGdrive, At
<1>4. /\ Open(g) /\ \A k \in Handler : req[k].grant # g /\ req[k].org # o
      /\ UNCHANGED <<grant, folder, pending, store>>
  BY DEF ConnectGdrive, Usable, OneAtATime, Using, OneRequest, Busy
<1>5. store[o].grant \in Grant => pending[store[o].grant].state = "gone"
  BY <1>4 DEF Secure, Filed
<1> USE <1>1, <1>2, <1>3, <1>4, <1>5
<1>6. Alone'
  BY DEF Secure, Alone
<1>7. Holding'
  BY DEF Secure, Holding, Working, Keeping, Open
<1>8. Replacing'
  BY DEF Secure, Replacing
<1>9. KeyNow'
  BY DEF Secure, KeyNow
<1>10. Known'
  BY DEF Secure, Known, TypeOK
<1>11. Filed'
  BY DEF Secure, Filed, Drive, At
<1>12. Tested'
  BY DEF Secure, Tested, At
<1>13. Apart'
  BY DEF Secure, Known, Apart, Made, Claims, Open, At, Holding, Working
<1>14. Dropping'
  BY DEF Secure, Dropping, At
<1>15. FolderKept'
  BY DEF Secure, FolderKept, Drive, Filed
<1>16. QED
  BY <1>6, <1>7, <1>8, <1>9, <1>10, <1>11, <1>12, <1>13, <1>14, <1>15 DEF Secure

LEMMA ConnectStorageSecure ==
  ASSUME "twice" \notin Offered, TypeOK, TypeOK', Secure, NEW h \in Handler, NEW o \in Org,
         ConnectStorage(h, o) \/ ReplaceCredentials(h, o)
  PROVE  Secure'
<1>1. None \notin Org \cup Grant \cup Folder
  BY ConnectionsAssumption
<1>2. PICK pc \in {"nas", "keys"} : Goto(h, [Rest EXCEPT !.pc = pc, !.org = o])
  BY DEF ConnectStorage, ReplaceCredentials
<1>3. [Rest EXCEPT !.pc = pc, !.org = o] \in Locals
  BY RestTyped DEF Locals
<1>4. /\ \A k \in Handler \ {h} : req'[k] = req[k]
      /\ req'[h].pc = pc /\ req'[h].org = o /\ req'[h].grant = None
      /\ req'[h].root = None /\ req'[h].old = None
  <2> DEFINE l == [Rest EXCEPT !.pc = pc, !.org = o]
  <2>1. Goto(h, l) /\ l \in Locals
    BY <1>2, <1>3 DEF ConnectStorage
  <2>3. req'[h] = l /\ \A k \in Handler \ {h} : req'[k] = req[k]
    <3> HIDE DEF l
    <3>1. QED
      BY <2>1, Moves
  <2>4. QED
    BY <2>3 DEF ConnectStorage, At, Rest
<1>5. /\ req[h].pc = "rest" /\ \A k \in Handler : req[k].org # o
      /\ UNCHANGED <<grant, folder, pending, store>>
  BY DEF ConnectStorage, ReplaceCredentials, OneRequest, Busy, At
<1> USE <1>1, <1>2, <1>3, <1>4, <1>5
<1>6. Alone'
  BY DEF Secure, Alone
<1>7. Holding'
  BY DEF Secure, Holding, Working, Keeping, Open
<1>8. Replacing'
  BY DEF Secure, Replacing
<1>9. KeyNow'
  BY DEF Secure, KeyNow
<1>10. Known'
  BY DEF Secure, Known, TypeOK
<1>11. Filed'
  BY DEF Secure, Filed, Drive, At
<1>12. Tested'
  BY DEF Secure, Tested, At
<1>13. Apart'
  BY DEF Secure, Known, Apart, Made, Claims, Open, At, Holding, Working
<1>14. Dropping'
  BY DEF Secure, Dropping, At
<1>15. FolderKept'
  BY DEF Secure, FolderKept, Drive, Filed
<1>16. QED
  BY <1>6, <1>7, <1>8, <1>9, <1>10, <1>11, <1>12, <1>13, <1>14, <1>15 DEF Secure

LEMMA DiscardSecure ==
  ASSUME "twice" \notin Offered, TypeOK, TypeOK', Secure, NEW h \in Handler, NEW g \in Grant, Discard(h, g)
  PROVE  Secure'
<1>1. None \notin Org \cup Grant \cup Folder
  BY ConnectionsAssumption
<1>2. [Rest EXCEPT !.pc = "folder", !.grant = g, !.purpose = pending[g].purpose,
                   !.root = pending[g].root] \in Locals
  BY RestTyped DEF TypeOK, Locals, Held, PendingRow
<1>3. /\ \A k \in Handler \ {h} : req'[k] = req[k]
      /\ req'[h].pc = "folder" /\ req'[h].org = None /\ req'[h].grant = g /\ req'[h].old = None
      /\ req'[h].purpose = pending[g].purpose /\ req'[h].root = pending[g].root
      /\ req[h].pc = "rest"
  <2> DEFINE l == [Rest EXCEPT !.pc = "folder", !.grant = g, !.purpose = pending[g].purpose,
                        !.root = pending[g].root]
  <2>1. Goto(h, l) /\ l \in Locals
    BY <1>2 DEF Discard
  <2>3. req'[h] = l /\ \A k \in Handler \ {h} : req'[k] = req[k]
    <3> HIDE DEF l
    <3>1. QED
      BY <2>1, Moves
  <2>4. QED
    BY <2>3 DEF Discard, At, Rest
<1>4. /\ Open(g) /\ \A k \in Handler : req[k].grant # g
      /\ UNCHANGED <<grant, folder, pending, store>>
  BY DEF Discard, OneAtATime, Using
<1> USE <1>1, <1>2, <1>3, <1>4
<1>5. Alone'
  BY DEF Secure, Alone
<1>6. Holding'
  BY DEF Secure, Holding, Working, Keeping, Open
<1>7. Replacing'
  BY DEF Secure, Replacing
<1>8. KeyNow'
  BY DEF Secure, KeyNow
<1>9. Known'
  BY DEF Secure, Known, TypeOK
<1>10. Filed'
  BY DEF Secure, Filed, Drive, At
<1>11. Tested'
  BY DEF Secure, Tested, At
<1>12. Apart'
  BY DEF Secure, Known, Apart, Made, Claims, Open, At, Holding, Working
<1>13. Dropping'
  BY DEF Secure, Dropping, At
<1>14. FolderKept'
  BY DEF Secure, FolderKept, Drive, Filed
<1>15. QED
  BY <1>5, <1>6, <1>7, <1>8, <1>9, <1>10, <1>11, <1>12, <1>13, <1>14 DEF Secure

LEMMA CallbackSecure ==
  ASSUME TypeOK, TypeOK', Secure, NEW purpose \in Org \cup {"create"}, Callback(purpose)
  PROVE  Secure'
<1>1. None \notin Org \cup Grant \cup Folder
  BY ConnectionsAssumption
<1>2. PICK g \in Grant : /\ grant[g] = "none" /\ grant' = [grant EXCEPT ![g] = "good"]
                         /\ pending' = [pending EXCEPT ![g] =
                              [state |-> "open", purpose |-> purpose, root |-> None,
                               expires |-> now + PendingTtl]]
  BY Minted DEF Callback
<1>3. /\ grant'[g] # "none" /\ pending'[g].state = "open" /\ pending'[g].root = None
      /\ \A k \in Grant \ {g} : grant'[k] = grant[k] /\ pending'[k] = pending[k]
      /\ pending[g].state = "none"
  BY <1>2 DEF TypeOK, Secure, Known
<1>4. UNCHANGED <<folder, store, req>>
  BY DEF Callback
<1>5. /\ \A o \in Org : store[o].grant # g
      /\ \A k \in Handler : req[k].pc \in Working => req[k].grant # g
  BY <1>3 DEF Secure, Filed, Holding, Open, At, Working
<1> USE <1>1, <1>2, <1>3, <1>4, <1>5
<1>6. Alone'
  BY DEF Secure, Alone
<1>7. Holding'
  BY DEF Secure, Holding, Working, Keeping, Open
<1>8. Replacing'
  BY DEF Secure, Replacing
<1>9. KeyNow'
  BY DEF Secure, KeyNow
<1>10. Known'
  BY DEF Secure, Known, TypeOK
<1>11. Filed'
  BY DEF Secure, Filed, Drive, At
<1>12. Tested'
  BY DEF Secure, Tested, At
<1>13. Apart'
  BY DEF Secure, Known, Apart, Made, Claims, Open, At, Holding, Working
<1>14. Dropping'
  BY DEF Secure, Dropping, At, Holding, Working
<1>15. FolderKept'
  BY DEF Secure, FolderKept, Drive, Filed
<1>16. QED
  BY <1>6, <1>7, <1>8, <1>9, <1>10, <1>11, <1>12, <1>13, <1>14, <1>15 DEF Secure

LEMMA WithdrawSecure ==
  ASSUME TypeOK, TypeOK', Secure, NEW g \in Grant, Withdraw(g)
  PROVE  Secure'
<1>1. UNCHANGED <<folder, pending, store, req>>
  BY DEF Withdraw
<1>2. /\ grant'[g] = "withdrawn" /\ grant[g] = "good"
      /\ \A k \in Grant \ {g} : grant'[k] = grant[k]
  BY DEF Withdraw, TypeOK
<1>3. \A h \in Handler : At(h, "save") => req[h].grant # g
  BY DEF Withdraw, Secure, Filed, Holding, Open, At, Working, Alone
<1> USE <1>1, <1>2, <1>3
<1>4. Alone'
  BY DEF Secure, Alone
<1>5. Holding'
  BY DEF Secure, Holding, Working, Keeping, Open
<1>6. Replacing'
  BY DEF Secure, Replacing
<1>7. KeyNow'
  BY DEF Secure, KeyNow
<1>8. Known'
  BY DEF Secure, Known, TypeOK
<1>9. Filed'
  BY DEF Secure, Filed, Drive, At
<1>10. Tested'
  BY DEF Secure, Tested, At, Holding, Working
<1>11. Apart'
  BY DEF Secure, Known, Apart, Made, Claims, Open, At, Holding, Working
<1>12. Dropping'
  BY DEF Secure, Dropping, At
<1>13. FolderKept'
  BY DEF Secure, FolderKept, Drive, Filed
<1>14. QED
  BY <1>4, <1>5, <1>6, <1>7, <1>8, <1>9, <1>10, <1>11, <1>12, <1>13 DEF Secure
\* Nothing that counts changes.
LEMMA QuietSecure ==
  ASSUME Secure, UNCHANGED <<grant, folder, pending, store, req>>
  PROVE  Secure'
<1>1. Alone' /\ Holding' /\ Replacing' /\ KeyNow'
  BY DEF Secure, Alone, Holding, Replacing, KeyNow, Open
<1>2. Known' /\ Filed' /\ Tested' /\ Dropping' /\ FolderKept'
  BY DEF Secure, Known, Filed, Tested, Dropping, FolderKept, Drive, At
<1>3. Apart'
  BY DEF Secure, Apart, Made, Claims, Open, At
<1>4. QED
  BY <1>1, <1>2, <1>3 DEF Secure

LEMMA InitSecure == Init => Secure
<1> SUFFICES ASSUME Init PROVE Secure
  OBVIOUS
<1>1. /\ \A h \in Handler : req[h] = Rest
      /\ \A g \in Grant : pending[g] = NoPending /\ grant[g] = "none"
      /\ \A o \in Org : store[o] = NoStore
  BY DEF Init
<1>2. None \notin Org \cup Grant \cup Folder
  BY ConnectionsAssumption
<1>3. Alone /\ Holding /\ Replacing /\ KeyNow
  BY <1>1, <1>2 DEF Alone, Holding, Replacing, KeyNow, Rest, Working, Keeping
<1>4. Known
  BY <1>1, <1>2 DEF Known, Rest, NoPending, NoStore
<1>5. Filed /\ FolderKept
  BY <1>1, <1>2 DEF Filed, FolderKept, Drive, NoStore
<1>6. Tested /\ Dropping
  BY <1>1 DEF Tested, Dropping, At, Rest
<1>7. Apart
  BY <1>1 DEF Apart, Made, Open, NoPending
<1>8. QED
  BY <1>3, <1>4, <1>5, <1>6, <1>7 DEF Secure

LEMMA StepSecure ==
  ASSUME "twice" \notin Offered, TypeOK, TypeOK', Secure, [Next]_vars
  PROVE  Secure'
<1>1. ASSUME NEW h \in Handler, SaveConnection(h) PROVE Secure'
  <2>1. CASE \E o \in Org \ {req[h].org} : store[o].root = req[h].root
    BY <1>1, <2>1, SaveRefusedSecure
  <2>2. CASE ~\E o \in Org \ {req[h].org} : store[o].root = req[h].root
    BY <1>1, <2>2, SaveConnectionSecure
  <2>3. QED
    BY <2>1, <2>2
<1>2. ASSUME NEW h \in Handler, TestConnection(h, "nas", "nas_save") PROVE Secure'
  BY <1>2, TestConnectionSecure
<1>3. ASSUME NEW h \in Handler, TestConnection(h, "keys", "keys_save") PROVE Secure'
  BY <1>3, TestConnectionSecure
<1>4. ASSUME NEW h \in Handler, Work(h) PROVE Secure'
  BY <1>1, <1>2, <1>3, <1>4, RunTestSecure, RememberSecure, ConnectTestSecure, ForgetPendingSecure,
     RevokeReplacedSecure, SaveStorageSecure, SaveCredentialsSecure, DropFolderSecure,
     RevokeSignInSecure, DropPendingSecure DEF Work
<1>5. ASSUME NEW h \in Handler, NEW g \in Grant,
             TestPending(h, g) \/ AbandonSignIn(h, g) \/ SweepPending(h, g)
      PROVE  Secure'
  BY <1>5, TestPendingSecure, DiscardSecure DEF AbandonSignIn, SweepPending
<1>6. ASSUME NEW c \in Checker, NEW o \in Org, RunHealthChecks(c, o) \/ GatewayRequest(c, o)
      PROVE  Secure'
  <2>1. UNCHANGED <<grant, folder, pending, store, req>>
    BY <1>6 DEF RunHealthChecks, GatewayRequest, ReadRow
  <2>2. QED
    BY <2>1, QuietSecure
<1>7. ASSUME Settle \/ Tick \/ UNCHANGED vars PROVE Secure'
  <2>1. UNCHANGED <<grant, folder, pending, store, req>>
    BY <1>7 DEF Settle, Tick, vars
  <2>2. QED
    BY <2>1, QuietSecure
<1>8. CASE Next
  BY <1>4, <1>5, <1>6, <1>7, <1>8, CallbackSecure, ConnectGdriveSecure, ConnectStorageSecure,
     HealthSecure, WithdrawSecure DEF Next
<1>9. QED
  BY <1>7, <1>8

LEMMA StaysSecure == "twice" \notin Offered => (Spec => [](TypeOK /\ Secure))
<1> SUFFICES ASSUME "twice" \notin Offered PROVE Spec => [](TypeOK /\ Secure)
  OBVIOUS
<1>1. Init => TypeOK /\ Secure
  BY InitTyped, InitSecure
<1>2. (TypeOK /\ Secure) /\ [Next]_vars => (TypeOK /\ Secure)'
  BY StepTyped, StepSecure
<1>3. QED
  BY <1>1, <1>2, PTL DEF Spec

(* While a sign-in and an organization are in one request's hands at a time,   *)
(* however tests, connections and clearing up overlap and whatever calls fail, *)
(* the folder of every Drive connection stands and its grant is not one we     *)
(* revoked (connectGdrive, testPending, sweepPendingConnections, abandon).     *)
THEOREM FoldersStay == "twice" \notin Offered => (Spec => []FolderKept)
<1>1. Secure => FolderKept
  BY DEF Secure
<1>2. QED
  BY <1>1, StaysSecure, PTL

\* The data key is what a connection read, and what it read is what the row holds.
LEMMA KeyStays ==
  ASSUME TypeOK, Secure, [Next]_vars, NEW o \in Org, store[o].key # 0
  PROVE  store'[o].key = store[o].key
<1>1. ASSUME NEW h \in Handler, SaveConnection(h) PROVE store'[o].key = store[o].key
  <2>1. req[h].pc = "save" /\ req[h].key = store[req[h].org].key
    BY <1>1 DEF Secure, KeyNow, SaveConnection, At
  <2>2. CASE o = req[h].org
    BY <1>1, <2>1, <2>2 DEF SaveConnection, KeptOrNew, TypeOK
  <2>3. CASE o # req[h].org
    BY <1>1, <2>3 DEF SaveConnection, TypeOK
  <2>4. QED
    BY <2>2, <2>3
<1>2. ASSUME NEW h \in Handler, SaveStorage(h) PROVE store'[o].key = store[o].key
  BY <1>2 DEF SaveStorage, KeptOrNew, NoStore, TypeOK
<1>3. ASSUME NEW p, NEW status, store' = [store EXCEPT ![p].status = status]
      PROVE  store'[o].key = store[o].key
  BY <1>3 DEF TypeOK, StoreRow
<1>4. ASSUME NEW h \in Handler, Work(h) PROVE store'[o].key = store[o].key
  <2>1. CASE SaveCredentials(h)
    BY <1>3, <2>1 DEF SaveCredentials
  <2>2. CASE ~SaveConnection(h) /\ ~SaveStorage(h) /\ ~SaveCredentials(h)
    <3>1. store' = store
      BY <1>4, <2>2 DEF Work, RunTest, Remember, ConnectTest, ForgetPending, RevokeReplaced,
                        TestConnection, DropFolder, RevokeSignIn, DropPending
    <3>2. QED
      BY <3>1
  <2>3. QED
    BY <1>1, <1>2, <2>1, <2>2
<1>5. ASSUME NEW c \in Checker, Health(c) PROVE store'[o].key = store[o].key
  <2>1. store' = store \/ \E status : Recorded(check[c].org, status)
    BY <1>5 DEF Health, RecordHealth, NoteFailure
  <2>2. QED
    BY <1>3, <2>1 DEF Recorded
<1>6. CASE UNCHANGED store
  BY <1>6
<1>7. \/ \E h \in Handler : Work(h)
      \/ \E c \in Checker : Health(c)
      \/ UNCHANGED store
  BY DEF Next, vars, Callback, TestPending, AbandonSignIn, SweepPending, Discard, ConnectGdrive,
         ConnectStorage, ReplaceCredentials, RunHealthChecks, GatewayRequest, ReadRow, Withdraw,
         Settle, Tick
<1>8. QED
  BY <1>4, <1>5, <1>6, <1>7

(* On the same condition, no reconnection of Drive or of a NAS and no change   *)
(* of credentials replaces an organization's data key (connectStorage,         *)
(* connectGdrive).                                                          *)
THEOREM KeyForGood == "twice" \notin Offered => (Spec => KeyKept)
<1>1. (TypeOK /\ Secure) /\ [Next]_vars
        => [\A o \in Org : store[o].key # 0 => store'[o].key = store[o].key]_vars
  BY KeyStays
<1>2. QED
  BY <1>1, StaysSecure, PTL DEF Spec, KeyKept
=============================================================================
