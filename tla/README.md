# Knowledge Vault in TLA+

Models, model checks and proofs of the Knowledge Vault API (`src/apps/api/src`), the
TypeScript server behind the web and mobile clients. Every definition is translated from the
source; `PROJECT.json` maps each to its lines. Paths below are relative to `src/apps/api/src`
unless they begin with `src/`.

Contents: the system (1) · plan (2) · modules and code (3–10) · runs and bounds (11) ·
fairness (12) · findings (13) · proofs (14) · not modelled (15) · how to run (16).

## 1. The system

One Fastify server, possibly several instances of it, over one PostgreSQL database through
Prisma. A request handler is ordinary `async` code: it runs undisturbed between two `await`s
and gives way to every other request at each of them. Few handlers are one transaction; most
are a sequence of committed calls. A scheduler calls one nightly job
(`POST /internal/jobs/nightly` in `compliance/routes.ts`), a secret being its only guard, so
two runs may overlap each other and any request. Instances share nothing but the database;
some keep state in memory (the session cache, open event streams, the console's sessions).

| Component | State | Operations | Interacts with | What makes it correct |
|---|---|---|---|---|
| Sign-in sessions (`auth/`, `plugins/`, `events.ts`) | `Session`, `RefreshToken`; a cache and open streams per instance | sign in, authenticate, beat, refresh, sign out, end all; nightly ending and pruning | every authenticated route; bans from the console; event streams | an ended session stops everywhere within a stated time; nothing but the person's own activity extends a session; a recorded ending stands; abandoned sessions are closed; a ban reaches every session |
| Compliance (`courses/helpers.ts`, `compliance/routes.ts`) | `CoursePlacement`, `Placement`, `CompletionRecord`, `CourseEdition` | place, reconfigure, remove; complete; republish; nightly expiry; three views | roles (who sits where), exams (completion), mailbox (notices) | nobody is late before a whole window; the nightly rewrite changes nothing a view of lateness says; being late is not lost; the views agree |
| Document review and replacement (`courses/routes.ts`, `requests/routes.ts`) | `Course` (draft, supersedes, supersededBy), placements, `VaultRequest` | propose, decide, send back, resubmit, withdraw, replace, place, delete | storage (content), mailbox (verdicts) | a replacement is held until approved, keeps the audience, happens once; a verdict told stands; no draft without a review |
| Other requests (`requests/routes.ts`) | `VaultRequest` of the other kinds | join, visibility, delete a branch, adopt a course | roles, courses | decided once, by somebody who may; never about a node that is gone |
| Branches and authority (`roles/`, `src/packages/shared/src/policy.ts`) | `RoleNode`, `Placement`, `Membership`, invitations | create, place, remove, flag, delete | nearly everything asks `can()` | every role keeps an owner; a membership exists exactly while a placement does; a role with people is not deleted |
| Organizations (`orgs/`) | `Organization`, owners, supreme password | create, own, delete, purge | wallet, storage | as above, plus atomic creation |
| Plans, coins, codes (`orgs/plan.ts`, `pricing/`, `platform/routes.ts`) | `PlatformRequest`, `Profile.coins`, `CoinTransaction`, plan stamps | request, decide, redeem, gift, correct | organizations, revival | a code is used once; a balance equals its ledger and is not negative |
| Staff console (`platform/`) | admin accounts, in-memory sessions | sign in, beat, the levers above | bans end user sessions | idle ending; an ended console session is not adopted again |
| Exams (`exams/`) | `ExamAttempt` | submit | completion records | attempts within their allowance; best score |
| Storage objects (`storage/jobs.ts`, `adapter.ts`, `gdrive-store.ts`) | `StorageObject`, `StorageDeletion`, `StoredFile`, remote files | upload, attach, publish, delete, drain, collect orphans, migrate, reconcile | courses hold references; the nightly job | a live document never loses its content; what is deleted is deleted remotely in the end |
| Storage connections (`storage/org-storage.ts`) | `OrgStorage` status, epoch, keys | connect, probe, degrade, recover | gateway, jobs, mailbox | owners hear of each change once; old credentials never degrade a new connection |
| Gateway (`storage/gateway.ts`, `tickets.ts`) | `StorageUploadSession`, `StreamUsage`, tickets | put, resume, stream, count | connections | confirmed bytes never move back; the budget holds; revoked tickets stop |
| Vault files (`vault-files/`) | sealed files, retained organizations | export, delete, undelete, revive, restore a branch | organizations, wallet, purge | a deleted organization is retained or revived, never both or neither |
| Mailbox (`notifications/`) | `Notification` | deliver, read, expire | everything notifies | retention; one nudge |
| Studio (`studio/`) | `StudioDraft` | save, list, delete | documents | limit of drafts |
| Profiles, shell, schema, shared types | rows, settings, schemas | single reads and writes | | |
| Clients, recovery tool, guides | none of the server's | | the API | |

Where it is hard: the caches of several instances against one database; values read before an
await and written after it (sessions, balances, counts, the nightly job's lists); handlers cut
short between two committed calls; the nightly job against everything; deadlines over several
placements, editions and lapsed completions. `PROJECT.json` lists these as hazards at
their lines, with the properties that answer them, or why none does yet; the lesser ones are at
the end of section 2.

## 2. Plan

Done, in the order of what the system most depends on:

1. **Sessions**, **Compliance**, **Documents**.
2. **Plans** (with deletion, retention and revival), **Objects** against the abstract **Shelf**,
   **Connections**, **Governance** (with the requests that change the tree), **Gateway** (with the
   browser's side of an upload).

All are modelled and checked, and every invariant and action property a run checks is proved, the
refinement of Shelf included (section 14).

To come:

3. Proofs under wider traffic: Documents and Compliance with overlapping requests, for what
   remains true of them there; Objects with requests that die (`"fail"`).
4. **Exams** (attempts within their allowance, the best score, what a pass records),
   **Mailbox** (retention, one nudge), console sessions.
5. **SignIn**, an abstract specification of sessions (a session is live, then ended; nobody is
   served later than a bound) which Sessions implements with caches and tokens hidden, and console
   sessions too. Compositions: Documents with Compliance (a replacement inherits obligations),
   Governance with Compliance (departures), Plans with Objects (a purge and its files).

### Hazards beside the listed ones

`PROJECT.json` carries the gravest. The others seen so far, by line. In modelled parts, where the
runs keep them apart or no property speaks of them:

- `auth/tokens.ts:213`: an idle session is ended although a beat was stored since its row was read
- `compliance/routes.ts:636`: the nightly job ends by id and overwrites a sign-out recorded since its list
- `auth/routes.ts:85`: a ban between the check of a sign-in and its session misses that session
- `courses/helpers.ts:110`: the validity of a completion an edition expired counts as a second reopening
- `courses/helpers.ts:294`: two completions at once leave two rows
- `courses/routes.ts:761`: a placement made mandatory keeps the day it was made
- `courses/routes.ts:1525`: the course's own page takes the terms of the first placement it meets
- `courses/routes.ts:160`: a branch given to a document while its placements are carried is lost
- `courses/routes.ts:414`: a draft is created before its review: a restart in between leaves it alone
- `courses/routes.ts:729`: the placement endpoint does not look at `draft`
- `requests/routes.ts:716`: an approval that died after publishing is not taken up again
- `requests/routes.ts:748`: a rejection deletes a document another reviewer has published
- `storage/gdrive-store.ts:938`: the comparison with Drive queues a file the migration just uploaded
- `platform/routes.ts:703`: the console's correction of a balance reads, then writes
- `storage/jobs.ts:109`: the collection looks at the first 200 objects in no stated order
- `storage/gdrive-store.ts:480`: two instances make two month folders and forget one

In parts not modelled:

- `exams/routes.ts:225`: attempts are counted before the attempt is created: two submissions of the last attempt both pass
- `studio/routes.ts:154`: drafts are counted before the draft is created: two tabs overshoot the limit
- `notifications/mailbox.ts:166`: the full-mailbox nudge is sent when the page read holds none: two mailboxes opened together send a second
- `orgs/plan.ts:73`: the member limit is counted before the membership is created
- `courses/routes.ts:281`: the document and byte quotas are read before the upload is stored
- `courses/routes.ts:946`: three documents that require each other in turn block every reader
- `compliance/routes.ts:689`: two nightly sweeps send an overdue notice twice
- `compliance/routes.ts:731`: the plan-expiry warning is sent every day of the threshold, where the comment above says once

## 3. Sessions

`Sessions.tla` is `auth/tokens.ts` with its callers. One action is the code between two awaits.

| Model | Code |
|---|---|
| `session`, `token` | rows of `Session` and `RefreshToken`; a deleted row is "gone", a free id "absent" |
| `cache[i]` | `sessionCache` of an instance, with what `remember` stores: deadlines and the time of reading |
| `handler[h]` | the locals of one request in flight; `pc` names the await it stands at, `at` the clock it captured |
| `sweep` | locals of parts 0b and 0c of the nightly job |
| `streams` | open event streams |
| `accessUntil` | the newest access token's expiry: older ones verify for less time |
| `lastSeen` | history: when the person last signed in or acted |
| `Arrive`, `Read`, `Judge*` | `authenticate`, then `checkSession` up to, at and after its query |
| `TouchCommit`, `TouchReturn` | `touchSession`: an update by id, ended or not, then `remember` |
| `EndCommit`, `EndReturn`, `FindAll` | `endSession` (transaction, then forgetting on this instance) and `endAllSessions` |
| `Refresh`, `Rotate`, `Issue` | `rotateRefreshToken` with its grace window, then `issueTokens` |
| `Login`, `StartSession` | `POST /auth/login` |
| `Ban`, `Unban` | `POST /admin/users/ban` and its reverse |
| `Sweep*` | the nightly job, each database call a step |
| `Restart` | an instance restarts: cache, streams and requests in flight are lost |

Abstractions. One profile. The token lookup of a refresh and of a sign-out is merged with the
request's arrival. The nightly job's pruning of tokens, its clock and its list of sessions are
one step. Expiries beyond the clock's bound are all the same (`Until`). `CacheCap = 0` in the
runs makes `remember` clear the cache as often as it can; the proofs hold for every capacity.
`Latency` is the longest await of a handler, assumed no longer than the cache window
(`OrderAssumption`): the promise "within seconds" needs some such bound, and `StopsBy` says how
the two combine. `StopsBy` is tight: with one unit less the revocation run finds a violation.

## 4. Compliance

`Compliance.tla` follows one course through the tree.

| Model | Code |
|---|---|
| `cp`, `occupies`, `record` | rows of `CoursePlacement`, `Placement` and `CompletionRecord` |
| `resets` | `publishedAt` of the editions that reset completions |
| `completing`, `publishing`, `sweep` | locals of the handlers that read and later write |
| `Sightings`, `Winners`, `ReachedAt` | `coursesReaching` and its merge: which placement's terms count, since when |
| `IsCompliant`, `HasLapsed`, `EffectiveStatus`, `Reopenings`, `WindowClosed` | the functions of the same names, `deadlineStartsAt` and `isPastDeadline` in `helpers.ts` |
| `LearnerOverdue`, `ReportOverdue`, `CoursePageOverdue` | the three views of lateness: the learner's page, a branch's report, the course's page |
| `LibraryStatus` | what `GET /orgs/:id/library` says of the course: the stored status |
| `Place`, `Unplace`, `Withdraw`, `EditSchedule`, `PlacePerson`, `RemovePerson` | the routes, one write each |
| `Publish` to `ExpireOutdated` | `PATCH /courses/:code` with new content |
| `OpenCompletion`, `RecordCompletion` | `recordCompletion` on behalf of the reader or of an exam |
| `SweepFind`, `SweepExpire` | part 1 of the nightly job |
| `owedSince` | history: since when each person has owed the course |

Abstractions. Null is 0 and the clock starts at 1. "The latest instant plus the days is past" is
written as "each instant plus the days is past", the earliest as "some". Queries without an
order may answer in any, so `Winners` is a set and the properties hold for each winner. A person
has one completion row; ownership and membership of one node are one placement. Refusals change
nothing and are left out, and so is a restored branch backup, which rewrites completions and dates
placements anew (`vault-files/routes.ts:697`, `:720`). A publication and a completion never carry the same instant (the code
compares milliseconds). `owedSince` does not stop while a course is withdrawn: the code counts
days out of deployment too. Two kinds of traffic are offered only on request: `"overlap"`
(requests interleave inside a handler) and `"widen"` (a placement is reconfigured to oblige
people it did not oblige).

## 5. Documents

`Documents.tla` follows documents from proposal to replacement, one database call per action.

| Model | Code |
|---|---|
| `course` | `Course`: whether it exists, `draft`, `supersedesCourseId`, `supersededByCourseId` |
| `placements` | where each document is placed |
| `review` | the `VaultRequest` of kind CONTENT_REVIEW; it keeps the course code when the course goes |
| `told` | the verdicts in the author's mailbox |
| `handler[h]` | locals of a request in flight and the call it makes next |
| `cutShort` | history: documents with an approval that published and died before it ended |
| `CreateDraft`, `FileReview`, `CreateLive` | `POST /orgs/:id/courses` by a member and by a manager |
| `FindInherited`, `Carry`, `RetireOld`, `Link` | `retireSuperseded` |
| `Approve` to `Clear` | `POST /requests/:requestId/decide`, approval and rejection |
| `SendBack`, `Resubmit`, `WithdrawReview` | the rest of a review |
| `PlaceCourse`, `Unplace`, `DeleteCourse` | what managers do beside it |
| `Fail` | a restart or a failing call at any point, or a row that is gone |

Abstractions. The reads a handler makes before its first write are one step with it. Who may act
is left out: an action is offered to whoever may take it, so no property depends on authority.
Placements carry no terms; library, archive and withdrawal flags are left out (an archived
document takes a branch after being unarchived: one action). Adoption requests are left out.
`"overlap"` lets requests interleave; `"fail"` lets them die.

## 6. Plans

`Plans.tla` follows one person's wallet, codes and organizations through founding, deletion,
restoring and revival.

| Model | Code |
|---|---|
| `coins`, `ledger` | `Profile.coins` and the sum of the `CoinTransaction` rows |
| `code` | `PlatformRequest`: its status, what it is for, the terms it was approved for |
| `org` | `Organization` by number: live, deleted, or no row; plan status and expiry |
| `file` | `.main` files that were downloaded, by the plan claim they carry |
| `handler`, `nightly` | locals of the requests and of the nightly job; `pc` names the next call |
| `bought` | history: the terms staff granted, or a code and its charge bought |
| `FileRequest` to `DeleteRequest` | `pricing/routes.ts`: file, withdraw and delete a request |
| `Decide` to `CloseUpgrade`, `GrantPlan` | `POST /admin/requests/:id/decide`, `POST /admin/plans/upgrade` |
| `Redeem`, `LapseCode`, `CheckCoins` | `redeemAccessCode` in `orgs/plan.ts` |
| `Found`, `FoundCommit` | `POST /orgs` and its transaction |
| `Undelete`, `Charge`, `Record`, `UseCode`, `Restore` | `POST /orgs/:id/undelete`: four writes, one after another |
| `ExportMain`, `DeleteOrg` | `POST /orgs/:id/export-main`, `DELETE /orgs/:id` |
| `Revive`, `PurgeRetained`, `ReviveCommit` | `POST /orgs/revive` |
| `Gift`, `Adjust`, `PurgeNow` | staff: gifts, corrections, immediate purge |
| `ListLapsed` to `PurgeDoomed` | parts 2b and 3 of the nightly job |

Abstractions. One person; a plan is the demo or one paid plan at one price. A signature that
does not verify, a wrong password and a file that does not open are one refusal. A number keeps
the terms of its last row, so `bought` is per number; `row` counts the rows a number has had,
since an update by id misses a row that was revived since. What the organization contains
(branches, documents, files) is left out.

## 7. Objects, and the Shelf it implements

`Shelf.tla` is the promise to readers: a document shows one content, until an edition or its
deletion takes it off, and what was taken off never comes back. `Objects.tla` is the code that
keeps the bytes: it implements `Shelf` with `shown` mapped to `Shown(d)`, what
`GET /courses/:code/content` would answer, and `taken` to the history of what it answered.

| Model | Code |
|---|---|
| `blob` | the organization's storage, S3 or Drive: what each key holds |
| `row`, `queue`, `file`, `doc` | `StorageObject` with its upload session, `StorageDeletion`, `StoredFile`, `Course.storageRef` |
| `UploadUrl`, `BeginGdriveUpload`, `PutPresigned`, `PutThroughGateway`, `BeginCommit`, `Commit*` | the upload routes of `storage/routes.ts` |
| `CreateCourse`, `Make`, `Claim` | `POST /orgs/:id/courses`: create, then claim the object |
| `PublishEdition`, `WriteEdition`, `ReleasePrevious` | `PATCH /courses/:code`: write, release, claim |
| `DeleteCourse`, `DeleteCommit`, `Release` | the deletion, with `deletionOpsFor` |
| `StartDrain` to `NoteFailure` | `drainDeletionQueue` |
| `ListOrphans`, `CollectOrphan` | `collectOrphans` |
| `ListDrive`, `ReconcileFile` | `reconcileGdrive` |
| `StartMove` to `PointDocument` | `migrateInlineFiles` |
| `Fail`, `DrainDies`, `NightDies`, `MoveDies` | restarts, failing calls, rows that are gone |

Abstractions. One organization. A key is minted once; a presigned URL is used within its day.
The queue numbers a key's entries, since several can exist. Between the migration's transaction
and the update of the document readers get 404 for a moment: `Shown` passes over that step, and
says so; it does not pass over a migration that dies there (see findings). Kinds of traffic:
`"stop"`, drains and jobs die half way; `"unreachable"`, the storage refuses calls; `"fail"`,
requests and the migration die after their uploads; `"reuse"`, an upload is attached twice;
`"late"`, an upload is attached after the collector's grace; `"early"`, one is attached before its
commit went well, which the routes do not ask about; `"overlap"`, two editions of a document, its
migration and the comparison with Drive run into each other. The last five are off in the runs:
each breaks a property (findings).

## 8. Connections

| Model | Code |
|---|---|
| `grant`, `folder` | what Google holds: grants (good, revoked by us, withdrawn by their holder), folders |
| `pending` | `StoragePendingConnection`: a sign-in that waits for an hour |
| `store` | `OrgStorage`: adapter, status, grant, folder, data key |
| `req`, `check` | locals of requests and sweeps, and of health checks and gateway requests |
| `Callback` | `POST /storage/google/authorize` and its callback |
| `TestPending`, `RunTest`, `Remember`, `TestDrive` | `POST /storage/test`, `testPending`, `testDrive` |
| `ConnectGdrive` to `RevokeReplaced` | `connectGdrive`, call by call |
| `ConnectStorage`, `TestConnection`, `SaveStorage`, `ReplaceCredentials`, `SaveCredentials` | a NAS |
| `AbandonSignIn`, `SweepPending`, `DropFolder`, `RevokeSignIn`, `DropPending` | `DELETE /storage/google/connections/:id`, `sweepPendingConnections` |
| `RunHealthChecks`, `GatewayRequest`, `RecordHealth`, `NoteFailure` | `storage/jobs.ts`, `recordHealth`, `noteFailure` |
| `Withdraw`, `Settle` | the account's holder; the remotes stop failing |

Abstractions. A key is a number, so that a second one is told from the first. A probe answers
`ok`, `transient` or `definitive`; messages to owners and the quarter hour's grace of
`recordHealth` are left out. A change of provider is refused by the code (`gdrive-store.ts:377`,
`org-storage.ts:213`), and so by the model: `KeyKept` is about reconnections and credentials. That a
reconnection must come from the same Google account (`gdrive-store.ts:387`) is left out: the
model's sign-ins are all of one account. `"twice"` lets two requests work on one sign-in or organization.
Restarts are left out.

## 9. Governance

`Governance.tla` has no module of its own for the policy: `can` is `policy.ts`, over `Governs`
(an owner of the branch or above it), `Over` (above it) and `Holds` (a flag above it).

| Model | Code |
|---|---|
| `live`, `above`, `public` | `RoleNode`: row, path, own visibility flag |
| `owns`, `rights`, `sits`, `belongs`, `profiles` | `Placement` as OWNER with its flags, as MEMBER; `Membership`; `Profile` |
| `placed`, `requests` | placements of the library's course; `VaultRequest` |
| `backups` | the `.bkp` files that were downloaded: what they hold of a branch |
| `job[h]` | what a handler has read and has still to do |
| `CreateSubRole`, `AddPerson`, `RemovePerson`, `SetVisibility`, `SetFlag`, `DeleteRole` with their commits | `roles/routes.ts` |
| `RemoveOwner`, `AddOwner` | the Supreme-gated owner routes of `orgs/routes.ts` |
| `DeleteProfile` | `DELETE /admin/users/:profileId`, `DELETE /me` |
| `ExportBackup`, `RestoreBackup`, `RestoreCommit` | `POST /roles/:roleId/export-bkp` and `restore-bkp` (`vault-files/routes.ts:560-760`) |
| `FileRequest`, `FileCommit`, `DecideRequest`, `Approve*`, `JoinCommit`, `RazeCommit`, `CloseRequest`, `ClearRequest` | `requests/routes.ts` for the four kinds |

Abstractions. One organization. The library holds one course; its settings are whether the
placement is inherited. Validation, audit entries and messages are left out, and so are
invitations, members' right to create content, the member limit, lists and threads. A backup's file, password
and signature are always good; it is restored where the branch's children are what they were, which
is the code's fingerprint less the branch's own path, which never changes. What it holds of
completions belongs to the compliance side and is left out. Somebody whose profile was deleted and
whose username was registered anew is not told apart: the code would seat the newcomer. The
transaction is one step, after which a removal under way finds its row gone and fails. `"overlap"`
lets two removals from one branch and two decisions on one request interleave, and an owner's
profile be deleted under a removal (`KeepsRemovals`).

## 10. Gateway

`Gateway.tla` has both ends of an upload: the browser's loop (`src/apps/web/src/lib/storage-crypto.ts`)
and the gateway's handlers, with Google between.

| Model | Code |
|---|---|
| `held` | what Google keeps of each upload, without a gap |
| `row`, `usage` | `StorageUploadSession`, `StreamUsage` of this month (`"*"`: all organizations) |
| `tab` | the locals of `uploadViaGateway` and `sendChunk` |
| `job` | the locals of the gateway's handlers |
| `Again`, `Flushed`, `AfterChunk`, `AfterAsk` | the browser's decision on each answer |
| `Begin`, `Commit`, `Pin` | `beginGdriveUpload`; `POST commit` and its checks |
| `AnswerFromRow`, `Refuse*`, `Admit` | the guards of `PUT /stream/u/:sessionId` |
| `PutChunk`, `Confirm`, `QuerySession`, `SaveStatus` | the pipe to Google and what is stored afterwards |
| `RecordTotal`, `RecordOrg`, `WarnOwners` | `recordBytes`: two counters, then the warning |
| `Read`, `Flow` | streams to readers, up to a whole document each, which share the allowance |
| `Drop`, `Restart` | a connection drops while its handler goes on; the server restarts |

Abstractions. A byte stands for 256 KiB, the unit in which Google keeps what it got. Tickets are
good, an upload's seven days do not pass, the month does not change. A chunk may end at any byte.
A read takes any number of bytes up to `Document`, the largest object: a range asks for less, no
range for all of it, and the gateway sets no bound of its own. `flowed` is the sum of what crossed
the gateway, less what it lost count of: at a restart, and when a chunk fails before its counter
closes, whose bytes the catch block counts as none (`PutChunk`). A `recordBytes` that throws is
left out. Presigned uploads to S3 and encryption are left out.

## 11. Runs and bounds

| Run | Shows | Distinct states |
|---|---|---|
| `revocation` | `EndedStopsWorking`: two instances that restart, beats and sign-outs interleaving | 805146 |
| `refresh` | `IdleWindowHonoured`, `RecordedReasonStands`: refreshes of live and spent tokens, beats, requests, sign-outs | 298546 |
| `upkeep` | `StaleIsClosed`, `EndedStreamHungUp`: liveness of the nightly job and of heartbeats | 18787 |
| `signout` | `BanReachesEverySession`: liveness of `endAllSessions` beside sign-ins and sign-outs | 7581 |
| `window` | `WholeWindowGranted`, `SweepChangesNoVerdict` (over the three views of lateness), `LateStaysLate` over a two-level tree | 1368036 |
| `lifecycle` | `ForwardsOnlyToPublished`, `VerdictStands`, `AudienceKept` with handlers that die between any two calls | 171158 |
| `trading` | `TermsWereBought`, `LedgerExplainsBalance`, `ComesBackRunning`: two requests of every kind at once, staff, the nightly job | 587216 |
| `shelf` | `KeepsItsPromise` (the refinement of Shelf), `Accounted`: publishers beside a drain, the collector, the comparison and the migration | 484799 |
| `reclaim` | `Reclaimed`: liveness of two overlapping drains and the collector with a storage that refuses | 222768 |
| `saved` | `FolderKept`, `KeyKept`, `StatusComesTrue`: two requests on two sign-ins, sweeps, health checks | 1018512 |
| `tree` | `AuthorityFromAbove`, `OpensOnlyGoverned`, `OwnedStaysOwned`: structure, requests and a restored backup change at once | 524308 |
| `resume` | `NeverAhead`, `WarnedOnce`, `AllowanceHolds`, `UploadEnds`: dropped connections, failures, restarts, readers | 603343 |

`TypeOK` is checked once per module. Every property has a mutant: a definition of the model
changed the way a plausible bug would change the code, kept in the module beside the original
and marked "Mutant", under which the same run fails.

Bounds, and why they are enough:

- *Sessions.* `Offered` is the kinds of traffic of a run: all of it at once is out of reach for
  TLC, and the proofs cover it. Two instances and two requests give the critical pattern (a read
  on one side, an ending in between, a beat on the other); `MaxTime` exceeds
  two cache windows plus an await, so a session ended early is followed past its last moment. The
  lengths keep the order of the real constants (await ≤ cache ≤ write interval ≤ idle window) and
  are otherwise as small as that allows. `RoomToIssue` starts a request that would issue a token
  only while ids are left. `signout` has a still clock: `endAllSessions` asks it nothing.
  `RecordedReasonStands` is checked without the nightly job, whose update overwrites a reason
  recorded since its list (a hazard).
- *Compliance.* A root and a child are the smallest tree with inheritance; one person is enough
  because no rule relates two people (records, placements and windows are per person). Settings
  mix an obligation with a window of its own and an opt-in with the course's. Two editions give
  one reset; four instants let a one-day window close, a one-day cycle lapse and the sweep run.
- *Documents.* Two documents give replacement and a failed retry of it. Branches and documents
  are interchangeable, and symmetry is used only with safety properties; a used document is not
  reused.
- *Plans.* One founded organization and a number for a second, one code and two requests: the
  smallest instance in which a code is redeemed twice and a number has two rows. A plan lasts a
  day, costs the one coin there is; retention and the code's life end at midnight; two days let a
  term, a code and a retention end. The nightly job and staff's changes of coins start only with
  nothing in flight and let nothing start: with `"overlap"` they do, and the findings tell what
  happens.
- *Objects.* Two keys and a file of our own give a document a content of each kind and a successor;
  `shelf` has two publishers, one drain, Drive (which adds the comparison); `reclaim` has S3, one
  publisher, two drains and the second attempt as the last. A key has one queue entry: for
  several the entries differ only in their number.
- *Connections.* One organization, two sign-ins and two folders give a reconnection; two requests
  give a sweep beside a connection, one checker beside both gives stale rows. Two keys, so that a
  second could be made. `"partial"`: a test may make its folder and then fail.
- *Governance.* Three branches in a line, the lowest still to be created; a founder who owns the
  root, a chair who comes and goes beside the founder by the Supreme routes, a head of the middle
  who may create sub-branches but not appoint owners, and a member whose profile may be deleted.
  One handler changes the structure; the other files, decides and restores. One request is open at a
  time, so the rejection of others' requests by an approved deletion is left to the proofs, and so
  are backups of the upper branches: the run makes one of the lowest branch, which is where one
  without owners exists. No backup is older than the start (`Kept`); the findings give one.
- *Gateway.* An upload of a chunk and a half, two tries, two handlers: a late handler beside its
  retry. The organization's limit equals the upload and the largest document, with a line at two
  thirds; the platform's is two thirds, so that a reader let through near either overshoots it by
  a whole document, which is more than a chunk; an upload gets past it when a chunk went uncounted.
  Restarts are not bounded.

`CHECK_DEADLOCK FALSE` where clock, ids or traffic are finite and the system may come to rest:
Sessions, Documents, `shelf`, `reclaim`, `saved`, `tree`, `resume`. `window` and `trading` keep
deadlock checking.

## 12. Fairness

Only the liveness runs use it (`FairSpec`), and nothing is assumed of people: no sign-in,
upload, request or edition is fair.

- *Sessions* (`upkeep`, `signout`). A request whose database call was answered goes on (`WF` of a
  handler's step: Node's event loop). Time passes. The heartbeat of an open stream keeps firing;
  it is strong because a slot may be taken by other requests in between. The scheduler calls the
  nightly job again and again and each of its calls is answered; strong because an instance may
  restart during the job, which the runs exclude but the formula does not.
- *Objects* (`reclaim`). Requests, drains, the collector, a comparison and a migration that began
  go on; the scheduler drains and collects again and again; days pass.
- *Connections* (`saved`). A check that began ends; every organization is checked again and again
  (strong: the one slot for checks is also taken by readers). `StatusComesTrue` speaks of remotes
  that answer the same for good.
- *Gateway* (`resume`). The browser's loop goes on (strong, since a handler's slot may be taken)
  and so does a handler. Nobody must drop, restart, read or begin.

## 13. Findings

Where the code does what a comment, a test or a document says it does not, or what its reader
would hardly expect. The first group states the property in its module; the configuration named,
with the property added and the traffic named offered, makes TLC show the behaviour.

- `IdleEndingConfirmed` (`revocation`): a session is ended as idle from a row read before a beat
  was stored by another instance; `endSession` looks only at `endedAt` (`auth/tokens.ts:213`;
  against the comment at `:148-150`).
- `WholeWindowGranted` (`window`, `Widening`): an opt-in placement made mandatory measures everybody
  from the day it was first placed (`courses/routes.ts:761`; against `courses/helpers.ts:186-187`).
- `OnlyRunOutIsExpired` (`window` with the root alone, `Overlapping`): the nightly job expires a
  completion renewed after it made its list (`compliance/routes.ts:662`; against `:657`).
- `ReportAgreesWithLearner` (`window`): the branch report applies one mandatory placement's terms to
  people it does not reach, and calls them late (`compliance/routes.ts:233`; against
  `courses/helpers.ts:40-42`).
- `LibraryDoesNotWait` (`window`): the library shows and counts the stored status of a completion, so a
  lapsed one is COMPLETED there until the nightly job rewrites it (`courses/routes.ts:1366`, `:1330`;
  against the comment at `courses/helpers.ts:58-63`).
- `RejectedNotLive` (`lifecycle`): an approval publishes a draft and dies; the review is still open, and
  a rejection then finds a document that is no draft, deletes nothing and tells its author that it
  was not published (`requests/routes.ts:746-777`; against the comment at `:746`). `VerdictStands`
  leaves out exactly this sequence.
- `ReplacedOnce` (`lifecycle`, three documents, `Serial`): an approved draft replaces a document that
  has been replaced meanwhile (`requests/routes.ts:723`; against `courses/routes.ts:345`).
- `DraftUnderReview` (`lifecycle`): withdrawing a review that was sent back leaves its draft without
  one (`requests/routes.ts:856`; against `:855`).
- `RetainedOrReplaced` (`trading`): `POST /orgs/revive` purges the retained organization before it opens
  the file and checks the code and the coins; a request refused for any of these has destroyed
  it (`vault-files/routes.ts:308`; against `:306` and the retention of `:199`).
- `LedgerExplainsBalance` (`trading`, `"overlap"`): a gift or a correction of coins writes a balance
  computed from an earlier read (`platform/routes.ts:439`, `:703`).
- `NothingLost` (`shelf`, `Failures`): a migration that dies after its transaction leaves the document
  pointing at a file that is gone (`storage/jobs.ts:266`; against the comment above it).
- `KeepsItsPromise` (`shelf`, `"reuse"`): an upload attached to two documents goes with either.
  With `"early"`: a document is made of an upload that was never finished, and shows nothing
  (`courses/routes.ts:301-307`, `:903-909`; against the comment above the first).
  With `"overlap"`: a migration overlapping an edition points the document back at the old
  content, and the comparison with Drive queues an object whose row is not there yet.
- `KeyKept`, `FolderKept` (`saved`, `"twice"`): two connections of one organization at once make two
  data keys (`storage/org-storage.ts:236`), or one clears up the other's folder.
- `OwnedStaysOwned` (`tree`, `"overlap"`, both handlers given `"remove"` and the founder among
  `Newcomers`): two owners of a branch are removed at once, and it has none
  (`roles/routes.ts:316`, `orgs/routes.ts:516`; against `docs/structure.md:72`, I2). The same when
  a removal has counted the owners and the other one's profile is deleted before it writes.
- `RestoredStaysOwned` (`tree`): a backup of a branch taken while it had no owner, or whose owners have
  no profile any more, is put back after an owner was appointed, and the branch has none
  (`vault-files/routes.ts:697-704`; against `docs/structure.md:72`, I2).
- `DemotionStands` (`tree`, `Kept` a backup of the middle branch in which its head may appoint
  co-owners): the head, who lost this right since, puts the backup back and has it again
  (`vault-files/routes.ts:711-718`). The same with owners the branch above removed.

Seen in the code while modelling; the models contain the behaviour unless it is marked †:

- *Plans.* Two requests redeem one code, and the balance goes below zero. † `redeemAccessCode`
  never compares `targetOrgNumber`, which `schema.prisma:689` declares. An organization undeleted
  after the nightly job's list is purged, one upgraded is marked EXPIRED (`"overlap"`). An upgrade
  charges no coins.
- *Objects.* † `PATCH` with `fileBase64` on a document that was not withdrawn leaves the old
  `StoredFile`. A drain whose entry another drain deleted aborts its batch. After the last attempt
  an object stays for good. A restart between a document's creation and the claim leaves the
  collector to remove a live document's object (`"fail"`). An edition that names the object the
  document already holds deletes it (`"reuse"`). On S3 a migration that dies after its upload
  leaves the object for good (`"fail"`).
- *Connections.* † A restart between saving a connection and dropping its pending row lets the
  sweep remove the folder and the grant just saved. † A failure a reader met marks the connection
  DEGRADED, so the nightly check sees no change and the owners hear nothing; a reconnection sends
  no message of recovery. A status written from a stale row survives a reconnection until the
  next check. A folder made by a connection whose test then failed is not remembered. The sweep
  drops its row even if Google did not take the revocation.
- *Governance.* Deleting a profile is refused only to owners of a root: a branch whose one owner is
  deleted is left without (`platform/routes.ts:756`; I2 again, which the comment there invokes).
  Only so, or by a restored backup without owners, can an approved branch deletion succeed: whoever
  files it owns the branch, the approval asks for a branch without people, and a last owner cannot
  be removed (`requests/routes.ts:687-694`). † A restored backup leaves the people it unseats a
  membership without a placement. A new sub-branch has no owner. † `POST /orgs/:id/owners` asks no member limit. A
  removal by the Supreme route leaves the membership without a placement (`orgs/routes.ts:522`).
  A sub-branch created while its parent is deleted hangs in the air; so does a request filed
  then. An approved deletion rejects the others' requests without a `decidedAt`, so nothing clears
  them; a review sent back stays. A request withdrawn while it is approved is carried out all
  the same. Approving a course overwrites the settings of a placement already there.
- *Gateway.* When the answer to the last chunk is lost, the failed path stores the offset without
  `completedAt`, and the commit is refused with every byte at Google (`storage/gateway.ts:444-446`,
  `gdrive-store.ts:709`). An offset stored late makes the browser give up a healthy upload. A restart
  forgets bytes not yet counted, and may swallow a warning. The bytes of a chunk that fails before
  its counter closes are counted as none (`storage/gateway.ts:427-432`, `:442`), so repeated failures
  stream beyond the allowance unseen. The allowance is overshot by the transfers under way, and a
  reader without a range is let through for a whole document (`:301-320`). A status stored for an
  upload whose row is gone throws: 502 for a question, 500 after a failed chunk (`:394`, `:446`).

## 14. Proofs

Everything below is proved by TLAPS for every value of the constants that satisfies the named
assumptions of the module; nothing is assumed without proof.

**Sessions** (`SessionsProofs.tla`; `TimesAssumption`, `OrderAssumption`, `NoneAssumption`).
`TypeCorrect`, `Revocation` (`[]EndedStopsWorking`) and `Inactivity` (`[]IdleWindowHonoured`),
with all traffic allowed: sign-ins, bans, the nightly job, restarts. `EndedStopsWorking` is not
inductive: whether a cache answers after an ending depends on when its entry was read. `IInv`
adds, for each cache entry, each row in a handler's hands and each beat about to be written, how
long after the ending it can have been obtained. An answer may have been read up to one
`Latency` after the ending; a beat let through by an entry may follow one cache window later;
what the beat leaves behind lets no further beat through, because it records its own time as the
activity and `CacheWindow <= WriteEvery`. That is why the bound has two windows and not more, and
without this assumption an ended session could keep itself in the cache for ever. A second part
of `IInv` ties every deadline in a row, a cache or a handler to `lastSeen`. `ReasonStands`
(`RecordedReasonStands`) leaves out the nightly job, which overwrites by id alone; that a late beat
writes to an ended row but leaves its ending is part of it.

**Compliance** (`ComplianceProofs.tla`; `TreeAssumption`, `BoundsAssumption`,
`SettingsAssumption`). `TypeCorrect` for all traffic. `WholeWindow` (`[]WholeWindowGranted`),
`SweepSilent` (`SweepChangesNoVerdict`) and `NoAmnesty` (`LateStaysLate`) under `Narrow`: no overlapping
requests and no reconfiguration that obliges anew; section 13 tells what happens otherwise. The
inductive invariant adds that at most one handler is between its steps (`Alone`), that instants
are in the past (`Dated`), that what an open handler knows is still true (`Informed`), and the
heart of it (`DunnedSince`): whoever owes the course was either reached by
every mandatory sighting, or had a cycle reopened, no earlier than `owedSince`. A step then
preserves it if it brings nobody old news (`NoOldNews`) and reopens a cycle wherever it ends a
completion (`Reopens`). `NoAmnesty` adds `Aging`: a completion is spent only after the day it was made
and runs out after it. `SweepSilent` speaks of the learner's page, the branch report and the course's page;
of the library listing it would be false (`LibraryDoesNotWait`, section 13).

**Documents** (`DocumentsProofs.tla`; `NoneAssumption`). `TypeCorrect` for any interleaving.
`Forwarding`, `Verdict` and `Audience` under `Alone` (requests do not overlap, but may die at any
call, any number of times). `Safe` adds `Ready`, what each pending call may rely on (a document
to be published or discarded is a draft; one being placed, carried or told about is live; what
is still to be carried and what has been carried together cover the old audience), and
`UnusedIsUntouched`. `VerdictStands` counts a rejection as true of any document that no approval has
published and left (`cutShort`). With overlap `VerdictStands` and `AudienceKept` do not hold: two reviewers may
decide at once, and a branch may be added while placements are carried; both are hazards.

**Plans** (`PlansProofs.tla`; `PlansAssumption`). `TypeCorrect` and `TermsAreBought`
(`[]TermsWereBought`) for all traffic, gifts and nightly steps beside requests included;
`LedgerBalances` (`[]LedgerExplainsBalance`) and `ComesBackOnRunningTerms` (`ComesBackRunning`) without
`"overlap"`. `Terms` adds that what a request will stamp on a row is bought from the moment its
price is paid or its file was read (`Settled`). `Balance` says that the ledger is short by exactly
the charges whose row is still to be written, and that a staff change of coins, alone with the
wallet, has read the balance as it is. The sum is over any finite set of requests: the library's
induction takes an operator, so `SetInduction` argues about a set of sets instead. `ReadStands`
says what a term read earlier is worth when it is used: the row found by number and turn is the
one that was read, and it has not lapsed since.

**Objects** (`ObjectsProofs.tla`; `ObjectsAssumption`: the model's markers for an object that is
gone and for a lost document are no contents). `TypeCorrect` for all traffic. `NothingForgotten`
(`[]Accounted`) without `"overlap"` and `"fail"`: the queue holds only keys whose row is gone, an
entry goes only after its object, and the one object without a row is the migration's, which it
is about to record (`Kept`). `NothingIsLost` (`[]NothingLost`) and `PromiseKept`
(`KeepsItsPromise`, the refinement of Shelf) hold under `Orderly`: drains and jobs may die and
the storage refuse; the five kinds of traffic it excludes each break them (sections 7, 13). That
a reader never gets a content twice rests on who can name it: a reference, the hands of a
request, the migration, the collector's list. `Lasting` says that no two documents name the same
content (`OneDoc`), that what is about to be shown was never shown and is in nobody else's hands
(`Coming`), that what is about to be released is off the shelf (`Going`), that an upload in hand
is beyond the collector's grace (`Claiming`), and that whatever the collector has listed may
still be collected when its turn comes (`Sweep`). Each step then maps to one document's change,
or to none.

**Connections** (`ConnectionsProofs.tla`; `ConnectionsAssumption`). `TypeCorrect` for all
traffic; `FoldersStay` (`[]FolderKept`) and `KeyForGood` (`KeyKept`) without `"twice"`. `Secure`
follows the folder and the grant through every hand: what a sign-in made belongs to no
organization until it is saved, and then to one (`Apart`, `Filed`); a grant being replaced is of
a sign-in long over, and no row has it once its revocation is due (`Replacing`); what is saved
has passed its test and still would (`Tested`); the key a connection read is still the row's
(`KeyNow`).

**Governance** (`GovernanceProofs.tla`; `StandingAssumption`: the standing branches form a tree
of finite depth, seats and flags are on them). `TypeCorrect`, `AuthorityFlowsDown`
(`[]AuthorityFromAbove`) and `GovernedBeforeOpened` (`OpensOnlyGoverned`) for all traffic;
`OwnersStay` (`OwnedStaysOwned`) without `"overlap"`. `Paths`: a path is fixed at creation, and
of two levels of one path one is above the other; so a chain of hidden levels has one topmost,
and whoever governs it governs them all. `Authority`: what a handler was let to do, and has still
to write, touches no owner of a branch that is chosen from above, since the check and the write
lie apart. `Copies`: a backup of such a branch holds what the layer above gave it, because it was
made from it, and none is older (`ChosenAbove`). `Removals`: a removal at work leaves another owner,
and no second one works on its branch; a restored backup ends it (`RestoreRemovals`).

**Gateway** (`GatewayProofs.tla`; `GatewayAssumption`). `TypeCorrect`, `NoByteSkipped`
(`[]NeverAhead`), `WarnedOnceHolds` (`[]WarnedOnce`) and `AllowanceHoldsAlways`
(`[]AllowanceHolds`) for all traffic: drops, refusals, failed calls, restarts and readers.
`Behind`: what a request knows of Google's offset is no more than Google holds, and Google gives
nothing back. `Once` and `Heard`: whoever crossed a line is the only one to announce it, and
either announces it or has been swallowed by a restart. `Within`: bytes that flowed are counted
or about to be, and each request let through adds at most a document; the sums over requests are
cardinalities of sets of bytes.

Only model-checked: the liveness properties (`StaleIsClosed`, `EndedStreamHungUp`,
`BanReachesEverySession`, `Reclaimed`, `StatusComesTrue`, `UploadEnds`), which need fairness and
`ENABLED`, beyond this prover. What a run checks and the findings refute under wider traffic is
proved for the traffic of the run; the theorem's hypothesis on `Offered` names it.

## 15. Not modelled

The components with status `not_modelled` in `PROJECT.json`: those planned (exams, mailbox, the
console's sign-in), and those that stay out: the console's settings, studio drafts and profiles
(single reads and writes), cryptography and container formats, the protocols of Google Drive
and S3 (their calls succeed or fail), wording and layout, the web client's pages, the mobile
client, the recovery tool, guides. Most of the repository's lines are such pages, forms and
guides: they keep no state another component relies on, and are the reason why the map covers
a small share of all lines.

Inside the modelled components: registration and password checks, rate limits, audit entries,
notices of compliance, prerequisites (one level of a graph check), the score of an exam (a
completion is recorded by whoever may), readers' reviews, quotas. *Plans*: editing plans and
settings, the console's edits of an organization's row, deleting a person. *Objects*: extracted
text, month folders, storage that is degraded (uploads are refused). *Governance*, *Connections*,
*Gateway*: as said in their sections.

One exclusion inside a property: `LateStaysLate` says nothing of a person whose earlier
completion still has time to run when an edition resets it; when that
completion's own validity runs out a second window opens and the lateness ends (a hazard).

## 16. Running

    tlc -workers 2 -config MCSessions_revocation.cfg MCSessions
    tlapm SessionsProofs.tla

and likewise for the other configurations (`MC<Module>_<run>.cfg`) and `*Proofs.tla` modules.
