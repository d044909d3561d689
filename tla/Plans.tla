------------------------------- MODULE Plans -------------------------------
(***************************************************************************)
(* Plans, coins and access codes, and what they pay for: founding an       *)
(* organization, restoring a deleted one, reviving a purged one from its   *)
(* .main file (orgs/plan.ts, orgs/routes.ts, pricing/routes.ts,            *)
(* platform/routes.ts, vault-files/routes.ts, orgs/purge.ts and part 2b    *)
(* and 3 of the nightly job).                                              *)
(*                                                                         *)
(* One person with a wallet, any number of requests in flight, staff who   *)
(* decide, and the nightly job.  One action is the code between two        *)
(* awaits: what a handler read earlier it uses later, and every database   *)
(* call that is not in a transaction is a step of its own.                 *)
(***************************************************************************)
EXTENDS Integers, FiniteSets, FiniteSetsExt

CONSTANTS
  Org,          \* organization numbers; a number is never reissued
  Founded,      \* the organizations that exist at the start
  Code,         \* platform requests, each the carrier of one access code
  Handler,      \* slots for requests in flight
  Opening,      \* coins at the start
  Price,        \* priceCoins of the paid plan
  Term,         \* durationDays of a plan
  FirstTerm,    \* days left of the plans in place at the start
  OtpTtl,       \* OTP_TTL_MS, in days
  Retention,    \* days a deleted organization is kept
  MaxCoins,     \* bound on what staff raise a balance to
  MaxRow,       \* bound on the rows a number has in turn
  MaxFiles,     \* bound on the .main files kept
  Kinds,        \* bound: the kinds of request that are filed
  Offered,      \* bound: what happens besides
  MaxTime       \* bound on the days

ASSUME PlansAssumption ==
  /\ Opening \in Nat /\ Price \in Nat /\ Term \in Nat \ {0} /\ FirstTerm \in 0 .. MaxTime + 1
  /\ OtpTtl \in Nat
  /\ Retention \in Nat /\ MaxCoins \in Nat /\ MaxFiles \in Nat /\ MaxRow \in Nat /\ MaxTime \in Nat
  /\ Founded \subseteq Org /\ Org # {} /\ Code # {} /\ IsFiniteSet(Handler)

VARIABLES
  now,       \* the day
  coins,     \* Profile.coins
  ledger,    \* the sum of the CoinTransaction rows
  code,      \* the PlatformRequest rows
  org,       \* the Organization rows, by number
  file,      \* the .main files that were downloaded, by the claim they carry
  handler,   \* locals of the requests in flight
  nightly,   \* locals of the nightly job
  bought     \* history: the terms staff granted, or a code and its charge bought

vars == <<now, coins, ledger, code, org, file, handler, nightly, bought>>
-----------------------------------------------------------------------------
(* Rows and locals.                                                        *)

Never == MaxTime + 1                  \* planExpiresAt null
Days == 0 .. Never
Status == {"DEMO", "ACTIVE", "EXPIRED"}
Claim == [org : Org, status : Status, until : Days]

\* `row` counts the rows a number has had: a revived organization is a new one.
OrgRow == [state : {"absent", "live", "deleted"}, row : Nat, deletedAt : Days,
           status : Status, until : Days]
NoOrg == [state |-> "absent", row |-> 0, deletedAt |-> 0, status |-> "EXPIRED", until |-> 0]

Kind == {"CREATE_ORG", "RESTORE_ORG", "UPGRADE_PLAN"}
CodeRow == [state : {"absent", "PENDING", "APPROVED", "DENIED", "USED", "EXPIRED", "gone"},
            kind : Kind, org : Org,
            demo : BOOLEAN, until : Days]
Fresh == [state |-> "absent", kind |-> "CREATE_ORG", org |-> CHOOSE o \in Org : TRUE,
          demo |-> FALSE, until |-> 0]

Pc == {"rest", "file", "clear", "decide", "apply", "applied",
       "found", "restore", "purge", "revive",
       "redeem", "lapse", "coins", "charge", "record", "use",
       "gift", "adjust", "note"}
\* `code` is the request a handler works on, `then` what the code is for; `paid`
\* says it was redeemed, and status, until and cost are the terms it will stamp.
Locals == [pc : Pc, code : Code, kind : Kind, org : Org, then : {"found", "restore", "revive"},
           row : Nat, demo : BOOLEAN, paid : BOOLEAN, status : Status, until : Days,
           cost : Int, was : Int]
Rest == [pc |-> "rest", code |-> CHOOSE c \in Code : TRUE, kind |-> "CREATE_ORG",
         org |-> CHOOSE o \in Org : TRUE, then |-> "found", row |-> 0, demo |-> FALSE,
         paid |-> FALSE, status |-> "EXPIRED", until |-> 0, cost |-> 0, was |-> 0]

NightlyLocals == [pc : {"rest", "expire", "list", "purge"}, todo : SUBSET (Org \X Nat)]
NightlyRest == [pc |-> "rest", todo |-> {}]

TypeOK ==
  /\ now \in 0 .. MaxTime /\ coins \in Int /\ ledger \in Int
  /\ code \in [Code -> CodeRow]
  /\ org \in [Org -> OrgRow]
  /\ file \in SUBSET Claim
  /\ handler \in [Handler -> Locals]
  /\ nightly \in NightlyLocals
  /\ bought \in SUBSET (Org \X Days)

\* Bound: an expiry beyond the last day is as good as any other.
Until(n) == IF n > MaxTime THEN Never ELSE n
\* expiryFrom
expiryFrom(days) == IF days = 0 THEN Never ELSE Until(now + days)

Init ==
  /\ now = 0 /\ coins = Opening /\ ledger = Opening
  /\ code = [c \in Code |-> Fresh]
  /\ org = [o \in Org |-> IF o \in Founded
              THEN [NoOrg EXCEPT !.state = "live", !.row = 1, !.status = "ACTIVE",
                                 !.until = FirstTerm]
              ELSE NoOrg]
  /\ file = {} /\ handler = [h \in Handler |-> Rest] /\ nightly = NightlyRest
  /\ bought = {<<o, FirstTerm>> : o \in Founded}
-----------------------------------------------------------------------------
(* Operators the handlers are built from.                                  *)

At(h, pc) == handler[h].pc = pc
Goto(h, l) == handler' = [handler EXCEPT ![h] = l]
Step(h, pc) == Goto(h, [handler[h] EXCEPT !.pc = pc])
Done(h) == Goto(h, Rest)

\* Mutant: every plan but a custom one falls into the first branch.
planStatusForNone(demo) == "NONE"

\* planStatusFor and the price, of a plan that is the demo or a paid one.
planStatusFor(demo) == IF demo THEN "DEMO" ELSE "ACTIVE"
CostOf(demo) == IF demo THEN 0 ELSE Price

\* Restoring is free only on a plan that is neither a demo nor past its term.
Lapsed(row) == row.status # "ACTIVE" \/ row.until < now

\* The request's row still exists: an update or a delete by id finds it.
There(c) == code[c].state \notin {"absent", "gone"}
Mark(c, state) == [code EXCEPT ![c].state = state]

\* organization.create: a new row under the number, on the terms in the locals.
NewRow(l) == [state |-> "live", row |-> org[l.org].row + 1, deletedAt |-> 0,
              status |-> l.status, until |-> l.until]
\* purgeOrganization, one transaction: the row goes; the number is not reissued.
Purged(o) == [NoOrg EXCEPT !.row = org[o].row]

\* An update or a delete by the organization's id still finds it.
SameRow(o, row) == org[o].state # "absent" /\ org[o].row = row

\* Terms a charge, or staff, have conferred on an organization.
Buy(o, until) == bought' = bought \cup {<<o, until>>}

\* Bound: without "overlap", the nightly job and a change of coins by staff find
\* no other request in flight and let none start.
Coining == {"gift", "adjust", "note"}
Apart == nightly.pc = "rest" /\ \A h \in Handler : At(h, "rest")
MayStart == \/ "overlap" \in Offered
            \/ nightly.pc = "rest" /\ \A h \in Handler : handler[h].pc \notin Coining

\* Bound: a request that will create a row starts only while ids are left.
\* A request arrives; what it does up to its first await leads to locals l.
Begin(h, l) == At(h, "rest") /\ MayStart /\ Goto(h, l)
-----------------------------------------------------------------------------
(* Requests for a code (pricing/routes.ts).                                *)

\* POST /platform-requests: an upgrade names a live organization of the person's;
\* a duplicate still pending is refused.
FileRequest(h, kind, o, demo) ==
  /\ kind \in Kinds
  /\ kind = "UPGRADE_PLAN" => org[o].state = "live"
  /\ kind = "CREATE_ORG" => o = CHOOSE x \in Founded : TRUE   \* targetOrgNumber null
  /\ ~\E c \in Code : /\ code[c].state = "PENDING"
                      /\ code[c].kind = kind /\ code[c].org = o /\ code[c].demo = demo
  /\ Cardinality({c \in Code : code[c] = Fresh}) > Cardinality({g \in Handler : At(g, "file")})
  /\ Begin(h, [Rest EXCEPT !.pc = "file", !.kind = kind, !.org = o, !.demo = demo])
  /\ UNCHANGED <<now, coins, ledger, code, org, file, nightly, bought>>

\* ... and then the row is created.
CreateRequest(h) ==
  LET l == handler[h] IN
  /\ At(h, "file")
  /\ \E c \in Code :
       /\ code[c] = Fresh
       /\ code' = [code EXCEPT ![c] = [Fresh EXCEPT !.state = "PENDING", !.kind = l.kind,
                                                    !.org = l.org, !.demo = l.demo]]
  /\ Done(h)
  /\ UNCHANGED <<now, coins, ledger, org, file, nightly, bought>>

\* POST .../withdraw, of a request seen pending, and DELETE, of one without a live
\* code: both then delete the row by its id.
Drop(h, c) ==
  /\ "drop" \in Offered
  /\ \/ code[c].state = "PENDING"
     \/ There(c) /\ ~(code[c].state = "APPROVED" /\ code[c].until > now)
  /\ Begin(h, [Rest EXCEPT !.pc = "clear", !.code = c])
  /\ UNCHANGED <<now, coins, ledger, code, org, file, nightly, bought>>

DeleteRequest(h) ==
  LET c == handler[h].code IN
  /\ At(h, "clear")
  /\ code' = IF There(c) THEN Mark(c, "gone") ELSE code
  /\ Done(h)
  /\ UNCHANGED <<now, coins, ledger, org, file, nightly, bought>>

-----------------------------------------------------------------------------
(* Decisions (platform/routes.ts, POST /admin/requests/:id/decide).        *)

Decide(h, c) ==
  /\ code[c].state = "PENDING"
  /\ Begin(h, [Rest EXCEPT !.pc = "decide", !.code = c])
  /\ UNCHANGED <<now, coins, ledger, code, org, file, nightly, bought>>

Deny(h) ==
  LET c == handler[h].code IN
  /\ At(h, "decide")
  /\ code' = IF There(c) THEN Mark(c, "DENIED") ELSE code
  /\ Done(h)
  /\ UNCHANGED <<now, coins, ledger, org, file, nightly, bought>>

\* The terms and the code's expiry are recorded; an upgrade goes on to be applied.
Approve(h) ==
  LET c == handler[h].code
      upgrade == code[c].kind = "UPGRADE_PLAN" /\ org[code[c].org].state # "absent" IN
  /\ At(h, "decide")
  /\ IF There(c)
     THEN /\ code' = [code EXCEPT ![c].state = "APPROVED", ![c].until = Until(now + OtpTtl)]
          /\ IF upgrade THEN Goto(h, [handler[h] EXCEPT !.pc = "apply", !.org = code[c].org,
                                                       !.row = org[code[c].org].row])
                        ELSE Done(h)
     ELSE UNCHANGED code /\ Done(h)
  /\ UNCHANGED <<now, coins, ledger, org, file, nightly, bought>>

\* The upgrade's organization, by the id it had when it was looked up, deleted or not.
Stamp(o, row, days) ==
  IF SameRow(o, row)
  THEN /\ org' = [org EXCEPT ![o].status = "ACTIVE", ![o].until = expiryFrom(days)]
       /\ Buy(o, expiryFrom(days))
  ELSE UNCHANGED <<org, bought>>

ApplyUpgrade(h) ==
  LET l == handler[h] IN
  /\ At(h, "apply")
  /\ Stamp(l.org, l.row, Term)
  /\ IF SameRow(l.org, l.row) THEN Step(h, "applied") ELSE Done(h)
  /\ UNCHANGED <<now, coins, ledger, code, file, nightly>>

CloseUpgrade(h) ==
  LET c == handler[h].code IN
  /\ At(h, "applied")
  /\ code' = IF There(c) THEN Mark(c, "USED") ELSE code
  /\ Done(h)
  /\ UNCHANGED <<now, coins, ledger, org, file, nightly, bought>>

\* POST /admin/plans/upgrade sets a term by hand.
GrantPlan(o, days) ==
  /\ "grant" \in Offered /\ MayStart
  /\ org[o].state # "absent"
  /\ Stamp(o, org[o].row, days)
  /\ UNCHANGED <<now, coins, ledger, code, file, handler, nightly>>

-----------------------------------------------------------------------------
(* Redeeming a code (orgs/plan.ts).                                        *)

Fits(kind, then) == kind = IF then = "found" THEN "CREATE_ORG" ELSE "RESTORE_ORG"

\* redeemAccessCode: an approved request of a fitting kind; the terms are the plan's.
Redeem(h) ==
  LET l == handler[h]
      c == code[l.code] IN
  /\ At(h, "redeem")
  /\ IF c.state # "APPROVED" \/ ~Fits(c.kind, l.then) THEN Done(h)
     ELSE IF c.until < now THEN Step(h, "lapse")
     ELSE Goto(h, [l EXCEPT !.pc = "coins", !.paid = TRUE, !.cost = CostOf(c.demo),
                            !.status = planStatusFor(c.demo), !.until = expiryFrom(Term)])
  /\ UNCHANGED <<now, coins, ledger, code, org, file, nightly, bought>>

\* A code past its day is marked, and refused.
LapseCode(h) ==
  LET c == handler[h].code IN
  /\ At(h, "lapse")
  /\ code' = IF There(c) THEN Mark(c, "EXPIRED") ELSE code
  /\ Done(h)
  /\ UNCHANGED <<now, coins, ledger, org, file, nightly, bought>>

\* Mutant: an undelete that can be afforded is not charged.
CheckCoinsOnly(h) ==
  LET l == handler[h] IN
  /\ At(h, "coins")
  /\ IF coins < l.cost THEN Done(h) ELSE Step(h, l.then)
  /\ UNCHANGED <<now, coins, ledger, code, org, file, nightly, bought>>

\* The wallet is read and has to cover the price; the charge comes later.
CheckCoins(h) ==
  LET l == handler[h] IN
  /\ At(h, "coins")
  /\ IF coins < l.cost THEN Done(h)
     ELSE Step(h, IF l.then # "restore" THEN l.then ELSE IF l.cost > 0 THEN "charge" ELSE "use")
  /\ UNCHANGED <<now, coins, ledger, code, org, file, nightly, bought>>

\* The charge, its ledger row and the code's end, inside a transaction.
Settle(l) ==
  /\ coins' = coins - l.cost
  /\ ledger' = ledger - l.cost
  /\ code' = Mark(l.code, "USED")

-----------------------------------------------------------------------------
(* What a code is for.                                                     *)

\* POST /orgs, up to the redemption.
Found(h, c) ==
  /\ "found" \in Offered /\ There(c)
  /\ Cardinality({o \in Org : org[o] = NoOrg})
       > Cardinality({g \in Handler : handler[g].pc # "rest" /\ handler[g].then = "found"})
  /\ Begin(h, [Rest EXCEPT !.pc = "redeem", !.then = "found", !.code = c])
  /\ UNCHANGED <<now, coins, ledger, code, org, file, nightly, bought>>

\* Its transaction: charge, ledger, code used, and an organization under a new number.
FoundCommit(h) ==
  LET l == handler[h] IN
  /\ At(h, "found")
  /\ IF There(l.code)
     THEN \E o \in Org :
            /\ org[o] = NoOrg
            /\ Settle(l)
            /\ org' = [org EXCEPT ![o] = NewRow([l EXCEPT !.org = o])]
            /\ Buy(o, l.until)
     ELSE UNCHANGED <<coins, ledger, code, org, bought>>
  /\ Done(h)
  /\ UNCHANGED <<now, file, nightly>>

\* POST /orgs/:id/undelete: the retained row is found; a lapsed plan needs a code.
Undelete(h, o, c) ==
  /\ org[o].state = "deleted"
  /\ Begin(h, [Rest EXCEPT !.pc = IF Lapsed(org[o]) THEN "redeem" ELSE "restore",
                           !.then = "restore", !.org = o, !.row = org[o].row, !.code = c])
  /\ UNCHANGED <<now, coins, ledger, code, org, file, nightly, bought>>

\* Mutant: the charge goes on to the code without its ledger row.
ChargeSilently(h) ==
  LET l == handler[h] IN
  /\ At(h, "charge")
  /\ coins' = coins - l.cost
  /\ Buy(l.org, l.until)
  /\ Step(h, "use")
  /\ UNCHANGED <<now, ledger, code, org, file, nightly>>

\* ... the charge, the ledger row, the code and the row, four calls one after another.
Charge(h) ==
  LET l == handler[h] IN
  /\ At(h, "charge")
  /\ coins' = coins - l.cost
  /\ Buy(l.org, l.until)
  /\ Step(h, "record")
  /\ UNCHANGED <<now, ledger, code, org, file, nightly>>

Record(h) ==
  /\ At(h, "record")
  /\ ledger' = ledger - handler[h].cost
  /\ Step(h, "use")
  /\ UNCHANGED <<now, coins, code, org, file, nightly, bought>>

UseCode(h) ==
  LET l == handler[h] IN
  /\ At(h, "use")
  /\ IF There(l.code)
     THEN /\ code' = Mark(l.code, "USED")
          /\ bought' = IF l.cost = 0 THEN bought \cup {<<l.org, l.until>>} ELSE bought
          /\ Step(h, "restore")
     ELSE UNCHANGED <<code, bought>> /\ Done(h)
  /\ UNCHANGED <<now, coins, ledger, org, file, nightly>>

\* The update by id: it throws if the row was purged in the meantime.
Restored(row, l) ==
  LET back == [row EXCEPT !.state = "live", !.deletedAt = 0]
  IN IF l.paid THEN [back EXCEPT !.status = l.status, !.until = l.until] ELSE back

Restore(h) ==
  LET l == handler[h] IN
  /\ At(h, "restore")
  /\ org' = IF SameRow(l.org, l.row) THEN [org EXCEPT ![l.org] = Restored(@, l)] ELSE org
  /\ Done(h)
  /\ UNCHANGED <<now, coins, ledger, code, file, nightly, bought>>

-----------------------------------------------------------------------------
(* .main files (vault-files/routes.ts).                                    *)

\* Mutant: the claim's term is not looked at.
ActiveClaimAllows(claim) == claim.status = "ACTIVE"

\* claimAllowsFreeRevive, of a claim that still bears the server's signature.
claimAllowsFreeRevive(claim) == claim.status = "ACTIVE" /\ claim.until >= now

\* The plan gate: free, or on to the redemption of the code that came along.
Gate(l, claim) ==
  IF claimAllowsFreeRevive(claim)
  THEN [l EXCEPT !.pc = "revive", !.status = claim.status, !.until = claim.until]
  ELSE [l EXCEPT !.pc = "redeem"]

\* POST /orgs/:id/export-main: the file carries the plan as it stands.
ExportMain(o) ==
  /\ "file" \in Offered /\ MayStart /\ Cardinality(file) < MaxFiles
  /\ org[o].state = "live"
  /\ file' = file \cup {[org |-> o, status |-> org[o].status, until |-> org[o].until]}
  /\ UNCHANGED <<now, coins, ledger, code, org, handler, nightly, bought>>

\* DELETE /orgs/:id
DeleteOrg(o) ==
  /\ "delete" \in Offered /\ MayStart
  /\ org[o].state = "live"
  /\ org' = [org EXCEPT ![o].state = "deleted", ![o].deletedAt = now]
  /\ UNCHANGED <<now, coins, ledger, code, file, handler, nightly, bought>>

\* POST /orgs/revive: refused while the organization lives; a retained copy is
\* purged first, and only then is the file opened and the plan gate met.
Revive(h, claim, c) ==
  LET l == [Rest EXCEPT !.then = "revive", !.org = claim.org, !.code = c,
                        !.row = org[claim.org].row] IN
  /\ org[claim.org].row < MaxRow
  /\ \/ /\ org[claim.org].state = "absent"
        /\ Begin(h, Gate(l, claim))
     \/ /\ org[claim.org].state = "deleted"
        /\ Begin(h, [l EXCEPT !.pc = "purge", !.status = claim.status, !.until = claim.until])
  /\ UNCHANGED <<now, coins, ledger, code, org, file, nightly, bought>>

PurgeRetained(h) ==
  LET l == handler[h] IN
  /\ At(h, "purge")
  /\ IF SameRow(l.org, l.row)
     THEN /\ org' = [org EXCEPT ![l.org] = Purged(l.org)]
          /\ \/ Goto(h, Gate(l, [status |-> l.status, until |-> l.until]))
             \/ Done(h)          \* the file was sealed under an earlier password
     ELSE UNCHANGED org /\ Done(h)
  /\ UNCHANGED <<now, coins, ledger, code, file, nightly, bought>>

\* The transaction: refused when the number is taken again, or the request is gone.
ReviveCommit(h) ==
  LET l == handler[h] IN
  /\ At(h, "revive")
  /\ IF org[l.org].state = "absent" /\ (l.paid => There(l.code))
     THEN /\ org' = [org EXCEPT ![l.org] = NewRow(l)]
          /\ IF l.paid THEN Settle(l) /\ Buy(l.org, l.until)
                       ELSE UNCHANGED <<coins, ledger, code, bought>>
     ELSE UNCHANGED <<coins, ledger, code, org, bought>>
  /\ Done(h)
  /\ UNCHANGED <<now, file, nightly>>

-----------------------------------------------------------------------------
(* Coins moved by staff, and the nightly job.                              *)

\* POST /admin/coins/gift reads the balance, refuses to go below zero, and writes
\* the new balance with its ledger row in one transaction.
Gift(h, d) ==
  /\ "coins" \in Offered /\ ("overlap" \in Offered \/ Apart)
  /\ coins + d \in 0 .. MaxCoins
  /\ Begin(h, [Rest EXCEPT !.pc = "gift", !.was = coins, !.cost = -d])
  /\ UNCHANGED <<now, coins, ledger, code, org, file, nightly, bought>>

GiftCommit(h) ==
  LET l == handler[h] IN
  /\ At(h, "gift")
  /\ coins' = l.was - l.cost
  /\ ledger' = ledger - l.cost
  /\ Done(h)
  /\ UNCHANGED <<now, code, org, file, nightly, bought>>

\* POST /admin/users/coins: what is moved stops at zero; the ledger row follows.
Moved(was, d) == IF was + d < 0 THEN -was ELSE d

Adjust(h, d) ==
  /\ "coins" \in Offered /\ ("overlap" \in Offered \/ Apart)
  /\ coins + d <= MaxCoins
  /\ Begin(h, [Rest EXCEPT !.pc = "adjust", !.was = coins, !.cost = -Moved(coins, d)])
  /\ UNCHANGED <<now, coins, ledger, code, org, file, nightly, bought>>

AdjustCommit(h) ==
  LET l == handler[h] IN
  /\ At(h, "adjust")
  /\ coins' = l.was - l.cost
  /\ Step(h, "note")
  /\ UNCHANGED <<now, ledger, code, org, file, nightly, bought>>

NoteAdjustment(h) ==
  /\ At(h, "note")
  /\ ledger' = ledger - handler[h].cost
  /\ Done(h)
  /\ UNCHANGED <<now, coins, code, org, file, nightly, bought>>

\* POST /admin/orgs/:orgNumber/purge and bulk-delete.
PurgeNow(o) ==
  /\ "purge" \in Offered /\ MayStart
  /\ org[o].state # "absent"
  /\ org' = [org EXCEPT ![o] = Purged(o)]
  /\ UNCHANGED <<now, coins, ledger, code, file, handler, nightly, bought>>

\* Part 2b: the organizations whose term is over are listed ...
PastTerm(o) == org[o].state = "live" /\ org[o].status # "EXPIRED" /\ org[o].until < now

ListLapsed ==
  /\ "nightly" \in Offered /\ nightly.pc = "rest" /\ ("overlap" \in Offered \/ Apart)
  /\ nightly' = [pc |-> "expire", todo |-> {<<o, org[o].row>> : o \in {o \in Org : PastTerm(o)}}]
  /\ UNCHANGED <<now, coins, ledger, code, org, file, handler, bought>>

\* ... their owners told, and each marked by its id; a row gone stops the job.
MarkLapsed ==
  /\ nightly.pc = "expire"
  /\ \E x \in nightly.todo :
       IF SameRow(x[1], x[2])
       THEN /\ org' = [org EXCEPT ![x[1]].status = "EXPIRED"]
            /\ nightly' = [nightly EXCEPT !.todo = @ \ {x}]
       ELSE UNCHANGED org /\ nightly' = NightlyRest
  /\ UNCHANGED <<now, coins, ledger, code, file, handler, bought>>

\* Part 3: the organizations kept long enough are listed, and purged by id.
KeptLongEnough(o) == org[o].state = "deleted" /\ org[o].deletedAt + Retention < now

ListDoomed ==
  /\ nightly.pc = "expire" /\ nightly.todo = {}
  /\ nightly' = [pc |-> "purge",
                 todo |-> {<<o, org[o].row>> : o \in {o \in Org : KeptLongEnough(o)}}]
  /\ UNCHANGED <<now, coins, ledger, code, org, file, handler, bought>>

PurgeDoomed ==
  /\ nightly.pc = "purge"
  /\ \/ /\ nightly.todo = {} /\ nightly' = NightlyRest /\ UNCHANGED org
     \/ \E x \in nightly.todo :
          IF SameRow(x[1], x[2])
          THEN /\ org' = [org EXCEPT ![x[1]] = Purged(x[1])]
               /\ nightly' = [nightly EXCEPT !.todo = @ \ {x}]
          ELSE UNCHANGED org /\ nightly' = NightlyRest
  /\ UNCHANGED <<now, coins, ledger, code, file, handler, bought>>

\* Bound: no request is in flight across midnight.
Midnight ==
  /\ now < MaxTime /\ Apart
  /\ now' = now + 1
  /\ UNCHANGED <<coins, ledger, code, org, file, handler, nightly, bought>>

Advance(h) ==
  \/ CreateRequest(h) \/ DeleteRequest(h) \/ Deny(h) \/ Approve(h)
  \/ ApplyUpgrade(h) \/ CloseUpgrade(h)
  \/ Redeem(h) \/ LapseCode(h) \/ CheckCoins(h) \/ FoundCommit(h)
  \/ Charge(h) \/ Record(h) \/ UseCode(h) \/ Restore(h)
  \/ PurgeRetained(h) \/ ReviveCommit(h)
  \/ GiftCommit(h) \/ AdjustCommit(h) \/ NoteAdjustment(h)

Nightly == ListLapsed \/ MarkLapsed \/ ListDoomed \/ PurgeDoomed

\* Bound: what happens to an organization once it is founded happens to Founded.
Next ==
  \/ \E h \in Handler :
       \/ \E kind \in Kind, o \in Founded, demo \in BOOLEAN : FileRequest(h, kind, o, demo)
       \/ \E c \in Code : \/ Drop(h, c) \/ Decide(h, c) \/ Found(h, c)
                          \/ \E o \in Org : Undelete(h, o, c)
                          \/ \E claim \in file : Revive(h, claim, c)
       \/ \E d \in {-Price, Price} : Gift(h, d) \/ Adjust(h, d)
       \/ Advance(h)
  \/ \E o \in Founded : \/ ExportMain(o) \/ DeleteOrg(o) \/ PurgeNow(o)
                        \/ \E days \in {0, Term} : GrantPlan(o, days)
  \/ Nightly \/ Midnight

Spec == Init /\ [][Next]_vars

-----------------------------------------------------------------------------
(* What plans, coins and codes promise.                                    *)

\* Every organization's term, and the term in every .main file, is one that a paid
\* code or staff conferred on that very organization: no deletion, restore, export,
\* revival or nightly mark, in any order, invents or borrows one (plan-sign.ts:4-8).
TermsWereBought ==
  /\ \A o \in Org : org[o].state # "absent" => <<o, org[o].until>> \in bought
  /\ \A claim \in file : <<claim.org, claim.until>> \in bought

\* Charges and adjustments in the wallet whose ledger row is still to be written.
Unrecorded ==
  MapThenSumSet(LAMBDA h : handler[h].cost,
                {h \in Handler : handler[h].pc \in {"record", "note"}})

\* "Every movement is written to the same ledger the user sees" (platform/routes.ts:
\* 697): the ledger's rows add up to the balance but for a charge or an adjustment
\* whose row is just being written, however redemptions interleave.
LedgerExplainsBalance == coins = ledger - Unrecorded

\* A lapsed organization comes back only on terms that are still running: an undelete
\* or a revival never leaves it live on a demo it did not pay for or a term that is
\* over (vault-files/routes.ts:241-260, 323-360).
ComesBackRunning ==
  [][\A o \in Org : org[o].state # "live" /\ org'[o].state = "live" =>
       org'[o].until >= now /\ org'[o].status # "EXPIRED"]_vars

\* A deleted organization is kept for its 30 days ("retainedUntil", vault-files/
\* routes.ts:213-216), unless it comes back, staff purge it, or a revival replaces it.
RetainedOrReplaced ==
  [][\A o \in Org : org[o].state = "deleted" /\ org'[o].state = "absent" =>
       \/ KeptLongEnough(o)
       \/ \E h \in Handler : handler'[h].pc = "revive" /\ handler'[h].org = o]_vars
=============================================================================
