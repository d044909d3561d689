---------------------------- MODULE PlansProofs ----------------------------
(***************************************************************************)
(* Proofs about Plans: its types; that every term was bought, whatever         *)
(* overlaps; and, while staff's changes of coins and the nightly job keep apart  *)
(* of requests, that the ledger explains the balance and that nothing comes back *)
(* on a term that is over.  The sums of the ledger are over any finite number   *)
(* of requests in flight, so the first section proves what it needs of them.    *)
(***************************************************************************)
EXTENDS Plans, FiniteSetTheorems, WellFoundedInduction, TLAPS
-----------------------------------------------------------------------------
(* Sums over finite sets.  The library's induction theorems take an operator; *)
(* the same argument about a set of good sets needs none.                     *)

\* What holds of a set as soon as it holds of the set without any one element
\* holds of every finite set.
LEMMA SetInduction ==
  ASSUME NEW S, IsFiniteSet(S), NEW G,
         \A s \in SUBSET S : (\A x \in s : s \ {x} \in G) => s \in G
  PROVE  SUBSET S \subseteq G
<1> DEFINE R == StrictSubsetOrdering(S)
           Bad == (SUBSET S) \ G
<1>1. SUFFICES ASSUME Bad # {} PROVE FALSE
  OBVIOUS
<1>2. IsWellFoundedOn(R, SUBSET S)
  BY FS_StrictSubsetOrderingWellFounded, FS_FiniteSubsetsOfFinite
<1>3. PICK s \in Bad : \A u \in Bad : <<u, s>> \notin R
  <2>1. Bad \subseteq SUBSET S
    OBVIOUS
  <2> HIDE DEF R, Bad
  <2>2. QED
    BY <1>1, <1>2, <2>1, WFMin
<1>4. ASSUME NEW x \in s PROVE s \ {x} \in G
  <2>1. s \ {x} \in SUBSET S /\ s \ {x} \subseteq s /\ s \ {x} # s /\ s \in SUBSET S
    BY <1>3
  <2>2. <<s \ {x}, s>> \in R
    BY <2>1 DEF StrictSubsetOrdering
  <2>3. QED
    BY <1>3, <2>1, <2>2
<1>5. s \in SUBSET S /\ s \notin G
  BY <1>3
<1>6. QED
  BY <1>4, <1>5

\* t is the table of the sums of c over the subsets of S, as MapThenSumSet makes it.
Table(c, t, S) ==
  t = [s \in SUBSET S |->
        IF s = {} THEN 0 ELSE LET x == CHOOSE x \in s : TRUE IN c[x] + t[s \ {x}]]
Total(c, S) == (CHOOSE t : Table(c, t, S))[S]

LEMMA TableAgrees ==
  ASSUME NEW S, IsFiniteSet(S), NEW c, NEW d, \A x \in S : c[x] = d[x],
         NEW t, NEW u, NEW T, NEW U, Table(c, t, T), Table(d, u, U), S \subseteq T \cap U
  PROVE  t[S] = u[S]
<1> DEFINE G == {s \in SUBSET S : t[s] = u[s]}
<1>1. ASSUME NEW s \in SUBSET S, \A x \in s : s \ {x} \in G PROVE t[s] = u[s]
  <2> DEFINE x == CHOOSE x \in s : TRUE
  <2>1. CASE s = {}
    BY <2>1 DEF Table
  <2>2. CASE s # {}
    <3>1. x \in s
      BY <2>2
    <3>2. t[s \ {x}] = u[s \ {x}] /\ c[x] = d[x]
      BY <1>1, <3>1
    <3>3. t[s] = c[x] + t[s \ {x}] /\ u[s] = d[x] + u[s \ {x}]
      BY <2>2 DEF Table
    <3>4. QED
      BY <3>2, <3>3
  <2>3. QED
    BY <2>1, <2>2
<1>2. \A s \in SUBSET S : (\A x \in s : s \ {x} \in G) => s \in G
  BY <1>1
<1> HIDE DEF G
<1>3. SUBSET S \subseteq G
  BY <1>2, SetInduction
<1>4. QED
  BY <1>3 DEF G

LEMMA TableExists ==
  ASSUME NEW S, IsFiniteSet(S), NEW c
  PROVE  \E t : Table(c, t, S)
<1> DEFINE G == {s \in SUBSET S : \A u \in SUBSET s : \E t : Table(c, t, u)}
           Pick(s) == CHOOSE x \in s : TRUE
<1>1. ASSUME NEW s \in SUBSET S, \A u \in SUBSET s : u # s => \E f : Table(c, f, u)
      PROVE  \E t : Table(c, t, s)
  <2> DEFINE T(u) == CHOOSE f : Table(c, f, u)
             t == [u \in SUBSET s |-> IF u = {} THEN 0 ELSE c[Pick(u)] + T(u \ {Pick(u)})[u \ {Pick(u)}]]
  <2>1. ASSUME NEW u \in SUBSET s, u # s PROVE t[u] = T(u)[u]
    <3>1. Table(c, T(u), u)
      BY <1>1, <2>1
    <3>2. CASE u = {}
      BY <3>1, <3>2 DEF Table
    <3>3. CASE u # {}
      <4> DEFINE v == u \ {Pick(u)}
      <4>1. v \in (SUBSET s) \ {s}
        BY <2>1
      <4>2. Table(c, T(v), v)
        BY <1>1, <4>1
      <4>3. IsFiniteSet(v)
        BY FS_Subset
      <4>a. v \subseteq u \cap v
        OBVIOUS
      <4>4. T(u)[v] = T(v)[v]
        <5> HIDE DEF T, v
        <5>1. QED
          BY <3>1, <4>2, <4>3, <4>a, TableAgrees
      <4> HIDE DEF T
      <4>5. T(u)[u] = c[Pick(u)] + T(u)[v]
        BY <3>1, <3>3 DEF Table
      <4>6. QED
        BY <3>3, <4>4, <4>5
    <3>4. QED
      BY <3>2, <3>3
  <2>2. ASSUME NEW u \in SUBSET s, u # {} PROVE t[u] = c[Pick(u)] + t[u \ {Pick(u)}]
    <3>1. Pick(u) \in u
      BY <2>2
    <3>2. u \ {Pick(u)} \in SUBSET s /\ u \ {Pick(u)} # s
      BY <3>1
    <3> HIDE DEF T
    <3>3. t[u \ {Pick(u)}] = T(u \ {Pick(u)})[u \ {Pick(u)}]
      <4> HIDE DEF t, Pick
      <4>1. QED
        BY <2>1, <3>2
    <3>4. QED
      BY <2>2, <3>3
  <2>3. Table(c, t, s)
    <3>1. t[{}] = 0 /\ t = [u \in SUBSET s |-> t[u]]
      OBVIOUS
    <3> HIDE DEF t
    <3>2. QED
      BY <2>2, <3>1 DEF Table
  <2>4. QED
    BY <2>3
<1>2. \A s \in SUBSET S : (\A x \in s : s \ {x} \in G) => s \in G
  <2>1. SUFFICES ASSUME NEW s \in SUBSET S, \A x \in s : s \ {x} \in G PROVE s \in G
    OBVIOUS
  <2>2. ASSUME NEW u \in SUBSET s, u # s PROVE \E t : Table(c, t, u)
    <3>1. PICK x \in s : x \notin u
      BY <2>2
    <3>2. u \in SUBSET (s \ {x})
      BY <3>1
    <3>3. QED
      BY <2>1, <3>2
  <2>3. QED
    BY <1>1, <2>2
<1>3. SUBSET S \subseteq G
  <2> HIDE DEF G
  <2>1. QED
    BY <1>2, SetInduction
<1>4. QED
  BY <1>3

\* Pointwise: the sum over S begins with the element CHOOSE picks.
LEMMA TotalStep ==
  ASSUME NEW S, IsFiniteSet(S), NEW c
  PROVE  /\ S = {} => Total(c, S) = 0
         /\ S # {} => LET x == CHOOSE x \in S : TRUE IN Total(c, S) = c[x] + Total(c, S \ {x})
<1> DEFINE T(u) == CHOOSE t : Table(c, t, u)
           x == CHOOSE x \in S : TRUE
           v == S \ {x}
<1>1. Table(c, T(S), S)
  BY TableExists
<1>2. IsFiniteSet(v) /\ v \subseteq S \cap v
  BY FS_Subset
<1>3. Table(c, T(v), v)
  <2> HIDE DEF v
  <2>1. QED
    BY <1>2, TableExists
<1>4. T(S)[v] = T(v)[v]
  <2> HIDE DEF T, v
  <2>1. QED
    BY <1>1, <1>2, <1>3, TableAgrees
<1> HIDE DEF T
<1>5. Total(c, S) = T(S)[S] /\ Total(c, v) = T(v)[v]
  BY DEF Total, T
<1>6. /\ S = {} => T(S)[S] = 0
      /\ S # {} => T(S)[S] = c[x] + T(S)[v]
  BY <1>1 DEF Table
<1>7. QED
  BY <1>4, <1>5, <1>6

LEMMA TotalSame ==
  ASSUME NEW S, IsFiniteSet(S), NEW c, NEW d, \A x \in S : c[x] = d[x]
  PROVE  Total(c, S) = Total(d, S)
<1> DEFINE t == CHOOSE t : Table(c, t, S)
           u == CHOOSE u : Table(d, u, S)
<1>1. Table(c, t, S) /\ Table(d, u, S)
  BY TableExists
<1>2. t[S] = u[S]
  <2> HIDE DEF t, u
  <2>1. QED
    BY <1>1, TableAgrees
<1>3. QED
  BY <1>2 DEF Total

LEMMA TotalInt ==
  ASSUME NEW S, IsFiniteSet(S), NEW c, \A x \in S : c[x] \in Int
  PROVE  Total(c, S) \in Int
<1> DEFINE G == {s \in SUBSET S : Total(c, s) \in Int}
<1>1. ASSUME NEW s \in SUBSET S, \A x \in s : s \ {x} \in G PROVE Total(c, s) \in Int
  <2>1. IsFiniteSet(s)
    BY FS_Subset
  <2>2. PICK y : s # {} => y \in s /\ Total(c, s) = c[y] + Total(c, s \ {y})
    <3> DEFINE x == CHOOSE x \in s : TRUE
    <3>1. s # {} => x \in s /\ Total(c, s) = c[x] + Total(c, s \ {x})
      BY <2>1, TotalStep
    <3>2. QED
      BY <3>1
  <2>3. s # {} => Total(c, s \ {y}) \in Int /\ c[y] \in Int
    BY <1>1, <2>2
  <2>4. s = {} => Total(c, s) = 0
    BY <2>1, TotalStep
  <2>5. QED
    BY <2>2, <2>3, <2>4
<1>2. \A s \in SUBSET S : (\A x \in s : s \ {x} \in G) => s \in G
  BY <1>1
<1> HIDE DEF G
<1>3. SUBSET S \subseteq G
  BY <1>2, SetInduction
<1>4. QED
  BY <1>3 DEF G

\* Whichever element is taken out, the sum loses its amount.
LEMMA TotalRemove ==
  ASSUME NEW S, IsFiniteSet(S), NEW c, \A x \in S : c[x] \in Int, NEW y \in S
  PROVE  Total(c, S) = c[y] + Total(c, S \ {y})
<1> DEFINE G == {s \in SUBSET S : \A z \in s : Total(c, s) = c[z] + Total(c, s \ {z})}
<1>0. ASSUME NEW s \in SUBSET S PROVE IsFiniteSet(s) /\ Total(c, s) \in Int
  <2>1. IsFiniteSet(s) /\ \A x \in s : c[x] \in Int
    BY FS_Subset
  <2>2. QED
    BY <2>1, TotalInt
<1>1. ASSUME NEW s \in SUBSET S, \A x \in s : s \ {x} \in G, NEW z \in s
      PROVE  Total(c, s) = c[z] + Total(c, s \ {z})
  <2>2. PICK x \in s : Total(c, s) = c[x] + Total(c, s \ {x})
    <3> DEFINE x == CHOOSE x \in s : TRUE
    <3>1. x \in s /\ Total(c, s) = c[x] + Total(c, s \ {x})
      BY <1>0, TotalStep
    <3>2. QED
      BY <3>1
  <2>3. CASE x = z
    BY <2>2, <2>3
  <2>4. CASE x # z
    <3>1. z \in s \ {x} /\ x \in s \ {z}
      BY <2>4
    <3>2. (s \ {x}) \ {z} = (s \ {z}) \ {x} /\ (s \ {x}) \ {z} \in SUBSET S
      OBVIOUS
    <3> DEFINE rest == (s \ {x}) \ {z}
    <3>3. Total(c, s \ {x}) = c[z] + Total(c, rest)
      BY <1>1, <3>1
    <3>4. Total(c, s \ {z}) = c[x] + Total(c, rest)
      BY <1>1, <3>1, <3>2
    <3>5. c[x] \in Int /\ c[z] \in Int /\ Total(c, rest) \in Int
      BY <1>0, <3>2
    <3> HIDE DEF rest
    <3>6. QED
      BY <2>2, <3>3, <3>4, <3>5
  <2>5. QED
    BY <2>3, <2>4
<1>2. \A s \in SUBSET S : (\A x \in s : s \ {x} \in G) => s \in G
  BY <1>1
<1>3. SUBSET S \subseteq G
  <2> HIDE DEF G
  <2>1. QED
    BY <1>2, SetInduction
<1>4. QED
  BY <1>3

Costs == [h \in Handler |-> handler[h].cost]
Open == {h \in Handler : handler[h].pc \in {"record", "note"}}

LEMMA SumIsTotal ==
  ASSUME NEW g, NEW S \in SUBSET Handler, IsFiniteSet(S)
  PROVE  MapThenSumSet(LAMBDA h : g[h].cost, S) = Total([h \in Handler |-> g[h].cost], S)
<1> DEFINE c == [h \in Handler |-> g[h].cost]
           Raw(t) == t = [s \in SUBSET S |->
                            IF s = {} THEN 0
                            ELSE LET x == CHOOSE x \in s : TRUE IN g[x].cost + t[s \ {x}]]
           u == CHOOSE t : Raw(t)
<1>1. MapThenSumSet(LAMBDA h : g[h].cost, S) = u[S]
  BY DEF MapThenSumSet, MapThenFoldSet
<1>2. \A s \in SUBSET S : s # {} => LET x == CHOOSE x \in s : TRUE IN g[x].cost = c[x]
  OBVIOUS
<1> HIDE DEF c
<1>3. \A t : Table(c, t, S) <=> Raw(t)
  BY <1>2 DEF Table
<1>4. PICK t : Table(c, t, S)
  BY TableExists
<1>5. Table(c, u, S)
  <2>1. Raw(t)
    BY <1>3, <1>4
  <2> HIDE DEF Raw
  <2>2. Raw(u)
    BY <2>1
  <2>3. QED
    BY <1>3, <2>2
<1>6. Table(c, CHOOSE f : Table(c, f, S), S)
  BY <1>4
<1> HIDE DEF u
<1>7. u[S] = Total(c, S)
  <2> DEFINE f == CHOOSE f : Table(c, f, S)
  <2> HIDE DEF f
  <2>1. Table(c, f, S) /\ Total(c, S) = f[S]
    BY <1>6 DEF Total, f
  <2>2. QED
    BY <1>5, <2>1, TableAgrees
<1>8. QED
  BY <1>1, <1>7 DEF c

LEMMA UnrecordedIsTotal ==
  ASSUME IsFiniteSet(Handler)
  PROVE  Unrecorded = Total(Costs, Open)
<1>1. Open \in SUBSET Handler /\ IsFiniteSet(Open)
  BY FS_Subset DEF Open
<1>2. QED
  BY <1>1, SumIsTotal DEF Unrecorded, Costs, Open

-----------------------------------------------------------------------------
(* Types.                                                                  *)

USE PlansAssumption

LEMMA DaysAndTerms ==
  /\ Never \in Days /\ 0 \in Days /\ \A n \in Nat : Until(n) \in Days
  /\ \A d \in 0 .. MaxTime : d \in Days
  /\ \A demo : planStatusFor(demo) \in {"DEMO", "ACTIVE"} /\ CostOf(demo) \in Nat
  BY DEF Days, Never, Until, planStatusFor, CostOf

LEMMA ExpiryTyped ==
  ASSUME now \in 0 .. MaxTime, NEW days \in Nat
  PROVE  expiryFrom(days) \in Days /\ expiryFrom(days) >= now
  BY DEF expiryFrom, Until, Days, Never

LEMMA RestTyped == Rest \in Locals /\ Fresh \in CodeRow /\ NoOrg \in OrgRow
<1>1. (CHOOSE o \in Org : TRUE) \in Org /\ (CHOOSE c \in Code : TRUE) \in Code
  OBVIOUS
<1>2. QED
  BY <1>1, DaysAndTerms DEF Rest, Locals, Pc, Fresh, CodeRow, NoOrg, OrgRow, Kind, Status

LEMMA OneMoves ==
  ASSUME TypeOK, NEW h \in Handler, NEW l, Goto(h, l)
  PROVE  /\ handler'[h] = l
         /\ \A g \in Handler \ {h} : handler'[g] = handler[g]
         /\ l \in Locals => handler' \in [Handler -> Locals]
  BY DEF TypeOK, Goto

LEMMA StepTyped ==
  ASSUME TypeOK, NEW h \in Handler, NEW pc \in Pc, Step(h, pc)
  PROVE  handler' \in [Handler -> Locals]
<1>1. [handler[h] EXCEPT !.pc = pc] \in Locals
  BY DEF TypeOK, Locals
<1>2. QED
  BY <1>1, OneMoves DEF Step

LEMMA DoneTyped ==
  ASSUME TypeOK, NEW h \in Handler, Done(h)
  PROVE  handler' \in [Handler -> Locals]
  BY RestTyped, OneMoves DEF Done

LEMMA MarkTyped ==
  ASSUME TypeOK, NEW c \in Code, NEW state \in {"USED", "EXPIRED", "DENIED", "gone"}
  PROVE  Mark(c, state) \in [Code -> CodeRow]
  BY DEF TypeOK, Mark, CodeRow

LEMMA InitTyped == Init => TypeOK
<1> SUFFICES ASSUME Init PROVE TypeOK
  OBVIOUS
<1>2. \A o \in Org : org[o] \in OrgRow
  BY RestTyped DEF Init, NoOrg, OrgRow, Days, Never, Status
<1>3. org \in [Org -> OrgRow]
  BY <1>2 DEF Init
<1>4. bought \in SUBSET (Org \X Days)
  BY DEF Init, Days, Never
<1>5. code \in [Code -> CodeRow] /\ handler \in [Handler -> Locals]
  BY RestTyped DEF Init
<1>6. QED
  BY <1>3, <1>4, <1>5 DEF Init, TypeOK, NightlyRest, NightlyLocals

\* A request that arrives.
LEMMA RequestTyped ==
  ASSUME TypeOK, NEW h \in Handler
  PROVE  /\ \A kind \in Kind, o \in Founded, demo \in BOOLEAN : FileRequest(h, kind, o, demo) => TypeOK'
         /\ \A c \in Code : Drop(h, c) \/ Decide(h, c) \/ Found(h, c) => TypeOK'
         /\ \A o \in Org, c \in Code : Undelete(h, o, c) => TypeOK'
         /\ \A d \in Int : Gift(h, d) \/ Adjust(h, d) => TypeOK'
<1>1. ASSUME NEW l \in Locals, Begin(h, l), UNCHANGED <<now, coins, ledger, code, org, file, nightly, bought>>
      PROVE  TypeOK'
  BY <1>1, OneMoves DEF Begin, TypeOK
<1>2. ASSUME NEW kind \in Kind, NEW o \in Founded, NEW demo \in BOOLEAN, FileRequest(h, kind, o, demo)
      PROVE  TypeOK'
  <2>1. [Rest EXCEPT !.pc = "file", !.kind = kind, !.org = o, !.demo = demo] \in Locals
    BY RestTyped DEF Locals, Pc
  <2>2. QED
    BY <1>1, <1>2, <2>1 DEF FileRequest
<1>3. ASSUME NEW c \in Code, Drop(h, c) \/ Decide(h, c) \/ Found(h, c) PROVE TypeOK'
  <2>1. /\ [Rest EXCEPT !.pc = "clear", !.code = c] \in Locals
        /\ [Rest EXCEPT !.pc = "decide", !.code = c] \in Locals
        /\ [Rest EXCEPT !.pc = "redeem", !.then = "found", !.code = c] \in Locals
    BY RestTyped DEF Locals, Pc
  <2>2. QED
    BY <1>1, <1>3, <2>1 DEF Drop, Decide, Found
<1>4. ASSUME NEW o \in Org, NEW c \in Code, Undelete(h, o, c) PROVE TypeOK'
  <2>1. org[o].row \in Nat
    BY DEF TypeOK, OrgRow
  <2>2. \A pc \in Pc : [Rest EXCEPT !.pc = pc, !.then = "restore", !.org = o, !.row = org[o].row, !.code = c]
                          \in Locals
    BY <2>1, RestTyped DEF Locals
  <2>3. QED
    BY <1>1, <1>4, <2>2 DEF Undelete, Pc
<1>5. ASSUME NEW d \in Int, Gift(h, d) \/ Adjust(h, d) PROVE TypeOK'
  <2>1. coins \in Int /\ -d \in Int /\ -Moved(coins, d) \in Int
    BY DEF TypeOK, Moved
  <2>2. /\ [Rest EXCEPT !.pc = "gift", !.was = coins, !.cost = -d] \in Locals
        /\ [Rest EXCEPT !.pc = "adjust", !.was = coins, !.cost = -Moved(coins, d)] \in Locals
    BY <2>1, RestTyped DEF Locals, Pc
  <2>3. QED
    BY <1>1, <1>5, <2>2 DEF Gift, Adjust
<1>6. QED
  BY <1>2, <1>3, <1>4, <1>5

LEMMA GateTyped ==
  ASSUME NEW l \in Locals, NEW status \in Status, NEW until \in Days, NEW claim,
         claim.status = status, claim.until = until
  PROVE  Gate(l, claim) \in Locals
<1>1. \A pc \in {"revive", "redeem"} : [l EXCEPT !.pc = pc] \in Locals
  BY DEF Locals, Pc
<1>2. [l EXCEPT !.pc = "revive", !.status = claim.status, !.until = claim.until] \in Locals
  BY DEF Locals, Pc
<1>3. QED
  BY <1>1, <1>2 DEF Gate

LEMMA ReviveTyped ==
  ASSUME TypeOK, NEW h \in Handler, NEW claim \in file, NEW c \in Code, Revive(h, claim, c)
  PROVE  TypeOK'
<1> DEFINE l == [Rest EXCEPT !.then = "revive", !.org = claim.org, !.code = c, !.row = org[claim.org].row]
<1>1. claim \in Claim /\ claim.org \in Org /\ claim.status \in Status /\ claim.until \in Days
  BY DEF TypeOK, Claim
<1>2. org[claim.org].row \in Nat
  BY <1>1 DEF TypeOK, OrgRow
<1>3. l \in Locals
  BY <1>1, <1>2, RestTyped DEF Locals
<1>4. [l EXCEPT !.pc = "purge", !.status = claim.status, !.until = claim.until] \in Locals
  <2> HIDE DEF l
  <2>1. QED
    BY <1>1, <1>3 DEF Locals, Pc
<1>5. \/ Goto(h, Gate(l, claim))
      \/ Goto(h, [l EXCEPT !.pc = "purge", !.status = claim.status, !.until = claim.until])
  BY DEF Revive, Begin
<1>6. UNCHANGED <<now, coins, ledger, code, org, file, nightly, bought>>
  BY DEF Revive
<1> HIDE DEF l
<1>7. handler' \in [Handler -> Locals]
  BY <1>1, <1>3, <1>4, <1>5, GateTyped, OneMoves
<1>8. QED
  BY <1>6, <1>7 DEF TypeOK

\* A request that goes on.
LEMMA AdvanceTyped ==
  ASSUME TypeOK, NEW h \in Handler, Advance(h)
  PROVE  TypeOK'
<1> DEFINE l == handler[h]
<1>1. /\ l \in Locals /\ l.code \in Code /\ l.org \in Org /\ l.cost \in Int /\ l.was \in Int
      /\ l.until \in Days /\ l.status \in Status
  BY DEF TypeOK, Locals
<1>2. now \in 0 .. MaxTime /\ now \in Days /\ Until(now + OtpTtl) \in Days /\ expiryFrom(Term) \in Days
  BY DaysAndTerms, ExpiryTyped DEF TypeOK
<1>3. CASE CreateRequest(h)
  <2>1. PICK c \in Code : code' = [code EXCEPT ![c] = [Fresh EXCEPT !.state = "PENDING", !.kind = l.kind,
                                                               !.org = l.org, !.demo = l.demo]]
    BY <1>3 DEF CreateRequest
  <2>2. [Fresh EXCEPT !.state = "PENDING", !.kind = l.kind, !.org = l.org, !.demo = l.demo] \in CodeRow
    BY <1>1, RestTyped DEF Locals, CodeRow
  <2>3. code' \in [Code -> CodeRow]
    BY <2>1, <2>2 DEF TypeOK
  <2>4. QED
    BY <1>3, <2>3, DoneTyped DEF CreateRequest, TypeOK
<1>4. CASE DeleteRequest(h) \/ Deny(h) \/ CloseUpgrade(h) \/ LapseCode(h)
  <2>1. code' \in [Code -> CodeRow]
    BY <1>1, <1>4, MarkTyped DEF DeleteRequest, Deny, CloseUpgrade, LapseCode, TypeOK
  <2>2. QED
    BY <1>4, <2>1, DoneTyped DEF DeleteRequest, Deny, CloseUpgrade, LapseCode, TypeOK
<1>5. CASE Approve(h)
  <2> DEFINE c == l.code
             up == [l EXCEPT !.pc = "apply", !.org = code[c].org, !.row = org[code[c].org].row]
  <2>1. code[c] \in CodeRow /\ code[c].org \in Org
    BY <1>1 DEF TypeOK, CodeRow
  <2>2. org[code[c].org].row \in Nat
    BY <2>1 DEF TypeOK, OrgRow
  <2>3. up \in Locals
    BY <1>1, <2>1, <2>2 DEF Locals, Pc
  <2>4. code' = code \/ code' = [code EXCEPT ![c].state = "APPROVED", ![c].until = Until(now + OtpTtl)]
    BY <1>5 DEF Approve
  <2>5. code' \in [Code -> CodeRow]
    BY <1>1, <1>2, <2>1, <2>4 DEF TypeOK, CodeRow
  <2>6. Goto(h, up) \/ Done(h)
    BY <1>5 DEF Approve
  <2>7. handler' \in [Handler -> Locals]
    BY <2>3, <2>6, OneMoves, DoneTyped
  <2>8. QED
    BY <1>5, <2>5, <2>7 DEF Approve, TypeOK
<1>6. CASE ApplyUpgrade(h)
  <2>1. org' \in [Org -> OrgRow] /\ bought' \in SUBSET (Org \X Days)
    BY <1>1, <1>2, <1>6 DEF ApplyUpgrade, Stamp, Buy, TypeOK, OrgRow, Status
  <2>2. handler' \in [Handler -> Locals]
    BY <1>6, StepTyped, DoneTyped DEF ApplyUpgrade, Pc
  <2>3. QED
    BY <1>6, <2>1, <2>2 DEF ApplyUpgrade, TypeOK
<1>7. CASE Redeem(h)
  <2> DEFINE c == code[l.code]
             m == [l EXCEPT !.pc = "coins", !.paid = TRUE, !.cost = CostOf(c.demo),
                            !.status = planStatusFor(c.demo), !.until = expiryFrom(Term)]
  <2>1. m \in Locals
    <3>1. ASSUME NEW cost \in Int, NEW status \in Status, NEW until \in Days
          PROVE  [l EXCEPT !.pc = "coins", !.paid = TRUE, !.cost = cost, !.status = status, !.until = until]
                   \in Locals
      BY <1>1 DEF Locals, Pc
    <3>2. CostOf(c.demo) \in Int /\ planStatusFor(c.demo) \in Status
      BY DaysAndTerms DEF Status
    <3> HIDE DEF c, l
    <3>3. QED
      BY <1>2, <3>1, <3>2
  <2>2. Done(h) \/ Step(h, "lapse") \/ Goto(h, m)
    BY <1>7 DEF Redeem
  <2>3. handler' \in [Handler -> Locals]
    BY <2>1, <2>2, OneMoves, StepTyped, DoneTyped DEF Pc
  <2>4. QED
    BY <1>7, <2>3 DEF Redeem, TypeOK
<1>8. CASE CheckCoins(h)
  <2>1. \A pc \in {"found", "restore", "revive", "charge", "use"} : pc \in Pc
    BY DEF Pc
  <2>2. l.then \in {"found", "restore", "revive"}
    BY <1>1 DEF Locals
  <2>3. handler' \in [Handler -> Locals]
    BY <1>8, <2>1, <2>2, StepTyped, DoneTyped DEF CheckCoins
  <2>4. QED
    BY <1>8, <2>3 DEF CheckCoins, TypeOK
<1>9. CASE FoundCommit(h)
  <2>1. CASE There(l.code)
    <3>1. PICK o \in Org : /\ Settle(l)
                           /\ org' = [org EXCEPT ![o] = NewRow([l EXCEPT !.org = o])]
                           /\ Buy(o, l.until)
      BY <1>9, <2>1 DEF FoundCommit
    <3>2. [l EXCEPT !.org = o].org = o /\ org[o].row + 1 \in Nat
      BY <1>1 DEF TypeOK, OrgRow, Locals
    <3>3. NewRow([l EXCEPT !.org = o]) \in OrgRow
      BY <1>1, <3>2, DaysAndTerms DEF NewRow, OrgRow, Locals
    <3>4. org' \in [Org -> OrgRow] /\ bought' \in SUBSET (Org \X Days)
      BY <1>1, <3>1, <3>3 DEF TypeOK, Buy
    <3>5. coins' \in Int /\ ledger' \in Int /\ code' \in [Code -> CodeRow]
      BY <1>1, <3>1, MarkTyped DEF TypeOK, Settle
    <3>6. QED
      BY <1>9, <3>4, <3>5, DoneTyped DEF FoundCommit, TypeOK
  <2>2. CASE ~There(l.code)
    BY <1>9, <2>2, DoneTyped DEF FoundCommit, TypeOK
  <2>3. QED
    BY <2>1, <2>2
<1>10. CASE Charge(h) \/ Record(h) \/ AdjustCommit(h)
  <2>1. handler' \in [Handler -> Locals]
    BY <1>10, StepTyped DEF Charge, Record, AdjustCommit, Pc
  <2>2. bought' \in SUBSET (Org \X Days) /\ coins' \in Int /\ ledger' \in Int
    BY <1>1, <1>10 DEF Charge, Record, AdjustCommit, Buy, TypeOK
  <2>3. QED
    BY <1>10, <2>1, <2>2 DEF Charge, Record, AdjustCommit, TypeOK
<1>11. CASE UseCode(h)
  <2>1. handler' \in [Handler -> Locals]
    BY <1>11, StepTyped, DoneTyped DEF UseCode, Pc
  <2>2. code' \in [Code -> CodeRow]
    BY <1>1, <1>11, MarkTyped DEF UseCode, TypeOK
  <2>3. bought' \in SUBSET (Org \X Days)
    BY <1>1, <1>11 DEF UseCode, TypeOK
  <2>4. QED
    BY <1>11, <2>1, <2>2, <2>3 DEF UseCode, TypeOK
<1>12. CASE Restore(h)
  <2>1. Restored(org[l.org], l) \in OrgRow
    <3>1. org[l.org] \in OrgRow
      BY <1>1 DEF TypeOK
    <3>2. [org[l.org] EXCEPT !.state = "live", !.deletedAt = 0] \in OrgRow
      BY <3>1, DaysAndTerms DEF OrgRow
    <3>3. \A row \in OrgRow : [row EXCEPT !.status = l.status, !.until = l.until] \in OrgRow
      BY <1>1 DEF OrgRow
    <3>4. QED
      BY <3>2, <3>3 DEF Restored
  <2>2. org' \in [Org -> OrgRow]
    BY <1>1, <1>12, <2>1 DEF Restore, TypeOK
  <2>3. QED
    BY <1>12, <2>2, DoneTyped DEF Restore, TypeOK
<1>13. CASE PurgeRetained(h)
  <2>1. Purged(l.org) \in OrgRow
    BY <1>1, RestTyped DEF TypeOK, Purged, OrgRow
  <2>2. org' \in [Org -> OrgRow]
    BY <1>1, <1>13, <2>1 DEF PurgeRetained, TypeOK
  <2>3. Gate(l, [status |-> l.status, until |-> l.until]) \in Locals
    BY <1>1, GateTyped
  <2>4. handler' \in [Handler -> Locals]
    BY <1>13, <2>3, OneMoves, DoneTyped DEF PurgeRetained
  <2>5. QED
    BY <1>13, <2>2, <2>4 DEF PurgeRetained, TypeOK
<1>14. CASE ReviveCommit(h)
  <2>1. NewRow(l) \in OrgRow
    BY <1>1, DaysAndTerms DEF TypeOK, NewRow, OrgRow
  <2>2. org' \in [Org -> OrgRow]
    BY <1>1, <1>14, <2>1 DEF ReviveCommit, TypeOK
  <2>3. bought' \in SUBSET (Org \X Days) /\ coins' \in Int /\ ledger' \in Int
    BY <1>1, <1>14 DEF ReviveCommit, Settle, Buy, TypeOK
  <2>4. code' \in [Code -> CodeRow]
    BY <1>1, <1>14, MarkTyped DEF ReviveCommit, Settle, TypeOK
  <2>5. QED
    BY <1>14, <2>2, <2>3, <2>4, DoneTyped DEF ReviveCommit, TypeOK
<1>15. CASE GiftCommit(h) \/ NoteAdjustment(h)
  <2>1. coins' \in Int /\ ledger' \in Int
    BY <1>1, <1>15 DEF GiftCommit, NoteAdjustment, TypeOK
  <2>2. QED
    BY <1>15, <2>1, DoneTyped DEF GiftCommit, NoteAdjustment, TypeOK
<1>16. QED
  BY <1>3, <1>4, <1>5, <1>6, <1>7, <1>8, <1>9, <1>10, <1>11, <1>12, <1>13, <1>14, <1>15 DEF Advance

\* What happens to an organization outside any request, the nightly job and the clock.
LEMMA RestTypes ==
  ASSUME TypeOK
  PROVE  /\ \A o \in Founded : ExportMain(o) \/ DeleteOrg(o) \/ PurgeNow(o) => TypeOK'
         /\ \A o \in Founded : \A days \in {0, Term} : GrantPlan(o, days) => TypeOK'
         /\ Nightly \/ Midnight \/ UNCHANGED vars => TypeOK'
<1>1. now \in 0 .. MaxTime /\ now \in Days
  BY DaysAndTerms DEF TypeOK
<1>2. \A o \in Org : Purged(o) \in OrgRow
  BY RestTyped DEF TypeOK, Purged, OrgRow
<1>3. ASSUME NEW o \in Founded, ExportMain(o) \/ DeleteOrg(o) \/ PurgeNow(o) PROVE TypeOK'
  <2>1. CASE ExportMain(o)
    <3>1. [org |-> o, status |-> org[o].status, until |-> org[o].until] \in Claim
      BY DEF TypeOK, Claim, OrgRow
    <3>2. QED
      BY <2>1, <3>1 DEF ExportMain, TypeOK
  <2>2. CASE DeleteOrg(o)
    BY <1>1, <2>2 DEF DeleteOrg, TypeOK, OrgRow
  <2>3. CASE PurgeNow(o)
    BY <1>2, <2>3 DEF PurgeNow, TypeOK
  <2>4. QED
    BY <1>3, <2>1, <2>2, <2>3
<1>4. ASSUME NEW o \in Founded, NEW days \in {0, Term}, GrantPlan(o, days) PROVE TypeOK'
  <2>1. expiryFrom(days) \in Days
    BY <1>1, ExpiryTyped
  <2>2. org' \in [Org -> OrgRow] /\ bought' \in SUBSET (Org \X Days)
    BY <1>4, <2>1 DEF GrantPlan, Stamp, Buy, TypeOK, OrgRow, Status
  <2>3. QED
    BY <1>4, <2>2 DEF GrantPlan, TypeOK
<1>5. CASE Nightly
  <2>1. \A o \in Org : org[o].row \in Nat
    BY DEF TypeOK, OrgRow
  <2>2. nightly' \in NightlyLocals
    <3>1. nightly \in NightlyLocals /\ NightlyRest \in NightlyLocals
      BY DEF TypeOK, NightlyLocals, NightlyRest
    <3>2. \A x : [nightly EXCEPT !.todo = @ \ {x}] \in NightlyLocals
      BY <3>1 DEF NightlyLocals
    <3>3. ASSUME NEW S \in SUBSET Org, NEW pc \in {"expire", "purge"}
          PROVE  [pc |-> pc, todo |-> {<<o, org[o].row>> : o \in S}] \in NightlyLocals
      BY <2>1 DEF NightlyLocals
    <3>4. CASE ListLapsed \/ ListDoomed
      BY <3>3, <3>4 DEF ListLapsed, ListDoomed
    <3>5. CASE MarkLapsed
      BY <3>1, <3>2, <3>5 DEF MarkLapsed
    <3>6. CASE PurgeDoomed
      BY <3>1, <3>2, <3>6 DEF PurgeDoomed
    <3>7. QED
      BY <1>5, <3>4, <3>5, <3>6 DEF Nightly
  <2>3. org' \in [Org -> OrgRow]
    <3>1. ASSUME NEW x \in Org \X Nat, org' = [org EXCEPT ![x[1]].status = "EXPIRED"] PROVE org' \in [Org -> OrgRow]
      BY <3>1 DEF TypeOK, OrgRow, Status
    <3>2. ASSUME NEW x \in Org \X Nat, org' = [org EXCEPT ![x[1]] = Purged(x[1])] PROVE org' \in [Org -> OrgRow]
      BY <1>2, <3>2 DEF TypeOK
    <3>3. nightly.todo \subseteq Org \X Nat
      BY DEF TypeOK, NightlyLocals
    <3>4. \/ org' = org
          \/ \E x \in nightly.todo : \/ org' = [org EXCEPT ![x[1]].status = "EXPIRED"]
                                     \/ org' = [org EXCEPT ![x[1]] = Purged(x[1])]
      BY <1>5 DEF Nightly, ListLapsed, MarkLapsed, ListDoomed, PurgeDoomed
    <3>5. QED
      BY <3>1, <3>2, <3>3, <3>4 DEF TypeOK
  <2>4. QED
    BY <1>5, <2>2, <2>3 DEF Nightly, ListLapsed, MarkLapsed, ListDoomed, PurgeDoomed, TypeOK
<1>6. CASE Midnight
  BY <1>6 DEF Midnight, TypeOK
<1>7. CASE UNCHANGED vars
  BY <1>7 DEF vars, TypeOK
<1>8. QED
  BY <1>3, <1>4, <1>5, <1>6, <1>7

LEMMA StepTypes == TypeOK /\ [Next]_vars => TypeOK'
<1> SUFFICES ASSUME TypeOK, [Next]_vars PROVE TypeOK'
  OBVIOUS
<1>1. \A d \in {-Price, Price} : d \in Int
  OBVIOUS
<1>2. QED
  BY <1>1, RequestTyped, ReviveTyped, AdvanceTyped, RestTypes DEF Next

(* Every row, claim and local keeps its shape: terms stay days, a balance and  *)
(* a ledger integers, a status one of the three (planStatusFor).             *)
THEOREM TypeCorrect == Spec => []TypeOK
<1>1. QED
  BY InitTyped, StepTypes, PTL DEF Spec

-----------------------------------------------------------------------------
(* Terms.  A request carries terms into a row from the moment they are paid    *)
(* for, or were in a .main file; until it stamps them they are bought already. *)

Settled(l) ==
  \/ l.pc \in {"record", "purge"}
  \/ l.pc = "use" /\ l.cost # 0
  \/ l.pc = "restore" /\ l.paid
  \/ l.pc = "revive" /\ ~l.paid
Backed(l, terms) ==
  /\ Settled(l) => <<l.org, l.until>> \in terms
  /\ l.pc = "coins" => l.paid /\ l.cost \in Nat
Terms ==
  /\ TermsWereBought
  /\ \A h \in Handler : Backed(handler[h], bought)

\* A locals record whose pc alone changes.
LEMMA StepFields ==
  ASSUME TypeOK, NEW h \in Handler, NEW pc, Step(h, pc)
  PROVE  LET l == handler[h]  m == handler'[h] IN
         /\ m.pc = pc /\ m.org = l.org /\ m.then = l.then /\ m.row = l.row /\ m.paid = l.paid
         /\ m.status = l.status /\ m.until = l.until /\ m.cost = l.cost /\ m.was = l.was
         /\ m.code = l.code
         /\ \A g \in Handler \ {h} : handler'[g] = handler[g]
  BY DEF TypeOK, Step, Goto, Locals

LEMMA DoneFields ==
  ASSUME TypeOK, NEW h \in Handler, Done(h)
  PROVE  /\ handler'[h].pc = "rest" /\ handler'[h] = Rest
         /\ \A g \in Handler \ {h} : handler'[g] = handler[g]
  BY DEF TypeOK, Done, Goto, Rest

\* What a request's step has to leave behind.
LEMMA KeepsTerms ==
  ASSUME Terms, bought \subseteq bought', file' = file, NEW h \in Handler,
         \A g \in Handler \ {h} : handler'[g] = handler[g], Backed(handler'[h], bought'),
         \A o \in Org : org'[o].state # "absent" =>
            \/ <<o, org'[o].until>> \in bought'
            \/ org[o].state # "absent" /\ org'[o].until = org[o].until
  PROVE  Terms'
<1>1. TermsWereBought'
  BY DEF Terms, TermsWereBought
<1>2. ASSUME NEW g \in Handler PROVE Backed(handler'[g], bought')
  BY DEF Terms, Backed
<1>3. QED
  BY <1>1, <1>2 DEF Terms

LEMMA StampTerms ==
  ASSUME TypeOK, NEW o \in Org, NEW row, NEW days, Stamp(o, row, days)
  PROVE  /\ bought \subseteq bought'
         /\ \A x \in Org : org'[x].state # "absent" =>
              \/ <<x, org'[x].until>> \in bought'
              \/ org[x].state # "absent" /\ org'[x].until = org[x].until
<1>1. CASE SameRow(o, row)
  <2> DEFINE new == [org[o] EXCEPT !.status = "ACTIVE", !.until = expiryFrom(days)]
  <2>1. org' = [org EXCEPT ![o] = new] /\ bought' = bought \cup {<<o, expiryFrom(days)>>}
    BY <1>1 DEF Stamp, Buy
  <2>2. new.until = expiryFrom(days)
    BY DEF TypeOK, OrgRow
  <2> HIDE DEF new
  <2>3. QED
    BY <2>1, <2>2 DEF TypeOK
<1>2. CASE ~SameRow(o, row)
  BY <1>2 DEF Stamp
<1>3. QED
  BY <1>1, <1>2

LEMMA AdvanceTerms ==
  ASSUME TypeOK, Terms, NEW h \in Handler, Advance(h)
  PROVE  Terms'
<1> DEFINE l == handler[h]
           m == handler'[h]
           Rows == \A o \in Org : org'[o].state # "absent" =>
                     \/ <<o, org'[o].until>> \in bought'
                     \/ org[o].state # "absent" /\ org'[o].until = org[o].until
           Others == \A g \in Handler \ {h} : handler'[g] = handler[g]
<1>1. l \in Locals /\ l.org \in Org /\ l.paid \in BOOLEAN /\ Backed(l, bought)
  BY DEF TypeOK, Locals, Terms
<1>2. \A b : Backed(Rest, b)
  BY DEF Backed, Settled, Rest
<1>3. SUFFICES Backed(m, bought') /\ Others /\ bought \subseteq bought' /\ file' = file /\ Rows
  <2> HIDE DEF m
  <2>1. QED
    BY KeepsTerms DEF m
<1>4. CASE \/ CreateRequest(h) \/ DeleteRequest(h) \/ Deny(h) \/ CloseUpgrade(h) \/ LapseCode(h)
           \/ GiftCommit(h) \/ NoteAdjustment(h)
  BY <1>2, <1>4, DoneFields DEF CreateRequest, DeleteRequest, Deny, CloseUpgrade, LapseCode, GiftCommit,
         NoteAdjustment
<1>5. CASE Approve(h)
  <2> DEFINE up == [l EXCEPT !.pc = "apply", !.org = code[l.code].org, !.row = org[code[l.code].org].row]
  <2>1. bought' = bought /\ org' = org /\ file' = file
    BY <1>5 DEF Approve
  <2>2. up.pc = "apply"
    BY <1>1 DEF Locals
  <2>3. Goto(h, up) \/ Done(h)
    BY <1>5 DEF Approve
  <2> HIDE DEF up
  <2>4. (m = up \/ m = Rest) /\ Others
    BY <2>3, OneMoves, DoneFields
  <2>5. QED
    BY <1>2, <2>1, <2>2, <2>4 DEF Backed, Settled
<1>6. CASE ApplyUpgrade(h)
  <2>1. bought \subseteq bought' /\ Rows
    BY <1>1, <1>6, StampTerms DEF ApplyUpgrade
  <2>2. (m.pc = "applied" \/ m = Rest) /\ Others
    BY <1>6, StepFields, DoneFields DEF ApplyUpgrade
  <2>3. QED
    BY <1>2, <1>6, <2>1, <2>2 DEF ApplyUpgrade, Backed, Settled
<1>7. CASE Redeem(h)
  <2> DEFINE c == code[l.code]
             paid == [l EXCEPT !.pc = "coins", !.paid = TRUE, !.cost = CostOf(c.demo),
                               !.status = planStatusFor(c.demo), !.until = expiryFrom(Term)]
  <2>1. bought' = bought /\ org' = org /\ file' = file
    BY <1>7 DEF Redeem
  <2>2. paid.pc = "coins" /\ paid.paid /\ paid.cost \in Nat
    BY <1>1, DaysAndTerms DEF Locals
  <2>3. Goto(h, paid) \/ Step(h, "lapse") \/ Done(h)
    BY <1>7 DEF Redeem
  <2> HIDE DEF paid
  <2>4. (m = paid \/ m.pc = "lapse" \/ m = Rest) /\ Others
    BY <2>3, OneMoves, StepFields, DoneFields
  <2>5. QED
    BY <1>2, <2>1, <2>2, <2>4 DEF Backed, Settled
<1>8. CASE CheckCoins(h)
  <2>1. l.pc = "coins" /\ l.paid /\ l.cost \in Nat
    BY <1>1, <1>8 DEF CheckCoins, At, Backed
  <2>2. \/ Done(h)
        \/ Step(h, "found") \/ Step(h, "revive") \/ Step(h, "charge")
        \/ Step(h, "use") /\ l.cost = 0
    BY <1>1, <1>8, <2>1 DEF CheckCoins, Locals
  <2>3. Backed(m, bought) /\ Others
    BY <1>2, <2>1, <2>2, StepFields, DoneFields DEF Backed, Settled
  <2>4. QED
    BY <1>8, <2>3 DEF CheckCoins
<1>9. CASE FoundCommit(h)
  <2>1. CASE There(l.code)
    <3>1. PICK o \in Org : org' = [org EXCEPT ![o] = NewRow([l EXCEPT !.org = o])] /\ Buy(o, l.until)
      BY <1>9, <2>1 DEF FoundCommit
    <3> DEFINE new == NewRow([l EXCEPT !.org = o])
    <3>2. new.until = l.until
      BY <1>1 DEF NewRow, Locals
    <3> HIDE DEF new
    <3>3. Rows /\ bought \subseteq bought'
      BY <3>1, <3>2 DEF TypeOK, Buy, new
    <3>4. QED
      BY <1>2, <1>9, <3>3, DoneFields DEF FoundCommit
  <2>2. CASE ~There(l.code)
    BY <1>2, <1>9, <2>2, DoneFields DEF FoundCommit
  <2>3. QED
    BY <2>1, <2>2
<1>10. CASE Charge(h)
  <2>1. bought' = bought \cup {<<l.org, l.until>>} /\ org' = org /\ file' = file
    BY <1>10 DEF Charge, Buy
  <2>2. m.pc = "record" /\ m.org = l.org /\ m.until = l.until /\ Others
    BY <1>10, StepFields DEF Charge
  <2>3. QED
    BY <2>1, <2>2 DEF Backed
<1>11. CASE Record(h)
  <2>1. <<l.org, l.until>> \in bought
    BY <1>1, <1>11 DEF Record, At, Backed, Settled
  <2>2. m.pc = "use" /\ m.org = l.org /\ m.until = l.until /\ Others
    BY <1>11, StepFields DEF Record
  <2>3. QED
    BY <1>11, <2>1, <2>2 DEF Backed, Record
<1>12. CASE UseCode(h)
  <2>1. CASE There(l.code)
    <3>1. bought' = IF l.cost = 0 THEN bought \cup {<<l.org, l.until>>} ELSE bought
      BY <1>12, <2>1 DEF UseCode
    <3>2. <<l.org, l.until>> \in bought' /\ bought \subseteq bought'
      BY <1>1, <1>12, <3>1 DEF UseCode, At, Backed, Settled
    <3>3. m.pc = "restore" /\ m.org = l.org /\ m.until = l.until /\ Others
      BY <1>12, <2>1, StepFields DEF UseCode
    <3>4. QED
      BY <1>12, <3>2, <3>3 DEF Backed, UseCode
  <2>2. CASE ~There(l.code)
    BY <1>2, <1>12, <2>2, DoneFields DEF UseCode
  <2>3. QED
    BY <2>1, <2>2
<1>13. CASE Restore(h)
  <2> DEFINE row == Restored(org[l.org], l)
  <2>1. l.paid => <<l.org, l.until>> \in bought
    BY <1>1, <1>13 DEF Restore, At, Backed, Settled
  <2>2. row.until = IF l.paid THEN l.until ELSE org[l.org].until
    BY <1>1 DEF Restored, TypeOK, OrgRow
  <2>3. org' = IF SameRow(l.org, l.row) THEN [org EXCEPT ![l.org] = row] ELSE org
    BY <1>13 DEF Restore
  <2> HIDE DEF row
  <2>4. Rows
    BY <1>1, <1>13, <2>1, <2>2, <2>3 DEF Restore, TypeOK, SameRow
  <2>5. QED
    BY <1>2, <1>13, <2>4, DoneFields DEF Restore
<1>14. CASE PurgeRetained(h)
  <2> DEFINE claim == [status |-> l.status, until |-> l.until]
  <2>1. <<l.org, l.until>> \in bought
    BY <1>1, <1>14 DEF PurgeRetained, At, Backed, Settled
  <2>2. Gate(l, claim).pc \in {"revive", "redeem"} /\ Gate(l, claim).org = l.org /\ Gate(l, claim).until = l.until
    BY <1>1 DEF Gate, Locals
  <2>3. Goto(h, Gate(l, claim)) \/ Done(h)
    BY <1>14 DEF PurgeRetained
  <2> HIDE DEF claim
  <2>4. (m = Gate(l, claim) \/ m = Rest) /\ Others
    BY <2>3, OneMoves, DoneFields
  <2>5. Rows
    BY <1>1, <1>14 DEF PurgeRetained, Purged, NoOrg, TypeOK
  <2>6. QED
    BY <1>2, <1>14, <2>1, <2>2, <2>4, <2>5 DEF PurgeRetained, Backed, Settled
<1>15. CASE ReviveCommit(h)
  <2> DEFINE new == NewRow(l)
  <2>1. ~l.paid => <<l.org, l.until>> \in bought
    BY <1>1, <1>15 DEF ReviveCommit, At, Backed, Settled
  <2>2. new.until = l.until
    BY DEF NewRow
  <2>3. \/ org' = [org EXCEPT ![l.org] = new] /\ IF l.paid THEN Buy(l.org, l.until) ELSE bought' = bought
        \/ org' = org /\ bought' = bought
    BY <1>15 DEF ReviveCommit
  <2> HIDE DEF new
  <2>4. Rows /\ bought \subseteq bought'
    BY <1>1, <2>1, <2>2, <2>3 DEF TypeOK, Buy
  <2>5. QED
    BY <1>2, <1>15, <2>4, DoneFields DEF ReviveCommit
<1>16. CASE AdjustCommit(h)
  <2>1. m.pc = "note" /\ Others
    BY <1>16, StepFields DEF AdjustCommit
  <2>2. QED
    BY <1>16, <2>1 DEF AdjustCommit, Backed, Settled
<1>17. QED
  BY <1>4, <1>5, <1>6, <1>7, <1>8, <1>9, <1>10, <1>11, <1>12, <1>13, <1>14, <1>15, <1>16 DEF Advance

LEMMA RequestTerms ==
  ASSUME TypeOK, Terms, NEW h \in Handler
  PROVE  /\ \A kind \in Kind, o \in Founded, demo \in BOOLEAN : FileRequest(h, kind, o, demo) => Terms'
         /\ \A c \in Code : Drop(h, c) \/ Decide(h, c) \/ Found(h, c) => Terms'
         /\ \A o \in Org, c \in Code : Undelete(h, o, c) => Terms'
         /\ \A d \in Int : Gift(h, d) \/ Adjust(h, d) => Terms'
         /\ \A claim \in file, c \in Code : Revive(h, claim, c) => Terms'
<1>1. ASSUME NEW l, Begin(h, l), Backed(l, bought),
             UNCHANGED <<now, coins, ledger, code, org, file, nightly, bought>>
      PROVE  Terms'
  <2>1. handler'[h] = l /\ \A g \in Handler \ {h} : handler'[g] = handler[g]
    BY <1>1, OneMoves DEF Begin
  <2>2. QED
    BY <1>1, <2>1, KeepsTerms
<1>2. ASSUME NEW kind \in Kind, NEW o \in Founded, NEW demo \in BOOLEAN, FileRequest(h, kind, o, demo)
      PROVE  Terms'
  <2>1. Backed([Rest EXCEPT !.pc = "file", !.kind = kind, !.org = o, !.demo = demo], bought)
    BY DEF Rest, Backed, Settled
  <2>2. QED
    BY <1>1, <1>2, <2>1 DEF FileRequest
<1>3. ASSUME NEW c \in Code, Drop(h, c) \/ Decide(h, c) \/ Found(h, c) PROVE Terms'
  <2>1. /\ Backed([Rest EXCEPT !.pc = "clear", !.code = c], bought)
        /\ Backed([Rest EXCEPT !.pc = "decide", !.code = c], bought)
        /\ Backed([Rest EXCEPT !.pc = "redeem", !.then = "found", !.code = c], bought)
    BY DEF Rest, Backed, Settled
  <2>2. QED
    BY <1>1, <1>3, <2>1 DEF Drop, Decide, Found
<1>4. ASSUME NEW o \in Org, NEW c \in Code, Undelete(h, o, c) PROVE Terms'
  <2>1. \A pc \in {"redeem", "restore"} :
          Backed([Rest EXCEPT !.pc = pc, !.then = "restore", !.org = o, !.row = org[o].row, !.code = c], bought)
    BY DEF Rest, Backed, Settled
  <2>2. QED
    BY <1>1, <1>4, <2>1 DEF Undelete
<1>5. ASSUME NEW d \in Int, Gift(h, d) \/ Adjust(h, d) PROVE Terms'
  <2>1. /\ Backed([Rest EXCEPT !.pc = "gift", !.was = coins, !.cost = -d], bought)
        /\ Backed([Rest EXCEPT !.pc = "adjust", !.was = coins, !.cost = -Moved(coins, d)], bought)
    BY DEF Rest, Backed, Settled
  <2>2. QED
    BY <1>1, <1>5, <2>1 DEF Gift, Adjust
<1>6. ASSUME NEW claim \in file, NEW c \in Code, Revive(h, claim, c) PROVE Terms'
  <2> DEFINE l == [Rest EXCEPT !.then = "revive", !.org = claim.org, !.code = c, !.row = org[claim.org].row]
             p == [l EXCEPT !.pc = "purge", !.status = claim.status, !.until = claim.until]
  <2>1. <<claim.org, claim.until>> \in bought
    BY DEF Terms, TermsWereBought
  <2>2. p.pc = "purge" /\ p.org = claim.org /\ p.until = claim.until
    BY DEF Rest
  <2>3. /\ Gate(l, claim).pc \in {"revive", "redeem"}
        /\ Gate(l, claim).pc = "revive" => Gate(l, claim).org = claim.org /\ Gate(l, claim).until = claim.until
    BY DEF Gate, Rest
  <2>4. Begin(h, Gate(l, claim)) \/ Begin(h, p)
    BY <1>6 DEF Revive
  <2>5. UNCHANGED <<now, coins, ledger, code, org, file, nightly, bought>>
    BY <1>6 DEF Revive
  <2> HIDE DEF l, p
  <2>6. Backed(p, bought) /\ Backed(Gate(l, claim), bought)
    BY <2>1, <2>2, <2>3 DEF Backed, Settled
  <2>7. QED
    BY <1>1, <2>4, <2>5, <2>6
<1>7. QED
  BY <1>2, <1>3, <1>4, <1>5, <1>6

LEMMA RestTerms ==
  ASSUME TypeOK, Terms
  PROVE  /\ \A o \in Founded : ExportMain(o) \/ DeleteOrg(o) \/ PurgeNow(o) => Terms'
         /\ \A o \in Founded : \A days \in {0, Term} : GrantPlan(o, days) => Terms'
         /\ Nightly \/ Midnight \/ UNCHANGED vars => Terms'
<1> DEFINE Rows == \A o \in Org : org'[o].state # "absent" =>
                     \/ <<o, org'[o].until>> \in bought'
                     \/ org[o].state # "absent" /\ org'[o].until = org[o].until
<1>1. ASSUME handler' = handler, bought \subseteq bought', Rows,
             \A claim \in file' : claim \in file \/ <<claim.org, claim.until>> \in bought
      PROVE  Terms'
  BY <1>1 DEF Terms, TermsWereBought, Backed
<1>2. \A o \in Org : Purged(o).state = "absent"
  BY DEF Purged, NoOrg
<1>3. ASSUME NEW o \in Founded, ExportMain(o) PROVE Terms'
  <2> DEFINE claim == [org |-> o, status |-> org[o].status, until |-> org[o].until]
  <2>1. <<claim.org, claim.until>> \in bought
    BY <1>3 DEF ExportMain, Terms, TermsWereBought
  <2>2. file' = file \cup {claim} /\ org' = org /\ bought' = bought /\ handler' = handler
    BY <1>3 DEF ExportMain
  <2> HIDE DEF claim
  <2>3. QED
    BY <1>1, <2>1, <2>2
<1>4. ASSUME NEW o \in Founded, DeleteOrg(o) \/ PurgeNow(o) PROVE Terms'
  <2>1. Rows
    BY <1>2, <1>4 DEF DeleteOrg, PurgeNow, TypeOK, OrgRow
  <2>2. QED
    BY <1>1, <1>4, <2>1 DEF DeleteOrg, PurgeNow
<1>5. ASSUME NEW o \in Founded, NEW days \in {0, Term}, GrantPlan(o, days) PROVE Terms'
  <2>1. bought \subseteq bought' /\ Rows
    BY <1>5, StampTerms DEF GrantPlan
  <2>2. QED
    BY <1>1, <1>5, <2>1 DEF GrantPlan
<1>6. CASE Nightly
  <2>1. nightly.todo \subseteq Org \X Nat
    BY DEF TypeOK, NightlyLocals
  <2>2. \/ org' = org
        \/ \E x \in nightly.todo : SameRow(x[1], x[2]) /\ org' = [org EXCEPT ![x[1]].status = "EXPIRED"]
        \/ \E x \in nightly.todo : org' = [org EXCEPT ![x[1]] = Purged(x[1])]
    BY <1>6 DEF Nightly, ListLapsed, MarkLapsed, ListDoomed, PurgeDoomed
  <2>3. Rows
    <3>1. ASSUME NEW x \in nightly.todo, SameRow(x[1], x[2]), org' = [org EXCEPT ![x[1]].status = "EXPIRED"]
          PROVE  Rows
      BY <2>1, <3>1 DEF TypeOK, OrgRow
    <3>2. ASSUME NEW x \in nightly.todo, org' = [org EXCEPT ![x[1]] = Purged(x[1])] PROVE Rows
      BY <1>2, <2>1, <3>2 DEF TypeOK
    <3>3. QED
      BY <2>2, <3>1, <3>2
  <2>4. QED
    BY <1>1, <1>6, <2>3 DEF Nightly, ListLapsed, MarkLapsed, ListDoomed, PurgeDoomed
<1>7. CASE Midnight \/ UNCHANGED vars
  BY <1>1, <1>7 DEF Midnight, vars
<1>8. QED
  BY <1>3, <1>4, <1>5, <1>6, <1>7

LEMMA InitTerms == Init => Terms
  BY DEF Init, Terms, TermsWereBought, Backed, Settled, Rest, NoOrg

LEMMA StepTerms == TypeOK /\ Terms /\ [Next]_vars => Terms'
<1> SUFFICES ASSUME TypeOK, Terms, [Next]_vars PROVE Terms'
  OBVIOUS
<1>1. \A d \in {-Price, Price} : d \in Int
  OBVIOUS
<1>2. QED
  BY <1>1, RequestTerms, AdvanceTerms, RestTerms DEF Next

(* Every term an organization has, and every term in a .main file, was         *)
(* conferred on that organization by a paid code or by staff, however           *)
(* deletions, restores, exports, revivals and nightly marks interleave, and     *)
(* also when staff's changes of coins and the nightly job overlap requests      *)
(* (plan-sign.ts, orgs/plan.ts, vault-files/routes.ts).                        *)
THEOREM TermsAreBought == Spec => []TermsWereBought
<1>1. TypeOK /\ Terms /\ [Next]_vars => Terms'
  BY StepTerms
<1>2. Terms => TermsWereBought
  BY DEF Terms
<1>3. QED
  BY <1>1, <1>2, InitTerms, TypeCorrect, PTL DEF Spec

-----------------------------------------------------------------------------
(* The ledger.  Staff's change of coins writes a balance computed from an      *)
(* earlier read; what is kept apart of other requests computes it from the     *)
(* balance as it is.                                                       *)

Balance ==
  /\ coins = ledger - Total(Costs, Open)
  /\ \A h \in Handler : handler[h].pc \in Coining => \A g \in Handler \ {h} : At(g, "rest")
  /\ \A h \in Handler : handler[h].pc \in {"gift", "adjust"} => handler[h].was = coins

\* One request's row is still to be written, or has been, or nothing is open of it.
LEMMA OpenMoves ==
  ASSUME TypeOK, TypeOK', NEW h \in Handler, \A g \in Handler \ {h} : handler'[g] = handler[g]
  PROVE  /\ Total(Costs, Open) \in Int /\ Total(Costs', Open') \in Int
         /\ h \notin Open /\ h \notin Open' => Total(Costs', Open') = Total(Costs, Open)
         /\ h \notin Open /\ h \in Open' => Total(Costs', Open') = handler'[h].cost + Total(Costs, Open)
         /\ h \in Open /\ h \notin Open' => Total(Costs, Open) = handler[h].cost + Total(Costs', Open')
<1>1. /\ Open \subseteq Handler /\ Open' \subseteq Handler
      /\ \A S \in SUBSET Handler : IsFiniteSet(S)
  BY FS_Subset DEF Open
<1>2. \A g \in Handler : /\ Costs[g] = handler[g].cost /\ Costs[g] \in Int
                         /\ Costs'[g] = handler'[g].cost /\ Costs'[g] \in Int
  BY DEF Costs, TypeOK, Locals
<1>3. \A g \in Handler \ {h} : Costs'[g] = Costs[g] /\ (g \in Open' <=> g \in Open)
  BY <1>2 DEF Open
<1>4. Total(Costs, Open) \in Int /\ Total(Costs', Open') \in Int
  BY <1>1, <1>2, TotalInt
<1>5. Open \ {h} = Open' \ {h} /\ Open \ {h} \subseteq Handler
  BY <1>1, <1>3
<1>6. Total(Costs', Open' \ {h}) = Total(Costs, Open \ {h})
  <2>1. \A g \in Open \ {h} : Costs'[g] = Costs[g]
    BY <1>1, <1>3
  <2>2. IsFiniteSet(Open \ {h}) /\ Open' \ {h} = Open \ {h}
    BY <1>1, <1>5
  <2>3. Total(Costs', Open \ {h}) = Total(Costs, Open \ {h})
    BY <2>1, <2>2, TotalSame
  <2>4. QED
    BY <2>2, <2>3
<1>7. h \in Open => Total(Costs, Open) = handler[h].cost + Total(Costs, Open \ {h})
  <2>1. IsFiniteSet(Open) /\ \A g \in Open : Costs[g] \in Int
    BY <1>1, <1>2
  <2>2. h \in Open => Total(Costs, Open) = Costs[h] + Total(Costs, Open \ {h})
    BY <2>1, TotalRemove
  <2>3. QED
    BY <1>2, <2>2
<1>8. h \in Open' => Total(Costs', Open') = handler'[h].cost + Total(Costs', Open' \ {h})
  <2>1. IsFiniteSet(Open') /\ \A g \in Open' : Costs'[g] \in Int
    BY <1>1, <1>2
  <2>2. h \in Open' => Total(Costs', Open') = Costs'[h] + Total(Costs', Open' \ {h})
    BY <2>1, TotalRemove
  <2>3. QED
    BY <1>2, <2>2
<1>9. (h \notin Open => Open \ {h} = Open) /\ (h \notin Open' => Open' \ {h} = Open')
  OBVIOUS
<1>10. QED
  BY <1>4, <1>6, <1>7, <1>8, <1>9

\* What a request's step does to the balance and to the ledger.
LEMMA AdvanceMoney ==
  ASSUME TypeOK, Balance, NEW h \in Handler, Advance(h)
  PROVE  LET l == handler[h]  m == handler'[h]  waiting == {"record", "note"} IN
         /\ l.pc # "rest" /\ m.pc \notin {"gift", "adjust"} /\ (m.pc = "note" => l.pc = "adjust")
         /\ \A g \in Handler \ {h} : handler'[g] = handler[g]
         /\ \/ /\ l.pc \notin waiting /\ m.pc \notin waiting
               /\ \E d \in Int : coins' = coins - d /\ ledger' = ledger - d
            \/ /\ l.pc \notin waiting /\ m.pc \in waiting
               /\ coins' = coins - m.cost /\ ledger' = ledger
            \/ /\ l.pc \in waiting /\ m.pc \notin waiting
               /\ coins' = coins /\ ledger' = ledger - l.cost
<1> DEFINE l == handler[h]
           m == handler'[h]
           Others == \A g \in Handler \ {h} : handler'[g] = handler[g]
<1>1. l \in Locals /\ l.cost \in Int /\ coins \in Int /\ ledger \in Int
  BY DEF TypeOK, Locals
<1>2. coins' = coins /\ ledger' = ledger => \E d \in Int : coins' = coins - d /\ ledger' = ledger - d
  BY <1>1
<1>3. CASE CreateRequest(h) \/ DeleteRequest(h) \/ Deny(h) \/ CloseUpgrade(h) \/ LapseCode(h) \/ Restore(h)
  BY <1>2, <1>3, DoneFields DEF CreateRequest, DeleteRequest, Deny, CloseUpgrade, LapseCode, Restore, At
<1>4. CASE Approve(h)
  <2> DEFINE up == [l EXCEPT !.pc = "apply", !.org = code[l.code].org, !.row = org[code[l.code].org].row]
  <2>1. up.pc = "apply"
    BY <1>1 DEF Locals
  <2>2. Goto(h, up) \/ Done(h)
    BY <1>4 DEF Approve
  <2> HIDE DEF up
  <2>3. m.pc \in {"apply", "rest"} /\ Others
    BY <2>1, <2>2, OneMoves, DoneFields
  <2>4. QED
    BY <1>2, <1>4, <2>3 DEF Approve, At
<1>5. CASE ApplyUpgrade(h) \/ UseCode(h)
  <2>1. m.pc \in {"applied", "restore", "rest"} /\ Others
    BY <1>5, StepFields, DoneFields DEF ApplyUpgrade, UseCode
  <2>2. QED
    BY <1>2, <1>5, <2>1 DEF ApplyUpgrade, UseCode, At
<1>6. CASE Redeem(h)
  <2> DEFINE c == code[l.code]
             paid == [l EXCEPT !.pc = "coins", !.paid = TRUE, !.cost = CostOf(c.demo),
                               !.status = planStatusFor(c.demo), !.until = expiryFrom(Term)]
  <2>1. paid.pc = "coins"
    BY <1>1 DEF Locals
  <2>2. Goto(h, paid) \/ Step(h, "lapse") \/ Done(h)
    BY <1>6 DEF Redeem
  <2> HIDE DEF paid
  <2>3. m.pc \in {"coins", "lapse", "rest"} /\ Others
    BY <2>1, <2>2, OneMoves, StepFields, DoneFields
  <2>4. QED
    BY <1>2, <1>6, <2>3 DEF Redeem, At
<1>7. CASE CheckCoins(h)
  <2>1. Done(h) \/ \E pc \in {"found", "revive", "charge", "use"} : Step(h, pc)
    BY <1>1, <1>7 DEF CheckCoins, Locals
  <2>2. m.pc \in {"found", "revive", "charge", "use", "rest"} /\ Others
    BY <2>1, StepFields, DoneFields
  <2>3. QED
    BY <1>2, <1>7, <2>2 DEF CheckCoins, At
<1>8. CASE FoundCommit(h) \/ ReviveCommit(h)
  <2>1. \E d \in Int : coins' = coins - d /\ ledger' = ledger - d
    BY <1>1, <1>2, <1>8 DEF FoundCommit, ReviveCommit, Settle
  <2>2. QED
    BY <1>8, <2>1, DoneFields DEF FoundCommit, ReviveCommit, At
<1>9. CASE Charge(h)
  BY <1>9, StepFields DEF Charge, At
<1>10. CASE Record(h)
  BY <1>10, StepFields DEF Record, At
<1>11. CASE PurgeRetained(h)
  <2> DEFINE claim == [status |-> l.status, until |-> l.until]
  <2>1. Gate(l, claim).pc \in {"revive", "redeem"}
    BY <1>1 DEF Gate, Locals
  <2>2. Goto(h, Gate(l, claim)) \/ Done(h)
    BY <1>11 DEF PurgeRetained
  <2> HIDE DEF claim
  <2>3. m.pc \in {"revive", "redeem", "rest"} /\ Others
    BY <2>1, <2>2, OneMoves, DoneFields
  <2>4. QED
    BY <1>2, <1>11, <2>3 DEF PurgeRetained, At
<1>12. CASE GiftCommit(h)
  <2>1. l.pc = "gift" /\ l.was = coins
    BY <1>12 DEF GiftCommit, At, Balance
  <2>2. QED
    BY <1>1, <1>12, <2>1, DoneFields DEF GiftCommit
<1>13. CASE AdjustCommit(h)
  <2>1. l.pc = "adjust" /\ l.was = coins
    BY <1>13 DEF AdjustCommit, At, Balance
  <2>2. QED
    BY <1>13, <2>1, StepFields DEF AdjustCommit
<1>14. CASE NoteAdjustment(h)
  BY <1>14, DoneFields DEF NoteAdjustment, At
<1>15. QED
  BY <1>3, <1>4, <1>5, <1>6, <1>7, <1>8, <1>9, <1>10, <1>11, <1>12, <1>13, <1>14 DEF Advance

LEMMA AdvanceBalance ==
  ASSUME TypeOK, TypeOK', Balance, NEW h \in Handler, Advance(h)
  PROVE  Balance'
<1> DEFINE l == handler[h]
           m == handler'[h]
<1>1. /\ l.pc # "rest" /\ m.pc \notin {"gift", "adjust"} /\ (m.pc = "note" => l.pc = "adjust")
      /\ \A g \in Handler \ {h} : handler'[g] = handler[g]
      /\ \/ /\ h \notin Open /\ h \notin Open'
            /\ \E d \in Int : coins' = coins - d /\ ledger' = ledger - d
         \/ /\ h \notin Open /\ h \in Open'
            /\ coins' = coins - m.cost /\ ledger' = ledger
         \/ /\ h \in Open /\ h \notin Open'
            /\ coins' = coins /\ ledger' = ledger - l.cost
  BY AdvanceMoney DEF Open
<1>2. \A g \in Handler \ {h} : handler[g].pc \notin Coining
  BY <1>1 DEF Balance, At
<1>3. \A g \in Handler : handler'[g].pc \notin {"gift", "adjust"}
  BY <1>1, <1>2 DEF Coining
<1>4. ASSUME NEW g \in Handler, handler'[g].pc \in Coining, NEW k \in Handler \ {g}
      PROVE  handler'[k].pc = "rest"
  <2>1. g = h /\ l.pc = "adjust"
    BY <1>1, <1>2, <1>3, <1>4 DEF Coining
  <2>2. QED
    BY <1>1, <1>4, <2>1 DEF Balance, Coining, At
<1>5. coins' = ledger' - Total(Costs', Open')
  <2>1. coins = ledger - Total(Costs, Open) /\ coins \in Int /\ ledger \in Int /\ m.cost \in Int /\ l.cost \in Int
    BY DEF Balance, TypeOK, Locals
  <2> HIDE DEF l, m
  <2>2. QED
    BY <1>1, <2>1, OpenMoves DEF l, m
<1>6. QED
  BY <1>3, <1>4, <1>5 DEF Balance, At

\* A request that arrives finds no change of coins in flight, and one that changes
\* coins finds no request at all.
LEMMA BeginBalance ==
  ASSUME "overlap" \notin Offered, TypeOK, TypeOK', Balance, NEW h \in Handler, NEW l, Begin(h, l),
         UNCHANGED <<now, coins, ledger, code, org, file, nightly, bought>>,
         l.pc \notin {"record", "note"}, l.pc \in {"gift", "adjust"} => Apart /\ l.was = coins
  PROVE  Balance'
<1>1. handler'[h] = l /\ \A g \in Handler \ {h} : handler'[g] = handler[g]
  BY OneMoves DEF Begin
<1>2. At(h, "rest") /\ \A g \in Handler : handler[g].pc \notin Coining
  BY DEF Begin, MayStart
<1>3. Total(Costs', Open') = Total(Costs, Open)
  BY <1>1, <1>2, OpenMoves DEF Open, At
<1>4. ASSUME NEW g \in Handler, handler'[g].pc \in Coining
      PROVE  /\ \A k \in Handler \ {g} : handler'[k].pc = "rest"
             /\ handler'[g].pc \in {"gift", "adjust"} => handler'[g].was = coins
  <2>1. g = h /\ l.pc \in {"gift", "adjust"}
    BY <1>1, <1>2, <1>4 DEF Coining
  <2>2. QED
    BY <1>1, <2>1 DEF Apart, At
<1>5. QED
  BY <1>3, <1>4 DEF Balance, At, Coining

LEMMA RequestBalance ==
  ASSUME "overlap" \notin Offered, TypeOK, TypeOK', Balance, NEW h \in Handler
  PROVE  /\ \A kind \in Kind, o \in Founded, demo \in BOOLEAN : FileRequest(h, kind, o, demo) => Balance'
         /\ \A c \in Code : Drop(h, c) \/ Decide(h, c) \/ Found(h, c) => Balance'
         /\ \A o \in Org, c \in Code : Undelete(h, o, c) => Balance'
         /\ \A d \in Int : Gift(h, d) \/ Adjust(h, d) => Balance'
         /\ \A claim \in file, c \in Code : Revive(h, claim, c) => Balance'
<1>1. ASSUME NEW kind \in Kind, NEW o \in Founded, NEW demo \in BOOLEAN, FileRequest(h, kind, o, demo)
      PROVE  Balance'
  <2>1. [Rest EXCEPT !.pc = "file", !.kind = kind, !.org = o, !.demo = demo].pc = "file"
    BY DEF Rest
  <2>2. QED
    BY <1>1, <2>1, BeginBalance DEF FileRequest
<1>2. ASSUME NEW c \in Code, Drop(h, c) \/ Decide(h, c) \/ Found(h, c) PROVE Balance'
  <2>1. /\ [Rest EXCEPT !.pc = "clear", !.code = c].pc = "clear"
        /\ [Rest EXCEPT !.pc = "decide", !.code = c].pc = "decide"
        /\ [Rest EXCEPT !.pc = "redeem", !.then = "found", !.code = c].pc = "redeem"
    BY DEF Rest
  <2>2. QED
    BY <1>2, <2>1, BeginBalance DEF Drop, Decide, Found
<1>3. ASSUME NEW o \in Org, NEW c \in Code, Undelete(h, o, c) PROVE Balance'
  <2> DEFINE l(pc) == [Rest EXCEPT !.pc = pc, !.then = "restore", !.org = o, !.row = org[o].row, !.code = c]
  <2>1. l("redeem").pc = "redeem" /\ l("restore").pc = "restore"
    BY DEF Rest
  <2>2. /\ Begin(h, l("redeem")) \/ Begin(h, l("restore"))
        /\ UNCHANGED <<now, coins, ledger, code, org, file, nightly, bought>>
    BY <1>3 DEF Undelete
  <2> HIDE DEF l
  <2>3. QED
    BY <2>1, <2>2, BeginBalance
<1>4. ASSUME NEW d \in Int, Gift(h, d) \/ Adjust(h, d) PROVE Balance'
  <2> DEFINE gift == [Rest EXCEPT !.pc = "gift", !.was = coins, !.cost = -d]
             adjust == [Rest EXCEPT !.pc = "adjust", !.was = coins, !.cost = -Moved(coins, d)]
  <2>1. gift.pc = "gift" /\ gift.was = coins /\ adjust.pc = "adjust" /\ adjust.was = coins
    BY DEF Rest
  <2>2. /\ Apart
        /\ Begin(h, gift) \/ Begin(h, adjust)
        /\ UNCHANGED <<now, coins, ledger, code, org, file, nightly, bought>>
    BY <1>4 DEF Gift, Adjust
  <2> HIDE DEF gift, adjust
  <2>3. QED
    BY <2>1, <2>2, BeginBalance
<1>5. ASSUME NEW claim \in file, NEW c \in Code, Revive(h, claim, c) PROVE Balance'
  <2> DEFINE l == [Rest EXCEPT !.then = "revive", !.org = claim.org, !.code = c, !.row = org[claim.org].row]
             p == [l EXCEPT !.pc = "purge", !.status = claim.status, !.until = claim.until]
             g == Gate(l, claim)
  <2>1. p.pc = "purge" /\ g.pc \in {"revive", "redeem"}
    BY DEF Rest, Gate
  <2>2. /\ Begin(h, g) \/ Begin(h, p)
        /\ UNCHANGED <<now, coins, ledger, code, org, file, nightly, bought>>
    BY <1>5 DEF Revive
  <2> HIDE DEF p, g
  <2>3. QED
    BY <2>1, <2>2, BeginBalance
<1>6. QED
  BY <1>1, <1>2, <1>3, <1>4, <1>5

LEMMA StepBalance == "overlap" \notin Offered /\ TypeOK /\ Balance /\ [Next]_vars => Balance'
<1> SUFFICES ASSUME "overlap" \notin Offered, TypeOK, Balance, [Next]_vars PROVE Balance'
  OBVIOUS
<1>1. TypeOK'
  BY StepTypes
<1>2. \A d \in {-Price, Price} : d \in Int
  OBVIOUS
<1>3. ASSUME UNCHANGED <<coins, ledger, handler>> PROVE Balance'
  <2>1. Costs' = Costs /\ Open' = Open
    BY <1>3 DEF Costs, Open
  <2>2. QED
    BY <1>3, <2>1 DEF Balance, At
<1>4. ASSUME NEW o \in Founded,
             \/ ExportMain(o) \/ DeleteOrg(o) \/ PurgeNow(o)
             \/ \E days \in {0, Term} : GrantPlan(o, days)
      PROVE  Balance'
  BY <1>3, <1>4 DEF ExportMain, DeleteOrg, PurgeNow, GrantPlan
<1>5. CASE Nightly \/ Midnight \/ UNCHANGED vars
  BY <1>3, <1>5 DEF Nightly, ListLapsed, MarkLapsed, ListDoomed, PurgeDoomed, Midnight, vars
<1>6. QED
  BY <1>1, <1>2, <1>4, <1>5, RequestBalance, AdvanceBalance DEF Next

LEMMA InitBalance == Init => Balance
<1> SUFFICES ASSUME Init PROVE Balance
  OBVIOUS
<1>1. \A h \in Handler : handler[h].pc = "rest"
  BY DEF Init, Rest
<1>2. Open = {}
  BY <1>1 DEF Open
<1>3. Total(Costs, Open) = 0
  BY <1>2, FS_EmptySet, TotalStep
<1>4. QED
  BY <1>1, <1>3 DEF Init, Balance, Coining

(* The rows of the ledger add up to the balance but for the charges and        *)
(* adjustments whose row is just being written, for any number of requests       *)
(* redeeming, restoring and reviving at once, also when they spend one code      *)
(* twice; the sum is over whatever requests are in flight.  Staff's changes of   *)
(* coins keep apart of other requests (orgs/plan.ts, platform/routes.ts).       *)
THEOREM LedgerBalances == "overlap" \notin Offered => (Spec => []LedgerExplainsBalance)
<1> SUFFICES ASSUME "overlap" \notin Offered PROVE Spec => []LedgerExplainsBalance
  OBVIOUS
<1>1. TypeOK /\ Balance /\ [Next]_vars => Balance'
  BY StepBalance
<1>2. Balance => LedgerExplainsBalance
  BY UnrecordedIsTotal DEF Balance, LedgerExplainsBalance
<1>3. QED
  BY <1>1, <1>2, InitBalance, TypeCorrect, PTL DEF Spec

-----------------------------------------------------------------------------
(* Coming back.  What a request has read of a term is as good when it writes:   *)
(* midnight waits for it, the nightly job keeps apart of it, and a row it knows  *)
(* by number and turn is the one it read, on terms no worse than then.         *)

Running(x, day) == x.until >= day /\ x.status # "EXPIRED"
\* What the locals of a request say of the rows.
Fit(l, day, rows) ==
  /\ l.pc # "rest" => l.row <= rows[l.org].row
  /\ l.pc \in {"coins", "charge", "record", "use", "found", "revive"} => Running(l, day)
  /\ l.pc \in {"coins", "charge", "record", "use"} => l.paid
  /\ l.pc = "restore" =>
       IF l.paid THEN Running(l, day)
       ELSE rows[l.org].state # "absent" /\ rows[l.org].row = l.row => Running(rows[l.org], day)
ReadStands ==
  /\ nightly.pc # "rest" => \A h \in Handler : At(h, "rest")
  /\ \A h \in Handler : Fit(handler[h], now, org)

\* A row is succeeded by another turn, or stays and does not lapse.
Stays(old, new, day) ==
  /\ old.row <= new.row
  /\ new.state # "absent" /\ new.row = old.row =>
       old.state # "absent" /\ (Running(old, day) => Running(new, day))
\* A row that is live and was not has terms that are running.
Returns(old, new, day) == old.state # "live" /\ new.state = "live" => Running(new, day)

LEMMA KeepsFit ==
  ASSUME NEW rows \in [Org -> OrgRow], NEW new \in [Org -> OrgRow], NEW day, NEW l \in Locals,
         Fit(l, day, rows), \A o \in Org : Stays(rows[o], new[o], day)
  PROVE  Fit(l, day, new)
<1> DEFINE o == l.org
           old == rows[o]
           now1 == new[o]
<1>1. o \in Org /\ l.row \in Nat
  BY DEF Locals
<1>2. old.row \in Nat /\ now1.row \in Nat /\ Stays(old, now1, day)
  BY <1>1 DEF OrgRow
<1>3. l.pc # "rest" => l.row <= old.row
  BY DEF Fit
<1>4. l.pc = "restore" /\ ~l.paid /\ old.state # "absent" /\ old.row = l.row => Running(old, day)
  BY DEF Fit
<1>5. l.pc # "rest" => l.row <= now1.row
  BY <1>1, <1>2, <1>3 DEF Stays
<1>6. l.pc = "restore" /\ ~l.paid /\ now1.state # "absent" /\ now1.row = l.row => Running(now1, day)
  <2> HIDE DEF old, now1
  <2>1. SUFFICES ASSUME l.pc = "restore", ~l.paid, now1.state # "absent", now1.row = l.row
                 PROVE  Running(now1, day)
    OBVIOUS
  <2>2. old.row = now1.row
    BY <1>1, <1>2, <1>3, <2>1 DEF Stays
  <2>3. QED
    BY <1>2, <1>4, <2>1, <2>2 DEF Stays
<1>7. QED
  BY <1>5, <1>6 DEF Fit

\* What a request's step has to leave behind.
LEMMA KeepsRead ==
  ASSUME TypeOK, TypeOK', ReadStands, NEW h \in Handler, ~At(h, "rest") \/ nightly.pc = "rest",
         \A g \in Handler \ {h} : handler'[g] = handler[g], nightly' = nightly, now' = now,
         Fit(handler'[h], now, org'), \A o \in Org : Stays(org[o], org'[o], now)
  PROVE  ReadStands'
<1>1. nightly.pc = "rest"
  BY DEF ReadStands
<1>2. ASSUME NEW g \in Handler PROVE Fit(handler'[g], now, org')
  <2>1. CASE g = h
    BY <2>1
  <2>2. CASE g # h
    BY <2>2, KeepsFit DEF ReadStands, TypeOK
  <2>3. QED
    BY <2>1, <2>2
<1>3. QED
  BY <1>1, <1>2 DEF ReadStands

\* An expiry that is stamped lies ahead.
LEMMA StampStays ==
  ASSUME TypeOK, NEW o \in Org, NEW row, NEW days \in Nat, Stamp(o, row, days)
  PROVE  \A x \in Org : Stays(org[x], org'[x], now) /\ Returns(org[x], org'[x], now)
<1>1. \A x \in Org : Stays(org[x], org[x], now) /\ Returns(org[x], org[x], now)
  BY DEF Stays, Returns, TypeOK, OrgRow
<1>2. CASE SameRow(o, row)
  <2> DEFINE new == [org[o] EXCEPT !.status = "ACTIVE", !.until = expiryFrom(days)]
  <2>1. org' = [org EXCEPT ![o] = new]
    BY <1>2 DEF Stamp
  <2>2. /\ new.until >= now /\ new.status # "EXPIRED" /\ new.row = org[o].row /\ new.state = org[o].state
        /\ org[o].row \in Nat
    BY ExpiryTyped DEF TypeOK, OrgRow
  <2>3. Stays(org[o], new, now) /\ Returns(org[o], new, now)
    <3> HIDE DEF new
    <3>1. QED
      BY <1>2, <2>2 DEF Stays, Returns, Running, SameRow
  <2> HIDE DEF new
  <2>4. QED
    BY <1>1, <2>1, <2>3 DEF TypeOK
<1>3. CASE ~SameRow(o, row)
  BY <1>1, <1>3 DEF Stamp
<1>4. QED
  BY <1>2, <1>3

LEMMA AdvanceReturns ==
  ASSUME TypeOK, ReadStands, NEW h \in Handler, Advance(h)
  PROVE  /\ ~At(h, "rest") /\ nightly' = nightly /\ now' = now
         /\ \A g \in Handler \ {h} : handler'[g] = handler[g]
         /\ Fit(handler'[h], now, org')
         /\ \A o \in Org : Stays(org[o], org'[o], now) /\ Returns(org[o], org'[o], now)
<1> DEFINE l == handler[h]
           m == handler'[h]
           Others == \A g \in Handler \ {h} : handler'[g] = handler[g]
           Rows == \A o \in Org : Stays(org[o], org'[o], now) /\ Returns(org[o], org'[o], now)
<1>1. l \in Locals /\ l.org \in Org /\ l.row \in Nat /\ l.paid \in BOOLEAN /\ Fit(l, now, org)
  BY DEF TypeOK, Locals, ReadStands
<1>2. \A rows : Fit(Rest, now, rows)
  BY DEF Fit, Rest
<1>3. \A x \in Org : Stays(org[x], org[x], now) /\ Returns(org[x], org[x], now) /\ org[x].row \in Nat
  BY DEF Stays, Returns, TypeOK, OrgRow
<1>4. CASE \/ CreateRequest(h) \/ DeleteRequest(h) \/ Deny(h) \/ CloseUpgrade(h) \/ LapseCode(h)
           \/ GiftCommit(h) \/ NoteAdjustment(h)
  BY <1>2, <1>3, <1>4, DoneFields DEF CreateRequest, DeleteRequest, Deny, CloseUpgrade, LapseCode, GiftCommit,
         NoteAdjustment, At
<1>5. CASE Approve(h)
  <2> DEFINE o == code[l.code].org
             up == [l EXCEPT !.pc = "apply", !.org = o, !.row = org[o].row]
  <2>1. o \in Org
    BY <1>1 DEF TypeOK, Locals, CodeRow
  <2>2. up.pc = "apply" /\ up.org = o /\ up.row = org[o].row
    BY <1>1 DEF Locals
  <2>3. Goto(h, up) \/ Done(h)
    BY <1>5 DEF Approve
  <2> HIDE DEF up, o
  <2>4. (m = up \/ m = Rest) /\ Others
    BY <2>3, OneMoves, DoneFields
  <2>5. Fit(up, now, org)
    BY <1>3, <2>1, <2>2 DEF Fit
  <2>6. QED
    BY <1>2, <1>3, <1>5, <2>4, <2>5 DEF Approve, At
<1>6. CASE ApplyUpgrade(h)
  <2>1. Rows
    BY <1>1, <1>6, StampStays DEF ApplyUpgrade
  <2>2. ((m.pc = "applied" /\ m.org = l.org /\ m.row = l.row) \/ m = Rest) /\ Others
    BY <1>6, StepFields, DoneFields DEF ApplyUpgrade
  <2>3. org'[l.org].row \in Nat /\ l.row <= org'[l.org].row
    <3>1. org'[l.org].row = org[l.org].row
      BY <1>1, <1>6 DEF ApplyUpgrade, Stamp, TypeOK, OrgRow
    <3>2. QED
      BY <1>1, <1>3, <1>6, <3>1 DEF Fit, ApplyUpgrade, At
  <2>4. Fit(m, now, org')
    BY <1>2, <2>2, <2>3 DEF Fit
  <2>5. QED
    BY <1>6, <2>1, <2>2, <2>4 DEF ApplyUpgrade, At
<1>7. CASE Redeem(h)
  <2> DEFINE c == code[l.code]
             paid == [l EXCEPT !.pc = "coins", !.paid = TRUE, !.cost = CostOf(c.demo),
                               !.status = planStatusFor(c.demo), !.until = expiryFrom(Term)]
  <2>1. /\ paid.pc = "coins" /\ paid.paid /\ paid.status # "EXPIRED" /\ paid.until >= now
        /\ paid.org = l.org /\ paid.row = l.row
    BY <1>1, DaysAndTerms, ExpiryTyped DEF Locals, TypeOK
  <2>2. Goto(h, paid) \/ Step(h, "lapse") \/ Done(h)
    BY <1>7 DEF Redeem
  <2> HIDE DEF paid
  <2>3. (m = paid \/ (m.pc = "lapse" /\ m.org = l.org /\ m.row = l.row) \/ m = Rest) /\ Others
    BY <2>2, OneMoves, StepFields, DoneFields
  <2>4. l.row <= org[l.org].row
    BY <1>1, <1>7 DEF Fit, Redeem, At
  <2>5. Fit(m, now, org)
    BY <1>2, <2>1, <2>3, <2>4 DEF Fit, Running
  <2>6. QED
    BY <1>3, <1>7, <2>3, <2>5 DEF Redeem, At
<1>8. CASE CheckCoins(h)
  <2>1. l.pc = "coins" /\ l.paid /\ Running(l, now) /\ l.row <= org[l.org].row
    BY <1>1, <1>8 DEF CheckCoins, At, Fit
  <2>2. Done(h) \/ \E pc \in {"found", "revive", "charge", "use"} : Step(h, pc)
    BY <1>1, <1>8 DEF CheckCoins, Locals
  <2>3. Fit(m, now, org) /\ Others
    BY <1>2, <2>1, <2>2, StepFields, DoneFields DEF Fit, Running
  <2>4. QED
    BY <1>3, <1>8, <2>3 DEF CheckCoins, At
<1>9. CASE FoundCommit(h)
  <2>1. CASE There(l.code)
    <3>1. PICK o \in Org : org[o] = NoOrg /\ org' = [org EXCEPT ![o] = NewRow([l EXCEPT !.org = o])]
      BY <1>9, <2>1 DEF FoundCommit
    <3> DEFINE new == NewRow([l EXCEPT !.org = o])
    <3>2. new.until = l.until /\ new.status = l.status /\ new.row = org[o].row + 1
      BY <1>1 DEF NewRow, Locals
    <3>3. Running(l, now)
      BY <1>1, <1>9 DEF FoundCommit, At, Fit
    <3>4. org' = [org EXCEPT ![o] = new]
      BY <3>1
    <3> HIDE DEF new
    <3>5. Stays(org[o], new, now) /\ Returns(org[o], new, now)
      BY <1>3, <3>2, <3>3 DEF Stays, Returns, Running
    <3>6. Rows
      BY <1>3, <3>4, <3>5 DEF TypeOK
    <3>7. QED
      BY <1>2, <1>9, <3>6, DoneFields DEF FoundCommit, At
  <2>2. CASE ~There(l.code)
    BY <1>2, <1>3, <1>9, <2>2, DoneFields DEF FoundCommit, At
  <2>3. QED
    BY <2>1, <2>2
<1>10. CASE Charge(h) \/ Record(h)
  <2>1. l.pc \in {"charge", "record"} /\ l.paid /\ Running(l, now) /\ l.row <= org[l.org].row
    BY <1>1, <1>10 DEF Charge, Record, At, Fit
  <2>2. \E pc \in {"record", "use"} : Step(h, pc)
    BY <1>10 DEF Charge, Record
  <2>3. Fit(m, now, org) /\ Others
    BY <2>1, <2>2, StepFields DEF Fit, Running
  <2>4. QED
    BY <1>3, <1>10, <2>3 DEF Charge, Record, At
<1>11. CASE UseCode(h)
  <2>1. l.paid /\ Running(l, now) /\ l.row <= org[l.org].row
    BY <1>1, <1>11 DEF UseCode, At, Fit
  <2>2. Step(h, "restore") \/ Done(h)
    BY <1>11 DEF UseCode
  <2>3. Fit(m, now, org) /\ Others
    BY <1>2, <2>1, <2>2, StepFields, DoneFields DEF Fit, Running
  <2>4. QED
    BY <1>3, <1>11, <2>3 DEF UseCode, At
<1>12. CASE Restore(h)
  <2> DEFINE old == org[l.org]
             new == Restored(old, l)
  <2>1. SameRow(l.org, l.row) => IF l.paid THEN Running(l, now) ELSE Running(old, now)
    BY <1>1, <1>12 DEF Restore, At, Fit, SameRow
  <2>2. /\ new.row = old.row
        /\ l.paid => new.until = l.until /\ new.status = l.status
        /\ ~l.paid => new.until = old.until /\ new.status = old.status
    BY <1>1 DEF Restored, TypeOK, OrgRow
  <2>3. org' = IF SameRow(l.org, l.row) THEN [org EXCEPT ![l.org] = new] ELSE org
    BY <1>12 DEF Restore
  <2>4. SameRow(l.org, l.row) => old.state # "absent" /\ old.row \in Nat
    BY <1>1, <1>3 DEF SameRow
  <2> HIDE DEF new, old
  <2>5. SameRow(l.org, l.row) => Stays(old, new, now) /\ Returns(old, new, now)
    BY <2>1, <2>2, <2>4 DEF Stays, Returns, Running
  <2>6. Rows
    BY <1>1, <1>3, <2>3, <2>5 DEF TypeOK, old
  <2>7. QED
    BY <1>2, <1>12, <2>6, DoneFields DEF Restore, At
<1>13. CASE PurgeRetained(h)
  <2> DEFINE claim == [status |-> l.status, until |-> l.until]
             g == Gate(l, claim)
  <2>1. l.row <= org[l.org].row
    BY <1>1, <1>13 DEF Fit, PurgeRetained, At
  <2>2. /\ g.org = l.org /\ g.row = l.row /\ g.pc \in {"revive", "redeem"}
        /\ g.pc = "revive" => g.until >= now /\ g.status # "EXPIRED"
    BY <1>1 DEF Gate, claimAllowsFreeRevive, Locals
  <2>3. Goto(h, g) \/ Done(h)
    BY <1>13 DEF PurgeRetained
  <2>4. Purged(l.org).state = "absent" /\ Purged(l.org).row = org[l.org].row
    BY DEF Purged, NoOrg
  <2>5. org' = org \/ org' = [org EXCEPT ![l.org] = Purged(l.org)]
    BY <1>13 DEF PurgeRetained
  <2> HIDE DEF g
  <2>6. (m = g \/ m = Rest) /\ Others
    BY <2>3, OneMoves, DoneFields
  <2>7. Rows /\ org'[l.org].row = org[l.org].row
    BY <1>1, <1>3, <2>4, <2>5 DEF TypeOK, Stays, Returns
  <2>8. Fit(m, now, org')
    BY <1>2, <2>1, <2>2, <2>6, <2>7 DEF Fit, Running
  <2>9. QED
    BY <1>13, <2>6, <2>7, <2>8 DEF PurgeRetained, At
<1>14. CASE ReviveCommit(h)
  <2> DEFINE new == NewRow(l)
  <2>1. Running(l, now)
    BY <1>1, <1>14 DEF ReviveCommit, At, Fit
  <2>2. new.until = l.until /\ new.status = l.status /\ new.row = org[l.org].row + 1
    BY DEF NewRow
  <2>3. org' = org \/ org' = [org EXCEPT ![l.org] = new]
    BY <1>14 DEF ReviveCommit
  <2> HIDE DEF new
  <2>4. Stays(org[l.org], new, now) /\ Returns(org[l.org], new, now)
    BY <1>1, <1>3, <2>1, <2>2 DEF Stays, Returns, Running
  <2>5. Rows
    BY <1>1, <1>3, <2>3, <2>4 DEF TypeOK
  <2>6. QED
    BY <1>2, <1>14, <2>5, DoneFields DEF ReviveCommit, At
<1>15. CASE AdjustCommit(h)
  <2>1. m.pc = "note" /\ m.org = l.org /\ m.row = l.row /\ Others
    BY <1>15, StepFields DEF AdjustCommit
  <2>2. l.row <= org[l.org].row
    BY <1>1, <1>15 DEF Fit, AdjustCommit, At
  <2>3. Fit(m, now, org)
    BY <2>1, <2>2 DEF Fit
  <2>4. QED
    BY <1>3, <1>15, <2>1, <2>3 DEF AdjustCommit, At
<1>16. QED
  BY <1>4, <1>5, <1>6, <1>7, <1>8, <1>9, <1>10, <1>11, <1>12, <1>13, <1>14, <1>15 DEF Advance

LEMMA RequestReturns ==
  ASSUME "overlap" \notin Offered, TypeOK, TypeOK', ReadStands, NEW h \in Handler
  PROVE  /\ \A kind \in Kind, o \in Founded, demo \in BOOLEAN : FileRequest(h, kind, o, demo) => ReadStands'
         /\ \A c \in Code : Drop(h, c) \/ Decide(h, c) \/ Found(h, c) => ReadStands'
         /\ \A o \in Org, c \in Code : Undelete(h, o, c) => ReadStands'
         /\ \A d \in Int : Gift(h, d) \/ Adjust(h, d) => ReadStands'
         /\ \A claim \in file, c \in Code : Revive(h, claim, c) => ReadStands'
<1>1. ASSUME NEW l, Begin(h, l), Fit(l, now, org), UNCHANGED <<now, coins, ledger, code, org, file, nightly, bought>>
      PROVE  ReadStands'
  <2>1. handler'[h] = l /\ \A g \in Handler \ {h} : handler'[g] = handler[g]
    BY <1>1, OneMoves DEF Begin
  <2>2. nightly.pc = "rest"
    BY <1>1 DEF Begin, MayStart
  <2>3. \A o \in Org : Stays(org[o], org[o], now)
    BY DEF Stays, TypeOK, OrgRow
  <2>4. QED
    BY <1>1, <2>1, <2>2, <2>3, KeepsRead
<1>2. \A o \in Org : org[o].row \in Nat
  BY DEF TypeOK, OrgRow
<1>3. (CHOOSE o \in Org : TRUE) \in Org
  OBVIOUS
\* Locals that know no row yet.
<1>4. ASSUME NEW l, l.org \in Org, l.row = 0,
             l.pc \notin {"coins", "charge", "record", "use", "found", "revive", "restore"}
      PROVE  Fit(l, now, org)
  BY <1>2, <1>4 DEF Fit
<1>5. ASSUME NEW kind \in Kind, NEW o \in Founded, NEW demo \in BOOLEAN, FileRequest(h, kind, o, demo)
      PROVE  ReadStands'
  <2> DEFINE l == [Rest EXCEPT !.pc = "file", !.kind = kind, !.org = o, !.demo = demo]
  <2>1. l.pc = "file" /\ l.org = o /\ l.row = 0 /\ o \in Org
    BY DEF Rest
  <2>2. Begin(h, l) /\ UNCHANGED <<now, coins, ledger, code, org, file, nightly, bought>>
    BY <1>5 DEF FileRequest
  <2> HIDE DEF l
  <2>3. QED
    BY <1>1, <1>4, <2>1, <2>2
<1>6. ASSUME NEW c \in Code, Drop(h, c) \/ Decide(h, c) \/ Found(h, c) PROVE ReadStands'
  <2> DEFINE clear == [Rest EXCEPT !.pc = "clear", !.code = c]
             decide == [Rest EXCEPT !.pc = "decide", !.code = c]
             redeem == [Rest EXCEPT !.pc = "redeem", !.then = "found", !.code = c]
  <2>1. /\ clear.pc = "clear" /\ decide.pc = "decide" /\ redeem.pc = "redeem"
        /\ \A l \in {clear, decide, redeem} : l.org = (CHOOSE o \in Org : TRUE) /\ l.row = 0
    BY DEF Rest
  <2>2. /\ \E l \in {clear, decide, redeem} : Begin(h, l)
        /\ UNCHANGED <<now, coins, ledger, code, org, file, nightly, bought>>
    BY <1>6 DEF Drop, Decide, Found
  <2> HIDE DEF clear, decide, redeem
  <2>3. QED
    BY <1>1, <1>4, <2>1, <2>2
<1>7. ASSUME NEW o \in Org, NEW c \in Code, Undelete(h, o, c) PROVE ReadStands'
  <2> DEFINE pc == IF Lapsed(org[o]) THEN "redeem" ELSE "restore"
             l == [Rest EXCEPT !.pc = pc, !.then = "restore", !.org = o, !.row = org[o].row, !.code = c]
  <2>1. l.pc = pc /\ l.org = o /\ l.row = org[o].row /\ ~l.paid
    BY DEF Rest
  <2>2. Begin(h, l) /\ UNCHANGED <<now, coins, ledger, code, org, file, nightly, bought>>
    BY <1>7 DEF Undelete
  <2>3. pc \in {"redeem", "restore"} /\ (pc = "restore" => Running(org[o], now))
    BY DEF Lapsed, Running, TypeOK, OrgRow, Days, Never
  <2> HIDE DEF l, pc
  <2>4. Fit(l, now, org)
    BY <1>2, <2>1, <2>3 DEF Fit
  <2>5. QED
    BY <1>1, <2>2, <2>4
<1>8. ASSUME NEW d \in Int, Gift(h, d) \/ Adjust(h, d) PROVE ReadStands'
  <2> DEFINE gift == [Rest EXCEPT !.pc = "gift", !.was = coins, !.cost = -d]
             adjust == [Rest EXCEPT !.pc = "adjust", !.was = coins, !.cost = -Moved(coins, d)]
  <2>1. \A l \in {gift, adjust} : l.pc \in {"gift", "adjust"} /\ l.org \in Org /\ l.row = 0
    BY <1>3 DEF Rest
  <2>2. /\ \E l \in {gift, adjust} : Begin(h, l)
        /\ UNCHANGED <<now, coins, ledger, code, org, file, nightly, bought>>
    BY <1>8 DEF Gift, Adjust
  <2> HIDE DEF gift, adjust
  <2>3. QED
    BY <1>1, <1>4, <2>1, <2>2
<1>9. ASSUME NEW claim \in file, NEW c \in Code, Revive(h, claim, c) PROVE ReadStands'
  <2> DEFINE l == [Rest EXCEPT !.then = "revive", !.org = claim.org, !.code = c, !.row = org[claim.org].row]
             p == [l EXCEPT !.pc = "purge", !.status = claim.status, !.until = claim.until]
             g == Gate(l, claim)
  <2>1. claim.org \in Org
    BY DEF TypeOK, Claim
  <2>2. p.pc = "purge" /\ p.org = claim.org /\ p.row = org[claim.org].row
    BY DEF Rest
  <2>3. /\ g.pc \in {"revive", "redeem"} /\ g.org = claim.org /\ g.row = org[claim.org].row
        /\ g.pc = "revive" => Running(g, now)
    BY DEF Rest, Gate, claimAllowsFreeRevive, Running
  <2>4. /\ Begin(h, g) \/ Begin(h, p)
        /\ UNCHANGED <<now, coins, ledger, code, org, file, nightly, bought>>
    BY <1>9 DEF Revive
  <2> HIDE DEF p, g
  <2>5. Fit(p, now, org) /\ Fit(g, now, org)
    BY <1>2, <2>1, <2>2, <2>3 DEF Fit
  <2>6. QED
    BY <1>1, <2>4, <2>5
<1>10. QED
  BY <1>5, <1>6, <1>7, <1>8, <1>9

\* Deleting, purging, granting and the nightly job bring nothing back.
LEMMA RestReturns ==
  ASSUME "overlap" \notin Offered, TypeOK, TypeOK', ReadStands,
         \/ \E o \in Founded : \/ ExportMain(o) \/ DeleteOrg(o) \/ PurgeNow(o)
                              \/ \E days \in {0, Term} : GrantPlan(o, days)
         \/ Nightly \/ Midnight \/ UNCHANGED vars
  PROVE  ReadStands' /\ \A o \in Org : Returns(org[o], org'[o], now)
<1>1. \A o \in Org : Stays(org[o], org[o], now) /\ Returns(org[o], org[o], now) /\ org[o].row \in Nat
  BY DEF Stays, Returns, TypeOK, OrgRow
<1>2. ASSUME \A o \in Org : Stays(org[o], org'[o], now) /\ Returns(org[o], org'[o], now),
             UNCHANGED <<handler, nightly, now>>
      PROVE  ReadStands' /\ \A o \in Org : Returns(org[o], org'[o], now)
  <2>1. ASSUME NEW g \in Handler PROVE Fit(handler'[g], now, org')
    BY <1>2, KeepsFit DEF ReadStands, TypeOK
  <2>2. QED
    BY <1>2, <2>1 DEF ReadStands, At
\* While no request is in flight.
<1>3. ASSUME \A h \in Handler : At(h, "rest"), handler' = handler,
             \A o \in Org : Returns(org[o], org'[o], now)
      PROVE  ReadStands' /\ \A o \in Org : Returns(org[o], org'[o], now)
  <2>1. \A h \in Handler : handler'[h].pc = "rest"
    BY <1>3 DEF At
  <2>2. QED
    BY <1>3, <2>1 DEF ReadStands, At, Fit
<1>4. ASSUME NEW o \in Org
      PROVE  /\ Stays(org[o], Purged(o), now) /\ Returns(org[o], Purged(o), now)
             /\ Returns(org[o], [org[o] EXCEPT !.status = "EXPIRED"], now)
             /\ LET gone == [org[o] EXCEPT !.state = "deleted", !.deletedAt = now] IN
                org[o].state = "live" => Stays(org[o], gone, now) /\ Returns(org[o], gone, now)
  <2>1. Purged(o).state = "absent" /\ Purged(o).row = org[o].row /\ org[o] \in OrgRow
    BY DEF Purged, NoOrg, TypeOK
  <2>2. QED
    BY <1>1, <2>1 DEF Stays, Returns, Running, OrgRow
<1>5. ASSUME NEW o \in Founded, ExportMain(o) PROVE ReadStands' /\ \A x \in Org : Returns(org[x], org'[x], now)
  BY <1>1, <1>2, <1>5 DEF ExportMain
<1>6. ASSUME NEW o \in Founded, DeleteOrg(o) \/ PurgeNow(o)
      PROVE  ReadStands' /\ \A x \in Org : Returns(org[x], org'[x], now)
  <2>1. \A x \in Org : Stays(org[x], org'[x], now) /\ Returns(org[x], org'[x], now)
    <3>1. CASE DeleteOrg(o)
      <4> DEFINE gone == [org[o] EXCEPT !.state = "deleted", !.deletedAt = now]
      <4>1. org' = [org EXCEPT ![o] = gone] /\ org[o].state = "live"
        BY <3>1 DEF DeleteOrg
      <4>2. Stays(org[o], gone, now) /\ Returns(org[o], gone, now)
        BY <1>4, <4>1
      <4> HIDE DEF gone
      <4>3. QED
        BY <1>1, <4>1, <4>2 DEF TypeOK
    <3>2. CASE PurgeNow(o)
      BY <1>1, <1>4, <3>2 DEF PurgeNow, TypeOK
    <3>3. QED
      BY <1>6, <3>1, <3>2
  <2>2. QED
    BY <1>2, <1>6, <2>1 DEF DeleteOrg, PurgeNow
<1>7. ASSUME NEW o \in Founded, NEW days \in {0, Term}, GrantPlan(o, days)
      PROVE  ReadStands' /\ \A x \in Org : Returns(org[x], org'[x], now)
  <2>1. \A x \in Org : Stays(org[x], org'[x], now) /\ Returns(org[x], org'[x], now)
    BY <1>7, StampStays DEF GrantPlan
  <2>2. QED
    BY <1>2, <1>7, <2>1 DEF GrantPlan
<1>8. CASE Nightly
  <2>1. \A h \in Handler : At(h, "rest")
    BY <1>8 DEF Nightly, ListLapsed, MarkLapsed, ListDoomed, PurgeDoomed, Apart, ReadStands
  <2>2. nightly.todo \subseteq Org \X Nat
    BY DEF TypeOK, NightlyLocals
  <2>3. \/ org' = org
        \/ \E x \in nightly.todo : \/ org' = [org EXCEPT ![x[1]].status = "EXPIRED"]
                                   \/ org' = [org EXCEPT ![x[1]] = Purged(x[1])]
    BY <1>8 DEF Nightly, ListLapsed, MarkLapsed, ListDoomed, PurgeDoomed
  <2>4. \A o \in Org : Returns(org[o], org'[o], now)
    <3>1. ASSUME NEW x \in nightly.todo, org' = [org EXCEPT ![x[1]].status = "EXPIRED"]
          PROVE  \A o \in Org : Returns(org[o], org'[o], now)
      BY <1>1, <1>4, <2>2, <3>1 DEF TypeOK
    <3>2. ASSUME NEW x \in nightly.todo, org' = [org EXCEPT ![x[1]] = Purged(x[1])]
          PROVE  \A o \in Org : Returns(org[o], org'[o], now)
      BY <1>1, <1>4, <2>2, <3>2 DEF TypeOK
    <3>3. QED
      BY <1>1, <2>3, <3>1, <3>2
  <2>5. QED
    BY <1>3, <1>8, <2>1, <2>4 DEF Nightly, ListLapsed, MarkLapsed, ListDoomed, PurgeDoomed
<1>9. CASE Midnight
  BY <1>1, <1>3, <1>9 DEF Midnight, Apart
<1>10. CASE UNCHANGED vars
  BY <1>1, <1>2, <1>10 DEF vars
<1>11. QED
  BY <1>5, <1>6, <1>7, <1>8, <1>9, <1>10

LEMMA StepReturns ==
  "overlap" \notin Offered /\ TypeOK /\ ReadStands /\ [Next]_vars
    => ReadStands' /\ \A o \in Org : Returns(org[o], org'[o], now)
<1> SUFFICES ASSUME "overlap" \notin Offered, TypeOK, ReadStands, [Next]_vars
             PROVE  ReadStands' /\ \A o \in Org : Returns(org[o], org'[o], now)
  OBVIOUS
<1>1. TypeOK'
  BY StepTypes
<1>2. \A d \in {-Price, Price} : d \in Int
  OBVIOUS
<1>3. ASSUME org' = org PROVE \A o \in Org : Returns(org[o], org'[o], now)
  BY <1>3 DEF Returns
<1>4. ASSUME NEW h \in Handler, Advance(h)
      PROVE  ReadStands' /\ \A o \in Org : Returns(org[o], org'[o], now)
  BY <1>1, <1>4, AdvanceReturns, KeepsRead
<1>5. ASSUME NEW h \in Handler,
             \/ \E kind \in Kind, o \in Founded, demo \in BOOLEAN : FileRequest(h, kind, o, demo)
             \/ \E c \in Code : \/ Drop(h, c) \/ Decide(h, c) \/ Found(h, c)
                                \/ \E o \in Org : Undelete(h, o, c)
                                \/ \E claim \in file : Revive(h, claim, c)
             \/ \E d \in {-Price, Price} : Gift(h, d) \/ Adjust(h, d)
      PROVE  ReadStands' /\ org' = org
  <2>1. org' = org
    BY <1>5 DEF FileRequest, Drop, Decide, Found, Undelete, Revive, Gift, Adjust
  <2>2. QED
    BY <1>1, <1>2, <1>5, <2>1, RequestReturns
<1>6. QED
  BY <1>1, <1>3, <1>4, <1>5, RestReturns DEF Next

LEMMA InitReturns == Init => ReadStands
  BY DEF Init, ReadStands, Fit, At, Rest, NightlyRest

(* An undelete or a revival leaves an organization live only on a term that is  *)
(* still running, whatever else is filed, decided, redeemed, restored, revived   *)
(* or purged between what it reads and what it writes (vault-files/routes.ts).   *)
(* The nightly job keeps apart of requests, as it does in the run.             *)
THEOREM ComesBackOnRunningTerms == "overlap" \notin Offered => (Spec => ComesBackRunning)
<1> SUFFICES ASSUME "overlap" \notin Offered PROVE Spec => ComesBackRunning
  OBVIOUS
<1>1. TypeOK /\ ReadStands /\ [Next]_vars => ReadStands'
  BY StepReturns
<1>2. TypeOK /\ ReadStands /\ [Next]_vars
        => [\A o \in Org : org[o].state # "live" /\ org'[o].state = "live" =>
              org'[o].until >= now /\ org'[o].status # "EXPIRED"]_vars
  BY StepReturns DEF Returns, Running
<1>3. QED
  BY <1>1, <1>2, InitReturns, TypeCorrect, PTL DEF Spec, ComesBackRunning
=============================================================================
