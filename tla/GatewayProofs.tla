---------------------------- MODULE GatewayProofs ----------------------------
(* What Gateway promises for every number of uploads, organizations and      *)
(* requests in flight, every file and chunk size and every allowance,        *)
(* whatever is offered: drops, refusals, failed calls, restarts, readers.     *)
EXTENDS Gateway, FiniteSetTheorems, TLAPS

-----------------------------------------------------------------------------
(* Types.  A browser's offset lies in the chunk it sends; a request knows     *)
(* its upload and its organization until it rests.                            *)

Fit(t) == t.start < Total /\ t.start <= t.offset /\ t.offset <= t.start + Chunk

Sound(j) ==
  /\ j.at # "rest" => j.org \in Org
  /\ j.at # "rest" /\ j.kind # "read" => j.up \in Upload
  /\ j.at \in {"put", "confirm", "query", "save"} => j.kind # "read"
  /\ j.at = "put" => j.start + j.sent <= Total
  /\ j.at = "warn" => j.line \in WarnAt

TabsTyped == tab \in [Upload -> Tab] /\ \A u \in Upload : Fit(tab[u])
JobsTyped == job \in [Handler -> Job] /\ \A h \in Handler : Sound(job[h])
CountsTyped ==
  /\ usage \in [Org \cup {"*"} -> Nat] /\ told \in [Org -> [WarnAt -> Nat]]
  /\ flowed \in Nat /\ unsaid \in [Org -> SUBSET WarnAt]

Typed ==
  /\ TabsTyped /\ JobsTyped /\ CountsTyped
  /\ held \in [Upload -> Bytes] /\ row \in [Upload -> SessionRow]

Answers == [status : {"ok", "conflict", "down", "final"}, confirmed : Bytes, done : BOOLEAN]

\* What a browser makes of an answer: another browser state, never "pin" or "done", whose
\* offset is within whatever bounds the browser's own and the answer's.
LEMMA HearsTyped ==
  ASSUME NEW t \in Tab, Fit(t), NEW r \in Answers,
         NEW m \in Int, t.offset <= m, r.confirmed <= m
  PROVE  /\ Hears(t, r) \in Tab /\ Fit(Hears(t, r))
         /\ Hears(t, r).at \notin {"pin", "done"}
         /\ Hears(t, r).offset <= m
<1> USE GatewayAssumption DEF Bytes
<1> DEFINE Good(s) == s \in Tab /\ Fit(s) /\ s.at \notin {"pin", "done"} /\ s.offset <= m
<1>1. /\ End(t) \in Bytes /\ t.offset <= End(t) /\ t.start < End(t)
      /\ r.confirmed \in Bytes /\ t.start \in Bytes /\ t.offset \in Bytes
  BY DEF End, Smaller, Tab, Fit, Answers
<1>2. Good(Failed(t))
  BY DEF Failed, Tab, Fit
<1>3. ASSUME NEW o \in Bytes, t.start <= o, o <= End(t), o <= m
      PROVE  Good(Again([t EXCEPT !.offset = o]))
  <2> DEFINE s == [t EXCEPT !.offset = o]
  <2>1. s \in Tab /\ Fit(s) /\ s.offset = o
    BY <1>3 DEF Tab, Fit, End, Smaller
  <2> HIDE DEF s
  <2>2. CASE s.attempt + 1 < Attempts
    <3>1. s.attempt + 1 \in 0 .. Attempts - 1
      BY <2>1, <2>2 DEF Tab
    <3>2. Again(s) = [s EXCEPT !.at = "send", !.attempt = s.attempt + 1, !.call = None]
      BY <2>2 DEF Again
    <3>3. Again(s) \in Tab /\ Again(s).at = "send"
      BY <2>1, <3>1, <3>2 DEF Tab
    <3>4. Again(s).start = s.start /\ Again(s).offset = s.offset
      BY <2>1, <3>2 DEF Tab
    <3>5. Fit(Again(s))
      BY <2>1, <3>4 DEF Fit
    <3>6. Good(Again(s))
      BY <2>1, <3>3, <3>4, <3>5, <1>3
    <3>7. QED
      BY <3>6 DEF s
  <2>3. CASE ~(s.attempt + 1 < Attempts)
    <3>1. Again(s) = Failed(s)
      BY <2>3 DEF Again
    <3>2. QED
      BY <2>1, <3>1, <1>3 DEF Tab, Fit, Failed, s
  <2>4. QED
    BY <2>2, <2>3 DEF s
<1>4. Good(Again(t))
  <2>1. [t EXCEPT !.offset = t.offset] = t
    BY DEF Tab
  <2>2. t.start <= t.offset
    BY DEF Fit
  <2>3. Good(Again([t EXCEPT !.offset = t.offset]))
    BY <1>1, <1>3, <2>2
  <2>4. QED
    BY <2>1, <2>3
<1>5. Good(Flushed(t, r.confirmed))
  <2>1. CASE r.confirmed < End(t)
    <3>1. Flushed(t, r.confirmed) = Failed(t)
      BY <1>1, <2>1 DEF Flushed
    <3>2. QED
      BY <1>2, <3>1
  <2>2. CASE r.confirmed >= End(t) /\ End(t) = Total
    <3>1. Flushed(t, r.confirmed) = [t EXCEPT !.at = "commit", !.call = None]
      BY <1>1, <2>2 DEF Flushed
    <3>2. QED
      BY <3>1 DEF Tab, Fit
  <2>3. CASE r.confirmed >= End(t) /\ End(t) # Total
    <3>1. Flushed(t, r.confirmed) =
            [at |-> "send", start |-> End(t), offset |-> End(t), attempt |-> 0, call |-> None]
      BY <1>1, <2>3 DEF Flushed
    <3>2. QED
      BY <1>1, <2>3, <3>1 DEF Tab, Fit
  <2> HIDE DEF Good
  <2>4. QED
    BY <1>1, <2>1, <2>2, <2>3
<1>6. Good([t EXCEPT !.at = "ask", !.call = None])
  BY DEF Tab, Fit
<1> HIDE DEF Good
<1>7. Good(Resumed(t, r.confirmed))
  <2>1. CASE r.confirmed < t.start
    BY <1>1, <1>2, <2>1 DEF Resumed
  <2>2. CASE r.confirmed >= End(t)
    BY <1>1, <1>5, <2>2 DEF Resumed
  <2>3. CASE t.start <= r.confirmed /\ r.confirmed < End(t)
    BY <1>1, <1>3, <2>3 DEF Resumed
  <2>4. QED
    BY <1>1, <2>1, <2>2, <2>3
<1>8. Good(AfterChunk(t, r))
  BY <1>2, <1>5, <1>6, <1>7 DEF AfterChunk
<1>9. Good(AfterAsk(t, r))
  BY <1>4, <1>5, <1>7 DEF AfterAsk
<1>10. QED
  BY <1>8, <1>9 DEF Hears, Good

LEMMA TabUpdateTyped ==
  ASSUME TabsTyped, NEW u \in Upload, NEW t \in Tab, Fit(t), tab' = [tab EXCEPT ![u] = t]
  PROVE  TabsTyped'
<1>1. tab' \in [Upload -> Tab] /\ \A v \in Upload : tab'[v] = IF v = u THEN t ELSE tab[v]
  BY DEF TabsTyped
<1>2. ASSUME NEW v \in Upload PROVE Fit(tab'[v])
  BY <1>1 DEF TabsTyped
<1>3. QED
  BY <1>1, <1>2 DEF TabsTyped

LEMMA JobUpdateTyped ==
  ASSUME JobsTyped, NEW h \in Handler, NEW j \in Job, Sound(j), job' = [job EXCEPT ![h] = j]
  PROVE  JobsTyped'
<1>1. job' \in [Handler -> Job] /\ \A g \in Handler : job'[g] = IF g = h THEN j ELSE job[g]
  BY DEF JobsTyped
<1>2. ASSUME NEW g \in Handler PROVE Sound(job'[g])
  BY <1>1 DEF JobsTyped
<1>3. QED
  BY <1>1, <1>2 DEF JobsTyped

LEMMA HearsUpdateTyped ==
  ASSUME TabsTyped, NEW u \in Upload, NEW r \in Answers, tab' = [tab EXCEPT ![u] = Hears(@, r)]
  PROVE  TabsTyped'
<1>1. tab[u] \in Tab /\ Fit(tab[u])
  BY DEF TabsTyped
<1>2. PICK m \in Int : tab[u].offset <= m /\ r.confirmed <= m
  <2>1. tab[u].offset <= Total /\ r.confirmed <= Total /\ Total \in Int
    BY <1>1, GatewayAssumption DEF Tab, Answers, Bytes
  <2>2. QED
    BY <2>1
<1>3. Hears(tab[u], r) \in Tab /\ Fit(Hears(tab[u], r))
  BY <1>1, <1>2, HearsTyped
<1>4. QED
  BY <1>3, TabUpdateTyped

LEMMA RepliesTyped ==
  /\ Dropped \in Answers /\ Final \in Answers
  /\ \A confirmed \in Bytes, done \in BOOLEAN :
       Reply("ok", confirmed, done) \in Answers /\ Reply("conflict", confirmed, done) \in Answers
BY GatewayAssumption DEF Dropped, Final, Reply, Answers, Bytes

LEMMA TellTyped ==
  ASSUME TabsTyped, NEW u \in Upload, NEW r \in Answers, Tell(u, r)
  PROVE  TabsTyped'
BY HearsUpdateTyped, RepliesTyped DEF Tell

LEMMA RestTyped == Rest \in Job /\ Sound(Rest)
BY GatewayAssumption DEF Rest, Job, Bytes, Sound

\* A request goes on, or counts its bytes, with what it knew.
LEMMA CountingTyped ==
  ASSUME NEW j \in Job, j.org \in Org, j.kind # "read" => j.up \in Upload
  PROVE  /\ Onward(j) \in Job /\ Sound(Onward(j))
         /\ Counting(j) \in Job /\ Sound(Counting(j))
<1>1. Onward(j) \in Job /\ Sound(Onward(j))
  <2>1. CASE j.kind = "read"
    BY <2>1, RestTyped DEF Onward
  <2>2. CASE j.kind # "read" /\ j.failure # "none"
    <3>1. Onward(j) = [j EXCEPT !.at = "query", !.line = 0]
      BY <2>2 DEF Onward
    <3>2. QED
      BY <2>2, <3>1 DEF Job, Sound
  <2>3. CASE j.kind # "read" /\ j.failure = "none"
    <3>1. Onward(j) = [j EXCEPT !.at = "confirm", !.line = 0]
      BY <2>3 DEF Onward
    <3>2. QED
      BY <2>3, <3>1 DEF Job, Sound
  <2>4. QED
    BY <2>1, <2>2, <2>3
<1>2. [j EXCEPT !.at = "total"] \in Job /\ Sound([j EXCEPT !.at = "total"])
  BY DEF Job, Sound
<1>3. QED
  BY <1>1, <1>2 DEF Counting

LEMMA AnswerTyped ==
  ASSUME TabsTyped, JobsTyped, NEW h \in Handler, job[h].up \in Upload, NEW r \in Answers, Answer(h, r)
  PROVE  TabsTyped' /\ JobsTyped'
<1>1. JobsTyped'
  BY RestTyped, JobUpdateTyped DEF Answer
<1>2. TabsTyped'
  <2>1. CASE tab' = tab
    BY <2>1 DEF TabsTyped
  <2>2. CASE tab' = [tab EXCEPT ![job[h].up] = Hears(@, r)]
    BY <2>2, HearsUpdateTyped
  <2>3. QED
    BY <2>1, <2>2 DEF Answer
<1>3. QED
  BY <1>1, <1>2

LEMMA InitTyped == Init => Typed
BY RestTyped, GatewayAssumption, SMTT(30)
   DEF Init, Typed, TabsTyped, JobsTyped, CountsTyped, Fit, Bytes, SessionRow, Tab

\* What the browser's steps, and the gateway's answers without a request, leave typed.
LEMMA BrowserTyped ==
  ASSUME Typed, NEW u \in Upload,
         Begin(u) \/ Commit(u) \/ Pin(u) \/ Drop(u) \/ Refuse(u) \/ AnswerFromRow(u)
         \/ RefuseOutOfOrder(u) \/ RefuseOverBudget(u)
  PROVE  Typed'
<1> USE DEF Typed, CountsTyped
<1>1. tab[u] \in Tab /\ Fit(tab[u]) /\ row[u] \in SessionRow
  BY DEF TabsTyped
<1>2. \A at \in {"send", "commit", "pin", "done"} :
        [tab[u] EXCEPT !.at = at] \in Tab /\ Fit([tab[u] EXCEPT !.at = at])
  BY <1>1 DEF Tab, Fit
<1>3. Failed(tab[u]) \in Tab /\ Fit(Failed(tab[u]))
  BY <1>1 DEF Failed, Tab, Fit
<1>4. \A state \in {"open", "gone"} : [row EXCEPT ![u].state = state] \in [Upload -> SessionRow]
  BY <1>1 DEF SessionRow
<1>5. CASE Begin(u)
  BY <1>2, <1>4, <1>5, TabUpdateTyped DEF Begin, JobsTyped
<1>6. CASE Commit(u)
  BY <1>2, <1>3, <1>6, TabUpdateTyped DEF Commit, JobsTyped
<1>7. CASE Pin(u)
  BY <1>2, <1>3, <1>4, <1>7, TabUpdateTyped DEF Pin, JobsTyped
<1>8. CASE Drop(u)
  BY <1>8, RepliesTyped, HearsUpdateTyped DEF Drop, JobsTyped
<1>9. CASE Refuse(u)
  BY <1>9, RepliesTyped, HearsUpdateTyped DEF Refuse, JobsTyped
<1>10. CASE AnswerFromRow(u)
  <2>1. Total \in Bytes
    BY GatewayAssumption DEF Bytes
  <2>2. PICK r \in Answers : Tell(u, r)
    BY <1>10, <2>1, RepliesTyped DEF AnswerFromRow
  <2>3. QED
    BY <1>10, <2>2, TellTyped DEF AnswerFromRow, JobsTyped
<1>11. CASE RefuseOutOfOrder(u)
  <2>1. Reply("conflict", row[u].confirmed, FALSE) \in Answers
    BY <1>1, RepliesTyped DEF SessionRow
  <2>2. QED
    BY <1>11, <2>1, TellTyped DEF RefuseOutOfOrder, JobsTyped
<1>12. CASE RefuseOverBudget(u)
  BY <1>12, RepliesTyped, TellTyped DEF RefuseOverBudget, JobsTyped
<1>13. QED
  BY <1>5, <1>6, <1>7, <1>8, <1>9, <1>10, <1>11, <1>12

LEMMA AdmitTyped ==
  ASSUME Typed, NEW u \in Upload, NEW h \in Handler, Admit(u, h)
  PROVE  Typed'
<1> USE DEF Typed, CountsTyped
<1> DEFINE mine == [Rest EXCEPT !.up = u, !.org = OwnerOf[u], !.start = tab[u].offset]
<1>1. tab[u] \in Tab /\ Fit(tab[u])
  BY DEF TabsTyped
<1>2. /\ End(tab[u]) - tab[u].offset \in 0 .. Document
      /\ tab[u].offset + (End(tab[u]) - tab[u].offset) <= Total
  BY <1>1, GatewayAssumption DEF End, Smaller, Tab, Bytes, Fit
<1>3. /\ mine \in Job /\ mine.up \in Upload /\ mine.org \in Org /\ mine.start = tab[u].offset
  BY <1>1, RestTyped, GatewayAssumption DEF Tab, Rest, Job
<1> HIDE DEF mine
<1>4. CASE tab[u].at = "send"
  <2> DEFINE j == [mine EXCEPT !.at = "put", !.kind = "chunk", !.sent = End(tab[u]) - tab[u].offset]
             t == [tab[u] EXCEPT !.at = "sent", !.call = h]
  <2>1. job' = [job EXCEPT ![h] = j] /\ tab' = [tab EXCEPT ![u] = t]
    BY <1>4 DEF Admit, mine
  <2>2. j \in Job /\ Sound(j)
    BY <1>2, <1>3 DEF Job, Sound
  <2>3. t \in Tab /\ Fit(t)
    BY <1>1 DEF Tab, Fit
  <2>4. TabsTyped' /\ JobsTyped'
    BY <2>1, <2>2, <2>3, TabUpdateTyped, JobUpdateTyped
  <2>5. QED
    BY <2>4 DEF Admit
<1>5. CASE tab[u].at # "send"
  <2> DEFINE j == [mine EXCEPT !.at = "query", !.kind = "ask"]
             t == [tab[u] EXCEPT !.at = "asked", !.call = h]
  <2>1. job' = [job EXCEPT ![h] = j] /\ tab' = [tab EXCEPT ![u] = t]
    BY <1>5 DEF Admit, mine
  <2>2. j \in Job /\ Sound(j)
    BY <1>3 DEF Job, Sound
  <2>3. t \in Tab /\ Fit(t)
    BY <1>1 DEF Tab, Fit
  <2>4. TabsTyped' /\ JobsTyped'
    BY <2>1, <2>2, <2>3, TabUpdateTyped, JobUpdateTyped
  <2>5. QED
    BY <2>4 DEF Admit
<1>6. QED
  BY <1>4, <1>5

\* Of the lines an addition crossed there is a largest one.
LEMMA LargestCrossed ==
  ASSUME NEW before, NEW after, Crossed(before, after) # {}
  PROVE  /\ Max(Crossed(before, after)) \in Crossed(before, after)
         /\ \A l \in Crossed(before, after) : l <= Max(Crossed(before, after))
<1> DEFINE S == Crossed(before, after)
           T == {n \in Nat : OrgLimit - n \in S}
<1>1. S \subseteq 1 .. OrgLimit /\ OrgLimit \in Nat
  BY GatewayAssumption DEF Crossed
<1>2. T # {} /\ T \subseteq Nat
  <2>1. PICK l \in S : TRUE
    OBVIOUS
  <2>2. OrgLimit - l \in Nat /\ OrgLimit - (OrgLimit - l) = l
    BY <1>1, <2>1
  <2>3. QED
    BY <2>1, <2>2
<1> DEFINE R == {ss \in Nat \X Nat : ss[1] < ss[2]}
<1>3. IsWellFoundedOn(R, Nat)
  BY NatLessThanWellFounded, Zenon DEF OpToRel
<1> HIDE DEF T
<1>4. PICK n \in T : \A m \in T : <<m, n>> \notin R
  BY <1>2, <1>3, WFMin
<1>5. \A m \in T : n <= m
  <2>1. ASSUME NEW x \in Nat, NEW y \in Nat, x < y PROVE <<x, y>> \in R
    BY <2>1
  <2>2. ASSUME NEW m \in T PROVE n <= m
    <3>1. m \in Nat /\ n \in Nat /\ <<m, n>> \notin R
      BY <1>2, <1>4
    <3> HIDE DEF R
    <3>2. ~(m < n)
      BY <2>1, <3>1
    <3>3. QED
      BY <3>1, <3>2
  <2>3. QED
    BY <2>2
<1> USE DEF T
<1>6. OrgLimit - n \in S /\ \A l \in S : l <= OrgLimit - n
  <2>1. ASSUME NEW l \in S PROVE l <= OrgLimit - n
    <3>1. OrgLimit - l \in Nat /\ OrgLimit - (OrgLimit - l) = l
      BY <1>1
    <3>2. n <= OrgLimit - l
      BY <1>5, <3>1
    <3>3. QED
      BY <1>1, <1>2, <3>2
  <2>2. QED
    BY <1>4, <2>1
<1>7. QED
  BY <1>1, <1>2, <1>6 DEF Max

LEMMA CountTyped ==
  ASSUME Typed, NEW h \in Handler, RecordTotal(h) \/ RecordOrg(h) \/ WarnOwners(h)
  PROVE  Typed'
<1> USE DEF Typed, CountsTyped
<1>1. job[h] \in Job /\ Sound(job[h])
  BY DEF JobsTyped
<1>2. CASE RecordTotal(h)
  <2>1. [job[h] EXCEPT !.at = "org"] \in Job /\ Sound([job[h] EXCEPT !.at = "org"])
    BY <1>1, <1>2 DEF RecordTotal, Job, Sound
  <2>2. JobsTyped'
    BY <1>2, <2>1, JobUpdateTyped DEF RecordTotal
  <2>3. usage["*"] + job[h].sent \in Nat
    BY <1>1, GatewayAssumption DEF Job
  <2>4. QED
    BY <1>2, <2>2, <2>3 DEF RecordTotal, TabsTyped
<1>3. CASE RecordOrg(h)
  <2> DEFINE j == job[h]
             after == usage[j.org] + j.sent
             crossed == Crossed(after - j.sent, after)
  <2>1. after \in Nat /\ j.org \in Org /\ (j.kind # "read" => j.up \in Upload)
    BY <1>1, <1>3, GatewayAssumption DEF RecordOrg, Job, Sound
  <2>2. crossed # {} => Max(crossed) \in WarnAt
    <3>1. crossed \subseteq WarnAt /\ WarnAt \subseteq Nat
      BY GatewayAssumption DEF Crossed
    <3>2. crossed # {} => Max(crossed) \in crossed
      BY <2>1, LargestCrossed DEF Crossed
    <3>3. QED
      BY <3>1, <3>2
  <2>3. JobsTyped'
    <3>1. CASE crossed = {}
      <4>1. job' = [job EXCEPT ![h] = Onward(j)]
        BY <1>3, <3>1 DEF RecordOrg
      <4>2. QED
        BY <1>1, <2>1, <4>1, CountingTyped, JobUpdateTyped
    <3>2. CASE crossed # {}
      <4> DEFINE w == [j EXCEPT !.at = "warn", !.line = Max(crossed)]
      <4>1. job' = [job EXCEPT ![h] = w]
        BY <1>3, <3>2 DEF RecordOrg
      <4>2. w \in Job /\ Sound(w)
        BY <1>1, <2>1, <2>2, <3>2 DEF Job, Sound
      <4>3. QED
        BY <4>1, <4>2, JobUpdateTyped
    <3>3. QED
      BY <3>1, <3>2
  <2>4. usage' = [usage EXCEPT ![j.org] = after]
    BY <1>3 DEF RecordOrg
  <2>5. QED
    BY <1>3, <2>1, <2>3, <2>4 DEF RecordOrg, TabsTyped
<1>4. CASE WarnOwners(h)
  <2> DEFINE j == job[h]
  <2>1. j.org \in Org /\ j.line \in WarnAt /\ (j.kind # "read" => j.up \in Upload)
    BY <1>1, <1>4 DEF WarnOwners, Sound
  <2>2. JobsTyped'
    BY <1>1, <1>4, <2>1, CountingTyped, JobUpdateTyped DEF WarnOwners
  <2>3. told' \in [Org -> [WarnAt -> Nat]]
    BY <1>4, <2>1 DEF WarnOwners
  <2>4. QED
    BY <1>4, <2>2, <2>3 DEF WarnOwners, TabsTyped
<1>5. QED
  BY <1>2, <1>3, <1>4

\* What putChunk has learnt when it returns: k is the request with what flowed and what Google
\* confirmed, which is no more than Google holds by then.
PutLearns(h, k, sent) ==
  /\ job' = [job EXCEPT ![h] = Counting(k)] /\ flowed' = flowed + sent
  /\ held' = [held EXCEPT ![job[h].up] = held'[job[h].up]] /\ held'[job[h].up] \in Bytes
  /\ k.up = job[h].up /\ k.org = job[h].org /\ k.kind = job[h].kind /\ k.sent = sent
  /\ k.confirmed <= held'[k.up] /\ (k.full => held'[k.up] = Total)

LEMMA PutEffect ==
  ASSUME Typed, NEW h \in Handler, PutChunk(h)
  PROVE  /\ job[h].up \in Upload /\ job[h].org \in Org /\ job[h].sent \in 0 .. Document
         /\ \E k \in Job : \E sent \in 0 .. job[h].sent : PutLearns(h, k, sent)
<1> DEFINE j == job[h]
           length == j.sent
<1>1. /\ j \in Job /\ Sound(j) /\ j.at = "put" /\ j.up \in Upload /\ j.org \in Org
      /\ held \in [Upload -> Bytes] /\ held[j.up] \in Bytes /\ j.start \in Bytes /\ length \in 0 .. Document
  BY DEF PutChunk, Typed, JobsTyped, Sound, Job
<1>2. PICK failure \in {"none"} \cup ({"transient", "not-found"} \cap Offered),
           kept \in 0 .. length : \E sent \in {0, kept, length} :
          /\ failure = "none" => sent = length
          /\ failure = "not-found" => kept = 0
          /\ LET now == IF j.start <= held[j.up] THEN Larger(held[j.up], j.start + kept) ELSE held[j.up]
             IN /\ held' = [held EXCEPT ![j.up] = now]
                /\ job' = [job EXCEPT ![h] = Counting([j EXCEPT
                       !.sent = sent, !.failure = failure,
                       !.confirmed = IF failure = "none" THEN now ELSE 0,
                       !.full = failure = "none" /\ now = Total])]
          /\ flowed' = flowed + sent
  BY DEF PutChunk
<1> DEFINE now == IF j.start <= held[j.up] THEN Larger(held[j.up], j.start + kept) ELSE held[j.up]
<1>3. PICK sent \in {0, kept, length} :
          /\ held' = [held EXCEPT ![j.up] = now]
          /\ job' = [job EXCEPT ![h] = Counting([j EXCEPT
                       !.sent = sent, !.failure = failure,
                       !.confirmed = IF failure = "none" THEN now ELSE 0,
                       !.full = failure = "none" /\ now = Total])]
          /\ flowed' = flowed + sent
  BY <1>2
<1>4. sent \in 0 .. length /\ sent \in 0 .. Document
  BY <1>1, <1>3, GatewayAssumption
<1>5. now \in Bytes
  BY <1>1, GatewayAssumption DEF Larger, Bytes, Sound
<1> DEFINE c == IF failure = "none" THEN now ELSE 0
           f == failure = "none" /\ now = Total
           k == [j EXCEPT !.sent = sent, !.failure = failure, !.confirmed = c, !.full = f]
<1>6. c \in Bytes /\ f \in BOOLEAN /\ c <= now /\ (f => now = Total)
  BY <1>5, GatewayAssumption DEF Bytes
<1>7. held' = [held EXCEPT ![j.up] = now] /\ job' = [job EXCEPT ![h] = Counting(k)] /\ flowed' = flowed + sent
  BY <1>3
<1> HIDE DEF now, c, f
<1>8. k \in Job /\ k.up = j.up /\ k.org = j.org /\ k.kind = j.kind /\ k.sent = sent /\ k.confirmed = c /\ k.full = f
  BY <1>1, <1>4, <1>6 DEF Job
<1> HIDE DEF k, j, length
<1>9. held'[j.up] = now /\ held' = [held EXCEPT ![j.up] = held'[j.up]]
  BY <1>1, <1>7
<1>10. PutLearns(h, k, sent)
  BY <1>5, <1>6, <1>7, <1>8, <1>9 DEF PutLearns, j
<1>11. QED
  BY <1>1, <1>4, <1>8, <1>10 DEF j, length

LEMMA PutTyped ==
  ASSUME Typed, NEW h \in Handler, PutChunk(h)
  PROVE  Typed'
<1>1. job[h].up \in Upload /\ job[h].org \in Org /\ job[h].sent \in 0 .. Document
  BY PutEffect
<1>2. PICK k \in Job, sent \in 0 .. job[h].sent : PutLearns(h, k, sent)
  BY PutEffect
<1>3. Counting(k) \in Job /\ Sound(Counting(k))
  BY <1>1, <1>2, CountingTyped DEF PutLearns
<1>4. JobsTyped'
  BY <1>2, <1>3, JobUpdateTyped DEF PutLearns, Typed
<1>5. held' \in [Upload -> Bytes]
  BY <1>2 DEF PutLearns, Typed
<1>6. flowed' \in Nat
  BY <1>1, <1>2, GatewayAssumption DEF PutLearns, Typed, CountsTyped
<1>7. QED
  BY <1>4, <1>5, <1>6 DEF PutChunk, Typed, TabsTyped, CountsTyped

LEMMA ConfirmTyped ==
  ASSUME Typed, NEW h \in Handler, Confirm(h) \/ QuerySession(h) \/ SaveStatus(h)
  PROVE  Typed'
<1> USE DEF Typed, CountsTyped
<1> DEFINE j == job[h]
<1>1. /\ j \in Job /\ Sound(j) /\ j.up \in Upload /\ j.org \in Org /\ j.confirmed \in Bytes
      /\ j.full \in BOOLEAN /\ held[j.up] \in Bytes /\ row[j.up] \in SessionRow
  BY DEF Confirm, QuerySession, SaveStatus, JobsTyped, Sound, Job
<1>2. Reply("ok", j.confirmed, j.full) \in Answers /\ Failure(j) \in Answers
  BY <1>1, RepliesTyped DEF Failure
<1>3. \A b \in BOOLEAN :
        [row EXCEPT ![j.up].confirmed = j.confirmed, ![j.up].completed = @ \/ b] \in [Upload -> SessionRow]
  BY <1>1 DEF SessionRow
<1>4. CASE Confirm(h)
  <2>1. CASE row[j.up].state = "open"
    <3>1. Answer(h, Reply("ok", j.confirmed, j.full)) /\ row' \in [Upload -> SessionRow]
      BY <1>1, <1>3, <1>4, <2>1 DEF Confirm
    <3>2. QED
      BY <1>1, <1>2, <1>4, <3>1, AnswerTyped DEF Confirm
  <2>2. CASE row[j.up].state # "open"
    <3>1. [j EXCEPT !.failure = "transient"] \in Job
      BY <1>1 DEF Job
    <3>2. /\ Counting([j EXCEPT !.failure = "transient"]) \in Job
          /\ Sound(Counting([j EXCEPT !.failure = "transient"]))
      BY <1>1, <3>1, CountingTyped DEF Job
    <3>3. job' = [job EXCEPT ![h] = Counting([j EXCEPT !.failure = "transient"])] /\ UNCHANGED <<row, tab>>
      BY <1>4, <2>2 DEF Confirm
    <3>4. QED
      BY <1>4, <3>2, <3>3, JobUpdateTyped DEF Confirm, TabsTyped
  <2>3. QED
    BY <2>1, <2>2
<1>5. CASE QuerySession(h)
  <2>1. CASE Answer(h, Failure(j))
    BY <1>1, <1>2, <1>5, <2>1, AnswerTyped DEF QuerySession
  <2>2. CASE UNCHANGED tab /\ job' = [job EXCEPT ![h] = [j EXCEPT !.at = "save", !.confirmed = held[j.up],
                                                                  !.full = held[j.up] = Total]]
    <3> DEFINE k == [j EXCEPT !.at = "save", !.confirmed = held[j.up], !.full = held[j.up] = Total]
    <3>1. k \in Job /\ Sound(k)
      BY <1>1, <1>5 DEF QuerySession, Job, Sound
    <3>2. QED
      BY <1>5, <2>2, <3>1, JobUpdateTyped DEF QuerySession, TabsTyped
  <2>3. QED
    BY <1>5, <2>1, <2>2 DEF QuerySession
<1>6. CASE SaveStatus(h)
  <2>1. row' \in [Upload -> SessionRow]
    BY <1>1, <1>3, <1>6 DEF SaveStatus
  <2>2. PICK r \in Answers : Answer(h, r)
    <3>1. /\ Answer(h, Reply("ok", j.confirmed, j.full)) \/ Answer(h, Failure(j)) \/ Answer(h, Dropped)
          /\ Dropped \in Answers
      <4>1. CASE row[j.up].state = "open" /\ j.kind = "ask"
        BY <1>6, <4>1, RepliesTyped DEF SaveStatus
      <4>2. CASE row[j.up].state = "open" /\ j.kind # "ask"
        BY <1>6, <4>2, RepliesTyped DEF SaveStatus
      <4>3. CASE row[j.up].state # "open"
        BY <1>6, <4>3, RepliesTyped DEF SaveStatus
      <4>4. QED
        BY <4>1, <4>2, <4>3
    <3> HIDE DEF j
    <3>2. QED
      BY <1>2, <3>1
  <2>3. QED
    BY <1>1, <1>6, <2>1, <2>2, AnswerTyped DEF SaveStatus
<1>7. QED
  BY <1>4, <1>5, <1>6

LEMMA ReadTyped ==
  ASSUME Typed, NEW h \in Handler, Flow(h) \/ \E o \in Org : Read(h, o)
  PROVE  Typed'
<1> USE DEF Typed, CountsTyped
<1>1. CASE Flow(h)
  <2>1. job[h] \in Job /\ Sound(job[h]) /\ job[h].org \in Org /\ (job[h].kind # "read" => job[h].up \in Upload)
    BY <1>1 DEF Flow, JobsTyped, Sound
  <2>2. PICK sent \in 0 .. Document :
          flowed' = flowed + sent /\ job' = [job EXCEPT ![h] = Counting([job[h] EXCEPT !.sent = sent])]
    BY <1>1 DEF Flow
  <2> DEFINE k == [job[h] EXCEPT !.sent = sent]
  <2>3. k \in Job /\ k.org \in Org /\ (k.kind # "read" => k.up \in Upload)
    BY <2>1 DEF Job
  <2>4. Counting(k) \in Job /\ Sound(Counting(k))
    BY <2>3, CountingTyped
  <2>5. flowed' \in Nat
    BY <2>2, GatewayAssumption
  <2>6. JobsTyped'
    BY <2>2, <2>4, JobUpdateTyped
  <2>7. QED
    BY <1>1, <2>5, <2>6 DEF Flow, TabsTyped
<1>2. ASSUME NEW o \in Org, Read(h, o) PROVE Typed'
  <2> DEFINE k == [Rest EXCEPT !.at = "flow", !.org = o]
  <2>1. k \in Job /\ Sound(k)
    BY RestTyped DEF Rest, Job, Sound
  <2>2. JobsTyped'
    BY <1>2, <2>1, JobUpdateTyped DEF Read
  <2>3. QED
    BY <1>2, <2>2 DEF Read, TabsTyped
<1>3. QED
  BY <1>1, <1>2

LEMMA RestartTyped ==
  ASSUME Typed, Restart
  PROVE  Typed'
<1> USE DEF Typed, CountsTyped
<1>1. JobsTyped'
  BY RestTyped DEF Restart, JobsTyped
<1>2. TabsTyped'
  <2>1. ASSUME NEW u \in Upload PROVE Hears(tab[u], Dropped) \in Tab /\ Fit(Hears(tab[u], Dropped))
    <3>1. tab[u] \in Tab /\ Fit(tab[u]) /\ tab[u].offset \in Int /\ Dropped.confirmed <= tab[u].offset
      BY GatewayAssumption DEF TabsTyped, Tab, Bytes, Dropped, Reply
    <3>2. QED
      BY <3>1, RepliesTyped, HearsTyped
  <2>2. tab' = [u \in Upload |-> IF tab[u].call = None THEN tab[u] ELSE Hears(tab[u], Dropped)]
    BY DEF Restart
  <2>3. \A u \in Upload : tab'[u] \in Tab /\ Fit(tab'[u])
    BY <2>1, <2>2 DEF TabsTyped
  <2>4. QED
    BY <2>2, <2>3 DEF TabsTyped
<1>3. flowed' \in Nat
  BY GatewayAssumption DEF Restart, Smaller
<1>4. unsaid' \in [Org -> SUBSET WarnAt]
  <2>1. unsaid' = [o \in Org |-> unsaid[o] \cup {job[h].line : h \in {h \in Handler :
                                               job[h].at = "warn" /\ job[h].org = o}}]
    BY DEF Restart
  <2>2. ASSUME NEW o \in Org PROVE unsaid'[o] \in SUBSET WarnAt
    BY <2>1 DEF JobsTyped, Sound
  <2>3. QED
    BY <2>1, <2>2
<1>5. QED
  BY <1>1, <1>2, <1>3, <1>4 DEF Restart

LEMMA TypedStep ==
  ASSUME Typed, [Next]_vars
  PROVE  Typed'
<1>1. CASE UNCHANGED vars
  BY <1>1 DEF vars, Typed, TabsTyped, JobsTyped, CountsTyped
<1>2. ASSUME NEW u \in Upload, Begin(u) \/ Drop(u) \/ Refuse(u) \/ Browse(u) PROVE Typed'
  BY <1>2, BrowserTyped, AdmitTyped DEF Browse
<1>3. ASSUME NEW h \in Handler, Serve(h) \/ \E o \in Org : Read(h, o) PROVE Typed'
  BY <1>3, CountTyped, PutTyped, ConfirmTyped, ReadTyped DEF Serve
<1>4. CASE Restart
  BY <1>4, RestartTyped
<1>5. QED
  BY <1>1, <1>2, <1>3, <1>4 DEF Next

LEMMA TypedHolds == Spec => []Typed
<1>1. Init => Typed
  BY InitTyped
<1>2. Typed /\ [Next]_vars => Typed'
  BY TypedStep
<1>3. QED
  BY <1>1, <1>2, PTL DEF Spec

\* Every variable of the gateway keeps its type, whatever drops, fails or restarts.
THEOREM TypeCorrect == Spec => []TypeOK
<1>1. Typed => TypeOK
  BY DEF Typed, TabsTyped, JobsTyped, CountsTyped, TypeOK
<1>2. QED
  BY <1>1, TypedHolds, PTL

-----------------------------------------------------------------------------
(* No byte is skipped.  What a request in flight knows of Google's offset is   *)
(* no more than Google holds, and Google gives nothing back.                   *)

Backed(j) == j.up \in Upload => j.confirmed <= held[j.up] /\ (j.full => held[j.up] = Total)

BrowserBehind(u) == tab[u].offset <= held[u] /\ (tab[u].at \in {"pin", "done"} => held[u] = Total)
RowBehind(u) == row[u].confirmed <= held[u] /\ (row[u].completed => held[u] = Total)

Behind ==
  /\ \A u \in Upload : BrowserBehind(u) /\ RowBehind(u)
  /\ \A h \in Handler : Backed(job[h])

LEMMA BehindNeverAhead == Behind => NeverAhead
BY DEF Behind, BrowserBehind, RowBehind, NeverAhead

\* Google only ever appends.
LEMMA HeldGrows ==
  ASSUME Typed, [Next]_vars, NEW u \in Upload
  PROVE  held[u] <= held'[u] /\ held[u] \in Bytes /\ held'[u] \in Bytes
<1>1. held \in [Upload -> Bytes] /\ held' \in [Upload -> Bytes]
  BY TypedStep DEF Typed
<1>2. ASSUME NEW h \in Handler, PutChunk(h) PROVE held[u] <= held'[u]
  <2> DEFINE j == job[h]
  <2>1. PICK kept \in 0 .. j.sent : LET now == IF j.start <= held[j.up] THEN Larger(held[j.up], j.start + kept) ELSE held[j.up]
             IN held' = [held EXCEPT ![j.up] = now]
    BY <1>2 DEF PutChunk
  <2>2. j.up \in Upload /\ j.start \in Int /\ j.sent \in Int /\ held[j.up] \in Int
    BY <1>1, <1>2, GatewayAssumption DEF PutChunk, Typed, JobsTyped, Sound, Job, Bytes
  <2>3. j.start + kept \in Int
    BY <2>2
  <2>4. held[j.up] <= held'[j.up]
    BY <1>1, <2>1, <2>2, <2>3 DEF Larger
  <2>5. CASE u = j.up
    BY <2>4, <2>5
  <2>6. CASE u # j.up
    BY <1>1, <2>1, <2>6 DEF Bytes
  <2>7. QED
    BY <2>5, <2>6
<1>3. CASE UNCHANGED held
  BY <1>1, <1>3, GatewayAssumption DEF Bytes
<1>4. ASSUME NEW v \in Upload, Begin(v) \/ Drop(v) \/ Refuse(v) \/ Browse(v) PROVE UNCHANGED held
  BY <1>4 DEF Begin, Drop, Refuse, Browse, Commit, Pin, AnswerFromRow, RefuseOutOfOrder,
              RefuseOverBudget, Admit
<1>5. ASSUME NEW h \in Handler, Serve(h) \/ \E o \in Org : Read(h, o), ~PutChunk(h) PROVE UNCHANGED held
  BY <1>5 DEF Serve, RecordTotal, RecordOrg, WarnOwners, Confirm, QuerySession, SaveStatus, Flow, Read
<1>6. CASE Restart \/ UNCHANGED vars
  BY <1>3, <1>6 DEF Restart, vars
<1>7. QED
  BY <1>1, <1>2, <1>3, <1>4, <1>5, <1>6 DEF Next

\* What a step leaves alone stays behind Google, and what it replaces must be.
LEMMA BehindUpdates ==
  ASSUME Typed, [Next]_vars, Behind
  PROVE  /\ UNCHANGED tab => \A v \in Upload : BrowserBehind(v)'
         /\ UNCHANGED row => \A v \in Upload : RowBehind(v)'
         /\ UNCHANGED job => \A g \in Handler : Backed(job[g])'
         /\ \A u \in Upload : \A t \in Tab :
              tab' = [tab EXCEPT ![u] = t] /\ t.offset <= held[u] /\ (t.at \in {"pin", "done"} => held[u] = Total)
              => \A v \in Upload : BrowserBehind(v)'
         /\ \A u \in Upload : \A r \in SessionRow :
              row' = [row EXCEPT ![u] = r] /\ r.confirmed <= held[u] /\ (r.completed => held[u] = Total)
              => \A v \in Upload : RowBehind(v)'
         /\ \A h \in Handler : \A j \in Job :
              job' = [job EXCEPT ![h] = j]
              /\ (j.up \in Upload => j.confirmed <= held'[j.up] /\ (j.full => held'[j.up] = Total))
              => \A g \in Handler : Backed(job[g])'
<1>1. \A v \in Upload : held[v] <= held'[v] /\ held[v] \in Int /\ held'[v] \in Int
                        /\ held'[v] <= Total /\ Total \in Int
  BY HeldGrows, GatewayAssumption DEF Bytes
<1>2. \A v \in Upload, n \in Int : n <= held[v] => n <= held'[v]
  BY <1>1
<1>3. \A v \in Upload : held[v] = Total => held'[v] = Total
  BY <1>1
<1>4. \A v \in Upload : tab[v].offset \in Int /\ row[v].confirmed \in Int
  BY GatewayAssumption DEF Typed, TabsTyped, Tab, SessionRow, Bytes
<1>5. \A v \in Upload : /\ tab[v].offset <= held'[v] /\ row[v].confirmed <= held'[v]
                        /\ tab[v].at \in {"pin", "done"} => held'[v] = Total
                        /\ row[v].completed => held'[v] = Total
  BY <1>2, <1>3, <1>4 DEF Behind, BrowserBehind, RowBehind
<1>6. ASSUME NEW g \in Handler, job[g].up \in Upload
      PROVE  job[g].confirmed <= held'[job[g].up] /\ (job[g].full => held'[job[g].up] = Total)
  <2>1. job[g].confirmed \in Int
    BY GatewayAssumption DEF Typed, JobsTyped, Job, Bytes
  <2>2. QED
    BY <1>2, <1>3, <1>6, <2>1 DEF Behind, Backed
<1>7. ASSUME NEW u \in Upload, NEW t \in Tab, tab' = [tab EXCEPT ![u] = t], t.offset <= held[u],
             t.at \in {"pin", "done"} => held[u] = Total, NEW v \in Upload
      PROVE  BrowserBehind(v)'
  <2>1. tab'[v] = IF v = u THEN t ELSE tab[v]
    BY <1>7 DEF Typed, TabsTyped
  <2>2. t.offset \in Int
    BY GatewayAssumption DEF Tab, Bytes
  <2>3. CASE v = u
    BY <1>2, <1>3, <1>7, <2>1, <2>2, <2>3 DEF BrowserBehind
  <2>4. CASE v # u
    BY <1>5, <2>1, <2>4 DEF BrowserBehind
  <2>5. QED
    BY <2>3, <2>4
<1>8. ASSUME NEW u \in Upload, NEW r \in SessionRow, row' = [row EXCEPT ![u] = r], r.confirmed <= held[u],
             r.completed => held[u] = Total, NEW v \in Upload
      PROVE  RowBehind(v)'
  <2>1. row'[v] = IF v = u THEN r ELSE row[v]
    BY <1>8 DEF Typed
  <2>2. r.confirmed \in Int
    BY GatewayAssumption DEF SessionRow, Bytes
  <2>3. CASE v = u
    BY <1>2, <1>3, <1>8, <2>1, <2>2, <2>3 DEF RowBehind
  <2>4. CASE v # u
    BY <1>5, <2>1, <2>4 DEF RowBehind
  <2>5. QED
    BY <2>3, <2>4
<1>9. ASSUME NEW h \in Handler, NEW j \in Job, job' = [job EXCEPT ![h] = j],
             j.up \in Upload => j.confirmed <= held'[j.up] /\ (j.full => held'[j.up] = Total), NEW g \in Handler
      PROVE  Backed(job[g])'
  <2>1. job'[g] = IF g = h THEN j ELSE job[g]
    BY <1>9 DEF Typed, JobsTyped
  <2>2. CASE g = h
    BY <1>9, <2>1, <2>2 DEF Backed
  <2>3. CASE g # h
    BY <1>6, <2>1, <2>3 DEF Backed
  <2>4. QED
    BY <2>2, <2>3
<1>10. QED
  BY <1>5, <1>6, <1>7, <1>8, <1>9 DEF BrowserBehind, RowBehind, Backed

LEMMA HearsBehind ==
  ASSUME Typed, [Next]_vars, Behind, NEW u \in Upload, NEW r \in Answers, r.confirmed <= held[u],
         tab' = [tab EXCEPT ![u] = Hears(@, r)]
  PROVE  \A v \in Upload : BrowserBehind(v)'
<1>1. tab[u] \in Tab /\ Fit(tab[u]) /\ held[u] \in Int /\ tab[u].offset <= held[u]
  BY GatewayAssumption DEF Typed, TabsTyped, Behind, BrowserBehind, Bytes
<1>2. /\ Hears(tab[u], r) \in Tab /\ Hears(tab[u], r).at \notin {"pin", "done"}
      /\ Hears(tab[u], r).offset <= held[u]
  BY <1>1, HearsTyped
<1>3. QED
  BY <1>2, BehindUpdates

\* A reply that carries no offset never runs ahead.
LEMMA BlankReplies ==
  ASSUME Typed, NEW u \in Upload, NEW r \in {Dropped, Final}
  PROVE  r \in Answers /\ r.confirmed <= held[u]
<1>1. held[u] \in Int /\ 0 <= held[u]
  BY GatewayAssumption DEF Typed, Bytes
<1>2. r.confirmed = 0
  BY DEF Dropped, Final, Reply
<1>3. QED
  BY <1>1, <1>2, RepliesTyped

LEMMA TellBehind ==
  ASSUME Typed, [Next]_vars, Behind, NEW u \in Upload, NEW r \in Answers, r.confirmed <= held[u], Tell(u, r)
  PROVE  \A v \in Upload : BrowserBehind(v)'
BY BlankReplies, HearsBehind DEF Tell

LEMMA BrowserBehindStep ==
  ASSUME Typed, [Next]_vars, Behind, NEW u \in Upload,
         Begin(u) \/ Commit(u) \/ Pin(u) \/ Drop(u) \/ Refuse(u) \/ AnswerFromRow(u)
         \/ RefuseOutOfOrder(u) \/ RefuseOverBudget(u)
  PROVE  Behind'
<1>1. /\ tab[u] \in Tab /\ row[u] \in SessionRow
      /\ BrowserBehind(u) /\ RowBehind(u)
  BY DEF Typed, TabsTyped, Behind
<1>2. \A at \in {"send", "pin", "done"} :
        /\ [tab[u] EXCEPT !.at = at] \in Tab /\ [tab[u] EXCEPT !.at = at].offset = tab[u].offset
        /\ [tab[u] EXCEPT !.at = at].at = at
  BY <1>1 DEF Tab
<1>3. Failed(tab[u]) \in Tab /\ Failed(tab[u]).offset = tab[u].offset /\ Failed(tab[u]).at = "failed"
  BY <1>1 DEF Failed, Tab
<1>4. \A state \in {"open", "gone"} :
        row' = [row EXCEPT ![u].state = state] => \A v \in Upload : RowBehind(v)'
  <2>1. ASSUME NEW state \in {"open", "gone"} PROVE
          LET r == [row[u] EXCEPT !.state = state]
          IN r \in SessionRow /\ r.confirmed = row[u].confirmed /\ r.completed = row[u].completed
    BY <1>1 DEF SessionRow
  <2>2. QED
    BY <1>1, <2>1, BehindUpdates DEF RowBehind
<1>5. \A v \in Upload : RowBehind(v)'
  BY <1>4, BehindUpdates DEF Begin, Commit, Pin, Drop, Refuse, AnswerFromRow, RefuseOutOfOrder, RefuseOverBudget
<1>6. \A g \in Handler : Backed(job[g])'
  BY BehindUpdates DEF Begin, Commit, Pin, Drop, Refuse, AnswerFromRow, RefuseOutOfOrder, RefuseOverBudget
<1>7. \A v \in Upload : BrowserBehind(v)'
  <2>1. CASE Begin(u)
    BY <1>1, <1>2, <2>1, BehindUpdates DEF Begin, BrowserBehind
  <2>2. CASE Commit(u)
    BY <1>1, <1>2, <1>3, <2>2, BehindUpdates DEF Commit, BrowserBehind, RowBehind
  <2>3. CASE Pin(u)
    BY <1>1, <1>2, <1>3, <2>3, BehindUpdates DEF Pin, BrowserBehind
  <2>4. CASE Drop(u) \/ Refuse(u)
    BY <2>4, BlankReplies, HearsBehind DEF Drop, Refuse
  <2>5. CASE RefuseOverBudget(u)
    BY <2>5, BlankReplies, TellBehind DEF RefuseOverBudget
  <2>6. CASE RefuseOutOfOrder(u)
    <3>1. Reply("conflict", row[u].confirmed, FALSE) \in Answers
      BY <1>1, RepliesTyped DEF SessionRow
    <3>2. Reply("conflict", row[u].confirmed, FALSE).confirmed <= held[u]
      BY <1>1 DEF Reply, RowBehind
    <3>3. QED
      BY <2>6, <3>1, <3>2, TellBehind DEF RefuseOutOfOrder
  <2>7. CASE AnswerFromRow(u)
    <3>1. CASE row[u].state = "gone"
      BY <2>7, <3>1, BlankReplies, TellBehind DEF AnswerFromRow
    <3>2. CASE row[u].state # "gone"
      <4>1. Reply("ok", Total, TRUE) \in Answers
        <5>1. Total \in Bytes
          BY GatewayAssumption DEF Bytes
        <5>2. QED
          BY <5>1, RepliesTyped
      <4>2. Reply("ok", Total, TRUE).confirmed <= held[u]
        BY <1>1, <2>7, <3>2, GatewayAssumption DEF Reply, RowBehind, AnswerFromRow
      <4>3. QED
        BY <2>7, <3>2, <4>1, <4>2, TellBehind DEF AnswerFromRow
    <3>3. QED
      BY <3>1, <3>2
  <2>8. QED
    BY <2>1, <2>2, <2>3, <2>4, <2>5, <2>6, <2>7
<1>8. QED
  BY <1>5, <1>6, <1>7 DEF Behind

LEMMA AnswerBehind ==
  ASSUME Typed, [Next]_vars, Behind, NEW h \in Handler, job[h].up \in Upload,
         NEW r \in Answers, r.confirmed <= held[job[h].up], Answer(h, r)
  PROVE  (\A v \in Upload : BrowserBehind(v)') /\ \A g \in Handler : Backed(job[g])'
<1>1. \A v \in Upload : 0 <= held'[v]
  BY HeldGrows, GatewayAssumption DEF Bytes
<1>2. \A g \in Handler : Backed(job[g])'
  <2>1. Rest \in Job /\ Rest.confirmed = 0 /\ ~Rest.full /\ job' = [job EXCEPT ![h] = Rest]
    BY RestTyped DEF Rest, Answer
  <2>2. QED
    BY <1>1, <2>1, BehindUpdates
<1>3. \A v \in Upload : BrowserBehind(v)'
  <2>1. CASE tab' = tab
    BY <2>1, BehindUpdates
  <2>2. CASE tab' = [tab EXCEPT ![job[h].up] = Hears(@, r)]
    BY <2>2, HearsBehind
  <2>3. QED
    BY <2>1, <2>2 DEF Answer
<1>4. QED
  BY <1>2, <1>3

\* A request that goes on, or counts its bytes, still knows what it knew, or nothing.
LEMMA CountingKnows ==
  ASSUME NEW j \in Job
  PROVE  \A k \in {Onward(j), Counting(j)} :
           (k.up = j.up /\ k.confirmed = j.confirmed /\ k.full = j.full) \/ k = Rest
<1>1. \/ Onward(j).up = j.up /\ Onward(j).confirmed = j.confirmed /\ Onward(j).full = j.full
      \/ Onward(j) = Rest
  <2>1. CASE j.kind = "read"
    BY <2>1 DEF Onward
  <2>2. CASE j.kind # "read" /\ j.failure # "none"
    <3>1. Onward(j) = [j EXCEPT !.at = "query", !.line = 0]
      BY <2>2 DEF Onward
    <3>2. QED
      BY <3>1 DEF Job
  <2>3. CASE j.kind # "read" /\ j.failure = "none"
    <3>1. Onward(j) = [j EXCEPT !.at = "confirm", !.line = 0]
      BY <2>3 DEF Onward
    <3>2. QED
      BY <3>1 DEF Job
  <2>4. QED
    BY <2>1, <2>2, <2>3
<1>2. LET k == [j EXCEPT !.at = "total"] IN k.up = j.up /\ k.confirmed = j.confirmed /\ k.full = j.full
  BY DEF Job
<1>3. QED
  BY <1>1, <1>2 DEF Counting

\* ... so it is backed if it was.
LEMMA KnowsBacked ==
  ASSUME Typed, [Next]_vars, Behind, NEW h \in Handler, NEW j \in Job, NEW k \in Job,
         j.up \in Upload => j.confirmed <= held'[j.up] /\ (j.full => held'[j.up] = Total),
         (k.up = j.up /\ k.confirmed = j.confirmed /\ k.full = j.full) \/ k = Rest,
         job' = [job EXCEPT ![h] = k]
  PROVE  \A g \in Handler : Backed(job[g])'
<1>1. CASE k = Rest
  <2>1. k.confirmed = 0 /\ ~k.full
    BY <1>1 DEF Rest
  <2>2. \A v \in Upload : 0 <= held'[v]
    BY HeldGrows, GatewayAssumption DEF Bytes
  <2>3. QED
    BY <2>1, <2>2, BehindUpdates
<1>2. CASE k.up = j.up /\ k.confirmed = j.confirmed /\ k.full = j.full
  BY <1>2, BehindUpdates
<1>3. QED
  BY <1>1, <1>2

\* What a request knew of Google before a step it knows after it.
LEMMA StillBacked ==
  ASSUME Typed, [Next]_vars, Behind, NEW h \in Handler, job[h].up \in Upload
  PROVE  job[h].confirmed <= held'[job[h].up] /\ (job[h].full => held'[job[h].up] = Total)
<1>1. job[h].confirmed \in Int /\ job[h].confirmed <= held[job[h].up] /\ (job[h].full => held[job[h].up] = Total)
  BY GatewayAssumption DEF Typed, JobsTyped, Job, Bytes, Behind, Backed
<1>2. held[job[h].up] <= held'[job[h].up] /\ held[job[h].up] \in Int /\ held'[job[h].up] \in 0 .. Total
  BY HeldGrows DEF Bytes
<1>3. QED
  BY <1>1, <1>2, GatewayAssumption

LEMMA AdmitBehind ==
  ASSUME Typed, [Next]_vars, Behind, NEW u \in Upload, NEW h \in Handler, Admit(u, h)
  PROVE  Behind'
<1> DEFINE mine == [Rest EXCEPT !.up = u, !.org = OwnerOf[u], !.start = tab[u].offset]
<1>1. /\ tab[u] \in Tab /\ BrowserBehind(u) /\ job'[h] \in Job /\ tab'[u] \in Tab
      /\ job \in [Handler -> Job] /\ tab \in [Upload -> Tab]
  BY TypedStep DEF Typed, TabsTyped, JobsTyped, Behind
<1>2. \A v \in Upload : RowBehind(v)'
  BY BehindUpdates DEF Admit
<1>3. mine.confirmed = 0 /\ mine.full = FALSE /\ DOMAIN mine = DOMAIN Rest
  BY DEF Rest
<1>4. tab'[u].offset = tab[u].offset /\ tab'[u].at \notin {"pin", "done"} /\ tab' = [tab EXCEPT ![u] = tab'[u]]
  <2>1. tab' = [tab EXCEPT ![u].at = "sent", ![u].call = h] \/ tab' = [tab EXCEPT ![u].at = "asked", ![u].call = h]
    BY DEF Admit
  <2>2. tab' = [tab EXCEPT ![u] = tab'[u]]
    BY <1>1, <2>1
  <2>3. QED
    BY <1>1, <2>1, <2>2 DEF Tab
<1>5. \A v \in Upload : BrowserBehind(v)'
  BY <1>1, <1>4, BehindUpdates DEF BrowserBehind
<1>6. job'[h].confirmed = 0 /\ job'[h].full = FALSE /\ job' = [job EXCEPT ![h] = job'[h]]
  <2>1. \/ job' = [job EXCEPT ![h] = [mine EXCEPT !.at = "put", !.kind = "chunk", !.sent = End(tab[u]) - tab[u].offset]]
        \/ job' = [job EXCEPT ![h] = [mine EXCEPT !.at = "query", !.kind = "ask"]]
    BY DEF Admit
  <2>2. job' = [job EXCEPT ![h] = job'[h]]
    BY <1>1, <2>1
  <2> HIDE DEF mine
  <2>3. job'[h].confirmed = 0 /\ job'[h].full = FALSE
    BY <1>1, <1>3, <2>1 DEF Rest
  <2>4. QED
    BY <2>2, <2>3
<1>7. \A g \in Handler : Backed(job[g])'
  <2>1. \A v \in Upload : 0 <= held'[v]
    BY HeldGrows, GatewayAssumption DEF Bytes
  <2>2. job'[h].up \in Upload => job'[h].confirmed <= held'[job'[h].up] /\ (job'[h].full => held'[job'[h].up] = Total)
    BY <1>6, <2>1
  <2>3. QED
    BY <1>1, <1>6, <2>2, BehindUpdates
<1>8. QED
  BY <1>2, <1>5, <1>7 DEF Behind

LEMMA CountBehind ==
  ASSUME Typed, [Next]_vars, Behind, NEW h \in Handler,
         RecordTotal(h) \/ RecordOrg(h) \/ WarnOwners(h) \/ Flow(h) \/ \E o \in Org : Read(h, o)
  PROVE  Behind'
<1> DEFINE j == job[h]
<1>1. j \in Job /\ job'[h] \in Job /\ job \in [Handler -> Job]
  BY TypedStep DEF Typed, JobsTyped
<1>2. UNCHANGED <<tab, row>>
  BY DEF RecordTotal, RecordOrg, WarnOwners, Flow, Read
<1>3. ASSUME NEW k, job' = [job EXCEPT ![h] = k],
             (k.up = j.up /\ k.confirmed = j.confirmed /\ k.full = j.full) \/ k = Rest
      PROVE  \A g \in Handler : Backed(job[g])'
  <2>1. k = job'[h]
    BY <1>1, <1>3
  <2>2. j.up \in Upload => j.confirmed <= held'[j.up] /\ (j.full => held'[j.up] = Total)
    BY StillBacked
  <2> HIDE DEF j
  <2>3. QED
    BY <1>1, <1>3, <2>1, <2>2, KnowsBacked
<1>4. \A g \in Handler : Backed(job[g])'
  <2>1. CASE RecordTotal(h)
    BY <1>1, <1>3, <2>1 DEF RecordTotal, Job
  <2>2. CASE RecordOrg(h)
    <3>1. PICK l : job' = [job EXCEPT ![h] = Onward(j)] \/ job' = [job EXCEPT ![h] = [j EXCEPT !.at = "warn", !.line = l]]
      BY <2>2 DEF RecordOrg
    <3>2. LET k == [j EXCEPT !.at = "warn", !.line = l]
          IN k.up = j.up /\ k.confirmed = j.confirmed /\ k.full = j.full
      BY <1>1 DEF Job
    <3>3. QED
      BY <1>1, <1>3, <3>1, <3>2, CountingKnows
  <2>3. CASE WarnOwners(h)
    BY <1>1, <1>3, <2>3, CountingKnows DEF WarnOwners
  <2>4. CASE Flow(h)
    <3>1. PICK sent \in 0 .. Document : job' = [job EXCEPT ![h] = Counting([j EXCEPT !.sent = sent])]
      BY <2>4 DEF Flow
    <3> DEFINE k == [j EXCEPT !.sent = sent]
    <3>2. k \in Job /\ k.up = j.up /\ k.confirmed = j.confirmed /\ k.full = j.full
      BY <1>1 DEF Job
    <3>3. QED
      BY <1>3, <3>1, <3>2, CountingKnows
  <2>5. ASSUME NEW o \in Org, Read(h, o) PROVE \A g \in Handler : Backed(job[g])'
    <3>1. job' = [job EXCEPT ![h] = job'[h]] /\ job'[h] = [Rest EXCEPT !.at = "flow", !.org = o]
      BY <1>1, <2>5 DEF Read
    <3>2. job'[h].confirmed = 0 /\ ~job'[h].full
      BY <3>1 DEF Rest
    <3>3. \A v \in Upload : 0 <= held'[v]
      BY HeldGrows, GatewayAssumption DEF Bytes
    <3>4. job'[h].up \in Upload => job'[h].confirmed <= held'[job'[h].up] /\ (job'[h].full => held'[job'[h].up] = Total)
      BY <3>2, <3>3
    <3>5. QED
      BY <1>1, <3>1, <3>4, BehindUpdates
  <2>6. QED
    BY <2>1, <2>2, <2>3, <2>4, <2>5
<1>5. QED
  BY <1>2, <1>4, BehindUpdates DEF Behind

\* Google's answer names what it holds by then.
LEMMA PutBehind ==
  ASSUME Typed, [Next]_vars, Behind, NEW h \in Handler, PutChunk(h)
  PROVE  Behind'
<1>1. PICK k \in Job, sent \in 0 .. job[h].sent : PutLearns(h, k, sent)
  BY PutEffect
<1>2. job'[h] = Counting(k) /\ job' = [job EXCEPT ![h] = job'[h]] /\ job'[h] \in Job
  BY <1>1, TypedStep DEF PutLearns, Typed, JobsTyped
<1>3. \A g \in Handler : Backed(job[g])'
  <2>1. (job'[h].up = k.up /\ job'[h].confirmed = k.confirmed /\ job'[h].full = k.full) \/ job'[h] = Rest
    BY <1>2, CountingKnows
  <2>2. k.up \in Upload => k.confirmed <= held'[k.up] /\ (k.full => held'[k.up] = Total)
    BY <1>1 DEF PutLearns
  <2>3. QED
    BY <1>2, <2>1, <2>2, KnowsBacked
<1>4. QED
  BY <1>3, BehindUpdates DEF PutChunk, Behind

LEMMA ConfirmBehind ==
  ASSUME Typed, [Next]_vars, Behind, NEW h \in Handler, Confirm(h) \/ QuerySession(h) \/ SaveStatus(h)
  PROVE  Behind'
<1> DEFINE j == job[h]
<1>1. /\ j \in Job /\ j.up \in Upload /\ job'[h] \in Job /\ job \in [Handler -> Job]
      /\ j.confirmed \in Bytes /\ j.full \in BOOLEAN /\ j.confirmed <= held[j.up] /\ (j.full => held[j.up] = Total)
      /\ row \in [Upload -> SessionRow] /\ RowBehind(j.up) /\ UNCHANGED held /\ held[j.up] \in Bytes
  BY TypedStep DEF Typed, JobsTyped, Job, Sound, Confirm, QuerySession, SaveStatus, Behind, Backed
<1>2. /\ Reply("ok", j.confirmed, j.full) \in Answers /\ Reply("ok", j.confirmed, j.full).confirmed <= held[j.up]
  BY <1>1, RepliesTyped DEF Reply
<1>3. /\ Failure(j) \in Answers /\ Failure(j).confirmed <= held[j.up]
      /\ Dropped \in Answers /\ Dropped.confirmed <= held[j.up]
  BY <1>1, BlankReplies DEF Failure
<1>4. ASSUME NEW b \in BOOLEAN, b => j.full,
             row' = [row EXCEPT ![j.up].confirmed = j.confirmed, ![j.up].completed = @ \/ b]
      PROVE  \A v \in Upload : RowBehind(v)'
  <2> DEFINE r == [row[j.up] EXCEPT !.confirmed = j.confirmed, !.completed = @ \/ b]
  <2>1. r \in SessionRow /\ r.confirmed = j.confirmed /\ r.completed = (row[j.up].completed \/ b)
    BY <1>1 DEF SessionRow
  <2>2. row' = [row EXCEPT ![j.up] = r]
    BY <1>1, <1>4
  <2>3. r.confirmed <= held[j.up] /\ (r.completed => held[j.up] = Total)
    BY <1>1, <1>4, <2>1 DEF RowBehind
  <2> HIDE DEF r, j
  <2>4. QED
    BY <1>1, <2>1, <2>2, <2>3, BehindUpdates
<1>5. CASE Confirm(h)
  <2>1. CASE row[j.up].state = "open"
    <3>1. /\ Answer(h, Reply("ok", j.confirmed, j.full))
          /\ row' = [row EXCEPT ![j.up].confirmed = j.confirmed, ![j.up].completed = @ \/ j.full]
      BY <1>5, <2>1 DEF Confirm
    <3>2. \A v \in Upload : RowBehind(v)'
      BY <1>1, <1>4, <3>1
    <3>3. QED
      BY <1>1, <1>2, <3>1, <3>2, AnswerBehind DEF Behind
  <2>2. CASE row[j.up].state # "open"
    <3> DEFINE k == [j EXCEPT !.failure = "transient"]
    <3>1. job' = [job EXCEPT ![h] = Counting(k)] /\ UNCHANGED <<row, tab>>
      BY <1>5, <2>2 DEF Confirm
    <3>2. k \in Job /\ k.up = j.up /\ k.confirmed = j.confirmed /\ k.full = j.full
      BY <1>1 DEF Job
    <3> HIDE DEF k
    <3>3. Counting(k) \in Job
      <4>1. job'[h] = Counting(k)
        BY <1>1, <3>1
      <4>2. QED
        BY <1>1, <4>1
    <3>4. \/ Counting(k).up = j.up /\ Counting(k).confirmed = j.confirmed /\ Counting(k).full = j.full
          \/ Counting(k) = Rest
      BY <3>2, CountingKnows
    <3>5. j.up \in Upload => j.confirmed <= held'[j.up] /\ (j.full => held'[j.up] = Total)
      BY StillBacked
    <3>6. \A g \in Handler : Backed(job[g])'
      BY <1>1, <3>1, <3>3, <3>4, <3>5, KnowsBacked
    <3>7. QED
      BY <3>1, <3>6, BehindUpdates DEF Behind
  <2>3. QED
    BY <2>1, <2>2
<1>6. CASE QuerySession(h)
  <2>1. \A v \in Upload : RowBehind(v)'
    BY <1>6, BehindUpdates DEF QuerySession
  <2>2. CASE Answer(h, Failure(j))
    BY <1>1, <1>3, <2>1, <2>2, AnswerBehind DEF Behind
  <2>3. CASE UNCHANGED tab /\ job' = [job EXCEPT ![h] = [j EXCEPT !.at = "save", !.confirmed = held[j.up],
                                                                  !.full = held[j.up] = Total]]
    <3> DEFINE k == [j EXCEPT !.at = "save", !.confirmed = held[j.up], !.full = held[j.up] = Total]
    <3>1. k.up = j.up /\ k.confirmed = held[j.up] /\ k.full = (held[j.up] = Total)
      BY <1>1 DEF Job
    <3>2. job'[h] = k /\ job' = [job EXCEPT ![h] = job'[h]]
      BY <1>1, <2>3
    <3> HIDE DEF k
    <3>3. job'[h].confirmed <= held'[job'[h].up] /\ (job'[h].full => held'[job'[h].up] = Total)
      BY <1>1, <3>1, <3>2, GatewayAssumption DEF Bytes
    <3>4. \A g \in Handler : Backed(job[g])'
      BY <1>1, <3>2, <3>3, BehindUpdates
    <3>5. QED
      BY <2>1, <2>3, <3>4, BehindUpdates DEF Behind
  <2>4. QED
    BY <1>6, <2>2, <2>3 DEF QuerySession
<1>7. CASE SaveStatus(h)
  <2>1. \A v \in Upload : RowBehind(v)'
    <3>1. CASE row[j.up].state # "open"
      BY <1>7, <3>1, BehindUpdates DEF SaveStatus
    <3>2. CASE row[j.up].state = "open"
      <4> DEFINE b == j.kind = "ask" /\ j.full
      <4>1. b \in BOOLEAN /\ (b => j.full)
        OBVIOUS
      <4>2. row' = [row EXCEPT ![j.up].confirmed = j.confirmed, ![j.up].completed = @ \/ b]
        BY <1>7, <3>2 DEF SaveStatus
      <4> HIDE DEF b
      <4>3. QED
        BY <1>4, <4>1, <4>2
    <3>3. QED
      BY <3>1, <3>2
  <2>2. Answer(h, Reply("ok", j.confirmed, j.full)) \/ Answer(h, Failure(j)) \/ Answer(h, Dropped)
    <3>1. CASE row[j.up].state = "open" /\ j.kind = "ask"
      BY <1>7, <3>1 DEF SaveStatus
    <3>2. CASE row[j.up].state = "open" /\ j.kind # "ask"
      BY <1>7, <3>2 DEF SaveStatus
    <3>3. CASE row[j.up].state # "open"
      BY <1>7, <3>3 DEF SaveStatus
    <3>4. QED
      BY <3>1, <3>2, <3>3
  <2> HIDE DEF j
  <2>3. \A v \in Upload : BrowserBehind(v)'
    BY <1>1, <1>2, <1>3, <2>2, AnswerBehind DEF j
  <2>4. \A g \in Handler : Backed(job[g])'
    BY <1>1, <1>2, <1>3, <2>2, AnswerBehind DEF j
  <2>5. QED
    BY <2>1, <2>3, <2>4 DEF Behind
<1>8. QED
  BY <1>5, <1>6, <1>7

LEMMA RestartBehind ==
  ASSUME Typed, [Next]_vars, Behind, Restart
  PROVE  Behind'
<1>1. \A g \in Handler : Backed(job[g])'
  <2>1. \A v \in Upload : 0 <= held'[v]
    BY HeldGrows, GatewayAssumption DEF Bytes
  <2>2. \A g \in Handler : job'[g] = Rest
    BY DEF Restart
  <2>3. Rest.confirmed = 0 /\ ~Rest.full
    BY DEF Rest
  <2>4. QED
    BY <2>1, <2>2, <2>3 DEF Backed
<1>2. ASSUME NEW u \in Upload PROVE BrowserBehind(u)'
  <2>1. tab[u] \in Tab /\ Fit(tab[u]) /\ BrowserBehind(u) /\ held[u] \in Int /\ UNCHANGED held
    BY GatewayAssumption DEF Typed, TabsTyped, Behind, Bytes, Restart
  <2>2. Dropped \in Answers /\ Dropped.confirmed <= held[u]
    BY BlankReplies
  <2>3. Hears(tab[u], Dropped).at \notin {"pin", "done"} /\ Hears(tab[u], Dropped).offset <= held[u]
    BY <2>1, <2>2, HearsTyped DEF BrowserBehind
  <2>4. tab'[u] = IF tab[u].call = None THEN tab[u] ELSE Hears(tab[u], Dropped)
    BY DEF Restart
  <2>5. QED
    BY <2>1, <2>3, <2>4 DEF BrowserBehind
<1>3. QED
  BY <1>1, <1>2, BehindUpdates DEF Restart, Behind

LEMMA BehindStep ==
  ASSUME Typed, [Next]_vars, Behind
  PROVE  Behind'
<1>1. CASE UNCHANGED vars
  BY <1>1, BehindUpdates DEF vars, Behind
<1>2. ASSUME NEW u \in Upload, Begin(u) \/ Drop(u) \/ Refuse(u) \/ Browse(u) PROVE Behind'
  BY <1>2, BrowserBehindStep, AdmitBehind DEF Browse
<1>3. ASSUME NEW h \in Handler, Serve(h) \/ \E o \in Org : Read(h, o) PROVE Behind'
  BY <1>3, CountBehind, PutBehind, ConfirmBehind DEF Serve
<1>4. CASE Restart
  BY <1>4, RestartBehind
<1>5. QED
  BY <1>1, <1>2, <1>3, <1>4 DEF Next

\* Whatever is dropped, answered late or asked twice, no session row and no browser is ever ahead
\* of what Google keeps: the gateway stores, and the browser resumes from, what Google confirmed.
THEOREM NoByteSkipped == Spec => []NeverAhead
<1>1. Init => Behind
  <2>1. Rest.confirmed = 0 /\ ~Rest.full
    BY DEF Rest
  <2>2. QED
    BY <2>1, GatewayAssumption DEF Init, Behind, BrowserBehind, RowBehind, Backed
<1>2. Typed /\ Behind /\ [Next]_vars => Behind'
  BY BehindStep
<1>3. QED
  BY <1>1, <1>2, TypedHolds, BehindNeverAhead, PTL DEF Spec

-----------------------------------------------------------------------------
(* The owners are told once.  A line is crossed by the one addition that       *)
(* takes the organization over it; whoever crossed it announces it, once.       *)

Announcing(h, o, l) == job[h].at = "warn" /\ job[h].org = o /\ job[h].line = l

Once ==
  \A o \in Org, l \in WarnAt :
    /\ told[o][l] <= 1
    /\ told[o][l] = 1 => l <= usage[o]
    /\ \A h \in Handler : Announcing(h, o, l) =>
         l <= usage[o] /\ told[o][l] = 0 /\ \A g \in Handler : Announcing(g, o, l) => g = h

Heard ==
  \A o \in Org, l \in WarnAt : l <= usage[o] => \E m \in WarnAt :
    l <= m /\ (told[o][m] = 1 \/ m \in unsaid[o] \/ \E h \in Handler : Announcing(h, o, m))

\* A step that neither counts for an organization nor touches a message.
Quiet ==
  /\ \A o \in Org : usage'[o] = usage[o]
  /\ UNCHANGED <<told, unsaid>>
  /\ \A h \in Handler : job'[h] = job[h] \/ (job[h].at # "warn" /\ job'[h].at # "warn")

LEMMA CountingQuiet ==
  ASSUME NEW j \in Job
  PROVE  Onward(j).at \in {"rest", "query", "confirm"} /\ Counting(j).at \in {"rest", "query", "confirm", "total"}
<1>1. Onward(j).at \in {"rest", "query", "confirm"}
  <2>1. CASE j.kind = "read"
    BY <2>1 DEF Onward, Rest
  <2>2. CASE j.kind # "read" /\ j.failure # "none"
    BY <2>2 DEF Onward, Job
  <2>3. CASE j.kind # "read" /\ j.failure = "none"
    BY <2>3 DEF Onward, Job
  <2>4. QED
    BY <2>1, <2>2, <2>3
<1>2. QED
  BY <1>1 DEF Counting, Job

LEMMA QuietSteps ==
  ASSUME Typed, [Next]_vars, ~Restart, \A h \in Handler : ~RecordOrg(h) /\ ~WarnOwners(h)
  PROVE  Quiet
<1>1. job \in [Handler -> Job] /\ job' \in [Handler -> Job]
  BY TypedStep DEF Typed, JobsTyped
<1>2. CASE UNCHANGED vars
  BY <1>2 DEF vars, Quiet
<1>3. ASSUME NEW u \in Upload, Begin(u) \/ Drop(u) \/ Refuse(u) \/ Browse(u), UNCHANGED job PROVE Quiet
  BY <1>3 DEF Begin, Drop, Refuse, Browse, Commit, Pin, AnswerFromRow, RefuseOutOfOrder, RefuseOverBudget,
              Admit, Quiet
<1>4. ASSUME NEW u \in Upload, NEW h \in Handler, Admit(u, h) PROVE Quiet
  <2> DEFINE mine == [Rest EXCEPT !.up = u, !.org = OwnerOf[u], !.start = tab[u].offset]
             put == [mine EXCEPT !.at = "put", !.kind = "chunk", !.sent = End(tab[u]) - tab[u].offset]
             ask == [mine EXCEPT !.at = "query", !.kind = "ask"]
  <2>1. PICK k \in {put, ask} : job' = [job EXCEPT ![h] = k] /\ k.at # "warn"
    <3>1. put.at = "put" /\ ask.at = "query"
      BY DEF Rest
    <3>2. job' = [job EXCEPT ![h] = put] \/ job' = [job EXCEPT ![h] = ask]
      BY <1>4 DEF Admit
    <3> HIDE DEF put, ask
    <3>3. QED
      BY <3>1, <3>2
  <2>2. \A g \in Handler : job'[g] = IF g = h THEN k ELSE job[g]
    BY <1>1, <2>1
  <2>3. QED
    BY <1>4, <2>1, <2>2 DEF Admit, Quiet
<1>5. ASSUME NEW h \in Handler,
             RecordTotal(h) \/ PutChunk(h) \/ Confirm(h) \/ QuerySession(h) \/ SaveStatus(h) \/ Flow(h)
             \/ \E o \in Org : Read(h, o)
      PROVE  Quiet
  <2>1. job[h] \in Job /\ job[h].at # "warn"
    BY <1>1, <1>5 DEF RecordTotal, PutChunk, Confirm, QuerySession, SaveStatus, Flow, Read
  <2>2. \E k : job' = [job EXCEPT ![h] = k] /\ k.at # "warn"
    <3>1. CASE RecordTotal(h)
      <4>1. [job[h] EXCEPT !.at = "org"].at = "org"
        BY <2>1 DEF Job
      <4>2. job' = [job EXCEPT ![h] = [job[h] EXCEPT !.at = "org"]]
        BY <1>1, <3>1 DEF RecordTotal
      <4>3. QED
        BY <4>1, <4>2
    <3>2. CASE PutChunk(h)
      <4>1. PICK k \in Job, sent \in 0 .. job[h].sent : PutLearns(h, k, sent)
        BY <3>2, PutEffect
      <4>2. job' = [job EXCEPT ![h] = Counting(k)] /\ Counting(k).at # "warn"
        BY <4>1, CountingQuiet DEF PutLearns
      <4>3. QED
        BY <4>2
    <3>3. \A r : Answer(h, r) => job' = [job EXCEPT ![h] = Rest] /\ Rest.at # "warn"
      BY DEF Answer, Rest
    <3>4. CASE Confirm(h)
      <4>1. [job[h] EXCEPT !.failure = "transient"] \in Job
        BY <2>1 DEF Job
      <4>2. QED
        BY <3>3, <3>4, <4>1, CountingQuiet DEF Confirm
    <3>5. CASE QuerySession(h)
      <4>1. [job[h] EXCEPT !.at = "save", !.confirmed = held[job[h].up], !.full = held[job[h].up] = Total].at = "save"
        BY <2>1 DEF Job
      <4>2. QED
        BY <3>3, <3>5, <4>1 DEF QuerySession
    <3>6. CASE SaveStatus(h)
      BY <3>3, <3>6 DEF SaveStatus
    <3>7. CASE Flow(h)
      <4>1. \A sent \in 0 .. Document : [job[h] EXCEPT !.sent = sent] \in Job
        BY <2>1 DEF Job
      <4>2. QED
        BY <3>7, <4>1, CountingQuiet DEF Flow
    <3>8. ASSUME NEW o \in Org, Read(h, o) PROVE \E k : job' = [job EXCEPT ![h] = k] /\ k.at # "warn"
      <4>1. [Rest EXCEPT !.at = "flow", !.org = o].at = "flow"
        BY DEF Rest
      <4>2. QED
        BY <3>8, <4>1 DEF Read
    <3>9. QED
      BY <1>5, <3>1, <3>2, <3>4, <3>5, <3>6, <3>7, <3>8
  <2>3. \A g \in Handler : job'[g] = job[g] \/ (job[g].at # "warn" /\ job'[g].at # "warn")
    BY <1>1, <2>1, <2>2
  <2>4. UNCHANGED <<told, unsaid>> /\ \A o \in Org : usage'[o] = usage[o]
    <3>1. CASE RecordTotal(h)
      BY <3>1, GatewayAssumption DEF RecordTotal, Typed, CountsTyped
    <3>2. CASE ~RecordTotal(h)
      BY <1>5, <3>2 DEF PutChunk, Confirm, QuerySession, SaveStatus, Flow, Read
    <3>3. QED
      BY <3>1, <3>2
  <2>5. QED
    BY <2>3, <2>4 DEF Quiet
<1>6. ASSUME NEW u \in Upload, Begin(u) \/ Drop(u) \/ Refuse(u) \/ Browse(u) PROVE Quiet
  BY <1>3, <1>4, <1>6 DEF Begin, Drop, Refuse, Browse, Commit, Pin, AnswerFromRow, RefuseOutOfOrder, RefuseOverBudget
<1>7. QED
  BY <1>2, <1>5, <1>6 DEF Next, Serve

LEMMA QuietKeeps ==
  ASSUME Typed, Once, Heard, Quiet
  PROVE  Once' /\ Heard'
<1>1. \A h \in Handler, o \in Org, l \in WarnAt : Announcing(h, o, l)' <=> Announcing(h, o, l)
  BY DEF Quiet, Announcing
<1>2. \A o \in Org : usage'[o] = usage[o] /\ told'[o] = told[o] /\ unsaid'[o] = unsaid[o]
  BY DEF Quiet
<1>3. Once'
  BY <1>1, <1>2 DEF Once
<1>4. Heard'
  BY <1>1, <1>2 DEF Heard
<1>5. QED
  BY <1>3, <1>4

\* The one addition that takes an organization over a line announces it, or a higher line that
\* it crossed as well.
LEMMA RecordKeeps ==
  ASSUME Typed, Once, Heard, NEW h \in Handler, RecordOrg(h)
  PROVE  Once' /\ Heard'
<1> DEFINE j == job[h]
           after == usage[j.org] + j.sent
           crossed == Crossed(after - j.sent, after)
<1>1. /\ j \in Job /\ j.org \in Org /\ j.at = "org" /\ job \in [Handler -> Job]
      /\ usage[j.org] \in Nat /\ j.sent \in Nat /\ after - j.sent = usage[j.org] /\ usage[j.org] <= after
  BY GatewayAssumption DEF RecordOrg, Typed, JobsTyped, CountsTyped, Sound, Job
<1>2. /\ UNCHANGED <<told, unsaid>>
      /\ \A o \in Org : usage'[o] = IF o = j.org THEN after ELSE usage[o]
  BY DEF RecordOrg, Typed, CountsTyped
<1>3. crossed = {l \in WarnAt : usage[j.org] < l /\ l <= after}
  BY <1>1 DEF Crossed
<1>4. \A g \in Handler : g # h => job'[g] = job[g]
  BY DEF RecordOrg, Typed, JobsTyped
<1>5. \A l \in WarnAt : l \in Nat
  BY GatewayAssumption
<1>6. crossed # {} =>
        /\ Max(crossed) \in crossed /\ \A l \in crossed : l <= Max(crossed)
        /\ job'[h].at = "warn" /\ job'[h].org = j.org /\ job'[h].line = Max(crossed)
  <2>1. ASSUME crossed # {} PROVE job'[h] = [j EXCEPT !.at = "warn", !.line = Max(crossed)]
    BY <1>1, <2>1 DEF RecordOrg
  <2>2. ASSUME crossed # {} PROVE Max(crossed) \in crossed /\ \A l \in crossed : l <= Max(crossed)
    BY <2>2, LargestCrossed
  <2> HIDE DEF crossed
  <2>3. ASSUME crossed # {} PROVE job'[h].at = "warn" /\ job'[h].org = j.org /\ job'[h].line = Max(crossed)
    BY <1>1, <2>1, <2>3 DEF Job
  <2>4. QED
    BY <2>2, <2>3
<1>7. crossed = {} => job'[h].at # "warn"
  <2>1. ASSUME crossed = {} PROVE job'[h] = Onward(j)
    BY <1>1, <2>1 DEF RecordOrg
  <2>2. QED
    BY <1>1, <2>1, CountingQuiet
<1> HIDE DEF crossed, after, j
<1>8. \A o \in Org, l \in WarnAt :
        /\ ~Announcing(h, o, l)
        /\ \A g \in Handler : g # h => (Announcing(g, o, l)' <=> Announcing(g, o, l))
        /\ Announcing(h, o, l)' => crossed # {} /\ o = j.org /\ l = Max(crossed)
  BY <1>1, <1>4, <1>6, <1>7 DEF Announcing, j
<1>9. Once'
  <2>1. ASSUME NEW o \in Org, NEW l \in WarnAt
        PROVE  told'[o][l] <= 1 /\ (told'[o][l] = 1 => l <= usage'[o])
    <3>1. usage[o] \in Nat /\ usage'[o] \in Nat /\ usage[o] <= usage'[o]
      <4>1. usage[o] \in Nat /\ after \in Nat
        BY <1>1 DEF Typed, CountsTyped, after, j
      <4>2. QED
        BY <1>1, <1>2, <4>1
    <3>2. QED
      BY <1>2, <1>5, <3>1 DEF Once
  <2>2. ASSUME NEW o \in Org, NEW l \in WarnAt, NEW g \in Handler, Announcing(g, o, l)'
        PROVE  l <= usage'[o] /\ told'[o][l] = 0 /\ \A f \in Handler : Announcing(f, o, l)' => f = g
    <3>1. CASE g = h
      <4>1. crossed # {} /\ o = j.org /\ l \in crossed
        BY <1>6, <1>8, <2>2, <3>1
      <4>2. usage[o] < l /\ l <= usage'[o]
        BY <1>2, <1>3, <4>1
      <4>3. ~(l <= usage[o])
        BY <1>1, <1>5, <4>1, <4>2
      <4>4. told[o][l] # 1 /\ told[o][l] <= 1 /\ told[o][l] \in Nat /\ \A f \in Handler : ~Announcing(f, o, l)
        BY <4>3 DEF Once, Typed, CountsTyped
      <4>5. QED
        BY <1>2, <1>8, <3>1, <4>2, <4>4
    <3>2. CASE g # h
      <4>1. /\ l <= usage[o] /\ told[o][l] = 0 /\ \A f \in Handler : Announcing(f, o, l) => f = g
        BY <1>8, <2>2, <3>2 DEF Once
      <4>2. ~Announcing(h, o, l)'
        <5>1. ASSUME Announcing(h, o, l)' PROVE FALSE
          <6>1. crossed # {} /\ o = j.org /\ l \in crossed
            BY <1>6, <1>8, <5>1
          <6>2. usage[o] < l
            BY <1>3, <6>1
          <6>3. QED
            BY <1>1, <1>5, <4>1, <6>1, <6>2
        <5>2. QED
          BY <5>1
      <4>3. l <= usage'[o]
        <5>1. CASE o = j.org
          BY <1>1, <1>2, <1>5, <4>1, <5>1 DEF after
        <5>2. CASE o # j.org
          BY <1>2, <4>1, <5>2
        <5>3. QED
          BY <5>1, <5>2
      <4>4. QED
        BY <1>2, <1>8, <4>1, <4>2, <4>3
    <3>3. QED
      BY <3>1, <3>2
  <2>3. QED
    BY <2>1, <2>2 DEF Once
<1>10. Heard'
  <2>1. ASSUME NEW o \in Org, NEW l \in WarnAt, l <= usage'[o]
        PROVE  \E m \in WarnAt : l <= m /\ (\/ told'[o][m] = 1 \/ m \in unsaid'[o]
                                            \/ \E g \in Handler : Announcing(g, o, m)')
    <3>1. CASE l <= usage[o]
      <4>1. PICK m \in WarnAt : l <= m /\ (\/ told[o][m] = 1 \/ m \in unsaid[o]
                                            \/ \E g \in Handler : Announcing(g, o, m))
        BY <3>1 DEF Heard
      <4>2. \A g \in Handler : Announcing(g, o, m) => Announcing(g, o, m)'
        BY <1>8
      <4>3. QED
        BY <1>2, <4>1, <4>2
    <3>2. CASE ~(l <= usage[o])
      <4>1. o = j.org /\ l <= after
        BY <1>2, <2>1, <3>2
      <4>2. l \in crossed
        BY <1>1, <1>3, <1>5, <3>2, <4>1
      <4>3. PICK m \in WarnAt : m = Max(crossed)
        BY <1>3, <1>6, <4>2
      <4>4. l <= m /\ Announcing(h, o, m)'
        BY <1>6, <4>1, <4>2, <4>3 DEF Announcing
      <4>5. QED
        BY <4>4
    <3>3. QED
      BY <3>1, <3>2
  <2>2. QED
    BY <2>1 DEF Heard
<1>11. QED
  BY <1>9, <1>10

LEMMA WarnKeeps ==
  ASSUME Typed, Once, Heard, NEW h \in Handler, WarnOwners(h)
  PROVE  Once' /\ Heard'
<1> DEFINE j == job[h]
<1>1. /\ j \in Job /\ j.at = "warn" /\ j.org \in Org /\ j.line \in WarnAt /\ job \in [Handler -> Job]
      /\ Announcing(h, j.org, j.line)
  BY DEF WarnOwners, Typed, JobsTyped, Sound, Announcing
<1>2. told[j.org][j.line] = 0 /\ j.line <= usage[j.org] /\ \A g \in Handler : Announcing(g, j.org, j.line) => g = h
  BY <1>1 DEF Once
<1>3. job'[h].at # "warn" /\ \A g \in Handler : g # h => job'[g] = job[g]
  BY <1>1, CountingQuiet DEF WarnOwners
<1>4. UNCHANGED <<usage, unsaid>>
  BY DEF WarnOwners
<1>5. \A o \in Org, l \in WarnAt :
        told'[o][l] = IF o = j.org /\ l = j.line THEN 1 ELSE told[o][l]
  BY <1>1, <1>2 DEF WarnOwners, Typed, CountsTyped
<1>6. \A o \in Org, l \in WarnAt, g \in Handler : Announcing(g, o, l)' <=> Announcing(g, o, l) /\ g # h
  BY <1>1, <1>3 DEF Announcing
<1> HIDE DEF j
<1>7. Once'
  BY <1>1, <1>2, <1>4, <1>5, <1>6 DEF Once
<1>8. Heard'
  <2>1. ASSUME NEW o \in Org, NEW l \in WarnAt, l <= usage[o]
        PROVE  \E m \in WarnAt : l <= m /\ (\/ told'[o][m] = 1 \/ m \in unsaid[o]
                                            \/ \E g \in Handler : Announcing(g, o, m)')
    <3>1. PICK m \in WarnAt : l <= m /\ (\/ told[o][m] = 1 \/ m \in unsaid[o]
                                          \/ \E g \in Handler : Announcing(g, o, m))
      BY <2>1 DEF Heard
    <3>2. ASSUME Announcing(h, o, m) PROVE o = j.org /\ m = j.line
      BY <3>2 DEF Announcing, j
    <3>3. QED
      BY <1>5, <1>6, <3>1, <3>2
  <2>2. QED
    BY <1>4, <2>1 DEF Heard
<1>9. QED
  BY <1>7, <1>8

\* A restart swallows the messages that were about to be sent.
LEMMA RestartKeeps ==
  ASSUME Typed, Once, Heard, Restart
  PROVE  Once' /\ Heard'
<1>1. \A h \in Handler, o \in Org, l \in WarnAt : ~Announcing(h, o, l)'
  BY DEF Restart, Rest, Announcing
<1>2. UNCHANGED <<usage, told>>
  BY DEF Restart
<1>3. \A o \in Org : unsaid'[o] = unsaid[o] \cup {job[h].line : h \in {h \in Handler :
                                               job[h].at = "warn" /\ job[h].org = o}}
  BY DEF Restart
<1>4. \A o \in Org, l \in WarnAt, h \in Handler : Announcing(h, o, l) => l \in unsaid'[o]
  BY <1>3 DEF Announcing
<1>5. \A o \in Org : unsaid[o] \subseteq unsaid'[o]
  BY <1>3
<1>6. Once'
  BY <1>1, <1>2 DEF Once
<1>7. Heard'
  BY <1>2, <1>4, <1>5 DEF Heard
<1>8. QED
  BY <1>6, <1>7

\* The owners hear of each line of the allowance at most once however the additions interleave,
\* and of every line that was passed, unless a restart swallowed the message.
THEOREM WarnedOnceHolds == Spec => []WarnedOnce
<1>1. Init => Once /\ Heard
  BY GatewayAssumption DEF Init, Once, Heard, Announcing, Rest
<1>2. Typed /\ Once /\ Heard /\ [Next]_vars => (Once /\ Heard)'
  BY QuietSteps, QuietKeeps, RecordKeeps, WarnKeeps, RestartKeeps
<1>3. Once /\ Heard => WarnedOnce
  BY DEF Once, Heard, WarnedOnce, Announcing
<1>4. QED
  BY <1>1, <1>2, <1>3, TypedHolds, PTL DEF Spec

-----------------------------------------------------------------------------
(* The allowance.  Bytes that flowed are counted, or wait to be counted by the *)
(* request that carried them; a request admitted while the allowance was not    *)
(* used up carries a document at most.  Sums over the requests are cardinalities  *)
(* of sets of pairs, one pair per byte.                                          *)

Loads == [Handler -> 0 .. Document]
Shares(w) == {p \in Handler \X (1 .. Document) : p[2] <= w[p[1]]}
Load(w) == Cardinality(Shares(w))

Uncounted == [h \in Handler |-> IF job[h].at = "total" THEN job[h].sent ELSE 0]
Promised == [h \in Handler |-> IF job[h].at \in {"put", "flow"} THEN Document ELSE 0]

Within ==
  /\ flowed <= usage["*"] + Load(Uncounted)
  /\ flowed + Load(Promised) < AllLimit + Cardinality(Handler) * Document

LEMMA PartOf ==
  ASSUME NEW S, IsFiniteSet(S), NEW n \in Nat
  PROVE  IsFiniteSet(S \X (1 .. n)) /\ Cardinality(S \X (1 .. n)) = Cardinality(S) * n
<1>1. IsFiniteSet(1 .. n) /\ Cardinality(1 .. n) = n
  BY FS_Interval
<1>2. QED
  BY <1>1, FS_Product

LEMMA LoadType ==
  ASSUME NEW w \in Loads
  PROVE  IsFiniteSet(Shares(w)) /\ Load(w) \in Nat
<1>1. IsFiniteSet(Handler \X (1 .. Document))
  BY PartOf, GatewayAssumption
<1>2. IsFiniteSet(Shares(w))
  BY <1>1, FS_Subset DEF Shares
<1>3. QED
  BY <1>2, FS_CardinalityType DEF Load

\* Changing the load of one request changes the sum by the difference.
LEMMA LoadUpdate ==
  ASSUME NEW w \in Loads, NEW v \in Loads, NEW h \in Handler, \A g \in Handler : g # h => v[g] = w[g]
  PROVE  Load(v) = Load(w) - w[h] + v[h]
<1> DEFINE Others == {p \in Handler \X (1 .. Document) : p[1] # h /\ p[2] <= w[p[1]]}
           Part(n) == {h} \X (1 .. n)
<1>1. ASSUME NEW x \in Loads, \A g \in Handler : g # h => x[g] = w[g]
      PROVE  Load(x) = Cardinality(Others) + x[h]
  <2>1. x[h] \in 0 .. Document /\ x[h] \in Nat /\ Document \in Nat
    BY GatewayAssumption DEF Loads
  <2>2. Shares(x) = Others \cup Part(x[h])
    <3>1. ASSUME NEW p \in Handler \X (1 .. Document) PROVE p \in Shares(x) <=> p \in Others \cup Part(x[h])
      <4>1. p = <<p[1], p[2]>> /\ p[1] \in Handler /\ p[2] \in 1 .. Document
        OBVIOUS
      <4>2. CASE p[1] = h
        <5>1. p \in Shares(x) <=> p[2] <= x[h]
          BY <4>2 DEF Shares
        <5>2. p \in Part(x[h]) <=> p[2] \in 1 .. x[h]
          BY <4>1, <4>2
        <5>3. p \notin Others
          BY <4>2
        <5>4. QED
          BY <2>1, <4>1, <5>1, <5>2, <5>3
      <4>3. CASE p[1] # h
        <5>1. x[p[1]] = w[p[1]]
          BY <1>1, <4>1, <4>3
        <5>2. p \notin Part(x[h])
          BY <4>3
        <5>3. QED
          BY <4>3, <5>1, <5>2 DEF Shares
      <4>4. QED
        BY <4>2, <4>3
    <3>2. Part(x[h]) \subseteq Handler \X (1 .. Document)
      BY <2>1
    <3>3. QED
      BY <3>1, <3>2 DEF Shares
  <2>3. IsFiniteSet(Others) /\ Cardinality(Others) \in Nat
    <3>1. Others \in SUBSET Shares(w)
      BY DEF Shares
    <3>2. IsFiniteSet(Others)
      BY <3>1, LoadType, FS_Subset
    <3>3. QED
      BY <3>2, FS_CardinalityType
  <2>4. IsFiniteSet(Part(x[h])) /\ Cardinality(Part(x[h])) = x[h]
    <3>1. IsFiniteSet({h}) /\ Cardinality({h}) = 1
      BY FS_Singleton
    <3>2. PICK n \in Nat : n = x[h]
      BY <2>1
    <3>3. IsFiniteSet(Part(n)) /\ Cardinality(Part(n)) = 1 * n
      BY <3>1, PartOf
    <3> HIDE DEF Part
    <3>4. QED
      BY <3>2, <3>3
  <2>5. Others \cap Part(x[h]) = {}
    OBVIOUS
  <2> HIDE DEF Others, Part
  <2>6. Cardinality(Others \cup Part(x[h])) = Cardinality(Others) + x[h] - Cardinality({})
    BY <2>3, <2>4, <2>5, FS_Union
  <2>7. QED
    BY <2>1, <2>2, <2>3, <2>6, FS_EmptySet DEF Load
<1> HIDE DEF Others
<1>2. Load(w) = Cardinality(Others) + w[h] /\ Load(v) = Cardinality(Others) + v[h]
  BY <1>1
<1>3. Load(w) \in Nat /\ Load(v) \in Nat /\ w[h] \in Int /\ v[h] \in Int /\ Cardinality(Others) \in Int
  <2>1. Load(w) \in Nat /\ Load(v) \in Nat /\ w[h] \in Int /\ v[h] \in Int
    BY LoadType, GatewayAssumption DEF Loads
  <2>2. IsFiniteSet(Others)
    <3>1. Others \in SUBSET Shares(w)
      BY DEF Shares, Others
    <3>2. QED
      BY <3>1, LoadType, FS_Subset
  <2>3. QED
    BY <2>1, <2>2, FS_CardinalityType
<1>4. QED
  BY <1>2, <1>3

\* Two loads that no request bears both of fit in one document per request.
LEMMA LoadsFit ==
  ASSUME NEW w \in Loads, NEW v \in Loads, \A h \in Handler : w[h] = 0 \/ v[h] = 0
  PROVE  Load(w) + Load(v) <= Cardinality(Handler) * Document
<1> DEFINE All == Handler \X (1 .. Document)
<1>1. IsFiniteSet(All) /\ Cardinality(All) = Cardinality(Handler) * Document
  BY PartOf, GatewayAssumption
<1>2. Shares(w) \cap Shares(v) = {}
  BY GatewayAssumption DEF Shares
<1>3. Shares(w) \cup Shares(v) \in SUBSET All
  BY DEF Shares
<1> HIDE DEF All
<1>4. Cardinality(Shares(w) \cup Shares(v)) <= Cardinality(All)
  BY <1>1, <1>3, FS_Subset
<1>5. Cardinality(Shares(w) \cup Shares(v)) = Load(w) + Load(v) - Cardinality({})
  BY <1>2, LoadType, FS_Union DEF Load
<1>6. QED
  BY <1>1, <1>4, <1>5, LoadType, FS_EmptySet

LEMMA NoLoad ==
  ASSUME NEW w \in Loads, \A h \in Handler : w[h] = 0
  PROVE  Load(w) = 0
<1>1. Shares(w) = {}
  BY GatewayAssumption DEF Shares
<1>2. QED
  BY <1>1, FS_EmptySet DEF Load

LEMMA LoadsTyped ==
  ASSUME Typed
  PROVE  /\ Uncounted \in Loads /\ Promised \in Loads
         /\ Load(Uncounted) \in Nat /\ Load(Promised) \in Nat
         /\ Load(Uncounted) + Load(Promised) <= Cardinality(Handler) * Document
<1>1. Uncounted \in Loads /\ Promised \in Loads
  BY GatewayAssumption DEF Uncounted, Promised, Loads, Typed, JobsTyped, Job
<1>2. \A h \in Handler : Uncounted[h] = 0 \/ Promised[h] = 0
  BY DEF Uncounted, Promised
<1>3. QED
  BY <1>1, <1>2, LoadType, LoadsFit

\* What a request adds to the two sums.
Counts(j) == IF j.at = "total" THEN j.sent ELSE 0
Promises(j) == IF j.at \in {"put", "flow"} THEN Document ELSE 0

LEMMA LoadStep ==
  ASSUME Typed, Typed', NEW h \in Handler, \A g \in Handler : g # h => job'[g] = job[g]
  PROVE  /\ Load(Uncounted)' = Load(Uncounted) - Counts(job[h]) + Counts(job'[h])
         /\ Load(Promised)' = Load(Promised) - Promises(job[h]) + Promises(job'[h])
<1> DEFINE w == Uncounted
           v == Uncounted'
           x == Promised
           y == Promised'
<1>1. w \in Loads /\ x \in Loads
  BY LoadsTyped
<1>2. v \in Loads /\ y \in Loads
  <2>1. job' \in [Handler -> Job]
    BY DEF Typed, JobsTyped
  <2>2. QED
    BY <2>1, GatewayAssumption DEF Uncounted, Promised, Loads, Job
<1>3. \A g \in Handler : g # h => v[g] = w[g] /\ y[g] = x[g]
  BY DEF Uncounted, Promised
<1>4. w[h] = Counts(job[h]) /\ v[h] = Counts(job'[h]) /\ x[h] = Promises(job[h]) /\ y[h] = Promises(job'[h])
  BY DEF Uncounted, Promised, Counts, Promises
<1>5. Load(v) = Load(Uncounted)' /\ Load(y) = Load(Promised)'
  BY DEF Load, Shares
<1> HIDE DEF w, v, x, y
<1>6. Load(v) = Load(w) - w[h] + v[h] /\ Load(y) = Load(x) - x[h] + y[h]
  BY <1>1, <1>2, <1>3, LoadUpdate
<1>7. QED
  BY <1>4, <1>5, <1>6 DEF w, x

LEMMA CountingLoads ==
  ASSUME NEW j \in Job
  PROVE  /\ Counts(Onward(j)) = 0 /\ Promises(Onward(j)) = 0
         /\ Counts(Counting(j)) = j.sent /\ Promises(Counting(j)) = 0
<1>1. Counts(Onward(j)) = 0 /\ Promises(Onward(j)) = 0
  BY CountingQuiet DEF Counts, Promises
<1>2. LET k == [j EXCEPT !.at = "total"] IN Counts(k) = j.sent /\ Promises(k) = 0
  BY DEF Counts, Promises, Job
<1>3. QED
  BY <1>1, <1>2 DEF Counting

\* Numbers the sums are made of.
LEMMA LoadNumbers ==
  ASSUME Typed, NEW h \in Handler
  PROVE  /\ Counts(job[h]) \in 0 .. Document /\ Promises(job[h]) \in {0, Document}
         /\ Load(Uncounted) \in Nat /\ Load(Promised) \in Nat
         /\ flowed \in Nat /\ usage["*"] \in Nat /\ Document \in Nat /\ AllLimit \in Nat
         /\ Cardinality(Handler) * Document \in Nat
<1>1. job[h].sent \in 0 .. Document
  BY DEF Typed, JobsTyped, Job
<1>2. Cardinality(Handler) \in Nat
  BY FS_CardinalityType, GatewayAssumption
<1>3. Cardinality(Handler) * Document \in Nat
  BY <1>2, GatewayAssumption
<1>4. QED
  BY <1>1, <1>3, LoadsTyped, GatewayAssumption DEF Typed, CountsTyped, Counts, Promises

\* Nothing flows and nothing is counted for the platform: bytes may be counted again, and a
\* promise may lapse.
LEMMA WithinKept ==
  ASSUME Typed, Typed', Within, NEW h \in Handler, \A g \in Handler : g # h => job'[g] = job[g],
         flowed' = flowed, usage'["*"] = usage["*"],
         Counts(job[h]) <= Counts(job'[h]), Promises(job'[h]) <= Promises(job[h])
  PROVE  Within'
<1>1. /\ Load(Uncounted)' = Load(Uncounted) - Counts(job[h]) + Counts(job'[h])
      /\ Load(Promised)' = Load(Promised) - Promises(job[h]) + Promises(job'[h])
  BY LoadStep
<1>2. /\ Counts(job[h]) \in Nat /\ Counts(job'[h]) \in Nat /\ Promises(job[h]) \in Nat /\ Promises(job'[h]) \in Nat
      /\ Load(Uncounted) \in Nat /\ Load(Promised) \in Nat
      /\ flowed \in Nat /\ usage["*"] \in Nat /\ AllLimit \in Nat /\ Cardinality(Handler) * Document \in Nat
  <2>1. /\ Counts(job[h]) \in 0 .. Document /\ Promises(job[h]) \in {0, Document} /\ Document \in Nat
    BY LoadNumbers
  <2>2. Counts(job'[h]) \in 0 .. Document /\ Promises(job'[h]) \in {0, Document}
    <3>1. job'[h].sent \in 0 .. Document
      BY DEF Typed, JobsTyped, Job
    <3>2. QED
      BY <3>1, GatewayAssumption DEF Counts, Promises
  <2>3. QED
    BY <2>1, <2>2, LoadNumbers
<1>3. QED
  BY <1>1, <1>2 DEF Within

\* A request is admitted while the allowance lasts.
LEMMA WithinAdmitted ==
  ASSUME Typed, Typed', Within, NEW h \in Handler, \A g \in Handler : g # h => job'[g] = job[g],
         flowed' = flowed, usage'["*"] = usage["*"], usage["*"] < AllLimit,
         Counts(job[h]) = 0, Counts(job'[h]) = 0
  PROVE  Within'
<1>1. Load(Uncounted)' = Load(Uncounted) - 0 + 0
  BY LoadStep
<1>2. /\ Load(Uncounted)' \in Nat /\ Load(Promised)' \in Nat
      /\ Load(Uncounted)' + Load(Promised)' <= Cardinality(Handler) * Document
  <2>1. /\ Uncounted' \in Loads /\ Promised' \in Loads
        /\ \A g \in Handler : Uncounted'[g] = 0 \/ Promised'[g] = 0
    BY GatewayAssumption DEF Uncounted, Promised, Loads, Typed, JobsTyped, Job
  <2>2. Load(Uncounted)' = Load(Uncounted') /\ Load(Promised)' = Load(Promised')
    BY DEF Load, Shares
  <2>3. QED
    BY <2>1, <2>2, LoadType, LoadsFit
<1>3. /\ Load(Uncounted) \in Nat /\ flowed \in Nat /\ usage["*"] \in Nat /\ AllLimit \in Nat
      /\ Cardinality(Handler) * Document \in Nat
  BY LoadNumbers
<1>4. flowed <= usage["*"] + Load(Uncounted)
  BY DEF Within
<1>5. QED
  BY <1>1, <1>2, <1>3, <1>4 DEF Within

\* Bytes flow, one document at most, and wait to be counted.
LEMMA WithinFlowed ==
  ASSUME Typed, Typed', Within, NEW h \in Handler, NEW k \in Job, NEW sent \in 0 .. Document,
         job' = [job EXCEPT ![h] = Counting(k)], k.sent = sent, job[h].at \in {"put", "flow"},
         flowed' = flowed + sent, UNCHANGED usage
  PROVE  Within'
<1>1. job'[h] = Counting(k) /\ \A g \in Handler : g # h => job'[g] = job[g]
  BY DEF Typed, JobsTyped
<1>2. /\ Counts(job[h]) = 0 /\ Promises(job[h]) = Document /\ Counts(job'[h]) = sent /\ Promises(job'[h]) = 0
  BY <1>1, CountingLoads DEF Counts, Promises
<1>3. Load(Uncounted)' = Load(Uncounted) - 0 + sent /\ Load(Promised)' = Load(Promised) - Document + 0
  BY <1>1, <1>2, LoadStep
<1>4. QED
  BY <1>3, LoadNumbers, GatewayAssumption DEF Within

LEMMA WithinBrowse ==
  ASSUME Typed, Typed', Within, NEW u \in Upload, Begin(u) \/ Drop(u) \/ Refuse(u) \/ Browse(u)
  PROVE  Within'
<1>1. CASE UNCHANGED <<job, usage, flowed>>
  <2>1. Load(Uncounted)' = Load(Uncounted) /\ Load(Promised)' = Load(Promised)
    BY <1>1 DEF Uncounted, Promised, Load, Shares
  <2>2. QED
    BY <1>1, <2>1 DEF Within
<1>2. ASSUME NEW h \in Handler, Admit(u, h) PROVE Within'
  <2> DEFINE mine == [Rest EXCEPT !.up = u, !.org = OwnerOf[u], !.start = tab[u].offset]
  <2>1. /\ \A g \in Handler : g # h => job'[g] = job[g]
        /\ flowed' = flowed /\ usage' = usage /\ job[h].at = "rest"
    BY <1>2 DEF Admit, Typed, JobsTyped
  <2>2. Counts(job[h]) = 0 /\ Promises(job[h]) = 0
    BY <2>1 DEF Counts, Promises
  <2>3. CASE tab[u].at = "send"
    <3>1. job'[h] = [mine EXCEPT !.at = "put", !.kind = "chunk", !.sent = End(tab[u]) - tab[u].offset]
      BY <1>2, <2>3 DEF Admit, Typed, JobsTyped
    <3>2. job'[h].at = "put"
      BY <3>1 DEF Rest
    <3>3. usage["*"] < AllLimit
      BY <1>2, <2>3, LoadNumbers DEF Admit, OverBudget
    <3>4. Counts(job'[h]) = 0
      BY <3>2 DEF Counts
    <3>5. QED
      BY <2>1, <2>2, <3>3, <3>4, WithinAdmitted
  <2>4. CASE tab[u].at # "send"
    <3>1. job'[h] = [mine EXCEPT !.at = "query", !.kind = "ask"]
      BY <1>2, <2>4 DEF Admit, Typed, JobsTyped
    <3>2. job'[h].at = "query"
      BY <3>1 DEF Rest
    <3>3. Counts(job'[h]) = 0 /\ Promises(job'[h]) = 0
      BY <3>2 DEF Counts, Promises
    <3>4. QED
      BY <2>1, <2>2, <3>3, WithinKept
  <2>5. QED
    BY <2>3, <2>4
<1>3. QED
  BY <1>1, <1>2 DEF Begin, Drop, Refuse, Browse, Commit, Pin, AnswerFromRow, RefuseOutOfOrder, RefuseOverBudget

LEMMA WithinServe ==
  ASSUME Typed, Typed', Within, NEW h \in Handler, Serve(h) \/ \E o \in Org : Read(h, o)
  PROVE  Within'
<1> DEFINE j == job[h]
<1>1. j \in Job /\ Sound(j) /\ job \in [Handler -> Job] /\ usage \in [Org \cup {"*"} -> Nat]
  BY DEF Typed, JobsTyped, CountsTyped
<1>2. ASSUME NEW k, job' = [job EXCEPT ![h] = k] PROVE job'[h] = k /\ \A g \in Handler : g # h => job'[g] = job[g]
  BY <1>1, <1>2
<1>3. ASSUME NEW k, job' = [job EXCEPT ![h] = k], Counts(j) = 0, Promises(k) = 0, Counts(k) \in Nat,
             flowed' = flowed, usage'["*"] = usage["*"]
      PROVE  Within'
  <2>1. job'[h] = k /\ \A g \in Handler : g # h => job'[g] = job[g]
    BY <1>2, <1>3
  <2>2. Promises(job'[h]) <= Promises(job[h]) /\ Counts(job[h]) <= Counts(job'[h])
    BY <1>3, <2>1, LoadNumbers
  <2>3. QED
    BY <1>3, <2>1, <2>2, WithinKept
<1>4. CASE RecordTotal(h)
  <2> DEFINE k == [j EXCEPT !.at = "org"]
  <2>1. job' = [job EXCEPT ![h] = k] /\ k.at = "org"
    BY <1>1, <1>4 DEF RecordTotal, Job
  <2>2. /\ Counts(job'[h]) = 0 /\ Promises(job'[h]) = 0 /\ Promises(job[h]) = 0 /\ Counts(job[h]) = j.sent
        /\ \A g \in Handler : g # h => job'[g] = job[g]
    BY <1>2, <1>4, <2>1 DEF Counts, Promises, RecordTotal
  <2>3. Load(Uncounted)' = Load(Uncounted) - j.sent + 0 /\ Load(Promised)' = Load(Promised) - 0 + 0
    BY <2>2, LoadStep
  <2>4. usage'["*"] = usage["*"] + j.sent /\ flowed' = flowed /\ j.sent \in Nat
    BY <1>1, <1>4, LoadNumbers DEF RecordTotal, Job
  <2> HIDE DEF j
  <2>5. QED
    BY <2>3, <2>4, LoadNumbers DEF Within
<1>5. CASE RecordOrg(h)
  <2>1. PICK l : job' = [job EXCEPT ![h] = Onward(j)] \/ job' = [job EXCEPT ![h] = [j EXCEPT !.at = "warn", !.line = l]]
    BY <1>5 DEF RecordOrg
  <2>2. [j EXCEPT !.at = "warn", !.line = l].at = "warn"
    BY <1>1 DEF Job
  <2>3. /\ Counts([j EXCEPT !.at = "warn", !.line = l]) = 0 /\ Promises([j EXCEPT !.at = "warn", !.line = l]) = 0
        /\ Counts(Onward(j)) = 0 /\ Promises(Onward(j)) = 0
    BY <1>1, <2>2, CountingLoads DEF Counts, Promises
  <2>4. Counts(j) = 0 /\ flowed' = flowed /\ usage'["*"] = usage["*"]
    <3>1. j.at = "org" /\ j.org \in Org /\ j.org # "*"
      BY <1>1, <1>5, GatewayAssumption DEF RecordOrg, Sound
    <3>2. QED
      BY <1>1, <1>5, <3>1 DEF RecordOrg, Counts
  <2>5. QED
    BY <1>3, <2>1, <2>3, <2>4
<1>6. CASE WarnOwners(h)
  <2>1. Counts(j) = 0 /\ flowed' = flowed /\ usage' = usage /\ job' = [job EXCEPT ![h] = Onward(j)]
    BY <1>6 DEF WarnOwners, Counts
  <2>2. Counts(Onward(j)) \in Nat /\ Promises(Onward(j)) = 0
    BY <1>1, CountingLoads
  <2> HIDE DEF j
  <2>3. QED
    BY <1>3, <2>1, <2>2
<1>7. CASE PutChunk(h)
  <2>1. PICK k \in Job, sent \in 0 .. j.sent : PutLearns(h, k, sent)
    BY <1>7, PutEffect
  <2>2. sent \in 0 .. Document
    BY <1>7, <2>1, PutEffect, GatewayAssumption
  <2>3. QED
    BY <1>7, <2>1, <2>2, WithinFlowed DEF PutLearns, PutChunk
<1>8. CASE Flow(h)
  <2>1. PICK sent \in 0 .. Document :
          flowed' = flowed + sent /\ job' = [job EXCEPT ![h] = Counting([j EXCEPT !.sent = sent])]
    BY <1>8 DEF Flow
  <2>2. [j EXCEPT !.sent = sent] \in Job /\ [j EXCEPT !.sent = sent].sent = sent
    BY <1>1 DEF Job
  <2>3. QED
    BY <1>8, <2>1, <2>2, WithinFlowed DEF Flow
<1>9. ASSUME NEW o \in Org, Read(h, o) PROVE Within'
  <2>1. job'[h] = [Rest EXCEPT !.at = "flow", !.org = o] /\ \A g \in Handler : g # h => job'[g] = job[g]
    BY <1>1, <1>9 DEF Read
  <2>2. job'[h].at = "flow"
    BY <2>1 DEF Rest
  <2>3. Counts(job[h]) = 0 /\ Counts(job'[h]) = 0
    BY <1>9, <2>2 DEF Read, Counts
  <2>4. usage["*"] < AllLimit
    <3>1. ~(usage["*"] >= AllLimit)
      BY <1>9 DEF Read, OverBudget
    <3>2. QED
      BY <3>1, LoadNumbers
  <2>5. UNCHANGED <<flowed, usage>>
    BY <1>9 DEF Read
  <2>6. QED
    BY <2>1, <2>3, <2>4, <2>5, WithinAdmitted
<1>10. Counts(Rest) = 0 /\ Promises(Rest) = 0
  BY DEF Counts, Promises, Rest
<1>11. CASE Confirm(h)
  <2>1. Counts(j) = 0 /\ flowed' = flowed /\ usage' = usage
    BY <1>11 DEF Confirm, Counts
  <2>2. CASE row[j.up].state = "open"
    BY <1>3, <1>10, <1>11, <2>1, <2>2 DEF Confirm, Answer
  <2>3. CASE row[j.up].state # "open"
    <3> DEFINE m == [j EXCEPT !.failure = "transient"]
    <3>1. m \in Job /\ m.sent \in Nat
      BY <1>1, GatewayAssumption DEF Job
    <3>2. job' = [job EXCEPT ![h] = Counting(m)]
      BY <1>11, <2>3 DEF Confirm
    <3> HIDE DEF m
    <3>3. Counts(Counting(m)) \in Nat /\ Promises(Counting(m)) = 0
      BY <3>1, CountingLoads
    <3>4. QED
      BY <1>3, <2>1, <3>2, <3>3
  <2>4. QED
    BY <2>2, <2>3
<1>12. CASE QuerySession(h)
  <2>1. Counts(j) = 0 /\ flowed' = flowed /\ usage' = usage
    BY <1>12 DEF QuerySession, Counts
  <2> DEFINE k == [j EXCEPT !.at = "save", !.confirmed = held[j.up], !.full = held[j.up] = Total]
  <2>2. job' = [job EXCEPT ![h] = k] \/ job' = [job EXCEPT ![h] = Rest]
    BY <1>12 DEF QuerySession, Answer
  <2>3. k.at = "save"
    BY <1>1 DEF Job
  <2>4. Counts(k) = 0 /\ Promises(k) = 0
    BY <2>3 DEF Counts, Promises
  <2> HIDE DEF k
  <2>5. QED
    BY <1>3, <1>10, <2>1, <2>2, <2>4
<1>13. CASE SaveStatus(h)
  <2>1. Counts(j) = 0 /\ flowed' = flowed /\ usage' = usage /\ job' = [job EXCEPT ![h] = Rest]
    BY <1>13 DEF SaveStatus, Answer, Counts
  <2>2. Counts(Rest) \in Nat
    BY <1>10
  <2> HIDE DEF j
  <2>3. QED
    BY <1>3, <1>10, <2>1, <2>2
<1>14. QED
  BY <1>4, <1>5, <1>6, <1>7, <1>8, <1>9, <1>11, <1>12, <1>13 DEF Serve

LEMMA RestingLoads ==
  ASSUME \A h \in Handler : job[h].at = "rest"
  PROVE  Load(Uncounted) = 0 /\ Load(Promised) = 0
<1>1. \A h \in Handler : Uncounted[h] = 0 /\ Promised[h] = 0
  BY DEF Uncounted, Promised
<1>2. Uncounted \in Loads /\ Promised \in Loads
  BY GatewayAssumption DEF Uncounted, Promised, Loads
<1>3. QED
  BY <1>1, <1>2, NoLoad

LEMMA WithinStep ==
  ASSUME Typed, Within, [Next]_vars
  PROVE  Within'
<1>1. Typed'
  BY TypedStep
<1>2. CASE UNCHANGED vars
  <2>1. Load(Uncounted)' = Load(Uncounted) /\ Load(Promised)' = Load(Promised)
    BY <1>2 DEF vars, Uncounted, Promised, Load, Shares
  <2>2. QED
    BY <1>2, <2>1 DEF vars, Within
<1>3. CASE Restart
  <2>1. \A h \in Handler : job'[h].at = "rest"
    BY <1>3 DEF Restart, Rest
  <2>2. Load(Uncounted)' = 0 /\ Load(Promised)' = 0
    <3>1. \A h \in Handler : Uncounted'[h] = 0 /\ Promised'[h] = 0
      BY <2>1 DEF Uncounted, Promised
    <3>2. Uncounted' \in Loads /\ Promised' \in Loads
      BY <2>1, GatewayAssumption DEF Uncounted, Promised, Loads
    <3>3. Load(Uncounted') = 0 /\ Load(Promised') = 0
      BY <3>1, <3>2, NoLoad
    <3>4. QED
      BY <3>3 DEF Load, Shares
  <2>3. PICK h \in Handler : TRUE
    BY <1>3 DEF Restart
  <2>4. flowed' = Smaller(flowed, usage["*"]) /\ usage' = usage
    BY <1>3 DEF Restart
  <2>5. flowed' <= flowed /\ flowed' <= usage["*"] /\ flowed' \in Nat
    BY <2>4, LoadNumbers DEF Smaller
  <2>6. QED
    BY <2>2, <2>4, <2>5, LoadNumbers DEF Within
<1>4. QED
  BY <1>1, <1>2, <1>3, WithinBrowse, WithinServe DEF Next

\* The month's allowance is exceeded by less than one document for each request in flight, however
\* the checks, the transfers and the additions interleave.
THEOREM AllowanceHoldsAlways == Spec => []AllowanceHolds
<1>1. Init => Within
  <2>1. SUFFICES ASSUME Init PROVE Within
    OBVIOUS
  <2>2. Load(Uncounted) = 0 /\ Load(Promised) = 0
    BY <2>1, RestingLoads DEF Init, Rest
  <2>3. Cardinality(Handler) \in Nat
    BY FS_CardinalityType, GatewayAssumption
  <2>4. flowed = 0 /\ usage["*"] = 0 /\ Cardinality(Handler) * Document \in Nat
    BY <2>1, <2>3, GatewayAssumption DEF Init
  <2>5. QED
    BY <2>2, <2>4, GatewayAssumption DEF Within
<1>2. Typed /\ Within /\ [Next]_vars => Within'
  BY WithinStep
<1>3. Typed /\ Within => AllowanceHolds
  <2>1. SUFFICES ASSUME Typed, Within PROVE AllowanceHolds
    OBVIOUS
  <2>2. Load(Promised) \in Nat /\ flowed \in Nat
    BY <2>1, LoadsTyped DEF Typed, CountsTyped
  <2>3. Cardinality(Handler) * Document \in Nat /\ AllLimit \in Nat
    BY FS_CardinalityType, GatewayAssumption
  <2>4. QED
    BY <2>1, <2>2, <2>3 DEF Within, AllowanceHolds
<1>4. QED
  BY <1>1, <1>2, <1>3, TypedHolds, PTL DEF Spec
=============================================================================
