------------------------------ MODULE Gateway -------------------------------
(***************************************************************************)
(* The streaming gateway of Google Drive organizations: a browser sends a     *)
(* file chunk by chunk and resumes after failures, the gateway pipes each      *)
(* chunk to Google, keeps the offset Google confirmed, counts what flowed       *)
(* against the month's allowance and warns the owners                           *)
(* (apps/api/src/storage/{gateway,google,gdrive-store,routes}.ts,               *)
(* apps/web/src/lib/storage-crypto.ts).                                         *)
(*                                                                         *)
(* A connection may drop while its handler goes on: the browser then asks      *)
(* and sends again beside a handler that still writes the session row.           *)
(* A byte here stands for 256 KiB, the unit Google keeps.                        *)
(***************************************************************************)
EXTENDS Integers, FiniteSets, FiniteSetsExt

CONSTANTS
  Org,         \* organizations
  Upload,      \* upload sessions, each one row, one Google session and one browser
  Handler,     \* slots for gateway requests in flight
  None,        \* null
  OwnerOf,     \* OwnerOf[u]: the organization of an upload
  Total,       \* totalBytes of an upload
  Chunk,       \* GATEWAY_CHUNK_BYTES
  Document,    \* bytes of the largest object, which a read without a Range serves whole
  AllLimit,    \* monthlyLimitBytes
  OrgLimit,    \* orgMonthlyLimitBytes
  WarnAt,      \* the byte counts of WARN_AT
  Attempts,    \* tries sendChunk makes
  Offered      \* bound: what happens besides

ASSUME GatewayAssumption ==
  /\ OwnerOf \in [Upload -> Org] /\ "*" \notin Org /\ None \notin Handler
  /\ Total \in Nat \ {0} /\ Chunk \in Nat \ {0} /\ Attempts \in Nat \ {0}
  /\ Document \in Nat /\ Chunk <= Document
  /\ AllLimit \in Nat \ {0} /\ OrgLimit \in Nat \ {0}
  /\ WarnAt \subseteq 1 .. OrgLimit /\ OrgLimit \in WarnAt
  /\ IsFiniteSet(Handler)

VARIABLES
  held,      \* Google: bytes it keeps of each upload, without a gap
  row,       \* StorageUploadSession rows
  tab,       \* the browsers: locals of uploadViaGateway and sendChunk
  job,       \* locals of the gateway requests in flight
  usage,     \* StreamUsage rows of this month
  told,      \* messages the owners got, per line of the allowance
  flowed,    \* ghost: bytes that crossed the gateway, less those it lost count of: at a restart,
             \* or with a chunk that failed before its counter closed
  unsaid     \* ghost: the messages a restart swallowed

vars == <<held, row, tab, job, usage, told, flowed, unsaid>>
-----------------------------------------------------------------------------
(* Rows and locals.                                                        *)

\* `sent`: the bytes a chunk announces, then the bytes that flowed.
Bytes == 0 .. Total
Smaller(a, b) == IF a < b THEN a ELSE b
Larger(a, b) == IF a < b THEN b ELSE a

SessionRow == [state : {"none", "open", "gone"}, confirmed : Bytes, completed : BOOLEAN]

Tab == [at : {"idle", "send", "sent", "ask", "asked", "commit", "pin", "done", "failed"},
        start : Bytes, offset : Bytes, attempt : 0 .. Attempts - 1, call : Handler \cup {None}]

Job == [at : {"rest", "put", "flow", "total", "org", "warn", "confirm", "query", "save"},
        kind : {"chunk", "ask", "read"}, up : Upload \cup {None}, org : Org \cup {None},
        start : Bytes, sent : 0 .. Document, confirmed : Bytes, full : BOOLEAN,
        failure : {"none", "transient", "not-found"}, line : WarnAt \cup {0}]

Rest == [at |-> "rest", kind |-> "read", up |-> None, org |-> None, start |-> 0, sent |-> 0,
         confirmed |-> 0, full |-> FALSE, failure |-> "none", line |-> 0]

Init ==
  /\ held = [u \in Upload |-> 0]
  /\ row = [u \in Upload |-> [state |-> "none", confirmed |-> 0, completed |-> FALSE]]
  /\ tab = [u \in Upload |-> [at |-> "idle", start |-> 0, offset |-> 0, attempt |-> 0, call |-> None]]
  /\ job = [h \in Handler |-> Rest]
  /\ usage = [who \in Org \cup {"*"} |-> 0]
  /\ told = [o \in Org |-> [l \in WarnAt |-> 0]]
  /\ flowed = 0 /\ unsaid = [o \in Org |-> {}]
-----------------------------------------------------------------------------
(* The browser. Its part of a step is a function of its locals and the reply.  *)

Reply(status, confirmed, done) == [status |-> status, confirmed |-> confirmed, done |-> done]
Dropped == Reply("down", 0, FALSE)     \* no answer, or a status sendChunk has no case for
Final == Reply("final", 0, FALSE)      \* 400, 401, 403, 410, 413, 429

\* The end of the chunk being sent.
End(t) == Smaller(t.start + Chunk, Total)

Failed(t) == [t EXCEPT !.at = "failed", !.call = None]

\* For a mutant: one try too many, and tries nobody counts.
AgainOnceMore(t) ==
  IF t.attempt < Attempts
  THEN [t EXCEPT !.at = "send", !.attempt = t.attempt + 1, !.call = None]
  ELSE Failed(t)
AgainForever(t) == [t EXCEPT !.at = "send", !.call = None]

\* The for loop of sendChunk goes round.
Again(t) ==
  IF t.attempt + 1 < Attempts
  THEN [t EXCEPT !.at = "send", !.attempt = t.attempt + 1, !.call = None]
  ELSE Failed(t)

\* sendChunk returned `confirmed`, and flush goes on from there.
Flushed(t, confirmed) ==
  CASE confirmed < End(t) -> Failed(t)
    [] confirmed >= End(t) /\ End(t) = Total -> [t EXCEPT !.at = "commit", !.call = None]
    [] OTHER -> [at |-> "send", start |-> End(t), offset |-> End(t), attempt |-> 0, call |-> None]

\* The offset Google reports lies before the chunk, after it, or inside: then the rest is sent.
Resumed(t, confirmed) ==
  CASE confirmed < t.start -> Failed(t)
    [] confirmed >= End(t) -> Flushed(t, confirmed)
    [] OTHER -> Again([t EXCEPT !.offset = confirmed])

\* The reply to a chunk.
AfterChunk(t, r) ==
  CASE r.status = "ok" -> Flushed(t, r.confirmed)
    [] r.status = "conflict" -> Resumed(t, r.confirmed)
    [] r.status = "final" -> Failed(t)
    [] OTHER -> [t EXCEPT !.at = "ask", !.call = None]

\* The reply to a status question.
AfterAsk(t, r) ==
  CASE r.status # "ok" -> Again(t)
    [] r.status = "ok" /\ r.done -> Flushed(t, r.confirmed)
    [] OTHER -> Resumed(t, r.confirmed)

Hears(t, r) == IF t.at \in {"send", "sent"} THEN AfterChunk(t, r) ELSE AfterAsk(t, r)

\* The answer reaches the browser, or the connection drops first.
Tell(u, r) == \E heard \in {r, Dropped} : tab' = [tab EXCEPT ![u] = Hears(@, heard)]

\* beginGdriveUpload: the Google session is open, the row made, the ticket signed.
Begin(u) ==
  /\ tab[u].at = "idle"
  /\ row' = [row EXCEPT ![u].state = "open"]
  /\ tab' = [tab EXCEPT ![u].at = "send"]
  /\ UNCHANGED <<held, job, usage, told, flowed, unsaid>>

\* POST /orgs/:id/storage/commit.
Commit(u) ==
  /\ tab[u].at = "commit"
  /\ tab' = [tab EXCEPT ![u] = IF row[u].completed THEN [@ EXCEPT !.at = "pin"] ELSE Failed(@)]
  /\ UNCHANGED <<held, row, job, usage, told, flowed, unsaid>>

\* ... and, Google having shown the file, its size is compared and the session row goes.
Pin(u) ==
  /\ tab[u].at = "pin"
  /\ row' = [row EXCEPT ![u].state = "gone"]
  /\ tab' = [tab EXCEPT ![u] = IF held[u] = Total THEN [@ EXCEPT !.at = "done"] ELSE Failed(@)]
  /\ UNCHANGED <<held, job, usage, told, flowed, unsaid>>

\* The connection drops while the handler works: the browser goes on, and so does the handler.
Drop(u) ==
  /\ "drop" \in Offered /\ tab[u].call # None
  /\ tab' = [tab EXCEPT ![u] = Hears(@, Dropped)]
  /\ UNCHANGED <<held, row, job, usage, told, flowed, unsaid>>
-----------------------------------------------------------------------------
(* The allowance.                                                          *)

\* budgetRefusal
OverBudget(o) == usage["*"] >= AllLimit \/ usage[o] >= OrgLimit

\* What a request does once its bytes are counted.
Onward(j) ==
  CASE j.kind = "read" -> Rest
    [] j.kind # "read" /\ j.failure # "none" -> [j EXCEPT !.at = "query", !.line = 0]
    [] OTHER -> [j EXCEPT !.at = "confirm", !.line = 0]

\* recordBytes returns at once when nothing flowed.
Counting(j) == IF j.sent = 0 THEN Onward(j) ELSE [j EXCEPT !.at = "total"]

\* The upsert of the platform's row ...
RecordTotal(h) ==
  /\ job[h].at = "total"
  /\ usage' = [usage EXCEPT !["*"] = @ + job[h].sent]
  /\ job' = [job EXCEPT ![h].at = "org"]
  /\ UNCHANGED <<held, row, tab, told, flowed, unsaid>>

\* The lines an addition crossed; only the last of them is announced.
Reached(before, after) == {l \in WarnAt : l <= after}  \* for a mutant
Crossed(before, after) == {l \in WarnAt : before < l /\ l <= after}

\* ... and of the organization's, which knows its own before and after.
RecordOrg(h) ==
  LET j == job[h]
      after == usage[j.org] + j.sent
      crossed == Crossed(after - j.sent, after)
  IN /\ j.at = "org"
     /\ usage' = [usage EXCEPT ![j.org] = after]
     /\ job' = [job EXCEPT ![h] = IF crossed = {} THEN Onward(j)
                                  ELSE [j EXCEPT !.at = "warn", !.line = Max(crossed)]]
     /\ UNCHANGED <<held, row, tab, told, flowed, unsaid>>

\* warnOwners
WarnOwners(h) ==
  LET j == job[h]
  IN /\ j.at = "warn"
     /\ told' = [told EXCEPT ![j.org][j.line] = @ + 1]
     /\ job' = [job EXCEPT ![h] = Onward(j)]
     /\ UNCHANGED <<held, row, tab, usage, flowed, unsaid>>
-----------------------------------------------------------------------------
(* PUT /stream/u/:sessionId                                                *)

Asking(u) == tab[u].at \in {"send", "ask"}

\* The ticket, the session's hour or the organization's connection refuses the request
\* (Connections decides which). A chunk is then lost for good, or tried again.
Refuse(u) ==
  /\ "refuse" \in Offered /\ Asking(u)
  /\ \E r \in {Final, Dropped} : tab' = [tab EXCEPT ![u] = Hears(@, r)]
  /\ UNCHANGED <<held, row, job, usage, told, flowed, unsaid>>

\* The session is complete, or gone: answered from the row.
AnswerFromRow(u) ==
  /\ Asking(u) /\ (row[u].completed \/ row[u].state = "gone")
  /\ Tell(u, IF row[u].state = "gone" THEN Dropped ELSE Reply("ok", Total, TRUE))
  /\ UNCHANGED <<held, row, job, usage, told, flowed, unsaid>>

Unfinished(u) == row[u].state = "open" /\ ~row[u].completed

\* A chunk that does not follow the last one Google confirmed.
RefuseOutOfOrder(u) ==
  /\ tab[u].at = "send" /\ Unfinished(u) /\ tab[u].offset # row[u].confirmed
  /\ Tell(u, Reply("conflict", row[u].confirmed, FALSE))
  /\ UNCHANGED <<held, row, job, usage, told, flowed, unsaid>>

InOrder(u) == tab[u].offset = row[u].confirmed

RefuseOverBudget(u) ==
  /\ tab[u].at = "send" /\ Unfinished(u) /\ InOrder(u) /\ OverBudget(OwnerOf[u])
  /\ Tell(u, Final)
  /\ UNCHANGED <<held, row, job, usage, told, flowed, unsaid>>

\* The request is taken: it holds what it read of the row from here on.
Admit(u, h) ==
  /\ job[h].at = "rest" /\ Asking(u) /\ Unfinished(u)
  /\ tab[u].at = "send" => InOrder(u) /\ ~OverBudget(OwnerOf[u])
  /\ LET mine == [Rest EXCEPT !.up = u, !.org = OwnerOf[u], !.start = tab[u].offset]
     IN IF tab[u].at = "send"
        THEN /\ job' = [job EXCEPT ![h] = [mine EXCEPT !.at = "put", !.kind = "chunk",
                                                       !.sent = End(tab[u]) - tab[u].offset]]
             /\ tab' = [tab EXCEPT ![u].at = "sent", ![u].call = h]
        ELSE /\ job' = [job EXCEPT ![h] = [mine EXCEPT !.at = "query", !.kind = "ask"]]
             /\ tab' = [tab EXCEPT ![u].at = "asked", ![u].call = h]
  /\ UNCHANGED <<held, row, usage, told, flowed, unsaid>>

\* putChunk: Google appends what reaches it in order. It answers with what it holds, or the
\* answer never comes, or it has forgotten the session. The catch block counts what the counter
\* reported by then, which is nothing when the call fails while the body is still on its way.
PutChunk(h) ==
  LET j == job[h]
      length == j.sent
  IN /\ j.at = "put"
     /\ \E failure \in {"none"} \cup ({"transient", "not-found"} \cap Offered),
           kept \in 0 .. length : \E sent \in {0, kept, length} :
          /\ failure = "none" => sent = length
          /\ failure = "not-found" => kept = 0
          /\ LET now == IF j.start <= held[j.up] THEN Larger(held[j.up], j.start + kept) ELSE held[j.up]
             IN /\ held' = [held EXCEPT ![j.up] = now]
                /\ job' = [job EXCEPT ![h] = Counting([j EXCEPT
                       !.sent = sent, !.failure = failure,
                       !.confirmed = IF failure = "none" THEN now ELSE 0,
                       !.full = failure = "none" /\ now = Total])]
          /\ flowed' = flowed + sent
     /\ UNCHANGED <<row, tab, usage, told, unsaid>>

\* The request ends. Its browser hears of it unless it hung up before.
Answer(h, r) ==
  LET u == job[h].up
  IN /\ job' = [job EXCEPT ![h] = Rest]
     /\ tab' = IF tab[u].call = h THEN [tab EXCEPT ![u] = Hears(@, r)] ELSE tab

\* The offset after a chunk that went well; when the row is gone the update throws, and the
\* catch block counts the bytes a second time.
Confirm(h) ==
  LET j == job[h]
  IN /\ j.at = "confirm"
     /\ IF row[j.up].state = "open"
        THEN /\ row' = [row EXCEPT ![j.up].confirmed = j.confirmed,
                                   ![j.up].completed = @ \/ j.full]
             /\ Answer(h, Reply("ok", j.confirmed, j.full))
        ELSE /\ job' = [job EXCEPT ![h] = Counting([j EXCEPT !.failure = "transient"])]
             /\ UNCHANGED <<row, tab>>
     /\ UNCHANGED <<held, usage, told, flowed, unsaid>>

\* The answer a failed chunk ends with.
Failure(j) == IF j.failure = "not-found" THEN Final ELSE Dropped

\* For a mutant: a failed chunk takes what it sent for kept.
AssumeKept(h) ==
  LET j == job[h]
  IN /\ j.at = "query"
     /\ \/ /\ job' = [job EXCEPT ![h] =
                 IF j.kind = "ask"
                 THEN [j EXCEPT !.at = "save", !.confirmed = held[j.up], !.full = held[j.up] = Total]
                 ELSE [j EXCEPT !.at = "save", !.confirmed = j.start + j.sent]]
           /\ UNCHANGED tab
        \/ "transient" \in Offered /\ Answer(h, Failure(j))
     /\ UNCHANGED <<held, row, usage, told, flowed, unsaid>>

\* querySession: a status question, or a failed chunk that must know what Google kept.
QuerySession(h) ==
  LET j == job[h]
  IN /\ j.at = "query"
     /\ \/ /\ job' = [job EXCEPT ![h] = [j EXCEPT !.at = "save", !.confirmed = held[j.up],
                                                  !.full = held[j.up] = Total]]
           /\ UNCHANGED tab
        \/ "transient" \in Offered /\ Answer(h, Failure(j))
     /\ UNCHANGED <<held, row, usage, told, flowed, unsaid>>

\* What Google answered goes into the row. A failed chunk stores the offset only; when the row
\* is gone the update throws, and the answer is a 502 or a 500.
SaveStatus(h) ==
  LET j == job[h]
      open == row[j.up].state = "open"
  IN /\ j.at = "save"
     /\ row' = IF ~open THEN row
               ELSE [row EXCEPT ![j.up].confirmed = j.confirmed,
                                ![j.up].completed = @ \/ (j.kind = "ask" /\ j.full)]
     /\ Answer(h, CASE open /\ j.kind = "ask" -> Reply("ok", j.confirmed, j.full)
                 [] open /\ j.kind # "ask" -> Failure(j)
                 [] OTHER -> Dropped)
     /\ UNCHANGED <<held, usage, told, flowed, unsaid>>
-----------------------------------------------------------------------------
(* GET /stream/r/:objectId, and the gateway's host.                        *)

Read(h, o) ==
  /\ "read" \in Offered /\ job[h].at = "rest" /\ ~OverBudget(o)
  /\ job' = [job EXCEPT ![h] = [Rest EXCEPT !.at = "flow", !.org = o]]
  /\ UNCHANGED <<held, row, tab, usage, told, flowed, unsaid>>

\* For a mutant: the counter reports at the end only, and a reader who leaves before costs nothing.
FlowToTheEnd(h) ==
  /\ job[h].at = "flow"
  /\ \E length \in 0 .. Document : \E sent \in 0 .. length :
       /\ flowed' = flowed + sent
       /\ job' = [job EXCEPT ![h] = Counting([job[h] EXCEPT !.sent = IF sent = length THEN sent ELSE 0])]
  /\ UNCHANGED <<held, row, tab, usage, told, unsaid>>

\* The reader takes some of what it asked for, the whole object at most; what flowed is counted
\* when the stream closes, at its end or before.
Flow(h) ==
  /\ job[h].at = "flow"
  /\ \E sent \in 0 .. Document :
       /\ flowed' = flowed + sent
       /\ job' = [job EXCEPT ![h] = Counting([job[h] EXCEPT !.sent = sent])]
  /\ UNCHANGED <<held, row, tab, usage, told, unsaid>>

\* The gateway restarts: its requests are gone, with the bytes they had not counted and the
\* message one was about to send; the browsers see their connections drop.
Restart ==
  /\ \E h \in Handler : job[h].at # "rest"
  /\ job' = [h \in Handler |-> Rest]
  /\ tab' = [u \in Upload |-> IF tab[u].call = None THEN tab[u] ELSE Hears(tab[u], Dropped)]
  /\ flowed' = Smaller(flowed, usage["*"])
  /\ unsaid' = [o \in Org |-> unsaid[o] \cup {job[h].line : h \in {h \in Handler :
                                               job[h].at = "warn" /\ job[h].org = o}}]
  /\ UNCHANGED <<held, row, usage, told>>
-----------------------------------------------------------------------------
Browse(u) ==
  Commit(u) \/ Pin(u) \/ AnswerFromRow(u) \/ RefuseOutOfOrder(u) \/ RefuseOverBudget(u)
  \/ \E h \in Handler : Admit(u, h)

Serve(h) ==
  RecordTotal(h) \/ RecordOrg(h) \/ WarnOwners(h) \/ PutChunk(h) \/ Confirm(h)
  \/ QuerySession(h) \/ SaveStatus(h) \/ Flow(h)

Next ==
  \/ \E u \in Upload : Begin(u) \/ Drop(u) \/ Refuse(u) \/ Browse(u)
  \/ \E h \in Handler : Serve(h) \/ \E o \in Org : Read(h, o)
  \/ Restart

\* Promises settle, the call to Google times out after two minutes, and a browser whose page
\* stays open goes on; nobody has to read, drop a connection or start an upload. Strong
\* fairness, because a browser never waits for a handler: their number is a bound of the model.
Fairness ==
  /\ \A u \in Upload : SF_vars(Browse(u))
  /\ \A h \in Handler : WF_vars(Serve(h))

Spec == Init /\ [][Next]_vars
FairSpec == Spec /\ Fairness
-----------------------------------------------------------------------------
(* Properties                                                              *)

\* Every variable has its type.
TypeOK ==
  /\ held \in [Upload -> Bytes] /\ row \in [Upload -> SessionRow] /\ tab \in [Upload -> Tab]
  /\ job \in [Handler -> Job]
  /\ usage \in [Org \cup {"*"} -> Nat] /\ told \in [Org -> [WarnAt -> Nat]]
  /\ flowed \in Nat /\ unsaid \in [Org -> SUBSET WarnAt]

\* Whatever is dropped, answered late or asked twice, neither the session row nor the browser
\* is ever ahead of what Google keeps: no byte is skipped, and what is committed is whole.
NeverAhead ==
  \A u \in Upload :
    /\ row[u].confirmed <= held[u] /\ tab[u].offset <= held[u]
    /\ row[u].completed \/ tab[u].at \in {"pin", "done"} => held[u] = Total

\* The owners hear of each line of the allowance at most once, however many requests add to it
\* at the same time; and a line that was passed is announced, by its own message or by that of
\* a higher one, unless a request is still about to do so or a restart swallowed the message.
WarnedOnce ==
  \A o \in Org, l \in WarnAt :
    /\ told[o][l] <= 1
    /\ l <= usage[o] => \E m \in WarnAt :
         l <= m /\ (told[o][m] = 1 \/ m \in unsaid[o]
                    \/ \E h \in Handler : job[h].at = "warn" /\ job[h].org = o /\ job[h].line = m)

\* The allowance holds up to the transfers that were under way when it was reached, which is a
\* whole document for every request in flight, however many of them are abandoned or fail. Of
\* what the gateway lost count of the allowance knows nothing: it comes on top.
AllowanceHolds == flowed < AllLimit + Cardinality(Handler) * Document

\* An upload that began comes to an end, committed or given up, even if every call to Google
\* and every connection fails.
UploadEnds == \A u \in Upload : tab[u].at # "idle" ~> tab[u].at \in {"done", "failed"}
=============================================================================
