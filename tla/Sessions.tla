------------------------------ MODULE Sessions ------------------------------
(***************************************************************************)
(* Sign-in sessions of one profile: apps/api/src/auth/tokens.ts, the       *)
(* routes that call it (auth/routes.ts, plugins/authenticate.ts, events.ts), *)
(* the ban lever of the console and the nightly sweep.                     *)
(*                                                                         *)
(* Several API instances share one database.  Each keeps its own cache of  *)
(* live sessions.  A handler is one HTTP request in flight; it gives way   *)
(* to the others at each await, so one action here is the code between two *)
(* awaits.  A read takes the database's answer and the handler uses it     *)
(* later; a write carries the clock value captured when it was sent.       *)
(***************************************************************************)
EXTENDS Integers, FiniteSets

CONSTANTS
  Instance,         \* API processes
  Session,          \* session ids
  Token,            \* refresh token ids
  Handler,          \* slots for requests in flight
  None,             \* "no session" / "no token" in a handler's locals
  CacheWindow,      \* LIVENESS_CACHE_MS
  WriteEvery,       \* ACTIVITY_WRITE_EVERY_MS
  IdleTimeout,      \* IDLE_TIMEOUT_MS
  RotationGrace,    \* ROTATION_GRACE_MS
  AccessTtl,        \* ACCESS_TTL_SECONDS
  RefreshTtl,       \* REFRESH_TTL_DAYS
  Retention,        \* TRANSIENT_RETENTION_MS of the nightly job
  CacheCap,         \* entries remember() tolerates before clearing (5000)
  Latency,          \* longest await of a handler
  Offered,          \* bound: the kinds of traffic that occur
  MaxTime           \* bound on the clock

ASSUME TimesAssumption ==
  /\ CacheWindow \in Nat \ {0} /\ WriteEvery \in Nat /\ IdleTimeout \in Nat
  /\ RotationGrace \in Nat /\ AccessTtl \in Nat /\ RefreshTtl \in Nat
  /\ Retention \in Nat /\ CacheCap \in Nat /\ Latency \in Nat /\ MaxTime \in Nat
ASSUME OrderAssumption == CacheWindow <= WriteEvery /\ Latency <= CacheWindow
ASSUME NoneAssumption == None \notin Session /\ None \notin Token /\ None \notin Instance

VARIABLES
  now,          \* the wall clock, in ticks
  session,      \* the Session table
  token,        \* the RefreshToken table
  banned,       \* Profile.bannedAt is set
  cache,        \* sessionCache of every instance
  accessUntil,  \* expiry of the newest access token minted for a session
  handler,      \* locals of every request in flight
  sweep,        \* locals of the nightly job
  streams,      \* open event streams: the instance serving it and its session
  lastSeen      \* history: when the person last signed in or acted

vars == <<now, session, token, banned, cache, accessUntil, handler, sweep, streams, lastSeen>>

-----------------------------------------------------------------------------
(* Rows and locals.                                                        *)

Reason == {"", "idle", "expired", "logout", "revoked", "banned"}

SessionRow == [state : {"absent", "live", "ended", "gone"}, lastActivityAt : Nat,
               expiresAt : Nat, endedAt : Nat, endedReason : Reason]
NoRow == [state |-> "absent", lastActivityAt |-> 0, expiresAt |-> 0,
          endedAt |-> 0, endedReason |-> ""]

TokenRow == [state : {"absent", "live", "revoked", "gone"}, sess : Session \cup {None},
             expiresAt : Nat, revokedAt : Nat]
NoToken == [state |-> "absent", sess |-> None, expiresAt |-> 0, revokedAt |-> 0]

CacheEntry == [held : BOOLEAN, idleDeadline : Nat, expiresAt : Nat, readAt : Nat]
NoEntry == [held |-> FALSE, idleDeadline |-> 0, expiresAt |-> 0, readAt |-> 0]

Kind == {"none", "request", "activity", "touch", "stream", "heartbeat", "refresh",
         "logout", "ban", "login"}
Pc == {"rest", "read", "judge", "end", "ended", "touch", "touched",
       "open", "rotate", "issue", "start", "findAll"}

Locals == [pc : Pc, kind : Kind, inst : Instance \cup {None}, sess : Session \cup {None},
           tok : Token \cup {None}, at : Nat, row : SessionRow, reason : Reason,
           todo : SUBSET Session]
Rest == [pc |-> "rest", kind |-> "none", inst |-> None, sess |-> None, tok |-> None,
         at |-> 0, row |-> NoRow, reason |-> "", todo |-> {}]

SweepLocals == [pc : {"rest", "endIdle", "endExpired", "revoke", "prune"},
                idled : SUBSET Session, expired : SUBSET Session, at : Nat]
SweepRest == [pc |-> "rest", idled |-> {}, expired |-> {}, at |-> 0]

TypeOK ==
  /\ now \in 0 .. MaxTime
  /\ session \in [Session -> SessionRow]
  /\ token \in [Token -> TokenRow]
  /\ banned \in BOOLEAN
  /\ cache \in [Instance -> [Session -> CacheEntry]]
  /\ accessUntil \in [Session -> Nat]
  /\ handler \in [Handler -> Locals]
  /\ sweep \in SweepLocals
  /\ streams \in SUBSET (Instance \X Session)
  /\ lastSeen \in [Session -> Nat]

Init ==
  /\ now = 0
  /\ session = [s \in Session |-> NoRow]
  /\ token = [t \in Token |-> NoToken]
  /\ banned = FALSE
  /\ cache = [i \in Instance |-> [s \in Session |-> NoEntry]]
  /\ accessUntil = [s \in Session |-> 0]
  /\ handler = [h \in Handler |-> Rest]
  /\ sweep = SweepRest
  /\ streams = {}
  /\ lastSeen = [s \in Session |-> 0]

-----------------------------------------------------------------------------
(* The operators the handlers are built from.                              *)

\* Bound: an expiry the clock will not reach is as good as any other.
Until(n) == IF n > MaxTime THEN MaxTime + 1 ELSE n

\* Away for longer than the policy allows, judged at time n.
isIdle(row, n) == n - row.lastActivityAt > IdleTimeout

\* The fast path of checkSession: a recent entry whose deadlines are ahead.
CacheAnswers(e, n) ==
  /\ e.held
  /\ n - e.readAt < CacheWindow
  /\ n < e.idleDeadline
  /\ n < e.expiresAt

\* Mutant: the deadline computed backwards from the last activity.
EntryBackwards(row, n) == [held |-> TRUE, idleDeadline |-> row.lastActivityAt - IdleTimeout,
                           expiresAt |-> row.expiresAt, readAt |-> n]

EntryFor(row, n) == [held |-> TRUE, idleDeadline |-> row.lastActivityAt + IdleTimeout,
                     expiresAt |-> row.expiresAt, readAt |-> n]

\* The instance's cache after remember(): cleared first when over capacity.
remember(c, s, e) ==
  IF Cardinality({x \in Session : c[x].held}) > CacheCap
  THEN [x \in Session |-> IF x = s THEN e ELSE NoEntry]
  ELSE [c EXCEPT ![s] = e]

Forget(i, s) == [cache EXCEPT ![i][s] = NoEntry]

\* Mutant: the update of endSession without endedAt: null in its where clause.
EndedAgain(row, n, reason) ==
  IF row.state \in {"live", "ended"}
  THEN [row EXCEPT !.state = "ended", !.endedAt = n, !.endedReason = reason]
  ELSE row

\* What endSession's first updateMany leaves of a row.
Ended(row, n, reason) ==
  IF row.state = "live"
  THEN [row EXCEPT !.state = "ended", !.endedAt = n, !.endedReason = reason]
  ELSE row

\* ... and its second: the live tokens of the sessions ss, revoked at n.
RevokeTokens(ss, n) ==
  [t \in Token |-> IF token[t].state = "live" /\ token[t].sess \in ss
                   THEN [token[t] EXCEPT !.state = "revoked", !.revokedAt = n]
                   ELSE token[t]]

\* The locals of a handler that awaits its next call, sent now.
Go(l, pc) == [l EXCEPT !.pc = pc, !.at = now, !.row = NoRow]
AsTouch(l) == [l EXCEPT !.kind = "touch"]

\* Mutant: touchSession writes on every beat.
AlwaysWrites(e) == FALSE

\* The stored activity moved so recently that a beat would write the same answer.
Recent(e) == e.held /\ now - (e.idleDeadline - IdleTimeout) < WriteEvery

\* The locals of a handler whose checkSession said ok, c being its instance's
\* cache.  The code up to the next await runs with it: a plain request is
\* served, a refresh goes on to rotate, a beat enters touchSession, which
\* checks again and then decides from the cache whether to write.
AfterPass(l, c) ==
  LET e == c[l.sess]
  IN CASE l.kind \in {"request", "heartbeat"} -> Rest
       [] l.kind = "stream" -> Go(l, "open")
       [] l.kind = "refresh" -> Go(l, IF l.tok = None THEN "issue" ELSE "rotate")
       [] l.kind = "activity" /\ ~CacheAnswers(e, now) -> Go(AsTouch(l), "read")
       [] OTHER -> IF Recent(e) THEN Rest ELSE Go(AsTouch(l), "touch")

\* checkSession for the locals l, up to its first await.
BeginCheck(l) ==
  IF CacheAnswers(cache[l.inst][l.sess], now)
  THEN AfterPass(l, cache[l.inst])
  ELSE [l EXCEPT !.pc = "read", !.at = now]

\* Mutant: the heartbeat notices the ending and keeps the stream.
KeepOpen(l) == streams

\* A heartbeat that finds its session ended closes the stream it was for.
HangUp(l) == IF l.kind = "heartbeat" THEN streams \ {<<l.inst, l.sess>>} ELSE streams

BeginEnd(l, reason) == [Go(l, "end") EXCEPT !.reason = reason]

\* Handler h goes on with locals l; a beat about to be written is a sighting.
Goto(h, l) ==
  /\ handler' = [handler EXCEPT ![h] = l]
  /\ lastSeen' = IF l.pc = "touch" THEN [lastSeen EXCEPT ![l.sess] = now] ELSE lastSeen

At(h, pc) == handler[h].pc = pc

\* Bound: a request that will issue tokens starts only while ids are left.
RoomToIssue ==
  Cardinality({t \in Token : token[t].state = "absent"})
    > Cardinality({g \in Handler : handler[g].kind \in {"login", "refresh"}})

-----------------------------------------------------------------------------
(* Requests arriving.                                                      *)

\* authenticate, optionalProfileId and the event streams: an access token that
\* still verifies, then checkSession on its sid.  A stream once open only repeats
\* the second part, every time its heartbeat is due.
Arrive(h, i, s, kind) ==
  /\ At(h, "rest") /\ kind \in Offered
  /\ IF kind = "heartbeat" THEN <<i, s>> \in streams ELSE now < accessUntil[s]
  /\ Goto(h, BeginCheck([Rest EXCEPT !.kind = kind, !.inst = i, !.sess = s]))
  /\ UNCHANGED <<now, session, token, banned, cache, accessUntil, sweep, streams>>

\* rotateRefreshToken: find the row, refuse an expired one, end the session of
\* one revoked longer ago than the grace window, otherwise check the session.
\* The locals keep the token only if it was live when read.
Refresh(h, i, t) ==
  /\ At(h, "rest") /\ "refresh" \in Offered /\ RoomToIssue
  /\ token[t].state \in {"live", "revoked"}
  /\ token[t].expiresAt >= now
  /\ LET l == [Rest EXCEPT !.kind = "refresh", !.inst = i, !.sess = token[t].sess,
                           !.tok = IF token[t].state = "live" THEN t ELSE None]
         reused == token[t].state = "revoked" /\ now - token[t].revokedAt > RotationGrace
     IN Goto(h, IF reused THEN BeginEnd(l, "revoked") ELSE BeginCheck(l))
  /\ UNCHANGED <<now, session, token, banned, cache, accessUntil, sweep, streams>>

\* revokeRefreshToken: whoever presents a known token signs its session out.
Logout(h, i, t) ==
  /\ At(h, "rest") /\ "logout" \in Offered
  /\ token[t].state \in {"live", "revoked"}
  /\ Goto(h, BeginEnd([Rest EXCEPT !.kind = "logout", !.inst = i, !.sess = token[t].sess],
                      "logout"))
  /\ UNCHANGED <<now, session, token, banned, cache, accessUntil, sweep, streams>>

\* POST /auth/login up to the password check: the profile as read was not banned.
Login(h, i) ==
  /\ At(h, "rest") /\ RoomToIssue
  /\ ~banned
  /\ Cardinality({s \in Session : session[s].state = "absent"})
       > Cardinality({g \in Handler : handler[g].kind = "login"})
  /\ Goto(h, [Rest EXCEPT !.kind = "login", !.inst = i, !.pc = "start", !.at = now])
  /\ UNCHANGED <<now, session, token, banned, cache, accessUntil, sweep, streams>>

\* POST /admin/users/ban: the flag is written, then endAllSessions begins.
Ban(h, i) ==
  /\ At(h, "rest") /\ "ban" \in Offered
  /\ banned' = TRUE
  /\ Goto(h, [Rest EXCEPT !.kind = "ban", !.inst = i, !.pc = "findAll", !.at = now])
  /\ UNCHANGED <<now, session, token, cache, accessUntil, sweep, streams>>

Unban ==
  /\ banned /\ "unban" \in Offered
  /\ banned' = FALSE
  /\ UNCHANGED <<now, session, token, cache, accessUntil, handler, sweep, streams, lastSeen>>

-----------------------------------------------------------------------------
(* Requests going on after an await.                                       *)

\* The findUnique of checkSession is answered.
Read(h) ==
  /\ At(h, "read")
  /\ handler' = [handler EXCEPT ![h].pc = "judge", ![h].row = session[handler[h].sess]]
  /\ UNCHANGED <<now, session, token, banned, cache, accessUntil, sweep, streams, lastSeen>>

\* checkSession judges the row it was given, by the clock it read beforehand.
JudgeDead(h) ==
  LET l == handler[h] IN
  /\ At(h, "judge")
  /\ l.row.state # "live"
  /\ cache' = Forget(l.inst, l.sess)
  /\ streams' = HangUp(l)
  /\ Goto(h, Rest)
  /\ UNCHANGED <<now, session, token, banned, accessUntil, sweep>>

JudgeExpired(h) ==
  LET l == handler[h] IN
  /\ At(h, "judge")
  /\ l.row.state = "live"
  /\ l.row.expiresAt <= l.at
  /\ Goto(h, BeginEnd(l, "expired"))
  /\ UNCHANGED <<now, session, token, banned, cache, accessUntil, sweep, streams>>

JudgeIdle(h) ==
  LET l == handler[h] IN
  /\ At(h, "judge")
  /\ l.row.state = "live"
  /\ l.row.expiresAt > l.at
  /\ isIdle(l.row, l.at)
  /\ Goto(h, BeginEnd(l, "idle"))
  /\ UNCHANGED <<now, session, token, banned, cache, accessUntil, sweep, streams>>

JudgeLive(h) ==
  LET l == handler[h]
      c == remember(cache[l.inst], l.sess, EntryFor(l.row, l.at)) IN
  /\ At(h, "judge")
  /\ l.row.state = "live"
  /\ l.row.expiresAt > l.at
  /\ ~isIdle(l.row, l.at)
  /\ cache' = [cache EXCEPT ![l.inst] = c]
  /\ Goto(h, AfterPass(l, c))
  /\ UNCHANGED <<now, session, token, banned, accessUntil, sweep, streams>>

\* endSession's transaction commits.
EndCommit(h) ==
  LET l == handler[h] IN
  /\ At(h, "end")
  /\ session' = [session EXCEPT ![l.sess] = Ended(@, l.at, l.reason)]
  /\ token' = RevokeTokens({l.sess}, l.at)
  /\ handler' = [handler EXCEPT ![h].pc = "ended"]
  /\ UNCHANGED <<now, banned, cache, accessUntil, sweep, streams, lastSeen>>

\* Mutant: a ban stops after the first session.
EndReturnOnce(h) ==
  LET l == handler[h] IN
  /\ At(h, "ended")
  /\ cache' = Forget(l.inst, l.sess)
  /\ streams' = HangUp(l)
  /\ Goto(h, Rest)
  /\ UNCHANGED <<now, session, token, banned, accessUntil, sweep>>

\* endSession forgets the session on this instance; a ban takes up the next one.
EndReturn(h) ==
  LET l == handler[h] IN
  /\ At(h, "ended")
  /\ cache' = Forget(l.inst, l.sess)
  /\ streams' = HangUp(l)
  /\ \/ l.todo = {} /\ Goto(h, Rest)
     \/ \E s \in l.todo : Goto(h, BeginEnd([l EXCEPT !.sess = s, !.todo = @ \ {s}], "banned"))
  /\ UNCHANGED <<now, session, token, banned, accessUntil, sweep>>

\* The update of touchSession: any existing row takes it, ended or not; a row
\* deleted meanwhile makes the update, and so the request, fail.
TouchCommit(h) ==
  LET l == handler[h]
      row == [session[l.sess] EXCEPT !.lastActivityAt = l.at] IN
  /\ At(h, "touch")
  /\ IF session[l.sess].state = "gone"
     THEN handler' = [handler EXCEPT ![h] = Rest] /\ UNCHANGED session
     ELSE /\ session' = [session EXCEPT ![l.sess] = row]
          /\ handler' = [handler EXCEPT ![h].pc = "touched", ![h].row = row]
  /\ UNCHANGED <<now, token, banned, cache, accessUntil, sweep, streams, lastSeen>>

\* touchSession remembers what the update returned, without looking at endedAt.
TouchReturn(h) ==
  LET l == handler[h] IN
  /\ At(h, "touched")
  /\ cache' = [cache EXCEPT ![l.inst] = remember(@, l.sess, EntryFor(l.row, l.at))]
  /\ Goto(h, Rest)
  /\ UNCHANGED <<now, session, token, banned, accessUntil, sweep, streams>>

\* The membership is found and the stream is opened.
OpenStream(h) ==
  LET l == handler[h] IN
  /\ At(h, "open")
  /\ streams' = streams \cup {<<l.inst, l.sess>>}
  /\ Goto(h, Rest)
  /\ UNCHANGED <<now, session, token, banned, cache, accessUntil, sweep>>

\* The browser goes away.
CloseStream ==
  /\ \E c \in streams : streams' = streams \ {c}
  /\ UNCHANGED <<now, session, token, banned, cache, accessUntil, handler, sweep, lastSeen>>

\* Mutant: a refresh counts as activity.
RotateMovesDeadline(h) ==
  LET l == handler[h] IN
  /\ At(h, "rotate")
  /\ token' = [token EXCEPT ![l.tok].state = "revoked", ![l.tok].revokedAt = l.at]
  /\ session' = [session EXCEPT ![l.sess].lastActivityAt = now]
  /\ Goto(h, [l EXCEPT !.pc = "issue", !.at = now])
  /\ UNCHANGED <<now, banned, cache, accessUntil, sweep, streams>>

\* rotateRefreshToken revokes the presented token, on the row as it read it.
Rotate(h) ==
  LET l == handler[h] IN
  /\ At(h, "rotate")
  /\ IF token[l.tok].state \notin {"live", "revoked"}
     THEN Goto(h, Rest) /\ UNCHANGED token
     ELSE /\ token' = [token EXCEPT ![l.tok].state = "revoked", ![l.tok].revokedAt = l.at]
          /\ Goto(h, [l EXCEPT !.pc = "issue", !.at = now])
  /\ UNCHANGED <<now, session, banned, cache, accessUntil, sweep, streams>>

\* issueTokens: the access token and a fresh row in the chain; the row needs its
\* session to exist.
Issue(h) ==
  LET l == handler[h] IN
  /\ At(h, "issue")
  /\ IF session[l.sess].state = "gone"
     THEN UNCHANGED <<token, accessUntil>>
     ELSE \E t \in Token :
            /\ token[t].state = "absent"
            /\ token' = [token EXCEPT ![t] = [state |-> "live", sess |-> l.sess,
                                              expiresAt |-> Until(l.at + RefreshTtl),
                                              revokedAt |-> 0]]
            /\ accessUntil' = [accessUntil EXCEPT
                 ![l.sess] = IF @ > Until(l.at + AccessTtl) THEN @ ELSE Until(l.at + AccessTtl)]
  /\ Goto(h, Rest)
  /\ UNCHANGED <<now, session, banned, cache, sweep, streams>>

\* startSession, after the password has been verified.
StartSession(h) ==
  LET l == handler[h] IN
  /\ At(h, "start")
  /\ \E s \in Session :
       /\ session[s].state = "absent"
       /\ session' = [session EXCEPT ![s] = [NoRow EXCEPT !.state = "live",
                        !.lastActivityAt = now, !.expiresAt = Until(l.at + RefreshTtl)]]
       /\ handler' = [handler EXCEPT ![h] = [l EXCEPT !.pc = "issue", !.sess = s, !.at = now]]
       /\ lastSeen' = [lastSeen EXCEPT ![s] = now]
  /\ UNCHANGED <<now, token, banned, cache, accessUntil, sweep, streams>>

\* endAllSessions lists the sessions live now and ends them one after another.
FindAll(h) ==
  LET l == handler[h]
      live == {s \in Session : session[s].state = "live"} IN
  /\ At(h, "findAll")
  /\ \/ live = {} /\ Goto(h, Rest)
     \/ \E s \in live : Goto(h, BeginEnd([l EXCEPT !.sess = s, !.todo = live \ {s}], "banned"))
  /\ UNCHANGED <<now, session, token, banned, cache, accessUntil, sweep, streams>>

-----------------------------------------------------------------------------
(* The nightly job's part 0b and 0c, one database call after another.      *)

\* Mutant: the nightly job looks at expiresAt only.
SweepFindExpiredOnly ==
  LET stale == {s \in Session : session[s].state = "live" /\ session[s].expiresAt < now}
  IN /\ sweep.pc = "rest" /\ "sweep" \in Offered
     /\ sweep' = [pc |-> IF stale = {} THEN "prune" ELSE "endIdle",
                  idled |-> {}, expired |-> stale, at |-> now]
     /\ UNCHANGED <<now, session, token, banned, cache, accessUntil, handler, streams, lastSeen>>

\* Spent tokens are deleted, then (in the same step here) the sessions nobody came back to are listed.
SweepFind ==
  LET stale == {s \in Session : /\ session[s].state = "live"
                                /\ \/ isIdle(session[s], now)
                                   \/ session[s].expiresAt < now}
      spent(t) == \/ token[t].state \in {"live", "revoked"} /\ token[t].expiresAt + Retention < now
                  \/ token[t].state = "revoked" /\ token[t].revokedAt + Retention < now
  IN /\ sweep.pc = "rest" /\ "sweep" \in Offered
     /\ token' = [t \in Token |-> IF spent(t) THEN [token[t] EXCEPT !.state = "gone"] ELSE token[t]]
     /\ sweep' = [pc |-> IF stale = {} THEN "prune" ELSE "endIdle",
                  idled |-> {s \in stale : session[s].expiresAt >= now},
                  expired |-> {s \in stale : session[s].expiresAt < now}, at |-> now]
     /\ UNCHANGED <<now, session, banned, cache, accessUntil, handler, streams, lastSeen>>

\* updateMany by id alone: whatever happened to the row since is overwritten.
SweepEnd(pc, ss, reason, next) ==
  /\ sweep.pc = pc
  /\ session' = [s \in Session |->
       IF s \in ss /\ session[s].state # "gone"
       THEN [session[s] EXCEPT !.state = "ended", !.endedAt = sweep.at, !.endedReason = reason]
       ELSE session[s]]
  /\ sweep' = [sweep EXCEPT !.pc = next]
  /\ UNCHANGED <<now, token, banned, cache, accessUntil, handler, streams, lastSeen>>

SweepEndIdle == SweepEnd("endIdle", sweep.idled, "idle", "endExpired")
SweepEndExpired == SweepEnd("endExpired", sweep.expired, "expired", "revoke")

SweepRevoke ==
  /\ sweep.pc = "revoke"
  /\ token' = RevokeTokens(sweep.idled \cup sweep.expired, sweep.at)
  /\ sweep' = [sweep EXCEPT !.pc = "prune"]
  /\ UNCHANGED <<now, session, banned, cache, accessUntil, handler, streams, lastSeen>>

\* Sessions ended long ago are deleted, their tokens with them.
SweepPrune ==
  LET old(s) == session[s].state = "ended" /\ session[s].endedAt + Retention < now IN
  /\ sweep.pc = "prune"
  /\ session' = [s \in Session |-> IF old(s) THEN [session[s] EXCEPT !.state = "gone"]
                                   ELSE session[s]]
  /\ token' = [t \in Token |-> IF token[t].sess # None /\ old(token[t].sess)
                               THEN [token[t] EXCEPT !.state = "gone"] ELSE token[t]]
  /\ sweep' = SweepRest
  /\ UNCHANGED <<now, banned, cache, accessUntil, handler, streams, lastSeen>>

-----------------------------------------------------------------------------
(* The environment.                                                        *)

\* Time passes, but no await lasts longer than Latency.
Tick ==
  /\ now < MaxTime
  /\ \A h \in Handler : ~At(h, "rest") => now < handler[h].at + Latency
  /\ sweep.pc # "rest" => now < sweep.at + Latency
  /\ now' = now + 1
  /\ UNCHANGED <<session, token, banned, cache, accessUntil, handler, sweep, streams, lastSeen>>

\* An instance restarts: its cache and its requests in flight are lost, and the
\* nightly job with them if it was running there.
Restart(i) ==
  /\ "restart" \in Offered
  /\ \/ \E s \in Session : cache[i][s].held
     \/ \E h \in Handler : handler[h].inst = i
     \/ \E s \in Session : <<i, s>> \in streams
  /\ cache' = [cache EXCEPT ![i] = [s \in Session |-> NoEntry]]
  /\ handler' = [h \in Handler |-> IF handler[h].inst = i THEN Rest ELSE handler[h]]
  /\ sweep' \in {sweep, SweepRest}
  /\ streams' = {c \in streams : c[1] # i}
  /\ UNCHANGED <<now, session, token, banned, accessUntil, lastSeen>>

Step(h) ==
  \/ Read(h) \/ JudgeDead(h) \/ JudgeExpired(h) \/ JudgeIdle(h) \/ JudgeLive(h)
  \/ EndCommit(h) \/ EndReturn(h) \/ TouchCommit(h) \/ TouchReturn(h)
  \/ OpenStream(h) \/ Rotate(h) \/ Issue(h) \/ StartSession(h) \/ FindAll(h)

Sweep == SweepFind \/ SweepEndIdle \/ SweepEndExpired \/ SweepRevoke \/ SweepPrune

Checked == {"request", "activity", "stream", "heartbeat"}

Next ==
  \/ \E h \in Handler, i \in Instance :
       \/ \E s \in Session, kind \in Checked : Arrive(h, i, s, kind)
       \/ \E t \in Token : Refresh(h, i, t) \/ Logout(h, i, t)
       \/ Login(h, i) \/ Ban(h, i)
  \/ \E h \in Handler : Step(h)
  \/ Unban \/ CloseStream \/ Sweep \/ Tick
  \/ \E i \in Instance : Restart(i)

Spec == Init /\ [][Next]_vars

\* A request that got an answer goes on, time passes, the timer of an open
\* stream keeps firing, and the scheduler runs the nightly job to its end.
Fairness ==
  /\ \A h \in Handler : WF_vars(Step(h))
  /\ \A h \in Handler : \A i \in Instance, s \in Session : SF_vars(Arrive(h, i, s, "heartbeat"))
  /\ WF_vars(Tick) /\ WF_vars(SweepFind) /\ SF_vars(SweepEndIdle) /\ SF_vars(SweepEndExpired)
  /\ SF_vars(SweepRevoke) /\ SF_vars(SweepPrune)

FairSpec == Spec /\ Fairness
-----------------------------------------------------------------------------
(* What the sessions promise.                                              *)

Dead(s) == session[s].state \in {"ended", "gone"}

\* The last moment anything can still be done with a session that ended: the
\* answer read just before the ending, remembered for one cache window, and one
\* beat let through by it that is remembered for another.
StopsBy(s) == session[s].endedAt + Latency + 2 * CacheWindow

\* An ended session "stops working within seconds" on every instance
\* (tokens.ts:151-152): past StopsBy no cache answers for it, and no refresh, beat
\* or stream was let through later than that, whatever instance, request or job
\* ended it and however the beats, reads and endings interleave.
EndedStopsWorking ==
  \A s \in Session : Dead(s) =>
    /\ \A i \in Instance : CacheAnswers(cache[i][s], now) => now < StopsBy(s)
    /\ \A h \in Handler :
         handler[h].pc \in {"rotate", "touch", "open"} /\ handler[h].sess = s
           => handler[h].at < StopsBy(s)

\* Nobody stays signed in on refreshes, polls, streams or retries: a cache answers
\* for a session, and a refresh goes through, only within the idle window of the
\* person's own last sign of life (tokens.ts:270-273, auth/routes.ts:107-112).
IdleWindowHonoured ==
  \A s \in Session :
    /\ \A i \in Instance : CacheAnswers(cache[i][s], now) => now < lastSeen[s] + IdleTimeout
    /\ \A h \in Handler : At(h, "rotate") /\ handler[h].sess = s
         => handler[h].at <= lastSeen[s] + IdleTimeout + Latency

\* An ended session never comes back, and "the reason is the one recorded when it
\* happened" (tokens.ts:200-202), whoever else notices the ending later.
RecordedReasonStands ==
  [][\A s \in Session : session[s].state = "ended" =>
       /\ session'[s].state \in {"ended", "gone"}
       /\ session'[s].endedReason = session[s].endedReason]_vars

\* A session is ended as idle only when the database confirms it at that moment, so
\* a beat that landed on another instance keeps it (tokens.ts:148-150).
IdleEndingConfirmed ==
  [][\A s \in Session :
       session[s].state = "live" /\ session'[s].state = "ended" /\ session'[s].endedReason = "idle"
         => isIdle(session[s], session'[s].endedAt)]_vars

\* A session nobody comes back to does not stay marked live (compliance/routes.ts
\* 614-618): it is closed, unless its owner shows up again.
StaleIsClosed ==
  \A s \in Session : (session[s].state = "live" /\ isIdle(session[s], now))
                       ~> ~(session[s].state = "live" /\ isIdle(session[s], now))

\* A stream must not keep listening after its owner has been signed out
\* (events.ts:89-91): it is hung up, the clock's bound permitting.
EndedStreamHungUp ==
  \A i \in Instance, s \in Session :
    (<<i, s>> \in streams /\ Dead(s) /\ StopsBy(s) <= MaxTime) ~> <<i, s>> \notin streams

\* A ban signs its profile out of every device (platform/routes.ts:741-744): each
\* session live when the ban lists them ends, whatever else ends it first.
BanReachesEverySession ==
  \A h \in Handler, s \in Session :
    (At(h, "findAll") /\ session[s].state = "live") ~> session[s].state # "live"
=============================================================================
