--------------------------- MODULE SessionsProofs ---------------------------
(***************************************************************************)
(* Proofs about Sessions, for every value of its constants.                *)
(*                                                                         *)
(* TypeInv adds to TypeOK that a handler past its first step knows which   *)
(* session and token it is about.  The inductive invariant IInv then says, *)
(* for each place where an answer about a session may linger (a cache      *)
(* entry, a row a handler has read, a beat about to be written), how old   *)
(* that answer can be once the session has ended.                          *)
(***************************************************************************)
EXTENDS Sessions, TLAPS

\* A handler's locals name the session, token and instance it works on.
Placed(l) ==
  /\ l.pc # "rest" => l.inst \in Instance
  /\ l.pc \notin {"rest", "start", "findAll"} => l.sess \in Session
  /\ l.pc = "rotate" => l.tok \in Token

TypeInv ==
  /\ TypeOK
  /\ \A h \in Handler : Placed(handler[h])
  /\ \A t \in Token : token[t].state # "absent" => token[t].sess \in Session

-----------------------------------------------------------------------------
(* What the helpers return.                                                *)

LEMMA RememberType ==
  ASSUME NEW c \in [Session -> CacheEntry], NEW s \in Session, NEW e \in CacheEntry
  PROVE  /\ remember(c, s, e) \in [Session -> CacheEntry]
         /\ remember(c, s, e)[s] = e
         /\ \A x \in Session : remember(c, s, e)[x] \in {c[x], e, NoEntry}
         /\ \A x \in Session \ {s} : remember(c, s, e)[x] \in {c[x], NoEntry}
  BY DEF remember, NoEntry, CacheEntry

LEMMA EntryType ==
  ASSUME NEW row \in SessionRow, NEW n \in Nat
  PROVE  EntryFor(row, n) \in CacheEntry
  BY TimesAssumption DEF EntryFor, SessionRow, CacheEntry

LEMMA RowTypes ==
  /\ NoRow \in SessionRow
  /\ NoToken \in TokenRow
  /\ NoEntry \in CacheEntry
  /\ Rest \in Locals
  /\ SweepRest \in SweepLocals
  BY DEF NoRow, NoToken, NoEntry, Rest, SweepRest, SessionRow, TokenRow, CacheEntry,
         Locals, SweepLocals, Reason, Kind, Pc

LEMMA GoType ==
  ASSUME TypeOK, NEW l \in Locals, NEW pc \in Pc
  PROVE  /\ Go(l, pc) \in Locals /\ Go(AsTouch(l), pc) \in Locals
         /\ Go(l, pc).pc = pc /\ Go(l, pc).at = now /\ Go(l, pc).row = NoRow
         /\ Go(l, pc).inst = l.inst /\ Go(l, pc).sess = l.sess /\ Go(l, pc).tok = l.tok
         /\ Go(l, pc).kind = l.kind /\ Go(l, pc).todo = l.todo
         /\ Go(AsTouch(l), pc).pc = pc /\ Go(AsTouch(l), pc).at = now
         /\ Go(AsTouch(l), pc).row = NoRow /\ Go(AsTouch(l), pc).inst = l.inst
         /\ Go(AsTouch(l), pc).sess = l.sess /\ Go(AsTouch(l), pc).tok = l.tok
  <1>1. now \in Nat /\ NoRow \in SessionRow
    BY RowTypes, TimesAssumption DEF TypeOK
  <1> QED
    BY <1>1 DEF Go, AsTouch, Locals, Kind

\* Where a handler can be after its check said ok, and what lets it write a beat.
LEMMA AfterPassCases ==
  ASSUME NEW l, NEW c
  PROVE  \/ AfterPass(l, c) = Rest
         \/ AfterPass(l, c) = Go(l, "open")
         \/ AfterPass(l, c) = Go(l, "issue")
         \/ AfterPass(l, c) = Go(l, "rotate") /\ l.tok # None
         \/ AfterPass(l, c) = Go(AsTouch(l), "read")
         \/ AfterPass(l, c) = Go(AsTouch(l), "touch") /\ ~Recent(c[l.sess])
  BY DEF AfterPass

LEMMA AfterPassType ==
  ASSUME TypeOK, NEW l \in Locals, l.inst \in Instance, l.sess \in Session, NEW c
  PROVE  AfterPass(l, c) \in Locals /\ Placed(AfterPass(l, c))
  <1>1. Rest \in Locals /\ Placed(Rest)
    BY RowTypes DEF Placed, Rest
  <1>2. \A pc \in Pc : Go(l, pc) \in Locals /\ Go(AsTouch(l), pc) \in Locals
    BY GoType
  <1>3. Placed(Go(l, "open")) /\ Placed(Go(l, "issue")) /\ Placed(Go(AsTouch(l), "read"))
        /\ Placed(Go(AsTouch(l), "touch"))
    BY GoType DEF Placed, Pc
  <1>4. l.tok # None => Placed(Go(l, "rotate"))
    BY GoType DEF Placed, Pc, Locals
  <1> QED
    BY <1>1, <1>2, <1>3, <1>4, AfterPassCases DEF Pc

LEMMA BeginTypes ==
  ASSUME TypeOK, NEW l \in Locals, l.inst \in Instance, l.sess \in Session
  PROVE  /\ BeginCheck(l) \in Locals /\ Placed(BeginCheck(l))
         /\ \A reason \in Reason : /\ BeginEnd(l, reason) \in Locals
                                   /\ Placed(BeginEnd(l, reason))
  <1>1. now \in Nat
    BY TimesAssumption DEF TypeOK
  <1>2. [l EXCEPT !.pc = "read", !.at = now] \in Locals
        /\ Placed([l EXCEPT !.pc = "read", !.at = now])
    BY <1>1 DEF Locals, Placed, Pc
  <1>3. BeginCheck(l) \in Locals /\ Placed(BeginCheck(l))
    BY <1>2, AfterPassType DEF BeginCheck
  <1>4. Go(l, "end") \in Locals /\ Go(l, "end").inst = l.inst /\ Go(l, "end").sess = l.sess
        /\ Go(l, "end").pc = "end"
    BY GoType DEF Pc
  <1>5. \A reason \in Reason : BeginEnd(l, reason) \in Locals /\ Placed(BeginEnd(l, reason))
    BY <1>4 DEF BeginEnd, Placed, Locals
  <1> QED
    BY <1>3, <1>5

-----------------------------------------------------------------------------
(* TypeInv is inductive.                                                   *)

HandlersOK == handler \in [Handler -> Locals] /\ \A h \in Handler : Placed(handler[h])

LEMMA GotoType ==
  ASSUME TypeInv, NEW h \in Handler, NEW l \in Locals, Placed(l), Goto(h, l)
  PROVE  HandlersOK' /\ lastSeen' \in [Session -> Nat]
  <1>1. now \in Nat /\ handler \in [Handler -> Locals] /\ lastSeen \in [Session -> Nat]
        /\ \A g \in Handler : Placed(handler[g])
    BY TimesAssumption DEF TypeInv, TypeOK
  <1>2. handler' = [handler EXCEPT ![h] = l]
    BY DEF Goto
  <1>3. handler' \in [Handler -> Locals]
    BY <1>1, <1>2
  <1>4. \A g \in Handler : Placed(handler'[g])
    BY <1>1, <1>2
  <1>5. lastSeen' \in [Session -> Nat]
    BY <1>1 DEF Goto
  <1> QED
    BY <1>3, <1>4, <1>5 DEF HandlersOK, Placed

LEMMA InitType == Init => TypeInv
  <1> SUFFICES ASSUME Init PROVE TypeInv
    OBVIOUS
  <1>1. now \in 0 .. MaxTime
    BY TimesAssumption DEF Init
  <1>8. banned \in BOOLEAN /\ streams \in SUBSET (Instance \X Session)
    BY DEF Init
  <1>2. session \in [Session -> SessionRow] /\ token \in [Token -> TokenRow]
        /\ cache \in [Instance -> [Session -> CacheEntry]] /\ sweep \in SweepLocals
    BY RowTypes DEF Init
  <1>3. accessUntil \in [Session -> Nat] /\ lastSeen \in [Session -> Nat]
    BY DEF Init
  <1>4. handler \in [Handler -> Locals]
    BY RowTypes DEF Init
  <1>5. TypeOK
    BY <1>1, <1>2, <1>3, <1>4, <1>8 DEF TypeOK
  <1>6. \A h \in Handler : Placed(handler[h])
    BY DEF Init, Rest, Placed
  <1>7. \A t \in Token : token[t].state = "absent"
    BY DEF Init, NoToken
  <1> QED
    BY <1>5, <1>6, <1>7 DEF TypeInv

LEMMA ArriveType ==
  ASSUME TypeInv, NEW h \in Handler, NEW i \in Instance, NEW s \in Session,
         NEW kind \in Checked, Arrive(h, i, s, kind)
  PROVE  TypeInv'
  <1> DEFINE l == [Rest EXCEPT !.kind = kind, !.inst = i, !.sess = s]
  <1>1. l \in Locals /\ l.inst \in Instance /\ l.sess \in Session
    BY RowTypes DEF Locals, Kind, Checked, Rest
  <1>2. BeginCheck(l) \in Locals /\ Placed(BeginCheck(l))
    BY <1>1, BeginTypes DEF TypeInv
  <1>3. HandlersOK' /\ lastSeen' \in [Session -> Nat]
    BY <1>2, GotoType DEF Arrive
  <1> QED
    BY <1>3 DEF Arrive, TypeInv, TypeOK, HandlersOK

LEMMA RefreshType ==
  ASSUME TypeInv, NEW h \in Handler, NEW i \in Instance, NEW t \in Token, Refresh(h, i, t)
  PROVE  TypeInv'
  <1> DEFINE l == [Rest EXCEPT !.kind = "refresh", !.inst = i, !.sess = token[t].sess,
                               !.tok = IF token[t].state = "live" THEN t ELSE None]
  <1>1. token[t].sess \in Session
    BY DEF Refresh, TypeInv
  <1>2. l \in Locals /\ l.inst \in Instance /\ l.sess \in Session
    BY <1>1, RowTypes DEF Locals, Kind, Rest
  <1>3. BeginCheck(l) \in Locals /\ Placed(BeginCheck(l))
        /\ BeginEnd(l, "revoked") \in Locals /\ Placed(BeginEnd(l, "revoked"))
    BY <1>2, BeginTypes DEF TypeInv, Reason
  <1>4. \/ Goto(h, BeginCheck(l))
        \/ Goto(h, BeginEnd(l, "revoked"))
    BY DEF Refresh
  <1>5. HandlersOK' /\ lastSeen' \in [Session -> Nat]
    BY <1>3, <1>4, GotoType
  <1> QED
    BY <1>5 DEF Refresh, TypeInv, TypeOK, HandlersOK

LEMMA LogoutType ==
  ASSUME TypeInv, NEW h \in Handler, NEW i \in Instance, NEW t \in Token, Logout(h, i, t)
  PROVE  TypeInv'
  <1> DEFINE l == [Rest EXCEPT !.kind = "logout", !.inst = i, !.sess = token[t].sess]
  <1>1. token[t].sess \in Session
    BY DEF Logout, TypeInv
  <1>2. l \in Locals /\ l.inst \in Instance /\ l.sess \in Session
    BY <1>1, RowTypes DEF Locals, Kind, Rest
  <1>3. BeginEnd(l, "logout") \in Locals /\ Placed(BeginEnd(l, "logout"))
    BY <1>2, BeginTypes DEF TypeInv, Reason
  <1>4. HandlersOK' /\ lastSeen' \in [Session -> Nat]
    BY <1>3, GotoType DEF Logout
  <1> QED
    BY <1>4 DEF Logout, TypeInv, TypeOK, HandlersOK

LEMMA LoginType ==
  ASSUME TypeInv, NEW h \in Handler, NEW i \in Instance, Login(h, i) \/ Ban(h, i)
  PROVE  TypeInv'
  <1> DEFINE l(kind, pc) == [Rest EXCEPT !.kind = kind, !.inst = i, !.pc = pc, !.at = now]
  <1>1. now \in Nat
    BY TimesAssumption DEF TypeInv, TypeOK
  <1>2. /\ l("login", "start") \in Locals /\ Placed(l("login", "start"))
        /\ l("ban", "findAll") \in Locals /\ Placed(l("ban", "findAll"))
    BY <1>1, RowTypes DEF Locals, Kind, Pc, Rest, Placed
  <1>3. Goto(h, l("login", "start")) \/ Goto(h, l("ban", "findAll"))
    BY DEF Login, Ban
  <1>4. HandlersOK' /\ lastSeen' \in [Session -> Nat]
    BY <1>2, <1>3, GotoType
  <1>5. banned' \in BOOLEAN
    BY DEF Login, Ban, TypeInv, TypeOK
  <1> QED
    BY <1>4, <1>5 DEF Login, Ban, TypeInv, TypeOK, HandlersOK

LEMMA HandlerFacts ==
  ASSUME TypeInv, NEW h \in Handler
  PROVE  handler[h] \in Locals /\ Placed(handler[h])
  BY DEF TypeInv, TypeOK

LEMMA ReadType ==
  ASSUME TypeInv, NEW h \in Handler, Read(h)
  PROVE  TypeInv'
  <1> DEFINE l == [handler[h] EXCEPT !.pc = "judge", !.row = session[handler[h].sess]]
  <1>1. handler[h] \in Locals /\ handler[h].sess \in Session /\ handler[h].inst \in Instance
    BY HandlerFacts DEF Placed, Read, At
  <1>2. session[handler[h].sess] \in SessionRow
    BY <1>1 DEF TypeInv, TypeOK
  <1>3. l \in Locals /\ Placed(l)
    BY <1>1, <1>2 DEF Locals, Pc, Placed
  <1>4. handler' = [handler EXCEPT ![h] = l]
    BY DEF Read, TypeInv, TypeOK
  <1> QED
    BY <1>3, <1>4 DEF Read, TypeInv, TypeOK

LEMMA ForgetType ==
  ASSUME TypeInv, NEW i, NEW s
  PROVE  Forget(i, s) \in [Instance -> [Session -> CacheEntry]]
  BY RowTypes DEF Forget, TypeInv, TypeOK

LEMMA HangUpType ==
  ASSUME TypeInv, NEW l
  PROVE  HangUp(l) \in SUBSET (Instance \X Session)
  BY DEF HangUp, TypeInv, TypeOK

LEMMA JudgeType ==
  ASSUME TypeInv, NEW h \in Handler,
         JudgeDead(h) \/ JudgeExpired(h) \/ JudgeIdle(h) \/ JudgeLive(h)
  PROVE  TypeInv'
  <1> DEFINE l == handler[h]
  <1>1. l \in Locals /\ l.sess \in Session /\ l.inst \in Instance
    BY HandlerFacts DEF Placed, At, JudgeDead, JudgeExpired, JudgeIdle, JudgeLive
  <1>2. Rest \in Locals /\ Placed(Rest)
    BY RowTypes DEF Placed, Rest
  <1>3. \A reason \in Reason : BeginEnd(l, reason) \in Locals /\ Placed(BeginEnd(l, reason))
    BY <1>1, BeginTypes DEF TypeInv
  <1>4. CASE JudgeDead(h)
    <2>1. HandlersOK' /\ lastSeen' \in [Session -> Nat]
      BY <1>2, <1>4, GotoType DEF JudgeDead
    <2>2. cache' \in [Instance -> [Session -> CacheEntry]]
      BY <1>4, ForgetType DEF JudgeDead
    <2>3. streams' \in SUBSET (Instance \X Session)
      BY <1>4, HangUpType DEF JudgeDead
    <2> QED
      BY <1>4, <2>1, <2>2, <2>3 DEF JudgeDead, TypeInv, TypeOK, HandlersOK
  <1>5. CASE JudgeExpired(h) \/ JudgeIdle(h)
    <2>1. HandlersOK' /\ lastSeen' \in [Session -> Nat]
      BY <1>3, <1>5, GotoType DEF JudgeExpired, JudgeIdle, Reason
    <2> QED
      BY <1>5, <2>1 DEF JudgeExpired, JudgeIdle, TypeInv, TypeOK, HandlersOK
  <1>6. CASE JudgeLive(h)
    <2> DEFINE c == remember(cache[l.inst], l.sess, EntryFor(l.row, l.at))
    <2>1. EntryFor(l.row, l.at) \in CacheEntry
      BY <1>1, EntryType DEF Locals
    <2>2. cache[l.inst] \in [Session -> CacheEntry]
      BY <1>1 DEF TypeInv, TypeOK
    <2>3. c \in [Session -> CacheEntry]
      BY <1>1, <2>1, <2>2, RememberType
    <2>4. cache' \in [Instance -> [Session -> CacheEntry]]
      BY <1>6, <2>3 DEF JudgeLive, TypeInv, TypeOK
    <2>5. AfterPass(l, c) \in Locals /\ Placed(AfterPass(l, c))
      BY <1>1, AfterPassType DEF TypeInv
    <2>6. HandlersOK' /\ lastSeen' \in [Session -> Nat]
      BY <1>6, <2>5, GotoType DEF JudgeLive
    <2> QED
      BY <1>6, <2>4, <2>6 DEF JudgeLive, TypeInv, TypeOK, HandlersOK
  <1> QED
    BY <1>4, <1>5, <1>6

LEMMA RevokeType ==
  ASSUME TypeInv, NEW ss, NEW n \in Nat
  PROVE  /\ RevokeTokens(ss, n) \in [Token -> TokenRow]
         /\ \A t \in Token : RevokeTokens(ss, n)[t].sess = token[t].sess
         /\ \A t \in Token : RevokeTokens(ss, n)[t].state = "absent" <=> token[t].state = "absent"
  <1>1. token \in [Token -> TokenRow]
    BY DEF TypeInv, TypeOK
  <1> QED
    BY <1>1 DEF RevokeTokens, TokenRow

LEMMA EndCommitType ==
  ASSUME TypeInv, NEW h \in Handler, EndCommit(h)
  PROVE  TypeInv'
  <1> DEFINE l == handler[h]
  <1>1. l \in Locals /\ l.sess \in Session /\ l.inst \in Instance
    BY HandlerFacts DEF Placed, At, EndCommit
  <1>2. l.at \in Nat /\ l.reason \in Reason
    BY <1>1 DEF Locals
  <1>3. Ended(session[l.sess], l.at, l.reason) \in SessionRow
    <2>1. session[l.sess] \in SessionRow
      BY <1>1 DEF TypeInv, TypeOK
    <2> QED
      BY <1>2, <2>1 DEF Ended, SessionRow
  <1>4. session' \in [Session -> SessionRow]
    BY <1>3 DEF EndCommit, TypeInv, TypeOK
  <1>5. token' \in [Token -> TokenRow]
        /\ \A t \in Token : token'[t].state # "absent" => token'[t].sess \in Session
    BY <1>2, RevokeType DEF EndCommit, TypeInv
  <1>6. handler' \in [Handler -> Locals] /\ \A g \in Handler : Placed(handler'[g])
    <2> DEFINE m == [handler[h] EXCEPT !.pc = "ended"]
    <2>1. m \in Locals /\ Placed(m)
      BY <1>1 DEF Locals, Pc, Placed
    <2>2. handler' = [handler EXCEPT ![h] = m]
      BY DEF EndCommit, TypeInv, TypeOK
    <2> QED
      BY <2>1, <2>2 DEF TypeInv, TypeOK
  <1> QED
    BY <1>4, <1>5, <1>6 DEF EndCommit, TypeInv, TypeOK

LEMMA EndReturnType ==
  ASSUME TypeInv, NEW h \in Handler, EndReturn(h)
  PROVE  TypeInv'
  <1> DEFINE l == handler[h]
             next(s) == [l EXCEPT !.sess = s, !.todo = @ \ {s}]
  <1>1. l \in Locals /\ l.sess \in Session /\ l.inst \in Instance
    BY HandlerFacts DEF Placed, At, EndReturn
  <1>2. Rest \in Locals /\ Placed(Rest)
    BY RowTypes DEF Placed, Rest
  <1>3. ASSUME NEW s \in l.todo
        PROVE  BeginEnd(next(s), "banned") \in Locals /\ Placed(BeginEnd(next(s), "banned"))
    <2>1. next(s) \in Locals /\ next(s).inst \in Instance /\ next(s).sess \in Session
      BY <1>1 DEF Locals
    <2> QED
      BY <2>1, BeginTypes DEF TypeInv, Reason
  <1>4. HandlersOK' /\ lastSeen' \in [Session -> Nat]
    BY <1>2, <1>3, GotoType DEF EndReturn
  <1>5. cache' \in [Instance -> [Session -> CacheEntry]]
    BY ForgetType DEF EndReturn
  <1>6. streams' \in SUBSET (Instance \X Session)
    BY HangUpType DEF EndReturn
  <1> QED
    BY <1>4, <1>5, <1>6 DEF EndReturn, TypeInv, TypeOK, HandlersOK

LEMMA TouchCommitType ==
  ASSUME TypeInv, NEW h \in Handler, TouchCommit(h)
  PROVE  TypeInv'
  <1> DEFINE l == handler[h]
             row == [session[l.sess] EXCEPT !.lastActivityAt = l.at]
             m == [l EXCEPT !.pc = "touched", !.row = row]
  <1>1. l \in Locals /\ l.sess \in Session /\ l.inst \in Instance
    BY HandlerFacts DEF Placed, At, TouchCommit
  <1>2. row \in SessionRow
    BY <1>1 DEF TypeInv, TypeOK, Locals, SessionRow
  <1>3. m \in Locals /\ Placed(m) /\ Rest \in Locals /\ Placed(Rest)
    BY <1>1, <1>2, RowTypes DEF Locals, Pc, Placed, Rest
  <1>4. handler' = [handler EXCEPT ![h] = m] \/ handler' = [handler EXCEPT ![h] = Rest]
    BY DEF TouchCommit, TypeInv, TypeOK
  <1>5. handler' \in [Handler -> Locals] /\ \A g \in Handler : Placed(handler'[g])
    BY <1>3, <1>4 DEF TypeInv, TypeOK
  <1>6. session' \in [Session -> SessionRow]
    BY <1>2 DEF TouchCommit, TypeInv, TypeOK
  <1> QED
    BY <1>5, <1>6 DEF TouchCommit, TypeInv, TypeOK

LEMMA TouchReturnType ==
  ASSUME TypeInv, NEW h \in Handler, TouchReturn(h)
  PROVE  TypeInv'
  <1> DEFINE l == handler[h]
             c == remember(cache[l.inst], l.sess, EntryFor(l.row, l.at))
  <1>1. l \in Locals /\ l.sess \in Session /\ l.inst \in Instance
    BY HandlerFacts DEF Placed, At, TouchReturn
  <1>2. EntryFor(l.row, l.at) \in CacheEntry
    BY <1>1, EntryType DEF Locals
  <1>3. cache[l.inst] \in [Session -> CacheEntry]
    BY <1>1 DEF TypeInv, TypeOK
  <1>4. c \in [Session -> CacheEntry]
    BY <1>1, <1>2, <1>3, RememberType
  <1>5. cache' \in [Instance -> [Session -> CacheEntry]]
    BY <1>4 DEF TouchReturn, TypeInv, TypeOK
  <1>6. HandlersOK' /\ lastSeen' \in [Session -> Nat]
    BY RowTypes, GotoType DEF TouchReturn, Placed, Rest
  <1> QED
    BY <1>5, <1>6 DEF TouchReturn, TypeInv, TypeOK, HandlersOK

LEMMA UntilType == \A n \in Nat : Until(n) \in Nat
  BY TimesAssumption DEF Until

LEMMA OpenStreamType ==
  ASSUME TypeInv, NEW h \in Handler, OpenStream(h)
  PROVE  TypeInv'
  <1>1. handler[h].sess \in Session /\ handler[h].inst \in Instance
    BY HandlerFacts DEF Placed, At, OpenStream
  <1>2. HandlersOK' /\ lastSeen' \in [Session -> Nat]
    BY RowTypes, GotoType DEF OpenStream, Placed, Rest
  <1> QED
    BY <1>1, <1>2 DEF OpenStream, TypeInv, TypeOK, HandlersOK

LEMMA RotateType ==
  ASSUME TypeInv, NEW h \in Handler, Rotate(h)
  PROVE  TypeInv'
  <1> DEFINE l == handler[h]
             m == [l EXCEPT !.pc = "issue", !.at = now]
  <1>1. l \in Locals /\ l.sess \in Session /\ l.inst \in Instance /\ l.tok \in Token
    BY HandlerFacts DEF Placed, At, Rotate
  <1>2. now \in Nat
    BY TimesAssumption DEF TypeInv, TypeOK
  <1>3. m \in Locals /\ Placed(m) /\ Rest \in Locals /\ Placed(Rest)
    BY <1>1, <1>2, RowTypes DEF Locals, Pc, Placed, Rest
  <1>4. HandlersOK' /\ lastSeen' \in [Session -> Nat]
    BY <1>3, GotoType DEF Rotate
  <1>5. token' \in [Token -> TokenRow]
    <2>1. token \in [Token -> TokenRow] /\ token[l.tok] \in TokenRow /\ l.at \in Nat
      BY <1>1 DEF TypeInv, TypeOK, Locals
    <2>2. [token[l.tok] EXCEPT !.state = "revoked", !.revokedAt = l.at] \in TokenRow
      BY <2>1 DEF TokenRow
    <2> QED
      BY <1>1, <2>1, <2>2 DEF Rotate
  <1>6. ASSUME NEW t \in Token, token'[t].state # "absent"
        PROVE  token'[t].sess \in Session
    <2>1. token \in [Token -> TokenRow]
      BY DEF TypeInv, TypeOK
    <2>2. token'[t].sess = token[t].sess
      BY <1>1, <2>1 DEF Rotate, TokenRow
    <2>3. token[t].state # "absent"
      BY <1>1, <1>6, <2>1 DEF Rotate, TokenRow
    <2> QED
      BY <2>2, <2>3 DEF TypeInv
  <1> QED
    BY <1>4, <1>5, <1>6 DEF Rotate, TypeInv, TypeOK, HandlersOK

LEMMA IssueType ==
  ASSUME TypeInv, NEW h \in Handler, Issue(h)
  PROVE  TypeInv'
  <1> DEFINE l == handler[h]
  <1>1. l \in Locals /\ l.sess \in Session /\ l.at \in Nat
    BY HandlerFacts DEF Placed, At, Issue, Locals
  <1>2. Until(l.at + RefreshTtl) \in Nat /\ Until(l.at + AccessTtl) \in Nat
    BY <1>1, UntilType, TimesAssumption
  <1>3. HandlersOK' /\ lastSeen' \in [Session -> Nat]
    BY RowTypes, GotoType DEF Issue, Placed, Rest
  <1>4. token' \in [Token -> TokenRow]
    BY <1>1, <1>2 DEF Issue, TypeInv, TypeOK, TokenRow
  <1>5. \A t \in Token : token'[t].state # "absent" => token'[t].sess \in Session
    BY <1>1 DEF Issue, TypeInv, TypeOK
  <1>6. accessUntil' \in [Session -> Nat]
    BY <1>1, <1>2 DEF Issue, TypeInv, TypeOK
  <1> QED
    BY <1>3, <1>4, <1>5, <1>6 DEF Issue, TypeInv, TypeOK, HandlersOK

LEMMA StartSessionType ==
  ASSUME TypeInv, NEW h \in Handler, StartSession(h)
  PROVE  TypeInv'
  <1> DEFINE l == handler[h]
             m(s) == [l EXCEPT !.pc = "issue", !.sess = s, !.at = now]
  <1>1. now \in Nat
    BY TimesAssumption DEF TypeInv, TypeOK
  <1>2. l \in Locals /\ l.inst \in Instance /\ l.at \in Nat
    BY HandlerFacts DEF Placed, At, StartSession, Locals
  <1>3. PICK s \in Session :
          /\ session' = [session EXCEPT ![s] = [NoRow EXCEPT !.state = "live",
                           !.lastActivityAt = now, !.expiresAt = Until(l.at + RefreshTtl)]]
          /\ handler' = [handler EXCEPT ![h] = m(s)]
          /\ lastSeen' = [lastSeen EXCEPT ![s] = now]
    BY DEF StartSession
  <1>4. Until(l.at + RefreshTtl) \in Nat
    BY <1>2, UntilType, TimesAssumption
  <1>5. session' \in [Session -> SessionRow]
    BY <1>1, <1>3, <1>4 DEF TypeInv, TypeOK, SessionRow, NoRow, Reason
  <1>6. m(s) \in Locals /\ Placed(m(s))
    BY <1>1, <1>2 DEF Locals, Pc, Placed
  <1>7. handler' \in [Handler -> Locals] /\ \A g \in Handler : Placed(handler'[g])
    BY <1>3, <1>6 DEF TypeInv, TypeOK
  <1>8. lastSeen' \in [Session -> Nat]
    BY <1>1, <1>3 DEF TypeInv, TypeOK
  <1> QED
    BY <1>5, <1>7, <1>8 DEF StartSession, TypeInv, TypeOK

LEMMA FindAllType ==
  ASSUME TypeInv, NEW h \in Handler, FindAll(h)
  PROVE  TypeInv'
  <1> DEFINE l == handler[h]
             live == {s \in Session : session[s].state = "live"}
             next(s) == [l EXCEPT !.sess = s, !.todo = live \ {s}]
  <1>1. l \in Locals /\ l.inst \in Instance
    BY HandlerFacts DEF Placed, At, FindAll
  <1>2. ASSUME NEW s \in live
        PROVE  BeginEnd(next(s), "banned") \in Locals /\ Placed(BeginEnd(next(s), "banned"))
    <2>1. next(s) \in Locals /\ next(s).inst \in Instance /\ next(s).sess \in Session
      BY <1>1 DEF Locals
    <2> QED
      BY <2>1, BeginTypes DEF TypeInv, Reason
  <1>3. Rest \in Locals /\ Placed(Rest)
    BY RowTypes DEF Placed, Rest
  <1>4. HandlersOK' /\ lastSeen' \in [Session -> Nat]
    BY <1>2, <1>3, GotoType DEF FindAll
  <1> QED
    BY <1>4 DEF FindAll, TypeInv, TypeOK, HandlersOK

LEMMA SweepType ==
  ASSUME TypeInv, Sweep
  PROVE  TypeInv'
  <1> USE DEF SweepLocals
  <1>1. now \in Nat /\ token \in [Token -> TokenRow] /\ session \in [Session -> SessionRow]
        /\ sweep \in SweepLocals
    BY TimesAssumption DEF TypeInv, TypeOK
  <1>2. CASE SweepFind
    <2>1. sweep' \in SweepLocals
      BY <1>1, <1>2 DEF SweepFind
    <2>2. token' \in [Token -> TokenRow]
          /\ \A t \in Token : token'[t].state # "absent" => token'[t].sess \in Session
      BY <1>1, <1>2 DEF SweepFind, TokenRow, TypeInv
    <2> QED
      BY <1>2, <2>1, <2>2 DEF SweepFind, TypeInv, TypeOK
  <1>3. ASSUME NEW pc, NEW ss, NEW reason \in Reason, NEW next \in {"endExpired", "revoke"},
               SweepEnd(pc, ss, reason, next)
        PROVE  TypeInv'
    <2>1. sweep' \in SweepLocals
      BY <1>1, <1>3 DEF SweepEnd
    <2>2. session' \in [Session -> SessionRow]
      <3>1. ASSUME NEW s \in Session
            PROVE  [session[s] EXCEPT !.state = "ended", !.endedAt = sweep.at, !.endedReason = reason]
                     \in SessionRow
        <4>1. session[s] \in SessionRow /\ sweep.at \in Nat
          BY <1>1
        <4> QED
          BY <1>3, <4>1 DEF SessionRow
      <3>2. \A s \in Session : session'[s] \in SessionRow
        BY <1>1, <1>3, <3>1 DEF SweepEnd
      <3> QED
        BY <1>3, <3>2 DEF SweepEnd
    <2> QED
      BY <1>3, <2>1, <2>2 DEF SweepEnd, TypeInv, TypeOK
  <1>4. CASE SweepRevoke
    <2>1. sweep' \in SweepLocals
      BY <1>1, <1>4 DEF SweepRevoke
    <2>2. token' \in [Token -> TokenRow]
          /\ \A t \in Token : token'[t].state # "absent" => token'[t].sess \in Session
      BY <1>1, <1>4, RevokeType DEF SweepRevoke, TypeInv
    <2> QED
      BY <1>4, <2>1, <2>2 DEF SweepRevoke, TypeInv, TypeOK
  <1>5. CASE SweepPrune
    <2>1. sweep' \in SweepLocals
      BY <1>5, RowTypes DEF SweepPrune
    <2>2. session' \in [Session -> SessionRow]
      BY <1>1, <1>5 DEF SweepPrune, SessionRow
    <2>3. token' \in [Token -> TokenRow]
          /\ \A t \in Token : token'[t].state # "absent" => token'[t].sess \in Session
      BY <1>1, <1>5 DEF SweepPrune, TokenRow, TypeInv
    <2> QED
      BY <1>5, <2>1, <2>2, <2>3 DEF SweepPrune, TypeInv, TypeOK
  <1> QED
    BY <1>2, <1>3, <1>4, <1>5 DEF Sweep, SweepEndIdle, SweepEndExpired, Reason

LEMMA EnvironmentType ==
  ASSUME TypeInv, Unban \/ CloseStream \/ Tick \/ \E i \in Instance : Restart(i)
  PROVE  TypeInv'
  <1>1. now \in Nat
    BY TimesAssumption DEF TypeInv, TypeOK
  <1>2. CASE Unban \/ CloseStream
    BY <1>2 DEF Unban, CloseStream, TypeInv, TypeOK
  <1>3. CASE Tick
    BY <1>1, <1>3, TimesAssumption DEF Tick, TypeInv, TypeOK
  <1>4. ASSUME NEW i \in Instance, Restart(i)
        PROVE  TypeInv'
    <2>1. Rest \in Locals /\ Placed(Rest) /\ SweepRest \in SweepLocals /\ NoEntry \in CacheEntry
      BY RowTypes DEF Placed, Rest
    <2>2. handler' \in [Handler -> Locals] /\ \A h \in Handler : Placed(handler'[h])
      BY <1>4, <2>1 DEF Restart, TypeInv, TypeOK
    <2>3. cache' \in [Instance -> [Session -> CacheEntry]]
      BY <1>4, <2>1 DEF Restart, TypeInv, TypeOK
    <2> QED
      BY <1>4, <2>1, <2>2, <2>3 DEF Restart, TypeInv, TypeOK
  <1> QED
    BY <1>2, <1>3, <1>4

THEOREM TypeStep == TypeInv /\ [Next]_vars => TypeInv'
  <1> SUFFICES ASSUME TypeInv, [Next]_vars PROVE TypeInv'
    OBVIOUS
  <1>1. ASSUME NEW h \in Handler, NEW i \in Instance, NEW s \in Session, NEW kind \in Checked,
               Arrive(h, i, s, kind)
        PROVE  TypeInv'
    BY <1>1, ArriveType
  <1>2. ASSUME NEW h \in Handler, NEW i \in Instance, NEW t \in Token,
               Refresh(h, i, t) \/ Logout(h, i, t)
        PROVE  TypeInv'
    BY <1>2, RefreshType, LogoutType
  <1>3. ASSUME NEW h \in Handler, NEW i \in Instance, Login(h, i) \/ Ban(h, i)
        PROVE  TypeInv'
    BY <1>3, LoginType
  <1>4. ASSUME NEW h \in Handler, Step(h)
        PROVE  TypeInv'
    BY <1>4, ReadType, JudgeType, EndCommitType, EndReturnType, TouchCommitType,
       TouchReturnType, OpenStreamType, RotateType, IssueType, StartSessionType, FindAllType
       DEF Step
  <1>5. CASE UNCHANGED vars
    BY <1>5 DEF vars, TypeInv, TypeOK
  <1> QED
    BY <1>1, <1>2, <1>3, <1>4, <1>5, SweepType, EnvironmentType DEF Next

\* Every variable keeps its type, whatever the sizes and windows: no handler, cache
\* or row ever holds anything but what Sessions declares.
THEOREM TypeCorrect == Spec => []TypeOK
  <1>1. TypeInv => TypeOK
    BY DEF TypeInv
  <1> QED
    BY <1>1, InitType, TypeStep, PTL DEF Spec

-----------------------------------------------------------------------------
(* How old an answer about an ended session can be.                        *)

\* A time at which session s may still have been read as live.
ReadBy(n, s) == Dead(s) => n <= session[s].endedAt + Latency
\* A time at which a beat for s may still have been let through.
LetBy(n, s) == Dead(s) => n <= session[s].endedAt + Latency + CacheWindow
\* A time at which anything may still have been let through.
UsedBy(n, s) == Dead(s) => n < StopsBy(s)

\* A cache entry was read while its session lived, or is what a beat left behind:
\* then it holds the beat's own time as the last activity, and no beat within its
\* window writes again.
EntryOK(e, s) ==
  e.held => /\ e.readAt <= now
            /\ \/ ReadBy(e.readAt, s)
               \/ LetBy(e.readAt, s) /\ e.idleDeadline - IdleTimeout = e.readAt
            /\ e.idleDeadline <= lastSeen[s] + IdleTimeout

LocalsOK(l) ==
  /\ l.pc # "rest" => l.at <= now /\ now <= l.at + Latency
  /\ l.pc = "judge" /\ l.row.state = "live" =>
       ReadBy(l.at, l.sess) /\ l.row.lastActivityAt <= lastSeen[l.sess]
  /\ l.pc \in {"touch", "touched"} => LetBy(l.at, l.sess) /\ l.at <= lastSeen[l.sess]
  /\ l.pc = "touched" => l.row.lastActivityAt = l.at
  /\ l.pc \in {"rotate", "open"} => UsedBy(l.at, l.sess)
  /\ l.pc = "rotate" => l.at <= lastSeen[l.sess] + IdleTimeout + Latency

RowsOK == \A s \in Session :
            session[s].lastActivityAt <= lastSeen[s] /\ lastSeen[s] <= now
CachesOK == \A i \in Instance, s \in Session : EntryOK(cache[i][s], s)
RequestsOK == \A h \in Handler : LocalsOK(handler[h])
SweepOK == sweep.pc # "rest" => sweep.at <= now /\ now <= sweep.at + Latency

IInv == TypeInv /\ RowsOK /\ CachesOK /\ RequestsOK /\ SweepOK

\* A step that takes no time: sessions only end, and no earlier than Latency ago.
Aged ==
  /\ now' = now
  /\ \A s \in Session :
       /\ lastSeen[s] <= lastSeen'[s]
       /\ Dead(s)' => \/ Dead(s) /\ session'[s].endedAt = session[s].endedAt
                      \/ now <= session'[s].endedAt + Latency

LEMMA Numbers ==
  ASSUME TypeInv
  PROVE  /\ now \in Nat /\ Latency \in Nat /\ IdleTimeout \in Nat /\ CacheWindow \in Nat
         /\ CacheWindow > 0 /\ Latency <= CacheWindow /\ CacheWindow <= WriteEvery
         /\ WriteEvery \in Nat
         /\ \A s \in Session : /\ session[s].endedAt \in Nat /\ lastSeen[s] \in Nat
                               /\ session[s].lastActivityAt \in Nat
         /\ \A i \in Instance, s \in Session : cache[i][s] \in CacheEntry
  BY TimesAssumption, OrderAssumption DEF TypeInv, TypeOK, SessionRow

LEMMA CarryTimes ==
  ASSUME TypeInv, TypeInv', Aged, NEW n \in Nat, NEW s \in Session, n <= now
  PROVE  /\ ReadBy(n, s) => ReadBy(n, s)'
         /\ LetBy(n, s) => LetBy(n, s)'
         /\ UsedBy(n, s) => UsedBy(n, s)'
  <1>1. /\ now \in Nat /\ Latency \in Nat /\ CacheWindow \in Nat /\ CacheWindow > 0
        /\ session[s].endedAt \in Nat /\ session'[s].endedAt \in Nat
    BY Numbers, TimesAssumption DEF TypeInv, TypeOK, SessionRow
  <1> QED
    BY <1>1 DEF Aged, ReadBy, LetBy, UsedBy, StopsBy

LEMMA CarryEntry ==
  ASSUME TypeInv, TypeInv', Aged, NEW e \in CacheEntry, NEW s \in Session, EntryOK(e, s)
  PROVE  EntryOK(e, s)'
  <1>1. CASE e.held
    <2>1. e.readAt \in Nat /\ e.idleDeadline \in Nat
      BY DEF CacheEntry
    <2>2. e.readAt <= now /\ e.readAt <= now'
      BY <1>1 DEF EntryOK, Aged
    <2>3. ReadBy(e.readAt, s)' \/ (LetBy(e.readAt, s)' /\ e.idleDeadline - IdleTimeout = e.readAt)
      BY <1>1, <2>1, <2>2, CarryTimes DEF EntryOK
    <2>4. e.idleDeadline <= lastSeen'[s] + IdleTimeout
      <3>1. lastSeen[s] \in Nat /\ lastSeen'[s] \in Nat /\ IdleTimeout \in Nat
        BY TimesAssumption DEF TypeInv, TypeOK
      <3> QED
        BY <1>1, <2>1, <3>1 DEF EntryOK, Aged
    <2> QED
      BY <2>2, <2>3, <2>4 DEF EntryOK
  <1> QED
    BY <1>1 DEF EntryOK

LEMMA CarryLocals ==
  ASSUME TypeInv, TypeInv', Aged, NEW l \in Locals, Placed(l), LocalsOK(l)
  PROVE  LocalsOK(l)'
  <1>1. /\ l.at \in Nat /\ now' = now /\ now \in Nat /\ Latency \in Nat /\ IdleTimeout \in Nat
        /\ l.row.lastActivityAt \in Nat
    BY Numbers DEF Locals, SessionRow, Aged
  <1>2. CASE l.pc \in {"judge", "touch", "touched", "rotate", "open"}
    <2>1. l.sess \in Session /\ l.at <= now
      BY <1>2 DEF Placed, LocalsOK
    <2>2. lastSeen[l.sess] \in Nat /\ lastSeen'[l.sess] \in Nat
          /\ lastSeen[l.sess] <= lastSeen'[l.sess]
      BY <2>1 DEF TypeInv, TypeOK, Aged
    <2>3. /\ ReadBy(l.at, l.sess) => ReadBy(l.at, l.sess)'
          /\ LetBy(l.at, l.sess) => LetBy(l.at, l.sess)'
          /\ UsedBy(l.at, l.sess) => UsedBy(l.at, l.sess)'
      BY <1>1, <2>1, CarryTimes
    <2> QED
      BY <1>1, <2>2, <2>3 DEF LocalsOK
  <1>3. CASE l.pc \notin {"judge", "touch", "touched", "rotate", "open"}
    BY <1>1, <1>3 DEF LocalsOK
  <1> QED
    BY <1>2, <1>3

\* The caches stay sound when entries are only dropped.
LEMMA CarryCaches ==
  ASSUME IInv, TypeInv', Aged,
         \A i \in Instance, s \in Session : cache'[i][s] \in {cache[i][s], NoEntry}
  PROVE  CachesOK'
  <1>1. SUFFICES ASSUME NEW i \in Instance, NEW s \in Session
                 PROVE  EntryOK(cache[i][s], s)'
    BY DEF CachesOK
  <1>2. PICK e : e = cache'[i][s]
    OBVIOUS
  <1>3. e \in CacheEntry /\ EntryOK(e, s)
    <2>1. cache[i][s] \in CacheEntry /\ EntryOK(cache[i][s], s)
      BY Numbers DEF IInv, CachesOK
    <2>2. NoEntry \in CacheEntry /\ EntryOK(NoEntry, s)
      BY RowTypes DEF EntryOK, NoEntry
    <2> QED
      BY <1>2, <2>1, <2>2
  <1>4. EntryOK(e, s)'
    BY <1>3, CarryEntry DEF IInv
  <1> QED
    BY <1>2, <1>4 DEF EntryOK, ReadBy, LetBy, Dead

\* Handler h moves on to m, the other requests stay as they are.
LEMMA CarryRequests ==
  ASSUME IInv, TypeInv', Aged, NEW h \in Handler, NEW m, LocalsOK(m)',
         handler' = [handler EXCEPT ![h] = m]
  PROVE  RequestsOK'
  <1>1. SUFFICES ASSUME NEW g \in Handler
                 PROVE  LocalsOK(handler[g])'
    BY DEF RequestsOK
  <1>2. PICK l : l = handler'[g]
    OBVIOUS
  <1>3. LocalsOK(l)'
    <2>1. handler \in [Handler -> Locals]
      BY DEF IInv, TypeInv, TypeOK
    <2>2. CASE g = h
      BY <1>2, <2>1, <2>2
    <2>3. CASE g # h
      <3>1. l = handler[g] /\ l \in Locals /\ Placed(l) /\ LocalsOK(l)
        BY <1>2, <2>1, <2>3, HandlerFacts DEF IInv, RequestsOK
      <3> QED
        BY <3>1, CarryLocals DEF IInv
    <2> QED
      BY <2>2, <2>3
  <1> QED
    BY <1>2, <1>3 DEF LocalsOK, ReadBy, LetBy, UsedBy, StopsBy, Dead

\* What every step of one request that leaves the Session table alone preserves.
LEMMA GotoAged ==
  ASSUME IInv, TypeInv', NEW h, NEW m, Goto(h, m), UNCHANGED <<now, session>>
  PROVE  Aged /\ RowsOK'
  <1>1. \A s \in Session : lastSeen[s] \in Nat /\ session[s].lastActivityAt \in Nat
                           /\ session[s].lastActivityAt <= lastSeen[s] /\ lastSeen[s] <= now
    BY Numbers DEF IInv, RowsOK
  <1>2. now \in Nat /\ lastSeen \in [Session -> Nat]
    BY Numbers DEF IInv, TypeInv, TypeOK
  <1>3. \A s \in Session : lastSeen[s] <= lastSeen'[s] /\ lastSeen'[s] <= now
                           /\ session[s].lastActivityAt <= lastSeen'[s]
    BY <1>1, <1>2 DEF Goto
  <1>4. Aged
    BY <1>3 DEF Aged, Dead
  <1>5. RowsOK'
    BY <1>3 DEF RowsOK
  <1> QED
    BY <1>4, <1>5

LEMMA RestOK == LocalsOK(Rest)'
  BY DEF LocalsOK, Rest

\* A handler that awaits something about nothing yet let through.
LEMMA WaitOK ==
  ASSUME IInv, TypeInv', now' = now, NEW m, m.at = now,
         m.pc \notin {"judge", "touch", "touched", "rotate", "open"}
  PROVE  LocalsOK(m)'
  <1>1. now \in Nat /\ Latency \in Nat
    BY Numbers DEF IInv
  <1> QED
    BY <1>1 DEF LocalsOK

\* An answer that lets a request for s through at this moment.
Answer(e, s) ==
  /\ e \in CacheEntry /\ e.held /\ EntryOK(e, s)
  /\ \/ now - e.readAt < CacheWindow
     \/ now <= e.readAt + Latency /\ ReadBy(e.readAt, s)
  /\ now <= e.idleDeadline + Latency

\* The heart of the matter: a request that passed is let through no later than
\* UsedBy allows, and a beat that will be written no later than LetBy does, since
\* the entry left by an earlier beat forbids another write while it answers.
LEMMA PassTimes ==
  ASSUME IInv, NEW s \in Session, NEW e, Answer(e, s)
  PROVE  /\ UsedBy(now, s)
         /\ ~Recent(e) => LetBy(now, s)
         /\ now <= lastSeen[s] + IdleTimeout + Latency
  <1>1. /\ now \in Nat /\ Latency \in Nat /\ IdleTimeout \in Nat /\ CacheWindow \in Nat
        /\ CacheWindow > 0 /\ Latency <= CacheWindow /\ CacheWindow <= WriteEvery
        /\ WriteEvery \in Nat /\ session[s].endedAt \in Nat /\ lastSeen[s] \in Nat
    BY Numbers DEF IInv
  <1>2. e.readAt \in Nat /\ e.idleDeadline \in Nat /\ e.held /\ e.readAt <= now
        /\ e.idleDeadline <= lastSeen[s] + IdleTimeout
    BY DEF Answer, EntryOK, CacheEntry
  <1>3. now <= lastSeen[s] + IdleTimeout + Latency
    BY <1>1, <1>2 DEF Answer
  <1>4. CASE ReadBy(e.readAt, s)
    <2>1. now < e.readAt + CacheWindow \/ now <= e.readAt + Latency
      BY <1>1, <1>2 DEF Answer
    <2> QED
      BY <1>1, <1>2, <1>3, <1>4, <2>1 DEF ReadBy, LetBy, UsedBy, StopsBy
  <1>5. CASE ~ReadBy(e.readAt, s)
    <2>1. LetBy(e.readAt, s) /\ e.idleDeadline - IdleTimeout = e.readAt
          /\ now - e.readAt < CacheWindow
      BY <1>2, <1>5 DEF Answer, EntryOK
    <2>2. Recent(e)
      BY <1>1, <1>2, <2>1 DEF Recent
    <2>3. UsedBy(now, s)
      BY <1>1, <1>2, <2>1 DEF LetBy, UsedBy, StopsBy
    <2> QED
      BY <1>3, <2>2, <2>3
  <1> QED
    BY <1>4, <1>5

LEMMA PassOK ==
  ASSUME IInv, TypeInv', Aged, NEW h, NEW l \in Locals, l.inst \in Instance,
         l.sess \in Session, NEW c, Answer(c[l.sess], l.sess),
         NEW m, m = AfterPass(l, c), Goto(h, m)
  PROVE  LocalsOK(m)'
  <1>1. CASE m = Rest
    BY <1>1, RestOK DEF LocalsOK, Rest
  <1>2. CASE m = Go(l, "issue") \/ m = Go(AsTouch(l), "read")
    <2>1. m.at = now /\ m.pc \in {"issue", "read"}
      BY <1>2, GoType DEF IInv, TypeInv, Pc
    <2> QED
      BY <2>1, WaitOK DEF Aged
  <1>3. now \in Nat /\ Latency \in Nat /\ now' = now /\ lastSeen[l.sess] \in Nat
        /\ lastSeen'[l.sess] \in Nat /\ IdleTimeout \in Nat
        /\ lastSeen[l.sess] <= lastSeen'[l.sess]
    BY Numbers DEF IInv, Aged, TypeInv, TypeOK
  <1>4. CASE m = Go(l, "open") \/ m = Go(l, "rotate")
    <2>1. m.at = now /\ m.pc \in {"open", "rotate"} /\ m.sess = l.sess
      BY <1>4, GoType DEF IInv, TypeInv, Pc
    <2>2. UsedBy(now, l.sess)' /\ now <= lastSeen[l.sess] + IdleTimeout + Latency
      BY <1>3, PassTimes, CarryTimes DEF IInv, UsedBy
    <2> QED
      BY <1>3, <2>1, <2>2 DEF LocalsOK, UsedBy, StopsBy, Dead
  <1>5. CASE m = Go(AsTouch(l), "touch") /\ ~Recent(c[l.sess])
    <2>1. m.at = now /\ m.pc = "touch" /\ m.sess = l.sess
      BY <1>5, GoType DEF IInv, TypeInv, Pc
    <2>2. LetBy(now, l.sess)
      BY <1>5, PassTimes
    <2>3. LetBy(now, l.sess)'
      BY <1>3, <2>2, CarryTimes DEF IInv, LetBy
    <2>4. lastSeen'[l.sess] = now
      BY <2>1 DEF Goto, IInv, TypeInv, TypeOK
    <2> QED
      BY <1>3, <2>1, <2>3, <2>4 DEF LocalsOK, LetBy, Dead
  <1> QED
    BY <1>1, <1>2, <1>4, <1>5, AfterPassCases

-----------------------------------------------------------------------------
(* IInv is inductive.                                                      *)

LEMMA InitInv == Init => IInv
  <1> SUFFICES ASSUME Init PROVE IInv
    OBVIOUS
  <1>1. \A h \in Handler : LocalsOK(handler[h])
    BY DEF Init, LocalsOK, Rest
  <1>2. \A i \in Instance, s \in Session : EntryOK(cache[i][s], s)
    BY DEF Init, EntryOK, NoEntry
  <1>3. RowsOK
    <2>1. \A s \in Session : session[s] = NoRow /\ lastSeen[s] = 0
      BY DEF Init
    <2>2. NoRow.lastActivityAt = 0
      BY DEF NoRow
    <2>3. now = 0
      BY DEF Init
    <2> QED
      BY <2>1, <2>2, <2>3 DEF RowsOK
  <1>4. SweepOK
    BY DEF Init, SweepOK, SweepRest
  <1> QED
    BY <1>1, <1>2, <1>3, <1>4, InitType DEF IInv, RequestsOK, CachesOK

\* A request of a kind that goes on without a check.
LEMMA GotoInv ==
  ASSUME IInv, TypeInv', NEW h \in Handler, NEW m, Goto(h, m), LocalsOK(m)',
         UNCHANGED <<now, session, sweep>>,
         \A i \in Instance, s \in Session : cache'[i][s] \in {cache[i][s], NoEntry}
  PROVE  IInv'
  <1>1. Aged /\ RowsOK'
    BY GotoAged
  <1>2. CachesOK'
    BY <1>1, CarryCaches
  <1>3. RequestsOK'
    BY <1>1, CarryRequests DEF Goto
  <1>4. SweepOK'
    BY DEF IInv, SweepOK
  <1> QED
    BY <1>1, <1>2, <1>3, <1>4 DEF IInv

LEMMA CheckInv ==
  ASSUME IInv, TypeInv', NEW h \in Handler, NEW l \in Locals, l.inst \in Instance,
         l.sess \in Session, Goto(h, BeginCheck(l)), UNCHANGED <<now, session, sweep, cache>>
  PROVE  IInv'
  <1> DEFINE e == cache[l.inst][l.sess]
  <1>1. PICK m : m = BeginCheck(l)
    OBVIOUS
  <1>2. Aged
    BY <1>1, GotoAged
  <1>3. LocalsOK(m)'
    <2>1. CASE CacheAnswers(e, now)
      <3>1. e \in CacheEntry /\ EntryOK(e, l.sess)
        BY Numbers DEF IInv, CachesOK
      <3>2. now \in Nat /\ Latency \in Nat /\ e.idleDeadline \in Nat
        BY <3>1, Numbers DEF IInv, CacheEntry
      <3>3. Answer(e, l.sess)
        BY <2>1, <3>1, <3>2 DEF Answer, CacheAnswers
      <3>4. m = AfterPass(l, cache[l.inst])
        BY <1>1, <2>1 DEF BeginCheck
      <3> QED
        BY <1>1, <1>2, <3>3, <3>4, PassOK
    <2>2. CASE ~CacheAnswers(e, now)
      <3>1. m.pc = "read" /\ m.at = now
        BY <1>1, <2>2 DEF BeginCheck, Locals
      <3> QED
        BY <3>1, WaitOK
    <2> QED
      BY <2>1, <2>2
  <1> QED
    BY <1>1, <1>3, GotoInv

LEMMA EndInv ==
  ASSUME IInv, TypeInv', NEW h \in Handler, NEW l \in Locals, NEW reason,
         Goto(h, BeginEnd(l, reason)), UNCHANGED <<now, session, sweep>>,
         \A i \in Instance, s \in Session : cache'[i][s] \in {cache[i][s], NoEntry}
  PROVE  IInv'
  <1>1. PICK m : m = BeginEnd(l, reason)
    OBVIOUS
  <1>2. m.pc = "end" /\ m.at = now
    <2>1. Go(l, "end") \in Locals /\ Go(l, "end").pc = "end" /\ Go(l, "end").at = now
      BY GoType DEF IInv, TypeInv, Pc
    <2> QED
      BY <1>1, <2>1 DEF BeginEnd, Locals
  <1>3. LocalsOK(m)'
    BY <1>2, WaitOK
  <1> QED
    BY <1>1, <1>3, GotoInv

LEMMA RequestInv ==
  ASSUME IInv, TypeInv', NEW h \in Handler, NEW i \in Instance,
         \/ \E s \in Session, kind \in Checked : Arrive(h, i, s, kind)
         \/ \E t \in Token : Refresh(h, i, t) \/ Logout(h, i, t)
         \/ Login(h, i) \/ Ban(h, i)
  PROVE  IInv'
  <1>0. NoEntry \in CacheEntry /\ Rest \in Locals /\ now \in Nat
    BY RowTypes, Numbers DEF IInv
  <1>1. ASSUME NEW s \in Session, NEW kind \in Checked, Arrive(h, i, s, kind)
        PROVE  IInv'
    <2> DEFINE l == [Rest EXCEPT !.kind = kind, !.inst = i, !.sess = s]
    <2>1. l \in Locals /\ l.inst \in Instance /\ l.sess \in Session
      BY RowTypes DEF Locals, Kind, Checked, Rest
    <2> QED
      BY <1>1, <2>1, CheckInv DEF Arrive
  <1>2. ASSUME NEW t \in Token, Refresh(h, i, t)
        PROVE  IInv'
    <2> DEFINE l == [Rest EXCEPT !.kind = "refresh", !.inst = i, !.sess = token[t].sess,
                                 !.tok = IF token[t].state = "live" THEN t ELSE None]
    <2>1. token[t].sess \in Session
      BY <1>2 DEF Refresh, IInv, TypeInv
    <2>2. l \in Locals /\ l.inst \in Instance /\ l.sess \in Session
      BY <2>1, RowTypes DEF Locals, Kind, Rest
    <2>3. Goto(h, BeginCheck(l)) \/ Goto(h, BeginEnd(l, "revoked"))
      BY <1>2 DEF Refresh
    <2> QED
      BY <1>2, <2>2, <2>3, CheckInv, EndInv DEF Refresh
  <1>3. ASSUME NEW t \in Token, Logout(h, i, t)
        PROVE  IInv'
    <2> DEFINE l == [Rest EXCEPT !.kind = "logout", !.inst = i, !.sess = token[t].sess]
    <2>1. token[t].sess \in Session
      BY <1>3 DEF Logout, IInv, TypeInv
    <2>2. l \in Locals
      BY <2>1, RowTypes DEF Locals, Kind, Rest
    <2> QED
      BY <1>3, <2>2, EndInv DEF Logout
  <1>4. ASSUME Login(h, i) \/ Ban(h, i)
        PROVE  IInv'
    <2>1. PICK m : /\ Goto(h, m) /\ m.at = now /\ m.pc \in {"start", "findAll"}
      <3> DEFINE a == [Rest EXCEPT !.kind = "login", !.inst = i, !.pc = "start", !.at = now]
                 b == [Rest EXCEPT !.kind = "ban", !.inst = i, !.pc = "findAll", !.at = now]
      <3>1. Goto(h, a) \/ Goto(h, b)
        BY <1>4 DEF Login, Ban
      <3>2. a.at = now /\ a.pc = "start" /\ b.at = now /\ b.pc = "findAll"
        BY DEF Rest
      <3> HIDE DEF a, b
      <3> QED
        BY <3>1, <3>2
    <2>2. LocalsOK(m)'
      BY <1>4, <2>1, WaitOK DEF Login, Ban
    <2> QED
      BY <1>4, <2>1, <2>2, GotoInv DEF Login, Ban
  <1> QED
    BY <1>1, <1>2, <1>3, <1>4

LEMMA ReadInv ==
  ASSUME IInv, TypeInv', NEW h \in Handler, Read(h)
  PROVE  IInv'
  <1> DEFINE l == handler[h]
  <1>1. l \in Locals /\ l.sess \in Session /\ LocalsOK(l) /\ l.pc = "read"
    BY HandlerFacts DEF IInv, RequestsOK, Placed, Read, At
  <1>2. PICK m : m = [l EXCEPT !.pc = "judge", !.row = session[l.sess]]
    OBVIOUS
  <1>3. m.at = l.at /\ m.pc = "judge" /\ m.row = session[l.sess] /\ m.sess = l.sess
    BY <1>1, <1>2 DEF Locals
  <1>4. l.at <= now /\ now <= l.at + Latency /\ l.at \in Nat /\ now \in Nat /\ Latency \in Nat
    BY <1>1, Numbers DEF LocalsOK, IInv, Locals
  <1>5. m.row.state = "live" => ReadBy(m.at, m.sess)
    BY <1>3 DEF ReadBy, Dead
  <1>6. m.row.lastActivityAt <= lastSeen[m.sess]
    BY <1>1, <1>3 DEF IInv, RowsOK
  <1>7. LocalsOK(m)'
    BY <1>3, <1>4, <1>5, <1>6 DEF Read, LocalsOK, ReadBy, Dead
  <1>8. handler' = [handler EXCEPT ![h] = m]
    BY <1>2 DEF Read, IInv, TypeInv, TypeOK
  <1>9. Aged /\ RowsOK'
    BY Numbers DEF Read, IInv, Aged, RowsOK, Dead
  <1> QED
    BY <1>7, <1>8, <1>9, CarryRequests, CarryCaches DEF Read, IInv, SweepOK

LEMMA ForgetFewer ==
  ASSUME IInv, NEW i \in Instance, NEW s \in Session
  PROVE  \A j \in Instance, x \in Session : Forget(i, s)[j][x] \in {cache[j][x], NoEntry}
  BY DEF Forget, IInv, TypeInv, TypeOK

\* An instance's cache stays sound when a sound entry is remembered.
LEMMA RememberOK ==
  ASSUME IInv, TypeInv', Aged, NEW i \in Instance, NEW s \in Session, NEW e \in CacheEntry,
         EntryOK(e, s), cache' = [cache EXCEPT ![i] = remember(cache[i], s, e)]
  PROVE  CachesOK' /\ remember(cache[i], s, e)[s] = e
  <1>1. cache \in [Instance -> [Session -> CacheEntry]]
    BY DEF IInv, TypeInv, TypeOK
  <1>2. PICK c : c = remember(cache[i], s, e)
    OBVIOUS
  <1>3. c[s] = e /\ \A x \in Session \ {s} : c[x] = cache[i][x] \/ c[x] = NoEntry
    BY <1>1, <1>2, RememberType
  <1>4. SUFFICES ASSUME NEW j \in Instance, NEW x \in Session
                 PROVE  EntryOK(cache[j][x], x)'
    BY <1>2, <1>3 DEF CachesOK
  <1>5. PICK f : f = cache'[j][x]
    OBVIOUS
  <1>6. f \in CacheEntry /\ EntryOK(f, x)
    <2>1. cache[j][x] \in CacheEntry /\ EntryOK(cache[j][x], x)
      BY Numbers DEF IInv, CachesOK
    <2>2. NoEntry \in CacheEntry /\ EntryOK(NoEntry, x)
      BY RowTypes DEF EntryOK, NoEntry
    <2>3. cache'[j] = IF j = i THEN c ELSE cache[j]
      BY <1>1, <1>2
    <2>4. f = cache[j][x] \/ f = NoEntry \/ (x = s /\ f = e)
      BY <1>3, <1>5, <2>3
    <2> QED
      BY <2>1, <2>2, <2>4
  <1>7. EntryOK(f, x)'
    BY <1>6, CarryEntry DEF IInv
  <1> QED
    BY <1>5, <1>7 DEF EntryOK, ReadBy, LetBy, Dead

LEMMA JudgeInv ==
  ASSUME IInv, TypeInv', NEW h \in Handler,
         JudgeDead(h) \/ JudgeExpired(h) \/ JudgeIdle(h) \/ JudgeLive(h)
  PROVE  IInv'
  <1> DEFINE l == handler[h]
  <1>1. l \in Locals /\ l.sess \in Session /\ l.inst \in Instance /\ LocalsOK(l) /\ l.pc = "judge"
    BY HandlerFacts
       DEF IInv, RequestsOK, Placed, At, JudgeDead, JudgeExpired, JudgeIdle, JudgeLive
  <1>2. CASE JudgeDead(h)
    <2>1. \A i \in Instance, s \in Session : cache'[i][s] \in {cache[i][s], NoEntry}
      BY <1>1, <1>2, ForgetFewer DEF JudgeDead
    <2> QED
      BY <1>2, <2>1, RestOK, RowTypes, GotoInv DEF JudgeDead
  <1>3. CASE JudgeExpired(h) \/ JudgeIdle(h)
    <2>1. Goto(h, BeginEnd(l, "expired")) \/ Goto(h, BeginEnd(l, "idle"))
      BY <1>3 DEF JudgeExpired, JudgeIdle
    <2> QED
      BY <1>1, <1>3, <2>1, EndInv DEF JudgeExpired, JudgeIdle
  <1>4. CASE JudgeLive(h)
    <2> DEFINE entry == EntryFor(l.row, l.at)
               c == remember(cache[l.inst], l.sess, entry)
    <2>1. PICK m : m = AfterPass(l, c)
      OBVIOUS
    <2>2. /\ l.at <= now /\ now <= l.at + Latency /\ l.at \in Nat /\ ReadBy(l.at, l.sess)
          /\ l.row.lastActivityAt <= lastSeen[l.sess] /\ l.row.lastActivityAt \in Nat
          /\ l.at - l.row.lastActivityAt <= IdleTimeout
      BY <1>1, <1>4, TimesAssumption DEF JudgeLive, LocalsOK, Locals, SessionRow, isIdle
    <2>3. /\ now \in Nat /\ Latency \in Nat /\ IdleTimeout \in Nat /\ lastSeen[l.sess] \in Nat
      BY <1>1, Numbers DEF IInv
    <2>4. /\ entry \in CacheEntry /\ entry.held /\ entry.readAt = l.at
          /\ entry.idleDeadline = l.row.lastActivityAt + IdleTimeout
      BY <1>1, EntryType DEF EntryFor, Locals
    <2>5. EntryOK(entry, l.sess)
      BY <2>2, <2>3, <2>4 DEF EntryOK
    <2>6. Answer(entry, l.sess)
      BY <2>2, <2>3, <2>4, <2>5 DEF Answer
    <2>7. Aged /\ RowsOK'
      BY <1>4, GotoAged DEF JudgeLive
    <2>8. CachesOK' /\ c[l.sess] = entry
      BY <1>1, <1>4, <2>4, <2>5, <2>7, RememberOK DEF JudgeLive
    <2>9. LocalsOK(m)'
      BY <1>1, <1>4, <2>1, <2>6, <2>7, <2>8, PassOK DEF JudgeLive
    <2>10. RequestsOK'
      BY <1>4, <2>1, <2>7, <2>9, CarryRequests DEF JudgeLive, Goto
    <2> QED
      BY <1>4, <2>7, <2>8, <2>10 DEF JudgeLive, IInv, SweepOK
  <1> QED
    BY <1>2, <1>3, <1>4

LEMMA EndCommitInv ==
  ASSUME IInv, TypeInv', NEW h \in Handler, EndCommit(h)
  PROVE  IInv'
  <1> DEFINE l == handler[h]
  <1>1. l \in Locals /\ l.sess \in Session /\ LocalsOK(l) /\ l.pc = "end"
    BY HandlerFacts DEF IInv, RequestsOK, Placed, EndCommit, At
  <1>2. l.at \in Nat /\ l.at <= now /\ now <= l.at + Latency
    BY <1>1 DEF LocalsOK, Locals
  <1>3. \A s \in Session : /\ session'[s].lastActivityAt = session[s].lastActivityAt
                           /\ \/ session'[s] = session[s]
                              \/ session'[s].endedAt = l.at
    <2>1. session \in [Session -> SessionRow]
      BY DEF IInv, TypeInv, TypeOK
    <2> QED
      BY <1>1, <2>1 DEF EndCommit, Ended, SessionRow
  <1>4. Aged
    BY <1>2, <1>3, Numbers DEF EndCommit, Aged, Dead, IInv
  <1>5. RowsOK'
    BY <1>3 DEF EndCommit, IInv, RowsOK
  <1>6. PICK m : m = [l EXCEPT !.pc = "ended"]
    OBVIOUS
  <1>7. LocalsOK(m)'
    BY <1>1, <1>2, <1>6 DEF EndCommit, LocalsOK, Locals
  <1>8. handler' = [handler EXCEPT ![h] = m]
    BY <1>6 DEF EndCommit, IInv, TypeInv, TypeOK
  <1> QED
    BY <1>4, <1>5, <1>7, <1>8, CarryRequests, CarryCaches DEF EndCommit, IInv, SweepOK

LEMMA EndReturnInv ==
  ASSUME IInv, TypeInv', NEW h \in Handler, EndReturn(h)
  PROVE  IInv'
  <1> DEFINE l == handler[h]
             next(s) == [l EXCEPT !.sess = s, !.todo = @ \ {s}]
  <1>1. l \in Locals /\ l.sess \in Session /\ l.inst \in Instance
    BY HandlerFacts DEF IInv, Placed, EndReturn, At
  <1>2. \A i \in Instance, s \in Session : cache'[i][s] \in {cache[i][s], NoEntry}
    BY <1>1, ForgetFewer DEF EndReturn
  <1>3. CASE Goto(h, Rest)
    BY <1>2, <1>3, RestOK, RowTypes, GotoInv DEF EndReturn
  <1>4. ASSUME NEW s \in l.todo, Goto(h, BeginEnd(next(s), "banned"))
        PROVE  IInv'
    <2>1. next(s) \in Locals
      BY <1>1 DEF Locals
    <2> QED
      BY <1>2, <1>4, <2>1, EndInv DEF EndReturn
  <1> QED
    BY <1>3, <1>4 DEF EndReturn

LEMMA TouchCommitInv ==
  ASSUME IInv, TypeInv', NEW h \in Handler, TouchCommit(h)
  PROVE  IInv'
  <1> DEFINE l == handler[h]
             row == [session[l.sess] EXCEPT !.lastActivityAt = l.at]
  <1>1. l \in Locals /\ l.sess \in Session /\ LocalsOK(l) /\ l.pc = "touch"
    BY HandlerFacts DEF IInv, RequestsOK, Placed, TouchCommit, At
  <1>2. /\ l.at \in Nat /\ l.at <= now /\ now <= l.at + Latency /\ l.at <= lastSeen[l.sess]
        /\ LetBy(l.at, l.sess)
    BY <1>1 DEF LocalsOK, Locals
  <1>3. session \in [Session -> SessionRow]
    BY DEF IInv, TypeInv, TypeOK
  <1>4. row.lastActivityAt = l.at
    BY <1>1, <1>3 DEF SessionRow
  <1>5. \A s \in Session : /\ session'[s].state = session[s].state
                           /\ session'[s].endedAt = session[s].endedAt
                           /\ \/ session'[s].lastActivityAt = session[s].lastActivityAt
                              \/ s = l.sess /\ session'[s].lastActivityAt = l.at
    BY <1>1, <1>3 DEF TouchCommit, SessionRow
  <1>6. Aged
    BY <1>5, Numbers DEF TouchCommit, Aged, Dead, IInv
  <1>7. RowsOK'
    BY <1>2, <1>5 DEF TouchCommit, IInv, RowsOK
  <1>8. PICK m : m = IF session[l.sess].state = "gone" THEN Rest
                     ELSE [l EXCEPT !.pc = "touched", !.row = row]
    OBVIOUS
  <1>9. LocalsOK(m)'
    <2>1. CASE m = Rest
      BY <2>1, RestOK DEF LocalsOK, Rest
    <2>2. CASE m = [l EXCEPT !.pc = "touched", !.row = row]
      <3>1. m.pc = "touched" /\ m.at = l.at /\ m.sess = l.sess /\ m.row.lastActivityAt = l.at
        <4>1. m.row = row /\ m.pc = "touched" /\ m.at = l.at /\ m.sess = l.sess
          <5> HIDE DEF row
          <5> QED
            BY <1>1, <2>2 DEF Locals
        <4> QED
          BY <1>4, <4>1
      <3>2. m.sess \in Session /\ LetBy(m.at, m.sess)
        BY <1>1, <1>2, <3>1
      <3>3. LetBy(m.at, m.sess)'
        BY <1>5, <3>2 DEF LetBy, Dead
      <3>4. m.at <= now /\ now <= m.at + Latency /\ m.at <= lastSeen[m.sess]
            /\ m.row.lastActivityAt = m.at /\ m.pc = "touched"
        BY <1>2, <3>1
      <3> QED
        BY <3>3, <3>4 DEF LocalsOK, LetBy, Dead, TouchCommit
    <2> QED
      BY <1>8, <2>1, <2>2
  <1>10. handler' = [handler EXCEPT ![h] = m]
    BY <1>8 DEF TouchCommit, IInv, TypeInv, TypeOK
  <1> QED
    BY <1>6, <1>7, <1>9, <1>10, CarryRequests, CarryCaches DEF TouchCommit, IInv, SweepOK

LEMMA TouchReturnInv ==
  ASSUME IInv, TypeInv', NEW h \in Handler, TouchReturn(h)
  PROVE  IInv'
  <1> DEFINE l == handler[h]
             e == EntryFor(l.row, l.at)
  <1>1. l \in Locals /\ l.sess \in Session /\ l.inst \in Instance /\ LocalsOK(l)
        /\ l.pc = "touched"
    BY HandlerFacts DEF IInv, RequestsOK, Placed, TouchReturn, At
  <1>2. /\ l.at \in Nat /\ l.at <= now /\ l.at <= lastSeen[l.sess] /\ LetBy(l.at, l.sess)
        /\ l.row.lastActivityAt = l.at
    BY <1>1 DEF LocalsOK, Locals
  <1>3. e \in CacheEntry /\ e.readAt = l.at /\ e.idleDeadline = l.at + IdleTimeout
    BY <1>1, <1>2, EntryType DEF EntryFor, Locals
  <1>4. lastSeen[l.sess] \in Nat /\ IdleTimeout \in Nat
    BY <1>1, Numbers DEF IInv
  <1>5. EntryOK(e, l.sess)
    BY <1>2, <1>3, <1>4 DEF EntryOK
  <1>6. Aged /\ RowsOK'
    BY GotoAged DEF TouchReturn
  <1>7. CachesOK'
    BY <1>1, <1>3, <1>5, <1>6, RememberOK DEF TouchReturn
  <1>8. RequestsOK'
    BY <1>6, RestOK, RowTypes, CarryRequests DEF TouchReturn, Goto
  <1> QED
    BY <1>6, <1>7, <1>8 DEF TouchReturn, IInv, SweepOK

LEMMA IssuingInv ==
  ASSUME IInv, TypeInv', NEW h \in Handler, OpenStream(h) \/ Rotate(h) \/ Issue(h)
  PROVE  IInv'
  <1> DEFINE m == [handler[h] EXCEPT !.pc = "issue", !.at = now]
  <1>1. Goto(h, Rest) \/ Goto(h, m)
    BY DEF OpenStream, Rotate, Issue
  <1>2. handler[h] \in Locals
    BY HandlerFacts DEF IInv
  <1>3. UNCHANGED <<now, session, sweep, cache>>
    BY DEF OpenStream, Rotate, Issue
  <1>4. CASE Goto(h, Rest)
    BY <1>3, <1>4, RestOK, RowTypes, GotoInv
  <1>5. CASE Goto(h, m)
    <2>1. PICK n : n = m
      OBVIOUS
    <2>2. n.pc = "issue" /\ n.at = now
      BY <1>2, <2>1 DEF Locals
    <2>3. LocalsOK(n)'
      BY <1>3, <2>2, WaitOK
    <2> QED
      BY <1>3, <1>5, <2>1, <2>3, GotoInv
  <1> QED
    BY <1>1, <1>4, <1>5

LEMMA StartSessionInv ==
  ASSUME IInv, TypeInv', NEW h \in Handler, StartSession(h)
  PROVE  IInv'
  <1> DEFINE l == handler[h]
             row == [NoRow EXCEPT !.state = "live", !.lastActivityAt = now,
                                  !.expiresAt = Until(l.at + RefreshTtl)]
             m(s) == [l EXCEPT !.pc = "issue", !.sess = s, !.at = now]
  <1>1. PICK s \in Session : /\ session' = [session EXCEPT ![s] = row]
                             /\ handler' = [handler EXCEPT ![h] = m(s)]
                             /\ lastSeen' = [lastSeen EXCEPT ![s] = now]
    BY DEF StartSession
  <1>2. now' = now /\ cache' = cache /\ sweep' = sweep
    BY DEF StartSession
  <1>3. row.state = "live" /\ row.lastActivityAt = now
    BY DEF NoRow
  <1>4. \A x \in Session : x # s => session'[x] = session[x] /\ lastSeen'[x] = lastSeen[x]
    BY <1>1 DEF IInv, TypeInv, TypeOK
  <1>5. session'[s].state = "live" /\ session'[s].lastActivityAt = now /\ lastSeen'[s] = now
    <2> HIDE DEF row
    <2> QED
      BY <1>1, <1>3 DEF IInv, TypeInv, TypeOK
  <1>6. Aged
    BY <1>2, <1>4, <1>5, Numbers DEF IInv, RowsOK, Aged, Dead
  <1>7. RowsOK'
    BY <1>2, <1>4, <1>5, Numbers DEF IInv, RowsOK
  <1>8. PICK n : n = m(s)
    OBVIOUS
  <1>9. n.pc = "issue" /\ n.at = now
    BY <1>8, HandlerFacts DEF IInv, Locals
  <1>10. LocalsOK(n)'
    BY <1>2, <1>9, WaitOK
  <1> QED
    BY <1>1, <1>2, <1>6, <1>7, <1>8, <1>10, CarryRequests, CarryCaches DEF IInv, SweepOK

LEMMA FindAllInv ==
  ASSUME IInv, TypeInv', NEW h \in Handler, FindAll(h)
  PROVE  IInv'
  <1> DEFINE l == handler[h]
             live == {s \in Session : session[s].state = "live"}
             next(s) == [l EXCEPT !.sess = s, !.todo = live \ {s}]
  <1>1. l \in Locals
    BY HandlerFacts DEF IInv
  <1>2. CASE Goto(h, Rest)
    BY <1>2, RestOK, RowTypes, GotoInv DEF FindAll
  <1>3. ASSUME NEW s \in live, Goto(h, BeginEnd(next(s), "banned"))
        PROVE  IInv'
    <2>1. next(s) \in Locals
      BY <1>1 DEF Locals
    <2> QED
      BY <1>3, <2>1, EndInv DEF FindAll
  <1> QED
    BY <1>2, <1>3 DEF FindAll

LEMMA SweepInv ==
  ASSUME IInv, TypeInv', Sweep
  PROVE  IInv'
  <1>1. /\ session \in [Session -> SessionRow] /\ now' = now /\ cache' = cache
        /\ handler' = handler /\ lastSeen' = lastSeen
    BY DEF Sweep, SweepFind, SweepEndIdle, SweepEndExpired, SweepEnd, SweepRevoke,
           SweepPrune, IInv, TypeInv, TypeOK
  <1>2. \A s \in Session : session'[s].lastActivityAt = session[s].lastActivityAt
    <2>1. CASE SweepFind \/ SweepRevoke
      BY <1>1, <2>1 DEF SweepFind, SweepRevoke
    <2>2. CASE SweepPrune
      BY <1>1, <2>2 DEF SweepPrune, SessionRow
    <2>3. ASSUME NEW pc, NEW ss, NEW reason, NEW next, SweepEnd(pc, ss, reason, next)
          PROVE  \A s \in Session : session'[s].lastActivityAt = session[s].lastActivityAt
      BY <1>1, <2>3 DEF SweepEnd, SessionRow
    <2> QED
      BY <2>1, <2>2, <2>3 DEF Sweep, SweepEndIdle, SweepEndExpired
  <1>3. \A s \in Session : Dead(s)' =>
          \/ Dead(s) /\ session'[s].endedAt = session[s].endedAt
          \/ session'[s].endedAt = sweep.at /\ sweep.pc # "rest"
    <2>1. CASE SweepFind \/ SweepRevoke
      BY <1>1, <2>1 DEF SweepFind, SweepRevoke, Dead
    <2>2. CASE SweepPrune
      BY <1>1, <2>2 DEF SweepPrune, Dead, SessionRow
    <2>3. ASSUME NEW pc, pc # "rest", NEW ss, NEW reason, NEW next,
                 SweepEnd(pc, ss, reason, next)
          PROVE  \A s \in Session : Dead(s)' =>
                   \/ Dead(s) /\ session'[s].endedAt = session[s].endedAt
                   \/ session'[s].endedAt = sweep.at /\ sweep.pc # "rest"
      BY <1>1, <2>3 DEF SweepEnd, Dead, SessionRow
    <2> QED
      BY <2>1, <2>2, <2>3 DEF Sweep, SweepEndIdle, SweepEndExpired
  <1>4. Aged
    <2>1. \A s \in Session : lastSeen[s] <= lastSeen'[s]
      BY <1>1, Numbers DEF IInv
    <2> QED
      BY <1>1, <1>3, <2>1 DEF IInv, SweepOK, Aged
  <1>5. RowsOK'
    BY <1>1, <1>2 DEF IInv, RowsOK
  <1>6. SweepOK'
    <2>1. now \in Nat /\ Latency \in Nat /\ sweep \in SweepLocals
      BY Numbers DEF IInv, TypeInv, TypeOK
    <2>2. CASE SweepFind
      BY <1>1, <2>1, <2>2 DEF SweepFind, SweepOK
    <2>3. CASE SweepPrune
      BY <2>3 DEF SweepPrune, SweepOK, SweepRest
    <2>4. ASSUME NEW pc, pc # "rest", NEW ss, NEW reason, NEW next,
                 SweepEnd(pc, ss, reason, next) \/ SweepRevoke
          PROVE  SweepOK'
      <3>1. sweep'.at = sweep.at /\ sweep.pc # "rest"
        BY <2>1, <2>4 DEF SweepEnd, SweepRevoke, SweepLocals
      <3> QED
        BY <1>1, <3>1 DEF IInv, SweepOK
    <2> QED
      BY <2>2, <2>3, <2>4 DEF Sweep, SweepEndIdle, SweepEndExpired
  <1>7. RequestsOK'
    <2>1. SUFFICES ASSUME NEW h \in Handler PROVE LocalsOK(handler[h])'
      BY DEF RequestsOK
    <2>2. PICK l : l = handler[h]
      OBVIOUS
    <2>3. l \in Locals /\ Placed(l) /\ LocalsOK(l)
      BY <2>2, HandlerFacts DEF IInv, RequestsOK
    <2>4. LocalsOK(l)'
      BY <1>4, <2>3, CarryLocals DEF IInv
    <2> QED
      BY <1>1, <2>2, <2>4 DEF LocalsOK, ReadBy, LetBy, UsedBy, StopsBy, Dead
  <1> QED
    BY <1>1, <1>4, <1>5, <1>6, <1>7, CarryCaches DEF IInv

LEMMA EnvironmentInv ==
  ASSUME IInv, TypeInv', Unban \/ CloseStream \/ Tick \/ \E i \in Instance : Restart(i)
  PROVE  IInv'
  <1>1. CASE Unban \/ CloseStream
    BY <1>1 DEF Unban, CloseStream, IInv, RowsOK, CachesOK, RequestsOK, SweepOK, EntryOK,
                LocalsOK, ReadBy, LetBy, UsedBy, StopsBy, Dead
  <1>2. CASE Tick
    <2>1. now \in Nat /\ now' = now + 1 /\ Latency \in Nat
      BY <1>2, Numbers DEF Tick, IInv
    <2>2. UNCHANGED <<session, cache, handler, sweep, lastSeen>>
      BY <1>2 DEF Tick
    <2>3. RowsOK'
      BY <2>1, <2>2, Numbers DEF IInv, RowsOK
    <2>4. CachesOK'
      <3>1. SUFFICES ASSUME NEW i \in Instance, NEW s \in Session
                     PROVE  EntryOK(cache[i][s], s)'
        BY DEF CachesOK
      <3>2. EntryOK(cache[i][s], s) /\ cache[i][s] \in CacheEntry
        BY Numbers DEF IInv, CachesOK
      <3> QED
        BY <2>1, <2>2, <3>2 DEF EntryOK, CacheEntry, ReadBy, LetBy, Dead
    <2>5. RequestsOK'
      <3>1. SUFFICES ASSUME NEW h \in Handler PROVE LocalsOK(handler[h])'
        BY DEF RequestsOK
      <3>2. LocalsOK(handler[h]) /\ handler[h].at \in Nat
        BY HandlerFacts DEF IInv, RequestsOK, Locals
      <3>3. handler[h].pc # "rest" => now < handler[h].at + Latency
        BY <1>2 DEF Tick, At
      <3> QED
        BY <2>1, <2>2, <3>2, <3>3 DEF LocalsOK, ReadBy, LetBy, UsedBy, StopsBy, Dead
    <2>6. SweepOK'
      <3>1. sweep.at \in Nat
        BY DEF IInv, TypeInv, TypeOK, SweepLocals
      <3> QED
        BY <1>2, <2>1, <2>2, <3>1 DEF Tick, IInv, SweepOK
    <2> QED
      BY <2>3, <2>4, <2>5, <2>6 DEF IInv
  <1>3. ASSUME NEW i \in Instance, Restart(i)
        PROVE  IInv'
    <2>1. now' = now /\ session' = session /\ lastSeen' = lastSeen
      BY <1>3 DEF Restart
    <2>2. Aged
      BY <2>1, Numbers DEF Aged, Dead, IInv
    <2>3. RowsOK'
      BY <2>1 DEF IInv, RowsOK
    <2>4. CachesOK'
      <3>1. \A j \in Instance, s \in Session : cache'[j][s] \in {cache[j][s], NoEntry}
        BY <1>3 DEF Restart, IInv, TypeInv, TypeOK
      <3> QED
        BY <2>2, <3>1, CarryCaches
    <2>5. RequestsOK'
      <3>1. SUFFICES ASSUME NEW h \in Handler PROVE LocalsOK(handler[h])'
        BY DEF RequestsOK
      <3>2. PICK l : l = handler'[h]
        OBVIOUS
      <3>3. LocalsOK(l)'
        <4>1. CASE l = Rest
          BY <4>1, RestOK DEF LocalsOK, Rest
        <4>2. CASE l = handler[h]
          <5>1. l \in Locals /\ Placed(l) /\ LocalsOK(l)
            BY <4>2, HandlerFacts DEF IInv, RequestsOK
          <5> QED
            BY <2>2, <5>1, CarryLocals DEF IInv
        <4> QED
          BY <1>3, <3>2, <4>1, <4>2 DEF Restart
      <3> QED
        BY <3>2, <3>3 DEF LocalsOK, ReadBy, LetBy, UsedBy, StopsBy, Dead
    <2>6. SweepOK'
      BY <1>3, <2>1 DEF Restart, IInv, SweepOK, SweepRest
    <2> QED
      BY <2>3, <2>4, <2>5, <2>6 DEF IInv
  <1> QED
    BY <1>1, <1>2, <1>3

THEOREM InvStep == IInv /\ [Next]_vars => IInv'
  <1> SUFFICES ASSUME IInv, [Next]_vars PROVE IInv'
    OBVIOUS
  <1>1. TypeInv'
    BY TypeStep DEF IInv
  <1>2. ASSUME NEW h \in Handler, NEW i \in Instance, NEW s \in Session, NEW kind \in Checked,
               Arrive(h, i, s, kind)
        PROVE  IInv'
    BY <1>1, <1>2, RequestInv
  <1>3. ASSUME NEW h \in Handler, NEW i \in Instance, NEW t \in Token,
               Refresh(h, i, t) \/ Logout(h, i, t)
        PROVE  IInv'
    BY <1>1, <1>3, RequestInv
  <1>4. ASSUME NEW h \in Handler, NEW i \in Instance, Login(h, i) \/ Ban(h, i)
        PROVE  IInv'
    BY <1>1, <1>4, RequestInv
  <1>5. ASSUME NEW h \in Handler, Step(h)
        PROVE  IInv'
    BY <1>1, <1>5, ReadInv, JudgeInv, EndCommitInv, EndReturnInv, TouchCommitInv,
       TouchReturnInv, IssuingInv, StartSessionInv, FindAllInv DEF Step
  <1>6. CASE UNCHANGED vars
    BY <1>1, <1>6 DEF vars, IInv, RowsOK, CachesOK, RequestsOK, SweepOK, EntryOK,
                LocalsOK, ReadBy, LetBy, UsedBy, StopsBy, Dead
  <1> QED
    BY <1>1, <1>2, <1>3, <1>4, <1>5, <1>6, SweepInv, EnvironmentInv DEF Next

\* Revocation: past StopsBy no instance's cache answers for an ended session, and no
\* refresh, beat or stream was let through later than that, however many instances,
\* requests and sessions there are and whatever the windows, as long as the cache's
\* window is no longer than the throttle on activity writes and no shorter than an
\* await.
THEOREM Revocation == Spec => []EndedStopsWorking
  <1>1. IInv => EndedStopsWorking
    <2> SUFFICES ASSUME IInv, NEW s \in Session, Dead(s)
                 PROVE  /\ \A i \in Instance : CacheAnswers(cache[i][s], now) => now < StopsBy(s)
                        /\ \A h \in Handler :
                             handler[h].pc \in {"rotate", "touch", "open"} /\ handler[h].sess = s
                               => handler[h].at < StopsBy(s)
      BY DEF EndedStopsWorking
    <2>1. /\ now \in Nat /\ Latency \in Nat /\ CacheWindow \in Nat /\ CacheWindow > 0
          /\ session[s].endedAt \in Nat
      BY Numbers DEF IInv
    <2>2. ASSUME NEW i \in Instance, CacheAnswers(cache[i][s], now)
          PROVE  now < StopsBy(s)
      <3>1. cache[i][s] \in CacheEntry /\ EntryOK(cache[i][s], s)
        BY Numbers DEF IInv, CachesOK
      <3> QED
        BY <2>1, <2>2, <3>1
           DEF CacheAnswers, EntryOK, CacheEntry, ReadBy, LetBy, StopsBy
    <2>3. ASSUME NEW h \in Handler, handler[h].pc \in {"rotate", "touch", "open"},
                 handler[h].sess = s
          PROVE  handler[h].at < StopsBy(s)
      <3>1. LocalsOK(handler[h]) /\ handler[h].at \in Nat
        BY HandlerFacts DEF IInv, RequestsOK, Locals
      <3> QED
        BY <2>1, <2>3, <3>1 DEF LocalsOK, LetBy, UsedBy, StopsBy
    <2> QED
      BY <2>2, <2>3
  <1> QED
    BY <1>1, InitInv, InvStep, PTL DEF Spec

\* Inactivity: no cache answers for a session, and no refresh goes through, outside
\* the idle window of the person's own last sign of life: refreshes, polls, streams
\* and the nightly job extend nothing.
THEOREM Inactivity == Spec => []IdleWindowHonoured
  <1>1. IInv => IdleWindowHonoured
    <2> SUFFICES ASSUME IInv, NEW s \in Session
                 PROVE  /\ \A i \in Instance : CacheAnswers(cache[i][s], now)
                                                 => now < lastSeen[s] + IdleTimeout
                        /\ \A h \in Handler : At(h, "rotate") /\ handler[h].sess = s
                             => handler[h].at <= lastSeen[s] + IdleTimeout + Latency
      BY DEF IdleWindowHonoured
    <2>1. now \in Nat /\ IdleTimeout \in Nat /\ lastSeen[s] \in Nat
      BY Numbers DEF IInv
    <2>2. ASSUME NEW i \in Instance, CacheAnswers(cache[i][s], now)
          PROVE  now < lastSeen[s] + IdleTimeout
      <3>1. cache[i][s] \in CacheEntry /\ EntryOK(cache[i][s], s)
        BY Numbers DEF IInv, CachesOK
      <3> QED
        BY <2>1, <2>2, <3>1 DEF CacheAnswers, EntryOK, CacheEntry
    <2>3. ASSUME NEW h \in Handler, At(h, "rotate"), handler[h].sess = s
          PROVE  handler[h].at <= lastSeen[s] + IdleTimeout + Latency
      BY <2>3 DEF IInv, RequestsOK, LocalsOK, At
    <2> QED
      BY <2>2, <2>3
  <1> QED
    BY <1>1, InitInv, InvStep, PTL DEF Spec
-----------------------------------------------------------------------------
(* What happens to the row of a session that has ended.  The nightly job    *)
(* writes over endings it did not make (SweepEnd), so what follows is about *)
(* the steps of everybody else, while that job rests.                       *)

SweepSleeps == sweep = SweepRest

LEMMA OthersNeverSweep == SweepSleeps /\ [Next]_vars /\ ~SweepFind => SweepSleeps'
  <1> SUFFICES ASSUME SweepSleeps, [Next]_vars, ~SweepFind PROVE SweepSleeps'
    OBVIOUS
  <1>1. sweep.pc = "rest"
    BY DEF SweepSleeps, SweepRest
  <1>2. CASE Sweep
    <2>1. SweepPrune
      BY <1>1, <1>2 DEF Sweep, SweepEndIdle, SweepEndExpired, SweepEnd, SweepRevoke
    <2> QED
      BY <1>1, <2>1 DEF SweepPrune
  <1>3. ASSUME NEW h \in Handler, Step(h) PROVE SweepSleeps'
    BY <1>3 DEF SweepSleeps, Step, Read, JudgeDead, JudgeExpired, JudgeIdle, JudgeLive, EndCommit,
                EndReturn, TouchCommit, TouchReturn, OpenStream, Rotate, Issue, StartSession, FindAll
  <1>4. ASSUME NEW h \in Handler, NEW i \in Instance,
               \/ \E s \in Session, kind \in Checked : Arrive(h, i, s, kind)
               \/ \E t \in Token : Refresh(h, i, t) \/ Logout(h, i, t)
               \/ Login(h, i) \/ Ban(h, i)
        PROVE  SweepSleeps'
    BY <1>4 DEF SweepSleeps, Arrive, Refresh, Logout, Login, Ban
  <1>5. CASE Unban \/ CloseStream \/ Tick \/ UNCHANGED vars
    BY <1>5 DEF SweepSleeps, Unban, CloseStream, Tick, vars
  <1>6. ASSUME NEW i \in Instance, Restart(i) PROVE SweepSleeps'
    BY <1>6 DEF SweepSleeps, Restart
  <1> QED
    BY <1>2, <1>3, <1>4, <1>5, <1>6 DEF Next

\* A row that has ended may be moved to by a late beat, or be deleted; its ending stays.
Stands(s) ==
  session[s].state = "ended" =>
    /\ session'[s].state \in {"ended", "gone"}
    /\ session'[s].endedReason = session[s].endedReason

LEMMA EndingStands ==
  ASSUME TypeInv, SweepSleeps, [Next]_vars, NEW s \in Session
  PROVE  Stands(s)
  <1>1. session \in [Session -> SessionRow] /\ session[s] \in SessionRow
    BY DEF TypeInv, TypeOK
  <1>2. CASE session' = session
    BY <1>2 DEF Stands
  <1>3. ASSUME NEW h \in Handler, EndCommit(h) PROVE Stands(s)
    \* endSession's update asks for endedAt: null.
    BY <1>1, <1>3 DEF EndCommit, Ended, Stands
  <1>4. ASSUME NEW h \in Handler, TouchCommit(h) PROVE Stands(s)
    <2>1. CASE session'[s] = session[s]
      BY <2>1 DEF Stands
    <2>2. CASE session'[s] = [session[s] EXCEPT !.lastActivityAt = handler[h].at]
      BY <1>1, <2>2 DEF Stands, SessionRow
    <2> QED
      BY <1>1, <1>4, <2>1, <2>2 DEF TouchCommit
  <1>5. ASSUME NEW h \in Handler, StartSession(h) PROVE Stands(s)
    BY <1>1, <1>5 DEF StartSession, Stands
  <1>6. CASE SweepPrune
    BY <1>1, <1>6 DEF SweepPrune, Stands, SessionRow
  <1>7. CASE Sweep /\ ~SweepPrune
    BY <1>2, <1>7 DEF SweepSleeps, SweepRest, Sweep, SweepFind, SweepEndIdle, SweepEndExpired,
                      SweepEnd, SweepRevoke
  <1>8. ASSUME NEW h \in Handler, Step(h) PROVE Stands(s)
    BY <1>2, <1>3, <1>4, <1>5, <1>8
       DEF Step, Read, JudgeDead, JudgeExpired, JudgeIdle, JudgeLive, EndReturn, TouchReturn,
           OpenStream, Rotate, Issue, FindAll
  <1>9. ASSUME NEW h \in Handler, NEW i \in Instance,
               \/ \E z \in Session, kind \in Checked : Arrive(h, i, z, kind)
               \/ \E t \in Token : Refresh(h, i, t) \/ Logout(h, i, t)
               \/ Login(h, i) \/ Ban(h, i)
        PROVE  Stands(s)
    BY <1>2, <1>9 DEF Arrive, Refresh, Logout, Login, Ban
  <1>10. CASE Unban \/ CloseStream \/ Tick \/ UNCHANGED vars \/ \E i \in Instance : Restart(i)
    BY <1>2, <1>10 DEF Unban, CloseStream, Tick, vars, Restart
  <1> QED
    BY <1>6, <1>7, <1>8, <1>9, <1>10 DEF Next

\* As long as the nightly job does not run, an ended session never comes back and keeps
\* the reason recorded when it ended, whichever sign-outs, refreshes, beats, bans and
\* idle verdicts meet on it.  The job is left out because it overwrites by id alone.
THEOREM ReasonStands == ASSUME "sweep" \notin Offered PROVE Spec => RecordedReasonStands
  <1> DEFINE Quiet == TypeInv /\ SweepSleeps
  <1>1. Init => Quiet
    BY InitType DEF Init, SweepSleeps
  <1>2. Quiet /\ [Next]_vars => Quiet'
    <2>1. ~SweepFind
      BY DEF SweepFind
    <2> QED
      BY <2>1, TypeStep, OthersNeverSweep
  <1>3. Quiet /\ [Next]_vars
          => \A s \in Session : session[s].state = "ended" =>
               /\ session'[s].state \in {"ended", "gone"}
               /\ session'[s].endedReason = session[s].endedReason
    BY EndingStands DEF Stands
  <1> QED
    BY <1>1, <1>2, <1>3, PTL DEF Spec, RecordedReasonStands
=============================================================================
