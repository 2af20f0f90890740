--------------------------- MODULE Sessions_proofs ---------------------------
(***************************************************************************)
(* Proofs about the sessions of staff and the tokens of customers, for     *)
(* every number of sessions, requests, people and logins and every setting *)
(* of the times.                                                           *)
(***************************************************************************)
EXTENDS Sessions, Bearer, TLAPS

RoleNames == {"NONE", "STAFF", "MANAGER", "OWNER"}

\* The roles are the keys of the ranks.
LEMMA RanksOfRoles == DOMAIN Ranks = RoleNames
BY DEF Ranks, RoleNames

(***************************************************************************)
(* Types.                                                                  *)
(***************************************************************************)
SessionRows == [on : BOOLEAN, revoked : BOOLEAN, issued : Nat, seen : Nat, expires : Nat, used : Nat]
RequestStates == {"idle", "user", "renew", "member", "gate"} \cup RoleNames
RequestRows == [at : RequestStates, s : SessionRows, id : AdminSessions \cup {0}, now : Nat,
                role : RoleNames, held : SUBSET RoleNames]

SessionsTypeOK ==
    /\ time \in Nat
    /\ sess \in [AdminSessions -> SessionRows]
    /\ accountOn \in BOOLEAN
    /\ memberRole \in RoleNames
    /\ req \in [Requests -> RequestRows]

\* A request under way has looked up a session.
Reading(q) == req[q].at \in {"user", "renew"}
ReadsASession == \A q \in Requests : Reading(q) => req[q].id \in AdminSessions

TypeInv == SessionsTypeOK /\ ReadsASession

\* The rows requests and sessions are set to have their types.
LEMMA EmptyRows == NoSession \in SessionRows /\ NoRequest \in RequestRows /\ NoRequest.at = "idle"
BY DEF NoSession, NoRequest, SessionRows, RequestRows, RequestStates, RoleNames

LEMMA NewExpiryNat ==
    ASSUME NEW r \in RequestRows PROVE NewExpiry(r) \in Nat
BY SessionsAssumption DEF NewExpiry, earliest, RequestRows, SessionRows

\* What CheckUser and RenewSession write.
LEMMA WrittenRows ==
    ASSUME TypeInv, NEW r \in RequestRows, r.id \in AdminSessions
    PROVE  /\ Used(r) \in SessionRows /\ Renewed(r) \in SessionRows
           /\ Used(r).on = sess[r.id].on /\ Used(r).revoked = sess[r.id].revoked
           /\ Used(r).issued = sess[r.id].issued /\ Used(r).seen = sess[r.id].seen
           /\ Used(r).expires = sess[r.id].expires
           /\ Used(r).used = IF r.now > sess[r.id].used THEN r.now ELSE sess[r.id].used
           /\ Renewed(r).on = sess[r.id].on /\ Renewed(r).revoked = sess[r.id].revoked
           /\ Renewed(r).issued = sess[r.id].issued /\ Renewed(r).seen = time
           /\ Renewed(r).expires = NewExpiry(r)
           /\ Renewed(r).used = IF r.now > sess[r.id].used THEN r.now ELSE sess[r.id].used
<1>1. sess[r.id] \in SessionRows /\ time \in Nat /\ r.now \in Nat /\ NewExpiry(r) \in Nat
  BY NewExpiryNat DEF TypeInv, SessionsTypeOK, RequestRows
<1> QED
  BY <1>1 DEF Used, Renewed, SessionRows

\* A request is set to a row of its type.
LEMMA ProceedTypes ==
    ASSUME TypeInv, NEW q \in Requests, NEW r \in RequestRows,
           r.at \in {"user", "renew"} => r.id \in AdminSessions,
           Proceed(q, r), sess' \in [AdminSessions -> SessionRows], UNCHANGED <<time, accountOn, memberRole>>
    PROVE  TypeInv' /\ \A p \in Requests : req'[p] = IF p = q THEN r ELSE req[p]
<1>1. /\ req' \in [Requests -> RequestRows]
      /\ \A p \in Requests : req'[p] = IF p = q THEN r ELSE req[p]
  BY DEF Proceed, TypeInv, SessionsTypeOK
<1> QED
  BY <1>1 DEF TypeInv, SessionsTypeOK, ReadsASession, Reading

(***************************************************************************)
(* What every action does, row by row.                                     *)
(***************************************************************************)
MiddlewareRow(s) ==
    [at |-> "user", s |-> sess[s], id |-> s, now |-> time, role |-> "NONE", held |-> {memberRole}]
LoginRow ==
    [on |-> TRUE, revoked |-> FALSE, issued |-> time, seen |-> time,
     expires |-> earliest(time + IdleTTL, time + AbsTTL), used |-> time]
RevokedRow(s) == [sess[s] EXCEPT !.revoked = TRUE]
SetRow(q, r) == \A p \in Requests : req'[p] = IF p = q THEN r ELSE req[p]
SetSession(s, row) == \A t \in AdminSessions : sess'[t] = IF t = s THEN row ELSE sess[t]

LEMMA LoginEffect ==
    ASSUME TypeInv, NEW s \in AdminSessions, Login(s)
    PROVE  /\ TypeInv' /\ ~sess[s].on /\ SetSession(s, LoginRow)
           /\ UNCHANGED <<time, accountOn, memberRole, req>>
<1>1. LoginRow \in SessionRows
  BY SessionsAssumption DEF LoginRow, SessionRows, earliest, TypeInv, SessionsTypeOK
<1>2. sess' = [sess EXCEPT ![s] = LoginRow] /\ ~sess[s].on /\ UNCHANGED <<time, accountOn, memberRole, req>>
  BY DEF Login, IssueAdminSession, LoginRow
<1> HIDE DEF LoginRow
<1> QED
  BY <1>1, <1>2 DEF TypeInv, SessionsTypeOK, ReadsASession, Reading, SetSession

LEMMA LogoutEffect ==
    ASSUME TypeInv, NEW s \in AdminSessions, Logout(s)
    PROVE  /\ TypeInv' /\ sess[s].on /\ SetSession(s, RevokedRow(s))
           /\ RevokedRow(s) \in SessionRows /\ RevokedRow(s).revoked = TRUE
           /\ RevokedRow(s).on = sess[s].on /\ RevokedRow(s).issued = sess[s].issued
           /\ RevokedRow(s).seen = sess[s].seen /\ RevokedRow(s).expires = sess[s].expires
           /\ RevokedRow(s).used = sess[s].used
           /\ UNCHANGED <<time, accountOn, memberRole, req>>
<1>1. sess[s] \in SessionRows
  BY DEF TypeInv, SessionsTypeOK
<1>2. /\ RevokedRow(s) \in SessionRows /\ RevokedRow(s).revoked = TRUE
      /\ RevokedRow(s).on = sess[s].on /\ RevokedRow(s).issued = sess[s].issued
      /\ RevokedRow(s).seen = sess[s].seen /\ RevokedRow(s).expires = sess[s].expires
      /\ RevokedRow(s).used = sess[s].used
  BY <1>1 DEF RevokedRow, SessionRows
<1>3. sess' = [sess EXCEPT ![s] = RevokedRow(s)] /\ sess[s].on /\ UNCHANGED <<time, accountOn, memberRole, req>>
  BY <1>1 DEF Logout, RevokeSession, RevokedRow
<1> HIDE DEF RevokedRow
<1> QED
  BY <1>2, <1>3 DEF TypeInv, SessionsTypeOK, ReadsASession, Reading, SetSession

LEMMA MiddlewareEffect ==
    ASSUME TypeInv, NEW q \in Requests, NEW s \in AdminSessions, Middleware(q, s)
    PROVE  TypeInv' /\ SetRow(q, MiddlewareRow(s)) /\ sess[s].on /\ UNCHANGED <<time, sess, accountOn, memberRole>>
<1>1. /\ req' = [req EXCEPT ![q] = MiddlewareRow(s)] /\ sess[s].on
      /\ UNCHANGED <<time, sess, accountOn, memberRole>>
  BY DEF Middleware, Proceed, NoRequest, NoSession, MiddlewareRow, GetSessionByToken
<1>2. MiddlewareRow(s) \in RequestRows /\ MiddlewareRow(s).id \in AdminSessions
  BY DEF MiddlewareRow, RequestRows, RequestStates, RoleNames, TypeInv, SessionsTypeOK
<1> HIDE DEF MiddlewareRow
<1> QED
  BY <1>1, <1>2, ProceedTypes DEF Proceed, SetRow, TypeInv, SessionsTypeOK

\* What a request is let in with.
LEMMA LetInRow ==
    ASSUME NEW r \in RequestRows
    PROVE  LetIn(r) \in RequestRows /\ LetIn(r).at = "member" /\ LetIn(r).held = r.held
BY DEF LetIn, NoRequest, NoSession, RequestRows, RequestStates, SessionRows, RoleNames

LEMMA CheckUserEffect ==
    ASSUME TypeInv, NEW q \in Requests, CheckUser(q)
    PROVE  /\ TypeInv' /\ req[q].at = "user" /\ req[q] \in RequestRows /\ req[q].id \in AdminSessions
           /\ UNCHANGED <<time, accountOn, memberRole>>
           /\ \/ SetRow(q, NoRequest) /\ UNCHANGED sess
              \/ /\ SetRow(q, [req[q] EXCEPT !.at = "renew"]) /\ UNCHANGED sess
                 /\ RenewalDue(req[q])
              \/ /\ SetRow(q, LetIn(req[q])) /\ SetSession(req[q].id, Used(req[q]))
                 /\ ~RenewalDue(req[q])
<1> DEFINE r == req[q]
           s == [r EXCEPT !.at = "renew"]
<1>1. /\ r \in RequestRows /\ r.at = "user" /\ r.id \in AdminSessions
      /\ sess \in [AdminSessions -> SessionRows]
      /\ UNCHANGED <<time, accountOn, memberRole>>
  BY DEF CheckUser, TypeInv, SessionsTypeOK, ReadsASession, Reading
<1>2. CASE Proceed(q, NoRequest) /\ UNCHANGED sess
  BY <1>1, <1>2, EmptyRows, ProceedTypes DEF SetRow
<1>3. CASE Proceed(q, s) /\ UNCHANGED sess /\ RenewalDue(r)
  <2>1. s \in RequestRows /\ s.id = r.id
    BY <1>1 DEF RequestRows, RequestStates
  <2> HIDE DEF s
  <2>2. TypeInv' /\ SetRow(q, s)
    BY <1>1, <1>3, <2>1, ProceedTypes DEF SetRow
  <2> USE DEF s
  <2> QED
    BY <1>1, <1>3, <2>2
<1>4. CASE /\ Proceed(q, LetIn(r)) /\ ~RenewalDue(r)
           /\ sess' = [sess EXCEPT ![r.id] = Used(r)]
  <2>1. sess' \in [AdminSessions -> SessionRows] /\ SetSession(r.id, Used(r))
    BY <1>1, <1>4, WrittenRows DEF SetSession
  <2>2. TypeInv' /\ SetRow(q, LetIn(r))
    BY <1>1, <1>4, <2>1, LetInRow, ProceedTypes DEF SetRow
  <2> QED
    BY <1>1, <1>4, <2>1, <2>2
<1> QED
  BY <1>2, <1>3, <1>4 DEF CheckUser

LEMMA RenewSessionEffect ==
    ASSUME TypeInv, NEW q \in Requests, RenewSession(q)
    PROVE  /\ TypeInv' /\ req[q].at = "renew" /\ req[q] \in RequestRows /\ req[q].id \in AdminSessions
           /\ SetRow(q, LetIn(req[q])) /\ UNCHANGED <<time, accountOn, memberRole>>
           /\ IF sess[req[q].id].revoked THEN UNCHANGED sess
              ELSE SetSession(req[q].id, Renewed(req[q]))
<1> DEFINE r == req[q]
<1>1. /\ r \in RequestRows /\ r.at = "renew" /\ r.id \in AdminSessions
      /\ sess \in [AdminSessions -> SessionRows]
      /\ Proceed(q, LetIn(r)) /\ UNCHANGED <<time, accountOn, memberRole>>
  BY DEF RenewSession, TypeInv, SessionsTypeOK, ReadsASession, Reading
<1>2. sess' = IF sess[r.id].revoked THEN sess ELSE [sess EXCEPT ![r.id] = Renewed(r)]
  BY DEF RenewSession
<1>3. /\ sess' \in [AdminSessions -> SessionRows]
      /\ IF sess[r.id].revoked THEN UNCHANGED sess ELSE SetSession(r.id, Renewed(r))
  BY <1>1, <1>2, WrittenRows DEF SetSession
<1>4. TypeInv' /\ SetRow(q, LetIn(r))
  BY <1>1, <1>3, LetInRow, ProceedTypes DEF SetRow
<1> QED
  BY <1>1, <1>3, <1>4

\* The later steps of a request touch nothing but its row.
LEMMA LaterStepEffect ==
    ASSUME TypeInv, NEW q \in Requests,
           GetMembership(q) \/ RequireRole(q, "MANAGER") \/ Answer(q)
    PROVE  /\ TypeInv' /\ UNCHANGED <<time, sess, accountOn, memberRole>> /\ req[q] \in RequestRows
           /\ \/ SetRow(q, NoRequest)
              \/ /\ req[q].at = "member"
                 /\ SetRow(q, [req[q] EXCEPT !.at = "gate", !.role = memberRole])
              \/ /\ req[q].at = "gate" /\ AtLeast(req[q].role, "MANAGER")
                 /\ SetRow(q, [req[q] EXCEPT !.at = "MANAGER"])
<1> DEFINE r == req[q]
           gate == [r EXCEPT !.at = "gate", !.role = memberRole]
           acts == [r EXCEPT !.at = "MANAGER"]
<1>1. /\ r \in RequestRows /\ memberRole \in RoleNames /\ UNCHANGED <<time, sess, accountOn, memberRole>>
      /\ sess' \in [AdminSessions -> SessionRows]
  BY DEF GetMembership, RequireRole, Answer, TypeInv, SessionsTypeOK
<1>2. gate \in RequestRows /\ gate.at = "gate" /\ acts \in RequestRows /\ acts.at = "MANAGER"
  BY <1>1 DEF RequestRows, RequestStates, RoleNames
<1>3. \/ Proceed(q, NoRequest)
      \/ r.at = "member" /\ Proceed(q, gate)
      \/ r.at = "gate" /\ AtLeast(r.role, "MANAGER") /\ Proceed(q, acts)
  BY DEF GetMembership, RequireRole, Answer
<1>4. TypeInv' /\ \/ SetRow(q, NoRequest)
                  \/ r.at = "member" /\ SetRow(q, gate)
                  \/ r.at = "gate" /\ AtLeast(r.role, "MANAGER") /\ SetRow(q, acts)
  <2> HIDE DEF gate, acts
  <2> QED
    BY <1>1, <1>2, <1>3, EmptyRows, ProceedTypes DEF SetRow
<1> QED
  BY <1>1, <1>4

LEMMA TypeStep == TypeInv /\ [SessionsNext]_sessionVars => TypeInv'
<1> SUFFICES ASSUME TypeInv, [SessionsNext]_sessionVars PROVE TypeInv'
  OBVIOUS
<1>1. ASSUME NEW on \in BOOLEAN, UpdateAdminAccount(on) PROVE TypeInv'
  BY <1>1 DEF UpdateAdminAccount, TypeInv, SessionsTypeOK, ReadsASession, Reading
<1>2. ASSUME NEW r \in {"NONE", "STAFF", "MANAGER"}, ChangeRole(r) PROVE TypeInv'
  <2>1. \A q \in Requests : [req[q] EXCEPT !.held = @ \cup {r}] \in RequestRows
    <3>1. \A x \in RequestRows : [x EXCEPT !.held = @ \cup {r}] \in RequestRows
      BY DEF RequestRows, RoleNames
    <3> QED
      BY <3>1 DEF TypeInv, SessionsTypeOK
  <2>2. \A q \in Requests : [req[q] EXCEPT !.held = @ \cup {r}].id = req[q].id
                            /\ [req[q] EXCEPT !.held = @ \cup {r}].at = req[q].at
    <3>1. \A x \in RequestRows : [x EXCEPT !.held = @ \cup {r}].id = x.id
                                 /\ [x EXCEPT !.held = @ \cup {r}].at = x.at
      BY DEF RequestRows
    <3> QED
      BY <3>1 DEF TypeInv, SessionsTypeOK
  <2>3. /\ req' = [q \in Requests |-> IF req[q] = NoRequest THEN NoRequest
                                      ELSE [req[q] EXCEPT !.held = @ \cup {r}]]
        /\ memberRole' = r /\ r \in RoleNames /\ UNCHANGED <<time, sess, accountOn>>
    BY <1>2 DEF ChangeRole, RoleNames
  <2>4. SessionsTypeOK'
    BY <2>1, <2>3, EmptyRows DEF TypeInv, SessionsTypeOK
  <2>5. ReadsASession'
    BY <2>2, <2>3, EmptyRows DEF TypeInv, ReadsASession, Reading
  <2> QED
    BY <2>4, <2>5 DEF TypeInv
<1>3. CASE TimePasses
  BY <1>3 DEF TimePasses, TypeInv, SessionsTypeOK, ReadsASession, Reading
<1>4. CASE UNCHANGED sessionVars
  BY <1>4 DEF sessionVars, TypeInv, SessionsTypeOK, ReadsASession, Reading
<1> QED
  BY <1>1, <1>2, <1>3, <1>4, LoginEffect, LogoutEffect, MiddlewareEffect, CheckUserEffect, RenewSessionEffect,
     LaterStepEffect DEF SessionsNext

LEMMA TypeInit == SessionsInit => TypeInv
BY EmptyRows DEF SessionsInit, TypeInv, SessionsTypeOK, ReadsASession, Reading, RoleNames

(***************************************************************************)
(* Times.  The expiry counts from the last renewal, which may have been    *)
(* written by a request as old as MaxDelay; a request that found nothing   *)
(* to renew has read the expiry there is, or one written since it began.   *)
(***************************************************************************)
SessionTimes(s) ==
    /\ sess[s].revoked => sess[s].on
    /\ sess[s].seen <= time /\ sess[s].used <= time
    /\ sess[s].on => sess[s].expires >= earliest(sess[s].seen + IdleTTL - MaxDelay, sess[s].issued + AbsTTL)

RowIsFresh(r) ==
    /\ sess[r.id].on /\ r.s.issued = sess[r.id].issued
    /\ r.now <= time /\ time <= r.now + MaxDelay
    /\ sess[r.id].seen >= r.s.seen
    /\ \/ sess[r.id].seen >= r.now
       \/ sess[r.id].expires = r.s.expires

TimesInv ==
    /\ \A s \in AdminSessions : SessionTimes(s)
    /\ \A q \in Requests : Reading(q) => RowIsFresh(req[q])
    /\ UsedSessionLasts

LEMMA TimesInit == SessionsInit => TimesInv
BY SessionsAssumption DEF SessionsInit, TimesInv, SessionTimes, RowIsFresh, Reading, UsedSessionLasts,
   NoSession, NoRequest, earliest

\* What is needed of one session is written as a predicate of its row.
Lasts(row) ==
    row.on /\ ~row.revoked =>
        /\ row.expires <= row.issued + AbsTTL
        /\ row.expires = row.issued + AbsTTL \/ row.expires > row.used + IdleTTL - RenewSlack - MaxDelay
Timed(row) ==
    /\ row.revoked => row.on
    /\ row.seen <= time /\ row.used <= time
    /\ row.on => row.expires >= earliest(row.seen + IdleTTL - MaxDelay, row.issued + AbsTTL)

LEMMA RowsOfTimes ==
    TimesInv <=> /\ \A s \in AdminSessions : Timed(sess[s]) /\ Lasts(sess[s])
                 /\ \A q \in Requests : Reading(q) => RowIsFresh(req[q])
BY DEF TimesInv, SessionTimes, UsedSessionLasts, Timed, Lasts

\* A step that sets one session to a row that is as good, and no older, and
\* resets at most one request to a later stage, keeps the times.
LEMMA SetSessionTimes ==
    ASSUME TypeInv, TimesInv, NEW s \in AdminSessions, NEW row \in SessionRows,
           SetSession(s, row), UNCHANGED time,
           Timed(row), Lasts(row),
           row.issued = sess[s].issued \/ ~sess[s].on,
           sess[s].on => row.on /\ row.seen >= sess[s].seen
                         /\ (row.seen = time \/ row.expires = sess[s].expires),
           \A q \in Requests : Reading(q)' => Reading(q) /\ req'[q] = req[q]
    PROVE  TimesInv'
<1>1. \A t \in AdminSessions : Timed(sess[t])' /\ Lasts(sess[t])'
  BY RowsOfTimes DEF SetSession, Timed, Lasts
<1>2. ASSUME NEW q \in Requests, Reading(q)'
      PROVE  RowIsFresh(req[q])'
  <2> DEFINE r == req[q]
  <2>1. RowIsFresh(r) /\ req'[q] = r /\ r.id \in AdminSessions /\ r \in RequestRows
    BY <1>2 DEF TimesInv, TypeInv, SessionsTypeOK, ReadsASession
  <2>2. sess[s] \in SessionRows /\ time \in Nat /\ r.now \in Nat /\ r.s \in SessionRows
    BY <2>1 DEF TypeInv, SessionsTypeOK, RequestRows
  <2>3. CASE r.id = s
    BY <2>1, <2>2, <2>3 DEF RowIsFresh, SetSession, SessionRows
  <2>4. CASE r.id # s
    BY <2>1, <2>4 DEF RowIsFresh, SetSession
  <2> QED
    BY <2>3, <2>4
<1> QED
  BY <1>1, <1>2, RowsOfTimes DEF Timed, Lasts, TimesInv, SessionTimes, UsedSessionLasts

\* A step that leaves the sessions alone and only ends readings.
LEMMA SameSessionsTimes ==
    ASSUME TimesInv, UNCHANGED <<sess, time>>,
           \A q \in Requests : Reading(q)' => RowIsFresh(req'[q])
    PROVE  TimesInv'
BY DEF TimesInv, SessionTimes, RowIsFresh, UsedSessionLasts

LEMMA CheckUserTimes ==
    ASSUME TypeInv, TimesInv, NEW q \in Requests, CheckUser(q)
    PROVE  TimesInv'
<1> DEFINE r == req[q]
           renew == [r EXCEPT !.at = "renew"]
<1>1. /\ r.at = "user" /\ r \in RequestRows /\ r.id \in AdminSessions /\ UNCHANGED time
      /\ RowIsFresh(r)
  BY CheckUserEffect DEF TimesInv, Reading
<1>2. CASE SetRow(q, NoRequest) /\ UNCHANGED sess
  BY <1>1, <1>2, EmptyRows, SameSessionsTimes DEF SetRow, Reading, TimesInv
<1>3. CASE SetRow(q, renew) /\ UNCHANGED sess
  <2>1. renew.s = r.s /\ renew.id = r.id /\ renew.now = r.now
    BY <1>1 DEF RequestRows
  <2> HIDE DEF renew
  <2>2. RowIsFresh(renew)
    BY <1>1, <2>1 DEF RowIsFresh
  <2> QED
    BY <1>1, <1>3, <2>2, SameSessionsTimes DEF SetRow, Reading, TimesInv
<1>4. CASE /\ SetRow(q, LetIn(r)) /\ SetSession(r.id, Used(r))
           /\ ~RenewalDue(r)
  <2> DEFINE old == sess[r.id]
             new == Used(r)
  <2>1. /\ old \in SessionRows /\ r.s \in SessionRows /\ time \in Nat /\ r.now \in Nat
        /\ Timed(old) /\ Lasts(old)
    BY <1>1, RowsOfTimes DEF TypeInv, SessionsTypeOK, RequestRows
  <2>2. /\ new \in SessionRows /\ new.on = old.on /\ new.revoked = old.revoked
        /\ new.issued = old.issued /\ new.seen = old.seen /\ new.expires = old.expires
        /\ new.used = IF r.now > old.used THEN r.now ELSE old.used
        /\ SetSession(r.id, new)
    BY <1>1, <1>4, WrittenRows
  <2> HIDE DEF new
  <2>3. Timed(new)
    BY <1>1, <2>1, <2>2 DEF Timed, RowIsFresh, SessionRows
  <2>4. ASSUME new.on, ~new.revoked
        PROVE  new.expires = new.issued + AbsTTL \/ new.expires > r.now + IdleTTL - RenewSlack - MaxDelay
    <3>1. CASE old.seen >= r.now \/ r.now - r.s.seen < RenewSlack
      BY <3>1, <2>1, <2>2, <2>4, <1>1, SessionsAssumption DEF Timed, Lasts, RowIsFresh, SessionRows, earliest
    <3>2. CASE old.expires = r.s.expires /\ ~(NewExpiry(r) > r.s.expires)
      BY <3>2, <2>1, <2>2, <2>4, <1>1, SessionsAssumption DEF NewExpiry, Lasts, RowIsFresh, SessionRows, earliest
    <3> QED
      BY <3>1, <3>2, <1>1, <1>4, <2>1, SessionsAssumption DEF RenewalDue, RowIsFresh, SessionRows
  <2>5. Lasts(new)
    <3>1. CASE r.now > old.used
      BY <2>1, <2>2, <2>4, <3>1 DEF Lasts
    <3>2. CASE ~(r.now > old.used)
      BY <2>1, <2>2, <3>2 DEF Lasts
    <3> QED
      BY <3>1, <3>2
  <2>6. \A p \in Requests : Reading(p)' => Reading(p) /\ req'[p] = req[p]
    BY <1>1, <1>4, LetInRow DEF SetRow, Reading
  <2>7. new.seen >= old.seen
    BY <2>1, <2>2 DEF SessionRows
  <2> QED
    BY <1>1, <1>4, <2>2, <2>3, <2>5, <2>6, <2>7, SetSessionTimes
<1> QED
  BY <1>2, <1>3, <1>4, CheckUserEffect

LEMMA RenewSessionTimes ==
    ASSUME TypeInv, TimesInv, NEW q \in Requests, RenewSession(q)
    PROVE  TimesInv'
<1> DEFINE r == req[q]
           old == sess[r.id]
           new == Renewed(r)
<1>1. /\ r.at = "renew" /\ r \in RequestRows /\ r.id \in AdminSessions /\ UNCHANGED time
      /\ RowIsFresh(r) /\ SetRow(q, LetIn(r))
      /\ IF old.revoked THEN UNCHANGED sess ELSE SetSession(r.id, new)
  BY RenewSessionEffect DEF TimesInv, Reading
<1>2. \A p \in Requests : Reading(p)' => Reading(p) /\ req'[p] = req[p]
  BY <1>1, LetInRow DEF SetRow, Reading
<1>3. CASE UNCHANGED sess
  BY <1>1, <1>2, <1>3, SameSessionsTimes DEF TimesInv
<1>4. CASE SetSession(r.id, new)
  <2>1. /\ old \in SessionRows /\ r.s \in SessionRows /\ time \in Nat /\ r.now \in Nat
        /\ Timed(old) /\ Lasts(old)
    BY <1>1, RowsOfTimes DEF TypeInv, SessionsTypeOK, RequestRows
  <2>2. /\ new \in SessionRows /\ new.on = old.on /\ new.revoked = old.revoked
        /\ new.issued = old.issued /\ new.seen = time /\ new.expires = NewExpiry(r)
        /\ new.used = IF r.now > old.used THEN r.now ELSE old.used
    BY <1>1, WrittenRows
  <2>3. NewExpiry(r) = earliest(r.now + IdleTTL, old.issued + AbsTTL)
    BY <1>1 DEF NewExpiry, RowIsFresh
  <2> HIDE DEF new
  <2>4. Timed(new) /\ Lasts(new)
    BY <1>1, <2>1, <2>2, <2>3, SessionsAssumption DEF Timed, Lasts, RowIsFresh, SessionRows, earliest
  <2>5. new.seen >= old.seen
    BY <2>1, <2>2 DEF Timed, SessionRows
  <2> QED
    BY <1>1, <1>2, <1>4, <2>2, <2>4, <2>5, SetSessionTimes DEF RowIsFresh
<1> QED
  BY <1>1, <1>3, <1>4

LEMMA TimesStep == TypeInv /\ TimesInv /\ [SessionsNext]_sessionVars => TimesInv'
<1> SUFFICES ASSUME TypeInv, TimesInv, [SessionsNext]_sessionVars PROVE TimesInv'
  OBVIOUS
<1>1. ASSUME NEW s \in AdminSessions, Login(s) PROVE TimesInv'
  <2>1. ~sess[s].on /\ SetSession(s, LoginRow) /\ UNCHANGED <<time, req>>
    BY <1>1, LoginEffect
  <2>2. LoginRow \in SessionRows
    BY <2>1 , SessionsAssumption DEF LoginRow, SessionRows, earliest, TypeInv, SessionsTypeOK
  <2>3. Timed(LoginRow) /\ Lasts(LoginRow)
    BY SessionsAssumption DEF LoginRow, Timed, Lasts, earliest, TypeInv, SessionsTypeOK
  <2> QED
    BY <2>1, <2>2, <2>3, SetSessionTimes DEF Reading
<1>2. ASSUME NEW s \in AdminSessions, Logout(s) PROVE TimesInv'
  <2> DEFINE old == sess[s]
             new == RevokedRow(s)
  <2>1. /\ old.on /\ SetSession(s, new) /\ new \in SessionRows /\ new.revoked = TRUE
        /\ new.on = old.on /\ new.issued = old.issued /\ new.seen = old.seen
        /\ new.expires = old.expires /\ new.used = old.used /\ UNCHANGED <<time, req>>
    BY <1>2, LogoutEffect
  <2>2. Timed(old) /\ old \in SessionRows
    BY RowsOfTimes DEF TypeInv, SessionsTypeOK
  <2>3. Timed(new) /\ Lasts(new) /\ new.seen >= old.seen
    BY <2>1, <2>2 DEF Timed, Lasts, SessionRows
  <2> QED
    BY <2>1, <2>3, SetSessionTimes DEF Reading
<1>3. ASSUME NEW q \in Requests, NEW s \in AdminSessions, Middleware(q, s) PROVE TimesInv'
  <2>1. SetRow(q, MiddlewareRow(s)) /\ sess[s].on /\ UNCHANGED <<sess, time>>
    BY <1>3, MiddlewareEffect
  <2>2. RowIsFresh(MiddlewareRow(s))
    BY <2>1, SessionsAssumption DEF MiddlewareRow, RowIsFresh, TypeInv, SessionsTypeOK, SessionRows
  <2> QED
    BY <2>1, <2>2, SameSessionsTimes DEF SetRow, Reading, TimesInv
<1>4. ASSUME NEW q \in Requests, GetMembership(q) \/ RequireRole(q, "MANAGER") \/ Answer(q)
      PROVE  TimesInv'
  <2> DEFINE r == req[q]
             gate == [r EXCEPT !.at = "gate", !.role = memberRole]
             acts == [r EXCEPT !.at = "MANAGER"]
  <2>1. r \in RequestRows /\ UNCHANGED <<time, sess>> /\ (SetRow(q, NoRequest) \/ SetRow(q, gate) \/ SetRow(q, acts))
    BY <1>4, LaterStepEffect
  <2>2. gate.at = "gate" /\ acts.at = "MANAGER"
    BY <2>1 DEF RequestRows
  <2> HIDE DEF gate, acts
  <2> QED
    BY <2>1, <2>2, EmptyRows, SameSessionsTimes DEF SetRow, Reading, TimesInv
<1>5. ASSUME NEW on \in BOOLEAN, UpdateAdminAccount(on) PROVE TimesInv'
  BY <1>5, SameSessionsTimes DEF UpdateAdminAccount, Reading, TimesInv
<1>6. ASSUME NEW role \in {"NONE", "STAFF", "MANAGER"}, ChangeRole(role) PROVE TimesInv'
  <2>1. UNCHANGED <<sess, time>>
    BY <1>6 DEF ChangeRole
  <2>2. ASSUME NEW q \in Requests, Reading(q)'
        PROVE  RowIsFresh(req'[q])
    <3> DEFINE new == [req[q] EXCEPT !.held = @ \cup {role}]
    <3>1. req'[q] = NoRequest \/ req'[q] = new
      BY <1>6 DEF ChangeRole
    <3>2. req'[q] # NoRequest
      BY <2>2, EmptyRows DEF Reading
    <3>3. new.at = req[q].at /\ new.s = req[q].s /\ new.id = req[q].id /\ new.now = req[q].now
      <4>1. \A x \in RequestRows : LET y == [x EXCEPT !.held = @ \cup {role}]
                                   IN y.at = x.at /\ y.s = x.s /\ y.id = x.id /\ y.now = x.now
        BY DEF RequestRows
      <4>2. req[q] \in RequestRows
        BY DEF TypeInv, SessionsTypeOK
      <4> QED
        BY <4>1, <4>2
    <3> HIDE DEF new
    <3>4. RowIsFresh(req[q])
      BY <2>2, <3>1, <3>2, <3>3 DEF Reading, TimesInv
    <3> QED
      BY <3>1, <3>2, <3>3, <3>4 DEF RowIsFresh
  <2> QED
    BY <2>1, <2>2, SameSessionsTimes
<1>7. CASE TimePasses
  <2>1. UNCHANGED <<sess, req>> /\ time' = time + 1 /\ time \in Nat
    BY <1>7 DEF TimePasses, TypeInv, SessionsTypeOK
  <2>2. \A s \in AdminSessions : Timed(sess[s])' /\ Lasts(sess[s])'
    BY <2>1, RowsOfTimes DEF Timed, Lasts, TypeInv, SessionsTypeOK, SessionRows
  <2>3. ASSUME NEW q \in Requests, Reading(q)
        PROVE  RowIsFresh(req[q])'
    <3>1. time < req[q].now + MaxDelay /\ RowIsFresh(req[q]) /\ req[q] \in RequestRows
      BY <1>7, <2>3 DEF TimePasses, Reading, TimesInv, TypeInv, SessionsTypeOK
    <3>2. req[q].now \in Nat
      BY <3>1 DEF RequestRows
    <3> QED
      BY <2>1, <3>1, <3>2, SessionsAssumption DEF RowIsFresh
  <2> QED
    BY <2>1, <2>2, <2>3 DEF TimesInv, SessionTimes, UsedSessionLasts, Timed, Lasts, Reading
<1>8. CASE UNCHANGED sessionVars
  BY <1>8, SameSessionsTimes DEF sessionVars, Reading, TimesInv
<1> QED
  BY <1>1, <1>2, <1>3, <1>4, <1>5, <1>6, <1>7, <1>8, CheckUserTimes, RenewSessionTimes DEF SessionsNext

(***************************************************************************)
(* Roles.  What a request decides on is among the roles held since it      *)
(* began.                                                                  *)
(***************************************************************************)
RowIsHeld(r) ==
    /\ r.at # "idle" => memberRole \in r.held
    /\ r.at = "gate" => r.role \in r.held
    /\ r.at \in RoleNames => \E x \in r.held : AtLeast(x, r.at)

RolesInv == \A q \in Requests : RowIsHeld(req[q])

LEMMA IdleIsHeld == RowIsHeld(NoRequest)
BY DEF RowIsHeld, NoRequest, RoleNames

\* A step that sets one request to a row that is held, while the role stays.
LEMMA SetRowRoles ==
    ASSUME RolesInv, NEW q \in Requests, NEW r, SetRow(q, r), RowIsHeld(r), UNCHANGED memberRole
    PROVE  RolesInv'
BY DEF RolesInv, RowIsHeld, SetRow

LEMMA RolesStep == TypeInv /\ RolesInv /\ [SessionsNext]_sessionVars => RolesInv'
<1> SUFFICES ASSUME TypeInv, RolesInv, [SessionsNext]_sessionVars PROVE RolesInv'
  OBVIOUS
<1>1. ASSUME UNCHANGED <<req, memberRole>> PROVE RolesInv'
  BY <1>1 DEF RolesInv, RowIsHeld
<1>2. ASSUME NEW q \in Requests, NEW s \in AdminSessions, Middleware(q, s) PROVE RolesInv'
  <2>1. RowIsHeld(MiddlewareRow(s))
    BY DEF RowIsHeld, MiddlewareRow, RoleNames
  <2> QED
    BY <1>2, <2>1, MiddlewareEffect, SetRowRoles
<1>3. ASSUME NEW q \in Requests, CheckUser(q) \/ RenewSession(q) PROVE RolesInv'
  <2> DEFINE r == req[q]
             renew == [r EXCEPT !.at = "renew"]
  <2>1. /\ r.at \in {"user", "renew"} /\ r \in RequestRows /\ UNCHANGED memberRole
        /\ SetRow(q, NoRequest) \/ SetRow(q, renew) \/ SetRow(q, LetIn(r))
    BY <1>3, CheckUserEffect, RenewSessionEffect
  <2>2. memberRole \in r.held
    BY <2>1 DEF RolesInv, RowIsHeld
  <2>3. renew.at = "renew" /\ renew.held = r.held
    BY <2>1 DEF RequestRows
  <2> HIDE DEF renew
  <2>4. RowIsHeld(renew) /\ RowIsHeld(LetIn(r))
    BY <2>1, <2>2, <2>3, LetInRow DEF RowIsHeld, RoleNames
  <2> QED
    BY <2>1, <2>4, IdleIsHeld, SetRowRoles
<1>4. ASSUME NEW q \in Requests, GetMembership(q) \/ RequireRole(q, "MANAGER") \/ Answer(q) PROVE RolesInv'
  <2> DEFINE r == req[q]
             gate == [r EXCEPT !.at = "gate", !.role = memberRole]
             acts == [r EXCEPT !.at = "MANAGER"]
  <2>1. /\ r \in RequestRows /\ UNCHANGED memberRole
        /\ \/ SetRow(q, NoRequest)
           \/ r.at = "member" /\ SetRow(q, gate)
           \/ r.at = "gate" /\ AtLeast(r.role, "MANAGER") /\ SetRow(q, acts)
    BY <1>4, LaterStepEffect
  <2>2. RowIsHeld(r)
    BY DEF RolesInv
  <2>3. /\ gate.at = "gate" /\ gate.role = memberRole /\ gate.held = r.held
        /\ acts.at = "MANAGER" /\ acts.held = r.held
    BY <2>1 DEF RequestRows
  <2> HIDE DEF gate, acts
  <2>4. r.at = "member" => RowIsHeld(gate)
    BY <2>2, <2>3 DEF RowIsHeld, RoleNames
  <2>5. r.at = "gate" /\ AtLeast(r.role, "MANAGER") => RowIsHeld(acts)
    BY <2>2, <2>3 DEF RowIsHeld
  <2> QED
    BY <2>1, <2>4, <2>5, IdleIsHeld, SetRowRoles
<1>5. ASSUME NEW role \in {"NONE", "STAFF", "MANAGER"}, ChangeRole(role) PROVE RolesInv'
  <2> SUFFICES ASSUME NEW q \in Requests PROVE RowIsHeld(req[q])'
    BY DEF RolesInv
  <2> DEFINE r == req[q]
             new == [r EXCEPT !.held = @ \cup {role}]
  <2>1. /\ memberRole' = role
        /\ req'[q] = IF r = NoRequest THEN NoRequest ELSE new
    BY <1>5 DEF ChangeRole
  <2>2. new.at = r.at /\ new.role = r.role /\ new.held = r.held \cup {role}
    <3>1. r \in RequestRows
      BY DEF TypeInv, SessionsTypeOK
    <3> QED
      BY <3>1 DEF RequestRows
  <2>3. RowIsHeld(r)
    BY DEF RolesInv
  <2> HIDE DEF new
  <2>4. CASE r = NoRequest
    BY <2>1, <2>4 DEF RowIsHeld, NoRequest, RoleNames
  <2>5. CASE r # NoRequest
    BY <2>1, <2>2, <2>3, <2>5 DEF RowIsHeld
  <2> QED
    BY <2>4, <2>5
<1>6. ASSUME NEW s \in AdminSessions, Login(s) \/ Logout(s) PROVE RolesInv'
  BY <1>1, <1>6 DEF Login, Logout
<1>7. ASSUME NEW on \in BOOLEAN, UpdateAdminAccount(on) PROVE RolesInv'
  BY <1>1, <1>7 DEF UpdateAdminAccount
<1>8. CASE TimePasses
  BY <1>1, <1>8 DEF TimePasses
<1>9. CASE UNCHANGED sessionVars
  BY <1>1, <1>9 DEF sessionVars
<1> QED
  BY <1>2, <1>3, <1>4, <1>5, <1>6, <1>7, <1>8, <1>9 DEF SessionsNext

(***************************************************************************)
(* The theorems.                                                           *)
(***************************************************************************)
\* Every variable keeps its type, and a request its session.
THEOREM SessionsTyped == SessionsSpec => []TypeInv
BY TypeInit, TypeStep, PTL DEF SessionsSpec

\* The invariant of the times.
LEMMA TimesAlways == SessionsSpec => []TimesInv
BY TimesInit, TimesStep, SessionsTyped, PTL DEF SessionsSpec

\* A session that is used lasts, whichever request writes its expiry last,
\* and never beyond its absolute end.
THEOREM UseKeepsTheSession == SessionsSpec => []UsedSessionLasts
<1>1. TimesInv => UsedSessionLasts
  BY DEF TimesInv
<1> QED
  BY <1>1, TimesAlways, PTL

\* A handler acts only for who held a sufficient role during the request.
THEOREM HandlersActWithinRole == SessionsSpec => []ActsWithinRole
<1>1. SessionsInit => RolesInv
  BY IdleIsHeld DEF SessionsInit, RolesInv
<1>2. RolesInv => ActsWithinRole
  BY RanksOfRoles DEF RolesInv, RowIsHeld, ActsWithinRole
<1> QED
  BY <1>1, <1>2, RolesStep, SessionsTyped, PTL DEF SessionsSpec

\* No request revives or extends a session after its logout.
THEOREM LogoutStays == SessionsSpec => LogoutIsFinal
<1>1. TypeInv /\ TimesInv /\ [SessionsNext]_sessionVars =>
        [\A s \in AdminSessions : sess[s].revoked =>
           sess'[s].revoked /\ sess'[s].expires = sess[s].expires]_sessionVars
  <2> SUFFICES ASSUME TypeInv, TimesInv, SessionsNext, NEW s \in AdminSessions, sess[s].revoked
               PROVE  sess'[s].revoked /\ sess'[s].expires = sess[s].expires
    OBVIOUS
  <2>1. sess[s].on
    BY DEF TimesInv, SessionTimes
  <2>2. ASSUME NEW t \in AdminSessions, Login(t) \/ Logout(t) \/ \E q \in Requests : Middleware(q, t)
        PROVE  sess'[s].revoked /\ sess'[s].expires = sess[s].expires
    BY <2>1, <2>2, LoginEffect, LogoutEffect, MiddlewareEffect DEF SetSession
  <2>3. ASSUME NEW q \in Requests, CheckUser(q) \/ RenewSession(q)
        PROVE  sess'[s].revoked /\ sess'[s].expires = sess[s].expires
    <3> DEFINE r == req[q]
    <3>1. r \in RequestRows /\ r.id \in AdminSessions
      BY <2>3, CheckUserEffect, RenewSessionEffect
    <3>2. CASE CheckUser(q)
      <4>1. UNCHANGED sess \/ SetSession(r.id, Used(r))
        BY <3>2, CheckUserEffect
      <4>2. Used(r).revoked = sess[r.id].revoked /\ Used(r).expires = sess[r.id].expires
        BY <3>1, WrittenRows
      <4> QED
        BY <4>1, <4>2 DEF SetSession
    <3>3. CASE RenewSession(q)
      BY <3>3, RenewSessionEffect DEF SetSession
    <3> QED
      BY <2>3, <3>2, <3>3
  <2>4. ASSUME NEW q \in Requests, GetMembership(q) \/ RequireRole(q, "MANAGER") \/ Answer(q)
        PROVE  sess'[s].revoked /\ sess'[s].expires = sess[s].expires
    BY <2>4, LaterStepEffect
  <2>5. ASSUME UNCHANGED sess
        PROVE  sess'[s].revoked /\ sess'[s].expires = sess[s].expires
    BY <2>5
  <2> QED
    BY <2>2, <2>3, <2>4, <2>5 DEF SessionsNext, UpdateAdminAccount, ChangeRole, TimePasses
<1> QED
  BY <1>1, SessionsTyped, TimesAlways, PTL DEF SessionsSpec, LogoutIsFinal

(***************************************************************************)
(* Customers and their tokens.  A customer, once there, stays who they     *)
(* are, and a login that has an id has that customer's.                    *)
(***************************************************************************)
LoginRows == [at : {"idle", "insert", "issue"}, openid : OpenIds \cup {NoPerson}, id : Nat]

BearerInv ==
    /\ lastCustomer \in Nat
    /\ customerOf \in [OpenIds -> Nat]
    /\ login \in [Logins -> LoginRows]
    /\ \A o \in OpenIds : customerOf[o] <= lastCustomer
    /\ \A l \in Logins : login[l].at # "idle" => login[l].openid \in OpenIds
    /\ \A l \in Logins : login[l].at = "issue" =>
         login[l].id = customerOf[login[l].openid] /\ customerOf[login[l].openid] # 0
    /\ token \in [Logins -> [openid : OpenIds \cup {NoPerson}, customer : Nat]]
    /\ \A l \in Logins : token[l] # NoToken => token[l].openid \in OpenIds /\ customerOf[token[l].openid] # 0
    /\ OneCustomerPerPerson

LEMMA BearerInitInv == BearerInit => BearerInv
BY BearerAssumption
DEF BearerInit, BearerInv, NoLogin, NoToken, LoginRows, OneCustomerPerPerson

LEMMA LoginEnds ==
    /\ NoLogin \in LoginRows /\ NoLogin.at = "idle"
BY DEF NoLogin, LoginRows

\* Who is a customer stays that customer.
LEMMA EnsureInv ==
    ASSUME BearerInv, NEW l \in Logins, EnsureByOpenID(l)
    PROVE  BearerInv'
<1> DEFINE o == login[l].openid
           id == IF customerOf[o] = 0 THEN lastCustomer + 1 ELSE customerOf[o]
<1>1. /\ o \in OpenIds /\ customerOf[o] \in Nat /\ customerOf[o] <= lastCustomer /\ lastCustomer \in Nat
  BY DEF EnsureByOpenID, BearerInv
<1>2. /\ lastCustomer' = lastCustomer + 1
      /\ customerOf' = [customerOf EXCEPT ![o] = id]
      /\ login' = [login EXCEPT ![l] = [at |-> "issue", openid |-> o, id |-> customerOf'[o]]]
      /\ UNCHANGED token
  BY DEF EnsureByOpenID
<1>3. id \in Nat /\ id # 0 /\ id <= lastCustomer + 1 /\ (customerOf[o] # 0 => id = customerOf[o])
      /\ (customerOf[o] = 0 => id = lastCustomer + 1)
  BY <1>1
<1> HIDE DEF o, id
<1>4. /\ customerOf' \in [OpenIds -> Nat] /\ customerOf'[o] = id
      /\ \A x \in OpenIds \ {o} : customerOf'[x] = customerOf[x]
  BY <1>1, <1>2, <1>3 DEF BearerInv
<1>5. \A x \in OpenIds : customerOf[x] # 0 => customerOf'[x] = customerOf[x]
  BY <1>3, <1>4
<1>6. \A x \in OpenIds : customerOf'[x] <= lastCustomer'
  <2>1. \A x \in OpenIds : customerOf[x] \in Nat /\ customerOf[x] <= lastCustomer
    BY DEF BearerInv
  <2> QED
    BY <1>1, <1>2, <1>3, <1>4, <2>1
<1>7. [at |-> "issue", openid |-> o, id |-> customerOf'[o]] \in LoginRows
  BY <1>1, <1>3, <1>4 DEF LoginRows
<1>8. /\ login' \in [Logins -> LoginRows]
      /\ login'[l] = [at |-> "issue", openid |-> o, id |-> customerOf'[o]]
      /\ \A x \in Logins \ {l} : login'[x] = login[x]
  BY <1>2, <1>7 DEF BearerInv
<1>9. \A x \in Logins : login'[x].at # "idle" => login'[x].openid \in OpenIds
  BY <1>1, <1>8 DEF BearerInv
<1>10. \A x \in Logins : login'[x].at = "issue" =>
         login'[x].id = customerOf'[login'[x].openid] /\ customerOf'[login'[x].openid] # 0
  BY <1>3, <1>4, <1>5, <1>8 DEF BearerInv
<1>11. OneCustomerPerPerson'
  <2>1. \A x, y \in OpenIds : customerOf'[x] = customerOf'[y] /\ customerOf'[x] # 0 => x = y
    <3> SUFFICES ASSUME NEW x \in OpenIds, NEW y \in OpenIds, x # y, customerOf'[x] = customerOf'[y], customerOf'[x] # 0
                 PROVE  FALSE
      OBVIOUS
    <3>1. \A z \in OpenIds : customerOf[z] \in Nat /\ customerOf[z] <= lastCustomer
      BY DEF BearerInv
    <3>2. \A z, u \in OpenIds : customerOf[z] = customerOf[u] /\ customerOf[z] # 0 => z = u
      BY DEF BearerInv, OneCustomerPerPerson
    <3>3. CASE x # o /\ y # o
      BY <1>4, <3>2, <3>3
    <3>4. CASE x = o
      <4>0. y \in OpenIds \ {o}
        BY <3>4
      <4>1. customerOf'[x] = id /\ customerOf'[y] = customerOf[y]
        BY <1>4, <3>4, <4>0
      <4>2. CASE customerOf[o] = 0
        <5>1. customerOf[y] = lastCustomer + 1
          BY <1>3, <4>1, <4>2
        <5> QED
          BY <1>1, <3>1, <5>1
      <4>3. CASE customerOf[o] # 0
        BY <1>3, <3>2, <3>4, <4>1, <4>3
      <4> QED
        BY <4>2, <4>3
    <3>5. CASE y = o
      <4>1. customerOf'[y] = id /\ customerOf'[x] = customerOf[x]
        BY <1>4, <3>5
      <4>2. CASE customerOf[o] = 0
        BY <1>1, <1>3, <3>1, <4>1, <4>2
      <4>3. CASE customerOf[o] # 0
        BY <1>3, <3>2, <3>5, <4>1, <4>3
      <4> QED
        BY <4>2, <4>3
    <3> QED
      BY <3>3, <3>4, <3>5
  <2>2. \A x \in Logins : token'[x] # NoToken => token'[x].customer = customerOf'[token'[x].openid]
    BY <1>2, <1>5 DEF BearerInv, OneCustomerPerPerson
  <2> QED
    BY <2>1, <2>2 DEF OneCustomerPerPerson
<1>12. /\ token' = token
       /\ \A x \in Logins : token[x] # NoToken => token[x].openid \in OpenIds /\ customerOf'[token[x].openid] # 0
  BY <1>2, <1>5 DEF BearerInv
<1> QED
  BY <1>1, <1>2, <1>4, <1>6, <1>8, <1>9, <1>10, <1>11, <1>12 DEF BearerInv

LEMMA BearerStepInv == BearerInv /\ [BearerNext]_bearerVars => BearerInv'
<1> SUFFICES ASSUME BearerInv, [BearerNext]_bearerVars
             PROVE  BearerInv'
  OBVIOUS
<1>1. ASSUME NEW l \in Logins, NEW o \in OpenIds, WechatSession(l, o)
      PROVE  BearerInv'
  <2> DEFINE r == [at |-> IF customerOf[o] = 0 THEN "insert" ELSE "issue", openid |-> o, id |-> customerOf[o]]
  <2>1. /\ login' = [login EXCEPT ![l] = r] /\ UNCHANGED <<lastCustomer, customerOf, token>>
    BY <1>1 DEF WechatSession
  <2>2. r \in LoginRows /\ r.openid = o /\ r.id = customerOf[o] /\ (r.at = "issue" => customerOf[o] # 0)
    BY DEF BearerInv, LoginRows
  <2> HIDE DEF r
  <2>3. /\ login' \in [Logins -> LoginRows] /\ \A x \in Logins : login'[x] = login[x] \/ login'[x] = r
    BY <2>1, <2>2 DEF BearerInv
  <2> QED
    BY <2>1, <2>2, <2>3 DEF BearerInv, OneCustomerPerPerson
<1>2. ASSUME NEW l \in Logins, IssueSession(l)
      PROVE  BearerInv'
  <2> DEFINE t == [openid |-> login[l].openid, customer |-> login[l].id]
  <2>1. /\ login[l].at = "issue" /\ token' = [token EXCEPT ![l] = t] /\ login' = [login EXCEPT ![l] = NoLogin]
        /\ UNCHANGED <<lastCustomer, customerOf>>
    BY <1>2 DEF IssueSession
  <2>2. /\ t \in [openid : OpenIds \cup {NoPerson}, customer : Nat]
        /\ t.openid \in OpenIds /\ t.customer = customerOf[t.openid] /\ customerOf[t.openid] # 0
    BY <2>1, BearerAssumption DEF BearerInv, LoginRows
  <2> HIDE DEF t
  <2>3. /\ login' \in [Logins -> LoginRows] /\ \A x \in Logins : login'[x] = login[x] \/ login'[x] = NoLogin
    BY <2>1, LoginEnds DEF BearerInv
  <2>4. /\ token' \in [Logins -> [openid : OpenIds \cup {NoPerson}, customer : Nat]]
        /\ \A x \in Logins : token'[x] = token[x] \/ token'[x] = t
    BY <2>1, <2>2 DEF BearerInv
  <2>5. OneCustomerPerPerson'
    BY <2>1, <2>2, <2>4 DEF BearerInv, OneCustomerPerPerson
  <2> QED
    BY <2>1, <2>2, <2>3, <2>4, <2>5, LoginEnds DEF BearerInv
<1>3. CASE UNCHANGED bearerVars
  BY <1>3 DEF bearerVars, BearerInv, OneCustomerPerPerson
<1> QED
  BY <1>1, <1>2, <1>3, EnsureInv DEF BearerNext

\* A person is one customer and holds only tokens of that customer, whichever
\* of several first logins comes first.
THEOREM PersonIsOneCustomer == BearerSpec => []OneCustomerPerPerson
<1>1. BearerInit => BearerInv
  BY BearerInitInv
<1>2. BearerInv /\ [BearerNext]_bearerVars => BearerInv'
  BY BearerStepInv
<1>3. BearerInv => OneCustomerPerPerson
  BY DEF BearerInv
<1> QED
  BY <1>1, <1>2, <1>3, PTL DEF BearerSpec
=============================================================================
