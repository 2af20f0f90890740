------------------------------- MODULE Sessions -------------------------------
(***************************************************************************)
(* The sessions of an account of the back office: login, the middleware    *)
(* before every request, logout.  A request reads the session, the account *)
(* and the membership in statements of their own, and renews the session   *)
(* with the time it started with; requests, logout and the administrators  *)
(* who change the account overlap.                                         *)
(***************************************************************************)
EXTENDS Integers

CONSTANTS
    AdminSessions,  \* sessions the account may open
    Requests,       \* requests that overlap
    IdleTTL, AbsTTL, RenewSlack,    \* ADMIN_SESSION_... in ticks
    MaxDelay,       \* longest a request takes from its first statement to its renewal
    MaxTime         \* bound on the clock

ASSUME SessionsAssumption ==
    /\ IdleTTL \in Nat /\ AbsTTL \in Nat /\ RenewSlack \in Nat \ {0}
    /\ MaxDelay \in Nat /\ MaxTime \in Nat

VARIABLES
    time,
    sess,           \* admin_sessions by session; "used" is history: last accepted request
    accountOn,      \* admin_users.enabled
    memberRole,     \* shop_members.role in the store of X-Store-Id, "NONE" without a row
    req             \* requests under way: the rows they read, the roles held meanwhile

sessionVars == <<time, sess, accountOn, memberRole, req>>

Ranks == [NONE |-> 0, STAFF |-> 1, MANAGER |-> 2, OWNER |-> 3]
AtLeast(r, min) == Ranks[r] >= Ranks[min]

earliest(a, b) == IF a < b THEN a ELSE b

NoSession == [on |-> FALSE, revoked |-> FALSE, issued |-> 0, seen |-> 0, expires |-> 0, used |-> 0]
NoRequest == [at |-> "idle", s |-> NoSession, id |-> 0, now |-> 0, role |-> "NONE", held |-> {}]

SessionsInit ==
    /\ time = 0
    /\ sess = [s \in AdminSessions |-> NoSession]
    /\ accountOn = TRUE
    /\ memberRole = "STAFF"
    /\ req = [q \in Requests |-> NoRequest]

(***************************************************************************)
(* Login and logout.                                                       *)
(***************************************************************************)
IssueAdminSession(s) ==
    sess' = [sess EXCEPT ![s] = [on |-> TRUE, revoked |-> FALSE, issued |-> time, seen |-> time,
                                 expires |-> earliest(time + IdleTTL, time + AbsTTL), used |-> time]]
Login(s) ==
    /\ ~sess[s].on
    /\ accountOn
    /\ IssueAdminSession(s)
    /\ UNCHANGED <<time, accountOn, memberRole, req>>

RevokeSession(s) ==
    /\ sess[s].on /\ ~sess[s].revoked
    /\ sess' = [sess EXCEPT ![s].revoked = TRUE]
Logout(s) ==
    /\ RevokeSession(s)
    /\ UNCHANGED <<time, accountOn, memberRole, req>>

(***************************************************************************)
(* A request.                                                              *)
(***************************************************************************)
Proceed(q, r) == req' = [req EXCEPT ![q] = r]

GetSessionByToken(s) == sess[s].on /\ ~sess[s].revoked

\* The token is looked up and its time checked.
Middleware(q, s) ==
    /\ req[q] = NoRequest
    /\ GetSessionByToken(s)
    /\ time <= sess[s].expires
    /\ Proceed(q, [at |-> "user", s |-> sess[s], id |-> s, now |-> time, role |-> "NONE", held |-> {memberRole}])
    /\ UNCHANGED <<time, sess, accountOn, memberRole>>

NewExpiryByElapsed(r) == earliest(r.s.expires + (r.now - r.s.seen), r.s.issued + AbsTTL)
NewExpiry(r) == earliest(r.now + IdleTTL, r.s.issued + AbsTTL)
LetIn(r) == [NoRequest EXCEPT !.at = "member", !.held = r.held]
\* The session of a request that is accepted, and of one that renews it.
Used(r) == [sess[r.id] EXCEPT !.used = IF r.now > @ THEN r.now ELSE @]
Renewed(r) == [Used(r) EXCEPT !.seen = time, !.expires = NewExpiry(r)]
RenewalDue(r) == r.now - r.s.seen >= RenewSlack /\ NewExpiry(r) > r.s.expires

\* The account; a request that is let in counts as a use of the session.
CheckUser(q) ==
    LET r == req[q] IN
    /\ r.at = "user"
    /\ IF ~accountOn THEN Proceed(q, NoRequest) /\ UNCHANGED sess
       ELSE /\ Proceed(q, IF RenewalDue(r) THEN [r EXCEPT !.at = "renew"] ELSE LetIn(r))
            /\ sess' = IF RenewalDue(r) THEN sess
                       ELSE [sess EXCEPT ![r.id] = Used(r)]
    /\ UNCHANGED <<time, accountOn, memberRole>>

\* UPDATE ... SET last_seen_at, expires_at WHERE id AND revoked_at IS NULL.
RenewAlsoRevoked(q) ==
    LET r == req[q] IN
    /\ r.at = "renew"
    /\ sess' = [sess EXCEPT ![r.id] = Renewed(r)]
    /\ Proceed(q, LetIn(r))
    /\ UNCHANGED <<time, accountOn, memberRole>>
RenewSession(q) ==
    LET r == req[q] IN
    /\ r.at = "renew"
    /\ sess' = IF sess[r.id].revoked THEN sess ELSE [sess EXCEPT ![r.id] = Renewed(r)]
    /\ Proceed(q, LetIn(r))
    /\ UNCHANGED <<time, accountOn, memberRole>>

GetMembership(q) ==
    /\ req[q].at = "member"
    /\ Proceed(q, IF memberRole = "NONE" THEN NoRequest   \* 403
                  ELSE [req[q] EXCEPT !.at = "gate", !.role = memberRole])
    /\ UNCHANGED <<time, sess, accountOn, memberRole>>

\* RequireRole: the handler acts, or the request is refused.
LetAnyMember(q, min) ==
    /\ req[q].at = "gate"
    /\ Proceed(q, IF AtLeast(req[q].role, "STAFF") THEN [req[q] EXCEPT !.at = min] ELSE NoRequest)
    /\ UNCHANGED <<time, sess, accountOn, memberRole>>
RequireRole(q, min) ==
    /\ req[q].at = "gate"
    /\ Proceed(q, IF AtLeast(req[q].role, min) THEN [req[q] EXCEPT !.at = min] ELSE NoRequest)
    /\ UNCHANGED <<time, sess, accountOn, memberRole>>

Answer(q) ==
    /\ req[q].at \in DOMAIN Ranks
    /\ Proceed(q, NoRequest)
    /\ UNCHANGED <<time, sess, accountOn, memberRole>>

(***************************************************************************)
(* The administrators of the platform, and time.                           *)
(***************************************************************************)
UpdateAdminAccount(on) ==
    /\ accountOn' = on
    /\ accountOn # on
    /\ UNCHANGED <<time, sess, memberRole, req>>

ChangeRole(r) ==
    /\ memberRole' = r
    /\ memberRole # r
    /\ req' = [q \in Requests |-> IF req[q] = NoRequest THEN NoRequest
                                  ELSE [req[q] EXCEPT !.held = @ \cup {r}]]
    /\ UNCHANGED <<time, sess, accountOn>>

TimePasses ==
    /\ time < MaxTime
    /\ \A q \in Requests : req[q].at \in {"user", "renew"} => time < req[q].now + MaxDelay
    /\ time' = time + 1
    /\ UNCHANGED <<sess, accountOn, memberRole, req>>

SessionsNext ==
    \/ \E s \in AdminSessions : Login(s) \/ Logout(s) \/ \E q \in Requests : Middleware(q, s)
    \/ \E q \in Requests : \/ CheckUser(q) \/ RenewSession(q) \/ GetMembership(q) \/ Answer(q)
                           \/ RequireRole(q, "MANAGER")
    \/ \E on \in BOOLEAN : UpdateAdminAccount(on)
    \/ \E r \in {"NONE", "STAFF", "MANAGER"} : ChangeRole(r)
    \/ TimePasses

SessionsSpec == SessionsInit /\ [][SessionsNext]_sessionVars

(***************************************************************************)
(* Properties.                                                             *)
(***************************************************************************)
\* Whoever uses a session keeps it: it lasts, counted from its last accepted
\* request, for the idle time less what the slack saves in renewals and less
\* the time a request may take, because a slow request may set back the expiry
\* a later one has written (authn/middleware.go:45, 58-60); or until its
\* absolute end, and never past that.
UsedSessionLasts ==
    \A s \in AdminSessions : sess[s].on /\ ~sess[s].revoked =>
        LET end == sess[s].issued + AbsTTL IN
        /\ sess[s].expires <= end
        /\ sess[s].expires = end \/ sess[s].expires > sess[s].used + IdleTTL - RenewSlack - MaxDelay

\* Logout is for good: a request that had read the session before neither
\* revives nor extends it.
LogoutIsFinal ==
    [][\A s \in AdminSessions : sess[s].revoked =>
           sess'[s].revoked /\ sess'[s].expires = sess[s].expires]_sessionVars

\* A handler acts only for who held a sufficient role at some time during
\* the request, although the role may be gone when it acts.
ActsWithinRole ==
    \A q \in Requests, min \in DOMAIN Ranks :
        req[q].at = min => \E r \in req[q].held : AtLeast(r, min)
=============================================================================
