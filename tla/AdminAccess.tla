---------------------------- MODULE AdminAccess ----------------------------
(***************************************************************************)
(* Who may do what in admin-service: admin_users and their roles, the      *)
(* token pairs of AdminAuthFacade (login, refresh, logout) and the writes  *)
(* of AdminUsersFacade that a role claim lets pass.  The claims are copied *)
(* from the row at login and from the old claims at refresh: the row is    *)
(* not asked again, so that what a token says and what the row says drift  *)
(* apart.                                                                  *)
(*                                                                         *)
(* A request checks its token, reads rows, and commits; each of these is   *)
(* an action.  The lockout before a password is accepted is SignIn's.      *)
(***************************************************************************)
EXTENDS Naturals, FiniteSets

CONSTANTS
  Admin,        \* ids of admin_users rows (never reused)
  Email, Root,  \* e-mail addresses; Root is settings.admin_email
  Pair,         \* token pairs; k also stands for the jti of the refresh token
  Proc,         \* request threads
  Given,        \* bound: the roles that are given in create and update
  AccessLife, RefreshLife,   \* lifetimes in ticks
  MaxTime,      \* bound on the clock
  None

ASSUME RootAssumption == Root \in Email
ASSUME GivenAssumption == Given \subseteq {"superadmin", "admin", "viewer"}
ASSUME LifeAssumption == /\ AccessLife \in Nat \ {0}
                         /\ RefreshLife \in Nat \ {0}

VARIABLES
  now,
  row,       \* row[a]: row of admin_users, None before and Gone after it
  pair,      \* pair[k]: claims of an issued pair
  revoked,   \* jtis in revoked_tokens
  req,       \* req[p]: the request that p runs
  parent,    \* history: the pair whose refresh token issued k
  granted    \* history: the role that the row had at the login k stems from

Role   == {"superadmin", "admin", "viewer"}
Gone   == [email |-> None, role |-> "deleted"]
Row    == [email: Email, role: Role]
Claims == [sub: Admin, role: Role, iat: Nat]

ASSUME NoneAssumption == None \notin Pair \cup Claims \cup Row \cup {Gone}

\* A request: next step, operation, the pair it came with, target, value, the
\* row it has loaded, and (history) whether its token was spent at its start.
Request == [step: {"idle", "find", "issue", "insert", "write"},
            op: {"none", "refresh", "logout", "create", "update", "delete"},
            with: Pair \cup {None},
            target: Admin \cup Email \cup {None},
            value: Role \cup {None}, saw: Role \cup {None}, late: BOOLEAN]
Idle == [step |-> "idle", op |-> "none", with |-> None, target |-> None,
         value |-> None, saw |-> None, late |-> FALSE]

vars == <<now, row, pair, revoked, req, parent, granted>>

TypeOK ==
  /\ now \in Nat
  /\ row \in [Admin -> Row \cup {None, Gone}]
  /\ pair \in [Pair -> Claims \cup {None}]
  /\ revoked \in SUBSET Pair
  /\ req \in [Proc -> Request]
  /\ parent \in [Pair -> Pair \cup {None}]
  /\ granted \in [Pair -> Role \cup {None}]

-----------------------------------------------------------------------------
Exists(a)    == row[a] \notin {None, Gone}
Issued(k)    == pair[k] # None
Taken(e)     == \E a \in Admin : Exists(a) /\ row[a].email = e
Superadmins  == {a \in Admin : Exists(a) /\ row[a].role = "superadmin"}
At(p, s)     == req[p].step = s
Goto(p, s)   == req' = [req EXCEPT ![p].step = s]
Answer(p)    == req' = [req EXCEPT ![p] = Idle]
Actor(p)     == pair[req[p].with].sub

AccessValid(k)  == Issued(k) /\ now < pair[k].iat + AccessLife
RefreshValid(k) == Issued(k) /\ now < pair[k].iat + RefreshLife

\* make_role_dep: the role claim of an access token that has not expired.
Allowed(k, roles) == AccessValid(k) /\ pair[k].role \in roles

\* Seed: a superadmin for settings.admin_email, unless that e-mail is taken.
Seeded(rows) ==
  IF \E a \in Admin : rows[a] \notin {None, Gone} /\ rows[a].email = Root
    THEN {rows}
    ELSE {[rows EXCEPT ![a] = [email |-> Root, role |-> "superadmin"]] :
            a \in {x \in Admin : rows[x] = None}}

Init ==
  /\ now = 0
  /\ row \in Seeded([a \in Admin |-> None])
  /\ pair = [k \in Pair |-> None]
  /\ revoked = {}
  /\ req = [p \in Proc |-> Idle]
  /\ parent = [k \in Pair |-> None]
  /\ granted = [k \in Pair |-> None]

-----------------------------------------------------------------------------
\* Mutant of RoleClaim: the refresh token carries no role; "admin" is assumed.
RoleClaimDefault(k) == "admin"

RoleClaim(k) == pair[k].role

\* AdminTokenService.issue: both tokens of pair k carry subject and role.
Issue(k, a, role) ==
  /\ ~Issued(k)
  /\ pair' = [pair EXCEPT ![k] = [sub |-> a, role |-> role, iat |-> now]]

\* login: the password was right and the account not locked.
Login(k, a) ==
  /\ Exists(a)
  /\ Issue(k, a, row[a].role)
  /\ granted' = [granted EXCEPT ![k] = row[a].role]
  /\ UNCHANGED <<now, row, revoked, req, parent>>

\* refresh: decode and is_revoked.
StartRefresh(p, k) ==
  /\ At(p, "idle")
  /\ RefreshValid(k)
  /\ k \notin revoked
  /\ req' = [req EXCEPT ![p] =
       [Idle EXCEPT !.step = "find", !.op = "refresh", !.with = k,
                    !.late = \E n \in Pair : parent[n] = k]]
  /\ UNCHANGED <<now, row, pair, revoked, parent, granted>>

StartLogout(p, k) ==
  /\ At(p, "idle")
  /\ RefreshValid(k)
  /\ req' = [req EXCEPT ![p] =
       [Idle EXCEPT !.step = "find", !.op = "logout", !.with = k]]
  /\ UNCHANGED <<now, row, pair, revoked, parent, granted>>

\* RevokedTokenDao.revoke: its SELECT; a row that is there is left alone.
FindRevoked(p) ==
  /\ At(p, "find")
  /\ IF req[p].with \notin revoked THEN Goto(p, "insert")
     ELSE IF req[p].op = "refresh" THEN Goto(p, "issue") ELSE Answer(p)
  /\ UNCHANGED <<now, row, pair, revoked, parent, granted>>

\* Mutant of Revoke: rotation does not revoke the presented token.
RevokeOnLogout(p) ==
  revoked' = IF req[p].op = "logout" THEN revoked \cup {req[p].with}
                                     ELSE revoked

Revoke(p) == revoked' = revoked \cup {req[p].with}

\* refresh: INSERT (unless the row was found), new pair from the old claims,
\* COMMIT.
CommitRefresh(p, k) ==
  LET old == req[p].with IN
  /\ req[p].op = "refresh"
  /\ At(p, "issue") \/ (At(p, "insert") /\ old \notin revoked)
  /\ Issue(k, pair[old].sub, RoleClaim(old))
  /\ Revoke(p)
  /\ parent' = [parent EXCEPT ![k] = old]
  /\ granted' = [granted EXCEPT ![k] = granted[old]]
  /\ Answer(p)
  /\ UNCHANGED <<now, row>>

CommitLogout(p) ==
  /\ req[p].op = "logout"
  /\ At(p, "insert") /\ req[p].with \notin revoked
  /\ Revoke(p)
  /\ Answer(p)
  /\ UNCHANGED <<now, row, pair, parent, granted>>

\* Any request may fail: UNIQUE(jti), a database error, a restart.
Fail(p) ==
  /\ ~At(p, "idle")
  /\ Answer(p)
  /\ UNCHANGED <<now, row, pair, revoked, parent, granted>>

-----------------------------------------------------------------------------
\* A write with pair k begins: claim and guards are fine, rows are loaded.
StartWrite(p, k, op, target, value, saw) ==
  /\ At(p, "idle")
  /\ req' = [req EXCEPT ![p] =
       [step |-> "write", op |-> op, with |-> k, target |-> target,
        value |-> value, saw |-> saw, late |-> FALSE]]
  /\ UNCHANGED <<now, row, pair, revoked, parent, granted>>

StartCreate(p, k, e, r) ==
  /\ Allowed(k, {"superadmin"})
  /\ ~Taken(e)
  /\ StartWrite(p, k, "create", e, r, None)

\* "You cannot change your own role."
StartUpdate(p, k, a, r) ==
  /\ Allowed(k, {"superadmin"})
  /\ a # pair[k].sub
  /\ Exists(a)
  /\ StartWrite(p, k, "update", a, r, row[a].role)

\* Mutant of StartDelete: no guard for the own account.
StartDeleteAny(p, k, a) ==
  /\ Allowed(k, {"superadmin"})
  /\ Exists(a)
  /\ StartWrite(p, k, "delete", a, None, None)

\* "You cannot delete your own account."
StartDelete(p, k, a) ==
  /\ Allowed(k, {"superadmin"})
  /\ a # pair[k].sub
  /\ Exists(a)
  /\ StartWrite(p, k, "delete", a, None, None)

\* INSERT; UNIQUE(email) refuses an address taken meanwhile.
CommitCreate(p, a) ==
  /\ At(p, "write") /\ req[p].op = "create"
  /\ row[a] = None
  /\ ~Taken(req[p].target)
  /\ row' = [row EXCEPT ![a] = [email |-> req[p].target,
                                role |-> req[p].value]]
  /\ Answer(p)
  /\ UNCHANGED <<now, pair, revoked, parent, granted>>

\* UPDATE of the role unless the row was loaded with it; of a row deleted
\* meanwhile it matches nothing, which is an error (Fail).
CommitUpdate(p) ==
  LET a == req[p].target IN
  /\ At(p, "write") /\ req[p].op = "update"
  /\ Exists(a) \/ req[p].value = req[p].saw
  /\ row' = IF req[p].value = req[p].saw THEN row
            ELSE [row EXCEPT ![a].role = req[p].value]
  /\ Answer(p)
  /\ UNCHANGED <<now, pair, revoked, parent, granted>>

\* DELETE; that it matches no row any more is only a warning.
CommitDelete(p) ==
  /\ At(p, "write") /\ req[p].op = "delete"
  /\ row' = [row EXCEPT ![req[p].target] = Gone]
  /\ Answer(p)
  /\ UNCHANGED <<now, pair, revoked, parent, granted>>

\* A restart seeds again; the requests of the old process are gone.
Restart ==
  /\ row' \in Seeded(row)
  /\ req' = [p \in Proc |-> Idle]
  /\ UNCHANGED <<now, pair, revoked, parent, granted>>

\* prune-revoked-tokens.
Prune ==
  /\ revoked' = {k \in revoked : RefreshValid(k)}
  /\ UNCHANGED <<now, row, pair, req, parent, granted>>

Tick ==
  /\ now < MaxTime
  /\ now' = now + 1
  /\ UNCHANGED <<row, pair, revoked, req, parent, granted>>

Next ==
  \/ \E k \in Pair, a \in Admin : Login(k, a)
  \/ \E p \in Proc, k \in Pair :
       StartRefresh(p, k) \/ StartLogout(p, k) \/ CommitRefresh(p, k)
  \/ \E p \in Proc, k \in Pair, e \in Email, r \in Given : StartCreate(p, k, e, r)
  \/ \E p \in Proc, k \in Pair, a \in Admin :
       StartDelete(p, k, a) \/ \E r \in Given : StartUpdate(p, k, a, r)
  \/ \E p \in Proc : \/ FindRevoked(p) \/ CommitLogout(p) \/ Fail(p)
                     \/ \E a \in Admin : CommitCreate(p, a)
                     \/ CommitUpdate(p) \/ CommitDelete(p)
  \/ Restart
  \/ Prune
  \/ Tick

Spec == Init /\ [][Next]_vars

-----------------------------------------------------------------------------
\* A refresh token yields a pair to requests that overlap at most: one that
\* began after the rotation was committed gets nothing, pruned or not.
SpentRefreshIsDead == \A p \in Proc : ~req[p].late

\* No chain of refreshes, however long, says more than the admin's row said at
\* the login it began with.
RoleFromLogin == \A k \in Pair : Issued(k) => pair[k].role = granted[k]

\* The guards for the own account and the own role keep a superadmin in
\* place: the last one is lost only to a request whose actor is itself no
\* superadmin any more and still has the claim.
LastSuperadminFallsToStaleClaim ==
  [][Superadmins # {} /\ Superadmins' = {} =>
       \E p \in Proc : At(p, "write") /\ req'[p] = Idle
                         /\ Actor(p) \notin Superadmins]_vars
=============================================================================
