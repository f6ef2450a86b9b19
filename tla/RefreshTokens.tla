---------------------------- MODULE RefreshTokens ----------------------------
(***************************************************************************)
(* The refresh-token families of customer-service: AuthFacade.login,       *)
(* refresh and logout, the revoked_tokens denylist (RevokedTokenDao) and   *)
(* the periodic prune job.                                                 *)
(*                                                                         *)
(* Every HTTP request runs in a thread of its own with a database session  *)
(* of its own (sync FastAPI routes), so each SELECT and each flushed       *)
(* INSERT of a request is an action here and requests interleave at those  *)
(* points, as READ COMMITTED transactions do.  A flushed row is invisible  *)
(* to the other sessions until the commit; the UNIQUE index on             *)
(* revoked_tokens.jti makes a second INSERT of the same key wait for the   *)
(* first transaction to end.                                               *)
(***************************************************************************)
EXTENDS Naturals

CONSTANTS
  Token,      \* refresh-token ids (jti claims)
  Family,     \* token-family ids (fid claims)
  Proc,       \* request threads
  Lifetime,   \* jwt_refresh_expire_minutes, in clock ticks
  MaxTime,    \* bound on the clock (model checking only)
  None        \* no value: token not issued, no row, no parent

ASSUME LifetimeAssumption == Lifetime \in Nat \ {0}
ASSUME NoneAssumption == None \notin Nat \cup Token \cup Family
ASSUME KeysDisjoint == Token \cap Family = {}

VARIABLES
  now,       \* wall clock
  fam,       \* fam[t]: fid claim of t, None while t is not issued
  exp,       \* exp[t]: exp claim of t
  revoked,   \* revoked[k]: expires_at of the committed row with jti = k
  pending,   \* pending[p]: keys of rows p has flushed and not committed
  req,       \* req[p]: the request p runs
  parent,    \* history: parent[t] is the token whose rotation issued t
  ended,     \* history: tokens whose logout committed
  burnedBy   \* history: tokens whose logout or reuse revoked a family

tokenVars   == <<fam, exp, parent>>
historyVars == <<ended, burnedBy>>
vars == <<now, fam, exp, revoked, pending, req, parent, ended, burnedBy>>

\* A row's jti column holds a token id or the marker "family:<fid>".
Key == Token \cup Family

\* A request: the statement it executes next, the operation, the presented
\* token, and (history) the expiries of the rows that denied the token when
\* the request began.
Request == [step: {"idle", "checkFamily", "checkJti", "findJti", "insertJti",
                   "findFamily", "insertFamily", "commit", "issue"},
            op: {"none", "refresh", "logout"},
            tok: Token \cup {None},
            denials: SUBSET Nat]

Idle == [step |-> "idle", op |-> "none", tok |-> None, denials |-> {}]

TypeOK ==
  /\ now \in Nat
  /\ fam \in [Token -> Family \cup {None}]
  /\ exp \in [Token -> Nat]
  /\ revoked \in [Key -> Nat \cup {None}]
  /\ pending \in [Proc -> SUBSET Key]
  /\ req \in [Proc -> Request]
  /\ parent \in [Token -> Token \cup {None}]
  /\ ended \in SUBSET Token
  /\ burnedBy \in SUBSET Token

Init ==
  /\ now = 0
  /\ fam = [t \in Token |-> None]
  /\ exp = [t \in Token |-> 0]
  /\ revoked = [k \in Key |-> None]
  /\ pending = [p \in Proc |-> {}]
  /\ req = [p \in Proc |-> Idle]
  /\ parent = [t \in Token |-> None]
  /\ ended = {}
  /\ burnedBy = {}

-----------------------------------------------------------------------------
Issued(t)      == fam[t] # None
HasRow(k)      == revoked[k] # None
FamilyInUse(f) == \E t \in Token : fam[t] = f
At(p, s)       == req[p].step = s

\* PyJWT accepts a token strictly before its exp claim.
Decodes(t) == Issued(t) /\ now < exp[t]

\* What the next refresh of t, running alone, would accept.
Live(t) == Decodes(t) /\ ~HasRow(t) /\ ~HasRow(fam[t])

Goto(p, s) == req' = [req EXCEPT ![p].step = s]
Answer(p)  == req' = [req EXCEPT ![p] = Idle]

\* TokenService.issue: t is a fresh jti, valid for Lifetime from now.
Issue(t, f, par) ==
  /\ ~Issued(t)
  /\ fam' = [fam EXCEPT ![t] = f]
  /\ exp' = [exp EXCEPT ![t] = now + Lifetime]
  /\ parent' = [parent EXCEPT ![t] = par]

\* COMMIT: the rows p flushed become visible; each carries the presented
\* token's exp claim.
CommitRows(p) ==
  /\ revoked' = [k \in Key |-> IF k \in pending[p] THEN exp[req[p].tok]
                                                   ELSE revoked[k]]
  /\ pending' = [pending EXCEPT ![p] = {}]

-----------------------------------------------------------------------------
\* login (or signup) succeeds: the pair it returns starts a new family.
Login(t, f) ==
  /\ ~FamilyInUse(f)
  /\ Issue(t, f, None)
  /\ UNCHANGED <<now, revoked, pending, req, historyVars>>

\* A request presents t.  Any issued token may be presented, at any time and
\* any number of times: clients retry, and answers get lost.
Present(p, t, o, first) ==
  /\ At(p, "idle")
  /\ Decodes(t)
  /\ req' = [req EXCEPT ![p] =
       [step |-> first, op |-> o, tok |-> t,
        denials |-> {revoked[k] : k \in {x \in {t, fam[t]} : HasRow(x)}}]]
  /\ UNCHANGED <<now, tokenVars, revoked, pending, historyVars>>

StartRefresh(p, t) == Present(p, t, "refresh", "checkFamily")
StartLogout(p, t)  == Present(p, t, "logout", "findJti")

\* Mutant of CheckFamily: refresh does not ask for the family marker.
CheckFamilySkipped(p) ==
  /\ At(p, "checkFamily")
  /\ Goto(p, "checkJti")
  /\ UNCHANGED <<now, tokenVars, revoked, pending, historyVars>>

\* refresh: is_family_revoked.
CheckFamily(p) ==
  /\ At(p, "checkFamily")
  /\ IF HasRow(fam[req[p].tok]) THEN Answer(p) ELSE Goto(p, "checkJti")
  /\ UNCHANGED <<now, tokenVars, revoked, pending, historyVars>>

\* refresh: is_revoked; a revoked jti is a reuse, which burns the family.
CheckJti(p) ==
  /\ At(p, "checkJti")
  /\ Goto(p, IF HasRow(req[p].tok) THEN "findFamily" ELSE "findJti")
  /\ UNCHANGED <<now, tokenVars, revoked, pending, historyVars>>

\* Mutant of AfterJti: logout revokes the presented token only.
AfterJtiTokenOnly(p) == IF req[p].op = "refresh" THEN "issue" ELSE "commit"

AfterJti(p) == IF req[p].op = "refresh" THEN "issue" ELSE "findFamily"

\* RevokedTokenDao.revoke, its SELECT: an existing row is left as it is.
FindJti(p) ==
  /\ At(p, "findJti")
  /\ Goto(p, IF HasRow(req[p].tok) THEN AfterJti(p) ELSE "insertJti")
  /\ UNCHANGED <<now, tokenVars, revoked, pending, historyVars>>

\* RevokedTokenDao.revoke_family, its SELECT.
FindFamily(p) ==
  /\ At(p, "findFamily")
  /\ Goto(p, IF HasRow(fam[req[p].tok]) THEN "commit" ELSE "insertFamily")
  /\ UNCHANGED <<now, tokenVars, revoked, pending, historyVars>>

\* Mutant of Insert: an IntegrityError is answered by another try.
InsertRetries(p, k, next) ==
  /\ \A q \in Proc \ {p} : k \notin pending[q]
  /\ ~HasRow(k)
  /\ pending' = [pending EXCEPT ![p] = @ \cup {k}]
  /\ Goto(p, next)
  /\ UNCHANGED <<now, tokenVars, revoked, historyVars>>

\* The flushed INSERT of key k: it waits while another transaction has the
\* key, and fails with an IntegrityError (500, rollback) if that committed.
Insert(p, k, next) ==
  /\ \A q \in Proc \ {p} : k \notin pending[q]
  /\ \/ /\ ~HasRow(k)
        /\ pending' = [pending EXCEPT ![p] = @ \cup {k}]
        /\ Goto(p, next)
     \/ /\ HasRow(k)
        /\ pending' = [pending EXCEPT ![p] = {}]
        /\ Answer(p)
  /\ UNCHANGED <<now, tokenVars, revoked, historyVars>>

InsertJti(p)    == At(p, "insertJti") /\ Insert(p, req[p].tok, AfterJti(p))
InsertFamily(p) == At(p, "insertFamily") /\ Insert(p, fam[req[p].tok], "commit")

\* refresh: issue the new pair in the same family, and commit.
IssueAndCommit(p, t) ==
  /\ At(p, "issue")
  /\ Issue(t, fam[req[p].tok], req[p].tok)
  /\ CommitRows(p)
  /\ Answer(p)
  /\ UNCHANGED <<now, historyVars>>

\* logout, or a detected reuse: commit the family marker.
CommitRevocation(p) ==
  /\ At(p, "commit")
  /\ CommitRows(p)
  /\ burnedBy' = burnedBy \cup {req[p].tok}
  /\ ended' = IF req[p].op = "logout" THEN ended \cup {req[p].tok} ELSE ended
  /\ Answer(p)
  /\ UNCHANGED <<now, tokenVars>>

\* The request dies (an exception, a lost connection, a restart): rollback.
Abort(p) ==
  /\ ~At(p, "idle")
  /\ pending' = [pending EXCEPT ![p] = {}]
  /\ Answer(p)
  /\ UNCHANGED <<now, tokenVars, revoked, historyVars>>

\* Mutant of Expired: prune runs one tick ahead of the exp claim.
ExpiredTooEarly(k) == HasRow(k) /\ revoked[k] > 0 /\ revoked[k] <= now + 1

\* prune_expired, run on start and periodically by the scheduler.
Expired(k) == HasRow(k) /\ revoked[k] > 0 /\ revoked[k] < now

Prune ==
  /\ \E k \in Key : Expired(k)
  /\ revoked' = [k \in Key |-> IF Expired(k) THEN None ELSE revoked[k]]
  /\ UNCHANGED <<now, tokenVars, pending, req, historyVars>>

Tick ==
  /\ now < MaxTime
  /\ now' = now + 1
  /\ UNCHANGED <<tokenVars, revoked, pending, req, historyVars>>

-----------------------------------------------------------------------------
\* The statements a running request executes; Insert is kept apart because
\* it alone can wait.
Statement(p) ==
  \/ CheckFamily(p)
  \/ CheckJti(p)
  \/ FindJti(p)
  \/ FindFamily(p)
  \/ \E t \in Token : IssueAndCommit(p, t)
  \/ CommitRevocation(p)

Thread(p) ==
  \/ \E t \in Token : StartRefresh(p, t) \/ StartLogout(p, t)
  \/ Statement(p)
  \/ InsertJti(p)
  \/ InsertFamily(p)
  \/ Abort(p)

Next ==
  \/ \E t \in Token, f \in Family : Login(t, f)
  \/ \E p \in Proc : Thread(p)
  \/ Prune
  \/ Tick

Spec == Init /\ [][Next]_vars

\* A thread keeps running its request, and PostgreSQL wakes a waiting INSERT
\* when the transaction it waits for ends.
\* In a model whose Token is exhausted a refresh that cannot issue gives up.
Fairness ==
  \A p \in Proc :
    /\ WF_vars(Statement(p))
    /\ SF_vars(InsertJti(p) \/ InsertFamily(p))
    /\ WF_vars(At(p, "issue") /\ (\A t \in Token : Issued(t)) /\ Abort(p))

FairSpec == Spec /\ Fairness

-----------------------------------------------------------------------------
\* A token that was rotated or logged out stays on the denylist until it has
\* expired by itself: the prune job never forgets a token that could still
\* be presented (RevokedTokenDao.prune_expired), and no request overwrites
\* its row with an earlier expiry.
SpentTokensStayDenied ==
  \A t \in Token :
    (t \in ended \/ \E c \in Token : parent[c] = t) =>
      HasRow(t) \/ exp[t] < now

\* Revocation against concurrent refreshes (AuthFacade.refresh checks the
\* denylist and only later issues): a refresh is about to issue a token only
\* if every row that denied its token when the request began has expired
\* since, so only a revocation committed DURING the request can be missed.
RevocationSeenByLaterRefresh ==
  \A p \in Proc : At(p, "issue") => \A e \in req[p].denials : e < now

\* After a logout or a reuse the family has no live token, unless a token
\* of that family that revoked it has already expired.
BurnedFamilyIsDead ==
  \A b \in burnedBy :
    \/ \A t \in Token : fam[t] = fam[b] => ~Live(t)
    \/ \E s \in burnedBy : fam[s] = fam[b] /\ exp[s] < now

\* Every request is answered: the two unique-index waits of logout (token
\* row, then family marker) and the single ones of refresh never deadlock.
RequestsFinish == \A p \in Proc : ~At(p, "idle") ~> At(p, "idle")
=============================================================================
