------------------------------ MODULE Accounts ------------------------------
(***************************************************************************)
(* Customer accounts: AuthFacade.signup, login, request_password_reset,    *)
(* reset_password, send_verification_email and verify_email, and the admin *)
(* unlock.  The state and the steps of sign-in are those of SignIn, driven *)
(* here by accounts that come into being and by their passwords; that it   *)
(* is then still what SignIn specifies is a property.                      *)
(*                                                                         *)
(* A mailed link is a JWT that is to work once: its jti is looked up in    *)
(* revoked_tokens first and inserted there with the effect.  Those are two *)
(* statements of one transaction, and other requests come in between.  The *)
(* flushed INSERT or UPDATE and the COMMIT are one action: what is flushed *)
(* is invisible, and UNIQUE and row locks make others wait for the commit. *)
(***************************************************************************)
EXTENDS SignIn

CONSTANTS
  Password,
  Link,        \* jti claims of action tokens
  LinkLife     \* password_reset_expire_minutes and email_verify_..., in ticks

ASSUME LinkLifeAssumption == LinkLife \in Nat \ {0}

VARIABLES
  right,    \* right[p]: the sign-in of p presented the password it has read
  acct,     \* acct[c]: committed row of customers
  link,     \* link[l]: claims of an issued link
  left,     \* left[l]: ticks until its exp claim
  inbox,    \* links whose e-mail was delivered
  used,     \* rows of revoked_tokens, by jti
  req,      \* req[p]: another request of p
  uses      \* history: how often the effect of a link was committed

signInVars == <<of, age, cleared, login, right>>
linkVars   == <<link, left, inbox>>
accountVars == <<of, age, cleared, login, right, acct, link, left, inbox, used,
                 req, uses>>

Profile == [pw: Password, verified: BOOLEAN]
Claims  == [typ: {"pwd_reset", "email_verify"}, cust: Account]

ASSUME NoneAssumption == None \notin Profile \cup Claims

\* A request: next step, operation, customer, new password, link, and
\* (history) how often the link had been used when the request began.
Request == [step: {"idle", "create", "load", "revoke", "update"},
            op: {"none", "signup", "pwd_reset", "email_verify"},
            cust: Account \cup {None}, pw: Password \cup {None},
            lnk: Link \cup {None}, before: Nat]
NoRequest == [step |-> "idle", op |-> "none", cust |-> None, pw |-> None,
              lnk |-> None, before |-> 0]

AccountsTypeOK ==
  /\ TypeOK
  /\ right \in [Client -> BOOLEAN]
  /\ acct \in [Account -> Profile \cup {None}]
  /\ link \in [Link -> Claims \cup {None}]
  /\ left \in [Link -> 0..LinkLife]
  /\ inbox \in SUBSET Link
  /\ used \in SUBSET Link
  /\ req \in [Client -> Request]
  /\ uses \in [Link -> Nat]

AccountsInit ==
  /\ Init
  /\ right = [p \in Client |-> FALSE]
  /\ acct = [c \in Account |-> None]
  /\ link = [l \in Link |-> None]
  /\ left = [l \in Link |-> 0]
  /\ inbox = {}
  /\ used = {}
  /\ req = [p \in Client |-> NoRequest]
  /\ uses = [l \in Link |-> 0]

-----------------------------------------------------------------------------
Free(p)       == req[p] = NoRequest /\ At(p, "idle")
Doing(p, s)   == req[p].step = s
Exists(c)     == acct[c] # None
Decodes(l)    == left[l] > 0
Goto(p, s)    == req' = [req EXCEPT ![p].step = s]
Respond(p)    == req' = [req EXCEPT ![p] = NoRequest]

\* signup: get_by_email found nobody.
StartSignup(p, c, pw) ==
  /\ Free(p)
  /\ ~Exists(c)
  /\ req' = [req EXCEPT ![p] =
       [NoRequest EXCEPT !.step = "create", !.op = "signup", !.cust = c,
                         !.pw = pw]]
  /\ UNCHANGED <<signInVars, acct, linkVars, used, uses>>

\* signup: the INSERT, refused (500) when the e-mail is taken by now; the
\* default preferences and the audit row go with it.
CreateCustomer(p) ==
  LET c == req[p].cust IN
  /\ Doing(p, "create")
  /\ acct' = IF Exists(c) THEN acct
             ELSE [acct EXCEPT ![c] = [pw |-> req[p].pw, verified |-> FALSE]]
  /\ Respond(p)
  /\ UNCHANGED <<signInVars, linkVars, used, uses>>

-----------------------------------------------------------------------------
\* EmailService.send: never an error, and perhaps no e-mail.
Send(l) == inbox' \in {inbox, inbox \cup {l}}

\* A token of the given type for customer c, and its e-mail.
MailLink(l, c, typ) ==
  /\ Exists(c)
  /\ link[l] = None
  /\ link' = [link EXCEPT ![l] = [typ |-> typ, cust |-> c]]
  /\ left' = [left EXCEPT ![l] = LinkLife]
  /\ Send(l)
  /\ UNCHANGED <<signInVars, acct, used, req, uses>>

\* request_password_reset: anybody may ask for it.
ForgotPassword(l, c) == MailLink(l, c, "pwd_reset")

SendVerification(l, c) ==
  /\ Exists(c) /\ ~acct[c].verified
  /\ MailLink(l, c, "email_verify")

\* Mutant of ConsumeToken: the denylist is not asked.
ConsumeUsedToken(l, typ) == l \in inbox /\ Decodes(l) /\ link[l].typ = typ

\* _consume_token: a delivered, unexpired link of this type with no row.
ConsumeToken(l, typ) ==
  /\ l \in inbox
  /\ Decodes(l)
  /\ link[l].typ = typ
  /\ l \notin used

UseLink(p, l, typ, pw) ==
  /\ Free(p)
  /\ ConsumeToken(l, typ)
  /\ req' = [req EXCEPT ![p] =
       [step |-> "load", op |-> typ, cust |-> link[l].cust, pw |-> pw,
        lnk |-> l, before |-> uses[l]]]
  /\ UNCHANGED <<signInVars, acct, linkVars, used, uses>>

StartReset(p, l, pw) == UseLink(p, l, "pwd_reset", pw)
StartVerify(p, l)    == UseLink(p, l, "email_verify", None)

\* The customer is loaded and revoke looks whether the jti is there already.
FindRevoked(p) ==
  /\ Doing(p, "load")
  /\ Goto(p, IF req[p].lnk \in used THEN "update" ELSE "revoke")
  /\ UNCHANGED <<signInVars, acct, linkVars, used, uses>>

\* Mutant of Applied: the loaded row is written back with every column.
AppliedToRow(p, row) ==
  IF req[p].op = "pwd_reset" THEN [pw |-> req[p].pw, verified |-> FALSE]
                             ELSE [row EXCEPT !.verified = TRUE]

\* Only the changed column is part of the UPDATE.
Applied(p, row) ==
  IF req[p].op = "pwd_reset" THEN [row EXCEPT !.pw = req[p].pw]
                             ELSE [row EXCEPT !.verified = TRUE]

\* UPDATE customers, INSERT revoked_tokens (if no row was seen), COMMIT; when
\* the row is there by now, UNIQUE refuses it and all is rolled back.
CommitLink(p) ==
  LET c == req[p].cust
      l == req[p].lnk IN
  /\ Doing(p, "revoke") \/ Doing(p, "update")
  /\ IF Doing(p, "revoke") /\ l \in used
       THEN UNCHANGED <<acct, used, uses>>
       ELSE /\ acct' = [acct EXCEPT ![c] = Applied(p, acct[c])]
            /\ used' = used \cup {l}
            /\ uses' = [uses EXCEPT ![l] = @ + 1]
  /\ Respond(p)
  /\ UNCHANGED <<signInVars, linkVars>>

\* RevokedTokenDao.prune_expired.
Prune ==
  /\ used' = {l \in used : Decodes(l)}
  /\ UNCHANGED <<signInVars, acct, linkVars, req, uses>>

-----------------------------------------------------------------------------
StartLogin(p, c, pw) ==
  /\ Free(p)
  /\ Exists(c)
  /\ Begin(p, c)
  /\ right' = [right EXCEPT ![p] = (pw = acct[c].pw)]
  /\ UNCHANGED <<acct, linkVars, used, req, uses>>

\* verify_password, against the hash that get_by_email read.
CheckPassword(p) ==
  /\ IF right[p] THEN Succeed(p) ELSE Fail(p)
  /\ right' = [right EXCEPT ![p] = FALSE]
  /\ UNCHANGED <<acct, linkVars, used, req, uses>>

\* The statements of login before the password is looked at.
LoginStep(p) ==
  /\ ReadFloor(p) \/ CountFailures(p)
  /\ right' = [right EXCEPT ![p] = @ /\ login'[p] # Idle]
  /\ UNCHANGED <<acct, linkVars, used, req, uses>>

\* Mutant of UnlockAccount: the recorded failures are deleted instead.
UnlockByDeleting(c) ==
  /\ Exists(c)
  /\ of' = [f \in Failure |-> IF of[f] = c THEN None ELSE of[f]]
  /\ age' = [f \in Failure |-> IF of[f] = c THEN 0 ELSE age[f]]
  /\ UNCHANGED <<cleared, login, right, acct, linkVars, used, req, uses>>

\* POST /internal/customers/{id}/unlock, from admin-service.
UnlockAccount(c) ==
  /\ Exists(c)
  /\ Unlock(c)
  /\ UNCHANGED <<right, acct, linkVars, used, req, uses>>

\* A thread is gone: its transaction is rolled back.
AbortRequest(p) ==
  /\ \/ Abort(p) /\ UNCHANGED req
     \/ req[p] # NoRequest /\ Respond(p) /\ UNCHANGED vars
  /\ right' = [right EXCEPT ![p] = FALSE]
  /\ UNCHANGED <<acct, linkVars, used, uses>>

TickLinks ==
  /\ Tick
  /\ left' = [l \in Link |-> IF left[l] = 0 THEN 0 ELSE left[l] - 1]
  /\ UNCHANGED <<right, acct, link, inbox, used, req, uses>>

AccountsNext ==
  \/ \E p \in Client, c \in Account, pw \in Password :
       StartSignup(p, c, pw) \/ StartLogin(p, c, pw)
  \/ \E l \in Link, c \in Account : ForgotPassword(l, c) \/ SendVerification(l, c)
  \/ \E p \in Client, l \in Link, pw \in Password : StartReset(p, l, pw)
  \/ \E p \in Client, l \in Link : StartVerify(p, l)
  \/ \E p \in Client : \/ CreateCustomer(p) \/ FindRevoked(p) \/ CommitLink(p)
                       \/ LoginStep(p) \/ CheckPassword(p) \/ AbortRequest(p)
  \/ \E c \in Account : UnlockAccount(c)
  \/ Prune
  \/ TickLinks

AccountsSpec == AccountsInit /\ [][AccountsNext]_accountVars

-----------------------------------------------------------------------------
\* "Single-use: revoke the reset token's jti so the link can't be replayed":
\* no request gets past the check with a link whose effect was committed
\* before the request began, also after the row was pruned.  (Two requests
\* that overlap may both succeed, see FindRevoked.)
UsedLinkIsDead ==
  \A p \in Client : req[p].lnk # None => req[p].before = 0

\* What a signup created only its own mailed links change: no other signup
\* replaces it, a password is changed with a reset link of this customer and
\* nothing else, and no reset takes back a verification committed meanwhile.
ChangedByOwnLink ==
  [][\A c \in Account : Exists(c) /\ acct'[c] # acct[c] =>
       \E l \in Link :
         /\ uses'[l] > uses[l] /\ link[l].cust = c
         /\ acct'[c] = [acct[c] EXCEPT
              !.verified = @ \/ link[l].typ = "email_verify",
              !.pw = IF link[l].typ = "pwd_reset" THEN acct'[c].pw ELSE @]]_accountVars

\* The accounts' sign-in does what SignIn promises: its guarantees
\* (GuessesBounded and the others) hold for customers, too.
SignInAsSpecified == Spec
=============================================================================
