------------------------------- MODULE SignIn -------------------------------
(***************************************************************************)
(* Password sign-in with account lockout, as AuthFacade.login does it in   *)
(* customer-service (and AdminAuthFacade.login, statement for statement,   *)
(* in admin-service): failures are rows of the append-only audit_log; an   *)
(* attempt first reads the time of the last unlock, then counts the rows   *)
(* of the window, and only then looks at the password.  Every statement is *)
(* an action, because each request has a thread and a session of its own.  *)
(*                                                                         *)
(* Time is relative: age[f] is how long ago the row f was written.  A row  *)
(* too old to be counted by any request is forgotten and its name free.    *)
(***************************************************************************)
EXTENDS Naturals, FiniteSets

CONSTANTS
  Account,     \* rows of customers (or admin_users)
  Client,      \* request threads
  Failure,     \* names of the audit rows "login.failure"
  Threshold,   \* login_lockout_threshold
  Window,      \* login_lockout_window_minutes, in ticks
  MaxSlack,    \* bound: ticks between two statements of one request
  None         \* no account

ASSUME ThresholdAssumption == Threshold \in Nat \ {0}
ASSUME WindowAssumption == Window \in Nat \ {0}
ASSUME SlackAssumption == MaxSlack \in Nat
ASSUME NoAccountAssumption == None \notin Account
ASSUME FiniteAssumption == IsFiniteSet(Failure) /\ IsFiniteSet(Client)

VARIABLES
  of,        \* of[f]: the account the failure f was recorded for
  age,       \* age[f]: ticks since then
  cleared,   \* failures that an unlock came after
  login      \* login[p]: the sign-in p runs

vars == <<of, age, cleared, login>>

\* A sign-in: next statement, account, the failures older than the unlock it
\* has read, the ticks since it computed the start of the window, and
\* (history) the failures already cleared when it began.
Attempt == [step: {"idle", "floor", "count", "verify"},
            acct: Account \cup {None}, skip: SUBSET Failure,
            slack: 0..MaxSlack, seen: SUBSET Failure]
Idle == [step |-> "idle", acct |-> None, skip |-> {}, slack |-> 0, seen |-> {}]

Oldest == Window + MaxSlack

TypeOK ==
  /\ of \in [Failure -> Account \cup {None}]
  /\ age \in [Failure -> 0..Oldest]
  /\ cleared \in SUBSET Failure
  /\ login \in [Client -> Attempt]

Init ==
  /\ of = [f \in Failure |-> None]
  /\ age = [f \in Failure |-> 0]
  /\ cleared = {}
  /\ login = [p \in Client |-> Idle]

-----------------------------------------------------------------------------
At(p, s) == login[p].step = s
Answer(p) == login' = [login EXCEPT ![p] = Idle]

Rows(a) == {f \in Failure : of[f] = a}    \* Rows(None): the free names

\* What a count made now, without delay, would find.
Recent(a) == {f \in Rows(a) \ cleared : age[f] <= Window}
Locked(a) == Cardinality(Recent(a)) >= Threshold

\* AuditDao.count_recent with the window and the floor that p computed.
Counted(p) == {f \in Rows(login[p].acct) \ login[p].skip :
                 age[f] <= Window + login[p].slack}

\* login: get_by_email found the account.  (Of an unknown e-mail nothing is
\* counted: its failures have no actor_id.)
Begin(p, a) ==
  /\ At(p, "idle")
  /\ login' = [login EXCEPT ![p] =
                 [Idle EXCEPT !.step = "floor", !.acct = a, !.seen = cleared]]
  /\ UNCHANGED <<of, age, cleared>>

\* Mutant of ReadFloor: the unlock events are not asked for.
ReadNoFloor(p) ==
  /\ At(p, "floor")
  /\ login' = [login EXCEPT ![p].step = "count"]
  /\ UNCHANGED <<of, age, cleared>>

\* since := now - window, or the last unlock when that is later.
ReadFloor(p) ==
  /\ At(p, "floor")
  /\ login' = [login EXCEPT ![p].step = "count", ![p].skip = cleared]
  /\ UNCHANGED <<of, age, cleared>>

\* Mutant of TooMany: > instead of >=.
OneTooMany(n) == n > Threshold

TooMany(n) == n >= Threshold

\* Mutant of TurnAway: the knock is recorded as another failure.
TurnAwayAsFailure(p) ==
  LET f == CHOOSE x \in Failure : of[x] = None IN
  /\ Answer(p)
  /\ of' = IF Rows(None) = {} THEN of ELSE [of EXCEPT ![f] = login[p].acct]
  /\ UNCHANGED <<age, cleared>>

\* Answered "locked"; the row login.locked that is committed counts nowhere.
TurnAway(p) == Answer(p) /\ UNCHANGED <<of, age, cleared>>

\* Too many failures: locked; else the password is looked at.
CountFailures(p) ==
  /\ At(p, "count")
  /\ IF TooMany(Cardinality(Counted(p)))
       THEN TurnAway(p)
       ELSE /\ login' = [login EXCEPT ![p] = [Idle EXCEPT !.step = "verify",
                                             !.acct = login[p].acct]]
            /\ UNCHANGED <<of, age, cleared>>

\* Wrong password: the audit row, under any free name, and its commit.
Fail(p) ==
  LET f == CHOOSE x \in Failure : of[x] = None IN
  /\ At(p, "verify")
  /\ Rows(None) # {}
  /\ of' = [of EXCEPT ![f] = login[p].acct]
  /\ Answer(p)
  /\ UNCHANGED <<age, cleared>>

\* Right password: a token pair is issued.
Succeed(p) ==
  /\ At(p, "verify")
  /\ Answer(p)
  /\ UNCHANGED <<of, age, cleared>>

\* The thread is gone (restart, database error): nothing was committed.
Abort(p) ==
  /\ ~At(p, "idle")
  /\ Answer(p)
  /\ UNCHANGED <<of, age, cleared>>

\* unlock_account: the rows stay, the floor moves.
Unlock(a) ==
  /\ cleared' = cleared \cup Rows(a)
  /\ UNCHANGED <<of, age, login>>

\* Time passes; rows beyond every window are forgotten.
Tick ==
  LET old == {f \in Failure : of[f] # None /\ age[f] = Oldest} IN
  /\ \A p \in Client : At(p, "count") => login[p].slack < MaxSlack
  /\ of' = [f \in Failure |-> IF f \in old THEN None ELSE of[f]]
  /\ age' = [f \in Failure |-> IF of'[f] = None THEN 0 ELSE age[f] + 1]
  /\ cleared' = cleared \ old
  /\ login' = [p \in Client |->
       [login[p] EXCEPT !.slack = IF At(p, "count") THEN @ + 1 ELSE @,
                        !.skip = @ \ old, !.seen = @ \ old]]

Step(p) ==
  \/ ReadFloor(p)
  \/ CountFailures(p)
  \/ Fail(p)
  \/ Succeed(p)

Next ==
  \/ \E p \in Client, a \in Account : Begin(p, a)
  \/ \E p \in Client : Step(p) \/ Abort(p)
  \/ \E a \in Account : Unlock(a)
  \/ Tick

Spec == Init /\ [][Next]_vars

\* Time passes, and a thread that started a request carries it on.
FairSpec == Spec /\ WF_vars(Tick)
                 /\ \A p \in Client : WF_vars(Step(p))

-----------------------------------------------------------------------------
InFlight(a) == {p \in Client : At(p, "verify") /\ login[p].acct = a}

\* The count and the row of a failure are two statements: concurrent attempts
\* may all pass the count.  Yet in any window, since the last unlock, there
\* are fewer than Threshold wrong passwords plus one per concurrent thread.
GuessesBounded ==
  \A a \in Account :
    Cardinality(Recent(a)) < Threshold + Cardinality(Client)

\* While an account is locked and no attempt that was counted before is still
\* on its way, no failure is recorded for it: knocking does not prolong the
\* lock.
LockNotProlonged ==
  [][\A a \in Account :
       Locked(a) /\ InFlight(a) = {} => Rows(a)' \subseteq Rows(a)]_vars

\* What an attempt is turned away for was recorded after every unlock that
\* came before the attempt, however stale the time and the floor it counts with.
UnlockHeeded ==
  \A p \in Client : At(p, "count") => Counted(p) \cap login[p].seen = {}

\* "auto-unlocks as failures age out of the window": a locked account does
\* not stay locked.
LockEnds == \A a \in Account : Locked(a) ~> ~Locked(a)
=============================================================================
