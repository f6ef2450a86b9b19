--------------------------- MODULE AccountsProofs ---------------------------
(***************************************************************************)
(* Proofs about SignIn, for any accounts, threads, threshold, window and   *)
(* slack; and about Accounts, for any customers, threads, passwords and    *)
(* links: it implements SignIn, so what is proved of SignIn is true of it, *)
(* a used link is dead, and rows change only by their own links.           *)
(*                                                                         *)
(* That the guesses are bounded is not inductive: an attempt on its way to *)
(* a verdict is a guess to come.  With these counted in it is, since what  *)
(* an attempt counts contains what has failed recently (FloorsAreOld).     *)
(*                                                                         *)
(* A used link stays dead although its row is pruned because a link that   *)
(* was used is denied by its row or by its age (UsedIsDenied); a link's    *)
(* effect falls on its own customer because a request keeps the claims     *)
(* that it decoded (RequestShape).                                         *)
(***************************************************************************)
EXTENDS Accounts, FiniteSetTheorems, TLAPS

-----------------------------------------------------------------------------
(* Sign-in                                                                 *)

\* The floor an attempt has read is not later than the last unlock, and not
\* earlier than the last one before the attempt.
FloorsAreOld ==
  \A p \in Client :
    /\ login[p].skip \subseteq cleared
    /\ login[p].seen \subseteq cleared
    /\ At(p, "count") => login[p].seen \subseteq login[p].skip

\* The guesses made and under way are fewer than the threshold and one for
\* each thread.
GuessesToCome ==
  \A a \in Account :
    Cardinality(Recent(a)) + Cardinality(InFlight(a))
      < Threshold + Cardinality(Client)

SignInInv == TypeOK /\ FloorsAreOld

-----------------------------------------------------------------------------
LEMMA IdleType == Idle \in Attempt
BY SlackAssumption DEF Idle, Attempt

LEMMA InitSignIn == Init => SignInInv
<1> SUFFICES ASSUME Init PROVE SignInInv
  OBVIOUS
<1>1. Oldest \in Nat
  BY WindowAssumption, SlackAssumption DEF Oldest
<1>2. TypeOK
  BY <1>1, IdleType DEF Init, TypeOK
<1>3. FloorsAreOld
  BY DEF Init, FloorsAreOld, At, Idle
<1> QED
  BY <1>2, <1>3 DEF SignInInv

\* An attempt that moves on.
LEMMA LoginKept ==
  ASSUME SignInInv, NEW p \in Client, NEW q \in Attempt, login' = [login EXCEPT ![p] = q],
         of' \in [Failure -> Account \cup {None}], UNCHANGED <<age, cleared>>,
         q.skip \subseteq cleared, q.seen \subseteq cleared,
         q.step = "count" => q.seen \subseteq q.skip
  PROVE  SignInInv'
<1>1. TypeOK'
  BY DEF SignInInv, TypeOK
<1>2. FloorsAreOld'
  <2> SUFFICES ASSUME NEW x \in Client
               PROVE  /\ login'[x].skip \subseteq cleared
                      /\ login'[x].seen \subseteq cleared
                      /\ login'[x].step = "count" => login'[x].seen \subseteq login'[x].skip
    BY DEF FloorsAreOld, At
  <2>1. CASE x = p
    BY <2>1 DEF SignInInv, TypeOK
  <2>2. CASE x # p
    BY <2>2 DEF SignInInv, TypeOK, FloorsAreOld, At
  <2> QED
    BY <2>1, <2>2
<1> QED
  BY <1>1, <1>2 DEF SignInInv

LEMMA AnswerKept ==
  ASSUME SignInInv, NEW p \in Client, Answer(p),
         of' \in [Failure -> Account \cup {None}], UNCHANGED <<age, cleared>>
  PROVE  SignInInv'
<1>1. /\ login' = [login EXCEPT ![p] = Idle]
      /\ Idle.step = "idle" /\ Idle.skip = {} /\ Idle.seen = {}
  BY DEF Answer, Idle
<1> QED
  BY <1>1, IdleType, LoginKept

LEMMA BeginKept ==
  ASSUME SignInInv, NEW p \in Client, NEW a \in Account, Begin(p, a)
  PROVE  SignInInv'
<1> DEFINE q == [Idle EXCEPT !.step = "floor", !.acct = a, !.seen = cleared]
<1>1. cleared \in SUBSET Failure /\ of \in [Failure -> Account \cup {None}]
  BY DEF SignInInv, TypeOK
<1>2. /\ q \in Attempt /\ q.step = "floor" /\ q.skip = {} /\ q.seen = cleared
  BY <1>1, IdleType DEF Idle, Attempt
<1>3. login' = [login EXCEPT ![p] = q] /\ UNCHANGED <<of, age, cleared>>
  BY DEF Begin
<1> HIDE DEF q
<1> QED
  BY <1>1, <1>2, <1>3, LoginKept

LEMMA ReadFloorKept ==
  ASSUME SignInInv, NEW p \in Client, ReadFloor(p)
  PROVE  SignInInv'
<1> DEFINE q == [login[p] EXCEPT !.step = "count", !.skip = cleared]
<1>1. /\ cleared \in SUBSET Failure /\ of \in [Failure -> Account \cup {None}]
      /\ login[p] \in Attempt /\ login[p].seen \subseteq cleared
  BY DEF SignInInv, TypeOK, FloorsAreOld
<1>2. q \in Attempt /\ q.skip = cleared /\ q.seen = login[p].seen
  BY <1>1 DEF Attempt
<1>3. login' = [login EXCEPT ![p] = q] /\ UNCHANGED <<of, age, cleared>>
  BY DEF ReadFloor
<1> HIDE DEF q
<1> QED
  BY <1>1, <1>2, <1>3, LoginKept

LEMMA CountFailuresKept ==
  ASSUME SignInInv, NEW p \in Client, CountFailures(p)
  PROVE  SignInInv'
<1> DEFINE q == [Idle EXCEPT !.step = "verify", !.acct = login[p].acct]
<1>1. of \in [Failure -> Account \cup {None}] /\ login[p] \in Attempt
  BY DEF SignInInv, TypeOK
<1>2. UNCHANGED <<of, age, cleared>> /\ (Answer(p) \/ login' = [login EXCEPT ![p] = q])
  BY DEF CountFailures, TurnAway
<1>3. q \in Attempt /\ q.step = "verify" /\ q.skip = {} /\ q.seen = {}
  BY <1>1, IdleType DEF Idle, Attempt
<1> HIDE DEF q
<1> QED
  BY <1>1, <1>2, <1>3, AnswerKept, LoginKept

LEMMA FailKept ==
  ASSUME SignInInv, NEW p \in Client, Fail(p)
  PROVE  SignInInv'
<1> DEFINE f == CHOOSE x \in Failure : of[x] = None
<1>1. /\ of \in [Failure -> Account \cup {None}]
      /\ login[p].acct \in Account \cup {None}
  BY DEF SignInInv, TypeOK, Attempt
<1>2. of' = [of EXCEPT ![f] = login[p].acct] /\ Answer(p) /\ UNCHANGED <<age, cleared>>
  BY DEF Fail
<1> HIDE DEF f
<1> QED
  BY <1>1, <1>2, AnswerKept

LEMMA SignInTickKept ==
  ASSUME SignInInv, Tick
  PROVE  SignInInv'
<1> DEFINE old == {f \in Failure : of[f] # None /\ age[f] = Oldest}
<1>1. /\ of \in [Failure -> Account \cup {None}] /\ age \in [Failure -> 0..Oldest]
      /\ cleared \in SUBSET Failure /\ login \in [Client -> Attempt]
      /\ Oldest \in Nat
  BY WindowAssumption, SlackAssumption DEF SignInInv, TypeOK, Oldest
<1>2. /\ \A p \in Client : At(p, "count") => login[p].slack < MaxSlack
      /\ of' = [f \in Failure |-> IF f \in old THEN None ELSE of[f]]
      /\ age' = [f \in Failure |-> IF of'[f] = None THEN 0 ELSE age[f] + 1]
      /\ cleared' = cleared \ old
      /\ login' = [p \in Client |->
           [login[p] EXCEPT !.slack = IF At(p, "count") THEN @ + 1 ELSE @,
                            !.skip = @ \ old, !.seen = @ \ old]]
  BY DEF Tick
<1>3. ASSUME NEW f \in Failure, of'[f] # None
      PROVE  age[f] + 1 \in 0..Oldest
  <2>1. of[f] # None /\ f \notin old
    BY <1>2, <1>3
  <2>2. age[f] \in 0..Oldest /\ age[f] # Oldest
    BY <1>1, <2>1
  <2> QED
    BY <1>1, <2>2
<1> HIDE DEF old
<1>4. of' \in [Failure -> Account \cup {None}] /\ cleared' \in SUBSET Failure
  BY <1>1, <1>2
<1>5. age' \in [Failure -> 0..Oldest]
  <2>1. 0 \in 0..Oldest
    BY <1>1
  <2> QED
    BY <1>2, <1>3, <2>1
<1>6. \A p \in Client :
        /\ login'[p] \in Attempt /\ login'[p].step = login[p].step
        /\ login'[p].skip = login[p].skip \ old
        /\ login'[p].seen = login[p].seen \ old
  <2> SUFFICES ASSUME NEW p \in Client
               PROVE  /\ login'[p] \in Attempt /\ login'[p].step = login[p].step
                      /\ login'[p].skip = login[p].skip \ old
                      /\ login'[p].seen = login[p].seen \ old
    OBVIOUS
  <2> DEFINE s == IF At(p, "count") THEN login[p].slack + 1 ELSE login[p].slack
  <2>1. login[p] \in Attempt
    BY <1>1
  <2>2. s \in 0..MaxSlack
    <3>1. login[p].slack \in 0..MaxSlack
      BY <2>1 DEF Attempt
    <3>2. At(p, "count") => login[p].slack < MaxSlack
      BY <1>2
    <3> QED
      BY <3>1, <3>2, SlackAssumption
  <2>3. login'[p] = [login[p] EXCEPT !.slack = s, !.skip = @ \ old, !.seen = @ \ old]
    BY <1>2
  <2> HIDE DEF s
  <2> QED
    BY <2>1, <2>2, <2>3 DEF Attempt
<1>7. login' \in [Client -> Attempt]
  BY <1>2, <1>6
<1>8. FloorsAreOld'
  BY <1>2, <1>6 DEF SignInInv, FloorsAreOld, At
<1> QED
  BY <1>4, <1>5, <1>7, <1>8 DEF SignInInv, TypeOK

LEMMA NextSignIn == SignInInv /\ [Next]_vars => SignInInv'
<1> SUFFICES ASSUME SignInInv, [Next]_vars PROVE SignInInv'
  OBVIOUS
<1>1. of \in [Failure -> Account \cup {None}]
  BY DEF SignInInv, TypeOK
<1>2. ASSUME NEW p \in Client, Step(p) \/ Abort(p)
      PROVE  SignInInv'
  BY <1>1, <1>2, ReadFloorKept, CountFailuresKept, FailKept, AnswerKept
     DEF Step, Succeed, Abort
<1>3. ASSUME NEW a \in Account, Unlock(a)
      PROVE  SignInInv'
  BY <1>3 DEF Unlock, SignInInv, TypeOK, FloorsAreOld, At, Rows
<1>4. CASE UNCHANGED vars
  BY <1>4 DEF vars, SignInInv, TypeOK, FloorsAreOld, At
<1> QED
  BY <1>2, <1>3, <1>4, BeginKept, SignInTickKept DEF Next

\* Every reachable state has the types declared (login, unlock_account).
THEOREM SignInTypes == Spec => []TypeOK
<1>1. SignInInv => TypeOK
  BY DEF SignInInv
<1> QED
  BY <1>1, InitSignIn, NextSignIn, PTL DEF Spec

\* A customer who was unlocked is not turned away for failures before it.
THEOREM Heeded == Spec => []UnlockHeeded
<1>1. SignInInv => UnlockHeeded
  BY DEF SignInInv, FloorsAreOld, UnlockHeeded, Counted
<1> QED
  BY <1>1, InitSignIn, NextSignIn, PTL DEF Spec

\* Knocking on a locked account does not prolong the lock.
THEOREM NotProlonged == Spec => LockNotProlonged
<1> DEFINE A == \A a \in Account :
                  Locked(a) /\ InFlight(a) = {} => Rows(a)' \subseteq Rows(a)
<1>1. SignInInv /\ [Next]_vars => [A]_vars
  <2> SUFFICES ASSUME SignInInv, Next, NEW a \in Account, InFlight(a) = {}
               PROVE  Rows(a)' \subseteq Rows(a)
    OBVIOUS
  <2>1. a # None
    BY NoAccountAssumption
  <2>2. ASSUME NEW p \in Client, Fail(p)
        PROVE  Rows(a)' \subseteq Rows(a)
    <3>1. login[p].acct # a
      BY <2>2 DEF Fail, InFlight
    <3> QED
      BY <2>2, <3>1 DEF Fail, Rows, SignInInv, TypeOK
  <2>3. CASE Tick
    BY <2>1, <2>3 DEF Tick, Rows
  <2>4. CASE UNCHANGED of
    BY <2>4 DEF Rows
  <2> QED
    BY <2>2, <2>3, <2>4
       DEF Next, Step, Begin, ReadFloor, CountFailures, TurnAway,
           Succeed, Abort, Unlock
<1> QED
  BY <1>1, InitSignIn, NextSignIn, PTL DEF Spec, LockNotProlonged

-----------------------------------------------------------------------------
(* How many guesses pass                                                   *)

LEMMA Finiteness ==
  ASSUME NEW a
  PROVE  /\ IsFiniteSet(Recent(a)) /\ Cardinality(Recent(a)) \in Nat
         /\ IsFiniteSet(InFlight(a)) /\ Cardinality(InFlight(a)) \in Nat
         /\ Cardinality(InFlight(a)) <= Cardinality(Client)
         /\ Cardinality(Client) \in Nat
<1>1. Recent(a) \subseteq Failure /\ InFlight(a) \subseteq Client
  BY DEF Recent, Rows, InFlight
<1> QED
  BY <1>1, FiniteAssumption, FS_Subset, FS_CardinalityType

\* Fewer guesses are no more.
LEMMA Fewer ==
  ASSUME NEW a \in Account, GuessesToCome,
         Recent(a)' \subseteq Recent(a), InFlight(a)' \subseteq InFlight(a)
  PROVE  Cardinality(Recent(a)') + Cardinality(InFlight(a)')
           < Threshold + Cardinality(Client)
<1>1. /\ Cardinality(Recent(a)') \in Nat
      /\ Cardinality(Recent(a)') <= Cardinality(Recent(a))
      /\ Cardinality(InFlight(a)') \in Nat
      /\ Cardinality(InFlight(a)') <= Cardinality(InFlight(a))
  BY Finiteness, FS_Subset, FS_CardinalityType
<1>2. Cardinality(Recent(a)) + Cardinality(InFlight(a)) < Threshold + Cardinality(Client)
  BY DEF GuessesToCome
<1> QED
  BY <1>1, <1>2, Finiteness, ThresholdAssumption

\* An attempt that is let through has counted what has failed recently.
LEMMA LetThrough ==
  ASSUME SignInInv, NEW p \in Client, CountFailures(p),
         NEW a \in Account, login[p].acct = a, GuessesToCome
  PROVE  Cardinality(Recent(a)') + Cardinality(InFlight(a)')
           < Threshold + Cardinality(Client)
<1>1. login \in [Client -> Attempt] /\ UNCHANGED <<of, age, cleared>>
  BY DEF SignInInv, TypeOK, CountFailures, TurnAway
<1>2. Recent(a)' = Recent(a)
  BY <1>1 DEF Recent, Rows
<1>3. CASE TooMany(Cardinality(Counted(p)))
  <2>1. InFlight(a)' \subseteq InFlight(a)
    BY <1>1, <1>3
       DEF CountFailures, TurnAway, Answer, InFlight, At, Idle
  <2> QED
    BY <1>2, <2>1, Fewer
<1>4. CASE ~TooMany(Cardinality(Counted(p)))
  <2>1. Recent(a) \subseteq Counted(p) /\ Counted(p) \subseteq Failure
    <3>1. login[p].skip \subseteq cleared /\ login[p].slack \in Nat
      BY <1>1, SlackAssumption DEF SignInInv, FloorsAreOld, Attempt
    <3>2. \A f \in Failure : age[f] \in Nat
      BY WindowAssumption, SlackAssumption DEF SignInInv, TypeOK, Oldest
    <3> QED
      BY <3>1, <3>2, WindowAssumption DEF Recent, Counted, Rows
  <2>2. IsFiniteSet(Counted(p)) /\ Cardinality(Counted(p)) \in Nat
    BY <2>1, FiniteAssumption, FS_Subset, FS_CardinalityType
  <2>3. Cardinality(Recent(a)) <= Cardinality(Counted(p))
    BY <2>1, <2>2, FS_Subset
  <2>4. Cardinality(Counted(p)) < Threshold
    BY <1>4, <2>2, ThresholdAssumption DEF TooMany
  <2>5. /\ Cardinality(InFlight(a)') \in Nat
        /\ Cardinality(InFlight(a)') <= Cardinality(Client)
    <3>1. InFlight(a)' \subseteq Client
      BY DEF InFlight
    <3> QED
      BY <3>1, FiniteAssumption, FS_Subset, FS_CardinalityType
  <2> QED
    BY <1>2, <2>2, <2>3, <2>4, <2>5, Finiteness, ThresholdAssumption
<1> QED
  BY <1>3, <1>4

\* A guess made is one less to come.
LEMMA GuessMade ==
  ASSUME SignInInv, NEW p \in Client, Fail(p), NEW a \in Account, login[p].acct = a,
         GuessesToCome
  PROVE  Cardinality(Recent(a)') + Cardinality(InFlight(a)')
           < Threshold + Cardinality(Client)
<1> DEFINE f == CHOOSE x \in Failure : of[x] = None
<1>1. /\ of \in [Failure -> Account \cup {None}] /\ login \in [Client -> Attempt]
      /\ of' = [of EXCEPT ![f] = login[p].acct] /\ UNCHANGED <<age, cleared>>
      /\ login' = [login EXCEPT ![p] = Idle] /\ At(p, "verify")
  BY DEF SignInInv, TypeOK, Fail, Answer
<1> HIDE DEF f
<1>2. Recent(a)' \subseteq Recent(a) \cup {f}
  BY <1>1 DEF Recent, Rows
<1>3. InFlight(a)' = InFlight(a) \ {p} /\ p \in InFlight(a)
  BY <1>1 DEF InFlight, At, Idle
<1>4. /\ Cardinality(Recent(a)') <= Cardinality(Recent(a)) + 1
      /\ Cardinality(Recent(a)') \in Nat
  <2>1. /\ IsFiniteSet(Recent(a) \cup {f})
        /\ Cardinality(Recent(a) \cup {f}) <= Cardinality(Recent(a)) + 1
        /\ Cardinality(Recent(a) \cup {f}) \in Nat
    <3>1. IsFiniteSet(Recent(a)) /\ Cardinality(Recent(a)) \in Nat
      BY Finiteness
    <3>2. /\ IsFiniteSet(Recent(a) \cup {f})
          /\ Cardinality(Recent(a) \cup {f}) =
               IF f \in Recent(a) THEN Cardinality(Recent(a))
                                    ELSE Cardinality(Recent(a)) + 1
      BY <3>1, FS_AddElement
    <3> QED
      BY <3>1, <3>2
  <2>2. /\ IsFiniteSet(Recent(a)')
        /\ Cardinality(Recent(a)') <= Cardinality(Recent(a) \cup {f})
        /\ Cardinality(Recent(a)') \in Nat
    BY <1>2, <2>1, FS_Subset, FS_CardinalityType
  <2> QED
    BY <2>1, <2>2, Finiteness
<1>5. Cardinality(InFlight(a)') = Cardinality(InFlight(a)) - 1
  BY <1>3, Finiteness, FS_RemoveElement
<1>6. Cardinality(Recent(a)) + Cardinality(InFlight(a)) < Threshold + Cardinality(Client)
  BY DEF GuessesToCome
<1> QED
  BY <1>4, <1>5, <1>6, Finiteness, ThresholdAssumption

\* Whatever else happens, guesses become fewer.
LEMMA NoGuess ==
  ASSUME SignInInv, [Next]_vars, NEW a \in Account,
         \A p \in Client : login[p].acct = a => ~Fail(p) /\ ~CountFailures(p)
  PROVE  Recent(a)' \subseteq Recent(a) /\ InFlight(a)' \subseteq InFlight(a)
<1>1. /\ of \in [Failure -> Account \cup {None}] /\ age \in [Failure -> Nat]
      /\ login \in [Client -> Attempt] /\ a # None /\ Window \in Nat
  BY NoAccountAssumption, WindowAssumption, SlackAssumption DEF SignInInv, TypeOK, Oldest
<1>2. ASSUME NEW p \in Client, UNCHANGED <<of, age, cleared>>,
             NEW q, q.step # "verify" \/ q.acct # a, login' = [login EXCEPT ![p] = q]
      PROVE  Recent(a)' \subseteq Recent(a) /\ InFlight(a)' \subseteq InFlight(a)
  BY <1>1, <1>2 DEF Recent, Rows, InFlight, At
<1>3. ASSUME NEW p \in Client, NEW b \in Account, Begin(p, b)
      PROVE  Recent(a)' \subseteq Recent(a) /\ InFlight(a)' \subseteq InFlight(a)
  BY <1>2, <1>3 DEF Begin, Idle
<1>4. ASSUME NEW p \in Client, ReadFloor(p)
      PROVE  Recent(a)' \subseteq Recent(a) /\ InFlight(a)' \subseteq InFlight(a)
  BY <1>1, <1>4 DEF ReadFloor, Recent, Rows, InFlight, At
<1>5. ASSUME NEW p \in Client, CountFailures(p)
      PROVE  Recent(a)' \subseteq Recent(a) /\ InFlight(a)' \subseteq InFlight(a)
  BY <1>2, <1>5 DEF CountFailures, TurnAway, Answer, Idle
<1>6. ASSUME NEW p \in Client, Fail(p)
      PROVE  Recent(a)' \subseteq Recent(a) /\ InFlight(a)' \subseteq InFlight(a)
  BY <1>1, <1>6 DEF Fail, Answer, Recent, Rows, InFlight, At, Idle
<1>7. ASSUME NEW p \in Client, Succeed(p) \/ Abort(p)
      PROVE  Recent(a)' \subseteq Recent(a) /\ InFlight(a)' \subseteq InFlight(a)
  BY <1>2, <1>7 DEF Succeed, Abort, Answer, Idle
<1>8. ASSUME NEW b \in Account, Unlock(b)
      PROVE  Recent(a)' \subseteq Recent(a) /\ InFlight(a)' \subseteq InFlight(a)
  BY <1>8 DEF Unlock, Recent, Rows, InFlight, At
<1>9. CASE Tick
  <2> DEFINE old == {f \in Failure : of[f] # None /\ age[f] = Oldest}
  <2>1. /\ of' = [f \in Failure |-> IF f \in old THEN None ELSE of[f]]
        /\ age' = [f \in Failure |-> IF of'[f] = None THEN 0 ELSE age[f] + 1]
        /\ cleared' = cleared \ old
        /\ \A p \in Client : login'[p].step = login[p].step /\ login'[p].acct = login[p].acct
    BY <1>1, <1>9 DEF Tick, Attempt
  <2> HIDE DEF old
  <2>2. Recent(a)' \subseteq Recent(a)
    BY <1>1, <2>1 DEF Recent, Rows
  <2> QED
    BY <2>1, <2>2 DEF InFlight, At
<1>10. CASE UNCHANGED vars
  BY <1>10 DEF vars, Recent, Rows, InFlight, At
<1> QED
  BY <1>3, <1>4, <1>5, <1>6, <1>7, <1>8, <1>9, <1>10 DEF Next, Step

LEMMA NextGuesses == SignInInv /\ GuessesToCome /\ [Next]_vars => GuessesToCome'
<1> SUFFICES ASSUME SignInInv, GuessesToCome, [Next]_vars, NEW a \in Account
             PROVE  Cardinality(Recent(a)') + Cardinality(InFlight(a)')
                      < Threshold + Cardinality(Client)
  BY DEF GuessesToCome
<1>1. CASE \E p \in Client : login[p].acct = a /\ Fail(p)
  BY <1>1, GuessMade
<1>2. CASE \E p \in Client : login[p].acct = a /\ CountFailures(p)
  BY <1>2, LetThrough
<1>3. CASE \A p \in Client : login[p].acct = a => ~Fail(p) /\ ~CountFailures(p)
  BY <1>3, NoGuess, Fewer
<1> QED
  BY <1>1, <1>2, <1>3

LEMMA InitGuesses == Init => GuessesToCome
<1> SUFFICES ASSUME Init, NEW a \in Account
             PROVE  Cardinality(Recent(a)) + Cardinality(InFlight(a))
                      < Threshold + Cardinality(Client)
  BY DEF GuessesToCome
<1>1. Recent(a) = {} /\ InFlight(a) = {}
  BY NoAccountAssumption DEF Init, Recent, Rows, InFlight, At, Idle
<1> QED
  BY <1>1, FS_EmptySet, Finiteness, ThresholdAssumption

\* In any window since the last unlock, fewer wrong passwords than the
\* threshold and one per thread are looked at (lockout in login).
THEOREM Guesses == Spec => []GuessesBounded
<1>1. GuessesToCome => GuessesBounded
  <2> SUFFICES ASSUME GuessesToCome, NEW a \in Account
               PROVE  Cardinality(Recent(a)) < Threshold + Cardinality(Client)
    BY DEF GuessesBounded
  <2>1. Cardinality(Recent(a)) + Cardinality(InFlight(a)) < Threshold + Cardinality(Client)
    BY DEF GuessesToCome
  <2> QED
    BY <2>1, Finiteness, ThresholdAssumption
<1> QED
  BY <1>1, InitSignIn, NextSignIn, InitGuesses, NextGuesses, PTL DEF Spec

-----------------------------------------------------------------------------
(* Links                                                                   *)

\* A link that was used is denied by its row or by its age.
UsedIsDenied ==
  \A l \in Link : uses[l] > 0 => link[l] # None /\ (l \in used \/ ~Decodes(l))

\* What decodes was issued, and to a customer.
LinksHaveOwners ==
  \A l \in Link :
    /\ Decodes(l) => link[l] # None
    /\ link[l] # None => Exists(link[l].cust)

\* What a request knows: a link's own claims, and that it had not been used.
Shape(r) ==
  /\ r.lnk # None => r.before = 0
  /\ r.step = "create" => r.cust \in Account /\ r.pw \in Password
  /\ r.step \in {"load", "revoke", "update"} =>
       /\ r.lnk \in Link
       /\ link[r.lnk] = [typ |-> r.op, cust |-> r.cust]
       /\ r.op \in {"pwd_reset", "email_verify"} /\ r.cust \in Account
       /\ r.op = "pwd_reset" => r.pw \in Password

RequestShape == \A p \in Client : Shape(req[p])

LinkTypes ==
  /\ link \in [Link -> Claims \cup {None}]
  /\ left \in [Link -> Nat]
  /\ uses \in [Link -> Nat]
  /\ acct \in [Account -> Profile \cup {None}]
  /\ req \in [Client -> Request]

IInv == LinkTypes /\ UsedIsDenied /\ LinksHaveOwners /\ RequestShape

-----------------------------------------------------------------------------
\* The sign-ins of customers are the sign-ins of SignIn.
THEOREM Refinement == AccountsSpec => SignInAsSpecified
<1>1. AccountsInit => Init
  BY DEF AccountsInit
<1>2. [AccountsNext]_accountVars => [Next]_vars
  <2> SUFFICES ASSUME [AccountsNext]_accountVars PROVE Next \/ UNCHANGED vars
    OBVIOUS
  <2>1. ASSUME NEW p \in Client, NEW c \in Account, NEW pw \in Password,
               StartLogin(p, c, pw)
        PROVE  Next
    BY <2>1 DEF StartLogin, Next
  <2>2. ASSUME NEW p \in Client, LoginStep(p) \/ CheckPassword(p)
        PROVE  Next
    BY <2>2 DEF LoginStep, CheckPassword, Next, Step
  <2>3. ASSUME NEW p \in Client, AbortRequest(p)
        PROVE  Next \/ UNCHANGED vars
    BY <2>3 DEF AbortRequest, Next, vars
  <2>4. ASSUME NEW c \in Account, UnlockAccount(c)
        PROVE  Next
    BY <2>4 DEF UnlockAccount, Next
  <2>5. CASE TickLinks
    BY <2>5 DEF TickLinks, Next
  <2>6. CASE UNCHANGED signInVars
    BY <2>6 DEF signInVars, vars
  <2>7. ASSUME NEW p \in Client, NEW c \in Account, NEW pw \in Password,
               StartSignup(p, c, pw)
        PROVE  UNCHANGED signInVars
    BY <2>7 DEF StartSignup
  <2>8. ASSUME NEW l \in Link, NEW c \in Account,
               ForgotPassword(l, c) \/ SendVerification(l, c)
        PROVE  UNCHANGED signInVars
    BY <2>8 DEF ForgotPassword, SendVerification, MailLink
  <2>9. ASSUME NEW p \in Client, NEW l \in Link,
               StartVerify(p, l) \/ \E pw \in Password : StartReset(p, l, pw)
        PROVE  UNCHANGED signInVars
    BY <2>9 DEF StartVerify, StartReset, UseLink
  <2>10. ASSUME NEW p \in Client, CreateCustomer(p) \/ FindRevoked(p) \/ CommitLink(p)
         PROVE  UNCHANGED signInVars
    BY <2>10 DEF CreateCustomer, FindRevoked, CommitLink
  <2>11. CASE Prune
    BY <2>6, <2>11 DEF Prune
  <2>12. CASE UNCHANGED accountVars
    BY <2>6, <2>12 DEF accountVars, signInVars
  <2> QED
    BY <2>1, <2>2, <2>3, <2>4, <2>5, <2>6, <2>7, <2>8, <2>9, <2>10, <2>11, <2>12 DEF AccountsNext
<1> QED
  BY <1>1, <1>2, PTL DEF AccountsSpec, SignInAsSpecified, Spec

\* Whatever accounts, passwords and links do, the guesses at a customer's
\* password are bounded as SignIn bounds them.
THEOREM CustomerGuesses == AccountsSpec => []GuessesBounded
BY Refinement, Guesses, PTL DEF SignInAsSpecified

-----------------------------------------------------------------------------
\* What a step may do to an account that exists.
OwnLinkStep ==
  \A c \in Account : Exists(c) /\ acct'[c] # acct[c] =>
    \E l \in Link :
      /\ uses'[l] > uses[l] /\ link[l].cust = c
      /\ acct'[c] = [acct[c] EXCEPT
           !.verified = @ \/ link[l].typ = "email_verify",
           !.pw = IF link[l].typ = "pwd_reset" THEN acct'[c].pw ELSE @]

LEMMA IdleShape == NoRequest \in Request /\ Shape(NoRequest)
BY DEF NoRequest, Request, Shape

LEMMA InitIInv == AccountsInit => IInv
<1> SUFFICES ASSUME AccountsInit PROVE IInv
  OBVIOUS
<1>1. LinkTypes
  BY IdleShape DEF AccountsInit, LinkTypes
<1>2. UsedIsDenied /\ LinksHaveOwners
  BY DEF AccountsInit, UsedIsDenied, LinksHaveOwners, Decodes
<1>3. RequestShape
  BY IdleShape DEF AccountsInit, RequestShape
<1> QED
  BY <1>1, <1>2, <1>3 DEF IInv

\* A request ends or goes on with what it has.
LEMMA RequestKept ==
  ASSUME IInv, NEW p \in Client, NEW q \in Request, req' = [req EXCEPT ![p] = q],
         UNCHANGED link, Shape(q)
  PROVE  req' \in [Client -> Request] /\ RequestShape'
<1>1. req \in [Client -> Request] /\ req' \in [Client -> Request]
  BY DEF IInv, LinkTypes
<1>2. ASSUME NEW x \in Client PROVE Shape(req'[x])
  <2>1. CASE x = p
    BY <2>1, <1>1
  <2>2. CASE x # p
    BY <2>2, <1>1 DEF IInv, RequestShape
  <2> QED
    BY <2>1, <2>2
<1> QED
  BY <1>1, <1>2 DEF RequestShape, Shape

\* Nothing but a request changes.
LEMMA OnlyRequest ==
  ASSUME IInv, NEW p \in Client, NEW q \in Request, req' = [req EXCEPT ![p] = q],
         UNCHANGED <<link, left, acct, used, uses>>, Shape(q)
  PROVE  IInv'
<1>1. req' \in [Client -> Request] /\ RequestShape'
  BY RequestKept
<1> QED
  BY <1>1 DEF IInv, LinkTypes, UsedIsDenied, LinksHaveOwners, Decodes, Exists

LEMMA SignupKept ==
  ASSUME IInv, NEW p \in Client, NEW c \in Account, NEW pw \in Password,
         StartSignup(p, c, pw)
  PROVE  IInv'
<1> DEFINE q == [NoRequest EXCEPT !.step = "create", !.op = "signup", !.cust = c, !.pw = pw]
<1>1. q \in Request /\ Shape(q)
  BY DEF NoRequest, Request, Shape
<1>2. req' = [req EXCEPT ![p] = q] /\ UNCHANGED <<link, left, acct, used, uses>>
  BY DEF StartSignup, linkVars
<1> HIDE DEF q
<1> QED
  BY <1>1, <1>2, OnlyRequest

LEMMA CreateKept ==
  ASSUME IInv, NEW p \in Client, CreateCustomer(p)
  PROVE  IInv' /\ OwnLinkStep
<1> DEFINE c == req[p].cust
           new == [pw |-> req[p].pw, verified |-> FALSE]
<1>1. /\ acct' = IF Exists(c) THEN acct ELSE [acct EXCEPT ![c] = new]
      /\ req' = [req EXCEPT ![p] = NoRequest] /\ UNCHANGED <<link, left, used, uses>>
  BY DEF CreateCustomer, Respond, linkVars
<1>2. c \in Account /\ new \in Profile
  BY DEF IInv, RequestShape, Shape, CreateCustomer, Doing, Profile
<1> HIDE DEF c, new
<1>3. acct \in [Account -> Profile \cup {None}]
  BY DEF IInv, LinkTypes
<1>4. /\ acct' \in [Account -> Profile \cup {None}]
      /\ \A x \in Account : Exists(x) => acct'[x] = acct[x]
  BY <1>1, <1>2, <1>3 DEF Exists
<1>5. req' \in [Client -> Request] /\ RequestShape'
  BY <1>1, IdleShape, RequestKept
<1>6. LinkTypes' /\ UsedIsDenied'
  BY <1>1, <1>4, <1>5 DEF IInv, LinkTypes, UsedIsDenied, Decodes
<1>7. LinksHaveOwners'
  BY <1>1, <1>4 DEF IInv, LinkTypes, LinksHaveOwners, Decodes, Exists, Claims
<1> QED
  BY <1>4, <1>5, <1>6, <1>7 DEF IInv, OwnLinkStep

LEMMA MailKept ==
  ASSUME IInv, NEW l \in Link, NEW c \in Account,
         NEW typ \in {"pwd_reset", "email_verify"}, MailLink(l, c, typ)
  PROVE  IInv'
<1> DEFINE new == [typ |-> typ, cust |-> c]
<1>1. /\ Exists(c) /\ link[l] = None /\ link' = [link EXCEPT ![l] = new]
      /\ left' = [left EXCEPT ![l] = LinkLife] /\ UNCHANGED <<acct, used, req, uses>>
  BY DEF MailLink
<1>2. new \in Claims /\ new.cust = c /\ new # None
  BY NoneAssumption DEF Claims
<1> HIDE DEF new
<1>3. LinkTypes'
  BY <1>1, <1>2, LinkLifeAssumption DEF IInv, LinkTypes
<1>4. UsedIsDenied'
  <2>1. ~(uses[l] > 0)
    BY <1>1 DEF IInv, UsedIsDenied
  <2> QED
    BY <1>1, <2>1 DEF IInv, LinkTypes, UsedIsDenied, Decodes
<1>5. LinksHaveOwners'
  BY <1>1, <1>2 DEF IInv, LinkTypes, LinksHaveOwners, Decodes, Exists
<1>6. RequestShape'
  <2> SUFFICES ASSUME NEW p \in Client PROVE Shape(req[p])'
    BY DEF RequestShape
  <2>1. Shape(req[p]) /\ req[p] \in Request
    BY DEF IInv, LinkTypes, RequestShape
  <2>2. req[p].step \in {"load", "revoke", "update"} => req[p].lnk # l
    <3>1. [typ |-> req[p].op, cust |-> req[p].cust] # None
            \/ req[p].step \notin {"load", "revoke", "update"}
      BY <2>1, NoneAssumption DEF Shape, Claims
    <3> QED
      BY <1>1, <2>1, <3>1 DEF Shape
  <2> QED
    BY <1>1, <2>1, <2>2 DEF Shape, IInv, LinkTypes
<1> QED
  BY <1>3, <1>4, <1>5, <1>6 DEF IInv

LEMMA UseKept ==
  ASSUME IInv, NEW p \in Client, NEW l \in Link,
         NEW typ \in {"pwd_reset", "email_verify"}, NEW pw \in Password \cup {None},
         typ = "pwd_reset" => pw \in Password, UseLink(p, l, typ, pw)
  PROVE  IInv'
<1> DEFINE q == [step |-> "load", op |-> typ, cust |-> link[l].cust, pw |-> pw,
                 lnk |-> l, before |-> uses[l]]
<1>1. /\ Decodes(l) /\ link[l].typ = typ /\ l \notin used
      /\ req' = [req EXCEPT ![p] = q] /\ UNCHANGED <<link, left, acct, used, uses>>
  BY DEF UseLink, ConsumeToken, linkVars
<1>2. link[l] \in Claims /\ uses[l] = 0
  BY <1>1 DEF IInv, LinkTypes, LinksHaveOwners, UsedIsDenied
<1>3. link[l] = [typ |-> typ, cust |-> link[l].cust] /\ link[l].cust \in Account
  BY <1>1, <1>2 DEF Claims
<1>4. q \in Request
  BY <1>2, <1>3 DEF Request
<1>5. Shape(q)
  BY <1>2, <1>3 DEF Shape
<1> HIDE DEF q
<1> QED
  BY <1>1, <1>4, <1>5, OnlyRequest

LEMMA FindKept ==
  ASSUME IInv, NEW p \in Client, FindRevoked(p)
  PROVE  IInv'
<1> DEFINE s == IF req[p].lnk \in used THEN "update" ELSE "revoke"
           q == [req[p] EXCEPT !.step = s]
<1>1. req[p] \in Request /\ Shape(req[p]) /\ req[p].step = "load"
  BY DEF IInv, LinkTypes, RequestShape, FindRevoked, Doing
<1>2. s \in {"update", "revoke"}
  OBVIOUS
<1>3. req' = [req EXCEPT ![p] = q] /\ UNCHANGED <<link, left, acct, used, uses>>
  BY DEF FindRevoked, Goto, linkVars
<1> HIDE DEF s
<1>4. q \in Request /\ Shape(q)
  BY <1>1, <1>2 DEF Request, Shape
<1> HIDE DEF q
<1> QED
  BY <1>3, <1>4, OnlyRequest

\* The effect of a link: its customer's row, and only what its type says.
LEMMA CommitKept ==
  ASSUME IInv, NEW p \in Client, CommitLink(p)
  PROVE  IInv' /\ OwnLinkStep
<1> DEFINE c == req[p].cust  l == req[p].lnk  new == Applied(p, acct[c])
<1>1. /\ l \in Link /\ c \in Account /\ link[l] = [typ |-> req[p].op, cust |-> c]
      /\ req[p].op \in {"pwd_reset", "email_verify"}
      /\ req[p].op = "pwd_reset" => req[p].pw \in Password
  BY DEF IInv, RequestShape, Shape, CommitLink, Doing
<1>2. /\ req' = [req EXCEPT ![p] = NoRequest] /\ UNCHANGED <<link, left>>
      /\ \/ UNCHANGED <<acct, used, uses>>
         \/ /\ acct' = [acct EXCEPT ![c] = new]
            /\ used' = used \cup {l}
            /\ uses' = [uses EXCEPT ![l] = @ + 1]
  BY DEF CommitLink, Respond, linkVars
<1>3. req' \in [Client -> Request] /\ RequestShape'
  BY <1>2, IdleShape, RequestKept
<1>4. /\ link[l] # None /\ Exists(c) /\ acct[c] \in Profile
      /\ acct \in [Account -> Profile \cup {None}] /\ uses \in [Link -> Nat]
  <2>1. link[l] # None
    BY <1>1, NoneAssumption DEF Claims
  <2>2. link[l].cust = c
    BY <1>1
  <2> QED
    BY <1>1, <2>1, <2>2 DEF IInv, LinkTypes, LinksHaveOwners, Exists
<1>5. /\ new \in Profile
      /\ new = [acct[c] EXCEPT !.verified = @ \/ req[p].op = "email_verify",
                               !.pw = IF req[p].op = "pwd_reset" THEN new.pw ELSE @]
  <2>1. CASE req[p].op = "pwd_reset"
    BY <2>1, <1>1, <1>4 DEF Applied, Profile
  <2>2. CASE req[p].op = "email_verify"
    BY <2>2, <1>1, <1>4 DEF Applied, Profile
  <2> QED
    BY <1>1, <2>1, <2>2
<1>6. CASE UNCHANGED <<acct, used, uses>>
  BY <1>2, <1>3, <1>6
     DEF IInv, LinkTypes, UsedIsDenied, LinksHaveOwners, Decodes, Exists, OwnLinkStep
<1>7. CASE /\ acct' = [acct EXCEPT ![c] = new] /\ used' = used \cup {l}
           /\ uses' = [uses EXCEPT ![l] = @ + 1]
  <2>1. link[l].cust = c /\ link[l].typ = req[p].op
    BY <1>1
  <2> HIDE DEF c, l, new
  <2>2. LinkTypes'
    BY <1>1, <1>2, <1>3, <1>4, <1>5, <1>7 DEF IInv, LinkTypes
  <2>3. UsedIsDenied'
    BY <1>2, <1>4, <1>7 DEF IInv, LinkTypes, UsedIsDenied, Decodes
  <2>4. LinksHaveOwners'
    BY <1>2, <1>4, <1>5, <1>7, NoneAssumption
       DEF IInv, LinkTypes, LinksHaveOwners, Decodes, Exists, Claims
  <2>5. uses'[l] > uses[l]
    BY <1>1, <1>4, <1>7
  <2>6. acct'[c] = new /\ \A x \in Account : acct'[x] # acct[x] => x = c
    BY <1>1, <1>4, <1>7
  <2>7. acct'[c] = [acct[c] EXCEPT
          !.verified = @ \/ link[l].typ = "email_verify",
          !.pw = IF link[l].typ = "pwd_reset" THEN acct'[c].pw ELSE @]
    BY <1>5, <2>1, <2>6
  <2>8. OwnLinkStep
    BY <1>1, <2>1, <2>5, <2>6, <2>7 DEF OwnLinkStep
  <2> QED
    BY <1>3, <2>2, <2>3, <2>4, <2>8 DEF IInv
<1> QED
  BY <1>2, <1>6, <1>7

LEMMA PruneKept == IInv /\ Prune => IInv'
BY DEF Prune, linkVars, IInv, LinkTypes, UsedIsDenied, LinksHaveOwners, RequestShape, Shape,
       Decodes, Exists

LEMMA TickKept == IInv /\ TickLinks => IInv'
<1> SUFFICES ASSUME IInv, TickLinks PROVE IInv'
  OBVIOUS
<1>1. /\ left' = [l \in Link |-> IF left[l] = 0 THEN 0 ELSE left[l] - 1]
      /\ UNCHANGED <<acct, link, used, req, uses>> /\ left \in [Link -> Nat]
  BY DEF TickLinks, IInv, LinkTypes
<1>2. left' \in [Link -> Nat] /\ \A l \in Link : left'[l] > 0 => left[l] > 0
  BY <1>1
<1> QED
  BY <1>1, <1>2 DEF IInv, LinkTypes, UsedIsDenied, LinksHaveOwners, RequestShape, Shape,
                    Decodes, Exists

LEMMA NextIInv == IInv /\ [AccountsNext]_accountVars => IInv' /\ OwnLinkStep
<1> SUFFICES ASSUME IInv, [AccountsNext]_accountVars PROVE IInv' /\ OwnLinkStep
  OBVIOUS
<1>1. ASSUME UNCHANGED acct PROVE OwnLinkStep
  BY <1>1 DEF OwnLinkStep
<1>2. ASSUME NEW p \in Client, NEW c \in Account, NEW pw \in Password,
             StartSignup(p, c, pw)
      PROVE  IInv' /\ OwnLinkStep
  BY <1>1, <1>2, SignupKept DEF StartSignup
<1>3. ASSUME NEW l \in Link, NEW c \in Account,
             ForgotPassword(l, c) \/ SendVerification(l, c)
      PROVE  IInv' /\ OwnLinkStep
  BY <1>1, <1>3, MailKept DEF ForgotPassword, SendVerification, MailLink
<1>4. ASSUME NEW p \in Client, NEW l \in Link,
             StartVerify(p, l) \/ \E pw \in Password : StartReset(p, l, pw)
      PROVE  IInv' /\ OwnLinkStep
  BY <1>1, <1>4, UseKept DEF StartVerify, StartReset, UseLink
<1>5. ASSUME NEW p \in Client, CreateCustomer(p)
      PROVE  IInv' /\ OwnLinkStep
  BY <1>5, CreateKept DEF OwnLinkStep
<1>6. ASSUME NEW p \in Client, FindRevoked(p)
      PROVE  IInv' /\ OwnLinkStep
  BY <1>1, <1>6, FindKept DEF FindRevoked
<1>7. ASSUME NEW p \in Client, CommitLink(p)
      PROVE  IInv' /\ OwnLinkStep
  BY <1>7, CommitKept DEF OwnLinkStep
<1>8. CASE Prune
  BY <1>1, <1>8, PruneKept DEF Prune
<1>9. CASE TickLinks
  BY <1>1, <1>9, TickKept DEF TickLinks
<1>10. ASSUME NEW p \in Client, AbortRequest(p)
       PROVE  IInv' /\ OwnLinkStep
  <2>1. UNCHANGED <<link, left, acct, used, uses>>
        /\ (req' = req \/ req' = [req EXCEPT ![p] = NoRequest])
    BY <1>10 DEF AbortRequest, Respond, linkVars
  <2>2. CASE req' = req
    BY <1>1, <2>1, <2>2 DEF IInv, LinkTypes, UsedIsDenied, LinksHaveOwners, RequestShape,
                            Shape, Decodes, Exists
  <2> QED
    BY <1>1, <2>1, <2>2, IdleShape, OnlyRequest
<1>11. CASE UNCHANGED <<acct, linkVars, used, req, uses>>
  BY <1>1, <1>11 DEF linkVars, IInv, LinkTypes, UsedIsDenied, LinksHaveOwners, RequestShape,
                     Shape, Decodes, Exists
<1>12. ASSUME NEW p \in Client, NEW c \in Account, NEW pw \in Password,
              StartLogin(p, c, pw)
       PROVE  UNCHANGED <<acct, linkVars, used, req, uses>>
  BY <1>12 DEF StartLogin
<1>13. ASSUME NEW p \in Client, LoginStep(p) \/ CheckPassword(p)
       PROVE  UNCHANGED <<acct, linkVars, used, req, uses>>
  BY <1>13 DEF LoginStep, CheckPassword
<1>14. ASSUME NEW c \in Account, UnlockAccount(c)
       PROVE  UNCHANGED <<acct, linkVars, used, req, uses>>
  BY <1>14 DEF UnlockAccount
<1>15. CASE UNCHANGED accountVars
  BY <1>11, <1>15 DEF accountVars, linkVars
<1> QED
  BY <1>2, <1>3, <1>4, <1>5, <1>6, <1>7, <1>8, <1>9, <1>10, <1>11, <1>12, <1>13, <1>14, <1>15
     DEF AccountsNext

-----------------------------------------------------------------------------
\* A link whose effect was committed works for no later request, pruned or
\* not (_consume_token).
THEOREM DeadLinks == AccountsSpec => []UsedLinkIsDead
<1>1. IInv => UsedLinkIsDead
  BY DEF IInv, RequestShape, Shape, UsedLinkIsDead
<1> QED
  BY <1>1, InitIInv, NextIInv, PTL DEF AccountsSpec

\* A customer's row changes only through links mailed for it.
THEOREM OwnLinks == AccountsSpec => ChangedByOwnLink
<1>1. IInv /\ [AccountsNext]_accountVars => [OwnLinkStep]_accountVars
  BY NextIInv
<1> QED
  BY <1>1, InitIInv, NextIInv, PTL DEF AccountsSpec, ChangedByOwnLink, OwnLinkStep
=============================================================================
