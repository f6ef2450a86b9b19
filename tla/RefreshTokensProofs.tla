------------------------- MODULE RefreshTokensProofs -------------------------
(***************************************************************************)
(* Proofs about RefreshTokens, for every set of tokens, families and       *)
(* threads, every token lifetime and an unbounded clock.                   *)
(*                                                                         *)
(* IInv strengthens the invariants with what a request knows between two   *)
(* of its statements: which rows it holds uncommitted, which check it has  *)
(* passed, and what that check still implies after rows were pruned.       *)
(***************************************************************************)
EXTENDS RefreshTokens, TLAPS

Tok(p)    == req[p].tok

\* The shape of a running request; only "commit" holds a family marker.
Shape(p) ==
  IF At(p, "idle") THEN req[p] = Idle /\ pending[p] = {}
  ELSE /\ Tok(p) \in Token /\ fam[Tok(p)] \in Family
       /\ req[p].op \in {"refresh", "logout"}
       /\ pending[p] \subseteq {Tok(p), fam[Tok(p)]}
       /\ Tok(p) \in pending[p] =>
            req[p].step \in {"findFamily", "insertFamily", "commit", "issue"}
       /\ fam[Tok(p)] \in pending[p] => At(p, "commit")
       /\ req[p].step \in {"checkFamily", "checkJti", "issue"} =>
            req[p].op = "refresh"

RequestShape == \A p \in Proc : Shape(p)

\* The UNIQUE index: a key is flushed by at most one open transaction, and
\* only while no committed row has it.
OneWriterPerKey ==
  \A p \in Proc : \A k \in pending[p] :
    /\ ~HasRow(k)
    /\ \A q \in Proc \ {p} : k \notin pending[q]

\* A token's row expires with the token.
RowExpiresWithToken ==
  \A t \in Token : HasRow(t) => Issued(t) /\ revoked[t] = exp[t]

\* A marker expires with a token that revoked the family.
MarkerExpiresWithBurner ==
  \A f \in Family : HasRow(f) =>
    \E s \in burnedBy : fam[s] = f /\ revoked[f] = exp[s]

HistoryIssued ==
  /\ \A t \in burnedBy \cup ended : Issued(t)
  /\ \A c \in Token : parent[c] # None => Issued(parent[c])

\* The request has made sure its token is, or is about to be, denied.
Spending(p) ==
  \/ At(p, "issue")
  \/ req[p].op = "logout" /\ req[p].step \in {"findFamily", "insertFamily", "commit"}

Denied(t) == HasRow(t) \/ exp[t] < now

SpendingIsDenied ==
  \A p \in Proc : Spending(p) => Tok(p) \in pending[p] \/ Denied(Tok(p))

\* The family of b is dead, or one of the tokens that burned it has expired.
Burned(f) == HasRow(f) \/ \E s \in burnedBy : fam[s] = f /\ exp[s] < now

BurningIsBurned ==
  /\ \A b \in burnedBy : Burned(fam[b])
  /\ \A p \in Proc : At(p, "commit") =>
       fam[Tok(p)] \in pending[p] \/ Burned(fam[Tok(p)])

\* What is left, at each check, of the rows that denied the token at first.
DenialsStand ==
  \A p \in Proc : \A e \in req[p].denials :
    /\ At(p, "checkFamily") =>
         e < now \/ revoked[Tok(p)] = e \/ revoked[fam[Tok(p)]] = e
    /\ At(p, "checkJti") => e < now \/ revoked[Tok(p)] = e
    /\ req[p].op = "refresh" /\ req[p].step \in {"findJti", "insertJti", "issue"} =>
         e < now

IInv ==
  /\ TypeOK
  /\ RequestShape
  /\ OneWriterPerKey
  /\ RowExpiresWithToken
  /\ MarkerExpiresWithBurner
  /\ HistoryIssued
  /\ SpendingIsDenied
  /\ SpentTokensStayDenied
  /\ BurningIsBurned
  /\ DenialsStand

-----------------------------------------------------------------------------
\* Goto moves request p to step s and keeps the rest of it.
LEMMA GotoReq ==
  ASSUME TypeOK, NEW p \in Proc, NEW s,
         s \in {"checkJti", "findJti", "insertJti", "findFamily",
                       "insertFamily", "commit", "issue"}, Goto(p, s)
  PROVE  /\ req' \in [Proc -> Request]
         /\ req'[p].step = s
         /\ req'[p].op = req[p].op
         /\ req'[p].tok = req[p].tok
         /\ req'[p].denials = req[p].denials
         /\ \A q \in Proc \ {p} : req'[q] = req[q]
BY DEF TypeOK, Goto, Request

\* Answer ends request p and leaves the others alone.
LEMMA AnswerReq ==
  ASSUME TypeOK, NEW p \in Proc, Answer(p)
  PROVE  /\ req' \in [Proc -> Request]
         /\ req'[p] = Idle /\ req'[p].step = "idle"
         /\ \A q \in Proc \ {p} : req'[q] = req[q]
BY DEF TypeOK, Answer, Idle, Request

\* A request that is not idle works on an issued token.
LEMMA ActiveToken ==
  ASSUME IInv, NEW p \in Proc, ~At(p, "idle")
  PROVE  /\ Tok(p) \in Token
         /\ fam[Tok(p)] \in Family
         /\ Tok(p) \in Key /\ fam[Tok(p)] \in Key
         /\ exp[Tok(p)] \in Nat
         /\ fam[Tok(p)] # None
BY NoneAssumption DEF IInv, RequestShape, Shape, TypeOK, Key

\* What every request satisfies, without the case split of Shape.
LEMMA EveryRequest ==
  ASSUME IInv, NEW q \in Proc
  PROVE  /\ req[q].denials \subseteq Nat
         /\ At(q, "idle") => pending[q] = {} /\ req[q].op = "none"
         /\ ~At(q, "idle") => /\ Tok(q) \in Token
                              /\ fam[Tok(q)] \in Family
                              /\ exp[Tok(q)] \in Nat
BY DEF IInv, RequestShape, Shape, TypeOK, Key, Idle, Request

\* login: the fresh token is in no row, no request and no history.
LEMMA LoginStep ==
  ASSUME IInv, NEW t \in Token, NEW f \in Family, Login(t, f)
  PROVE  IInv'
<1> USE NoneAssumption, KeysDisjoint, LifetimeAssumption
    DEF TypeOK, tokenVars, historyVars, Key, At, Issued, HasRow, Tok, IInv
<1>1. TypeOK'
  BY DEF Login, Issue, FamilyInUse
<1>2. RequestShape'
  BY DEF Login, Issue, FamilyInUse, RequestShape, Shape
<1>3. OneWriterPerKey'
  BY DEF Login, Issue, FamilyInUse, OneWriterPerKey, RequestShape, Shape
<1>4. RowExpiresWithToken'
  BY DEF Login, Issue, FamilyInUse, RowExpiresWithToken
<1>5. MarkerExpiresWithBurner'
  BY DEF Login, Issue, FamilyInUse, MarkerExpiresWithBurner, HistoryIssued
<1>6. HistoryIssued'
  BY DEF Login, Issue, FamilyInUse, HistoryIssued
<1>7. SpendingIsDenied'
  BY EveryRequest
  DEF Login, Issue, FamilyInUse, SpendingIsDenied, Spending, Denied,
      RowExpiresWithToken
<1>8. SpentTokensStayDenied'
  BY EveryRequest
  DEF Login, Issue, FamilyInUse, SpentTokensStayDenied, RowExpiresWithToken,
      HistoryIssued
<1>9. BurningIsBurned'
  BY EveryRequest
  DEF Login, Issue, FamilyInUse, BurningIsBurned, Burned, HistoryIssued,
      MarkerExpiresWithBurner
<1>10. DenialsStand'
  BY EveryRequest DEF Login, Issue, FamilyInUse, DenialsStand, OneWriterPerKey
<1> QED BY <1>1, <1>2, <1>3, <1>4, <1>5, <1>6, <1>7, <1>8, <1>9, <1>10

\* StartRefresh and StartLogout: the request records what denies its token.
LEMMA PresentStep ==
  ASSUME IInv, NEW p \in Proc, NEW t \in Token, NEW o, NEW first,
         \/ o = "refresh" /\ first = "checkFamily"
         \/ o = "logout" /\ first = "findJti",
         Present(p, t, o, first)
  PROVE  IInv'
<1> USE NoneAssumption, KeysDisjoint, LifetimeAssumption
    DEF TypeOK, tokenVars, historyVars, Key, At, Issued, HasRow, Tok, IInv
<1>0. /\ At(p, "idle") /\ Issued(t) /\ pending[p] = {}
      /\ req' \in [Proc -> Request]
      /\ req'[p].step = first /\ req'[p].op = o /\ req'[p].tok = t
      /\ req'[p].denials = {revoked[k] : k \in {x \in {t, fam[t]} : HasRow(x)}}
      /\ \A q \in Proc \ {p} : req'[q] = req[q]
      /\ UNCHANGED <<now, fam, exp, revoked, pending, parent, ended, burnedBy>>
  BY DEF Present, Decodes, Request, RequestShape, Shape
<1>1. TypeOK'
  BY <1>0
<1>2. RequestShape'
  BY <1>0 DEF RequestShape, Shape
<1>3. OneWriterPerKey'
  BY <1>0 DEF OneWriterPerKey, RequestShape, Shape
<1>4. RowExpiresWithToken'
  BY <1>0 DEF RowExpiresWithToken
<1>5. MarkerExpiresWithBurner'
  BY <1>0 DEF MarkerExpiresWithBurner, HistoryIssued
<1>6. HistoryIssued'
  BY <1>0 DEF HistoryIssued
<1>7. SpendingIsDenied'
  BY <1>0, EveryRequest
  DEF SpendingIsDenied, Spending, Denied, RowExpiresWithToken
<1>8. SpentTokensStayDenied'
  BY <1>0, EveryRequest
  DEF SpentTokensStayDenied, RowExpiresWithToken, HistoryIssued
<1>9. BurningIsBurned'
  BY <1>0, EveryRequest
  DEF BurningIsBurned, Burned, HistoryIssued, MarkerExpiresWithBurner
<1>10. DenialsStand'
  BY <1>0, EveryRequest DEF DenialsStand, OneWriterPerKey
<1> QED BY <1>1, <1>2, <1>3, <1>4, <1>5, <1>6, <1>7, <1>8, <1>9, <1>10

\* is_family_revoked: going on means that no marker row denies the token.
LEMMA CheckFamilyStep ==
  ASSUME IInv, NEW p \in Proc, CheckFamily(p)
  PROVE  IInv'
<1> USE NoneAssumption, KeysDisjoint, LifetimeAssumption
    DEF TypeOK, tokenVars, historyVars, Key, At, Issued, HasRow, Tok, IInv
<1>0. ~At(p, "idle") /\ Tok(p) \in Token /\ fam[Tok(p)] \in Family
  BY ActiveToken DEF CheckFamily
<1>1. TypeOK'
  BY <1>0, GotoReq, AnswerReq DEF CheckFamily, Idle
<1>2. RequestShape'
  <2> SUFFICES ASSUME NEW q \in Proc PROVE Shape(q)'
    BY DEF RequestShape
  <2>0. Shape(q)
    BY DEF RequestShape
  <2>1. CASE q = p
    BY <2>0, <2>1, <1>0, GotoReq, AnswerReq DEF CheckFamily, Shape
  <2>2. CASE q # p
    BY <2>0, <2>2, <1>0, GotoReq, AnswerReq DEF CheckFamily, Shape
  <2> QED BY <2>1, <2>2
<1>3. OneWriterPerKey'
  BY <1>0, GotoReq, AnswerReq
  DEF CheckFamily, Idle, OneWriterPerKey, RequestShape, Shape
<1>4. RowExpiresWithToken'
  BY <1>0, GotoReq, AnswerReq DEF CheckFamily, Idle, RowExpiresWithToken
<1>5. MarkerExpiresWithBurner'
  BY <1>0, GotoReq, AnswerReq
  DEF CheckFamily, Idle, MarkerExpiresWithBurner, HistoryIssued
<1>6. HistoryIssued'
  BY <1>0, GotoReq, AnswerReq DEF CheckFamily, Idle, HistoryIssued
<1>7. SpendingIsDenied'
  BY <1>0, GotoReq, AnswerReq, EveryRequest
  DEF CheckFamily, Idle, SpendingIsDenied, Spending, Denied,
      RowExpiresWithToken
<1>8. SpentTokensStayDenied'
  BY <1>0, GotoReq, AnswerReq, EveryRequest
  DEF CheckFamily, Idle, SpentTokensStayDenied, RowExpiresWithToken,
      HistoryIssued
<1>9. BurningIsBurned'
  BY <1>0, GotoReq, AnswerReq, EveryRequest
  DEF CheckFamily, Idle, BurningIsBurned, Burned, HistoryIssued,
      MarkerExpiresWithBurner
<1>10. DenialsStand'
  BY <1>0, GotoReq, AnswerReq, EveryRequest
  DEF CheckFamily, Idle, DenialsStand, OneWriterPerKey
<1> QED BY <1>1, <1>2, <1>3, <1>4, <1>5, <1>6, <1>7, <1>8, <1>9, <1>10

\* is_revoked: going on to the rotation means that no token row denies it.
LEMMA CheckJtiStep ==
  ASSUME IInv, NEW p \in Proc, CheckJti(p)
  PROVE  IInv'
<1> USE NoneAssumption, KeysDisjoint, LifetimeAssumption
    DEF TypeOK, tokenVars, historyVars, Key, At, Issued, HasRow, Tok, IInv
<1>0. ~At(p, "idle") /\ Tok(p) \in Token /\ fam[Tok(p)] \in Family
  BY ActiveToken DEF CheckJti
<1>1. TypeOK'
  BY <1>0, GotoReq DEF CheckJti
<1>2. RequestShape'
  BY <1>0, GotoReq DEF CheckJti, RequestShape, Shape
<1>3. OneWriterPerKey'
  BY <1>0, GotoReq DEF CheckJti, OneWriterPerKey, RequestShape, Shape
<1>4. RowExpiresWithToken'
  BY <1>0, GotoReq DEF CheckJti, RowExpiresWithToken
<1>5. MarkerExpiresWithBurner'
  BY <1>0, GotoReq DEF CheckJti, MarkerExpiresWithBurner, HistoryIssued
<1>6. HistoryIssued'
  BY <1>0, GotoReq DEF CheckJti, HistoryIssued
<1>7. SpendingIsDenied'
  BY <1>0, GotoReq, EveryRequest
  DEF CheckJti, SpendingIsDenied, Spending, Denied, RowExpiresWithToken
<1>8. SpentTokensStayDenied'
  BY <1>0, GotoReq, EveryRequest
  DEF CheckJti, SpentTokensStayDenied, RowExpiresWithToken, HistoryIssued
<1>9. BurningIsBurned'
  BY <1>0, GotoReq, EveryRequest
  DEF CheckJti, BurningIsBurned, Burned, HistoryIssued,
      MarkerExpiresWithBurner
<1>10. DenialsStand'
  BY <1>0, GotoReq, EveryRequest DEF CheckJti, DenialsStand, OneWriterPerKey
<1> QED BY <1>1, <1>2, <1>3, <1>4, <1>5, <1>6, <1>7, <1>8, <1>9, <1>10

\* The SELECT of revoke: an existing row makes the token denied.
LEMMA FindJtiStep ==
  ASSUME IInv, NEW p \in Proc, FindJti(p)
  PROVE  IInv'
<1> USE NoneAssumption, KeysDisjoint, LifetimeAssumption
    DEF TypeOK, tokenVars, historyVars, Key, At, Issued, HasRow, Tok, IInv
<1>0. ~At(p, "idle") /\ Tok(p) \in Token /\ fam[Tok(p)] \in Family
  BY ActiveToken DEF FindJti
<1>1. TypeOK'
  BY <1>0, GotoReq DEF FindJti, AfterJti
<1>2. RequestShape'
  BY <1>0, GotoReq DEF FindJti, AfterJti, RequestShape, Shape
<1>3. OneWriterPerKey'
  BY <1>0, GotoReq DEF FindJti, AfterJti, OneWriterPerKey, RequestShape, Shape
<1>4. RowExpiresWithToken'
  BY <1>0, GotoReq DEF FindJti, AfterJti, RowExpiresWithToken
<1>5. MarkerExpiresWithBurner'
  BY <1>0, GotoReq
  DEF FindJti, AfterJti, MarkerExpiresWithBurner, HistoryIssued
<1>6. HistoryIssued'
  BY <1>0, GotoReq DEF FindJti, AfterJti, HistoryIssued
<1>7. SpendingIsDenied'
  BY <1>0, GotoReq, EveryRequest
  DEF FindJti, AfterJti, SpendingIsDenied, Spending, Denied,
      RowExpiresWithToken
<1>8. SpentTokensStayDenied'
  BY <1>0, GotoReq, EveryRequest
  DEF FindJti, AfterJti, SpentTokensStayDenied, RowExpiresWithToken,
      HistoryIssued
<1>9. BurningIsBurned'
  BY <1>0, GotoReq, EveryRequest
  DEF FindJti, AfterJti, BurningIsBurned, Burned, HistoryIssued,
      MarkerExpiresWithBurner
<1>10. DenialsStand'
  BY <1>0, GotoReq, EveryRequest
  DEF FindJti, AfterJti, DenialsStand, OneWriterPerKey
<1> QED BY <1>1, <1>2, <1>3, <1>4, <1>5, <1>6, <1>7, <1>8, <1>9, <1>10

\* The SELECT of revoke_family: an existing marker makes the family burned.
LEMMA FindFamilyStep ==
  ASSUME IInv, NEW p \in Proc, FindFamily(p)
  PROVE  IInv'
<1> USE NoneAssumption, KeysDisjoint, LifetimeAssumption
    DEF TypeOK, tokenVars, historyVars, Key, At, Issued, HasRow, Tok, IInv
<1>0. ~At(p, "idle") /\ Tok(p) \in Token /\ fam[Tok(p)] \in Family
  BY ActiveToken DEF FindFamily
<1>1. TypeOK'
  BY <1>0, GotoReq DEF FindFamily
<1>2. RequestShape'
  BY <1>0, GotoReq DEF FindFamily, RequestShape, Shape
<1>3. OneWriterPerKey'
  BY <1>0, GotoReq DEF FindFamily, OneWriterPerKey, RequestShape, Shape
<1>4. RowExpiresWithToken'
  BY <1>0, GotoReq DEF FindFamily, RowExpiresWithToken
<1>5. MarkerExpiresWithBurner'
  BY <1>0, GotoReq DEF FindFamily, MarkerExpiresWithBurner, HistoryIssued
<1>6. HistoryIssued'
  BY <1>0, GotoReq DEF FindFamily, HistoryIssued
<1>7. SpendingIsDenied'
  BY <1>0, GotoReq, EveryRequest
  DEF FindFamily, SpendingIsDenied, Spending, Denied, RowExpiresWithToken
<1>8. SpentTokensStayDenied'
  BY <1>0, GotoReq, EveryRequest
  DEF FindFamily, SpentTokensStayDenied, RowExpiresWithToken, HistoryIssued
<1>9. BurningIsBurned'
  BY <1>0, GotoReq, EveryRequest
  DEF FindFamily, BurningIsBurned, Burned, HistoryIssued,
      MarkerExpiresWithBurner
<1>10. DenialsStand'
  BY <1>0, GotoReq, EveryRequest DEF FindFamily, DenialsStand, OneWriterPerKey
<1> QED BY <1>1, <1>2, <1>3, <1>4, <1>5, <1>6, <1>7, <1>8, <1>9, <1>10

\* The flushed INSERT: the unique index keeps its key out of every other
\* transaction and of the committed rows.
LEMMA InsertStep ==
  ASSUME IInv, NEW p \in Proc, NEW k, NEW next,
         \/ /\ At(p, "insertJti") /\ k = Tok(p)
            /\ next = AfterJti(p)
         \/ /\ At(p, "insertFamily") /\ k = fam[Tok(p)]
            /\ next = "commit",
         Insert(p, k, next)
  PROVE  IInv'
<1> USE NoneAssumption, KeysDisjoint, LifetimeAssumption
    DEF TypeOK, tokenVars, historyVars, Key, At, Issued, HasRow, Tok, IInv
<1>0. /\ ~At(p, "idle") /\ Tok(p) \in Token /\ fam[Tok(p)] \in Family
      /\ k \in Key
  BY ActiveToken
<1>1. TypeOK'
  BY <1>0, GotoReq, AnswerReq DEF Insert, AfterJti, Idle
<1>2. RequestShape'
  <2> SUFFICES ASSUME NEW q \in Proc PROVE Shape(q)'
    BY DEF RequestShape
  <2>0. Shape(q)
    BY DEF RequestShape
  <2>1. CASE q = p
    BY <2>0, <2>1, <1>0, GotoReq, AnswerReq DEF Insert, AfterJti, Shape
  <2>2. CASE q # p
    BY <2>0, <2>2, <1>0, GotoReq, AnswerReq DEF Insert, AfterJti, Shape
  <2> QED BY <2>1, <2>2
<1>3. OneWriterPerKey'
  BY <1>0, GotoReq, AnswerReq
  DEF Insert, AfterJti, Idle, OneWriterPerKey, RequestShape, Shape
<1>4. RowExpiresWithToken'
  BY <1>0, GotoReq, AnswerReq DEF Insert, AfterJti, Idle, RowExpiresWithToken
<1>5. MarkerExpiresWithBurner'
  BY <1>0, GotoReq, AnswerReq
  DEF Insert, AfterJti, Idle, MarkerExpiresWithBurner, HistoryIssued
<1>6. HistoryIssued'
  BY <1>0, GotoReq, AnswerReq DEF Insert, AfterJti, Idle, HistoryIssued
<1>7. SpendingIsDenied'
  BY <1>0, GotoReq, AnswerReq, EveryRequest
  DEF Insert, AfterJti, Idle, SpendingIsDenied, Spending, Denied,
      RowExpiresWithToken
<1>8. SpentTokensStayDenied'
  BY <1>0, GotoReq, AnswerReq, EveryRequest
  DEF Insert, AfterJti, Idle, SpentTokensStayDenied, RowExpiresWithToken,
      HistoryIssued
<1>9. BurningIsBurned'
  BY <1>0, GotoReq, AnswerReq, EveryRequest
  DEF Insert, AfterJti, Idle, BurningIsBurned, Burned, HistoryIssued,
      MarkerExpiresWithBurner
<1>10. DenialsStand'
  BY <1>0, GotoReq, AnswerReq, EveryRequest
  DEF Insert, AfterJti, Idle, DenialsStand, OneWriterPerKey
<1> QED BY <1>1, <1>2, <1>3, <1>4, <1>5, <1>6, <1>7, <1>8, <1>9, <1>10

\* The rotation: the presented token's row and the new token appear together.
LEMMA IssueAndCommitStep ==
  ASSUME IInv, NEW p \in Proc, NEW t \in Token, IssueAndCommit(p, t)
  PROVE  IInv'
<1> USE NoneAssumption, KeysDisjoint, LifetimeAssumption
    DEF TypeOK, tokenVars, historyVars, Key, At, Issued, HasRow, Tok, IInv
<1>0. /\ ~At(p, "idle") /\ Tok(p) \in Token /\ fam[Tok(p)] \in Family
      /\ exp[Tok(p)] \in Nat /\ pending[p] \subseteq {Tok(p)}
  BY ActiveToken DEF IssueAndCommit, RequestShape, Shape
<1>1. TypeOK'
  BY <1>0, AnswerReq DEF IssueAndCommit, Issue, CommitRows, Idle
<1>2. RequestShape'
  <2> SUFFICES ASSUME NEW q \in Proc PROVE Shape(q)'
    BY DEF RequestShape
  <2>0. Shape(q)
    BY DEF RequestShape
  <2>1. CASE q = p
    BY <2>0, <2>1, <1>0, AnswerReq
    DEF IssueAndCommit, Issue, CommitRows, Shape
  <2>2. CASE q # p
    BY <2>0, <2>2, <1>0, AnswerReq
    DEF IssueAndCommit, Issue, CommitRows, Shape
  <2> QED BY <2>1, <2>2
<1>3. OneWriterPerKey'
  BY <1>0, AnswerReq
  DEF IssueAndCommit, Issue, CommitRows, Idle, OneWriterPerKey, RequestShape,
      Shape
<1>4. RowExpiresWithToken'
  BY <1>0, AnswerReq
  DEF IssueAndCommit, Issue, CommitRows, Idle, RowExpiresWithToken
<1>5. MarkerExpiresWithBurner'
  BY <1>0, AnswerReq
  DEF IssueAndCommit, Issue, CommitRows, Idle, MarkerExpiresWithBurner,
      HistoryIssued
<1>6. HistoryIssued'
  BY <1>0, AnswerReq
  DEF IssueAndCommit, Issue, CommitRows, Idle, HistoryIssued
<1>7. SpendingIsDenied'
  BY <1>0, AnswerReq, EveryRequest
  DEF IssueAndCommit, Issue, CommitRows, Idle, SpendingIsDenied, Spending,
      Denied, RowExpiresWithToken
<1>8. SpentTokensStayDenied'
  BY <1>0, AnswerReq, EveryRequest
  DEF IssueAndCommit, Issue, CommitRows, Idle, SpentTokensStayDenied,
      SpendingIsDenied, Spending, Denied, RowExpiresWithToken, HistoryIssued
<1>9. BurningIsBurned'
  BY <1>0, AnswerReq, EveryRequest
  DEF IssueAndCommit, Issue, CommitRows, Idle, BurningIsBurned, Burned,
      HistoryIssued, MarkerExpiresWithBurner
<1>10. DenialsStand'
  BY <1>0, AnswerReq, EveryRequest
  DEF IssueAndCommit, Issue, CommitRows, Idle, DenialsStand, OneWriterPerKey
<1> QED BY <1>1, <1>2, <1>3, <1>4, <1>5, <1>6, <1>7, <1>8, <1>9, <1>10

\* The marker is committed with the presented token's expiry.
LEMMA CommitRevocationStep ==
  ASSUME IInv, NEW p \in Proc, CommitRevocation(p)
  PROVE  IInv'
<1> USE NoneAssumption, KeysDisjoint, LifetimeAssumption
    DEF TypeOK, tokenVars, historyVars, Key, At, Issued, HasRow, Tok, IInv
<1>0. /\ ~At(p, "idle") /\ Tok(p) \in Token /\ fam[Tok(p)] \in Family
      /\ exp[Tok(p)] \in Nat /\ pending[p] \subseteq {Tok(p), fam[Tok(p)]}
  BY ActiveToken DEF CommitRevocation, RequestShape, Shape
<1>1. TypeOK'
  BY <1>0, AnswerReq DEF CommitRevocation, CommitRows, Idle
<1>2. RequestShape'
  <2> SUFFICES ASSUME NEW q \in Proc PROVE Shape(q)'
    BY DEF RequestShape
  <2>0. Shape(q)
    BY DEF RequestShape
  <2>1. CASE q = p
    BY <2>0, <2>1, <1>0, AnswerReq DEF CommitRevocation, CommitRows, Shape
  <2>2. CASE q # p
    BY <2>0, <2>2, <1>0, AnswerReq DEF CommitRevocation, CommitRows, Shape
  <2> QED BY <2>1, <2>2
<1>3. OneWriterPerKey'
  BY <1>0, AnswerReq
  DEF CommitRevocation, CommitRows, Idle, OneWriterPerKey, RequestShape, Shape
<1>4. RowExpiresWithToken'
  BY <1>0, AnswerReq
  DEF CommitRevocation, CommitRows, Idle, RowExpiresWithToken
<1>5. MarkerExpiresWithBurner'
  BY <1>0, AnswerReq
  DEF CommitRevocation, CommitRows, Idle, MarkerExpiresWithBurner,
      HistoryIssued
<1>6. HistoryIssued'
  BY <1>0, AnswerReq DEF CommitRevocation, CommitRows, Idle, HistoryIssued
<1>7. SpendingIsDenied'
  BY <1>0, AnswerReq, EveryRequest
  DEF CommitRevocation, CommitRows, Idle, SpendingIsDenied, Spending, Denied,
      RowExpiresWithToken
<1>8. SpentTokensStayDenied'
  BY <1>0, AnswerReq, EveryRequest
  DEF CommitRevocation, CommitRows, Idle, SpentTokensStayDenied,
      SpendingIsDenied, Spending, Denied, RowExpiresWithToken, HistoryIssued
<1>9. BurningIsBurned'
  BY <1>0, AnswerReq, EveryRequest
  DEF CommitRevocation, CommitRows, Idle, BurningIsBurned, Burned,
      HistoryIssued, MarkerExpiresWithBurner
<1>10. DenialsStand'
  BY <1>0, AnswerReq, EveryRequest
  DEF CommitRevocation, CommitRows, Idle, DenialsStand, OneWriterPerKey
<1> QED BY <1>1, <1>2, <1>3, <1>4, <1>5, <1>6, <1>7, <1>8, <1>9, <1>10

\* Rollback: only uncommitted rows disappear.
LEMMA AbortStep ==
  ASSUME IInv, NEW p \in Proc, Abort(p)
  PROVE  IInv'
<1> USE NoneAssumption, KeysDisjoint, LifetimeAssumption
    DEF TypeOK, tokenVars, historyVars, Key, At, Issued, HasRow, Tok, IInv
<1>1. TypeOK'
  BY AnswerReq DEF Abort, Idle
<1>2. RequestShape'
  <2> SUFFICES ASSUME NEW q \in Proc PROVE Shape(q)'
    BY DEF RequestShape
  <2>0. Shape(q)
    BY DEF RequestShape
  <2>1. CASE q = p
    BY <2>0, <2>1, AnswerReq DEF Abort, Shape
  <2>2. CASE q # p
    BY <2>0, <2>2, AnswerReq DEF Abort, Shape
  <2> QED BY <2>1, <2>2
<1>3. OneWriterPerKey'
  BY AnswerReq DEF Abort, Idle, OneWriterPerKey, RequestShape, Shape
<1>4. RowExpiresWithToken'
  BY AnswerReq DEF Abort, Idle, RowExpiresWithToken
<1>5. MarkerExpiresWithBurner'
  BY AnswerReq DEF Abort, Idle, MarkerExpiresWithBurner, HistoryIssued
<1>6. HistoryIssued'
  BY AnswerReq DEF Abort, Idle, HistoryIssued
<1>7. SpendingIsDenied'
  BY AnswerReq, EveryRequest
  DEF Abort, Idle, SpendingIsDenied, Spending, Denied, RowExpiresWithToken
<1>8. SpentTokensStayDenied'
  BY AnswerReq, EveryRequest
  DEF Abort, Idle, SpentTokensStayDenied, RowExpiresWithToken, HistoryIssued
<1>9. BurningIsBurned'
  BY AnswerReq, EveryRequest
  DEF Abort, Idle, BurningIsBurned, Burned, HistoryIssued,
      MarkerExpiresWithBurner
<1>10. DenialsStand'
  BY AnswerReq, EveryRequest DEF Abort, Idle, DenialsStand, OneWriterPerKey
<1> QED BY <1>1, <1>2, <1>3, <1>4, <1>5, <1>6, <1>7, <1>8, <1>9, <1>10

\* prune_expired: every row it deletes has expired with its token.
LEMMA PruneStep ==
  ASSUME IInv, Prune
  PROVE  IInv'
<1> USE NoneAssumption, KeysDisjoint, LifetimeAssumption
    DEF TypeOK, tokenVars, historyVars, Key, At, Issued, HasRow, Tok, IInv
<1>1. TypeOK'
  BY DEF Prune, Expired
<1>2. RequestShape'
  BY DEF Prune, Expired, RequestShape, Shape
<1>3. OneWriterPerKey'
  BY DEF Prune, Expired, OneWriterPerKey, RequestShape, Shape
<1>4. RowExpiresWithToken'
  BY DEF Prune, Expired, RowExpiresWithToken
<1>5. MarkerExpiresWithBurner'
  BY DEF Prune, Expired, MarkerExpiresWithBurner, HistoryIssued
<1>6. HistoryIssued'
  BY DEF Prune, Expired, HistoryIssued
<1>7. SpendingIsDenied'
  BY EveryRequest
  DEF Prune, Expired, SpendingIsDenied, Spending, Denied, RowExpiresWithToken
<1>8. SpentTokensStayDenied'
  BY EveryRequest
  DEF Prune, Expired, SpentTokensStayDenied, RowExpiresWithToken,
      HistoryIssued
<1>9. BurningIsBurned'
  BY EveryRequest
  DEF Prune, Expired, BurningIsBurned, Burned, HistoryIssued,
      MarkerExpiresWithBurner
<1>10. DenialsStand'
  BY EveryRequest DEF Prune, Expired, DenialsStand, OneWriterPerKey
<1> QED BY <1>1, <1>2, <1>3, <1>4, <1>5, <1>6, <1>7, <1>8, <1>9, <1>10

\* Time only adds expired tokens.
LEMMA TickStep ==
  ASSUME IInv, Tick
  PROVE  IInv'
<1> USE NoneAssumption, KeysDisjoint, LifetimeAssumption
    DEF TypeOK, tokenVars, historyVars, Key, At, Issued, HasRow, Tok, IInv
<1>1. TypeOK'
  BY DEF Tick
<1>2. RequestShape'
  BY DEF Tick, RequestShape, Shape
<1>3. OneWriterPerKey'
  BY DEF Tick, OneWriterPerKey, RequestShape, Shape
<1>4. RowExpiresWithToken'
  BY DEF Tick, RowExpiresWithToken
<1>5. MarkerExpiresWithBurner'
  BY DEF Tick, MarkerExpiresWithBurner, HistoryIssued
<1>6. HistoryIssued'
  BY DEF Tick, HistoryIssued
<1>7. SpendingIsDenied'
  BY EveryRequest
  DEF Tick, SpendingIsDenied, Spending, Denied, RowExpiresWithToken
<1>8. SpentTokensStayDenied'
  BY EveryRequest
  DEF Tick, SpentTokensStayDenied, RowExpiresWithToken, HistoryIssued
<1>9. BurningIsBurned'
  BY EveryRequest
  DEF Tick, BurningIsBurned, Burned, HistoryIssued, MarkerExpiresWithBurner
<1>10. DenialsStand'
  BY EveryRequest DEF Tick, DenialsStand, OneWriterPerKey
<1> QED BY <1>1, <1>2, <1>3, <1>4, <1>5, <1>6, <1>7, <1>8, <1>9, <1>10

\* Nothing changes.
LEMMA StutterStep ==
  ASSUME IInv, UNCHANGED vars
  PROVE  IInv'
<1> USE NoneAssumption, KeysDisjoint, LifetimeAssumption
    DEF TypeOK, tokenVars, historyVars, Key, At, Issued, HasRow, Tok, IInv
<1>1. TypeOK'
  BY DEF vars
<1>2. RequestShape'
  BY DEF vars, RequestShape, Shape
<1>3. OneWriterPerKey'
  BY DEF vars, OneWriterPerKey, RequestShape, Shape
<1>4. RowExpiresWithToken'
  BY DEF vars, RowExpiresWithToken
<1>5. MarkerExpiresWithBurner'
  BY DEF vars, MarkerExpiresWithBurner, HistoryIssued
<1>6. HistoryIssued'
  BY DEF vars, HistoryIssued
<1>7. SpendingIsDenied'
  BY EveryRequest
  DEF vars, SpendingIsDenied, Spending, Denied, RowExpiresWithToken
<1>8. SpentTokensStayDenied'
  BY EveryRequest
  DEF vars, SpentTokensStayDenied, RowExpiresWithToken, HistoryIssued
<1>9. BurningIsBurned'
  BY EveryRequest
  DEF vars, BurningIsBurned, Burned, HistoryIssued, MarkerExpiresWithBurner
<1>10. DenialsStand'
  BY EveryRequest DEF vars, DenialsStand, OneWriterPerKey
<1> QED BY <1>1, <1>2, <1>3, <1>4, <1>5, <1>6, <1>7, <1>8, <1>9, <1>10

\* Nothing is issued, denied or running at first.
LEMMA InitIInv == Init => IInv
BY NoneAssumption, KeysDisjoint
   DEF Init, IInv, TypeOK, Key, Request, Idle, RequestShape, Shape, At, Tok,
       OneWriterPerKey, HasRow, RowExpiresWithToken, MarkerExpiresWithBurner,
       HistoryIssued, Issued, SpendingIsDenied, Spending, Denied,
       SpentTokensStayDenied, BurningIsBurned, Burned, DenialsStand

\* IInv is inductive.
LEMMA NextIInv == IInv /\ [Next]_vars => IInv'
<1> SUFFICES ASSUME IInv, [Next]_vars PROVE IInv'
  OBVIOUS
<1>1. CASE \E t \in Token, f \in Family : Login(t, f)
  BY <1>1, LoginStep
<1>2. ASSUME NEW p \in Proc, Thread(p) PROVE IInv'
  <2>1. CASE \E t \in Token : StartRefresh(p, t) \/ StartLogout(p, t)
    BY <2>1, PresentStep DEF StartRefresh, StartLogout
  <2>2. CASE Statement(p)
    BY <2>2, CheckFamilyStep, CheckJtiStep, FindJtiStep, FindFamilyStep,
       IssueAndCommitStep, CommitRevocationStep DEF Statement
  <2>3. CASE InsertJti(p) \/ InsertFamily(p)
    BY <2>3, InsertStep DEF InsertJti, InsertFamily, Tok
  <2>4. CASE Abort(p)
    BY <2>4, AbortStep
  <2> QED BY <1>2, <2>1, <2>2, <2>3, <2>4 DEF Thread
<1>3. CASE Prune BY <1>3, PruneStep
<1>4. CASE Tick BY <1>4, TickStep
<1>5. CASE UNCHANGED vars BY <1>5, StutterStep
<1> QED BY <1>1, <1>2, <1>3, <1>4, <1>5 DEF Next

\* IInv holds in every reachable state.
LEMMA SpecIInv == Spec => []IInv
<1>1. Init => IInv
  BY InitIInv
<1>2. IInv /\ [Next]_vars => IInv'
  BY NextIInv
<1> QED BY <1>1, <1>2, PTL DEF Spec

-----------------------------------------------------------------------------
\* Every variable of the token store keeps its type.
THEOREM TypeCorrect == Spec => []TypeOK
<1>1. IInv => TypeOK
  BY DEF IInv
<1> QED BY <1>1, SpecIInv, PTL

\* A token that was rotated or logged out stays denied until it has expired,
\* whatever the prune job and concurrent requests do.
THEOREM SpentTokens == Spec => []SpentTokensStayDenied
<1>1. IInv => SpentTokensStayDenied
  BY DEF IInv
<1> QED BY <1>1, SpecIInv, PTL

\* A refresh that issues a token can have missed only revocations committed
\* while it ran, or rows that have expired since it began.
THEOREM RevocationSeen == Spec => []RevocationSeenByLaterRefresh
<1>1. IInv => RevocationSeenByLaterRefresh
  <2> SUFFICES ASSUME IInv, NEW p \in Proc, At(p, "issue"),
                      NEW e \in req[p].denials
               PROVE  e < now
    BY DEF RevocationSeenByLaterRefresh
  <2>1. req[p].op = "refresh"
    BY DEF IInv, RequestShape, Shape, At
  <2> QED BY <2>1 DEF IInv, DenialsStand, At
<1> QED BY <1>1, SpecIInv, PTL

\* A family that was logged out, or whose token was reused, has no live token
\* until one of the tokens that burned it has expired.
THEOREM BurnedFamily == Spec => []BurnedFamilyIsDead
<1>1. IInv => BurnedFamilyIsDead
  BY DEF IInv, BurningIsBurned, Burned, BurnedFamilyIsDead, Live
<1> QED BY <1>1, SpecIInv, PTL

-----------------------------------------------------------------------------
\* Request p waits at the unique index for a row that q has flushed.
WaitsFor(p, q) ==
  /\ q # p
  /\ \/ At(p, "insertJti") /\ Tok(p) \in pending[q]
     \/ At(p, "insertFamily") /\ fam[Tok(p)] \in pending[q]

\* Behind a waiting request there is at most one more that waits.
WaitsEnd ==
  \A p, q, s \in Proc : WaitsFor(p, q) /\ WaitsFor(q, s) =>
    ~\E x \in Proc : WaitsFor(s, x)

\* What makes requests finish: the token's row is inserted before the family's,
\* by everybody, so a request that waits for a token's row waits for one that
\* at most waits for a marker, and whoever has a marker only has to commit.
THEOREM NoDeadlock == Spec => []WaitsEnd
<1>1. ASSUME IInv, NEW p \in Proc, NEW q \in Proc, WaitsFor(p, q)
      PROVE  At(q, "insertFamily") \/ ~\E x \in Proc : WaitsFor(q, x)
  <2>1. ~At(q, "idle")
    BY <1>1 DEF IInv, RequestShape, Shape, WaitsFor
  <2>2. pending[q] \subseteq {Tok(q), fam[Tok(q)]} /\ pending[q] # {}
    BY <1>1, <2>1 DEF IInv, RequestShape, Shape, WaitsFor
  <2>3. req[q].step \in {"findFamily", "insertFamily", "commit", "issue"}
    BY <1>1, <2>1, <2>2 DEF IInv, RequestShape, Shape, At
  <2> QED BY <2>3 DEF WaitsFor, At
<1>2. ASSUME IInv, NEW p \in Proc, NEW q \in Proc, WaitsFor(p, q), At(p, "insertFamily")
      PROVE  ~\E x \in Proc : WaitsFor(q, x)
  <2>1. fam[Tok(p)] \in pending[q] /\ fam[Tok(p)] \in Family
    BY <1>2 DEF WaitsFor, IInv, RequestShape, Shape, At
  <2>2. ~At(q, "idle")
    BY <1>2, <2>1 DEF IInv, RequestShape, Shape
  <2>3. fam[Tok(q)] \in pending[q]
    <3>1. pending[q] \subseteq {Tok(q), fam[Tok(q)]} /\ Tok(q) \in Token
      BY <1>2, <2>2 DEF IInv, RequestShape, Shape
    <3> QED BY <2>1, <3>1, KeysDisjoint
  <2>4. At(q, "commit")
    BY <1>2, <2>2, <2>3 DEF IInv, RequestShape, Shape
  <2> QED BY <2>4 DEF WaitsFor, At
<1>3. IInv => WaitsEnd
  <2> SUFFICES ASSUME IInv, NEW p \in Proc, NEW q \in Proc, NEW s \in Proc,
                      WaitsFor(p, q), WaitsFor(q, s)
               PROVE  ~\E x \in Proc : WaitsFor(s, x)
    BY DEF WaitsEnd
  <2>1. At(q, "insertFamily")
    BY <1>1
  <2> QED BY <1>2, <2>1
<1> QED BY <1>3, SpecIInv, PTL
=============================================================================
