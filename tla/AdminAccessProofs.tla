-------------------------- MODULE AdminAccessProofs --------------------------
(***************************************************************************)
(* Proofs about AdminAccess, for any admins, addresses, token pairs,       *)
(* threads and lifetimes: reuse, roles and the last superadmin.            *)
(*                                                                         *)
(* IInv adds why a spent refresh token stays dead (its row is pruned only  *)
(* when it has expired, SpentIsDenied), that a request holds a pair that   *)
(* was issued, and that a write of a role or a deletion is not aimed at    *)
(* the actor itself (RequestShape).                                        *)
(***************************************************************************)
EXTENDS AdminAccess, TLAPS

\* A pair whose refresh token issued another is revoked or has expired.
SpentIsDenied ==
  \A n, k \in Pair : parent[n] = k => k \in revoked \/ ~RefreshValid(k)

\* What issued a pair was issued itself.
ParentsIssued == \A n, k \in Pair : parent[n] = k => Issued(k)

\* What a request knows: a pair that was issued, and its own write.
Shape(r) ==
  /\ ~r.late
  /\ r.step # "idle" => r.with \in Pair /\ Issued(r.with)
  /\ r.step \in {"find", "issue", "insert"} => r.op \in {"refresh", "logout"}
  /\ r.step = "write" /\ r.op = "create" => r.target \in Email /\ r.value \in Role
  /\ r.step = "write" /\ r.op = "update" => r.value \in Role
  /\ r.step = "write" /\ r.op \in {"update", "delete"} =>
       r.target \in Admin /\ r.target # pair[r.with].sub
  /\ r.step \in {"idle", "write"} => r.op \notin {"refresh", "logout"}

RequestShape == \A p \in Proc : Shape(req[p])

IInv ==
  /\ TypeOK
  /\ SpentIsDenied
  /\ ParentsIssued
  /\ RequestShape
  /\ RoleFromLogin

-----------------------------------------------------------------------------
LEMMA IdleShape == Idle \in Request /\ Shape(Idle)
BY DEF Idle, Request, Shape

\* Seeding adds a row, if it does anything.
LEMMA SeedAdds ==
  ASSUME NEW rows \in [Admin -> Row \cup {None, Gone}], NEW new \in Seeded(rows)
  PROVE  /\ new \in [Admin -> Row \cup {None, Gone}]
         /\ \A a \in Admin : rows[a] # None => new[a] = rows[a]
<1>1. [email |-> Root, role |-> "superadmin"] \in Row
  BY RootAssumption DEF Row, Role
<1>2. \/ new = rows
      \/ \E a \in Admin : rows[a] = None
           /\ new = [rows EXCEPT ![a] = [email |-> Root, role |-> "superadmin"]]
  BY DEF Seeded
<1> QED
  BY <1>1, <1>2

LEMMA InitIInv == Init => IInv
<1> SUFFICES ASSUME Init PROVE IInv
  OBVIOUS
<1>1. row \in [Admin -> Row \cup {None, Gone}]
  BY SeedAdds DEF Init
<1>2. TypeOK
  BY <1>1, IdleShape DEF Init, TypeOK
<1>3. SpentIsDenied /\ ParentsIssued /\ RoleFromLogin
  BY NoneAssumption DEF Init, SpentIsDenied, ParentsIssued, RoleFromLogin, Issued, RefreshValid
<1>4. RequestShape
  BY IdleShape DEF Init, RequestShape
<1> QED
  BY <1>2, <1>3, <1>4 DEF IInv

\* A request ends or goes on with what it has.
LEMMA RequestKept ==
  ASSUME IInv, NEW p \in Proc, NEW q \in Request, req' = [req EXCEPT ![p] = q],
         UNCHANGED pair, Shape(q)
  PROVE  req' \in [Proc -> Request] /\ RequestShape'
<1>1. req \in [Proc -> Request] /\ req' \in [Proc -> Request]
  BY DEF IInv, TypeOK
<1>2. ASSUME NEW x \in Proc PROVE Shape(req'[x])
  <2>1. CASE x = p
    BY <2>1, <1>1
  <2>2. CASE x # p
    BY <2>2, <1>1 DEF IInv, RequestShape
  <2> QED
    BY <2>1, <2>2
<1> QED
  BY <1>1, <1>2 DEF RequestShape, Shape, Issued

LEMMA OnlyRequest ==
  ASSUME IInv, NEW p \in Proc, NEW q \in Request, req' = [req EXCEPT ![p] = q],
         UNCHANGED <<now, pair, revoked, parent, granted>>, Shape(q),
         row' \in [Admin -> Row \cup {None, Gone}]
  PROVE  IInv'
<1>1. req' \in [Proc -> Request] /\ RequestShape'
  BY RequestKept
<1> QED
  BY <1>1 DEF IInv, TypeOK, SpentIsDenied, ParentsIssued, RoleFromLogin, RefreshValid, Issued

\* A pair is issued: nothing that was known of others changes.
LEMMA IssueKept ==
  ASSUME IInv, NEW k \in Pair, NEW a \in Admin, NEW role \in Role, Issue(k, a, role),
         UNCHANGED now, NEW q \in Request, Shape(q), NEW p \in Proc,
         req' = req \/ req' = [req EXCEPT ![p] = q]
  PROVE  /\ pair' \in [Pair -> Claims \cup {None}] /\ pair'[k].role = role
         /\ Issued(k)' /\ \A x \in Pair : x # k => pair'[x] = pair[x]
         /\ req' \in [Proc -> Request] /\ RequestShape'
<1> DEFINE new == [sub |-> a, role |-> role, iat |-> now]
<1>1. pair[k] = None /\ pair' = [pair EXCEPT ![k] = new]
  BY DEF Issue, Issued
<1>2. /\ now \in Nat /\ pair \in [Pair -> Claims \cup {None}]
      /\ req \in [Proc -> Request]
  BY DEF IInv, TypeOK
<1>3. new \in Claims /\ new # None /\ new.role = role
  BY <1>2, NoneAssumption DEF Claims
<1> HIDE DEF new
<1>4. /\ pair' \in [Pair -> Claims \cup {None}] /\ pair'[k] = new
      /\ \A x \in Pair : x # k => pair'[x] = pair[x]
  BY <1>1, <1>2, <1>3
<1>5. ASSUME NEW r, Shape(r) PROVE Shape(r)'
  <2>1. r.step # "idle" => r.with # k
    BY <1>1, <1>5 DEF Shape, Issued
  <2> QED
    BY <1>4, <1>5, <2>1 DEF Shape, Issued
<1>6. \A x \in Proc : req'[x] \in Request /\ Shape(req'[x])
  <2>1. \A x \in Proc : req'[x] = req[x] \/ req'[x] = q
    BY <1>2
  <2> QED
    BY <1>2, <2>1 DEF IInv, RequestShape
<1>7. RequestShape'
  BY <1>5, <1>6 DEF RequestShape
<1> QED
  BY <1>2, <1>3, <1>4, <1>7 DEF Issued

LEMMA LoginKept ==
  ASSUME IInv, NEW k \in Pair, NEW a \in Admin, Login(k, a)
  PROVE  IInv'
<1>1. /\ pair[k] = None /\ Issue(k, a, row[a].role) /\ row[a].role \in Role
      /\ granted' = [granted EXCEPT ![k] = row[a].role]
      /\ UNCHANGED <<now, row, revoked, req, parent>>
  BY DEF Login, Issue, Issued, Exists, IInv, TypeOK, Row
<1>2. \A p \in Proc : req[p] \in Request
  BY DEF IInv, TypeOK
<1>3. /\ pair' \in [Pair -> Claims \cup {None}] /\ pair'[k].role = row[a].role
      /\ Issued(k)' /\ \A x \in Pair : x # k => pair'[x] = pair[x]
      /\ RequestShape'
  <2>1. CASE Proc = {}
    <3> DEFINE new == [sub |-> a, role |-> row[a].role, iat |-> now]
    <3>1. new \in Claims /\ pair' = [pair EXCEPT ![k] = new]
      BY <1>1 DEF Issue, Claims, IInv, TypeOK
    <3> QED
      BY <2>1, <3>1, NoneAssumption DEF RequestShape, Issued, IInv, TypeOK
  <2>2. CASE Proc # {}
    BY <1>1, <2>2, IdleShape, IssueKept
  <2> QED
    BY <2>1, <2>2
<1>4. TypeOK'
  BY <1>1, <1>3 DEF IInv, TypeOK
<1>5. SpentIsDenied' /\ ParentsIssued'
  <2>1. \A n \in Pair : parent[n] # k
    BY <1>1 DEF IInv, ParentsIssued, Issued
  <2> QED
    BY <1>1, <1>3, <2>1 DEF IInv, SpentIsDenied, ParentsIssued, RefreshValid, Issued
<1>6. RoleFromLogin'
  BY <1>1, <1>3 DEF IInv, TypeOK, RoleFromLogin, Issued
<1> QED
  BY <1>3, <1>4, <1>5, <1>6 DEF IInv

LEMMA StartRefreshKept ==
  ASSUME IInv, NEW p \in Proc, NEW k \in Pair, StartRefresh(p, k)
  PROVE  IInv'
<1> DEFINE q == [Idle EXCEPT !.step = "find", !.op = "refresh", !.with = k,
                             !.late = \E n \in Pair : parent[n] = k]
<1>1. RefreshValid(k) /\ k \notin revoked /\ req' = [req EXCEPT ![p] = q]
      /\ UNCHANGED <<now, row, pair, revoked, parent, granted>>
  BY DEF StartRefresh
<1>2. ~\E n \in Pair : parent[n] = k
  BY <1>1 DEF IInv, SpentIsDenied
<1>3. q = [Idle EXCEPT !.step = "find", !.op = "refresh", !.with = k, !.late = FALSE]
  BY <1>2
<1>4. q \in Request /\ Shape(q)
  BY <1>1, <1>3 DEF Idle, Request, Shape, RefreshValid
<1> HIDE DEF q
<1> QED
  BY <1>1, <1>4, OnlyRequest DEF IInv, TypeOK

LEMMA StartLogoutKept ==
  ASSUME IInv, NEW p \in Proc, NEW k \in Pair, StartLogout(p, k)
  PROVE  IInv'
<1> DEFINE q == [Idle EXCEPT !.step = "find", !.op = "logout", !.with = k]
<1>1. RefreshValid(k) /\ req' = [req EXCEPT ![p] = q]
      /\ UNCHANGED <<now, row, pair, revoked, parent, granted>>
  BY DEF StartLogout
<1>2. q \in Request /\ Shape(q)
  BY <1>1 DEF Idle, Request, Shape, RefreshValid
<1> HIDE DEF q
<1> QED
  BY <1>1, <1>2, OnlyRequest DEF IInv, TypeOK

LEMMA FindKept ==
  ASSUME IInv, NEW p \in Proc, FindRevoked(p)
  PROVE  IInv'
<1>1. req[p] \in Request /\ Shape(req[p]) /\ req[p].step = "find"
      /\ row \in [Admin -> Row \cup {None, Gone}]
  BY DEF IInv, TypeOK, RequestShape, FindRevoked, At
<1>2. UNCHANGED <<now, row, pair, revoked, parent, granted>>
  BY DEF FindRevoked
<1>3. ASSUME NEW s \in {"insert", "issue"}, req' = [req EXCEPT ![p].step = s]
      PROVE  IInv'
  <2> DEFINE q == [req[p] EXCEPT !.step = s]
  <2>1. q \in Request /\ Shape(q)
    BY <1>1 DEF Request, Shape
  <2>2. req' = [req EXCEPT ![p] = q]
    BY <1>3
  <2> HIDE DEF q
  <2> QED
    BY <1>1, <1>2, <2>1, <2>2, OnlyRequest
<1>4. CASE Answer(p)
  BY <1>1, <1>2, <1>4, IdleShape, OnlyRequest DEF Answer
<1> QED
  BY <1>3, <1>4 DEF FindRevoked, Goto

LEMMA CommitRefreshKept ==
  ASSUME IInv, NEW p \in Proc, NEW k \in Pair, CommitRefresh(p, k)
  PROVE  IInv'
<1> DEFINE old == req[p].with  a == pair[old].sub  role == pair[old].role
<1>1. /\ req[p].op = "refresh" /\ Issue(k, a, role) /\ revoked' = revoked \cup {old}
      /\ parent' = [parent EXCEPT ![k] = old]
      /\ granted' = [granted EXCEPT ![k] = granted[old]]
      /\ req' = [req EXCEPT ![p] = Idle] /\ UNCHANGED <<now, row>>
  BY DEF CommitRefresh, Answer, Revoke, RoleClaim
<1>2. Shape(req[p]) /\ req[p].step \notin {"idle", "write"}
  BY DEF CommitRefresh, At, IInv, RequestShape
<1>3. old \in Pair /\ pair[old] # None /\ pair[old] \in Claims
  BY <1>2 DEF Shape, Issued, IInv, TypeOK
<1>4. a \in Admin /\ role \in Role /\ role = granted[old] /\ pair[k] = None
  BY <1>1, <1>3 DEF Claims, IInv, RoleFromLogin, Issued, Issue
<1>5. /\ pair' \in [Pair -> Claims \cup {None}] /\ pair'[k].role = role
      /\ Issued(k)' /\ \A x \in Pair : x # k => pair'[x] = pair[x]
      /\ req' \in [Proc -> Request] /\ RequestShape'
  BY <1>1, <1>4, IdleShape, IssueKept
<1>6. TypeOK'
  BY <1>1, <1>3, <1>4, <1>5 DEF IInv, TypeOK
<1> HIDE DEF old
<1>7. old # k /\ \A n \in Pair : parent[n] # k
  BY <1>3, <1>4 DEF IInv, ParentsIssued, Issued
<1>8. \A n \in Pair : parent'[n] = IF n = k THEN old ELSE parent[n]
  BY <1>1 DEF IInv, TypeOK
<1>9. SpentIsDenied'
  BY <1>1, <1>5, <1>7, <1>8 DEF IInv, SpentIsDenied, RefreshValid, Issued
<1>10. ParentsIssued'
  BY <1>3, <1>5, <1>7, <1>8 DEF IInv, ParentsIssued, Issued
<1>11. RoleFromLogin'
  BY <1>1, <1>3, <1>4, <1>5 DEF IInv, TypeOK, RoleFromLogin, Issued
<1> QED
  BY <1>5, <1>6, <1>9, <1>10, <1>11 DEF IInv

LEMMA CommitLogoutKept ==
  ASSUME IInv, NEW p \in Proc, CommitLogout(p)
  PROVE  IInv'
<1>1. /\ revoked' = revoked \cup {req[p].with} /\ req' = [req EXCEPT ![p] = Idle]
      /\ UNCHANGED <<now, row, pair, parent, granted>>
  BY DEF CommitLogout, Answer, Revoke
<1>2. req[p].with \in Pair
  BY DEF IInv, RequestShape, Shape, CommitLogout, At
<1>3. req' \in [Proc -> Request] /\ RequestShape'
  BY <1>1, IdleShape, RequestKept
<1> QED
  BY <1>1, <1>2, <1>3
     DEF IInv, TypeOK, SpentIsDenied, ParentsIssued, RoleFromLogin, RefreshValid, Issued

LEMMA StartWriteKept ==
  ASSUME IInv, NEW p \in Proc, NEW k \in Pair, NEW op \in {"create", "update", "delete"},
         NEW target \in Admin \cup Email, NEW value \in Role \cup {None},
         NEW saw \in Role \cup {None},
         Issued(k), StartWrite(p, k, op, target, value, saw),
         op = "create" => target \in Email /\ value \in Role,
         op = "update" => value \in Role,
         op \in {"update", "delete"} => target \in Admin /\ target # pair[k].sub
  PROVE  IInv'
<1> DEFINE q == [step |-> "write", op |-> op, with |-> k, target |-> target,
                 value |-> value, saw |-> saw, late |-> FALSE]
<1>1. q \in Request /\ Shape(q)
  BY DEF Request, Shape
<1>2. req' = [req EXCEPT ![p] = q]
      /\ UNCHANGED <<now, row, pair, revoked, parent, granted>>
  BY DEF StartWrite
<1> HIDE DEF q
<1> QED
  BY <1>1, <1>2, OnlyRequest DEF IInv, TypeOK

\* A request that writes rows removes no superadmin that is its own actor.
WriteStep(p) ==
  /\ At(p, "write")
  /\ req'[p] = Idle
  /\ Exists(Actor(p)) => row'[Actor(p)] = row[Actor(p)]
  /\ Actor(p) \in Admin

LEMMA CommitCreateKept ==
  ASSUME IInv, NEW p \in Proc, NEW a \in Admin, CommitCreate(p, a)
  PROVE  IInv' /\ \A b \in Admin : Exists(b) => row'[b] = row[b]
<1> DEFINE new == [email |-> req[p].target, role |-> req[p].value]
<1>1. /\ row[a] = None /\ row' = [row EXCEPT ![a] = new]
      /\ req' = [req EXCEPT ![p] = Idle]
      /\ UNCHANGED <<now, pair, revoked, parent, granted>>
  BY DEF CommitCreate, Answer
<1>2. new \in Row
  BY DEF IInv, RequestShape, Shape, CommitCreate, At, Row
<1> HIDE DEF new
<1>3. row \in [Admin -> Row \cup {None, Gone}]
  BY DEF IInv, TypeOK
<1>4. row' \in [Admin -> Row \cup {None, Gone}]
      /\ \A b \in Admin : Exists(b) => row'[b] = row[b]
  BY <1>1, <1>2, <1>3 DEF Exists
<1> QED
  BY <1>1, <1>4, IdleShape, OnlyRequest

LEMMA CommitWriteKept ==
  ASSUME IInv, NEW p \in Proc, CommitUpdate(p) \/ CommitDelete(p)
  PROVE  IInv' /\ WriteStep(p)
<1> DEFINE a == req[p].target  v == req[p].value
<1>1. /\ At(p, "write") /\ req' = [req EXCEPT ![p] = Idle]
      /\ UNCHANGED <<now, pair, revoked, parent, granted>>
      /\ \/ row' = row
         \/ row' = [row EXCEPT ![a].role = v] /\ Exists(a) /\ req[p].op = "update"
         \/ row' = [row EXCEPT ![a] = Gone]
  BY DEF CommitUpdate, CommitDelete, Answer
<1>2. /\ a \in Admin /\ a # Actor(p) /\ (req[p].op = "update" => v \in Role)
      /\ req[p].with \in Pair /\ Issued(req[p].with)
  BY DEF IInv, RequestShape, Shape, CommitUpdate, CommitDelete, At, Actor
<1>3. /\ row \in [Admin -> Row \cup {None, Gone}] /\ req \in [Proc -> Request]
      /\ Actor(p) \in Admin
  BY <1>2 DEF IInv, TypeOK, Issued, Actor, Claims
<1> HIDE DEF a, v
<1>4. row' \in [Admin -> Row \cup {None, Gone}]
      /\ \A b \in Admin : b # a => row'[b] = row[b]
  BY <1>1, <1>2, <1>3 DEF Exists, Row
<1>5. IInv'
  BY <1>1, <1>4, IdleShape, OnlyRequest
<1>6. WriteStep(p)
  BY <1>1, <1>2, <1>3, <1>4 DEF WriteStep
<1> QED
  BY <1>5, <1>6

LEMMA RestartKept ==
  ASSUME IInv, Restart
  PROVE  IInv' /\ \A b \in Admin : Exists(b) => row'[b] = row[b]
<1>1. /\ row' \in [Admin -> Row \cup {None, Gone}]
      /\ \A b \in Admin : Exists(b) => row'[b] = row[b]
  BY SeedAdds DEF Restart, IInv, TypeOK, Exists
<1>2. req' \in [Proc -> Request] /\ RequestShape'
  <2>1. Shape(Idle)'
    BY IdleShape DEF Shape, Idle
  <2> QED
    BY <2>1, IdleShape DEF Restart, RequestShape
<1> QED
  BY <1>1, <1>2
     DEF Restart, IInv, TypeOK, SpentIsDenied, ParentsIssued, RoleFromLogin, RefreshValid, Issued

LEMMA PruneKept == IInv /\ Prune => IInv'
BY DEF Prune, IInv, TypeOK, SpentIsDenied, ParentsIssued, RequestShape, Shape, RoleFromLogin,
       RefreshValid, Issued

LEMMA TickKept == IInv /\ Tick => IInv'
<1> SUFFICES ASSUME IInv, Tick PROVE IInv'
  OBVIOUS
<1>1. now' = now + 1 /\ now \in Nat /\ UNCHANGED <<row, pair, revoked, req, parent, granted>>
  BY DEF Tick, IInv, TypeOK
<1>2. \A k \in Pair : RefreshValid(k)' => RefreshValid(k)
  <2> SUFFICES ASSUME NEW k \in Pair, Issued(k), now + 1 < pair[k].iat + RefreshLife
               PROVE  now < pair[k].iat + RefreshLife
    BY <1>1 DEF RefreshValid, Issued
  <2>1. pair[k].iat \in Nat
    BY DEF IInv, TypeOK, Issued, Claims
  <2> QED
    BY <1>1, <2>1, LifeAssumption
<1> QED
  BY <1>1, <1>2
     DEF IInv, TypeOK, SpentIsDenied, ParentsIssued, RequestShape, Shape, RoleFromLogin, Issued

\* What a step may do to rows: nothing to one that exists, or a write.
RowStep ==
  \/ \A b \in Admin : Exists(b) => row'[b] = row[b]
  \/ \E p \in Proc : WriteStep(p)

LEMMA NextIInv == IInv /\ [Next]_vars => IInv' /\ RowStep
<1> SUFFICES ASSUME IInv, [Next]_vars PROVE IInv' /\ RowStep
  OBVIOUS
<1>1. ASSUME UNCHANGED row PROVE RowStep
  BY <1>1 DEF RowStep
<1>2. ASSUME NEW k \in Pair, NEW a \in Admin, Login(k, a)
      PROVE  IInv' /\ RowStep
  BY <1>1, <1>2, LoginKept DEF Login
<1>3. ASSUME NEW p \in Proc, NEW k \in Pair,
             StartRefresh(p, k) \/ StartLogout(p, k) \/ CommitRefresh(p, k)
      PROVE  IInv' /\ RowStep
  BY <1>1, <1>3, StartRefreshKept, StartLogoutKept, CommitRefreshKept
     DEF StartRefresh, StartLogout, CommitRefresh
<1>4. ASSUME NEW p \in Proc, NEW k \in Pair, NEW e \in Email, NEW r \in Given,
             StartCreate(p, k, e, r)
      PROVE  IInv' /\ RowStep
  <2>1. r \in Role /\ Issued(k) /\ StartWrite(p, k, "create", e, r, None)
    BY <1>4, GivenAssumption DEF StartCreate, Allowed, AccessValid, Role
  <2> QED
    BY <1>1, <2>1, StartWriteKept DEF StartWrite
<1>5. ASSUME NEW p \in Proc, NEW k \in Pair, NEW a \in Admin, StartDelete(p, k, a)
      PROVE  IInv' /\ RowStep
  <2>1. a # pair[k].sub /\ Issued(k) /\ StartWrite(p, k, "delete", a, None, None)
    BY <1>5 DEF StartDelete, Allowed, AccessValid
  <2> QED
    BY <1>1, <2>1, StartWriteKept DEF StartWrite
<1>6. ASSUME NEW p \in Proc, NEW k \in Pair, NEW a \in Admin, NEW r \in Given,
             StartUpdate(p, k, a, r)
      PROVE  IInv' /\ RowStep
  <2>1. /\ a # pair[k].sub /\ Issued(k) /\ r \in Role
        /\ StartWrite(p, k, "update", a, r, row[a].role) /\ row[a].role \in Role
    BY <1>6, GivenAssumption
       DEF StartUpdate, Allowed, AccessValid, Exists, IInv, TypeOK, Row, Role
  <2> QED
    BY <1>1, <2>1, StartWriteKept DEF StartWrite
<1>7. ASSUME NEW p \in Proc, FindRevoked(p) \/ CommitLogout(p)
      PROVE  IInv' /\ RowStep
  BY <1>1, <1>7, FindKept, CommitLogoutKept DEF FindRevoked, CommitLogout
<1>8. ASSUME NEW p \in Proc, Fail(p)
      PROVE  IInv' /\ RowStep
  BY <1>1, <1>8, IdleShape, OnlyRequest DEF Fail, Answer, IInv, TypeOK
<1>9. ASSUME NEW p \in Proc, NEW a \in Admin, CommitCreate(p, a)
      PROVE  IInv' /\ RowStep
  BY <1>9, CommitCreateKept DEF RowStep
<1>10. ASSUME NEW p \in Proc, CommitUpdate(p) \/ CommitDelete(p)
       PROVE  IInv' /\ RowStep
  BY <1>10, CommitWriteKept DEF RowStep
<1>11. CASE Restart
  BY <1>11, RestartKept DEF RowStep
<1>12. CASE Prune
  BY <1>1, <1>12, PruneKept DEF Prune
<1>13. CASE Tick
  BY <1>1, <1>13, TickKept DEF Tick
<1>14. CASE UNCHANGED vars
  BY <1>1, <1>14 DEF vars, IInv, TypeOK, SpentIsDenied, ParentsIssued, RequestShape, Shape,
                     RoleFromLogin, RefreshValid, Issued
<1> QED
  BY <1>2, <1>3, <1>4, <1>5, <1>6, <1>7, <1>8, <1>9, <1>10, <1>11, <1>12, <1>13, <1>14 DEF Next

-----------------------------------------------------------------------------
\* Every reachable state has the types declared.
THEOREM TypeCorrect == Spec => []TypeOK
<1>1. IInv => TypeOK
  BY DEF IInv
<1> QED
  BY <1>1, InitIInv, NextIInv, PTL DEF Spec

\* A spent refresh token of an admin yields nothing to a later request (refresh).
THEOREM SpentRefresh == Spec => []SpentRefreshIsDead
<1>1. IInv => SpentRefreshIsDead
  BY DEF IInv, RequestShape, Shape, SpentRefreshIsDead
<1> QED
  BY <1>1, InitIInv, NextIInv, PTL DEF Spec

\* A chain of refreshes says what the row said at its login.
THEOREM Roles == Spec => []RoleFromLogin
<1>1. IInv => RoleFromLogin
  BY DEF IInv
<1> QED
  BY <1>1, InitIInv, NextIInv, PTL DEF Spec

\* The last superadmin is lost only to an actor who is none any more.
THEOREM LastSuperadmin == Spec => LastSuperadminFallsToStaleClaim
<1>1. IInv /\ [Next]_vars =>
        [Superadmins # {} /\ Superadmins' = {} =>
           \E p \in Proc : At(p, "write") /\ req'[p] = Idle
                             /\ Actor(p) \notin Superadmins]_vars
  <2> SUFFICES ASSUME RowStep, Superadmins # {}, Superadmins' = {}
               PROVE  \E p \in Proc : At(p, "write") /\ req'[p] = Idle
                                         /\ Actor(p) \notin Superadmins
    BY NextIInv
  <2>1. ASSUME NEW b \in Superadmins, row'[b] = row[b]
        PROVE  FALSE
    BY <2>1 DEF Superadmins, Exists
  <2>2. PICK p \in Proc : WriteStep(p)
    BY <2>1 DEF RowStep, Superadmins
  <2>3. Actor(p) \notin Superadmins
    BY <2>1, <2>2 DEF WriteStep, Superadmins
  <2> QED
    BY <2>2, <2>3 DEF WriteStep
<1> QED
  BY <1>1, InitIInv, NextIInv, PTL DEF Spec, LastSuperadminFallsToStaleClaim
=============================================================================
