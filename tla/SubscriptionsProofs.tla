------------------------- MODULE SubscriptionsProofs -------------------------
(***************************************************************************)
(* Proofs about Subscriptions, for any plans, stacks, customers, edits and *)
(* requests: the gate holds, what it admitted is billed, edits survive.    *)
(*                                                                         *)
(* A lookup that no edit has overtaken shows what the plan says now        *)
(* (FreshLookup), and every KB is in a stack that its customer's plan      *)
(* lists, but for those that an edit or a late INSERT has left behind      *)
(* (KbsListed).  The gate is read off the first, the bill off both.        *)
(***************************************************************************)
EXTENDS Subscriptions, TLAPS

Types ==
  /\ plans \in [Plan -> Row \cup {None}]
  /\ sub \in [Customer -> Plan \cup {None}]
  /\ kbs \in [Customer -> [Stack -> Nat]]
  /\ areq \in [Admin -> AdminRequest]
  /\ reader \in [Reader -> Lookup]
  /\ outgrown \in SUBSET (Customer \X Stack)

\* A customer has a plan that exists: no code deletes one.
AssignedExists == \A c \in Customer : sub[c] # None => Exists(sub[c])

\* What a request of an administrator has made sure of.
Asks(q) ==
  /\ q.op = "create" => q.body \in Row
  /\ q.op = "update" => q.plan \in Plan /\ Exists(q.plan) /\ q.body \in Body
  /\ q.op = "assign" => q.plan \in Plan /\ Exists(q.plan) /\ q.customer \in Customer

AdminShape == \A a \in Admin : Asks(areq[a])

\* A lookup that no edit has overtaken has seen what there is now: first the
\* assignment, then what the plan offers, or that there is none.
Fresh(l) ==
  l.step # "idle" /\ ~l.stale =>
    /\ l.step = "plan" => l.plan = sub[l.customer]
    /\ l.offer # None => /\ l.offer.stacks = Listed(plans, sub, l.customer)
                         /\ l.offer.cap = Quota(plans, sub, l.customer)
    /\ l.step = "act" /\ l.offer = None /\ l.plan = None
         => sub[l.customer] = None

\* What a request of the other services knows at each step.
LookupShape(l) ==
  /\ l.step # "idle" => l.customer \in Customer
  /\ l.step = "idle" => l.customer = None
  /\ l.step = "plan" => l.plan \in Plan /\ Exists(l.plan) /\ l.offer = None
  /\ l.op = "create_kb" => l.stack \in Stack

FreshLookup == \A r \in Reader : LookupShape(reader[r]) /\ Fresh(reader[r])

\* A KB in a stack that its customer's plan does not list is outgrown.
KbsListed ==
  \A c \in Customer, s \in Stack :
    kbs[c][s] > 0 => s \in Listed(plans, sub, c) \/ <<c, s>> \in outgrown

IInv == Types /\ AssignedExists /\ AdminShape /\ FreshLookup /\ KbsListed

-----------------------------------------------------------------------------
\* Rows that are there stay, with the names, stacks and quotas that Publish
\* is given for them: a KB's stack or a lookup is left behind only knowingly.
LEMMA PublishKept ==
  ASSUME IInv, NEW ps \in [Plan -> Row \cup {None}],
         NEW sb \in [Customer -> Plan \cup {None}],
         Publish(ps, sb), UNCHANGED kbs,
         \A p \in Plan : Exists(p) => ps[p] # None,
         \A c \in Customer : sb[c] # None => ps[sb[c]] # None
  PROVE  /\ plans' \in [Plan -> Row \cup {None}]
         /\ sub' \in [Customer -> Plan \cup {None}]
         /\ kbs' \in [Customer -> [Stack -> Nat]]
         /\ reader' \in [Reader -> Lookup]
         /\ outgrown' \in SUBSET (Customer \X Stack)
         /\ AssignedExists' /\ FreshLookup' /\ KbsListed'
<1> DEFINE Changed(c) == \/ sb[c] # sub[c]
                         \/ Listed(ps, sb, c) # Listed(plans, sub, c)
                         \/ Quota(ps, sb, c) # Quota(plans, sub, c)
<1>1. /\ plans' = ps
      /\ sub' = sb
      /\ reader' = [r \in Reader |->
           IF reader[r].customer # None /\ Changed(reader[r].customer)
             THEN [reader[r] EXCEPT !.stale = TRUE] ELSE reader[r]]
      /\ outgrown' = {cs \in Customer \X Stack :
           /\ kbs[cs[1]][cs[2]] > 0
           /\ IF Changed(cs[1]) THEN cs[2] \notin Listed(ps, sb, cs[1])
                                ELSE cs \in outgrown}
  BY DEF Publish
<1>2. \A r \in Reader :
        IF reader[r].customer # None /\ Changed(reader[r].customer)
          THEN reader'[r] = [reader[r] EXCEPT !.stale = TRUE]
          ELSE reader'[r] = reader[r]
  BY <1>1
<1>3. \A c \in Customer : ~Changed(c) =>
        /\ sb[c] = sub[c]
        /\ Listed(ps, sb, c) = Listed(plans, sub, c)
        /\ Quota(ps, sb, c) = Quota(plans, sub, c)
  OBVIOUS
<1>4. \A c \in Customer, s \in Stack : kbs[c][s] > 0 =>
        IF Changed(c) THEN s \notin Listed(ps, sb, c) => <<c, s>> \in outgrown'
                      ELSE <<c, s>> \in outgrown => <<c, s>> \in outgrown'
  BY <1>1
<1>5. outgrown' \in SUBSET (Customer \X Stack)
  BY <1>1
<1>6. reader' \in [Reader -> Lookup]
  <2>1. \A l \in Lookup : [l EXCEPT !.stale = TRUE] \in Lookup
    BY DEF Lookup
  <2>2. reader \in [Reader -> Lookup]
    BY DEF IInv, Types
  <2> HIDE DEF Changed
  <2> QED  BY <1>1, <2>1, <2>2
<1> HIDE DEF Changed
<1>7. KbsListed'
  <2> SUFFICES ASSUME NEW c \in Customer, NEW s \in Stack, kbs[c][s] > 0,
                      s \notin Listed(ps, sb, c)
               PROVE  <<c, s>> \in outgrown'
    BY <1>1 DEF KbsListed
  <2>1. CASE Changed(c)
    BY <2>1, <1>4
  <2>2. CASE ~Changed(c)
    BY <2>2, <1>3, <1>4 DEF IInv, KbsListed
  <2> QED  BY <2>1, <2>2
<1>8. FreshLookup'
  <2> SUFFICES ASSUME NEW r \in Reader
               PROVE  (LookupShape(reader[r]) /\ Fresh(reader[r]))'
    BY DEF FreshLookup
  <2> DEFINE l == reader[r]
  <2>1. l \in Lookup /\ LookupShape(l) /\ Fresh(l)
    BY DEF IInv, Types, FreshLookup
  <2>2. CASE l.customer # None /\ Changed(l.customer)
    <3>1. reader'[r] = [l EXCEPT !.stale = TRUE]
      BY <2>2, <1>2
    <3>2. /\ reader'[r].stale
          /\ reader'[r].step = l.step /\ reader'[r].customer = l.customer
          /\ reader'[r].plan = l.plan /\ reader'[r].offer = l.offer
          /\ reader'[r].op = l.op /\ reader'[r].stack = l.stack
      BY <3>1, <2>1 DEF Lookup
    <3> QED  BY <2>1, <3>2, <1>1 DEF LookupShape, Fresh, Exists
  <2>3. CASE ~(l.customer # None /\ Changed(l.customer))
    <3>1. reader'[r] = l
      BY <2>3, <1>2
    <3>2. l.step # "idle" => /\ l.customer \in Customer /\ ~Changed(l.customer)
      BY <2>1, <2>3, NoneAssumption DEF LookupShape
    <3>3. LookupShape(reader[r])'
      BY <2>1, <3>1, <1>1 DEF LookupShape, Exists
    <3>4. Fresh(reader[r])'
      BY <2>1, <3>1, <3>2, <1>1, <1>3 DEF Fresh
    <3> QED  BY <3>3, <3>4
  <2> QED  BY <2>2, <2>3
<1> QED  BY <1>1, <1>5, <1>6, <1>7, <1>8 DEF IInv, Types, AssignedExists, Exists

\* A request of an administrator that begins or ends leaves the others alone.
LEMMA AdminKept ==
  ASSUME IInv, NEW a \in Admin, NEW q \in AdminRequest,
         areq' = [areq EXCEPT ![a] = q],
         plans' \in [Plan -> Row \cup {None}],
         \A p \in Plan : plans[p] # None => plans'[p] # None,
         Asks(q)
  PROVE  areq' \in [Admin -> AdminRequest] /\ AdminShape'
<1>1. areq \in [Admin -> AdminRequest]
  BY DEF IInv, Types
<1>2. \A b \in Admin : areq'[b] = IF b = a THEN q ELSE areq[b]
  BY <1>1
<1>3. \A b \in Admin : Asks(areq'[b])
  BY <1>2 DEF IInv, AdminShape
<1> QED  BY <1>1, <1>3 DEF AdminShape, Asks, Exists

LEMMA IdleShape == AdminIdle \in AdminRequest /\ ReaderIdle \in Lookup
BY DEF AdminIdle, AdminRequest, ReaderIdle, Lookup

\* When the tables stay, only the request of a has changed.
LEMMA AdminOnly ==
  ASSUME IInv, NEW a \in Admin, NEW q \in AdminRequest,
         areq' = [areq EXCEPT ![a] = q], Asks(q),
         UNCHANGED <<plans, sub, kbs, reader, outgrown>>
  PROVE  IInv'
<1>1. plans' \in [Plan -> Row \cup {None}]
  BY DEF IInv, Types
<1>2. areq' \in [Admin -> AdminRequest] /\ AdminShape'
  BY <1>1, AdminKept
<1> QED
  BY <1>2 DEF IInv, Types, AssignedExists, FreshLookup, LookupShape, Fresh,
       Exists, Listed, Quota, KbsListed

\* When the plans stay, only the lookup of r has changed.
LEMMA ReaderOnly ==
  ASSUME IInv, NEW r \in Reader, NEW l \in Lookup,
         reader' = [reader EXCEPT ![r] = l], LookupShape(l), Fresh(l),
         UNCHANGED <<plans, sub, areq>>
  PROVE  reader' \in [Reader -> Lookup] /\ FreshLookup'
<1>1. reader \in [Reader -> Lookup]
  BY DEF IInv, Types
<1>2. \A q \in Reader : reader'[q] = IF q = r THEN l ELSE reader[q]
  BY <1>1
<1>3. \A q \in Reader : LookupShape(reader'[q]) /\ Fresh(reader'[q])
  BY <1>2 DEF IInv, FreshLookup
<1> QED
  BY <1>1, <1>3 DEF FreshLookup, LookupShape, Fresh, Exists, Listed, Quota

-----------------------------------------------------------------------------
\* The seed adds rows and leaves those that are there.
LEMMA SeedsAdd ==
  ASSUME NEW old \in [Plan -> Row \cup {None}], NEW ps \in Seeds(old)
  PROVE  /\ ps \in [Plan -> Row \cup {None}]
         /\ \A p \in Plan : old[p] # None => ps[p] = old[p]
<1> DEFINE missing == {d \in Defaults : \A p \in Plan : old[p] # None
                                          => old[p].name # d.name}
           spare   == {p \in Plan : old[p] = None}
<1>1. PICK at \in [missing -> spare] :
        ps = [p \in Plan |-> IF \E d \in missing : at[d] = p
                THEN CHOOSE d \in missing : at[d] = p ELSE old[p]]
  BY DEF Seeds
<1>2. missing \subseteq Row
  BY DefaultsAssumption
<1> HIDE DEF missing
<1>3. ASSUME NEW p \in Plan
      PROVE  /\ ps[p] \in Row \cup {None}
             /\ old[p] # None => ps[p] = old[p]
  <2>1. CASE \E d \in missing : at[d] = p
    <3>1. (CHOOSE d \in missing : at[d] = p) \in missing
      BY <2>1
    <3>2. ps[p] \in missing
      BY <1>1, <2>1, <3>1
    <3>3. old[p] = None
      BY <2>1
    <3> QED  BY <3>2, <3>3, <1>2
  <2>2. CASE ~\E d \in missing : at[d] = p
    BY <2>2, <1>1
  <2> QED  BY <2>1, <2>2
<1>4. ps = [p \in Plan |-> ps[p]]
  BY <1>1
<1> QED  BY <1>3, <1>4

LEMMA InitIInv == Init => IInv
<1> SUFFICES ASSUME Init PROVE IInv
  OBVIOUS
<1>1. plans \in [Plan -> Row \cup {None}]
  <2>1. [p \in Plan |-> None] \in [Plan -> Row \cup {None}]
    OBVIOUS
  <2> QED  BY <2>1, SeedsAdd DEF Init
<1>2. areq \in [Admin -> AdminRequest] /\ reader \in [Reader -> Lookup]
  BY IdleShape DEF Init
<1>3. Types
  BY <1>1, <1>2 DEF Init, Types
<1>4. AssignedExists /\ KbsListed
  BY DEF Init, AssignedExists, KbsListed
<1>5. AdminShape
  BY DEF Init, AdminShape, Asks, AdminIdle
<1>6. FreshLookup
  BY DEF Init, FreshLookup, LookupShape, Fresh, ReaderIdle
<1> QED  BY <1>3, <1>4, <1>5, <1>6 DEF IInv

LEMMA StartCreateIInv ==
  ASSUME IInv, NEW a \in Admin, NEW b \in Patches, StartCreate(a, b)
  PROVE  IInv'
<1> DEFINE q == [AdminIdle EXCEPT !.op = "create", !.body = b]
<1>1. b \in Body /\ Keep \notin {b.name, b.stacks, b.cap}
  BY PatchesAssumption DEF StartCreate
<1>2. b \in Row
  BY <1>1 DEF Body, Row
<1>3. q \in AdminRequest /\ q.op = "create" /\ q.body = b
  BY <1>1 DEF AdminIdle, AdminRequest
<1>4. Asks(q)
  BY <1>2, <1>3 DEF Asks
<1> QED  BY <1>3, <1>4, AdminOnly DEF StartCreate

LEMMA StartUpdateIInv ==
  ASSUME IInv, NEW a \in Admin, NEW p \in Plan, NEW b \in Patches,
         StartUpdate(a, p, b)
  PROVE  IInv'
<1> DEFINE q == [AdminIdle EXCEPT !.op = "update", !.plan = p, !.body = b,
                                  !.saw = plans[p]]
<1>1. b \in Body /\ plans[p] \in Row /\ Exists(p)
  BY PatchesAssumption DEF StartUpdate, Exists, IInv, Types
<1>2. q \in AdminRequest /\ q.op = "update" /\ q.plan = p /\ q.body = b
  BY <1>1 DEF AdminIdle, AdminRequest
<1>3. Asks(q)
  BY <1>1, <1>2 DEF Asks
<1> QED  BY <1>2, <1>3, AdminOnly DEF StartUpdate

LEMMA StartAssignIInv ==
  ASSUME IInv, NEW a \in Admin, NEW c \in Customer, NEW p \in Plan,
         StartAssign(a, c, p)
  PROVE  IInv'
<1> DEFINE q == [AdminIdle EXCEPT !.op = "assign", !.plan = p,
                                  !.customer = c, !.saw = sub[c]]
<1>1. Exists(p) /\ sub[c] \in Plan \cup {None}
  BY DEF StartAssign, IInv, Types
<1>2. q \in AdminRequest /\ q.op = "assign" /\ q.plan = p /\ q.customer = c
  BY <1>1 DEF AdminIdle, AdminRequest
<1>3. Asks(q)
  BY <1>1, <1>2 DEF Asks
<1> QED  BY <1>2, <1>3, AdminOnly DEF StartAssign

LEMMA FailAdminIInv ==
  ASSUME IInv, NEW a \in Admin, FailAdmin(a)
  PROVE  IInv'
<1>1. Asks(AdminIdle)
  BY DEF Asks, AdminIdle
<1> QED  BY <1>1, IdleShape, AdminOnly DEF FailAdmin, Done

\* A request that publishes rows and assignments and is done.
LEMMA PublishDone ==
  ASSUME IInv, NEW a \in Admin, NEW ps \in [Plan -> Row \cup {None}],
         NEW sb \in [Customer -> Plan \cup {None}],
         Publish(ps, sb), Done(a), UNCHANGED kbs,
         \A p \in Plan : Exists(p) => ps[p] # None,
         \A c \in Customer : sb[c] # None => ps[sb[c]] # None
  PROVE  IInv'
<1>1. /\ plans' \in [Plan -> Row \cup {None}]
      /\ sub' \in [Customer -> Plan \cup {None}]
      /\ kbs' \in [Customer -> [Stack -> Nat]]
      /\ reader' \in [Reader -> Lookup]
      /\ outgrown' \in SUBSET (Customer \X Stack)
      /\ AssignedExists' /\ FreshLookup' /\ KbsListed'
  BY PublishKept
<1>2. Asks(AdminIdle)
  BY DEF Asks, AdminIdle
<1>3. \A p \in Plan : plans[p] # None => plans'[p] # None
  BY DEF Publish, Exists
<1>4. areq' \in [Admin -> AdminRequest] /\ AdminShape'
  BY <1>1, <1>2, <1>3, IdleShape, AdminKept DEF Done
<1> QED  BY <1>1, <1>4 DEF IInv, Types

LEMMA CommitCreateIInv ==
  ASSUME IInv, NEW a \in Admin, NEW p \in Plan, CommitCreate(a, p)
  PROVE  IInv'
<1> DEFINE ps == [plans EXCEPT ![p] = areq[a].body]
<1>1. areq[a].body \in Row
  BY DEF CommitCreate, IInv, AdminShape, Asks
<1>2. /\ ps \in [Plan -> Row \cup {None}]
      /\ \A x \in Plan : Exists(x) => ps[x] # None
  BY <1>1, NoneAssumption DEF IInv, Types, Exists
<1>3. sub \in [Customer -> Plan \cup {None}]
  BY DEF IInv, Types
<1>4. \A c \in Customer : sub[c] # None => ps[sub[c]] # None
  BY <1>2, <1>3 DEF IInv, AssignedExists
<1>5. Publish(ps, sub) /\ Done(a) /\ UNCHANGED kbs
  BY DEF CommitCreate
<1> HIDE DEF ps
<1> QED  BY <1>2, <1>3, <1>4, <1>5, PublishDone

\* An UPDATE leaves a row that is a row.
LEMMA PatchedRow ==
  ASSUME NEW r \in Row, NEW saw, NEW b \in Body
  PROVE  Patched(r, saw, b) \in Row
BY DEF Patched, Row, Body

LEMMA CommitUpdateIInv ==
  ASSUME IInv, NEW a \in Admin, CommitUpdate(a)
  PROVE  IInv'
<1> DEFINE p   == areq[a].plan
           new == Patched(plans[p], areq[a].saw, areq[a].body)
           ps  == [plans EXCEPT ![p] = new]
<1>1. p \in Plan /\ Exists(p) /\ areq[a].body \in Body
  BY DEF CommitUpdate, IInv, AdminShape, Asks
<1>2. plans[p] \in Row
  BY <1>1 DEF IInv, Types, Exists
<1>3. new \in Row
  BY <1>1, <1>2, PatchedRow
<1>4. Publish(ps, sub) /\ Done(a) /\ UNCHANGED kbs
  BY DEF CommitUpdate
<1> HIDE DEF new, p
<1>5. /\ ps \in [Plan -> Row \cup {None}]
      /\ \A x \in Plan : Exists(x) => ps[x] # None
  BY <1>1, <1>3, NoneAssumption DEF IInv, Types, Exists
<1>6. sub \in [Customer -> Plan \cup {None}]
  BY DEF IInv, Types
<1>7. \A c \in Customer : sub[c] # None => ps[sub[c]] # None
  BY <1>5, <1>6 DEF IInv, AssignedExists
<1> HIDE DEF ps
<1> QED  BY <1>4, <1>5, <1>6, <1>7, PublishDone

LEMMA CommitAssignIInv ==
  ASSUME IInv, NEW a \in Admin, CommitAssign(a)
  PROVE  IInv'
<1> DEFINE q  == areq[a]
           sb == IF q.plan = q.saw THEN sub
                 ELSE [sub EXCEPT ![q.customer] = q.plan]
<1>1. q.plan \in Plan /\ Exists(q.plan) /\ q.customer \in Customer
  BY DEF CommitAssign, IInv, AdminShape, Asks
<1>2. Publish(plans, sb) /\ Done(a) /\ UNCHANGED kbs
  BY DEF CommitAssign
<1> HIDE DEF q
<1>3. /\ sub \in [Customer -> Plan \cup {None}]
      /\ plans \in [Plan -> Row \cup {None}]
  BY DEF IInv, Types
<1>4. sb \in [Customer -> Plan \cup {None}]
  BY <1>1, <1>3
<1>5. \A c \in Customer : sb[c] # None => plans[sb[c]] # None
  BY <1>1, <1>3 DEF IInv, AssignedExists, Exists
<1>6. \A x \in Plan : Exists(x) => plans[x] # None
  BY DEF Exists
<1> HIDE DEF sb
<1> QED  BY <1>2, <1>3, <1>4, <1>5, <1>6, PublishDone

LEMMA RestartIInv ==
  ASSUME IInv, Restart
  PROVE  IInv'
<1>1. PICK ps \in Seeds(plans) : Publish(ps, sub)
  BY DEF Restart
<1>2. /\ sub \in [Customer -> Plan \cup {None}]
      /\ plans \in [Plan -> Row \cup {None}]
  BY DEF IInv, Types
<1>3. /\ ps \in [Plan -> Row \cup {None}]
      /\ \A p \in Plan : Exists(p) => ps[p] # None
  BY <1>2, SeedsAdd DEF Exists
<1>4. \A c \in Customer : sub[c] # None => ps[sub[c]] # None
  BY <1>2, <1>3 DEF IInv, AssignedExists
<1>5. /\ plans' \in [Plan -> Row \cup {None}]
      /\ sub' \in [Customer -> Plan \cup {None}]
      /\ kbs' \in [Customer -> [Stack -> Nat]]
      /\ reader' \in [Reader -> Lookup]
      /\ outgrown' \in SUBSET (Customer \X Stack)
      /\ AssignedExists' /\ FreshLookup' /\ KbsListed'
  BY <1>1, <1>2, <1>3, <1>4, PublishKept DEF Restart
<1>6. areq' \in [Admin -> AdminRequest]
  BY IdleShape DEF Restart
<1>7. \A a \in Admin : areq'[a] = AdminIdle
  BY DEF Restart
<1>8. AdminShape'
  BY <1>7 DEF AdminShape, Asks, AdminIdle
<1> QED  BY <1>5, <1>6, <1>8 DEF IInv, Types

-----------------------------------------------------------------------------
LEMMA StartLookupIInv ==
  ASSUME IInv, NEW r \in Reader, NEW c \in Customer,
         NEW op \in {"create_kb", "bill"}, NEW s \in Stack \cup {None},
         op = "create_kb" => s \in Stack, StartLookup(r, op, c, s)
  PROVE  IInv'
<1> DEFINE l == [ReaderIdle EXCEPT
                   !.step = IF sub[c] = None THEN "act" ELSE "plan",
                   !.op = op, !.customer = c, !.stack = s, !.plan = sub[c]]
<1>1. sub[c] \in Plan \cup {None} /\ (sub[c] # None => Exists(sub[c]))
  BY DEF IInv, Types, AssignedExists
<1>2. /\ l \in Lookup /\ l.step = IF sub[c] = None THEN "act" ELSE "plan"
      /\ l.op = op /\ l.customer = c /\ l.stack = s /\ l.plan = sub[c]
      /\ l.offer = None /\ ~l.stale
  BY <1>1 DEF ReaderIdle, Lookup
<1>3. reader' = [reader EXCEPT ![r] = l]
      /\ UNCHANGED <<plans, sub, kbs, areq, outgrown>>
  BY DEF StartLookup
<1> HIDE DEF l
<1>4. LookupShape(l) /\ Fresh(l)
  BY <1>1, <1>2 DEF LookupShape, Fresh
<1>5. reader' \in [Reader -> Lookup] /\ FreshLookup'
  BY <1>2, <1>3, <1>4, ReaderOnly
<1> QED
  BY <1>3, <1>5 DEF IInv, Types, AssignedExists, AdminShape, Asks, Exists,
       KbsListed, Listed

LEMMA ReadPlanIInv ==
  ASSUME IInv, NEW r \in Reader, ReadPlan(r)
  PROVE  IInv'
<1> DEFINE o == [stacks |-> plans[reader[r].plan].stacks,
                 cap    |-> plans[reader[r].plan].cap]
           l == [reader[r] EXCEPT !.step = "act", !.plan = None, !.offer = o]
<1>1. /\ reader[r] \in Lookup /\ LookupShape(reader[r]) /\ Fresh(reader[r])
      /\ reader[r].step = "plan"
  BY DEF ReadPlan, At, IInv, Types, FreshLookup
<1>2. reader[r].plan \in Plan /\ plans[reader[r].plan] \in Row
  BY <1>1 DEF LookupShape, Exists, IInv, Types
<1>3. o \in Offer /\ o # None
  BY <1>2, NoneAssumption DEF Row, Offer
<1>4. /\ l \in Lookup /\ l.step = "act" /\ l.op = reader[r].op
      /\ l.customer = reader[r].customer /\ l.stack = reader[r].stack
      /\ l.plan = None /\ l.stale = reader[r].stale /\ l.offer = o
  BY <1>1, <1>3 DEF Lookup
<1>5. reader' = [reader EXCEPT ![r] = l]
      /\ UNCHANGED <<plans, sub, kbs, areq, outgrown>>
  BY <1>1 DEF ReadPlan, IInv, Types, Lookup
<1> HIDE DEF l
<1>6. LookupShape(l) /\ Fresh(l)
  BY <1>1, <1>2, <1>3, <1>4, NoneAssumption
     DEF LookupShape, Fresh, Listed, Quota
<1>7. reader' \in [Reader -> Lookup] /\ FreshLookup'
  BY <1>4, <1>5, <1>6, ReaderOnly
<1> QED
  BY <1>5, <1>7 DEF IInv, Types, AssignedExists, AdminShape, Asks, Exists,
       KbsListed, Listed

LEMMA LookupFailsIInv ==
  ASSUME IInv, NEW r \in Reader, LookupFails(r)
  PROVE  IInv'
<1> DEFINE l == [reader[r] EXCEPT !.step = "act"]
<1>1. /\ reader[r] \in Lookup /\ LookupShape(reader[r])
      /\ reader[r].step = "plan" /\ reader[r].plan # None
  BY NoneAssumption DEF LookupFails, At, IInv, Types, FreshLookup, LookupShape
<1>2. /\ l \in Lookup /\ l.step = "act" /\ l.op = reader[r].op
      /\ l.customer = reader[r].customer /\ l.stack = reader[r].stack
      /\ l.plan = reader[r].plan /\ l.offer = reader[r].offer
  BY <1>1 DEF Lookup
<1>3. reader' = [reader EXCEPT ![r] = l]
      /\ UNCHANGED <<plans, sub, kbs, areq, outgrown>>
  BY DEF LookupFails, IInv, Types
<1> HIDE DEF l
<1>4. LookupShape(l) /\ Fresh(l)
  BY <1>1, <1>2 DEF LookupShape, Fresh
<1>5. reader' \in [Reader -> Lookup] /\ FreshLookup'
  BY <1>2, <1>3, <1>4, ReaderOnly
<1> QED
  BY <1>3, <1>5 DEF IInv, Types, AssignedExists, AdminShape, Asks, Exists,
       KbsListed, Listed

\* A lookup that ends leaves what the plans and the assignments are.
LEMMA LeaveKept ==
  ASSUME IInv, NEW r \in Reader, Leave(r), UNCHANGED <<plans, sub, areq>>
  PROVE  /\ plans' \in [Plan -> Row \cup {None}]
         /\ sub' \in [Customer -> Plan \cup {None}]
         /\ areq' \in [Admin -> AdminRequest]
         /\ reader' \in [Reader -> Lookup]
         /\ AssignedExists' /\ AdminShape' /\ FreshLookup'
<1>1. LookupShape(ReaderIdle) /\ Fresh(ReaderIdle)
  BY DEF LookupShape, Fresh, ReaderIdle
<1>2. reader' \in [Reader -> Lookup] /\ FreshLookup'
  BY <1>1, IdleShape, ReaderOnly DEF Leave
<1> QED
  BY <1>2 DEF IInv, Types, AssignedExists, AdminShape, Asks, Exists

LEMMA EndsIInv ==
  ASSUME IInv, NEW r \in Reader,
         RefuseKb(r) \/ ComputeBill(r) \/ Abandon(r)
  PROVE  IInv'
<1>1. Leave(r) /\ UNCHANGED <<plans, sub, kbs, areq, outgrown>>
  BY DEF RefuseKb, ComputeBill, Abandon
<1> QED  BY <1>1, LeaveKept DEF IInv, Types, KbsListed, Listed

\* What a request has seen when it creates a KB: the plan as it is now,
\* unless somebody has changed what it offers meanwhile.
LEMMA GateSeen ==
  ASSUME IInv, NEW r \in Reader, InsertKb(r)
  PROVE  /\ reader[r].customer \in Customer /\ reader[r].stack \in Stack
         /\ ~reader[r].stale =>
              /\ reader[r].stack \in Listed(plans, sub, reader[r].customer)
              /\ Fits(KbCount(reader[r].customer) + 1,
                      Quota(plans, sub, reader[r].customer))
<1>1. LookupShape(reader[r]) /\ Fresh(reader[r])
  BY DEF IInv, FreshLookup
<1> QED  BY <1>1 DEF InsertKb, At, Admits, LookupShape, Fresh

LEMMA InsertKbIInv ==
  ASSUME IInv, NEW r \in Reader, InsertKb(r)
  PROVE  IInv'
<1> DEFINE c == reader[r].customer
           s == reader[r].stack
<1>1. /\ c \in Customer /\ s \in Stack
      /\ ~reader[r].stale => s \in Listed(plans, sub, c)
  BY GateSeen
<1>2. /\ kbs' = [kbs EXCEPT ![c][s] = @ + 1]
      /\ outgrown' = IF reader[r].stale THEN outgrown \cup {<<c, s>>}
                     ELSE outgrown
      /\ Leave(r) /\ UNCHANGED <<plans, sub, areq>>
  BY DEF InsertKb
<1>3. /\ kbs \in [Customer -> [Stack -> Nat]]
      /\ outgrown \in SUBSET (Customer \X Stack)
  BY DEF IInv, Types
<1> HIDE DEF c, s
<1>4. /\ kbs' \in [Customer -> [Stack -> Nat]]
      /\ outgrown' \in SUBSET (Customer \X Stack)
  BY <1>1, <1>2, <1>3
<1>5. KbsListed'
  <2> SUFFICES ASSUME NEW d \in Customer, NEW t \in Stack, kbs'[d][t] > 0
               PROVE  t \in Listed(plans, sub, d) \/ <<d, t>> \in outgrown'
    BY <1>2 DEF KbsListed, Listed
  <2>1. CASE d = c /\ t = s
    BY <2>1, <1>1, <1>2
  <2>2. CASE ~(d = c /\ t = s)
    <3>1. kbs'[d][t] = kbs[d][t]
      BY <2>2, <1>1, <1>2, <1>3
    <3> QED  BY <3>1, <1>2 DEF IInv, KbsListed
  <2> QED  BY <2>1, <2>2
<1> QED  BY <1>2, <1>4, <1>5, LeaveKept DEF IInv, Types

LEMMA DeleteKbIInv ==
  ASSUME IInv, NEW c \in Customer, NEW s \in Stack, DeleteKb(c, s)
  PROVE  IInv'
<1>1. /\ kbs[c][s] > 0
      /\ kbs' = [kbs EXCEPT ![c][s] = @ - 1]
      /\ outgrown' = IF kbs[c][s] = 1 THEN outgrown \ {<<c, s>>} ELSE outgrown
      /\ UNCHANGED <<plans, sub, areq, reader>>
  BY DEF DeleteKb
<1>2. /\ kbs \in [Customer -> [Stack -> Nat]]
      /\ outgrown \in SUBSET (Customer \X Stack)
  BY DEF IInv, Types
<1>3. /\ kbs' \in [Customer -> [Stack -> Nat]]
      /\ outgrown' \in SUBSET (Customer \X Stack)
  <2>1. kbs[c][s] - 1 \in Nat
    BY <1>1, <1>2
  <2> QED  BY <1>1, <1>2, <2>1
<1>4. KbsListed'
  <2> SUFFICES ASSUME NEW d \in Customer, NEW t \in Stack, kbs'[d][t] > 0
               PROVE  t \in Listed(plans, sub, d) \/ <<d, t>> \in outgrown'
    BY <1>1 DEF KbsListed, Listed
  <2>1. CASE d = c /\ t = s
    <3>1. kbs[c][s] # 1 /\ kbs[c][s] > 0
      BY <2>1, <1>1, <1>2
    <3> QED  BY <2>1, <3>1, <1>1 DEF IInv, KbsListed
  <2>2. CASE ~(d = c /\ t = s)
    <3>1. kbs'[d][t] = kbs[d][t]
      BY <2>2, <1>1, <1>2
    <3>2. <<d, t>> \in outgrown => <<d, t>> \in outgrown'
      BY <2>2, <1>1
    <3> QED  BY <3>1, <3>2 DEF IInv, KbsListed
  <2> QED  BY <2>1, <2>2
<1> QED
  BY <1>1, <1>3, <1>4 DEF IInv, Types, AssignedExists, AdminShape, Asks,
       Exists, FreshLookup, LookupShape, Fresh, Listed, Quota

LEMMA NextIInv == IInv /\ [Next]_vars => IInv'
<1> SUFFICES ASSUME IInv, [Next]_vars PROVE IInv'
  OBVIOUS
<1>1. ASSUME NEW a \in Admin, NEW b \in Patches, StartCreate(a, b) PROVE IInv'
  BY <1>1, StartCreateIInv
<1>2. ASSUME NEW a \in Admin, NEW b \in Patches, NEW p \in Plan,
             StartUpdate(a, p, b)
      PROVE  IInv'
  BY <1>2, StartUpdateIInv
<1>3. ASSUME NEW a \in Admin, NEW p \in Plan, CommitCreate(a, p) PROVE IInv'
  BY <1>3, CommitCreateIInv
<1>4. ASSUME NEW a \in Admin, NEW p \in Plan, NEW c \in Customer,
             StartAssign(a, c, p)
      PROVE  IInv'
  BY <1>4, StartAssignIInv
<1>5. ASSUME NEW a \in Admin, CommitUpdate(a) \/ CommitAssign(a) \/ FailAdmin(a)
      PROVE  IInv'
  BY <1>5, CommitUpdateIInv, CommitAssignIInv, FailAdminIInv
<1>6. ASSUME NEW r \in Reader, NEW c \in Customer, StartBill(r, c) PROVE IInv'
  BY <1>6, StartLookupIInv DEF StartBill
<1>7. ASSUME NEW r \in Reader, NEW c \in Customer, NEW s \in Stack,
             StartCreateKb(r, c, s)
      PROVE  IInv'
  BY <1>7, StartLookupIInv DEF StartCreateKb
<1>8. ASSUME NEW r \in Reader,
             \/ ReadPlan(r) \/ LookupFails(r) \/ InsertKb(r) \/ RefuseKb(r)
             \/ ComputeBill(r) \/ Abandon(r)
      PROVE  IInv'
  BY <1>8, ReadPlanIInv, LookupFailsIInv, InsertKbIInv, EndsIInv
<1>9. ASSUME NEW c \in Customer, NEW s \in Stack, DeleteKb(c, s) PROVE IInv'
  BY <1>9, DeleteKbIInv
<1>10. CASE UNCHANGED vars
  BY <1>10 DEF vars, IInv, Types, AssignedExists, AdminShape, Asks, Exists,
       FreshLookup, LookupShape, Fresh, Listed, Quota, KbsListed
<1> QED
  BY <1>1, <1>2, <1>3, <1>4, <1>5, <1>6, <1>7, <1>8, <1>9, <1>10, RestartIInv
     DEF Next

THEOREM Invariance == Spec => []IInv
BY InitIInv, NextIInv, PTL DEF Spec

-----------------------------------------------------------------------------
\* The gate of create_kb: a KB comes to be in a stack that the plan lists and
\* within its quota, unless the plan was edited or reassigned meanwhile.
THEOREM Gate == Spec => GateHolds
<1> DEFINE Held == \A c \in Customer, s \in Stack : kbs'[c][s] > kbs[c][s] =>
       \/ s \in Listed(plans, sub, c) /\ Fits(KbCount(c) + 1, Quota(plans, sub, c))
       \/ \E r \in Reader : reader[r].stale /\ reader'[r] = ReaderIdle
<1>1. ASSUME IInv, [Next]_vars PROVE Held
  <2>1. kbs \in [Customer -> [Stack -> Nat]] /\ reader \in [Reader -> Lookup]
    BY <1>1 DEF IInv, Types
  <2>2. CASE UNCHANGED kbs
    <3>1. \A c \in Customer, s \in Stack : ~(kbs'[c][s] > kbs[c][s])
      BY <2>1, <2>2
    <3> QED  BY <3>1
  <2>3. ASSUME NEW c \in Customer, NEW s \in Stack, DeleteKb(c, s) PROVE Held
    <3>1. kbs' = [kbs EXCEPT ![c][s] = @ - 1]
      BY <2>3 DEF DeleteKb
    <3>2. \A d \in Customer, t \in Stack : ~(kbs'[d][t] > kbs[d][t])
      BY <2>1, <3>1
    <3> QED  BY <3>2
  <2>4. ASSUME NEW r \in Reader, InsertKb(r) PROVE Held
    <3> DEFINE c == reader[r].customer
               s == reader[r].stack
    <3>1. /\ c \in Customer /\ s \in Stack
          /\ ~reader[r].stale =>
               /\ s \in Listed(plans, sub, c)
               /\ Fits(KbCount(c) + 1, Quota(plans, sub, c))
      BY <1>1, <2>4, GateSeen
    <3>2. /\ kbs' = [kbs EXCEPT ![c][s] = @ + 1]
          /\ reader'[r] = ReaderIdle
      BY <2>1, <2>4 DEF InsertKb, Leave
    <3> HIDE DEF c, s
    <3>3. \A d \in Customer, t \in Stack : kbs'[d][t] > kbs[d][t]
            => d = c /\ t = s
      BY <2>1, <3>1, <3>2
    <3> QED  BY <3>1, <3>2, <3>3
  <2> HIDE DEF Held
  <2>5. ASSUME NEW a \in Admin, NEW b \in Patches,
               StartCreate(a, b) \/ \E p \in Plan : StartUpdate(a, p, b)
        PROVE  UNCHANGED kbs
    BY <2>5 DEF StartCreate, StartUpdate
  <2>6. ASSUME NEW a \in Admin, NEW p \in Plan,
               CommitCreate(a, p) \/ \E c \in Customer : StartAssign(a, c, p)
        PROVE  UNCHANGED kbs
    BY <2>6 DEF CommitCreate, StartAssign
  <2>7. ASSUME NEW a \in Admin, CommitUpdate(a) \/ CommitAssign(a) \/ FailAdmin(a)
        PROVE  UNCHANGED kbs
    BY <2>7 DEF CommitUpdate, CommitAssign, FailAdmin
  <2>8. ASSUME NEW r \in Reader, NEW c \in Customer,
               StartBill(r, c) \/ \E s \in Stack : StartCreateKb(r, c, s)
        PROVE  UNCHANGED kbs
    BY <2>8 DEF StartBill, StartCreateKb, StartLookup
  <2>9. ASSUME NEW r \in Reader,
               \/ ReadPlan(r) \/ LookupFails(r) \/ RefuseKb(r)
               \/ ComputeBill(r) \/ Abandon(r)
        PROVE  UNCHANGED kbs
    BY <2>9 DEF ReadPlan, LookupFails, RefuseKb, ComputeBill, Abandon
  <2>10. CASE Restart \/ UNCHANGED vars
    BY <2>10, <2>2 DEF Restart, vars
  <2> QED
    BY <1>1, <2>2, <2>3, <2>4, <2>5, <2>6, <2>7, <2>8, <2>9, <2>10 DEF Next
<1>2. IInv /\ [Next]_vars => Held
  BY <1>1
<1> QED  BY <1>2, Invariance, PTL DEF Spec, GateHolds

\* What the gate let in is priced by the bill, unless the lookup failed or the
\* customer's offer changed meanwhile.
THEOREM Billed == Spec => AdmittedIsBilled
<1> DEFINE Priced == \A r \in Reader : ComputeBill(r) =>
       \A s \in Unpriced(r) : \/ <<reader[r].customer, s>> \in outgrown
                              \/ reader[r].stale
                              \/ reader[r].plan # None
<1>1. ASSUME IInv PROVE Priced
  <2> SUFFICES ASSUME NEW r \in Reader, ComputeBill(r), NEW s \in Unpriced(r),
                      ~reader[r].stale, reader[r].plan = None
               PROVE  <<reader[r].customer, s>> \in outgrown
    OBVIOUS
  <2> DEFINE c == reader[r].customer
  <2>1. /\ reader[r].step = "act" /\ LookupShape(reader[r]) /\ Fresh(reader[r])
    BY <1>1 DEF ComputeBill, At, IInv, FreshLookup
  <2>2. c \in Customer
    BY <2>1 DEF LookupShape
  <2>3. s \in Stack /\ kbs[c][s] > 0
        /\ (reader[r].offer = None \/ s \notin reader[r].offer.stacks)
    BY DEF Unpriced, Used
  <2>4. s \notin Listed(plans, sub, c)
    <3>1. CASE reader[r].offer = None
      BY <3>1, <2>1 DEF Fresh, Listed
    <3>2. CASE reader[r].offer # None
      BY <3>2, <2>1, <2>3 DEF Fresh
    <3> QED  BY <3>1, <3>2
  <2> QED  BY <1>1, <2>2, <2>3, <2>4 DEF IInv, KbsListed
<1>2. IInv => Priced
  BY <1>1
<1> QED  BY <1>2, Invariance, PTL DEF AdmittedIsBilled

\* A field of a plan changes only in a request that names it: no request that
\* loaded the row earlier, and no seed, puts an old value back.
THEOREM Edits == Spec => EditsAreNamed
<1> DEFINE Named == \A p \in Plan, f \in {"name", "stacks", "cap"} :
       Exists(p) /\ plans'[p][f] # plans[p][f] =>
         \E a \in Admin : /\ areq[a].op = "update" /\ areq[a].plan = p
                          /\ areq[a].body[f] = plans'[p][f]
                          /\ areq'[a] = AdminIdle
<1>1. ASSUME IInv, [Next]_vars PROVE Named
  <2>1. /\ plans \in [Plan -> Row \cup {None}] /\ areq \in [Admin -> AdminRequest]
    BY <1>1 DEF IInv, Types
  <2>2. CASE \A p \in Plan : Exists(p) => plans'[p] = plans[p]
    BY <2>2
  <2>3. ASSUME NEW a \in Admin, CommitUpdate(a) PROVE Named
    <3> DEFINE q   == areq[a]
               new == Patched(plans[q.plan], q.saw, q.body)
    <3>1. /\ q.op = "update" /\ plans' = [plans EXCEPT ![q.plan] = new]
          /\ areq'[a] = AdminIdle
      BY <2>1, <2>3 DEF CommitUpdate, Publish, Done
    <3>2. ASSUME NEW f \in {"name", "stacks", "cap"}, q.body[f] # new[f]
          PROVE  new[f] = plans[q.plan][f]
      BY <3>2 DEF Patched
    <3>3. ASSUME NEW p \in Plan, p # q.plan PROVE plans'[p] = plans[p]
      BY <2>1, <3>1, <3>3
    <3>4. q.plan \in Plan => plans'[q.plan] = new
      BY <2>1, <3>1
    <3> HIDE DEF new
    <3> QED  BY <3>1, <3>2, <3>3, <3>4
  <2>4. ASSUME NEW a \in Admin, NEW p \in Plan, CommitCreate(a, p)
        PROVE  \A x \in Plan : Exists(x) => plans'[x] = plans[x]
    BY <2>1, <2>4 DEF CommitCreate, Publish, Exists
  <2>5. CASE Restart
    <3>1. PICK ps \in Seeds(plans) : plans' = ps
      BY <2>5 DEF Restart, Publish
    <3> QED  BY <2>1, <2>2, <3>1, SeedsAdd DEF Exists
  <2> HIDE DEF Named
  <2>6. ASSUME NEW a \in Admin, NEW b \in Patches,
               StartCreate(a, b) \/ \E p \in Plan : StartUpdate(a, p, b)
        PROVE  UNCHANGED plans
    BY <2>6 DEF StartCreate, StartUpdate
  <2>7. ASSUME NEW a \in Admin, NEW p \in Plan, NEW c \in Customer,
               StartAssign(a, c, p)
        PROVE  UNCHANGED plans
    BY <2>7 DEF StartAssign
  <2>8. ASSUME NEW a \in Admin, CommitAssign(a) \/ FailAdmin(a)
        PROVE  UNCHANGED plans
    BY <2>8 DEF CommitAssign, FailAdmin, Publish
  <2>9. ASSUME NEW r \in Reader, NEW c \in Customer,
               StartBill(r, c) \/ \E s \in Stack : StartCreateKb(r, c, s)
        PROVE  UNCHANGED plans
    BY <2>9 DEF StartBill, StartCreateKb, StartLookup
  <2>10. ASSUME NEW r \in Reader,
                \/ ReadPlan(r) \/ LookupFails(r) \/ InsertKb(r) \/ RefuseKb(r)
                \/ ComputeBill(r) \/ Abandon(r)
         PROVE  UNCHANGED plans
    BY <2>10 DEF ReadPlan, LookupFails, InsertKb, RefuseKb, ComputeBill, Abandon
  <2>11. ASSUME NEW c \in Customer, NEW s \in Stack, DeleteKb(c, s)
         PROVE  UNCHANGED plans
    BY <2>11 DEF DeleteKb
  <2>12. UNCHANGED vars => UNCHANGED plans
    BY DEF vars
  <2>13. UNCHANGED plans => Named
    BY <2>2
  <2>14. ASSUME NEW a \in Admin, NEW p \in Plan, CommitCreate(a, p) PROVE Named
    BY <2>2, <2>4, <2>14
  <2> QED
    BY <1>1, <2>3, <2>5, <2>6, <2>7, <2>8, <2>9, <2>10, <2>11, <2>12, <2>13,
       <2>14 DEF Next
<1>2. IInv /\ [Next]_vars => Named
  BY <1>1
<1> QED  BY <1>2, Invariance, PTL DEF Spec, EditsAreNamed
=============================================================================
