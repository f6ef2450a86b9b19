--------------------------- MODULE Subscriptions ---------------------------
(***************************************************************************)
(* What a plan lets a customer have, and what it charges for it.           *)
(*                                                                         *)
(* admin-service keeps the plans and who has which one; kb-service asks it *)
(* before it creates a knowledge base, and customer-service asks both when *)
(* it computes a bill.  Nothing locks a plan meanwhile: an administrator   *)
(* edits or reassigns it between any two of the reads, which are a SELECT  *)
(* of the assignment, a SELECT of the plan, and a count of the KBs.        *)
(*                                                                         *)
(* A plan is cut down to its name, the stacks it prices and its KB quota;  *)
(* prices are told apart only by being there.                              *)
(***************************************************************************)
EXTENDS Naturals, FiniteSets, Functions

CONSTANTS
  Plan,         \* ids of subscription_plans rows
  Name, Stack,
  Defaults,     \* DEFAULT_PLANS of seed.py: a set of plan rows
  Patches,      \* bound: the bodies given to PATCH and POST
  Customer,
  Admin,        \* request threads of admin-service
  Reader,       \* requests of kb-service and customer-service
  MaxKbs,       \* bound on the KBs of a customer
  MaxOpen,      \* bound on the requests that are under way at once
  Unlimited,    \* max_kbs = NULL
  Keep,         \* a field that a PATCH body does not name
  None

Cap == Nat \cup {Unlimited}
Row == [name: Name, stacks: SUBSET Stack, cap: Cap]
Offer == [stacks: SUBSET Stack, cap: Cap]   \* what a lookup is answered with
Body == [name: Name \cup {Keep}, stacks: (SUBSET Stack) \cup {Keep},
         cap: Cap \cup {Keep}]

ASSUME DefaultsAssumption == Defaults \subseteq Row
ASSUME PatchesAssumption == Patches \subseteq Body
ASSUME NoneAssumption == None \notin Row \cup Offer \cup Plan \cup Customer

VARIABLES
  plans,     \* plans[p]: a row of subscription_plans, or None
  sub,       \* sub[c]: plan_id of the customer_subscriptions row, or None
  kbs,       \* kbs[c][s]: KBs of the customer in a stack
  areq,      \* areq[a]: request of an administrator
  reader,    \* reader[r]: a request that looks the plan up
  outgrown   \* history: <<c, s>> whose KBs c's plan has stopped listing

vars == <<plans, sub, kbs, areq, reader, outgrown>>

AdminRequest ==
  [op: {"none", "create", "update", "assign"}, plan: Plan \cup {None},
   body: Body \cup {None}, customer: Customer \cup {None},
   saw: Row \cup Plan \cup {None}]
AdminIdle == [op |-> "none", plan |-> None, body |-> None, customer |-> None,
              saw |-> None]

\* stale (history): the customer's offer changed while the request ran.
Lookup == [step: {"idle", "plan", "act"}, op: {"none", "create_kb", "bill"},
           customer: Customer \cup {None}, stack: Stack \cup {None},
           plan: Plan \cup {None}, offer: Offer \cup {None}, stale: BOOLEAN]
ReaderIdle == [step |-> "idle", op |-> "none", customer |-> None,
               stack |-> None, plan |-> None, offer |-> None, stale |-> FALSE]

TypeOK ==
  /\ plans \in [Plan -> Row \cup {None}]
  /\ sub \in [Customer -> Plan \cup {None}]
  /\ kbs \in [Customer -> [Stack -> 0..MaxKbs]]
  /\ \A a \in Admin : areq[a] \in AdminRequest
  /\ \A r \in Reader : reader[r] \in Lookup
  /\ outgrown \subseteq Customer \X Stack

-----------------------------------------------------------------------------
Exists(p)       == plans[p] # None
Names           == {plans[p].name : p \in {x \in Plan : Exists(x)}}
KbCount(c)      == SumFunction(kbs[c])
Done(a)         == areq' = [areq EXCEPT ![a] = AdminIdle]
Leave(r)        == reader' = [reader EXCEPT ![r] = ReaderIdle]
At(r, s)        == reader[r].step = s
Room            == Cardinality({a \in Admin : areq[a].op # "none"})
                     + Cardinality({r \in Reader : ~At(r, "idle")}) < MaxOpen

\* What plans ps and assignments sb let customer c have.
Listed(ps, sb, c) == IF sb[c] = None THEN {} ELSE ps[sb[c]].stacks
Quota(ps, sb, c)  == IF sb[c] = None THEN 0 ELSE ps[sb[c]].cap
Fits(n, cap)      == cap # Unlimited => n <= cap

\* Rows and assignments become ps and sb: lookups under way for a customer
\* whose offer this changes are stale, KBs it leaves out are outgrown.
Publish(ps, sb) ==
  LET Changed(c) == \/ sb[c] # sub[c]
                    \/ Listed(ps, sb, c) # Listed(plans, sub, c)
                    \/ Quota(ps, sb, c) # Quota(plans, sub, c)
  IN
  /\ plans' = ps
  /\ sub' = sb
  /\ reader' = [r \in Reader |->
       IF reader[r].customer # None /\ Changed(reader[r].customer)
         THEN [reader[r] EXCEPT !.stale = TRUE] ELSE reader[r]]
  /\ outgrown' = {cs \in Customer \X Stack :
       /\ kbs[cs[1]][cs[2]] > 0
       /\ IF Changed(cs[1]) THEN cs[2] \notin Listed(ps, sb, cs[1])
                            ELSE cs \in outgrown}

\* _seed_subscription_plans: a new row for each default whose name is not there.
Seeds(ps) ==
  LET missing == {d \in Defaults : \A p \in Plan : ps[p] # None => ps[p].name # d.name}
      spare   == {p \in Plan : ps[p] = None}
  IN {[p \in Plan |-> IF \E d \in missing : at[d] = p
                        THEN CHOOSE d \in missing : at[d] = p ELSE ps[p]] :
        at \in {f \in [missing -> spare] : IsInjective(f)}}

Init ==
  /\ plans \in Seeds([p \in Plan |-> None])
  /\ sub = [c \in Customer |-> None]
  /\ kbs = [c \in Customer |-> [s \in Stack |-> 0]]
  /\ areq = [a \in Admin |-> AdminIdle]
  /\ reader = [r \in Reader |-> ReaderIdle]
  /\ outgrown = {}

-----------------------------------------------------------------------------
\* create_plan: its SELECT by name.
StartCreate(a, b) ==
  /\ areq[a].op = "none" /\ Room
  /\ Keep \notin {b.name, b.stacks, b.cap}
  /\ b.name \notin Names
  /\ areq' = [areq EXCEPT ![a] = [AdminIdle EXCEPT !.op = "create", !.body = b]]
  /\ UNCHANGED <<plans, sub, kbs, reader, outgrown>>

\* INSERT; UNIQUE(name) refuses a name taken meanwhile.
CommitCreate(a, p) ==
  /\ areq[a].op = "create"
  /\ ~Exists(p)
  /\ areq[a].body.name \notin Names
  /\ Publish([plans EXCEPT ![p] = areq[a].body], sub)
  /\ Done(a)
  /\ UNCHANGED kbs

\* update_plan: db.get loads the row.
StartUpdate(a, p, b) ==
  /\ areq[a].op = "none" /\ Room
  /\ Exists(p)
  /\ areq' = [areq EXCEPT ![a] =
       [AdminIdle EXCEPT !.op = "update", !.plan = p, !.body = b,
                         !.saw = plans[p]]]
  /\ UNCHANGED <<plans, sub, kbs, reader, outgrown>>

\* Mutant of Patched: the row is written back as it was loaded and edited.
PatchedWhole(r, saw, b) ==
  LET New(f) == IF b[f] = Keep THEN saw[f] ELSE b[f]
  IN [name |-> New("name"), stacks |-> New("stacks"), cap |-> New("cap")]

\* The UPDATE sets the named fields that differ from what was loaded.
Patched(r, saw, b) ==
  LET New(f) == IF b[f] = Keep \/ b[f] = saw[f] THEN r[f] ELSE b[f]
  IN [name |-> New("name"), stacks |-> New("stacks"), cap |-> New("cap")]

\* UPDATE, COMMIT; UNIQUE(name) refuses a name that another row has.
CommitUpdate(a) ==
  LET p   == areq[a].plan
      new == Patched(plans[p], areq[a].saw, areq[a].body)
  IN
  /\ areq[a].op = "update"
  /\ \A q \in Plan \ {p} : Exists(q) => plans[q].name # new.name
  /\ Publish([plans EXCEPT ![p] = new], sub)
  /\ Done(a)
  /\ UNCHANGED kbs

\* assign: the plan exists; the customer's row is read.
StartAssign(a, c, p) ==
  /\ areq[a].op = "none" /\ Room
  /\ Exists(p)
  /\ areq' = [areq EXCEPT ![a] =
       [AdminIdle EXCEPT !.op = "assign", !.plan = p, !.customer = c,
                         !.saw = sub[c]]]
  /\ UNCHANGED <<plans, sub, kbs, reader, outgrown>>

\* INSERT (UNIQUE(customer_id) refuses a second row), or UPDATE of plan_id
\* unless it was loaded with this value.
CommitAssign(a) ==
  LET c == areq[a].customer IN
  /\ areq[a].op = "assign"
  /\ areq[a].saw = None => sub[c] = None
  /\ Publish(plans, IF areq[a].plan = areq[a].saw THEN sub
                    ELSE [sub EXCEPT ![c] = areq[a].plan])
  /\ Done(a)
  /\ UNCHANGED kbs

FailAdmin(a) ==
  /\ areq[a].op # "none"
  /\ Done(a)
  /\ UNCHANGED <<plans, sub, kbs, reader, outgrown>>

\* admin-service restarts and seeds; its requests are gone.
Restart ==
  /\ \E ps \in Seeds(plans) : Publish(ps, sub)
  /\ areq' = [a \in Admin |-> AdminIdle]
  /\ UNCHANGED kbs

-----------------------------------------------------------------------------
\* get_customer_subscription begins: SELECT of the assignment.
StartLookup(r, op, c, s) ==
  /\ At(r, "idle") /\ Room
  /\ reader' = [reader EXCEPT ![r] =
       [ReaderIdle EXCEPT !.step = IF sub[c] = None THEN "act" ELSE "plan",
          !.op = op, !.customer = c, !.stack = s, !.plan = sub[c]]]
  /\ UNCHANGED <<plans, sub, kbs, areq, outgrown>>

StartCreateKb(r, c, s) == StartLookup(r, "create_kb", c, s)
StartBill(r, c)        == StartLookup(r, "bill", c, None)

\* Then the SELECT of that plan.
ReadPlan(r) ==
  /\ At(r, "plan")
  /\ reader' = [reader EXCEPT
       ![r].step = "act", ![r].plan = None,
       ![r].offer = [stacks |-> plans[reader[r].plan].stacks, cap |-> plans[reader[r].plan].cap]]
  /\ UNCHANGED <<plans, sub, kbs, areq, outgrown>>

\* The call failed: {"has_subscription": False, "stacks": []}.  The plan stays
\* in the record as a sign of it.
LookupFails(r) ==
  /\ At(r, "plan")
  /\ reader' = [reader EXCEPT ![r].step = "act"]
  /\ UNCHANGED <<plans, sub, kbs, areq, outgrown>>

\* Mutant of Admits: an answer without a plan lets every stack pass.
AdmitsUnplanned(offer, s, n) ==
  offer # None => s \in offer.stacks /\ Fits(n + 1, offer.cap)

\* Mutant of Admits: the quota is compared with > instead of >=.
AdmitsOneMore(offer, s, n) ==
  offer # None /\ s \in offer.stacks /\ Fits(n, offer.cap)

Admits(offer, s, n) ==
  offer # None /\ s \in offer.stacks /\ Fits(n + 1, offer.cap)

\* create_kb resumes: stack, count, INSERT and COMMIT without an await.
InsertKb(r) ==
  LET c == reader[r].customer
      s == reader[r].stack
  IN
  /\ At(r, "act") /\ reader[r].op = "create_kb"
  /\ Admits(reader[r].offer, s, KbCount(c))
  /\ KbCount(c) < MaxKbs
  /\ kbs' = [kbs EXCEPT ![c][s] = @ + 1]
  /\ outgrown' = IF reader[r].stale THEN outgrown \cup {<<c, s>>} ELSE outgrown
  /\ Leave(r)
  /\ UNCHANGED <<plans, sub, areq>>

RefuseKb(r) ==
  /\ At(r, "act") /\ reader[r].op = "create_kb"
  /\ ~Admits(reader[r].offer, reader[r].stack, KbCount(reader[r].customer))
  /\ Leave(r)
  /\ UNCHANGED <<plans, sub, kbs, areq, outgrown>>

DeleteKb(c, s) ==
  /\ kbs[c][s] > 0
  /\ kbs' = [kbs EXCEPT ![c][s] = @ - 1]
  /\ outgrown' = IF kbs[c][s] = 1 THEN outgrown \ {<<c, s>>} ELSE outgrown
  /\ UNCHANGED <<plans, sub, areq, reader>>

\* usage_by_customer: what the usage lookup names.
Used(c) == {s \in Stack : kbs[c][s] > 0}

\* _compute_subscription: a line for each stack that the usage lookup names,
\* at prices.get(stack, 0.0).  These are the stacks charged nothing because
\* the plan does not price them; a failed usage lookup charges none at all.
Unpriced(r) ==
  {s \in Used(reader[r].customer) :
     reader[r].offer = None \/ s \notin reader[r].offer.stacks}

\* The usage lookup is answered, and with it the request.
ComputeBill(r) ==
  /\ At(r, "act") /\ reader[r].op = "bill"
  /\ Leave(r)
  /\ UNCHANGED <<plans, sub, kbs, areq, outgrown>>

\* kb-service or customer-service restarts, or the client is gone.
Abandon(r) ==
  /\ ~At(r, "idle")
  /\ Leave(r)
  /\ UNCHANGED <<plans, sub, kbs, areq, outgrown>>

Next ==
  \/ \E a \in Admin, b \in Patches :
       StartCreate(a, b) \/ \E p \in Plan : StartUpdate(a, p, b)
  \/ \E a \in Admin, p \in Plan :
       CommitCreate(a, p) \/ \E c \in Customer : StartAssign(a, c, p)
  \/ \E a \in Admin : CommitUpdate(a) \/ CommitAssign(a) \/ FailAdmin(a)
  \/ Restart
  \/ \E r \in Reader, c \in Customer :
       StartBill(r, c) \/ \E s \in Stack : StartCreateKb(r, c, s)
  \/ \E r \in Reader :
       \/ ReadPlan(r) \/ LookupFails(r) \/ InsertKb(r) \/ RefuseKb(r)
       \/ ComputeBill(r) \/ Abandon(r)
  \/ \E c \in Customer, s \in Stack : DeleteKb(c, s)

Spec == Init /\ [][Next]_vars

-----------------------------------------------------------------------------
\* However many creations overlap, a KB comes to be only in a stack that the
\* customer's plan lists and within its quota, unless the plan was edited or
\* reassigned between this request's lookup and its INSERT (create_kb).
GateHolds ==
  [][\A c \in Customer, s \in Stack : kbs'[c][s] > kbs[c][s] =>
       \/ s \in Listed(plans, sub, c) /\ Fits(KbCount(c) + 1, Quota(plans, sub, c))
       \/ \E r \in Reader : reader[r].stale /\ reader'[r] = ReaderIdle]_vars

\* What the gate of kb-service let in is priced by the bill of
\* customer-service, unless the lookup failed, or the customer's offer changed
\* while the KB was created, or after, or while the bill was computed.
AdmittedIsBilled ==
  [][\A r \in Reader : ComputeBill(r) =>
       \A s \in Unpriced(r) : \/ <<reader[r].customer, s>> \in outgrown
                              \/ reader[r].stale
                              \/ reader[r].plan # None]_vars

\* An edit survives: a field of a plan changes only in a request that names
\* it, never because a request that loaded the row earlier, or the seed of a
\* restart, puts an old value back.
EditsAreNamed ==
  [][\A p \in Plan, f \in {"name", "stacks", "cap"} :
       Exists(p) /\ plans'[p][f] # plans[p][f] =>
         \E a \in Admin : /\ areq[a].op = "update" /\ areq[a].plan = p
                          /\ areq[a].body[f] = plans'[p][f]
                          /\ areq'[a] = AdminIdle]_vars
=============================================================================
