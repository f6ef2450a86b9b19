---------------------------- MODULE BillingProofs ----------------------------
(***************************************************************************)
(* Proofs about Billing, for every set of customers, threads, lines, ids   *)
(* and attempts, any number of months and any failures.                    *)
(*                                                                         *)
(* IInv adds to the invariants what a charge knows between two calls: the  *)
(* Stripe customer it uses was created for its customer, unless he edits   *)
(* the settings; its attempt is its own; and until it sends the first item *)
(* Stripe has nothing of that attempt.  LinesInv follows the lines of an   *)
(* attempt from its list to an invoice, PendingInFlight what is pending at *)
(* Stripe back to a running charge, OneInv the settings row that serves as *)
(* a lock, and ChargeInv the charges on the Stripe customer of that row.   *)
(***************************************************************************)
EXTENDS Billing, TLAPS

Cid(p) == req[p].cid

\* What a running call refers to.
Shape(p) ==
  IF At(p, "idle") THEN req[p] = Idle
  ELSE /\ Cust(p) \in Customer
       /\ req[p].step \in {"compute", "items", "finalize", "record"}
            \/ req[p].todo # {} => Num(p) # None
       /\ Num(p) # None => Started(Num(p)) /\ attempt[Num(p)].cust = Cust(p)
       /\ Cust(p) \notin Editor /\ Cid(p) # NoId =>
            Cid(p) \in StripeId /\ owner[Cid(p)] = Cust(p)
       /\ req[p].step \in {"compute", "settings", "insert"} => Cid(p) = NoId
       /\ At(p, "save") => Cid(p) \in StripeId
       /\ req[p].step \in {"items", "finalize", "record"} => Cid(p) # NoId
       /\ At(p, "items") /\ Cid(p) = Unknown => req[p].todo # {}
       /\ req[p].step \in {"finalize", "record"} =>
            invoice[Num(p)] # None /\ invoice[Num(p)].to = Cid(p)

RequestShape == \A p \in Proc : Shape(p)

\* Two calls never work on one attempt.
OwnAttempt ==
  \A p, q \in Proc : Num(p) # None /\ Num(p) = Num(q) => p = q

\* Stripe has nothing of attempt n.
Untouched(n) ==
  /\ invoice[n] = None
  /\ \A s \in StripeId : \A i \in unbilled[s] : i.by # n
  /\ \A m \in Invoiced : \A i \in invoice[m].items : i.by # n

Before == {"compute", "settings", "insert", "ensure", "save"}

NothingSentBefore ==
  \A p \in Proc : req[p].step \in Before /\ Num(p) # None => Untouched(Num(p))

\* The settings row, the pending items and the invoices of a customer who does
\* not edit the settings are of a Stripe customer created for him.
SettingsBelong ==
  \A c \in Customer \ Editor :
    /\ settings[c] # Unknown
    /\ settings[c] \in StripeId => owner[settings[c]] = c

\* Item i, on Stripe customer s, is of an attempt and where it belongs.
ItemBelongs(i, s) ==
  /\ Started(i.by)
  /\ attempt[i.by].cust \notin Editor => owner[s] = attempt[i.by].cust

ItemsBelong ==
  \A s \in StripeId : \A i \in unbilled[s] : ItemBelongs(i, s)

InvoicesBelong ==
  \A n \in Invoiced :
    /\ Started(n)
    /\ \A i \in invoice[n].items : ItemBelongs(i, invoice[n].to)

IInv ==
  /\ TypeOK
  /\ RequestShape
  /\ OwnAttempt
  /\ NothingSentBefore
  /\ SettingsBelong
  /\ ItemsBelong
  /\ InvoicesBelong
  /\ RunHasInvoice

-----------------------------------------------------------------------------
\* Goto moves call p to step s and keeps the rest of it.
LEMMA GotoReq ==
  ASSUME TypeOK, NEW p \in Proc, NEW s,
         s \in {"insert", "ensure", "items", "finalize", "record"}, Goto(p, s)
  PROVE  /\ req' \in [Proc -> Call]
         /\ req'[p].step = s
         /\ req'[p].cust = req[p].cust
         /\ req'[p].num = req[p].num
         /\ req'[p].todo = req[p].todo
         /\ req'[p].cid = req[p].cid
         /\ \A q \in Proc \ {p} : req'[q] = req[q]
BY DEF TypeOK, Goto, Call

\* An idle call is well formed.
LEMMA IdleCall == /\ Idle \in Call
                  /\ Idle.step = "idle"
                  /\ Idle.num = None
                  /\ Idle.todo = {}
                  /\ Idle.cid = NoId
BY DEF Idle, Call

\* Return ends call p and leaves the others alone.
LEMMA ReturnReq ==
  ASSUME TypeOK, NEW p \in Proc, Return(p)
  PROVE  /\ req' \in [Proc -> Call]
         /\ req'[p] = Idle
         /\ \A q \in Proc \ {p} : req'[q] = req[q]
         /\ inserting' \in [Customer -> Proc \cup {None}]
BY IdleCall DEF TypeOK, Return, Unlock

\* Unlock only forgets.
LEMMA UnlockType ==
  ASSUME TypeOK, NEW p \in Proc, Unlock(p)
  PROVE  inserting' \in [Customer -> Proc \cup {None}]
BY DEF TypeOK, Unlock

\* GiveUp frees at most the attempt of call p.
LEMMA GiveUpAttempt ==
  ASSUME TypeOK, NEW p \in Proc, GiveUp(p)
  PROVE  /\ attempt' \in [Attempt -> {None} \cup Charge]
         /\ \A n \in Attempt : n # Num(p) => attempt'[n] = attempt[n]
BY DEF TypeOK, GiveUp

\* The types of one call, one item and one attempt.
LEMMA Typed ==
  ASSUME TypeOK
  PROVE  /\ \A p \in Proc : /\ req[p] \in Call
                            /\ Cust(p) \in Customer \cup {None}
                            /\ Num(p) \in Attempt \cup {None}
                            /\ Cid(p) \in StripeId \cup {NoId, Unknown}
                            /\ req[p].todo \subseteq Line
         /\ \A s \in StripeId : \A i \in unbilled[s] : i \in Item /\ i.by \in Attempt
         /\ \A n \in Invoiced :
              /\ n \in Attempt /\ invoice[n] \in Invoice /\ invoice[n].to \in StripeId
              /\ \A i \in invoice[n].items : i \in Item /\ i.by \in Attempt
         /\ \A n \in Attempt : Started(n) => attempt[n] \in Charge
<1> USE DEF TypeOK
<1>1. \A p \in Proc : /\ req[p] \in Call
                      /\ Cust(p) \in Customer \cup {None}
                      /\ Num(p) \in Attempt \cup {None}
                      /\ Cid(p) \in StripeId \cup {NoId, Unknown}
                      /\ req[p].todo \subseteq Line
  BY DEF Call, Cust, Num, Cid
<1>2. \A s \in StripeId : \A i \in unbilled[s] : i \in Item /\ i.by \in Attempt
  BY DEF Item
<1>3. \A n \in Invoiced :
        /\ n \in Attempt /\ invoice[n] \in Invoice /\ invoice[n].to \in StripeId
        /\ \A i \in invoice[n].items : i \in Item /\ i.by \in Attempt
  BY DEF Item, Invoiced, Invoice
<1>4. \A n \in Attempt : Started(n) => attempt[n] \in Charge
  BY DEF Started
<1> QED BY <1>1, <1>2, <1>3, <1>4

\* Nothing that the invariant is about changes.
LEMMA FrameStep ==
  ASSUME IInv, TypeOK',
         UNCHANGED <<runs, settings, req, owner, unbilled, invoice, attempt>>
  PROVE  IInv'
BY DEF IInv, RequestShape, Shape, OwnAttempt, NothingSentBefore, Untouched,
       SettingsBelong, ItemsBelong, ItemBelongs, InvoicesBelong, RunHasInvoice, At, Cust,
       Num, Cid, Started, Billed, Debt, Invoiced

\* Call p moves on, or ends, and Stripe and the attempts stay as they are.
LEMMA MoveStep ==
  ASSUME IInv, TypeOK', NEW p \in Proc,
         \A q \in Proc \ {p} : req'[q] = req[q],
         Shape(p)', SettingsBelong',
         Num(p)' \in {Num(p), None},
         Num(p)' # None /\ req'[p].step \in Before => req[p].step \in Before,
         UNCHANGED <<runs, owner, unbilled, invoice, attempt>>
  PROVE  IInv'
<1> USE DEF At, Cust, Num, Cid, Started, Invoiced
<1>1. RequestShape'
  BY DEF IInv, RequestShape, Shape
<1>2. OwnAttempt'
  BY DEF IInv, OwnAttempt
<1>3. NothingSentBefore'
  BY DEF IInv, NothingSentBefore, Untouched
<1>4. ItemsBelong' /\ InvoicesBelong' /\ RunHasInvoice'
  BY DEF IInv, ItemsBelong, ItemBelongs, InvoicesBelong, RunHasInvoice, Billed, Debt
<1> QED BY <1>1, <1>2, <1>3, <1>4 DEF IInv

\* Whom a Stripe customer was created for never changes.
OwnersStay == \A u \in StripeId : owner[u] # None => owner'[u] = owner[u]

\* An item stays where it belongs.
LEMMA ItemStays ==
  ASSUME IInv, OwnersStay, NEW u \in StripeId, NEW i, i.by \in Attempt,
         ItemBelongs(i, u), attempt'[i.by] = attempt[i.by]
  PROVE  ItemBelongs(i, u)'
<1>1. attempt[i.by].cust \in Customer
  BY Typed DEF IInv, Charge, ItemBelongs
<1> QED BY <1>1, NoValueAssumption DEF ItemBelongs, OwnersStay, Started

\* Stripe creates a customer that nothing refers to yet.
LEMMA NewOwner ==
  ASSUME IInv, NEW t \in StripeId, NEW c \in Customer, owner[t] = None,
         owner' = [owner EXCEPT ![t] = c], UNCHANGED settings
  PROVE  /\ owner' \in [StripeId -> Customer \cup {None}] /\ owner'[t] = c
         /\ OwnersStay /\ SettingsBelong'
<1>1. /\ owner' \in [StripeId -> Customer \cup {None}] /\ owner'[t] = c
      /\ OwnersStay
  BY DEF IInv, TypeOK, OwnersStay
<1> QED BY <1>1, NoValueAssumption DEF IInv, SettingsBelong, OwnersStay

\* Call p ends before it has sent anything; its Stripe customer may be left.
LEMMA GiveUpStep ==
  ASSUME IInv, TypeOK', NEW p \in Proc, GiveUp(p),
         req[p].step \in Before, SettingsBelong', OwnersStay,
         UNCHANGED <<runs, unbilled, invoice>>
  PROVE  IInv'
<1> USE DEF At, Cust, Num, Cid, Started, Invoiced
<1>1. /\ req'[p] = Idle
      /\ \A q \in Proc \ {p} : req'[q] = req[q]
      /\ \A n \in Attempt : n # Num(p) => attempt'[n] = attempt[n]
  BY ReturnReq, GiveUpAttempt DEF GiveUp, IInv
<1>2. Num(p) # None => Untouched(Num(p))
  BY DEF IInv, NothingSentBefore
<1>3. \A s \in StripeId : \A i \in unbilled[s] :
        i.by \in Attempt /\ attempt'[i.by] = attempt[i.by]
  BY <1>1, <1>2, Typed, NoValueAssumption DEF IInv, Untouched
<1>4. \A n \in Invoiced : /\ attempt'[n] = attempt[n]
                          /\ \A i \in invoice[n].items : attempt'[i.by] = attempt[i.by]
  BY <1>1, <1>2, Typed, NoValueAssumption DEF IInv, Untouched
<1>5. RequestShape'
  <2> SUFFICES ASSUME NEW q \in Proc PROVE Shape(q)'
    BY DEF RequestShape
  <2>1. CASE q = p
    BY <2>1, <1>1, IdleCall DEF Shape
  <2>2. CASE q # p
    <3>1. Num(q) # None => Num(q) \in Attempt /\ Num(q) # Num(p)
      BY <2>2, Typed DEF IInv, OwnAttempt
    <3>2. Cust(q) \in Customer /\ Cust(q) \notin Editor /\ Cid(q) # NoId =>
            owner'[Cid(q)] = owner[Cid(q)]
      BY NoValueAssumption, IdleCall
      DEF IInv, RequestShape, Shape, OwnersStay
    <3> QED BY <3>1, <3>2, <2>2, <1>1 DEF IInv, RequestShape, Shape
  <2> QED BY <2>1, <2>2
<1>6. OwnAttempt'
  BY <1>1, IdleCall DEF IInv, OwnAttempt
<1>7. NothingSentBefore'
  BY <1>1, IdleCall DEF IInv, NothingSentBefore, Untouched
<1>8. ItemsBelong'
  BY <1>3, ItemStays DEF IInv, ItemsBelong
<1>9. InvoicesBelong'
  BY <1>4, Typed, ItemStays DEF IInv, InvoicesBelong
<1>10. RunHasInvoice'
  BY <1>4 DEF IInv, RunHasInvoice, Billed, Debt
<1> QED BY <1>5, <1>6, <1>7, <1>8, <1>9, <1>10 DEF IInv

\* charge_subscription starts an attempt nobody has used, unless the run
\* exists.
LEMMA StartChargeStep ==
  ASSUME IInv, NEW p \in Proc, NEW c \in Customer, NEW n \in Attempt,
         StartCharge(p, c, n)
  PROVE  IInv'
<1> USE DEF At, Cust, Num, Cid, Started, Invoiced
<1>1. queue' \in SUBSET Customer
  BY DEF StartCharge, Takes, IInv, TypeOK
<1>2. CASE Billed(c, month)
  BY <1>1, <1>2, FrameStep DEF StartCharge, IInv, TypeOK
<1>3. CASE ~Billed(c, month)
  <2> DEFINE a == [cust |-> c, month |-> month, lines |-> {}]
             r == [Idle EXCEPT !.step = "compute", !.cust = c, !.num = n]
  <2>1. /\ attempt[n] = None
        /\ attempt' = [attempt EXCEPT ![n] = a]
        /\ req' = [req EXCEPT ![p] = r]
        /\ req[p].step = "idle"
        /\ UNCHANGED <<month, configured, runs, settings, inserting, owner,
                       unbilled, invoice>>
    BY <1>3 DEF StartCharge, Takes
  <2>2. a \in Charge /\ a # None /\ a.cust = c
    BY NoneAssumption DEF Charge, IInv, TypeOK
  <2>3. /\ r \in Call /\ r.step = "compute" /\ r.cust = c /\ r.num = n
        /\ r.cid = NoId
    BY DEF Call, Idle
  <2> HIDE DEF a, r
  <2>4. /\ req' \in [Proc -> Call] /\ req'[p] = r
        /\ \A q \in Proc \ {p} : req'[q] = req[q]
    BY <2>1, <2>3 DEF IInv, TypeOK
  <2>5. /\ attempt' \in [Attempt -> {None} \cup Charge] /\ attempt'[n] = a
        /\ \A m \in Attempt \ {n} : attempt'[m] = attempt[m]
    BY <2>1, <2>2 DEF IInv, TypeOK
  <2>6. \A q \in Proc : Num(q) # n
    BY <2>1, NoValueAssumption, IdleCall DEF IInv, RequestShape, Shape
  <2>7. TypeOK'
    BY <1>1, <2>1, <2>4, <2>5 DEF IInv, TypeOK
  <2>8. RequestShape'
    <3> SUFFICES ASSUME NEW q \in Proc PROVE Shape(q)'
      BY DEF RequestShape
    <3>1. CASE q = p
      BY <3>1, <2>4, <2>3, <2>5, <2>2, NoValueAssumption DEF Shape
    <3>2. CASE q # p
      <4>1. Num(q) # None => Num(q) \in Attempt \ {n}
        BY <2>6, Typed DEF IInv
      <4> QED BY <4>1, <3>2, <2>1, <2>4, <2>5 DEF IInv, RequestShape, Shape
    <3> QED BY <3>1, <3>2
  <2>9. OwnAttempt'
    BY <2>3, <2>4, <2>6 DEF IInv, OwnAttempt
  <2>10. Untouched(n)
    BY <2>1, NoValueAssumption
    DEF IInv, ItemsBelong, ItemBelongs, InvoicesBelong, Untouched
  <2>11. NothingSentBefore'
    BY <2>1, <2>3, <2>4, <2>10 DEF IInv, NothingSentBefore, Untouched
  <2>12. \A m \in Attempt : attempt[m] # None => attempt'[m] = attempt[m]
    BY <2>1, <2>5
  <2>13. ItemsBelong' /\ InvoicesBelong' /\ RunHasInvoice' /\ SettingsBelong'
    BY <2>1, <2>12, Typed DEF IInv, ItemsBelong, ItemBelongs, InvoicesBelong, SettingsBelong,
       RunHasInvoice, Billed, Debt
  <2> QED BY <2>7, <2>8, <2>9, <2>11, <2>13 DEF IInv
<1> QED BY <1>2, <1>3

\* A request that only needs the Stripe customer.
LEMMA StartEnsureStep ==
  ASSUME IInv, NEW p \in Proc, NEW c \in Customer, StartEnsure(p, c)
  PROVE  IInv'
<1> DEFINE r == [Idle EXCEPT !.step = "settings", !.cust = c]
<1>1. /\ r \in Call /\ r.step = "settings" /\ r.cust = c /\ r.num = None
      /\ r.todo = {} /\ r.cid = NoId
  BY DEF Call, Idle
<1>2. req' = [req EXCEPT ![p] = r]
  BY DEF StartEnsure
<1> HIDE DEF r
<1>3. /\ req' \in [Proc -> Call] /\ req'[p] = r
      /\ \A q \in Proc \ {p} : req'[q] = req[q]
  BY <1>1, <1>2 DEF IInv, TypeOK
<1>4. TypeOK' /\ SettingsBelong'
  BY <1>3 DEF StartEnsure, IInv, TypeOK, SettingsBelong
<1>5. Shape(p)'
  BY <1>1, <1>3 DEF Shape, At, Cust, Num, Cid
<1>6. UNCHANGED <<runs, owner, unbilled, invoice, attempt>>
  BY DEF StartEnsure
<1> QED BY <1>1, <1>3, <1>4, <1>5, <1>6, MoveStep DEF Num

\* _compute_subscription fixes the lines of the attempt.
LEMMA ComputeStep ==
  ASSUME IInv, NEW p \in Proc, Compute(p)
  PROVE  IInv'
<1> USE DEF At, Cust, Num, Cid, Started, Invoiced
<1> DEFINE n == Num(p)
<1>1. PICK ls \in SUBSET Line :
        /\ attempt' = [attempt EXCEPT ![n].lines = ls]
        /\ req' = [req EXCEPT ![p].step = "settings", ![p].todo = ls]
  BY DEF Compute
<1>2. n \in Attempt /\ attempt[n] \in Charge /\ attempt[n].cust = Cust(p)
  BY Typed DEF Compute, IInv, RequestShape, Shape
<1>3. /\ attempt' \in [Attempt -> {None} \cup Charge]
      /\ attempt'[n] \in Charge /\ attempt'[n] # None
      /\ attempt'[n].cust = attempt[n].cust /\ attempt'[n].month = attempt[n].month
      /\ \A m \in Attempt \ {n} : attempt'[m] = attempt[m]
  <2>1. [attempt[n] EXCEPT !.lines = ls] \in Charge
    BY <1>2 DEF Charge
  <2>2. attempt' = [attempt EXCEPT ![n] = [attempt[n] EXCEPT !.lines = ls]]
    BY <1>1
  <2>3. /\ [attempt[n] EXCEPT !.lines = ls].cust = attempt[n].cust
        /\ [attempt[n] EXCEPT !.lines = ls].month = attempt[n].month
    BY <1>2 DEF Charge
  <2> HIDE DEF n
  <2>4. attempt'[n] = [attempt[n] EXCEPT !.lines = ls]
    BY <2>2, <1>2 DEF IInv, TypeOK
  <2> QED BY <2>1, <2>2, <2>3, <2>4, <1>2, NoneAssumption DEF IInv, TypeOK
<1>4. /\ req' \in [Proc -> Call]
      /\ req'[p].step = "settings" /\ req'[p].cust = req[p].cust
      /\ req'[p].num = req[p].num /\ req'[p].cid = req[p].cid
      /\ \A q \in Proc \ {p} : req'[q] = req[q]
  <2>1. req \in [Proc -> Call] /\ req[p] \in Call
    BY DEF IInv, TypeOK
  <2> QED BY <1>1, <2>1 DEF Call
<1>5. \A m \in Attempt : /\ attempt[m] # None => attempt'[m] # None
                         /\ attempt[m] # None => attempt'[m].cust = attempt[m].cust
                         /\ attempt[m] # None => attempt'[m].month = attempt[m].month
  BY <1>3
<1>6. UNCHANGED <<runs, settings, inserting, owner, unbilled, invoice>>
  BY DEF Compute
<1>7. TypeOK'
  BY <1>3, <1>4 DEF Compute, IInv, TypeOK
<1>8. RequestShape'
  <2> SUFFICES ASSUME NEW q \in Proc PROVE Shape(q)'
    BY DEF RequestShape
  <2>1. Num(q) # None => Num(q) \in Attempt
    BY Typed DEF IInv
  <2>2. CASE q = p
    BY <2>2, <1>2, <1>3, <1>4, <1>6, NoValueAssumption
    DEF IInv, RequestShape, Shape, Compute
  <2>3. CASE q # p
    BY <2>1, <2>3, <1>4, <1>5, <1>6 DEF IInv, RequestShape, Shape
  <2> QED BY <2>2, <2>3
<1>9. OwnAttempt'
  BY <1>4 DEF IInv, OwnAttempt
<1>10. NothingSentBefore'
  BY <1>4, <1>6 DEF Compute, IInv, NothingSentBefore, Untouched, Before
<1>11. ItemsBelong' /\ InvoicesBelong' /\ SettingsBelong'
  BY <1>5, <1>6, Typed DEF IInv, ItemsBelong, ItemBelongs, InvoicesBelong, SettingsBelong
<1>12. RunHasInvoice'
  BY <1>5, <1>6 DEF IInv, InvoicesBelong, RunHasInvoice, Billed, Debt
<1> QED BY <1>7, <1>8, <1>9, <1>10, <1>11, <1>12 DEF IInv

\* get_or_create reads the row: unless it was edited, the id it finds was
\* created for the customer.
LEMMA ReadSettingsStep ==
  ASSUME IInv, NEW p \in Proc, ReadSettings(p)
  PROVE  IInv'
<1> USE DEF At, Cust, Num, Cid, Started, Invoiced
<1>1. /\ req[p].step = "settings" /\ req[p] \in Call /\ Cust(p) \in Customer
      /\ UNCHANGED <<month, configured, runs, settings, inserting, queue,
                     owner, unbilled, invoice, attempt>>
  BY Typed, NoValueAssumption DEF ReadSettings, IInv, RequestShape, Shape
<1>2. SettingsBelong'
  BY <1>1 DEF IInv, SettingsBelong
<1>3. CASE settings[Cust(p)] = NoRow
  <2>1. Goto(p, "insert")
    BY <1>3 DEF ReadSettings
  <2>2. /\ req' \in [Proc -> Call] /\ req'[p].step = "insert"
        /\ req'[p].cust = req[p].cust /\ req'[p].num = req[p].num
        /\ req'[p].todo = req[p].todo /\ req'[p].cid = req[p].cid
        /\ \A q \in Proc \ {p} : req'[q] = req[q]
    BY <2>1, GotoReq DEF IInv
  <2>3. TypeOK' /\ Shape(p)'
    BY <1>1, <2>2 DEF IInv, TypeOK, RequestShape, Shape
  <2> QED BY <1>1, <1>2, <2>2, <2>3, MoveStep DEF Before
<1>4. CASE settings[Cust(p)] # NoRow
  <2> DEFINE id == settings[Cust(p)]
  <2>1. id \in StripeId \cup {NoId, Unknown}
    BY <1>1, <1>4 DEF IInv, TypeOK
  <2>2. req' = [req EXCEPT ![p].step = "ensure", ![p].cid = id]
    BY <1>4 DEF ReadSettings
  <2>3. Cust(p) \notin Editor /\ id # NoId => id \in StripeId /\ owner[id] = Cust(p)
    BY <1>1, <2>1 DEF IInv, SettingsBelong
  <2> HIDE DEF id
  <2>4. /\ req' \in [Proc -> Call] /\ req'[p].step = "ensure"
        /\ req'[p].cust = req[p].cust /\ req'[p].num = req[p].num
        /\ req'[p].todo = req[p].todo /\ req'[p].cid = id
        /\ \A q \in Proc \ {p} : req'[q] = req[q]
    BY <1>1, <2>1, <2>2 DEF IInv, TypeOK, Call
  <2>5. TypeOK' /\ Shape(p)'
    BY <1>1, <2>3, <2>4 DEF IInv, TypeOK, RequestShape, Shape
  <2> QED BY <1>1, <1>2, <2>4, <2>5, MoveStep DEF Before
<1> QED BY <1>3, <1>4

\* The INSERT of the row goes through, or ends the call.
LEMMA InsertSettingsStep ==
  ASSUME IInv, NEW p \in Proc, InsertSettings(p)
  PROVE  IInv'
<1> USE DEF At, Cust, Num, Cid, Started, Invoiced
<1>1. /\ req[p].step = "insert" /\ req[p] \in Call /\ Cust(p) \in Customer
      /\ UNCHANGED <<month, configured, runs, settings, queue, owner,
                     unbilled, invoice>>
  BY Typed, NoValueAssumption DEF InsertSettings, IInv, RequestShape, Shape
<1>2. SettingsBelong'
  BY <1>1 DEF IInv, SettingsBelong
<1>3. CASE settings[Cust(p)] = NoRow
  <2>1. /\ Goto(p, "ensure") /\ UNCHANGED attempt
        /\ inserting' = [inserting EXCEPT ![Cust(p)] = p]
    BY <1>3 DEF InsertSettings
  <2>2. /\ req' \in [Proc -> Call] /\ req'[p].step = "ensure"
        /\ req'[p].cust = req[p].cust /\ req'[p].num = req[p].num
        /\ req'[p].todo = req[p].todo /\ req'[p].cid = req[p].cid
        /\ \A q \in Proc \ {p} : req'[q] = req[q]
    BY <2>1, GotoReq DEF IInv
  <2>3. inserting' \in [Customer -> Proc \cup {None}]
    BY <2>1 DEF IInv, TypeOK
  <2>4. TypeOK' /\ Shape(p)'
    BY <1>1, <2>1, <2>2, <2>3 DEF IInv, TypeOK, RequestShape, Shape
  <2> QED BY <1>1, <1>2, <2>1, <2>2, <2>4, MoveStep DEF Before
<1>4. CASE settings[Cust(p)] # NoRow
  <2>1. GiveUp(p)
    BY <1>4 DEF InsertSettings
  <2>2. TypeOK'
    BY <1>1, <2>1, ReturnReq, GiveUpAttempt DEF GiveUp, IInv, TypeOK
  <2> QED BY <1>1, <1>2, <2>1, <2>2, GiveUpStep DEF Before, OwnersStay
<1> QED BY <1>3, <1>4

\* What follows _ensure_stripe_customer, once there is an id.
LEMMA AfterEnsureStep ==
  ASSUME IInv, NEW p \in Proc, AfterEnsure(p),
         req[p].step \in {"ensure", "save"}, Cid(p) # NoId,
         settings' \in [Customer -> StripeId \cup {NoRow, NoId, Unknown}],
         SettingsBelong',
         UNCHANGED <<month, configured, runs, queue, owner, unbilled, invoice>>
  PROVE  IInv'
<1> USE DEF At, Cust, Num, Cid, Started, Invoiced
<1>1. CASE req[p].todo = {}
  <2>1. GiveUp(p)
    BY <1>1 DEF AfterEnsure
  <2>2. TypeOK'
    BY <2>1, ReturnReq, GiveUpAttempt DEF GiveUp, IInv, TypeOK
  <2> QED BY <2>1, <2>2, GiveUpStep DEF Before, OwnersStay
<1>2. CASE req[p].todo # {}
  <2>1. Goto(p, "items") /\ Unlock(p) /\ UNCHANGED attempt
    BY <1>2 DEF AfterEnsure
  <2>2. /\ req' \in [Proc -> Call] /\ req'[p].step = "items"
        /\ req'[p].cust = req[p].cust /\ req'[p].num = req[p].num
        /\ req'[p].todo = req[p].todo /\ req'[p].cid = req[p].cid
        /\ \A q \in Proc \ {p} : req'[q] = req[q]
    BY <2>1, GotoReq DEF IInv
  <2>3. TypeOK'
    BY <2>1, <2>2, UnlockType DEF IInv, TypeOK
  <2>4. Shape(p)'
    BY <1>2, <2>1, <2>2 DEF IInv, RequestShape, Shape
  <2> QED BY <2>1, <2>2, <2>3, <2>4, MoveStep DEF Before
<1> QED BY <1>1, <1>2

\* ensure_customer gives up, takes the id of the settings or creates a
\* customer, which nothing refers to yet.
LEMMA EnsureCustomerStep ==
  ASSUME IInv, NEW p \in Proc, EnsureCustomer(p)
  PROVE  IInv'
<1> USE DEF At, Cust, Num, Cid, Started, Invoiced
<1>1. /\ req[p].step = "ensure" /\ req[p] \in Call /\ Cust(p) \in Customer
      /\ UNCHANGED <<month, configured, runs, settings, queue, unbilled, invoice>>
  BY Typed, NoValueAssumption DEF EnsureCustomer, IInv, RequestShape, Shape
<1>2. ASSUME GiveUp(p), OwnersStay, SettingsBelong',
             owner' \in [StripeId -> Customer \cup {None}]
      PROVE  IInv'
  <2>1. TypeOK'
    BY <1>1, <1>2, ReturnReq, GiveUpAttempt DEF GiveUp, IInv, TypeOK
  <2> QED BY <1>1, <1>2, <2>1, GiveUpStep DEF Before
<1>0. CASE GiveUp(p) /\ UNCHANGED owner
  BY <1>0, <1>1, <1>2 DEF IInv, TypeOK, SettingsBelong, OwnersStay
<1>5. ASSUME NEW t \in StripeId, owner[t] = None, GiveUp(p),
             owner' = [owner EXCEPT ![t] = Cust(p)]
      PROVE  IInv'
  BY <1>1, <1>2, <1>5, NewOwner
<1>3. CASE req[p].cid # NoId /\ AfterEnsure(p) /\ UNCHANGED owner
  <2>1. SettingsBelong' /\ settings' \in [Customer -> StripeId \cup {NoRow, NoId, Unknown}]
    BY <1>1, <1>3 DEF IInv, TypeOK, SettingsBelong
  <2> QED BY <1>1, <1>3, <2>1, AfterEnsureStep
<1>4. ASSUME NEW t \in StripeId, owner[t] = None,
             owner' = [owner EXCEPT ![t] = Cust(p)],
             req' = [req EXCEPT ![p].step = "save", ![p].cid = t],
             UNCHANGED <<inserting, attempt>>
      PROVE  IInv'
  <2>1. /\ req' \in [Proc -> Call] /\ req'[p].step = "save"
        /\ req'[p].cust = req[p].cust /\ req'[p].num = req[p].num
        /\ req'[p].todo = req[p].todo /\ req'[p].cid = t
        /\ \A q \in Proc \ {p} : req'[q] = req[q]
    BY <1>1, <1>4 DEF IInv, TypeOK, Call
  <2>2. /\ owner' \in [StripeId -> Customer \cup {None}] /\ owner'[t] = Cust(p)
        /\ OwnersStay /\ SettingsBelong'
    BY <1>1, <1>4, NewOwner
  <2>3. TypeOK'
    BY <1>1, <1>4, <2>1, <2>2 DEF IInv, TypeOK
  <2>4. RequestShape'
    <3> SUFFICES ASSUME NEW q \in Proc PROVE Shape(q)'
      BY DEF RequestShape
    <3>1. CASE q = p
      BY <3>1, <1>1, <1>4, <2>1, <2>2, NoValueAssumption DEF IInv, RequestShape, Shape
    <3>2. CASE q # p
      <4>1. Cust(q) \in Customer /\ Cust(q) \notin Editor /\ Cid(q) # NoId =>
              owner'[Cid(q)] = owner[Cid(q)]
        BY <2>2, NoValueAssumption, IdleCall
        DEF IInv, RequestShape, Shape, OwnersStay
      <4> QED BY <3>2, <4>1, <1>1, <1>4, <2>1 DEF IInv, RequestShape, Shape
    <3> QED BY <3>1, <3>2
  <2>5. OwnAttempt'
    BY <2>1 DEF IInv, OwnAttempt
  <2>6. NothingSentBefore'
    BY <1>1, <2>1 DEF IInv, NothingSentBefore, Untouched, Before
  <2>7. ItemsBelong'
    BY <1>1, <1>4, <2>2, Typed, ItemStays DEF IInv, ItemsBelong
  <2>8. InvoicesBelong'
    BY <1>1, <1>4, <2>2, Typed, ItemStays DEF IInv, InvoicesBelong
  <2>9. RunHasInvoice'
    BY <1>1, <1>4 DEF IInv, RunHasInvoice, Billed, Debt
  <2> QED BY <2>2, <2>3, <2>4, <2>5, <2>6, <2>7, <2>8, <2>9 DEF IInv
<1> QED BY <1>0, <1>3, <1>4, <1>5 DEF EnsureCustomer

\* The saved id is the one the call created for its customer.
LEMMA SaveCustomerStep ==
  ASSUME IInv, NEW p \in Proc, SaveCustomer(p)
  PROVE  IInv'
<1> USE DEF At, Cust, Num, Cid
<1>1. /\ req[p].step = "save" /\ Cust(p) \in Customer
      /\ Cid(p) \in StripeId /\ Cid(p) # NoId
      /\ Cust(p) \notin Editor => owner[Cid(p)] = Cust(p)
  BY Typed, NoValueAssumption DEF SaveCustomer, IInv, RequestShape, Shape
<1>2. settings' = [settings EXCEPT ![Cust(p)] = Cid(p)]
  BY DEF SaveCustomer
<1>3. /\ settings' \in [Customer -> StripeId \cup {NoRow, NoId, Unknown}]
      /\ \A c \in Customer :
           settings'[c] = IF c = Cust(p) THEN Cid(p) ELSE settings[c]
  BY <1>1, <1>2 DEF IInv, TypeOK
<1>4. SettingsBelong'
  BY <1>1, <1>3, NoValueAssumption DEF SaveCustomer, IInv, SettingsBelong
<1> QED BY <1>1, <1>3, <1>4, AfterEnsureStep DEF SaveCustomer

\* An item is the call's own and lands on the call's own Stripe customer.
LEMMA AddItemStep ==
  ASSUME IInv, NEW p \in Proc, AddItem(p)
  PROVE  IInv'
<1> USE DEF At, Cust, Num, Cid, Started, Invoiced
<1> DEFINE n == Num(p)
           t == Cid(p)
<1>1. /\ req[p].step = "items" /\ req[p] \in Call /\ Cust(p) \in Customer
      /\ n \in Attempt /\ Started(n) /\ attempt[n].cust = Cust(p)
      /\ t \in StripeId /\ t # NoId
      /\ Cust(p) \notin Editor => owner[t] = Cust(p)
      /\ UNCHANGED <<month, configured, runs, settings, inserting, queue, owner,
                     invoice, attempt>>
  BY Typed, NoValueAssumption DEF AddItem, IInv, RequestShape, Shape
<1>2. PICK l \in req[p].todo :
        /\ req' = [req EXCEPT ![p].todo = @ \ {l}]
        /\ unbilled' = [unbilled EXCEPT ![t] = @ \cup {[by |-> n, line |-> l]}]
  BY DEF AddItem
<1>3. /\ req' \in [Proc -> Call] /\ req'[p].step = "items"
      /\ req'[p].cust = req[p].cust /\ req'[p].num = req[p].num
      /\ req'[p].cid = req[p].cid
      /\ \A q \in Proc \ {p} : req'[q] = req[q]
  BY <1>1, <1>2 DEF IInv, TypeOK, Call
<1> DEFINE new == [by |-> n, line |-> l]
<1>4. new \in Item /\ new.by = n
  BY <1>1, <1>2, Typed DEF IInv, Item
<1>5. /\ unbilled' \in [StripeId -> SUBSET Item]
      /\ unbilled'[t] = unbilled[t] \cup {new}
      /\ \A u \in StripeId \ {t} : unbilled'[u] = unbilled[u]
  <2> HIDE DEF new, t, n
  <2>1. unbilled' = [unbilled EXCEPT ![t] = unbilled[t] \cup {new}]
    BY <1>2 DEF new
  <2> QED BY <2>1, <1>1, <1>4 DEF IInv, TypeOK
<1> HIDE DEF new, t, n
<1>6. TypeOK'
  BY <1>1, <1>3, <1>5 DEF IInv, TypeOK
<1>7. RequestShape'
  BY <1>1, <1>3, NoValueAssumption DEF IInv, RequestShape, Shape, n, t
<1>8. OwnAttempt'
  BY <1>3 DEF IInv, OwnAttempt
<1>9. NothingSentBefore'
  <2> SUFFICES ASSUME NEW q \in Proc, req'[q].step \in Before, Num(q)' # None
               PROVE  Untouched(Num(q))'
    BY DEF NothingSentBefore
  <2>1. q # p /\ req'[q] = req[q]
    BY <1>3 DEF Before
  <2>2. Num(q) # n /\ Untouched(Num(q))
    BY <2>1 DEF IInv, OwnAttempt, NothingSentBefore, n
  <2> QED BY <1>1, <1>4, <1>5, <2>1, <2>2 DEF Untouched
<1>10. SettingsBelong' /\ InvoicesBelong' /\ RunHasInvoice'
  BY <1>1 DEF IInv, SettingsBelong, InvoicesBelong, ItemBelongs, RunHasInvoice,
     Billed, Debt
<1>11. ItemsBelong'
  BY <1>1, <1>4, <1>5 DEF IInv, ItemsBelong, ItemBelongs
<1> QED BY <1>6, <1>7, <1>8, <1>9, <1>10, <1>11 DEF IInv

\* The invoice takes the pending items of the call's own Stripe customer.
LEMMA CreateInvoiceStep ==
  ASSUME IInv, NEW p \in Proc, CreateInvoice(p)
  PROVE  IInv'
<1> USE DEF At, Cust, Num, Cid, Started, Invoiced
<1> DEFINE n == Num(p)
           t == Cid(p)
           v == [to |-> t, items |-> unbilled[t]]
<1>1. /\ req[p].step = "items" /\ req[p] \in Call /\ Cust(p) \in Customer
      /\ n \in Attempt /\ Started(n) /\ attempt[n].cust = Cust(p)
      /\ t \in StripeId /\ t # NoId
      /\ Cust(p) \notin Editor => owner[t] = Cust(p)
      /\ UNCHANGED <<month, configured, runs, settings, queue, owner, attempt>>
  BY Typed, NoValueAssumption DEF CreateInvoice, IInv, RequestShape, Shape
<1>2. CASE Return(p) /\ UNCHANGED <<invoice, unbilled>>
  <2>1. TypeOK' /\ SettingsBelong'
    BY <1>1, <1>2, ReturnReq DEF IInv, TypeOK, SettingsBelong
  <2>2. Shape(p)' /\ Num(p)' = None
    BY <1>2, ReturnReq, IdleCall DEF Shape, IInv
  <2> QED BY <1>1, <1>2, <2>1, <2>2, ReturnReq, MoveStep DEF IInv
<1>3. CASE /\ invoice' = [invoice EXCEPT ![n] = v]
           /\ unbilled' = [unbilled EXCEPT ![t] = {}]
           /\ Goto(p, "finalize")
           /\ UNCHANGED inserting
  <2>1. /\ req' \in [Proc -> Call] /\ req'[p].step = "finalize"
        /\ req'[p].cust = req[p].cust /\ req'[p].num = req[p].num
        /\ req'[p].todo = req[p].todo /\ req'[p].cid = req[p].cid
        /\ \A q \in Proc \ {p} : req'[q] = req[q]
    BY <1>3, GotoReq DEF IInv
  <2>2. /\ v \in Invoice /\ v # None /\ v.to = t /\ v.items = unbilled[t]
    BY <1>1, NoneAssumption DEF IInv, TypeOK, Invoice
  <2> HIDE DEF n, t, v
  <2>3. /\ invoice' \in [Attempt -> {None} \cup Invoice]
        /\ invoice'[n] = v
        /\ \A m \in Attempt \ {n} : invoice'[m] = invoice[m]
    BY <1>1, <1>3, <2>2 DEF IInv, TypeOK
  <2>4. /\ unbilled' \in [StripeId -> SUBSET Item] /\ unbilled'[t] = {}
        /\ \A u \in StripeId \ {t} : unbilled'[u] = unbilled[u]
    BY <1>1, <1>3 DEF IInv, TypeOK
  <2>5. TypeOK'
    BY <1>1, <1>3, <2>1, <2>3, <2>4 DEF IInv, TypeOK
  <2>6. RequestShape'
    <3> SUFFICES ASSUME NEW q \in Proc PROVE Shape(q)'
      BY DEF RequestShape
    <3>1. CASE q = p
      BY <3>1, <1>1, <2>1, <2>2, <2>3 DEF IInv, RequestShape, Shape, n, t
    <3>2. CASE q # p
      <4>1. req[q].step \in {"finalize", "record"} =>
              Num(q) \in Attempt /\ Num(q) # n
        BY <3>2, <1>1, Typed DEF IInv, OwnAttempt, RequestShape, Shape, n
      <4> QED BY <3>2, <4>1, <1>1, <2>1, <2>3 DEF IInv, RequestShape, Shape
    <3> QED BY <3>1, <3>2
  <2>7. OwnAttempt'
    BY <2>1 DEF IInv, OwnAttempt
  <2>8. NothingSentBefore'
    <3> SUFFICES ASSUME NEW q \in Proc, req'[q].step \in Before, Num(q)' # None
                 PROVE  Untouched(Num(q))'
      BY DEF NothingSentBefore
    <3>1. q # p /\ req'[q] = req[q]
      BY <2>1 DEF Before
    <3>2. Num(q) \in Attempt /\ Num(q) # n /\ Untouched(Num(q))
      BY <3>1, Typed DEF IInv, OwnAttempt, NothingSentBefore, n
    <3> QED BY <1>1, <2>2, <2>3, <2>4, <3>1, <3>2 DEF Untouched
  <2>9. SettingsBelong'
    BY <1>1 DEF IInv, SettingsBelong
  <2>10. ItemsBelong'
    BY <1>1, <2>4 DEF IInv, ItemsBelong, ItemBelongs
  <2>11. InvoicesBelong'
    BY <1>1, <2>2, <2>3 DEF IInv, InvoicesBelong, ItemsBelong, ItemBelongs
  <2>12. RunHasInvoice'
    BY <1>1, <2>2, <2>3 DEF IInv, RunHasInvoice, Billed, Debt
  <2> QED BY <2>5, <2>6, <2>7, <2>8, <2>9, <2>10, <2>11, <2>12 DEF IInv
<1> QED BY <1>2, <1>3 DEF CreateInvoice

\* Finalizing changes nothing but the step of the call.
LEMMA FinalizeStep ==
  ASSUME IInv, NEW p \in Proc, Finalize(p)
  PROVE  IInv'
<1> USE DEF At, Cust, Num, Cid, Started
<1>1. /\ req[p].step = "finalize"
      /\ UNCHANGED <<month, configured, runs, settings, inserting, queue, owner,
                     unbilled, invoice, attempt>>
  BY DEF Finalize
<1>2. /\ req' \in [Proc -> Call] /\ req'[p].step = "record"
      /\ req'[p].cust = req[p].cust /\ req'[p].num = req[p].num
      /\ req'[p].todo = req[p].todo /\ req'[p].cid = req[p].cid
      /\ \A q \in Proc \ {p} : req'[q] = req[q]
  BY GotoReq DEF Finalize, IInv
<1>3. TypeOK' /\ SettingsBelong'
  BY <1>1, <1>2 DEF IInv, TypeOK, SettingsBelong
<1>4. Shape(p)'
  BY <1>1, <1>2 DEF IInv, RequestShape, Shape
<1> QED BY <1>1, <1>2, <1>3, <1>4, MoveStep DEF Before

\* A failing Stripe call ends the charge and takes nothing back.
LEMMA StripeFailsStep ==
  ASSUME IInv, NEW p \in Proc, StripeFails(p)
  PROVE  IInv'
<1>1. /\ Return(p)
      /\ UNCHANGED <<month, configured, runs, settings, queue, owner, unbilled,
                     invoice, attempt>>
  BY DEF StripeFails
<1>2. TypeOK' /\ SettingsBelong'
  BY <1>1, ReturnReq DEF IInv, TypeOK, SettingsBelong
<1>3. Shape(p)' /\ Num(p)' = None
  BY <1>1, ReturnReq, IdleCall DEF Shape, IInv, At, Num
<1> QED BY <1>1, <1>2, <1>3, ReturnReq, MoveStep DEF IInv

\* create_run records an attempt whose invoice exists, for what it charged.
LEMMA RecordRunStep ==
  ASSUME IInv, NEW p \in Proc, RecordRun(p)
  PROVE  IInv'
<1> USE DEF At, Cust, Num, Cid, Started, Invoiced
<1> DEFINE n == Num(p)
           c == attempt[n].cust
           m == attempt[n].month
<1>1. /\ n \in Attempt /\ n # None /\ attempt[n] \in Charge /\ invoice[n] # None
      /\ c \in Customer /\ m \in Month
  BY Typed DEF RecordRun, IInv, RequestShape, Shape, Charge
<1>2. /\ Return(p)
      /\ UNCHANGED <<month, configured, settings, queue, owner, unbilled,
                     invoice, attempt>>
      /\ runs' = IF Billed(c, m) THEN runs ELSE [runs EXCEPT ![c][m] = n]
  BY DEF RecordRun
<1>3. Debt(n) = <<c, m>>
  BY DEF Debt
<1> HIDE DEF n, c, m
<1>4. /\ runs' \in [Customer -> [Month -> Attempt \cup {None}]]
      /\ \A d \in Customer, k \in Month :
           runs'[d][k] = runs[d][k] \/ (d = c /\ k = m /\ runs'[d][k] = n)
  BY <1>1, <1>2 DEF IInv, TypeOK
<1>5. /\ req' \in [Proc -> Call] /\ req'[p] = Idle
      /\ \A q \in Proc \ {p} : req'[q] = req[q]
      /\ inserting' \in [Customer -> Proc \cup {None}]
  BY <1>2, ReturnReq DEF IInv
<1>6. TypeOK'
  BY <1>2, <1>4, <1>5 DEF IInv, TypeOK
<1>7. RequestShape'
  BY <1>2, <1>5, IdleCall DEF IInv, RequestShape, Shape
<1>8. OwnAttempt' /\ NothingSentBefore'
  BY <1>2, <1>5, IdleCall DEF IInv, OwnAttempt, NothingSentBefore, Untouched
<1>9. SettingsBelong' /\ ItemsBelong' /\ InvoicesBelong'
  BY <1>2 DEF IInv, SettingsBelong, ItemsBelong, ItemBelongs, InvoicesBelong
<1>10. RunHasInvoice'
  BY <1>1, <1>2, <1>3, <1>4 DEF IInv, RunHasInvoice, Billed, Debt
<1> QED BY <1>6, <1>7, <1>8, <1>9, <1>10 DEF IInv

\* A restart drops every call and leaves the tables and Stripe as they are.
LEMMA RestartStep ==
  ASSUME IInv, Restart
  PROVE  IInv'
<1>1. /\ req' = [p \in Proc |-> Idle]
      /\ UNCHANGED <<month, configured, runs, settings, owner, unbilled,
                     invoice, attempt>>
      /\ inserting' = [c \in Customer |-> None] /\ queue' = {}
  BY DEF Restart
<1>2. TypeOK'
  BY <1>1, IdleCall DEF IInv, TypeOK
<1>3. RequestShape' /\ OwnAttempt' /\ NothingSentBefore'
  BY <1>1, IdleCall DEF RequestShape, Shape, OwnAttempt, NothingSentBefore, At,
     Num
<1>4. SettingsBelong' /\ ItemsBelong' /\ InvoicesBelong' /\ RunHasInvoice'
  BY <1>1 DEF IInv, SettingsBelong, ItemsBelong, ItemBelongs, InvoicesBelong, RunHasInvoice,
     Started, Billed, Debt, Invoiced
<1> QED BY <1>2, <1>3, <1>4 DEF IInv

\* Editing the settings changes the row of one who edits.
LEMMA UpdateSettingsStep ==
  ASSUME IInv, NEW c \in Editor, UpdateSettings(c)
  PROVE  IInv'
<1>1. /\ \E id \in StripeId \cup {NoId, Unknown} :
           settings' = [settings EXCEPT ![c] = id]
      /\ UNCHANGED <<month, configured, runs, inserting, req, queue, owner,
                     unbilled, invoice, attempt>>
  BY DEF UpdateSettings
<1>2. TypeOK' /\ SettingsBelong'
  BY <1>1 DEF IInv, TypeOK, SettingsBelong
<1>3. RequestShape' /\ OwnAttempt' /\ NothingSentBefore'
  BY <1>1 DEF IInv, RequestShape, Shape, OwnAttempt, NothingSentBefore,
     Untouched, At, Cust, Num, Cid, Started, Invoiced
<1>4. ItemsBelong' /\ InvoicesBelong' /\ RunHasInvoice'
  BY <1>1 DEF IInv, ItemsBelong, ItemBelongs, InvoicesBelong, RunHasInvoice, Started, Billed,
     Debt, Invoiced
<1> QED BY <1>2, <1>3, <1>4 DEF IInv

\* The invariant holds initially, when nobody has called anything.
LEMMA InitIInv == Init => IInv
<1> SUFFICES ASSUME Init PROVE IInv
  OBVIOUS
<1>1. TypeOK
  BY IdleCall, MonthAssumption DEF Init, TypeOK, Month
<1>2. RequestShape /\ OwnAttempt /\ NothingSentBefore
  BY IdleCall DEF Init, RequestShape, Shape, OwnAttempt, NothingSentBefore, At,
     Num
<1>3. SettingsBelong /\ ItemsBelong /\ InvoicesBelong /\ RunHasInvoice
  BY NoValueAssumption DEF Init, SettingsBelong, ItemsBelong, ItemBelongs, InvoicesBelong,
     RunHasInvoice, Invoiced, Billed
<1> QED BY <1>1, <1>2, <1>3 DEF IInv

\* Every step keeps the invariant.
LEMMA NextIInv == IInv /\ [Next]_vars => IInv'
<1> SUFFICES ASSUME IInv, [Next]_vars PROVE IInv'
  OBVIOUS
<1>1. CASE StartSweep
  BY <1>1, FrameStep DEF StartSweep, IInv, TypeOK
<1>2. ASSUME NEW p \in Proc, NEW c \in Customer, NEW n \in Attempt,
             StartCharge(p, c, n)
      PROVE  IInv'
  BY <1>2, StartChargeStep
<1>3. ASSUME NEW p \in Proc, NEW c \in Customer, StartEnsure(p, c)
      PROVE  IInv'
  BY <1>3, StartEnsureStep
<1>4. ASSUME NEW p \in Proc, Step(p)
      PROVE  IInv'
  BY <1>4, ComputeStep, ReadSettingsStep, InsertSettingsStep,
     EnsureCustomerStep, SaveCustomerStep, AddItemStep, CreateInvoiceStep,
     FinalizeStep, RecordRunStep DEF Step
<1>5. ASSUME NEW p \in Proc, StripeFails(p)
      PROVE  IInv'
  BY <1>5, StripeFailsStep
<1>6. CASE Restart
  BY <1>6, RestartStep
<1>7. CASE Configure
  BY <1>7, FrameStep DEF Configure, IInv, TypeOK
<1>8. ASSUME NEW c \in Editor, UpdateSettings(c)
      PROVE  IInv'
  BY <1>8, UpdateSettingsStep
<1>9. CASE NextMonth
  BY <1>9, FrameStep, MonthAssumption DEF NextMonth, IInv, TypeOK, Month
<1>10. CASE UNCHANGED vars
  BY <1>10, FrameStep DEF vars, IInv, TypeOK
<1> QED
  BY <1>1, <1>2, <1>3, <1>4, <1>5, <1>6, <1>7, <1>8, <1>9, <1>10 DEF Next

\* So it always holds.
LEMMA SpecIInv == Spec => []IInv
  BY InitIInv, NextIInv, PTL DEF Spec

-----------------------------------------------------------------------------
\* The variables of Billing always have their types.
THEOREM TypeCorrect == Spec => []TypeOK
<1>1. IInv => TypeOK
  BY DEF IInv
<1> QED BY <1>1, SpecIInv, PTL

\* What billing_runs records for a customer and a month is an attempt for that
\* customer and month, whose invoice exists at Stripe.
THEOREM RunBacked == Spec => []RunHasInvoice
<1>1. IInv => RunHasInvoice
  BY DEF IInv
<1> QED BY <1>1, SpecIInv, PTL

\* Whatever ids others write into their own settings, what a customer owes who
\* leaves his alone is sent to a Stripe customer created for him.
THEOREM OwnCharges == Spec => []ChargesStayWithCustomer
<1>1. IInv => ChargesStayWithCustomer
  BY DEF IInv, InvoicesBelong, ItemBelongs, ChargesStayWithCustomer
<1> QED BY <1>1, SpecIInv, PTL

-----------------------------------------------------------------------------
\* The lines of a recorded run are invoiced.  A charge that knows its lines
\* has each of them still to send, pending on the Stripe customer it uses, or
\* on an invoice to that, and creates its invoice once.

Sent(n, l, s) ==
  \E k \in Invoiced : [by |-> n, line |-> l] \in invoice[k].items /\ invoice[k].to = s

LinesFollow(p) ==
  Num(p) # None =>
    /\ req[p].step \in {"settings", "insert", "ensure", "save"} =>
         attempt[Num(p)].lines \subseteq req[p].todo
    /\ At(p, "items") =>
         /\ invoice[Num(p)] = None
         /\ \A l \in attempt[Num(p)].lines :
              \/ l \in req[p].todo
              \/ Cid(p) \in StripeId /\ [by |-> Num(p), line |-> l] \in unbilled[Cid(p)]
              \/ Sent(Num(p), l, Cid(p))
    /\ req[p].step \in {"finalize", "record"} =>
         \A l \in attempt[Num(p)].lines : Sent(Num(p), l, Cid(p))

LinesInv == (\A p \in Proc : LinesFollow(p)) /\ RunLinesInvoiced

\* A step of call p that leaves Stripe's objects alone: what it changes is at
\* most an attempt of its own that is on no invoice.
LEMMA LinesFrame ==
  ASSUME IInv, LinesInv, NEW p \in Proc, LinesFollow(p)',
         \A q \in Proc \ {p} :
           /\ req'[q] = req[q]
           /\ Num(q) # None => attempt'[Num(q)] = attempt[Num(q)],
         \A k \in Invoiced : attempt'[k] = attempt[k],
         UNCHANGED <<runs, unbilled, invoice>>
  PROVE  LinesInv'
<1> USE DEF At, Cust, Num, Cid, Invoiced
<1>1. \A n, l, u : Sent(n, l, u) => Sent(n, l, u)'
  BY DEF Sent
<1>2. ASSUME NEW q \in Proc
      PROVE  LinesFollow(q)'
  <2>1. CASE q = p
    BY <2>1
  <2>2. CASE q # p
    <3>1. /\ req'[q] = req[q]
          /\ Num(q) # None => attempt'[Num(q)] = attempt[Num(q)]
      BY <2>2
    <3> QED BY <3>1, <1>1 DEF LinesInv, LinesFollow
  <2> QED BY <2>1, <2>2
<1>3. RunLinesInvoiced'
  <2> SUFFICES ASSUME NEW c \in Customer, NEW m \in Month, Billed(c, m)',
                      NEW l \in attempt'[runs'[c][m]].lines
               PROVE  \E k \in Invoiced' :
                        /\ [by |-> runs'[c][m], line |-> l] \in invoice'[k].items
                        /\ invoice'[k].to = invoice'[runs'[c][m]].to
    BY DEF RunLinesInvoiced
  <2>1. runs[c][m] \in Invoiced /\ l \in attempt[runs[c][m]].lines /\ Billed(c, m)
    BY DEF IInv, RunHasInvoice, Billed
  <2>2. PICK k \in Invoiced : /\ [by |-> runs[c][m], line |-> l] \in invoice[k].items
                              /\ invoice[k].to = invoice[runs[c][m]].to
    BY <2>1 DEF LinesInv, RunLinesInvoiced
  <2> QED BY <2>2
<1> QED BY <1>2, <1>3 DEF LinesInv

\* The same when no attempt changes.
LEMMA LinesMove ==
  ASSUME IInv, LinesInv, NEW p \in Proc, LinesFollow(p)',
         \A q \in Proc \ {p} : req'[q] = req[q],
         UNCHANGED <<runs, unbilled, invoice, attempt>>
  PROVE  LinesInv'
BY LinesFrame

\* The same when call p is over or has no attempt.
LEMMA LinesEnd ==
  ASSUME IInv, LinesInv, NEW p \in Proc, Return(p),
         UNCHANGED <<runs, unbilled, invoice, attempt>>
  PROVE  LinesInv'
<1>1. LinesFollow(p)' /\ \A q \in Proc \ {p} : req'[q] = req[q]
  BY ReturnReq, IdleCall DEF LinesFollow, Num, IInv
<1> QED BY <1>1, LinesMove

\* Call p ends before it has sent anything: its attempt is on no invoice.
LEMMA LinesGiveUp ==
  ASSUME IInv, LinesInv, NEW p \in Proc, GiveUp(p), req[p].step \in Before,
         UNCHANGED <<runs, unbilled, invoice>>
  PROVE  LinesInv'
<1>1. /\ req'[p] = Idle
      /\ \A q \in Proc \ {p} : req'[q] = req[q]
      /\ \A n \in Attempt : n # Num(p) => attempt'[n] = attempt[n]
  BY ReturnReq, GiveUpAttempt DEF GiveUp, IInv
<1>2. LinesFollow(p)'
  BY <1>1, IdleCall DEF LinesFollow, Num
<1>3. \A q \in Proc \ {p} : Num(q) # None => attempt'[Num(q)] = attempt[Num(q)]
  BY <1>1, Typed DEF IInv, OwnAttempt
<1>4. \A k \in Invoiced : k \in Attempt /\ k # Num(p)
  BY NoValueAssumption DEF IInv, NothingSentBefore, Untouched, Invoiced
<1> QED BY <1>1, <1>2, <1>3, <1>4, LinesFrame

\* A new attempt has no lines and a name that no call and no invoice has.
LEMMA LinesStartCharge ==
  ASSUME IInv, LinesInv, NEW p \in Proc, NEW c \in Customer, NEW n \in Attempt,
         StartCharge(p, c, n)
  PROVE  LinesInv'
<1> DEFINE r == [Idle EXCEPT !.step = "compute", !.cust = c, !.num = n]
           a == [cust |-> c, month |-> month, lines |-> {}]
<1>1. CASE Billed(c, month)
  <2>1. UNCHANGED <<req, runs, unbilled, invoice, attempt>>
    BY <1>1 DEF StartCharge
  <2>2. LinesFollow(p)'
    BY <2>1 DEF LinesInv, LinesFollow, Sent, At, Cust, Num, Cid, Invoiced
  <2> QED BY <2>1, <2>2, LinesMove
<1>2. CASE ~Billed(c, month)
  <2>1. /\ ~Started(n) /\ attempt' = [attempt EXCEPT ![n] = a]
        /\ req' = [req EXCEPT ![p] = r]
        /\ UNCHANGED <<runs, unbilled, invoice>>
    BY <1>2 DEF StartCharge
  <2>2. r.step = "compute"
    BY DEF Idle
  <2> HIDE DEF r, a
  <2>3. /\ req'[p].step = "compute"
        /\ \A q \in Proc \ {p} : req'[q] = req[q]
        /\ \A k \in Attempt \ {n} : attempt'[k] = attempt[k]
    BY <2>1, <2>2 DEF IInv, TypeOK
  <2>4. LinesFollow(p)'
    BY <2>3 DEF LinesFollow, At
  <2>5. \A q \in Proc : Num(q) # None => Num(q) \in Attempt \ {n}
    BY <2>1, Typed, IdleCall DEF IInv, RequestShape, Shape, Num
  <2>6. \A k \in Invoiced : k \in Attempt \ {n}
    BY <2>1 DEF IInv, InvoicesBelong, Invoiced
  <2> QED BY <2>1, <2>3, <2>4, <2>5, <2>6, LinesFrame
<1> QED BY <1>1, <1>2

\* _compute_subscription: every line of the attempt is still to be sent.
LEMMA LinesCompute ==
  ASSUME IInv, LinesInv, NEW p \in Proc, Compute(p)
  PROVE  LinesInv'
<1> DEFINE n == Num(p)
<1>1. PICK ls \in SUBSET Line :
        /\ attempt' = [attempt EXCEPT ![n].lines = ls]
        /\ req' = [req EXCEPT ![p].step = "settings", ![p].todo = ls]
  BY DEF Compute
<1>2. /\ req[p].step = "compute" /\ n \in Attempt /\ attempt[n] \in Charge
      /\ UNCHANGED <<runs, unbilled, invoice>>
  BY Typed DEF Compute, IInv, RequestShape, Shape, At
<1>3. /\ req'[p].step = "settings" /\ req'[p].todo = ls /\ req'[p].num = n
      /\ \A q \in Proc \ {p} : req'[q] = req[q]
  BY <1>1, Typed DEF IInv, TypeOK, Call, Num
<1>4. [attempt[n] EXCEPT !.lines = ls].lines = ls
  BY <1>2 DEF Charge
<1> HIDE DEF n
<1>5. /\ attempt'[n].lines = ls
      /\ \A k \in Attempt \ {n} : attempt'[k] = attempt[k]
  BY <1>1, <1>2, <1>4 DEF IInv, TypeOK
<1>6. LinesFollow(p)'
  BY <1>3, <1>5 DEF LinesFollow, At, Num
<1>7. \A q \in Proc \ {p} : Num(q) # None => Num(q) \in Attempt \ {n}
  BY Typed DEF IInv, OwnAttempt, n
<1>8. \A k \in Invoiced : k \in Attempt \ {n}
  BY <1>2, NoValueAssumption
  DEF IInv, NothingSentBefore, Untouched, Invoiced, Before, n
<1> QED BY <1>2, <1>3, <1>5, <1>6, <1>7, <1>8, LinesFrame

\* Before the first item the lines stay in the list of what is to be sent.
LEMMA LinesWait ==
  ASSUME IInv, LinesInv, NEW p \in Proc,
         req[p].step \in Before \ {"compute"},
         req'[p].step \in {"insert", "ensure", "save", "items"},
         req'[p].num = req[p].num, req'[p].todo = req[p].todo,
         \A q \in Proc \ {p} : req'[q] = req[q],
         UNCHANGED <<runs, unbilled, invoice, attempt>>
  PROVE  LinesInv'
<1>1. LinesFollow(p)'
  BY DEF LinesInv, LinesFollow, IInv, NothingSentBefore, Untouched, Before, At, Num
<1> QED BY <1>1, LinesMove

\* The steps up to the first item.
LEMMA LinesBefore ==
  ASSUME IInv, LinesInv, NEW p \in Proc,
         ReadSettings(p) \/ InsertSettings(p) \/ EnsureCustomer(p)
           \/ SaveCustomer(p)
  PROVE  LinesInv'
<1> USE DEF At
<1>1. ASSUME NEW s \in {"insert", "ensure", "items"}, Goto(p, s),
             req[p].step \in Before \ {"compute"},
             UNCHANGED <<runs, unbilled, invoice, attempt>>
      PROVE  LinesInv'
  BY <1>1, GotoReq, LinesWait DEF IInv
<1>2. CASE ReadSettings(p)
  <2>1. /\ req[p].step \in Before \ {"compute"}
        /\ UNCHANGED <<runs, unbilled, invoice, attempt>>
    BY <1>2 DEF ReadSettings, Before
  <2>2. CASE req' = [req EXCEPT ![p].step = "ensure", ![p].cid = settings[Cust(p)]]
    <3>1. /\ req'[p].step = "ensure" /\ req'[p].num = req[p].num
          /\ req'[p].todo = req[p].todo
          /\ \A q \in Proc \ {p} : req'[q] = req[q]
      BY <2>2, Typed DEF IInv, TypeOK, Call
    <3> QED BY <2>1, <3>1, LinesWait
  <2> QED BY <1>1, <1>2, <2>1, <2>2 DEF ReadSettings
<1>3. CASE InsertSettings(p)
  <2>1. /\ req[p].step \in Before \ {"compute"}
        /\ UNCHANGED <<runs, unbilled, invoice>>
    BY <1>3 DEF InsertSettings, Before
  <2> QED BY <1>1, <1>3, <2>1, LinesGiveUp DEF InsertSettings
<1>4. ASSUME AfterEnsure(p), req[p].step \in Before \ {"compute"},
             UNCHANGED <<runs, unbilled, invoice>>
      PROVE  LinesInv'
  BY <1>1, <1>4, LinesGiveUp DEF AfterEnsure
<1>5. CASE EnsureCustomer(p)
  <2>1. /\ req[p].step \in Before \ {"compute"}
        /\ UNCHANGED <<runs, unbilled, invoice>>
    BY <1>5 DEF EnsureCustomer, Before
  <2>2. ASSUME NEW t \in StripeId,
               req' = [req EXCEPT ![p].step = "save", ![p].cid = t],
               UNCHANGED attempt
        PROVE  LinesInv'
    <3>1. /\ req'[p].step = "save" /\ req'[p].num = req[p].num
          /\ req'[p].todo = req[p].todo
          /\ \A q \in Proc \ {p} : req'[q] = req[q]
      BY <2>2, Typed DEF IInv, TypeOK, Call
    <3> QED BY <2>1, <2>2, <3>1, LinesWait
  <2> QED BY <1>4, <1>5, <2>1, <2>2, LinesGiveUp DEF EnsureCustomer
<1>6. CASE SaveCustomer(p)
  <2>1. /\ req[p].step \in Before \ {"compute"} /\ AfterEnsure(p)
        /\ UNCHANGED <<runs, unbilled, invoice>>
    BY <1>6 DEF SaveCustomer, Before
  <2> QED BY <1>4, <2>1
<1> QED BY <1>2, <1>3, <1>5, <1>6

\* The line that is sent becomes an item pending on the Stripe customer in use.
LEMMA LinesAddItem ==
  ASSUME IInv, LinesInv, NEW p \in Proc, AddItem(p)
  PROVE  LinesInv'
<1> USE DEF At, Cust, Num, Cid, Invoiced
<1> DEFINE n == Num(p)
           t == Cid(p)
<1>1. /\ req[p].step = "items" /\ req[p] \in Call /\ t \in StripeId
      /\ n \in Attempt
      /\ UNCHANGED <<runs, invoice, attempt>>
  BY Typed, NoValueAssumption DEF AddItem, IInv, RequestShape, Shape
<1>2. PICK l \in req[p].todo :
        /\ req' = [req EXCEPT ![p].todo = @ \ {l}]
        /\ unbilled' = [unbilled EXCEPT ![t] = @ \cup {[by |-> n, line |-> l]}]
  BY DEF AddItem
<1>3. /\ req'[p].step = "items"
      /\ req'[p].cust = req[p].cust /\ req'[p].num = req[p].num
      /\ req'[p].cid = req[p].cid /\ req'[p].todo = req[p].todo \ {l}
      /\ \A q \in Proc \ {p} : req'[q] = req[q]
  BY <1>1, <1>2 DEF IInv, TypeOK, Call
<1> DEFINE new == [by |-> n, line |-> l]
<1>4. /\ unbilled'[t] = unbilled[t] \cup {new}
      /\ \A u \in StripeId : unbilled[u] \subseteq unbilled'[u]
  <2> HIDE DEF new, t, n
  <2>1. unbilled' = [unbilled EXCEPT ![t] = unbilled[t] \cup {new}]
    BY <1>2 DEF new
  <2> QED BY <2>1, <1>1 DEF IInv, TypeOK
<1>5. \A k, m, u : Sent(k, m, u) => Sent(k, m, u)'
  BY <1>1 DEF Sent
<1>6. LinesFollow(p)'
  <2> SUFFICES ASSUME n # None
               PROVE  /\ invoice[n] = None
                      /\ \A m \in attempt[n].lines :
                           \/ m \in req'[p].todo
                           \/ [by |-> n, line |-> m] \in unbilled'[t]
                           \/ Sent(n, m, t)'
    BY <1>1, <1>3 DEF LinesFollow
  <2>1. /\ invoice[n] = None
        /\ \A m \in attempt[n].lines :
             \/ m \in req[p].todo
             \/ [by |-> n, line |-> m] \in unbilled[t]
             \/ Sent(n, m, t)
    BY <1>1 DEF LinesInv, LinesFollow
  <2> SUFFICES ASSUME NEW m \in attempt[n].lines
               PROVE  \/ m \in req'[p].todo
                      \/ [by |-> n, line |-> m] \in unbilled'[t]
                      \/ Sent(n, m, t)'
    BY <2>1
  <2>2. CASE m \in req[p].todo
    BY <2>2, <1>3, <1>4
  <2>3. CASE [by |-> n, line |-> m] \in unbilled[t]
    BY <2>3, <1>1, <1>4
  <2>4. CASE Sent(n, m, t)
    BY <2>4, <1>3, <1>5
  <2> QED BY <2>1, <2>2, <2>3, <2>4
<1> HIDE DEF new, t, n
<1>7. ASSUME NEW q \in Proc, q # p
      PROVE  LinesFollow(q)'
  <2>1. req'[q] = req[q]
    BY <1>3, <1>7
  <2> QED BY <2>1, <1>1, <1>4, <1>5 DEF LinesInv, LinesFollow
<1>8. RunLinesInvoiced'
  BY <1>1 DEF LinesInv, RunLinesInvoiced, Billed
<1> QED BY <1>6, <1>7, <1>8 DEF LinesInv

\* Invoice.create moves what is pending on the Stripe customer, of whichever
\* attempt, to one invoice; no invoice is lost.
LEMMA LinesCreateInvoice ==
  ASSUME IInv, LinesInv, NEW p \in Proc, CreateInvoice(p)
  PROVE  LinesInv'
<1> USE DEF At, Cust, Num, Cid, Invoiced
<1> DEFINE n == Num(p)
           t == Cid(p)
           v == [to |-> t, items |-> unbilled[t]]
<1>1. /\ req[p].step = "items" /\ req[p].todo = {}
      /\ n \in Attempt /\ n # None /\ t \in StripeId
      /\ UNCHANGED <<runs, attempt>>
  BY Typed, NoValueAssumption DEF CreateInvoice, IInv, RequestShape, Shape
<1>2. CASE Return(p) /\ UNCHANGED <<invoice, unbilled>>
  BY <1>1, <1>2, LinesEnd
<1>3. CASE /\ invoice' = [invoice EXCEPT ![n] = v]
           /\ unbilled' = [unbilled EXCEPT ![t] = {}]
           /\ Goto(p, "finalize")
  <2>1. /\ req'[p].step = "finalize"
        /\ req'[p].cid = req[p].cid /\ req'[p].num = req[p].num
        /\ \A q \in Proc \ {p} : req'[q] = req[q]
    BY <1>3, GotoReq DEF IInv
  <2>2. invoice[n] = None
    BY <1>1 DEF LinesInv, LinesFollow
  <2>3. /\ v \in Invoice /\ v # None /\ v.to = t /\ v.items = unbilled[t]
    BY <1>1, NoneAssumption DEF IInv, TypeOK, Invoice
  <2> HIDE DEF n, t, v
  <2>4. /\ invoice'[n] = v /\ n \in Invoiced'
        /\ \A m \in Attempt \ {n} : invoice'[m] = invoice[m]
        /\ \A u \in StripeId \ {t} : unbilled'[u] = unbilled[u]
    BY <1>1, <1>3, <2>3 DEF IInv, TypeOK
  <2>5. \A k \in Invoiced : k \in Invoiced' /\ invoice'[k] = invoice[k]
    BY <2>2, <2>4
  <2>6. \A k, l, u : Sent(k, l, u) => Sent(k, l, u)'
    BY <1>1, <2>5 DEF Sent
  <2>7. \A k, l : [by |-> k, line |-> l] \in unbilled[t] =>
                    Sent(k, l, t)'
    BY <1>1, <2>1, <2>3, <2>4 DEF Sent, t
  <2>8. LinesFollow(p)'
    <3>1. \A l \in attempt[n].lines : \/ [by |-> n, line |-> l] \in unbilled[t]
                                      \/ Sent(n, l, t)
      BY <1>1 DEF LinesInv, LinesFollow, n, t
    <3> QED BY <3>1, <1>1, <2>1, <2>6, <2>7 DEF LinesFollow, n, t
  <2>9. ASSUME NEW q \in Proc, q # p
        PROVE  LinesFollow(q)'
    <3>1. req'[q] = req[q]
      BY <2>1, <2>9
    <3>2. CASE ~At(q, "items") \/ Num(q) = None
      BY <3>1, <3>2, <1>1, <2>6 DEF LinesInv, LinesFollow
    <3>3. CASE At(q, "items") /\ Num(q) # None
      <4>1. /\ invoice[Num(q)] = None /\ Num(q) \in Attempt /\ Num(q) # n
        BY <3>3, <2>9, Typed
        DEF LinesInv, LinesFollow, IInv, OwnAttempt, RequestShape, Shape, n
      <4>3. ASSUME NEW l \in attempt[Num(q)].lines
            PROVE  \/ l \in req[q].todo
                   \/ /\ Cid(q) \in StripeId
                      /\ [by |-> Num(q), line |-> l] \in unbilled'[Cid(q)]
                   \/ Sent(Num(q), l, Cid(q))'
        <5>1. \/ l \in req[q].todo
              \/ /\ Cid(q) \in StripeId
                 /\ [by |-> Num(q), line |-> l] \in unbilled[Cid(q)]
              \/ Sent(Num(q), l, Cid(q))
          BY <3>3 DEF LinesInv, LinesFollow
        <5>2. CASE /\ Cid(q) \in StripeId
                   /\ [by |-> Num(q), line |-> l] \in unbilled[Cid(q)]
          <6>1. CASE Cid(q) = t
            BY <5>2, <6>1, <2>7, <2>1, <3>1 DEF t
          <6>2. CASE Cid(q) # t
            BY <5>2, <6>2, <4>1, <2>4
          <6> QED BY <6>1, <6>2
        <5> QED BY <5>1, <5>2, <2>6, <3>1
      <4> QED BY <4>1, <4>3, <3>1, <3>3, <1>1, <2>4 DEF LinesFollow
    <3> QED BY <3>2, <3>3
  <2>10. RunLinesInvoiced'
    BY <1>1, <2>5 DEF LinesInv, RunLinesInvoiced, IInv, RunHasInvoice, Billed
  <2> QED BY <2>8, <2>9, <2>10 DEF LinesInv
<1> QED BY <1>2, <1>3 DEF CreateInvoice

\* create_run records an attempt all of whose lines are invoiced.
LEMMA LinesRecordRun ==
  ASSUME IInv, LinesInv, NEW p \in Proc, RecordRun(p)
  PROVE  LinesInv'
<1> USE DEF At, Cust, Num, Cid, Invoiced
<1> DEFINE n == Num(p)
           c == attempt[n].cust
           m == attempt[n].month
<1>1. /\ req[p].step = "record" /\ n \in Attempt /\ n # None
      /\ attempt[n] \in Charge /\ c = Cust(p)
      /\ c \in Customer /\ m \in Month
  BY Typed DEF RecordRun, IInv, RequestShape, Shape, Charge
<1>2. /\ Return(p) /\ UNCHANGED <<unbilled, invoice, attempt>>
      /\ runs' = IF Billed(c, m) THEN runs ELSE [runs EXCEPT ![c][m] = n]
  BY DEF RecordRun
<1>3. \A l \in attempt[n].lines : Sent(n, l, invoice[n].to)
  BY <1>1 DEF LinesInv, LinesFollow, IInv, RequestShape, Shape
<1> HIDE DEF n, c, m
<1>4. \A d \in Customer, k \in Month :
           runs'[d][k] = runs[d][k] \/ (d = c /\ k = m /\ runs'[d][k] = n)
  BY <1>1, <1>2 DEF IInv, TypeOK
<1>5. req'[p] = Idle /\ \A q \in Proc \ {p} : req'[q] = req[q]
  BY <1>2, ReturnReq DEF IInv
<1>6. \A q \in Proc : LinesFollow(q)'
  BY <1>2, <1>5, IdleCall DEF LinesInv, LinesFollow, Sent
<1>7. RunLinesInvoiced'
  BY <1>2, <1>3, <1>4 DEF LinesInv, RunLinesInvoiced, Billed, Sent
<1> QED BY <1>6, <1>7 DEF LinesInv

\* Every line of a recorded run is on an invoice to the Stripe customer of the
\* run's own invoice, in spite of failing Stripe calls, lost answers, restarts
\* and settings edited while the charge runs.
THEOREM LinesBilled == Spec => []RunLinesInvoiced
<1>1. Init => LinesInv
  BY IdleCall, NoValueAssumption
  DEF Init, LinesInv, LinesFollow, RunLinesInvoiced, Billed, Num
<1>2. IInv /\ LinesInv /\ [Next]_vars => LinesInv'
  <2> SUFFICES ASSUME IInv, LinesInv, [Next]_vars PROVE LinesInv'
    OBVIOUS
  <2>1. ASSUME UNCHANGED <<runs, req, unbilled, invoice, attempt>>
        PROVE  LinesInv'
    BY <2>1 DEF LinesInv, LinesFollow, RunLinesInvoiced, Sent, Billed, At, Cust,
       Num, Cid, Invoiced
  <2>2. ASSUME NEW p \in Proc, NEW c \in Customer, StartEnsure(p, c)
        PROVE  LinesInv'
    <3> DEFINE r == [Idle EXCEPT !.step = "settings", !.cust = c]
    <3>1. r.num = None
      BY DEF Idle
    <3>2. req' = [req EXCEPT ![p] = r]
      BY <2>2 DEF StartEnsure
    <3> HIDE DEF r
    <3>3. LinesFollow(p)' /\ \A q \in Proc \ {p} : req'[q] = req[q]
      BY <3>1, <3>2 DEF IInv, TypeOK, LinesFollow, Num
    <3> QED BY <2>2, <3>3, LinesMove DEF StartEnsure
  <2>3. ASSUME NEW p \in Proc, Finalize(p)
        PROVE  LinesInv'
    <3>1. /\ req[p].step = "finalize" /\ req'[p].step = "record"
          /\ req'[p].cid = req[p].cid /\ req'[p].num = req[p].num
          /\ \A q \in Proc \ {p} : req'[q] = req[q]
          /\ UNCHANGED <<runs, unbilled, invoice, attempt>>
      BY <2>3, GotoReq DEF Finalize, IInv, At
    <3>2. LinesFollow(p)'
      BY <3>1 DEF LinesInv, LinesFollow, Sent, At, Num, Cid, Invoiced
    <3> QED BY <3>1, <3>2, LinesMove
  <2>4. ASSUME NEW p \in Proc, Step(p)
        PROVE  LinesInv'
    BY <2>3, <2>4, LinesCompute, LinesBefore, LinesAddItem, LinesCreateInvoice,
       LinesRecordRun DEF Step
  <2>5. ASSUME NEW p \in Proc, StripeFails(p)
        PROVE  LinesInv'
    BY <2>5, LinesEnd DEF StripeFails
  <2>6. CASE Restart
    BY <2>6, IdleCall DEF Restart, LinesInv, LinesFollow, RunLinesInvoiced, Billed,
       Num, Invoiced
  <2>7. CASE StartSweep \/ Configure \/ NextMonth \/ UNCHANGED vars
             \/ \E c \in Editor : UpdateSettings(c)
    BY <2>1, <2>7 DEF StartSweep, Configure, NextMonth, UpdateSettings, vars
  <2> QED BY <2>2, <2>4, <2>5, <2>6, <2>7, LinesStartCharge DEF Next
<1>3. LinesInv => RunLinesInvoiced
  BY DEF LinesInv
<1> QED BY <1>1, <1>2, <1>3, SpecIInv, PTL DEF Spec

-----------------------------------------------------------------------------
\* A settled month stays closed.  As long as a charge that has begun to send
\* items also creates its invoice (no item or invoice is refused and no
\* restart comes in between), what is pending at Stripe is of a charge in
\* flight.

PendingInFlight ==
  \A s \in StripeId : \A i \in unbilled[s] :
    \E p \in Proc : At(p, "items") /\ Num(p) = i.by /\ Cid(p) = s

\* The steps of one call leave the other calls alone.
LEMMA OtherStarts ==
  ASSUME IInv, NEW p \in Proc, NEW c \in Customer, NEW n \in Attempt,
         StartCharge(p, c, n)
  PROVE  \A q \in Proc \ {p} : req'[q] = req[q]
<1> DEFINE r == [Idle EXCEPT !.step = "compute", !.cust = c, !.num = n]
<1>1. req' = [req EXCEPT ![p] = r] \/ UNCHANGED req
  BY DEF StartCharge
<1> HIDE DEF r
<1> QED BY <1>1 DEF IInv, TypeOK

\* What a charge that gets past the guard starts, and one that does not.
LEMMA StartChargeParts ==
  ASSUME NEW p \in Proc, NEW c \in Customer, NEW n \in Attempt,
         StartCharge(p, c, n)
  PROVE  IF Billed(c, month) THEN UNCHANGED <<req, attempt>>
         ELSE /\ ~Started(n)
              /\ attempt' = [attempt EXCEPT ![n] =
                               [cust |-> c, month |-> month, lines |-> {}]]
BY DEF StartCharge

LEMMA OtherEnsures ==
  ASSUME IInv, NEW p \in Proc, NEW c \in Customer, StartEnsure(p, c)
  PROVE  \A q \in Proc \ {p} : req'[q] = req[q]
<1> DEFINE r == [Idle EXCEPT !.step = "settings", !.cust = c]
<1>1. req' = [req EXCEPT ![p] = r]
  BY DEF StartEnsure
<1> HIDE DEF r
<1> QED BY <1>1 DEF IInv, TypeOK

LEMMA OtherCalls ==
  ASSUME IInv, NEW p \in Proc, Step(p) \/ StripeFails(p)
  PROVE  \A q \in Proc \ {p} : req'[q] = req[q]
<1>1. CASE Compute(p) \/ ReadSettings(p) \/ AddItem(p)
  BY <1>1 DEF Compute, ReadSettings, AddItem, Goto, IInv, TypeOK
<1>2. CASE InsertSettings(p) \/ EnsureCustomer(p) \/ SaveCustomer(p)
  BY <1>2 DEF InsertSettings, EnsureCustomer, SaveCustomer, AfterEnsure, GiveUp,
     Return, Goto, IInv, TypeOK
<1>3. CASE CreateInvoice(p) \/ Finalize(p) \/ RecordRun(p) \/ StripeFails(p)
  BY <1>3 DEF CreateInvoice, Finalize, RecordRun, StripeFails, Return, Goto,
     IInv, TypeOK
<1> QED BY <1>1, <1>2, <1>3 DEF Step

\* Only AddItem and CreateInvoice change what is pending.
LEMMA PendingNext ==
  ASSUME Failures \cap {"item", "invoice", "crash"} = {},
         IInv, PendingInFlight, [Next]_vars
  PROVE  PendingInFlight'
<1> USE DEF At, Num, Cid
<1>1. CASE UNCHANGED <<req, unbilled>>
  BY <1>1 DEF PendingInFlight
<1>2. ASSUME NEW p \in Proc, ~At(p, "items"), UNCHANGED unbilled,
             \A q \in Proc \ {p} : req'[q] = req[q]
      PROVE  PendingInFlight'
  BY <1>2 DEF PendingInFlight
<1>3. ASSUME NEW p \in Proc, NEW c \in Customer, NEW n \in Attempt,
             StartCharge(p, c, n)
      PROVE  PendingInFlight'
  <2>1. At(p, "idle") /\ UNCHANGED unbilled
    BY <1>3 DEF StartCharge, Takes
  <2> QED BY <1>2, <1>3, <2>1, OtherStarts
<1>4. ASSUME NEW p \in Proc, NEW c \in Customer, StartEnsure(p, c)
       PROVE  PendingInFlight'
  <2>1. At(p, "idle") /\ UNCHANGED unbilled
    BY <1>4 DEF StartEnsure
  <2> QED BY <1>2, <1>4, <2>1, OtherEnsures
<1>5. ASSUME NEW p \in Proc,
             \/ Compute(p) \/ ReadSettings(p) \/ InsertSettings(p)
             \/ EnsureCustomer(p) \/ SaveCustomer(p) \/ Finalize(p)
             \/ RecordRun(p)
      PROVE  PendingInFlight'
  <2>1. ~At(p, "items") /\ UNCHANGED unbilled
    BY <1>5 DEF Compute, ReadSettings, InsertSettings, EnsureCustomer,
       SaveCustomer, Finalize, RecordRun
  <2> QED BY <1>2, <1>5, <2>1, OtherCalls DEF Step
<1>11. ASSUME NEW p \in Proc, StripeFails(p)
      PROVE  PendingInFlight'
  <2>1. /\ At(p, "items") => Cid(p) \notin StripeId
        /\ UNCHANGED unbilled
    BY <1>11, NoValueAssumption DEF StripeFails
  <2> QED BY <1>11, <2>1, OtherCalls DEF PendingInFlight
<1>6. ASSUME NEW p \in Proc, AddItem(p)
      PROVE  PendingInFlight'
  <2> DEFINE t == Cid(p)
  <2>1. /\ req[p].step = "items" /\ req[p] \in Call /\ t \in StripeId
    BY <1>6, Typed DEF AddItem, IInv, RequestShape, Shape
  <2>2. PICK l \in req[p].todo :
          /\ req' = [req EXCEPT ![p].todo = @ \ {l}]
          /\ unbilled' = [unbilled EXCEPT ![t] = @ \cup {[by |-> Num(p), line |-> l]}]
    BY <1>6 DEF AddItem
  <2>3. /\ req'[p].step = "items" /\ req'[p].num = req[p].num
        /\ req'[p].cid = req[p].cid
        /\ \A q \in Proc \ {p} : req'[q] = req[q]
    BY <2>1, <2>2 DEF IInv, TypeOK, Call
  <2> DEFINE new == [by |-> Num(p), line |-> l]
  <2>4. new.by = Num(p)
    OBVIOUS
  <2>5. /\ unbilled'[t] = unbilled[t] \cup {new}
        /\ \A u \in StripeId \ {t} : unbilled'[u] = unbilled[u]
    <3> HIDE DEF new, t
    <3>1. unbilled' = [unbilled EXCEPT ![t] = unbilled[t] \cup {new}]
      BY <2>2 DEF new
    <3> QED BY <3>1, <2>1 DEF IInv, TypeOK
  <2> HIDE DEF new
  <2>6. \A u \in StripeId : \A i \in unbilled'[u] :
          i \in unbilled[u] \/ (i = new /\ u = Cid(p))
    BY <2>5
  <2> QED BY <2>1, <2>3, <2>4, <2>6 DEF PendingInFlight
<1>7. ASSUME NEW p \in Proc, CreateInvoice(p)
      PROVE  PendingInFlight'
  <2>1. /\ req[p].step = "items" /\ Cid(p) \in StripeId
        /\ \A q \in Proc \ {p} : req'[q] = req[q]
    BY <1>7, Typed, OtherCalls DEF CreateInvoice, Step, IInv, RequestShape, Shape
  <2>2. /\ unbilled'[Cid(p)] = {}
        /\ \A u \in StripeId \ {Cid(p)} : unbilled'[u] = unbilled[u]
    BY <1>7, <2>1 DEF CreateInvoice, IInv, TypeOK
  <2> QED BY <2>1, <2>2 DEF PendingInFlight
<1>8. ASSUME NEW p \in Proc, Step(p)
      PROVE  PendingInFlight'
  BY <1>5, <1>6, <1>7, <1>8 DEF Step
<1>9. CASE StartSweep \/ Configure \/ NextMonth \/ UNCHANGED vars
           \/ \E c \in Editor : UpdateSettings(c)
  BY <1>1, <1>9 DEF StartSweep, Configure, NextMonth, UpdateSettings, vars
<1>10. CASE Restart
  BY <1>10 DEF Restart
<1> QED BY <1>3, <1>4, <1>8, <1>9, <1>10, <1>11 DEF Next

\* The attempt of a running call stays what it is, for the same customer and
\* month.
DebtKept(q) == Num(q)' # None => Num(q)' = Num(q) /\ Debt(Num(q))' = Debt(Num(q))

\* A call comes to an attempt only by starting it, for the current month.
LEMMA NoNewDebt ==
  ASSUME IInv, [Next]_vars, NEW q \in Proc,
         \A c \in Customer, n \in Attempt : StartCharge(q, c, n) => Billed(c, month)
  PROVE  DebtKept(q)
<1> USE DEF DebtKept, Num, Debt
<1>1. CASE UNCHANGED <<req, attempt>>
  BY <1>1
<1>2. ASSUME NEW p \in Proc, UNCHANGED attempt,
             req'[p].num \in {req[p].num, None},
             \A r \in Proc \ {p} : req'[r] = req[r]
      PROVE  DebtKept(q)
  BY <1>2
<1>3. ASSUME NEW p \in Proc, GiveUp(p)
      PROVE  DebtKept(q)
  <2>1. /\ req'[p] = Idle
        /\ \A r \in Proc \ {p} : req'[r] = req[r]
        /\ \A n \in Attempt : n # Num(p) => attempt'[n] = attempt[n]
    BY <1>3, ReturnReq, GiveUpAttempt DEF GiveUp, IInv
  <2>2. q # p /\ Num(q) # None => Num(q) \in Attempt /\ Num(q) # Num(p)
    BY Typed DEF IInv, OwnAttempt
  <2> QED BY <2>1, <2>2, IdleCall
<1>4. ASSUME NEW p \in Proc, NEW c \in Customer, NEW n \in Attempt,
             StartCharge(p, c, n)
      PROVE  DebtKept(q)
  <2>1. CASE Billed(c, month)
    <3>1. UNCHANGED <<req, attempt>>
      BY <1>4, <2>1, StartChargeParts
    <3> QED BY <1>1, <3>1
  <2>2. CASE ~Billed(c, month)
    <3>1. q # p
      BY <1>4, <2>2
    <3>2. /\ ~Started(n) /\ req'[q] = req[q]
          /\ \A k \in Attempt \ {n} : attempt'[k] = attempt[k]
      <4> DEFINE a == [cust |-> c, month |-> month, lines |-> {}]
      <4>1. ~Started(n) /\ attempt' = [attempt EXCEPT ![n] = a]
        BY <1>4, <2>2, StartChargeParts
      <4> HIDE DEF a
      <4> QED BY <1>4, <3>1, <4>1, OtherStarts DEF IInv, TypeOK
    <3>3. Num(q) # None => Num(q) \in Attempt \ {n}
      BY <3>2, Typed, IdleCall DEF IInv, RequestShape, Shape, At
    <3> QED BY <3>2, <3>3
  <2> QED BY <2>1, <2>2
<1>5. ASSUME NEW p \in Proc, NEW c \in Customer, StartEnsure(p, c)
      PROVE  DebtKept(q)
  <2> DEFINE r == [Idle EXCEPT !.step = "settings", !.cust = c]
  <2>1. r.num = None
    BY DEF Idle
  <2>2. req' = [req EXCEPT ![p] = r] /\ UNCHANGED attempt
    BY <1>5 DEF StartEnsure
  <2> HIDE DEF r
  <2>3. req'[p].num = None
    BY <2>1, <2>2 DEF IInv, TypeOK
  <2> QED BY <1>2, <1>5, <2>2, <2>3, OtherEnsures
<1>6. ASSUME NEW p \in Proc, Compute(p)
      PROVE  DebtKept(q)
  <2>1. PICK ls \in SUBSET Line :
          /\ attempt' = [attempt EXCEPT ![Num(p)].lines = ls]
          /\ req' = [req EXCEPT ![p].step = "settings", ![p].todo = ls]
    BY <1>6 DEF Compute
  <2>2. Num(p) \in Attempt /\ attempt[Num(p)] \in Charge
    BY <1>6, Typed DEF Compute, IInv, RequestShape, Shape, At
  <2>3. \A k \in Attempt : Debt(k)' = Debt(k)
    BY <2>1, <2>2 DEF Charge, IInv, TypeOK
  <2>4. req'[q].num = req[q].num /\ Num(q) \in Attempt \cup {None}
    BY <2>1, Typed DEF IInv, TypeOK, Call
  <2> QED BY <2>3, <2>4
<1>7. ASSUME NEW p \in Proc, NEW s \in {"insert", "ensure", "items", "finalize", "record"},
             Goto(p, s), UNCHANGED attempt
      PROVE  DebtKept(q)
  BY <1>2, <1>7, GotoReq DEF IInv
<1>8. ASSUME NEW p \in Proc, Return(p), UNCHANGED attempt
      PROVE  DebtKept(q)
  BY <1>2, <1>8, ReturnReq, IdleCall DEF IInv
<1>9. ASSUME NEW p \in Proc, AfterEnsure(p)
      PROVE  DebtKept(q)
  BY <1>3, <1>7, <1>9 DEF AfterEnsure
<1>10. ASSUME NEW p \in Proc, ReadSettings(p) \/ InsertSettings(p) \/ AddItem(p)
       PROVE  DebtKept(q)
  <2>1. CASE ReadSettings(p) /\ ~Goto(p, "insert")
    <3>1. /\ req' = [req EXCEPT ![p].step = "ensure", ![p].cid = settings[Cust(p)]]
          /\ UNCHANGED attempt
      BY <2>1 DEF ReadSettings
    <3>2. req'[p].num = req[p].num
      BY <3>1, Typed DEF IInv, TypeOK, Call
    <3> QED BY <1>2, <2>1, <3>1, <3>2, OtherCalls DEF Step
  <2>2. CASE ReadSettings(p) /\ Goto(p, "insert")
    BY <1>7, <2>2 DEF ReadSettings
  <2>3. CASE AddItem(p)
    <3>1. PICK l \in req[p].todo : req' = [req EXCEPT ![p].todo = @ \ {l}]
      BY <2>3 DEF AddItem
    <3>2. req'[p].num = req[p].num /\ UNCHANGED attempt
      BY <2>3, <3>1, Typed DEF AddItem, IInv, TypeOK, Call
    <3> QED BY <1>2, <2>3, <3>2, OtherCalls DEF Step
  <2>4. CASE InsertSettings(p)
    BY <1>3, <1>7, <2>4 DEF InsertSettings
  <2> QED BY <1>10, <2>1, <2>2, <2>3, <2>4
<1>11. ASSUME NEW p \in Proc, EnsureCustomer(p) \/ SaveCustomer(p)
       PROVE  DebtKept(q)
  <2>1. ASSUME NEW t \in StripeId, UNCHANGED attempt, EnsureCustomer(p),
               req' = [req EXCEPT ![p].step = "save", ![p].cid = t]
        PROVE  DebtKept(q)
    <3>1. req'[p].num = req[p].num
      BY <2>1, Typed DEF IInv, TypeOK, Call
    <3> QED BY <1>2, <2>1, <3>1, OtherCalls DEF Step
  <2> QED BY <1>3, <1>9, <1>11, <2>1 DEF EnsureCustomer, SaveCustomer
<1>12. ASSUME NEW p \in Proc, CreateInvoice(p) \/ Finalize(p) \/ RecordRun(p)
                                \/ StripeFails(p)
       PROVE  DebtKept(q)
  <2>1. /\ Return(p) \/ Goto(p, "finalize") \/ Goto(p, "record")
        /\ UNCHANGED attempt
    BY <1>12 DEF CreateInvoice, Finalize, RecordRun, StripeFails
  <2> QED BY <1>7, <1>8, <2>1
<1>13. ASSUME NEW p \in Proc, Step(p)
       PROVE  DebtKept(q)
  BY <1>6, <1>10, <1>11, <1>12, <1>13 DEF Step
<1>14. CASE Restart
  BY <1>14, IdleCall DEF Restart
<1>15. CASE StartSweep \/ Configure \/ NextMonth \/ UNCHANGED vars
           \/ \E c \in Editor : UpdateSettings(c)
  BY <1>1, <1>15 DEF StartSweep, Configure, NextMonth, UpdateSettings, vars
<1> QED BY <1>4, <1>5, <1>12, <1>13, <1>14, <1>15 DEF Next

\* What a step newly charges was pending before it.
LEMMA NewlyCharged ==
  ASSUME IInv, [Next]_vars, NEW i \in Charged' \ Charged
  PROVE  /\ \E s \in StripeId : i \in unbilled[s]
         /\ UNCHANGED attempt
<1>1. PICK p \in Proc : CreateInvoice(p)
  <2>1. invoice' # invoice
    BY DEF Charged, Invoiced
  <2>2. ASSUME NEW p \in Proc, Step(p)
        PROVE  CreateInvoice(p) \/ UNCHANGED invoice
    BY <2>2 DEF Step, Compute, ReadSettings, InsertSettings, EnsureCustomer,
       SaveCustomer, AddItem, Finalize, RecordRun
  <2>3. ASSUME NEW p \in Proc, NEW c \in Customer, NEW n \in Attempt,
               StartCharge(p, c, n)
        PROVE  UNCHANGED invoice
    BY <2>3 DEF StartCharge
  <2>4. ASSUME NEW p \in Proc, StripeFails(p)
        PROVE  UNCHANGED invoice
    BY <2>4 DEF StripeFails
  <2>5. ASSUME NEW c \in Customer,
               UpdateSettings(c) \/ \E p \in Proc : StartEnsure(p, c)
        PROVE  UNCHANGED invoice
    BY <2>5 DEF UpdateSettings, StartEnsure
  <2>6. ASSUME StartSweep \/ Restart \/ Configure \/ NextMonth \/ UNCHANGED vars
        PROVE  UNCHANGED invoice
    BY <2>6 DEF StartSweep, Restart, Configure, NextMonth, vars
  <2> QED BY <2>1, <2>2, <2>3, <2>4, <2>5, <2>6, EditorAssumption DEF Next
<1>2. PICK n \in Invoiced' : i \in invoice'[n].items
  BY DEF Charged
<1>3. n \in Attempt /\ ~(n \in Invoiced /\ i \in invoice[n].items)
  BY <1>2 DEF Charged, Invoiced
<1>4. invoice'[n] # invoice[n]
  BY <1>2, <1>3 DEF Invoiced
<1>5. invoice'[n].items = unbilled[Cid(p)]
  BY <1>1, <1>3, <1>4 DEF CreateInvoice, IInv, TypeOK, Cid
<1>6. Cid(p) \in StripeId
  BY <1>1, Typed DEF CreateInvoice, IInv, RequestShape, Shape, At, Cid
<1> QED BY <1>1, <1>2, <1>5, <1>6 DEF CreateInvoice

\* The promise of charge_subscription that a billed month is not charged
\* again: once the charges that were on their way with it are over, nobody
\* starts one for that month, and nothing pending is of that month.
THEOREM MonthsStayClosed ==
  ASSUME Failures \cap {"item", "invoice", "crash"} = {}
  PROVE  Spec => SettledMonthIsClosed
<1>1. Init => PendingInFlight
  BY DEF Init, PendingInFlight
<1>2. IInv /\ PendingInFlight /\ [Next]_vars => PendingInFlight'
  BY PendingNext
<1>3. ASSUME IInv, PendingInFlight, [Next]_vars,
             NEW c \in Customer, NEW m \in Month, Billed(c, m), ~InFlight(c, m)
      PROVE  /\ ~InFlight(c, m)'
             /\ \A i \in Charged' \ Charged : Debt(i.by)' # <<c, m>>
  <2>1. ASSUME NEW q \in Proc, Num(q)' # None, Debt(Num(q))' = <<c, m>>
        PROVE  FALSE
    <3>1. CASE DebtKept(q)
      BY <1>3, <2>1, <3>1 DEF DebtKept, InFlight
    <3>2. CASE ~DebtKept(q)
      <4>1. PICK d \in Customer, n \in Attempt :
              StartCharge(q, d, n) /\ ~Billed(d, month)
        BY <1>3, <3>2, NoNewDebt
      <4> DEFINE r == [Idle EXCEPT !.step = "compute", !.cust = d, !.num = n]
                 a == [cust |-> d, month |-> month, lines |-> {}]
      <4>2. r.num = n /\ a.cust = d /\ a.month = month
        BY DEF Idle
      <4>3. req' = [req EXCEPT ![q] = r] /\ attempt' = [attempt EXCEPT ![n] = a]
        BY <4>1 DEF StartCharge
      <4> HIDE DEF r, a
      <4>4. Num(q)' = n /\ attempt'[n] = a
        BY <1>3, <4>2, <4>3 DEF IInv, TypeOK, Num
      <4>5. d = c /\ month = m
        BY <2>1, <4>2, <4>4 DEF Debt
      <4> QED BY <1>3, <4>1, <4>5
    <3> QED BY <3>1, <3>2
  <2>2. ASSUME NEW i \in Charged' \ Charged
        PROVE  Debt(i.by)' # <<c, m>>
    <3>1. PICK s \in StripeId : i \in unbilled[s]
      BY <1>3, NewlyCharged
    <3>2. PICK p \in Proc : Num(p) = i.by
      BY <1>3, <3>1 DEF PendingInFlight
    <3>3. Num(p) # None
      BY <1>3, <3>1, <3>2, Typed, NoValueAssumption DEF IInv
    <3>4. Debt(i.by)' = Debt(i.by)
      BY <1>3, NewlyCharged DEF Debt
    <3> QED BY <1>3, <3>2, <3>3, <3>4 DEF InFlight
  <2> QED BY <2>1, <2>2 DEF InFlight
<1>4. IInv /\ PendingInFlight /\ [Next]_vars =>
        [\A c \in Customer, m \in Month :
           Billed(c, m) /\ ~InFlight(c, m) =>
             /\ ~InFlight(c, m)'
             /\ \A i \in Charged' \ Charged : Debt(i.by)' # <<c, m>>]_vars
  BY <1>3
<1> QED BY <1>1, <1>2, <1>4, SpecIInv, PTL DEF Spec, SettledMonthIsClosed

-----------------------------------------------------------------------------
\* One Stripe customer per subscriber.  The lock is the uncommitted row: whoever
\* creates a Stripe customer for a subscriber holds it, unless the subscriber
\* edits, after which there is a row without an id.  A restart or a lost answer
\* loses a Stripe customer, and with it the row that would have named it.

\* Call p is in the section that _ensure_stripe_customer spends with the row.
InEnsure(p) == At(p, "ensure") \/ At(p, "save")
Creates(p)  == At(p, "save") \/ (At(p, "ensure") /\ Cid(p) = NoId)

HoldsRow ==
  \A p \in Proc : Creates(p) =>
    \/ inserting[Cust(p)] = p
    \/ Cust(p) \in Editor /\ settings[Cust(p)] # NoRow

RowIsHeld ==
  \A c \in Customer : inserting[c] # None =>
    /\ settings[c] = NoRow
    /\ InEnsure(inserting[c]) /\ Cust(inserting[c]) = c

RowHasId == \A c \in Customer \ Editor : settings[c] # NoId

OneInv == HoldsRow /\ RowIsHeld /\ RowHasId

\* A call outside the section takes a step that does not enter it without a
\* known Stripe customer, but for what an edit has left.
LEMMA OneFrame ==
  ASSUME IInv, OneInv, NEW p \in Proc,
         ~InEnsure(p),
         req'[p].step # "save",
         req'[p].step = "ensure" =>
           \/ req'[p].cid # NoId
           \/ req'[p].cust \in Editor /\ settings[req'[p].cust] # NoRow,
         \A q \in Proc \ {p} : req'[q] = req[q],
         \A c \in Customer : inserting'[c] = inserting[c],
         UNCHANGED settings
  PROVE  OneInv'
<1> USE DEF At, Cust, Cid, InEnsure, Creates
<1>1. \A q \in Proc : Creates(q) => Cust(q) \in Customer
  BY DEF IInv, RequestShape, Shape
<1>2. HoldsRow'
  BY <1>1 DEF OneInv, HoldsRow
<1>3. \A c \in Customer : inserting[c] # None => inserting[c] \in Proc \ {p}
  BY DEF OneInv, RowIsHeld, IInv, TypeOK
<1>4. RowIsHeld'
  BY <1>3 DEF OneInv, RowIsHeld
<1>5. RowHasId'
  BY DEF OneInv, RowHasId
<1> QED BY <1>2, <1>4, <1>5 DEF OneInv

\* A call outside the section returns.
LEMMA OneReturn ==
  ASSUME IInv, OneInv, NEW p \in Proc, ~InEnsure(p), Return(p),
         UNCHANGED settings
  PROVE  OneInv'
<1>1. \A c \in Customer : inserting'[c] = inserting[c]
  BY NoValueAssumption DEF Return, Unlock, OneInv, RowIsHeld
<1> QED BY <1>1, ReturnReq, IdleCall, OneFrame DEF IInv

\* A call leaves the section and gives the row back; if it was saving, the
\* row names the Stripe customer it created.
LEMMA OneLeave ==
  ASSUME IInv, OneInv, NEW p \in Proc, InEnsure(p), Unlock(p),
         req'[p].step \notin {"ensure", "save"},
         \A q \in Proc \ {p} : req'[q] = req[q],
         \/ At(p, "ensure") /\ UNCHANGED settings
         \/ At(p, "save") /\ settings' = [settings EXCEPT ![Cust(p)] = req[p].cid]
  PROVE  OneInv'
<1> USE DEF At, Cust, Cid, InEnsure, Creates
<1>1. /\ \A q \in Proc : InEnsure(q) => Cust(q) \in Customer
      /\ At(p, "save") => req[p].cid \in StripeId
  BY Typed DEF IInv, RequestShape, Shape
<1>2. \A c \in Customer :
        inserting'[c] = IF inserting[c] = p THEN None ELSE inserting[c]
  BY DEF Unlock
<1>3. \A c \in Customer :
        /\ c # Cust(p) \/ At(p, "ensure") => settings'[c] = settings[c]
        /\ settings[c] # NoRow => settings'[c] # NoRow
  BY <1>1, NoValueAssumption DEF IInv, TypeOK
<1>4. HoldsRow'
  BY <1>1, <1>2, <1>3 DEF OneInv, HoldsRow
<1>5. At(p, "save") => inserting'[Cust(p)] = None
  BY <1>1, <1>2 DEF OneInv, HoldsRow, RowIsHeld
<1>6. RowIsHeld'
  <2> SUFFICES ASSUME NEW c \in Customer, inserting'[c] # None
               PROVE  /\ settings'[c] = NoRow
                      /\ InEnsure(inserting[c])' /\ Cust(inserting[c])' = c
    BY DEF RowIsHeld
  <2>1. inserting'[c] = inserting[c] /\ inserting[c] \in Proc \ {p}
    BY <1>2 DEF IInv, TypeOK
  <2>2. c # Cust(p) \/ At(p, "ensure")
    BY <1>5
  <2> QED BY <1>3, <2>1, <2>2 DEF OneInv, RowIsHeld
<1>7. RowHasId'
  BY <1>1, <1>3, NoValueAssumption DEF OneInv, RowHasId, IInv, TypeOK
<1> QED BY <1>4, <1>6, <1>7 DEF OneInv

\* AfterEnsure leaves the section.
LEMMA OneAfterEnsure ==
  ASSUME IInv, NEW p \in Proc, AfterEnsure(p)
  PROVE  /\ Unlock(p)
         /\ req'[p].step \notin {"ensure", "save"}
         /\ \A q \in Proc \ {p} : req'[q] = req[q]
<1>1. CASE req[p].todo = {}
  BY <1>1, ReturnReq, IdleCall DEF AfterEnsure, GiveUp, Return, IInv
<1>2. CASE req[p].todo # {}
  BY <1>2, GotoReq DEF AfterEnsure, IInv
<1> QED BY <1>1, <1>2

\* ensure_customer without an id is called with the row held.
LEMMA OneEnsureCustomer ==
  ASSUME IInv, OneInv, NEW p \in Proc, EnsureCustomer(p)
  PROVE  OneInv'
<1> USE DEF At, Cust, Cid, InEnsure, Creates
<1>1. req[p].step = "ensure" /\ UNCHANGED settings /\ Cust(p) \in Customer
  BY DEF EnsureCustomer, IInv, RequestShape, Shape
<1>2. CASE GiveUp(p)
  BY <1>1, <1>2, OneLeave, ReturnReq, IdleCall DEF GiveUp, Return, IInv
<1>3. CASE AfterEnsure(p)
  BY <1>1, <1>3, OneLeave, OneAfterEnsure
<1>4. ASSUME NEW t \in StripeId, req[p].cid = NoId,
             req' = [req EXCEPT ![p].step = "save", ![p].cid = t],
             UNCHANGED inserting
      PROVE  OneInv'
  <2>1. /\ req'[p].step = "save" /\ req'[p].cust = req[p].cust
        /\ req'[p].cid = t
        /\ \A q \in Proc \ {p} : req'[q] = req[q]
    BY <1>4, Typed DEF IInv, TypeOK, Call
  <2>3. HoldsRow' /\ RowIsHeld' /\ RowHasId'
    BY <1>1, <1>4, <2>1 DEF OneInv, HoldsRow, RowIsHeld, RowHasId, IInv, TypeOK
  <2> QED BY <2>3 DEF OneInv
<1> QED BY <1>2, <1>3, <1>4 DEF EnsureCustomer

\* The row is inserted when there is none, and is then the caller's.
LEMMA OneInsertSettings ==
  ASSUME IInv, OneInv, NEW p \in Proc, InsertSettings(p)
  PROVE  OneInv'
<1> USE DEF At, Cust, Cid, InEnsure, Creates
<1>1. /\ req[p].step = "insert" /\ Cust(p) \in Customer
      /\ inserting[Cust(p)] = None /\ UNCHANGED settings
  BY DEF InsertSettings, IInv, RequestShape, Shape
<1>2. CASE GiveUp(p)
  BY <1>1, <1>2, OneReturn DEF GiveUp
<1>3. CASE /\ settings[Cust(p)] = NoRow /\ Goto(p, "ensure")
           /\ inserting' = [inserting EXCEPT ![Cust(p)] = p]
  <2>1. /\ req'[p].step = "ensure" /\ req'[p].cust = req[p].cust
        /\ \A q \in Proc \ {p} : req'[q] = req[q]
    BY <1>3, GotoReq DEF IInv
  <2>2. /\ inserting'[Cust(p)] = p
        /\ \A c \in Customer \ {Cust(p)} : inserting'[c] = inserting[c]
    BY <1>1, <1>3 DEF IInv, TypeOK
  <2>3. \A q \in Proc : Creates(q) =>
          Cust(q) \in Customer /\ Cust(q) # Cust(p)
    BY <1>1, <1>3, NoValueAssumption
    DEF IInv, RequestShape, Shape, OneInv, HoldsRow, Proc
  <2>4. HoldsRow'
    BY <1>1, <2>1, <2>2, <2>3 DEF OneInv, HoldsRow
  <2>5. \A c \in Customer : inserting[c] # None => inserting[c] \in Proc \ {p}
    BY <1>1 DEF OneInv, RowIsHeld, IInv, TypeOK
  <2>6. RowIsHeld'
    BY <1>1, <1>3, <2>1, <2>2, <2>5 DEF OneInv, RowIsHeld
  <2>7. RowHasId'
    BY <1>1 DEF OneInv, RowHasId
  <2> QED BY <2>4, <2>6, <2>7 DEF OneInv
<1> QED BY <1>2, <1>3 DEF InsertSettings

\* Every step keeps the lock.
LEMMA OneNext ==
  ASSUME IInv, OneInv, [Next]_vars
  PROVE  OneInv'
<1>1. CASE UNCHANGED <<settings, inserting, req>>
  BY <1>1 DEF OneInv, HoldsRow, RowIsHeld, RowHasId, Creates, InEnsure, At,
     Cust, Cid
<1>2. ASSUME NEW p \in Proc, NEW c \in Customer, NEW n \in Attempt,
             StartCharge(p, c, n)
      PROVE  OneInv'
  <2> DEFINE r == [Idle EXCEPT !.step = "compute", !.cust = c, !.num = n]
  <2>1. CASE Billed(c, month)
    BY <1>1, <1>2, <2>1 DEF StartCharge
  <2>2. CASE ~Billed(c, month)
    <3>1. r.step = "compute"
      BY DEF Idle
    <3>2. req' = [req EXCEPT ![p] = r] /\ At(p, "idle")
      BY <1>2, <2>2 DEF StartCharge, Takes
    <3> HIDE DEF r
    <3>3. /\ req'[p].step = "compute" /\ ~InEnsure(p)
          /\ \A q \in Proc \ {p} : req'[q] = req[q]
      BY <3>1, <3>2 DEF IInv, TypeOK, InEnsure, At
    <3> QED BY <1>2, <3>3, OneFrame DEF StartCharge
  <2> QED BY <2>1, <2>2
<1>3. ASSUME NEW p \in Proc, NEW c \in Customer, StartEnsure(p, c)
      PROVE  OneInv'
  <2> DEFINE r == [Idle EXCEPT !.step = "settings", !.cust = c]
  <2>1. r.step = "settings"
    BY DEF Idle
  <2>2. req' = [req EXCEPT ![p] = r] /\ At(p, "idle")
    BY <1>3 DEF StartEnsure
  <2> HIDE DEF r
  <2>3. /\ req'[p].step = "settings" /\ ~InEnsure(p)
        /\ \A q \in Proc \ {p} : req'[q] = req[q]
    BY <2>1, <2>2 DEF IInv, TypeOK, InEnsure, At
  <2> QED BY <1>3, <2>3, OneFrame DEF StartEnsure
<1>4. ASSUME NEW p \in Proc, Compute(p)
      PROVE  OneInv'
  <2>1. /\ req'[p].step = "settings" /\ ~InEnsure(p)
        /\ \A q \in Proc \ {p} : req'[q] = req[q]
    BY <1>4, Typed DEF Compute, IInv, TypeOK, Call, InEnsure, At
  <2> QED BY <1>4, <2>1, OneFrame DEF Compute
<1>5. ASSUME NEW p \in Proc, ReadSettings(p)
      PROVE  OneInv'
  <2>1. Cust(p) \in Customer /\ ~InEnsure(p)
    BY <1>5 DEF ReadSettings, IInv, RequestShape, Shape, InEnsure, At
  <2>2. settings[Cust(p)] # NoId \/ Cust(p) \in Editor
    BY <2>1 DEF OneInv, RowHasId
  <2>3. CASE settings[Cust(p)] = NoRow
    <3>1. Goto(p, "insert")
      BY <1>5, <2>3 DEF ReadSettings
    <3>2. /\ req'[p].step = "insert"
          /\ \A q \in Proc \ {p} : req'[q] = req[q]
      BY <3>1, GotoReq DEF IInv
    <3> QED BY <1>5, <2>1, <3>2, OneFrame DEF ReadSettings
  <2>4. CASE settings[Cust(p)] # NoRow
    <3>1. req' = [req EXCEPT ![p].step = "ensure", ![p].cid = settings[Cust(p)]]
      BY <1>5, <2>4 DEF ReadSettings
    <3>2. /\ req'[p].step = "ensure" /\ req'[p].cid = settings[Cust(p)]
          /\ req'[p].cust = Cust(p)
          /\ \A q \in Proc \ {p} : req'[q] = req[q]
      BY <3>1, Typed DEF IInv, TypeOK, Call, Cust
    <3> QED BY <1>5, <2>1, <2>2, <2>4, <3>2, OneFrame DEF ReadSettings
  <2> QED BY <2>3, <2>4
<1>6. ASSUME NEW p \in Proc, SaveCustomer(p)
      PROVE  OneInv'
  <2>1. /\ At(p, "save") /\ InEnsure(p) /\ AfterEnsure(p)
        /\ settings' = [settings EXCEPT ![Cust(p)] = req[p].cid]
    BY <1>6 DEF SaveCustomer, InEnsure
  <2> QED BY <2>1, OneAfterEnsure, OneLeave
<1>7. ASSUME NEW p \in Proc, AddItem(p)
      PROVE  OneInv'
  <2>1. /\ req'[p].step = "items" /\ ~InEnsure(p)
        /\ \A q \in Proc \ {p} : req'[q] = req[q]
    BY <1>7, Typed DEF AddItem, IInv, TypeOK, Call, InEnsure, At
  <2> QED BY <1>7, <2>1, OneFrame DEF AddItem
<1>8. ASSUME NEW p \in Proc,
             ~InEnsure(p), UNCHANGED settings,
             \/ Return(p)
             \/ Goto(p, "finalize") /\ UNCHANGED inserting
             \/ Goto(p, "record") /\ UNCHANGED inserting
      PROVE  OneInv'
  BY <1>8, OneReturn, OneFrame, GotoReq DEF IInv
<1>9. ASSUME NEW p \in Proc, CreateInvoice(p) \/ Finalize(p) \/ RecordRun(p)
                               \/ StripeFails(p)
      PROVE  OneInv'
  <2>1. ~InEnsure(p)
    BY <1>9 DEF CreateInvoice, Finalize, RecordRun, StripeFails, InEnsure, At
  <2> QED BY <1>8, <1>9, <2>1 DEF CreateInvoice, Finalize, RecordRun, StripeFails
<1>10. ASSUME NEW p \in Proc, Step(p)
       PROVE  OneInv'
  BY <1>4, <1>5, <1>6, <1>7, <1>9, <1>10, OneInsertSettings, OneEnsureCustomer
  DEF Step
<1>11. CASE StartSweep \/ Configure \/ NextMonth \/ UNCHANGED vars
  BY <1>1, <1>11 DEF StartSweep, Configure, NextMonth, vars
<1>12. ASSUME NEW c \in Editor, UpdateSettings(c)
       PROVE  OneInv'
  <2>1. /\ c \in Customer /\ inserting[c] = None /\ settings'[c] # NoRow
        /\ \A d \in Customer \ {c} : settings'[d] = settings[d]
        /\ UNCHANGED <<inserting, req>>
    BY <1>12, EditorAssumption, NoValueAssumption DEF UpdateSettings, IInv, TypeOK
  <2>2. \A d \in Customer : settings[d] # NoRow => settings'[d] # NoRow
    BY <2>1
  <2>3. \A p \in Proc : Creates(p) => Cust(p) \in Customer
    BY DEF IInv, RequestShape, Shape, Creates, At
  <2> QED BY <1>12, <2>1, <2>2, <2>3
          DEF OneInv, HoldsRow, RowIsHeld, RowHasId, Creates, InEnsure, At, Cust, Cid
<1>13. CASE Restart
  <2>1. \A p \in Proc : ~Creates(p)'
    BY <1>13, IdleCall DEF Restart, Creates, At
  <2> QED BY <1>13, <2>1
          DEF Restart, OneInv, HoldsRow, RowIsHeld, RowHasId
<1> QED BY <1>2, <1>3, <1>9, <1>10, <1>11, <1>12, <1>13 DEF Next

LEMMA OneInvariant == Spec => []OneInv
<1>1. Init => OneInv
  BY IdleCall, NoValueAssumption
  DEF Init, OneInv, HoldsRow, RowIsHeld, RowHasId, Creates, At
<1>2. IInv /\ OneInv /\ [Next]_vars => OneInv'
  BY OneNext
<1> QED BY <1>1, <1>2, SpecIInv, PTL DEF Spec

\* The calls of a subscriber who does not edit use the Stripe customer of the
\* committed row, and so do their charges.
Uses(p) ==
  \/ req[p].step \in {"items", "finalize", "record"}
  \/ At(p, "ensure") /\ Cid(p) # NoId

UsesSettings ==
  \A p \in Proc : Uses(p) /\ Cust(p) \notin Editor => settings[Cust(p)] = Cid(p)

PendingOn ==
  \A s \in StripeId : \A i \in unbilled[s] :
    attempt[i.by].cust \notin Editor => settings[attempt[i.by].cust] = s

InvoicedOn ==
  \A n \in Invoiced : \A i \in invoice[n].items :
    attempt[i.by].cust \notin Editor => settings[attempt[i.by].cust] = invoice[n].to

ChargeInv == UsesSettings /\ PendingOn /\ InvoicedOn

\* Which steps change the rows, what Stripe holds or the attempts.
LEMMA StepsThatWrite ==
  ASSUME [Next]_vars
  PROVE  \/ \E p \in Proc : Step(p)
         \/ \E c \in Editor : UpdateSettings(c)
         \/ \E p \in Proc, c \in Customer, n \in Attempt : StartCharge(p, c, n)
         \/ UNCHANGED <<settings, unbilled, invoice, attempt>>
<1>1. ASSUME NEW p \in Proc, StripeFails(p)
      PROVE  UNCHANGED <<settings, unbilled, invoice, attempt>>
  BY <1>1 DEF StripeFails
<1>2. ASSUME NEW p \in Proc, NEW c \in Customer, StartEnsure(p, c)
      PROVE  UNCHANGED <<settings, unbilled, invoice, attempt>>
  BY <1>2 DEF StartEnsure
<1>3. ASSUME StartSweep \/ Restart \/ Configure \/ NextMonth \/ UNCHANGED vars
      PROVE  UNCHANGED <<settings, unbilled, invoice, attempt>>
  BY <1>3 DEF StartSweep, Restart, Configure, NextMonth, vars
<1> QED BY <1>1, <1>2, <1>3 DEF Next

\* The Stripe id of such a subscriber is committed once.
LEMMA SettledRow ==
  ASSUME IInv, OneInv, [Next]_vars, NEW c \in Customer \ Editor, settings[c] # NoRow
  PROVE  settings'[c] = settings[c]
<1>1. ASSUME NEW p \in Proc, SaveCustomer(p)
      PROVE  settings'[c] = settings[c]
  <2>1. At(p, "save") /\ Cust(p) \in Customer
    BY <1>1 DEF SaveCustomer, IInv, RequestShape, Shape, At
  <2>2. Cust(p) # c
    BY <2>1, NoValueAssumption DEF OneInv, HoldsRow, RowIsHeld, Creates, Proc
  <2> QED BY <1>1, <2>1, <2>2 DEF SaveCustomer, IInv, TypeOK
<1>2. ASSUME NEW p \in Proc, Step(p)
      PROVE  SaveCustomer(p) \/ UNCHANGED settings
  BY <1>2 DEF Step, Compute, ReadSettings, InsertSettings, EnsureCustomer,
     AddItem, CreateInvoice, Finalize, RecordRun
<1>3. ASSUME NEW d \in Editor, UpdateSettings(d)
      PROVE  settings'[c] = settings[c]
  BY <1>3 DEF UpdateSettings, IInv, TypeOK
<1>4. ASSUME NEW p \in Proc, NEW d \in Customer, NEW n \in Attempt, StartCharge(p, d, n)
      PROVE  settings'[c] = settings[c]
  BY <1>4 DEF StartCharge
<1> QED BY <1>1, <1>2, <1>3, <1>4, StepsThatWrite

\* A call comes to use a Stripe customer by reading or by saving the row.
LEMMA UsesKept ==
  ASSUME IInv, [Next]_vars, NEW q \in Proc, Uses(q)'
  PROVE  \/ Uses(q) /\ Cust(q)' = Cust(q) /\ Cid(q)' = Cid(q)
         \/ ReadSettings(q)
         \/ SaveCustomer(q)
<1> USE DEF At, Cust, Cid
<1> DEFINE Kept == Uses(q) /\ Cust(q)' = Cust(q) /\ Cid(q)' = Cid(q)
<1>1. CASE req'[q] = req[q]
  BY <1>1 DEF Uses
<1>2. ASSUME req'[q] = Idle
      PROVE  FALSE
  BY <1>2, IdleCall DEF Uses
<1>3. CASE Step(q)
  <2>1. CASE Compute(q)
    <3>1. req'[q].step = "settings"
      BY <2>1, Typed DEF Compute, IInv, TypeOK, Call
    <3> QED BY <3>1 DEF Uses
  <2>2. CASE InsertSettings(q)
    <3>1. Cid(q) = NoId /\ Goto(q, "ensure")
      BY <2>2, <1>2, ReturnReq DEF InsertSettings, GiveUp, IInv, RequestShape, Shape
    <3> QED BY <3>1, GotoReq DEF Uses, IInv
  <2>3. CASE EnsureCustomer(q)
    <3>1. CASE req'[q].step = "save"
      BY <3>1 DEF Uses
    <3>2. CASE GiveUp(q)
      BY <3>2, <1>2, ReturnReq DEF GiveUp, IInv
    <3>3. CASE Goto(q, "items") /\ req[q].cid # NoId
      BY <2>3, <3>3, GotoReq DEF EnsureCustomer, Uses, IInv
    <3>4. ASSUME NEW t \in StripeId,
                 req' = [req EXCEPT ![q].step = "save", ![q].cid = t]
          PROVE  req'[q].step = "save"
      BY <3>4, Typed DEF IInv, TypeOK, Call
    <3> QED BY <2>3, <3>1, <3>2, <3>3, <3>4 DEF EnsureCustomer, AfterEnsure
  <2>4. CASE AddItem(q)
    BY <2>4, Typed DEF AddItem, IInv, TypeOK, Call, Uses
  <2>5. CASE CreateInvoice(q) \/ Finalize(q) \/ RecordRun(q)
    <3>1. CASE Return(q)
      BY <3>1, <1>2, ReturnReq DEF IInv
    <3>2. CASE Goto(q, "finalize") \/ Goto(q, "record")
      BY <2>5, <3>2, GotoReq DEF CreateInvoice, Finalize, RecordRun, Uses, IInv
    <3> QED BY <2>5, <3>1, <3>2 DEF CreateInvoice, Finalize, RecordRun
  <2> QED BY <1>3, <2>1, <2>2, <2>3, <2>4, <2>5 DEF Step
<1>4. CASE StripeFails(q)
  BY <1>4, <1>2, ReturnReq DEF StripeFails, IInv
<1>5. ASSUME NEW p \in Proc, p # q, Step(p) \/ StripeFails(p)
      PROVE  req'[q] = req[q]
  BY <1>5, OtherCalls
<1>6. ASSUME NEW p \in Proc, NEW c \in Customer, NEW n \in Attempt,
             StartCharge(p, c, n)
      PROVE  Kept
  <2> DEFINE r == [Idle EXCEPT !.step = "compute", !.cust = c, !.num = n]
  <2>1. r.step = "compute"
    BY DEF Idle
  <2>2. req' = [req EXCEPT ![p] = r] \/ UNCHANGED req
    BY <1>6 DEF StartCharge
  <2> HIDE DEF r
  <2>3. req'[q] = req[q] \/ req'[q] = r
    BY <2>2 DEF IInv, TypeOK
  <2> QED BY <1>1, <2>1, <2>3 DEF Uses
<1>7. ASSUME NEW p \in Proc, NEW c \in Customer, StartEnsure(p, c)
      PROVE  Kept
  <2> DEFINE r == [Idle EXCEPT !.step = "settings", !.cust = c]
  <2>1. r.step = "settings"
    BY DEF Idle
  <2>2. req' = [req EXCEPT ![p] = r]
    BY <1>7 DEF StartEnsure
  <2> HIDE DEF r
  <2>3. req'[q] = req[q] \/ req'[q] = r
    BY <2>2 DEF IInv, TypeOK
  <2> QED BY <1>1, <2>1, <2>3 DEF Uses
<1>8. CASE Restart
  BY <1>8, <1>2 DEF Restart
<1>9. CASE StartSweep \/ Configure \/ NextMonth \/ UNCHANGED vars
           \/ \E c \in Editor : UpdateSettings(c)
  BY <1>1, <1>9 DEF StartSweep, Configure, NextMonth, UpdateSettings, vars
<1> QED BY <1>1, <1>3, <1>4, <1>5, <1>6, <1>7, <1>8, <1>9 DEF Next

\* Whose charge an attempt is that Stripe has something of never changes.
LEMMA CustKept ==
  ASSUME IInv, [Next]_vars, NEW n \in Attempt, Started(n), ~Untouched(n)
  PROVE  attempt'[n].cust = attempt[n].cust
<1>1. ASSUME NEW p \in Proc, GiveUp(p), req[p].step \in Before
      PROVE  attempt'[n].cust = attempt[n].cust
  <2>1. n # Num(p)
    BY <1>1, NoValueAssumption DEF IInv, NothingSentBefore
  <2> QED BY <1>1, <2>1, GiveUpAttempt DEF IInv
<1>2. ASSUME NEW p \in Proc, NEW c \in Customer, NEW k \in Attempt,
             StartCharge(p, c, k)
      PROVE  attempt'[n].cust = attempt[n].cust
  <2> DEFINE a == [cust |-> c, month |-> month, lines |-> {}]
  <2>1. UNCHANGED attempt \/ (k # n /\ attempt' = [attempt EXCEPT ![k] = a])
    BY <1>2, StartChargeParts
  <2> HIDE DEF a
  <2> QED BY <2>1 DEF IInv, TypeOK
<1>3. ASSUME NEW p \in Proc, Compute(p)
      PROVE  attempt'[n].cust = attempt[n].cust
  <2>1. PICK ls \in SUBSET Line : attempt' = [attempt EXCEPT ![Num(p)].lines = ls]
    BY <1>3 DEF Compute
  <2>2. n # Num(p)
    BY <1>3, NoValueAssumption DEF Compute, IInv, NothingSentBefore, Before, At
  <2> QED BY <2>1, <2>2 DEF IInv, TypeOK
<1>4. ASSUME NEW p \in Proc, Step(p)
      PROVE  attempt'[n].cust = attempt[n].cust
  <2>1. CASE Compute(p)
    BY <1>3, <2>1
  <2>2. CASE InsertSettings(p) \/ EnsureCustomer(p) \/ SaveCustomer(p)
    <3>1. req[p].step \in Before
      BY <2>2 DEF InsertSettings, EnsureCustomer, SaveCustomer, Before, At
    <3>2. GiveUp(p) \/ UNCHANGED attempt
      BY <2>2 DEF InsertSettings, EnsureCustomer, SaveCustomer, AfterEnsure
    <3> QED BY <1>1, <3>1, <3>2
  <2>3. CASE ReadSettings(p) \/ AddItem(p) \/ CreateInvoice(p) \/ Finalize(p)
               \/ RecordRun(p)
    BY <2>3 DEF ReadSettings, AddItem, CreateInvoice, Finalize, RecordRun
  <2> QED BY <1>4, <2>1, <2>2, <2>3 DEF Step
<1>5. ASSUME NEW d \in Editor, UpdateSettings(d)
      PROVE  attempt'[n].cust = attempt[n].cust
  BY <1>5 DEF UpdateSettings
<1> QED BY <1>2, <1>4, <1>5, StepsThatWrite

\* What was pending or invoiced on the Stripe customer of the row still is.
LEMMA StillOn ==
  ASSUME IInv, OneInv, [Next]_vars, NEW i, i.by \in Attempt,
         Started(i.by), ~Untouched(i.by), NEW s \in StripeId,
         attempt[i.by].cust \notin Editor => settings[attempt[i.by].cust] = s
  PROVE  attempt'[i.by].cust \notin Editor => settings'[attempt'[i.by].cust] = s
<1>1. attempt'[i.by].cust = attempt[i.by].cust /\ attempt[i.by].cust \in Customer
  BY CustKept, Typed DEF IInv, Charge
<1> QED BY <1>1, SettledRow, NoValueAssumption

\* Every step keeps the charges on the Stripe customer of the row.
LEMMA ChargeNext ==
  ASSUME IInv, OneInv, ChargeInv, [Next]_vars
  PROVE  ChargeInv'
<1> USE DEF Invoiced
<1>1. ASSUME NEW q \in Proc, Uses(q)', Cust(q)' \notin Editor
      PROVE  settings'[Cust(q)'] = Cid(q)'
  <2>1. CASE Uses(q) /\ Cust(q)' = Cust(q) /\ Cid(q)' = Cid(q)
    <3>1. Cust(q) \in Customer /\ settings[Cust(q)] = Cid(q) /\ Cid(q) # NoRow
      BY <1>1, <2>1, Typed, NoValueAssumption
      DEF ChargeInv, UsesSettings, Uses, IInv, RequestShape, Shape, At
    <3> QED BY <1>1, <2>1, <3>1, SettledRow
  <2>2. CASE ReadSettings(q)
    <3>1. CASE Goto(q, "insert")
      BY <1>1, <3>1, GotoReq DEF Uses, IInv, At
    <3>2. CASE req' = [req EXCEPT ![q].step = "ensure", ![q].cid = settings[Cust(q)]]
      <4>1. req'[q].cid = settings[Cust(q)] /\ req'[q].cust = Cust(q)
        BY <3>2, Typed DEF IInv, TypeOK, Call, Cust
      <4> QED BY <2>2, <4>1 DEF ReadSettings, Cust, Cid
    <3> QED BY <2>2, <3>1, <3>2 DEF ReadSettings
  <2>3. CASE SaveCustomer(q)
    <3>1. Cust(q) \in Customer
      BY <2>3 DEF SaveCustomer, IInv, RequestShape, Shape, At
    <3>2. settings'[Cust(q)] = Cid(q)
      BY <2>3, <3>1 DEF SaveCustomer, IInv, TypeOK, Cid
    <3>3. CASE GiveUp(q)
      BY <1>1, <3>3, ReturnReq, IdleCall DEF GiveUp, Uses, IInv, At
    <3>4. CASE Goto(q, "items")
      BY <3>2, <3>4, GotoReq DEF IInv, Cust, Cid
    <3> QED BY <2>3, <3>3, <3>4 DEF SaveCustomer, AfterEnsure
  <2> QED BY <1>1, <2>1, <2>2, <2>3, UsesKept
<1>2. \A s \in StripeId : \A i \in unbilled[s] :
        attempt'[i.by].cust \notin Editor => settings'[attempt'[i.by].cust] = s
  <2> SUFFICES ASSUME NEW s \in StripeId, NEW i \in unbilled[s]
               PROVE  attempt'[i.by].cust \notin Editor =>
                        settings'[attempt'[i.by].cust] = s
    OBVIOUS
  <2>1. i.by \in Attempt /\ Started(i.by) /\ ~Untouched(i.by)
    BY Typed DEF IInv, ItemsBelong, ItemBelongs, Untouched
  <2> QED BY <2>1, StillOn DEF ChargeInv, PendingOn
<1>3. \A n \in Invoiced : \A i \in invoice[n].items :
        attempt'[i.by].cust \notin Editor =>
          settings'[attempt'[i.by].cust] = invoice[n].to
  <2> SUFFICES ASSUME NEW n \in Invoiced, NEW i \in invoice[n].items
               PROVE  attempt'[i.by].cust \notin Editor =>
                        settings'[attempt'[i.by].cust] = invoice[n].to
    OBVIOUS
  <2>1. i.by \in Attempt /\ Started(i.by) /\ ~Untouched(i.by) /\ invoice[n].to \in StripeId
    BY Typed DEF IInv, InvoicesBelong, ItemBelongs, Untouched
  <2> QED BY <2>1, StillOn DEF ChargeInv, InvoicedOn
<1>4. PendingOn' /\ InvoicedOn'
  <2>1. CASE UNCHANGED <<unbilled, invoice>>
    BY <1>2, <1>3, <2>1 DEF PendingOn, InvoicedOn
  <2>2. ASSUME NEW p \in Proc, AddItem(p)
        PROVE  PendingOn' /\ InvoicedOn'
    <3> DEFINE t == Cid(p)
    <3>1. /\ t \in StripeId /\ UNCHANGED <<settings, invoice, attempt>>
          /\ attempt[Num(p)].cust = Cust(p) /\ At(p, "items")
      BY <2>2 DEF AddItem, IInv, RequestShape, Shape, At, Cid
    <3>2. Cust(p) \notin Editor => settings[Cust(p)] = t
      BY <3>1 DEF ChargeInv, UsesSettings, Uses, At
    <3>3. PICK l \in req[p].todo :
            unbilled' = [unbilled EXCEPT ![t] = @ \cup {[by |-> Num(p), line |-> l]}]
      BY <2>2 DEF AddItem, Cid
    <3> DEFINE new == [by |-> Num(p), line |-> l]
    <3>4. new.by = Num(p)
      OBVIOUS
    <3> HIDE DEF new, t
    <3>5. \A u \in StripeId : \A i \in unbilled'[u] :
            i \in unbilled[u] \/ (i = new /\ u = t)
      <4>1. unbilled' = [unbilled EXCEPT ![t] = unbilled[t] \cup {new}]
        BY <3>3 DEF new
      <4> QED BY <4>1, <3>1 DEF IInv, TypeOK
    <3>6. PendingOn'
      BY <1>2, <3>1, <3>2, <3>4, <3>5 DEF PendingOn
    <3> QED BY <1>3, <3>1, <3>6 DEF InvoicedOn
  <2>3. ASSUME NEW p \in Proc, CreateInvoice(p)
        PROVE  PendingOn' /\ InvoicedOn'
    <3> DEFINE t == Cid(p)
               n == Num(p)
               v == [to |-> t, items |-> unbilled[t]]
    <3>1. CASE invoice' = [invoice EXCEPT ![n] = v] /\ unbilled' = [unbilled EXCEPT ![t] = {}]
      <4>1. t \in StripeId /\ n \in Attempt
        BY <2>3, Typed, NoValueAssumption
        DEF CreateInvoice, IInv, RequestShape, Shape, At
      <4>2. v.to = t /\ v.items = unbilled[t]
        OBVIOUS
      <4> HIDE DEF v, t, n
      <4>3. /\ \A k \in Invoiced' : invoice'[k] = v \/ (k \in Invoiced /\ invoice'[k] = invoice[k])
            /\ \A u \in StripeId : unbilled'[u] \subseteq unbilled[u]
        BY <3>1, <4>1 DEF IInv, TypeOK
      <4> QED BY <1>2, <1>3, <4>1, <4>2, <4>3 DEF PendingOn, InvoicedOn
    <3> QED BY <2>1, <2>3, <3>1 DEF CreateInvoice, Cid
  <2>4. ASSUME NEW p \in Proc, Step(p)
        PROVE  AddItem(p) \/ CreateInvoice(p) \/ UNCHANGED <<unbilled, invoice>>
    BY <2>4 DEF Step, Compute, ReadSettings, InsertSettings, EnsureCustomer,
       SaveCustomer, Finalize, RecordRun
  <2>5. ASSUME NEW p \in Proc, NEW c \in Customer, NEW n \in Attempt,
               StartCharge(p, c, n)
        PROVE  UNCHANGED <<unbilled, invoice>>
    BY <2>5 DEF StartCharge
  <2>6. ASSUME NEW c \in Editor, UpdateSettings(c)
        PROVE  UNCHANGED <<unbilled, invoice>>
    BY <2>6 DEF UpdateSettings
  <2> QED BY <2>1, <2>2, <2>3, <2>4, <2>5, <2>6, StepsThatWrite
<1> QED BY <1>1, <1>4 DEF ChargeInv, UsesSettings

\* Whatever Stripe calls fail or lose their answer, whenever the service is
\* restarted and whatever the others edit: all charges of a subscriber who does
\* not edit the Stripe id of his settings are on the one Stripe customer that
\* the lock of _ensure_stripe_customer let him have, for any number of
\* simultaneous requests.
THEOREM OneCustomer == Spec => []OneStripeCustomer
<1>1. Init => ChargeInv
  BY IdleCall DEF Init, ChargeInv, UsesSettings, Uses, PendingOn, InvoicedOn, At,
     Invoiced
<1>2. IInv /\ OneInv /\ ChargeInv /\ [Next]_vars => ChargeInv'
  BY ChargeNext
<1>3. ChargeInv => OneStripeCustomer
  BY DEF ChargeInv, PendingOn, InvoicedOn, OneStripeCustomer, Invoiced
<1> QED BY <1>1, <1>2, <1>3, OneInvariant, SpecIInv, PTL DEF Spec

\* Whoever has an uncommitted row of payment_settings that another call waits
\* for, does not itself wait for one.
RowWaitsEnd ==
  \A p \in Proc : At(p, "insert") /\ inserting[Cust(p)] # None =>
    inserting[Cust(p)] \in Proc /\ ~At(inserting[Cust(p)], "insert")

\* Why the sweep and the requests do not wait for each other for ever: a call
\* waits for a row before it has one, and has at most one at a time; with edits
\* and restarts, too.
THEOREM NoDeadlock == Spec => []RowWaitsEnd
<1>1. IInv /\ OneInv => RowWaitsEnd
  <2> SUFFICES ASSUME IInv, OneInv, NEW p \in Proc, At(p, "insert"),
                      inserting[Cust(p)] # None
               PROVE  /\ inserting[Cust(p)] \in Proc
                      /\ ~At(inserting[Cust(p)], "insert")
    BY DEF RowWaitsEnd
  <2>1. Cust(p) \in Customer
    BY DEF IInv, RequestShape, Shape, At
  <2>2. InEnsure(inserting[Cust(p)])
    BY <2>1 DEF OneInv, RowIsHeld
  <2> QED BY <2>1, <2>2 DEF InEnsure, At, IInv, TypeOK
<1> QED BY <1>1, OneInvariant, SpecIInv, PTL
=============================================================================
