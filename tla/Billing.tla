------------------------------- MODULE Billing -------------------------------
(***************************************************************************)
(* Monthly billing in customer-service: PaymentsFacade.charge_subscription *)
(* called by POST /me/billing/invoice (a thread per request) and by the    *)
(* scheduled sweep (_run_billing_sweep, one thread), the billing_runs and  *)
(* payment_settings tables, and Stripe as StripeService uses it.           *)
(*                                                                         *)
(* A charge reads the guard, then talks to admin-service, kb-service and   *)
(* Stripe, and records the run in a last INSERT; every call is an action,  *)
(* so that another charge, a failure or a restart can come in between.     *)
(* An attempt that got past the guard has a name, which also names the     *)
(* invoice it creates.                                                     *)
(***************************************************************************)
EXTENDS Naturals

CONSTANTS
  Customer,     \* subscribers
  User,         \* threads serving the payments routes
  Sweep,        \* the thread of the monthly-billing-sweep job
  Editor,       \* subscribers whose payment settings are also edited
  Line,         \* billable lines (tech stacks with a positive monthly cost)
  StripeId,     \* Stripe customer ids
  Attempt,      \* names of the attempts that get past the guard
  MaxMonth,     \* bound: the last month
  Failures,     \* which calls may fail: a subset of FailureKinds
  None,         \* no attempt, no invoice, no owner
  NoRow, NoId,  \* payment_settings: no row; a row without Stripe customer
  Unknown       \* an edited Stripe customer id that Stripe refuses

FailureKinds == {"lookup", "customer", "answer", "item", "invoice", "finalize",
                 "crash"}

ASSUME FailuresAssumption == Failures \subseteq FailureKinds
ASSUME SweepAssumption == Sweep \notin User
ASSUME EditorAssumption == Editor \subseteq Customer
ASSUME MonthAssumption == MaxMonth \in Nat \ {0}
ASSUME NoValueAssumption ==
  /\ NoRow # NoId /\ Unknown \notin {NoRow, NoId}
  /\ {NoRow, NoId, Unknown} \cap StripeId = {}
  /\ None \notin Attempt \cup Customer \cup User \cup {Sweep}

VARIABLES
  month,       \* the current calendar month (UTC)
  configured,  \* STRIPE_API_KEY is set
  runs,        \* runs[c][m]: the attempt recorded in billing_runs
  settings,    \* settings[c]: the Stripe customer in payment_settings
  inserting,   \* inserting[c]: thread with an uncommitted row for c
  req,         \* req[p]: the call that thread p runs
  queue,       \* customers the current sweep has still to charge
  owner,       \* Stripe: owner[s] is the customer s was created for
  unbilled,    \* Stripe: unbilled[s] are the invoice items pending on s
  invoice,     \* Stripe: invoice[n] is the invoice that n created
  attempt      \* history: attempt[n] is what n sets out to charge

vars == <<month, configured, runs, settings, inserting, req, queue, owner,
          unbilled, invoice, attempt>>

Proc  == User \cup {Sweep}
Month == 1..MaxMonth
Item  == [by: Attempt, line: Line]     \* the attempt that created it
Invoice == [to: StripeId, items: SUBSET Item]   \* whom it is sent to, and what
Charge == [cust: Customer, month: Month, lines: SUBSET Line]

ASSUME NoneAssumption ==
  (\A c \in Charge : c # None) /\ (\A v \in Invoice : v # None)

\* A call: its next step, customer and attempt (None if it only ensures that
\* there is a Stripe customer), the lines not yet sent to Stripe, and the
\* Stripe customer it uses.
Call == [step: {"idle", "compute", "settings", "insert", "ensure", "save",
                "items", "finalize", "record"},
         cust: Customer \cup {None}, num: Attempt \cup {None},
         todo: SUBSET Line, cid: StripeId \cup {NoId, Unknown}]
Idle == [step |-> "idle", cust |-> None, num |-> None, todo |-> {},
         cid |-> NoId]

TypeOK ==
  /\ month \in Month
  /\ configured \in BOOLEAN
  /\ runs \in [Customer -> [Month -> Attempt \cup {None}]]
  /\ settings \in [Customer -> StripeId \cup {NoRow, NoId, Unknown}]
  /\ inserting \in [Customer -> Proc \cup {None}]
  /\ req \in [Proc -> Call]
  /\ queue \in SUBSET Customer
  /\ owner \in [StripeId -> Customer \cup {None}]
  /\ unbilled \in [StripeId -> SUBSET Item]
  /\ invoice \in [Attempt -> {None} \cup Invoice]
  /\ attempt \in [Attempt -> {None} \cup Charge]

Init ==
  /\ month = 1
  /\ configured \in BOOLEAN
  /\ runs = [c \in Customer |-> [m \in Month |-> None]]
  /\ settings = [c \in Customer |-> NoRow]
  /\ inserting = [c \in Customer |-> None]
  /\ req = [p \in Proc |-> Idle]
  /\ queue = {}
  /\ owner = [s \in StripeId |-> None]
  /\ unbilled = [s \in StripeId |-> {}]
  /\ invoice = [n \in Attempt |-> None]
  /\ attempt = [n \in Attempt |-> None]

-----------------------------------------------------------------------------
At(p, s)   == req[p].step = s
Cust(p)    == req[p].cust
Num(p)     == req[p].num
Started(n) == attempt[n] # None
Billed(c, m) == runs[c][m] # None

Goto(p, s) == req' = [req EXCEPT ![p].step = s]

\* Mutant of Unlock: the session is not closed.
UnlockNever(p) == UNCHANGED inserting

\* The open transaction of thread p ends.
Unlock(p) ==
  inserting' = [c \in Customer |-> IF inserting[c] = p THEN None
                                                      ELSE inserting[c]]

\* The call returns or raises, and its session is closed.
Return(p) == req' = [req EXCEPT ![p] = Idle] /\ Unlock(p)

\* It does so before it has created anything to pay at Stripe: the name of
\* its attempt is free again.
GiveUp(p) ==
  /\ Return(p)
  /\ attempt' = [n \in Attempt |-> IF n = Num(p) THEN None ELSE attempt[n]]

\* Thread p may take up customer c: a user's request at any time, the sweep
\* the customers of its list; what happens to one does not end the sweep.
Takes(p, c) ==
  /\ At(p, "idle")
  /\ IF p = Sweep THEN c \in queue /\ queue' = queue \ {c} ELSE UNCHANGED queue

\* The sweep lists the active subscriptions; a failed lookup lists none.
StartSweep ==
  /\ At(Sweep, "idle") /\ queue = {}
  /\ queue' = Customer
  /\ UNCHANGED <<month, configured, runs, settings, inserting, req, owner,
                 unbilled, invoice, attempt>>

\* Mutant of StartCharge: no idempotency guard.
StartChargeUnguarded(p, c, n) ==
  /\ Takes(p, c)
  /\ ~Started(n)
  /\ attempt' = [attempt EXCEPT ![n] =
                   [cust |-> c, month |-> month, lines |-> {}]]
  /\ req' = [req EXCEPT ![p] = [Idle EXCEPT !.step = "compute", !.cust = c,
                                               !.num = n]]
  /\ UNCHANGED <<month, configured, runs, settings, inserting, owner,
                 unbilled, invoice>>

\* charge_subscription: compute the period and read the guard.
StartCharge(p, c, n) ==
  /\ Takes(p, c)
  /\ IF Billed(c, month)
     THEN UNCHANGED <<req, attempt>>
     ELSE /\ ~Started(n)
          /\ attempt' = [attempt EXCEPT ![n] =
                           [cust |-> c, month |-> month, lines |-> {}]]
          /\ req' = [req EXCEPT ![p] = [Idle EXCEPT !.step = "compute",
                                                       !.cust = c, !.num = n]]
  /\ UNCHANGED <<month, configured, runs, settings, inserting, owner,
                 unbilled, invoice>>

\* get_settings, get_billing, create_setup_intent: only the Stripe customer.
StartEnsure(p, c) ==
  /\ p # Sweep /\ At(p, "idle")
  /\ req' = [req EXCEPT ![p] = [Idle EXCEPT !.step = "settings", !.cust = c]]
  /\ UNCHANGED <<month, configured, runs, settings, inserting, queue,
                 owner, unbilled, invoice, attempt>>

\* _compute_subscription: the plan's price of every stack in use.  A
\* subscriber uses at least one; a failed lookup degrades to no line.
Compute(p) ==
  /\ At(p, "compute")
  /\ \E ls \in SUBSET Line :
       /\ ls = {} => "lookup" \in Failures
       /\ attempt' = [attempt EXCEPT ![Num(p)].lines = ls]
       /\ req' = [req EXCEPT ![p].step = "settings", ![p].todo = ls]
  /\ UNCHANGED <<month, configured, runs, settings, inserting, queue, owner,
                 unbilled, invoice>>

\* PaymentDao.get_or_create: its SELECT, then the flushed INSERT, which waits
\* for another transaction's row and fails if that was committed.
ReadSettings(p) ==
  /\ At(p, "settings")
  /\ IF settings[Cust(p)] = NoRow
     THEN Goto(p, "insert")
     ELSE req' = [req EXCEPT ![p].step = "ensure", ![p].cid = settings[Cust(p)]]
  /\ UNCHANGED <<month, configured, runs, settings, inserting, queue, owner,
                 unbilled, invoice, attempt>>

\* Mutant of InsertSettings: payment_settings.customer_id is not unique, the
\* last INSERT is the row that is found.
InsertSettingsNotUnique(p) ==
  /\ At(p, "insert")
  /\ inserting' = [inserting EXCEPT ![Cust(p)] = p]
  /\ Goto(p, "ensure")
  /\ UNCHANGED <<month, configured, runs, settings, queue, owner, unbilled,
                 invoice, attempt>>

InsertSettings(p) ==
  /\ At(p, "insert")
  /\ inserting[Cust(p)] = None
  /\ IF settings[Cust(p)] = NoRow
     THEN /\ inserting' = [inserting EXCEPT ![Cust(p)] = p]
          /\ Goto(p, "ensure")
          /\ UNCHANGED attempt
     ELSE GiveUp(p)
  /\ UNCHANGED <<month, configured, runs, settings, queue, owner, unbilled,
                 invoice>>

\* What follows _ensure_stripe_customer, which leaves no open transaction
\* once it has an id: the invoice of a charge with lines.
AfterEnsure(p) ==
  IF req[p].todo = {} THEN GiveUp(p)
  ELSE Goto(p, "items") /\ Unlock(p) /\ UNCHANGED attempt

\* Mutant of EnsureCustomer: a Stripe customer that exists is taken, whoever
\* it was created for.
EnsureCustomerAny(p) ==
  /\ At(p, "ensure") /\ configured
  /\ \E s \in StripeId :
       /\ owner' = [owner EXCEPT ![s] = IF @ = None THEN Cust(p) ELSE @]
       /\ req' = [req EXCEPT ![p].step = "save", ![p].cid = s]
  /\ UNCHANGED <<month, configured, runs, settings, inserting, queue,
                 unbilled, invoice, attempt>>

\* StripeService.ensure_customer: without a key, or when Stripe fails, the
\* call ends as "not configured", and so it does when Stripe has created the
\* customer and only its answer is lost; an id of the settings is used as is.
EnsureCustomer(p) ==
  /\ At(p, "ensure")
  /\ \/ /\ ~configured \/ (req[p].cid = NoId /\ "customer" \in Failures)
        /\ GiveUp(p)
        /\ UNCHANGED owner
     \/ /\ configured /\ req[p].cid = NoId /\ "answer" \in Failures
        /\ GiveUp(p)
        /\ \E s \in StripeId :
             owner[s] = None /\ owner' = [owner EXCEPT ![s] = Cust(p)]
     \/ /\ configured /\ req[p].cid # NoId
        /\ AfterEnsure(p)
        /\ UNCHANGED owner
     \/ /\ configured /\ req[p].cid = NoId
        /\ \E s \in StripeId :
             /\ owner[s] = None
             /\ owner' = [owner EXCEPT ![s] = Cust(p)]
             /\ req' = [req EXCEPT ![p].step = "save", ![p].cid = s]
        /\ UNCHANGED <<inserting, attempt>>
  /\ UNCHANGED <<month, configured, runs, settings, queue, unbilled, invoice>>

\* _ensure_stripe_customer commits the new Stripe customer id, over whatever
\* the row holds by now.
SaveCustomer(p) ==
  /\ At(p, "save")
  /\ settings' = [settings EXCEPT ![Cust(p)] = req[p].cid]
  /\ AfterEnsure(p)
  /\ UNCHANGED <<month, configured, runs, queue, owner, unbilled, invoice>>

\* create_invoice, its loop: one InvoiceItem per line.
AddItem(p) ==
  /\ At(p, "items") /\ req[p].cid \in StripeId
  /\ \E l \in req[p].todo :
       /\ req' = [req EXCEPT ![p].todo = @ \ {l}]
       /\ unbilled' = [unbilled EXCEPT ![req[p].cid] = @ \cup
                          {[by |-> Num(p), line |-> l]}]
  /\ UNCHANGED <<month, configured, runs, settings, inserting, queue, owner,
                 invoice, attempt>>

\* Mutant of CreateInvoice: it is made before the loop is through.
CreateInvoiceEarly(p) ==
  /\ At(p, "items") /\ req[p].cid \in StripeId
  /\ invoice' = [invoice EXCEPT ![Num(p)] =
                   [to |-> req[p].cid, items |-> unbilled[req[p].cid]]]
  /\ unbilled' = [unbilled EXCEPT ![req[p].cid] = {}]
  /\ Goto(p, "finalize")
  /\ UNCHANGED <<month, configured, runs, settings, inserting, queue, owner,
                 attempt>>

\* Invoice.create: Stripe puts every pending item of the customer on the new
\* invoice.  It may refuse to create one without items.
CreateInvoice(p) ==
  /\ At(p, "items") /\ req[p].todo = {}
  /\ \/ /\ invoice' = [invoice EXCEPT ![Num(p)] =
                         [to |-> req[p].cid, items |-> unbilled[req[p].cid]]]
        /\ unbilled' = [unbilled EXCEPT ![req[p].cid] = {}]
        /\ Goto(p, "finalize")
        /\ UNCHANGED inserting
     \/ /\ unbilled[req[p].cid] = {}
        /\ Return(p)
        /\ UNCHANGED <<invoice, unbilled>>
  /\ UNCHANGED <<month, configured, runs, settings, queue, owner, attempt>>

Finalize(p) ==
  /\ At(p, "finalize")
  /\ Goto(p, "record")
  /\ UNCHANGED <<month, configured, runs, settings, inserting, queue, owner,
                 unbilled, invoice, attempt>>

\* Mutant of RecordRun: the period is computed again.
RecordRunNow(p) ==
  /\ At(p, "record")
  /\ runs' = IF Billed(Cust(p), month) THEN runs
             ELSE [runs EXCEPT ![Cust(p)][month] = Num(p)]
  /\ Return(p)
  /\ UNCHANGED <<month, configured, settings, queue, owner, unbilled, invoice,
                 attempt>>

\* BillingDao.create_run and the commit: the unique (customer, period)
\* refuses a second run.
RecordRun(p) ==
  /\ At(p, "record")
  /\ LET a == attempt[Num(p)]
     IN runs' = IF Billed(a.cust, a.month) THEN runs
                ELSE [runs EXCEPT ![a.cust][a.month] = Num(p)]
  /\ Return(p)
  /\ UNCHANGED <<month, configured, settings, queue, owner, unbilled, invoice,
                 attempt>>

-----------------------------------------------------------------------------
\* A Stripe call fails, or its answer is lost: create_invoice reports
\* "upstream_error", and what it has already created stays at Stripe.  (An
\* invoice that was created but not finalized has auto_advance set: Stripe
\* finalizes it by itself.)
StripeFails(p) ==
  /\ \/ /\ At(p, "items") /\ req[p].todo # {}
        /\ "item" \in Failures \/ req[p].cid = Unknown
     \/ At(p, "items") /\ req[p].todo = {} /\ "invoice" \in Failures
     \/ At(p, "finalize") /\ "finalize" \in Failures
  /\ Return(p)
  /\ UNCHANGED <<month, configured, runs, settings, queue, owner, unbilled,
                 invoice, attempt>>

\* The service is restarted: every thread and the current sweep are gone.
Restart ==
  /\ "crash" \in Failures
  /\ req' = [p \in Proc |-> Idle]
  /\ inserting' = [c \in Customer |-> None]
  /\ queue' = {}
  /\ UNCHANGED <<month, configured, runs, settings, owner, unbilled, invoice,
                 attempt>>

\* The service is deployed with a Stripe key.
Configure ==
  /\ ~configured
  /\ queue = {} /\ \A p \in Proc : At(p, "idle")
  /\ configured' = TRUE
  /\ UNCHANGED <<month, runs, settings, inserting, req, queue, owner, unbilled,
                 invoice, attempt>>

\* update_settings (PUT /me/payments) and PaymentDao.update: the document
\* replaces the whole data as it stands, and with it the Stripe customer id:
\* by none, by one that Stripe does not know, or by any that it has created.
UpdateSettings(c) ==
  /\ inserting[c] = None
  /\ \E id \in {NoId, Unknown} \cup {s \in StripeId : owner[s] # None} :
       settings' = [settings EXCEPT ![c] = id]
  /\ UNCHANGED <<month, configured, runs, inserting, req, queue, owner,
                 unbilled, invoice, attempt>>

NextMonth ==
  /\ month < MaxMonth
  /\ month' = month + 1
  /\ UNCHANGED <<configured, runs, settings, inserting, req, queue, owner,
                 unbilled, invoice, attempt>>

-----------------------------------------------------------------------------
Step(p) ==
  \/ Compute(p)
  \/ ReadSettings(p)
  \/ InsertSettings(p)
  \/ EnsureCustomer(p)
  \/ SaveCustomer(p)
  \/ AddItem(p)
  \/ CreateInvoice(p)
  \/ Finalize(p)
  \/ RecordRun(p)

Next ==
  \/ StartSweep
  \/ \E p \in Proc, c \in Customer, n \in Attempt : StartCharge(p, c, n)
  \/ \E p \in Proc, c \in Customer : StartEnsure(p, c)
  \/ \E p \in Proc : Step(p) \/ StripeFails(p)
  \/ Restart
  \/ Configure
  \/ \E c \in Editor : UpdateSettings(c)
  \/ NextMonth

Spec == Init /\ [][Next]_vars

\* The sweep runs again and again over its whole list and a thread keeps
\* running its call; a database wait, a lookup and a Stripe call that can
\* succeed repeatedly does succeed at some time.
Fairness ==
  /\ WF_vars(StartSweep)
  /\ WF_vars(\E c \in Customer, n \in Attempt : StartCharge(Sweep, c, n))
  /\ \A p \in Proc :
       /\ WF_vars(Step(p))
       /\ SF_vars(InsertSettings(p))
       /\ SF_vars(Compute(p) /\ req'[p].todo # {})
       /\ SF_vars(EnsureCustomer(p) /\ req'[p].step \in {"save", "items"})

FairSpec == Spec /\ Fairness

-----------------------------------------------------------------------------
Debt(n)  == <<attempt[n].cust, attempt[n].month>>
Invoiced == {n \in Attempt : invoice[n] # None}
Charged  == UNION {invoice[n].items : n \in Invoiced}

InFlight(c, m) ==
  \E p \in Proc : Num(p) # None /\ Debt(Num(p)) = <<c, m>>

\* billing_runs is what the guard of charge_subscription trusts: a recorded
\* run stands for an invoice that exists at Stripe and was made for the same
\* customer and the same month, also when the month changed, the service was
\* restarted or another thread charged in between.
RunHasInvoice ==
  \A c \in Customer, m \in Month :
    Billed(c, m) => runs[c][m] \in Invoiced /\ Debt(runs[c][m]) = <<c, m>>

\* What a customer who leaves the Stripe id of the settings alone owes is sent
\* to a Stripe customer created for him, whatever id others write into their
\* own settings, although an invoice collects whatever is pending on the
\* Stripe customer it is made for.
ChargesStayWithCustomer ==
  \A n \in Invoiced : \A i \in invoice[n].items :
    LET c == attempt[i.by].cust
    IN c \notin Editor => owner[invoice[n].to] = c

\* However many requests see such a customer for the first time, whatever
\* answers are lost (so that Stripe has customers nobody knows of) and whenever
\* the service restarts: all his pending and invoiced charges are on the one
\* Stripe customer of his settings.  The row inserted before the call to
\* Stripe and committed after it holds the others back
\* (PaymentDao.get_or_create, _ensure_stripe_customer).
OneStripeCustomer ==
  \A s \in StripeId :
    \A i \in unbilled[s] \cup
            UNION {invoice[n].items : n \in {k \in Invoiced : invoice[k].to = s}} :
      LET c == attempt[i.by].cust
      IN c \notin Editor => settings[c] = s

\* "Once an invoice exists for the period, re-invoking returns that run
\* instead of charging again" (charge_subscription): when the attempts that
\* were on their way at the time of the run are over, the month stays closed;
\* nothing they left behind is charged later, with the next month's invoice.
SettledMonthIsClosed ==
  [][\A c \in Customer, m \in Month :
       Billed(c, m) /\ ~InFlight(c, m) =>
         /\ ~InFlight(c, m)'
         /\ \A i \in Charged' \ Charged : Debt(i.by)' # <<c, m>>]_vars

\* "line_items records the per-stack breakdown that was billed"
\* (models.BillingRun): every line of a recorded run is on an invoice to the
\* Stripe customer that the run's own invoice goes to, whatever the settings
\* name meanwhile, be it another attempt's invoice that collected it first.
RunLinesInvoiced ==
  \A c \in Customer, m \in Month :
    Billed(c, m) => \A l \in attempt[runs[c][m]].lines :
      \E n \in Invoiced : /\ [by |-> runs[c][m], line |-> l] \in invoice[n].items
                          /\ invoice[n].to = invoice[runs[c][m]].to

\* The sweep, with a Stripe key, bills every subscriber: a failed lookup, a
\* failed Customer.create or a request that wins the insert of the settings
\* row only postpones it.
EventuallyBilled ==
  \A c \in Customer : configured ~> \E m \in Month : Billed(c, m)
=============================================================================
