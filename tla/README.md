# Image2Prompt: specifications, model checking and proofs

Image2Prompt turns images into prompts. Customers upload an image through a portal, several AI
providers describe it, and the results can be collected in knowledge bases (KBs) that are billed
monthly. The program is a set of Python/FastAPI services behind a gateway, with one PostgreSQL
database, and two Angular portals. This directory holds TLA+ modules of the parts of it where the
order of steps matters, TLC configurations that check them, and TLAPS proofs.

All paths are relative to the repository. `PROJECT.json` lists the components, the runs, the mutants
(what a run would catch), the source lines of every definition, the theorems and the hazards.

## 1. The system

### Components, their state and their operations

| component | state | operations that change it |
|---|---|---|
| **gateway** (`services/gateway`) | rate-limit counters, in memory or in Redis | `proxy`: rate limit, token check, forward; CSP reports |
| **customer-service**: authentication (`auth_facade`, `revoked_token_dao`, `audit_dao`) | `customers`, `revoked_tokens`, `audit_log` | `login`, `refresh`, `logout`, signup, e-mail verification, password reset, unlock; prune job |
| **customer-service**: billing (`payments_facade`, `payment_dao`, `stripe_service`, `main._run_billing_sweep`) | `payment_settings`, `billing_runs`; at Stripe: customers, pending items, invoices | `charge_subscription`, `setup_intent`, `update_settings`, the sweep job |
| **customer-service**: connections (`connections_facade`, Drive and OneDrive services) | `connections` with sealed provider tokens | connect, download, list, re-encrypt |
| **customer-service**: profile, preferences, projects, activity | one table each | single-row reads and writes |
| **admin-service** | `admin_users`, revoked tokens, `subscription_plans`, `customer_subscriptions`, `providers`, `csp_violations`, audit | login, refresh and logout, admin users, create, update and assign plans, provider settings and re-encryption, CSP reports, maintenance, seeding |
| **kb-service** (`kb_facade`, `kb_dao`, `vectorstores`, `kb_controller`) | `kb_groups`, `project_kbs`, `kb_documents`, `kb_vectors`, `kb_ingest_jobs`, an in-process index, external indexes | create and delete groups and KBs, ingest, ingest jobs, query |
| **image-processing-service** | `proc_reqs` and their results, stored images | `process_image`: resolve providers, store, call each provider, save |
| **ai-adapters** | none | call a provider's SDK |
| **shared** | scheduler tasks, encryption keys | sessions, tokens, periodic jobs, seal and open |
| **libs** (caf-secret, caf-routers) | none | look up secrets and model routes |
| **portals** | the token pair in the browser | the interceptor attaches the token and refreshes on a 401 |
| **deployment, migrations, CI** | - | replica counts, unique indexes |

### How they interact

The portals talk to the gateway, which checks the rate limit and the token and forwards. Services
call each other over HTTP on the internal network and share one database server. Every sync route runs in
a thread of FastAPI's pool; every async route is a coroutine of the service's event loop, and
periodic jobs are started by an asyncio task and run in threads (`shared/.../scheduler.py`). A request
has one SQLAlchemy session, hence one READ COMMITTED transaction at a time: what it flushes is invisible
to others until it commits, and is lost if it does not. Lookups of other services are written to
degrade: a failed call answers with a neutral value. The deployment runs two gateways,
image-processing services and ai-adapters, and one customer-service, admin-service and kb-service.

### What is hard in it

Almost every write is *read, decide, call somebody, write*, in a transaction that locks nothing. The
behaviours tests reach badly are therefore

* two requests (or a request and a scheduled job) between each other's read and write: refreshes of
  one token, charges of one customer, ingests into one KB, an ingest and a deletion;
* a call that fails after earlier ones succeeded, in systems that share no transaction: Stripe and
  `billing_runs`, a vector store and `kb_documents`;
* restarts between two such steps;
* clocks: expiries, the prune job, the change of the month;
* things that must end: requests waiting for each other's rows, jobs, the sweep.

`PROJECT.json` lists these hazards with their lines and the properties about them.

### What makes each component correct

| component | what it has to guarantee |
|---|---|
| refresh tokens | a spent token stays denied until it expires; a revocation is seen by every later refresh; a burned family has no live token; every request is answered |
| billing | a settled month is not charged again; a run has an invoice, and its lines are on invoices to the same Stripe customer; all charges of a subscriber who leaves the Stripe id of his settings alone are on one Stripe customer, created for him; everyone is billed eventually |
| knowledge bases | no generation is catalogued twice; catalogue and index agree; `doc_count` agrees with the documents; quotas hold; a deletion leaves nothing; a job in hand gets its result |
| lockout | the threshold is not passed by concurrent attempts, a lock ends and does not end early |
| action links | a link takes effect once |
| key rotation | the check mark of the security page says no more than is true; no token is lost, sealed twice or left under a key that is dropped; edits of a configuration stay |
| image processing | what is stored is whole; only enabled providers are called; every upload is answered |
| rate limits | each counter lets at most the limit of a key through in a window |
| CSP reports | racing reports of one violation leave no more rows than raced, and no row claims more than was posted |
| admin access | a spent token is dead, a role comes from a login, a superadmin remains |
| subscriptions | the gate of `create_kb` and the bill follow the plan; edits are not undone |

## 2. Modules

| module | component | proofs |
|---|---|---|
| `RefreshTokens` | refresh-token families of customer-service | `RefreshTokensProofs` |
| `Billing` | monthly billing, the Stripe customer, the sweep | `BillingProofs` |
| `KnowledgeBase` | groups, KBs, ingest, jobs, deletion, vector stores | `KnowledgeBaseProofs` |
| `SignIn` | sign-in and lockout, of both services | in `AccountsProofs` |
| `Accounts` | signup, mailed links, verification; implements `SignIn` | `AccountsProofs` |
| `AdminAccess` | admin users, roles, admin token pairs | `AdminAccessProofs` |
| `Subscriptions` | plans, assignments, the quota gate of KBs, the bill | `SubscriptionsProofs` |
| `Quota` | what a rate limiter promises (abstract) | in `EdgeProofs` |
| `Edge` | rate limiter of the gateway, CSP reports; implements `Quota` | `EdgeProofs` |
| `KeyRotation` | sealed secrets and the rotation of their key | `KeyRotationProofs` |
| `ImageProcessing` | uploads: providers, storage, connection pool, time-outs | in `EdgeProofs` |

`MC<module>` extends each of them but `Quota`, which is checked as a property of `Edge`, for TLC with the
symmetry of its model values. Definitions named "Mutant of ..." are the plausible bugs of the `mutants` list; nothing refers to them.

### RefreshTokens

One action per SQL statement of a request. `Login` issues the first token of a family;
`StartRefresh`/`StartLogout` present one that has not expired. A refresh then runs `CheckFamily`
(is the family revoked), `CheckJti` (is the token revoked: reuse, so the family is burned), `FindJti` and
`InsertJti` (`RevokedTokenDao.revoke`: SELECT, INSERT and flush), `IssueAndCommit`. A logout runs
`FindJti`, `InsertJti`, `FindFamily`, `InsertFamily`, `CommitRevocation`; a reuse the last three.
`Abort` is a request that dies: its session rolls back. `Prune` is the job that deletes expired rows,
`Tick` the clock.

* `revoked[k]` is the expiry of the committed row whose `jti` is `k` (a token or a family marker);
  `pending[p]` are the rows that request `p` has flushed and not committed. The INSERT of a key that
  another transaction has pending waits: the action is disabled. An INSERT that finds the key
  committed fails with an IntegrityError, which the request does not catch, and the request ends.
* `parent`, `ended`, `burnedBy` and the request's `denials` are histories for the properties.
* Two refreshes of one token may overlap and both issue (the second finds the first's committed row in its SELECT),
  so `RevocationSeenByLaterRefresh` speaks of rows that were there when the request began.
* Audit rows and the password check are left out, and logout accepts any token, as the code does, which
  does not look at `typ`.

### Billing

One action per call of `charge_subscription`, of the sweep and of `_ensure_stripe_customer`:
`StartCharge` (the month and the guard), `Compute` (the lookups of plan and usage),
`ReadSettings`/`InsertSettings` (`PaymentDao.get_or_create`), `EnsureCustomer` (Customer.create),
`SaveCustomer`, `AddItem` once per line, `CreateInvoice`, `Finalize`, `RecordRun`. `StartSweep` takes
the subscribers and the sweep charges them one after the other; `StartEnsure` is the setup-intent route.
`StripeFails` raises at any call of `create_invoice`, `Restart` ends every call and rolls its transaction back,
`UpdateSettings` replaces the settings document, `Configure` sets the Stripe key, `NextMonth` moves the
calendar.

* Stripe is modelled from `stripe_service.py`: `owner` (Customer.create), `unbilled`
  (InvoiceItem.create leaves an item pending on the customer), `invoice` (Invoice.create collects all that
  is pending, which is what the code relies on: it never names the items; a Stripe API version whose
  `pending_invoice_items_behavior` defaults to "exclude" would send empty invoices).
* A Stripe call that raises may have taken effect: `ensure_customer` catches every exception, so `EnsureCustomer` may end as
  "not configured" with or without a new Stripe customer (`"answer"`, `"customer"` in `Failures`), and an item or an
  invoice that was created is left at Stripe.
* `UpdateSettings` is the PUT of a free document that is stored as it is (`payment_dao.py:33`): afterwards the Stripe id is missing
  (`NoId`), one that Stripe does not know (`Unknown`; its items are refused), or any that Stripe has created, another
  customer's included. It is taken by the customers in `Editor` only, so that properties can speak of the others.
* `inserting[c]` is the thread with an uncommitted `payment_settings` row: the unique `customer_id` makes
  others wait. It is what protects the Stripe customer of a new subscriber.
* An attempt that passes the guard has a name, which also names its invoice; `attempt` is a history.
* Amounts are left out; a line is a stack with a positive price, and a subscriber has at least one.
* One customer-service process runs the sweep. A failed `list_active` is a sweep that does not start.

### KnowledgeBase

Creation (`StartCreate`, `CreateKb`), ingests (`ReadKb`, `Plan`, `Resolve`, `IngestOne` per generation,
`CommitIngest`) and jobs (`CreateJob`, `StartJob`, `ReportJob`) are coroutines: `holder` is the one that
runs and has not awaited, and no other coroutine steps meanwhile. Deletions are sync routes and run in
threads, between any two statements: `DeleteVectors`, `DeleteDocs`, `DeleteRow` per KB and
`CommitDelete`. `FailIngest` is the commit of an ingest whose KB a deletion took, `Restart` loses the in-process index,
the background jobs and every open transaction.

* `vectors` are the rows of pgvector KBs, part of the same transaction; `external` is outside of it;
  `memory` is the in-process index that takes what an external backend refuses.
* `task[t].count` is `kb.doc_count` as the session read it, `remaining` what the plan still allows
  (`None` when the lookup failed: no limit).
* `overwrites[k]` counts the commits that set `doc_count` from a number that was no longer the stored one, `unplanned[k]` the
  documents added by ingests without a plan; with `unclean` they are histories for the properties.
* The plan does not change during a run (the table is admin-service's). KB ids are not used again.
  Queries, embeddings and ranking only read.

### SignIn

`AuthFacade.login` in four statements of a thread: `Begin` (the account is found), `ReadFloor`
(`last_event_at`: the last unlock), `CountFailures` (`count_recent`; the attempt is turned away or goes on),
and the verdict on the password: `Fail` commits an audit row, `Succeed` issues tokens. `Unlock` is the
admin's, `Abort` a request that dies, `Tick` the clock. admin-service has the same code statement for
statement.

* The audit log is `of` (whose failure a row is) and `age` (how long ago); the rows before an unlock are `cleared`. A row that no
  count can reach any more is forgotten and its name is used again, so time needs no bound.
* `slack` is the time between computing the start of the window and counting; `MaxSlack` bounds it.
* An unknown e-mail is not counted, as in the code: its failures have no `actor_id`.

### Accounts

Accounts come into being (`StartSignup`, `CreateCustomer`) and have passwords that the sign-ins of `SignIn` present
(`StartLogin`, `CheckPassword`). A link is mailed or not (`ForgotPassword`, `SendVerification`, with
`EmailService.send` that never fails), and used in three steps: `ConsumeToken` and the start of the
request, `FindRevoked` (the SELECT of `RevokedTokenDao.revoke`), `CommitLink`.

* `used` are the committed rows of `revoked_tokens`; `uses` counts the commits of a link's effect, as a history.
* The flush and the commit are one action: in between the row is invisible and the unique index makes others
  wait, so nothing distinguishes the two.
* `Accounts` extends `SignIn`: it has its variables, drives its actions (`LoginStep`, `UnlockAccount`, `AbortRequest`, `TickLinks`), and
  its constant `Account` are the customers. `Spec`, `Next`, `vars` are those of `SignIn`; its own are `AccountsSpec` and so on.
  `SignInAsSpecified` is the refinement.

### AdminAccess

`Login` copies the role of the row into the claims; `StartRefresh`, `FindRevoked`, `CommitRefresh` copy them from
claims to claims; `StartLogout`, `CommitLogout` end a refresh token. `StartCreate`, `StartUpdate` and `StartDelete`
(together `StartWrite`) are the guards of a request (role claim, own account, existence), the `Commit...` actions its
write. `Restart` seeds `admin_email` again; `Prune` is the prune job.

* `row[a]` is the row, `pair[k]` the claims of a pair; `parent` and `granted` are histories.
* There are no families: a reused token burns nothing. The lockout before a password is accepted is `SignIn`.

### KeyRotation

The cipher (`Opens`, `IsCurrent`, `Seal`), the routes of the provider configurations (`Configurations`: `CreateProvider`,
`StartUpdate`/`CommitUpdate` with `Merge`) and of the connections (`Connections`: `Connect`, `Disconnect`, `StartUse` and then
`UseAsLoaded` or `PersistRefreshedToken`), the re-encryption (`StartReencrypt`/`CommitConfigs` here,
`LoadTokens`/`CommitTokens` in customer-service), the status (`StartStatus`, `AskCustomers`), the request that ends without
a write (`GiveUp`), and the operator (`RotateKey`, `DropPrevious` once the portal shows the check mark, `Restart` of a
service). `CheckMark` is what the security page of the admin portal computes from the two halves of the status; `Served` is what
image-processing gets. `TokenMaintenance` are the steps that admin-service asks of customer-service.

* `env` is what the environment says, `keys[s]` what service `s` read at its start: they differ between a change and a restart.
* A sealed value is its key and its plaintext; a token is as granted, lost (`""`) or sealed twice.
* `wanted` is what the edits of a provider add up to; `contested` are the providers written by a request that had loaded the row
  before somebody else wrote it, for which a lost update is what the code does.
* `told`: the page shows the mark. `heard`: it does, and a customer-service with the current key had answered; `AskCustomers` may
  count 0 of 0 instead at any time. `misled`: previous keys were dropped while the mark was shown and not heard. The last two are
  histories.
* A row in the clear (`key = None`) is neither counted by `rotation_status` nor sealed by the re-encryption of configurations;
  the re-encryption of tokens does seal it.
* Switching encryption off, the v1 ciphertext and mock connections are left out.

### ImageProcessing

`Receive`, `Fetch` (a file of a connection), `Resolve`, `Store`, `InsertRows`, `CallReturns` once per provider, `CommitImage`, `Refresh`,
`Close`: the steps of the coroutine between two awaits. `loop` is the coroutine that keeps the event loop because it
waits, synchronously, for a connection of the pool; until it has one or `PoolTimeout` raises, no other coroutine
goes on. `reader` are the threads of the reading routes, on the same pool. `GatewayTimeout` answers 502 while
the coroutine continues, `RestartImages` replaces the process, `SetEnabled` is an admin's edit.

* `Selections` are what the cascade may select: the enabled ones of the wish, in any order, since the calls go by the rows and the
  relationship that reads them back has no `order_by`. Without a wish it is all that are enabled, in any order.
* What a provider answers is a success or an error: ai-adapters turns every failure into an error.
* `allowed` is a history: what was enabled at some time between the arrival and the resolution.

### Subscriptions

An administrator's request is a read (`StartCreate`, `StartUpdate`, `StartAssign`) and a write (`CommitCreate`, `CommitUpdate`,
`CommitAssign`), or ends in between (`FailAdmin`). `Patched` is what SQLAlchemy makes of `update_plan`: the UPDATE sets the fields
that the body names and that differ from what was loaded. `Restart` seeds the default plans again, by name (`Seeds`). kb-service and
customer-service look a plan up in two SELECTs, `StartCreateKb` or `StartBill` and then `ReadPlan`, or get no answer
(`LookupFails`); the first goes on with `InsertKb` or `RefuseKb`, the second with `ComputeBill`, whose `Unpriced` stacks are what
is used and charged at 0.0. `DeleteKb` and `Abandon` complete them.

* `stale` and `outgrown` are histories: lookups whose customer's offer changed under them, and stacks with KBs that the plan has
  stopped listing, or that were let in by such a lookup.
* A plan has a name, the stacks it prices and a quota. Prices are told apart only by being there: the only arithmetic on
  them is a sum.
* `create_kb` resumes from its lookup without another await, so that stack, count and INSERT are one action.
* `MaxOpen` and `MaxKbs` bound the requests under way and the KBs of a customer.

### Edge and Quota

`Arrive` is a request at a gateway. It is counted in memory (`MemoryCount`, with the cleanup `Swept`), or in Redis in as many
steps as that has: `SendIncr`, `Incr` at Redis, `Reply`, `Expire` at Redis, `Settle`. `Degrade` is any of them failing or late:
the request is then counted in memory after all. A sign-in path has a second key (`Decide`). `Finish` ends a request; `Restart`,
`RedisRestart` lose counters, `Tick` passes time and expires keys. A CSP report that passed is posted (`Post`) to a thread of
admin-service: `FindRow`, then `Bump` or `Insert`, or `FailIngest`; `PruneCsp` is the prune job.

* `granted` counts what each counter let pass, `posted` and `crowd` the reports and the most that were under way at once:
  histories. No code compares `granted` with a limit; that the counts have the effect is what is checked.
* `Claims` is a set of pairs, one for each report that a row of a fingerprint counts; its size is the sum of the counts.
* Counts above the limit are not told apart (`Up`), so that refused requests do not grow the state.
* `Patience` is the time-out of the Redis client. `SpanAssumption` has it no longer than a window, as it is (2 s and 60 s).
* `Quota` has `Admit` and `Forget`, and nothing of how a counter comes to its number.

## 3. Runs

Every run is a configuration of the MC module of its component. The bounds are the sizes of the
constant sets; where names (tokens, attempts, KBs, jobs) run out, or where no client sends a request,
the model stops, so all runs set `CHECK_DEADLOCK FALSE`. Requests that wait for one another are found
by the liveness properties.

| run | question | bounds |
|---|---|---|
| `refresh_tokens` | do spent tokens stay denied, are revocations seen, are burned families dead, is every request answered? | 2 requests, 2 tokens of 1 family, lifetime 2, time to 3 |
| `billing_safety` | do runs have their invoices and list only what was invoiced? do all charges of a customer go to one Stripe customer of his, whatever others put into their settings? | 2 customers of whom 1 edits, sweep and a user, 1 line, 2 Stripe customers and an unknown id, 2 attempts, 2 months, all failures, lost answers and restarts |
| `billing_threads` | is a settled month closed? is everyone billed? | 1 customer, sweep and a user, 1 line, 2 Stripe customers, 3 attempts, 2 months, lookups and Customer.create fail |
| `kb_ingest` | no double documents; has each its vector; how far may `doc_count` and the quota be off when ingests overlap; is no job dropped? | pgvector KB, 3 generations, plan of 1, 2 coroutines, a job, a deletion, restarts |
| `kb_deletes` | what may an ingest without a plan add? does a deletion without a concurrent ingest leave nothing? | a pgvector and an external KB in a group, 1 generation, plan of 0, 1 coroutine, 2 deletions, failing lookups, writes and deletes in the backend |
| `sign_in` | how many guesses pass? is an unlock heeded? does knocking prolong a lock, and does it end? | 1 account, 2 threads, 4 failures, threshold 2, window 2, slack 1 |
| `accounts` | does a link work once? who changes a row? is sign-in as `SignIn` says? | 1 customer, 2 threads, 2 passwords, 2 links, link life 2, threshold 1, window 1 |
| `admin_access` | is a spent admin token dead? where does a role come from? how is the last superadmin lost? | 2 admins, 3 pairs, 2 requests, lifetimes 1, time to 1 |
| `key_rotation` | what does the check mark say? do tokens and settings survive? | 2 keys, 1 provider with 1 field, 2 connections, 2 workers, a customer-service that may not answer or be restarted late |
| `images` | are only enabled providers called? is what is stored, and what was called created, whole? is everyone answered? | 2 uploads, 1 reader, 2 providers, no wish or both, a pool of 1 |
| `subscriptions` | is the gate the plan's? is what it let in priced? do edits survive? | 2 administrators, 2 lookups, 2 of them under way at once, 2 plans of which 1 is seeded, 4 bodies, 1 customer, 2 stacks, 2 KBs |
| `edge` | does every counter keep to the limit? do racing CSP reports multiply? | 1 gateway, 1 client, 2 requests, limits of 1, window 1, patience 1, time to 2, 1 bucket in memory, 2 reports of 1 violation, 2 threads |

Two requests suffice for the races, which are all of the form *A reads, B reads and writes, A writes*; a second token
is the rotation of the first, which reuses and burns can then follow; two months let an attempt that
began in one end in the other; three attempts are one that fails, its retry and one more. Of two customers one edits and the
other is the one that properties speak of; two Stripe customers are one of each, or the one whose answer was lost and the next.
Three generations and a plan of one let two overlapping ingests pass the quota and a third meet it; a plan of zero lets a
document be there only by an ingest without a plan.
Two keys are a rotation, from no key or the first one; two admins are a superadmin and one who is
created, promoted or deleted, and three pairs a login of each and a refresh; a pool of one makes every coroutine wait for every
other. Two plans are the seeded one and one beside it, which an edit can give the other's name; a limit of one is passed by the
second request, and the time lets a window end while a request is between INCR and EXPIRE.
Symmetry is used where only invariants and action properties are checked, over sets whose members the
module never orders or distinguishes.

Every property of these runs has a mutant: a plausible change of a mapped definition that the run
refutes.

### Where the code does less than it says

The passing runs are restricted where the code is. Lifting a restriction refutes the property, in the same
modules; some of these disagree with a sentence of the repository:

| property | restriction | what happens without it |
|---|---|---|
| `BurnedFamilyIsDead` | until the token that burned the family expires | the family marker has the expiry of the presented token (`auth_facade.py:176`) and is pruned while younger tokens of the family are valid; `revoked_token_dao.py:83-84` promises that every descendant is rejected "from then on" |
| `SettledMonthIsClosed` | when no attempt is on its way | a user's charge and the sweep both read the guard before either records its run (`payments_facade.py:149`): the month is invoiced twice; `README.md:103-105` calls the charge idempotent |
| `SettledMonthIsClosed` | invoice calls do not fail, no restart | an item created before a failure stays pending, and the retry creates it again (`stripe_service.py:121`; `main.py:77-78` relies on a re-run being safe) |
| `RunLinesInvoiced` | on *an* invoice to the same Stripe customer | the invoice of one charge collects the items of another, and the other's is empty |
| `OneStripeCustomer`, `ChargesStayWithCustomer` | a customer whose settings nobody edits | the body of PUT /me/payments is stored as it is (`payment_dao.py:33`), `stripe_customer_id` included. An edit without it makes the next use create another customer, and the earlier charges stay on the first; an edit that names another id sends the charges there |
| `OneStripeCustomer` | speaks of charges, not of what Stripe has | a Customer.create whose answer is lost is taken for a failure (`stripe_service.py:92-96`), and so is lost by a process that ends before the commit: Stripe keeps a customer that nobody knows of, without charges, and the next use creates another |
| `QuietDeleteLeavesNothing` | no ingest at the same time | an ingest writes to the external store after the deletion purged it; `README.md:85-86` says that the vectors are removed |
| `QuotaStopsIngest` | one quota more per outdated count, and without limit what was added without a plan | two ingests use the same rest of the quota, and the `doc_count` that the later one sets has lost the other's documents, for which the next ingest has room again; a failed plan lookup means no limit. `README.md` says that ingest stops at `max_docs_per_kb` |
| `DocCountIsExact` | until a count is set from an outdated one | an update of `doc_count` is lost |
| `JobsNotDropped` | except with its KB or by a restart | a job whose KB is deleted before the ingest commits cannot record the error: the session refuses the second commit (`kb_facade.py:203`), and the job stays "running", as does one whose process ended |
| `GuessesBounded` | one guess more per concurrent thread | the count and the row of a failure are two statements |
| `UsedLinkIsDead` | requests that began after the first use | two overlapping requests with one link both succeed: the second finds the row in `revoke` and changes the password all the same (`auth_facade.py:261`) |
| `RoleFromLogin`, `SpentRefreshIsDead` | say what holds | a demoted or deleted admin keeps the role of the login through every refresh, and reuse of a refresh token burns nothing |
| `LastSuperadminFallsToStaleClaim` | says what holds | two superadmins who demote each other leave none: each request's claim outlives the row |
| `VerdictIsTrue`, `TokensSurvive` | for tokens: when a customer-service with the current key had answered | when customer-service does not answer, its part counts as 0 of 0 (`maintenance_service.py:27-38`), and before it is restarted it compares with the old key: the portal shows "All secrets are under the current key", the previous key may be dropped under tokens that need it, and the next re-encryption stores what no longer opens as the empty token (`connections_facade.py:383`) |
| `VerdictIsTrue` | of what is sealed | rows in the clear pass under that sentence: `crypto.py:19` says that plaintext counts as "not current", but `rotation_status` passes over it (`providers_facade.py:141`, and so for tokens), and `reencrypt_configs` does not seal it (`providers_facade.py:122`) |
| `EditsSurvive` | not for contested rows | a re-encryption that loaded a row before an edit and commits after it undoes the edit |
| `OnlyEnabledCalled` | enabled at some time since the upload | a provider disabled after the resolution is still called |
| `StoredWhole` | in one direction | an image is stored without a row when anything fails after the upload to storage |
| `UploadsAnswered` | any answer | the gateway's 502 after 120 s may stand for an upload that is completed later (the calls are sequential, 60 s each), and so may the 500 of a `refresh` that got no connection after the commit |
| `GateHolds`, `AdmittedIsBilled` | unless the plan was edited or reassigned between the lookup and its use | the KB is admitted under the old plan and is not priced by the new one: a stack that a plan no longer lists is billed at 0.0; an assignment and its plan are two SELECTs |
| `EditsAreNamed` | speaks of fields, not of bodies | an UPDATE skips the fields that were loaded with the value they are given, so two concurrent PATCHes may leave a mixture of both; and the seed goes by name: it adds a default again whose row was renamed, beside other plans, where `seed.py:35-36` says that plans are seeded "only when no plan exists" |
| `CspTableBounded` | as many rows as reports were under way at once | the index on the fingerprint is not unique: first reports that race leave several rows, and later ones count in one of them |
| `LimiterKeepsQuota` | per counter | a client gets through (gateways + 1) times as often as the limit says: each gateway's memory and Redis count by themselves |

Within the restrictions they say how far the guarantees go: a month that is settled and has no attempt
on its way is not charged again (`SettledMonthIsClosed`), a deletion without a concurrent ingest is
complete (`QuietDeleteLeavesNothing`), and with any number of ingests counts err only downwards
(`NeverOvercounts`), by what outdated counts have lost (`DocCountIsExact`), which bounds what the quota lets in
(`QuotaStopsIngest`).

Two properties show less than their hazard asks. `EventuallyBilled` is checked with one customer: that a failing charge
does not keep the sweep from the others is how `Takes` is written after `main.py:88-103`, not a result. `JobsNotDropped` and
`QuietDeleteLeavesNothing` exempt the cases in which the code does lose something, as the table says.

### Fairness

Liveness is checked under the fairness the scheduling justifies, and never for the clients: nobody has to send
a request.

* `RefreshTokens`: weak fairness of a running request's statements (its thread goes on); strong fairness of
  an INSERT that waits for another transaction, since PostgreSQL wakes the waiter when that one ends and it may
  have to wait again. When the tokens of the model are used up, a refresh that cannot issue gives up.
* `Billing`: weak fairness of the sweep's start and of each thread's next step. Strong fairness of a wait for
  the settings row, and of the lookups and of Customer.create *succeeding*: they may fail any number of
  times but not for ever. Restarts and failures of the invoice calls are not in that run: each uses up an
  attempt's name, of which the model has three.
* `SignIn`: time passes, and a thread that began a request carries it on.
* `ImageProcessing`: strong fairness of each coroutine's next step (calls have time-outs, the loop serves every coroutine in
  turn) and weak fairness of the reading threads. Not of `GatewayTimeout`, so that the answer is the service's own or a
  restart's.

### Refinement

`Accounts` implements the `SignIn` that it extends (`SignInAsSpecified`): whatever accounts, passwords, links and
unlocks do, the failures, floors and counts move only as `SignIn` allows, so that what is checked of `SignIn` holds for
customers. `Edge` implements `Quota` with `used <- granted` (`LimiterKeepsQuota`): each memory and Redis by itself admits no
more than a limit, although INCR and EXPIRE are two calls, answers come late or not at all, and buckets are cleaned up. Both
refinements are model-checked and proved.

## 4. Proofs

The proofs hold for all values of the constants under the named assumptions of the modules, which TLC
evaluates in the runs: for any sizes of the sets (finite only where an argument counts, as generations, failed
attempts and threads) and any lifetimes and bounds on the clock. Where a theorem has a hypothesis of its own, it is the
restriction of section 3 under which the property is true, and the run of that property satisfies it.

### RefreshTokensProofs

`TypeCorrect`, `SpentTokens` (`SpentTokensStayDenied`), `RevocationSeen`
(`RevocationSeenByLaterRefresh`) and `BurnedFamily` (`BurnedFamilyIsDead`). None is inductive by itself. `IInv` adds

* `RequestShape`: what a request at a step presents: an issued token, and the rows it holds;
* `OneWriterPerKey`: what the unique index gives, that a flushed row is nobody else's and not there yet;
* `RowExpiresWithToken`, `MarkerExpiresWithBurner`: a row carries the expiry of the token it denies, a marker that of a
  token that burned the family. This is what turns "the row is gone" (pruned) into "the token has expired";
* `HistoryIssued`: the histories name issued tokens;
* `SpendingIsDenied`: a request that is about to rotate or end a token holds or has found its row;
* `BurningIsBurned`: a request about to commit a burn holds or has found the marker;
* `DenialsStand`: the rows that denied a token when its request began are still there, or expired; a request past
  the check has none that has not.

One lemma per action shows that it keeps `IInv`; `NextIInv` puts them together. `NoDeadlock` is the safety core of
`RequestsFinish`: the token's row is inserted before the family's by everybody, so that a chain of requests waiting at the unique
index (`WaitsFor`) ends after two, and nobody waits in a cycle. `BurnedFamily` says just what holds: until a
token that burned the family expires; section 3 says what happens beyond that.

### BillingProofs

`TypeCorrect`, `RunBacked` (`RunHasInvoice`) and `OwnCharges` (`ChargesStayWithCustomer`) are read off `IInv`, for
any number of users, customers, lines and months, with every failure and with edits that name any Stripe id. `IInv` adds

* `RequestShape`: what a call knows at each step: its attempt started and is for its customer, its Stripe customer was created for
  that customer if he is not an editor, and the invoice it finalizes and records goes to that Stripe customer;
* `OwnAttempt`: no two calls carry one attempt;
* `NothingSentBefore`: until its first item, Stripe has nothing of an attempt;
* `SettingsBelong`, `ItemsBelong`, `InvoicesBelong`: of a customer who is not an editor, the stored Stripe customer and those that
  have his items, pending or invoiced, were created for him. An editor's items may be on the same Stripe customer, as an
  editor may name it.

`OneCustomer` proves `OneStripeCustomer`, with restarts and lost answers as well. `OneInv` follows the settings row of a customer
who is not an editor: the thread that inserted it is the only one that can be at Customer.create without an id (`HoldsRow`,
`RowIsHeld`), and a committed row has its id (`RowHasId`). So the row is committed once, and stays. `ChargeInv` says that whoever
charges uses the id of the committed row (`UsesSettings`), and so what is pending (`PendingOn`) or invoiced (`InvoicedOn`)
is on it. A Stripe customer that was lost between Customer.create and the commit never gets a charge, because charges
come after the commit.

`NoDeadlock`: a call waits for another's settings row only before it has one, so that whoever is waited for
does not wait for a row (`RowWaitsEnd`). It is what `EventuallyBilled` needs of the locks.

`LinesBilled` proves `RunLinesInvoiced`. `LinesInv` follows each line of a running charge: it is in the list
of what is still to be sent, pending on the Stripe customer that the charge uses, or on an invoice to that, and it
is there once the charge finalizes, whatever the settings name by then. What is pending may be swept onto another charge's invoice,
so that only *an* invoice can be promised.

`MonthsStayClosed` proves `SettledMonthIsClosed` if no item or invoice call fails and no process is lost
(`Failures \cap {"item", "invoice", "crash"} = {}`); each of these leaves items behind that a later charge invoices. Under that
hypothesis everything pending at Stripe is of a call that is at its items (`PendingInFlight`), a recorded run turns every new
charge of its month away, and so nobody is left who could invoice an item of a settled month. Settings may be
edited meanwhile, and lookups may fail.

### KnowledgeBaseProofs

`TypeCorrect`, `NoDuplicates` (`NoDuplicateDocs`), `DocsHaveVectors` (`SqlDocHasVector`), `Overcounts` (`NeverOvercounts`),
`QuietDeletes` (`QuietDeleteLeavesNothing`), `JobsKept` (`JobsNotDropped`), for any number of coroutines and deletions and with
every failure. `IInv` is

* `Shapes`: what a coroutine or a deletion knows at each step; `OneHolder`, that a coroutine between two statements without
  an await is the only one that runs, is why an ingest's check of a document still stands when it adds it;
* `Catalogue`: what an ingest has added and not committed is new (`AddedIsNew`); every vector is of a document
  (`VectorsHaveDocs`), and a deletion that has taken one has taken the document with it, or is about to (`TakenTogether`), which is
  why a document that a deletion leaves behind keeps its vector;
* `Counts`: a KB counts, and an ingest has read, no more than there is;
* `QuietKbs`: while a KB is being deleted without an ingest, the deletion has taken all that there is of it.

`ExactDocCounts` (`DocCountIsExact`) and `QuotaHolds` (`QuotaStopsIngest`) are about any number of ingests, with every failure.
`ExactCounts` is inductive with `IInv`: a commit adds as many documents as it adds to the count it has read, so only one that finds
another count, and is then an overwrite, makes the two differ. For the quota, an ingest that has got the plan adds no more than
the plan allowed beyond the count it had read (`WithinPlan`), so the count it sets is within the quota, and what it overwrites
had counted at most a quota of documents. `Fits` says so for each KB: there are at most `unplanned` documents, a quota for each
overwrite, and those that the present count still counts, of which no more than a quota matter (`Within`).

### AccountsProofs

The theorems about `SignIn` come first and speak of its own specification, so that they hold of every sign-in, admin-service's
included: `SignInTypes` is the type invariant. `Heeded` (`UnlockHeeded`) and `NotProlonged` (`LockNotProlonged`) follow from
`FloorsAreOld`: the floor that an attempt has read is no later than the last unlock and no earlier than the last one before it.
`Guesses` (`GuessesBounded`) is a counting argument: `GuessesToCome` adds the attempts that have passed the threshold to the
failures in the window, and the sum stays below the threshold and one for each thread, since what an attempt counts contains
what failed recently. It needs finitely many threads and failures (`FiniteAssumption`).

`Refinement` is `SignInAsSpecified`: each action of `Accounts` is one of `SignIn` or leaves its variables alone;
`CustomerGuesses` is what it carries over. `DeadLinks` (`UsedLinkIsDead`) holds because a link that was used is denied by its
row or, once that is pruned, by its age (`UsedIsDenied`), and no request past the check presents one that was used when it began
(`RequestShape`). `OwnLinks` (`ChangedByOwnLink`) follows from a request keeping the claims it decoded.

### AdminAccessProofs

`TypeCorrect`, `SpentRefresh` (`SpentRefreshIsDead`), `Roles` (`RoleFromLogin`), `LastSuperadmin`
(`LastSuperadminFallsToStaleClaim`). A pair whose refresh token was used is revoked or has expired (`SpentIsDenied`), what issued a
pair was itself issued (`ParentsIssued`), and a write of a role or a deletion is never aimed at its own actor
(`RequestShape`): the last superadmin therefore falls to somebody else, who is none, by a claim that is older than the row.

### SubscriptionsProofs

`Gate` (`GateHolds`), `Billed` (`AdmittedIsBilled`), `Edits` (`EditsAreNamed`). A customer's plan exists, since no code deletes one
(`AssignedExists`); a lookup that no edit has overtaken shows what the plan says now (`FreshLookup`), from which the gate is
read off; and every KB is in a stack that the plan lists or is outgrown (`KbsListed`), from which, with the first, the bill is.

### EdgeProofs

`QuotaKept` (`LimiterKeepsQuota`) and, from it, `NoCounterExceeds`: no counter is ever above a limit. `IInv` says that as long as
a bucket can be counted in, its count is no less than what was granted. For a memory that is the bucket of this window
(`MemoryCovers`), which the cleanup spares. A bucket of Redis can be counted in for longer: an INCR sent at the end of its
window may run up to `Patience` later (`RedisCovers`), and the key has to live until then (`LivesLongEnough`). A key's expiry is set
at some time of its window or after, so that a lifetime of `2 * Span` reaches the end of the next window, and
`Patience <= Span` does not go beyond it. With a lifetime of one window the theorem is false, as the mutant `OneWindow` shows.

`CspBounded` (`CspTableBounded`) counts. A thread that found no row will insert one, so it is as good as a row
(`Cardinality(RowsOf(f)) + Cardinality(Inserting(f)) <= crowd[f]`). The claims are harder: threads write back counts that others
have passed, so a count can fall and then rise by more than one. `CspInv` therefore bounds the counts that a row has *or had when a
thread that is to bump it looked* (`Claimed`), together with the threads under way, by what was posted.

The image service behind the gateway is proved about in the same module, with any uploads, readers, providers, wishes and pool
(uploads, readers and providers finite). `ImagesInv` says what a coroutine has done and holds at each step (`Carried`): what it
selected was enabled after its upload arrived, it reaches the INSERT only with a provider and a stored image, it has as many
answers as it has called providers, and it has no connection while it waits for one. `EnabledCalled` (`OnlyEnabledCalled`) rests on
`SelectionsEnabled`, which takes the orders of a selection as functions on `1..n`, so that nothing about them is recursive;
`Whole` (`StoredWhole`) on the coroutine being the only writer of its rows. `WaitsForOthers` counts: connections held by uploads
and by readers are never more than the pool (`PoolKept`), and whoever keeps the event loop waiting has none itself, so that
somebody else holds what it waits for. It does not say that the wait ends by itself: an upload that holds a connection needs
the loop to go on, and it takes `pool_timeout` to free it, which is what the mutant of `UploadsAnswered` removes.

### KeyRotationProofs

`TypeCorrect`, `Edits` (`EditsSurvive`), `Tokens` (`TokensSurvive`) and `Verdict` (`VerdictIsTrue`), for any keys, rows, requests and
rotations.

`Edits` has no hypothesis: it holds when customer-service is down and when the operator asks too early. `AdminInv` says that every
config opens with the keys that admin-service has *and* with those it would have after a restart (`ConfigsOpen`), that its
plaintext is what was wanted (`ConfigsRight`), and that what a request has loaded is still stored, unless somebody has written it
since (`LoadedFresh`): a write of such a row is then the merge of the edit with what was wanted. What keeps `ConfigsOpen` when
previous keys are dropped is the half of the verdict that admin-service gives about itself (`VerdictAdmin`), and what a status has
counted clean stays clean as long as admin-service runs with the current key, since it seals with nothing else (`StatusAdmin`).

`Tokens` and `Verdict` have no hypothesis either; what they promise of tokens depends on whether customer-service had a part in the
mark. `CustInv` is the same for tokens, and one thing more: the two halves of a status are answered by two processes. When the
second is answered with the current key, customer-service runs with it and counts what is stored, and it writes with
nothing else as long as the mark is shown, since only a new rotation changes the key (`VerdictCust`). What tokens open with is
kept until previous keys are dropped on a mark that was not heard (`~misled`): the keys of a running customer-service and of one
that starts (`TokensRight`). Loaded tokens are held by customer-service only (`LoadedThere`), so its
restart, after which it might no longer open them, ends their requests (`LoadedOpen`).

All steps that only read are proved together: whatever a request holds right after it has read the tables is `Fresh`.

### Only model-checked

Liveness (`RequestsFinish`, `EventuallyBilled`, `LockEnds`, `UploadsAnswered`) needs ENABLED and is out of the prover's
reach; of three of them the waits are proved to have no cycle or to be for others (`NoDeadlock` twice, `WaitsForOthers`).
All other properties of the runs are theorems. One has a hypothesis: `SettledMonthIsClosed` is proved where no item or
invoice call fails and no process is lost.

## 5. Not modelled

* **gateway**: the routing table, the size limit, headers and the check of the token at the edge, which keep no state.
* **admin-service**: the revenue rollup, lists and the CSP dashboard, which only read; directories and analytics, which show what
  other services answer.
* **customer-service**: profile, preferences and projects, single-row reads and writes without a protocol; mock
  connections.
* **kb-service**: embedding and ranking, which are numeric and read-only; queries.
* **ai-adapters, libs**: the SDK calls, and lookups with a fall-back result; they keep no state.
* **portals**: TypeScript user interface, but for the check mark of the security page and what it tells the operator to do, which
  are part of `KeyRotation`. The interceptor is a client of `RefreshTokens`, which may send its requests in any order:
  two calls that meet a 401 together present one refresh token, which the server takes for a reuse.
* **shared**: logging, observability, and the storage clients but for the outcome of a write (`Save` in `ImageProcessing`). Sessions, token expiry, the cipher and the periodic jobs are part of the
  modules that use them.
* **deployment, migrations, CI**: what they fix (replica counts, unique indexes) is assumed by the modules as said above;
  customers are never deleted, since no code deletes them.
