------------------------------- MODULE Edge --------------------------------
(***************************************************************************)
(* The gateway's rate limiter, and the CSP reports it lets through to      *)
(* admin-service.                                                          *)
(*                                                                         *)
(* A request is counted before anything else, against the general key of   *)
(* its client and, on the sign-in paths, against a second, tighter one.    *)
(* A gateway counts in its own memory, or in Redis as long as that answers:*)
(* INCR and EXPIRE are two calls, each may time out before or after it     *)
(* took effect, and a request that meets an error is counted in memory     *)
(* after all.  A CSP report that passes is posted to admin-service, which  *)
(* looks its fingerprint up and bumps the row or inserts one.              *)
(***************************************************************************)
EXTENDS Naturals, FiniteSets, Sequences

CONSTANTS
  Gateway,          \* gateway processes
  Client,           \* token subjects and addresses
  Req,              \* requests under way in the gateways
  Kinds,            \* the kinds of requests that arrive
  Budget,           \* limits: rate_limit_rpm and auth_rate_limit_rpm
  MaxBuckets,       \* buckets in memory above which old windows are dropped
  Span,             \* ticks in a window
  Patience,         \* socket timeout of the Redis client, in ticks
  MaxTime,          \* bound on the clock
  Fingerprint,
  MaxPosts,         \* bound on the reports of a fingerprint
  MaxArrivals,      \* bound on the requests in a behaviour
  Worker,           \* request threads of admin-service
  Redis, Never, None

ASSUME RedisAssumption == Redis \notin Gateway
ASSUME KindAssumption == Kinds \subseteq {"plain", "auth", "csp"}
ASSUME BudgetAssumption == Budget \in [{"general", "auth"} -> Nat \ {0}]
ASSUME SpanAssumption == Span \in Nat \ {0} /\ Patience \in Nat /\ Patience <= Span
ASSUME BoundAssumption == {MaxTime, MaxPosts, MaxArrivals} \subseteq Nat
ASSUME WorkerAssumption == IsFiniteSet(Worker)
ASSUME NoFingerprint == None \notin Fingerprint

VARIABLES
  now,
  linked,     \* gateways that count in Redis (RATELIMIT_BACKEND, and the client)
  local,      \* local[g]: counts of MemoryRateLimiter by bucket
  redis,      \* redis[b]: a counter in Redis and when it expires
  req,        \* req[r]: the request that r runs
  arrived,    \* how many requests have arrived
  granted,    \* history: how often each counter let a request pass, by bucket
  rows,       \* csp_violations in order of insertion; Gone for a pruned row
  worker,     \* worker[t]: the ingest that thread t of admin-service runs
  posted,     \* history: reports of a fingerprint that were posted
  crowd       \* history: the most of them that were ever under way at once

limiter == <<now, linked, local, redis, granted>>
csp     == <<rows, worker, posted, crowd>>
vars    == <<limiter, req, arrived, csp>>

Key     == {"general", "auth"} \X Client
Window  == 0 .. MaxTime \div Span
Bucket  == Key \X Window
Limit   == [k \in Key |-> Budget[k[1]]]
Counter == Gateway \cup {Redis}

Request == [step: {"idle", "count", "incr", "reply", "expire", "settle",
                   "forward"},
            at: Gateway \cup {None}, kind: Kinds \cup {"none"},
            key: Key \cup {None}, sent: 0..MaxTime,
            count: Nat]
Idle == [step |-> "idle", at |-> None, kind |-> "none", key |-> None,
         sent |-> 0, count |-> 0]

Row    == [fingerprint: Fingerprint, count: Nat]
Gone   == [fingerprint |-> None, count |-> 0]
Ingest == [step: {"idle", "find", "bump", "insert"},
           fingerprint: Fingerprint \cup {None}, row: Nat, saw: Nat]
Rest   == [step |-> "idle", fingerprint |-> None, row |-> 0, saw |-> 0]

Empty == [b \in Bucket |-> 0]
NoKey == [count |-> 0, dies |-> Never]

TypeOK ==
  /\ now \in 0..MaxTime
  /\ linked \subseteq Gateway
  /\ local \in [Gateway -> [Bucket -> Nat]]
  /\ redis \in [Bucket -> [count: Nat, dies: Nat \cup {Never}]]
  /\ req \in [Req -> Request]
  /\ arrived \in 0..MaxArrivals
  /\ granted \in [Counter -> [Bucket -> Nat]]
  /\ rows \in Seq(Row \cup {Gone})
  /\ worker \in [Worker -> Ingest]
  /\ posted \in [Fingerprint -> Nat]
  /\ crowd \in [Fingerprint -> Nat]

Init ==
  /\ now = 0
  /\ linked \in SUBSET Gateway
  /\ local = [g \in Gateway |-> Empty]
  /\ redis = [b \in Bucket |-> NoKey]
  /\ req = [r \in Req |-> Idle]
  /\ arrived = 0
  /\ granted = [c \in Counter |-> Empty]
  /\ rows = <<>>
  /\ worker = [t \in Worker |-> Rest]
  /\ posted = [f \in Fingerprint |-> 0]
  /\ crowd = [f \in Fingerprint |-> 0]

-----------------------------------------------------------------------------
At(r, s)     == req[r].step = s
Answer(r)    == req' = [req EXCEPT ![r] = Idle]
WindowAt(t)  == t \div Span
BucketOf(r)  == <<req[r].key, WindowAt(req[r].sent)>>

Over(k, n)   == n > Limit[k]

\* Counts above the limit are not told apart.
Up(k, n)     == IF n > Limit[k] THEN n ELSE n + 1

Arrive(r, g, c, kind) ==
  /\ At(r, "idle") /\ arrived < MaxArrivals
  /\ arrived' = arrived + 1
  /\ req' = [req EXCEPT ![r] =
       [Idle EXCEPT !.step = "count", !.at = g, !.kind = kind,
                    !.key = <<"general", c>>]]
  /\ UNCHANGED <<limiter, csp>>

\* Counter c grants r a pass, if its count n allows one.
Grant(c, b, n) ==
  granted' = IF Over(b[1], n) THEN granted ELSE [granted EXCEPT ![c][b] = @ + 1]

\* 429; or with a pass on to the tighter key of a sign-in path, or to the
\* posting of the reports; the token check and the proxied call that follow
\* else change nothing here.
Decide(r, n) ==
  LET next == CASE req[r].kind = "auth" /\ req[r].key[1] = "general" -> "count"
                [] req[r].kind = "csp"                               -> "forward"
                [] OTHER                                             -> "idle"
  IN
  req' = [req EXCEPT ![r] =
    IF Over(@.key, n) \/ next = "idle" THEN Idle
    ELSE [Idle EXCEPT !.step = next, !.at = req[r].at, !.kind = req[r].kind,
                      !.key = IF next = "count" THEN <<"auth", req[r].key[2]>>
                                                ELSE None]]

\* Opportunistic cleanup: too many buckets, so those of other windows go.
Swept(counts, w) ==
  IF Cardinality({b \in Bucket : counts[b] > 0}) > MaxBuckets
    THEN [b \in Bucket |-> IF b[2] = w THEN counts[b] ELSE 0] ELSE counts

\* MemoryRateLimiter.over_limit, which nothing interrupts.
CountLocally(r) ==
  LET g == req[r].at
      w == WindowAt(now)
      b == <<req[r].key, w>>
      n == Up(b[1], local[g][b])
  IN
  /\ local' = [local EXCEPT ![g] = Swept([@ EXCEPT ![b] = n], w)]
  /\ Grant(g, b, n)
  /\ Decide(r, n)
  /\ UNCHANGED <<now, linked, redis, arrived, csp>>

MemoryCount(r) ==
  /\ At(r, "count") /\ req[r].at \notin linked
  /\ CountLocally(r)

\* RedisRateLimiter.over_limit: the window is the one of the moment INCR is
\* sent.
SendIncr(r) ==
  /\ At(r, "count") /\ req[r].at \in linked
  /\ req' = [req EXCEPT ![r].step = "incr", ![r].sent = now]
  /\ UNCHANGED <<limiter, arrived, csp>>

\* Redis runs the INCR; a key that is not there starts at 1 without an expiry.
\* One that Redis runs after its caller gave up could only raise the count.
Incr(r) ==
  LET b == BucketOf(r)
      n == Up(b[1], redis[b].count)
  IN
  /\ At(r, "incr") /\ now <= req[r].sent + Patience
  /\ redis' = [redis EXCEPT ![b].count = n]
  /\ Grant(Redis, b, n)
  /\ req' = [req EXCEPT ![r].step = "reply", ![r].count = n]
  /\ UNCHANGED <<now, linked, local, arrived, csp>>

\* The reply is in time: the first to count sends EXPIRE, others are decided.
Reply(r) ==
  /\ At(r, "reply") /\ now <= req[r].sent + Patience
  /\ IF req[r].count = 1 THEN req' = [req EXCEPT ![r].step = "expire"]
                         ELSE Decide(r, req[r].count)
  /\ UNCHANGED <<limiter, arrived, csp>>

\* Mutant of Lifetime: the key lives for one window.
OneWindow == Span

Lifetime == 2 * Span

\* Redis runs the EXPIRE, which does nothing to a key that is not there.
Expire(r) ==
  LET b == BucketOf(r) IN
  /\ At(r, "expire")
  /\ redis' = [redis EXCEPT ![b].dies =
       IF redis[b].count = 0 THEN Never ELSE now + Lifetime]
  /\ req' = [req EXCEPT ![r].step = "settle", ![r].sent = 0]
  /\ UNCHANGED <<now, linked, local, granted, arrived, csp>>

Settle(r) ==
  /\ At(r, "settle")
  /\ Decide(r, req[r].count)
  /\ UNCHANGED <<limiter, arrived, csp>>

\* A call to Redis fails or its answer is late: the request is counted in
\* memory instead, in the window of that moment.
Degrade(r) ==
  /\ req[r].step \in {"incr", "reply", "expire", "settle"}
  /\ CountLocally(r)

\* All the reports are posted: 204.
Finish(r) ==
  /\ At(r, "forward")
  /\ Answer(r)
  /\ UNCHANGED <<limiter, arrived, csp>>

\* A gateway restarts: its counters and its requests are gone.
Restart(g) ==
  /\ local' = [local EXCEPT ![g] = Empty]
  /\ granted' = [granted EXCEPT ![g] = Empty]
  /\ req' = [r \in Req |-> IF req[r].at = g THEN Idle ELSE req[r]]
  /\ UNCHANGED <<now, linked, redis, arrived, csp>>

RedisRestart ==
  /\ redis' = [b \in Bucket |-> NoKey]
  /\ granted' = [granted EXCEPT ![Redis] = Empty]
  /\ UNCHANGED <<now, linked, local, req, arrived, csp>>

\* Time passes; Redis drops the keys that expire.
Tick ==
  /\ now < MaxTime
  /\ now' = now + 1
  /\ redis' = [b \in Bucket |->
       IF redis[b].dies # Never /\ redis[b].dies <= now + 1 THEN NoKey ELSE redis[b]]
  /\ UNCHANGED <<linked, local, granted, req, arrived, csp>>

-----------------------------------------------------------------------------
RowsOf(f)    == {i \in DOMAIN rows : rows[i].fingerprint = f}
Working(t, s) == worker[t].step = s
Release(t)   == worker' = [worker EXCEPT ![t] = Rest]

\* csp_report posts the next of its reports; it goes on when admin-service
\* answers or after five seconds, whatever becomes of the report.
Post(r, t, f) ==
  /\ At(r, "forward") /\ req[r].kind = "csp"
  /\ Working(t, "idle") /\ posted[f] < MaxPosts
  /\ worker' = [worker EXCEPT ![t] =
       [Rest EXCEPT !.step = "find", !.fingerprint = f]]
  /\ posted' = [posted EXCEPT ![f] = @ + 1]
  /\ LET n == 1 + Cardinality({x \in Worker : worker[x].fingerprint = f})
     IN crowd' = [crowd EXCEPT ![f] = IF n > @ THEN n ELSE @]
  /\ UNCHANGED <<limiter, req, arrived, rows>>

\* Mutant of FindRow: reports are inserted without a look at what is there.
FindNothing(t) ==
  /\ Working(t, "find")
  /\ worker' = [worker EXCEPT ![t].step = "insert"]
  /\ UNCHANGED <<limiter, req, arrived, rows, posted, crowd>>

\* CspViolationDao.create: SELECT by fingerprint, the first row if several.
FindRow(t) ==
  LET there == RowsOf(worker[t].fingerprint) IN
  /\ Working(t, "find")
  /\ \/ /\ there = {}
        /\ worker' = [worker EXCEPT ![t].step = "insert"]
     \/ \E i \in there :
          worker' = [worker EXCEPT ![t].step = "bump", ![t].row = i,
                                   ![t].saw = rows[i].count]
  /\ UNCHANGED <<limiter, req, arrived, rows, posted, crowd>>

\* UPDATE of the count; of a row pruned meanwhile it is an error.
Bump(t) ==
  LET i == worker[t].row IN
  /\ Working(t, "bump") /\ rows[i] # Gone
  /\ rows' = [rows EXCEPT ![i].count = worker[t].saw + 1]
  /\ Release(t)
  /\ UNCHANGED <<limiter, req, arrived, posted, crowd>>

\* INSERT; the index on the fingerprint is not unique.
Insert(t) ==
  /\ Working(t, "insert")
  /\ rows' = Append(rows, [fingerprint |-> worker[t].fingerprint, count |-> 1])
  /\ Release(t)
  /\ UNCHANGED <<limiter, req, arrived, posted, crowd>>

FailIngest(t) ==
  /\ ~Working(t, "idle")
  /\ Release(t)
  /\ UNCHANGED <<limiter, req, arrived, rows, posted, crowd>>

\* prune_older_than, by the schedule or by an administrator.  The retention is
\* of days and the clock of windows, so which rows are that old is left open.
PruneCsp(old) ==
  /\ rows' = [i \in DOMAIN rows |-> IF i \in old THEN Gone ELSE rows[i]]
  /\ UNCHANGED <<limiter, req, arrived, worker, posted, crowd>>

Limiting(r) ==
  \/ MemoryCount(r) \/ SendIncr(r) \/ Incr(r) \/ Reply(r)
  \/ Expire(r) \/ Settle(r) \/ Degrade(r) \/ Finish(r)

Next ==
  \/ \E r \in Req, g \in Gateway, c \in Client, kind \in Kinds : Arrive(r, g, c, kind)
  \/ \E r \in Req : Limiting(r)
  \/ \E g \in Gateway : Restart(g)
  \/ RedisRestart
  \/ Tick
  \/ \E r \in Req, t \in Worker, f \in Fingerprint : Post(r, t, f)
  \/ \E t \in Worker : FindRow(t) \/ Bump(t) \/ Insert(t) \/ FailIngest(t)
  \/ \E old \in SUBSET DOMAIN rows : PruneCsp(old)

Spec == Init /\ [][Next]_vars

-----------------------------------------------------------------------------
\* Redis and every gateway's memory admit each key at most its limit in each
\* window, whatever is late, lost or counted twice, and however the cleanup
\* and the expiry fall: a client gets through at most (gateways + 1) times as
\* often as the limit says.
PerCounter == INSTANCE Quota WITH used <- granted
LimiterKeepsQuota == PerCounter!Spec

\* The reports that the rows of f claim to stand for, one pair for each.
Claims(f) == UNION {{i} \X (1..rows[i].count) : i \in RowsOf(f)}

\* However many reports of one violation race, they leave at most as many rows
\* as were ever under way at once, so one if they come one by one, and the rows
\* never claim more reports than were posted (dedupe by fingerprint).
CspTableBounded ==
  \A f \in Fingerprint :
    /\ Cardinality(RowsOf(f)) <= crowd[f]
    /\ Cardinality(Claims(f)) <= posted[f]
=============================================================================
