----------------------------- MODULE EdgeProofs -----------------------------
(***************************************************************************)
(* Proofs about Edge, for any gateways, clients, requests, limits, window  *)
(* and time-out no longer than a window: the limiter implements Quota, no  *)
(* counter exceeds a limit; and the table of CSP violations is bounded,    *)
(* for any number of reports and threads.  And about ImageProcessing, the  *)
(* service whose uploads time out at the gateway, for any uploads, readers,*)
(* providers, wishes and pool.                                             *)
(*                                                                         *)
(* Nothing in the code compares what was granted with a limit.  IInv says  *)
(* why the counts do it all the same: as long as a bucket can be counted   *)
(* in, no count is below what its counter granted.  CspInv says what a     *)
(* thread of admin-service that is slow may still add to the table.        *)
(* ImagesInv says what a coroutine of image-processing-service has done    *)
(* and holds at each of its steps.                                         *)
(***************************************************************************)
EXTENDS Edge, ImageProcessing, FiniteSetTheorems, SequenceTheorems, TLAPS

\* The limiter's part of TypeOK.
LimiterTypes ==
  /\ now \in 0..MaxTime
  /\ local \in [Gateway -> [Bucket -> Nat]]
  /\ redis \in [Bucket -> [count: Nat, dies: Nat \cup {Never}]]
  /\ req \in [Req -> Request]
  /\ granted \in [Counter -> [Bucket -> Nat]]

\* A request under way is at a gateway, and until it is decided it has a key.
RequestShape ==
  \A r \in Req :
    /\ req[r].sent <= now
    /\ ~At(r, "idle") => req[r].at \in Gateway
    /\ ~At(r, "idle") /\ ~At(r, "forward") => req[r].key \in Key

\* The end of the last window in which a bucket of Redis may be counted in.
Deadline(b) == (b[2] + 2) * Span

\* A gateway's memory has the bucket of this window, and later ones are unused.
MemoryCovers ==
  \A g \in Gateway, b \in Bucket :
    /\ b[2] = WindowAt(now) => granted[g][b] <= local[g][b]
    /\ b[2] > WindowAt(now) => granted[g][b] = 0

\* Redis has every bucket that is not past its deadline ...
RedisCovers ==
  \A b \in Bucket : now < Deadline(b) => granted[Redis][b] <= redis[b].count

\* ... since no key expires before.
LivesLongEnough ==
  \A b \in Bucket : redis[b].dies # Never => Deadline(b) <= redis[b].dies

IInv ==
  /\ LimiterTypes
  /\ RequestShape
  /\ MemoryCovers
  /\ RedisCovers
  /\ LivesLongEnough

-----------------------------------------------------------------------------
(* Windows                                                                 *)

LEMMA WindowBounds ==
  ASSUME NEW t \in Nat
  PROVE  /\ WindowAt(t) \in Nat
         /\ WindowAt(t) * Span <= t
         /\ t < WindowAt(t) * Span + Span
BY SpanAssumption, SMTT(30) DEF WindowAt

LEMMA WindowOrder ==
  ASSUME NEW t \in Nat, NEW u \in Nat, t <= u
  PROVE  WindowAt(t) <= WindowAt(u)
<1>1. ASSUME NEW a \in Nat, NEW b \in Nat, a * Span <= t, u < b * Span + Span
      PROVE  a <= b
  BY <1>1, SpanAssumption, SMTT(30)
<1> QED
  BY <1>1, WindowBounds

LEMMA WindowInRange ==
  ASSUME NEW t \in 0..MaxTime
  PROVE  WindowAt(t) \in Window
<1>1. t \in Nat /\ MaxTime \in Nat /\ t <= MaxTime
  BY BoundAssumption
<1>2. WindowAt(t) \in Nat /\ WindowAt(MaxTime) \in Nat /\ WindowAt(t) <= WindowAt(MaxTime)
  BY <1>1, WindowBounds, WindowOrder
<1>3. Window = 0 .. WindowAt(MaxTime)
  BY DEF Window, WindowAt
<1> QED
  BY <1>2, <1>3

\* A call that is answered in time falls before the deadline of its bucket,
\* and an expiry set after the call falls behind it.
LEMMA DeadlineBounds ==
  ASSUME NEW k \in Key, NEW s \in Nat, NEW t \in Nat, s <= t
  PROVE  /\ t <= s + Patience => t < Deadline(<<k, WindowAt(s)>>)
         /\ Deadline(<<k, WindowAt(s)>>) <= t + Lifetime
<1> DEFINE w == WindowAt(s)
<1>1. w \in Nat /\ w * Span <= s /\ s < w * Span + Span
  BY WindowBounds
<1>2. Deadline(<<k, w>>) = (w + 2) * Span
  BY DEF Deadline
<1> HIDE DEF w
<1>3. (w + 2) * Span = w * Span + 2 * Span
  BY <1>1, SpanAssumption
<1>4. w * Span \in Nat
  BY <1>1, SpanAssumption
<1>5. /\ t <= s + Patience => t < (w + 2) * Span
      /\ (w + 2) * Span <= t + 2 * Span
  BY <1>1, <1>3, <1>4, SpanAssumption
<1> QED
  BY <1>2, <1>5 DEF w, Lifetime

-----------------------------------------------------------------------------
(* Counting                                                                *)

LEMMA LimitType == Limit \in [Key -> Nat]
BY BudgetAssumption DEF Limit, Key

\* A count that is not over its limit is a larger one than before.
LEMMA Counting ==
  ASSUME NEW k \in Key, NEW n \in Nat
  PROVE  /\ Up(k, n) \in Nat
         /\ n <= Up(k, n)
         /\ ~Over(k, Up(k, n)) => Up(k, n) = n + 1 /\ n < Limit[k]
BY LimitType DEF Up, Over

\* The cleanup leaves the window it is called in alone.
LEMMA SweptKeeps ==
  ASSUME NEW f \in [Bucket -> Nat], NEW w
  PROVE  /\ Swept(f, w) \in [Bucket -> Nat]
         /\ \A b \in Bucket : b[2] = w => Swept(f, w)[b] = f[b]
<1> DEFINE g == [b \in Bucket |-> IF b[2] = w THEN f[b] ELSE 0]
<1>1. g \in [Bucket -> Nat] /\ \A b \in Bucket : b[2] = w => g[b] = f[b]
  OBVIOUS
<1>2. Swept(f, w) = f \/ Swept(f, w) = g
  BY DEF Swept
<1> HIDE DEF g
<1> QED
  BY <1>1, <1>2

\* A request that moves on keeps its shape.
LEMMA RequestKept ==
  ASSUME LimiterTypes, RequestShape, NEW r \in Req, NEW q \in Request,
         req' = [req EXCEPT ![r] = q], now' = now,
         q.sent <= now,
         q.step # "idle" => q.at \in Gateway,
         q.step \notin {"idle", "forward"} => q.key \in Key
  PROVE  req' \in [Req -> Request] /\ RequestShape'
<1>1. req \in [Req -> Request] /\ req' \in [Req -> Request]
  BY DEF LimiterTypes
<1> SUFFICES ASSUME NEW x \in Req
             PROVE  /\ req'[x].sent <= now
                    /\ req'[x].step # "idle" => req'[x].at \in Gateway
                    /\ req'[x].step \notin {"idle", "forward"} => req'[x].key \in Key
  BY <1>1 DEF RequestShape, At
<1>2. CASE x = r
  BY <1>2, <1>1
<1>3. CASE x # r
  BY <1>3, <1>1 DEF RequestShape, At
<1> QED
  BY <1>2, <1>3

\* A request that is counted goes on as a request.
LEMMA DecideShape ==
  ASSUME IInv, NEW r \in Req, NEW n, Decide(r, n),
         ~At(r, "idle"), ~At(r, "forward"), UNCHANGED now
  PROVE  req' \in [Req -> Request] /\ RequestShape'
<1>1. /\ req[r].at \in Gateway /\ req[r].key \in Key
      /\ req[r] \in Request /\ req \in [Req -> Request]
  BY DEF IInv, LimiterTypes, RequestShape
<1>2. <<"auth", req[r].key[2]>> \in Key
  BY <1>1 DEF Key
<1>3. 0 \in 0..MaxTime
  BY BoundAssumption
<1>4. Idle \in Request
  BY <1>3 DEF Idle, Request
<1>5. PICK q \in Request :
        /\ req' = [req EXCEPT ![r] = q]
        /\ q.sent = 0
        /\ q.step \in {"idle", "count", "forward"}
        /\ q.step # "idle" => q.at \in Gateway
        /\ q.step = "count" => q.key \in Key
  <2> DEFINE kd == req[r].kind
             A == [Idle EXCEPT !.step = "count", !.at = req[r].at, !.kind = kd,
                      !.key = <<"auth", req[r].key[2]>>]
             B == [Idle EXCEPT !.step = "forward", !.at = req[r].at, !.kind = kd,
                      !.key = None]
  <2>1. /\ A \in Request /\ A.sent = 0 /\ A.step = "count" /\ A.at \in Gateway /\ A.key \in Key
        /\ B \in Request /\ B.sent = 0 /\ B.step = "forward" /\ B.at \in Gateway
        /\ Idle.sent = 0 /\ Idle.step = "idle"
    BY <1>1, <1>2, <1>3 DEF Idle, Request
  <2>2. \/ req' = [req EXCEPT ![r] = A]
        \/ req' = [req EXCEPT ![r] = B]
        \/ req' = [req EXCEPT ![r] = Idle]
    BY DEF Decide
  <2> HIDE DEF A, B
  <2> QED
    BY <2>1, <2>2, <1>4
<1>6. now' = now /\ 0 <= now /\ LimiterTypes /\ RequestShape
  BY DEF IInv, LimiterTypes
<1> QED
  BY <1>5, <1>6, RequestKept

-----------------------------------------------------------------------------
(* Steps                                                                   *)

LEMMA InitIInv == Init => IInv /\ PerCounter!Init
<1> SUFFICES ASSUME Init PROVE IInv /\ PerCounter!Init
  OBVIOUS
<1>1. 0 \in 0..MaxTime
  BY BoundAssumption
<1>2. Idle \in Request /\ Empty \in [Bucket -> Nat]
  BY <1>1 DEF Idle, Request, Empty
<1>3. LimiterTypes
  BY <1>1, <1>2 DEF Init, LimiterTypes, NoKey
<1>4. RequestShape
  BY <1>1 DEF Init, RequestShape, At, Idle
<1>5. MemoryCovers /\ RedisCovers
  BY DEF Init, MemoryCovers, RedisCovers, Empty, NoKey, Counter
<1>6. LivesLongEnough
  BY DEF Init, LivesLongEnough, NoKey
<1>7. PerCounter!Init
  BY DEF Init, PerCounter!Init, PerCounter!Nothing, PerCounter!Bucket, Empty, Bucket
<1> QED
  BY <1>3, <1>4, <1>5, <1>6, <1>7 DEF IInv

\* A counter that is not over its limit grants what Quota admits.
LEMMA GrantAdmits ==
  ASSUME LimiterTypes, NEW c \in Counter, NEW b \in Bucket, NEW n \in Nat,
         granted[c][b] <= n, Grant(c, b, Up(b[1], n))
  PROVE  /\ granted' \in [Counter -> [Bucket -> Nat]]
         /\ granted'[c][b] <= Up(b[1], n)
         /\ \A d \in Counter, x \in Bucket :
              <<d, x>> # <<c, b>> => granted'[d][x] = granted[d][x]
         /\ [PerCounter!Next]_granted
<1> DEFINE k == b[1]  w == b[2]  m == Up(b[1], n)
<1>1. k \in Key /\ w \in Window /\ b = <<k, w>>
  BY DEF Bucket
<1>2. m \in Nat /\ n <= m /\ (~Over(k, m) => m = n + 1 /\ n < Limit[k])
  BY <1>1, Counting
<1>3. granted \in [Counter -> [Bucket -> Nat]]
  BY DEF LimiterTypes
<1>4. CASE Over(k, m)
  BY <1>2, <1>3, <1>4 DEF Grant
<1>5. CASE ~Over(k, m)
  <2>1. granted' = [granted EXCEPT ![c][b] = @ + 1]
    BY <1>5 DEF Grant
  <2>2. granted[c][b] < Limit[k]
    BY <1>1, <1>2, <1>3, <1>5, LimitType
  <2>3. PerCounter!Admit(c, b)
    BY <1>1, <2>1, <2>2 DEF PerCounter!Admit
  <2>4. PerCounter!Next
    BY <2>3 DEF PerCounter!Next, PerCounter!Bucket, Bucket
  <2> QED
    BY <1>2, <1>3, <1>5, <2>1, <2>4
<1> QED
  BY <1>4, <1>5

LEMMA CountLocallyStep ==
  ASSUME IInv, NEW r \in Req, ~At(r, "idle"), ~At(r, "forward"), CountLocally(r)
  PROVE  IInv' /\ [PerCounter!Next]_granted
<1> DEFINE g == req[r].at  w == WindowAt(now)  b == <<req[r].key, w>>
           old == local[g][b]  new == [local[g] EXCEPT ![b] = Up(b[1], old)]
<1>1. /\ g \in Gateway /\ req[r].key \in Key /\ now \in 0..MaxTime
      /\ LimiterTypes /\ MemoryCovers /\ RedisCovers /\ LivesLongEnough
  BY DEF IInv, LimiterTypes, RequestShape
<1>2. now \in Nat /\ w \in Window /\ w \in Nat
  BY <1>1, WindowInRange, WindowBounds
<1>3. b \in Bucket /\ b[1] = req[r].key /\ b[2] = w /\ g \in Counter /\ g # Redis
  BY <1>1, <1>2, RedisAssumption DEF Bucket, Counter
<1>4. old \in Nat /\ granted[g][b] <= old
  BY <1>1, <1>3 DEF LimiterTypes, MemoryCovers
<1>5. /\ Grant(g, b, Up(b[1], old))
      /\ local' = [local EXCEPT ![g] = Swept(new, w)]
      /\ Decide(r, Up(b[1], old))
      /\ UNCHANGED <<now, redis>>
  BY <1>3 DEF CountLocally
<1> HIDE DEF old, g, w, b
<1>6. /\ granted' \in [Counter -> [Bucket -> Nat]]
      /\ granted'[g][b] <= Up(b[1], old)
      /\ \A d \in Counter, x \in Bucket :
           <<d, x>> # <<g, b>> => granted'[d][x] = granted[d][x]
      /\ [PerCounter!Next]_granted
  BY <1>1, <1>3, <1>4, <1>5, GrantAdmits
<1>7. new \in [Bucket -> Nat] /\ new[b] = Up(b[1], old)
      /\ \A x \in Bucket : x # b => new[x] = local[g][x]
  <2>1. local[g] \in [Bucket -> Nat]
    BY <1>1 DEF LimiterTypes
  <2>2. Up(b[1], old) \in Nat
    BY <1>1, <1>3, <1>4, Counting
  <2> QED
    BY <1>3, <2>1, <2>2
<1> HIDE DEF new
<1>8. Swept(new, w) \in [Bucket -> Nat]
      /\ \A x \in Bucket : x[2] = w => Swept(new, w)[x] = new[x]
  BY <1>7, SweptKeeps
<1>9. req' \in [Req -> Request] /\ RequestShape'
  BY <1>5, DecideShape
<1>10. LimiterTypes'
  BY <1>1, <1>5, <1>6, <1>8, <1>9 DEF LimiterTypes
<1>11. MemoryCovers'
  <2> SUFFICES ASSUME NEW h \in Gateway, NEW x \in Bucket
               PROVE  /\ x[2] = w => granted'[h][x] <= local'[h][x]
                      /\ x[2] > w => granted'[h][x] = 0
    BY <1>5 DEF MemoryCovers, w
  <2>1. CASE h = g /\ x = b
    BY <2>1, <1>1, <1>2, <1>3, <1>5, <1>6, <1>7, <1>8 DEF LimiterTypes
  <2>2. CASE h = g /\ x # b
    BY <2>2, <1>1, <1>3, <1>5, <1>6, <1>7, <1>8 DEF MemoryCovers, LimiterTypes, Counter, w
  <2>3. CASE h # g
    BY <2>3, <1>1, <1>5, <1>6 DEF MemoryCovers, LimiterTypes, Counter, w
  <2> QED
    BY <2>1, <2>2, <2>3
<1>12. RedisCovers'
  BY <1>1, <1>3, <1>5, <1>6 DEF RedisCovers, Counter
<1>13. LivesLongEnough'
  BY <1>1, <1>5 DEF LivesLongEnough
<1> QED
  BY <1>6, <1>9, <1>10, <1>11, <1>12, <1>13 DEF IInv

LEMMA IncrStep ==
  ASSUME IInv, NEW r \in Req, Incr(r)
  PROVE  IInv' /\ [PerCounter!Next]_granted
<1> DEFINE b == BucketOf(r)  old == redis[b].count  n == Up(b[1], old)
<1>1. /\ req[r].key \in Key /\ req[r].sent \in 0..MaxTime /\ req[r].sent <= now
      /\ now \in 0..MaxTime /\ now <= req[r].sent + Patience
      /\ LimiterTypes /\ MemoryCovers /\ RedisCovers /\ LivesLongEnough
  BY DEF IInv, LimiterTypes, RequestShape, Incr, At, Request
<1>2. /\ b \in Bucket /\ b[1] \in Key
      /\ now < Deadline(b)
  BY <1>1, WindowInRange, DeadlineBounds DEF BucketOf, Bucket
<1>3. /\ redis' = [redis EXCEPT ![b].count = n]
      /\ Grant(Redis, b, n)
      /\ req' = [req EXCEPT ![r].step = "reply", ![r].count = n]
      /\ UNCHANGED <<now, local>>
  BY DEF Incr
<1> HIDE DEF b
<1>4. old \in Nat /\ granted[Redis][b] <= old /\ Redis \in Counter
  BY <1>1, <1>2 DEF LimiterTypes, RedisCovers, Counter
<1>5. n \in Nat /\ old <= n
  BY <1>2, <1>4, Counting
<1>6. /\ granted' \in [Counter -> [Bucket -> Nat]]
      /\ granted'[Redis][b] <= n
      /\ \A d \in Counter, x \in Bucket :
           <<d, x>> # <<Redis, b>> => granted'[d][x] = granted[d][x]
      /\ [PerCounter!Next]_granted
  BY <1>1, <1>2, <1>3, <1>4, GrantAdmits
<1> HIDE DEF n, old
<1>7. /\ redis' \in [Bucket -> [count: Nat, dies: Nat \cup {Never}]]
      /\ redis'[b].count = n
      /\ \A x \in Bucket : x # b => redis'[x].count = redis[x].count
      /\ \A x \in Bucket : redis'[x].dies = redis[x].dies
  BY <1>1, <1>2, <1>3, <1>5 DEF LimiterTypes
<1>8. req' \in [Req -> Request] /\ RequestShape'
  <2> DEFINE q == [req[r] EXCEPT !.step = "reply", !.count = n]
  <2>1. req[r] \in Request /\ req[r].at \in Gateway /\ RequestShape
    BY DEF IInv, LimiterTypes, RequestShape, At, Incr
  <2>2. /\ q \in Request /\ q.step = "reply" /\ q.sent = req[r].sent
        /\ q.at = req[r].at /\ q.key = req[r].key
    BY <2>1, <1>5 DEF Request
  <2>3. req' = [req EXCEPT ![r] = q]
    BY <1>3
  <2> HIDE DEF q
  <2> QED
    BY <1>1, <1>3, <2>1, <2>2, <2>3, RequestKept
<1>9. LimiterTypes'
  BY <1>1, <1>3, <1>6, <1>7, <1>8 DEF LimiterTypes
<1>10. MemoryCovers'
  BY <1>1, <1>3, <1>6, RedisAssumption DEF MemoryCovers, Counter
<1>11. RedisCovers'
  BY <1>1, <1>3, <1>4, <1>6, <1>7 DEF RedisCovers, Counter
<1>12. LivesLongEnough'
  BY <1>1, <1>7 DEF LivesLongEnough
<1> QED
  BY <1>6, <1>8, <1>9, <1>10, <1>11, <1>12 DEF IInv

LEMMA ExpireStep ==
  ASSUME IInv, NEW r \in Req, Expire(r)
  PROVE  IInv' /\ UNCHANGED granted
<1> DEFINE b == BucketOf(r)
           d == IF redis[b].count = 0 THEN Never ELSE now + Lifetime
<1>1. /\ req[r].key \in Key /\ req[r].sent \in 0..MaxTime /\ req[r].sent <= now
      /\ now \in 0..MaxTime
      /\ LimiterTypes /\ MemoryCovers /\ RedisCovers /\ LivesLongEnough
  BY DEF IInv, LimiterTypes, RequestShape, Expire, At, Request
<1>2. b \in Bucket /\ Deadline(b) <= now + Lifetime
  BY <1>1, WindowInRange, DeadlineBounds DEF BucketOf, Bucket
<1>3. /\ redis' = [redis EXCEPT ![b].dies = d]
      /\ req' = [req EXCEPT ![r].step = "settle", ![r].sent = 0]
      /\ UNCHANGED <<now, local, granted>>
  BY DEF Expire
<1> HIDE DEF b
<1>4. d \in Nat \cup {Never} /\ (d # Never => Deadline(b) <= d)
  BY <1>1, <1>2, SpanAssumption DEF Lifetime
<1> HIDE DEF d
<1>5. /\ redis' \in [Bucket -> [count: Nat, dies: Nat \cup {Never}]]
      /\ \A x \in Bucket : redis'[x].count = redis[x].count
      /\ redis'[b].dies = d
      /\ \A x \in Bucket : x # b => redis'[x].dies = redis[x].dies
  BY <1>1, <1>2, <1>3, <1>4 DEF LimiterTypes
<1>6. req' \in [Req -> Request] /\ RequestShape'
  <2> DEFINE q == [req[r] EXCEPT !.step = "settle", !.sent = 0]
  <2>1. req[r] \in Request /\ req[r].at \in Gateway /\ RequestShape
    BY DEF IInv, LimiterTypes, RequestShape, At, Expire
  <2>2. /\ q \in Request /\ q.step = "settle" /\ q.sent = 0
        /\ q.at = req[r].at /\ q.key = req[r].key
    <3>1. 0 \in 0..MaxTime
      BY BoundAssumption
    <3> QED
      BY <2>1, <3>1 DEF Request
  <2>3. req' = [req EXCEPT ![r] = q]
    BY <1>3
  <2>4. 0 <= now
    BY <1>1
  <2> HIDE DEF q
  <2> QED
    BY <1>1, <1>3, <2>1, <2>2, <2>3, <2>4, RequestKept
<1>7. LimiterTypes'
  BY <1>1, <1>3, <1>5, <1>6 DEF LimiterTypes
<1>8. MemoryCovers' /\ RedisCovers'
  BY <1>1, <1>3, <1>5 DEF MemoryCovers, RedisCovers
<1>9. LivesLongEnough'
  BY <1>1, <1>4, <1>5 DEF LivesLongEnough
<1> QED
  BY <1>3, <1>6, <1>7, <1>8, <1>9 DEF IInv

\* A step that only changes what is under way.
LEMMA RequestStep ==
  ASSUME IInv, UNCHANGED limiter, req' \in [Req -> Request], RequestShape'
  PROVE  IInv' /\ UNCHANGED granted
BY DEF IInv, limiter, LimiterTypes, MemoryCovers, RedisCovers, LivesLongEnough

LEMMA ArriveStep ==
  ASSUME IInv, NEW r \in Req, NEW g \in Gateway, NEW c \in Client, NEW kind \in Kinds,
         Arrive(r, g, c, kind)
  PROVE  IInv' /\ UNCHANGED granted
<1> DEFINE q == [Idle EXCEPT !.step = "count", !.at = g, !.kind = kind,
                             !.key = <<"general", c>>]
<1>1. 0 \in 0..MaxTime /\ 0 <= now /\ LimiterTypes /\ RequestShape
  BY BoundAssumption DEF IInv, LimiterTypes
<1>2. <<"general", c>> \in Key
  BY DEF Key
<1>3. q \in Request /\ q.step = "count" /\ q.sent = 0 /\ q.at = g /\ q.key \in Key
  BY <1>1, <1>2 DEF Idle, Request
<1>4. req' = [req EXCEPT ![r] = q] /\ UNCHANGED limiter
  BY DEF Arrive
<1> HIDE DEF q
<1>5. req' \in [Req -> Request] /\ RequestShape'
  BY <1>1, <1>3, <1>4, RequestKept DEF limiter
<1> QED
  BY <1>4, <1>5, RequestStep

LEMMA SendIncrStep ==
  ASSUME IInv, NEW r \in Req, SendIncr(r)
  PROVE  IInv' /\ UNCHANGED granted
<1> DEFINE q == [req[r] EXCEPT !.step = "incr", !.sent = now]
<1>1. /\ req[r] \in Request /\ req[r].at \in Gateway /\ req[r].key \in Key
      /\ LimiterTypes /\ RequestShape /\ now \in 0..MaxTime /\ now <= now
  BY DEF IInv, LimiterTypes, RequestShape, At, SendIncr
<1>2. /\ q \in Request /\ q.step = "incr" /\ q.sent = now
      /\ q.at = req[r].at /\ q.key = req[r].key
  BY <1>1 DEF Request
<1>3. req' = [req EXCEPT ![r] = q] /\ UNCHANGED limiter
  BY DEF SendIncr
<1> HIDE DEF q
<1>4. req' \in [Req -> Request] /\ RequestShape'
  BY <1>1, <1>2, <1>3, RequestKept DEF limiter
<1> QED
  BY <1>3, <1>4, RequestStep

LEMMA ReplyStep ==
  ASSUME IInv, NEW r \in Req, Reply(r)
  PROVE  IInv' /\ UNCHANGED granted
<1> DEFINE q == [req[r] EXCEPT !.step = "expire"]
<1>1. /\ req[r] \in Request /\ req[r].at \in Gateway /\ req[r].key \in Key
      /\ LimiterTypes /\ RequestShape /\ req[r].sent <= now
  BY DEF IInv, LimiterTypes, RequestShape, At, Reply
<1>2. /\ q \in Request /\ q.step = "expire" /\ q.sent = req[r].sent
      /\ q.at = req[r].at /\ q.key = req[r].key
  BY <1>1 DEF Request
<1>3. req' = [req EXCEPT ![r] = q] \/ Decide(r, req[r].count)
  BY DEF Reply
<1>4. UNCHANGED limiter /\ ~At(r, "idle") /\ ~At(r, "forward")
  BY DEF Reply, At
<1> HIDE DEF q
<1>5. req' \in [Req -> Request] /\ RequestShape'
  BY <1>1, <1>2, <1>3, <1>4, RequestKept, DecideShape DEF limiter
<1> QED
  BY <1>4, <1>5, RequestStep

LEMMA SettleStep ==
  ASSUME IInv, NEW r \in Req, Settle(r)
  PROVE  IInv' /\ UNCHANGED granted
<1>1. /\ Decide(r, req[r].count)
      /\ UNCHANGED limiter /\ ~At(r, "idle") /\ ~At(r, "forward")
  BY DEF Settle, At
<1>2. req' \in [Req -> Request] /\ RequestShape'
  BY <1>1, DecideShape DEF limiter
<1> QED
  BY <1>1, <1>2, RequestStep

LEMMA FinishStep ==
  ASSUME IInv, NEW r \in Req, Finish(r)
  PROVE  IInv' /\ UNCHANGED granted
<1>1. 0 \in 0..MaxTime /\ 0 <= now /\ LimiterTypes /\ RequestShape
  BY BoundAssumption DEF IInv, LimiterTypes
<1>2. Idle \in Request /\ Idle.sent = 0 /\ Idle.step = "idle"
  BY <1>1 DEF Idle, Request
<1>3. req' = [req EXCEPT ![r] = Idle] /\ UNCHANGED limiter
  BY DEF Finish, Answer
<1>4. req' \in [Req -> Request] /\ RequestShape'
  BY <1>1, <1>2, <1>3, RequestKept DEF limiter
<1> QED
  BY <1>3, <1>4, RequestStep

LEMMA RestartStep ==
  ASSUME IInv, NEW g \in Gateway, Restart(g)
  PROVE  IInv' /\ [PerCounter!Next]_granted
<1>1. /\ 0 \in 0..MaxTime /\ 0 <= now
      /\ LimiterTypes /\ RequestShape /\ MemoryCovers /\ RedisCovers /\ LivesLongEnough
      /\ Redis # g /\ g \in Counter /\ Redis \in Counter
  BY BoundAssumption, RedisAssumption DEF IInv, LimiterTypes, Counter
<1>2. Idle \in Request /\ Idle.sent = 0 /\ Idle.step = "idle" /\ Empty \in [Bucket -> Nat]
  BY <1>1 DEF Idle, Request, Empty
<1>3. /\ local' = [local EXCEPT ![g] = Empty]
      /\ granted' = [granted EXCEPT ![g] = Empty]
      /\ req' = [r \in Req |-> IF req[r].at = g THEN Idle ELSE req[r]]
      /\ UNCHANGED <<now, redis>>
  BY DEF Restart
<1>4. LimiterTypes'
  BY <1>1, <1>2, <1>3 DEF LimiterTypes
<1>5. RequestShape'
  BY <1>1, <1>2, <1>3 DEF RequestShape, At
<1>6. MemoryCovers'
  BY <1>1, <1>3 DEF MemoryCovers, LimiterTypes, Empty, Counter
<1>7. RedisCovers' /\ LivesLongEnough'
  BY <1>1, <1>3 DEF RedisCovers, LivesLongEnough, LimiterTypes
<1>8. PerCounter!Next
  BY <1>1, <1>3 DEF PerCounter!Next, PerCounter!Forget, PerCounter!Nothing, PerCounter!Bucket, Empty, Bucket
<1> QED
  BY <1>4, <1>5, <1>6, <1>7, <1>8 DEF IInv

LEMMA RedisRestartStep ==
  ASSUME IInv, RedisRestart
  PROVE  IInv' /\ [PerCounter!Next]_granted
<1>1. /\ LimiterTypes /\ RequestShape /\ MemoryCovers
      /\ Redis \notin Gateway /\ Redis \in Counter
  BY RedisAssumption DEF IInv, Counter
<1>2. /\ redis' = [b \in Bucket |-> NoKey]
      /\ granted' = [granted EXCEPT ![Redis] = Empty]
      /\ UNCHANGED <<now, local, req>>
  BY DEF RedisRestart
<1>3. LimiterTypes'
  BY <1>1, <1>2 DEF LimiterTypes, NoKey, Empty
<1>4. RequestShape'
  BY <1>1, <1>2 DEF RequestShape, At
<1>5. MemoryCovers'
  BY <1>1, <1>2 DEF MemoryCovers, LimiterTypes, Counter
<1>6. RedisCovers' /\ LivesLongEnough'
  BY <1>1, <1>2 DEF RedisCovers, LivesLongEnough, LimiterTypes, NoKey, Empty
<1>7. PerCounter!Next
  BY <1>1, <1>2 DEF PerCounter!Next, PerCounter!Forget, PerCounter!Nothing, PerCounter!Bucket, Empty, Bucket
<1> QED
  BY <1>3, <1>4, <1>5, <1>6, <1>7 DEF IInv

LEMMA TickStep ==
  ASSUME IInv, Tick
  PROVE  IInv' /\ UNCHANGED granted
<1> DEFINE Due(b) == redis[b].dies # Never /\ redis[b].dies <= now + 1
<1>1. /\ LimiterTypes /\ RequestShape /\ MemoryCovers /\ RedisCovers /\ LivesLongEnough
      /\ now \in Nat /\ MaxTime \in Nat
  BY BoundAssumption DEF IInv, LimiterTypes
<1>2. /\ now < MaxTime /\ now' = now + 1
      /\ redis' = [b \in Bucket |-> IF Due(b) THEN NoKey ELSE redis[b]]
      /\ UNCHANGED <<local, granted, req>>
  BY DEF Tick
<1>3. WindowAt(now) \in Nat /\ WindowAt(now)' \in Nat /\ WindowAt(now) <= WindowAt(now)'
  <2>1. now + 1 \in Nat /\ now <= now + 1
    BY <1>1
  <2>2. /\ WindowAt(now) \in Nat /\ WindowAt(now + 1) \in Nat
        /\ WindowAt(now) <= WindowAt(now + 1)
    BY <1>1, <2>1, WindowBounds, WindowOrder
  <2> QED
    BY <1>2, <2>2 DEF WindowAt
<1>4. LimiterTypes'
  BY <1>1, <1>2 DEF LimiterTypes, NoKey
<1>5. RequestShape'
  <2>1. \A r \in Req : req[r].sent \in Nat
    BY <1>1 DEF LimiterTypes, Request
  <2> QED
    BY <1>1, <1>2, <2>1 DEF RequestShape, At
<1>6. MemoryCovers'
  <2> SUFFICES ASSUME NEW g \in Gateway, NEW b \in Bucket
               PROVE  /\ b[2] = WindowAt(now)' => granted[g][b] <= local[g][b]
                      /\ b[2] > WindowAt(now)' => granted[g][b] = 0
    BY <1>2 DEF MemoryCovers, WindowAt
  <2>1. b[2] \in Nat /\ local[g][b] \in Nat
    BY <1>1 DEF Bucket, Window, LimiterTypes
  <2>2. /\ b[2] = WindowAt(now) => granted[g][b] <= local[g][b]
        /\ b[2] > WindowAt(now) => granted[g][b] = 0
    BY <1>1 DEF MemoryCovers
  <2> QED
    BY <1>3, <2>1, <2>2
<1>7. RedisCovers' /\ LivesLongEnough'
  <2> SUFFICES ASSUME NEW b \in Bucket
               PROVE  /\ now + 1 < Deadline(b) => granted[Redis][b] <= redis'[b].count
                      /\ redis'[b].dies # Never => Deadline(b) <= redis'[b].dies
    BY <1>2 DEF RedisCovers, LivesLongEnough, Deadline
  <2>1. Deadline(b) \in Int
    BY SpanAssumption DEF Bucket, Window, Deadline
  <2>2. CASE Due(b)
    <3>1. Deadline(b) <= redis[b].dies /\ redis[b].dies \in Nat
      BY <2>2, <1>1 DEF LivesLongEnough, LimiterTypes
    <3> QED
      BY <3>1, <2>1, <2>2, <1>1, <1>2 DEF NoKey
  <2>3. CASE ~Due(b)
    BY <2>3, <2>1, <1>1, <1>2 DEF RedisCovers, LivesLongEnough
  <2> QED
    BY <2>2, <2>3
<1> QED
  BY <1>2, <1>4, <1>5, <1>6, <1>7 DEF IInv

LEMMA NextIInv ==
  ASSUME IInv, [Next]_vars
  PROVE  IInv' /\ [PerCounter!Next]_granted
<1>1. CASE UNCHANGED <<limiter, req>>
  <2>1. req' \in [Req -> Request] /\ RequestShape'
    BY <1>1 DEF IInv, LimiterTypes, RequestShape, At, limiter
  <2> QED
    BY <1>1, <2>1, RequestStep
<1>2. ASSUME NEW r \in Req, NEW g \in Gateway, NEW c \in Client, NEW kind \in Kinds,
             Arrive(r, g, c, kind)
      PROVE  IInv' /\ [PerCounter!Next]_granted
  BY <1>2, ArriveStep
<1>3. ASSUME NEW r \in Req, Limiting(r)
      PROVE  IInv' /\ [PerCounter!Next]_granted
  <2>1. CASE MemoryCount(r)
    BY <2>1, CountLocallyStep DEF MemoryCount, At
  <2>2. CASE SendIncr(r)
    BY <2>2, SendIncrStep
  <2>3. CASE Incr(r)
    BY <2>3, IncrStep
  <2>4. CASE Reply(r)
    BY <2>4, ReplyStep
  <2>5. CASE Expire(r)
    BY <2>5, ExpireStep
  <2>6. CASE Settle(r)
    BY <2>6, SettleStep
  <2>7. CASE Degrade(r)
    BY <2>7, CountLocallyStep DEF Degrade, At
  <2>8. CASE Finish(r)
    BY <2>8, FinishStep
  <2> QED
    BY <1>3, <2>1, <2>2, <2>3, <2>4, <2>5, <2>6, <2>7, <2>8 DEF Limiting
<1>4. ASSUME NEW g \in Gateway, Restart(g)
      PROVE  IInv' /\ [PerCounter!Next]_granted
  BY <1>4, RestartStep
<1>5. CASE RedisRestart
  BY <1>5, RedisRestartStep
<1>6. CASE Tick
  BY <1>6, TickStep
<1>7. ASSUME NEW r \in Req, NEW t \in Worker, NEW f \in Fingerprint, Post(r, t, f)
      PROVE  UNCHANGED <<limiter, req>>
  BY <1>7 DEF Post
<1>8. ASSUME NEW t \in Worker, FindRow(t) \/ Bump(t) \/ Insert(t) \/ FailIngest(t)
      PROVE  UNCHANGED <<limiter, req>>
  BY <1>8 DEF FindRow, Bump, Insert, FailIngest
<1>9. ASSUME NEW old \in SUBSET DOMAIN rows, PruneCsp(old)
      PROVE  UNCHANGED <<limiter, req>>
  BY <1>9 DEF PruneCsp
<1>10. CASE UNCHANGED vars
  BY <1>1, <1>10 DEF vars
<1> QED
  BY <1>1, <1>2, <1>3, <1>4, <1>5, <1>6, <1>7, <1>8, <1>9, <1>10 DEF Next

-----------------------------------------------------------------------------
(* Violations                                                              *)

CspTypes ==
  /\ rows \in Seq(Row \cup {Gone})
  /\ worker \in [Worker -> Ingest]
  /\ posted \in [Fingerprint -> Nat]
  /\ crowd \in [Fingerprint -> Nat]

\* A thread that is to bump a row found it under its own fingerprint.
WorkerShape ==
  \A t \in Worker :
    /\ Working(t, "idle") => worker[t].fingerprint = None
    /\ ~Working(t, "idle") => worker[t].fingerprint \in Fingerprint
    /\ Working(t, "bump") =>
         /\ worker[t].row \in DOMAIN rows
         /\ rows[worker[t].row].fingerprint \in {worker[t].fingerprint, None}

Active(f)    == {t \in Worker : worker[t].fingerprint = f}
Inserting(f) == {t \in Active(f) : Working(t, "insert")}

\* The counts that row i has, or had when a thread that is to bump it looked:
\* a slow thread writes a count back that others have left behind, and a
\* thread that saw theirs then raises it by more than one.
Reached(i, n) ==
  \/ n \in 1..rows[i].count
  \/ \E t \in Worker : /\ Working(t, "bump") /\ worker[t].row = i
                       /\ n \in 1..worker[t].saw
Claimed(f) == {p \in RowsOf(f) \X Nat : Reached(p[1], p[2])}

\* Threads that are to insert are as good as rows, and threads under way as
\* good as claims.
CspBound(f) ==
  /\ IsFiniteSet(Claimed(f))
  /\ Cardinality(RowsOf(f)) + Cardinality(Inserting(f)) <= crowd[f]
  /\ Cardinality(Active(f)) <= crowd[f]
  /\ Cardinality(Claimed(f)) + Cardinality(Active(f)) <= posted[f]

CspInv ==
  /\ CspTypes
  /\ WorkerShape
  /\ \A f \in Fingerprint : CspBound(f)

LEMMA ActiveFinite ==
  ASSUME NEW f
  PROVE  /\ IsFiniteSet(Active(f)) /\ Cardinality(Active(f)) \in Nat
         /\ IsFiniteSet(Inserting(f)) /\ Cardinality(Inserting(f)) \in Nat
         /\ Cardinality(Inserting(f)) <= Cardinality(Active(f))
<1>1. Active(f) \in SUBSET Worker /\ Inserting(f) \in SUBSET Active(f)
  BY DEF Active, Inserting
<1>2. IsFiniteSet(Active(f))
  BY <1>1, WorkerAssumption, FS_Subset
<1>3. IsFiniteSet(Inserting(f)) /\ Cardinality(Inserting(f)) <= Cardinality(Active(f))
  BY <1>1, <1>2, FS_Subset
<1> QED  BY <1>2, <1>3, FS_CardinalityType

LEMMA RowsFinite ==
  ASSUME CspTypes, NEW f
  PROVE  IsFiniteSet(RowsOf(f)) /\ Cardinality(RowsOf(f)) \in Nat
<1>1. RowsOf(f) \in SUBSET (1..Len(rows)) /\ Len(rows) \in Nat
  BY DEF CspTypes, RowsOf
<1>2. IsFiniteSet(1..Len(rows))
  BY <1>1, FS_Interval
<1> QED  BY <1>1, <1>2, FS_Subset, FS_CardinalityType

\* Rows, claims and threads of f go, or stay.
LEMMA BoundKept ==
  ASSUME CspTypes, CspTypes', NEW f \in Fingerprint, CspBound(f),
         RowsOf(f)' \in SUBSET RowsOf(f), Claimed(f)' \in SUBSET Claimed(f),
         Active(f)' \in SUBSET Active(f), Inserting(f)' \in SUBSET Inserting(f),
         posted'[f] = posted[f], crowd'[f] = crowd[f]
  PROVE  CspBound(f)'
<1>1. /\ Cardinality(RowsOf(f)') <= Cardinality(RowsOf(f))
      /\ Cardinality(RowsOf(f)') \in Nat /\ Cardinality(RowsOf(f)) \in Nat
  BY RowsFinite, FS_Subset, FS_CardinalityType
<1>2. /\ IsFiniteSet(Claimed(f)')
      /\ Cardinality(Claimed(f)') <= Cardinality(Claimed(f))
      /\ Cardinality(Claimed(f)') \in Nat /\ Cardinality(Claimed(f)) \in Nat
  BY FS_Subset, FS_CardinalityType DEF CspBound
<1>3. /\ Cardinality(Active(f)') <= Cardinality(Active(f))
      /\ Cardinality(Active(f)') \in Nat /\ Cardinality(Active(f)) \in Nat
  BY ActiveFinite, FS_Subset, FS_CardinalityType
<1>4. /\ Cardinality(Inserting(f)') <= Cardinality(Inserting(f))
      /\ Cardinality(Inserting(f)') \in Nat /\ Cardinality(Inserting(f)) \in Nat
  BY ActiveFinite, FS_Subset, FS_CardinalityType
<1>5. posted[f] \in Nat /\ crowd[f] \in Nat
  BY DEF CspTypes
<1> QED  BY <1>1, <1>2, <1>3, <1>4, <1>5 DEF CspBound

\* What one thread t does concerns the fingerprint it works on.
LEMMA OthersKept ==
  ASSUME CspInv, CspTypes', WorkerShape', NEW f \in Fingerprint, NEW t \in Worker,
         worker[t].fingerprint # f, worker'[t].fingerprint # f,
         \A u \in Worker \ {t} : worker'[u] = worker[u],
         DOMAIN rows \subseteq DOMAIN rows',
         \A i \in DOMAIN rows' :
           \/ rows'[i].fingerprint # f
           \/ i \in DOMAIN rows /\ rows'[i] = rows[i],
         posted'[f] = posted[f], crowd'[f] = crowd[f]
  PROVE  CspBound(f)'
<1>1. RowsOf(f)' \in SUBSET RowsOf(f) /\ \A i \in RowsOf(f)' : rows'[i] = rows[i]
  BY DEF RowsOf
<1>2. Active(f)' \in SUBSET Active(f) /\ Inserting(f)' \in SUBSET Inserting(f)
  BY DEF Active, Inserting, Working
<1>3. ASSUME NEW i \in RowsOf(f)', NEW n, Reached(i, n)'
      PROVE  Reached(i, n)
  <2>1. CASE n \in 1..rows'[i].count
    BY <1>1, <1>3, <2>1 DEF Reached
  <2>2. CASE ~(n \in 1..rows'[i].count)
    <3>1. PICK u \in Worker : /\ Working(u, "bump")' /\ worker'[u].row = i
                              /\ n \in 1..worker'[u].saw
      BY <1>3, <2>2 DEF Reached
    <3>2. worker'[u].fingerprint = f
      BY <1>3, <3>1, NoFingerprint DEF WorkerShape, RowsOf
    <3>3. worker'[u] = worker[u]
      BY <3>2
    <3> QED  BY <3>1, <3>3 DEF Reached, Working
  <2> QED  BY <2>1, <2>2
<1>4. Claimed(f)' \in SUBSET Claimed(f)
  BY <1>1, <1>3 DEF Claimed
<1> QED  BY <1>1, <1>2, <1>4, BoundKept DEF CspInv

LEMMA PostStep ==
  ASSUME CspInv, NEW r \in Req, NEW t \in Worker, NEW f \in Fingerprint,
         Post(r, t, f)
  PROVE  CspInv'
<1> DEFINE n == 1 + Cardinality(Active(f))
<1> DEFINE q == [Rest EXCEPT !.step = "find", !.fingerprint = f]
<1>1. q \in Ingest /\ q.step = "find" /\ q.fingerprint = f
  BY DEF Rest, Ingest
<1>2. CspTypes /\ WorkerShape /\ CspBound(f) /\ worker \in [Worker -> Ingest]
  BY DEF CspInv, CspTypes
<1>3. /\ Working(t, "idle") /\ UNCHANGED rows
      /\ worker' = [worker EXCEPT ![t] = q]
      /\ posted' = [posted EXCEPT ![f] = @ + 1]
      /\ crowd' = [crowd EXCEPT ![f] = IF n > @ THEN n ELSE @]
  <2>1. [Rest EXCEPT !.step = "find", !.fingerprint = f] = q
    OBVIOUS
  <2> HIDE DEF q
  <2>2. n = 1 + Cardinality({x \in Worker : worker[x].fingerprint = f})
    BY DEF Active
  <2> HIDE DEF n
  <2>3. /\ Working(t, "idle") /\ UNCHANGED <<limiter, req, arrived, rows>>
        /\ worker' = [worker EXCEPT ![t] =
             [Rest EXCEPT !.step = "find", !.fingerprint = f]]
        /\ posted' = [posted EXCEPT ![f] = @ + 1]
        /\ LET m == 1 + Cardinality({x \in Worker : worker[x].fingerprint = f})
           IN crowd' = [crowd EXCEPT ![f] = IF m > @ THEN m ELSE @]
    BY Zenon DEF Post
  <2> QED  BY <2>1, <2>2, <2>3
<1>4. worker[t].fingerprint = None
  BY <1>2, <1>3 DEF WorkerShape
<1>5. /\ Working(t, "idle") /\ worker[t].fingerprint = None
      /\ CspTypes /\ WorkerShape /\ CspBound(f) /\ UNCHANGED rows
      /\ worker \in [Worker -> Ingest]
      /\ worker' = [worker EXCEPT ![t] = q]
      /\ posted' = [posted EXCEPT ![f] = @ + 1]
      /\ crowd' = [crowd EXCEPT ![f] = IF n > @ THEN n ELSE @]
  BY <1>2, <1>3, <1>4
<1>6. Cardinality(Active(f)) \in Nat /\ n \in Nat
  BY ActiveFinite
<1> HIDE DEF n, q
<1>7. /\ worker'[t] = q /\ worker'[t].step = "find" /\ worker'[t].fingerprint = f
      /\ \A u \in Worker \ {t} : worker'[u] = worker[u]
  BY <1>1, <1>5
<1>8. CspTypes'
  BY <1>1, <1>5, <1>6 DEF CspTypes
<1>9. WorkerShape'
  BY <1>5, <1>7 DEF WorkerShape, Working
<1>10. ASSUME NEW g \in Fingerprint, g # f
      PROVE  CspBound(g)'
  <2>1. posted'[g] = posted[g] /\ crowd'[g] = crowd[g]
    BY <1>5, <1>10 DEF CspTypes
  <2>2. worker[t].fingerprint # g /\ worker'[t].fingerprint # g
    BY <1>5, <1>7, <1>10, NoFingerprint
  <2> QED  BY <1>5, <1>7, <1>8, <1>9, <2>1, <2>2, OthersKept
<1>11. CspBound(f)'
  <2>1. Active(f)' = Active(f) \cup {t} /\ t \notin Active(f)
    BY <1>5, <1>7, NoFingerprint DEF Active
  <2>2. Inserting(f)' = Inserting(f)
    BY <1>5, <1>7 DEF Inserting, Active, Working
  <2>3. RowsOf(f)' = RowsOf(f) /\ Claimed(f)' = Claimed(f)
    BY <1>5, <1>7 DEF RowsOf, Claimed, Reached, Working
  <2>4. Cardinality(Active(f)') = Cardinality(Active(f)) + 1
    BY <2>1, ActiveFinite, FS_AddElement
  <2>5. posted'[f] = posted[f] + 1 /\ posted[f] \in Nat
    BY <1>5 DEF CspTypes
  <2>6. crowd[f] \in Nat /\ crowd'[f] = IF n > crowd[f] THEN n ELSE crowd[f]
    BY <1>5 DEF CspTypes
  <2>7. crowd'[f] \in Nat /\ crowd[f] <= crowd'[f] /\ n <= crowd'[f]
    BY <1>6, <2>6
  <2>8. /\ Cardinality(RowsOf(f)) \in Nat /\ Cardinality(Inserting(f)) \in Nat
        /\ Cardinality(Claimed(f)) \in Nat
    BY <1>5, RowsFinite, ActiveFinite, FS_CardinalityType DEF CspBound
  <2>9. n = 1 + Cardinality(Active(f))
    BY DEF n
  <2> QED
    BY <1>5, <1>6, <2>2, <2>3, <2>4, <2>5, <2>6, <2>7, <2>8, <2>9 DEF CspBound
<1> QED  BY <1>8, <1>9, <1>10, <1>11 DEF CspInv

\* A thread begins an insertion only when no row of its fingerprint is there.
LEMMA FindRowStep ==
  ASSUME CspInv, NEW t \in Worker, FindRow(t)
  PROVE  CspInv'
<1>1. PICK f : f = worker[t].fingerprint
  OBVIOUS
<1>2. /\ Working(t, "find") /\ f \in Fingerprint /\ worker \in [Worker -> Ingest]
      /\ CspTypes /\ WorkerShape /\ UNCHANGED <<rows, posted, crowd>>
      /\ worker[t] \in Ingest /\ rows \in Seq(Row \cup {Gone})
  <2>1. /\ CspTypes /\ WorkerShape /\ worker \in [Worker -> Ingest]
        /\ worker[t] \in Ingest /\ rows \in Seq(Row \cup {Gone})
    BY DEF CspInv, CspTypes
  <2>2. Working(t, "find") /\ UNCHANGED <<limiter, req, arrived, rows, posted, crowd>>
    BY Zenon DEF FindRow
  <2>3. f \in Fingerprint
    BY <1>1, <2>1, <2>2 DEF WorkerShape, Working
  <2> QED  BY <2>1, <2>2, <2>3
<1>3. ASSUME NEW q \in Ingest, worker' = [worker EXCEPT ![t] = q],
             q.fingerprint = f, q.step \in {"insert", "bump"},
             q.step = "bump" => q.row \in RowsOf(f) /\ q.saw = rows[q.row].count,
             q.step = "insert" => RowsOf(f) = {}
      PROVE  CspInv'
  <2>1. worker'[t] = q /\ \A u \in Worker \ {t} : worker'[u] = worker[u]
    BY <1>2, <1>3
  <2>2. CspTypes'
    BY <1>2, <1>3 DEF CspTypes
  <2>3. WorkerShape'
    BY <1>2, <1>3, <2>1 DEF WorkerShape, Working, RowsOf
  <2>4. ASSUME NEW g \in Fingerprint, g # f
        PROVE  CspBound(g)'
    BY <1>1, <1>2, <1>3, <2>1, <2>2, <2>3, <2>4, OthersKept
  <2>5. RowsOf(f)' = RowsOf(f) /\ Active(f)' = Active(f)
    BY <1>1, <1>2, <1>3, <2>1 DEF RowsOf, Active
  <2>6. ASSUME NEW i \in RowsOf(f), NEW m, Reached(i, m)'
        PROVE  Reached(i, m)
    BY <1>2, <1>3, <2>1, <2>6 DEF Reached, Working
  <2>7. Claimed(f)' \in SUBSET Claimed(f)
    BY <2>5, <2>6 DEF Claimed
  <2>8. CASE q.step = "bump"
    <3>1. Inserting(f)' \in SUBSET Inserting(f)
      <4>1. ASSUME NEW u \in Active(f), Working(u, "insert")'
            PROVE  Working(u, "insert")
        BY <2>1, <2>8, <4>1 DEF Working, Active
      <4> QED  BY <2>5, <4>1 DEF Inserting
    <3> QED
      BY <1>2, <2>2, <2>3, <2>4, <2>5, <2>7, <3>1, BoundKept DEF CspInv
  <2>9. CASE q.step = "insert"
    <3>1. Cardinality(RowsOf(f)') = 0
      BY <1>3, <2>5, <2>9, FS_EmptySet
    <3>2. Cardinality(Inserting(f)') <= Cardinality(Active(f)')
      <4>1. IsFiniteSet(Active(f)') /\ Inserting(f)' \in SUBSET Active(f)'
        BY <2>5, ActiveFinite DEF Inserting
      <4> QED  BY <4>1, FS_Subset
    <3>3. /\ IsFiniteSet(Claimed(f)')
          /\ Cardinality(Claimed(f)') <= Cardinality(Claimed(f))
          /\ Cardinality(Claimed(f)') \in Nat /\ Cardinality(Claimed(f)) \in Nat
      BY <1>2, <2>7, FS_Subset, FS_CardinalityType DEF CspBound, CspInv
    <3>4. Cardinality(Active(f)) \in Nat /\ Cardinality(Inserting(f)') \in Nat
      <4>1. IsFiniteSet(Active(f)') /\ Inserting(f)' \in SUBSET Active(f)'
        BY <2>5, ActiveFinite DEF Inserting
      <4> QED  BY <4>1, FS_Subset, ActiveFinite, FS_CardinalityType
    <3>5. posted[f] \in Nat /\ crowd[f] \in Nat
      BY <1>2 DEF CspTypes
    <3>6. CspBound(f)
      BY <1>2 DEF CspInv
    <3>7. CspBound(f)'
      <4>1. posted'[f] = posted[f] /\ crowd'[f] = crowd[f]
        BY <1>2
      <4>2. Cardinality(Active(f)') = Cardinality(Active(f))
        BY <2>5
      <4>3. /\ Cardinality(Active(f)) <= crowd[f]
            /\ Cardinality(Claimed(f)) + Cardinality(Active(f)) <= posted[f]
        BY <3>6 DEF CspBound
      <4>4. Cardinality(RowsOf(f)') + Cardinality(Inserting(f)') <= crowd'[f]
        BY <3>1, <3>2, <3>4, <3>5, <4>1, <4>2, <4>3
      <4>5. Cardinality(Claimed(f)') + Cardinality(Active(f)') <= posted'[f]
        BY <3>3, <3>4, <3>5, <4>1, <4>2, <4>3
      <4> QED  BY <3>3, <4>1, <4>2, <4>3, <4>4, <4>5 DEF CspBound
    <3> QED  BY <2>2, <2>3, <2>4, <3>7 DEF CspInv
  <2> QED  BY <1>3, <2>8, <2>9
<1>4. CASE RowsOf(f) = {} /\ worker' = [worker EXCEPT ![t].step = "insert"]
  <2>1. PICK q : q = [worker[t] EXCEPT !.step = "insert"]
    OBVIOUS
  <2>2. q \in Ingest /\ q.step = "insert" /\ q.fingerprint = f
    BY <1>1, <1>2, <2>1 DEF Ingest
  <2>3. worker' = [worker EXCEPT ![t] = q]
    BY <1>4, <2>1
  <2> QED  BY <1>3, <1>4, <2>2, <2>3
<1>5. ASSUME NEW i \in RowsOf(f),
             worker' = [worker EXCEPT ![t].step = "bump", ![t].row = i,
                                      ![t].saw = rows[i].count]
      PROVE  CspInv'
  <2>1. PICK q : q = [worker[t] EXCEPT !.step = "bump", !.row = i,
                                       !.saw = rows[i].count]
    OBVIOUS
  <2>2. i \in Nat /\ rows[i].count \in Nat
    BY <1>2, <1>5 DEF RowsOf, Row, Gone
  <2>3. /\ q \in Ingest /\ q.step = "bump" /\ q.fingerprint = f
        /\ q.row = i /\ q.saw = rows[i].count
    BY <1>1, <1>2, <2>1, <2>2 DEF Ingest
  <2>4. worker' = [worker EXCEPT ![t] = q]
    BY <1>2, <1>5, <2>1 DEF Ingest
  <2> QED  BY <1>3, <1>5, <2>3, <2>4
<1> QED  BY <1>1, <1>4, <1>5, Zenon DEF FindRow

\* One more claim, one thread less.
LEMMA ClaimAdded ==
  ASSUME CspTypes, NEW f \in Fingerprint, CspBound(f), NEW t, NEW p,
         t \in Active(f), Active(f)' = Active(f) \ {t},
         Claimed(f)' \in SUBSET (Claimed(f) \cup {p})
  PROVE  /\ IsFiniteSet(Claimed(f)')
         /\ Cardinality(Active(f)') <= crowd[f]
         /\ Cardinality(Claimed(f)') + Cardinality(Active(f)') <= posted[f]
<1>1. /\ IsFiniteSet(Claimed(f)) /\ Cardinality(Claimed(f)) \in Nat
      /\ Cardinality(Active(f)) <= crowd[f]
      /\ Cardinality(Claimed(f)) + Cardinality(Active(f)) <= posted[f]
  BY FS_CardinalityType DEF CspBound
<1>2. /\ IsFiniteSet(Claimed(f) \cup {p})
      /\ Cardinality(Claimed(f) \cup {p}) \in Nat
      /\ Cardinality(Claimed(f) \cup {p}) <= Cardinality(Claimed(f)) + 1
  <2>1. /\ IsFiniteSet(Claimed(f) \cup {p})
        /\ Cardinality(Claimed(f) \cup {p}) =
             IF p \in Claimed(f) THEN Cardinality(Claimed(f))
                                 ELSE Cardinality(Claimed(f)) + 1
    BY <1>1, FS_AddElement
  <2> QED  BY <1>1, <2>1
<1>3. /\ IsFiniteSet(Claimed(f)') /\ Cardinality(Claimed(f)') \in Nat
      /\ Cardinality(Claimed(f)') <= Cardinality(Claimed(f) \cup {p})
  BY <1>2, FS_Subset, FS_CardinalityType
<1>4. Cardinality(Active(f)') = Cardinality(Active(f)) - 1
      /\ Cardinality(Active(f)) \in Nat
  BY ActiveFinite, FS_RemoveElement
<1>5. posted[f] \in Nat /\ crowd[f] \in Nat
  BY DEF CspTypes
<1> QED  BY <1>1, <1>2, <1>3, <1>4, <1>5

LEMMA ClaimTaken ==
  ASSUME CspTypes, NEW f \in Fingerprint, CspBound(f), NEW t, NEW p,
         t \in Active(f), Active(f)' = Active(f) \ {t},
         Inserting(f)' \in SUBSET Inserting(f), RowsOf(f)' = RowsOf(f),
         Claimed(f)' \in SUBSET (Claimed(f) \cup {p}), UNCHANGED <<posted, crowd>>
  PROVE  CspBound(f)'
<1>1. /\ Cardinality(Inserting(f)') <= Cardinality(Inserting(f))
      /\ Cardinality(Inserting(f)') \in Nat /\ Cardinality(Inserting(f)) \in Nat
  BY ActiveFinite, FS_Subset, FS_CardinalityType
<1>2. Cardinality(RowsOf(f)') = Cardinality(RowsOf(f)) /\ Cardinality(RowsOf(f)) \in Nat
  BY RowsFinite
<1>3. /\ Cardinality(RowsOf(f)) + Cardinality(Inserting(f)) <= crowd[f]
      /\ crowd[f] \in Nat
  BY DEF CspBound, CspTypes
<1>4. Cardinality(RowsOf(f)') + Cardinality(Inserting(f)') <= crowd[f]
  BY <1>1, <1>2, <1>3
<1> QED  BY <1>4, ClaimAdded DEF CspBound

\* A thread that is done leaves its place to the claim it adds.
LEMMA BumpStep ==
  ASSUME CspInv, NEW t \in Worker, Bump(t)
  PROVE  CspInv'
<1>1. PICK f, i, c : f = worker[t].fingerprint /\ i = worker[t].row
                     /\ c = worker[t].saw + 1
  OBVIOUS
<1>2. /\ CspTypes /\ WorkerShape /\ rows \in Seq(Row \cup {Gone})
      /\ worker \in [Worker -> Ingest] /\ worker[t] \in Ingest
  BY DEF CspInv, CspTypes
<1>3. /\ Working(t, "bump") /\ rows[i] # Gone
      /\ rows' = [rows EXCEPT ![i].count = c]
      /\ worker' = [worker EXCEPT ![t] = Rest]
      /\ UNCHANGED <<posted, crowd>>
  BY <1>1 DEF Bump, Release
<1>4. /\ f \in Fingerprint /\ i \in DOMAIN rows /\ c \in Nat
      /\ rows[i] \in Row /\ rows[i].fingerprint = f
  <2>1. f \in Fingerprint /\ i \in DOMAIN rows /\ rows[i].fingerprint \in {f, None}
    BY <1>1, <1>2, <1>3 DEF WorkerShape, Working
  <2>2. c \in Nat /\ rows[i] \in Row
    BY <1>1, <1>2, <1>3, <2>1 DEF Ingest
  <2> QED  BY <2>1, <2>2, NoFingerprint DEF Row
<1>5. /\ worker'[t] = Rest /\ worker'[t].fingerprint = None
      /\ \A u \in Worker \ {t} : worker'[u] = worker[u]
  BY <1>2, <1>3 DEF Rest
<1>6. /\ DOMAIN rows' = DOMAIN rows
      /\ rows'[i] = [fingerprint |-> f, count |-> c]
      /\ \A j \in DOMAIN rows \ {i} : rows'[j] = rows[j]
  BY <1>2, <1>3, <1>4 DEF Row
<1>7. CspTypes'
  <2>1. rows' \in Seq(Row \cup {Gone})
    BY <1>2, <1>3, <1>4, <1>6 DEF Row
  <2>2. Rest \in Ingest
    BY DEF Rest, Ingest
  <2> QED  BY <1>2, <1>3, <2>1, <2>2 DEF CspTypes
<1>8. WorkerShape'
  BY <1>2, <1>4, <1>5, <1>6 DEF WorkerShape, Working, Rest
<1>9. ASSUME NEW g \in Fingerprint, g # f
      PROVE  CspBound(g)'
  <2>1. \A j \in DOMAIN rows' : \/ rows'[j].fingerprint # g
                                \/ j \in DOMAIN rows /\ rows'[j] = rows[j]
    BY <1>6, <1>9
  <2>2. worker[t].fingerprint # g /\ worker'[t].fingerprint # g
    BY <1>1, <1>5, <1>9, NoFingerprint
  <2> QED  BY <1>3, <1>5, <1>6, <1>7, <1>8, <2>1, <2>2, OthersKept
<1>10. CspBound(f)'
  <2>1. RowsOf(f)' = RowsOf(f) /\ i \in RowsOf(f)
    BY <1>4, <1>6 DEF RowsOf
  <2>2. Active(f)' = Active(f) \ {t} /\ t \in Active(f)
    BY <1>1, <1>4, <1>5, NoFingerprint DEF Active
  <2>3. Inserting(f)' \in SUBSET Inserting(f)
    <3>1. \A u \in Active(f)' : u \in Active(f) /\ worker'[u] = worker[u]
      BY <1>5, <2>2 DEF Active
    <3> QED  BY <3>1 DEF Inserting, Working
  <2>4. ASSUME NEW j \in RowsOf(f), NEW n \in Nat, Reached(j, n)', <<j, n>> # <<i, c>>
        PROVE  Reached(j, n)
    <3>1. CASE \E u \in Worker : /\ Working(u, "bump")' /\ worker'[u].row = j
                                 /\ n \in 1..worker'[u].saw
      <4>1. PICK u \in Worker : /\ Working(u, "bump")' /\ worker'[u].row = j
                                /\ n \in 1..worker'[u].saw
        BY <3>1
      <4>2. u # t
        BY <1>5, <4>1 DEF Working, Rest
      <4> QED  BY <1>5, <4>1, <4>2 DEF Reached, Working
    <3>2. CASE n \in 1..rows'[j].count /\ j # i
      BY <1>6, <2>1, <3>2 DEF Reached, RowsOf
    <3>3. CASE n \in 1..rows'[j].count /\ j = i
      <4>1. n \in 1..worker[t].saw /\ worker[t].saw \in Nat
        BY <1>1, <1>2, <1>6, <2>4, <3>3 DEF Ingest
      <4> QED  BY <1>1, <1>3, <3>3, <4>1 DEF Reached
    <3> QED  BY <2>4, <3>1, <3>2, <3>3 DEF Reached
  <2>5. Claimed(f)' \in SUBSET (Claimed(f) \cup {<<i, c>>})
    BY <2>1, <2>4 DEF Claimed
  <2>6. CspBound(f) /\ UNCHANGED <<posted, crowd>>
    BY <1>3, <1>4 DEF CspInv
  <2> QED  BY <1>2, <1>4, <2>1, <2>2, <2>3, <2>5, <2>6, ClaimTaken
<1> QED  BY <1>7, <1>8, <1>9, <1>10 DEF CspInv

LEMMA InsertStep ==
  ASSUME CspInv, NEW t \in Worker, Insert(t)
  PROVE  CspInv'
<1>1. PICK f, i, row : f = worker[t].fingerprint /\ i = Len(rows) + 1
                       /\ row = [fingerprint |-> f, count |-> 1]
  OBVIOUS
<1>2. /\ CspTypes /\ WorkerShape /\ rows \in Seq(Row \cup {Gone})
      /\ worker \in [Worker -> Ingest] /\ worker[t] \in Ingest
  BY DEF CspInv, CspTypes
<1>3. /\ Working(t, "insert")
      /\ rows' = Append(rows, row)
      /\ worker' = [worker EXCEPT ![t] = Rest]
      /\ UNCHANGED <<posted, crowd>>
  BY <1>1 DEF Insert, Release
<1>4. f \in Fingerprint /\ row \in Row /\ row.fingerprint = f /\ row.count = 1
  BY <1>1, <1>2, <1>3 DEF WorkerShape, Working, Row
<1>5. /\ worker'[t] = Rest /\ worker'[t].fingerprint = None
      /\ \A u \in Worker \ {t} : worker'[u] = worker[u]
  BY <1>2, <1>3 DEF Rest
<1>6. /\ rows' \in Seq(Row \cup {Gone})
      /\ DOMAIN rows' = DOMAIN rows \cup {i} /\ i \notin DOMAIN rows
      /\ rows'[i] = row
      /\ \A j \in DOMAIN rows : rows'[j] = rows[j]
  BY <1>1, <1>2, <1>3, <1>4
<1>7. CspTypes'
  <2>1. Rest \in Ingest
    BY DEF Rest, Ingest
  <2> QED  BY <1>2, <1>3, <1>6, <2>1 DEF CspTypes
<1>8. WorkerShape'
  BY <1>2, <1>4, <1>5, <1>6 DEF WorkerShape, Working, Rest
<1>9. ASSUME NEW g \in Fingerprint, g # f
      PROVE  CspBound(g)'
  <2>1. \A j \in DOMAIN rows' : \/ rows'[j].fingerprint # g
                                \/ j \in DOMAIN rows /\ rows'[j] = rows[j]
    BY <1>4, <1>6, <1>9
  <2>2. worker[t].fingerprint # g /\ worker'[t].fingerprint # g
    BY <1>1, <1>5, <1>9, NoFingerprint
  <2> QED  BY <1>3, <1>5, <1>6, <1>7, <1>8, <2>1, <2>2, OthersKept
<1>10. CspBound(f)'
  <2>1. RowsOf(f)' = RowsOf(f) \cup {i} /\ i \notin RowsOf(f)
    BY <1>4, <1>6 DEF RowsOf
  <2>2. Active(f)' = Active(f) \ {t} /\ t \in Active(f)
    BY <1>1, <1>4, <1>5, NoFingerprint DEF Active
  <2>3. Inserting(f)' = Inserting(f) \ {t} /\ t \in Inserting(f)
    BY <1>3, <1>5, <2>2 DEF Inserting, Working
  <2>4. ASSUME NEW j \in RowsOf(f)', NEW n \in Nat, Reached(j, n)', <<j, n>> # <<i, 1>>
        PROVE  j \in RowsOf(f) /\ Reached(j, n)
    <3>1. CASE \E u \in Worker : /\ Working(u, "bump")' /\ worker'[u].row = j
                                 /\ n \in 1..worker'[u].saw
      <4>1. PICK u \in Worker : /\ Working(u, "bump")' /\ worker'[u].row = j
                                /\ n \in 1..worker'[u].saw
        BY <3>1
      <4>2. u # t
        BY <1>5, <4>1 DEF Working, Rest
      <4>3. j \in DOMAIN rows
        BY <1>2, <1>5, <4>1, <4>2 DEF WorkerShape, Working
      <4> QED  BY <1>5, <1>6, <2>1, <2>4, <4>1, <4>2, <4>3 DEF Reached, Working
    <3>2. CASE n \in 1..rows'[j].count /\ j # i
      BY <1>6, <2>1, <2>4, <3>2 DEF Reached, RowsOf
    <3>3. CASE n \in 1..rows'[j].count /\ j = i
      BY <1>4, <1>6, <2>4, <3>3
    <3> QED  BY <2>4, <3>1, <3>2, <3>3 DEF Reached
  <2>5. Claimed(f)' \in SUBSET (Claimed(f) \cup {<<i, 1>>})
    BY <2>4 DEF Claimed
  <2>6. Cardinality(RowsOf(f)') + Cardinality(Inserting(f)') <= crowd[f]
    <3>1. Cardinality(RowsOf(f)') = Cardinality(RowsOf(f)) + 1
          /\ Cardinality(RowsOf(f)) \in Nat
      BY <1>2, <2>1, RowsFinite, FS_AddElement
    <3>2. Cardinality(Inserting(f)') = Cardinality(Inserting(f)) - 1
          /\ Cardinality(Inserting(f)) \in Nat
      BY <2>3, ActiveFinite, FS_RemoveElement
    <3>3. Cardinality(RowsOf(f)) + Cardinality(Inserting(f)) <= crowd[f]
          /\ crowd[f] \in Nat
      BY <1>2, <1>4 DEF CspInv, CspBound, CspTypes
    <3> QED  BY <3>1, <3>2, <3>3
  <2>7. CspBound(f)
    BY <1>4 DEF CspInv
  <2>8. /\ IsFiniteSet(Claimed(f)')
        /\ Cardinality(Active(f)') <= crowd[f]
        /\ Cardinality(Claimed(f)') + Cardinality(Active(f)') <= posted[f]
    BY <1>2, <1>4, <2>2, <2>5, <2>7, ClaimAdded
  <2> QED  BY <1>3, <2>6, <2>8 DEF CspBound
<1> QED  BY <1>7, <1>8, <1>9, <1>10 DEF CspInv

LEMMA FailIngestStep ==
  ASSUME CspInv, NEW t \in Worker, FailIngest(t)
  PROVE  CspInv'
<1>1. PICK f : f = worker[t].fingerprint
  OBVIOUS
<1>2. /\ CspTypes /\ WorkerShape /\ worker \in [Worker -> Ingest]
      /\ worker' = [worker EXCEPT ![t] = Rest] /\ ~Working(t, "idle")
      /\ UNCHANGED <<rows, posted, crowd>>
  BY DEF CspInv, CspTypes, FailIngest, Release
<1>3. /\ worker'[t] = Rest /\ worker'[t].fingerprint = None
      /\ \A u \in Worker \ {t} : worker'[u] = worker[u]
  BY <1>2 DEF Rest
<1>4. CspTypes' /\ WorkerShape'
  <2>1. Rest \in Ingest
    BY DEF Rest, Ingest
  <2> QED  BY <1>2, <1>3, <2>1 DEF CspTypes, WorkerShape, Working, Rest
<1>5. ASSUME NEW g \in Fingerprint, g # f
      PROVE  CspBound(g)'
  <2>1. worker[t].fingerprint # g /\ worker'[t].fingerprint # g
    BY <1>1, <1>3, <1>5, NoFingerprint
  <2> QED  BY <1>2, <1>3, <1>4, <2>1, OthersKept
<1>6. CspBound(f)'
  <2>1. RowsOf(f)' = RowsOf(f) /\ f \in Fingerprint
    BY <1>1, <1>2 DEF RowsOf, WorkerShape
  <2>2. \A u \in Active(f)' : u \in Active(f) /\ worker'[u] = worker[u]
    BY <1>3, <2>1, NoFingerprint DEF Active
  <2>3. Active(f)' \in SUBSET Active(f) /\ Inserting(f)' \in SUBSET Inserting(f)
    BY <2>2 DEF Inserting, Working
  <2>4. ASSUME NEW j, NEW n, Reached(j, n)'
        PROVE  Reached(j, n)
    BY <1>2, <1>3, <2>4 DEF Reached, Working, Rest
  <2>5. Claimed(f)' \in SUBSET Claimed(f)
    BY <2>1, <2>4 DEF Claimed
  <2> QED  BY <1>2, <1>4, <2>1, <2>3, <2>5, BoundKept DEF CspInv
<1> QED  BY <1>4, <1>5, <1>6 DEF CspInv

LEMMA PruneStep ==
  ASSUME CspInv, NEW old \in SUBSET DOMAIN rows, PruneCsp(old)
  PROVE  CspInv'
<1>1. /\ CspTypes /\ WorkerShape /\ rows \in Seq(Row \cup {Gone})
      /\ rows' = [i \in DOMAIN rows |-> IF i \in old THEN Gone ELSE rows[i]]
      /\ UNCHANGED <<worker, posted, crowd>>
  BY DEF CspInv, CspTypes, PruneCsp
<1>2. /\ DOMAIN rows' = DOMAIN rows
      /\ \A i \in DOMAIN rows : rows'[i] = rows[i] \/ rows'[i] = Gone
  BY <1>1
<1>3. rows' \in Seq(Row \cup {Gone})
  <2>1. DOMAIN rows = 1..Len(rows) /\ Len(rows) \in Nat
    BY <1>1
  <2>2. rows' \in [1..Len(rows) -> Row \cup {Gone}]
    BY <1>1, <2>1
  <2> QED  BY <2>1, <2>2, SeqDef
<1>4. CspTypes'
  BY <1>1, <1>3 DEF CspTypes
<1>5. WorkerShape'
  BY <1>1, <1>2 DEF WorkerShape, Working, Gone
<1>6. ASSUME NEW f \in Fingerprint
      PROVE  CspBound(f)'
  <2>1. \A i \in RowsOf(f)' : i \in RowsOf(f) /\ rows'[i] = rows[i]
    BY <1>2, NoFingerprint DEF RowsOf, Gone
  <2>2. Active(f)' = Active(f) /\ Inserting(f)' = Inserting(f)
    BY <1>1 DEF Active, Inserting, Working
  <2>3. Claimed(f)' \in SUBSET Claimed(f)
    BY <1>1, <2>1 DEF Claimed, Reached, Working
  <2> QED  BY <1>1, <1>4, <2>1, <2>2, <2>3, BoundKept DEF CspInv
<1> QED  BY <1>4, <1>5, <1>6 DEF CspInv

LEMMA InitCsp == Init => CspInv
<1> SUFFICES ASSUME Init PROVE CspInv
  OBVIOUS
<1>1. CspTypes
  BY DEF Init, CspTypes, Rest, Ingest
<1>2. WorkerShape
  BY DEF Init, WorkerShape, Working, Rest
<1>3. ASSUME NEW f \in Fingerprint
      PROVE  CspBound(f)
  <2>1. RowsOf(f) = {} /\ Claimed(f) = {}
    BY DEF Init, RowsOf, Claimed
  <2>2. Active(f) = {} /\ Inserting(f) = {}
    BY NoFingerprint DEF Init, Active, Inserting, Rest
  <2>3. IsFiniteSet({}) /\ Cardinality({}) = 0
    BY FS_EmptySet
  <2>4. posted[f] = 0 /\ crowd[f] = 0
    BY DEF Init
  <2> QED  BY <2>1, <2>2, <2>3, <2>4 DEF CspBound
<1> QED  BY <1>1, <1>2, <1>3 DEF CspInv

LEMMA NextCsp ==
  ASSUME CspInv, [Next]_vars
  PROVE  CspInv'
<1>1. ASSUME UNCHANGED csp
      PROVE  CspInv'
  BY <1>1 DEF csp, CspInv, CspTypes, WorkerShape, CspBound, Claimed, Reached,
     RowsOf, Active, Inserting, Working
<1>2. ASSUME NEW r \in Req, NEW g \in Gateway, NEW c \in Client, NEW kind \in Kinds,
             Arrive(r, g, c, kind)
      PROVE  UNCHANGED csp
  BY <1>2 DEF Arrive
<1>3. ASSUME NEW r \in Req, Limiting(r)
      PROVE  UNCHANGED csp
  BY <1>3, Zenon DEF Limiting, MemoryCount, CountLocally, SendIncr, Incr, Reply,
     Expire, Settle, Degrade, Finish
<1>4. ASSUME NEW g \in Gateway, Restart(g)
      PROVE  UNCHANGED csp
  BY <1>4 DEF Restart
<1>5. CASE RedisRestart \/ Tick
  BY <1>1, <1>5 DEF RedisRestart, Tick
<1>6. CASE UNCHANGED vars
  BY <1>1, <1>6 DEF vars
<1> QED
  BY <1>1, <1>2, <1>3, <1>4, <1>5, <1>6, PostStep, FindRowStep, BumpStep, InsertStep,
     FailIngestStep, PruneStep DEF Next

\* What the rows claim is reached, and the threads under way only add to it.
LEMMA ClaimsBounded ==
  ASSUME CspInv
  PROVE  CspTableBounded
<1> SUFFICES ASSUME NEW f \in Fingerprint
             PROVE  /\ Cardinality(RowsOf(f)) <= crowd[f]
                    /\ Cardinality(Claims(f)) <= posted[f]
  BY DEF CspTableBounded
<1>1. CspBound(f) /\ CspTypes /\ posted[f] \in Nat /\ crowd[f] \in Nat
  BY DEF CspInv, CspTypes
<1>2. Claims(f) \in SUBSET Claimed(f)
  BY DEF Claims, Claimed, Reached
<1>3. /\ Cardinality(Claims(f)) <= Cardinality(Claimed(f))
      /\ Cardinality(Claims(f)) \in Nat /\ Cardinality(Claimed(f)) \in Nat
  BY <1>1, <1>2, FS_Subset, FS_CardinalityType DEF CspBound
<1> QED  BY <1>1, <1>3, RowsFinite, ActiveFinite DEF CspBound

\* The look-up and the insertion of a report are two statements, and the index
\* on the fingerprint is not unique: what races still leave is bounded.
THEOREM CspBounded == Spec => []CspTableBounded
<1>1. CspInv /\ [Next]_vars => CspInv'
  BY NextCsp
<1> QED  BY <1>1, InitCsp, ClaimsBounded, PTL DEF Spec

-----------------------------------------------------------------------------
\* The limiter of the gateways, in memory or in Redis, grants each key only
\* what Quota does, whatever is late or lost.
THEOREM QuotaKept == Spec => LimiterKeepsQuota
<1>1. Init => IInv /\ PerCounter!Init
  BY InitIInv
<1>2. IInv /\ [Next]_vars => IInv' /\ [PerCounter!Next]_granted
  BY NextIInv
<1> QED
  BY <1>1, <1>2, PTL DEF Spec, LimiterKeepsQuota, PerCounter!Spec

\* No counter grants a key more in a window than its limit (over_limit).
THEOREM NoCounterExceeds == Spec => []PerCounter!WithinLimit
<1> DEFINE Safe == PerCounter!TypeOK /\ PerCounter!WithinLimit
<1>1. \A b \in PerCounter!Bucket : Limit[b[1]] \in Nat
  BY LimitType DEF PerCounter!Bucket
<1>2. PerCounter!Init => Safe
  BY <1>1 DEF PerCounter!Init, PerCounter!Nothing, PerCounter!TypeOK, PerCounter!WithinLimit
<1>3. Safe /\ [PerCounter!Next]_granted => Safe'
  <2> SUFFICES ASSUME Safe, [PerCounter!Next]_granted PROVE Safe'
    OBVIOUS
  <2>1. ASSUME NEW c \in Counter, PerCounter!Forget(c)
        PROVE  Safe'
    BY <2>1, <1>1 DEF PerCounter!Forget, PerCounter!Nothing, PerCounter!TypeOK, PerCounter!WithinLimit
  <2>2. ASSUME NEW c \in Counter, NEW b \in PerCounter!Bucket, PerCounter!Admit(c, b)
        PROVE  Safe'
    BY <2>2, <1>1 DEF PerCounter!Admit, PerCounter!TypeOK, PerCounter!WithinLimit
  <2>3. CASE UNCHANGED granted
    BY <2>3 DEF PerCounter!TypeOK, PerCounter!WithinLimit
  <2> QED
    BY <2>1, <2>2, <2>3 DEF PerCounter!Next
<1> QED
  BY <1>2, <1>3, QuotaKept, PTL DEF LimiterKeepsQuota, PerCounter!Spec

-----------------------------------------------------------------------------
(* Uploads behind the gateway                                             *)

\* What the coroutine of an upload knows at its step; it is the one that keeps
\* the event loop while it waits for a connection, and has none then.
Carried(r) ==
  /\ job[r].step \in {"fetch", "resolve"} => enabled \subseteq job[r].allowed
  /\ job[r].step \in {"store", "insert", "call"} =>
       ToSet(job[r].keys) \subseteq job[r].allowed
  /\ job[r].step \in {"insert", "call"} => job[r].keys # << >> /\ r \in blobs
  /\ JobAt(r, "refresh") => proc[r] # Absent
  /\ Len(job[r].results) <= Len(job[r].keys)
  /\ ~JobAt(r, "call") => job[r].results = << >>
  /\ job[r].conn => job[r].step \in {"call", "close"}
  /\ loop = r <=> job[r].step \in {"insert", "refresh"}

ImagesInv ==
  /\ ImagesTypeOK
  /\ \A r \in Upload : Carried(r)
  /\ StoredWhole

\* What the cascade selects is enabled, in whatever order the rows are read.
LEMMA SelectionsEnabled ==
  ASSUME enabled \in SUBSET Provider, NEW w \in Wish, NEW keys \in Selections(w)
  PROVE  keys \in Seq(Provider) /\ ToSet(keys) \subseteq enabled
<1>1. ASSUME NEW S, IsFiniteSet(S), NEW f \in SetToSeqs(S)
      PROVE  /\ Cardinality(S) \in Nat
             /\ f \in [1..Cardinality(S) -> S]
  BY <1>1, FS_CardinalityType DEF SetToSeqs
<1>2. ASSUME NEW n \in Nat, NEW f \in [1..n -> Provider]
      PROVE  f \in Seq(Provider)
  BY <1>2, SeqDef
<1>3. CASE w = << >>
  <2>1. keys \in SetToSeqs(enabled) /\ IsFiniteSet(enabled)
    BY <1>3, ProviderAssumption, FS_Subset DEF Selections
  <2>2. Cardinality(enabled) \in Nat /\ keys \in [1..Cardinality(enabled) -> enabled]
    BY <2>1, <1>1
  <2>3. keys \in [1..Cardinality(enabled) -> Provider] /\ ToSet(keys) \subseteq enabled
    BY <2>2 DEF ToSet
  <2> QED  BY <1>2, <2>2, <2>3
<1>4. CASE w # << >>
  <2> DEFINE kept == {i \in DOMAIN w : w[i] \in enabled}
  <2>1. PICK places \in SetToSeqs(kept) : keys = [i \in DOMAIN places |-> w[places[i]]]
    BY <1>4, Zenon DEF Selections
  <2>2. w \in Seq(Provider)
    BY WishAssumption
  <2>3. IsFiniteSet(DOMAIN w)
    <3>1. DOMAIN w = 1..Len(w) /\ Len(w) \in Nat
      BY <2>2
    <3> QED  BY <3>1, FS_Interval
  <2>4. IsFiniteSet(kept)
    BY <2>3, FS_Subset
  <2>5. Cardinality(kept) \in Nat /\ places \in [1..Cardinality(kept) -> kept]
    BY <2>1, <2>4, <1>1
  <2>6. keys \in [1..Cardinality(kept) -> enabled]
    BY <2>1, <2>5
  <2>7. keys \in [1..Cardinality(kept) -> Provider]
    BY <2>6
  <2>8. keys \in Seq(Provider)
    BY <1>2, <2>5, <2>7
  <2>9. ToSet(keys) \subseteq enabled
    BY <2>6 DEF ToSet
  <2> QED  BY <2>8, <2>9
<1> QED  BY <1>3, <1>4

LEMMA IdleIsJob == IdleJob \in Job
BY WishAssumption DEF IdleJob, Job

LEMMA InitImages == ImagesInit => ImagesInv
<1> SUFFICES ASSUME ImagesInit PROVE ImagesInv
  OBVIOUS
<1>1. ImagesTypeOK
  BY IdleIsJob DEF ImagesInit, ImagesTypeOK
<1>2. \A r \in Upload : Carried(r)
  BY UploadAssumption DEF ImagesInit, Carried, IdleJob, JobAt
<1> QED  BY <1>1, <1>2 DEF ImagesInv, ImagesInit, StoredWhole

\* A step of one coroutine that neither commits nor answers "created" has only
\* that coroutine to account for.
LEMMA OneCarried ==
  ASSUME ImagesInv, NEW r \in Upload, NEW new \in Job,
         job' = [job EXCEPT ![r] = new],
         enabled' = enabled, proc' = proc, loop' \in {loop, r, Absent},
         loop \in {r, Absent} \/ loop' = loop,
         blobs' \in {blobs, blobs \cup {r}},
         reader' = reader,
         answer' \in [Upload -> {"none", "created", "failed"}],
         \A q \in Upload : answer'[q] = "created" => answer[q] = "created" \/ proc[q] # Absent,
         Carried(r)'
  PROVE  ImagesInv'
<1>1. ImagesTypeOK'
  BY UploadAssumption DEF ImagesInv, ImagesTypeOK
<1>2. ASSUME NEW q \in Upload, q # r
      PROVE  Carried(q)'
  <2>1. job'[q] = job[q] /\ Carried(q)
    BY <1>2 DEF ImagesInv, ImagesTypeOK
  <2>2. loop' = q <=> loop = q
    BY <1>2, UploadAssumption
  <2> QED  BY <2>1, <2>2 DEF Carried, JobAt
<1>3. StoredWhole'
  BY Zenon DEF ImagesInv, StoredWhole
<1> QED  BY <1>1, <1>2, <1>3 DEF ImagesInv

\* What a coroutine says counts only once; "created" is not among what the
\* handler says when it is left early.
LEMMA SaysFailed ==
  ASSUME ImagesInv, NEW r \in Upload, Say(r, "failed")
  PROVE  /\ answer' \in [Upload -> {"none", "created", "failed"}]
         /\ \A q \in Upload : answer'[q] = "created" => answer[q] = "created"
BY DEF ImagesInv, ImagesTypeOK, Say

LEMMA LeaveStep ==
  ASSUME ImagesInv, NEW r \in Upload, Leave(r, "failed"),
         enabled' = enabled, proc' = proc, reader' = reader, blobs' = blobs,
         \/ loop = Absent /\ loop' = Absent
         \/ loop = r /\ loop' = Absent
  PROVE  ImagesInv'
<1> DEFINE new == [IdleJob EXCEPT !.step = "close", !.conn = job[r].conn]
<1>1. job[r] \in Job
  BY DEF ImagesInv, ImagesTypeOK
<1>2. new \in Job
  BY <1>1, IdleIsJob DEF Job
<1>3. job' = [job EXCEPT ![r] = new] /\ Say(r, "failed")
  BY DEF Leave
<1>4. Carried(r)'
  <2>1. job'[r] = new /\ loop' # r
    BY <1>3, UploadAssumption DEF ImagesInv, ImagesTypeOK
  <2>2. /\ new.step = "close" /\ new.results = << >> /\ new.keys = << >>
    BY DEF IdleJob
  <2> HIDE DEF new
  <2> QED  BY <2>1, <2>2 DEF Carried, JobAt
<1> HIDE DEF new
<1> QED  BY <1>2, <1>3, <1>4, SaysFailed, OneCarried

LEMMA ReceiveStep ==
  ASSUME ImagesInv, NEW r \in Upload, NEW w \in Wish, NEW s \in {"fetch", "resolve"},
         Receive(r, w, s)
  PROVE  ImagesInv'
<1> DEFINE new == [job[r] EXCEPT !.step = s, !.wish = w, !.allowed = enabled]
<1>1. job[r] \in Job /\ enabled \in SUBSET Provider /\ Carried(r) /\ job \in [Upload -> Job]
  BY DEF ImagesInv, ImagesTypeOK
<1>2. new \in Job
  BY <1>1 DEF Job
<1>3. job' = [job EXCEPT ![r] = new]
  BY <1>1 DEF Receive, Job
<1>4. Carried(r)'
  <2>1. job'[r] = new /\ job[r].step = "idle"
    BY <1>1, <1>3 DEF Receive, JobAt
  <2>2. /\ new.step = s /\ new.allowed = enabled /\ new.conn = job[r].conn
        /\ new.keys = job[r].keys /\ new.results = job[r].results
    BY <1>1 DEF Job
  <2> HIDE DEF new
  <2> QED  BY <1>1, <2>1, <2>2 DEF Carried, JobAt, Receive
<1> HIDE DEF new
<1> QED  BY <1>2, <1>3, <1>4, OneCarried DEF Receive, ImagesInv, ImagesTypeOK

LEMMA FetchStep ==
  ASSUME ImagesInv, NEW r \in Upload, Fetch(r)
  PROVE  ImagesInv'
<1> DEFINE new == [job[r] EXCEPT !.step = "resolve"]
<1>1. job[r] \in Job /\ Carried(r) /\ job \in [Upload -> Job]
  BY DEF ImagesInv, ImagesTypeOK
<1>2. new \in Job
  BY <1>1 DEF Job
<1>3. job' = [job EXCEPT ![r] = new]
  BY DEF Fetch
<1>4. Carried(r)'
  <2>1. job'[r] = new /\ job[r].step = "fetch"
    BY <1>1, <1>3 DEF Fetch, Resumes, JobAt
  <2>2. /\ new.step = "resolve" /\ new.allowed = job[r].allowed /\ new.conn = job[r].conn
        /\ new.keys = job[r].keys /\ new.results = job[r].results
    BY <1>1 DEF Job
  <2> HIDE DEF new
  <2> QED  BY <1>1, <2>1, <2>2 DEF Carried, JobAt, Fetch
<1> HIDE DEF new
<1> QED  BY <1>2, <1>3, <1>4, OneCarried DEF Fetch, ImagesInv, ImagesTypeOK

LEMMA ResolveStep ==
  ASSUME ImagesInv, NEW r \in Upload, Resolve(r)
  PROVE  ImagesInv'
<1>1. /\ job[r] \in Job /\ Carried(r) /\ job \in [Upload -> Job]
      /\ enabled \in SUBSET Provider
  BY DEF ImagesInv, ImagesTypeOK
<1>2. PICK keys \in Selections(job[r].wish) :
        job' = [job EXCEPT ![r].keys = keys, ![r].wish = << >>, ![r].step = "store"]
  BY DEF Resolve
<1>3. keys \in Seq(Provider) /\ ToSet(keys) \subseteq enabled
  <2>1. job[r].wish \in Wish
    BY <1>1 DEF Job
  <2> QED  BY <1>1, <1>2, <2>1, SelectionsEnabled
<1> DEFINE new == [job[r] EXCEPT !.keys = keys, !.wish = << >>, !.step = "store"]
<1>4. new \in Job
  BY <1>1, <1>3, WishAssumption DEF Job
<1>5. job' = [job EXCEPT ![r] = new]
  BY <1>1, <1>2 DEF Job
<1>6. Carried(r)'
  <2>1. job'[r] = new /\ job[r].step = "resolve"
    BY <1>1, <1>5 DEF Resolve, JobAt
  <2>2. /\ new.step = "store" /\ new.allowed = job[r].allowed /\ new.conn = job[r].conn
        /\ new.keys = keys /\ new.results = job[r].results
    BY <1>1 DEF Job
  <2>3. /\ job[r].results = << >> /\ enabled \subseteq job[r].allowed
        /\ ~job[r].conn /\ loop # r
    BY <1>1, <2>1 DEF Carried, JobAt, Job
  <2>4. Len(new.results) <= Len(new.keys)
    BY <1>3, <2>2, <2>3
  <2>5. ToSet(new.keys) \subseteq new.allowed
    BY <1>3, <2>2, <2>3, Zenon
  <2>6. loop' # r
    BY <2>3 DEF Resolve
  <2> HIDE DEF new
  <2> QED  BY <2>1, <2>2, <2>3, <2>4, <2>5, <2>6 DEF Carried, JobAt
<1> HIDE DEF new
<1> QED  BY <1>4, <1>5, <1>6, OneCarried DEF Resolve, ImagesInv, ImagesTypeOK

LEMMA ResolveFailsStep ==
  ASSUME ImagesInv, NEW r \in Upload, ResolveFails(r)
  PROVE  ImagesInv'
BY LeaveStep DEF ResolveFails, Resumes

LEMMA StoreStep ==
  ASSUME ImagesInv, NEW r \in Upload, Store(r)
  PROVE  ImagesInv'
<1>1. CASE Leave(r, "failed") /\ UNCHANGED <<loop, blobs>>
  BY <1>1, LeaveStep DEF Store, Save, Resumes
<1>2. CASE /\ job[r].keys # << >>
           /\ blobs' = blobs \cup {r}
           /\ job' = [job EXCEPT ![r].step = "insert"]
           /\ loop' = r
           /\ UNCHANGED answer
  <2> DEFINE new == [job[r] EXCEPT !.step = "insert"]
  <2>1. /\ job[r] \in Job /\ Carried(r) /\ job \in [Upload -> Job]
        /\ blobs \in SUBSET Upload /\ job[r].step = "store" /\ loop = Absent
    BY DEF ImagesInv, ImagesTypeOK, Store, Save, Resumes, JobAt
  <2>2. new \in Job
    BY <2>1 DEF Job
  <2>3. job' = [job EXCEPT ![r] = new]
    BY <1>2
  <2>4. Carried(r)'
    <3>1. job'[r] = new /\ r \in blobs'
      BY <1>2, <2>1, <2>3
    <3>2. /\ new.step = "insert" /\ new.allowed = job[r].allowed /\ new.conn = job[r].conn
          /\ new.keys = job[r].keys /\ new.results = job[r].results
      BY <2>1 DEF Job
    <3> HIDE DEF new
    <3> QED  BY <1>2, <2>1, <3>1, <3>2 DEF Carried, JobAt
  <2> HIDE DEF new
  <2> QED  BY <1>2, <2>1, <2>2, <2>3, <2>4, OneCarried DEF Store, Save, ImagesInv, ImagesTypeOK
<1> QED  BY <1>1, <1>2 DEF Store, Save

LEMMA InsertRowsStep ==
  ASSUME ImagesInv, NEW r \in Upload, InsertRows(r)
  PROVE  ImagesInv'
<1> DEFINE new == [job[r] EXCEPT !.step = "call", !.conn = TRUE]
<1>1. /\ job[r] \in Job /\ Carried(r) /\ job \in [Upload -> Job]
      /\ job[r].step = "insert" /\ loop = r
  BY DEF ImagesInv, ImagesTypeOK, InsertRows, JobAt, Carried
<1>2. new \in Job
  BY <1>1 DEF Job
<1>3. job' = [job EXCEPT ![r] = new]
  BY <1>1 DEF InsertRows, Inserted, Job
<1>4. Carried(r)'
  <2>1. job'[r] = new /\ loop' # r /\ r \in blobs'
    BY <1>1, <1>3, UploadAssumption DEF InsertRows, Carried
  <2>2. /\ new.step = "call" /\ new.allowed = job[r].allowed
        /\ new.keys = job[r].keys /\ new.results = job[r].results
    BY <1>1 DEF Job
  <2> HIDE DEF new
  <2> QED  BY <1>1, <2>1, <2>2 DEF Carried, JobAt
<1> HIDE DEF new
<1> QED  BY <1>1, <1>2, <1>3, <1>4, OneCarried DEF InsertRows, ImagesInv, ImagesTypeOK

LEMMA CallReturnsStep ==
  ASSUME ImagesInv, NEW r \in Upload, CallReturns(r)
  PROVE  ImagesInv'
<1>1. /\ job[r] \in Job /\ Carried(r) /\ job \in [Upload -> Job]
      /\ job[r].step = "call" /\ loop = Absent
  BY DEF ImagesInv, ImagesTypeOK, CallReturns, Resumes, JobAt
<1>2. PICK s \in Outcome : job' = [job EXCEPT ![r].results = Append(@, s)]
  BY DEF CallReturns
<1> DEFINE new == [job[r] EXCEPT !.results = Append(@, s)]
<1>3. /\ job[r].results \in Seq(Outcome) /\ job[r].keys \in Seq(Provider)
      /\ Len(job[r].results) < Len(job[r].keys)
  BY <1>1 DEF Job, CallReturns
<1>4. /\ Append(job[r].results, s) \in Seq(Outcome)
      /\ Len(Append(job[r].results, s)) <= Len(job[r].keys)
  BY <1>3
<1>5. new \in Job
  BY <1>1, <1>4 DEF Job
<1>6. job' = [job EXCEPT ![r] = new]
  BY <1>2
<1>7. Carried(r)'
  <2>1. job'[r] = new
    BY <1>1, <1>6
  <2>2. /\ new.step = "call" /\ new.allowed = job[r].allowed /\ new.conn = job[r].conn
        /\ new.keys = job[r].keys /\ new.results = Append(job[r].results, s)
    BY <1>1 DEF Job
  <2> HIDE DEF new
  <2> QED  BY <1>1, <1>4, <2>1, <2>2 DEF Carried, JobAt, CallReturns
<1> HIDE DEF new
<1> QED  BY <1>1, <1>5, <1>6, <1>7, OneCarried DEF CallReturns, ImagesInv, ImagesTypeOK

\* The one step that makes something readable: all answers are in, and the image
\* was stored before the first call.
LEMMA CommitStep ==
  ASSUME ImagesInv, NEW r \in Upload, CommitImage(r)
  PROVE  ImagesInv'
<1> DEFINE new == [IdleJob EXCEPT !.step = "refresh"]
           row == [status |-> Status(job[r].results), keys |-> job[r].keys,
                   results |-> job[r].results]
<1>1. /\ job[r] \in Job /\ Carried(r) /\ job \in [Upload -> Job]
      /\ proc \in [Upload -> ProcRow \cup {Absent}]
      /\ job[r].step = "call" /\ loop = Absent
      /\ job' = [job EXCEPT ![r] = new] /\ proc' = [proc EXCEPT ![r] = row]
  BY DEF ImagesInv, ImagesTypeOK, CommitImage, Resumes, JobAt
<1>2. new \in Job
  BY IdleIsJob DEF Job
<1>3. row \in ProcRow /\ row # Absent
  BY <1>1, AbsentAssumption DEF Job, ProcRow, Status
<1>4. ImagesTypeOK'
  <2> HIDE DEF new, row
  <2> QED  BY <1>1, <1>2, <1>3 DEF ImagesInv, ImagesTypeOK, CommitImage
<1>5. ASSUME NEW q \in Upload
      PROVE  Carried(q)'
  <2>1. CASE q = r
    <3>1. job'[r] = new /\ loop' = r /\ proc'[r] # Absent
      BY <1>1, <1>3 DEF CommitImage
    <3>2. /\ new.step = "refresh" /\ new.conn = FALSE
          /\ new.keys = << >> /\ new.results = << >>
      BY DEF IdleJob
    <3> HIDE DEF new, row
    <3> QED  BY <2>1, <3>1, <3>2 DEF Carried, JobAt
  <2>2. CASE q # r
    <3>1. Carried(q) /\ job'[q] = job[q] /\ proc'[q] = proc[q] /\ loop # q /\ loop' # q
      BY <1>1, <2>2, UploadAssumption DEF ImagesInv, CommitImage
    <3> QED  BY <3>1 DEF Carried, JobAt, CommitImage
  <2> QED  BY <2>1, <2>2
<1>6. StoredWhole'
  <2>1. /\ Len(row.results) = Len(row.keys) /\ row.keys # << >> /\ r \in blobs
        /\ row.status = "completed" <=>
             \E i \in DOMAIN row.results : row.results[i] = "success"
    BY <1>1 DEF Carried, CommitImage, Status
  <2>2. \A q \in Upload : proc'[q] = IF q = r THEN row ELSE proc[q]
    BY <1>1
  <2>3. answer' = answer /\ blobs' = blobs
    BY DEF CommitImage
  <2> HIDE DEF new, row
  <2>4. ASSUME NEW q \in Upload
        PROVE  /\ answer'[q] = "created" => proc'[q] # Absent
               /\ proc'[q] # Absent =>
                    /\ Len(proc'[q].results) = Len(proc'[q].keys)
                    /\ proc'[q].keys # << >>
                    /\ proc'[q].status = "completed" <=>
                         \E i \in DOMAIN proc'[q].results : proc'[q].results[i] = "success"
                    /\ q \in blobs'
    <3>1. CASE q = r
      <4>1. proc'[q] = row
        BY <2>2, <3>1
      <4> QED  BY <1>3, <2>1, <2>3, <3>1, <4>1
    <3>2. CASE q # r
      <4>1. proc'[q] = proc[q]
        BY <2>2, <3>2
      <4> QED  BY <2>3, <4>1 DEF ImagesInv, StoredWhole
    <3> QED  BY <3>1, <3>2
  <2> QED  BY <2>4, Zenon DEF StoredWhole
<1> QED  BY <1>4, <1>5, <1>6, Zenon DEF ImagesInv

LEMMA RefreshStep ==
  ASSUME ImagesInv, NEW r \in Upload, Refresh(r)
  PROVE  ImagesInv'
<1> DEFINE new == [job[r] EXCEPT !.step = "close", !.conn = TRUE]
<1>1. /\ job[r] \in Job /\ Carried(r) /\ job \in [Upload -> Job]
      /\ job[r].step = "refresh" /\ loop = r /\ proc[r] # Absent
  BY DEF ImagesInv, ImagesTypeOK, Refresh, JobAt, Carried
<1>2. new \in Job
  BY <1>1 DEF Job
<1>3. job' = [job EXCEPT ![r] = new]
  BY <1>1 DEF Refresh, Job
<1>4. Carried(r)'
  <2>1. job'[r] = new /\ loop' # r
    BY <1>1, <1>3, UploadAssumption DEF Refresh
  <2>2. new.step = "close" /\ new.keys = job[r].keys /\ new.results = job[r].results
    BY <1>1 DEF Job
  <2> HIDE DEF new
  <2> QED  BY <1>1, <2>1, <2>2 DEF Carried, JobAt
<1>5. /\ answer' \in [Upload -> {"none", "created", "failed"}]
      /\ \A q \in Upload : answer'[q] = "created" => answer[q] = "created" \/ proc[q] # Absent
  BY <1>1 DEF Refresh, Say, ImagesInv, ImagesTypeOK
<1> HIDE DEF new
<1> QED  BY <1>1, <1>2, <1>3, <1>4, <1>5, OneCarried DEF Refresh

LEMMA PoolTimeoutStep ==
  ASSUME ImagesInv, NEW r \in Upload, PoolTimeout(r)
  PROVE  ImagesInv'
<1>1. loop = r
  BY DEF ImagesInv, Carried, PoolTimeout, JobAt
<1> QED  BY <1>1, LeaveStep DEF PoolTimeout

LEMMA CloseStep ==
  ASSUME ImagesInv, NEW r \in Upload, Close(r)
  PROVE  ImagesInv'
<1>1. Carried(r)'
  <2>1. job'[r] = IdleJob /\ loop' # r
    BY UploadAssumption DEF Close, Resumes, ImagesInv, ImagesTypeOK
  <2> QED  BY <2>1 DEF Carried, JobAt, IdleJob
<1> QED  BY <1>1, IdleIsJob, OneCarried DEF Close, ImagesInv, ImagesTypeOK

-----------------------------------------------------------------------------
(* Steps of the surroundings *)

LEMMA GatewayTimeoutStep ==
  ASSUME ImagesInv, NEW r \in Upload, GatewayTimeout(r)
  PROVE  ImagesInv'
<1>1. ImagesTypeOK'
  BY SaysFailed DEF GatewayTimeout, ImagesInv, ImagesTypeOK
<1>2. \A q \in Upload : Carried(q)'
  BY DEF GatewayTimeout, ImagesInv, Carried, JobAt
<1>3. StoredWhole'
  BY SaysFailed, Zenon DEF GatewayTimeout, ImagesInv, StoredWhole
<1> QED  BY <1>1, <1>2, <1>3, Zenon DEF ImagesInv

LEMMA ReadStepStep ==
  ASSUME ImagesInv, NEW t \in Reader, ReadStep(t)
  PROVE  ImagesInv'
<1>1. ImagesTypeOK'
  BY DEF ReadStep, Select, ImagesInv, ImagesTypeOK
<1>2. \A q \in Upload : Carried(q)'
  BY DEF ReadStep, Select, ImagesInv, Carried, JobAt
<1>3. StoredWhole'
  BY Zenon DEF ReadStep, Select, ImagesInv, StoredWhole
<1> QED  BY <1>1, <1>2, <1>3, Zenon DEF ImagesInv

\* What is enabled while an upload is still to be resolved counts as allowed.
LEMMA SetEnabledStep ==
  ASSUME ImagesInv, NEW k \in Provider, SetEnabled(k)
  PROVE  ImagesInv'
<1>1. /\ enabled' \in SUBSET Provider /\ job \in [Upload -> Job]
      /\ job' = [r \in Upload |-> IF JobAt(r, "fetch") \/ JobAt(r, "resolve")
                   THEN [job[r] EXCEPT !.allowed = @ \cup enabled'] ELSE job[r]]
  BY DEF SetEnabled, ImagesInv, ImagesTypeOK
<1>2. ASSUME NEW q \in Upload
      PROVE  /\ job'[q] \in Job
             /\ \/ job'[q] = job[q] /\ ~JobAt(q, "fetch") /\ ~JobAt(q, "resolve")
                \/ /\ job'[q] = [job[q] EXCEPT !.allowed = job[q].allowed \cup enabled']
                   /\ job[q].step \in {"fetch", "resolve"}
  BY <1>1 DEF Job, JobAt
<1>3. ImagesTypeOK'
  <2>1. job' \in [Upload -> Job]
    BY <1>1, <1>2
  <2> QED  BY <1>1, <2>1 DEF SetEnabled, ImagesInv, ImagesTypeOK
<1>4. ASSUME NEW q \in Upload
      PROVE  Carried(q)'
  <2>1. Carried(q) /\ job[q] \in Job /\ blobs' = blobs /\ proc' = proc /\ loop' = loop
    BY DEF SetEnabled, ImagesInv, ImagesTypeOK
  <2>2. CASE job'[q] = job[q] /\ ~JobAt(q, "fetch") /\ ~JobAt(q, "resolve")
    BY <2>1, <2>2 DEF Carried, JobAt
  <2>3. CASE /\ job'[q] = [job[q] EXCEPT !.allowed = job[q].allowed \cup enabled']
             /\ job[q].step \in {"fetch", "resolve"}
    <3>1. /\ job'[q].step = job[q].step /\ enabled' \subseteq job'[q].allowed
          /\ job'[q].keys = job[q].keys /\ job'[q].results = job[q].results
          /\ job'[q].conn = job[q].conn
      BY <2>1, <2>3 DEF Job
    <3> QED  BY <2>1, <2>3, <3>1 DEF Carried, JobAt
  <2> QED  BY <1>2, <2>2, <2>3
<1>5. StoredWhole'
  BY Zenon DEF SetEnabled, ImagesInv, StoredWhole
<1> QED  BY <1>3, <1>4, <1>5, Zenon DEF ImagesInv

LEMMA RestartImagesStep ==
  ASSUME ImagesInv, RestartImages
  PROVE  ImagesInv'
<1>1. ImagesTypeOK'
  BY IdleIsJob DEF RestartImages, ImagesInv, ImagesTypeOK
<1>2. ASSUME NEW q \in Upload
      PROVE  Carried(q)'
  <2>1. job'[q] = IdleJob /\ loop' # q
    BY UploadAssumption DEF RestartImages
  <2> QED  BY <2>1 DEF Carried, JobAt, IdleJob
<1>3. StoredWhole'
  <2>1. \A q \in Upload : answer'[q] = "created" => answer[q] = "created"
    BY DEF RestartImages
  <2> QED  BY <2>1, Zenon DEF RestartImages, ImagesInv, StoredWhole
<1> QED  BY <1>1, <1>2, <1>3, Zenon DEF ImagesInv

LEMMA NextImages ==
  ASSUME ImagesInv, [ImagesNext]_imageVars
  PROVE  ImagesInv'
<1>1. ASSUME NEW r \in Upload, Work(r)
      PROVE  ImagesInv'
  BY <1>1, FetchStep, ResolveStep, ResolveFailsStep, StoreStep, InsertRowsStep,
     CallReturnsStep, CommitStep, RefreshStep, PoolTimeoutStep, CloseStep DEF Work
<1>2. CASE UNCHANGED imageVars
  <2>1. ImagesTypeOK' /\ \A q \in Upload : Carried(q)'
    BY <1>2 DEF imageVars, ImagesInv, ImagesTypeOK, Carried, JobAt
  <2>2. StoredWhole'
    BY <1>2, Zenon DEF imageVars, ImagesInv, StoredWhole
  <2> QED  BY <2>1, <2>2, Zenon DEF ImagesInv
<1> QED  BY <1>1, <1>2, ReceiveStep, GatewayTimeoutStep, ReadStepStep, SetEnabledStep,
            RestartImagesStep DEF ImagesNext

LEMMA ImagesInvariant == ImagesSpec => []ImagesInv
<1>1. ImagesInv /\ [ImagesNext]_imageVars => ImagesInv'
  BY NextImages
<1> QED  BY <1>1, InitImages, PTL DEF ImagesSpec

-----------------------------------------------------------------------------
\* Uploads, coroutines, connections and rows have the values the code gives them.
THEOREM ImageTypes == ImagesSpec => []ImagesTypeOK
<1>1. ImagesInv => ImagesTypeOK
  BY DEF ImagesInv
<1> QED  BY <1>1, ImagesInvariant, PTL

\* A provider that was disabled before the upload arrived is not called for it,
\* however admin-service changes its mind between two calls.
THEOREM EnabledCalled == ImagesSpec => []OnlyEnabledCalled
<1>1. ImagesInv => OnlyEnabledCalled
  BY DEF ImagesInv, Carried, JobAt, OnlyEnabledCalled
<1> QED  BY <1>1, ImagesInvariant, PTL

\* What can be read of an upload is whole, whatever was restarted, timed out or
\* failed meanwhile, and the portal is told "created" only of what is there.
THEOREM Whole == ImagesSpec => []StoredWhole
<1>1. ImagesInv => StoredWhole
  BY DEF ImagesInv
<1> QED  BY <1>1, ImagesInvariant, PTL

-----------------------------------------------------------------------------
(* The pool                                                                *)

\* The connections that uploads and reading threads hold.
Uploading == {r \in Upload : job[r].conn}
Reading == {t \in Reader : reader[t] = "read"}

LEMMA HeldFinite ==
  /\ IsFiniteSet(Uploading) /\ Cardinality(Uploading) \in Nat
  /\ IsFiniteSet(Reading) /\ Cardinality(Reading) \in Nat
  /\ Held = Cardinality(Uploading) + Cardinality(Reading)
  /\ Held \in Nat
<1>1. IsFiniteSet(Uploading) /\ IsFiniteSet(Reading)
  BY UploadAssumption, ReaderAssumption, FS_Subset DEF Uploading, Reading
<1>2. Cardinality(Uploading) \in Nat /\ Cardinality(Reading) \in Nat
  BY <1>1, FS_CardinalityType
<1> QED  BY <1>1, <1>2 DEF Held, Uploading, Reading

\* A connection is given back, or nothing changes hands.
LEMMA HeldShrinks ==
  ASSUME Uploading' \subseteq Uploading, Reading' \subseteq Reading, Held <= PoolSize
  PROVE  Held' <= PoolSize
<1>1. /\ Cardinality(Uploading') <= Cardinality(Uploading)
      /\ Cardinality(Reading') <= Cardinality(Reading)
      /\ Cardinality(Uploading') \in Nat /\ Cardinality(Reading') \in Nat
  BY HeldFinite, FS_Subset, FS_CardinalityType
<1>2. Held' = Cardinality(Uploading') + Cardinality(Reading')
  BY DEF Held, Uploading, Reading
<1> QED  BY <1>1, <1>2, HeldFinite, PoolAssumption

\* A connection is taken while one is free.
LEMMA HeldGrows ==
  ASSUME Free,
         \/ \E r \in Upload : Uploading' \subseteq Uploading \cup {r} /\ Reading' = Reading
         \/ \E t \in Reader : Reading' \subseteq Reading \cup {t} /\ Uploading' = Uploading
  PROVE  Held' <= PoolSize
<1>1. ASSUME NEW S, NEW T, NEW e, IsFiniteSet(S), T \subseteq S \cup {e}
      PROVE  Cardinality(T) \in Nat /\ Cardinality(T) <= Cardinality(S) + 1
  <2>1. /\ IsFiniteSet(S \cup {e}) /\ Cardinality(S) \in Nat
        /\ Cardinality(S \cup {e}) \in {Cardinality(S), Cardinality(S) + 1}
    BY <1>1, FS_AddElement, FS_CardinalityType
  <2>2. /\ Cardinality(T) \in Nat /\ Cardinality(T) <= Cardinality(S \cup {e})
    BY <1>1, <2>1, FS_Subset, FS_CardinalityType
  <2> QED  BY <2>1, <2>2
<1>2. Held' = Cardinality(Uploading') + Cardinality(Reading')
  BY DEF Held, Uploading, Reading
<1>3. Held < PoolSize
  BY DEF Free
<1>4. CASE \E r \in Upload : Uploading' \subseteq Uploading \cup {r} /\ Reading' = Reading
  <2>1. Cardinality(Uploading') \in Nat /\ Cardinality(Uploading') <= Cardinality(Uploading) + 1
    BY <1>1, <1>4, HeldFinite
  <2>2. Cardinality(Reading') = Cardinality(Reading)
    BY <1>4
  <2> QED  BY <1>2, <1>3, <2>1, <2>2, HeldFinite, PoolAssumption
<1>5. CASE \E t \in Reader : Reading' \subseteq Reading \cup {t} /\ Uploading' = Uploading
  <2>1. Cardinality(Reading') \in Nat /\ Cardinality(Reading') <= Cardinality(Reading) + 1
    BY <1>1, <1>5, HeldFinite
  <2>2. Cardinality(Uploading') = Cardinality(Uploading)
    BY <1>5
  <2> QED  BY <1>2, <1>3, <2>1, <2>2, HeldFinite, PoolAssumption
<1> QED  BY <1>4, <1>5

\* The pool lends no more connections than it has.
PoolKept == Held <= PoolSize

LEMMA PoolStep ==
  ASSUME ImagesInv, PoolKept, [ImagesNext]_imageVars
  PROVE  PoolKept'
<1>1. job \in [Upload -> Job] /\ reader \in [Reader -> {"idle", "wait", "read"}]
  BY DEF ImagesInv, ImagesTypeOK
<1>2. ASSUME NEW r \in Upload, Leave(r, "failed"), reader' = reader
      PROVE  PoolKept'
  <2>1. Uploading' \subseteq Uploading /\ Reading' = Reading
    BY <1>1, <1>2 DEF Leave, Uploading, Reading, Job, IdleJob
  <2> QED  BY <2>1, HeldShrinks DEF PoolKept
<1>3. ASSUME NEW r \in Upload, NEW w \in Wish, NEW s \in {"fetch", "resolve"},
             Receive(r, w, s)
      PROVE  PoolKept'
  <2>1. Uploading' \subseteq Uploading /\ Reading' = Reading
    BY <1>1, <1>3 DEF Receive, Uploading, Reading, Job
  <2> QED  BY <2>1, HeldShrinks DEF PoolKept
<1>4. ASSUME NEW r \in Upload, Fetch(r) \/ Resolve(r) \/ CallReturns(r)
      PROVE  PoolKept'
  <2>1. \A q \in Upload : job'[q].conn = job[q].conn
    <3>1. CASE Fetch(r)
      BY <1>1, <3>1 DEF Fetch, Job
    <3>2. CASE Resolve(r)
      <4>1. PICK keys \in Selections(job[r].wish) :
              job' = [job EXCEPT ![r].keys = keys, ![r].wish = << >>, ![r].step = "store"]
        BY <3>2 DEF Resolve
      <4> QED  BY <1>1, <4>1 DEF Job
    <3>3. CASE CallReturns(r)
      <4>1. PICK s \in Outcome : job' = [job EXCEPT ![r].results = Append(@, s)]
        BY <3>3 DEF CallReturns
      <4> QED  BY <1>1, <4>1 DEF Job
    <3> QED  BY <1>4, <3>1, <3>2, <3>3
  <2>2. Uploading' \subseteq Uploading /\ Reading' = Reading
    BY <1>4, <2>1 DEF Fetch, Resolve, CallReturns, Uploading, Reading
  <2> QED  BY <2>2, HeldShrinks DEF PoolKept
<1>5. ASSUME NEW r \in Upload, Store(r) \/ ResolveFails(r) \/ PoolTimeout(r)
      PROVE  PoolKept'
  <2>1. CASE Leave(r, "failed")
    BY <1>2, <1>5, <2>1 DEF Store, Save, ResolveFails, PoolTimeout
  <2>2. CASE job' = [job EXCEPT ![r].step = "insert"] /\ reader' = reader
    <3>1. Uploading' \subseteq Uploading /\ Reading' = Reading
      BY <1>1, <2>2 DEF Uploading, Reading, Job
    <3> QED  BY <3>1, HeldShrinks DEF PoolKept
  <2> QED  BY <1>5, <2>1, <2>2 DEF Store, Save, ResolveFails, PoolTimeout
<1>6. ASSUME NEW r \in Upload, InsertRows(r) \/ Refresh(r)
      PROVE  PoolKept'
  <2>1. Free /\ Uploading' \subseteq Uploading \cup {r} /\ Reading' = Reading
    BY <1>1, <1>6 DEF InsertRows, Inserted, Refresh, Uploading, Reading, Job
  <2> QED  BY <2>1, HeldGrows DEF PoolKept
<1>7. ASSUME NEW r \in Upload, CommitImage(r) \/ Close(r)
      PROVE  PoolKept'
  <2>1. \A q \in Upload : job'[q] = job[q] \/ ~job'[q].conn
    BY <1>1, <1>7 DEF CommitImage, Close, IdleJob
  <2>2. Uploading' \subseteq Uploading /\ Reading' = Reading
    BY <1>7, <2>1 DEF CommitImage, Close, Uploading, Reading
  <2> QED  BY <2>2, HeldShrinks DEF PoolKept
<1>8. ASSUME NEW t \in Reader, ReadStep(t)
      PROVE  PoolKept'
  <2>1. Uploading' = Uploading
    BY <1>8 DEF ReadStep, Select, Uploading
  <2>2. CASE Free /\ reader' = [reader EXCEPT ![t] = "read"]
    <3>1. Reading' \subseteq Reading \cup {t}
      BY <1>1, <2>2 DEF Reading
    <3> QED  BY <2>1, <2>2, <3>1, HeldGrows DEF PoolKept
  <2>3. CASE reader' \in {[reader EXCEPT ![t] = "wait"], [reader EXCEPT ![t] = "idle"]}
    <3>1. Reading' \subseteq Reading
      BY <1>1, <2>3 DEF Reading
    <3> QED  BY <2>1, <3>1, HeldShrinks DEF PoolKept
  <2> QED  BY <1>8, <2>2, <2>3 DEF ReadStep, Select
<1>9. ASSUME NEW k \in Provider, SetEnabled(k)
      PROVE  PoolKept'
  <2>1. Uploading' \subseteq Uploading /\ Reading' = Reading
    BY <1>1, <1>9 DEF SetEnabled, Uploading, Reading, Job
  <2> QED  BY <2>1, HeldShrinks DEF PoolKept
<1>10. CASE RestartImages
  <2>1. Uploading' \subseteq Uploading /\ Reading' \subseteq Reading
    BY <1>10 DEF RestartImages, Uploading, Reading, IdleJob
  <2> QED  BY <2>1, HeldShrinks DEF PoolKept
<1>11. ASSUME UNCHANGED <<job, reader>>
       PROVE  PoolKept'
  <2>1. Uploading' = Uploading /\ Reading' = Reading
    BY <1>11 DEF Uploading, Reading
  <2> QED  BY <2>1, HeldShrinks DEF PoolKept
<1>12. ASSUME NEW r \in Upload, GatewayTimeout(r)
       PROVE  PoolKept'
  BY <1>11, <1>12 DEF GatewayTimeout
<1>13. CASE UNCHANGED imageVars
  BY <1>11, <1>13 DEF imageVars
<1> QED  BY <1>3, <1>4, <1>5, <1>6, <1>7, <1>8, <1>9, <1>10, <1>12, <1>13
            DEF ImagesNext, Work

\* Whoever keeps the event loop waiting for a connection waits for one that
\* another upload or a reading thread holds, never for its own.
NobodyWaitsForItself ==
  /\ PoolKept
  /\ loop # Absent /\ ~Free =>
       \/ \E q \in Upload : q # loop /\ job[q].conn
       \/ \E t \in Reader : reader[t] = "read"

\* The COMMIT gives the connection back before the refresh waits for the next.
\* (An upload that holds one needs the loop to go on: that such a wait ends is
\* pool_timeout's doing, and UploadsAnswered's to check.)
THEOREM WaitsForOthers == ImagesSpec => []NobodyWaitsForItself
<1>1. ImagesInit => PoolKept
  <2> SUFFICES ASSUME ImagesInit PROVE PoolKept
    OBVIOUS
  <2>1. Uploading = {} /\ Reading = {}
    BY DEF ImagesInit, Uploading, Reading, IdleJob
  <2>2. Cardinality(Uploading) = 0 /\ Cardinality(Reading) = 0
    BY <2>1, FS_EmptySet
  <2> QED  BY <2>2, HeldFinite, PoolAssumption DEF PoolKept
<1>2. ImagesInv /\ PoolKept /\ [ImagesNext]_imageVars => PoolKept'
  BY PoolStep
<1>3. ImagesInv /\ PoolKept => NobodyWaitsForItself
  <2> SUFFICES ASSUME ImagesInv, PoolKept, loop # Absent, ~Free,
                      ~\E t \in Reader : reader[t] = "read"
               PROVE  \E q \in Upload : q # loop /\ job[q].conn
    BY DEF NobodyWaitsForItself
  <2>1. Reading = {} /\ loop \in Upload
    BY DEF Reading, ImagesInv, ImagesTypeOK
  <2>2. Cardinality(Reading) = 0
    BY <2>1, FS_EmptySet
  <2>3. Cardinality(Uploading) # 0
    BY <2>2, HeldFinite, PoolAssumption DEF Free
  <2>4. PICK q \in Uploading : TRUE
    BY <2>3, FS_EmptySet
  <2>5. ~job[loop].conn
    BY <2>1 DEF ImagesInv, Carried
  <2> QED  BY <2>4, <2>5 DEF Uploading
<1> QED  BY <1>1, <1>2, <1>3, ImagesInvariant, PTL DEF ImagesSpec

=============================================================================
