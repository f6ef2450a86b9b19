------------------------- MODULE KeyRotationProofs -------------------------
(***************************************************************************)
(* Theorems about KeyRotation: what an admin has set survives every edit,  *)
(* re-encryption, rotation and restart; the check mark of the portal is    *)
(* true; and the granted tokens survive, unless the previous keys are      *)
(* dropped on a mark for which customer-service has not answered.          *)
(***************************************************************************)
EXTENDS KeyRotation, TLAPS

USE DEF verdict

-----------------------------------------------------------------------------
(* Type correctness *)

LEMMA IdleType == Idle \in Request
  BY DEF Idle, Request, Edit, KeepAll

LEMMA SealConfigType ==
  ASSUME NEW c \in Config, keys \in [Service -> Keys]
  PROVE  SealConfig(c) \in Sealed(Config)
  BY DEF SealConfig, Seal, Sealed, Service, Keys, NoConfig

LEMMA OpenConfigType ==
  ASSUME NEW x \in Sealed(Config)
  PROVE  OpenConfig(x) \in Config
  BY DEF OpenConfig, Sealed, Config, NoConfig

LEMMA MergeType ==
  ASSUME NEW e \in Edit, NEW c \in Config
  PROVE  Merge(e, c) \in Config
  BY DEF Merge, Edit, Config

LEMMA SealTokenType ==
  ASSUME NEW t \in Token, keys \in [Service -> Keys]
  PROVE  SealToken(t) \in Sealed(Token)
  BY DEF SealToken, Seal, Sealed, Service, Keys, Token

LEMMA OpenTokenType ==
  ASSUME NEW x \in Sealed(Token)
  PROVE  OpenToken(x) \in Token
  BY DEF OpenToken, Sealed, Token

\* A request that loads nothing from the tables keeps the type of req.
LEMMA ReqType ==
  ASSUME TypeOK, NEW w \in Worker, NEW q \in Request,
         req' = [req EXCEPT ![w] = q]
  PROVE  req' \in [Worker -> Request]
  BY DEF TypeOK

\* What a request writes to the configs, and to the histories.
New(w, p)  == SealConfig(Merge(req[w].edit, OpenConfig(req[w].configs[p])))
Written(w) == {p \in LoadedConfigs(w) :
                 New(w, p).key # None \/ New(w, p) # req[w].configs[p]}

LEMMA LoadedConfigType ==
  ASSUME TypeOK, NEW w \in Worker, NEW p \in LoadedConfigs(w)
  PROVE  p \in Provider /\ req[w].configs[p] \in Sealed(Config)
  BY DEF TypeOK, LoadedConfigs, Request

LEMMA NewType ==
  ASSUME TypeOK, NEW w \in Worker, NEW p \in LoadedConfigs(w)
  PROVE  New(w, p) \in Sealed(Config)
<1>1. OpenConfig(req[w].configs[p]) \in Config
  BY LoadedConfigType, OpenConfigType
<1>2. req[w].edit \in Edit /\ keys \in [Service -> Keys]
  BY DEF TypeOK, Request
<1>. QED
  BY <1>1, <1>2, MergeType, SealConfigType DEF New

\* WriteConfigs, row by row and request by request.
LEMMA WriteConfigsSteps ==
  ASSUME TypeOK, NEW w \in Worker, NEW next \in Request, WriteConfigs(w, next)
  PROVE  /\ config' = [p \in Provider |->
                          IF p \in Written(w) THEN New(w, p) ELSE config[p]]
         /\ contested' = contested \cup (LoadedConfigs(w) \cap req[w].outdated)
         /\ req' \in [Worker -> Request]
         /\ req'[w] = next
         /\ \A v \in Worker \ {w} :
              /\ req'[v].step = req[v].step
              /\ req'[v].conns = req[v].conns
              /\ req'[v].configs = req[v].configs
              /\ req'[v].edit = req[v].edit
              /\ req'[v].clean = req[v].clean
              /\ req'[v].outdated =
                    req[v].outdated \cup (Written(w) \cap LoadedConfigs(v))
<1>1. req' = [v \in Worker |->
                IF v = w THEN next
                ELSE [req[v] EXCEPT !.outdated =
                        @ \cup (Written(w) \cap LoadedConfigs(v))]]
  BY Zenon DEF WriteConfigs, Written, New
<1>2. Written(w) \subseteq Provider
  BY DEF Written, LoadedConfigs
<1>3. ASSUME NEW v \in Worker \ {w}
      PROVE  /\ req'[v] = [req[v] EXCEPT !.outdated =
                            @ \cup (Written(w) \cap LoadedConfigs(v))]
             /\ req[v] \in Request
  BY <1>1 DEF TypeOK
<1>4. ASSUME NEW v \in Worker \ {w}
      PROVE  /\ req'[v] \in Request
             /\ req'[v].step = req[v].step
             /\ req'[v].conns = req[v].conns
             /\ req'[v].configs = req[v].configs
             /\ req'[v].edit = req[v].edit
             /\ req'[v].clean = req[v].clean
             /\ req'[v].outdated =
                    req[v].outdated \cup (Written(w) \cap LoadedConfigs(v))
  <2>. DEFINE o == Written(w) \cap LoadedConfigs(v)
  <2>1. o \subseteq Provider
    BY <1>2
  <2>. HIDE DEF o
  <2>2. req'[v] = [req[v] EXCEPT !.outdated = @ \cup o] /\ req[v] \in Request
    BY <1>3 DEF o
  <2>3. /\ req'[v] \in Request
        /\ req'[v].step = req[v].step /\ req'[v].conns = req[v].conns
        /\ req'[v].configs = req[v].configs /\ req'[v].edit = req[v].edit
        /\ req'[v].clean = req[v].clean
        /\ req'[v].outdated = req[v].outdated \cup o
    BY <2>1, <2>2 DEF Request
  <2>. QED
    BY <2>3 DEF o
<1>5. req'[w] = next
  BY <1>1
<1>6. req' \in [Worker -> Request]
  BY <1>1, <1>4, <1>5, SMT
<1>7. config' = [p \in Provider |->
                  IF p \in Written(w) THEN New(w, p) ELSE config[p]]
  BY Zenon DEF WriteConfigs, Written, New
<1>8. contested' = contested \cup (LoadedConfigs(w) \cap req[w].outdated)
  BY Zenon DEF WriteConfigs
<1>. QED
  BY <1>4, <1>5, <1>6, <1>7, <1>8

LEMMA WriteConfigsType ==
  ASSUME TypeOK, NEW w \in Worker, NEW next \in Request, WriteConfigs(w, next)
  PROVE  /\ config' \in [Provider -> Sealed(Config) \cup {None}]
         /\ contested' \in SUBSET Provider
         /\ req' \in [Worker -> Request]
<1>1. \A p \in Written(w) : New(w, p) \in Sealed(Config)
  BY NewType DEF Written
<1>2. config \in [Provider -> Sealed(Config) \cup {None}]
      /\ contested \subseteq Provider
  BY DEF TypeOK
<1>3. /\ config' = [p \in Provider |->
                          IF p \in Written(w) THEN New(w, p) ELSE config[p]]
      /\ contested' = contested \cup (LoadedConfigs(w) \cap req[w].outdated)
      /\ req' \in [Worker -> Request]
  BY WriteConfigsSteps
<1>. QED
  BY <1>1, <1>2, <1>3 DEF LoadedConfigs
\* What a request holds right after it has read the tables.
Fresh(q) ==
  /\ q \in Request
  /\ q.outdated = {}
  /\ \A p \in Provider : q.configs[p] # None => q.configs[p] = config[p]
  /\ \A c \in Conn : q.conns[c] # None =>
       /\ c \in Connected
       /\ q.conns[c] = conn[c]
       /\ q.step \in {"use", "reseal-tokens"}
  /\ q.step = "reseal" => q.edit = KeepAll
  /\ q.step = "status" =>
       (q.clean => \A p \in Created : ~Stale("admin", config[p]))

LEMMA FreshIdle == Fresh(Idle)
  BY IdleType DEF Fresh, Idle

LEMMA FreshCall == Fresh([Idle EXCEPT !.step = "call"])
<1>. DEFINE q == [Idle EXCEPT !.step = "call"]
<1>1. /\ q \in Request /\ q.outdated = {} /\ q.step = "call"
      /\ q.configs = [p \in Provider |-> None] /\ q.conns = [c \in Conn |-> None]
  BY IdleType DEF Idle, Request
<1>. HIDE DEF q
<1>2. Fresh(q)
  BY <1>1 DEF Fresh
<1>. QED
  BY <1>2 DEF q

LEMMA StartUseFresh ==
  ASSUME TypeOK, NEW w \in Worker, NEW c \in Conn, StartUse(w, c)
  PROVE  \E q : Fresh(q) /\ req' = [req EXCEPT ![w] = q]
<1>. DEFINE l == [d \in Conn |-> IF d = c THEN conn[c] ELSE None]
            q == [Idle EXCEPT !.step = "use", !.conns = l]
<1>1. c \in Connected /\ conn[c] \in Sealed(Token)
  BY DEF StartUse, TypeOK, Connected
<1>2. l \in [Conn -> Sealed(Token) \cup {None}]
      /\ \A d \in Conn : l[d] # None => d \in Connected /\ l[d] = conn[d]
  BY <1>1
<1>3. req' = [req EXCEPT ![w] = q]
  BY Zenon DEF StartUse
<1>. HIDE DEF l
<1>4. /\ q \in Request /\ q.outdated = {} /\ q.step = "use"
      /\ q.configs = [p \in Provider |-> None] /\ q.conns = l
  BY <1>2, IdleType DEF Idle, Request
<1>. HIDE DEF q
<1>5. Fresh(q)
  BY <1>2, <1>4 DEF Fresh
<1>. QED
  BY <1>3, <1>5

LEMMA LoadTokensFresh ==
  ASSUME TypeOK, NEW w \in Worker, LoadTokens(w)
  PROVE  \E q : Fresh(q) /\ req' = [req EXCEPT ![w] = q]
<1>. DEFINE l == [c \in Conn |->
                   IF c \in Connected /\ conn[c].plain # "" THEN conn[c]
                   ELSE None]
            q == [Idle EXCEPT !.step = "reseal-tokens", !.conns = l]
<1>1. \A c \in Connected : conn[c] \in Sealed(Token)
  BY DEF TypeOK, Connected
<1>2. l \in [Conn -> Sealed(Token) \cup {None}]
      /\ \A d \in Conn : l[d] # None => d \in Connected /\ l[d] = conn[d]
  BY <1>1
<1>3. req' = [req EXCEPT ![w] = q] \/ req' = [req EXCEPT ![w] = Idle]
  BY Zenon DEF LoadTokens, Answer
<1>. HIDE DEF l
<1>4. /\ q \in Request /\ q.outdated = {} /\ q.step = "reseal-tokens"
      /\ q.configs = [p \in Provider |-> None] /\ q.conns = l
  BY <1>2, IdleType DEF Idle, Request
<1>. HIDE DEF q
<1>5. Fresh(q)
  BY <1>2, <1>4 DEF Fresh
<1>. QED
  BY <1>3, <1>5, FreshIdle

LEMMA StartUpdateFresh ==
  ASSUME TypeOK, NEW w \in Worker, NEW p \in Provider, NEW e \in Edit,
         StartUpdate(w, p, e)
  PROVE  \E q : Fresh(q) /\ req' = [req EXCEPT ![w] = q]
<1>. DEFINE l == [r \in Provider |-> IF r = p THEN config[p] ELSE None]
            q == [Idle EXCEPT !.step = "update", !.edit = e, !.configs = l]
<1>1. l \in [Provider -> Sealed(Config) \cup {None}]
      /\ \A r \in Provider : l[r] # None => l[r] = config[r]
  BY DEF TypeOK
<1>2. req' = [req EXCEPT ![w] = q]
  BY Zenon DEF StartUpdate
<1>. HIDE DEF l
<1>3. /\ q \in Request /\ q.outdated = {} /\ q.step = "update"
      /\ q.configs = l /\ q.conns = [c \in Conn |-> None]
  BY <1>1, IdleType DEF Idle, Request
<1>. HIDE DEF q
<1>4. Fresh(q)
  BY <1>1, <1>3 DEF Fresh
<1>. QED
  BY <1>2, <1>4

LEMMA StartReencryptFresh ==
  ASSUME TypeOK, NEW w \in Worker, StartReencrypt(w)
  PROVE  \E q : Fresh(q) /\ req' = [req EXCEPT ![w] = q]
<1>. DEFINE l == [p \in Provider |->
                   IF p \in Created /\ config[p].key # None THEN config[p]
                   ELSE None]
            q == [Idle EXCEPT !.step = "reseal", !.configs = l]
            i == [Idle EXCEPT !.step = "call"]
<1>1. l \in [Provider -> Sealed(Config) \cup {None}]
      /\ \A r \in Provider : l[r] # None => l[r] = config[r]
  BY DEF TypeOK
<1>2. req' = [req EXCEPT ![w] = IF Enabled("admin") THEN q ELSE i]
  BY Zenon DEF StartReencrypt
<1>. HIDE DEF l
<1>3. /\ q \in Request /\ q.outdated = {} /\ q.step = "reseal"
      /\ q.configs = l /\ q.conns = [c \in Conn |-> None] /\ q.edit = KeepAll
  BY <1>1, IdleType DEF Idle, Request
<1>4. Fresh(i)
  BY FreshCall
<1>. HIDE DEF q, i
<1>5. Fresh(q)
  BY <1>1, <1>3 DEF Fresh
<1>. QED
  BY <1>2, <1>4, <1>5

LEMMA StartStatusFresh ==
  ASSUME TypeOK, NEW w \in Worker, StartStatus(w)
  PROVE  \E q : Fresh(q) /\ req' = [req EXCEPT ![w] = q]
<1>. DEFINE a == \A p \in Created : ~Stale("admin", config[p])
            q == [Idle EXCEPT !.step = "status", !.clean = a]
<1>1. req' = [req EXCEPT ![w] = q]
  BY Zenon DEF StartStatus
<1>3. a \in BOOLEAN
  OBVIOUS
<1>. HIDE DEF a
<1>4. /\ q \in Request /\ q.outdated = {} /\ q.step = "status" /\ q.clean = a
      /\ q.configs = [p \in Provider |-> None] /\ q.conns = [c \in Conn |-> None]
  BY <1>3, IdleType DEF Idle, Request
<1>. HIDE DEF q
<1>5. q.clean => \A p \in Created : ~Stale("admin", config[p])
  BY <1>4 DEF a
<1>6. Fresh(q)
  BY <1>4, <1>5 DEF Fresh
<1>. QED
  BY <1>1, <1>6

\* The steps of a request that write nothing.
Reads(w) ==
  \/ \E c \in Conn : StartUse(w, c)
  \/ UseAsLoaded(w)
  \/ LoadTokens(w)
  \/ \E p \in Provider, e \in Edit : StartUpdate(w, p, e)
  \/ StartReencrypt(w)
  \/ StartStatus(w)
  \/ GiveUp(w)

LEMMA ReadsFresh ==
  ASSUME TypeOK, NEW w \in Worker, Reads(w)
  PROVE  /\ \E q : Fresh(q) /\ req' = [req EXCEPT ![w] = q]
         /\ UNCHANGED <<env, keys, config, conn, verdict, wanted, contested>>
<1>1. CASE \E c \in Conn : StartUse(w, c)
  <2>1. PICK c \in Conn : StartUse(w, c)
    BY <1>1
  <2>2. UNCHANGED <<env, keys, config, conn, verdict, wanted, contested>>
    BY <2>1, Zenon DEF StartUse
  <2>. QED
    BY <2>1, <2>2, StartUseFresh
<1>2. CASE UseAsLoaded(w)
  BY <1>2, FreshIdle, Zenon DEF UseAsLoaded, Answer
<1>3. CASE LoadTokens(w)
  <2>1. UNCHANGED <<env, keys, config, conn, verdict, wanted, contested>>
    BY <1>3, Zenon DEF LoadTokens
  <2>. QED
    BY <1>3, <2>1, LoadTokensFresh
<1>4. CASE \E p \in Provider, e \in Edit : StartUpdate(w, p, e)
  <2>1. PICK p \in Provider, e \in Edit : StartUpdate(w, p, e)
    BY <1>4
  <2>2. UNCHANGED <<env, keys, config, conn, verdict, wanted, contested>>
    BY <2>1, Zenon DEF StartUpdate
  <2>. QED
    BY <2>1, <2>2, StartUpdateFresh
<1>5. CASE StartReencrypt(w)
  <2>1. UNCHANGED <<env, keys, config, conn, verdict, wanted, contested>>
    BY <1>5, Zenon DEF StartReencrypt
  <2>. QED
    BY <1>5, <2>1, StartReencryptFresh
<1>6. CASE StartStatus(w)
  <2>1. UNCHANGED <<env, keys, config, conn, verdict, wanted, contested>>
    BY <1>6, Zenon DEF StartStatus
  <2>. QED
    BY <1>6, <2>1, StartStatusFresh
<1>7. CASE GiveUp(w)
  BY <1>7, FreshIdle, Zenon DEF GiveUp, Answer
<1>. QED
  BY <1>1, <1>2, <1>3, <1>4, <1>5, <1>6, <1>7 DEF Reads
-----------------------------------------------------------------------------
\* The steps that write tokens, with what they leave.
SealsLoaded(w) == PersistRefreshedToken(w) \/ CommitTokens(w)

LEMMA SealsLoadedSteps ==
  ASSUME NEW w \in Worker, SealsLoaded(w)
  PROVE  /\ At(w, "use") \/ At(w, "reseal-tokens")
         /\ LoadedConns(w) \subseteq Connected
         /\ conn' = [c \in Conn |-> IF c \in LoadedConns(w)
                       THEN SealToken(OpenToken(req[w].conns[c])) ELSE conn[c]]
         /\ req' = [req EXCEPT ![w] = Idle]
         /\ UNCHANGED <<env, keys, config, verdict, wanted, contested>>
<1>. DEFINE new == [c \in Conn |-> SealToken(OpenToken(req[w].conns[c]))]
<1>1. /\ At(w, "use") \/ At(w, "reseal-tokens")
      /\ WriteTokens(w, new)
      /\ req' = [req EXCEPT ![w] = Idle]
      /\ UNCHANGED <<env, keys, config, verdict, wanted, contested>>
  BY Zenon DEF SealsLoaded, PersistRefreshedToken, CommitTokens, Answer
<1>2. /\ LoadedConns(w) \subseteq Connected
      /\ conn' = [c \in Conn |->
                    IF c \in LoadedConns(w) THEN new[c] ELSE conn[c]]
  BY <1>1, Zenon DEF WriteTokens
<1>3. \A c \in Conn : new[c] = SealToken(OpenToken(req[w].conns[c]))
  OBVIOUS
<1>. HIDE DEF new
<1>4. conn' = [c \in Conn |-> IF c \in LoadedConns(w)
                 THEN SealToken(OpenToken(req[w].conns[c])) ELSE conn[c]]
  BY <1>2, <1>3
<1>. QED
  BY <1>1, <1>2, <1>4

LEMMA SealsLoadedType ==
  ASSUME TypeOK, NEW w \in Worker, SealsLoaded(w)
  PROVE  conn' \in [Conn -> Sealed(Token) \cup {None, Gone}]
<1>1. ASSUME NEW c \in LoadedConns(w)
      PROVE  SealToken(OpenToken(req[w].conns[c])) \in Sealed(Token)
  <2>1. req[w].conns[c] \in Sealed(Token) /\ keys \in [Service -> Keys]
    BY DEF TypeOK, LoadedConns, Request
  <2>. QED
    BY <2>1, OpenTokenType, SealTokenType
<1>2. conn \in [Conn -> Sealed(Token) \cup {None, Gone}]
  BY DEF TypeOK
<1>. QED
  BY <1>1, <1>2, SealsLoadedSteps

\* The steps of Next, those that write nothing or the same thing together.
LEMMA NextSteps ==
  ASSUME Next
  PROVE  \/ \E c \in Conn : Connect(c) \/ Disconnect(c)
         \/ \E p \in Provider, c \in Config : CreateProvider(p, c)
         \/ \E w \in Worker : \/ Reads(w) \/ SealsLoaded(w)
                              \/ CommitUpdate(w) \/ CommitConfigs(w)
                              \/ AskCustomers(w)
         \/ \E k \in Key : RotateKey(k)
         \/ DropPrevious
         \/ \E s \in Service : Restart(s)
  BY Zenon DEF Next, Connections, Configurations, TokenMaintenance, Reads, SealsLoaded

LEMMA TypeInit == Init => TypeOK
<1>. SUFFICES ASSUME Init PROVE TypeOK
  OBVIOUS
<1>1. env \in Keys /\ keys \in [Service -> Keys]
  BY DEF Init, Keys
<1>2. req \in [Worker -> Request]
  BY IdleType DEF Init
<1>. QED
  BY <1>1, <1>2 DEF Init, TypeOK, NoConfig, Config

LEMMA TypeStep == TypeOK /\ [Next]_vars => TypeOK'
<1>. SUFFICES ASSUME TypeOK, [Next]_vars PROVE TypeOK'
  OBVIOUS
<1>. USE DEF TypeOK
<1>1. ASSUME NEW c \in Conn, Connect(c) \/ Disconnect(c) PROVE TypeOK'
  <2>1. SealToken(Exchanged) \in Sealed(Token)
    BY SealTokenType DEF Exchanged, Token
  <2>2. UNCHANGED <<env, keys, config, verdict, req, wanted, contested>>
    BY <1>1, Zenon DEF Connect, InsertConnection, Disconnect
  <2>3. conn' = [conn EXCEPT ![c] = SealToken(Exchanged)]
        \/ conn' = [conn EXCEPT ![c] = Gone]
    BY <1>1, Zenon DEF Connect, InsertConnection, Disconnect
  <2>. QED
    BY <2>1, <2>2, <2>3
<1>2. ASSUME NEW p \in Provider, NEW c \in Config, CreateProvider(p, c)
      PROVE  TypeOK'
  <2>1. SealConfig(c) \in Sealed(Config)
    BY SealConfigType
  <2>. QED
    BY <1>2, <2>1 DEF CreateProvider, InsertProvider
<1>3. ASSUME NEW w \in Worker, Reads(w) PROVE TypeOK'
  <2>1. PICK q : Fresh(q) /\ req' = [req EXCEPT ![w] = q]
    BY <1>3, ReadsFresh
  <2>2. q \in Request
    BY <2>1 DEF Fresh
  <2>3. UNCHANGED <<env, keys, config, conn, verdict, wanted, contested>>
    BY <1>3, ReadsFresh
  <2>. QED
    BY <2>1, <2>2, <2>3
<1>4. ASSUME NEW w \in Worker, SealsLoaded(w) PROVE TypeOK'
  BY <1>4, SealsLoadedSteps, SealsLoadedType, IdleType
<1>5. ASSUME NEW w \in Worker, CommitUpdate(w) PROVE TypeOK'
  <2>1. WriteConfigs(w, Idle) /\ UNCHANGED <<env, keys, conn, verdict>>
    BY <1>5, Zenon DEF CommitUpdate
  <2>2. wanted' = [p \in Provider |-> IF p \in LoadedConfigs(w)
                     THEN Merge(req[w].edit, wanted[p]) ELSE wanted[p]]
    BY <1>5, Zenon DEF CommitUpdate
  <2>3. req[w].edit \in Edit
    BY DEF Request
  <2>4. wanted' \in [Provider -> Config]
    BY <2>2, <2>3, MergeType
  <2>. QED
    BY <2>1, <2>4, IdleType, WriteConfigsType
<1>6. ASSUME NEW w \in Worker, CommitConfigs(w) PROVE TypeOK'
  <2>1. WriteConfigs(w, [Idle EXCEPT !.step = "call"])
        /\ UNCHANGED <<env, keys, conn, verdict, wanted>>
    BY <1>6, Zenon DEF CommitConfigs
  <2>2. [Idle EXCEPT !.step = "call"] \in Request
    BY FreshCall DEF Fresh
  <2>. QED
    BY <2>1, <2>2, WriteConfigsType
<1>7. ASSUME NEW w \in Worker, AskCustomers(w) PROVE TypeOK'
  <2>1. told' \in BOOLEAN /\ heard' \in BOOLEAN
    BY <1>7 DEF AskCustomers, CheckMark, Enabled
  <2>2. req' = [req EXCEPT ![w] = Idle]
        /\ UNCHANGED <<env, keys, config, conn, misled, wanted, contested>>
    BY <1>7, Zenon DEF AskCustomers, Answer
  <2>. QED
    BY <2>1, <2>2, IdleType
<1>8. ASSUME NEW k \in Key, RotateKey(k) PROVE TypeOK'
  BY <1>8 DEF RotateKey, Keys
<1>9. ASSUME DropPrevious PROVE TypeOK'
  BY <1>9 DEF DropPrevious, Keys
<1>10. ASSUME NEW s \in Service, Restart(s) PROVE TypeOK'
  BY <1>10, IdleType DEF Restart
<1>11. CASE UNCHANGED vars
  BY <1>11 DEF vars
<1>. QED
  BY <1>1, <1>2, <1>3, <1>4, <1>5, <1>6, <1>7, <1>8, <1>9, <1>10, <1>11,
     NextSteps

\* Every variable has its type, in every reachable state.
THEOREM TypeCorrect == Spec => []TypeOK
  BY TypeInit, TypeStep, PTL DEF Spec


-----------------------------------------------------------------------------
(* Configurations: nothing here depends on what fails *)

\* Each config opens with the keys that admin-service has and would have.
ConfigsOpen ==
  \A p \in Created : config[p].key \in Known(keys["admin"]) \cap Known(env)

ConfigsRight == \A p \in Created \ contested : config[p].plain = wanted[p]

\* A loaded row is the stored one, unless somebody has written it since.
LoadedFresh ==
  \A w \in Worker : \A p \in LoadedConfigs(w) \ req[w].outdated :
    config[p] = req[w].configs[p]

ResealsKeep == \A w \in Worker : At(w, "reseal") => req[w].edit = KeepAll

ConfigsCurrent == \A p \in Created : config[p].key \in {env.cur, None}

VerdictAdmin == told => keys["admin"].cur = env.cur /\ ConfigsCurrent

\* A clean first half of a status stays true while admin-service runs with
\* the current key.
StatusAdmin ==
  \A w \in Worker :
    /\ At(w, "status")
    /\ req[w].clean
    /\ keys["admin"].cur = env.cur
    /\ env.cur # None
    => ConfigsCurrent

AdminInv ==
  /\ keys["admin"].cur \in Known(env)
  /\ ConfigsOpen
  /\ ConfigsRight
  /\ LoadedFresh
  /\ ResealsKeep
  /\ VerdictAdmin
  /\ StatusAdmin

\* SealConfig keeps the config, under the current key or in the clear.
LEMMA SealConfigKeeps ==
  ASSUME NEW c
  PROVE  /\ SealConfig(c).plain = c
         /\ SealConfig(c).key \in {keys["admin"].cur, None}
  BY DEF SealConfig, Seal

LEMMA MergeKeepAll ==
  ASSUME NEW c \in Config
  PROVE  Merge(KeepAll, c) = c
  BY DEF Merge, KeepAll, Config

LEMMA AdminInit == Init => AdminInv
<1>. SUFFICES ASSUME Init PROVE AdminInv
  OBVIOUS
<1>1. keys["admin"].cur \in Known(env)
  BY DEF Init, Known, Service
<1>2. Created = {}
  BY DEF Init, Created
<1>3. \A w \in Worker : req[w] = Idle
  BY DEF Init
<1>4. told = FALSE
  BY DEF Init
<1>5. \A w \in Worker : LoadedConfigs(w) = {} /\ ~At(w, "reseal") /\ ~At(w, "status")
  BY <1>3 DEF LoadedConfigs, At, Idle
<1>. QED
  BY <1>1, <1>2, <1>4, <1>5
     DEF AdminInv, ConfigsOpen, ConfigsRight, LoadedFresh, ResealsKeep,
         VerdictAdmin, StatusAdmin, ConfigsCurrent

\* AdminInv when neither the keys nor the configs change, from what each
\* request holds.
LEMMA AdminRead ==
  ASSUME TypeOK, AdminInv,
         UNCHANGED <<env, keys, config, wanted, contested>>,
         told' => told \/ (keys["admin"].cur = env.cur /\ ConfigsCurrent),
         \A w \in Worker : req'[w] = req[w] \/ Fresh(req'[w])
  PROVE  AdminInv'
<1>1. Created' = Created
  BY DEF Created
<1>2. ConfigsOpen' /\ ConfigsRight' /\ keys'["admin"].cur \in Known(env')
  BY <1>1 DEF AdminInv, ConfigsOpen, ConfigsRight, Known
<1>3. ConfigsCurrent' = ConfigsCurrent
  BY <1>1 DEF ConfigsCurrent
<1>4. VerdictAdmin'
  BY <1>3 DEF AdminInv, VerdictAdmin
<1>5. LoadedFresh'
  BY DEF AdminInv, LoadedFresh, LoadedConfigs, Fresh
<1>6. ResealsKeep'
  BY DEF AdminInv, ResealsKeep, At, Fresh
<1>7. StatusAdmin'
  <2>. SUFFICES ASSUME NEW w \in Worker, req'[w].step = "status", req'[w].clean,
                       keys["admin"].cur = env.cur, env.cur # None
                PROVE  ConfigsCurrent
    BY <1>3 DEF StatusAdmin, At
  <2>1. CASE req'[w] = req[w]
    BY <2>1 DEF AdminInv, StatusAdmin, At
  <2>2. CASE Fresh(req'[w])
    <3>1. \A p \in Created : ~Stale("admin", config[p])
      BY <2>2 DEF Fresh
    <3>. QED
      BY <3>1 DEF Stale, Enabled, IsCurrent, ConfigsCurrent
  <2>. QED
    BY <2>1, <2>2
<1>. QED
  BY <1>2, <1>4, <1>5, <1>6, <1>7 DEF AdminInv


\* The rows a request has loaded and nobody has written since become what
\* the edit makes of what was wanted.
LEMMA WrittenRight ==
  ASSUME TypeOK, AdminInv, NEW w \in Worker,
         NEW p \in Created \ contested, p \in LoadedConfigs(w) \ req[w].outdated
  PROVE  New(w, p).plain = Merge(req[w].edit, wanted[p])
<1>1. config[p] = req[w].configs[p] /\ p \in Provider
  BY DEF AdminInv, LoadedFresh, Created
<1>2. config[p].plain = wanted[p] /\ config[p].key \in Known(keys["admin"])
  BY DEF AdminInv, ConfigsOpen, ConfigsRight
<1>3. OpenConfig(req[w].configs[p]) = wanted[p]
  BY <1>1, <1>2 DEF OpenConfig, Opens
<1>. QED
  BY <1>3, SealConfigKeeps DEF New

LEMMA AdminWrite ==
  ASSUME TypeOK, AdminInv, NEW w \in Worker, NEW next \in Request,
         WriteConfigs(w, next), UNCHANGED <<env, keys, verdict>>,
         next.step \in {"idle", "call"}, \A p \in Provider : next.configs[p] = None,
         \A p \in LoadedConfigs(w) : wanted'[p] = Merge(req[w].edit, wanted[p]),
         \A p \in Provider \ LoadedConfigs(w) : wanted'[p] = wanted[p]
  PROVE  AdminInv'
<1>. DEFINE written == Written(w)
<1>1. /\ config' = [p \in Provider |->
                      IF p \in written THEN New(w, p) ELSE config[p]]
      /\ contested' = contested \cup (LoadedConfigs(w) \cap req[w].outdated)
  BY WriteConfigsSteps
<1>2. /\ req'[w] = next
      /\ \A v \in Worker \ {w} :
           /\ req'[v].step = req[v].step
           /\ req'[v].configs = req[v].configs
           /\ req'[v].edit = req[v].edit
           /\ req'[v].clean = req[v].clean
           /\ req'[v].outdated =
                req[v].outdated \cup (written \cap LoadedConfigs(v))
  BY WriteConfigsSteps
<1>3. /\ written \subseteq LoadedConfigs(w)
      /\ LoadedConfigs(w) \subseteq Provider
      /\ \A p \in LoadedConfigs(w) \ written :
           New(w, p).key = None /\ New(w, p) = req[w].configs[p]
  BY DEF Written, LoadedConfigs
<1>4. \A p \in Provider : New(w, p).key \in {keys["admin"].cur, None}
  BY SealConfigKeeps DEF New
<1>. HIDE DEF written
<1>5. \A p \in Created' : p \in Provider /\ (p \in written \/ p \in Created)
  BY <1>1 DEF Created
<1>6. keys'["admin"].cur \in Known(env')
  BY DEF AdminInv
<1>7. ConfigsOpen'
  <2>. SUFFICES ASSUME NEW p \in Created'
                PROVE  config'[p].key \in Known(keys["admin"]) \cap Known(env)
    BY DEF ConfigsOpen
  <2>1. CASE p \in written
    <3>1. config'[p].key \in {keys["admin"].cur, None}
      BY <1>1, <1>4, <1>5, <2>1
    <3>. QED
      BY <3>1 DEF AdminInv, Known
  <2>2. CASE p \notin written
    BY <1>1, <1>5, <2>2 DEF AdminInv, ConfigsOpen
  <2>. QED
    BY <2>1, <2>2
<1>8. ConfigsRight'
  <2>. SUFFICES ASSUME NEW p \in Created' \ contested'
                PROVE  config'[p].plain = wanted'[p]
    BY DEF ConfigsRight
  <2>1. CASE p \notin LoadedConfigs(w)
    <3>1. p \in Created \ contested /\ config'[p] = config[p]
      BY <1>1, <1>3, <1>5, <2>1
    <3>2. wanted'[p] = wanted[p]
      BY <1>5, <2>1
    <3>. QED
      BY <3>1, <3>2 DEF AdminInv, ConfigsRight
  <2>2. CASE p \in LoadedConfigs(w)
    <3>1. p \in LoadedConfigs(w) \ req[w].outdated /\ p \in Provider
      BY <1>1, <1>5, <2>2
    <3>2. config[p] = req[w].configs[p] /\ req[w].configs[p] # None
      BY <3>1 DEF AdminInv, LoadedFresh, LoadedConfigs
    <3>3. p \in Created \ contested
      BY <1>1, <3>1, <3>2 DEF Created
    <3>4. New(w, p).plain = Merge(req[w].edit, wanted[p])
      BY <3>1, <3>3, WrittenRight
    <3>5. config'[p] = New(w, p)
      BY <1>1, <1>3, <3>1, <3>2
    <3>. QED
      BY <2>2, <3>4, <3>5
  <2>. QED
    BY <2>1, <2>2
<1>9. LoadedFresh'
  <2>. SUFFICES ASSUME NEW v \in Worker, NEW p \in Provider,
                       req'[v].configs[p] # None, p \notin req'[v].outdated
                PROVE  config'[p] = req'[v].configs[p]
    BY DEF LoadedFresh, LoadedConfigs
  <2>1. v # w
    BY <1>2
  <2>2. p \in LoadedConfigs(v) \ req[v].outdated /\ p \notin written
    BY <1>2, <2>1 DEF LoadedConfigs
  <2>. QED
    BY <1>1, <1>2, <2>1, <2>2 DEF AdminInv, LoadedFresh
<1>10. ResealsKeep'
  BY <1>2 DEF AdminInv, ResealsKeep, At
<1>11. ASSUME ConfigsCurrent, keys["admin"].cur = env.cur PROVE ConfigsCurrent'
  BY <1>1, <1>4, <1>5, <1>11 DEF ConfigsCurrent
<1>12. VerdictAdmin'
  BY <1>11 DEF AdminInv, VerdictAdmin
<1>13. StatusAdmin'
  <2>. SUFFICES ASSUME NEW v \in Worker, req'[v].step = "status", req'[v].clean,
                       keys["admin"].cur = env.cur, env.cur # None
                PROVE  ConfigsCurrent'
    BY DEF StatusAdmin, At
  <2>1. v # w
    BY <1>2
  <2>2. ConfigsCurrent
    BY <1>2, <2>1 DEF AdminInv, StatusAdmin, At
  <2>. QED
    BY <1>11, <2>2
<1>. QED
  BY <1>6, <1>7, <1>8, <1>9, <1>10, <1>12, <1>13 DEF AdminInv

LEMMA AdminCreate ==
  ASSUME TypeOK, AdminInv, NEW p \in Provider, NEW c \in Config,
         CreateProvider(p, c)
  PROVE  AdminInv'
<1>1. /\ config[p] = None
      /\ config' = [config EXCEPT ![p] = SealConfig(c)]
      /\ wanted' = [wanted EXCEPT ![p] = c]
      /\ UNCHANGED <<env, keys, conn, verdict, req, contested>>
  BY DEF CreateProvider, InsertProvider
<1>2. config'[p] = SealConfig(c) /\ wanted'[p] = c
  BY <1>1 DEF TypeOK
<1>3. \A r \in Provider \ {p} : config'[r] = config[r] /\ wanted'[r] = wanted[r]
  BY <1>1 DEF TypeOK
<1>4. config'[p].plain = c /\ config'[p].key \in {keys["admin"].cur, None}
  BY <1>2, SealConfigKeeps
<1>5. \A r \in Created' : r \in Provider /\ (r = p \/ r \in Created)
  BY <1>3 DEF Created
<1>6. ConfigsOpen'
  BY <1>1, <1>3, <1>4, <1>5 DEF AdminInv, ConfigsOpen, Known
<1>7. ConfigsRight'
  BY <1>1, <1>2, <1>3, <1>4, <1>5 DEF AdminInv, ConfigsRight
<1>8. LoadedFresh'
  BY <1>1, <1>3 DEF AdminInv, LoadedFresh, LoadedConfigs
<1>9. ResealsKeep' /\ keys'["admin"].cur \in Known(env')
  BY <1>1 DEF AdminInv, ResealsKeep, At
<1>10. ASSUME ConfigsCurrent, keys["admin"].cur = env.cur PROVE ConfigsCurrent'
  BY <1>1, <1>3, <1>4, <1>5, <1>10 DEF ConfigsCurrent
<1>11. VerdictAdmin' /\ StatusAdmin'
  BY <1>1, <1>10 DEF AdminInv, VerdictAdmin, StatusAdmin, At
<1>. QED
  BY <1>6, <1>7, <1>8, <1>9, <1>11 DEF AdminInv

LEMMA AdminRotate ==
  ASSUME TypeOK, AdminInv, NEW k \in Key, RotateKey(k)
  PROVE  AdminInv'
<1>1. /\ k \notin Known(env)
      /\ env' = [cur |-> k, prev |-> env.prev \cup ({env.cur} \ {None})]
      /\ told' = FALSE
      /\ heard' = FALSE
      /\ UNCHANGED <<keys, config, conn, misled, req, wanted, contested>>
  BY DEF RotateKey
<1>2. Known(env) \subseteq Known(env') /\ env'.cur = k
  BY <1>1 DEF Known
<1>3. Created' = Created /\ \A w \in Worker : LoadedConfigs(w)' = LoadedConfigs(w)
  BY <1>1 DEF Created, LoadedConfigs
<1>4. keys'["admin"].cur # env'.cur /\ keys'["admin"].cur \in Known(env')
  BY <1>1, <1>2 DEF AdminInv
<1>5. ConfigsOpen'
  BY <1>1, <1>2, <1>3 DEF AdminInv, ConfigsOpen
<1>. QED
  BY <1>1, <1>3, <1>4, <1>5
     DEF AdminInv, ConfigsRight, LoadedFresh, ResealsKeep, VerdictAdmin,
         StatusAdmin, At

LEMMA AdminDrop ==
  ASSUME TypeOK, AdminInv, DropPrevious
  PROVE  AdminInv'
<1>1. told /\ UNCHANGED <<keys, config, conn, told, heard, req, wanted, contested>>
  BY DEF DropPrevious
<1>2. env'.cur = env.cur /\ Known(env') = {env.cur, None}
  BY DEF DropPrevious, TypeOK, Keys, Known
<1>3. keys["admin"].cur = env.cur /\ ConfigsCurrent
  BY <1>1 DEF AdminInv, VerdictAdmin
<1>4. Created' = Created /\ \A w \in Worker : LoadedConfigs(w)' = LoadedConfigs(w)
  BY <1>1 DEF Created, LoadedConfigs
<1>5. ConfigsCurrent' /\ VerdictAdmin' /\ keys'["admin"].cur \in Known(env')
  BY <1>1, <1>2, <1>3, <1>4 DEF ConfigsCurrent, VerdictAdmin
<1>6. ConfigsOpen'
  BY <1>1, <1>2, <1>3, <1>4 DEF AdminInv, ConfigsOpen, ConfigsCurrent
<1>. QED
  BY <1>1, <1>2, <1>4, <1>5, <1>6
     DEF AdminInv, ConfigsRight, LoadedFresh, ResealsKeep, StatusAdmin, At

LEMMA AdminRestart ==
  ASSUME TypeOK, AdminInv, NEW s \in Service, Restart(s)
  PROVE  AdminInv'
<1>1. /\ keys' = [keys EXCEPT ![s] = env]
      /\ req' = [w \in Worker |-> IF RunsIn(w) = s THEN Idle ELSE req[w]]
      /\ UNCHANGED <<env, config, conn, verdict, wanted, contested>>
  BY DEF Restart
<1>2. CASE s = "customer"
  <2>1. keys'["admin"] = keys["admin"]
    BY <1>1, <1>2 DEF TypeOK
  <2>2. \A w \in Worker : req'[w] = req[w] \/ req'[w] = Idle
    BY <1>1
  <2>3. Created' = Created
    BY <1>1 DEF Created
  <2>4. ConfigsOpen' /\ ConfigsRight' /\ keys'["admin"].cur \in Known(env')
    BY <1>1, <2>1, <2>3 DEF AdminInv, ConfigsOpen, ConfigsRight
  <2>5. ConfigsCurrent' = ConfigsCurrent
    BY <1>1, <2>3 DEF ConfigsCurrent
  <2>6. VerdictAdmin'
    BY <1>1, <2>1, <2>5 DEF AdminInv, VerdictAdmin
  <2>7. ResealsKeep'
    BY <1>1, <2>2 DEF AdminInv, ResealsKeep, At, Idle
  <2>8. LoadedFresh'
    <3>. SUFFICES ASSUME NEW w \in Worker, NEW p \in Provider,
                         req'[w].configs[p] # None, p \notin req'[w].outdated
                  PROVE  config'[p] = req'[w].configs[p]
      BY DEF LoadedFresh, LoadedConfigs
    <3>1. req'[w] = req[w]
      BY <2>2 DEF Idle
    <3>. QED
      BY <1>1, <3>1 DEF AdminInv, LoadedFresh, LoadedConfigs
  <2>9. StatusAdmin'
    BY <1>1, <2>1, <2>2, <2>5 DEF AdminInv, StatusAdmin, At, Idle
  <2>. QED
    BY <2>4, <2>6, <2>7, <2>8, <2>9 DEF AdminInv
<1>3. CASE s = "admin"
  <2>1. keys'["admin"] = env /\ Created' = Created
    BY <1>1, <1>3 DEF TypeOK, Service, Created
  <2>2. \A w \in Worker :
          \/ req'[w] = Idle
          \/ req'[w] = req[w] /\ req[w].step \in {"use", "reseal-tokens"}
    BY <1>1, <1>3 DEF RunsIn
  <2>3. ConfigsOpen' /\ ConfigsRight' /\ keys'["admin"].cur \in Known(env')
    BY <1>1, <2>1 DEF AdminInv, ConfigsOpen, ConfigsRight, Known
  <2>4. VerdictAdmin'
    BY <1>1, <2>1 DEF AdminInv, VerdictAdmin, ConfigsCurrent
  <2>5. LoadedFresh' /\ ResealsKeep' /\ StatusAdmin'
    BY <1>1, <2>2
       DEF AdminInv, LoadedFresh, LoadedConfigs, ResealsKeep, StatusAdmin, At, Idle
  <2>. QED
    BY <2>3, <2>4, <2>5 DEF AdminInv
<1>. QED
  BY <1>2, <1>3 DEF Service


LEMMA AdminStep ==
  ASSUME TypeOK, AdminInv, [Next]_vars
  PROVE  AdminInv'
<1>1. ASSUME NEW c \in Conn, Connect(c) \/ Disconnect(c) PROVE AdminInv'
  BY <1>1, AdminRead DEF Connect, InsertConnection, Disconnect
<1>2. ASSUME NEW p \in Provider, NEW c \in Config, CreateProvider(p, c)
      PROVE  AdminInv'
  BY <1>2, AdminCreate
<1>3. ASSUME NEW w \in Worker, Reads(w) PROVE AdminInv'
  <2>1. PICK q : Fresh(q) /\ req' = [req EXCEPT ![w] = q]
    BY <1>3, ReadsFresh
  <2>2. \A v \in Worker : req'[v] = req[v] \/ Fresh(req'[v])
    BY <2>1 DEF TypeOK
  <2>3. UNCHANGED <<env, keys, config, verdict, wanted, contested>>
    BY <1>3, ReadsFresh
  <2>. QED
    BY <2>2, <2>3, AdminRead
<1>4. ASSUME NEW w \in Worker, SealsLoaded(w) PROVE AdminInv'
  <2>1. req' = [req EXCEPT ![w] = Idle]
        /\ UNCHANGED <<env, keys, config, verdict, wanted, contested>>
    BY <1>4, SealsLoadedSteps
  <2>2. \A v \in Worker : req'[v] = req[v] \/ req'[v] = Idle
    BY <2>1 DEF TypeOK
  <2>3. \A v \in Worker : req'[v] = req[v] \/ Fresh(req'[v])
    BY <2>2, FreshIdle
  <2>. QED
    BY <2>1, <2>3, AdminRead
<1>5. ASSUME NEW w \in Worker, CommitUpdate(w) PROVE AdminInv'
  <2>1. WriteConfigs(w, Idle) /\ UNCHANGED <<env, keys, conn, verdict>>
    BY <1>5, Zenon DEF CommitUpdate
  <2>2. wanted' = [p \in Provider |-> IF p \in LoadedConfigs(w)
                     THEN Merge(req[w].edit, wanted[p]) ELSE wanted[p]]
    BY <1>5, Zenon DEF CommitUpdate
  <2>3. /\ \A p \in LoadedConfigs(w) : wanted'[p] = Merge(req[w].edit, wanted[p])
        /\ \A p \in Provider \ LoadedConfigs(w) : wanted'[p] = wanted[p]
    BY <2>2 DEF LoadedConfigs
  <2>4. Idle.step = "idle" /\ \A p \in Provider : Idle.configs[p] = None
    BY DEF Idle
  <2>. QED
    BY <2>1, <2>3, <2>4, IdleType, AdminWrite
<1>6. ASSUME NEW w \in Worker, CommitConfigs(w) PROVE AdminInv'
  <2>. DEFINE q == [Idle EXCEPT !.step = "call"]
  <2>1. /\ WriteConfigs(w, q)
        /\ At(w, "reseal")
        /\ UNCHANGED <<env, keys, conn, verdict, wanted>>
    BY <1>6, Zenon DEF CommitConfigs
  <2>2. q \in Request
    BY FreshCall DEF Fresh
  <2>3. q.step = "call" /\ \A p \in Provider : q.configs[p] = None
    BY DEF Idle
  <2>4. req[w].edit = KeepAll
    BY <2>1 DEF AdminInv, ResealsKeep
  <2>5. \A p \in LoadedConfigs(w) : wanted'[p] = Merge(req[w].edit, wanted[p])
    BY <2>1, <2>4, MergeKeepAll DEF TypeOK, LoadedConfigs
  <2>. HIDE DEF q
  <2>. QED
    BY <2>1, <2>2, <2>3, <2>5, AdminWrite
<1>7. ASSUME NEW w \in Worker, AskCustomers(w) PROVE AdminInv'
  <2>1. /\ At(w, "status")
        /\ req' = [req EXCEPT ![w] = Idle]
        /\ UNCHANGED <<env, keys, config, conn, misled, wanted, contested>>
    BY <1>7, Zenon DEF AskCustomers, Answer
  <2>2. told' => /\ req[w].clean
                 /\ keys["admin"].cur = env.cur /\ keys["admin"].cur # None
    BY <1>7 DEF AskCustomers, CheckMark, Enabled
  <2>3. told' => keys["admin"].cur = env.cur /\ ConfigsCurrent
    BY <2>1, <2>2 DEF AdminInv, StatusAdmin
  <2>4. \A v \in Worker : req'[v] = req[v] \/ req'[v] = Idle
    BY <2>1 DEF TypeOK
  <2>5. \A v \in Worker : req'[v] = req[v] \/ Fresh(req'[v])
    BY <2>4, FreshIdle
  <2>. QED
    BY <2>1, <2>3, <2>5, AdminRead
<1>8. ASSUME NEW k \in Key, RotateKey(k) PROVE AdminInv'
  BY <1>8, AdminRotate
<1>9. ASSUME DropPrevious PROVE AdminInv'
  BY <1>9, AdminDrop
<1>10. ASSUME NEW s \in Service, Restart(s) PROVE AdminInv'
  BY <1>10, AdminRestart
<1>11. CASE UNCHANGED vars
  BY <1>11, AdminRead DEF vars
<1>. QED
  BY <1>1, <1>2, <1>3, <1>4, <1>5, <1>6, <1>7, <1>8, <1>9, <1>10, <1>11,
     NextSteps

LEMMA AdminHolds == Spec => [](TypeOK /\ AdminInv)
<1>1. TypeOK /\ AdminInv /\ [Next]_vars => TypeOK' /\ AdminInv'
  BY TypeStep, AdminStep
<1>. QED
  BY <1>1, TypeInit, AdminInit, PTL DEF Spec

\* update_provider, reencrypt and the rotation of the key: whatever fails and
\* however long a request takes, image-processing gets what the admins have
\* set, except of a provider written by a request that had loaded it before
\* another write.
THEOREM Edits == Spec => []EditsSurvive
<1>1. TypeOK /\ AdminInv => EditsSurvive
  BY DEF AdminInv, EditsSurvive, Served, ConfigsOpen, ConfigsRight, OpenConfig, Opens
<1>. QED
  BY <1>1, AdminHolds, PTL


-----------------------------------------------------------------------------
(* Tokens and the verdict *)

TokensRight ==
  \A c \in Connected :
    /\ conn[c].plain = "token"
    /\ conn[c].key \in Known(keys["customer"]) \cap Known(env)

\* Only customer-service holds loaded tokens.
LoadedThere ==
  \A w \in Worker : \A c \in LoadedConns(w) : RunsIn(w) = "customer"

\* It opens them.
LoadedOpen ==
  \A w \in Worker : \A c \in LoadedConns(w) :
    /\ req[w].conns[c].plain = "token"
    /\ req[w].conns[c].key \in Known(keys["customer"])

TokensCurrent == \A c \in Connected : conn[c].key \in {env.cur, None}

\* When customer-service has been heard it runs with the current key, and
\* all it writes from then on is under this key.
VerdictCust == heard => keys["customer"].cur = env.cur /\ TokensCurrent

CustInv ==
  /\ LoadedThere
  /\ VerdictCust
  /\ ~misled => /\ keys["customer"].cur \in Known(env)
                /\ TokensRight
                /\ LoadedOpen

LEMMA SealTokenKeeps ==
  /\ SealToken("token").plain = "token"
  /\ \A t : SealToken(t).key \in {keys["customer"].cur, None}
  BY DEF SealToken, Seal

LEMMA CustInit == Init => CustInv
<1>. SUFFICES ASSUME Init PROVE CustInv
  OBVIOUS
<1>1. keys["customer"].cur \in Known(env)
  BY DEF Init, Known, Service
<1>2. Connected = {}
  BY DEF Init, Connected
<1>3. \A w \in Worker : LoadedConns(w) = {}
  BY DEF Init, LoadedConns, Idle
<1>4. heard = FALSE
  BY DEF Init
<1>. QED
  BY <1>1, <1>2, <1>3, <1>4
     DEF CustInv, TokensRight, LoadedThere, LoadedOpen, VerdictCust

\* CustInv when neither the keys nor the tokens change.
LEMMA CustRead ==
  ASSUME TypeOK, CustInv,
         UNCHANGED <<env, keys, conn, misled>>,
         heard' => heard \/ (keys["customer"].cur = env.cur /\ TokensCurrent),
         \A w \in Worker :
           \/ /\ req'[w].step = req[w].step
              /\ req'[w].conns = req[w].conns
           \/ Fresh(req'[w])
  PROVE  CustInv'
<1>1. Connected' = Connected /\ TokensCurrent' = TokensCurrent
  BY DEF Connected, TokensCurrent
<1>2. VerdictCust'
  BY <1>1 DEF CustInv, VerdictCust
<1>3. ASSUME NEW w \in Worker, NEW c \in Conn, req'[w].conns[c] # None
      PROVE  /\ req'[w].step \in {"use", "reseal-tokens"}
             /\ ~misled => /\ req'[w].conns[c].plain = "token"
                           /\ req'[w].conns[c].key \in Known(keys["customer"])
  <2>1. CASE req'[w].step = req[w].step /\ req'[w].conns = req[w].conns
    <3>1. c \in LoadedConns(w)
      BY <1>3, <2>1 DEF LoadedConns
    <3>2. /\ RunsIn(w) = "customer"
          /\ ~misled => /\ req[w].conns[c].plain = "token"
                        /\ req[w].conns[c].key \in Known(keys["customer"])
      BY <3>1 DEF CustInv, LoadedThere, LoadedOpen
    <3>. QED
      BY <2>1, <3>2 DEF RunsIn
  <2>2. CASE Fresh(req'[w])
    <3>1. /\ req'[w].step \in {"use", "reseal-tokens"}
          /\ c \in Connected
          /\ req'[w].conns[c] = conn[c]
      BY <1>3, <2>2 DEF Fresh
    <3>. QED
      BY <3>1 DEF CustInv, TokensRight
  <2>. QED
    BY <1>3, <2>1, <2>2
<1>4. LoadedThere'
  BY <1>3 DEF LoadedThere, LoadedConns, RunsIn
<1>5. ASSUME ~misled
      PROVE  TokensRight' /\ keys'["customer"].cur \in Known(env')
  BY <1>1, <1>5 DEF CustInv, TokensRight
<1>6. ASSUME ~misled PROVE LoadedOpen'
  BY <1>3, <1>6 DEF LoadedOpen, LoadedConns
<1>. QED
  BY <1>2, <1>4, <1>5, <1>6 DEF CustInv

\* CustInv when some rows are granted, written back or deleted.
LEMMA CustWrite ==
  ASSUME TypeOK, CustInv,
         UNCHANGED <<env, keys, verdict>>,
         \A w \in Worker : req'[w] = req[w] \/ req'[w] = Idle,
         \A c \in Connected' :
           \/ c \in Connected /\ conn'[c] = conn[c]
           \/ \E t : conn'[c] = SealToken(t) /\ (~misled => t = "token")
  PROVE  CustInv'
<1>1. ASSUME ~misled
      PROVE  TokensRight' /\ keys'["customer"].cur \in Known(env')
  <2>. SUFFICES ASSUME NEW c \in Connected'
                PROVE  /\ conn'[c].plain = "token"
                       /\ conn'[c].key \in Known(keys["customer"]) \cap Known(env)
    BY <1>1 DEF TokensRight, CustInv
  <2>1. \/ c \in Connected /\ conn'[c] = conn[c]
        \/ conn'[c] = SealToken("token")
    BY <1>1
  <2>. QED
    BY <1>1, <2>1, SealTokenKeeps DEF CustInv, TokensRight, Known
<1>2. ASSUME TokensCurrent, keys["customer"].cur = env.cur PROVE TokensCurrent'
  <2>. SUFFICES ASSUME NEW c \in Connected' PROVE conn'[c].key \in {env.cur, None}
    BY DEF TokensCurrent
  <2>1. CASE c \in Connected /\ conn'[c] = conn[c]
    BY <1>2, <2>1 DEF TokensCurrent
  <2>2. CASE \E t : conn'[c] = SealToken(t)
    BY <1>2, <2>2, SealTokenKeeps
  <2>. QED
    BY <2>1, <2>2
<1>3. VerdictCust'
  BY <1>2 DEF CustInv, VerdictCust
<1>4. \A w \in Worker : req'[w] = Idle => LoadedConns(w)' = {}
  BY DEF LoadedConns, Idle
<1>5. \A w \in Worker : req'[w] = req[w] =>
        LoadedConns(w)' = LoadedConns(w) /\ RunsIn(w)' = RunsIn(w)
  BY DEF LoadedConns, RunsIn
<1>6. LoadedThere' /\ (~misled => LoadedOpen')
  BY <1>4, <1>5 DEF CustInv, LoadedThere, LoadedOpen
<1>. QED
  BY <1>1, <1>3, <1>6 DEF CustInv

LEMMA CustRotate ==
  ASSUME TypeOK, CustInv, NEW k \in Key, RotateKey(k)
  PROVE  CustInv'
<1>1. /\ k \notin Known(env)
      /\ env' = [cur |-> k, prev |-> env.prev \cup ({env.cur} \ {None})]
      /\ heard' = FALSE
      /\ UNCHANGED <<keys, config, conn, misled, req, wanted, contested>>
  BY DEF RotateKey
<1>2. Known(env) \subseteq Known(env')
  BY <1>1 DEF Known
<1>3. Connected' = Connected
  BY <1>1 DEF Connected
<1>4. ASSUME ~misled
      PROVE  TokensRight' /\ keys'["customer"].cur \in Known(env')
  BY <1>1, <1>2, <1>3, <1>4 DEF CustInv, TokensRight
<1>5. LoadedThere' /\ (~misled => LoadedOpen')
  BY <1>1 DEF CustInv, LoadedThere, LoadedOpen, LoadedConns, RunsIn
<1>. QED
  BY <1>1, <1>4, <1>5 DEF CustInv, VerdictCust

LEMMA CustDrop ==
  ASSUME TypeOK, CustInv, DropPrevious
  PROVE  CustInv'
<1>1. /\ misled' = (misled \/ ~heard)
      /\ UNCHANGED <<keys, config, conn, told, heard, req, wanted, contested>>
  BY DEF DropPrevious
<1>2. env'.cur = env.cur /\ Known(env') = {env.cur, None}
  BY DEF DropPrevious, TypeOK, Keys, Known
<1>3. Connected' = Connected
  BY <1>1 DEF Connected
<1>4. VerdictCust'
  BY <1>1, <1>2, <1>3 DEF CustInv, VerdictCust, TokensCurrent
<1>5. LoadedThere' /\ (~misled => LoadedOpen')
  BY <1>1 DEF CustInv, LoadedThere, LoadedOpen, LoadedConns, RunsIn
<1>6. ASSUME ~misled'
      PROVE  TokensRight' /\ keys'["customer"].cur \in Known(env')
  <2>1. ~misled /\ keys["customer"].cur = env.cur /\ TokensCurrent
    BY <1>1, <1>6 DEF CustInv, VerdictCust, TypeOK
  <2>. QED
    BY <1>1, <1>2, <1>3, <2>1 DEF CustInv, TokensRight, TokensCurrent
<1>. QED
  BY <1>1, <1>4, <1>5, <1>6 DEF CustInv

LEMMA CustRestart ==
  ASSUME TypeOK, CustInv, NEW s \in Service, Restart(s)
  PROVE  CustInv'
<1>1. /\ keys' = [keys EXCEPT ![s] = env]
      /\ req' = [w \in Worker |-> IF RunsIn(w) = s THEN Idle ELSE req[w]]
      /\ UNCHANGED <<env, config, conn, verdict, wanted, contested>>
  BY DEF Restart
<1>2. Connected' = Connected /\ TokensCurrent' = TokensCurrent
  BY <1>1 DEF Connected, TokensCurrent
<1>3. \A w \in Worker : RunsIn(w) = s => req'[w] = Idle
  BY <1>1
<1>4. \A w \in Worker : RunsIn(w) # s => req'[w] = req[w]
  BY <1>1
<1>5. \A w \in Worker : req'[w] = Idle => LoadedConns(w)' = {}
  BY DEF LoadedConns, Idle
<1>6. \A w \in Worker : req'[w] = req[w] =>
        LoadedConns(w)' = LoadedConns(w) /\ RunsIn(w)' = RunsIn(w)
  BY DEF LoadedConns, RunsIn
<1>7. LoadedThere'
  BY <1>3, <1>4, <1>5, <1>6 DEF CustInv, LoadedThere
<1>8. CASE s = "admin"
  <2>1. keys'["customer"] = keys["customer"]
    BY <1>1, <1>8 DEF TypeOK
  <2>2. ASSUME ~misled
        PROVE  TokensRight' /\ keys'["customer"].cur \in Known(env')
    BY <1>1, <1>2, <2>1, <2>2 DEF CustInv, TokensRight
  <2>3. VerdictCust'
    BY <1>1, <1>2, <2>1 DEF CustInv, VerdictCust
  <2>4. ASSUME ~misled PROVE LoadedOpen'
    BY <1>3, <1>4, <1>5, <1>6, <2>1, <2>4 DEF CustInv, LoadedOpen
  <2>. QED
    BY <1>1, <1>7, <2>2, <2>3, <2>4 DEF CustInv
<1>9. CASE s = "customer"
  <2>1. keys'["customer"] = env
    BY <1>1, <1>9 DEF TypeOK, Service
  <2>2. ASSUME ~misled
        PROVE  TokensRight' /\ keys'["customer"].cur \in Known(env')
    BY <1>1, <1>2, <2>1, <2>2 DEF CustInv, TokensRight, Known
  <2>3. VerdictCust'
    BY <1>1, <1>2, <2>1 DEF CustInv, VerdictCust
  <2>4. LoadedOpen'
    BY <1>3, <1>4, <1>5, <1>9 DEF CustInv, LoadedThere, LoadedOpen, LoadedConns
  <2>. QED
    BY <1>1, <1>7, <2>2, <2>3, <2>4 DEF CustInv
<1>. QED
  BY <1>8, <1>9 DEF Service


LEMMA CustSeals ==
  ASSUME TypeOK, CustInv, NEW w \in Worker, SealsLoaded(w)
  PROVE  CustInv'
<1>1. /\ LoadedConns(w) \subseteq Connected
      /\ conn' = [c \in Conn |-> IF c \in LoadedConns(w)
                    THEN SealToken(OpenToken(req[w].conns[c])) ELSE conn[c]]
      /\ req' = [req EXCEPT ![w] = Idle]
      /\ UNCHANGED <<env, keys, config, verdict, wanted, contested>>
  BY SealsLoadedSteps
<1>2. ASSUME NEW c \in LoadedConns(w), ~misled
      PROVE  OpenToken(req[w].conns[c]) = "token"
  BY <1>2 DEF CustInv, LoadedOpen, OpenToken, Opens
<1>3. \A c \in Connected' :
        \/ c \in Connected /\ conn'[c] = conn[c]
        \/ \E t : conn'[c] = SealToken(t) /\ (~misled => t = "token")
  <2>. SUFFICES ASSUME NEW c \in Connected', c \notin LoadedConns(w)
                PROVE  c \in Connected /\ conn'[c] = conn[c]
    <3>1. ASSUME NEW c \in Connected', c \in LoadedConns(w)
          PROVE  \E t : conn'[c] = SealToken(t) /\ (~misled => t = "token")
      <4>1. conn'[c] = SealToken(OpenToken(req[w].conns[c]))
        BY <1>1, <3>1 DEF Connected
      <4>. QED
        BY <1>2, <3>1, <4>1
    <3>. QED
      BY <3>1
  <2>. QED
    BY <1>1 DEF Connected
<1>4. \A v \in Worker : req'[v] = req[v] \/ req'[v] = Idle
  BY <1>1 DEF TypeOK
<1>. QED
  BY <1>1, <1>3, <1>4, CustWrite

LEMMA CustWriteConfigs ==
  ASSUME TypeOK, CustInv, NEW w \in Worker,
         NEW next, Fresh(next),
         WriteConfigs(w, next), UNCHANGED <<env, keys, conn, verdict>>
  PROVE  CustInv'
<1>1. next \in Request
  BY DEF Fresh
<1>2. /\ req'[w] = next
      /\ \A v \in Worker \ {w} : /\ req'[v].step = req[v].step
                                 /\ req'[v].conns = req[v].conns
  BY <1>1, WriteConfigsSteps
<1>3. \A v \in Worker :
        \/ /\ req'[v].step = req[v].step
           /\ req'[v].conns = req[v].conns
        \/ Fresh(req'[v])
  BY <1>2
<1>. QED
  BY <1>3, CustRead

LEMMA CustStep ==
  ASSUME TypeOK, CustInv, [Next]_vars
  PROVE  CustInv'
<1>1. ASSUME NEW c \in Conn, Connect(c) \/ Disconnect(c) PROVE CustInv'
  <2>1. UNCHANGED <<env, keys, config, verdict, req, wanted, contested>>
    BY <1>1, Zenon DEF Connect, InsertConnection, Disconnect
  <2>2. conn' = [conn EXCEPT ![c] = SealToken("token")]
        \/ conn' = [conn EXCEPT ![c] = Gone]
    BY <1>1, Zenon DEF Connect, InsertConnection, Disconnect, Exchanged
  <2>3. \A d \in Connected' :
          \/ d \in Connected /\ conn'[d] = conn[d]
          \/ \E t : conn'[d] = SealToken(t) /\ (~misled => t = "token")
    BY <2>2 DEF Connected, TypeOK
  <2>. QED
    BY <2>1, <2>3, CustWrite
<1>2. ASSUME NEW p \in Provider, NEW c \in Config, CreateProvider(p, c)
      PROVE  CustInv'
  BY <1>2, CustRead DEF CreateProvider, InsertProvider
<1>3. ASSUME NEW w \in Worker, Reads(w) PROVE CustInv'
  <2>1. PICK q : Fresh(q) /\ req' = [req EXCEPT ![w] = q]
    BY <1>3, ReadsFresh
  <2>2. \A v \in Worker : req'[v] = req[v] \/ Fresh(req'[v])
    BY <2>1 DEF TypeOK
  <2>3. UNCHANGED <<env, keys, conn, verdict>>
    BY <1>3, ReadsFresh
  <2>. QED
    BY <2>2, <2>3, CustRead
<1>4. ASSUME NEW w \in Worker, SealsLoaded(w) PROVE CustInv'
  BY <1>4, CustSeals
<1>5. ASSUME NEW w \in Worker, CommitUpdate(w) PROVE CustInv'
  <2>1. WriteConfigs(w, Idle) /\ UNCHANGED <<env, keys, conn, verdict>>
    BY <1>5, Zenon DEF CommitUpdate
  <2>. QED
    BY <2>1, FreshIdle, CustWriteConfigs
<1>6. ASSUME NEW w \in Worker, CommitConfigs(w) PROVE CustInv'
  <2>1. WriteConfigs(w, [Idle EXCEPT !.step = "call"])
        /\ UNCHANGED <<env, keys, conn, verdict>>
    BY <1>6, Zenon DEF CommitConfigs
  <2>. QED
    BY <2>1, FreshCall, CustWriteConfigs
<1>7. ASSUME NEW w \in Worker, AskCustomers(w) PROVE CustInv'
  <2>1. /\ At(w, "status")
        /\ req' = [req EXCEPT ![w] = Idle]
        /\ UNCHANGED <<env, keys, config, conn, misled, wanted, contested>>
    BY <1>7, Zenon DEF AskCustomers, Answer
  <2>2. PICK answered \in BOOLEAN :
          /\ told' =
               /\ req[w].clean
               /\ ~(answered /\ \E c \in Connected : Stale("customer", conn[c]))
               /\ Enabled("admin") /\ keys["admin"].cur = env.cur
          /\ heard' = (told' /\ answered /\ keys["customer"].cur = env.cur)
    BY <1>7, Zenon DEF AskCustomers, CheckMark
  <2>3. ASSUME heard' PROVE keys["customer"].cur = env.cur /\ TokensCurrent
    <3>1. /\ keys["customer"].cur = env.cur /\ env.cur # None
          /\ ~ \E c \in Connected : Stale("customer", conn[c])
      BY <2>2, <2>3 DEF Enabled
    <3>. QED
      BY <3>1 DEF Stale, Enabled, IsCurrent, TokensCurrent
  <2>5. \A v \in Worker : req'[v] = req[v] \/ req'[v] = Idle
    BY <2>1 DEF TypeOK
  <2>6. \A v \in Worker : req'[v] = req[v] \/ Fresh(req'[v])
    BY <2>5, FreshIdle
  <2>. QED
    BY <2>1, <2>3, <2>6, CustRead
<1>8. ASSUME NEW k \in Key, RotateKey(k) PROVE CustInv'
  BY <1>8, CustRotate
<1>9. ASSUME DropPrevious PROVE CustInv'
  BY <1>9, CustDrop
<1>10. ASSUME NEW s \in Service, Restart(s) PROVE CustInv'
  BY <1>10, CustRestart
<1>11. CASE UNCHANGED vars
  BY <1>11, CustRead DEF vars
<1>. QED
  BY <1>1, <1>2, <1>3, <1>4, <1>5, <1>6, <1>7, <1>8, <1>9, <1>10, <1>11,
     NextSteps

LEMMA CustHolds == Spec => [](TypeOK /\ CustInv)
<1>1. TypeOK /\ CustInv /\ [Next]_vars => TypeOK' /\ CustInv'
  BY TypeStep, CustStep
<1>. QED
  BY <1>1, TypeInit, CustInit, PTL DEF Spec

\* connections_controller and reencrypt_tokens: whether customer-service
\* answers or not, no write-back of a request that was in flight,
\* re-encryption or rotation loses a granted token or seals it twice; only
\* dropping the previous keys on a mark it had no part in can.
THEOREM Tokens == Spec => []TokensSurvive
<1>1. CustInv => TokensSurvive
  BY DEF CustInv, TokensSurvive, TokensRight
<1>. QED
  BY <1>1, CustHolds, PTL

\* rotation_status as the portal shows it: once the operator has read the
\* check mark no sealed config needs a previous key; nor does a sealed token
\* if a customer-service with the current key had answered.
THEOREM Verdict == Spec => []VerdictIsTrue
<1>1. AdminInv /\ CustInv => VerdictIsTrue
  BY DEF AdminInv, VerdictAdmin, ConfigsCurrent,
         CustInv, VerdictCust, TokensCurrent, VerdictIsTrue
<1>. QED
  BY <1>1, AdminHolds, CustHolds, PTL
=============================================================================
