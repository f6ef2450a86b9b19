---------------------------- MODULE KeyRotation ----------------------------
(***************************************************************************)
(* Secrets at rest: the provider configurations of admin-service and the   *)
(* provider tokens of customer-service's connections, sealed by            *)
(* TokenCipher, and the rotation of its key: a new key in the environment, *)
(* restarts, re-encryption, the status that the admin portal shows, and    *)
(* the removal of the previous keys.                                       *)
(*                                                                         *)
(* A service reads the environment when it starts and seals with the       *)
(* current key only.  Every request loads rows, lets time pass (a call to  *)
(* Google or Microsoft, other rows), and writes what it loaded back.       *)
(***************************************************************************)
EXTENDS Naturals, FiniteSets

CONSTANTS
  Key,
  Provider,      \* rows of providers
  Field, Value,  \* keys and values of a provider's config
  Conn,          \* rows of connections that have tokens (ids are not reused)
  Worker,        \* request threads
  None

ASSUME NoneAssumption == None \notin Key \cup Value

VARIABLES
  env,        \* TOKEN_ENCRYPTION_KEY and TOKEN_ENCRYPTION_KEY_PREVIOUS
  keys,       \* keys[s]: what service s has read of them
  config,     \* config[p]: providers.config, None before the row
  conn,       \* conn[c]: tokens in connections.meta, None before, Gone after
  told,       \* the operator has read "All secrets are under the current key"
  heard,      \* history: and customer-service, running with that key, had
              \* answered when this was counted
  misled,     \* history: previous keys were dropped although it had not
  req,        \* req[w]: the request w runs
  wanted,     \* history: the config that the edits of p add up to
  contested   \* history: providers written by a request that had loaded them
              \* before somebody else wrote them

vars == <<env, keys, config, conn, told, heard, misled, req, wanted, contested>>
verdict == <<told, heard, misled>>

Service  == {"admin", "customer"}
Keys     == [cur: Key \cup {None}, prev: SUBSET Key]
Config   == [Field -> Value \cup {None}]
NoConfig == [f \in Field |-> None]
Token    == {"token", "", "ciphertext"}   \* as granted, lost, sealed twice
Sealed(P) == [key: Key \cup {None}, plain: P]      \* key None: in the clear
Gone     == [key |-> None, plain |-> "deleted"]

\* An edit sets a field, removes it (None), or keeps it: the field is not
\* mentioned, or the masked value comes back.
Edit    == [Field -> Value \cup {None, "keep"}]
KeepAll == [f \in Field |-> "keep"]

\* A request: next step, the rows it has loaded (None: not loaded), the
\* edit, the answer of the first half of a status, and (history) the loaded
\* rows that others have written since.
Request == [step: {"idle", "use", "update", "reseal", "call", "reseal-tokens",
                   "status"},
            conns: [Conn -> Sealed(Token) \cup {None}],
            configs: [Provider -> Sealed(Config) \cup {None}],
            edit: Edit, clean: BOOLEAN, outdated: SUBSET Provider]
Idle == [step |-> "idle", conns |-> [c \in Conn |-> None],
         configs |-> [p \in Provider |-> None], edit |-> KeepAll,
         clean |-> FALSE, outdated |-> {}]

TypeOK ==
  /\ env \in Keys
  /\ keys \in [Service -> Keys]
  /\ config \in [Provider -> Sealed(Config) \cup {None}]
  /\ conn \in [Conn -> Sealed(Token) \cup {None, Gone}]
  /\ told \in BOOLEAN /\ heard \in BOOLEAN /\ misled \in BOOLEAN
  /\ req \in [Worker -> Request]
  /\ wanted \in [Provider -> Config]
  /\ contested \in SUBSET Provider

-----------------------------------------------------------------------------
At(w, s)    == req[w].step = s
Answer(w)   == req' = [req EXCEPT ![w] = Idle]
Created     == {p \in Provider : config[p] # None}
Connected   == {c \in Conn : conn[c] \notin {None, Gone}}
LoadedConfigs(w) == {p \in Provider : req[w].configs[p] # None}
LoadedConns(w)   == {c \in Conn : req[w].conns[c] # None}

\* Where a step runs: a re-encryption begins in admin-service and goes on in
\* customer-service.
RunsIn(w) == IF req[w].step \in {"use", "reseal-tokens"} THEN "customer"
             ELSE "admin"

\* TokenCipher: enabled, decrypt (the current key, then the previous ones;
\* the empty value if none fits), is_current.
Enabled(s) == keys[s].cur # None
Known(k)   == {k.cur, None} \cup k.prev

Opens(s, x) == x.key \in Known(keys[s])

\* Mutant of IsCurrent: any key that still decrypts will do.
IsKnown(s, x) == x.key \in Known(keys[s])

IsCurrent(s, x) == x.key = keys[s].cur

\* rotation_status: encrypted, and not under the current key.
Stale(s, x) == Enabled(s) /\ x.key # None /\ ~IsCurrent(s, x)

Seal(s, x)      == [key |-> keys[s].cur, plain |-> x]
OpenToken(x)    == IF Opens("customer", x) THEN x.plain ELSE ""
OpenConfig(x)   == IF Opens("admin", x) THEN x.plain ELSE NoConfig
Served(p)       == OpenConfig(config[p])    \* GET /internal/providers
SealToken(t)    == IF t = "" THEN [key |-> None, plain |-> ""]
                   ELSE Seal("customer", t)
SealConfig(c)   == IF c = NoConfig THEN [key |-> None, plain |-> c]
                   ELSE Seal("admin", c)

\* Mutant of Merge: what is not mentioned is dropped.
MergeMentioned(edit, old) ==
  [f \in Field |-> IF edit[f] = "keep" THEN None ELSE edit[f]]

\* merge_with_existing.
Merge(edit, old) ==
  [f \in Field |-> IF edit[f] = "keep" THEN old[f] ELSE edit[f]]

Init ==
  /\ env \in [cur: Key \cup {None}, prev: {{}}]
  /\ keys = [s \in Service |-> env]
  /\ config = [p \in Provider |-> None]
  /\ conn = [c \in Conn |-> None]
  /\ told = FALSE /\ heard = FALSE /\ misled = FALSE
  /\ req = [w \in Worker |-> Idle]
  /\ wanted = [p \in Provider |-> NoConfig]
  /\ contested = {}

-----------------------------------------------------------------------------
(* customer-service *)

\* exchange_code: what Google or Microsoft grants for the code.
Exchanged == "token"

\* ConnectionDao.create.
InsertConnection(c, x) == conn' = [conn EXCEPT ![c] = x]

\* google_callback, onedrive_callback: the code is exchanged, the row stored.
Connect(c) ==
  /\ conn[c] = None
  /\ InsertConnection(c, SealToken(Exchanged))
  /\ UNCHANGED <<env, keys, config, verdict, req, wanted, contested>>

Disconnect(c) ==
  /\ c \in Connected
  /\ conn' = [conn EXCEPT ![c] = Gone]
  /\ UNCHANGED <<env, keys, config, verdict, req, wanted, contested>>

\* list_files, download_file: the row is loaded, the provider is called.
StartUse(w, c) ==
  /\ At(w, "idle")
  /\ c \in Connected
  /\ req' = [req EXCEPT ![w] =
       [Idle EXCEPT !.step = "use",
          !.conns = [d \in Conn |-> IF d = c THEN conn[c] ELSE None]]]
  /\ UNCHANGED <<env, keys, config, conn, verdict, wanted, contested>>

\* The loaded token is still good, or the provider fails: nothing is written.
UseAsLoaded(w) ==
  /\ At(w, "use")
  /\ Answer(w)
  /\ UNCHANGED <<env, keys, config, conn, verdict, wanted, contested>>

\* 401 and a refresh token: the provider issues a new access token.
Refreshed(w) == \A c \in LoadedConns(w) : OpenToken(req[w].conns[c]) # ""

\* UPDATE of every loaded row; a row deleted meanwhile is a StaleDataError.
WriteTokens(w, new) ==
  /\ LoadedConns(w) \subseteq Connected
  /\ conn' = [c \in Conn |-> IF c \in LoadedConns(w) THEN new[c] ELSE conn[c]]

\* Mutant of PersistRefreshedToken: the sealed meta is sealed once more.
PersistSealed(w) ==
  /\ At(w, "use")
  /\ Refreshed(w)
  /\ WriteTokens(w, [c \in Conn |-> SealToken("ciphertext")])
  /\ Answer(w)
  /\ UNCHANGED <<env, keys, config, verdict, wanted, contested>>

\* The tokens as opened when they were loaded, with the new access token.
PersistRefreshedToken(w) ==
  /\ At(w, "use")
  /\ Refreshed(w)
  /\ WriteTokens(w, [c \in Conn |-> SealToken(OpenToken(req[w].conns[c]))])
  /\ Answer(w)
  /\ UNCHANGED <<env, keys, config, verdict, wanted, contested>>

\* reencrypt_tokens: SELECT of all connections, called by admin-service.
LoadTokens(w) ==
  /\ At(w, "call")
  /\ IF Enabled("customer")
       THEN req' = [req EXCEPT ![w] = [Idle EXCEPT !.step = "reseal-tokens",
              !.conns = [c \in Conn |->
                 IF c \in Connected /\ conn[c].plain # "" THEN conn[c]
                 ELSE None]]]
       ELSE Answer(w)
  /\ UNCHANGED <<env, keys, config, conn, verdict, wanted, contested>>

\* Every loaded row is sealed anew; one COMMIT.
CommitTokens(w) ==
  /\ At(w, "reseal-tokens")
  /\ WriteTokens(w, [c \in Conn |-> SealToken(OpenToken(req[w].conns[c]))])
  /\ Answer(w)
  /\ UNCHANGED <<env, keys, config, verdict, wanted, contested>>

-----------------------------------------------------------------------------
(* admin-service *)

\* ProviderDao.create.
InsertProvider(p, x) == config' = [config EXCEPT ![p] = x]

CreateProvider(p, c) ==
  /\ config[p] = None
  /\ InsertProvider(p, SealConfig(c))
  /\ wanted' = [wanted EXCEPT ![p] = c]
  /\ UNCHANGED <<env, keys, conn, verdict, req, contested>>

\* update_provider with a config: the stored one is loaded and merged.
StartUpdate(w, p, e) ==
  /\ At(w, "idle")
  /\ p \in Created
  /\ req' = [req EXCEPT ![w] =
       [Idle EXCEPT !.step = "update", !.edit = e,
          !.configs = [q \in Provider |-> IF q = p THEN config[p] ELSE None]]]
  /\ UNCHANGED <<env, keys, config, conn, verdict, wanted, contested>>

\* reencrypt: SELECT of all providers; those in the clear are passed over.
StartReencrypt(w) ==
  /\ At(w, "idle")
  /\ req' = [req EXCEPT ![w] =
       IF Enabled("admin")
         THEN [Idle EXCEPT !.step = "reseal",
                 !.configs = [p \in Provider |->
                    IF p \in Created /\ config[p].key # None THEN config[p]
                    ELSE None]]
         ELSE [Idle EXCEPT !.step = "call"]]
  /\ UNCHANGED <<env, keys, config, conn, verdict, wanted, contested>>

\* UPDATE of the loaded rows that change (a seal is never equal to another),
\* and what this does to the histories.
WriteConfigs(w, next) ==
  LET new(p)  == SealConfig(Merge(req[w].edit, OpenConfig(req[w].configs[p])))
      written == {p \in LoadedConfigs(w) :
                    new(p).key # None \/ new(p) # req[w].configs[p]}
  IN
  /\ config' = [p \in Provider |-> IF p \in written THEN new(p) ELSE config[p]]
  /\ contested' = contested \cup (LoadedConfigs(w) \cap req[w].outdated)
  /\ req' = [v \in Worker |->
       IF v = w THEN next
       ELSE [req[v] EXCEPT !.outdated =
               @ \cup (written \cap LoadedConfigs(v))]]

CommitUpdate(w) ==
  /\ At(w, "update")
  /\ WriteConfigs(w, Idle)
  /\ wanted' = [p \in Provider |-> IF p \in LoadedConfigs(w)
                  THEN Merge(req[w].edit, wanted[p]) ELSE wanted[p]]
  /\ UNCHANGED <<env, keys, conn, verdict>>

\* reencrypt_configs commits; then customer-service is called.
CommitConfigs(w) ==
  /\ At(w, "reseal")
  /\ WriteConfigs(w, [Idle EXCEPT !.step = "call"])
  /\ UNCHANGED <<env, keys, conn, verdict, wanted>>

\* rotation_status of the providers: those in the clear are not counted.
StartStatus(w) ==
  /\ At(w, "idle")
  /\ req' = [req EXCEPT ![w] = [Idle EXCEPT !.step = "status",
               !.clean = \A p \in Created : ~Stale("admin", config[p])]]
  /\ UNCHANGED <<env, keys, config, conn, verdict, wanted, contested>>

\* The portal adds the two numbers, and shows the mark if they are 0 and
\* admin-service has a key, whose id the operator compares with the new one.
CheckMark(w, answered) ==
  /\ Enabled("admin") /\ keys["admin"].cur = env.cur
  /\ req[w].clean
  /\ ~(answered /\ \E c \in Connected : Stale("customer", conn[c]))

\* customer_rotation_status; a failed call counts as 0 of 0.
AskCustomers(w) ==
  /\ At(w, "status")
  /\ \E answered \in BOOLEAN :
       /\ told' = CheckMark(w, answered)
       /\ heard' = (told' /\ answered /\ keys["customer"].cur = env.cur)
  /\ Answer(w)
  /\ UNCHANGED <<env, keys, config, conn, misled, wanted, contested>>

\* The request ends without a write: customer-service cannot be reached, a
\* database error, a StaleDataError.
GiveUp(w) ==
  /\ ~At(w, "idle")
  /\ Answer(w)
  /\ UNCHANGED <<env, keys, config, conn, verdict, wanted, contested>>

-----------------------------------------------------------------------------
(* the operator *)

\* A new key in the environment; the old one becomes a previous key.
RotateKey(k) ==
  /\ k \notin Known(env)
  /\ env' = [cur |-> k, prev |-> env.prev \cup ({env.cur} \ {None})]
  /\ told' = FALSE
  /\ heard' = FALSE
  /\ UNCHANGED <<keys, config, conn, misled, req, wanted, contested>>

\* "... then drop the previous key", once the portal shows the check mark.
DropPrevious ==
  /\ told
  /\ env' = [env EXCEPT !.prev = {}]
  /\ misled' = (misled \/ ~heard)
  /\ UNCHANGED <<keys, config, conn, told, heard, req, wanted, contested>>

\* A service starts again, and reads the environment.
Restart(s) ==
  /\ keys' = [keys EXCEPT ![s] = env]
  /\ req' = [w \in Worker |-> IF RunsIn(w) = s THEN Idle ELSE req[w]]
  /\ UNCHANGED <<env, config, conn, verdict, wanted, contested>>

\* The routes of connections_controller, then those of providers_controller.
Connections ==
  \/ \E c \in Conn : Connect(c) \/ Disconnect(c)
  \/ \E w \in Worker : \/ \E c \in Conn : StartUse(w, c)
                      \/ UseAsLoaded(w) \/ PersistRefreshedToken(w)

Configurations ==
  \/ \E p \in Provider, c \in Config : CreateProvider(p, c)
  \/ \E w \in Worker : \/ \E p \in Provider, e \in Edit : StartUpdate(w, p, e)
                      \/ CommitUpdate(w)

\* The maintenance routes of customer-service, called by admin-service.
TokenMaintenance(w) == LoadTokens(w) \/ CommitTokens(w) \/ AskCustomers(w)

Next ==
  \/ Connections
  \/ Configurations
  \/ \E w \in Worker :
       \/ StartReencrypt(w) \/ CommitConfigs(w) \/ StartStatus(w)
       \/ TokenMaintenance(w) \/ GiveUp(w)
  \/ \E k \in Key : RotateKey(k)
  \/ DropPrevious
  \/ \E s \in Service : Restart(s)

Spec == Init /\ [][Next]_vars

-----------------------------------------------------------------------------
\* The check mark of the portal: when the operator has read it, no sealed
\* config needs a previous key, whatever was in flight when they were counted
\* and whatever has been written since; and no sealed token does, if a
\* customer-service with the current key had answered.  (rotation_status
\* passes over what is in the clear, and so does this.)
VerdictIsTrue ==
  /\ told => \A p \in Created : config[p].key \in {env.cur, None}
  /\ heard => \A c \in Connected : conn[c].key \in {env.cur, None}

\* A token, once granted, can be opened by the service as it runs and as it
\* would start: no re-encryption, write-back or rotation loses it or seals it
\* twice, unless the previous keys were dropped on a mark for which
\* customer-service had not answered with the current key.
TokensSurvive ==
  ~misled =>
  \A c \in Connected :
    /\ conn[c].plain = "token"
    /\ conn[c].key \in Known(keys["customer"]) \cap Known(env)

\* What an admin has set is what image-processing gets, through every
\* rotation and partial edit; it is lost only to a request that had loaded
\* the row before and wrote it after.
EditsSurvive ==
  \A p \in Created \ contested : Served(p) = wanted[p]
=============================================================================
