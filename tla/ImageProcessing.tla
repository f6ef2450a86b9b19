-------------------------- MODULE ImageProcessing --------------------------
(***************************************************************************)
(* One process of image-processing-service: requests that resolve their    *)
(* providers, store the image, call the providers one after the other and  *)
(* commit once (ImageFacade.process_image), behind the gateway's time-out. *)
(*                                                                         *)
(* process_image is a coroutine that talks to the database synchronously:  *)
(* what it does between two awaits is done on the event loop, and when it  *)
(* has to wait for a connection of the pool, the loop waits with it.  It   *)
(* keeps its connection from the first INSERT over all calls to the COMMIT.*)
(* Routes that only read run in threads and use the same pool.             *)
(***************************************************************************)
EXTENDS Naturals, Sequences, FiniteSets, SequencesExt

CONSTANTS
  Upload,     \* uploads
  Reader,     \* threads that run list_requests, list_prompts, resolve, stats
  Provider,
  Wish,       \* what an upload may ask for: sequences of providers; << >>:
              \* neither the request nor the preferences name any
  PoolSize,   \* connections of the engine's pool
  Absent

ASSUME WishAssumption == << >> \in Wish /\ Wish \subseteq Seq(Provider)
ASSUME PoolAssumption == PoolSize \in Nat \ {0}
ASSUME UploadAssumption == IsFiniteSet(Upload) /\ Absent \notin Upload
ASSUME ReaderAssumption == IsFiniteSet(Reader)
ASSUME ProviderAssumption == IsFiniteSet(Provider)

VARIABLES
  enabled,    \* providers enabled in admin-service
  job,        \* job[r]: the coroutine of r
  loop,       \* the coroutine that keeps the event loop, or Absent
  reader,     \* reader[t]: state of thread t
  blobs,      \* uploads whose image is stored
  proc,       \* proc[r]: the committed rows of r, or Absent
  answer      \* answer[r]: what the portal got

imageVars == <<enabled, job, loop, reader, blobs, proc, answer>>

\* What ai-adapters makes of a call: whatever goes wrong is an "error".
Outcome == {"success", "error"}

\* proc_req_log with its proc_req_log_providers: their keys and their status.
ProcRow == [status: {"processing", "completed", "failed"},
            keys: Seq(Provider), results: Seq(Outcome)]
ASSUME AbsentAssumption == Absent \notin ProcRow

\* A coroutine: its next step, the wish and the selection of the request, the
\* providers' answers so far, whether it has a connection, and (history) the
\* providers enabled at some time since the upload arrived.
Job == [step: {"idle", "fetch", "resolve", "store", "insert", "call", "refresh",
               "close"},
        wish: Wish, keys: Seq(Provider), results: Seq(Outcome),
        conn: BOOLEAN, allowed: SUBSET Provider]
IdleJob == [step |-> "idle", wish |-> << >>, keys |-> << >>, results |-> << >>,
            conn |-> FALSE, allowed |-> {}]

ImagesTypeOK ==
  /\ enabled \in SUBSET Provider
  /\ job \in [Upload -> Job]
  /\ loop \in Upload \cup {Absent}
  /\ reader \in [Reader -> {"idle", "wait", "read"}]
  /\ blobs \in SUBSET Upload
  /\ proc \in [Upload -> ProcRow \cup {Absent}]
  /\ answer \in [Upload -> {"none", "created", "failed"}]

ImagesInit ==
  /\ enabled \in SUBSET Provider
  /\ job = [r \in Upload |-> IdleJob]
  /\ loop = Absent
  /\ reader = [t \in Reader |-> "idle"]
  /\ blobs = {}
  /\ proc = [r \in Upload |-> Absent]
  /\ answer = [r \in Upload |-> "none"]

-----------------------------------------------------------------------------
JobAt(r, s) == job[r].step = s
Held == Cardinality({r \in Upload : job[r].conn})
          + Cardinality({t \in Reader : reader[t] = "read"})
Free == Held < PoolSize

\* The coroutine is resumed: nobody else keeps the loop.
Resumes(r, s) == JobAt(r, s) /\ loop = Absent

\* The first answer counts: after the gateway has given up, none does.
Say(r, what) == answer' = IF answer[r] = "none" THEN [answer EXCEPT ![r] = what]
                          ELSE answer

\* The handler is left; what it holds is given back when the session closes.
Leave(r, what) ==
  /\ job' = [job EXCEPT ![r] = [IdleJob EXCEPT !.step = "close",
                                            !.conn = job[r].conn]]
  /\ Say(r, what)

\* An upload comes through the gateway: an image, or a file of a connection,
\* which customer-service has to fetch first.
Receive(r, w, s) ==
  /\ JobAt(r, "idle")
  /\ answer[r] = "none"
  /\ job' = [job EXCEPT ![r].step = s, ![r].wish = w, ![r].allowed = enabled]
  /\ UNCHANGED <<enabled, loop, reader, blobs, proc, answer>>

\* process_from_connection: the file is there.
Fetch(r) ==
  /\ Resumes(r, "fetch")
  /\ job' = [job EXCEPT ![r].step = "resolve"]
  /\ UNCHANGED <<enabled, loop, reader, blobs, proc, answer>>

\* Mutant of Selections: the wish is not compared with the enabled providers.
SelectionsAsWished(w) == IF w = << >> THEN SetToSeqs(enabled) ELSE {w}

\* resolve: request, else preferences, else all; "only globally-enabled
\* providers survive".  One row each; the calls go by the rows, and the
\* relationship that reads them back has no order.
Selections(w) ==
  IF w = << >> THEN SetToSeqs(enabled)
  ELSE {[i \in DOMAIN places |-> w[places[i]]] :
          places \in SetToSeqs({i \in DOMAIN w : w[i] \in enabled})}

\* admin-service answers the lookup; the coroutine has not been resumed yet.
Resolve(r) ==
  /\ JobAt(r, "resolve")
  /\ \E keys \in Selections(job[r].wish) :
       job' = [job EXCEPT ![r].keys = keys, ![r].wish = << >>,
                          ![r].step = "store"]
  /\ UNCHANGED <<enabled, loop, reader, blobs, proc, answer>>

\* The file cannot be fetched, or a lookup fails (its exception is not caught).
ResolveFails(r) ==
  /\ Resumes(r, "fetch") \/ Resumes(r, "resolve")
  /\ Leave(r, "failed")
  /\ UNCHANGED <<enabled, loop, reader, blobs, proc>>

\* The rows are flushed, "processing" and "pending"; the first call goes out.
Inserted(r) == [job EXCEPT ![r].step = "call", ![r].conn = TRUE]

\* StorageBackend.save, of any backend: the object is there, under a new key.
Save(r) == blobs' = blobs \cup {r}

\* No provider, or the storage backend fails: answered.  Else the image is
\* stored, and the first INSERT needs a connection.
Store(r) ==
  /\ Resumes(r, "store")
  /\ \/ /\ Leave(r, "failed")
        /\ UNCHANGED <<loop, blobs>>
     \/ /\ job[r].keys # << >>
        /\ Save(r)
        /\ job' = [job EXCEPT ![r].step = "insert"]
        /\ loop' = r
        /\ UNCHANGED answer
  /\ UNCHANGED <<enabled, reader, proc>>

InsertRows(r) ==
  /\ JobAt(r, "insert")
  /\ Free
  /\ job' = Inserted(r)
  /\ loop' = Absent
  /\ UNCHANGED <<enabled, reader, blobs, proc, answer>>

\* ai-adapters answers the call that is out; a failure of any kind is an
\* error of this provider only.
CallReturns(r) ==
  /\ Resumes(r, "call")
  /\ Len(job[r].results) < Len(job[r].keys)
  /\ \E s \in Outcome :
       job' = [job EXCEPT ![r].results = Append(@, s)]
  /\ UNCHANGED <<enabled, loop, reader, blobs, proc, answer>>

\* Mutant of Status: the last provider decides.
StatusOfLast(results) == IF results[Len(results)] = "success"
                         THEN "completed" ELSE "failed"

Status(results) == IF \E i \in DOMAIN results : results[i] = "success"
                   THEN "completed" ELSE "failed"

\* After the last answer: COMMIT, which gives the connection back, and at
\* once the SELECT of refresh, which needs one.
CommitImage(r) ==
  /\ Resumes(r, "call")
  /\ Len(job[r].results) = Len(job[r].keys)
  /\ proc' = [proc EXCEPT ![r] = [status  |-> Status(job[r].results),
                                  keys    |-> job[r].keys,
                                  results |-> job[r].results]]
  /\ job' = [job EXCEPT ![r] = [IdleJob EXCEPT !.step = "refresh"]]
  /\ loop' = r
  /\ UNCHANGED <<enabled, reader, blobs, answer>>

Refresh(r) ==
  /\ JobAt(r, "refresh")
  /\ Free
  /\ job' = [job EXCEPT ![r].step = "close", ![r].conn = TRUE]
  /\ loop' = Absent
  /\ Say(r, "created")
  /\ UNCHANGED <<enabled, reader, blobs, proc>>

\* Mutant of PoolTimeout: the pool waits without a limit.
PoolWaits(r) == FALSE

\* pool_timeout: the wait for a connection raises.  On the way in that is a
\* "storage backend error" (the image stays), at the refresh a 500 (so does
\* everything).
PoolTimeout(r) ==
  /\ JobAt(r, "insert") \/ JobAt(r, "refresh")
  /\ ~Free
  /\ Leave(r, "failed")
  /\ loop' = Absent
  /\ UNCHANGED <<enabled, reader, blobs, proc>>

\* Database.session is closed after the answer.
Close(r) ==
  /\ Resumes(r, "close")
  /\ job' = [job EXCEPT ![r] = IdleJob]
  /\ UNCHANGED <<enabled, loop, reader, blobs, proc, answer>>

\* The gateway answers 502 after 120 s; the coroutine goes on.
GatewayTimeout(r) ==
  /\ ~JobAt(r, "idle")
  /\ answer[r] = "none"
  /\ Say(r, "failed")
  /\ UNCHANGED <<enabled, job, loop, reader, blobs, proc>>

\* The first SELECT of a reading route gets a connection.
Select(t) ==
  /\ reader[t] = "wait" /\ Free
  /\ reader' = [reader EXCEPT ![t] = "read"]

\* A reading route: its thread waits for a connection (and may give up), its
\* session is closed by way of the loop.
ReadStep(t) ==
  /\ \/ reader[t] = "idle" /\ loop = Absent
        /\ reader' = [reader EXCEPT ![t] = "wait"]
     \/ Select(t)
     \/ reader[t] = "wait" /\ ~Free
        /\ reader' = [reader EXCEPT ![t] = "idle"]
     \/ reader[t] = "read" /\ loop = Absent
        /\ reader' = [reader EXCEPT ![t] = "idle"]
  /\ UNCHANGED <<enabled, job, loop, blobs, proc, answer>>

\* An admin enables or disables a provider.
SetEnabled(k) ==
  /\ enabled' = (enabled \ {k}) \cup ({k} \ enabled)
  /\ job' = [r \in Upload |-> IF JobAt(r, "fetch") \/ JobAt(r, "resolve")
               THEN [job[r] EXCEPT !.allowed = @ \cup enabled'] ELSE job[r]]
  /\ UNCHANGED <<loop, reader, blobs, proc, answer>>

\* The process is replaced: what was not committed is gone.
RestartImages ==
  /\ job' = [r \in Upload |-> IdleJob]
  /\ answer' = [r \in Upload |->
       IF JobAt(r, "idle") \/ answer[r] # "none" THEN answer[r] ELSE "failed"]
  /\ loop' = Absent
  /\ reader' = [t \in Reader |-> "idle"]
  /\ UNCHANGED <<enabled, blobs, proc>>

Work(r) ==
  \/ Fetch(r) \/ Resolve(r) \/ ResolveFails(r) \/ Store(r) \/ InsertRows(r)
  \/ CallReturns(r) \/ CommitImage(r) \/ Refresh(r) \/ PoolTimeout(r)
  \/ Close(r)

ImagesNext ==
  \/ \E r \in Upload : \/ \E w \in Wish, s \in {"fetch", "resolve"} : Receive(r, w, s)
                         \/ Work(r) \/ GatewayTimeout(r)
  \/ \E t \in Reader : ReadStep(t)
  \/ \E k \in Provider : SetEnabled(k)
  \/ RestartImages

ImagesSpec == ImagesInit /\ [][ImagesNext]_imageVars

\* Calls end (httpx has time-outs), the loop serves every coroutine in turn,
\* threads go on.
FairImagesSpec == ImagesSpec /\ \A r \in Upload : SF_imageVars(Work(r))
                             /\ \A t \in Reader : WF_imageVars(ReadStep(t))

-----------------------------------------------------------------------------
\* A provider that was disabled before the upload arrived is not called for
\* it, whoever wished for it.
OnlyEnabledCalled ==
  \A r \in Upload : JobAt(r, "call") => ToSet(job[r].keys) \subseteq job[r].allowed

\* What the portal was told exists is there, and what can be read of an upload
\* is whole: one final row per selected provider, a status that fits them, and
\* an image.
StoredWhole ==
  \A r \in Upload :
    /\ answer[r] = "created" => proc[r] # Absent
    /\ proc[r] # Absent =>
         /\ Len(proc[r].results) = Len(proc[r].keys)
         /\ proc[r].keys # << >>
         /\ proc[r].status = "completed" <=>
              \E i \in DOMAIN proc[r].results : proc[r].results[i] = "success"
         /\ r \in blobs

\* Every upload is answered, though all of them hold what the others wait for.
UploadsAnswered ==
  \A r \in Upload : ~JobAt(r, "idle") ~> answer[r] # "none"
=============================================================================
