---------------------------- MODULE KnowledgeBase ----------------------------
(***************************************************************************)
(* kb-service for one customer: KbFacade and KbDao over their tables, and  *)
(* the vector stores.  Ingests, ingest jobs and KB creation are coroutines *)
(* of one event loop: what a coroutine does between two awaits is not      *)
(* interleaved with another one.  Deletions run in threads of their own,   *)
(* between any two statements of an ingest.                                *)
(*                                                                         *)
(* Every request has a PostgreSQL transaction (READ COMMITTED): docs, kbs, *)
(* vectors, jobs are the committed rows.  A pgvector KB keeps its vectors  *)
(* in the same database; an external backend is outside of the             *)
(* transaction, and what it refuses goes to an index in the memory of the  *)
(* process.                                                                *)
(***************************************************************************)
EXTENDS Naturals, FiniteSets

CONSTANTS
  SqlKb,        \* ids of KBs on the pgvector stack
  ExternalKb,   \* ids of KBs on a stack with an external backend
  Group,        \* ids of KB groups
  Gen,          \* Image2Prompt generations that can be ingested
  Job,          \* ids of ingest jobs
  Task,         \* coroutines
  Thread,       \* threads of the delete routes
  MaxKbs,       \* the plan's max_kbs
  MaxDocs,      \* the plan's max_docs_per_kb
  Failures,     \* which calls may fail: a subset of FailureKinds
  None

\* lookup: the plan, in ingest; upsert, purge: the external backend;
\* restart: the service.
FailureKinds == {"lookup", "upsert", "purge", "restart"}

ASSUME FailuresAssumption == Failures \subseteq FailureKinds
ASSUME StackAssumption == SqlKb \cap ExternalKb = {}
ASSUME QuotaAssumption == MaxKbs \in Nat /\ MaxDocs \in Nat
ASSUME GenAssumption == IsFiniteSet(Gen)
ASSUME NoneAssumption == None \notin Group \cup Task \cup Job \cup Nat

Kb == SqlKb \cup ExternalKb

VARIABLES
  group,       \* kb_groups: new (not created), live or deleted
  kb, home,    \* project_kbs: the same, and group_id
  count,       \* project_kbs.doc_count
  docs,        \* kb_documents
  vectors,     \* kb_vectors
  external,    \* vectors in the external backends
  memory,      \* vectors in the in-process index _MEM
  job,         \* kb_ingest_jobs
  background,  \* jobs handed to BackgroundTasks of this process
  task,        \* what each coroutine runs
  holder,      \* the coroutine that runs without awaiting, or None
  thread,      \* what each delete thread runs
  unclean,     \* history: KBs with an ingest and a delete at the same time,
               \* or whose backend refused the delete
  overwrites,  \* history: overwrites[k] ingests set a doc_count that was not
               \* the one they had read
  unplanned    \* history: unplanned[k] documents were added by ingests that
               \* had not got the plan

tables == <<group, kb, home, count, docs, vectors, job>>
excess == <<overwrites, unplanned>>
vars == <<tables, external, memory, background, task, holder, thread, unclean,
          excess>>

Life   == {"new", "live", "deleted"}
Doc    == [kb: Kb, gen: Gen, by: Task]      \* by: the coroutine that added it
Vector == Kb \X Gen
Status == {"new", "pending", "running", "done", "error"}

\* A coroutine: the KB, the generations still to go through, kb.doc_count as
\* the session read it, how many documents the plan still allows (a number
\* or None: no limit), what it has added, and the job it runs for.
Coroutine == [step: {"idle", "create", "read", "plan", "resolve", "loop", "report"},
              kb: Kb \cup {None}, group: Group \cup {None}, want: SUBSET Gen,
              count: Nat, remaining: Nat \cup {None}, added: SUBSET Gen,
              job: Job \cup {None}]
\* A deletion: KBs to go, the one at hand, deleted but uncommitted rows.
Deletion == [step: {"idle", "purge", "docs", "row", "commit"},
             group: Group \cup {None}, todo: SUBSET Kb, kb: Kb \cup {None},
             vectors: SUBSET Vector, docs: SUBSET Doc, rows: SUBSET Kb]
Idle == [step |-> "idle", kb |-> None, group |-> None, want |-> {},
         count |-> 0, remaining |-> None, added |-> {}, job |-> None]
NoDeletion == [step |-> "idle", group |-> None, todo |-> {}, kb |-> None,
               vectors |-> {}, docs |-> {}, rows |-> {}]

TypeOK ==
  /\ group \in [Group -> Life]
  /\ kb \in [Kb -> Life]
  /\ home \in [Kb -> Group \cup {None}]
  /\ count \in [Kb -> Nat]
  /\ docs \in SUBSET Doc
  /\ {vectors, external, memory} \subseteq SUBSET Vector
  /\ job \in [Job -> [status: Status, kb: Kb \cup {None}, want: SUBSET Gen]]
  /\ background \in SUBSET Job
  /\ task \in [Task -> Coroutine]
  /\ holder \in Task \cup {None}
  /\ thread \in [Thread -> Deletion]
  /\ unclean \in SUBSET Kb
  /\ overwrites \in [Kb -> Nat]
  /\ unplanned \in [Kb -> Nat]

Init ==
  /\ group = [g \in Group |-> "new"]
  /\ kb = [k \in Kb |-> "new"]
  /\ home = [k \in Kb |-> None]
  /\ count = [k \in Kb |-> 0]
  /\ docs = {} /\ vectors = {} /\ external = {} /\ memory = {}
  /\ job = [j \in Job |-> [status |-> "new", kb |-> None, want |-> {}]]
  /\ background = {}
  /\ task = [t \in Task |-> Idle]
  /\ holder = None
  /\ thread = [p \in Thread |-> NoDeletion]
  /\ unclean = {}
  /\ overwrites = [k \in Kb |-> 0]
  /\ unplanned = [k \in Kb |-> 0]

-----------------------------------------------------------------------------
At(t, s)   == task[t].step = s
Goto(t, s) == task' = [task EXCEPT ![t].step = s]
Free       == holder = None          \* the event loop can resume a coroutine
LiveKbs    == {k \in Kb : kb[k] = "live"}
Of(S, k)   == {v \in S : v[1] = k}   \* the vectors of KB k

Deleting(p, s) == thread[p].step = s
Ingesting(k) == \E t \in Task : /\ task[t].step \in {"plan", "resolve", "loop"}
                                /\ task[t].kb = k
Purging(k)   == \E p \in Thread : k \in thread[p].todo \cup thread[p].rows

\* KbFacade.create_group.
CreateGroup(g) ==
  /\ group[g] = "new"
  /\ group' = [group EXCEPT ![g] = "live"]
  /\ UNCHANGED <<kb, home, count, docs, vectors, job, external, memory,
                 background, task, holder, thread, unclean, excess>>

\* create_kb up to its await: the client names a group it has seen.
StartCreate(t, g) ==
  /\ Free /\ At(t, "idle") /\ group[g] # "new"
  /\ task' = [task EXCEPT ![t] =
                    [Idle EXCEPT !.step = "create", !.group = g]]
  /\ UNCHANGED <<tables, external, memory, background, holder, thread,
                 unclean, excess>>

\* Then the plan (which may not be known or not include the stack), the
\* count and the INSERT.
CreateKb(t) ==
  /\ Free /\ At(t, "create")
  /\ task' = [task EXCEPT ![t] = Idle]
  /\ \/ UNCHANGED <<kb, home>>
     \/ /\ Cardinality(LiveKbs) < MaxKbs
        /\ \E k \in Kb :
             /\ kb[k] = "new"
             /\ kb' = [kb EXCEPT ![k] = "live"]
             /\ home' = [home EXCEPT ![k] = task[t].group]
  /\ UNCHANGED <<group, count, docs, vectors, job, external, memory,
                 background, holder, thread, unclean, excess>>

-----------------------------------------------------------------------------
\* ingest up to its first await: get_kb keeps kb.doc_count in the session.
Ingest(t, k, gens, j) ==
  /\ task' = [task EXCEPT ![t] =
       [Idle EXCEPT !.step = "plan", !.kb = k, !.want = gens,
                    !.count = count[k], !.job = j]]
  /\ unclean' = IF Purging(k) THEN unclean \cup {k} ELSE unclean

StartIngest(t, k, gens) ==
  /\ Free /\ At(t, "idle") /\ kb[k] = "live"
  /\ Ingest(t, k, gens, None)
  /\ UNCHANGED <<tables, external, memory, background, holder, thread, excess>>

\* create_ingest_job (a thread) and BackgroundTasks.add_task.
CreateJob(j, k, gens) ==
  /\ job[j].status = "new" /\ kb[k] = "live"
  /\ job' = [job EXCEPT ![j] = [status |-> "pending", kb |-> k, want |-> gens]]
  /\ background' = background \cup {j}
  /\ UNCHANGED <<group, kb, home, count, docs, vectors, external, memory, task,
                 holder, thread, unclean, excess>>

\* run_ingest_job: the job is running, which is committed; then ingest.
StartJob(t, j) ==
  /\ Free /\ At(t, "idle") /\ j \in background
  /\ background' = background \ {j}
  /\ job' = [job EXCEPT ![j].status = "running"]
  /\ task' = [task EXCEPT ![t] =
       [Idle EXCEPT !.step = "read", !.kb = job[j].kb, !.want = job[j].want,
                    !.job = j]]
  /\ holder' = t
  /\ UNCHANGED <<group, kb, home, count, docs, vectors, external, memory,
                 thread, unclean, excess>>

ReadKb(t) ==
  /\ At(t, "read")
  /\ LET k == task[t].kb IN
       IF kb[k] = "live"
       THEN Ingest(t, k, task[t].want, task[t].job) /\ UNCHANGED job
       ELSE /\ job' = [job EXCEPT ![task[t].job].status = "error"]
            /\ task' = [task EXCEPT ![t] = Idle]
            /\ UNCHANGED unclean
  /\ holder' = None
  /\ UNCHANGED <<group, kb, home, count, docs, vectors, external, memory,
                 background, thread, excess>>

\* The plan's cap; a failed lookup has none, which means no limit.
Plan(t) ==
  /\ Free /\ At(t, "plan")
  /\ \E r \in {IF task[t].count < MaxDocs THEN MaxDocs - task[t].count ELSE 0}
              \cup (IF "lookup" \in Failures THEN {None} ELSE {}) :
       task' = [task EXCEPT ![t].step = "resolve", ![t].remaining = r]
  /\ UNCHANGED <<tables, external, memory, background, holder, thread,
                 unclean, excess>>

\* The generations as far as image-processing-service resolves them; from
\* here on nothing is awaited.
Resolve(t) ==
  /\ Free /\ At(t, "resolve")
  /\ \E gens \in SUBSET task[t].want :
       task' = [task EXCEPT ![t].step = "loop", ![t].want = gens]
  /\ holder' = t
  /\ UNCHANGED <<tables, external, memory, background, thread,
                 unclean, excess>>

\* Mutant of DocExists: looks only at what this ingest has added.
DocExistsInBatch(t, g) == g \in task[t].added

DocExists(t, g) ==
  g \in task[t].added \/ \E d \in docs : d.kb = task[t].kb /\ d.gen = g

\* Mutant of QuotaReached: one too many.
QuotaReachedLate(t) ==
  task[t].remaining # None /\ Cardinality(task[t].added) > task[t].remaining

QuotaReached(t) ==
  task[t].remaining # None /\ Cardinality(task[t].added) >= task[t].remaining

\* VectorStore.upsert: the pgvector stack writes in the transaction, an
\* external backend at once, and the in-process index takes its failures.
UpsertRow(k) == k \in SqlKb /\ UNCHANGED <<external, memory>>

UpsertInMemory(k, g) ==
  /\ k \in ExternalKb /\ "upsert" \in Failures
  /\ memory' = memory \cup {<<k, g>>}
  /\ UNCHANGED external

Upsert(k, g) ==
  \/ UpsertRow(k)
  \/ /\ k \in ExternalKb
     /\ external' = external \cup {<<k, g>>}
     /\ UNCHANGED memory
  \/ UpsertInMemory(k, g)

\* Mutant of IngestOne: every document is committed by itself.
IngestOneCommits(t) ==
  /\ At(t, "loop")
  /\ \E g \in task[t].want :
       IF DocExists(t, g) \/ QuotaReached(t)
       THEN /\ task' = [task EXCEPT ![t].want = @ \ {g}]
            /\ UNCHANGED <<docs, vectors, external, memory>>
       ELSE /\ task' = [task EXCEPT ![t].want = @ \ {g},
                                    ![t].added = @ \cup {g}]
            /\ docs' = docs \cup {[kb |-> task[t].kb, gen |-> g, by |-> t]}
            /\ vectors' = vectors
                 \cup {v \in {<<task[t].kb, g>>} : v[1] \in SqlKb}
            /\ Upsert(task[t].kb, g)
  /\ UNCHANGED <<group, kb, home, count, job, background, holder, thread,
                 unclean, excess>>

\* One round of the loop of ingest.
IngestOne(t) ==
  /\ At(t, "loop")
  /\ \E g \in task[t].want :
       IF DocExists(t, g) \/ QuotaReached(t)
       THEN /\ task' = [task EXCEPT ![t].want = @ \ {g}]
            /\ UNCHANGED <<external, memory>>
       ELSE /\ task' = [task EXCEPT ![t].want = @ \ {g},
                                    ![t].added = @ \cup {g}]
            /\ Upsert(task[t].kb, g)
  /\ UNCHANGED <<tables, background, holder, thread, unclean, excess>>

\* What ingest is followed by: the response, or the outcome of the job.
EndIngest(t) ==
  IF task[t].job = None
  THEN task' = [task EXCEPT ![t] = Idle] /\ holder' = None
  ELSE Goto(t, "report") /\ UNCHANGED holder

\* The end of ingest: UPDATE of doc_count (none if nothing was added), which
\* waits for an uncommitted DELETE of the row, and COMMIT.
CommitIngest(t) ==
  LET k == task[t].kb
      added == task[t].added
  IN /\ At(t, "loop") /\ task[t].want = {}
     /\ added = {} \/ kb[k] = "live"
     /\ added # {} => \A p \in Thread : k \notin thread[p].rows
     /\ docs' = docs \cup {[kb |-> k, gen |-> g, by |-> t] : g \in added}
     /\ vectors' = IF k \in SqlKb THEN vectors \cup ({k} \X added) ELSE vectors
     /\ count' = IF added = {} THEN count
                 ELSE [count EXCEPT ![k] = task[t].count + Cardinality(added)]
     /\ overwrites' = IF added = {} \/ task[t].count = count[k] THEN overwrites
                      ELSE [overwrites EXCEPT ![k] = @ + 1]
     /\ unplanned' = IF task[t].remaining # None THEN unplanned
                     ELSE [unplanned EXCEPT ![k] = @ + Cardinality(added)]
     /\ EndIngest(t)
     /\ UNCHANGED <<group, kb, home, job, external, memory, background, thread,
                    unclean>>

\* The row is gone: StaleDataError, rollback.  In run_ingest_job the session
\* refuses the commit of the error as well, and the job stays as it is.
FailIngest(t) ==
  /\ At(t, "loop") /\ task[t].want = {}
  /\ task[t].added # {} /\ kb[task[t].kb] = "deleted"
  /\ task' = [task EXCEPT ![t] = Idle]
  /\ holder' = None
  /\ UNCHANGED <<tables, external, memory, background, thread,
                 unclean, excess>>

\* Mutant of ReportJob: no commit after the outcome is set.
ReportJobUncommitted(t) ==
  /\ At(t, "report")
  /\ task' = [task EXCEPT ![t] = Idle]
  /\ holder' = None
  /\ UNCHANGED <<tables, external, memory, background, thread,
                 unclean, excess>>

\* The response of ingest reads the KB again, which raises if it is gone; that
\* error does land on the job.
ReportJob(t) ==
  /\ At(t, "report")
  /\ job' = [job EXCEPT ![task[t].job].status =
                IF kb[task[t].kb] = "live" THEN "done" ELSE "error"]
  /\ task' = [task EXCEPT ![t] = Idle]
  /\ holder' = None
  /\ UNCHANGED <<group, kb, home, count, docs, vectors, external, memory,
                 background, thread, unclean, excess>>

-----------------------------------------------------------------------------
Delete(p, g, kbs) ==
  /\ thread' = [thread EXCEPT ![p] =
       [NoDeletion EXCEPT !.step = IF kbs = {} THEN "commit" ELSE "purge",
                          !.group = g, !.todo = kbs]]
  /\ unclean' = unclean \cup {k \in kbs : Ingesting(k)}

\* delete_kb: get_kb.
StartDeleteKb(p, k) ==
  /\ Deleting(p, "idle") /\ kb[k] = "live"
  /\ Delete(p, None, {k})
  /\ UNCHANGED <<tables, external, memory, background, task, holder, excess>>

\* delete_group: the group and its KBs.
StartDeleteGroup(p, g) ==
  /\ Deleting(p, "idle") /\ group[g] = "live"
  /\ Delete(p, g, {k \in LiveKbs : home[k] = g})
  /\ UNCHANGED <<tables, external, memory, background, task, holder, excess>>

\* VectorStore.delete_namespace of the base class.
ForgetInMemory(k) == memory' = memory \ Of(memory, k)

\* Mutants of DeleteVectors: it commits; only the base class's in-process
\* index is cleaned.
DeleteVectorsCommits(p) ==
  /\ Deleting(p, "purge")
  /\ \E k \in thread[p].todo :
       /\ thread' = [thread EXCEPT ![p].step = "docs", ![p].kb = k]
       /\ vectors' = vectors \ Of(vectors, k)
       /\ ForgetInMemory(k)
       /\ external' = external \ Of(external, k)
  /\ UNCHANGED <<group, kb, home, count, docs, job, background, task, holder,
                 unclean, excess>>

DeleteVectorsInMemory(p) ==
  /\ Deleting(p, "purge")
  /\ \E k \in thread[p].todo :
       /\ thread' = [thread EXCEPT ![p].step = "docs", ![p].kb = k]
       /\ ForgetInMemory(k)
  /\ UNCHANGED <<tables, external, background, task, holder, unclean, excess>>

\* _purge_kb: VectorStore.delete_namespace, whose failures are swallowed.
DeleteVectors(p) ==
  /\ Deleting(p, "purge")
  /\ \E k \in thread[p].todo :
       /\ thread' = [thread EXCEPT ![p].step = "docs", ![p].kb = k,
                                   ![p].vectors = @ \cup Of(vectors, k)]
       /\ ForgetInMemory(k)
       /\ \/ external' = external \ Of(external, k) /\ UNCHANGED unclean
          \/ /\ k \in ExternalKb /\ "purge" \in Failures
             /\ unclean' = unclean \cup {k}
             /\ UNCHANGED external
  /\ UNCHANGED <<tables, background, task, holder, excess>>

\* Mutant of DeleteDocs: it commits.
DeleteDocsCommits(p) ==
  /\ Deleting(p, "docs")
  /\ docs' = {d \in docs : d.kb # thread[p].kb}
  /\ thread' = [thread EXCEPT ![p].step = "row"]
  /\ UNCHANGED <<group, kb, home, count, vectors, job, external, memory,
                 background, task, holder, unclean, excess>>

\* KbDao.delete_kb_row: DELETE of the documents, then of the KB; each waits
\* for a deletion of the same rows.
DeleteDocs(p) ==
  LET found == {d \in docs : d.kb = thread[p].kb}
  IN /\ Deleting(p, "docs")
     /\ \A q \in Thread \ {p} : found \cap thread[q].docs = {}
     /\ thread' = [thread EXCEPT ![p].step = "row", ![p].docs = @ \cup found]
     /\ UNCHANGED <<tables, external, memory, background, task, holder,
                    unclean, excess>>

DeleteRow(p) ==
  LET k == thread[p].kb
  IN /\ Deleting(p, "row")
     /\ \A q \in Thread \ {p} : k \notin thread[q].rows
     /\ thread' = [thread EXCEPT
          ![p].step = IF thread[p].todo = {k} THEN "commit" ELSE "purge",
          ![p].todo = @ \ {k}, ![p].rows = @ \cup {k}]
     /\ UNCHANGED <<tables, external, memory, background, task, holder,
                    unclean, excess>>

CommitDelete(p) ==
  /\ Deleting(p, "commit")
  /\ vectors' = vectors \ thread[p].vectors
  /\ docs' = docs \ thread[p].docs
  /\ kb' = [k \in Kb |-> IF k \in thread[p].rows THEN "deleted" ELSE kb[k]]
  /\ group' = [g \in Group |->
                 IF g = thread[p].group THEN "deleted" ELSE group[g]]
  /\ thread' = [thread EXCEPT ![p] = NoDeletion]
  /\ UNCHANGED <<home, count, job, external, memory, background, task, holder,
                 unclean, excess>>

\* The process is replaced: coroutines, threads, _MEM and BackgroundTasks are
\* gone, open transactions are rolled back.
Restart ==
  /\ "restart" \in Failures
  /\ task' = [t \in Task |-> Idle]
  /\ holder' = None
  /\ thread' = [p \in Thread |-> NoDeletion]
  /\ memory' = {}
  /\ background' = {}
  /\ UNCHANGED <<tables, external, unclean, excess>>

-----------------------------------------------------------------------------
Coroutines ==
  \E t \in Task :
    \/ \E g \in Group : StartCreate(t, g)
    \/ CreateKb(t)
    \/ \E k \in Kb, gens \in SUBSET Gen : StartIngest(t, k, gens)
    \/ \E j \in Job : StartJob(t, j)
    \/ ReadKb(t)
    \/ Plan(t)
    \/ Resolve(t)
    \/ IngestOne(t)
    \/ CommitIngest(t)
    \/ FailIngest(t)
    \/ ReportJob(t)

Deletions ==
  \E p \in Thread :
    \/ \E k \in Kb : StartDeleteKb(p, k)
    \/ \E g \in Group : StartDeleteGroup(p, g)
    \/ DeleteVectors(p)
    \/ DeleteDocs(p)
    \/ DeleteRow(p)
    \/ CommitDelete(p)

Next ==
  \/ \E g \in Group : CreateGroup(g)
  \/ \E j \in Job, k \in Kb, gens \in SUBSET Gen : CreateJob(j, k, gens)
  \/ Coroutines
  \/ Deletions
  \/ Restart

Spec == Init /\ [][Next]_vars

-----------------------------------------------------------------------------
DocsOf(k) == {d \in docs : d.kb = k}

\* A document row is the dedupe key (models.KbDocument), yet the table has no
\* unique index: that the check and the INSERT of ingest are not separated by
\* an await is all that keeps two ingests from adding a generation twice.
NoDuplicateDocs ==
  \A d, e \in docs : d.kb = e.kb /\ d.gen = e.gen => d = e

\* A catalogued document of a pgvector KB has its vector: what an ingest
\* commits together, a deletion, which deletes in two statements, never
\* tears apart.
SqlDocHasVector ==
  \A d \in docs : d.kb \in SqlKb => <<d.kb, d.gen>> \in vectors

\* doc_count, which usage_by_customer reports for billing, may lose updates
\* of concurrent ingests but never counts a document that is not there.
NeverOvercounts ==
  \A k \in LiveKbs : count[k] <= Cardinality(DocsOf(k))

\* The deletion itself is complete: a KB that no ingest was working on while
\* it was deleted, and whose backend answered, leaves no row and no vector in
\* any store.
QuietDeleteLeavesNothing ==
  \A k \in Kb \ unclean : kb[k] = "deleted" =>
    DocsOf(k) = {} /\ Of(vectors \cup external \cup memory, k) = {}

\* doc_count is the number of documents however many ingests run at the same
\* time, until one of them sets it from a count that is no longer there.
DocCountIsExact ==
  \A k \in LiveKbs : overwrites[k] = 0 => count[k] = Cardinality(DocsOf(k))

\* "Ingest stops at max_docs_per_kb" (README): of the documents that ingests
\* with a plan have added there is at most one quota, and one more each time
\* an ingest has set an outdated doc_count.
QuotaStopsIngest ==
  \A k \in LiveKbs :
    Cardinality(DocsOf(k)) <= MaxDocs * (1 + overwrites[k]) + unplanned[k]

\* "Fail-safe - errors land on the job" (run_ingest_job): a job that something
\* works on is dropped, if it is not ended, only with its KB (see FailIngest)
\* or by a restart; else a client would poll it for ever.
InHand(j) == j \in background \/ \E t \in Task : task[t].job = j
JobsNotDropped ==
  [][\A j \in Job : InHand(j) /\ ~InHand(j)' =>
       \/ job'[j].status \in {"done", "error"}
       \/ \E k \in Kb : job[j].kb = k /\ kb[k] = "deleted"
       \/ Restart]_vars
=============================================================================
