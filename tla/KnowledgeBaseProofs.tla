------------------------ MODULE KnowledgeBaseProofs ------------------------
(***************************************************************************)
(* Proofs about KnowledgeBase, for any KBs, groups, generations, jobs,     *)
(* coroutines and threads, whatever fails.                                 *)
(*                                                                         *)
(* Nothing but the event loop orders two ingests (OneHolder), and nothing  *)
(* at all orders an ingest and a deletion.  What is catalogued fits the    *)
(* vectors all the same, because a deletion takes a document with every    *)
(* vector it takes (TakenTogether), and no vector is left of a KB whose    *)
(* documents it took.                                                      *)
(*                                                                         *)
(* The count of a KB is exact and its documents fit the plan as far as     *)
(* ingests have read the count they go on from: what the others add is     *)
(* bounded by the quota each of them had (Fits, WithinPlan).               *)
(***************************************************************************)
EXTENDS KnowledgeBase, TLAPS, FiniteSetTheorems

USE DEF excess

\* What a coroutine knows at each step.
CoShape(q) ==
  /\ q.step \in {"idle", "create"} => q.job = None
  /\ q.step = "create" => q.group \in Group
  /\ q.step \in {"read", "plan", "resolve", "loop", "report"} => q.kb \in Kb
  /\ q.step \in {"plan", "resolve"} => q.added = {}
  /\ q.step \in {"read", "report"} => q.job \in Job
  /\ q.job # None => job[q.job].kb = q.kb /\ job[q.job].status # "new"

TaskShape == \A t \in Task : CoShape(task[t])

\* Between two statements that no await separates, one coroutine runs.
OneHolder ==
  \A t \in Task : task[t].step \in {"read", "loop", "report"} => holder = t

JobShape ==
  /\ \A j \in background : job[j].status # "new"
  /\ \A j \in Job : job[j].status # "new" => job[j].kb \in Kb

\* What a deletion has taken is of the KBs whose rows it has taken, or of the
\* one at hand.
DelShape(d) ==
  /\ d.step = "idle" => d = NoDeletion
  /\ d.step \in {"docs", "row"} => d.kb \in d.todo
  /\ d.step = "commit" => d.todo = {}
  /\ \A x \in d.docs : x.kb \in d.rows \/ (d.step = "row" /\ x.kb = d.kb)
  /\ \A v \in d.vectors :
       v[1] \in d.rows \/ (d.step \in {"docs", "row"} /\ v[1] = d.kb)

ThreadShape == \A p \in Thread : DelShape(thread[p])

Shapes == TypeOK /\ TaskShape /\ OneHolder /\ JobShape /\ ThreadShape

\* What an ingest has added and not committed is not in the catalogue.
AddedIsNew ==
  \A t \in Task : task[t].step = "loop" =>
    \A g \in task[t].added, d \in docs : ~(d.kb = task[t].kb /\ d.gen = g)

\* A vector of a KB that is not deleted is of a catalogued document, whether a
\* deletion has taken it or not.
HasDoc(v) == kb[v[1]] # "deleted" => \E d \in docs : d.kb = v[1] /\ d.gen = v[2]
VectorsHaveDocs ==
  /\ \A v \in vectors : HasDoc(v)
  /\ \A p \in Thread : \A v \in thread[p].vectors : HasDoc(v)

\* A deletion that has taken a vector has taken the documents that need it, or
\* is about to.
TakenTogether ==
  \A p \in Thread : \A v \in thread[p].vectors, d \in docs :
    d.kb = v[1] /\ d.gen = v[2] =>
      d \in thread[p].docs \/ (thread[p].step = "docs" /\ thread[p].kb = d.kb)

Catalogue == /\ NoDuplicateDocs /\ SqlDocHasVector
             /\ AddedIsNew /\ VectorsHaveDocs /\ TakenTogether

\* What a KB counts, and what an ingest has read of it, is no more than there
\* is, as long as the KB is not deleted.
Counts ==
  /\ IsFiniteSet(docs)
  /\ \A k \in Kb : kb[k] # "deleted" => count[k] <= Cardinality(DocsOf(k))
  /\ \A t \in Task :
       task[t].step \in {"plan", "resolve", "loop"} /\ kb[task[t].kb] # "deleted"
         => task[t].count <= Cardinality(DocsOf(task[t].kb))

\* A KB that nothing has made unclean: no ingest works on it while it is being
\* deleted or after, and a deletion has taken all there is of it.
QuietKbs ==
  \A k \in Kb \ unclean :
    /\ kb[k] = "deleted" \/ Purging(k) => ~Ingesting(k)
    /\ kb[k] = "deleted" =>
         DocsOf(k) = {} /\ Of(vectors, k) = {} /\ Of(external \cup memory, k) = {}
    /\ \A p \in Thread :
         /\ k \in thread[p].rows
              \/ (thread[p].step \in {"docs", "row"} /\ thread[p].kb = k) =>
              /\ Of(vectors, k) \subseteq thread[p].vectors
              /\ Of(external \cup memory, k) = {}
         /\ k \in thread[p].rows \/ (thread[p].step = "row" /\ thread[p].kb = k) =>
              DocsOf(k) \subseteq thread[p].docs

IInv == Shapes /\ Catalogue /\ Counts /\ QuietKbs

-----------------------------------------------------------------------------
LEMMA IdleShape == /\ Idle \in Coroutine /\ CoShape(Idle)
                   /\ NoDeletion \in Deletion /\ DelShape(NoDeletion)
BY DEF Idle, Coroutine, CoShape, NoDeletion, Deletion, DelShape

\* A coroutine goes on: it runs alone, before and after if it does not await.
LEMMA Goes ==
  ASSUME Shapes, NEW t \in Task, NEW q \in Coroutine, CoShape(q),
         task' = [task EXCEPT ![t] = q],
         holder \in {None, t}, holder' \in {None, t},
         q.step \in {"read", "loop", "report"} => holder' = t,
         UNCHANGED job
  PROVE  /\ task' \in [Task -> Coroutine]
         /\ holder' \in Task \cup {None}
         /\ TaskShape' /\ OneHolder'
<1>1. task \in [Task -> Coroutine]
  BY DEF Shapes, TypeOK
<1>2. \A u \in Task : task'[u] = IF u = t THEN q ELSE task[u]
  BY <1>1
<1>3. \A u \in Task : CoShape(task'[u])
  BY <1>2 DEF Shapes, TaskShape
<1>4. TaskShape'
  BY <1>3 DEF TaskShape, CoShape
<1>5. OneHolder'
  <2> SUFFICES ASSUME NEW u \in Task,
                      task'[u].step \in {"read", "loop", "report"}
               PROVE  holder' = u
    BY DEF OneHolder
  <2>1. CASE u = t
    BY <2>1, <1>2
  <2>2. CASE u # t
    <3>1. holder = u
      BY <2>2, <1>2 DEF Shapes, OneHolder
    <3> QED  BY <2>2, <3>1, NoneAssumption
  <2> QED  BY <2>1, <2>2
<1> QED  BY <1>1, <1>4, <1>5

\* A deletion goes on.
LEMMA Deletes ==
  ASSUME Shapes, NEW p \in Thread, NEW d \in Deletion, DelShape(d),
         thread' = [thread EXCEPT ![p] = d]
  PROVE  thread' \in [Thread -> Deletion] /\ ThreadShape'
<1>1. thread \in [Thread -> Deletion]
  BY DEF Shapes, TypeOK
<1>2. \A q \in Thread : thread'[q] = IF q = p THEN d ELSE thread[q]
  BY <1>1
<1>3. \A q \in Thread : DelShape(thread'[q])
  BY <1>2 DEF Shapes, ThreadShape
<1> QED  BY <1>1, <1>3 DEF ThreadShape

LEMMA InitShapes == Init => Shapes
<1> SUFFICES ASSUME Init PROVE Shapes
  OBVIOUS
<1>1. /\ task \in [Task -> Coroutine] /\ TaskShape
      /\ thread \in [Thread -> Deletion] /\ ThreadShape
  BY IdleShape DEF Init, TaskShape, ThreadShape
<1>2. TypeOK
  BY <1>1 DEF Init, TypeOK, Life, Status, Vector, Doc
<1>3. OneHolder /\ JobShape
  BY DEF Init, OneHolder, JobShape, Idle
<1> QED  BY <1>1, <1>2, <1>3 DEF Shapes

-----------------------------------------------------------------------------
\* Groups, KBs and jobs come into being.
LEMMA CreateGroupShapes ==
  ASSUME Shapes, NEW g \in Group, CreateGroup(g)
  PROVE  Shapes'
<1>1. group' \in [Group -> Life]
  BY DEF CreateGroup, Shapes, TypeOK, Life
<1> QED
  BY <1>1 DEF CreateGroup, Shapes, TypeOK, TaskShape, CoShape, OneHolder,
       JobShape, ThreadShape, DelShape

LEMMA CreateJobShapes ==
  ASSUME Shapes, NEW j \in Job, NEW k \in Kb, NEW gens \in SUBSET Gen,
         CreateJob(j, k, gens)
  PROVE  Shapes'
<1>1. /\ job' = [job EXCEPT ![j] = [status |-> "pending", kb |-> k, want |-> gens]]
      /\ background' = background \cup {j} /\ job[j].status = "new"
      /\ UNCHANGED <<group, kb, home, count, docs, vectors, external, memory,
                     task, holder, thread, unclean, excess>>
  BY DEF CreateJob
<1>2. job \in [Job -> [status: Status, kb: Kb \cup {None}, want: SUBSET Gen]]
  BY DEF Shapes, TypeOK
<1>3. job' \in [Job -> [status: Status, kb: Kb \cup {None}, want: SUBSET Gen]]
  BY <1>1, <1>2 DEF Status
<1>4. TypeOK'
  BY <1>1, <1>3 DEF Shapes, TypeOK
<1>5. \A i \in Job : IF i = j THEN job'[i].status = "pending" /\ job'[i].kb = k
                              ELSE job'[i] = job[i]
  BY <1>1, <1>2
<1>6. JobShape'
  BY <1>1, <1>5 DEF Shapes, JobShape, TypeOK
<1>7. TaskShape'
  <2> SUFFICES ASSUME NEW t \in Task PROVE CoShape(task[t])'
    BY DEF TaskShape
  <2>1. CoShape(task[t]) /\ task[t].job \in Job \cup {None}
    BY DEF Shapes, TaskShape, TypeOK, Coroutine
  <2> QED  BY <2>1, <1>1, <1>5 DEF CoShape
<1> QED
  BY <1>1, <1>4, <1>6, <1>7 DEF Shapes, OneHolder, ThreadShape, DelShape

LEMMA CreateShapes ==
  ASSUME Shapes, NEW t \in Task,
         (\E g \in Group : StartCreate(t, g)) \/ CreateKb(t)
  PROVE  Shapes'
<1>1. CASE \E g \in Group : StartCreate(t, g)
  <2>1. PICK g \in Group : StartCreate(t, g)
    BY <1>1
  <2> DEFINE q == [Idle EXCEPT !.step = "create", !.group = g]
  <2>2. q \in Coroutine /\ CoShape(q) /\ q.step = "create"
    BY DEF Idle, Coroutine, CoShape
  <2>3. /\ task' = [task EXCEPT ![t] = q] /\ holder = None
        /\ UNCHANGED <<tables, external, memory, background, holder, thread,
                       unclean, excess>>
    BY <2>1 DEF StartCreate, Free
  <2> HIDE DEF q
  <2>4. /\ task' \in [Task -> Coroutine] /\ TaskShape' /\ OneHolder'
    BY <2>2, <2>3, Goes DEF tables
  <2> QED
    BY <2>3, <2>4 DEF tables, Shapes, TypeOK, JobShape, ThreadShape, DelShape
<1>2. CASE CreateKb(t)
  <2>1. /\ task' = [task EXCEPT ![t] = Idle] /\ holder = None
        /\ UNCHANGED <<group, count, docs, vectors, job, external, memory,
                       background, holder, thread, unclean, excess>>
    BY <1>2 DEF CreateKb, Free
  <2>2. kb' \in [Kb -> Life] /\ home' \in [Kb -> Group \cup {None}]
    <3>1. task[t].group \in Group
      BY <1>2 DEF CreateKb, At, Shapes, TaskShape, CoShape
    <3>2. kb \in [Kb -> Life] /\ home \in [Kb -> Group \cup {None}]
      BY DEF Shapes, TypeOK
    <3> QED  BY <1>2, <3>1, <3>2 DEF CreateKb, Life
  <2>3. Idle.step = "idle"
    BY DEF Idle
  <2>4. /\ task' \in [Task -> Coroutine] /\ TaskShape' /\ OneHolder'
    BY <2>1, <2>3, IdleShape, Goes
  <2> QED
    BY <2>1, <2>2, <2>4 DEF Shapes, TypeOK, JobShape, ThreadShape, DelShape
<1> QED  BY <1>1, <1>2

-----------------------------------------------------------------------------
\* The coroutines.
LEMMA IngestShapes ==
  ASSUME Shapes, NEW t \in Task, NEW k \in Kb, NEW gens \in SUBSET Gen,
         NEW j \in Job \cup {None},
         Ingest(t, k, gens, j), holder \in {None, t}, holder' = None,
         j # None => job[j].kb = k /\ job[j].status # "new",
         UNCHANGED <<tables, external, memory, background, thread, excess>>
  PROVE  Shapes'
<1> DEFINE q == [Idle EXCEPT !.step = "plan", !.kb = k, !.want = gens,
                             !.count = count[k], !.job = j]
<1>1. count[k] \in Nat
  BY DEF Shapes, TypeOK
<1>2. q \in Coroutine /\ CoShape(q) /\ q.step = "plan"
  BY <1>1 DEF Idle, Coroutine, CoShape
<1>3. task' = [task EXCEPT ![t] = q]
  BY DEF Ingest
<1> HIDE DEF q
<1>4. task' \in [Task -> Coroutine] /\ TaskShape' /\ OneHolder'
  BY <1>2, <1>3, Goes DEF tables
<1>5. unclean' \in SUBSET Kb
  BY DEF Ingest, Shapes, TypeOK
<1> QED
  BY <1>4, <1>5 DEF tables, Shapes, TypeOK, JobShape, ThreadShape, DelShape

LEMMA StartIngestShapes ==
  ASSUME Shapes, NEW t \in Task, NEW k \in Kb, NEW gens \in SUBSET Gen,
         StartIngest(t, k, gens)
  PROVE  Shapes'
BY IngestShapes DEF StartIngest, Free

LEMMA StartJobShapes ==
  ASSUME Shapes, NEW t \in Task, NEW j \in Job, StartJob(t, j)
  PROVE  Shapes'
<1> DEFINE q == [Idle EXCEPT !.step = "read", !.kb = job[j].kb,
                             !.want = job[j].want, !.job = j]
<1>1. /\ background' = background \ {j} /\ j \in background
      /\ job' = [job EXCEPT ![j].status = "running"]
      /\ task' = [task EXCEPT ![t] = q] /\ holder = None /\ holder' = t
      /\ UNCHANGED <<group, kb, home, count, docs, vectors, external, memory,
                     thread, unclean, excess>>
  BY DEF StartJob, Free
<1>2. job \in [Job -> [status: Status, kb: Kb \cup {None}, want: SUBSET Gen]]
  BY DEF Shapes, TypeOK
<1>3. job[j].kb \in Kb /\ job[j].want \in SUBSET Gen
  BY <1>1, <1>2 DEF Shapes, JobShape
<1>4. /\ job' \in [Job -> [status: Status, kb: Kb \cup {None}, want: SUBSET Gen]]
      /\ job'[j].status = "running" /\ job'[j].kb = job[j].kb
      /\ \A i \in Job \ {j} : job'[i] = job[i]
  BY <1>1, <1>2 DEF Status
<1>5. /\ q \in Coroutine /\ q.step = "read" /\ q.kb = job[j].kb /\ q.job = j
      /\ q.added = {}
  BY <1>3 DEF Idle, Coroutine
<1> HIDE DEF q
<1>6. task \in [Task -> Coroutine]
  BY DEF Shapes, TypeOK
<1>7. \A u \in Task : task'[u] = IF u = t THEN q ELSE task[u]
  BY <1>1, <1>6
<1>8. task' \in [Task -> Coroutine]
  BY <1>1, <1>5, <1>6
<1>9. TaskShape'
  <2> SUFFICES ASSUME NEW u \in Task PROVE CoShape(task[u])'
    BY DEF TaskShape
  <2>1. CASE u = t
    BY <2>1, <1>3, <1>4, <1>5, <1>7 DEF CoShape
  <2>2. CASE u # t
    <3>1. CoShape(task[u]) /\ task[u].job \in Job \cup {None}
      BY <1>6 DEF Shapes, TaskShape, Coroutine
    <3>2. task'[u] = task[u]
      BY <2>2, <1>7
    <3> QED  BY <3>1, <3>2, <1>4 DEF CoShape
  <2> QED  BY <2>1, <2>2
<1>10. OneHolder'
  <2> SUFFICES ASSUME NEW u \in Task, u # t,
                      task'[u].step \in {"read", "loop", "report"}
               PROVE  FALSE
    BY <1>1 DEF OneHolder
  <2>1. holder = u
    BY <1>7 DEF Shapes, OneHolder
  <2> QED  BY <2>1, <1>1, NoneAssumption
<1>11. JobShape'
  BY <1>1, <1>3, <1>4 DEF Shapes, JobShape, TypeOK
<1>12. TypeOK'
  BY <1>1, <1>4, <1>8 DEF Shapes, TypeOK
<1> QED
  BY <1>1, <1>9, <1>10, <1>11, <1>12 DEF Shapes, ThreadShape, DelShape

\* A job that has an outcome: its coroutine ends.
LEMMA OutcomeShapes ==
  ASSUME Shapes, NEW t \in Task, task[t].step \in {"read", "report"},
         NEW s \in {"done", "error"},
         job' = [job EXCEPT ![task[t].job].status = s],
         task' = [task EXCEPT ![t] = Idle], holder' = None,
         UNCHANGED <<group, kb, home, count, docs, vectors, external, memory,
                     background, thread, unclean, excess>>
  PROVE  Shapes'
<1> DEFINE j == task[t].job
<1>1. j \in Job /\ job[j].status # "new" /\ holder = t
  BY NoneAssumption DEF Shapes, TaskShape, OneHolder, CoShape
<1> HIDE DEF j
<1>2. job \in [Job -> [status: Status, kb: Kb \cup {None}, want: SUBSET Gen]]
  BY DEF Shapes, TypeOK
<1>3. /\ job' \in [Job -> [status: Status, kb: Kb \cup {None}, want: SUBSET Gen]]
      /\ job'[j].status = s /\ job'[j].kb = job[j].kb
      /\ \A i \in Job \ {j} : job'[i] = job[i]
  BY <1>1, <1>2 DEF Status, j
<1>4. \A i \in Job : /\ job'[i].kb = job[i].kb
                     /\ job[i].status # "new" <=> job'[i].status # "new"
  BY <1>1, <1>3
<1>5. task \in [Task -> Coroutine]
  BY DEF Shapes, TypeOK
<1>6. \A u \in Task : task'[u] = IF u = t THEN Idle ELSE task[u]
  BY <1>5
<1>7. task' \in [Task -> Coroutine]
  BY <1>5, IdleShape
<1>8. TaskShape'
  <2> SUFFICES ASSUME NEW u \in Task PROVE CoShape(task[u])'
    BY DEF TaskShape
  <2>1. CASE u = t
    BY <2>1, <1>6 DEF CoShape, Idle
  <2>2. CASE u # t
    <3>1. CoShape(task[u]) /\ task[u].job \in Job \cup {None}
      BY <1>5 DEF Shapes, TaskShape, Coroutine
    <3>2. task'[u] = task[u]
      BY <2>2, <1>6
    <3> QED  BY <3>1, <3>2, <1>4 DEF CoShape
  <2> QED  BY <2>1, <2>2
<1>9. OneHolder'
  <2> SUFFICES ASSUME NEW u \in Task,
                      task'[u].step \in {"read", "loop", "report"}
               PROVE  FALSE
    BY DEF OneHolder
  <2>1. u # t
    BY <1>6 DEF Idle
  <2> QED  BY <2>1, <1>1, <1>6 DEF Shapes, OneHolder
<1>10. JobShape'
  BY <1>4 DEF Shapes, JobShape, TypeOK
<1>11. TypeOK'
  BY <1>3, <1>7 DEF Shapes, TypeOK
<1> QED
  BY <1>8, <1>9, <1>10, <1>11 DEF Shapes, ThreadShape, DelShape

LEMMA ReadKbShapes ==
  ASSUME Shapes, NEW t \in Task, ReadKb(t)
  PROVE  Shapes'
<1>1. /\ task[t].step = "read" /\ holder' = None
      /\ UNCHANGED <<group, kb, home, count, docs, vectors, external, memory,
                     background, thread, excess>>
  BY DEF ReadKb, At
<1>2. /\ holder = t /\ task[t].kb \in Kb /\ task[t].job \in Job
      /\ task[t].want \in SUBSET Gen
      /\ job[task[t].job].kb = task[t].kb /\ job[task[t].job].status # "new"
  BY <1>1, NoneAssumption
     DEF Shapes, TaskShape, OneHolder, CoShape, TypeOK, Coroutine
<1>3. CASE kb[task[t].kb] = "live"
  <2>1. Ingest(t, task[t].kb, task[t].want, task[t].job) /\ UNCHANGED job
    BY <1>3 DEF ReadKb
  <2> QED  BY <2>1, <1>1, <1>2, IngestShapes DEF tables
<1>4. CASE kb[task[t].kb] # "live"
  <2>1. /\ job' = [job EXCEPT ![task[t].job].status = "error"]
        /\ task' = [task EXCEPT ![t] = Idle] /\ UNCHANGED unclean
    BY <1>4 DEF ReadKb
  <2> QED  BY <2>1, <1>1, OutcomeShapes
<1> QED  BY <1>3, <1>4

LEMMA ReportJobShapes ==
  ASSUME Shapes, NEW t \in Task, ReportJob(t)
  PROVE  Shapes'
<1> DEFINE s == IF kb[task[t].kb] = "live" THEN "done" ELSE "error"
<1>1. s \in {"done", "error"}
  OBVIOUS
<1>2. /\ task[t].step = "report"
      /\ job' = [job EXCEPT ![task[t].job].status = s]
      /\ task' = [task EXCEPT ![t] = Idle] /\ holder' = None
      /\ UNCHANGED <<group, kb, home, count, docs, vectors, external, memory,
                     background, thread, unclean, excess>>
  BY DEF ReportJob, At
<1> HIDE DEF s
<1> QED  BY <1>1, <1>2, OutcomeShapes

\* A coroutine that goes on with its KB, its job and its count.
Onward(t, s, r, w, a) == [task[t] EXCEPT !.step = s, !.remaining = r,
                                       !.want = w, !.added = a]

LEMMA StepShapes ==
  ASSUME Shapes, NEW t \in Task, NEW s \in {"resolve", "loop", "report"},
         NEW r \in Nat \cup {None}, NEW w \in SUBSET Gen, NEW a \in SUBSET Gen,
         task[t].step \in {"plan", "resolve", "loop"},
         s = "resolve" => a = {}, s = "report" => task[t].job # None,
         task' = [task EXCEPT ![t] = Onward(t, s, r, w, a)],
         holder \in {None, t}, holder' \in {None, t},
         s # "resolve" => holder' = t, UNCHANGED job
  PROVE  /\ task' \in [Task -> Coroutine]
         /\ holder' \in Task \cup {None}
         /\ TaskShape' /\ OneHolder'
<1> DEFINE q == Onward(t, s, r, w, a)
<1>1. task[t] \in Coroutine /\ CoShape(task[t])
  BY DEF Shapes, TypeOK, TaskShape
<1>2. /\ q \in Coroutine /\ q.step = s /\ q.added = a
      /\ q.kb = task[t].kb /\ q.job = task[t].job
  BY <1>1 DEF Coroutine, Onward
<1>3. q.job \in Job \cup {None}
  BY <1>1, <1>2 DEF Coroutine
<1>4. task' = [task EXCEPT ![t] = q]
  OBVIOUS
<1> HIDE DEF q
<1>5. CoShape(q)
  BY <1>1, <1>2, <1>3 DEF CoShape
<1> QED  BY <1>2, <1>4, <1>5, Goes

\* What Onward keeps of a coroutine, and what it sets.
LEMMA OnwardFields ==
  ASSUME Shapes, NEW t \in Task, NEW s, NEW r, NEW w, NEW a
  PROVE  /\ Onward(t, s, r, w, a).step = s
         /\ Onward(t, s, r, w, a).remaining = r
         /\ Onward(t, s, r, w, a).want = w
         /\ Onward(t, s, r, w, a).added = a
         /\ Onward(t, s, r, w, a).kb = task[t].kb
         /\ Onward(t, s, r, w, a).job = task[t].job
         /\ Onward(t, s, r, w, a).count = task[t].count
<1>1. task[t] \in Coroutine
  BY DEF Shapes, TypeOK
<1> QED  BY <1>1 DEF Coroutine, Onward

LEMMA PlanStep ==
  ASSUME Shapes, NEW t \in Task, Plan(t)
  PROVE  /\ task[t].step = "plan" /\ holder = None
         /\ \E r \in Nat \cup {None} :
              task' = [task EXCEPT ![t] =
                         Onward(t, "resolve", r, task[t].want, task[t].added)]
         /\ UNCHANGED <<tables, external, memory, background, holder, thread,
                        unclean, excess>>
<1> DEFINE z == IF task[t].count < MaxDocs THEN MaxDocs - task[t].count ELSE 0
<1>1. task \in [Task -> Coroutine] /\ task[t] \in Coroutine
  BY DEF Shapes, TypeOK
<1>2. task[t].count \in Nat
  BY <1>1 DEF Coroutine
<1>3. z \in Nat
  BY <1>2, QuotaAssumption
<1>4. PICK r \in {z} \cup (IF "lookup" \in Failures THEN {None} ELSE {}) :
        task' = [task EXCEPT ![t].step = "resolve", ![t].remaining = r]
  BY DEF Plan
<1> HIDE DEF z
<1>5. r \in Nat \cup {None}
  BY <1>3, <1>4
<1>6. [task[t] EXCEPT !.step = "resolve", !.remaining = r]
        = Onward(t, "resolve", r, task[t].want, task[t].added)
  BY <1>1 DEF Coroutine, Onward
<1>7. task' = [task EXCEPT ![t] = [task[t] EXCEPT !.step = "resolve",
                                                  !.remaining = r]]
  BY <1>1, <1>4
<1> QED  BY <1>5, <1>6, <1>7 DEF Plan, At, Free

LEMMA ResolveStep ==
  ASSUME Shapes, NEW t \in Task, Resolve(t)
  PROVE  /\ task[t].step = "resolve" /\ holder = None /\ holder' = t
         /\ \E w \in SUBSET Gen :
              task' = [task EXCEPT ![t] =
                         Onward(t, "loop", task[t].remaining, w, task[t].added)]
         /\ UNCHANGED <<tables, external, memory, background, thread,
                        unclean, excess>>
<1>1. task \in [Task -> Coroutine] /\ task[t] \in Coroutine
  BY DEF Shapes, TypeOK
<1>2. PICK w \in SUBSET task[t].want :
        task' = [task EXCEPT ![t].step = "loop", ![t].want = w]
  BY DEF Resolve
<1>3. w \in SUBSET Gen
  BY <1>1 DEF Coroutine
<1>4. [task[t] EXCEPT !.step = "loop", !.want = w]
        = Onward(t, "loop", task[t].remaining, w, task[t].added)
  BY <1>1 DEF Coroutine, Onward
<1>5. task' = [task EXCEPT ![t] = [task[t] EXCEPT !.step = "loop", !.want = w]]
  BY <1>1, <1>2
<1> QED  BY <1>3, <1>4, <1>5 DEF Resolve, At, Free

\* A round of the loop adds nothing, or a generation that was not there.
LEMMA IngestOneStep ==
  ASSUME Shapes, NEW t \in Task, IngestOne(t)
  PROVE  /\ task[t].step = "loop"
         /\ \E g \in Gen, a \in SUBSET Gen :
              /\ task' = [task EXCEPT ![t] =
                   Onward(t, "loop", task[t].remaining, task[t].want \ {g}, a)]
              /\ \/ a = task[t].added /\ UNCHANGED <<external, memory>>
                 \/ /\ a = task[t].added \cup {g}
                    /\ ~DocExists(t, g) /\ ~QuotaReached(t)
                    /\ Upsert(task[t].kb, g)
         /\ UNCHANGED <<tables, background, holder, thread, unclean, excess>>
<1>1. task \in [Task -> Coroutine] /\ task[t] \in Coroutine
  BY DEF Shapes, TypeOK
<1>2. PICK g \in task[t].want :
        IF DocExists(t, g) \/ QuotaReached(t)
        THEN /\ task' = [task EXCEPT ![t].want = @ \ {g}]
             /\ UNCHANGED <<external, memory>>
        ELSE /\ task' = [task EXCEPT ![t].want = @ \ {g},
                                     ![t].added = @ \cup {g}]
             /\ Upsert(task[t].kb, g)
  BY DEF IngestOne
<1>3. g \in Gen /\ task[t].added \in SUBSET Gen
  BY <1>1 DEF Coroutine
<1>4. task[t].step = "loop"
  BY DEF IngestOne, At
<1>5. CASE DocExists(t, g) \/ QuotaReached(t)
  <2>1. task' = [task EXCEPT ![t] = [task[t] EXCEPT !.want = task[t].want \ {g}]]
    BY <1>1, <1>2, <1>5
  <2>2. [task[t] EXCEPT !.want = task[t].want \ {g}]
          = Onward(t, "loop", task[t].remaining, task[t].want \ {g}, task[t].added)
    BY <1>1, <1>4 DEF Coroutine, Onward
  <2> QED  BY <2>1, <2>2, <1>2, <1>3, <1>4, <1>5 DEF IngestOne
<1>6. CASE ~(DocExists(t, g) \/ QuotaReached(t))
  <2>1. task' = [task EXCEPT ![t] =
                   [task[t] EXCEPT !.want = task[t].want \ {g},
                                   !.added = task[t].added \cup {g}]]
    BY <1>1, <1>2, <1>6
  <2>2. [task[t] EXCEPT !.want = task[t].want \ {g},
                        !.added = task[t].added \cup {g}]
          = Onward(t, "loop", task[t].remaining, task[t].want \ {g},
                   task[t].added \cup {g})
    BY <1>1, <1>4 DEF Coroutine, Onward
  <2>3. task[t].added \cup {g} \in SUBSET Gen
    BY <1>3
  <2> QED  BY <2>1, <2>2, <2>3, <1>2, <1>3, <1>4, <1>6 DEF IngestOne
<1> QED  BY <1>5, <1>6

LEMMA RoundShapes ==
  ASSUME Shapes, NEW t \in Task, Plan(t) \/ Resolve(t) \/ IngestOne(t)
  PROVE  Shapes'
<1>1. task[t] \in Coroutine /\ CoShape(task[t])
  BY DEF Shapes, TypeOK, TaskShape
<1>2. /\ task[t].remaining \in Nat \cup {None} /\ task[t].want \in SUBSET Gen
      /\ task[t].added \in SUBSET Gen
  BY <1>1 DEF Coroutine
<1>3. CASE Plan(t)
  <2>1. PICK r \in Nat \cup {None} :
          task' = [task EXCEPT ![t] =
                     Onward(t, "resolve", r, task[t].want, task[t].added)]
    BY <1>3, PlanStep
  <2>2. /\ task[t].step = "plan" /\ task[t].added = {} /\ holder = None
        /\ UNCHANGED <<tables, external, memory, background, holder, thread,
                       unclean, excess>>
    BY <1>1, <1>3, PlanStep DEF CoShape
  <2>3. task' \in [Task -> Coroutine] /\ TaskShape' /\ OneHolder'
    BY <1>2, <2>1, <2>2, StepShapes DEF tables
  <2> QED
    BY <2>2, <2>3
       DEF tables, Shapes, TypeOK, JobShape, ThreadShape, DelShape
<1>4. CASE Resolve(t)
  <2>1. PICK w \in SUBSET Gen :
          task' = [task EXCEPT ![t] =
                     Onward(t, "loop", task[t].remaining, w, task[t].added)]
    BY <1>4, ResolveStep
  <2>2. /\ task[t].step = "resolve" /\ holder = None /\ holder' = t
        /\ UNCHANGED <<tables, external, memory, background, thread,
                       unclean, excess>>
    BY <1>4, ResolveStep
  <2>3. task' \in [Task -> Coroutine] /\ TaskShape' /\ OneHolder'
    BY <1>2, <2>1, <2>2, StepShapes DEF tables
  <2> QED
    BY <2>2, <2>3
       DEF tables, Shapes, TypeOK, JobShape, ThreadShape, DelShape
<1>5. CASE IngestOne(t)
  <2>1. holder = t /\ task[t].step = "loop" /\ task[t].kb \in Kb
    BY <1>1, <1>5, IngestOneStep DEF Shapes, OneHolder, CoShape
  <2>2. PICK g \in Gen, a \in SUBSET Gen :
          /\ task' = [task EXCEPT ![t] =
               Onward(t, "loop", task[t].remaining, task[t].want \ {g}, a)]
          /\ \/ UNCHANGED <<external, memory>>
             \/ Upsert(task[t].kb, g)
    BY <1>5, IngestOneStep
  <2>3. UNCHANGED <<tables, background, holder, thread, unclean, excess>>
    BY <1>5, IngestOneStep
  <2>4. task[t].want \ {g} \in SUBSET Gen
    BY <1>2
  <2>5. task' \in [Task -> Coroutine] /\ TaskShape' /\ OneHolder'
    BY <1>2, <2>1, <2>2, <2>3, <2>4, StepShapes DEF tables
  <2>6. external' \in SUBSET Vector /\ memory' \in SUBSET Vector
    BY <2>1, <2>2 DEF Upsert, UpsertRow, UpsertInMemory, Shapes, TypeOK, Vector
  <2> QED
    BY <2>3, <2>5, <2>6
       DEF tables, Shapes, TypeOK, JobShape, ThreadShape, DelShape
<1> QED  BY <1>3, <1>4, <1>5

\* Sets of generations are finite.
LEMMA GensFinite ==
  ASSUME NEW a \in SUBSET Gen
  PROVE  IsFiniteSet(a) /\ Cardinality(a) \in Nat
BY GenAssumption, FS_Subset, FS_CardinalityType

LEMMA CommitIngestShapes ==
  ASSUME Shapes, NEW t \in Task, CommitIngest(t)
  PROVE  Shapes'
<1> DEFINE k == task[t].kb
           a == task[t].added
<1>1. task \in [Task -> Coroutine] /\ task[t] \in Coroutine
  BY DEF Shapes, TypeOK
<1>2. /\ task[t].step = "loop" /\ k \in Kb /\ a \in SUBSET Gen /\ holder = t
      /\ task[t].remaining \in Nat \cup {None} /\ task[t].want \in SUBSET Gen
      /\ task[t].count \in Nat
  BY <1>1 DEF CommitIngest, At, Shapes, TaskShape, OneHolder, CoShape, Coroutine
<1>3. /\ docs' = docs \cup {[kb |-> k, gen |-> g, by |-> t] : g \in a}
      /\ vectors' = IF k \in SqlKb THEN vectors \cup ({k} \X a) ELSE vectors
      /\ count' = IF a = {} THEN count
                  ELSE [count EXCEPT ![k] = task[t].count + Cardinality(a)]
      /\ EndIngest(t)
      /\ UNCHANGED <<group, kb, home, job, external, memory, background, thread,
                     unclean>>
  BY DEF CommitIngest
<1>8. overwrites' \in [Kb -> Nat] /\ unplanned' \in [Kb -> Nat]
  <2>1. Cardinality(a) \in Nat
    BY <1>2, GensFinite
  <2>2. overwrites \in [Kb -> Nat] /\ unplanned \in [Kb -> Nat]
    BY DEF Shapes, TypeOK
  <2>3. \/ overwrites' = overwrites
        \/ overwrites' = [overwrites EXCEPT ![k] = @ + 1]
    BY DEF CommitIngest
  <2>4. \/ unplanned' = unplanned
        \/ unplanned' = [unplanned EXCEPT ![k] = @ + Cardinality(a)]
    BY DEF CommitIngest
  <2> HIDE DEF k, a
  <2> QED  BY <1>2, <2>1, <2>2, <2>3, <2>4
<1> HIDE DEF k, a
<1>4. docs' \in SUBSET Doc
  BY <1>2, <1>3 DEF Shapes, TypeOK, Doc
<1>5. vectors' \in SUBSET Vector
  BY <1>2, <1>3 DEF Shapes, TypeOK, Vector
<1>6. count' \in [Kb -> Nat]
  <2>1. task[t].count + Cardinality(a) \in Nat
    BY <1>2, GensFinite
  <2> QED  BY <1>2, <1>3, <2>1 DEF Shapes, TypeOK
<1>7. /\ task' \in [Task -> Coroutine] /\ TaskShape' /\ OneHolder'
      /\ holder' \in Task \cup {None}
  <2>1. CASE task[t].job = None
    <3>1. task' = [task EXCEPT ![t] = Idle] /\ holder' = None
      BY <2>1, <1>3 DEF EndIngest
    <3>2. Idle.step = "idle"
      BY DEF Idle
    <3> QED  BY <3>1, <3>2, <1>2, <1>3, IdleShape, Goes
  <2>2. CASE task[t].job # None
    <3>1. task' = [task EXCEPT ![t].step = "report"] /\ holder' = t
      BY <2>2, <1>2, <1>3 DEF EndIngest, Goto
    <3>2. [task[t] EXCEPT !.step = "report"]
            = Onward(t, "report", task[t].remaining, task[t].want, task[t].added)
      BY <1>1 DEF Coroutine, Onward
    <3>3. task' = [task EXCEPT ![t] = [task[t] EXCEPT !.step = "report"]]
      BY <1>1, <3>1
    <3>4. task[t].added \in SUBSET Gen
      BY <1>1 DEF Coroutine
    <3>5. task' = [task EXCEPT ![t] = Onward(t, "report", task[t].remaining,
                                             task[t].want, task[t].added)]
      BY <3>2, <3>3
    <3> QED  BY <2>2, <3>1, <3>4, <3>5, <1>2, <1>3, StepShapes
  <2> QED  BY <2>1, <2>2
<1> QED
  BY <1>3, <1>4, <1>5, <1>6, <1>7, <1>8
     DEF Shapes, TypeOK, JobShape, ThreadShape, DelShape

LEMMA FailIngestShapes ==
  ASSUME Shapes, NEW t \in Task, FailIngest(t)
  PROVE  Shapes'
<1>1. /\ task' = [task EXCEPT ![t] = Idle] /\ holder' = None /\ holder = t
      /\ UNCHANGED <<tables, external, memory, background, thread,
                     unclean, excess>>
  BY DEF FailIngest, At, Shapes, OneHolder
<1>2. Idle.step = "idle"
  BY DEF Idle
<1>3. task' \in [Task -> Coroutine] /\ TaskShape' /\ OneHolder'
  BY <1>1, <1>2, IdleShape, Goes DEF tables
<1> QED
  BY <1>1, <1>3 DEF tables, Shapes, TypeOK, JobShape, ThreadShape, DelShape

-----------------------------------------------------------------------------
\* The deletions.
LEMMA StartDeleteShapes ==
  ASSUME Shapes, NEW p \in Thread,
         \/ \E k \in Kb : StartDeleteKb(p, k)
         \/ \E g \in Group : StartDeleteGroup(p, g)
  PROVE  Shapes'
<1>1. PICK g \in Group \cup {None}, ks \in SUBSET Kb :
        /\ Delete(p, g, ks)
        /\ UNCHANGED <<tables, external, memory, background, task, holder,
                       excess>>
  BY DEF StartDeleteKb, StartDeleteGroup, LiveKbs
<1> DEFINE d == [NoDeletion EXCEPT !.step = IF ks = {} THEN "commit" ELSE "purge",
                                   !.group = g, !.todo = ks]
<1>2. d \in Deletion /\ DelShape(d)
  BY DEF NoDeletion, Deletion, DelShape
<1>3. thread' = [thread EXCEPT ![p] = d]
  BY <1>1 DEF Delete
<1> HIDE DEF d
<1>4. thread' \in [Thread -> Deletion] /\ ThreadShape'
  BY <1>2, <1>3, Deletes
<1>5. unclean' \in SUBSET Kb
  BY <1>1 DEF Delete, Shapes, TypeOK
<1> QED
  BY <1>1, <1>4, <1>5
     DEF tables, Shapes, TypeOK, TaskShape, CoShape, OneHolder, JobShape

LEMMA DeleteVectorsShapes ==
  ASSUME Shapes, NEW p \in Thread, DeleteVectors(p)
  PROVE  Shapes'
<1>1. thread \in [Thread -> Deletion] /\ thread[p] \in Deletion
  BY DEF Shapes, TypeOK
<1>2. PICK k \in thread[p].todo :
        /\ thread' = [thread EXCEPT ![p].step = "docs", ![p].kb = k,
                                    ![p].vectors = @ \cup Of(vectors, k)]
        /\ memory' = memory \ Of(memory, k)
        /\ \/ external' = external \ Of(external, k) /\ UNCHANGED unclean
           \/ unclean' = unclean \cup {k} /\ UNCHANGED external
  BY DEF DeleteVectors, ForgetInMemory
<1>3. /\ thread[p].step = "purge" /\ DelShape(thread[p])
      /\ UNCHANGED <<tables, background, task, holder, excess>>
  BY DEF DeleteVectors, ForgetInMemory, Deleting, Shapes, ThreadShape
<1> DEFINE d == [thread[p] EXCEPT !.step = "docs", !.kb = k,
                                  !.vectors = @ \cup Of(vectors, k)]
<1>4. k \in Kb
  BY <1>1 DEF Deletion
<1>5. Of(vectors, k) \in SUBSET Vector
  BY DEF Of, Shapes, TypeOK
<1>6. /\ d \in Deletion /\ d.step = "docs" /\ d.kb = k /\ d.todo = thread[p].todo
      /\ d.docs = thread[p].docs /\ d.rows = thread[p].rows
      /\ d.vectors = thread[p].vectors \cup Of(vectors, k)
  BY <1>1, <1>4, <1>5 DEF Deletion
<1>7. thread' = [thread EXCEPT ![p] = d]
  BY <1>1, <1>2
<1> HIDE DEF d
<1>8. DelShape(d)
  BY <1>3, <1>6 DEF DelShape, Of
<1>9. thread' \in [Thread -> Deletion] /\ ThreadShape'
  BY <1>6, <1>7, <1>8, Deletes
<1>10. /\ unclean' \in SUBSET Kb /\ external' \in SUBSET Vector
       /\ memory' \in SUBSET Vector
  BY <1>2, <1>4 DEF Shapes, TypeOK
<1> QED
  BY <1>3, <1>9, <1>10
     DEF tables, Shapes, TypeOK, TaskShape, CoShape, OneHolder, JobShape

LEMMA DeleteDocsShapes ==
  ASSUME Shapes, NEW p \in Thread, DeleteDocs(p)
  PROVE  Shapes'
<1>1. thread \in [Thread -> Deletion] /\ thread[p] \in Deletion
  BY DEF Shapes, TypeOK
<1> DEFINE found == {x \in docs : x.kb = thread[p].kb}
           d == [thread[p] EXCEPT !.step = "row", !.docs = @ \cup found]
<1>2. /\ thread[p].step = "docs" /\ DelShape(thread[p])
      /\ thread' = [thread EXCEPT ![p].step = "row", ![p].docs = @ \cup found]
      /\ UNCHANGED <<tables, external, memory, background, task, holder,
                     unclean, excess>>
  BY DEF DeleteDocs, Deleting, Shapes, ThreadShape
<1>3. found \in SUBSET Doc
  BY DEF Shapes, TypeOK
<1>4. /\ d \in Deletion /\ d.step = "row" /\ d.kb = thread[p].kb
      /\ d.todo = thread[p].todo /\ d.docs = thread[p].docs \cup found
      /\ d.rows = thread[p].rows /\ d.vectors = thread[p].vectors
  BY <1>1, <1>3 DEF Deletion
<1>5. thread' = [thread EXCEPT ![p] = d]
  BY <1>1, <1>2
<1> HIDE DEF d
<1>6. DelShape(d)
  BY <1>2, <1>4 DEF DelShape
<1>7. thread' \in [Thread -> Deletion] /\ ThreadShape'
  BY <1>4, <1>5, <1>6, Deletes
<1> QED
  BY <1>2, <1>7
     DEF tables, Shapes, TypeOK, TaskShape, CoShape, OneHolder, JobShape

LEMMA DeleteRowShapes ==
  ASSUME Shapes, NEW p \in Thread, DeleteRow(p)
  PROVE  Shapes'
<1>1. thread \in [Thread -> Deletion] /\ thread[p] \in Deletion
  BY DEF Shapes, TypeOK
<1> DEFINE k == thread[p].kb
           s == IF thread[p].todo = {k} THEN "commit" ELSE "purge"
           d == [thread[p] EXCEPT !.step = s, !.todo = @ \ {k},
                                  !.rows = @ \cup {k}]
<1>2. /\ thread[p].step = "row" /\ DelShape(thread[p])
      /\ thread' = [thread EXCEPT ![p].step = s, ![p].todo = @ \ {k},
                                  ![p].rows = @ \cup {k}]
      /\ UNCHANGED <<tables, external, memory, background, task, holder,
                     unclean, excess>>
  BY DEF DeleteRow, Deleting, Shapes, ThreadShape
<1>3. k \in thread[p].todo /\ k \in Kb
  BY <1>1, <1>2 DEF DelShape, Deletion
<1>4. /\ d \in Deletion /\ d.step = s /\ d.kb = k
      /\ d.todo = thread[p].todo \ {k} /\ d.docs = thread[p].docs
      /\ d.rows = thread[p].rows \cup {k} /\ d.vectors = thread[p].vectors
  BY <1>1, <1>3 DEF Deletion
<1>5. thread' = [thread EXCEPT ![p] = d]
  BY <1>1, <1>2
<1> HIDE DEF d
<1>6. DelShape(d)
  BY <1>2, <1>4 DEF DelShape
<1>7. thread' \in [Thread -> Deletion] /\ ThreadShape'
  BY <1>4, <1>5, <1>6, Deletes
<1> QED
  BY <1>2, <1>7
     DEF tables, Shapes, TypeOK, TaskShape, CoShape, OneHolder, JobShape

LEMMA CommitDeleteShapes ==
  ASSUME Shapes, NEW p \in Thread, CommitDelete(p)
  PROVE  Shapes'
<1>1. /\ thread' = [thread EXCEPT ![p] = NoDeletion]
      /\ vectors' = vectors \ thread[p].vectors /\ docs' = docs \ thread[p].docs
      /\ kb' = [k \in Kb |-> IF k \in thread[p].rows THEN "deleted" ELSE kb[k]]
      /\ group' = [g \in Group |->
                     IF g = thread[p].group THEN "deleted" ELSE group[g]]
      /\ UNCHANGED <<home, count, job, external, memory, background, task, holder,
                     unclean, excess>>
  BY DEF CommitDelete
<1>2. thread' \in [Thread -> Deletion] /\ ThreadShape'
  BY <1>1, IdleShape, Deletes
<1>3. /\ kb' \in [Kb -> Life] /\ group' \in [Group -> Life]
      /\ docs' \in SUBSET Doc /\ vectors' \in SUBSET Vector
  BY <1>1 DEF Shapes, TypeOK, Life
<1> QED
  BY <1>1, <1>2, <1>3 DEF Shapes, TypeOK, TaskShape, CoShape, OneHolder, JobShape

LEMMA RestartShapes ==
  ASSUME Shapes, Restart
  PROVE  Shapes'
<1>1. /\ task' = [t \in Task |-> Idle] /\ holder' = None
      /\ thread' = [p \in Thread |-> NoDeletion]
      /\ memory' = {} /\ background' = {}
      /\ UNCHANGED <<tables, external, unclean, excess>>
  BY DEF Restart
<1>2. TypeOK'
  BY <1>1, IdleShape DEF tables, Shapes, TypeOK
<1>3. TaskShape' /\ OneHolder'
  BY <1>1 DEF TaskShape, CoShape, OneHolder, Idle
<1>4. ThreadShape' /\ JobShape'
  BY <1>1, IdleShape DEF tables, Shapes, ThreadShape, DelShape, JobShape
<1> QED  BY <1>2, <1>3, <1>4 DEF Shapes

LEMMA NextShapes == Shapes /\ [Next]_vars => Shapes'
<1> SUFFICES ASSUME Shapes, [Next]_vars PROVE Shapes'
  OBVIOUS
<1>1. CASE \E g \in Group : CreateGroup(g)
  BY <1>1, CreateGroupShapes
<1>2. CASE \E j \in Job, k \in Kb, gens \in SUBSET Gen : CreateJob(j, k, gens)
  BY <1>2, CreateJobShapes
<1>3. CASE Coroutines
  BY <1>3, CreateShapes, StartIngestShapes, StartJobShapes, ReadKbShapes,
     RoundShapes, CommitIngestShapes, FailIngestShapes, ReportJobShapes
     DEF Coroutines
<1>4. CASE Deletions
  BY <1>4, StartDeleteShapes, DeleteVectorsShapes, DeleteDocsShapes,
     DeleteRowShapes, CommitDeleteShapes DEF Deletions
<1>5. CASE Restart
  BY <1>5, RestartShapes
<1>6. CASE UNCHANGED vars
  BY <1>6 DEF vars, tables, Shapes, TypeOK, TaskShape, CoShape, OneHolder,
       JobShape, ThreadShape, DelShape
<1> QED  BY <1>1, <1>2, <1>3, <1>4, <1>5, <1>6 DEF Next

\* Every variable has its type.
THEOREM TypeCorrect == Spec => []TypeOK
<1>1. Spec => []Shapes
  BY InitShapes, NextShapes, PTL DEF Spec
<1>2. Shapes => TypeOK
  BY DEF Shapes
<1> QED  BY <1>1, <1>2, PTL

-----------------------------------------------------------------------------
\* A coroutine that begins or ends: an ingest begins with a live KB, and with
\* what it counts.
Begins(q) ==
  /\ q.step \in {"idle", "create", "read", "plan"}
  /\ q.step = "plan" => /\ q.count = count[q.kb] /\ kb[q.kb] = "live"
                        /\ Purging(q.kb) => q.kb \in unclean'

LEMMA CoroutineMoves ==
  ASSUME Shapes, NEW t \in Task,
         \/ \E g \in Group : StartCreate(t, g)
         \/ CreateKb(t)
         \/ \E k \in Kb, gens \in SUBSET Gen : StartIngest(t, k, gens)
         \/ \E j \in Job : StartJob(t, j)
         \/ ReadKb(t) \/ FailIngest(t) \/ ReportJob(t)
  PROVE  \E q : task' = [task EXCEPT ![t] = q] /\ Begins(q)
<1>1. CASE \E g \in Group : StartCreate(t, g)
  <2>1. PICK g \in Group : task' = [task EXCEPT ![t] =
                             [Idle EXCEPT !.step = "create", !.group = g]]
    BY <1>1 DEF StartCreate
  <2>2. Begins([Idle EXCEPT !.step = "create", !.group = g])
    BY DEF Idle, Begins
  <2> QED  BY <2>1, <2>2
<1>2. CASE \E j \in Job : StartJob(t, j)
  <2>1. PICK j \in Job : task' = [task EXCEPT ![t] =
           [Idle EXCEPT !.step = "read", !.kb = job[j].kb, !.want = job[j].want,
                        !.job = j]]
    BY <1>2 DEF StartJob
  <2>2. Begins([Idle EXCEPT !.step = "read", !.kb = job[j].kb,
                            !.want = job[j].want, !.job = j])
    BY DEF Idle, Begins
  <2> QED  BY <2>1, <2>2
<1>3. CASE \/ \E k \in Kb, gens \in SUBSET Gen : StartIngest(t, k, gens)
           \/ ReadKb(t) /\ kb[task[t].kb] = "live"
  <2>1. PICK k, gens, j : Ingest(t, k, gens, j) /\ kb[k] = "live"
    BY <1>3 DEF StartIngest, ReadKb
  <2> DEFINE q == [Idle EXCEPT !.step = "plan", !.kb = k, !.want = gens,
                               !.count = count[k], !.job = j]
  <2>2. task' = [task EXCEPT ![t] = q]
    BY <2>1 DEF Ingest
  <2>3. q.step = "plan" /\ q.kb = k /\ q.count = count[k]
    BY DEF Idle
  <2>4. Purging(k) => k \in unclean'
    BY <2>1 DEF Ingest
  <2> HIDE DEF q
  <2>5. Begins(q)
    BY <2>1, <2>3, <2>4 DEF Begins
  <2> QED  BY <2>2, <2>5
<1>4. CASE CreateKb(t) \/ FailIngest(t) \/ ReportJob(t)
           \/ (ReadKb(t) /\ kb[task[t].kb] # "live")
  <2>1. task' = [task EXCEPT ![t] = Idle]
    BY <1>4 DEF CreateKb, FailIngest, ReportJob, ReadKb
  <2>2. Begins(Idle)
    BY DEF Idle, Begins
  <2> QED  BY <2>1, <2>2
<1> QED  BY <1>1, <1>2, <1>3, <1>4

\* A coroutine that is at an ingest goes on with it, or has just begun.
Continues ==
  \A u \in Task : task'[u].step \in {"plan", "resolve", "loop"} =>
    \/ /\ task[u].step \in {"plan", "resolve", "loop"}
       /\ task'[u].kb = task[u].kb /\ task'[u].count = task[u].count
    \/ Begins(task'[u]) /\ task'[u].step = "plan"

LEMMA CoroutineContinues ==
  ASSUME Shapes, NEW t \in Task,
         \/ \E g \in Group : StartCreate(t, g)
         \/ CreateKb(t)
         \/ \E k \in Kb, gens \in SUBSET Gen : StartIngest(t, k, gens)
         \/ \E j \in Job : StartJob(t, j)
         \/ ReadKb(t) \/ Plan(t) \/ Resolve(t) \/ IngestOne(t)
         \/ CommitIngest(t) \/ FailIngest(t) \/ ReportJob(t)
  PROVE  Continues
<1>1. task \in [Task -> Coroutine]
  BY DEF Shapes, TypeOK
<1>2. ASSUME NEW q, task' = [task EXCEPT ![t] = q],
             q.step \in {"plan", "resolve", "loop"} =>
               \/ /\ task[t].step \in {"plan", "resolve", "loop"}
                  /\ q.kb = task[t].kb /\ q.count = task[t].count
               \/ Begins(q)
      PROVE  Continues
  <2>1. \A u \in Task : task'[u] = IF u = t THEN q ELSE task[u]
    BY <1>1, <1>2
  <2> QED  BY <1>2, <2>1 DEF Continues, Begins
<1>3. ASSUME NEW x, NEW r, NEW w, NEW a,
             task' = [task EXCEPT ![t] = Onward(t, x, r, w, a)],
             task[t].step \in {"plan", "resolve", "loop"}
      PROVE  Continues
  <2> DEFINE q == Onward(t, x, r, w, a)
  <2>1. q.kb = task[t].kb /\ q.count = task[t].count
    BY OnwardFields
  <2>2. task' = [task EXCEPT ![t] = q]
    BY <1>3
  <2> HIDE DEF q
  <2> QED  BY <1>2, <1>3, <2>1, <2>2
<1>4. CASE Plan(t) \/ Resolve(t)
  <2>1. task[t].step \in {"plan", "resolve"}
    BY <1>4 DEF Plan, Resolve, At
  <2>2. PICK x, r, w, a : task' = [task EXCEPT ![t] = Onward(t, x, r, w, a)]
    BY <1>4, PlanStep, ResolveStep
  <2> QED  BY <1>3, <2>1, <2>2
<1>5. CASE IngestOne(t)
  <2>1. task[t].step = "loop"
    BY <1>5 DEF IngestOne, At
  <2>2. PICK x, r, w, a : task' = [task EXCEPT ![t] = Onward(t, x, r, w, a)]
    BY <1>5, IngestOneStep
  <2> QED  BY <1>3, <2>1, <2>2
<1>6. CASE CommitIngest(t)
  <2>1. Idle.step = "idle"
    BY DEF Idle
  <2>2. task'[t].step \in {"idle", "report"}
        /\ \A u \in Task \ {t} : task'[u] = task[u]
    BY <1>1, <1>6, <2>1 DEF CommitIngest, EndIngest, Goto, Coroutine
  <2> QED  BY <2>2 DEF Continues
<1>7. CASE \/ \E g \in Group : StartCreate(t, g)
           \/ CreateKb(t)
           \/ \E k \in Kb, gens \in SUBSET Gen : StartIngest(t, k, gens)
           \/ \E j \in Job : StartJob(t, j)
           \/ ReadKb(t) \/ FailIngest(t) \/ ReportJob(t)
  BY <1>2, <1>7, CoroutineMoves
<1> QED  BY <1>4, <1>5, <1>6, <1>7

-----------------------------------------------------------------------------
\* Documents and vectors.
LEMMA CatalogueGoes ==
  ASSUME Shapes, Catalogue, NEW t \in Task, NEW q,
         task' = [task EXCEPT ![t] = q],
         q.step = "loop" => \A g \in q.added, d \in docs :
                              ~(d.kb = q.kb /\ d.gen = g),
         UNCHANGED <<docs, vectors, kb, thread>>
  PROVE  Catalogue'
<1>1. \A u \in Task : task'[u] = IF u = t THEN q ELSE task[u]
  BY DEF Shapes, TypeOK
<1>2. AddedIsNew'
  BY <1>1 DEF Catalogue, AddedIsNew
<1> QED
  BY <1>2 DEF Catalogue, NoDuplicateDocs, SqlDocHasVector, VectorsHaveDocs,
       HasDoc, TakenTogether

LEMMA CreateKbCatalogue ==
  ASSUME Shapes, Catalogue, NEW t \in Task, CreateKb(t)
  PROVE  Catalogue'
<1>1. /\ \A k \in Kb : kb'[k] # "deleted" => kb[k] # "deleted"
      /\ task' = [task EXCEPT ![t] = Idle]
      /\ UNCHANGED <<docs, vectors, thread>>
  BY DEF CreateKb, Shapes, TypeOK
<1>2. AddedIsNew'
  BY <1>1 DEF Catalogue, AddedIsNew, Shapes, TypeOK, Idle
<1>3. VectorsHaveDocs'
  BY <1>1 DEF Catalogue, VectorsHaveDocs, HasDoc, Shapes, TypeOK, Vector, Deletion
<1> QED
  BY <1>1, <1>2, <1>3 DEF Catalogue, NoDuplicateDocs, SqlDocHasVector,
       TakenTogether

LEMMA IngestCatalogue ==
  ASSUME Shapes, Catalogue, NEW t \in Task,
         Plan(t) \/ Resolve(t) \/ IngestOne(t)
  PROVE  Catalogue'
<1>1. CoShape(task[t])
  BY DEF Shapes, TaskShape
<1>2. CASE Plan(t)
  <2>1. PICK r \in Nat \cup {None} :
          task' = [task EXCEPT ![t] =
                     Onward(t, "resolve", r, task[t].want, task[t].added)]
    BY <1>2, PlanStep
  <2> DEFINE q == Onward(t, "resolve", r, task[t].want, task[t].added)
  <2>2. q.step = "resolve"
    BY OnwardFields
  <2>3. UNCHANGED <<docs, vectors, kb, thread>>
    BY <1>2 DEF Plan, tables
  <2>4. task' = [task EXCEPT ![t] = q]
    BY <2>1
  <2> HIDE DEF q
  <2> QED  BY <2>2, <2>3, <2>4, CatalogueGoes
<1>3. CASE Resolve(t)
  <2>1. PICK w \in SUBSET Gen :
          task' = [task EXCEPT ![t] =
                     Onward(t, "loop", task[t].remaining, w, task[t].added)]
    BY <1>3, ResolveStep
  <2> DEFINE q == Onward(t, "loop", task[t].remaining, w, task[t].added)
  <2>2. q.added = {}
    BY <1>1, <1>3, ResolveStep, OnwardFields DEF CoShape
  <2>3. UNCHANGED <<docs, vectors, kb, thread>>
    BY <1>3 DEF Resolve, tables
  <2>4. task' = [task EXCEPT ![t] = q]
    BY <2>1
  <2> HIDE DEF q
  <2> QED  BY <2>2, <2>3, <2>4, CatalogueGoes
<1>4. CASE IngestOne(t)
  <2>1. PICK g \in Gen, a \in SUBSET Gen :
          /\ task' = [task EXCEPT ![t] =
               Onward(t, "loop", task[t].remaining, task[t].want \ {g}, a)]
          /\ \/ a = task[t].added
             \/ a = task[t].added \cup {g} /\ ~DocExists(t, g)
    BY <1>4, IngestOneStep
  <2> DEFINE q == Onward(t, "loop", task[t].remaining, task[t].want \ {g}, a)
  <2>2. q.added = a /\ q.kb = task[t].kb
    BY OnwardFields
  <2>3. task[t].step = "loop" /\ UNCHANGED <<docs, vectors, kb, thread>>
    BY <1>4 DEF IngestOne, At, tables
  <2>4. task' = [task EXCEPT ![t] = q]
    BY <2>1
  <2> HIDE DEF q
  <2>5. \A h \in q.added, d \in docs : ~(d.kb = q.kb /\ d.gen = h)
    BY <2>1, <2>2, <2>3 DEF Catalogue, AddedIsNew, DocExists
  <2> QED  BY <2>3, <2>4, <2>5, CatalogueGoes
<1> QED  BY <1>2, <1>3, <1>4

\* A commit catalogues what nobody else has: no deletion has taken a vector
\* that one of the new documents needs.
LEMMA CommitIngestCatalogue ==
  ASSUME Shapes, Catalogue, NEW t \in Task, CommitIngest(t)
  PROVE  Catalogue'
<1> DEFINE k == task[t].kb
           a == task[t].added
           new == {[kb |-> k, gen |-> g, by |-> t] : g \in a}
<1>1. /\ task[t].step = "loop" /\ k \in Kb /\ holder = t
      /\ a # {} => kb[k] = "live"
  BY DEF CommitIngest, At, Shapes, TaskShape, OneHolder, CoShape
<1>2. /\ docs' = docs \cup new
      /\ vectors' = IF k \in SqlKb THEN vectors \cup ({k} \X a) ELSE vectors
      /\ EndIngest(t) /\ UNCHANGED <<kb, thread>>
  BY DEF CommitIngest
<1>3. \A g \in a, d \in docs : ~(d.kb = k /\ d.gen = g)
  BY <1>1 DEF Catalogue, AddedIsNew
<1>4. \A u \in Task : task'[u].step # "loop"
  <2>1. task \in [Task -> Coroutine] /\ Idle.step # "loop"
    BY DEF Shapes, TypeOK, Idle
  <2>2. task'[t].step # "loop" /\ \A u \in Task \ {t} : task'[u] = task[u]
    BY <2>1, <1>2 DEF EndIngest, Goto, Coroutine
  <2> QED  BY <1>1, <2>2 DEF Shapes, OneHolder
<1> HIDE DEF k, a
<1>5. NoDuplicateDocs'
  <2>1. \A d, e \in new : d.kb = e.kb /\ d.gen = e.gen => d = e
    OBVIOUS
  <2>2. \A d \in new : d.kb = k /\ d.gen \in a
    OBVIOUS
  <2> HIDE DEF new
  <2> QED  BY <2>1, <2>2, <1>2, <1>3 DEF Catalogue, NoDuplicateDocs
<1>6. SqlDocHasVector'
  <2>1. \A d \in new : d.kb = k /\ <<d.kb, d.gen>> \in {k} \X a
    OBVIOUS
  <2> HIDE DEF new
  <2> QED  BY <2>1, <1>2 DEF Catalogue, SqlDocHasVector
<1>7. VectorsHaveDocs'
  <2>1. \A v \in {k} \X a : \E d \in new : d.kb = v[1] /\ d.gen = v[2]
    <3> SUFFICES ASSUME NEW g \in a
                 PROVE  \E d \in new : d.kb = k /\ d.gen = g
      OBVIOUS
    <3> WITNESS [kb |-> k, gen |-> g, by |-> t] \in new
    <3> QED  OBVIOUS
  <2> HIDE DEF new
  <2> QED  BY <2>1, <1>2 DEF Catalogue, VectorsHaveDocs, HasDoc
<1>8. TakenTogether'
  <2> SUFFICES ASSUME NEW p \in Thread, NEW v \in thread[p].vectors, NEW d \in new,
                      d.kb = v[1], d.gen = v[2]
               PROVE  FALSE
    BY <1>2 DEF Catalogue, TakenTogether
  <2>1. d.kb = k /\ d.gen \in a
    OBVIOUS
  <2>2. kb[v[1]] # "deleted"
    BY <2>1, <1>1
  <2>3. PICK e \in docs : e.kb = v[1] /\ e.gen = v[2]
    BY <2>2 DEF Catalogue, VectorsHaveDocs, HasDoc
  <2> QED  BY <2>1, <2>3, <1>3
<1> QED
  BY <1>4, <1>5, <1>6, <1>7, <1>8 DEF Catalogue, AddedIsNew

-----------------------------------------------------------------------------
\* Deletions leave the catalogue alone until they commit.
LEMMA DeletesCatalogue ==
  ASSUME Shapes, Catalogue, NEW p \in Thread,
         \/ \E k \in Kb : StartDeleteKb(p, k)
         \/ \E g \in Group : StartDeleteGroup(p, g)
         \/ DeleteVectors(p) \/ DeleteDocs(p) \/ DeleteRow(p)
  PROVE  Catalogue'
<1>1. UNCHANGED <<docs, vectors, kb, task>>
  BY DEF StartDeleteKb, StartDeleteGroup, DeleteVectors, ForgetInMemory, DeleteDocs, DeleteRow,
         tables
<1>2. thread \in [Thread -> Deletion] /\ thread[p] \in Deletion
  BY DEF Shapes, TypeOK
<1>3. /\ \A q \in Thread \ {p} : thread'[q] = thread[q]
      /\ \/ thread'[p].vectors = {}
         \/ /\ thread'[p].step = "docs" /\ thread[p].step = "purge"
            /\ thread'[p].docs = thread[p].docs
            /\ thread'[p].vectors = thread[p].vectors
                                      \cup Of(vectors, thread'[p].kb)
         \/ /\ thread[p].step = "docs" /\ thread'[p].vectors = thread[p].vectors
            /\ thread'[p].docs = thread[p].docs
                                   \cup {x \in docs : x.kb = thread[p].kb}
         \/ /\ thread[p].step = "row" /\ thread'[p].vectors = thread[p].vectors
            /\ thread'[p].docs = thread[p].docs
  <2>1. CASE \/ \E k \in Kb : StartDeleteKb(p, k)
             \/ \E g \in Group : StartDeleteGroup(p, g)
    <3>1. PICK g, ks : Delete(p, g, ks)
      BY <2>1 DEF StartDeleteKb, StartDeleteGroup
    <3> DEFINE s == IF ks = {} THEN "commit" ELSE "purge"
               d == [NoDeletion EXCEPT !.step = s, !.group = g, !.todo = ks]
    <3>2. thread' = [thread EXCEPT ![p] = d]
      BY <3>1 DEF Delete
    <3>3. d.vectors = {}
      BY DEF NoDeletion
    <3> HIDE DEF d
    <3> QED  BY <1>2, <3>2, <3>3
  <2>2. CASE DeleteVectors(p)
    <3>1. PICK k \in thread[p].todo :
            thread' = [thread EXCEPT ![p].step = "docs", ![p].kb = k,
                                     ![p].vectors = @ \cup Of(vectors, k)]
      BY <2>2 DEF DeleteVectors, ForgetInMemory
    <3> DEFINE d == [thread[p] EXCEPT !.step = "docs", !.kb = k,
                                      !.vectors = @ \cup Of(vectors, k)]
    <3>2. thread' = [thread EXCEPT ![p] = d]
      BY <1>2, <3>1
    <3>3. /\ d.step = "docs" /\ d.kb = k /\ d.docs = thread[p].docs
          /\ d.vectors = thread[p].vectors \cup Of(vectors, k)
      BY <1>2 DEF Deletion
    <3> HIDE DEF d
    <3> QED  BY <1>2, <2>2, <3>2, <3>3 DEF DeleteVectors, ForgetInMemory, Deleting
  <2>3. CASE DeleteDocs(p)
    BY <2>3, <1>2 DEF DeleteDocs, Deleting, Deletion
  <2>4. CASE DeleteRow(p)
    BY <2>4, <1>2 DEF DeleteRow, Deleting, Deletion
  <2> QED  BY <2>1, <2>2, <2>3, <2>4
<1>4. \A q \in Thread : thread'[q].vectors \subseteq thread[q].vectors \cup vectors
  BY <1>3 DEF Of
<1>5. VectorsHaveDocs'
  BY <1>1, <1>4 DEF Catalogue, VectorsHaveDocs, HasDoc
<1>6. TakenTogether'
  <2> SUFFICES ASSUME NEW v \in thread'[p].vectors, NEW d \in docs,
                      d.kb = v[1], d.gen = v[2]
               PROVE  \/ d \in thread'[p].docs
                      \/ thread'[p].step = "docs" /\ thread'[p].kb = d.kb
    BY <1>1, <1>3 DEF Catalogue, TakenTogether
  <2> QED  BY <1>3 DEF Catalogue, TakenTogether, Of
<1> QED
  BY <1>1, <1>5, <1>6 DEF Catalogue, NoDuplicateDocs, SqlDocHasVector, AddedIsNew

\* It takes what it took in one piece; the KBs of those documents are gone.
LEMMA CommitDeleteCatalogue ==
  ASSUME Shapes, Catalogue, NEW p \in Thread, CommitDelete(p)
  PROVE  Catalogue'
<1>1. /\ thread[p].step = "commit" /\ DelShape(thread[p])
      /\ thread' = [thread EXCEPT ![p] = NoDeletion]
      /\ vectors' = vectors \ thread[p].vectors /\ docs' = docs \ thread[p].docs
      /\ kb' = [k \in Kb |-> IF k \in thread[p].rows THEN "deleted" ELSE kb[k]]
      /\ UNCHANGED task
  BY DEF CommitDelete, Deleting, Shapes, ThreadShape
<1>2. \A x \in thread[p].docs : x.kb \in thread[p].rows
  BY <1>1 DEF DelShape
<1>3. /\ thread \in [Thread -> Deletion] /\ vectors \in SUBSET Vector
      /\ docs \in SUBSET Doc
  BY DEF Shapes, TypeOK
<1>4. /\ \A q \in Thread \ {p} : thread'[q] = thread[q]
      /\ thread'[p].vectors = {}
  BY <1>1, <1>3 DEF NoDeletion
<1>5. \A v \in Vector : HasDoc(v) => HasDoc(v)'
  <2> SUFFICES ASSUME NEW v \in Vector, HasDoc(v), kb'[v[1]] # "deleted"
               PROVE  \E d \in docs' : d.kb = v[1] /\ d.gen = v[2]
    BY DEF HasDoc
  <2>1. v[1] \in Kb
    BY DEF Vector
  <2>2. v[1] \notin thread[p].rows /\ kb[v[1]] # "deleted"
    BY <2>1, <1>1
  <2>3. PICK d \in docs : d.kb = v[1] /\ d.gen = v[2]
    BY <2>2 DEF HasDoc
  <2> QED  BY <2>2, <2>3, <1>1, <1>2
<1>6. VectorsHaveDocs'
  <2>1. \A q \in Thread : thread[q].vectors \in SUBSET Vector
    BY <1>3 DEF Deletion
  <2> QED  BY <2>1, <1>1, <1>3, <1>4, <1>5 DEF Catalogue, VectorsHaveDocs
<1>7. SqlDocHasVector'
  <2> SUFFICES ASSUME NEW d \in docs, d \notin thread[p].docs, d.kb \in SqlKb,
                      <<d.kb, d.gen>> \in thread[p].vectors
               PROVE  FALSE
    BY <1>1 DEF Catalogue, SqlDocHasVector
  <2> QED  BY <1>1 DEF Catalogue, TakenTogether
<1>8. TakenTogether'
  BY <1>1, <1>4 DEF Catalogue, TakenTogether
<1>9. NoDuplicateDocs' /\ AddedIsNew'
  BY <1>1 DEF Catalogue, NoDuplicateDocs, AddedIsNew
<1> QED  BY <1>6, <1>7, <1>8, <1>9 DEF Catalogue

-----------------------------------------------------------------------------
\* Counts.
Added(k, t, a) == {[kb |-> k, gen |-> g, by |-> t] : g \in a}

LEMMA NewDocs ==
  ASSUME NEW a \in SUBSET Gen, NEW k, NEW t
  PROVE  IsFiniteSet(Added(k, t, a)) /\ Cardinality(Added(k, t, a)) = Cardinality(a)
<1> DEFINE new == Added(k, t, a)
           f   == [g \in a |-> [kb |-> k, gen |-> g, by |-> t]]
<1>1. f \in Bijection(a, new)
  <2>1. f \in [a -> new]
    BY DEF Added
  <2>2. \A g, h \in a : f[g] = f[h] => g = h
    OBVIOUS
  <2>3. \A d \in new : \E g \in a : f[g] = d
    BY DEF Added
  <2> HIDE DEF f, new
  <2> QED  BY <2>1, <2>2, <2>3 DEF Bijection, Injection, Surjection, IsInjective
<1>2. ExistsBijection(a, new)
  BY <1>1 DEF ExistsBijection
<1> QED  BY <1>2, GensFinite, FS_Bijection

LEMMA DocsFinite ==
  ASSUME Counts, NEW k
  PROVE  IsFiniteSet(DocsOf(k)) /\ Cardinality(DocsOf(k)) \in Nat
<1>1. DocsOf(k) \in SUBSET docs
  BY DEF DocsOf
<1> QED  BY <1>1, FS_Subset, FS_CardinalityType DEF Counts

\* Documents that a KB keeps are enough for what was read of it.
LEMMA CountsKept ==
  ASSUME Shapes, Counts, IsFiniteSet(docs'), count' = count,
         \A k \in Kb : kb'[k] # "deleted" =>
           kb[k] # "deleted" /\ DocsOf(k) \subseteq DocsOf(k)',
         Shapes',
         \A t \in Task : task'[t].step \in {"plan", "resolve", "loop"} =>
           \/ /\ task[t].step \in {"plan", "resolve", "loop"}
              /\ task'[t].kb = task[t].kb /\ task'[t].count = task[t].count
           \/ task'[t].count = count[task'[t].kb]
  PROVE  Counts'
<1>1. \A k \in Kb : kb'[k] # "deleted" =>
        Cardinality(DocsOf(k)) <= Cardinality(DocsOf(k)')
  <2> SUFFICES ASSUME NEW k \in Kb, kb'[k] # "deleted"
               PROVE  Cardinality(DocsOf(k)) <= Cardinality(DocsOf(k)')
    OBVIOUS
  <2>1. DocsOf(k) \in SUBSET DocsOf(k)'
    OBVIOUS
  <2>2. DocsOf(k)' \in SUBSET docs'
    BY DEF DocsOf
  <2>3. IsFiniteSet(DocsOf(k)')
    BY <2>2, FS_Subset
  <2> QED  BY <2>1, <2>3, FS_Subset
<1>2. \A k \in Kb : /\ Cardinality(DocsOf(k)) \in Nat
                    /\ kb'[k] # "deleted" => Cardinality(DocsOf(k)') \in Nat
                    /\ count[k] \in Nat
  <2>1. \A k \in Kb : DocsOf(k)' \in SUBSET docs'
    BY DEF DocsOf
  <2> QED
    BY <2>1, DocsFinite, FS_Subset, FS_CardinalityType DEF Shapes, TypeOK
<1>3. \A k \in Kb : kb'[k] # "deleted" => count'[k] <= Cardinality(DocsOf(k)')
  BY <1>1, <1>2 DEF Counts
<1>4. \A t \in Task :
       task'[t].step \in {"plan", "resolve", "loop"} /\ kb'[task'[t].kb] # "deleted"
         => task'[t].count <= Cardinality(DocsOf(task[t].kb)')
  <2> SUFFICES ASSUME NEW t \in Task,
                      task'[t].step \in {"plan", "resolve", "loop"},
                      kb'[task'[t].kb] # "deleted"
               PROVE  task'[t].count <= Cardinality(DocsOf(task[t].kb)')
    OBVIOUS
  <2> DEFINE k == task'[t].kb
  <2>1. k \in Kb /\ task'[t].count \in Nat
    BY DEF Shapes, TaskShape, CoShape, TypeOK, Coroutine
  <2>2. CASE task'[t].count = count[k]
    BY <2>1, <2>2, <1>3
  <2>3. CASE /\ task[t].step \in {"plan", "resolve", "loop"}
             /\ k = task[t].kb /\ task'[t].count = task[t].count
    <3>1. task[t].count <= Cardinality(DocsOf(k))
      BY <2>1, <2>3 DEF Counts
    <3> QED  BY <2>1, <2>3, <3>1, <1>1, <1>2
  <2> QED  BY <2>2, <2>3
<1> QED  BY <1>3, <1>4 DEF Counts

LEMMA CoroutineCounts ==
  ASSUME Shapes, Counts, Shapes', Continues, UNCHANGED <<docs, count>>,
         \A k \in Kb : kb'[k] # "deleted" => kb[k] # "deleted"
  PROVE  Counts'
<1>1. \A u \in Task : task'[u].step \in {"plan", "resolve", "loop"} =>
        \/ /\ task[u].step \in {"plan", "resolve", "loop"}
           /\ task'[u].kb = task[u].kb /\ task'[u].count = task[u].count
        \/ task'[u].count = count[task'[u].kb]
  BY DEF Continues, Begins
<1>2. IsFiniteSet(docs') /\ count' = count
      /\ \A k \in Kb : DocsOf(k) \subseteq DocsOf(k)'
  BY DEF Counts, DocsOf
<1> QED  BY <1>1, <1>2, CountsKept

\* What the end of an ingest adds to the catalogue and to doc_count.
LEMMA CommitIngestAdds ==
  ASSUME Shapes, Counts, Catalogue, NEW t \in Task, CommitIngest(t),
         NEW k, k = task[t].kb, NEW a, a = task[t].added
  PROVE  /\ k \in Kb /\ a \in SUBSET Gen /\ task[t].step = "loop"
         /\ a # {} => kb[k] = "live"
         /\ count' = IF a = {} THEN count
                     ELSE [count EXCEPT ![k] = task[t].count + Cardinality(a)]
         /\ IsFiniteSet(docs')
         /\ Cardinality(DocsOf(k)') = Cardinality(DocsOf(k)) + Cardinality(a)
         /\ \A x \in Kb \ {k} : DocsOf(x)' = DocsOf(x)
         /\ task'[t].step \in {"idle", "report"}
         /\ \A u \in Task \ {t} : task'[u] = task[u]
         /\ UNCHANGED kb
         /\ overwrites' = IF a = {} \/ task[t].count = count[k] THEN overwrites
                          ELSE [overwrites EXCEPT ![k] = @ + 1]
         /\ unplanned' = IF task[t].remaining # None THEN unplanned
                         ELSE [unplanned EXCEPT ![k] = @ + Cardinality(a)]
<1>1. task \in [Task -> Coroutine] /\ task[t] \in Coroutine
  BY DEF Shapes, TypeOK
<1>2. k \in Kb /\ a \in SUBSET Gen /\ task[t].step = "loop"
  BY <1>1 DEF CommitIngest, At, Shapes, TaskShape, CoShape, Coroutine
<1> DEFINE new == Added(k, t, a)
<1>3. /\ docs' = docs \cup new
      /\ count' = IF a = {} THEN count
                  ELSE [count EXCEPT ![k] = task[t].count + Cardinality(a)]
      /\ a # {} => kb[k] = "live"
      /\ EndIngest(t) /\ UNCHANGED kb
  BY DEF CommitIngest, Added
<1>12. /\ overwrites' = IF a = {} \/ task[t].count = count[k] THEN overwrites
                        ELSE [overwrites EXCEPT ![k] = @ + 1]
       /\ unplanned' = IF task[t].remaining # None THEN unplanned
                       ELSE [unplanned EXCEPT ![k] = @ + Cardinality(a)]
  BY DEF CommitIngest
<1>4. \A d \in new : d.kb = k /\ d.gen \in a
  BY DEF Added
<1>5. IsFiniteSet(new) /\ Cardinality(new) = Cardinality(a)
  BY <1>2, NewDocs
<1> HIDE DEF new
<1>6. DocsOf(k) \cap new = {}
  BY <1>2, <1>4 DEF Catalogue, AddedIsNew, DocsOf
<1>7. DocsOf(k)' = DocsOf(k) \cup new
  BY <1>3, <1>4 DEF DocsOf
<1>8. \A x \in Kb \ {k} : DocsOf(x)' = DocsOf(x)
  BY <1>3, <1>4 DEF DocsOf
<1>9. IsFiniteSet(docs')
  BY <1>3, <1>5, FS_Union DEF Counts
<1>10. Cardinality(DocsOf(k)') = Cardinality(DocsOf(k)) + Cardinality(a)
  <2>1. /\ Cardinality(a) \in Nat
        /\ IsFiniteSet(DocsOf(k)) /\ Cardinality(DocsOf(k)) \in Nat
    BY <1>2, GensFinite, DocsFinite
  <2>2. Cardinality({}) = 0
    BY FS_EmptySet
  <2>3. Cardinality(DocsOf(k) \cup new)
          = Cardinality(DocsOf(k)) + Cardinality(new)
              - Cardinality(DocsOf(k) \cap new)
    BY <1>5, <2>1, FS_Union
  <2>4. Cardinality(DocsOf(k) \cap new) = 0
    BY <1>6, <2>2
  <2>5. Cardinality(DocsOf(k)') = Cardinality(DocsOf(k) \cup new)
    BY <1>7
  <2> QED  BY <2>1, <1>5, <2>3, <2>4, <2>5
<1>11. /\ task'[t].step \in {"idle", "report"}
       /\ \A u \in Task \ {t} : task'[u] = task[u]
  <2>1. Idle.step = "idle"
    BY DEF Idle
  <2> QED  BY <1>1, <1>3, <2>1 DEF EndIngest, Goto, Coroutine
<1> QED  BY <1>2, <1>3, <1>8, <1>9, <1>10, <1>11, <1>12

LEMMA CommitIngestCounts ==
  ASSUME Shapes, Counts, Shapes', Catalogue, NEW t \in Task, CommitIngest(t)
  PROVE  Counts'
<1>1. PICK k, a : k = task[t].kb /\ a = task[t].added
  OBVIOUS
<1>2. /\ k \in Kb /\ a \in SUBSET Gen /\ task[t].step = "loop"
      /\ a # {} => kb[k] = "live"
      /\ count' = IF a = {} THEN count
                  ELSE [count EXCEPT ![k] = task[t].count + Cardinality(a)]
      /\ IsFiniteSet(docs')
      /\ Cardinality(DocsOf(k)') = Cardinality(DocsOf(k)) + Cardinality(a)
      /\ \A x \in Kb \ {k} : DocsOf(x)' = DocsOf(x)
      /\ task'[t].step \in {"idle", "report"}
      /\ \A u \in Task \ {t} : task'[u] = task[u]
      /\ UNCHANGED kb
  BY <1>1, CommitIngestAdds
<1>3. task[t].count \in Nat /\ Cardinality(a) \in Nat
  BY <1>2, GensFinite DEF Shapes, TypeOK, Coroutine
<1>4. ASSUME NEW x \in Kb
      PROVE  /\ Cardinality(DocsOf(x)) \in Nat
             /\ Cardinality(DocsOf(x)) <= Cardinality(DocsOf(x)')
             /\ Cardinality(DocsOf(x)') \in Nat
  <2>1. Cardinality(DocsOf(x)) \in Nat
    BY DocsFinite
  <2>2. CASE x = k
    BY <1>2, <1>3, <2>1, <2>2
  <2>3. CASE x # k
    <3>1. DocsOf(x)' = DocsOf(x)
      BY <1>2, <2>3
    <3> QED  BY <2>1, <3>1
  <2> QED  BY <2>2, <2>3
<1>5. ASSUME NEW x \in Kb, kb[x] # "deleted"
      PROVE  count'[x] <= Cardinality(DocsOf(x)')
  <2>1. count[x] \in Nat /\ count[x] <= Cardinality(DocsOf(x))
    BY <1>5 DEF Counts, Shapes, TypeOK
  <2>2. CASE a = {} \/ x # k
    <3>1. count'[x] = count[x]
      BY <1>2, <1>3, <2>2 DEF Shapes, TypeOK
    <3> QED  BY <2>1, <3>1, <1>4
  <2>3. CASE a # {} /\ x = k
    <3>1. count'[x] = task[t].count + Cardinality(a)
      BY <1>2, <2>3 DEF Shapes, TypeOK
    <3>2. task[t].count <= Cardinality(DocsOf(k))
      BY <1>2, <1>5, <1>1, <2>3 DEF Counts
    <3>3. Cardinality(DocsOf(k)') = Cardinality(DocsOf(k)) + Cardinality(a)
      BY <1>2
    <3>4. Cardinality(DocsOf(k)) \in Nat
      BY <1>2, <1>4
    <3>5. task[t].count + Cardinality(a) <= Cardinality(DocsOf(k)')
      BY <1>3, <3>2, <3>3, <3>4
    <3> QED  BY <2>3, <3>1, <3>5
  <2> QED  BY <2>2, <2>3
<1>6. ASSUME NEW u \in Task, NEW x \in Kb, x = task'[u].kb, kb[x] # "deleted",
             task'[u].step \in {"plan", "resolve", "loop"}
      PROVE  task'[u].count <= Cardinality(DocsOf(x)')
  <2>1. u # t /\ task'[u] = task[u] /\ task[u].count \in Nat
    BY <1>2, <1>6 DEF Shapes, TypeOK, Coroutine
  <2>2. task[u].count <= Cardinality(DocsOf(task[u].kb))
    BY <2>1, <1>6 DEF Counts
  <2>3. task[u].count <= Cardinality(DocsOf(x))
    BY <2>1, <2>2, <1>6
  <2> QED  BY <2>1, <2>3, <1>4
<1>7. \A u \in Task : task'[u].step \in {"plan", "resolve", "loop"}
                        => task'[u].kb \in Kb
  BY DEF Shapes, TaskShape, CoShape
<1> QED  BY <1>2, <1>5, <1>6, <1>7 DEF Counts, DocsOf

LEMMA OtherCounts ==
  ASSUME Shapes, Counts, Shapes', UNCHANGED <<docs, count, kb>>,
         \A t \in Task : task'[t] = task[t] \/ task'[t] = Idle
  PROVE  Counts'
<1>1. \A t \in Task : task'[t].step \in {"plan", "resolve", "loop"} =>
        /\ task[t].step \in {"plan", "resolve", "loop"}
        /\ task'[t].kb = task[t].kb /\ task'[t].count = task[t].count
  BY DEF Idle
<1>2. IsFiniteSet(docs') /\ \A k \in Kb : DocsOf(k) \subseteq DocsOf(k)'
  BY DEF Counts, DocsOf
<1> QED  BY <1>1, <1>2, CountsKept

LEMMA CommitDeleteCounts ==
  ASSUME Shapes, Counts, Shapes', NEW p \in Thread, CommitDelete(p)
  PROVE  Counts'
<1>1. /\ thread[p].step = "commit" /\ DelShape(thread[p])
      /\ docs' = docs \ thread[p].docs
      /\ kb' = [k \in Kb |-> IF k \in thread[p].rows THEN "deleted" ELSE kb[k]]
      /\ UNCHANGED <<task, count>>
  BY DEF CommitDelete, Deleting, Shapes, ThreadShape
<1>2. \A x \in thread[p].docs : x.kb \in thread[p].rows
  BY <1>1 DEF DelShape
<1>3. IsFiniteSet(docs')
  <2>1. docs' \in SUBSET docs
    BY <1>1
  <2> QED  BY <2>1, FS_Subset DEF Counts
<1>4. \A k \in Kb : kb'[k] # "deleted" =>
        kb[k] # "deleted" /\ DocsOf(k) \subseteq DocsOf(k)'
  <2> SUFFICES ASSUME NEW k \in Kb, kb'[k] # "deleted"
               PROVE  kb[k] # "deleted" /\ DocsOf(k) \subseteq DocsOf(k)'
    OBVIOUS
  <2>1. k \notin thread[p].rows /\ kb[k] # "deleted"
    BY <1>1
  <2> QED  BY <2>1, <1>1, <1>2 DEF DocsOf
<1> QED  BY <1>1, <1>3, <1>4, CountsKept

-----------------------------------------------------------------------------
\* KBs that are deleted in peace.
LEMMA QuietCoroutine ==
  ASSUME Shapes, QuietKbs, Continues, UNCHANGED thread, unclean \subseteq unclean',
         \A k \in Kb : kb'[k] = "deleted" => kb[k] = "deleted",
         \A k \in Kb : ~Ingesting(k) =>
           /\ DocsOf(k)' \subseteq DocsOf(k)
           /\ Of(vectors, k)' \subseteq Of(vectors, k)
           /\ Of(external \cup memory, k)' \subseteq Of(external \cup memory, k)
  PROVE  QuietKbs'
<1> SUFFICES ASSUME NEW k \in Kb, k \notin unclean'
             PROVE
    /\ kb'[k] = "deleted" \/ Purging(k)' => ~Ingesting(k)'
    /\ kb'[k] = "deleted" =>
         /\ DocsOf(k)' = {} /\ Of(vectors, k)' = {}
         /\ Of(external \cup memory, k)' = {}
    /\ \A p \in Thread :
         /\ k \in thread[p].rows
              \/ (thread[p].step \in {"docs", "row"} /\ thread[p].kb = k) =>
              /\ Of(vectors, k)' \subseteq thread[p].vectors
              /\ Of(external \cup memory, k)' = {}
         /\ k \in thread[p].rows \/ (thread[p].step = "row" /\ thread[p].kb = k) =>
              DocsOf(k)' \subseteq thread[p].docs
  BY DEF QuietKbs
<1>1. k \notin unclean
  OBVIOUS
<1>2. Purging(k)' = Purging(k)
  BY DEF Purging
<1>3. kb[k] = "deleted" \/ Purging(k) => ~Ingesting(k)
  BY <1>1 DEF QuietKbs
<1>4. kb[k] = "deleted" \/ Purging(k) => ~Ingesting(k)'
  BY <1>3 DEF Continues, Begins, Ingesting
<1>5. \A p \in Thread :
        k \in thread[p].rows
          \/ (thread[p].step \in {"docs", "row"} /\ thread[p].kb = k) => Purging(k)
  BY DEF Shapes, ThreadShape, DelShape, Purging
<1>6. kb[k] = "deleted" \/ Purging(k) =>
        /\ DocsOf(k)' \subseteq DocsOf(k)
        /\ Of(vectors, k)' \subseteq Of(vectors, k)
        /\ Of(external \cup memory, k)' \subseteq Of(external \cup memory, k)
  BY <1>3
<1>7. kb'[k] = "deleted" =>
         /\ DocsOf(k)' = {} /\ Of(vectors, k)' = {}
         /\ Of(external \cup memory, k)' = {}
  BY <1>1, <1>6 DEF QuietKbs
<1>8. ASSUME NEW p \in Thread
      PROVE
         /\ k \in thread[p].rows
              \/ (thread[p].step \in {"docs", "row"} /\ thread[p].kb = k) =>
              /\ Of(vectors, k)' \subseteq thread[p].vectors
              /\ Of(external \cup memory, k)' = {}
         /\ k \in thread[p].rows \/ (thread[p].step = "row" /\ thread[p].kb = k) =>
              DocsOf(k)' \subseteq thread[p].docs
  BY <1>1, <1>5, <1>6 DEF QuietKbs
<1> QED  BY <1>2, <1>4, <1>7, <1>8

LEMMA CoroutineQuiet ==
  ASSUME Shapes, QuietKbs, NEW t \in Task,
         \/ \E g \in Group : StartCreate(t, g)
         \/ CreateKb(t)
         \/ \E k \in Kb, gens \in SUBSET Gen : StartIngest(t, k, gens)
         \/ \E j \in Job : StartJob(t, j)
         \/ ReadKb(t) \/ Plan(t) \/ Resolve(t) \/ IngestOne(t)
         \/ CommitIngest(t) \/ FailIngest(t) \/ ReportJob(t)
  PROVE  QuietKbs'
<1>1. Continues
  BY CoroutineContinues
<1>2. UNCHANGED thread /\ unclean \subseteq unclean'
  BY DEF StartCreate, CreateKb, StartIngest, Ingest, StartJob, ReadKb, Plan,
         Resolve, IngestOne, CommitIngest, FailIngest, ReportJob
<1>3. \A k \in Kb : kb'[k] = "deleted" => kb[k] = "deleted"
  BY DEF StartCreate, CreateKb, StartIngest, StartJob, ReadKb, Plan, Resolve,
         IngestOne, CommitIngest, FailIngest, ReportJob, tables, Shapes, TypeOK
<1>4. \A k \in Kb : ~Ingesting(k) =>
        /\ DocsOf(k)' \subseteq DocsOf(k)
        /\ Of(vectors, k)' \subseteq Of(vectors, k)
        /\ Of(external \cup memory, k)' \subseteq Of(external \cup memory, k)
  <2>1. CASE IngestOne(t)
    <3>1. PICK g : Upsert(task[t].kb, g) \/ UNCHANGED <<external, memory>>
      BY <2>1, IngestOneStep
    <3>2. /\ external' \subseteq external \cup {<<task[t].kb, g>>}
          /\ memory' \subseteq memory \cup {<<task[t].kb, g>>}
      BY <3>1 DEF Upsert, UpsertRow, UpsertInMemory
    <3>3. task[t].step = "loop" /\ UNCHANGED <<docs, vectors>>
      BY <2>1 DEF IngestOne, At, tables
    <3>4. \A k \in Kb : ~Ingesting(k) => k # task[t].kb
      BY <3>3 DEF Ingesting
    <3> QED  BY <3>2, <3>3, <3>4 DEF Of, DocsOf
  <2>2. CASE CommitIngest(t)
    <3>1. /\ task[t].step = "loop"
          /\ docs' = docs \cup {[kb |-> task[t].kb, gen |-> g, by |-> t] :
                                  g \in task[t].added}
          /\ vectors' \subseteq vectors \cup ({task[t].kb} \X task[t].added)
          /\ UNCHANGED <<external, memory>>
      BY <2>2 DEF CommitIngest, At
    <3>2. \A k \in Kb : ~Ingesting(k) => k # task[t].kb
      BY <3>1 DEF Ingesting
    <3>3. \A d \in docs' : d \in docs \/ d.kb = task[t].kb
      BY <3>1
    <3>4. \A v \in vectors' : v \in vectors \/ v[1] = task[t].kb
      BY <3>1
    <3> QED  BY <3>1, <3>2, <3>3, <3>4 DEF Of, DocsOf
  <2>3. CASE \/ \E g \in Group : StartCreate(t, g)
             \/ CreateKb(t)
             \/ \E k \in Kb, gens \in SUBSET Gen : StartIngest(t, k, gens)
             \/ \E j \in Job : StartJob(t, j)
             \/ ReadKb(t) \/ Plan(t) \/ Resolve(t) \/ FailIngest(t) \/ ReportJob(t)
    <3>1. UNCHANGED <<docs, vectors, external, memory>>
      BY <2>3 DEF StartCreate, CreateKb, StartIngest, StartJob, ReadKb, Plan,
                  Resolve, FailIngest, ReportJob, tables
    <3> QED  BY <3>1 DEF Of, DocsOf
  <2> QED  BY <2>1, <2>2, <2>3
<1> QED  BY <1>1, <1>2, <1>3, <1>4, QuietCoroutine

\* A deletion goes on: what it has taken of a KB is all there is of it, and
\* what it goes to delete has no ingest.
LEMMA DeletionQuiet ==
  ASSUME Shapes, QuietKbs, NEW p \in Thread, NEW d,
         thread' = [thread EXCEPT ![p] = d],
         UNCHANGED <<docs, vectors, kb, task>>, unclean \subseteq unclean',
         \A k \in Kb : Of(external \cup memory, k)' \subseteq Of(external \cup memory, k),
         \A k \in Kb \ unclean' :
           /\ k \in d.todo \cup d.rows => Purging(k) \/ ~Ingesting(k)
           /\ k \in d.rows \/ (d.step \in {"docs", "row"} /\ d.kb = k) =>
                Of(vectors, k) \subseteq d.vectors /\ Of(external \cup memory, k)' = {}
           /\ k \in d.rows \/ (d.step = "row" /\ d.kb = k) => DocsOf(k) \subseteq d.docs
  PROVE  QuietKbs'
<1>1. \A q \in Thread : thread'[q] = IF q = p THEN d ELSE thread[q]
  BY DEF Shapes, TypeOK
<1>2. \A k \in Kb : /\ Ingesting(k)' = Ingesting(k)
                    /\ DocsOf(k)' = DocsOf(k) /\ Of(vectors, k)' = Of(vectors, k)
  BY DEF Ingesting, DocsOf, Of
<1>3. ASSUME NEW k \in Kb, k \notin unclean'
      PROVE  /\ kb'[k] = "deleted" \/ Purging(k)' => ~Ingesting(k)'
             /\ kb'[k] = "deleted" =>
                  /\ DocsOf(k)' = {} /\ Of(vectors, k)' = {}
                  /\ Of(external \cup memory, k)' = {}
  <2>1. k \notin unclean
    BY <1>3
  <2>2. kb[k] = "deleted" \/ Purging(k) => ~Ingesting(k)
    BY <2>1 DEF QuietKbs
  <2>3. kb[k] = "deleted" =>
          DocsOf(k) = {} /\ Of(vectors, k) = {} /\ Of(external \cup memory, k) = {}
    BY <2>1 DEF QuietKbs
  <2>4. Purging(k)' => Purging(k) \/ k \in d.todo \cup d.rows
    BY <1>1 DEF Purging
  <2>5. k \in d.todo \cup d.rows => Purging(k) \/ ~Ingesting(k)
    BY <1>3
  <2>6. /\ Ingesting(k)' = Ingesting(k)
        /\ DocsOf(k)' = DocsOf(k) /\ Of(vectors, k)' = Of(vectors, k)
    BY <1>2
  <2>7. kb'[k] = kb[k]
    OBVIOUS
  <2> QED  BY <2>2, <2>3, <2>4, <2>5, <2>6, <2>7
<1>4. ASSUME NEW k \in Kb, k \notin unclean', NEW q \in Thread
      PROVE
        /\ k \in thread'[q].rows
             \/ (thread'[q].step \in {"docs", "row"} /\ thread'[q].kb = k) =>
             /\ Of(vectors, k)' \subseteq thread'[q].vectors
             /\ Of(external \cup memory, k)' = {}
        /\ k \in thread'[q].rows \/ (thread'[q].step = "row" /\ thread'[q].kb = k) =>
             DocsOf(k)' \subseteq thread'[q].docs
  <2>1. /\ DocsOf(k)' = DocsOf(k) /\ Of(vectors, k)' = Of(vectors, k)
        /\ Of(external \cup memory, k)' \subseteq Of(external \cup memory, k)
    BY <1>2
  <2>2. CASE q = p
    <3>1. thread'[q] = d
      BY <1>1, <2>2
    <3>2. /\ k \in d.rows \/ (d.step \in {"docs", "row"} /\ d.kb = k) =>
               Of(vectors, k) \subseteq d.vectors /\ Of(external \cup memory, k)' = {}
          /\ k \in d.rows \/ (d.step = "row" /\ d.kb = k) => DocsOf(k) \subseteq d.docs
      BY <1>4
    <3> QED  BY <2>1, <3>1, <3>2
  <2>3. CASE q # p
    <3>1. thread'[q] = thread[q]
      BY <1>1, <2>3
    <3>2. k \in Kb \ unclean
      BY <1>4
    <3>3. /\ k \in thread[q].rows
               \/ (thread[q].step \in {"docs", "row"} /\ thread[q].kb = k) =>
               /\ Of(vectors, k) \subseteq thread[q].vectors
               /\ Of(external \cup memory, k) = {}
          /\ k \in thread[q].rows \/ (thread[q].step = "row" /\ thread[q].kb = k) =>
               DocsOf(k) \subseteq thread[q].docs
      BY <3>2, <1>4 DEF QuietKbs
    <3> QED  BY <2>1, <3>1, <3>3
  <2> QED  BY <2>2, <2>3
<1> QED  BY <1>3, <1>4 DEF QuietKbs

\* What a deletion has taken of the KBs whose rows it has taken.
LEMMA Taken ==
  ASSUME QuietKbs, unclean \subseteq unclean', NEW p \in Thread, NEW k \in Kb,
         k \notin unclean'
  PROVE  /\ k \in thread[p].rows
              \/ (thread[p].step \in {"docs", "row"} /\ thread[p].kb = k) =>
              /\ Of(vectors, k) \subseteq thread[p].vectors
              /\ Of(external \cup memory, k) = {}
         /\ k \in thread[p].rows \/ (thread[p].step = "row" /\ thread[p].kb = k) =>
              DocsOf(k) \subseteq thread[p].docs
<1>1. k \in Kb \ unclean
  OBVIOUS
<1> QED  BY <1>1 DEF QuietKbs

LEMMA StartDeleteQuiet ==
  ASSUME Shapes, QuietKbs, NEW p \in Thread,
         \/ \E k \in Kb : StartDeleteKb(p, k)
         \/ \E g \in Group : StartDeleteGroup(p, g)
  PROVE  QuietKbs'
<1>1. PICK g, ks : Delete(p, g, ks)
  BY DEF StartDeleteKb, StartDeleteGroup
<1>2. UNCHANGED <<docs, vectors, kb, task, external, memory>>
  BY DEF StartDeleteKb, StartDeleteGroup, tables
<1>3. PICK d :
        /\ d = [NoDeletion EXCEPT !.step = IF ks = {} THEN "commit" ELSE "purge",
                                  !.group = g, !.todo = ks]
        /\ thread' = [thread EXCEPT ![p] = d]
  BY <1>1 DEF Delete
<1>4. d.todo = ks /\ d.rows = {} /\ d.step \notin {"docs", "row"}
  BY <1>3 DEF NoDeletion
<1>5. unclean' = unclean \cup {k \in ks : Ingesting(k)}
  BY <1>1 DEF Delete
<1>6. \A k \in Kb : Of(external \cup memory, k)' \subseteq Of(external \cup memory, k)
  BY <1>2 DEF Of
<1>7. thread' = [thread EXCEPT ![p] = d]
  BY <1>3
<1> QED  BY <1>2, <1>4, <1>5, <1>6, <1>7, DeletionQuiet

LEMMA DeleteVectorsQuiet ==
  ASSUME Shapes, QuietKbs, NEW p \in Thread, DeleteVectors(p)
  PROVE  QuietKbs'
<1>1. thread \in [Thread -> Deletion] /\ thread[p] \in Deletion
  BY DEF Shapes, TypeOK
<1>2. PICK k0 \in thread[p].todo :
        /\ thread' = [thread EXCEPT ![p].step = "docs", ![p].kb = k0,
                                    ![p].vectors = @ \cup Of(vectors, k0)]
        /\ memory' = memory \ Of(memory, k0)
        /\ \/ external' = external \ Of(external, k0) /\ UNCHANGED unclean
           \/ unclean' = unclean \cup {k0} /\ UNCHANGED external
  BY DEF DeleteVectors, ForgetInMemory
<1>3. thread[p].step = "purge" /\ UNCHANGED <<docs, vectors, kb, task>>
  BY DEF DeleteVectors, ForgetInMemory, Deleting, tables
<1>4. PICK d : d = [thread[p] EXCEPT !.step = "docs", !.kb = k0,
                                     !.vectors = @ \cup Of(vectors, k0)]
  OBVIOUS
<1>5. /\ d.step = "docs" /\ d.kb = k0 /\ d.todo = thread[p].todo
      /\ d.docs = thread[p].docs /\ d.rows = thread[p].rows
      /\ d.vectors = thread[p].vectors \cup Of(vectors, k0)
  BY <1>1, <1>4 DEF Deletion
<1>6. thread' = [thread EXCEPT ![p] = d]
  BY <1>1, <1>2, <1>4
<1>7. unclean \subseteq unclean'
  BY <1>2
<1>8. \A k \in Kb : Of(external \cup memory, k)' \subseteq Of(external \cup memory, k)
  BY <1>2 DEF Of
<1>9. k0 \notin unclean' => Of(external \cup memory, k0)' = {}
  BY <1>2 DEF Of
<1>10. ASSUME NEW k \in Kb, k \notin unclean'
       PROVE
         /\ k \in d.todo \cup d.rows => Purging(k) \/ ~Ingesting(k)
         /\ k \in d.rows \/ (d.step \in {"docs", "row"} /\ d.kb = k) =>
              Of(vectors, k) \subseteq d.vectors /\ Of(external \cup memory, k)' = {}
         /\ k \in d.rows \/ (d.step = "row" /\ d.kb = k) => DocsOf(k) \subseteq d.docs
  <2>1. k \in d.todo \cup d.rows => Purging(k)
    BY <1>5 DEF Purging
  <2>2. k \in thread[p].rows =>
          /\ Of(vectors, k) \subseteq thread[p].vectors
          /\ Of(external \cup memory, k) = {} /\ DocsOf(k) \subseteq thread[p].docs
    BY <1>7, <1>10, Taken
  <2> QED  BY <1>5, <1>8, <1>9, <1>10, <2>1, <2>2
<1> QED  BY <1>3, <1>6, <1>7, <1>8, <1>10, DeletionQuiet

LEMMA DeleteDocsQuiet ==
  ASSUME Shapes, QuietKbs, NEW p \in Thread, DeleteDocs(p)
  PROVE  QuietKbs'
<1>1. thread \in [Thread -> Deletion] /\ thread[p] \in Deletion
  BY DEF Shapes, TypeOK
<1>2. /\ thread[p].step = "docs"
      /\ UNCHANGED <<docs, vectors, kb, task, external, memory,
                     unclean, excess>>
  BY DEF DeleteDocs, Deleting, tables
<1>3. PICK d : d = [thread[p] EXCEPT !.step = "row",
                      !.docs = @ \cup {x \in docs : x.kb = thread[p].kb}]
  OBVIOUS
<1>4. /\ d.step = "row" /\ d.kb = thread[p].kb /\ d.todo = thread[p].todo
      /\ d.docs = thread[p].docs \cup DocsOf(thread[p].kb)
      /\ d.rows = thread[p].rows /\ d.vectors = thread[p].vectors
  BY <1>1, <1>3 DEF Deletion, DocsOf
<1>5. thread' = [thread EXCEPT ![p] = d]
  BY <1>1, <1>3 DEF DeleteDocs
<1>6. \A k \in Kb : Of(external \cup memory, k)' = Of(external \cup memory, k)
  BY <1>2 DEF Of
<1>7. ASSUME NEW k \in Kb, k \notin unclean'
      PROVE
        /\ k \in d.todo \cup d.rows => Purging(k) \/ ~Ingesting(k)
        /\ k \in d.rows \/ (d.step \in {"docs", "row"} /\ d.kb = k) =>
             Of(vectors, k) \subseteq d.vectors /\ Of(external \cup memory, k)' = {}
        /\ k \in d.rows \/ (d.step = "row" /\ d.kb = k) => DocsOf(k) \subseteq d.docs
  <2>1. k \in d.todo \cup d.rows => Purging(k)
    BY <1>4 DEF Purging
  <2>2. /\ k \in thread[p].rows \/ thread[p].kb = k =>
             /\ Of(vectors, k) \subseteq thread[p].vectors
             /\ Of(external \cup memory, k) = {}
        /\ k \in thread[p].rows => DocsOf(k) \subseteq thread[p].docs
    BY <1>2, <1>7, Taken
  <2> QED  BY <1>4, <1>6, <2>1, <2>2
<1> QED  BY <1>2, <1>5, <1>6, <1>7, DeletionQuiet

LEMMA DeleteRowQuiet ==
  ASSUME Shapes, QuietKbs, NEW p \in Thread, DeleteRow(p)
  PROVE  QuietKbs'
<1>1. thread \in [Thread -> Deletion] /\ thread[p] \in Deletion
  BY DEF Shapes, TypeOK
<1>2. /\ thread[p].step = "row" /\ thread[p].kb \in thread[p].todo
      /\ UNCHANGED <<docs, vectors, kb, task, external, memory,
                     unclean, excess>>
  BY DEF DeleteRow, Deleting, tables, Shapes, ThreadShape, DelShape
<1>3. PICK d, s :
        /\ d = [thread[p] EXCEPT !.step = s, !.todo = @ \ {thread[p].kb},
                                 !.rows = @ \cup {thread[p].kb}]
        /\ s = IF thread[p].todo = {thread[p].kb} THEN "commit" ELSE "purge"
  OBVIOUS
<1>4. /\ d.step \in {"commit", "purge"} /\ d.todo = thread[p].todo \ {thread[p].kb}
      /\ d.docs = thread[p].docs /\ d.vectors = thread[p].vectors
      /\ d.rows = thread[p].rows \cup {thread[p].kb}
  BY <1>1, <1>3 DEF Deletion
<1>5. thread' = [thread EXCEPT ![p] = d]
  BY <1>1, <1>3 DEF DeleteRow
<1>6. \A k \in Kb : Of(external \cup memory, k)' = Of(external \cup memory, k)
  BY <1>2 DEF Of
<1>7. ASSUME NEW k \in Kb, k \notin unclean'
      PROVE
        /\ k \in d.todo \cup d.rows => Purging(k) \/ ~Ingesting(k)
        /\ k \in d.rows \/ (d.step \in {"docs", "row"} /\ d.kb = k) =>
             Of(vectors, k) \subseteq d.vectors /\ Of(external \cup memory, k)' = {}
        /\ k \in d.rows \/ (d.step = "row" /\ d.kb = k) => DocsOf(k) \subseteq d.docs
  <2>1. k \in d.todo \cup d.rows => Purging(k)
    BY <1>2, <1>4 DEF Purging
  <2>2. k \in thread[p].rows \/ thread[p].kb = k =>
          /\ Of(vectors, k) \subseteq thread[p].vectors
          /\ Of(external \cup memory, k) = {} /\ DocsOf(k) \subseteq thread[p].docs
    BY <1>2, <1>7, Taken
  <2> QED  BY <1>4, <1>6, <2>1, <2>2
<1> QED  BY <1>2, <1>5, <1>6, <1>7, DeletionQuiet

\* It takes all there is of its KBs, and of these alone.
LEMMA CommitDeleteQuiet ==
  ASSUME Shapes, QuietKbs, NEW p \in Thread, CommitDelete(p)
  PROVE  QuietKbs'
<1>1. /\ thread[p].step = "commit"
      /\ thread' = [thread EXCEPT ![p] = NoDeletion]
      /\ vectors' = vectors \ thread[p].vectors /\ docs' = docs \ thread[p].docs
      /\ kb' = [k \in Kb |-> IF k \in thread[p].rows THEN "deleted" ELSE kb[k]]
      /\ UNCHANGED <<task, external, memory, unclean, excess>>
  BY DEF CommitDelete, Deleting
<1>2. /\ \A q \in Thread : q # p => thread'[q] = thread[q]
      /\ thread'[p].todo = {} /\ thread'[p].rows = {} /\ thread'[p].step = "idle"
  BY <1>1 DEF Shapes, TypeOK, NoDeletion
<1>3. \A k \in Kb : /\ Purging(k)' => Purging(k)
                    /\ Ingesting(k)' = Ingesting(k)
                    /\ DocsOf(k)' = DocsOf(k) \ thread[p].docs
                    /\ Of(vectors, k)' = Of(vectors, k) \ thread[p].vectors
                    /\ Of(external \cup memory, k)' = Of(external \cup memory, k)
  BY <1>1, <1>2 DEF Purging, Ingesting, DocsOf, Of
<1>4. ASSUME NEW k \in Kb, k \notin unclean'
      PROVE  /\ kb'[k] = "deleted" \/ Purging(k)' => ~Ingesting(k)'
             /\ kb'[k] = "deleted" =>
                  /\ DocsOf(k)' = {} /\ Of(vectors, k)' = {}
                  /\ Of(external \cup memory, k)' = {}
  <2>1. k \in Kb \ unclean
    BY <1>1, <1>4
  <2>2. kb[k] = "deleted" \/ Purging(k) => ~Ingesting(k)
    BY <2>1 DEF QuietKbs
  <2>3. kb[k] = "deleted" =>
          DocsOf(k) = {} /\ Of(vectors, k) = {} /\ Of(external \cup memory, k) = {}
    BY <2>1 DEF QuietKbs
  <2>4. k \in thread[p].rows =>
          /\ Purging(k) /\ Of(vectors, k) \subseteq thread[p].vectors
          /\ Of(external \cup memory, k) = {} /\ DocsOf(k) \subseteq thread[p].docs
    BY <2>1 DEF QuietKbs, Purging
  <2>5. kb'[k] = "deleted" => kb[k] = "deleted" \/ k \in thread[p].rows
    BY <1>1
  <2>6. /\ Purging(k)' => Purging(k)
        /\ Ingesting(k)' = Ingesting(k)
        /\ DocsOf(k)' = DocsOf(k) \ thread[p].docs
        /\ Of(vectors, k)' = Of(vectors, k) \ thread[p].vectors
        /\ Of(external \cup memory, k)' = Of(external \cup memory, k)
    BY <1>3
  <2> QED  BY <2>2, <2>3, <2>4, <2>5, <2>6
<1>5. ASSUME NEW k \in Kb, k \notin unclean', NEW q \in Thread
      PROVE
        /\ k \in thread'[q].rows
             \/ (thread'[q].step \in {"docs", "row"} /\ thread'[q].kb = k) =>
             /\ Of(vectors, k)' \subseteq thread'[q].vectors
             /\ Of(external \cup memory, k)' = {}
        /\ k \in thread'[q].rows \/ (thread'[q].step = "row" /\ thread'[q].kb = k) =>
             DocsOf(k)' \subseteq thread'[q].docs
  <2>1. CASE q = p
    BY <2>1, <1>2
  <2>2. CASE q # p
    <3>1. thread'[q] = thread[q]
      BY <1>2, <2>2
    <3>2. /\ k \in thread[q].rows
               \/ (thread[q].step \in {"docs", "row"} /\ thread[q].kb = k) =>
               /\ Of(vectors, k) \subseteq thread[q].vectors
               /\ Of(external \cup memory, k) = {}
          /\ k \in thread[q].rows \/ (thread[q].step = "row" /\ thread[q].kb = k) =>
               DocsOf(k) \subseteq thread[q].docs
      BY <1>1, <1>5, Taken
    <3>3. /\ DocsOf(k)' \subseteq DocsOf(k) /\ Of(vectors, k)' \subseteq Of(vectors, k)
          /\ Of(external \cup memory, k)' = Of(external \cup memory, k)
      BY <1>3
    <3> QED  BY <3>1, <3>2, <3>3
  <2> QED  BY <2>1, <2>2
<1> QED  BY <1>4, <1>5 DEF QuietKbs

-----------------------------------------------------------------------------
\* The whole.
LEMMA MovesCatalogue ==
  ASSUME Shapes, Catalogue, NEW t \in Task,
         \/ \E g \in Group : StartCreate(t, g)
         \/ \E k \in Kb, gens \in SUBSET Gen : StartIngest(t, k, gens)
         \/ \E j \in Job : StartJob(t, j)
         \/ ReadKb(t) \/ FailIngest(t) \/ ReportJob(t)
  PROVE  Catalogue'
<1>1. PICK q : task' = [task EXCEPT ![t] = q] /\ Begins(q)
  BY CoroutineMoves
<1>2. UNCHANGED <<docs, vectors, kb, thread>>
  BY DEF StartCreate, StartIngest, StartJob, ReadKb, FailIngest, ReportJob, tables
<1>3. q.step # "loop"
  BY <1>1 DEF Begins
<1> QED  BY <1>1, <1>2, <1>3, CatalogueGoes

LEMMA CoroutineIInv ==
  ASSUME IInv, Shapes', Coroutines
  PROVE  IInv'
<1>1. PICK t \in Task :
        \/ \E g \in Group : StartCreate(t, g)
        \/ CreateKb(t)
        \/ \E k \in Kb, gens \in SUBSET Gen : StartIngest(t, k, gens)
        \/ \E j \in Job : StartJob(t, j)
        \/ ReadKb(t) \/ Plan(t) \/ Resolve(t) \/ IngestOne(t)
        \/ CommitIngest(t) \/ FailIngest(t) \/ ReportJob(t)
  BY DEF Coroutines
<1>2. Shapes /\ Catalogue /\ Counts /\ QuietKbs
  BY DEF IInv
<1>3. QuietKbs'
  BY <1>1, <1>2, CoroutineQuiet
<1>4. Catalogue'
  BY <1>1, <1>2, MovesCatalogue, CreateKbCatalogue, IngestCatalogue,
     CommitIngestCatalogue
<1>5. Counts'
  <2>1. CASE CommitIngest(t)
    BY <2>1, <1>2, CommitIngestCounts
  <2>2. CASE ~CommitIngest(t)
    <3>1. UNCHANGED <<docs, count>>
      BY <1>1, <2>2 DEF StartCreate, CreateKb, StartIngest, StartJob, ReadKb, Plan,
         Resolve, IngestOne, FailIngest, ReportJob, tables
    <3>2. \A k \in Kb : kb'[k] # "deleted" => kb[k] # "deleted"
      BY <1>1, <1>2, <2>2 DEF StartCreate, CreateKb, StartIngest, StartJob, ReadKb,
         Plan, Resolve, IngestOne, FailIngest, ReportJob, tables, Shapes, TypeOK
    <3>3. Continues
      BY <1>1, <1>2, CoroutineContinues
    <3> QED  BY <1>2, <3>1, <3>2, <3>3, CoroutineCounts
  <2> QED  BY <2>1, <2>2
<1> QED  BY <1>3, <1>4, <1>5 DEF IInv

LEMMA DeletionIInv ==
  ASSUME IInv, Shapes', Deletions
  PROVE  IInv'
<1>1. PICK p \in Thread :
        \/ \E k \in Kb : StartDeleteKb(p, k)
        \/ \E g \in Group : StartDeleteGroup(p, g)
        \/ DeleteVectors(p) \/ DeleteDocs(p) \/ DeleteRow(p) \/ CommitDelete(p)
  BY DEF Deletions
<1>2. Shapes /\ Catalogue /\ Counts /\ QuietKbs
  BY DEF IInv
<1>3. QuietKbs'
  BY <1>1, <1>2, StartDeleteQuiet, DeleteVectorsQuiet, DeleteDocsQuiet,
     DeleteRowQuiet, CommitDeleteQuiet
<1>4. Catalogue'
  BY <1>1, <1>2, DeletesCatalogue, CommitDeleteCatalogue
<1>5. Counts'
  <2>1. CASE CommitDelete(p)
    BY <2>1, <1>2, CommitDeleteCounts
  <2>2. CASE ~CommitDelete(p)
    <3>1. UNCHANGED <<docs, count, kb, task>>
      BY <1>1, <2>2 DEF StartDeleteKb, StartDeleteGroup, DeleteVectors, ForgetInMemory, DeleteDocs,
         DeleteRow, tables
    <3> QED  BY <1>2, <3>1, OtherCounts
  <2> QED  BY <2>1, <2>2
<1> QED  BY <1>3, <1>4, <1>5 DEF IInv

\* Coroutines and threads stay or are gone, rows stay.
LEMMA OtherIInv ==
  ASSUME IInv, Shapes', UNCHANGED <<docs, count, kb, vectors, external, unclean>>,
         memory' \subseteq memory,
         \A t \in Task : task'[t] = task[t] \/ task'[t] = Idle,
         \A p \in Thread : thread'[p] = thread[p] \/ thread'[p] = NoDeletion
  PROVE  IInv'
<1>1. Shapes /\ Catalogue /\ Counts /\ QuietKbs
  BY DEF IInv
<1>2. Counts'
  BY <1>1, OtherCounts
<1>3. NoDuplicateDocs' /\ SqlDocHasVector'
  BY <1>1 DEF Catalogue, NoDuplicateDocs, SqlDocHasVector
<1>4. AddedIsNew'
  BY <1>1 DEF Catalogue, AddedIsNew, Idle
<1>5. VectorsHaveDocs'
  BY <1>1 DEF Catalogue, VectorsHaveDocs, HasDoc, NoDeletion
<1>6. TakenTogether'
  BY <1>1 DEF Catalogue, TakenTogether, NoDeletion
<1>7. QuietKbs'
  <2>1. \A k \in Kb : /\ Purging(k)' => Purging(k)
                      /\ Ingesting(k)' => Ingesting(k)
                      /\ DocsOf(k)' = DocsOf(k) /\ Of(vectors, k)' = Of(vectors, k)
                      /\ Of(external \cup memory, k)'
                           \subseteq Of(external \cup memory, k)
    <3>1. \A k \in Kb : Purging(k)' => Purging(k)
      BY DEF Purging, NoDeletion
    <3>2. \A k \in Kb : Ingesting(k)' => Ingesting(k)
      BY DEF Ingesting, Idle
    <3> QED  BY <3>1, <3>2 DEF DocsOf, Of
  <2>2. ASSUME NEW k \in Kb, k \notin unclean'
        PROVE  /\ kb'[k] = "deleted" \/ Purging(k)' => ~Ingesting(k)'
               /\ kb'[k] = "deleted" =>
                    /\ DocsOf(k)' = {} /\ Of(vectors, k)' = {}
                    /\ Of(external \cup memory, k)' = {}
    <3>1. k \in Kb \ unclean /\ kb'[k] = kb[k]
      BY <2>2
    <3>2. kb[k] = "deleted" \/ Purging(k) => ~Ingesting(k)
      BY <1>1, <3>1 DEF QuietKbs
    <3>3. kb[k] = "deleted" =>
            DocsOf(k) = {} /\ Of(vectors, k) = {} /\ Of(external \cup memory, k) = {}
      BY <1>1, <3>1 DEF QuietKbs
    <3>4. /\ Purging(k)' => Purging(k)
          /\ Ingesting(k)' => Ingesting(k)
          /\ DocsOf(k)' = DocsOf(k) /\ Of(vectors, k)' = Of(vectors, k)
          /\ Of(external \cup memory, k)' \subseteq Of(external \cup memory, k)
      BY <2>1
    <3> QED  BY <3>1, <3>2, <3>3, <3>4
  <2>3. ASSUME NEW k \in Kb, k \notin unclean', NEW q \in Thread
        PROVE
          /\ k \in thread'[q].rows
               \/ (thread'[q].step \in {"docs", "row"} /\ thread'[q].kb = k) =>
               /\ Of(vectors, k)' \subseteq thread'[q].vectors
               /\ Of(external \cup memory, k)' = {}
          /\ k \in thread'[q].rows \/ (thread'[q].step = "row" /\ thread'[q].kb = k) =>
               DocsOf(k)' \subseteq thread'[q].docs
    <3>1. CASE thread'[q] = NoDeletion
      BY <3>1 DEF NoDeletion
    <3>2. CASE thread'[q] = thread[q]
      <4>1. /\ k \in thread[q].rows
                 \/ (thread[q].step \in {"docs", "row"} /\ thread[q].kb = k) =>
                 /\ Of(vectors, k) \subseteq thread[q].vectors
                 /\ Of(external \cup memory, k) = {}
            /\ k \in thread[q].rows \/ (thread[q].step = "row" /\ thread[q].kb = k) =>
                 DocsOf(k) \subseteq thread[q].docs
        BY <1>1, <2>3, Taken
      <4>2. /\ DocsOf(k)' = DocsOf(k) /\ Of(vectors, k)' = Of(vectors, k)
            /\ Of(external \cup memory, k)' \subseteq Of(external \cup memory, k)
        BY <2>1
      <4> QED  BY <3>2, <4>1, <4>2
    <3> QED  BY <3>1, <3>2
  <2> QED  BY <2>2, <2>3 DEF QuietKbs
<1> QED  BY <1>2, <1>3, <1>4, <1>5, <1>6, <1>7 DEF IInv, Catalogue

LEMMA InitIInv == Init => IInv
<1> SUFFICES ASSUME Init PROVE IInv
  OBVIOUS
<1>1. Shapes
  BY InitShapes
<1>2. /\ docs = {} /\ vectors = {} /\ external = {} /\ memory = {}
      /\ kb = [k \in Kb |-> "new"] /\ count = [k \in Kb |-> 0]
      /\ task = [t \in Task |-> Idle] /\ thread = [p \in Thread |-> NoDeletion]
  BY DEF Init
<1>3. Catalogue
  BY <1>2 DEF Catalogue, NoDuplicateDocs, SqlDocHasVector, AddedIsNew,
     VectorsHaveDocs, HasDoc, TakenTogether, Idle, NoDeletion
<1>4. Counts
  <2>1. \A k : DocsOf(k) = {}
    BY <1>2 DEF DocsOf
  <2>2. Cardinality({}) = 0 /\ IsFiniteSet({})
    BY FS_EmptySet
  <2>3. \A k : Cardinality(DocsOf(k)) = 0
    BY <2>1, <2>2
  <2>4. \A k \in Kb : count[k] <= Cardinality(DocsOf(k))
    BY <1>2, <2>3
  <2>5. \A t \in Task : task[t].step = "idle"
    BY <1>2 DEF Idle
  <2> QED  BY <1>2, <2>2, <2>4, <2>5 DEF Counts
<1>5. QuietKbs
  BY <1>2 DEF QuietKbs, Ingesting, Idle, NoDeletion
<1> QED  BY <1>1, <1>3, <1>4, <1>5 DEF IInv

LEMMA NextIInv == IInv /\ [Next]_vars => IInv'
<1> SUFFICES ASSUME IInv, [Next]_vars PROVE IInv'
  OBVIOUS
<1>1. Shapes'
  BY NextShapes DEF IInv
<1>2. CASE Coroutines
  BY <1>1, <1>2, CoroutineIInv
<1>3. CASE Deletions
  BY <1>1, <1>3, DeletionIInv
<1>4. CASE \/ \E g \in Group : CreateGroup(g)
           \/ \E j \in Job, k \in Kb, gens \in SUBSET Gen : CreateJob(j, k, gens)
           \/ UNCHANGED vars
  <2>1. UNCHANGED <<docs, count, kb, vectors, external, unclean, memory, task, thread>>
    BY <1>4 DEF CreateGroup, CreateJob, vars, tables
  <2> QED  BY <1>1, <2>1, OtherIInv
<1>5. CASE Restart
  <2>1. /\ UNCHANGED <<docs, count, kb, vectors, external, unclean>>
        /\ memory' \subseteq memory
        /\ \A t \in Task : task'[t] = Idle
        /\ \A p \in Thread : thread'[p] = NoDeletion
    BY <1>5 DEF Restart, tables
  <2> QED  BY <1>1, <2>1, OtherIInv
<1> QED  BY <1>2, <1>3, <1>4, <1>5 DEF Next

\* The invariant of the proofs: whatever runs at the same time and whatever
\* fails.
THEOREM Invariance == Spec => []IInv
BY InitIInv, NextIInv, PTL DEF Spec

\* A generation is in a KB at most once (KbFacade.ingest).
THEOREM NoDuplicates == Spec => []NoDuplicateDocs
<1>1. IInv => NoDuplicateDocs
  BY DEF IInv, Catalogue
<1> QED  BY <1>1, Invariance, PTL

\* A catalogued document of a pgvector KB has its vector, whatever deletes.
THEOREM DocsHaveVectors == Spec => []SqlDocHasVector
<1>1. IInv => SqlDocHasVector
  BY DEF IInv, Catalogue
<1> QED  BY <1>1, Invariance, PTL

\* doc_count never counts a document that is not there.
THEOREM Overcounts == Spec => []NeverOvercounts
<1>1. IInv => NeverOvercounts
  BY DEF IInv, Counts, NeverOvercounts, LiveKbs
<1> QED  BY <1>1, Invariance, PTL

\* A KB that was deleted in peace leaves nothing in any store.
THEOREM QuietDeletes == Spec => []QuietDeleteLeavesNothing
<1>1. ASSUME QuietKbs PROVE QuietDeleteLeavesNothing
  <2> SUFFICES ASSUME NEW k \in Kb \ unclean, kb[k] = "deleted"
               PROVE  DocsOf(k) = {} /\ Of(vectors \cup external \cup memory, k) = {}
    BY DEF QuietDeleteLeavesNothing
  <2>1. DocsOf(k) = {} /\ Of(vectors, k) = {} /\ Of(external \cup memory, k) = {}
    BY <1>1 DEF QuietKbs
  <2> QED  BY <2>1 DEF Of
<1>2. IInv => QuietDeleteLeavesNothing
  BY <1>1 DEF IInv
<1> QED  BY <1>2, Invariance, PTL

-----------------------------------------------------------------------------
\* The count.  It is wrong only of a KB whose count an ingest has set from one
\* that was no longer there.

ExactCounts ==
  \A k \in Kb : kb[k] # "deleted" /\ overwrites[k] = 0
    => count[k] = Cardinality(DocsOf(k))

LEMMA CommitIngestExact ==
  ASSUME Shapes, Counts, Catalogue, ExactCounts, NEW t \in Task, CommitIngest(t)
  PROVE  ExactCounts'
<1>1. PICK k, a : k = task[t].kb /\ a = task[t].added
  OBVIOUS
<1>2. /\ k \in Kb /\ a \in SUBSET Gen
      /\ count' = IF a = {} THEN count
                  ELSE [count EXCEPT ![k] = task[t].count + Cardinality(a)]
      /\ Cardinality(DocsOf(k)') = Cardinality(DocsOf(k)) + Cardinality(a)
      /\ \A x \in Kb \ {k} : DocsOf(x)' = DocsOf(x)
      /\ overwrites' = IF a = {} \/ task[t].count = count[k] THEN overwrites
                       ELSE [overwrites EXCEPT ![k] = @ + 1]
      /\ UNCHANGED kb
  BY <1>1, CommitIngestAdds
<1>3. overwrites \in [Kb -> Nat] /\ count \in [Kb -> Nat]
  BY DEF Shapes, TypeOK
<1>4. ASSUME NEW x \in Kb, kb[x] # "deleted", overwrites'[x] = 0
      PROVE  count'[x] = Cardinality(DocsOf(x)')
  <2>1. CASE x # k
    <3>1. count'[x] = count[x] /\ overwrites'[x] = overwrites[x]
      BY <1>2, <1>3, <2>1
    <3>2. DocsOf(x)' = DocsOf(x)
      BY <1>2, <2>1
    <3> QED  BY <3>1, <3>2, <1>4 DEF ExactCounts
  <2>2. CASE x = k /\ a = {}
    <3>1. Cardinality({}) = 0 /\ Cardinality(DocsOf(k)) \in Nat
      BY FS_EmptySet, DocsFinite
    <3>2. /\ count' = count /\ overwrites' = overwrites
          /\ Cardinality(DocsOf(k)') = Cardinality(DocsOf(k))
      BY <1>2, <2>2, <3>1
    <3> QED  BY <2>2, <3>2, <1>4 DEF ExactCounts
  <2>3. CASE x = k /\ a # {}
    <3>1. task[t].count = count[k] /\ overwrites[k] = 0
      BY <1>2, <1>3, <1>4, <2>3
    <3>2. count'[k] = task[t].count + Cardinality(a)
      BY <1>2, <1>3, <2>3
    <3>3. count[k] = Cardinality(DocsOf(k))
      BY <1>4, <2>3, <3>1 DEF ExactCounts
    <3> QED  BY <1>2, <2>3, <3>1, <3>2, <3>3
  <2> QED  BY <2>1, <2>2, <2>3
<1> QED  BY <1>2, <1>4 DEF ExactCounts, DocsOf

\* A deletion takes only documents of KBs that are gone with it.
LEMMA CommitDeleteDocs ==
  ASSUME Shapes, NEW p \in Thread, CommitDelete(p), NEW k \in Kb,
         kb'[k] # "deleted"
  PROVE  kb[k] # "deleted" /\ DocsOf(k)' = DocsOf(k)
<1>1. /\ thread[p].step = "commit" /\ DelShape(thread[p])
      /\ docs' = docs \ thread[p].docs
      /\ kb' = [x \in Kb |-> IF x \in thread[p].rows THEN "deleted" ELSE kb[x]]
  BY DEF CommitDelete, Deleting, Shapes, ThreadShape
<1>2. \A x \in thread[p].docs : x.kb \in thread[p].rows
  BY <1>1 DEF DelShape
<1>3. k \notin thread[p].rows /\ kb[k] # "deleted"
  BY <1>1
<1> QED  BY <1>1, <1>2, <1>3 DEF DocsOf

\* A deletion leaves the coroutines, and before its commit the tables, alone.
LEMMA DeletionKeeps ==
  ASSUME NEW p \in Thread,
         \/ \E k \in Kb : StartDeleteKb(p, k)
         \/ \E g \in Group : StartDeleteGroup(p, g)
         \/ DeleteVectors(p) \/ DeleteDocs(p) \/ DeleteRow(p) \/ CommitDelete(p)
  PROVE  /\ UNCHANGED <<task, excess>>
         /\ ~CommitDelete(p) => UNCHANGED <<docs, count, kb>>
<1>1. CASE \E k \in Kb : StartDeleteKb(p, k)
  <2>1. PICK k \in Kb : StartDeleteKb(p, k)
    BY <1>1
  <2> QED  BY <2>1 DEF StartDeleteKb, tables
<1>2. CASE \E g \in Group : StartDeleteGroup(p, g)
  <2>1. PICK g \in Group : StartDeleteGroup(p, g)
    BY <1>2
  <2> QED  BY <2>1 DEF StartDeleteGroup, tables
<1>3. CASE DeleteVectors(p)
  <2>1. UNCHANGED <<tables, background, task, holder, excess>>
    BY <1>3, Zenon DEF DeleteVectors, ForgetInMemory
  <2> QED  BY <2>1 DEF tables
<1>4. CASE DeleteDocs(p)
  BY <1>4 DEF DeleteDocs, tables
<1>5. CASE DeleteRow(p)
  <2>1. UNCHANGED <<tables, external, memory, background, task, holder,
                    unclean, excess>>
    BY <1>5, Zenon DEF DeleteRow
  <2> QED  BY <2>1 DEF tables
<1>6. CASE CommitDelete(p)
  BY <1>6 DEF CommitDelete
<1> QED  BY <1>1, <1>2, <1>3, <1>4, <1>5, <1>6

\* Apart from the end of an ingest, documents only go with their KB.
LEMMA DocsStay ==
  ASSUME Shapes, [Next]_vars, \A t \in Task : ~CommitIngest(t)
  PROVE  /\ UNCHANGED <<count, excess>>
         /\ \A k \in Kb : kb'[k] # "deleted" =>
              kb[k] # "deleted" /\ DocsOf(k)' = DocsOf(k)
<1>1. ASSUME UNCHANGED <<docs, count, excess>>,
             \A k \in Kb : kb'[k] # "deleted" => kb[k] # "deleted"
      PROVE  /\ UNCHANGED <<count, excess>>
             /\ \A k \in Kb : kb'[k] # "deleted" =>
                  kb[k] # "deleted" /\ DocsOf(k)' = DocsOf(k)
  BY <1>1 DEF DocsOf
<1>2. ASSUME NEW t \in Task,
             \/ \E g \in Group : StartCreate(t, g)
             \/ CreateKb(t)
             \/ \E k \in Kb, gens \in SUBSET Gen : StartIngest(t, k, gens)
             \/ \E j \in Job : StartJob(t, j)
             \/ ReadKb(t) \/ Plan(t) \/ Resolve(t) \/ IngestOne(t)
             \/ FailIngest(t) \/ ReportJob(t)
      PROVE  /\ UNCHANGED <<docs, count, excess>>
             /\ \A k \in Kb : kb'[k] # "deleted" => kb[k] # "deleted"
  <2>1. CASE \/ \E g \in Group : StartCreate(t, g)
             \/ \E k \in Kb, gens \in SUBSET Gen : StartIngest(t, k, gens)
             \/ \E j \in Job : StartJob(t, j)
    <3>1. ASSUME NEW g \in Group, StartCreate(t, g)
          PROVE  UNCHANGED <<docs, count, kb, excess>>
      BY <3>1 DEF StartCreate, tables
    <3>2. ASSUME NEW k \in Kb, NEW gens \in SUBSET Gen, StartIngest(t, k, gens)
          PROVE  UNCHANGED <<docs, count, kb, excess>>
      BY <3>2 DEF StartIngest, tables
    <3>3. ASSUME NEW j \in Job, StartJob(t, j)
          PROVE  UNCHANGED <<docs, count, kb, excess>>
      BY <3>3 DEF StartJob
    <3> QED  BY <2>1, <3>1, <3>2, <3>3
  <2>2. CASE CreateKb(t)
    <3>1. UNCHANGED <<docs, count, excess>>
      BY <2>2 DEF CreateKb
    <3>2. \/ UNCHANGED kb
          \/ \E k \in Kb : kb[k] = "new" /\ kb' = [kb EXCEPT ![k] = "live"]
      BY <2>2 DEF CreateKb
    <3>3. kb \in [Kb -> Life]
      BY DEF Shapes, TypeOK
    <3> QED  BY <3>1, <3>2, <3>3
  <2>3. CASE ReadKb(t)
    BY <2>3 DEF ReadKb
  <2>4. CASE Plan(t) \/ FailIngest(t)
    BY <2>4 DEF Plan, FailIngest, tables
  <2>5. CASE Resolve(t)
    BY <2>5 DEF Resolve, tables
  <2>6. CASE IngestOne(t)
    BY <2>6 DEF IngestOne, tables
  <2>7. CASE ReportJob(t)
    BY <2>7 DEF ReportJob
  <2> QED  BY <1>2, <2>1, <2>2, <2>3, <2>4, <2>5, <2>6, <2>7
<1>3. CASE Coroutines
  BY <1>1, <1>2, <1>3 DEF Coroutines
<1>4. CASE Deletions
  <2>1. PICK p \in Thread :
          \/ \E k \in Kb : StartDeleteKb(p, k)
          \/ \E g \in Group : StartDeleteGroup(p, g)
          \/ DeleteVectors(p) \/ DeleteDocs(p) \/ DeleteRow(p) \/ CommitDelete(p)
    BY <1>4 DEF Deletions
  <2>2. CASE CommitDelete(p)
    BY <2>2, CommitDeleteDocs DEF CommitDelete
  <2>3. CASE ~CommitDelete(p)
    <3>1. UNCHANGED <<docs, count, kb, excess>>
      BY <2>1, <2>3, DeletionKeeps
    <3> QED  BY <1>1, <3>1
  <2> QED  BY <2>2, <2>3
<1>5. CASE \/ \E g \in Group : CreateGroup(g)
           \/ \E j \in Job, k \in Kb, gens \in SUBSET Gen : CreateJob(j, k, gens)
           \/ Restart \/ UNCHANGED vars
  <2>1. UNCHANGED <<docs, count, kb, excess>>
    BY <1>5 DEF CreateGroup, CreateJob, Restart, vars, tables
  <2> QED  BY <1>1, <2>1
<1> QED  BY <1>3, <1>4, <1>5 DEF Next

LEMMA ExactNext ==
  ASSUME IInv, ExactCounts, [Next]_vars
  PROVE  ExactCounts'
<1>1. ASSUME NEW t \in Task, CommitIngest(t)
      PROVE  ExactCounts'
  BY <1>1, CommitIngestExact DEF IInv
<1>2. CASE \A t \in Task : ~CommitIngest(t)
  <2>1. ASSUME NEW k \in Kb, kb'[k] # "deleted", overwrites'[k] = 0
        PROVE  count'[k] = Cardinality(DocsOf(k)')
    <3>1. /\ kb[k] # "deleted" /\ DocsOf(k)' = DocsOf(k)
          /\ UNCHANGED <<count, excess>>
      BY <1>2, <2>1, DocsStay DEF IInv
    <3> QED  BY <2>1, <3>1 DEF ExactCounts
  <2> QED  BY <2>1 DEF ExactCounts, DocsOf
<1> QED  BY <1>1, <1>2

LEMMA InitDocs ==
  ASSUME Init
  PROVE  /\ \A k \in Kb : count[k] = 0 /\ Cardinality(DocsOf(k)) = 0
         /\ \A t \in Task : task[t].step = "idle"
<1>1. \A k : DocsOf(k) = {}
  BY DEF Init, DocsOf
<1>2. Cardinality({}) = 0
  BY FS_EmptySet
<1> QED  BY <1>1, <1>2 DEF Init, Idle

\* doc_count is what usage_by_customer should report, however many ingests and
\* deletions run and whatever fails, of every KB whose count no ingest has set
\* from an outdated one.
THEOREM ExactDocCounts == Spec => []DocCountIsExact
<1>1. Init => ExactCounts
  BY InitDocs DEF ExactCounts
<1>2. IInv /\ ExactCounts /\ [Next]_vars => ExactCounts'
  BY ExactNext
<1>3. ExactCounts => DocCountIsExact
  BY DEF ExactCounts, DocCountIsExact, LiveKbs
<1> QED  BY <1>1, <1>2, <1>3, Invariance, PTL DEF Spec

-----------------------------------------------------------------------------
\* The quota.  An ingest that has got the plan knows how many documents it may
\* add, and adds no more.  What a count that it overwrites had counted is within
\* the quota, so that each of these costs at most one quota.

Within(c) == IF c <= MaxDocs THEN c ELSE MaxDocs

Fits ==
  \A k \in Kb : kb[k] # "deleted" =>
    Cardinality(DocsOf(k)) <=
      unplanned[k] + Within(count[k]) + MaxDocs * overwrites[k]

MayAdd(t) ==
  task[t].remaining # None =>
    /\ task[t].remaining \in Nat
    /\ IF task[t].count <= MaxDocs
       THEN task[t].count + task[t].remaining <= MaxDocs
       ELSE task[t].remaining = 0
    /\ Cardinality(task[t].added) <= task[t].remaining

WithinPlan == \A t \in Task : task[t].step \in {"resolve", "loop"} => MayAdd(t)

\* A coroutine that leaves the quota of the others, and its own, alone.
LEMMA PlanKept ==
  ASSUME WithinPlan,
         \A u \in Task : task'[u].step \in {"resolve", "loop"} =>
           \/ MayAdd(u)'
           \/ /\ task[u].step \in {"resolve", "loop"}
              /\ task'[u].remaining = task[u].remaining
              /\ task'[u].count = task[u].count
              /\ task'[u].added = task[u].added
  PROVE  WithinPlan'
<1> SUFFICES ASSUME NEW u \in Task, task'[u].step \in {"resolve", "loop"}
             PROVE  MayAdd(u)'
  BY DEF WithinPlan
<1>1. CASE /\ task[u].step \in {"resolve", "loop"}
           /\ task'[u].remaining = task[u].remaining
           /\ task'[u].count = task[u].count
           /\ task'[u].added = task[u].added
  BY <1>1 DEF WithinPlan, MayAdd
<1> QED  BY <1>1

\* get_plan_limits and the rest that the plan allows.
LEMMA PlanWithin ==
  ASSUME Shapes, WithinPlan, NEW t \in Task, Plan(t)
  PROVE  WithinPlan'
<1> DEFINE z == IF task[t].count < MaxDocs THEN MaxDocs - task[t].count ELSE 0
<1>1. /\ task \in [Task -> Coroutine] /\ task[t] \in Coroutine
      /\ task[t].step = "plan" /\ task[t].added = {}
  BY DEF Shapes, TypeOK, TaskShape, CoShape, Plan, At
<1>2. task[t].count \in Nat /\ z \in Nat
  BY <1>1, QuotaAssumption DEF Coroutine
<1>3. IF task[t].count <= MaxDocs THEN task[t].count + z <= MaxDocs ELSE z = 0
  BY <1>2, QuotaAssumption
<1>4. PICK r \in {z, None} :
        task' = [task EXCEPT ![t].step = "resolve", ![t].remaining = r]
  BY DEF Plan
<1> HIDE DEF z
<1>5. /\ task'[t].remaining = r /\ task'[t].added = {}
      /\ task'[t].count = task[t].count
      /\ \A u \in Task \ {t} : task'[u] = task[u]
  BY <1>1, <1>4 DEF Coroutine
<1>6. Cardinality({}) = 0
  BY FS_EmptySet
<1>7. MayAdd(t)'
  BY <1>2, <1>3, <1>5, <1>6 DEF MayAdd
<1> QED  BY <1>5, <1>7, PlanKept

LEMMA ResolveWithin ==
  ASSUME Shapes, WithinPlan, NEW t \in Task, Resolve(t)
  PROVE  WithinPlan'
<1>1. PICK w \in SUBSET Gen :
        task' = [task EXCEPT ![t] =
                   Onward(t, "loop", task[t].remaining, w, task[t].added)]
  BY ResolveStep
<1>2. task[t].step = "resolve" /\ task \in [Task -> Coroutine]
  BY DEF Resolve, At, Shapes, TypeOK
<1> DEFINE q == Onward(t, "loop", task[t].remaining, w, task[t].added)
<1>3. /\ q.remaining = task[t].remaining /\ q.added = task[t].added
      /\ q.count = task[t].count
  BY OnwardFields
<1> HIDE DEF q
<1>4. task'[t] = q /\ \A u \in Task \ {t} : task'[u] = task[u]
  BY <1>1, <1>2 DEF q
<1> QED  BY <1>2, <1>3, <1>4, PlanKept

\* The loop adds a generation that is not there, below the rest.
LEMMA IngestOneWithin ==
  ASSUME Shapes, WithinPlan, NEW t \in Task, IngestOne(t)
  PROVE  WithinPlan'
<1>1. PICK g \in Gen, a \in SUBSET Gen :
        /\ task' = [task EXCEPT ![t] =
             Onward(t, "loop", task[t].remaining, task[t].want \ {g}, a)]
        /\ \/ a = task[t].added
           \/ a = task[t].added \cup {g} /\ ~DocExists(t, g) /\ ~QuotaReached(t)
  BY IngestOneStep
<1>2. /\ task[t].step = "loop" /\ task \in [Task -> Coroutine]
      /\ task[t].added \in SUBSET Gen
  BY DEF IngestOne, At, Shapes, TypeOK, Coroutine
<1>3. MayAdd(t)
  BY <1>2 DEF WithinPlan
<1> DEFINE q == Onward(t, "loop", task[t].remaining, task[t].want \ {g}, a)
<1>4. q.remaining = task[t].remaining /\ q.added = a /\ q.count = task[t].count
  BY OnwardFields
<1> HIDE DEF q
<1>5. task'[t] = q /\ \A u \in Task \ {t} : task'[u] = task[u]
  BY <1>1, <1>2 DEF q
<1>6. task[t].remaining # None => Cardinality(a) <= task[t].remaining
  <2> SUFFICES ASSUME task[t].remaining # None
               PROVE  Cardinality(a) <= task[t].remaining
    OBVIOUS
  <2>1. CASE a = task[t].added
    BY <2>1, <1>3 DEF MayAdd
  <2>2. CASE a = task[t].added \cup {g} /\ ~DocExists(t, g) /\ ~QuotaReached(t)
    <3>1. g \notin task[t].added /\ Cardinality(task[t].added) \in Nat
          /\ IsFiniteSet(task[t].added)
      BY <2>2, <1>2, GensFinite DEF DocExists
    <3>2. Cardinality(a) = Cardinality(task[t].added) + 1
      BY <2>2, <3>1, FS_AddElement
    <3>3. ~(Cardinality(task[t].added) >= task[t].remaining)
      BY <2>2 DEF QuotaReached
    <3> QED  BY <3>1, <3>2, <3>3, <1>3 DEF MayAdd
  <2> QED  BY <1>1, <2>1, <2>2
<1>7. MayAdd(t)'
  BY <1>3, <1>4, <1>5, <1>6 DEF MayAdd
<1> QED  BY <1>5, <1>7, PlanKept

LEMMA WithinPlanNext ==
  ASSUME Shapes, WithinPlan, [Next]_vars
  PROVE  WithinPlan'
<1>1. CASE \A u \in Task : task'[u] = task[u] \/ task'[u] = Idle
  BY <1>1, PlanKept DEF Idle
<1>2. ASSUME NEW t \in Task,
             \/ \E g \in Group : StartCreate(t, g)
             \/ CreateKb(t)
             \/ \E k \in Kb, gens \in SUBSET Gen : StartIngest(t, k, gens)
             \/ \E j \in Job : StartJob(t, j)
             \/ ReadKb(t) \/ FailIngest(t) \/ ReportJob(t)
      PROVE  WithinPlan'
  <2>1. PICK q : task' = [task EXCEPT ![t] = q] /\ Begins(q)
    BY <1>2, CoroutineMoves
  <2>2. /\ task'[t].step \notin {"resolve", "loop"}
        /\ \A u \in Task \ {t} : task'[u] = task[u]
    BY <2>1 DEF Shapes, TypeOK, Begins
  <2> QED  BY <2>2, PlanKept
<1>3. ASSUME NEW t \in Task, CommitIngest(t)
      PROVE  WithinPlan'
  <2>1. Idle.step = "idle" /\ task \in [Task -> Coroutine]
    BY DEF Idle, Shapes, TypeOK
  <2>2. /\ task'[t].step \notin {"resolve", "loop"}
        /\ \A u \in Task \ {t} : task'[u] = task[u]
    BY <1>3, <2>1 DEF CommitIngest, EndIngest, Goto, Coroutine
  <2> QED  BY <2>2, PlanKept
<1>4. CASE Coroutines
  BY <1>2, <1>3, <1>4, PlanWithin, ResolveWithin, IngestOneWithin DEF Coroutines
<1>5. CASE Deletions
  <2>1. UNCHANGED task
    BY <1>5, DeletionKeeps DEF Deletions
  <2> QED  BY <1>1, <2>1
<1>6. CASE \/ \E g \in Group : CreateGroup(g)
           \/ \E j \in Job, k \in Kb, gens \in SUBSET Gen : CreateJob(j, k, gens)
           \/ Restart \/ UNCHANGED vars
  <2>1. \A t \in Task : task'[t] = task[t] \/ task'[t] = Idle
    BY <1>6 DEF CreateGroup, CreateJob, Restart, vars
  <2> QED  BY <1>1, <2>1
<1> QED  BY <1>4, <1>5, <1>6 DEF Next

\* The arithmetic of a commit: n documents on top of docs, by an ingest that
\* had read c0 where the count is c; o is what the overwrites so far allow.
LEMMA CommitFits ==
  ASSUME NEW docs0 \in Nat, NEW n \in Nat, NEW c0 \in Nat, NEW c \in Nat,
         NEW u \in Nat, NEW o \in Nat, NEW u1 \in Nat, NEW o1 \in Nat, n # 0,
         docs0 <= u + Within(c) + o,
         \/ u1 = u + n
         \/ u1 = u /\ c0 + n <= MaxDocs,
         \/ o1 = o /\ c0 = c
         \/ o1 = o + MaxDocs
  PROVE  docs0 + n <= u1 + Within(c0 + n) + o1
BY QuotaAssumption DEF Within

\* What an ingest commits fits.
LEMMA CommitIngestFits ==
  ASSUME IInv, WithinPlan, Fits, NEW t \in Task, CommitIngest(t)
  PROVE  Fits'
<1>0. Shapes /\ Counts /\ Catalogue
  BY DEF IInv
<1>1. PICK k, a : k = task[t].kb /\ a = task[t].added
  OBVIOUS
<1>2. /\ k \in Kb /\ a \in SUBSET Gen /\ task[t].step = "loop"
      /\ count' = IF a = {} THEN count
                  ELSE [count EXCEPT ![k] = task[t].count + Cardinality(a)]
      /\ Cardinality(DocsOf(k)') = Cardinality(DocsOf(k)) + Cardinality(a)
      /\ \A x \in Kb \ {k} : DocsOf(x)' = DocsOf(x)
      /\ UNCHANGED kb
      /\ overwrites' = IF a = {} \/ task[t].count = count[k] THEN overwrites
                       ELSE [overwrites EXCEPT ![k] = @ + 1]
      /\ unplanned' = IF task[t].remaining # None THEN unplanned
                      ELSE [unplanned EXCEPT ![k] = @ + Cardinality(a)]
  <2> HIDE DEF excess
  <2>1. /\ k \in Kb /\ a \in SUBSET Gen /\ task[t].step = "loop"
        /\ count' = IF a = {} THEN count
                    ELSE [count EXCEPT ![k] = task[t].count + Cardinality(a)]
        /\ Cardinality(DocsOf(k)') = Cardinality(DocsOf(k)) + Cardinality(a)
        /\ \A x \in Kb \ {k} : DocsOf(x)' = DocsOf(x)
        /\ UNCHANGED kb
    BY <1>0, <1>1, CommitIngestAdds
  <2>2. overwrites' = IF a = {} \/ task[t].count = count[k] THEN overwrites
                      ELSE [overwrites EXCEPT ![k] = @ + 1]
    BY <1>0, <1>1, CommitIngestAdds
  <2>3. unplanned' = IF task[t].remaining # None THEN unplanned
                     ELSE [unplanned EXCEPT ![k] = @ + Cardinality(a)]
    BY <1>0, <1>1, CommitIngestAdds
  <2> QED  BY <2>1, <2>2, <2>3
<1>3. /\ overwrites \in [Kb -> Nat] /\ unplanned \in [Kb -> Nat]
      /\ count \in [Kb -> Nat] /\ task[t].count \in Nat
  BY DEF IInv, Shapes, TypeOK, Coroutine
<1>4. Cardinality(DocsOf(k)) \in Nat /\ Cardinality(a) \in Nat
  BY <1>2, DocsFinite, GensFinite DEF IInv
<1>5. ASSUME NEW x \in Kb, kb'[x] # "deleted"
      PROVE  Cardinality(DocsOf(x)') <=
               unplanned'[x] + Within(count'[x]) + MaxDocs * overwrites'[x]
  <2>1. kb[x] # "deleted" /\ Cardinality(DocsOf(x)) <=
          unplanned[x] + Within(count[x]) + MaxDocs * overwrites[x]
    BY <1>2, <1>5 DEF Fits
  <2>2. CASE x # k
    <3>1. /\ unplanned'[x] = unplanned[x] /\ count'[x] = count[x]
          /\ overwrites'[x] = overwrites[x]
      BY <1>2, <1>3, <2>2
    <3>2. DocsOf(x)' = DocsOf(x)
      BY <1>2, <2>2
    <3> QED  BY <2>1, <3>1, <3>2
  <2>3. CASE x = k /\ a = {}
    <3>1. Cardinality({}) = 0
      BY FS_EmptySet
    <3>2. /\ count' = count /\ overwrites' = overwrites
          /\ unplanned'[k] = unplanned[k]
          /\ Cardinality(DocsOf(k)') = Cardinality(DocsOf(k))
      BY <1>2, <1>3, <1>4, <2>3, <3>1
    <3> QED  BY <2>1, <2>3, <3>2
  <2>4. CASE x = k /\ a # {}
    <3> DEFINE n == Cardinality(a)
               o == MaxDocs * overwrites[k]
               o1 == MaxDocs * overwrites'[k]
    <3>1. n \in Nat /\ n # 0
      BY <1>2, <1>4, <2>4, GensFinite, FS_EmptySet
    <3>2. o \in Nat
      BY <1>2, <1>3, QuotaAssumption
    <3>3. /\ o1 \in Nat
          /\ \/ o1 = o /\ task[t].count = count[k]
             \/ o1 = o + MaxDocs
      <4>1. CASE task[t].count = count[k]
        <5>1. overwrites' = overwrites
          BY <1>2, <4>1
        <5> QED  BY <4>1, <5>1, <3>2
      <4>2. CASE task[t].count # count[k]
        <5>1. overwrites'[k] = overwrites[k] + 1 /\ overwrites[k] \in Nat
          BY <1>2, <1>3, <2>4, <4>2
        <5>2. MaxDocs * (overwrites[k] + 1) = MaxDocs * overwrites[k] + MaxDocs
          BY <5>1, QuotaAssumption
        <5> QED  BY <5>1, <5>2, <3>2, QuotaAssumption
      <4> QED  BY <4>1, <4>2
    <3>4. MayAdd(t)
      BY <1>2 DEF WithinPlan
    <3>5. /\ unplanned'[k] \in Nat
          /\ \/ unplanned'[k] = unplanned[k] + n
             \/ unplanned'[k] = unplanned[k] /\ task[t].count + n <= MaxDocs
      <4>1. CASE task[t].remaining = None
        BY <4>1, <1>2, <1>3, <3>1
      <4>2. CASE task[t].remaining # None
        <5>1. task[t].count + n <= MaxDocs
          BY <1>1, <1>3, <3>1, <3>4, <4>2, QuotaAssumption DEF MayAdd
        <5> QED  BY <4>2, <5>1, <1>2, <1>3
      <4> QED  BY <4>1, <4>2
    <3>6. count'[k] = task[t].count + n /\ count[k] \in Nat
      BY <1>2, <1>3, <2>4
    <3>7. Cardinality(DocsOf(k)) <= unplanned[k] + Within(count[k]) + o
      BY <2>1, <2>4
    <3>8. unplanned[k] \in Nat
      BY <1>2, <1>3
    <3> HIDE DEF n, o, o1
    <3>9. Cardinality(DocsOf(k)) + n
            <= unplanned'[k] + Within(task[t].count + n) + o1
      BY <1>3, <1>4, <3>1, <3>2, <3>3, <3>5, <3>6, <3>7, <3>8, CommitFits
    <3> QED  BY <1>2, <2>4, <3>6, <3>9 DEF n, o1
  <2> QED  BY <2>2, <2>3, <2>4
<1> QED  BY <1>5 DEF Fits, DocsOf, Within

LEMMA FitsNext ==
  ASSUME IInv, WithinPlan, Fits, [Next]_vars
  PROVE  Fits'
<1>1. ASSUME NEW t \in Task, CommitIngest(t)
      PROVE  Fits'
  BY <1>1, CommitIngestFits
<1>2. CASE \A t \in Task : ~CommitIngest(t)
  <2>1. ASSUME NEW x \in Kb, kb'[x] # "deleted"
        PROVE  Cardinality(DocsOf(x)') <=
                 unplanned'[x] + Within(count'[x]) + MaxDocs * overwrites'[x]
    <3>1. /\ kb[x] # "deleted" /\ DocsOf(x)' = DocsOf(x)
          /\ UNCHANGED <<count, excess>>
      BY <1>2, <2>1, DocsStay DEF IInv
    <3> QED  BY <3>1 DEF Fits
  <2> QED  BY <2>1 DEF Fits, DocsOf, Within
<1> QED  BY <1>1, <1>2

\* Ingest stops at max_docs_per_kb: however many ingests, jobs and deletions run
\* and whatever fails, a KB has at most a quota of documents, one more for each
\* count that an ingest has set from an outdated one, and what ingests that had
\* not got the plan have added.
THEOREM QuotaHolds == Spec => []QuotaStopsIngest
<1>1. Init => WithinPlan /\ Fits
  <2> SUFFICES ASSUME Init PROVE WithinPlan /\ Fits
    OBVIOUS
  <2>1. \A k \in Kb : /\ unplanned[k] = 0 /\ overwrites[k] = 0 /\ count[k] = 0
                      /\ Cardinality(DocsOf(k)) = 0
    BY InitDocs DEF Init
  <2> QED  BY <2>1, InitDocs, QuotaAssumption DEF WithinPlan, Fits, Within
<1>2. IInv /\ WithinPlan /\ Fits /\ [Next]_vars => WithinPlan' /\ Fits'
  BY WithinPlanNext, FitsNext DEF IInv
<1>3. IInv /\ Fits => QuotaStopsIngest
  <2> SUFFICES ASSUME IInv, Fits, NEW k \in LiveKbs
               PROVE  Cardinality(DocsOf(k))
                        <= MaxDocs * (1 + overwrites[k]) + unplanned[k]
    BY DEF QuotaStopsIngest
  <2>1. k \in Kb /\ kb[k] # "deleted" /\ overwrites[k] \in Nat
        /\ unplanned[k] \in Nat /\ count[k] \in Nat
    BY DEF LiveKbs, IInv, Shapes, TypeOK
  <2>2. Cardinality(DocsOf(k))
          <= unplanned[k] + Within(count[k]) + MaxDocs * overwrites[k]
    BY <2>1 DEF Fits
  <2>3. Cardinality(DocsOf(k)) \in Nat /\ MaxDocs * overwrites[k] \in Nat
    BY <2>1, DocsFinite, QuotaAssumption DEF IInv
  <2>4. MaxDocs * (1 + overwrites[k]) = MaxDocs + MaxDocs * overwrites[k]
    BY <2>1, QuotaAssumption
  <2>5. Within(count[k]) \in Nat /\ Within(count[k]) <= MaxDocs
    BY <2>1, QuotaAssumption DEF Within
  <2> QED  BY <2>1, <2>2, <2>3, <2>4, <2>5, QuotaAssumption
<1> QED  BY <1>1, <1>2, <1>3, Invariance, PTL DEF Spec

-----------------------------------------------------------------------------
\* Jobs.  A coroutine hands its job on, or it is done with it.
LEMMA JobGoes ==
  ASSUME Shapes, NEW t \in Task, NEW q, task' = [task EXCEPT ![t] = q],
         NEW j \in Job, InHand(j), ~InHand(j)', background \ {q.job} \subseteq background'
  PROVE  task[t].job = j /\ q.job # j
<1>1. \A u \in Task : task'[u] = IF u = t THEN q ELSE task[u]
  BY DEF Shapes, TypeOK
<1>2. q.job # j /\ j \notin background'
  BY <1>1 DEF InHand
<1>3. PICK u \in Task : task[u].job = j
  BY <1>2 DEF InHand
<1>4. u = t
  BY <1>1, <1>3 DEF InHand
<1> QED  BY <1>2, <1>3, <1>4

LEMMA CoroutineJobs ==
  ASSUME Shapes, NEW t \in Task, NEW j \in Job, InHand(j), ~InHand(j)',
         \/ \E g \in Group : StartCreate(t, g)
         \/ CreateKb(t)
         \/ \E k \in Kb, gens \in SUBSET Gen : StartIngest(t, k, gens)
         \/ \E i \in Job : StartJob(t, i)
         \/ ReadKb(t) \/ Plan(t) \/ Resolve(t) \/ IngestOne(t)
         \/ CommitIngest(t) \/ FailIngest(t) \/ ReportJob(t)
  PROVE  \/ job'[j].status \in {"done", "error"}
         \/ \E k \in Kb : job[j].kb = k /\ kb[k] = "deleted"
<1>1. /\ task[t] \in Coroutine /\ CoShape(task[t]) /\ task \in [Task -> Coroutine]
      /\ job \in [Job -> [status: Status, kb: Kb \cup {None}, want: SUBSET Gen]]
  BY DEF Shapes, TypeOK, TaskShape
<1>2. Idle.job = None /\ None # j
  BY NoneAssumption DEF Idle
<1>3. CASE \/ \E g \in Group : StartCreate(t, g)
           \/ \E k \in Kb, gens \in SUBSET Gen : StartIngest(t, k, gens)
           \/ CreateKb(t)
  <2>1. task[t].job = None /\ UNCHANGED background
    BY <1>1, <1>3 DEF StartCreate, StartIngest, CreateKb, At, CoShape
  <2>2. PICK q : task' = [task EXCEPT ![t] = q]
    BY <1>3, CoroutineMoves
  <2> QED  BY <1>2, <2>1, <2>2, JobGoes
<1>4. CASE \E i \in Job : StartJob(t, i)
  <2>1. PICK i \in Job : StartJob(t, i)
    BY <1>4
  <2>2. PICK q : /\ q = [Idle EXCEPT !.step = "read", !.kb = job[i].kb,
                                     !.want = job[i].want, !.job = i]
                 /\ task' = [task EXCEPT ![t] = q]
    BY <2>1 DEF StartJob
  <2>3. q.job = i /\ background' = background \ {i} /\ task[t].job = None
    BY <2>1, <2>2, <1>1 DEF Idle, StartJob, At, CoShape
  <2>4. task' = [task EXCEPT ![t] = q]
    BY <2>2
  <2> QED  BY <1>2, <2>3, <2>4, JobGoes
<1>5. CASE ReadKb(t)
  <2>1. CASE kb[task[t].kb] = "live"
    <3>1. PICK q : /\ q = [Idle EXCEPT !.step = "plan", !.kb = task[t].kb,
                             !.want = task[t].want, !.count = count[task[t].kb],
                             !.job = task[t].job]
                   /\ task' = [task EXCEPT ![t] = q]
      BY <1>5, <2>1 DEF ReadKb, Ingest
    <3>2. q.job = task[t].job /\ UNCHANGED background
      BY <1>5, <3>1 DEF ReadKb, Idle
    <3>3. task' = [task EXCEPT ![t] = q]
      BY <3>1
    <3> QED  BY <3>2, <3>3, JobGoes
  <2>2. CASE kb[task[t].kb] # "live"
    <3>1. /\ task' = [task EXCEPT ![t] = Idle] /\ UNCHANGED background
          /\ job' = [job EXCEPT ![task[t].job].status = "error"]
      BY <1>5, <2>2 DEF ReadKb
    <3>2. task[t].job = j
      BY <3>1, JobGoes
    <3> QED  BY <1>1, <3>1, <3>2
  <2> QED  BY <2>1, <2>2
<1>6. CASE Plan(t) \/ Resolve(t) \/ IngestOne(t)
  <2>1. UNCHANGED background
    BY <1>6 DEF Plan, Resolve, IngestOne
  <2>2. PICK x, r, w, a : task' = [task EXCEPT ![t] = Onward(t, x, r, w, a)]
    <3>1. CASE Plan(t)
      BY <3>1, PlanStep
    <3>2. CASE Resolve(t)
      BY <3>2, ResolveStep
    <3>3. CASE IngestOne(t)
      BY <3>3, IngestOneStep
    <3> QED  BY <1>6, <3>1, <3>2, <3>3
  <2>3. PICK q : q = Onward(t, x, r, w, a)
    OBVIOUS
  <2>4. task' = [task EXCEPT ![t] = q] /\ q.job = task[t].job
    BY <2>2, <2>3, OnwardFields
  <2> QED  BY <2>1, <2>4, JobGoes
<1>7. CASE CommitIngest(t)
  <2>1. EndIngest(t) /\ UNCHANGED background
    BY <1>7 DEF CommitIngest
  <2>2. PICK q : task' = [task EXCEPT ![t] = q] /\ q.job = task[t].job
    <3>1. CASE task[t].job = None
      BY <2>1, <3>1, <1>2 DEF EndIngest
    <3>2. CASE task[t].job # None
      <4>1. task' = [task EXCEPT ![t] = [task[t] EXCEPT !.step = "report"]]
        BY <2>1, <3>2, <1>1 DEF EndIngest, Goto
      <4>2. [task[t] EXCEPT !.step = "report"].job = task[t].job
        BY <1>1 DEF Coroutine
      <4> QED  BY <4>1, <4>2
    <3> QED  BY <3>1, <3>2
  <2> QED  BY <2>1, <2>2, JobGoes
<1>8. CASE FailIngest(t)
  <2>1. /\ task' = [task EXCEPT ![t] = Idle] /\ UNCHANGED background
        /\ task[t].step = "loop" /\ kb[task[t].kb] = "deleted"
    BY <1>8 DEF FailIngest, At
  <2>2. task[t].job = j
    BY <2>1, JobGoes
  <2>3. task[t].kb \in Kb /\ job[j].kb = task[t].kb
    BY <1>1, <1>2, <2>1, <2>2 DEF CoShape
  <2> QED  BY <2>1, <2>3
<1>9. CASE ReportJob(t)
  <2>1. /\ task' = [task EXCEPT ![t] = Idle] /\ UNCHANGED background
        /\ job' = [job EXCEPT ![task[t].job].status =
                      IF kb[task[t].kb] = "live" THEN "done" ELSE "error"]
    BY <1>9 DEF ReportJob
  <2>2. task[t].job = j
    BY <2>1, JobGoes
  <2> QED  BY <1>1, <2>1, <2>2
<1> QED  BY <1>3, <1>4, <1>5, <1>6, <1>7, <1>8, <1>9

\* A job is dropped without an outcome only with its KB, or by a restart
\* (run_ingest_job).
THEOREM JobsKept == Spec => JobsNotDropped
<1> DEFINE Kept == \A j \in Job : InHand(j) /\ ~InHand(j)' =>
                     \/ job'[j].status \in {"done", "error"}
                     \/ \E k \in Kb : job[j].kb = k /\ kb[k] = "deleted"
                     \/ Restart
<1>1. ASSUME Shapes, [Next]_vars PROVE [Kept]_vars
  <2> SUFFICES ASSUME NEW j \in Job, InHand(j), ~InHand(j)', ~Restart
               PROVE  \/ job'[j].status \in {"done", "error"}
                      \/ \E k \in Kb : job[j].kb = k /\ kb[k] = "deleted"
    OBVIOUS
  <2>1. CASE Coroutines
    BY <1>1, <2>1, CoroutineJobs DEF Coroutines
  <2>2. CASE ~Coroutines
    <3>1. background \subseteq background' /\ UNCHANGED task
      BY <1>1, <2>2 DEF Next, CreateGroup, CreateJob, Deletions, StartDeleteKb,
         StartDeleteGroup, DeleteVectors, DeleteDocs, DeleteRow, CommitDelete,
         vars, tables
    <3> QED  BY <3>1 DEF InHand
  <2> QED  BY <2>1, <2>2
<1>2. IInv => Shapes
  BY DEF IInv
<1>3. Spec => [][Kept]_vars
  BY <1>1, <1>2, Invariance, PTL DEF Spec
<1> QED  BY <1>3 DEF JobsNotDropped
=============================================================================
