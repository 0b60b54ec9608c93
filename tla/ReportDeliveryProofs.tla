------------------------- MODULE ReportDeliveryProofs -------------------------
(***************************************************************************)
(* Proofs about ReportDelivery, for every number of reports and of parts,  *)
(* every batch size and any number of faults, deaths and closed tasks:     *)
(* reports arrive once and whole, and one that may still have to be sent   *)
(* keeps its payload while the upkeep after delivered() does not fail.     *)
(***************************************************************************)
EXTENDS ReportDelivery, FiniteSetTheorems, SequenceTheorems, TLAPS

-----------------------------------------------------------------------------
(* Todoist.                                                                *)

\* What a task has is kept, and what is marked is complete.
Grown ==
    /\ tasks' \in Seq(Tasks)
    /\ \A k \in DOMAIN tasks :
         /\ k \in DOMAIN tasks' /\ tasks'[k].report = tasks[k].report
         /\ tasks[k].ready => tasks'[k].ready
         /\ Complete(tasks[k].comments) => Complete(tasks'[k].comments)
    /\ \A k \in DOMAIN tasks' : tasks'[k].ready => Complete(tasks'[k].comments)
    /\ MadeOnce'

LEMMA NothingMade ==
  ASSUME DeliveryInv, UNCHANGED <<tasks, executed>>
  PROVE  Grown
BY DEF DeliveryInv, Kinds, MadeOnce, MarkedWhenComplete, Grown

\* A part whose command was not executed has no comment, so its first one is the only one.
LEMMA FirstComments ==
  ASSUME NEW comments, NEW parts, \A p \in parts : \A c \in comments : c[1] # p
  PROVE  Commented(comments, parts) = comments \cup {<<p, 1>> : p \in parts}
<1>1. ASSUME NEW p \in parts PROVE Cardinality({c \in comments : c[1] = p}) = 0
  <2>1. {c \in comments : c[1] = p} = {}
    OBVIOUS
  <2> QED BY <2>1, FS_EmptySet
<1>2. \A p \in parts : 1 + Cardinality({c \in comments : c[1] = p}) = 1
  BY <1>1
<1>3. {<<p, 1 + Cardinality({c \in comments : c[1] = p})>> : p \in parts} = {<<p, 1>> : p \in parts}
  BY <1>2, Zenon
<1> QED BY <1>3 DEF Commented

\* A request that the invariant allows.
Good(q) ==
    /\ q.report \in Reports
    /\ \A p \in DOMAIN q.uuid : q.uuid[p] = Uuid(q.report, q.type, p)
    /\ \/ q.type = "item_add" /\ DOMAIN q.uuid = {0}
       \/ q.type = "note_add" /\ DOMAIN q.uuid \subseteq Parts /\ q.task \in TasksOf(q.report)
       \/ q.type = "item_update" /\ q.task \in TasksOf(q.report)
    /\ q.type = "item_update" => Complete(tasks[q.task].comments)

LEMMA GoodRequests ==
  ASSUME DeliveryInv
  PROVE  \A q \in wire : Good(q)
BY DEF DeliveryInv, RequestsAreOurs, MarkedWhenComplete, Good

LEMMA TasksAre ==
  ASSUME DeliveryInv
  PROVE  /\ tasks \in Seq(Tasks) /\ Len(tasks) \in Nat /\ DOMAIN tasks = 1 .. Len(tasks)
         /\ \A k \in DOMAIN tasks : tasks[k] \in Tasks
BY DEF DeliveryInv, Kinds

\* A task is made.
LEMMA AddExecuted ==
  ASSUME DeliveryInv, NEW r \in Reports, Uuid(r, "item_add", 0) \notin executed,
         executed' = executed \cup {Uuid(r, "item_add", 0)}, tasks' = Append(tasks, NewTask(r))
  PROVE  Grown
<1>1. /\ tasks \in Seq(Tasks) /\ Len(tasks) \in Nat /\ DOMAIN tasks = 1 .. Len(tasks)
      /\ \A k \in DOMAIN tasks : tasks[k] \in Tasks
  BY TasksAre
<1>2. /\ NewTask(r) \in Tasks /\ NewTask(r).report = r /\ NewTask(r).ready = FALSE
      /\ NewTask(r).comments = {}
  BY DEF NewTask, Tasks
<1>3. /\ tasks' \in Seq(Tasks) /\ DOMAIN tasks' = 1 .. Len(tasks) + 1
      /\ \A k \in DOMAIN tasks : k \in DOMAIN tasks' /\ tasks'[k] = tasks[k]
      /\ tasks'[Len(tasks) + 1] = NewTask(r)
      /\ \A k \in DOMAIN tasks' : k \in DOMAIN tasks \/ k = Len(tasks) + 1
  <2> HIDE DEF Tasks
  <2>1. /\ tasks' \in Seq(Tasks) /\ Len(tasks') = Len(tasks) + 1
        /\ \A k \in 1 .. Len(tasks) : tasks'[k] = tasks[k]
        /\ tasks'[Len(tasks) + 1] = NewTask(r)
    BY <1>1, <1>2, AppendProperties
  <2>2. DOMAIN tasks' = 1 .. Len(tasks) + 1
    BY <2>1
  <2> QED BY <1>1, <2>1, <2>2
<1>4. MadeOnce
  BY DEF DeliveryInv
<1>5. \A k \in DOMAIN tasks : tasks[k].report # r
  BY <1>4 DEF MadeOnce
<1>6. MadeOnce'
  <2>1. \A k \in DOMAIN tasks' : Uuid(tasks'[k].report, "item_add", 0) \in executed'
    BY <1>2, <1>3, <1>4 DEF MadeOnce
  <2>2. \A k, l \in DOMAIN tasks' : tasks'[k].report = tasks'[l].report => k = l
    BY <1>2, <1>3, <1>4, <1>5 DEF MadeOnce
  <2>3. \A k \in DOMAIN tasks' : \A c \in tasks'[k].comments :
          c[2] = 1 /\ Uuid(tasks'[k].report, "note_add", c[1]) \in executed'
    BY <1>2, <1>3, <1>4 DEF MadeOnce
  <2> QED BY <2>1, <2>2, <2>3 DEF MadeOnce
<1>7. \A k \in DOMAIN tasks' : tasks'[k].ready => Complete(tasks'[k].comments)
  BY <1>2, <1>3 DEF DeliveryInv, MarkedWhenComplete
<1> QED BY <1>3, <1>6, <1>7 DEF Grown

\* One task changes, and keeps its report.
LEMMA TaskExecuted ==
  ASSUME DeliveryInv, NEW k \in DOMAIN tasks, NEW t \in Tasks, tasks' = [tasks EXCEPT ![k] = t],
         t.report = tasks[k].report, tasks[k].ready => t.ready,
         Complete(tasks[k].comments) => Complete(t.comments),
         t.ready => Complete(t.comments),
         executed \subseteq executed',
         \A c \in t.comments : c[2] = 1 /\ Uuid(t.report, "note_add", c[1]) \in executed'
  PROVE  Grown
<1>1. /\ tasks \in Seq(Tasks) /\ Len(tasks) \in Nat /\ DOMAIN tasks = 1 .. Len(tasks)
      /\ \A j \in DOMAIN tasks : tasks[j] \in Tasks
  BY TasksAre
<1>2. /\ tasks' \in Seq(Tasks) /\ DOMAIN tasks' = DOMAIN tasks
      /\ \A j \in DOMAIN tasks : tasks'[j] = IF j = k THEN t ELSE tasks[j]
  <2> HIDE DEF Tasks
  <2> QED BY <1>1
<1>3. MadeOnce /\ MarkedWhenComplete
  BY DEF DeliveryInv
<1>4. \A j \in DOMAIN tasks : tasks'[j].report = tasks[j].report
  BY <1>2
<1>5. MadeOnce'
  <2>1. \A j \in DOMAIN tasks' : Uuid(tasks'[j].report, "item_add", 0) \in executed'
    BY <1>2, <1>3, <1>4 DEF MadeOnce
  <2>2. \A j, l \in DOMAIN tasks' : tasks'[j].report = tasks'[l].report => j = l
    BY <1>2, <1>3, <1>4 DEF MadeOnce
  <2>3. \A j \in DOMAIN tasks' : \A c \in tasks'[j].comments :
          c[2] = 1 /\ Uuid(tasks'[j].report, "note_add", c[1]) \in executed'
    BY <1>2, <1>3 DEF MadeOnce
  <2> QED BY <2>1, <2>2, <2>3 DEF MadeOnce
<1>6. \A j \in DOMAIN tasks' : tasks'[j].ready => Complete(tasks'[j].comments)
  BY <1>2, <1>3 DEF MarkedWhenComplete
<1> QED BY <1>2, <1>4, <1>5, <1>6 DEF Grown

\* Comments are made.
LEMMA NotesExecuted ==
  ASSUME DeliveryInv, NEW r \in Reports, NEW k \in TasksOf(r), NEW fresh \in SUBSET Parts,
         \A p \in fresh : Uuid(r, "note_add", p) \notin executed,
         executed' = executed \cup {Uuid(r, "note_add", p) : p \in fresh},
         tasks' = [tasks EXCEPT ![k].comments = Commented(@, fresh)]
  PROVE  Grown
<1> DEFINE new == tasks[k].comments \cup {<<p, 1>> : p \in fresh}
           t == [tasks[k] EXCEPT !.comments = new]
<1>1. k \in DOMAIN tasks /\ tasks[k].report = r /\ tasks[k] \in Tasks
  BY TasksAre DEF TasksOf
<1>2. MadeOnce /\ MarkedWhenComplete
  BY DEF DeliveryInv
<1>3. \A c \in tasks[k].comments : c[2] = 1 /\ Uuid(r, "note_add", c[1]) \in executed
  BY <1>1, <1>2 DEF MadeOnce
<1>4. Commented(tasks[k].comments, fresh) = new
  <2>1. \A p \in fresh : \A c \in tasks[k].comments : c[1] # p
    BY <1>3
  <2> QED BY <2>1, FirstComments
<1>5. tasks' = [tasks EXCEPT ![k] = t]
  BY <1>4
<1>6. t \in Tasks /\ t.report = r /\ t.ready = tasks[k].ready /\ t.comments = new
  <2>1. new \in SUBSET (Parts \X Nat)
    BY <1>1 DEF Tasks
  <2> HIDE DEF new
  <2> QED BY <1>1, <2>1 DEF Tasks
<1>7. \A c \in new : c[2] = 1 /\ Uuid(r, "note_add", c[1]) \in executed'
  BY <1>3
<1>8. ASSUME Complete(tasks[k].comments) PROVE Complete(new)
  <2>1. fresh = {}
    <3>1. ASSUME NEW p \in fresh PROVE FALSE
      <4>1. <<p, 1>> \in tasks[k].comments
        BY <1>8 DEF Complete
      <4> QED BY <1>3, <4>1
    <3> QED BY <3>1
  <2> QED BY <1>8, <2>1
<1>9. tasks[k].ready => Complete(new)
  BY <1>1, <1>2, <1>8 DEF MarkedWhenComplete
<1> HIDE DEF t, new
<1> QED BY <1>1, <1>5, <1>6, <1>7, <1>8, <1>9, TaskExecuted

\* A complete task is marked.
LEMMA MarkExecuted ==
  ASSUME DeliveryInv, NEW r \in Reports, NEW k \in TasksOf(r), Complete(tasks[k].comments),
         executed \subseteq executed', tasks' = [tasks EXCEPT ![k].ready = TRUE]
  PROVE  Grown
<1> DEFINE t == [tasks[k] EXCEPT !.ready = TRUE]
<1>1. k \in DOMAIN tasks /\ tasks[k].report = r /\ tasks[k] \in Tasks /\ MadeOnce
  BY TasksAre DEF TasksOf, DeliveryInv
<1>2. tasks' = [tasks EXCEPT ![k] = t]
  OBVIOUS
<1>3. t \in Tasks /\ t.report = r /\ t.ready /\ t.comments = tasks[k].comments
  BY <1>1 DEF Tasks
<1>4. \A c \in tasks[k].comments : c[2] = 1 /\ Uuid(r, "note_add", c[1]) \in executed'
  BY <1>1 DEF MadeOnce
<1> HIDE DEF t
<1>5. Complete(t.comments) /\ t.report = tasks[k].report /\ (tasks[k].ready => t.ready)
  BY <1>1, <1>3
<1>6. \A c \in t.comments : c[2] = 1 /\ Uuid(t.report, "note_add", c[1]) \in executed'
  BY <1>3, <1>4
<1> QED BY <1>1, <1>2, <1>3, <1>5, <1>6, TaskExecuted

\* Todoist executes a request, or part of it.
LEMMA Executed ==
  ASSUME DeliveryInv, NEW q, Good(q), NEW parts \in SUBSET DOMAIN q.uuid, Execute(q, parts)
  PROVE  Grown
<1> DEFINE fresh == {p \in parts : q.uuid[p] \notin executed}
<1>1. /\ executed' = executed \cup {q.uuid[p] : p \in fresh}
      /\ tasks' =
            CASE fresh = {} -> tasks
              [] fresh # {} /\ q.type = "item_add" -> Append(tasks, NewTask(q.report))
              [] fresh # {} /\ q.type = "note_add" ->
                   [tasks EXCEPT ![q.task].comments = Commented(@, fresh)]
              [] fresh # {} /\ q.type = "item_update" -> [tasks EXCEPT ![q.task].ready = TRUE]
  BY DEF Execute
<1>2. /\ q.report \in Reports /\ \A p \in parts : q.uuid[p] = Uuid(q.report, q.type, p)
      /\ \A p \in fresh : Uuid(q.report, q.type, p) \notin executed
      /\ fresh \subseteq DOMAIN q.uuid
  BY DEF Good
<1>3. executed' = executed \cup {Uuid(q.report, q.type, p) : p \in fresh}
  BY <1>1, <1>2
<1> HIDE DEF fresh
<1>4. CASE fresh = {}
  <2>1. UNCHANGED <<tasks, executed>>
    BY <1>1, <1>3, <1>4
  <2> QED BY <2>1, NothingMade
<1>5. CASE fresh # {} /\ q.type = "item_add" /\ DOMAIN q.uuid = {0}
  <2>1. fresh = {0}
    BY <1>2, <1>5
  <2>2. executed' = executed \cup {Uuid(q.report, "item_add", 0)}
    BY <1>3, <1>5, <2>1
  <2>3. Uuid(q.report, "item_add", 0) \notin executed
    BY <1>2, <1>5, <2>1
  <2>4. tasks' = Append(tasks, NewTask(q.report))
    BY <1>1, <1>5
  <2> QED BY <1>2, <2>2, <2>3, <2>4, AddExecuted
<1>6. CASE /\ fresh # {} /\ q.type = "note_add" /\ DOMAIN q.uuid \subseteq Parts
           /\ q.task \in TasksOf(q.report)
  <2>1. tasks' = [tasks EXCEPT ![q.task].comments = Commented(@, fresh)]
    BY <1>1, <1>6
  <2>2. fresh \in SUBSET Parts
    BY <1>2, <1>6
  <2>3. /\ \A p \in fresh : Uuid(q.report, "note_add", p) \notin executed
        /\ executed' = executed \cup {Uuid(q.report, "note_add", p) : p \in fresh}
    BY <1>2, <1>3, <1>6
  <2> QED BY <1>2, <1>6, <2>1, <2>2, <2>3, NotesExecuted
<1>7. CASE fresh # {} /\ q.type = "item_update" /\ q.task \in TasksOf(q.report)
  <2>1. tasks' = [tasks EXCEPT ![q.task].ready = TRUE]
    BY <1>1, <1>7
  <2>2. executed \subseteq executed' /\ Complete(tasks[q.task].comments)
    BY <1>3, <1>7 DEF Good
  <2> QED BY <1>2, <1>7, <2>1, <2>2, MarkExecuted
<1> QED BY <1>4, <1>5, <1>6, <1>7 DEF Good

-----------------------------------------------------------------------------
(* The store and the job.                                                  *)

Saving == {"find", "create", "refind"}
Marking == {"openToReady", "ready", "confirm"}

\* The rows after a step, and the job, in terms of the tasks there are.
Stored ==
    /\ rows' \in [Reports -> Rows]
    /\ \A r \in Reports :
         /\ rows'[r].task # NoTask => rows'[r].task \in TasksOf(r)
         /\ rows'[r].state = "delivered" =>
               rows[r].state = "delivered" \/ \E k \in TasksOf(r) : tasks[k].ready

JobFits ==
    \/ job' = Idle
    \/ /\ job' \in Jobs'
       /\ job'.step \notin Saving =>
             \/ job'.step = "verify" /\ job'.task = NoTask
             \/ job'.task \in TasksOf(job'.report)
       /\ job'.step \in Marking => Complete(tasks[job'.task].comments)

LEMMA GrownTasks ==
  ASSUME Grown, NEW r, NEW k \in TasksOf(r)
  PROVE  /\ k \in TasksOf(r)' /\ (tasks[k].ready => tasks'[k].ready)
         /\ Complete(tasks[k].comments) => Complete(tasks'[k].comments)
BY DEF Grown, TasksOf

\* What every step comes to.
LEMMA StepKeeps ==
  ASSUME DeliveryInv, Grown, received' \in Seq(Reports), Stored, JobFits,
         \A q \in wire' : Good(q)
  PROVE  DeliveryInv'
<1>1. Kinds'
  <2>1. job' = Idle \/ job' \in Jobs'
    BY DEF JobFits
  <2> QED BY <2>1 DEF Kinds, Grown, Stored
<1>2. ASSUME NEW r, NEW k, k \in TasksOf(r)
      PROVE  /\ k \in TasksOf(r)' /\ (tasks[k].ready => tasks'[k].ready)
             /\ Complete(tasks[k].comments) => Complete(tasks'[k].comments)
  BY <1>2, GrownTasks
<1>3. RequestsAreOurs'
  BY <1>2 DEF Good, RequestsAreOurs
<1>4. \A r \in Reports : rows'[r].task # NoTask => rows'[r].task \in TasksOf(r)'
  BY <1>2 DEF Stored
<1>5. ASSUME job' # Idle, job'.step \notin Saving
      PROVE  \/ job'.step = "verify" /\ job'.task = NoTask
             \/ job'.task \in TasksOf(job.report)'
  <2>1. \/ job'.step = "verify" /\ job'.task = NoTask
        \/ job'.task \in TasksOf(job'.report)
    BY <1>5 DEF JobFits
  <2> QED BY <2>1 DEF TasksOf, Grown
<1>6. TasksAreOurs'
  BY <1>4, <1>5 DEF TasksAreOurs, Saving
<1>7. ASSUME job' # Idle, job'.step \in Marking
      PROVE  Complete(tasks'[job'.task].comments)
  <2>1. Complete(tasks[job'.task].comments) /\ job'.task \in TasksOf(job'.report)
    BY <1>7 DEF JobFits, Saving, Marking
  <2> QED BY <1>2, <2>1
<1>8. \A q \in wire' : q.type = "item_update" => Complete(tasks'[q.task].comments)
  <2>1. SUFFICES ASSUME NEW q \in wire', q.type = "item_update"
                 PROVE  Complete(tasks'[q.task].comments)
    OBVIOUS
  <2>2. q.task \in TasksOf(q.report) /\ Complete(tasks[q.task].comments)
    BY <2>1 DEF Good
  <2> QED BY <1>2, <2>2
<1>9. \A k \in DOMAIN tasks' : tasks'[k].ready => Complete(tasks'[k].comments)
  BY DEF Grown
<1>10. \A r \in Reports : rows'[r].state = "delivered" => \E k \in TasksOf(r)' : tasks'[k].ready
  <2>1. SUFFICES ASSUME NEW r \in Reports, rows'[r].state = "delivered"
                 PROVE  \E k \in TasksOf(r)' : tasks'[k].ready
    OBVIOUS
  <2>2. \E k \in TasksOf(r) : tasks[k].ready
    BY <2>1 DEF Stored, DeliveryInv, MarkedWhenComplete
  <2> QED BY <1>2, <2>2
<1>11. MarkedWhenComplete'
  BY <1>7, <1>8, <1>9, <1>10 DEF MarkedWhenComplete, Marking
<1>12. MadeOnce'
  BY DEF Grown
<1> QED BY <1>1, <1>3, <1>6, <1>11, <1>12 DEF DeliveryInv

LEMMA RowsAre ==
  ASSUME DeliveryInv
  PROVE  /\ rows \in [Reports -> Rows] /\ received \in Seq(Reports)
         /\ job = Idle \/ job \in Jobs
         /\ \A r \in Reports : rows[r].task # NoTask => rows[r].task \in TasksOf(r)
BY DEF DeliveryInv, Kinds, TasksAreOurs

\* The rows stay.
LEMMA StoredSame ==
  ASSUME DeliveryInv, UNCHANGED rows
  PROVE  Stored
BY RowsAre DEF Stored

\* One row changes.
LEMMA StoredRow ==
  ASSUME DeliveryInv, NEW r \in Reports, NEW x \in Rows, rows' = [rows EXCEPT ![r] = x],
         x.task # NoTask => x.task \in TasksOf(r),
         x.state = "delivered" => rows[r].state = "delivered" \/ \E k \in TasksOf(r) : tasks[k].ready
  PROVE  Stored
<1>1. /\ rows \in [Reports -> Rows]
      /\ \A s \in Reports : rows[s].task # NoTask => rows[s].task \in TasksOf(s)
  BY RowsAre
<1>2. /\ rows' \in [Reports -> Rows]
      /\ \A s \in Reports : rows'[s] = IF s = r THEN x ELSE rows[s]
  <2> HIDE DEF Rows
  <2> QED BY <1>1
<1> QED BY <1>1, <1>2 DEF Stored

\* The job stays.
LEMMA JobSame ==
  ASSUME DeliveryInv, UNCHANGED job
  PROVE  JobFits
<1>1. job = Idle \/ job \in Jobs
  BY RowsAre
<1>2. job \in Jobs => job' \in Jobs'
  BY DEF Jobs
<1> QED BY <1>1, <1>2 DEF DeliveryInv, TasksAreOurs, MarkedWhenComplete, JobFits, Saving, Marking

\* A job under way has a report, and a step.
LEMMA JobIs ==
  ASSUME DeliveryInv, job # Idle
  PROVE  /\ job.report \in Reports /\ job.step \in Steps /\ job.task \in Nat
         /\ job.missing \in SUBSET Parts /\ job.answered \in BOOLEAN
         /\ DOMAIN job = {"report", "step", "task", "missing", "request", "answered"}
BY RowsAre DEF Jobs

\* An idle job is at no step.
LEMMA AtAStep ==
  ASSUME job.step \in Steps
  PROVE  job # Idle
BY DEF Idle, Steps

LEMMA DeferredIs ==
  ASSUME DeliveryInv, NEW r \in Reports, NEW state \in {"pending", "blocked"}, Deferred(r, state)
  PROVE  Stored
<1> DEFINE x == [rows[r] EXCEPT !.state = state,
                                !.attempts = IF @ < MaxAttempts THEN @ + 1 ELSE @]
<1>1. rows \in [Reports -> Rows] /\ (rows[r].task # NoTask => rows[r].task \in TasksOf(r))
  BY RowsAre
<1>2. rows' = [rows EXCEPT ![r] = x]
  BY <1>1 DEF Deferred
<1>3. x \in Rows /\ x.task = rows[r].task /\ x.state = state
  <2>1. rows[r] \in Rows /\ (IF rows[r].attempts < MaxAttempts THEN rows[r].attempts + 1
                             ELSE rows[r].attempts) \in Nat
    BY <1>1 DEF Rows
  <2> QED BY <2>1 DEF Rows
<1> HIDE DEF x
<1> QED BY <1>1, <1>2, <1>3, StoredRow

\* The job failed.
LEMMA GaveUp ==
  ASSUME DeliveryInv, job # Idle, NEW state \in {"pending", "blocked"}, GiveUp(state)
  PROVE  Stored /\ JobFits
<1>1. JobFits
  BY DEF GiveUp, JobFits
<1>2. CASE closed
  <2>1. UNCHANGED rows
    BY <1>2 DEF GiveUp
  <2> QED BY <1>1, <2>1, StoredSame
<1>3. CASE ~closed
  <2>1. Deferred(job.report, state)
    BY <1>3 DEF GiveUp
  <2> QED BY <1>1, <2>1, JobIs, DeferredIs
<1> QED BY <1>1, <1>2, <1>3

\* The job goes on to another step.
LEMMA Proceeded ==
  ASSUME DeliveryInv, job # Idle, NEW step \in Steps, Proceed(step), UNCHANGED rows,
         step \notin Saving => job.task \in TasksOf(job.report),
         step \in Marking => Complete(tasks[job.task].comments)
  PROVE  Stored /\ JobFits
<1>1. /\ job.report \in Reports /\ job.step \in Steps /\ job.task \in Nat
      /\ job.missing \in SUBSET Parts /\ job.answered \in BOOLEAN /\ job \in Jobs
  BY JobIs, RowsAre
<1>2. /\ job' \in Jobs' /\ job'.step = step /\ job'.task = job.task
      /\ job'.report = job.report
  BY <1>1 DEF Proceed, Jobs
<1> QED BY <1>2, StoredSame DEF JobFits

\* The job asks for something.
LEMMA Sent ==
  ASSUME DeliveryInv, job # Idle, NEW step \in Steps, NEW q, Send(q, step), Good(q), UNCHANGED rows,
         step \notin Saving => job.task \in TasksOf(job.report),
         step \in Marking => Complete(tasks[job.task].comments)
  PROVE  Stored /\ JobFits /\ \A w \in wire' : Good(w)
<1>1. /\ job.report \in Reports /\ job.step \in Steps /\ job.task \in Nat
      /\ job.missing \in SUBSET Parts /\ job.answered \in BOOLEAN /\ job \in Jobs
  BY JobIs, RowsAre
<1>2. /\ job' = [job EXCEPT !.step = step, !.request = q, !.answered = FALSE]
      /\ wire' = wire \cup {q}
  BY DEF Send
<1>3. /\ job' \in Jobs' /\ job'.step = step /\ job'.task = job.task
      /\ job'.report = job.report
  BY <1>1, <1>2 DEF Jobs
<1> QED BY <1>2, <1>3, GoodRequests, StoredSame DEF JobFits

\* The task of the report is saved.
LEMMA TaskSaved ==
  ASSUME DeliveryInv, job # Idle, NEW k \in TasksOf(job.report), SaveTask(k)
  PROVE  Stored /\ JobFits
<1> DEFINE r == job.report
           x == [rows[r] EXCEPT !.task = k]
           y == [rows[r] EXCEPT !.task = k, !.state = "pending",
                                !.attempts = IF @ < MaxAttempts THEN @ + 1 ELSE @]
<1>1. /\ job.report \in Reports /\ job.step \in Steps /\ job.task \in Nat
      /\ job.missing \in SUBSET Parts /\ job.answered \in BOOLEAN /\ job \in Jobs
  BY JobIs, RowsAre
<1>2. rows \in [Reports -> Rows] /\ k \in Nat
  BY RowsAre, TasksAre DEF TasksOf
<1>3. CASE /\ rows' = [rows EXCEPT ![job.report].task = k]
           /\ job' = [job EXCEPT !.step = "open", !.task = k, !.request = NoRequest,
                                 !.answered = FALSE]
  <2>1. rows' = [rows EXCEPT ![r] = x]
    BY <1>3
  <2>2. x \in Rows /\ x.task = k /\ x.state = rows[r].state
    BY <1>1, <1>2 DEF Rows
  <2> HIDE DEF x
  <2>3. Stored
    BY <1>1, <2>1, <2>2, StoredRow
  <2>4. /\ job' \in Jobs' /\ job'.step = "open" /\ job'.task = k
        /\ job'.report = job.report
    BY <1>1, <1>2, <1>3 DEF Jobs, Steps
  <2>5. JobFits
    BY <2>4 DEF JobFits, Saving, Marking
  <2> QED BY <2>3, <2>5
<1>4. CASE /\ job' = Idle
           /\ rows' = [rows EXCEPT ![job.report].task = k, ![job.report].state = "pending",
                               ![job.report].attempts = IF @ < MaxAttempts THEN @ + 1 ELSE @]
  <2>1. rows' = [rows EXCEPT ![r] = y]
    BY <1>1, <1>2, <1>4
  <2>2. y \in Rows /\ y.task = k /\ y.state = "pending"
    <3>1. rows[r] \in Rows /\ (IF rows[r].attempts < MaxAttempts THEN rows[r].attempts + 1
                               ELSE rows[r].attempts) \in Nat
      BY <1>1, <1>2 DEF Rows
    <3> QED BY <1>2, <3>1 DEF Rows
  <2> HIDE DEF y
  <2>3. Stored
    BY <1>1, <2>1, <2>2, StoredRow
  <2> QED BY <1>4, <2>3 DEF JobFits
<1>5. CASE job' = Idle /\ UNCHANGED rows
  BY <1>5, StoredSame DEF JobFits
<1> QED BY <1>3, <1>4, <1>5 DEF SaveTask

\* What a step of the job leaves alone.
LEMMA RemoteSame ==
  ASSUME DeliveryInv, UNCHANGED <<received, tasks, executed>>, Stored, JobFits,
         \A q \in wire' : Good(q)
  PROVE  DeliveryInv'
<1>1. Grown /\ received' \in Seq(Reports)
  BY NothingMade, RowsAre
<1> QED BY <1>1, StepKeeps

LEMMA RequestsSame ==
  ASSUME DeliveryInv, wire' \subseteq wire
  PROVE  \A q \in wire' : Good(q)
BY GoodRequests

-----------------------------------------------------------------------------
(* The actions.                                                            *)

\* What is known at a step of the job.
LEMMA StepIs ==
  ASSUME DeliveryInv, job.step \in Steps
  PROVE  /\ job # Idle /\ job.report \in Reports
         /\ job.step \notin Saving =>
               \/ job.step = "verify" /\ job.task = NoTask
               \/ job.task \in TasksOf(job.report)
         /\ job.step \in Marking => Complete(tasks[job.task].comments)
BY AtAStep, JobIs DEF DeliveryInv, TasksAreOurs, MarkedWhenComplete, Saving, Marking

LEMMA AcceptKeeps ==
  ASSUME DeliveryInv, NEW r \in Reports, Accept(r)
  PROVE  DeliveryInv'
<1> DEFINE x == [Absent EXCEPT !.payload = TRUE, !.state = IF configured THEN "pending" ELSE "blocked"]
<1>1. /\ rows' = [rows EXCEPT ![r] = x] /\ received' = Append(received, r)
      /\ UNCHANGED <<job, wire, tasks, executed>>
  BY DEF Accept, jobVars, remoteVars
<1>2. x \in Rows /\ x.task = NoTask /\ x.state # "delivered"
  BY DEF Rows, Absent, NoTask
<1> HIDE DEF x
<1>3. Stored
  BY <1>1, <1>2, StoredRow
<1>4. received' \in Seq(Reports)
  BY <1>1, RowsAre, AppendProperties
<1> QED BY <1>1, <1>3, <1>4, NothingMade, JobSame, RequestsSame, StepKeeps

LEMMA DeliverNextKeeps ==
  ASSUME DeliveryInv, DeliverNext
  PROVE  DeliveryInv'
<1>1. UNCHANGED <<received, rows, wire, tasks, executed>>
  BY DEF DeliverNext, remoteVars
<1>2. JobFits
  <2>1. CASE UNCHANGED job
    BY <2>1, JobSame
  <2>2. ASSUME NEW r \in NextUp,
               job' = [Idle EXCEPT !.report = r, !.step = "verify", !.task = rows[r].task]
        PROVE  JobFits
    <3>1. r \in Reports
      <4>1. PICK i \in DOMAIN received : r = received[i]
        BY DEF NextUp
      <4> QED BY <4>1, RowsAre, ElementOfSeq
    <3>2. /\ rows[r] \in Rows /\ rows[r].task \in Nat
          /\ rows[r].task # NoTask => rows[r].task \in TasksOf(r)
      BY <3>1, RowsAre DEF Rows
    <3>3. /\ job' \in Jobs' /\ job'.step = "verify" /\ job'.task = rows[r].task
          /\ job'.report = r
      BY <2>2, <3>1, <3>2 DEF Jobs, Idle, Steps
    <3> QED BY <3>2, <3>3 DEF JobFits, Saving, Marking
  <2> QED BY <2>1, <2>2 DEF DeliverNext
<1> QED BY <1>1, <1>2, StoredSame, RequestsSame, RemoteSame

LEMMA VerifyKeeps ==
  ASSUME DeliveryInv, Verify
  PROVE  DeliveryInv'
<1>1. job.step = "verify" /\ UNCHANGED <<received, wire, tasks, executed>>
  BY DEF Verify, remoteVars
<1>2. /\ job # Idle /\ job.report \in Reports
      /\ job.task = NoTask \/ job.task \in TasksOf(job.report)
  BY <1>1, StepIs DEF Steps, Saving
<1>3. Stored /\ JobFits
  <2>1. CASE GiveUp("blocked")
    BY <1>2, <2>1, GaveUp
  <2>2. CASE Continue("find")
    <3>1. Proceed("find") /\ UNCHANGED rows
      BY <2>2 DEF Continue
    <3>2. "find" \in Steps /\ "find" \in Saving /\ "find" \notin Marking
      BY DEF Steps, Saving, Marking
    <3> QED BY <1>2, <3>1, <3>2, Proceeded
  <2>3. CASE job.task # NoTask /\ SaveTask(job.task)
    BY <1>2, <2>3, TaskSaved
  <2> QED BY <2>1, <2>2, <2>3 DEF Verify
<1> QED BY <1>1, <1>3, RequestsSame, RemoteSame

LEMMA FindTaskKeeps ==
  ASSUME DeliveryInv, NEW step \in {"find", "refind"}, FindTask(step)
  PROVE  DeliveryInv'
<1>1. job.step = step /\ UNCHANGED <<received, tasks, executed>>
  BY DEF FindTask
<1>2. job # Idle /\ job.report \in Reports
  BY <1>1, StepIs DEF Steps
<1>3. ListedTasks(job.report) \subseteq TasksOf(job.report)
  BY DEF ListedTasks
<1>4. CASE UNCHANGED wire /\ \E state \in {"pending", "blocked"} : GiveUp(state)
  <2>1. Stored /\ JobFits
    BY <1>2, <1>4, GaveUp
  <2> QED BY <1>1, <1>4, <2>1, RequestsSame, RemoteSame
<1>5. CASE UNCHANGED wire /\ \E k \in ListedTasks(job.report) : SaveTask(k)
  <2>1. Stored /\ JobFits
    BY <1>2, <1>3, <1>5, TaskSaved
  <2> QED BY <1>1, <1>5, <2>1, RequestsSame, RemoteSame
<1>6. CASE UNCHANGED rows /\ Send(Request("item_add", job.report, {0}, NoTask), "create")
  <2>1. Good(Request("item_add", job.report, {0}, NoTask))
    BY <1>2 DEF Good, Request
  <2>2. "create" \in Steps /\ "create" \in Saving /\ "create" \notin Marking
    BY DEF Steps, Saving, Marking
  <2>3. Stored /\ JobFits /\ \A w \in wire' : Good(w)
    BY <1>2, <1>6, <2>1, <2>2, Sent
  <2> QED BY <1>1, <2>3, RemoteSame
<1> QED BY <1>4, <1>5, <1>6 DEF FindTask

LEMMA CreatedKeeps ==
  ASSUME DeliveryInv, Created
  PROVE  DeliveryInv'
<1>1. job.step = "create" /\ UNCHANGED <<received, wire, tasks, executed>>
  BY DEF Created, remoteVars
<1>2. job # Idle /\ job.report \in Reports
  BY <1>1, StepIs DEF Steps
<1>3. Stored /\ JobFits
  <2>1. CASE \E k \in TasksOf(job.report) : SaveTask(k)
    BY <1>2, <2>1, TaskSaved
  <2>2. CASE Continue("refind")
    <3>1. Proceed("refind") /\ UNCHANGED rows
      BY <2>2 DEF Continue
    <3>2. "refind" \in Steps /\ "refind" \in Saving /\ "refind" \notin Marking
      BY DEF Steps, Saving, Marking
    <3> QED BY <1>2, <3>1, <3>2, Proceeded
  <2> QED BY <2>1, <2>2 DEF Created
<1> QED BY <1>1, <1>3, RequestsSame, RemoteSame

LEMMA OpenTaskKeeps ==
  ASSUME DeliveryInv, OpenTask("open", "list")
  PROVE  DeliveryInv'
<1>1. job.step = "open" /\ UNCHANGED <<received, wire, tasks, executed>>
  BY DEF OpenTask, Look, remoteVars
<1>2. job # Idle /\ job.report \in Reports /\ job.task \in TasksOf(job.report)
  BY <1>1, StepIs DEF Steps, Saving
<1>3. Stored /\ JobFits
  <2>1. CASE GiveUp("blocked")
    BY <1>2, <2>1, GaveUp
  <2>2. CASE Continue("list")
    <3>1. Proceed("list") /\ UNCHANGED rows
      BY <2>2 DEF Continue
    <3>2. "list" \in Steps /\ "list" \notin Marking
      BY DEF Steps, Marking
    <3> QED BY <1>2, <3>1, <3>2, Proceeded
  <2> QED BY <2>1, <2>2 DEF OpenTask
<1> QED BY <1>1, <1>3, RequestsSame, RemoteSame

\* The list of parts to post changes, and with it the step.
LEMMA PartsKnown ==
  ASSUME DeliveryInv, job # Idle, job.task \in TasksOf(job.report),
         NEW missing \in SUBSET Parts, NEW step \in {"check", "openToPost"},
         NEW request \in {job.request, NoRequest}, NEW answered \in BOOLEAN,
         job' = [job EXCEPT !.missing = missing, !.request = request,
                            !.answered = answered, !.step = step]
  PROVE  JobFits
<1>1. /\ job.report \in Reports /\ job.step \in Steps /\ job.task \in Nat
      /\ job.missing \in SUBSET Parts /\ job.answered \in BOOLEAN /\ job \in Jobs
  BY JobIs, RowsAre
<1>2. /\ job' \in Jobs' /\ job'.step = step /\ job'.task = job.task
      /\ job'.report = job.report
  BY <1>1 DEF Jobs, Steps
<1> QED BY <1>2 DEF JobFits, Marking

LEMMA ListCommentsKeeps ==
  ASSUME DeliveryInv, ListComments
  PROVE  DeliveryInv'
<1> DEFINE missing == {p \in Parts : \A c \in tasks[job.task].comments : c[1] # p}
           step == IF missing = {} THEN "check" ELSE "openToPost"
<1>1. /\ job.step = "list" /\ UNCHANGED <<received, rows, wire, tasks, executed>>
      /\ job' = [job EXCEPT !.missing = missing, !.step = step]
  BY DEF ListComments, Look, remoteVars
<1>2. job # Idle /\ job.task \in TasksOf(job.report)
  BY <1>1, StepIs DEF Steps, Saving
<1>3. missing \in SUBSET Parts /\ step \in {"check", "openToPost"}
  OBVIOUS
<1> HIDE DEF missing, step
<1>4. job.answered \in BOOLEAN /\ job \in Jobs
  BY <1>2, JobIs, RowsAre
<1>5. job' = [job EXCEPT !.missing = missing, !.request = job.request,
                         !.answered = job.answered, !.step = step]
  BY <1>1, <1>4 DEF Jobs
<1> QED BY <1>1, <1>2, <1>3, <1>4, <1>5, PartsKnown, StoredSame, RequestsSame, RemoteSame

LEMMA PostCommentsKeeps ==
  ASSUME DeliveryInv, PostComments
  PROVE  DeliveryInv'
<1>1. job.step = "openToPost" /\ UNCHANGED <<received, tasks, executed>>
  BY DEF PostComments
<1>2. job # Idle /\ job.report \in Reports /\ job.task \in TasksOf(job.report)
  BY <1>1, StepIs DEF Steps, Saving
<1>3. CASE UNCHANGED wire /\ GiveUp("blocked")
  <2>1. Stored /\ JobFits
    BY <1>2, <1>3, GaveUp
  <2> QED BY <1>1, <1>3, <2>1, RequestsSame, RemoteSame
<1>4. CASE UNCHANGED rows /\ Send(Request("note_add", job.report, Batch, job.task), "post")
  <2>1. Batch \subseteq Parts
    BY <1>2, JobIs DEF Batch
  <2>2. Good(Request("note_add", job.report, Batch, job.task))
    BY <1>2, <2>1 DEF Good, Request
  <2>3. "post" \in Steps /\ "post" \notin Marking
    BY DEF Steps, Marking
  <2>4. Stored /\ JobFits /\ \A w \in wire' : Good(w)
    BY <1>2, <1>4, <2>2, <2>3, Sent
  <2> QED BY <1>1, <2>4, RemoteSame
<1> QED BY <1>3, <1>4 DEF PostComments

LEMMA PostedKeeps ==
  ASSUME DeliveryInv, Posted
  PROVE  DeliveryInv'
<1> DEFINE left == job.missing \ Batch
           step == IF left = {} THEN "check" ELSE "openToPost"
<1>1. /\ job.step = "post" /\ UNCHANGED <<received, rows, wire, tasks, executed>>
      /\ job' = [job EXCEPT !.missing = left, !.request = NoRequest, !.answered = FALSE,
                            !.step = step]
  BY DEF Posted, Look, remoteVars
<1>2. job # Idle /\ job.task \in TasksOf(job.report)
  BY <1>1, StepIs DEF Steps, Saving
<1>3. left \in SUBSET Parts /\ step \in {"check", "openToPost"}
  BY <1>2, JobIs
<1> HIDE DEF left, step
<1>4. JobFits
  BY <1>1, <1>2, <1>3, PartsKnown
<1> QED BY <1>1, <1>4, StoredSame, RequestsSame, RemoteSame

LEMMA CheckCommentsKeeps ==
  ASSUME DeliveryInv, CheckComments
  PROVE  DeliveryInv'
<1>1. job.step = "check" /\ UNCHANGED <<received, wire, tasks, executed>>
  BY DEF CheckComments, Look, remoteVars
<1>2. job # Idle /\ job.report \in Reports /\ job.task \in TasksOf(job.report)
  BY <1>1, StepIs DEF Steps, Saving
<1>3. Stored /\ JobFits
  <2>1. CASE \E state \in {"pending", "blocked"} : GiveUp(state)
    BY <1>2, <2>1, GaveUp
  <2>2. CASE Complete(tasks[job.task].comments) /\ Continue("openToReady")
    <3>1. Proceed("openToReady") /\ UNCHANGED rows
      BY <2>2 DEF Continue
    <3>2. "openToReady" \in Steps
      BY DEF Steps
    <3> QED BY <1>2, <2>2, <3>1, <3>2, Proceeded
  <2> QED BY <2>1, <2>2 DEF CheckComments
<1> QED BY <1>1, <1>3, RequestsSame, RemoteSame

LEMMA MarkReadyKeeps ==
  ASSUME DeliveryInv, MarkReady
  PROVE  DeliveryInv'
<1>1. job.step = "openToReady" /\ UNCHANGED <<received, tasks, executed>>
  BY DEF MarkReady
<1>2. /\ job # Idle /\ job.report \in Reports /\ job.task \in TasksOf(job.report)
      /\ Complete(tasks[job.task].comments)
  BY <1>1, StepIs DEF Steps, Saving, Marking
<1>3. CASE UNCHANGED wire /\ GiveUp("blocked")
  <2>1. Stored /\ JobFits
    BY <1>2, <1>3, GaveUp
  <2> QED BY <1>1, <1>3, <2>1, RequestsSame, RemoteSame
<1>4. CASE UNCHANGED rows /\ Send(Request("item_update", job.report, {0}, job.task), "ready")
  <2>1. Good(Request("item_update", job.report, {0}, job.task))
    BY <1>2 DEF Good, Request
  <2>2. "ready" \in Steps
    BY DEF Steps
  <2>3. Stored /\ JobFits /\ \A w \in wire' : Good(w)
    BY <1>2, <1>4, <2>1, <2>2, Sent
  <2> QED BY <1>1, <2>3, RemoteSame
<1> QED BY <1>3, <1>4 DEF MarkReady

LEMMA MarkedReadyKeeps ==
  ASSUME DeliveryInv, MarkedReady
  PROVE  DeliveryInv'
<1>1. /\ job.step = "ready" /\ UNCHANGED <<received, wire, tasks, executed>>
      /\ Proceed("confirm") /\ UNCHANGED rows
  BY DEF MarkedReady, Look, Continue, remoteVars
<1>2. /\ job # Idle /\ job.report \in Reports /\ job.task \in TasksOf(job.report)
      /\ Complete(tasks[job.task].comments)
  BY <1>1, StepIs DEF Steps, Saving, Marking
<1>3. "confirm" \in Steps
  BY DEF Steps
<1>4. Stored /\ JobFits
  BY <1>1, <1>2, <1>3, Proceeded
<1> QED BY <1>1, <1>4, RequestsSame, RemoteSame

\* The row of a report whose task is marked says so.
LEMMA DeliveredIs ==
  ASSUME DeliveryInv, job # Idle, NEW k \in TasksOf(job.report), tasks[k].ready, Delivered
  PROVE  Stored /\ JobFits
<1> DEFINE r == job.report
           x == [rows[r] EXCEPT !.state = "delivered", !.payload = FALSE]
           y == [rows[r] EXCEPT !.state = "pending", !.payload = FALSE,
                                !.attempts = IF @ < MaxAttempts THEN @ + 1 ELSE @]
<1>1. /\ rows \in [Reports -> Rows] /\ r \in Reports /\ rows[r] \in Rows
      /\ rows[r].task # NoTask => rows[r].task \in TasksOf(r)
  BY RowsAre, JobIs
<1>2. JobFits
  BY DEF Delivered, JobFits
<1>3. CASE rows' = [rows EXCEPT ![r].state = "delivered", ![r].payload = FALSE]
  <2>1. rows' = [rows EXCEPT ![r] = x]
    BY <1>1, <1>3
  <2>2. x \in Rows /\ x.task = rows[r].task
    BY <1>1 DEF Rows
  <2> HIDE DEF x
  <2> QED BY <1>1, <1>2, <2>1, <2>2, StoredRow
<1>4. CASE rows' = [rows EXCEPT ![r].state = "pending", ![r].payload = FALSE,
                                ![r].attempts = IF @ < MaxAttempts THEN @ + 1 ELSE @]
  <2>1. rows' = [rows EXCEPT ![r] = y]
    BY <1>1, <1>4
  <2>2. y \in Rows /\ y.task = rows[r].task /\ y.state = "pending"
    <3>1. (IF rows[r].attempts < MaxAttempts THEN rows[r].attempts + 1
           ELSE rows[r].attempts) \in Nat
      BY <1>1 DEF Rows
    <3> QED BY <1>1, <3>1 DEF Rows
  <2> HIDE DEF y
  <2> QED BY <1>1, <1>2, <2>1, <2>2, StoredRow
<1>5. CASE UNCHANGED rows
  BY <1>2, <1>5, StoredSame
<1> QED BY <1>3, <1>4, <1>5 DEF Delivered

LEMMA ConfirmKeeps ==
  ASSUME DeliveryInv, Confirm
  PROVE  DeliveryInv'
<1>1. job.step = "confirm" /\ UNCHANGED <<received, wire, tasks, executed>>
  BY DEF Confirm, remoteVars
<1>2. job # Idle /\ job.report \in Reports /\ job.task \in TasksOf(job.report)
  BY <1>1, StepIs DEF Steps, Saving
<1>3. Stored /\ JobFits
  <2>1. CASE \E state \in {"pending", "blocked"} : GiveUp(state)
    BY <1>2, <2>1, GaveUp
  <2>2. CASE Confirmed(tasks[job.task]) /\ Delivered
    BY <1>2, <2>2, DeliveredIs DEF Confirmed
  <2> QED BY <2>1, <2>2 DEF Confirm
<1> QED BY <1>1, <1>3, RequestsSame, RemoteSame

LEMMA RequestFailsKeeps ==
  ASSUME DeliveryInv, RequestFails
  PROVE  DeliveryInv'
<1>1. job # Idle /\ UNCHANGED <<received, wire, tasks, executed>>
  BY DEF RequestFails, remoteVars
<1>2. Stored /\ JobFits
  BY <1>1, GaveUp DEF RequestFails
<1> QED BY <1>1, <1>2, RequestsSame, RemoteSame

LEMMA ArriveKeeps ==
  ASSUME DeliveryInv, NEW q \in wire, Arrive(q)
  PROVE  DeliveryInv'
<1>1. /\ UNCHANGED <<received, rows>> /\ wire' \subseteq wire
      /\ Execute(q, DOMAIN q.uuid)
      /\ job' = IF Awaits(q) THEN [job EXCEPT !.answered = TRUE] ELSE job
  BY DEF Arrive, storeVars
<1>2. Good(q)
  BY GoodRequests
<1>3. Grown
  BY <1>1, <1>2, Executed
<1>4. JobFits
  <2>1. CASE UNCHANGED job
    BY <2>1, JobSame
  <2>2. CASE job # Idle /\ job' = [job EXCEPT !.answered = TRUE]
    <3>1. /\ job.report \in Reports /\ job.step \in Steps /\ job.task \in Nat
          /\ job.missing \in SUBSET Parts /\ job.answered \in BOOLEAN /\ job \in Jobs
      BY <2>2, JobIs, RowsAre
    <3>2. /\ job' \in Jobs' /\ job'.step = job.step /\ job'.task = job.task
          /\ job'.report = job.report
      BY <2>2, <3>1 DEF Jobs
    <3> QED BY <3>1, <3>2, StepIs DEF JobFits
  <2> QED BY <1>1, <2>1, <2>2 DEF Awaits
<1> QED BY <1>1, <1>3, <1>4, RowsAre, StoredSame, RequestsSame, StepKeeps

LEMMA RefuseKeeps ==
  ASSUME DeliveryInv, NEW q \in wire, Refuse(q)
  PROVE  DeliveryInv'
<1>1. /\ UNCHANGED received /\ wire' \subseteq wire /\ job # Idle
      /\ \E parts \in SUBSET DOMAIN q.uuid : Execute(q, parts)
      /\ \E state \in {"pending", "blocked"} : GiveUp(state)
  <2>1. PICK others \in SUBSET DOMAIN q.uuid : Execute(q, others)
    BY DEF Refuse
  <2> QED BY <2>1 DEF Refuse, Awaits
<1>2. Good(q)
  BY GoodRequests
<1>3. Grown
  BY <1>1, <1>2, Executed
<1>4. Stored /\ JobFits
  BY <1>1, GaveUp
<1> QED BY <1>1, <1>3, <1>4, RowsAre, RequestsSame, StepKeeps

\* Somebody closes a task.
LEMMA CloseTaskKeeps ==
  ASSUME DeliveryInv, NEW k \in DOMAIN tasks, CloseTask(k)
  PROVE  DeliveryInv'
<1> DEFINE t == [tasks[k] EXCEPT !.open = FALSE]
<1>1. /\ UNCHANGED <<received, rows, job, wire, executed>>
      /\ tasks' = [tasks EXCEPT ![k] = t]
  BY DEF CloseTask, storeVars, jobVars
<1>2. tasks[k] \in Tasks /\ MadeOnce /\ MarkedWhenComplete
  BY TasksAre DEF DeliveryInv
<1>3. /\ t \in Tasks /\ t.report = tasks[k].report /\ t.ready = tasks[k].ready
      /\ t.comments = tasks[k].comments
  BY <1>2 DEF Tasks
<1> HIDE DEF t
<1>4. \A c \in t.comments : c[2] = 1 /\ Uuid(t.report, "note_add", c[1]) \in executed'
  BY <1>1, <1>2, <1>3 DEF MadeOnce
<1>5. t.ready => Complete(t.comments)
  BY <1>2, <1>3 DEF MarkedWhenComplete
<1>6. Grown
  BY <1>1, <1>3, <1>4, <1>5, TaskExecuted
<1> QED BY <1>1, <1>6, RowsAre, StoredSame, JobSame, RequestsSame, StepKeeps

\* Delays pass; the thread is asked to close, ends, and starts; a request is lost.
LEMMA LifeKeeps ==
  ASSUME DeliveryInv, UNCHANGED <<received, rows, tasks, executed>>, wire' \subseteq wire,
         job' \in {job, Idle}
  PROVE  DeliveryInv'
<1>1. JobFits
  BY JobSame DEF JobFits
<1> QED BY <1>1, StoredSame, RequestsSame, RemoteSame

-----------------------------------------------------------------------------
(* The theorems.                                                           *)

LEMMA InitDelivery == DeliveryInit => DeliveryInv
<1> SUFFICES ASSUME DeliveryInit PROVE DeliveryInv
  OBVIOUS
<1>1. /\ received = <<>> /\ rows = [r \in Reports |-> Absent] /\ job = Idle /\ wire = {}
      /\ tasks = <<>> /\ executed = {}
  BY DEF DeliveryInit
<1>2. Absent \in Rows /\ Absent.task = NoTask /\ Absent.state # "delivered"
  BY DEF Absent, Rows, NoTask
<1>3. Kinds
  <2> HIDE DEF Rows, Tasks
  <2> QED BY <1>1, <1>2 DEF Kinds
<1>4. DOMAIN tasks = {}
  BY <1>1
<1>5. RequestsAreOurs /\ TasksAreOurs /\ MadeOnce /\ MarkedWhenComplete
  BY <1>1, <1>2, <1>4 DEF RequestsAreOurs, TasksAreOurs, MadeOnce, MarkedWhenComplete
<1> QED BY <1>3, <1>5 DEF DeliveryInv

LEMMA NextKeepsDelivery == DeliveryInv /\ [DeliveryNext]_deliveryVars => DeliveryInv'
<1> SUFFICES ASSUME DeliveryInv, [DeliveryNext]_deliveryVars PROVE DeliveryInv'
  OBVIOUS
<1>1. ASSUME NEW r \in Reports, Accept(r) PROVE DeliveryInv'
  BY <1>1, AcceptKeeps
<1>2. ASSUME NEW r \in Reports, Wake(r) PROVE DeliveryInv'
  BY <1>2, LifeKeeps DEF Wake, jobVars, remoteVars
<1>3. CASE DeliverNext
  BY <1>3, DeliverNextKeeps
<1>4. CASE JobStep
  BY <1>4, VerifyKeeps, FindTaskKeeps, CreatedKeeps, OpenTaskKeeps, ListCommentsKeeps,
     PostCommentsKeeps, PostedKeeps, CheckCommentsKeeps, MarkReadyKeeps, MarkedReadyKeeps,
     ConfirmKeeps DEF JobStep
<1>5. CASE RequestFails
  BY <1>5, RequestFailsKeeps
<1>6. ASSUME NEW q \in wire, Arrive(q) PROVE DeliveryInv'
  BY <1>6, ArriveKeeps
<1>7. ASSUME NEW q \in wire, Refuse(q) PROVE DeliveryInv'
  BY <1>7, RefuseKeeps
<1>8. ASSUME NEW q \in wire, Drop(q) PROVE DeliveryInv'
  BY <1>8, LifeKeeps DEF Drop, storeVars, jobVars
<1>9. CASE CloseStore
  BY <1>9, LifeKeeps DEF CloseStore, storeVars, remoteVars
<1>10. CASE ThreadEnds
  BY <1>10, LifeKeeps DEF ThreadEnds, storeVars, remoteVars
<1>11. CASE Start
  BY <1>11, LifeKeeps DEF Start, remoteVars
<1>12. ASSUME NEW k \in DOMAIN tasks, CloseTask(k) PROVE DeliveryInv'
  BY <1>12, CloseTaskKeeps
<1>13. CASE UNCHANGED deliveryVars
  BY <1>13, LifeKeeps DEF deliveryVars, storeVars, jobVars, remoteVars
<1> QED
  BY <1>1, <1>2, <1>3, <1>4, <1>5, <1>6, <1>7, <1>8, <1>9, <1>10, <1>11, <1>12, <1>13
  DEF DeliveryNext

\* The state of deliveries is sound: every request carries the uuids stored for its
\* report, what was made with one was made once, and a task is asked to be marked
\* only when it is complete.
THEOREM DeliveryIsSound == DeliverySpec => []DeliveryInv
<1> QED BY InitDelivery, NextKeepsDelivery, PTL DEF DeliverySpec

\* Whatever is lost, late or retried, a report has one task at most, one that is marked
\* is complete, and a report that is said to be delivered has such a task.
THEOREM DeliveredOnceAndWholeHolds == DeliverySpec => []DeliveredOnceAndWhole
<1>1. ASSUME DeliveryInv PROVE DeliveredOnceAndWhole
  <2>1. ASSUME NEW r \in Reports PROVE Cardinality(TasksOf(r)) <= 1
    <3>1. CASE TasksOf(r) = {}
      BY <3>1, FS_EmptySet
    <3>2. CASE TasksOf(r) # {}
      <4>1. PICK k \in TasksOf(r) : TRUE
        BY <3>2
      <4>2. TasksOf(r) = {k}
        BY <1>1, <4>1 DEF TasksOf, DeliveryInv, MadeOnce
      <4> QED BY <4>2, FS_Singleton
    <3> QED BY <3>1, <3>2
  <2> QED BY <1>1, <2>1 DEF DeliveredOnceAndWhole, DeliveryInv, MarkedWhenComplete
<1> QED BY <1>1, DeliveryIsSound, PTL

-----------------------------------------------------------------------------
(* The payload.                                                            *)

\* A report that was deferred is undelivered, and was so before.
LEMMA PayloadDeferred ==
  ASSUME DeliveryInv, PayloadInv, job # Idle, NEW state \in {"pending", "blocked"}, GiveUp(state)
  PROVE  PayloadInv'
<1>1. job' = Idle /\ job.report \in Reports /\ rows \in [Reports -> Rows]
  BY JobIs, RowsAre DEF GiveUp
<1>2. \A r \in Reports : rows[r].payload <=> Undelivered(r)
  BY DEF PayloadInv
<1>3. rows[job.report].payload
  BY DEF PayloadInv
<1>4. CASE closed
  BY <1>1, <1>2, <1>4 DEF GiveUp, PayloadInv, Undelivered
<1>5. CASE ~closed
  <2>1. rows' = [rows EXCEPT ![job.report].state = state,
                             ![job.report].attempts = IF @ < MaxAttempts THEN @ + 1 ELSE @]
    BY <1>5 DEF GiveUp, Deferred
  <2>2. /\ \A r \in Reports : rows'[r].payload = rows[r].payload
        /\ \A r \in Reports \ {job.report} : rows'[r] = rows[r]
        /\ rows'[job.report].state = state
    BY <1>1, <2>1 DEF Rows
  <2> QED BY <1>1, <1>2, <1>3, <2>2 DEF PayloadInv, Undelivered
<1> QED BY <1>4, <1>5

\* The rows stay, and the job keeps its report.
LEMMA PayloadSame ==
  ASSUME DeliveryInv, PayloadInv, UNCHANGED rows,
         job' # Idle => job # Idle /\ job'.report = job.report
  PROVE  PayloadInv'
BY JobIs DEF PayloadInv, Undelivered

\* The rows stay, and the job goes on to another step.
LEMMA PayloadContinues ==
  ASSUME DeliveryInv, PayloadInv, NEW step, job # Idle, Continue(step)
  PROVE  PayloadInv'
<1>1. job' = [job EXCEPT !.step = step] /\ UNCHANGED rows
  BY DEF Continue, Proceed
<1>2. job'.report = job.report
  BY <1>1, JobIs
<1> QED BY <1>1, <1>2, PayloadSame

LEMMA PayloadSent ==
  ASSUME DeliveryInv, PayloadInv, NEW q, NEW step, job # Idle, Send(q, step), UNCHANGED rows
  PROVE  PayloadInv'
<1>1. job' = [job EXCEPT !.step = step, !.request = q, !.answered = FALSE]
  BY DEF Send
<1>2. job'.report = job.report
  BY <1>1, JobIs
<1> QED BY <1>2, PayloadSame

\* The row of the job's report changes, and keeps its payload if it is undelivered.
LEMMA PayloadRow ==
  ASSUME DeliveryInv, PayloadInv, job # Idle, NEW x, rows' = [rows EXCEPT ![job.report] = x],
         x.payload <=> x.state \in {"pending", "blocked"},
         job' # Idle => x.payload /\ job'.report = job.report
  PROVE  PayloadInv'
<1>1. job.report \in Reports /\ rows \in [Reports -> Rows]
  BY JobIs, RowsAre
<1>2. \A r \in Reports : rows'[r] = IF r = job.report THEN x ELSE rows[r]
  <2> HIDE DEF Rows
  <2> QED BY <1>1
<1>3. \A r \in Reports : rows'[r].payload <=> rows'[r].state \in {"pending", "blocked"}
  BY <1>2 DEF PayloadInv, Undelivered
<1> QED BY <1>1, <1>2, <1>3 DEF PayloadInv, Undelivered

LEMMA PayloadSaved ==
  ASSUME DeliveryInv, PayloadInv, job # Idle, NEW k, SaveTask(k)
  PROVE  PayloadInv'
<1> DEFINE r == job.report
           x == [rows[r] EXCEPT !.task = k]
           y == [rows[r] EXCEPT !.task = k, !.state = "pending",
                                !.attempts = IF @ < MaxAttempts THEN @ + 1 ELSE @]
<1>1. /\ r \in Reports /\ rows \in [Reports -> Rows] /\ rows[r] \in Rows /\ rows[r].payload
      /\ rows[r].payload <=> rows[r].state \in {"pending", "blocked"}
  BY JobIs, RowsAre DEF PayloadInv, Undelivered
<1>2. CASE /\ rows' = [rows EXCEPT ![r].task = k]
           /\ job' = [job EXCEPT !.step = "open", !.task = k, !.request = NoRequest,
                                 !.answered = FALSE]
  <2>1. rows' = [rows EXCEPT ![r] = x] /\ job'.report = job.report
    BY <1>2, JobIs
  <2>2. x.payload = rows[r].payload /\ x.state = rows[r].state
    BY <1>1 DEF Rows
  <2> HIDE DEF x
  <2> QED BY <1>1, <2>1, <2>2, PayloadRow
<1>3. CASE /\ job' = Idle
           /\ rows' = [rows EXCEPT ![r].task = k, ![r].state = "pending",
                               ![r].attempts = IF @ < MaxAttempts THEN @ + 1 ELSE @]
  <2>1. rows' = [rows EXCEPT ![r] = y]
    BY <1>1, <1>3
  <2>2. y.payload = rows[r].payload /\ y.state = "pending"
    BY <1>1 DEF Rows
  <2> HIDE DEF y
  <2> QED BY <1>1, <1>3, <2>1, <2>2, PayloadRow
<1>4. CASE job' = Idle /\ UNCHANGED rows
  BY <1>4, PayloadSame
<1> QED BY <1>2, <1>3, <1>4 DEF SaveTask

LEMMA PayloadDelivered ==
  ASSUME DeliveryInv, PayloadInv, job # Idle, "delivered" \notin FlakyAfter, Delivered
  PROVE  PayloadInv'
<1> DEFINE r == job.report
           x == [rows[r] EXCEPT !.state = "delivered", !.payload = FALSE]
<1>1. r \in Reports /\ rows \in [Reports -> Rows] /\ rows[r] \in Rows
  BY JobIs, RowsAre
<1>2. CASE /\ rows' = [rows EXCEPT ![r].state = "delivered", ![r].payload = FALSE]
           /\ job' = Idle
  <2>1. rows' = [rows EXCEPT ![r] = x]
    BY <1>1, <1>2
  <2>2. x.payload = FALSE /\ x.state = "delivered"
    BY <1>1 DEF Rows
  <2> HIDE DEF x
  <2> QED BY <1>2, <2>1, <2>2, PayloadRow
<1>3. CASE job' = Idle /\ UNCHANGED rows
  BY <1>3, PayloadSame
<1> QED BY <1>2, <1>3 DEF Delivered

LEMMA PayloadAccepted ==
  ASSUME DeliveryInv, PayloadInv, NEW r \in Reports, Accept(r)
  PROVE  PayloadInv'
<1> DEFINE x == [Absent EXCEPT !.payload = TRUE, !.state = IF configured THEN "pending" ELSE "blocked"]
<1>1. rows' = [rows EXCEPT ![r] = x] /\ UNCHANGED job /\ rows \in [Reports -> Rows]
  BY RowsAre DEF Accept, jobVars
<1>2. x.payload /\ x.state \in {"pending", "blocked"}
  BY DEF Absent
<1> HIDE DEF x
<1>3. \A s \in Reports : rows'[s] = IF s = r THEN x ELSE rows[s]
  <2> HIDE DEF Rows
  <2> QED BY <1>1
<1> QED BY <1>1, <1>2, <1>3, JobIs DEF PayloadInv, Undelivered

LEMMA PayloadPicked ==
  ASSUME DeliveryInv, PayloadInv, DeliverNext
  PROVE  PayloadInv'
<1>1. UNCHANGED rows
  BY DEF DeliverNext
<1>2. CASE UNCHANGED job
  BY <1>1, <1>2, PayloadSame DEF DeliverNext
<1>3. ASSUME NEW r \in NextUp, rows[r].payload,
             job' = [Idle EXCEPT !.report = r, !.step = "verify", !.task = rows[r].task]
      PROVE  PayloadInv'
  <2>1. job'.report = r
    BY <1>3 DEF Idle
  <2> QED BY <1>1, <1>3, <2>1 DEF PayloadInv, Undelivered
<1> QED BY <1>2, <1>3 DEF DeliverNext

LEMMA PayloadAtStep ==
  ASSUME DeliveryInv, PayloadInv, "delivered" \notin FlakyAfter, JobStep
  PROVE  PayloadInv'
<1>1. CASE Verify
  <2>1. job # Idle
    BY <1>1, AtAStep DEF Verify, Steps
  <2> QED BY <1>1, <2>1, PayloadDeferred, PayloadContinues, PayloadSaved DEF Verify
<1>2. ASSUME NEW step \in {"find", "refind"}, FindTask(step) PROVE PayloadInv'
  <2>1. job # Idle
    BY <1>2, AtAStep DEF FindTask, Steps
  <2> QED BY <1>2, <2>1, PayloadDeferred, PayloadSent, PayloadSaved DEF FindTask
<1>3. CASE Created
  <2>1. job # Idle
    BY <1>3, AtAStep DEF Created, Steps
  <2> QED BY <1>3, <2>1, PayloadContinues, PayloadSaved DEF Created
<1>4. CASE OpenTask("open", "list")
  <2>1. job # Idle
    BY <1>4, AtAStep DEF OpenTask, Look, Steps
  <2> QED BY <1>4, <2>1, PayloadDeferred, PayloadContinues DEF OpenTask
<1>5. CASE ListComments
  <2>1. job # Idle /\ UNCHANGED rows
    BY <1>5, AtAStep DEF ListComments, Look, Steps
  <2>2. job'.report = job.report
    BY <1>5, <2>1, JobIs DEF ListComments
  <2> QED BY <2>1, <2>2, PayloadSame
<1>6. CASE PostComments
  <2>1. job # Idle
    BY <1>6, AtAStep DEF PostComments, Steps
  <2> QED BY <1>6, <2>1, PayloadDeferred, PayloadSent DEF PostComments
<1>7. CASE Posted
  <2>1. job # Idle /\ UNCHANGED rows
    BY <1>7, AtAStep DEF Posted, Look, Steps
  <2>2. job'.report = job.report
    BY <1>7, <2>1, JobIs DEF Posted
  <2> QED BY <2>1, <2>2, PayloadSame
<1>8. CASE CheckComments
  <2>1. job # Idle
    BY <1>8, AtAStep DEF CheckComments, Look, Steps
  <2> QED BY <1>8, <2>1, PayloadDeferred, PayloadContinues DEF CheckComments
<1>9. CASE MarkReady
  <2>1. job # Idle
    BY <1>9, AtAStep DEF MarkReady, Steps
  <2> QED BY <1>9, <2>1, PayloadDeferred, PayloadSent DEF MarkReady
<1>10. CASE MarkedReady
  <2>1. job # Idle
    BY <1>10, AtAStep DEF MarkedReady, Look, Steps
  <2> QED BY <1>10, <2>1, PayloadContinues DEF MarkedReady
<1>11. CASE Confirm
  <2>1. job # Idle
    BY <1>11, AtAStep DEF Confirm, Steps
  <2> QED BY <1>11, <2>1, PayloadDeferred, PayloadDelivered DEF Confirm
<1> QED
  BY <1>1, <1>2, <1>3, <1>4, <1>5, <1>6, <1>7, <1>8, <1>9, <1>10, <1>11 DEF JobStep

\* What goes on outside the job.
LEMMA PayloadAlongside ==
  ASSUME DeliveryInv, PayloadInv, UNCHANGED rows, job' \in {job, Idle}
  PROVE  PayloadInv'
BY JobIs DEF PayloadInv, Undelivered

LEMMA NextKeepsPayload ==
  ASSUME "delivered" \notin FlakyAfter
  PROVE  DeliveryInv /\ PayloadInv /\ [DeliveryNext]_deliveryVars => PayloadInv'
<1> SUFFICES ASSUME DeliveryInv, PayloadInv, [DeliveryNext]_deliveryVars PROVE PayloadInv'
  OBVIOUS
<1>1. ASSUME NEW r \in Reports, Accept(r) PROVE PayloadInv'
  BY <1>1, PayloadAccepted
<1>2. ASSUME NEW r \in Reports, Wake(r) PROVE PayloadInv'
  BY <1>2, PayloadAlongside DEF Wake, jobVars
<1>3. CASE DeliverNext
  BY <1>3, PayloadPicked
<1>4. CASE JobStep
  BY <1>4, PayloadAtStep
<1>5. CASE RequestFails
  BY <1>5, PayloadDeferred DEF RequestFails
<1>6. ASSUME NEW q \in wire, Arrive(q) PROVE PayloadInv'
  <2>1. /\ UNCHANGED rows
        /\ job' = IF Awaits(q) THEN [job EXCEPT !.answered = TRUE] ELSE job
    BY <1>6 DEF Arrive, storeVars
  <2>2. CASE UNCHANGED job
    BY <2>1, <2>2, PayloadAlongside
  <2>3. CASE job # Idle /\ job' = [job EXCEPT !.answered = TRUE]
    <3>1. job'.report = job.report
      BY <2>3, JobIs
    <3> QED BY <2>1, <2>3, <3>1, PayloadSame
  <2> QED BY <2>1, <2>2, <2>3 DEF Awaits
<1>7. ASSUME NEW q \in wire, Refuse(q) PROVE PayloadInv'
  BY <1>7, PayloadDeferred DEF Refuse, Awaits
<1>8. ASSUME NEW q \in wire, Drop(q) PROVE PayloadInv'
  BY <1>8, PayloadAlongside DEF Drop, storeVars, jobVars
<1>9. CASE CloseStore
  BY <1>9, PayloadAlongside DEF CloseStore, storeVars
<1>10. CASE ThreadEnds
  BY <1>10, PayloadAlongside DEF ThreadEnds, storeVars
<1>11. CASE Start
  BY <1>11, PayloadAlongside DEF Start
<1>12. ASSUME NEW k \in DOMAIN tasks, CloseTask(k) PROVE PayloadInv'
  BY <1>12, PayloadAlongside DEF CloseTask, storeVars, jobVars
<1>13. CASE UNCHANGED deliveryVars
  BY <1>13, PayloadAlongside DEF deliveryVars, storeVars, jobVars
<1> QED
  BY <1>1, <1>2, <1>3, <1>4, <1>5, <1>6, <1>7, <1>8, <1>9, <1>10, <1>11, <1>12, <1>13
  DEF DeliveryNext

LEMMA InitPayload == DeliveryInit => PayloadInv
BY DEF DeliveryInit, PayloadInv, Undelivered, Absent, Idle

\* While the upkeep after delivered() does not fail, a report that is not delivered
\* keeps the payload a retry needs, and a job never works for a report without one.
THEOREM RetriesKeepTheReportHolds ==
  ASSUME "delivered" \notin FlakyAfter
  PROVE  DeliverySpec => []RetriesKeepTheReport
<1>1. DeliveryInv /\ PayloadInv => RetriesKeepTheReport
  BY DEF PayloadInv, RetriesKeepTheReport
<1> QED BY <1>1, DeliveryIsSound, InitPayload, NextKeepsPayload, PTL DEF DeliverySpec
=============================================================================
