---------------------------- MODULE ReportDelivery ----------------------------
(***************************************************************************)
(* The debug-report thread: its database of reports (store.ts), the job    *)
(* that carries one report at a time to Todoist (worker.ts, todoist.ts),   *)
(* and Todoist itself, modelled as the code relies on it: a command with a *)
(* uuid that was executed is not executed again, and its answer repeats    *)
(* the outcome.  A request that timed out, or whose thread ended, may      *)
(* still arrive at any later time.                                         *)
(*                                                                         *)
(* A report's bundle is cut into Parts, one comment each; a comment is its *)
(* part and which copy of it, and the comments of a request are one set.   *)
(* Texts, hashes, pages of a listing and the limits on what is accepted    *)
(* are left out.                                                           *)
(* Faults, deaths of the thread and what people do to tasks are bounded by *)
(* budgets.                                                                *)
(***************************************************************************)
EXTENDS Naturals, Sequences, FiniteSets

CONSTANTS
    Reports,        \* reports visitors submit
    Parts,          \* comments of a report, 1..n
    BatchSize,      \* comments posted with one request (10 in the code)
    FlakyAfter,     \* store operations whose upkeep may fail after their update
    MaxFaults,      \* bound on failed requests and store operations
    MaxDeaths,      \* bound on ends of the thread
    MaxClosings     \* bound on tasks people close

ASSUME ReportDeliveryAssumption ==
    /\ Parts \subseteq Nat \ {0} /\ IsFiniteSet(Parts)
    /\ BatchSize \in Nat \ {0}
    /\ FlakyAfter \subseteq {"saveTask", "delivered"}
    /\ MaxFaults \in Nat /\ MaxDeaths \in Nat /\ MaxClosings \in Nat

VARIABLES
    \* the database
    received,   \* reports in the order they were received
    rows,       \* their rows
    rest,       \* whether next_at has passed
    \* the thread
    up,         \* it runs
    closed,     \* it was asked to close
    configured, \* its configuration has Todoist credentials
    job,        \* the delivery under way
    \* the network and Todoist
    wire,       \* requests that have not arrived
    tasks,      \* tasks by number
    executed,   \* uuids executed
    \* budgets
    faults, deaths, closings

storeVars == <<received, rows, rest>>
jobVars == <<up, closed, configured, job>>
remoteVars == <<wire, tasks, executed>>
budgets == <<faults, deaths, closings>>
deliveryVars == <<storeVars, jobVars, remoteVars, budgets>>

NoTask == 0
NoRequest == [type |-> "none"]
Idle == [report |-> "none", step |-> "idle", task |-> NoTask, missing |-> {},
         request |-> NoRequest, answered |-> FALSE]
Absent == [state |-> "absent", payload |-> FALSE, task |-> NoTask, attempts |-> 0]

Steps == {"verify", "find", "create", "refind", "open", "list", "openToPost", "post", "check",
          "openToReady", "ready", "confirm"}

MaxAttempts == 2     \* attempts are counted up to here
TaskNumbers == 0..2 * Cardinality(Reports)

DeliveryTypeOK ==
    /\ received \in Seq(Reports)
    /\ rows \in [Reports -> [state : {"absent", "pending", "blocked", "delivered"},
                             payload : BOOLEAN, task : TaskNumbers, attempts : 0..MaxAttempts]]
    /\ rest \in [Reports -> {"due", "resting", "rested"}]
    /\ up \in BOOLEAN /\ closed \in BOOLEAN /\ configured \in BOOLEAN
    /\ job # Idle => job.report \in Reports /\ job.step \in Steps
    /\ \A k \in DOMAIN tasks : tasks[k].comments \subseteq Parts \X Nat
    /\ Len(tasks) <= Cardinality(Reports)

DeliveryInit ==
    /\ received = <<>>
    /\ rows = [r \in Reports |-> Absent]
    /\ rest = [r \in Reports |-> "due"]
    /\ up = TRUE
    /\ closed = FALSE
    /\ configured \in BOOLEAN
    /\ job = Idle
    /\ wire = {}
    /\ tasks = <<>>
    /\ executed = {}
    /\ faults = 0 /\ deaths = 0 /\ closings = 0

-----------------------------------------------------------------------------
(* Todoist.                                                                *)

\* Mutant: the commands are made up anew for every attempt.
UuidOfAttempt(r, type, part) == <<r, type, part, rows[r].attempts>>

\* A command carries the uuid that was stored with the report, which a retry reuses.
Uuid(r, type, part) == <<r, type, part>>

\* A request of commands of one type: an uuid for each part.
Request(type, r, parts, task) ==
    [type |-> type, report |-> r, task |-> task,
     uuid |-> [p \in parts |-> Uuid(r, type, p)]]

NewTask(r) == [report |-> r, open |-> TRUE, ready |-> FALSE, comments |-> {}]

\* One more comment for each of these parts.
Commented(comments, parts) ==
    comments \cup {<<p, 1 + Cardinality({c \in comments : c[1] = p})>> : p \in parts}

\* Todoist executes the commands of these parts, but none whose uuid was executed.
Execute(request, parts) ==
    LET fresh == {p \in parts : request.uuid[p] \notin executed}
        k == request.task
    IN /\ executed' = executed \cup {request.uuid[p] : p \in fresh}
       /\ tasks' =
            CASE fresh = {} -> tasks
              [] fresh # {} /\ request.type = "item_add" -> Append(tasks, NewTask(request.report))
              [] fresh # {} /\ request.type = "note_add" ->
                   [tasks EXCEPT ![k].comments = Commented(@, fresh)]
              [] fresh # {} /\ request.type = "item_update" -> [tasks EXCEPT ![k].ready = TRUE]

TasksOf(r) == {k \in DOMAIN tasks : tasks[k].report = r}

\* The listing of a project shows its open tasks.
ListedTasks(r) == {k \in TasksOf(r) : tasks[k].open}

-----------------------------------------------------------------------------
(* The store.                                                              *)

\* accept(): the report and its commands are committed.
Accept(r) ==
    /\ up /\ ~closed
    /\ rows[r] = Absent
    /\ rows' = [rows EXCEPT ![r] = [Absent EXCEPT !.payload = TRUE,
                                    !.state = IF configured THEN "pending" ELSE "blocked"]]
    /\ received' = Append(received, r)
    /\ UNCHANGED <<rest, jobVars, remoteVars, budgets>>

Undelivered(r) == rows[r].state \in {"pending", "blocked"}

\* Mutant: next() does not look at next_at.
DueAlways(r) == Undelivered(r)

Due(r) == Undelivered(r) /\ rest[r] = "due"

\* The earliest report that is due.
NextUp ==
    {received[i] : i \in {i \in DOMAIN received :
                            Due(received[i]) /\ \A j \in 1..i - 1 : ~Due(received[j])}}

\* Mutant: a blocked report gives up its payload.
DeferredReclaiming(r, state) ==
    /\ rows' = [rows EXCEPT ![r].state = state, ![r].payload = state = "pending"]
    /\ rest' = [rest EXCEPT ![r] = "resting"]

\* defer(): what kind of failure it was, and a delay before the next attempt.
Deferred(r, state) ==
    /\ rows' = [rows EXCEPT ![r].state = state,
                            ![r].attempts = IF @ < MaxAttempts THEN @ + 1 ELSE @]
    /\ rest' = [rest EXCEPT ![r] = "resting"]

\* next_at passes.  The shortest delay is five seconds and the thread looks for
\* work every second, so it has looked once before.
Wake(r) ==
    /\ rest[r] = "rested"
    /\ rest' = [rest EXCEPT ![r] = "due"]
    /\ UNCHANGED <<received, rows, jobVars, remoteVars, budgets>>

Looked == [r \in Reports |-> IF rest[r] = "resting" THEN "rested" ELSE rest[r]]

-----------------------------------------------------------------------------
(* A job.                                                                  *)

\* deliverNext(): one job at a time.  A row without payload cannot be read.
DeliverNext ==
    /\ up /\ ~closed
    /\ job = Idle
    /\ rest' = Looked
    /\ \/ \E r \in NextUp :
            /\ rows[r].payload
            /\ job' = [Idle EXCEPT !.report = r, !.step = "verify", !.task = rows[r].task]
       \/ /\ \A r \in NextUp : ~rows[r].payload
          /\ UNCHANGED job
    /\ UNCHANGED <<received, rows, up, closed, configured, remoteVars, budgets>>

\* The job failed: the report is deferred, unless the store is closed.
GiveUp(state) ==
    /\ job' = Idle
    /\ IF closed
       THEN UNCHANGED <<rows, rest>>
       ELSE Deferred(job.report, state)

\* Something on the way fails that may do so at any time.
Fault ==
    /\ faults < MaxFaults
    /\ faults' = faults + 1
    /\ UNCHANGED <<deaths, closings>>

\* A request fails or is aborted after five seconds; it may arrive all the same.
RequestFails ==
    /\ job # Idle
    /\ Fault
    /\ \E state \in {"pending", "blocked"} : GiveUp(state)
    /\ UNCHANGED <<received, up, closed, configured, remoteVars>>

Proceed(step) == job' = [job EXCEPT !.step = step]

\* A look at Todoist: it changes nothing there.
Look(step) ==
    /\ job.step = step
    /\ UNCHANGED <<received, up, closed, configured, remoteVars, budgets>>

Continue(step) == Proceed(step) /\ UNCHANGED <<rows, rest>>

\* A request whose answer the job waits for.
Send(request, step) ==
    /\ wire' = wire \cup {request}
    /\ job' = [job EXCEPT !.step = step, !.request = request, !.answered = FALSE]

\* The task is saved before anything is posted to it; saving fails on a closed
\* store, and its upkeep may fail after the update.
SaveTask(k) ==
    \/ /\ ~closed
       /\ rows' = [rows EXCEPT ![job.report].task = k]
       /\ job' = [job EXCEPT !.step = "open", !.task = k, !.request = NoRequest,
                             !.answered = FALSE]
       /\ UNCHANGED <<rest, budgets>>
    \/ /\ ~closed
       /\ "saveTask" \in FlakyAfter
       /\ Fault
       /\ job' = Idle
       /\ rows' = [rows EXCEPT ![job.report].task = k, ![job.report].state = "pending",
                               ![job.report].attempts = IF @ < MaxAttempts THEN @ + 1 ELSE @]
       /\ rest' = [rest EXCEPT ![job.report] = "resting"]
    \/ /\ closed
       /\ job' = Idle
       /\ UNCHANGED <<rows, rest, budgets>>

\* verifyDestination(), and the task saved again if the row remembers one.
Verify ==
    /\ job.step = "verify"
    /\ \/ ~configured /\ GiveUp("blocked") /\ UNCHANGED budgets
       \/ configured /\ job.task = NoTask /\ Continue("find") /\ UNCHANGED budgets
       \/ configured /\ job.task # NoTask /\ SaveTask(job.task)
    /\ UNCHANGED <<received, up, closed, configured, remoteVars>>

\* reconcileTask(), before and after the request that creates the task.
FindTask(step) ==
    /\ job.step = step
    /\ LET listed == ListedTasks(job.report) IN
         \/ /\ Cardinality(listed) > 1
            /\ GiveUp("blocked")
            /\ UNCHANGED <<wire, budgets>>
         \/ /\ Cardinality(listed) = 1
            /\ \E k \in listed : SaveTask(k)
            /\ UNCHANGED wire
         \/ /\ listed = {}
            /\ step = "find"
            /\ Send(Request("item_add", job.report, {0}, NoTask), "create")
            /\ UNCHANGED <<rows, rest, budgets>>
         \/ /\ listed = {}
            /\ step = "refind"
            /\ GiveUp("pending")
            /\ UNCHANGED <<wire, budgets>>
    /\ UNCHANGED <<received, up, closed, configured, tasks, executed>>

\* The answer names the task, or the tasks are listed again.
Created ==
    /\ job.step = "create"
    /\ job.answered
    /\ \/ \E k \in TasksOf(job.report) : SaveTask(k)
       \/ Continue("refind") /\ UNCHANGED budgets
    /\ UNCHANGED <<received, up, closed, configured, remoteVars>>

\* openTask(): a task that was closed, moved or deleted blocks the delivery.
OpenTask(step, next) ==
    /\ Look(step)
    /\ \/ ~tasks[job.task].open /\ GiveUp("blocked")
       \/ tasks[job.task].open /\ Continue(next)

ListComments ==
    /\ Look("list")
    /\ LET missing == {p \in Parts : \A c \in tasks[job.task].comments : c[1] # p} IN
         job' = [job EXCEPT !.missing = missing,
                            !.step = IF missing = {} THEN "check" ELSE "openToPost"]
    /\ UNCHANGED <<rows, rest>>

\* The first of the missing parts.
Batch == {p \in job.missing : Cardinality({q \in job.missing : q < p}) < BatchSize}

\* Comments are posted a batch at a time, to a task that is still open.
PostComments ==
    /\ job.step = "openToPost"
    /\ \/ /\ ~tasks[job.task].open
          /\ GiveUp("blocked")
          /\ UNCHANGED wire
       \/ /\ tasks[job.task].open
          /\ Send(Request("note_add", job.report, Batch, job.task), "post")
          /\ UNCHANGED <<rows, rest>>
    /\ UNCHANGED <<received, up, closed, configured, tasks, executed, budgets>>

Posted ==
    /\ Look("post")
    /\ job.answered
    /\ LET left == job.missing \ Batch IN
         job' = [job EXCEPT !.missing = left, !.request = NoRequest, !.answered = FALSE,
                            !.step = IF left = {} THEN "check" ELSE "openToPost"]
    /\ UNCHANGED <<rows, rest>>

\* Every part is there exactly once.
Complete(comments) == comments = Parts \X {1}

\* The comments are read again before the task is marked.
CheckComments ==
    /\ Look("check")
    /\ LET comments == tasks[job.task].comments IN
         \/ Complete(comments) /\ Continue("openToReady")
         \/ Cardinality(comments) # Cardinality(Parts) /\ GiveUp("blocked")
         \/ /\ Cardinality(comments) = Cardinality(Parts) /\ ~Complete(comments)
            /\ \E state \in {"pending", "blocked"} : GiveUp(state)

MarkReady ==
    /\ job.step = "openToReady"
    /\ \/ /\ ~tasks[job.task].open
          /\ GiveUp("blocked")
          /\ UNCHANGED wire
       \/ /\ tasks[job.task].open
          /\ Send(Request("item_update", job.report, {0}, job.task), "ready")
          /\ UNCHANGED <<rows, rest>>
    /\ UNCHANGED <<received, up, closed, configured, tasks, executed, budgets>>

MarkedReady ==
    /\ Look("ready")
    /\ job.answered
    /\ Continue("confirm")

\* The row gives up its payload; its upkeep may fail after the update, and the
\* report is then deferred like any other that failed.
Delivered ==
    \/ /\ ~closed
       /\ rows' = [rows EXCEPT ![job.report].state = "delivered", ![job.report].payload = FALSE]
       /\ job' = Idle
       /\ UNCHANGED <<rest, budgets>>
    \/ /\ ~closed
       /\ "delivered" \in FlakyAfter
       /\ Fault
       /\ job' = Idle
       /\ rows' = [rows EXCEPT ![job.report].state = "pending", ![job.report].payload = FALSE,
                               ![job.report].attempts = IF @ < MaxAttempts THEN @ + 1 ELSE @]
       /\ rest' = [rest EXCEPT ![job.report] = "resting"]
    \/ /\ closed
       /\ job' = Idle
       /\ UNCHANGED <<rows, rest, budgets>>

Confirmed(task) == task.open /\ task.ready

Confirm ==
    /\ job.step = "confirm"
    /\ \/ Confirmed(tasks[job.task]) /\ Delivered
       \/ /\ ~tasks[job.task].open
          /\ GiveUp("blocked")
          /\ UNCHANGED budgets
       \/ /\ tasks[job.task].open /\ ~Confirmed(tasks[job.task])
          /\ GiveUp("pending")
          /\ UNCHANGED budgets
    /\ UNCHANGED <<received, up, closed, configured, remoteVars>>

-----------------------------------------------------------------------------
(* The network, the thread's life, and people.                             *)

\* The job waits for the answer to this request.
Awaits(request) == job # Idle /\ job.request = request

\* A request arrives and is executed; the job it belongs to gets the answer.
Arrive(request) ==
    /\ request \in wire
    /\ wire' = wire \ {request}
    /\ Execute(request, DOMAIN request.uuid)
    /\ job' = IF Awaits(request) THEN [job EXCEPT !.answered = TRUE] ELSE job
    /\ UNCHANGED <<storeVars, up, closed, configured, budgets>>

\* Todoist refuses a command; any of the others in the request were executed.
Refuse(request) ==
    /\ request \in wire
    /\ Awaits(request)
    /\ Fault
    /\ wire' = wire \ {request}
    /\ \E part \in DOMAIN request.uuid :
         \E others \in SUBSET (DOMAIN request.uuid \ {part}) : Execute(request, others)
    /\ \E state \in {"pending", "blocked"} : GiveUp(state)
    /\ UNCHANGED <<received, up, closed, configured>>

\* A request nobody waits for is lost.
Drop(request) ==
    /\ request \in wire
    /\ ~Awaits(request)
    /\ wire' = wire \ {request}
    /\ UNCHANGED <<storeVars, jobVars, tasks, executed, budgets>>

\* The thread is asked to close its store; a job under way goes on until it
\* touches it.
CloseStore ==
    /\ up /\ ~closed
    /\ deaths < MaxDeaths
    /\ deaths' = deaths + 1
    /\ closed' = TRUE
    /\ UNCHANGED <<storeVars, up, configured, job, remoteVars, faults, closings>>

\* The thread ends: it closed, was terminated, or the process died.
ThreadEnds ==
    /\ up
    /\ \/ closed /\ UNCHANGED deaths
       \/ ~closed /\ deaths < MaxDeaths /\ deaths' = deaths + 1
    /\ up' = FALSE
    /\ closed' = FALSE
    /\ job' = Idle
    /\ UNCHANGED <<storeVars, configured, remoteVars, faults, closings>>

\* Another thread is started, perhaps with credentials at last.
Start ==
    /\ ~up
    /\ up' = TRUE
    /\ rest' = Looked
    /\ configured' \in {configured, TRUE}
    /\ UNCHANGED <<received, rows, closed, job, remoteVars, budgets>>

\* Somebody completes, moves or deletes the task of a report.
CloseTask(k) ==
    /\ closings < MaxClosings
    /\ closings' = closings + 1
    /\ tasks[k].open
    /\ tasks' = [tasks EXCEPT ![k].open = FALSE]
    /\ UNCHANGED <<storeVars, jobVars, wire, executed, faults, deaths>>

-----------------------------------------------------------------------------

JobStep ==
    \/ Verify \/ FindTask("find") \/ FindTask("refind") \/ Created
    \/ OpenTask("open", "list") \/ ListComments \/ PostComments \/ Posted
    \/ CheckComments \/ MarkReady \/ MarkedReady \/ Confirm

DeliveryNext ==
    \/ \E r \in Reports : Accept(r) \/ Wake(r)
    \/ DeliverNext \/ JobStep \/ RequestFails
    \/ \E request \in wire : Arrive(request) \/ Refuse(request) \/ Drop(request)
    \/ CloseStore \/ ThreadEnds \/ Start
    \/ \E k \in DOMAIN tasks : CloseTask(k)

DeliverySpec == DeliveryInit /\ [][DeliveryNext]_deliveryVars

\* The thread's timer fires, its job goes on, its requests arrive unless they
\* fail, delays pass, and a thread that ended is started again.
DeliveryProgress ==
    /\ WF_deliveryVars(DeliverNext)
    /\ WF_deliveryVars(JobStep)
    /\ WF_deliveryVars(Arrive(job.request))
    /\ WF_deliveryVars(Start)
    /\ WF_deliveryVars(closed /\ ThreadEnds)
    /\ \A r \in Reports : WF_deliveryVars(Wake(r))

DeliveryFairSpec == DeliverySpec /\ DeliveryProgress

-----------------------------------------------------------------------------
(* Properties.                                                             *)

\* Reports arrive once and whole. Lost answers, late requests, restarts and retries
\* never make a second task for a report (docs/diagnostics.md: "do not intentionally
\* create duplicate tasks or comments"); a task that is marked ready has every part
\* of the report exactly once, even when a request of an earlier attempt arrives
\* after the mark; and what the visitor is told is delivered is in Todoist so.
DeliveredOnceAndWhole ==
    /\ \A r \in Reports : Cardinality(TasksOf(r)) <= 1
    /\ \A k \in DOMAIN tasks : tasks[k].ready => Complete(tasks[k].comments)
    /\ \A r \in Reports : rows[r].state = "delivered" => \E k \in TasksOf(r) : tasks[k].ready

\* A report that is not delivered keeps the payload a retry needs.
RetriesKeepTheReport == \A r \in Reports : Undelivered(r) => rows[r].payload

\* Every accepted report is delivered in the end, however requests fail and
\* threads end, once the credentials are there and people leave its task alone;
\* a report that stays blocked does not hold up the others.
Hopeless(r) == \E k \in TasksOf(r) : ~tasks[k].open
ReportsAreDelivered ==
    \A r \in Reports :
        rows[r].state # "absent" /\ configured ~> rows[r].state = "delivered" \/ Hopeless(r)

-----------------------------------------------------------------------------
(* The inductive invariant.                                                *)

Rows == [state : {"absent", "pending", "blocked", "delivered"}, payload : BOOLEAN,
         task : Nat, attempts : Nat]
Tasks == [report : Reports, open : BOOLEAN, ready : BOOLEAN, comments : SUBSET (Parts \X Nat)]
Jobs == [report : Reports, step : Steps, task : Nat, missing : SUBSET Parts,
         request : {job.request}, answered : BOOLEAN]

\* Rows, tasks and jobs are of their kinds.
Kinds ==
    /\ received \in Seq(Reports)
    /\ rows \in [Reports -> Rows]
    /\ tasks \in Seq(Tasks)
    /\ job = Idle \/ job \in Jobs

\* Every request was made for a report, with the uuids stored for it; one that
\* names a task names the report's.
RequestsAreOurs ==
    \A q \in wire :
        /\ q.report \in Reports
        /\ \A p \in DOMAIN q.uuid : q.uuid[p] = Uuid(q.report, q.type, p)
        /\ \/ q.type = "item_add" /\ DOMAIN q.uuid = {0}
           \/ q.type = "note_add" /\ DOMAIN q.uuid \subseteq Parts /\ q.task \in TasksOf(q.report)
           \/ q.type = "item_update" /\ q.task \in TasksOf(q.report)

\* A task that a row or a job remembers is the report's.
TasksAreOurs ==
    /\ \A r \in Reports : rows[r].task # NoTask => rows[r].task \in TasksOf(r)
    /\ job # Idle /\ job.step \notin {"find", "create", "refind"} =>
          \/ job.step = "verify" /\ job.task = NoTask
          \/ job.task \in TasksOf(job.report)

\* What was made with an uuid was made once, and its uuid is known.
MadeOnce ==
    /\ \A k \in DOMAIN tasks : Uuid(tasks[k].report, "item_add", 0) \in executed
    /\ \A k, l \in DOMAIN tasks : tasks[k].report = tasks[l].report => k = l
    /\ \A k \in DOMAIN tasks : \A c \in tasks[k].comments :
          c[2] = 1 /\ Uuid(tasks[k].report, "note_add", c[1]) \in executed

\* A task is complete from before its mark was asked for.
MarkedWhenComplete ==
    /\ job # Idle /\ job.step \in {"openToReady", "ready", "confirm"} =>
          Complete(tasks[job.task].comments)
    /\ \A q \in wire : q.type = "item_update" => Complete(tasks[q.task].comments)
    /\ \A k \in DOMAIN tasks : tasks[k].ready => Complete(tasks[k].comments)
    /\ \A r \in Reports : rows[r].state = "delivered" => \E k \in TasksOf(r) : tasks[k].ready

DeliveryInv == Kinds /\ RequestsAreOurs /\ TasksAreOurs /\ MadeOnce /\ MarkedWhenComplete

\* Only a report that is not delivered, and none that was never received, has a payload;
\* and the report of a job has one.
PayloadInv ==
    /\ \A r \in Reports : rows[r].payload <=> Undelivered(r)
    /\ job # Idle => rows[job.report].payload
=============================================================================
