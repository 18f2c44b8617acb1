------------------------------ MODULE Scheduling ------------------------------
(***************************************************************************)
(* How Jobs get to Nodes and give their resources back: the handlers       *)
(* JobUpdated, NodeUpdated, NodeDisconnected and TaskTerminated, and the   *)
(* RPCs CreateJob, CancelJob and CancelTask, each in one transaction of a  *)
(* process.  Events come at least once and in any order, as EventDelivery  *)
(* promises, and may be handled before their transaction commits.          *)
(*                                                                         *)
(* A handler or an RPC is "loaded" while it holds structs it has read      *)
(* outside of its transaction, and "staged" from its UPDATEs, which lock   *)
(* the rows, to its commit; CancelJob is "locked" in between.  A resource  *)
(* stands for cpu, memory, disk and gpu; hardware classes and labels are   *)
(* left out.                                                               *)
(*                                                                         *)
(* Two things set rows and events at odds for good, and disturbed          *)
(* remembers them: an UPDATE that writes what was computed from a struct   *)
(* to a row that has another value by then (it overtakes), and the end of  *)
(* a Task that is announced while its transaction is rolled back, because  *)
(* events are sent before the commit.                                      *)
(***************************************************************************)
EXTENDS Naturals, FiniteSets, Functions

CONSTANTS
    Processes,    \* members of the queue group and requests
    Nodes,
    Containers,   \* the handlers call them Jobs
    Limit,        \* resources of a Container
    Capacity,     \* resources of a Node
    Reschedule,   \* Containers with the policy to reschedule on failure
    Cancellable,  \* bound: Containers that are cancelled, they or their Tasks
    MaxTasks,     \* bound: Tasks of a Container
    MaxConnects,  \* bound: times that a Node comes ONLINE
    MaxFailures,  \* bound: failures of Send, of the database, and crashes
    None

ASSUME ContainersAssumption == IsFiniteSet(Containers)
ASSUME LimitAssumption    == Limit \in [Containers -> Nat \ {0}]
ASSUME CapacityAssumption == Capacity \in [Nodes -> Nat]
ASSUME BoundsAssumption   == MaxTasks \in Nat /\ MaxConnects \in Nat /\ MaxFailures \in Nat

TaskIds == Containers \X (1 .. MaxTasks)
Events  == [type : {"pending", "online", "offline", "terminated"}, of : Containers \cup Nodes \cup TaskIds, nr : Nat]

ASSUME NoneAssumption == None \notin Nodes \cup Events

VARIABLES
    online,       \* committed rows of the Nodes: status and available resources
    available,
    job,          \* status of a Job
    task,         \* status and Node of a Task
    published,    \* events
    processed,    \* processed_events
    acked,        \* events that are not delivered any more
    pc,
    struct,       \* what a process has loaded
    tx,           \* uncommitted writes of a process, and the rows it has locked
    disturbed,    \* history: see above
    failures

rows   == <<online, available, job, task>>
events == <<published, processed, acked>>
local  == <<pc, struct, tx>>
vars   == <<rows, events, local, disturbed, failures>>

JobStatus == {"absent", "NEW", "PENDING", "SCHEDULED", "FINISHED", "CANCELLED"}

\* What the handlers need of ContainerStatusTransitions, and it has.
TableTransitions ==
    {<<"NEW", "PENDING">>, <<"NEW", "CANCELLED">>, <<"PENDING", "SCHEDULED">>, <<"PENDING", "CANCELLED">>}

\* The table is on the new side and has lost where a SCHEDULED Job goes: Job_STATUS_* in
\* the handlers, the RPCs and their tests.
JobTransitions ==
    TableTransitions \cup {<<"SCHEDULED", s>> : s \in {"PENDING", "FINISHED", "CANCELLED"}}

NoTask   == [status |-> "none", node |-> None]
Empty    == [x \in {} |-> x]
One(x, v) == [y \in {x} |-> v]
NoTx     == [rows |-> {}, event |-> None, job |-> Empty, task |-> Empty, available |-> Empty]
NoStruct == [op |-> "none", event |-> None, of |-> None, seen |-> None]

TypeOK ==
    /\ online \in [Nodes -> BOOLEAN]
    /\ available \in [Nodes -> Nat]
    /\ job \in [Containers -> JobStatus]
    /\ \A t \in TaskIds : task[t].status \in {"none", "running", "finished", "failed", "cancelled"}
    /\ \A t \in TaskIds : task[t].node \in Nodes <=> task[t].status # "none"
    /\ processed \cup acked \subseteq published
    /\ pc \in [Processes -> {"idle", "loaded", "locked", "staged", "leaked"}]
    /\ \A p \in Processes : pc[p] \in {"locked", "staged", "leaked"} <=> tx[p] # NoTx
    /\ disturbed \in BOOLEAN
    /\ failures \in 0 .. MaxFailures

Init ==
    /\ online = [n \in Nodes |-> FALSE]
    /\ available = Capacity
    /\ job = [c \in Containers |-> "absent"]
    /\ task = [t \in TaskIds |-> NoTask]
    /\ published = {} /\ processed = {} /\ acked = {}
    /\ pc = [p \in Processes |-> "idle"]
    /\ struct = [p \in Processes |-> NoStruct]
    /\ tx = [p \in Processes |-> NoTx]
    /\ disturbed = FALSE
    /\ failures = 0

\* The rows of a table after the UPDATEs and INSERTs in writes.
Write(table, writes) == [x \in DOMAIN table |-> IF x \in DOMAIN writes THEN writes[x] ELSE table[x]]

Live(t)   == task[t].status = "running"
Demand(S) == SumFunctionOnSet(Limit, S)

\* The next event of its kind about x, whose UUID no other event has.
Event(type, x) ==
    [type |-> type, of |-> x, nr |-> Cardinality({e \in published : e.type = type /\ e.of = x}) + 1]

\* No other transaction has locked one of these rows, or inserted the same
\* ProcessedEvent: otherwise the statement waits.
Free(p, S)       == \A q \in Processes \ {p} : tx[q].rows \cap S = {}
FreeEvent(p, e)  == e \notin processed /\ \A q \in Processes \ {p} : tx[q].event # e

Deliverable(type) == {e \in published \ acked : e.type = type}

-----------------------------------------------------------------------------
(* The steps that handlers and RPCs have in common. *)

Load(p, op, e, x, seen) ==
    /\ pc[p] = "idle"
    /\ pc' = [pc EXCEPT ![p] = "loaded"]
    /\ struct' = [struct EXCEPT ![p] = [op |-> op, event |-> e, of |-> x, seen |-> seen]]
    /\ UNCHANGED <<rows, events, tx, disturbed, failures>>

\* The statements of a transaction, and producer.Send of its events.
Stage(p, writes, sent, overtakes) ==
    /\ pc' = [pc EXCEPT ![p] = "staged"]
    /\ struct' = [struct EXCEPT ![p] = NoStruct]
    /\ tx' = [tx EXCEPT ![p] = writes]
    /\ published' = published \cup sent
    /\ disturbed' = (disturbed \/ overtakes)
    /\ UNCHANGED <<rows, processed, acked, failures>>

Failure == failures < MaxFailures /\ failures' = failures + 1

\* Mutant of Abandon: an early return without RollbackTransaction.
AbandonLocked(p) ==
    /\ pc' = [pc EXCEPT ![p] = "idle"]
    /\ struct' = [struct EXCEPT ![p] = NoStruct]
    /\ UNCHANGED <<rows, processed, acked, tx>>

\* RollbackTransaction: nothing is written, a handler's message comes again.
Abandon(p) ==
    /\ pc' = [pc EXCEPT ![p] = "idle"]
    /\ struct' = [struct EXCEPT ![p] = NoStruct]
    /\ tx' = [tx EXCEPT ![p] = NoTx]
    /\ UNCHANGED <<rows, processed, acked>>

\* Send fails, although some of the events may be out.
SendFails(p, sent) ==
    /\ Failure /\ Abandon(p)
    /\ \E out \in SUBSET sent :
          /\ published' = published \cup out
          /\ disturbed' = (disturbed \/ \E e \in out : e.type = "terminated")

\* What handlers and RPCs do in the end: CommitAndPublish, up to tx.Commit.
Publish(p, writes, sent, overtakes) == Stage(p, writes, sent, overtakes) \/ SendFails(p, sent)

\* The Tasks that the transaction ends have their terminated event.
EndsTask(p) == \E t \in DOMAIN tx[p].task : tx[p].task[t].status # "running"

\* tx.Commit fails, or the process is killed: also a leaked transaction ends with it.
Rollback(p) ==
    /\ pc[p] \in {"locked", "staged", "leaked"} /\ Failure /\ Abandon(p)
    /\ disturbed' = (disturbed \/ EndsTask(p))
    /\ UNCHANGED published

\* The writes get into the tables.
Apply(p) ==
    /\ pc[p] = "staged"
    /\ job' = Write(job, tx[p].job)
    /\ task' = Write(task, tx[p].task)
    /\ available' = Write(available, tx[p].available)
    /\ processed' = processed \cup ({tx[p].event} \ {None})
    /\ tx' = [tx EXCEPT ![p] = NoTx]
    /\ pc' = [pc EXCEPT ![p] = "idle"]
    /\ UNCHANGED <<online, published, struct, disturbed>>

\* tx.Commit; a handler's message is then acknowledged.
Commit(p) == Apply(p) /\ acked' = acked \cup ({tx[p].event} \ {None}) /\ UNCHANGED failures

\* It reports an error although the transaction is committed, or the process is killed
\* before it acknowledges the message.
CommitUnacked(p) == Apply(p) /\ Failure /\ UNCHANGED acked

\* processedEvent.Exists: the message is acknowledged, and nothing done.
AlreadyProcessed(p, e) ==
    /\ pc[p] = "idle" /\ e \in processed
    /\ acked' = acked \cup {e}
    /\ UNCHANGED <<rows, published, processed, local, disturbed, failures>>

\* The status in the struct does not allow the update, or the event has been
\* processed meanwhile: the transaction is rolled back, the event comes again.
Fails(p) ==
    /\ pc[p] = "loaded" /\ Abandon(p)
    /\ UNCHANGED <<published, disturbed, failures>>

NewTasks(c) == {t \in {c} \X (1 .. MaxTasks) : task[t] = NoTask}
NewTask(c)  == CHOOSE t \in NewTasks(c) : TRUE

\* The bound MaxTasks is not reached.
CanSchedule(S) == \A c \in S : NewTasks(c) # {}

\* Container.Schedule for each of S: reduces the resources, sets the status, and
\* creates the Task.
Schedule(locked, e, S, n, resources) ==
    [rows      |-> locked,
     event     |-> e,
     job       |-> [c \in S |-> "SCHEDULED"],
     task      |-> [t \in {NewTask(c) : c \in S} |-> [status |-> "running", node |-> n]],
     available |-> IF S = {} THEN Empty ELSE One(n, resources - Demand(S))]

\* The Tasks of S get a status that is final.
End(locked, e, S, status) ==
    [NoTx EXCEPT !.rows = locked, !.event = e, !.task = [t \in S |-> [task[t] EXCEPT !.status = status]]]

-----------------------------------------------------------------------------
(* The handlers. *)

\* Mutant of JobUpdated: the Job is scheduled whatever its status.
JobUpdatedAnyway(p, e) ==
    /\ pc[p] = "idle" /\ FreeEvent(p, e) /\ Free(p, {e.of} \cup {n \in Nodes : online[n]})
    /\ \E n \in Nodes :
          /\ online[n] /\ Limit[e.of] <= available[n] /\ CanSchedule({e.of})
          /\ Stage(p, Schedule({e.of} \cup {m \in Nodes : online[m]}, e, {e.of}, n, available[n]), {}, FALSE)

\* Mutant of JobUpdated: NodesAvailable does not lock the Nodes.
JobUpdatedUnlocked(p, e) ==
    /\ pc[p] = "idle" /\ FreeEvent(p, e) /\ Free(p, {e.of})
    /\ \E n \in Nodes :
          /\ online[n] /\ job[e.of] = "PENDING" /\ Limit[e.of] <= available[n] /\ CanSchedule({e.of})
          /\ Stage(p, Schedule({e.of}, e, {e.of}, n, available[n]), {}, FALSE)

\* The Job and the ONLINE Nodes are read and locked in the transaction.
JobUpdated(p, e) ==
    /\ pc[p] = "idle" /\ FreeEvent(p, e) /\ Free(p, {e.of} \cup {n \in Nodes : online[n]})
    /\ \E n \in Nodes :
          /\ online[n] /\ job[e.of] = "PENDING" /\ Limit[e.of] <= available[n] /\ CanSchedule({e.of})
          /\ Publish(p, Schedule({e.of} \cup {m \in Nodes : online[m]}, e, {e.of}, n, available[n]), {}, FALSE)

\* Without a Node the handler returns nil, and leaves no ProcessedEvent.
NoSuitableNode(p, e) ==
    /\ pc[p] = "idle" /\ FreeEvent(p, e) /\ Free(p, {e.of})
    /\ \A n \in Nodes : ~online[n]
    /\ acked' = acked \cup {e}
    /\ UNCHANGED <<rows, published, processed, local, disturbed, failures>>

\* NodeUpdated reads the Node with FOR UPDATE, but on s.db: the lock ends at once.
LoadNode(p, e) ==
    Free(p, {e.of}) /\ e \notin processed /\ Load(p, "NodeUpdated", e, e.of, available[e.of])

\* Node.SchedulePendingJobs: of the pending Jobs as many as fit.
NodeUpdated(p) ==
    LET e == struct[p].event   n == struct[p].of   resources == struct[p].seen
        pending == {c \in Containers : job[c] = "PENDING"}
    IN  /\ pc[p] = "loaded" /\ struct[p].op = "NodeUpdated"
        /\ FreeEvent(p, e)
        /\ \E S \in SUBSET pending :
              /\ Demand(S) <= resources /\ CanSchedule(S)
              /\ \A c \in pending \ S : Demand(S \cup {c}) > resources
              /\ Free(p, pending \cup (IF S = {} THEN {} ELSE {n}))
              /\ Publish(p, Schedule(pending \cup (IF S = {} THEN {} ELSE {n}), e, S, n, resources), {},
                         S # {} /\ available[n] # resources)

\* Mutant of NodeDisconnected: the events of the Tasks are not published.
NodeDisconnectedSilently(p, e) ==
    LET lost == {t \in TaskIds : Live(t) /\ task[t].node = e.of}
    IN  /\ pc[p] = "idle" /\ FreeEvent(p, e) /\ Free(p, lost)
        /\ Stage(p, End(lost, e, lost, "failed"), {}, FALSE)

\* Tasks.UpdateStatusForDisconnectedNode: NODE_FAILED for the Tasks on the Node.
NodeDisconnected(p, e) ==
    LET lost == {t \in TaskIds : Live(t) /\ task[t].node = e.of}
    IN  /\ pc[p] = "idle" /\ FreeEvent(p, e) /\ Free(p, lost)
        /\ Publish(p, End(lost, e, lost, "failed"), {Event("terminated", t) : t \in lost}, FALSE)

\* TaskTerminated reads the Task and its Job outside of the transaction.
LoadTask(p, e) ==
    LET c == e.of[1]
    IN  Free(p, {c}) /\ e \notin processed /\ Load(p, "TaskTerminated", e, c, <<task[e.of], job[c]>>)

\* Job.NeedsRescheduling of the status in the Task's struct.
NextJobStatus(c, t) == IF t.status = "failed" /\ c \in Reschedule THEN "PENDING" ELSE "FINISHED"

\* The Job is finished or rescheduled, and its resources are added to those of a
\* Node struct that was never loaded.
TaskTerminated(p) ==
    LET e == struct[p].event   c == struct[p].of
        seenTask == struct[p].seen[1]   seenJob == struct[p].seen[2]
        n == task[e.of].node
        next == NextJobStatus(c, seenTask)
    IN  /\ pc[p] = "loaded" /\ struct[p].op = "TaskTerminated"
        /\ <<seenJob, next>> \in JobTransitions
        /\ FreeEvent(p, e) /\ Free(p, {c, n})
        /\ Publish(p, [rows |-> {c, n}, event |-> e, job |-> One(c, next), task |-> Empty, available |-> One(n, 0 + Limit[c])],
                   IF next = "PENDING" THEN {Event("pending", c)} ELSE {},
                   <<task[e.of], job[c]>> # struct[p].seen \/ available[n] # 0)

-----------------------------------------------------------------------------
(* The RPCs. *)

CreateJob(c) ==
    /\ job[c] = "absent"
    /\ job' = [job EXCEPT ![c] = "NEW"]
    /\ UNCHANGED <<online, available, task, events, local, disturbed, failures>>

\* A new Job is confirmed.
ConfirmJob(c) ==
    /\ job[c] = "NEW" /\ \A p \in Processes : c \notin tx[p].rows
    /\ job' = [job EXCEPT ![c] = "PENDING"]
    /\ published' = published \cup {Event("pending", c)}
    /\ UNCHANGED <<online, available, task, processed, acked, local, disturbed, failures>>

\* UpdateStatus refuses the status of the struct if it cannot become CANCELLED.
LoadJob(p, c) ==
    c \in Cancellable /\ <<job[c], "CANCELLED">> \in JobTransitions /\ Load(p, "CancelJob", None, c, job[c])

\* The UPDATE of the Job locks its row; its Tasks are then read without a lock.
CancelJobRow(p) ==
    LET c == struct[p].of
    IN  /\ pc[p] = "loaded" /\ struct[p].op = "CancelJob"
        /\ Free(p, {c})
        /\ tx' = [tx EXCEPT ![p] = [NoTx EXCEPT !.rows = {c}]]
        /\ UNCHANGED <<rows, events>>

LoadTasks(p) ==
    LET c == struct[p].of
    IN  /\ CancelJobRow(p)
        /\ pc' = [pc EXCEPT ![p] = "locked"]
        /\ struct' = [struct EXCEPT ![p] = [NoStruct EXCEPT !.op = "CancelTasks", !.of = c,
                                              !.seen = {t \in TaskIds : t[1] = c /\ Live(t)}]]
        /\ disturbed' = (disturbed \/ job[c] # struct[p].seen)
        /\ UNCHANGED failures

\* LoadTasksFromDB fails: CancelJob returns, and its transaction is never ended.
LoadTasksFails(p) ==
    /\ CancelJobRow(p) /\ Failure
    /\ pc' = [pc EXCEPT ![p] = "leaked"]
    /\ struct' = [struct EXCEPT ![p] = NoStruct]
    /\ UNCHANGED disturbed

\* Mutant of CancelJob: the Tasks are not cancelled with the Job.
CancelJobAlone(p) ==
    LET c == struct[p].of
    IN  /\ pc[p] = "locked"
        /\ Stage(p, [NoTx EXCEPT !.rows = {c}, !.job = One(c, "CANCELLED")], {}, FALSE)

\* The Job is cancelled, and with it the Tasks that were not terminated when they were
\* read.
CancelJob(p) ==
    LET c == struct[p].of   live == struct[p].seen
    IN  /\ pc[p] = "locked" /\ Free(p, {c} \cup live)
        /\ Publish(p, [End({c} \cup live, None, live, "cancelled") EXCEPT !.job = One(c, "CANCELLED")],
                   {Event("terminated", t) : t \in live}, \E t \in live : ~Live(t))

\* So it does with that of a Task that has ended.
LoadTaskToCancel(p, t) ==
    t[1] \in Cancellable /\ Live(t) /\ Load(p, "CancelTask", None, t, task[t])

CancelTask(p) ==
    LET t == struct[p].of
    IN  /\ pc[p] = "loaded" /\ struct[p].op = "CancelTask"
        /\ Free(p, {t})
        /\ Publish(p, End({t}, None, {t}, "cancelled"), {Event("terminated", t)}, task[t] # struct[p].seen)

-----------------------------------------------------------------------------
(* The Nodes: IterateTasksForNode (see NodeStream), and the end of a Task. *)

Unlocked(x) == \A p \in Processes : x \notin tx[p].rows

Connect(n) ==
    /\ ~online[n] /\ Unlocked(n) /\ Event("online", n).nr <= MaxConnects
    /\ online' = [online EXCEPT ![n] = TRUE]
    /\ published' = published \cup {Event("online", n)}
    /\ UNCHANGED <<available, job, task, processed, acked, local, disturbed, failures>>

Disconnect(n) ==
    /\ online[n] /\ Unlocked(n)
    /\ online' = [online EXCEPT ![n] = FALSE]
    /\ published' = published \cup {Event("offline", n)}
    /\ UNCHANGED <<available, job, task, processed, acked, local, disturbed, failures>>

TaskFinishes(t) ==
    /\ Live(t) /\ Unlocked(t)
    /\ task' = [task EXCEPT ![t].status = "finished"]
    /\ published' = published \cup {Event("terminated", t)}
    /\ UNCHANGED <<online, available, job, processed, acked, local, disturbed, failures>>

\* Send, or the commit after it, fails: the event is out, the row is as before.
Announce(e) ==
    /\ Failure
    /\ published' = published \cup {e}
    /\ disturbed' = (disturbed \/ e.type = "terminated")
    /\ UNCHANGED <<rows, processed, acked, local>>

AnnounceInVain ==
    \/ \E c \in Containers : job[c] = "NEW" /\ Announce(Event("pending", c))
    \/ \E n \in Nodes : online[n] /\ Announce(Event("offline", n))
    \/ \E n \in Nodes : ~online[n] /\ Event("online", n).nr <= MaxConnects /\ Announce(Event("online", n))
    \/ \E t \in TaskIds : Live(t) /\ Announce(Event("terminated", t))

Handler(p) ==
    \/ \E e \in Deliverable("pending") : JobUpdated(p, e) \/ NoSuitableNode(p, e)
    \/ \E e \in Deliverable("online") : LoadNode(p, e)
    \/ \E e \in Deliverable("offline") : NodeDisconnected(p, e)
    \/ \E e \in Deliverable("terminated") : LoadTask(p, e)
    \/ \E e \in published \ acked : AlreadyProcessed(p, e)
    \/ NodeUpdated(p) \/ TaskTerminated(p)

Request(p) ==
    \/ \E c \in Containers : LoadJob(p, c)
    \/ \E t \in TaskIds : LoadTaskToCancel(p, t)
    \/ LoadTasks(p) \/ LoadTasksFails(p) \/ CancelJob(p) \/ CancelTask(p)

Next ==
    \/ \E p \in Processes : Handler(p) \/ Request(p) \/ Commit(p) \/ CommitUnacked(p) \/ Rollback(p) \/ Fails(p)
    \/ \E c \in Containers : CreateJob(c) \/ ConfirmJob(c)
    \/ \E n \in Nodes : Connect(n) \/ Disconnect(n)
    \/ \E t \in TaskIds : TaskFinishes(t)
    \/ AnnounceInVain

Spec == Init /\ [][Next]_vars

-----------------------------------------------------------------------------
(* Properties. *)

\* The resources of a Task come back with its terminated event.
Released(t) == \E e \in processed : e.type = "terminated" /\ e.of = t
Holding(n)  == {t \in TaskIds : task[t].node = n /\ ~Released(t)}
Held(n)     == SumFunctionOnSet([t \in TaskIds |-> Limit[t[1]]], Holding(n))

\* What a Node has available is its capacity without the Limits of the Tasks whose
\* resources were not given back, under competing handlers, redelivery and
\* cancellation, failures and crashes, as long as no UPDATE has overtaken another one and
\* no end of a Task was announced by a transaction that is rolled back.
Accounting ==
    ~disturbed => \A n \in Nodes : available[n] + Held(n) = Capacity[n]

\* The Job c has a Task that ended and whose terminated event is still to be processed.
EndUnprocessed(c) ==
    \E t \in TaskIds, e \in published \ processed : t[1] = c /\ e.type = "terminated" /\ e.of = t

\* A Job is never given to a second Node while a Task of it runs, unless rows and events
\* were disturbed in one of these two ways: the row lock of LoadFromDBForUpdate(tx) holds between
\* JobUpdated and NodeUpdated.  Nor is it forgotten while it is SCHEDULED: it has a Task
\* that runs, or an event that will finish or reschedule it.
RunsOnOneNode ==
    ~disturbed => \A c \in Containers :
        LET live == {t \in TaskIds : t[1] = c /\ Live(t)}
        IN  /\ Cardinality(live) <= 1
            /\ job[c] = "SCHEDULED" => live # {} \/ EndUnprocessed(c)

-----------------------------------------------------------------------------
(* What Scheduling implements. *)

Serial == INSTANCE Placement WITH returned <- {t \in TaskIds : Released(t)}

\* The committed rows change as if transactions ran one at a time, each in its commit,
\* although they were computed from what was loaded before and interleave until then:
\* the step that a commit takes in Placement has its guards in the tables that the
\* commit finds, and resources are given back once under redelivery.
ImplementsPlacement == Serial!Init /\ [][disturbed' \/ Serial!Next]_(Serial!pvars)

=============================================================================
