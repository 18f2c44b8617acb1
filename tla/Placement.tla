------------------------------- MODULE Placement -------------------------------
(***************************************************************************)
(* What the scheduling of Jobs promises, without processes, transactions,  *)
(* events or locks: PENDING Jobs are placed on a Node that has the         *)
(* resources for all of them, each with one Task, and none of them while   *)
(* an earlier Task of it has its resources; a Job is cancelled together    *)
(* with its Tasks; the resources of a Task come back once, and its Job is  *)
(* then finished, or PENDING again if the Task has failed.                 *)
(***************************************************************************)
EXTENDS Naturals, Functions

CONSTANTS Nodes, Containers, Limit, Capacity, Reschedule, MaxTasks, None

VARIABLES
    available, job, task,
    returned     \* the Tasks whose resources have come back

pvars == <<available, job, task, returned>>

TaskIds == Containers \X (1 .. MaxTasks)
NoTask  == [status |-> "none", node |-> None]

Demand(S) == SumFunctionOnSet(Limit, S)
Vacant    == {t \in TaskIds : task[t] = NoTask}
Running   == {t \in TaskIds : task[t].status = "running"}
Holding   == {t \in TaskIds : task[t] # NoTask /\ t \notin returned}

Init ==
    /\ available = Capacity
    /\ job = [c \in Containers |-> "absent"]
    /\ task = [t \in TaskIds |-> NoTask]
    /\ returned = {}

Submit(c) ==
    /\ job[c] = "absent" /\ job' = [job EXCEPT ![c] = "NEW"]
    /\ UNCHANGED <<available, task, returned>>

Confirm(c) ==
    /\ job[c] = "NEW" /\ job' = [job EXCEPT ![c] = "PENDING"]
    /\ UNCHANGED <<available, task, returned>>

\* The Tasks of T are created, one for each Job that is placed on Node n.
Place(n, T) ==
    LET S == {t[1] : t \in T}
    IN  /\ T # {} /\ \A t, u \in T : u[1] = t[1] => u = t
        /\ \A c \in S : job[c] = "PENDING" /\ \A t \in Holding : t[1] # c
        /\ Demand(S) <= available[n]
        /\ available' = [available EXCEPT ![n] = available[n] - Demand(S)]
        /\ job' = [c \in Containers |-> IF c \in S THEN "SCHEDULED" ELSE job[c]]
        /\ task' = [t \in TaskIds |-> IF t \in T THEN [status |-> "running", node |-> n] ELSE task[t]]
        /\ UNCHANGED returned

\* Each Task of T ends in its own way.
EndTasks(T, status) ==
    /\ task' = [t \in TaskIds |-> IF t \in T THEN [status |-> status[t], node |-> task[t].node] ELSE task[t]]
    /\ UNCHANGED <<available, returned>>

End(T) ==
    /\ \E status \in [T -> {"finished", "failed", "cancelled"}] : EndTasks(T, status)
    /\ UNCHANGED job

Cancel(c) ==
    LET T == {t \in Running : t[1] = c}
    IN  /\ job[c] \in {"NEW", "PENDING", "SCHEDULED"} /\ job' = [job EXCEPT ![c] = "CANCELLED"]
        /\ EndTasks(T, [t \in T |-> "cancelled"])

\* The end of the Task is announced, but may not be committed yet: then its Job is
\* finished, however the Task ends.
GiveBack(t) ==
    LET c == t[1]   n == task[t].node
    IN  /\ t \in Holding /\ returned' = returned \cup {t}
        /\ available' = [available EXCEPT ![n] = available[n] + Limit[c]]
        /\ job[c] = "SCHEDULED"
        /\ \/ job' = [job EXCEPT ![c] = "FINISHED"]
           \/ /\ c \in Reschedule /\ task[t].status = "failed"
              /\ job' = [job EXCEPT ![c] = "PENDING"]
        /\ UNCHANGED task

Next ==
    \/ \E c \in Containers : Submit(c) \/ Confirm(c) \/ Cancel(c)
    \/ \E n \in Nodes, T \in SUBSET Vacant : Place(n, T)
    \/ \E T \in SUBSET Running : End(T)
    \/ \E t \in TaskIds : GiveBack(t)

Spec == Init /\ [][Next]_pvars
=============================================================================
