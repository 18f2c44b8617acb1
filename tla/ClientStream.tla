----------------------------- MODULE ClientStream -----------------------------
(***************************************************************************)
(* SchedulerServer.IterateTasks: a client receives the Tasks of its Job.   *)
(* HandleTaskCreated sends them to the channel that it finds in            *)
(* tasksForClients, and HandleJobTerminated closes that channel.  One Job  *)
(* on one server, and the RPCs of clients that ask for its Tasks; each of  *)
(* the two handlers has a consumer of its own.  The channel is named by    *)
(* the RPC that made it.  tasksForClientsMux is held within single steps.  *)
(* HandleTaskCreated serves the stream of the Task's Node first, in the    *)
(* same goroutine: what becomes of it there is in NodeStream; here it is   *)
(* at the Node for as long as it takes.                                    *)
(***************************************************************************)
EXTENDS Naturals, FiniteSets

CONSTANTS
    Streams,          \* IterateTasks RPCs for the Job
    MaxTasks,         \* bound: Tasks of the Job
    MaxRedeliveries,  \* bound: events delivered once more
    Node,             \* the channel of the Task's Node
    None

ASSUME StreamsAssumption == None \notin Streams /\ Node \notin Streams /\ Node # None
ASSUME BoundsAssumption  == MaxTasks \in Nat /\ MaxRedeliveries \in Nat

VARIABLES
    terminated,   \* committed status of the Job
    created,      \* Tasks created so far: 1 .. created
    inbox,        \* Tasks whose event HandleTaskCreated has to handle
    jobEvent,     \* HandleJobTerminated has to handle the Job's last event
    chanOf,       \* the Job's channel in tasksForClients
    closed,
    pc,
    seen,         \* status in the Job's struct
    received,     \* Tasks sent to a client
    sending,      \* what HandleTaskCreated is sending: Task and channel
    closing,      \* channel that HandleJobTerminated is about to close
    stopping,     \* gracefulStop is closed
    panicked,     \* the process has died
    redelivered

db       == <<terminated, created>>
streams  == <<pc, seen, received>>
channels == <<chanOf, closed>>
handlers == <<inbox, jobEvent, sending, closing, redelivered>>
health   == <<stopping, panicked>>
vars     == <<db, streams, channels, handlers, health>>

Tasks        == 1 .. MaxTasks
Unregistered == {"start", "existing", "check", "register", "refused"}
Idle         == [task |-> 0, to |-> None]

TypeOK ==
    /\ terminated \in BOOLEAN /\ created \in 0 .. MaxTasks
    /\ inbox \subseteq 1 .. created /\ jobEvent \in BOOLEAN
    /\ chanOf \in Streams \cup {None} /\ closed \subseteq Streams
    /\ pc \in [Streams -> Unregistered \cup {"streaming", "leaving", "done"}]
    /\ seen \in [Streams -> BOOLEAN]
    /\ received \in [Streams -> SUBSET (1 .. created)]
    /\ sending \in [task : 0 .. created, to : Streams \cup {Node, None}]
    /\ closing \in Streams \cup {None}
    /\ stopping \in BOOLEAN /\ panicked \in BOOLEAN
    /\ redelivered \in 0 .. MaxRedeliveries

Init ==
    /\ terminated = FALSE /\ created = 0
    /\ inbox = {} /\ jobEvent = FALSE
    /\ chanOf = None /\ closed = {}
    /\ pc = [c \in Streams |-> "start"]
    /\ seen = [c \in Streams |-> FALSE]
    /\ received = [c \in Streams |-> {}]
    /\ sending = Idle /\ closing = None
    /\ stopping = FALSE /\ panicked = FALSE
    /\ redelivered = 0

Goto(c, from, to) == pc[c] = from /\ pc' = [pc EXCEPT ![c] = to]

-----------------------------------------------------------------------------
(* IterateTasks. *)

\* job.LoadFromDB; the RPC is refused if the claims are not those of the owner, or
\* asks for the existing Tasks, or not.
LoadJob(c, next) ==
    /\ ~stopping
    /\ Goto(c, "start", next)
    /\ seen' = [seen EXCEPT ![c] = terminated]
    /\ UNCHANGED <<db, received, channels, handlers, health>>

\* Mutant of SendExisting: the zero value of a Task goes first.
SendExistingZero(c, loaded, sent) ==
    /\ Goto(c, "existing", IF sent THEN "check" ELSE "refused")
    /\ received' = [received EXCEPT ![c] = IF loaded /\ sent THEN 0 .. created ELSE {}]
    /\ UNCHANGED <<db, seen, channels, handlers, health>>

\* The Tasks in the database; if they cannot be loaded they are left out, and if
\* the client is gone the RPC ends.
SendExisting(c, loaded, sent) ==
    /\ Goto(c, "existing", IF sent THEN "check" ELSE "refused")
    /\ received' = [received EXCEPT ![c] = IF loaded /\ sent THEN 1 .. created ELSE {}]
    /\ UNCHANGED <<db, seen, channels, handlers, health>>

\* Mutant of CheckTerminated: the deferred deletion is set up too early.
CheckTerminatedDeletes(c) ==
    /\ Goto(c, "check", IF seen[c] THEN "refused" ELSE "register")
    /\ chanOf' = IF seen[c] THEN None ELSE chanOf
    /\ UNCHANGED <<db, seen, received, closed, handlers, health>>

\* job.IsTerminated, of the struct.
CheckTerminated(c) ==
    /\ Goto(c, "check", IF seen[c] THEN "refused" ELSE "register")
    /\ UNCHANGED <<db, seen, received, channels, handlers, health>>

\* A new channel replaces the one that another RPC has put there.
Register(c) ==
    /\ Goto(c, "register", "streaming")
    /\ chanOf' = c
    /\ UNCHANGED <<db, seen, received, closed, handlers, health>>

\* Mutant of ReceiveTask: a Task that the client has is not read again.
ReceiveTaskOnce(c, sent) ==
    /\ Goto(c, "streaming", IF sent THEN "streaming" ELSE "leaving")
    /\ sending.to = c /\ c \notin closed /\ sending.task \notin received[c]
    /\ sending' = Idle
    /\ received' = [received EXCEPT ![c] = IF sent THEN @ \cup {sending.task} ELSE @]
    /\ UNCHANGED <<db, seen, channels, inbox, jobEvent, closing, redelivered, health>>

ReceiveTask(c, sent) ==
    /\ Goto(c, "streaming", IF sent THEN "streaming" ELSE "leaving")
    /\ sending.to = c /\ c \notin closed
    /\ sending' = Idle
    /\ received' = [received EXCEPT ![c] = IF sent THEN @ \cup {sending.task} ELSE @]
    /\ UNCHANGED <<db, seen, channels, inbox, jobEvent, closing, redelivered, health>>

\* Mutant of EndOfTasks: the closed channel is read as an empty Task.
EndOfTasksMissed(c) ==
    /\ c \in closed
    /\ Goto(c, "streaming", "streaming")
    /\ UNCHANGED <<db, seen, received, channels, handlers, health>>

EndOfTasks(c) ==
    /\ c \in closed
    /\ Goto(c, "streaming", "leaving")
    /\ UNCHANGED <<db, seen, received, channels, handlers, health>>

\* ctx.Done.
Leave(c) ==
    /\ Goto(c, "streaming", "leaving")
    /\ UNCHANGED <<db, seen, received, channels, handlers, health>>

\* Mutant of LeaveOnStop: a stream waits for the end of its Job.
LeaveOnStopTerminated(c) ==
    /\ stopping /\ terminated
    /\ Goto(c, "streaming", "leaving")
    /\ UNCHANGED <<db, seen, received, channels, handlers, health>>

LeaveOnStop(c) ==
    /\ stopping
    /\ Goto(c, "streaming", "leaving")
    /\ UNCHANGED <<db, seen, received, channels, handlers, health>>

\* The deferred function deletes whatever channel the Job has.
Unregister(c) ==
    /\ Goto(c, "leaving", "done")
    /\ chanOf' = None
    /\ UNCHANGED <<db, seen, received, closed, handlers, health>>

-----------------------------------------------------------------------------
(* The handlers.  Between the look-up under RLock and the use of the channel   *)
(* anything may happen.                                                        *)

\* HandleTaskCreated sends the Task to the channel of its Node, if there is one: it
\* goes on when the Node's stream has read the Task, or at once.
TakeTask ==
    /\ sending = Idle
    /\ \E t \in inbox :
          /\ inbox' = inbox \ {t}
          /\ sending' = [task |-> t, to |-> Node]
    /\ UNCHANGED <<db, streams, channels, jobEvent, closing, redelivered, health>>

\* Mutant of LookupTask: a Task without a channel blocks the handler.
LookupTaskWaits ==
    /\ sending.to = Node
    /\ sending' = [sending EXCEPT !.to = chanOf]
    /\ UNCHANGED <<db, streams, channels, inbox, jobEvent, closing, redelivered, health>>

LookupTask ==
    /\ sending.to = Node
    /\ sending' = IF chanOf = None THEN Idle ELSE [sending EXCEPT !.to = chanOf]
    /\ UNCHANGED <<db, streams, channels, inbox, jobEvent, closing, redelivered, health>>

SendPanics ==
    /\ sending.to \in closed
    /\ panicked' = TRUE
    /\ UNCHANGED <<db, streams, channels, handlers, stopping>>

LookupJob ==
    /\ jobEvent /\ closing = None
    /\ jobEvent' = FALSE
    /\ closing' = chanOf
    /\ UNCHANGED <<db, streams, channels, inbox, sending, redelivered, health>>

\* close(ch), which panics when it is closed already.
CloseChannel ==
    /\ closing # None
    /\ closed' = closed \cup {closing}
    /\ panicked' = (closing \in closed)
    /\ closing' = None
    /\ UNCHANGED <<db, streams, chanOf, inbox, jobEvent, sending, redelivered, stopping>>

-----------------------------------------------------------------------------
(* The rest of the scheduler. *)

CreateTask ==
    /\ ~terminated /\ created < MaxTasks
    /\ created' = created + 1
    /\ inbox' = inbox \cup {created'}
    /\ UNCHANGED <<terminated, streams, channels, jobEvent, sending, closing, redelivered, health>>

TerminateJob ==
    /\ ~terminated
    /\ terminated' = TRUE /\ jobEvent' = TRUE
    /\ UNCHANGED <<created, streams, channels, inbox, sending, closing, redelivered, health>>

\* An event is delivered once more.
Redeliver ==
    /\ redelivered < MaxRedeliveries
    /\ redelivered' = redelivered + 1
    /\ \/ \E t \in (1 .. created) \ inbox : inbox' = inbox \cup {t} /\ UNCHANGED jobEvent
       \/ terminated /\ jobEvent' = TRUE /\ UNCHANGED inbox
    /\ UNCHANGED <<db, streams, channels, sending, closing, health>>

GracefulStop ==
    /\ ~stopping
    /\ stopping' = TRUE
    /\ UNCHANGED <<db, streams, channels, handlers, panicked>>

StreamStep(c) ==
    \/ \E loaded, sent \in BOOLEAN : SendExisting(c, loaded, sent)
    \/ CheckTerminated(c) \/ Register(c) \/ EndOfTasks(c) \/ LeaveOnStop(c) \/ Unregister(c)

Receives(c) == \E sent \in BOOLEAN : ReceiveTask(c, sent)

TaskConsumer == TakeTask \/ SendPanics
JobConsumer  == LookupJob \/ CloseChannel

Next ==
    /\ ~panicked
    /\ \/ \E c \in Streams, next \in {"refused", "existing", "check"} : LoadJob(c, next)
       \/ \E c \in Streams : StreamStep(c) \/ Receives(c) \/ Leave(c)
       \/ TaskConsumer \/ LookupTask \/ JobConsumer
       \/ CreateTask \/ TerminateJob \/ Redeliver \/ GracefulStop

Spec == Init /\ [][Next]_vars

\* Goroutines run on; nothing from outside has to come.  Nor does the Node have to
\* read its Task, upon which HandleTaskCreated would go on to the client.
Fairness ==
    /\ \A c \in Streams : WF_vars(~panicked /\ StreamStep(c)) /\ WF_vars(~panicked /\ Receives(c))
    /\ WF_vars(~panicked /\ TaskConsumer) /\ WF_vars(~panicked /\ JobConsumer)

FairSpec == Spec /\ Fairness

-----------------------------------------------------------------------------
(* Properties. *)

\* A client streams from a channel that the handlers find, whatever other RPCs
\* for the Job were refused, as long as none of them got as far as registering:
\* the map has one channel for a Job.
AloneIsReachable ==
    \A c \in Streams :
        pc[c] = "streaming" /\ (\A d \in Streams \ {c} : pc[d] \in Unregistered) => chanOf = c

\* HandleTaskCreated waits on a channel only as long as its stream reads: the Task
\* is received, or the stream has gone (and then it waits for ever).
SendIsReceived ==
    \A c \in Streams :
        sending.to = c ~> sending.to # c \/ pc[c] \in {"leaving", "done"} \/ panicked

\* A Task whose event comes while a stream is registered, or is with the Task's Node
\* then, reaches the client, unless the stream ends, another one takes its place, or
\* the handler hangs on one that has gone; provided that no Node keeps the handler,
\* which serves the Tasks of all Nodes, for ever.
TaskReachesStream ==
    []<>(sending.to # Node) =>
        \A c \in Streams, t \in Tasks :
            (t \in inbox \/ sending = [task |-> t, to |-> Node]) /\ chanOf = c ~>
                \/ t \in received[c] \/ chanOf # c \/ panicked
                \/ sending.to \in Streams /\ pc[sending.to] \in {"leaving", "done"}

\* A stream whose channel HandleJobTerminated has found ends, on its own.
EndsWithJob ==
    \A c \in Streams : closing = c ~> pc[c] = "done" \/ panicked

\* After a graceful stop every RPC comes to an end.
StopCompletes ==
    \A c \in Streams : stopping ~> pc[c] \in {"start", "refused", "done"} \/ panicked
=============================================================================
