-------------------------------- MODULE Service --------------------------------
(***************************************************************************)
(* The life of a process of the accounts service, deployed either as       *)
(* "accounts up", which serves RPCs, or as "accounts handle_events", which *)
(* replicates the Nodes of the scheduler so that they can authenticate.    *)
(* How it comes up and goes down decides what happens to the work that is  *)
(* under way: Register RPCs of one username, and the callback of the       *)
(* subscription with the events of the Nodes of one username and name.     *)
(* An orchestrator starts the process again when it has ended.             *)
(***************************************************************************)
EXTENDS Naturals, FiniteSets

CONSTANTS
    Clients,      \* Register RPCs for one username, of different people
    Nodes,        \* Nodes of one username and name that the scheduler announces
    Tries,        \* attempts to open the database: 1, 2, 4, 8, 16 seconds apart
    MaxStops,     \* bound: signals to the process
    MaxFailures,  \* bound: crashes, commits that fail, acknowledgements of an event that are lost
    MaxRetries,   \* bound: failures of what is tried again
    None

ASSUME NoneAssumption   == None \notin Clients \cup Nodes
ASSUME TriesAssumption  == Tries \in Nat \ {0}
ASSUME BoundsAssumption == MaxStops \in Nat /\ MaxFailures \in Nat /\ MaxRetries \in Nat

VARIABLES
    deployed,    \* the command that the process runs
    stage,       \* how far the process has come
    tries,       \* failed attempts to open the database
    stops, failures, retries,
    rpc,         \* each Register RPC
    owner,       \* committed User with the username
    announced,   \* Users whose CREATED event is in NATS
    queue,       \* Nodes whose CREATED event the queue group has not acknowledged
    node,        \* Node that the scheduler has committed
    phantoms,    \* Nodes that it has announced only
    replica,     \* committed Node of the accounts service
    callback,    \* what the subscription's callback does, and with which Node
    reader,      \* the goroutine that logs Errors()
    errorsClosed

life     == <<stage, tries>>
budgets  == <<stops, failures, retries>>
register == <<rpc, owner, announced>>
outside  == <<node, phantoms>>
consumer == <<callback, reader, errorsClosed>>
vars     == <<deployed, life, budgets, register, queue, outside, replica, consumer>>

Idle == [pc |-> "idle", node |-> None]

TypeOK ==
    /\ deployed \in {"up", "handle_events"}
    /\ stage \in {"down", "opened", "joined", "running", "stopping", "left"}
    /\ tries \in 0 .. Tries - 1
    /\ stops \in 0 .. MaxStops /\ failures \in 0 .. MaxFailures /\ retries \in 0 .. MaxRetries
    /\ rpc \in [Clients -> {"idle", "begun", "inserted", "sent", "done"}]
    /\ owner \in Clients \cup {None} /\ announced \subseteq Clients
    /\ queue \subseteq Nodes /\ phantoms \subseteq Nodes
    /\ node \in Nodes \cup {None} /\ replica \in Nodes \cup {None}
    /\ callback = Idle \/ callback \in [pc : {"handling", "handled", "reporting"}, node : Nodes]
    /\ reader \in {"none", "reading", "ended"} /\ errorsClosed \in BOOLEAN

Init ==
    /\ deployed \in {"up", "handle_events"}
    /\ stage = "down" /\ tries = 0
    /\ stops = 0 /\ failures = 0 /\ retries = 0
    /\ rpc = [c \in Clients |-> "idle"]
    /\ owner = None /\ announced = {}
    /\ queue = {} /\ node = None /\ phantoms = {} /\ replica = None
    /\ callback = Idle /\ reader = "none" /\ errorsClosed = FALSE

Fail  == failures < MaxFailures /\ failures' = failures + 1 /\ UNCHANGED <<stops, retries>>
Retry == retries < MaxRetries /\ retries' = retries + 1 /\ UNCHANGED <<stops, failures>>

\* The process ends; Postgres rolls back what is not committed, and what is not
\* acknowledged is delivered again.
Exit ==
    /\ stage' = "down" /\ tries' = 0
    /\ rpc' = [c \in Clients |-> IF rpc[c] = "idle" THEN "idle" ELSE "done"]
    /\ callback' = Idle /\ reader' = "none" /\ errorsClosed' = FALSE

-----------------------------------------------------------------------------
(* Coming up. *)

ConnectDB ==
    /\ stage = "down" /\ stage' = "opened" /\ tries' = 0
    /\ UNCHANGED <<deployed, budgets, register, queue, outside, replica, consumer>>

\* Mutant of ConnectDBFails: the loop does not end.
ConnectDBForEver ==
    /\ stage = "down" /\ Retry
    /\ tries' = tries + 1
    /\ UNCHANGED <<deployed, stage, register, queue, outside, replica, consumer>>

\* It sleeps and tries again, and gives up in the end.
ConnectDBFails ==
    /\ stage = "down" /\ Retry
    /\ tries' = IF tries + 1 = Tries THEN 0 ELSE tries + 1
    /\ UNCHANGED <<deployed, stage, register, queue, outside, replica, consumer>>

\* stan.Connect, and what is built on the connection.
ConnectStan ==
    /\ stage = "opened" /\ stage' = "joined"
    /\ UNCHANGED <<deployed, tries, budgets, register, queue, outside, replica, consumer>>

ConnectStanFails ==
    /\ stage = "opened" /\ Retry /\ Exit
    /\ UNCHANGED <<deployed, owner, announced, queue, outside, replica>>

\* Serve listens, in a goroutine of its own.
Serve ==
    /\ deployed = "up" /\ stage = "joined" /\ stage' = "running"
    /\ UNCHANGED <<deployed, tries, budgets, register, queue, outside, replica, consumer>>

\* NatsQueueConsumer.Consume: from here on the callback may be called.
Consume ==
    /\ deployed = "handle_events" /\ stage = "joined" /\ stage' = "running"
    /\ UNCHANGED <<deployed, tries, budgets, register, queue, outside, replica, consumer>>

ConsumeFails ==
    /\ deployed = "handle_events" /\ stage = "joined" /\ Retry /\ Exit
    /\ UNCHANGED <<deployed, owner, announced, queue, outside, replica>>

StartReader ==
    /\ deployed = "handle_events" /\ stage \in {"running", "stopping", "left"}
    /\ reader = "none" /\ reader' = "reading"
    /\ UNCHANGED <<deployed, life, budgets, register, queue, outside, replica, callback, errorsClosed>>

-----------------------------------------------------------------------------
(* Going down. *)

\* SIGINT or SIGTERM, once the process waits for it.
Signal ==
    /\ stage = "running" /\ stops < MaxStops
    /\ stops' = stops + 1 /\ stage' = "stopping"
    /\ UNCHANGED <<deployed, tries, failures, retries, register, queue, outside, replica, consumer>>

\* Mutant of GracefulStop: the RPCs under way are not waited for.
Stop ==
    /\ deployed = "up" /\ stage = "stopping" /\ stage' = "left"
    /\ UNCHANGED <<deployed, tries, budgets, register, queue, outside, replica, consumer>>

GracefulStop ==
    /\ deployed = "up" /\ stage = "stopping" /\ stage' = "left"
    /\ \A c \in Clients : rpc[c] \in {"idle", "done"}
    /\ UNCHANGED <<deployed, tries, budgets, register, queue, outside, replica, consumer>>

\* The server fails: Serve returns without waiting for the RPCs.
ServeFails ==
    /\ deployed = "up" /\ stage = "running" /\ stage' = "left" /\ Fail
    /\ UNCHANGED <<deployed, tries, register, queue, outside, replica, consumer>>

\* NatsSubscription.Close ends the reader; a callback that is running goes on.
CloseSubscription ==
    /\ deployed = "handle_events" /\ stage = "stopping" /\ stage' = "left"
    /\ errorsClosed' = TRUE /\ reader' = "ended"
    /\ UNCHANGED <<deployed, tries, budgets, register, queue, outside, replica, callback>>

\* The subscription cannot be closed: that is logged, and the channel stays open.
CloseSubscriptionFails ==
    /\ deployed = "handle_events" /\ stage = "stopping" /\ stage' = "left" /\ Retry
    /\ UNCHANGED <<deployed, tries, register, queue, outside, replica, consumer>>

\* The deferred Close of the connections, and the end of main.
Leave ==
    /\ stage = "left" /\ Exit
    /\ UNCHANGED <<deployed, budgets, owner, announced, queue, outside, replica>>

Crash ==
    /\ stage # "down" /\ Fail /\ Exit
    /\ UNCHANGED <<deployed, owner, announced, queue, outside, replica>>

-----------------------------------------------------------------------------
(* AccountsServer.Register. *)

Step(c, from, to) == rpc[c] = from /\ rpc' = [rpc EXCEPT ![c] = to]

Uncommitted(c) == rpc[c] \in {"inserted", "sent"}

\* The request is validated, the password hashed and the transaction begun, or the
\* RPC is refused.
Begin(c, next) ==
    /\ deployed = "up" /\ stage = "running"
    /\ Step(c, "idle", next)
    /\ UNCHANGED <<deployed, life, budgets, owner, announced, queue, outside, replica, consumer>>

\* user.Create waits for the transaction that has inserted the username.
Insert(c) ==
    /\ Step(c, "begun", "inserted")
    /\ owner = None /\ \A d \in Clients : ~Uncommitted(d)
    /\ UNCHANGED <<deployed, life, budgets, owner, announced, queue, outside, replica, consumer>>

\* The unique constraint: the transaction is rolled back.
InsertDuplicate(c) ==
    /\ Step(c, "begun", "done")
    /\ owner # None
    /\ UNCHANGED <<deployed, life, budgets, owner, announced, queue, outside, replica, consumer>>

Publish(c) ==
    /\ Step(c, "inserted", "sent")
    /\ announced' = announced \cup {c}
    /\ UNCHANGED <<deployed, life, budgets, owner, queue, outside, replica, consumer>>

\* Send returns an error, and the RPC rolls back; NATS may have stored the event, of
\* which only the acknowledgement was lost.
PublishFails(c, stored) ==
    /\ Step(c, "inserted", "done")
    /\ IF stored THEN Fail /\ announced' = announced \cup {c}
                 ELSE Retry /\ UNCHANGED announced
    /\ UNCHANGED <<deployed, life, owner, queue, outside, replica, consumer>>

Commit(c) ==
    /\ Step(c, "sent", "done")
    /\ owner' = c
    /\ UNCHANGED <<deployed, life, budgets, announced, queue, outside, replica, consumer>>

\* The RPC gets an error for its commit, which Postgres may have applied.
CommitFails(c, committed) ==
    /\ Step(c, "sent", "done") /\ Fail
    /\ owner' = IF committed THEN c ELSE owner
    /\ UNCHANGED <<deployed, life, announced, queue, outside, replica, consumer>>

-----------------------------------------------------------------------------
(* The subscription of handle_events. *)

At(pc) == callback.pc = pc

\* One message at a time.
Deliver(n) ==
    /\ deployed = "handle_events" /\ stage \in {"running", "stopping"}
    /\ n \in queue /\ At("idle")
    /\ callback' = [pc |-> "handling", node |-> n]
    /\ UNCHANGED <<deployed, life, budgets, register, queue, outside, replica, reader, errorsClosed>>

\* SchedulerNodeCreatedHandler.Handle: a Node that exists is left as it is, with a
\* rollback and no error.
Handle ==
    /\ At("handling")
    /\ replica' = IF replica = None THEN callback.node ELSE replica
    /\ callback' = [callback EXCEPT !.pc = "handled"]
    /\ UNCHANGED <<deployed, life, budgets, register, queue, outside, reader, errorsClosed>>

HandleFails ==
    /\ At("handling") /\ Retry
    /\ callback' = [callback EXCEPT !.pc = "reporting"]
    /\ UNCHANGED <<deployed, life, register, queue, outside, replica, reader, errorsClosed>>

Ack ==
    /\ At("handled")
    /\ queue' = queue \ {callback.node} /\ callback' = Idle
    /\ UNCHANGED <<deployed, life, budgets, register, outside, replica, reader, errorsClosed>>

AckFails ==
    /\ At("handled") /\ Retry
    /\ callback' = [callback EXCEPT !.pc = "reporting"]
    /\ UNCHANGED <<deployed, life, register, queue, outside, replica, reader, errorsClosed>>

\* Mutant of ReadError: the goroutine ends with the first error.
ReadErrorOnce ==
    /\ At("reporting") /\ reader = "reading"
    /\ callback' = Idle /\ reader' = "ended"
    /\ UNCHANGED <<deployed, life, budgets, register, queue, outside, replica, errorsClosed>>

\* The callback hands over the error and returns; the message is delivered again.
ReadError ==
    /\ At("reporting") /\ reader = "reading"
    /\ callback' = Idle
    /\ UNCHANGED <<deployed, life, budgets, register, queue, outside, replica, reader, errorsClosed>>

\* The callback sends on the closed channel.
SendPanics ==
    /\ At("reporting") /\ errorsClosed /\ Exit
    /\ UNCHANGED <<deployed, budgets, owner, announced, queue, outside, replica>>

\* The scheduler announces a Node and commits it, or does not.
CreateNode(n, committed) ==
    /\ node = None /\ n \notin phantoms
    /\ queue' = queue \cup {n}
    /\ IF committed THEN node' = n /\ UNCHANGED phantoms
                    ELSE phantoms' = phantoms \cup {n} /\ UNCHANGED node
    /\ UNCHANGED <<deployed, life, budgets, register, replica, consumer>>

-----------------------------------------------------------------------------
ComeUp == ConnectDB \/ ConnectStan \/ Serve \/ Consume \/ StartReader
GoDown == GracefulStop \/ CloseSubscription \/ Leave
Rpc(c) == Insert(c) \/ InsertDuplicate(c) \/ Publish(c) \/ Commit(c)
Call   == Handle \/ Ack \/ ReadError \/ SendPanics

Next ==
    \/ ComeUp \/ ConnectDBFails \/ ConnectStanFails \/ ConsumeFails
    \/ GoDown \/ Signal \/ ServeFails \/ CloseSubscriptionFails \/ Crash
    \/ \E c \in Clients : Rpc(c)
    \/ \E c \in Clients, stored \in BOOLEAN : PublishFails(c, stored)
    \/ \E c \in Clients, committed \in BOOLEAN : CommitFails(c, committed)
    \/ \E c \in Clients, next \in {"begun", "done"} : Begin(c, next)
    \/ Call \/ HandleFails \/ AckFails
    \/ \E n \in Nodes : Deliver(n)
    \/ deployed = "handle_events" /\ \E n \in Nodes, committed \in BOOLEAN : CreateNode(n, committed)

\* The process is started again, its goroutines run, what is not acknowledged is
\* delivered again; calls and signals need not come.
Fairness ==
    /\ WF_vars(ComeUp) /\ WF_vars(GoDown) /\ WF_vars(Call)
    /\ \A c \in Clients : WF_vars(Rpc(c))
    /\ \A n \in Nodes : SF_vars(Deliver(n))

Spec == Init /\ [][Next]_vars /\ Fairness

-----------------------------------------------------------------------------
(* Properties. *)

\* CommitAndPublish sends the event of a new User before it commits, so a User that
\* was never created may have been announced; but only once for every crash, commit
\* that failed or event that was stored although Send failed: concurrent RPCs wait for
\* each other in the unique index, and an orderly stop lets them finish.  A created
\* User has always been announced.
PhantomOnlyByFailure ==
    /\ Cardinality({c \in announced \ {owner} : rpc[c] = "done"}) <= failures
    /\ owner # None => owner \in announced

\* A Node that the scheduler has created can authenticate in the end, however often
\* its event fails to be handled or the process ends in between, unless a Node of
\* the same name that was announced only has been handled before.  In particular
\* the callback does not hang on the unbuffered channel of errors.
NodeReplicated ==
    \A n \in Nodes :
        deployed = "handle_events" /\ node = n ~> replica = n \/ replica \in phantoms

=============================================================================
