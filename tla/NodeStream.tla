------------------------------ MODULE NodeStream ------------------------------
(***************************************************************************)
(* SchedulerServer.IterateTasksForNode: a Node connects, is marked ONLINE, *)
(* receives the Tasks that HandleTaskCreated puts into its channel, and is *)
(* marked OFFLINE when the RPC is done.  One Node, which may call several  *)
(* times and reach several servers: every server has a map tasksForNodes   *)
(* of its own, and they share the Node's row in the database.              *)
(*                                                                         *)
(* Only the Node's entry of the map is modelled, and of HandleTaskCreated  *)
(* the part that serves Nodes.  A channel is named by the call that made   *)
(* it.  Transactions lock the row from node.Update until they end.         *)
(***************************************************************************)
EXTENDS Naturals, FiniteSets

CONSTANTS
    Calls,        \* IterateTasksForNode RPCs of the Node
    Servers,
    At,           \* the server a call reaches
    MaxTasks,     \* bound: Tasks created for the Node while the servers run
    None,
    MaxFailures   \* bound: failed database or broker calls, and server crashes

ASSUME AtAssumption       == At \in [Calls -> Servers]
ASSUME NoneAssumption     == None \notin Calls
ASSUME ServersAssumption  == IsFiniteSet(Servers)
ASSUME BoundsAssumption   == MaxTasks \in Nat /\ MaxFailures \in Nat

VARIABLES
    status,       \* committed status of the Node's row
    rowLock,      \* call whose transaction has updated the row, or None
    lastEvent,    \* status in the last published event of the Node
    mux,          \* per server: call that holds tasksForNodesMux for writing
    chanOf,       \* per server: channel in tasksForNodes, or None
    closed,       \* closed channels
    pc,           \* control state of a call
    tasks,        \* the channel a call reads from
    todo,         \* per server: Task events its consumer has not handled
    sending,      \* per server: channel HandleTaskCreated sends to, or None
    stopping,     \* per server: gracefulStop is closed
    panicked,     \* servers that died of a send on a closed channel
    failures

row    == <<status, rowLock, lastEvent>>
maps   == <<mux, chanOf, closed>>
events == <<todo, sending>>
health == <<stopping, panicked, failures>>
vars   == <<row, maps, pc, tasks, events, health>>

\* Phases of a call: connecting (the channel is made on entry of "online"),
\* serving the Node, disconnecting it.
Connecting    == {"begin", "locked", "update", "online", "commitOnline"}
Serving       == {"connected", "streaming", "leaving"}
Disconnecting == {"closing", "offline", "commitOffline"}
Active        == Connecting \cup Serving \cup Disconnecting
States        == Active \cup {"start", "refused", "done"}

TypeOK ==
    /\ status \in {"ONLINE", "OFFLINE"}
    /\ lastEvent \in {"ONLINE", "OFFLINE"}
    /\ rowLock \in Calls \cup {None}
    /\ mux \in [Servers -> Calls \cup {None}]
    /\ chanOf \in [Servers -> Calls \cup {None}]
    /\ closed \subseteq Calls
    /\ pc \in [Calls -> States]
    /\ tasks \in [Calls -> Calls \cup {None}]
    /\ todo \in [Servers -> 0 .. MaxTasks]
    /\ sending \in [Servers -> Calls \cup {None}]
    /\ stopping \in [Servers -> BOOLEAN]
    /\ panicked \subseteq Servers
    /\ failures \in 0 .. MaxFailures

Init ==
    /\ status = "OFFLINE" /\ rowLock = None /\ lastEvent = "OFFLINE"
    /\ mux = [s \in Servers |-> None]
    /\ chanOf = [s \in Servers |-> None]
    /\ closed = {}
    /\ pc = [c \in Calls |-> "start"]
    /\ tasks = [c \in Calls |-> None]
    /\ todo = [s \in Servers |-> MaxTasks]
    /\ sending = [s \in Servers |-> None]
    /\ stopping = [s \in Servers |-> FALSE]
    /\ panicked = {}
    /\ failures = 0

Goto(c, from, to) == pc[c] = from /\ pc' = [pc EXCEPT ![c] = to]

Failure == failures < MaxFailures /\ failures' = failures + 1 /\ UNCHANGED <<stopping, panicked>>

-----------------------------------------------------------------------------
(* Connecting: the lookup, and the goroutine that marks the Node ONLINE. *)

\* node.Get and the check of the status it read.
Lookup(c) ==
    /\ ~stopping[At[c]]
    /\ Goto(c, "start", IF status = "ONLINE" THEN "refused" ELSE "begin")
    /\ UNCHANGED <<row, maps, tasks, events, health>>

\* Mutant of Lock: no mutual exclusion.
LockShared(c) ==
    /\ Goto(c, "begin", "locked")
    /\ mux' = [mux EXCEPT ![At[c]] = c]
    /\ UNCHANGED <<row, chanOf, closed, tasks, events, health>>

Lock(c) ==
    /\ Goto(c, "begin", "locked")
    /\ mux[At[c]] = None
    /\ mux' = [mux EXCEPT ![At[c]] = c]
    /\ UNCHANGED <<row, chanOf, closed, tasks, events, health>>

Unlock(c) == mux' = [mux EXCEPT ![At[c]] = None]

\* Mutant of CheckMap: the map is not checked.
CheckMapNot(c) ==
    /\ Goto(c, "locked", "update")
    /\ UNCHANGED <<row, maps, tasks, events, health>>

\* ErrNodeAlreadyConnected if the map has a channel for the Node.
CheckMap(c) ==
    /\ IF chanOf[At[c]] = None
       THEN Goto(c, "locked", "update") /\ UNCHANGED mux
       ELSE Goto(c, "locked", "refused") /\ Unlock(c)
    /\ UNCHANGED <<row, chanOf, closed, tasks, events, health>>

\* Mutant of UpdateOnline: the update is outside of the transaction.
UpdateOnlineUnlocked(c) ==
    /\ Goto(c, "update", "online")
    /\ rowLock' = c
    /\ chanOf' = [chanOf EXCEPT ![At[c]] = c]
    /\ UNCHANGED <<status, lastEvent, mux, closed, tasks, events, health>>

\* node.Update to ONLINE waits for the row lock; then the channel is made.
UpdateOnline(c) ==
    /\ Goto(c, "update", "online")
    /\ rowLock = None /\ rowLock' = c
    /\ chanOf' = [chanOf EXCEPT ![At[c]] = c]
    /\ UNCHANGED <<status, lastEvent, mux, closed, tasks, events, health>>

UpdateOnlineFails(c) ==
    /\ Goto(c, "update", "done")
    /\ Failure /\ Unlock(c)
    /\ UNCHANGED <<row, chanOf, closed, tasks, events>>

\* CommitAndPublish: first producer.Send ...
SendOnline(c) ==
    /\ Goto(c, "online", "commitOnline")
    /\ lastEvent' = "ONLINE"
    /\ UNCHANGED <<status, rowLock, maps, tasks, events, health>>

\* ... which may fail, with the message stored or not: the transaction is rolled
\* back and the RPC returns.  The channel stays in tasksForNodes.
SendOnlineFails(c, stored) ==
    /\ Goto(c, "online", "done")
    /\ Failure /\ Unlock(c)
    /\ rowLock' = None
    /\ lastEvent' = IF stored THEN "ONLINE" ELSE lastEvent
    /\ UNCHANGED <<status, chanOf, closed, tasks, events>>

\* ... then tx.Commit.
CommitOnline(c) ==
    /\ Goto(c, "commitOnline", "connected")
    /\ Unlock(c)
    /\ status' = "ONLINE" /\ rowLock' = None
    /\ UNCHANGED <<lastEvent, chanOf, closed, tasks, events, health>>

\* Mutant of CommitOnlineFails: the error path forgets the mutex.
CommitOnlineFailsLocked(c, committed) ==
    /\ Goto(c, "commitOnline", "done")
    /\ Failure
    /\ status' = IF committed THEN "ONLINE" ELSE status
    /\ rowLock' = None
    /\ UNCHANGED <<lastEvent, maps, tasks, events>>

CommitOnlineFails(c, committed) ==
    /\ Goto(c, "commitOnline", "done")
    /\ Failure /\ Unlock(c)
    /\ status' = IF committed THEN "ONLINE" ELSE status
    /\ rowLock' = None
    /\ UNCHANGED <<lastEvent, chanOf, closed, tasks, events>>

\* The channel is read back from the map under RLock.
GetChannel(c) ==
    /\ Goto(c, "connected", IF chanOf[At[c]] = None THEN "done" ELSE "streaming")
    /\ mux[At[c]] = None
    /\ tasks' = [tasks EXCEPT ![c] = chanOf[At[c]]]
    /\ UNCHANGED <<row, maps, events, health>>

-----------------------------------------------------------------------------
(* The stream. *)

\* A Task is received and sent to the Node; the RPC ends when stream.Send fails.
ReceiveTask(c, s, sent) ==
    /\ Goto(c, "streaming", IF sent THEN "streaming" ELSE "leaving")
    /\ sending[s] = tasks[c] /\ tasks[c] \notin closed
    /\ sending' = [sending EXCEPT ![s] = None]
    /\ UNCHANGED <<row, maps, tasks, todo, health>>

\* Mutant of Leave: the deferred function is not registered.
LeaveOnline(c) ==
    /\ Goto(c, "streaming", "done")
    /\ UNCHANGED <<row, maps, tasks, events, health>>

\* ctx.Done: the Node has gone.
Leave(c) ==
    /\ Goto(c, "streaming", "leaving")
    /\ UNCHANGED <<row, maps, tasks, events, health>>

\* gracefulStop is closed.
LeaveOnStop(c) ==
    /\ stopping[At[c]]
    /\ Goto(c, "streaming", "leaving")
    /\ UNCHANGED <<row, maps, tasks, events, health>>

-----------------------------------------------------------------------------
(* The deferred function, which marks the Node OFFLINE. *)

\* Mutant of UpdateOffline: the channel is taken from the map after its deletion.
UpdateOfflineDeletes(c) ==
    /\ Goto(c, "leaving", "closing")
    /\ rowLock = None /\ rowLock' = c
    /\ chanOf' = [chanOf EXCEPT ![At[c]] = None]
    /\ closed' = closed \cup {chanOf'[At[c]]}
    /\ UNCHANGED <<status, lastEvent, mux, tasks, events, health>>

\* Mutant of UpdateOffline: the channel is not closed.
UpdateOfflineOpen(c) ==
    /\ Goto(c, "leaving", "closing")
    /\ rowLock = None /\ rowLock' = c
    /\ UNCHANGED <<status, lastEvent, maps, tasks, events, health>>

\* node.Update, then close(tasks).
UpdateOffline(c) ==
    /\ Goto(c, "leaving", "closing")
    /\ rowLock = None /\ rowLock' = c
    /\ closed' = closed \cup {tasks[c]}
    /\ UNCHANGED <<status, lastEvent, mux, chanOf, tasks, events, health>>

\* It returns without closing or deleting the channel.
UpdateOfflineFails(c) ==
    /\ Goto(c, "leaving", "done")
    /\ Failure
    /\ UNCHANGED <<row, maps, tasks, events>>

DeleteChannel(c) ==
    /\ Goto(c, "closing", "offline")
    /\ mux[At[c]] = None
    /\ chanOf' = [chanOf EXCEPT ![At[c]] = None]
    /\ UNCHANGED <<row, mux, closed, tasks, events, health>>

SendOffline(c) ==
    /\ Goto(c, "offline", "commitOffline")
    /\ lastEvent' = "OFFLINE"
    /\ UNCHANGED <<status, rowLock, maps, tasks, events, health>>

SendOfflineFails(c, stored) ==
    /\ Goto(c, "offline", "done")
    /\ Failure
    /\ rowLock' = None
    /\ lastEvent' = IF stored THEN "OFFLINE" ELSE lastEvent
    /\ UNCHANGED <<status, maps, tasks, events>>

CommitOffline(c) ==
    /\ Goto(c, "commitOffline", "done")
    /\ status' = "OFFLINE" /\ rowLock' = None
    /\ UNCHANGED <<lastEvent, maps, tasks, events, health>>

\* The error is logged.
CommitOfflineFails(c, committed) ==
    /\ Goto(c, "commitOffline", "done")
    /\ Failure
    /\ status' = IF committed THEN "OFFLINE" ELSE status
    /\ rowLock' = None
    /\ UNCHANGED <<lastEvent, maps, tasks, events>>

-----------------------------------------------------------------------------
(* HandleTaskCreated, in the one consumer each server has for these events. *)

\* The channel is looked up under RLock; without one the Task is skipped.
LookupChannel(s) ==
    /\ todo[s] > 0 /\ sending[s] = None /\ mux[s] = None
    /\ todo' = [todo EXCEPT ![s] = @ - 1]
    /\ sending' = [sending EXCEPT ![s] = chanOf[s]]
    /\ UNCHANGED <<row, maps, pc, tasks, health>>

\* What is left of a server whose process died: its calls and their transactions
\* end, its maps are empty, its consumer's queue, which has no name, is gone.
Restart(s) ==
    /\ pc' = [c \in Calls |-> IF At[c] = s /\ pc[c] \in Active THEN "done" ELSE pc[c]]
    /\ rowLock' = IF rowLock # None /\ At[rowLock] = s THEN None ELSE rowLock
    /\ mux' = [mux EXCEPT ![s] = None]
    /\ chanOf' = [chanOf EXCEPT ![s] = None]
    /\ todo' = [todo EXCEPT ![s] = 0]
    /\ sending' = [sending EXCEPT ![s] = None]
    /\ UNCHANGED <<status, lastEvent, closed, tasks>>

\* The channel is closed before a send or under a blocked one: the runtime
\* panics, in a goroutine that nobody recovers.
SendPanics(s) ==
    /\ sending[s] \in closed
    /\ panicked' = panicked \cup {s}
    /\ Restart(s)
    /\ UNCHANGED <<stopping, failures>>

-----------------------------------------------------------------------------
(* The servers. *)

\* Serve closes gracefulStop and waits for the RPCs.
GracefulStop(s) ==
    /\ ~stopping[s]
    /\ stopping' = [stopping EXCEPT ![s] = TRUE]
    /\ UNCHANGED <<row, maps, pc, tasks, events, panicked, failures>>

Crash(s) == Failure /\ Restart(s)

Connect(c) ==
    \/ Lookup(c) \/ Lock(c) \/ CheckMap(c)
    \/ UpdateOnline(c) \/ SendOnline(c) \/ CommitOnline(c) \/ GetChannel(c)

Disconnect(c) ==
    \/ LeaveOnStop(c)
    \/ UpdateOffline(c) \/ DeleteChannel(c) \/ SendOffline(c) \/ CommitOffline(c)

CallFails(c) ==
    \/ UpdateOnlineFails(c) \/ UpdateOfflineFails(c)
    \/ \E stored \in BOOLEAN : SendOnlineFails(c, stored) \/ SendOfflineFails(c, stored)
    \/ \E done \in BOOLEAN : CommitOnlineFails(c, done) \/ CommitOfflineFails(c, done)

Receives(c) ==
    \E s \in Servers, sent \in BOOLEAN : ReceiveTask(c, s, sent)

Consumer(s) == LookupChannel(s) \/ SendPanics(s)

Next ==
    \/ \E c \in Calls : Connect(c) \/ Receives(c) \/ Leave(c) \/ Disconnect(c) \/ CallFails(c)
    \/ \E s \in Servers : Consumer(s) \/ GracefulStop(s) \/ Crash(s)

Spec == Init /\ [][Next]_vars

\* Goroutines run on.  A waiter for the mutex or for the row lock gets it in the
\* end: both queue their waiters.  Nodes need not leave, and nothing need fail.
Fairness ==
    /\ \A c \in Calls :
          /\ WF_vars(Connect(c) /\ pc[c] # "start") /\ WF_vars(Receives(c)) /\ WF_vars(Disconnect(c))
          /\ SF_vars(Lock(c)) /\ SF_vars(UpdateOnline(c)) /\ SF_vars(GetChannel(c))
          /\ SF_vars(UpdateOffline(c)) /\ SF_vars(DeleteChannel(c))
    /\ \A s \in Servers : WF_vars(Consumer(s))

FairSpec == Spec /\ Fairness

-----------------------------------------------------------------------------
(* Properties. *)

\* A server never streams to the Node in two RPCs, however they overlap: this is
\* what tasksForNodesMux is held for while the Node is marked ONLINE.
OneStreamPerServer ==
    \A c, d \in Calls :
        c # d /\ At[c] = At[d] => ~(pc[c] \in Serving /\ pc[d] \in Serving \cup {"online"})

\* An RPC reads from its own channel, which HandleTaskCreated can find and which
\* is open ("Channel is closed. This should never happen.").
StreamsFromItsChannel ==
    \A c \in Calls : pc[c] = "streaming" =>
        tasks[c] = c /\ chanOf[At[c]] = c /\ c \notin closed

\* The Node's events come in the order of its commits: between transactions the
\* last one published is what the row says, on however many servers the Node
\* connects and disconnects, unless a call failed.
LastEventIsStatus ==
    failures = 0 /\ panicked = {} /\ rowLock = None => lastEvent = status

\* Unless a call failed, an ONLINE Node is served by some RPC, which will mark it
\* OFFLINE.
OnlineOnlyIfServed ==
    failures = 0 /\ panicked = {} /\ status = "ONLINE" =>
        \E c \in Calls : pc[c] \in Serving \cup Disconnecting

\* With one server, a Node that receives Tasks is ONLINE for the scheduler until the
\* disconnecting transaction has ended, also after failures and when the Node calls
\* again meanwhile.  Unless a call failed, a transaction that marks it ONLINE finds it
\* OFFLINE: every event of the Node is one of a change.
StatusFollowsStream ==
    Cardinality(Servers) = 1 => \A c \in Calls :
        /\ pc[c] \in Serving \cup Disconnecting => status = "ONLINE"
        /\ failures = 0 /\ panicked = {} /\ pc[c] \in {"online", "commitOnline"} => status = "OFFLINE"

\* Once a server is told to stop its RPCs come to an end, also when their
\* transactions fail: neither the mutex nor the row lock is held for ever.
StopCompletes ==
    \A c \in Calls : stopping[At[c]] ~> pc[c] \notin Active

\* As long as nothing fails, HandleTaskCreated is not stuck on a channel: its Task
\* is received, or the channel is closed under it.
ConsumerNotStuck ==
    \A s \in Servers : sending[s] # None ~> sending[s] = None \/ failures > 0
=============================================================================
