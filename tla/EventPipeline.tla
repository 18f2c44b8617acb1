----------------------------- MODULE EventPipeline -----------------------------
(***************************************************************************)
(* How a change committed by one service reaches the event handlers of the *)
(* services: a transaction that ends in utils.CommitAndPublish, the NATS   *)
(* Streaming channel with a durable queue subscription, the message        *)
(* callback of events.createStanMsgHandler, and the event handlers that    *)
(* record what they handled as a models.ProcessedEvent in the transaction  *)
(* of their effects.                                                       *)
(*                                                                         *)
(* Two kinds of processes run transactions: the requests (RPC handlers),   *)
(* and the members of the queue group, which run the handlers on the       *)
(* messages delivered to them.  An event is identified by its UUID.        *)
(***************************************************************************)
EXTENDS Naturals, Sequences, FiniteSets

CONSTANTS
    Requests,     \* RPCs, each of which runs one transaction
    Members,      \* consumer processes of one durable queue group
    Chain,        \* the handlers given to Consume, in order
    Rpc,          \* the author of the events that requests create
    Subscribed,   \* <<handler, author>>: the handler acts on the author's events
    Emits,        \* how many events a transaction of an author may publish
    UUIDs,        \* bound: the UUIDs events.NewEvent may draw
    None,         \* no author, no message
    MaxFailures   \* bound: failed calls and crashes of one behaviour

Handlers  == {Chain[i] : i \in DOMAIN Chain}
Authors   == Handlers \cup {Rpc}
Processes == Requests \cup Members
Keys      == Handlers \X UUIDs    \* primary key of table processed_events

\* Each handler has a handlerName of its own, the key of what it processed.
ASSUME ChainAssumption ==
    /\ Chain \in Seq(Handlers)
    /\ \A i, j \in DOMAIN Chain : Chain[i] = Chain[j] => i = j
ASSUME ProcessesAssumption == Requests \cap Members = {}
ASSUME NoneAssumption      == None \notin UUIDs /\ None \notin Authors
ASSUME EmitsAssumption     == Emits \in [Authors -> SUBSET Nat]
ASSUME FailuresAssumption  == MaxFailures \in Nat

VARIABLES
    author,       \* who created the event of a UUID, None when not drawn yet
    channel,      \* messages stored by the NATS Streaming server
    acked,        \* messages the queue group has acknowledged
    deliveries,   \* <<member, message>> on their way to a member
    processed,    \* committed rows of processed_events
    effects,      \* how often a handler's effects of an event were committed
    durable,      \* events whose transaction was committed
    pc,           \* control state of each process
    msg,          \* the message a member works on
    idx,          \* position in Chain of the handler a member runs
    pending,      \* events of the open transaction not published yet
    txEvents,     \* all events of the open transaction
    failures      \* failures so far

bus  == <<channel, acked, deliveries>>
db   == <<processed, effects, durable>>
work == <<msg, idx>>
tx   == <<pending, txEvents>>
vars == <<author, bus, db, pc, work, tx, failures>>

RequestStates == {"new", "publish", "done", "failed"}
MemberStates  == {"idle", "handle", "tx", "publish"}

TypeOK ==
    /\ author \in [UUIDs -> Authors \cup {None}]
    /\ channel \subseteq UUIDs
    /\ acked \subseteq UUIDs
    /\ deliveries \subseteq Members \X UUIDs
    /\ processed \subseteq Keys
    /\ effects \in [Keys -> Nat]
    /\ durable \subseteq UUIDs
    /\ pc \in [Processes -> RequestStates \cup MemberStates]
    /\ \A r \in Requests : pc[r] \in RequestStates
    /\ \A m \in Members : pc[m] \in MemberStates
    /\ msg \in [Members -> UUIDs \cup {None}]
    /\ idx \in [Members -> 1 .. Len(Chain) + 1]
    /\ pending \in [Processes -> SUBSET UUIDs]
    /\ txEvents \in [Processes -> SUBSET UUIDs]
    /\ failures \in 0 .. MaxFailures

Init ==
    /\ author = [u \in UUIDs |-> None]
    /\ channel = {} /\ acked = {} /\ deliveries = {}
    /\ processed = {} /\ durable = {}
    /\ effects = [k \in Keys |-> 0]
    /\ pc = [p \in Processes |-> IF p \in Requests THEN "new" ELSE "idle"]
    /\ msg = [m \in Members |-> None]
    /\ idx = [m \in Members |-> 1]
    /\ pending = [p \in Processes |-> {}]
    /\ txEvents = [p \in Processes |-> {}]
    /\ failures = 0

-----------------------------------------------------------------------------
(* Transactions, shared by requests and handlers. *)

Matches(h, u) == <<h, author[u]>> \in Subscribed

\* Mutant of Running: the loop stops one handler early.
RunningOffByOne(m) == idx[m] < Len(Chain)

\* The handler a member runs and the row it would insert for its message.
Running(m) == idx[m] \in DOMAIN Chain
Current(m) == Chain[idx[m]]
Key(m)     == <<Current(m), msg[m]>>

\* The events of a new transaction of author a, drawn by events.NewEvent.
NewEvents(a) ==
    {new \in SUBSET {u \in UUIDs : author[u] = None} : Cardinality(new) \in Emits[a]}

\* The updates of process p's transaction are made, its events are created.
OpenTx(p, a, new) ==
    /\ author' = [u \in UUIDs |-> IF u \in new THEN a ELSE author[u]]
    /\ pending' = [pending EXCEPT ![p] = new]
    /\ txEvents' = [txEvents EXCEPT ![p] = new]
    /\ pc' = [pc EXCEPT ![p] = "publish"]

CloseTx(p) ==
    /\ pending' = [pending EXCEPT ![p] = {}]
    /\ txEvents' = [txEvents EXCEPT ![p] = {}]

\* Mutant of CommitTx: the handler does not create its ProcessedEvent.
CommitTxUnrecorded(p) ==
    /\ durable' = durable \cup txEvents[p]
    /\ IF p \in Members
       THEN /\ processed' = processed
            /\ effects' = [effects EXCEPT ![<<Chain[idx[p]], msg[p]>>] = @ + 1]
       ELSE UNCHANGED <<processed, effects>>

\* The transaction of p becomes visible: the announced changes and, for a
\* handler, its effects together with the processed_events row.
CommitTx(p) ==
    /\ durable' = durable \cup txEvents[p]
    /\ IF p \in Members
       THEN /\ processed' = processed \cup {Key(p)}
            /\ effects' = [effects EXCEPT ![Key(p)] = @ + 1]
       ELSE UNCHANGED <<processed, effects>>

\* The handler or the RPC returns nil: the member goes on to the next handler.
Succeed(p) ==
    /\ pc' = [pc EXCEPT ![p] = IF p \in Members THEN "handle" ELSE "done"]
    /\ idx' = [m \in Members |-> IF m = p THEN idx[m] + 1 ELSE idx[m]]
    /\ msg' = msg

\* It returns an error, or the process dies: the transaction, if any, is rolled
\* back; a member leaves the loop over the handlers and does not acknowledge.
Abandon(p) ==
    /\ pc' = [pc EXCEPT ![p] = IF p \in Members THEN "idle" ELSE "failed"]
    /\ idx' = [m \in Members |-> IF m = p THEN 1 ELSE idx[m]]
    /\ msg' = [m \in Members |-> IF m = p THEN None ELSE msg[m]]
    /\ CloseTx(p)

Failure == failures < MaxFailures /\ failures' = failures + 1

-----------------------------------------------------------------------------
(* utils.CommitAndPublish: publish everything, then commit. *)

\* conn.Publish is confirmed by the server.
Publish(p, u) ==
    /\ pc[p] = "publish" /\ u \in pending[p]
    /\ channel' = channel \cup {u}
    /\ pending' = [pending EXCEPT ![p] = @ \ {u}]
    /\ UNCHANGED <<author, acked, deliveries, db, pc, work, txEvents, failures>>

\* Mutant of PublishFails: the loop over the handlers goes on after an error.
PublishFailsNoBreak(p, u, stored) ==
    /\ pc[p] = "publish" /\ u \in pending[p]
    /\ Failure
    /\ channel' = IF stored THEN channel \cup {u} ELSE channel
    /\ Succeed(p)
    /\ CloseTx(p)
    /\ UNCHANGED <<author, acked, deliveries, db>>

\* conn.Publish fails; the server may have stored the message when only its
\* confirmation is lost.  Send stops here and the transaction is rolled back.
PublishFails(p, u, stored) ==
    /\ pc[p] = "publish" /\ u \in pending[p]
    /\ Failure
    /\ channel' = IF stored THEN channel \cup {u} ELSE channel
    /\ Abandon(p)
    /\ UNCHANGED <<author, acked, deliveries, db>>

\* Mutant of Commit: commit first, publish what is left never.
CommitBeforeSend(p) ==
    /\ pc[p] = "publish"
    /\ CommitTx(p)
    /\ CloseTx(p)
    /\ Succeed(p)
    /\ UNCHANGED <<author, bus, failures>>

Commit(p) ==
    /\ pc[p] = "publish" /\ pending[p] = {}
    /\ CommitTx(p)
    /\ CloseTx(p)
    /\ Succeed(p)
    /\ UNCHANGED <<author, bus, failures>>

\* tx.Commit returns an error; the server may have committed when the
\* connection broke after it did.
CommitFails(p, committed) ==
    /\ pc[p] = "publish" /\ pending[p] = {}
    /\ Failure
    /\ IF committed THEN CommitTx(p) ELSE UNCHANGED db
    /\ Abandon(p)
    /\ UNCHANGED <<author, bus>>

-----------------------------------------------------------------------------
(* An RPC that changes a row and announces the change. *)

Request(r) ==
    /\ pc[r] = "new"
    /\ \E new \in NewEvents(Rpc) : OpenTx(r, Rpc, new)
    /\ UNCHANGED <<bus, db, work, failures>>

-----------------------------------------------------------------------------
(* NATS Streaming: at least once, to any member of the queue group. *)

\* The first delivery, and any redelivery after AckWait.
Deliver(m, u) ==
    /\ u \in channel \ acked
    /\ deliveries' = deliveries \cup {<<m, u>>}
    /\ UNCHANGED <<author, channel, acked, db, pc, work, tx, failures>>

-----------------------------------------------------------------------------
(* The message callback and the handlers of a member. *)

\* The callback starts: the message may have been acknowledged meanwhile by a
\* member that received another copy.
Receive(m, u) ==
    /\ pc[m] = "idle" /\ <<m, u>> \in deliveries
    /\ deliveries' = deliveries \ {<<m, u>>}
    /\ pc' = [pc EXCEPT ![m] = "handle"]
    /\ msg' = [msg EXCEPT ![m] = u]
    /\ idx' = [idx EXCEPT ![m] = 1]
    /\ UNCHANGED <<author, channel, acked, db, tx, failures>>

\* Handle returns nil: not an event for this handler, or processed already.
Skip(m) ==
    /\ pc[m] = "handle" /\ Running(m)
    /\ Matches(Current(m), msg[m]) => Key(m) \in processed
    /\ Succeed(m)
    /\ UNCHANGED <<author, bus, db, tx, failures>>

\* processedEvent.Exists, outside of the transaction, found no row.
NotProcessed(m) ==
    /\ pc[m] = "handle" /\ Running(m)
    /\ Matches(Current(m), msg[m]) /\ Key(m) \notin processed
    /\ pc' = [pc EXCEPT ![m] = "tx"]
    /\ UNCHANGED <<author, bus, db, work, tx, failures>>

\* Another open transaction has inserted the same row: the INSERT waits for it.
RowLocked(m) == \E n \in Members \ {m} : pc[n] = "publish" /\ Key(n) = Key(m)

\* Mutant of Handle: processed_events has no primary key.
HandleNoPrimaryKey(m) ==
    /\ pc[m] = "tx" /\ ~RowLocked(m)
    /\ \E new \in NewEvents(Current(m)) : OpenTx(m, Current(m), new)
    /\ UNCHANGED <<bus, db, work, failures>>

\* Begin, the updates of the handler and processedEvent.Create.
Handle(m) ==
    /\ pc[m] = "tx" /\ ~RowLocked(m) /\ Key(m) \notin processed
    /\ \E new \in NewEvents(Current(m)) : OpenTx(m, Current(m), new)
    /\ UNCHANGED <<bus, db, work, failures>>

\* Mutant of HandleDuplicate: the ProcessedEvent is created after Send.
HandleDuplicateSent(m) ==
    /\ pc[m] = "tx" /\ ~RowLocked(m) /\ Key(m) \in processed
    /\ \E new \in NewEvents(Current(m)) :
          /\ author' = [u \in UUIDs |-> IF u \in new THEN Current(m) ELSE author[u]]
          /\ channel' = channel \cup new
    /\ Abandon(m)
    /\ UNCHANGED <<acked, deliveries, db, failures>>

\* processedEvent.Create violates the primary key: the row was committed since
\* Exists looked for it.
HandleDuplicate(m) ==
    /\ pc[m] = "tx" /\ ~RowLocked(m) /\ Key(m) \in processed
    /\ Abandon(m)
    /\ UNCHANGED <<author, bus, db, failures>>

\* Mutant of HandleFails: the error of a handler is dropped.
HandleFailsSilently(m) ==
    /\ \/ pc[m] = "handle" /\ Running(m) /\ Matches(Current(m), msg[m])
       \/ pc[m] = "tx"
    /\ Failure
    /\ Succeed(m)
    /\ UNCHANGED <<author, bus, db, tx>>

\* Exists, Begin, an update or Create fails for another reason.
HandleFails(m) ==
    /\ \/ pc[m] = "handle" /\ Running(m) /\ Matches(Current(m), msg[m])
       \/ pc[m] = "tx"
    /\ Failure
    /\ Abandon(m)
    /\ UNCHANGED <<author, bus, db>>

\* Mutant of Ack: the message is forgotten before it is acknowledged.
AckForgotten(m) ==
    /\ pc[m] = "handle" /\ ~Running(m)
    /\ Abandon(m)
    /\ acked' = acked \cup {msg'[m]}
    /\ UNCHANGED <<author, channel, deliveries, db, failures>>

\* All handlers succeeded: msg.Ack().
Ack(m) ==
    /\ pc[m] = "handle" /\ ~Running(m)
    /\ acked' = acked \cup {msg[m]}
    /\ Abandon(m)
    /\ UNCHANGED <<author, channel, deliveries, db, failures>>

\* msg.Ack fails, or the acknowledgement is lost.
AckFails(m) ==
    /\ pc[m] = "handle" /\ ~Running(m)
    /\ Failure
    /\ Abandon(m)
    /\ UNCHANGED <<author, bus, db>>

\* The process dies: its transaction is rolled back and what was delivered to it
\* is lost.  A member is restarted, an RPC is not.
Crash(p) ==
    /\ pc[p] \notin {"new", "done", "failed"}
    /\ Failure
    /\ Abandon(p)
    /\ deliveries' = {d \in deliveries : d[1] # p}
    /\ UNCHANGED <<author, channel, acked, db>>

-----------------------------------------------------------------------------
CommitAndPublish(p) ==
    \/ \E u \in UUIDs : Publish(p, u)
    \/ \E u \in UUIDs, stored \in BOOLEAN : PublishFails(p, u, stored)
    \/ Commit(p)
    \/ \E committed \in BOOLEAN : CommitFails(p, committed)

MemberStep(m) ==
    \/ \E u \in UUIDs : Deliver(m, u) \/ Receive(m, u)
    \/ Skip(m) \/ NotProcessed(m)
    \/ Handle(m) \/ HandleDuplicate(m) \/ HandleFails(m)
    \/ Ack(m) \/ AckFails(m)

Next ==
    \/ \E r \in Requests : Request(r)
    \/ \E m \in Members : MemberStep(m)
    \/ \E p \in Processes : CommitAndPublish(p) \/ Crash(p)

Spec == Init /\ [][Next]_vars

\* Goroutines keep running, the server redelivers what is not acknowledged, and
\* the client library hands the deliveries to the callback in the order they
\* came in, so that none of them waits for ever.  No failure is fair.
Fairness ==
    /\ \A r \in Requests : WF_vars(Request(r))
    /\ \A p \in Processes : WF_vars(Commit(p)) /\ WF_vars(\E u \in UUIDs : Publish(p, u))
    /\ \A m \in Members :
          /\ WF_vars(Skip(m) \/ NotProcessed(m) \/ Handle(m) \/ HandleDuplicate(m) \/ Ack(m))
          /\ \A u \in UUIDs : WF_vars(Deliver(m, u)) /\ SF_vars(Receive(m, u))

FairSpec == Spec /\ Fairness

-----------------------------------------------------------------------------
(* What the pipeline guarantees. *)

\* A committed change is never left unannounced: every event of a committed
\* transaction is stored in the channel, whatever crashed or failed in between
\* (CommitAndPublish sends before it commits).
NoLostEvents == durable \subseteq channel

\* The effects of a handler on an event are committed at most once, although the
\* message may be delivered any number of times, to several members at once, and
\* a commit may succeed and yet be reported as failed; and exactly once by every
\* handler that acts on it when the message is acknowledged, and so never delivered
\* again ("message is acknowledged only if it was successfully processed by all the
\* handlers").
EffectsExactlyOnce ==
    /\ \A k \in Keys : effects[k] <= 1
    /\ \A u \in acked, h \in Handlers : Matches(h, u) => effects[<<h, u>>] = 1

\* The handlers of one subscription take effect in the order in which they were
\* given to Consume: the loop stops at the first that fails.
EffectsInChainOrder ==
    \A u \in UUIDs : \A j \in DOMAIN Chain : \A i \in 1 .. j - 1 :
        Matches(Chain[i], u) /\ effects[<<Chain[j], u>>] > 0 => effects[<<Chain[i], u>>] > 0

\* As long as no call fails and no process dies, an event in the channel
\* announces a change that is committed or is about to be: in particular the
\* member that loses the race for a message creates its ProcessedEvent, and
\* fails, before it publishes anything.
NoPhantomWithoutFailure ==
    failures = 0 =>
        \A u \in channel : u \in durable \/ \E p \in Processes : u \in txEvents[p]

-----------------------------------------------------------------------------
\* The abstract specification.  The author of an event is part of its message:
\* nobody else knows it before the event is published.
Delivery == INSTANCE EventDelivery WITH
    author <- [u \in UUIDs |-> IF u \in channel THEN author[u] ELSE None]

\* The pipeline, with its transactions, members and redeliveries (CommitAndPublish,
\* createStanMsgHandler, the handlers), is an implementation of EventDelivery.
ImplementsDelivery == Delivery!Spec

\* It is a live one: what is announced takes effect and is acknowledged, because
\* the server redelivers after AckWait what a member did not acknowledge.
ImplementsFairDelivery == Delivery!FairSpec
=============================================================================
