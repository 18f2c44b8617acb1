-------------------------- MODULE EventPipelineProofs --------------------------
(***************************************************************************)
(* Proofs about EventPipeline, for all handlers, members, requests, events *)
(* and numbers of failures.                                                *)
(***************************************************************************)
EXTENDS EventPipeline, TLAPS

\* A transaction is open only while its process publishes; what Send has passed
\* is in the channel, and an event has an author before anybody else sees it.
TxInv ==
    /\ \A p \in Processes : pending[p] \subseteq txEvents[p]
    /\ \A p \in Processes : txEvents[p] \ pending[p] \subseteq channel
    /\ \A p \in Processes : pc[p] # "publish" => txEvents[p] = {}
    /\ \A u \in channel : author[u] # None
    /\ \A p \in Processes : \A u \in txEvents[p] : author[u] # None

\* A member works on a message of the channel, and is in a transaction only for
\* a handler that acts on it.
WorkInv ==
    /\ acked \subseteq channel
    /\ \A d \in deliveries : d[2] \in channel
    /\ \A m \in Members : pc[m] # "idle" => msg[m] \in channel
    /\ \A m \in Members : pc[m] \in {"tx", "publish"} =>
          Running(m) /\ Matches(Current(m), msg[m])

\* The primary key of processed_events: a row is inserted by one transaction,
\* which commits it together with the effects.
KeyInv ==
    /\ \A k \in Keys : effects[k] = IF k \in processed THEN 1 ELSE 0
    /\ \A m \in Members : pc[m] = "publish" => Key(m) \notin processed
    /\ \A m, n \in Members : pc[m] = "publish" /\ pc[n] = "publish" /\ m # n => Key(m) # Key(n)

\* What is behind a member in the chain, or acknowledged, is processed.
ChainInv ==
    /\ \A k \in processed : k[2] \in channel
    /\ \A m \in Members : pc[m] # "idle" =>
          \A i \in 1 .. idx[m] - 1 : Matches(Chain[i], msg[m]) => <<Chain[i], msg[m]>> \in processed
    /\ \A u \in acked, h \in Handlers : Matches(h, u) => <<h, u>> \in processed
    /\ \A u \in UUIDs : \A j \in DOMAIN Chain : \A i \in 1 .. j - 1 :
          Matches(Chain[i], u) /\ <<Chain[j], u>> \in processed => <<Chain[i], u>> \in processed

IInv == TypeOK /\ NoLostEvents /\ TxInv /\ WorkInv /\ KeyInv /\ ChainInv
-----------------------------------------------------------------------------
\* The positions of the chain and the handlers at them.
LEMMA ChainFacts ==
    /\ Len(Chain) \in Nat
    /\ DOMAIN Chain = 1 .. Len(Chain)
    /\ \A i \in DOMAIN Chain : Chain[i] \in Handlers
    /\ \A i, j \in DOMAIN Chain : Chain[i] = Chain[j] => i = j
BY ChainAssumption DEF Handlers

\* The initial state satisfies the invariant.
LEMMA InitInv == Init => IInv
<1> SUFFICES ASSUME Init PROVE IInv
    OBVIOUS
<1> USE ChainFacts, ProcessesAssumption, NoneAssumption, FailuresAssumption
<1>1. TypeOK
    BY DEF Init, TypeOK, RequestStates, MemberStates, Processes
<1>2. NoLostEvents
    BY DEF Init, NoLostEvents
<1>3. TxInv
    BY DEF Init, TxInv
<1>4. WorkInv
    BY DEF Init, WorkInv, Processes
<1>5. KeyInv
    BY DEF Init, KeyInv, Processes
<1>6. ChainInv
    BY DEF Init, ChainInv, Processes
<1>. QED
    BY <1>1, <1>2, <1>3, <1>4, <1>5, <1>6 DEF IInv

\* What a commit writes has the types of the tables.
LEMMA CommitTxTypes ==
    ASSUME TypeOK, WorkInv, NEW p \in Processes, pc[p] = "publish", CommitTx(p)
    PROVE  processed' \subseteq Keys /\ effects' \in [Keys -> Nat] /\ durable' \subseteq UUIDs
<1>1. durable' \subseteq UUIDs
    BY DEF TypeOK, CommitTx
<1>2. CASE p \in Members
  <2>1. Key(p) \in Keys
    BY <1>2, ChainFacts DEF TypeOK, WorkInv, Running, Key, Current, Keys
  <2>2. processed' = processed \cup {Key(p)} /\ effects' = [effects EXCEPT ![Key(p)] = @ + 1]
    BY <1>2 DEF CommitTx
  <2>3. effects' \in [Keys -> Nat]
    <3> HIDE DEF Key, Keys
    <3>. QED BY <2>1, <2>2 DEF TypeOK
  <2>. QED
    BY <1>1, <2>1, <2>2, <2>3 DEF TypeOK
<1>3. CASE p \notin Members
    BY <1>1, <1>3 DEF TypeOK, CommitTx
<1>. QED
    BY <1>2, <1>3

\* Every step keeps the types; the position of a member stays within the chain
\* because it is in a transaction only for a handler of the chain.
LEMMA TypeStep == TypeOK /\ WorkInv /\ [Next]_vars => TypeOK'
<1> SUFFICES ASSUME TypeOK, WorkInv, [Next]_vars PROVE TypeOK'
    OBVIOUS
<1> USE ChainFacts, ProcessesAssumption, NoneAssumption, FailuresAssumption
<1> USE DEF TypeOK, RequestStates, MemberStates, Processes, Keys, Authors, bus, db, work, tx
<1>1. ASSUME NEW r \in Requests, Request(r) PROVE TypeOK'
    BY <1>1 DEF Request, OpenTx, NewEvents
<1>2. ASSUME NEW m \in Members, NEW u \in UUIDs, Deliver(m, u) PROVE TypeOK'
    BY <1>2 DEF Deliver
<1>3. ASSUME NEW m \in Members, NEW u \in UUIDs, Receive(m, u) PROVE TypeOK'
    BY <1>3 DEF Receive
<1>4. ASSUME NEW m \in Members, Skip(m) PROVE TypeOK'
    BY <1>4 DEF Skip, Succeed, Running
<1>5. ASSUME NEW m \in Members, NotProcessed(m) PROVE TypeOK'
    BY <1>5 DEF NotProcessed
<1>6. ASSUME NEW m \in Members, Handle(m) PROVE TypeOK'
    BY <1>6 DEF Handle, OpenTx, NewEvents, WorkInv, Running, Current
<1>7. ASSUME NEW m \in Members, HandleDuplicate(m) PROVE TypeOK'
    BY <1>7 DEF HandleDuplicate, Abandon, CloseTx
<1>8. ASSUME NEW m \in Members, HandleFails(m) PROVE TypeOK'
    BY <1>8 DEF HandleFails, Abandon, CloseTx, Failure
<1>9. ASSUME NEW m \in Members, Ack(m) PROVE TypeOK'
    BY <1>9 DEF Ack, Abandon, CloseTx, WorkInv
<1>10. ASSUME NEW m \in Members, AckFails(m) PROVE TypeOK'
    BY <1>10 DEF AckFails, Abandon, CloseTx, Failure
<1>11. ASSUME NEW p \in Processes, NEW u \in UUIDs, Publish(p, u) PROVE TypeOK'
    BY <1>11 DEF Publish
<1>12. ASSUME NEW p \in Processes, NEW u \in UUIDs, NEW stored \in BOOLEAN,
              PublishFails(p, u, stored)
       PROVE TypeOK'
    BY <1>12 DEF PublishFails, Abandon, CloseTx, Failure
<1>13. ASSUME NEW p \in Processes, Commit(p) PROVE TypeOK'
  <2>1. processed' \subseteq Keys /\ effects' \in [Keys -> Nat] /\ durable' \subseteq UUIDs
    BY <1>13, CommitTxTypes DEF Commit, CommitTx
  <2>. QED
    BY <1>13, <2>1 DEF Commit, CloseTx, Succeed, WorkInv, Running
<1>14. ASSUME NEW p \in Processes, NEW committed \in BOOLEAN, CommitFails(p, committed)
       PROVE TypeOK'
  <2>1. processed' \subseteq Keys /\ effects' \in [Keys -> Nat] /\ durable' \subseteq UUIDs
    BY <1>14, CommitTxTypes DEF CommitFails, CommitTx
  <2>. QED
    BY <1>14, <2>1 DEF CommitFails, CloseTx, Abandon, Failure
<1>15. ASSUME NEW p \in Processes, Crash(p) PROVE TypeOK'
    BY <1>15 DEF Crash, Abandon, CloseTx, Failure
<1>16. CASE UNCHANGED vars
    BY <1>16 DEF vars
<1> HIDE DEF TypeOK, RequestStates, MemberStates, Processes, Keys, Authors, bus, db, work, tx
<1>. QED
    BY <1>1, <1>2, <1>3, <1>4, <1>5, <1>6, <1>7, <1>8, <1>9, <1>10, <1>11, <1>12, <1>13,
       <1>14, <1>15, <1>16 DEF Next, MemberStep, CommitAndPublish

\* An event keeps its author: only an unused UUID is drawn.
LEMMA AuthorStable == TypeOK /\ [Next]_vars => \A w \in UUIDs : author[w] # None => author'[w] = author[w]
<1> SUFFICES ASSUME TypeOK, [Next]_vars PROVE \A w \in UUIDs : author[w] # None => author'[w] = author[w]
    OBVIOUS
<1> USE ProcessesAssumption, NoneAssumption
<1> USE DEF TypeOK, Processes, bus, db, work, tx
<1>1. ASSUME NEW r \in Requests, Request(r) PROVE \A w \in UUIDs : author[w] # None => author'[w] = author[w]
    BY <1>1 DEF Request, OpenTx, NewEvents
<1>2. ASSUME NEW m \in Members, NEW u \in UUIDs, Deliver(m, u) PROVE \A w \in UUIDs : author[w] # None => author'[w] = author[w]
    BY <1>2 DEF Deliver
<1>3. ASSUME NEW m \in Members, NEW u \in UUIDs, Receive(m, u) PROVE \A w \in UUIDs : author[w] # None => author'[w] = author[w]
    BY <1>3 DEF Receive
<1>4. ASSUME NEW m \in Members, Skip(m) PROVE \A w \in UUIDs : author[w] # None => author'[w] = author[w]
    BY <1>4 DEF Skip, Succeed
<1>5. ASSUME NEW m \in Members, NotProcessed(m) PROVE \A w \in UUIDs : author[w] # None => author'[w] = author[w]
    BY <1>5 DEF NotProcessed
<1>6. ASSUME NEW m \in Members, Handle(m) PROVE \A w \in UUIDs : author[w] # None => author'[w] = author[w]
    BY <1>6 DEF Handle, OpenTx, NewEvents
<1>7. ASSUME NEW m \in Members, HandleDuplicate(m) PROVE \A w \in UUIDs : author[w] # None => author'[w] = author[w]
    BY <1>7 DEF HandleDuplicate, Abandon, CloseTx
<1>8. ASSUME NEW m \in Members, HandleFails(m) PROVE \A w \in UUIDs : author[w] # None => author'[w] = author[w]
    BY <1>8 DEF HandleFails, Abandon, CloseTx
<1>9. ASSUME NEW m \in Members, Ack(m) PROVE \A w \in UUIDs : author[w] # None => author'[w] = author[w]
    BY <1>9 DEF Ack, Abandon, CloseTx
<1>10. ASSUME NEW m \in Members, AckFails(m) PROVE \A w \in UUIDs : author[w] # None => author'[w] = author[w]
    BY <1>10 DEF AckFails, Abandon, CloseTx
<1>11. ASSUME NEW p \in Processes, NEW v \in UUIDs, Publish(p, v) PROVE \A w \in UUIDs : author[w] # None => author'[w] = author[w]
    BY <1>11 DEF Publish
<1>12. ASSUME NEW p \in Processes, NEW v \in UUIDs, NEW stored \in BOOLEAN,
             PublishFails(p, v, stored) PROVE \A w \in UUIDs : author[w] # None => author'[w] = author[w]
    BY <1>12 DEF PublishFails, Abandon, CloseTx
<1>13. ASSUME NEW p \in Processes, Commit(p) PROVE \A w \in UUIDs : author[w] # None => author'[w] = author[w]
    BY <1>13 DEF Commit, CloseTx, Succeed
<1>14. ASSUME NEW p \in Processes, NEW committed \in BOOLEAN, CommitFails(p, committed) PROVE \A w \in UUIDs : author[w] # None => author'[w] = author[w]
    BY <1>14 DEF CommitFails, Abandon, CloseTx
<1>15. ASSUME NEW p \in Processes, Crash(p) PROVE \A w \in UUIDs : author[w] # None => author'[w] = author[w]
    BY <1>15 DEF Crash, Abandon, CloseTx
<1>16. CASE UNCHANGED vars
    BY <1>16 DEF vars
<1> HIDE DEF TypeOK, Processes, bus, db, work, tx
<1>. QED
    BY <1>1, <1>2, <1>3, <1>4, <1>5, <1>6, <1>7, <1>8,
       <1>9, <1>10, <1>11, <1>12, <1>13, <1>14, <1>15, <1>16
    DEF Next, MemberStep, CommitAndPublish

\* A transaction publishes its own events, all of them before it commits, and
\* draws events that nobody has.
LEMMA TxStep == TypeOK /\ WorkInv /\ TxInv /\ [Next]_vars => TxInv'
<1> SUFFICES ASSUME TypeOK, WorkInv, TxInv, [Next]_vars PROVE TxInv'
    OBVIOUS
<1> USE ProcessesAssumption, NoneAssumption, ChainFacts
<1> USE DEF TypeOK, Processes, bus, db, work, tx, TxInv, Authors
<1>1. ASSUME NEW r \in Requests, Request(r) PROVE TxInv'
    BY <1>1 DEF Request, OpenTx, NewEvents
<1>2. ASSUME NEW m \in Members, NEW u \in UUIDs, Deliver(m, u) PROVE TxInv'
    BY <1>2 DEF Deliver
<1>3. ASSUME NEW m \in Members, NEW u \in UUIDs, Receive(m, u) PROVE TxInv'
    BY <1>3 DEF Receive
<1>4. ASSUME NEW m \in Members, Skip(m) PROVE TxInv'
    BY <1>4 DEF Skip, Succeed
<1>5. ASSUME NEW m \in Members, NotProcessed(m) PROVE TxInv'
    BY <1>5 DEF NotProcessed
<1>6. ASSUME NEW m \in Members, Handle(m) PROVE TxInv'
    BY <1>6 DEF Handle, OpenTx, NewEvents, WorkInv, Running, Current
<1>7. ASSUME NEW m \in Members, HandleDuplicate(m) PROVE TxInv'
    BY <1>7 DEF HandleDuplicate, Abandon, CloseTx
<1>8. ASSUME NEW m \in Members, HandleFails(m) PROVE TxInv'
    BY <1>8 DEF HandleFails, Abandon, CloseTx
<1>9. ASSUME NEW m \in Members, Ack(m) PROVE TxInv'
    BY <1>9 DEF Ack, Abandon, CloseTx
<1>10. ASSUME NEW m \in Members, AckFails(m) PROVE TxInv'
    BY <1>10 DEF AckFails, Abandon, CloseTx
<1>11. ASSUME NEW p \in Processes, NEW v \in UUIDs, Publish(p, v) PROVE TxInv'
    BY <1>11 DEF Publish
<1>12. ASSUME NEW p \in Processes, NEW v \in UUIDs, NEW stored \in BOOLEAN,
             PublishFails(p, v, stored) PROVE TxInv'
    BY <1>12 DEF PublishFails, Abandon, CloseTx
<1>13. ASSUME NEW p \in Processes, Commit(p) PROVE TxInv'
    BY <1>13 DEF Commit, CloseTx, Succeed
<1>14. ASSUME NEW p \in Processes, NEW committed \in BOOLEAN, CommitFails(p, committed) PROVE TxInv'
    BY <1>14 DEF CommitFails, Abandon, CloseTx
<1>15. ASSUME NEW p \in Processes, Crash(p) PROVE TxInv'
    BY <1>15 DEF Crash, Abandon, CloseTx
<1>16. CASE UNCHANGED vars
    BY <1>16 DEF vars
<1> HIDE DEF TypeOK, Processes, bus, db, work, tx, TxInv, Authors
<1>. QED
    BY <1>1, <1>2, <1>3, <1>4, <1>5, <1>6, <1>7, <1>8,
       <1>9, <1>10, <1>11, <1>12, <1>13, <1>14, <1>15, <1>16
    DEF Next, MemberStep, CommitAndPublish

\* A commit makes durable only events that Send has passed.
LEMMA LostStep == TypeOK /\ TxInv /\ NoLostEvents /\ [Next]_vars => NoLostEvents'
<1> SUFFICES ASSUME TypeOK, TxInv, NoLostEvents, [Next]_vars PROVE NoLostEvents'
    OBVIOUS
<1> USE ProcessesAssumption, NoneAssumption
<1> USE DEF TypeOK, Processes, bus, db, work, tx, TxInv, NoLostEvents
<1>1. ASSUME NEW r \in Requests, Request(r) PROVE NoLostEvents'
    BY <1>1 DEF Request, OpenTx, NewEvents
<1>2. ASSUME NEW m \in Members, NEW u \in UUIDs, Deliver(m, u) PROVE NoLostEvents'
    BY <1>2 DEF Deliver
<1>3. ASSUME NEW m \in Members, NEW u \in UUIDs, Receive(m, u) PROVE NoLostEvents'
    BY <1>3 DEF Receive
<1>4. ASSUME NEW m \in Members, Skip(m) PROVE NoLostEvents'
    BY <1>4 DEF Skip, Succeed
<1>5. ASSUME NEW m \in Members, NotProcessed(m) PROVE NoLostEvents'
    BY <1>5 DEF NotProcessed
<1>6. ASSUME NEW m \in Members, Handle(m) PROVE NoLostEvents'
    BY <1>6 DEF Handle, OpenTx, NewEvents
<1>7. ASSUME NEW m \in Members, HandleDuplicate(m) PROVE NoLostEvents'
    BY <1>7 DEF HandleDuplicate, Abandon, CloseTx
<1>8. ASSUME NEW m \in Members, HandleFails(m) PROVE NoLostEvents'
    BY <1>8 DEF HandleFails, Abandon, CloseTx
<1>9. ASSUME NEW m \in Members, Ack(m) PROVE NoLostEvents'
    BY <1>9 DEF Ack, Abandon, CloseTx
<1>10. ASSUME NEW m \in Members, AckFails(m) PROVE NoLostEvents'
    BY <1>10 DEF AckFails, Abandon, CloseTx
<1>11. ASSUME NEW p \in Processes, NEW v \in UUIDs, Publish(p, v) PROVE NoLostEvents'
    BY <1>11 DEF Publish
<1>12. ASSUME NEW p \in Processes, NEW v \in UUIDs, NEW stored \in BOOLEAN,
             PublishFails(p, v, stored) PROVE NoLostEvents'
    BY <1>12 DEF PublishFails, Abandon, CloseTx
<1>13. ASSUME NEW p \in Processes, Commit(p) PROVE NoLostEvents'
    BY <1>13 DEF Commit, CloseTx, Succeed, CommitTx
<1>14. ASSUME NEW p \in Processes, NEW committed \in BOOLEAN, CommitFails(p, committed) PROVE NoLostEvents'
    BY <1>14 DEF CommitFails, Abandon, CloseTx, CommitTx
<1>15. ASSUME NEW p \in Processes, Crash(p) PROVE NoLostEvents'
    BY <1>15 DEF Crash, Abandon, CloseTx
<1>16. CASE UNCHANGED vars
    BY <1>16 DEF vars
<1> HIDE DEF TypeOK, Processes, bus, db, work, tx, TxInv, NoLostEvents
<1>. QED
    BY <1>1, <1>2, <1>3, <1>4, <1>5, <1>6, <1>7, <1>8,
       <1>9, <1>10, <1>11, <1>12, <1>13, <1>14, <1>15, <1>16
    DEF Next, MemberStep, CommitAndPublish

\* A member leaves the message and the handler it works on only by returning.
LEMMA WorkStep == TypeOK /\ TxInv /\ WorkInv /\ [Next]_vars => WorkInv'
<1> SUFFICES ASSUME TypeOK, TxInv, WorkInv, [Next]_vars PROVE WorkInv'
    OBVIOUS
<1> USE ProcessesAssumption, NoneAssumption, ChainFacts
<1> USE DEF TypeOK, Processes, bus, db, work, tx, TxInv, WorkInv, Running, Current, Matches
<1>1. ASSUME NEW r \in Requests, Request(r) PROVE WorkInv'
    BY <1>1 DEF Request, OpenTx, NewEvents
<1>2. ASSUME NEW m \in Members, NEW u \in UUIDs, Deliver(m, u) PROVE WorkInv'
    BY <1>2 DEF Deliver
<1>3. ASSUME NEW m \in Members, NEW u \in UUIDs, Receive(m, u) PROVE WorkInv'
    BY <1>3 DEF Receive
<1>4. ASSUME NEW m \in Members, Skip(m) PROVE WorkInv'
    BY <1>4 DEF Skip, Succeed
<1>5. ASSUME NEW m \in Members, NotProcessed(m) PROVE WorkInv'
    BY <1>5 DEF NotProcessed
<1>6. ASSUME NEW m \in Members, Handle(m) PROVE WorkInv'
    BY <1>6 DEF Handle, OpenTx, NewEvents
<1>7. ASSUME NEW m \in Members, HandleDuplicate(m) PROVE WorkInv'
    BY <1>7 DEF HandleDuplicate, Abandon, CloseTx
<1>8. ASSUME NEW m \in Members, HandleFails(m) PROVE WorkInv'
    BY <1>8 DEF HandleFails, Abandon, CloseTx
<1>9. ASSUME NEW m \in Members, Ack(m) PROVE WorkInv'
    BY <1>9 DEF Ack, Abandon, CloseTx
<1>10. ASSUME NEW m \in Members, AckFails(m) PROVE WorkInv'
    BY <1>10 DEF AckFails, Abandon, CloseTx
<1>11. ASSUME NEW p \in Processes, NEW v \in UUIDs, Publish(p, v) PROVE WorkInv'
    BY <1>11 DEF Publish
<1>12. ASSUME NEW p \in Processes, NEW v \in UUIDs, NEW stored \in BOOLEAN,
             PublishFails(p, v, stored) PROVE WorkInv'
    BY <1>12 DEF PublishFails, Abandon, CloseTx
<1>13. ASSUME NEW p \in Processes, Commit(p) PROVE WorkInv'
    BY <1>13 DEF Commit, CloseTx, Succeed
<1>14. ASSUME NEW p \in Processes, NEW committed \in BOOLEAN, CommitFails(p, committed) PROVE WorkInv'
    BY <1>14 DEF CommitFails, Abandon, CloseTx
<1>15. ASSUME NEW p \in Processes, Crash(p) PROVE WorkInv'
    BY <1>15 DEF Crash, Abandon, CloseTx
<1>16. CASE UNCHANGED vars
    BY <1>16 DEF vars
<1> HIDE DEF TypeOK, Processes, bus, db, work, tx, TxInv, WorkInv, Running, Current, Matches
<1>. QED
    BY <1>1, <1>2, <1>3, <1>4, <1>5, <1>6, <1>7, <1>8,
       <1>9, <1>10, <1>11, <1>12, <1>13, <1>14, <1>15, <1>16
    DEF Next, MemberStep, CommitAndPublish

\* What the commit of a handler writes.
LEMMA CommitTxRow ==
    ASSUME TypeOK, WorkInv, NEW m \in Members, pc[m] = "publish", CommitTx(m)
    PROVE  /\ Key(m) \in Keys
           /\ processed' = processed \cup {Key(m)}
           /\ \A k \in Keys : effects'[k] = IF k = Key(m) THEN effects[k] + 1 ELSE effects[k]
<1>1. Key(m) \in Keys
    BY ChainFacts DEF TypeOK, WorkInv, Running, Key, Current, Keys
<1>2. processed' = processed \cup {Key(m)} /\ effects' = [effects EXCEPT ![Key(m)] = @ + 1]
    BY DEF CommitTx
<1> HIDE DEF Key, Keys
<1>. QED
    BY <1>1, <1>2 DEF TypeOK

\* A row of processed_events is inserted once.
LEMMA KeyStep == TypeOK /\ WorkInv /\ KeyInv /\ [Next]_vars => KeyInv'
<1> SUFFICES ASSUME TypeOK, WorkInv, KeyInv, [Next]_vars PROVE KeyInv'
    OBVIOUS
<1> USE ProcessesAssumption, NoneAssumption, ChainFacts
<1> USE DEF TypeOK, Processes, bus, db, work, tx, WorkInv, KeyInv, Running, Key, Current, Keys, RowLocked
<1>1. ASSUME NEW r \in Requests, Request(r) PROVE KeyInv'
    BY <1>1 DEF Request, OpenTx, NewEvents
<1>2. ASSUME NEW m \in Members, NEW u \in UUIDs, Deliver(m, u) PROVE KeyInv'
    BY <1>2 DEF Deliver
<1>3. ASSUME NEW m \in Members, NEW u \in UUIDs, Receive(m, u) PROVE KeyInv'
    BY <1>3 DEF Receive
<1>4. ASSUME NEW m \in Members, Skip(m) PROVE KeyInv'
    BY <1>4 DEF Skip, Succeed
<1>5. ASSUME NEW m \in Members, NotProcessed(m) PROVE KeyInv'
    BY <1>5 DEF NotProcessed
<1>6. ASSUME NEW m \in Members, Handle(m) PROVE KeyInv'
  <2>1. \A n \in Members : Key(n)' = Key(n)
    BY <1>6 DEF Handle, Key, Current
  <2>2. \A n \in Members : pc'[n] = "publish" => pc[n] = "publish" \/ n = m
    BY <1>6 DEF Handle, OpenTx
  <2>3. \A n \in Members : pc[n] = "publish" /\ n # m => Key(n) # Key(m)
    <3> HIDE DEF Key
    <3>. QED BY <1>6 DEF Handle, RowLocked
  <2>. QED
    <3> HIDE DEF Key, Keys
    <3>. QED BY <1>6, <2>1, <2>2, <2>3 DEF Handle, KeyInv
<1>7. ASSUME NEW m \in Members, HandleDuplicate(m) PROVE KeyInv'
    BY <1>7 DEF HandleDuplicate, Abandon, CloseTx
<1>8. ASSUME NEW m \in Members, HandleFails(m) PROVE KeyInv'
    BY <1>8 DEF HandleFails, Abandon, CloseTx
<1>9. ASSUME NEW m \in Members, Ack(m) PROVE KeyInv'
    BY <1>9 DEF Ack, Abandon, CloseTx
<1>10. ASSUME NEW m \in Members, AckFails(m) PROVE KeyInv'
    BY <1>10 DEF AckFails, Abandon, CloseTx
<1>11. ASSUME NEW p \in Processes, NEW v \in UUIDs, Publish(p, v) PROVE KeyInv'
    BY <1>11 DEF Publish
<1>12. ASSUME NEW p \in Processes, NEW v \in UUIDs, NEW stored \in BOOLEAN,
             PublishFails(p, v, stored) PROVE KeyInv'
    BY <1>12 DEF PublishFails, Abandon, CloseTx
<1>13. ASSUME NEW p \in Processes, Commit(p) PROVE KeyInv'
  <2>1. \A n \in Members : n # p => Key(n)' = Key(n)
    BY <1>13 DEF Commit, Succeed, Key, Current
  <2>2. \A n \in Members : pc'[n] = "publish" => n # p /\ pc[n] = "publish"
    BY <1>13 DEF Commit, Succeed
  <2>3. CASE CommitTx(p) /\ p \in Members
    <3>1. processed' = processed \cup {Key(p)} /\ \A k \in Keys :
             effects'[k] = IF k = Key(p) THEN effects[k] + 1 ELSE effects[k]
      BY <2>3, CommitTxRow, <1>13 DEF Commit
    <3>2. pc[p] = "publish" /\ Key(p) \notin processed
      BY <1>13, <2>3 DEF Commit, KeyInv
    <3>. QED
      <4> HIDE DEF Key, Keys
      <4>. QED BY <2>1, <2>2, <2>3, <3>1, <3>2 DEF KeyInv
  <2>4. CASE UNCHANGED <<processed, effects>>
    <3> HIDE DEF Key, Keys
    <3>. QED BY <2>1, <2>2, <2>4 DEF KeyInv
  <2>. QED
    BY <2>3, <2>4, <1>13 DEF Commit, CommitTx
<1>14. ASSUME NEW p \in Processes, NEW committed \in BOOLEAN, CommitFails(p, committed) PROVE KeyInv'
  <2>1. \A n \in Members : n # p => Key(n)' = Key(n)
    BY <1>14 DEF CommitFails, Abandon, Key, Current
  <2>2. \A n \in Members : pc'[n] = "publish" => n # p /\ pc[n] = "publish"
    BY <1>14 DEF CommitFails, Abandon
  <2>3. CASE CommitTx(p) /\ p \in Members
    <3>1. processed' = processed \cup {Key(p)} /\ \A k \in Keys :
             effects'[k] = IF k = Key(p) THEN effects[k] + 1 ELSE effects[k]
      BY <2>3, CommitTxRow, <1>14 DEF CommitFails
    <3>2. pc[p] = "publish" /\ Key(p) \notin processed
      BY <1>14, <2>3 DEF CommitFails, KeyInv
    <3>. QED
      <4> HIDE DEF Key, Keys
      <4>. QED BY <2>1, <2>2, <2>3, <3>1, <3>2 DEF KeyInv
  <2>4. CASE UNCHANGED <<processed, effects>>
    <3> HIDE DEF Key, Keys
    <3>. QED BY <2>1, <2>2, <2>4 DEF KeyInv
  <2>. QED
    BY <2>3, <2>4, <1>14 DEF CommitFails, CommitTx
<1>15. ASSUME NEW p \in Processes, Crash(p) PROVE KeyInv'
    BY <1>15 DEF Crash, Abandon, CloseTx
<1>16. CASE UNCHANGED vars
    BY <1>16 DEF vars
<1> HIDE DEF TypeOK, Processes, bus, db, work, tx, WorkInv, KeyInv, Running, Key, Current, Keys, RowLocked
<1>. QED
    BY <1>1, <1>2, <1>3, <1>4, <1>5, <1>6, <1>7, <1>8,
       <1>9, <1>10, <1>11, <1>12, <1>13, <1>14, <1>15, <1>16
    DEF Next, MemberStep, CommitAndPublish

\* A commit adds to processed_events the handler that comes next in the chain.
LEMMA CommitChain ==
    ASSUME TypeOK, WorkInv, ChainInv, NEW m \in Members, pc[m] = "publish", CommitTx(m)
    PROVE  /\ processed' = processed \cup {Key(m)}
           /\ Key(m) = <<Chain[idx[m]], msg[m]>>
           /\ msg[m] \in channel
           /\ \A u \in UUIDs : \A j \in DOMAIN Chain : \A i \in 1 .. j - 1 :
                 Matches(Chain[i], u) /\ <<Chain[j], u>> \in processed' => <<Chain[i], u>> \in processed'
<1>1. processed' = processed \cup {Key(m)}
    BY DEF CommitTx
<1>2. Key(m) = <<Chain[idx[m]], msg[m]>> /\ msg[m] \in channel /\ idx[m] \in DOMAIN Chain
    BY DEF Key, Current, WorkInv, Running
<1>3. ASSUME NEW u \in UUIDs, NEW j \in DOMAIN Chain, NEW i \in 1 .. j - 1,
             Matches(Chain[i], u), <<Chain[j], u>> \in processed'
      PROVE  <<Chain[i], u>> \in processed'
  <2>1. CASE <<Chain[j], u>> \in processed
    BY <1>1, <1>3, <2>1 DEF ChainInv
  <2>2. CASE <<Chain[j], u>> = Key(m)
    <3>1. j = idx[m] /\ u = msg[m]
      BY <1>2, <2>2, ChainFacts
    <3>. QED
      BY <1>1, <1>3, <3>1 DEF ChainInv
  <2>. QED
    BY <1>1, <1>3, <2>1, <2>2
<1>. QED
    BY <1>1, <1>2, <1>3

\* A member passes a handler of the chain only when it is processed.
LEMMA ChainStep == TypeOK /\ TxInv /\ WorkInv /\ KeyInv /\ ChainInv /\ [Next]_vars => ChainInv'
<1> SUFFICES ASSUME TypeOK, TxInv, WorkInv, KeyInv, ChainInv, [Next]_vars PROVE ChainInv'
    OBVIOUS
<1> USE ProcessesAssumption, NoneAssumption, ChainFacts
<1> USE DEF TypeOK, Processes, bus, db, work, tx, TxInv, WorkInv, ChainInv, Running, Key, Current, Keys, Matches
<1>1. ASSUME NEW r \in Requests, Request(r) PROVE ChainInv'
    BY <1>1 DEF Request, OpenTx, NewEvents
<1>2. ASSUME NEW m \in Members, NEW u \in UUIDs, Deliver(m, u) PROVE ChainInv'
    BY <1>2 DEF Deliver
<1>3. ASSUME NEW m \in Members, NEW u \in UUIDs, Receive(m, u) PROVE ChainInv'
    BY <1>3 DEF Receive
<1>4. ASSUME NEW m \in Members, Skip(m) PROVE ChainInv'
  <2>1. \A i \in 1 .. idx[m] : Matches(Chain[i], msg[m]) => <<Chain[i], msg[m]>> \in processed
    <3>1. Matches(Current(m), msg[m]) => <<Chain[idx[m]], msg[m]>> \in processed
      BY <1>4 DEF Skip
    <3>2. \A i \in 1 .. idx[m] : i = idx[m] \/ i \in 1 .. idx[m] - 1
      BY <1>4
    <3>3. pc[m] # "idle"
      BY <1>4 DEF Skip
    <3>. QED
      BY <3>1, <3>2, <3>3
  <2>2. idx'[m] - 1 = idx[m] /\ \A n \in Members \ {m} : idx'[n] = idx[n]
    BY <1>4 DEF Skip, Succeed
  <2>. QED
    BY <1>4, <2>1, <2>2 DEF Skip, Succeed
<1>5. ASSUME NEW m \in Members, NotProcessed(m) PROVE ChainInv'
    BY <1>5 DEF NotProcessed
<1>6. ASSUME NEW m \in Members, Handle(m) PROVE ChainInv'
    BY <1>6 DEF Handle, OpenTx, NewEvents
<1>7. ASSUME NEW m \in Members, HandleDuplicate(m) PROVE ChainInv'
    BY <1>7 DEF HandleDuplicate, Abandon, CloseTx
<1>8. ASSUME NEW m \in Members, HandleFails(m) PROVE ChainInv'
    BY <1>8 DEF HandleFails, Abandon, CloseTx
<1>9. ASSUME NEW m \in Members, Ack(m) PROVE ChainInv'
  <2>1. \A h \in Handlers : Matches(h, msg[m]) => <<h, msg[m]>> \in processed
    <3>1. idx[m] = Len(Chain) + 1 /\ pc[m] # "idle"
      BY <1>9 DEF Ack
    <3>2. \A h \in Handlers : \E i \in 1 .. idx[m] - 1 : h = Chain[i]
      BY <3>1 DEF Handlers
    <3>. QED
      BY <3>1, <3>2
  <2>. QED
    BY <1>9, <2>1 DEF Ack, Abandon, CloseTx
<1>10. ASSUME NEW m \in Members, AckFails(m) PROVE ChainInv'
    BY <1>10 DEF AckFails, Abandon, CloseTx
<1>11. ASSUME NEW p \in Processes, NEW v \in UUIDs, Publish(p, v) PROVE ChainInv'
    BY <1>11 DEF Publish
<1>12. ASSUME NEW p \in Processes, NEW v \in UUIDs, NEW stored \in BOOLEAN,
             PublishFails(p, v, stored) PROVE ChainInv'
    BY <1>12 DEF PublishFails, Abandon, CloseTx
<1>13. ASSUME NEW p \in Processes, Commit(p) PROVE ChainInv'
  <2>1. CASE p \notin Members
    BY <1>13, <2>1 DEF Commit, CommitTx, Succeed, CloseTx
  <2>2. CASE CommitTx(p) /\ p \in Members
    BY <1>13, <2>2, CommitChain DEF Commit, Succeed, CloseTx
  <2>. QED
    BY <1>13, <2>1, <2>2 DEF Commit, CommitTx
<1>14. ASSUME NEW p \in Processes, NEW committed \in BOOLEAN, CommitFails(p, committed) PROVE ChainInv'
  <2>1. CASE UNCHANGED <<processed, effects>>
    BY <1>14, <2>1 DEF CommitFails, Abandon, CloseTx
  <2>2. CASE CommitTx(p) /\ p \in Members
    BY <1>14, <2>2, CommitChain DEF CommitFails, Abandon, CloseTx
  <2>. QED
    BY <1>14, <2>1, <2>2 DEF CommitFails, CommitTx
<1>15. ASSUME NEW p \in Processes, Crash(p) PROVE ChainInv'
    BY <1>15 DEF Crash, Abandon, CloseTx
<1>16. CASE UNCHANGED vars
    BY <1>16 DEF vars
<1> HIDE DEF TypeOK, Processes, bus, db, work, tx, TxInv, WorkInv, ChainInv, Running, Key, Current, Keys, Matches
<1>. QED
    BY <1>1, <1>2, <1>3, <1>4, <1>5, <1>6, <1>7, <1>8,
       <1>9, <1>10, <1>11, <1>12, <1>13, <1>14, <1>15, <1>16
    DEF Next, MemberStep, CommitAndPublish

-----------------------------------------------------------------------------
\* The invariant holds in every reachable state.
THEOREM Invariance == Spec => []IInv
<1>1. IInv /\ [Next]_vars => IInv'
    BY TypeStep, TxStep, LostStep, WorkStep, KeyStep, ChainStep DEF IInv
<1>. QED
    BY InitInv, <1>1, PTL DEF Spec

\* Type correctness of the pipeline.
THEOREM TypeCorrect == Spec => []TypeOK
BY Invariance, PTL DEF IInv

\* No committed change is left unannounced, whatever fails: CommitAndPublish
\* commits only what Send has passed.
THEOREM NothingLost == Spec => []NoLostEvents
BY Invariance, PTL DEF IInv

\* The effects of a handler on an event are committed at most once, for any number of
\* members, redeliveries and failures, and an acknowledged message was handled by
\* every handler that acts on it.
THEOREM ExactlyOnce == Spec => []EffectsExactlyOnce
<1>1. ASSUME IInv PROVE EffectsExactlyOnce
  <2>1. \A k \in Keys : effects[k] <= 1
    BY <1>1 DEF IInv, KeyInv
  <2>2. \A u \in acked, h \in Handlers : Matches(h, u) => effects[<<h, u>>] = 1
    BY <1>1 DEF IInv, TypeOK, KeyInv, ChainInv, Keys
  <2>. QED
    BY <2>1, <2>2 DEF EffectsExactlyOnce
<1>. QED
    BY Invariance, <1>1, PTL

\* The handlers of a subscription take effect in the order of the chain.
THEOREM ChainOrder == Spec => []EffectsInChainOrder
<1>1. ASSUME IInv PROVE EffectsInChainOrder
  <2> SUFFICES ASSUME NEW u \in UUIDs, NEW j \in DOMAIN Chain, NEW i \in 1 .. j - 1,
                      Matches(Chain[i], u), effects[<<Chain[j], u>>] > 0
               PROVE  effects[<<Chain[i], u>>] > 0
    BY DEF EffectsInChainOrder
  <2>1. i \in DOMAIN Chain
    BY ChainFacts
  <2>2. <<Chain[i], u>> \in Keys /\ <<Chain[j], u>> \in Keys
    BY <2>1, ChainFacts DEF Keys
  <2>3. <<Chain[i], u>> \in processed
    BY <1>1, <2>2 DEF IInv, KeyInv, ChainInv
  <2>. QED
    BY <1>1, <2>2, <2>3 DEF IInv, KeyInv
<1>. QED
    BY Invariance, <1>1, PTL
\* Only a failure abandons a transaction that has published.
LEMMA PhantomStep == IInv /\ NoPhantomWithoutFailure /\ [Next]_vars => NoPhantomWithoutFailure'
<1> SUFFICES ASSUME IInv, NoPhantomWithoutFailure, [Next]_vars PROVE NoPhantomWithoutFailure'
    OBVIOUS
<1> USE ProcessesAssumption
<1> USE DEF IInv, TypeOK, TxInv, NoPhantomWithoutFailure, Processes, bus, db, work, tx
<1>1. ASSUME NEW r \in Requests, Request(r) PROVE NoPhantomWithoutFailure'
    BY <1>1 DEF Request, OpenTx, NewEvents
<1>2. ASSUME NEW m \in Members, NEW u \in UUIDs, Deliver(m, u) PROVE NoPhantomWithoutFailure'
    BY <1>2 DEF Deliver
<1>3. ASSUME NEW m \in Members, NEW u \in UUIDs, Receive(m, u) PROVE NoPhantomWithoutFailure'
    BY <1>3 DEF Receive
<1>4. ASSUME NEW m \in Members, Skip(m) PROVE NoPhantomWithoutFailure'
    BY <1>4 DEF Skip, Succeed
<1>5. ASSUME NEW m \in Members, NotProcessed(m) PROVE NoPhantomWithoutFailure'
    BY <1>5 DEF NotProcessed
<1>6. ASSUME NEW m \in Members, Handle(m) PROVE NoPhantomWithoutFailure'
    BY <1>6 DEF Handle, OpenTx, NewEvents
<1>7. ASSUME NEW m \in Members, HandleDuplicate(m) PROVE NoPhantomWithoutFailure'
    BY <1>7 DEF HandleDuplicate, Abandon, CloseTx
<1>8. ASSUME NEW m \in Members, HandleFails(m) PROVE NoPhantomWithoutFailure'
    BY <1>8 DEF HandleFails, Abandon, CloseTx, Failure
<1>9. ASSUME NEW m \in Members, Ack(m) PROVE NoPhantomWithoutFailure'
    BY <1>9 DEF Ack, Abandon, CloseTx
<1>10. ASSUME NEW m \in Members, AckFails(m) PROVE NoPhantomWithoutFailure'
    BY <1>10 DEF AckFails, Abandon, CloseTx, Failure
<1>11. ASSUME NEW p \in Processes, NEW v \in UUIDs, Publish(p, v) PROVE NoPhantomWithoutFailure'
    BY <1>11 DEF Publish
<1>12. ASSUME NEW p \in Processes, NEW v \in UUIDs, NEW stored \in BOOLEAN,
             PublishFails(p, v, stored) PROVE NoPhantomWithoutFailure'
    BY <1>12 DEF PublishFails, Abandon, CloseTx, Failure
<1>13. ASSUME NEW p \in Processes, Commit(p) PROVE NoPhantomWithoutFailure'
    BY <1>13 DEF Commit, CloseTx, Succeed, CommitTx
<1>14. ASSUME NEW p \in Processes, NEW committed \in BOOLEAN, CommitFails(p, committed) PROVE NoPhantomWithoutFailure'
    BY <1>14 DEF CommitFails, Abandon, CloseTx, Failure
<1>15. ASSUME NEW p \in Processes, Crash(p) PROVE NoPhantomWithoutFailure'
    BY <1>15 DEF Crash, Abandon, CloseTx, Failure
<1>16. CASE UNCHANGED vars
    BY <1>16 DEF vars
<1> HIDE DEF IInv, TypeOK, TxInv, NoPhantomWithoutFailure, Processes, bus, db, work, tx
<1>. QED
    BY <1>1, <1>2, <1>3, <1>4, <1>5, <1>6, <1>7, <1>8,
       <1>9, <1>10, <1>11, <1>12, <1>13, <1>14, <1>15, <1>16
    DEF Next, MemberStep, CommitAndPublish

\* As long as nothing fails, what is published is committed or about to be: the
\* member that loses the race for a message fails before it publishes.
THEOREM NoPhantom == Spec => []NoPhantomWithoutFailure
<1>1. Init => NoPhantomWithoutFailure
    BY DEF Init, NoPhantomWithoutFailure
<1>. QED
    BY Invariance, <1>1, PhantomStep, PTL DEF Spec

-----------------------------------------------------------------------------
(* EventPipeline implements EventDelivery. *)

\* What an event says of its author to those who see it in the channel.
Announced == [u \in UUIDs |-> IF u \in channel THEN author[u] ELSE None]

\* The commit of a request changes the abstract state as Change does, that of a
\* handler as Apply does.
LEMMA CommitImplements ==
    ASSUME IInv, NEW p \in Processes, pc[p] = "publish", pending[p] = {}, CommitTx(p),
           UNCHANGED <<author, bus>>
    PROVE  Delivery!Next
<1>1. txEvents[p] \in SUBSET channel /\ durable' = durable \cup txEvents[p]
    BY DEF IInv, TypeOK, TxInv, CommitTx
<1>2. UNCHANGED <<Announced, channel, acked>>
    BY DEF bus, Announced
<1>3. CASE p \in Members
  <2>1. /\ Key(p) = <<Current(p), msg[p]>>
        /\ Current(p) \in Handlers /\ msg[p] \in UUIDs /\ msg[p] \in channel
        /\ <<Current(p), author[msg[p]]>> \in Subscribed
    BY <1>3, ChainFacts DEF IInv, TypeOK, WorkInv, Running, Matches, Key, Current
  <2>2. Key(p) \in Keys /\ effects[Key(p)] = 0
    BY <1>3, <2>1 DEF IInv, KeyInv, Keys
  <2>3. effects' = [effects EXCEPT ![Key(p)] = 1]
    BY <1>3, <2>2 DEF CommitTx, IInv, TypeOK
  <2>4. Delivery!Apply(Current(p), msg[p], txEvents[p])
    BY <1>1, <1>2, <2>1, <2>2, <2>3 DEF Delivery!Apply, Announced
  <2>. QED
    BY <1>1, <2>1, <2>4 DEF Delivery!Next, Delivery!HandlerNames, Handlers
<1>4. CASE p \notin Members
  <2>1. Delivery!Change(txEvents[p])
    BY <1>1, <1>2, <1>4 DEF Delivery!Change, CommitTx, Announced
  <2>. QED
    BY <1>1, <2>1 DEF Delivery!Next
<1>. QED
    BY <1>3, <1>4

\* A message that reaches the channel is announced, unless it was there before.
LEMMA PublishImplements ==
    ASSUME IInv, NEW p \in Processes, NEW v \in pending[p], channel' = channel \cup {v},
           UNCHANGED <<author, acked, db>>
    PROVE  [Delivery!Next]_(Delivery!dvars)
<1>1. v \in UUIDs /\ author[v] \in Authors
    BY DEF IInv, TypeOK, TxInv
<1>2. CASE v \in channel
    BY <1>2 DEF Delivery!dvars, db
<1>3. CASE v \notin channel
  <2>1. Announced' = [Announced EXCEPT ![v] = author[v]]
    BY <1>1 DEF Announced
  <2>2. Delivery!Announce(v, author[v])
    BY <1>3, <2>1 DEF Delivery!Announce, Announced, db
  <2>3. author[v] \in Delivery!HandlerNames \cup {Rpc}
    BY <1>1 DEF Delivery!HandlerNames, Authors, Handlers
  <2>4. \E u \in UUIDs, a \in Delivery!HandlerNames \cup {Rpc} : Delivery!Announce(u, a)
    BY <1>1, <2>2, <2>3 DEF Delivery!Announce
  <2>. QED
    BY <2>4 DEF Delivery!Next
<1>. QED
    BY <1>2, <1>3

\* Drawing UUIDs is invisible: they are in no message yet.
LEMMA OpenTxImplements ==
    ASSUME IInv, NEW p \in Processes, NEW a, NEW new \in SUBSET UUIDs,
           \A u \in new : author[u] = None,
           OpenTx(p, a, new), UNCHANGED <<bus, db>>
    PROVE  UNCHANGED Delivery!dvars
BY DEF IInv, TypeOK, TxInv, OpenTx, bus, db, Delivery!dvars

\* Every step is a step of EventDelivery or leaves its state alone.
LEMMA StepImplements == IInv /\ [Next]_vars => [Delivery!Next]_(Delivery!dvars)
<1> SUFFICES ASSUME IInv, [Next]_vars PROVE [Delivery!Next]_(Delivery!dvars)
    OBVIOUS
<1> USE ProcessesAssumption
<1> USE DEF bus, db, work, tx, Delivery!dvars, Announced
<1>1. ASSUME NEW r \in Requests, Request(r) PROVE [Delivery!Next]_(Delivery!dvars)
  <2>1. PICK new \in NewEvents(Rpc) : OpenTx(r, Rpc, new)
    BY <1>1 DEF Request
  <2>2. new \in SUBSET UUIDs /\ \A u \in new : author[u] = None
    BY DEF NewEvents
  <2>3. r \in Processes /\ UNCHANGED <<bus, db>>
    BY <1>1 DEF Request, Processes
  <2>. QED
    BY <2>1, <2>2, <2>3, OpenTxImplements
<1>2. ASSUME NEW m \in Members, NEW u \in UUIDs, Deliver(m, u) PROVE [Delivery!Next]_(Delivery!dvars)
    BY <1>2 DEF Deliver
<1>3. ASSUME NEW m \in Members, NEW u \in UUIDs, Receive(m, u) PROVE [Delivery!Next]_(Delivery!dvars)
    BY <1>3 DEF Receive
<1>4. ASSUME NEW m \in Members, Skip(m) PROVE [Delivery!Next]_(Delivery!dvars)
    BY <1>4 DEF Skip, Succeed
<1>5. ASSUME NEW m \in Members, NotProcessed(m) PROVE [Delivery!Next]_(Delivery!dvars)
    BY <1>5 DEF NotProcessed
<1>6. ASSUME NEW m \in Members, Handle(m) PROVE [Delivery!Next]_(Delivery!dvars)
  <2>1. PICK new \in NewEvents(Current(m)) : OpenTx(m, Current(m), new)
    BY <1>6 DEF Handle
  <2>2. new \in SUBSET UUIDs /\ \A u \in new : author[u] = None
    BY DEF NewEvents
  <2>3. m \in Processes /\ UNCHANGED <<bus, db>>
    BY <1>6 DEF Handle, Processes
  <2>. QED
    BY <2>1, <2>2, <2>3, OpenTxImplements
<1>7. ASSUME NEW m \in Members, HandleDuplicate(m) PROVE [Delivery!Next]_(Delivery!dvars)
    BY <1>7 DEF HandleDuplicate, Abandon, CloseTx
<1>8. ASSUME NEW m \in Members, HandleFails(m) PROVE [Delivery!Next]_(Delivery!dvars)
    BY <1>8 DEF HandleFails, Abandon, CloseTx
<1>9. ASSUME NEW m \in Members, Ack(m) PROVE [Delivery!Next]_(Delivery!dvars)
  <2>1. msg[m] \in channel /\ msg[m] \in UUIDs /\ acked' = acked \cup {msg[m]}
    BY <1>9 DEF Ack, IInv, TypeOK, WorkInv
  <2>2. IInv'
    BY <1>9, TypeStep, TxStep, LostStep, WorkStep, KeyStep, ChainStep DEF IInv
  <2>3. \A h \in Handlers : <<h, author[msg[m]]>> \in Subscribed => effects[<<h, msg[m]>>] = 1
    BY <1>9, <2>1, <2>2 DEF IInv, ChainInv, KeyInv, Matches, Keys, Ack
  <2>4. Delivery!Acknowledge(msg[m])
    BY <1>9, <2>1, <2>3 DEF Ack, Delivery!Acknowledge, Delivery!HandlerNames, Handlers
  <2>. QED
    BY <2>1, <2>4 DEF Delivery!Next
<1>10. ASSUME NEW m \in Members, AckFails(m) PROVE [Delivery!Next]_(Delivery!dvars)
    BY <1>10 DEF AckFails, Abandon, CloseTx
<1>11. ASSUME NEW p \in Processes, NEW v \in UUIDs, Publish(p, v) PROVE [Delivery!Next]_(Delivery!dvars)
    BY <1>11, PublishImplements DEF Publish
<1>12. ASSUME NEW p \in Processes, NEW v \in UUIDs, NEW stored \in BOOLEAN,
             PublishFails(p, v, stored) PROVE [Delivery!Next]_(Delivery!dvars)
  <2>1. CASE stored
    BY <1>12, <2>1, PublishImplements DEF PublishFails
  <2>2. CASE ~stored
    BY <1>12, <2>2 DEF PublishFails
  <2>. QED
    BY <2>1, <2>2
<1>13. ASSUME NEW p \in Processes, Commit(p) PROVE [Delivery!Next]_(Delivery!dvars)
    BY <1>13, CommitImplements DEF Commit
<1>14. ASSUME NEW p \in Processes, NEW committed \in BOOLEAN, CommitFails(p, committed) PROVE [Delivery!Next]_(Delivery!dvars)
  <2>1. CASE committed
    BY <1>14, <2>1, CommitImplements DEF CommitFails
  <2>2. CASE ~committed
    BY <1>14, <2>2 DEF CommitFails
  <2>. QED
    BY <2>1, <2>2
<1>15. ASSUME NEW p \in Processes, Crash(p) PROVE [Delivery!Next]_(Delivery!dvars)
    BY <1>15 DEF Crash, Abandon, CloseTx
<1>16. CASE UNCHANGED vars
    BY <1>16 DEF vars
<1> HIDE DEF bus, db, work, tx, Delivery!dvars, Announced
<1>. QED
    BY <1>1, <1>2, <1>3, <1>4, <1>5, <1>6, <1>7, <1>8,
       <1>9, <1>10, <1>11, <1>12, <1>13, <1>14, <1>15, <1>16
    DEF Next, MemberStep, CommitAndPublish

\* The pipeline implements what EventDelivery promises (its safety part), for all
\* constants: effects once, changes announced, acknowledgements last.
THEOREM Refinement == Spec => ImplementsDelivery
<1>1. Init => Delivery!Init
    BY DEF Init, Delivery!Init, Delivery!HandlerNames, Handlers, Keys
<1>. QED
    BY Invariance, <1>1, StepImplements, PTL DEF Spec, ImplementsDelivery, Delivery!Spec
=============================================================================
