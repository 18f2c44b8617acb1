----------------------------- MODULE ServiceProofs -----------------------------
(***************************************************************************)
(* Proofs about Service, for all clients, Nodes, signals and failures.     *)
(***************************************************************************)
EXTENDS Service, FiniteSetTheorems, TLAPS

\* A process runs RPCs or the subscription, and only between coming up and its end.
LifeInv ==
    /\ deployed = "handle_events" => \A c \in Clients : rpc[c] = "idle"
    /\ deployed = "up" => callback = Idle
    /\ stage \in {"down", "opened", "joined"} => \A c \in Clients : rpc[c] \in {"idle", "done"}

\* One transaction at a time has inserted the username, and none when it is taken; what
\* it has announced is either its User or, without a commit, a phantom.
RegisterInv ==
    /\ \A c \in Clients : Uncommitted(c) => owner = None
    /\ \A c, d \in Clients : Uncommitted(c) /\ Uncommitted(d) => c = d
    /\ \A c \in Clients : rpc[c] \in {"idle", "begun", "inserted"} => c \notin announced
    /\ \A c \in Clients : rpc[c] = "sent" => c \in announced
    /\ owner # None => owner \in announced /\ rpc[owner] = "done"

\* The Users that were announced and will never be.
Phantoms == {c \in announced \ {owner} : rpc[c] = "done"}

\* A server that has failed leaves without waiting for its RPCs: the phantom that one
\* of them may leave is accounted for already.
PhantomInv ==
    /\ IsFiniteSet(announced)
    /\ Cardinality(Phantoms) <= failures
    /\ stage = "left" /\ (\E c \in Clients : rpc[c] \notin {"idle", "done"}) =>
          Cardinality(Phantoms) + 1 <= failures

IInv == TypeOK /\ LifeInv /\ RegisterInv /\ PhantomInv
-----------------------------------------------------------------------------
\* The process is down, and nothing has been asked of it.
LEMMA InitInv == Init => IInv
<1> SUFFICES ASSUME Init PROVE IInv
    OBVIOUS
<1> USE NoneAssumption, TriesAssumption, BoundsAssumption DEF Init
<1>1. TypeOK
  <2>1. /\ tries \in 0 .. Tries - 1 /\ stops \in 0 .. MaxStops
        /\ failures \in 0 .. MaxFailures /\ retries \in 0 .. MaxRetries
    OBVIOUS
  <2>. QED
    BY <2>1 DEF TypeOK
<1>2. LifeInv /\ RegisterInv
    BY DEF LifeInv, RegisterInv, Uncommitted
<1>3. Phantoms = {}
    BY DEF Phantoms
<1>4. PhantomInv
    BY <1>3, FS_EmptySet DEF PhantomInv
<1>. QED
    BY <1>1, <1>2, <1>4 DEF IInv

\* The end of the process.
LEMMA ExitType ==
    ASSUME TypeOK, Exit
    PROVE  /\ stage' = "down" /\ tries' \in 0 .. Tries - 1
           /\ rpc' \in [Clients -> {"idle", "begun", "inserted", "sent", "done"}]
           /\ callback' = Idle /\ reader' = "none" /\ errorsClosed' = FALSE
<1>1. rpc' \in [Clients -> {"idle", "begun", "inserted", "sent", "done"}]
    BY DEF TypeOK, Exit
<1>. QED
    BY <1>1, TriesAssumption DEF Exit

\* A failure is counted against its bound.
LEMMA BudgetType ==
    ASSUME TypeOK, Fail \/ Retry
    PROVE  stops' \in 0 .. MaxStops /\ failures' \in 0 .. MaxFailures /\ retries' \in 0 .. MaxRetries
BY BoundsAssumption DEF TypeOK, Fail, Retry

\* The budgets are not overdrawn, the callback works on Nodes of the queue.
LEMMA TypeStep == IInv /\ [Next]_vars => TypeOK'
<1> SUFFICES ASSUME IInv, [Next]_vars PROVE TypeOK'
    OBVIOUS
<1> USE NoneAssumption, TriesAssumption, BoundsAssumption
<1> USE DEF life, budgets, register, outside, consumer, Idle, At, Step, TypeOK
<1> USE DEF IInv
<1>1. CASE ConnectDB
    BY <1>1 DEF ConnectDB
<1>2. CASE ConnectDBFails
    BY <1>2, BudgetType DEF ConnectDBFails
<1>3. CASE ConnectStan
    BY <1>3 DEF ConnectStan
<1>4. CASE ConnectStanFails
    BY <1>4, ExitType, BudgetType DEF ConnectStanFails
<1>5. CASE Serve
    BY <1>5 DEF Serve
<1>6. CASE Consume
    BY <1>6 DEF Consume
<1>7. CASE ConsumeFails
    BY <1>7, ExitType, BudgetType DEF ConsumeFails
<1>8. CASE StartReader
    BY <1>8 DEF StartReader
<1>9. CASE Signal
    BY <1>9 DEF Signal
<1>10. CASE GracefulStop
    BY <1>10 DEF GracefulStop
<1>11. CASE ServeFails
    BY <1>11, BudgetType DEF ServeFails
<1>12. CASE CloseSubscription
    BY <1>12 DEF CloseSubscription
<1>13. CASE CloseSubscriptionFails
    BY <1>13, BudgetType DEF CloseSubscriptionFails
<1>14. CASE Leave
    BY <1>14, ExitType DEF Leave
<1>15. CASE Crash
    BY <1>15, ExitType, BudgetType DEF Crash
<1>16. ASSUME NEW c \in Clients, NEW next \in {"begun", "done"}, Begin(c, next) PROVE TypeOK'
    BY <1>16 DEF Begin
<1>17. ASSUME NEW c \in Clients, Insert(c) PROVE TypeOK'
    BY <1>17 DEF Insert
<1>18. ASSUME NEW c \in Clients, InsertDuplicate(c) PROVE TypeOK'
    BY <1>18 DEF InsertDuplicate
<1>19. ASSUME NEW c \in Clients, Publish(c) PROVE TypeOK'
    BY <1>19 DEF Publish
<1>20. ASSUME NEW c \in Clients, NEW stored \in BOOLEAN, PublishFails(c, stored) PROVE TypeOK'
    BY <1>20, BudgetType DEF PublishFails
<1>21. ASSUME NEW c \in Clients, Commit(c) PROVE TypeOK'
    BY <1>21 DEF Commit
<1>22. ASSUME NEW c \in Clients, NEW committed \in BOOLEAN, CommitFails(c, committed) PROVE TypeOK'
    BY <1>22, BudgetType DEF CommitFails
<1>23. ASSUME NEW n \in Nodes, Deliver(n) PROVE TypeOK'
    BY <1>23 DEF Deliver
<1>24. CASE Handle
    BY <1>24 DEF Handle
<1>25. CASE HandleFails
    BY <1>25, BudgetType DEF HandleFails
<1>26. CASE Ack
    BY <1>26 DEF Ack
<1>27. CASE AckFails
    BY <1>27, BudgetType DEF AckFails
<1>28. CASE ReadError
    BY <1>28 DEF ReadError
<1>29. CASE SendPanics
    BY <1>29, ExitType DEF SendPanics
<1>30. ASSUME NEW n \in Nodes, NEW committed \in BOOLEAN, CreateNode(n, committed) PROVE TypeOK'
    BY <1>30 DEF CreateNode
<1>31. CASE UNCHANGED vars
    BY <1>31 DEF vars
<1>. QED
    BY <1>1, <1>2, <1>3, <1>4, <1>5, <1>6, <1>7, <1>8, <1>9, <1>10, <1>11, <1>12, <1>13, <1>14, <1>15, <1>16, <1>17, <1>18, <1>19, <1>20, <1>21, <1>22, <1>23, <1>24, <1>25, <1>26, <1>27, <1>28, <1>29, <1>30, <1>31
       DEF Next, ComeUp, GoDown, Rpc, Call

\* RPCs begin in a running server only, and end with the process.
LEMMA LifeStep == IInv /\ [Next]_vars => LifeInv'
<1> SUFFICES ASSUME IInv, [Next]_vars PROVE LifeInv'
    OBVIOUS
<1> USE NoneAssumption, TriesAssumption, BoundsAssumption
<1> USE DEF life, budgets, register, outside, consumer, Idle, At, Step, Fail, Retry, Exit, TypeOK
<1> USE DEF IInv, LifeInv
<1>1. CASE ConnectDB
    BY <1>1 DEF ConnectDB
<1>2. CASE ConnectDBFails
    BY <1>2 DEF ConnectDBFails
<1>3. CASE ConnectStan
    BY <1>3 DEF ConnectStan
<1>4. CASE ConnectStanFails
    BY <1>4 DEF ConnectStanFails
<1>5. CASE Serve
    BY <1>5 DEF Serve
<1>6. CASE Consume
    BY <1>6 DEF Consume
<1>7. CASE ConsumeFails
    BY <1>7 DEF ConsumeFails
<1>8. CASE StartReader
    BY <1>8 DEF StartReader
<1>9. CASE Signal
    BY <1>9 DEF Signal
<1>10. CASE GracefulStop
    BY <1>10 DEF GracefulStop
<1>11. CASE ServeFails
    BY <1>11 DEF ServeFails
<1>12. CASE CloseSubscription
    BY <1>12 DEF CloseSubscription
<1>13. CASE CloseSubscriptionFails
    BY <1>13 DEF CloseSubscriptionFails
<1>14. CASE Leave
    BY <1>14 DEF Leave
<1>15. CASE Crash
    BY <1>15 DEF Crash
<1>16. ASSUME NEW c \in Clients, NEW next \in {"begun", "done"}, Begin(c, next) PROVE LifeInv'
    BY <1>16 DEF Begin
<1>17. ASSUME NEW c \in Clients, Insert(c) PROVE LifeInv'
    BY <1>17 DEF Insert
<1>18. ASSUME NEW c \in Clients, InsertDuplicate(c) PROVE LifeInv'
    BY <1>18 DEF InsertDuplicate
<1>19. ASSUME NEW c \in Clients, Publish(c) PROVE LifeInv'
    BY <1>19 DEF Publish
<1>20. ASSUME NEW c \in Clients, NEW stored \in BOOLEAN, PublishFails(c, stored) PROVE LifeInv'
    BY <1>20 DEF PublishFails
<1>21. ASSUME NEW c \in Clients, Commit(c) PROVE LifeInv'
    BY <1>21 DEF Commit
<1>22. ASSUME NEW c \in Clients, NEW committed \in BOOLEAN, CommitFails(c, committed) PROVE LifeInv'
    BY <1>22 DEF CommitFails
<1>23. ASSUME NEW n \in Nodes, Deliver(n) PROVE LifeInv'
    BY <1>23 DEF Deliver
<1>24. CASE Handle
    BY <1>24 DEF Handle
<1>25. CASE HandleFails
    BY <1>25 DEF HandleFails
<1>26. CASE Ack
    BY <1>26 DEF Ack
<1>27. CASE AckFails
    BY <1>27 DEF AckFails
<1>28. CASE ReadError
    BY <1>28 DEF ReadError
<1>29. CASE SendPanics
    BY <1>29 DEF SendPanics
<1>30. ASSUME NEW n \in Nodes, NEW committed \in BOOLEAN, CreateNode(n, committed) PROVE LifeInv'
    BY <1>30 DEF CreateNode
<1>31. CASE UNCHANGED vars
    BY <1>31 DEF vars
<1>. QED
    BY <1>1, <1>2, <1>3, <1>4, <1>5, <1>6, <1>7, <1>8, <1>9, <1>10, <1>11, <1>12, <1>13, <1>14, <1>15, <1>16, <1>17, <1>18, <1>19, <1>20, <1>21, <1>22, <1>23, <1>24, <1>25, <1>26, <1>27, <1>28, <1>29, <1>30, <1>31
       DEF Next, ComeUp, GoDown, Rpc, Call

\* The unique index makes an RPC wait for the one that has inserted the username.
LEMMA RegisterStep == IInv /\ [Next]_vars => RegisterInv'
<1> SUFFICES ASSUME IInv, [Next]_vars PROVE RegisterInv'
    OBVIOUS
<1> USE NoneAssumption, TriesAssumption, BoundsAssumption
<1> USE DEF life, budgets, register, outside, consumer, Idle, At, Step, Fail, Retry, Exit, TypeOK
<1> USE DEF IInv, LifeInv, RegisterInv, Uncommitted
<1>1. CASE ConnectDB
    BY <1>1 DEF ConnectDB
<1>2. CASE ConnectDBFails
    BY <1>2 DEF ConnectDBFails
<1>3. CASE ConnectStan
    BY <1>3 DEF ConnectStan
<1>4. CASE ConnectStanFails
    BY <1>4 DEF ConnectStanFails
<1>5. CASE Serve
    BY <1>5 DEF Serve
<1>6. CASE Consume
    BY <1>6 DEF Consume
<1>7. CASE ConsumeFails
    BY <1>7 DEF ConsumeFails
<1>8. CASE StartReader
    BY <1>8 DEF StartReader
<1>9. CASE Signal
    BY <1>9 DEF Signal
<1>10. CASE GracefulStop
    BY <1>10 DEF GracefulStop
<1>11. CASE ServeFails
    BY <1>11 DEF ServeFails
<1>12. CASE CloseSubscription
    BY <1>12 DEF CloseSubscription
<1>13. CASE CloseSubscriptionFails
    BY <1>13 DEF CloseSubscriptionFails
<1>14. CASE Leave
    BY <1>14 DEF Leave
<1>15. CASE Crash
    BY <1>15 DEF Crash
<1>16. ASSUME NEW c \in Clients, NEW next \in {"begun", "done"}, Begin(c, next) PROVE RegisterInv'
    BY <1>16 DEF Begin
<1>17. ASSUME NEW c \in Clients, Insert(c) PROVE RegisterInv'
    BY <1>17 DEF Insert
<1>18. ASSUME NEW c \in Clients, InsertDuplicate(c) PROVE RegisterInv'
    BY <1>18 DEF InsertDuplicate
<1>19. ASSUME NEW c \in Clients, Publish(c) PROVE RegisterInv'
    BY <1>19 DEF Publish
<1>20. ASSUME NEW c \in Clients, NEW stored \in BOOLEAN, PublishFails(c, stored) PROVE RegisterInv'
    BY <1>20 DEF PublishFails
<1>21. ASSUME NEW c \in Clients, Commit(c) PROVE RegisterInv'
    BY <1>21 DEF Commit
<1>22. ASSUME NEW c \in Clients, NEW committed \in BOOLEAN, CommitFails(c, committed) PROVE RegisterInv'
    BY <1>22 DEF CommitFails
<1>23. ASSUME NEW n \in Nodes, Deliver(n) PROVE RegisterInv'
    BY <1>23 DEF Deliver
<1>24. CASE Handle
    BY <1>24 DEF Handle
<1>25. CASE HandleFails
    BY <1>25 DEF HandleFails
<1>26. CASE Ack
    BY <1>26 DEF Ack
<1>27. CASE AckFails
    BY <1>27 DEF AckFails
<1>28. CASE ReadError
    BY <1>28 DEF ReadError
<1>29. CASE SendPanics
    BY <1>29 DEF SendPanics
<1>30. ASSUME NEW n \in Nodes, NEW committed \in BOOLEAN, CreateNode(n, committed) PROVE RegisterInv'
    BY <1>30 DEF CreateNode
<1>31. CASE UNCHANGED vars
    BY <1>31 DEF vars
<1>. QED
    BY <1>1, <1>2, <1>3, <1>4, <1>5, <1>6, <1>7, <1>8, <1>9, <1>10, <1>11, <1>12, <1>13, <1>14, <1>15, <1>16, <1>17, <1>18, <1>19, <1>20, <1>21, <1>22, <1>23, <1>24, <1>25, <1>26, <1>27, <1>28, <1>29, <1>30, <1>31
       DEF Next, ComeUp, GoDown, Rpc, Call

\* Users and budgets are counted in numbers.
LEMMA CountType ==
    ASSUME IInv
    PROVE  IsFiniteSet(Phantoms) /\ Cardinality(Phantoms) \in Nat /\ failures \in Nat
<1>1. Phantoms \subseteq announced
    BY DEF Phantoms
<1>2. IsFiniteSet(Phantoms)
    BY <1>1, FS_Subset DEF IInv, PhantomInv
<1>. QED
    BY <1>2, FS_CardinalityType, BoundsAssumption DEF IInv, TypeOK

\* Who has no phantom more, and no new RPC in a failed server, keeps the balance.
LEMMA SamePhantoms ==
    ASSUME IInv, Phantoms' = Phantoms, announced' = announced, failures' \in Nat, failures' >= failures,
           stage' = "left" => stage = "left" \/ \A c \in Clients : rpc'[c] \in {"idle", "done"},
           \A c \in Clients : rpc'[c] \notin {"idle", "done"} => rpc[c] \notin {"idle", "done"}
    PROVE  PhantomInv'
<1>1. Cardinality(Phantoms)' = Cardinality(Phantoms)
    OBVIOUS
<1>. QED
    BY <1>1, CountType DEF IInv, PhantomInv

\* An RPC that ends without its commit leaves one phantom.
LEMMA OneMorePhantom ==
    ASSUME IInv, NEW c, Phantoms' \subseteq Phantoms \cup {c}
    PROVE  Cardinality(Phantoms') \in Nat /\ Cardinality(Phantoms') <= Cardinality(Phantoms) + 1
<1>1. /\ IsFiniteSet(Phantoms \cup {c})
      /\ Cardinality(Phantoms \cup {c}) <= Cardinality(Phantoms) + 1
    BY CountType, FS_AddElement
<1>2. IsFiniteSet(Phantoms') /\ Cardinality(Phantoms') <= Cardinality(Phantoms \cup {c})
    BY <1>1, FS_Subset
<1>. QED
    BY <1>1, <1>2, CountType, FS_CardinalityType

\* At the end of the process only an RPC that had announced its User leaves one.
LEMMA ExitPhantoms ==
    ASSUME IInv, Exit, UNCHANGED <<owner, announced>>
    PROVE  /\ (\A c \in Clients : rpc[c] # "sent") => Phantoms' = Phantoms
           /\ Cardinality(Phantoms') \in Nat /\ Cardinality(Phantoms') <= Cardinality(Phantoms) + 1
<1> USE DEF IInv, TypeOK, RegisterInv, Uncommitted, Exit, Phantoms
<1>1. (\A c \in Clients : rpc[c] # "sent") => Phantoms' = Phantoms
    OBVIOUS
<1>2. ASSUME NEW c \in Clients, rpc[c] = "sent" PROVE Phantoms' \subseteq Phantoms \cup {c}
    BY <1>2
<1>. QED
    BY <1>1, <1>2, OneMorePhantom, CountType

\* A phantom more is paid for by a failure, at once or when the server failed.
LEMMA PhantomStep == IInv /\ [Next]_vars => PhantomInv'
<1> SUFFICES ASSUME IInv, [Next]_vars PROVE PhantomInv'
    OBVIOUS
<1> USE CountType, NoneAssumption
<1> USE DEF life, budgets, register, outside, consumer, Step, Fail, Retry
<1>1. ASSUME \/ ConnectDB \/ ConnectDBFails \/ ConnectStan \/ Serve \/ Consume \/ StartReader
             \/ Signal \/ CloseSubscription \/ CloseSubscriptionFails \/ GracefulStop
             \/ Handle \/ HandleFails \/ Ack \/ AckFails \/ ReadError
             \/ \E n \in Nodes : Deliver(n) \/ \E committed \in BOOLEAN : CreateNode(n, committed)
             \/ UNCHANGED vars
      PROVE  PhantomInv'
  <2>1. UNCHANGED <<register, failures>>
    BY <1>1 DEF ConnectDB, ConnectDBFails, ConnectStan, Serve, Consume, StartReader, Signal,
                CloseSubscription, CloseSubscriptionFails, GracefulStop, Handle, HandleFails,
                Ack, AckFails, ReadError, Deliver, CreateNode, vars
  <2>2. stage' = "left" => stage = "left" \/ \A c \in Clients : rpc[c] \in {"idle", "done"}
    BY <1>1 DEF ConnectDB, ConnectDBFails, ConnectStan, Serve, Consume, StartReader, Signal,
                CloseSubscription, CloseSubscriptionFails, GracefulStop, Handle, HandleFails,
                Ack, AckFails, ReadError, Deliver, CreateNode, vars, IInv, LifeInv
  <2>3. Phantoms' = Phantoms
    BY <2>1 DEF Phantoms
  <2>. QED
    BY <2>1, <2>2, <2>3, SamePhantoms
<1>2. CASE ServeFails
  <2>1. Phantoms' = Phantoms /\ failures' = failures + 1
    BY <1>2 DEF ServeFails, Phantoms
  <2>. QED
    BY <1>2, <2>1 DEF ServeFails, IInv, PhantomInv
<1>3. CASE ConnectStanFails \/ ConsumeFails \/ SendPanics
  <2>1. Exit /\ UNCHANGED <<owner, announced, failures>>
    BY <1>3 DEF ConnectStanFails, ConsumeFails, SendPanics
  <2>2. \A c \in Clients : rpc[c] \in {"idle", "done"}
    BY <1>3 DEF ConnectStanFails, ConsumeFails, SendPanics, At, Idle, IInv, TypeOK, LifeInv
  <2>3. Phantoms' = Phantoms
    BY <2>1, <2>2, ExitPhantoms
  <2>. QED
    BY <2>1, <2>2, <2>3, SamePhantoms DEF Exit
<1>4. CASE Leave
  <2>1. stage = "left" /\ stage' = "down" /\ Exit /\ UNCHANGED <<owner, announced, failures>>
    BY <1>4 DEF Leave, Exit
  <2>2. CASE \A c \in Clients : rpc[c] # "sent"
    BY <2>1, <2>2, ExitPhantoms DEF IInv, PhantomInv
  <2>3. CASE \E c \in Clients : rpc[c] = "sent"
    BY <2>1, <2>3, ExitPhantoms DEF IInv, PhantomInv
  <2>. QED
    BY <2>2, <2>3
<1>5. CASE Crash
  <2>1. stage' = "down" /\ Exit /\ UNCHANGED <<owner, announced>> /\ failures' = failures + 1
    BY <1>5 DEF Crash, Exit
  <2>. QED
    BY <2>1, ExitPhantoms DEF IInv, PhantomInv
<1>6. ASSUME NEW c \in Clients, NEW next \in {"begun", "done"}, Begin(c, next) PROVE PhantomInv'
  <2>1. Phantoms' = Phantoms
    BY <1>6 DEF Begin, Phantoms, IInv, TypeOK, RegisterInv
  <2>. QED
    BY <1>6, <2>1 DEF Begin, IInv, PhantomInv
<1>7. ASSUME NEW c \in Clients, Insert(c) \/ InsertDuplicate(c) \/ PublishFails(c, FALSE)
      PROVE  PhantomInv'
  <2>1. Phantoms' = Phantoms
    BY <1>7 DEF Insert, InsertDuplicate, PublishFails, Phantoms, IInv, TypeOK, RegisterInv
  <2>. QED
    BY <1>7, <2>1, SamePhantoms DEF Insert, InsertDuplicate, PublishFails, IInv, TypeOK
<1>11. ASSUME NEW c \in Clients, PublishFails(c, TRUE) PROVE PhantomInv'
  <2>1. Phantoms' \subseteq Phantoms \cup {c} /\ failures' = failures + 1
    BY <1>11 DEF PublishFails, Phantoms, IInv, TypeOK
  <2>2. IsFiniteSet(announced')
    BY <1>11, FS_AddElement DEF PublishFails, IInv, PhantomInv
  <2>. QED
    BY <1>11, <2>1, <2>2, OneMorePhantom DEF PublishFails, IInv, TypeOK, PhantomInv
<1>8. ASSUME NEW c \in Clients, Publish(c) PROVE PhantomInv'
  <2>1. Phantoms' = Phantoms
    BY <1>8 DEF Publish, Phantoms, IInv, TypeOK
  <2>2. IsFiniteSet(announced')
    BY <1>8, FS_AddElement DEF Publish, IInv, PhantomInv
  <2>. QED
    BY <1>8, <2>1, <2>2 DEF Publish, IInv, TypeOK, PhantomInv
<1>9. ASSUME NEW c \in Clients, Commit(c) PROVE PhantomInv'
  <2>1. Phantoms' = Phantoms
    BY <1>9 DEF Commit, Phantoms, IInv, TypeOK, RegisterInv, Uncommitted
  <2>. QED
    BY <1>9, <2>1, SamePhantoms DEF Commit, IInv, TypeOK
<1>10. ASSUME NEW c \in Clients, NEW committed \in BOOLEAN, CommitFails(c, committed)
       PROVE  PhantomInv'
  <2>1. failures' = failures + 1
    BY <1>10 DEF CommitFails
  <2>2. Phantoms' \subseteq Phantoms \cup {c}
    BY <1>10 DEF CommitFails, Phantoms, IInv, TypeOK, RegisterInv, Uncommitted
  <2>. QED
    BY <1>10, <2>1, <2>2, OneMorePhantom DEF CommitFails, IInv, TypeOK, PhantomInv
<1>. QED
    BY <1>1, <1>2, <1>3, <1>4, <1>5, <1>6, <1>7, <1>8, <1>9, <1>10, <1>11
       DEF Next, ComeUp, GoDown, Rpc, Call

LEMMA Invariance == Spec => []IInv
BY InitInv, TypeStep, LifeStep, RegisterStep, PhantomStep, PTL DEF Spec, IInv

-----------------------------------------------------------------------------
\* The variables of Service keep their types.
THEOREM TypeCorrect == Spec => []TypeOK
BY Invariance, PTL DEF IInv

\* Users that were announced and never created are at most as many as crashes, failed
\* commits and events stored by a Send that failed, and a User that was created has been announced.
THEOREM PhantomsByFailure == Spec => []PhantomOnlyByFailure
<1>1. IInv => PhantomOnlyByFailure
    BY DEF IInv, RegisterInv, PhantomInv, Phantoms, PhantomOnlyByFailure
<1>. QED
    BY <1>1, Invariance, PTL
================================================================================
