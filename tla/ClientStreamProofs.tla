--------------------------- MODULE ClientStreamProofs ---------------------------
(***************************************************************************)
(* Proofs about ClientStream, for all streams, Tasks and redeliveries.     *)
(***************************************************************************)
EXTENDS ClientStream, TLAPS

\* What HandleTaskCreated sends is a Task of the Job.
SendingInv == sending.to # None => sending.task \in 1 .. created

IInv == TypeOK /\ SendingInv /\ AloneIsReachable
-----------------------------------------------------------------------------
\* Nothing has been created or called yet.
LEMMA InitInv == Init => IInv
<1> SUFFICES ASSUME Init PROVE IInv
    OBVIOUS
<1> USE StreamsAssumption, BoundsAssumption DEF Init, Idle, Unregistered
<1>1. sending \in [task : 0 .. created, to : Streams \cup {Node, None}]
    OBVIOUS
<1>2. received \in [Streams -> SUBSET (1 .. created)]
    OBVIOUS
<1>3. created \in 0 .. MaxTasks /\ redelivered \in 0 .. MaxRedeliveries
    OBVIOUS
<1>4. TypeOK
    BY <1>1, <1>2, <1>3 DEF TypeOK
<1>. QED
    BY <1>4 DEF IInv, SendingInv, AloneIsReachable

\* Only Tasks that were created are announced, sent and received.
LEMMA TypeStep == IInv /\ [Next]_vars => TypeOK'
<1> SUFFICES ASSUME IInv, [Next]_vars PROVE TypeOK'
    OBVIOUS
<1> USE StreamsAssumption, BoundsAssumption
<1> USE DEF db, streams, channels, handlers, health, Goto, Unregistered, Idle, IInv, TypeOK
<1> USE DEF SendingInv
<1>1. ASSUME NEW c \in Streams, NEW next \in {"refused", "existing", "check"}, LoadJob(c, next) PROVE TypeOK'
    BY <1>1 DEF LoadJob
<1>2. ASSUME NEW c \in Streams, NEW loaded \in BOOLEAN, NEW sent \in BOOLEAN, SendExisting(c, loaded, sent) PROVE TypeOK'
    BY <1>2 DEF SendExisting
<1>3. ASSUME NEW c \in Streams, CheckTerminated(c) PROVE TypeOK'
    BY <1>3 DEF CheckTerminated
<1>4. ASSUME NEW c \in Streams, Register(c) PROVE TypeOK'
    BY <1>4 DEF Register
<1>5. ASSUME NEW c \in Streams, EndOfTasks(c) PROVE TypeOK'
    BY <1>5 DEF EndOfTasks
<1>6. ASSUME NEW c \in Streams, LeaveOnStop(c) PROVE TypeOK'
    BY <1>6 DEF LeaveOnStop
<1>7. ASSUME NEW c \in Streams, Unregister(c) PROVE TypeOK'
    BY <1>7 DEF Unregister
<1>8. ASSUME NEW c \in Streams, NEW sent \in BOOLEAN, ReceiveTask(c, sent) PROVE TypeOK'
    BY <1>8 DEF ReceiveTask
<1>9. ASSUME NEW c \in Streams, Leave(c) PROVE TypeOK'
    BY <1>9 DEF Leave
<1>10. CASE LookupTask
    BY <1>10 DEF LookupTask
<1>11. CASE SendPanics
    BY <1>11 DEF SendPanics
<1>12. CASE LookupJob
    BY <1>12 DEF LookupJob
<1>13. CASE CloseChannel
    BY <1>13 DEF CloseChannel
<1>14. CASE CreateTask
    BY <1>14 DEF CreateTask
<1>15. CASE TerminateJob
    BY <1>15 DEF TerminateJob
<1>16. CASE Redeliver
  <2>1. redelivered' \in 0 .. MaxRedeliveries
    BY <1>16 DEF Redeliver
  <2>2. inbox' \subseteq 1 .. created
    BY <1>16 DEF Redeliver
  <2>3. jobEvent' \in BOOLEAN
    BY <1>16 DEF Redeliver
  <2>. QED
    BY <1>16, <2>1, <2>2, <2>3 DEF Redeliver
<1>17. CASE GracefulStop
    BY <1>17 DEF GracefulStop
<1>18. CASE TakeTask
    BY <1>18 DEF TakeTask
<1>19. CASE UNCHANGED vars
    BY <1>19 DEF vars
<1>. QED
    BY <1>1, <1>2, <1>3, <1>4, <1>5, <1>6, <1>7, <1>8, <1>9, <1>10, <1>11, <1>12, <1>13, <1>14, <1>15, <1>16, <1>17, <1>18, <1>19 DEF Next, StreamStep, Receives, TaskConsumer, JobConsumer

\* HandleTaskCreated takes a channel only together with a Task.
LEMMA SendingStep == IInv /\ [Next]_vars => SendingInv'
<1> SUFFICES ASSUME IInv, [Next]_vars PROVE SendingInv'
    OBVIOUS
<1> USE StreamsAssumption, BoundsAssumption
<1> USE DEF db, streams, channels, handlers, health, Goto, Unregistered, Idle, IInv, TypeOK
<1> USE DEF SendingInv
<1>1. ASSUME NEW c \in Streams, NEW next \in {"refused", "existing", "check"}, LoadJob(c, next) PROVE SendingInv'
    BY <1>1 DEF LoadJob
<1>2. ASSUME NEW c \in Streams, NEW loaded \in BOOLEAN, NEW sent \in BOOLEAN, SendExisting(c, loaded, sent) PROVE SendingInv'
    BY <1>2 DEF SendExisting
<1>3. ASSUME NEW c \in Streams, CheckTerminated(c) PROVE SendingInv'
    BY <1>3 DEF CheckTerminated
<1>4. ASSUME NEW c \in Streams, Register(c) PROVE SendingInv'
    BY <1>4 DEF Register
<1>5. ASSUME NEW c \in Streams, EndOfTasks(c) PROVE SendingInv'
    BY <1>5 DEF EndOfTasks
<1>6. ASSUME NEW c \in Streams, LeaveOnStop(c) PROVE SendingInv'
    BY <1>6 DEF LeaveOnStop
<1>7. ASSUME NEW c \in Streams, Unregister(c) PROVE SendingInv'
    BY <1>7 DEF Unregister
<1>8. ASSUME NEW c \in Streams, NEW sent \in BOOLEAN, ReceiveTask(c, sent) PROVE SendingInv'
    BY <1>8 DEF ReceiveTask
<1>9. ASSUME NEW c \in Streams, Leave(c) PROVE SendingInv'
    BY <1>9 DEF Leave
<1>10. CASE LookupTask
    BY <1>10 DEF LookupTask
<1>11. CASE SendPanics
    BY <1>11 DEF SendPanics
<1>12. CASE LookupJob
    BY <1>12 DEF LookupJob
<1>13. CASE CloseChannel
    BY <1>13 DEF CloseChannel
<1>14. CASE CreateTask
    BY <1>14 DEF CreateTask
<1>15. CASE TerminateJob
    BY <1>15 DEF TerminateJob
<1>16. CASE Redeliver
    BY <1>16 DEF Redeliver
<1>17. CASE GracefulStop
    BY <1>17 DEF GracefulStop
<1>18. CASE TakeTask
    BY <1>18 DEF TakeTask
<1>19. CASE UNCHANGED vars
    BY <1>19 DEF vars
<1>. QED
    BY <1>1, <1>2, <1>3, <1>4, <1>5, <1>6, <1>7, <1>8, <1>9, <1>10, <1>11, <1>12, <1>13, <1>14, <1>15, <1>16, <1>17, <1>18, <1>19 DEF Next, StreamStep, Receives, TaskConsumer, JobConsumer

\* The deferred functions that delete the channel are those of RPCs that have registered.
LEMMA AloneStep == IInv /\ [Next]_vars => AloneIsReachable'
<1> SUFFICES ASSUME IInv, [Next]_vars PROVE AloneIsReachable'
    OBVIOUS
<1> USE StreamsAssumption, BoundsAssumption
<1> USE DEF db, streams, channels, handlers, health, Goto, Unregistered, Idle, IInv, TypeOK
<1> USE DEF AloneIsReachable
<1>1. ASSUME NEW c \in Streams, NEW next \in {"refused", "existing", "check"}, LoadJob(c, next) PROVE AloneIsReachable'
    BY <1>1 DEF LoadJob
<1>2. ASSUME NEW c \in Streams, NEW loaded \in BOOLEAN, NEW sent \in BOOLEAN, SendExisting(c, loaded, sent) PROVE AloneIsReachable'
    BY <1>2 DEF SendExisting
<1>3. ASSUME NEW c \in Streams, CheckTerminated(c) PROVE AloneIsReachable'
    BY <1>3 DEF CheckTerminated
<1>4. ASSUME NEW c \in Streams, Register(c) PROVE AloneIsReachable'
    BY <1>4 DEF Register
<1>5. ASSUME NEW c \in Streams, EndOfTasks(c) PROVE AloneIsReachable'
    BY <1>5 DEF EndOfTasks
<1>6. ASSUME NEW c \in Streams, LeaveOnStop(c) PROVE AloneIsReachable'
    BY <1>6 DEF LeaveOnStop
<1>7. ASSUME NEW c \in Streams, Unregister(c) PROVE AloneIsReachable'
    BY <1>7 DEF Unregister
<1>8. ASSUME NEW c \in Streams, NEW sent \in BOOLEAN, ReceiveTask(c, sent) PROVE AloneIsReachable'
    BY <1>8 DEF ReceiveTask
<1>9. ASSUME NEW c \in Streams, Leave(c) PROVE AloneIsReachable'
    BY <1>9 DEF Leave
<1>10. CASE LookupTask
    BY <1>10 DEF LookupTask
<1>11. CASE SendPanics
    BY <1>11 DEF SendPanics
<1>12. CASE LookupJob
    BY <1>12 DEF LookupJob
<1>13. CASE CloseChannel
    BY <1>13 DEF CloseChannel
<1>14. CASE CreateTask
    BY <1>14 DEF CreateTask
<1>15. CASE TerminateJob
    BY <1>15 DEF TerminateJob
<1>16. CASE Redeliver
    BY <1>16 DEF Redeliver
<1>17. CASE GracefulStop
    BY <1>17 DEF GracefulStop
<1>18. CASE TakeTask
    BY <1>18 DEF TakeTask
<1>19. CASE UNCHANGED vars
    BY <1>19 DEF vars
<1>. QED
    BY <1>1, <1>2, <1>3, <1>4, <1>5, <1>6, <1>7, <1>8, <1>9, <1>10, <1>11, <1>12, <1>13, <1>14, <1>15, <1>16, <1>17, <1>18, <1>19 DEF Next, StreamStep, Receives, TaskConsumer, JobConsumer

LEMMA Invariance == Spec => []IInv
BY InitInv, TypeStep, SendingStep, AloneStep, PTL DEF Spec, IInv

-----------------------------------------------------------------------------
\* The variables of ClientStream keep their types: a client receives Tasks of the Job.
THEOREM TypeCorrect == Spec => []TypeOK
BY Invariance, PTL DEF IInv

\* A stream whose Job no other RPC has streamed can be found by the handlers, however
\* many RPCs were refused or are on their way.
THEOREM AloneReachable == Spec => []AloneIsReachable
BY Invariance, PTL DEF IInv
=================================================================================
