----------------------------- MODULE NodeStreamProofs -----------------------------
(***************************************************************************)
(* Proofs about NodeStream, for all calls, servers, Tasks and failures.    *)
(***************************************************************************)
EXTENDS NodeStream, FiniteSetTheorems, TLAPS

\* The states of a call that holds the mutex of its server, that has updated the
\* row in its transaction, and whose channel is in the map.
Locking    == {"locked", "update", "online", "commitOnline"}
InTx       == {"online", "commitOnline", "closing", "offline", "commitOffline"}
Registered == {"online", "commitOnline", "closing"} \cup Serving

\* The mutexes and the row lock are held by the calls that are in their sections.
LockInv ==
    /\ \A c \in Calls : pc[c] \in Locking => mux[At[c]] = c
    /\ \A c \in Calls : pc[c] \in InTx => rowLock = c

\* A server's map has one channel for the Node: a call gets past CheckMap only when
\* there is none, and the mutex keeps it so until its own channel is there.
ChannelInv ==
    /\ \A c \in Calls : pc[c] = "update" => chanOf[At[c]] = None
    /\ \A c \in Calls : pc[c] \in Registered => chanOf[At[c]] = c
    /\ \A c \in Calls : pc[c] \in {"streaming", "leaving"} => tasks[c] = c
    /\ \A c \in Calls \cap closed : pc[c] \in Disconnecting \cup {"done"}

\* Unless a call failed: between Send and Commit the event is ahead of the row, and
\* an ONLINE Node has a call that serves it or is about to mark it OFFLINE.
EventInv ==
    failures = 0 /\ panicked = {} =>
        /\ rowLock = None => lastEvent = status
        /\ \A c \in Calls : pc[c] = "commitOnline" => lastEvent = "ONLINE"
        /\ \A c \in Calls : pc[c] = "commitOffline" => lastEvent = "OFFLINE"
        /\ status = "ONLINE" => \E c \in Calls : pc[c] \in Serving \cup Disconnecting

\* Calls that reach one server: while one of them is disconnecting the Node none
\* has registered, and the one that serves it has committed ONLINE, which stays until
\* its disconnecting transaction ends.
OneServerInv ==
    \A c \in Calls : (\A d \in Calls : At[d] = At[c]) =>
        /\ pc[c] \in {"offline", "commitOffline"} => \A d \in Calls : pc[d] \notin Registered
        /\ pc[c] \in Serving \cup Disconnecting => status = "ONLINE"

IInv == TypeOK /\ LockInv /\ ChannelInv /\ EventInv /\ OneServerInv
-----------------------------------------------------------------------------
\* No call has begun, no channel is there, and the Node is OFFLINE.
LEMMA InitInv == Init => IInv
BY AtAssumption, NoneAssumption, BoundsAssumption
   DEF Init, IInv, TypeOK, LockInv, ChannelInv, EventInv, OneServerInv, States, Active,
       Connecting, Serving, Disconnecting, Locking, InTx, Registered

\* The assignments of a step keep the types; the channel that is closed is there.
LEMMA TypeStep ==
    ASSUME IInv, [Next]_vars
    PROVE  TypeOK'
<1> USE AtAssumption, NoneAssumption, BoundsAssumption
<1> USE DEF row, maps, events, health, Goto
<1> USE DEF TypeOK, States, Active, Connecting, Serving, Disconnecting
<1> USE DEF IInv, ChannelInv
<1>1. ASSUME NEW c \in Calls, Lookup(c) PROVE TypeOK'
    BY <1>1 DEF Lookup
<1>2. ASSUME NEW c \in Calls, Lock(c) PROVE TypeOK'
    BY <1>2 DEF Lock
<1>3. ASSUME NEW c \in Calls, CheckMap(c) PROVE TypeOK'
    BY <1>3 DEF CheckMap, Unlock
<1>4. ASSUME NEW c \in Calls, UpdateOnline(c) PROVE TypeOK'
    BY <1>4 DEF UpdateOnline
<1>5. ASSUME NEW c \in Calls, SendOnline(c) PROVE TypeOK'
    BY <1>5 DEF SendOnline
<1>6. ASSUME NEW c \in Calls, CommitOnline(c) PROVE TypeOK'
    BY <1>6 DEF CommitOnline, Unlock
<1>7. ASSUME NEW c \in Calls, GetChannel(c) PROVE TypeOK'
    BY <1>7 DEF GetChannel
<1>8. ASSUME NEW c \in Calls, UpdateOnlineFails(c) PROVE TypeOK'
    BY <1>8 DEF UpdateOnlineFails, Failure, Unlock
<1>9. ASSUME NEW c \in Calls, NEW b \in BOOLEAN, SendOnlineFails(c, b) PROVE TypeOK'
    BY <1>9 DEF SendOnlineFails, Failure, Unlock
<1>10. ASSUME NEW c \in Calls, NEW b \in BOOLEAN, CommitOnlineFails(c, b) PROVE TypeOK'
    BY <1>10 DEF CommitOnlineFails, Failure, Unlock
<1>11. ASSUME NEW c \in Calls, NEW s \in Servers, NEW b \in BOOLEAN, ReceiveTask(c, s, b) PROVE TypeOK'
    BY <1>11 DEF ReceiveTask
<1>12. ASSUME NEW c \in Calls, Leave(c) PROVE TypeOK'
    BY <1>12 DEF Leave
<1>13. ASSUME NEW c \in Calls, LeaveOnStop(c) PROVE TypeOK'
    BY <1>13 DEF LeaveOnStop
<1>14. ASSUME NEW c \in Calls, UpdateOffline(c) PROVE TypeOK'
    BY <1>14 DEF UpdateOffline
<1>15. ASSUME NEW c \in Calls, UpdateOfflineFails(c) PROVE TypeOK'
    BY <1>15 DEF UpdateOfflineFails, Failure
<1>16. ASSUME NEW c \in Calls, DeleteChannel(c) PROVE TypeOK'
    BY <1>16 DEF DeleteChannel
<1>17. ASSUME NEW c \in Calls, SendOffline(c) PROVE TypeOK'
    BY <1>17 DEF SendOffline
<1>18. ASSUME NEW c \in Calls, NEW b \in BOOLEAN, SendOfflineFails(c, b) PROVE TypeOK'
    BY <1>18 DEF SendOfflineFails, Failure
<1>19. ASSUME NEW c \in Calls, CommitOffline(c) PROVE TypeOK'
    BY <1>19 DEF CommitOffline
<1>20. ASSUME NEW c \in Calls, NEW b \in BOOLEAN, CommitOfflineFails(c, b) PROVE TypeOK'
    BY <1>20 DEF CommitOfflineFails, Failure
<1>21. ASSUME NEW s \in Servers, LookupChannel(s) PROVE TypeOK'
    BY <1>21 DEF LookupChannel
<1>22. ASSUME NEW s \in Servers, SendPanics(s) PROVE TypeOK'
    BY <1>22 DEF SendPanics, Restart
<1>23. ASSUME NEW s \in Servers, GracefulStop(s) PROVE TypeOK'
    BY <1>23 DEF GracefulStop
<1>24. ASSUME NEW s \in Servers, Crash(s) PROVE TypeOK'
    BY <1>24 DEF Crash, Failure, Restart
<1>25. CASE UNCHANGED vars
    BY <1>25 DEF vars, row, maps, events, health
<1>. QED
    BY <1>1, <1>2, <1>3, <1>4, <1>5, <1>6, <1>7, <1>8, <1>9, <1>10, <1>11, <1>12, <1>13, <1>14, <1>15, <1>16, <1>17, <1>18, <1>19, <1>20, <1>21, <1>22, <1>23, <1>24, <1>25
       DEF Next, Connect, Receives, Disconnect, CallFails, Consumer

\* A call enters a section when nobody holds its lock, and every way out of the
\* section, a failure and a crash too, gives it back.
LEMMA LockStep ==
    ASSUME IInv, [Next]_vars
    PROVE  LockInv'
<1> USE AtAssumption, NoneAssumption, BoundsAssumption
<1> USE DEF row, maps, events, health, Goto
<1> USE DEF TypeOK, States, Active, Connecting, Serving, Disconnecting
<1> USE DEF IInv, LockInv, Locking, InTx
<1>1. ASSUME NEW c \in Calls, Lookup(c) PROVE LockInv'
    BY <1>1 DEF Lookup
<1>2. ASSUME NEW c \in Calls, Lock(c) PROVE LockInv'
    BY <1>2 DEF Lock
<1>3. ASSUME NEW c \in Calls, CheckMap(c) PROVE LockInv'
    BY <1>3 DEF CheckMap, Unlock
<1>4. ASSUME NEW c \in Calls, UpdateOnline(c) PROVE LockInv'
    BY <1>4 DEF UpdateOnline
<1>5. ASSUME NEW c \in Calls, SendOnline(c) PROVE LockInv'
    BY <1>5 DEF SendOnline
<1>6. ASSUME NEW c \in Calls, CommitOnline(c) PROVE LockInv'
    BY <1>6 DEF CommitOnline, Unlock
<1>7. ASSUME NEW c \in Calls, GetChannel(c) PROVE LockInv'
    BY <1>7 DEF GetChannel
<1>8. ASSUME NEW c \in Calls, UpdateOnlineFails(c) PROVE LockInv'
    BY <1>8 DEF UpdateOnlineFails, Failure, Unlock
<1>9. ASSUME NEW c \in Calls, NEW b \in BOOLEAN, SendOnlineFails(c, b) PROVE LockInv'
    BY <1>9 DEF SendOnlineFails, Failure, Unlock
<1>10. ASSUME NEW c \in Calls, NEW b \in BOOLEAN, CommitOnlineFails(c, b) PROVE LockInv'
    BY <1>10 DEF CommitOnlineFails, Failure, Unlock
<1>11. ASSUME NEW c \in Calls, NEW s \in Servers, NEW b \in BOOLEAN, ReceiveTask(c, s, b) PROVE LockInv'
    BY <1>11 DEF ReceiveTask
<1>12. ASSUME NEW c \in Calls, Leave(c) PROVE LockInv'
    BY <1>12 DEF Leave
<1>13. ASSUME NEW c \in Calls, LeaveOnStop(c) PROVE LockInv'
    BY <1>13 DEF LeaveOnStop
<1>14. ASSUME NEW c \in Calls, UpdateOffline(c) PROVE LockInv'
    BY <1>14 DEF UpdateOffline
<1>15. ASSUME NEW c \in Calls, UpdateOfflineFails(c) PROVE LockInv'
    BY <1>15 DEF UpdateOfflineFails, Failure
<1>16. ASSUME NEW c \in Calls, DeleteChannel(c) PROVE LockInv'
    BY <1>16 DEF DeleteChannel
<1>17. ASSUME NEW c \in Calls, SendOffline(c) PROVE LockInv'
    BY <1>17 DEF SendOffline
<1>18. ASSUME NEW c \in Calls, NEW b \in BOOLEAN, SendOfflineFails(c, b) PROVE LockInv'
    BY <1>18 DEF SendOfflineFails, Failure
<1>19. ASSUME NEW c \in Calls, CommitOffline(c) PROVE LockInv'
    BY <1>19 DEF CommitOffline
<1>20. ASSUME NEW c \in Calls, NEW b \in BOOLEAN, CommitOfflineFails(c, b) PROVE LockInv'
    BY <1>20 DEF CommitOfflineFails, Failure
<1>21. ASSUME NEW s \in Servers, LookupChannel(s) PROVE LockInv'
    BY <1>21 DEF LookupChannel
<1>22. ASSUME NEW s \in Servers, SendPanics(s) PROVE LockInv'
    BY <1>22 DEF SendPanics, Restart
<1>23. ASSUME NEW s \in Servers, GracefulStop(s) PROVE LockInv'
    BY <1>23 DEF GracefulStop
<1>24. ASSUME NEW s \in Servers, Crash(s) PROVE LockInv'
    BY <1>24 DEF Crash, Failure, Restart
<1>25. CASE UNCHANGED vars
    BY <1>25 DEF vars, row, maps, events, health
<1>. QED
    BY <1>1, <1>2, <1>3, <1>4, <1>5, <1>6, <1>7, <1>8, <1>9, <1>10, <1>11, <1>12, <1>13, <1>14, <1>15, <1>16, <1>17, <1>18, <1>19, <1>20, <1>21, <1>22, <1>23, <1>24, <1>25
       DEF Next, Connect, Receives, Disconnect, CallFails, Consumer

\* CheckMap and UpdateOnline are in one section of the mutex, so the channel that a
\* call puts into the map replaces none; only that call closes and deletes it.
LEMMA ChannelStep ==
    ASSUME IInv, [Next]_vars
    PROVE  ChannelInv'
<1> USE AtAssumption, NoneAssumption, BoundsAssumption
<1> USE DEF row, maps, events, health, Goto
<1> USE DEF TypeOK, States, Active, Connecting, Serving, Disconnecting
<1> USE DEF IInv, LockInv, Locking, InTx, ChannelInv, Registered
<1>1. ASSUME NEW c \in Calls, Lookup(c) PROVE ChannelInv'
    BY <1>1 DEF Lookup
<1>2. ASSUME NEW c \in Calls, Lock(c) PROVE ChannelInv'
    BY <1>2 DEF Lock
<1>3. ASSUME NEW c \in Calls, CheckMap(c) PROVE ChannelInv'
    BY <1>3 DEF CheckMap, Unlock
<1>4. ASSUME NEW c \in Calls, UpdateOnline(c) PROVE ChannelInv'
    BY <1>4 DEF UpdateOnline
<1>5. ASSUME NEW c \in Calls, SendOnline(c) PROVE ChannelInv'
    BY <1>5 DEF SendOnline
<1>6. ASSUME NEW c \in Calls, CommitOnline(c) PROVE ChannelInv'
    BY <1>6 DEF CommitOnline, Unlock
<1>7. ASSUME NEW c \in Calls, GetChannel(c) PROVE ChannelInv'
    BY <1>7 DEF GetChannel
<1>8. ASSUME NEW c \in Calls, UpdateOnlineFails(c) PROVE ChannelInv'
    BY <1>8 DEF UpdateOnlineFails, Failure, Unlock
<1>9. ASSUME NEW c \in Calls, NEW b \in BOOLEAN, SendOnlineFails(c, b) PROVE ChannelInv'
    BY <1>9 DEF SendOnlineFails, Failure, Unlock
<1>10. ASSUME NEW c \in Calls, NEW b \in BOOLEAN, CommitOnlineFails(c, b) PROVE ChannelInv'
    BY <1>10 DEF CommitOnlineFails, Failure, Unlock
<1>11. ASSUME NEW c \in Calls, NEW s \in Servers, NEW b \in BOOLEAN, ReceiveTask(c, s, b) PROVE ChannelInv'
    BY <1>11 DEF ReceiveTask
<1>12. ASSUME NEW c \in Calls, Leave(c) PROVE ChannelInv'
    BY <1>12 DEF Leave
<1>13. ASSUME NEW c \in Calls, LeaveOnStop(c) PROVE ChannelInv'
    BY <1>13 DEF LeaveOnStop
<1>14. ASSUME NEW c \in Calls, UpdateOffline(c) PROVE ChannelInv'
    BY <1>14 DEF UpdateOffline
<1>15. ASSUME NEW c \in Calls, UpdateOfflineFails(c) PROVE ChannelInv'
    BY <1>15 DEF UpdateOfflineFails, Failure
<1>16. ASSUME NEW c \in Calls, DeleteChannel(c) PROVE ChannelInv'
    BY <1>16 DEF DeleteChannel
<1>17. ASSUME NEW c \in Calls, SendOffline(c) PROVE ChannelInv'
    BY <1>17 DEF SendOffline
<1>18. ASSUME NEW c \in Calls, NEW b \in BOOLEAN, SendOfflineFails(c, b) PROVE ChannelInv'
    BY <1>18 DEF SendOfflineFails, Failure
<1>19. ASSUME NEW c \in Calls, CommitOffline(c) PROVE ChannelInv'
    BY <1>19 DEF CommitOffline
<1>20. ASSUME NEW c \in Calls, NEW b \in BOOLEAN, CommitOfflineFails(c, b) PROVE ChannelInv'
    BY <1>20 DEF CommitOfflineFails, Failure
<1>21. ASSUME NEW s \in Servers, LookupChannel(s) PROVE ChannelInv'
    BY <1>21 DEF LookupChannel
<1>22. ASSUME NEW s \in Servers, SendPanics(s) PROVE ChannelInv'
    BY <1>22 DEF SendPanics, Restart
<1>23. ASSUME NEW s \in Servers, GracefulStop(s) PROVE ChannelInv'
    BY <1>23 DEF GracefulStop
<1>24. ASSUME NEW s \in Servers, Crash(s) PROVE ChannelInv'
    BY <1>24 DEF Crash, Failure, Restart
<1>25. CASE UNCHANGED vars
    BY <1>25 DEF vars, row, maps, events, health
<1>. QED
    BY <1>1, <1>2, <1>3, <1>4, <1>5, <1>6, <1>7, <1>8, <1>9, <1>10, <1>11, <1>12, <1>13, <1>14, <1>15, <1>16, <1>17, <1>18, <1>19, <1>20, <1>21, <1>22, <1>23, <1>24, <1>25
       DEF Next, Connect, Receives, Disconnect, CallFails, Consumer

\* The row lock is held from the UPDATE to the commit, so no other call publishes
\* between Send and Commit.
LEMMA EventStep ==
    ASSUME IInv, [Next]_vars
    PROVE  EventInv'
<1> USE AtAssumption, NoneAssumption, BoundsAssumption
<1> USE DEF row, maps, events, health, Goto
<1> USE DEF TypeOK, States, Active, Connecting, Serving, Disconnecting
<1> USE DEF IInv, LockInv, Locking, InTx, ChannelInv, Registered, EventInv
<1>1. ASSUME NEW c \in Calls, Lookup(c) PROVE EventInv'
    BY <1>1 DEF Lookup
<1>2. ASSUME NEW c \in Calls, Lock(c) PROVE EventInv'
    BY <1>2 DEF Lock
<1>3. ASSUME NEW c \in Calls, CheckMap(c) PROVE EventInv'
    BY <1>3 DEF CheckMap, Unlock
<1>4. ASSUME NEW c \in Calls, UpdateOnline(c) PROVE EventInv'
    BY <1>4 DEF UpdateOnline
<1>5. ASSUME NEW c \in Calls, SendOnline(c) PROVE EventInv'
    BY <1>5 DEF SendOnline
<1>6. ASSUME NEW c \in Calls, CommitOnline(c) PROVE EventInv'
    BY <1>6 DEF CommitOnline, Unlock
<1>7. ASSUME NEW c \in Calls, GetChannel(c) PROVE EventInv'
    BY <1>7 DEF GetChannel
<1>8. ASSUME NEW c \in Calls, UpdateOnlineFails(c) PROVE EventInv'
    BY <1>8 DEF UpdateOnlineFails, Failure, Unlock
<1>9. ASSUME NEW c \in Calls, NEW b \in BOOLEAN, SendOnlineFails(c, b) PROVE EventInv'
    BY <1>9 DEF SendOnlineFails, Failure, Unlock
<1>10. ASSUME NEW c \in Calls, NEW b \in BOOLEAN, CommitOnlineFails(c, b) PROVE EventInv'
    BY <1>10 DEF CommitOnlineFails, Failure, Unlock
<1>11. ASSUME NEW c \in Calls, NEW s \in Servers, NEW b \in BOOLEAN, ReceiveTask(c, s, b) PROVE EventInv'
    BY <1>11 DEF ReceiveTask
<1>12. ASSUME NEW c \in Calls, Leave(c) PROVE EventInv'
    BY <1>12 DEF Leave
<1>13. ASSUME NEW c \in Calls, LeaveOnStop(c) PROVE EventInv'
    BY <1>13 DEF LeaveOnStop
<1>14. ASSUME NEW c \in Calls, UpdateOffline(c) PROVE EventInv'
    BY <1>14 DEF UpdateOffline
<1>15. ASSUME NEW c \in Calls, UpdateOfflineFails(c) PROVE EventInv'
    BY <1>15 DEF UpdateOfflineFails, Failure
<1>16. ASSUME NEW c \in Calls, DeleteChannel(c) PROVE EventInv'
    BY <1>16 DEF DeleteChannel
<1>17. ASSUME NEW c \in Calls, SendOffline(c) PROVE EventInv'
    BY <1>17 DEF SendOffline
<1>18. ASSUME NEW c \in Calls, NEW b \in BOOLEAN, SendOfflineFails(c, b) PROVE EventInv'
    BY <1>18 DEF SendOfflineFails, Failure
<1>19. ASSUME NEW c \in Calls, CommitOffline(c) PROVE EventInv'
    BY <1>19 DEF CommitOffline
<1>20. ASSUME NEW c \in Calls, NEW b \in BOOLEAN, CommitOfflineFails(c, b) PROVE EventInv'
    BY <1>20 DEF CommitOfflineFails, Failure
<1>21. ASSUME NEW s \in Servers, LookupChannel(s) PROVE EventInv'
    BY <1>21 DEF LookupChannel
<1>22. ASSUME NEW s \in Servers, SendPanics(s) PROVE EventInv'
    BY <1>22 DEF SendPanics, Restart
<1>23. ASSUME NEW s \in Servers, GracefulStop(s) PROVE EventInv'
    BY <1>23 DEF GracefulStop
<1>24. ASSUME NEW s \in Servers, Crash(s) PROVE EventInv'
    BY <1>24 DEF Crash, Failure, Restart
<1>25. CASE UNCHANGED vars
    BY <1>25 DEF vars, row, maps, events, health
<1>. QED
    BY <1>1, <1>2, <1>3, <1>4, <1>5, <1>6, <1>7, <1>8, <1>9, <1>10, <1>11, <1>12, <1>13, <1>14, <1>15, <1>16, <1>17, <1>18, <1>19, <1>20, <1>21, <1>22, <1>23, <1>24, <1>25
       DEF Next, Connect, Receives, Disconnect, CallFails, Consumer

\* On one server the map keeps a call from registering until the disconnecting call
\* has deleted its channel, and from then to the commit the row lock does.
LEMMA OneServerStep ==
    ASSUME IInv, [Next]_vars
    PROVE  OneServerInv'
<1> USE AtAssumption, NoneAssumption, BoundsAssumption
<1> USE DEF row, maps, events, health, Goto
<1> USE DEF TypeOK, States, Active, Connecting, Serving, Disconnecting
<1> USE DEF IInv, LockInv, Locking, InTx, ChannelInv, Registered, OneServerInv
<1>1. ASSUME NEW c \in Calls, Lookup(c) PROVE OneServerInv'
    BY <1>1 DEF Lookup
<1>2. ASSUME NEW c \in Calls, Lock(c) PROVE OneServerInv'
    BY <1>2 DEF Lock
<1>3. ASSUME NEW c \in Calls, CheckMap(c) PROVE OneServerInv'
    BY <1>3 DEF CheckMap, Unlock
<1>4. ASSUME NEW c \in Calls, UpdateOnline(c) PROVE OneServerInv'
    BY <1>4 DEF UpdateOnline
<1>5. ASSUME NEW c \in Calls, SendOnline(c) PROVE OneServerInv'
    BY <1>5 DEF SendOnline
<1>6. ASSUME NEW c \in Calls, CommitOnline(c) PROVE OneServerInv'
    BY <1>6 DEF CommitOnline, Unlock
<1>7. ASSUME NEW c \in Calls, GetChannel(c) PROVE OneServerInv'
    BY <1>7 DEF GetChannel
<1>8. ASSUME NEW c \in Calls, UpdateOnlineFails(c) PROVE OneServerInv'
    BY <1>8 DEF UpdateOnlineFails, Failure, Unlock
<1>9. ASSUME NEW c \in Calls, NEW b \in BOOLEAN, SendOnlineFails(c, b) PROVE OneServerInv'
    BY <1>9 DEF SendOnlineFails, Failure, Unlock
<1>10. ASSUME NEW c \in Calls, NEW b \in BOOLEAN, CommitOnlineFails(c, b) PROVE OneServerInv'
    BY <1>10 DEF CommitOnlineFails, Failure, Unlock
<1>11. ASSUME NEW c \in Calls, NEW s \in Servers, NEW b \in BOOLEAN, ReceiveTask(c, s, b) PROVE OneServerInv'
    BY <1>11 DEF ReceiveTask
<1>12. ASSUME NEW c \in Calls, Leave(c) PROVE OneServerInv'
    BY <1>12 DEF Leave
<1>13. ASSUME NEW c \in Calls, LeaveOnStop(c) PROVE OneServerInv'
    BY <1>13 DEF LeaveOnStop
<1>14. ASSUME NEW c \in Calls, UpdateOffline(c) PROVE OneServerInv'
    BY <1>14 DEF UpdateOffline
<1>15. ASSUME NEW c \in Calls, UpdateOfflineFails(c) PROVE OneServerInv'
    BY <1>15 DEF UpdateOfflineFails, Failure
<1>16. ASSUME NEW c \in Calls, DeleteChannel(c) PROVE OneServerInv'
    BY <1>16 DEF DeleteChannel
<1>17. ASSUME NEW c \in Calls, SendOffline(c) PROVE OneServerInv'
    BY <1>17 DEF SendOffline
<1>18. ASSUME NEW c \in Calls, NEW b \in BOOLEAN, SendOfflineFails(c, b) PROVE OneServerInv'
    BY <1>18 DEF SendOfflineFails, Failure
<1>19. ASSUME NEW c \in Calls, CommitOffline(c) PROVE OneServerInv'
    BY <1>19 DEF CommitOffline
<1>20. ASSUME NEW c \in Calls, NEW b \in BOOLEAN, CommitOfflineFails(c, b) PROVE OneServerInv'
    BY <1>20 DEF CommitOfflineFails, Failure
<1>21. ASSUME NEW s \in Servers, LookupChannel(s) PROVE OneServerInv'
    BY <1>21 DEF LookupChannel
<1>22. ASSUME NEW s \in Servers, SendPanics(s) PROVE OneServerInv'
    BY <1>22 DEF SendPanics, Restart
<1>23. ASSUME NEW s \in Servers, GracefulStop(s) PROVE OneServerInv'
    BY <1>23 DEF GracefulStop
<1>24. ASSUME NEW s \in Servers, Crash(s) PROVE OneServerInv'
    BY <1>24 DEF Crash, Failure, Restart
<1>25. CASE UNCHANGED vars
    BY <1>25 DEF vars, row, maps, events, health
<1>. QED
    BY <1>1, <1>2, <1>3, <1>4, <1>5, <1>6, <1>7, <1>8, <1>9, <1>10, <1>11, <1>12, <1>13, <1>14, <1>15, <1>16, <1>17, <1>18, <1>19, <1>20, <1>21, <1>22, <1>23, <1>24, <1>25
       DEF Next, Connect, Receives, Disconnect, CallFails, Consumer

LEMMA Invariance == Spec => []IInv
<1>1. IInv /\ [Next]_vars => IInv'
  <2> SUFFICES ASSUME IInv, [Next]_vars PROVE IInv'
    OBVIOUS
  <2>. QED
    BY TypeStep, LockStep, ChannelStep, EventStep, OneServerStep DEF IInv
<1>. QED
    BY InitInv, <1>1, PTL DEF Spec

-----------------------------------------------------------------------------
\* The variables of NodeStream keep their types.
THEOREM TypeCorrect == Spec => []TypeOK
BY Invariance, PTL DEF IInv

\* A server never streams to the Node in two RPCs: both would have their channel in
\* the map.
THEOREM OneStream == Spec => []OneStreamPerServer
<1>1. IInv => OneStreamPerServer
    BY DEF IInv, ChannelInv, Registered, Serving, OneStreamPerServer
<1>. QED
    BY <1>1, Invariance, PTL

\* An RPC that streams reads from its own channel, which is in the map and open.
THEOREM OwnChannel == Spec => []StreamsFromItsChannel
<1>1. IInv => StreamsFromItsChannel
    BY DEF IInv, ChannelInv, Registered, Serving, Disconnecting, StreamsFromItsChannel
<1>. QED
    BY <1>1, Invariance, PTL

\* Unless a call failed, the last event of the Node is what its row says between
\* transactions, however many servers it connects to.
THEOREM EventsInCommitOrder == Spec => []LastEventIsStatus
<1>1. IInv => LastEventIsStatus
    BY DEF IInv, EventInv, LastEventIsStatus
<1>. QED
    BY <1>1, Invariance, PTL

\* Unless a call failed, an ONLINE Node is served by an RPC that will mark it OFFLINE.
THEOREM OnlineIsServed == Spec => []OnlineOnlyIfServed
<1>1. IInv => OnlineOnlyIfServed
    BY DEF IInv, EventInv, OnlineOnlyIfServed
<1>. QED
    BY <1>1, Invariance, PTL

\* With one server a Node that receives Tasks is ONLINE until its disconnecting
\* transaction has ended, also after failures and crashes, and when it calls again
\* meanwhile; unless a call failed, it is marked ONLINE only when it is OFFLINE.
THEOREM StatusOfStream == Spec => []StatusFollowsStream
<1>1. IInv => StatusFollowsStream
  <2> SUFFICES ASSUME IInv, Cardinality(Servers) = 1, NEW c \in Calls
               PROVE  /\ pc[c] \in Serving \cup Disconnecting => status = "ONLINE"
                      /\ failures = 0 /\ panicked = {} /\ pc[c] \in {"online", "commitOnline"} => status = "OFFLINE"
    BY DEF StatusFollowsStream
  <2>1. PICK s : Servers = {s}
    BY ServersAssumption, FS_Singleton
  <2>2. \A d \in Calls : At[d] = At[c]
    BY <2>1, AtAssumption
  <2>3. pc[c] \in Serving \cup Disconnecting => status = "ONLINE"
    BY <2>2 DEF IInv, OneServerInv
  <2>4. ASSUME failures = 0, panicked = {}, pc[c] \in {"online", "commitOnline"}, status # "OFFLINE"
        PROVE  FALSE
    <3>1. PICK d \in Calls : pc[d] \in Serving \cup Disconnecting
      BY <2>4 DEF IInv, TypeOK, EventInv
    <3>2. d # c
      BY <2>4, <3>1 DEF Serving, Disconnecting
    <3>3. CASE pc[d] \in Serving
      BY <2>2, <2>4, <3>2, <3>3 DEF IInv, ChannelInv, Registered
    <3>4. CASE pc[d] \in Disconnecting
      BY <2>4, <3>2, <3>4 DEF IInv, LockInv, InTx, Disconnecting
    <3>. QED
      BY <3>1, <3>3, <3>4
  <2>. QED
    BY <2>3, <2>4
<1>. QED
    BY <1>1, Invariance, PTL
=============================================================================
