--------------------------- MODULE SchedulingProofs ---------------------------
(***************************************************************************)
(* Proofs about Scheduling, for all processes, Nodes, finitely many        *)
(* Containers, and all Limits, capacities and bounds.                      *)
(*                                                                         *)
(* IInv has a part that always holds, TypeInv: the types, and that locked  *)
(* rows and the index of processed_events keep transactions apart.  The    *)
(* other, SafeInv, holds until rows and events are disturbed.  It says of  *)
(* the uncommitted writes that each is of one of three kinds (Schedules,   *)
(* Ends, Returns), whose premises about the tables stay true until the     *)
(* commit because the rows are locked or the event is not processed twice. *)
(* Every handler and RPC begins such a transaction (SafelyBegins) or leaves*)
(* it (Leaves), and every commit of one keeps the tables right             *)
(* (CommitSafe).                                                           *)
(*                                                                         *)
(* The refinement of Placement maps each commit to a step, by its kind.    *)
(* IntentInv adds what that needs of the uncommitted writes: a Job is      *)
(* cancelled with all its Tasks that run, and rescheduled after a failure. *)
(***************************************************************************)
EXTENDS Scheduling, FiniteSetTheorems, TLAPS

\* The lemmas about sums are those of SelectLimits; nothing else of it is used.
Limits == INSTANCE SelectLimitsProofs
              WITH Dims <- {}, Width <- 1, Requests <- {}, MaxLimits <- 0,
                   limits <- Empty, res <- Empty, selected <- {}, done <- FALSE

\* The statuses that end a Task, and the rows of the Tasks.
Ended    == {"finished", "failed", "cancelled"}
TaskRows == {NoTask} \cup [status : {"running"} \cup Ended, node : Nodes]

\* The tables.
RowsOK ==
    /\ online \in [Nodes -> BOOLEAN]
    /\ available \in [Nodes -> Nat]
    /\ job \in [Containers -> JobStatus]
    /\ task \in [TaskIds -> TaskRows]

\* Events are about things of their kind, and a terminated event is about a Task that
\* exists.
OfItsKind(e) ==
    /\ e.type = "pending" => e.of \in Containers
    /\ e.type \in {"online", "offline"} => e.of \in Nodes
    /\ e.type = "terminated" => e.of \in TaskIds /\ task[e.of] # NoTask

EventsOK ==
    /\ IsFiniteSet(published) /\ published \subseteq Events
    /\ processed \subseteq published /\ acked \subseteq published
    /\ \A e \in published : OfItsKind(e)

\* What a process has loaded, by what it is about to do.
LoadedOK(s) ==
    \/ s.op = "NodeUpdated" /\ s.event \in published /\ s.event.type = "online" /\ s.of \in Nodes /\ s.seen \in Nat
    \/ s.op = "TaskTerminated" /\ s.event \in published /\ s.event.type = "terminated" /\ s.of = s.event.of[1]
    \/ s.op = "CancelJob" /\ s.of \in Containers /\ <<s.seen, "CANCELLED">> \in JobTransitions
    \/ /\ s.op = "CancelTasks" /\ s.of \in Containers
       /\ \A t \in s.seen : t \in TaskIds /\ t[1] = s.of /\ task[t] # NoTask
    \/ s.op = "CancelTask" /\ s.of \in TaskIds /\ task[s.of] # NoTask /\ s.seen.status = "running"

\* The writes of a transaction are to rows it has locked; the Tasks it creates are not
\* rows yet.
WritesOK(w) ==
    /\ DOMAIN w.job \subseteq Containers \cap w.rows
    /\ \A c \in DOMAIN w.job : w.job[c] \in JobStatus
    /\ DOMAIN w.task \subseteq TaskIds
    /\ \A t \in DOMAIN w.task : w.task[t] \in TaskRows \ {NoTask}
    /\ DOMAIN w.available \subseteq Nodes \cap w.rows
    /\ \A n \in DOMAIN w.available : w.available[n] \in Nat
    /\ w.event = None \/ w.event \in published \ processed

\* The transaction of CancelJob before it has written anything.
LockOf(c) == [NoTx EXCEPT !.rows = {c}]

ProcessOK(p) ==
    /\ pc[p] \in {"loaded", "locked"} => LoadedOK(struct[p])
    /\ pc[p] \in {"idle", "loaded"} => tx[p] = NoTx
    /\ pc[p] = "locked" => struct[p].op = "CancelTasks" /\ tx[p] = LockOf(struct[p].of)
    /\ pc[p] \in {"staged", "leaked"} => tx[p] # NoTx
    /\ WritesOK(tx[p])

ProcessesOK ==
    /\ pc \in [Processes -> {"idle", "loaded", "locked", "staged", "leaked"}]
    /\ DOMAIN struct = Processes /\ DOMAIN tx = Processes
    /\ \A p \in Processes : ProcessOK(p)
    /\ disturbed \in BOOLEAN
    /\ failures \in 0 .. MaxFailures

\* Row locks and the unique index of processed_events keep transactions apart.
LocksInv ==
    \A p, q \in Processes :
        p # q => /\ tx[p].rows \cap tx[q].rows = {}
                 /\ tx[p].event # None => tx[p].event # tx[q].event

-----------------------------------------------------------------------------
(* What holds until rows and events are disturbed. *)

TerminatedEvents(t) == {e \in published : e.type = "terminated" /\ e.of = t}
EndStaged(t) == \E p \in Processes : t \in DOMAIN tx[p].task /\ tx[p].task[t].status \in Ended

\* A transaction schedules Jobs on a Node, each with one new Task.
Schedules(w) ==
    \E n \in Nodes :
        /\ DOMAIN w.job # {}
        /\ \A c \in DOMAIN w.job :
              /\ job[c] = "PENDING" /\ w.job[c] = "SCHEDULED"
              /\ \E t \in DOMAIN w.task : t[1] = c /\ \A u \in DOMAIN w.task : u[1] = c => u = t
        /\ \A t \in DOMAIN w.task :
              /\ t[1] \in DOMAIN w.job
              /\ task[t] = NoTask /\ w.task[t] = [status |-> "running", node |-> n]
        /\ w.available = One(n, available[n] - Demand(DOMAIN w.job))
        /\ Demand(DOMAIN w.job) <= available[n]
        /\ w.event \in published /\ w.event.type # "terminated"

\* It ends Tasks, and may cancel a Job.
Ends(w) ==
    /\ \A c \in DOMAIN w.job : w.job[c] = "CANCELLED"
    /\ \A t \in DOMAIN w.task :
          /\ t \in w.rows /\ Live(t)
          /\ w.task[t].status \in Ended /\ w.task[t].node = task[t].node
    /\ w.available = Empty
    /\ w.event # None => w.event.type # "terminated"

\* It gives back the resources of a Task, once.
Returns(w) ==
    \E t \in TaskIds :
        LET c == t[1]   n == task[t].node
        IN  /\ w.event \in published /\ w.event.type = "terminated" /\ w.event.of = t
            /\ job[c] = "SCHEDULED"
            /\ w.job = One(c, "FINISHED") \/ (w.job = One(c, "PENDING") /\ task[t].status \in Ended)
            /\ w.task = Empty
            /\ n \in Nodes /\ available[n] = 0 /\ w.available = One(n, Limit[c])

StagedInv == \A p \in Processes : Schedules(tx[p]) \/ Ends(tx[p]) \/ Returns(tx[p])

\* A Task has one terminated event, published before the status is committed.
TerminatedInv ==
    \A t \in TaskIds :
        /\ \A e, f \in TerminatedEvents(t) : e = f
        /\ TerminatedEvents(t) # {} <=> task[t].status \in Ended \/ EndStaged(t)

\* A Task keeps its Job from being scheduled again.
Busy(t) == Live(t) \/ (task[t] # NoTask /\ ~Released(t))

TasksOf(c) == {t \in TaskIds : t[1] = c}

JobsInv ==
    \A c \in Containers :
        /\ job[c] \in {"absent", "NEW", "PENDING"} => \A t \in TasksOf(c) : ~Busy(t)
        /\ job[c] = "SCHEDULED" =>
              \E t \in TasksOf(c) : task[t] # NoTask /\ ~Released(t) /\ \A u \in TasksOf(c) : Busy(u) => u = t
        /\ job[c] \in {"FINISHED", "CANCELLED"} =>
              \A t, u \in TasksOf(c) : Live(t) /\ Live(u) => t = u

AccountsInv == \A n \in Nodes : available[n] + Held(n) = Capacity[n]

\* The inductive invariant.
TypeInv == RowsOK /\ EventsOK /\ ProcessesOK /\ LocksInv
SafeInv == StagedInv /\ TerminatedInv /\ JobsInv /\ AccountsInv
IInv    == TypeInv /\ (~disturbed => SafeInv)

-----------------------------------------------------------------------------
(* Sums of Limits. *)

\* The instance of SelectLimitsProofs has its own copies of the library's operators.
LEMMA SameOperators ==
    ASSUME NEW f, NEW S
    PROVE  /\ Limits!IsFiniteSet(S) = IsFiniteSet(S)
           /\ Limits!SumFunctionOnSet(f, S) = SumFunctionOnSet(f, S)
           /\ Limits!WidthAssumption /\ Limits!RequestsAssumption /\ Limits!LimitsAssumption
<1>1. Limits!IsFiniteSet(S) = IsFiniteSet(S)
    BY DEF Limits!IsFiniteSet, IsFiniteSet
<1>2. Limits!SumFunctionOnSet(f, S) = SumFunctionOnSet(f, S)
    BY DEF Limits!SumFunctionOnSet, SumFunctionOnSet, Limits!FoldFunctionOnSet, FoldFunctionOnSet,
           Limits!MapThenFoldSet, MapThenFoldSet
<1>3. Limits!WidthAssumption /\ Limits!RequestsAssumption /\ Limits!LimitsAssumption
    BY DEF Limits!WidthAssumption, Limits!RequestsAssumption, Limits!LimitsAssumption
<1>. QED
    BY <1>1, <1>2, <1>3

\* A sum over a finite set of natural numbers, and one of its members taken out.
LEMMA Sum ==
    ASSUME NEW f, NEW S, IsFiniteSet(S), \A x \in S : f[x] \in Nat
    PROVE  /\ SumFunctionOnSet(f, S) \in Nat
           /\ SumFunctionOnSet(f, {}) = 0
           /\ \A x \in S : SumFunctionOnSet(f, S) = f[x] + SumFunctionOnSet(f, S \ {x})
<1>1. SumFunctionOnSet(f, S) \in Nat
    BY SameOperators, Limits!SumType
<1>2. SumFunctionOnSet(f, {}) = 0
    BY SameOperators, Limits!SumEmpty
<1>3. \A x \in S : SumFunctionOnSet(f, S) = f[x] + SumFunctionOnSet(f, S \ {x})
    BY SameOperators, Limits!SumRemove
<1>. QED
    BY <1>1, <1>2, <1>3

\* There are finitely many Tasks, since MaxTasks bounds those of a Container.
LEMMA FiniteTasks == IsFiniteSet(TaskIds) /\ \A S \in SUBSET TaskIds : IsFiniteSet(S)
<1>1. IsFiniteSet(1 .. MaxTasks)
    BY BoundsAssumption, FS_Interval
<1>2. IsFiniteSet(TaskIds)
    BY <1>1, ContainersAssumption, FS_Product DEF TaskIds
<1>. QED
    BY <1>2, FS_Subset

\* The demand of a set of Containers, one of them taken out.
LEMMA DemandFacts ==
    ASSUME NEW S \in SUBSET Containers
    PROVE  /\ Demand(S) \in Nat
           /\ Demand({}) = 0
           /\ \A c \in S : Demand(S) = Limit[c] + Demand(S \ {c})
<1>1. IsFiniteSet(S)
    BY ContainersAssumption, FS_Subset
<1>2. \A c \in S : Limit[c] \in Nat
    BY LimitAssumption
<1>. QED
    BY <1>1, <1>2, Sum DEF Demand

\* A Container alone demands its Limit.
LEMMA DemandOfOne == ASSUME NEW c \in Containers PROVE Demand({c}) = Limit[c]
<1>1. Demand({c}) = Limit[c] + Demand({c} \ {c}) /\ Demand({}) = 0
    BY DemandFacts
<1>2. {c} \ {c} = {} /\ Limit[c] \in Nat
    BY LimitAssumption
<1>. QED
    BY <1>1, <1>2

\* The Limits of the Tasks of S.
LimitsOf(S) == SumFunctionOnSet([t \in TaskIds |-> Limit[t[1]]], S)

\* What the Tasks of S hold, one of them taken out.
LEMMA LimitsOfFacts ==
    ASSUME NEW S \in SUBSET TaskIds
    PROVE  /\ LimitsOf(S) \in Nat
           /\ \A t \in S : LimitsOf(S) = Limit[t[1]] + LimitsOf(S \ {t})
<1> DEFINE f == [t \in TaskIds |-> Limit[t[1]]]
<1>1. IsFiniteSet(S)
    BY FiniteTasks
<1>2. \A t \in S : f[t] = Limit[t[1]] /\ f[t] \in Nat
    BY LimitAssumption DEF TaskIds
<1>3. LimitsOf(S) = SumFunctionOnSet(f, S) /\ \A t \in S : LimitsOf(S \ {t}) = SumFunctionOnSet(f, S \ {t})
    BY DEF LimitsOf
<1>. HIDE DEF f
<1>. QED
    BY <1>1, <1>2, <1>3, Sum

\* Tasks added, one for each Container of S, add the demand of S.
LEMMA LimitsOfNewTasks ==
    ASSUME NEW H \in SUBSET TaskIds, NEW S \in SUBSET Containers, NEW f,
           \A c \in S : f[c] \in TaskIds \ H /\ f[c][1] = c
    PROVE  LimitsOf(H \cup {f[c] : c \in S}) = LimitsOf(H) + Demand(S)
<1> DEFINE T(U) == H \cup {f[c] : c \in U}
           B == {U \in SUBSET S : LimitsOf(T(U)) # LimitsOf(H) + Demand(U)}
<1>1. SUFFICES ASSUME B # {} PROVE FALSE
    OBVIOUS
<1>2. B \in SUBSET (SUBSET S)
    OBVIOUS
<1>3. PICK U \in B : \A V \in SUBSET U : V # U => V \notin B
  <2>1. IsFiniteSet(S)
    BY ContainersAssumption, FS_Subset
  <2>. HIDE DEF B
  <2>. QED
    BY <1>1, <1>2, <2>1, SameOperators, Limits!Minimal
<1>4. U \in SUBSET S /\ U \in SUBSET Containers /\ LimitsOf(T(U)) # LimitsOf(H) + Demand(U)
    BY <1>3
<1>5. U # {}
  <2>1. SUFFICES ASSUME U = {} PROVE FALSE
    OBVIOUS
  <2>2. T(U) = H
    BY <2>1
  <2>3. LimitsOf(H) \in Nat /\ Demand(U) = 0
    BY <2>1, LimitsOfFacts, DemandFacts
  <2>. QED
    BY <1>4, <2>2, <2>3
<1>6. PICK c \in U : TRUE
    BY <1>5
<1> DEFINE V == U \ {c}
<1>7. LimitsOf(T(V)) = LimitsOf(H) + Demand(V)
    BY <1>3, <1>4, <1>6
<1>8. T(U) \in SUBSET TaskIds /\ f[c] \in T(U) /\ T(U) \ {f[c]} = T(V) /\ f[c][1] = c
    BY <1>4, <1>6
<1>9. T(V) \in SUBSET TaskIds
    BY <1>4
<1>. HIDE DEF T
<1>10. LimitsOf(T(U)) = Limit[c] + LimitsOf(T(V))
  <2>1. \A t \in T(U) : LimitsOf(T(U)) = Limit[t[1]] + LimitsOf(T(U) \ {t})
    BY <1>8, LimitsOfFacts
  <2>. QED
    BY <1>8, <2>1
<1>11. Demand(U) = Limit[c] + Demand(V)
    BY <1>4, <1>6, DemandFacts
<1>12. LimitsOf(H) \in Nat /\ Limit[c] \in Nat /\ Demand(V) \in Nat
    BY <1>4, <1>6, LimitsOfFacts, DemandFacts, LimitAssumption
<1>. QED
    BY <1>4, <1>7, <1>10, <1>11, <1>12

-----------------------------------------------------------------------------
(* Types, event by event and transaction by transaction. *)

\* What the status of a Task says of its row.
LEMMA TaskFacts ==
    ASSUME RowsOK, NEW t \in TaskIds
    PROVE  /\ t[1] \in Containers
           /\ Live(t) => task[t] # NoTask
           /\ task[t].status \in Ended => task[t] # NoTask /\ ~Live(t)
           /\ task[t] # NoTask => /\ task[t].node \in Nodes
                                  /\ Live(t) \/ task[t].status \in Ended
                                  /\ \A s \in Ended : [task[t] EXCEPT !.status = s] = [status |-> s, node |-> task[t].node]
           /\ task[t] = NoTask => task[t].node \notin Nodes
<1>1. t[1] \in Containers
    BY DEF TaskIds
<1>2. task[t] \in TaskRows
    BY DEF RowsOK
<1>3. CASE task[t] = NoTask
    BY <1>1, <1>3, NoneAssumption DEF NoTask, Live, Ended
<1>4. CASE task[t] # NoTask
  <2>1. PICK s \in {"running"} \cup Ended, n \in Nodes : task[t] = [status |-> s, node |-> n]
    BY <1>2, <1>4 DEF TaskRows
  <2>. QED
    BY <1>1, <1>4, <2>1 DEF Live, Ended
<1>. QED
    BY <1>3, <1>4

\* A new event is about what it is sent for, and was not published before.
LEMMA EventFacts ==
    ASSUME EventsOK, NEW type \in {"pending", "online", "offline", "terminated"},
           NEW x \in Containers \cup Nodes \cup TaskIds
    PROVE  Event(type, x) \in Events /\ Event(type, x).type = type /\ Event(type, x).of = x
<1> DEFINE E == {e \in published : e.type = type /\ e.of = x}
<1>1. IsFiniteSet(E)
    BY FS_Subset DEF EventsOK
<1>2. Cardinality(E) \in Nat
    BY <1>1, FS_CardinalityType
<1>3. Event(type, x) = [type |-> type, of |-> x, nr |-> Cardinality(E) + 1]
    BY DEF Event
<1>. HIDE DEF E
<1>. QED
    BY <1>2, <1>3 DEF Events

\* The events of one statement are finitely many.
LEMMA EventsFinite ==
    ASSUME NEW S \in SUBSET TaskIds
    PROVE  IsFiniteSet({Event("terminated", t) : t \in S})
<1>1. IsFiniteSet(S)
    BY FiniteTasks
<1> DEFINE T == {Event("terminated", t) : t \in S}
           f == [t \in S |-> Event("terminated", t)]
<1>2. f \in Surjection(S, T)
    BY DEF Surjection
<1>. HIDE DEF f, T
<1>3. IsFiniteSet(T)
    BY <1>1, <1>2, FS_Surjection
<1>. QED
    BY <1>3 DEF T

\* A step that loads a struct.
LEMMA LoadType ==
    ASSUME TypeInv, NEW p \in Processes, NEW op, NEW e, NEW x, NEW seen, Load(p, op, e, x, seen),
           LoadedOK([op |-> op, event |-> e, of |-> x, seen |-> seen])
    PROVE  TypeInv'
<1>1. RowsOK' /\ EventsOK'
    BY DEF TypeInv, Load, RowsOK, EventsOK, OfItsKind, rows, events
<1>2. ProcessesOK'
  <2>1. /\ pc' \in [Processes -> {"idle", "loaded", "locked", "staged", "leaked"}]
        /\ DOMAIN struct' = Processes /\ DOMAIN tx' = Processes
        /\ disturbed' \in BOOLEAN /\ failures' \in 0 .. MaxFailures
    BY DEF TypeInv, Load, ProcessesOK
  <2>2. ASSUME NEW q \in Processes
        PROVE  ProcessOK(q)'
    <3>1. WritesOK(tx[q])'
      BY DEF TypeInv, ProcessesOK, ProcessOK, Load, WritesOK, rows, events
    <3>2. UNCHANGED <<rows, published, tx>> /\ pc[p] = "idle"
      BY DEF Load, events
    <3>3. \A s : LoadedOK(s) => LoadedOK(s)'
      BY <3>2 DEF LoadedOK, rows
    <3>4. CASE q = p
      <4>1. pc'[q] = "loaded" /\ struct'[q] = [op |-> op, event |-> e, of |-> x, seen |-> seen]
        BY <3>4 DEF TypeInv, ProcessesOK, Load
      <4>2. tx'[q] = NoTx
        BY <3>2, <3>4 DEF TypeInv, ProcessesOK, ProcessOK
      <4>. QED
        BY <3>1, <3>3, <4>1, <4>2 DEF ProcessOK
    <3>5. CASE q # p
      <4>1. pc'[q] = pc[q] /\ struct'[q] = struct[q] /\ tx'[q] = tx[q]
        BY <3>5 DEF TypeInv, ProcessesOK, Load
      <4>2. LoadedOK(struct[q]) => LoadedOK(struct[q])'
        BY <3>2, <4>1 DEF LoadedOK, rows
      <4>. QED
        BY <3>1, <4>1, <4>2 DEF TypeInv, ProcessesOK, ProcessOK
    <3>. QED
      BY <3>4, <3>5
  <2>. QED
    BY <2>1, <2>2 DEF ProcessesOK
<1>3. LocksInv'
    BY DEF TypeInv, Load, LocksInv
<1>. QED
    BY <1>1, <1>2, <1>3 DEF TypeInv

\* A process begins a transaction or goes on with it, locks its rows, and sends its
\* events.
Begins(p, w, sent) ==
    /\ pc[p] \in {"idle", "loaded", "locked"}
    /\ \E s \in {"locked", "staged", "leaked"} : pc' = [pc EXCEPT ![p] = s]
    /\ struct' = [struct EXCEPT ![p] = struct'[p]]
    /\ pc'[p] = "locked" => LoadedOK(struct'[p]) /\ struct'[p].op = "CancelTasks" /\ w = LockOf(struct'[p].of)
    /\ tx' = [tx EXCEPT ![p] = w]
    /\ published' = published \cup sent
    /\ UNCHANGED <<rows, processed, acked>>
    /\ failures' \in 0 .. MaxFailures /\ disturbed' \in BOOLEAN
    /\ WritesOK(w) /\ w # NoTx /\ Free(p, w.rows) /\ (w.event # None => FreeEvent(p, w.event))
    /\ IsFiniteSet(sent) /\ sent \subseteq Events /\ \A e \in sent : OfItsKind(e)

\* A step that begins a transaction keeps the types, the locks and the events apart.
LEMMA BeginsType ==
    ASSUME TypeInv, NEW p \in Processes, NEW w, NEW sent, Begins(p, w, sent)
    PROVE  TypeInv'
<1>1. RowsOK'
    BY DEF TypeInv, Begins, RowsOK, rows
<1>2. EventsOK'
  <2>1. IsFiniteSet(published')
    BY FS_Union DEF TypeInv, EventsOK, Begins
  <2>2. \A e \in published' : OfItsKind(e)'
    BY DEF TypeInv, EventsOK, Begins, OfItsKind, rows
  <2>. QED
    BY <2>1, <2>2 DEF TypeInv, EventsOK, Begins
<1>3. ProcessesOK'
  <2>1. /\ pc' \in [Processes -> {"idle", "loaded", "locked", "staged", "leaked"}]
        /\ DOMAIN struct' = Processes /\ DOMAIN tx' = Processes
        /\ disturbed' \in BOOLEAN /\ failures' \in 0 .. MaxFailures
    BY DEF TypeInv, Begins, ProcessesOK
  <2>2. ASSUME NEW q \in Processes
        PROVE  ProcessOK(q)'
    <3>1. CASE q = p
      <4>1. pc'[p] \in {"locked", "staged", "leaked"} /\ tx'[p] = w
        BY DEF TypeInv, ProcessesOK, Begins
      <4>2. WritesOK(w)' /\ (LoadedOK(struct'[p]) => LoadedOK(struct[p])')
        BY DEF Begins, WritesOK, LoadedOK, rows
      <4>. QED
        BY <3>1, <4>1, <4>2 DEF ProcessOK, Begins, WritesOK
    <3>2. CASE q # p
      <4>1. pc'[q] = pc[q] /\ struct'[q] = struct[q] /\ tx'[q] = tx[q]
        BY <3>2 DEF TypeInv, ProcessesOK, Begins
      <4>2. WritesOK(tx[q]) => WritesOK(tx[q])'
        BY <4>1 DEF WritesOK, Begins
      <4>3. LoadedOK(struct[q]) => LoadedOK(struct[q])'
        BY <4>1 DEF LoadedOK, Begins, rows
      <4>. QED
        BY <4>1, <4>2, <4>3 DEF TypeInv, ProcessesOK, ProcessOK
    <3>. QED
      BY <3>1, <3>2
  <2>. QED
    BY <2>1, <2>2 DEF ProcessesOK
<1>4. LocksInv'
  <2>1. ASSUME NEW q \in Processes, NEW s \in Processes, q # s
        PROVE  /\ tx'[q].rows \cap tx'[s].rows = {}
               /\ tx'[q].event # None => tx'[q].event # tx'[s].event
    <3>1. CASE q = p
      BY <2>1, <3>1 DEF TypeInv, ProcessesOK, Begins, Free, FreeEvent
    <3>2. CASE s = p
      BY <2>1, <3>2 DEF TypeInv, ProcessesOK, Begins, Free, FreeEvent
    <3>3. CASE q # p /\ s # p
      BY <2>1, <3>3 DEF TypeInv, ProcessesOK, Begins, LocksInv
    <3>. QED
      BY <3>1, <3>2, <3>3
  <2>. QED
    BY <2>1 DEF LocksInv
<1>. QED
    BY <1>1, <1>2, <1>3, <1>4 DEF TypeInv

\* A process gives up what it has loaded or written, with some of its events sent.
Leaves(p, sent) ==
    /\ Abandon(p)
    /\ published' = published \cup sent
    /\ failures' \in 0 .. MaxFailures /\ disturbed' \in BOOLEAN
    /\ disturbed => disturbed'
    /\ IsFiniteSet(sent) /\ sent \subseteq Events /\ \A e \in sent : OfItsKind(e)
    /\ ~disturbed' => ~EndsTask(p) /\ \A e \in sent : e.type # "terminated"

\* So does that.
LEMMA LeavesType ==
    ASSUME TypeInv, NEW p \in Processes, NEW sent, Leaves(p, sent)
    PROVE  TypeInv'
<1>1. RowsOK' /\ UNCHANGED <<rows, processed, acked>>
    BY DEF TypeInv, Leaves, Abandon, RowsOK, rows
<1>2. EventsOK'
  <2>1. IsFiniteSet(published')
    BY FS_Union DEF TypeInv, EventsOK, Leaves
  <2>2. \A e \in published' : OfItsKind(e)'
    BY <1>1 DEF TypeInv, EventsOK, Leaves, OfItsKind, rows
  <2>. QED
    BY <1>1, <2>1, <2>2 DEF TypeInv, EventsOK, Leaves
<1>3. /\ DOMAIN pc = Processes /\ DOMAIN struct = Processes /\ DOMAIN tx = Processes
      /\ tx'[p] = NoTx /\ pc'[p] = "idle"
    BY DEF TypeInv, ProcessesOK, Leaves, Abandon
<1>4. \A q \in Processes \ {p} : pc'[q] = pc[q] /\ struct'[q] = struct[q] /\ tx'[q] = tx[q]
    BY <1>3 DEF Leaves, Abandon
<1>5. ProcessesOK'
  <2>1. /\ pc' \in [Processes -> {"idle", "loaded", "locked", "staged", "leaked"}]
        /\ DOMAIN struct' = Processes /\ DOMAIN tx' = Processes
        /\ disturbed' \in BOOLEAN /\ failures' \in 0 .. MaxFailures
    BY DEF TypeInv, Leaves, Abandon, ProcessesOK
  <2>2. ASSUME NEW q \in Processes
        PROVE  ProcessOK(q)'
    <3>1. CASE q = p
      BY <1>3, <3>1 DEF ProcessOK, WritesOK, NoTx, Empty
    <3>2. CASE q # p
      <4>1. pc'[q] = pc[q] /\ struct'[q] = struct[q] /\ tx'[q] = tx[q] /\ published \subseteq published'
        BY <1>4, <3>2 DEF Leaves
      <4>2. WritesOK(tx[q]) => WritesOK(tx[q])'
        BY <1>1, <4>1 DEF WritesOK
      <4>3. LoadedOK(struct[q]) => LoadedOK(struct[q])'
        BY <1>1, <4>1 DEF LoadedOK, rows
      <4>. QED
        BY <4>1, <4>2, <4>3 DEF TypeInv, ProcessesOK, ProcessOK
    <3>. QED
      BY <3>1, <3>2
  <2>. QED
    BY <2>1, <2>2 DEF ProcessesOK
<1>6. LocksInv'
  <2>1. tx'[p].rows = {} /\ tx'[p].event = None
    BY <1>3 DEF NoTx
  <2>. QED
    BY <1>4, <2>1 DEF TypeInv, LocksInv
<1>. QED
    BY <1>1, <1>2, <1>5, <1>6 DEF TypeInv

\* Send fails: any part of the events may be out.
LEMMA SendFailsLeaves ==
    ASSUME TypeInv, NEW p \in Processes, pc[p] \in {"idle", "loaded", "locked"}, NEW sent, SendFails(p, sent),
           IsFiniteSet(sent), sent \subseteq Events, \A e \in sent : OfItsKind(e)
    PROVE  \E out : Leaves(p, out)
<1>1. PICK out \in SUBSET sent :
        /\ published' = published \cup out
        /\ disturbed' = (disturbed \/ \E e \in out : e.type = "terminated")
    BY DEF SendFails
<1>2. Abandon(p) /\ failures < MaxFailures /\ failures' = failures + 1
    BY DEF SendFails, Failure
<1>3. failures' \in 0 .. MaxFailures /\ disturbed' \in BOOLEAN
    BY <1>1, <1>2, BoundsAssumption DEF TypeInv, ProcessesOK
<1>4. ~EndsTask(p)
  <2>1. tx[p].task = Empty
    BY DEF TypeInv, ProcessesOK, ProcessOK, LockOf, NoTx
  <2>. QED
    BY <2>1 DEF EndsTask, Empty
<1>5. IsFiniteSet(out)
    BY FS_Subset
<1>. QED
    BY <1>1, <1>2, <1>3, <1>4, <1>5 DEF Leaves

\* A step of the environment: no process and no transaction takes part.
LEMMA OutsideType ==
    ASSUME TypeInv, NEW sent, published' = published \cup sent,
           UNCHANGED <<processed, local>>, disturbed' \in BOOLEAN, failures' \in 0 .. MaxFailures,
           acked \subseteq acked' /\ acked' \subseteq published',
           RowsOK', \A t \in TaskIds : task[t] # NoTask => task'[t] # NoTask,
           IsFiniteSet(sent), sent \subseteq Events, \A e \in sent : OfItsKind(e)'
    PROVE  TypeInv'
<1>1. EventsOK'
  <2>1. IsFiniteSet(published')
    BY FS_Union DEF TypeInv, EventsOK
  <2>2. \A e \in published' : OfItsKind(e)'
    BY DEF TypeInv, EventsOK, OfItsKind
  <2>. QED
    BY <2>1, <2>2 DEF TypeInv, EventsOK
<1>2. ProcessesOK'
  <2>1. \A p \in Processes : LoadedOK(struct[p]) => LoadedOK(struct[p])'
    BY DEF LoadedOK, local
  <2>2. \A p \in Processes : WritesOK(tx[p]) => WritesOK(tx[p])'
    BY DEF WritesOK, local
  <2>3. \A p \in Processes : ProcessOK(p)'
    BY <2>1, <2>2 DEF TypeInv, ProcessesOK, ProcessOK, local
  <2>. QED
    BY <2>3 DEF TypeInv, ProcessesOK, local
<1>3. LocksInv'
    BY DEF TypeInv, LocksInv, local
<1>. QED
    BY <1>1, <1>2, <1>3 DEF TypeInv

\* The Task that a Job gets when it is scheduled.
LEMMA NewTaskFacts ==
    ASSUME NEW c \in Containers, NewTasks(c) # {}
    PROVE  NewTask(c) \in TaskIds /\ NewTask(c)[1] = c /\ task[NewTask(c)] = NoTask
<1>1. NewTask(c) \in NewTasks(c)
    BY DEF NewTask
<1>. QED
    BY <1>1 DEF NewTasks, TaskIds

\* What Schedule stages.
LEMMA ScheduleWrites ==
    ASSUME RowsOK, NEW S \in SUBSET Containers, S # {}, NEW n \in Nodes, NEW locked, NEW e,
           NEW resources \in Nat, CanSchedule(S), Demand(S) <= resources,
           S \cup {n} \subseteq locked, e \in published \ processed
    PROVE  LET w == Schedule(locked, e, S, n, resources)
           IN  /\ WritesOK(w) /\ w.rows = locked /\ w.event = e /\ w.job = [c \in S |-> "SCHEDULED"]
               /\ \A c \in S : \E t \in DOMAIN w.task : t[1] = c /\ \A u \in DOMAIN w.task : u[1] = c => u = t
               /\ \A t \in DOMAIN w.task : /\ t[1] \in S /\ task[t] = NoTask
                                           /\ w.task[t] = [status |-> "running", node |-> n]
               /\ w.available = One(n, resources - Demand(S))
<1> DEFINE w == Schedule(locked, e, S, n, resources)
           T == {NewTask(c) : c \in S}
<1>1. \A c \in S : NewTask(c) \in TaskIds /\ NewTask(c)[1] = c /\ task[NewTask(c)] = NoTask
    BY NewTaskFacts DEF CanSchedule
<1>2. /\ w.rows = locked /\ w.event = e /\ w.job = [c \in S |-> "SCHEDULED"]
      /\ w.task = [t \in T |-> [status |-> "running", node |-> n]]
      /\ w.available = One(n, resources - Demand(S))
    BY DEF Schedule
<1>. HIDE DEF w
<1>3. \A t \in T : t \in TaskIds /\ t[1] \in S /\ task[t] = NoTask
    BY <1>1
<1>4. \A c \in S : \E t \in T : t[1] = c /\ \A u \in T : u[1] = c => u = t
    BY <1>1
<1>5. DOMAIN w.task = T
    BY <1>2
<1>6. resources - Demand(S) \in Nat
    BY DemandFacts
<1>7. [status |-> "running", node |-> n] \in TaskRows \ {NoTask}
    BY DEF TaskRows, NoTask
<1>8. WritesOK(w)
  <2>1. DOMAIN w.job \subseteq Containers \cap w.rows /\ \A c \in DOMAIN w.job : w.job[c] \in JobStatus
    BY <1>2 DEF JobStatus
  <2>2. DOMAIN w.task \subseteq TaskIds /\ \A t \in DOMAIN w.task : w.task[t] \in TaskRows \ {NoTask}
    BY <1>2, <1>3, <1>5, <1>7
  <2>3. DOMAIN w.available \subseteq Nodes \cap w.rows /\ \A m \in DOMAIN w.available : w.available[m] \in Nat
    BY <1>2, <1>6 DEF One
  <2>. QED
    BY <1>2, <2>1, <2>2, <2>3 DEF WritesOK
<1>. QED
    BY <1>2, <1>3, <1>4, <1>5, <1>8 DEF w

\* What End stages.
LEMMA EndWrites ==
    ASSUME RowsOK, NEW S \in SUBSET TaskIds, \A t \in S : task[t] # NoTask, NEW status \in Ended,
           NEW locked, NEW e, e = None \/ e \in published \ processed
    PROVE  LET w == End(locked, e, S, status)
           IN  /\ WritesOK(w) /\ w.rows = locked /\ w.event = e /\ w.job = Empty /\ w.available = Empty
               /\ w.task = [t \in S |-> [status |-> status, node |-> task[t].node]]
<1> DEFINE w == End(locked, e, S, status)
<1>1. \A t \in S : [task[t] EXCEPT !.status = status] = [status |-> status, node |-> task[t].node]
    BY TaskFacts
<1>2. /\ w.rows = locked /\ w.event = e /\ w.job = Empty /\ w.available = Empty
      /\ w.task = [t \in S |-> [task[t] EXCEPT !.status = status]]
    BY DEF End, NoTx
<1>3. w.task = [t \in S |-> [status |-> status, node |-> task[t].node]]
    BY <1>1, <1>2
<1>. HIDE DEF w
<1>4. \A t \in S : [status |-> status, node |-> task[t].node] \in TaskRows \ {NoTask}
    BY TaskFacts DEF TaskRows, NoTask, Ended
<1>5. WritesOK(w)
    BY <1>2, <1>3, <1>4 DEF WritesOK, Empty
<1>. QED
    BY <1>2, <1>3, <1>5 DEF w

\* What TaskTerminated stages.
LEMMA ReturnWrites ==
    ASSUME NEW c \in Containers, NEW n \in Nodes, NEW e \in published \ processed, NEW next \in JobStatus, NEW w,
           w = [rows |-> {c, n}, event |-> e, job |-> One(c, next), task |-> Empty, available |-> One(n, 0 + Limit[c])]
    PROVE  /\ WritesOK(w) /\ w.rows = {c, n} /\ w.event = e /\ w.job = One(c, next)
           /\ w.task = Empty /\ w.available = One(n, Limit[c])
<1>1. Limit[c] \in Nat /\ 0 + Limit[c] = Limit[c]
    BY LimitAssumption
<1>2. w.rows = {c, n} /\ w.event = e /\ w.job = One(c, next) /\ w.task = Empty /\ w.available = One(n, Limit[c])
    BY <1>1
<1>. QED
    BY <1>1, <1>2 DEF WritesOK, One, Empty

-----------------------------------------------------------------------------
(* Every handler and RPC that begins a transaction stages writes of one of the three *)
(* kinds, unless it overtakes, and sends one terminated event for each Task it ends. *)

\* A transaction sends one terminated event for each Task that it ends, and no other.
Announced(w, sent) ==
    /\ \A e \in sent : e.type = "terminated" => e.of \in DOMAIN w.task /\ w.task[e.of].status \in Ended
    /\ \A e, f \in sent : e.type = "terminated" /\ f.type = "terminated" /\ e.of = f.of => e = f
    /\ \A t \in DOMAIN w.task : w.task[t].status \in Ended => \E e \in sent : e.type = "terminated" /\ e.of = t

\* What all steps that begin a transaction have in common.
SafelyBegins(p, w, sent) ==
    /\ Begins(p, w, sent)
    /\ disturbed => disturbed'
    /\ SafeInv /\ ~disturbed' => (Schedules(w) \/ Ends(w) \/ Returns(w)) /\ Announced(w, sent)

\* Or it does not come to that, because Send fails.
Proceeds(p) == (\E w, sent : SafelyBegins(p, w, sent)) \/ \E sent : Leaves(p, sent)

\* A published event is not the None of a transaction without an event.
LEMMA NoEventIsNone == ASSUME TypeInv, NEW e \in published PROVE e # None
BY NoneAssumption DEF TypeInv, EventsOK

\* The statements of a transaction, whether they overtake or not.
Starts(p, w, sent) ==
    /\ pc' = [pc EXCEPT ![p] = "staged"]
    /\ struct' = [struct EXCEPT ![p] = NoStruct]
    /\ tx' = [tx EXCEPT ![p] = w]
    /\ published' = published \cup sent
    /\ UNCHANGED <<rows, processed, acked, failures>>

LEMMA StartsBegins ==
    ASSUME TypeInv, NEW p \in Processes, NEW w, NEW sent, Starts(p, w, sent), pc[p] \in {"idle", "loaded", "locked"},
           failures' \in 0 .. MaxFailures, disturbed' \in BOOLEAN,
           WritesOK(w), w # NoTx, Free(p, w.rows), w.event # None => FreeEvent(p, w.event),
           IsFiniteSet(sent), sent \subseteq Events, \A e \in sent : OfItsKind(e)
    PROVE  Begins(p, w, sent)
<1>1. pc'[p] = "staged" /\ struct' = [struct EXCEPT ![p] = struct'[p]]
    BY DEF Starts, TypeInv, ProcessesOK
<1>. QED
    BY <1>1 DEF Starts, Begins

\* JobUpdated schedules its Job on a Node with the resources, in one transaction.
LEMMA JobUpdatedBegins ==
    ASSUME TypeInv, NEW p \in Processes, NEW e \in Deliverable("pending"), JobUpdated(p, e)
    PROVE  Proceeds(p)
<1> DEFINE c == e.of
           locked == {c} \cup {m \in Nodes : online[m]}
<1>1. PICK n \in Nodes : /\ online[n] /\ job[c] = "PENDING" /\ Limit[c] <= available[n] /\ CanSchedule({c})
                         /\ Publish(p, Schedule(locked, e, {c}, n, available[n]), {}, FALSE)
                         /\ pc[p] = "idle"
    BY DEF JobUpdated
<1>s. CASE SendFails(p, {})
    BY <1>1, <1>s, FS_EmptySet, SendFailsLeaves DEF Proceeds
<1>. SUFFICES ASSUME Stage(p, Schedule(locked, e, {c}, n, available[n]), {}, FALSE) PROVE Proceeds(p)
    BY <1>1, <1>s DEF Publish
<1> DEFINE S == {c}
           resources == available[n]
           w == Schedule(locked, e, S, n, resources)
<1>2. e \in published \ processed /\ e.type = "pending" /\ c \in Containers /\ e # None
    BY NoEventIsNone DEF TypeInv, EventsOK, OfItsKind, Deliverable, JobUpdated, FreeEvent
<1>3. RowsOK /\ available[n] \in Nat /\ Demand({c}) <= available[n] /\ Demand({c}) = Limit[c]
    BY <1>1, <1>2, DemandOfOne DEF TypeInv, RowsOK
<1>4. {c} \in SUBSET Containers /\ {c} # {} /\ {c} \cup {n} \subseteq locked
    BY <1>1, <1>2
<1>5. /\ WritesOK(w) /\ w.rows = locked /\ w.event = e /\ w.job = [d \in {c} |-> "SCHEDULED"]
      /\ \A d \in {c} : \E t \in DOMAIN w.task : t[1] = d /\ \A u \in DOMAIN w.task : u[1] = d => u = t
      /\ \A t \in DOMAIN w.task : /\ t[1] \in {c} /\ task[t] = NoTask
                                  /\ w.task[t] = [status |-> "running", node |-> n]
      /\ w.available = One(n, available[n] - Demand({c}))
  <2>1. /\ resources \in Nat /\ Demand(S) <= resources /\ CanSchedule(S)
        /\ S \in SUBSET Containers /\ S # {} /\ S \cup {n} \subseteq locked
    BY <1>1, <1>3, <1>4
  <2>. HIDE DEF locked, c, resources, S
  <2>2. /\ WritesOK(w) /\ w.rows = locked /\ w.event = e /\ w.job = [d \in S |-> "SCHEDULED"]
        /\ \A d \in S : \E t \in DOMAIN w.task : t[1] = d /\ \A u \in DOMAIN w.task : u[1] = d => u = t
        /\ \A t \in DOMAIN w.task : /\ t[1] \in S /\ task[t] = NoTask
                                    /\ w.task[t] = [status |-> "running", node |-> n]
        /\ w.available = One(n, resources - Demand(S))
    BY <1>2, <1>3, <2>1, ScheduleWrites
  <2>. QED
    BY <2>2 DEF resources, S
<1>6. Stage(p, w, {}, FALSE)
    OBVIOUS
<1>7. Free(p, locked) /\ FreeEvent(p, e) /\ pc[p] = "idle" /\ disturbed' = disturbed
    BY DEF JobUpdated, Stage, TypeInv, ProcessesOK
<1>. HIDE DEF w, locked
<1>8. Begins(p, w, {})
  <2>1. w # NoTx
    BY <1>2, <1>5 DEF NoTx
  <2>2. failures' \in 0 .. MaxFailures /\ disturbed' \in BOOLEAN /\ Starts(p, w, {})
    BY <1>6, <1>7 DEF TypeInv, ProcessesOK, Stage, Starts
  <2>. QED
    BY <1>5, <1>7, <2>1, <2>2, FS_EmptySet, StartsBegins
<1>9. Schedules(w)
    BY <1>1, <1>2, <1>3, <1>5 DEF Schedules
<1>10. Announced(w, {})
    BY <1>5 DEF Announced, Ended
<1>. QED
    BY <1>7, <1>8, <1>9, <1>10 DEF SafelyBegins, Proceeds

\* NodeUpdated schedules pending Jobs that fit, or overtakes an UPDATE of the Node.
LEMMA NodeUpdatedBegins ==
    ASSUME TypeInv, NEW p \in Processes, NodeUpdated(p)
    PROVE  Proceeds(p)
<1> DEFINE e == struct[p].event
           n == struct[p].of
           resources == struct[p].seen
           pending == {c \in Containers : job[c] = "PENDING"}
           locked(S) == pending \cup (IF S = {} THEN {} ELSE {n})
<1>1. PICK S \in SUBSET pending :
         /\ Demand(S) <= resources /\ CanSchedule(S) /\ Free(p, locked(S))
         /\ Publish(p, Schedule(locked(S), e, S, n, resources), {}, S # {} /\ available[n] # resources)
         /\ pc[p] = "loaded"
    BY DEF NodeUpdated
<1>s. CASE SendFails(p, {})
    BY <1>1, <1>s, FS_EmptySet, SendFailsLeaves DEF Proceeds
<1>. SUFFICES ASSUME Stage(p, Schedule(locked(S), e, S, n, resources), {}, S # {} /\ available[n] # resources)
              PROVE  Proceeds(p)
    BY <1>1, <1>s DEF Publish
<1>t. /\ Starts(p, Schedule(locked(S), e, S, n, resources), {})
      /\ disturbed' = (disturbed \/ (S # {} /\ available[n] # resources))
    BY DEF Stage, Starts
<1> DEFINE w == Schedule(locked(S), e, S, n, resources)
<1>2. /\ pc[p] = "loaded" /\ FreeEvent(p, e)
      /\ e \in published \ processed /\ e.type = "online" /\ n \in Nodes /\ resources \in Nat /\ e # None
  <2>1. LoadedOK(struct[p]) /\ struct[p].op = "NodeUpdated" /\ FreeEvent(p, e) /\ pc[p] = "loaded"
    BY DEF NodeUpdated, TypeInv, ProcessesOK, ProcessOK
  <2>. QED
    BY <2>1, NoEventIsNone DEF LoadedOK, FreeEvent
<1>3. RowsOK /\ S \in SUBSET Containers
    BY DEF TypeInv
<1>4. failures' \in 0 .. MaxFailures /\ disturbed' \in BOOLEAN
    BY <1>t DEF TypeInv, ProcessesOK, Starts
<1>5. CASE S = {}
  <2>1. /\ w.rows = locked(S) /\ w.event = e /\ DOMAIN w.job = {} /\ DOMAIN w.task = {} /\ w.available = Empty
    BY <1>5 DEF Schedule
  <2>2. Starts(p, w, {})
    BY <1>t
  <2>. HIDE DEF w, locked
  <2>3. WritesOK(w) /\ w # NoTx
    BY <1>2, <2>1 DEF WritesOK, Empty, NoTx
  <2>4. Begins(p, w, {})
    BY <1>1, <1>2, <1>4, <2>1, <2>2, <2>3, FS_EmptySet, StartsBegins
  <2>5. Ends(w) /\ Announced(w, {})
    BY <1>2, <2>1 DEF Ends, Announced
  <2>. QED
    BY <1>t, <2>4, <2>5 DEF SafelyBegins, Proceeds
<1>6. CASE S # {}
  <2>1. S \cup {n} \subseteq locked(S)
    BY <1>6
  <2>2. /\ WritesOK(w) /\ w.rows = locked(S) /\ w.event = e /\ w.job = [c \in S |-> "SCHEDULED"]
        /\ \A c \in S : \E t \in DOMAIN w.task : t[1] = c /\ \A u \in DOMAIN w.task : u[1] = c => u = t
        /\ \A t \in DOMAIN w.task : /\ t[1] \in S /\ task[t] = NoTask
                                    /\ w.task[t] = [status |-> "running", node |-> n]
        /\ w.available = One(n, resources - Demand(S))
    <3>. HIDE DEF locked, pending, n, e, resources
    <3>. QED
      BY <1>1, <1>2, <1>3, <1>6, <2>1, ScheduleWrites
  <2>3. Starts(p, w, {})
    BY <1>t
  <2>4. \A c \in S : job[c] = "PENDING"
    OBVIOUS
  <2>. HIDE DEF w, locked, pending, n, e, resources
  <2>5. w # NoTx
    BY <1>2, <2>2 DEF NoTx
  <2>6. Begins(p, w, {})
    BY <1>1, <1>2, <1>4, <2>2, <2>3, <2>5, FS_EmptySet, StartsBegins
  <2>7. ~disturbed' => Schedules(w)
    <3>1. SUFFICES ASSUME ~disturbed' PROVE Schedules(w)
      OBVIOUS
    <3>2. available[n] = resources
      BY <1>t, <1>6, <3>1
    <3>3. DOMAIN w.job = S /\ \A c \in S : w.job[c] = "SCHEDULED"
      BY <2>2
    <3>. QED
      BY <1>1, <1>2, <1>6, <2>2, <2>4, <3>2, <3>3 DEF Schedules
  <2>8. Announced(w, {})
    BY <2>2 DEF Announced, Ended
  <2>. QED
    BY <1>t, <2>6, <2>7, <2>8 DEF SafelyBegins, Proceeds
<1>. QED
    BY <1>5, <1>6

\* The terminated events of the Tasks of S.
LEMMA EndsAnnounced ==
    ASSUME TypeInv, NEW S \in SUBSET TaskIds, \A t \in S : task[t] # NoTask,
           NEW w, DOMAIN w.task = S, \A t \in S : w.task[t].status \in Ended,
           NEW sent, sent = {Event("terminated", t) : t \in S}
    PROVE  /\ IsFiniteSet(sent) /\ sent \subseteq Events /\ \A e \in sent : OfItsKind(e)
           /\ Announced(w, sent)
<1>1. IsFiniteSet(sent)
    BY EventsFinite
<1>2. \A t \in S : /\ Event("terminated", t) \in Events
                   /\ Event("terminated", t).type = "terminated" /\ Event("terminated", t).of = t
    BY EventFacts DEF TypeInv
<1>3. sent \subseteq Events /\ \A e \in sent : OfItsKind(e)
    BY <1>2 DEF OfItsKind
<1>4. \A e \in sent : e.of \in S /\ e = Event("terminated", e.of)
    BY <1>2
<1>5. \A t \in S : \E e \in sent : e.type = "terminated" /\ e.of = t
    BY <1>2
<1>6. Announced(w, sent)
    BY <1>4, <1>5 DEF Announced
<1>. QED
    BY <1>1, <1>3, <1>6

\* NodeDisconnected ends the Tasks that run on its Node.
LEMMA NodeDisconnectedBegins ==
    ASSUME TypeInv, NEW p \in Processes, NEW e \in Deliverable("offline"), NodeDisconnected(p, e)
    PROVE  Proceeds(p)
<1> DEFINE lost == {t \in TaskIds : Live(t) /\ task[t].node = e.of}
           w == End(lost, e, lost, "failed")
           sent == {Event("terminated", t) : t \in lost}
<1>1. /\ pc[p] = "idle" /\ FreeEvent(p, e) /\ Free(p, lost)
      /\ Publish(p, w, sent, FALSE)
    BY DEF NodeDisconnected
<1>2. e \in published \ processed /\ e.type = "offline" /\ e # None
    BY <1>1, NoEventIsNone DEF TypeInv, EventsOK, Deliverable, FreeEvent
<1>3. RowsOK /\ lost \in SUBSET TaskIds /\ \A t \in lost : Live(t) /\ task[t] # NoTask
    BY TaskFacts DEF TypeInv
<1>. HIDE DEF lost
<1>4. /\ WritesOK(w) /\ w.rows = lost /\ w.event = e /\ w.job = Empty /\ w.available = Empty
      /\ w.task = [t \in lost |-> [status |-> "failed", node |-> task[t].node]]
    BY <1>2, <1>3, EndWrites DEF Ended
<1>. HIDE DEF w
<1>5. /\ IsFiniteSet(sent) /\ sent \subseteq Events /\ \A f \in sent : OfItsKind(f)
      /\ Announced(w, sent)
  <2>1. DOMAIN w.task = lost /\ \A t \in lost : w.task[t].status \in Ended
    BY <1>4 DEF Ended
  <2>. QED
    BY <1>3, <2>1, EndsAnnounced
<1>. HIDE DEF sent
<1>s. CASE SendFails(p, sent)
    BY <1>1, <1>5, <1>s, SendFailsLeaves DEF Proceeds
<1>. SUFFICES ASSUME Stage(p, w, sent, FALSE) PROVE Proceeds(p)
    BY <1>1, <1>s DEF Publish
<1>t. Starts(p, w, sent) /\ disturbed' = disturbed
    BY DEF Stage, Starts, TypeInv, ProcessesOK
<1>6. Begins(p, w, sent)
  <2>1. w # NoTx
    BY <1>2, <1>4 DEF NoTx
  <2>2. failures' \in 0 .. MaxFailures /\ disturbed' \in BOOLEAN
    BY <1>t DEF TypeInv, ProcessesOK, Starts
  <2>. QED
    BY <1>1, <1>t, <1>4, <1>5, <2>1, <2>2, StartsBegins
<1>7. Ends(w)
    BY <1>2, <1>3, <1>4 DEF Ends, Empty, Ended
<1>. QED
    BY <1>t, <1>5, <1>6, <1>7 DEF SafelyBegins, Proceeds

\* CancelTask ends a Task that runs, or overtakes its end.
LEMMA CancelTaskBegins ==
    ASSUME TypeInv, NEW p \in Processes, CancelTask(p)
    PROVE  Proceeds(p)
<1> DEFINE t == struct[p].of
           w == End({t}, None, {t}, "cancelled")
           sent == {Event("terminated", u) : u \in {t}}
<1>1. /\ pc[p] = "loaded" /\ Free(p, {t})
      /\ Publish(p, w, sent, task[t] # struct[p].seen)
  <2>1. sent = {Event("terminated", t)}
    OBVIOUS
  <2>. HIDE DEF sent
  <2>. QED
    BY <2>1 DEF CancelTask
<1>2. LoadedOK(struct[p]) /\ struct[p].op = "CancelTask"
    BY DEF CancelTask, TypeInv, ProcessesOK, ProcessOK
<1>3. RowsOK /\ t \in TaskIds /\ task[t] # NoTask /\ struct[p].seen.status = "running"
    BY <1>2 DEF TypeInv, LoadedOK
<1> DEFINE seen == struct[p].seen
<1>. HIDE DEF t, seen
<1>5. /\ WritesOK(w) /\ w.rows = {t} /\ w.event = None /\ w.job = Empty /\ w.available = Empty
      /\ w.task = [u \in {t} |-> [status |-> "cancelled", node |-> task[u].node]]
    BY <1>3, EndWrites DEF Ended
<1>. HIDE DEF w
<1>6. /\ IsFiniteSet(sent) /\ sent \subseteq Events /\ \A f \in sent : OfItsKind(f)
      /\ Announced(w, sent)
  <2>1. DOMAIN w.task = {t} /\ \A u \in {t} : w.task[u].status \in Ended
    BY <1>5 DEF Ended
  <2>2. {t} \in SUBSET TaskIds /\ \A u \in {t} : task[u] # NoTask
    BY <1>3
  <2>. QED
    BY <2>1, <2>2, EndsAnnounced
<1>. HIDE DEF sent
<1>s. CASE SendFails(p, sent)
    BY <1>1, <1>6, <1>s, SendFailsLeaves DEF Proceeds
<1>. SUFFICES ASSUME Stage(p, w, sent, task[t] # struct[p].seen) PROVE Proceeds(p)
    BY <1>1, <1>s DEF Publish
<1>t. Starts(p, w, sent) /\ disturbed' = (disturbed \/ task[t] # struct[p].seen)
    BY DEF Stage, Starts
<1>4. ~disturbed' => Live(t)
    BY <1>3, <1>t DEF Live
<1>7. Begins(p, w, sent)
  <2>1. w # NoTx
    BY <1>5 DEF NoTx
  <2>2. failures' \in 0 .. MaxFailures /\ disturbed' \in BOOLEAN
    BY <1>t DEF TypeInv, ProcessesOK, Starts
  <2>. QED
    BY <1>1, <1>t, <1>5, <1>6, <2>1, <2>2, StartsBegins
<1>8. ~disturbed' => Ends(w)
    BY <1>4, <1>5 DEF Ends, Empty, Ended
<1>. QED
    BY <1>t, <1>6, <1>7, <1>8 DEF SafelyBegins, Proceeds

\* CancelJob ends the Tasks it has seen, unless one of them has ended meanwhile.
LEMMA CancelJobBegins ==
    ASSUME TypeInv, NEW p \in Processes, CancelJob(p)
    PROVE  Proceeds(p)
<1> DEFINE c == struct[p].of
           live == struct[p].seen
           locked == {c} \cup live
           v == End(locked, None, live, "cancelled")
           w == [v EXCEPT !.job = One(c, "CANCELLED")]
           sent == {Event("terminated", t) : t \in live}
<1>1. /\ pc[p] = "locked" /\ Free(p, locked)
      /\ Publish(p, w, sent, \E t \in live : ~Live(t))
    BY DEF CancelJob
<1>2. LoadedOK(struct[p]) /\ struct[p].op = "CancelTasks"
    BY <1>1 DEF TypeInv, ProcessesOK, ProcessOK
<1>3. /\ RowsOK /\ c \in Containers /\ live \in SUBSET TaskIds /\ \A t \in live : task[t] # NoTask
      /\ c \in locked /\ live \subseteq locked
    BY <1>2 DEF TypeInv, LoadedOK
<1>. HIDE DEF live, c, locked
<1>4. /\ WritesOK(v) /\ v.rows = locked /\ v.event = None /\ v.job = Empty /\ v.available = Empty
      /\ v.task = [t \in live |-> [status |-> "cancelled", node |-> task[t].node]]
    BY <1>3, EndWrites DEF Ended
<1>5. /\ w.rows = locked /\ w.event = None /\ w.job = One(c, "CANCELLED") /\ w.available = Empty
      /\ w.task = [t \in live |-> [status |-> "cancelled", node |-> task[t].node]]
    BY <1>4 DEF End, NoTx
<1>6. WritesOK(w)
    BY <1>3, <1>4, <1>5 DEF WritesOK, One, JobStatus
<1>. HIDE DEF w, v
<1>7. /\ IsFiniteSet(sent) /\ sent \subseteq Events /\ \A f \in sent : OfItsKind(f)
      /\ Announced(w, sent)
  <2>1. DOMAIN w.task = live /\ \A t \in live : w.task[t].status \in Ended
    BY <1>5 DEF Ended
  <2>. QED
    BY <1>3, <2>1, EndsAnnounced
<1>. HIDE DEF sent
<1>s. CASE SendFails(p, sent)
    BY <1>1, <1>7, <1>s, SendFailsLeaves DEF Proceeds
<1>. SUFFICES ASSUME Stage(p, w, sent, \E t \in live : ~Live(t)) PROVE Proceeds(p)
    BY <1>1, <1>s DEF Publish
<1>t. Starts(p, w, sent) /\ disturbed' = (disturbed \/ \E t \in live : ~Live(t))
    BY DEF Stage, Starts
<1>8. Begins(p, w, sent)
  <2>1. w # NoTx
    BY <1>3, <1>5 DEF NoTx
  <2>2. failures' \in 0 .. MaxFailures /\ disturbed' \in BOOLEAN
    BY <1>t DEF TypeInv, ProcessesOK, Starts
  <2>. QED
    BY <1>1, <1>t, <1>5, <1>6, <1>7, <2>1, <2>2, StartsBegins
<1>9. ~disturbed' => Ends(w)
  <2>1. SUFFICES ASSUME ~disturbed' PROVE Ends(w)
    OBVIOUS
  <2>2. \A t \in live : Live(t)
    BY <1>t, <2>1
  <2>. QED
    BY <2>2, <1>3, <1>5 DEF Ends, One, Ended
<1>. QED
    BY <1>t, <1>7, <1>8, <1>9 DEF SafelyBegins, Proceeds

\* The transaction that has locked the Job to cancel has written nothing yet.
LEMMA LockBegins ==
    ASSUME TypeInv, NEW p \in Processes, LoadTasks(p) \/ LoadTasksFails(p)
    PROVE  SafelyBegins(p, LockOf(struct[p].of), {})
<1> DEFINE c == struct[p].of
           w == LockOf(c)
<1>1. w.rows = {c} /\ w.event = None /\ w.job = Empty /\ w.task = Empty /\ w.available = Empty
    BY DEF LockOf, NoTx
<1>2. /\ pc[p] = "loaded" /\ Free(p, {c}) /\ struct[p].op = "CancelJob"
      /\ tx' = [tx EXCEPT ![p] = w] /\ UNCHANGED <<rows, events>>
    BY DEF LoadTasks, LoadTasksFails, CancelJobRow, LockOf
<1>3. c \in Containers
    BY <1>2 DEF TypeInv, ProcessesOK, ProcessOK, LoadedOK
<1>4. WritesOK(w) /\ w # NoTx
  <2>1. NoTx.rows = {}
    BY DEF NoTx
  <2>. HIDE DEF w, c
  <2>. QED
    BY <1>1, <2>1 DEF WritesOK, Empty
<1>5. Ends(w) /\ Announced(w, {})
    BY <1>1 DEF Ends, Announced, Empty
<1>6. CASE LoadTasks(p)
  <2> DEFINE s == [NoStruct EXCEPT !.op = "CancelTasks", !.of = c, !.seen = {t \in TaskIds : t[1] = c /\ Live(t)}]
  <2>1. /\ pc' = [pc EXCEPT ![p] = "locked"] /\ struct' = [struct EXCEPT ![p] = s]
        /\ disturbed' = (disturbed \/ job[c] # struct[p].seen) /\ failures' = failures
    BY <1>6 DEF LoadTasks
  <2>2. s.op = "CancelTasks" /\ s.of = c /\ s.seen = {t \in TaskIds : t[1] = c /\ Live(t)}
    BY DEF NoStruct
  <2>. HIDE DEF s
  <2>3. LoadedOK(s)
    BY <1>3, <2>2, TaskFacts DEF LoadedOK, TypeInv
  <2>4. struct'[p] = s /\ failures' \in 0 .. MaxFailures /\ disturbed' \in BOOLEAN
    BY <2>1 DEF TypeInv, ProcessesOK
  <2>. HIDE DEF c, w
  <2>5. Begins(p, w, {})
    BY <1>1, <1>2, <1>4, <2>1, <2>2, <2>3, <2>4, FS_EmptySet DEF Begins, events, w
  <2>. QED
    BY <1>5, <2>1, <2>5 DEF SafelyBegins, w, c
<1>7. CASE LoadTasksFails(p)
  <2>1. /\ pc' = [pc EXCEPT ![p] = "leaked"] /\ struct' = [struct EXCEPT ![p] = NoStruct]
        /\ disturbed' = disturbed /\ failures < MaxFailures /\ failures' = failures + 1
    BY <1>7 DEF LoadTasksFails, Failure
  <2>2. failures' \in 0 .. MaxFailures /\ disturbed' \in BOOLEAN /\ pc'[p] = "leaked"
    BY <2>1, BoundsAssumption DEF TypeInv, ProcessesOK
  <2>3. struct' = [struct EXCEPT ![p] = struct'[p]]
    BY <2>1 DEF TypeInv, ProcessesOK
  <2>. HIDE DEF c, w
  <2>4. Begins(p, w, {})
    BY <1>1, <1>2, <1>4, <2>1, <2>2, <2>3, FS_EmptySet DEF Begins, events
  <2>. QED
    BY <1>5, <2>1, <2>4 DEF SafelyBegins, w, c
<1>. QED
    BY <1>6, <1>7

\* TaskTerminated gives back the resources of its Task, unless the Node had others or
\* the Task or its Job has changed.
LEMMA TaskTerminatedBegins ==
    ASSUME TypeInv, NEW p \in Processes, TaskTerminated(p)
    PROVE  Proceeds(p)
<1> DEFINE e == struct[p].event
           t == e.of
           c == struct[p].of
           n == task[t].node
           next == NextJobStatus(c, struct[p].seen[1])
           w == [rows |-> {c, n}, event |-> e, job |-> One(c, next), task |-> Empty, available |-> One(n, 0 + Limit[c])]
           sent == IF next = "PENDING" THEN {Event("pending", c)} ELSE {}
<1>1. /\ pc[p] = "loaded" /\ <<struct[p].seen[2], next>> \in JobTransitions
      /\ FreeEvent(p, e) /\ Free(p, {c, n})
      /\ Publish(p, w, sent, <<task[t], job[c]>> # struct[p].seen \/ available[n] # 0)
    BY DEF TaskTerminated
<1>2. LoadedOK(struct[p]) /\ struct[p].op = "TaskTerminated"
    BY DEF TaskTerminated, TypeInv, ProcessesOK, ProcessOK
<1>3. /\ e \in published \ processed /\ e.type = "terminated" /\ e # None
      /\ t \in TaskIds /\ task[t] # NoTask /\ c = t[1] /\ RowsOK
    BY <1>1, <1>2, NoEventIsNone DEF LoadedOK, FreeEvent, TypeInv, EventsOK, OfItsKind
<1>4. c \in Containers /\ n \in Nodes
    BY <1>3, TaskFacts
<1>5. next \in {"PENDING", "FINISHED"} /\ (next = "PENDING" => struct[p].seen[1].status = "failed")
    BY DEF NextJobStatus
<1>6. /\ IsFiniteSet(sent) /\ sent \subseteq Events
      /\ \A f \in sent : OfItsKind(f) /\ f.type = "pending"
  <2>1. Event("pending", c) \in Events /\ Event("pending", c).type = "pending" /\ Event("pending", c).of = c
    BY <1>4, EventFacts DEF TypeInv
  <2>. HIDE DEF c, next
  <2>. QED
    BY <1>4, <2>1, FS_EmptySet, FS_Singleton DEF OfItsKind
<1>. HIDE DEF sent, next
<1>s. CASE SendFails(p, sent)
    BY <1>1, <1>6, <1>s, SendFailsLeaves DEF Proceeds
<1>. SUFFICES ASSUME Stage(p, w, sent, <<task[t], job[c]>> # struct[p].seen \/ available[n] # 0) PROVE Proceeds(p)
    BY <1>1, <1>s DEF Publish
<1>t. /\ Starts(p, w, sent)
      /\ disturbed' = (disturbed \/ <<task[t], job[c]>> # struct[p].seen \/ available[n] # 0)
    BY DEF Stage, Starts
<1>7. SafeInv /\ ~disturbed' => /\ job[c] = "SCHEDULED" /\ available[n] = 0
                                /\ next = "PENDING" => task[t].status \in Ended
  <2>1. SUFFICES ASSUME SafeInv, ~disturbed'
                 PROVE  /\ job[c] = "SCHEDULED" /\ available[n] = 0
                        /\ next = "PENDING" => task[t].status \in Ended
    OBVIOUS
  <2>2. struct[p].seen[1] = task[t] /\ struct[p].seen[2] = job[c] /\ available[n] = 0
    <3>1. struct[p].seen = <<task[t], job[c]>> /\ available[n] = 0
      BY <1>t, <2>1
    <3>. HIDE DEF n, c, t
    <3>. QED
      BY <3>1
  <2>3. job[c] \in {"SCHEDULED", "NEW"}
    BY <1>1, <1>5, <2>2 DEF JobTransitions, TableTransitions
  <2>4. ~Released(t)
    BY <1>3, <2>1 DEF SafeInv, TerminatedInv, TerminatedEvents, Released, TypeInv, EventsOK
  <2>5. Busy(t) /\ t \in TasksOf(c)
    BY <1>3, <2>4 DEF Busy, TasksOf
  <2>6. job[c] # "NEW"
    BY <1>4, <2>1, <2>5 DEF SafeInv, JobsInv
  <2>. QED
    BY <1>5, <2>2, <2>3, <2>6 DEF Ended
<1>. HIDE DEF w, n, c
<1>8. /\ WritesOK(w) /\ w.rows = {c, n} /\ w.event = e /\ w.job = One(c, next)
      /\ w.task = Empty /\ w.available = One(n, Limit[c])
    BY <1>3, <1>4, <1>5, ReturnWrites DEF w, JobStatus
<1>9. Begins(p, w, sent)
  <2>1. w # NoTx
    BY <1>3, <1>8 DEF NoTx
  <2>2. failures' \in 0 .. MaxFailures /\ disturbed' \in BOOLEAN
    BY <1>t DEF TypeInv, ProcessesOK, Starts
  <2>. QED
    BY <1>1, <1>t, <1>6, <1>8, <2>1, <2>2, StartsBegins
<1>10. SafeInv /\ ~disturbed' => Returns(w)
  <2>1. SUFFICES ASSUME SafeInv, ~disturbed' PROVE Returns(w)
    OBVIOUS
  <2>2. w.job = One(c, "FINISHED") \/ (w.job = One(c, "PENDING") /\ task[t].status \in Ended)
    BY <1>5, <1>7, <1>8, <2>1
  <2>. QED
    BY <1>3, <1>4, <1>7, <1>8, <2>1, <2>2 DEF Returns, n
<1>11. Announced(w, sent)
    BY <1>6, <1>8 DEF Announced, Empty
<1>. QED
    BY <1>t, <1>9, <1>10, <1>11 DEF SafelyBegins, Proceeds

-----------------------------------------------------------------------------
(* A transaction that begins disturbs nothing. *)

\* The writes of a transaction keep their kind as long as the tables stay as they are.
LEMMA KindStays ==
    ASSUME NEW q \in Processes, NEW v, tx'[q] = v, UNCHANGED rows, published \subseteq published',
           Schedules(v) \/ Ends(v) \/ Returns(v)
    PROVE  (Schedules(tx[q]) \/ Ends(tx[q]) \/ Returns(tx[q]))'
<1>1. Schedules(v) => Schedules(tx[q])'
    BY DEF Schedules, rows
<1>2. Ends(v) => Ends(tx[q])'
    BY DEF Ends, Live, rows
<1>3. Returns(v) => Returns(tx[q])'
    BY DEF Returns, rows
<1>. QED
    BY <1>1, <1>2, <1>3

\* A Task that a transaction is about to end runs, and is locked.
LEMMA EndsIsLocked ==
    ASSUME StagedInv, NEW q \in Processes, NEW t \in DOMAIN tx[q].task, tx[q].task[t].status \in Ended
    PROVE  Ends(tx[q]) /\ t \in tx[q].rows /\ Live(t)
<1> DEFINE v == tx[q]
<1>. HIDE DEF v
<1>1. ~Schedules(v)
  <2>1. SUFFICES ASSUME Schedules(v) PROVE v.task[t].status = "running"
    BY DEF v, Ended
  <2>2. PICK n \in Nodes : v.task[t] = [status |-> "running", node |-> n]
    BY <2>1 DEF Schedules, v
  <2>. QED
    BY <2>2
<1>2. ~Returns(v)
    BY DEF v, Returns, Empty
<1>. QED
    BY <1>1, <1>2 DEF StagedInv, Ends, v

\* To begin a transaction keeps SafeInv: its writes are not in the tables yet.
LEMMA BeginsSafe ==
    ASSUME TypeInv, SafeInv, ~disturbed', NEW p \in Processes, NEW w, NEW sent, SafelyBegins(p, w, sent)
    PROVE  SafeInv'
<1>1. /\ Begins(p, w, sent) /\ Announced(w, sent)
      /\ Schedules(w) \/ Ends(w) \/ Returns(w)
    BY DEF SafelyBegins
<1>2. /\ tx[p].task = Empty /\ tx'[p] = w /\ \A q \in Processes \ {p} : tx'[q] = tx[q]
      /\ published' = published \cup sent /\ UNCHANGED <<rows, processed>>
  <2>1. tx[p].task = Empty /\ DOMAIN tx = Processes
    BY <1>1 DEF Begins, TypeInv, ProcessesOK, ProcessOK, LockOf, NoTx
  <2>. QED
    BY <1>1, <2>1 DEF Begins
<1>3. StagedInv'
  <2>1. ASSUME NEW q \in Processes PROVE (Schedules(tx[q]) \/ Ends(tx[q]) \/ Returns(tx[q]))'
    <3>1. CASE q = p
      BY <1>1, <1>2, <3>1, KindStays
    <3>2. CASE q # p
      BY <1>2, <3>2, KindStays DEF SafeInv, StagedInv
    <3>. QED
      BY <3>1, <3>2
  <2>. QED
    BY <2>1 DEF StagedInv
<1>4. TerminatedInv'
  <2>1. ASSUME NEW t \in TaskIds
        PROVE  /\ \A e, f \in TerminatedEvents(t)' : e = f
               /\ TerminatedEvents(t)' # {} <=> task'[t].status \in Ended \/ EndStaged(t)'
    <3>1. TerminatedEvents(t)' = TerminatedEvents(t) \cup {e \in sent : e.type = "terminated" /\ e.of = t}
      BY <1>2 DEF TerminatedEvents
    <3>2. /\ \A e, f \in TerminatedEvents(t) : e = f
          /\ TerminatedEvents(t) # {} <=> task[t].status \in Ended \/ EndStaged(t)
      BY DEF SafeInv, TerminatedInv
    <3>3. task'[t] = task[t]
      BY <1>2 DEF rows
    <3>4. CASE t \in DOMAIN w.task /\ w.task[t].status \in Ended
      <4>1. Ends(w)
        <5>1. ~Schedules(w)
          <6>1. SUFFICES ASSUME Schedules(w) PROVE w.task[t].status = "running"
            BY <3>4 DEF Ended
          <6>2. PICK n \in Nodes : w.task[t] = [status |-> "running", node |-> n]
            BY <3>4, <6>1 DEF Schedules
          <6>. QED
            BY <6>2
        <5>2. ~Returns(w)
          BY <3>4 DEF Returns, Empty
        <5>. QED
          BY <1>1, <5>1, <5>2
      <4>2. t \in w.rows /\ Live(t)
        BY <3>4, <4>1 DEF Ends
      <4>3. task[t].status \notin Ended
        BY <4>2 DEF Live, Ended
      <4>4. ~EndStaged(t)
        <5>1. SUFFICES ASSUME NEW q \in Processes, t \in DOMAIN tx[q].task, tx[q].task[t].status \in Ended
                       PROVE  FALSE
          BY DEF EndStaged
        <5>2. q # p
          BY <1>2, <5>1 DEF Empty
        <5>3. t \in tx[q].rows
          BY <5>1, EndsIsLocked DEF SafeInv
        <5>. QED
          BY <1>1, <4>2, <5>2, <5>3 DEF Begins, Free
      <4>5. TerminatedEvents(t) = {}
        BY <3>2, <4>3, <4>4
      <4>6. EndStaged(t)'
        BY <1>2, <3>4 DEF EndStaged
      <4>7. /\ \A e, f \in sent : e.type = "terminated" /\ f.type = "terminated" /\ e.of = t /\ f.of = t => e = f
            /\ \E e \in sent : e.type = "terminated" /\ e.of = t
        BY <1>1, <3>4 DEF Announced
      <4>. QED
        BY <3>1, <4>5, <4>6, <4>7
    <3>5. CASE ~(t \in DOMAIN w.task /\ w.task[t].status \in Ended)
      <4>1. \A e \in sent : ~(e.type = "terminated" /\ e.of = t)
        BY <1>1, <3>5 DEF Announced
      <4>2. TerminatedEvents(t)' = TerminatedEvents(t)
        BY <3>1, <4>1
      <4>3. EndStaged(t)' <=> EndStaged(t)
        BY <1>2, <3>5 DEF EndStaged, Empty
      <4>. QED
        BY <3>2, <3>3, <4>2, <4>3
    <3>. QED
      BY <3>4, <3>5
  <2>. QED
    BY <2>1 DEF TerminatedInv
<1>5. JobsInv' /\ AccountsInv'
    BY <1>2 DEF SafeInv, JobsInv, AccountsInv, Busy, Live, Released, TasksOf, Held, Holding, rows
<1>. QED
    BY <1>3, <1>4, <1>5 DEF SafeInv

\* To leave one as well: nothing it announced becomes untrue, or rows and events are
\* disturbed.
LEMMA LeavesSafe ==
    ASSUME TypeInv, SafeInv, ~disturbed', NEW p \in Processes, NEW sent, Leaves(p, sent)
    PROVE  SafeInv'
<1>1. /\ DOMAIN tx = Processes /\ published' = published \cup sent /\ UNCHANGED <<rows, processed>>
      /\ \A t \in DOMAIN tx[p].task : tx[p].task[t].status = "running"
      /\ \A e \in sent : e.type # "terminated"
    BY DEF Leaves, Abandon, TypeInv, ProcessesOK, EndsTask
<1>2. tx'[p] = NoTx /\ \A q \in Processes \ {p} : tx'[q] = tx[q]
    BY <1>1 DEF Leaves, Abandon
<1>3. StagedInv'
  <2>1. ASSUME NEW q \in Processes PROVE (Schedules(tx[q]) \/ Ends(tx[q]) \/ Returns(tx[q]))'
    <3>1. CASE q = p
      BY <1>2, <3>1 DEF Ends, NoTx, Empty
    <3>2. CASE q # p
      BY <1>1, <1>2, <3>2, KindStays DEF SafeInv, StagedInv
    <3>. QED
      BY <3>1, <3>2
  <2>. QED
    BY <2>1 DEF StagedInv
<1>4. TerminatedInv'
  <2>1. \A t : TerminatedEvents(t)' = TerminatedEvents(t)
    BY <1>1 DEF TerminatedEvents
  <2>2. \A t : EndStaged(t)' <=> EndStaged(t)
    BY <1>1, <1>2 DEF EndStaged, NoTx, Empty, Ended
  <2>3. task' = task
    BY <1>1 DEF rows
  <2>. QED
    BY <2>1, <2>2, <2>3 DEF SafeInv, TerminatedInv
<1>5. JobsInv' /\ AccountsInv'
    BY <1>1 DEF SafeInv, JobsInv, AccountsInv, Busy, Live, Released, TasksOf, Held, Holding, rows
<1>. QED
    BY <1>3, <1>4, <1>5 DEF SafeInv

-----------------------------------------------------------------------------
(* A transaction commits. *)

\* The tables after a commit, row by row.
LEMMA CommitRows ==
    ASSUME TypeInv, NEW p \in Processes, Apply(p)
    PROVE  /\ \A c \in Containers : job'[c] = IF c \in DOMAIN tx[p].job THEN tx[p].job[c] ELSE job[c]
           /\ \A t \in TaskIds : task'[t] = IF t \in DOMAIN tx[p].task THEN tx[p].task[t] ELSE task[t]
           /\ \A n \in Nodes : available'[n] = IF n \in DOMAIN tx[p].available THEN tx[p].available[n] ELSE available[n]
           /\ tx'[p] = NoTx /\ \A q \in Processes \ {p} : tx'[q] = tx[q]
           /\ processed' = processed \cup ({tx[p].event} \ {None}) /\ UNCHANGED <<published, disturbed>>
           /\ RowsOK'
<1>1. /\ DOMAIN job = Containers /\ DOMAIN task = TaskIds /\ DOMAIN available = Nodes /\ DOMAIN tx = Processes
      /\ WritesOK(tx[p])
    BY DEF TypeInv, RowsOK, ProcessesOK, ProcessOK
<1>2. /\ \A c \in Containers : job'[c] = IF c \in DOMAIN tx[p].job THEN tx[p].job[c] ELSE job[c]
      /\ \A t \in TaskIds : task'[t] = IF t \in DOMAIN tx[p].task THEN tx[p].task[t] ELSE task[t]
      /\ \A n \in Nodes : available'[n] = IF n \in DOMAIN tx[p].available THEN tx[p].available[n] ELSE available[n]
    BY <1>1 DEF Apply, Write
<1>3. tx'[p] = NoTx /\ \A q \in Processes \ {p} : tx'[q] = tx[q]
    BY <1>1 DEF Apply
<1>4. RowsOK'
  <2>1. job' \in [Containers -> JobStatus]
    BY <1>1 DEF Apply, Write, WritesOK, TypeInv, RowsOK
  <2>2. task' \in [TaskIds -> TaskRows]
    BY <1>1 DEF Apply, Write, WritesOK, TypeInv, RowsOK
  <2>3. available' \in [Nodes -> Nat]
    BY <1>1 DEF Apply, Write, WritesOK, TypeInv, RowsOK
  <2>. QED
    BY <2>1, <2>2, <2>3 DEF Apply, TypeInv, RowsOK
<1>. QED
    BY <1>2, <1>3, <1>4 DEF Apply

\* A commit keeps the types, and the other transactions apart.
LEMMA CommitType ==
    ASSUME TypeInv, NEW p \in Processes, Commit(p) \/ CommitUnacked(p)
    PROVE  TypeInv'
<1>a. /\ Apply(p) /\ failures' \in 0 .. MaxFailures
      /\ acked' = acked \/ acked' = acked \cup ({tx[p].event} \ {None})
    BY BoundsAssumption DEF Commit, CommitUnacked, Failure, TypeInv, ProcessesOK
<1>1. /\ tx'[p] = NoTx /\ \A q \in Processes \ {p} : tx'[q] = tx[q]
      /\ processed' = processed \cup ({tx[p].event} \ {None}) /\ UNCHANGED <<published, disturbed>>
      /\ RowsOK'
    BY <1>a, CommitRows
<1>2. WritesOK(tx[p])
    BY DEF TypeInv, ProcessesOK, ProcessOK
<1>3. \A t \in TaskIds : task[t] # NoTask => task'[t] # NoTask
    BY <1>a, <1>2, CommitRows DEF WritesOK
<1>4. EventsOK'
  <2>1. processed' \subseteq published' /\ acked' \subseteq published'
    BY <1>a, <1>1, <1>2 DEF TypeInv, EventsOK, WritesOK
  <2>2. \A e \in published' : OfItsKind(e)'
    BY <1>1, <1>3 DEF TypeInv, EventsOK, OfItsKind
  <2>. QED
    BY <1>1, <2>1, <2>2 DEF TypeInv, EventsOK
<1>5. ProcessesOK'
  <2>1. /\ pc' \in [Processes -> {"idle", "loaded", "locked", "staged", "leaked"}]
        /\ DOMAIN struct' = Processes /\ DOMAIN tx' = Processes
        /\ disturbed' \in BOOLEAN /\ failures' \in 0 .. MaxFailures
    BY <1>a DEF Apply, TypeInv, ProcessesOK
  <2>2. ASSUME NEW q \in Processes
        PROVE  ProcessOK(q)'
    <3>1. CASE q = p
      <4>1. WritesOK(tx[q])'
        BY <1>1, <3>1 DEF WritesOK, NoTx, Empty
      <4>2. pc'[q] = "idle"
        BY <1>a, <3>1 DEF Apply, TypeInv, ProcessesOK
      <4>. QED
        BY <1>1, <3>1, <4>1, <4>2 DEF ProcessOK
    <3>2. CASE q # p
      <4>1. tx'[q] = tx[q] /\ struct'[q] = struct[q] /\ pc'[q] = pc[q]
        BY <1>a, <1>1, <3>2 DEF Apply, TypeInv, ProcessesOK
      <4>2. tx[q].event # None => tx[q].event \notin processed'
        BY <1>1, <3>2 DEF TypeInv, LocksInv, ProcessesOK, ProcessOK, WritesOK
      <4>3. WritesOK(tx[q]) => WritesOK(tx[q])'
        BY <1>1, <4>1, <4>2 DEF WritesOK
      <4>4. LoadedOK(struct[q]) => LoadedOK(struct[q])'
        BY <1>1, <1>3, <4>1 DEF LoadedOK
      <4>. QED
        BY <4>1, <4>3, <4>4 DEF TypeInv, ProcessesOK, ProcessOK
    <3>. QED
      BY <3>1, <3>2
  <2>. QED
    BY <2>1, <2>2 DEF ProcessesOK
<1>6. LocksInv'
  <2>1. tx'[p].rows = {} /\ tx'[p].event = None
    BY <1>1 DEF NoTx
  <2>. QED
    BY <1>1, <2>1 DEF TypeInv, LocksInv
<1>. QED
    BY <1>1, <1>4, <1>5, <1>6 DEF TypeInv

\* What a commit does to a Task: it creates it, or ends it while it is locked.
LEMMA CommitTasks ==
    ASSUME TypeInv, StagedInv, NEW p \in Processes, Apply(p), NEW t \in TaskIds
    PROVE  /\ task[t] = NoTask /\ t \in DOMAIN tx[p].task => Schedules(tx[p])
           /\ Live(t) /\ task'[t] # task[t] => Ends(tx[p]) /\ t \in tx[p].rows
           /\ task[t].status \in Ended => task'[t] = task[t]
           /\ task[t] # NoTask => task'[t] # NoTask /\ task'[t].node = task[t].node
<1> DEFINE w == tx[p]
<1>1. task'[t] = IF t \in DOMAIN w.task THEN w.task[t] ELSE task[t]
    BY CommitRows
<1>2. /\ task[t] # NoTask => Live(t) \/ task[t].status \in Ended
      /\ Live(t) \/ task[t].status \in Ended => task[t] # NoTask
      /\ ~(Live(t) /\ task[t].status \in Ended)
    BY TaskFacts DEF TypeInv
<1>3. t \in DOMAIN w.task => w.task[t] # NoTask
    BY DEF TypeInv, ProcessesOK, ProcessOK, WritesOK
<1>. HIDE DEF w
<1>4. CASE Schedules(w) /\ t \in DOMAIN w.task
  <2>1. task[t] = NoTask
    BY <1>4 DEF Schedules
  <2>. QED
    BY <1>2, <1>4, <2>1 DEF w
<1>5. CASE Ends(w) /\ t \in DOMAIN w.task
  <2>1. t \in w.rows /\ Live(t) /\ w.task[t].node = task[t].node
    BY <1>5 DEF Ends
  <2>. QED
    BY <1>1, <1>2, <1>3, <1>5, <2>1 DEF w
<1>6. CASE t \notin DOMAIN w.task
    BY <1>1, <1>6 DEF w
<1>7. Returns(w) => t \notin DOMAIN w.task
    BY DEF Returns, Empty
<1>. QED
    BY <1>4, <1>5, <1>6, <1>7 DEF StagedInv, w

\* The writes of the other transactions are to other rows, and keep their kind.
LEMMA CommitStaged ==
    ASSUME TypeInv, StagedInv, NEW p \in Processes, Apply(p)
    PROVE  StagedInv'
<1>1. SUFFICES ASSUME NEW q \in Processes PROVE (Schedules(tx[q]) \/ Ends(tx[q]) \/ Returns(tx[q]))'
    BY DEF StagedInv
<1>2. CASE q = p
  <2>1. tx'[q] = NoTx
    BY <1>2, CommitRows
  <2>. QED
    BY <2>1 DEF Ends, NoTx, Empty
<1>3. CASE q # p
  <2> DEFINE v == tx[q]
             w == tx[p]
  <2>1. /\ tx'[q] = v /\ v.rows \cap w.rows = {} /\ WritesOK(v) /\ WritesOK(w) /\ published' = published
    BY <1>3, CommitRows DEF TypeInv, LocksInv, ProcessesOK, ProcessOK
  <2>2. \A c \in DOMAIN v.job : job'[c] = job[c]
    BY <2>1, CommitRows DEF WritesOK
  <2>3. \A n \in DOMAIN v.available : available'[n] = available[n]
    BY <2>1, CommitRows DEF WritesOK
  <2>4. \A t \in TaskIds : /\ task[t] = NoTask /\ t \in DOMAIN w.task => t[1] \in w.rows
                           /\ Live(t) /\ task'[t] # task[t] => t \in w.rows
    <3>1. Schedules(w) => \A t \in DOMAIN w.task : t[1] \in w.rows
      BY <2>1 DEF Schedules, WritesOK
    <3>. QED
      BY <3>1, CommitTasks
  <2>5. \A t \in TaskIds : t \notin DOMAIN w.task => task'[t] = task[t]
    BY CommitRows
  <2>6. DOMAIN v.task \subseteq TaskIds /\ DOMAIN v.job \subseteq v.rows
    BY <2>1 DEF WritesOK
  <2>7. CASE Schedules(v)
    <3>1. \A t \in DOMAIN v.task : task'[t] = task[t]
      BY <2>1, <2>4, <2>5, <2>6, <2>7 DEF Schedules
    <3>2. \A n : v.available = One(n, available[n] - Demand(DOMAIN v.job)) => available'[n] = available[n]
      BY <2>3 DEF One
    <3>. HIDE DEF v, w
    <3>3. Schedules(tx[q])'
      BY <2>1, <2>2, <2>7, <3>1, <3>2 DEF Schedules
    <3>. QED
      BY <3>3
  <2>8. CASE Ends(v)
    <3>1. \A t \in DOMAIN v.task : task'[t] = task[t]
      BY <2>1, <2>4, <2>6, <2>8 DEF Ends
    <3>. HIDE DEF v, w
    <3>2. Ends(tx[q])'
      BY <2>1, <2>8, <3>1 DEF Ends, Live
    <3>. QED
      BY <3>2
  <2>9. CASE Returns(v)
    <3>1. PICK t \in TaskIds :
            /\ v.event \in published /\ v.event.type = "terminated" /\ v.event.of = t
            /\ job[t[1]] = "SCHEDULED"
            /\ v.job = One(t[1], "FINISHED") \/ (v.job = One(t[1], "PENDING") /\ task[t].status \in Ended)
            /\ v.task = Empty
            /\ task[t].node \in Nodes /\ available[task[t].node] = 0 /\ v.available = One(task[t].node, Limit[t[1]])
      BY <2>9 DEF Returns
    <3>2. task[t] # NoTask
      BY <3>1, NoneAssumption DEF NoTask
    <3>3. task'[t].node = task[t].node /\ (task[t].status \in Ended => task'[t] = task[t])
      BY <3>2, CommitTasks
    <3>4. job'[t[1]] = job[t[1]] /\ available'[task[t].node] = available[task[t].node]
      BY <2>2, <2>3, <3>1 DEF One
    <3>. HIDE DEF v, w
    <3>5. Returns(tx[q])'
      BY <2>1, <3>1, <3>3, <3>4 DEF Returns
    <3>. QED
      BY <3>5
  <2>. QED
    BY <2>7, <2>8, <2>9 DEF StagedInv
<1>. QED
    BY <1>2, <1>3

\* What is left of SafeInv to show for a commit of each of the three kinds.
Rest == TerminatedInv /\ JobsInv /\ AccountsInv

\* At most one Task of a Job runs.
LEMMA OneLive ==
    ASSUME TypeInv, JobsInv, NEW c \in Containers, NEW t \in TasksOf(c), NEW u \in TasksOf(c), Live(t), Live(u)
    PROVE  t = u
<1>1. Busy(t) /\ Busy(u)
    BY DEF Busy
<1>2. job[c] \in JobStatus
    BY DEF TypeInv, RowsOK
<1>. QED
    BY <1>1, <1>2 DEF JobsInv, JobStatus

\* Until a terminated event is processed, it has not released a Task.
LEMMA StagedNotReleased ==
    ASSUME TypeInv, TerminatedInv, NEW t \in TaskIds, NEW e \in published \ processed,
           e.type = "terminated", e.of = t
    PROVE  ~Released(t)
BY DEF TypeInv, EventsOK, TerminatedInv, TerminatedEvents, Released

\* A commit of ended Tasks: their terminated events are published and not processed.
LEMMA CommitEnds ==
    ASSUME TypeInv, SafeInv, NEW p \in Processes, Apply(p), Ends(tx[p])
    PROVE  Rest'
<1> DEFINE w == tx[p]
<1>1. /\ \A c \in Containers : job'[c] = IF c \in DOMAIN w.job THEN w.job[c] ELSE job[c]
      /\ \A t \in TaskIds : task'[t] = IF t \in DOMAIN w.task THEN w.task[t] ELSE task[t]
      /\ \A n \in Nodes : available'[n] = available[n]
      /\ tx'[p] = NoTx /\ \A q \in Processes \ {p} : tx'[q] = tx[q]
      /\ processed' = processed \cup ({w.event} \ {None}) /\ published' = published
    BY CommitRows DEF Ends, Empty
<1>2. \A t \in DOMAIN w.task : Live(t) /\ w.task[t].status \in Ended /\ w.task[t].node = task[t].node
    BY DEF Ends
<1>3. \A t \in TaskIds : Released(t)' <=> Released(t)
    BY <1>1 DEF Ends, Released
<1>4. \A t \in TaskIds : /\ Live(t)' => Live(t)
                         /\ task[t] = NoTask <=> task'[t] = NoTask
                         /\ task'[t].node = task[t].node
  <2>1. ASSUME NEW t \in TaskIds
        PROVE  /\ Live(t)' => Live(t)
               /\ task[t] = NoTask <=> task'[t] = NoTask
               /\ task'[t].node = task[t].node
    <3>1. CASE t \in DOMAIN w.task
      <4>1. task[t] # NoTask
        BY <1>2, <3>1, TaskFacts DEF TypeInv
      <4>. QED
        BY <1>1, <1>2, <3>1, <4>1, CommitTasks DEF SafeInv
    <3>2. CASE t \notin DOMAIN w.task
      BY <1>1, <3>2 DEF Live
    <3>. QED
      BY <3>1, <3>2
  <2>. QED
    BY <2>1
<1>5. \A t \in TaskIds : Busy(t)' => Busy(t)
    BY <1>3, <1>4 DEF Busy
<1>6. \A c \in DOMAIN w.job : w.job[c] = "CANCELLED"
    BY DEF Ends
<1>. HIDE DEF w
<1>7. TerminatedInv'
  <2>1. ASSUME NEW t \in TaskIds
        PROVE  /\ \A e, f \in TerminatedEvents(t)' : e = f
               /\ TerminatedEvents(t)' # {} <=> task'[t].status \in Ended \/ EndStaged(t)'
    <3>1. /\ TerminatedEvents(t)' = TerminatedEvents(t)
          /\ \A e, f \in TerminatedEvents(t) : e = f
          /\ TerminatedEvents(t) # {} <=> task[t].status \in Ended \/ EndStaged(t)
      BY <1>1 DEF TerminatedEvents, SafeInv, TerminatedInv
    <3>2. CASE t \in DOMAIN w.task
      <4>1. task'[t].status \in Ended /\ EndStaged(t)
        BY <1>1, <1>2, <3>2 DEF EndStaged, w
      <4>. QED
        BY <3>1, <4>1
    <3>3. CASE t \notin DOMAIN w.task
      <4>1. EndStaged(t)' <=> EndStaged(t)
        BY <1>1, <3>3 DEF EndStaged, NoTx, Empty, w
      <4>. QED
        BY <1>1, <3>1, <3>3, <4>1
    <3>. QED
      BY <3>2, <3>3
  <2>. QED
    BY <2>1 DEF TerminatedInv
<1>8. JobsInv'
  <2>1. ASSUME NEW c \in Containers
        PROVE  /\ job'[c] \in {"absent", "NEW", "PENDING"} => \A t \in TasksOf(c) : ~Busy(t)'
               /\ job'[c] = "SCHEDULED" => \E t \in TasksOf(c) : /\ task'[t] # NoTask /\ ~Released(t)'
                                                               /\ \A u \in TasksOf(c) : Busy(u)' => u = t
               /\ job'[c] \in {"FINISHED", "CANCELLED"} =>
                    \A t, u \in TasksOf(c) : Live(t)' /\ Live(u)' => t = u
    <3>1. TasksOf(c) \subseteq TaskIds
      BY DEF TasksOf
    <3>2. \A t, u \in TasksOf(c) : Live(t)' /\ Live(u)' => t = u
      BY <1>4, <3>1, OneLive DEF SafeInv
    <3>3. CASE c \in DOMAIN w.job
      BY <1>1, <1>6, <3>2, <3>3
    <3>4. CASE c \notin DOMAIN w.job
      <4>1. job'[c] = job[c]
        BY <1>1, <3>4
      <4>. QED
        BY <1>3, <1>4, <1>5, <3>1, <3>2, <4>1 DEF SafeInv, JobsInv
    <3>. QED
      BY <3>3, <3>4
  <2>. QED
    BY <2>1 DEF JobsInv, TasksOf
<1>9. AccountsInv'
  <2>1. \A n \in Nodes : Holding(n)' = Holding(n)
    BY <1>3, <1>4 DEF Holding
  <2>. QED
    BY <1>1, <2>1 DEF SafeInv, AccountsInv, Held
<1>. QED
    BY <1>7, <1>8, <1>9 DEF Rest

\* A commit of new Tasks: each Job had none that keeps it, and the Node loses the demand.
LEMMA CommitSchedules ==
    ASSUME TypeInv, SafeInv, NEW p \in Processes, Apply(p), Schedules(tx[p])
    PROVE  Rest'
<1> DEFINE w == tx[p]
           S == DOMAIN w.job
           T == DOMAIN w.task
<1>1. PICK n \in Nodes :
        /\ \A c \in S : /\ job[c] = "PENDING" /\ w.job[c] = "SCHEDULED"
                        /\ \E t \in T : t[1] = c /\ \A u \in T : u[1] = c => u = t
        /\ \A t \in T : /\ t[1] \in S /\ task[t] = NoTask /\ w.task[t] = [status |-> "running", node |-> n]
        /\ w.available = One(n, available[n] - Demand(S))
        /\ Demand(S) <= available[n]
        /\ w.event \in published /\ w.event.type # "terminated"
    BY DEF Schedules
<1>2. /\ \A c \in Containers : job'[c] = IF c \in S THEN "SCHEDULED" ELSE job[c]
      /\ \A t \in TaskIds : task'[t] = IF t \in T THEN [status |-> "running", node |-> n] ELSE task[t]
      /\ \A m \in Nodes : available'[m] = IF m = n THEN available[n] - Demand(S) ELSE available[m]
      /\ tx'[p] = NoTx /\ \A q \in Processes \ {p} : tx'[q] = tx[q]
      /\ processed' = processed \cup ({w.event} \ {None}) /\ published' = published
    BY <1>1, CommitRows DEF One
<1>3. S \subseteq Containers /\ T \subseteq TaskIds
    BY DEF TypeInv, ProcessesOK, ProcessOK, WritesOK
<1>4. \A t \in TaskIds : Released(t)' <=> Released(t)
    BY <1>1, <1>2 DEF Released
<1>5. \A t \in T : task[t].status \notin Ended /\ ~Live(t) /\ task[t].node \notin Nodes
    BY <1>1, <1>3, NoneAssumption DEF NoTask, Ended, Live
<1>6. \A t \in T : TerminatedEvents(t) = {} /\ ~EndStaged(t)
  <2>1. \A t \in T : ~EndStaged(t)
    BY <1>5, EndsIsLocked DEF SafeInv, EndStaged
  <2>. QED
    BY <1>3, <1>5, <2>1 DEF SafeInv, TerminatedInv
<1>7. \A t \in T : ~Released(t)
    BY <1>6 DEF TerminatedEvents, Released, TypeInv, EventsOK
<1>8. \A t \in T : w.task[t].status \notin Ended
    BY <1>1 DEF Ended
<1>9. TerminatedInv'
  <2>1. ASSUME NEW t \in TaskIds
        PROVE  /\ \A e, f \in TerminatedEvents(t)' : e = f
               /\ TerminatedEvents(t)' # {} <=> task'[t].status \in Ended \/ EndStaged(t)'
    <3>1. /\ TerminatedEvents(t)' = TerminatedEvents(t)
          /\ \A e, f \in TerminatedEvents(t) : e = f
          /\ TerminatedEvents(t) # {} <=> task[t].status \in Ended \/ EndStaged(t)
      BY <1>2 DEF TerminatedEvents, SafeInv, TerminatedInv
    <3>2. EndStaged(t)' <=> EndStaged(t)
      BY <1>2, <1>8 DEF EndStaged, NoTx, Empty
    <3>3. task'[t].status \in Ended <=> task[t].status \in Ended
      BY <1>2, <1>5 DEF Ended
    <3>. QED
      BY <3>1, <3>2, <3>3
  <2>. QED
    BY <2>1 DEF TerminatedInv
<1>. HIDE DEF S, T, w
<1>10. JobsInv'
  <2>1. ASSUME NEW c \in Containers
        PROVE  /\ job'[c] \in {"absent", "NEW", "PENDING"} => \A t \in TasksOf(c) : ~Busy(t)'
               /\ job'[c] = "SCHEDULED" => \E t \in TasksOf(c) : /\ task'[t] # NoTask /\ ~Released(t)'
                                                               /\ \A u \in TasksOf(c) : Busy(u)' => u = t
               /\ job'[c] \in {"FINISHED", "CANCELLED"} =>
                    \A t, u \in TasksOf(c) : Live(t)' /\ Live(u)' => t = u
    <3>1. TasksOf(c) \subseteq TaskIds /\ \A t \in TasksOf(c) : t[1] = c
      BY DEF TasksOf
    <3>2. CASE c \in S
      <4>1. PICK t \in T : t[1] = c /\ \A u \in T : u[1] = c => u = t
        BY <1>1, <3>2
      <4>2. t \in TasksOf(c) /\ task'[t] # NoTask /\ ~Released(t)'
        BY <1>2, <1>3, <1>4, <1>7, <4>1 DEF TasksOf, NoTask
      <4>3. \A u \in TasksOf(c) : ~Busy(u)
        BY <1>1, <3>2 DEF SafeInv, JobsInv
      <4>4. \A u \in TasksOf(c) : u \notin T => ~Busy(u)'
        BY <1>2, <1>4, <3>1, <4>3 DEF Busy, Live
      <4>5. \A u \in TasksOf(c) : Busy(u)' => u = t
        BY <3>1, <4>1, <4>4
      <4>. QED
        BY <1>2, <3>2, <4>2, <4>5
    <3>3. CASE c \notin S
      <4>1. \A t \in TasksOf(c) : t \notin T
        BY <1>1, <3>1, <3>3
      <4>2. \A t \in TasksOf(c) : task'[t] = task[t] /\ (Released(t)' <=> Released(t))
        BY <1>2, <1>4, <3>1, <4>1
      <4>3. \A t \in TasksOf(c) : (Busy(t)' <=> Busy(t)) /\ (Live(t)' <=> Live(t))
        BY <4>2 DEF Busy, Live
      <4>4. job'[c] = job[c]
        BY <1>2, <3>3
      <4>. QED
        BY <4>2, <4>3, <4>4 DEF SafeInv, JobsInv
    <3>. QED
      BY <3>2, <3>3
  <2>. QED
    BY <2>1 DEF JobsInv, TasksOf
<1>11. AccountsInv'
  <2> DEFINE f == [c \in S |-> CHOOSE t \in T : t[1] = c]
  <2>1. \A c \in S : f[c] \in T /\ f[c][1] = c
    BY <1>1
  <2>2. T = {f[c] : c \in S}
    BY <1>1, <2>1
  <2>. HIDE DEF f
  <2>3. Holding(n) \in SUBSET TaskIds /\ Holding(n) \cap T = {}
    BY <1>5 DEF Holding
  <2>4. Holding(n)' = Holding(n) \cup T
    BY <1>2, <1>3, <1>4, <1>7 DEF Holding
  <2>5. LimitsOf(Holding(n) \cup T) = LimitsOf(Holding(n)) + Demand(S)
    <3>1. \A c \in S : f[c] \in TaskIds \ Holding(n) /\ f[c][1] = c
      BY <1>3, <2>1, <2>3
    <3>2. LimitsOf(Holding(n) \cup {f[c] : c \in S}) = LimitsOf(Holding(n)) + Demand(S)
      BY <1>3, <2>3, <3>1, LimitsOfNewTasks
    <3>. QED
      BY <2>2, <3>2
  <2>6. available[n] + LimitsOf(Holding(n)) = Capacity[n]
    BY DEF SafeInv, AccountsInv, Held, LimitsOf
  <2>7. LimitsOf(Holding(n)) \in Nat /\ Demand(S) \in Nat /\ available[n] \in Nat
    BY <1>3, <2>3, LimitsOfFacts, DemandFacts DEF TypeInv, RowsOK
  <2>8. available'[n] + LimitsOf(Holding(n)') = Capacity[n]
    BY <1>2, <2>4, <2>5, <2>6, <2>7
  <2>9. \A m \in Nodes : m # n => Holding(m)' = Holding(m) /\ available'[m] = available[m]
    BY <1>2, <1>4, <1>5 DEF Holding
  <2>10. ASSUME NEW m \in Nodes PROVE available'[m] + LimitsOf(Holding(m)') = Capacity[m]
    BY <2>8, <2>9 DEF SafeInv, AccountsInv, Held, LimitsOf
  <2>. QED
    BY <2>10 DEF AccountsInv, Held, LimitsOf
<1>. QED
    BY <1>9, <1>10, <1>11 DEF Rest

\* A commit of returned resources: the Task held them until now, and the Node had none.
LEMMA CommitReturns ==
    ASSUME TypeInv, SafeInv, NEW p \in Processes, Apply(p), Returns(tx[p])
    PROVE  Rest'
<1> DEFINE w == tx[p]
<1>1. PICK t \in TaskIds :
        /\ w.event \in published /\ w.event.type = "terminated" /\ w.event.of = t
        /\ job[t[1]] = "SCHEDULED"
        /\ w.job = One(t[1], "FINISHED") \/ (w.job = One(t[1], "PENDING") /\ task[t].status \in Ended)
        /\ w.task = Empty
        /\ task[t].node \in Nodes /\ available[task[t].node] = 0 /\ w.available = One(task[t].node, Limit[t[1]])
    BY DEF Returns
<1> DEFINE c == t[1]
<1>n. PICK n \in Nodes : n = task[t].node
    BY <1>1
<1>2. c \in Containers /\ n \in Nodes /\ task[t] # NoTask /\ t \in TasksOf(c) /\ Limit[c] \in Nat
    BY <1>1, NoneAssumption, LimitAssumption DEF NoTask, TaskIds, TasksOf
<1>3. w.event \in published \ processed /\ w.event # None
    BY <1>1, NoEventIsNone DEF TypeInv, ProcessesOK, ProcessOK, WritesOK
<1>4. ~Released(t) /\ Busy(t)
    BY <1>1, <1>2, <1>3, StagedNotReleased DEF SafeInv, Busy
<1>5. /\ \A d \in Containers : d # c => job'[d] = job[d]
      /\ job'[c] = "FINISHED" \/ (job'[c] = "PENDING" /\ task[t].status \in Ended)
      /\ \A u \in TaskIds : task'[u] = task[u]
      /\ \A m \in Nodes : available'[m] = IF m = n THEN Limit[c] ELSE available[m]
      /\ tx'[p] = NoTx /\ \A q \in Processes \ {p} : tx'[q] = tx[q]
      /\ processed' = processed \cup {w.event} /\ published' = published
    BY <1>1, <1>n, <1>2, <1>3, CommitRows DEF One, Empty
<1>6. \A u \in TaskIds : Released(u)' <=> Released(u) \/ u = t
    BY <1>1, <1>5 DEF Released
<1>7. TerminatedInv'
  <2>1. ASSUME NEW u \in TaskIds
        PROVE  /\ \A e, f \in TerminatedEvents(u)' : e = f
               /\ TerminatedEvents(u)' # {} <=> task'[u].status \in Ended \/ EndStaged(u)'
    <3>1. /\ TerminatedEvents(u)' = TerminatedEvents(u)
          /\ \A e, f \in TerminatedEvents(u) : e = f
          /\ TerminatedEvents(u) # {} <=> task[u].status \in Ended \/ EndStaged(u)
      BY <1>5 DEF TerminatedEvents, SafeInv, TerminatedInv
    <3>2. EndStaged(u)' <=> EndStaged(u)
      BY <1>1, <1>5 DEF EndStaged, NoTx, Empty
    <3>. QED
      BY <1>5, <3>1, <3>2
  <2>. QED
    BY <2>1 DEF TerminatedInv
<1>. HIDE DEF w
<1>8. JobsInv'
  <2>1. ASSUME NEW d \in Containers
        PROVE  /\ job'[d] \in {"absent", "NEW", "PENDING"} => \A u \in TasksOf(d) : ~Busy(u)'
               /\ job'[d] = "SCHEDULED" => \E u \in TasksOf(d) : /\ task'[u] # NoTask /\ ~Released(u)'
                                                               /\ \A v \in TasksOf(d) : Busy(v)' => v = u
               /\ job'[d] \in {"FINISHED", "CANCELLED"} =>
                    \A u, v \in TasksOf(d) : Live(u)' /\ Live(v)' => u = v
    <3>1. TasksOf(d) \subseteq TaskIds /\ \A u \in TasksOf(d) : u[1] = d
      BY DEF TasksOf
    <3>2. \A u \in TasksOf(d) : (Live(u)' <=> Live(u)) /\ (u # t => (Busy(u)' <=> Busy(u)))
      BY <1>5, <1>6, <3>1 DEF Live, Busy
    <3>3. CASE d = c
      <4>1. \A u \in TasksOf(c) : Busy(u) => u = t
        BY <1>1, <1>2, <1>4 DEF SafeInv, JobsInv
      <4>2. \A u \in TasksOf(c) : u # t => ~Busy(u)' /\ ~Live(u)'
        BY <3>2, <3>3, <4>1 DEF Busy
      <4>3. CASE job'[c] = "FINISHED"
        BY <3>3, <4>2, <4>3
      <4>4. CASE job'[c] = "PENDING" /\ task[t].status \in Ended
        <5>1. ~Live(t)' /\ Released(t)'
          BY <1>5, <1>6, <4>4 DEF Live, Ended
        <5>2. ~Busy(t)'
          BY <5>1 DEF Busy
        <5>. QED
          BY <3>3, <4>2, <4>4, <5>2
      <4>. QED
        BY <1>5, <4>3, <4>4
    <3>4. CASE d # c
      <4>1. job'[d] = job[d] /\ t \notin TasksOf(d)
        BY <1>5, <3>1, <3>4
      <4>2. \A u \in TasksOf(d) : task'[u] = task[u] /\ (Released(u)' <=> Released(u)) /\ (Busy(u)' <=> Busy(u))
        BY <1>5, <1>6, <3>1, <3>2, <4>1
      <4>. QED
        BY <3>2, <4>1, <4>2 DEF SafeInv, JobsInv
    <3>. QED
      BY <3>3, <3>4
  <2>. QED
    BY <2>1 DEF JobsInv, TasksOf
<1>9. AccountsInv'
  <2>1. Holding(n) \in SUBSET TaskIds /\ t \in Holding(n)
    BY <1>n, <1>4 DEF Holding
  <2>2. Holding(n)' = Holding(n) \ {t}
    BY <1>n, <1>5, <1>6 DEF Holding
  <2>3. LimitsOf(Holding(n)) = Limit[c] + LimitsOf(Holding(n) \ {t})
    BY <2>1, LimitsOfFacts
  <2>4. LimitsOf(Holding(n) \ {t}) \in Nat
    BY <2>1, LimitsOfFacts
  <2>5. 0 + LimitsOf(Holding(n)) = Capacity[n]
    BY <1>1, <1>n, <1>2 DEF SafeInv, AccountsInv, Held, LimitsOf
  <2>. HIDE DEF c
  <2>6. available'[n] + LimitsOf(Holding(n)') = Capacity[n]
    BY <1>2, <1>5, <2>2, <2>3, <2>4, <2>5
  <2>7. \A m \in Nodes : m # n => Holding(m)' = Holding(m) /\ available'[m] = available[m]
    BY <1>n, <1>5, <1>6 DEF Holding
  <2>8. ASSUME NEW m \in Nodes PROVE available'[m] + LimitsOf(Holding(m)') = Capacity[m]
    BY <2>6, <2>7 DEF SafeInv, AccountsInv, Held, LimitsOf
  <2>. QED
    BY <2>8 DEF AccountsInv, Held, LimitsOf
<1>. QED
    BY <1>7, <1>8, <1>9 DEF Rest

\* A commit keeps SafeInv, whatever the kind of its transaction.
LEMMA CommitSafe ==
    ASSUME TypeInv, SafeInv, NEW p \in Processes, Apply(p)
    PROVE  SafeInv'
<1>1. StagedInv'
    BY CommitStaged DEF SafeInv
<1>2. Schedules(tx[p]) \/ Ends(tx[p]) \/ Returns(tx[p])
    BY DEF SafeInv, StagedInv
<1>. QED
    BY <1>1, <1>2, CommitSchedules, CommitEnds, CommitReturns DEF Rest, SafeInv

-----------------------------------------------------------------------------
(* The steps that are no part of a transaction. *)

\* A step that touches no table but the status of Nodes, and publishes nothing that
\* is terminated.
LEMMA ElsewhereSafe ==
    ASSUME SafeInv, UNCHANGED <<available, job, task, processed, tx>>,
           published \subseteq published', \A e \in published' \ published : e.type # "terminated"
    PROVE  SafeInv'
<1>1. StagedInv'
  <2>1. \A q \in Processes : Schedules(tx[q]) => Schedules(tx[q])'
    BY DEF Schedules
  <2>2. \A q \in Processes : Ends(tx[q]) => Ends(tx[q])'
    BY DEF Ends, Live
  <2>3. \A q \in Processes : Returns(tx[q]) => Returns(tx[q])'
    BY DEF Returns
  <2>. QED
    BY <2>1, <2>2, <2>3 DEF SafeInv, StagedInv
<1>2. \A t : TerminatedEvents(t)' = TerminatedEvents(t)
    BY DEF TerminatedEvents
<1>3. TerminatedInv'
    BY <1>2 DEF SafeInv, TerminatedInv, EndStaged
<1>4. JobsInv' /\ AccountsInv'
    BY DEF SafeInv, JobsInv, AccountsInv, Busy, Live, Released, TasksOf, Held, Holding
<1>. QED
    BY <1>1, <1>3, <1>4 DEF SafeInv

\* A Job that is not scheduled changes to another such status.
LEMMA WaitingSafe ==
    ASSUME SafeInv, NEW c \in Containers, NEW s \in {"NEW", "PENDING"}, job[c] \in {"absent", "NEW"},
           job' = [job EXCEPT ![c] = s], job \in [Containers -> JobStatus],
           UNCHANGED <<available, task, processed, tx>>,
           \A q \in Processes : DOMAIN tx[q].job \subseteq Containers,
           published \subseteq published', \A e \in published' \ published : e.type # "terminated"
    PROVE  SafeInv'
<1>1. \A d \in Containers : d # c => job'[d] = job[d]
    OBVIOUS
<1>2. job'[c] = s
    OBVIOUS
<1>3. StagedInv'
  <2>1. ASSUME NEW q \in Processes, Schedules(tx[q]) PROVE Schedules(tx[q])'
    <3>1. \A d \in DOMAIN tx[q].job : job'[d] = job[d]
      BY <1>1, <2>1 DEF Schedules
    <3>. QED
      BY <2>1, <3>1 DEF Schedules
  <2>2. \A q \in Processes : Ends(tx[q]) => Ends(tx[q])'
    BY DEF Ends, Live
  <2>3. ASSUME NEW q \in Processes, Returns(tx[q]) PROVE Returns(tx[q])'
    <3>1. \A t \in TaskIds : job[t[1]] = "SCHEDULED" => job'[t[1]] = "SCHEDULED"
      BY <1>1 DEF TaskIds
    <3>. QED
      BY <2>3, <3>1 DEF Returns
  <2>. QED
    BY <2>1, <2>2, <2>3 DEF SafeInv, StagedInv
<1>4. TerminatedInv'
  <2>1. \A t : TerminatedEvents(t)' = TerminatedEvents(t)
    BY DEF TerminatedEvents
  <2>. QED
    BY <2>1 DEF SafeInv, TerminatedInv, EndStaged
<1>5. \A t \in TaskIds : (Busy(t)' <=> Busy(t)) /\ (Live(t)' <=> Live(t)) /\ (Released(t)' <=> Released(t))
    BY DEF Busy, Live, Released
<1>6. JobsInv'
  <2>1. ASSUME NEW d \in Containers
        PROVE  /\ job'[d] \in {"absent", "NEW", "PENDING"} => \A t \in TasksOf(d) : ~Busy(t)'
               /\ job'[d] = "SCHEDULED" => \E t \in TasksOf(d) : /\ task'[t] # NoTask /\ ~Released(t)'
                                                               /\ \A u \in TasksOf(d) : Busy(u)' => u = t
               /\ job'[d] \in {"FINISHED", "CANCELLED"} =>
                    \A t, u \in TasksOf(d) : Live(t)' /\ Live(u)' => t = u
    <3>1. TasksOf(d) \subseteq TaskIds
      BY DEF TasksOf
    <3>2. CASE d = c
      BY <1>2, <1>5, <3>1, <3>2 DEF SafeInv, JobsInv
    <3>3. CASE d # c
      BY <1>1, <1>5, <3>1, <3>3 DEF SafeInv, JobsInv
    <3>. QED
      BY <3>2, <3>3
  <2>. QED
    BY <2>1 DEF JobsInv, TasksOf
<1>7. AccountsInv'
    BY DEF SafeInv, AccountsInv, Held, Holding, Released
<1>. QED
    BY <1>3, <1>4, <1>6, <1>7 DEF SafeInv

\* A Task that no transaction has locked finishes.
LEMMA FinishesSafe ==
    ASSUME TypeInv, SafeInv, NEW t \in TaskIds, TaskFinishes(t)
    PROVE  SafeInv'
<1> DEFINE e == Event("terminated", t)
<1>1. /\ Live(t) /\ \A q \in Processes : t \notin tx[q].rows
      /\ \A u \in TaskIds : u # t => task'[u] = task[u]
      /\ task'[t] = [status |-> "finished", node |-> task[t].node]
      /\ published' = published \cup {e} /\ UNCHANGED <<available, job, processed, tx>>
    BY TaskFacts DEF TaskFinishes, Unlocked, TypeInv, RowsOK, local, Ended
<1>2. e.type = "terminated" /\ e.of = t
    BY EventFacts DEF TypeInv
<1>. HIDE DEF e
<1>3. task[t] # NoTask /\ task[t].status \notin Ended
    BY <1>1, TaskFacts DEF TypeInv
<1>4. \A u \in TaskIds : /\ task'[u].node = task[u].node /\ (Live(u)' => Live(u))
                         /\ task[u] = NoTask <=> task'[u] = NoTask
                         /\ task[u].status \in Ended => task'[u] = task[u]
                         /\ Released(u)' <=> Released(u)
    BY <1>1, <1>3 DEF Live, Released, NoTask
<1>5. StagedInv'
  <2>1. ASSUME NEW q \in Processes, Schedules(tx[q]) PROVE Schedules(tx[q])'
    <3>1. DOMAIN tx[q].task \subseteq TaskIds
      BY DEF TypeInv, ProcessesOK, ProcessOK, WritesOK
    <3>. QED
      BY <1>1, <1>4, <2>1, <3>1 DEF Schedules
  <2>2. ASSUME NEW q \in Processes, Ends(tx[q]) PROVE Ends(tx[q])'
    <3>1. DOMAIN tx[q].task \subseteq TaskIds
      BY DEF TypeInv, ProcessesOK, ProcessOK, WritesOK
    <3>2. \A u \in DOMAIN tx[q].task : task'[u] = task[u]
      BY <1>1, <2>2, <3>1 DEF Ends
    <3>. QED
      BY <1>1, <2>2, <3>2 DEF Ends, Live
  <2>3. ASSUME NEW q \in Processes, Returns(tx[q]) PROVE Returns(tx[q])'
    BY <1>1, <1>4, <2>3 DEF Returns
  <2>. QED
    BY <2>1, <2>2, <2>3 DEF SafeInv, StagedInv
<1>6. TerminatedInv'
  <2>1. ASSUME NEW u \in TaskIds
        PROVE  /\ \A g, f \in TerminatedEvents(u)' : g = f
               /\ TerminatedEvents(u)' # {} <=> task'[u].status \in Ended \/ EndStaged(u)'
    <3>1. /\ \A g, f \in TerminatedEvents(u) : g = f
          /\ TerminatedEvents(u) # {} <=> task[u].status \in Ended \/ EndStaged(u)
          /\ EndStaged(u)' <=> EndStaged(u)
      BY <1>1 DEF SafeInv, TerminatedInv, EndStaged
    <3>2. CASE u = t
      <4>1. ~EndStaged(t)
        BY <1>1, EndsIsLocked DEF EndStaged, SafeInv
      <4>2. TerminatedEvents(t)' = TerminatedEvents(t) \cup {e}
        BY <1>1, <1>2 DEF TerminatedEvents
      <4>. QED
        BY <1>1, <1>3, <3>1, <3>2, <4>1, <4>2 DEF Ended
    <3>3. CASE u # t
      <4>1. TerminatedEvents(u)' = TerminatedEvents(u)
        BY <1>1, <1>2, <3>3 DEF TerminatedEvents
      <4>. QED
        BY <1>1, <3>1, <3>3, <4>1
    <3>. QED
      BY <3>2, <3>3
  <2>. QED
    BY <2>1 DEF TerminatedInv
<1>7. JobsInv'
  <2>1. \A u \in TaskIds : Busy(u)' => Busy(u)
    BY <1>4 DEF Busy
  <2>2. ASSUME NEW c \in Containers
        PROVE  /\ job'[c] \in {"absent", "NEW", "PENDING"} => \A u \in TasksOf(c) : ~Busy(u)'
               /\ job'[c] = "SCHEDULED" => \E u \in TasksOf(c) : /\ task'[u] # NoTask /\ ~Released(u)'
                                                               /\ \A v \in TasksOf(c) : Busy(v)' => v = u
               /\ job'[c] \in {"FINISHED", "CANCELLED"} =>
                    \A u, v \in TasksOf(c) : Live(u)' /\ Live(v)' => u = v
    <3>1. TasksOf(c) \subseteq TaskIds /\ job'[c] = job[c]
      BY <1>1 DEF TasksOf
    <3>. QED
      BY <1>4, <2>1, <3>1 DEF SafeInv, JobsInv
  <2>. QED
    BY <2>2 DEF JobsInv, TasksOf
<1>8. AccountsInv'
  <2>1. \A n \in Nodes : Holding(n)' = Holding(n)
    BY <1>4 DEF Holding
  <2>. QED
    BY <1>1, <2>1 DEF SafeInv, AccountsInv, Held
<1>. QED
    BY <1>5, <1>6, <1>7, <1>8 DEF SafeInv

-----------------------------------------------------------------------------
(* The invariant. *)

\* Nothing runs, and every Node has its capacity.
LEMMA InitInv == Init => IInv
<1>1. SUFFICES ASSUME Init PROVE IInv
    OBVIOUS
<1>2. RowsOK
    BY <1>1, CapacityAssumption DEF Init, RowsOK, JobStatus, TaskRows
<1>3. EventsOK
    BY <1>1, FS_EmptySet DEF Init, EventsOK
<1>4. \A p \in Processes : tx[p] = NoTx
    BY <1>1 DEF Init
<1>5. WritesOK(NoTx)
    BY DEF WritesOK, NoTx, Empty
<1>6. ProcessesOK
  <2>1. \A p \in Processes : pc[p] = "idle" /\ tx[p] = NoTx /\ WritesOK(tx[p])
    BY <1>1, <1>4, <1>5 DEF Init
  <2>2. pc \in [Processes -> {"idle", "loaded", "locked", "staged", "leaked"}] /\ DOMAIN struct = Processes /\ DOMAIN tx = Processes
    BY <1>1 DEF Init
  <2>3. disturbed \in BOOLEAN /\ failures \in 0 .. MaxFailures
    <3>1. disturbed = FALSE /\ failures = 0
      BY <1>1 DEF Init
    <3>2. disturbed \in BOOLEAN
      BY <3>1
    <3>3. failures \in 0 .. MaxFailures
      BY <3>1, BoundsAssumption
    <3>. QED
      BY <3>2, <3>3
  <2>. QED
    BY <2>1, <2>2, <2>3 DEF ProcessesOK, ProcessOK
<1>7. LocksInv
    BY <1>4 DEF LocksInv, NoTx
<1>8. StagedInv
    BY <1>4 DEF StagedInv, Ends, NoTx, Empty
<1>9. \A t \in TaskIds : /\ TerminatedEvents(t) = {} /\ ~EndStaged(t) /\ task[t] = NoTask
                         /\ task[t].status \notin Ended /\ ~Live(t) /\ task[t].node \notin Nodes
    BY <1>1, <1>4, NoneAssumption DEF Init, TerminatedEvents, EndStaged, NoTx, Empty, NoTask, Ended, Live
<1>10. TerminatedInv
    BY <1>9 DEF TerminatedInv
<1>11. JobsInv
    BY <1>1, <1>9 DEF Init, JobsInv, Busy, TasksOf
<1>12. AccountsInv
  <2>1. \A n \in Nodes : Holding(n) = {}
    BY <1>9 DEF Holding
  <2>2. LimitsOf({}) = 0
    BY SameOperators, Limits!SumEmpty DEF LimitsOf
  <2>3. \A n \in Nodes : available[n] + LimitsOf(Holding(n)) = Capacity[n]
    BY <1>1, <2>1, <2>2, CapacityAssumption DEF Init
  <2>. QED
    BY <2>3 DEF AccountsInv, Held, LimitsOf
<1>. QED
    BY <1>2, <1>3, <1>6, <1>7, <1>8, <1>10, <1>11, <1>12 DEF IInv, TypeInv, SafeInv

\* A transaction begins.
LEMMA BeginsStep ==
    ASSUME IInv, NEW p \in Processes, NEW w, NEW sent, SafelyBegins(p, w, sent)
    PROVE  IInv'
<1>1. TypeInv'
    BY BeginsType DEF IInv, SafelyBegins
<1>2. ~disturbed' => SafeInv'
    BY BeginsSafe DEF IInv, SafelyBegins
<1>. QED
    BY <1>1, <1>2 DEF IInv

\* A process gives up.
LEMMA LeavesStep ==
    ASSUME IInv, NEW p \in Processes, NEW sent, Leaves(p, sent)
    PROVE  IInv'
<1>1. TypeInv'
    BY LeavesType DEF IInv
<1>2. ~disturbed' => SafeInv'
    BY LeavesSafe DEF IInv, Leaves
<1>. QED
    BY <1>1, <1>2 DEF IInv

\* One or the other.
LEMMA ProceedsStep == ASSUME IInv, NEW p \in Processes, Proceeds(p) PROVE IInv'
BY BeginsStep, LeavesStep DEF Proceeds

\* A struct is loaded.
LEMMA LoadStep ==
    ASSUME IInv, NEW p \in Processes, NEW op, NEW e, NEW x, NEW seen, Load(p, op, e, x, seen),
           LoadedOK([op |-> op, event |-> e, of |-> x, seen |-> seen])
    PROVE  IInv'
<1>1. TypeInv'
    BY LoadType DEF IInv
<1>2. SafeInv => SafeInv'
  <2>1. published' = published /\ UNCHANGED <<available, job, task, processed, tx>>
    BY DEF Load, rows, events
  <2>. QED
    BY <2>1, ElsewhereSafe
<1>. QED
    BY <1>1, <1>2 DEF IInv, Load

\* A step of a handler.
LEMMA HandlerStep ==
    ASSUME IInv, NEW p \in Processes, Handler(p)
    PROVE  IInv'
<1>1. TypeInv
    BY DEF IInv
<1>2. CASE \E e \in Deliverable("pending") : JobUpdated(p, e)
    BY <1>1, <1>2, JobUpdatedBegins, ProceedsStep
<1>3. ASSUME NEW e \in published, NoSuitableNode(p, e) \/ AlreadyProcessed(p, e) PROVE IInv'
  <2>1. published' = published \cup {} /\ UNCHANGED <<rows, processed, local, disturbed, failures>>
    BY <1>3 DEF NoSuitableNode, AlreadyProcessed
  <2>2. acked \subseteq acked' /\ acked' \subseteq published'
    BY <1>1, <1>3, <2>1 DEF NoSuitableNode, AlreadyProcessed, TypeInv, EventsOK
  <2>3. RowsOK'
    BY <1>1, <2>1 DEF TypeInv, RowsOK, rows
  <2>4. \A t \in TaskIds : task[t] # NoTask => task'[t] # NoTask
    BY <2>1 DEF rows
  <2>5. TypeInv'
    <3>1. disturbed' \in BOOLEAN /\ failures' \in 0 .. MaxFailures
      BY <1>1, <2>1 DEF TypeInv, ProcessesOK
    <3>. QED
      BY <1>1, <2>1, <2>2, <2>3, <2>4, <3>1, FS_EmptySet, OutsideType
  <2>6. UNCHANGED <<available, job, task, processed, tx>>
    BY <2>1 DEF rows, local
  <2>7. SafeInv => SafeInv'
    BY <2>1, <2>6, ElsewhereSafe
  <2>. QED
    BY <2>1, <2>5, <2>7 DEF IInv
<1>4. ASSUME NEW e \in Deliverable("online"), LoadNode(p, e) PROVE IInv'
  <2>1. /\ Load(p, "NodeUpdated", e, e.of, available[e.of])
        /\ e \in published /\ e.type = "online" /\ e.of \in Nodes /\ available[e.of] \in Nat
    BY <1>1, <1>4 DEF LoadNode, Deliverable, TypeInv, EventsOK, OfItsKind, RowsOK
  <2>2. LoadedOK([op |-> "NodeUpdated", event |-> e, of |-> e.of, seen |-> available[e.of]])
    BY <2>1 DEF LoadedOK
  <2>. QED
    BY <2>1, <2>2, LoadStep
<1>5. CASE \E e \in Deliverable("offline") : NodeDisconnected(p, e)
    BY <1>1, <1>5, NodeDisconnectedBegins, ProceedsStep
<1>6. ASSUME NEW e \in Deliverable("terminated"), LoadTask(p, e) PROVE IInv'
  <2>1. /\ Load(p, "TaskTerminated", e, e.of[1], <<task[e.of], job[e.of[1]]>>)
        /\ e \in published /\ e.type = "terminated"
    BY <1>1, <1>6 DEF LoadTask, Deliverable
  <2>2. LoadedOK([op |-> "TaskTerminated", event |-> e, of |-> e.of[1], seen |-> <<task[e.of], job[e.of[1]]>>])
    BY <2>1 DEF LoadedOK
  <2>. QED
    BY <2>1, <2>2, LoadStep
<1>7. CASE NodeUpdated(p)
    BY <1>1, <1>7, NodeUpdatedBegins, ProceedsStep
<1>8. CASE TaskTerminated(p)
    BY <1>1, <1>8, TaskTerminatedBegins, ProceedsStep
<1>. QED
    BY <1>2, <1>3, <1>4, <1>5, <1>6, <1>7, <1>8 DEF Handler, Deliverable

\* A step of an RPC.
LEMMA RequestStep ==
    ASSUME IInv, NEW p \in Processes, Request(p)
    PROVE  IInv'
<1>1. TypeInv
    BY DEF IInv
<1>2. ASSUME NEW c \in Containers, LoadJob(p, c) PROVE IInv'
  <2>1. Load(p, "CancelJob", None, c, job[c]) /\ <<job[c], "CANCELLED">> \in JobTransitions
    BY <1>2 DEF LoadJob
  <2>2. LoadedOK([op |-> "CancelJob", event |-> None, of |-> c, seen |-> job[c]])
    BY <2>1 DEF LoadedOK
  <2>. QED
    BY <2>1, <2>2, LoadStep
<1>3. ASSUME NEW t \in TaskIds, LoadTaskToCancel(p, t) PROVE IInv'
  <2>1. Load(p, "CancelTask", None, t, task[t]) /\ task[t] # NoTask /\ task[t].status = "running"
    BY <1>1, <1>3, TaskFacts DEF LoadTaskToCancel, Live, TypeInv
  <2>2. LoadedOK([op |-> "CancelTask", event |-> None, of |-> t, seen |-> task[t]])
    BY <2>1 DEF LoadedOK
  <2>. QED
    BY <2>1, <2>2, LoadStep
<1>4. CASE CancelJob(p)
    BY <1>1, <1>4, CancelJobBegins, ProceedsStep
<1>5. CASE LoadTasks(p) \/ LoadTasksFails(p)
    BY <1>1, <1>5, LockBegins, BeginsStep
<1>6. CASE CancelTask(p)
    BY <1>1, <1>6, CancelTaskBegins, ProceedsStep
<1>. QED
    BY <1>2, <1>3, <1>4, <1>5, <1>6 DEF Request

\* A handler or RPC gives up what it has loaded, or written.
LEMMA GivesUp ==
    ASSUME TypeInv, NEW p \in Processes, Fails(p) \/ Rollback(p)
    PROVE  Leaves(p, {})
<1>1. CASE Fails(p)
  <2>1. tx[p].task = Empty
    BY <1>1 DEF Fails, TypeInv, ProcessesOK, ProcessOK, NoTx
  <2>2. ~EndsTask(p)
    BY <2>1 DEF EndsTask, Empty
  <2>. QED
    BY <1>1, <2>2, FS_EmptySet DEF Fails, Leaves, TypeInv, ProcessesOK
<1>2. CASE Rollback(p)
  <2>1. /\ Abandon(p) /\ failures < MaxFailures /\ failures' = failures + 1
        /\ disturbed' = (disturbed \/ EndsTask(p)) /\ published' = published \cup {}
    BY <1>2 DEF Rollback, Failure
  <2>2. failures' \in 0 .. MaxFailures /\ disturbed' \in BOOLEAN
    BY <2>1, BoundsAssumption DEF TypeInv, ProcessesOK
  <2>. QED
    BY <2>1, <2>2, FS_EmptySet DEF Leaves
<1>. QED
    BY <1>1, <1>2

\* A step of the environment that keeps the tables right and publishes events of their
\* kind.
LEMMA OutsideStep ==
    ASSUME IInv, NEW sent, published' = published \cup sent, UNCHANGED <<processed, acked, local>>,
           disturbed' \in BOOLEAN, disturbed => disturbed', failures' \in 0 .. MaxFailures,
           RowsOK', \A t \in TaskIds : task[t] # NoTask => task'[t] # NoTask,
           IsFiniteSet(sent), sent \subseteq Events, \A e \in sent : OfItsKind(e)',
           SafeInv /\ ~disturbed' => SafeInv'
    PROVE  IInv'
<1>1. acked \subseteq acked' /\ acked' \subseteq published'
    BY DEF IInv, TypeInv, EventsOK
<1>2. TypeInv'
    BY <1>1, OutsideType DEF IInv
<1>. QED
    BY <1>2 DEF IInv

\* A Job is created or confirmed: it was not scheduled before, nor is it now.
LEMMA JobStep ==
    ASSUME IInv, NEW c \in Containers, CreateJob(c) \/ ConfirmJob(c)
    PROVE  IInv'
<1>0. disturbed \in BOOLEAN /\ failures \in 0 .. MaxFailures
    BY DEF IInv, TypeInv, ProcessesOK
<1>1. TypeInv /\ job \in [Containers -> JobStatus] /\ \A q \in Processes : DOMAIN tx[q].job \subseteq Containers
    BY DEF IInv, TypeInv, RowsOK, ProcessesOK, ProcessOK, WritesOK
<1> DEFINE e == Event("pending", c)
<1>2. e \in Events /\ e.type = "pending" /\ e.of = c
    BY <1>1, EventFacts DEF TypeInv
<1>. HIDE DEF e
<1>3. CASE CreateJob(c)
  <2>1. /\ job[c] = "absent" /\ job' = [job EXCEPT ![c] = "NEW"]
        /\ UNCHANGED <<online, available, task, processed, acked, local, tx, disturbed, failures>>
        /\ published' = published \cup {}
    BY <1>3 DEF CreateJob, events, local
  <2>2. RowsOK'
    BY <1>1, <2>1 DEF TypeInv, RowsOK, JobStatus
  <2>3. SafeInv => SafeInv'
    BY <1>1, <2>1, WaitingSafe
  <2>. QED
    BY <1>0, <2>1, <2>2, <2>3, FS_EmptySet, OutsideStep
<1>4. CASE ConfirmJob(c)
  <2>1. /\ job[c] = "NEW" /\ job' = [job EXCEPT ![c] = "PENDING"]
        /\ UNCHANGED <<online, available, task, processed, acked, local, tx, disturbed, failures>>
        /\ published' = published \cup {e}
    BY <1>4 DEF ConfirmJob, local, e
  <2>2. RowsOK'
    BY <1>1, <2>1 DEF TypeInv, RowsOK, JobStatus
  <2>3. SafeInv => SafeInv'
    BY <1>1, <1>2, <2>1, WaitingSafe
  <2>4. IsFiniteSet({e}) /\ \A f \in {e} : OfItsKind(f)'
    BY <1>2, FS_Singleton DEF OfItsKind
  <2>. QED
    BY <1>0, <1>2, <2>1, <2>2, <2>3, <2>4, OutsideStep
<1>. QED
    BY <1>3, <1>4

\* A Node comes ONLINE or goes OFFLINE.
LEMMA NodeStep ==
    ASSUME IInv, NEW n \in Nodes, Connect(n) \/ Disconnect(n)
    PROVE  IInv'
<1>1. TypeInv /\ online \in [Nodes -> BOOLEAN] /\ disturbed \in BOOLEAN /\ failures \in 0 .. MaxFailures
    BY DEF IInv, TypeInv, RowsOK, ProcessesOK
<1>2. PICK type \in {"online", "offline"} :
        /\ published' = published \cup {Event(type, n)}
        /\ UNCHANGED <<available, job, task, processed, acked, local, disturbed, failures>>
        /\ online' \in [Nodes -> BOOLEAN]
    BY <1>1 DEF Connect, Disconnect
<1> DEFINE e == Event(type, n)
<1>3. e \in Events /\ e.type = type /\ e.of = n
    BY <1>1, EventFacts DEF TypeInv
<1>4. published' = published \cup {e}
    BY <1>2
<1>. HIDE DEF e
<1>5. RowsOK'
    BY <1>1, <1>2 DEF TypeInv, RowsOK
<1>6. SafeInv => SafeInv'
  <2>1. UNCHANGED <<available, job, task, processed, tx>>
    BY <1>2 DEF local
  <2>. QED
    BY <1>3, <1>4, <2>1, ElsewhereSafe
<1>7. IsFiniteSet({e}) /\ \A f \in {e} : OfItsKind(f)'
    BY <1>3, FS_Singleton DEF OfItsKind
<1>. QED
    BY <1>1, <1>2, <1>3, <1>4, <1>5, <1>6, <1>7, OutsideStep

\* A Task ends on its Node.
LEMMA TaskStep ==
    ASSUME IInv, NEW t \in TaskIds, TaskFinishes(t)
    PROVE  IInv'
<1>1. TypeInv /\ task \in [TaskIds -> TaskRows] /\ disturbed \in BOOLEAN /\ failures \in 0 .. MaxFailures
    BY DEF IInv, TypeInv, RowsOK, ProcessesOK
<1> DEFINE e == Event("terminated", t)
<1>2. e \in Events /\ e.type = "terminated" /\ e.of = t
    BY <1>1, EventFacts DEF TypeInv
<1>3. /\ published' = published \cup {e} /\ Live(t)
      /\ UNCHANGED <<online, available, job, processed, acked, local, disturbed, failures>>
      /\ task' = [task EXCEPT ![t].status = "finished"]
    BY DEF TaskFinishes
<1>. HIDE DEF e
<1>4. task'[t] = [status |-> "finished", node |-> task[t].node] /\ task[t].node \in Nodes
    BY <1>1, <1>3, TaskFacts DEF TypeInv, Ended
<1>5. task'[t] \in TaskRows /\ task'[t] # NoTask
    BY <1>4 DEF TaskRows, Ended, NoTask
<1>6. RowsOK'
    BY <1>1, <1>3, <1>5 DEF TypeInv, RowsOK
<1>7. \A u \in TaskIds : task[u] # NoTask => task'[u] # NoTask
    BY <1>1, <1>3, <1>5
<1>8. SafeInv => SafeInv'
    BY <1>1, FinishesSafe
<1>9. IsFiniteSet({e}) /\ \A f \in {e} : OfItsKind(f)'
    BY <1>2, <1>5, FS_Singleton DEF OfItsKind
<1>. QED
    BY <1>1, <1>2, <1>3, <1>6, <1>7, <1>8, <1>9, OutsideStep

\* An event is announced in vain.
LEMMA AnnounceStep ==
    ASSUME IInv, AnnounceInVain
    PROVE  IInv'
<1>1. TypeInv /\ RowsOK /\ disturbed \in BOOLEAN /\ failures \in 0 .. MaxFailures
    BY DEF IInv, TypeInv, ProcessesOK
<1>2. ASSUME NEW e \in Events, OfItsKind(e), Announce(e) PROVE IInv'
  <2>1. /\ published' = published \cup {e} /\ UNCHANGED <<rows, processed, acked, local>>
        /\ disturbed' = (disturbed \/ e.type = "terminated")
        /\ failures < MaxFailures /\ failures' = failures + 1
    BY <1>2 DEF Announce, Failure
  <2>2. disturbed' \in BOOLEAN /\ failures' \in 0 .. MaxFailures
    BY <1>1, <2>1, BoundsAssumption
  <2>3. RowsOK' /\ UNCHANGED <<available, job, task, tx>>
    BY <1>1, <2>1 DEF RowsOK, rows, local
  <2>4. IsFiniteSet({e}) /\ \A f \in {e} : OfItsKind(f)'
    BY <1>2, <2>3, FS_Singleton DEF OfItsKind
  <2>5. SafeInv /\ ~disturbed' => SafeInv'
    <3>1. ~disturbed' => e.type # "terminated"
      BY <2>1
    <3>2. published \subseteq published' /\ \A f \in published' \ published : f = e
      BY <2>1
    <3>3. UNCHANGED <<available, job, task, processed, tx>>
      BY <2>1, <2>3
    <3>. QED
      BY <3>1, <3>2, <3>3, ElsewhereSafe
  <2>. QED
    BY <1>2, <2>1, <2>2, <2>3, <2>4, <2>5, OutsideStep
<1>3. ASSUME NEW c \in Containers, Announce(Event("pending", c)) PROVE IInv'
  <2>1. Event("pending", c) \in Events /\ OfItsKind(Event("pending", c))
    BY <1>1, EventFacts DEF OfItsKind, TypeInv
  <2>. QED
    BY <1>2, <1>3, <2>1
<1>4. ASSUME NEW n \in Nodes, NEW type \in {"online", "offline"}, Announce(Event(type, n)) PROVE IInv'
  <2>1. Event(type, n) \in Events /\ OfItsKind(Event(type, n))
    BY <1>1, EventFacts DEF OfItsKind, TypeInv
  <2>. QED
    BY <1>2, <1>4, <2>1
<1>5. ASSUME NEW t \in TaskIds, Live(t), Announce(Event("terminated", t)) PROVE IInv'
  <2>1. Event("terminated", t) \in Events /\ OfItsKind(Event("terminated", t))
    BY <1>1, <1>5, EventFacts, TaskFacts DEF OfItsKind, TypeInv
  <2>. QED
    BY <1>2, <1>5, <2>1
<1>. QED
    BY <1>3, <1>4, <1>5 DEF AnnounceInVain

\* IInv holds in every state.
LEMMA Invariant == Spec => []IInv
<1>1. IInv /\ [Next]_vars => IInv'
  <2>1. SUFFICES ASSUME IInv, [Next]_vars PROVE IInv'
    OBVIOUS
  <2>2. ASSUME NEW p \in Processes, Handler(p) PROVE IInv'
    BY <2>1, <2>2, HandlerStep
  <2>3. ASSUME NEW p \in Processes, Request(p) PROVE IInv'
    BY <2>1, <2>3, RequestStep
  <2>4. ASSUME NEW p \in Processes, Commit(p) \/ CommitUnacked(p) PROVE IInv'
    <3>1. Apply(p)
      BY <2>4 DEF Commit, CommitUnacked
    <3>. QED
      BY <2>1, <2>4, <3>1, CommitType, CommitSafe, CommitRows DEF IInv
  <2>5. ASSUME NEW p \in Processes, Fails(p) \/ Rollback(p) PROVE IInv'
    BY <2>1, <2>5, GivesUp, LeavesStep DEF IInv
  <2>6. ASSUME NEW c \in Containers, CreateJob(c) \/ ConfirmJob(c) PROVE IInv'
    BY <2>1, <2>6, JobStep
  <2>7. ASSUME NEW n \in Nodes, Connect(n) \/ Disconnect(n) PROVE IInv'
    BY <2>1, <2>7, NodeStep
  <2>8. ASSUME NEW t \in TaskIds, TaskFinishes(t) PROVE IInv'
    BY <2>1, <2>8, TaskStep
  <2>9. CASE UNCHANGED vars
    <3>1. UNCHANGED <<online, available, job, task, published, processed, acked, local, pc, struct, tx, disturbed, failures>>
      BY <2>9 DEF vars, rows, events, local
    <3>2. RowsOK'
      BY <2>1, <3>1 DEF IInv, TypeInv, RowsOK
    <3>3. published' = published \cup {} /\ UNCHANGED <<available, job, task, processed, tx>>
      BY <3>1
    <3>4. SafeInv => SafeInv'
      BY <3>3, ElsewhereSafe
    <3>5. disturbed' \in BOOLEAN /\ failures' \in 0 .. MaxFailures
      BY <2>1, <3>1 DEF IInv, TypeInv, ProcessesOK
    <3>. QED
      BY <2>1, <3>1, <3>2, <3>3, <3>4, <3>5, FS_EmptySet, OutsideStep
  <2>10. CASE AnnounceInVain
    BY <2>1, <2>10, AnnounceStep
  <2>. QED
    BY <2>1, <2>2, <2>3, <2>4, <2>5, <2>6, <2>7, <2>8, <2>9, <2>10 DEF Next
<1>. QED
    BY InitInv, <1>1, PTL DEF Spec

-----------------------------------------------------------------------------
(* Placement.  A commit is its step, for which three more facts are needed: about the *)
(* uncommitted writes, and about the Job that is locked to be cancelled. *)

\* A transaction that cancels a Job ends all Tasks of the Job that run.
Cancels(w) ==
    \A c \in DOMAIN w.job : w.job[c] = "CANCELLED" =>
        /\ job[c] \in {"NEW", "PENDING", "SCHEDULED"} /\ DOMAIN w.job = {c}
        /\ DOMAIN w.task = {t \in TasksOf(c) : Live(t)}
        /\ \A t \in DOMAIN w.task : w.task[t].status = "cancelled"

\* One that reschedules a Job has found its policy, and that its Task has failed.
Reschedules(w) ==
    \A c \in DOMAIN w.job : w.job[c] = "PENDING" =>
        c \in Reschedule /\ w.event.of \in TaskIds /\ task[w.event.of].status = "failed"

\* From the lock of its Job on, CancelJob knows all Tasks of it that run.
Known(c, seen) ==
    /\ job[c] \in {"NEW", "PENDING", "SCHEDULED"}
    /\ \A t \in TasksOf(c) : Live(t) => t \in seen

LockHeld(p) == pc[p] = "locked" => Known(struct[p].of, struct[p].seen)

IntentInv == \A p \in Processes : Cancels(tx[p]) /\ Reschedules(tx[p]) /\ LockHeld(p)

\* These facts last while the Job that is cancelled does not end, its Tasks go on, and
\* the Task that has failed stays as it is.
LEMMA IntentStays ==
    ASSUME NEW q \in Processes, NEW v, tx'[q] = v, Cancels(v), Reschedules(v),
           \A c \in DOMAIN v.job : v.job[c] = "CANCELLED" =>
               /\ job'[c] = job[c] \/ job'[c] = "PENDING"
               /\ \A t \in TasksOf(c) : Live(t)' <=> Live(t),
           \A t \in TaskIds : task[t].status = "failed" => task'[t] = task[t]
    PROVE  (Cancels(tx[q]) /\ Reschedules(tx[q]))'
<1>1. Cancels(tx[q])'
  <2>1. ASSUME NEW c \in DOMAIN v.job, v.job[c] = "CANCELLED"
        PROVE  {t \in TasksOf(c) : Live(t)} = {t \in TasksOf(c)' : Live(t)'}
    BY <2>1 DEF TasksOf
  <2>. QED
    BY <2>1 DEF Cancels, TasksOf
<1>2. Reschedules(tx[q])'
    BY DEF Reschedules
<1>. QED
    BY <1>1, <1>2

\* So does the third, while the Job is locked and its Tasks do not begin to run.
LEMMA LockStays ==
    ASSUME NEW q \in Processes, LockHeld(q), pc'[q] = pc[q], struct'[q] = struct[q],
           pc[q] = "locked" => /\ job'[struct[q].of] = job[struct[q].of]
                               /\ \A t \in TasksOf(struct[q].of) : Live(t)' => Live(t)
    PROVE  LockHeld(q)'
BY DEF LockHeld, Known, TasksOf

\* A transaction begins or ends: the tables stay as they are, and its writes have the
\* facts.
LEMMA BeginsIntent ==
    ASSUME TypeInv, IntentInv, NEW p \in Processes, NEW w,
           tx' = [tx EXCEPT ![p] = w] \/ (tx' = tx /\ w = tx[p]),
           pc' = [pc EXCEPT ![p] = pc'[p]], struct' = [struct EXCEPT ![p] = struct'[p]],
           UNCHANGED rows, processed' = processed, Cancels(w), Reschedules(w), LockHeld(p)'
    PROVE  UNCHANGED <<available, job, task, processed>> /\ IntentInv'
<1>1. DOMAIN tx = Processes /\ DOMAIN pc = Processes /\ DOMAIN struct = Processes
    BY DEF TypeInv, ProcessesOK
<1>2. job' = job /\ \A t : task'[t] = task[t] /\ (Live(t)' <=> Live(t))
    BY DEF rows, Live
<1>3. ASSUME NEW q \in Processes PROVE (Cancels(tx[q]) /\ Reschedules(tx[q]))' /\ LockHeld(q)'
  <2>1. Cancels(tx'[q]) /\ Reschedules(tx'[q])
    BY <1>1 DEF IntentInv
  <2>2. (Cancels(tx[q]) /\ Reschedules(tx[q]))'
    BY <1>2, <2>1, IntentStays
  <2>3. LockHeld(q)'
    <3>1. CASE q = p
      BY <3>1
    <3>2. CASE q # p
      <4>1. pc'[q] = pc[q] /\ struct'[q] = struct[q] /\ LockHeld(q)
        BY <1>1, <3>2 DEF IntentInv
      <4>. QED
        BY <1>2, <4>1, LockStays
    <3>. QED
      BY <3>1, <3>2
  <2>. QED
    BY <2>2, <2>3
<1>. QED
    BY <1>3 DEF IntentInv, rows

\* Writes to no Job, or to Jobs that are scheduled, have them.
LEMMA NoIntent ==
    ASSUME NEW w, \A c \in DOMAIN w.job : w.job[c] = "SCHEDULED"
    PROVE  Cancels(w) /\ Reschedules(w)
BY DEF Cancels, Reschedules

\* The statements of a transaction.
LEMMA StartsIntent ==
    ASSUME TypeInv, IntentInv, NEW p \in Processes, NEW w, NEW sent, Starts(p, w, sent),
           Cancels(w), Reschedules(w)
    PROVE  UNCHANGED <<available, job, task, processed>> /\ IntentInv'
<1>1. pc'[p] = "staged" /\ pc' = [pc EXCEPT ![p] = pc'[p]] /\ struct' = [struct EXCEPT ![p] = struct'[p]]
    BY DEF Starts, TypeInv, ProcessesOK
<1>2. LockHeld(p)'
    BY <1>1 DEF LockHeld
<1>. QED
    BY <1>1, <1>2, BeginsIntent DEF Starts

\* Its end without a commit.
LEMMA AbandonIntent ==
    ASSUME TypeInv, IntentInv, NEW p \in Processes, Abandon(p)
    PROVE  UNCHANGED <<available, job, task, processed>> /\ IntentInv'
<1>1. pc'[p] = "idle" /\ pc' = [pc EXCEPT ![p] = pc'[p]] /\ struct' = [struct EXCEPT ![p] = struct'[p]]
    BY DEF Abandon, TypeInv, ProcessesOK
<1>2. LockHeld(p)'
    BY <1>1 DEF LockHeld
<1>3. Cancels(NoTx) /\ Reschedules(NoTx)
    BY DEF Cancels, Reschedules, NoTx, Empty
<1>. QED
    BY <1>1, <1>2, <1>3, BeginsIntent DEF Abandon

\* What a process loads before it.
LEMMA LoadIntent ==
    ASSUME TypeInv, IntentInv, NEW p \in Processes, NEW op, NEW e, NEW x, NEW seen, Load(p, op, e, x, seen)
    PROVE  UNCHANGED <<available, job, task, processed>> /\ IntentInv'
<1>1. pc'[p] = "loaded" /\ pc' = [pc EXCEPT ![p] = pc'[p]] /\ struct' = [struct EXCEPT ![p] = struct'[p]]
    BY DEF Load, TypeInv, ProcessesOK
<1>2. LockHeld(p)'
    BY <1>1 DEF LockHeld
<1>3. tx' = tx /\ Cancels(tx[p]) /\ Reschedules(tx[p])
    BY DEF Load, IntentInv
<1>. QED
    BY <1>1, <1>2, <1>3, BeginsIntent DEF Load, events

\* A step that no process takes part in, and no Job or Task.
LEMMA WaitingIntent ==
    ASSUME IntentInv, UNCHANGED <<job, task, local>>
    PROVE  IntentInv'
BY DEF IntentInv, Cancels, Reschedules, LockHeld, Known, TasksOf, Live, local

\* A handler leaves the tables alone, and begins a transaction with these facts.
LEMMA HandlerIntent ==
    ASSUME TypeInv, IntentInv, ~disturbed', NEW p \in Processes, Handler(p)
    PROVE  UNCHANGED <<available, job, task, processed>> /\ IntentInv'
<1>1. ASSUME NEW e \in Deliverable("pending"), JobUpdated(p, e)
      PROVE  UNCHANGED <<available, job, task, processed>> /\ IntentInv'
  <2>1. PICK n \in Nodes :
           \/ Starts(p, Schedule({e.of} \cup {m \in Nodes : online[m]}, e, {e.of}, n, available[n]), {})
           \/ Abandon(p)
    BY <1>1 DEF JobUpdated, Publish, Stage, SendFails, Starts
  <2> DEFINE w == Schedule({e.of} \cup {m \in Nodes : online[m]}, e, {e.of}, n, available[n])
  <2>2. \A c \in DOMAIN w.job : w.job[c] = "SCHEDULED"
    BY DEF Schedule
  <2>. QED
    BY <2>1, <2>2, NoIntent, StartsIntent, AbandonIntent
<1>2. ASSUME NEW e, NoSuitableNode(p, e) \/ AlreadyProcessed(p, e)
      PROVE  UNCHANGED <<available, job, task, processed>> /\ IntentInv'
    BY <1>2, WaitingIntent DEF NoSuitableNode, AlreadyProcessed, rows
<1>3. ASSUME NEW op, NEW e, NEW x, NEW seen, Load(p, op, e, x, seen)
      PROVE  UNCHANGED <<available, job, task, processed>> /\ IntentInv'
    BY <1>3, LoadIntent
<1>4. ASSUME NEW e \in Deliverable("offline"), NodeDisconnected(p, e)
      PROVE  UNCHANGED <<available, job, task, processed>> /\ IntentInv'
  <2> DEFINE lost == {t \in TaskIds : Live(t) /\ task[t].node = e.of}
             w == End(lost, e, lost, "failed")
  <2>1. Starts(p, w, {Event("terminated", t) : t \in lost}) \/ Abandon(p)
    BY <1>4 DEF NodeDisconnected, Publish, Stage, SendFails, Starts
  <2>2. \A c \in DOMAIN w.job : w.job[c] = "SCHEDULED"
    BY DEF End, NoTx, Empty
  <2>. HIDE DEF w
  <2>. QED
    BY <2>1, <2>2, NoIntent, StartsIntent, AbandonIntent
<1>5. CASE NodeUpdated(p)
  <2> DEFINE e == struct[p].event
             n == struct[p].of
             pending == {c \in Containers : job[c] = "PENDING"}
             locked(S) == pending \cup (IF S = {} THEN {} ELSE {n})
  <2>1. PICK S \in SUBSET pending : Starts(p, Schedule(locked(S), e, S, n, struct[p].seen), {}) \/ Abandon(p)
    BY <1>5 DEF NodeUpdated, Publish, Stage, SendFails, Starts
  <2> DEFINE w == Schedule(locked(S), e, S, n, struct[p].seen)
  <2>2. \A c \in DOMAIN w.job : w.job[c] = "SCHEDULED"
    BY DEF Schedule
  <2>3. Starts(p, w, {}) \/ Abandon(p)
    BY <2>1
  <2>. HIDE DEF w
  <2>. QED
    BY <2>2, <2>3, NoIntent, StartsIntent, AbandonIntent
<1>6. CASE TaskTerminated(p)
  <2> DEFINE e == struct[p].event
             t == e.of
             c == struct[p].of
             n == task[t].node
             next == NextJobStatus(c, struct[p].seen[1])
             w == [rows |-> {c, n}, event |-> e, job |-> One(c, next), task |-> Empty, available |-> One(n, 0 + Limit[c])]
             sent == IF next = "PENDING" THEN {Event("pending", c)} ELSE {}
  <2>a. CASE Abandon(p)
    BY <2>a, AbandonIntent
  <2>. SUFFICES ASSUME ~Abandon(p) PROVE UNCHANGED <<available, job, task, processed>> /\ IntentInv'
    BY <2>a
  <2>1. /\ Starts(p, w, sent) /\ struct[p].op = "TaskTerminated" /\ pc[p] = "loaded"
        /\ disturbed' = (disturbed \/ <<task[t], job[c]>> # struct[p].seen \/ available[n] # 0)
    BY <1>6 DEF TaskTerminated, Publish, Stage, SendFails, Starts
  <2>2. t \in TaskIds
    BY <2>1 DEF TypeInv, ProcessesOK, ProcessOK, LoadedOK, EventsOK, OfItsKind
  <2>3. struct[p].seen[1] = task[t]
    <3>1. <<task[t], job[c]>> = struct[p].seen
      BY <2>1
    <3>. HIDE DEF t, c
    <3>. QED
      BY <3>1
  <2>4. w.event = e /\ w.job = One(c, next)
    OBVIOUS
  <2>5. next # "CANCELLED" /\ (next = "PENDING" => c \in Reschedule /\ task[t].status = "failed")
    BY <2>3 DEF NextJobStatus
  <2>. HIDE DEF w, sent, next, c
  <2>6. Cancels(w)
    BY <2>4, <2>5 DEF Cancels, One
  <2>7. Reschedules(w)
    BY <2>2, <2>4, <2>5 DEF Reschedules, One
  <2>. QED
    BY <2>1, <2>6, <2>7, StartsIntent
<1>. QED
    BY <1>1, <1>2, <1>3, <1>4, <1>5, <1>6 DEF Handler, LoadNode, LoadTask

\* So does an RPC.
LEMMA RequestIntent ==
    ASSUME TypeInv, IntentInv, ~disturbed', NEW p \in Processes, Request(p)
    PROVE  UNCHANGED <<available, job, task, processed>> /\ IntentInv'
<1>1. ASSUME NEW op, NEW e, NEW x, NEW seen, Load(p, op, e, x, seen)
      PROVE  UNCHANGED <<available, job, task, processed>> /\ IntentInv'
    BY <1>1, LoadIntent
<1>2. CASE CancelJob(p)
  <2> DEFINE c == struct[p].of
             live == struct[p].seen
             v == End({c} \cup live, None, live, "cancelled")
             w == [v EXCEPT !.job = One(c, "CANCELLED")]
             sent == {Event("terminated", t) : t \in live}
  <2>a. CASE Abandon(p)
    BY <2>a, AbandonIntent
  <2>. SUFFICES ASSUME ~Abandon(p) PROVE UNCHANGED <<available, job, task, processed>> /\ IntentInv'
    BY <2>a
  <2>1. /\ Starts(p, w, sent) /\ pc[p] = "locked"
        /\ disturbed' = (disturbed \/ \E t \in live : ~Live(t))
    BY <1>2 DEF CancelJob, Publish, Stage, SendFails, Starts
  <2>2. Known(c, live) /\ \A t \in live : Live(t)
    BY <2>1 DEF IntentInv, LockHeld
  <2>3. RowsOK /\ \A t \in live : t \in TaskIds /\ task[t] # NoTask /\ t[1] = c
    BY <2>1 DEF TypeInv, ProcessesOK, ProcessOK, LoadedOK
  <2>. HIDE DEF c, live
  <2>4. live = {t \in TasksOf(c) : Live(t)}
    BY <2>2, <2>3 DEF TasksOf, Known
  <2>5. /\ w.job = One(c, "CANCELLED")
        /\ w.task = [t \in live |-> [task[t] EXCEPT !.status = "cancelled"]]
    BY DEF End, NoTx
  <2>. HIDE DEF w, sent
  <2>6. \A t \in live : w.task[t].status = "cancelled"
    <3>1. \A t \in live : [task[t] EXCEPT !.status = "cancelled"].status = "cancelled"
      BY <2>3, TaskFacts DEF Ended
    <3>. QED
      BY <2>5, <3>1
  <2>7. Cancels(w)
    BY <2>2, <2>4, <2>5, <2>6 DEF Cancels, One, Known
  <2>8. Reschedules(w)
    BY <2>5 DEF Reschedules, One
  <2>. QED
    BY <2>1, <2>7, <2>8, StartsIntent
<1>3. CASE LoadTasks(p) \/ LoadTasksFails(p)
  <2> DEFINE c == struct[p].of
             w == LockOf(c)
             s == [NoStruct EXCEPT !.op = "CancelTasks", !.of = c, !.seen = {t \in TaskIds : t[1] = c /\ Live(t)}]
  <2>1. /\ tx' = [tx EXCEPT ![p] = w] /\ UNCHANGED rows /\ processed' = processed
        /\ pc[p] = "loaded" /\ struct[p].op = "CancelJob"
    BY <1>3 DEF LoadTasks, LoadTasksFails, CancelJobRow, events, LockOf
  <2>2. Cancels(w) /\ Reschedules(w)
    <3>1. DOMAIN w.job = {}
      BY DEF LockOf, NoTx, Empty
    <3>. HIDE DEF w
    <3>. QED
      BY <3>1, NoIntent
  <2>3. /\ pc' = [pc EXCEPT ![p] = pc'[p]] /\ struct' = [struct EXCEPT ![p] = struct'[p]]
        /\ LoadTasks(p) \/ pc'[p] # "locked"
    BY <1>3 DEF LoadTasks, LoadTasksFails, TypeInv, ProcessesOK
  <2>4. LockHeld(p)'
    <3>1. SUFFICES ASSUME LoadTasks(p) PROVE LockHeld(p)'
      BY <2>3 DEF LockHeld
    <3>2. struct' = [struct EXCEPT ![p] = s] /\ disturbed' = (disturbed \/ job[c] # struct[p].seen)
      BY <3>1 DEF LoadTasks
    <3>3. s.of = c /\ s.seen = {t \in TaskIds : t[1] = c /\ Live(t)}
      BY DEF NoStruct
    <3>. HIDE DEF s
    <3>4. struct'[p].of = c /\ struct'[p].seen = {t \in TaskIds : t[1] = c /\ Live(t)}
      BY <3>2, <3>3 DEF TypeInv, ProcessesOK
    <3>5. job[c] \in {"NEW", "PENDING", "SCHEDULED"}
      <4>1. <<job[c], "CANCELLED">> \in JobTransitions
        BY <2>1, <3>2 DEF TypeInv, ProcessesOK, ProcessOK, LoadedOK
      <4>. QED
        BY <4>1 DEF JobTransitions, TableTransitions
    <3>. HIDE DEF c
    <3>6. Known(c, {t \in TaskIds : t[1] = c /\ Live(t)})
      BY <3>5 DEF Known, TasksOf
    <3>7. job' = job /\ task' = task
      BY <2>1 DEF rows
    <3>. QED
      BY <3>4, <3>6, <3>7 DEF LockHeld, Known, TasksOf, Live
  <2>. HIDE DEF w
  <2>. QED
    BY <2>1, <2>2, <2>3, <2>4, BeginsIntent
<1>4. CASE CancelTask(p)
  <2> DEFINE t == struct[p].of
             w == End({t}, None, {t}, "cancelled")
  <2>1. Starts(p, w, {Event("terminated", t)}) \/ Abandon(p)
    BY <1>4 DEF CancelTask, Publish, Stage, SendFails, Starts
  <2>2. \A c \in DOMAIN w.job : w.job[c] = "SCHEDULED"
    BY DEF End, NoTx, Empty
  <2>. HIDE DEF w
  <2>. QED
    BY <2>1, <2>2, NoIntent, StartsIntent, AbandonIntent
<1>. QED
    BY <1>1, <1>2, <1>3, <1>4 DEF Request, LoadJob, LoadTaskToCancel

\* So does a commit to those of the other transactions: their rows are locked.
LEMMA CommitIntent ==
    ASSUME TypeInv, SafeInv, IntentInv, NEW p \in Processes, Apply(p)
    PROVE  IntentInv'
<1>1. SUFFICES ASSUME NEW q \in Processes PROVE (Cancels(tx[q]) /\ Reschedules(tx[q]) /\ LockHeld(q))'
    BY DEF IntentInv
<1>2. CASE q = p
  <2>1. tx'[q] = NoTx /\ pc'[q] = "idle"
    BY <1>2, CommitRows DEF Apply, TypeInv, ProcessesOK
  <2>. QED
    BY <2>1 DEF Cancels, Reschedules, LockHeld, NoTx, Empty
<1>3. CASE q # p
  <2> DEFINE v == tx[q]
             w == tx[p]
  <2>1. /\ tx'[q] = v /\ v.rows \cap w.rows = {} /\ WritesOK(v) /\ WritesOK(w) /\ Cancels(v) /\ Reschedules(v)
    BY <1>3, CommitRows DEF TypeInv, LocksInv, ProcessesOK, ProcessOK, IntentInv
  <2>2. \A c \in DOMAIN v.job : c \in Containers /\ c \in v.rows /\ job'[c] = job[c]
    BY <2>1, CommitRows DEF WritesOK
  <2>3. ASSUME NEW c \in DOMAIN v.job, v.job[c] = "CANCELLED", NEW t \in TasksOf(c)
        PROVE  task'[t] = task[t]
    <3>1. t \in TaskIds /\ t[1] = c
      BY DEF TasksOf
    <3>2. CASE Live(t)
      <4>1. t \in DOMAIN v.task /\ v.task[t].status \in Ended
        BY <2>1, <2>3, <3>2 DEF Cancels, Ended
      <4>2. t \in v.rows
        BY <4>1, EndsIsLocked DEF SafeInv
      <4>. QED
        BY <2>1, <3>1, <3>2, <4>2, CommitTasks DEF SafeInv
    <3>3. CASE task[t].status \in Ended
      BY <3>1, <3>3, CommitTasks DEF SafeInv
    <3>4. CASE task[t] = NoTask
      <4>1. Schedules(w) => \A u \in DOMAIN w.task : u[1] \in w.rows
        BY <2>1 DEF Schedules, WritesOK
      <4>2. t \notin DOMAIN w.task
        BY <2>1, <2>2, <3>1, <3>4, <4>1, CommitTasks DEF SafeInv
      <4>. QED
        BY <3>1, <4>2, CommitRows
    <3>. QED
      BY <3>1, <3>2, <3>3, <3>4, TaskFacts DEF TypeInv
  <2>4. \A t \in TaskIds : task[t].status = "failed" => task'[t] = task[t]
    BY CommitTasks DEF SafeInv, Ended
  <2>5. \A c \in DOMAIN v.job : v.job[c] = "CANCELLED" =>
            job'[c] = job[c] /\ \A t \in TasksOf(c) : Live(t)' <=> Live(t)
    BY <2>2, <2>3 DEF Live
  <2>6. LockHeld(q)'
    <3>1. pc'[q] = pc[q] /\ struct'[q] = struct[q] /\ LockHeld(q)
      BY <1>3 DEF Apply, TypeInv, ProcessesOK, IntentInv
    <3>2. ASSUME pc[q] = "locked"
          PROVE  /\ job'[struct[q].of] = job[struct[q].of]
                 /\ \A t \in TasksOf(struct[q].of) : Live(t)' => Live(t)
      <4> DEFINE c == struct[q].of
      <4>1. c \in Containers /\ c \notin w.rows
        <5>1. LoadedOK(struct[q]) /\ struct[q].op = "CancelTasks" /\ v = LockOf(c)
          BY <3>2 DEF TypeInv, ProcessesOK, ProcessOK
        <5>2. v.rows = {c}
          BY <5>1 DEF LockOf, NoTx
        <5>3. c \in Containers
          BY <5>1 DEF LoadedOK
        <5>. HIDE DEF v, w, c
        <5>. QED
          BY <2>1, <5>2, <5>3
      <4>2. job'[c] = job[c]
        BY <2>1, <4>1, CommitRows DEF WritesOK
      <4>3. ASSUME NEW t \in TasksOf(c), Live(t)' PROVE Live(t)
        <5>1. t \in TaskIds /\ t[1] = c
          BY DEF TasksOf
        <5>2. CASE task[t] = NoTask
          <6>1. Schedules(w) => \A u \in DOMAIN w.task : u[1] \in w.rows
            BY <2>1 DEF Schedules, WritesOK
          <6>2. t \notin DOMAIN w.task
            BY <4>1, <5>1, <5>2, <6>1, CommitTasks DEF SafeInv
          <6>. QED
            BY <4>3, <5>1, <6>2, CommitRows DEF Live
        <5>3. CASE task[t].status \in Ended
          BY <4>3, <5>1, <5>3, CommitTasks DEF SafeInv, Live
        <5>. QED
          BY <5>1, <5>2, <5>3, TaskFacts DEF TypeInv
      <4>. QED
        BY <4>2, <4>3
    <3>. QED
      BY <3>1, <3>2, LockStays
  <2>. HIDE DEF v, w
  <2>. QED
    BY <2>1, <2>4, <2>5, <2>6, IntentStays
<1>. QED
    BY <1>2, <1>3

\* And the other steps.
LEMMA OutsideIntent ==
    ASSUME TypeInv, SafeInv, IntentInv,
           \/ \E c \in Containers : CreateJob(c) \/ ConfirmJob(c)
           \/ \E u \in TaskIds : TaskFinishes(u)
    PROVE  IntentInv'
<1>1. SUFFICES ASSUME NEW q \in Processes PROVE (Cancels(tx[q]) /\ Reschedules(tx[q]) /\ LockHeld(q))'
    BY DEF IntentInv
<1> DEFINE v == tx[q]
<1>2. /\ tx'[q] = v /\ Cancels(v) /\ Reschedules(v) /\ DOMAIN v.job \subseteq Containers
      /\ pc'[q] = pc[q] /\ struct'[q] = struct[q] /\ LockHeld(q)
    BY DEF IntentInv, CreateJob, ConfirmJob, TaskFinishes, local, TypeInv, ProcessesOK, ProcessOK, WritesOK
<1>c. pc[q] = "locked" => struct[q].of \in Containers /\ struct[q].of \in v.rows /\ Known(struct[q].of, struct[q].seen)
  <2>1. pc[q] = "locked" => LoadedOK(struct[q]) /\ struct[q].op = "CancelTasks" /\ v = LockOf(struct[q].of)
    BY DEF TypeInv, ProcessesOK, ProcessOK
  <2>2. LockOf(struct[q].of).rows = {struct[q].of}
    BY DEF LockOf, NoTx
  <2>. QED
    BY <1>2, <2>1, <2>2 DEF LoadedOK, LockHeld
<1>3. ASSUME NEW c \in Containers, CreateJob(c) \/ ConfirmJob(c) PROVE (Cancels(tx[q]) /\ Reschedules(tx[q]) /\ LockHeld(q))'
  <2>1. task' = task
    BY <1>3 DEF CreateJob, ConfirmJob
  <2>2. \A d \in Containers : \/ job'[d] = job[d] \/ job'[d] = "PENDING"
                               \/ job[d] = "absent"
    BY <1>3 DEF CreateJob, ConfirmJob, TypeInv, RowsOK
  <2>3. \A d \in DOMAIN v.job : v.job[d] = "CANCELLED" => job[d] # "absent"
    BY <1>2 DEF Cancels
  <2>4. \A d \in DOMAIN v.job : v.job[d] = "CANCELLED" =>
            /\ job'[d] = job[d] \/ job'[d] = "PENDING"
            /\ \A t \in TasksOf(d) : Live(t)' <=> Live(t)
    BY <1>2, <2>1, <2>2, <2>3 DEF Live
  <2>5. LockHeld(q)'
    <3>1. pc[q] = "locked" => job'[struct[q].of] = job[struct[q].of]
      BY <1>3, <1>c DEF CreateJob, ConfirmJob, Known, TypeInv, RowsOK
    <3>. QED
      BY <1>2, <2>1, <3>1, LockStays DEF Live
  <2>. HIDE DEF v
  <2>. QED
    BY <1>2, <2>1, <2>4, <2>5, IntentStays
<1>4. ASSUME NEW u \in TaskIds, TaskFinishes(u) PROVE (Cancels(tx[q]) /\ Reschedules(tx[q]) /\ LockHeld(q))'
  <2>1. /\ job' = job /\ Live(u) /\ u \notin v.rows
        /\ \A t \in TaskIds : t # u => task'[t] = task[t]
    BY <1>4 DEF TaskFinishes, Unlocked, TypeInv, RowsOK
  <2>2. \A d \in DOMAIN v.job : v.job[d] = "CANCELLED" => u \notin TasksOf(d)
    <3>1. SUFFICES ASSUME NEW d \in DOMAIN v.job, v.job[d] = "CANCELLED", u \in TasksOf(d) PROVE FALSE
      OBVIOUS
    <3>2. u \in DOMAIN v.task /\ v.task[u].status \in Ended
      BY <1>2, <2>1, <3>1 DEF Cancels, Ended
    <3>. QED
      BY <2>1, <3>2, EndsIsLocked DEF SafeInv
  <2>3. \A d \in DOMAIN v.job : v.job[d] = "CANCELLED" =>
            job'[d] = job[d] /\ \A t \in TasksOf(d) : Live(t)' <=> Live(t)
    BY <2>1, <2>2 DEF Live, TasksOf
  <2>4. \A t \in TaskIds : task[t].status = "failed" => task'[t] = task[t]
    BY <2>1 DEF Live
  <2>5. LockHeld(q)'
    <3>1. \A t \in TaskIds : Live(t)' => Live(t)
      BY <2>1 DEF Live
    <3>. QED
      BY <1>2, <2>1, <3>1, LockStays DEF TasksOf
  <2>. HIDE DEF v
  <2>. QED
    BY <1>2, <2>3, <2>4, <2>5, IntentStays
<1>. QED
    BY <1>3, <1>4

-----------------------------------------------------------------------------
(* The steps of Placement. *)

LEMMA SameDemand == ASSUME NEW S PROVE Serial!Demand(S) = Demand(S)
BY DEF Serial!Demand, Demand, Serial!SumFunctionOnSet, SumFunctionOnSet, Serial!FoldFunctionOnSet, FoldFunctionOnSet,
       Serial!MapThenFoldSet, MapThenFoldSet

\* The Tasks whose resources have come back are still the same.
LEMMA SameReturned ==
    ASSUME NEW e, e = None \/ e.type # "terminated", processed' = processed \cup ({e} \ {None})
    PROVE  {t \in TaskIds : Released(t)}' = {t \in TaskIds : Released(t)}
BY DEF Released, TaskIds

\* A commit that schedules Jobs places them.
LEMMA SchedulesPlaces ==
    ASSUME TypeInv, SafeInv, NEW p \in Processes, Apply(p), Schedules(tx[p])
    PROVE  Serial!Next
<1> DEFINE w == tx[p]
           S == DOMAIN w.job
           T == DOMAIN w.task
<1>1. PICK n \in Nodes :
        /\ S # {}
        /\ \A c \in S : /\ job[c] = "PENDING" /\ w.job[c] = "SCHEDULED"
                        /\ \E t \in T : t[1] = c /\ \A u \in T : u[1] = c => u = t
        /\ \A t \in T : /\ t[1] \in S /\ task[t] = NoTask /\ w.task[t] = [status |-> "running", node |-> n]
        /\ w.available = One(n, available[n] - Demand(S))
        /\ Demand(S) <= available[n]
        /\ w.event \in published /\ w.event.type # "terminated"
    BY DEF Schedules
<1>2. S \subseteq Containers /\ T \subseteq TaskIds
    BY DEF TypeInv, ProcessesOK, ProcessOK, WritesOK
<1>3. /\ \A c \in Containers : job'[c] = IF c \in S THEN "SCHEDULED" ELSE job[c]
      /\ \A t \in TaskIds : task'[t] = IF t \in T THEN [status |-> "running", node |-> n] ELSE task[t]
      /\ \A m \in Nodes : available'[m] = IF m = n THEN available[n] - Demand(S) ELSE available[m]
      /\ processed' = processed \cup ({w.event} \ {None}) /\ published' = published
      /\ RowsOK /\ RowsOK'
    BY <1>1, CommitRows DEF One, TypeInv
<1>4. {t[1] : t \in T} = S /\ T # {} /\ \A t, u \in T : u[1] = t[1] => u = t
    BY <1>1
<1>5. \A t \in TaskIds : Released(t)' <=> Released(t)
    BY <1>1, <1>3 DEF Released
<1>6. \A c \in S : \A t \in Serial!Holding : t[1] # c
    BY <1>1, <1>2 DEF SafeInv, JobsInv, Busy, TasksOf, Serial!Holding, Serial!TaskIds, TaskIds, Serial!NoTask, NoTask
<1>7. available' = [available EXCEPT ![n] = available[n] - Demand(S)]
    BY <1>3 DEF RowsOK
<1>8. job' = [c \in Containers |-> IF c \in S THEN "SCHEDULED" ELSE job[c]]
    BY <1>3 DEF RowsOK
<1>9. task' = [t \in TaskIds |-> IF t \in T THEN [status |-> "running", node |-> n] ELSE task[t]]
    BY <1>3 DEF RowsOK
<1>10. {t \in TaskIds : Released(t)}' = {t \in TaskIds : Released(t)}
    BY <1>5
<1>. HIDE DEF w, S, T
<1>a. T \in SUBSET Serial!Vacant
    BY <1>1, <1>2 DEF Serial!Vacant, Serial!TaskIds, TaskIds, Serial!NoTask, NoTask
<1>11. Serial!Place(n, T)
    BY <1>1, <1>4, <1>6, <1>7, <1>8, <1>9, <1>10, SameDemand
       DEF Serial!Place, Serial!TaskIds, TaskIds, Serial!NoTask, NoTask
<1>. QED
    BY <1>a, <1>11 DEF Serial!Next

\* A commit that ends Tasks ends them together, and may cancel their Job with them.
LEMMA EndsEnds ==
    ASSUME TypeInv, SafeInv, IntentInv, NEW p \in Processes, Apply(p), Ends(tx[p])
    PROVE  Serial!Next
<1> DEFINE w == tx[p]
           T == DOMAIN w.task
           status == [t \in T |-> w.task[t].status]
<1>1. /\ \A c \in Containers : job'[c] = IF c \in DOMAIN w.job THEN w.job[c] ELSE job[c]
      /\ \A t \in TaskIds : task'[t] = IF t \in T THEN w.task[t] ELSE task[t]
      /\ \A n \in Nodes : available'[n] = available[n]
      /\ processed' = processed \cup ({w.event} \ {None})
      /\ RowsOK /\ RowsOK' /\ WritesOK(w) /\ Cancels(w)
    BY CommitRows DEF Ends, Empty, TypeInv, ProcessesOK, ProcessOK, IntentInv
<1>2. /\ \A c \in DOMAIN w.job : w.job[c] = "CANCELLED"
      /\ \A t \in T : Live(t) /\ w.task[t].status \in Ended /\ w.task[t].node = task[t].node
      /\ w.event = None \/ w.event.type # "terminated"
    BY DEF Ends
<1>3. T \subseteq TaskIds /\ DOMAIN w.job \subseteq Containers /\ \A t \in T : w.task[t] \in TaskRows \ {NoTask}
    BY <1>1 DEF WritesOK
<1>4. {t \in TaskIds : Released(t)}' = {t \in TaskIds : Released(t)}
    BY <1>1, <1>2, SameReturned
<1>5. available' = available
    BY <1>1 DEF RowsOK
<1>6. \A t \in T : w.task[t] = [status |-> status[t], node |-> task[t].node]
    BY <1>2, <1>3 DEF TaskRows, NoTask
<1>. HIDE DEF w, T
<1>7. task' = [t \in TaskIds |-> IF t \in T THEN [status |-> status[t], node |-> task[t].node] ELSE task[t]]
    BY <1>1, <1>6 DEF RowsOK
<1>8. Serial!EndTasks(T, status)
    BY <1>4, <1>5, <1>7 DEF Serial!EndTasks, Serial!TaskIds, TaskIds
<1>a. T \in SUBSET Serial!Running
    BY <1>2, <1>3 DEF Serial!Running, Serial!TaskIds, TaskIds, Live
<1>9. CASE DOMAIN w.job = {}
  <2>1. job' = job
    BY <1>1, <1>9 DEF RowsOK
  <2>2. status \in [T -> {"finished", "failed", "cancelled"}]
    BY <1>2 DEF Ended
  <2>. HIDE DEF status
  <2>3. Serial!End(T)
    BY <1>8, <2>1, <2>2 DEF Serial!End
  <2>. QED
    BY <1>a, <2>3 DEF Serial!Next
<1>10. ASSUME NEW c \in DOMAIN w.job PROVE Serial!Next
  <2>1. /\ job[c] \in {"NEW", "PENDING", "SCHEDULED"} /\ DOMAIN w.job = {c} /\ w.job[c] = "CANCELLED"
        /\ T = {t \in TasksOf(c) : Live(t)} /\ \A t \in T : w.task[t].status = "cancelled"
    BY <1>1, <1>2, <1>10 DEF Cancels, T
  <2>2. job' = [job EXCEPT ![c] = "CANCELLED"]
    BY <1>1, <2>1 DEF RowsOK
  <2>3. T = {t \in Serial!Running : t[1] = c}
    BY <2>1 DEF TasksOf, Live, Serial!Running, Serial!TaskIds, TaskIds
  <2>4. status = [t \in T |-> "cancelled"]
    BY <2>1
  <2>. HIDE DEF status
  <2>5. Serial!Cancel(c)
    BY <1>8, <2>1, <2>2, <2>3, <2>4 DEF Serial!Cancel
  <2>. QED
    BY <1>3, <2>5 DEF Serial!Next
<1>. QED
    BY <1>9, <1>10

\* A commit that gives back resources gives them back, for the first time.
LEMMA ReturnsGivesBack ==
    ASSUME TypeInv, SafeInv, IntentInv, NEW p \in Processes, Apply(p), Returns(tx[p])
    PROVE  Serial!Next
<1> DEFINE w == tx[p]
<1>1. PICK t \in TaskIds :
        /\ w.event \in published /\ w.event.type = "terminated" /\ w.event.of = t
        /\ job[t[1]] = "SCHEDULED"
        /\ w.job = One(t[1], "FINISHED") \/ (w.job = One(t[1], "PENDING") /\ task[t].status \in Ended)
        /\ w.task = Empty
        /\ task[t].node \in Nodes /\ available[task[t].node] = 0 /\ w.available = One(task[t].node, Limit[t[1]])
    BY DEF Returns
<1> DEFINE c == t[1]
<1>2. PICK n \in Nodes : n = task[t].node
    BY <1>1
<1>3. c \in Containers /\ task[t] # NoTask /\ Limit[c] \in Nat
    BY <1>1, NoneAssumption, LimitAssumption DEF NoTask, TaskIds
<1>4. w.event \in published \ processed /\ w.event # None
    BY <1>1, NoEventIsNone DEF TypeInv, ProcessesOK, ProcessOK, WritesOK
<1>5. ~Released(t)
    BY <1>1, <1>4, StagedNotReleased DEF SafeInv
<1>6. /\ \A d \in Containers : d # c => job'[d] = job[d]
      /\ job'[c] = "FINISHED" \/ (job'[c] = "PENDING" /\ w.job = One(c, "PENDING"))
      /\ \A u \in TaskIds : task'[u] = task[u]
      /\ \A m \in Nodes : available'[m] = IF m = n THEN Limit[c] ELSE available[m]
      /\ processed' = processed \cup {w.event}
      /\ RowsOK /\ RowsOK' /\ Reschedules(w)
    BY <1>1, <1>2, <1>3, <1>4, CommitRows DEF One, Empty, TypeInv, IntentInv
<1>7. {u \in TaskIds : Released(u)}' = {u \in TaskIds : Released(u)} \cup {t}
    BY <1>1, <1>6 DEF Released, TaskIds
<1>8. task' = task
    BY <1>6 DEF RowsOK
<1>9. w.job = One(c, "PENDING") => c \in Reschedule /\ task[t].status = "failed"
    BY <1>1, <1>6 DEF Reschedules, One
<1>10. t \in Serial!Holding
    BY <1>3, <1>5 DEF Serial!Holding, Serial!TaskIds, TaskIds, Serial!NoTask, NoTask
<1>. HIDE DEF w, c
<1>11. job' = [job EXCEPT ![c] = job'[c]]
    BY <1>3, <1>6 DEF RowsOK
<1>12. available' = [available EXCEPT ![n] = available[n] + Limit[c]]
  <2>1. available[n] + Limit[c] = Limit[c]
    BY <1>1, <1>2, <1>3
  <2>. QED
    BY <1>6, <2>1 DEF RowsOK
<1>13. Serial!GiveBack(t)
    BY <1>1, <1>2, <1>6, <1>7, <1>8, <1>9, <1>10, <1>11, <1>12 DEF Serial!GiveBack, c
<1>. QED
    BY <1>13 DEF Serial!Next, Serial!TaskIds, TaskIds

\* Until rows and events are disturbed, each step is a step of Placement or none.
LEMMA PlacementStep ==
    ASSUME TypeInv, SafeInv, IntentInv, Next, ~disturbed'
    PROVE  Serial!Next \/ UNCHANGED Serial!pvars
<1>1. UNCHANGED <<available, job, task, processed>> => UNCHANGED Serial!pvars
    BY DEF Serial!pvars, Released
<1>2. ASSUME NEW p \in Processes, Handler(p) PROVE UNCHANGED Serial!pvars
    BY <1>1, <1>2, HandlerIntent
<1>3. ASSUME NEW p \in Processes, Request(p) PROVE UNCHANGED Serial!pvars
    BY <1>1, <1>3, RequestIntent
<1>4. ASSUME NEW p \in Processes, Commit(p) \/ CommitUnacked(p) PROVE Serial!Next
  <2>1. Apply(p)
    BY <1>4 DEF Commit, CommitUnacked
  <2>. QED
    BY <2>1, SchedulesPlaces, EndsEnds, ReturnsGivesBack DEF SafeInv, StagedInv
<1>5. ASSUME NEW p \in Processes, Fails(p) \/ Rollback(p) PROVE UNCHANGED Serial!pvars
    BY <1>1, <1>5 DEF Fails, Rollback, Abandon, rows
<1>10. ASSUME AnnounceInVain PROVE UNCHANGED Serial!pvars
    BY <1>1, <1>10 DEF AnnounceInVain, Announce, rows
<1>6. ASSUME NEW c \in Containers, CreateJob(c) PROVE Serial!Next
  <2>1. Serial!Submit(c)
    BY <1>6 DEF CreateJob, events, Serial!Submit, Released
  <2>. QED
    BY <2>1 DEF Serial!Next
<1>7. ASSUME NEW c \in Containers, ConfirmJob(c) PROVE Serial!Next
  <2>1. Serial!Confirm(c)
    BY <1>7 DEF ConfirmJob, Serial!Confirm, Released
  <2>. QED
    BY <2>1 DEF Serial!Next
<1>8. ASSUME NEW n \in Nodes, Connect(n) \/ Disconnect(n) PROVE UNCHANGED Serial!pvars
    BY <1>1, <1>8 DEF Connect, Disconnect
<1>9. ASSUME NEW t \in TaskIds, TaskFinishes(t) PROVE Serial!Next
  <2>1. Live(t) /\ task' = [task EXCEPT ![t].status = "finished"] /\ UNCHANGED <<available, job, processed>>
    BY <1>9 DEF TaskFinishes
  <2>2. task'[t] = [status |-> "finished", node |-> task[t].node] /\ \A u \in TaskIds : u # t => task'[u] = task[u]
    BY <2>1, TaskFacts DEF TypeInv, RowsOK, Ended
  <2>3. task' \in [TaskIds -> TaskRows]
    <3>1. task[t].node \in Nodes
      BY <2>1, TaskFacts DEF TypeInv
    <3>2. task'[t] \in TaskRows
      BY <2>2, <3>1 DEF TaskRows, Ended
    <3>. QED
      BY <2>1, <3>2 DEF TypeInv, RowsOK
  <2> DEFINE status == [u \in {t} |-> "finished"]
  <2>4. task' = [u \in TaskIds |-> IF u \in {t} THEN [status |-> status[u], node |-> task[u].node] ELSE task[u]]
    BY <2>2, <2>3
  <2>5. {u \in TaskIds : Released(u)}' = {u \in TaskIds : Released(u)}
    BY <2>1 DEF Released
  <2>6. Serial!EndTasks({t}, status)
    BY <2>1, <2>4, <2>5 DEF Serial!EndTasks, Serial!TaskIds, TaskIds
  <2>7. status \in [{t} -> {"finished", "failed", "cancelled"}]
    OBVIOUS
  <2>. HIDE DEF status
  <2>8. Serial!End({t})
    BY <2>1, <2>6, <2>7 DEF Serial!End
  <2>. QED
    BY <2>1, <2>8 DEF Serial!Next, Serial!Running, Serial!TaskIds, TaskIds, Live
<1>. QED
    BY <1>2, <1>3, <1>4, <1>5, <1>6, <1>7, <1>8, <1>9, <1>10 DEF Next

\* Every step keeps the facts about cancelled and rescheduled Jobs.
LEMMA IntentStep ==
    ASSUME TypeInv, SafeInv, IntentInv, [Next]_vars, ~disturbed'
    PROVE  IntentInv'
<1>1. ASSUME NEW p \in Processes, Handler(p) \/ Request(p) PROVE IntentInv'
    BY <1>1, HandlerIntent, RequestIntent
<1>2. ASSUME NEW p \in Processes, Commit(p) \/ CommitUnacked(p) PROVE IntentInv'
    BY <1>2, CommitIntent DEF Commit, CommitUnacked
<1>3. ASSUME NEW p \in Processes, Fails(p) \/ Rollback(p) PROVE IntentInv'
    BY <1>3, AbandonIntent DEF Fails, Rollback
<1>4. ASSUME NEW c \in Containers, CreateJob(c) \/ ConfirmJob(c) PROVE IntentInv'
    BY <1>4, OutsideIntent
<1>5. ASSUME NEW t \in TaskIds, TaskFinishes(t) PROVE IntentInv'
    BY <1>5, OutsideIntent
<1>6. CASE UNCHANGED <<job, task, local>>
    BY <1>6, WaitingIntent
<1>7. ASSUME NEW n \in Nodes, Connect(n) \/ Disconnect(n) PROVE UNCHANGED <<job, task, local>>
    BY <1>7 DEF Connect, Disconnect
<1>8. ASSUME AnnounceInVain PROVE UNCHANGED <<job, task, local>>
    BY <1>8 DEF AnnounceInVain, Announce, rows
<1>9. UNCHANGED vars => UNCHANGED <<job, task, local>>
    BY DEF vars, rows
<1>. QED
    BY <1>1, <1>2, <1>3, <1>4, <1>5, <1>6, <1>7, <1>8, <1>9 DEF Next

\* That rows and events are disturbed is not forgotten.
LEMMA DisturbedStays == ASSUME [Next]_vars PROVE disturbed => disturbed'
<1>1. ASSUME NEW p \in Processes, Handler(p) PROVE disturbed => disturbed'
    BY <1>1 DEF Handler, JobUpdated, NoSuitableNode, AlreadyProcessed, LoadNode, NodeDisconnected, LoadTask, Load,
                NodeUpdated, TaskTerminated, Publish, Stage, SendFails
<1>2. ASSUME NEW p \in Processes, Request(p) PROVE disturbed => disturbed'
    BY <1>2 DEF Request, LoadJob, LoadTaskToCancel, Load, LoadTasks, LoadTasksFails, CancelJob, CancelTask,
                Publish, Stage, SendFails
<1>3. ASSUME NEW p \in Processes, Commit(p) \/ CommitUnacked(p) \/ Fails(p) \/ Rollback(p) PROVE disturbed => disturbed'
    BY <1>3 DEF Commit, CommitUnacked, Apply, Fails, Rollback
<1>4. ASSUME NEW c \in Containers, CreateJob(c) \/ ConfirmJob(c) PROVE disturbed => disturbed'
    BY <1>4 DEF CreateJob, ConfirmJob
<1>5. ASSUME NEW n \in Nodes, Connect(n) \/ Disconnect(n) PROVE disturbed => disturbed'
    BY <1>5 DEF Connect, Disconnect
<1>6. ASSUME NEW t \in TaskIds, TaskFinishes(t) PROVE disturbed => disturbed'
    BY <1>6 DEF TaskFinishes
<1>7. AnnounceInVain => (disturbed => disturbed')
    BY DEF AnnounceInVain, Announce
<1>8. UNCHANGED vars => (disturbed => disturbed')
    BY DEF vars
<1>. QED
    BY <1>1, <1>2, <1>3, <1>4, <1>5, <1>6, <1>7, <1>8 DEF Next

-----------------------------------------------------------------------------
(* What follows. *)

\* Rows, events and transactions have their types, also after they were disturbed:
\* amounts never get below zero, a process holds locks exactly while its transaction is
\* open, and only published events are processed or acknowledged, under any failures.
THEOREM TypeCorrect == Spec => []TypeOK
<1>1. IInv => TypeOK
  <2>1. SUFFICES ASSUME RowsOK, EventsOK, ProcessesOK PROVE TypeOK
    BY DEF IInv, TypeInv
  <2>2. ASSUME NEW t \in TaskIds
        PROVE  /\ task[t].status \in {"none", "running", "finished", "failed", "cancelled"}
               /\ task[t].node \in Nodes <=> task[t].status # "none"
    <3>1. CASE task[t] = NoTask
      BY <3>1, NoneAssumption DEF NoTask
    <3>2. CASE task[t] # NoTask
      BY <2>1, <3>2, TaskFacts DEF Live, Ended
    <3>. QED
      BY <3>1, <3>2
  <2>. QED
    <3>1. \A p \in Processes : pc[p] \in {"locked", "staged", "leaked"} <=> tx[p] # NoTx
      <4>1. \A c : LockOf(c).rows = {c} /\ NoTx.rows = {}
        BY DEF LockOf, NoTx
      <4>2. \A c : LockOf(c) # NoTx
        BY <4>1
      <4>. QED
        BY <2>1, <4>2 DEF ProcessesOK, ProcessOK
    <3>. QED
      BY <2>1, <2>2, <3>1 DEF TypeOK, RowsOK, EventsOK, ProcessesOK
<1>. QED
    BY <1>1, Invariant, PTL

\* Resources add up: for any Containers, Nodes, Limits and capacities, and any number of
\* processes, redeliveries and failures, a Node has available its capacity without the
\* Limits of the Tasks whose terminated event was not processed, until an UPDATE overtakes
\* or the end of a Task is announced by a transaction that is rolled back.
THEOREM ResourcesAddUp == Spec => []Accounting
<1>1. IInv => Accounting
    BY DEF IInv, SafeInv, AccountsInv, Accounting
<1>. QED
    BY <1>1, Invariant, PTL

\* Until then, two Tasks of a Job never run at once, and a SCHEDULED Job has a Task that
\* runs or whose terminated event is still to be processed: the handlers will finish or
\* reschedule it.
THEOREM JobRunsOnce == Spec => []RunsOnOneNode
<1>1. IInv => RunsOnOneNode
  <2>1. SUFFICES ASSUME TypeInv, SafeInv, NEW c \in Containers
                 PROVE  LET live == {t \in TaskIds : t[1] = c /\ Live(t)}
                        IN  /\ Cardinality(live) <= 1
                            /\ job[c] = "SCHEDULED" => live # {} \/ EndUnprocessed(c)
    BY DEF IInv, RunsOnOneNode
  <2> DEFINE L == {t \in TaskIds : t[1] = c /\ Live(t)}
  <2>2. \A t, u \in L : t = u
    BY <2>1, OneLive DEF TasksOf, SafeInv
  <2>3. Cardinality(L) <= 1
    <3>1. L = {} \/ \E t : L = {t}
      BY <2>2
    <3>. HIDE DEF L
    <3>2. CASE L = {}
      BY <3>2, FS_EmptySet
    <3>3. ASSUME NEW t, L = {t} PROVE Cardinality(L) <= 1
      <4>1. Cardinality({t}) = 1
        BY FS_Singleton
      <4>. QED
        BY <3>3, <4>1
    <3>. QED
      BY <3>1, <3>2, <3>3
  <2>4. ASSUME job[c] = "SCHEDULED" PROVE L # {} \/ EndUnprocessed(c)
    <3>1. PICK t \in TasksOf(c) : task[t] # NoTask /\ ~Released(t)
      BY <2>1, <2>4 DEF SafeInv, JobsInv
    <3>2. t \in TaskIds /\ t[1] = c
      BY DEF TasksOf
    <3>3. CASE Live(t)
      BY <3>2, <3>3
    <3>4. CASE task[t].status \in Ended
      <4>1. PICK e \in published : e.type = "terminated" /\ e.of = t
        BY <2>1, <3>2, <3>4 DEF SafeInv, TerminatedInv, TerminatedEvents
      <4>2. e \notin processed
        BY <3>1, <4>1 DEF Released
      <4>. QED
        BY <3>2, <4>1, <4>2 DEF EndUnprocessed
    <3>. QED
      BY <2>1, <3>1, <3>2, <3>3, <3>4, TaskFacts DEF TypeInv
  <2>. QED
    BY <2>3, <2>4
<1>. QED
    BY <1>1, Invariant, PTL

\* The committed rows implement Placement, for any Containers, Nodes, Limits, capacities,
\* policies and processes: until an UPDATE overtakes or the end of a Task is announced by a
\* transaction that is rolled back, the interleaved transactions of the handlers and RPCs
\* change them as if each ran alone, in its commit, and without those that fail.
THEOREM PlacementImplemented == Spec => ImplementsPlacement
<1>1. Init => Serial!Init
  <2>1. Init => Serial!TaskIds = TaskIds /\ Serial!NoTask = NoTask /\ {t \in TaskIds : Released(t)} = {}
    BY DEF Init, Serial!TaskIds, TaskIds, Serial!NoTask, NoTask, Released
  <2>. QED
    BY <2>1 DEF Init, Serial!Init
<1>2. Init => IntentInv
    BY DEF Init, IntentInv, Cancels, Reschedules, LockHeld, NoTx, Empty
<1>3. IInv /\ (~disturbed => IntentInv) /\ [Next]_vars => (~disturbed => IntentInv)'
    BY IntentStep, DisturbedStays DEF IInv
<1>4. IInv /\ (~disturbed => IntentInv) /\ [Next]_vars => [disturbed' \/ Serial!Next]_(Serial!pvars)
  <2>1. SUFFICES ASSUME IInv, ~disturbed => IntentInv, [Next]_vars, ~disturbed'
                 PROVE  Serial!Next \/ UNCHANGED Serial!pvars
    OBVIOUS
  <2>2. TypeInv /\ SafeInv /\ IntentInv
    BY <2>1, DisturbedStays DEF IInv
  <2>3. UNCHANGED vars => UNCHANGED Serial!pvars
    BY DEF vars, rows, events, Serial!pvars, Released
  <2>. QED
    BY <2>1, <2>2, <2>3, PlacementStep
<1>. QED
    BY <1>1, <1>2, <1>3, <1>4, Invariant, PTL DEF Spec, ImplementsPlacement

=============================================================================
