---------------------------- MODULE ContainerStatus ----------------------------
(***************************************************************************)
(* The status of one Container under concurrent models.Container updates:  *)
(* a caller loads the Container (NewContainerFromDB, with or without FOR   *)
(* UPDATE), asks for a new status (Container.UpdateStatus) and ends with   *)
(* utils.CommitAndPublish.  UpdateStatus validates the transition on the   *)
(* loaded struct; the UPDATE selects the row by its id alone.  A call that *)
(* fails rolls its transaction back, with one exception: CancelJob returns *)
(* with the transaction open when it cannot load the Tasks.                *)
(***************************************************************************)
EXTENDS Naturals

CONSTANTS
    Workers,      \* concurrent callers
    ForUpdate,    \* the callers that load the Container FOR UPDATE in their tx
    Wants,        \* the statuses a caller may ask for
    None,
    MaxFailures   \* bound: failed calls

Status == {"NEW", "DECLINED", "PENDING", "CANCELLED", "SCHEDULED", "RUNNING", "STOPPED", "FAILED"}

ASSUME WorkersAssumption  == ForUpdate \subseteq Workers /\ None \notin Workers
ASSUME WantsAssumption    == Wants \in [Workers -> SUBSET Status]
ASSUME FailuresAssumption == MaxFailures \in Nat

\* ContainerStatusTransitions.
Transitions ==
    [s \in Status |->
        CASE s = "NEW"       -> {"DECLINED", "PENDING", "CANCELLED"}
          [] s = "PENDING"   -> {"CANCELLED", "SCHEDULED"}
          [] s = "SCHEDULED" -> {"RUNNING", "FAILED"}
          [] s = "RUNNING"   -> {"STOPPED"}
          [] OTHER           -> {}]

VARIABLES
    status,       \* committed status of the row
    rowLock,      \* caller whose transaction has locked the row, or None
    lastEvent,    \* status in the last published event
    pc,
    seen,         \* status in a caller's struct
    want,         \* status a caller asks for
    failures

vars == <<status, rowLock, lastEvent, pc, seen, want, failures>>

TypeOK ==
    /\ status \in Status
    /\ rowLock \in Workers \cup {None}
    /\ lastEvent \in Status
    /\ pc \in [Workers -> {"load", "labels", "check", "update", "send", "commit", "leaked"}]
    /\ seen \in [Workers -> Status]
    /\ want \in [Workers -> Status]
    /\ failures \in 0 .. MaxFailures

\* Container.Create has inserted the row and its event is published.
Init ==
    /\ status = "NEW" /\ lastEvent = "NEW" /\ rowLock = None
    /\ pc = [w \in Workers |-> "load"]
    /\ seen = [w \in Workers |-> "NEW"]
    /\ want = [w \in Workers |-> "NEW"]
    /\ failures = 0

Goto(w, from, to) == pc[w] = from /\ pc' = [pc EXCEPT ![w] = to]

\* The end of a transaction, if there is one, releases the row.
Release(w) == rowLock' = IF rowLock = w THEN None ELSE rowLock

Failure == failures < MaxFailures /\ failures' = failures + 1

\* Mutant of Load: the column is scanned into a number that is no status.
LoadUnscanned(w) ==
    /\ Goto(w, "load", "labels")
    /\ rowLock = None /\ rowLock' = w
    /\ seen' = [seen EXCEPT ![w] = "UNKNOWN"]
    /\ \E s \in Wants[w] : want' = [want EXCEPT ![w] = s]
    /\ UNCHANGED <<status, lastEvent, failures>>

\* Mutant of Load: the SELECT has no FOR UPDATE.
LoadUnlocked(w) ==
    /\ Goto(w, "load", "labels")
    /\ seen' = [seen EXCEPT ![w] = status]
    /\ \E s \in Wants[w] : want' = [want EXCEPT ![w] = s]
    /\ UNCHANGED <<status, rowLock, lastEvent, failures>>

\* The row, in NewContainerFromDB.  A caller may come back for another change.
Load(w) ==
    /\ Goto(w, "load", "labels")
    /\ IF w \in ForUpdate
       THEN rowLock = None /\ rowLock' = w
       ELSE UNCHANGED rowLock
    /\ seen' = [seen EXCEPT ![w] = status]
    /\ \E s \in Wants[w] : want' = [want EXCEPT ![w] = s]
    /\ UNCHANGED <<status, lastEvent, failures>>

\* The labels, in NewContainerFromDB.
LoadLabels(w) ==
    /\ Goto(w, "labels", "check")
    /\ UNCHANGED <<status, rowLock, lastEvent, seen, want, failures>>

\* Mutant of CheckTransition: a refused change is announced all the same.
CheckTransitionAnnounces(w) ==
    /\ pc[w] = "check"
    /\ IF want[w] \in Transitions[seen[w]]
       THEN Goto(w, "check", "update") /\ UNCHANGED <<rowLock, lastEvent>>
       ELSE Goto(w, "check", "load") /\ Release(w) /\ lastEvent' = want[w]
    /\ UNCHANGED <<status, seen, want, failures>>

\* UpdateStatus looks the transition up for the status of the struct; if it is not
\* there the caller gets FailedPrecondition and rolls back.
CheckTransition(w) ==
    /\ pc[w] = "check"
    /\ IF want[w] \in Transitions[seen[w]]
       THEN Goto(w, "check", "update") /\ UNCHANGED rowLock
       ELSE Goto(w, "check", "load") /\ Release(w)
    /\ UNCHANGED <<status, lastEvent, seen, want, failures>>

\* Update waits for the row lock; RETURNING * refreshes the struct.
Update(w) ==
    /\ Goto(w, "update", "send")
    /\ rowLock \in {None, w} /\ rowLock' = w
    /\ seen' = [seen EXCEPT ![w] = want[w]]
    /\ UNCHANGED <<status, lastEvent, want, failures>>

\* Mutant of QueryFails: the error is returned without a rollback.
QueryFailsLocked(w) ==
    /\ pc[w] \in {"labels", "update"} /\ pc' = [pc EXCEPT ![w] = "load"]
    /\ Failure
    /\ UNCHANGED <<status, rowLock, lastEvent, seen, want>>

\* The query of the labels or the UPDATE returns an error, upon which the caller rolls
\* back: the row, if it was loaded FOR UPDATE, is free again.
QueryFails(w) ==
    /\ pc[w] \in {"labels", "update"} /\ pc' = [pc EXCEPT ![w] = "load"]
    /\ Failure /\ Release(w)
    /\ UNCHANGED <<status, lastEvent, seen, want>>

\* CancelJob fails to load the Tasks of the Job that it has updated, and returns
\* without a rollback: nobody will end the transaction.
LoadTasksFails(w) ==
    /\ want[w] = "CANCELLED"
    /\ Goto(w, "send", "leaked")
    /\ Failure
    /\ UNCHANGED <<status, rowLock, lastEvent, seen, want>>

\* The process of the caller ends, and Postgres rolls its transaction back.
Restart(w) ==
    /\ pc[w] # "load" /\ pc' = [pc EXCEPT ![w] = "load"]
    /\ Release(w)
    /\ IF pc[w] = "leaked" THEN UNCHANGED failures ELSE Failure
    /\ UNCHANGED <<status, lastEvent, seen, want>>

\* CommitAndPublish.
Send(w) ==
    /\ Goto(w, "send", "commit")
    /\ lastEvent' = seen[w]
    /\ UNCHANGED <<status, rowLock, seen, want, failures>>

SendFails(w, stored) ==
    /\ Goto(w, "send", "load")
    /\ Failure /\ Release(w)
    /\ lastEvent' = IF stored THEN seen[w] ELSE lastEvent
    /\ UNCHANGED <<status, seen, want>>

Commit(w) ==
    /\ Goto(w, "commit", "load")
    /\ Release(w)
    /\ status' = seen[w]
    /\ UNCHANGED <<lastEvent, seen, want, failures>>

CommitFails(w, committed) ==
    /\ Goto(w, "commit", "load")
    /\ Failure /\ Release(w)
    /\ status' = IF committed THEN seen[w] ELSE status
    /\ UNCHANGED <<lastEvent, seen, want>>

Step(w) == Load(w) \/ LoadLabels(w) \/ CheckTransition(w) \/ Update(w) \/ Send(w) \/ Commit(w)

Fails(w) == \/ QueryFails(w) \/ LoadTasksFails(w) \/ Restart(w)
            \/ \E stored \in BOOLEAN : SendFails(w, stored)
            \/ \E committed \in BOOLEAN : CommitFails(w, committed)

Next == \E w \in Workers : Step(w) \/ Fails(w)

Spec == Init /\ [][Next]_vars

\* Callers run on; Postgres serves the waiters for a row lock in turn.
FairSpec ==
    /\ Spec
    /\ \A w \in Workers :
          /\ WF_vars(LoadLabels(w)) /\ WF_vars(CheckTransition(w)) /\ WF_vars(Send(w)) /\ WF_vars(Commit(w))
          /\ SF_vars(Load(w)) /\ SF_vars(Update(w))

-----------------------------------------------------------------------------
\* The committed status changes only along ContainerStatusTransitions, in whatever
\* order the callers' loads, validations, updates and commits interleave.
TransitionsFollowTable ==
    [][status' # status => status' \in Transitions[status]]_status

\* "Container can be cancelled only if it has not been scheduled yet.  After that
\* point it can only be stopped."
CancelledOnlyIfNotScheduled ==
    [][status' = "CANCELLED" => status \notin {"SCHEDULED", "RUNNING", "STOPPED", "FAILED"}]_status

\* Between transactions the last event published for the Container shows the
\* status of its row, unless a call failed: an event is published under the row
\* lock, and only when the status changes.
LastEventIsStatus == failures = 0 /\ rowLock = None => lastEvent = status

\* A caller that changed the status, was refused the change or failed releases the
\* row to those who wait for it, in whatever step it failed; the transaction of
\* CancelJob whose query of the Tasks fails keeps it.
RowIsReleased == \A w \in Workers : rowLock = w ~> rowLock # w \/ pc[w] = "leaked"
=============================================================================
