-------------------------------- MODULE Queries --------------------------------
(***************************************************************************)
(* The lists of the scheduler service, read by pages with `scalemate ...   *)
(* list --limit --offset`, while Containers (Jobs) and Nodes are inserted, *)
(* committed and updated.  A request is answered by two statements outside *)
(* of a transaction, COUNT and SELECT, and rows change between them.       *)
(*                                                                         *)
(* `changed` stands for the nullable column of the other orderings:        *)
(* updated_at of a Container, connected_at of a Node; `listed` for what    *)
(* the filters of a request (the status, above all) make of the row.       *)
(***************************************************************************)
EXTENDS Integers, FiniteSets, SequencesExt

CONSTANTS
    Rows,        \* the Containers, or the Nodes, of the table
    Users,
    MaxLimit,    \* ListContainersMaxLimit, ListNodesMaxLimit
    Limits,      \* bound: the limits of the requests
    Callers,     \* bound: who asks for a user's rows: "the user", "an admin", "another"
    MaxClock     \* bound: rows begun and updated

ASSUME MaxLimitAssumption == MaxLimit \in Nat \ {0}
ASSUME LimitsAssumption   == Limits \subseteq Nat
ASSUME MaxClockAssumption == MaxClock \in Nat

VARIABLES
    table,     \* the rows that were begun
    clock,     \* the time of the database
    request,   \* what is listed, for whom, by whom
    offset, total, page,
    known,     \* history: the matching rows when the list was first requested
    shown,     \* history: the rows of all pages so far
    shrunk,    \* history: a row has left the list while it was read
    walk       \* what the reader does next

walkVars == <<table, clock, request, offset, total, page, known, shown, shrunk, walk>>

Null == MaxClock + 1     \* sorts after every value

\* Orderings by the kind of what is listed.
Orderings(kind) ==
    IF kind = "jobs"
    THEN {"CREATED_AT_ASC", "CREATED_AT_DESC", "CHANGED_AT_ASC", "CHANGED_AT_DESC"}
    ELSE {"CHANGED_AT_ASC", "CHANGED_AT_DESC"}

-----------------------------------------------------------------------------
(* The table, which may change as long as the list is read. *)

Reading == walk \in {"count", "select", "answered"}

Committed == {r \in DOMAIN table : table[r].committed}

\* The rows of the user, or all Nodes, with one of the statuses of the request if it
\* has any.
Matching ==
    {r \in Committed : /\ request.kind = "jobs" => table[r].owner = request.username
                       /\ request.filtered => table[r].listed}

\* Statuses are told apart by the filter of the request, if it has one, and users when
\* Jobs are listed.
Listed == IF request.filtered THEN BOOLEAN ELSE {TRUE}
Owners == IF request.kind = "jobs" THEN Users ELSE {request.username}

\* created_at is now(), the time at which the transaction begins: a row may be
\* committed after one that is younger, and two rows may be as old.
Create(r) ==
    /\ Reading /\ r \notin DOMAIN table /\ clock < MaxClock
    /\ clock' \in {clock, clock + 1}
    /\ \E u \in Owners, l \in Listed :
          LET row == [created |-> clock', changed |-> Null, owner |-> u, listed |-> l,
                      committed |-> FALSE]
          IN  table' = [x \in DOMAIN table \cup {r} |-> IF x = r THEN row ELSE table[x]]
    /\ UNCHANGED <<request, offset, total, page, known, shown, shrunk, walk>>

CommitRow(r) ==
    /\ Reading /\ r \in DOMAIN table \ Committed
    /\ table' = [table EXCEPT ![r].committed = TRUE]
    /\ UNCHANGED <<clock, request, offset, total, page, known, shown, shrunk, walk>>

\* Rows are updated, never deleted; an update of the status may bring the row into a
\* list by status or out of it.
UpdateRow(r) ==
    /\ Reading /\ r \in Committed /\ clock < MaxClock
    /\ clock' = clock + 1
    /\ \E l \in Listed :
          table' = [table EXCEPT ![r].changed = clock', ![r].listed = l]
    /\ UNCHANGED <<request, offset, total, page, known, shown, walk>>
    /\ shrunk' = (shrunk \/ ~(Matching \subseteq Matching'))

-----------------------------------------------------------------------------
(* The two statements. *)

\* Mutant of Counted: the user is left out of the COUNT query.
CountedOfAnyone == Cardinality(Committed)

Counted == Cardinality(Matching)

PageLimit == IF request.limit <= MaxLimit THEN request.limit ELSE MaxLimit

\* Mutant of ByCreated: the columns of the ascending orderings are mixed up.
ByCreatedMixed == request.ordering \in {"CREATED_AT_DESC", "CHANGED_AT_ASC"}

\* The column of the ordering: Nodes by CONNECTED_AT_ASC are ordered by created_at.
ByCreated ==
    \/ request.ordering \in {"CREATED_AT_ASC", "CREATED_AT_DESC"}
    \/ request.kind = "nodes" /\ request.ordering = "CHANGED_AT_ASC"

Before(r1, r2) ==
    LET column(r) == IF ByCreated THEN table[r].created ELSE table[r].changed
    IN  IF request.ordering \in {"CREATED_AT_ASC", "CHANGED_AT_ASC"}
        THEN column(r1) < column(r2)
        ELSE column(r1) > column(r2)

\* ORDER BY leaves the order of equal rows to the database.
Ordered(S) ==
    {s \in SetToSeqs(S) : \A i, j \in DOMAIN s : Before(s[i], s[j]) => i < j}

\* ListJobs and ListTasks; Nodes are listed for everybody.
Permitted == request.kind = "nodes" \/ request.caller \in {"the user", "an admin"}

Refuse ==
    /\ walk = "count" /\ ~Permitted /\ walk' = "refused"
    /\ UNCHANGED <<table, clock, request, offset, total, page, known, shown, shrunk>>

Count ==
    /\ walk = "count" /\ Permitted
    /\ total' = Counted
    /\ page' = {}
    /\ known' = IF offset = 0 THEN Matching ELSE known
    /\ UNCHANGED <<table, clock, request, offset, shown, shrunk>>

\* ListContainers answers at once when there is nothing to select.
ListJobs == request.kind = "jobs" /\ Count /\ walk' = IF total' = 0 THEN "answered" ELSE "select"

ListNodes == request.kind = "nodes" /\ Count /\ walk' = "select"

Select ==
    /\ walk = "select" /\ walk' = "answered"
    /\ \E s \in Ordered(Matching) :
          page' = {s[i] : i \in (offset + 1 .. offset + PageLimit) \cap DOMAIN s}
    /\ shown' = shown \cup page'
    /\ UNCHANGED <<table, clock, request, offset, total, known, shrunk>>

\* The next page begins after the rows of this one, until one is empty.  (A reader
\* who stops at TotalCount can miss rows: it is older than the page it comes with.)
NextPage ==
    /\ walk = "answered"
    /\ offset' = offset + Cardinality(page)
    /\ walk' = IF page = {} THEN "done" ELSE "count"
    /\ UNCHANGED <<table, clock, request, total, page, known, shown, shrunk>>

-----------------------------------------------------------------------------
WalkInit ==
    /\ table = <<>> /\ clock = 0
    /\ \E kind \in {"jobs", "nodes"}, caller \in Callers :
          \E u \in Users, o \in Orderings(kind), n \in Limits, f \in BOOLEAN :
             request = [kind |-> kind, caller |-> caller, username |-> u,
                        filtered |-> f, ordering |-> o, limit |-> n]
    /\ request.kind = "nodes" => request.caller = "another"
    /\ offset = 0 /\ total = 0 /\ page = {} /\ known = {} /\ shown = {} /\ shrunk = FALSE
    /\ walk = "count"

WalkNext ==
    \/ \E r \in Rows : Create(r) \/ CommitRow(r) \/ UpdateRow(r)
    \/ Refuse \/ ListJobs \/ ListNodes \/ Select \/ NextPage

WalkSpec == WalkInit /\ [][WalkNext]_walkVars

-----------------------------------------------------------------------------
\* A list of Containers that is read page by page in an order of creation misses none
\* that was there when it was begun, provided that no two of them are as old and that
\* none leaves it, as a list by status, meanwhile: Containers that come into it, also in
\* the middle of the order, may be missing and only make others appear twice.
InOrderOfCreation ==
    /\ request.kind = "jobs" /\ request.limit > 0 /\ ~shrunk
    /\ request.ordering \in {"CREATED_AT_ASC", "CREATED_AT_DESC"}
    /\ \A r, x \in Matching : r # x => table[r].created # table[x].created

WalkMissesNothing == walk = "done" /\ InOrderOfCreation => known \subseteq shown

\* A page has all the rows that TotalCount lets its reader expect, although the rows
\* were counted before they were selected, unless some have left the list.  (Without a
\* limit, which is a limit of 0, he is shown none: not the 50 of "Limit of 50 is used by
\* default".)
PageIsFull ==
    walk = "answered" /\ ~shrunk /\ request.limit > 0 =>
        \/ Cardinality(page) = PageLimit
        \/ offset + Cardinality(page) >= total
=============================================================================
