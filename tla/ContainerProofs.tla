---------------------------- MODULE ContainerProofs ----------------------------
(***************************************************************************)
(* Proofs about the Containers of scheduler/models, for all callers, users *)
(* and rows: their status (ContainerStatus) and their lists (Queries).     *)
(* The two specifications share nothing but the table they are about.      *)
(*                                                                         *)
(* Queries: a SELECT takes the rows of an interval of positions of some    *)
(* list of the rows that match (PageSize, OrderedList).  As long as no row *)
(* has left the list there are at least as many as were counted            *)
(* (PagesAreFull); in an order of creation without ties the position of a  *)
(* row is the number of rows before it (RankIsPosition), which only grows  *)
(* (RankGrows), so that a row the reader has not been past does not get    *)
(* behind it (WalksMissNothing).                                           *)
(***************************************************************************)
EXTENDS ContainerStatus, Queries, FiniteSetTheorems, FunctionTheorems, TLAPS

-----------------------------------------------------------------------------
(* The status of a Container. *)

\* Who is past the load holds the row lock; until its commit the row has the status
\* that it loaded and validated the transition for.
LockInv ==
    /\ \A w \in Workers : pc[w] # "load" => rowLock = w
    /\ \A w \in Workers : pc[w] \in {"labels", "check", "update"} => seen[w] = status
    /\ \A w \in Workers : pc[w] = "update" => want[w] \in Transitions[status]
    /\ \A w \in Workers : pc[w] \in {"send", "commit"} => seen[w] \in Transitions[status]

\* Whoever loads how: from the UPDATE to the commit the row is locked, so the event is
\* ahead of the row only while its transaction is between Send and Commit.
EventInv ==
    /\ \A w \in Workers : pc[w] \in {"send", "commit"} => rowLock = w
    /\ failures = 0 =>
          /\ (\A w \in Workers : pc[w] # "commit") => lastEvent = status
          /\ \A w \in Workers : pc[w] = "commit" => lastEvent = seen[w]

IInv == TypeOK /\ LockInv

\* No caller has loaded the Container yet.
LEMMA InitInv == Init => IInv
BY FailuresAssumption DEF Init, IInv, TypeOK, LockInv, Status

\* The assignments of a step are statuses, callers and states of a call.
LEMMA TypeStep == TypeOK /\ [Next]_vars => TypeOK'
<1> SUFFICES ASSUME TypeOK, [Next]_vars PROVE TypeOK'
    OBVIOUS
<1> USE WantsAssumption, WorkersAssumption, FailuresAssumption
<1> USE DEF TypeOK, Goto, Release
<1>1. ASSUME NEW w \in Workers, Load(w) PROVE TypeOK'
  <2>1. PICK s \in Wants[w] : want' = [want EXCEPT ![w] = s]
    BY <1>1 DEF Load
  <2>. QED
    BY <1>1, <2>1 DEF Load
<1>2. ASSUME NEW w \in Workers, CheckTransition(w) PROVE TypeOK'
    BY <1>2 DEF CheckTransition
<1>3. ASSUME NEW w \in Workers, Update(w) PROVE TypeOK'
    BY <1>3 DEF Update
<1>4. ASSUME NEW w \in Workers, Send(w) PROVE TypeOK'
    BY <1>4 DEF Send
<1>5. ASSUME NEW w \in Workers, Commit(w) PROVE TypeOK'
    BY <1>5 DEF Commit
<1>6. ASSUME NEW w \in Workers, NEW stored \in BOOLEAN, SendFails(w, stored) PROVE TypeOK'
    BY <1>6 DEF SendFails, Failure
<1>7. ASSUME NEW w \in Workers, NEW committed \in BOOLEAN, CommitFails(w, committed) PROVE TypeOK'
    BY <1>7 DEF CommitFails, Failure
<1>8. ASSUME NEW w \in Workers, LoadLabels(w) PROVE TypeOK'
    BY <1>8 DEF LoadLabels
<1>9. ASSUME NEW w \in Workers, QueryFails(w) PROVE TypeOK'
    BY <1>9 DEF QueryFails, Failure
<1>10. ASSUME NEW w \in Workers, LoadTasksFails(w) PROVE TypeOK'
    BY <1>10 DEF LoadTasksFails, Failure
<1>11. ASSUME NEW w \in Workers, Restart(w) PROVE TypeOK'
    BY <1>11 DEF Restart, Failure
<1>12. CASE UNCHANGED vars
    BY <1>12 DEF vars
<1>. QED
    BY <1>1, <1>2, <1>3, <1>4, <1>5, <1>6, <1>7, <1>8, <1>9, <1>10, <1>11, <1>12
    DEF Next, Step, Fails

\* The row lock is what keeps a validated transition valid.
LEMMA LockStep ==
    ASSUME ForUpdate = Workers, IInv, [Next]_vars
    PROVE  LockInv'
<1> USE WantsAssumption, WorkersAssumption
<1> USE DEF IInv, TypeOK, LockInv, Goto, Release
<1>1. ASSUME NEW w \in Workers, Load(w) PROVE LockInv'
    BY <1>1 DEF Load
<1>2. ASSUME NEW w \in Workers, CheckTransition(w) PROVE LockInv'
    BY <1>2 DEF CheckTransition
<1>3. ASSUME NEW w \in Workers, Update(w) PROVE LockInv'
    BY <1>3 DEF Update
<1>4. ASSUME NEW w \in Workers, Send(w) PROVE LockInv'
    BY <1>4 DEF Send
<1>5. ASSUME NEW w \in Workers, Commit(w) PROVE LockInv'
    BY <1>5 DEF Commit
<1>6. ASSUME NEW w \in Workers, NEW stored \in BOOLEAN, SendFails(w, stored) PROVE LockInv'
    BY <1>6 DEF SendFails
<1>7. ASSUME NEW w \in Workers, NEW committed \in BOOLEAN, CommitFails(w, committed) PROVE LockInv'
    BY <1>7 DEF CommitFails
<1>8. ASSUME NEW w \in Workers, LoadLabels(w) PROVE LockInv'
    BY <1>8 DEF LoadLabels
<1>9. ASSUME NEW w \in Workers, QueryFails(w) PROVE LockInv'
    BY <1>9 DEF QueryFails
<1>10. ASSUME NEW w \in Workers, LoadTasksFails(w) PROVE LockInv'
    BY <1>10 DEF LoadTasksFails
<1>11. ASSUME NEW w \in Workers, Restart(w) PROVE LockInv'
    BY <1>11 DEF Restart
<1>12. CASE UNCHANGED vars
    BY <1>12 DEF vars
<1>. QED
    BY <1>1, <1>2, <1>3, <1>4, <1>5, <1>6, <1>7, <1>8, <1>9, <1>10, <1>11, <1>12
    DEF Next, Step, Fails

\* A step of a caller that holds the row changes the status along the table.
LEMMA TransitionStep ==
    ASSUME LockInv, [Next]_vars
    PROVE  [status' # status => status' \in Transitions[status]]_status
BY DEF LockInv, Next, Step, Fails, Load, LoadLabels, CheckTransition, Update, QueryFails,
       LoadTasksFails, Restart, Send, SendFails, Commit, CommitFails, Goto, vars

\* An UPDATE waits for the row lock, and every end of a transaction after it publishes
\* the status that it commits, or is a failure.
LEMMA EventStep ==
    ASSUME TypeOK, EventInv, [Next]_vars
    PROVE  EventInv'
<1> USE WantsAssumption, WorkersAssumption, FailuresAssumption
<1> USE DEF TypeOK, EventInv, Goto, Release, Failure
<1>1. ASSUME NEW w \in Workers, Load(w) PROVE EventInv'
    BY <1>1 DEF Load
<1>2. ASSUME NEW w \in Workers, CheckTransition(w) PROVE EventInv'
    BY <1>2 DEF CheckTransition
<1>3. ASSUME NEW w \in Workers, Update(w) PROVE EventInv'
    BY <1>3 DEF Update
<1>4. ASSUME NEW w \in Workers, Send(w) PROVE EventInv'
    BY <1>4 DEF Send
<1>5. ASSUME NEW w \in Workers, Commit(w) PROVE EventInv'
    BY <1>5 DEF Commit
<1>6. ASSUME NEW w \in Workers, NEW stored \in BOOLEAN, SendFails(w, stored) PROVE EventInv'
    BY <1>6 DEF SendFails
<1>7. ASSUME NEW w \in Workers, NEW committed \in BOOLEAN, CommitFails(w, committed) PROVE EventInv'
    BY <1>7 DEF CommitFails
<1>8. ASSUME NEW w \in Workers, LoadLabels(w) PROVE EventInv'
    BY <1>8 DEF LoadLabels
<1>9. ASSUME NEW w \in Workers, QueryFails(w) PROVE EventInv'
    BY <1>9 DEF QueryFails, Failure
<1>10. ASSUME NEW w \in Workers, LoadTasksFails(w) PROVE EventInv'
    BY <1>10 DEF LoadTasksFails, Failure
<1>11. ASSUME NEW w \in Workers, Restart(w) PROVE EventInv'
    BY <1>11 DEF Restart, Failure
<1>12. CASE UNCHANGED vars
    BY <1>12 DEF vars
<1>. QED
    BY <1>1, <1>2, <1>3, <1>4, <1>5, <1>6, <1>7, <1>8, <1>9, <1>10, <1>11, <1>12
    DEF Next, Step, Fails

\* Whatever callers there are, the variables keep their types.
THEOREM TypeCorrect == Spec => []TypeOK
BY InitInv, TypeStep, PTL DEF Spec, IInv

\* If every caller loads the Container FOR UPDATE the committed status changes only
\* along ContainerStatusTransitions.
THEOREM LockedTransitions == ForUpdate = Workers /\ Spec => TransitionsFollowTable
<1>1. ASSUME ForUpdate = Workers PROVE Init /\ [][Next]_vars => [][status' # status => status' \in Transitions[status]]_status
  <2>1. IInv /\ [Next]_vars => IInv'
    BY <1>1, TypeStep, LockStep DEF IInv
  <2>2. IInv /\ [Next]_vars => [status' # status => status' \in Transitions[status]]_status
    BY TransitionStep DEF IInv
  <2>. QED
    BY InitInv, <2>1, <2>2, PTL
<1>. QED
    BY <1>1 DEF Spec, TransitionsFollowTable

\* Unless a call failed, between transactions the last event published for the
\* Container shows the status of its row, also if callers load it without FOR UPDATE.
THEOREM EventsFollowRow == Spec => []LastEventIsStatus
<1>1. Init => EventInv
    BY DEF Init, EventInv
<1>2. TypeOK /\ EventInv => LastEventIsStatus
    BY WorkersAssumption DEF EventInv, LastEventIsStatus
<1>. QED
    BY <1>1, <1>2, EventStep, TypeCorrect, PTL DEF Spec

-----------------------------------------------------------------------------
(* Lists: the inductive invariant. *)

\* What the columns of a row hold.
Row == [created : Nat, changed : Nat, owner : Users, listed : BOOLEAN, committed : BOOLEAN]

\* Finitely many rows, with times and owners.
TableInv ==
    /\ clock \in Nat /\ shrunk \in BOOLEAN /\ request.username \in Users
    /\ IsFiniteSet(DOMAIN table) /\ table \in [DOMAIN table -> Row]

\* The rows that were counted are still selected.
PageInv ==
    /\ request.limit \in Nat /\ offset \in Nat /\ total \in Nat /\ IsFiniteSet(page)
    /\ walk = "select" /\ ~shrunk => total <= Cardinality(Matching)
    /\ PageIsFull

\* The position of a row in the list.
Rank(r) == Cardinality({x \in Matching : Before(x, r)})

\* How many rows of the list the reader has been past.
Passed == IF walk = "answered" THEN offset + Cardinality(page) ELSE offset

\* What the reader has been past was shown; the list has ended when a page is empty.
PassedInv ==
    InOrderOfCreation =>
        /\ known \subseteq Matching
        /\ \A r \in known : Rank(r) < Passed => r \in shown
        /\ walk = "done" \/ (walk = "answered" /\ page = {}) => known \subseteq shown

\* The inductive invariant.
WalkInv == TableInv /\ PageInv /\ PassedInv

-----------------------------------------------------------------------------
(* Finite sets and lists. *)

\* The members of a list at the positions J.
Image(s, J) == {s[i] : i \in J}

\* Some of the members of a list without repetitions are as many as their positions.
LEMMA ImageSize ==
    ASSUME NEW D, NEW S, NEW s \in [D -> S], \A i, j \in D : i # j => s[i] # s[j],
           NEW J \in SUBSET D, IsFiniteSet(J)
    PROVE  IsFiniteSet(Image(s, J)) /\ Cardinality(Image(s, J)) = Cardinality(J)
<1> DEFINE T == Image(s, J)
           f == [i \in J |-> s[i]]
<1>1. f \in Bijection(J, T)
  <2>1. f \in [J -> T] /\ \A i, j \in J : f[i] = f[j] => i = j
    BY DEF Image
  <2>2. \A t \in T : \E i \in J : f[i] = t
    BY DEF Image
  <2>. HIDE DEF f, T
  <2>. QED
    BY <2>1, <2>2, Fun_IsBij
<1>. HIDE DEF T
<1>2. IsFiniteSet(T) /\ Cardinality(T) = Cardinality(J)
    BY <1>1, Fun_ExistsBij, FS_Bijection DEF ExistsBijection
<1>. QED
    BY <1>2 DEF T

\* A list of a finite set has each of its members once.
LEMMA OrderedList ==
    ASSUME NEW S, IsFiniteSet(S), NEW s \in Ordered(S)
    PROVE  /\ Cardinality(S) \in Nat
           /\ s \in [1 .. Cardinality(S) -> S]
           /\ DOMAIN s = 1 .. Cardinality(S)
           /\ \A i, j \in 1 .. Cardinality(S) : i # j => s[i] # s[j]
           /\ \A x \in S : \E i \in 1 .. Cardinality(S) : s[i] = x
           /\ \A i, j \in 1 .. Cardinality(S) : Before(s[i], s[j]) => i < j
<1> DEFINE D == 1 .. Cardinality(S)
<1>1. Cardinality(S) \in Nat
    BY FS_CardinalityType
<1>2. s \in [D -> S] /\ (\A i, j \in D : i # j => s[i] # s[j])
    BY DEF Ordered, SetToSeqs
<1>3. \A i, j \in D : Before(s[i], s[j]) => i < j
    BY <1>2 DEF Ordered
<1>4. IsFiniteSet(D) /\ Cardinality(D) = Cardinality(S)
    BY <1>1, FS_Interval
<1>. HIDE DEF D
<1>5. s \in Injection(D, S)
    BY <1>2, Fun_IsInj
<1>6. s \in Surjection(D, S)
    BY <1>4, <1>5, FS_Injection
<1>7. \A x \in S : \E i \in D : s[i] = x
    BY <1>6, Fun_SurjectionProperties
<1>. QED
    BY <1>1, <1>2, <1>3, <1>7 DEF D

\* The positions of a page, within the list.
LEMMA PageSize ==
    ASSUME NEW n \in Nat, NEW o \in Nat, NEW l \in Nat
    PROVE  LET J == (o + 1 .. o + l) \cap (1 .. n)
           IN  /\ J \in SUBSET (1 .. n) /\ IsFiniteSet(J)
               /\ Cardinality(J) = l \/ o + Cardinality(J) >= n
               /\ o + Cardinality(J) \in Nat
               /\ \A i \in o + 1 .. o + Cardinality(J) : i \in J
               /\ Cardinality(J) = 0 /\ l > 0 => o >= n
<1> DEFINE J == (o + 1 .. o + l) \cap (1 .. n)
           last == IF o + l <= n THEN o + l ELSE n
<1>1. last \in Nat /\ J = o + 1 .. last
    OBVIOUS
<1>2. IsFiniteSet(J) /\ Cardinality(J) = IF o + 1 > last THEN 0 ELSE last - (o + 1) + 1
  <2>. HIDE DEF last, J
  <2>. QED
    BY <1>1, FS_Interval
<1>. HIDE DEF J
<1>3. Cardinality(J) \in Nat
    BY <1>1, <1>2
<1>4. Cardinality(J) = l \/ o + Cardinality(J) >= n
    BY <1>2, <1>3
<1>5. \A i \in o + 1 .. o + Cardinality(J) : i \in J
  <2>. HIDE DEF last
  <2>. QED
    BY <1>1, <1>2, <1>3
<1>6. Cardinality(J) = 0 /\ l > 0 => o >= n
    BY <1>2
<1>. QED
    BY <1>2, <1>3, <1>4, <1>5, <1>6 DEF J

-----------------------------------------------------------------------------
(* The table. *)

\* A list is begun before any row is; no page was read.
LEMMA WalkInitInv == WalkInit => WalkInv
<1> SUFFICES ASSUME WalkInit PROVE WalkInv
    OBVIOUS
<1> USE DEF WalkInit
<1>1. DOMAIN table = {} /\ table \in [DOMAIN table -> Row]
    OBVIOUS
<1>2. TableInv
  <2>1. request.username \in Users
    OBVIOUS
  <2>. QED
    BY <1>1, <2>1, FS_EmptySet DEF TableInv
<1>3. PageInv
    BY FS_EmptySet, LimitsAssumption DEF PageInv, PageIsFull
<1>4. PassedInv
    BY DEF PassedInv
<1>. QED
    BY <1>2, <1>3, <1>4 DEF WalkInv

\* What a step of the table leaves of each row and, while none has left it, of the list.
Grows ==
    /\ request' = request
    /\ \A r \in DOMAIN table : r \in DOMAIN table' /\ table'[r].created = table[r].created
    /\ ~shrunk' => ~shrunk /\ Matching \subseteq Matching'

\* Rows are inserted, committed and updated.
LEMMA TableStep ==
    ASSUME TableInv, NEW r \in Rows, Create(r) \/ CommitRow(r) \/ UpdateRow(r)
    PROVE  TableInv' /\ Grows
<1> USE DEF TableInv, Row
<1>1. ASSUME Create(r) PROVE TableInv' /\ Grows
  <2>1. PICK u \in Users, l \in BOOLEAN : table' =
            [x \in DOMAIN table \cup {r} |->
                IF x = r
                THEN [created |-> clock', changed |-> Null, owner |-> u, listed |-> l,
                      committed |-> FALSE]
                ELSE table[x]]
    BY <1>1 DEF Create, Owners, Listed
  <2>2. /\ clock' \in {clock, clock + 1} /\ r \notin DOMAIN table /\ Null \in Nat
        /\ request' = request /\ shrunk' = shrunk
    BY <1>1, MaxClockAssumption DEF Create, Null
  <2>3. DOMAIN table' = DOMAIN table \cup {r}
    BY <2>1
  <2>4. IsFiniteSet(DOMAIN table')
    BY <2>3, FS_AddElement
  <2>5. \A x \in DOMAIN table : table'[x] = table[x]
    BY <2>1, <2>2
  <2>6. table' \in [DOMAIN table' -> Row]
    BY <2>1, <2>2
  <2>7. Matching \subseteq Matching'
    BY <2>2, <2>3, <2>5 DEF Matching, Committed
  <2>. QED
    BY <2>2, <2>3, <2>4, <2>5, <2>6, <2>7 DEF Grows
<1>2. ASSUME CommitRow(r) PROVE TableInv' /\ Grows
  <2>1. /\ r \in DOMAIN table /\ table' = [table EXCEPT ![r].committed = TRUE]
        /\ clock' = clock /\ request' = request /\ shrunk' = shrunk
    BY <1>2 DEF CommitRow
  <2>2. DOMAIN table' = DOMAIN table
    BY <2>1
  <2>3. \A x \in DOMAIN table :
            /\ table'[x] \in Row
            /\ table'[x].created = table[x].created /\ table'[x].owner = table[x].owner
            /\ table'[x].listed = table[x].listed
            /\ table[x].committed => table'[x].committed
    BY <2>1
  <2>4. table' \in [DOMAIN table' -> Row]
    BY <2>1, <2>2, <2>3
  <2>5. Matching \subseteq Matching'
    BY <2>1, <2>2, <2>3 DEF Matching, Committed
  <2>. QED
    BY <2>1, <2>2, <2>3, <2>4, <2>5 DEF Grows
<1>3. ASSUME UpdateRow(r) PROVE TableInv' /\ Grows
  <2>1. PICK l \in BOOLEAN : table' = [table EXCEPT ![r].changed = clock', ![r].listed = l]
    BY <1>3 DEF UpdateRow, Listed
  <2>2. /\ r \in DOMAIN table /\ clock' = clock + 1 /\ request' = request
        /\ shrunk' = (shrunk \/ ~(Matching \subseteq Matching'))
    BY <1>3 DEF UpdateRow, Committed
  <2>3. DOMAIN table' = DOMAIN table
    BY <2>1
  <2>4. \A x \in DOMAIN table : table'[x] \in Row /\ table'[x].created = table[x].created
    BY <2>1, <2>2
  <2>5. table' \in [DOMAIN table' -> Row]
    BY <2>1, <2>3, <2>4
  <2>6. shrunk' \in BOOLEAN /\ (~shrunk' => ~shrunk /\ Matching \subseteq Matching')
    BY <2>2, Zenon
  <2>7. TableInv'
    BY <2>2, <2>3, <2>5, <2>6
  <2>. QED
    BY <2>2, <2>3, <2>4, <2>6, <2>7 DEF Grows
<1>. QED
    BY <1>1, <1>2, <1>3

\* The rows that are selected are some of the table.
LEMMA MatchingFinite ==
    ASSUME TableInv
    PROVE  IsFiniteSet(Matching) /\ Cardinality(Matching) \in Nat /\ Matching \subseteq DOMAIN table
<1>1. Matching \in SUBSET (DOMAIN table)
    BY DEF Matching, Committed
<1>. QED
    BY <1>1, FS_Subset, FS_CardinalityType DEF TableInv

\* Unless rows have left the list it has only grown.
LEMMA MatchingGrows ==
    ASSUME TableInv, TableInv', Grows, ~shrunk'
    PROVE  /\ Matching \subseteq Matching' /\ IsFiniteSet(Matching')
           /\ Cardinality(Matching) <= Cardinality(Matching')
<1>1. Matching \in SUBSET Matching'
    BY DEF Grows
<1>2. IsFiniteSet(Matching')
  <2>1. Matching' \in SUBSET (DOMAIN table')
    BY DEF Matching, Committed
  <2>. QED
    BY <2>1, FS_Subset DEF TableInv
<1>. QED
    BY <1>1, <1>2, FS_Subset

\* The list was in an order of creation if it still is.
LEMMA StillInOrder ==
    ASSUME TableInv, TableInv', Grows, InOrderOfCreation'
    PROVE  InOrderOfCreation
<1>1. Matching \subseteq Matching' /\ Matching \subseteq DOMAIN table
    BY MatchingGrows, MatchingFinite DEF InOrderOfCreation
<1>. QED
    BY <1>1 DEF InOrderOfCreation, Grows

\* In an order of creation the rows that precede a row do so as long as it lasts.
LEMMA RankGrows ==
    ASSUME TableInv, TableInv', Grows, InOrderOfCreation', NEW r \in Matching
    PROVE  Rank(r) \in Nat /\ Rank(r)' \in Nat /\ Rank(r) <= Rank(r)'
<1>0. ~shrunk' /\ Matching \subseteq Matching'
    BY MatchingGrows DEF InOrderOfCreation
<1> DEFINE A == {x \in Matching : Before(x, r)}
           B == {x \in Matching' : Before(x, r)'}
<1>1. A \in SUBSET B
  <2>1. \A x \in Matching : x \in DOMAIN table /\ r \in DOMAIN table
    BY DEF Matching, Committed
  <2>2. \A x \in Matching : Before(x, r) => Before(x, r)'
    BY <2>1 DEF Before, ByCreated, Grows, InOrderOfCreation
  <2>. QED
    BY <1>0, <2>2
<1>2. IsFiniteSet(A) /\ IsFiniteSet(B)
  <2>1. Matching' \in SUBSET (DOMAIN table')
    BY DEF Matching, Committed
  <2>2. B \in SUBSET (DOMAIN table')
    BY <2>1
  <2>3. IsFiniteSet(B)
    BY <2>2, FS_Subset DEF TableInv
  <2>. QED
    BY <1>1, <2>3, FS_Subset
<1>3. Rank(r) = Cardinality(A) /\ Rank(r)' = Cardinality(B)
    BY DEF Rank
<1>. HIDE DEF A, B
<1>. QED
    BY <1>1, <1>2, <1>3, FS_Subset, FS_CardinalityType

\* The i-th row of a list in an order of creation has i - 1 rows before it.
LEMMA RankIsPosition ==
    ASSUME TableInv, InOrderOfCreation, NEW s \in Ordered(Matching),
           NEW i \in 1 .. Cardinality(Matching)
    PROVE  Rank(s[i]) = i - 1
<1> DEFINE n == Cardinality(Matching)
           J == 1 .. i - 1
<1>1. /\ IsFiniteSet(Matching) /\ n \in Nat
      /\ s \in [1 .. n -> Matching]
      /\ \A j, k \in 1 .. n : j # k => s[j] # s[k]
      /\ \A x \in Matching : \E j \in 1 .. n : s[j] = x
      /\ \A j, k \in 1 .. n : Before(s[j], s[k]) => j < k
    BY MatchingFinite, OrderedList
<1>2. \A x, y \in Matching : x # y => Before(x, y) \/ Before(y, x)
  <2>1. \A x \in DOMAIN table : table[x].created \in Nat
    BY DEF TableInv, Row
  <2>. QED
    BY <2>1, MatchingFinite DEF Before, ByCreated, InOrderOfCreation
<1>3. J \in SUBSET (1 .. n)
    BY <1>1
<1>4. {x \in Matching : Before(x, s[i])} = Image(s, J)
  <2>1. ASSUME NEW j \in 1 .. n PROVE Before(s[j], s[i]) <=> j \in J
    BY <1>1, <1>2
  <2>. QED
    BY <1>1, <1>3, <2>1 DEF Image
<1>5. IsFiniteSet(J) /\ Cardinality(J) = i - 1
  <2>1. i - 1 \in Int /\ 1 \in Int /\ (1 > i - 1 => i - 1 = 0) /\ (i - 1) - 1 + 1 = i - 1
    BY <1>1
  <2>. QED
    BY <2>1, FS_Interval
<1>. HIDE DEF J
<1>6. Cardinality(Image(s, J)) = Cardinality(J)
    BY <1>1, <1>3, <1>5, ImageSize
<1>. QED
    BY <1>4, <1>5, <1>6 DEF Rank

-----------------------------------------------------------------------------
(* The steps. *)

\* While rows are inserted, committed and updated, those that were counted stay, and
\* those that the reader has not been past are not moved to where it has been.
LEMMA RowStep ==
    ASSUME WalkInv, NEW r \in Rows, Create(r) \/ CommitRow(r) \/ UpdateRow(r)
    PROVE  WalkInv'
<1>1. TableInv /\ PageInv /\ PassedInv
    BY DEF WalkInv
<1>2. TableInv' /\ Grows
    BY <1>1, TableStep
<1>3. UNCHANGED <<request, offset, total, page, known, shown, walk>>
    BY DEF Create, CommitRow, UpdateRow
<1>4. /\ Cardinality(Matching) \in Nat /\ Cardinality(Matching') \in Nat
      /\ ~shrunk' => ~shrunk /\ Matching \subseteq Matching'
                     /\ Cardinality(Matching) <= Cardinality(Matching')
  <2>1. Cardinality(Matching) \in Nat
    BY <1>1, MatchingFinite
  <2>2. IsFiniteSet(Matching')
    <3>1. Matching' \in SUBSET (DOMAIN table')
      BY DEF Matching, Committed
    <3>. QED
      BY <1>2, <3>1, FS_Subset DEF TableInv
  <2>3. ~shrunk' => ~shrunk
    BY <1>2 DEF Grows
  <2>. QED
    BY <1>1, <1>2, <2>1, <2>2, <2>3, MatchingGrows, FS_CardinalityType
<1>5. PageInv'
    BY <1>1, <1>3, <1>4 DEF PageInv, PageIsFull, PageLimit
<1>6. PassedInv'
  <2>1. SUFFICES ASSUME InOrderOfCreation' PROVE PassedInv'
    BY DEF PassedInv
  <2>2. Passed \in Nat /\ Passed' = Passed
    BY <1>1, <1>3, FS_CardinalityType DEF PageInv, Passed
  <2>3. InOrderOfCreation /\ Matching \subseteq Matching'
    BY <1>1, <1>2, <1>4, <2>1, StillInOrder DEF InOrderOfCreation
  <2>4. ASSUME NEW x \in known', Rank(x)' < Passed' PROVE x \in shown'
    <3>1. x \in known /\ x \in Matching
      BY <1>1, <1>3, <2>3 DEF PassedInv
    <3>2. Rank(x) \in Nat /\ Rank(x)' \in Nat /\ Rank(x) <= Rank(x)'
      BY <1>1, <1>2, <2>1, <3>1, RankGrows
    <3>3. Rank(x) < Passed
      BY <2>2, <2>4, <3>2
    <3>. QED
      BY <1>1, <1>3, <2>3, <3>1, <3>3 DEF PassedInv
  <2>. QED
    BY <1>1, <1>3, <2>3, <2>4 DEF PassedInv
<1>. QED
    BY <1>2, <1>5, <1>6 DEF WalkInv

\* COUNT counts what is there to select, and begins a list at its first row.
LEMMA CountStep ==
    ASSUME WalkInv, ListJobs \/ ListNodes
    PROVE  WalkInv'
<1>1. TableInv /\ PageInv /\ PassedInv
    BY DEF WalkInv
<1>2. /\ walk = "count" /\ total' = Cardinality(Matching) /\ page' = {}
      /\ known' = (IF offset = 0 THEN Matching ELSE known)
      /\ UNCHANGED <<table, clock, request, offset, shown, shrunk>>
      /\ walk' \in {"select", "answered"} /\ (walk' = "answered" => total' = 0)
      /\ request.kind = "jobs" /\ total' = 0 => walk' = "answered"
    BY DEF ListJobs, ListNodes, Count, Counted
<1>3. IsFiniteSet(Matching) /\ Cardinality(Matching) \in Nat
    BY <1>1, MatchingFinite
<1>4. Matching' = Matching /\ \A x : Rank(x)' = Rank(x)
    BY <1>2 DEF Matching, Committed, Rank, Before, ByCreated
<1>5. IsFiniteSet(page') /\ Cardinality(page') = 0
    BY <1>2, FS_EmptySet
<1>6. TableInv'
    BY <1>1, <1>2 DEF TableInv
<1>7. PageInv'
    BY <1>1, <1>2, <1>3, <1>4, <1>5 DEF PageInv, PageIsFull
<1>8. PassedInv'
  <2>1. SUFFICES ASSUME InOrderOfCreation PROVE PassedInv'
    BY <1>2, <1>4 DEF PassedInv, InOrderOfCreation
  <2>2. known \subseteq Matching /\ \A x \in known : Rank(x) < offset => x \in shown
    BY <1>1, <1>2, <2>1 DEF PassedInv, Passed
  <2>3. Passed' = offset /\ offset \in Nat
    BY <1>1, <1>2, <1>5 DEF Passed, PageInv
  <2>4. known' \subseteq Matching'
    BY <1>2, <1>4, <2>2
  <2>5. ASSUME NEW x \in known', Rank(x)' < Passed' PROVE x \in shown'
    <3>1. CASE offset = 0
      <4>1. {y \in Matching : Before(y, x)} \in SUBSET Matching
        OBVIOUS
      <4>2. Rank(x) \in Nat
        BY <1>3, <4>1, FS_Subset, FS_CardinalityType DEF Rank
      <4>. QED
        BY <1>4, <2>3, <2>5, <3>1, <4>2
    <3>2. CASE offset # 0
      BY <1>2, <1>4, <2>2, <2>3, <2>5, <3>2
    <3>. QED
      BY <3>1, <3>2
  <2>6. walk' # "done" /\ (walk' = "answered" => known' = {})
    <3>1. walk' = "answered" => Matching = {}
      BY <1>2, <1>3, FS_EmptySet
    <3>. QED
      BY <1>2, <1>4, <2>4, <3>1
  <2>. QED
    BY <2>4, <2>5, <2>6 DEF PassedInv
<1>. QED
    BY <1>6, <1>7, <1>8 DEF WalkInv

\* SELECT takes the rows at the positions of the page: it is short only if the list ends
\* there, and empty only if the list has ended before.
LEMMA SelectStep ==
    ASSUME WalkInv, Select
    PROVE  WalkInv'
<1>1. TableInv /\ PageInv /\ PassedInv
    BY DEF WalkInv
<1> DEFINE n == Cardinality(Matching)
           J == (offset + 1 .. offset + PageLimit) \cap (1 .. n)
<1>2. /\ walk = "select" /\ walk' = "answered" /\ shown' = shown \cup page'
      /\ UNCHANGED <<table, clock, request, offset, total, known, shrunk>>
    BY DEF Select
<1>3. PICK s \in Ordered(Matching) :
          page' = {s[i] : i \in (offset + 1 .. offset + PageLimit) \cap DOMAIN s}
    BY DEF Select
<1>4. /\ IsFiniteSet(Matching) /\ n \in Nat
      /\ s \in [1 .. n -> Matching] /\ DOMAIN s = 1 .. n
      /\ \A j, k \in 1 .. n : j # k => s[j] # s[k]
      /\ \A x \in Matching : \E j \in 1 .. n : s[j] = x
    BY <1>1, MatchingFinite, OrderedList
<1>5. offset \in Nat /\ total \in Nat /\ (~shrunk => total <= n) /\ request.limit \in Nat /\ PageLimit \in Nat
      /\ (request.limit > 0 => PageLimit > 0)
    BY <1>1, <1>2, MaxLimitAssumption DEF PageInv, PageLimit
<1>6. /\ J \in SUBSET (1 .. n) /\ IsFiniteSet(J) /\ Cardinality(J) \in Nat
      /\ Cardinality(J) = PageLimit \/ offset + Cardinality(J) >= n
      /\ \A i \in offset + 1 .. offset + Cardinality(J) : i \in J
      /\ Cardinality(J) = 0 /\ PageLimit > 0 => offset >= n
  <2>. HIDE DEF n
  <2>. QED
    BY <1>4, <1>5, PageSize, FS_CardinalityType
<1>7. page' = Image(s, J)
    BY <1>3, <1>4 DEF Image
<1>8. IsFiniteSet(page') /\ Cardinality(page') = Cardinality(J)
  <2> DEFINE D == 1 .. n
  <2>1. s \in [D -> Matching] /\ (\A i, j \in D : i # j => s[i] # s[j])
    BY <1>4
  <2>2. J \in SUBSET D /\ IsFiniteSet(J)
    BY <1>6
  <2>. HIDE DEF D, J
  <2>. QED
    BY <1>7, <2>1, <2>2, ImageSize
<1>9. Matching' = Matching /\ PageLimit' = PageLimit /\ \A x : Rank(x)' = Rank(x)
    BY <1>2 DEF Matching, Committed, Rank, Before, ByCreated, PageLimit
<1>10. TableInv'
    BY <1>1, <1>2 DEF TableInv
<1>11. PageInv'
  <2>. HIDE DEF J, n
  <2>. QED
    BY <1>2, <1>4, <1>5, <1>6, <1>8, <1>9 DEF PageInv, PageIsFull
<1>12. PassedInv'
  <2>1. SUFFICES ASSUME InOrderOfCreation PROVE PassedInv'
    BY <1>2, <1>9 DEF PassedInv, InOrderOfCreation
  <2>2. known \subseteq Matching /\ \A x \in known : Rank(x) < offset => x \in shown
    BY <1>1, <1>2, <2>1 DEF PassedInv, Passed
  <2>3. Passed' = offset + Cardinality(J)
    BY <1>2, <1>8 DEF Passed
  <2>4. ASSUME NEW x \in known PROVE \E i \in 1 .. n : s[i] = x /\ Rank(x) = i - 1
    BY <1>1, <1>4, <2>1, <2>2, RankIsPosition
  <2>5. ASSUME NEW x \in known', Rank(x)' < Passed' PROVE x \in shown'
    <3>1. PICK i \in 1 .. n : s[i] = x /\ Rank(x) = i - 1
      BY <1>2, <2>4
    <3>2. i \in Nat /\ Rank(x) < offset + Cardinality(J)
      BY <1>4, <1>9, <2>3, <2>5, <3>1
    <3>3. CASE i - 1 < offset
      BY <1>2, <2>2, <3>1, <3>3
    <3>4. CASE ~(i - 1 < offset)
      <4>1. i \in offset + 1 .. offset + Cardinality(J)
        BY <1>5, <1>6, <3>1, <3>2, <3>4
      <4>2. i \in J
        BY <1>6, <4>1
      <4>. QED
        BY <1>2, <1>7, <3>1, <4>2 DEF Image
    <3>. QED
      BY <3>3, <3>4
  <2>6. page' = {} => known' \subseteq shown'
    <3>1. SUFFICES ASSUME page' = {}, NEW x \in known PROVE x \in shown
      BY <1>2
    <3>2. offset >= n
      BY <1>5, <1>6, <1>8, <2>1, <3>1, FS_EmptySet DEF InOrderOfCreation
    <3>3. Rank(x) < offset
      BY <1>4, <1>5, <2>4, <3>2
    <3>. QED
      BY <2>2, <3>3
  <2>. QED
    BY <1>2, <1>9, <2>2, <2>5, <2>6 DEF PassedInv
<1>. QED
    BY <1>10, <1>11, <1>12 DEF WalkInv

\* The next page begins where this one has ended.
LEMMA NextPageStep ==
    ASSUME WalkInv, NextPage \/ Refuse \/ UNCHANGED walkVars
    PROVE  WalkInv'
<1>1. TableInv /\ PageInv /\ PassedInv
    BY DEF WalkInv
<1>2. /\ UNCHANGED <<table, clock, request, total, page, known, shown, shrunk>>
      /\ \/ walk = "answered" /\ offset' = offset + Cardinality(page)
            /\ walk' = IF page = {} THEN "done" ELSE "count"
         \/ walk = "count" /\ walk' = "refused" /\ offset' = offset
         \/ walk' = walk /\ offset' = offset
    BY DEF NextPage, Refuse, walkVars
<1>3. Cardinality(page) \in Nat
    BY <1>1, FS_CardinalityType DEF PageInv
<1>4. Matching' = Matching /\ \A x : Rank(x)' = Rank(x)
    BY <1>2 DEF Matching, Committed, Rank, Before, ByCreated
<1>5. Passed' = Passed
    BY <1>2 DEF Passed
<1>6. TableInv'
    BY <1>1, <1>2 DEF TableInv
<1>7. PageInv'
    BY <1>1, <1>2, <1>3, <1>4 DEF PageInv, PageIsFull, PageLimit
<1>8. PassedInv'
    BY <1>1, <1>2, <1>4, <1>5 DEF PassedInv, InOrderOfCreation
<1>. QED
    BY <1>6, <1>7, <1>8 DEF WalkInv

\* What every state of a list and its table satisfies.
LEMMA WalkInvariant == WalkSpec => []WalkInv
<1>1. WalkInv /\ [WalkNext]_walkVars => WalkInv'
    BY RowStep, CountStep, SelectStep, NextPageStep DEF WalkNext
<1>. QED
    BY <1>1, WalkInitInv, PTL DEF WalkSpec

\* A page has as many rows as were asked for or reaches to the last of the rows that were
\* counted, whatever was inserted or committed after the COUNT, unless an update has taken
\* a row out of the list.
THEOREM PagesAreFull == WalkSpec => []PageIsFull
<1>1. WalkInv => PageIsFull
    BY DEF WalkInv, PageInv
<1>. QED
    BY <1>1, WalkInvariant, PTL

\* A reader who asks for the Jobs page by page in an order of creation, until a page is
\* empty, has been shown every Job that was there when the list was begun, if none of them
\* are as old and none has left the list.
THEOREM WalksMissNothing == WalkSpec => []WalkMissesNothing
<1>1. WalkInv => WalkMissesNothing
    BY DEF WalkInv, PassedInv, WalkMissesNothing
<1>. QED
    BY <1>1, WalkInvariant, PTL
=============================================================================
