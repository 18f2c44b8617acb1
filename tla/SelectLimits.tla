------------------------------ MODULE SelectLimits ------------------------------
(***************************************************************************)
(* models.SelectLimits: the choice of the Containers to schedule on a Node *)
(* by the Limits they request.  The recursion of selectLimits is a         *)
(* function of the index and the resources left, the key of its cache; a   *)
(* BitArray is the set of its bits, and nil, which stands for no           *)
(* combination, is the empty set.  Indices start at 0 as in the code.      *)
(***************************************************************************)
EXTENDS Integers, FiniteSets, Functions

CONSTANTS
    Dims,        \* the kinds of resources: Cpu, Memory, Gpu, Disk
    Width,       \* bits of an amount (uint32)
    Requests,    \* bound: the amounts a Limit may request
    MaxLimits    \* bound: Limits to choose from

Amounts   == 0 .. 2^Width - 1
Resources == [Dims -> Amounts]

ASSUME WidthAssumption    == Width \in Nat
ASSUME RequestsAssumption == Requests \subseteq Amounts
ASSUME LimitsAssumption   == MaxLimits \in Nat /\ MaxLimits <= 65535  \* indices are uint16

VARIABLES limits, res, selected, done

vars == <<limits, res, selected, done>>

\* Mutant of limitFitsResources: an amount that is just enough is refused.
limitFitsStrictly(limit, r) == \A d \in Dims : limit[d] < r[d]

\* Mutant of limitFitsResources: one resource in which the Limit fits is enough.
limitFitsSome(limit, r) == \E d \in Dims : limit[d] <= r[d]

limitFitsResources(limit, r) == \A d \in Dims : limit[d] <= r[d]

reducedResources(limit, r) == [d \in Dims |-> (r[d] - limit[d]) % 2^Width]

\* bitarray.Max.
Longest(b1, b2) == IF Cardinality(b1) > Cardinality(b2) THEN b1 ELSE b2

\* The better of the combinations with and without the i-th Limit.  The longest with
\* it is cut short when it has all the Limits left, i to n - 1.
longestFrom(limit, i, n, next, r) ==
    LET with    == IF limitFitsResources(limit, r) THEN {i} \cup next[reducedResources(limit, r)] ELSE {}
        without == IF Cardinality(with) < n - i THEN next[r] ELSE {}
    IN  Longest(with, without)

\* selectLimits for n Limits; the index n is never reached by the code.
select(ls, n) ==
    LET sel[i \in 0 .. n] ==
          [r \in Resources |-> IF i = n THEN {} ELSE longestFrom(ls[i], i, n, sel[i + 1], r)]
    IN  sel

Size == Cardinality(DOMAIN limits)

Init ==
    /\ \E n \in 0 .. MaxLimits : limits \in [0 .. n - 1 -> [Dims -> Requests]]
    /\ res \in Resources
    /\ selected = {} /\ done = FALSE

Call ==
    /\ ~done /\ done' = TRUE
    /\ selected' = select(limits, Size)[0][res]
    /\ UNCHANGED <<limits, res>>

Spec == Init /\ [][Call]_vars

-----------------------------------------------------------------------------
\* The definition that the algorithm is checked against: the sets of Limits whose
\* sums, which do not wrap around, are available.
Fits(S) == \A d \in Dims : SumFunctionOnSet([i \in DOMAIN limits |-> limits[i][d]], S) <= res[d]

\* "finds the best combination of Containers that can be fitted into the given
\* resources": what is selected fits as a whole ...
SelectedFits == done => selected \subseteq DOMAIN limits /\ Fits(selected)

\* ... and no combination of more Containers does, although branches are cut when
\* the combination with the current Limit is as long as it can be.
SelectedIsBest ==
    done => \A S \in SUBSET DOMAIN limits : Fits(S) => Cardinality(S) <= Cardinality(selected)

=============================================================================
