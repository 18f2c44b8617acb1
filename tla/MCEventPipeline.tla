---------------------------- MODULE MCEventPipeline ----------------------------
(***************************************************************************)
(* Instances of EventPipeline for TLC: two handlers in one subscription,   *)
(* the first of which announces changes the second one acts on.            *)
(***************************************************************************)
EXTENDS EventPipeline, TLC

CONSTANTS h1, h2

MCChain      == <<h1, h2>>
MCSubscribed == {<<h1, Rpc>>, <<h2, Rpc>>, <<h2, h1>>}
MCEmits      == (Rpc :> {1}) @@ (h1 :> {0, 1}) @@ (h2 :> {0})

\* The liveness run: no change of h1 is announced.
MCEmitsNone  == (Rpc :> {1}) @@ (h1 :> {0}) @@ (h2 :> {0})

Symmetry == Permutations(UUIDs) \cup Permutations(Members)
=============================================================================
