----------------------------- MODULE EventDelivery -----------------------------
(***************************************************************************)
(* What the event pipeline promises, without queue members, transactions,  *)
(* redeliveries or failures: events are announced once, each handler that  *)
(* acts on an event takes effect on it once, a change is committed only    *)
(* with all of its events announced, and an event is acknowledged, never   *)
(* to be seen again, after all its handlers took effect.                   *)
(***************************************************************************)
EXTENDS Naturals, Sequences

CONSTANTS Chain, Rpc, Subscribed, UUIDs, None

VARIABLES author, channel, acked, effects, durable

dvars == <<author, channel, acked, effects, durable>>

HandlerNames == {Chain[i] : i \in DOMAIN Chain}

Init ==
    /\ author = [u \in UUIDs |-> None]
    /\ channel = {} /\ acked = {} /\ durable = {}
    /\ effects = [k \in HandlerNames \X UUIDs |-> 0]

Announce(u, a) ==
    /\ u \notin channel
    /\ channel' = channel \cup {u}
    /\ author' = [author EXCEPT ![u] = a]
    /\ UNCHANGED <<acked, effects, durable>>

\* A request commits the change that the events of S announce.
Change(S) ==
    /\ durable' = durable \cup S
    /\ UNCHANGED <<author, channel, acked, effects>>

\* A handler takes effect, and commits the change that the events of S announce.
Apply(h, u, S) ==
    /\ u \in channel
    /\ <<h, author[u]>> \in Subscribed
    /\ effects[<<h, u>>] = 0
    /\ effects' = [effects EXCEPT ![<<h, u>>] = 1]
    /\ durable' = durable \cup S
    /\ UNCHANGED <<author, channel, acked>>

Acknowledge(u) ==
    /\ u \in channel
    /\ \A h \in HandlerNames : <<h, author[u]>> \in Subscribed => effects[<<h, u>>] = 1
    /\ acked' = acked \cup {u}
    /\ UNCHANGED <<author, channel, effects, durable>>

Next ==
    \/ \E u \in UUIDs, a \in HandlerNames \cup {Rpc} : Announce(u, a)
    \/ \E S \in SUBSET channel : Change(S)
    \/ \E h \in HandlerNames, u \in UUIDs, S \in SUBSET channel : Apply(h, u, S)
    \/ \E u \in UUIDs : Acknowledge(u)

Spec == Init /\ [][Next]_dvars

FairSpec ==
    /\ Spec
    /\ \A u \in UUIDs :
          /\ WF_dvars(Acknowledge(u))
          /\ \A h \in HandlerNames : WF_dvars(\E S \in SUBSET channel : Apply(h, u, S))
=============================================================================
