-------------------------- MODULE DestinationView ---------------------------
(***************************************************************************)
(* What ProcessSignal promises each burst: it is sent over the links that  *)
(* its source had at one single moment of its processing, as if the worker *)
(* had read them in one step, whatever the callers attach and detach       *)
(* meanwhile.  Module Intermediate, where the read is a version test and   *)
(* either a cached list or a locked copy, implements this specification.   *)
(***************************************************************************)
CONSTANTS
    Source,     \* sources of bursts
    Link        \* possible links: a destination and its Channel object

VARIABLES
    links,      \* the links of every source at this moment
    serving,    \* the sources whose worker has the links of its burst
    view        \* those links

vars == <<links, serving, view>>

\* Somebody attaches or detaches; nobody's view moves with it.
Relink ==
    /\ links' \in [Source -> SUBSET Link]
    /\ UNCHANGED <<serving, view>>

ReadLinks(s) ==
    /\ s \notin serving
    /\ serving' = serving \cup {s}
    /\ view' = [view EXCEPT ![s] = links[s]]
    /\ UNCHANGED links

FinishBurst(s) ==
    /\ s \in serving
    /\ serving' = serving \ {s}
    /\ view' = [view EXCEPT ![s] = {}]
    /\ UNCHANGED links

Init ==
    /\ links = [s \in Source |-> {}]
    /\ serving = {}
    /\ view = [s \in Source |-> {}]

Next == Relink \/ \E s \in Source : ReadLinks(s) \/ FinishBurst(s)

Spec == Init /\ [][Next]_vars
=============================================================================
