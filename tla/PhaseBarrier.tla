---------------------------- MODULE PhaseBarrier ----------------------------
(***************************************************************************)
(* What a reusable barrier promises to a group of threads that may shrink: *)
(* nobody is let go before every live thread has arrived, everybody that   *)
(* arrived is let go together, and a thread that leaves the group for good *)
(* no longer holds the others back.                                        *)
(***************************************************************************)
CONSTANT Threads

VARIABLES
    live,      \* threads that still take part
    arrived,   \* threads blocked in the current phase
    leaving    \* threads of the previous phase that have not returned yet

vars == <<live, arrived, leaving>>

TypeOK == /\ live \subseteq Threads
          /\ arrived \subseteq live
          /\ leaving \subseteq live
          /\ arrived \cap leaving = {}

Init == live = Threads /\ arrived = {} /\ leaving = {}

Outside == live \ (arrived \cup leaving)

Arrive(t) ==
    /\ t \in Outside
    /\ arrived \cup {t} # live
    /\ arrived' = arrived \cup {t}
    /\ UNCHANGED <<live, leaving>>

\* The last live thread arrives: the phase ends and every thread is let go.
ArriveLast(t) ==
    /\ t \in Outside
    /\ arrived \cup {t} = live
    /\ arrived' = {}
    /\ leaving' = live
    /\ UNCHANGED live

\* All that remain have arrived because the missing one left for good.
Trip ==
    /\ arrived = live /\ live # {}
    /\ arrived' = {}
    /\ leaving' = live
    /\ UNCHANGED live

Return(t) ==
    /\ t \in leaving
    /\ leaving' = leaving \ {t}
    /\ UNCHANGED <<live, arrived>>

Depart(t) ==
    /\ t \in Outside
    /\ live' = live \ {t}
    /\ UNCHANGED <<arrived, leaving>>

Step(t) == Arrive(t) \/ ArriveLast(t) \/ Return(t) \/ Depart(t)

Next == Trip \/ \E t \in Threads : Step(t)

Safe == Init /\ [][Next]_vars

Fairness == WF_vars(Trip) /\ \A t \in Threads : WF_vars(Return(t))

Spec == Safe /\ Fairness
=============================================================================
