---------------------------- MODULE BoundedPool ----------------------------
(***************************************************************************)
(* What a per-agent scheduler promises its callers, with the semaphore,    *)
(* the wait queue and the task handles abstracted away: a pool admits a    *)
(* job while it accepts work, starts only admitted jobs, never has more    *)
(* than Limit of them active, and never brings a job back once it left.    *)
(***************************************************************************)
EXTENDS Naturals, FiniteSets

CONSTANTS Jobs,     \* everything that may ever be submitted
          Limit     \* how many jobs may be active at once

VARIABLES accepting,  \* does the pool still admit jobs?
          admitted,   \* admitted, not started
          active,     \* started, not finished
          gone        \* finished, dropped or failed

poolVars == <<accepting, admitted, active, gone>>

PoolInit ==
  /\ accepting = TRUE
  /\ admitted = {}
  /\ active = {}
  /\ gone = {}

Admit(j) ==
  /\ accepting
  /\ j \notin admitted \cup active \cup gone
  /\ admitted' = admitted \cup {j}
  /\ UNCHANGED <<accepting, active, gone>>

Start(j) ==
  /\ j \in admitted
  /\ Cardinality(active) < Limit
  /\ admitted' = admitted \ {j}
  /\ active' = active \cup {j}
  /\ UNCHANGED <<accepting, gone>>

Leave(j) ==
  /\ j \in admitted \cup active
  /\ admitted' = admitted \ {j}
  /\ active' = active \ {j}
  /\ gone' = gone \cup {j}
  /\ UNCHANGED accepting

Stop ==
  /\ accepting' = FALSE
  /\ UNCHANGED <<admitted, active, gone>>

PoolNext == Stop \/ \E j \in Jobs : Admit(j) \/ Start(j) \/ Leave(j)

PoolSpec == PoolInit /\ [][PoolNext]_poolVars
=============================================================================
