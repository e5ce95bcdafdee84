----------------------------- MODULE MCEqsPair -----------------------------
(***************************************************************************)
(* Two small instances of Eqs on the same variables: a service that is     *)
(* killed and restarted, whose constants the configuration gives, and one  *)
(* life of a service on a chain that is reorganised, with blocks of any    *)
(* submitter, R.                                                           *)
(***************************************************************************)
EXTENDS MCEqs

VARIABLE instance

ReorgEventLists(l) == EventListsOf(l, {"wrapped", "wrapped too"}, AnyLists, TRUE)

R == INSTANCE Eqs WITH
    num_confirmations <- 2, max_blocks_to_query <- 1, EventLists <- ReorgEventLists,
    MaxBlocks <- 4, MaxRestarts <- 0

pairVars == <<vars, instance>>

PairInit == instance \in {"crashes", "reorgs"} /\ Init

PairNext ==
    /\ \/ instance = "crashes" /\ Next
       \/ instance = "reorgs" /\ R!Next
    /\ UNCHANGED instance

\* The fairness of Eqs, of the instance that checks liveness.
PairSpec ==
    /\ PairInit /\ [][PairNext]_pairVars
    /\ WF_pairVars(instance = "crashes" /\ check /\ UNCHANGED instance)
    /\ WF_pairVars(instance = "crashes" /\ checkRange /\ UNCHANGED instance)
    /\ WF_pairVars(instance = "crashes" /\ Restart /\ UNCHANGED instance)

\* Where the chain is final, killed and restarted at any point, with failed
\* queries on the way, the service still comes to reflect every confirmed event
\* (entry.rs run, eth_polling.rs check).
CatchesUpAfterCrashes ==
    \A b \in 1 .. MaxBlocks :
        (instance = "crashes" /\ Confirmed >= b) ~> (instance = "crashes" /\ Reflected(b))
=============================================================================
