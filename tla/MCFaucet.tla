------------------------------ MODULE MCFaucet ------------------------------
(***************************************************************************)
(* Small instances of the faucet's parts, each running on its own: its     *)
(* queue with a store that works (the constants of the configuration),     *)
(* its queue with a store that fails (E) and the records of its wallet.    *)
(***************************************************************************)
EXTENDS FaucetQueue, FaucetRecords

VARIABLE part

E == INSTANCE FaucetQueue WITH
    max_len <- 1, StoreMayFail <- TRUE, MaxRequests <- 2, MaxRestarts <- 1, MaxLog <- 4

faucetVars == <<part, vars, recordVars>>

Queue(A) == part = "queue" /\ A /\ UNCHANGED <<part, recordVars>>

FailingQueue(A) == part = "failing queue" /\ A /\ UNCHANGED <<part, recordVars>>

Records(A) == part = "records" /\ A /\ UNCHANGED <<part, vars>>

MCInit ==
    /\ part \in {"queue", "failing queue", "records"}
    /\ Init /\ RecordsInit

MCNext == Queue(Next) \/ FailingQueue(E!Next) \/ Records(RecordsNext)

\* The fairness of the parts whose liveness is checked.
MCFairness ==
    /\ \A k \in Keys : WF_faucetVars(Queue(send(k)))
    /\ WF_faucetVars(Queue(healthcheckRemoves))
    /\ WF_faucetVars(Queue(startWorkers))
    /\ \A w \in Workers :
          /\ WF_faucetVars(Queue(pop(w)))
          /\ SF_faucetVars(Queue(lockWallet(w)))
          /\ WF_faucetVars(Queue(transfer(w) \/ transferFindsNoKey(w) \/ transferFails(w)))
          /\ SF_faucetVars(Queue(transfer(w)))
          /\ SF_faucetVars(Queue(grant(w)))
    /\ WF_faucetVars(Records(Breaker))
    /\ WF_faucetVars(Records(signal))
    /\ WF_faucetVars(Records(retire))

MCSpec == MCInit /\ [][MCNext]_faucetVars /\ MCFairness

-----------------------------------------------------------------------------
(***************************************************************************)
(* The index and the channel agree while the store works; when a grant     *)
(* could not be recorded (faucet.rs:453) its key may be nowhere until the  *)
(* next restart, and still no key is in two places, where two workers      *)
(* would serve it at a time, or outside of the index.                      *)
(***************************************************************************)
KeysHeldOnce ==
    /\ part = "queue" => KeysHeld
    /\ part = "failing queue" => E!KeysHeld

(***************************************************************************)
(* Every accepted request receives all its grants in the end, through      *)
(* failed transfers and restarts, when the store works.                    *)
(***************************************************************************)
AcceptedAreServed == part = "queue" => RequestsServed

(***************************************************************************)
(* The faucet does open, and the record breaker comes to rest and leaves   *)
(* the wallet free: it neither splits for ever nor waits for itself.       *)
(***************************************************************************)
BreakerComesToRest == part = "records" => BreakerRests
=============================================================================
