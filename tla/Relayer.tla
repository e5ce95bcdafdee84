------------------------------ MODULE Relayer ------------------------------
(***************************************************************************)
(* relayer/src/lib.rs and contracts/rust/src/cape/submit_block.rs: the     *)
(* server that turns requests into blocks of one transaction, and the loop *)
(* that submits an empty block when deposits wait.  They share one         *)
(* Ethereum account and the mutex of submit_block.                         *)
(*                                                                         *)
(* The Ethereum node and the contract are external here: the node keeps a  *)
(* pool of the account's transactions ordered by nonce, and the contract   *)
(* is reduced to what makes a block fail (CAPE.sol submitCapeBlock).       *)
(* Nonces are counted from the number of mined transactions of the         *)
(* account, so that 0 is the next one to be mined and -1 is too low.  Gas  *)
(* is counted in deposits to credit, the part of the cost that the         *)
(* estimate can miss.                                                      *)
(***************************************************************************)
EXTENDS Integers, FiniteSets, FiniteSetsExt

CONSTANTS
    Requests,                 \* calls of the submit endpoint
    Loop,                     \* the task of submit_empty_block_loop
    Txns,                     \* CAPE transactions
    None,
    max_retries,
    extra_gas,
    block_gas_limit,
    MAX_NUM_PENDING_DEPOSIT,
    NRoots,                   \* roots the contract remembers
    MaxPool,                  \* transactions in a row that a node keeps of an account
    MaxDeposits,              \* bound: deposits
    MaxFaults                 \* bound: failures of the node and the network

ASSUME RelayerAssumption ==
    /\ Loop \notin Requests
    /\ None \notin Txns \cup Requests \cup {Loop}
    /\ {max_retries, MaxDeposits, MaxFaults} \subseteq Nat
    /\ {MAX_NUM_PENDING_DEPOSIT, NRoots, MaxPool} \subseteq Nat \ {0}
    /\ extra_gas \in Nat /\ extra_gas >= MAX_NUM_PENDING_DEPOSIT
    /\ block_gas_limit \in Nat /\ block_gas_limit >= MAX_NUM_PENDING_DEPOSIT

Tasks == Requests \cup {Loop}

VARIABLES
    nonce_count_rule,  \* configuration: "Mined" or "Pending"
    mutex,             \* block_submission_mutex: its holder, or None
    job,               \* where each task is, and its locals
    accepted,          \* history: Ethereum transactions made of each request
    lagged,            \* history: a nonce was read from a node that lags
    pool,              \* external: the account's transactions, not yet mined
    contract,          \* external: the contract
    deposited,         \* bounded by MaxDeposits
    faults             \* bounded by MaxFaults

relayerVars == <<nonce_count_rule, mutex, job, accepted, lagged>>

ethereumVars == <<pool, contract, deposited>>

vars == <<relayerVars, ethereumVars, faults>>

EmptyBlock == [txn |-> None, root |-> 0]

Blocks == [txn : Txns, root : Nat] \cup {EmptyBlock}

NoJob == [pc |-> "idle", block |-> EmptyBlock, attempt |-> 0, nonce |-> 0, gas |-> 0,
          result |-> "none"]

Init ==
    /\ nonce_count_rule \in {"Mined", "Pending"}
    /\ mutex = None
    /\ job = [t \in Tasks |-> NoJob]
    /\ accepted = [r \in Requests |-> 0]
    /\ lagged = FALSE
    /\ pool = {}
    /\ contract = [deposits |-> 0, spent |-> {}, height |-> 0]
    /\ deposited = 0
    /\ faults = 0

Fault == faults < MaxFaults /\ faults' = faults + 1

-----------------------------------------------------------------------------
(* external: the contract.                                                 *)

\* Why submitCapeBlock rejects a block, in the order of its checks.
RevertReason(c, block) ==
    CASE block = EmptyBlock /\ c.deposits = 0 -> "Block must be non-empty"
      [] block # EmptyBlock /\ c.height - block.root >= NRoots -> "Root not found"
      [] block # EmptyBlock /\ block.txn \in c.spent -> "Nullifier already published"
      [] OTHER -> "none"

\* What a mined transaction does.  It fails when its gas does not cover the
\* deposits that it has to credit.
Execute(c, tx) ==
    IF RevertReason(c, tx.block) # "none" \/ tx.gas < c.deposits THEN c
    ELSE [deposits |-> 0, spent |-> c.spent \cup ({tx.block.txn} \ {None}),
          height |-> c.height + 1]

Deposit ==
    /\ deposited < MaxDeposits
    /\ contract.deposits < MAX_NUM_PENDING_DEPOSIT
    /\ contract' = [contract EXCEPT !.deposits = @ + 1]
    /\ deposited' = deposited + 1
    /\ UNCHANGED <<relayerVars, pool, faults>>

-----------------------------------------------------------------------------
(* external: the node.                                                     *)

Occupied(nonce) == \E tx \in pool : tx.nonce = nonce

FreeNonces == {n \in 0 .. MaxPool : ~Occupied(n)}

\* eth_getTransactionCount for "pending".
PendingCount == Min(FreeNonces)

PooledTxns == {x.block.txn : x \in pool} \ {None}

(***************************************************************************)
(* The states for which a node may estimate gas: the mined one, or one     *)
(* where blocks that can be mined have credited the deposits.              *)
(***************************************************************************)
EstimateViews ==
    {contract} \cup
    {[deposits |-> 0, spent |-> contract.spent \cup s, height |-> contract.height + n] :
       s \in SUBSET PooledTxns, n \in 1 .. PendingCount}

\* A transaction of the account is mined: every nonce comes one closer.
Mine ==
    \E tx \in pool :
        /\ tx.nonce = 0
        /\ contract' = Execute(contract, tx)
        /\ pool' = {[x EXCEPT !.nonce = @ - 1] : x \in pool \ {tx}}
        /\ job' = [t \in Tasks |->
                     IF job[t].pc \in {"estimating", "sending"}
                     THEN [job[t] EXCEPT !.nonce = IF @ < 0 THEN @ ELSE @ - 1] ELSE job[t]]
        /\ UNCHANGED <<nonce_count_rule, mutex, accepted, lagged, deposited, faults>>

\* The node drops a transaction, which may leave a gap.
Evict ==
    /\ Fault
    /\ \E tx \in pool : pool' = pool \ {tx}
    /\ UNCHANGED <<relayerVars, contract, deposited>>

-----------------------------------------------------------------------------
(* relay, submit_empty_block and the loop, up to submit_block.             *)

\* The transaction was proved against the latest root or one before it.
relay(r, txn, root) ==
    /\ job[r].pc = "idle"
    /\ job' = [job EXCEPT ![r].pc = "locking", ![r].block = [txn |-> txn, root |-> root]]
    /\ UNCHANGED <<nonce_count_rule, mutex, accepted, lagged, ethereumVars, faults>>

\* Answered before the lock: the body cannot be read, or the transaction makes no
\* block (Error::Deserialize, Error::BadBlock).
refuse(r) ==
    /\ job[r].pc = "idle"
    /\ job' = [job EXCEPT ![r].pc = "done", ![r].result = "BadBlock"]
    /\ UNCHANGED <<nonce_count_rule, mutex, accepted, lagged, ethereumVars, faults>>

queue_is_empty == contract.deposits = 0

\* A query that fails counts as an empty queue: the loop sleeps again.
submit_empty_block ==
    /\ job[Loop].pc = "idle"
    /\ ~queue_is_empty
    /\ job' = [job EXCEPT ![Loop].pc = "locking", ![Loop].block = EmptyBlock]
    /\ UNCHANGED <<nonce_count_rule, mutex, accepted, lagged, ethereumVars, faults>>

-----------------------------------------------------------------------------
(* submit_block and submit_cape_block_with_memos.                          *)

\* Mutant: the mutex is missing.
alwaysFree == TRUE

unlocked == mutex = None

lock(t) ==
    /\ job[t].pc = "locking"
    /\ unlocked
    /\ mutex' = t
    /\ job' = [job EXCEPT ![t].pc = "filling", ![t].attempt = 0]
    /\ UNCHANGED <<nonce_count_rule, accepted, lagged, ethereumVars, faults>>

\* Mutant: the guard is not dropped when the submission fails.
keptAfterError(t, result) == IF result = "Ok" THEN None ELSE mutex

afterSubmission(t, result) == None

\* Mutant: an error ends the loop of empty blocks.
stopsAfterError(t, result) ==
    IF t = Loop /\ result = "Ok" THEN NoJob
    ELSE [job[t] EXCEPT !.pc = "done", !.nonce = 0, !.gas = 0, !.result = result]

\* A request is answered; the loop logs the result and sleeps again.
finished(t, result) ==
    IF t = Loop THEN NoJob
    ELSE [job[t] EXCEPT !.pc = "done", !.nonce = 0, !.gas = 0, !.result = result]

Return(t, result) ==
    /\ mutex' = afterSubmission(t, result)
    /\ job' = [job EXCEPT ![t] = finished(t, result)]

\* Mutant: every error is retried.
anyError(error) == TRUE

retriable(error) == error = "Nonce"

retriesLeft(t) == job[t].attempt < max_retries

\* The end of one round of the loop in submit_block that did not succeed.
Fail(t, error) ==
    IF retriable(error) /\ retriesLeft(t)
    THEN /\ job' = [job EXCEPT ![t].pc = "filling", ![t].attempt = @ + 1,
                               ![t].nonce = 0, ![t].gas = 0]
         /\ UNCHANGED mutex
    ELSE Return(t, error)

CountedTransactions == IF nonce_count_rule = "Pending" THEN PendingCount ELSE 0

\* fill_transaction: the nonce, from a node that may be one transaction behind.
fillNonce(t) ==
    /\ job[t].pc = "filling"
    /\ \E lag \in {0, 1} :
          /\ IF lag = 1 THEN Fault ELSE UNCHANGED faults
          /\ lagged' = (lagged \/ lag = 1)
          /\ job' = [job EXCEPT ![t].pc = "estimating",
                                ![t].nonce = CountedTransactions - lag]
    /\ UNCHANGED <<nonce_count_rule, mutex, accepted, ethereumVars>>

\* How submit_block classifies the reason of a failed estimate.
ErrorOf(reason) ==
    CASE reason = "Root not found" -> "RootNotFound"
      [] reason = "Block must be non-empty" -> "BlockAndPendingDepositsQueueEmpty"
      [] OTHER -> "Submission"

\* Mutant: the estimate is used as it is.
estimatedGas(estimate) == Min({estimate, block_gas_limit})

gasToSend(estimate) == Min({estimate + extra_gas, block_gas_limit})

\* fill_transaction: the gas estimate, for the mined state or the pending one.
estimateGas(t) ==
    /\ job[t].pc = "estimating"
    /\ \E c \in EstimateViews :
          LET reason == RevertReason(c, job[t].block)
          IN  IF reason # "none" THEN Fail(t, ErrorOf(reason))
              ELSE /\ job' = [job EXCEPT ![t].pc = "sending",
                                         ![t].gas = gasToSend(c.deposits)]
                   /\ UNCHANGED mutex
    /\ UNCHANGED <<nonce_count_rule, accepted, lagged, ethereumVars, faults>>

tx(t) == [nonce |-> job[t].nonce, block |-> job[t].block, gas |-> job[t].gas]

Pooled(t) ==
    /\ job[t].nonce \in 0 .. MaxPool - 1
    /\ ~Occupied(job[t].nonce)
    /\ pool' = pool \cup {tx(t)}
    /\ accepted' = [r \in Requests |-> accepted[r] + (IF r = t THEN 1 ELSE 0)]

\* send_transaction: accepted, or refused for one of the reasons of a node.
send(t) ==
    /\ job[t].pc = "sending"
    /\ \/ Pooled(t) /\ Return(t, "Ok")
       \/ /\ job[t].nonce < 0 \/ Occupied(job[t].nonce)  \* "nonce too low", "replacement ..."
          /\ Fail(t, "Nonce")
          /\ UNCHANGED <<pool, accepted>>
       \/ /\ tx(t) \in pool \/ job[t].nonce >= MaxPool  \* "already known", "... full"
          /\ Fail(t, "Submission")
          /\ UNCHANGED <<pool, accepted>>
    /\ UNCHANGED <<nonce_count_rule, lagged, contract, deposited, faults>>

\* The node cannot be reached, or its answer to a transaction it took is lost.
networkError(t) ==
    /\ Fault
    /\ job[t].pc \in {"filling", "estimating", "sending"}
    /\ \/ UNCHANGED <<pool, accepted>>
       \/ job[t].pc = "sending" /\ Pooled(t)
    /\ Fail(t, "Submission")
    /\ UNCHANGED <<nonce_count_rule, lagged, contract, deposited>>

-----------------------------------------------------------------------------
submit_cape_block_with_memos(t) ==
    fillNonce(t) \/ estimateGas(t) \/ send(t) \/ networkError(t)

Relay ==
    \E r \in Requests :
        \/ \E txn \in Txns, age \in {0, 1} :
              contract.height >= age /\ relay(r, txn, contract.height - age)
        \/ refuse(r)

Next ==
    \/ Deposit
    \/ Mine
    \/ Evict
    \/ Relay
    \/ submit_empty_block
    \/ \E t \in Tasks : lock(t) \/ submit_cape_block_with_memos(t)

Spec == Init /\ [][Next]_vars

(***************************************************************************)
(* Pending transactions are mined; the tasks of the executor all run; the  *)
(* mutex of async_std does not starve a waiting task; a query of the queue *)
(* succeeds at last.                                                       *)
(***************************************************************************)
Fairness ==
    /\ WF_vars(Mine)
    /\ WF_vars(submit_empty_block)
    /\ \A t \in Tasks : SF_vars(lock(t)) /\ WF_vars(submit_cape_block_with_memos(t))

FairSpec == Spec /\ Fairness

-----------------------------------------------------------------------------
Errors ==
    {"BadBlock", "Nonce", "RootNotFound", "BlockAndPendingDepositsQueueEmpty", "Submission"}

Gas == 0 .. block_gas_limit

Jobs ==
    [pc : {"idle", "locking", "filling", "estimating", "sending", "done"}, block : Blocks,
     attempt : 0 .. max_retries, nonce : Int, gas : Gas, result : {"none", "Ok"} \cup Errors]

TypeOK ==
    /\ nonce_count_rule \in {"Mined", "Pending"}
    /\ mutex \in Tasks \cup {None}
    /\ job \in [Tasks -> Jobs]
    /\ accepted \in [Requests -> Nat]
    /\ lagged \in BOOLEAN
    /\ pool \subseteq [nonce : 0 .. MaxPool - 1, block : Blocks, gas : Gas]
    /\ contract \in [deposits : 0 .. MAX_NUM_PENDING_DEPOSIT, spent : SUBSET Txns,
                     height : Nat]
    /\ deposited \in 0 .. MaxDeposits
    /\ faults \in 0 .. MaxFaults

-----------------------------------------------------------------------------
(***************************************************************************)
(* However often submit_block tries, a request becomes at most one         *)
(* Ethereum transaction: exactly one when it is answered with a hash, none *)
(* when it is answered with an error that a client may act upon.  Only     *)
(* "Submission" leaves open what happened (relayer/src/lib.rs:242-273).    *)
(***************************************************************************)
AnswersTruthful ==
    \A r \in Requests :
        /\ accepted[r] <= 1
        /\ job[r].result = "Ok" => accepted[r] = 1
        /\ job[r].result \in Errors \ {"Submission"} => accepted[r] = 0

(***************************************************************************)
(* When pending transactions are counted and the node is not behind, no    *)
(* attempt ever meets a nonce that is taken: the mutex makes reading the   *)
(* count and using it one step, whatever is mined or dropped in between    *)
(* (submit_block.rs:57-78, relayer/src/lib.rs:236).                        *)
(***************************************************************************)
SteadyNonces ==
    nonce_count_rule = "Pending" /\ ~lagged => \A t \in Tasks : job[t].attempt = 0

(***************************************************************************)
(* A transaction in the pool has gas for every deposit that it may find    *)
(* when it is mined, though its gas was estimated before they were made    *)
(* (submit_block.rs:90-93).                                                *)
(***************************************************************************)
GasSuffices ==
    \A x \in pool : RevertReason(contract, x.block) = "none" => x.gas >= contract.deposits

(***************************************************************************)
(* Deposits do not wait for ever: the loop of empty blocks gets them       *)
(* credited, behind requests, nonce errors, dropped transactions and empty *)
(* blocks that come too late (relayer/src/lib.rs:284-318).                 *)
(***************************************************************************)
DepositsCredited == contract.deposits > 0 ~> contract.deposits = 0

(***************************************************************************)
(* Every request is answered: a task always lets go of the mutex, and the  *)
(* retries are bounded (relayer/src/lib.rs:235-282).                       *)
(***************************************************************************)
RequestsAnswered ==
    \A r \in Requests : job[r].pc = "locking" ~> job[r].pc = "done"
=============================================================================
