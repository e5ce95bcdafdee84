--------------------------- MODULE RelayerProofs ---------------------------
(***************************************************************************)
(* For every number of requests, retries, deposits and faults: the answers *)
(* of the relayer are truthful, its mutex keeps its nonces steady, and the *)
(* gas of its transactions covers the deposits that come late.             *)
(***************************************************************************)
EXTENDS Relayer, TLAPS, WellFoundedInduction

-----------------------------------------------------------------------------
(* The nonce and the gas of a transaction.                                 *)

\* A set of natural numbers that is not empty has a least element.
LEMMA MinOfNaturals ==
    ASSUME NEW S \in SUBSET Nat, S # {}
    PROVE  Min(S) \in S
<1> DEFINE R == OpToRel(<, Nat)
<1>1. IsWellFoundedOn(R, Nat)
  BY NatLessThanWellFounded, Zenon
<1>2. \A x, y \in Nat : y < x => <<y, x>> \in R
  BY DEF OpToRel
<1> HIDE DEF R
<1>3. PICK x \in S : \A y \in S : ~(<<y, x>> \in R)
  BY <1>1, WFMin
<1>4. \A y \in S : x <= y
  <2> TAKE y \in S
  <2>1. x \in Nat /\ y \in Nat /\ ~(y < x)
    BY <1>2, <1>3
  <2> QED
    BY <2>1
<1> QED
  BY <1>4 DEF Min

\* The count of pending transactions is a nonce that no pooled one uses.
LEMMA PendingCountIsFree ==
    ASSUME TypeOK
    PROVE  PendingCount \in Nat /\ ~Occupied(PendingCount)
<1>1. FreeNonces \in SUBSET Nat
  BY RelayerAssumption DEF FreeNonces
<1>2. MaxPool \in FreeNonces
  BY RelayerAssumption DEF FreeNonces, Occupied, TypeOK
<1>3. PendingCount \in FreeNonces
  BY <1>1, <1>2, MinOfNaturals DEF PendingCount
<1> QED
  BY <1>1, <1>3 DEF FreeNonces

\* The gas that is sent is within the limit and covers a full queue.
LEMMA GasToSend ==
    ASSUME NEW estimate \in Nat
    PROVE  gasToSend(estimate) \in Gas /\ gasToSend(estimate) >= MAX_NUM_PENDING_DEPOSIT
<1> DEFINE S == {estimate + extra_gas, block_gas_limit}
<1>1. S \in SUBSET Nat /\ S # {}
  BY RelayerAssumption
<1>2. Min(S) \in S
  BY <1>1, MinOfNaturals
<1>3. \E x \in S : \A y \in S : x <= y
  BY RelayerAssumption
<1>4. \A y \in S : Min(S) <= y
  BY <1>3 DEF Min
<1> QED
  BY <1>2, <1>4, RelayerAssumption DEF gasToSend, Gas

-----------------------------------------------------------------------------
(* The invariant.                                                          *)

\* A task that submits holds the mutex.
SubmitterHoldsMutex ==
    \A t \in Tasks : job[t].pc \in {"filling", "estimating", "sending"} => mutex = t

\* A request that is not answered has no Ethereum transaction yet.
UnansweredUnsent ==
    \A r \in Requests :
        job[r].pc # "done" => accepted[r] = 0 /\ job[r].result = "none"

\* A nonce that was read and is not yet used is free.
UnusedNonceFree ==
    nonce_count_rule = "Pending" /\ ~lagged =>
        \A t \in Tasks : job[t].pc \in {"estimating", "sending"} =>
            job[t].nonce \in Nat /\ ~Occupied(job[t].nonce)

\* The gas of a transaction covers a full queue of deposits.
GasForFullQueue ==
    /\ \A x \in pool : x.gas >= MAX_NUM_PENDING_DEPOSIT
    /\ \A t \in Tasks : job[t].pc = "sending" => job[t].gas >= MAX_NUM_PENDING_DEPOSIT

\* Nonces identify the transactions of the pool.
NoncesUnique == \A x, y \in pool : x.nonce = y.nonce => x = y

RelayerInv ==
    /\ TypeOK
    /\ NoncesUnique
    /\ SubmitterHoldsMutex
    /\ UnansweredUnsent
    /\ AnswersTruthful
    /\ UnusedNonceFree
    /\ SteadyNonces
    /\ GasForFullQueue

\* Initially no task runs and the pool is empty.
LEMMA InitInv == Init => RelayerInv
<1> SUFFICES ASSUME Init PROVE RelayerInv
  OBVIOUS
<1> USE RelayerAssumption DEF Init
<1>1. NoJob \in Jobs
  BY DEF NoJob, Jobs, Blocks, Gas
<1>2. TypeOK
  <2>1. job \in [Tasks -> Jobs] /\ accepted \in [Requests -> Nat]
    BY <1>1
  <2>2. lagged \in BOOLEAN /\ nonce_count_rule \in {"Mined", "Pending"}
    BY Zenon
  <2>3. /\ contract \in [deposits : 0 .. MAX_NUM_PENDING_DEPOSIT, spent : SUBSET Txns,
                        height : Nat]
        /\ deposited \in 0 .. MaxDeposits
        /\ faults \in 0 .. MaxFaults
    OBVIOUS
  <2> QED
    BY <2>1, <2>2, <2>3, Zenon DEF TypeOK
<1>3. \A t \in Tasks : job[t].pc = "idle" /\ job[t].attempt = 0 /\ job[t].result = "none"
  BY DEF NoJob, Jobs
<1> QED
  BY <1>2, <1>3
  DEF RelayerInv, NoncesUnique, SubmitterHoldsMutex, UnansweredUnsent, AnswersTruthful, UnusedNonceFree,
      SteadyNonces, GasForFullQueue, Tasks, Errors

-----------------------------------------------------------------------------
(* How a task moves: only its own job changes.                             *)

\* What the end of a round that failed does with the job of its task.
LEMMA FailJob ==
    ASSUME TypeOK, NEW t \in Tasks, NEW error \in Errors, Fail(t, error)
    PROVE  \E j \in Jobs :
              /\ job' = [job EXCEPT ![t] = j]
              /\ j.pc \in {"filling", "idle", "done"}
              /\ j.pc = "filling" => /\ error = "Nonce"
                                     /\ mutex' = mutex
                                     /\ j.result = job[t].result
              /\ j.pc # "filling" => /\ mutex' = None
                                     /\ j.attempt = job[t].attempt \/ j.attempt = 0
              /\ t \in Requests => j.pc # "idle"
              /\ j.pc = "done" => j.result = error
<1> USE DEF TypeOK
<1>1. job[t] \in Jobs /\ NoJob \in Jobs
  BY RelayerAssumption DEF NoJob, Jobs, Blocks, Gas
<1>2. CASE retriable(error) /\ retriesLeft(t)
  <2> DEFINE j == [job[t] EXCEPT !.pc = "filling", !.attempt = job[t].attempt + 1,
                              !.nonce = 0, !.gas = 0]
  <2>0. job[t].attempt + 1 \in 0 .. max_retries /\ 0 \in Gas /\ 0 \in Int
    BY <1>1, <1>2, RelayerAssumption DEF Jobs, retriesLeft, Gas
  <2>1. j \in Jobs
    BY <1>1, <2>0 DEF Jobs
  <2>2. job' = [job EXCEPT ![t] = j] /\ mutex' = mutex
    BY <1>2 DEF Fail
  <2>3. j.pc = "filling" /\ j.result = job[t].result
    BY <1>1 DEF Jobs
  <2> QED
    BY <2>1, <2>2, <2>3, <1>2 DEF retriable
<1>3. CASE ~(retriable(error) /\ retriesLeft(t))
  <2> DEFINE j == finished(t, error)
  <2>1. job' = [job EXCEPT ![t] = j] /\ mutex' = None
    BY <1>3 DEF Fail, Return, afterSubmission
  <2>2. CASE t = Loop
    BY <2>1, <2>2, <1>1, RelayerAssumption DEF finished, NoJob
  <2>3. CASE t # Loop
    <3>1. j = [job[t] EXCEPT !.pc = "done", !.nonce = 0, !.gas = 0, !.result = error]
      BY <2>3 DEF finished
    <3>0. 0 \in Gas /\ 0 \in Int
      BY RelayerAssumption DEF Gas
    <3>2. j \in Jobs /\ j.pc = "done" /\ j.attempt = job[t].attempt /\ j.result = error
      BY <3>0, <3>1, <1>1 DEF Jobs
    <3> QED
      BY <2>1, <3>2
  <2> QED
    BY <2>2, <2>3
<1> QED
  BY <1>2, <1>3

\* What a step of task t has to respect, its new job being j.
TaskMoves(t, j) ==
    /\ job' = [job EXCEPT ![t] = j]
    /\ mutex' = mutex \/ mutex \in {t, None}
    /\ j.pc \in {"filling", "estimating", "sending"} => mutex' = t
    /\ \A r \in Requests \ {t} : accepted'[r] = accepted[r]
    /\ t \in Requests =>
          /\ j.pc # "done" => accepted'[t] = 0 /\ j.result = "none"
          /\ j.pc = "done" =>
                /\ accepted'[t] <= 1
                /\ j.result = "Ok" => accepted'[t] = 1
                /\ j.result \in Errors \ {"Submission"} => accepted'[t] = 0
    /\ pool' = pool \/ mutex = t
    /\ NoncesUnique'
    /\ \A x \in pool' : x.gas >= MAX_NUM_PENDING_DEPOSIT
    /\ j.pc = "sending" => j.gas >= MAX_NUM_PENDING_DEPOSIT
    /\ nonce_count_rule' = nonce_count_rule
    /\ ~lagged' => ~lagged
    /\ nonce_count_rule = "Pending" /\ ~lagged' =>
          /\ j.attempt = 0
          /\ j.pc \in {"estimating", "sending"} =>
                j.nonce \in Nat /\ \A x \in pool' : x.nonce # j.nonce

\* Such a step preserves the invariant.
LEMMA TaskMovesInv ==
    ASSUME RelayerInv, TypeOK', NEW t \in Tasks, NEW j \in Jobs, TaskMoves(t, j)
    PROVE  RelayerInv'
<1> USE DEF TaskMoves
<1>1. /\ job'[t] = j
      /\ \A u \in Tasks \ {t} : job'[u] = job[u]
  BY DEF RelayerInv, TypeOK
<1>2. SubmitterHoldsMutex'
  BY <1>1, RelayerAssumption DEF RelayerInv, SubmitterHoldsMutex, Tasks
<1>3. UnansweredUnsent'
  BY <1>1 DEF RelayerInv, UnansweredUnsent, Tasks
<1>4. AnswersTruthful'
  BY <1>1 DEF RelayerInv, AnswersTruthful, UnansweredUnsent, Tasks, Errors
<1>5. UnusedNonceFree'
  <2> SUFFICES ASSUME nonce_count_rule' = "Pending", ~lagged', NEW u \in Tasks,
                      job'[u].pc \in {"estimating", "sending"}
               PROVE  job'[u].nonce \in Nat /\ \A x \in pool' : x.nonce # job'[u].nonce
    BY DEF UnusedNonceFree, Occupied
  <2>1. CASE u = t
    BY <2>1, <1>1
  <2>2. CASE u # t
    <3>1. job'[u] = job[u] /\ mutex = u
      BY <2>2, <1>1 DEF RelayerInv, SubmitterHoldsMutex
    <3>2. pool' = pool
      BY <3>1, <2>2
    <3> QED
      BY <3>1, <3>2 DEF RelayerInv, UnusedNonceFree, Occupied
  <2> QED
    BY <2>1, <2>2
<1>6. SteadyNonces'
  BY <1>1 DEF RelayerInv, SteadyNonces
<1>7. GasForFullQueue'
  BY <1>1 DEF RelayerInv, GasForFullQueue
<1> QED
  BY <1>2, <1>3, <1>4, <1>5, <1>6, <1>7 DEF RelayerInv

-----------------------------------------------------------------------------
(* The steps of Ethereum.                                                  *)

\* A mined transaction leaves the contract in a possible state.
LEMMA ExecuteType ==
    ASSUME TypeOK, NEW x \in pool
    PROVE  Execute(contract, x) \in [deposits : 0 .. MAX_NUM_PENDING_DEPOSIT,
                                     spent : SUBSET Txns, height : Nat]
<1>1. x.block.txn \in Txns \cup {None}
  BY DEF TypeOK, Blocks, EmptyBlock
<1>2. 0 \in 0 .. MAX_NUM_PENDING_DEPOSIT
  BY RelayerAssumption
<1>3. /\ contract.spent \cup ({x.block.txn} \ {None}) \in SUBSET Txns
      /\ contract.height + 1 \in Nat
  BY <1>1 DEF TypeOK
<1> QED
  BY <1>2, <1>3 DEF Execute, TypeOK

\* A deposit is queued: the gas of every transaction still covers the queue.
LEMMA DepositInv == RelayerInv /\ Deposit => RelayerInv'
<1> SUFFICES ASSUME RelayerInv, Deposit PROVE RelayerInv'
  OBVIOUS
<1> USE DEF Deposit, relayerVars
<1>1. TypeOK'
  <2>1. contract' \in [deposits : 0 .. MAX_NUM_PENDING_DEPOSIT, spent : SUBSET Txns,
                       height : Nat]
    BY RelayerAssumption DEF RelayerInv, TypeOK
  <2>2. deposited' \in 0 .. MaxDeposits
    BY RelayerAssumption DEF RelayerInv, TypeOK
  <2> QED
    BY <2>1, <2>2, Zenon DEF RelayerInv, TypeOK
<1> QED
  BY <1>1
  DEF RelayerInv, NoncesUnique, SubmitterHoldsMutex, UnansweredUnsent, AnswersTruthful,
      UnusedNonceFree, Occupied, SteadyNonces, GasForFullQueue

\* The node drops a transaction: nonces become free, none is taken.
LEMMA EvictInv == RelayerInv /\ Evict => RelayerInv'
<1> SUFFICES ASSUME RelayerInv, Evict PROVE RelayerInv'
  OBVIOUS
<1> USE DEF Evict, relayerVars
<1>1. pool' \subseteq pool
  OBVIOUS
<1>2. TypeOK'
  <2>1. faults' \in 0 .. MaxFaults
    BY RelayerAssumption DEF RelayerInv, TypeOK, Fault
  <2> QED
    BY <1>1, <2>1, Zenon DEF RelayerInv, TypeOK
<1> QED
  BY <1>1, <1>2
  DEF RelayerInv, NoncesUnique, SubmitterHoldsMutex, UnansweredUnsent, AnswersTruthful,
      UnusedNonceFree, Occupied, SteadyNonces, GasForFullQueue

(***************************************************************************)
(* A transaction is mined: every nonce comes one closer, those of the pool *)
(* and the one that a task has read, so that a free nonce stays free.      *)
(***************************************************************************)
LEMMA MineInv == RelayerInv /\ Mine => RelayerInv'
<1> SUFFICES ASSUME RelayerInv, Mine PROVE RelayerInv'
  OBVIOUS
<1>1. PICK x \in pool :
        /\ x.nonce = 0
        /\ contract' = Execute(contract, x)
        /\ pool' = {[y EXCEPT !.nonce = @ - 1] : y \in pool \ {x}}
        /\ job' = [t \in Tasks |->
                     IF job[t].pc \in {"estimating", "sending"}
                     THEN [job[t] EXCEPT !.nonce = IF @ < 0 THEN @ ELSE @ - 1] ELSE job[t]]
        /\ UNCHANGED <<nonce_count_rule, mutex, accepted, lagged, deposited, faults>>
  BY Zenon DEF Mine
<1>2. \A t \in Tasks : /\ job[t] \in Jobs
                       /\ job'[t] \in Jobs
                       /\ job'[t].pc = job[t].pc
                       /\ job'[t].attempt = job[t].attempt
                       /\ job'[t].result = job[t].result
                       /\ job'[t].gas = job[t].gas
                       /\ job[t].pc \in {"estimating", "sending"} /\ job[t].nonce > 0
                            => job'[t].nonce = job[t].nonce - 1
  BY <1>1 DEF RelayerInv, TypeOK, Jobs
<1>3. \A y \in pool : y # x => y.nonce \in 1 .. MaxPool - 1
  BY <1>1, RelayerAssumption DEF RelayerInv, NoncesUnique, TypeOK
<1>4. \A z \in pool' : \E y \in pool : /\ y # x
                                      /\ z = [y EXCEPT !.nonce = y.nonce - 1]
                                      /\ z.nonce = y.nonce - 1
                                      /\ z.gas = y.gas
  BY <1>1 DEF RelayerInv, TypeOK
<1>5. TypeOK'
  <2>1. pool' \subseteq [nonce : 0 .. MaxPool - 1, block : Blocks, gas : Gas]
    <3> SUFFICES ASSUME NEW z \in pool'
                 PROVE  z \in [nonce : 0 .. MaxPool - 1, block : Blocks, gas : Gas]
      OBVIOUS
    <3>1. PICK y \in pool : y # x /\ z = [y EXCEPT !.nonce = y.nonce - 1]
      BY <1>4
    <3>2. y.nonce - 1 \in 0 .. MaxPool - 1
      BY <3>1, <1>3, RelayerAssumption
    <3> QED
      BY <3>1, <3>2 DEF RelayerInv, TypeOK
  <2>2. job' \in [Tasks -> Jobs]
    BY <1>1, <1>2
  <2>3. contract' \in [deposits : 0 .. MAX_NUM_PENDING_DEPOSIT, spent : SUBSET Txns,
                       height : Nat]
    BY <1>1, ExecuteType DEF RelayerInv
  <2> QED
    BY <2>1, <2>2, <2>3, <1>1, Zenon DEF RelayerInv, TypeOK
<1>6. NoncesUnique'
  <2> SUFFICES ASSUME NEW z1 \in pool', NEW z2 \in pool', z1.nonce = z2.nonce
               PROVE  z1 = z2
    BY DEF NoncesUnique
  <2>1. PICK y1 \in pool : /\ z1 = [y1 EXCEPT !.nonce = y1.nonce - 1]
                           /\ z1.nonce = y1.nonce - 1
    BY <1>4
  <2>2. PICK y2 \in pool : /\ z2 = [y2 EXCEPT !.nonce = y2.nonce - 1]
                           /\ z2.nonce = y2.nonce - 1
    BY <1>4
  <2>3. y1.nonce = y2.nonce
    BY <2>1, <2>2 DEF RelayerInv, TypeOK
  <2> QED
    BY <2>1, <2>2, <2>3 DEF RelayerInv, NoncesUnique
<1>7. UnusedNonceFree'
  <2> SUFFICES ASSUME nonce_count_rule' = "Pending", ~lagged', NEW t \in Tasks,
                      job'[t].pc \in {"estimating", "sending"}
               PROVE  job'[t].nonce \in Nat /\ \A z \in pool' : z.nonce # job'[t].nonce
    BY DEF UnusedNonceFree, Occupied
  <2>1. job[t].nonce \in Nat /\ \A y \in pool : y.nonce # job[t].nonce
    BY <1>1, <1>2 DEF RelayerInv, UnusedNonceFree, Occupied
  <2>2. job'[t].nonce = job[t].nonce - 1 /\ job[t].nonce > 0
    BY <2>1, <1>1, <1>2
  <2>3. \A z \in pool' : z.nonce # job'[t].nonce
    BY <2>1, <2>2, <1>4 DEF RelayerInv, TypeOK
  <2> QED
    BY <2>1, <2>2, <2>3
<1>8. GasForFullQueue'
  BY <1>2, <1>4 DEF RelayerInv, GasForFullQueue
<1> QED
  BY <1>1, <1>2, <1>5, <1>6, <1>7, <1>8
  DEF RelayerInv, SubmitterHoldsMutex, UnansweredUnsent, AnswersTruthful, SteadyNonces, Tasks

-----------------------------------------------------------------------------
(* The steps of the relayer.                                               *)

\* A request arrives, or the loop finds deposits: the task wants the mutex.
LEMMA StartInv ==
    ASSUME RelayerInv, NEW t \in Tasks, NEW block \in Blocks, job[t].pc = "idle",
           job' = [job EXCEPT ![t].pc = "locking", ![t].block = block],
           UNCHANGED <<nonce_count_rule, mutex, accepted, lagged, ethereumVars, faults>>
    PROVE  RelayerInv'
<1> DEFINE j == [job[t] EXCEPT !.pc = "locking", !.block = block]
<1>1. job[t] \in Jobs
  BY DEF RelayerInv, TypeOK
<1>2. /\ j \in Jobs
      /\ j.pc = "locking" /\ j.result = job[t].result /\ j.attempt = job[t].attempt
  BY <1>1 DEF Jobs
<1>3. job' = [job EXCEPT ![t] = j]
  BY DEF RelayerInv, TypeOK
<1>4. TypeOK'
  <2>1. job' \in [Tasks -> Jobs]
    BY <1>2, <1>3 DEF RelayerInv, TypeOK
  <2> QED
    BY <2>1, Zenon DEF RelayerInv, TypeOK, ethereumVars
<1>5. TaskMoves(t, j)
  BY <1>2, <1>3
  DEF TaskMoves, RelayerInv, NoncesUnique, UnansweredUnsent, GasForFullQueue, SteadyNonces,
      ethereumVars
<1> HIDE DEF j
<1> QED
  BY <1>2, <1>4, <1>5, TaskMovesInv

\* A request is refused before the task wants the mutex.
LEMMA RefuseInv ==
    ASSUME RelayerInv, NEW r \in Requests, refuse(r)
    PROVE  RelayerInv'
<1> USE DEF refuse
<1> DEFINE j == [job[r] EXCEPT !.pc = "done", !.result = "BadBlock"]
<1>0. r \in Tasks
  BY DEF Tasks
<1>1. job[r] \in Jobs
  BY <1>0 DEF RelayerInv, TypeOK
<1>2. j \in Jobs /\ j.pc = "done" /\ j.result = "BadBlock" /\ j.attempt = job[r].attempt
  BY <1>1 DEF Jobs, Errors
<1>3. job' = [job EXCEPT ![r] = j]
  BY <1>0 DEF RelayerInv, TypeOK
<1>4. TypeOK'
  <2>1. job' \in [Tasks -> Jobs]
    BY <1>0, <1>2, <1>3 DEF RelayerInv, TypeOK
  <2> QED
    BY <2>1, Zenon DEF RelayerInv, TypeOK, ethereumVars
<1>5. accepted'[r] = 0
  BY DEF RelayerInv, UnansweredUnsent
<1> HIDE DEF j
<1>6. TaskMoves(r, j)
  <2>1. NoncesUnique' /\ \A x \in pool' : x.gas >= MAX_NUM_PENDING_DEPOSIT
    BY DEF RelayerInv, NoncesUnique, GasForFullQueue, ethereumVars
  <2>2. nonce_count_rule = "Pending" /\ ~lagged' => j.attempt = 0
    BY <1>0, <1>2 DEF RelayerInv, SteadyNonces
  <2>3. /\ nonce_count_rule' = nonce_count_rule /\ mutex' = mutex /\ accepted' = accepted
        /\ lagged' = lagged /\ pool' = pool
    BY DEF ethereumVars
  <2>4. accepted'[r] <= 1
    BY <1>5
  <2>5. ~lagged' => ~lagged
    BY DEF ethereumVars
  <2>6. /\ j.pc \notin {"filling", "estimating", "sending"} /\ j.pc # "sending"
        /\ j.pc = "done" /\ j.result # "Ok"
    BY <1>2
  <2> QED
    BY <1>3, <1>5, <2>1, <2>2, <2>3, <2>4, <2>5, <2>6, Zenon DEF TaskMoves
<1> QED
  BY <1>0, <1>2, <1>4, <1>6, TaskMovesInv

\* A request arrives.
LEMMA RelayInv == RelayerInv /\ Relay => RelayerInv'
<1> SUFFICES ASSUME RelayerInv, Relay PROVE RelayerInv'
  OBVIOUS
<1>1. CASE \E r \in Requests : refuse(r)
  BY <1>1, RefuseInv
<1>2. CASE \E r \in Requests, txn \in Txns, age \in {0, 1} :
               contract.height >= age /\ relay(r, txn, contract.height - age)
  <2>1. PICK r \in Requests, txn \in Txns, age \in {0, 1} :
          contract.height >= age /\ relay(r, txn, contract.height - age)
    BY <1>2
  <2>2. [txn |-> txn, root |-> contract.height - age] \in Blocks
    BY <2>1 DEF RelayerInv, TypeOK, Blocks
  <2> QED
    BY <2>1, <2>2, StartInv DEF relay, Tasks
<1> QED
  BY <1>1, <1>2, Zenon DEF Relay

\* The loop finds deposits.
LEMMA EmptyBlockInv == RelayerInv /\ submit_empty_block => RelayerInv'
<1>1. EmptyBlock \in Blocks /\ Loop \in Tasks
  BY DEF Blocks, Tasks
<1> QED
  BY <1>1, StartInv DEF submit_empty_block

\* The mutex is taken only when no task submits.
LEMMA LockInv ==
    ASSUME RelayerInv, NEW t \in Tasks, lock(t)
    PROVE  RelayerInv'
<1> USE DEF lock
<1> DEFINE j == [job[t] EXCEPT !.pc = "filling", !.attempt = 0]
<1>1. job[t] \in Jobs /\ 0 \in 0 .. max_retries
  BY RelayerAssumption DEF RelayerInv, TypeOK
<1>2. j \in Jobs /\ j.pc = "filling" /\ j.result = job[t].result /\ j.attempt = 0
  BY <1>1 DEF Jobs
<1>3. job' = [job EXCEPT ![t] = j]
  BY DEF RelayerInv, TypeOK
<1>4. TypeOK'
  <2>1. job' \in [Tasks -> Jobs] /\ mutex' \in Tasks \cup {None}
    BY <1>2, <1>3 DEF RelayerInv, TypeOK
  <2> QED
    BY <2>1, Zenon DEF RelayerInv, TypeOK, ethereumVars
<1>5. TaskMoves(t, j)
  BY <1>2, <1>3
  DEF TaskMoves, RelayerInv, NoncesUnique, UnansweredUnsent, GasForFullQueue, unlocked,
      ethereumVars
<1> HIDE DEF j
<1> QED
  BY <1>2, <1>4, <1>5, TaskMovesInv

\* The nonce that is read is free, unless the node lags.
LEMMA FillNonceInv ==
    ASSUME RelayerInv, NEW t \in Tasks, fillNonce(t)
    PROVE  RelayerInv'
<1>1. PICK lag \in {0, 1} :
        /\ IF lag = 1 THEN Fault ELSE UNCHANGED faults
        /\ lagged' = (lagged \/ lag = 1)
        /\ job' = [job EXCEPT ![t].pc = "estimating", ![t].nonce = CountedTransactions - lag]
  BY DEF fillNonce
<1>2. /\ job[t].pc = "filling"
      /\ UNCHANGED <<nonce_count_rule, mutex, accepted, ethereumVars>>
  BY DEF fillNonce
<1>3. /\ CountedTransactions \in Nat
      /\ nonce_count_rule = "Pending" => \A x \in pool : x.nonce # CountedTransactions
  BY PendingCountIsFree DEF RelayerInv, CountedTransactions, Occupied
<1> DEFINE j == [job[t] EXCEPT !.pc = "estimating", !.nonce = CountedTransactions - lag]
<1>4. job[t] \in Jobs /\ CountedTransactions - lag \in Int
  BY <1>3 DEF RelayerInv, TypeOK
<1>5. /\ j \in Jobs /\ j.pc = "estimating" /\ j.nonce = CountedTransactions - lag
      /\ j.result = job[t].result /\ j.attempt = job[t].attempt
  BY <1>4 DEF Jobs
<1>6. job' = [job EXCEPT ![t] = j]
  BY <1>1 DEF RelayerInv, TypeOK
<1>7. TypeOK'
  <2>1. job' \in [Tasks -> Jobs]
    BY <1>5, <1>6 DEF RelayerInv, TypeOK
  <2>2. faults' \in 0 .. MaxFaults
    BY <1>1, RelayerAssumption DEF RelayerInv, TypeOK, Fault
  <2>3. lagged' \in BOOLEAN
    BY <1>1, Zenon
  <2> QED
    BY <2>1, <2>2, <2>3, <1>2, Zenon DEF RelayerInv, TypeOK, ethereumVars
<1>8. mutex = t
  BY <1>2 DEF RelayerInv, SubmitterHoldsMutex
<1>9. ~lagged' => ~lagged /\ lag = 0
  BY <1>1, Zenon
<1>10. TaskMoves(t, j)
  BY <1>2, <1>3, <1>5, <1>6, <1>8, <1>9
  DEF TaskMoves, RelayerInv, NoncesUnique, UnansweredUnsent, GasForFullQueue, SteadyNonces,
      ethereumVars
<1> HIDE DEF j
<1> QED
  BY <1>5, <1>7, <1>10, TaskMovesInv

\* The transaction of task t goes into the pool, or nothing is sent.
Sent(t) == Pooled(t) \/ UNCHANGED <<pool, accepted>>

\* When nothing changes, nothing was sent: the nonce would be taken.
LEMMA NothingSent ==
    ASSUME NEW t \in Tasks, UNCHANGED <<pool, accepted>>
    PROVE  Sent(t) /\ ~Pooled(t)
<1>1. ASSUME Pooled(t) PROVE FALSE
  <2>1. tx(t).nonce = job[t].nonce /\ tx(t) \in pool
    BY <1>1 DEF Pooled, tx
  <2> QED
    BY <1>1, <2>1 DEF Pooled, Occupied
<1> QED
  BY <1>1 DEF Sent

\* What the pool and the history of requests look like then.
LEMMA SentFacts ==
    ASSUME RelayerInv, NEW t \in Tasks, job[t].pc \in {"filling", "estimating", "sending"},
           Sent(t), Pooled(t) => job[t].pc = "sending"
    PROVE  /\ accepted' \in [Requests -> Nat]
           /\ \A r \in Requests \ {t} : accepted'[r] = accepted[r]
           /\ t \in Requests /\ Pooled(t) => accepted'[t] = 1
           /\ t \in Requests /\ ~Pooled(t) => accepted'[t] = 0
           /\ pool' \subseteq [nonce : 0 .. MaxPool - 1, block : Blocks, gas : Gas]
           /\ NoncesUnique'
           /\ \A x \in pool' : x.gas >= MAX_NUM_PENDING_DEPOSIT
<1>1. t \in Requests => accepted[t] = 0
  BY DEF RelayerInv, UnansweredUnsent
<1>2. CASE UNCHANGED <<pool, accepted>>
  <2>1. t \in Requests => accepted'[t] = 0
    BY <1>1, <1>2
  <2>2. t \in Requests => ~Pooled(t)
    BY <2>1, <1>1 DEF Pooled
  <2> QED
    BY <1>2, <2>1, <2>2 DEF RelayerInv, TypeOK, NoncesUnique, GasForFullQueue
<1>3. CASE Pooled(t)
  <2>1. job[t] \in Jobs /\ job[t].gas >= MAX_NUM_PENDING_DEPOSIT
    BY <1>3 DEF RelayerInv, TypeOK, GasForFullQueue
  <2>2. /\ tx(t) \in [nonce : 0 .. MaxPool - 1, block : Blocks, gas : Gas]
        /\ tx(t).nonce = job[t].nonce /\ tx(t).gas = job[t].gas
    BY <2>1, <1>3 DEF Pooled, tx, Jobs
  <2>3. pool' = pool \cup {tx(t)} /\ \A x \in pool : x.nonce # job[t].nonce
    BY <1>3 DEF Pooled, Occupied
  <2>4. accepted' = [r \in Requests |-> accepted[r] + (IF r = t THEN 1 ELSE 0)]
    BY <1>3 DEF Pooled
  <2>5. \A r \in Requests : accepted[r] \in Nat
    BY DEF RelayerInv, TypeOK
  <2>6. /\ accepted' \in [Requests -> Nat]
        /\ \A r \in Requests \ {t} : accepted'[r] = accepted[r]
        /\ t \in Requests => accepted'[t] = 1
    BY <1>1, <2>4, <2>5
  <2>7. NoncesUnique'
    BY <2>2, <2>3 DEF NoncesUnique, RelayerInv
  <2>8. pool' \subseteq [nonce : 0 .. MaxPool - 1, block : Blocks, gas : Gas]
    BY <2>2, <2>3 DEF RelayerInv, TypeOK
  <2>9. \A x \in pool' : x.gas >= MAX_NUM_PENDING_DEPOSIT
    BY <2>1, <2>2, <2>3 DEF RelayerInv, GasForFullQueue
  <2> QED
    BY <1>3, <2>6, <2>7, <2>8, <2>9
<1> QED
  BY <1>2, <1>3 DEF Sent

(***************************************************************************)
(* A round that failed: only a nonce error is retried, and then nothing    *)
(* was sent; an error that a client may act upon means that nothing was.   *)
(***************************************************************************)
LEMMA FailInv ==
    ASSUME RelayerInv, NEW t \in Tasks, NEW error \in Errors, Fail(t, error),
           job[t].pc \in {"filling", "estimating", "sending"},
           Sent(t), Pooled(t) => job[t].pc = "sending" /\ error = "Submission",
           nonce_count_rule = "Pending" /\ ~lagged => error # "Nonce",
           faults' \in 0 .. MaxFaults,
           UNCHANGED <<nonce_count_rule, lagged, contract, deposited>>
    PROVE  RelayerInv'
<1>1. PICK j \in Jobs :
        /\ job' = [job EXCEPT ![t] = j]
        /\ j.pc \in {"filling", "idle", "done"}
        /\ j.pc = "filling" => error = "Nonce" /\ mutex' = mutex /\ j.result = job[t].result
        /\ j.pc # "filling" => /\ mutex' = None
                               /\ j.attempt = job[t].attempt \/ j.attempt = 0
        /\ t \in Requests => j.pc # "idle"
        /\ j.pc = "done" => j.result = error
  BY FailJob DEF RelayerInv
<1>2. mutex = t
  BY DEF RelayerInv, SubmitterHoldsMutex
<1>3. /\ accepted' \in [Requests -> Nat]
      /\ \A r \in Requests \ {t} : accepted'[r] = accepted[r]
      /\ t \in Requests /\ Pooled(t) => accepted'[t] = 1
      /\ t \in Requests /\ ~Pooled(t) => accepted'[t] = 0
      /\ pool' \subseteq [nonce : 0 .. MaxPool - 1, block : Blocks, gas : Gas]
      /\ NoncesUnique'
      /\ \A x \in pool' : x.gas >= MAX_NUM_PENDING_DEPOSIT
  BY SentFacts
<1>4. TypeOK'
  <2>1. job' \in [Tasks -> Jobs] /\ mutex' \in Tasks \cup {None}
    BY <1>1, <1>2 DEF RelayerInv, TypeOK
  <2> QED
    BY <2>1, <1>3, Zenon DEF RelayerInv, TypeOK
<1>5. t \in Requests => job[t].result = "none"
  BY DEF RelayerInv, UnansweredUnsent
<1>6. nonce_count_rule = "Pending" /\ ~lagged => j.attempt = 0
  BY <1>1 DEF RelayerInv, SteadyNonces
<1>7. t \in Requests =>
        /\ j.pc # "done" => accepted'[t] = 0 /\ j.result = "none"
        /\ j.pc = "done" =>
              /\ accepted'[t] <= 1
              /\ j.result = "Ok" => accepted'[t] = 1
              /\ j.result \in Errors \ {"Submission"} => accepted'[t] = 0
  BY <1>1, <1>3, <1>5 DEF Errors
<1>8. TaskMoves(t, j)
  BY <1>1, <1>2, <1>3, <1>6, <1>7 DEF TaskMoves
<1> QED
  BY <1>4, <1>8, TaskMovesInv

\* Gas is estimated for some state of the queue and then raised.
LEMMA EstimateGasInv ==
    ASSUME RelayerInv, NEW t \in Tasks, estimateGas(t)
    PROVE  RelayerInv'
<1>1. PICK c \in EstimateViews :
        LET reason == RevertReason(c, job[t].block)
        IN  IF reason # "none" THEN Fail(t, ErrorOf(reason))
            ELSE /\ job' = [job EXCEPT ![t].pc = "sending", ![t].gas = gasToSend(c.deposits)]
                 /\ UNCHANGED mutex
  BY DEF estimateGas
<1>2. /\ job[t].pc = "estimating"
      /\ UNCHANGED <<nonce_count_rule, accepted, lagged, ethereumVars, faults>>
  BY DEF estimateGas
<1>3. mutex = t /\ job[t] \in Jobs
  BY <1>2 DEF RelayerInv, SubmitterHoldsMutex, TypeOK
<1> DEFINE reason == RevertReason(c, job[t].block)
<1>4. CASE reason # "none"
  <2>1. Fail(t, ErrorOf(reason))
    BY <1>1, <1>4
  <2>2. ErrorOf(reason) \in Errors /\ ErrorOf(reason) # "Nonce"
    BY DEF ErrorOf, Errors
  <2>3. Sent(t) /\ ~Pooled(t)
    BY <1>2, NothingSent DEF ethereumVars
  <2>4. faults' \in 0 .. MaxFaults /\ UNCHANGED <<nonce_count_rule, lagged, contract, deposited>>
    BY <1>2 DEF RelayerInv, TypeOK, ethereumVars
  <2> HIDE DEF reason
  <2> QED
    BY <2>1, <2>2, <2>3, <2>4, <1>2, FailInv
<1>5. CASE reason = "none"
  <2>1. c.deposits \in Nat
    BY DEF EstimateViews, RelayerInv, TypeOK
  <2>2. /\ gasToSend(c.deposits) \in Gas
        /\ gasToSend(c.deposits) >= MAX_NUM_PENDING_DEPOSIT
    BY <2>1, GasToSend
  <2> DEFINE j == [job[t] EXCEPT !.pc = "sending", !.gas = gasToSend(c.deposits)]
  <2>3. /\ j \in Jobs /\ j.pc = "sending" /\ j.gas = gasToSend(c.deposits)
        /\ j.nonce = job[t].nonce /\ j.result = job[t].result /\ j.attempt = job[t].attempt
    BY <2>2, <1>3 DEF Jobs
  <2>4. job' = [job EXCEPT ![t] = j] /\ mutex' = mutex
    BY <1>1, <1>5 DEF RelayerInv, TypeOK
  <2>5. TypeOK'
    <3>1. job' \in [Tasks -> Jobs]
      BY <2>3, <2>4 DEF RelayerInv, TypeOK
    <3> QED
      BY <3>1, <2>4, <1>2, Zenon DEF RelayerInv, TypeOK, ethereumVars
  <2>6. TaskMoves(t, j)
    BY <2>2, <2>3, <2>4, <1>2, <1>3
    DEF TaskMoves, RelayerInv, NoncesUnique, UnansweredUnsent, GasForFullQueue, SteadyNonces,
        UnusedNonceFree, Occupied, ethereumVars
  <2> HIDE DEF j
  <2> QED
    BY <2>3, <2>5, <2>6, TaskMovesInv
<1> QED
  BY <1>4, <1>5

\* The node takes the transaction: the task returns its hash.
LEMMA AcceptedInv ==
    ASSUME RelayerInv, NEW t \in Tasks, job[t].pc = "sending", Pooled(t), Return(t, "Ok"),
           UNCHANGED <<nonce_count_rule, lagged, contract, deposited, faults>>
    PROVE  RelayerInv'
<1>1. mutex = t /\ job[t] \in Jobs /\ NoJob \in Jobs
  BY RelayerAssumption
  DEF RelayerInv, SubmitterHoldsMutex, TypeOK, NoJob, Jobs, Blocks, Gas
<1>2. /\ accepted' \in [Requests -> Nat]
      /\ \A r \in Requests \ {t} : accepted'[r] = accepted[r]
      /\ t \in Requests => accepted'[t] = 1
      /\ pool' \subseteq [nonce : 0 .. MaxPool - 1, block : Blocks, gas : Gas]
      /\ NoncesUnique'
      /\ \A x \in pool' : x.gas >= MAX_NUM_PENDING_DEPOSIT
  BY SentFacts DEF Sent
<1> DEFINE j == finished(t, "Ok")
<1>3. job' = [job EXCEPT ![t] = j] /\ mutex' = None
  BY DEF Return, afterSubmission
<1>4. /\ j \in Jobs
      /\ j.pc \in {"idle", "done"}
      /\ j.attempt = job[t].attempt \/ j.attempt = 0
      /\ t \in Requests => j.pc = "done" /\ j.result = "Ok"
  <2>1. CASE t = Loop
    BY <2>1, <1>1, RelayerAssumption DEF finished, NoJob
  <2>2. CASE t # Loop
    <3>1. j = [job[t] EXCEPT !.pc = "done", !.nonce = 0, !.gas = 0, !.result = "Ok"]
      BY <2>2 DEF finished
    <3>2. 0 \in Gas /\ 0 \in Int
      BY RelayerAssumption DEF Gas
    <3> QED
      BY <3>1, <3>2, <1>1 DEF Jobs
  <2> QED
    BY <2>1, <2>2
<1> HIDE DEF j
<1>5. TypeOK'
  <2>1. job' \in [Tasks -> Jobs] /\ mutex' \in Tasks \cup {None}
    BY <1>3, <1>4 DEF RelayerInv, TypeOK
  <2> QED
    BY <2>1, <1>2, Zenon DEF RelayerInv, TypeOK
<1>6. nonce_count_rule = "Pending" /\ ~lagged => j.attempt = 0
  BY <1>4 DEF RelayerInv, SteadyNonces
<1>7. TaskMoves(t, j)
  BY <1>1, <1>2, <1>3, <1>4, <1>6 DEF TaskMoves, Errors
<1> QED
  BY <1>4, <1>5, <1>7, TaskMovesInv

\* The answers of the node to a transaction.
LEMMA SendInv ==
    ASSUME RelayerInv, NEW t \in Tasks, send(t)
    PROVE  RelayerInv'
<1>1. /\ job[t].pc = "sending"
      /\ UNCHANGED <<nonce_count_rule, lagged, contract, deposited, faults>>
      /\ faults' \in 0 .. MaxFaults
  BY DEF send, RelayerInv, TypeOK
<1>2. CASE Pooled(t) /\ Return(t, "Ok")
  BY <1>1, <1>2, AcceptedInv
<1>3. CASE /\ job[t].nonce < 0 \/ Occupied(job[t].nonce)
           /\ Fail(t, "Nonce")
           /\ UNCHANGED <<pool, accepted>>
  <2>1. ~(nonce_count_rule = "Pending" /\ ~lagged)
    BY <1>1, <1>3 DEF RelayerInv, UnusedNonceFree
  <2> QED
    BY <1>1, <1>3, <2>1, NothingSent, FailInv DEF Errors
<1>4. CASE Fail(t, "Submission") /\ UNCHANGED <<pool, accepted>>
  BY <1>1, <1>4, NothingSent, FailInv DEF Errors
<1> QED
  BY <1>2, <1>3, <1>4 DEF send

\* The node does not answer, though it may have taken the transaction.
LEMMA NetworkErrorInv ==
    ASSUME RelayerInv, NEW t \in Tasks, networkError(t)
    PROVE  RelayerInv'
<1>1. /\ job[t].pc \in {"filling", "estimating", "sending"}
      /\ UNCHANGED <<nonce_count_rule, lagged, contract, deposited>>
      /\ Fail(t, "Submission")
  BY DEF networkError
<1>2. faults' \in 0 .. MaxFaults
  BY RelayerAssumption DEF networkError, Fault, RelayerInv, TypeOK
<1>3. CASE UNCHANGED <<pool, accepted>>
  BY <1>1, <1>2, <1>3, NothingSent, FailInv DEF Errors
<1>4. CASE job[t].pc = "sending" /\ Pooled(t)
  BY <1>1, <1>2, <1>4, FailInv DEF Errors, Sent
<1> QED
  BY <1>3, <1>4 DEF networkError

\* Every step preserves the invariant.
LEMMA NextInv == RelayerInv /\ [Next]_vars => RelayerInv'
<1> SUFFICES ASSUME RelayerInv, [Next]_vars PROVE RelayerInv'
  OBVIOUS
<1>1. CASE Deposit
  BY <1>1, DepositInv
<1>2. CASE Mine
  BY <1>2, MineInv
<1>3. CASE Evict
  BY <1>3, EvictInv
<1>4. CASE Relay
  BY <1>4, RelayInv
<1>5. CASE submit_empty_block
  BY <1>5, EmptyBlockInv
<1>6. ASSUME NEW t \in Tasks, lock(t) PROVE RelayerInv'
  BY <1>6, LockInv
<1>7. ASSUME NEW t \in Tasks, submit_cape_block_with_memos(t) PROVE RelayerInv'
  BY <1>7, FillNonceInv, EstimateGasInv, SendInv, NetworkErrorInv
  DEF submit_cape_block_with_memos
<1>8. CASE UNCHANGED vars
  BY <1>8
  DEF vars, relayerVars, ethereumVars, RelayerInv, TypeOK, NoncesUnique, SubmitterHoldsMutex,
      UnansweredUnsent, AnswersTruthful, UnusedNonceFree, Occupied, SteadyNonces,
      GasForFullQueue
<1> QED
  BY <1>1, <1>2, <1>3, <1>4, <1>5, <1>6, <1>7, <1>8 DEF Next

-----------------------------------------------------------------------------
(***************************************************************************)
(* The relayer keeps its invariant, whatever the node, the network and the *)
(* users do.                                                               *)
(***************************************************************************)
THEOREM RelayerInvariant == Spec => []RelayerInv
  BY InitInv, NextInv, PTL DEF Spec

(***************************************************************************)
(* Type correctness: attempts stay within max_retries, gas within the gas  *)
(* limit of a block, and pooled nonces within the pool.                    *)
(***************************************************************************)
THEOREM RelayerTypes == Spec => []TypeOK
<1>1. RelayerInv => TypeOK
  BY DEF RelayerInv
<1> QED
  BY <1>1, RelayerInvariant, PTL

(***************************************************************************)
(* A request becomes at most one Ethereum transaction, and the answer of   *)
(* submit_block says which, unless it is "Submission".                     *)
(***************************************************************************)
THEOREM RelayerAnswersTruthful == Spec => []AnswersTruthful
<1>1. RelayerInv => AnswersTruthful
  BY DEF RelayerInv
<1> QED
  BY <1>1, RelayerInvariant, PTL

(***************************************************************************)
(* Under the mutex, counting pending transactions never yields a nonce     *)
(* that is taken when it is used, as long as the node does not lag.        *)
(***************************************************************************)
THEOREM RelayerNoncesSteady == Spec => []SteadyNonces
<1>1. RelayerInv => SteadyNonces
  BY DEF RelayerInv
<1> QED
  BY <1>1, RelayerInvariant, PTL

(***************************************************************************)
(* The extra gas of submit_cape_block_with_memos covers every deposit that *)
(* arrives after the estimate.                                             *)
(***************************************************************************)
THEOREM RelayerGasSuffices == Spec => []GasSuffices
<1>1. RelayerInv => GasSuffices
  BY RelayerAssumption
  DEF RelayerInv, TypeOK, GasForFullQueue, GasSuffices, Gas
<1> QED
  BY <1>1, RelayerInvariant, PTL
=============================================================================
