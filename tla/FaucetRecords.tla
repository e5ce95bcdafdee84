--------------------------- MODULE FaucetRecords ---------------------------
(***************************************************************************)
(* faucet/src/faucet.rs: the records of the faucet's wallet.  A transfer   *)
(* takes the record it spends out of use until its block is committed, so  *)
(* as many grants can be under way as there are records.  The faucet       *)
(* breaks large records up before it serves requests (init_web_server) and *)
(* whenever a worker signals that it has spent some                        *)
(* (maintain_enough_records).  Amounts are records of the native asset.    *)
(***************************************************************************)
EXTENDS Naturals, FiniteSets

CONSTANTS
    Balance,       \* amount of the only record the faucet has at first
    grant_size,
    num_records,
    MaxGrants,     \* bound: transfers by the workers
    MaxRejected    \* bound: transactions that fail

VARIABLES
    records,       \* how many records of each amount the wallet can spend
    pending,       \* transactions under way: [id, input, outputs, by]
    breaker,       \* where the record breaker is
    batch,         \* its transactions it knows of
    status,        \* FaucetStatus
    locked,        \* the breaker holds the wallet while it waits
    wakeup,        \* messages on the channel
    unsignalled,   \* workers that have not sent their message yet
    nextId, granted, rejected

recordVars == <<records, pending, breaker, batch, status, locked, wakeup, unsignalled,
                nextId, granted, rejected>>

Amounts == 1..Balance

RecordsInit ==
    /\ records = [a \in Amounts |-> IF a = Balance THEN 1 ELSE 0]
    /\ pending = {}
    /\ breaker = "breaking"
    /\ batch = {}
    /\ status = "Initializing"
    /\ locked = FALSE
    /\ wakeup = 0 /\ unsignalled = 0
    /\ nextId = 1 /\ granted = 0 /\ rejected = 0

-----------------------------------------------------------------------------
(* The wallet.  Wallets are external: a transfer spends one record.        *)

spendable_records == {<<a, i>> \in Amounts \X (1..Balance) : a >= grant_size /\ i <= records[a]}

numSpendable == Cardinality(spendable_records)

has(a) == a \in Amounts /\ records[a] > 0

put(rs, outputs) ==
    [a \in Amounts |-> rs[a] + Cardinality({i \in DOMAIN outputs : outputs[i] = a})]

submit(input, outputs, by) ==
    /\ records' = [records EXCEPT ![input] = @ - 1]
    /\ pending' = pending \cup {[id |-> nextId, input |-> input, outputs |-> outputs, by |-> by]}
    /\ nextId' = nextId + 1

-----------------------------------------------------------------------------
(* break_up_records                                                        *)

large(a) == a >= grant_size * 2

largestRecord == CHOOSE a \in Amounts : has(a) /\ \A b \in Amounts : has(b) => b <= a

willHaveEnough == numSpendable + 2 * Cardinality(batch) >= num_records

startingUp == status = "Initializing"

\* Some(transactions): when starting up they are waited for.
returnsSome ==
    /\ breaker = "breaking" /\ willHaveEnough
    /\ breaker' = IF startingUp THEN "finishing" ELSE "asleep"
    /\ batch' = IF startingUp THEN batch ELSE {}
    /\ locked' = startingUp
    /\ UNCHANGED <<records, pending, status, wakeup, unsignalled, nextId, granted, rejected>>

canSplit == (\E a \in Amounts : has(a)) /\ large(largestRecord)

splitRecord ==
    /\ breaker = "breaking" /\ ~willHaveEnough /\ canSplit
    /\ LET split == largestRecord \div 2
       IN  submit(largestRecord, <<largestRecord - split, split>>, "breaker")
    /\ batch' = batch \cup {nextId}
    /\ UNCHANGED <<breaker, status, locked, wakeup, unsignalled, granted, rejected>>

\* Mutant: a batch without transfers waits for a signal too.
neverEmpty == FALSE

emptyBatch == batch = {}

\* Nothing to split, or a transfer that fails: wait for the ones under way.
stopSplitting ==
    /\ breaker = "breaking" /\ ~willHaveEnough
    /\ \/ ~canSplit /\ UNCHANGED rejected
       \/ canSplit /\ rejected < MaxRejected /\ rejected' = rejected + 1
    /\ IF emptyBatch
       THEN /\ breaker' = IF startingUp THEN "finishing" ELSE "checking"
            /\ locked' = startingUp
       ELSE breaker' = "awaiting" /\ locked' = TRUE
    /\ UNCHANGED <<records, pending, batch, status, wakeup, unsignalled, nextId, granted>>

batchDone == \A t \in pending : t.id \notin batch

awaitTransactions ==
    /\ breaker = "awaiting" /\ batchDone
    /\ breaker' = "breaking"
    /\ batch' = {}
    /\ locked' = FALSE
    /\ UNCHANGED <<records, pending, status, wakeup, unsignalled, nextId, granted, rejected>>

\* init_web_server goes on to serve requests.
init_web_server ==
    /\ breaker = "finishing" /\ batchDone
    /\ breaker' = "checking"
    /\ batch' = {}
    /\ locked' = FALSE
    /\ status' = "Available"
    /\ UNCHANGED <<records, pending, wakeup, unsignalled, nextId, granted, rejected>>

-----------------------------------------------------------------------------
(* maintain_enough_records                                                 *)

breakable == \E a \in Amounts : has(a) /\ a > grant_size * 2

maintain_enough_records ==
    /\ breaker = "checking"
    /\ breaker' = IF numSpendable >= num_records \/ ~breakable THEN "asleep" ELSE "breaking"
    /\ UNCHANGED <<records, pending, batch, status, locked, wakeup, unsignalled, nextId, granted,
                   rejected>>

wakeUp ==
    /\ breaker = "asleep" /\ wakeup > 0
    /\ wakeup' = wakeup - 1
    /\ breaker' = "checking"
    /\ UNCHANGED <<records, pending, batch, status, locked, unsignalled, nextId, granted, rejected>>

-----------------------------------------------------------------------------
(* Workers and the ledger.                                                 *)

workerGrants ==
    /\ status = "Available" /\ ~locked
    /\ granted < MaxGrants
    /\ \E a \in Amounts : has(a) /\ a >= grant_size
          /\ submit(a, IF a > grant_size THEN <<a - grant_size>> ELSE <<>>, "worker")
    /\ granted' = granted + 1
    /\ unsignalled' = unsignalled + 1
    /\ UNCHANGED <<breaker, batch, status, locked, wakeup, rejected>>

signal ==
    /\ unsignalled > 0
    /\ unsignalled' = unsignalled - 1
    /\ wakeup' = wakeup + 1
    /\ UNCHANGED <<records, pending, breaker, batch, status, locked, nextId, granted, rejected>>

retire ==
    /\ \E t \in pending : pending' = pending \ {t} /\ records' = put(records, t.outputs)
    /\ UNCHANGED <<breaker, batch, status, locked, wakeup, unsignalled, nextId, granted, rejected>>

reject ==
    /\ rejected < MaxRejected
    /\ rejected' = rejected + 1
    /\ \E t \in pending : pending' = pending \ {t} /\ records' = put(records, <<t.input>>)
    /\ UNCHANGED <<breaker, batch, status, locked, wakeup, unsignalled, nextId, granted>>

Breaker ==
    \/ returnsSome \/ splitRecord \/ stopSplitting \/ awaitTransactions \/ init_web_server
    \/ maintain_enough_records \/ wakeUp

RecordsNext == Breaker \/ workerGrants \/ signal \/ retire \/ reject

\* Tasks that can run do, and transactions are decided.
RecordsFairness == WF_recordVars(Breaker) /\ WF_recordVars(signal) /\ WF_recordVars(retire)

RecordsSpec == RecordsInit /\ [][RecordsNext]_recordVars /\ RecordsFairness

-----------------------------------------------------------------------------
(* Properties                                                              *)

\* "Create at least num_records if possible, before starting to handle
\* requests" (init_web_server): unless a transaction failed, the faucet opens
\* with enough records or with none that is large enough to be split.  It does
\* not: a split that has settled while its receipt is still in the list counts
\* for two records that are there and two that will be (break_up_records).
OpensWithEnoughRecords ==
    breaker = "checking" /\ granted = 0 /\ rejected = 0 =>
        numSpendable >= num_records \/ ~canSplit

\* The faucet does open, and the breaker comes to rest, giving the wallet
\* free: it neither splits for ever nor waits for itself.
BreakerRests == <>[](status = "Available" /\ breaker = "asleep" /\ ~locked)
=============================================================================
