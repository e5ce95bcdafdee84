------------------------------- MODULE Wallet -------------------------------
(***************************************************************************)
(* CAPE wallets against the services they trust (wallet/src/backend.rs and *)
(* wallet/src/wallet.rs).  A wallet follows the events of the query        *)
(* service through a polling stream, sponsors and wraps through Ethereum   *)
(* transactions of its own, and submits transactions to the relayer.       *)
(*                                                                         *)
(* The contract, the node, the query service and the relayer appear as the *)
(* wallet sees them.  The wallet's mutex is held over the network calls of *)
(* an operation; a task that handles events needs it too.  Sleeps and      *)
(* backoffs only delay a step.                                             *)
(***************************************************************************)
EXTENDS Lists, Sequences, FiniteSets, SequencesExt

CONSTANTS
    Wallets,
    Assets,            \* wrapped asset definitions, one for each sponsor and token
    MAX_NUM_PENDING_DEPOSIT,
    InitialBalance,    \* tokens of the account of a wallet
    MaxOps,            \* bound: operations of a wallet
    MaxOthers,         \* bound: calls of others to the contract
    MaxQueries,        \* bound: scans and status queries
    MaxOutages,        \* bound: times the query service goes down
    MaxRestarts,       \* bound: restarts of wallets
    MaxTries           \* attempts of wait_for_eqs (8 in the code)

ASSUME WalletAssumption ==
    /\ MAX_NUM_PENDING_DEPOSIT \in Nat \ {0}
    /\ InitialBalance \in Nat
    /\ MaxTries \in Nat \ {0}

VARIABLES
    contract,   \* deposits that wait, sponsored assets, events
    account,    \* balance and allowance of each wallet's Ethereum account
    pool,       \* Ethereum transactions sent and not mined
    eqs,        \* whether the query service answers, and how far it is
    wal,        \* the state of each wallet and the operation under way
    stream,     \* the event stream of each wallet
    scan,       \* the bounded stream of a key scan
    status,     \* the latest scan status of each wallet
    ops, others, queries, outages, restarts

ethereum == <<contract, account, pool>>

bounds == <<ops, others, queries, outages, restarts>>

vars == <<contract, account, pool, eqs, wal, stream, scan, status, ops, others,
          queries, outages, restarts>>

-----------------------------------------------------------------------------
(* The contract and the node.                                              *)

CommitEvent(outputs) == [event |-> "Commit", outputs |-> outputs]

MemosEvent == [event |-> "Memos", outputs |-> <<>>]

TransactionOutput(w) == [owner |-> w, op |-> 0]

\* Sending a transaction estimates its gas: it fails at once if it would revert.
wouldRevert(tx) ==
    CASE tx.call = "approve" -> FALSE
      [] tx.call = "sponsor" -> tx.asset \in contract.sponsored
      [] tx.call = "deposit" -> \/ Len(contract.queue) >= MAX_NUM_PENDING_DEPOSIT
                                \/ tx.asset \notin contract.sponsored
                                \/ account[tx.wallet].allowance = 0
                                \/ account[tx.wallet].balance = 0

outcome(tx) == IF wouldRevert(tx) THEN "reverted" ELSE "mined"

\* The wallet still waits for the receipt of this transaction.
awaits(tx) == wal[tx.wallet].pc = tx.call /\ ops[tx.wallet] = tx.record.op

\* A transaction that reverts when it is mined has no effect but its receipt.
mine(tx) ==
    /\ tx \in pool
    /\ pool' = pool \ {tx}
    /\ wal' = IF awaits(tx) THEN [wal EXCEPT ![tx.wallet].receipt = outcome(tx)] ELSE wal
    /\ IF wouldRevert(tx) THEN UNCHANGED <<contract, account>>
       ELSE CASE tx.call = "approve" ->
                   /\ account' = [account EXCEPT ![tx.wallet].allowance = 1]
                   /\ UNCHANGED contract
              [] tx.call = "sponsor" ->
                   /\ contract' = [contract EXCEPT !.sponsored = @ \cup {tx.asset}]
                   /\ UNCHANGED account
              [] tx.call = "deposit" ->
                   /\ contract' = [contract EXCEPT !.queue = Append(@, tx.record)]
                   /\ account' = [account EXCEPT ![tx.wallet].allowance = @ - 1,
                                                 ![tx.wallet].balance = @ - 1]
    /\ UNCHANGED <<eqs, stream, scan, status, bounds>>

\* The relayer submits an empty block to credit the deposits.
emptyBlock ==
    /\ contract.queue # <<>>
    /\ contract' = [contract EXCEPT !.queue = <<>>,
                                    !.events = Append(@, CommitEvent(contract.queue))]
    /\ UNCHANGED <<account, pool, eqs, wal, stream, scan, status, bounds>>

\* Somebody else deposits tokens, or another wallet of the same Ethereum account,
\* which is part of the code of an asset, sponsors one.
otherUser ==
    /\ others < MaxOthers
    /\ others' = others + 1
    /\ \/ /\ Len(contract.queue) < MAX_NUM_PENDING_DEPOSIT
          /\ contract' = [contract EXCEPT !.queue = Append(@, [owner |-> "other", op |-> others])]
       \/ contract' = [contract EXCEPT !.sponsored = Assets]
    /\ UNCHANGED <<account, pool, eqs, wal, stream, scan, status, ops, queries, outages, restarts>>

-----------------------------------------------------------------------------
(* The query service.  It is some events behind, keeps what it reported    *)
(* through restarts, and does not answer for a while.                      *)

indexEvents ==
    /\ eqs.time < Len(contract.events) \/ eqs.sponsored # contract.sponsored
    /\ eqs' = [eqs EXCEPT !.time = Len(contract.events), !.sponsored = contract.sponsored]
    /\ UNCHANGED <<ethereum, wal, stream, scan, status, bounds>>

goDown ==
    /\ eqs.up
    /\ outages < MaxOutages
    /\ outages' = outages + 1
    /\ eqs' = [eqs EXCEPT !.up = FALSE]
    /\ UNCHANGED <<ethereum, wal, stream, scan, status, ops, others, queries, restarts>>

comeUp ==
    /\ ~eqs.up
    /\ eqs' = [eqs EXCEPT !.up = TRUE]
    /\ UNCHANGED <<ethereum, wal, stream, scan, status, bounds>>

outputCount(events) == SumTo([i \in DOMAIN events |-> Len(events[i].outputs)], Len(events))

blockCount(events) == Cardinality({i \in DOMAIN events : events[i].event = "Commit"})

eqsEvents == SubSeq(contract.events, 1, eqs.time)

get_events_since(from) == SubSeq(contract.events, from + 1, eqs.time)

\* The answer may hold no more than the number asked for.
get_events_range(from, count) ==
    SubSeq(contract.events, from + 1, IF from + count < eqs.time THEN from + count ELSE eqs.time)

-----------------------------------------------------------------------------
(* Creating a wallet, and the event stream.                                *)

closed == [pc |-> "closed", asset |-> "none", receipt |-> "none", answer |-> "none",
           wrapped |-> {}, tries |-> 0, from |-> 0, now |-> 0,
           validator |-> [now |-> 0, num_records |-> 0], seen |-> <<>>]

Init ==
    /\ contract = [queue |-> <<>>, sponsored |-> {}, events |-> <<>>]
    /\ account = [w \in Wallets |-> [balance |-> InitialBalance, allowance |-> 0]]
    /\ pool = {}
    /\ eqs = [up |-> TRUE, time |-> 0, sponsored |-> {}]
    /\ wal = [w \in Wallets |-> closed]
    /\ stream = [w \in Wallets |-> [from |-> 0, events |-> <<>>]]
    /\ scan = [w \in Wallets |-> [from |-> 0, to |-> 0, seen |-> <<>>]]
    /\ status = [w \in Wallets |-> [reading |-> FALSE, eqs_time |-> 0, sync_time |-> 0]]
    /\ ops = [w \in Wallets |-> 0] /\ others = 0 /\ queries = 0 /\ outages = 0 /\ restarts = 0

wait_for_eqs(w) ==
    /\ wal[w].pc = "closed"
    /\ \/ eqs.up /\ wal' = [wal EXCEPT ![w].pc = "create"]
       \/ ~eqs.up /\ wal' = [wal EXCEPT ![w].tries = IF @ + 1 = MaxTries THEN 0 ELSE @ + 1]
    /\ UNCHANGED <<ethereum, eqs, stream, scan, status, bounds>>

\* The state of the ledger and the number of events are one snapshot.
create(w) ==
    /\ wal[w].pc = "create"
    /\ wal' = [wal EXCEPT ![w] =
                 IF ~eqs.up THEN closed
                 ELSE [closed EXCEPT !.pc = "idle", !.from = eqs.time, !.now = eqs.time,
                         !.validator = [now |-> blockCount(eqsEvents),
                                        num_records |-> outputCount(eqsEvents)]]]
    /\ stream' = [stream EXCEPT ![w] = [from |-> eqs.time, events |-> <<>>]]
    /\ UNCHANGED <<ethereum, eqs, scan, status, bounds>>

opened(w) == wal[w].pc \notin {"closed", "create"}

unlocked(w) == wal[w].pc = "idle"

\* Mutant: the position is not advanced past the events received.
stayAtFrom(from, events) == from

\* Mutant: the position is advanced by one too many.
advancePast(from, events) == from + Len(events) + 1

advance(from, events) == from + Len(events)

\* A poll that fails, or finds no events, yields nothing and is repeated.
poll(w) ==
    /\ opened(w)
    /\ eqs.up
    /\ stream[w].events = <<>>
    /\ LET events == get_events_since(stream[w].from)
       IN  /\ events # <<>>
           /\ stream' = [stream EXCEPT ![w] = [from |-> advance(@.from, events),
                                               events |-> events]]
    /\ UNCHANGED <<ethereum, eqs, wal, scan, status, bounds>>

\* external: the wallet applies an event, under its lock, and stores its state.
handleEvent(w) ==
    /\ unlocked(w)
    /\ stream[w].events # <<>>
    /\ LET event == Head(stream[w].events) IN
       wal' = [wal EXCEPT ![w].now = @ + 1,
                          ![w].seen = Append(@, event),
                          ![w].validator = [now |-> @.now + blockCount(<<event>>),
                                            num_records |-> @.num_records + Len(event.outputs)]]
    /\ stream' = [stream EXCEPT ![w].events = Tail(@)]
    /\ UNCHANGED <<ethereum, eqs, scan, status, bounds>>

\* The wallet comes back with its stored state and subscribes from there.
restart(w) ==
    /\ opened(w)
    /\ restarts < MaxRestarts
    /\ restarts' = restarts + 1
    /\ wal' = [wal EXCEPT ![w].pc = "idle", ![w].receipt = "none"]
    /\ stream' = [stream EXCEPT ![w] = [from |-> wal[w].now, events |-> <<>>]]
    /\ status' = [status EXCEPT ![w].reading = FALSE]
    /\ UNCHANGED <<ethereum, eqs, scan, ops, others, queries, outages>>

query == queries < MaxQueries /\ queries' = queries + 1

\* A scan for the records of an old key covers the events before now.
startScan(w) ==
    /\ unlocked(w)
    /\ query
    /\ scan[w].to < wal[w].now
    /\ scan' = [scan EXCEPT ![w] = [from |-> 0, to |-> wal[w].now, seen |-> <<>>]]
    /\ UNCHANGED <<ethereum, eqs, wal, stream, status, ops, others, outages, restarts>>

pollScan(w) ==
    /\ eqs.up
    /\ scan[w].from < scan[w].to
    /\ LET events == get_events_range(scan[w].from, scan[w].to - scan[w].from)
       IN  scan' = [scan EXCEPT ![w].from = advance(@, events), ![w].seen = @ \o events]
    /\ UNCHANGED <<ethereum, eqs, wal, stream, status, bounds>>

\* eqs_time is read under the lock, then now() takes the lock again.
scanStatusEqs(w) ==
    /\ unlocked(w) /\ eqs.up
    /\ query
    /\ ~status[w].reading
    /\ status' = [status EXCEPT ![w].reading = TRUE, ![w].eqs_time = eqs.time]
    /\ UNCHANGED <<ethereum, eqs, wal, stream, scan, ops, others, outages, restarts>>

scanStatusNow(w) ==
    /\ unlocked(w)
    /\ status[w].reading
    /\ status' = [status EXCEPT ![w].reading = FALSE, ![w].sync_time = wal[w].now]
    /\ UNCHANGED <<ethereum, eqs, wal, stream, scan, bounds>>

-----------------------------------------------------------------------------
(* Sponsoring, wrapping and submitting.                                    *)

goto(w, pc) == wal' = [wal EXCEPT ![w].pc = pc, ![w].receipt = "none"]

return(w, answer) == wal' = [wal EXCEPT ![w].pc = "idle", ![w].answer = answer]

transaction(w, call) == [wallet |-> w, call |-> call, asset |-> wal[w].asset,
                         record |-> [owner |-> w, op |-> ops[w]]]

begin(w, pc, asset) ==
    /\ unlocked(w)
    /\ ops[w] < MaxOps
    /\ ops' = [ops EXCEPT ![w] = @ + 1]
    /\ wal' = [wal EXCEPT ![w].pc = pc, ![w].asset = asset, ![w].answer = "none",
                          ![w].receipt = "none"]

\* Sends a transaction and waits for its receipt, or fails at once.
send(w, call) ==
    IF wouldRevert(transaction(w, call)) THEN return(w, "error") /\ UNCHANGED pool
    ELSE goto(w, call) /\ pool' = pool \cup {transaction(w, call)}

submit_sponsor(w) ==
    /\ \E asset \in Assets : begin(w, "submit_sponsor", asset)
    /\ UNCHANGED <<ethereum, eqs, stream, scan, status, others, queries, outages, restarts>>

register_erc20_asset(w) ==
    /\ wal[w].pc = "submit_sponsor"
    /\ send(w, "sponsor")
    /\ UNCHANGED <<contract, account, eqs, stream, scan, status, bounds>>

\* The status of the receipt is ignored.
sponsorMined(w) ==
    /\ wal[w].pc = "sponsor"
    /\ wal[w].receipt # "none"
    /\ goto(w, "wait_for_wrapped_erc20_code")
    /\ UNCHANGED <<ethereum, eqs, stream, scan, status, bounds>>

\* Mutant: the asset is known only once the wallet has handled its event.
waitsForEvents(w) == wal[w].asset \in eqs.sponsored /\ wal[w].now = eqs.time

knownAsset(w) == wal[w].asset \in eqs.sponsored

\* The loop ends when the query service knows the asset, and at any error.
wait_for_wrapped_erc20_code(w) ==
    /\ wal[w].pc = "wait_for_wrapped_erc20_code"
    /\ \/ ~eqs.up /\ return(w, "error")
       \/ eqs.up /\ knownAsset(w) /\ return(w, "sponsored")
    /\ UNCHANGED <<ethereum, eqs, stream, scan, status, bounds>>

submit_wrap(w) ==
    /\ \E asset \in Assets : begin(w, "submit_wrap", asset)
    /\ UNCHANGED <<ethereum, eqs, stream, scan, status, others, queries, outages, restarts>>

get_wrapped_erc20_code(w) ==
    /\ wal[w].pc = "submit_wrap"
    /\ IF eqs.up /\ knownAsset(w) THEN goto(w, "wrap_erc20")
       ELSE return(w, "error")
    /\ UNCHANGED <<ethereum, eqs, stream, scan, status, bounds>>

approve(w) ==
    /\ wal[w].pc = "wrap_erc20"
    /\ send(w, "approve")
    /\ UNCHANGED <<contract, account, eqs, stream, scan, status, bounds>>

depositErc20(w) ==
    /\ wal[w].pc = "approve"
    /\ wal[w].receipt # "none"
    /\ send(w, "deposit")
    /\ UNCHANGED <<contract, account, eqs, stream, scan, status, bounds>>

\* The status of the receipt is ignored.
wrapMined(w) ==
    /\ wal[w].pc = "deposit"
    /\ wal[w].receipt # "none"
    /\ wal' = [wal EXCEPT ![w].pc = "idle", ![w].wrapped = @ \cup {ops[w]}]
    /\ UNCHANGED <<ethereum, eqs, stream, scan, status, bounds>>

\* The node does not answer while the wallet waits for a receipt.
waitFails(w) ==
    /\ wal[w].pc \in {"sponsor", "approve", "deposit"}
    /\ wal[w].receipt = "none"
    /\ return(w, "unknown")
    /\ UNCHANGED <<ethereum, eqs, stream, scan, status, bounds>>

\* The relayer takes a transaction and a block holds it with the deposits.
submit(w) ==
    /\ unlocked(w)
    /\ ops[w] < MaxOps
    /\ ops' = [ops EXCEPT ![w] = @ + 1]
    /\ contract' = [contract EXCEPT !.queue = <<>>,
                      !.events = @ \o <<CommitEvent(<<TransactionOutput(w)>> \o contract.queue),
                                        MemosEvent>>]
    /\ UNCHANGED <<account, pool, eqs, wal, stream, scan, status, others, queries, outages, restarts>>

-----------------------------------------------------------------------------
Operation(w) ==
    \/ register_erc20_asset(w)
    \/ sponsorMined(w)
    \/ wait_for_wrapped_erc20_code(w)
    \/ get_wrapped_erc20_code(w)
    \/ approve(w)
    \/ depositErc20(w)
    \/ wrapMined(w)

Open(w) == wait_for_eqs(w) \/ create(w)

Next ==
    \/ \E t \in pool : mine(t)
    \/ emptyBlock
    \/ otherUser
    \/ indexEvents
    \/ goDown
    \/ comeUp
    \/ \E w \in Wallets :
        \/ Open(w)
        \/ poll(w)
        \/ handleEvent(w)
        \/ restart(w)
        \/ startScan(w)
        \/ pollScan(w)
        \/ scanStatusEqs(w)
        \/ scanStatusNow(w)
        \/ submit_sponsor(w)
        \/ submit_wrap(w)
        \/ submit(w)
        \/ Operation(w)
        \/ waitFails(w)

Spec == Init /\ [][Next]_vars

(***************************************************************************)
(* Transactions are mined, deposits are credited by the relayer, the query *)
(* service comes back and indexes what is confirmed, and the tasks of a    *)
(* wallet run.                                                             *)
(***************************************************************************)
Fairness ==
    /\ WF_vars(\E t \in pool : mine(t))
    /\ WF_vars(emptyBlock)
    /\ WF_vars(indexEvents)
    /\ WF_vars(comeUp)
    /\ \A w \in Wallets :
        /\ WF_vars(Operation(w))
        /\ WF_vars(poll(w))
        /\ WF_vars(handleEvent(w))
        /\ WF_vars(Open(w))

FairSpec == Spec /\ Fairness

-----------------------------------------------------------------------------
(* Properties                                                              *)

eventsUpTo(n) == SubSeq(contract.events, 1, n)

\* A wallet handles every event of the query service from the snapshot it was
\* created with, once and in order, through outages, restarts and concurrent
\* operations, and its validator is in the state the ledger had then
\* (CapeBackend::create and subscribe).
FollowsLedger ==
    \A w \in Wallets : opened(w) =>
        /\ eventsUpTo(wal[w].from) \o wal[w].seen = eventsUpTo(wal[w].now)
        /\ wal[w].validator = [now |-> blockCount(eventsUpTo(wal[w].now)),
                               num_records |-> outputCount(eventsUpTo(wal[w].now))]

\* A bounded stream ends at its bound, with all the events before it.
ScansAreExact ==
    \A w \in Wallets : scan[w].seen = eventsUpTo(scan[w].from) /\ scan[w].from <= scan[w].to

\* Both kinds of streams deliver the ledger's events, each once and in order
\* (CapeBackend::subscribe).
StreamsFollowLedger == FollowsLedger /\ ScansAreExact

credited == ToSet(contract.queue) \cup
    UNION {ToSet(contract.events[i].outputs) : i \in DOMAIN contract.events}

\* What wrap_erc20 is documented to guarantee: once it succeeds, the tokens
\* are deducted and the record is in the next block.
WrapGuaranteed ==
    \A w \in Wallets : \A n \in wal[w].wrapped : [owner |-> w, op |-> n] \in credited

\* An operation that holds the lock of the wallet comes to an end: what
\* register_erc20_asset, wrap_erc20 and submit wait for, some of it without a
\* timeout, never needs the events that the same lock keeps from being handled.
OperationsReturn == \A w \in Wallets : opened(w) ~> unlocked(w)

\* A deposit of wrap_erc20 that the contract has queued reaches the wallet that
\* made it, through an empty block of the relayer, the query service and the
\* stream of subscribe.
DepositsArrive ==
    \A w \in Wallets : \A n \in 1 .. MaxOps :
        [owner |-> w, op |-> n] \in ToSet(contract.queue) ~>
            \E i \in DOMAIN wal[w].seen : [owner |-> w, op |-> n] \in ToSet(wal[w].seen[i].outputs)
=============================================================================
