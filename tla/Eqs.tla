-------------------------------- MODULE Eqs --------------------------------
(***************************************************************************)
(* eqs/src: the Ethereum query service, composed with the Ethereum chain   *)
(* that carries the events of the contract (CapeLog).                      *)
(*                                                                         *)
(* The chain is the sequence of the event lists of its blocks; block 0,    *)
(* the genesis block, has none.  An event index is <<block, place>>, and   *)
(* <<0, 0>> is the missing index.  A record stands for its commitment and  *)
(* for the memo that opens it, a transaction for its hash, and the records *)
(* Merkle tree is the sequence of its leaves.                              *)
(*                                                                         *)
(* The web server answers from query_result_state under its lock, so each  *)
(* handler of an event is one step.                                        *)
(***************************************************************************)
EXTENDS CapeBlock, FiniteSetsExt

CONSTANTS
    MAX_NUM_PENDING_DEPOSIT,
    num_confirmations,     \* blocks that make a block final, itself included
    max_blocks_to_query,
    EventLists(_),         \* the event lists that may extend a log in one block
    MaxBlocks,             \* bound: Ethereum blocks
    MaxRestarts            \* bound: restarts of the process

ASSUME EqsAssumption ==
    /\ num_confirmations \in Nat \ {0}
    /\ {max_blocks_to_query, MaxBlocks, MaxRestarts} \subseteq Nat

VARIABLES
    chain,                 \* external: the event lists of blocks 1, 2, ...
    highest,               \* external: the longest the chain has been
    query_result_state,    \* what the web server answers from
    persisted,             \* the latest state on disk
    last_event_index,
    next_block_to_query,
    pending_commit_event,  \* wraps seen since the last block
    new_event,             \* events of the range in progress, not yet handled
    to_block,              \* last block of the range in progress
    persist_state,         \* BOOLEAN
    restarts,              \* bounded by MaxRestarts
    mode,                  \* "polling", "in_range" or "stopped"
    served                 \* history: the longest event list ever served

chainVars == <<chain, highest>>

eqsVars ==
    <<query_result_state, persisted, last_event_index, next_block_to_query,
      pending_commit_event, new_event, to_block, persist_state, mode, restarts,
      served>>

vars == <<chainVars, eqsVars>>

LogOf(blocks) == FlattenSeq(blocks)

Log == INSTANCE CapeLog WITH log <- LogOf(chain)

NoIndex == <<0, 0>>

NotAfter(i, j) == i[1] < j[1] \/ (i[1] = j[1] /\ i[2] <= j[2])

-----------------------------------------------------------------------------
(* external: Ethereum.                                                     *)

IsList(s) == s \in Seq(ToSet(s))

IsNote(n) == n.type \in Types /\ IsList(n.spent) /\ IsList(n.outputs)

\* The shapes of the contract's events, as they are decoded.
IsEvent(e) ==
    \/ e.event \in {"FaucetInitialized", "AssetSponsored", "Erc20TokensDeposited"}
    \/ /\ e.event = "BlockCommitted"
       /\ IsList(e.notes) /\ IsList(e.deposits) /\ IsList(e.padding)
       /\ \A n \in ToSet(e.notes) : IsNote(n)

NewBlock ==
    /\ Len(chain) < MaxBlocks
    /\ \E es \in EventLists(LogOf(chain)) :
          /\ IsList(es) /\ \A e \in ToSet(es) : IsEvent(e)
          /\ Log!WellFormed(LogOf(chain) \o es)
          /\ chain' = Append(chain, es)
    /\ highest' = Max({highest, Len(chain')})
    /\ UNCHANGED eqsVars

\* The last blocks are replaced, but never one that was confirmed.
Reorg ==
    /\ \E n \in 0 .. Len(chain) - 1 :
          /\ n >= highest - (num_confirmations - 1)
          /\ chain' = SubSeq(chain, 1, n)
    /\ UNCHANGED <<highest, eqsVars>>

-----------------------------------------------------------------------------
(* QueryResultState::new and the update of its parts.                      *)

NoAddress == "none"

\* EQSOptions::cape_address: the contract whose events the chain carries.
cape_address == "cape"

\* No confirmations are recorded, which 0 stands for.
NewState ==
    [state_number |-> 0, leaves |-> << >>, nullifiers |-> {},
     last_reported_index |-> NoIndex, events |-> << >>,
     transaction_by_id |-> << >>, transaction_id_by_hash |-> << >>,
     address_from_asset |-> {}, contract_address |-> NoAddress,
     num_confirmations |-> 0]

\* HashMap::insert.
Insert(map, key, value) ==
    [k \in DOMAIN map \cup {key} |-> IF k = key THEN value ELSE map[k]]

InsertAll(map, key(_), value(_), n) ==
    LET keys == {key(i) : i \in 1 .. n}
    IN  [k \in DOMAIN map \cup keys |->
            IF k \in keys THEN value(CHOOSE i \in 1 .. n : key(i) = k) ELSE map[k]]

CommitEvent(block, block_id) ==
    [event |-> "Commit", block |-> block, block_id |-> block_id,
     state_comm |-> block_id + 1]

MemosEvent(outputs, transaction) ==
    [event |-> "Memos", outputs |-> outputs, transaction |-> transaction]

\* EthPolling::new records the contract that the state is of.
connected(state) == [state EXCEPT !.contract_address = cape_address]

\* The state a client can see, remembered.
Publish(state) ==
    /\ query_result_state' = state
    /\ served' = IF Len(state.events) > Len(served) THEN state.events ELSE served

Init ==
    /\ chain = << >>
    /\ highest = 0
    /\ query_result_state = connected(NewState)
    /\ persisted = NewState
    /\ last_event_index = NoIndex
    /\ next_block_to_query = 0
    /\ pending_commit_event = << >>
    /\ new_event = << >>
    /\ to_block = 0
    /\ persist_state = FALSE
    /\ mode = "polling"
    /\ restarts = 0
    /\ served = << >>

-----------------------------------------------------------------------------
(* check: choose a range of confirmed blocks and fetch its events.         *)

\* Mutant: one confirmation too few.
unconfirmed_block_number(latest) == Min({latest, latest - (num_confirmations - 2)})

latest_confirmed_block_number(latest) == latest - (num_confirmations - 1)

IndexedEvents(first, last) ==
    FlattenSeq([b \in 1 .. last |->
        IF b < first THEN << >>
        ELSE [i \in DOMAIN chain[b] |-> [index |-> <<b, i>>, event |-> chain[b][i]]]])

(***************************************************************************)
(* The query may repeat the events of the block before the range (the      *)
(* comment at eth_polling.rs:206).  A query that fails changes nothing.    *)
(***************************************************************************)
check ==
    LET confirmed == latest_confirmed_block_number(Len(chain))
        fetch_until == Min({confirmed, next_block_to_query + max_blocks_to_query})
    IN  /\ mode = "polling"
        /\ confirmed > 0
        /\ confirmed >= next_block_to_query
        /\ \E repeat \in {0, 1} :
              new_event' = IndexedEvents(next_block_to_query - repeat, fetch_until)
        /\ to_block' = fetch_until
        /\ persist_state' = FALSE
        /\ mode' = "in_range"
        /\ UNCHANGED <<chainVars, query_result_state, persisted, last_event_index,
                       next_block_to_query, pending_commit_event, restarts, served>>

-----------------------------------------------------------------------------
(* check_range: the loop over the events.                                  *)

current == Head(new_event)

\* Mutant: repeated events are not recognised.
neverSeen == FALSE

alreadySeen == NotAfter(current.index, last_event_index)

Handles(name) ==
    /\ mode = "in_range"
    /\ new_event # << >>
    /\ ~alreadySeen
    /\ current.event.event = name

skipRepeatEvent ==
    /\ mode = "in_range"
    /\ new_event # << >>
    /\ alreadySeen
    /\ new_event' = Tail(new_event)
    /\ UNCHANGED <<chainVars, query_result_state, persisted, last_event_index,
                   next_block_to_query, pending_commit_event, to_block, persist_state,
                   mode, restarts, served>>

\* The event is done: go on with the next one.
Advance ==
    /\ last_event_index' = current.index
    /\ new_event' = Tail(new_event)
    /\ UNCHANGED <<chainVars, persisted, next_block_to_query, to_block, mode, restarts>>

Wrap(e) == [type |-> "WRAP", spent |-> << >>, outputs |-> <<e.opening>>]

Faucet(e) == [type |-> "FAUCET", spent |-> << >>, outputs |-> <<e.opening>>]

\* decode_cape_block_from_event.
ModelTxns(e) == into_cape_transactions(from_cape_transactions(e.notes))

Outputs(transitions) == Log!OutputsOf(transitions)

\* Mutant: record_index is advanced too early.
OutputsUpTo(txns, n) == Len(Outputs(SubSeq(txns, 1, n)))

\* How many outputs the transactions before the n-th one have.
OutputsBefore(txns, n) == Len(Outputs(SubSeq(txns, 1, n - 1)))

(***************************************************************************)
(* The memos come from the calldata of the Ethereum transaction, one entry *)
(* for each note in the order of the block, good or not.  A signature      *)
(* verifies for the note that it was made for.                             *)
(***************************************************************************)
memos_sig_valid(e, txns, n) == e.memos[n] = "signed" /\ txns[n] = e.notes[n]

\* `index' when the memos of transaction n are reached: the memos whose
\* signature is valid have advanced it, the others have not.
firstMemoOutput(e, txns, n) ==
    MapThenSumSet(LAMBDA m : Len(txns[m].outputs),
                  {m \in 1 .. n - 1 : memos_sig_valid(e, txns, m)})

memo_events(e, txns, leaves, created, block_id) ==
    LET outputs(n) == [i \in DOMAIN txns[n].outputs |->
                         LET k == firstMemoOutput(e, txns, n) + i
                         IN  [memo |-> txns[n].outputs[i], commitment |-> created[k],
                              uid |-> Len(leaves) + k - 1]]
    IN  FlattenSeq([n \in DOMAIN txns |->
            IF memos_sig_valid(e, txns, n)
            THEN <<MemosEvent(outputs(n), <<block_id, n - 1, txns[n]>>)>> ELSE << >>])

pending_commit(txns, wraps) == txns \o wraps

\* The block cannot be decoded, or its memos are missing.
Undecodable(e) ==
    \/ Malformed(from_cape_transactions(e.notes))
    \/ Len(e.memos) # Len(e.notes)

\* The service's state after the block of an event, with the pending wraps.
withBlock(q, wraps, x) ==
    LET txns == ModelTxns(x.event)
        commits == pending_commit(txns, wraps)
        created == Outputs(commits)
        block_id == q.state_number
    IN  [q EXCEPT
           !.events = Append(@, CommitEvent(commits, block_id))
                        \o memo_events(x.event, txns, q.leaves, created, block_id),
           !.leaves = @ \o created,
           !.transaction_by_id =
              InsertAll(@, LAMBDA i : <<block_id, i - 1>>,
                        LAMBDA i : [transition |-> txns[i],
                                    output_start |-> Len(q.leaves) + OutputsBefore(txns, i)],
                        Len(txns)),
           !.transaction_id_by_hash =
              InsertAll(@, LAMBDA i : txns[i], LAMBDA i : <<block_id, i - 1>>, Len(txns)),
           !.nullifiers = @ \cup ToSet(Log!SpentBy(txns)),
           !.state_number = @ + 1,
           !.last_reported_index = x.index]

BlockCommitted ==
    /\ Handles("BlockCommitted")
    /\ ~Undecodable(current.event)
    /\ Publish(withBlock(query_result_state, pending_commit_event, current))
    /\ pending_commit_event' = << >>
    /\ persist_state' = TRUE
    /\ Advance

Erc20TokensDeposited ==
    /\ Handles("Erc20TokensDeposited")
    /\ pending_commit_event' = Append(pending_commit_event, Wrap(current.event))
    /\ Advance
    /\ UNCHANGED <<query_result_state, persist_state, served>>

\* The service's state after the faucet's grant.
withFaucet(q, x) ==
    LET ro == x.event.opening
        grant == Faucet(x.event)
    IN  [q EXCEPT
           !.leaves = Append(@, ro),
           !.events = <<CommitEvent(<<grant>>, 0),
                        MemosEvent(<<[memo |-> ro, commitment |-> ro, uid |-> Len(q.leaves)]>>,
                                   <<0, 0, grant>>)>>,
           !.transaction_by_id =
              Insert(@, <<0, 0>>, [transition |-> grant, output_start |-> 0]),
           !.transaction_id_by_hash = Insert(@, grant, <<0, 0>>),
           !.last_reported_index = x.index]

\* What the handler asserts: nothing was indexed before.
isFirst(q) ==
    /\ q.state_number = 0 /\ q.events = << >>
    /\ DOMAIN q.transaction_by_id = {} /\ DOMAIN q.transaction_id_by_hash = {}

FaucetInitialized ==
    /\ Handles("FaucetInitialized")
    /\ isFirst(query_result_state)
    /\ Publish(withFaucet(query_result_state, current))
    /\ persist_state' = TRUE
    /\ Advance
    /\ UNCHANGED pending_commit_event

\* The service's state after an asset was sponsored.
withAsset(q, x) ==
    [q EXCEPT !.address_from_asset = @ \cup {<<x.event.asset, x.event.erc20>>},
              !.last_reported_index = x.index]

AssetSponsored ==
    /\ Handles("AssetSponsored")
    /\ Publish(withAsset(query_result_state, current))
    /\ persist_state' = TRUE
    /\ Advance
    /\ UNCHANGED pending_commit_event

\* Mutant: the block after the range is skipped.
skipBlock == to_block + 2

blockAfterRange == to_block + 1

\* The state is the latest one as soon as the atomic store commits it.
store_latest_state(state) == persisted' = state

\* The end of check_range: persist, then the next range.
finishRange ==
    /\ mode = "in_range"
    /\ new_event = << >>
    /\ IF persist_state THEN store_latest_state(query_result_state) ELSE UNCHANGED persisted
    /\ next_block_to_query' = blockAfterRange
    /\ mode' = "polling"
    /\ UNCHANGED <<chainVars, query_result_state, last_event_index, pending_commit_event,
                   new_event, to_block, persist_state, restarts, served>>

-----------------------------------------------------------------------------
(* The process stops, by a panic or from outside, and is started again.    *)

Stop ==
    /\ mode' = "stopped"
    /\ UNCHANGED <<chainVars, query_result_state, persisted, last_event_index,
                   next_block_to_query, pending_commit_event, new_event, to_block,
                   persist_state, restarts, served>>

panic ==
    \/ /\ Handles("BlockCommitted")
       /\ Undecodable(current.event)
       /\ Stop
    \/ /\ Handles("FaucetInitialized")
       /\ ~isFirst(query_result_state)
       /\ Stop

Crash ==
    /\ mode # "stopped"
    /\ restarts < MaxRestarts
    /\ Stop

firstBlockToQuery(index) == index[1]

load_latest_state == persisted

(***************************************************************************)
(* EthPolling::new stops on a state that was made for another contract,    *)
(* for fewer confirmations, or that has events of no contract.             *)
(***************************************************************************)
acceptable(state) ==
    /\ state.contract_address = NoAddress => state.last_reported_index = NoIndex
    /\ state.contract_address \in {NoAddress, cape_address}
    /\ state.num_confirmations # 0 => state.num_confirmations >= num_confirmations

\* run, up to its loop, with or without reset_state: a reset store is a new one.
Restart ==
    /\ mode = "stopped"
    /\ restarts < MaxRestarts
    /\ restarts' = restarts + 1
    /\ \E reset_state \in BOOLEAN :
          LET state == IF reset_state THEN NewState ELSE load_latest_state IN
          /\ acceptable(state)
          /\ persisted' = state
          /\ query_result_state' = connected(state)
          /\ last_event_index' = state.last_reported_index
          /\ next_block_to_query' = firstBlockToQuery(state.last_reported_index)
    /\ pending_commit_event' = << >>
    /\ new_event' = << >>
    /\ persist_state' = FALSE
    /\ mode' = "polling"
    /\ UNCHANGED <<chainVars, to_block, served>>

-----------------------------------------------------------------------------
checkRange ==
    \/ skipRepeatEvent
    \/ BlockCommitted
    \/ Erc20TokensDeposited
    \/ FaucetInitialized
    \/ AssetSponsored
    \/ finishRange

Next ==
    \/ NewBlock
    \/ Reorg
    \/ check
    \/ checkRange
    \/ panic
    \/ Crash
    \/ Restart

Spec == Init /\ [][Next]_vars

\* The polling loop never ends, and a stopped process is started again.
Fairness == WF_vars(check) /\ WF_vars(checkRange) /\ WF_vars(Restart)

FairSpec == Spec /\ Fairness

-----------------------------------------------------------------------------
(* routes.rs: what clients are answered.                                   *)

get_cap_state ==
    [records |-> query_result_state.leaves, height |-> query_result_state.state_number,
     num_events |-> Len(query_result_state.events)]

check_nullifier(nullifier) == nullifier \in query_result_state.nullifiers

\* One transaction, or none.
get_transaction(id) ==
    {query_result_state.transaction_by_id[i] :
       i \in {id} \cap DOMAIN query_result_state.transaction_by_id}

\* A hash that is indexed without its transaction is answered with an error.
get_transaction_by_hash(hash) ==
    UNION {get_transaction(query_result_state.transaction_id_by_hash[h]) :
             h \in {hash} \cap DOMAIN query_result_state.transaction_id_by_hash}

\* One address, or none.
get_wrapped_erc20_address(asset) ==
    {x[2] : x \in {y \in query_result_state.address_from_asset : y[1] = asset}}

get_cape_contract_address == query_result_state.contract_address

-----------------------------------------------------------------------------
(* Types.  The states and the events of the log keep the shapes that the   *)
(* handlers give them.                                                     *)

Indexes == Nat \X Nat

IsQueryState(q) ==
    /\ q.state_number \in Nat
    /\ q.last_reported_index \in Indexes
    /\ q.nullifiers \subseteq 1 .. Len(q.leaves)
    /\ DOMAIN q.transaction_by_id \subseteq Nat \X Nat
    /\ \A h \in DOMAIN q.transaction_id_by_hash :
          q.transaction_id_by_hash[h] \in DOMAIN q.transaction_by_id

TypeOK ==
    /\ Len(chain) <= highest
    /\ IsQueryState(query_result_state) /\ IsQueryState(persisted)
    /\ last_event_index \in Indexes
    /\ next_block_to_query \in Nat /\ to_block \in Nat
    /\ \A k \in DOMAIN new_event : new_event[k].index \in Indexes
    /\ persist_state \in BOOLEAN
    /\ mode \in {"polling", "in_range", "stopped"}
    /\ restarts \in 0 .. MaxRestarts

-----------------------------------------------------------------------------
(* Safety.                                                                 *)

\* The events of the chain up to an index, which come in the order of indexes.
EventsUpTo(index) ==
    LET all == IndexedEvents(1, Len(chain))
    IN  SubSeq(all, 1, Cardinality({k \in DOMAIN all : NotAfter(all[k].index, index)}))

Handled ==
    LET known == EventsUpTo(last_event_index)
    IN  [k \in DOMAIN known |-> known[k].event]

\* The blocks that no reorganisation takes back.
Confirmed == highest - (num_confirmations - 1)

\* Only events that no reorganisation takes back are handled (eth_polling.rs
\* check: latest_confirmed_block_number).
OnlyConfirmed == last_event_index[1] <= Max({0, Confirmed})

(***************************************************************************)
(* What the service answers is what the contract's events say, up to the   *)
(* last event it handled: the replica of the tree, the nullifiers, the     *)
(* height, the registered assets and the wraps that wait for a block       *)
(* (eth_polling.rs check_range).  Repeated events, reorganisations,        *)
(* crashes and restarts leave no trace in it.                              *)
(***************************************************************************)
ReplicaMatches ==
    LET known == Handled
        spent == Log!Spent(known)
        sponsored == Log!Sponsored(known)
    IN  mode # "stopped" =>
          /\ get_cape_contract_address = cape_address
          /\ get_cap_state.records = Log!Leaves(known)
          /\ get_cap_state.height = Cardinality(Log!Blocks(known))
          /\ \A leaf \in DOMAIN get_cap_state.records : check_nullifier(leaf) <=> leaf \in spent
          /\ \A x \in query_result_state.address_from_asset \cup sponsored :
                get_wrapped_erc20_address(x[1])
                  = {y[2] : y \in {z \in sponsored : z[1] = x[1]}}
          /\ [k \in DOMAIN pending_commit_event |-> pending_commit_event[k].outputs[1]]
               = Log!Announced(known)

(***************************************************************************)
(* The comment at eth_polling.rs:238, "Get all the wrap transitions which  *)
(* are pending since the last commit": the wraps that the service adds to  *)
(* a block are the deposits that the contract inserted with it.            *)
(***************************************************************************)
AllPendingWraps ==
    Handles("BlockCommitted") =>
        Outputs(pending_commit_event) = current.event.deposits

\* The memos that an event of the service carries.
MemosServed ==
    UNION {ToSet(query_result_state.events[k].outputs) :
             k \in {i \in DOMAIN query_result_state.events :
                      query_result_state.events[i].event = "Memos"}}

(***************************************************************************)
(* A memo is served with the commitment and the position of the record it  *)
(* opens: a wallet that trusts them finds its record in the tree           *)
(* (eth_polling.rs:306-338, "Create LedgerEvent::Memos if memo signature   *)
(* is valid, skip otherwise").                                             *)
(***************************************************************************)
MemosMatchOutputs ==
    \A m \in MemosServed :
        /\ m.memo = m.commitment
        /\ m.uid + 1 \in DOMAIN query_result_state.leaves
        /\ m.commitment = query_result_state.leaves[m.uid + 1]

\* The indexed transaction with this hash is there, with its output indexes.
Found(hash) ==
    \E txn \in get_transaction_by_hash(hash) :
        /\ txn.transition = hash
        /\ \A i \in DOMAIN hash.outputs :
              /\ txn.output_start + i \in DOMAIN query_result_state.leaves
              /\ query_result_state.leaves[txn.output_start + i] = hash.outputs[i]

(***************************************************************************)
(* eqs/api/api.toml:64, get_transaction/:hash "Returns the committed       *)
(* transaction, if any, with the specified hash, with output indexes": so  *)
(* it does for the transactions of blocks.  The faucet's has the identity  *)
(* of the first transaction of the first block (eth_polling.rs:377), and   *)
(* is no longer found after that block.                                    *)
(***************************************************************************)
BlockTransactionsFound ==
    \A h \in DOMAIN query_result_state.transaction_id_by_hash :
        h.type # "FAUCET" => Found(h)

(***************************************************************************)
(* A client addresses the service's events by position (get_events_since)  *)
(* and keeps its position when the service restarts from an older state:   *)
(* the event at a position never changes.                                  *)
(***************************************************************************)
ServedEventsStable == IsPrefix(query_result_state.events, served)

-----------------------------------------------------------------------------
\* The service's state has what the events up to block b say.
Reflected(b) ==
    /\ mode # "stopped"
    /\ b <= Len(chain)
    /\ IsPrefix(Log!Leaves(LogOf(SubSeq(chain, 1, b))), query_result_state.leaves)
    /\ Log!Sponsored(LogOf(SubSeq(chain, 1, b))) \subseteq query_result_state.address_from_asset

=============================================================================
