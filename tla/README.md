# A TLA+ model of CAPE

CAPE (Configurable Asset Privacy for Ethereum) keeps private records in a
contract on Ethereum. Users wrap ERC-20 tokens into records, transfer, mint,
freeze and burn records with zero-knowledge proofs, and unwrap them again.
Around the contract run four services: a relayer that submits blocks, a query
service (EQS) that indexes the events of the contract, a faucet, and an address
book. A wallet library uses all of them, and a wallet server, a command line
and some tools use the library.

This directory models the parts of that system whose correctness depends on
state, order, failure and concurrency, checks them with TLC on small instances
and proves the most important results with TLAPS for every instance. Paths below are relative to `src/`.

## Inventory

| Part | State | Operations | Talks to |
|---|---|---|---|
| `contracts/contracts/CAPE.sol` | nullifiers, height, queue of deposits, faucet flag, re-entrancy guard | `faucetSetupForTestnet`, `depositErc20`, `submitCapeBlock`, `submitCapeBlockWithMemos` | tokens (which may call back), the tree, the verifier; emits the events that the EQS reads |
| `RootStore.sol` | ring of roots, membership map, write head | `_addRoot`, `_containsRoot` | inherited by CAPE |
| `AssetRegistry.sol` | asset definition → token | `sponsorCapeAsset`, `lookup`, code checks | inherited by CAPE; not guarded against re-entry |
| `RecordsMerkleTree.sol` | root, number of leaves, frontier | `updateRecordsMerkleTree` | called by CAPE |
| `contracts/rust/src/cape/mod.rs` | none | `from_cape_transactions`, `into_cape_transactions` | relayer (encodes), EQS (decodes), contract (reads) |
| `contracts/rust/src/types.rs`, `wallet/src/ui.rs` | none | conversions between library, contract, JSON and interface types | everything that talks to the contract |
| `contracts/rust/src/model.rs`, `ledger.rs` | an executable model of the contract, a trusting validator | `submit_operations`, `validate_and_apply` | the wallet and its tests |
| `relayer/src/lib.rs`, `cape/submit_block.rs` | mutex, attempt, nonce and gas of a submission | `submit` endpoint, `submit_empty_block_loop` | wallets (HTTP), an Ethereum node |
| `eqs/src` | replica of the ledger, event list, two transaction indexes, last event reported, wraps that wait; snapshots on disk | `check`, `check_range` with one handler per event, routes that read | the chain (polling), wallets (polling) |
| `faucet/src/faucet.rs` | index of requests, its log on disk, channel, wallet lock, records of the wallet | `request_fee_assets`, `healthcheck`, `worker`, `load`, `break_up_records`, `maintain_enough_records` | wallet, address book |
| `address_book/src` | one file per address | `insert_pubkey`, `request_pubkey` | wallets, faucet |
| `wallet/src/backend.rs`, `wallet.rs` | position in the event stream, validator, account on Ethereum | `create`, `subscribe`, sponsor, wrap, submit, scan | EQS, relayer, Ethereum node |
| `wallet/src/wallet-api`, `loader.rs` | the open wallet, keystores and the last used path on disk | about forty endpoints | one wallet |
| `wallet/src/mocks.rs`, `testing.rs` | the model of the contract, an event list, memos | a network for tests of the wallet, a replaying backend | wallets under test |
| `wallet/src/bin` | none; signed files | random wallets, asset library tools, command line | wallets |

What is hard here:

* **Calls inside calls.** A token runs its own code in the middle of a deposit
  or a withdrawal, and a call that fails undoes everything since its start.
* **Replicas.** The EQS and the wallets rebuild the tree from events. Order,
  multiplicity and completeness of what they apply must match the contract
  exactly, through reorganisations, repeated events, crashes, restarts, and
  polls that fail.
* **Persistence that covers only part of the state.** The EQS does not store
  the wraps that wait for a block; the faucet does not store its channel; a
  key of the address book is written and renamed in two steps.
* **A shared account.** The relayer's tasks use one Ethereum account, whose
  nonces are counted by a node that may lag.
* **Locks held over network calls**, in the relayer, the faucet and the wallet.
* **Positions instead of names.** Memos, outputs, notes of a block, events and
  assets of a library are matched by their place in a list.
* **Windows and queues at their limits**: recent roots, pending deposits,
  faucet requests, records of the faucet, parts of lists that are served.

What makes each part correct: the contract owns at least what its unspent
wrapped records are worth, spends nothing twice, and emits a log from which its
state can be replayed; the root store accepts exactly the latest roots, the
tree has the root of its leaves; conversions lose nothing; the EQS equals the
replayed log up to the last event it handled, keeps the positions of its
events, and catches up; the faucet serves each request and pays no more than a
restart can explain, and keeps enough records to do so; the relayer turns a
request into at most one transaction, tells the truth about it, and gets
deposits credited; the address book serves whole keys of their owner; a wallet
sees each event once, shows what is on the ledger and returns from its
operations; the wallet server uses a keystore once.

## Modules

| Module | Models | Used by |
|---|---|---|
| `RootStore` | `RootStore.sol` as it is: ring, map, write head, and the history `added` | `CAPE`, `CAPEProofs`, `MCParts` |
| `RootWindow` | abstract: a sequence of roots and the set of its last `NRoots` | refined by `RootStore` |
| `AssetRegistry` | `AssetRegistry.sol`; an asset code is the tuple that the code hashes | `CAPE` |
| `RecordsMerkleTree` | `RecordsMerkleTree.sol`: frontier, array of nodes, pushes, hashing, new frontier | `MCParts` |
| `Lists` | sums over lists | `CAPE`, `Wallet` |
| `CAPE` | `CAPE.sol`, with a stack of calls in progress | `MCCAPE`, `CAPEProofs` |
| `CapeLog` | abstract: the event log that clients rely on | refined by `CAPE`, environment of `Eqs` |
| `CapeBlock` | how notes are laid out in a block, both conversions and the contract's reading order | `Eqs`, `MCCapeBlock`, `CapeBlockProofs` |
| `CapeTypes` | conversions of `types.rs`, `ui.rs` and the sponsor command | `MCParts` |
| `CapeModel` | `model.rs`: `submit_operations` as a function of states | `MockNetwork` |
| `MockNetwork` | `mocks.rs` and `ledger.rs`: test network, a wallet's validator, the replaying backend | `MCParts` |
| `Eqs` | the polling loop of the query service, with the chain, and its routes | `MCEqs`, `MCEqsPair`, `EqsProofs` |
| `ApiRoutes` | finding and parsing of requests in both servers; the tables are in `MCRoutes` | `MCRoutes`, `MCParts` |
| `Relayer` | submission, retries, loop of empty blocks, with the node's pool | `MCRelayer`, `RelayerProofs` |
| `FaucetQueue` | queue, log, workers, health check, recovery | `MCFaucet`, `FaucetProofs` |
| `FaucetRecords` | the record breaker, at startup and after grants | `MCFaucet`, `MCRecords` |
| `AddressBook` | concurrent handlers on a directory of files | `MCParts`, `ServiceProofs` |
| `Wallet` | the backend of a wallet with the node, the contract, the EQS and the relayer as it sees them | `MCWallet`, `WalletProofs` |
| `WalletServer` | opening, closing and defining things through the server, with keystores on disk | `MCParts`, `ServiceProofs` |
| `WalletAccounts` | what operations of several wallets do to records, balances and tokens; the random wallet | `MCParts` |
| `AssetLibrary` | the asset library tools and the wallet's check of a library | `MCParts`, `ServiceProofs` |
| `CAPEProofs` | theorems about `RootStore` and `CAPE` | |
| `CapeBlockProofs`, `EqsProofs`, `RelayerProofs`, `FaucetProofs`, `WalletProofs` | theorems about the module that the name says | |
| `ServiceProofs` | theorems about `AddressBook`, `WalletServer` and `AssetLibrary` | |
| `ListProofs` | lemmas about sums and lists, and induction for recursive functions | `CAPEProofs`, `CapeBlockProofs`, `EqsProofs`, `FaucetProofs`, `WalletProofs` |

`CapeLog` is the joint between the parts: `CAPE` is proved to implement it
(`ImplementsCapeLog`), and `Eqs` reads any chain whose log it allows. So what
the EQS run shows holds for every log the contract can emit within the bounds.

### CAPE

A call is not one step. `depositErc20` runs up to the call of the token and
`depositErc20Returns` from there; a block is `submitCapeBlock`, one step for
each note (`transferNote`, `mintNote`, `freezeNote`, `burnNote`), and
`submitCapeBlockReturns` for everything after the loop. `frames` is the stack
of calls in progress with the state each started from; `revert` restores it and
stands for every way a call can fail later than its first checks. While a call
waits for a token, only that token may call (`MayCall`).

Abstractions: a commitment is the record it commits to, the nullifier of a
record is its position, and a root is the number of leaves of the tree. That
hashes do not collide and proofs are sound is assumed: `TransferProof`,
`MintProof`, `FreezeProof` say what an accepted proof establishes about the
public inputs that `_prepareForProofVerification` builds; they are marked
external. A proof that is not valid makes the block fail at `batchVerify`,
after the notes were processed. Tokens that do not call back move exactly what
they are asked to move; of those that call back nothing is assumed. A burn may
name any account as the recipient, the contract included (`CAPE.sol:418`): then
the record is gone and its tokens stay, which is why `Solvency` says that the
contract owns at least what its records are worth, and not exactly that.

### Eqs

`check` chooses a range of confirmed blocks and fetches its events, perhaps
repeating those of the block before; `BlockCommitted`, `Erc20TokensDeposited`,
`FaucetInitialized` and `AssetSponsored` are the branches of `check_range`;
`finishRange` stores the state. `panic` stands for the `unwrap`s and assertions
that an event can trip, `Crash` for a kill at any point, `Restart` for
`EthPolling::new`. The chain may be reorganised as long as no block with
`num_confirmations` confirmations disappears.

### Relayer

Each request and the loop is a task: `relay` (or `refuse`, for a request that
cannot be read or put into a block) or `submit_empty_block`, `lock`,
then rounds of `fillNonce`, `estimateGas`, `send`. `Fail` is the classification
and the retry of `submit_block`. Nonces are counted from the account's mined
transactions, which keeps the model finite; gas is counted in deposits to
credit. The node may lag by one transaction, drop a transaction, be unreachable
or lose an answer, at most `MaxFaults` times in all, and it estimates gas against
the mined state or any pending one (`EstimateViews`). Both values of
`nonce_count_rule` are initial states of the run.

### FaucetQueue

`push` inserts under the lock of the index and `send` puts the key on the
channel after the lock is released. A worker is `pop`, `lockWallet`,
`transfer` (or `transferFindsNoKey`, `transferFails`), `grant` (or
`grantFails`). `restart` loses everything but the log and runs `load`.

### FaucetRecords

A transfer takes its record out of use until a block is committed (`retire`) or
the transaction fails (`reject`). `splitRecord` and `stopSplitting` are the
loop of `break_up_records`, `awaitTransactions` waits for the batch, and
`init_web_server` and `maintain_enough_records` are its two callers, the second
of which is woken through a channel (`signal`, `wakeUp`). Before the faucet
serves, it waits with the wallet locked; after that it does not.

### RecordsMerkleTree

`buildTreeFromFrontier` lays the frontier out in an array of nodes,
`pushElement` descends to the next leaf and grows the branch to it, `valueOf`
hashes the tree, and `storeFrontier` reads the new path off. Hashing is free: the hash of three children is the triple. That
the array is as long as an update needs (`NodesSuffice`) and that the root is
the one of all leaves (`RootOfAllLeaves`) are the parts of `UpdatesBuildTree`.

### CapeModel and MockNetwork

`submit_operations` is a function from states and operations to a state with
effects, or an error (a transaction of a size without a verifying key,
`KeySizes`, included); `MockNetwork` applies it, keeps the list of events and
their memos, and has a wallet whose validator starts at any moment and follows
the events. The replaying backend rebuilds its state from all events; its
states and those of the network must agree.

### Wallet

An operation holds the wallet's mutex from its start to its return and is a
sequence of steps (`submit_sponsor`, `register_erc20_asset`, `sponsorMined`,
`wait_for_wrapped_erc20_code`; `submit_wrap`, `get_wrapped_erc20_code`,
`approve`, `depositErc20`, `wrapMined`); `waitFails` is a node that does not
answer. `poll` and `handleEvent` are the stream and the task that handles its
events and needs the same mutex. The EQS goes down and comes back, and other
users fill the queue of deposits.

### WalletServer and WalletAccounts

A request of the server holds the wallet until it is answered, so requests are
handled one after the other; between its steps the EQS may fail, a new contract
may be deployed, and the process may die. `handles` counts the open handles of
each keystore. `WalletAccounts` has no server and no keystore: wallets send,
mint, freeze, wrap and unwrap, blocks commit or reject what is in flight, and
the endpoints are functions of what a wallet knows. The random wallet is a
second driver of the same wallets, which keeps its own book of balances. A
request of it may be answered with an error and take effect all the same
(`answerLost`), in which case the book misses it (the `Err` branches of
`random-wallet-in-mem.rs:504-510`, the `.ok()` of `testing.rs:267`).
`BookCoversTransfers` says that its assertions fail only after such an error or
after a rejected transaction: with neither, the book is right.
Selection of records is seahorse's, external: any set of sufficient records
without one that could be left out.

### AddressBook, AssetLibrary, ApiRoutes, CapeTypes

`AddressBook` has a step per system call of a save (`SaveOpens`, `SaveWrites`,
`SaveRenames`, or `SaveFails`), and a query reads one file. `AssetLibrary` deploys the assets of
a specification one at a time; `generate` may fail or be interrupted between
any two. `ApiRoutes` has a path of a request as a list of words with the type
each has for the parser, and `MCRoutes` the tables of `api.toml`. `CapeTypes`
has numbers modulo a small prime, the text of a number as the number with its
base, points as pairs, policies with a reveal map of six bits, and proofs as
their points and scalars.

## Runs

TLC is started once for a family of parts. A run that has several parts, or
several instances of a part, has a variable that says which one runs (`part` in
`MCParts` and `MCFaucet`, `instance` in `MCCAPE` and `MCEqsPair`); it never
changes, and the others keep an initial state. So the states of such a run are
the sum, not the product, of the states of its parts. A second instance of the
same module with other constants is an `INSTANCE` of it (`MCCAPE!R`,
`MCEqsPair!R`, `MCFaucet!E`).

| Run | Part or instance | Checks | Shows |
|---|---|---|---|
| `parts` | roots | `KeepsLatestRoots`, `ImplementsRootWindow` | the ring accepts exactly the latest roots, through two rounds of the buffer |
| | tree | `UpdatesBuildTree` | updates of up to five elements at every fill of a tree of height three give the root and the frontier of all leaves, within the array |
| | codec | `CodecKeepsNotes` | the contract reads the notes of a block in the order they were given, and the decoder returns the same notes |
| | types | `ConversionsKeepValues` | a value keeps what it says through any chain of conversions |
| | routes | `RequestsReachHandlers`, `WindowAsDocumented` | a request finds one route, its handler finds the parameters it reads, and a part of a list is the one asked for |
| | ledger | `LedgersAgree`, `TokensBackRecords`, `RootsOutliveTransactions` | model of the contract, replay and a wallet's validator agree; nothing is spent twice or from nothing; a transaction built now is accepted until the window has passed |
| | book | `KeysServedBySignature`, `AcknowledgedKeysStay` | three requests interleave with failed writes and crashes |
| | server | `OneWalletPerKeystore`, `MintInfoStaysPrivate` | four requests with outages, crashes and new contracts in between |
| | accounts | `BalancesAddUp`, `AccountsShowLedger`, `BookCoversTransfers` | two wallets with two accounts each trade, or the random wallet does |
| | library | `LibrariesMatchChain` | three commands with failures and interruptions |
| `contract` | notes, reentrant | `Solvency`, `EventsReplayState`, `WrappedRecordsBacked`, `NoDoubleSpend`, `ImplementsCapeLog` | notes of every type, two to a block, splitting transfers, more roots than the window holds; and a token that calls back; calls that fail anywhere |
| `eqs` | crashes, reorgs | `ReplicaMatches`, `BlockTransactionsFound`, `ServedEventsStable`, `CatchesUpAfterCrashes` | kills and restarts at any point, the notes having signed memos; and one life with reorganisations, repeats, panics, memos of any kind and blocks of any submitter |
| `relayer` | | `AnswersTruthful`, `SteadyNonces`, `GasSuffices`, `DepositsCredited`, `RequestsAnswered` | two requests, the loop, both nonce rules, one fault |
| `faucet` | queue, failing store, records | `GrantsBounded`, `KeysHeldOnce`, `LoadMatchesReplay`, `AcceptedAreServed`, `BreakerComesToRest` | two workers, two keys, failed transfers, health checks, restarts; a store that fails; the record breaker |
| `wallet` | | `StreamsFollowLedger`, `OperationsReturn`, `DepositsArrive` | a wallet with two operations, an outage, a restart, another user |
| `block_codec_order` | | `RoundTrip` (violated) | see Findings |
| `eqs_lost_wrap` | | `AllPendingWraps` (violated) | see Findings |
| `eqs_memos` | | `MemosMatchOutputs` (violated) | see Findings |
| `wallet_wrap` | | `WrapGuaranteed` (violated) | see Findings |
| `eqs_routes_by_hash` | | `EveryRouteServed` (violated) | see Findings |
| `faucet_records` | | `OpensWithEnoughRecords` (violated) | see Findings |

`PROJECT.json` gives for each property a mutant: a plausible mistake in the
code under which TLC finds the property violated. The mutants stand in the
modules before the definition they would replace, marked `Mutant`.

**Bounds.** `RootStore`: three slots and seven additions, so every slot is
overwritten. `RecordsMerkleTree`: 27 leaves; the fill of the tree and the size
of a batch take every value that differs in how subtrees are cut. `CAPE`: two
blocks of two notes (or of one, with re-entry) after the faucet, a window of
two roots; three roots exist, so the window slides, and a queue of one deposit
is full at once. Amounts are 1 and 2, enough for a transfer to split a record.
Of the notes whose statement is false only those that spend the newest leaf are
tried, since they all fail at the same place. `MockNetwork`: a window of one
past root and two calls after each of the six set-ups, so that a root leaves
the window. `Eqs`: three or four Ethereum blocks of up to two events, four
events in all: a deposit, a sponsorship, the faucet and a block fit, in one
Ethereum block or several, with the range limits on either side. `Relayer`: two
requests for the same transaction, two deposits, a pool of two, one fault and
one retry. `FaucetQueue`: two keys and two workers are enough for every overlap
of two tasks; the log is cut off for health checks only. `FaucetRecords`: a
record of eleven to be broken up into four for grants of two, so that it takes
several splits and amounts do not come out even. `Wallet`: two operations of one wallet, a
queue of one deposit that another user may fill, one outage and one restart: a
restart between any two steps, with the EQS behind or gone. `AddressBook`:
three requests, so that two writers and a reader overlap. `WalletServer`: four
requests and one fault: open, fail, open again, use. `WalletAccounts`: three
transactions of two wallets, four of the random one, one error of the random one
after which the outcome is not known (`MaxErrors`); three tokens are wrapped,
so that the change of an unwrap differs from what was burned.

**Deadlock** is not checked: in each run the bounds stop the model with every
client served (a chain, a log or a height at its limit). Liveness properties
say what must not stop.

**Fairness.** `Eqs`: the polling loop (`eqs/src/eth_polling.rs`, `entry.rs`)
never ends, and the service is restarted after a stop. `Relayer`: the node mines
pending transactions; every task of the executor runs; async_std's mutex lets
each waiter in at last (strong fairness of `lock`, since the mutex is taken and
released over and over); faults are finite in number. `FaucetQueue`: the same
for tasks and locks, and a transfer that is tried for ever succeeds at last,
because a failed one is put back and tried again. `FaucetRecords`: the breaker
and the workers run, and transactions under way are decided. `Wallet`: the node
mines, the relayer's loop of empty blocks credits what waits (which is what
`DepositsCredited` checks of `Relayer`), the EQS comes back and indexes
(`CatchesUpAfterCrashes` of `Eqs`), and the tasks of the wallet run; no fairness
is assumed of users or of faults.

## Findings

* `eqs_lost_wrap`. `AssetSponsored` (and `FaucetInitialized`) move the persisted
  `last_reported_index` past deposits that wait in `pending_commit_event`,
  which is not persisted. After a restart the deposits are skipped as repeats,
  and the next block is indexed without them. The passing EQS run leaves this
  case out by its constants: the crashing instance has one wrapped asset, which
  is sponsored before anyone can deposit it, and no late faucet.
* `eqs_memos`. In `check_range`, `index` advances only over memos whose
  signature is valid: the memos after a skipped entry are served with the
  commitments and positions of the skipped transaction's outputs.
* `block_codec_order`. `into_cape_transactions` takes notes of a type from the
  end of their array, while the contract reads them from the start. Blocks of
  the relayer hold one note and are not affected.
* `wallet_wrap`. `wrap_erc20` ignores the status of the deposit's receipt and
  succeeds when the deposit reverted because the queue had filled; `wallet.rs`
  documents that after a success the tokens are deducted and the record will be
  created.
* `eqs_routes_by_hash`. `parse_route` looks a route up by the first segment of
  the path, so `get_transaction/:hash`, documented as a route of its own, never
  reaches its handler.
* `faucet_records`. `break_up_records` counts two records for each receipt in its
  list, besides the records that are spendable (`faucet.rs:731`). A split that
  has settled while its receipt is in the list is counted twice: the function
  returns early, and the faucet opens with two records instead of four although
  both could be split further. Nothing is rejected on the way.

Met while modelling, and stated around in the properties:

* `faucetSetupForTestnet` adds a root without a block, so the number of roots is
  not the height, which the comment at `CAPE.sol:288` says the wallet assumes.
* The EQS gives the faucet's transaction the identity (0, 0) and keeps
  `state_number` at 0, so the first transaction of the first block takes its
  place. `BlockTransactionsFound` leaves the faucet's transaction out.
* The EQS asserts that the faucet comes before every block
  (`eth_polling.rs:443`); the contract does not enforce it.
* A block submitted without memos makes the EQS panic, again after each restart
  (the TODO at `eth_polling.rs:228`).
* `num_confirmations` is not part of the persisted state (`eth_polling.rs:73`):
  what happens when it is changed between restarts is not modelled.
* When a grant of the faucet cannot be recorded, the worker moves on and the key
  is served no more until the next restart.
* The Rust model accepts the current root and `CAPE_NUM_ROOTS` past ones, the
  contract `NRoots` in all. `RootsOutliveTransactions` says what the model does.
* `update` of the asset library matches assets by position and compares their
  number and keys only, while its documentation says that the set of assets and
  their codes are checked: a reordered specification with the same keys swaps
  names. `LibrariesMatchChain` speaks of codes, tokens and policies, not of
  names. A freezing key without a viewing key is left out by `generate`, and
  makes `update` refuse.
* `register_erc20_asset` ignores the status of its receipt and then waits until
  the EQS knows the asset (`backend.rs:532`). A sponsor that is repeated after an
  unanswered one (`waitFails`) passes the estimate, reverts when it is mined
  after the first, and answers "sponsored", while `wallet.rs:33-34` documents
  that it must fail if the asset is already registered. The asset is registered
  as asked, since its code names token and sponsor. A sponsor whose estimate sees
  the registration does fail.
* `scan_status` reads the number of events of the EQS and then, the lock being
  free in between, the wallet's position (`scanStatusEqs`, `scanStatusNow`).
  Events that arrive meanwhile put the wallet ahead, while `wallet.rs:234-235`
  guarantees `sync_time <= eqs_time`; the comment at `wallet.rs:484` calls the
  order of the two reads an approximation. So no property states the guarantee.
* `Display` of the interface's `AssetDefinition` writes the viewing key under
  both `freezing key` and `viewing key` (`ui.rs:135`). The text a user types is
  modelled, this one, which is for people to read, is not.
* The sponsor command of the command line sets a reveal threshold without a
  viewing key too, which the interface's types then drop; the endpoints do not.
  `ConversionsKeepValues` asks the interface to keep policies that have a viewer
  for their threshold.

## Proofs

`CAPEProofs` proves of the root store, for every `NRoots > 1` and every set of roots without
the zero that empty slots hold (`RootStoreAssumption`; the contract's
constructor requires more than one root):

* `RootStoreInvariant`: `RootStoreInv` is an invariant;
* `RootStoreKeepsLatest`: a root is accepted if and only if it is one of the
  latest `NRoots` added (`KeepsLatestRoots`);
* `RootStoreRefinesWindow`: the ring with its map implements `RootWindow`.

`KeepsLatestRoots` alone is not inductive: to know which root `_addRoot`
overwrites one must know which root is in the slot under the write head. The
strengthening `RootStoreInv` adds that slot `i` holds the latest root added at a
position congruent to `i` (`SlotsInOrder`), that the write head counts the
additions modulo `NRoots` (`HeadCountsRoots`), and that the roots kept are
distinct (`KeptRootsDistinct`), which the check for duplicates in `_addRoot`
maintains. `AddRootInv` proves the step once, with one lemma per conjunct, and
the three theorems rest on it.

`RelayerProofs` proves, for any requests, transactions, `max_retries`, limits of
the node and numbers of deposits and faults, that `Relayer` keeps `TypeOK`,
`AnswersTruthful`, `SteadyNonces` and `GasSuffices` (theorems `RelayerTypes`,
`RelayerAnswersTruthful`, `RelayerNoncesSteady`, `RelayerGasSuffices`). It rests
on `RelayerAssumption`, in which one part is about the deployment: the extra gas
and the gas limit of a block both cover a full queue of deposits. The invariant
`RelayerInv` adds to the properties

* `UnansweredUnsent`: a request without an answer has no Ethereum transaction,
  so a retry never sends a second one. This is the reason that only nonce errors,
  which come before the transaction enters the pool, may be retried;
* `SubmitterHoldsMutex` and `UnusedNonceFree`: only the holder of the mutex is
  between counting and sending, so the nonce it counted stays free until it is
  used, also while transactions are mined (every nonce comes one closer) or
  dropped;
* `NoncesUnique`, which makes mining remove one transaction and no more;
* `GasForFullQueue`: gas is enough for the limit of the queue, not only for the
  deposits there are now, as these still grow.

There is one lemma per action; the actions of a task share `TaskMoves` (lemma `TaskMovesInv`), which
says that a step of a task changes no other task's job. That the least element
of a set of nonces exists (`MinOfNaturals`) comes from the well-foundedness of
the natural numbers.

`CAPEProofs` proves of the contract every property of the `contract` run, for any users, tokens,
asset definitions, notes, verifying keys, sizes of the tree, the window and the
queue, and any number of blocks. `CapeAssumption` says that the contract is none
of its users or tokens, that amounts are numbers and `ZeroCommitment` is no
record, and, of the keys that `VerifyingKeys.sol` returns, that every note has at
least two outputs, a mint one input, and a freeze as many inputs as outputs.

* `CapeTypesCorrect`: types, and `Guarded`: the re-entrancy guard is taken exactly
  while one guarded call is in progress, so `frames` has at most one element.
  Every other proof about the contract uses it: between two steps of a call only
  `sponsorCapeAsset` can come in, since it is not guarded.
* `CapeRecordsBacked` (`WrappedRecordsBacked`): a record of a wrapped asset with
  an amount above zero is of an asset registered for the token its code names.
  `BackedInv` must also hold of the state that a failing call would restore, and
  of the records of the block in progress as long as its proofs are valid; those
  of a block with an invalid proof never reach the tree.
* `CapeSolvent` (`Solvency`). In the middle of a call the contract is not
  solvent. `SolventInv` says by how much: a deposit in progress is queued before
  its tokens have come (`SolventButFor`), and a block in progress has spent
  inputs whose outputs are in `commitments` (`SolventWith`). Between calls
  neither is there, and a failing call goes back to a state that was solvent.
* `CapeEventsReplay` (`EventsReplayState`), `CapeImplementsLog`
  (`ImplementsCapeLog`), `CapeNeverSpendsTwice` (`NoDoubleSpend`). `LogInv`
  relates the log to the state: tree, height and registry agree with it always,
  queue and nullifiers between calls; a deposit in progress is queued and not yet
  announced; the notes of a block in progress are in the nullifiers and in no
  event; the log that a failing call restores is a prefix of the present one.
  The step simulation then maps the last step of each call to a step of `CapeLog`
  and all the others to stuttering.

`FaucetProofs` proves, for any keys, workers, `num_grants` above zero, `max_len`, requests and restarts
(`FaucetAssumption`), with the store working or failing:

* `FaucetLoadMatchesReplay` (`LoadMatchesReplay`): what `load` computes from the
  log is the index in memory, and the keys in the order of their latest requests;
* `FaucetGrantsBounded` (`GrantsBounded`): a key receives at most `num_grants`
  transfers for each accepted request, and one more for each restart;
* `FaucetKeysHeld`: no key is in two places, and none is lost while grants can be
  recorded (`KeysHeld`, of which `KeysHeldOnce` is the form that the run checks
  for its two instances); `FaucetTypesCorrect`.

`FaucetInv` adds that the latest entry of a key in the log is its entry in the
index, and that a key that is in the index has an open request in the log
(`IndexLogged`, without which nothing is known after a restart); that a worker
between `pop` and `grant` has a key of the index (`WorkersKeyed`); and it counts
transfers that are made and not yet recorded (`GrantsCounted`), which a restart
turns into transfers never recorded.

`ServiceProofs` proves `BookServesSignedKeys` (`KeysServedBySignature`) and
`BookKeepsAcknowledged` (`AcknowledgedKeysStay`) for any addresses and requests,
assuming only that names of addresses are not names of temporary files. `BookInv`
follows a key from the signature to the answer: only verified requests save, a
temporary file belongs to one request until it is renamed, a file of an address is
whole and written by an answered request for that address, and it is never older
than an acknowledged insert.

`ServiceProofs` proves `ServerOneWalletPerKeystore` (`OneWalletPerKeystore`)
and `ServerMintInfoPrivate` (`MintInfoStaysPrivate`) for any paths, mnemonics,
passwords, requests and faults. `ServerInv` adds where the one handle of an open
keystore is (in the server, or in a request that has closed the former wallet),
that keystores are created only where there is none, and that nobody holds an
asset that its creator has lost, which is what makes an update keep the secret.

`WalletProofs` proves `WalletStreamsFollow` (`StreamsFollowLedger`) for any
wallets, assets, operations, outages and restarts. `WalletInv` adds that the query
service is behind the ledger, never ahead, and that the events a stream has
fetched and the wallet has not handled are exactly those from the wallet's
position to the stream's (`StreamNext`): this is why a poll that comes only when
all are handled, and a restart that drops them, both go on at the right event.
That steps of operations, of other users and of the ledger disturb none of this
is proved once (`QuietStep`).

`ServiceProofs` proves `LibrariesKeepMatching` (`LibrariesMatchChain`) for any
specifications and keys, as long as a specification is a list
(`LibraryAssumption`). `LibraryInv` adds what a `generate` that is under way has
done: the assets it created are on the chain or were skipped, and the i-th has
the policy of the i-th entry (`CreatedAsSpecified`); the chain only grows. So it
does not matter when the command fails, nor what an update or a verification
reads in between.

`CapeBlockProofs` proves `CodecIsFaithful` (`CodecKeepsNotes`) for blocks of any
length. `Arranged` says which note is at which place of the array of its type,
by induction over the block; the decoder then returns at place i the note that
is as far from the end of its type as the i-th is from the start (`Mirror`).
Mirroring is its own inverse, so each note is returned as often as it occurs
(`DecodedPermuted`), and where a type has one note it changes nothing
(`DecodedSame`).

`EqsProofs` proves of the query service, for any events of the contract, any
numbers of blocks, confirmations and restarts (`EqsAssumption`):

* `BlocksTransactionsAreFound` (`BlockTransactionsFound`). `FoundInv` says of
  the state in memory and of the one on disk that the two transaction indexes
  agree, that identities are below the next block's, so that a block never
  overwrites one, and that the outputs of an indexed transaction are leaves from
  its `output_start` on (`FoundIn`); and that the events of the range and the
  pending wraps have the shape that the handlers expect.
* `ServedEventsStay` (`ServedEventsStable`), under `[]NoWaitLost`. A *replay* of
  a list of events is the sequence of states that the handlers go through from a
  new state (`IsReplay`). `ServInv` says that the state in memory is the h-th
  state of one replay of the events of the final blocks, the state on disk the
  m-th, and what was ever served the events of the k-th, with m <= h <= k
  (`Describes`); that every event of a block before `next_block_to_query` is
  among the first h; and that what is left of the range in progress is a slice of
  those events that starts no later than h (`InProgress`). A repeated event is
  recognised because indexes increase along the list (`SeenAre`); a
  reorganisation does not touch final blocks (`FinalContinues`); an event handled
  for the second time after a restart leads to the same state as the first time
  (`ReplayForward`). What a client got is the list of a later state of the same
  replay, and lists of events only grow along a replay (`ReplayGrows`).

  `NoWaitLost` says that no asset is sponsored and the faucet is not initialised
  while a deposit waits for its block, or that the service is never restarted.
  Without it the theorem is false: this is the finding of `eqs_lost_wrap`. The
  restarted state then lacks the waiting wraps and is no state of the replay
  (`PlacedRestart` is where the proof uses it). The first instance of the `eqs`
  run satisfies it by its constants, the second is never restarted.
* `PendingWrapsAreAll` (`AllPendingWraps`, the claim that the run `eqs_lost_wrap`
  refutes), under `[]NoWaitLost`: the wraps that the service is waiting with are
  the deposits announced and in no block. So what that finding describes is the
  only way to lose one. `ReplicaInv` adds to `ServInv` that every block of the
  chain lists the deposits that wait for it (`Listing`), which is what the
  contract guarantees and the guard of `NewBlock` says; along a replay the wraps
  are then the announced deposits, one by one (`Waiting`).
* `ReplicaKeepsMatching` (`ReplicaMatches`), under `[]NoWaitLost` and
  `[]PlainBlocks`: leaves, height, nullifiers and sponsored assets are those that
  the events handled so far amount to. Each handler keeps this (`Mirrors`), so it
  holds along a replay. The list that `Handled` selects from the chain is the
  first h events of the replay (`HandledAre`).

  `PlainBlocks` says that the notes of a block have different types and that it
  has no padding, as in the relayer's blocks of one note. Of other blocks the
  service inserts the leaves in the order of `into_cape_transactions`, which is
  the finding of `block_codec_order`, and none for padding.
* `HandlesOnlyConfirmed` (`OnlyConfirmed`), with no hypothesis. `ConfirmedInv`
  says that the events handled, stored and in progress are all in blocks that no
  reorganisation removes (`UpTo`). Handling others breaks `ReplicaMatches`, which
  the second instance of the run checks on a chain that is reorganised.

**Recursive functions.** The library's induction theorems cannot be used by the
provers, so `ListProofs` proves induction for sets of numbers
(`NatSetInduction`) and the existence of functions defined by recursion
(`NatRecursion`), from the well-foundedness of the natural numbers. From these
come the facts about `SumTo`, `FlattenSeq`, the replay of the log and `load`.

`FaucetInv`, `WalletInv` and the others were checked as invariants with
TLC on the instances of the runs before they were proved. They, `RootStoreInv`
and `TypeOK` are stated by theorems and checked by no run, since the theorems say
more. `ServInv` and `ReplicaInv` claim that a replay exists, which TLC cannot
evaluate; it checks what they are for.

**Only model-checked.** Liveness (`DepositsCredited`, `RequestsAnswered`,
`CatchesUpAfterCrashes`, `AcceptedAreServed`, `BreakerComesToRest`,
`OperationsReturn`, `DepositsArrive`), which is out of the prover's reach. The
parts whose modules have RECURSIVE operators or enumerate conversions and tables:
`UpdatesBuildTree`, `ConversionsKeepValues`, `RequestsReachHandlers`,
`WindowAsDocumented`. The properties of `MockNetwork` and `WalletAccounts`, whose
ledger is an abstraction shared with the runs and has no inductive invariant
yet.

## Not modelled

* Field and curve arithmetic, the Plonk verifier, Rescue and the transcript:
  out of TLC's reach. `CAPE` takes from them what an accepted proof establishes.
* Deployment scripts, connections to nodes, `faucet-shower`: run once, with no
  state that outlives them.
* The seahorse library, which is not in the repository: its event handling,
  record selection and command line appear as far as the code here relies on
  them, marked external.
* `bin/random-wallet.rs` and `cli_client.rs`, which drive wallets from outside;
  helpers of `testing.rs` that start real services; the unit tests.
* The description of the protocol in `doc/workflow`, which `model.rs` has
  replaced; HTML pages, logging, formatting.

## Plan

Done, in this order: `RootStore` with its proofs, `AssetRegistry` and `CAPE`,
`CapeLog`, `CapeBlock`, `Eqs`, `FaucetQueue`, `Relayer` with its proofs; then
`RecordsMerkleTree`, `CapeModel` and `MockNetwork`, `FaucetRecords`, `Wallet`,
`AddressBook`, `CapeTypes`, `ApiRoutes`, `WalletServer`, `WalletAccounts`,
`AssetLibrary`.

Then the proofs of `CAPE` (types and guard, backing, solvency, the log and its
refinement), `WalletServer`, `AddressBook`, `FaucetQueue` and `Wallet`, and those
of `AssetLibrary`, `CapeBlock` and `Eqs`.

What is left, in order of importance, are proofs:

1. `RootsOutliveTransactions` and `TokensBackRecords` of `MockNetwork`.
2. `BookCoversTransfers` of `WalletAccounts`.
