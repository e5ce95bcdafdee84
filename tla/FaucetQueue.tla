---------------------------- MODULE FaucetQueue ----------------------------
(***************************************************************************)
(* faucet/src/faucet.rs: the queue of requests for fee assets and the      *)
(* workers that serve it.  A request is an entry of the index, which is    *)
(* persistent, and a message on a channel, which is not: the channel is    *)
(* rebuilt from the persistent log of the index when the faucet starts.    *)
(*                                                                         *)
(* The index is behind a lock that push, grant and healthcheck take.  A    *)
(* worker keeps the wallet locked from before a transfer until it has      *)
(* recorded the grant or put the failed request back.                      *)
(***************************************************************************)
EXTENDS Integers, Sequences, FiniteSets, SequencesExt

CONSTANTS
    Keys,          \* public keys registered in the address book
    DefaultKey,    \* UserPubKey::default(), which healthcheck inserts
    Workers,
    None,          \* the entry that removes a key
    NoKey,         \* no key, no worker
    num_grants,
    max_len,
    StoreMayFail,  \* whether recording a grant may fail
    MaxRequests,   \* bound: accepted requests of a key
    MaxRestarts,   \* bound: restarts of the faucet
    MaxLog         \* bound: entries of the log before a health check

ASSUME FaucetAssumption ==
    /\ DefaultKey \notin Keys
    /\ None \notin Nat
    /\ NoKey \notin Keys \cup {DefaultKey} \cup Workers
    /\ num_grants \in Nat \ {0}
    /\ {max_len, MaxRequests, MaxRestarts, MaxLog} \subseteq Nat
    /\ StoreMayFail \in BOOLEAN

AllKeys == Keys \cup {DefaultKey}

VARIABLES
    index,         \* grants received by each key in the queue
    queue,         \* the persistent log: <<key, grants or None>>
    channel,       \* keys waiting for a worker
    sending,       \* keys that push has inserted and not yet sent
    worker,        \* what each worker does, and for which key
    wallet,        \* the worker that holds the wallet's lock, or NoKey
    serving,       \* FaucetStatus::Available, with the workers running
    checking,      \* healthcheck holds the index's lock, its key inserted
    accepted,      \* history: accepted requests of each key
    paid,          \* history: transfers to each key
    restarts

vars == <<index, queue, channel, sending, worker, wallet, serving, checking, accepted, paid,
          restarts>>

Idle == [at |-> "waiting", key |-> NoKey]

Init ==
    /\ index = << >>
    /\ queue = << >>
    /\ channel = << >>
    /\ sending = {}
    /\ worker = [w \in Workers |-> Idle]
    /\ wallet = NoKey
    /\ serving = FALSE
    /\ checking = FALSE
    /\ accepted = [k \in Keys |-> 0]
    /\ paid = [k \in Keys |-> 0]
    /\ restarts = 0

-----------------------------------------------------------------------------
(* FaucetQueueIndex.                                                       *)

\* persist_entry with Some(n), and the update of the map.
SetGrants(key, n) ==
    /\ queue' = Append(queue, <<key, n>>)
    /\ index' = [k \in DOMAIN index \cup {key} |-> IF k = key THEN n ELSE index[k]]

\* remove: persist_entry with None, and the update of the map.
RemoveKey(key) ==
    /\ queue' = Append(queue, <<key, None>>)
    /\ index' = [k \in DOMAIN index \ {key} |-> index[k]]

insert(key) ==
    IF key \in DOMAIN index THEN UNCHANGED <<index, queue>> ELSE SetGrants(key, 0)

-----------------------------------------------------------------------------
(* request_fee_assets: push, which sends after it has released the index.  *)
(* Requests of keys that are not in the address book are refused.          *)

check_service_available == serving

QueueFull == Cardinality(DOMAIN index) >= max_len

push(key) ==
    /\ ~checking
    /\ ~QueueFull
    /\ key \notin DOMAIN index
    /\ accepted[key] < MaxRequests
    /\ insert(key)
    /\ sending' = sending \cup {key}
    /\ accepted' = [accepted EXCEPT ![key] = @ + 1]
    /\ UNCHANGED <<channel, worker, wallet, serving, checking, paid, restarts>>

request_fee_assets(key) == check_service_available /\ key \in Keys /\ push(key)

send(key) ==
    /\ key \in sending
    /\ sending' = sending \ {key}
    /\ channel' = Append(channel, key)
    /\ UNCHANGED <<index, queue, worker, wallet, serving, checking, accepted, paid, restarts>>

(***************************************************************************)
(* healthcheck inserts the default key, unless it is there, and removes    *)
(* it, with the index locked; the process may die in between.              *)
(***************************************************************************)
healthcheckInserts ==
    /\ ~checking
    /\ Len(queue) < MaxLog
    /\ insert(DefaultKey)
    /\ checking' = TRUE
    /\ UNCHANGED <<channel, sending, worker, wallet, serving, accepted, paid, restarts>>

healthcheckRemoves ==
    /\ checking
    /\ RemoveKey(DefaultKey)
    /\ checking' = FALSE
    /\ UNCHANGED <<channel, sending, worker, wallet, serving, accepted, paid, restarts>>

-----------------------------------------------------------------------------
(* worker.                                                                 *)

At(w, place) == worker[w].at = place

Goes(w, place) == worker' = [worker EXCEPT ![w].at = place]

\* The end of a round of the worker's loop, which releases the wallet.
Waits(w) == worker' = [worker EXCEPT ![w] = Idle] /\ wallet' = NoKey

pop(w) ==
    /\ serving
    /\ At(w, "waiting")
    /\ channel # << >>
    /\ worker' = [worker EXCEPT ![w] = [at |-> "ready", key |-> Head(channel)]]
    /\ channel' = Tail(channel)
    /\ UNCHANGED <<index, queue, sending, wallet, serving, checking, accepted, paid, restarts>>

\* Once the balance suffices.
lockWallet(w) ==
    /\ At(w, "ready")
    /\ wallet = NoKey
    /\ wallet' = w
    /\ Goes(w, "transferring")
    /\ UNCHANGED <<index, queue, channel, sending, serving, checking, accepted, paid, restarts>>

transfer(w) ==
    /\ At(w, "transferring")
    /\ worker[w].key \in Keys
    /\ paid' = [paid EXCEPT ![worker[w].key] = @ + 1]
    /\ Goes(w, "paid")
    /\ UNCHANGED <<index, queue, channel, sending, wallet, serving, checking, accepted, restarts>>

\* PubkeyNotFound: the request is dropped.
transferFindsNoKey(w) ==
    /\ At(w, "transferring")
    /\ worker[w].key \notin Keys
    /\ ~checking
    /\ RemoveKey(worker[w].key)
    /\ Waits(w)
    /\ UNCHANGED <<channel, sending, serving, checking, accepted, paid, restarts>>

\* Mutant: the failed request is dropped.
dropped(key) == channel

resent(key) == Append(channel, key)

\* Any other error: fail, the request goes back to the end of the channel.
transferFails(w) ==
    /\ At(w, "transferring")
    /\ channel' = resent(worker[w].key)
    /\ Waits(w)
    /\ UNCHANGED <<index, queue, sending, serving, checking, accepted, paid, restarts>>

\* Mutant: off by one.
oneMoreGrant(grants_given) == grants_given > num_grants

lastGrant(grants_given) == grants_given >= num_grants

grant(w) ==
    LET key == worker[w].key
        grants_given == index[key] + 1
    IN  /\ At(w, "paid")
        /\ ~checking
        /\ \/ /\ lastGrant(grants_given)
              /\ RemoveKey(key)
              /\ Waits(w)
           \/ /\ ~lastGrant(grants_given)
              /\ SetGrants(key, grants_given)
              /\ Goes(w, "ready")
              /\ wallet' = NoKey
        /\ UNCHANGED <<channel, sending, serving, checking, accepted, paid, restarts>>

\* The grant cannot be recorded: the worker logs it and moves on.
grantFails(w) ==
    /\ StoreMayFail
    /\ At(w, "paid")
    /\ ~checking
    /\ Waits(w)
    /\ UNCHANGED <<index, queue, channel, sending, serving, checking, accepted, paid, restarts>>

-----------------------------------------------------------------------------
(* load: the log is read backwards.                                        *)

\* Mutant: the log is read forwards.
oldestFirst(entries) == entries

newestFirst(entries) == Reverse(entries)

\* Mutant: a key is queued again for an older request of its.
loadEveryRequest(loaded, entry) ==
    [index |-> IF entry[1] \in DOMAIN loaded.index THEN loaded.index
               ELSE [k \in DOMAIN loaded.index \cup {entry[1]} |->
                        IF k = entry[1] THEN entry[2] ELSE loaded.index[k]],
     processed |-> loaded.processed,
     queue |-> IF entry[2] = 0 THEN Append(loaded.queue, entry[1]) ELSE loaded.queue]

\* One round of the loop over the entries.
loadEntry(loaded, entry) ==
    LET key == entry[1]
        new == key \notin loaded.processed
    IN  [index |-> IF key \in DOMAIN loaded.index THEN loaded.index
                   ELSE [k \in DOMAIN loaded.index \cup {key} |->
                            IF k = key THEN entry[2] ELSE loaded.index[k]],
         processed |-> IF entry[2] \in {0, None} THEN loaded.processed \cup {key}
                       ELSE loaded.processed,
         queue |-> IF new /\ entry[2] = 0 THEN Append(loaded.queue, key)
                   ELSE loaded.queue]

load(entries) ==
    LET reading[n \in 0 .. Len(entries)] ==
          IF n = 0 THEN [index |-> << >>, processed |-> {}, queue |-> << >>]
          ELSE loadEntry(reading[n - 1], newestFirst(entries)[n])
        loaded == reading[Len(entries)]
        present == {k \in DOMAIN loaded.index : loaded.index[k] # None}
    IN  [index |-> [k \in present |-> loaded.index[k]], channel |-> Reverse(loaded.queue)]

\* The process dies, anywhere, and is started again with a new FaucetState.
restart ==
    /\ restarts < MaxRestarts
    /\ restarts' = restarts + 1
    /\ index' = load(queue).index
    /\ channel' = load(queue).channel
    /\ sending' = {}
    /\ worker' = [w \in Workers |-> Idle]
    /\ wallet' = NoKey
    /\ serving' = FALSE
    /\ checking' = FALSE
    /\ UNCHANGED <<queue, accepted, paid>>

\* The end of init_web_server; health checks are answered before.
startWorkers ==
    /\ ~serving
    /\ serving' = TRUE
    /\ UNCHANGED <<index, queue, channel, sending, worker, wallet, checking, accepted, paid,
                   restarts>>

-----------------------------------------------------------------------------
Step(w) ==
    \/ pop(w)
    \/ lockWallet(w)
    \/ transfer(w)
    \/ transferFindsNoKey(w)
    \/ transferFails(w)
    \/ grant(w)
    \/ grantFails(w)

Next ==
    \/ \E k \in Keys : request_fee_assets(k) \/ send(k)
    \/ healthcheckInserts
    \/ healthcheckRemoves
    \/ \E w \in Workers : Step(w)
    \/ startWorkers
    \/ restart

Spec == Init /\ [][Next]_vars

(***************************************************************************)
(* The locks are fair (async_std's mutexes are), tasks that can run do,    *)
(* and a transfer that is tried for ever succeeds in the end.              *)
(***************************************************************************)
Fairness ==
    /\ \A k \in Keys : WF_vars(send(k))
    /\ WF_vars(healthcheckRemoves)
    /\ WF_vars(startWorkers)
    /\ \A w \in Workers :
          /\ WF_vars(pop(w))
          /\ SF_vars(lockWallet(w))
          /\ WF_vars(transfer(w) \/ transferFindsNoKey(w) \/ transferFails(w))
          /\ SF_vars(transfer(w))
          /\ SF_vars(grant(w))

FairSpec == Spec /\ Fairness

-----------------------------------------------------------------------------
TypeOK ==
    /\ DOMAIN index \subseteq AllKeys
    /\ \A k \in DOMAIN index : index[k] \in 0 .. num_grants - 1
    /\ queue \in Seq(AllKeys \X ((0 .. num_grants - 1) \cup {None}))
    /\ channel \in Seq(AllKeys)
    /\ sending \subseteq Keys
    /\ worker \in [Workers -> [at : {"waiting", "ready", "transferring", "paid"},
                               key : AllKeys \cup {NoKey}]]
    /\ wallet \in Workers \cup {NoKey}
    /\ {serving, checking} \subseteq BOOLEAN
    /\ accepted \in [Keys -> 0 .. MaxRequests]
    /\ paid \in [Keys -> Nat]
    /\ restarts \in 0 .. MaxRestarts

-----------------------------------------------------------------------------
(***************************************************************************)
(* A key receives num_grants transfers for each request, and at most one   *)
(* more for each time the faucet died between a transfer and the record    *)
(* of it, whatever the workers do at the same time (faucet.rs worker,      *)
(* grant).                                                                 *)
(***************************************************************************)
GrantsBounded ==
    \A k \in Keys : paid[k] <= num_grants * accepted[k] + restarts

\* The places where a key is waiting or being served.
Places(key) ==
    {<<"channel", i>> : i \in {j \in DOMAIN channel : channel[j] = key}}
      \cup {<<"sending", k>> : k \in sending \cap {key}}
      \cup {<<"worker", w>> : w \in {v \in Workers : worker[v].key = key}}

(***************************************************************************)
(* The index and the channel agree: a key of the index waits or is served  *)
(* in exactly one place, and nothing else is.  A key that were nowhere     *)
(* would never be served and could never ask again (AlreadyInQueue); one   *)
(* in two places would be served twice at a time.                          *)
(***************************************************************************)
IndexedKeysHeld ==
    \A k \in Keys : Cardinality(Places(k)) = IF k \in DOMAIN index THEN 1 ELSE 0

(***************************************************************************)
(* While the store works.  When a grant could not be recorded              *)
(* (faucet.rs:453) its key may be nowhere until the next restart, and      *)
(* still no key is in two places, or outside of the index.                 *)
(***************************************************************************)
KeysHeld ==
    /\ ~StoreMayFail => IndexedKeysHeld
    /\ \A k \in Keys : Cardinality(Places(k)) <= IF k \in DOMAIN index THEN 1 ELSE 0

(***************************************************************************)
(* What load recovers is what the comment at faucet.rs:266-276 says: the   *)
(* entries replayed in order give the index as it is in memory, and the    *)
(* channel has the keys in the order of their latest Some(0) entries.      *)
(***************************************************************************)
LoadMatchesReplay ==
    LET latest(k) == CHOOSE i \in DOMAIN queue :
                        queue[i][1] = k /\ \A j \in DOMAIN queue : queue[j][1] = k => j <= i
        requested(k) == CHOOSE i \in DOMAIN queue :
                          queue[i] = <<k, 0>> /\ \A j \in DOMAIN queue : queue[j] = <<k, 0>> => j <= i
        loaded == load(queue)
    IN  /\ loaded.index = index
        /\ \A k \in DOMAIN index : index[k] = queue[latest(k)][2]
        /\ ToSet(loaded.channel) = DOMAIN index
        /\ \A i, j \in DOMAIN loaded.channel :
              i < j => requested(loaded.channel[i]) < requested(loaded.channel[j])

(***************************************************************************)
(* Every accepted request receives all its grants in the end, through      *)
(* failed transfers and restarts.                                          *)
(***************************************************************************)
RequestsServed ==
    \A k \in Keys : \A n \in 1 .. MaxRequests :
        (accepted[k] >= n) ~> (paid[k] >= n * num_grants)
=============================================================================
