---------------------------- MODULE WalletProofs ----------------------------
(***************************************************************************)
(* For any number of wallets, operations, outages and restarts: a wallet   *)
(* follows the ledger exactly.                                             *)
(***************************************************************************)
EXTENDS Wallet, ListProofs, FiniteSetTheorems

-----------------------------------------------------------------------------
(* The inductive invariant.                                                *)

Records == [owner : Wallets \cup {"other"}, op : Nat]

LedgerEvents == [event : {"Commit", "Memos"}, outputs : Seq(Records)]

AssetNames == Assets \cup {"none"}

Calls == {"sponsor", "approve", "deposit"}

Points ==
    Calls \cup {"closed", "create", "idle", "submit_sponsor", "wait_for_wrapped_erc20_code",
                "submit_wrap", "wrap_erc20"}

Transactions == [wallet : Wallets, call : Calls, asset : AssetNames, record : Records]

WalletStates ==
    [pc : Points, asset : AssetNames, receipt : {"none", "reverted", "mined"},
     answer : {"none", "error", "sponsored", "unknown"}, wrapped : SUBSET Nat,
     tries : Nat, from : Nat, now : Nat, validator : [now : Nat, num_records : Nat],
     seen : Seq(LedgerEvents)]

WalletTypes ==
    /\ contract \in [queue : Seq(Records), sponsored : SUBSET AssetNames,
                     events : Seq(LedgerEvents)]
    /\ pool \subseteq Transactions
    /\ eqs \in [up : BOOLEAN, time : Nat, sponsored : SUBSET AssetNames]
    /\ wal \in [Wallets -> WalletStates]
    /\ stream \in [Wallets -> [from : Nat, events : Seq(LedgerEvents)]]
    /\ scan \in [Wallets -> [from : Nat, to : Nat, seen : Seq(LedgerEvents)]]
    /\ ops \in [Wallets -> Nat]
    /\ others \in Nat

\* The events after the m-th, up to the n-th.
Between(m, n) == SubSeq(contract.events, m + 1, n)

\* The query service reports no event that is not on the ledger.
EqsBehind == eqs.time <= Len(contract.events)

\* What the stream has fetched and the wallet has not handled comes next.
StreamNext(w) ==
    /\ wal[w].from <= wal[w].now
    /\ wal[w].now <= stream[w].from
    /\ stream[w].from <= eqs.time
    /\ stream[w].events = Between(wal[w].now, stream[w].from)

\* What the wallet has handled, and the state of its validator.
Followed(w) ==
    /\ eventsUpTo(wal[w].from) \o wal[w].seen = eventsUpTo(wal[w].now)
    /\ wal[w].validator = [now |-> blockCount(eventsUpTo(wal[w].now)),
                           num_records |-> outputCount(eventsUpTo(wal[w].now))]

ScanExact(w) ==
    /\ scan[w].seen = eventsUpTo(scan[w].from)
    /\ scan[w].from <= scan[w].to
    /\ scan[w].to <= eqs.time

WalletInv ==
    /\ WalletTypes
    /\ EqsBehind
    /\ \A w \in Wallets : opened(w) => StreamNext(w) /\ Followed(w)
    /\ \A w \in Wallets : ScanExact(w)

-----------------------------------------------------------------------------
(* Lists of events.                                                        *)

\* A part of a list.
LEMMA PartOfList ==
    ASSUME NEW S, NEW s \in Seq(S), NEW m \in Nat, NEW n \in Nat, m <= n, n <= Len(s)
    PROVE  /\ SubSeq(s, m + 1, n) \in Seq(S)
           /\ Len(SubSeq(s, m + 1, n)) = n - m
           /\ \A i \in 1 .. n - m : SubSeq(s, m + 1, n)[i] = s[m + i]
OBVIOUS

\* Lists with the same elements are the same.
LEMMA SameList ==
    ASSUME NEW S, NEW s \in Seq(S), NEW t \in Seq(S), Len(s) = Len(t),
           \A i \in 1 .. Len(s) : s[i] = t[i]
    PROVE  s = t
OBVIOUS

\* A list that has grown has the same parts.
LEMMA SamePart ==
    ASSUME NEW S, NEW s \in Seq(S), NEW t \in Seq(S), Len(s) <= Len(t),
           \A i \in 1 .. Len(s) : t[i] = s[i],
           NEW m \in Nat, NEW n \in Nat, m <= n, n <= Len(s)
    PROVE  SubSeq(t, m + 1, n) = SubSeq(s, m + 1, n)
<1>1. /\ SubSeq(s, m + 1, n) \in Seq(S) /\ Len(SubSeq(s, m + 1, n)) = n - m
      /\ \A i \in 1 .. n - m : SubSeq(s, m + 1, n)[i] = s[m + i]
    BY PartOfList
<1>2. n <= Len(t)
    OBVIOUS
<1>3. /\ SubSeq(t, m + 1, n) \in Seq(S) /\ Len(SubSeq(t, m + 1, n)) = n - m
      /\ \A i \in 1 .. n - m : SubSeq(t, m + 1, n)[i] = t[m + i]
    BY <1>2, PartOfList
<1>4. \A i \in 1 .. n - m : s[m + i] = t[m + i]
    OBVIOUS
<1> QED
    BY <1>1, <1>3, <1>4, SameList

\* The first n + 1 elements are the first n and one more.
LEMMA OneMore ==
    ASSUME NEW S, NEW s \in Seq(S), NEW n \in Nat, n + 1 <= Len(s)
    PROVE  SubSeq(s, 1, n + 1) = Append(SubSeq(s, 1, n), s[n + 1])
<1>1. /\ SubSeq(s, 1, n) \in Seq(S) /\ Len(SubSeq(s, 1, n)) = n
      /\ \A i \in 1 .. n : SubSeq(s, 1, n)[i] = s[i]
    OBVIOUS
<1>2. /\ SubSeq(s, 1, n + 1) \in Seq(S) /\ Len(SubSeq(s, 1, n + 1)) = n + 1
      /\ \A i \in 1 .. n + 1 : SubSeq(s, 1, n + 1)[i] = s[i]
    OBVIOUS
<1>3. s[n + 1] \in S
    OBVIOUS
<1>4. /\ Append(SubSeq(s, 1, n), s[n + 1]) \in Seq(S)
      /\ Len(Append(SubSeq(s, 1, n), s[n + 1])) = n + 1
      /\ \A i \in 1 .. n + 1 : Append(SubSeq(s, 1, n), s[n + 1])[i] = s[i]
    BY <1>1, <1>3
<1> QED
    BY <1>2, <1>4, SameList

\* Two parts in a row.
LEMMA TwoParts ==
    ASSUME NEW S, NEW s \in Seq(S), NEW m \in Nat, NEW n \in Nat, m <= n, n <= Len(s)
    PROVE  SubSeq(s, 1, m) \o SubSeq(s, m + 1, n) = SubSeq(s, 1, n)
<1>1. /\ SubSeq(s, 1, m) \in Seq(S) /\ Len(SubSeq(s, 1, m)) = m
      /\ \A i \in 1 .. m : SubSeq(s, 1, m)[i] = s[i]
    OBVIOUS
<1>2. /\ SubSeq(s, 1, n) \in Seq(S) /\ Len(SubSeq(s, 1, n)) = n
      /\ \A i \in 1 .. n : SubSeq(s, 1, n)[i] = s[i]
    OBVIOUS
<1>3. /\ SubSeq(s, m + 1, n) \in Seq(S) /\ Len(SubSeq(s, m + 1, n)) = n - m
      /\ \A i \in 1 .. n - m : SubSeq(s, m + 1, n)[i] = s[m + i]
    BY PartOfList
<1> DEFINE a == SubSeq(s, 1, m)
           b == SubSeq(s, m + 1, n)
<1>4. /\ a \o b \in Seq(S) /\ Len(a \o b) = n
      /\ \A i \in 1 .. n : (a \o b)[i] = IF i <= m THEN a[i] ELSE b[i - m]
    BY <1>1, <1>3
<1>5. \A i \in 1 .. n : (a \o b)[i] = s[i]
  <2> TAKE i \in 1 .. n
  <2>1. CASE i <= m
      BY <1>1, <1>4, <2>1
  <2>2. CASE i > m
    <3>1. i - m \in 1 .. n - m /\ m + (i - m) = i
        BY <2>2
    <3>2. b[i - m] = s[i]
        BY <1>3, <3>1
    <3> QED
        BY <1>4, <2>2, <3>2
  <2> QED
      BY <2>1, <2>2
<1> QED
    BY <1>2, <1>4, <1>5, SameList

\* Appending to the second of two lists.
LEMMA AppendSecond ==
    ASSUME NEW S, NEW a \in Seq(S), NEW b \in Seq(S), NEW e \in S
    PROVE  a \o Append(b, e) = Append(a \o b, e)
OBVIOUS

\* The number of blocks among the events and one more.
LEMMA BlockCountAppend ==
    ASSUME NEW l \in Seq(LedgerEvents), NEW e \in LedgerEvents
    PROVE  /\ blockCount(l) \in Nat
           /\ blockCount(Append(l, e)) = blockCount(l) + blockCount(<<e>>)
<1> DEFINE n == Len(l) + 1
           B == {i \in DOMAIN l : l[i].event = "Commit"}
           A == {i \in DOMAIN Append(l, e) : Append(l, e)[i].event = "Commit"}
           One == {i \in DOMAIN <<e>> : <<e>>[i].event = "Commit"}
<1>1. IsFiniteSet(B)
  <2>1. IsFiniteSet(1 .. Len(l)) /\ B \subseteq 1 .. Len(l)
      BY FS_Interval
  <2> QED
      BY <2>1, FS_Subset
<1>2. /\ DOMAIN Append(l, e) = DOMAIN l \cup {n} /\ n \notin DOMAIN l
      /\ Append(l, e)[n] = e /\ \A i \in DOMAIN l : Append(l, e)[i] = l[i]
    OBVIOUS
<1>3. Cardinality(B) \in Nat
    BY <1>1, FS_CardinalityType
<1>4. CASE e.event = "Commit"
  <2>1. A = B \cup {n} /\ n \notin B
      BY <1>2, <1>4
  <2>2. One = {1}
      BY <1>4
  <2>3. Cardinality(A) = Cardinality(B) + 1
      BY <1>1, <2>1, FS_AddElement
  <2>4. Cardinality(One) = 1
      BY <2>2, FS_Singleton
  <2> QED
      BY <1>3, <2>3, <2>4 DEF blockCount
<1>5. CASE e.event # "Commit"
  <2>1. A = B
      BY <1>2, <1>5
  <2>2. One = {}
      BY <1>5
  <2>3. Cardinality(One) = 0
      BY <2>2, FS_EmptySet
  <2> HIDE DEF A, B, One
  <2>4. Cardinality(A) = Cardinality(B) + Cardinality(One)
      BY <1>3, <2>1, <2>3
  <2> QED
      BY <1>3, <2>4 DEF blockCount, A, B, One
<1> QED
    BY <1>4, <1>5

\* The number of records that the events and one more create.
LEMMA OutputCountAppend ==
    ASSUME NEW l \in Seq(LedgerEvents), NEW e \in LedgerEvents
    PROVE  /\ outputCount(l) \in Nat
           /\ outputCount(Append(l, e)) = outputCount(l) + Len(e.outputs)
<1> DEFINE n == Len(l)
           r == Append(l, e)
           f == [i \in DOMAIN l |-> Len(l[i].outputs)]
           g == [i \in DOMAIN r |-> Len(r[i].outputs)]
<1>1. /\ n \in Nat /\ DOMAIN l = 1 .. n /\ DOMAIN r = 1 .. n + 1 /\ Len(r) = n + 1
      /\ r[n + 1] = e /\ \A i \in 1 .. n : r[i] = l[i] /\ l[i] \in LedgerEvents
    OBVIOUS
<1>2. \A x \in LedgerEvents : Len(x.outputs) \in Nat
    BY DEF LedgerEvents
<1> HIDE DEF n, r
<1>3. \A i \in 1 .. n : f[i] \in Nat /\ f[i] = g[i]
    BY <1>1, <1>2
<1>4. g[n + 1] = Len(e.outputs) /\ \A i \in 1 .. n + 1 : g[i] \in Nat
    BY <1>1, <1>2
<1>5. SumTo(f, n) \in Nat
  <2> HIDE DEF f, g
  <2> QED
      BY <1>1, <1>3, SumType
<1>6. SumTo(g, n + 1) = SumTo(f, n) + Len(e.outputs)
  <2> HIDE DEF f, g
  <2>1. SumTo(g, n + 1) = SumTo(g, n) + g[n + 1]
      BY <1>1, <1>4, SumStep
  <2>2. SumTo(f, n) = SumTo(g, n)
      BY <1>1, <1>3, SumEqual
  <2> QED
      BY <1>4, <2>1, <2>2
<1> QED
    BY <1>1, <1>5, <1>6 DEF outputCount, r, n

-----------------------------------------------------------------------------
(* Steps that leave the wallets' positions alone.                          *)

\* The ledger and what the query service knows of it only grow.
LedgerGrows ==
    /\ Len(contract.events) <= Len(contract'.events)
    /\ \A i \in 1 .. Len(contract.events) : contract'.events[i] = contract.events[i]
    /\ eqs.time <= eqs'.time

\* A wallet is at the same position of the ledger.
WalletStays(w) ==
    /\ opened(w)' <=> opened(w)
    /\ wal'[w].from = wal[w].from /\ wal'[w].now = wal[w].now
    /\ wal'[w].validator = wal[w].validator /\ wal'[w].seen = wal[w].seen

WalletsStay == \A w \in Wallets : WalletStays(w)

\* Types of the parts of the state.
LEMMA PartTypes ==
    ASSUME WalletTypes
    PROVE  /\ contract.events \in Seq(LedgerEvents) /\ contract.queue \in Seq(Records)
           /\ contract.sponsored \subseteq AssetNames /\ Len(contract.events) \in Nat
           /\ eqs.time \in Nat /\ eqs.sponsored \subseteq AssetNames
           /\ \A w \in Wallets :
                 /\ wal[w] \in WalletStates
                 /\ wal[w].from \in Nat /\ wal[w].now \in Nat
                 /\ wal[w].seen \in Seq(LedgerEvents)
                 /\ wal[w].asset \in AssetNames
                 /\ stream[w].from \in Nat /\ stream[w].events \in Seq(LedgerEvents)
                 /\ scan[w].from \in Nat /\ scan[w].to \in Nat
                 /\ scan[w].seen \in Seq(LedgerEvents)
                 /\ ops[w] \in Nat
BY DEF WalletTypes, WalletStates

\* Parts of the ledger that the query service knows do not change.
LEMMA PartsStay ==
    ASSUME WalletTypes, WalletTypes', EqsBehind, LedgerGrows,
           NEW m \in Nat, NEW n \in Nat, m <= n, n <= eqs.time
    PROVE  Between(m, n)' = Between(m, n) /\ eventsUpTo(n)' = eventsUpTo(n)
<1>1. /\ contract.events \in Seq(LedgerEvents) /\ contract'.events \in Seq(LedgerEvents)
      /\ eqs.time \in Nat /\ n <= Len(contract.events)
  <2>1. contract.events \in Seq(LedgerEvents) /\ eqs.time \in Nat /\ Len(contract.events) \in Nat
      BY PartTypes
  <2>2. contract'.events \in Seq(LedgerEvents)
      BY DEF WalletTypes
  <2> QED
      BY <2>1, <2>2 DEF EqsBehind
<1>2. Len(contract.events) <= Len(contract'.events)
         /\ \A i \in 1 .. Len(contract.events) : contract'.events[i] = contract.events[i]
    BY DEF LedgerGrows
<1>3. SubSeq(contract'.events, m + 1, n) = SubSeq(contract.events, m + 1, n)
    BY <1>1, <1>2, SamePart
<1>4. SubSeq(contract'.events, 0 + 1, n) = SubSeq(contract.events, 0 + 1, n)
    BY <1>1, <1>2, SamePart
<1> QED
    BY <1>3, <1>4 DEF Between, eventsUpTo

\* A wallet that stays, with its stream, still follows a ledger that grows.
LEMMA StreamsStay ==
    ASSUME WalletInv, WalletTypes', LedgerGrows, NEW w \in Wallets, WalletStays(w),
           stream'[w] = stream[w], opened(w)'
    PROVE  StreamNext(w)' /\ Followed(w)'
<1>1. WalletTypes /\ EqsBehind /\ StreamNext(w) /\ Followed(w)
    BY DEF WalletInv, WalletStays
<1>2. /\ wal[w].from \in Nat /\ wal[w].now \in Nat /\ stream[w].from \in Nat
      /\ eqs.time \in Nat /\ eqs'.time \in Nat
    BY <1>1, PartTypes DEF WalletTypes
<1>3. /\ wal[w].from <= wal[w].now /\ wal[w].now <= stream[w].from
      /\ stream[w].from <= eqs.time /\ wal[w].now <= eqs.time /\ wal[w].from <= eqs.time
    BY <1>1, <1>2 DEF StreamNext
<1>4. /\ Between(wal[w].now, stream[w].from)' = Between(wal[w].now, stream[w].from)
      /\ eventsUpTo(wal[w].now)' = eventsUpTo(wal[w].now)
      /\ eventsUpTo(wal[w].from)' = eventsUpTo(wal[w].from)
  <2>1. /\ wal'[w].from = wal[w].from /\ wal'[w].now = wal[w].now
        /\ stream'[w].from = stream[w].from
      BY DEF WalletStays
  <2>2. \A m, n \in Nat : m <= n /\ n <= eqs.time =>
            SubSeq(contract'.events, m + 1, n) = Between(m, n)
      BY <1>1, PartsStay DEF Between
  <2>2a. \A n \in Nat : n <= eqs.time => SubSeq(contract'.events, 1, n) = eventsUpTo(n)
    <3> SUFFICES ASSUME NEW n \in Nat, n <= eqs.time
                 PROVE  SubSeq(contract'.events, 1, n) = eventsUpTo(n)
        OBVIOUS
    <3>1. n <= n
        OBVIOUS
    <3> QED
        BY <1>1, <3>1, PartsStay DEF eventsUpTo
  <2>3. /\ SubSeq(contract'.events, wal[w].now + 1, stream[w].from)
             = Between(wal[w].now, stream[w].from)
        /\ SubSeq(contract'.events, 1, wal[w].now) = eventsUpTo(wal[w].now)
        /\ SubSeq(contract'.events, 1, wal[w].from) = eventsUpTo(wal[w].from)
      BY <1>2, <1>3, <2>2, <2>2a
  <2> QED
      BY <2>1, <2>3 DEF Between, eventsUpTo
<1>5. StreamNext(w)'
    BY <1>1, <1>2, <1>3, <1>4 DEF StreamNext, WalletStays, LedgerGrows
<1>6. Followed(w)'
    BY <1>1, <1>4 DEF Followed, WalletStays
<1> QED
    BY <1>5, <1>6

\* So does a scan that stays.
LEMMA ScansStay ==
    ASSUME WalletInv, WalletTypes', LedgerGrows, NEW w \in Wallets, scan'[w] = scan[w]
    PROVE  ScanExact(w)'
<1>1. WalletTypes /\ EqsBehind /\ ScanExact(w)
    BY DEF WalletInv
<1>2. scan[w].from \in Nat /\ scan[w].to \in Nat /\ eqs.time \in Nat /\ eqs'.time \in Nat
    BY <1>1, PartTypes DEF WalletTypes
<1>3. scan[w].from <= scan[w].to /\ scan[w].to <= eqs.time /\ scan[w].from <= eqs.time
    BY <1>1, <1>2 DEF ScanExact
<1>4. SubSeq(contract'.events, 1, scan[w].from) = eventsUpTo(scan[w].from)
    BY <1>1, <1>2, <1>3, PartsStay DEF eventsUpTo
<1> QED
    BY <1>1, <1>2, <1>3, <1>4 DEF ScanExact, LedgerGrows, eventsUpTo

\* A step of the node, the contract or an operation of a wallet.
LEMMA QuietStep ==
    ASSUME WalletInv, WalletTypes', EqsBehind', LedgerGrows, WalletsStay,
           UNCHANGED <<stream, scan>>
    PROVE  WalletInv'
BY StreamsStay, ScansStay DEF WalletInv, WalletsStay

-----------------------------------------------------------------------------
(* The node, the contract and the query service.                           *)

\* The states of the contract.
Contracts == [queue : Seq(Records), sponsored : SUBSET AssetNames, events : Seq(LedgerEvents)]

\* One part of the contract's state changes, or the queue and the events do.
LEMMA ContractMoves ==
    ASSUME NEW Q, NEW A, NEW E, NEW c \in [queue : Q, sponsored : A, events : E],
           NEW q \in Q, NEW S \in A, NEW l \in E
    PROVE  /\ [c EXCEPT !.queue = q] \in [queue : Q, sponsored : A, events : E]
           /\ [c EXCEPT !.queue = q].events = c.events
           /\ [c EXCEPT !.sponsored = S] \in [queue : Q, sponsored : A, events : E]
           /\ [c EXCEPT !.sponsored = S].events = c.events
           /\ [c EXCEPT !.queue = q, !.events = l] \in [queue : Q, sponsored : A, events : E]
           /\ [c EXCEPT !.queue = q, !.events = l].events = l
OBVIOUS

\* Only the queue changes.
LEMMA QueueMoves ==
    ASSUME NEW c \in Contracts, NEW q \in Seq(Records)
    PROVE  [c EXCEPT !.queue = q] \in Contracts /\ [c EXCEPT !.queue = q].events = c.events
<1>1. c.sponsored \in SUBSET AssetNames /\ c.events \in Seq(LedgerEvents)
    BY DEF Contracts
<1> QED
    BY <1>1, ContractMoves DEF Contracts

\* Only the sponsored assets change.
LEMMA SponsoredMoves ==
    ASSUME NEW c \in Contracts, NEW S \in SUBSET AssetNames
    PROVE  [c EXCEPT !.sponsored = S] \in Contracts /\ [c EXCEPT !.sponsored = S].events = c.events
<1>1. c.queue \in Seq(Records) /\ c.events \in Seq(LedgerEvents)
    BY DEF Contracts
<1> QED
    BY <1>1, ContractMoves DEF Contracts

\* A block takes the queue and adds events.
LEMMA LedgerMoves ==
    ASSUME NEW c \in Contracts, NEW l \in Seq(LedgerEvents)
    PROVE  /\ [c EXCEPT !.queue = <<>>, !.events = l] \in Contracts
           /\ [c EXCEPT !.queue = <<>>, !.events = l].events = l
<1>1. c.sponsored \in SUBSET AssetNames /\ <<>> \in Seq(Records)
    BY DEF Contracts
<1> QED
    BY <1>1, ContractMoves DEF Contracts

\* Steps that add no event.
LEMMA SameLedger ==
    ASSUME WalletTypes, contract'.events = contract.events, eqs'.time = eqs.time
    PROVE  LedgerGrows /\ (EqsBehind => EqsBehind')
<1>1. Len(contract.events) \in Nat /\ eqs.time \in Nat
    BY PartTypes
<1> QED
    BY <1>1 DEF LedgerGrows, EqsBehind

\* Steps that change no wallet.
LEMMA SameWallets == ASSUME UNCHANGED wal PROVE WalletsStay
BY DEF WalletsStay, WalletStays, opened

\* A transaction is mined: queue, assets or receipt change, and no event comes.
LEMMA MineStep ==
    ASSUME WalletInv, NEW tx \in pool, mine(tx) PROVE WalletInv'
<1>0. WalletTypes /\ EqsBehind
    BY DEF WalletInv
<1>1. tx \in Transactions
    BY <1>0 DEF WalletTypes
<1>2. /\ pool' = pool \ {tx} /\ UNCHANGED <<eqs, stream, scan, ops, others>>
      /\ wal' = IF awaits(tx) THEN [wal EXCEPT ![tx.wallet].receipt = outcome(tx)] ELSE wal
    BY DEF mine, bounds
<1>3. contract' \in Contracts /\ contract'.events = contract.events
  <2>0. contract \in Contracts /\ contract.sponsored \subseteq AssetNames
      BY <1>0 DEF WalletTypes, Contracts
  <2>1. \/ UNCHANGED contract
        \/ contract' = [contract EXCEPT !.sponsored = contract.sponsored \cup {tx.asset}]
        \/ contract' = [contract EXCEPT !.queue = Append(contract.queue, tx.record)]
      BY <1>1 DEF mine, Transactions, Calls
  <2>2. tx.asset \in AssetNames /\ tx.record \in Records
      BY <1>1 DEF Transactions
  <2>3. contract.sponsored \cup {tx.asset} \in SUBSET AssetNames
      BY <2>0, <2>2
  <2>4. Append(contract.queue, tx.record) \in Seq(Records)
      BY <2>0, <2>2 DEF Contracts
  <2>5. CASE UNCHANGED contract
      BY <2>0, <2>5
  <2>6. CASE contract' = [contract EXCEPT !.sponsored = contract.sponsored \cup {tx.asset}]
      BY <2>0, <2>3, <2>6, SponsoredMoves
  <2>7. CASE contract' = [contract EXCEPT !.queue = Append(contract.queue, tx.record)]
      BY <2>0, <2>4, <2>7, QueueMoves
  <2> QED
      BY <2>1, <2>5, <2>6, <2>7
<1>4. wal' \in [Wallets -> WalletStates] /\ WalletsStay
  <2>1. tx.wallet \in Wallets /\ outcome(tx) \in {"none", "reverted", "mined"}
      BY <1>1 DEF Transactions, outcome
  <2>2. wal \in [Wallets -> WalletStates]
      BY <1>0 DEF WalletTypes
  <2>3. CASE awaits(tx)
    <3>1. wal' = [wal EXCEPT ![tx.wallet].receipt = outcome(tx)]
        BY <1>2, <2>3
    <3>2. \A v \in Wallets : wal'[v] = IF v = tx.wallet THEN [wal[v] EXCEPT !.receipt = outcome(tx)]
                                       ELSE wal[v]
        BY <2>2, <3>1
    <3>3. \A x \in WalletStates : LET y == [x EXCEPT !.receipt = outcome(tx)] IN
             /\ y \in WalletStates /\ y.pc = x.pc /\ y.from = x.from /\ y.now = x.now
             /\ y.validator = x.validator /\ y.seen = x.seen
        BY <2>1 DEF WalletStates
    <3>4. \A v \in Wallets : /\ wal'[v] \in WalletStates /\ wal'[v].pc = wal[v].pc
                             /\ wal'[v].from = wal[v].from /\ wal'[v].now = wal[v].now
                             /\ wal'[v].validator = wal[v].validator
                             /\ wal'[v].seen = wal[v].seen
        BY <2>2, <3>2, <3>3
    <3>5. wal' \in [Wallets -> WalletStates]
        BY <2>2, <3>1, <3>4
    <3> QED
        BY <3>4, <3>5 DEF WalletsStay, WalletStays, opened
  <2>4. CASE ~awaits(tx)
      BY <1>2, <2>2, <2>4, SameWallets
  <2> QED
      BY <2>3, <2>4
<1>5. WalletTypes'
    BY <1>0, <1>2, <1>3, <1>4 DEF WalletTypes, Contracts
<1> QED
    BY <1>0, <1>2, <1>3, <1>4, <1>5, SameLedger, QuietStep

\* An empty block adds one event.
LEMMA EmptyBlockStep ==
    ASSUME WalletInv, emptyBlock PROVE WalletInv'
<1>0. WalletTypes /\ EqsBehind
    BY DEF WalletInv
<1> DEFINE l == Append(contract.events, CommitEvent(contract.queue))
<1>1. /\ contract' = [contract EXCEPT !.queue = <<>>, !.events = l]
      /\ UNCHANGED <<pool, eqs, wal, stream, scan, ops, others>>
    BY DEF emptyBlock, bounds
<1>2. /\ contract \in Contracts
      /\ contract.events \in Seq(LedgerEvents) /\ contract.queue \in Seq(Records)
      /\ Len(contract.events) \in Nat /\ eqs.time \in Nat
    BY <1>0, PartTypes DEF WalletTypes, Contracts
<1>3. CommitEvent(contract.queue) \in LedgerEvents
    BY <1>2 DEF CommitEvent, LedgerEvents
<1>4. l \in Seq(LedgerEvents) /\ contract' \in Contracts /\ contract'.events = l
  <2>1. l \in Seq(LedgerEvents)
      BY <1>2, <1>3
  <2> HIDE DEF l
  <2> QED
      BY <1>1, <1>2, <2>1, LedgerMoves
<1>5. /\ contract'.events \in Seq(LedgerEvents)
      /\ Len(contract'.events) = Len(contract.events) + 1
      /\ \A i \in 1 .. Len(contract.events) : contract'.events[i] = contract.events[i]
    BY <1>2, <1>3, <1>4
<1>6. WalletTypes'
    BY <1>0, <1>1, <1>4 DEF WalletTypes, Contracts
<1>7. LedgerGrows /\ EqsBehind'
    BY <1>0, <1>1, <1>2, <1>5 DEF LedgerGrows, EqsBehind
<1> QED
    BY <1>1, <1>6, <1>7, SameWallets, QuietStep

\* Another user deposits or sponsors.
LEMMA OtherUserStep ==
    ASSUME WalletInv, otherUser PROVE WalletInv'
<1>0. WalletTypes /\ EqsBehind
    BY DEF WalletInv
<1>1. /\ others' = others + 1 /\ UNCHANGED <<pool, eqs, wal, stream, scan, ops>>
      /\ \/ contract' = [contract EXCEPT !.queue = Append(contract.queue, [owner |-> "other", op |-> others])]
         \/ contract' = [contract EXCEPT !.sponsored = Assets]
    BY DEF otherUser
<1>2. contract \in Contracts /\ others \in Nat
    BY <1>0 DEF WalletTypes, Contracts
<1>3. [owner |-> "other", op |-> others] \in Records /\ Assets \subseteq AssetNames
    BY <1>2 DEF Records, AssetNames
<1>4. contract' \in Contracts /\ contract'.events = contract.events
  <2>1. Append(contract.queue, [owner |-> "other", op |-> others]) \in Seq(Records)
      BY <1>2, <1>3 DEF Contracts
  <2>2. CASE contract' = [contract EXCEPT !.sponsored = Assets]
      BY <1>2, <1>3, <2>2, SponsoredMoves
  <2>3. CASE contract' = [contract EXCEPT !.queue = Append(contract.queue, [owner |-> "other", op |-> others])]
      BY <1>2, <2>1, <2>3, QueueMoves
  <2> QED
      BY <1>1, <2>2, <2>3
<1>5. WalletTypes'
    BY <1>0, <1>1, <1>2, <1>4 DEF WalletTypes, Contracts
<1> QED
    BY <1>0, <1>1, <1>4, <1>5, SameLedger, SameWallets, QuietStep

\* The query service indexes events, stops or answers again.
LEMMA EqsStep ==
    ASSUME WalletInv, indexEvents \/ goDown \/ comeUp PROVE WalletInv'
<1>0. WalletTypes /\ EqsBehind
    BY DEF WalletInv
<1>1. /\ UNCHANGED <<contract, pool, wal, stream, scan, ops, others>>
      /\ \/ eqs' = [eqs EXCEPT !.time = Len(contract.events), !.sponsored = contract.sponsored]
         \/ eqs' = [eqs EXCEPT !.up = FALSE]
         \/ eqs' = [eqs EXCEPT !.up = TRUE]
    BY DEF indexEvents, goDown, comeUp, ethereum, bounds
<1>2. /\ eqs \in [up : BOOLEAN, time : Nat, sponsored : SUBSET AssetNames]
      /\ eqs.time \in Nat /\ Len(contract.events) \in Nat /\ contract.sponsored \subseteq AssetNames
    BY <1>0, PartTypes DEF WalletTypes
<1>3. /\ eqs' \in [up : BOOLEAN, time : Nat, sponsored : SUBSET AssetNames]
      /\ eqs'.time = Len(contract.events) \/ eqs'.time = eqs.time
    BY <1>1, <1>2
<1>4. WalletTypes'
    BY <1>0, <1>1, <1>3 DEF WalletTypes
<1>5. LedgerGrows /\ EqsBehind'
    BY <1>0, <1>1, <1>2, <1>3 DEF LedgerGrows, EqsBehind
<1> QED
    BY <1>1, <1>4, <1>5, SameWallets, QuietStep

-----------------------------------------------------------------------------
(* Operations of a wallet.                                                 *)

\* One wallet moves to another state at the same position.
LEMMA OneMoves ==
    ASSUME WalletTypes, NEW w \in Wallets, opened(w), NEW x \in WalletStates,
           wal' = [wal EXCEPT ![w] = x], x.pc \notin {"closed", "create"},
           x.from = wal[w].from, x.now = wal[w].now, x.validator = wal[w].validator,
           x.seen = wal[w].seen
    PROVE  wal' \in [Wallets -> WalletStates] /\ WalletsStay
<1>1. wal \in [Wallets -> WalletStates]
    BY DEF WalletTypes
<1>2. /\ wal' \in [Wallets -> WalletStates]
      /\ \A v \in Wallets : wal'[v] = IF v = w THEN x ELSE wal[v]
    BY <1>1
<1> QED
    BY <1>2 DEF WalletsStay, WalletStays, opened

\* The states that the steps of an operation put a wallet in, when it goes on,
LEMMA GotoState ==
    ASSUME NEW x \in WalletStates, NEW pc \in Points
    PROVE  [x EXCEPT !.pc = pc, !.receipt = "none"] \in WalletStates
BY DEF WalletStates

\* ... when it returns.
LEMMA ReturnState ==
    ASSUME NEW x \in WalletStates, NEW answer \in {"none", "error", "sponsored", "unknown"}
    PROVE  [x EXCEPT !.pc = "idle", !.answer = answer] \in WalletStates
BY DEF WalletStates, Points

\* ... when it begins.
LEMMA BeginState ==
    ASSUME NEW x \in WalletStates, NEW pc \in Points, NEW asset \in AssetNames
    PROVE  [x EXCEPT !.pc = pc, !.asset = asset, !.answer = "none", !.receipt = "none"]
              \in WalletStates
BY DEF WalletStates

\* ... when a wrap succeeds.
LEMMA WrapState ==
    ASSUME NEW x \in WalletStates, NEW S \in SUBSET Nat
    PROVE  [x EXCEPT !.pc = "idle", !.wrapped = S] \in WalletStates
BY DEF WalletStates, Points

\* An operation goes on, at the same position.
LEMMA GotoMoves ==
    ASSUME WalletTypes, NEW w \in Wallets, opened(w),
           NEW pc \in Points \ {"closed", "create"}, goto(w, pc)
    PROVE  wal' \in [Wallets -> WalletStates] /\ WalletsStay
<1>0. pc \in Points /\ pc \notin {"closed", "create"}
    OBVIOUS
<1> DEFINE x == [wal[w] EXCEPT !.pc = pc, !.receipt = "none"]
<1>1. wal[w] \in WalletStates
    BY PartTypes
<1>2. x \in WalletStates
    BY <1>0, <1>1, GotoState
<1>3. wal' = [wal EXCEPT ![w] = x]
    BY DEF goto
<1>4. /\ x.pc = pc /\ x.from = wal[w].from /\ x.now = wal[w].now
      /\ x.validator = wal[w].validator /\ x.seen = wal[w].seen
    BY <1>1 DEF WalletStates
<1> HIDE DEF x
<1> QED
    BY <1>0, <1>2, <1>3, <1>4, OneMoves

\* An operation returns, at the same position.
LEMMA ReturnMoves ==
    ASSUME WalletTypes, NEW w \in Wallets, opened(w),
           NEW answer \in {"none", "error", "sponsored", "unknown"}, return(w, answer)
    PROVE  wal' \in [Wallets -> WalletStates] /\ WalletsStay
<1> DEFINE x == [wal[w] EXCEPT !.pc = "idle", !.answer = answer]
<1>1. wal[w] \in WalletStates
    BY PartTypes
<1>2. x \in WalletStates
    BY <1>1, ReturnState
<1>3. wal' = [wal EXCEPT ![w] = x]
    BY DEF return
<1>4. /\ x.pc = "idle" /\ x.from = wal[w].from /\ x.now = wal[w].now
      /\ x.validator = wal[w].validator /\ x.seen = wal[w].seen
    BY <1>1 DEF WalletStates
<1> HIDE DEF x
<1> QED
    BY <1>2, <1>3, <1>4, OneMoves

\* A step in which a wallet keeps its position and the ledger stays.
LEMMA OperationStep ==
    ASSUME WalletInv, wal' \in [Wallets -> WalletStates], WalletsStay,
           pool' \subseteq Transactions, ops' \in [Wallets -> Nat],
           UNCHANGED <<contract, eqs, stream, scan, others>>
    PROVE  WalletInv'
<1>0. WalletTypes /\ EqsBehind
    BY DEF WalletInv
<1>1. WalletTypes'
    BY <1>0 DEF WalletTypes
<1> QED
    BY <1>0, <1>1, SameLedger, QuietStep

\* An operation begins.
LEMMA BeginStep ==
    ASSUME WalletInv, NEW w \in Wallets, submit_sponsor(w) \/ submit_wrap(w)
    PROVE  WalletInv'
<1>0. WalletTypes
    BY DEF WalletInv
<1>1. PICK asset \in Assets, pc \in {"submit_sponsor", "submit_wrap"} : begin(w, pc, asset)
    BY DEF submit_sponsor, submit_wrap
<1>2. UNCHANGED <<contract, pool, eqs, stream, scan, others>>
    BY DEF submit_sponsor, submit_wrap, ethereum
<1> DEFINE x == [wal[w] EXCEPT !.pc = pc, !.asset = asset, !.answer = "none", !.receipt = "none"]
<1>3. wal[w] \in WalletStates /\ pc \in Points /\ asset \in AssetNames
    BY <1>0, PartTypes DEF Points, AssetNames
<1>4. x \in WalletStates
    BY <1>3, BeginState
<1>5. wal' = [wal EXCEPT ![w] = x] /\ ops' = [ops EXCEPT ![w] = @ + 1] /\ opened(w)
    BY <1>1 DEF begin, unlocked, opened
<1>6. /\ x.pc = pc /\ x.from = wal[w].from /\ x.now = wal[w].now
      /\ x.validator = wal[w].validator /\ x.seen = wal[w].seen
    BY <1>3 DEF WalletStates
<1>7. wal' \in [Wallets -> WalletStates] /\ WalletsStay
  <2> HIDE DEF x
  <2> QED
      BY <1>0, <1>4, <1>5, <1>6, OneMoves
<1>8. ops' \in [Wallets -> Nat] /\ pool \subseteq Transactions
    BY <1>0, <1>5 DEF WalletTypes
<1> QED
    BY <1>2, <1>7, <1>8, OperationStep

\* A transaction is sent, or fails at once.
LEMMA SendMoves ==
    ASSUME WalletTypes, NEW w \in Wallets, opened(w), NEW call \in Calls, send(w, call)
    PROVE  wal' \in [Wallets -> WalletStates] /\ WalletsStay /\ pool' \subseteq Transactions
<1>1. pool \subseteq Transactions
    BY DEF WalletTypes
<1>2. CASE return(w, "error") /\ UNCHANGED pool
    BY <1>1, <1>2, ReturnMoves
<1>3. CASE goto(w, call) /\ pool' = pool \cup {transaction(w, call)}
  <2>1. call \in Points \ {"closed", "create"}
      BY DEF Calls, Points
  <2>2. transaction(w, call) \in Transactions
    <3>1. wal[w].asset \in AssetNames /\ ops[w] \in Nat
        BY PartTypes
    <3> QED
        BY <3>1 DEF transaction, Transactions, Records
  <2> QED
      BY <1>1, <1>3, <2>1, <2>2, GotoMoves
<1> QED
    BY <1>2, <1>3 DEF send

\* Every other step of an operation.
LEMMA OperationSteps ==
    ASSUME WalletInv, NEW w \in Wallets, Operation(w) \/ waitFails(w)
    PROVE  WalletInv'
<1>0. WalletTypes /\ pool \subseteq Transactions /\ ops \in [Wallets -> Nat]
    BY DEF WalletInv, WalletTypes
<1>1. CASE register_erc20_asset(w)
  <2>1. opened(w) /\ send(w, "sponsor") /\ UNCHANGED <<contract, eqs, stream, scan, ops, others>>
      BY <1>1 DEF register_erc20_asset, opened, bounds
  <2>2. "sponsor" \in Calls
      BY DEF Calls
  <2>3. wal' \in [Wallets -> WalletStates] /\ WalletsStay /\ pool' \subseteq Transactions
      BY <1>0, <2>1, <2>2, SendMoves
  <2> QED
      BY <1>0, <2>1, <2>3, OperationStep
<1>2. CASE approve(w)
  <2>1. opened(w) /\ send(w, "approve") /\ UNCHANGED <<contract, eqs, stream, scan, ops, others>>
      BY <1>2 DEF approve, opened, bounds
  <2>2. "approve" \in Calls
      BY DEF Calls
  <2>3. wal' \in [Wallets -> WalletStates] /\ WalletsStay /\ pool' \subseteq Transactions
      BY <1>0, <2>1, <2>2, SendMoves
  <2> QED
      BY <1>0, <2>1, <2>3, OperationStep
<1>3. CASE depositErc20(w)
  <2>1. opened(w) /\ send(w, "deposit") /\ UNCHANGED <<contract, eqs, stream, scan, ops, others>>
      BY <1>3 DEF depositErc20, opened, bounds
  <2>2. "deposit" \in Calls
      BY DEF Calls
  <2>3. wal' \in [Wallets -> WalletStates] /\ WalletsStay /\ pool' \subseteq Transactions
      BY <1>0, <2>1, <2>2, SendMoves
  <2> QED
      BY <1>0, <2>1, <2>3, OperationStep
<1>4. ASSUME opened(w), UNCHANGED <<contract, pool, eqs, stream, scan, ops, others>>,
             (\E pc \in {"wait_for_wrapped_erc20_code", "wrap_erc20"} : goto(w, pc))
                \/ (\E answer \in {"none", "error", "sponsored", "unknown"} : return(w, answer))
      PROVE  WalletInv'
  <2>1. CASE \E pc \in {"wait_for_wrapped_erc20_code", "wrap_erc20"} : goto(w, pc)
    <3>1. PICK pc \in {"wait_for_wrapped_erc20_code", "wrap_erc20"} : goto(w, pc)
        BY <2>1
    <3>2. pc \in Points \ {"closed", "create"}
        BY DEF Points
    <3>3. wal' \in [Wallets -> WalletStates] /\ WalletsStay
        BY <1>0, <1>4, <3>1, <3>2, GotoMoves
    <3> QED
        BY <1>0, <1>4, <3>3, OperationStep
  <2>2. CASE \E answer \in {"none", "error", "sponsored", "unknown"} : return(w, answer)
    <3>1. wal' \in [Wallets -> WalletStates] /\ WalletsStay
        BY <1>0, <1>4, <2>2, ReturnMoves
    <3> QED
        BY <1>0, <1>4, <3>1, OperationStep
  <2> QED
      BY <1>4, <2>1, <2>2
<1>5. CASE sponsorMined(w)
  <2>1. opened(w) /\ goto(w, "wait_for_wrapped_erc20_code")
           /\ UNCHANGED <<contract, pool, eqs, stream, scan, ops, others>>
      BY <1>5 DEF sponsorMined, opened, bounds, ethereum
  <2> QED
      BY <1>4, <2>1
<1>6. CASE wait_for_wrapped_erc20_code(w)
  <2>1. opened(w) /\ (return(w, "error") \/ return(w, "sponsored"))
           /\ UNCHANGED <<contract, pool, eqs, stream, scan, ops, others>>
      BY <1>6 DEF wait_for_wrapped_erc20_code, opened, bounds, ethereum
  <2> QED
      BY <1>4, <2>1
<1>7. CASE get_wrapped_erc20_code(w)
  <2>1. opened(w) /\ (return(w, "error") \/ goto(w, "wrap_erc20"))
           /\ UNCHANGED <<contract, pool, eqs, stream, scan, ops, others>>
      BY <1>7 DEF get_wrapped_erc20_code, opened, bounds, ethereum
  <2> QED
      BY <1>4, <2>1
<1>8. CASE waitFails(w)
  <2>1. opened(w) /\ return(w, "unknown")
           /\ UNCHANGED <<contract, pool, eqs, stream, scan, ops, others>>
      BY <1>8 DEF waitFails, opened, bounds, ethereum
  <2> QED
      BY <1>4, <2>1
<1>9. CASE wrapMined(w)
  <2> DEFINE x == [wal[w] EXCEPT !.pc = "idle", !.wrapped = wal[w].wrapped \cup {ops[w]}]
  <2>1. /\ opened(w) /\ wal' = [wal EXCEPT ![w] = x]
        /\ UNCHANGED <<contract, pool, eqs, stream, scan, ops, others>>
      BY <1>9 DEF wrapMined, opened, bounds, ethereum
  <2>2. wal[w] \in WalletStates /\ ops[w] \in Nat
      BY <1>0, PartTypes
  <2>3. wal[w].wrapped \cup {ops[w]} \in SUBSET Nat
      BY <2>2 DEF WalletStates
  <2>4. x \in WalletStates
      BY <2>2, <2>3, WrapState
  <2>5. /\ x.pc = "idle" /\ x.from = wal[w].from /\ x.now = wal[w].now
        /\ x.validator = wal[w].validator /\ x.seen = wal[w].seen
      BY <2>2 DEF WalletStates
  <2>6. wal' \in [Wallets -> WalletStates] /\ WalletsStay
    <3> HIDE DEF x
    <3> QED
        BY <1>0, <2>1, <2>4, <2>5, OneMoves
  <2> QED
      BY <1>0, <2>1, <2>6, OperationStep
<1> QED
    BY <1>1, <1>2, <1>3, <1>5, <1>6, <1>7, <1>8, <1>9 DEF Operation

\* The relayer submits the wallet's transaction: two events come at once.
LEMMA SubmitStep ==
    ASSUME WalletInv, NEW w \in Wallets, submit(w) PROVE WalletInv'
<1>0. WalletTypes /\ EqsBehind
    BY DEF WalletInv
<1> DEFINE outputs == <<TransactionOutput(w)>> \o contract.queue
           l == contract.events \o <<CommitEvent(outputs), MemosEvent>>
<1>1. /\ contract' = [contract EXCEPT !.queue = <<>>, !.events = l]
      /\ ops' = [ops EXCEPT ![w] = @ + 1]
      /\ UNCHANGED <<pool, eqs, wal, stream, scan, others>>
    BY DEF submit
<1>2. /\ contract \in Contracts
      /\ contract.events \in Seq(LedgerEvents) /\ contract.queue \in Seq(Records)
      /\ Len(contract.events) \in Nat /\ eqs.time \in Nat
    BY <1>0, PartTypes DEF WalletTypes, Contracts
<1>3. outputs \in Seq(Records)
  <2>1. TransactionOutput(w) \in Records
      BY DEF TransactionOutput, Records
  <2> QED
      BY <1>2, <2>1
<1>4. CommitEvent(outputs) \in LedgerEvents /\ MemosEvent \in LedgerEvents
  <2> HIDE DEF outputs
  <2>1. <<>> \in Seq(Records)
      OBVIOUS
  <2> QED
      BY <1>3, <2>1 DEF CommitEvent, MemosEvent, LedgerEvents
<1>5. /\ l \in Seq(LedgerEvents) /\ Len(l) = Len(contract.events) + 2
      /\ \A i \in 1 .. Len(contract.events) : l[i] = contract.events[i]
    BY <1>2, <1>4
<1> HIDE DEF l
<1>6. contract' \in Contracts /\ contract'.events = l
    BY <1>1, <1>2, <1>5, LedgerMoves
<1>7. WalletTypes'
  <2>1. ops' \in [Wallets -> Nat]
      BY <1>0, <1>1 DEF WalletTypes
  <2> QED
      BY <1>0, <1>1, <1>6, <2>1 DEF WalletTypes, Contracts
<1>8. LedgerGrows /\ EqsBehind'
    BY <1>0, <1>1, <1>2, <1>5, <1>6 DEF LedgerGrows, EqsBehind
<1> QED
    BY <1>1, <1>7, <1>8, SameWallets, QuietStep

-----------------------------------------------------------------------------
(* Creating a wallet, its event stream and its scans.                      *)

\* One wallet or its stream moves.
LEMMA StreamStep ==
    ASSUME WalletInv, WalletTypes', UNCHANGED <<contract, eqs, scan>>, NEW w \in Wallets,
           \A v \in Wallets \ {w} : wal'[v] = wal[v] /\ stream'[v] = stream[v],
           opened(w)' => StreamNext(w)' /\ Followed(w)'
    PROVE  WalletInv'
<1>0. WalletTypes /\ EqsBehind
    BY DEF WalletInv
<1>1. LedgerGrows /\ EqsBehind'
    BY <1>0, SameLedger
<1>2. \A v \in Wallets : opened(v)' => StreamNext(v)' /\ Followed(v)'
  <2> SUFFICES ASSUME NEW v \in Wallets, v # w, opened(v)'
               PROVE  StreamNext(v)' /\ Followed(v)'
      OBVIOUS
  <2>1. wal'[v] = wal[v] /\ stream'[v] = stream[v]
      OBVIOUS
  <2>2. WalletStays(v)
      BY <2>1 DEF WalletStays, opened
  <2> QED
      BY <1>1, <2>1, <2>2, StreamsStay
<1>3. \A v \in Wallets : ScanExact(v)'
    BY <1>1, ScansStay
<1> QED
    BY <1>1, <1>2, <1>3 DEF WalletInv

\* There is nothing between a position and itself.
LEMMA NoEvents ==
    ASSUME WalletTypes, NEW n \in Nat, n <= Len(contract.events)
    PROVE  Between(n, n) = <<>> /\ eventsUpTo(n) \o <<>> = eventsUpTo(n)
<1>1. contract.events \in Seq(LedgerEvents)
    BY PartTypes
<1>2. SubSeq(contract.events, n + 1, n) = <<>>
    BY <1>1
<1>3. SubSeq(contract.events, 1, n) \o <<>> = SubSeq(contract.events, 1, n)
    BY <1>1
<1> QED
    BY <1>2, <1>3 DEF Between, eventsUpTo

\* A wallet that waits for the query service is not open.
LEMMA WaitForEqsStep ==
    ASSUME WalletInv, NEW w \in Wallets, wait_for_eqs(w) PROVE WalletInv'
<1>0. WalletTypes /\ pool \subseteq Transactions /\ ops \in [Wallets -> Nat]
         /\ wal \in [Wallets -> WalletStates]
    BY DEF WalletInv, WalletTypes
<1> DEFINE n == IF wal[w].tries + 1 = MaxTries THEN 0 ELSE wal[w].tries + 1
           x == IF eqs.up THEN [wal[w] EXCEPT !.pc = "create"] ELSE [wal[w] EXCEPT !.tries = n]
<1>1. /\ wal[w].pc = "closed" /\ wal' = [wal EXCEPT ![w] = x]
      /\ UNCHANGED <<contract, pool, eqs, stream, scan, ops, others>>
  <2>1. CASE eqs.up
      BY <2>1 DEF wait_for_eqs, ethereum, bounds
  <2>2. CASE ~eqs.up
      BY <2>2 DEF wait_for_eqs, ethereum, bounds
  <2> QED
      BY <2>1, <2>2
<1>2. wal[w] \in WalletStates
    BY <1>0
<1>3. /\ x \in WalletStates /\ x.pc \in {"closed", "create"}
      /\ x.from = wal[w].from /\ x.now = wal[w].now
      /\ x.validator = wal[w].validator /\ x.seen = wal[w].seen
  <2>1. CASE eqs.up
      BY <1>2, <2>1 DEF WalletStates, Points
  <2>2. CASE ~eqs.up
    <3>1. n \in Nat
        BY <1>2 DEF WalletStates
    <3> HIDE DEF n
    <3> QED
        BY <1>1, <1>2, <2>2, <3>1 DEF WalletStates
  <2> QED
      BY <2>1, <2>2
<1> HIDE DEF x
<1>4. /\ wal' \in [Wallets -> WalletStates]
      /\ \A v \in Wallets : wal'[v] = IF v = w THEN x ELSE wal[v]
    BY <1>0, <1>1, <1>3
<1>5. WalletsStay
    BY <1>1, <1>3, <1>4 DEF WalletsStay, WalletStays, opened
<1> QED
    BY <1>0, <1>1, <1>4, <1>5, OperationStep

\* A new wallet starts from one snapshot of events and ledger.
LEMMA CreateStep ==
    ASSUME WalletInv, NEW w \in Wallets, create(w) PROVE WalletInv'
<1>0. WalletTypes /\ EqsBehind /\ wal \in [Wallets -> WalletStates]
         /\ stream \in [Wallets -> [from : Nat, events : Seq(LedgerEvents)]]
    BY DEF WalletInv, WalletTypes
<1> DEFINE t == eqs.time
           v == [now |-> blockCount(eqsEvents), num_records |-> outputCount(eqsEvents)]
           x == IF ~eqs.up THEN closed
                ELSE [closed EXCEPT !.pc = "idle", !.from = t, !.now = t, !.validator = v]
           y == [from |-> t, events |-> <<>>]
<1>1. /\ wal' = [wal EXCEPT ![w] = x] /\ stream' = [stream EXCEPT ![w] = y]
      /\ UNCHANGED <<contract, pool, eqs, scan, ops, others>>
    BY DEF create, ethereum, bounds
<1>2. t \in Nat /\ t <= Len(contract.events) /\ contract.events \in Seq(LedgerEvents)
    BY <1>0, PartTypes DEF EqsBehind
<1>3. v \in [now : Nat, num_records : Nat]
  <2>1. eqsEvents \in Seq(LedgerEvents)
      BY <1>2 DEF eqsEvents
  <2>2. MemosEvent \in LedgerEvents
      BY DEF MemosEvent, LedgerEvents
  <2> QED
      BY <2>1, <2>2, BlockCountAppend, OutputCountAppend
<1> HIDE DEF v, t
<1>4. closed \in WalletStates /\ closed.seen = <<>> /\ closed.pc = "closed"
    BY DEF closed, WalletStates, Points, AssetNames
<1>5. /\ x \in WalletStates
      /\ eqs.up => /\ x.from = t /\ x.now = t /\ x.validator = v /\ x.seen = <<>>
      /\ ~eqs.up => x.pc = "closed"
  <2>1. CASE eqs.up
    <3>1. closed.pc \in Points /\ "idle" \in Points
        BY <1>4 DEF Points, WalletStates
    <3> QED
        BY <1>2, <1>3, <1>4, <2>1, <3>1 DEF WalletStates
  <2>2. CASE ~eqs.up
      BY <1>4, <2>2
  <2> QED
      BY <2>1, <2>2
<1>6. y \in [from : Nat, events : Seq(LedgerEvents)] /\ y.from = t /\ y.events = <<>>
    BY <1>2
<1> HIDE DEF x, y
<1>7. /\ wal' \in [Wallets -> WalletStates]
      /\ wal'[w] = x /\ \A u \in Wallets \ {w} : wal'[u] = wal[u]
    BY <1>0, <1>1, <1>5
<1>8. /\ stream' \in [Wallets -> [from : Nat, events : Seq(LedgerEvents)]]
      /\ stream'[w] = y /\ \A u \in Wallets \ {w} : stream'[u] = stream[u]
    BY <1>0, <1>1, <1>6
<1>9. WalletTypes'
    BY <1>0, <1>1, <1>7, <1>8 DEF WalletTypes
<1>10. ASSUME opened(w)' PROVE StreamNext(w)' /\ Followed(w)'
  <2>1. eqs.up
      BY <1>5, <1>7, <1>10 DEF opened
  <2>2. /\ SubSeq(contract.events, t + 1, t) = <<>>
        /\ SubSeq(contract.events, 1, t) \o <<>> = SubSeq(contract.events, 1, t)
      BY <1>0, <1>2, NoEvents DEF Between, eventsUpTo
  <2>3. contract' = contract /\ eqs'.time = t
      BY <1>1 DEF t
  <2>4. /\ wal'[w].from = t /\ wal'[w].now = t /\ wal'[w].seen = <<>>
        /\ wal'[w].validator = v /\ stream'[w].from = t /\ stream'[w].events = <<>>
      BY <1>5, <1>6, <1>7, <1>8, <2>1
  <2>5. StreamNext(w)'
      BY <1>2, <2>2, <2>3, <2>4 DEF StreamNext, Between
  <2>6. Followed(w)'
      BY <2>2, <2>3, <2>4 DEF Followed, eventsUpTo, v, eqsEvents, t
  <2> QED
      BY <2>5, <2>6
<1> QED
    BY <1>1, <1>7, <1>8, <1>9, <1>10, StreamStep

\* A poll asks only when all fetched events are handled, so it asks from where
\* the wallet is, and its answer reaches as far as the query service does.
LEMMA PollStep ==
    ASSUME WalletInv, NEW w \in Wallets, poll(w) PROVE WalletInv'
<1>0. /\ WalletTypes /\ EqsBehind /\ opened(w) /\ StreamNext(w) /\ Followed(w)
      /\ stream \in [Wallets -> [from : Nat, events : Seq(LedgerEvents)]]
    BY DEF WalletInv, WalletTypes, poll
<1>1. /\ contract.events \in Seq(LedgerEvents) /\ Len(contract.events) \in Nat
      /\ eqs.time \in Nat /\ eqs.time <= Len(contract.events)
      /\ wal[w].from \in Nat /\ wal[w].now \in Nat /\ stream[w].from \in Nat
    BY <1>0, PartTypes DEF EqsBehind
<1>2. stream[w].from = wal[w].now
  <2>1. Len(Between(wal[w].now, stream[w].from)) = stream[w].from - wal[w].now
      BY <1>0, <1>1, PartOfList DEF StreamNext, Between
  <2>2. Between(wal[w].now, stream[w].from) = <<>>
      BY <1>0 DEF StreamNext, poll
  <2>3. Len(<<>>) = 0
      OBVIOUS
  <2> QED
      BY <1>1, <2>1, <2>2, <2>3
<1> DEFINE l == SubSeq(contract.events, stream[w].from + 1, eqs.time)
           y == [from |-> stream[w].from + Len(l), events |-> l]
<1>3. /\ stream' = [stream EXCEPT ![w] = y]
      /\ UNCHANGED <<contract, pool, eqs, wal, scan, ops, others>>
    BY DEF poll, get_events_since, advance, ethereum, bounds
<1>4. l \in Seq(LedgerEvents) /\ Len(l) = eqs.time - stream[w].from
    BY <1>0, <1>1, PartOfList DEF StreamNext
<1>5. l = SubSeq(contract.events, wal[w].now + 1, eqs.time)
    BY <1>2
<1> HIDE DEF l
<1>6. /\ y \in [from : Nat, events : Seq(LedgerEvents)]
      /\ y.from = eqs.time /\ y.events = l
    BY <1>1, <1>4
<1> HIDE DEF y
<1>7. /\ stream' \in [Wallets -> [from : Nat, events : Seq(LedgerEvents)]]
      /\ stream'[w] = y /\ \A u \in Wallets \ {w} : stream'[u] = stream[u]
    BY <1>0, <1>3, <1>6
<1>8. WalletTypes'
    BY <1>0, <1>3, <1>7 DEF WalletTypes
<1>9. StreamNext(w)'
    BY <1>0, <1>1, <1>2, <1>3, <1>5, <1>6, <1>7 DEF StreamNext, Between
<1>10. Followed(w)'
    BY <1>0, <1>3 DEF Followed, eventsUpTo
<1> QED
    BY <1>3, <1>7, <1>8, <1>9, <1>10, StreamStep

\* A restart drops the fetched events and asks for them again.
LEMMA RestartStep ==
    ASSUME WalletInv, NEW w \in Wallets, restart(w) PROVE WalletInv'
<1>0. /\ WalletTypes /\ EqsBehind /\ opened(w) /\ StreamNext(w) /\ Followed(w)
      /\ stream \in [Wallets -> [from : Nat, events : Seq(LedgerEvents)]]
      /\ wal \in [Wallets -> WalletStates]
    BY DEF WalletInv, WalletTypes, restart
<1>1. /\ wal[w] \in WalletStates /\ Len(contract.events) \in Nat
      /\ eqs.time \in Nat /\ eqs.time <= Len(contract.events)
      /\ wal[w].from \in Nat /\ wal[w].now \in Nat /\ stream[w].from \in Nat
    BY <1>0, PartTypes DEF EqsBehind
<1> DEFINE x == [wal[w] EXCEPT !.pc = "idle", !.receipt = "none"]
           y == [from |-> wal[w].now, events |-> <<>>]
<1>2. /\ wal' = [wal EXCEPT ![w] = x] /\ stream' = [stream EXCEPT ![w] = y]
      /\ UNCHANGED <<contract, pool, eqs, scan, ops, others>>
    BY DEF restart, ethereum
<1>3. x \in WalletStates
  <2>1. "idle" \in Points
      BY DEF Points
  <2> QED
      BY <1>1, <2>1, GotoState
<1>4. /\ x.from = wal[w].from /\ x.now = wal[w].now
      /\ x.validator = wal[w].validator /\ x.seen = wal[w].seen
    BY <1>1 DEF WalletStates
<1>5. y \in [from : Nat, events : Seq(LedgerEvents)] /\ y.from = wal[w].now /\ y.events = <<>>
    BY <1>1
<1> HIDE DEF x, y
<1>6. /\ wal' \in [Wallets -> WalletStates]
      /\ wal'[w] = x /\ \A u \in Wallets \ {w} : wal'[u] = wal[u]
    BY <1>0, <1>2, <1>3
<1>7. /\ stream' \in [Wallets -> [from : Nat, events : Seq(LedgerEvents)]]
      /\ stream'[w] = y /\ \A u \in Wallets \ {w} : stream'[u] = stream[u]
    BY <1>0, <1>2, <1>5
<1>8. WalletTypes'
    BY <1>0, <1>2, <1>6, <1>7 DEF WalletTypes
<1>9. /\ wal[w].from <= wal[w].now /\ wal[w].now <= eqs.time
      /\ wal[w].now <= Len(contract.events)
    BY <1>0, <1>1 DEF StreamNext
<1>10. SubSeq(contract.events, wal[w].now + 1, wal[w].now) = <<>>
    BY <1>0, <1>1, <1>9, NoEvents DEF Between
<1>11. StreamNext(w)'
    BY <1>1, <1>2, <1>4, <1>5, <1>6, <1>7, <1>9, <1>10 DEF StreamNext, Between
<1>12. Followed(w)'
    BY <1>0, <1>2, <1>4, <1>6 DEF Followed, eventsUpTo
<1> QED
    BY <1>2, <1>6, <1>7, <1>8, <1>11, <1>12, StreamStep

\* The first fetched event is the next one of the ledger: the wallet and its
\* validator move past it, and the rest of the fetched events comes next.
LEMMA HandleEventStep ==
    ASSUME WalletInv, NEW w \in Wallets, handleEvent(w) PROVE WalletInv'
<1>0. /\ WalletTypes /\ EqsBehind /\ opened(w) /\ StreamNext(w) /\ Followed(w)
      /\ stream \in [Wallets -> [from : Nat, events : Seq(LedgerEvents)]]
      /\ wal \in [Wallets -> WalletStates]
    BY DEF WalletInv, WalletTypes, handleEvent, unlocked, opened
<1> DEFINE m == wal[w].now
           n == stream[w].from
           ev == contract.events
           e == Head(stream[w].events)
           v == [now |-> wal[w].validator.now + blockCount(<<e>>),
                 num_records |-> wal[w].validator.num_records + Len(e.outputs)]
           x == [wal[w] EXCEPT !.now = m + 1, !.seen = Append(wal[w].seen, e), !.validator = v]
           y == [stream[w] EXCEPT !.events = Tail(stream[w].events)]
<1>1. /\ stream[w].events # <<>>
      /\ wal' = [wal EXCEPT ![w] = x] /\ stream' = [stream EXCEPT ![w] = y]
      /\ UNCHANGED <<contract, pool, eqs, scan, ops, others>>
    BY DEF handleEvent, ethereum, bounds
<1>2. /\ wal[w] \in WalletStates /\ ev \in Seq(LedgerEvents) /\ Len(ev) \in Nat
      /\ eqs.time \in Nat /\ eqs.time <= Len(ev)
      /\ wal[w].from \in Nat /\ m \in Nat /\ n \in Nat /\ wal[w].seen \in Seq(LedgerEvents)
      /\ stream[w] \in [from : Nat, events : Seq(LedgerEvents)]
      /\ stream[w].events \in Seq(LedgerEvents)
    BY <1>0, PartTypes DEF EqsBehind
<1>3. /\ wal[w].from <= m /\ m <= n /\ n <= eqs.time /\ n <= Len(ev)
      /\ stream[w].events = SubSeq(ev, m + 1, n)
    BY <1>0, <1>2 DEF StreamNext, Between
<1>4. /\ eventsUpTo(wal[w].from) \o wal[w].seen = eventsUpTo(m)
      /\ wal[w].validator = [now |-> blockCount(eventsUpTo(m)),
                             num_records |-> outputCount(eventsUpTo(m))]
    BY <1>0 DEF Followed
<1> HIDE DEF ev, m, n
<1>5. /\ Len(stream[w].events) = n - m
      /\ \A i \in 1 .. n - m : stream[w].events[i] = ev[m + i]
    BY <1>2, <1>3, PartOfList
<1>6. m + 1 <= n
  <2>1. Len(stream[w].events) # 0
      BY <1>1, <1>2
  <2> QED
      BY <1>2, <1>3, <1>5, <2>1
<1>7. e = ev[m + 1] /\ e \in LedgerEvents
  <2>1. e = stream[w].events[1]
      BY <1>1, <1>2
  <2>2. 1 \in 1 .. n - m
      BY <1>2, <1>6
  <2>3. m + 1 \in 1 .. Len(ev)
      BY <1>2, <1>3, <1>6
  <2> QED
      BY <1>2, <1>5, <2>1, <2>2, <2>3
<1>8. Tail(stream[w].events) = SubSeq(ev, m + 1 + 1, n)
  <2>0. m + 1 \in Nat
      BY <1>2
  <2>1. /\ SubSeq(ev, m + 1 + 1, n) \in Seq(LedgerEvents)
        /\ Len(SubSeq(ev, m + 1 + 1, n)) = n - (m + 1)
        /\ \A i \in 1 .. n - (m + 1) : SubSeq(ev, m + 1 + 1, n)[i] = ev[m + 1 + i]
      BY <1>2, <1>3, <1>6, <2>0, PartOfList
  <2>2. /\ Tail(stream[w].events) \in Seq(LedgerEvents)
        /\ Len(Tail(stream[w].events)) = Len(stream[w].events) - 1
        /\ \A i \in 1 .. Len(stream[w].events) - 1 :
              Tail(stream[w].events)[i] = stream[w].events[i + 1]
      BY <1>1, <1>2
  <2>3. \A i \in 1 .. n - (m + 1) : Tail(stream[w].events)[i] = ev[m + 1 + i]
    <3> SUFFICES ASSUME NEW i \in 1 .. n - (m + 1)
                 PROVE  Tail(stream[w].events)[i] = ev[m + 1 + i]
        OBVIOUS
    <3>1. /\ i + 1 \in 1 .. n - m /\ m + (i + 1) = m + 1 + i
          /\ i \in 1 .. Len(stream[w].events) - 1
        BY <1>2, <1>3, <1>5
    <3> QED
        BY <1>5, <2>2, <3>1
  <2>4. Len(Tail(stream[w].events)) = Len(SubSeq(ev, m + 1 + 1, n))
      BY <1>2, <1>5, <2>1, <2>2
  <2> DEFINE a == Tail(stream[w].events)
             b == SubSeq(ev, m + 1 + 1, n)
  <2>5. a \in Seq(LedgerEvents) /\ b \in Seq(LedgerEvents) /\ Len(a) = Len(b)
      BY <2>1, <2>2, <2>4
  <2>6. Len(a) = n - (m + 1) /\ \A i \in 1 .. n - (m + 1) : a[i] = b[i]
      BY <2>1, <2>3, <2>4
  <2> HIDE DEF a, b
  <2>7. a = b
      BY <2>5, <2>6, SameList
  <2> QED
      BY <2>7 DEF a, b
<1>9. SubSeq(ev, 1, m + 1) = Append(SubSeq(ev, 1, m), e)
  <2>1. m + 1 <= Len(ev)
      BY <1>2, <1>3, <1>6
  <2> QED
      BY <1>2, <1>7, <2>1, OneMore
<1>10. /\ SubSeq(ev, 1, m) \in Seq(LedgerEvents)
       /\ SubSeq(ev, 1, wal[w].from) \in Seq(LedgerEvents)
    BY <1>2, <1>3
<1>11. /\ blockCount(SubSeq(ev, 1, m)) \in Nat /\ outputCount(SubSeq(ev, 1, m)) \in Nat
       /\ blockCount(SubSeq(ev, 1, m + 1)) = blockCount(SubSeq(ev, 1, m)) + blockCount(<<e>>)
       /\ outputCount(SubSeq(ev, 1, m + 1)) = outputCount(SubSeq(ev, 1, m)) + Len(e.outputs)
  <2> HIDE DEF e
  <2> QED
      BY <1>7, <1>9, <1>10, BlockCountAppend, OutputCountAppend
<1>12. v = [now |-> blockCount(SubSeq(ev, 1, m + 1)),
            num_records |-> outputCount(SubSeq(ev, 1, m + 1))]
  <2>1. /\ wal[w].validator.now = blockCount(SubSeq(ev, 1, m))
        /\ wal[w].validator.num_records = outputCount(SubSeq(ev, 1, m))
      BY <1>4 DEF eventsUpTo, ev
  <2> QED
      BY <1>11, <2>1
<1>13. SubSeq(ev, 1, wal[w].from) \o Append(wal[w].seen, e) = SubSeq(ev, 1, m + 1)
  <2>1. SubSeq(ev, 1, wal[w].from) \o wal[w].seen = SubSeq(ev, 1, m)
      BY <1>4 DEF eventsUpTo, ev
  <2> HIDE DEF e
  <2>2. SubSeq(ev, 1, wal[w].from) \o Append(wal[w].seen, e)
           = Append(SubSeq(ev, 1, wal[w].from) \o wal[w].seen, e)
    <3> DEFINE a == SubSeq(ev, 1, wal[w].from)
               b == wal[w].seen
    <3>1. a \in Seq(LedgerEvents) /\ b \in Seq(LedgerEvents) /\ e \in LedgerEvents
        BY <1>2, <1>7, <1>10
    <3> HIDE DEF a, b
    <3>2. a \o Append(b, e) = Append(a \o b, e)
        BY <3>1, AppendSecond
    <3> QED
        BY <3>2 DEF a, b
  <2> QED
      BY <1>9, <2>1, <2>2, Zenon
<1>14. /\ v \in [now : Nat, num_records : Nat] /\ m + 1 \in Nat
       /\ Append(wal[w].seen, e) \in Seq(LedgerEvents)
  <2>1. blockCount(SubSeq(ev, 1, m + 1)) \in Nat /\ outputCount(SubSeq(ev, 1, m + 1)) \in Nat
    <3>1. SubSeq(ev, 1, m + 1) \in Seq(LedgerEvents)
        BY <1>2, <1>3, <1>6
    <3> HIDE DEF e
    <3> QED
        BY <1>7, <3>1, BlockCountAppend, OutputCountAppend
  <2>2. Append(wal[w].seen, e) \in Seq(LedgerEvents)
    <3> HIDE DEF e
    <3> QED
        BY <1>2, <1>7
  <2> HIDE DEF v
  <2> QED
      BY <1>2, <1>12, <2>1, <2>2
<1>15. /\ x \in WalletStates /\ x.from = wal[w].from /\ x.now = m + 1 /\ x.validator = v
       /\ x.seen = Append(wal[w].seen, e)
  <2> DEFINE q == Append(wal[w].seen, e)
             k == m + 1
  <2>1. k \in Nat /\ q \in Seq(LedgerEvents)
      BY <1>14
  <2> HIDE DEF v, q, k
  <2>2. /\ [wal[w] EXCEPT !.now = k, !.seen = q, !.validator = v] \in WalletStates
        /\ [wal[w] EXCEPT !.now = k, !.seen = q, !.validator = v].from = wal[w].from
        /\ [wal[w] EXCEPT !.now = k, !.seen = q, !.validator = v].now = k
        /\ [wal[w] EXCEPT !.now = k, !.seen = q, !.validator = v].validator = v
        /\ [wal[w] EXCEPT !.now = k, !.seen = q, !.validator = v].seen = q
      BY <1>2, <1>14, <2>1 DEF WalletStates
  <2> QED
      BY <2>2 DEF q, k
<1>16. /\ y \in [from : Nat, events : Seq(LedgerEvents)] /\ y.from = n
       /\ y.events = SubSeq(ev, m + 1 + 1, n)
  <2> DEFINE z == Tail(stream[w].events)
  <2>1. z \in Seq(LedgerEvents)
      BY <1>1, <1>2
  <2>2. z = SubSeq(ev, m + 1 + 1, n)
      BY <1>8
  <2> HIDE DEF z
  <2> QED
      BY <1>2, <2>1, <2>2 DEF n, z
<1> HIDE DEF x, y, v, e
<1>17. /\ wal' \in [Wallets -> WalletStates]
       /\ wal'[w] = x /\ \A u \in Wallets \ {w} : wal'[u] = wal[u]
    BY <1>0, <1>1, <1>15
<1>18. /\ stream' \in [Wallets -> [from : Nat, events : Seq(LedgerEvents)]]
       /\ stream'[w] = y /\ \A u \in Wallets \ {w} : stream'[u] = stream[u]
    BY <1>0, <1>1, <1>16
<1>19. WalletTypes'
    BY <1>0, <1>1, <1>17, <1>18 DEF WalletTypes
<1>20. contract'.events = ev /\ eqs' = eqs
    BY <1>1 DEF ev
<1>21. StreamNext(w)'
  <2>1. /\ wal'[w].from = wal[w].from /\ wal'[w].now = m + 1 /\ stream'[w].from = n
        /\ stream'[w].events = SubSeq(contract'.events, m + 1 + 1, n)
      BY <1>15, <1>16, <1>17, <1>18, <1>20
  <2>2. wal[w].from <= m + 1 /\ m + 1 <= n /\ n <= eqs'.time
      BY <1>2, <1>3, <1>6, <1>20
  <2> QED
      BY <2>1, <2>2 DEF StreamNext, Between
<1>22. Followed(w)'
    BY <1>12, <1>13, <1>15, <1>17, <1>20 DEF Followed, eventsUpTo
<1> QED
    BY <1>1, <1>17, <1>18, <1>19, <1>21, <1>22, StreamStep

\* One scan moves.
LEMMA ScanStep ==
    ASSUME WalletInv, NEW w \in Wallets, NEW x \in [from : Nat, to : Nat, seen : Seq(LedgerEvents)],
           scan' = [scan EXCEPT ![w] = x],
           UNCHANGED <<contract, pool, eqs, wal, stream, ops, others>>,
           x.seen = eventsUpTo(x.from), x.from <= x.to, x.to <= eqs.time
    PROVE  WalletInv'
<1>0. WalletTypes /\ EqsBehind /\ scan \in [Wallets -> [from : Nat, to : Nat, seen : Seq(LedgerEvents)]]
    BY DEF WalletInv, WalletTypes
<1>1. /\ scan' \in [Wallets -> [from : Nat, to : Nat, seen : Seq(LedgerEvents)]]
      /\ scan'[w] = x /\ \A u \in Wallets \ {w} : scan'[u] = scan[u]
    BY <1>0
<1>2. WalletTypes'
    BY <1>0, <1>1 DEF WalletTypes
<1>3. LedgerGrows /\ EqsBehind' /\ WalletsStay
    BY <1>0, SameLedger, SameWallets
<1>4. \A u \in Wallets : opened(u)' => StreamNext(u)' /\ Followed(u)'
    BY <1>2, <1>3, StreamsStay DEF WalletsStay
<1>5. \A u \in Wallets \ {w} : ScanExact(u)'
    BY <1>1, <1>2, <1>3, ScansStay
<1>6. ScanExact(w)'
    BY <1>1 DEF ScanExact, eventsUpTo
<1> QED
    BY <1>2, <1>3, <1>4, <1>5, <1>6 DEF WalletInv

\* A scan starts with no events and ends where the wallet is.
LEMMA StartScanStep ==
    ASSUME WalletInv, NEW w \in Wallets, startScan(w) PROVE WalletInv'
<1>0. WalletTypes /\ EqsBehind /\ StreamNext(w)
    BY DEF WalletInv, startScan, unlocked, opened
<1> DEFINE x == [from |-> 0, to |-> wal[w].now, seen |-> <<>>]
<1>1. /\ scan' = [scan EXCEPT ![w] = x]
      /\ UNCHANGED <<contract, pool, eqs, wal, stream, ops, others>>
    BY DEF startScan, ethereum
<1>2. /\ contract.events \in Seq(LedgerEvents) /\ wal[w].now \in Nat
      /\ stream[w].from \in Nat /\ eqs.time \in Nat
    BY <1>0, PartTypes
<1>3. wal[w].now <= eqs.time
    BY <1>0, <1>2 DEF StreamNext
<1>4. eventsUpTo(0) = <<>>
    BY <1>2 DEF eventsUpTo
<1>5. /\ x \in [from : Nat, to : Nat, seen : Seq(LedgerEvents)]
      /\ x.from = 0 /\ x.to = wal[w].now /\ x.seen = <<>>
    BY <1>2
<1> HIDE DEF x
<1>6. x.seen = eventsUpTo(x.from) /\ x.from <= x.to /\ x.to <= eqs.time
    BY <1>2, <1>3, <1>4, <1>5
<1> QED
    BY <1>1, <1>5, <1>6, ScanStep

\* The query service knows all events up to the end of a scan, so one poll
\* fetches them all, and no more.
LEMMA PollScanStep ==
    ASSUME WalletInv, NEW w \in Wallets, pollScan(w) PROVE WalletInv'
<1>0. WalletTypes /\ EqsBehind /\ ScanExact(w)
    BY DEF WalletInv
<1> DEFINE m == scan[w].from
           n == scan[w].to
           ev == contract.events
           last == IF m + (n - m) < eqs.time THEN m + (n - m) ELSE eqs.time
           l == SubSeq(ev, m + 1, last)
           x == [scan[w] EXCEPT !.from = m + Len(l), !.seen = scan[w].seen \o l]
<1>1. /\ m < n /\ scan' = [scan EXCEPT ![w] = x]
      /\ UNCHANGED <<contract, pool, eqs, wal, stream, ops, others>>
    BY DEF pollScan, get_events_range, advance, ethereum, bounds
<1>2. /\ ev \in Seq(LedgerEvents) /\ Len(ev) \in Nat /\ m \in Nat /\ n \in Nat
      /\ eqs.time \in Nat /\ eqs.time <= Len(ev) /\ scan[w].seen \in Seq(LedgerEvents)
    BY <1>0, PartTypes DEF EqsBehind
<1>3. /\ m <= n /\ n <= eqs.time /\ n <= Len(ev) /\ scan[w].seen = SubSeq(ev, 1, m)
    BY <1>0, <1>2 DEF ScanExact, eventsUpTo
<1>3a. scan[w] \in [from : Nat, to : Nat, seen : Seq(LedgerEvents)]
    BY <1>0 DEF WalletTypes
<1> HIDE DEF ev, m, n
<1>4. last = n
    BY <1>2, <1>3
<1> HIDE DEF last
<1>5. l \in Seq(LedgerEvents) /\ Len(l) = n - m
    BY <1>2, <1>3, <1>4, PartOfList
<1>6. scan[w].seen \o l = SubSeq(ev, 1, n)
  <2>1. SubSeq(ev, 1, m) \o SubSeq(ev, m + 1, n) = SubSeq(ev, 1, n)
      BY <1>2, <1>3, TwoParts
  <2> QED
      BY <1>3, <1>4, <2>1
<1> HIDE DEF l
<1>7. m + Len(l) = n /\ scan[w].seen \o l \in Seq(LedgerEvents)
    BY <1>2, <1>5
<1>8. /\ x \in [from : Nat, to : Nat, seen : Seq(LedgerEvents)]
      /\ x.from = n /\ x.to = n /\ x.seen = SubSeq(ev, 1, n)
  <2> DEFINE q == scan[w].seen \o l
             k == m + Len(l)
  <2>1. q \in Seq(LedgerEvents) /\ k = n /\ n \in Nat /\ q = SubSeq(ev, 1, n) /\ scan[w].to = n
      BY <1>2, <1>6, <1>7 DEF n
  <2> HIDE DEF q, k
  <2>2. /\ [scan[w] EXCEPT !.from = k, !.seen = q]
              \in [from : Nat, to : Nat, seen : Seq(LedgerEvents)]
        /\ [scan[w] EXCEPT !.from = k, !.seen = q].from = k
        /\ [scan[w] EXCEPT !.from = k, !.seen = q].to = scan[w].to
        /\ [scan[w] EXCEPT !.from = k, !.seen = q].seen = q
      BY <1>3a, <2>1
  <2> QED
      BY <2>1, <2>2 DEF q, k
<1> HIDE DEF x
<1>9. x.seen = eventsUpTo(x.from) /\ x.from <= x.to /\ x.to <= eqs.time
    BY <1>2, <1>3, <1>8 DEF eventsUpTo, ev
<1> QED
    BY <1>1, <1>8, <1>9, ScanStep

-----------------------------------------------------------------------------
(* The theorem.                                                            *)

\* The invariant holds at first.
LEMMA WalletInit == Init => WalletInv
<1> SUFFICES ASSUME Init PROVE WalletInv
    OBVIOUS
<1>1. closed \in WalletStates /\ closed.pc = "closed"
    BY DEF closed, WalletStates, Points, AssetNames
<1>2. wal \in [Wallets -> WalletStates] /\ \A w \in Wallets : ~opened(w)
    BY <1>1 DEF Init, opened
<1>3. WalletTypes
    BY <1>2 DEF Init, WalletTypes
<1>4. EqsBehind /\ \A w \in Wallets : ScanExact(w)
  <2>1. contract.events = <<>> /\ eqs.time = 0
      BY DEF Init
  <2>2. SubSeq(<<>>, 1, 0) = <<>> /\ Len(<<>>) = 0
      OBVIOUS
  <2>3. \A w \in Wallets : scan[w].from = 0 /\ scan[w].to = 0 /\ scan[w].seen = <<>>
      BY DEF Init
  <2>4. EqsBehind
      BY <2>1, <2>2 DEF EqsBehind
  <2>5. eventsUpTo(0) = <<>>
      BY <2>1, <2>2 DEF eventsUpTo
  <2>6. \A w \in Wallets : ScanExact(w)
      BY <2>1, <2>3, <2>5 DEF ScanExact
  <2> QED
      BY <2>4, <2>6
<1> QED
    BY <1>2, <1>3, <1>4 DEF WalletInv

\* Every step keeps the invariant.
LEMMA WalletStep == WalletInv /\ [Next]_vars => WalletInv'
<1> SUFFICES ASSUME WalletInv, [Next]_vars PROVE WalletInv'
    OBVIOUS
<1>0. WalletTypes /\ pool \subseteq Transactions /\ ops \in [Wallets -> Nat]
         /\ wal \in [Wallets -> WalletStates]
    BY DEF WalletInv, WalletTypes
<1>1. ASSUME UNCHANGED <<contract, pool, eqs, wal, stream, scan, ops, others>> PROVE WalletInv'
    BY <1>0, <1>1, SameWallets, OperationStep
<1>2. ASSUME NEW w \in Wallets, scanStatusEqs(w) \/ scanStatusNow(w) PROVE WalletInv'
    BY <1>1, <1>2 DEF scanStatusEqs, scanStatusNow, ethereum, bounds
<1>3. CASE UNCHANGED vars
    BY <1>1, <1>3 DEF vars
<1>4. CASE \E t \in pool : mine(t)
    BY <1>4, MineStep
<1>5. CASE emptyBlock
    BY <1>5, EmptyBlockStep
<1>6. CASE otherUser
    BY <1>6, OtherUserStep
<1>7. CASE indexEvents \/ goDown \/ comeUp
    BY <1>7, EqsStep
<1>8. ASSUME NEW w \in Wallets, Open(w) PROVE WalletInv'
    BY <1>8, WaitForEqsStep, CreateStep DEF Open
<1>9. ASSUME NEW w \in Wallets, poll(w) \/ handleEvent(w) \/ restart(w) PROVE WalletInv'
    BY <1>9, PollStep, HandleEventStep, RestartStep
<1>10. ASSUME NEW w \in Wallets, startScan(w) \/ pollScan(w) PROVE WalletInv'
    BY <1>10, StartScanStep, PollScanStep
<1>11. ASSUME NEW w \in Wallets, submit_sponsor(w) \/ submit_wrap(w) PROVE WalletInv'
    BY <1>11, BeginStep
<1>12. ASSUME NEW w \in Wallets, submit(w) PROVE WalletInv'
    BY <1>12, SubmitStep
<1>13. ASSUME NEW w \in Wallets, Operation(w) \/ waitFails(w) PROVE WalletInv'
    BY <1>13, OperationSteps
<1> QED
    BY <1>2, <1>3, <1>4, <1>5, <1>6, <1>7, <1>8, <1>9, <1>10, <1>11, <1>12, <1>13 DEF Next

\* For any number of wallets, operations of theirs and of others, outages of the
\* query service and restarts: a wallet handles each event of the ledger once and
\* in order from the snapshot it was created with, its validator is in the state
\* the ledger had then, and a scan sees all events before its bound.
THEOREM WalletStreamsFollow == Spec => []StreamsFollowLedger
<1>1. WalletInv => StreamsFollowLedger
    BY DEF WalletInv, StreamsFollowLedger, FollowsLedger, Followed, ScansAreExact, ScanExact
<1> QED
    BY <1>1, WalletInit, WalletStep, PTL DEF Spec
=============================================================================
