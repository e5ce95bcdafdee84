---------------------------- MODULE EqsProofs -----------------------------
(***************************************************************************)
(* Theorems about the query service, for every number of confirmations and *)
(* blocks, every bound of restarts and all events of the contract: it      *)
(* finds the transactions of the blocks it indexed, handles confirmed      *)
(* events only, answers what they say, and what it served at a position    *)
(* stays there.                                                            *)
(***************************************************************************)
EXTENDS Eqs, CapeBlockProofs

-----------------------------------------------------------------------------
(* Lists.                                                                  *)

\* A sequence over any set is a list.
LEMMA SeqIsList ==
    ASSUME NEW S, NEW s \in Seq(S)
    PROVE  /\ IsList(s) /\ ToSet(s) \subseteq S
           /\ Len(s) \in Nat /\ DOMAIN s = 1 .. Len(s)
           /\ \A i \in 1 .. Len(s) : s[i] \in S
<1>1. Len(s) \in Nat /\ DOMAIN s = 1 .. Len(s) /\ s \in [1 .. Len(s) -> S]
  OBVIOUS
<1>2. \A i \in 1 .. Len(s) : s[i] \in ToSet(s)
  BY <1>1 DEF ToSet
<1>3. s \in [1 .. Len(s) -> ToSet(s)]
  BY <1>1, <1>2
<1>4. s \in Seq(ToSet(s))
  BY <1>1, <1>3
<1> QED
  BY <1>1, <1>4 DEF IsList, ToSet

\* The elements of a list.
LEMMA ListFacts ==
    ASSUME NEW s, IsList(s)
    PROVE  /\ Len(s) \in Nat /\ DOMAIN s = 1 .. Len(s)
           /\ \A i \in 1 .. Len(s) : s[i] \in ToSet(s)
           /\ s \in Seq(ToSet(s))
BY SeqIsList DEF IsList

\* The empty list.
LEMMA EmptyList == IsList(<< >>) /\ ToSet(<< >>) = {}
<1>1. << >> \in Seq({})
  OBVIOUS
<1>2. ToSet(<< >>) = {}
  BY DEF ToSet
<1> QED
  BY <1>1, <1>2, SeqIsList

\* Two lists, one after the other.
LEMMA ConcatLists ==
    ASSUME NEW a, NEW b, IsList(a), IsList(b)
    PROVE  /\ IsList(a \o b)
           /\ Len(a \o b) = Len(a) + Len(b)
           /\ \A i \in 1 .. Len(a) : (a \o b)[i] = a[i]
           /\ \A i \in 1 .. Len(b) : (a \o b)[Len(a) + i] = b[i]
<1> DEFINE S == ToSet(a) \cup ToSet(b)
<1>1. a \in Seq(ToSet(a)) /\ b \in Seq(ToSet(b))
  BY DEF IsList
<1>2. a \in Seq(S) /\ b \in Seq(S)
  BY <1>1
<1> HIDE DEF S
<1>3. /\ a \o b \in Seq(S) /\ Len(a \o b) = Len(a) + Len(b)
      /\ \A i \in 1 .. Len(a) : (a \o b)[i] = a[i]
      /\ \A i \in 1 .. Len(b) : (a \o b)[Len(a) + i] = b[i]
  BY <1>2
<1> QED
  BY <1>3, SeqIsList

\* A list with one element more.
LEMMA AppendList ==
    ASSUME NEW a, NEW e, IsList(a)
    PROVE  /\ IsList(Append(a, e))
           /\ Len(Append(a, e)) = Len(a) + 1
           /\ Append(a, e)[Len(a) + 1] = e
           /\ \A i \in 1 .. Len(a) : Append(a, e)[i] = a[i]
<1> DEFINE S == ToSet(a) \cup {e}
<1>1. a \in Seq(ToSet(a))
  BY DEF IsList
<1>2. a \in Seq(S) /\ e \in S
  BY <1>1
<1> HIDE DEF S
<1>3. /\ Append(a, e) \in Seq(S) /\ Len(Append(a, e)) = Len(a) + 1
      /\ Append(a, e)[Len(a) + 1] = e
      /\ \A i \in 1 .. Len(a) : Append(a, e)[i] = a[i]
  BY <1>2
<1> QED
  BY <1>3, SeqIsList

\* The beginning of a list.
LEMMA PrefixList ==
    ASSUME NEW a, IsList(a), NEW n \in 0 .. Len(a)
    PROVE  /\ IsList(SubSeq(a, 1, n))
           /\ Len(SubSeq(a, 1, n)) = n
           /\ \A i \in 1 .. n : SubSeq(a, 1, n)[i] = a[i]
<1>1. a \in Seq(ToSet(a)) /\ Len(a) \in Nat
  BY ListFacts
<1>2. SubSeq(a, 1, n) \in Seq(ToSet(a)) /\ Len(SubSeq(a, 1, n)) = n
      /\ \A i \in 1 .. n : SubSeq(a, 1, n)[i] = a[i]
  BY <1>1
<1> QED
  BY <1>2, SeqIsList

\* Lists of the same elements are equal.
LEMMA SameList ==
    ASSUME NEW a, NEW b, IsList(a), IsList(b), Len(a) = Len(b),
           \A i \in 1 .. Len(a) : a[i] = b[i]
    PROVE  a = b
<1>1. a \in Seq(ToSet(a)) /\ b \in Seq(ToSet(b))
  BY DEF IsList
<1>2. /\ a = [i \in 1 .. Len(a) |-> a[i]] /\ b = [i \in 1 .. Len(b) |-> b[i]]
  BY <1>1
<1> QED
  BY <1>2

\* A list is its beginning with its last element.
LEMMA SplitLast ==
    ASSUME NEW a, IsList(a), NEW k \in Nat, Len(a) = k + 1
    PROVE  /\ IsList(SubSeq(a, 1, k)) /\ Len(SubSeq(a, 1, k)) = k
           /\ a = Append(SubSeq(a, 1, k), a[k + 1])
<1>1. k \in 0 .. Len(a)
  OBVIOUS
<1>2. /\ IsList(SubSeq(a, 1, k)) /\ Len(SubSeq(a, 1, k)) = k
      /\ \A i \in 1 .. k : SubSeq(a, 1, k)[i] = a[i]
  BY <1>1, PrefixList
<1> DEFINE f == SubSeq(a, 1, k)
           g == Append(f, a[k + 1])
<1>3. IsList(f) /\ Len(f) = k /\ \A i \in 1 .. k : f[i] = a[i]
  BY <1>2
<1> HIDE DEF f
<1>3a. \A x, e : IsList(x) =>
         /\ IsList(Append(x, e)) /\ Len(Append(x, e)) = Len(x) + 1
         /\ Append(x, e)[Len(x) + 1] = e
         /\ \A i \in 1 .. Len(x) : Append(x, e)[i] = x[i]
  BY AppendList
<1>4. /\ IsList(g) /\ Len(g) = k + 1 /\ g[k + 1] = a[k + 1]
      /\ \A i \in 1 .. k : g[i] = a[i]
  BY <1>3, <1>3a
<1> HIDE DEF g
<1>5. \A i \in 1 .. k + 1 : g[i] = a[i]
  BY <1>4
<1>6. a = g
  BY <1>4, <1>5, SameList
<1> QED
  BY <1>2, <1>6 DEF f, g

-----------------------------------------------------------------------------
(* Outputs of transactions.                                                *)

\* The operators of the log's module are those of the service's.
LEMMA SameFlatten ==
    /\ \A s : Log!FlattenSeq(s) = FlattenSeq(s)
    /\ \A s : Log!ToSet(s) = ToSet(s)
BY DEF Log!FlattenSeq, FlattenSeq, Log!ToSet, ToSet

IsTxns(txs) == IsList(txs) /\ \A n \in 1 .. Len(txs) : IsList(txs[n].outputs)

OutputLists(txs) == [n \in DOMAIN txs |-> txs[n].outputs]

\* The outputs of one more transaction come last.
LEMMA OutputsAppend ==
    ASSUME NEW txs, NEW t, IsTxns(txs), IsList(t.outputs)
    PROVE  /\ IsTxns(Append(txs, t))
           /\ IsList(Outputs(txs))
           /\ Outputs(Append(txs, t)) = Outputs(txs) \o t.outputs
<1> DEFINE D == (UNION {ToSet(txs[n].outputs) : n \in 1 .. Len(txs)}) \cup ToSet(t.outputs)
           more == Append(txs, t)
           k == Len(txs)
           a == OutputLists(txs)
           b == OutputLists(more)
           o == t.outputs
<1>1. /\ IsList(txs) /\ k \in Nat /\ DOMAIN txs = 1 .. k
      /\ \A n \in 1 .. k : IsList(txs[n].outputs)
  BY ListFacts DEF IsTxns
<1>2. /\ IsList(more) /\ Len(more) = k + 1 /\ more[k + 1] = t
      /\ \A n \in 1 .. k : more[n] = txs[n]
      /\ DOMAIN more = 1 .. k + 1
  BY <1>1, AppendList, ListFacts
<1>3. \A n \in 1 .. k : txs[n].outputs \in Seq(D)
  <2> SUFFICES ASSUME NEW n \in 1 .. k PROVE txs[n].outputs \in Seq(D)
    OBVIOUS
  <2>1. txs[n].outputs \in Seq(ToSet(txs[n].outputs))
    BY <1>1 DEF IsList
  <2>2. ToSet(txs[n].outputs) \subseteq D
    OBVIOUS
  <2> HIDE DEF D
  <2> QED
    BY <2>1, <2>2
<1>4. o \in Seq(D)
  <2>1. o \in Seq(ToSet(o))
    BY DEF IsList
  <2>2. ToSet(o) \subseteq D
    OBVIOUS
  <2> HIDE DEF D, o
  <2> QED
    BY <2>1, <2>2
<1> DEFINE L == Seq(D)
<1> HIDE DEF D, k
<1>5. a \in [1 .. k -> L] /\ \A n \in 1 .. k : a[n] = txs[n].outputs
  BY <1>1, <1>3 DEF OutputLists
<1>6. b \in [1 .. k + 1 -> L] /\ (\A n \in 1 .. k : b[n] = a[n]) /\ b[k + 1] = o
  <2>0. \A n \in 1 .. k + 1 : more[n].outputs \in L
    <3>1. \A n \in 1 .. k + 1 : n = k + 1 \/ n \in 1 .. k
      BY <1>1
    <3> HIDE DEF L, more
    <3> QED
      BY <3>1, <1>2, <1>3, <1>4 DEF L
  <2>1. b = [n \in 1 .. k + 1 |-> more[n].outputs]
    BY <1>2 DEF OutputLists
  <2> HIDE DEF L, more, b
  <2>2. b \in [1 .. k + 1 -> L] /\ \A n \in 1 .. k + 1 : b[n] = more[n].outputs
    BY <2>0, <2>1
  <2>3. k + 1 \in 1 .. k + 1 /\ \A n \in 1 .. k : n \in 1 .. k + 1
    BY <1>1
  <2> QED
    BY <1>2, <1>5, <2>2, <2>3
<1> HIDE DEF a, b, L, o, more
<1>7. a \in Seq(L) /\ Len(a) = k /\ b \in Seq(L) /\ Len(b) = k + 1 /\ o \in L
  BY <1>1, <1>4, <1>5, <1>6 DEF L
<1>8. b = Append(a, o)
  <2>1. Append(a, o) \in Seq(L) /\ Len(Append(a, o)) = k + 1
        /\ \A n \in 1 .. k + 1 : Append(a, o)[n] = b[n]
    BY <1>1, <1>6, <1>7
  <2> QED
    BY <1>7, <2>1
<1>9. FlattenSeq(b) = FlattenSeq(a) \o o
  BY <1>7, <1>8, FlattenAppend DEF L
<1>10. FlattenSeq(a) \in Seq(D)
  BY <1>7, FlattenType DEF L
<1>11. Outputs(txs) = FlattenSeq(a) /\ Outputs(more) = FlattenSeq(b)
  BY SameFlatten DEF Outputs, Log!OutputsOf, OutputLists, a, b
<1>12. IsTxns(more)
  <2>1. \A n \in 1 .. k + 1 : n = k + 1 \/ n \in 1 .. k
    BY <1>1
  <2> QED
    BY <1>1, <1>2, <2>1 DEF IsTxns, o
<1> QED
  BY <1>9, <1>10, <1>11, <1>12, SeqIsList DEF more, o

\* No transactions, no outputs.
LEMMA OutputsEmpty == Outputs(<< >>) = << >> /\ IsTxns(<< >>)
<1>1. [n \in DOMAIN << >> |-> << >>[n].outputs] = << >>
  OBVIOUS
<1> QED
  BY <1>1, FlattenEmpty, EmptyList, SameFlatten DEF Outputs, Log!OutputsOf, IsTxns

\* The outputs of a transaction are found after those of the ones before it.
OutputsPlaced(txs) ==
    \A i \in 1 .. Len(txs) : \A j \in 1 .. Len(txs[i].outputs) :
        /\ OutputsBefore(txs, i) + j \in 1 .. Len(Outputs(txs))
        /\ Outputs(txs)[OutputsBefore(txs, i) + j] = txs[i].outputs[j]

\* The outputs of transactions are a list.
LEMMA OutputsList ==
    ASSUME NEW txs, IsTxns(txs)
    PROVE  IsList(Outputs(txs))
<1>1. IsList(<< >>.outputs) \/ TRUE
  OBVIOUS
<1> DEFINE t == [outputs |-> << >>]
<1>2. IsList(t.outputs)
  BY EmptyList
<1> HIDE DEF t
<1> QED
  BY <1>2, OutputsAppend

\* The first transactions of a list are a list of transactions.
LEMMA PrefixTxns ==
    ASSUME NEW txs, IsTxns(txs), NEW n \in 0 .. Len(txs)
    PROVE  IsTxns(SubSeq(txs, 1, n))
<1>1. /\ IsList(SubSeq(txs, 1, n)) /\ Len(SubSeq(txs, 1, n)) = n
      /\ \A i \in 1 .. n : SubSeq(txs, 1, n)[i] = txs[i]
  BY PrefixList DEF IsTxns
<1>2. Len(txs) \in Nat
  BY ListFacts DEF IsTxns
<1> QED
  BY <1>1, <1>2 DEF IsTxns

\* Where the outputs of a transaction are stays when one more follows.
LEMMA OutputsPlacedAppend ==
    ASSUME NEW txs, NEW t, IsTxns(txs), IsList(t.outputs), OutputsPlaced(txs)
    PROVE  OutputsPlaced(Append(txs, t))
<1> DEFINE k == Len(txs)
           more == Append(txs, t)
           a == Outputs(txs)
           b == Outputs(more)
           o == t.outputs
<1>1. IsList(txs) /\ k \in Nat
  BY ListFacts DEF IsTxns
<1>2. /\ IsList(more) /\ Len(more) = k + 1 /\ more[k + 1] = t
      /\ \A n \in 1 .. k : more[n] = txs[n]
  BY <1>1, AppendList
<1>3. IsList(a) /\ b = a \o o
  BY OutputsAppend
<1>3a. IsList(o)
  OBVIOUS
<1> HIDE DEF a, b, o
<1>4. /\ Len(b) = Len(a) + Len(o)
      /\ \A i \in 1 .. Len(a) : b[i] = a[i]
      /\ \A i \in 1 .. Len(o) : b[Len(a) + i] = o[i]
      /\ Len(a) \in Nat /\ Len(o) \in Nat
  BY <1>3, <1>3a, ConcatLists, ListFacts
<1>5. ASSUME NEW i \in 1 .. k + 1
      PROVE  OutputsBefore(more, i) = IF i = k + 1 THEN Len(a) ELSE OutputsBefore(txs, i)
  <2> DEFINE p == SubSeq(more, 1, i - 1)
             r == SubSeq(txs, 1, i - 1)
  <2>1. i - 1 \in 0 .. k /\ i - 1 \in 0 .. Len(more)
    BY <1>1, <1>2
  <2>2. /\ IsList(p) /\ Len(p) = i - 1 /\ (\A n \in 1 .. i - 1 : p[n] = more[n])
        /\ IsList(r) /\ Len(r) = i - 1 /\ (\A n \in 1 .. i - 1 : r[n] = txs[n])
    BY <1>1, <1>2, <2>1, PrefixList
  <2> HIDE DEF p, r, more
  <2>3. \A n \in 1 .. i - 1 : p[n] = r[n]
    BY <1>1, <1>2, <2>2
  <2>4. p = r
    BY <2>2, <2>3, SameList
  <2>5. CASE i = k + 1
    <3>1. r = txs
      BY <1>1, <2>2, <2>5, SameList
    <3> QED
      BY <2>4, <2>5, <3>1 DEF OutputsBefore, p, a
  <2>6. CASE i # k + 1
    BY <2>4, <2>6 DEF OutputsBefore, p, r
  <2> QED
    BY <2>5, <2>6
<1> SUFFICES ASSUME NEW i \in 1 .. k + 1, NEW j \in 1 .. Len(more[i].outputs)
             PROVE  /\ OutputsBefore(more, i) + j \in 1 .. Len(b)
                    /\ b[OutputsBefore(more, i) + j] = more[i].outputs[j]
  BY <1>2 DEF OutputsPlaced, b
<1> HIDE DEF more, k
<1>6. CASE i = k + 1
  <2>1. more[i].outputs = o /\ OutputsBefore(more, i) = Len(a)
    BY <1>2, <1>5, <1>6 DEF o
  <2>2. Len(a) + j \in 1 .. Len(b) /\ b[Len(a) + j] = o[j]
    BY <1>4, <2>1
  <2> QED
    BY <2>1, <2>2
<1>7. CASE i # k + 1
  <2>1. i \in 1 .. k
    BY <1>1, <1>7
  <2>2. more[i] = txs[i] /\ OutputsBefore(more, i) = OutputsBefore(txs, i)
    BY <1>2, <1>5, <1>7, <2>1
  <2>3. /\ OutputsBefore(txs, i) + j \in 1 .. Len(a)
        /\ a[OutputsBefore(txs, i) + j] = txs[i].outputs[j]
    BY <2>1, <2>2 DEF OutputsPlaced, a, k
  <2>4. b[OutputsBefore(txs, i) + j] = a[OutputsBefore(txs, i) + j]
    BY <1>4, <2>3
  <2>5. OutputsBefore(txs, i) + j \in 1 .. Len(b)
    BY <1>4, <2>3
  <2> QED
    BY <2>2, <2>3, <2>4, <2>5
<1> QED
  BY <1>6, <1>7

\* The outputs of the n-th transaction start after those of the ones before.
LEMMA OutputsArePlaced ==
    ASSUME NEW txs, IsTxns(txs)
    PROVE  OutputsPlaced(txs)
<1> DEFINE S == {k \in Nat : \A q : IsTxns(q) /\ Len(q) = k => OutputsPlaced(q)}
<1>1. 0 \in S
  BY DEF OutputsPlaced
<1>2. ASSUME NEW k \in S PROVE k + 1 \in S
  <2> SUFFICES ASSUME NEW q, IsTxns(q), Len(q) = k + 1 PROVE OutputsPlaced(q)
    OBVIOUS
  <2> DEFINE f == SubSeq(q, 1, k)
             t == q[k + 1]
  <2>1. IsList(f) /\ Len(f) = k /\ q = Append(f, t)
    BY SplitLast DEF IsTxns
  <2>2. IsTxns(f)
    <3>1. k \in 0 .. Len(q)
      OBVIOUS
    <3> QED
      BY <3>1, PrefixTxns
  <2>3. IsList(t.outputs)
    <3>1. k + 1 \in 1 .. Len(q)
      OBVIOUS
    <3> QED
      BY <3>1 DEF IsTxns
  <2> HIDE DEF f, t
  <2>4. OutputsPlaced(f)
    BY <2>1, <2>2
  <2> QED
    BY <2>1, <2>2, <2>3, <2>4, OutputsPlacedAppend
<1> HIDE DEF S
<1>3. S = Nat
  BY <1>1, <1>2, NatSetInduction DEF S
<1>4. Len(txs) \in S
  BY <1>3, ListFacts DEF IsTxns
<1> QED
  BY <1>4 DEF S

-----------------------------------------------------------------------------
(* The states of the service.                                              *)

IsState(q) ==
    q \in [state_number : {q.state_number}, leaves : {q.leaves}, nullifiers : {q.nullifiers},
           last_reported_index : {q.last_reported_index}, events : {q.events},
           transaction_by_id : {q.transaction_by_id},
           transaction_id_by_hash : {q.transaction_id_by_hash},
           address_from_asset : {q.address_from_asset},
           contract_address : {q.contract_address},
           num_confirmations : {q.num_confirmations}]

\* What the handler of a sponsored asset makes of a state.
LEMMA WithAsset ==
    ASSUME NEW q, IsState(q), NEW x
    PROVE  LET s == withAsset(q, x)
           IN  /\ IsState(s)
               /\ s.events = q.events /\ s.leaves = q.leaves
               /\ s.transaction_by_id = q.transaction_by_id
               /\ s.transaction_id_by_hash = q.transaction_id_by_hash
               /\ s.nullifiers = q.nullifiers /\ s.state_number = q.state_number
               /\ s.last_reported_index = x.index
               /\ s.address_from_asset
                    = q.address_from_asset \cup {<<x.event.asset, x.event.erc20>>}
               /\ s.contract_address = q.contract_address
BY DEF IsState, withAsset

\* Connecting changes the address and the confirmations only.
LEMMA ConnectedFields ==
    ASSUME NEW q, IsState(q)
    PROVE  LET s == connected(q)
           IN  /\ IsState(s)
               /\ s.events = q.events /\ s.leaves = q.leaves
               /\ s.transaction_by_id = q.transaction_by_id
               /\ s.transaction_id_by_hash = q.transaction_id_by_hash
               /\ s.nullifiers = q.nullifiers /\ s.state_number = q.state_number
               /\ s.last_reported_index = q.last_reported_index
               /\ s.address_from_asset = q.address_from_asset
               /\ s.contract_address = cape_address
               /\ q.contract_address = cape_address => s = q
BY DEF IsState, connected

\* A new state has the shape of a state.
LEMMA NewStateFields == IsState(NewState)
BY DEF IsState, NewState

\* The indexes of transactions with those of a block.
TransactionsById(q, txs) ==
    InsertAll(q.transaction_by_id, LAMBDA i : <<q.state_number, i - 1>>,
              LAMBDA i : [transition |-> txs[i],
                          output_start |-> Len(q.leaves) + OutputsBefore(txs, i)],
              Len(txs))

IdsByHash(q, txs) ==
    InsertAll(q.transaction_id_by_hash, LAMBDA i : txs[i],
              LAMBDA i : <<q.state_number, i - 1>>, Len(txs))

\* The transactions of a block with the pending wraps, and their memos.
Committed(wraps, x) == pending_commit(ModelTxns(x.event), wraps)

MemosOf(q, wraps, x) ==
    memo_events(x.event, ModelTxns(x.event), q.leaves, Outputs(Committed(wraps, x)),
                q.state_number)

\* What the handler of a block makes of a state.
LEMMA WithBlock ==
    ASSUME NEW q, IsState(q), NEW wraps, NEW x
    PROVE  /\ IsState(withBlock(q, wraps, x))
           /\ withBlock(q, wraps, x).events
                = Append(q.events, CommitEvent(Committed(wraps, x), q.state_number))
                    \o MemosOf(q, wraps, x)
           /\ withBlock(q, wraps, x).leaves = q.leaves \o Outputs(Committed(wraps, x))
           /\ withBlock(q, wraps, x).transaction_by_id = TransactionsById(q, ModelTxns(x.event))
           /\ withBlock(q, wraps, x).transaction_id_by_hash = IdsByHash(q, ModelTxns(x.event))
           /\ withBlock(q, wraps, x).nullifiers
                = q.nullifiers \cup ToSet(Log!SpentBy(ModelTxns(x.event)))
           /\ withBlock(q, wraps, x).state_number = q.state_number + 1
           /\ withBlock(q, wraps, x).last_reported_index = x.index
           /\ withBlock(q, wraps, x).address_from_asset = q.address_from_asset
           /\ withBlock(q, wraps, x).contract_address = q.contract_address
<1> DEFINE block_id == q.state_number
           a == Append(q.events, CommitEvent(Committed(wraps, x), block_id))
                  \o MemosOf(q, wraps, x)
           b == q.leaves \o Outputs(Committed(wraps, x))
           c == TransactionsById(q, ModelTxns(x.event))
           d == IdsByHash(q, ModelTxns(x.event))
           e == q.nullifiers \cup ToSet(Log!SpentBy(ModelTxns(x.event)))
<1>1. withBlock(q, wraps, x)
        = [q EXCEPT !.events = a, !.leaves = b, !.transaction_by_id = c,
                    !.transaction_id_by_hash = d, !.nullifiers = e,
                    !.state_number = block_id + 1, !.last_reported_index = x.index]
  BY DEF withBlock, TransactionsById, IdsByHash, Committed, MemosOf
<1> SUFFICES LET s == withBlock(q, wraps, x)
             IN  /\ IsState(s)
                 /\ s.events = a /\ s.leaves = b /\ s.transaction_by_id = c
                 /\ s.transaction_id_by_hash = d /\ s.nullifiers = e
                 /\ s.state_number = block_id + 1
                 /\ s.last_reported_index = x.index
                 /\ s.address_from_asset = q.address_from_asset
                 /\ s.contract_address = q.contract_address
  OBVIOUS
<1> HIDE DEF a, b, c, d, e
<1> DEFINE new == [q EXCEPT !.events = a, !.leaves = b, !.transaction_by_id = c,
                            !.transaction_id_by_hash = d, !.nullifiers = e,
                            !.state_number = block_id + 1, !.last_reported_index = x.index]
<1>2. /\ IsState(new)
      /\ new.events = a /\ new.leaves = b /\ new.transaction_by_id = c
      /\ new.transaction_id_by_hash = d /\ new.nullifiers = e
      /\ new.state_number = block_id + 1 /\ new.last_reported_index = x.index
      /\ new.address_from_asset = q.address_from_asset
      /\ new.contract_address = q.contract_address
  <2> DEFINE f == block_id + 1
             g == x.index
  <2> HIDE DEF f, g
  <2>1. LET s == [q EXCEPT !.events = a, !.leaves = b, !.transaction_by_id = c,
                           !.transaction_id_by_hash = d, !.nullifiers = e,
                           !.state_number = f, !.last_reported_index = g]
        IN  /\ IsState(s)
            /\ s.events = a /\ s.leaves = b /\ s.transaction_by_id = c
            /\ s.transaction_id_by_hash = d /\ s.nullifiers = e /\ s.state_number = f
            /\ s.last_reported_index = g /\ s.address_from_asset = q.address_from_asset
            /\ s.contract_address = q.contract_address
    BY DEF IsState
  <2> QED
    BY <2>1 DEF f, g
<1>3. withBlock(q, wraps, x) = new
  BY <1>1
<1> HIDE DEF new
<1> QED
  BY <1>2, <1>3

\* What the handler of the faucet's event makes of a state.
LEMMA WithFaucet ==
    ASSUME NEW q, IsState(q), NEW x
    PROVE  LET s == withFaucet(q, x)
               ro == x.event.opening
               grant == Faucet(x.event)
           IN  /\ IsState(s)
               /\ s.leaves = Append(q.leaves, ro)
               /\ s.events =
                    <<CommitEvent(<<grant>>, 0),
                      MemosEvent(<<[memo |-> ro, commitment |-> ro, uid |-> Len(q.leaves)]>>,
                                 <<0, 0, grant>>)>>
               /\ s.transaction_by_id
                    = Insert(q.transaction_by_id, <<0, 0>>,
                             [transition |-> grant, output_start |-> 0])
               /\ s.transaction_id_by_hash = Insert(q.transaction_id_by_hash, grant, <<0, 0>>)
               /\ s.nullifiers = q.nullifiers
               /\ s.state_number = q.state_number
               /\ s.last_reported_index = x.index
               /\ s.address_from_asset = q.address_from_asset
               /\ s.contract_address = q.contract_address
<1> DEFINE ro == x.event.opening
           grant == Faucet(x.event)
           a == <<CommitEvent(<<grant>>, 0),
                  MemosEvent(<<[memo |-> ro, commitment |-> ro, uid |-> Len(q.leaves)]>>,
                             <<0, 0, grant>>)>>
           b == Append(q.leaves, ro)
           c == Insert(q.transaction_by_id, <<0, 0>>,
                       [transition |-> grant, output_start |-> 0])
           d == Insert(q.transaction_id_by_hash, grant, <<0, 0>>)
<1>1. withFaucet(q, x)
        = [q EXCEPT !.leaves = b, !.events = a, !.transaction_by_id = c,
                    !.transaction_id_by_hash = d, !.last_reported_index = x.index]
  BY DEF withFaucet
<1> SUFFICES LET s == withFaucet(q, x)
             IN  /\ IsState(s)
                 /\ s.events = a /\ s.leaves = b /\ s.transaction_by_id = c
                 /\ s.transaction_id_by_hash = d /\ s.nullifiers = q.nullifiers
                 /\ s.state_number = q.state_number
                 /\ s.last_reported_index = x.index
                 /\ s.address_from_asset = q.address_from_asset
                 /\ s.contract_address = q.contract_address
  OBVIOUS
<1> HIDE DEF a, b, c, d
<1> DEFINE new == [q EXCEPT !.leaves = b, !.events = a, !.transaction_by_id = c,
                            !.transaction_id_by_hash = d, !.last_reported_index = x.index]
<1>2. /\ IsState(new)
      /\ new.events = a /\ new.leaves = b /\ new.transaction_by_id = c
      /\ new.transaction_id_by_hash = d /\ new.nullifiers = q.nullifiers
      /\ new.state_number = q.state_number /\ new.last_reported_index = x.index
      /\ new.address_from_asset = q.address_from_asset
      /\ new.contract_address = q.contract_address
  <2> DEFINE g == x.index
  <2> HIDE DEF g
  <2>1. LET s == [q EXCEPT !.leaves = b, !.events = a, !.transaction_by_id = c,
                           !.transaction_id_by_hash = d, !.last_reported_index = g]
        IN  /\ IsState(s)
            /\ s.events = a /\ s.leaves = b /\ s.transaction_by_id = c
            /\ s.transaction_id_by_hash = d /\ s.nullifiers = q.nullifiers
            /\ s.state_number = q.state_number
            /\ s.last_reported_index = g /\ s.address_from_asset = q.address_from_asset
            /\ s.contract_address = q.contract_address
    BY DEF IsState
  <2> QED
    BY <2>1 DEF g
<1>3. withFaucet(q, x) = new
  BY <1>1
<1> HIDE DEF new
<1> QED
  BY <1>2, <1>3

-----------------------------------------------------------------------------
(* Every transaction of a block is found by its hash.                      *)

\* The outputs of a transaction are the leaves from a position on.
LeavesFrom(leaves, start, outputs) ==
    \A j \in 1 .. Len(outputs) :
        start + j \in 1 .. Len(leaves) /\ leaves[start + j] = outputs[j]

FoundIn(q) ==
    /\ IsState(q)
    /\ q.state_number \in Nat
    /\ IsList(q.leaves)
    /\ \A h \in DOMAIN q.transaction_id_by_hash :
          h.type # "FAUCET" =>
             \E b, i \in Nat :
                /\ b < q.state_number
                /\ q.transaction_id_by_hash[h] = <<b, i>>
                /\ <<b, i>> \in DOMAIN q.transaction_by_id
                /\ IsList(h.outputs)
                /\ q.transaction_by_id[<<b, i>>].transition = h
                /\ q.transaction_by_id[<<b, i>>].output_start \in Nat
                /\ LeavesFrom(q.leaves, q.transaction_by_id[<<b, i>>].output_start, h.outputs)

\* The decoder gives a list of the notes of the block.
LEMMA DecodedTxns ==
    ASSUME NEW e, IsEvent(e), e.event = "BlockCommitted"
    PROVE  /\ IsTxns(ModelTxns(e))
           /\ Len(ModelTxns(e)) = Len(e.notes)
           /\ \A i \in 1 .. Len(e.notes) : \E j \in 1 .. Len(e.notes) :
                 ModelTxns(e)[i] = e.notes[j]
<1> DEFINE notes == e.notes
           decoded == into_cape_transactions(from_cape_transactions(notes))
<1>1. IsList(notes) /\ \A n \in ToSet(notes) : IsNote(n)
  BY DEF IsEvent
<1>2. /\ notes \in Seq(ToSet(notes)) /\ Len(notes) \in Nat
      /\ \A i \in 1 .. Len(notes) : notes[i] \in ToSet(notes)
  BY <1>1, ListFacts
<1>3. \A i \in 1 .. Len(notes) : notes[i].type \in Types /\ IsList(notes[i].outputs)
  BY <1>1, <1>2 DEF IsNote
<1>4. /\ DOMAIN decoded = 1 .. Len(notes)
      /\ \A i \in 1 .. Len(notes) : \E j : Mirror(notes, i, j)
      /\ \A i \in 1 .. Len(notes) : \A j : Mirror(notes, i, j) => decoded[i] = notes[j]
  BY <1>2, <1>3, DecodedNote
<1>5. \A i \in 1 .. Len(notes) : \E j \in 1 .. Len(notes) : decoded[i] = notes[j]
  BY <1>4 DEF Mirror
<1>6. decoded = [i \in DOMAIN decoded |-> decoded[i]]
  BY DEF into_cape_transactions
<1>7. ModelTxns(e) = decoded
  BY DEF ModelTxns
<1> HIDE DEF decoded, notes
<1>8. \A i \in 1 .. Len(notes) : decoded[i] \in ToSet(notes)
  BY <1>2, <1>5
<1>9. decoded \in Seq(ToSet(notes)) /\ Len(decoded) = Len(notes)
  BY <1>2, <1>4, <1>6, <1>8
<1>10. IsList(decoded)
  BY <1>9, SeqIsList
<1>11. \A i \in 1 .. Len(decoded) : IsList(decoded[i].outputs)
  BY <1>3, <1>5, <1>9
<1> QED
  BY <1>5, <1>7, <1>9, <1>10, <1>11 DEF IsTxns, notes

\* Transactions followed by others.
LEMMA ConcatTxns ==
    ASSUME NEW txs, NEW wraps, IsTxns(txs), IsTxns(wraps)
    PROVE  /\ IsTxns(txs \o wraps)
           /\ Len(txs \o wraps) = Len(txs) + Len(wraps)
           /\ \A i \in 1 .. Len(txs) :
                 /\ (txs \o wraps)[i] = txs[i]
                 /\ OutputsBefore(txs \o wraps, i) = OutputsBefore(txs, i)
<1> DEFINE all == txs \o wraps
<1>1. IsList(txs) /\ IsList(wraps) /\ Len(txs) \in Nat /\ Len(wraps) \in Nat
  BY ListFacts DEF IsTxns
<1>2. /\ IsList(all) /\ Len(all) = Len(txs) + Len(wraps)
      /\ \A i \in 1 .. Len(txs) : all[i] = txs[i]
      /\ \A i \in 1 .. Len(wraps) : all[Len(txs) + i] = wraps[i]
  BY <1>1, ConcatLists
<1> HIDE DEF all
<1>3. ASSUME NEW i \in 1 .. Len(all) PROVE IsList(all[i].outputs)
  <2>1. CASE i \in 1 .. Len(txs)
    BY <1>2, <2>1 DEF IsTxns
  <2>2. CASE i \notin 1 .. Len(txs)
    <3>1. i - Len(txs) \in 1 .. Len(wraps) /\ i = Len(txs) + (i - Len(txs))
      BY <1>1, <1>2, <2>2
    <3>2. all[i] = wraps[i - Len(txs)]
      BY <1>2, <3>1
    <3> QED
      BY <3>1, <3>2 DEF IsTxns
  <2> QED
    BY <2>1, <2>2
<1>4. ASSUME NEW i \in 1 .. Len(txs)
      PROVE  OutputsBefore(all, i) = OutputsBefore(txs, i)
  <2> DEFINE p == SubSeq(all, 1, i - 1)
             r == SubSeq(txs, 1, i - 1)
  <2>1. i - 1 \in 0 .. Len(all) /\ i - 1 \in 0 .. Len(txs)
    BY <1>1, <1>2
  <2>2. /\ IsList(p) /\ Len(p) = i - 1 /\ (\A n \in 1 .. i - 1 : p[n] = all[n])
        /\ IsList(r) /\ Len(r) = i - 1 /\ (\A n \in 1 .. i - 1 : r[n] = txs[n])
    BY <1>1, <1>2, <2>1, PrefixList
  <2> HIDE DEF p, r
  <2>3. \A n \in 1 .. i - 1 : p[n] = r[n]
    BY <1>1, <1>2, <2>2
  <2>4. p = r
    BY <2>2, <2>3, SameList
  <2> QED
    BY <2>4 DEF OutputsBefore, p, r
<1> QED
  BY <1>2, <1>3, <1>4 DEF IsTxns, all

\* More leaves do not move the ones there are.
LEMMA MoreLeaves ==
    ASSUME NEW leaves, NEW more, IsList(leaves), IsList(more), NEW start \in Nat, NEW outputs,
           LeavesFrom(leaves, start, outputs)
    PROVE  LeavesFrom(leaves \o more, start, outputs)
<1>1. /\ Len(leaves \o more) = Len(leaves) + Len(more)
      /\ \A i \in 1 .. Len(leaves) : (leaves \o more)[i] = leaves[i]
  BY ConcatLists
<1>2. Len(leaves) \in Nat /\ Len(more) \in Nat
  BY ListFacts
<1>3. \A i \in 1 .. Len(leaves) : i \in 1 .. Len(leaves \o more)
  BY <1>1, <1>2
<1> QED
  BY <1>1, <1>3 DEF LeavesFrom

\* The outputs of a new transaction are the leaves that its block adds.
LEMMA NewLeaves ==
    ASSUME NEW leaves, IsList(leaves), NEW txs, IsTxns(txs), NEW wraps, IsTxns(wraps),
           NEW i \in 1 .. Len(txs)
    PROVE  LET created == Outputs(pending_commit(txs, wraps))
               start == Len(leaves) + OutputsBefore(txs, i)
           IN  /\ IsList(created)
               /\ start \in Nat
               /\ IsList(txs[i].outputs)
               /\ LeavesFrom(leaves \o created, start, txs[i].outputs)
<1> DEFINE all == txs \o wraps
           created == Outputs(all)
           before == OutputsBefore(txs, i)
<1>1. /\ IsTxns(all) /\ Len(all) = Len(txs) + Len(wraps)
      /\ all[i] = txs[i] /\ OutputsBefore(all, i) = before
  BY ConcatTxns
<1>2. Len(txs) \in Nat /\ Len(wraps) \in Nat /\ Len(leaves) \in Nat
  BY ListFacts DEF IsTxns
<1>3. i \in 1 .. Len(all)
  BY <1>1, <1>2
<1>4. IsList(created)
  BY <1>1, OutputsList
<1>5. \A j \in 1 .. Len(txs[i].outputs) :
         before + j \in 1 .. Len(created) /\ created[before + j] = txs[i].outputs[j]
  <2>1. OutputsPlaced(all)
    BY <1>1, OutputsArePlaced
  <2> HIDE DEF all, before
  <2> QED
    BY <1>1, <1>3, <2>1 DEF OutputsPlaced
<1>6. before \in Nat
  <2> DEFINE p == SubSeq(txs, 1, i - 1)
  <2>1. i - 1 \in 0 .. Len(txs)
    BY <1>2
  <2>2. IsTxns(p)
    BY <2>1, PrefixTxns
  <2> HIDE DEF p
  <2>3. IsList(Outputs(p))
    BY <2>2, OutputsList
  <2>4. Len(Outputs(p)) \in Nat
    BY <2>3, ListFacts
  <2> QED
    BY <2>4 DEF OutputsBefore, p
<1> HIDE DEF created, before, all
<1>7. /\ Len(leaves \o created) = Len(leaves) + Len(created)
      /\ \A k \in 1 .. Len(created) : (leaves \o created)[Len(leaves) + k] = created[k]
      /\ Len(created) \in Nat
  BY <1>4, ConcatLists, ListFacts
<1>8. LeavesFrom(leaves \o created, Len(leaves) + before, txs[i].outputs)
  <2> SUFFICES ASSUME NEW j \in 1 .. Len(txs[i].outputs)
               PROVE  /\ Len(leaves) + before + j \in 1 .. Len(leaves \o created)
                      /\ (leaves \o created)[Len(leaves) + before + j] = txs[i].outputs[j]
    BY DEF LeavesFrom
  <2>0. IsList(txs[i].outputs)
    BY DEF IsTxns
  <2>1. j \in Nat
    BY <2>0, ListFacts
  <2>2. /\ before + j \in 1 .. Len(created) /\ created[before + j] = txs[i].outputs[j]
    BY <1>5
  <2>3. Len(leaves) + before + j = Len(leaves) + (before + j)
    BY <1>2, <1>6, <2>1
  <2>4. (leaves \o created)[Len(leaves) + (before + j)] = created[before + j]
    BY <1>7, <2>2
  <2>5. Len(leaves) + (before + j) \in 1 .. Len(leaves \o created)
    BY <1>2, <1>7, <2>2
  <2> QED
    BY <2>2, <2>3, <2>4, <2>5
<1>9. IsList(txs[i].outputs) /\ Len(leaves) + before \in Nat
  BY <1>2, <1>6 DEF IsTxns
<1> QED
  BY <1>4, <1>8, <1>9 DEF pending_commit, created, before, all

\* After a block, its transactions and the ones before are found.
LEMMA BlockFound ==
    ASSUME NEW q, FoundIn(q), NEW wraps, IsTxns(wraps), NEW x, IsEvent(x.event),
           x.event.event = "BlockCommitted"
    PROVE  FoundIn(withBlock(q, wraps, x))
<1>a. IsState(q)
  BY DEF FoundIn
<1>b. /\ IsState(withBlock(q, wraps, x))
      /\ withBlock(q, wraps, x).leaves = q.leaves \o Outputs(Committed(wraps, x))
      /\ withBlock(q, wraps, x).transaction_by_id = TransactionsById(q, ModelTxns(x.event))
      /\ withBlock(q, wraps, x).transaction_id_by_hash = IdsByHash(q, ModelTxns(x.event))
      /\ withBlock(q, wraps, x).state_number = q.state_number + 1
  BY <1>a, WithBlock
<1> DEFINE s == withBlock(q, wraps, x)
           txs == ModelTxns(x.event)
           n == Len(txs)
           b == q.state_number
           created == Outputs(pending_commit(txs, wraps))
           leaves == q.leaves \o created
           old == q.transaction_by_id
           new == s.transaction_by_id
           hashes == s.transaction_id_by_hash
<1>1. IsState(q) /\ b \in Nat /\ IsList(q.leaves)
  BY DEF FoundIn
<1>2. /\ IsState(s) /\ s.leaves = leaves /\ s.state_number = b + 1
      /\ new = TransactionsById(q, txs) /\ hashes = IdsByHash(q, txs)
  BY <1>b DEF Committed
<1>3. IsTxns(txs) /\ n \in Nat
  BY DecodedTxns, ListFacts DEF IsTxns
<1>4. /\ IsList(created)
      /\ \A i \in 1 .. n :
            /\ Len(q.leaves) + OutputsBefore(txs, i) \in Nat
            /\ IsList(txs[i].outputs)
            /\ LeavesFrom(leaves, Len(q.leaves) + OutputsBefore(txs, i), txs[i].outputs)
  <2>1. IsList(created)
    <3>1. IsTxns(pending_commit(txs, wraps))
      BY <1>3, ConcatTxns DEF pending_commit
    <3> QED
      BY <3>1, OutputsList
  <2> QED
    BY <1>1, <1>3, <2>1, NewLeaves
<1> HIDE DEF s, txs, n, b, created
<1>5. \A i \in 1 .. n :
         /\ <<b, i - 1>> \in DOMAIN new
         /\ new[<<b, i - 1>>] = [transition |-> txs[i],
               output_start |-> Len(q.leaves) + OutputsBefore(txs, i)]
  <2> SUFFICES ASSUME NEW i \in 1 .. n
               PROVE  /\ <<b, i - 1>> \in DOMAIN new
                      /\ new[<<b, i - 1>>] = [transition |-> txs[i],
                            output_start |-> Len(q.leaves) + OutputsBefore(txs, i)]
    OBVIOUS
  <2> DEFINE c == CHOOSE j \in 1 .. n : <<b, j - 1>> = <<b, i - 1>>
  <2>1. c \in 1 .. n /\ <<b, c - 1>> = <<b, i - 1>>
    OBVIOUS
  <2>2. c = i
    <3>1. c - 1 = i - 1
      BY <2>1
    <3> HIDE DEF c
    <3> QED
      BY <2>1, <3>1
  <2>3. <<b, i - 1>> \in {<<b, j - 1>> : j \in 1 .. n}
    OBVIOUS
  <2> QED
    BY <1>2, <2>2, <2>3 DEF InsertAll, TransactionsById, b, n
<1>6. ASSUME NEW k \in DOMAIN old, \A i : k # <<b, i>>
      PROVE  k \in DOMAIN new /\ new[k] = old[k]
  <2>1. k \notin {<<b, j - 1>> : j \in 1 .. n}
    BY <1>6
  <2> QED
    BY <1>2, <2>1 DEF InsertAll, TransactionsById, b, n
<1>7. ASSUME NEW h \in DOMAIN hashes
      PROVE  \/ \E i \in 1 .. n : h = txs[i] /\ hashes[h] = <<b, i - 1>>
             \/ h \in DOMAIN q.transaction_id_by_hash /\ hashes[h] = q.transaction_id_by_hash[h]
  <2>1. CASE h \in {txs[i] : i \in 1 .. n}
    <3> DEFINE c == CHOOSE j \in 1 .. n : txs[j] = h
    <3>1. c \in 1 .. n /\ txs[c] = h
      BY <2>1
    <3>2. hashes[h] = <<b, c - 1>>
      BY <1>2, <1>7, <2>1 DEF InsertAll, IdsByHash, b, n
    <3> QED
      BY <3>1, <3>2
  <2>2. CASE h \notin {txs[i] : i \in 1 .. n}
    BY <1>2, <1>7, <2>2 DEF InsertAll, IdsByHash, b, n
  <2> QED
    BY <2>1, <2>2
<1>8. IsList(leaves)
  BY <1>1, <1>4, ConcatLists
<1>9. ASSUME NEW h \in DOMAIN hashes, h.type # "FAUCET"
      PROVE  \E c, i \in Nat :
                /\ c < b + 1
                /\ hashes[h] = <<c, i>>
                /\ <<c, i>> \in DOMAIN new
                /\ IsList(h.outputs)
                /\ new[<<c, i>>].transition = h
                /\ new[<<c, i>>].output_start \in Nat
                /\ LeavesFrom(leaves, new[<<c, i>>].output_start, h.outputs)
  <2>1. CASE \E i \in 1 .. n : h = txs[i] /\ hashes[h] = <<b, i - 1>>
    <3>1. PICK i \in 1 .. n : h = txs[i] /\ hashes[h] = <<b, i - 1>>
      BY <2>1
    <3>2. i - 1 \in Nat /\ b < b + 1
      BY <1>1 DEF b
    <3>3. /\ new[<<b, i - 1>>].transition = txs[i]
          /\ new[<<b, i - 1>>].output_start = Len(q.leaves) + OutputsBefore(txs, i)
      <4> HIDE DEF new, hashes
      <4>1. new[<<b, i - 1>>] = [transition |-> txs[i],
               output_start |-> Len(q.leaves) + OutputsBefore(txs, i)]
        BY <1>5
      <4> QED
        BY <4>1
    <3> HIDE DEF new, leaves, hashes
    <3> QED
      BY <1>1, <1>4, <1>5, <3>1, <3>2, <3>3 DEF b
  <2>2. CASE h \in DOMAIN q.transaction_id_by_hash /\ hashes[h] = q.transaction_id_by_hash[h]
    <3>1. PICK c, i \in Nat :
                /\ c < b
                /\ q.transaction_id_by_hash[h] = <<c, i>>
                /\ <<c, i>> \in DOMAIN old
                /\ IsList(h.outputs)
                /\ old[<<c, i>>].transition = h
                /\ old[<<c, i>>].output_start \in Nat
                /\ LeavesFrom(q.leaves, old[<<c, i>>].output_start, h.outputs)
      BY <1>9, <2>2 DEF FoundIn, b
    <3>2. \A j : <<c, i>> # <<b, j>>
      BY <1>1, <3>1 DEF b
    <3>3. <<c, i>> \in DOMAIN new /\ new[<<c, i>>] = old[<<c, i>>]
      BY <1>6, <3>1, <3>2
    <3>4. LeavesFrom(leaves, old[<<c, i>>].output_start, h.outputs)
      BY <1>1, <1>4, <3>1, MoreLeaves
    <3>5. c < b + 1
      BY <1>1, <3>1 DEF b
    <3> HIDE DEF new, leaves, hashes, old
    <3> QED
      BY <2>2, <3>1, <3>3, <3>4, <3>5
  <2> QED
    BY <1>7, <1>9, <2>1, <2>2
<1>10. b + 1 \in Nat
  BY <1>1 DEF b
<1> HIDE DEF leaves
<1>11. FoundIn(s)
  BY <1>2, <1>8, <1>9, <1>10 DEF FoundIn
<1> QED
  BY <1>11 DEF s

\* The faucet indexes its own transaction only, before all others.
LEMMA FaucetFound ==
    ASSUME NEW q, FoundIn(q), isFirst(q), NEW x
    PROVE  FoundIn(withFaucet(q, x))
<1> DEFINE s == withFaucet(q, x)
           grant == Faucet(x.event)
<1>1. IsState(q) /\ q.state_number = 0 /\ IsList(q.leaves)
  BY DEF FoundIn, isFirst
<1>2. /\ IsState(s) /\ s.leaves = Append(q.leaves, x.event.opening)
      /\ s.state_number = q.state_number
      /\ s.transaction_id_by_hash = Insert(q.transaction_id_by_hash, grant, <<0, 0>>)
  BY <1>1, WithFaucet
<1>3. grant.type = "FAUCET"
  BY DEF Faucet
<1>4. \A h \in DOMAIN q.transaction_id_by_hash : h.type = "FAUCET"
  <2> SUFFICES ASSUME NEW h \in DOMAIN q.transaction_id_by_hash, h.type # "FAUCET"
               PROVE  FALSE
    OBVIOUS
  <2>1. \E b, i \in Nat : b < q.state_number
    BY DEF FoundIn
  <2> QED
    BY <1>1, <2>1
<1> HIDE DEF s, grant
<1>5. \A h \in DOMAIN s.transaction_id_by_hash : h.type = "FAUCET"
  BY <1>2, <1>3, <1>4 DEF Insert
<1>6. IsList(s.leaves)
  <2>1. \A a, e : IsList(a) => IsList(Append(a, e))
    BY AppendList
  <2> QED
    BY <1>1, <1>2, <2>1
<1> QED
  BY <1>1, <1>2, <1>5, <1>6 DEF FoundIn, s

\* A sponsored asset leaves the transactions alone.
LEMMA AssetFound ==
    ASSUME NEW q, FoundIn(q), NEW x
    PROVE  FoundIn(withAsset(q, x))
<1>1. IsState(q)
  BY DEF FoundIn
<1> DEFINE s == withAsset(q, x)
<1>2. /\ IsState(s) /\ s.leaves = q.leaves /\ s.state_number = q.state_number
      /\ s.transaction_by_id = q.transaction_by_id
      /\ s.transaction_id_by_hash = q.transaction_id_by_hash
  BY <1>1, WithAsset
<1> HIDE DEF s
<1> QED
  BY <1>2 DEF FoundIn, s

\* Connecting leaves the transactions alone.
LEMMA ConnectedFound ==
    ASSUME NEW q, FoundIn(q)
    PROVE  FoundIn(connected(q))
<1>1. IsState(q)
  BY DEF FoundIn
<1> DEFINE s == connected(q)
<1>2. /\ IsState(s) /\ s.leaves = q.leaves /\ s.state_number = q.state_number
      /\ s.transaction_by_id = q.transaction_by_id
      /\ s.transaction_id_by_hash = q.transaction_id_by_hash
  BY <1>1, ConnectedFields
<1> HIDE DEF s
<1> QED
  BY <1>2 DEF FoundIn, s

-----------------------------------------------------------------------------
(* The indexed events of a chain.                                          *)

IsChain(c) ==
    IsList(c) /\ \A b \in 1 .. Len(c) : IsList(c[b]) /\ \A e \in ToSet(c[b]) : IsEvent(e)

\* An event with its index.
IsEntry(x) == x.index \in Indexes /\ IsEvent(x.event)

IsRange(s) == IsList(s) /\ \A k \in 1 .. Len(s) : IsEntry(s[k])

EventsOf(c, b) == [i \in DOMAIN c[b] |-> [index |-> <<b, i>>, event |-> c[b][i]]]

Entries(c, first, last) == [b \in 1 .. last |-> IF b < first THEN << >> ELSE EventsOf(c, b)]

EventsIn(c, first, last) == FlattenSeq(Entries(c, first, last))

\* The events of the model, for any chain.
LEMMA SameEvents == \A first, last : IndexedEvents(first, last) = EventsIn(chain, first, last)
BY DEF IndexedEvents, EventsIn, Entries, EventsOf

\* No blocks, no events.
LEMMA NoEvents == \A c, first : EventsIn(c, first, 0) = << >>
<1> SUFFICES ASSUME NEW c, NEW first PROVE EventsIn(c, first, 0) = << >>
  OBVIOUS
<1>1. Entries(c, first, 0) = << >>
  BY DEF Entries
<1> QED
  BY <1>1, FlattenEmpty DEF EventsIn

\* The events of one block.
LEMMA BlockEntries ==
    ASSUME NEW c, IsChain(c), NEW b \in 1 .. Len(c)
    PROVE  /\ IsList(EventsOf(c, b)) /\ Len(EventsOf(c, b)) = Len(c[b])
           /\ \A i \in 1 .. Len(c[b]) :
                 /\ EventsOf(c, b)[i].index = <<b, i>>
                 /\ EventsOf(c, b)[i].event = c[b][i]
                 /\ IsEvent(c[b][i])
<1> DEFINE s == c[b]
           x(i) == [index |-> <<b, i>>, event |-> s[i]]
           n == Len(s)
<1>1. IsList(s) /\ \A e \in ToSet(s) : IsEvent(e)
  BY DEF IsChain
<1>2. n \in Nat /\ DOMAIN s = 1 .. n /\ \A i \in 1 .. n : s[i] \in ToSet(s)
  BY <1>1, ListFacts
<1>3. EventsOf(c, b) = [i \in 1 .. n |-> x(i)]
  BY <1>2 DEF EventsOf
<1> HIDE DEF n, s
<1> DEFINE D == {x(i) : i \in 1 .. n}
           f == [i \in 1 .. n |-> x(i)]
<1>4. \A i \in 1 .. n : x(i) \in D /\ x(i).index = <<b, i>> /\ x(i).event = s[i]
  OBVIOUS
<1> HIDE DEF x, D
<1>5. f \in [1 .. n -> D]
  BY <1>4
<1>6. f \in Seq(D) /\ Len(f) = n
  BY <1>2, <1>5
<1>7. \A i \in 1 .. n : f[i] = x(i)
  OBVIOUS
<1> HIDE DEF f
<1>8. IsList(f)
  BY <1>6, SeqIsList
<1> QED
  BY <1>1, <1>2, <1>3, <1>4, <1>6, <1>7, <1>8 DEF s, n, f

\* The events up to a block, and those of the next one.
LEMMA NextEvents ==
    ASSUME NEW c, IsChain(c), NEW first, NEW n \in Nat, n + 1 <= Len(c)
    PROVE  EventsIn(c, first, n + 1)
             = EventsIn(c, first, n)
                 \o (IF n + 1 < first THEN << >> ELSE EventsOf(c, n + 1))
<1> DEFINE item(b) == IF b < first THEN << >> ELSE EventsOf(c, b)
           D == UNION {ToSet(item(b)) : b \in 1 .. n + 1}
           a == Entries(c, first, n)
           z == Entries(c, first, n + 1)
           t == item(n + 1)
           L == Seq(D)
<1>0. Len(c) \in Nat
  BY ListFacts DEF IsChain
<1>1. \A b \in 1 .. n + 1 : item(b) \in L
  <2> SUFFICES ASSUME NEW b \in 1 .. n + 1 PROVE item(b) \in Seq(D)
    OBVIOUS
  <2>0. b \in 1 .. Len(c)
    BY <1>0
  <2>1. IsList(item(b))
    BY <2>0, BlockEntries, EmptyList
  <2>2. item(b) \in Seq(ToSet(item(b)))
    BY <2>1 DEF IsList
  <2>3. ToSet(item(b)) \subseteq D
    OBVIOUS
  <2> HIDE DEF item, D
  <2> QED
    BY <2>2, <2>3
<1>2. a = [b \in 1 .. n |-> item(b)] /\ z = [b \in 1 .. n + 1 |-> item(b)]
  BY DEF Entries
<1> HIDE DEF item, D, a, z, L
<1>3. a \in [1 .. n -> L] /\ z \in [1 .. n + 1 -> L] /\ t \in L
  BY <1>1, <1>2
<1>4. a \in Seq(L) /\ Len(a) = n /\ z \in Seq(L) /\ Len(z) = n + 1
  BY <1>3
<1>5. z = Append(a, t)
  <2>1. Append(a, t) \in Seq(L) /\ Len(Append(a, t)) = n + 1
        /\ \A b \in 1 .. n + 1 : Append(a, t)[b] = z[b]
    BY <1>2, <1>3, <1>4
  <2> QED
    BY <1>4, <2>1
<1>6. FlattenSeq(z) = FlattenSeq(a) \o t
  BY <1>3, <1>4, <1>5, FlattenAppend DEF L
<1> QED
  BY <1>6 DEF EventsIn, a, z, item

\* The order of the indexes.
Before(i, j) == i[1] < j[1] \/ (i[1] = j[1] /\ i[2] < j[2])

Ordered(s) == \A k, l \in 1 .. Len(s) : k < l => Before(s[k].index, s[l].index)

\* The entries of the blocks from the first to the n-th one.
IsPart(s, first, n) ==
    /\ IsRange(s)
    /\ Ordered(s)
    /\ \A k \in 1 .. Len(s) : /\ s[k].index[1] \in 1 .. n /\ first <= s[k].index[1]
                              /\ s[k].index[2] >= 1

\* No events are part of any range.
LEMMA EmptyPart == \A first, n : IsPart(<< >>, first, n)
BY EmptyList DEF IsPart, IsRange, Ordered

\* The events of one more block.
LEMMA NextPart ==
    ASSUME NEW c, IsChain(c), NEW first \in Int, NEW n \in Nat, n + 1 <= Len(c),
           IsPart(EventsIn(c, first, n), first, n)
    PROVE  IsPart(EventsIn(c, first, n + 1), first, n + 1)
<1> DEFINE s == EventsIn(c, first, n)
           t == EventsOf(c, n + 1)
           m == Len(s)
<1>1. IsRange(s) /\ Ordered(s) /\ IsList(s) /\ m \in Nat
  BY ListFacts DEF IsPart, IsRange
<1>2. ASSUME n + 1 < first PROVE IsPart(EventsIn(c, first, n + 1), first, n + 1)
  <2>1. EventsIn(c, first, n + 1) = s \o << >>
    BY <1>2, NextEvents
  <2>2. s \in Seq(ToSet(s))
    BY <1>1 DEF IsList
  <2>3. EventsIn(c, first, n + 1) = s
    <3> HIDE DEF s
    <3> QED
      BY <2>1, <2>2
  <2>4. IsPart(s, first, n)
    OBVIOUS
  <2> HIDE DEF s
  <2> QED
    BY <2>3, <2>4 DEF IsPart
<1>3. ASSUME ~(n + 1 < first) PROVE IsPart(EventsIn(c, first, n + 1), first, n + 1)
  <2> DEFINE r == s \o t
  <2>1. EventsIn(c, first, n + 1) = r
    BY <1>3, NextEvents
  <2>2. n + 1 \in 1 .. Len(c)
    BY ListFacts DEF IsChain
  <2>3. /\ IsList(t)
        /\ \A i \in 1 .. Len(t) : t[i].index = <<n + 1, i>> /\ IsEvent(t[i].event)
    BY <2>2, BlockEntries
  <2>4. Len(t) \in Nat
    BY <2>3, ListFacts
  <2>5. \A k \in 1 .. m : /\ IsEntry(s[k]) /\ s[k].index[1] \in 1 .. n
                          /\ first <= s[k].index[1] /\ s[k].index[2] >= 1
    BY DEF IsPart, IsRange
  <2> HIDE DEF s, t
  <2>6. /\ IsList(r) /\ Len(r) = m + Len(t)
        /\ \A i \in 1 .. m : r[i] = s[i]
        /\ \A i \in 1 .. Len(t) : r[m + i] = t[i]
    BY <1>1, <2>3, ConcatLists
  <2>7. ASSUME NEW k \in 1 .. Len(r)
        PROVE  \/ k \in 1 .. m /\ r[k] = s[k]
               \/ /\ k > m /\ r[k].index = <<n + 1, k - m>> /\ IsEvent(r[k].event)
                  /\ k - m \in 1 .. Len(t)
    <3>1. CASE k \in 1 .. m
      BY <2>6, <3>1
    <3>2. CASE k \notin 1 .. m
      <4>1. k - m \in 1 .. Len(t) /\ m + (k - m) = k /\ k > m
        BY <1>1, <2>4, <2>6, <3>2
      <4>2. r[k] = t[k - m]
        BY <2>6, <4>1
      <4> QED
        BY <2>3, <4>1, <4>2
    <3> QED
      BY <3>1, <3>2
  <2> HIDE DEF r
  <2>8. ASSUME NEW k \in 1 .. Len(r)
        PROVE  /\ IsEntry(r[k]) /\ r[k].index[1] \in 1 .. n + 1
               /\ first <= r[k].index[1] /\ r[k].index[2] >= 1
    <3>1. CASE k \in 1 .. m /\ r[k] = s[k]
      BY <2>5, <3>1
    <3>2. CASE /\ k > m /\ r[k].index = <<n + 1, k - m>> /\ IsEvent(r[k].event)
               /\ k - m \in 1 .. Len(t)
      BY <1>3, <2>4, <3>2 DEF IsEntry, Indexes
    <3> QED
      BY <2>7, <3>1, <3>2
  <2>9. ASSUME NEW k \in 1 .. Len(r), NEW l \in 1 .. Len(r), k < l
        PROVE  Before(r[k].index, r[l].index)
    <3>0. k \in Nat /\ l \in Nat
      BY <1>1, <2>4, <2>6
    <3>1. CASE l \in 1 .. m /\ r[l] = s[l]
      <4>1. k \in 1 .. m /\ r[k] = s[k]
        BY <2>6, <2>9, <3>1
      <4> QED
        BY <1>1, <2>9, <3>1, <4>1 DEF Ordered, m
    <3>2. CASE l > m /\ r[l].index = <<n + 1, l - m>>
      <4>1. CASE k \in 1 .. m /\ r[k] = s[k]
        <5>1. s[k].index[1] < n + 1
          BY <2>5, <4>1
        <5> QED
          BY <3>2, <4>1, <5>1 DEF Before
      <4>2. CASE k > m /\ r[k].index = <<n + 1, k - m>>
        BY <1>1, <2>9, <3>0, <3>2, <4>2 DEF Before
      <4> QED
        BY <2>7, <4>1, <4>2
    <3> QED
      BY <2>7, <3>1, <3>2
  <2> QED
    BY <2>1, <2>6, <2>8, <2>9 DEF IsPart, IsRange, Ordered
<1> QED
  BY <1>2, <1>3

\* The events of a range of blocks are ordered and have its indexes.
LEMMA ArePart ==
    ASSUME NEW c, IsChain(c), NEW first \in Int, NEW n \in 0 .. Len(c)
    PROVE  IsPart(EventsIn(c, first, n), first, n)
<1> DEFINE S == {k \in Nat : k <= Len(c) => IsPart(EventsIn(c, first, k), first, k)}
<1>0. Len(c) \in Nat
  BY ListFacts DEF IsChain
<1>1. 0 \in S
  BY NoEvents, EmptyPart
<1>2. ASSUME NEW k \in S PROVE k + 1 \in S
  <2>1. k <= Len(c) => IsPart(EventsIn(c, first, k), first, k)
    OBVIOUS
  <2>2. k + 1 <= Len(c) => IsPart(EventsIn(c, first, k + 1), first, k + 1)
    BY <1>0, <2>1, NextPart
  <2> QED
    BY <2>2
<1> HIDE DEF S
<1>3. S = Nat
  BY <1>1, <1>2, NatSetInduction DEF S
<1>4. n \in S /\ n <= Len(c)
  BY <1>0, <1>3
<1> QED
  BY <1>4 DEF S

-----------------------------------------------------------------------------
(* The blocks before the first one have no part in a range.                *)

LEMMA NoneBefore ==
    ASSUME NEW c, IsChain(c), NEW first \in Int, NEW n \in 0 .. Len(c), n < first
    PROVE  EventsIn(c, first, n) = << >>
<1>1. IsPart(EventsIn(c, first, n), first, n)
  BY ArePart
<1> DEFINE s == EventsIn(c, first, n)
<1>2. IsList(s) /\ Len(s) \in Nat
  BY <1>1, ListFacts DEF IsPart, IsRange
<1>3. Len(s) = 0
  <2> SUFFICES ASSUME Len(s) # 0 PROVE FALSE
    OBVIOUS
  <2>1. 1 \in 1 .. Len(s)
    BY <1>2
  <2>2. s[1].index[1] \in 1 .. n /\ first <= s[1].index[1]
    BY <1>1, <2>1 DEF IsPart
  <2> QED
    BY <2>2
<1> HIDE DEF s
<1>4. s \in Seq(ToSet(s))
  BY <1>2 DEF IsList
<1> QED
  BY <1>3, <1>4 DEF s

Joined(a, b) == a \o b

\* Joining lists.
LEMMA ConcatAssoc ==
    ASSUME NEW a, NEW b, NEW d, IsList(a), IsList(b), IsList(d)
    PROVE  Joined(Joined(a, b), d) = Joined(a, Joined(b, d))
<1> DEFINE S == ToSet(a) \cup ToSet(b) \cup ToSet(d)
<1>1. a \in Seq(ToSet(a)) /\ b \in Seq(ToSet(b)) /\ d \in Seq(ToSet(d))
  BY DEF IsList
<1>2. a \in Seq(S) /\ b \in Seq(S) /\ d \in Seq(S)
  BY <1>1
<1> HIDE DEF S
<1>3. /\ (a \o b) \o d \in Seq(S) /\ a \o (b \o d) \in Seq(S)
      /\ Len((a \o b) \o d) = Len(a) + Len(b) + Len(d)
      /\ Len(a \o (b \o d)) = Len(a) + Len(b) + Len(d)
  BY <1>2
<1>4. \A i \in 1 .. Len(a) + Len(b) + Len(d) : ((a \o b) \o d)[i] = (a \o (b \o d))[i]
  BY <1>2
<1> DEFINE x == (a \o b) \o d
           y == a \o (b \o d)
<1>5. IsList(x) /\ IsList(y) /\ Len(x) = Len(y) /\ \A i \in 1 .. Len(x) : x[i] = y[i]
  BY <1>3, <1>4, SeqIsList
<1> HIDE DEF x, y
<1>6. x = y
  BY <1>5, SameList
<1> QED
  BY <1>6 DEF x, y, Joined

\* Joining with the empty list.
LEMMA ConcatEmpty == ASSUME NEW a, IsList(a) PROVE a \o << >> = a /\ << >> \o a = a
<1>1. a \in Seq(ToSet(a))
  BY DEF IsList
<1> QED
  BY <1>1

\* The events of the blocks before a block, then the others.
LEMMA SplitEvents ==
    ASSUME NEW c, IsChain(c), NEW first \in Nat \ {0}, NEW n \in 0 .. Len(c), first <= n + 1
    PROVE  EventsIn(c, 1, n) = EventsIn(c, 1, first - 1) \o EventsIn(c, first, n)
<1> DEFINE S == {k \in Nat : first - 1 + k <= Len(c) =>
                    EventsIn(c, 1, first - 1 + k)
                      = EventsIn(c, 1, first - 1) \o EventsIn(c, first, first - 1 + k)}
           a == EventsIn(c, 1, first - 1)
<1>0. Len(c) \in Nat /\ first - 1 \in 0 .. Len(c)
  BY ListFacts DEF IsChain
<1>1. \A f \in Int, k \in 0 .. Len(c) : IsList(EventsIn(c, f, k))
  BY ArePart DEF IsPart, IsRange
<1>2. 0 \in S
  <2>1. EventsIn(c, first, first - 1) = << >>
    BY <1>0, NoneBefore
  <2>2. a \o << >> = a
    BY <1>0, <1>1, ConcatEmpty
  <2>3. first - 1 + 0 = first - 1
    OBVIOUS
  <2> QED
    BY <2>1, <2>2, <2>3
<1>3. ASSUME NEW k \in S PROVE k + 1 \in S
  <2> SUFFICES ASSUME first - 1 + (k + 1) <= Len(c)
               PROVE  EventsIn(c, 1, first - 1 + (k + 1))
                        = a \o EventsIn(c, first, first - 1 + (k + 1))
    OBVIOUS
  <2> DEFINE m == first - 1 + k
             b == EventsIn(c, first, m)
             t == EventsOf(c, m + 1)
  <2>0. k \in Nat
    OBVIOUS
  <2>1. m \in Nat /\ m + 1 <= Len(c) /\ first - 1 + (k + 1) = m + 1 /\ ~(m + 1 < first)
        /\ ~(m + 1 < 1) /\ m \in 0 .. Len(c) /\ m + 1 \in 1 .. Len(c)
    BY <1>0, <2>0
  <2>2. EventsIn(c, 1, m) = a \o b
    BY <2>1
  <2>3. /\ EventsIn(c, 1, m + 1) = EventsIn(c, 1, m) \o t
        /\ EventsIn(c, first, m + 1) = b \o t
    BY <2>1, NextEvents
  <2>4. IsList(a) /\ IsList(b) /\ IsList(t)
    BY <1>0, <1>1, <2>1, BlockEntries
  <2> HIDE DEF a, b, t, m
  <2>5. Joined(Joined(a, b), t) = Joined(a, Joined(b, t))
    BY <2>4, ConcatAssoc
  <2>6. EventsIn(c, 1, m + 1) = Joined(Joined(a, b), t)
    BY <2>2, <2>3 DEF Joined
  <2>7. EventsIn(c, first, m + 1) = Joined(b, t)
    BY <2>3 DEF Joined
  <2>8. EventsIn(c, 1, m + 1) = a \o EventsIn(c, first, m + 1)
    BY <2>5, <2>6, <2>7 DEF Joined
  <2> QED
    BY <2>1, <2>8
<1> HIDE DEF S
<1>4. S = Nat
  BY <1>2, <1>3, NatSetInduction DEF S
<1>5. n - (first - 1) \in S /\ first - 1 + (n - (first - 1)) = n /\ n <= Len(c)
  BY <1>0, <1>4
<1> QED
  BY <1>5 DEF S

\* A range that starts before the first block starts with it.
LEMMA RangeFromStart ==
    ASSUME NEW c, NEW first \in Int, first <= 0, NEW n \in Nat
    PROVE  EventsIn(c, first, n) = EventsIn(c, 1, n)
<1>1. \A b \in 1 .. n : ~(b < first) /\ ~(b < 1)
  OBVIOUS
<1>2. Entries(c, first, n) = Entries(c, 1, n)
  BY <1>1 DEF Entries
<1> QED
  BY <1>2 DEF EventsIn

\* Chains that agree up to a block have the same events up to it.
LEMMA SameBlocks ==
    ASSUME NEW c, NEW d, NEW n \in Nat, \A b \in 1 .. n : c[b] = d[b], NEW first
    PROVE  EventsIn(c, first, n) = EventsIn(d, first, n)
<1>1. Entries(c, first, n) = Entries(d, first, n)
  BY DEF Entries, EventsOf
<1> QED
  BY <1>1 DEF EventsIn

-----------------------------------------------------------------------------
(* Ranges, from which the loop takes the first event.                      *)

LEMMA RangeTail ==
    ASSUME NEW s, IsRange(s), s # << >>
    PROVE  /\ IsEntry(Head(s)) /\ IsRange(Tail(s))
           /\ Len(s) \in Nat \ {0} /\ Len(Tail(s)) = Len(s) - 1
           /\ Head(s) = s[1]
           /\ \A k \in 1 .. Len(Tail(s)) : Tail(s)[k] = s[k + 1]
<1>1. s \in Seq(ToSet(s)) /\ IsList(s)
  BY DEF IsRange, IsList
<1>2. /\ Len(s) \in Nat \ {0} /\ Tail(s) \in Seq(ToSet(s)) /\ Len(Tail(s)) = Len(s) - 1
      /\ Head(s) = s[1] /\ \A k \in 1 .. Len(Tail(s)) : Tail(s)[k] = s[k + 1]
  BY <1>1
<1>3. IsList(Tail(s))
  BY <1>2, SeqIsList
<1>4. \A k \in 1 .. Len(s) : IsEntry(s[k])
  BY DEF IsRange
<1>5. \A k \in 1 .. Len(Tail(s)) : IsEntry(Tail(s)[k])
  BY <1>2, <1>4
<1>6. IsEntry(Head(s))
  BY <1>2, <1>4
<1> QED
  BY <1>2, <1>3, <1>5, <1>6 DEF IsRange

\* One more pending wrap.
LEMMA WrapTxns ==
    ASSUME NEW wraps, IsTxns(wraps), NEW e
    PROVE  IsTxns(Append(wraps, Wrap(e)))
<1> DEFINE w == Wrap(e)
           S == {e.opening}
<1>1. <<e.opening>> \in Seq(S)
  OBVIOUS
<1>2. w.outputs = <<e.opening>>
  BY DEF Wrap
<1>3. IsList(w.outputs)
  BY <1>1, <1>2, SeqIsList
<1> HIDE DEF w
<1>4. IsTxns(Append(wraps, w))
  BY <1>3, OutputsAppend
<1> QED
  BY <1>4 DEF w

\* The blocks that a new block leaves in place, and its events.
LEMMA ChainGrows ==
    ASSUME IsChain(chain), NewBlock
    PROVE  /\ IsChain(chain)' /\ Len(chain') = Len(chain) + 1
           /\ \A b \in 1 .. Len(chain) : chain'[b] = chain[b]
<1>1. PICK es : /\ IsList(es) /\ (\A e \in ToSet(es) : IsEvent(e))
                /\ chain' = Append(chain, es)
  BY DEF NewBlock
<1>2. /\ IsList(chain) /\ Len(chain) \in Nat
      /\ \A b \in 1 .. Len(chain) : IsList(chain[b]) /\ \A e \in ToSet(chain[b]) : IsEvent(e)
  BY ListFacts DEF IsChain
<1> DEFINE c == Append(chain, es)
<1>3. /\ IsList(c) /\ Len(c) = Len(chain) + 1 /\ c[Len(chain) + 1] = es
      /\ \A b \in 1 .. Len(chain) : c[b] = chain[b]
  BY <1>2, AppendList
<1> HIDE DEF c
<1>4. \A b \in 1 .. Len(c) : b = Len(chain) + 1 \/ b \in 1 .. Len(chain)
  BY <1>2, <1>3
<1>5. IsChain(c)
  BY <1>1, <1>2, <1>3, <1>4 DEF IsChain
<1>6. chain' = c
  BY <1>1 DEF c
<1>7. \A d : d = c => IsChain(d)
  BY <1>5
<1> QED
  BY <1>3, <1>6, <1>7 DEF IsChain

\* A reorganisation leaves a chain.
LEMMA ChainShrinks ==
    ASSUME IsChain(chain), Reorg
    PROVE  /\ IsChain(chain)'
           /\ \E n \in 0 .. Len(chain) :
                /\ n >= highest - (num_confirmations - 1)
                /\ Len(chain') = n
                /\ \A b \in 1 .. n : chain'[b] = chain[b]
<1>2. /\ IsList(chain) /\ Len(chain) \in Nat
      /\ \A b \in 1 .. Len(chain) : IsList(chain[b]) /\ \A e \in ToSet(chain[b]) : IsEvent(e)
  BY ListFacts DEF IsChain
<1>1. PICK n \in 0 .. Len(chain) - 1 :
         n >= highest - (num_confirmations - 1) /\ chain' = SubSeq(chain, 1, n)
  BY DEF Reorg
<1>0. n \in 0 .. Len(chain)
  BY <1>2
<1> DEFINE c == SubSeq(chain, 1, n)
<1>3. IsList(c) /\ Len(c) = n /\ \A b \in 1 .. n : c[b] = chain[b]
  BY <1>0, <1>2, PrefixList
<1> HIDE DEF c
<1>4. IsChain(c)
  BY <1>0, <1>2, <1>3 DEF IsChain
<1>5. chain' = c
  BY <1>1 DEF c
<1>6. \A d : d = c => IsChain(d)
  BY <1>4
<1> QED
  BY <1>0, <1>1, <1>3, <1>5, <1>6 DEF IsChain

\* The range that check chooses.
LEMMA RangeChosen ==
    ASSUME IsChain(chain), next_block_to_query \in Nat, check
    PROVE  /\ to_block' \in Nat
           /\ to_block' <= latest_confirmed_block_number(Len(chain))
           /\ to_block' \in 0 .. Len(chain)
           /\ next_block_to_query <= to_block'
           /\ \E repeat \in {0, 1} :
                 /\ new_event' = EventsIn(chain, next_block_to_query - repeat, to_block')
                 /\ IsPart(EventsIn(chain, next_block_to_query - repeat, to_block'),
                           next_block_to_query - repeat, to_block')
<1> DEFINE confirmed == latest_confirmed_block_number(Len(chain))
           limit == next_block_to_query + max_blocks_to_query
           until == Min({confirmed, limit})
<1>1. Len(chain) \in Nat /\ num_confirmations \in Nat \ {0} /\ max_blocks_to_query \in Nat
  BY EqsAssumption, ListFacts DEF IsChain
<1>1a. confirmed = Len(chain) - (num_confirmations - 1)
  BY DEF latest_confirmed_block_number
<1>1b. confirmed > 0 /\ confirmed >= next_block_to_query
  BY DEF check
<1>2. confirmed \in Int /\ confirmed <= Len(chain) /\ limit \in Nat
      /\ confirmed > 0 /\ confirmed >= next_block_to_query /\ limit >= next_block_to_query
  <2> HIDE DEF confirmed
  <2> QED
    BY <1>1, <1>1a, <1>1b
<1> HIDE DEF confirmed, limit
<1>3. until \in {confirmed, limit} /\ until <= confirmed /\ until <= limit
  <2> DEFINE least == IF confirmed <= limit THEN confirmed ELSE limit
  <2>1. least \in {confirmed, limit} /\ \A y \in {confirmed, limit} : least <= y
    BY <1>2
  <2>2. until = CHOOSE x \in {confirmed, limit} : \A y \in {confirmed, limit} : x <= y
    BY DEF Min
  <2>3. until \in {confirmed, limit} /\ \A y \in {confirmed, limit} : until <= y
    <3> HIDE DEF least, until
    <3> QED
      BY <2>1, <2>2
  <2> QED
    BY <2>3
<1>4. to_block' = until
  BY DEF check, confirmed, limit, until
<1>5. until \in 0 .. Len(chain) /\ next_block_to_query <= until
  BY <1>1, <1>2, <1>3
<1>6. PICK repeat \in {0, 1} :
         new_event' = IndexedEvents(next_block_to_query - repeat, until)
  BY DEF check, confirmed, limit, until
<1>7. new_event' = EventsIn(chain, next_block_to_query - repeat, until)
  BY <1>6, SameEvents
<1>8. next_block_to_query - repeat \in Int
  OBVIOUS
<1> HIDE DEF until
<1>9. IsPart(EventsIn(chain, next_block_to_query - repeat, until),
             next_block_to_query - repeat, until)
  BY <1>5, <1>8, ArePart
<1> QED
  BY <1>1, <1>3, <1>4, <1>5, <1>7, <1>9 DEF confirmed

-----------------------------------------------------------------------------
(* The shape of the service's state, and that transactions are found.      *)

FoundInv ==
    /\ IsChain(chain)
    /\ IsRange(new_event)
    /\ IsTxns(pending_commit_event)
    /\ FoundIn(query_result_state) /\ query_result_state.last_reported_index \in Indexes
    /\ FoundIn(persisted) /\ persisted.last_reported_index \in Indexes
    /\ next_block_to_query \in Nat
    /\ to_block \in Nat

\* A new state has no transactions.
LEMMA NewStateFound == FoundIn(NewState) /\ NewState.last_reported_index = NoIndex
BY NewStateFields, EmptyList DEF FoundIn, NewState

\* The service starts with none.
LEMMA FoundInit == Init => FoundInv
<1> SUFFICES ASSUME Init PROVE FoundInv
  OBVIOUS
<1>1. FoundIn(connected(NewState)) /\ connected(NewState).last_reported_index = NoIndex
  BY NewStateFound, NewStateFields, ConnectedFound, ConnectedFields
<1>2. IsChain(<< >>) /\ IsRange(<< >>)
  BY EmptyList DEF IsChain, IsRange
<1>3. NoIndex \in Indexes
  BY DEF NoIndex, Indexes
<1> QED
  BY <1>1, <1>2, <1>3, NewStateFound, OutputsEmpty DEF Init, FoundInv

\* A handler that keeps the transactions found keeps the invariant.
LEMMA FoundHandled ==
    ASSUME FoundInv, NEW q, FoundIn(q), q.last_reported_index = current.index,
           new_event # << >>, Publish(q), Advance, IsTxns(pending_commit_event)'
    PROVE  FoundInv'
<1>1. IsEntry(current) /\ IsRange(Tail(new_event))
  BY RangeTail DEF FoundInv, current
<1>2. q.last_reported_index \in Indexes
  BY <1>1 DEF IsEntry
<1>3. query_result_state' = q /\ new_event' = Tail(new_event)
      /\ UNCHANGED <<chain, persisted, next_block_to_query, to_block>>
  BY DEF Publish, Advance, chainVars
<1>4. \A s : s = Tail(new_event) => IsRange(s)
  BY <1>1
<1>5. \A p : p = q => FoundIn(p) /\ p.last_reported_index \in Indexes
  BY <1>2
<1> QED
  BY <1>3, <1>4, <1>5 DEF FoundInv, IsChain, IsRange

\* Every step keeps the transactions found.
LEMMA FoundNext == FoundInv /\ [Next]_vars => FoundInv'
<1> SUFFICES ASSUME FoundInv, [Next]_vars PROVE FoundInv'
  OBVIOUS
<1>1. CASE NewBlock
  <2>1. IsChain(chain)'
    BY <1>1, ChainGrows DEF FoundInv
  <2> QED
    BY <1>1, <2>1 DEF NewBlock, eqsVars, FoundInv
<1>2. CASE Reorg
  <2>1. IsChain(chain)'
    BY <1>2, ChainShrinks DEF FoundInv
  <2> QED
    BY <1>2, <2>1 DEF Reorg, eqsVars, FoundInv
<1>3. CASE check
  <2>1. to_block' \in Nat
    BY <1>3, RangeChosen DEF FoundInv
  <2>2. \E s : new_event' = s /\ IsRange(s)
    BY <1>3, RangeChosen DEF FoundInv, IsPart
  <2>3. IsRange(new_event)'
    BY <2>2
  <2> QED
    BY <1>3, <2>1, <2>3 DEF check, chainVars, FoundInv
<1>4. CASE skipRepeatEvent
  <2>1. \A s : s = Tail(new_event) => IsRange(s)
    BY <1>4, RangeTail DEF FoundInv, skipRepeatEvent
  <2> QED
    BY <1>4, <2>1 DEF skipRepeatEvent, chainVars, FoundInv
<1>5. CASE BlockCommitted
  <2> DEFINE q == withBlock(query_result_state, pending_commit_event, current)
  <2>1. new_event # << >> /\ current.event.event = "BlockCommitted" /\ Publish(q) /\ Advance
        /\ pending_commit_event' = << >>
    BY <1>5 DEF BlockCommitted, Handles
  <2>2. IsEvent(current.event)
    BY <2>1, RangeTail DEF FoundInv, current, IsEntry
  <2>3. FoundIn(query_result_state) /\ IsState(query_result_state) /\ IsTxns(pending_commit_event)
    BY DEF FoundInv, FoundIn
  <2>4. FoundIn(q)
    <3>1. \A p, w, x : FoundIn(p) /\ IsTxns(w) /\ IsEvent(x.event)
                         /\ x.event.event = "BlockCommitted"
                       => FoundIn(withBlock(p, w, x))
      BY BlockFound
    <3> QED
      BY <2>1, <2>2, <2>3, <3>1
  <2>4a. q.last_reported_index = current.index
    <3>1. \A p, w, x : IsState(p) => withBlock(p, w, x).last_reported_index = x.index
      BY WithBlock
    <3> QED
      BY <2>3, <3>1
  <2>5. IsTxns(pending_commit_event)'
    BY <2>1, OutputsEmpty
  <2> HIDE DEF q
  <2> QED
    BY <2>1, <2>4, <2>4a, <2>5, FoundHandled
<1>6. CASE Erc20TokensDeposited
  <2>1. /\ pending_commit_event' = Append(pending_commit_event, Wrap(current.event))
        /\ new_event' = Tail(new_event) /\ new_event # << >>
        /\ UNCHANGED <<chain, query_result_state, persisted, next_block_to_query, to_block>>
    BY <1>6 DEF Erc20TokensDeposited, Handles, Advance, chainVars
  <2>2. \A s : s = Tail(new_event) => IsRange(s)
    BY <2>1, RangeTail DEF FoundInv
  <2>3. \A w : w = Append(pending_commit_event, Wrap(current.event)) => IsTxns(w)
    BY WrapTxns DEF FoundInv
  <2> QED
    BY <2>1, <2>2, <2>3 DEF FoundInv
<1>7. CASE FaucetInitialized
  <2> DEFINE q == withFaucet(query_result_state, current)
  <2>1. new_event # << >> /\ Publish(q) /\ Advance /\ isFirst(query_result_state)
        /\ UNCHANGED pending_commit_event
    BY <1>7 DEF FaucetInitialized, Handles
  <2>2. FoundIn(query_result_state) /\ IsState(query_result_state)
    BY DEF FoundInv, FoundIn
  <2>3. FoundIn(q)
    <3>1. \A p, x : FoundIn(p) /\ isFirst(p) => FoundIn(withFaucet(p, x))
      BY FaucetFound
    <3> QED
      BY <2>1, <2>2, <3>1
  <2>3a. q.last_reported_index = current.index
    <3>1. \A p, x : IsState(p) => withFaucet(p, x).last_reported_index = x.index
      BY WithFaucet
    <3> QED
      BY <2>2, <3>1
  <2>4. IsTxns(pending_commit_event)'
    BY <2>1 DEF FoundInv
  <2> HIDE DEF q
  <2> QED
    BY <2>1, <2>3, <2>3a, <2>4, FoundHandled
<1>8. CASE AssetSponsored
  <2> DEFINE q == withAsset(query_result_state, current)
  <2>1. new_event # << >> /\ Publish(q) /\ Advance /\ UNCHANGED pending_commit_event
    BY <1>8 DEF AssetSponsored, Handles
  <2>2. FoundIn(query_result_state) /\ IsState(query_result_state)
    BY DEF FoundInv, FoundIn
  <2>3. FoundIn(q)
    <3>1. \A p, x : FoundIn(p) => FoundIn(withAsset(p, x))
      BY AssetFound
    <3> QED
      BY <2>1, <2>2, <3>1
  <2>3a. q.last_reported_index = current.index
    <3>1. \A p, x : IsState(p) => withAsset(p, x).last_reported_index = x.index
      BY WithAsset
    <3> QED
      BY <2>2, <3>1
  <2>4. IsTxns(pending_commit_event)'
    BY <2>1 DEF FoundInv
  <2> HIDE DEF q
  <2> QED
    BY <2>1, <2>3, <2>3a, <2>4, FoundHandled
<1>9. CASE finishRange
  <2>1. persisted' \in {persisted, query_result_state} /\ next_block_to_query' = to_block + 1
        /\ UNCHANGED <<chain, new_event, pending_commit_event, query_result_state, to_block>>
    BY <1>9 DEF finishRange, store_latest_state, blockAfterRange, chainVars
  <2>2. \A p \in {persisted, query_result_state} :
           FoundIn(p) /\ p.last_reported_index \in Indexes
    BY DEF FoundInv
  <2> QED
    BY <2>1, <2>2 DEF FoundInv
<1>10. CASE panic \/ Crash
  BY <1>10 DEF panic, Crash, Stop, chainVars, FoundInv
<1>11. CASE Restart
  <2>1. PICK state \in {NewState, persisted} :
          /\ persisted' = state /\ query_result_state' = connected(state)
          /\ next_block_to_query' = state.last_reported_index[1]
    BY <1>11 DEF Restart, load_latest_state, firstBlockToQuery
  <2>2. pending_commit_event' = << >> /\ new_event' = << >> /\ UNCHANGED <<chain, to_block>>
    BY <1>11 DEF Restart, chainVars
  <2>3. NoIndex \in Indexes
    BY DEF NoIndex, Indexes
  <2>4. FoundIn(state) /\ state.last_reported_index \in Indexes
    BY <2>1, <2>3, NewStateFound DEF FoundInv
  <2>5. /\ FoundIn(connected(state))
        /\ connected(state).last_reported_index \in Indexes
    BY <2>4, ConnectedFound, ConnectedFields DEF FoundIn
  <2>6. \A p : (p = state => FoundIn(p) /\ p.last_reported_index \in Indexes)
               /\ (p = connected(state) => FoundIn(p) /\ p.last_reported_index \in Indexes)
    BY <2>4, <2>5
  <2>7. next_block_to_query' \in Nat
    BY <2>1, <2>4 DEF Indexes
  <2>8. IsTxns(pending_commit_event)' /\ IsRange(new_event)'
    BY <2>2, OutputsEmpty, EmptyList DEF IsRange
  <2> QED
    BY <2>1, <2>2, <2>6, <2>7, <2>8 DEF FoundInv
<1>12. CASE UNCHANGED vars
  BY <1>12 DEF vars, eqsVars, chainVars, FoundInv
<1> QED
  BY <1>1, <1>2, <1>3, <1>4, <1>5, <1>6, <1>7, <1>8, <1>9, <1>10, <1>11, <1>12
     DEF Next, checkRange

\* What is found is answered.
LEMMA FoundServed == FoundInv => BlockTransactionsFound
<1> SUFFICES ASSUME FoundInv,
                    NEW h \in DOMAIN query_result_state.transaction_id_by_hash,
                    h.type # "FAUCET"
             PROVE  Found(h)
  BY DEF BlockTransactionsFound
<1> DEFINE q == query_result_state
<1>1. PICK b, i \in Nat :
         /\ q.transaction_id_by_hash[h] = <<b, i>>
         /\ <<b, i>> \in DOMAIN q.transaction_by_id
         /\ IsList(h.outputs)
         /\ q.transaction_by_id[<<b, i>>].transition = h
         /\ LeavesFrom(q.leaves, q.transaction_by_id[<<b, i>>].output_start, h.outputs)
  BY DEF FoundInv, FoundIn
<1> DEFINE txn == q.transaction_by_id[<<b, i>>]
<1>2. txn \in get_transaction(<<b, i>>)
  BY <1>1 DEF get_transaction
<1>3. txn \in get_transaction_by_hash(h)
  <2>1. h \in {h} \cap DOMAIN q.transaction_id_by_hash
    OBVIOUS
  <2> HIDE DEF txn
  <2> QED
    BY <1>1, <1>2, <2>1 DEF get_transaction_by_hash
<1>4. DOMAIN h.outputs = 1 .. Len(h.outputs) /\ IsList(q.leaves)
  BY <1>1, ListFacts DEF FoundInv, FoundIn
<1>5. DOMAIN q.leaves = 1 .. Len(q.leaves)
  BY <1>4, ListFacts
<1>6. \A j \in DOMAIN h.outputs : /\ txn.output_start + j \in DOMAIN q.leaves
                                  /\ q.leaves[txn.output_start + j] = h.outputs[j]
  BY <1>1, <1>4, <1>5 DEF LeavesFrom
<1> HIDE DEF txn
<1> QED
  BY <1>1, <1>3, <1>6 DEF Found, txn

\* For any blocks of the chain, reorganised or not, whatever crashes: the service
\* finds a transaction of a block by its hash, with the places of its outputs
\* (eth_polling.rs check_range, routes.rs get_transaction_by_hash).
THEOREM BlocksTransactionsAreFound == Spec => []BlockTransactionsFound
<1> QED
  BY FoundInit, FoundNext, FoundServed, PTL DEF Spec

-----------------------------------------------------------------------------
(* The states that the service goes through, from a new one, as it handles *)
(* the events of a list one after the other.                               *)

IsDeposit(x) == x.event.event = "Erc20TokensDeposited"

NextState(q, wraps, x) ==
    CASE x.event.event = "BlockCommitted" -> withBlock(q, wraps, x)
      [] x.event.event = "FaucetInitialized" -> withFaucet(q, x)
      [] x.event.event = "AssetSponsored" -> withAsset(q, x)
      [] OTHER -> q

NextWraps(wraps, x) ==
    CASE x.event.event = "BlockCommitted" -> << >>
      [] x.event.event = "Erc20TokensDeposited" -> Append(wraps, Wrap(x.event))
      [] OTHER -> wraps

\* Q[i] and W[i] are the state and the pending wraps after the i-th event.
IsReplay(L, Q, W, k) ==
    /\ Q[0] = connected(NewState) /\ W[0] = << >>
    /\ \A i \in 0 .. k - 1 :
          /\ Q[i + 1] = NextState(Q[i], W[i], L[i + 1])
          /\ W[i + 1] = NextWraps(W[i], L[i + 1])
          /\ L[i + 1].event.event = "FaucetInitialized" => isFirst(Q[i])

\* The index of the last of the first i events.
IndexAt(L, i) == IF i = 0 THEN NoIndex ELSE L[i].index

\* One list is the beginning of another one.
Starts(a, b) == Len(a) <= Len(b) /\ \A n \in 1 .. Len(a) : b[n] = a[n]

\* What every state of a replay is like.
Served(q) == IsState(q) /\ q.contract_address = cape_address /\ IsList(q.events)

-----------------------------------------------------------------------------
\* The memos of a block are a list of events.
LEMMA MemosAreList ==
    ASSUME NEW q, NEW wraps, NEW x, IsEvent(x.event), x.event.event = "BlockCommitted"
    PROVE  IsList(MemosOf(q, wraps, x))
<1> DEFINE e == x.event
           txs == ModelTxns(e)
           created == Outputs(Committed(wraps, x))
           outputs(n) == [i \in DOMAIN txs[n].outputs |->
                           [memo |-> txs[n].outputs[i],
                            commitment |-> created[firstMemoOutput(e, txs, n) + i],
                            uid |-> Len(q.leaves) + (firstMemoOutput(e, txs, n) + i) - 1]]
           memo(n) == MemosEvent(outputs(n), <<q.state_number, n - 1, txs[n]>>)
           item(n) == IF memos_sig_valid(e, txs, n) THEN <<memo(n)>> ELSE << >>
           k == Len(txs)
           D == {memo(n) : n \in 1 .. k}
           L == Seq(D)
<1>1. k \in Nat /\ DOMAIN txs = 1 .. k
  BY DecodedTxns, ListFacts DEF IsTxns
<1>2. MemosOf(q, wraps, x) = FlattenSeq([n \in 1 .. k |-> item(n)])
  BY <1>1 DEF MemosOf, memo_events
<1>3. \A n \in 1 .. k : memo(n) \in D
  OBVIOUS
<1> HIDE DEF D, memo
<1>4. \A n \in 1 .. k : item(n) \in Seq(D)
  BY <1>3
<1> HIDE DEF item, k
<1> DEFINE items == [n \in 1 .. k |-> item(n)]
<1>5. items \in [1 .. k -> L]
  BY <1>4
<1> HIDE DEF L
<1>6. items \in Seq(L)
  BY <1>1, <1>5
<1> HIDE DEF items
<1>7. FlattenSeq(items) \in Seq(D)
  BY <1>6, FlattenType DEF L
<1> QED
  BY <1>2, <1>7, SeqIsList DEF items

\* Handling an event keeps the shape of a state, and what it has served.
LEMMA NextServed ==
    ASSUME NEW q, Served(q), NEW wraps, NEW x, IsEvent(x.event),
           x.event.event = "FaucetInitialized" => isFirst(q)
    PROVE  /\ Served(NextState(q, wraps, x))
           /\ Starts(q.events, NextState(q, wraps, x).events)
<1>1. IsState(q) /\ IsList(q.events) /\ q.contract_address = cape_address
      /\ Len(q.events) \in Nat
  BY ListFacts DEF Served
<1>2. CASE x.event.event = "BlockCommitted"
  <2> DEFINE s == withBlock(q, wraps, x)
             a == Append(q.events, CommitEvent(Committed(wraps, x), q.state_number))
             b == MemosOf(q, wraps, x)
  <2>1. NextState(q, wraps, x) = s
    BY <1>2 DEF NextState
  <2>2. IsState(s) /\ s.events = a \o b /\ s.contract_address = q.contract_address
    BY <1>1, WithBlock
  <2>3. IsList(b)
    BY <1>2, MemosAreList
  <2>4. \A p, e : IsList(p) =>
          /\ IsList(Append(p, e)) /\ Len(Append(p, e)) = Len(p) + 1
          /\ \A i \in 1 .. Len(p) : Append(p, e)[i] = p[i]
    BY AppendList
  <2>5. /\ IsList(a) /\ Len(a) = Len(q.events) + 1
        /\ \A i \in 1 .. Len(q.events) : a[i] = q.events[i]
    BY <1>1, <2>4
  <2> HIDE DEF s, a, b
  <2>6. /\ IsList(a \o b) /\ Len(a \o b) = Len(a) + Len(b)
        /\ \A i \in 1 .. Len(a) : (a \o b)[i] = a[i]
    BY <2>3, <2>5, ConcatLists
  <2>7. Len(b) \in Nat
    BY <2>3, ListFacts
  <2>8. Starts(q.events, s.events)
    BY <1>1, <2>2, <2>5, <2>6, <2>7 DEF Starts
  <2> QED
    BY <1>1, <2>1, <2>2, <2>6, <2>8 DEF Served
<1>3. CASE x.event.event = "FaucetInitialized"
  <2> DEFINE s == withFaucet(q, x)
             grant == Faucet(x.event)
             a == CommitEvent(<<grant>>, 0)
             b == MemosEvent(<<[memo |-> x.event.opening, commitment |-> x.event.opening,
                                uid |-> Len(q.leaves)]>>, <<0, 0, grant>>)
  <2>1. NextState(q, wraps, x) = s
    BY <1>3 DEF NextState
  <2>2. IsState(s) /\ s.events = <<a, b>> /\ s.contract_address = q.contract_address
    BY <1>1, WithFaucet
  <2> HIDE DEF a, b, s
  <2>3. <<a, b>> \in Seq({a, b})
    OBVIOUS
  <2>4. q.events = << >>
    BY <1>3 DEF isFirst
  <2>5. Len(q.events) = 0 /\ Len(<<a, b>>) = 2
    BY <2>4
  <2>6. Starts(q.events, s.events)
    BY <2>2, <2>5 DEF Starts
  <2> QED
    BY <1>1, <2>1, <2>2, <2>3, <2>6, SeqIsList DEF Served
<1>4. CASE x.event.event = "AssetSponsored"
  <2> DEFINE s == withAsset(q, x)
  <2>1. NextState(q, wraps, x) = s
    BY <1>4 DEF NextState
  <2>2. IsState(s) /\ s.events = q.events /\ s.contract_address = q.contract_address
    BY <1>1, WithAsset
  <2> HIDE DEF s
  <2> QED
    BY <1>1, <2>1, <2>2 DEF Served, Starts
<1>5. CASE x.event.event = "Erc20TokensDeposited"
  BY <1>1, <1>5 DEF NextState, Served, Starts
<1> QED
  BY <1>2, <1>3, <1>4, <1>5 DEF IsEvent

\* A new state serves no events.
LEMMA NewStateServed == Served(connected(NewState))
<1>1. IsState(connected(NewState)) /\ connected(NewState).events = NewState.events
      /\ connected(NewState).contract_address = cape_address
  BY NewStateFields, ConnectedFields
<1>2. NewState.events = << >>
  BY DEF NewState
<1> QED
  BY <1>1, <1>2, EmptyList DEF Served

-----------------------------------------------------------------------------
(* Along a replay.                                                         *)

LEMMA StartsItself == ASSUME NEW a, IsList(a) PROVE Starts(a, a)
BY ListFacts DEF Starts

\* A start of a start is a start.
LEMMA StartsTransitive ==
    ASSUME NEW a, NEW b, NEW d, IsList(a), IsList(b), IsList(d), Starts(a, b), Starts(b, d)
    PROVE  Starts(a, d)
<1>1. Len(a) \in Nat /\ Len(b) \in Nat /\ Len(d) \in Nat
  BY ListFacts
<1> QED
  BY <1>1 DEF Starts

\* The index that a state reports is that of the event it comes from; the
\* deposits after it left the state alone.
Reported(L, Q, i) ==
    \E r \in 0 .. i :
        /\ Q[r] = Q[i]
        /\ Q[i].last_reported_index = IndexAt(L, r)
        /\ r = 0 \/ ~IsDeposit(L[r])

\* Wraps are pending because of a deposit that no block followed.
PendingSince(L, W, i) ==
    W[i] # << >> => \E j \in 1 .. i : /\ IsDeposit(L[j])
                                      /\ \A n \in j .. i : L[n].event.event # "BlockCommitted"

Step(L, Q, W, i) ==
    /\ Q[i + 1] = NextState(Q[i], W[i], L[i + 1])
    /\ W[i + 1] = NextWraps(W[i], L[i + 1])
    /\ L[i + 1].event.event = "FaucetInitialized" => isFirst(Q[i])

\* What the next state reports.
LEMMA NextReports ==
    ASSUME NEW q, IsState(q), NEW wraps, NEW x, IsEvent(x.event)
    PROVE  IF IsDeposit(x) THEN NextState(q, wraps, x) = q
           ELSE NextState(q, wraps, x).last_reported_index = x.index
<1>1. CASE x.event.event = "BlockCommitted"
  <2>1. NextState(q, wraps, x) = withBlock(q, wraps, x)
    BY <1>1 DEF NextState
  <2>2. withBlock(q, wraps, x).last_reported_index = x.index
    BY WithBlock
  <2> QED
    BY <1>1, <2>1, <2>2 DEF IsDeposit
<1>2. CASE x.event.event = "FaucetInitialized"
  <2>1. NextState(q, wraps, x) = withFaucet(q, x)
    BY <1>2 DEF NextState
  <2>2. withFaucet(q, x).last_reported_index = x.index
    BY WithFaucet
  <2> QED
    BY <1>2, <2>1, <2>2 DEF IsDeposit
<1>3. CASE x.event.event = "AssetSponsored"
  <2>1. NextState(q, wraps, x) = withAsset(q, x)
    BY <1>3 DEF NextState
  <2>2. withAsset(q, x).last_reported_index = x.index
    BY WithAsset
  <2> QED
    BY <1>3, <2>1, <2>2 DEF IsDeposit
<1>4. CASE x.event.event = "Erc20TokensDeposited"
  BY <1>4 DEF NextState, IsDeposit
<1> QED
  BY <1>1, <1>2, <1>3, <1>4 DEF IsEvent

\* What one event makes of the state.
LEMMA ReplayStep ==
    ASSUME NEW L, IsRange(L), NEW Q, NEW W, NEW i \in Nat, i + 1 <= Len(L),
           Step(L, Q, W, i), Served(Q[i]), Reported(L, Q, i), PendingSince(L, W, i)
    PROVE  /\ Served(Q[i + 1]) /\ Starts(Q[i].events, Q[i + 1].events)
           /\ Reported(L, Q, i + 1) /\ PendingSince(L, W, i + 1)
<1> DEFINE x == L[i + 1]
           n == i + 1
<1>0. n \in 1 .. Len(L) /\ n \in Nat
  BY ListFacts DEF IsRange
<1>1. IsEvent(x.event)
  BY <1>0 DEF IsRange, IsEntry
<1>2. /\ Q[n] = NextState(Q[i], W[i], x) /\ W[n] = NextWraps(W[i], x)
      /\ x.event.event = "FaucetInitialized" => isFirst(Q[i])
  BY DEF Step
<1>3. IsState(Q[i])
  BY DEF Served
<1> HIDE DEF x
<1>4. Served(Q[n]) /\ Starts(Q[i].events, Q[n].events)
  BY <1>1, <1>2, NextServed
<1>5. IF IsDeposit(x) THEN Q[n] = Q[i] ELSE Q[n].last_reported_index = x.index
  BY <1>1, <1>2, <1>3, NextReports
<1>6. Reported(L, Q, n)
  <2>1. CASE IsDeposit(x)
    <3>1. PICK r \in 0 .. i : /\ Q[r] = Q[i] /\ Q[i].last_reported_index = IndexAt(L, r)
                              /\ r = 0 \/ ~IsDeposit(L[r])
      BY DEF Reported
    <3>2. r \in 0 .. n
      OBVIOUS
    <3> HIDE DEF n
    <3> QED
      BY <1>5, <2>1, <3>1, <3>2 DEF Reported
  <2>2. CASE ~IsDeposit(x)
    <3>1. Q[n].last_reported_index = IndexAt(L, n)
      BY <1>0, <1>5, <2>2 DEF IndexAt, x
    <3>2. n \in 0 .. n /\ ~IsDeposit(L[n])
      BY <1>0, <2>2 DEF x
    <3> HIDE DEF n
    <3> QED
      BY <3>1, <3>2 DEF Reported
  <2> QED
    BY <2>1, <2>2
<1>7. PendingSince(L, W, n)
  <2>1. CASE IsDeposit(x)
    <3>1. n \in 1 .. n /\ \A j \in n .. n : j = n
      BY <1>0
    <3>2. L[n].event.event # "BlockCommitted" /\ IsDeposit(L[n])
      BY <2>1 DEF IsDeposit, x
    <3> HIDE DEF n
    <3> QED
      BY <3>1, <3>2 DEF PendingSince
  <2>2. CASE x.event.event = "BlockCommitted"
    BY <1>2, <2>2 DEF NextWraps, PendingSince
  <2>3. CASE ~IsDeposit(x) /\ x.event.event # "BlockCommitted"
    <3>1. W[n] = W[i]
      BY <1>2, <2>3 DEF NextWraps, IsDeposit
    <3> SUFFICES ASSUME W[n] # << >>
                 PROVE  \E j \in 1 .. n :
                          /\ IsDeposit(L[j])
                          /\ \A m \in j .. n : L[m].event.event # "BlockCommitted"
      BY DEF PendingSince
    <3>2. PICK j \in 1 .. i : /\ IsDeposit(L[j])
                              /\ \A m \in j .. i : L[m].event.event # "BlockCommitted"
      BY <3>1 DEF PendingSince
    <3>3. j \in 1 .. n /\ \A m \in j .. n : m = n \/ m \in j .. i
      OBVIOUS
    <3>4. L[n].event.event # "BlockCommitted"
      BY <2>3 DEF x
    <3> HIDE DEF n
    <3> QED
      BY <3>2, <3>3, <3>4
  <2> QED
    BY <2>1, <2>2, <2>3
<1> QED
  BY <1>4, <1>6, <1>7

\* The states of a replay have the shape of states.
LEMMA ReplayFacts ==
    ASSUME NEW L, IsRange(L), NEW Q, NEW W, NEW k \in 0 .. Len(L), IsReplay(L, Q, W, k),
           NEW i \in 0 .. k
    PROVE  Served(Q[i]) /\ Reported(L, Q, i) /\ PendingSince(L, W, i)
<1> DEFINE S == {n \in Nat : n <= k => /\ Served(Q[n]) /\ Reported(L, Q, n)
                                       /\ PendingSince(L, W, n)}
<1>0. Len(L) \in Nat
  BY ListFacts DEF IsRange
<1>1. 0 \in S
  <2>1. Q[0] = connected(NewState) /\ W[0] = << >>
    BY DEF IsReplay
  <2>2. connected(NewState).last_reported_index = NoIndex
    BY NewStateFields, ConnectedFields, NewStateFound
  <2>3. Reported(L, Q, 0)
    BY <2>1, <2>2 DEF Reported, IndexAt
  <2> QED
    BY <2>1, <2>3, NewStateServed DEF PendingSince
<1>2. ASSUME NEW n \in S PROVE n + 1 \in S
  <2> SUFFICES ASSUME n + 1 <= k
               PROVE  Served(Q[n + 1]) /\ Reported(L, Q, n + 1) /\ PendingSince(L, W, n + 1)
    OBVIOUS
  <2>0. n \in Nat /\ n \in 0 .. k - 1 /\ n + 1 <= Len(L)
    BY <1>0
  <2>1. Step(L, Q, W, n)
    BY <2>0 DEF IsReplay, Step
  <2>2. Served(Q[n]) /\ Reported(L, Q, n) /\ PendingSince(L, W, n)
    BY <2>0
  <2> HIDE DEF S
  <2> QED
    BY <2>0, <2>1, <2>2, ReplayStep
<1> HIDE DEF S
<1>3. S = Nat
  BY <1>1, <1>2, NatSetInduction DEF S
<1>4. i \in S /\ i <= k
  BY <1>0, <1>3
<1> QED
  BY <1>4 DEF S

\* The events that a client has been served stay where they are.
LEMMA ReplayGrows ==
    ASSUME NEW L, IsRange(L), NEW Q, NEW W, NEW k \in 0 .. Len(L), IsReplay(L, Q, W, k),
           NEW i \in 0 .. k, NEW j \in i .. k
    PROVE  Starts(Q[i].events, Q[j].events)
<1> DEFINE S == {n \in Nat : i + n <= k => Starts(Q[i].events, Q[i + n].events)}
<1>0. Len(L) \in Nat /\ i \in Nat /\ k \in Nat
  BY ListFacts DEF IsRange
<1>a. \A n \in 0 .. k : Served(Q[n]) /\ Reported(L, Q, n) /\ PendingSince(L, W, n)
  BY ReplayFacts
<1>b. \A n \in 0 .. k : IsList(Q[n].events)
  BY <1>a DEF Served
<1>1. 0 \in S
  BY <1>0, <1>b, StartsItself
<1>2. ASSUME NEW n \in S PROVE n + 1 \in S
  <2> SUFFICES ASSUME i + (n + 1) <= k PROVE Starts(Q[i].events, Q[i + (n + 1)].events)
    OBVIOUS
  <2> DEFINE m == i + n
  <2>0. n \in Nat /\ m \in 0 .. k - 1 /\ m \in Nat /\ m + 1 <= Len(L) /\ m + 1 \in 0 .. k
        /\ m \in 0 .. k /\ i + (n + 1) = m + 1 /\ m <= k
    BY <1>0
  <2>1. Step(L, Q, W, m)
    BY <2>0 DEF IsReplay, Step
  <2>2. Starts(Q[i].events, Q[m].events)
    BY <2>0
  <2> HIDE DEF S, m
  <2>3. Starts(Q[m].events, Q[m + 1].events)
    BY <1>a, <2>0, <2>1, ReplayStep
  <2>4. Starts(Q[i].events, Q[m + 1].events)
    BY <1>b, <2>0, <2>2, <2>3, StartsTransitive
  <2> QED
    BY <2>0, <2>4
<1> HIDE DEF S
<1>3. S = Nat
  BY <1>1, <1>2, NatSetInduction DEF S
<1>4. j - i \in S /\ i + (j - i) = j /\ j <= k
  BY <1>0, <1>3
<1> QED
  BY <1>4 DEF S

\* A longer list of events has the same replay.
LEMMA ReplayOfLonger ==
    ASSUME NEW L, NEW M, NEW Q, NEW W, NEW k \in Nat, IsReplay(L, Q, W, k),
           \A i \in 1 .. k : M[i] = L[i]
    PROVE  IsReplay(M, Q, W, k)
<1>1. \A i \in 0 .. k - 1 : i + 1 \in 1 .. k
  OBVIOUS
<1> QED
  BY <1>1 DEF IsReplay

\* Lists that start each other are the same.
LEMMA SameStarts ==
    ASSUME NEW a, NEW b, IsList(a), IsList(b), Starts(a, b), ~(Len(b) > Len(a))
    PROVE  a = b
<1>1. Len(a) \in Nat /\ Len(b) \in Nat
  BY ListFacts
<1>2. Len(a) = Len(b) /\ \A n \in 1 .. Len(a) : a[n] = b[n]
  BY <1>1 DEF Starts
<1> QED
  BY <1>2, SameList

\* A replay that goes on after the h-th event, and what it has served.
GoesOn(L, Q, W, k, h) ==
    \E R, V : \E l \in k .. Len(L) :
        /\ IsReplay(L, R, V, l) /\ h + 1 <= l
        /\ \A i \in 0 .. k : R[i] = Q[i] /\ V[i] = W[i]
        /\ R[h + 1] = NextState(Q[h], W[h], L[h + 1])
        /\ V[h + 1] = NextWraps(W[h], L[h + 1])
        /\ R[l].events = IF Len(R[h + 1].events) > Len(Q[k].events)
                         THEN R[h + 1].events ELSE Q[k].events

\* The event after the h-th one is handled, for the first time or again.
LEMMA ReplayForward ==
    ASSUME NEW L, IsRange(L), NEW Q, NEW W, NEW k \in 0 .. Len(L), IsReplay(L, Q, W, k),
           NEW h \in 0 .. k, h < Len(L),
           L[h + 1].event.event = "FaucetInitialized" => isFirst(Q[h])
    PROVE  GoesOn(L, Q, W, k, h)
<1>0. Len(L) \in Nat /\ k \in Nat /\ h \in Nat
  BY ListFacts DEF IsRange
<1>1. CASE h < k
  <2>0. h \in 0 .. k - 1 /\ h + 1 \in 0 .. k /\ k \in h + 1 .. k /\ k \in k .. Len(L)
    BY <1>0, <1>1
  <2>1. Q[h + 1] = NextState(Q[h], W[h], L[h + 1]) /\ W[h + 1] = NextWraps(W[h], L[h + 1])
    BY <2>0 DEF IsReplay
  <2>2. Starts(Q[h + 1].events, Q[k].events)
    BY <2>0, ReplayGrows
  <2>3. Served(Q[h + 1]) /\ Served(Q[k])
    <3>1. \A i \in 0 .. k : Served(Q[i]) /\ Reported(L, Q, i) /\ PendingSince(L, W, i)
      BY ReplayFacts
    <3> QED
      BY <1>0, <2>0, <3>1
  <2>4. Len(Q[h + 1].events) \in Nat /\ Len(Q[k].events) \in Nat
    BY <2>3, ListFacts DEF Served
  <2>5. ~(Len(Q[h + 1].events) > Len(Q[k].events))
    BY <2>2, <2>4 DEF Starts
  <2> QED
    BY <1>1, <2>0, <2>1, <2>5 DEF GoesOn
<1>2. CASE h = k
  <2> DEFINE n == k + 1
             s == NextState(Q[k], W[k], L[n])
             v == NextWraps(W[k], L[n])
             R == [i \in 0 .. n |-> IF i = n THEN s ELSE Q[i]]
             V == [i \in 0 .. n |-> IF i = n THEN v ELSE W[i]]
  <2>1. n \in k .. Len(L) /\ n \in 1 .. Len(L) /\ h + 1 = n /\ h + 1 <= n /\ n \in 0 .. Len(L)
    BY <1>0, <1>2
  <2>2. \A i \in 0 .. k : i \in 0 .. n /\ i # n
    BY <1>0
  <2>3. n \in 0 .. n
    BY <1>0
  <2> HIDE DEF s, v
  <2>4. (\A i \in 0 .. k : R[i] = Q[i] /\ V[i] = W[i]) /\ R[n] = s /\ V[n] = v
    BY <2>2, <2>3
  <2> HIDE DEF R, V
  <2>5. IsReplay(L, R, V, n)
    <3>1. R[0] = connected(NewState) /\ V[0] = << >>
      BY <1>0, <2>4 DEF IsReplay
    <3>2. ASSUME NEW i \in 0 .. n - 1 PROVE Step(L, R, V, i)
      <4>1. CASE i \in 0 .. k - 1
        <5>1. Step(L, Q, W, i)
          BY <4>1 DEF IsReplay, Step
        <5>2. R[i] = Q[i] /\ V[i] = W[i] /\ R[i + 1] = Q[i + 1] /\ V[i + 1] = W[i + 1]
          BY <1>0, <2>4, <4>1
        <5> QED
          BY <5>1, <5>2 DEF Step
      <4>2. CASE i = k
        <5>1. R[i] = Q[i] /\ V[i] = W[i] /\ i + 1 = n
          BY <1>0, <2>4, <4>2
        <5> HIDE DEF n
        <5> QED
          BY <1>2, <2>1, <2>4, <4>2, <5>1 DEF Step, s, v
      <4> QED
        BY <1>0, <4>1, <4>2
    <3> HIDE DEF n
    <3> QED
      BY <3>1, <3>2 DEF IsReplay, Step
  <2>6. Starts(R[k].events, R[n].events) /\ Served(R[n]) /\ Served(R[k])
    <3>1. k \in 0 .. n /\ n \in k .. n
      BY <1>0
    <3>2. \A i \in 0 .. n : Served(R[i]) /\ Reported(L, R, i) /\ PendingSince(L, V, i)
      BY <2>1, <2>5, ReplayFacts
    <3> QED
      BY <2>1, <2>5, <3>1, <3>2, ReplayGrows
  <2>7. R[k] = Q[k]
    BY <1>0, <2>4
  <2>8. R[n].events = IF Len(R[n].events) > Len(Q[k].events) THEN R[n].events ELSE Q[k].events
    <3>1. ~(Len(R[n].events) > Len(Q[k].events)) => Q[k].events = R[n].events
      BY <2>6, <2>7, SameStarts DEF Served
    <3> QED
      BY <3>1
  <2>9. R[h + 1] = NextState(Q[h], W[h], L[h + 1]) /\ V[h + 1] = NextWraps(W[h], L[h + 1])
    BY <1>2, <2>1, <2>4 DEF s, v
  <2> HIDE DEF n
  <2> QED
    BY <2>1, <2>4, <2>5, <2>8, <2>9 DEF GoesOn
<1> QED
  BY <1>0, <1>1, <1>2

-----------------------------------------------------------------------------
(* The blocks that are final, and their events.                            *)

FinalBlock == IF Confirmed > 0 THEN Confirmed ELSE 0

FinalEvents == EventsIn(chain, 1, FinalBlock)

ChainInv ==
    /\ IsChain(chain)
    /\ highest \in Nat
    /\ restarts \in Nat
    /\ Len(chain) <= highest
    /\ FinalBlock <= Len(chain)

\* The larger of two numbers.
LEMMA MaxOfTwo ==
    ASSUME NEW a \in Int, NEW b \in Int
    PROVE  Max({a, b}) = IF a <= b THEN b ELSE a
<1> DEFINE most == IF a <= b THEN b ELSE a
           top == Max({a, b})
<1>1. most \in {a, b} /\ \A y \in {a, b} : most >= y
  OBVIOUS
<1>2. top = CHOOSE x \in {a, b} : \A y \in {a, b} : x >= y
  BY DEF Max
<1>3. top \in {a, b} /\ \A y \in {a, b} : top >= y
  <2> HIDE DEF most, top
  <2> QED
    BY <1>1, <1>2
<1> HIDE DEF top
<1>4. top = most
  BY <1>1, <1>3
<1> QED
  BY <1>4 DEF top

\* The chain starts empty.
LEMMA ChainInit == Init => ChainInv
<1> SUFFICES ASSUME Init PROVE ChainInv
  OBVIOUS
<1>1. chain = << >> /\ highest = 0 /\ restarts = 0
  BY DEF Init
<1>2. num_confirmations \in Nat \ {0}
  BY EqsAssumption
<1>3. Confirmed = 0 - (num_confirmations - 1)
  BY <1>1 DEF Confirmed
<1>4. FinalBlock = 0
  BY <1>2, <1>3 DEF FinalBlock
<1>5. IsChain(<< >>)
  BY EmptyList DEF IsChain
<1> QED
  BY <1>1, <1>4, <1>5 DEF ChainInv

\* What is final stays where it is.
LEMMA ChainStep ==
    ASSUME ChainInv, [Next]_vars
    PROVE  /\ ChainInv'
           /\ FinalBlock \in Nat /\ FinalBlock' \in Nat /\ FinalBlock <= FinalBlock'
           /\ \A b \in 1 .. FinalBlock : chain'[b] = chain[b]
<1>1. /\ num_confirmations \in Nat \ {0} /\ Len(chain) \in Nat /\ highest \in Nat
      /\ Len(chain) <= highest
  BY EqsAssumption, ListFacts DEF ChainInv, IsChain
<1>2. FinalBlock = IF highest - (num_confirmations - 1) > 0
                   THEN highest - (num_confirmations - 1) ELSE 0
  BY DEF FinalBlock, Confirmed
<1>3. FinalBlock' = IF highest' - (num_confirmations - 1) > 0
                    THEN highest' - (num_confirmations - 1) ELSE 0
  BY DEF FinalBlock, Confirmed
<1>4. FinalBlock \in Nat /\ FinalBlock <= Len(chain)
  BY <1>1, <1>2 DEF ChainInv
<1>5. CASE NewBlock
  <2>1. /\ IsChain(chain)' /\ Len(chain') = Len(chain) + 1
        /\ \A b \in 1 .. Len(chain) : chain'[b] = chain[b]
    BY <1>5, ChainGrows DEF ChainInv
  <2>2. highest' = Max({highest, Len(chain')}) /\ restarts' = restarts
    BY <1>5 DEF NewBlock, eqsVars
  <2>3. highest' = IF highest <= Len(chain') THEN Len(chain') ELSE highest
    BY <1>1, <2>1, <2>2, MaxOfTwo
  <2>4. highest' \in Nat /\ Len(chain') <= highest' /\ highest <= highest'
    BY <1>1, <2>1, <2>3
  <2>5. FinalBlock' \in Nat /\ FinalBlock <= FinalBlock'
    <3>1. \A p, r, n \in Int : p <= r => p - (n - 1) <= r - (n - 1)
      OBVIOUS
    <3>2. highest \in Int /\ highest' \in Int /\ num_confirmations \in Int
      BY <1>1, <2>4
    <3>3. highest - (num_confirmations - 1) <= highest' - (num_confirmations - 1)
      BY <2>4, <3>1, <3>2
    <3> DEFINE x == highest - (num_confirmations - 1)
               y == highest' - (num_confirmations - 1)
    <3>4. x \in Int /\ y \in Int
      BY <3>2
    <3> HIDE DEF x, y
    <3>5. x <= y
      BY <3>3 DEF x, y
    <3>6. FinalBlock = (IF x > 0 THEN x ELSE 0) /\ FinalBlock' = (IF y > 0 THEN y ELSE 0)
      BY <1>2, <1>3 DEF x, y
    <3> QED
      BY <3>4, <3>5, <3>6
  <2>6. FinalBlock' <= Len(chain')
    <3>1. CASE highest <= Len(chain')
      <4>1. highest' = Len(chain')
        BY <2>3, <3>1
      <4> QED
        BY <1>1, <1>3, <2>1, <4>1
    <3>2. CASE ~(highest <= Len(chain'))
      <4>1. highest' = highest
        BY <2>3, <3>2
      <4>2. FinalBlock' = FinalBlock
        BY <1>2, <1>3, <4>1
      <4> QED
        BY <1>1, <1>4, <2>1, <4>2
    <3> QED
      BY <3>1, <3>2
  <2>7. \A b \in 1 .. FinalBlock : b \in 1 .. Len(chain)
    BY <1>1, <1>4
  <2> QED
    BY <1>4, <2>1, <2>2, <2>4, <2>5, <2>6, <2>7 DEF ChainInv
<1>6. CASE Reorg
  <2>1. IsChain(chain)'
    BY <1>6, ChainShrinks DEF ChainInv
  <2>2. PICK n \in 0 .. Len(chain) :
           /\ n >= highest - (num_confirmations - 1) /\ Len(chain') = n
           /\ \A b \in 1 .. n : chain'[b] = chain[b]
    BY <1>6, ChainShrinks DEF ChainInv
  <2>3. highest' = highest /\ restarts' = restarts
    BY <1>6 DEF Reorg, eqsVars
  <2>4. FinalBlock' = FinalBlock
    BY <1>2, <1>3, <2>3
  <2>5. FinalBlock <= n /\ n <= highest
    BY <1>1, <1>2, <2>2
  <2>6. \A b \in 1 .. FinalBlock : b \in 1 .. n
    BY <1>4, <2>2, <2>5
  <2> QED
    BY <1>4, <2>1, <2>2, <2>3, <2>4, <2>5, <2>6 DEF ChainInv
<1>7. CASE UNCHANGED <<chain, highest>> /\ (restarts' = restarts \/ restarts' = restarts + 1)
  <2>1. FinalBlock' = FinalBlock
    BY <1>2, <1>3, <1>7
  <2> QED
    BY <1>4, <1>7, <2>1 DEF ChainInv, IsChain
<1>8. UNCHANGED vars => UNCHANGED <<chain, highest>> /\ restarts' = restarts
  BY DEF vars, chainVars, eqsVars
<1>9. check \/ checkRange \/ panic \/ Crash \/ Restart
        => UNCHANGED <<chain, highest>> /\ (restarts' = restarts \/ restarts' = restarts + 1)
  BY DEF check, checkRange, skipRepeatEvent, BlockCommitted, Erc20TokensDeposited,
         FaucetInitialized, AssetSponsored, Advance, finishRange, panic, Crash, Stop, Restart,
         chainVars
<1> QED
  BY <1>5, <1>6, <1>7, <1>8, <1>9 DEF Next

\* A list of events that goes on, with events of blocks after a given one.
Continues(L, M, F) ==
    /\ Len(L) <= Len(M)
    /\ \A p \in 1 .. Len(L) : M[p] = L[p]
    /\ \A p \in 1 .. Len(M) : p > Len(L) => M[p].index[1] > F

\* The events up to a block, and those up to a later one.
LEMMA LaterEvents ==
    ASSUME NEW c, IsChain(c), NEW F \in Nat, NEW G \in F .. Len(c)
    PROVE  Continues(EventsIn(c, 1, F), EventsIn(c, 1, G), F)
<1> DEFINE a == EventsIn(c, 1, F)
           b == EventsIn(c, F + 1, G)
           M == EventsIn(c, 1, G)
<1>0. Len(c) \in Nat /\ F \in 0 .. Len(c) /\ G \in 0 .. Len(c) /\ F + 1 \in Nat \ {0}
      /\ F + 1 <= G + 1 /\ F + 1 \in Int /\ 1 \in Int
  BY ListFacts DEF IsChain
<1>1. IsPart(a, 1, F) /\ IsPart(b, F + 1, G)
  BY <1>0, ArePart
<1>2. M = a \o b
  <2>1. (F + 1) - 1 = F
    OBVIOUS
  <2>2. \A f \in Nat \ {0} : f <= G + 1 =>
           EventsIn(c, 1, G) = EventsIn(c, 1, f - 1) \o EventsIn(c, f, G)
    BY <1>0, SplitEvents
  <2>3. EventsIn(c, 1, G) = EventsIn(c, 1, (F + 1) - 1) \o EventsIn(c, F + 1, G)
    BY <1>0, <2>2
  <2> QED
    BY <2>1, <2>3
<1>3. IsList(a) /\ IsList(b) /\ Len(a) \in Nat /\ Len(b) \in Nat
  BY <1>1, ListFacts DEF IsPart, IsRange
<1> HIDE DEF a, b, M
<1>4. /\ Len(M) = Len(a) + Len(b)
      /\ \A i \in 1 .. Len(a) : M[i] = a[i]
      /\ \A i \in 1 .. Len(b) : M[Len(a) + i] = b[i]
  BY <1>2, <1>3, ConcatLists
<1>5. ASSUME NEW p \in 1 .. Len(M), p > Len(a) PROVE M[p].index[1] > F
  <2>1. p - Len(a) \in 1 .. Len(b) /\ Len(a) + (p - Len(a)) = p
    BY <1>3, <1>4, <1>5
  <2>2. M[p] = b[p - Len(a)]
    BY <1>4, <2>1
  <2>3. \A i \in 1 .. Len(b) : b[i].index[1] \in 1 .. G /\ F + 1 <= b[i].index[1]
    BY <1>1 DEF IsPart
  <2>4. b[p - Len(a)].index[1] \in 1 .. G /\ F + 1 <= b[p - Len(a)].index[1]
    BY <2>1, <2>3
  <2> QED
    BY <1>0, <2>2, <2>4
<1> QED
  BY <1>3, <1>4, <1>5 DEF Continues, a, M

\* The final events go on.
LEMMA FinalContinues ==
    ASSUME ChainInv, [Next]_vars
    PROVE  /\ Continues(FinalEvents, FinalEvents', FinalBlock)
           /\ IsPart(FinalEvents, 1, FinalBlock) /\ IsPart(FinalEvents', 1, FinalBlock')
<1>1. /\ ChainInv' /\ FinalBlock \in Nat /\ FinalBlock' \in Nat /\ FinalBlock <= FinalBlock'
      /\ \A b \in 1 .. FinalBlock : chain'[b] = chain[b]
  BY ChainStep
<1>2. PICK c, d, F, G : c = chain /\ d = chain' /\ F = FinalBlock /\ G = FinalBlock'
  OBVIOUS
<1>3. FinalEvents = EventsIn(c, 1, F) /\ FinalEvents' = EventsIn(d, 1, G)
  BY <1>2 DEF FinalEvents
<1>4. IsChain(c) /\ IsChain(d) /\ F \in 0 .. Len(c) /\ G \in 0 .. Len(d) /\ F \in Nat
      /\ F <= G /\ \A b \in 1 .. F : c[b] = d[b]
  <2>1. IsChain(c) /\ F <= Len(c)
    BY <1>2 DEF ChainInv
  <2>2. IsChain(d) /\ G <= Len(d)
    <3>1. IsChain(chain') /\ FinalBlock' <= Len(chain')
      BY <1>1 DEF ChainInv, IsChain
    <3> QED
      BY <1>2, <3>1
  <2>3. Len(c) \in Nat /\ Len(d) \in Nat
    BY <2>1, <2>2, ListFacts DEF IsChain
  <2> QED
    BY <1>1, <1>2, <2>1, <2>2, <2>3
<1>5. EventsIn(c, 1, F) = EventsIn(d, 1, F)
  BY <1>4, SameBlocks
<1>6. G \in F .. Len(d)
  BY <1>4
<1>7. Continues(EventsIn(d, 1, F), EventsIn(d, 1, G), F)
  BY <1>4, <1>6, LaterEvents
<1>8. IsPart(EventsIn(c, 1, F), 1, F) /\ IsPart(EventsIn(d, 1, G), 1, G)
  BY <1>4, ArePart
<1> QED
  BY <1>2, <1>3, <1>5, <1>7, <1>8

-----------------------------------------------------------------------------
(* Places in a list of events.                                             *)

\* The events that an index counts as seen are the first ones.
LEMMA SeenAre ==
    ASSUME NEW L, NEW F, IsPart(L, 1, F), NEW h \in 0 .. Len(L), NEW p \in 1 .. Len(L)
    PROVE  NotAfter(L[p].index, IndexAt(L, h)) <=> p <= h
<1>0. /\ Len(L) \in Nat
      /\ \A k \in 1 .. Len(L) : L[k].index[1] \in 1 .. F /\ L[k].index[2] >= 1
                                /\ L[k].index \in Nat \X Nat
      /\ \A k, l \in 1 .. Len(L) : k < l => Before(L[k].index, L[l].index)
  BY ListFacts DEF IsPart, IsRange, IsEntry, Indexes, Ordered
<1>1. CASE h = 0
  <2>1. IndexAt(L, h)[1] = 0
    BY <1>1 DEF IndexAt, NoIndex
  <2>2. L[p].index[1] > 0
    BY <1>0
  <2> QED
    BY <1>0, <1>1, <2>1, <2>2 DEF NotAfter
<1>2. CASE h # 0
  <2>0. h \in 1 .. Len(L) /\ IndexAt(L, h) = L[h].index
    BY <1>0, <1>2 DEF IndexAt
  <2> DEFINE i == L[p].index
             j == L[h].index
  <2>1. i[1] \in Nat /\ i[2] \in Nat /\ j[1] \in Nat /\ j[2] \in Nat
    BY <1>0, <2>0
  <2>2. (p < h => Before(i, j)) /\ (h < p => Before(j, i)) /\ (p = h => i = j)
    BY <1>0, <2>0
  <2> HIDE DEF i, j
  <2>3. (p < h => NotAfter(i, j)) /\ (h < p => ~NotAfter(i, j)) /\ (p = h => NotAfter(i, j))
    BY <2>1, <2>2 DEF Before, NotAfter
  <2>4. p < h \/ h < p \/ p = h
    BY <2>0
  <2> QED
    BY <2>0, <2>3, <2>4 DEF i, j
<1> QED
  BY <1>1, <1>2

\* A list is the part of another one that starts after the j-th place.
IsSlice(s, L, j, a) ==
    /\ j \in 0 .. a /\ a \in 0 .. Len(L)
    /\ Len(s) = a - j
    /\ \A i \in 1 .. Len(s) : s[i] = L[j + i]

\* The slice ends with the events of a block, and starts after those of
\* blocks before a given one.
IsSliceUpTo(s, L, to, first) ==
    \E a \in 0 .. Len(L) : \E j \in 0 .. a :
       /\ IsSlice(s, L, j, a)
       /\ \A p \in 1 .. Len(L) : L[p].index[1] <= to => p <= a
       /\ j # 0 => L[j].index[1] < first

\* The events of a range of blocks are a slice of those of all blocks.
LEMMA RangeIsSlice ==
    ASSUME NEW c, IsChain(c), NEW F \in 0 .. Len(c), NEW to \in 0 .. F,
           NEW first \in Int, first <= to + 1,
           NEW L, L = EventsIn(c, 1, F), NEW s, s = EventsIn(c, first, to)
    PROVE  IsSliceUpTo(s, L, to, first)
<1> DEFINE R == EventsIn(c, 1, to)
<1>0. Len(c) \in Nat /\ to \in Nat /\ F \in to .. Len(c) /\ to \in 0 .. Len(c) /\ 1 \in Int
  BY ListFacts DEF IsChain
<1>1. Continues(R, L, to)
  BY <1>0, LaterEvents
<1>2. IsPart(L, 1, F) /\ IsPart(R, 1, to) /\ IsPart(s, first, to)
  BY <1>0, ArePart
<1>3. /\ IsList(L) /\ IsList(R) /\ IsList(s)
      /\ Len(L) \in Nat /\ Len(R) \in Nat /\ Len(s) \in Nat
  BY <1>2, ListFacts DEF IsPart, IsRange
<1>4. Len(R) \in 0 .. Len(L) /\ (\A p \in 1 .. Len(R) : R[p] = L[p])
  BY <1>1, <1>3 DEF Continues
<1>5. \A p \in 1 .. Len(L) : L[p].index[1] <= to => p <= Len(R)
  <2> SUFFICES ASSUME NEW p \in 1 .. Len(L), L[p].index[1] <= to, ~(p <= Len(R)) PROVE FALSE
    OBVIOUS
  <2>1. L[p].index[1] \in 1 .. F
    BY <1>2 DEF IsPart
  <2>2. L[p].index[1] > to
    BY <1>1, <1>3 DEF Continues
  <2> QED
    BY <1>0, <2>1, <2>2
<1>6. CASE first <= 0
  <2>1. s = R
    BY <1>0, <1>6, RangeFromStart
  <2> HIDE DEF R
  <2>2. IsSlice(s, L, 0, Len(R))
    BY <1>3, <1>4, <2>1 DEF IsSlice
  <2>3. 0 \in 0 .. Len(R)
    BY <1>3
  <2> QED
    BY <1>4, <1>5, <2>2, <2>3 DEF IsSliceUpTo
<1>7. CASE first > 0
  <2> DEFINE a == EventsIn(c, 1, first - 1)
  <2>0. first \in Nat \ {0} /\ first - 1 \in 0 .. Len(c)
    BY <1>0, <1>7
  <2>1. R = a \o s
    BY <1>0, <2>0, SplitEvents
  <2>2. IsPart(a, 1, first - 1)
    BY <1>0, <2>0, ArePart
  <2>3. IsList(a) /\ Len(a) \in Nat
    BY <2>2, ListFacts DEF IsPart, IsRange
  <2> HIDE DEF a, R
  <2>4. /\ Len(R) = Len(a) + Len(s)
        /\ \A i \in 1 .. Len(a) : R[i] = a[i]
        /\ \A i \in 1 .. Len(s) : R[Len(a) + i] = s[i]
    BY <1>3, <2>1, <2>3, ConcatLists
  <2>5. IsSlice(s, L, Len(a), Len(R))
    <3>1. Len(a) \in 0 .. Len(R) /\ Len(s) = Len(R) - Len(a)
      BY <1>3, <2>3, <2>4
    <3>2. ASSUME NEW i \in 1 .. Len(s) PROVE s[i] = L[Len(a) + i]
      <4>1. Len(a) + i \in 1 .. Len(R)
        BY <1>3, <2>3, <2>4
      <4> QED
        BY <1>4, <2>4, <4>1
    <3> QED
      BY <1>4, <3>1, <3>2 DEF IsSlice
  <2>6. Len(a) # 0 => L[Len(a)].index[1] < first
    <3> SUFFICES ASSUME Len(a) # 0 PROVE L[Len(a)].index[1] < first
      OBVIOUS
    <3>1. Len(a) \in 1 .. Len(a) /\ Len(a) \in 1 .. Len(R)
      BY <1>3, <2>3, <2>4
    <3>2. L[Len(a)] = a[Len(a)]
      BY <1>4, <2>4, <3>1
    <3>3. a[Len(a)].index[1] \in 1 .. first - 1
      BY <2>2, <3>1 DEF IsPart
    <3> QED
      BY <3>2, <3>3
  <2>7. Len(a) \in 0 .. Len(R)
    BY <1>3, <2>3, <2>4
  <2> QED
    BY <1>4, <1>5, <2>5, <2>6, <2>7 DEF IsSliceUpTo
<1> QED
  BY <1>6, <1>7

-----------------------------------------------------------------------------
(* The service's place in the final events: it has handled h of them, at   *)
(* most k since the beginning, and its state on disk is that after m.      *)

Describes(L, F, Q, W, k, h, m) ==
    /\ k \in 0 .. Len(L) /\ h \in 0 .. k /\ m \in 0 .. h
    /\ IsReplay(L, Q, W, k)
    /\ query_result_state = Q[h] /\ pending_commit_event = W[h]
    /\ last_event_index = IndexAt(L, h)
    /\ served = Q[k].events
    /\ connected(persisted) = Q[m] /\ persisted.last_reported_index = IndexAt(L, m)
    /\ m = 0 \/ ~IsDeposit(L[m])
    /\ next_block_to_query <= F + 1
    /\ \A p \in 1 .. Len(L) : L[p].index[1] < next_block_to_query => p <= h

\* The events of the range in progress that are left start at the j-th place.
InProgress(L, F, h) ==
    mode = "in_range" =>
        /\ to_block <= F
        /\ \E a \in 0 .. Len(L) : \E j \in 0 .. a :
              /\ IsSlice(new_event, L, j, a)
              /\ j <= h
              /\ \A p \in 1 .. Len(L) : L[p].index[1] <= to_block => p <= a

Placed(L, F) ==
    \E Q, W : \E k, h, m \in Nat :
        Describes(L, F, Q, W, k, h, m) /\ InProgress(L, F, h)

ServInv == FoundInv /\ ChainInv /\ Placed(FinalEvents, FinalBlock)

(***************************************************************************)
(* The chain never sponsors an asset or initialises the faucet while a     *)
(* deposit waits for its block: the state that the service persists then   *)
(* lacks the pending wraps, which a restart loses.                         *)
(***************************************************************************)
NoWaitLost ==
    \/ MaxRestarts = 0
    \/ LET all == IndexedEvents(1, Len(chain))
       IN  \A j, k \in 1 .. Len(all) :
              /\ j < k
              /\ IsDeposit(all[j])
              /\ all[k].event.event \in {"AssetSponsored", "FaucetInitialized"}
              => \E i \in j .. k : all[i].event.event = "BlockCommitted"

\* The same of a list of events.
Committing(L) ==
    \A j, k \in 1 .. Len(L) :
        /\ j < k
        /\ IsDeposit(L[j])
        /\ L[k].event.event \in {"AssetSponsored", "FaucetInitialized"}
        => \E i \in j .. k : L[i].event.event = "BlockCommitted"

-----------------------------------------------------------------------------
\* The final events go on: the service's place stays where it is.
LEMMA PlacedLater ==
    ASSUME NEW L, NEW F \in Nat, NEW M, NEW G \in Nat, F <= G, IsPart(L, 1, F), IsPart(M, 1, G),
           Continues(L, M, F), FoundInv, Placed(L, F)
    PROVE  Placed(M, G)
<1>1. PICK Q, W, k, h, m : /\ k \in Nat /\ h \in Nat /\ m \in Nat
                           /\ Describes(L, F, Q, W, k, h, m) /\ InProgress(L, F, h)
  BY DEF Placed
<1>2. /\ Len(L) \in Nat /\ Len(M) \in Nat /\ Len(L) <= Len(M)
      /\ \A p \in 1 .. Len(L) : M[p] = L[p]
      /\ \A p \in 1 .. Len(M) : p > Len(L) => M[p].index[1] > F
      /\ \A p \in 1 .. Len(M) : M[p].index[1] \in 1 .. G
  BY ListFacts DEF Continues, IsPart, IsRange
<1>3. next_block_to_query \in Nat /\ to_block \in Nat
  BY DEF FoundInv
<1>4. k \in 0 .. Len(L) /\ h \in 0 .. k /\ m \in 0 .. h /\ k \in 0 .. Len(M)
  BY <1>1, <1>2 DEF Describes
<1>5. IsReplay(M, Q, W, k)
  <2>1. \A i \in 1 .. k : M[i] = L[i]
    BY <1>2, <1>4
  <2> QED
    BY <1>1, <1>4, <2>1, ReplayOfLonger DEF Describes
<1>6. \A i \in 0 .. k : IndexAt(M, i) = IndexAt(L, i) /\ (i # 0 => M[i] = L[i])
  BY <1>2, <1>4 DEF IndexAt
<1>7. \A p \in 1 .. Len(M), n \in Nat : n <= F + 1 /\ M[p].index[1] < n
                                        => p \in 1 .. Len(L) /\ L[p].index[1] < n
  <2> SUFFICES ASSUME NEW p \in 1 .. Len(M), NEW n \in Nat, n <= F + 1, M[p].index[1] < n
               PROVE  p \in 1 .. Len(L) /\ L[p].index[1] < n
    OBVIOUS
  <2>1. M[p].index[1] \in 1 .. G
    BY <1>2
  <2>2. ~(M[p].index[1] > F)
    BY <2>1
  <2>3. p \in 1 .. Len(L)
    BY <1>2, <2>2
  <2> QED
    BY <1>2, <2>3
<1>8. Describes(M, G, Q, W, k, h, m)
  <2>1. next_block_to_query <= G + 1
    BY <1>1, <1>3 DEF Describes
  <2>2. \A p \in 1 .. Len(M) : M[p].index[1] < next_block_to_query => p <= h
    BY <1>1, <1>3, <1>7 DEF Describes
  <2>3. h \in 0 .. k /\ m \in 0 .. k
    BY <1>4
  <2> QED
    BY <1>1, <1>4, <1>5, <1>6, <2>1, <2>2, <2>3 DEF Describes
<1>9. InProgress(M, G, h)
  <2> SUFFICES ASSUME mode = "in_range" PROVE InProgress(M, G, h)
    BY DEF InProgress
  <2>0. to_block <= F
    BY <1>1 DEF InProgress
  <2>2. PICK a, j :
              /\ a \in 0 .. Len(L) /\ j \in 0 .. a
              /\ IsSlice(new_event, L, j, a) /\ j <= h
              /\ \A p \in 1 .. Len(L) : L[p].index[1] <= to_block => p <= a
    BY <1>1 DEF InProgress
  <2>3. to_block <= F /\ to_block + 1 \in Nat
    BY <1>3, <2>0
  <2>4. \A p \in 1 .. Len(M) : M[p].index[1] <= to_block => p <= a
    <3> SUFFICES ASSUME NEW p \in 1 .. Len(M), M[p].index[1] <= to_block PROVE p <= a
      OBVIOUS
    <3>1. M[p].index[1] \in 1 .. G
      BY <1>2
    <3>2. M[p].index[1] < to_block + 1 /\ to_block + 1 <= F + 1
      BY <1>3, <2>3, <3>1
    <3>3. p \in 1 .. Len(L)
      BY <1>7, <2>3, <3>2
    <3> QED
      BY <1>2, <2>2, <3>3
  <2>5. IsSlice(new_event, M, j, a)
    <3>1. \A i \in 1 .. Len(new_event) : j + i \in 1 .. Len(L)
      BY <1>2, <2>2 DEF IsSlice
    <3>2. a \in 0 .. Len(M) /\ j \in 0 .. a /\ Len(new_event) = a - j
          /\ \A i \in 1 .. Len(new_event) : new_event[i] = L[j + i]
      BY <1>2, <2>2 DEF IsSlice
    <3>3. \A i \in 1 .. Len(new_event) : new_event[i] = M[j + i]
      BY <1>2, <3>1, <3>2
    <3> QED
      BY <3>2, <3>3 DEF IsSlice
  <2>6. a \in 0 .. Len(M) /\ to_block <= G
    BY <1>2, <1>3, <2>2, <2>3
  <2> QED
    BY <2>2, <2>4, <2>5, <2>6 DEF InProgress
<1> QED
  BY <1>1, <1>8, <1>9 DEF Placed

\* A step that leaves the state alone keeps its place in the replay.
LEMMA KeepPlace ==
    ASSUME NEW L, NEW F, NEW Q, NEW W, NEW k, NEW h, NEW m, Describes(L, F, Q, W, k, h, m),
           UNCHANGED <<query_result_state, pending_commit_event, last_event_index, served,
                       persisted, next_block_to_query>>
    PROVE  Describes(L, F, Q, W, k, h, m)'
BY DEF Describes

\* A range of final blocks is fetched: what is left out of it was handled.
LEMMA PlacedCheck ==
    ASSUME NEW L, NEW F \in Nat, FoundInv, ChainInv, L = EventsIn(chain, 1, F),
           F = FinalBlock, Placed(L, F), check
    PROVE  Placed(L, F)'
<1>1. PICK Q, W, k, h, m : /\ k \in Nat /\ h \in Nat /\ m \in Nat
                           /\ Describes(L, F, Q, W, k, h, m) /\ InProgress(L, F, h)
  BY DEF Placed
<1>2. Describes(L, F, Q, W, k, h, m)'
  <2>1. UNCHANGED <<query_result_state, pending_commit_event, last_event_index, served,
                    persisted, next_block_to_query>>
    BY DEF check
  <2> QED
    BY <1>1, <2>1, KeepPlace
<1>3. /\ to_block' \in Nat
      /\ to_block' <= latest_confirmed_block_number(Len(chain))
      /\ next_block_to_query <= to_block'
  BY RangeChosen DEF FoundInv
<1>4. PICK repeat \in {0, 1} :
         new_event' = EventsIn(chain, next_block_to_query - repeat, to_block')
  BY RangeChosen DEF FoundInv
<1>5. PICK c, to, next, s : c = chain /\ to = to_block' /\ next = next_block_to_query
                              /\ s = new_event'
  OBVIOUS
<1>6. /\ IsChain(c) /\ F \in 0 .. Len(c) /\ to \in 0 .. F
      /\ next - repeat \in Int /\ next - repeat <= to + 1 /\ next \in Nat
  <2>1. IsChain(c) /\ F <= Len(c) /\ Len(c) \in Nat /\ highest \in Nat /\ Len(c) <= highest
    BY <1>5, ListFacts DEF ChainInv, IsChain
  <2>2. num_confirmations \in Nat
    BY EqsAssumption
  <2>3. to \in Nat /\ to <= Len(c) - (num_confirmations - 1)
    BY <1>3, <1>5 DEF latest_confirmed_block_number
  <2>4. Confirmed = highest - (num_confirmations - 1)
    BY DEF Confirmed
  <2>5. to <= Confirmed /\ Confirmed \in Int
    BY <2>1, <2>2, <2>3, <2>4
  <2>6. F = IF Confirmed > 0 THEN Confirmed ELSE 0
    BY DEF FinalBlock
  <2>7. to <= F
    BY <2>3, <2>5, <2>6
  <2>8. next \in Nat /\ next <= to
    BY <1>3, <1>5 DEF FoundInv
  <2> QED
    BY <2>1, <2>3, <2>7, <2>8
<1>7. L = EventsIn(c, 1, F) /\ s = EventsIn(c, next - repeat, to)
  BY <1>4, <1>5
<1>8. PICK a, j : /\ a \in 0 .. Len(L) /\ j \in 0 .. a
                  /\ IsSlice(s, L, j, a)
                  /\ \A p \in 1 .. Len(L) : L[p].index[1] <= to => p <= a
                  /\ j # 0 => L[j].index[1] < next - repeat
  <2> DEFINE first == next - repeat
  <2>1. first \in Int /\ first <= to + 1 /\ s = EventsIn(c, first, to)
    BY <1>6, <1>7
  <2> HIDE DEF first
  <2>2. IsSliceUpTo(s, L, to, first)
    BY <1>6, <1>7, <2>1, RangeIsSlice
  <2> QED
    BY <2>2 DEF first, IsSliceUpTo
<1>9. IsPart(L, 1, F) /\ Len(L) \in Nat
  <2>1. IsPart(L, 1, F)
    BY <1>6, <1>7, ArePart
  <2> QED
    BY <2>1, ListFacts DEF IsPart, IsRange
<1>10. j <= h
  <2>1. CASE j = 0
    BY <1>1, <2>1
  <2>2. CASE j # 0
    <3>1. j \in 1 .. Len(L)
      BY <1>8, <1>9, <2>2
    <3>2. L[j].index[1] \in 1 .. F
      BY <1>9, <3>1 DEF IsPart
    <3>3. L[j].index[1] < next
      BY <1>6, <1>8, <2>2, <3>2
    <3> QED
      BY <1>1, <1>5, <3>1, <3>3 DEF Describes
  <2> QED
    BY <2>1, <2>2
<1>11. InProgress(L, F, h)'
  <2>1. to_block' <= F
    BY <1>5, <1>6
  <2>2. IsSlice(new_event', L, j, a)
    BY <1>5, <1>8
  <2>3. \A p \in 1 .. Len(L) : L[p].index[1] <= to_block' => p <= a
    BY <1>5, <1>8
  <2> QED
    BY <1>8, <1>10, <2>1, <2>2, <2>3 DEF InProgress, IsSlice
<1> QED
  BY <1>1, <1>2, <1>11 DEF Placed

\* The next event of the range, which was seen if it was handled.
LEMMA NextOfSlice ==
    ASSUME NEW s, IsRange(s), s # << >>, NEW L, NEW F, IsPart(L, 1, F), NEW j, NEW a,
           IsSlice(s, L, j, a)
    PROVE  /\ j + 1 \in 1 .. Len(L) /\ j + 1 \in 0 .. a /\ j \in Nat
           /\ Head(s) = L[j + 1]
           /\ IsSlice(Tail(s), L, j + 1, a)
           /\ \A h \in 0 .. Len(L) : NotAfter(Head(s).index, IndexAt(L, h)) <=> j + 1 <= h
<1>1. /\ Len(s) \in Nat \ {0} /\ Len(Tail(s)) = Len(s) - 1 /\ Head(s) = s[1]
      /\ \A k \in 1 .. Len(Tail(s)) : Tail(s)[k] = s[k + 1]
      /\ Len(L) \in Nat
  BY RangeTail, ListFacts DEF IsPart, IsRange
<1>2. /\ j \in 0 .. a /\ a \in 0 .. Len(L) /\ Len(s) = a - j
      /\ \A i \in 1 .. Len(s) : s[i] = L[j + i]
  BY DEF IsSlice
<1>3. j + 1 \in 1 .. Len(L) /\ j + 1 \in 0 .. a /\ Head(s) = L[j + 1] /\ j \in Nat
  BY <1>1, <1>2
<1>4. IsSlice(Tail(s), L, j + 1, a)
  <2>1. Len(Tail(s)) = a - (j + 1)
    BY <1>1, <1>2
  <2>2. ASSUME NEW i \in 1 .. Len(Tail(s)) PROVE Tail(s)[i] = L[(j + 1) + i]
    <3>1. i + 1 \in 1 .. Len(s) /\ j + (i + 1) = (j + 1) + i
      BY <1>1, <1>2
    <3>2. Tail(s)[i] = s[i + 1]
      BY <1>1
    <3>3. s[i + 1] = L[j + (i + 1)]
      BY <1>2, <3>1
    <3> QED
      BY <3>1, <3>2, <3>3
  <2> QED
    BY <1>2, <1>3, <2>1, <2>2 DEF IsSlice
<1>5. \A h \in 0 .. Len(L) : NotAfter(L[j + 1].index, IndexAt(L, h)) <=> j + 1 <= h
  BY <1>3, SeenAre
<1> QED
  BY <1>3, <1>4, <1>5

\* A repeated event was handled before.
LEMMA PlacedSkip ==
    ASSUME NEW L, NEW F, IsPart(L, 1, F), FoundInv, Placed(L, F), skipRepeatEvent
    PROVE  Placed(L, F)'
<1>1. PICK Q, W, k, h, m : /\ k \in Nat /\ h \in Nat /\ m \in Nat
                           /\ Describes(L, F, Q, W, k, h, m) /\ InProgress(L, F, h)
  BY DEF Placed
<1>2. Describes(L, F, Q, W, k, h, m)'
  <2>1. UNCHANGED <<query_result_state, pending_commit_event, last_event_index, served,
                    persisted, next_block_to_query>>
    BY DEF skipRepeatEvent
  <2> QED
    BY <1>1, <2>1, KeepPlace
<1>3. /\ IsRange(new_event) /\ new_event # << >> /\ mode = "in_range"
      /\ NotAfter(Head(new_event).index, last_event_index)
      /\ new_event' = Tail(new_event) /\ UNCHANGED <<mode, to_block>>
  BY DEF FoundInv, skipRepeatEvent, alreadySeen, current
<1>4. PICK a, j : /\ a \in 0 .. Len(L) /\ j \in 0 .. a
                  /\ IsSlice(new_event, L, j, a) /\ to_block <= F
                  /\ \A p \in 1 .. Len(L) : L[p].index[1] <= to_block => p <= a
  BY <1>1, <1>3 DEF InProgress
<1>5. PICK s : s = new_event
  OBVIOUS
<1>6. /\ j + 1 \in 0 .. a /\ IsSlice(Tail(s), L, j + 1, a)
      /\ \A i \in 0 .. Len(L) : NotAfter(Head(s).index, IndexAt(L, i)) <=> j + 1 <= i
  BY <1>3, <1>4, <1>5, NextOfSlice
<1>7. last_event_index = IndexAt(L, h) /\ h \in 0 .. Len(L)
  <2>1. Len(L) \in Nat
    BY ListFacts DEF IsPart, IsRange
  <2> QED
    BY <1>1, <2>1 DEF Describes
<1>8. j + 1 <= h
  BY <1>3, <1>5, <1>6, <1>7
<1>9. InProgress(L, F, h)'
  <2>1. IsSlice(new_event', L, j + 1, a)
    BY <1>3, <1>5, <1>6
  <2> DEFINE i == j + 1
  <2>2. i \in 0 .. a /\ i <= h /\ IsSlice(new_event', L, i, a)
    BY <1>6, <1>8, <2>1
  <2> HIDE DEF i
  <2> QED
    BY <1>3, <1>4, <2>2 DEF InProgress, IsSlice
<1> QED
  BY <1>1, <1>2, <1>9 DEF Placed

\* What the handler of an event makes of the service's state.
Handled1(q, wraps, events) ==
    /\ mode = "in_range" /\ new_event # << >> /\ ~alreadySeen
    /\ current.event.event = "FaucetInitialized" => isFirst(query_result_state)
    /\ query_result_state' = q /\ q = NextState(query_result_state, pending_commit_event, current)
    /\ pending_commit_event' = wraps /\ wraps = NextWraps(pending_commit_event, current)
    /\ served' = events
    /\ events = IF Len(q.events) > Len(served) THEN q.events ELSE served
    /\ last_event_index' = current.index
    /\ new_event' = Tail(new_event)
    /\ UNCHANGED <<persisted, next_block_to_query, to_block, mode>>

\* Every handler moves the state to the next place of the replay.
LEMMA PlacedHandled ==
    ASSUME NEW L, NEW F, IsPart(L, 1, F), FoundInv, Placed(L, F),
           NEW q, NEW wraps, NEW events, Handled1(q, wraps, events)
    PROVE  Placed(L, F)'
<1>1. PICK Q, W, k, h, m : /\ k \in Nat /\ h \in Nat /\ m \in Nat
                           /\ Describes(L, F, Q, W, k, h, m) /\ InProgress(L, F, h)
  BY DEF Placed
<1>2. PICK s, x : s = new_event /\ x = Head(s)
  OBVIOUS
<1>3. /\ IsRange(s) /\ s # << >> /\ mode = "in_range" /\ new_event' = Tail(s)
      /\ ~NotAfter(x.index, last_event_index) /\ last_event_index' = x.index
      /\ x.event.event = "FaucetInitialized" => isFirst(query_result_state)
      /\ query_result_state' = NextState(query_result_state, pending_commit_event, x)
      /\ pending_commit_event' = NextWraps(pending_commit_event, x)
      /\ query_result_state' = q /\ served' = events
      /\ events = (IF Len(q.events) > Len(served) THEN q.events ELSE served)
      /\ UNCHANGED <<persisted, next_block_to_query, to_block, mode>>
  BY <1>2 DEF FoundInv, Handled1, alreadySeen, current
<1>4. PICK a, j : /\ a \in 0 .. Len(L) /\ j \in 0 .. a
                  /\ IsSlice(s, L, j, a) /\ to_block <= F /\ j <= h
                  /\ \A p \in 1 .. Len(L) : L[p].index[1] <= to_block => p <= a
  BY <1>1, <1>2, <1>3 DEF InProgress
<1>5. /\ j + 1 \in 0 .. a /\ j + 1 \in 1 .. Len(L) /\ x = L[j + 1] /\ j \in Nat
      /\ IsSlice(Tail(s), L, j + 1, a)
      /\ \A i \in 0 .. Len(L) : NotAfter(x.index, IndexAt(L, i)) <=> j + 1 <= i
  BY <1>2, <1>3, <1>4, NextOfSlice
<1>6. Len(L) \in Nat /\ IsRange(L)
  BY ListFacts DEF IsPart, IsRange
<1>7. /\ k \in 0 .. Len(L) /\ h \in 0 .. k /\ h \in 0 .. Len(L) /\ m \in 0 .. h
      /\ IsReplay(L, Q, W, k)
      /\ query_result_state = Q[h] /\ pending_commit_event = W[h]
      /\ last_event_index = IndexAt(L, h) /\ served = Q[k].events
  BY <1>1, <1>6 DEF Describes
<1>8. j = h /\ h < Len(L)
  BY <1>3, <1>4, <1>5, <1>6, <1>7
<1>9. GoesOn(L, Q, W, k, h)
  <2>1. L[h + 1].event.event = "FaucetInitialized" => isFirst(Q[h])
    BY <1>3, <1>5, <1>7, <1>8
  <2> QED
    BY <1>6, <1>7, <1>8, <2>1, ReplayForward
<1>10. PICK R, V, l : 
              /\ l \in k .. Len(L)
              /\ IsReplay(L, R, V, l) /\ h + 1 <= l
              /\ \A i \in 0 .. k : R[i] = Q[i] /\ V[i] = W[i]
              /\ R[h + 1] = NextState(Q[h], W[h], L[h + 1])
              /\ V[h + 1] = NextWraps(W[h], L[h + 1])
              /\ R[l].events = IF Len(R[h + 1].events) > Len(Q[k].events)
                               THEN R[h + 1].events ELSE Q[k].events
  BY <1>9 DEF GoesOn
<1>11. PICK n : n = h + 1
  OBVIOUS
<1>12. /\ n \in Nat /\ n \in 0 .. l /\ l \in Nat /\ l \in 0 .. Len(L) /\ m \in 0 .. n
       /\ m \in 0 .. k /\ n # 0 /\ n \in 0 .. a
  BY <1>5, <1>6, <1>7, <1>8, <1>10, <1>11
<1>13. Describes(L, F, R, V, l, n, m)'
  <2>1. query_result_state' = R[n] /\ pending_commit_event' = V[n]
    BY <1>3, <1>5, <1>7, <1>8, <1>10, <1>11
  <2>2. last_event_index' = IndexAt(L, n)
    BY <1>3, <1>5, <1>8, <1>11, <1>12 DEF IndexAt
  <2>3. served' = R[l].events
    <3>1. q = R[n]
      BY <1>3, <2>1
    <3> QED
      BY <1>3, <1>7, <1>10, <1>11, <3>1
  <2>4. /\ connected(persisted) = R[m] /\ persisted.last_reported_index = IndexAt(L, m)
        /\ m = 0 \/ ~IsDeposit(L[m])
        /\ next_block_to_query <= F + 1
    BY <1>1, <1>10, <1>12 DEF Describes
  <2>5. \A p \in 1 .. Len(L) : L[p].index[1] < next_block_to_query => p <= n
    BY <1>1, <1>11 DEF Describes
  <2> QED
    BY <1>3, <1>10, <1>12, <2>1, <2>2, <2>3, <2>4, <2>5 DEF Describes, connected
<1>14. InProgress(L, F, n)'
  <2>1. IsSlice(new_event', L, n, a)
    BY <1>3, <1>5, <1>8, <1>11
  <2>2. n <= n
    BY <1>12
  <2> QED
    BY <1>3, <1>4, <1>12, <2>1, <2>2 DEF InProgress, IsSlice
<1> QED
  BY <1>1, <1>12, <1>13, <1>14 DEF Placed

\* No state served more events than are remembered.
LEMMA ServedMost ==
    ASSUME NEW L, NEW F, IsPart(L, 1, F), Placed(L, F)
    PROVE  ~(Len(query_result_state.events) > Len(served))
<1>1. PICK Q, W, k, h, m : /\ k \in Nat /\ h \in Nat /\ m \in Nat
                           /\ Describes(L, F, Q, W, k, h, m)
  BY DEF Placed
<1>2. IsRange(L)
  BY DEF IsPart
<1>3. /\ k \in 0 .. Len(L) /\ h \in 0 .. k /\ k \in h .. k /\ IsReplay(L, Q, W, k)
      /\ query_result_state = Q[h] /\ served = Q[k].events
  BY <1>1 DEF Describes
<1>4. Starts(Q[h].events, Q[k].events)
  BY <1>2, <1>3, ReplayGrows
<1>5. Served(Q[h]) /\ Served(Q[k])
  <2>1. \A i \in 0 .. k : Served(Q[i]) /\ Reported(L, Q, i) /\ PendingSince(L, W, i)
    BY <1>2, <1>3, ReplayFacts
  <2> QED
    BY <1>1, <1>3, <2>1
<1>6. Len(Q[h].events) \in Nat /\ Len(Q[k].events) \in Nat
  BY <1>5, ListFacts DEF Served
<1> QED
  BY <1>3, <1>4, <1>6 DEF Starts

\* The handlers of the loop, by their event.
LEMMA HandlersAre ==
    ASSUME FoundInv, ~(Len(query_result_state.events) > Len(served)),
           BlockCommitted \/ Erc20TokensDeposited \/ FaucetInitialized \/ AssetSponsored
    PROVE  \E q, wraps, events : Handled1(q, wraps, events)
<1> DEFINE q == NextState(query_result_state, pending_commit_event, current)
           wraps == NextWraps(pending_commit_event, current)
           events == IF Len(q.events) > Len(served) THEN q.events ELSE served
<1>1. CASE BlockCommitted
  <2>1. current.event.event = "BlockCommitted"
    BY <1>1 DEF BlockCommitted, Handles
  <2>2. /\ q = withBlock(query_result_state, pending_commit_event, current)
        /\ wraps = << >>
    BY <2>1 DEF NextState, NextWraps
  <2> HIDE DEF q, wraps
  <2>3. Handled1(q, wraps, events)
    BY <1>1, <2>1, <2>2 DEF BlockCommitted, Handles, Publish, Advance, Handled1, q, wraps
  <2> HIDE DEF events
  <2> QED
    BY <2>3
<1>2. CASE Erc20TokensDeposited
  <2>1. current.event.event = "Erc20TokensDeposited"
    BY <1>2 DEF Erc20TokensDeposited, Handles
  <2>2. /\ q = query_result_state
        /\ wraps = Append(pending_commit_event, Wrap(current.event))
    BY <2>1 DEF NextState, NextWraps
  <2> HIDE DEF q, wraps
  <2>3. events = served
    BY <2>2
  <2> HIDE DEF events
  <2>4. Handled1(q, wraps, events)
    <3>1. events = IF Len(q.events) > Len(served) THEN q.events ELSE served
      BY DEF events
    <3> QED
      BY <1>2, <2>1, <2>2, <2>3, <3>1
         DEF Erc20TokensDeposited, Handles, Advance, Handled1, q, wraps
  <2> QED
    BY <2>4
<1>3. CASE FaucetInitialized
  <2>1. current.event.event = "FaucetInitialized"
    BY <1>3 DEF FaucetInitialized, Handles
  <2>2. q = withFaucet(query_result_state, current) /\ wraps = pending_commit_event
    BY <2>1 DEF NextState, NextWraps
  <2> HIDE DEF q, wraps
  <2>3. Handled1(q, wraps, events)
    BY <1>3, <2>1, <2>2 DEF FaucetInitialized, Handles, Publish, Advance, Handled1, q, wraps
  <2> HIDE DEF events
  <2> QED
    BY <2>3
<1>4. CASE AssetSponsored
  <2>1. current.event.event = "AssetSponsored"
    BY <1>4 DEF AssetSponsored, Handles
  <2>2. q = withAsset(query_result_state, current) /\ wraps = pending_commit_event
    BY <2>1 DEF NextState, NextWraps
  <2> HIDE DEF q, wraps
  <2>3. Handled1(q, wraps, events)
    BY <1>4, <2>1, <2>2 DEF AssetSponsored, Handles, Publish, Advance, Handled1, q, wraps
  <2> HIDE DEF events
  <2> QED
    BY <2>3
<1> QED
  BY <1>1, <1>2, <1>3, <1>4

\* The range is done: its events were handled, and the state is persisted.
LEMMA PlacedFinish ==
    ASSUME NEW L, NEW F \in Nat, IsPart(L, 1, F), FoundInv, Placed(L, F), finishRange
    PROVE  Placed(L, F)'
<1>1. PICK Q, W, k, h, m : /\ k \in Nat /\ h \in Nat /\ m \in Nat
                           /\ Describes(L, F, Q, W, k, h, m) /\ InProgress(L, F, h)
  BY DEF Placed
<1>2. /\ mode = "in_range" /\ new_event = << >> /\ to_block \in Nat
      /\ persisted' \in {persisted, query_result_state}
      /\ next_block_to_query' = to_block + 1 /\ mode' = "polling"
      /\ UNCHANGED <<query_result_state, pending_commit_event, last_event_index, served>>
  BY DEF FoundInv, finishRange, blockAfterRange, store_latest_state
<1>3. PICK a, j : /\ a \in 0 .. Len(L) /\ j \in 0 .. a
                  /\ IsSlice(new_event, L, j, a) /\ to_block <= F /\ j <= h
                  /\ \A p \in 1 .. Len(L) : L[p].index[1] <= to_block => p <= a
  BY <1>1, <1>2 DEF InProgress
<1>4. Len(L) \in Nat /\ IsRange(L) /\ \A p \in 1 .. Len(L) : L[p].index[1] \in 1 .. F
  BY ListFacts DEF IsPart, IsRange
<1>5. j = a
  <2>1. Len(<< >>) = 0
    OBVIOUS
  <2>2. Len(new_event) = 0 /\ Len(new_event) = a - j
    BY <1>2, <1>3, <2>1 DEF IsSlice
  <2> QED
    BY <1>3, <1>4, <2>2
<1>6. /\ k \in 0 .. Len(L) /\ h \in 0 .. k /\ m \in 0 .. h /\ IsReplay(L, Q, W, k)
      /\ query_result_state = Q[h]
  BY <1>1 DEF Describes
<1>7. Served(Q[h]) /\ Reported(L, Q, h)
  BY <1>4, <1>6, ReplayFacts
<1>8. PICK r : /\ r \in 0 .. h /\ Q[r] = Q[h] /\ Q[h].last_reported_index = IndexAt(L, r)
               /\ r = 0 \/ ~IsDeposit(L[r])
  BY <1>7 DEF Reported
<1>9. connected(Q[h]) = Q[h]
  <2>1. \A q : IsState(q) /\ q.contract_address = cape_address => connected(q) = q
    BY ConnectedFields
  <2> QED
    BY <1>7, <2>1 DEF Served
<1>10. PICK n : /\ n \in 0 .. h
                /\ connected(persisted') = Q[n] /\ persisted'.last_reported_index = IndexAt(L, n)
                /\ n = 0 \/ ~IsDeposit(L[n])
  <2>1. CASE persisted' = persisted
    BY <1>1, <1>6, <2>1 DEF Describes
  <2>2. CASE persisted' = query_result_state
    <3>1. persisted' = Q[h]
      BY <1>6, <2>2
    <3> QED
      BY <1>8, <1>9, <3>1
  <2> QED
    BY <1>2, <2>1, <2>2
<1>11. \A p \in 1 .. Len(L) : L[p].index[1] < to_block + 1 => p <= h
  <2> SUFFICES ASSUME NEW p \in 1 .. Len(L), L[p].index[1] < to_block + 1 PROVE p <= h
    OBVIOUS
  <2>1. L[p].index[1] <= to_block
    BY <1>2, <1>4
  <2>2. p <= a
    BY <1>3, <2>1
  <2> QED
    BY <1>3, <1>4, <1>5, <1>6, <2>2
<1>12. Describes(L, F, Q, W, k, h, n)'
  <2>1. next_block_to_query' <= F + 1
    BY <1>2, <1>3
  <2>2. \A p \in 1 .. Len(L) : L[p].index[1] < next_block_to_query' => p <= h
    BY <1>2, <1>11
  <2>3. connected(persisted)' = Q[n] /\ persisted'.last_reported_index = IndexAt(L, n)
    BY <1>10 DEF connected
  <2> QED
    BY <1>1, <1>2, <1>10, <2>1, <2>2, <2>3 DEF Describes
<1>13. InProgress(L, F, h)'
  BY <1>2 DEF InProgress
<1>14. n \in Nat
  BY <1>6, <1>10
<1> QED
  BY <1>1, <1>12, <1>13, <1>14 DEF Placed

\* No wraps are pending where the service's state was last reported.
LEMMA NonePending ==
    ASSUME NEW L, NEW F, IsPart(L, 1, F), Committing(L), NEW Q, NEW W, NEW k \in 0 .. Len(L),
           IsReplay(L, Q, W, k), NEW m \in 0 .. k, m = 0 \/ ~IsDeposit(L[m])
    PROVE  W[m] = << >>
<1>1. CASE m = 0
  BY <1>1 DEF IsReplay
<1>2. CASE m # 0
  <2>0. Len(L) \in Nat /\ IsRange(L)
    BY ListFacts DEF IsPart, IsRange
  <2>1. m \in 1 .. Len(L) /\ IsEvent(L[m].event)
    <3>1. m \in 1 .. Len(L)
      BY <1>2, <2>0
    <3> QED
      BY <2>0, <3>1 DEF IsRange, IsEntry
  <2>2. PendingSince(L, W, m)
    BY <2>0, ReplayFacts
  <2>3. SUFFICES ASSUME W[m] # << >> PROVE FALSE
    OBVIOUS
  <2>4. PICK j : /\ j \in 1 .. m /\ IsDeposit(L[j])
                 /\ \A n \in j .. m : L[n].event.event # "BlockCommitted"
    BY <2>2, <2>3 DEF PendingSince
  <2>5. j # m /\ j < m /\ m \in j .. m /\ j \in 1 .. Len(L)
    BY <1>2, <2>0, <2>1, <2>4
  <2>6. L[m].event.event \in {"AssetSponsored", "FaucetInitialized"}
    <3>1. L[m].event.event # "BlockCommitted" /\ L[m].event.event # "Erc20TokensDeposited"
      BY <1>2, <2>4, <2>5 DEF IsDeposit
    <3> QED
      BY <2>1, <3>1 DEF IsEvent
  <2>7. \E i \in j .. m : L[i].event.event = "BlockCommitted"
    BY <2>1, <2>4, <2>5, <2>6 DEF Committing
  <2> QED
    BY <2>4, <2>7
<1> QED
  BY <1>1, <1>2

\* A restarted service goes on from the state on disk, or from a new one.
LEMMA PlacedRestart ==
    ASSUME NEW L, NEW F \in Nat, IsPart(L, 1, F), FoundInv, ChainInv, Placed(L, F),
           MaxRestarts = 0 \/ Committing(L), Restart
    PROVE  Placed(L, F)'
<1>0. Committing(L)
  <2>1. restarts \in Nat /\ restarts < MaxRestarts
    BY DEF ChainInv, Restart
  <2> QED
    BY <2>1
<1>1. PICK Q, W, k, h, m : /\ k \in Nat /\ h \in Nat /\ m \in Nat
                           /\ Describes(L, F, Q, W, k, h, m)
  BY DEF Placed
<1>2. PICK state : /\ state \in {NewState, persisted}
                   /\ persisted' = state /\ query_result_state' = connected(state)
                   /\ last_event_index' = state.last_reported_index
                   /\ next_block_to_query' = state.last_reported_index[1]
  BY DEF Restart, load_latest_state, firstBlockToQuery
<1>3. pending_commit_event' = << >> /\ mode' = "polling" /\ served' = served
  BY DEF Restart
<1>4. /\ Len(L) \in Nat /\ IsRange(L)
      /\ \A p \in 1 .. Len(L) : L[p].index[1] \in 1 .. F
  BY ListFacts DEF IsPart, IsRange
<1>5. /\ k \in 0 .. Len(L) /\ h \in 0 .. k /\ m \in 0 .. h /\ IsReplay(L, Q, W, k)
      /\ served = Q[k].events
      /\ m = 0 \/ ~IsDeposit(L[m])
  <2>1. m = 0 \/ ~IsDeposit(L[m])
    BY <1>1 DEF Describes
  <2> QED
    BY <1>1, <2>1 DEF Describes
<1>6. PICK n : /\ n \in 0 .. k /\ n \in Nat
               /\ connected(state) = Q[n] /\ state.last_reported_index = IndexAt(L, n)
               /\ n = 0 \/ ~IsDeposit(L[n])
  <2>1. CASE state = NewState
    <3>1. connected(state) = Q[0] /\ state.last_reported_index = IndexAt(L, 0)
      BY <1>5, <2>1, NewStateFound DEF IsReplay, IndexAt
    <3>2. 0 \in 0 .. k
      BY <1>1
    <3> QED
      BY <3>1, <3>2
  <2>2. CASE state = persisted
    <3>1. m \in 0 .. k
      BY <1>1, <1>5
    <3> QED
      BY <1>1, <2>2, <3>1 DEF Describes
  <2> QED
    BY <1>2, <2>1, <2>2
<1>7. W[n] = << >>
  BY <1>0, <1>5, <1>6, NonePending
<1>8. n \in 0 .. Len(L) /\ (n # 0 => n \in 1 .. Len(L))
  BY <1>4, <1>5, <1>6
<1>9. IndexAt(L, n)[1] <= F + 1 /\ \A p \in 1 .. Len(L) : L[p].index[1] < IndexAt(L, n)[1] => p <= n
  <2>1. CASE n = 0
    <3>1. IndexAt(L, n)[1] = 0
      BY <2>1 DEF IndexAt, NoIndex
    <3>2. \A p \in 1 .. Len(L) : ~(L[p].index[1] < 0)
      BY <1>4
    <3> QED
      BY <3>1, <3>2
  <2>2. CASE n # 0
    <3>1. IndexAt(L, n) = L[n].index /\ n \in 1 .. Len(L)
      BY <1>8, <2>2 DEF IndexAt
    <3>2. L[n].index[1] \in 1 .. F
      BY <1>4, <3>1
    <3>3. ASSUME NEW p \in 1 .. Len(L), L[p].index[1] < L[n].index[1], ~(p <= n) PROVE FALSE
      <4>1. L[p].index[1] \in 1 .. F
        BY <1>4
      <4>2. n < p
        BY <1>4, <1>6, <3>3
      <4>3. Before(L[n].index, L[p].index)
        BY <3>1, <4>2 DEF IsPart, Ordered
      <4> QED
        BY <3>2, <3>3, <4>1, <4>3 DEF Before
    <3> QED
      BY <3>1, <3>2, <3>3
  <2> QED
    BY <2>1, <2>2
<1>10. Describes(L, F, Q, W, k, n, n)'
  <2>1. connected(persisted)' = Q[n] /\ persisted'.last_reported_index = IndexAt(L, n)
    BY <1>2, <1>6 DEF connected
  <2>2. n \in 0 .. n
    BY <1>6
  <2>3. /\ query_result_state' = Q[n] /\ pending_commit_event' = W[n]
        /\ last_event_index' = IndexAt(L, n) /\ served' = Q[k].events
    BY <1>2, <1>3, <1>5, <1>6, <1>7
  <2>4. /\ next_block_to_query' <= F + 1
        /\ \A p \in 1 .. Len(L) : L[p].index[1] < next_block_to_query' => p <= n
    BY <1>2, <1>6, <1>9
  <2> QED
    BY <1>5, <1>6, <2>1, <2>2, <2>3, <2>4 DEF Describes
<1>11. InProgress(L, F, n)'
  BY <1>3 DEF InProgress
<1> QED
  BY <1>1, <1>6, <1>10, <1>11 DEF Placed

\* The process stops.
LEMMA PlacedStop ==
    ASSUME NEW L, NEW F, Placed(L, F), panic \/ Crash
    PROVE  Placed(L, F)'
<1>1. PICK Q, W, k, h, m : /\ k \in Nat /\ h \in Nat /\ m \in Nat
                           /\ Describes(L, F, Q, W, k, h, m)
  BY DEF Placed
<1>2. /\ mode' = "stopped"
      /\ UNCHANGED <<query_result_state, pending_commit_event, last_event_index, served,
                     persisted, next_block_to_query>>
  BY DEF panic, Crash, Stop
<1>3. Describes(L, F, Q, W, k, h, m)'
  BY <1>1, <1>2, KeepPlace
<1>4. InProgress(L, F, h)'
  BY <1>2 DEF InProgress
<1> QED
  BY <1>1, <1>3, <1>4 DEF Placed

-----------------------------------------------------------------------------
\* The service starts at the first place of the replay.
LEMMA ServInit == Init => ServInv
<1> SUFFICES ASSUME Init PROVE ServInv
  OBVIOUS
<1>1. FoundInv /\ ChainInv
  BY FoundInit, ChainInit
<1>2. PICK L, F : L = FinalEvents /\ F = FinalBlock
  OBVIOUS
<1> DEFINE Q == [i \in {0} |-> connected(NewState)]
           W == [i \in {0} |-> << >>]
<1>3. Q[0] = connected(NewState) /\ W[0] = << >>
  OBVIOUS
<1> HIDE DEF Q, W
<1>4. /\ query_result_state = connected(NewState) /\ persisted = NewState
      /\ last_event_index = NoIndex /\ next_block_to_query = 0
      /\ pending_commit_event = << >> /\ mode = "polling" /\ served = << >>
  BY DEF Init
<1>5. F \in Nat
  <2>1. Confirmed \in Int
    BY EqsAssumption DEF Init, Confirmed
  <2> QED
    BY <1>2, <2>1 DEF FinalBlock
<1>6. IsPart(L, 1, F)
  <2>1. F \in 0 .. Len(chain) /\ IsChain(chain)
    BY <1>1, <1>2, <1>5, ListFacts DEF ChainInv, IsChain
  <2>2. PICK c : c = chain
    OBVIOUS
  <2>3. IsPart(EventsIn(c, 1, F), 1, F)
    BY <2>1, <2>2, ArePart
  <2> QED
    BY <1>2, <2>2, <2>3 DEF FinalEvents
<1>7. Len(L) \in Nat /\ \A p \in 1 .. Len(L) : L[p].index[1] \in 1 .. F
  BY <1>6, ListFacts DEF IsPart, IsRange
<1>8. connected(NewState).events = << >>
  <2>1. connected(NewState).events = NewState.events
    BY NewStateFields, ConnectedFields
  <2> QED
    BY <2>1 DEF NewState
<1>9. Describes(L, F, Q, W, 0, 0, 0)
  <2>1. IsReplay(L, Q, W, 0)
    BY <1>3 DEF IsReplay
  <2>2. 0 \in 0 .. Len(L) /\ 0 \in 0 .. 0
    BY <1>7
  <2>3. \A p \in 1 .. Len(L) : L[p].index[1] < next_block_to_query => p <= 0
    BY <1>4, <1>7
  <2>4. connected(persisted) = Q[0] /\ persisted.last_reported_index = IndexAt(L, 0)
    BY <1>3, <1>4, NewStateFound DEF IndexAt
  <2> QED
    BY <1>3, <1>4, <1>5, <1>8, <2>1, <2>2, <2>3, <2>4 DEF Describes, IndexAt
<1>10. InProgress(L, F, 0)
  BY <1>4 DEF InProgress
<1>11. Placed(L, F)
  BY <1>9, <1>10 DEF Placed
<1> QED
  BY <1>1, <1>2, <1>11 DEF ServInv

\* The final events are a start of the events of the chain.
LEMMA FinalCommitting == ChainInv /\ NoWaitLost => MaxRestarts = 0 \/ Committing(FinalEvents)
<1> SUFFICES ASSUME ChainInv, NoWaitLost, MaxRestarts # 0 PROVE Committing(FinalEvents)
  OBVIOUS
<1>1. PICK c, F, L, all : /\ c = chain /\ F = FinalBlock /\ L = EventsIn(c, 1, F)
                          /\ all = EventsIn(c, 1, Len(c))
  OBVIOUS
<1>2. Committing(all)
  <2>1. all = IndexedEvents(1, Len(chain))
    BY <1>1, SameEvents
  <2> QED
    BY <2>1 DEF NoWaitLost, Committing
<1>3. IsChain(c) /\ F \in Nat /\ F <= Len(c) /\ Len(c) \in Nat
  <2>1. IsChain(c) /\ F <= Len(c) /\ Len(c) \in Nat /\ highest \in Nat
    BY <1>1, ListFacts DEF ChainInv, IsChain
  <2>2. Confirmed \in Int
    BY <2>1, EqsAssumption DEF Confirmed
  <2> QED
    BY <1>1, <2>1, <2>2 DEF FinalBlock
<1>4. Len(c) \in F .. Len(c)
  BY <1>3
<1>5. Continues(L, all, F)
  BY <1>1, <1>3, <1>4, LaterEvents
<1>6. IsPart(L, 1, F) /\ IsPart(all, 1, Len(c))
  <2>1. F \in 0 .. Len(c) /\ Len(c) \in 0 .. Len(c) /\ 1 \in Int
    BY <1>3
  <2> QED
    BY <1>1, <1>3, <2>1, ArePart
<1>7. /\ Len(L) \in Nat /\ Len(all) \in Nat /\ Len(L) <= Len(all)
      /\ \A p \in 1 .. Len(L) : all[p] = L[p]
  BY <1>5, <1>6, ListFacts DEF Continues, IsPart, IsRange
<1>8. Committing(L)
  <2> SUFFICES ASSUME NEW j \in 1 .. Len(L), NEW k \in 1 .. Len(L), j < k, IsDeposit(L[j]),
                      L[k].event.event \in {"AssetSponsored", "FaucetInitialized"}
               PROVE  \E i \in j .. k : L[i].event.event = "BlockCommitted"
    BY DEF Committing
  <2>1. j \in 1 .. Len(all) /\ k \in 1 .. Len(all) /\ all[j] = L[j] /\ all[k] = L[k]
    BY <1>7
  <2>2. PICK i : i \in j .. k /\ all[i].event.event = "BlockCommitted"
    BY <1>2, <2>1 DEF Committing
  <2>3. i \in 1 .. Len(L)
    BY <1>7, <2>2
  <2> QED
    BY <1>7, <2>2, <2>3
<1> QED
  BY <1>1, <1>8 DEF FinalEvents

\* Every step keeps a place in the replay.
LEMMA ServNext == ServInv /\ NoWaitLost /\ [Next]_vars => ServInv'
<1> SUFFICES ASSUME ServInv, NoWaitLost, [Next]_vars PROVE ServInv'
  OBVIOUS
<1>1. FoundInv /\ ChainInv /\ FoundInv' /\ ChainInv'
  BY FoundNext, ChainStep DEF ServInv
<1>2. PICK L, F, M, G : /\ L = FinalEvents /\ F = FinalBlock
                        /\ M = FinalEvents' /\ G = FinalBlock'
  OBVIOUS
<1>3. F \in Nat /\ G \in Nat /\ F <= G
  BY <1>1, <1>2, ChainStep
<1>4. Continues(L, M, F) /\ IsPart(L, 1, F) /\ IsPart(M, 1, G)
  BY <1>1, <1>2, FinalContinues
<1>5. Placed(L, F)
  BY <1>2 DEF ServInv
<1>6. Placed(M, G)
  BY <1>1, <1>3, <1>4, <1>5, PlacedLater
<1>7. ASSUME UNCHANGED <<chain, highest>>, Placed(L, F)' PROVE ServInv'
  <2>1. FinalBlock' = F /\ FinalEvents' = L
    BY <1>2, <1>7 DEF FinalEvents, FinalBlock, Confirmed
  <2>2. Placed(FinalEvents, FinalBlock)'
    BY <1>7, <2>1 DEF Placed, Describes, InProgress
  <2> QED
    BY <1>1, <2>2 DEF ServInv
<1>8. CASE NewBlock \/ Reorg \/ UNCHANGED vars
  <2>1. UNCHANGED eqsVars
    BY <1>8 DEF NewBlock, Reorg, vars
  <2>2. Placed(M, G)'
    BY <1>6, <2>1 DEF Placed, Describes, InProgress, eqsVars
  <2>3. Placed(FinalEvents, FinalBlock)'
    BY <1>2, <2>2 DEF Placed, Describes, InProgress
  <2> QED
    BY <1>1, <2>3 DEF ServInv
<1>9. CASE check
  <2>1. L = EventsIn(chain, 1, F)
    BY <1>2 DEF FinalEvents
  <2>2. Placed(L, F)'
    BY <1>1, <1>2, <1>3, <1>5, <1>9, <2>1, PlacedCheck
  <2> QED
    BY <1>7, <1>9, <2>2 DEF check, chainVars
<1>10. CASE skipRepeatEvent
  <2>1. Placed(L, F)'
    BY <1>1, <1>4, <1>5, <1>10, PlacedSkip
  <2> QED
    BY <1>7, <1>10, <2>1 DEF skipRepeatEvent, chainVars
<1>11. CASE BlockCommitted \/ Erc20TokensDeposited \/ FaucetInitialized \/ AssetSponsored
  <2>1. PICK q, wraps, events : Handled1(q, wraps, events)
    BY <1>1, <1>4, <1>5, <1>11, ServedMost, HandlersAre
  <2>2. Placed(L, F)'
    BY <1>1, <1>4, <1>5, <2>1, PlacedHandled
  <2>3. UNCHANGED <<chain, highest>>
    BY <1>11 DEF BlockCommitted, Erc20TokensDeposited, FaucetInitialized, AssetSponsored,
                 Advance, chainVars
  <2> QED
    BY <1>7, <2>2, <2>3
<1>12. CASE finishRange
  <2>1. Placed(L, F)'
    BY <1>1, <1>3, <1>4, <1>5, <1>12, PlacedFinish
  <2> QED
    BY <1>7, <1>12, <2>1 DEF finishRange, chainVars
<1>13. CASE panic \/ Crash
  <2>1. Placed(L, F)'
    BY <1>5, <1>13, PlacedStop
  <2> QED
    BY <1>7, <1>13, <2>1 DEF panic, Crash, Stop, chainVars
<1>14. CASE Restart
  <2>1. MaxRestarts = 0 \/ Committing(L)
    BY <1>1, <1>2, FinalCommitting
  <2>2. Placed(L, F)'
    BY <1>1, <1>3, <1>4, <1>5, <1>14, <2>1, PlacedRestart
  <2> QED
    BY <1>7, <1>14, <2>2 DEF Restart, chainVars
<1> QED
  BY <1>8, <1>9, <1>10, <1>11, <1>12, <1>13, <1>14 DEF Next, checkRange

\* The events at an earlier place start the events at a later one.
LEMMA ServedIsPrefix == ServInv => ServedEventsStable
<1> SUFFICES ASSUME ServInv PROVE ServedEventsStable
  OBVIOUS
<1>0. PICK c, L, F : c = chain /\ L = FinalEvents /\ F = FinalBlock
  OBVIOUS
<1>1. IsPart(L, 1, F) /\ Placed(L, F)
  <2>1. IsChain(c) /\ F <= Len(c) /\ Len(c) \in Nat /\ highest \in Nat
    BY <1>0, ListFacts DEF ServInv, ChainInv, IsChain
  <2>2. Confirmed \in Int
    BY <2>1, EqsAssumption DEF Confirmed
  <2>3. F \in 0 .. Len(c)
    BY <1>0, <2>1, <2>2 DEF FinalBlock
  <2>4. IsPart(EventsIn(c, 1, F), 1, F)
    BY <2>1, <2>3, ArePart
  <2> QED
    BY <1>0, <2>4 DEF FinalEvents, ServInv
<1>2. PICK Q, W, k, h, m : /\ k \in Nat /\ h \in Nat /\ m \in Nat
                           /\ Describes(L, F, Q, W, k, h, m)
  BY <1>1 DEF Placed
<1>3. /\ k \in 0 .. Len(L) /\ h \in 0 .. k /\ k \in h .. k /\ IsReplay(L, Q, W, k) /\ IsRange(L)
      /\ query_result_state = Q[h] /\ served = Q[k].events
  BY <1>1, <1>2 DEF Describes, IsPart
<1>4. Starts(Q[h].events, Q[k].events)
  BY <1>3, ReplayGrows
<1>5. Served(Q[h]) /\ Served(Q[k])
  <2>1. \A i \in 0 .. k : Served(Q[i]) /\ Reported(L, Q, i) /\ PendingSince(L, W, i)
    BY <1>3, ReplayFacts
  <2> QED
    BY <1>2, <1>3, <2>1
<1>6. PICK a, b : a = Q[h].events /\ b = Q[k].events
  OBVIOUS
<1>7. IsList(a) /\ IsList(b) /\ Starts(a, b) /\ Len(a) \in Nat /\ Len(b) \in Nat
  BY <1>4, <1>5, <1>6, ListFacts DEF Served
<1>8. Len(a) \in 0 .. Len(a) /\ Len(a) \in 0 .. Len(b) /\ Len(a) <= Len(b)
  BY <1>7 DEF Starts
<1>9. PICK x, y : x = SubSeq(a, 1, Len(a)) /\ y = SubSeq(b, 1, Len(a))
  OBVIOUS
<1>10. /\ IsList(x) /\ Len(x) = Len(a) /\ \A i \in 1 .. Len(a) : x[i] = a[i]
       /\ IsList(y) /\ Len(y) = Len(a) /\ \A i \in 1 .. Len(a) : y[i] = b[i]
  BY <1>7, <1>8, <1>9, PrefixList
<1>11. x = y
  <2>1. \A i \in 1 .. Len(a) : x[i] = y[i]
    BY <1>7, <1>10 DEF Starts
  <2> QED
    BY <1>10, <2>1, SameList
<1>12. IsPrefix(a, b)
  BY <1>8, <1>9, <1>11 DEF IsPrefix
<1> QED
  BY <1>3, <1>6, <1>12 DEF ServedEventsStable

(***************************************************************************)
(* The event that the service serves at a position stays there, whatever   *)
(* blocks are replaced, queried late or reported twice, and whenever the   *)
(* service is killed and restarted, with or without its state              *)
(* (eth_polling.rs check_range, routes.rs get_events_since).  Of the       *)
(* chain it takes that no asset is sponsored, nor the faucet initialised,  *)
(* while a deposit waits: without this a restart loses pending wraps, and  *)
(* only a service that is never restarted keeps its events.                *)
(***************************************************************************)
THEOREM ServedEventsStay == Spec /\ []NoWaitLost => []ServedEventsStable
<1> QED
  BY ServInit, ServNext, ServedIsPrefix, PTL DEF Spec

-----------------------------------------------------------------------------
(* What a log says, event by event.                                        *)

IsLog(l) == IsList(l) /\ \A k \in 1 .. Len(l) : IsEvent(l[k])

\* A function on 1 .. n is a list.
LEMMA FunctionIsList ==
    ASSUME NEW f, NEW n \in Nat, f = [k \in 1 .. n |-> f[k]]
    PROVE  IsList(f) /\ Len(f) = n
<1> DEFINE D == {f[k] : k \in 1 .. n}
<1>1. f \in [1 .. n -> D]
  OBVIOUS
<1> HIDE DEF D
<1>2. f \in Seq(D) /\ Len(f) = n
  BY <1>1
<1> QED
  BY <1>2, SeqIsList

\* Lists one after the other, and one list more.
LEMMA FlattenLists ==
    ASSUME NEW seqs, IsList(seqs), \A k \in 1 .. Len(seqs) : IsList(seqs[k]), NEW s, IsList(s)
    PROVE  IsList(FlattenSeq(seqs)) /\ FlattenSeq(Append(seqs, s)) = FlattenSeq(seqs) \o s
<1> DEFINE n == Len(seqs)
           D == (UNION {ToSet(seqs[k]) : k \in 1 .. n}) \cup ToSet(s)
           S == Seq(D)
<1>1. n \in Nat /\ DOMAIN seqs = 1 .. n /\ seqs \in Seq(ToSet(seqs))
  BY ListFacts
<1>2. \A k \in 1 .. n : seqs[k] \in Seq(D)
  <2> SUFFICES ASSUME NEW k \in 1 .. n PROVE seqs[k] \in Seq(D)
    OBVIOUS
  <2>1. seqs[k] \in Seq(ToSet(seqs[k])) /\ ToSet(seqs[k]) \subseteq D
    BY DEF IsList
  <2> HIDE DEF D
  <2> QED
    BY <2>1
<1>3. s \in Seq(D)
  <2>1. s \in Seq(ToSet(s)) /\ ToSet(s) \subseteq D
    BY DEF IsList
  <2> HIDE DEF D
  <2> QED
    BY <2>1
<1> HIDE DEF D, n
<1>4. \A k \in 1 .. n : seqs[k] \in S
  BY <1>2
<1>5. s \in S
  BY <1>3
<1> HIDE DEF S
<1>6. seqs \in Seq(S)
  BY <1>1, <1>4 DEF n
<1>7. FlattenSeq(seqs) \in Seq(D) /\ FlattenSeq(Append(seqs, s)) = FlattenSeq(seqs) \o s
  BY <1>3, <1>6, FlattenType, FlattenAppend DEF S
<1> QED
  BY <1>7, SeqIsList

\* An event adds a list of leaves.
LEMMA LeavesOfList ==
    ASSUME NEW e, IsEvent(e)
    PROVE  IsList(Log!LeavesOf(e))
<1>1. CASE e.event = "FaucetInitialized"
  <2>1. Log!LeavesOf(e) = <<e.opening>>
    BY <1>1 DEF Log!LeavesOf
  <2>2. <<e.opening>> \in Seq({e.opening})
    OBVIOUS
  <2> QED
    BY <2>1, <2>2, SeqIsList
<1>2. CASE e.event = "BlockCommitted"
  <2>1. IsList(e.notes) /\ IsList(e.deposits) /\ IsList(e.padding)
        /\ \A n \in ToSet(e.notes) : IsNote(n)
    BY <1>2 DEF IsEvent
  <2>2. IsTxns(e.notes)
    BY <2>1, ListFacts DEF IsTxns, IsNote
  <2>3. IsList(Outputs(e.notes))
    BY <2>2, OutputsList
  <2>4. IsList(Outputs(e.notes) \o e.deposits)
    BY <2>1, <2>3, ConcatLists
  <2>5. IsList((Outputs(e.notes) \o e.deposits) \o e.padding)
    BY <2>1, <2>4, ConcatLists
  <2>6. Log!LeavesOf(e) = (Outputs(e.notes) \o e.deposits) \o e.padding
    BY <1>2 DEF Log!LeavesOf, Outputs
  <2> QED
    BY <2>5, <2>6
<1>3. CASE e.event \notin {"FaucetInitialized", "BlockCommitted"}
  <2>1. Log!LeavesOf(e) = << >>
    BY <1>3 DEF Log!LeavesOf
  <2> QED
    BY <2>1, EmptyList
<1> QED
  BY <1>1, <1>2, <1>3

LeafLists(l) == [k \in DOMAIN l |-> Log!LeavesOf(l[k])]

\* The tree of an empty log, and of a log with one more event.
LEMMA LeavesOfMore ==
    /\ Log!Leaves(<< >>) = << >>
    /\ \A l, e : IsLog(l) /\ IsEvent(e) =>
          /\ IsList(Log!Leaves(l))
          /\ Log!Leaves(Append(l, e)) = Log!Leaves(l) \o Log!LeavesOf(e)
<1>1. \A l : Log!Leaves(l) = FlattenSeq(LeafLists(l))
  BY SameFlatten DEF Log!Leaves, LeafLists
<1>2. LeafLists(<< >>) = << >>
  BY DEF LeafLists
<1>3. ASSUME NEW l, NEW e, IsLog(l), IsEvent(e)
      PROVE  /\ IsList(Log!Leaves(l))
             /\ Log!Leaves(Append(l, e)) = Log!Leaves(l) \o Log!LeavesOf(e)
  <2> DEFINE n == Len(l)
             m == Append(l, e)
             a == LeafLists(l)
             b == LeafLists(m)
             s == Log!LeavesOf(e)
  <2>1. IsList(l) /\ n \in Nat /\ DOMAIN l = 1 .. n /\ \A k \in 1 .. n : IsEvent(l[k])
    BY <1>3, ListFacts DEF IsLog
  <2>2a. /\ IsList(m) /\ Len(m) = n + 1 /\ m[n + 1] = e
         /\ \A k \in 1 .. n : m[k] = l[k]
    BY <2>1, AppendList
  <2>2b. DOMAIN m = 1 .. Len(m)
    BY <2>2a, ListFacts
  <2>2. /\ IsList(m) /\ Len(m) = n + 1 /\ m[n + 1] = e
        /\ \A k \in 1 .. n : m[k] = l[k]
        /\ DOMAIN m = 1 .. n + 1
    <3> HIDE DEF m, n
    <3> QED
      BY <2>2a, <2>2b
  <2>3. \A k \in 1 .. n : IsList(Log!LeavesOf(l[k]))
    BY <2>1, LeavesOfList
  <2>4. IsList(s)
    BY <1>3, LeavesOfList
  <2> HIDE DEF n, m, s
  <2>5. a = [k \in 1 .. n |-> a[k]] /\ \A k \in 1 .. n : a[k] = Log!LeavesOf(l[k])
    BY <2>1 DEF LeafLists
  <2>6. b = [k \in 1 .. n + 1 |-> b[k]] /\ \A k \in 1 .. n + 1 : b[k] = Log!LeavesOf(m[k])
    BY <2>2 DEF LeafLists
  <2> HIDE DEF a, b
  <2>7. IsList(a) /\ Len(a) = n /\ n + 1 \in Nat
    BY <2>1, <2>5, FunctionIsList
  <2>8. IsList(b) /\ Len(b) = n + 1
    BY <2>6, <2>7, FunctionIsList
  <2>9. b = Append(a, s)
    <3>0. /\ IsList(Append(a, s)) /\ Len(Append(a, s)) = Len(a) + 1
          /\ Append(a, s)[Len(a) + 1] = s
          /\ \A k \in 1 .. Len(a) : Append(a, s)[k] = a[k]
      BY <2>7, AppendList
    <3>1. /\ IsList(Append(a, s)) /\ Len(Append(a, s)) = n + 1
          /\ Append(a, s)[n + 1] = s
          /\ \A k \in 1 .. n : Append(a, s)[k] = a[k]
      BY <2>7, <3>0
    <3>2. \A k \in 1 .. n + 1 : Append(a, s)[k] = b[k]
      <4> SUFFICES ASSUME NEW k \in 1 .. n + 1 PROVE Append(a, s)[k] = b[k]
        OBVIOUS
      <4>1. CASE k = n + 1
        BY <2>2, <2>6, <3>1, <4>1 DEF s
      <4>2. CASE k # n + 1
        <5>1. k \in 1 .. n
          BY <2>1, <4>2
        <5> QED
          BY <2>2, <2>5, <2>6, <3>1, <5>1
      <4> QED
        BY <4>1, <4>2
    <3> QED
      BY <2>8, <3>1, <3>2, SameList
  <2>10. IsList(FlattenSeq(a)) /\ FlattenSeq(b) = FlattenSeq(a) \o s
    BY <2>3, <2>4, <2>5, <2>7, <2>9, FlattenLists
  <2> QED
    BY <1>1, <2>10 DEF a, b, m, s
<1> QED
  BY <1>1, <1>2, <1>3, FlattenEmpty

\* The blocks of a log with one more event.
LEMMA BlocksOfMore ==
    /\ Log!Blocks(<< >>) = {} /\ Cardinality(Log!Blocks(<< >>)) = 0
    /\ \A l, e : IsLog(l) =>
          /\ Cardinality(Log!Blocks(l)) \in Nat
          /\ Log!Blocks(l) \subseteq 1 .. Len(l)
          /\ Log!Blocks(Append(l, e)) =
                IF Log!IsBlock(e) THEN Log!Blocks(l) \cup {Len(l) + 1} ELSE Log!Blocks(l)
          /\ Cardinality(Log!Blocks(Append(l, e))) =
                Cardinality(Log!Blocks(l)) + IF Log!IsBlock(e) THEN 1 ELSE 0
<1>1. Log!Blocks(<< >>) = {} /\ Cardinality(Log!Blocks(<< >>)) = 0
  BY FS_EmptySet DEF Log!Blocks
<1>2. ASSUME NEW l, IsLog(l)
      PROVE  /\ Log!Blocks(l) \subseteq 1 .. Len(l) /\ IsFiniteSet(Log!Blocks(l))
             /\ Cardinality(Log!Blocks(l)) \in Nat
  <2>1. Log!Blocks(l) \subseteq 1 .. Len(l) /\ Len(l) \in Nat
    BY <1>2, ListFacts DEF Log!Blocks, IsLog
  <2>2. IsFiniteSet(1 .. Len(l))
    BY <2>1, FS_Interval
  <2> QED
    BY <2>1, <2>2, FS_Subset, FS_CardinalityType
<1>3. ASSUME NEW l, IsLog(l), NEW e
      PROVE  Log!Blocks(Append(l, e)) =
                IF Log!IsBlock(e) THEN Log!Blocks(l) \cup {Len(l) + 1} ELSE Log!Blocks(l)
  <2> DEFINE m == Append(l, e)
  <2>1. /\ IsList(l) /\ IsList(m) /\ Len(m) = Len(l) + 1 /\ Len(l) \in Nat
        /\ m[Len(l) + 1] = e /\ \A k \in 1 .. Len(l) : m[k] = l[k]
    BY <1>3, AppendList, ListFacts DEF IsLog
  <2>2. DOMAIN m = 1 .. Len(l) + 1 /\ DOMAIN l = 1 .. Len(l)
    BY <2>1, ListFacts
  <2> HIDE DEF m
  <2>3. Log!Blocks(m) = IF Log!IsBlock(e) THEN Log!Blocks(l) \cup {Len(l) + 1} ELSE Log!Blocks(l)
    BY <2>1, <2>2 DEF Log!Blocks
  <2> QED
    BY <2>3 DEF m
<1>4. ASSUME NEW l, IsLog(l), NEW e
      PROVE  Cardinality(Log!Blocks(Append(l, e))) =
                Cardinality(Log!Blocks(l)) + IF Log!IsBlock(e) THEN 1 ELSE 0
  <2>1. Len(l) + 1 \notin Log!Blocks(l)
    <3>1. Len(l) \in Nat /\ Log!Blocks(l) \subseteq 1 .. Len(l)
      BY <1>2, <1>4, ListFacts DEF IsLog
    <3> QED
      BY <3>1
  <2>2. Cardinality(Log!Blocks(l) \cup {Len(l) + 1}) = Cardinality(Log!Blocks(l)) + 1
    BY <1>2, <1>4, <2>1, FS_AddElement
  <2>3. CASE Log!IsBlock(e)
    BY <1>3, <1>4, <2>2, <2>3
  <2>4. CASE ~Log!IsBlock(e)
    BY <1>2, <1>3, <1>4, <2>4
  <2> QED
    BY <2>3, <2>4
<1> QED
  BY <1>1, <1>2, <1>3, <1>4

\* The leaves that it spends.
LEMMA SpentOfMore ==
    /\ Log!Spent(<< >>) = {}
    /\ \A l, e : IsLog(l) =>
          Log!Spent(Append(l, e)) =
            IF Log!IsBlock(e) THEN Log!Spent(l) \cup ToSet(Log!SpentBy(e.notes)) ELSE Log!Spent(l)
<1>1. Log!Spent(<< >>) = {}
  BY BlocksOfMore DEF Log!Spent
<1>2. ASSUME NEW l, IsLog(l), NEW e
      PROVE  Log!Spent(Append(l, e)) =
               IF Log!IsBlock(e) THEN Log!Spent(l) \cup ToSet(Log!SpentBy(e.notes)) ELSE Log!Spent(l)
  <2> DEFINE m == Append(l, e)
  <2>1. /\ Log!Blocks(l) \subseteq 1 .. Len(l)
        /\ m[Len(l) + 1] = e /\ \A k \in 1 .. Len(l) : m[k] = l[k]
    <3>1. IsList(l)
      BY <1>2 DEF IsLog
    <3>2. Log!Blocks(l) \subseteq 1 .. Len(l)
      BY <1>2, BlocksOfMore
    <3> QED
      BY <3>1, <3>2, AppendList
  <2>2. Log!Blocks(m) = IF Log!IsBlock(e) THEN Log!Blocks(l) \cup {Len(l) + 1} ELSE Log!Blocks(l)
    BY <1>2, BlocksOfMore
  <2>3. \A x : x \in Log!Spent(m) <=>
               \E k \in Log!Blocks(m) : x \in ToSet(Log!SpentBy(m[k].notes))
    BY SameFlatten DEF Log!Spent
  <2>4. \A x : x \in Log!Spent(l) <=>
               \E k \in Log!Blocks(l) : x \in ToSet(Log!SpentBy(l[k].notes))
    BY SameFlatten DEF Log!Spent
  <2> HIDE DEF m
  <2>5. \A x : (\E k \in Log!Blocks(l) : x \in ToSet(Log!SpentBy(m[k].notes)))
                  <=> x \in Log!Spent(l)
    BY <2>1, <2>4
  <2>6. CASE Log!IsBlock(e)
    <3>1. \A x : x \in Log!Spent(m) <=>
                   x \in Log!Spent(l) \/ x \in ToSet(Log!SpentBy(e.notes))
      BY <2>1, <2>2, <2>3, <2>5, <2>6
    <3> QED
      BY <2>6, <3>1 DEF m
  <2>7. CASE ~Log!IsBlock(e)
    <3>1. \A x : x \in Log!Spent(m) <=> x \in Log!Spent(l)
      BY <2>2, <2>3, <2>5, <2>7
    <3> QED
      BY <2>7, <3>1 DEF m
  <2> QED
    BY <2>6, <2>7
<1> QED
  BY <1>1, <1>2

\* The assets it sponsors.
LEMMA SponsoredOfMore ==
    /\ Log!Sponsored(<< >>) = {}
    /\ \A l, e : IsLog(l) =>
          Log!Sponsored(Append(l, e)) =
            IF e.event = "AssetSponsored" THEN Log!Sponsored(l) \cup {<<e.asset, e.erc20>>}
                                          ELSE Log!Sponsored(l)
<1>0. \A l, x : x \in Log!Sponsored(l) <=>
         \E k \in DOMAIN l : l[k].event = "AssetSponsored" /\ x = <<l[k].asset, l[k].erc20>>
  BY Zenon DEF Log!Sponsored
<1>1. Log!Sponsored(<< >>) = {}
  BY <1>0
<1>2. ASSUME NEW l, IsLog(l), NEW e
      PROVE  Log!Sponsored(Append(l, e)) =
               IF e.event = "AssetSponsored" THEN Log!Sponsored(l) \cup {<<e.asset, e.erc20>>}
                                             ELSE Log!Sponsored(l)
  <2> DEFINE m == Append(l, e)
  <2>1. /\ IsList(l) /\ IsList(m) /\ Len(m) = Len(l) + 1 /\ Len(l) \in Nat
        /\ m[Len(l) + 1] = e /\ \A k \in 1 .. Len(l) : m[k] = l[k]
    BY <1>2, AppendList, ListFacts DEF IsLog
  <2>2. DOMAIN m = 1 .. Len(l) + 1 /\ DOMAIN l = 1 .. Len(l)
    BY <2>1, ListFacts
  <2> HIDE DEF m
  <2>3. \A x : x \in Log!Sponsored(m) <=>
                 \/ x \in Log!Sponsored(l)
                 \/ e.event = "AssetSponsored" /\ x = <<e.asset, e.erc20>>
    BY <1>0, <2>1, <2>2
  <2> QED
    BY <2>3 DEF m
<1> QED
  BY <1>1, <1>2


-----------------------------------------------------------------------------
(* The queue of deposits, event by event.                                  *)

\* What the recursive function of Announced is.
Queues(l, f) ==
    f = [k \in 0 .. Len(l) |-> IF k = 0 THEN << >> ELSE Log!NextQueue(f[k - 1], l[k])]

Openings(l) == {l[k].opening : k \in 1 .. Len(l)}

\* There is such a function.
LEMMA QueuesExist ==
    ASSUME NEW l, IsLog(l)
    PROVE  \E f : Queues(l, f)
<1> DEFINE n == Len(l)
           S == Openings(l)
           D == Seq(S)
           step == [p \in Nat \X D |-> IF p[1] \in 1 .. n THEN Log!NextQueue(p[2], l[p[1]]) ELSE p[2]]
<1>0. n \in Nat /\ << >> \in D /\ \A k \in 1 .. n : l[k].opening \in S
  BY ListFacts DEF IsLog, Openings
<1> HIDE DEF S, n
<1>0a. \A x \in D, k \in 1 .. n : Log!NextQueue(x, l[k]) \in D
  BY <1>0 DEF Log!NextQueue, Log!IsBlock
<1> HIDE DEF D
<1>1. step \in [Nat \X D -> D]
  BY <1>0, <1>0a
<1>2. \A k \in 1 .. n, x \in D : step[<<k, x>>] = Log!NextQueue(x, l[k])
  BY <1>0
<1> HIDE DEF step
<1>3. PICK g \in [Nat -> D] : Recurs(g, << >>, step)
  BY <1>0, <1>1, NatRecursion
<1>4. g[0] = << >> /\ \A k \in Nat \ {0} : g[k] = step[<<k, g[k - 1]>>]
  BY <1>3 DEF Recurs
<1> DEFINE f == [k \in 0 .. n |-> g[k]]
           h == [k \in 0 .. n |-> IF k = 0 THEN << >> ELSE Log!NextQueue(f[k - 1], l[k])]
<1>5. \A k \in 0 .. n : f[k] = h[k]
  <2> TAKE k \in 0 .. n
  <2>1. CASE k = 0
    BY <1>4, <2>1
  <2>2. CASE k # 0
    <3>1. k \in 1 .. n /\ k \in Nat \ {0} /\ k - 1 \in 0 .. n /\ k - 1 \in Nat /\ k > 0
      BY <1>0, <2>2
    <3>2. g[k] = step[<<k, g[k - 1]>>] /\ g[k - 1] \in D
      BY <1>4, <3>1
    <3>3. f[k] = Log!NextQueue(f[k - 1], l[k])
      BY <1>2, <3>1, <3>2
    <3>4. h[k] = Log!NextQueue(f[k - 1], l[k])
      BY <3>1
    <3> QED
      BY <3>3, <3>4
  <2> QED
    BY <2>1, <2>2
<1>6. f = h
  <2>1. f = [k \in 0 .. n |-> f[k]] /\ h = [k \in 0 .. n |-> h[k]]
    OBVIOUS
  <2> HIDE DEF f, h
  <2> QED
    BY <1>5, <2>1
<1>7. Queues(l, f)
  <2> HIDE DEF f
  <2> QED
    BY <1>6 DEF Queues, n
<1> QED
  BY <1>7

\* The queue after each event of a log.
LEMMA AnnouncedChoice ==
    ASSUME NEW l, IsLog(l)
    PROVE  \E f : /\ f[0] = << >>
                  /\ \A k \in 1 .. Len(l) : f[k] = Log!NextQueue(f[k - 1], l[k])
                  /\ Log!Announced(l) = f[Len(l)]
<1> DEFINE f == CHOOSE f : Queues(l, f)
           n == Len(l)
<1>0. n \in Nat
  BY ListFacts DEF IsLog
<1>1. Queues(l, f)
  BY QueuesExist
<1>2. Log!Announced(l) = f[n]
  BY DEF Log!Announced, Queues
<1> HIDE DEF f
<1>3. f[0] = << >> /\ \A k \in 1 .. n : f[k] = Log!NextQueue(f[k - 1], l[k])
  BY <1>0, <1>1 DEF Queues
<1> QED
  BY <1>2, <1>3

\* One event more.
LEMMA MoreEvents ==
    ASSUME NEW l, IsLog(l), NEW e, IsEvent(e)
    PROVE  /\ IsLog(Append(l, e)) /\ Len(l) \in Nat /\ Len(Append(l, e)) = Len(l) + 1
           /\ Append(l, e)[Len(l) + 1] = e
           /\ \A k \in 1 .. Len(l) : Append(l, e)[k] = l[k]
<1> DEFINE n == Len(l)
           m == Append(l, e)
<1>1. IsList(l) /\ n \in Nat /\ \A k \in 1 .. n : IsEvent(l[k])
  BY ListFacts DEF IsLog
<1>2. /\ IsList(m) /\ Len(m) = n + 1 /\ m[n + 1] = e
      /\ \A k \in 1 .. n : m[k] = l[k]
  BY <1>1, AppendList
<1> HIDE DEF m, n
<1>3. \A k \in 1 .. n + 1 : IsEvent(m[k])
  BY <1>1, <1>2
<1>4. IsLog(m)
  BY <1>2, <1>3 DEF IsLog
<1> QED
  BY <1>1, <1>2, <1>4 DEF m, n

\* The queue of an empty log, and of a log with one more event.
LEMMA AnnouncedOfMore ==
    /\ Log!Announced(<< >>) = << >>
    /\ \A l, e : IsLog(l) /\ IsEvent(e) =>
          Log!Announced(Append(l, e)) = Log!NextQueue(Log!Announced(l), e)
<1>1. Log!Announced(<< >>) = << >>
  <2> DEFINE none == << >>
  <2>1. IsLog(none) /\ Len(none) = 0
    BY EmptyList DEF IsLog
  <2> HIDE DEF none
  <2>2. Log!Announced(none) = << >>
    BY <2>1, AnnouncedChoice
  <2> QED
    BY <2>2 DEF none
<1>2. ASSUME NEW l, NEW e, IsLog(l), IsEvent(e)
      PROVE  Log!Announced(Append(l, e)) = Log!NextQueue(Log!Announced(l), e)
  <2> DEFINE n == Len(l)
             more == Append(l, e)
  <2>0. /\ n \in Nat /\ IsLog(more) /\ Len(more) = n + 1
        /\ more[n + 1] = e /\ \A k \in 1 .. n : more[k] = l[k]
    BY <1>2, MoreEvents
  <2> HIDE DEF more
  <2>1. PICK f : /\ f[0] = << >>
                 /\ \A k \in 1 .. n : f[k] = Log!NextQueue(f[k - 1], l[k])
                 /\ Log!Announced(l) = f[n]
    BY <1>2, AnnouncedChoice
  <2>2. PICK g : /\ g[0] = << >>
                 /\ \A k \in 1 .. n + 1 : g[k] = Log!NextQueue(g[k - 1], more[k])
                 /\ Log!Announced(more) = g[n + 1]
    BY <2>0, AnnouncedChoice
  <2> HIDE DEF n
  <2> DEFINE S == {k \in Nat : k <= n => f[k] = g[k]}
  <2>3. 0 \in S
    BY <2>1, <2>2
  <2>4. \A k \in S : k + 1 \in S
    <3> SUFFICES ASSUME NEW k \in Nat, k <= n => f[k] = g[k], k + 1 <= n
                 PROVE  f[k + 1] = g[k + 1]
      OBVIOUS
    <3>1. k + 1 \in 1 .. n /\ k + 1 \in 1 .. n + 1 /\ (k + 1) - 1 = k /\ k <= n
      BY <2>0
    <3>2. f[k + 1] = Log!NextQueue(f[k], l[k + 1]) /\ g[k + 1] = Log!NextQueue(g[k], more[k + 1])
      BY <2>1, <2>2, <3>1
    <3> QED
      BY <2>0, <3>1, <3>2
  <2> HIDE DEF S
  <2>5. S = Nat
    BY <2>3, <2>4, NatSetInduction DEF S
  <2>6. f[n] = g[n] /\ n + 1 \in 1 .. n + 1 /\ (n + 1) - 1 = n
    BY <2>0, <2>5 DEF S
  <2>7. g[n + 1] = Log!NextQueue(f[n], e)
    BY <2>0, <2>2, <2>6
  <2> QED
    BY <2>1, <2>2, <2>7 DEF more
<1> QED
  BY <1>1, <1>2

-----------------------------------------------------------------------------
(* What the states of a replay are, in terms of the log.                   *)

\* The outputs of transactions, and of others after them.
LEMMA OutputsConcat ==
    ASSUME NEW txs, IsTxns(txs), NEW wraps, IsTxns(wraps)
    PROVE  Outputs(txs \o wraps) = Outputs(txs) \o Outputs(wraps)
<1> DEFINE P(w) == Outputs(txs \o w) = Outputs(txs) \o Outputs(w)
           S == {n \in Nat : \A w : IsTxns(w) /\ Len(w) = n => P(w)}
<1>0. IsList(txs) /\ IsList(Outputs(txs))
  BY OutputsList DEF IsTxns
<1>1. 0 \in S
  <2> SUFFICES ASSUME NEW w, IsTxns(w), Len(w) = 0 PROVE P(w)
    OBVIOUS
  <2>1. IsList(w) /\ IsList(<< >>) /\ Len(<< >>) = 0
    BY EmptyList DEF IsTxns
  <2>2. w = << >>
    BY <2>1, SameList
  <2>3. txs \o << >> = txs
    BY <1>0, ConcatEmpty
  <2>4. Outputs(txs) \o << >> = Outputs(txs)
    BY <1>0, ConcatEmpty
  <2> QED
    BY <2>2, <2>3, <2>4, OutputsEmpty
<1>2. \A n \in S : n + 1 \in S
  <2> HIDE DEF P
  <2> SUFFICES ASSUME NEW n \in Nat, \A w : IsTxns(w) /\ Len(w) = n => P(w),
                      NEW w, IsTxns(w), Len(w) = n + 1
               PROVE  P(w)
    OBVIOUS
  <2> DEFINE v == SubSeq(w, 1, n)
             t == w[n + 1]
  <2>1. IsList(w) /\ IsList(t.outputs) /\ n \in 0 .. Len(w)
    BY DEF IsTxns
  <2>2. IsList(v) /\ Len(v) = n /\ w = Append(v, t)
    BY <2>1, SplitLast
  <2>3. IsTxns(v)
    BY <2>1, PrefixTxns
  <2> HIDE DEF v, t
  <2>4. Outputs(txs \o v) = Outputs(txs) \o Outputs(v)
    BY <2>2, <2>3 DEF P
  <2>5. IsTxns(txs \o v) /\ IsList(txs \o v)
    BY <2>3, ConcatTxns DEF IsTxns
  <2>6. Outputs(Append(txs \o v, t)) = Outputs(txs \o v) \o t.outputs
    BY <2>1, <2>5, OutputsAppend
  <2>7. Outputs(w) = Outputs(v) \o t.outputs /\ IsList(Outputs(v))
    BY <2>1, <2>2, <2>3, OutputsAppend
  <2>8. txs \o w = Append(txs \o v, t)
    <3> DEFINE one == <<t>>
    <3>1. w = v \o one
      BY <2>2, AppendList
    <3>2. Append(txs \o v, t) = (txs \o v) \o one
      BY <2>5, AppendList
    <3>3. IsList(one)
      <4>1. one \in Seq({t})
        OBVIOUS
      <4> QED
        BY <4>1, SeqIsList
    <3> HIDE DEF one
    <3>4. Joined(Joined(txs, v), one) = Joined(txs, Joined(v, one))
      BY <1>0, <2>2, <3>3, ConcatAssoc
    <3> QED
      BY <3>1, <3>2, <3>4 DEF Joined
  <2>9. Joined(Joined(Outputs(txs), Outputs(v)), t.outputs)
          = Joined(Outputs(txs), Joined(Outputs(v), t.outputs))
    BY <1>0, <2>1, <2>7, ConcatAssoc
  <2> QED
    BY <2>4, <2>6, <2>7, <2>8, <2>9 DEF Joined, P
<1> HIDE DEF P, S
<1>3. S = Nat
  BY <1>1, <1>2, NatSetInduction DEF S
<1>4. Len(wraps) \in S
  BY <1>3, ListFacts DEF IsTxns
<1> QED
  BY <1>4 DEF S, P

\* These wraps are those of the waiting deposits.
Waiting(wraps, queue) ==
    /\ IsTxns(wraps) /\ IsList(queue)
    /\ Len(wraps) = Len(queue)
    /\ \A k \in 1 .. Len(wraps) : wraps[k].outputs = <<queue[k]>>
    /\ Outputs(wraps) = queue

\* None wait, and one more.
LEMMA MoreWaiting ==
    /\ Waiting(<< >>, << >>)
    /\ \A wraps, queue, e : Waiting(wraps, queue) =>
          Waiting(Append(wraps, Wrap(e)), Append(queue, e.opening))
<1>1. Waiting(<< >>, << >>)
  BY EmptyList, OutputsEmpty DEF Waiting
<1>2. ASSUME NEW wraps, NEW queue, NEW e, Waiting(wraps, queue)
      PROVE  Waiting(Append(wraps, Wrap(e)), Append(queue, e.opening))
  <2> DEFINE n == Len(wraps)
             t == Wrap(e)
             w == Append(wraps, t)
             d == e.opening
             q == Append(queue, d)
  <2>1. /\ IsTxns(wraps) /\ IsList(wraps) /\ IsList(queue) /\ Len(queue) = n /\ n \in Nat
        /\ \A k \in 1 .. n : wraps[k].outputs = <<queue[k]>>
        /\ Outputs(wraps) = queue
    BY <1>2, ListFacts DEF Waiting, IsTxns
  <2>2. t.outputs = <<d>>
    BY DEF Wrap
  <2>3. IsList(t.outputs)
    <3>1. <<d>> \in Seq({d})
      OBVIOUS
    <3> QED
      BY <2>2, <3>1, SeqIsList
  <2> HIDE DEF t, d
  <2>4. IsTxns(w) /\ Outputs(w) = queue \o <<d>>
    BY <2>1, <2>2, <2>3, OutputsAppend
  <2>5. Len(w) = n + 1 /\ w[n + 1] = t /\ \A k \in 1 .. n : w[k] = wraps[k]
    BY <2>1, AppendList
  <2>5a. /\ IsList(q) /\ Len(q) = Len(queue) + 1 /\ q[Len(queue) + 1] = d
         /\ q = queue \o <<d>> /\ \A k \in 1 .. Len(queue) : q[k] = queue[k]
    BY <2>1, AppendList
  <2> HIDE DEF w, q, n
  <2>6. /\ IsList(q) /\ Len(q) = n + 1 /\ q[n + 1] = d /\ q = queue \o <<d>>
        /\ \A k \in 1 .. n : q[k] = queue[k]
    BY <2>1, <2>5a
  <2>7. \A k \in 1 .. n + 1 : w[k].outputs = <<q[k]>>
    <3> SUFFICES ASSUME NEW k \in 1 .. n + 1 PROVE w[k].outputs = <<q[k]>>
      OBVIOUS
    <3>1. CASE k = n + 1
      BY <2>2, <2>5, <2>6, <3>1
    <3>2. CASE k # n + 1
      <4>1. k \in 1 .. n
        BY <2>1, <3>2
      <4> QED
        BY <2>1, <2>5, <2>6, <4>1
    <3> QED
      BY <3>1, <3>2
  <2>8. Waiting(w, q)
    BY <2>4, <2>5, <2>6, <2>7 DEF Waiting
  <2> QED
    BY <2>8 DEF w, q, t, d
<1> QED
  BY <1>1, <1>2

\* The state says what the log says.
Mirrors(q, l) ==
    /\ q.leaves = Log!Leaves(l)
    /\ q.state_number = Cardinality(Log!Blocks(l))
    /\ q.nullifiers = Log!Spent(l)
    /\ q.address_from_asset = Log!Sponsored(l)

\* The deposits of a block are those that wait, as the contract has it.
ListsWaiting(l, e) == e.event = "BlockCommitted" => e.deposits = Log!Announced(l)

\* A block as the relayer submits it, or with different types of notes, and
\* without padding.
Plain(e) ==
    e.event = "BlockCommitted" => e.padding = << >> /\ IsInjective(TypesOf(e.notes))

\* The pending wraps after one more event.
LEMMA NextWaiting ==
    ASSUME NEW l, IsLog(l), NEW x, IsEvent(x.event), NEW wraps,
           Waiting(wraps, Log!Announced(l))
    PROVE  Waiting(NextWraps(wraps, x), Log!Announced(Append(l, x.event)))
<1> DEFINE e == x.event
           queue == Log!Announced(l)
           more == Log!Announced(Append(l, e))
<1>1. more = Log!NextQueue(queue, e)
  BY AnnouncedOfMore
<1> HIDE DEF queue, more
<1>2. CASE e.event = "BlockCommitted"
  <2>1. more = << >> /\ NextWraps(wraps, x) = << >>
    BY <1>1, <1>2 DEF Log!NextQueue, Log!IsBlock, NextWraps
  <2> QED
    BY <2>1, MoreWaiting DEF more
<1>3. CASE e.event = "Erc20TokensDeposited"
  <2>1. more = Append(queue, e.opening) /\ NextWraps(wraps, x) = Append(wraps, Wrap(e))
    BY <1>1, <1>3 DEF Log!NextQueue, Log!IsBlock, NextWraps
  <2>2. Waiting(Append(wraps, Wrap(e)), Append(queue, e.opening))
    BY MoreWaiting DEF queue
  <2> QED
    BY <2>1, <2>2 DEF more
<1>4. CASE e.event \notin {"BlockCommitted", "Erc20TokensDeposited"}
  <2>1. more = queue /\ NextWraps(wraps, x) = wraps
    BY <1>1, <1>4 DEF Log!NextQueue, Log!IsBlock, NextWraps
  <2> QED
    BY <2>1 DEF more, queue
<1> QED
  BY <1>2, <1>3, <1>4

\* The notes of a plain block are decoded in their order.
LEMMA PlainDecoded ==
    ASSUME NEW e, IsEvent(e), e.event = "BlockCommitted", Plain(e)
    PROVE  ModelTxns(e) = e.notes /\ IsTxns(e.notes)
<1>1. IsList(e.notes) /\ (\A n \in ToSet(e.notes) : IsNote(n)) /\ IsInjective(TypesOf(e.notes))
  BY DEF IsEvent, Plain
<1>2. /\ e.notes \in Seq(ToSet(e.notes))
      /\ \A i \in 1 .. Len(e.notes) : e.notes[i] \in ToSet(e.notes)
  BY <1>1, ListFacts
<1>3. \A i \in 1 .. Len(e.notes) : e.notes[i].type \in Types /\ IsList(e.notes[i].outputs)
  BY <1>1, <1>2 DEF IsNote
<1>4. into_cape_transactions(from_cape_transactions(e.notes)) = e.notes
  BY <1>1, <1>2, <1>3, DecodedSame
<1> QED
  BY <1>1, <1>3, <1>4 DEF ModelTxns, IsTxns

\* The state after one more event.
LEMMA NextMirrors ==
    ASSUME NEW l, IsLog(l), NEW x, IsEvent(x.event), NEW wraps, NEW q, IsState(q),
           Waiting(wraps, Log!Announced(l)), Mirrors(q, l),
           ListsWaiting(l, x.event), Plain(x.event)
    PROVE  Mirrors(NextState(q, wraps, x), Append(l, x.event))
<1> DEFINE e == x.event
           m == Append(l, e)
           s == NextState(q, wraps, x)
<1>1. /\ IsList(Log!Leaves(l)) /\ Log!Leaves(m) = Log!Leaves(l) \o Log!LeavesOf(e)
  BY LeavesOfMore
<1>2. Cardinality(Log!Blocks(m)) = Cardinality(Log!Blocks(l)) + IF Log!IsBlock(e) THEN 1 ELSE 0
  BY BlocksOfMore
<1>2a. Cardinality(Log!Blocks(l)) \in Nat
  BY BlocksOfMore
<1>3. Log!Spent(m) = IF Log!IsBlock(e) THEN Log!Spent(l) \cup ToSet(Log!SpentBy(e.notes))
                     ELSE Log!Spent(l)
  BY SpentOfMore
<1>4. Log!Sponsored(m) = IF e.event = "AssetSponsored"
                         THEN Log!Sponsored(l) \cup {<<e.asset, e.erc20>>} ELSE Log!Sponsored(l)
  BY SponsoredOfMore
<1>5. /\ q.leaves = Log!Leaves(l) /\ q.state_number = Cardinality(Log!Blocks(l))
      /\ q.nullifiers = Log!Spent(l) /\ q.address_from_asset = Log!Sponsored(l)
  BY DEF Mirrors
<1>6. Log!Leaves(l) \o << >> = Log!Leaves(l)
  BY <1>1, ConcatEmpty
<1> HIDE DEF m
<1>7. CASE e.event = "BlockCommitted"
  <2>1. ModelTxns(e) = e.notes /\ IsTxns(e.notes)
    BY <1>7, PlainDecoded
  <2>2. e.padding = << >> /\ e.deposits = Log!Announced(l)
    BY <1>7 DEF Plain, ListsWaiting
  <2>3. IsTxns(wraps) /\ Outputs(wraps) = e.deposits /\ IsList(e.deposits)
    BY <2>2 DEF Waiting
  <2>4. Outputs(Committed(wraps, x)) = Outputs(e.notes) \o e.deposits
    BY <2>1, <2>3, OutputsConcat DEF Committed, pending_commit
  <2>5. IsList(Outputs(e.notes))
    BY <2>1, OutputsList
  <2>6. IsList(Outputs(e.notes) \o e.deposits)
    BY <2>3, <2>5, ConcatLists
  <2>7. (Outputs(e.notes) \o e.deposits) \o << >> = Outputs(e.notes) \o e.deposits
    BY <2>6, ConcatEmpty
  <2>8. Log!LeavesOf(e) = (Outputs(e.notes) \o e.deposits) \o e.padding
    BY <1>7 DEF Log!LeavesOf, Outputs
  <2>9. s = withBlock(q, wraps, x)
    BY <1>7 DEF NextState
  <2>10. /\ s.leaves = q.leaves \o Outputs(Committed(wraps, x))
         /\ s.nullifiers = q.nullifiers \cup ToSet(Log!SpentBy(ModelTxns(e)))
         /\ s.state_number = q.state_number + 1
         /\ s.address_from_asset = q.address_from_asset
    BY <2>9, WithBlock
  <2> HIDE DEF s
  <2>11. Log!IsBlock(e) /\ e.event # "AssetSponsored"
    BY <1>7 DEF Log!IsBlock
  <2>12. s.leaves = Log!Leaves(m)
    BY <1>1, <1>5, <2>2, <2>4, <2>7, <2>8, <2>10
  <2>13. s.nullifiers = Log!Spent(m)
    BY <1>3, <1>5, <2>1, <2>10, <2>11
  <2>14. s.state_number = Cardinality(Log!Blocks(m))
    BY <1>2, <1>5, <2>10, <2>11
  <2>15. s.address_from_asset = Log!Sponsored(m)
    BY <1>4, <1>5, <2>10, <2>11
  <2> QED
    BY <2>12, <2>13, <2>14, <2>15 DEF Mirrors, s, m
<1>8. CASE e.event = "FaucetInitialized"
  <2>1. s = withFaucet(q, x)
    BY <1>8 DEF NextState
  <2>1a. /\ withFaucet(q, x).leaves = Append(q.leaves, e.opening)
         /\ withFaucet(q, x).nullifiers = q.nullifiers /\ withFaucet(q, x).state_number = q.state_number
         /\ withFaucet(q, x).address_from_asset = q.address_from_asset
    BY WithFaucet
  <2> HIDE DEF s
  <2>2. /\ s.leaves = Append(q.leaves, e.opening)
        /\ s.nullifiers = q.nullifiers /\ s.state_number = q.state_number
        /\ s.address_from_asset = q.address_from_asset
    BY <2>1, <2>1a
  <2>3. ~Log!IsBlock(e) /\ e.event # "AssetSponsored"
    BY <1>8 DEF Log!IsBlock
  <2>4. Log!LeavesOf(e) = <<e.opening>>
    BY <1>8 DEF Log!LeavesOf
  <2>5. Append(Log!Leaves(l), e.opening) = Log!Leaves(l) \o <<e.opening>>
    BY <1>1, AppendList
  <2>6. s.leaves = Log!Leaves(m)
    BY <1>1, <1>5, <2>2, <2>4, <2>5
  <2>7. s.state_number = Cardinality(Log!Blocks(m))
    BY <1>2, <1>2a, <1>5, <2>2, <2>3
  <2>8. s.nullifiers = Log!Spent(m) /\ s.address_from_asset = Log!Sponsored(m)
    BY <1>3, <1>4, <1>5, <2>2, <2>3
  <2> QED
    BY <2>6, <2>7, <2>8 DEF Mirrors, s, m
<1>9. CASE e.event = "AssetSponsored"
  <2>1. s = withAsset(q, x)
    BY <1>9 DEF NextState
  <2>1a. /\ withAsset(q, x).leaves = q.leaves
         /\ withAsset(q, x).nullifiers = q.nullifiers /\ withAsset(q, x).state_number = q.state_number
         /\ withAsset(q, x).address_from_asset = q.address_from_asset \cup {<<e.asset, e.erc20>>}
    BY WithAsset
  <2> HIDE DEF s
  <2>2. /\ s.leaves = q.leaves
        /\ s.nullifiers = q.nullifiers /\ s.state_number = q.state_number
        /\ s.address_from_asset = q.address_from_asset \cup {<<e.asset, e.erc20>>}
    BY <2>1, <2>1a
  <2>3. ~Log!IsBlock(e) /\ Log!LeavesOf(e) = << >>
    BY <1>9 DEF Log!IsBlock, Log!LeavesOf
  <2>4. s.leaves = Log!Leaves(m)
    BY <1>1, <1>5, <1>6, <2>2, <2>3
  <2>5. s.state_number = Cardinality(Log!Blocks(m))
    BY <1>2, <1>2a, <1>5, <2>2, <2>3
  <2>6. s.nullifiers = Log!Spent(m) /\ s.address_from_asset = Log!Sponsored(m)
    BY <1>3, <1>4, <1>5, <1>9, <2>2, <2>3
  <2> QED
    BY <2>4, <2>5, <2>6 DEF Mirrors, s, m
<1>10. CASE e.event = "Erc20TokensDeposited"
  <2>1. s = q
    BY <1>10 DEF NextState
  <2>2. ~Log!IsBlock(e) /\ Log!LeavesOf(e) = << >> /\ e.event # "AssetSponsored"
    BY <1>10 DEF Log!IsBlock, Log!LeavesOf
  <2>3. q.leaves = Log!Leaves(m)
    BY <1>1, <1>5, <1>6, <2>2
  <2>4. q.state_number = Cardinality(Log!Blocks(m))
    BY <1>2, <1>2a, <1>5, <2>2
  <2>5. q.nullifiers = Log!Spent(m) /\ q.address_from_asset = Log!Sponsored(m)
    BY <1>3, <1>4, <1>5, <2>2
  <2> QED
    BY <2>1, <2>3, <2>4, <2>5 DEF Mirrors, m
<1> QED
  BY <1>7, <1>8, <1>9, <1>10 DEF IsEvent

\* The first n events of a range, without their indexes.
EventLog(L, n) == [k \in 1 .. n |-> L[k].event]

\* They are a log, and grow by one event.
LEMMA EventLogs ==
    ASSUME NEW L, IsRange(L), NEW n \in Nat, n <= Len(L)
    PROVE  /\ IsLog(EventLog(L, n)) /\ Len(EventLog(L, n)) = n
           /\ \A k \in 1 .. n : EventLog(L, n)[k] = L[k].event
<1> DEFINE l == EventLog(L, n)
<1>1. Len(L) \in Nat /\ \A k \in 1 .. Len(L) : IsEvent(L[k].event)
  BY ListFacts DEF IsRange, IsEntry
<1>2. l = [k \in 1 .. n |-> l[k]] /\ \A k \in 1 .. n : l[k] = L[k].event
  BY DEF EventLog
<1> HIDE DEF l
<1>3. IsList(l) /\ Len(l) = n
  BY <1>2, FunctionIsList
<1>4. \A k \in 1 .. n : IsEvent(l[k])
  BY <1>1, <1>2
<1>5. IsLog(l)
  BY <1>3, <1>4 DEF IsLog
<1> QED
  BY <1>2, <1>3, <1>5 DEF l

LEMMA EventLogMore ==
    ASSUME NEW L, IsRange(L), NEW n \in Nat, n + 1 <= Len(L)
    PROVE  EventLog(L, n + 1) = Append(EventLog(L, n), L[n + 1].event)
<1> DEFINE a == EventLog(L, n)
           b == EventLog(L, n + 1)
           e == L[n + 1].event
           m == Append(a, e)
<1>0. Len(L) \in Nat /\ n + 1 \in Nat /\ n <= Len(L)
  BY ListFacts DEF IsRange
<1>1. IsLog(a) /\ Len(a) = n /\ \A k \in 1 .. n : a[k] = L[k].event
  BY <1>0, EventLogs
<1>2. IsLog(b) /\ Len(b) = n + 1 /\ \A k \in 1 .. n + 1 : b[k] = L[k].event
  BY <1>0, EventLogs
<1>3. IsList(a) /\ IsList(b)
  BY <1>1, <1>2 DEF IsLog
<1> HIDE DEF a, b, e
<1>3a. /\ IsList(m) /\ Len(m) = Len(a) + 1 /\ m[Len(a) + 1] = e
       /\ \A k \in 1 .. Len(a) : m[k] = a[k]
  BY <1>3, AppendList
<1> HIDE DEF m
<1>4. /\ IsList(m) /\ Len(m) = n + 1 /\ m[n + 1] = e
      /\ \A k \in 1 .. n : m[k] = a[k]
  BY <1>1, <1>3a
<1>5. \A k \in 1 .. n + 1 : b[k] = m[k]
  <2> SUFFICES ASSUME NEW k \in 1 .. n + 1 PROVE b[k] = m[k]
    OBVIOUS
  <2>1. CASE k = n + 1
    BY <1>2, <1>4, <2>1 DEF e
  <2>2. CASE k # n + 1
    <3>1. k \in 1 .. n
      BY <2>2
    <3> QED
      BY <1>1, <1>2, <1>4, <3>1
  <2> QED
    BY <2>1, <2>2
<1>6. b = m
  BY <1>2, <1>3, <1>4, <1>5, SameList
<1> QED
  BY <1>6 DEF a, b, e, m

LEMMA NoEventLog == \A L : EventLog(L, 0) = << >>
  BY DEF EventLog

LEMMA SameEventLog ==
    ASSUME NEW L, NEW M, NEW n \in Nat, \A k \in 1 .. n : M[k] = L[k]
    PROVE  EventLog(M, n) = EventLog(L, n)
  BY DEF EventLog

\* Along a replay the pending wraps are those of the waiting deposits.
LEMMA ReplayWaiting ==
    ASSUME NEW L, IsRange(L), NEW Q, NEW W, NEW k \in 0 .. Len(L), IsReplay(L, Q, W, k),
           NEW i \in 0 .. k
    PROVE  Waiting(W[i], Log!Announced(EventLog(L, i)))
<1> DEFINE S == {n \in Nat : n <= k => Waiting(W[n], Log!Announced(EventLog(L, n)))}
<1>0. Len(L) \in Nat
  BY ListFacts DEF IsRange
<1>1. 0 \in S
  <2>1. W[0] = << >>
    BY DEF IsReplay
  <2>2. Log!Announced(EventLog(L, 0)) = << >>
    BY NoEventLog, AnnouncedOfMore
  <2> QED
    BY <2>1, <2>2, MoreWaiting
<1>2. ASSUME NEW n \in S PROVE n + 1 \in S
  <2> SUFFICES ASSUME n + 1 <= k
               PROVE  Waiting(W[n + 1], Log!Announced(EventLog(L, n + 1)))
    OBVIOUS
  <2>0. n \in Nat /\ n \in 0 .. k - 1 /\ n + 1 <= Len(L) /\ n <= Len(L)
    BY <1>0
  <2>1. W[n + 1] = NextWraps(W[n], L[n + 1])
    BY <2>0 DEF IsReplay
  <2>2. Waiting(W[n], Log!Announced(EventLog(L, n)))
    BY <2>0
  <2> HIDE DEF S
  <2>3. IsLog(EventLog(L, n)) /\ IsEvent(L[n + 1].event)
    <3>1. n + 1 \in 1 .. Len(L)
      BY <1>0, <2>0
    <3> QED
      BY <2>0, <3>1, EventLogs DEF IsRange, IsEntry
  <2>4. EventLog(L, n + 1) = Append(EventLog(L, n), L[n + 1].event)
    BY <2>0, EventLogMore
  <2> QED
    BY <2>1, <2>2, <2>3, <2>4, NextWaiting
<1> HIDE DEF S
<1>3. S = Nat
  BY <1>1, <1>2, NatSetInduction DEF S
<1>4. i \in S /\ i <= k
  BY <1>0, <1>3
<1> QED
  BY <1>4 DEF S

\* The blocks of a list of events list the deposits that wait.
Listing(L) == \A p \in 1 .. Len(L) : ListsWaiting(EventLog(L, p - 1), L[p].event)

PlainList(L) == \A p \in 1 .. Len(L) : Plain(L[p].event)

\* Along a replay the states say what the log says.
LEMMA ReplayMirrors ==
    ASSUME NEW L, IsRange(L), Listing(L), PlainList(L), NEW Q, NEW W, NEW k \in 0 .. Len(L),
           IsReplay(L, Q, W, k), NEW i \in 0 .. k
    PROVE  Mirrors(Q[i], EventLog(L, i))
<1> DEFINE S == {n \in Nat : n <= k => Mirrors(Q[n], EventLog(L, n))}
<1>0. Len(L) \in Nat
  BY ListFacts DEF IsRange
<1>1. 0 \in S
  <2>1. Q[0] = connected(NewState)
    BY DEF IsReplay
  <2>2. /\ connected(NewState).leaves = NewState.leaves
        /\ connected(NewState).nullifiers = NewState.nullifiers
        /\ connected(NewState).state_number = NewState.state_number
        /\ connected(NewState).address_from_asset = NewState.address_from_asset
    BY NewStateFields, ConnectedFields
  <2>3. /\ NewState.leaves = << >> /\ NewState.nullifiers = {} /\ NewState.state_number = 0
        /\ NewState.address_from_asset = {}
    BY DEF NewState
  <2>4. EventLog(L, 0) = << >>
    BY NoEventLog
  <2>5. /\ Log!Leaves(<< >>) = << >> /\ Cardinality(Log!Blocks(<< >>)) = 0
        /\ Log!Spent(<< >>) = {} /\ Log!Sponsored(<< >>) = {}
    BY LeavesOfMore, BlocksOfMore, SpentOfMore, SponsoredOfMore
  <2>6. Mirrors(Q[0], EventLog(L, 0))
    BY <2>1, <2>2, <2>3, <2>4, <2>5 DEF Mirrors
  <2> QED
    BY <2>6
<1>2. ASSUME NEW n \in S PROVE n + 1 \in S
  <2> SUFFICES ASSUME n + 1 <= k
               PROVE  Mirrors(Q[n + 1], EventLog(L, n + 1))
    OBVIOUS
  <2>0. n \in Nat /\ n \in 0 .. k - 1 /\ n \in 0 .. k /\ n + 1 <= Len(L) /\ n <= Len(L)
    BY <1>0
  <2>1. Q[n + 1] = NextState(Q[n], W[n], L[n + 1])
    BY <2>0 DEF IsReplay
  <2>2. Mirrors(Q[n], EventLog(L, n))
    BY <2>0
  <2> HIDE DEF S
  <2>3. n + 1 \in 1 .. Len(L) /\ (n + 1) - 1 = n
    BY <1>0, <2>0
  <2>4. IsLog(EventLog(L, n)) /\ IsEvent(L[n + 1].event)
    BY <2>0, <2>3, EventLogs DEF IsRange, IsEntry
  <2>5. EventLog(L, n + 1) = Append(EventLog(L, n), L[n + 1].event)
    BY <2>0, EventLogMore
  <2>6. Waiting(W[n], Log!Announced(EventLog(L, n)))
    BY <2>0, ReplayWaiting
  <2>7. IsState(Q[n])
    <3>1. Served(Q[n])
      BY <2>0, ReplayFacts
    <3> QED
      BY <3>1 DEF Served
  <2>8. ListsWaiting(EventLog(L, n), L[n + 1].event) /\ Plain(L[n + 1].event)
    BY <2>3 DEF Listing, PlainList
  <2> QED
    BY <2>1, <2>2, <2>4, <2>5, <2>6, <2>7, <2>8, NextMirrors
<1> HIDE DEF S
<1>3. S = Nat
  BY <1>1, <1>2, NatSetInduction DEF S
<1>4. i \in S /\ i <= k
  BY <1>0, <1>3
<1> QED
  BY <1>4 DEF S

-----------------------------------------------------------------------------
(* The log of the chain.                                                   *)

AllEvents(c) == EventsIn(c, 1, Len(c))

\* The log of the blocks of a chain is their events without the indexes.
LEMMA LogOfBlocks ==
    ASSUME NEW c, IsChain(c), NEW n \in 0 .. Len(c)
    PROVE  LogOf(SubSeq(c, 1, n)) = EventLog(EventsIn(c, 1, n), Len(EventsIn(c, 1, n)))
<1> DEFINE All(i) == EventLog(EventsIn(c, 1, i), Len(EventsIn(c, 1, i)))
           S == {i \in Nat : i <= Len(c) => LogOf(SubSeq(c, 1, i)) = All(i)}
<1>0. Len(c) \in Nat /\ IsList(c) /\ \A b \in 1 .. Len(c) : IsList(c[b])
  BY ListFacts DEF IsChain
<1>1. 0 \in S
  <2>1. 0 \in 0 .. Len(c)
    BY <1>0
  <2>2. IsList(SubSeq(c, 1, 0)) /\ Len(SubSeq(c, 1, 0)) = 0
    BY <1>0, <2>1, PrefixList
  <2>3. SubSeq(c, 1, 0) = << >>
    <3>1. IsList(<< >>) /\ Len(<< >>) = 0
      BY EmptyList
    <3> QED
      BY <2>2, <3>1, SameList
  <2>4. EventsIn(c, 1, 0) = << >> /\ Len(<< >>) = 0
    BY NoEvents
  <2>5. All(0) = << >>
    BY <2>4, NoEventLog
  <2> HIDE DEF All
  <2> QED
    BY <2>3, <2>5, FlattenEmpty DEF LogOf
<1>2. ASSUME NEW i \in S PROVE i + 1 \in S
  <2> SUFFICES ASSUME i + 1 <= Len(c) PROVE LogOf(SubSeq(c, 1, i + 1)) = All(i + 1)
    OBVIOUS
  <2> DEFINE a == EventsIn(c, 1, i)
             b == EventsOf(c, i + 1)
             d == EventsIn(c, 1, i + 1)
             s == SubSeq(c, 1, i)
             t == SubSeq(c, 1, i + 1)
             u == c[i + 1]
  <2>0. /\ i \in Nat /\ i <= Len(c) /\ i \in 0 .. Len(c) /\ i + 1 \in 0 .. Len(c)
        /\ i + 1 \in 1 .. Len(c)
    BY <1>0
  <2>1. FlattenSeq(s) = All(i)
    BY <2>0 DEF LogOf
  <2> HIDE DEF S
  <2>2. /\ IsList(s) /\ Len(s) = i /\ \A k \in 1 .. i : s[k] = c[k]
    BY <1>0, <2>0, PrefixList
  <2>3. /\ IsList(t) /\ Len(t) = i + 1 /\ \A k \in 1 .. i + 1 : t[k] = c[k]
    BY <1>0, <2>0, PrefixList
  <2>4. d = a \o b
    <3>1. d = a \o (IF i + 1 < 1 THEN << >> ELSE b)
      BY <2>0, NextEvents
    <3>2. ~(i + 1 < 1)
      BY <2>0
    <3> QED
      BY <3>1, <3>2
  <2>5. IsList(b) /\ Len(b) = Len(u) /\ \A k \in 1 .. Len(u) : b[k].event = u[k]
    BY <2>0, BlockEntries
  <2>6. IsRange(a) /\ IsRange(d)
    <3>1. 1 \in Int
      OBVIOUS
    <3> QED
      BY <2>0, <3>1, ArePart DEF IsPart
  <2>7. IsList(u) /\ \A k \in 1 .. i : IsList(s[k])
    BY <1>0, <2>0, <2>2
  <2> HIDE DEF a, b, d, s, t, u
  <2>8. t = Append(s, u)
    <3> DEFINE m == Append(s, u)
    <3>a. IsList(s)
      BY <2>2
    <3>0. /\ IsList(m) /\ Len(m) = Len(s) + 1 /\ m[Len(s) + 1] = u
          /\ \A k \in 1 .. Len(s) : m[k] = s[k]
      BY <3>a, AppendList
    <3> HIDE DEF m
    <3>1. IsList(m) /\ Len(m) = i + 1 /\ m[i + 1] = u /\ \A k \in 1 .. i : m[k] = s[k]
      BY <2>2, <3>0
    <3>2. \A k \in 1 .. i + 1 : t[k] = m[k]
      <4> SUFFICES ASSUME NEW k \in 1 .. i + 1 PROVE t[k] = m[k]
        OBVIOUS
      <4>1. CASE k = i + 1
        BY <2>3, <3>1, <4>1 DEF u
      <4>2. CASE k # i + 1
        <5>1. k \in 1 .. i
          BY <2>0, <4>2
        <5> QED
          BY <2>2, <2>3, <3>1, <5>1
      <4> QED
        BY <4>1, <4>2
    <3>3. t = m
      BY <2>3, <3>1, <3>2, SameList
    <3> QED
      BY <3>3 DEF m
  <2>9. FlattenSeq(t) = FlattenSeq(s) \o u
    BY <2>2, <2>7, <2>8, FlattenLists
  <2> DEFINE p == EventLog(a, Len(a))
             q == EventLog(d, Len(d))
             r == p \o u
  <2>10. /\ Len(a) \in Nat /\ Len(b) \in Nat /\ Len(d) = Len(a) + Len(b)
         /\ \A k \in 1 .. Len(a) : d[k] = a[k]
         /\ \A k \in 1 .. Len(b) : d[Len(a) + k] = b[k]
         /\ IsList(a)
    <3>1. IsList(a)
      BY <2>6 DEF IsRange
    <3>2. Len(a) \in Nat /\ Len(b) \in Nat
      BY <2>5, <3>1, ListFacts
    <3> QED
      <4>1. /\ Len(a \o b) = Len(a) + Len(b)
            /\ \A k \in 1 .. Len(a) : (a \o b)[k] = a[k]
            /\ \A k \in 1 .. Len(b) : (a \o b)[Len(a) + k] = b[k]
        BY <2>5, <3>1, ConcatLists
      <4> QED
        BY <2>4, <3>1, <3>2, <4>1
  <2>11. IsList(p) /\ Len(p) = Len(a) /\ \A k \in 1 .. Len(a) : p[k] = a[k].event
    BY <2>6, <2>10, EventLogs DEF IsLog
  <2>12. IsList(q) /\ Len(q) = Len(d) /\ \A k \in 1 .. Len(d) : q[k] = d[k].event
    BY <2>6, <2>10, EventLogs DEF IsLog
  <2> HIDE DEF p, q
  <2>13. /\ IsList(r) /\ Len(r) = Len(a) + Len(b)
         /\ \A k \in 1 .. Len(a) : r[k] = p[k]
         /\ \A k \in 1 .. Len(b) : r[Len(a) + k] = u[k]
    <3>1. /\ IsList(p \o u) /\ Len(p \o u) = Len(p) + Len(u)
          /\ \A k \in 1 .. Len(p) : (p \o u)[k] = p[k]
          /\ \A k \in 1 .. Len(u) : (p \o u)[Len(p) + k] = u[k]
      BY <2>7, <2>11, ConcatLists
    <3> QED
      BY <2>5, <2>11, <3>1
  <2> HIDE DEF r
  <2>14. \A k \in 1 .. Len(d) : q[k] = r[k]
    <3> SUFFICES ASSUME NEW k \in 1 .. Len(d) PROVE q[k] = r[k]
      OBVIOUS
    <3>1. CASE k <= Len(a)
      <4>1. k \in 1 .. Len(a)
        BY <2>10, <3>1
      <4>2. q[k] = d[k].event
        BY <2>12
      <4>3. d[k] = a[k]
        BY <2>10, <4>1
      <4>4. p[k] = a[k].event
        BY <2>11, <4>1
      <4>5. r[k] = p[k]
        BY <2>13, <4>1
      <4> QED
        BY <4>2, <4>3, <4>4, <4>5
    <3>2. CASE ~(k <= Len(a))
      <4> DEFINE j == k - Len(a)
      <4>1. j \in 1 .. Len(b) /\ k = Len(a) + j
        BY <2>10, <3>2
      <4> HIDE DEF j
      <4>2. q[k] = b[j].event
        BY <2>10, <2>12, <4>1
      <4>3. r[k] = u[j] /\ b[j].event = u[j]
        BY <2>5, <2>13, <4>1
      <4> QED
        BY <4>2, <4>3
    <3> QED
      BY <3>1, <3>2
  <2>15. q = r
    BY <2>10, <2>12, <2>13, <2>14, SameList
  <2> QED
    BY <2>1, <2>9, <2>15 DEF LogOf, a, d, p, q, r, t
<1> HIDE DEF S, All
<1>3. S = Nat
  BY <1>1, <1>2, NatSetInduction DEF S
<1>4. n \in S /\ n <= Len(c)
  BY <1>0, <1>3
<1> QED
  BY <1>4 DEF S, All

LEMMA LogOfChain ==
    ASSUME NEW c, IsChain(c)
    PROVE  /\ LogOf(c) = EventLog(AllEvents(c), Len(AllEvents(c)))
           /\ IsRange(AllEvents(c))
<1>1. IsList(c) /\ Len(c) \in Nat /\ Len(c) \in 0 .. Len(c) /\ 1 \in Int
  BY ListFacts DEF IsChain
<1>2. SubSeq(c, 1, Len(c)) = c
  <2> DEFINE s == SubSeq(c, 1, Len(c))
  <2>1. IsList(s) /\ Len(s) = Len(c) /\ \A i \in 1 .. Len(c) : s[i] = c[i]
    BY <1>1, PrefixList
  <2> HIDE DEF s
  <2>2. s = c
    BY <1>1, <2>1, SameList
  <2> QED
    BY <2>2 DEF s
<1>3. LogOf(SubSeq(c, 1, Len(c))) = EventLog(EventsIn(c, 1, Len(c)), Len(EventsIn(c, 1, Len(c))))
  BY <1>1, LogOfBlocks
<1>4. IsRange(EventsIn(c, 1, Len(c)))
  BY <1>1, ArePart DEF IsPart
<1> QED
  BY <1>2, <1>3, <1>4 DEF AllEvents

\* A well-formed log lists the waiting deposits with each block.
LEMMA WellFormedLists ==
    ASSUME NEW M, IsRange(M), Log!WellFormed(EventLog(M, Len(M)))
    PROVE  Listing(M)
<1> SUFFICES ASSUME NEW p \in 1 .. Len(M), M[p].event.event = "BlockCommitted"
             PROVE  M[p].event.deposits = Log!Announced(EventLog(M, p - 1))
  BY DEF Listing, ListsWaiting
<1> DEFINE l == EventLog(M, Len(M))
           e == M[p].event
           s == SubSeq(l, 1, p - 1)
<1>0. Len(M) \in Nat /\ p - 1 \in Nat /\ p - 1 <= Len(M) /\ p - 1 \in 0 .. Len(M)
  BY ListFacts DEF IsRange
<1>1. IsLog(l) /\ Len(l) = Len(M) /\ \A k \in 1 .. Len(M) : l[k] = M[k].event
  BY <1>0, EventLogs
<1>1a. Log!WellFormed(l)
  OBVIOUS
<1> HIDE DEF l
<1>2. IsList(l) /\ DOMAIN l = 1 .. Len(M)
  BY <1>1, ListFacts DEF IsLog
<1>3. Log!Follows(s, e)
  BY <1>1, <1>1a, <1>2 DEF Log!WellFormed
<1>4. s = EventLog(M, p - 1)
  <2>1. IsList(s) /\ Len(s) = p - 1 /\ \A k \in 1 .. p - 1 : s[k] = l[k]
    BY <1>0, <1>1, <1>2, PrefixList
  <2>2. /\ IsList(EventLog(M, p - 1)) /\ Len(EventLog(M, p - 1)) = p - 1
        /\ \A k \in 1 .. p - 1 : EventLog(M, p - 1)[k] = M[k].event
    BY <1>0, EventLogs DEF IsLog
  <2> HIDE DEF s
  <2>3. \A k \in 1 .. p - 1 : s[k] = EventLog(M, p - 1)[k]
    BY <1>0, <1>1, <2>1, <2>2
  <2> QED
    BY <2>1, <2>2, <2>3, SameList
<1> HIDE DEF s, e
<1>5. e.event = "BlockCommitted"
  BY DEF e
<1>6. Log!BlockFollows(s, e)
  BY <1>3, <1>5 DEF Log!Follows, Log!IsBlock
<1>7. e.deposits = Log!Announced(s)
  BY <1>6 DEF Log!BlockFollows
<1> QED
  BY <1>4, <1>7 DEF e

\* So do the first blocks.
LEMMA ListingBegins ==
    ASSUME NEW L, NEW M, Len(L) \in Nat, Len(M) \in Nat, Len(L) <= Len(M),
           \A p \in 1 .. Len(L) : M[p] = L[p], Listing(M)
    PROVE  Listing(L)
<1> SUFFICES ASSUME NEW p \in 1 .. Len(L)
             PROVE  ListsWaiting(EventLog(L, p - 1), L[p].event)
  BY DEF Listing
<1>1. /\ p \in 1 .. Len(M) /\ p - 1 \in Nat /\ M[p] = L[p]
      /\ \A k \in 1 .. p - 1 : M[k] = L[k]
  OBVIOUS
<1>2. EventLog(M, p - 1) = EventLog(L, p - 1)
  BY <1>1, SameEventLog
<1> QED
  BY <1>1, <1>2 DEF Listing

ReplicaInv == ServInv /\ Listing(AllEvents(chain))

\* No block yet.
LEMMA ReplicaInit == Init => ReplicaInv
<1> SUFFICES ASSUME Init PROVE Listing(AllEvents(chain))
  BY ServInit DEF ReplicaInv
<1>1. PICK c : c = chain
  OBVIOUS
<1>2. c = << >> /\ Len(c) = 0
  BY <1>1 DEF Init
<1>3. AllEvents(c) = << >>
  BY <1>2, NoEvents DEF AllEvents
<1>4. Len(<< >>) = 0
  OBVIOUS
<1>5. Listing(AllEvents(c))
  BY <1>3, <1>4 DEF Listing
<1> QED
  BY <1>1, <1>5

\* Only the contract's events enter the chain.
LEMMA ReplicaNext == ReplicaInv /\ NoWaitLost /\ [Next]_vars => ReplicaInv'
<1> SUFFICES ASSUME ReplicaInv, NoWaitLost, [Next]_vars PROVE ReplicaInv'
  OBVIOUS
<1>1. ServInv /\ ServInv' /\ Listing(AllEvents(chain))
  BY ServNext DEF ReplicaInv
<1>2. PICK c, d : c = chain /\ d = chain'
  OBVIOUS
<1>3. IsChain(c) /\ IsChain(d) /\ Listing(AllEvents(c))
  <2>1. IsChain(chain')
    BY <1>1 DEF ServInv, ChainInv, IsChain
  <2> QED
    BY <1>1, <1>2, <2>1 DEF ServInv, ChainInv
<1>4. Listing(AllEvents(d))
  <2>1. CASE NewBlock
    <3>1. PICK es : /\ IsList(es) /\ Log!WellFormed(LogOf(c) \o es) /\ d = Append(c, es)
      BY <1>2, <2>1 DEF NewBlock
    <3>2. LogOf(d) = LogOf(c) \o es
      <4>1. IsList(c) /\ \A b \in 1 .. Len(c) : IsList(c[b])
        BY <1>3 DEF IsChain
      <4> QED
        BY <3>1, <4>1, FlattenLists DEF LogOf
    <3>3. LogOf(d) = EventLog(AllEvents(d), Len(AllEvents(d))) /\ IsRange(AllEvents(d))
      BY <1>3, LogOfChain
    <3>4. Log!WellFormed(EventLog(AllEvents(d), Len(AllEvents(d))))
      BY <3>1, <3>2, <3>3
    <3> QED
      BY <3>3, <3>4, WellFormedLists
  <2>2. CASE Reorg
    <3>1. PICK n \in 0 .. Len(c) : Len(d) = n /\ \A b \in 1 .. n : d[b] = c[b]
      BY <1>2, <1>3, <2>2, ChainShrinks
    <3>2. n \in Nat /\ Len(c) \in n .. Len(c) /\ Len(c) \in 0 .. Len(c) /\ 1 \in Int
      BY <1>3, ListFacts DEF IsChain
    <3>3. EventsIn(c, 1, n) = EventsIn(d, 1, n)
      BY <3>1, <3>2, SameBlocks
    <3>4. Continues(EventsIn(c, 1, n), EventsIn(c, 1, Len(c)), n)
      BY <1>3, <3>2, LaterEvents
    <3>5. AllEvents(d) = EventsIn(c, 1, n) /\ AllEvents(c) = EventsIn(c, 1, Len(c))
      BY <3>1, <3>3 DEF AllEvents
    <3>6. Len(AllEvents(c)) \in Nat /\ Len(AllEvents(d)) \in Nat
      BY <1>3, LogOfChain, ListFacts DEF IsRange
    <3>7. /\ Len(AllEvents(d)) <= Len(AllEvents(c))
          /\ \A p \in 1 .. Len(AllEvents(d)) : AllEvents(c)[p] = AllEvents(d)[p]
      BY <3>4, <3>5 DEF Continues
    <3> QED
      BY <1>3, <3>6, <3>7, ListingBegins
  <2>3. CASE UNCHANGED chain
    BY <1>2, <1>3, <2>3
  <2> QED
    BY <2>1, <2>2, <2>3 DEF Next, checkRange, check, skipRepeatEvent, BlockCommitted,
       Erc20TokensDeposited, FaucetInitialized, AssetSponsored, finishRange, panic, Crash,
       Restart, Stop, Advance, chainVars, vars
<1> QED
  BY <1>1, <1>2, <1>4 DEF ReplicaInv

(***************************************************************************)
(* A place in the replay of the final events, with the facts that the      *)
(* properties need.                                                        *)
(***************************************************************************)
PlacedAt(c, all, L, F, Q, W, k, h) ==
    /\ c = chain /\ F = FinalBlock /\ L = EventsIn(c, 1, F) /\ all = EventsIn(c, 1, Len(c))
    /\ F \in Nat /\ Len(c) \in Nat
    /\ IsPart(L, 1, F) /\ IsPart(all, 1, Len(c)) /\ Continues(L, all, F)
    /\ Listing(L)
    /\ k \in 0 .. Len(L) /\ h \in 0 .. k /\ h \in 0 .. Len(L) /\ Len(L) \in Nat
    /\ IsReplay(L, Q, W, k)
    /\ query_result_state = Q[h] /\ pending_commit_event = W[h]
    /\ last_event_index = IndexAt(L, h)
    /\ InProgress(L, F, h)

LEMMA ReplicaPlaced ==
    ASSUME ReplicaInv
    PROVE  \E c, all, L, F, Q, W, k, h : PlacedAt(c, all, L, F, Q, W, k, h)
<1>1. PICK c, F, L, all : /\ c = chain /\ F = FinalBlock /\ L = EventsIn(c, 1, F)
                          /\ all = EventsIn(c, 1, Len(c))
  OBVIOUS
<1>2. /\ IsChain(c) /\ F \in Nat /\ F <= Len(c) /\ Len(c) \in Nat /\ Placed(L, F)
      /\ Listing(all)
  <2>1. IsChain(c) /\ F <= Len(c) /\ Len(c) \in Nat /\ highest \in Nat
    BY <1>1, ListFacts DEF ReplicaInv, ServInv, ChainInv, IsChain
  <2>2. Confirmed \in Int
    BY <2>1, EqsAssumption DEF Confirmed
  <2>3. F \in Nat
    BY <1>1, <2>2 DEF FinalBlock
  <2> QED
    BY <1>1, <2>1, <2>3 DEF ReplicaInv, ServInv, FinalEvents, AllEvents
<1>3. Len(c) \in F .. Len(c) /\ F \in 0 .. Len(c) /\ Len(c) \in 0 .. Len(c) /\ 1 \in Int
  BY <1>2
<1>4. Continues(L, all, F)
  BY <1>1, <1>2, <1>3, LaterEvents
<1>5. IsPart(L, 1, F) /\ IsPart(all, 1, Len(c))
  BY <1>1, <1>2, <1>3, ArePart
<1>6. Len(L) \in Nat /\ Len(all) \in Nat
  BY <1>5, ListFacts DEF IsPart, IsRange
<1>7. Listing(L)
  BY <1>2, <1>4, <1>6, ListingBegins DEF Continues
<1>8. PICK Q, W, k, h, m : /\ k \in Nat /\ h \in Nat /\ m \in Nat
                           /\ Describes(L, F, Q, W, k, h, m) /\ InProgress(L, F, h)
  BY <1>2 DEF Placed
<1>9. /\ k \in 0 .. Len(L) /\ h \in 0 .. k /\ IsReplay(L, Q, W, k)
      /\ query_result_state = Q[h] /\ pending_commit_event = W[h]
      /\ last_event_index = IndexAt(L, h)
  BY <1>8 DEF Describes
<1>10. h \in 0 .. Len(L)
  BY <1>6, <1>9
<1>11. PlacedAt(c, all, L, F, Q, W, k, h)
  BY <1>1, <1>2, <1>4, <1>5, <1>6, <1>7, <1>8, <1>9, <1>10 DEF PlacedAt
<1> QED
  BY <1>11

\* The block that is handled next lists what waits at this place.
LEMMA ReplicaPending == ReplicaInv => AllPendingWraps
<1> SUFFICES ASSUME ReplicaInv, Handles("BlockCommitted")
             PROVE  Outputs(pending_commit_event) = current.event.deposits
  BY DEF AllPendingWraps
<1>1. PICK c, all, L, F, Q, W, k, h : PlacedAt(c, all, L, F, Q, W, k, h)
  BY ReplicaPlaced
<1>2. PICK a, j : /\ a \in 0 .. Len(L) /\ j \in 0 .. a
                  /\ IsSlice(new_event, L, j, a) /\ j <= h
  BY <1>1 DEF PlacedAt, InProgress, Handles
<1>3. PICK s : s = new_event
  OBVIOUS
<1>4. IsRange(s) /\ s # << >> /\ IsSlice(s, L, j, a)
  BY <1>2, <1>3 DEF ReplicaInv, ServInv, FoundInv, Handles
<1>5. IsPart(L, 1, F) /\ h \in 0 .. Len(L) /\ Len(L) \in Nat /\ h \in Nat /\ IsRange(L)
  BY <1>1 DEF PlacedAt, IsPart
<1>6. /\ j + 1 \in 1 .. Len(L) /\ j \in Nat /\ Head(s) = L[j + 1]
      /\ NotAfter(Head(s).index, IndexAt(L, h)) <=> j + 1 <= h
  BY <1>4, <1>5, NextOfSlice
<1>7. current = L[j + 1] /\ ~(j + 1 <= h)
  BY <1>1, <1>3, <1>6 DEF PlacedAt, Handles, alreadySeen, current
<1>8. j = h /\ (h + 1) - 1 = h
  BY <1>2, <1>5, <1>6, <1>7
<1>9. current.event.event = "BlockCommitted"
  BY DEF Handles
<1>10. current.event.deposits = Log!Announced(EventLog(L, h))
  BY <1>1, <1>6, <1>7, <1>8, <1>9 DEF PlacedAt, Listing, ListsWaiting
<1>11. Waiting(W[h], Log!Announced(EventLog(L, h)))
  BY <1>1, <1>5, ReplayWaiting DEF PlacedAt
<1> QED
  BY <1>1, <1>10, <1>11 DEF Waiting, PlacedAt

(***************************************************************************)
(* What eth_polling.rs:238 says, "Get all the wrap transitions which are   *)
(* pending since the last commit": the wraps that the service adds to a    *)
(* block are the deposits that the contract inserted with it, if no asset  *)
(* is sponsored and the faucet not initialised while a deposit waits, or   *)
(* the service is never restarted.  Otherwise it is false: eqs_lost_wrap.  *)
(***************************************************************************)
THEOREM PendingWrapsAreAll == Spec /\ []NoWaitLost => []AllPendingWraps
<1> QED
  BY ReplicaInit, ReplicaNext, ReplicaPending, PTL DEF Spec

\* The events up to the last one handled are the first h ones.
LEMMA HandledAre ==
    ASSUME NEW c, NEW all, NEW L, NEW F, NEW Q, NEW W, NEW k, NEW h,
           PlacedAt(c, all, L, F, Q, W, k, h)
    PROVE  Handled = EventLog(L, h)
<1> DEFINE index == last_event_index
           seen == {p \in DOMAIN all : NotAfter(all[p].index, index)}
           known == SubSeq(all, 1, h)
<1>1. /\ IsPart(all, 1, Len(c)) /\ Continues(L, all, F) /\ h \in 0 .. Len(L)
      /\ Len(L) \in Nat /\ index = IndexAt(L, h) /\ all = IndexedEvents(1, Len(chain))
  BY SameEvents DEF PlacedAt
<1>2. IsRange(all) /\ IsList(all) /\ DOMAIN all = 1 .. Len(all) /\ Len(all) \in Nat
  BY <1>1, ListFacts DEF IsPart, IsRange
<1>3. Len(L) <= Len(all) /\ \A p \in 1 .. Len(L) : all[p] = L[p]
  BY <1>1 DEF Continues
<1>4. h \in Nat /\ h \in 0 .. Len(all) /\ h <= Len(all) /\ \A p \in 1 .. h : all[p] = L[p]
  BY <1>1, <1>2, <1>3
<1>5. index = IndexAt(all, h)
  <2>1. h = 0 \/ h \in 1 .. Len(L)
    BY <1>1
  <2> QED
    BY <1>1, <1>3, <2>1 DEF IndexAt
<1>6. \A p \in 1 .. Len(all) : NotAfter(all[p].index, index) <=> p <= h
  BY <1>1, <1>2, <1>4, <1>5, SeenAre
<1> HIDE DEF index
<1>7. seen = 1 .. h
  BY <1>2, <1>4, <1>6
<1>8. Cardinality(seen) = h
  <2>1. Cardinality(1 .. h) = h
    BY <1>4, FS_Interval
  <2> QED
    BY <1>7, <2>1
<1>9. EventsUpTo(index) = known
  BY <1>1, <1>8 DEF EventsUpTo
<1>10. IsList(known) /\ Len(known) = h /\ \A p \in 1 .. h : known[p] = all[p]
  BY <1>2, <1>4, PrefixList
<1>11. DOMAIN known = 1 .. h
  BY <1>10, ListFacts
<1> HIDE DEF known
<1>12. Handled = EventLog(known, h)
  BY <1>9, <1>11 DEF Handled, EventLog, index
<1>13. \A p \in 1 .. h : known[p] = L[p]
  BY <1>4, <1>10
<1> QED
  BY <1>4, <1>12, <1>13, SameEventLog

(***************************************************************************)
(* Every block has notes of different types, as the relayer's blocks of    *)
(* one note, and no padding.  The service decodes the notes of another     *)
(* block in another order than the contract inserts their records in       *)
(* (block_codec_order), and gives the padding no leaves.                   *)
(***************************************************************************)
PlainBlocks == \A e \in ToSet(LogOf(chain)) : Plain(e)

LEMMA FinalPlain ==
    ASSUME ReplicaInv, PlainBlocks, NEW c, NEW all, NEW L, NEW F, NEW Q, NEW W, NEW k, NEW h,
           PlacedAt(c, all, L, F, Q, W, k, h)
    PROVE  PlainList(L)
<1>1. /\ c = chain /\ all = AllEvents(c) /\ Continues(L, all, F) /\ Len(L) \in Nat
  BY DEF PlacedAt, AllEvents
<1>2. IsChain(c)
  BY <1>1 DEF ReplicaInv, ServInv, ChainInv
<1>3. LogOf(c) = EventLog(all, Len(all)) /\ IsRange(all)
  BY <1>1, <1>2, LogOfChain
<1>4. Len(all) \in Nat /\ Len(all) <= Len(all)
  BY <1>3, ListFacts DEF IsRange
<1> DEFINE l == EventLog(all, Len(all))
<1>5. IsLog(l) /\ Len(l) = Len(all) /\ \A p \in 1 .. Len(all) : l[p] = all[p].event
  BY <1>3, <1>4, EventLogs
<1> HIDE DEF l
<1>6. \A p \in 1 .. Len(all) : all[p].event \in ToSet(l)
  <2>1. IsList(l)
    BY <1>5 DEF IsLog
  <2>2. \A p \in 1 .. Len(l) : l[p] \in ToSet(l)
    BY <2>1, ListFacts
  <2> QED
    BY <1>5, <2>2
<1>7. \A e \in ToSet(l) : Plain(e)
  BY <1>1, <1>3 DEF PlainBlocks, l
<1>8. \A p \in 1 .. Len(L) : p \in 1 .. Len(all) /\ all[p] = L[p]
  BY <1>1, <1>4 DEF Continues
<1> QED
  BY <1>6, <1>7, <1>8 DEF PlainList

\* The state at a place of the replay says what the events before it say.
LEMMA ReplicaIsLog == ReplicaInv /\ PlainBlocks => ReplicaMatches
<1> SUFFICES ASSUME ReplicaInv, PlainBlocks PROVE ReplicaMatches
  OBVIOUS
<1>1. PICK c, all, L, F, Q, W, k, h : PlacedAt(c, all, L, F, Q, W, k, h)
  BY ReplicaPlaced
<1>2. PICK l, q, w : l = EventLog(L, h) /\ q = Q[h] /\ w = W[h]
  OBVIOUS
<1>3. Handled = l
  BY <1>1, <1>2, HandledAre
<1>4. q = query_result_state /\ w = pending_commit_event
  BY <1>1, <1>2 DEF PlacedAt
<1>5. /\ IsPart(L, 1, F) /\ IsRange(L) /\ Listing(L) /\ k \in 0 .. Len(L) /\ h \in 0 .. k
      /\ IsReplay(L, Q, W, k) /\ F \in Nat /\ F = FinalBlock /\ last_event_index = IndexAt(L, h)
      /\ h \in 0 .. Len(L) /\ Len(L) \in Nat
  BY <1>1 DEF PlacedAt, IsPart
<1>6. Mirrors(q, l)
  <2>1. PlainList(L)
    BY <1>1, FinalPlain
  <2> QED
    BY <1>2, <1>5, <2>1, ReplayMirrors
<1>7. Waiting(w, Log!Announced(l))
  BY <1>2, <1>5, ReplayWaiting
<1>8. q.contract_address = cape_address
  <2>1. Served(Q[h])
    BY <1>5, ReplayFacts
  <2> QED
    BY <1>2, <2>1 DEF Served
<1>10. [n \in DOMAIN w |-> w[n].outputs[1]] = Log!Announced(l)
  <2>1. PICK queue : queue = Log!Announced(l)
    OBVIOUS
  <2>2. /\ IsList(w) /\ IsList(queue) /\ Len(w) = Len(queue)
        /\ \A n \in 1 .. Len(w) : w[n].outputs = <<queue[n]>>
    BY <1>7, <2>1 DEF Waiting, IsTxns
  <2>3. DOMAIN w = 1 .. Len(w) /\ DOMAIN queue = 1 .. Len(w) /\ Len(w) \in Nat
    BY <2>2, ListFacts
  <2>4. \A n \in 1 .. Len(w) : w[n].outputs[1] = queue[n]
    BY <2>2
  <2> DEFINE first == [n \in DOMAIN w |-> w[n].outputs[1]]
  <2>5. first = [n \in 1 .. Len(w) |-> first[n]] /\ \A n \in 1 .. Len(w) : first[n] = queue[n]
    BY <2>3, <2>4
  <2> HIDE DEF first
  <2>6. IsList(first) /\ Len(first) = Len(w)
    BY <2>3, <2>5, FunctionIsList
  <2>7. first = queue
    BY <2>2, <2>5, <2>6, SameList
  <2> QED
    BY <2>1, <2>7 DEF first
<1>11. /\ get_cap_state.records = q.leaves /\ get_cap_state.height = q.state_number
       /\ get_cape_contract_address = q.contract_address
  BY <1>4 DEF get_cap_state, get_cape_contract_address
<1>12. \A leaf : check_nullifier(leaf) <=> leaf \in q.nullifiers
  BY <1>4 DEF check_nullifier
<1>13. \A asset : get_wrapped_erc20_address(asset)
                    = {y[2] : y \in {z \in q.address_from_asset : z[1] = asset}}
  BY <1>4 DEF get_wrapped_erc20_address
<1>14. /\ q.leaves = Log!Leaves(l) /\ q.state_number = Cardinality(Log!Blocks(l))
       /\ q.nullifiers = Log!Spent(l) /\ q.address_from_asset = Log!Sponsored(l)
  BY <1>6 DEF Mirrors
<1>15. \A leaf \in DOMAIN get_cap_state.records : check_nullifier(leaf) <=> leaf \in Log!Spent(l)
  BY <1>12, <1>14
<1>16. \A x \in query_result_state.address_from_asset \cup Log!Sponsored(l) :
          get_wrapped_erc20_address(x[1])
            = {y[2] : y \in {z \in Log!Sponsored(l) : z[1] = x[1]}}
  BY <1>13, <1>14
<1> QED
  BY <1>3, <1>4, <1>8, <1>10, <1>11, <1>14, <1>15, <1>16, Zenon DEF ReplicaMatches

(***************************************************************************)
(* What the service answers is what the events of the contract's chain     *)
(* say, up to the last one it handled: the leaves of the tree, the height, *)
(* the spent records, the registered assets and the waiting wraps.         *)
(* Repeated events, reorganisations, crashes and restarts leave no trace   *)
(* (eth_polling.rs check_range, entry.rs run).                             *)
(***************************************************************************)
THEOREM ReplicaKeepsMatching == Spec /\ []NoWaitLost /\ []PlainBlocks => []ReplicaMatches
<1> QED
  BY ReplicaInit, ReplicaNext, ReplicaIsLog, PTL DEF Spec

-----------------------------------------------------------------------------
(* Which events are handled.                                               *)

\* The events handled, reported and in progress are in blocks up to F.
UpTo(F) ==
    /\ last_event_index \in Indexes /\ last_event_index[1] <= F
    /\ query_result_state.last_reported_index[1] <= F
    /\ persisted.last_reported_index[1] <= F
    /\ \A k \in 1 .. Len(new_event) : new_event[k].index[1] <= F

ConfirmedInv == FoundInv /\ ChainInv /\ UpTo(FinalBlock)

LEMMA ConfirmedInit == Init => ConfirmedInv
<1> SUFFICES ASSUME Init PROVE UpTo(FinalBlock)
  BY FoundInit, ChainInit DEF ConfirmedInv
<1>1. FinalBlock \in Nat
  <2>1. Confirmed \in Int
    BY ChainInit, EqsAssumption DEF ChainInv, Confirmed
  <2> QED
    BY <2>1 DEF FinalBlock
<1>2. last_event_index = NoIndex /\ persisted.last_reported_index = NoIndex /\ new_event = << >>
  BY NewStateFound DEF Init
<1>3. query_result_state.last_reported_index = NoIndex
  BY NewStateFields, ConnectedFields, NewStateFound DEF Init
<1> QED
  BY <1>1, <1>2, <1>3 DEF UpTo, NoIndex, Indexes

\* The handler of an event that is in progress.
LEMMA UpToHandled ==
    ASSUME NEW F, UpTo(F), FoundInv, new_event # << >>, Advance,
           query_result_state' = query_result_state
             \/ query_result_state'.last_reported_index = current.index
    PROVE  UpTo(F)'
<1>1. PICK s, x : s = new_event /\ x = Head(s)
  OBVIOUS
<1>2. /\ IsEntry(x) /\ Len(s) \in Nat \ {0} /\ Len(Tail(s)) = Len(s) - 1 /\ x = s[1]
      /\ \A k \in 1 .. Len(Tail(s)) : Tail(s)[k] = s[k + 1]
  BY <1>1, RangeTail DEF FoundInv
<1>3. x.index \in Indexes /\ x.index[1] <= F /\ \A k \in 1 .. Len(s) : s[k].index[1] <= F
  BY <1>1, <1>2 DEF UpTo, IsEntry
<1>4. \A k \in 1 .. Len(Tail(s)) : Tail(s)[k].index[1] <= F
  BY <1>2, <1>3
<1>5. last_event_index' = x.index /\ new_event' = Tail(s) /\ persisted' = persisted
  BY <1>1 DEF Advance, current
<1>6. query_result_state'.last_reported_index[1] <= F
  BY <1>1, <1>3 DEF UpTo, current
<1> QED
  BY <1>3, <1>4, <1>5, <1>6 DEF UpTo

LEMMA ConfirmedNext == ConfirmedInv /\ [Next]_vars => ConfirmedInv'
<1> SUFFICES ASSUME ConfirmedInv, [Next]_vars PROVE ConfirmedInv'
  OBVIOUS
<1>1. FoundInv /\ ChainInv /\ FoundInv' /\ ChainInv'
  BY FoundNext, ChainStep DEF ConfirmedInv
<1>2. PICK F, G : F = FinalBlock /\ G = FinalBlock'
  OBVIOUS
<1>3. F \in Nat /\ G \in Nat /\ F <= G
  BY <1>1, <1>2, ChainStep
<1>4. UpTo(F)
  BY <1>2 DEF ConfirmedInv
<1>5. IsState(query_result_state)
  BY <1>1 DEF FoundInv, FoundIn
<1>6. ASSUME UNCHANGED <<chain, highest>>, UpTo(F)' PROVE ConfirmedInv'
  <2>1. FinalBlock' = F
    BY <1>2, <1>6 DEF FinalBlock, Confirmed
  <2> QED
    BY <1>1, <1>6, <2>1 DEF ConfirmedInv, UpTo
<1>7. CASE NewBlock \/ Reorg \/ UNCHANGED vars
  <2>1. UNCHANGED eqsVars
    BY <1>7 DEF NewBlock, Reorg, vars
  <2>2. /\ last_event_index[1] \in Nat /\ query_result_state.last_reported_index[1] \in Nat
        /\ persisted.last_reported_index[1] \in Nat
    BY <1>1, <1>4 DEF FoundInv, UpTo, Indexes
  <2>3. \A k \in 1 .. Len(new_event) : new_event[k].index[1] \in Nat
    BY <1>1 DEF FoundInv, IsRange, IsEntry, Indexes
  <2>4. UpTo(G)
    BY <1>3, <1>4, <2>2, <2>3 DEF UpTo
  <2>5. UpTo(FinalBlock)'
    BY <1>2, <2>1, <2>4 DEF UpTo, eqsVars
  <2> QED
    BY <1>1, <2>5 DEF ConfirmedInv
<1>8. CASE check
  <2>1. /\ to_block' \in Nat /\ to_block' <= latest_confirmed_block_number(Len(chain))
        /\ to_block' \in 0 .. Len(chain)
        /\ \E repeat \in {0, 1} :
              /\ new_event' = EventsIn(chain, next_block_to_query - repeat, to_block')
              /\ IsPart(EventsIn(chain, next_block_to_query - repeat, to_block'),
                        next_block_to_query - repeat, to_block')
    BY <1>1, <1>8, RangeChosen DEF FoundInv
  <2>2. \A k \in 1 .. Len(new_event') : new_event'[k].index[1] \in 1 .. to_block'
    BY <2>1 DEF IsPart
  <2>3. to_block' <= F
    <3>1. highest \in Nat /\ Len(chain) <= highest /\ Len(chain) \in Nat
      BY <1>1, ListFacts DEF ChainInv, IsChain
    <3> QED
      BY <1>2, <2>1, <3>1, EqsAssumption DEF latest_confirmed_block_number, FinalBlock, Confirmed
  <2>4. \A k \in 1 .. Len(new_event') : new_event'[k].index[1] <= F
    BY <1>3, <2>1, <2>2, <2>3
  <2>5. UNCHANGED <<chain, highest, query_result_state, persisted, last_event_index>>
    BY <1>8 DEF check, chainVars
  <2>6. UpTo(F)'
    BY <1>4, <2>4, <2>5 DEF UpTo
  <2> QED
    BY <1>6, <2>5, <2>6
<1>9. CASE skipRepeatEvent
  <2>1. PICK s : s = new_event
    OBVIOUS
  <2>2. /\ s # << >> /\ new_event' = Tail(s)
        /\ UNCHANGED <<chain, highest, query_result_state, persisted, last_event_index>>
    BY <1>9, <2>1 DEF skipRepeatEvent, chainVars
  <2>3. /\ Len(s) \in Nat \ {0} /\ Len(Tail(s)) = Len(s) - 1
        /\ \A k \in 1 .. Len(Tail(s)) : Tail(s)[k] = s[k + 1]
    BY <1>1, <2>1, <2>2, RangeTail DEF FoundInv
  <2>4. \A k \in 1 .. Len(s) : s[k].index[1] <= F
    BY <1>4, <2>1 DEF UpTo
  <2>5. \A k \in 1 .. Len(Tail(s)) : Tail(s)[k].index[1] <= F
    BY <2>3, <2>4
  <2>6. UpTo(F)'
    BY <1>4, <2>2, <2>5 DEF UpTo
  <2> QED
    BY <1>6, <2>2, <2>6
<1>10. CASE BlockCommitted \/ Erc20TokensDeposited \/ FaucetInitialized \/ AssetSponsored
  <2>1. new_event # << >> /\ Advance
    BY <1>10 DEF BlockCommitted, Erc20TokensDeposited, FaucetInitialized, AssetSponsored, Handles
  <2>2. /\ withBlock(query_result_state, pending_commit_event, current).last_reported_index
             = current.index
        /\ withFaucet(query_result_state, current).last_reported_index = current.index
        /\ withAsset(query_result_state, current).last_reported_index = current.index
    <3>1. withBlock(query_result_state, pending_commit_event, current).last_reported_index
            = current.index
      BY <1>5, WithBlock
    <3>2. withFaucet(query_result_state, current).last_reported_index = current.index
      BY <1>5, WithFaucet
    <3>3. withAsset(query_result_state, current).last_reported_index = current.index
      BY <1>5, WithAsset
    <3> QED
      BY <3>1, <3>2, <3>3
  <2>3. query_result_state' = query_result_state
          \/ query_result_state'.last_reported_index = current.index
    BY <1>10, <2>2 DEF BlockCommitted, Erc20TokensDeposited, FaucetInitialized, AssetSponsored,
                      Publish
  <2>4. UpTo(F)'
    BY <1>1, <1>4, <2>1, <2>3, UpToHandled
  <2>5. UNCHANGED <<chain, highest>>
    BY <2>1 DEF Advance, chainVars
  <2> QED
    BY <1>6, <2>4, <2>5
<1>11. CASE finishRange
  <2>1. persisted' = query_result_state \/ persisted' = persisted
    BY <1>11 DEF finishRange, store_latest_state
  <2>2. UNCHANGED <<chain, highest, query_result_state, new_event, last_event_index>>
    BY <1>11 DEF finishRange, chainVars
  <2>3. UpTo(F)'
    BY <1>4, <2>1, <2>2 DEF UpTo
  <2> QED
    BY <1>6, <2>2, <2>3
<1>12. CASE panic \/ Crash
  <2>1. UNCHANGED <<chain, highest, query_result_state, persisted, new_event, last_event_index>>
    BY <1>12 DEF panic, Crash, Stop, chainVars
  <2>2. UpTo(F)'
    BY <1>4, <2>1 DEF UpTo
  <2> QED
    BY <1>6, <2>1, <2>2
<1>13. CASE Restart
  <2>1. PICK state : /\ state = NewState \/ state = persisted
                     /\ persisted' = state /\ query_result_state' = connected(state)
                     /\ last_event_index' = state.last_reported_index
    BY <1>13 DEF Restart, load_latest_state
  <2>2. UNCHANGED <<chain, highest>> /\ new_event' = << >>
    BY <1>13 DEF Restart, chainVars
  <2>3. /\ IsState(state) /\ state.last_reported_index \in Indexes
        /\ state.last_reported_index[1] <= F
    <3>1. CASE state = NewState
      BY <1>3, <3>1, NewStateFound, NewStateFields DEF NoIndex, Indexes
    <3>2. CASE state = persisted
      BY <1>1, <1>4, <3>2 DEF FoundInv, FoundIn, UpTo
    <3> QED
      BY <2>1, <3>1, <3>2
  <2>4. connected(state).last_reported_index = state.last_reported_index
    BY <2>3, ConnectedFields
  <2>5. UpTo(F)'
    BY <2>1, <2>2, <2>3, <2>4 DEF UpTo
  <2> QED
    BY <1>6, <2>2, <2>5
<1> QED
  BY <1>7, <1>8, <1>9, <1>10, <1>11, <1>12, <1>13 DEF Next, checkRange

(***************************************************************************)
(* The service handles no event that a reorganisation may take back,       *)
(* whatever ranges it queries and however often it is restarted            *)
(* (eth_polling.rs check, entry.rs run).                                   *)
(***************************************************************************)
THEOREM HandlesOnlyConfirmed == Spec => []OnlyConfirmed
<1>1. ConfirmedInv => OnlyConfirmed
  <2> SUFFICES ASSUME ConfirmedInv PROVE last_event_index[1] <= Max({0, Confirmed})
    BY DEF OnlyConfirmed
  <2>1. Confirmed \in Int
    BY EqsAssumption DEF ConfirmedInv, ChainInv, Confirmed
  <2>2. Max({0, Confirmed}) = IF 0 <= Confirmed THEN Confirmed ELSE 0
    BY <2>1, MaxOfTwo
  <2>3. Max({0, Confirmed}) = FinalBlock
    BY <2>1, <2>2 DEF FinalBlock
  <2> QED
    BY <2>3 DEF ConfirmedInv, UpTo
<1> QED
  BY <1>1, ConfirmedInit, ConfirmedNext, PTL DEF Spec
===========================================================================
