---------------------------- MODULE FaucetProofs ----------------------------
(***************************************************************************)
(* Theorems about the queue of the faucet: what a restart recovers from    *)
(* the log is what was in memory, a key is in one place at a time, and it  *)
(* receives no more grants than it asked for.                              *)
(***************************************************************************)
EXTENDS FaucetQueue, ListProofs, FiniteSetTheorems

-----------------------------------------------------------------------------
(* load, on any log.                                                       *)

Grants == (0 .. num_grants - 1) \cup {None}

Entries == AllKeys \X Grants

\* The state of the loop of load.
Loads ==
    [index : UNION {[S -> Grants] : S \in SUBSET AllKeys}, processed : SUBSET AllKeys,
     queue : Seq(AllKeys)]

NothingLoaded == [index |-> << >>, processed |-> {}, queue |-> << >>]

\* What the recursive function of load is.
Reads(q, f) ==
    f = [n \in 0 .. Len(q) |->
           IF n = 0 THEN NothingLoaded ELSE loadEntry(f[n - 1], newestFirst(q)[n])]

\* What load makes of the last state of its loop.
Result(loaded) ==
    LET present == {k \in DOMAIN loaded.index : loaded.index[k] # None}
    IN  [index |-> [k \in present |-> loaded.index[k]], channel |-> Reverse(loaded.queue)]

\* The loop starts with the empty state.
LEMMA NothingLoadedType == NothingLoaded \in Loads
<1>1. << >> \in [{} -> Grants]
    OBVIOUS
<1>2. {} \in SUBSET AllKeys /\ << >> \in Seq(AllKeys)
    OBVIOUS
<1> QED
    BY <1>1, <1>2 DEF NothingLoaded, Loads

\* One round of the loop.
LEMMA LoadEntryType ==
    ASSUME NEW loaded \in Loads, NEW e \in Entries
    PROVE  /\ loadEntry(loaded, e) \in Loads
           /\ DOMAIN loadEntry(loaded, e).index = DOMAIN loaded.index \cup {e[1]}
           /\ \A k \in DOMAIN loaded.index : loadEntry(loaded, e).index[k] = loaded.index[k]
           /\ e[1] \notin DOMAIN loaded.index => loadEntry(loaded, e).index[e[1]] = e[2]
           /\ loadEntry(loaded, e).processed =
                 IF e[2] \in {0, None} THEN loaded.processed \cup {e[1]} ELSE loaded.processed
           /\ loadEntry(loaded, e).queue =
                 IF e[1] \notin loaded.processed /\ e[2] = 0 THEN Append(loaded.queue, e[1])
                 ELSE loaded.queue
<1> DEFINE key == e[1]
           grants == e[2]
           next == loadEntry(loaded, e)
           index1 == [k \in DOMAIN loaded.index \cup {key} |->
                        IF k = key THEN grants ELSE loaded.index[k]]
<1>1. key \in AllKeys /\ grants \in Grants
    BY DEF Entries
<1>2. PICK S \in SUBSET AllKeys : loaded.index \in [S -> Grants]
    BY DEF Loads
<1>3. loaded.processed \in SUBSET AllKeys /\ loaded.queue \in Seq(AllKeys)
    BY DEF Loads
<1>4. /\ next.index = IF key \in DOMAIN loaded.index THEN loaded.index ELSE index1
      /\ next.processed = IF grants \in {0, None} THEN loaded.processed \cup {key} ELSE loaded.processed
      /\ next.queue = IF key \notin loaded.processed /\ grants = 0 THEN Append(loaded.queue, key)
                      ELSE loaded.queue
      /\ next = [index |-> next.index, processed |-> next.processed, queue |-> next.queue]
    BY DEF loadEntry
<1> HIDE DEF next
<1>5. S \cup {key} \in SUBSET AllKeys /\ DOMAIN loaded.index = S
    BY <1>1, <1>2
<1>6. index1 \in [S \cup {key} -> Grants]
    BY <1>1, <1>2, <1>5
<1>7. next.index \in UNION {[T -> Grants] : T \in SUBSET AllKeys}
    BY <1>2, <1>4, <1>5, <1>6
<1>8. next.processed \in SUBSET AllKeys /\ next.queue \in Seq(AllKeys)
    BY <1>1, <1>3, <1>4
<1>9. next \in Loads
    BY <1>4, <1>7, <1>8 DEF Loads
<1> QED
    BY <1>4, <1>5, <1>9 DEF next

\* The n-th entry that is read.
LEMMA NewestFirst ==
    ASSUME NEW q \in Seq(Entries), NEW n \in 1 .. Len(q)
    PROVE  newestFirst(q)[n] = q[Len(q) - n + 1] /\ newestFirst(q)[n] \in Entries
BY DEF newestFirst, Reverse

\* There is such a function.
LEMMA ReadsExist ==
    ASSUME NEW q \in Seq(Entries)
    PROVE  \E f : Reads(q, f)
<1> DEFINE n == Len(q)
           l == newestFirst(q)
           step == [p \in Nat \X Loads |->
                      IF p[1] \in 1 .. n THEN loadEntry(p[2], l[p[1]]) ELSE p[2]]
<1>0. n \in Nat /\ \A k \in 1 .. n : l[k] \in Entries
    BY NewestFirst
<1>0a. \A x \in Loads, e \in Entries : loadEntry(x, e) \in Loads
    BY LoadEntryType
<1> HIDE DEF l, n
<1>1. step \in [Nat \X Loads -> Loads]
    BY <1>0, <1>0a
<1>2. \A k \in 1 .. n, x \in Loads : step[<<k, x>>] = loadEntry(x, l[k])
    BY <1>0
<1> HIDE DEF step
<1>3. PICK g \in [Nat -> Loads] : Recurs(g, NothingLoaded, step)
    BY <1>0, <1>1, NatRecursion, NothingLoadedType
<1>4. g[0] = NothingLoaded /\ \A k \in Nat \ {0} : g[k] = step[<<k, g[k - 1]>>]
    BY <1>3 DEF Recurs
<1> DEFINE f == [k \in 0 .. n |-> g[k]]
           h == [k \in 0 .. n |-> IF k = 0 THEN NothingLoaded ELSE loadEntry(f[k - 1], l[k])]
<1>5. \A k \in 0 .. n : f[k] = h[k]
  <2> TAKE k \in 0 .. n
  <2>1. CASE k = 0
      BY <1>4, <2>1
  <2>2. CASE k # 0
    <3>1. k \in 1 .. n /\ k \in Nat \ {0} /\ k - 1 \in 0 .. n /\ k - 1 \in Nat /\ k > 0
        BY <1>0, <2>2
    <3>2. g[k] = step[<<k, g[k - 1]>>] /\ g[k - 1] \in Loads
        BY <1>4, <3>1
    <3>3. f[k] = loadEntry(f[k - 1], l[k])
        BY <1>2, <3>1, <3>2
    <3>4. h[k] = loadEntry(f[k - 1], l[k])
        BY <3>1
    <3> QED
        BY <3>3, <3>4
  <2> QED
      BY <2>1, <2>2
<1>6. f = h
  <2>1. f = [k \in 0 .. n |-> f[k]] /\ h = [k \in 0 .. n |-> h[k]]
      OBVIOUS
  <2> HIDE DEF f, h
  <2> QED
      BY <1>5, <2>1
<1>7. Reads(q, f)
  <2> HIDE DEF f
  <2> QED
      BY <1>6 DEF Reads, n, l
<1> QED
    BY <1>7

\* The states of the loop.
LEMMA LoadLoop ==
    ASSUME NEW q \in Seq(Entries)
    PROVE  \E f : /\ f[0] = NothingLoaded
                  /\ \A n \in 1 .. Len(q) : f[n] = loadEntry(f[n - 1], q[Len(q) - n + 1])
                  /\ \A n \in 0 .. Len(q) : f[n] \in Loads
                  /\ load(q) = Result(f[Len(q)])
<1> DEFINE f == CHOOSE f : Reads(q, f)
           n == Len(q)
<1>0. n \in Nat /\ \A k \in 1 .. n : q[n - k + 1] \in Entries
    OBVIOUS
<1>1. Reads(q, f)
    BY ReadsExist
<1>2. load(q) = Result(f[n])
    BY DEF load, Reads, Result, NothingLoaded
<1> HIDE DEF f
<1>3. f[0] = NothingLoaded /\ \A k \in 1 .. n : f[k] = loadEntry(f[k - 1], newestFirst(q)[k])
    BY <1>0, <1>1 DEF Reads
<1>4. \A k \in 1 .. n : f[k] = loadEntry(f[k - 1], q[n - k + 1])
    BY <1>3, NewestFirst
<1>5. \A k \in 0 .. n : f[k] \in Loads
  <2> DEFINE S == {k \in Nat : k <= n => f[k] \in Loads}
  <2>1. 0 \in S
      BY <1>3, NothingLoadedType
  <2>2. \A k \in S : k + 1 \in S
    <3> SUFFICES ASSUME NEW k \in Nat, k <= n => f[k] \in Loads, k + 1 <= n
                 PROVE  f[k + 1] \in Loads
        OBVIOUS
    <3>1. k + 1 \in 1 .. n /\ (k + 1) - 1 = k /\ k <= n
        BY <1>0
    <3>2. q[n - (k + 1) + 1] \in Entries /\ f[k] \in Loads
        BY <1>0, <3>1
    <3>3. f[k + 1] = loadEntry(f[k], q[n - (k + 1) + 1])
        BY <1>4, <3>1
    <3> QED
        BY <3>2, <3>3, LoadEntryType
  <2> HIDE DEF S
  <2>3. S = Nat
      BY <2>1, <2>2, NatSetInduction DEF S
  <2> QED
      BY <1>0, <2>3 DEF S
<1> QED
    BY <1>2, <1>3, <1>4, <1>5
-----------------------------------------------------------------------------
(* What the loop has read.                                                 *)

\* The last entry of a key.
IsLatest(q, k, i) ==
    /\ i \in DOMAIN q /\ q[i][1] = k
    /\ \A j \in DOMAIN q : q[j][1] = k => j <= i

\* The entry of a request whose key was not requested again or removed since.
IsOpen(q, i) ==
    /\ i \in DOMAIN q /\ q[i][2] = 0
    /\ \A j \in DOMAIN q : j > i /\ q[j][1] = q[i][1] => q[j][2] \notin {0, None}

\* The list has the keys of the open requests after m, newest first.
NewestOpen(q, m, list, pos) ==
    /\ pos \in [DOMAIN list -> DOMAIN q]
    /\ \A x \in DOMAIN list : pos[x] > m /\ IsOpen(q, pos[x]) /\ q[pos[x]][1] = list[x]
    /\ \A x, y \in DOMAIN list : x < y => pos[x] > pos[y]
    /\ \A i \in DOMAIN q : i > m /\ IsOpen(q, i) => \E x \in DOMAIN list : pos[x] = i

\* The state of the loop when it has read the entries after the m-th.
HasRead(q, m, loaded) ==
    /\ \A k : k \in DOMAIN loaded.index <=> \E i \in DOMAIN q : i > m /\ q[i][1] = k
    /\ \A k, i : IsLatest(q, k, i) /\ i > m => loaded.index[k] = q[i][2]
    /\ \A k : k \in loaded.processed <=>
                 \E i \in DOMAIN q : i > m /\ q[i][1] = k /\ q[i][2] \in {0, None}
    /\ \E pos : NewestOpen(q, m, loaded.queue, pos)

\* One round of the loop reads one entry.
LEMMA ReadsEntry ==
    ASSUME NEW q \in Seq(Entries), NEW m \in 1 .. Len(q), NEW loaded \in Loads,
           HasRead(q, m, loaded)
    PROVE  HasRead(q, m - 1, loadEntry(loaded, q[m]))
<1> DEFINE next == loadEntry(loaded, q[m])
           key == q[m][1]
<1>0. /\ q[m] \in Entries /\ DOMAIN q = 1 .. Len(q) /\ Len(q) \in Nat /\ m \in DOMAIN q
      /\ \A i \in DOMAIN q : i > m - 1 <=> i = m \/ i > m
    OBVIOUS
<1>1. /\ DOMAIN next.index = DOMAIN loaded.index \cup {key}
      /\ \A k \in DOMAIN loaded.index : next.index[k] = loaded.index[k]
      /\ key \notin DOMAIN loaded.index => next.index[key] = q[m][2]
      /\ next.processed =
            IF q[m][2] \in {0, None} THEN loaded.processed \cup {key} ELSE loaded.processed
      /\ next.queue =
            IF key \notin loaded.processed /\ q[m][2] = 0 THEN Append(loaded.queue, key)
            ELSE loaded.queue
      /\ next \in Loads
    BY <1>0, LoadEntryType
<1> HIDE DEF next
<1>2. \A k : k \in DOMAIN next.index <=> \E i \in DOMAIN q : i > m - 1 /\ q[i][1] = k
    BY <1>0, <1>1 DEF HasRead
<1>3. ASSUME NEW k, NEW i, IsLatest(q, k, i), i > m - 1 PROVE next.index[k] = q[i][2]
  <2>0. i \in DOMAIN q /\ q[i][1] = k /\ \A j \in DOMAIN q : q[j][1] = k => j <= i
      BY <1>3 DEF IsLatest
  <2>1. CASE i > m
    <3>1. k \in DOMAIN loaded.index /\ loaded.index[k] = q[i][2]
        BY <1>3, <2>0, <2>1 DEF HasRead
    <3> QED
        BY <1>1, <3>1
  <2>2. CASE i = m
    <3>1. \A j \in DOMAIN q : j > m => q[j][1] # k
        BY <1>0, <2>0, <2>2
    <3>2. k \notin DOMAIN loaded.index
        BY <3>1 DEF HasRead
    <3> QED
        BY <1>1, <2>0, <2>2, <3>2
  <2> QED
      BY <1>0, <1>3, <2>0, <2>1, <2>2
<1>4. \A k : k \in next.processed <=>
                \E i \in DOMAIN q : i > m - 1 /\ q[i][1] = k /\ q[i][2] \in {0, None}
  <2>1. \A k : k \in next.processed <=>
                  k \in loaded.processed \/ (k = key /\ q[m][2] \in {0, None})
      BY <1>1
  <2>2. \A k : k \in loaded.processed <=>
                  \E i \in DOMAIN q : i > m /\ q[i][1] = k /\ q[i][2] \in {0, None}
      BY DEF HasRead
  <2> QED
      BY <1>0, <2>1, <2>2
<1>5. \E pos : NewestOpen(q, m - 1, next.queue, pos)
  <2>1. PICK pos : NewestOpen(q, m, loaded.queue, pos)
      BY DEF HasRead
  <2>2. /\ pos \in [DOMAIN loaded.queue -> DOMAIN q]
        /\ \A x \in DOMAIN loaded.queue :
              pos[x] > m /\ IsOpen(q, pos[x]) /\ q[pos[x]][1] = loaded.queue[x]
        /\ \A x, y \in DOMAIN loaded.queue : x < y => pos[x] > pos[y]
        /\ \A i \in DOMAIN q : i > m /\ IsOpen(q, i) => \E x \in DOMAIN loaded.queue : pos[x] = i
      BY <2>1 DEF NewestOpen
  <2>3. IsOpen(q, m) <=> key \notin loaded.processed /\ q[m][2] = 0
    <3>1. key \in loaded.processed <=>
             \E i \in DOMAIN q : i > m /\ q[i][1] = key /\ q[i][2] \in {0, None}
        BY DEF HasRead
    <3> QED
        BY <1>0, <3>1 DEF IsOpen
  <2>4. loaded.queue \in Seq(AllKeys)
      BY DEF Loads
  <2>5. CASE ~IsOpen(q, m)
    <3>1. next.queue = loaded.queue
        BY <1>1, <2>3, <2>5
    <3>2. NewestOpen(q, m - 1, next.queue, pos)
        BY <1>0, <2>2, <2>5, <3>1 DEF NewestOpen
    <3> QED
        BY <3>2
  <2>6. CASE IsOpen(q, m)
    <3> DEFINE L == Len(loaded.queue)
               pos1 == [x \in 1 .. L + 1 |-> IF x = L + 1 THEN m ELSE pos[x]]
    <3>1. /\ L \in Nat /\ DOMAIN loaded.queue = 1 .. L
          /\ DOMAIN next.queue = 1 .. L + 1
          /\ next.queue[L + 1] = key
          /\ \A x \in 1 .. L : next.queue[x] = loaded.queue[x]
      <4>1. next.queue = Append(loaded.queue, key) /\ key \in AllKeys
          BY <1>0, <1>1, <2>3, <2>6 DEF Entries
      <4> QED
          BY <2>4, <4>1
    <3> HIDE DEF L
    <3>2. /\ pos1[L + 1] = m
          /\ \A x \in 1 .. L : pos1[x] = pos[x] /\ pos[x] \in DOMAIN q /\ x \in 1 .. L + 1
          /\ \A x \in 1 .. L + 1 : x = L + 1 \/ x \in 1 .. L
          /\ L + 1 \in 1 .. L + 1
        BY <2>2, <3>1
    <3>3. pos1 \in [1 .. L + 1 -> DOMAIN q]
        BY <1>0, <2>2, <3>1
    <3> HIDE DEF pos1
    <3>4. \A x \in 1 .. L + 1 :
             pos1[x] > m - 1 /\ IsOpen(q, pos1[x]) /\ q[pos1[x]][1] = next.queue[x]
        BY <1>0, <2>2, <2>6, <3>1, <3>2
    <3>5. \A x, y \in 1 .. L + 1 : x < y => pos1[x] > pos1[y]
      <4> SUFFICES ASSUME NEW x \in 1 .. L + 1, NEW y \in 1 .. L + 1, x < y
                   PROVE  pos1[x] > pos1[y]
          OBVIOUS
      <4>1. x \in 1 .. L
          BY <3>1
      <4> QED
          BY <2>2, <3>1, <3>2, <4>1
    <3>6. \A i \in DOMAIN q : i > m - 1 /\ IsOpen(q, i) => \E x \in 1 .. L + 1 : pos1[x] = i
        BY <1>0, <2>2, <3>1, <3>2
    <3>7. NewestOpen(q, m - 1, next.queue, pos1)
        BY <3>1, <3>3, <3>4, <3>5, <3>6 DEF NewestOpen
    <3> QED
        BY <3>7
  <2> QED
      BY <2>5, <2>6
<1>6. HasRead(q, m - 1, next)
    BY <1>2, <1>3, <1>4, <1>5 DEF HasRead
<1> QED
    BY <1>6 DEF next

\* The list has the keys of the open requests, oldest first.
OldestOpen(q, list, pos) ==
    /\ pos \in [DOMAIN list -> DOMAIN q]
    /\ \A x \in DOMAIN list : IsOpen(q, pos[x]) /\ q[pos[x]][1] = list[x]
    /\ \A x, y \in DOMAIN list : x < y => pos[x] < pos[y]
    /\ \A i \in DOMAIN q : IsOpen(q, i) => \E x \in DOMAIN list : pos[x] = i

\* What load returns: the latest grants of each key that was not removed since,
\* and the keys of the open requests in the order they were made.
LEMMA LoadMeaning ==
    ASSUME NEW q \in Seq(Entries)
    PROVE  /\ \A k : k \in DOMAIN load(q).index =>
                 \E i \in DOMAIN q : q[i][1] = k
           /\ \A k, i : IsLatest(q, k, i) =>
                 /\ k \in DOMAIN load(q).index <=> q[i][2] # None
                 /\ k \in DOMAIN load(q).index => load(q).index[k] = q[i][2]
           /\ load(q).index = [k \in DOMAIN load(q).index |-> load(q).index[k]]
           /\ load(q).channel \in Seq(AllKeys)
           /\ \E pos : OldestOpen(q, load(q).channel, pos)
<1> DEFINE N == Len(q)
<1>1. PICK f : /\ f[0] = NothingLoaded
               /\ \A n \in 1 .. N : f[n] = loadEntry(f[n - 1], q[N - n + 1])
               /\ \A n \in 0 .. N : f[n] \in Loads
               /\ load(q) = Result(f[N])
    BY LoadLoop
<1>0. N \in Nat /\ DOMAIN q = 1 .. N
    OBVIOUS
<1>2. HasRead(q, 0, f[N])
  <2> DEFINE S == {n \in Nat : n <= N => HasRead(q, N - n, f[n])}
  <2>1. 0 \in S
    <3>1. HasRead(q, N, NothingLoaded)
      <4>1. \A i \in DOMAIN q : ~(i > N)
          BY <1>0
      <4>2. \A k, i : IsLatest(q, k, i) => i \in DOMAIN q
          BY DEF IsLatest
      <4>3. DOMAIN NothingLoaded.index = {} /\ NothingLoaded.processed = {}
               /\ NothingLoaded.queue = << >>
          BY DEF NothingLoaded
      <4>4. NewestOpen(q, N, << >>, << >>)
        <5>1. DOMAIN << >> = {} /\ << >> \in [{} -> DOMAIN q]
            OBVIOUS
        <5> QED
            BY <4>1, <5>1 DEF NewestOpen
      <4> QED
          BY <4>1, <4>2, <4>3, <4>4 DEF HasRead
    <3> QED
        BY <1>0, <1>1, <3>1
  <2>2. \A n \in S : n + 1 \in S
    <3> SUFFICES ASSUME NEW n \in Nat, n <= N => HasRead(q, N - n, f[n]), n + 1 <= N
                 PROVE  HasRead(q, N - (n + 1), f[n + 1])
        OBVIOUS
    <3>1. /\ n \in 0 .. N /\ n + 1 \in 1 .. N /\ (n + 1) - 1 = n /\ N - (n + 1) + 1 = N - n
          /\ N - n \in 1 .. N /\ N - (n + 1) = (N - n) - 1
        BY <1>0
    <3>2. f[n] \in Loads /\ f[n + 1] = loadEntry(f[n], q[N - n])
        BY <1>1, <3>1
    <3>3. HasRead(q, (N - n) - 1, f[n + 1])
        BY <3>1, <3>2, ReadsEntry
    <3> QED
        BY <3>1, <3>3
  <2> HIDE DEF S
  <2>3. S = Nat
      BY <2>1, <2>2, NatSetInduction DEF S
  <2> QED
      BY <1>0, <2>3 DEF S
<1> DEFINE last == f[N]
           present == {k \in DOMAIN last.index : last.index[k] # None}
<1>3. last \in Loads /\ load(q) = Result(last) /\ HasRead(q, 0, last)
    BY <1>0, <1>1, <1>2
<1> HIDE DEF N, last
<1>4. /\ load(q).index = [k \in present |-> last.index[k]]
      /\ load(q).channel = Reverse(last.queue)
    BY <1>3 DEF Result
<1>5. \A i \in DOMAIN q : i > 0
    BY <1>0
<1>6. \A k : k \in DOMAIN load(q).index => \E i \in DOMAIN q : q[i][1] = k
    BY <1>3, <1>4 DEF HasRead
<1>7. ASSUME NEW k, NEW i, IsLatest(q, k, i)
      PROVE  /\ k \in DOMAIN load(q).index <=> q[i][2] # None
             /\ k \in DOMAIN load(q).index => load(q).index[k] = q[i][2]
  <2>1. i \in DOMAIN q /\ q[i][1] = k /\ i > 0
      BY <1>5, <1>7 DEF IsLatest
  <2>2. k \in DOMAIN last.index /\ last.index[k] = q[i][2]
      BY <1>3, <1>7, <2>1 DEF HasRead
  <2> QED
      BY <1>4, <2>2
<1>8. load(q).index = [k \in DOMAIN load(q).index |-> load(q).index[k]]
    BY <1>4
<1>9. \E pos : OldestOpen(q, load(q).channel, pos)
  <2>1. PICK pos : NewestOpen(q, 0, last.queue, pos)
      BY <1>3 DEF HasRead
  <2> DEFINE list == last.queue
             back == load(q).channel
             L == Len(list)
             pos1 == [x \in 1 .. L |-> pos[(L - x) + 1]]
  <2>2. /\ pos \in [DOMAIN list -> DOMAIN q]
        /\ \A x \in DOMAIN list : IsOpen(q, pos[x]) /\ q[pos[x]][1] = list[x]
        /\ \A x, y \in DOMAIN list : x < y => pos[x] > pos[y]
        /\ \A i \in DOMAIN q : IsOpen(q, i) => \E x \in DOMAIN list : pos[x] = i
      BY <1>5, <2>1 DEF NewestOpen
  <2>3. L \in Nat /\ DOMAIN list = 1 .. L /\ DOMAIN back = 1 .. L
           /\ \A x \in 1 .. L : back[x] = list[(L - x) + 1]
    <3>1. list \in Seq(AllKeys)
        BY <1>3 DEF Loads
    <3> QED
        BY <1>4, <3>1 DEF Reverse
  <2> HIDE DEF L, list, back
  <2>4. \A x \in 1 .. L : (L - x) + 1 \in 1 .. L /\ (L - ((L - x) + 1)) + 1 = x
      BY <2>3
  <2>5. \A x \in 1 .. L : pos1[x] = pos[(L - x) + 1] /\ pos1[x] \in DOMAIN q
      BY <2>2, <2>3, <2>4
  <2>6. pos1 \in [1 .. L -> DOMAIN q]
      BY <2>5
  <2> HIDE DEF pos1
  <2>7. \A x \in 1 .. L : IsOpen(q, pos1[x]) /\ q[pos1[x]][1] = back[x]
    <3> TAKE x \in 1 .. L
    <3>1. PICK y \in 1 .. L : y = (L - x) + 1
        BY <2>4
    <3>2. pos1[x] = pos[y] /\ back[x] = list[y]
        BY <2>3, <2>5, <3>1
    <3> QED
        BY <2>2, <2>3, <3>2
  <2>8. \A x, y \in 1 .. L : x < y => pos1[x] < pos1[y]
    <3> SUFFICES ASSUME NEW x \in 1 .. L, NEW y \in 1 .. L, x < y PROVE pos1[x] < pos1[y]
        OBVIOUS
    <3>1. (L - y) + 1 < (L - x) + 1
        BY <2>3
    <3>2. pos[(L - y) + 1] > pos[(L - x) + 1]
        BY <2>2, <2>3, <2>4, <3>1
    <3>3. pos1[x] \in Nat /\ pos1[y] \in Nat
        BY <1>0, <2>5
    <3> QED
        BY <2>5, <3>2, <3>3
  <2>9. \A i \in DOMAIN q : IsOpen(q, i) => \E x \in 1 .. L : pos1[x] = i
    <3> SUFFICES ASSUME NEW i \in DOMAIN q, IsOpen(q, i) PROVE \E x \in 1 .. L : pos1[x] = i
        OBVIOUS
    <3>1. PICK y \in 1 .. L : pos[y] = i
        BY <2>2, <2>3
    <3>2. (L - y) + 1 \in 1 .. L /\ pos1[(L - y) + 1] = i
        BY <2>4, <2>5, <3>1
    <3> QED
        BY <3>2
  <2>10. OldestOpen(q, back, pos1)
      BY <2>3, <2>6, <2>7, <2>8, <2>9 DEF OldestOpen
  <2> QED
      BY <2>10 DEF back
<1>10. load(q).channel \in Seq(AllKeys)
  <2>1. last.queue \in Seq(AllKeys)
      BY <1>3 DEF Loads
  <2> QED
      BY <1>4, <2>1 DEF Reverse
<1> QED
    BY <1>6, <1>7, <1>8, <1>9, <1>10
-----------------------------------------------------------------------------
(* The inductive invariant.                                                *)

QueueTypes ==
    /\ index \in UNION {[S -> 0 .. num_grants - 1] : S \in SUBSET AllKeys}
    /\ queue \in Seq(Entries)
    /\ channel \in Seq(AllKeys)
    /\ sending \subseteq Keys
    /\ worker \in [Workers -> [at : {"waiting", "ready", "transferring", "paid"},
                               key : AllKeys \cup {NoKey}]]
    /\ wallet \in Workers \cup {NoKey}
    /\ accepted \in [Keys -> 0 .. MaxRequests]
    /\ paid \in [Keys -> Nat]
    /\ restarts \in 0 .. MaxRestarts

\* What the log has of a key: nothing, or its latest grants unless it was removed.
KeyLogged(k) ==
    \/ /\ k \notin DOMAIN index
       /\ \A i \in DOMAIN queue : queue[i][1] # k
    \/ \E i \in DOMAIN queue :
              /\ IsLatest(queue, k, i)
              /\ k \in DOMAIN index <=> queue[i][2] # None
              /\ k \in DOMAIN index => index[k] = queue[i][2]

\* A key of the index has an open request in the log.
RequestLogged(k) == \E i \in DOMAIN queue : IsOpen(queue, i) /\ queue[i][1] = k

IndexLogged ==
    /\ \A k \in AllKeys : KeyLogged(k)
    /\ \A k \in DOMAIN index : RequestLogged(k)

\* A worker that waits has no key, and one that has paid, a key that can be paid.
WorkersKeyed ==
    \A w \in Workers : /\ worker[w].at = "waiting" <=> worker[w].key = NoKey
                       /\ worker[w].at = "paid" => worker[w].key \in Keys

\* The key waits or is served somewhere.
Held(k) ==
    \/ k \in sending
    \/ \E i \in DOMAIN channel : channel[i] = k
    \/ \E w \in Workers : worker[w].key = k

\* The key is in one place at most, and it is in the index if it is held.
OnePlace(k) ==
    /\ \A i, j \in DOMAIN channel : channel[i] = k /\ channel[j] = k => i = j
    /\ \A v, w \in Workers : worker[v].key = k /\ worker[w].key = k => v = w
    /\ \A i \in DOMAIN channel : channel[i] = k =>
          k \notin sending /\ \A w \in Workers : worker[w].key # k
    /\ \A w \in Workers : worker[w].key = k => k \notin sending
    /\ Held(k) => k \in DOMAIN index

HeldOnce == \A k \in Keys : OnePlace(k)

\* When every grant can be recorded, no key of the index is lost.
AllHeld == ~StoreMayFail => \A k \in Keys : k \in DOMAIN index => Held(k)

\* A transfer to the key is not recorded: its worker is about to, or has failed to.
Unrecorded(k) ==
    \/ ~Held(k)
    \/ \E w \in Workers : worker[w].at = "paid" /\ worker[w].key = k

\* The transfers a key has asked for.
Allowed(k) == num_grants * accepted[k]

\* The grants of a key count the transfers for its request; each restart may
\* have lost the count of one.
GrantsOf(k) ==
    IF k \in DOMAIN index
    THEN paid[k] + num_grants <= Allowed(k) + index[k] + restarts
                                   + (IF Unrecorded(k) THEN 1 ELSE 0)
    ELSE paid[k] <= Allowed(k) + restarts

GrantsCounted == \A k \in Keys : GrantsOf(k)

FaucetInv ==
    QueueTypes /\ IndexLogged /\ WorkersKeyed /\ HeldOnce /\ AllHeld /\ GrantsCounted

-----------------------------------------------------------------------------
(* The log, when an entry is appended.                                     *)

\* What is appended is the last entry.
LEMMA AppendEntry ==
    ASSUME NEW q \in Seq(Entries), NEW e \in Entries
    PROVE  /\ Append(q, e) \in Seq(Entries)
           /\ DOMAIN Append(q, e) = DOMAIN q \cup {Len(q) + 1}
           /\ Append(q, e)[Len(q) + 1] = e
           /\ \A i \in DOMAIN q : Append(q, e)[i] = q[i] /\ i < Len(q) + 1 /\ i \in Nat
           /\ Len(q) + 1 \in Nat
OBVIOUS

\* The new entry is the latest of its key; those of the others stay.
LEMMA LatestAppend ==
    ASSUME NEW q \in Seq(Entries), NEW e \in Entries
    PROVE  /\ IsLatest(Append(q, e), e[1], Len(q) + 1)
           /\ \A k, i : k # e[1] /\ IsLatest(q, k, i) =>
                 IsLatest(Append(q, e), k, i) /\ Append(q, e)[i] = q[i]
<1> DEFINE r == Append(q, e)
           n == Len(q) + 1
<1>1. /\ DOMAIN r = DOMAIN q \cup {n} /\ r[n] = e /\ n \in Nat
      /\ \A i \in DOMAIN q : r[i] = q[i] /\ i < n /\ i \in Nat
    BY AppendEntry
<1> HIDE DEF r, n
<1>2. IsLatest(r, e[1], n)
    BY <1>1 DEF IsLatest
<1>3. ASSUME NEW k, NEW i, k # e[1], IsLatest(q, k, i)
      PROVE  IsLatest(r, k, i) /\ r[i] = q[i]
    BY <1>1, <1>3 DEF IsLatest
<1> QED
    BY <1>2, <1>3 DEF r, n

\* A request stays open unless its key is requested again or removed.
LEMMA OpenAppend ==
    ASSUME NEW q \in Seq(Entries), NEW e \in Entries
    PROVE  /\ e[2] = 0 => IsOpen(Append(q, e), Len(q) + 1)
           /\ \A i : IsOpen(q, i) /\ (q[i][1] # e[1] \/ e[2] \notin {0, None}) =>
                 IsOpen(Append(q, e), i) /\ Append(q, e)[i] = q[i]
<1> DEFINE r == Append(q, e)
           n == Len(q) + 1
<1>1. /\ DOMAIN r = DOMAIN q \cup {n} /\ r[n] = e /\ n \in Nat
      /\ \A i \in DOMAIN q : r[i] = q[i] /\ i < n /\ i \in Nat
    BY AppendEntry
<1> HIDE DEF r, n
<1>2. e[2] = 0 => IsOpen(r, n)
    BY <1>1 DEF IsOpen
<1>3. ASSUME NEW i, IsOpen(q, i), q[i][1] # e[1] \/ e[2] \notin {0, None}
      PROVE  IsOpen(r, i) /\ r[i] = q[i]
    BY <1>1, <1>3 DEF IsOpen
<1> QED
    BY <1>2, <1>3 DEF r, n

\* What an appended entry leaves of the other keys.
LEMMA OthersLogged ==
    ASSUME QueueTypes, IndexLogged, NEW e \in Entries, queue' = Append(queue, e),
           NEW k \in AllKeys, k # e[1],
           k \in DOMAIN index' <=> k \in DOMAIN index,
           k \in DOMAIN index => index'[k] = index[k]
    PROVE  KeyLogged(k)' /\ (k \in DOMAIN index' => RequestLogged(k)')
<1> DEFINE n == Len(queue) + 1
<1>0. queue \in Seq(Entries)
    BY DEF QueueTypes
<1>1. /\ DOMAIN queue' = DOMAIN queue \cup {n} /\ queue'[n] = e
      /\ \A i \in DOMAIN queue : queue'[i] = queue[i]
    BY <1>0, AppendEntry
<1>2. \A i : IsLatest(queue, k, i) => IsLatest(queue', k, i) /\ queue'[i] = queue[i]
  <2>1. \A h, i : h # e[1] /\ IsLatest(queue, h, i) =>
            IsLatest(Append(queue, e), h, i) /\ Append(queue, e)[i] = queue[i]
      BY <1>0, LatestAppend
  <2> QED
      BY <2>1
<1>3. \A i : IsOpen(queue, i) /\ queue[i][1] = k => IsOpen(queue', i) /\ queue'[i] = queue[i]
    BY <1>0, OpenAppend
<1> HIDE DEF n
<1>4. KeyLogged(k)'
  <2>1. KeyLogged(k)
      BY DEF IndexLogged
  <2>2. CASE k \notin DOMAIN index /\ \A i \in DOMAIN queue : queue[i][1] # k
      BY <1>1, <2>2 DEF KeyLogged
  <2>3. CASE \E i \in DOMAIN queue :
                /\ IsLatest(queue, k, i)
                /\ k \in DOMAIN index <=> queue[i][2] # None
                /\ k \in DOMAIN index => index[k] = queue[i][2]
    <3>1. PICK i \in DOMAIN queue : /\ IsLatest(queue, k, i)
                                    /\ k \in DOMAIN index <=> queue[i][2] # None
                                    /\ k \in DOMAIN index => index[k] = queue[i][2]
        BY <2>3
    <3>2. i \in DOMAIN queue' /\ IsLatest(queue', k, i) /\ queue'[i] = queue[i]
        BY <1>1, <1>2, <3>1
    <3> QED
        BY <3>1, <3>2 DEF KeyLogged
  <2> QED
      BY <2>1, <2>2, <2>3 DEF KeyLogged
<1>5. ASSUME k \in DOMAIN index' PROVE RequestLogged(k)'
  <2>1. PICK i \in DOMAIN queue : IsOpen(queue, i) /\ queue[i][1] = k
      BY <1>5 DEF IndexLogged, RequestLogged
  <2>2. i \in DOMAIN queue' /\ IsOpen(queue', i) /\ queue'[i][1] = k
      BY <1>1, <1>3, <2>1
  <2> QED
      BY <2>2 DEF RequestLogged
<1> QED
    BY <1>4, <1>5

\* The types of the index and the log.
LogTypes ==
    /\ index \in UNION {[S -> 0 .. num_grants - 1] : S \in SUBSET AllKeys}
    /\ queue \in Seq(Entries)

\* A key is set to no grants, or one that is in the index to the grants it has.
LEMMA LogSet ==
    ASSUME QueueTypes, IndexLogged, NEW key \in AllKeys, NEW n \in 0 .. num_grants - 1,
           n = 0 \/ key \in DOMAIN index, SetGrants(key, n)
    PROVE  /\ LogTypes' /\ IndexLogged'
           /\ DOMAIN index' = DOMAIN index \cup {key}
           /\ index'[key] = n
           /\ \A k \in DOMAIN index : k # key => index'[k] = index[k]
<1> DEFINE e == <<key, n>>
           m == Len(queue) + 1
<1>0. /\ queue \in Seq(Entries) /\ e \in Entries /\ queue' = Append(queue, e)
      /\ e[1] = key /\ e[2] = n /\ n # None
    BY FaucetAssumption DEF QueueTypes, Entries, Grants, SetGrants
<1>1. /\ DOMAIN queue' = DOMAIN queue \cup {m} /\ queue'[m] = e /\ queue' \in Seq(Entries)
      /\ \A i \in DOMAIN queue : queue'[i] = queue[i]
    BY <1>0, AppendEntry
<1>2. IsLatest(queue', key, m)
    BY <1>0, LatestAppend
<1>3. /\ e[2] = 0 => IsOpen(queue', m)
      /\ \A i : IsOpen(queue, i) /\ e[2] \notin {0, None} =>
            IsOpen(queue', i) /\ queue'[i] = queue[i]
    BY <1>0, OpenAppend
<1> HIDE DEF e, m
<1>4. /\ DOMAIN index' = DOMAIN index \cup {key}
      /\ index'[key] = n
      /\ \A k \in DOMAIN index : k # key => index'[k] = index[k]
    BY DEF SetGrants
<1>5. LogTypes'
  <2>1. PICK S \in SUBSET AllKeys : index \in [S -> 0 .. num_grants - 1]
      BY DEF QueueTypes
  <2>2. index' \in [S \cup {key} -> 0 .. num_grants - 1] /\ S \cup {key} \in SUBSET AllKeys
      BY <2>1 DEF SetGrants
  <2> QED
      BY <1>1, <2>2 DEF LogTypes
<1>6. KeyLogged(key)'
    BY <1>0, <1>1, <1>2, <1>4 DEF KeyLogged
<1>7. RequestLogged(key)'
  <2>1. CASE n = 0
      BY <1>0, <1>1, <1>3, <2>1 DEF RequestLogged
  <2>2. CASE n # 0
    <3>1. PICK i \in DOMAIN queue : IsOpen(queue, i) /\ queue[i][1] = key
        BY <2>2 DEF IndexLogged, RequestLogged
    <3>2. i \in DOMAIN queue' /\ IsOpen(queue', i) /\ queue'[i][1] = key
        BY <1>0, <1>1, <1>3, <2>2, <3>1
    <3> QED
        BY <3>2 DEF RequestLogged
  <2> QED
      BY <2>1, <2>2
<1>8. \A k \in AllKeys : k # key => KeyLogged(k)' /\ (k \in DOMAIN index' => RequestLogged(k)')
    BY <1>0, <1>4, OthersLogged
<1>9. DOMAIN index' \subseteq AllKeys
    BY <1>4 DEF QueueTypes
<1>10. IndexLogged'
    BY <1>6, <1>7, <1>8, <1>9 DEF IndexLogged
<1> QED
    BY <1>4, <1>5, <1>10

\* A key is removed.
LEMMA LogRemove ==
    ASSUME QueueTypes, IndexLogged, NEW key \in AllKeys, RemoveKey(key)
    PROVE  /\ LogTypes' /\ IndexLogged'
           /\ DOMAIN index' = DOMAIN index \ {key}
           /\ \A k \in DOMAIN index' : index'[k] = index[k]
<1> DEFINE e == <<key, None>>
           m == Len(queue) + 1
<1>0. /\ queue \in Seq(Entries) /\ e \in Entries /\ queue' = Append(queue, e)
      /\ e[1] = key /\ e[2] = None
    BY DEF QueueTypes, Entries, Grants, RemoveKey
<1>1. /\ DOMAIN queue' = DOMAIN queue \cup {m} /\ queue'[m] = e /\ queue' \in Seq(Entries)
      /\ \A i \in DOMAIN queue : queue'[i] = queue[i]
    BY <1>0, AppendEntry
<1>2. IsLatest(queue', key, m)
    BY <1>0, LatestAppend
<1> HIDE DEF e, m
<1>4. /\ DOMAIN index' = DOMAIN index \ {key}
      /\ \A k \in DOMAIN index' : index'[k] = index[k]
    BY DEF RemoveKey
<1>5. LogTypes'
  <2>1. PICK S \in SUBSET AllKeys : index \in [S -> 0 .. num_grants - 1]
      BY DEF QueueTypes
  <2>2. index' \in [S \ {key} -> 0 .. num_grants - 1] /\ S \ {key} \in SUBSET AllKeys
      BY <2>1 DEF RemoveKey
  <2> QED
      BY <1>1, <2>2 DEF LogTypes
<1>6. KeyLogged(key)'
    BY <1>0, <1>1, <1>2, <1>4 DEF KeyLogged
<1>8. \A k \in AllKeys : k # key => KeyLogged(k)' /\ (k \in DOMAIN index' => RequestLogged(k)')
    BY <1>0, <1>4, OthersLogged
<1>9. DOMAIN index' \subseteq AllKeys
    BY <1>4 DEF QueueTypes
<1>10. IndexLogged'
    BY <1>4, <1>6, <1>8, <1>9 DEF IndexLogged
<1> QED
    BY <1>4, <1>5, <1>10

\* The health check inserts the default key.
LEMMA LogInsert ==
    ASSUME QueueTypes, IndexLogged, NEW key \in AllKeys, insert(key)
    PROVE  /\ LogTypes' /\ IndexLogged'
           /\ DOMAIN index' = DOMAIN index \cup {key}
           /\ key \notin DOMAIN index => index'[key] = 0
           /\ \A k \in DOMAIN index : index'[k] = index[k]
<1>1. CASE key \in DOMAIN index
  <2>1. UNCHANGED <<index, queue>>
      BY <1>1 DEF insert
  <2>2. DOMAIN index \subseteq AllKeys
      BY DEF QueueTypes
  <2>3. IndexLogged'
      BY <2>1 DEF IndexLogged, KeyLogged, RequestLogged
  <2> QED
      BY <1>1, <2>1, <2>3 DEF QueueTypes, LogTypes
<1>2. CASE key \notin DOMAIN index
  <2>1. SetGrants(key, 0) /\ 0 \in 0 .. num_grants - 1
      BY <1>2, FaucetAssumption DEF insert
  <2> QED
      BY <1>2, <2>1, LogSet
<1> QED
    BY <1>1, <1>2

-----------------------------------------------------------------------------
(* The places of the keys, and the count of their grants.                  *)

\* The default key and what stands for no key are not paid.
LEMMA OtherKeys == \A k \in Keys : k \in AllKeys /\ k # DefaultKey /\ k # NoKey
BY FaucetAssumption DEF AllKeys

\* The numbers of a key.
LEMMA Numbers ==
    ASSUME QueueTypes, NEW k \in Keys
    PROVE  /\ paid[k] \in Nat /\ Allowed(k) \in Nat /\ restarts \in Nat
           /\ accepted[k] \in 0 .. MaxRequests
           /\ k \in DOMAIN index => index[k] \in 0 .. num_grants - 1
           /\ num_grants \in Nat \ {0} /\ MaxRequests \in Nat /\ MaxRestarts \in Nat
<1>1. num_grants \in Nat \ {0} /\ MaxRequests \in Nat /\ MaxRestarts \in Nat
    BY FaucetAssumption
<1>2. paid[k] \in Nat /\ accepted[k] \in 0 .. MaxRequests /\ restarts \in 0 .. MaxRestarts
    BY DEF QueueTypes
<1>3. accepted[k] \in Nat
    BY <1>1, <1>2
<1>4. \A a, b \in Nat : a * b \in Nat
    OBVIOUS
<1>5. Allowed(k) \in Nat
    BY <1>1, <1>3, <1>4 DEF Allowed
<1>6. k \in DOMAIN index => index[k] \in 0 .. num_grants - 1
    BY DEF QueueTypes
<1> QED
    BY <1>1, <1>2, <1>5, <1>6

\* The requests, the transfers and the grants of the keys are left alone.
CountsKept ==
    /\ UNCHANGED <<accepted, paid, restarts>>
    /\ \A k \in Keys : /\ k \in DOMAIN index' <=> k \in DOMAIN index
                       /\ k \in DOMAIN index => index'[k] = index[k]

\* So is where they are.
PlacesKept ==
    /\ UNCHANGED <<channel, sending>>
    /\ \A k \in Keys : k \in DOMAIN index' <=> k \in DOMAIN index
    /\ \A k \in Keys, w \in Workers : worker'[w].key = k <=> worker[w].key = k

\* Where nothing that is counted changes, the count stays right.
LEMMA CountsStay ==
    ASSUME GrantsCounted, CountsKept, \A k \in Keys : Unrecorded(k)' <=> Unrecorded(k)
    PROVE  GrantsCounted'
<1> SUFFICES ASSUME NEW k \in Keys PROVE GrantsOf(k)'
    BY DEF GrantsCounted
<1>1. GrantsOf(k)
    BY DEF GrantsCounted
<1>2. Allowed(k)' = Allowed(k) /\ paid'[k] = paid[k] /\ restarts' = restarts
    BY DEF Allowed, CountsKept
<1>3. CASE Unrecorded(k)
    BY <1>1, <1>2, <1>3 DEF GrantsOf, CountsKept
<1>4. CASE ~Unrecorded(k)
    BY <1>1, <1>2, <1>4 DEF GrantsOf, CountsKept
<1> QED
    BY <1>3, <1>4

\* Where no key moves, each is still in one place.
LEMMA PlacesStay ==
    ASSUME HeldOnce, AllHeld, PlacesKept
    PROVE  HeldOnce' /\ AllHeld' /\ \A k \in Keys : Held(k)' <=> Held(k)
<1>1. \A k \in Keys : Held(k)' <=> Held(k)
    BY DEF PlacesKept, Held
<1>2. \A k \in Keys : OnePlace(k)'
    BY <1>1 DEF PlacesKept, HeldOnce, OnePlace
<1> QED
    BY <1>1, <1>2 DEF HeldOnce, AllHeld, PlacesKept

\* The key of a worker that serves one.
LEMMA ServedKey ==
    ASSUME QueueTypes, WorkersKeyed, HeldOnce, NEW w \in Workers, worker[w].key \in Keys
    PROVE  /\ worker[w].key \in DOMAIN index /\ Held(worker[w].key)
           /\ worker[w].key \notin sending
           /\ \A i \in DOMAIN channel : channel[i] # worker[w].key
           /\ \A v \in Workers : v # w => worker[v].key # worker[w].key
BY DEF HeldOnce, OnePlace, Held

\* What a worker may be.
Worker == [at : {"waiting", "ready", "transferring", "paid"}, key : AllKeys \cup {NoKey}]

\* A worker goes somewhere with its key.
LEMMA WorkerGoes ==
    ASSUME QueueTypes, NEW w \in Workers, NEW place \in {"waiting", "ready", "transferring", "paid"},
           Goes(w, place)
    PROVE  /\ worker' \in [Workers -> Worker]
           /\ worker'[w].at = place /\ worker'[w].key = worker[w].key
           /\ \A v \in Workers : v # w => worker'[v] = worker[v]
BY DEF QueueTypes, Goes, Worker

\* A worker waits.
LEMMA WorkerWaits ==
    ASSUME QueueTypes, NEW w \in Workers, Waits(w)
    PROVE  /\ worker' \in [Workers -> Worker]
           /\ worker'[w].at = "waiting" /\ worker'[w].key = NoKey
           /\ \A v \in Workers : v # w => worker'[v] = worker[v]
           /\ wallet' = NoKey
BY DEF QueueTypes, Waits, Worker, Idle

-----------------------------------------------------------------------------
(* The steps.                                                              *)

\* The invariant holds when the faucet starts for the first time.
LEMMA InitInv == Init => FaucetInv
<1> SUFFICES ASSUME Init PROVE FaucetInv
    OBVIOUS
<1>1. /\ DOMAIN index = {} /\ DOMAIN queue = {} /\ DOMAIN channel = {} /\ sending = {}
      /\ \A w \in Workers : worker[w].at = "waiting" /\ worker[w].key = NoKey
    BY DEF Init, Idle
<1>2. QueueTypes
  <2>1. index \in [{} -> 0 .. num_grants - 1] /\ {} \in SUBSET AllKeys
      BY DEF Init
  <2>2. queue \in Seq(Entries) /\ channel \in Seq(AllKeys) /\ sending \subseteq Keys
      BY DEF Init
  <2>3. worker \in [Workers -> [at : {"waiting", "ready", "transferring", "paid"},
                               key : AllKeys \cup {NoKey}]]
      BY DEF Init, Idle
  <2>4. /\ accepted \in [Keys -> 0 .. MaxRequests] /\ paid \in [Keys -> Nat]
        /\ restarts \in 0 .. MaxRestarts /\ wallet \in Workers \cup {NoKey}
      BY FaucetAssumption DEF Init
  <2> QED
      BY <2>1, <2>2, <2>3, <2>4 DEF QueueTypes
<1>3. IndexLogged
    BY <1>1 DEF IndexLogged, KeyLogged
<1>4. WorkersKeyed
    BY <1>1 DEF WorkersKeyed
<1>5. \A k \in Keys : ~Held(k)
    BY <1>1, OtherKeys DEF Held
<1>6. HeldOnce /\ AllHeld
    BY <1>1, <1>5, OtherKeys DEF HeldOnce, OnePlace, AllHeld
<1>7. GrantsCounted
  <2> SUFFICES ASSUME NEW k \in Keys PROVE GrantsOf(k)
      BY DEF GrantsCounted
  <2>1. paid[k] = 0 /\ restarts = 0 /\ Allowed(k) \in Nat
      BY <1>2, Numbers DEF Init
  <2> QED
      BY <1>1, <2>1 DEF GrantsOf
<1> QED
    BY <1>2, <1>3, <1>4, <1>6, <1>7 DEF FaucetInv

\* An accepted request: its key is in the index and about to be sent.
LEMMA PushStep ==
    ASSUME FaucetInv, NEW key \in Keys, push(key) PROVE FaucetInv'
<1>0. QueueTypes /\ IndexLogged /\ WorkersKeyed /\ HeldOnce /\ AllHeld /\ GrantsCounted
    BY DEF FaucetInv
<1>1. /\ LogTypes' /\ IndexLogged' /\ DOMAIN index' = DOMAIN index \cup {key}
      /\ key \notin DOMAIN index /\ index'[key] = 0
      /\ \A k \in DOMAIN index : index'[k] = index[k]
    BY <1>0, LogInsert, OtherKeys DEF push
<1>2. /\ sending' = sending \cup {key} /\ accepted' = [accepted EXCEPT ![key] = @ + 1]
      /\ accepted[key] < MaxRequests
      /\ UNCHANGED <<channel, worker, wallet, paid, restarts>>
    BY DEF push
<1>3. accepted \in [Keys -> 0 .. MaxRequests] /\ MaxRequests \in Nat
    BY <1>0, FaucetAssumption DEF QueueTypes
<1>4. accepted' \in [Keys -> 0 .. MaxRequests]
    BY <1>2, <1>3
<1>5. QueueTypes'
    BY <1>0, <1>1, <1>2, <1>4 DEF QueueTypes, LogTypes
<1>6. WorkersKeyed'
    BY <1>0, <1>2 DEF WorkersKeyed
<1>7. ~Held(key)
    BY <1>0, <1>1 DEF HeldOnce, OnePlace
<1>8. \A k \in Keys : Held(k)' <=> Held(k) \/ k = key
    BY <1>2 DEF Held
<1>9. HeldOnce'
  <2> SUFFICES ASSUME NEW k \in Keys PROVE OnePlace(k)'
      BY DEF HeldOnce
  <2>1. OnePlace(k)
      BY <1>0 DEF HeldOnce
  <2>2. CASE k = key
      BY <1>1, <1>2, <1>7, <2>2 DEF OnePlace, Held
  <2>3. CASE k # key
      BY <1>1, <1>2, <1>8, <2>1, <2>3 DEF OnePlace
  <2> QED
      BY <2>2, <2>3
<1>10. AllHeld'
    BY <1>0, <1>1, <1>8 DEF AllHeld
<1>11. GrantsCounted'
  <2> SUFFICES ASSUME NEW k \in Keys PROVE GrantsOf(k)'
      BY DEF GrantsCounted
  <2>1. GrantsOf(k)
      BY <1>0 DEF GrantsCounted
  <2>2. paid'[k] = paid[k] /\ restarts' = restarts
      BY <1>2
  <2>3. CASE k = key
    <3>1. accepted'[k] = accepted[k] + 1 /\ accepted[k] \in Nat /\ num_grants \in Nat
        BY <1>2, <1>3, <2>3, FaucetAssumption
    <3>2. \A a, b \in Nat : a * (b + 1) = a * b + a
        OBVIOUS
    <3>3. Allowed(k)' = Allowed(k) + num_grants
        BY <3>1, <3>2 DEF Allowed
    <3>4. paid[k] <= Allowed(k) + restarts
        BY <1>1, <2>1, <2>3 DEF GrantsOf
    <3>5. paid[k] \in Nat /\ Allowed(k) \in Nat /\ restarts \in Nat
        BY <1>0, Numbers
    <3>6. k \in DOMAIN index' /\ index'[k] = 0
        BY <1>1, <2>3
    <3> QED
        BY <2>2, <3>1, <3>3, <3>4, <3>5, <3>6 DEF GrantsOf
  <2>4. CASE k # key
    <3>1. Allowed(k)' = Allowed(k)
        BY <1>2, <1>3, <2>4 DEF Allowed
    <3>2. Unrecorded(k)' <=> Unrecorded(k)
        BY <1>2, <1>8, <2>4 DEF Unrecorded
    <3>3. k \in DOMAIN index' <=> k \in DOMAIN index
        BY <1>1, <2>4
    <3>4. CASE Unrecorded(k)
        BY <1>1, <2>1, <2>2, <3>1, <3>2, <3>3, <3>4 DEF GrantsOf
    <3>5. CASE ~Unrecorded(k)
        BY <1>1, <2>1, <2>2, <3>1, <3>2, <3>3, <3>5 DEF GrantsOf
    <3> QED
        BY <3>4, <3>5
  <2> QED
      BY <2>3, <2>4
<1> QED
    BY <1>1, <1>5, <1>6, <1>9, <1>10, <1>11 DEF FaucetInv

\* The key goes to the end of the channel.
LEMMA SendStep ==
    ASSUME FaucetInv, NEW key \in Keys, send(key) PROVE FaucetInv'
<1>0. QueueTypes /\ IndexLogged /\ WorkersKeyed /\ HeldOnce /\ AllHeld /\ GrantsCounted
    BY DEF FaucetInv
<1> DEFINE n == Len(channel) + 1
<1>1. /\ key \in sending /\ sending' = sending \ {key} /\ channel' = Append(channel, key)
      /\ UNCHANGED <<index, queue, worker, wallet, accepted, paid, restarts>>
    BY DEF send
<1>2. channel \in Seq(AllKeys) /\ key \in AllKeys
    BY <1>0, OtherKeys DEF QueueTypes
<1>3. /\ DOMAIN channel' = DOMAIN channel \cup {n} /\ channel'[n] = key
      /\ n \notin DOMAIN channel /\ \A i \in DOMAIN channel : channel'[i] = channel[i]
      /\ channel' \in Seq(AllKeys)
    BY <1>1, <1>2
<1> HIDE DEF n
<1>4. QueueTypes'
    BY <1>0, <1>1, <1>3 DEF QueueTypes
<1>5. IndexLogged' /\ WorkersKeyed'
    BY <1>0, <1>1 DEF IndexLogged, KeyLogged, RequestLogged, WorkersKeyed
<1>6. \A k \in Keys : Held(k)' <=> Held(k)
  <2> TAKE k \in Keys
  <2>1. CASE k = key
      BY <1>1, <1>3, <2>1 DEF Held
  <2>2. CASE k # key
      BY <1>1, <1>3, <2>2 DEF Held
  <2> QED
      BY <2>1, <2>2
<1>7. HeldOnce'
  <2> SUFFICES ASSUME NEW k \in Keys PROVE OnePlace(k)'
      BY DEF HeldOnce
  <2>1. OnePlace(k)
      BY <1>0 DEF HeldOnce
  <2>2. Held(k)' => k \in DOMAIN index'
      BY <1>1, <1>6, <2>1 DEF OnePlace
  <2>3. CASE k = key
    <3>1. /\ \A i \in DOMAIN channel : channel[i] # k
          /\ \A w \in Workers : worker[w].key # k
        BY <1>1, <2>1, <2>3 DEF OnePlace
    <3> QED
        BY <1>1, <1>3, <2>2, <2>3, <3>1 DEF OnePlace
  <2>4. CASE k # key
      BY <1>1, <1>3, <2>1, <2>2, <2>4 DEF OnePlace
  <2> QED
      BY <2>3, <2>4
<1>8. AllHeld'
    BY <1>0, <1>1, <1>6 DEF AllHeld
<1>9. GrantsCounted'
  <2>1. CountsKept /\ \A k \in Keys : Unrecorded(k)' <=> Unrecorded(k)
      BY <1>1, <1>6 DEF CountsKept, Unrecorded
  <2> QED
      BY <1>0, <2>1, CountsStay
<1> QED
    BY <1>4, <1>5, <1>7, <1>8, <1>9 DEF FaucetInv

\* A step that leaves the keys where they are and their counts as they are.
LEMMA QuietStep ==
    ASSUME FaucetInv, QueueTypes', IndexLogged', WorkersKeyed', PlacesKept, CountsKept,
           \A k \in Keys, w \in Workers :
              worker[w].key = k => (worker'[w].at = "paid" <=> worker[w].at = "paid")
    PROVE  FaucetInv'
<1>0. HeldOnce /\ AllHeld /\ GrantsCounted
    BY DEF FaucetInv
<1>1. HeldOnce' /\ AllHeld' /\ \A k \in Keys : Held(k)' <=> Held(k)
    BY <1>0, PlacesStay
<1>2. \A k \in Keys : Unrecorded(k)' <=> Unrecorded(k)
    BY <1>1 DEF Unrecorded, PlacesKept
<1>3. GrantsCounted'
    BY <1>0, <1>2, CountsStay
<1> QED
    BY <1>1, <1>3 DEF FaucetInv

\* The health check touches the default key only.
LEMMA HealthcheckStep ==
    ASSUME FaucetInv, healthcheckInserts \/ healthcheckRemoves PROVE FaucetInv'
<1>0. QueueTypes /\ IndexLogged /\ WorkersKeyed
    BY DEF FaucetInv
<1>1. DefaultKey \in AllKeys
    BY DEF AllKeys
<1>2. /\ LogTypes' /\ IndexLogged'
      /\ \A k \in Keys : /\ k \in DOMAIN index' <=> k \in DOMAIN index
                         /\ k \in DOMAIN index => index'[k] = index[k]
  <2>1. CASE healthcheckInserts
      BY <1>0, <1>1, <2>1, LogInsert, OtherKeys DEF healthcheckInserts
  <2>2. CASE healthcheckRemoves
      BY <1>0, <1>1, <2>2, LogRemove, OtherKeys DEF healthcheckRemoves
  <2> QED
      BY <2>1, <2>2
<1>3. UNCHANGED <<channel, sending, worker, wallet, accepted, paid, restarts>>
    BY DEF healthcheckInserts, healthcheckRemoves
<1>4. QueueTypes' /\ WorkersKeyed'
    BY <1>0, <1>2, <1>3 DEF QueueTypes, LogTypes, WorkersKeyed
<1>5. PlacesKept /\ CountsKept
    BY <1>2, <1>3 DEF PlacesKept, CountsKept
<1> QED
    BY <1>2, <1>3, <1>4, <1>5, QuietStep

\* The workers start.
LEMMA StartStep ==
    ASSUME FaucetInv, startWorkers \/ UNCHANGED vars PROVE FaucetInv'
<1>0. QueueTypes /\ IndexLogged /\ WorkersKeyed
    BY DEF FaucetInv
<1>1. UNCHANGED <<index, queue, channel, sending, worker, wallet, accepted, paid, restarts>>
    BY DEF startWorkers, vars
<1>2. QueueTypes' /\ WorkersKeyed' /\ IndexLogged'
    BY <1>0, <1>1 DEF QueueTypes, WorkersKeyed, IndexLogged, KeyLogged, RequestLogged
<1>3. PlacesKept /\ CountsKept
    BY <1>1 DEF PlacesKept, CountsKept
<1> QED
    BY <1>1, <1>2, <1>3, QuietStep

\* A worker locks the wallet.
LEMMA LockStep ==
    ASSUME FaucetInv, NEW w \in Workers, lockWallet(w) PROVE FaucetInv'
<1>0. QueueTypes /\ IndexLogged /\ WorkersKeyed
    BY DEF FaucetInv
<1>1. /\ worker' \in [Workers -> Worker]
      /\ worker'[w].at = "transferring" /\ worker'[w].key = worker[w].key
      /\ \A v \in Workers : v # w => worker'[v] = worker[v]
    BY <1>0, WorkerGoes DEF lockWallet
<1>2. /\ worker[w].at = "ready" /\ wallet' = w
      /\ UNCHANGED <<index, queue, channel, sending, accepted, paid, restarts>>
    BY DEF lockWallet, At
<1>3. QueueTypes' /\ IndexLogged'
    BY <1>0, <1>1, <1>2 DEF QueueTypes, Worker, IndexLogged, KeyLogged, RequestLogged
<1>4. WorkersKeyed'
    BY <1>0, <1>1, <1>2 DEF WorkersKeyed
<1>5. PlacesKept /\ CountsKept
  <2>1. \A k \in Keys, v \in Workers : worker'[v].key = k <=> worker[v].key = k
      BY <1>1
  <2> QED
      BY <1>2, <2>1 DEF PlacesKept, CountsKept
<1>6. \A v \in Workers : worker'[v].at = "paid" <=> worker[v].at = "paid"
    BY <1>1, <1>2
<1> QED
    BY <1>3, <1>4, <1>5, <1>6, QuietStep

\* The default key, which a restart may have queued, is dropped.
LEMMA NoKeyStep ==
    ASSUME FaucetInv, NEW w \in Workers, transferFindsNoKey(w) PROVE FaucetInv'
<1>0. QueueTypes /\ IndexLogged /\ WorkersKeyed
    BY DEF FaucetInv
<1>1. /\ worker' \in [Workers -> Worker] /\ wallet' = NoKey
      /\ worker'[w].at = "waiting" /\ worker'[w].key = NoKey
      /\ \A v \in Workers : v # w => worker'[v] = worker[v]
    BY <1>0, WorkerWaits DEF transferFindsNoKey
<1>2. /\ worker[w].at = "transferring" /\ worker[w].key \notin Keys
      /\ UNCHANGED <<channel, sending, accepted, paid, restarts>>
    BY DEF transferFindsNoKey, At
<1>3. worker[w].key \in AllKeys
    BY <1>0, <1>2 DEF QueueTypes, WorkersKeyed
<1>4. /\ LogTypes' /\ IndexLogged'
      /\ DOMAIN index' = DOMAIN index \ {worker[w].key}
      /\ \A k \in DOMAIN index' : index'[k] = index[k]
    BY <1>0, <1>3, LogRemove DEF transferFindsNoKey
<1>5. QueueTypes'
    BY <1>0, <1>1, <1>2, <1>4 DEF QueueTypes, LogTypes, Worker
<1>6. WorkersKeyed'
    BY <1>0, <1>1, <1>2 DEF WorkersKeyed
<1>7. PlacesKept /\ CountsKept
  <2>1. \A k \in Keys, v \in Workers : worker'[v].key = k <=> worker[v].key = k
      BY <1>1, <1>2, OtherKeys
  <2>2. \A k \in Keys : /\ k \in DOMAIN index' <=> k \in DOMAIN index
                        /\ k \in DOMAIN index => index'[k] = index[k]
      BY <1>2, <1>4
  <2> QED
      BY <1>2, <2>1, <2>2 DEF PlacesKept, CountsKept
<1>8. \A k \in Keys, v \in Workers :
         worker[v].key = k => (worker'[v].at = "paid" <=> worker[v].at = "paid")
    BY <1>1, <1>2
<1> QED
    BY <1>4, <1>5, <1>6, <1>7, <1>8, QuietStep

\* A worker takes the first key of the channel.
LEMMA PopStep ==
    ASSUME FaucetInv, NEW w \in Workers, pop(w) PROVE FaucetInv'
<1>0. QueueTypes /\ IndexLogged /\ WorkersKeyed /\ HeldOnce /\ AllHeld /\ GrantsCounted
    BY DEF FaucetInv
<1> DEFINE key == Head(channel)
<1>1. /\ worker[w].at = "waiting" /\ worker[w].key = NoKey /\ channel # << >>
      /\ channel' = Tail(channel)
      /\ UNCHANGED <<index, queue, sending, wallet, accepted, paid, restarts>>
    BY <1>0 DEF pop, At, WorkersKeyed
<1>2. channel \in Seq(AllKeys)
    BY <1>0 DEF QueueTypes
<1>3. /\ key \in AllKeys /\ channel' \in Seq(AllKeys)
      /\ 1 \in DOMAIN channel /\ channel[1] = key
      /\ DOMAIN channel \subseteq Nat
      /\ \A i \in DOMAIN channel' : i + 1 \in DOMAIN channel /\ channel'[i] = channel[i + 1] /\ i # 0 /\ i \in Nat
      /\ \A i \in DOMAIN channel : i # 1 => i - 1 \in DOMAIN channel' /\ channel'[i - 1] = channel[i]
    BY <1>1, <1>2
<1>4. /\ worker' \in [Workers -> Worker]
      /\ worker'[w].at = "ready" /\ worker'[w].key = key
      /\ \A v \in Workers : v # w => worker'[v] = worker[v]
    BY <1>0, <1>3 DEF pop, QueueTypes, Worker
<1> HIDE DEF key
<1>5. QueueTypes' /\ IndexLogged'
    BY <1>0, <1>1, <1>3, <1>4 DEF QueueTypes, Worker, IndexLogged, KeyLogged, RequestLogged
<1>6. WorkersKeyed'
  <2>1. key # NoKey
      BY <1>3, FaucetAssumption DEF AllKeys
  <2> QED
      BY <1>0, <1>4, <2>1 DEF WorkersKeyed
<1>7. ASSUME NEW k \in Keys PROVE (Held(k)' <=> Held(k)) /\ OnePlace(k)'
  <2>0. OnePlace(k) /\ k # NoKey
      BY <1>0, OtherKeys DEF HeldOnce
  <2>1. CASE k = key
    <3>1. /\ \A i \in DOMAIN channel : channel[i] = k => i = 1
          /\ k \notin sending /\ \A v \in Workers : worker[v].key # k
          /\ Held(k) /\ k \in DOMAIN index
        BY <1>3, <2>0, <2>1 DEF OnePlace, Held
    <3>2. \A i \in DOMAIN channel' : channel'[i] # k
      <4> SUFFICES ASSUME NEW i \in DOMAIN channel', channel'[i] = k PROVE FALSE
          OBVIOUS
      <4>1. i + 1 \in DOMAIN channel /\ channel[i + 1] = k /\ i # 0 /\ i \in Nat
          BY <1>3
      <4>2. i + 1 = 1
          BY <3>1, <4>1
      <4> QED
          BY <4>1, <4>2
    <3>3. \A v \in Workers : worker'[v].key = k <=> v = w
        BY <1>4, <2>1, <3>1
    <3>4. Held(k)'
        BY <3>3 DEF Held
    <3> QED
        BY <1>1, <3>1, <3>2, <3>3, <3>4 DEF OnePlace
  <2>2. CASE k # key
    <3>1. \A v \in Workers : worker'[v].key = k <=> worker[v].key = k
        BY <1>1, <1>4, <2>0, <2>2
    <3>2. (\E i \in DOMAIN channel' : channel'[i] = k) <=> (\E i \in DOMAIN channel : channel[i] = k)
        BY <1>3, <2>2
    <3>3. Held(k)' <=> Held(k)
        BY <1>1, <3>1, <3>2 DEF Held
    <3>4. \A i, j \in DOMAIN channel' : channel'[i] = k /\ channel'[j] = k => i = j
      <4> SUFFICES ASSUME NEW i \in DOMAIN channel', NEW j \in DOMAIN channel',
                          channel'[i] = k, channel'[j] = k
                   PROVE  i = j
          OBVIOUS
      <4>1. /\ i + 1 \in DOMAIN channel /\ channel[i + 1] = k /\ i \in Nat
            /\ j + 1 \in DOMAIN channel /\ channel[j + 1] = k /\ j \in Nat
          BY <1>3
      <4>2. i + 1 = j + 1
          BY <2>0, <4>1 DEF OnePlace
      <4> QED
          BY <4>1, <4>2
    <3> QED
        BY <1>1, <2>0, <3>1, <3>2, <3>3, <3>4 DEF OnePlace
  <2> QED
      BY <2>1, <2>2
<1>8. HeldOnce' /\ AllHeld'
    BY <1>0, <1>1, <1>7 DEF HeldOnce, AllHeld
<1>9. GrantsCounted'
  <2>1. \A k \in Keys : Unrecorded(k)' <=> Unrecorded(k)
    <3>1. \A v \in Workers : worker'[v].at = "paid" <=> worker[v].at = "paid"
        BY <1>1, <1>4
    <3>2. \A v \in Workers : worker'[v].at = "paid" => worker'[v].key = worker[v].key
        BY <1>4
    <3> QED
        BY <1>7, <3>1, <3>2 DEF Unrecorded
  <2>2. CountsKept
      BY <1>1 DEF CountsKept
  <2> QED
      BY <1>0, <2>1, <2>2, CountsStay
<1> QED
    BY <1>5, <1>6, <1>8, <1>9 DEF FaucetInv

\* A transfer is counted as paid and not yet as granted.
LEMMA TransferStep ==
    ASSUME FaucetInv, NEW w \in Workers, transfer(w) PROVE FaucetInv'
<1>0. QueueTypes /\ IndexLogged /\ WorkersKeyed /\ HeldOnce /\ AllHeld /\ GrantsCounted
    BY DEF FaucetInv
<1> DEFINE key == worker[w].key
<1>1. /\ worker' \in [Workers -> Worker]
      /\ worker'[w].at = "paid" /\ worker'[w].key = key
      /\ \A v \in Workers : v # w => worker'[v] = worker[v]
    BY <1>0, WorkerGoes DEF transfer
<1>2. /\ worker[w].at = "transferring" /\ key \in Keys
      /\ paid' = [paid EXCEPT ![key] = @ + 1]
      /\ UNCHANGED <<index, queue, channel, sending, wallet, accepted, restarts>>
    BY DEF transfer, At
<1>3. paid \in [Keys -> Nat] /\ paid' \in [Keys -> Nat]
    BY <1>0, <1>2 DEF QueueTypes
<1>4. QueueTypes' /\ IndexLogged'
    BY <1>0, <1>1, <1>2, <1>3 DEF QueueTypes, Worker, IndexLogged, KeyLogged, RequestLogged
<1>5. WorkersKeyed'
    BY <1>0, <1>1, <1>2 DEF WorkersKeyed
<1>6. PlacesKept
  <2>1. \A k \in Keys, v \in Workers : worker'[v].key = k <=> worker[v].key = k
      BY <1>1
  <2> QED
      BY <1>2, <2>1 DEF PlacesKept
<1>7. HeldOnce' /\ AllHeld' /\ \A k \in Keys : Held(k)' <=> Held(k)
    BY <1>0, <1>6, PlacesStay
<1>8. /\ key \in DOMAIN index /\ Held(key)
      /\ \A v \in Workers : v # w => worker[v].key # key
    BY <1>0, <1>2, ServedKey
<1>9. GrantsCounted'
  <2> SUFFICES ASSUME NEW k \in Keys PROVE GrantsOf(k)'
      BY DEF GrantsCounted
  <2>1. GrantsOf(k)
      BY <1>0 DEF GrantsCounted
  <2>2. Allowed(k)' = Allowed(k) /\ restarts' = restarts /\ index' = index
      BY <1>2 DEF Allowed
  <2>3. /\ paid[k] \in Nat /\ Allowed(k) \in Nat /\ restarts \in Nat
        /\ k \in DOMAIN index => index[k] \in 0 .. num_grants - 1
        /\ num_grants \in Nat
      BY <1>0, Numbers
  <2>4. CASE k = key
    <3>1. ~Unrecorded(k) /\ Unrecorded(k)'
        BY <1>1, <1>2, <1>8, <2>4 DEF Unrecorded
    <3>2. paid'[k] = paid[k] + 1
        BY <1>2, <1>3, <2>4
    <3> QED
        BY <1>8, <2>1, <2>2, <2>3, <2>4, <3>1, <3>2 DEF GrantsOf
  <2>5. CASE k # key
    <3>1. Unrecorded(k)' <=> Unrecorded(k)
        BY <1>1, <1>7, <2>5 DEF Unrecorded
    <3>2. paid'[k] = paid[k]
        BY <1>2, <1>3, <2>5
    <3>3. CASE Unrecorded(k)
        BY <2>1, <2>2, <3>1, <3>2, <3>3 DEF GrantsOf
    <3>4. CASE ~Unrecorded(k)
        BY <2>1, <2>2, <3>1, <3>2, <3>4 DEF GrantsOf
    <3> QED
        BY <3>3, <3>4
  <2> QED
      BY <2>4, <2>5
<1> QED
    BY <1>4, <1>5, <1>7, <1>9 DEF FaucetInv

\* A failed transfer: the key goes back to the end of the channel.
LEMMA FailStep ==
    ASSUME FaucetInv, NEW w \in Workers, transferFails(w) PROVE FaucetInv'
<1>0. QueueTypes /\ IndexLogged /\ WorkersKeyed /\ HeldOnce /\ AllHeld /\ GrantsCounted
    BY DEF FaucetInv
<1> DEFINE key == worker[w].key
           n == Len(channel) + 1
<1>1. /\ worker' \in [Workers -> Worker] /\ wallet' = NoKey
      /\ worker'[w].at = "waiting" /\ worker'[w].key = NoKey
      /\ \A v \in Workers : v # w => worker'[v] = worker[v]
    BY <1>0, WorkerWaits DEF transferFails
<1>2. /\ worker[w].at = "transferring" /\ channel' = Append(channel, key)
      /\ UNCHANGED <<index, queue, sending, accepted, paid, restarts>>
    BY DEF transferFails, At, resent
<1>3. channel \in Seq(AllKeys) /\ key \in AllKeys
    BY <1>0, <1>2 DEF QueueTypes, WorkersKeyed
<1>4. /\ DOMAIN channel' = DOMAIN channel \cup {n} /\ channel'[n] = key
      /\ n \notin DOMAIN channel /\ \A i \in DOMAIN channel : channel'[i] = channel[i]
      /\ channel' \in Seq(AllKeys)
    BY <1>2, <1>3
<1> HIDE DEF n
<1>5. QueueTypes' /\ IndexLogged'
    BY <1>0, <1>1, <1>2, <1>4 DEF QueueTypes, Worker, IndexLogged, KeyLogged, RequestLogged
<1>6. WorkersKeyed'
    BY <1>0, <1>1, <1>2 DEF WorkersKeyed
<1>7. ASSUME NEW k \in Keys PROVE (Held(k)' <=> Held(k)) /\ OnePlace(k)'
  <2>0. OnePlace(k) /\ k # NoKey
      BY <1>0, OtherKeys DEF HeldOnce
  <2>1. CASE k = key
    <3>1. /\ k \in DOMAIN index /\ Held(k) /\ k \notin sending
          /\ \A i \in DOMAIN channel : channel[i] # k
          /\ \A v \in Workers : v # w => worker[v].key # k
        BY <1>0, <2>1, ServedKey
    <3>2. \A v \in Workers : worker'[v].key # k
        BY <1>1, <2>0, <3>1
    <3>3. \A i \in DOMAIN channel' : channel'[i] = k <=> i = n
        BY <1>4, <2>1, <3>1
    <3>4. Held(k)'
        BY <1>4, <3>3 DEF Held
    <3> QED
        BY <1>2, <3>1, <3>2, <3>3, <3>4 DEF OnePlace
  <2>2. CASE k # key
    <3>1. \A v \in Workers : worker'[v].key = k <=> worker[v].key = k
        BY <1>1, <2>0, <2>2
    <3>2. \A i \in DOMAIN channel' : channel'[i] = k <=> i \in DOMAIN channel /\ channel[i] = k
        BY <1>4, <2>2
    <3>3. Held(k)' <=> Held(k)
        BY <1>2, <1>4, <3>1, <3>2 DEF Held
    <3> QED
        BY <1>2, <1>4, <2>0, <3>1, <3>2, <3>3 DEF OnePlace
  <2> QED
      BY <2>1, <2>2
<1>8. HeldOnce' /\ AllHeld'
    BY <1>0, <1>2, <1>7 DEF HeldOnce, AllHeld
<1>9. GrantsCounted'
  <2>1. \A k \in Keys : Unrecorded(k)' <=> Unrecorded(k)
    <3>1. \A v \in Workers : worker'[v].at = "paid" <=> worker[v].at = "paid"
        BY <1>1, <1>2
    <3>2. \A v \in Workers : worker'[v].at = "paid" => worker'[v].key = worker[v].key
        BY <1>1
    <3> QED
        BY <1>7, <3>1, <3>2 DEF Unrecorded
  <2>2. CountsKept
      BY <1>2 DEF CountsKept
  <2> QED
      BY <1>0, <2>1, <2>2, CountsStay
<1> QED
    BY <1>5, <1>6, <1>8, <1>9 DEF FaucetInv

\* The last grant of a request: its key leaves the index and the worker.
LEMMA LastGrantStep ==
    ASSUME FaucetInv, NEW w \in Workers, worker[w].at = "paid",
           index[worker[w].key] + 1 >= num_grants, RemoveKey(worker[w].key), Waits(w),
           UNCHANGED <<channel, sending, accepted, paid, restarts>>
    PROVE  FaucetInv'
<1>0. QueueTypes /\ IndexLogged /\ WorkersKeyed /\ HeldOnce /\ AllHeld /\ GrantsCounted
    BY DEF FaucetInv
<1> DEFINE key == worker[w].key
<1>1. /\ worker' \in [Workers -> Worker] /\ wallet' = NoKey
      /\ worker'[w].at = "waiting" /\ worker'[w].key = NoKey
      /\ \A v \in Workers : v # w => worker'[v] = worker[v]
    BY <1>0, WorkerWaits
<1>2. key \in Keys
    BY <1>0 DEF WorkersKeyed
<1>3. /\ key \in DOMAIN index /\ Held(key) /\ key \notin sending
      /\ \A i \in DOMAIN channel : channel[i] # key
      /\ \A v \in Workers : v # w => worker[v].key # key
    BY <1>0, <1>2, ServedKey
<1>4. /\ LogTypes' /\ IndexLogged'
      /\ DOMAIN index' = DOMAIN index \ {key}
      /\ \A k \in DOMAIN index' : index'[k] = index[k]
    BY <1>0, <1>2, LogRemove, OtherKeys
<1>5. QueueTypes'
    BY <1>0, <1>1, <1>4 DEF QueueTypes, LogTypes, Worker
<1>6. WorkersKeyed'
    BY <1>0, <1>1 DEF WorkersKeyed
<1>7. ASSUME NEW k \in Keys PROVE (Held(k)' <=> Held(k) /\ k # key) /\ OnePlace(k)'
  <2>0. OnePlace(k) /\ k # NoKey
      BY <1>0, OtherKeys DEF HeldOnce
  <2>1. CASE k = key
    <3>1. \A v \in Workers : worker'[v].key # k
        BY <1>1, <1>3, <2>0, <2>1
    <3>2. ~Held(k)'
        BY <1>3, <2>1, <3>1 DEF Held
    <3> QED
        BY <1>3, <2>1, <3>1, <3>2 DEF OnePlace
  <2>2. CASE k # key
    <3>1. \A v \in Workers : worker'[v].key = k <=> worker[v].key = k
        BY <1>1, <2>0, <2>2
    <3>2. Held(k)' <=> Held(k)
        BY <3>1 DEF Held
    <3> QED
        BY <1>4, <2>0, <2>2, <3>1, <3>2 DEF OnePlace
  <2> QED
      BY <2>1, <2>2
<1>8. HeldOnce' /\ AllHeld'
    BY <1>0, <1>4, <1>7 DEF HeldOnce, AllHeld
<1>9. GrantsCounted'
  <2> SUFFICES ASSUME NEW k \in Keys PROVE GrantsOf(k)'
      BY DEF GrantsCounted
  <2>1. GrantsOf(k)
      BY <1>0 DEF GrantsCounted
  <2>2. Allowed(k)' = Allowed(k) /\ restarts' = restarts /\ paid' = paid
      BY DEF Allowed
  <2>3. CASE k = key
    <3>1. /\ paid[k] \in Nat /\ Allowed(k) \in Nat /\ restarts \in Nat
          /\ index[k] \in 0 .. num_grants - 1 /\ num_grants \in Nat
        BY <1>0, <1>3, <2>3, Numbers
    <3>2. paid[k] + num_grants <= Allowed(k) + index[k] + restarts + 1
      <4>1. Unrecorded(k)
          BY <2>3 DEF Unrecorded
      <4> QED
          BY <1>3, <2>1, <2>3, <4>1 DEF GrantsOf
    <3>3. paid[k] <= Allowed(k) + restarts
        BY <3>1, <3>2
    <3> QED
        BY <1>4, <2>2, <2>3, <3>3 DEF GrantsOf
  <2>4. CASE k # key
    <3>1. Unrecorded(k)' <=> Unrecorded(k)
        BY <1>1, <1>7, <2>4 DEF Unrecorded
    <3>2. CASE Unrecorded(k)
        BY <1>4, <2>1, <2>2, <2>4, <3>1, <3>2 DEF GrantsOf
    <3>3. CASE ~Unrecorded(k)
        BY <1>4, <2>1, <2>2, <2>4, <3>1, <3>3 DEF GrantsOf
    <3> QED
        BY <3>2, <3>3
  <2> QED
      BY <2>3, <2>4
<1> QED
    BY <1>4, <1>5, <1>6, <1>8, <1>9 DEF FaucetInv

\* Any other grant: its worker keeps the key.
LEMMA NextGrantStep ==
    ASSUME FaucetInv, NEW w \in Workers, worker[w].at = "paid",
           ~(index[worker[w].key] + 1 >= num_grants),
           SetGrants(worker[w].key, index[worker[w].key] + 1), Goes(w, "ready"), wallet' = NoKey,
           UNCHANGED <<channel, sending, accepted, paid, restarts>>
    PROVE  FaucetInv'
<1>0. QueueTypes /\ IndexLogged /\ WorkersKeyed /\ HeldOnce /\ AllHeld /\ GrantsCounted
    BY DEF FaucetInv
<1> DEFINE key == worker[w].key
           n == index[key] + 1
<1>1. /\ worker' \in [Workers -> Worker]
      /\ worker'[w].at = "ready" /\ worker'[w].key = key
      /\ \A v \in Workers : v # w => worker'[v] = worker[v]
    BY <1>0, WorkerGoes
<1>2. key \in Keys
    BY <1>0 DEF WorkersKeyed
<1>3. /\ key \in DOMAIN index /\ Held(key)
      /\ \A v \in Workers : v # w => worker[v].key # key
    BY <1>0, <1>2, ServedKey
<1>4. n \in 0 .. num_grants - 1 /\ index[key] \in Nat
    BY <1>0, <1>2, <1>3, Numbers
<1>5. /\ LogTypes' /\ IndexLogged'
      /\ DOMAIN index' = DOMAIN index \cup {key} /\ index'[key] = n
      /\ \A k \in DOMAIN index : k # key => index'[k] = index[k]
    BY <1>0, <1>2, <1>3, <1>4, LogSet, OtherKeys
<1>6. QueueTypes'
    BY <1>0, <1>1, <1>5 DEF QueueTypes, LogTypes, Worker
<1>7. WorkersKeyed'
    BY <1>0, <1>1 DEF WorkersKeyed
<1>8. HeldOnce' /\ AllHeld' /\ \A k \in Keys : Held(k)' <=> Held(k)
  <2>1. \A k \in Keys, v \in Workers : worker'[v].key = k <=> worker[v].key = k
      BY <1>1
  <2>2. PlacesKept
      BY <1>3, <1>5, <2>1 DEF PlacesKept
  <2> QED
      BY <1>0, <2>2, PlacesStay
<1>9. GrantsCounted'
  <2> SUFFICES ASSUME NEW k \in Keys PROVE GrantsOf(k)'
      BY DEF GrantsCounted
  <2>1. GrantsOf(k)
      BY <1>0 DEF GrantsCounted
  <2>2. Allowed(k)' = Allowed(k) /\ restarts' = restarts /\ paid' = paid
      BY DEF Allowed
  <2>3. CASE k = key
    <3>1. /\ paid[k] \in Nat /\ Allowed(k) \in Nat /\ restarts \in Nat /\ num_grants \in Nat
        BY <1>0, Numbers
    <3>2. paid[k] + num_grants <= Allowed(k) + index[k] + restarts + 1
      <4>1. Unrecorded(k)
          BY <2>3 DEF Unrecorded
      <4> QED
          BY <1>3, <2>1, <2>3, <4>1 DEF GrantsOf
    <3>3. paid[k] + num_grants <= Allowed(k) + (index[k] + 1) + restarts
        BY <1>4, <2>3, <3>1, <3>2
    <3>4. index'[k] = index[k] + 1 /\ k \in DOMAIN index'
        BY <1>5, <2>3
    <3>5. ~Unrecorded(k)'
        BY <1>1, <1>3, <1>8, <2>3 DEF Unrecorded
    <3> QED
        BY <1>4, <2>2, <2>3, <3>1, <3>3, <3>4, <3>5 DEF GrantsOf
  <2>4. CASE k # key
    <3>1. Unrecorded(k)' <=> Unrecorded(k)
        BY <1>1, <1>8, <2>4 DEF Unrecorded
    <3>2. CASE Unrecorded(k)
        BY <1>5, <2>1, <2>2, <2>4, <3>1, <3>2 DEF GrantsOf
    <3>3. CASE ~Unrecorded(k)
        BY <1>5, <2>1, <2>2, <2>4, <3>1, <3>3 DEF GrantsOf
    <3> QED
        BY <3>2, <3>3
  <2> QED
      BY <2>3, <2>4
<1> QED
    BY <1>5, <1>6, <1>7, <1>8, <1>9 DEF FaucetInv

\* The grant is not recorded: its key is nowhere until the next restart.
LEMMA GrantFailsStep ==
    ASSUME FaucetInv, NEW w \in Workers, grantFails(w) PROVE FaucetInv'
<1>0. QueueTypes /\ IndexLogged /\ WorkersKeyed /\ HeldOnce /\ AllHeld /\ GrantsCounted
    BY DEF FaucetInv
<1> DEFINE key == worker[w].key
<1>1. /\ worker' \in [Workers -> Worker] /\ wallet' = NoKey
      /\ worker'[w].at = "waiting" /\ worker'[w].key = NoKey
      /\ \A v \in Workers : v # w => worker'[v] = worker[v]
    BY <1>0, WorkerWaits DEF grantFails
<1>2. /\ StoreMayFail /\ worker[w].at = "paid"
      /\ UNCHANGED <<index, queue, channel, sending, accepted, paid, restarts>>
    BY DEF grantFails, At
<1>3. key \in Keys
    BY <1>0, <1>2 DEF WorkersKeyed
<1>4. /\ key \in DOMAIN index /\ key \notin sending
      /\ \A i \in DOMAIN channel : channel[i] # key
      /\ \A v \in Workers : v # w => worker[v].key # key
    BY <1>0, <1>3, ServedKey
<1>5. QueueTypes' /\ IndexLogged'
    BY <1>0, <1>1, <1>2 DEF QueueTypes, Worker, IndexLogged, KeyLogged, RequestLogged
<1>6. WorkersKeyed'
    BY <1>0, <1>1, <1>2 DEF WorkersKeyed
<1>7. ASSUME NEW k \in Keys PROVE (Held(k)' <=> Held(k) /\ k # key) /\ OnePlace(k)'
  <2>0. OnePlace(k) /\ k # NoKey
      BY <1>0, OtherKeys DEF HeldOnce
  <2>1. CASE k = key
    <3>1. \A v \in Workers : worker'[v].key # k
        BY <1>1, <1>4, <2>0, <2>1
    <3>2. ~Held(k)'
        BY <1>2, <1>4, <2>1, <3>1 DEF Held
    <3> QED
        BY <1>2, <1>4, <2>1, <3>1, <3>2 DEF OnePlace
  <2>2. CASE k # key
    <3>1. \A v \in Workers : worker'[v].key = k <=> worker[v].key = k
        BY <1>1, <2>0, <2>2
    <3>2. Held(k)' <=> Held(k)
        BY <1>2, <3>1 DEF Held
    <3> QED
        BY <1>2, <2>0, <2>2, <3>1, <3>2 DEF OnePlace
  <2> QED
      BY <2>1, <2>2
<1>8. HeldOnce' /\ AllHeld'
    BY <1>2, <1>7 DEF HeldOnce, AllHeld
<1>9. GrantsCounted'
  <2>1. \A k \in Keys : Unrecorded(k)' <=> Unrecorded(k)
    <3> TAKE k \in Keys
    <3>1. CASE k = key
        BY <1>2, <1>7, <3>1 DEF Unrecorded
    <3>2. CASE k # key
        BY <1>1, <1>7, <3>2 DEF Unrecorded
    <3> QED
        BY <3>1, <3>2
  <2>2. CountsKept
      BY <1>2 DEF CountsKept
  <2> QED
      BY <1>0, <2>1, <2>2, CountsStay
<1> QED
    BY <1>5, <1>6, <1>8, <1>9 DEF FaucetInv

\* A grant is the last one or not.
LEMMA GrantStep ==
    ASSUME FaucetInv, NEW w \in Workers, grant(w) PROVE FaucetInv'
<1>1. worker[w].at = "paid" /\ UNCHANGED <<channel, sending, accepted, paid, restarts>>
    BY DEF grant, At
<1>2. \/ /\ index[worker[w].key] + 1 >= num_grants
         /\ RemoveKey(worker[w].key) /\ Waits(w)
      \/ /\ ~(index[worker[w].key] + 1 >= num_grants)
         /\ SetGrants(worker[w].key, index[worker[w].key] + 1)
         /\ Goes(w, "ready") /\ wallet' = NoKey
    BY DEF grant, lastGrant
<1> QED
    BY <1>1, <1>2, LastGrantStep, NextGrantStep

-----------------------------------------------------------------------------
(* The restart.                                                            *)

\* A key has one open request, the last of its Some(0) entries.
LEMMA OpenUnique ==
    ASSUME NEW q \in Seq(Entries), NEW i, IsOpen(q, i)
    PROVE  /\ i \in DOMAIN q /\ i \in Nat /\ q[i] = <<q[i][1], 0>>
           /\ \A j \in DOMAIN q : q[j] = <<q[i][1], 0>> => j <= i
           /\ \A j : IsOpen(q, j) /\ q[j][1] = q[i][1] => j = i
<1>1. i \in DOMAIN q /\ q[i][2] = 0 /\ DOMAIN q \subseteq Nat
         /\ \A j \in DOMAIN q : j > i /\ q[j][1] = q[i][1] => q[j][2] \notin {0, None}
    BY DEF IsOpen
<1>2. q[i] = <<q[i][1], 0>>
    BY <1>1 DEF Entries
<1>3. ASSUME NEW j \in DOMAIN q, q[j] = <<q[i][1], 0>> PROVE j <= i
  <2>1. q[j][1] = q[i][1] /\ q[j][2] = 0
      BY <1>3
  <2> QED
      BY <1>1, <2>1
<1>4. ASSUME NEW j, IsOpen(q, j), q[j][1] = q[i][1] PROVE j = i
  <2>1. j \in DOMAIN q /\ q[j][2] = 0
           /\ \A l \in DOMAIN q : l > j /\ q[l][1] = q[j][1] => q[l][2] \notin {0, None}
      BY <1>4 DEF IsOpen
  <2>2. ~(j > i) /\ ~(i > j)
      BY <1>1, <1>4, <2>1
  <2> QED
      BY <1>1, <2>1, <2>2
<1> QED
    BY <1>1, <1>2, <1>3, <1>4

\* A key whose request is open is in the index.
LEMMA OpenIndexed ==
    ASSUME QueueTypes, IndexLogged, NEW i, IsOpen(queue, i)
    PROVE  queue[i][1] \in DOMAIN index
<1>0. queue \in Seq(Entries)
    BY DEF QueueTypes
<1>1. i \in DOMAIN queue /\ queue[i][2] = 0 /\ DOMAIN queue \subseteq Nat
         /\ \A j \in DOMAIN queue : j > i /\ queue[j][1] = queue[i][1] => queue[j][2] # None
    BY <1>0 DEF IsOpen
<1>2. queue[i][1] \in AllKeys /\ queue[i][2] # None
    BY <1>0, <1>1, FaucetAssumption DEF Entries
<1>3. KeyLogged(queue[i][1])
    BY <1>2 DEF IndexLogged
<1>4. PICK l \in DOMAIN queue : /\ IsLatest(queue, queue[i][1], l)
                                /\ queue[i][1] \in DOMAIN index <=> queue[l][2] # None
    BY <1>1, <1>3 DEF KeyLogged
<1>5. i <= l /\ queue[l][1] = queue[i][1]
    BY <1>1, <1>4 DEF IsLatest
<1>6. queue[l][2] # None
    BY <1>1, <1>2, <1>4, <1>5
<1> QED
    BY <1>4, <1>6

\* load gives back the index, and a channel with each of its keys once.
LEMMA LoadRecovers ==
    ASSUME QueueTypes, IndexLogged
    PROVE  /\ load(queue).index = index
           /\ load(queue).channel \in Seq(AllKeys)
           /\ \E pos : OldestOpen(queue, load(queue).channel, pos)
           /\ \A x, y \in DOMAIN load(queue).channel :
                 load(queue).channel[x] = load(queue).channel[y] => x = y
           /\ \A k : k \in DOMAIN index <=>
                 \E x \in DOMAIN load(queue).channel : load(queue).channel[x] = k
<1> DEFINE back == load(queue).channel
           loaded == load(queue).index
<1>0. queue \in Seq(Entries) /\ DOMAIN index \subseteq AllKeys
         /\ index = [k \in DOMAIN index |-> index[k]]
    BY DEF QueueTypes
<1>1. /\ \A k : k \in DOMAIN loaded => \E i \in DOMAIN queue : queue[i][1] = k
      /\ \A k, i : IsLatest(queue, k, i) =>
            /\ k \in DOMAIN loaded <=> queue[i][2] # None
            /\ k \in DOMAIN loaded => loaded[k] = queue[i][2]
      /\ loaded = [k \in DOMAIN loaded |-> loaded[k]]
      /\ back \in Seq(AllKeys)
      /\ \E pos : OldestOpen(queue, back, pos)
    BY <1>0, LoadMeaning
<1> HIDE DEF back, loaded
<1>2. ASSUME NEW k
      PROVE  /\ k \in DOMAIN loaded <=> k \in DOMAIN index
             /\ k \in DOMAIN index => loaded[k] = index[k]
  <2>1. CASE k \notin AllKeys
      BY <1>0, <1>1, <2>1 DEF Entries
  <2>2. CASE k \in AllKeys /\ \A i \in DOMAIN queue : queue[i][1] # k
    <3>1. KeyLogged(k)
        BY <2>2 DEF IndexLogged
    <3>2. k \notin DOMAIN index
        BY <2>2, <3>1 DEF KeyLogged, IsLatest
    <3> QED
        BY <1>1, <2>2, <3>2
  <2>3. CASE k \in AllKeys /\ \E i \in DOMAIN queue : queue[i][1] = k
    <3>1. KeyLogged(k)
        BY <2>3 DEF IndexLogged
    <3>2. PICK i \in DOMAIN queue : /\ IsLatest(queue, k, i)
                                    /\ k \in DOMAIN index <=> queue[i][2] # None
                                    /\ k \in DOMAIN index => index[k] = queue[i][2]
        BY <2>3, <3>1 DEF KeyLogged
    <3> QED
        BY <1>1, <3>2
  <2> QED
      BY <2>1, <2>2, <2>3
<1>3. loaded = index
  <2>1. DOMAIN loaded = DOMAIN index
      BY <1>2
  <2> QED
      BY <1>0, <1>1, <1>2, <2>1
<1>4. PICK pos : OldestOpen(queue, back, pos)
    BY <1>1
<1>5. /\ pos \in [DOMAIN back -> DOMAIN queue]
      /\ \A x \in DOMAIN back : IsOpen(queue, pos[x]) /\ queue[pos[x]][1] = back[x]
      /\ \A x, y \in DOMAIN back : x < y => pos[x] < pos[y]
      /\ \A i \in DOMAIN queue : IsOpen(queue, i) => \E x \in DOMAIN back : pos[x] = i
    BY <1>4 DEF OldestOpen
<1>6. ASSUME NEW x \in DOMAIN back, NEW y \in DOMAIN back, back[x] = back[y] PROVE x = y
  <2>1. pos[x] = pos[y]
      BY <1>0, <1>5, <1>6, OpenUnique
  <2>2. x \in Nat /\ y \in Nat /\ pos[x] \in Nat /\ pos[y] \in Nat
      BY <1>0, <1>1, <1>5
  <2>3. ~(x < y) /\ ~(y < x)
      BY <1>5, <2>1, <2>2
  <2> QED
      BY <2>2, <2>3
<1>7. ASSUME NEW k, k \in DOMAIN index PROVE \E x \in DOMAIN back : back[x] = k
  <2>1. PICK i \in DOMAIN queue : IsOpen(queue, i) /\ queue[i][1] = k
      BY <1>7 DEF IndexLogged, RequestLogged
  <2>2. PICK x \in DOMAIN back : pos[x] = i
      BY <1>5, <2>1
  <2> QED
      BY <1>5, <2>1, <2>2
<1>8. ASSUME NEW x \in DOMAIN back PROVE back[x] \in DOMAIN index
    BY <1>5, OpenIndexed
<1> QED
    BY <1>1, <1>3, <1>6, <1>7, <1>8 DEF back, loaded

\* A restart: each key of the index is once in the channel, and at most one
\* transfer to it was not recorded.
LEMMA RestartStep ==
    ASSUME FaucetInv, restart PROVE FaucetInv'
<1>0. QueueTypes /\ IndexLogged /\ WorkersKeyed /\ HeldOnce /\ AllHeld /\ GrantsCounted
    BY DEF FaucetInv
<1>1. /\ restarts < MaxRestarts /\ restarts' = restarts + 1
      /\ index' = load(queue).index /\ channel' = load(queue).channel
      /\ sending' = {} /\ wallet' = NoKey
      /\ UNCHANGED <<queue, accepted, paid>>
    BY DEF restart
<1>2. /\ worker' \in [Workers -> Worker]
      /\ \A w \in Workers : worker'[w].at = "waiting" /\ worker'[w].key = NoKey
    BY DEF restart, Idle, Worker
<1>3. /\ index' = index /\ channel' \in Seq(AllKeys)
      /\ \A x, y \in DOMAIN channel' : channel'[x] = channel'[y] => x = y
      /\ \A k : k \in DOMAIN index <=> \E x \in DOMAIN channel' : channel'[x] = k
    BY <1>0, <1>1, LoadRecovers
<1>4. QueueTypes'
  <2>1. restarts \in 0 .. MaxRestarts /\ MaxRestarts \in Nat
      BY <1>0, FaucetAssumption DEF QueueTypes
  <2>2. restarts' \in 0 .. MaxRestarts
      BY <1>1, <2>1
  <2> QED
      BY <1>0, <1>1, <1>2, <1>3, <2>2 DEF QueueTypes, Worker
<1>5. IndexLogged'
    BY <1>0, <1>1, <1>3 DEF IndexLogged, KeyLogged, RequestLogged
<1>6. WorkersKeyed'
    BY <1>2 DEF WorkersKeyed
<1>7. \A k \in Keys : /\ Held(k)' <=> k \in DOMAIN index'
                      /\ ~\E w \in Workers : worker'[w].key = k
    BY <1>1, <1>2, <1>3, OtherKeys DEF Held
<1>8. HeldOnce' /\ AllHeld'
    BY <1>1, <1>3, <1>7 DEF HeldOnce, OnePlace, AllHeld
<1>9. GrantsCounted'
  <2> SUFFICES ASSUME NEW k \in Keys PROVE GrantsOf(k)'
      BY DEF GrantsCounted
  <2>1. GrantsOf(k)
      BY <1>0 DEF GrantsCounted
  <2>2. Allowed(k)' = Allowed(k) /\ paid' = paid
      BY <1>1 DEF Allowed
  <2>3. /\ paid[k] \in Nat /\ Allowed(k) \in Nat /\ restarts \in Nat
        /\ k \in DOMAIN index => index[k] \in 0 .. num_grants - 1
        /\ num_grants \in Nat
      BY <1>0, Numbers
  <2>4. CASE k \notin DOMAIN index
      BY <1>1, <1>3, <2>1, <2>2, <2>3, <2>4 DEF GrantsOf
  <2>5. CASE k \in DOMAIN index
    <3>1. paid[k] + num_grants <= Allowed(k) + index[k] + restarts + 1
      <4>1. CASE Unrecorded(k)
          BY <2>1, <2>5, <4>1 DEF GrantsOf
      <4>2. CASE ~Unrecorded(k)
          BY <2>1, <2>3, <2>5, <4>2 DEF GrantsOf
      <4> QED
          BY <4>1, <4>2
    <3>2. ~Unrecorded(k)'
        BY <1>3, <1>7, <2>5 DEF Unrecorded
    <3> QED
        BY <1>1, <1>3, <2>2, <2>3, <2>5, <3>1, <3>2 DEF GrantsOf
  <2> QED
      BY <2>4, <2>5
<1> QED
    BY <1>4, <1>5, <1>6, <1>8, <1>9 DEF FaucetInv

-----------------------------------------------------------------------------
(* The theorems.                                                           *)

\* FaucetInv is inductive.
LEMMA FaucetInductive == Spec => []FaucetInv
<1>1. ASSUME FaucetInv, [Next]_vars PROVE FaucetInv'
  <2>1. CASE \E k \in Keys : request_fee_assets(k)
      BY <1>1, <2>1, PushStep DEF request_fee_assets
  <2>2. CASE \E k \in Keys : send(k)
      BY <1>1, <2>2, SendStep
  <2>3. CASE healthcheckInserts \/ healthcheckRemoves
      BY <1>1, <2>3, HealthcheckStep
  <2>4. CASE \E w \in Workers : Step(w)
      BY <1>1, <2>4, PopStep, LockStep, TransferStep, NoKeyStep, FailStep, GrantStep,
         GrantFailsStep DEF Step
  <2>5. CASE startWorkers \/ UNCHANGED vars
      BY <1>1, <2>5, StartStep
  <2>6. CASE restart
      BY <1>1, <2>6, RestartStep
  <2> QED
      BY <1>1, <2>1, <2>2, <2>3, <2>4, <2>5, <2>6 DEF Next
<1> QED
    BY <1>1, InitInv, PTL DEF Spec

\* serving and checking are only set to TRUE and FALSE.
LEMMA FlagsInductive == Spec => []({serving, checking} \subseteq BOOLEAN)
<1>1. Init => {serving, checking} \subseteq BOOLEAN
    BY DEF Init
<1>2. ASSUME {serving, checking} \subseteq BOOLEAN, [Next]_vars
      PROVE  ({serving, checking} \subseteq BOOLEAN)'
  <2>1. /\ serving' \in {serving, TRUE, FALSE}
        /\ checking' \in {checking, TRUE, FALSE}
      BY <1>2 DEF Next, vars, request_fee_assets, push, send, healthcheckInserts,
         healthcheckRemoves, Step, pop, lockWallet, transfer, transferFindsNoKey,
         transferFails, grant, grantFails, startWorkers, restart
  <2> QED
      BY <1>2, <2>1
<1> QED
    BY <1>1, <1>2, PTL DEF Spec

(***************************************************************************)
(* The faucet's state stays well-typed; in particular a key of the index   *)
(* always has fewer grants than it may have (faucet.rs grant).             *)
(***************************************************************************)
THEOREM FaucetTypesCorrect == Spec => []TypeOK
<1>1. FaucetInv /\ {serving, checking} \subseteq BOOLEAN => TypeOK
    BY DEF FaucetInv, QueueTypes, TypeOK, Entries, Grants
<1> QED
    BY <1>1, FaucetInductive, FlagsInductive, PTL

(***************************************************************************)
(* Whatever the workers, the requests, the health checks and the restarts  *)
(* do, a key receives num_grants transfers for each request accepted, and  *)
(* at most one more for each restart (faucet.rs worker, grant, load).      *)
(***************************************************************************)
THEOREM FaucetGrantsBounded == Spec => []GrantsBounded
<1>1. FaucetInv => GrantsBounded
  <2> SUFFICES ASSUME FaucetInv, NEW k \in Keys
               PROVE  paid[k] <= num_grants * accepted[k] + restarts
      BY DEF GrantsBounded
  <2>1. GrantsOf(k) /\ QueueTypes
      BY DEF FaucetInv, GrantsCounted
  <2>2. /\ paid[k] \in Nat /\ Allowed(k) \in Nat /\ restarts \in Nat
        /\ k \in DOMAIN index => index[k] \in 0 .. num_grants - 1
        /\ num_grants \in Nat
      BY <2>1, Numbers
  <2>3. paid[k] <= Allowed(k) + restarts
    <3>1. CASE k \notin DOMAIN index
        BY <2>1, <3>1 DEF GrantsOf
    <3>2. CASE k \in DOMAIN index /\ Unrecorded(k)
        BY <2>1, <2>2, <3>2 DEF GrantsOf
    <3>3. CASE k \in DOMAIN index /\ ~Unrecorded(k)
        BY <2>1, <2>2, <3>3 DEF GrantsOf
    <3> QED
        BY <3>1, <3>2, <3>3
  <2> QED
      BY <2>3 DEF Allowed
<1> QED
    BY <1>1, FaucetInductive, PTL

(***************************************************************************)
(* At any moment the process may die, load would give back the index as it *)
(* is in memory, and a channel with its keys in the order of their latest  *)
(* requests (faucet.rs load and the comment at 266-276).                   *)
(***************************************************************************)
THEOREM FaucetLoadMatchesReplay == Spec => []LoadMatchesReplay
<1>1. FaucetInv => LoadMatchesReplay
  <2> SUFFICES ASSUME FaucetInv PROVE LoadMatchesReplay
      OBVIOUS
  <2> DEFINE latest(k) == CHOOSE i \in DOMAIN queue :
                        queue[i][1] = k /\ \A j \in DOMAIN queue : queue[j][1] = k => j <= i
             requested(k) == CHOOSE i \in DOMAIN queue :
                          queue[i] = <<k, 0>> /\ \A j \in DOMAIN queue : queue[j] = <<k, 0>> => j <= i
             back == load(queue).channel
  <2>0. /\ QueueTypes /\ IndexLogged /\ queue \in Seq(Entries) /\ DOMAIN queue \subseteq Nat
        /\ DOMAIN index \subseteq AllKeys
      BY DEF FaucetInv, QueueTypes
  <2>1. /\ load(queue).index = index /\ back \in Seq(AllKeys)
        /\ \E pos : OldestOpen(queue, back, pos)
        /\ \A k : k \in DOMAIN index <=> \E x \in DOMAIN back : back[x] = k
      BY <2>0, LoadRecovers
  <2>2. \A k \in DOMAIN index : index[k] = queue[latest(k)][2]
    <3> SUFFICES ASSUME NEW k \in DOMAIN index PROVE index[k] = queue[latest(k)][2]
        OBVIOUS
    <3>1. KeyLogged(k)
        BY <2>0 DEF IndexLogged
    <3>2. PICK i \in DOMAIN queue : IsLatest(queue, k, i) /\ index[k] = queue[i][2]
        BY <3>1 DEF KeyLogged
    <3>3. queue[i][1] = k /\ \A j \in DOMAIN queue : queue[j][1] = k => j <= i
        BY <3>2 DEF IsLatest
    <3>4. /\ latest(k) \in DOMAIN queue /\ queue[latest(k)][1] = k
          /\ \A j \in DOMAIN queue : queue[j][1] = k => j <= latest(k)
        BY <3>2, <3>3
    <3> HIDE DEF latest
    <3>5. latest(k) <= i /\ i <= latest(k) /\ latest(k) \in Nat /\ i \in Nat
        BY <2>0, <3>2, <3>3, <3>4
    <3>6. latest(k) = i
        BY <3>5
    <3> QED
        BY <3>2, <3>6
  <2>3. ToSet(back) = DOMAIN index
    <3>1. \A k : k \in ToSet(back) <=> \E x \in DOMAIN back : back[x] = k
        BY DEF ToSet
    <3> QED
        BY <2>1, <3>1
  <2>4. PICK pos : OldestOpen(queue, back, pos)
      BY <2>1
  <2> HIDE DEF back
  <2>5. /\ \A x \in DOMAIN back : IsOpen(queue, pos[x]) /\ queue[pos[x]][1] = back[x]
        /\ \A x, y \in DOMAIN back : x < y => pos[x] < pos[y]
      BY <2>4 DEF OldestOpen
  <2>6. \A x \in DOMAIN back : requested(back[x]) = pos[x]
    <3> SUFFICES ASSUME NEW x \in DOMAIN back PROVE requested(back[x]) = pos[x]
        OBVIOUS
    <3> DEFINE k == back[x]
               i == pos[x]
    <3>1. /\ i \in DOMAIN queue /\ i \in Nat /\ queue[i] = <<k, 0>>
          /\ \A j \in DOMAIN queue : queue[j] = <<k, 0>> => j <= i
        BY <2>0, <2>5, OpenUnique
    <3> HIDE DEF k, i
    <3>2. /\ requested(k) \in DOMAIN queue /\ queue[requested(k)] = <<k, 0>>
          /\ \A j \in DOMAIN queue : queue[j] = <<k, 0>> => j <= requested(k)
        BY <3>1
    <3> HIDE DEF requested
    <3>3. requested(k) <= i /\ i <= requested(k) /\ requested(k) \in Nat
        BY <2>0, <3>1, <3>2
    <3>4. requested(k) = i
        BY <3>1, <3>3
    <3> QED
        BY <3>4 DEF k, i
  <2>7. \A x, y \in DOMAIN back : x < y => requested(back[x]) < requested(back[y])
      BY <2>5, <2>6
  <2> QED
      BY <2>1, <2>2, <2>3, <2>7 DEF LoadMatchesReplay, back
<1> QED
    BY <1>1, FaucetInductive, PTL

\* Where a key is, when it is in one place at most.
LEMMA PlacesOfKey ==
    ASSUME FaucetInv, NEW k \in Keys
    PROVE  /\ Held(k) => Cardinality(Places(k)) = 1
           /\ ~Held(k) => Cardinality(Places(k)) = 0
<1>0. OnePlace(k)
    BY DEF FaucetInv, HeldOnce
<1> DEFINE inChannel == {j \in DOMAIN channel : channel[j] = k}
           inSending == sending \cap {k}
           atWorkers == {v \in Workers : worker[v].key = k}
<1>1. \A x : x \in Places(k) <=> \/ \E i \in inChannel : x = <<"channel", i>>
                                 \/ \E h \in inSending : x = <<"sending", h>>
                                 \/ \E w \in atWorkers : x = <<"worker", w>>
    BY DEF Places
<1>2. CASE ~Held(k)
  <2>1. inChannel = {} /\ inSending = {} /\ atWorkers = {}
      BY <1>2 DEF Held
  <2> HIDE DEF inChannel, inSending, atWorkers
  <2>2. Places(k) = {}
      BY <1>1, <2>1
  <2> QED
      BY <1>2, <2>2, FS_EmptySet
<1>3. ASSUME NEW i \in DOMAIN channel, channel[i] = k
      PROVE  Cardinality(Places(k)) = 1
  <2>1. inChannel = {i} /\ inSending = {} /\ atWorkers = {}
      BY <1>0, <1>3 DEF OnePlace
  <2> HIDE DEF inChannel, inSending, atWorkers
  <2>2. Places(k) = {<<"channel", i>>}
      BY <1>1, <2>1
  <2> QED
      BY <2>2, FS_Singleton
<1>4. ASSUME k \in sending PROVE Cardinality(Places(k)) = 1
  <2>1. inChannel = {} /\ inSending = {k} /\ atWorkers = {}
      BY <1>0, <1>4 DEF OnePlace
  <2> HIDE DEF inChannel, inSending, atWorkers
  <2>2. Places(k) = {<<"sending", k>>}
      BY <1>1, <2>1
  <2> QED
      BY <2>2, FS_Singleton
<1>5. ASSUME NEW w \in Workers, worker[w].key = k PROVE Cardinality(Places(k)) = 1
  <2>1. inChannel = {} /\ inSending = {} /\ atWorkers = {w}
      BY <1>0, <1>5 DEF OnePlace
  <2> HIDE DEF inChannel, inSending, atWorkers
  <2>2. Places(k) = {<<"worker", w>>}
      BY <1>1, <2>1
  <2> QED
      BY <2>2, FS_Singleton
<1> QED
    BY <1>2, <1>3, <1>4, <1>5 DEF Held

(***************************************************************************)
(* No key waits or is served in two places at a time, or outside of the    *)
(* index, for any number of keys and workers; and while grants can be      *)
(* recorded, every key of the index is somewhere (faucet.rs push, pop,     *)
(* fail, grant, load).                                                     *)
(***************************************************************************)
THEOREM FaucetKeysHeld == Spec => []KeysHeld
<1>1. FaucetInv => KeysHeld
  <2> SUFFICES ASSUME FaucetInv PROVE KeysHeld
      OBVIOUS
  <2>1. \A k \in Keys : /\ Held(k) => k \in DOMAIN index
                        /\ ~StoreMayFail /\ k \in DOMAIN index => Held(k)
      BY DEF FaucetInv, HeldOnce, OnePlace, AllHeld
  <2>2. \A k \in Keys : /\ Held(k) => Cardinality(Places(k)) = 1
                        /\ ~Held(k) => Cardinality(Places(k)) = 0
      BY PlacesOfKey
  <2> QED
      BY <2>1, <2>2 DEF KeysHeld, IndexedKeysHeld
<1> QED
    BY <1>1, FaucetInductive, PTL
=============================================================================
