---------------------------- MODULE CAPEProofs ----------------------------
(***************************************************************************)
(* For every set of users, tokens, assets and notes, and any number of     *)
(* blocks: what the contract guarantees.                                   *)
(***************************************************************************)
EXTENDS CAPE, ListProofs, FiniteSetTheorems

-----------------------------------------------------------------------------
(* The root store, for every size of the buffer and every set of roots: it *)
(* keeps exactly the latest NRoots roots, and implements RootWindow.       *)

\* The write head moves to the next slot, and from the last one to slot 0.
LEMMA NextSlot ==
    ASSUME NEW w \in Slots
    PROVE  (w + 1) % NRoots = IF w + 1 = NRoots THEN 0 ELSE w + 1
<1>1. NRoots \in Nat /\ NRoots > 1
  BY RootStoreAssumption
<1>2. CASE w + 1 = NRoots
  BY <1>1, <1>2, SMT
<1>3. CASE w + 1 # NRoots
  <2>1. w + 1 \in 0 .. NRoots - 1
    BY <1>1, <1>3 DEF Slots
  <2>2. (w + 1) % NRoots = w + 1
    BY <1>1, <2>1, SMT
  <2> QED
    BY <1>3, <2>2
<1> QED
  BY <1>2, <1>3

\* The empty buffer satisfies the invariant.
LEMMA RootStoreInitInv == RootStoreInit => RootStoreInv
<1> SUFFICES ASSUME RootStoreInit PROVE RootStoreInv
  OBVIOUS
<1> USE RootStoreAssumption DEF RootStoreInit
<1>1. RootStoreTypeOK
  BY DEF RootStoreTypeOK, Slots
<1>2. SlotsInOrder
  BY DEF SlotsInOrder, AddedIn, Slots
<1>3. HeadCountsRoots
  BY DEF HeadCountsRoots
<1>4. KeptRootsDistinct
  BY DEF KeptRootsDistinct, OldestKept
<1>5. KeepsLatestRoots
  BY DEF KeepsLatestRoots, LatestRootSet, OldestKept
<1> QED
  BY <1>1, <1>2, <1>3, <1>4, <1>5 DEF RootStoreInv

\* _addRoot preserves the invariant, whoever calls it and for whatever root.
LEMMA AddRootInv ==
    ASSUME NEW r \in RootValues, RootStoreInv, AddRoot(r)
    PROVE  RootStoreInv'
<1> DEFINE n == Len(added)
           w == writeHead
<1>t. /\ NRoots \in Nat /\ NRoots > 1
      /\ ZeroRoot \notin RootValues
      /\ roots \in [Slots -> RootValues \cup {ZeroRoot}]
      /\ rootsMap \subseteq RootValues \cup {ZeroRoot}
      /\ w \in Slots
      /\ added \in Seq(RootValues)
      /\ n \in Nat
  BY RootStoreAssumption DEF RootStoreInv, RootStoreTypeOK
<1>h. writeHead' = IF w + 1 = NRoots THEN 0 ELSE w + 1
  BY <1>t, NextSlot DEF AddRoot
<1>a. /\ added' = Append(added, r)
      /\ Len(added') = n + 1
      /\ \A i \in 1 .. n : added'[i] = added[i]
      /\ added'[n + 1] = r
  BY <1>t DEF AddRoot
<1>1. RootStoreTypeOK'
  <2>1. writeHead' \in Slots
    BY <1>t, <1>h DEF Slots
  <2>2. added' \in Seq(RootValues)
    BY <1>t, <1>a
  <2>3. roots' \in [Slots -> RootValues \cup {ZeroRoot}]
    BY <1>t DEF AddRoot
  <2>4. rootsMap' \subseteq RootValues \cup {ZeroRoot}
    BY <1>t DEF AddRoot
  <2> QED
    BY <2>1, <2>2, <2>3, <2>4 DEF RootStoreTypeOK
<1>2. HeadCountsRoots'
  BY <1>t, <1>h, <1>a DEF HeadCountsRoots, RootStoreInv, Slots
<1>3. SlotsInOrder'
  <2> SUFFICES ASSUME NEW s \in Slots
               PROVE  roots'[s] = IF AddedIn(s)' >= 1 THEN added'[AddedIn(s)'] ELSE ZeroRoot
    BY DEF SlotsInOrder
  <2>1. CASE s = w
    <3>1. AddedIn(s)' = n + 1
      BY <2>1, <1>t, <1>h, <1>a DEF AddedIn, Slots
    <3>2. roots'[s] = r
      BY <2>1, <1>t DEF AddRoot
    <3> QED
      BY <3>1, <3>2, <1>a, <1>t
  <2>2. CASE s # w
    <3>1. roots'[s] = roots[s]
      BY <2>2, <1>t DEF AddRoot
    <3>2. AddedIn(s)' = AddedIn(s) /\ AddedIn(s) \in Int /\ AddedIn(s) <= n
      <4>1. CASE w + 1 = NRoots
        <5>1. writeHead' = 0 /\ s < w /\ ~(s < writeHead')
          BY <4>1, <2>2, <1>t, <1>h DEF Slots
        <5>2. s \in Int /\ w \in Int
          BY <1>t DEF Slots
        <5>3. AddedIn(s) = n - w + s + 1
          BY <5>1 DEF AddedIn
        <5>4. AddedIn(s)' = (n + 1) - 0 - NRoots + s + 1
          BY <5>1, <1>a DEF AddedIn
        <5> QED
          BY <5>1, <5>2, <5>3, <5>4, <4>1, <1>t
      <4>2. CASE w + 1 # NRoots
        <5>1. writeHead' = w + 1 /\ (s < writeHead' <=> s < w)
          BY <4>2, <2>2, <1>t, <1>h DEF Slots
        <5>2. s \in 0 .. NRoots - 1 /\ w \in Int
          BY <1>t DEF Slots
        <5>3. CASE s < w
          <6>1. AddedIn(s) = n - w + s + 1
            BY <5>3 DEF AddedIn
          <6>2. AddedIn(s)' = (n + 1) - (w + 1) + s + 1
            BY <5>1, <5>3, <1>a DEF AddedIn
          <6> QED
            BY <5>2, <5>3, <6>1, <6>2, <1>t
        <5>4. CASE ~(s < w)
          <6>1. AddedIn(s) = n - w - NRoots + s + 1
            BY <5>4 DEF AddedIn
          <6>2. AddedIn(s)' = (n + 1) - (w + 1) - NRoots + s + 1
            BY <5>1, <5>4, <1>a DEF AddedIn
          <6>3. n - w - NRoots + s + 1 <= n
            BY <5>2, <1>t DEF Slots
          <6> QED
            BY <5>2, <6>1, <6>2, <6>3, <1>t
        <5> QED
          BY <5>3, <5>4
      <4> QED
        BY <4>1, <4>2
    <3>3. roots[s] = IF AddedIn(s) >= 1 THEN added[AddedIn(s)] ELSE ZeroRoot
      BY DEF RootStoreInv, SlotsInOrder
    <3> QED
      BY <3>1, <3>2, <3>3, <1>a, <1>t
  <2> QED
    BY <2>1, <2>2
<1>k. /\ OldestKept \in 1 .. n + 1
      /\ OldestKept' = IF n >= NRoots THEN OldestKept + 1 ELSE OldestKept
      /\ n < NRoots => OldestKept = 1
      /\ n >= NRoots => OldestKept = n - NRoots + 1
  BY <1>t, <1>a DEF OldestKept
<1>f. \A i \in OldestKept .. n : added[i] # r
  BY <1>k, <1>t DEF AddRoot, RootStoreInv, KeepsLatestRoots, LatestRootSet
<1>4. KeptRootsDistinct'
  <2> SUFFICES ASSUME NEW i \in OldestKept' .. Len(added'),
                      NEW j \in OldestKept' .. Len(added'),
                      added'[i] = added'[j]
               PROVE  i = j
    BY DEF KeptRootsDistinct
  <2>1. CASE i = n + 1 \/ j = n + 1
    BY <2>1, <1>a, <1>k, <1>f, <1>t
  <2>2. CASE i \in OldestKept .. n /\ j \in OldestKept .. n
    BY <2>2, <1>a, <1>k, <1>t DEF RootStoreInv, KeptRootsDistinct
  <2> QED
    BY <2>1, <2>2, <1>a, <1>k, <1>t
<1>5. KeepsLatestRoots'
  <2>0. rootsMap = {added[i] : i \in OldestKept .. n}
    BY DEF RootStoreInv, KeepsLatestRoots, LatestRootSet
  <2>1. LatestRootSet' = {added'[i] : i \in OldestKept' .. n + 1}
    BY <1>a DEF LatestRootSet
  <2>2. rootsMap' = (rootsMap \ {roots[w]}) \cup {r}
    BY DEF AddRoot
  <2>3. roots[w] = IF n >= NRoots THEN added[OldestKept] ELSE ZeroRoot
    <3>1. AddedIn(w) = n - NRoots + 1
      BY <1>t DEF AddedIn, Slots
    <3>2. roots[w] = IF AddedIn(w) >= 1 THEN added[AddedIn(w)] ELSE ZeroRoot
      BY <1>t DEF RootStoreInv, SlotsInOrder
    <3> QED
      BY <3>1, <3>2, <1>k, <1>t
  <2>4. CASE n >= NRoots
    <3>1. {added'[i] : i \in OldestKept' .. n + 1}
            = {added[i] : i \in (OldestKept + 1) .. n} \cup {r}
      <4>1. /\ OldestKept' = OldestKept + 1
            /\ OldestKept + 1 \in 1 .. n + 1
        BY <2>4, <1>k, <1>t
      <4>2. \A i \in (OldestKept + 1) .. n : added'[i] = added[i]
        BY <4>1, <1>a, <1>t
      <4> QED
        BY <4>1, <4>2, <1>a, <1>t
    <3>2. {added[i] : i \in OldestKept .. n} \ {added[OldestKept]}
            = {added[i] : i \in (OldestKept + 1) .. n}
      <4>1. \A i \in (OldestKept + 1) .. n : added[i] # added[OldestKept]
        BY <2>4, <1>k, <1>t DEF RootStoreInv, KeptRootsDistinct
      <4> QED
        BY <4>1, <1>k, <1>t
    <3> QED
      BY <2>0, <2>1, <2>2, <2>3, <2>4, <3>1, <3>2 DEF KeepsLatestRoots
  <2>5. CASE n < NRoots
    <3>1. {added'[i] : i \in OldestKept' .. n + 1}
            = {added[i] : i \in OldestKept .. n} \cup {r}
      BY <2>5, <1>k, <1>a, <1>t
    <3>2. \A i \in OldestKept .. n : added[i] # ZeroRoot
      BY <1>k, <1>t
    <3>3. roots[w] = ZeroRoot
      BY <2>3, <2>5, <1>t
    <3>4. rootsMap \ {ZeroRoot} = rootsMap
      BY <2>0, <3>2
    <3> QED
      BY <2>0, <2>1, <2>2, <3>1, <3>3, <3>4 DEF KeepsLatestRoots
  <2> QED
    BY <2>4, <2>5, <1>t
<1> QED
  BY <1>1, <1>2, <1>3, <1>4, <1>5 DEF RootStoreInv

LEMMA RootStoreStutterInv == RootStoreInv /\ UNCHANGED rsVars => RootStoreInv'
BY DEF rsVars, RootStoreInv, RootStoreTypeOK, SlotsInOrder, AddedIn, HeadCountsRoots,
       KeptRootsDistinct, KeepsLatestRoots, LatestRootSet, OldestKept

(***************************************************************************)
(* The buffer's layout invariant holds in every reachable state, for every *)
(* number of slots the constructor of RootStore.sol accepts.               *)
(***************************************************************************)
THEOREM RootStoreInvariant == RootStoreSpec => []RootStoreInv
<1>1. RootStoreInv /\ [RootStoreNext]_rsVars => RootStoreInv'
  BY AddRootInv, RootStoreStutterInv DEF RootStoreNext
<1> QED
  BY <1>1, RootStoreInitInv, PTL DEF RootStoreSpec

(***************************************************************************)
(* _containsRoot accepts exactly the latest nRoots roots (RootStore.sol:30 *)
(* "Only keep the latest nRoots ones"), for every nRoots > 1.              *)
(***************************************************************************)
THEOREM RootStoreKeepsLatest == RootStoreSpec => []KeepsLatestRoots
<1>1. RootStoreInv => KeepsLatestRoots
  BY DEF RootStoreInv
<1> QED
  BY <1>1, RootStoreInvariant, PTL

-----------------------------------------------------------------------------
\* The length and the elements of the window the roots added so far leave.
LatestRootsShape ==
    /\ LatestRoots \in Seq(RootValues)
    /\ Len(added) < NRoots => Len(LatestRoots) = Len(added)
    /\ Len(added) >= NRoots => Len(LatestRoots) = NRoots
    /\ Window!RootsOf(LatestRoots) = rootsMap

\* In a state of the store the window has that shape.
LEMMA LatestRootsFacts == RootStoreInv => LatestRootsShape
<1> SUFFICES ASSUME RootStoreInv PROVE LatestRootsShape
  OBVIOUS
<1>0. /\ NRoots \in Nat /\ NRoots > 1
      /\ added \in Seq(RootValues)
      /\ Len(added) \in Nat
  BY RootStoreAssumption DEF RootStoreInv, RootStoreTypeOK
<1>1. /\ NRoots \in Nat /\ NRoots > 1
      /\ added \in Seq(RootValues)
      /\ Len(added) \in Nat
      /\ OldestKept \in 1 .. Len(added) + 1
      /\ Len(added) < NRoots => Len(added) - OldestKept + 1 = Len(added)
      /\ Len(added) >= NRoots => Len(added) - OldestKept + 1 = NRoots
  BY <1>0 DEF OldestKept
<1>2. \A i \in 1 .. (Len(added) - OldestKept + 1) :
        added[OldestKept + i - 1] \in RootValues
  BY <1>1
<1>3. LatestRoots \in Seq(RootValues) /\ Len(LatestRoots) = Len(added) - OldestKept + 1
  <2>1. Len(added) - OldestKept + 1 \in Nat
    BY <1>1
  <2> QED
    BY <1>2, <2>1 DEF LatestRoots
<1>4. Window!RootsOf(LatestRoots) = LatestRootSet
  <2>1. DOMAIN LatestRoots = 1 .. (Len(added) - OldestKept + 1)
    BY DEF LatestRoots
  <2>2. ASSUME NEW x \in LatestRootSet
        PROVE  x \in Window!RootsOf(LatestRoots)
    <3>1. PICK k \in OldestKept .. Len(added) : x = added[k]
      BY DEF LatestRootSet
    <3>2. (k - OldestKept + 1) \in 1 .. (Len(added) - OldestKept + 1)
      BY <1>1
    <3>3. LatestRoots[k - OldestKept + 1] = x
      BY <3>1, <3>2, <1>1 DEF LatestRoots
    <3> QED
      BY <2>1, <3>2, <3>3 DEF Window!RootsOf
  <2>3. ASSUME NEW x \in Window!RootsOf(LatestRoots)
        PROVE  x \in LatestRootSet
    <3>1. PICK i \in 1 .. (Len(added) - OldestKept + 1) : x = LatestRoots[i]
      BY <2>1, <2>3 DEF Window!RootsOf
    <3>2. x = added[OldestKept + i - 1]
      BY <3>1 DEF LatestRoots
    <3>3. OldestKept + i - 1 \in OldestKept .. Len(added)
      BY <1>1
    <3> QED
      BY <3>2, <3>3 DEF LatestRootSet
  <2> QED
    BY <2>2, <2>3
<1> QED
  BY <1>1, <1>3, <1>4 DEF RootStoreInv, KeepsLatestRoots, LatestRootsShape

\* A step of _addRoot is a step of the window.
LEMMA AddRootPushes ==
    ASSUME NEW r \in RootValues, RootStoreInv, AddRoot(r)
    PROVE  Window!Add(r)
<1> DEFINE n == Len(added)
           k == OldestKept
<1>1. RootStoreInv'
  BY AddRootInv
<1>2. /\ NRoots \in Nat /\ NRoots > 1
      /\ added \in Seq(RootValues) /\ n \in Nat
      /\ added' = Append(added, r)
      /\ Len(added') = n + 1
      /\ added'[n + 1] = r
      /\ \A i \in 1 .. n : added'[i] = added[i]
  BY RootStoreAssumption DEF RootStoreInv, RootStoreTypeOK, AddRoot
<1>3. /\ k \in 1 .. n + 1
      /\ n < NRoots => k = 1 /\ OldestKept' = 1
      /\ n >= NRoots => k = n - NRoots + 1 /\ OldestKept' = k + 1
  BY <1>2 DEF OldestKept
<1>4. /\ LatestRoots \in Seq(RootValues)
      /\ n < NRoots => Len(LatestRoots) = n
      /\ n >= NRoots => Len(LatestRoots) = NRoots
      /\ DOMAIN LatestRoots = 1 .. n - k + 1
      /\ \A i \in 1 .. n - k + 1 : LatestRoots[i] = added[k + i - 1]
  BY LatestRootsFacts DEF LatestRoots, LatestRootsShape
<1>5. /\ LatestRoots' \in Seq(RootValues)
      /\ n + 1 < NRoots => Len(LatestRoots') = n + 1
      /\ n + 1 >= NRoots => Len(LatestRoots') = NRoots
      /\ \A i \in 1 .. n + 1 - OldestKept' + 1 :
            LatestRoots'[i] = added'[OldestKept' + i - 1]
      /\ Window!RootsOf(LatestRoots') = rootsMap'
  <2>1. LatestRootsShape'
    BY <1>1, LatestRootsFacts, PTL
  <2>2. LatestRoots' = [i \in 1 .. Len(added') - OldestKept' + 1 |-> added'[OldestKept' + i - 1]]
    BY Zenon DEF LatestRoots
  <2>3. \A i \in 1 .. n + 1 - OldestKept' + 1 :
          LatestRoots'[i] = added'[OldestKept' + i - 1]
    <3>1. Len(added') = n + 1
      BY <1>2
    <3>2. \A i \in 1 .. Len(added') - OldestKept' + 1 :
            LatestRoots'[i] = added'[OldestKept' + i - 1]
      BY <2>2, Zenon
    <3>3. OldestKept' \in Int
      BY <1>2, <1>3
    <3>4. ASSUME NEW i \in 1 .. n + 1 - OldestKept' + 1
          PROVE  LatestRoots'[i] = added'[OldestKept' + i - 1]
      <4>1. i \in 1 .. Len(added') - OldestKept' + 1
        BY <3>1, <3>3
      <4> QED
        BY <4>1, <3>2
    <3> QED
      BY <3>4
  <2>4. /\ LatestRoots' \in Seq(RootValues)
        /\ Len(added') < NRoots => Len(LatestRoots') = Len(added')
        /\ Len(added') >= NRoots => Len(LatestRoots') = NRoots
        /\ Window!RootsOf(LatestRoots') = rootsMap'
    BY <2>1, Zenon DEF LatestRootsShape
  <2> QED
    BY <2>3, <2>4, <1>2
<1>6. LatestRoots' = Window!Push(LatestRoots, r)
  <2> DEFINE new == Window!Push(LatestRoots, r)
  <2>1. CASE n < NRoots
    <3>1. /\ new = Append(LatestRoots, r)
          /\ new \in Seq(RootValues)
          /\ Len(new) = n + 1
      BY <2>1, <1>2, <1>4 DEF Window!Push
    <3>2. Len(LatestRoots') = n + 1
      BY <2>1, <1>2, <1>5
    <3>3. ASSUME NEW i \in 1 .. n + 1 PROVE LatestRoots'[i] = new[i]
      <4>1. LatestRoots'[i] = added'[i]
        BY <2>1, <1>2, <1>3, <1>5
      <4>2. CASE i = n + 1
        BY <4>1, <4>2, <3>1, <2>1, <1>2, <1>4
      <4>3. CASE i \in 1 .. n
        <5>1. new[i] = LatestRoots[i]
          BY <4>3, <3>1, <2>1, <1>2, <1>4
        <5>2. LatestRoots[i] = added[i]
          <6>1. k = 1 /\ n \in Nat /\ i \in Int
            BY <4>3, <2>1, <1>2, <1>3
          <6>2. i \in 1 .. n - k + 1 /\ k + i - 1 = i
            BY <6>1, <4>3
          <6>3. LatestRoots[i] = added[k + i - 1]
            BY <6>2, <1>4
          <6> QED
            BY <6>2, <6>3
        <5> QED
          BY <5>1, <5>2, <4>1, <4>3, <1>2
      <4> QED
        BY <4>2, <4>3, <1>2
    <3> QED
      BY <3>1, <3>2, <3>3, <1>5
  <2>2. CASE n >= NRoots
    <3>1. /\ new = Append(Tail(LatestRoots), r)
          /\ Tail(LatestRoots) \in Seq(RootValues)
          /\ Len(Tail(LatestRoots)) = NRoots - 1
          /\ \A i \in 1 .. NRoots - 1 : Tail(LatestRoots)[i] = LatestRoots[i + 1]
          /\ new \in Seq(RootValues)
          /\ Len(new) = NRoots
      BY <2>2, <1>2, <1>4 DEF Window!Push
    <3>2. Len(LatestRoots') = NRoots
      BY <2>2, <1>2, <1>5
    <3>3. ASSUME NEW i \in 1 .. NRoots PROVE LatestRoots'[i] = new[i]
      <4>1. LatestRoots'[i] = added'[k + i]
        <5>1. k = n - NRoots + 1 /\ OldestKept' = k + 1 /\ k \in Int
          BY <2>2, <1>2, <1>3
        <5>2. i \in 1 .. n + 1 - OldestKept' + 1 /\ OldestKept' + i - 1 = k + i
          BY <5>1, <1>2
        <5> QED
          BY <5>2, <1>5
      <4>2. CASE i = NRoots
        <5>1. k + i = n + 1
          BY <4>2, <2>2, <1>2, <1>3
        <5>2. new[i] = r
          BY <4>2, <3>1, <1>2
        <5> QED
          BY <5>1, <5>2, <4>1, <1>2
      <4>3. CASE i \in 1 .. NRoots - 1
        <5>1. new[i] = LatestRoots[i + 1]
          BY <4>3, <3>1, <1>2
        <5>2. LatestRoots[i + 1] = added[k + i]
          <6>1. i + 1 \in 1 .. n - k + 1 /\ k + (i + 1) - 1 = k + i
            BY <4>3, <2>2, <1>2, <1>3
          <6> QED
            BY <6>1, <1>4
        <5>3. k + i \in 1 .. n
          BY <4>3, <2>2, <1>2, <1>3
        <5> QED
          BY <5>1, <5>2, <5>3, <4>1, <1>2
      <4> QED
        BY <4>2, <4>3, <1>2
    <3> QED
      BY <3>1, <3>2, <3>3, <1>5
  <2> QED
    BY <2>1, <2>2, <1>2
<1> QED
  BY <1>5, <1>6 DEF Window!Add, AddRoot

(***************************************************************************)
(* The circular buffer of RootStore.sol implements the sliding window over *)
(* the latest nRoots roots, for every nRoots > 1.                          *)
(***************************************************************************)
THEOREM RootStoreRefinesWindow == RootStoreSpec => ImplementsRootWindow
<1>1. RootStoreInit => Window!Init
  BY RootStoreAssumption DEF RootStoreInit, Window!Init, LatestRoots, OldestKept
<1>2. RootStoreInv /\ [RootStoreNext]_rsVars => [Window!Next]_(Window!vars)
  <2> SUFFICES ASSUME RootStoreInv, [RootStoreNext]_rsVars
               PROVE  [Window!Next]_(Window!vars)
    OBVIOUS
  <2>1. CASE RootStoreNext
    BY <2>1, AddRootPushes DEF RootStoreNext, Window!Next
  <2>2. CASE UNCHANGED rsVars
    BY <2>2 DEF rsVars, Window!vars, LatestRoots, OldestKept
  <2> QED
    BY <2>1, <2>2
<1> QED
  BY <1>1, <1>2, RootStoreInvariant, PTL DEF RootStoreSpec, ImplementsRootWindow, Window!Spec

-----------------------------------------------------------------------------
(* Types, and the reentrancy guard.                                        *)

(***************************************************************************)
(* The guard is taken exactly while a call is in progress, so there is at  *)
(* most one, and it started when the guard was free.                       *)
(***************************************************************************)
Guarded ==
    /\ frames = << >> \/ frames = <<top>>
    /\ status = "ENTERED" <=> ~Idle
    /\ ~Idle => top.saved.status = "NOT_ENTERED"

DepositFrames ==
    [fn : {"depositErc20"}, callee : Erc20Addresses, opening : Records,
     sender : Users \cup ReentrantTokens, saved : Snapshots]

BlockFrames ==
    [fn : {"submitCapeBlock"}, callee : Erc20Addresses \cup {ZeroAddress},
     notes : Seq(CommittedNotes), commitments : Seq(Records),
     verified : BOOLEAN, spare : Nat, numPending : Nat, saved : Snapshots]

\* What is saved when a call starts has the types of the state.
LEMMA SnapshotType == TypeOK => Snapshot \in Snapshots
BY DEF TypeOK, Snapshot, Snapshots, RootStoreTypeOK, AssetsTypeOK

\* The call in progress is the only one, and is a deposit or a block.
LEMMA FrameTypes ==
    ASSUME TypeOK, Guarded, ~Idle
    PROVE  /\ frames = <<top>> /\ Tail(frames) = << >>
           /\ top \in DepositFrames \cup BlockFrames
           /\ top.fn = "depositErc20" => top \in DepositFrames
           /\ top.fn = "submitCapeBlock" => top \in BlockFrames
           /\ top.saved \in Snapshots
           /\ top.fn \in {"depositErc20", "submitCapeBlock"}
<1>1. frames = <<top>>
  BY DEF Guarded, Idle
<1>2. top \in Frames
  <2>1. frames \in Seq(Frames) /\ frames # << >>
    BY DEF TypeOK, Idle
  <2> QED
    BY <2>1 DEF top
<1>3. Tail(frames) = << >>
  BY <1>1
<1>4. top \in DepositFrames \cup BlockFrames
  BY <1>2 DEF Frames, DepositFrames, BlockFrames
<1>5. top \in DepositFrames => top.fn = "depositErc20" /\ top.saved \in Snapshots
  BY DEF DepositFrames
<1>6. top \in BlockFrames => top.fn = "submitCapeBlock" /\ top.saved \in Snapshots
  BY DEF BlockFrames
<1> QED
  BY <1>1, <1>3, <1>4, <1>5, <1>6

\* A stack of one frame.
LEMMA OneFrame ==
    ASSUME NEW f, frames' = <<f>>
    PROVE  top' = f /\ ~Idle' /\ frames' # << >>
BY DEF top, Idle

\* The lists that notes spend.
LEMMA InputTypes ==
    ASSUME TypeOK, NEW inputs \in InputLists
    PROVE  /\ inputs \in Seq(1 .. Len(tree)) /\ inputs \in Seq(Nat)
           /\ Len(inputs) >= 1 /\ DOMAIN inputs = 1 .. Len(inputs)
           /\ \A i \in 1 .. Len(inputs) : inputs[i] \in 1 .. Len(tree)
<1>1. PICK n \in 1 .. MaxInputs : inputs \in [1 .. n -> 1 .. Len(tree)]
  BY DEF InputLists
<1>2. n \in Nat /\ n >= 1 /\ Len(tree) \in Nat
  BY CapeAssumption DEF TypeOK
<1>3. inputs \in Seq(1 .. Len(tree)) /\ Len(inputs) = n
  BY <1>1, <1>2
<1> QED
  BY <1>1, <1>2, <1>3

\* The records that notes add; a burn leaves out the second.
LEMMA OutputTypes ==
    ASSUME NEW outputs \in OutputLists
    PROVE  /\ outputs \in Seq(Records)
           /\ \A i \in 1 .. Len(outputs) : outputs[i] \in Records
           /\ Len(outputs) >= 2 =>
                /\ keptOutputs(outputs) \in Seq(Records)
                /\ Len(keptOutputs(outputs)) = Len(outputs) - 1
                /\ \A i \in 1 .. Len(outputs) - 1 :
                      keptOutputs(outputs)[i] = IF i = 1 THEN outputs[1] ELSE outputs[i + 1]
<1>1. outputs \in Seq(Records)
  BY CapeAssumption
<1>2. ASSUME Len(outputs) >= 2
      PROVE  /\ keptOutputs(outputs) \in Seq(Records)
             /\ Len(keptOutputs(outputs)) = Len(outputs) - 1
             /\ \A i \in 1 .. Len(outputs) - 1 :
                   keptOutputs(outputs)[i] = IF i = 1 THEN outputs[1] ELSE outputs[i + 1]
  BY <1>1, <1>2, WithoutSecond DEF keptOutputs
<1> QED
  BY <1>1, <1>2

\* A new root is the number of leaves.
LEMMA InsertTypes ==
    ASSUME TypeOK, NEW items \in Seq(Leaves), Len(items) > 0, InsertLeaves(items)
    PROVE  RootStoreTypeOK' /\ tree' \in Seq(Leaves)
<1> DEFINE r == Len(tree) + Len(items)
<1>1. r \in 1 .. TreeCapacity
  BY CapeAssumption DEF InsertLeaves, TypeOK
<1>2. r \in RootValues
  BY <1>1, CapeAssumption
<1>3. AddRoot(r) /\ tree' = tree \o items
  BY DEF InsertLeaves
<1>4. tree' \in Seq(Leaves)
  BY <1>3, ConcatProperties DEF TypeOK
<1> HIDE DEF r
<1>5. writeHead \in Slots /\ writeHead' = (writeHead + 1) % NRoots
  BY <1>3 DEF AddRoot, TypeOK, RootStoreTypeOK
<1>6. writeHead' \in Slots
  BY <1>5, NextSlot, RootStoreAssumption DEF Slots
<1>7. roots' \in [Slots -> RootValues \cup {ZeroRoot}]
  BY <1>2, <1>3 DEF AddRoot, TypeOK, RootStoreTypeOK
<1>8. rootsMap' \subseteq RootValues \cup {ZeroRoot} /\ added' \in Seq(RootValues)
  BY <1>2, <1>3 DEF AddRoot, TypeOK, RootStoreTypeOK
<1> QED
  BY <1>4, <1>6, <1>7, <1>8 DEF RootStoreTypeOK

\* The types hold at first.
LEMMA InitTypes == Init => TypeOK /\ Guarded
<1> SUFFICES ASSUME Init PROVE TypeOK /\ Guarded
  OBVIOUS
<1> USE DEF Init
<1>1. RootStoreTypeOK
  BY RootStoreInitInv DEF RootStoreInv
<1>2. AssetsTypeOK
  BY DEF AssetsInit, AssetsTypeOK
<1>3. balances \in [HonestTokens -> [Accounts -> Nat]]
  BY CapeAssumption
<1>4. faucetInitialized \in BOOLEAN
  BY Zenon
<1>5. /\ nullifiers \in SUBSET Nat /\ blockHeight \in Nat
      /\ pendingDeposits \in Seq(Records) /\ status \in Statuses
      /\ tree \in Seq(Leaves) /\ log \in Seq(Events) /\ frames \in Seq(Frames)
  BY DEF Statuses
<1> QED
  BY <1>1, <1>2, <1>3, <1>4, <1>5 DEF TypeOK, Guarded, Idle

\* faucetSetupForTestnet keeps the types.
LEMMA FaucetTypes ==
    ASSUME TypeOK, Guarded, NEW s \in Users, faucetSetupForTestnet(s)
    PROVE  TypeOK' /\ Guarded'
<1> DEFINE ro == [assetDef |-> NativeAsset, amount |-> FaucetAmount, freezeFlag |-> FALSE]
<1>1. ro \in Records
  BY CapeAssumption, AssetRegistryAssumption DEF Records
<1>2. /\ Idle /\ InsertLeaves(<<ro>>) /\ log' = Append(log, Log!FaucetEvent(ro))
      /\ faucetInitialized' = TRUE
      /\ UNCHANGED <<nullifiers, blockHeight, pendingDeposits, status, balances,
                     assets, frames>>
  BY DEF faucetSetupForTestnet
<1> HIDE DEF ro
<1>3. <<ro>> \in Seq(Leaves) /\ Len(<<ro>>) > 0
  BY <1>1 DEF Leaves
<1>4. RootStoreTypeOK' /\ tree' \in Seq(Leaves)
  BY <1>2, <1>3, InsertTypes
<1>5. Log!FaucetEvent(ro) \in Events
  BY <1>1 DEF Log!FaucetEvent, Events
<1>6. log' \in Seq(Events)
  BY <1>2, <1>5, AppendProperties DEF TypeOK
<1>7. faucetInitialized' \in BOOLEAN
  BY <1>2, Zenon
<1>8. AssetsTypeOK'
  BY <1>2 DEF TypeOK, AssetsTypeOK
<1>9. TypeOK'
  BY <1>2, <1>4, <1>6, <1>7, <1>8 DEF TypeOK
<1>10. Guarded'
  BY <1>2 DEF Guarded, Idle, top
<1> QED
  BY <1>9, <1>10

\* sponsorCapeAsset keeps the types.
LEMMA SponsorTypes ==
    ASSUME TypeOK, Guarded, Sponsor
    PROVE  TypeOK' /\ Guarded'
<1>1. PICK s \in Sponsors, e \in Erc20Addresses \cup {ZeroAddress}, a \in AssetDefinitions :
           sponsorCapeAsset(s, e, a)
  BY DEF Sponsor
<1>2. /\ RegisterAsset(s, e, a) /\ log' = Append(log, Log!SponsorEvent(e, a))
      /\ UNCHANGED <<nullifiers, blockHeight, pendingDeposits, faucetInitialized,
                     status, tree, balances, rsVars, frames>>
  BY <1>1 DEF sponsorCapeAsset
<1>3. e \in Erc20Addresses /\ assets' = [assets EXCEPT ![a] = e]
  BY <1>2 DEF RegisterAsset
<1>4. AssetsTypeOK'
  BY <1>3 DEF TypeOK, AssetsTypeOK
<1>5. Log!SponsorEvent(e, a) \in Events
  BY <1>3 DEF Log!SponsorEvent, Events
<1>6. log' \in Seq(Events)
  BY <1>2, <1>5, AppendProperties DEF TypeOK
<1>7. RootStoreTypeOK'
  BY <1>2 DEF TypeOK, RootStoreTypeOK, rsVars
<1>8. TypeOK'
  BY <1>2, <1>4, <1>6, <1>7 DEF TypeOK
<1>9. Guarded'
  BY <1>2 DEF Guarded, Idle, top
<1> QED
  BY <1>8, <1>9

\* A call that takes the guard starts when nothing runs.
LEMMA GuardFree ==
    ASSUME TypeOK, Guarded, nonReentrant
    PROVE  Idle /\ status = "NOT_ENTERED" /\ Snapshot \in Snapshots
BY SnapshotType DEF Guarded, nonReentrant

\* depositErc20, up to the call of the token, keeps the types.
LEMMA DepositTypes ==
    ASSUME TypeOK, Guarded, Deposit
    PROVE  TypeOK' /\ Guarded'
<1>1. PICK s \in Sponsors, ro \in Records, e \in Erc20Addresses : depositErc20(s, ro, e)
  BY DEF Deposit
<1> DEFINE f == [fn |-> "depositErc20", callee |-> e, opening |-> ro,
                 sender |-> s, saved |-> Snapshot]
<1>2. /\ MayCall(s) /\ nonReentrant /\ status' = "ENTERED"
      /\ pendingDeposits' = Append(pendingDeposits, ro)
      /\ frames' = <<f>> \o frames
      /\ UNCHANGED <<nullifiers, blockHeight, faucetInitialized, tree, balances, log,
                     assets, rsVars>>
  BY <1>1 DEF depositErc20
<1>3. Idle /\ Snapshot \in Snapshots /\ Snapshot.status = "NOT_ENTERED"
  BY <1>2, GuardFree DEF Snapshot
<1>4. s \in Users \cup ReentrantTokens
  BY <1>2, <1>3 DEF MayCall
<1>5. f \in Frames
  BY <1>3, <1>4 DEF Frames
<1>6. f.saved.status = "NOT_ENTERED"
  BY <1>3
<1> HIDE DEF f
<1>7. frames' = <<f>>
  BY <1>2, <1>3, <1>5 DEF Idle
<1>8. top' = f /\ ~Idle'
  BY <1>7, OneFrame
<1>9. Guarded'
  BY <1>2, <1>6, <1>7, <1>8 DEF Guarded
<1>10. RootStoreTypeOK' /\ AssetsTypeOK'
  BY <1>2 DEF TypeOK, RootStoreTypeOK, rsVars, AssetsTypeOK
<1>11. frames' \in Seq(Frames) /\ pendingDeposits' \in Seq(Records) /\ status' \in Statuses
  BY <1>2, <1>5, <1>7, AppendProperties DEF TypeOK, Statuses
<1>12. TypeOK'
  BY <1>2, <1>10, <1>11 DEF TypeOK
<1> QED
  BY <1>9, <1>12

\* A transfer changes the books of one honest token, if any.
LEMMA TransferTypes ==
    ASSUME TypeOK, NEW token, NEW from \in Accounts, NEW to \in Accounts, from # to,
           NEW amount \in Nat, Transfer(token, from, to, amount)
    PROVE  /\ balances' \in [HonestTokens -> [Accounts -> Nat]]
           /\ \A t \in HonestTokens, a \in Accounts :
                 balances'[t][a] = IF t = token /\ a = from THEN balances[t][a] - amount
                                   ELSE IF t = token /\ a = to THEN balances[t][a] + amount
                                   ELSE balances[t][a]
           /\ token \in HonestTokens => balances[token][from] >= amount
<1>0. balances \in [HonestTokens -> [Accounts -> Nat]]
  BY DEF TypeOK
<1>1. CASE token \notin HonestTokens
  BY <1>0, <1>1 DEF Transfer
<1>2. CASE token \in HonestTokens
  <2>1. /\ balances[token][from] >= amount
        /\ balances' = [[balances EXCEPT ![token][from] = @ - amount] EXCEPT
                          ![token][to] = @ + amount]
    BY <1>2 DEF Transfer
  <2>2. balances[token] \in [Accounts -> Nat]
    BY <1>0, <1>2
  <2> DEFINE b == [[balances[token] EXCEPT ![from] = @ - amount] EXCEPT ![to] = @ + amount]
  <2>3. b \in [Accounts -> Nat]
    BY <2>1, <2>2
  <2>4. \A a \in Accounts :
           b[a] = IF a = from THEN balances[token][a] - amount
                  ELSE IF a = to THEN balances[token][a] + amount ELSE balances[token][a]
    BY <2>1, <2>2
  <2>5. balances' = [balances EXCEPT ![token] = b]
    BY <1>0, <1>2, <2>1, <2>2
  <2> HIDE DEF b
  <2> QED
    BY <1>0, <1>2, <2>1, <2>3, <2>4, <2>5
<1> QED
  BY <1>1, <1>2

\* What the contract owns after it was paid.
LEMMA PaidIn ==
    ASSUME TypeOK, NEW token, NEW from \in Accounts, from # CapeAddress, NEW amount \in Nat,
           Transfer(token, from, CapeAddress, amount)
    PROVE  \A t \in HonestTokens :
              balances'[t][CapeAddress] = IF t = token THEN balances[t][CapeAddress] + amount
                                                       ELSE balances[t][CapeAddress]
<1>1. CapeAddress \in Accounts
  BY DEF Accounts
<1>2. /\ \A t \in HonestTokens, a \in Accounts :
            balances'[t][a] = IF t = token /\ a = from THEN balances[t][a] - amount
                              ELSE IF t = token /\ a = CapeAddress THEN balances[t][a] + amount
                              ELSE balances[t][a]
      /\ token \in HonestTokens => balances[token][from] >= amount
  BY <1>1, TransferTypes
<1> QED
  BY <1>1, <1>2

\* What the contract owns after it paid another account.
LEMMA PaidToOther ==
    ASSUME TypeOK, NEW token, NEW to \in Accounts, to # CapeAddress, NEW amount \in Nat,
           Transfer(token, CapeAddress, to, amount)
    PROVE  \A t \in HonestTokens :
              balances'[t][CapeAddress] = IF t = token THEN balances[t][CapeAddress] - amount
                                                       ELSE balances[t][CapeAddress]
<1>1. CapeAddress \in Accounts
  BY DEF Accounts
<1>2. /\ \A t \in HonestTokens, a \in Accounts :
            balances'[t][a] = IF t = token /\ a = CapeAddress THEN balances[t][a] - amount
                              ELSE IF t = token /\ a = to THEN balances[t][a] + amount
                              ELSE balances[t][a]
      /\ token \in HonestTokens => balances[token][CapeAddress] >= amount
  BY <1>1, TransferTypes
<1> QED
  BY <1>1, <1>2

\* A transfer of an account to itself moves nothing.
LEMMA SelfTransfer ==
    ASSUME TypeOK, NEW token, NEW a \in Accounts, NEW amount \in Nat, Transfer(token, a, a, amount)
    PROVE  /\ balances' = balances
           /\ token \in HonestTokens => balances[token][a] >= amount
<1>0. balances \in [HonestTokens -> [Accounts -> Nat]]
  BY DEF TypeOK
<1>1. CASE token \notin HonestTokens
  BY <1>1 DEF Transfer
<1>2. CASE token \in HonestTokens
  <2>1. /\ balances[token][a] >= amount
        /\ balances' = [[balances EXCEPT ![token][a] = @ - amount] EXCEPT
                          ![token][a] = @ + amount]
    BY <1>2 DEF Transfer
  <2>2. balances[token] \in [Accounts -> Nat]
    BY <1>0, <1>2
  <2> DEFINE b == [[balances[token] EXCEPT ![a] = @ - amount] EXCEPT ![a] = @ + amount]
  <2>3. \A x \in Accounts : b[x] = balances[token][x]
    BY <2>1, <2>2
  <2>4. b = balances[token]
    BY <2>2, <2>3
  <2>5. balances' = [balances EXCEPT ![token] = b]
    BY <1>0, <1>2, <2>1, <2>2
  <2> HIDE DEF b
  <2> QED
    BY <1>0, <2>1, <2>4, <2>5
<1> QED
  BY <1>1, <1>2

\* A payment of the contract, to whomever, keeps the types.
LEMMA PaidOutTypes ==
    ASSUME TypeOK, NEW token, NEW to \in Accounts, NEW amount \in Nat,
           Transfer(token, CapeAddress, to, amount)
    PROVE  balances' \in [HonestTokens -> [Accounts -> Nat]]
<1>1. CapeAddress \in Accounts /\ balances \in [HonestTokens -> [Accounts -> Nat]]
  BY DEF Accounts, TypeOK
<1>2. CASE to # CapeAddress
  BY <1>1, <1>2, TransferTypes
<1>3. CASE to = CapeAddress
  BY <1>1, <1>3, SelfTransfer
<1> QED
  BY <1>2, <1>3

\* What the contract owns after a payment: no less than what it owned without
\* the amount, and as much as before when it pays itself.
LEMMA PaidOut ==
    ASSUME TypeOK, NEW token, NEW to \in Accounts, NEW amount \in Nat,
           Transfer(token, CapeAddress, to, amount), NEW t \in HonestTokens
    PROVE  balances'[t][CapeAddress] >=
              IF t = token THEN balances[t][CapeAddress] - amount ELSE balances[t][CapeAddress]
<1>1. CapeAddress \in Accounts /\ balances[t][CapeAddress] \in Nat
  BY DEF Accounts, TypeOK
<1>2. CASE to # CapeAddress
  <2>1. \A u \in HonestTokens :
           balances'[u][CapeAddress] = IF u = token THEN balances[u][CapeAddress] - amount
                                                    ELSE balances[u][CapeAddress]
    BY <1>2, PaidToOther
  <2> QED
    BY <1>1, <2>1
<1>3. CASE to = CapeAddress
  <2>1. balances' = balances
    BY <1>1, <1>3, SelfTransfer
  <2> QED
    BY <1>1, <2>1
<1> QED
  BY <1>2, <1>3

\* depositErc20, after the call of the token, keeps the types.
LEMMA DepositReturnsTypes ==
    ASSUME TypeOK, Guarded, depositErc20Returns
    PROVE  TypeOK' /\ Guarded'
<1>1. /\ ~Idle /\ top.fn = "depositErc20"
      /\ Transfer(top.callee, top.sender, CapeAddress, top.opening.amount)
      /\ log' = Append(log, Log!DepositEvent(top.opening, top.sender))
      /\ status' = "NOT_ENTERED"
      /\ frames' = Tail(frames)
      /\ UNCHANGED <<nullifiers, blockHeight, pendingDeposits, faucetInitialized, tree,
                     assets, rsVars>>
  BY DEF depositErc20Returns, Running
<1>2. top \in DepositFrames /\ Tail(frames) = << >>
  BY <1>1, FrameTypes
<1>3. top.opening \in Records /\ top.sender \in Users \cup ReentrantTokens
  BY <1>2 DEF DepositFrames
<1>4. top.opening.amount \in Nat
  BY <1>3, CapeAssumption DEF Records
<1>5. top.sender \in Accounts /\ CapeAddress \in Accounts /\ top.sender # CapeAddress
  BY <1>3, CapeAssumption DEF Accounts
<1>6. balances' \in [HonestTokens -> [Accounts -> Nat]]
  BY <1>1, <1>4, <1>5, TransferTypes
<1>7. Log!DepositEvent(top.opening, top.sender) \in Events
  BY <1>3 DEF Log!DepositEvent, Events
<1>8. log' \in Seq(Events)
  BY <1>1, <1>7, AppendProperties DEF TypeOK
<1>9. frames' = << >>
  BY <1>1, <1>2
<1>10. Guarded'
  BY <1>1, <1>9 DEF Guarded, Idle
<1>11. RootStoreTypeOK' /\ AssetsTypeOK'
  BY <1>1 DEF TypeOK, RootStoreTypeOK, rsVars, AssetsTypeOK
<1>12. frames' \in Seq(Frames) /\ status' \in Statuses
  <2>1. frames' \in Seq(Frames)
    BY <1>9
  <2>2. status' \in Statuses
    BY <1>1 DEF Statuses
  <2> QED
    BY <2>1, <2>2
<1>13. TypeOK'
  BY <1>1, <1>6, <1>8, <1>11, <1>12 DEF TypeOK
<1> QED
  BY <1>10, <1>13

\* submitCapeBlock, up to its loop, keeps the types.
LEMMA SubmitTypes ==
    ASSUME TypeOK, Guarded, SubmitBlock
    PROVE  TypeOK' /\ Guarded'
<1>1. PICK s \in Sponsors, spare \in 0 .. MaxSpare : submitCapeBlock(s, spare)
  BY DEF SubmitBlock
<1> DEFINE f == [fn |-> "submitCapeBlock", callee |-> ZeroAddress, notes |-> << >>,
                 commitments |-> << >>, verified |-> TRUE, spare |-> spare,
                 numPending |-> Len(pendingDeposits), saved |-> Snapshot]
<1>2. /\ nonReentrant /\ status' = "ENTERED"
      /\ frames' = <<f>> \o frames
      /\ UNCHANGED <<nullifiers, blockHeight, pendingDeposits, faucetInitialized, tree,
                     balances, log, assets, rsVars>>
  BY <1>1 DEF submitCapeBlock
<1>3. Idle /\ Snapshot \in Snapshots /\ Snapshot.status = "NOT_ENTERED"
  BY <1>2, GuardFree DEF Snapshot
<1>4. spare \in Nat /\ Len(pendingDeposits) \in Nat
  BY CapeAssumption DEF TypeOK
<1>5. f \in Frames
  BY <1>3, <1>4 DEF Frames
<1>6. f.saved.status = "NOT_ENTERED"
  BY <1>3
<1> HIDE DEF f
<1>7. frames' = <<f>>
  BY <1>2, <1>3, <1>5 DEF Idle
<1>8. top' = f /\ ~Idle'
  BY <1>7, OneFrame
<1>9. Guarded'
  BY <1>2, <1>6, <1>7, <1>8 DEF Guarded
<1>10. RootStoreTypeOK' /\ AssetsTypeOK'
  BY <1>2 DEF TypeOK, RootStoreTypeOK, rsVars, AssetsTypeOK
<1>11. frames' \in Seq(Frames) /\ status' \in Statuses
  <2>1. frames' \in Seq(Frames)
    BY <1>5, <1>7
  <2>2. status' \in Statuses
    BY <1>2 DEF Statuses
  <2> QED
    BY <2>1, <2>2
<1>12. TypeOK'
  BY <1>2, <1>10, <1>11 DEF TypeOK
<1> QED
  BY <1>9, <1>12

(***************************************************************************)
(* What a note does, whatever its type: `inserted' are the outputs that go *)
(* to the tree.                                                            *)
(***************************************************************************)
NoteSteps(type, root, inputs, inserted, proof, callee) ==
    /\ ~Idle /\ top.fn = "submitCapeBlock"
    /\ IsInjective(inputs) /\ ToSet(inputs) \cap nullifiers = {}
    /\ nullifiers' = nullifiers \cup ToSet(inputs)
    /\ frames' = <<[top EXCEPT !.notes = Append(@, [type |-> type, spent |-> inputs,
                                                    outputs |-> inserted]),
                               !.commitments = @ \o inserted,
                               !.verified = @ /\ proof,
                               !.callee = callee]>>
    /\ UNCHANGED <<blockHeight, pendingDeposits, faucetInitialized, status, tree, log,
                   assets, rsVars>>

\* One round of the loop does these steps.
LEMMA NoteIsStep ==
    ASSUME TypeOK, Guarded, NEW type, NEW root, NEW inputs, NEW inserted, NEW proof,
           NEW callee, Note(type, root, inputs, inserted, proof, callee)
    PROVE  NoteSteps(type, root, inputs, inserted, proof, callee)
<1>1. ~Idle /\ Tail(frames) = << >>
  BY FrameTypes DEF Note, Running
<1> DEFINE f == [top EXCEPT !.notes = Append(@, [type |-> type, spent |-> inputs,
                                                 outputs |-> inserted]),
                            !.commitments = @ \o inserted,
                            !.verified = @ /\ proof,
                            !.callee = callee]
<1>2. frames' = <<f>> \o Tail(frames)
  BY DEF Note
<1> HIDE DEF f
<1>3. frames' = <<f>>
  <2>1. <<f>> \in Seq({f})
    OBVIOUS
  <2>2. <<f>> \o << >> = <<f>>
    BY <2>1, ConcatEmptySeq, Zenon
  <2> QED
    BY <1>1, <1>2, <2>2, Zenon
<1>4. /\ top.fn = "submitCapeBlock"
      /\ IsInjective(inputs) /\ ToSet(inputs) \cap nullifiers = {}
      /\ nullifiers' = nullifiers \cup ToSet(inputs)
      /\ UNCHANGED <<blockHeight, pendingDeposits, faucetInitialized, status, tree, log,
                     assets, rsVars>>
  BY Zenon DEF Note, Running, publish
<1> QED
  BY <1>1, <1>3, <1>4, Zenon DEF NoteSteps, f

\* The four types of notes, as steps.
TransferStep(root, inputs, outputs) ==
    /\ HasVerifyingKey("TRANSFER", inputs, outputs)
    /\ NoteSteps("TRANSFER", root, inputs, outputs, TransferProof(root, inputs, outputs),
                 ZeroAddress)
    /\ UNCHANGED balances

MintStep(root, inputs, outputs) ==
    /\ HasVerifyingKey("MINT", inputs, outputs)
    /\ \E a \in AssetDefinitions, c \in InternalCodes :
          /\ IsDomesticCode(a.code, c)
          /\ NoteSteps("MINT", root, inputs, outputs, MintProof(root, inputs, outputs, a),
                       ZeroAddress)
    /\ UNCHANGED balances

FreezeStep(root, inputs, outputs) ==
    /\ HasVerifyingKey("FREEZE", inputs, outputs)
    /\ NoteSteps("FREEZE", root, inputs, outputs, FreezeProof(root, inputs, outputs),
                 ZeroAddress)
    /\ UNCHANGED balances

BurnStep(root, inputs, outputs) ==
    /\ HasVerifyingKey("TRANSFER", inputs, outputs)
    /\ Len(outputs) >= 2
    /\ NoteSteps("BURN", root, inputs, keptOutputs(outputs),
                 TransferProof(root, inputs, outputs), lookup(outputs[2].assetDef))
    /\ \E recipient \in Accounts :
          Transfer(lookup(outputs[2].assetDef), CapeAddress, recipient, outputs[2].amount)

\* The next note is of one of the four types.
LEMMA NoteCases ==
    ASSUME TypeOK, Guarded, NextNote
    PROVE  \E root \in rootsMap, inputs \in InputLists, outputs \in OutputLists :
             /\ top.verified
             /\ \/ TransferStep(root, inputs, outputs)
                \/ MintStep(root, inputs, outputs)
                \/ FreezeStep(root, inputs, outputs)
                \/ BurnStep(root, inputs, outputs)
<1>1. PICK root \in rootsMap, inputs \in InputLists, outputs \in OutputLists :
           /\ top.verified
           /\ \/ \E validUntil \in {0, MaxHeight}, extra \in ExtraData :
                    transferNote(root, inputs, outputs, validUntil, extra)
              \/ \E a \in AssetDefinitions, c \in InternalCodes :
                    mintNote(root, inputs, outputs, a, c)
              \/ freezeNote(root, inputs, outputs)
              \/ \E ro \in ToSet(outputs), extra \in ExtraData, recipient \in Accounts :
                    burnNote(root, inputs, outputs, ro, extra, recipient)
  BY DEF NextNote
<1>2. CASE \E validUntil \in {0, MaxHeight}, extra \in ExtraData :
              transferNote(root, inputs, outputs, validUntil, extra)
  <2>1. /\ HasVerifyingKey("TRANSFER", inputs, outputs)
        /\ Note("TRANSFER", root, inputs, outputs, TransferProof(root, inputs, outputs),
                ZeroAddress)
        /\ UNCHANGED balances
    BY <1>2, Zenon DEF transferNote
  <2>2. TransferStep(root, inputs, outputs)
    BY <2>1, NoteIsStep, Zenon DEF TransferStep
  <2> QED
    BY <1>1, <2>2, Zenon
<1>3. CASE \E a \in AssetDefinitions, c \in InternalCodes :
              mintNote(root, inputs, outputs, a, c)
  <2>1. PICK a \in AssetDefinitions, c \in InternalCodes :
             mintNote(root, inputs, outputs, a, c)
    BY <1>3
  <2>2. /\ HasVerifyingKey("MINT", inputs, outputs)
        /\ IsDomesticCode(a.code, c)
        /\ Note("MINT", root, inputs, outputs, MintProof(root, inputs, outputs, a),
                ZeroAddress)
        /\ UNCHANGED balances
    BY <2>1, Zenon DEF mintNote
  <2>3. NoteSteps("MINT", root, inputs, outputs, MintProof(root, inputs, outputs, a),
                  ZeroAddress)
    BY <2>2, NoteIsStep, Zenon
  <2>4. \E b \in AssetDefinitions, d \in InternalCodes :
           /\ IsDomesticCode(b.code, d)
           /\ NoteSteps("MINT", root, inputs, outputs, MintProof(root, inputs, outputs, b),
                        ZeroAddress)
    BY <2>2, <2>3, Zenon
  <2>5. MintStep(root, inputs, outputs)
    BY <2>2, <2>4, Zenon DEF MintStep
  <2> QED
    BY <1>1, <2>5, Zenon
<1>4. CASE freezeNote(root, inputs, outputs)
  <2>1. /\ HasVerifyingKey("FREEZE", inputs, outputs)
        /\ Note("FREEZE", root, inputs, outputs, FreezeProof(root, inputs, outputs),
                ZeroAddress)
        /\ UNCHANGED balances
    BY <1>4, Zenon DEF freezeNote
  <2>2. FreezeStep(root, inputs, outputs)
    BY <2>1, NoteIsStep, Zenon DEF FreezeStep
  <2> QED
    BY <1>1, <2>2, Zenon
<1>5. CASE \E ro \in ToSet(outputs), extra \in ExtraData, recipient \in Accounts :
              burnNote(root, inputs, outputs, ro, extra, recipient)
  <2>1. PICK ro \in ToSet(outputs), extra \in ExtraData, recipient \in Accounts :
             burnNote(root, inputs, outputs, ro, extra, recipient)
    BY <1>5
  <2>2. ro = outputs[2] /\ Len(outputs) >= 2
    <3>1. checkBurn(extra, outputs, ro)
      BY <2>1, Zenon DEF burnNote
    <3> QED
      BY ONLY <3>1 DEF checkBurn
  <2>3. /\ HasVerifyingKey("TRANSFER", inputs, outputs)
        /\ Note("BURN", root, inputs, keptOutputs(outputs),
                TransferProof(root, inputs, outputs), lookup(outputs[2].assetDef))
        /\ Transfer(lookup(outputs[2].assetDef), CapeAddress, recipient, outputs[2].amount)
    BY <2>1, <2>2, Zenon DEF burnNote
  <2>4. NoteSteps("BURN", root, inputs, keptOutputs(outputs),
                  TransferProof(root, inputs, outputs), lookup(outputs[2].assetDef))
    BY <2>3, NoteIsStep, Zenon
  <2>5. BurnStep(root, inputs, outputs)
    BY <2>2, <2>3, <2>4, Zenon DEF BurnStep
  <2> QED
    BY <1>1, <2>5, Zenon
<1> QED
  BY <1>1, <1>2, <1>3, <1>4, <1>5, Zenon

\* The frame after a note.
LEMMA NoteFrame ==
    ASSUME TypeOK, Guarded, NEW type \in NoteTypes, NEW root, NEW inputs \in InputLists,
           NEW inserted \in Seq(Records), NEW proof \in BOOLEAN,
           NEW callee \in Erc20Addresses \cup {ZeroAddress},
           NoteSteps(type, root, inputs, inserted, proof, callee)
    PROVE  LET note == [type |-> type, spent |-> inputs, outputs |-> inserted]
           IN  /\ ~Idle /\ ~Idle' /\ frames' = <<top'>>
               /\ top \in BlockFrames /\ top' \in BlockFrames
               /\ note \in CommittedNotes
               /\ top'.notes = Append(top.notes, note)
               /\ top'.commitments = top.commitments \o inserted
               /\ top'.verified = (top.verified /\ proof)
               /\ top'.spare = top.spare /\ top'.numPending = top.numPending
               /\ top'.saved = top.saved
<1> DEFINE note == [type |-> type, spent |-> inputs, outputs |-> inserted]
           f == [top EXCEPT !.notes = Append(@, note),
                            !.commitments = @ \o inserted,
                            !.verified = @ /\ proof,
                            !.callee = callee]
<1>1. /\ ~Idle /\ top.fn = "submitCapeBlock" /\ frames' = <<f>>
  BY Zenon DEF NoteSteps
<1>2. top \in BlockFrames
  BY <1>1, FrameTypes
<1>3. note \in CommittedNotes
  BY InputTypes DEF CommittedNotes
<1> HIDE DEF note
<1>4. Append(top.notes, note) \in Seq(CommittedNotes)
  BY <1>2, <1>3, AppendProperties DEF BlockFrames
<1>5. top.commitments \o inserted \in Seq(Records)
  BY <1>2, ConcatProperties DEF BlockFrames
<1>6. (top.verified /\ proof) \in BOOLEAN
  OBVIOUS
<1>7. /\ f \in BlockFrames
      /\ f.notes = Append(top.notes, note)
      /\ f.commitments = top.commitments \o inserted
      /\ f.spare = top.spare /\ f.numPending = top.numPending
      /\ f.saved = top.saved
  BY <1>2, <1>4, <1>5, <1>6 DEF BlockFrames
<1>8. f.verified = (top.verified /\ proof)
  BY <1>2 DEF BlockFrames
<1> HIDE DEF f
<1>9. top' = f /\ ~Idle'
  BY <1>1, OneFrame
<1>10. frames' = <<top'>>
  BY <1>1, <1>9
<1> QED
  BY <1>1, <1>2, <1>3, <1>7, <1>8, <1>9, <1>10 DEF note

\* What the four types of notes have in common keeps the types.
LEMMA NoteStepTypes ==
    ASSUME TypeOK, Guarded, NEW type \in NoteTypes, NEW root, NEW inputs \in InputLists,
           NEW inserted \in Seq(Records), NEW proof \in BOOLEAN,
           NEW callee \in Erc20Addresses \cup {ZeroAddress},
           NoteSteps(type, root, inputs, inserted, proof, callee),
           balances' \in [HonestTokens -> [Accounts -> Nat]]
    PROVE  TypeOK' /\ Guarded'
<1>1. /\ ~Idle /\ ~Idle' /\ frames' = <<top'>>
      /\ top \in BlockFrames /\ top' \in BlockFrames
      /\ top'.saved = top.saved
  BY NoteFrame
<1>2. /\ nullifiers' = nullifiers \cup ToSet(inputs)
      /\ UNCHANGED <<blockHeight, pendingDeposits, faucetInitialized, status, tree, log,
                     assets, rsVars>>
  BY Zenon DEF NoteSteps
<1>3. ToSet(inputs) \subseteq Nat
  BY InputTypes DEF ToSet
<1>4. nullifiers' \in SUBSET Nat
  BY <1>2, <1>3 DEF TypeOK
<1>5. frames' \in Seq(Frames)
  <2>1. top' \in Frames
    BY <1>1 DEF BlockFrames, Frames
  <2> QED
    BY <1>1, <2>1
<1>6. RootStoreTypeOK' /\ AssetsTypeOK'
  BY <1>2 DEF TypeOK, RootStoreTypeOK, rsVars, AssetsTypeOK
<1>7. TypeOK'
  BY <1>2, <1>4, <1>5, <1>6 DEF TypeOK
<1>8. Guarded'
  BY <1>1, <1>2 DEF Guarded
<1> QED
  BY <1>7, <1>8

\* The next note keeps the types.
LEMMA NextNoteTypes ==
    ASSUME TypeOK, Guarded, NextNote
    PROVE  TypeOK' /\ Guarded'
<1>1. PICK root \in rootsMap, inputs \in InputLists, outputs \in OutputLists :
             /\ top.verified
             /\ \/ TransferStep(root, inputs, outputs)
                \/ MintStep(root, inputs, outputs)
                \/ FreezeStep(root, inputs, outputs)
                \/ BurnStep(root, inputs, outputs)
  BY NoteCases
<1> DEFINE D == [HonestTokens -> [Accounts -> Nat]]
<1>2. outputs \in Seq(Records)
  BY OutputTypes
<1>3. UNCHANGED balances => balances' \in D
  BY DEF TypeOK
<1>4. /\ TransferProof(root, inputs, outputs) \in BOOLEAN
      /\ FreezeProof(root, inputs, outputs) \in BOOLEAN
      /\ \A a : MintProof(root, inputs, outputs, a) \in BOOLEAN
  BY Zenon DEF TransferProof, FreezeProof, MintProof
<1>5. {"TRANSFER", "MINT", "FREEZE", "BURN"} = NoteTypes
  BY DEF NoteTypes
<1>6. CASE BurnStep(root, inputs, outputs)
  <2>0. /\ Len(outputs) >= 2
        /\ NoteSteps("BURN", root, inputs, keptOutputs(outputs),
                     TransferProof(root, inputs, outputs), lookup(outputs[2].assetDef))
    BY <1>6, Zenon DEF BurnStep
  <2>1. keptOutputs(outputs) \in Seq(Records)
    BY <2>0, OutputTypes
  <2>2. outputs[2] \in Records
    BY <1>2, <2>0
  <2>3. outputs[2].amount \in Nat /\ outputs[2].assetDef \in AssetDefinitions
    BY <2>2, CapeAssumption DEF Records
  <2>4. lookup(outputs[2].assetDef) \in Erc20Addresses \cup {ZeroAddress}
    BY <2>3 DEF lookup, TypeOK, AssetsTypeOK
  <2>5. PICK recipient \in Accounts :
              Transfer(lookup(outputs[2].assetDef), CapeAddress, recipient, outputs[2].amount)
    BY <1>6, Zenon DEF BurnStep
  <2>7. balances' \in D
    BY <2>3, <2>5, PaidOutTypes
  <2> QED
    BY <1>4, <1>5, <2>0, <2>1, <2>4, <2>7, NoteStepTypes
<1>7. CASE MintStep(root, inputs, outputs)
  <2>1. PICK a : /\ NoteSteps("MINT", root, inputs, outputs,
                              MintProof(root, inputs, outputs, a), ZeroAddress)
                 /\ UNCHANGED balances
    BY <1>7, Zenon DEF MintStep
  <2> QED
    BY <1>2, <1>3, <1>4, <1>5, <2>1, NoteStepTypes
<1>8. CASE TransferStep(root, inputs, outputs)
  BY <1>2, <1>3, <1>4, <1>5, <1>8, NoteStepTypes DEF TransferStep
<1>9. CASE FreezeStep(root, inputs, outputs)
  BY <1>2, <1>3, <1>4, <1>5, <1>9, NoteStepTypes DEF FreezeStep
<1> QED
  BY <1>1, <1>6, <1>7, <1>8, <1>9, Zenon

\* The array of commitments, filled from its start.
LEMMA AccumulatedTypes ==
    ASSUME NEW items \in Seq(Records), NEW length \in Nat, Len(items) <= length
    PROVE  /\ Unfilled(items, length) \in Seq({ZeroCommitment})
           /\ Accumulated(items, length) \in Seq(Leaves)
           /\ Len(Accumulated(items, length)) = length
           /\ items # << >> => length > 0
<1> DEFINE n == length - Len(items)
           u == Unfilled(items, length)
<1>1. n \in Nat /\ Len(items) \in Nat
  OBVIOUS
<1>2. u = [i \in 1 .. n |-> ZeroCommitment]
  BY DEF Unfilled
<1> HIDE DEF u, n
<1>3. u \in Seq({ZeroCommitment}) /\ Len(u) = n
  BY <1>1, <1>2
<1>4. u \in Seq(Leaves) /\ items \in Seq(Leaves)
  BY <1>3, SeqMonotonic DEF Leaves
<1>5. items \o u \in Seq(Leaves) /\ Len(items \o u) = Len(items) + n
  BY <1>3, <1>4, ConcatProperties
<1>6. items # << >> => Len(items) > 0
  OBVIOUS
<1> QED
  BY <1>1, <1>3, <1>5, <1>6 DEF Accumulated, u, n

\* What the end of submitCapeBlock does.
BlockReturns(items, length, padding) ==
    /\ ~Idle /\ top.fn = "submitCapeBlock" /\ frames' = << >>
    /\ ~emptyBlock
    /\ top.notes # << >> => top.verified
    /\ Len(items) <= length
    /\ items # << >> => InsertLeaves(items \o padding)
    /\ items = << >> => padding = << >> /\ UNCHANGED <<tree, rsVars>>
    /\ tree' = tree \o items \o padding
    /\ blockHeight' = blockHeight + 1
    /\ log' = Append(log, Log!BlockEvent(blockHeight + 1, pendingDeposits, top.notes, padding))
    /\ pendingDeposits' = << >>
    /\ status' = "NOT_ENTERED"
    /\ UNCHANGED <<nullifiers, faucetInitialized, balances, assets>>

\* The end of submitCapeBlock.
LEMMA BlockReturnsStep ==
    ASSUME TypeOK, Guarded, submitCapeBlockReturns
    PROVE  \E length \in Nat, padding \in Seq({ZeroCommitment}) :
             /\ length = Len(top.commitments) + top.spare + top.numPending
             /\ top \in BlockFrames
             /\ newCommitments \in Seq(Records)
             /\ BlockReturns(newCommitments, length, padding)
<1> DEFINE items == newCommitments
           length == computeNumCommitments + top.numPending
           padding == IF items # << >> THEN Unfilled(items, length) ELSE << >>
<1>1. /\ ~Idle /\ top.fn = "submitCapeBlock"
      /\ ~emptyBlock
      /\ top.notes # << >> => top.verified
      /\ Len(items) <= length
      /\ IF items # << >> THEN InsertLeaves(Accumulated(items, length))
                          ELSE UNCHANGED <<tree, rsVars>>
      /\ blockHeight' = blockHeight + 1
      /\ log' = Append(log, Log!BlockEvent(blockHeight + 1, pendingDeposits, top.notes,
                             padding))
      /\ pendingDeposits' = << >>
      /\ status' = "NOT_ENTERED"
      /\ frames' = Tail(frames)
      /\ UNCHANGED <<nullifiers, faucetInitialized, balances, assets>>
  BY Zenon DEF submitCapeBlockReturns, Running, queueAfterBlock
<1>2. top \in BlockFrames /\ Tail(frames) = << >>
  BY <1>1, FrameTypes
<1>3. items \in Seq(Records)
  BY <1>2, ConcatProperties DEF newCommitments, BlockFrames, TypeOK
<1>4. length = Len(top.commitments) + top.spare + top.numPending /\ length \in Nat
  BY <1>2 DEF computeNumCommitments, BlockFrames
<1> HIDE DEF items, length
<1>5. /\ Unfilled(items, length) \in Seq({ZeroCommitment})
      /\ Accumulated(items, length) = items \o Unfilled(items, length)
  BY <1>1, <1>3, <1>4, AccumulatedTypes DEF Accumulated
<1>6. padding \in Seq({ZeroCommitment})
  BY <1>5
<1>7. tree \in Seq(Leaves) /\ items \in Seq(Leaves) /\ padding \in Seq(Leaves)
  BY <1>3, <1>6, SeqMonotonic DEF TypeOK, Leaves
<1>8. tree' = tree \o items \o padding
  <2>1. CASE items = << >>
    <3>1. tree \o << >> = tree /\ tree \o << >> \o << >> = tree
      BY <1>7, ConcatEmptySeq, Zenon
    <3> QED
      BY <1>1, <2>1, <3>1
  <2>2. CASE items # << >>
    <3>0. InsertLeaves(items \o padding)
      BY <1>1, <1>5, <2>2
    <3> HIDE DEF padding
    <3>1. tree' = tree \o (items \o padding)
      BY <3>0, Zenon DEF InsertLeaves
    <3>2. (tree \o items) \o padding = tree \o (items \o padding)
      BY <1>7, ConcatAssociative
    <3> QED
      BY <3>1, <3>2, Zenon
  <2> QED
    BY <2>1, <2>2
<1>9. items # << >> => InsertLeaves(items \o padding)
  BY <1>1, <1>5
<1>10. items = << >> => padding = << >> /\ UNCHANGED <<tree, rsVars>>
  BY <1>1
<1>11. frames' = << >>
  BY <1>1, <1>2
<1> HIDE DEF padding
<1>12. BlockReturns(items, length, padding)
  BY <1>1, <1>8, <1>9, <1>10, <1>11, Zenon DEF BlockReturns
<1> QED
  BY <1>2, <1>3, <1>4, <1>6, <1>12 DEF items

\* The end of submitCapeBlock keeps the types.
LEMMA BlockReturnsTypes ==
    ASSUME TypeOK, Guarded, submitCapeBlockReturns
    PROVE  TypeOK' /\ Guarded'
<1>1. PICK length \in Nat, padding \in Seq({ZeroCommitment}) :
             /\ top \in BlockFrames
             /\ newCommitments \in Seq(Records)
             /\ BlockReturns(newCommitments, length, padding)
  BY BlockReturnsStep
<1> DEFINE items == newCommitments
           e == Log!BlockEvent(blockHeight + 1, pendingDeposits, top.notes, padding)
<1>2. /\ items # << >> => InsertLeaves(items \o padding)
      /\ items = << >> => UNCHANGED <<tree, rsVars>>
      /\ blockHeight' = blockHeight + 1
      /\ log' = Append(log, e)
      /\ pendingDeposits' = << >>
      /\ status' = "NOT_ENTERED" /\ frames' = << >>
      /\ UNCHANGED <<nullifiers, faucetInitialized, balances, assets>>
  BY <1>1, Zenon DEF BlockReturns
<1>3. e \in Events
  BY <1>1 DEF Log!BlockEvent, Events, BlockFrames, TypeOK
<1> HIDE DEF e
<1>4. log' \in Seq(Events)
  BY <1>2, <1>3, AppendProperties DEF TypeOK
<1>5. RootStoreTypeOK' /\ tree' \in Seq(Leaves)
  <2>1. CASE items = << >>
    BY <1>2, <2>1 DEF TypeOK, RootStoreTypeOK, rsVars
  <2>2. CASE items # << >>
    <3>1. items \in Seq(Leaves) /\ padding \in Seq(Leaves) /\ Len(items) > 0
      BY <1>1, <2>2, SeqMonotonic DEF Leaves
    <3>2. items \o padding \in Seq(Leaves) /\ Len(items \o padding) > 0
      BY <3>1, ConcatProperties
    <3> QED
      BY <1>2, <2>2, <3>2, InsertTypes
  <2> QED
    BY <2>1, <2>2
<1>6. AssetsTypeOK' /\ blockHeight' \in Nat
  BY <1>2 DEF TypeOK, AssetsTypeOK
<1>7. pendingDeposits' \in Seq(Records) /\ frames' \in Seq(Frames)
  BY <1>2
<1>8. status' \in Statuses
  BY <1>2 DEF Statuses
<1>9. TypeOK'
  BY <1>2, <1>4, <1>5, <1>6, <1>7, <1>8 DEF TypeOK
<1>10. Guarded'
  BY <1>2 DEF Guarded, Idle
<1> QED
  BY <1>9, <1>10

\* A failing call keeps the types.
LEMMA RevertTypes ==
    ASSUME TypeOK, Guarded, revert
    PROVE  TypeOK' /\ Guarded' /\ frames' = << >>
<1>1. ~Idle /\ frames' = Tail(frames)
  BY DEF revert
<1>2. top.saved \in Snapshots /\ top.saved.status = "NOT_ENTERED" /\ frames' = << >>
  BY <1>1, FrameTypes DEF Guarded
<1> DEFINE s == top.saved
<1>3. /\ nullifiers' = s.nullifiers /\ blockHeight' = s.blockHeight
      /\ pendingDeposits' = s.pendingDeposits /\ status' = s.status /\ tree' = s.tree
      /\ balances' = s.balances /\ log' = s.log /\ assets' = s.assets
      /\ roots' = s.roots /\ rootsMap' = s.rootsMap /\ writeHead' = s.writeHead
      /\ added' = s.added /\ UNCHANGED faucetInitialized
  BY DEF revert
<1>4. s \in Snapshots
  BY <1>2
<1> HIDE DEF s
<1>5. RootStoreTypeOK' /\ AssetsTypeOK'
  BY <1>3, <1>4 DEF Snapshots, RootStoreTypeOK, AssetsTypeOK
<1>6. frames' \in Seq(Frames)
  BY <1>2
<1>7. TypeOK'
  BY <1>3, <1>4, <1>5, <1>6 DEF Snapshots, TypeOK
<1>8. Guarded'
  BY <1>2, <1>3 DEF Guarded, Idle, s
<1> QED
  BY <1>2, <1>7, <1>8

\* So does a step that changes nothing.
LEMMA StutterTypes == TypeOK /\ Guarded /\ UNCHANGED vars => TypeOK' /\ Guarded'
BY DEF TypeOK, Guarded, vars, contractVars, rsVars, RootStoreTypeOK, AssetsTypeOK, Idle, top

\* Every step keeps the types.
LEMMA NextTypes == TypeOK /\ Guarded /\ [Next]_vars => TypeOK' /\ Guarded'
BY FaucetTypes, SponsorTypes, DepositTypes, DepositReturnsTypes, SubmitTypes, NextNoteTypes,
   BlockReturnsTypes, RevertTypes, StutterTypes DEF Next

(***************************************************************************)
(* The state keeps its types, and nonReentrant keeps calls from nesting:   *)
(* while deposit or submission of a block waits for a token, neither of    *)
(* them can start again (CAPE.sol depositErc20, submitCapeBlock).          *)
(***************************************************************************)
THEOREM CapeTypesCorrect == Spec => [](TypeOK /\ Guarded)
BY InitTypes, NextTypes, PTL DEF Spec

-----------------------------------------------------------------------------
(* Wrapped records are backed.                                             *)

\* Only foreign assets are registered, each for the token that its code names.
RegistryOK(registry) ==
    \A a \in AssetDefinitions :
        registry[a] # ZeroAddress => IsForeign(a) /\ registry[a] = a.code[2]

\* The foreign records of a list that are worth anything are registered.
Backed(registry, list) ==
    \A i \in 1 .. Len(list) :
        list[i] # ZeroCommitment /\ IsForeign(list[i].assetDef) /\ list[i].amount > 0
          => registry[list[i].assetDef] = list[i].assetDef.code[2]

(***************************************************************************)
(* The invariant: besides the tree and the queue, the state that a failing *)
(* call restores, and the records of the block in progress, as long as its *)
(* proofs verify.                                                          *)
(***************************************************************************)
BackedInv ==
    /\ RegistryOK(assets)
    /\ Backed(assets, tree)
    /\ Backed(assets, pendingDeposits)
    /\ ~Idle => /\ RegistryOK(top.saved.assets)
                /\ Backed(top.saved.assets, top.saved.tree)
                /\ Backed(top.saved.assets, top.saved.pendingDeposits)
    /\ ~Idle /\ top.fn = "submitCapeBlock" =>
          /\ top.verified => Backed(assets, top.commitments)
          /\ top.notes = << >> => top.verified

\* The codes of assets.
LEMMA AssetCodeFacts ==
    /\ \A a \in AssetDefinitions : IsForeign(a) =>
          a.code[2] \in Erc20Addresses /\ a.code[2] # ZeroAddress
    /\ ~IsForeign(NativeAsset)
    /\ \A a \in AssetDefinitions : \A c : IsDomesticCode(a.code, c) => ~IsForeign(a)
    /\ \A a, e, s, p : IsForeignCode(a.code, e, s, p) => IsForeign(a) /\ a.code[2] = e
<1>1. ASSUME NEW a \in AssetDefinitions, IsForeign(a)
      PROVE  a.code[2] \in Erc20Addresses /\ a.code[2] # ZeroAddress
  <2>1. a.code \in AssetCodes
    BY AssetRegistryAssumption
  <2>2. a.code[1] = "FOREIGN_ASSET"
    BY <1>1 DEF IsForeign
  <2>3. PICK e \in Erc20Addresses, s \in Sponsors, p \in Policies :
             a.code = ForeignAssetCode(e, s, p)
    BY <2>1, <2>2 DEF AssetCodes, NativeAssetCode, DomesticAssetCode
  <2>4. a.code[2] = e
    BY <2>3 DEF ForeignAssetCode
  <2> QED
    BY <2>4, AssetRegistryAssumption
<1>2. ~IsForeign(NativeAsset)
  BY DEF IsForeign, NativeAsset, NativeAssetCode
<1>3. \A a \in AssetDefinitions : \A c : IsDomesticCode(a.code, c) => ~IsForeign(a)
  BY DEF IsDomesticCode, IsForeign, DomesticAssetCode
<1>4. \A a, e, s, p : IsForeignCode(a.code, e, s, p) => IsForeign(a) /\ a.code[2] = e
  BY DEF IsForeignCode, IsForeign, ForeignAssetCode
<1> QED
  BY <1>1, <1>2, <1>3, <1>4

\* Native records are in no token's books.
LEMMA NativeUnregistered ==
    ASSUME NEW registry, RegistryOK(registry)
    PROVE  registry[NativeAsset] = ZeroAddress
BY AssetCodeFacts, AssetRegistryAssumption DEF RegistryOK

-----------------------------------------------------------------------------
(* The steps, with what they start from and leave behind.                  *)

\* Setting up the faucet inserts one native record.
LEMMA FaucetStep ==
    ASSUME TypeOK, Guarded, NEW s \in Users, faucetSetupForTestnet(s)
    PROVE  \E ro \in Records :
             /\ ro.assetDef = NativeAsset
             /\ Idle /\ Idle' /\ ~faucetInitialized /\ faucetInitialized' = TRUE
             /\ tree' = tree \o <<ro>>
             /\ log' = Append(log, Log!FaucetEvent(ro))
             /\ UNCHANGED <<nullifiers, blockHeight, pendingDeposits, balances, assets, frames>>
<1> DEFINE ro == [assetDef |-> NativeAsset, amount |-> FaucetAmount, freezeFlag |-> FALSE]
<1>1. ro \in Records /\ ro.assetDef = NativeAsset
  BY CapeAssumption, AssetRegistryAssumption DEF Records
<1> HIDE DEF ro
<1>2. /\ Idle /\ ~faucetInitialized /\ faucetInitialized' = TRUE /\ InsertLeaves(<<ro>>)
      /\ log' = Append(log, Log!FaucetEvent(ro))
      /\ UNCHANGED <<nullifiers, blockHeight, pendingDeposits, balances, assets, frames>>
  BY Zenon DEF faucetSetupForTestnet, ro
<1>3. tree' = tree \o <<ro>>
  BY <1>2, Zenon DEF InsertLeaves
<1>4. Idle'
  BY <1>2, Zenon DEF Idle
<1> QED
  BY <1>1, <1>2, <1>3, <1>4, Zenon

\* Sponsoring registers an unregistered foreign asset for its own token.
LEMMA SponsorStep ==
    ASSUME TypeOK, Guarded, Sponsor
    PROVE  \E e \in Erc20Addresses, a \in AssetDefinitions :
             /\ assets[a] = ZeroAddress /\ IsForeign(a) /\ a.code[2] = e
             /\ assets' = [assets EXCEPT ![a] = e]
             /\ log' = Append(log, Log!SponsorEvent(e, a))
             /\ top' = top /\ (Idle' <=> Idle)
             /\ UNCHANGED <<nullifiers, blockHeight, pendingDeposits, faucetInitialized,
                            tree, balances, frames>>
<1>1. PICK s \in Sponsors, e \in Erc20Addresses \cup {ZeroAddress}, a \in AssetDefinitions :
           sponsorCapeAsset(s, e, a)
  BY DEF Sponsor
<1>2. /\ RegisterAsset(s, e, a) /\ log' = Append(log, Log!SponsorEvent(e, a))
      /\ UNCHANGED <<nullifiers, blockHeight, pendingDeposits, faucetInitialized,
                     tree, balances, frames>>
  BY <1>1 DEF sponsorCapeAsset
<1>3. /\ e \in Erc20Addresses /\ assets' = [assets EXCEPT ![a] = e] /\ assets[a] = ZeroAddress
      /\ IsForeign(a) /\ a.code[2] = e
  BY <1>2, AssetCodeFacts DEF RegisterAsset, isCapeAssetRegistered, lookup
<1>4. top' = top /\ (Idle' <=> Idle)
  BY <1>2, Zenon DEF top, Idle
<1> QED
  BY <1>2, <1>3, <1>4, Zenon

\* A deposit queues a record of a registered asset and waits for its token.
LEMMA DepositStep ==
    ASSUME TypeOK, Guarded, Deposit
    PROVE  \E ro \in Records, e \in Erc20Addresses :
             /\ Idle /\ ~Idle'
             /\ assets[ro.assetDef] = e /\ e # ZeroAddress
             /\ Len(pendingDeposits) < MAX_NUM_PENDING_DEPOSIT
             /\ pendingDeposits' = Append(pendingDeposits, ro)
             /\ top'.fn = "depositErc20" /\ top'.opening = ro /\ top'.callee = e
             /\ top'.saved = Snapshot
             /\ UNCHANGED <<nullifiers, blockHeight, faucetInitialized, tree, balances, log,
                            assets>>
<1>1. PICK s \in Sponsors, ro \in Records, e \in Erc20Addresses : depositErc20(s, ro, e)
  BY DEF Deposit
<1> DEFINE f == [fn |-> "depositErc20", callee |-> e, opening |-> ro,
                 sender |-> s, saved |-> Snapshot]
<1>2. /\ nonReentrant
      /\ pendingDeposits' = Append(pendingDeposits, ro)
      /\ frames' = <<f>> \o frames
      /\ UNCHANGED <<nullifiers, blockHeight, faucetInitialized, tree, balances, log,
                     assets, rsVars>>
      /\ isCapeAssetRegistered(ro.assetDef)
      /\ lookup(ro.assetDef) = e
      /\ ~queueFull
  BY <1>1 DEF depositErc20
<1>3. f.fn = "depositErc20" /\ f.opening = ro /\ f.callee = e /\ f.saved = Snapshot
  OBVIOUS
<1> HIDE DEF f
<1>4. Idle
  BY <1>2, GuardFree
<1>5. frames' = <<f>>
  BY <1>2, <1>4 DEF Idle
<1>6. top' = f /\ ~Idle'
  BY <1>5, OneFrame
<1>7. Len(pendingDeposits) < MAX_NUM_PENDING_DEPOSIT
  BY <1>2, CapeAssumption DEF queueFull, TypeOK
<1>8. assets[ro.assetDef] = e /\ e # ZeroAddress
  BY <1>2 DEF isCapeAssetRegistered, lookup
<1> QED
  BY <1>2, <1>3, <1>4, <1>6, <1>7, <1>8

\* The token returns: it has moved the amount to the contract.
LEMMA DepositReturnsStep ==
    ASSUME TypeOK, Guarded, depositErc20Returns
    PROVE  /\ ~Idle /\ top.fn = "depositErc20" /\ top \in DepositFrames /\ Idle'
           /\ \A t \in HonestTokens :
                 balances'[t][CapeAddress] =
                    IF t = top.callee THEN balances[t][CapeAddress] + top.opening.amount
                                      ELSE balances[t][CapeAddress]
           /\ log' = Append(log, Log!DepositEvent(top.opening, top.sender))
           /\ UNCHANGED <<nullifiers, blockHeight, pendingDeposits, faucetInitialized, tree,
                          assets>>
<1>1. /\ ~Idle /\ top.fn = "depositErc20"
      /\ Transfer(top.callee, top.sender, CapeAddress, top.opening.amount)
      /\ log' = Append(log, Log!DepositEvent(top.opening, top.sender))
      /\ frames' = Tail(frames)
      /\ UNCHANGED <<nullifiers, blockHeight, pendingDeposits, faucetInitialized, tree,
                     assets>>
  BY Zenon DEF depositErc20Returns, Running
<1>2. top \in DepositFrames /\ Tail(frames) = << >>
  BY <1>1, FrameTypes
<1>3. top.opening \in Records /\ top.sender \in Users \cup ReentrantTokens
  BY <1>2 DEF DepositFrames
<1>4. top.opening.amount \in Nat
  BY <1>3, CapeAssumption DEF Records
<1>5. top.sender \in Accounts /\ CapeAddress \in Accounts /\ top.sender # CapeAddress
  BY <1>3, CapeAssumption DEF Accounts
<1>6. \A t \in HonestTokens :
         balances'[t][CapeAddress] =
            IF t = top.callee THEN balances[t][CapeAddress] + top.opening.amount
                              ELSE balances[t][CapeAddress]
  BY <1>1, <1>4, <1>5, PaidIn
<1>7. Idle'
  BY <1>1, <1>2 DEF Idle
<1> QED
  BY <1>1, <1>2, <1>5, <1>6, <1>7

\* A block starts with no notes.
LEMMA SubmitStep ==
    ASSUME TypeOK, Guarded, SubmitBlock
    PROVE  /\ Idle /\ ~Idle' /\ top'.fn = "submitCapeBlock"
           /\ top'.notes = << >> /\ top'.commitments = << >> /\ top'.verified
           /\ top'.numPending = Len(pendingDeposits) /\ top'.saved = Snapshot
           /\ UNCHANGED <<nullifiers, blockHeight, pendingDeposits, faucetInitialized, tree,
                          balances, log, assets>>
<1>1. PICK s \in Sponsors, spare \in 0 .. MaxSpare : submitCapeBlock(s, spare)
  BY DEF SubmitBlock
<1> DEFINE f == [fn |-> "submitCapeBlock", callee |-> ZeroAddress, notes |-> << >>,
                 commitments |-> << >>, verified |-> TRUE, spare |-> spare,
                 numPending |-> Len(pendingDeposits), saved |-> Snapshot]
<1>2. /\ nonReentrant
      /\ frames' = <<f>> \o frames
      /\ UNCHANGED <<nullifiers, blockHeight, pendingDeposits, faucetInitialized, tree,
                     balances, log, assets>>
  BY <1>1 DEF submitCapeBlock
<1>3. /\ f.fn = "submitCapeBlock" /\ f.notes = << >> /\ f.commitments = << >>
      /\ f.numPending = Len(pendingDeposits) /\ f.saved = Snapshot
  OBVIOUS
<1>4. f.verified
  OBVIOUS
<1> HIDE DEF f
<1>5. Idle
  BY <1>2, GuardFree
<1>6. frames' = <<f>>
  BY <1>2, <1>5 DEF Idle
<1>7. top' = f /\ ~Idle'
  BY <1>6, OneFrame
<1> QED
  BY <1>2, <1>3, <1>4, <1>5, <1>7

\* What is saved is the state.
LEMMA SnapshotFields ==
    /\ Snapshot.nullifiers = nullifiers /\ Snapshot.blockHeight = blockHeight
    /\ Snapshot.pendingDeposits = pendingDeposits /\ Snapshot.tree = tree
    /\ Snapshot.balances = balances /\ Snapshot.log = log /\ Snapshot.assets = assets
BY DEF Snapshot

\* A failing call puts the saved state back.
LEMMA RevertStep ==
    ASSUME TypeOK, Guarded, revert
    PROVE  /\ ~Idle /\ Idle' /\ top.saved \in Snapshots
           /\ nullifiers' = top.saved.nullifiers /\ blockHeight' = top.saved.blockHeight
           /\ pendingDeposits' = top.saved.pendingDeposits /\ tree' = top.saved.tree
           /\ balances' = top.saved.balances /\ log' = top.saved.log
           /\ assets' = top.saved.assets /\ UNCHANGED faucetInitialized
<1>1. ~Idle /\ top.saved \in Snapshots /\ frames' = << >>
  BY FrameTypes, RevertTypes DEF revert
<1> QED
  BY <1>1, Zenon DEF revert, Idle

-----------------------------------------------------------------------------
(* The backing is kept.                                                    *)

\* Sponsoring an asset leaves the backed records backed.
LEMMA SponsorBacked ==
    ASSUME NEW registry \in [AssetDefinitions -> Erc20Addresses \cup {ZeroAddress}],
           NEW a \in AssetDefinitions, NEW e \in Erc20Addresses, registry[a] = ZeroAddress,
           NEW list \in Seq(Leaves), Backed(registry, list)
    PROVE  Backed([registry EXCEPT ![a] = e], list)
<1> SUFFICES ASSUME NEW i \in 1 .. Len(list),
                    list[i] # ZeroCommitment, IsForeign(list[i].assetDef), list[i].amount > 0
             PROVE  [registry EXCEPT ![a] = e][list[i].assetDef] = list[i].assetDef.code[2]
  BY DEF Backed
<1>1. list[i] \in Records
  BY DEF Leaves
<1>2. list[i].assetDef \in AssetDefinitions
  BY <1>1 DEF Records
<1>3. registry[list[i].assetDef] = list[i].assetDef.code[2]
  BY DEF Backed
<1>4. registry[list[i].assetDef] # ZeroAddress
  BY <1>2, <1>3, AssetCodeFacts
<1> QED
  BY <1>2, <1>3, <1>4

\* One list of backed records after another.
LEMMA ConcatBacked ==
    ASSUME NEW registry, NEW s \in Seq(Leaves), NEW u \in Seq(Leaves),
           Backed(registry, s), Backed(registry, u)
    PROVE  Backed(registry, s \o u)
<1>1. /\ s \o u \in Seq(Leaves)
      /\ Len(s \o u) = Len(s) + Len(u)
      /\ \A i \in 1 .. Len(s) + Len(u) : (s \o u)[i] =
              IF i <= Len(s) THEN s[i] ELSE u[i - Len(s)]
  BY ConcatProperties
<1>2. Len(s) \in Nat /\ Len(u) \in Nat
  OBVIOUS
<1> SUFFICES ASSUME NEW i \in 1 .. Len(s) + Len(u)
             PROVE  LET r == (s \o u)[i]
                    IN  r # ZeroCommitment /\ IsForeign(r.assetDef) /\ r.amount > 0
                          => registry[r.assetDef] = r.assetDef.code[2]
  BY <1>1 DEF Backed
<1>3. CASE i <= Len(s)
  <2>1. i \in 1 .. Len(s) /\ (s \o u)[i] = s[i]
    BY <1>1, <1>2, <1>3
  <2> QED
    BY <2>1 DEF Backed
<1>4. CASE i > Len(s)
  <2>1. i - Len(s) \in 1 .. Len(u) /\ (s \o u)[i] = u[i - Len(s)]
    BY <1>1, <1>2, <1>4
  <2> QED
    BY <2>1 DEF Backed
<1> QED
  BY <1>2, <1>3, <1>4

\* The total of an asset in a list is at least each part, and zero if they are.
LEMMA TotalFacts ==
    ASSUME NEW list \in Seq(Records), NEW a
    PROVE  /\ Total(list, a) \in Nat
           /\ \A i \in 1 .. Len(list) :
                 list[i].assetDef = a => list[i].amount <= Total(list, a)
           /\ (\A i \in 1 .. Len(list) : list[i].assetDef = a => list[i].amount = 0)
                 => Total(list, a) = 0
<1> DEFINE f == [i \in DOMAIN list |-> IF list[i].assetDef = a THEN list[i].amount ELSE 0]
           n == Len(list)
<1>1. n \in Nat /\ DOMAIN list = 1 .. n /\ \A i \in 1 .. n : list[i] \in Records
  OBVIOUS
<1>2. \A i \in 1 .. n : list[i].amount \in Nat
  BY <1>1, CapeAssumption DEF Records
<1>3. \A i \in 1 .. n : /\ f[i] = IF list[i].assetDef = a THEN list[i].amount ELSE 0
                        /\ f[i] \in Nat
  BY <1>1, <1>2
<1>4. Total(list, a) = SumTo(f, n)
  BY DEF Total
<1> HIDE DEF f, n
<1>5. SumTo(f, n) \in Nat
  BY <1>1, <1>3, SumType
<1>6. ASSUME NEW i \in 1 .. n, list[i].assetDef = a PROVE list[i].amount <= SumTo(f, n)
  BY <1>1, <1>3, <1>6, SumBounds
<1>7. ASSUME \A i \in 1 .. n : list[i].assetDef = a => list[i].amount = 0
      PROVE  SumTo(f, n) = 0
  <2>1. \A i \in 1 .. n : f[i] = 0
    BY <1>3, <1>7
  <2> QED
    BY <1>1, <2>1, SumOfZeros
<1> QED
  BY <1>4, <1>5, <1>6, <1>7 DEF n

\* The records that a note spends.
LEMMA OpenedTypes ==
    ASSUME TypeOK, NEW root, NEW inputs \in InputLists, InTree(root, inputs)
    PROVE  /\ Opened(inputs) \in Seq(Records)
           /\ Len(Opened(inputs)) = Len(inputs)
           /\ \A i \in 1 .. Len(inputs) : /\ Opened(inputs)[i] = tree[inputs[i]]
                                          /\ inputs[i] \in 1 .. Len(tree)
                                          /\ tree[inputs[i]] # ZeroCommitment
                                          /\ tree[inputs[i]] \in Records
<1> DEFINE n == Len(inputs)
           o == Opened(inputs)
<1>1. /\ n \in Nat /\ DOMAIN inputs = 1 .. n
      /\ \A i \in 1 .. n : inputs[i] \in 1 .. Len(tree)
  BY InputTypes
<1>2. \A i \in 1 .. n : tree[inputs[i]] \in Leaves /\ tree[inputs[i]] # ZeroCommitment
  <2>1. tree \in Seq(Leaves)
    BY DEF TypeOK
  <2>2. \A k \in 1 .. Len(tree) : tree[k] \in Leaves
    BY <2>1
  <2>3. \A i \in 1 .. n : tree[inputs[i]] # ZeroCommitment
    BY <1>1 DEF InTree
  <2> QED
    BY <1>1, <2>2, <2>3
<1>3. \A i \in 1 .. n : tree[inputs[i]] \in Records
  BY <1>2 DEF Leaves
<1>4. o = [i \in 1 .. n |-> tree[inputs[i]]]
  BY <1>1 DEF Opened
<1> HIDE DEF o, n
<1>5. o \in Seq(Records) /\ Len(o) = n /\ \A i \in 1 .. n : o[i] = tree[inputs[i]]
  BY <1>1, <1>3, <1>4
<1> QED
  BY <1>1, <1>2, <1>3, <1>5 DEF o, n

(***************************************************************************)
(* A transfer: what an asset has in the outputs it has in the inputs, so a *)
(* foreign output that is worth something comes from such an input.        *)
(***************************************************************************)
LEMMA TransferBacked ==
    ASSUME TypeOK, Backed(assets, tree), NEW root, NEW inputs \in InputLists,
           NEW outputs \in OutputLists, TransferProof(root, inputs, outputs)
    PROVE  Backed(assets, outputs)
<1> DEFINE ins == Opened(inputs)
<1>1. /\ InTree(root, inputs)
      /\ \A a \in AssetDefinitions \ {NativeAsset} : Total(ins, a) = Total(outputs, a)
  BY Zenon DEF TransferProof
<1>2. /\ ins \in Seq(Records) /\ Len(ins) = Len(inputs)
      /\ \A i \in 1 .. Len(inputs) : /\ ins[i] = tree[inputs[i]]
                                     /\ inputs[i] \in 1 .. Len(tree)
                                     /\ tree[inputs[i]] # ZeroCommitment
                                     /\ tree[inputs[i]] \in Records
  BY <1>1, OpenedTypes
<1>3. outputs \in Seq(Records) /\ \A i \in 1 .. Len(outputs) : outputs[i] \in Records
  BY OutputTypes
<1> HIDE DEF ins
<1> SUFFICES ASSUME NEW i \in 1 .. Len(outputs), IsForeign(outputs[i].assetDef),
                    outputs[i].amount > 0
             PROVE  assets[outputs[i].assetDef] = outputs[i].assetDef.code[2]
  BY DEF Backed
<1> DEFINE a == outputs[i].assetDef
<1>4. a \in AssetDefinitions \ {NativeAsset} /\ outputs[i].amount \in Nat
  BY <1>3, AssetCodeFacts, CapeAssumption DEF Records
<1>5. outputs[i].amount <= Total(outputs, a) /\ Total(outputs, a) \in Nat
  BY <1>3, TotalFacts
<1>6. Total(ins, a) # 0
  BY <1>1, <1>4, <1>5
<1>7. PICK j \in 1 .. Len(ins) : ins[j].assetDef = a /\ ins[j].amount # 0
  BY <1>2, <1>6, TotalFacts
<1>8. ins[j] \in Records /\ ins[j] = tree[inputs[j]] /\ inputs[j] \in 1 .. Len(tree)
      /\ tree[inputs[j]] # ZeroCommitment
  BY <1>2
<1>9. ins[j].amount > 0
  <2>1. ins[j].amount \in Nat
    BY <1>8, CapeAssumption DEF Records
  <2> QED
    BY <1>7, <2>1
<1>10. assets[ins[j].assetDef] = ins[j].assetDef.code[2]
  BY <1>7, <1>8, <1>9 DEF Backed
<1> QED
  BY <1>7, <1>10

\* A mint has a native output and a domestic one.
LEMMA MintOutputs ==
    ASSUME NEW inputs \in InputLists, NEW outputs \in OutputLists, NEW root,
           NEW a \in AssetDefinitions, NEW c, IsDomesticCode(a.code, c),
           HasVerifyingKey("MINT", inputs, outputs), MintProof(root, inputs, outputs, a)
    PROVE  /\ Len(inputs) = 1 /\ Len(outputs) = 2
           /\ tree[inputs[1]].assetDef = NativeAsset
           /\ \A i \in 1 .. Len(outputs) : ~IsForeign(outputs[i].assetDef)
<1>1. <<"MINT", Len(inputs), Len(outputs)>> \in VkIds
  BY DEF HasVerifyingKey
<1>2. Len(inputs) = 1 /\ Len(outputs) = 2
  BY <1>1, CapeAssumption
<1>3. /\ outputs[2].assetDef = a
      /\ PaysFee(Opened(inputs), <<outputs[1]>>)
  BY Zenon DEF MintProof
<1>4. outputs[1].assetDef = NativeAsset /\ Opened(inputs)[1].assetDef = NativeAsset
  BY <1>3 DEF PaysFee
<1>5. ~IsForeign(outputs[1].assetDef) /\ ~IsForeign(outputs[2].assetDef)
  BY <1>3, <1>4, AssetCodeFacts
<1>6. 1 \in DOMAIN inputs
  <2>1. PICK n \in 1 .. MaxInputs : inputs \in [1 .. n -> 1 .. Len(tree)]
    BY DEF InputLists
  <2> QED
    BY <2>1, CapeAssumption
<1>7. Opened(inputs)[1] = tree[inputs[1]]
  BY <1>6 DEF Opened
<1> QED
  BY <1>2, <1>4, <1>5, <1>7

\* A freeze copies its inputs, but for the flag.
LEMMA FreezeOutputs ==
    ASSUME TypeOK, NEW inputs \in InputLists, NEW outputs \in OutputLists, NEW root,
           HasVerifyingKey("FREEZE", inputs, outputs), FreezeProof(root, inputs, outputs)
    PROVE  /\ Len(inputs) = Len(outputs) /\ Len(inputs) >= 2
           /\ tree[inputs[1]].assetDef = NativeAsset /\ outputs[1].assetDef = NativeAsset
           /\ \A i \in 1 .. Len(inputs) : i # 1 =>
                 /\ outputs[i].assetDef = tree[inputs[i]].assetDef
                 /\ outputs[i].amount = tree[inputs[i]].amount
           /\ \A i \in 1 .. Len(inputs) : /\ inputs[i] \in 1 .. Len(tree)
                                          /\ tree[inputs[i]] \in Records
                                          /\ tree[inputs[i]] # ZeroCommitment
<1>1. <<"FREEZE", Len(inputs), Len(outputs)>> \in VkIds
  BY DEF HasVerifyingKey
<1>2. Len(inputs) = Len(outputs) /\ Len(inputs) >= 2
  BY <1>1, CapeAssumption
<1>3. /\ InTree(root, inputs)
      /\ PaysFee(Opened(inputs), outputs)
      /\ \A i \in 2 .. Len(inputs) :
            outputs[i] = [tree[inputs[i]] EXCEPT !.freezeFlag = ~@]
  BY Zenon DEF FreezeProof
<1>4. \A i \in 1 .. Len(inputs) : /\ Opened(inputs)[i] = tree[inputs[i]]
                                  /\ inputs[i] \in 1 .. Len(tree)
                                  /\ tree[inputs[i]] \in Records
                                  /\ tree[inputs[i]] # ZeroCommitment
  BY <1>3, OpenedTypes
<1>5. Len(inputs) \in Nat
  BY InputTypes
<1>6. outputs[1].assetDef = NativeAsset /\ tree[inputs[1]].assetDef = NativeAsset
  BY <1>2, <1>3, <1>4, <1>5 DEF PaysFee
<1>7. ASSUME NEW i \in 1 .. Len(inputs), i # 1
      PROVE  /\ outputs[i].assetDef = tree[inputs[i]].assetDef
             /\ outputs[i].amount = tree[inputs[i]].amount
  <2>1. i \in 2 .. Len(inputs) /\ tree[inputs[i]] \in Records
    BY <1>4, <1>5, <1>7
  <2> QED
    BY <1>3, <2>1 DEF Records
<1> QED
  BY <1>2, <1>4, <1>6, <1>7

\* The records that a verified note adds are backed.
LEMMA NoteBacked ==
    ASSUME TypeOK, Guarded, Backed(assets, tree), NextNote
    PROVE  \E inserted \in Seq(Records) :
              /\ ~Idle /\ ~Idle' /\ top.fn = "submitCapeBlock" /\ top'.fn = "submitCapeBlock"
              /\ top'.commitments = top.commitments \o inserted
              /\ top.verified
              /\ top'.verified => Backed(assets, inserted)
              /\ top'.notes # << >>
              /\ top'.saved = top.saved
              /\ UNCHANGED <<pendingDeposits, tree, assets>>
<1>1. PICK root \in rootsMap, inputs \in InputLists, outputs \in OutputLists :
             /\ top.verified
             /\ \/ TransferStep(root, inputs, outputs)
                \/ MintStep(root, inputs, outputs)
                \/ FreezeStep(root, inputs, outputs)
                \/ BurnStep(root, inputs, outputs)
  BY NoteCases
<1>2. outputs \in Seq(Records) /\ \A i \in 1 .. Len(outputs) : outputs[i] \in Records
  BY OutputTypes
<1>3. ASSUME NEW type \in NoteTypes, NEW inserted \in Seq(Records), NEW proof \in BOOLEAN,
             NEW callee \in Erc20Addresses \cup {ZeroAddress},
             NoteSteps(type, root, inputs, inserted, proof, callee),
             proof => Backed(assets, inserted)
      PROVE  /\ ~Idle /\ ~Idle' /\ top.fn = "submitCapeBlock" /\ top'.fn = "submitCapeBlock"
             /\ top'.commitments = top.commitments \o inserted
             /\ top'.verified => Backed(assets, inserted)
             /\ top'.notes # << >>
             /\ top'.saved = top.saved
             /\ UNCHANGED <<pendingDeposits, tree, assets>>
  <2> DEFINE note == [type |-> type, spent |-> inputs, outputs |-> inserted]
  <2>1. /\ ~Idle /\ ~Idle' /\ top \in BlockFrames /\ top' \in BlockFrames
        /\ note \in CommittedNotes
        /\ top'.notes = Append(top.notes, note)
        /\ top'.commitments = top.commitments \o inserted
        /\ top'.verified = (top.verified /\ proof)
        /\ top'.saved = top.saved
    BY <1>3, NoteFrame
  <2> HIDE DEF note
  <2>2. UNCHANGED <<pendingDeposits, tree, assets>>
    BY <1>3, Zenon DEF NoteSteps
  <2>3. top.fn = "submitCapeBlock" /\ top'.fn = "submitCapeBlock" /\ top.notes \in Seq(CommittedNotes)
    BY <2>1 DEF BlockFrames
  <2>4. top'.notes # << >>
    BY <2>1, <2>3, AppendProperties
  <2> QED
    BY <1>3, <2>1, <2>2, <2>3, <2>4
<1>4. /\ TransferProof(root, inputs, outputs) \in BOOLEAN
      /\ FreezeProof(root, inputs, outputs) \in BOOLEAN
      /\ \A a : MintProof(root, inputs, outputs, a) \in BOOLEAN
  BY Zenon DEF TransferProof, FreezeProof, MintProof
<1>5. "TRANSFER" \in NoteTypes /\ "MINT" \in NoteTypes /\ "FREEZE" \in NoteTypes /\ "BURN" \in NoteTypes
  BY DEF NoteTypes
<1>6. CASE TransferStep(root, inputs, outputs)
  <2>1. TransferProof(root, inputs, outputs) => Backed(assets, outputs)
    BY TransferBacked
  <2>2. NoteSteps("TRANSFER", root, inputs, outputs, TransferProof(root, inputs, outputs),
                 ZeroAddress)
    BY <1>6, Zenon DEF TransferStep
  <2> QED
    BY <1>1, <1>2, <1>3, <1>4, <1>5, <2>1, <2>2
<1>7. CASE MintStep(root, inputs, outputs)
  <2>0. HasVerifyingKey("MINT", inputs, outputs)
    BY <1>7, Zenon DEF MintStep
  <2>1. PICK a \in AssetDefinitions, c \in InternalCodes :
             /\ IsDomesticCode(a.code, c)
             /\ NoteSteps("MINT", root, inputs, outputs, MintProof(root, inputs, outputs, a),
                          ZeroAddress)
    BY <1>7, Zenon DEF MintStep
  <2>2. MintProof(root, inputs, outputs, a) => Backed(assets, outputs)
    BY <2>0, <2>1, MintOutputs DEF Backed
  <2> QED
    BY <1>1, <1>2, <1>3, <1>4, <1>5, <2>1, <2>2
<1>8. CASE FreezeStep(root, inputs, outputs)
  <2>1. HasVerifyingKey("FREEZE", inputs, outputs)
        /\ NoteSteps("FREEZE", root, inputs, outputs, FreezeProof(root, inputs, outputs),
                     ZeroAddress)
    BY <1>8, Zenon DEF FreezeStep
  <2>2. ASSUME FreezeProof(root, inputs, outputs), NEW i \in 1 .. Len(outputs),
               IsForeign(outputs[i].assetDef), outputs[i].amount > 0
        PROVE  assets[outputs[i].assetDef] = outputs[i].assetDef.code[2]
    <3>1. /\ Len(inputs) = Len(outputs)
          /\ outputs[1].assetDef = NativeAsset
          /\ \A j \in 1 .. Len(inputs) : j # 1 =>
                /\ outputs[j].assetDef = tree[inputs[j]].assetDef
                /\ outputs[j].amount = tree[inputs[j]].amount
          /\ \A j \in 1 .. Len(inputs) : /\ inputs[j] \in 1 .. Len(tree)
                                         /\ tree[inputs[j]] # ZeroCommitment
      BY <2>1, <2>2, FreezeOutputs
    <3>2. i # 1
      BY <2>2, <3>1, AssetCodeFacts
    <3> QED
      BY <2>2, <3>1, <3>2 DEF Backed
  <2>3. FreezeProof(root, inputs, outputs) => Backed(assets, outputs)
    BY <2>2 DEF Backed
  <2> QED
    BY <1>1, <1>2, <1>3, <1>4, <1>5, <2>1, <2>3
<1>9. CASE BurnStep(root, inputs, outputs)
  <2> DEFINE kept == keptOutputs(outputs)
             callee == lookup(outputs[2].assetDef)
  <2>1. /\ Len(outputs) >= 2
        /\ NoteSteps("BURN", root, inputs, kept, TransferProof(root, inputs, outputs), callee)
    BY <1>9, Zenon DEF BurnStep
  <2>2. /\ kept \in Seq(Records)
        /\ Len(kept) = Len(outputs) - 1
        /\ \A i \in 1 .. Len(outputs) - 1 :
              kept[i] = IF i = 1 THEN outputs[1] ELSE outputs[i + 1]
    BY <2>1, OutputTypes
  <2>3. outputs[2].assetDef \in AssetDefinitions
    BY <1>2, <2>1 DEF Records
  <2>4. callee \in Erc20Addresses \cup {ZeroAddress}
    BY <2>3 DEF lookup, TypeOK, AssetsTypeOK
  <2> HIDE DEF kept, callee
  <2>5. ASSUME TransferProof(root, inputs, outputs) PROVE Backed(assets, kept)
    <3>1. Backed(assets, outputs)
      BY <2>5, TransferBacked
    <3>2. \A i \in 1 .. Len(kept) : \E j \in 1 .. Len(outputs) : kept[i] = outputs[j]
      <4> SUFFICES ASSUME NEW i \in 1 .. Len(kept)
                   PROVE  \E j \in 1 .. Len(outputs) : kept[i] = outputs[j]
        OBVIOUS
      <4>1. Len(outputs) \in Nat
        BY <1>2
      <4>2. i \in 1 .. Len(outputs) - 1 /\ i + 1 \in 1 .. Len(outputs) /\ 1 \in 1 .. Len(outputs)
        BY <2>1, <2>2, <4>1
      <4> QED
        BY <2>2, <4>2
    <3> QED
      BY <3>1, <3>2 DEF Backed
  <2> QED
    BY <1>1, <1>3, <1>4, <1>5, <2>1, <2>2, <2>4, <2>5
<1> QED
  BY <1>1, <1>6, <1>7, <1>8, <1>9, Zenon

\* Adding one backed record to a backed list.
LEMMA AppendBacked ==
    ASSUME NEW registry, NEW s \in Seq(Leaves), NEW r \in Records, Backed(registry, s),
           IsForeign(r.assetDef) /\ r.amount > 0 => registry[r.assetDef] = r.assetDef.code[2]
    PROVE  Backed(registry, Append(s, r)) /\ Backed(registry, s \o <<r>>)
<1>1. r \in Leaves
  BY DEF Leaves
<1>2. /\ Len(Append(s, r)) = Len(s) + 1 /\ Append(s, r)[Len(s) + 1] = r
      /\ \A i \in 1 .. Len(s) : Append(s, r)[i] = s[i]
      /\ Append(s, r) = s \o <<r>>
  BY <1>1, AppendProperties, AppendIsConcat
<1>3. \A i \in 1 .. Len(s) + 1 : i \in 1 .. Len(s) \/ i = Len(s) + 1
  OBVIOUS
<1>4. Backed(registry, Append(s, r))
  BY <1>2, <1>3 DEF Backed
<1> QED
  BY <1>2, <1>4, Zenon

\* An empty list is backed.
LEMMA EmptyBacked == ASSUME NEW registry PROVE Backed(registry, << >>)
BY DEF Backed

\* The lists of the state and of the saved state.
LEMMA ListTypes ==
    ASSUME TypeOK
    PROVE  /\ tree \in Seq(Leaves) /\ pendingDeposits \in Seq(Leaves)
           /\ pendingDeposits \in Seq(Records)
           /\ \A s \in Seq(Records) : s \in Seq(Leaves)
           /\ assets \in [AssetDefinitions -> Erc20Addresses \cup {ZeroAddress}]
<1>1. \A s \in Seq(Records) : s \in Seq(Leaves)
  BY SeqMonotonic DEF Leaves
<1> QED
  BY <1>1 DEF TypeOK, AssetsTypeOK

\* The invariant holds at first.
LEMMA BackedInit == Init => BackedInv
BY DEF Init, AssetsInit, BackedInv, RegistryOK, Backed, Idle

\* The faucet's record is native.
LEMMA BackedFaucet ==
    ASSUME TypeOK, Guarded, BackedInv, NEW s \in Users, faucetSetupForTestnet(s)
    PROVE  BackedInv'
<1>1. PICK ro \in Records :
           /\ ro.assetDef = NativeAsset /\ Idle'
           /\ tree' = tree \o <<ro>> /\ pendingDeposits' = pendingDeposits /\ assets' = assets
  BY FaucetStep
<1>2. Backed(assets, tree \o <<ro>>)
  BY <1>1, ListTypes, AppendBacked, AssetCodeFacts DEF BackedInv
<1> QED
  BY <1>1, <1>2 DEF BackedInv

\* A registered asset stays registered.
LEMMA BackedSponsor ==
    ASSUME TypeOK, Guarded, BackedInv, Sponsor
    PROVE  BackedInv'
<1>1. PICK e \in Erc20Addresses, a \in AssetDefinitions :
             /\ assets[a] = ZeroAddress /\ IsForeign(a) /\ a.code[2] = e
             /\ assets' = [assets EXCEPT ![a] = e]
             /\ top' = top /\ (Idle' <=> Idle)
             /\ UNCHANGED <<pendingDeposits, tree>>
  BY SponsorStep
<1>2. RegistryOK(assets')
  BY <1>1, ListTypes DEF RegistryOK, BackedInv
<1>3. \A list \in Seq(Leaves) : Backed(assets, list) => Backed(assets', list)
  BY <1>1, ListTypes, SponsorBacked
<1>4. Backed(assets', tree') /\ Backed(assets', pendingDeposits')
  BY <1>1, <1>3, ListTypes DEF BackedInv
<1>5. ASSUME ~Idle', top'.fn = "submitCapeBlock"
      PROVE  /\ top'.verified => Backed(assets', top'.commitments)
             /\ top'.notes = << >> => top'.verified
  <2>1. ~Idle /\ top.fn = "submitCapeBlock"
    BY <1>1, <1>5
  <2>2. top \in BlockFrames
    BY <2>1, FrameTypes
  <2>3. top.commitments \in Seq(Leaves)
    BY <2>2, ListTypes DEF BlockFrames
  <2>4. top.verified => Backed(assets', top.commitments)
    BY <1>3, <2>1, <2>3 DEF BackedInv
  <2> QED
    BY <1>1, <2>1, <2>4 DEF BackedInv
<1> QED
  BY <1>1, <1>2, <1>4, <1>5 DEF BackedInv

\* A deposit is of a registered asset.
LEMMA BackedDeposit ==
    ASSUME TypeOK, Guarded, BackedInv, Deposit
    PROVE  BackedInv'
<1>1. PICK ro \in Records, e \in Erc20Addresses :
             /\ Idle /\ ~Idle'
             /\ assets[ro.assetDef] = e /\ e # ZeroAddress
             /\ pendingDeposits' = Append(pendingDeposits, ro)
             /\ top'.fn = "depositErc20"
             /\ top'.saved = Snapshot
             /\ UNCHANGED <<tree, assets>>
  BY DepositStep
<1>2. ro.assetDef \in AssetDefinitions
  BY DEF Records
<1>3. assets[ro.assetDef] = ro.assetDef.code[2]
  BY <1>1, <1>2 DEF BackedInv, RegistryOK
<1>4. Backed(assets, pendingDeposits')
  BY <1>1, <1>3, ListTypes, AppendBacked DEF BackedInv
<1> QED
  BY <1>1, <1>4, SnapshotFields DEF BackedInv

\* The end of a deposit changes no record.
LEMMA BackedDepositReturns ==
    ASSUME TypeOK, Guarded, BackedInv, depositErc20Returns
    PROVE  BackedInv'
BY DepositReturnsStep DEF BackedInv

\* A block starts without records.
LEMMA BackedSubmit ==
    ASSUME TypeOK, Guarded, BackedInv, SubmitBlock
    PROVE  BackedInv'
BY SubmitStep, SnapshotFields, EmptyBacked DEF BackedInv

\* A note adds backed records when its proof is true.
LEMMA BackedNote ==
    ASSUME TypeOK, Guarded, BackedInv, NextNote
    PROVE  BackedInv'
<1>1. PICK inserted \in Seq(Records) :
              /\ ~Idle /\ ~Idle' /\ top.fn = "submitCapeBlock" /\ top'.fn = "submitCapeBlock"
              /\ top'.commitments = top.commitments \o inserted
              /\ top.verified
              /\ top'.verified => Backed(assets, inserted)
              /\ top'.notes # << >>
              /\ top'.saved = top.saved
              /\ UNCHANGED <<pendingDeposits, tree, assets>>
  BY NoteBacked DEF BackedInv
<1>2. top \in BlockFrames
  BY <1>1, FrameTypes
<1>3. top.commitments \in Seq(Leaves) /\ inserted \in Seq(Leaves)
  BY <1>2, ListTypes DEF BlockFrames
<1>4. top'.verified => Backed(assets', top'.commitments)
  BY <1>1, <1>3, ConcatBacked DEF BackedInv
<1> QED
  BY <1>1, <1>4 DEF BackedInv

\* A block inserts backed records and zeros.
LEMMA BackedBlockReturns ==
    ASSUME TypeOK, Guarded, BackedInv, submitCapeBlockReturns
    PROVE  BackedInv'
<1>1. PICK length \in Nat, padding \in Seq({ZeroCommitment}) :
             /\ top \in BlockFrames
             /\ newCommitments \in Seq(Records)
             /\ BlockReturns(newCommitments, length, padding)
  BY BlockReturnsStep
<1>2. /\ ~Idle /\ top.fn = "submitCapeBlock" /\ frames' = << >>
      /\ top.notes # << >> => top.verified
      /\ tree' = tree \o newCommitments \o padding
      /\ pendingDeposits' = << >> /\ assets' = assets
  BY <1>1, Zenon DEF BlockReturns
<1>3. top.verified
  BY <1>2 DEF BackedInv
<1>4. top.commitments \in Seq(Leaves) /\ padding \in Seq(Leaves)
  BY <1>1, ListTypes, SeqMonotonic DEF BlockFrames, Leaves
<1>5. Backed(assets, newCommitments)
  BY <1>2, <1>3, <1>4, ListTypes, ConcatBacked DEF newCommitments, BackedInv
<1>6. Backed(assets, padding)
  BY <1>1 DEF Backed
<1>7. newCommitments \in Seq(Leaves) /\ tree \in Seq(Leaves) /\ Backed(assets, tree)
  BY <1>1, ListTypes DEF BackedInv
<1>8. Backed(assets, tree \o newCommitments) /\ tree \o newCommitments \in Seq(Leaves)
  BY <1>5, <1>7, ConcatBacked, ConcatProperties
<1>9. Backed(assets, tree \o newCommitments \o padding)
  BY <1>4, <1>6, <1>8, ConcatBacked
<1>10. Idle'
  BY <1>2 DEF Idle
<1> QED
  BY <1>2, <1>9, <1>10, EmptyBacked DEF BackedInv

\* The state that a failing call restores is backed.
LEMMA BackedRevert ==
    ASSUME TypeOK, Guarded, BackedInv, revert
    PROVE  BackedInv'
BY RevertStep DEF BackedInv

\* Every step keeps the invariant.
LEMMA BackedNext == TypeOK /\ Guarded /\ BackedInv /\ [Next]_vars => BackedInv'
<1>1. BackedInv /\ UNCHANGED vars => BackedInv'
  BY DEF BackedInv, vars, contractVars, Idle, top
<1> QED
  BY <1>1, BackedFaucet, BackedSponsor, BackedDeposit, BackedDepositReturns, BackedSubmit,
     BackedNote, BackedBlockReturns, BackedRevert DEF Next

\* What the invariant says of the records in the tree and in the queue.
LEMMA BackedMeans == TypeOK /\ BackedInv => WrappedRecordsBacked
<1> SUFFICES ASSUME TypeOK, BackedInv,
                    NEW r \in (ToSet(tree) \ {ZeroCommitment}) \cup ToSet(pendingDeposits),
                    IsForeign(r.assetDef), r.amount > 0
             PROVE  lookup(r.assetDef) = r.assetDef.code[2]
  BY DEF WrappedRecordsBacked
<1>1. /\ DOMAIN tree = 1 .. Len(tree) /\ DOMAIN pendingDeposits = 1 .. Len(pendingDeposits)
      /\ \A i \in 1 .. Len(pendingDeposits) : pendingDeposits[i] \in Records
  BY DEF TypeOK
<1>2. CASE r \in ToSet(tree) \ {ZeroCommitment}
  <2>1. PICK i \in 1 .. Len(tree) : r = tree[i] /\ tree[i] # ZeroCommitment
    BY <1>1, <1>2 DEF ToSet
  <2> QED
    BY <2>1 DEF BackedInv, Backed, lookup
<1>3. CASE r \in ToSet(pendingDeposits)
  <2>1. PICK i \in 1 .. Len(pendingDeposits) : r = pendingDeposits[i]
    BY <1>1, <1>3 DEF ToSet
  <2>2. pendingDeposits[i] # ZeroCommitment
    BY <1>1, CapeAssumption
  <2> QED
    BY <2>1, <2>2 DEF BackedInv, Backed, lookup
<1> QED
  BY <1>2, <1>3

(***************************************************************************)
(* No unbacked wrapped record ever exists: neither minting under a foreign *)
(* code, nor moving, freezing or burning records, nor sponsoring in the    *)
(* middle of a call, nor undoing a call makes one (AssetRegistry.sol       *)
(* sponsorCapeAsset, CAPE.sol submitCapeBlock and depositErc20).           *)
(***************************************************************************)
THEOREM CapeRecordsBacked == Spec => []WrappedRecordsBacked
<1>1. Init => BackedInv
  BY BackedInit
<1>2. TypeOK /\ Guarded /\ BackedInv /\ [Next]_vars => BackedInv'
  BY BackedNext
<1>3. TypeOK /\ BackedInv => WrappedRecordsBacked
  BY BackedMeans
<1> QED
  BY <1>1, <1>2, <1>3, CapeTypesCorrect, PTL DEF Spec

-----------------------------------------------------------------------------
(* Values of lists of records.                                             *)

\* What the i-th of the records adds to the value of a list.
Part(registry, t, list, spent, i) ==
    IF i \in spent THEN 0 ELSE Worth(registry, t, list[i])

\* The parts of a value.
Parts(registry, t, list, spent) ==
    [i \in DOMAIN list |-> IF i \in spent THEN 0 ELSE Worth(registry, t, list[i])]

\* The worth of a leaf is a number.
LEMMA WorthType ==
    ASSUME NEW registry, NEW t, NEW r \in Leaves
    PROVE  Worth(registry, t, r) \in Nat
<1>1. CASE r = ZeroCommitment
  BY <1>1 DEF Worth
<1>2. CASE r # ZeroCommitment
  <2>1. r \in Records
    BY <1>2 DEF Leaves
  <2>2. r.amount \in Nat
    BY <2>1, CapeAssumption DEF Records
  <2> QED
    BY <2>2 DEF Worth
<1> QED
  BY <1>1, <1>2

\* A value as a sum, whose terms are numbers.
LEMMA ValueSum ==
    ASSUME NEW registry, NEW t, NEW list \in Seq(Leaves), NEW spent
    PROVE  /\ Value(registry, t, list, spent) = SumTo(Parts(registry, t, list, spent), Len(list))
           /\ \A i \in 1 .. Len(list) :
                 /\ Parts(registry, t, list, spent)[i] = Part(registry, t, list, spent, i)
                 /\ Parts(registry, t, list, spent)[i] \in Nat
<1> DEFINE f == Parts(registry, t, list, spent)
<1>1. Value(registry, t, list, spent) = SumTo(f, Len(list))
  BY DEF Value, Parts
<1>2. DOMAIN list = 1 .. Len(list) /\ \A i \in 1 .. Len(list) : list[i] \in Leaves
  OBVIOUS
<1>3. \A i \in 1 .. Len(list) : Worth(registry, t, list[i]) \in Nat
  BY <1>2, WorthType
<1>4. \A i \in 1 .. Len(list) : f[i] = Part(registry, t, list, spent, i) /\ f[i] \in Nat
  BY <1>2, <1>3 DEF Part, Parts
<1> QED
  BY <1>1, <1>4

\* Values are natural numbers.
LEMMA ValueType ==
    ASSUME NEW registry, NEW t, NEW list \in Seq(Leaves), NEW spent
    PROVE  Value(registry, t, list, spent) \in Nat
<1> DEFINE f == Parts(registry, t, list, spent)
<1>1. /\ Value(registry, t, list, spent) = SumTo(f, Len(list))
      /\ \A i \in 1 .. Len(list) :
            f[i] = Part(registry, t, list, spent, i) /\ f[i] \in Nat
  BY ValueSum
<1> HIDE DEF f
<1>2. Len(list) \in Nat
  OBVIOUS
<1> QED
  BY <1>1, <1>2, SumType

\* Equal parts, equal values.
LEMMA ValueEqual ==
    ASSUME NEW reg1, NEW reg2, NEW t, NEW list1 \in Seq(Leaves), NEW list2 \in Seq(Leaves),
           NEW spent1, NEW spent2, Len(list1) = Len(list2),
           \A i \in 1 .. Len(list1) :
              Part(reg1, t, list1, spent1, i) = Part(reg2, t, list2, spent2, i)
    PROVE  Value(reg1, t, list1, spent1) = Value(reg2, t, list2, spent2)
<1> DEFINE f == Parts(reg1, t, list1, spent1)
<1>1. /\ Value(reg1, t, list1, spent1) = SumTo(f, Len(list1))
      /\ \A i \in 1 .. Len(list1) :
            f[i] = Part(reg1, t, list1, spent1, i) /\ f[i] \in Nat
  BY ValueSum
<1> HIDE DEF f
<1> DEFINE g == Parts(reg2, t, list2, spent2)
<1>2. /\ Value(reg2, t, list2, spent2) = SumTo(g, Len(list2))
      /\ \A i \in 1 .. Len(list2) :
            g[i] = Part(reg2, t, list2, spent2, i) /\ g[i] \in Nat
  BY ValueSum
<1> HIDE DEF g
<1>3. Len(list1) \in Nat
  OBVIOUS
<1>4. SumTo(f, Len(list1)) = SumTo(g, Len(list1))
  BY <1>1, <1>2, <1>3, SumEqual
<1> QED
  BY <1>1, <1>2, <1>4

\* Worthless records have no value.
LEMMA ValueNothing ==
    ASSUME NEW registry, NEW t, NEW list \in Seq(Leaves), NEW spent,
           \A i \in 1 .. Len(list) : Part(registry, t, list, spent, i) = 0
    PROVE  Value(registry, t, list, spent) = 0
<1> DEFINE f == Parts(registry, t, list, spent)
<1>1. /\ Value(registry, t, list, spent) = SumTo(f, Len(list))
      /\ \A i \in 1 .. Len(list) :
            f[i] = Part(registry, t, list, spent, i) /\ f[i] \in Nat
  BY ValueSum
<1> HIDE DEF f
<1>2. Len(list) \in Nat
  OBVIOUS
<1> QED
  BY <1>1, <1>2, SumOfZeros

\* One list after another.
LEMMA ValueConcat ==
    ASSUME NEW registry, NEW t, NEW s \in Seq(Leaves), NEW u \in Seq(Leaves),
           NEW spent \in SUBSET (1 .. Len(s))
    PROVE  Value(registry, t, s \o u, spent) = Value(registry, t, s, spent)
                                                 + Value(registry, t, u, {})
<1>0. /\ Len(s) \in Nat /\ Len(u) \in Nat /\ s \o u \in Seq(Leaves)
      /\ Len(s \o u) = Len(s) + Len(u)
      /\ \A i \in 1 .. Len(s) + Len(u) :
            (s \o u)[i] = IF i <= Len(s) THEN s[i] ELSE u[i - Len(s)]
  BY ConcatProperties
<1> DEFINE h == Parts(registry, t, s \o u, spent)
<1>1. /\ Value(registry, t, s \o u, spent) = SumTo(h, Len(s) + Len(u))
      /\ \A i \in 1 .. Len(s) + Len(u) :
            h[i] = Part(registry, t, s \o u, spent, i) /\ h[i] \in Nat
  BY <1>0, ValueSum
<1> HIDE DEF h
<1> DEFINE f == Parts(registry, t, s, spent)
<1>2. /\ Value(registry, t, s, spent) = SumTo(f, Len(s))
      /\ \A i \in 1 .. Len(s) : f[i] = Part(registry, t, s, spent, i) /\ f[i] \in Nat
  BY ValueSum
<1> HIDE DEF f
<1> DEFINE g == Parts(registry, t, u, {})
<1>3. /\ Value(registry, t, u, {}) = SumTo(g, Len(u))
      /\ \A i \in 1 .. Len(u) : g[i] = Part(registry, t, u, {}, i) /\ g[i] \in Nat
  BY ValueSum
<1> HIDE DEF g
<1>4. \A i \in 1 .. Len(s) : f[i] \in Nat /\ h[i] = f[i]
  <2> SUFFICES ASSUME NEW i \in 1 .. Len(s) PROVE h[i] = f[i]
    BY <1>2
  <2>1. i \in 1 .. Len(s) + Len(u) /\ (s \o u)[i] = s[i]
    BY <1>0
  <2> QED
    BY <1>1, <1>2, <2>1 DEF Part
<1>5. \A i \in 1 .. Len(u) : g[i] \in Nat /\ h[Len(s) + i] = g[i]
  <2> SUFFICES ASSUME NEW i \in 1 .. Len(u) PROVE h[Len(s) + i] = g[i]
    BY <1>3
  <2> DEFINE k == Len(s) + i
  <2>1. k \in 1 .. Len(s) + Len(u) /\ ~(k <= Len(s)) /\ k - Len(s) = i /\ k \notin spent
    BY <1>0
  <2>2. (s \o u)[k] = u[i]
    BY <1>0, <2>1
  <2> HIDE DEF k
  <2>3. h[k] = g[i]
    BY <1>1, <1>3, <2>1, <2>2 DEF Part
  <2> QED
    BY <2>3 DEF k
<1>6. SumTo(h, Len(s) + Len(u)) = SumTo(f, Len(s)) + SumTo(g, Len(u))
  <2>1. Joins(f, Len(s), g, Len(u), h)
    BY <1>4, <1>5 DEF Joins
  <2> QED
    BY <1>0, <2>1, SumConcat
<1> QED
  BY <1>1, <1>2, <1>3, <1>6

\* A list of one record.
LEMMA ValueOne ==
    ASSUME NEW registry, NEW t, NEW r \in Leaves
    PROVE  Value(registry, t, <<r>>, {}) = Worth(registry, t, r)
<1>1. <<r>> \in Seq(Leaves) /\ Len(<<r>>) = 1 /\ <<r>>[1] = r
  OBVIOUS
<1> DEFINE f == Parts(registry, t, <<r>>, {})
<1>2. /\ Value(registry, t, <<r>>, {}) = SumTo(f, 1)
      /\ \A i \in 1 .. 1 : f[i] = Part(registry, t, <<r>>, {}, i) /\ f[i] \in Nat
  BY <1>1, ValueSum
<1> HIDE DEF f
<1>3. f[1] = Worth(registry, t, r) /\ f[1] \in Nat
  BY <1>1, <1>2 DEF Part
<1>4. 1 \in Nat /\ 1 \in 1 .. 1 /\ \A i \in 1 .. 1 : i # 1 => f[i] = 0
  OBVIOUS
<1>5. SumTo(f, 1) = f[1]
  BY <1>3, <1>4, SumOfOne
<1> QED
  BY <1>2, <1>3, <1>5

\* One more record.
LEMMA ValueAppend ==
    ASSUME NEW registry, NEW t, NEW s \in Seq(Leaves), NEW r \in Leaves,
           NEW spent \in SUBSET (1 .. Len(s))
    PROVE  /\ Value(registry, t, Append(s, r), spent) =
                Value(registry, t, s, spent) + Worth(registry, t, r)
           /\ Value(registry, t, s \o <<r>>, spent) =
                Value(registry, t, s, spent) + Worth(registry, t, r)
<1>1. <<r>> \in Seq(Leaves) /\ Append(s, r) = s \o <<r>>
  BY AppendIsConcat
<1>2. Value(registry, t, s \o <<r>>, spent) =
        Value(registry, t, s, spent) + Value(registry, t, <<r>>, {})
  BY <1>1, ValueConcat
<1> QED
  BY <1>1, <1>2, ValueOne

\* Spending leaves takes what they are worth off the value.
LEMMA ValueSpend ==
    ASSUME NEW registry, NEW t, NEW list \in Seq(Leaves), NEW spent,
           NEW inputs \in Seq(1 .. Len(list)), IsInjective(inputs),
           ToSet(inputs) \cap spent = {},
           NEW opened \in Seq(Leaves), Len(opened) = Len(inputs),
           \A i \in 1 .. Len(inputs) : opened[i] = list[inputs[i]]
    PROVE  Value(registry, t, list, spent) =
             Value(registry, t, list, spent \cup ToSet(inputs)) + Value(registry, t, opened, {})
<1> DEFINE n == Len(list)
           m == Len(inputs)
<1>0. n \in Nat /\ m \in Nat /\ inputs \in [1 .. m -> 1 .. n] /\ DOMAIN inputs = 1 .. m
  OBVIOUS
<1> DEFINE f == Parts(registry, t, list, spent)
<1>1. /\ Value(registry, t, list, spent) = SumTo(f, n)
      /\ \A i \in 1 .. n : f[i] = Part(registry, t, list, spent, i) /\ f[i] \in Nat
  BY ValueSum
<1> HIDE DEF f
<1> DEFINE h == Parts(registry, t, list, spent \cup ToSet(inputs))
<1>2. /\ Value(registry, t, list, spent \cup ToSet(inputs)) = SumTo(h, n)
      /\ \A i \in 1 .. n :
            h[i] = Part(registry, t, list, spent \cup ToSet(inputs), i) /\ h[i] \in Nat
  BY ValueSum
<1> HIDE DEF h
<1> DEFINE g == Parts(registry, t, opened, {})
<1>3. /\ Value(registry, t, opened, {}) = SumTo(g, m)
      /\ \A i \in 1 .. m : g[i] = Part(registry, t, opened, {}, i) /\ g[i] \in Nat
  <2>1. /\ Value(registry, t, opened, {}) = SumTo(g, Len(opened))
        /\ \A i \in 1 .. Len(opened) : g[i] = Part(registry, t, opened, {}, i) /\ g[i] \in Nat
    BY ValueSum
  <2>2. Len(opened) = m
    OBVIOUS
  <2> QED
    BY <2>1, <2>2
<1> HIDE DEF g
<1> HIDE DEF n, m
<1>4. \A i \in 1 .. n : i \in ToSet(inputs) <=> \E j \in 1 .. m : inputs[j] = i
  BY <1>0 DEF ToSet
<1>5. \A i \in 1 .. n :
         f[i] \in Nat /\ h[i] = IF \E j \in 1 .. m : inputs[j] = i THEN 0 ELSE f[i]
  BY <1>1, <1>2, <1>4 DEF Part
<1>6. \A j \in 1 .. m : g[j] = f[inputs[j]]
  <2> SUFFICES ASSUME NEW j \in 1 .. m PROVE g[j] = f[inputs[j]]
    OBVIOUS
  <2>1. inputs[j] \in 1 .. n /\ inputs[j] \in ToSet(inputs)
    BY <1>0 DEF ToSet
  <2>2. inputs[j] \notin spent /\ opened[j] = list[inputs[j]]
    BY <2>1 DEF m
  <2> QED
    BY <1>1, <1>3, <2>1, <2>2 DEF Part
<1>7. \A i, j \in 1 .. m : inputs[i] = inputs[j] => i = j
  BY <1>0 DEF IsInjective
<1>8. SumTo(f, n) = SumTo(h, n) + SumTo(g, m)
  <2>1. n \in Nat /\ m \in Nat /\ inputs \in [1 .. m -> 1 .. n]
    BY <1>0
  <2>2. TakesOut(f, n, inputs, g, m, h)
    BY <1>5, <1>6, <1>7, <2>1 DEF TakesOut
  <2> QED
    BY <2>1, <2>2, SumWithoutAll
<1> QED
  BY <1>1, <1>2, <1>3, <1>8

\* Without the second record.
LEMMA ValueKept ==
    ASSUME NEW registry, NEW t, NEW s \in Seq(Leaves), Len(s) >= 2,
           NEW kept \in Seq(Leaves), Len(kept) = Len(s) - 1,
           \A i \in 1 .. Len(s) - 1 : kept[i] = IF i = 1 THEN s[1] ELSE s[i + 1]
    PROVE  Value(registry, t, s, {}) = Value(registry, t, kept, {}) + Worth(registry, t, s[2])
<1> DEFINE n == Len(s)
           w == [i \in 1 .. n |-> Worth(registry, t, s[i])]
           a == [i \in 1 .. 1 |-> w[1]]
           b == [i \in 1 .. n - 1 |-> w[i + 1]]
           c == [i \in 1 .. n - 2 |-> w[i + 2]]
           d == [i \in 1 .. 1 |-> w[2]]
<1>0. n \in Nat /\ n >= 2 /\ \A i \in 1 .. n : s[i] \in Leaves
  OBVIOUS
<1>1. \A i \in 1 .. n : w[i] = Worth(registry, t, s[i]) /\ w[i] \in Nat
  BY <1>0, WorthType
<1> HIDE DEF w
<1> DEFINE f == Parts(registry, t, s, {})
<1>2. /\ Value(registry, t, s, {}) = SumTo(f, n)
      /\ \A i \in 1 .. n : f[i] = Part(registry, t, s, {}, i) /\ f[i] \in Nat
  BY ValueSum
<1> HIDE DEF f
<1> DEFINE g == Parts(registry, t, kept, {})
<1>3. /\ Value(registry, t, kept, {}) = SumTo(g, n - 1)
      /\ \A i \in 1 .. n - 1 : g[i] = Part(registry, t, kept, {}, i) /\ g[i] \in Nat
  BY ValueSum
<1> HIDE DEF g
<1>4. \A i \in 1 .. n : f[i] = w[i]
  BY <1>1, <1>2 DEF Part
<1>5. \A i \in 1 .. n - 1 : g[i] = IF i = 1 THEN w[1] ELSE w[i + 1]
  <2> SUFFICES ASSUME NEW i \in 1 .. n - 1 PROVE g[i] = IF i = 1 THEN w[1] ELSE w[i + 1]
    OBVIOUS
  <2>1. i + 1 \in 1 .. n /\ 1 \in 1 .. n
    BY <1>0
  <2>2. g[i] = Worth(registry, t, kept[i])
    BY <1>3 DEF Part
  <2> QED
    BY <1>1, <2>1, <2>2
<1>6. /\ \A i \in 1 .. 1 : a[i] = w[1] /\ d[i] = w[2]
      /\ \A i \in 1 .. n - 1 : b[i] = w[i + 1]
      /\ \A i \in 1 .. n - 2 : c[i] = w[i + 2]
  OBVIOUS
<1> HIDE DEF a, b, c, d, n
<1>7. n - 1 \in Nat /\ n - 2 \in Nat /\ 1 + (n - 1) = n /\ 1 + (n - 2) = n - 1
  BY <1>0
<1>8. w[1] \in Nat /\ w[2] \in Nat /\ \A i \in 1 .. n - 2 : w[i + 2] \in Nat
  BY <1>0, <1>1
<1>9. SumTo(f, n) = SumTo(a, 1) + SumTo(b, n - 1)
  <2>1. \A i \in 1 .. 1 : a[i] \in Nat /\ f[i] = a[i]
    BY <1>0, <1>4, <1>6, <1>8
  <2>2. ASSUME NEW i \in 1 .. n - 1 PROVE b[i] \in Nat /\ f[1 + i] = b[i]
    <3>1. i + 1 \in 1 .. n /\ 1 + i = i + 1
      BY <1>0
    <3>2. b[i] = w[i + 1]
      BY <1>6
    <3> QED
      BY <1>1, <1>4, <3>1, <3>2
  <2>3. Joins(a, 1, b, n - 1, f)
    BY <2>1, <2>2 DEF Joins
  <2>4. SumTo(f, 1 + (n - 1)) = SumTo(a, 1) + SumTo(b, n - 1)
    BY <1>7, <2>3, SumConcat
  <2> QED
    BY <1>7, <2>4
<1>10. SumTo(b, n - 1) = SumTo(d, 1) + SumTo(c, n - 2)
  <2>1. \A i \in 1 .. 1 : d[i] \in Nat /\ b[i] = d[i]
    BY <1>0, <1>6, <1>8
  <2>2. \A i \in 1 .. n - 2 : c[i] \in Nat /\ b[1 + i] = c[i]
    BY <1>0, <1>1, <1>6
  <2>3. Joins(d, 1, c, n - 2, b)
    BY <2>1, <2>2 DEF Joins
  <2>4. SumTo(b, 1 + (n - 2)) = SumTo(d, 1) + SumTo(c, n - 2)
    BY <1>7, <2>3, SumConcat
  <2> QED
    BY <1>7, <2>4
<1>11. SumTo(g, n - 1) = SumTo(a, 1) + SumTo(c, n - 2)
  <2>1. \A i \in 1 .. 1 : a[i] \in Nat /\ g[i] = a[i]
    BY <1>0, <1>5, <1>6, <1>8
  <2>2. \A i \in 1 .. n - 2 : c[i] \in Nat /\ g[1 + i] = c[i]
    BY <1>0, <1>1, <1>5, <1>6
  <2>3. Joins(a, 1, c, n - 2, g)
    BY <2>1, <2>2 DEF Joins
  <2>4. SumTo(g, 1 + (n - 2)) = SumTo(a, 1) + SumTo(c, n - 2)
    BY <1>7, <2>3, SumConcat
  <2> QED
    BY <1>7, <2>4
<1>12. SumTo(d, 1) = w[2]
  <2>1. 1 \in Nat /\ 1 \in 1 .. 1 /\ d[1] \in Nat /\ \A i \in 1 .. 1 : i # 1 => d[i] = 0
    BY <1>6, <1>8
  <2>2. SumTo(d, 1) = d[1]
    BY <2>1, SumOfOne
  <2> QED
    BY <1>6, <2>2
<1>13. SumTo(a, 1) \in Nat /\ SumTo(c, n - 2) \in Nat
  <2>1. 1 \in Nat /\ (\A i \in 1 .. 1 : a[i] \in Nat) /\ \A i \in 1 .. n - 2 : c[i] \in Nat
    BY <1>6, <1>8
  <2> QED
    BY <1>7, <2>1, SumType
<1>14. w[2] = Worth(registry, t, s[2])
  BY <1>0, <1>1
<1> QED
  BY <1>2, <1>3, <1>8, <1>9, <1>10, <1>11, <1>12, <1>13, <1>14

-----------------------------------------------------------------------------
(* What the notes and the registry do to values.                           *)

\* A registered asset is foreign: other records are in no token's books.
LEMMA WorthNothing ==
    ASSUME NEW registry, RegistryOK(registry), NEW t \in HonestTokens, NEW r \in Records,
           ~IsForeign(r.assetDef)
    PROVE  Worth(registry, t, r) = 0
<1>1. r.assetDef \in AssetDefinitions
  BY DEF Records
<1>2. registry[r.assetDef] = ZeroAddress
  BY <1>1 DEF RegistryOK
<1>3. t # ZeroAddress
  BY AssetRegistryAssumption DEF HonestTokens
<1> QED
  BY <1>2, <1>3 DEF Worth

\* What sponsorCapeAsset makes of the registry.
Sponsored(registry, a, e, new) ==
    /\ a \in AssetDefinitions /\ e \in Erc20Addresses /\ registry[a] = ZeroAddress
    /\ IsForeign(a) /\ a.code[2] = e
    /\ \A b \in AssetDefinitions : new[b] = IF b = a THEN e ELSE registry[b]

\* Sponsoring an asset changes no value: no record of it is worth anything yet.
LEMMA SponsorValue ==
    ASSUME NEW registry, NEW reg2, NEW a, NEW e, Sponsored(registry, a, e, reg2),
           NEW list \in Seq(Leaves), Backed(registry, list), NEW spent, NEW t \in HonestTokens
    PROVE  Value(reg2, t, list, spent) = Value(registry, t, list, spent)
<1>1. /\ a \in AssetDefinitions /\ e \in Erc20Addresses /\ registry[a] = ZeroAddress
      /\ IsForeign(a) /\ a.code[2] = e
      /\ \A b \in AssetDefinitions : reg2[b] = IF b = a THEN e ELSE registry[b]
  BY DEF Sponsored
<1>2. e # ZeroAddress /\ t # ZeroAddress
  BY <1>1, AssetRegistryAssumption DEF HonestTokens
<1>3. ASSUME NEW i \in 1 .. Len(list)
      PROVE  Worth(reg2, t, list[i]) = Worth(registry, t, list[i])
  <2>1. CASE list[i] = ZeroCommitment
    BY <2>1 DEF Worth
  <2>2. CASE list[i] # ZeroCommitment
    <3>1. list[i] \in Records
      BY <2>2 DEF Leaves
    <3>2. list[i].assetDef \in AssetDefinitions /\ list[i].amount \in Nat
      BY <3>1, CapeAssumption DEF Records
    <3>3. CASE list[i].assetDef # a
      BY <1>1, <3>2, <3>3 DEF Worth
    <3>4. CASE list[i].assetDef = a
      <4>1. list[i].amount = 0
        <5>1. list[i].amount > 0 => registry[a] = e
          BY <1>1, <2>2, <3>4 DEF Backed
        <5> QED
          BY <1>1, <1>2, <3>2, <5>1
      <4> QED
        BY <4>1 DEF Worth
    <3> QED
      BY <3>3, <3>4
  <2> QED
    BY <2>1, <2>2
<1>4. \A i \in 1 .. Len(list) :
         Part(reg2, t, list, spent, i) = Part(registry, t, list, spent, i)
  BY <1>3 DEF Part
<1> QED
  BY <1>4, ValueEqual

(***************************************************************************)
(* The value of a list with one asset that counts: the records of other    *)
(* assets are native or worth nothing.                                     *)
(***************************************************************************)
LEMMA ValueOfOneAsset ==
    ASSUME NEW registry, RegistryOK(registry), NEW t \in HonestTokens,
           NEW list \in Seq(Records), NEW a \in AssetDefinitions,
           \A i \in 1 .. Len(list) :
              list[i].assetDef \in {a, NativeAsset} \/ list[i].amount = 0
    PROVE  Value(registry, t, list, {}) = IF a # NativeAsset /\ registry[a] = t
                                          THEN Total(list, a) ELSE 0
<1> DEFINE f == [i \in DOMAIN list |-> IF list[i].assetDef = a THEN list[i].amount ELSE 0]
           g == Parts(registry, t, list, {})
           n == Len(list)
<1>0. /\ n \in Nat /\ DOMAIN list = 1 .. n
      /\ \A i \in 1 .. n : list[i] \in Records /\ list[i] # ZeroCommitment
      /\ list \in Seq(Leaves)
  BY SeqMonotonic, CapeAssumption DEF Leaves
<1>1. \A i \in 1 .. n : list[i].amount \in Nat /\ list[i].assetDef \in AssetDefinitions
  BY <1>0, CapeAssumption DEF Records
<1>2. \A i \in 1 .. n : /\ f[i] = IF list[i].assetDef = a THEN list[i].amount ELSE 0
                        /\ f[i] \in Nat
  BY <1>0, <1>1
<1>3. Total(list, a) = SumTo(f, n)
  BY DEF Total
<1>4. /\ Value(registry, t, list, {}) = SumTo(g, n)
      /\ \A i \in 1 .. n : g[i] = Part(registry, t, list, {}, i) /\ g[i] \in Nat
  BY <1>0, ValueSum
<1> HIDE DEF f, g
<1>5. registry[NativeAsset] = ZeroAddress /\ t # ZeroAddress
  BY NativeUnregistered, AssetRegistryAssumption DEF HonestTokens
<1>6. \A i \in 1 .. n : g[i] = Worth(registry, t, list[i])
  BY <1>4 DEF Part
<1>7. CASE a # NativeAsset /\ registry[a] = t
  <2>1. \A i \in 1 .. n : f[i] \in Nat /\ f[i] = g[i]
    <3> SUFFICES ASSUME NEW i \in 1 .. n PROVE f[i] = g[i]
      BY <1>2
    <3>1. CASE list[i].assetDef = a
      BY <1>0, <1>2, <1>6, <1>7, <3>1 DEF Worth
    <3>2. CASE list[i].assetDef # a
      <4>1. list[i].assetDef = NativeAsset \/ list[i].amount = 0
        BY <3>2
      <4> QED
        BY <1>0, <1>2, <1>5, <1>6, <3>2, <4>1 DEF Worth
    <3> QED
      BY <3>1, <3>2
  <2>2. SumTo(f, n) = SumTo(g, n)
    BY <1>0, <2>1, SumEqual
  <2> QED
    BY <1>3, <1>4, <1>7, <2>2
<1>8. CASE ~(a # NativeAsset /\ registry[a] = t)
  <2>1. \A i \in 1 .. n : g[i] = 0
    <3> SUFFICES ASSUME NEW i \in 1 .. n PROVE g[i] = 0
      OBVIOUS
    <3>1. list[i].assetDef = a \/ list[i].assetDef = NativeAsset \/ list[i].amount = 0
      OBVIOUS
    <3> QED
      BY <1>5, <1>6, <1>8, <3>1 DEF Worth
  <2>2. SumTo(g, n) = 0
    BY <1>0, <2>1, SumOfZeros
  <2> QED
    BY <1>4, <1>8, <2>2
<1> QED
  BY <1>7, <1>8

\* A transfer creates and destroys nothing.
LEMMA TransferValue ==
    ASSUME TypeOK, RegistryOK(assets), NEW root, NEW inputs \in InputLists,
           NEW outputs \in OutputLists, TransferProof(root, inputs, outputs),
           NEW t \in HonestTokens
    PROVE  Value(assets, t, Opened(inputs), {}) = Value(assets, t, outputs, {})
<1> DEFINE ins == Opened(inputs)
<1>1. /\ InTree(root, inputs)
      /\ \A b \in AssetDefinitions \ {NativeAsset} : Total(ins, b) = Total(outputs, b)
      /\ \E a \in AssetDefinitions :
            \A i \in DOMAIN outputs : outputs[i].assetDef \in {a, NativeAsset}
  BY Zenon DEF TransferProof
<1>2. ins \in Seq(Records)
  BY <1>1, OpenedTypes
<1>3. outputs \in Seq(Records) /\ DOMAIN outputs = 1 .. Len(outputs)
  BY OutputTypes
<1> HIDE DEF ins
<1>4. PICK a \in AssetDefinitions :
           \A i \in 1 .. Len(outputs) : outputs[i].assetDef \in {a, NativeAsset}
  BY <1>1, <1>3
<1>5. \A i \in 1 .. Len(ins) : ins[i].assetDef \in {a, NativeAsset} \/ ins[i].amount = 0
  <2> SUFFICES ASSUME NEW i \in 1 .. Len(ins), ins[i].assetDef # a,
                      ins[i].assetDef # NativeAsset
               PROVE  ins[i].amount = 0
    OBVIOUS
  <2> DEFINE b == ins[i].assetDef
  <2>1. ins[i] \in Records
    BY <1>2
  <2>2. b \in AssetDefinitions \ {NativeAsset} /\ ins[i].amount \in Nat
    BY <2>1, CapeAssumption DEF Records
  <2>3. \A j \in 1 .. Len(outputs) : outputs[j].assetDef # b
    BY <1>4
  <2>4. Total(outputs, b) = 0
    BY <1>3, <2>3, TotalFacts
  <2>5. Total(ins, b) = 0
    BY <1>1, <2>2, <2>4
  <2>6. ins[i].amount <= Total(ins, b)
    BY <1>2, TotalFacts
  <2> QED
    BY <2>2, <2>5, <2>6
<1>6. Value(assets, t, ins, {}) = IF a # NativeAsset /\ assets[a] = t THEN Total(ins, a) ELSE 0
  BY <1>2, <1>5, ValueOfOneAsset
<1>7. Value(assets, t, outputs, {}) =
         IF a # NativeAsset /\ assets[a] = t THEN Total(outputs, a) ELSE 0
  BY <1>3, <1>4, ValueOfOneAsset
<1>8. a # NativeAsset => Total(ins, a) = Total(outputs, a)
  BY <1>1
<1> QED
  BY <1>6, <1>7, <1>8 DEF ins

\* The records that a mint spends and adds are in no token's books.
LEMMA MintValue ==
    ASSUME TypeOK, RegistryOK(assets), NEW inputs \in InputLists, NEW outputs \in OutputLists,
           NEW root, NEW a \in AssetDefinitions, NEW c, IsDomesticCode(a.code, c),
           HasVerifyingKey("MINT", inputs, outputs), MintProof(root, inputs, outputs, a),
           NEW t \in HonestTokens
    PROVE  Value(assets, t, Opened(inputs), {}) = Value(assets, t, outputs, {})
<1>1. /\ Len(inputs) = 1
      /\ tree[inputs[1]].assetDef = NativeAsset
      /\ \A i \in 1 .. Len(outputs) : ~IsForeign(outputs[i].assetDef)
  BY MintOutputs
<1>2. InTree(root, inputs)
  BY Zenon DEF MintProof
<1>3. /\ Opened(inputs) \in Seq(Records) /\ Len(Opened(inputs)) = 1
      /\ Opened(inputs)[1] = tree[inputs[1]]
  <2>1. /\ Opened(inputs) \in Seq(Records) /\ Len(Opened(inputs)) = Len(inputs)
        /\ \A i \in 1 .. Len(inputs) : Opened(inputs)[i] = tree[inputs[i]]
    BY <1>2, OpenedTypes
  <2>2. 1 \in 1 .. Len(inputs)
    BY <1>1
  <2> QED
    BY <1>1, <2>1, <2>2
<1> DEFINE ins == Opened(inputs)
<1>3a. ins \in Seq(Records) /\ Len(ins) = 1 /\ ins[1].assetDef = NativeAsset
  BY <1>1, <1>3
<1> HIDE DEF ins
<1>4. \A i \in 1 .. Len(ins) : ins[i] \in Records /\ ~IsForeign(ins[i].assetDef)
  <2> SUFFICES ASSUME NEW i \in 1 .. Len(ins)
               PROVE  ins[i] \in Records /\ ~IsForeign(ins[i].assetDef)
    OBVIOUS
  <2>1. ins[i] \in Records
    BY <1>3a, ElementOfSeq
  <2>2. i = 1
    BY ONLY i \in 1 .. Len(ins), <1>3a
  <2> QED
    BY <1>3a, <2>1, <2>2, AssetCodeFacts
<1>5. /\ outputs \in Seq(Records) /\ outputs \in Seq(Leaves) /\ ins \in Seq(Leaves)
      /\ \A i \in 1 .. Len(outputs) : outputs[i] \in Records
  BY <1>3, OutputTypes, ListTypes DEF ins
<1>6. \A i \in 1 .. Len(ins) : Part(assets, t, ins, {}, i) = 0
  BY <1>4, WorthNothing DEF Part
<1>7. \A i \in 1 .. Len(outputs) : Part(assets, t, outputs, {}, i) = 0
  BY <1>1, <1>5, WorthNothing DEF Part
<1>8. Value(assets, t, ins, {}) = 0 /\ Value(assets, t, outputs, {}) = 0
  BY <1>5, <1>6, <1>7, ValueNothing
<1> QED
  BY <1>8 DEF ins

\* A freeze keeps the value of each record.
LEMMA FreezeValue ==
    ASSUME TypeOK, RegistryOK(assets), NEW inputs \in InputLists, NEW outputs \in OutputLists,
           NEW root, HasVerifyingKey("FREEZE", inputs, outputs),
           FreezeProof(root, inputs, outputs), NEW t \in HonestTokens
    PROVE  Value(assets, t, Opened(inputs), {}) = Value(assets, t, outputs, {})
<1> DEFINE ins == Opened(inputs)
<1>1. /\ Len(inputs) = Len(outputs) /\ Len(inputs) >= 2
      /\ tree[inputs[1]].assetDef = NativeAsset /\ outputs[1].assetDef = NativeAsset
      /\ \A i \in 1 .. Len(inputs) : i # 1 =>
            /\ outputs[i].assetDef = tree[inputs[i]].assetDef
            /\ outputs[i].amount = tree[inputs[i]].amount
  BY FreezeOutputs
<1>2. InTree(root, inputs)
  BY Zenon DEF FreezeProof
<1>3. /\ ins \in Seq(Records) /\ Len(ins) = Len(inputs)
      /\ \A i \in 1 .. Len(inputs) : ins[i] = tree[inputs[i]]
  BY <1>2, OpenedTypes
<1> HIDE DEF ins
<1>4. outputs \in Seq(Records) /\ outputs \in Seq(Leaves) /\ ins \in Seq(Leaves)
  BY <1>3, OutputTypes, ListTypes
<1>5. \A i \in 1 .. Len(ins) : Part(assets, t, ins, {}, i) = Part(assets, t, outputs, {}, i)
  <2> SUFFICES ASSUME NEW i \in 1 .. Len(ins)
               PROVE  Worth(assets, t, ins[i]) = Worth(assets, t, outputs[i])
    BY DEF Part
  <2>1. i \in 1 .. Len(outputs) /\ ins[i] \in Records
    BY <1>1, <1>3
  <2>1a. outputs[i] \in Records
    BY <1>4, <2>1
  <2>2. CASE i = 1
    <3>1. ~IsForeign(ins[1].assetDef) /\ ~IsForeign(outputs[1].assetDef)
      BY <1>1, <1>3, <2>1, <2>2, AssetCodeFacts
    <3> QED
      BY <2>1, <2>1a, <2>2, <3>1, WorthNothing
  <2>3. CASE i # 1
    <3>1. outputs[i].assetDef = ins[i].assetDef /\ outputs[i].amount = ins[i].amount
      BY <1>1, <1>3, <2>3
    <3>2. ins[i] # ZeroCommitment /\ outputs[i] # ZeroCommitment
      BY <2>1, <2>1a, CapeAssumption
    <3> QED
      BY <3>1, <3>2 DEF Worth
  <2> QED
    BY <2>2, <2>3
<1>6. Value(assets, t, ins, {}) = Value(assets, t, outputs, {})
  BY <1>1, <1>3, <1>4, <1>5, ValueEqual
<1> QED
  BY <1>6 DEF ins

(***************************************************************************)
(* A verified note leaves the contract as solvent as it was: what it takes *)
(* off the tree it adds to the block, or pays out.                         *)
(***************************************************************************)
LEMMA NoteValue ==
    ASSUME TypeOK, Guarded, RegistryOK(assets), NextNote
    PROVE  \E inserted \in Seq(Records) :
              /\ ~Idle /\ ~Idle' /\ top.fn = "submitCapeBlock" /\ top'.fn = "submitCapeBlock"
              /\ top.verified
              /\ top'.commitments = top.commitments \o inserted
              /\ top'.saved = top.saved
              /\ nullifiers \subseteq 1 .. Len(tree) => nullifiers' \subseteq 1 .. Len(tree)
              /\ UNCHANGED <<pendingDeposits, tree, assets>>
              /\ top'.verified => \A t \in HonestTokens :
                    balances'[t][CapeAddress] + Value(assets, t, tree, nullifiers) >=
                      balances[t][CapeAddress] + Value(assets, t, tree, nullifiers')
                        + Value(assets, t, inserted, {})
<1>1. PICK root \in rootsMap, inputs \in InputLists, outputs \in OutputLists :
             /\ top.verified
             /\ \/ TransferStep(root, inputs, outputs)
                \/ MintStep(root, inputs, outputs)
                \/ FreezeStep(root, inputs, outputs)
                \/ BurnStep(root, inputs, outputs)
  BY NoteCases
<1> DEFINE ins == Opened(inputs)
           C == CapeAddress
<1>2. outputs \in Seq(Records) /\ \A i \in 1 .. Len(outputs) : outputs[i] \in Records
  BY OutputTypes
<1>3. ASSUME NEW type \in NoteTypes, NEW inserted \in Seq(Records), NEW proof \in BOOLEAN,
             NEW callee \in Erc20Addresses \cup {ZeroAddress},
             NoteSteps(type, root, inputs, inserted, proof, callee),
             proof => InTree(root, inputs),
             proof => \A t \in HonestTokens :
                balances'[t][C] + Value(assets, t, ins, {}) >=
                  balances[t][C] + Value(assets, t, inserted, {})
      PROVE  /\ ~Idle /\ ~Idle' /\ top.fn = "submitCapeBlock" /\ top'.fn = "submitCapeBlock"
             /\ top'.commitments = top.commitments \o inserted
             /\ top'.saved = top.saved
             /\ nullifiers \subseteq 1 .. Len(tree) => nullifiers' \subseteq 1 .. Len(tree)
             /\ UNCHANGED <<pendingDeposits, tree, assets>>
             /\ top'.verified => \A t \in HonestTokens :
                   balances'[t][C] + Value(assets, t, tree, nullifiers) >=
                     balances[t][C] + Value(assets, t, tree, nullifiers')
                       + Value(assets, t, inserted, {})
  <2>1. /\ ~Idle /\ ~Idle' /\ top \in BlockFrames /\ top' \in BlockFrames
        /\ top'.commitments = top.commitments \o inserted
        /\ top'.verified = (top.verified /\ proof)
        /\ top'.saved = top.saved
    BY <1>3, NoteFrame
  <2>2. /\ UNCHANGED <<pendingDeposits, tree, assets>>
        /\ IsInjective(inputs) /\ ToSet(inputs) \cap nullifiers = {}
        /\ nullifiers' = nullifiers \cup ToSet(inputs)
    BY <1>3, Zenon DEF NoteSteps
  <2>3. top.fn = "submitCapeBlock" /\ top'.fn = "submitCapeBlock"
    BY <2>1 DEF BlockFrames
  <2>4. inputs \in Seq(1 .. Len(tree)) /\ ToSet(inputs) \subseteq 1 .. Len(tree)
    BY InputTypes DEF ToSet
  <2>5. nullifiers \subseteq 1 .. Len(tree) => nullifiers' \subseteq 1 .. Len(tree)
    BY <2>2, <2>4
  <2>6. ASSUME top'.verified, NEW t \in HonestTokens
        PROVE  balances'[t][C] + Value(assets, t, tree, nullifiers) >=
                 balances[t][C] + Value(assets, t, tree, nullifiers')
                   + Value(assets, t, inserted, {})
    <3>1. InTree(root, inputs)
      BY <1>3, <2>1, <2>6
    <3>2. /\ ins \in Seq(Records) /\ Len(ins) = Len(inputs)
          /\ \A i \in 1 .. Len(inputs) : ins[i] = tree[inputs[i]]
      BY <3>1, OpenedTypes
    <3> DEFINE before == Value(assets, t, tree, nullifiers)
               after == Value(assets, t, tree, nullifiers')
               spent == Value(assets, t, ins, {})
               new == Value(assets, t, inserted, {})
               owned == balances[t][C]
               owns == balances'[t][C]
    <3> HIDE DEF ins
    <3>3. ins \in Seq(Leaves) /\ inserted \in Seq(Leaves) /\ tree \in Seq(Leaves)
      BY <3>2, ListTypes
    <3>4. before = after + spent
      BY <2>2, <2>4, <3>2, <3>3, ValueSpend
    <3>5. owns + spent >= owned + new
      BY <1>3, <2>1, <2>6
    <3>6. before \in Nat /\ after \in Nat /\ spent \in Nat /\ new \in Nat
      BY <3>3, ValueType
    <3>7. owned \in Nat
      BY DEF TypeOK, Accounts
    <3>8. owns \in Nat
      <4>1. TypeOK'
        BY NextNoteTypes
      <4> QED
        BY <4>1 DEF TypeOK, Accounts
    <3> HIDE DEF before, after, spent, new, owned, owns
    <3>9. owns + before >= owned + after + new
      BY ONLY <3>4, <3>5, <3>6, <3>7, <3>8
    <3> QED
      BY <3>9 DEF before, after, new, owned, owns
  <2> QED
    BY <2>1, <2>2, <2>3, <2>5, <2>6
<1> HIDE DEF C
<1>4. /\ TransferProof(root, inputs, outputs) \in BOOLEAN
      /\ FreezeProof(root, inputs, outputs) \in BOOLEAN
      /\ \A a : MintProof(root, inputs, outputs, a) \in BOOLEAN
  BY Zenon DEF TransferProof, FreezeProof, MintProof
<1>5. "TRANSFER" \in NoteTypes /\ "MINT" \in NoteTypes /\ "FREEZE" \in NoteTypes /\ "BURN" \in NoteTypes
  BY DEF NoteTypes
<1>5a. /\ TransferProof(root, inputs, outputs) => InTree(root, inputs)
       /\ FreezeProof(root, inputs, outputs) => InTree(root, inputs)
       /\ \A a : MintProof(root, inputs, outputs, a) => InTree(root, inputs)
  BY Zenon DEF TransferProof, FreezeProof, MintProof
<1>5b. \A t \in HonestTokens : balances[t][C] \in Nat /\ Value(assets, t, outputs, {}) \in Nat
  <2>1. outputs \in Seq(Leaves)
    BY <1>2, ListTypes
  <2> QED
    BY <2>1, ValueType DEF TypeOK, Accounts, C
<1>6. CASE TransferStep(root, inputs, outputs)
  <2>1. /\ balances' = balances
        /\ NoteSteps("TRANSFER", root, inputs, outputs, TransferProof(root, inputs, outputs),
                     ZeroAddress)
    BY <1>6, Zenon DEF TransferStep
  <2>2. TransferProof(root, inputs, outputs) => \A t \in HonestTokens :
           balances'[t][C] + Value(assets, t, ins, {}) >=
             balances[t][C] + Value(assets, t, outputs, {})
    <3>1. TransferProof(root, inputs, outputs) => \A t \in HonestTokens :
             Value(assets, t, ins, {}) = Value(assets, t, outputs, {})
      BY <2>1, TransferValue
    <3> QED
      BY <1>5b, <2>1, <3>1
  <2> QED
    BY <1>1, <1>2, <1>3, <1>4, <1>5, <1>5a, <2>1, <2>2 DEF C
<1>7. CASE MintStep(root, inputs, outputs)
  <2>0. HasVerifyingKey("MINT", inputs, outputs) /\ balances' = balances
    BY <1>7, Zenon DEF MintStep
  <2>1. PICK a \in AssetDefinitions, c \in InternalCodes :
             /\ IsDomesticCode(a.code, c)
             /\ NoteSteps("MINT", root, inputs, outputs, MintProof(root, inputs, outputs, a),
                          ZeroAddress)
    BY <1>7, Zenon DEF MintStep
  <2>2. MintProof(root, inputs, outputs, a) => \A t \in HonestTokens :
           balances'[t][C] + Value(assets, t, ins, {}) >=
             balances[t][C] + Value(assets, t, outputs, {})
    <3>1. MintProof(root, inputs, outputs, a) => \A t \in HonestTokens :
             Value(assets, t, ins, {}) = Value(assets, t, outputs, {})
      BY <2>0, <2>1, MintValue
    <3> QED
      BY <1>5b, <2>0, <3>1
  <2> QED
    BY <1>1, <1>2, <1>3, <1>4, <1>5, <1>5a, <2>1, <2>2 DEF C
<1>8. CASE FreezeStep(root, inputs, outputs)
  <2>1. /\ HasVerifyingKey("FREEZE", inputs, outputs) /\ balances' = balances
        /\ NoteSteps("FREEZE", root, inputs, outputs, FreezeProof(root, inputs, outputs),
                     ZeroAddress)
    BY <1>8, Zenon DEF FreezeStep
  <2>2. FreezeProof(root, inputs, outputs) => \A t \in HonestTokens :
           balances'[t][C] + Value(assets, t, ins, {}) >=
             balances[t][C] + Value(assets, t, outputs, {})
    <3>1. FreezeProof(root, inputs, outputs) => \A t \in HonestTokens :
             Value(assets, t, ins, {}) = Value(assets, t, outputs, {})
      BY <2>1, FreezeValue
    <3> QED
      BY <1>5b, <2>1, <3>1
  <2> QED
    BY <1>1, <1>2, <1>3, <1>4, <1>5, <1>5a, <2>1, <2>2 DEF C
<1>9. CASE BurnStep(root, inputs, outputs)
  <2> DEFINE kept == keptOutputs(outputs)
             callee == lookup(outputs[2].assetDef)
             amount == outputs[2].amount
  <2>1. /\ Len(outputs) >= 2
        /\ NoteSteps("BURN", root, inputs, kept, TransferProof(root, inputs, outputs), callee)
        /\ \E recipient \in Accounts : Transfer(callee, C, recipient, amount)
    BY <1>9, Zenon DEF BurnStep, C
  <2>2. /\ kept \in Seq(Records)
        /\ Len(kept) = Len(outputs) - 1
        /\ \A i \in 1 .. Len(outputs) - 1 :
              kept[i] = IF i = 1 THEN outputs[1] ELSE outputs[i + 1]
    BY <2>1, OutputTypes
  <2>3. outputs[2] \in Records /\ outputs[2] # ZeroCommitment
    BY <1>2, <2>1, CapeAssumption
  <2>4. outputs[2].assetDef \in AssetDefinitions /\ amount \in Nat
    BY <2>3, CapeAssumption DEF Records
  <2>5. callee \in Erc20Addresses \cup {ZeroAddress}
    BY <2>4 DEF lookup, TypeOK, AssetsTypeOK
  <2>6. \A t \in HonestTokens :
           Worth(assets, t, outputs[2]) = IF t = callee THEN amount ELSE 0
    BY <2>3 DEF Worth, lookup
  <2> HIDE DEF kept, callee, amount
  <2>7. PICK token, recipient :
             token = callee /\ recipient \in Accounts /\ Transfer(token, CapeAddress, recipient, amount)
    BY <2>1 DEF C
  <2>7a. amount \in Nat /\ recipient \in Accounts /\ Transfer(token, CapeAddress, recipient, amount)
    BY <2>4, <2>7
  <2>8. balances' \in [HonestTokens -> [Accounts -> Nat]]
    BY <2>7a, PaidOutTypes
  <2>9. ASSUME NEW t \in HonestTokens
        PROVE  balances'[t][CapeAddress] >=
                 IF t = token THEN balances[t][CapeAddress] - amount ELSE balances[t][CapeAddress]
    BY <2>7a, PaidOut
  <2>10. ASSUME TransferProof(root, inputs, outputs), NEW t \in HonestTokens
         PROVE  balances'[t][C] + Value(assets, t, ins, {}) >=
                  balances[t][C] + Value(assets, t, kept, {})
    <3> DEFINE spent == Value(assets, t, ins, {})
               new == Value(assets, t, kept, {})
    <3>1. outputs \in Seq(Leaves) /\ kept \in Seq(Leaves)
      BY <1>2, <2>2, ListTypes
    <3>2. spent = Value(assets, t, outputs, {})
      BY <2>10, TransferValue
    <3>3. Value(assets, t, outputs, {}) = new + Worth(assets, t, outputs[2])
      BY <2>1, <2>2, <3>1, ValueKept
    <3>4. spent = new + IF t = callee THEN amount ELSE 0
      BY <2>6, <3>2, <3>3
    <3>5. new \in Nat /\ balances[t][C] \in Nat /\ balances'[t][C] \in Nat
      BY <1>5b, <2>8, <3>1, ValueType DEF Accounts, C
    <3>5a. balances'[t][C] >= IF t = callee THEN balances[t][C] - amount ELSE balances[t][C]
      BY <2>7, <2>9 DEF C
    <3> HIDE DEF spent, new
    <3>6. balances'[t][C] + spent >= balances[t][C] + new
      BY <2>4, <3>4, <3>5, <3>5a
    <3> QED
      BY <3>6 DEF spent, new
  <2> QED
    BY <1>1, <1>3, <1>4, <1>5, <1>5a, <2>1, <2>2, <2>5, <2>10 DEF C
<1> QED
  BY <1>1, <1>6, <1>7, <1>8, <1>9, Zenon

-----------------------------------------------------------------------------
(* Solvency.                                                               *)

\* `funds' cover what the leaves that are not spent and the queue are worth.
Solvent(registry, funds, leaves, spent, queue) ==
    \A t \in HonestTokens :
        funds[t][CapeAddress] >= Value(registry, t, leaves, spent) + Value(registry, t, queue, {})

\* A deposit in progress is queued and not paid for yet.
SolventButFor(opening) ==
    \A t \in HonestTokens :
        balances[t][CapeAddress] + Worth(assets, t, opening) >=
          Value(assets, t, tree, nullifiers) + Value(assets, t, pendingDeposits, {})

\* A block in progress has spent its inputs and not inserted its outputs yet.
SolventWith(commitments) ==
    \A t \in HonestTokens :
        balances[t][CapeAddress] >=
          Value(assets, t, tree, nullifiers) + Value(assets, t, pendingDeposits, {})
            + Value(assets, t, commitments, {})

(***************************************************************************)
(* The invariant: solvency between calls, of the state that a failing call *)
(* restores, and what it becomes in the middle of each call.               *)
(***************************************************************************)
SolventInv ==
    /\ nullifiers \subseteq 1 .. Len(tree)
    /\ Idle => Solvent(assets, balances, tree, nullifiers, pendingDeposits)
    /\ ~Idle => LET s == top.saved
                IN  /\ s.nullifiers \subseteq 1 .. Len(s.tree)
                    /\ Solvent(s.assets, s.balances, s.tree, s.nullifiers, s.pendingDeposits)
    /\ ~Idle /\ top.fn = "depositErc20" =>
          /\ assets[top.opening.assetDef] = top.callee
          /\ SolventButFor(top.opening)
    /\ ~Idle /\ top.fn = "submitCapeBlock" /\ top.verified => SolventWith(top.commitments)

\* What the contract owns of a token, and the values it compares with.
LEMMA SolventTypes ==
    ASSUME TypeOK, NEW t \in HonestTokens
    PROVE  /\ balances[t][CapeAddress] \in Nat
           /\ Value(assets, t, tree, nullifiers) \in Nat
           /\ Value(assets, t, pendingDeposits, {}) \in Nat
<1>1. balances[t][CapeAddress] \in Nat
  BY DEF TypeOK, Accounts
<1>2. tree \in Seq(Leaves) /\ pendingDeposits \in Seq(Leaves)
  BY ListTypes
<1> QED
  BY <1>1, <1>2, ValueType

\* Nothing is worth nothing.
LEMMA EmptyValue ==
    ASSUME NEW registry, NEW t, NEW spent
    PROVE  Value(registry, t, << >>, spent) = 0
<1> DEFINE none == << >>
<1>1. none \in Seq(Leaves) /\ Len(none) = 0
  OBVIOUS
<1> HIDE DEF none
<1>2. \A i \in 1 .. Len(none) : Part(registry, t, none, spent, i) = 0
  BY <1>1
<1>3. Value(registry, t, none, spent) = 0
  BY <1>1, <1>2, ValueNothing
<1> QED
  BY <1>3 DEF none

\* The contract starts with nothing and owes nothing.
LEMMA SolventInit == Init => SolventInv
<1> SUFFICES ASSUME Init PROVE SolventInv
  OBVIOUS
<1>1. /\ nullifiers = {} /\ tree = << >> /\ pendingDeposits = << >> /\ frames = << >>
      /\ balances = [t \in HonestTokens |->
                      [a \in Accounts |-> IF a \in Users THEN InitialBalance ELSE 0]]
  BY Zenon DEF Init
<1>2. CapeAddress \in Accounts /\ CapeAddress \notin Users
  BY CapeAssumption DEF Accounts
<1>3. \A t \in HonestTokens : balances[t][CapeAddress] = 0
  BY <1>1, <1>2
<1>4. Solvent(assets, balances, tree, nullifiers, pendingDeposits)
  BY <1>1, <1>3, EmptyValue DEF Solvent
<1>5. Idle
  BY <1>1 DEF Idle
<1> QED
  BY <1>1, <1>4, <1>5 DEF SolventInv

\* The faucet's record is worth no token.
LEMMA SolventFaucet ==
    ASSUME TypeOK, Guarded, BackedInv, SolventInv, NEW u \in Users, faucetSetupForTestnet(u)
    PROVE  SolventInv'
<1>1. PICK ro \in Records :
           /\ ro.assetDef = NativeAsset /\ Idle /\ Idle'
           /\ tree' = tree \o <<ro>>
           /\ UNCHANGED <<nullifiers, pendingDeposits, balances, assets>>
  BY FaucetStep
<1>2. nullifiers \subseteq 1 .. Len(tree) /\ RegistryOK(assets)
  BY DEF SolventInv, BackedInv
<1>3. ro \in Leaves /\ tree \in Seq(Leaves) /\ ~IsForeign(ro.assetDef)
  BY <1>1, ListTypes, AssetCodeFacts DEF Leaves
<1>4. \A t \in HonestTokens : Worth(assets, t, ro) = 0
  BY <1>2, <1>3, WorthNothing
<1>5. \A t \in HonestTokens :
         Value(assets, t, tree', nullifiers) = Value(assets, t, tree, nullifiers)
  <2> SUFFICES ASSUME NEW t \in HonestTokens
               PROVE  Value(assets, t, tree', nullifiers) = Value(assets, t, tree, nullifiers)
    OBVIOUS
  <2>1. Value(assets, t, tree \o <<ro>>, nullifiers) =
           Value(assets, t, tree, nullifiers) + Worth(assets, t, ro)
    BY <1>2, <1>3, ValueAppend
  <2> QED
    BY <1>1, <1>4, <2>1, SolventTypes
<1>6. Solvent(assets, balances, tree', nullifiers, pendingDeposits)
  BY <1>1, <1>5 DEF SolventInv, Solvent
<1>7. nullifiers \subseteq 1 .. Len(tree')
  <2>1. Len(tree') = Len(tree) + 1 /\ Len(tree) \in Nat
    <3>1. <<ro>> \in Seq(Leaves) /\ Len(<<ro>>) = 1
      BY <1>3
    <3> QED
      BY <1>1, <1>3, <3>1, ConcatProperties
  <2> QED
    BY <1>2, <2>1
<1> QED
  BY <1>1, <1>6, <1>7 DEF SolventInv

\* A new asset has no records yet.
LEMMA SolventSponsor ==
    ASSUME TypeOK, Guarded, BackedInv, SolventInv, Sponsor
    PROVE  SolventInv'
<1>1. PICK e \in Erc20Addresses, a \in AssetDefinitions :
             /\ assets[a] = ZeroAddress /\ IsForeign(a) /\ a.code[2] = e
             /\ assets' = [assets EXCEPT ![a] = e]
             /\ top' = top /\ (Idle' <=> Idle)
             /\ UNCHANGED <<nullifiers, pendingDeposits, tree, balances>>
  BY SponsorStep
<1>2. /\ tree \in Seq(Leaves) /\ pendingDeposits \in Seq(Leaves)
      /\ assets \in [AssetDefinitions -> Erc20Addresses \cup {ZeroAddress}]
  BY ListTypes
<1>2a. Sponsored(assets, a, e, assets')
  BY <1>1, <1>2 DEF Sponsored
<1>3. ASSUME NEW list \in Seq(Leaves), NEW spent, NEW t \in HonestTokens, Backed(assets, list)
      PROVE  Value(assets', t, list, spent) = Value(assets, t, list, spent)
  BY <1>2a, <1>3, SponsorValue
<1>3a. Backed(assets, tree) /\ Backed(assets, pendingDeposits)
  BY DEF BackedInv
<1>4. \A t \in HonestTokens :
         /\ Value(assets', t, tree, nullifiers) = Value(assets, t, tree, nullifiers)
         /\ Value(assets', t, pendingDeposits, {}) = Value(assets, t, pendingDeposits, {})
  BY <1>2, <1>3, <1>3a, Zenon
<1>5. Idle' => Solvent(assets', balances', tree', nullifiers', pendingDeposits')
  BY <1>1, <1>4 DEF SolventInv, Solvent
<1>6. ASSUME ~Idle', top'.fn = "depositErc20"
      PROVE  assets'[top'.opening.assetDef] = top'.callee /\ SolventButFor(top.opening)'
  <2>1. ~Idle /\ top.fn = "depositErc20" /\ top \in DepositFrames
    BY <1>1, <1>6, FrameTypes
  <2>2. top.opening \in Records /\ top.callee \in Erc20Addresses
    BY <2>1 DEF DepositFrames
  <2>3. top.opening.assetDef \in AssetDefinitions /\ top.callee # ZeroAddress
    BY <2>2, AssetRegistryAssumption DEF Records
  <2>4. assets[top.opening.assetDef] = top.callee /\ SolventButFor(top.opening)
    BY <2>1 DEF SolventInv
  <2>5. assets'[top.opening.assetDef] = top.callee
    BY <1>1, <1>2, <2>3, <2>4
  <2>6. \A t \in HonestTokens : Worth(assets', t, top.opening) = Worth(assets, t, top.opening)
    BY <2>4, <2>5 DEF Worth
  <2> QED
    BY <1>1, <1>4, <2>4, <2>5, <2>6 DEF SolventButFor
<1>7. ASSUME ~Idle', top'.fn = "submitCapeBlock", top'.verified
      PROVE  SolventWith(top.commitments)'
  <2>1. ~Idle /\ top.fn = "submitCapeBlock" /\ top.verified /\ top \in BlockFrames
    BY <1>1, <1>7, FrameTypes
  <2>2. top.commitments \in Seq(Leaves) /\ Backed(assets, top.commitments)
    BY <2>1, ListTypes DEF BlockFrames, BackedInv
  <2>3. \A t \in HonestTokens :
           Value(assets', t, top.commitments, {}) = Value(assets, t, top.commitments, {})
    BY <1>3, <2>2
  <2> QED
    BY <1>1, <1>4, <2>1, <2>3 DEF SolventWith, SolventInv
<1> QED
  BY <1>1, <1>5, <1>6, <1>7 DEF SolventInv

\* A deposit is queued before it is paid for.
LEMMA SolventDeposit ==
    ASSUME TypeOK, Guarded, SolventInv, Deposit
    PROVE  SolventInv'
<1>1. PICK ro \in Records, e \in Erc20Addresses :
             /\ Idle /\ ~Idle'
             /\ assets[ro.assetDef] = e
             /\ pendingDeposits' = Append(pendingDeposits, ro)
             /\ top'.fn = "depositErc20" /\ top'.opening = ro /\ top'.callee = e
             /\ top'.saved = Snapshot
             /\ UNCHANGED <<nullifiers, tree, balances, assets>>
  BY DepositStep
<1>2. pendingDeposits \in Seq(Leaves) /\ ro \in Leaves
  BY ListTypes DEF Leaves
<1>3. ASSUME NEW t \in HonestTokens
      PROVE  balances[t][CapeAddress] + Worth(assets, t, ro) >=
               Value(assets, t, tree, nullifiers) + Value(assets, t, pendingDeposits', {})
  <2>1. Value(assets, t, Append(pendingDeposits, ro), {}) =
          Value(assets, t, pendingDeposits, {}) + Worth(assets, t, ro)
    BY <1>2, ValueAppend
  <2>2. balances[t][CapeAddress] >=
          Value(assets, t, tree, nullifiers) + Value(assets, t, pendingDeposits, {})
    BY <1>1 DEF SolventInv, Solvent
  <2>3. Worth(assets, t, ro) \in Nat
    BY <1>2, WorthType
  <2> QED
    BY <1>1, <2>1, <2>2, <2>3, SolventTypes
<1>4. SolventButFor(top.opening)'
  BY <1>1, <1>3 DEF SolventButFor
<1> QED
  BY <1>1, <1>4, SnapshotFields DEF SolventInv

\* The token pays for the deposit.
LEMMA SolventDepositReturns ==
    ASSUME TypeOK, Guarded, SolventInv, depositErc20Returns
    PROVE  SolventInv'
<1>1. /\ ~Idle /\ top.fn = "depositErc20" /\ top \in DepositFrames /\ Idle'
      /\ \A t \in HonestTokens :
            balances'[t][CapeAddress] =
               IF t = top.callee THEN balances[t][CapeAddress] + top.opening.amount
                                 ELSE balances[t][CapeAddress]
      /\ UNCHANGED <<nullifiers, pendingDeposits, tree, assets>>
  BY DepositReturnsStep
<1>2. assets[top.opening.assetDef] = top.callee /\ SolventButFor(top.opening)
  BY <1>1 DEF SolventInv
<1>3. top.opening \in Records /\ top.opening # ZeroCommitment
  BY <1>1, CapeAssumption DEF DepositFrames
<1>4. \A t \in HonestTokens :
         Worth(assets, t, top.opening) = IF t = top.callee THEN top.opening.amount ELSE 0
  BY <1>2, <1>3 DEF Worth
<1>5. \A t \in HonestTokens :
         balances'[t][CapeAddress] = balances[t][CapeAddress] + Worth(assets, t, top.opening)
  BY <1>1, <1>4, SolventTypes
<1>6. Solvent(assets, balances', tree, nullifiers, pendingDeposits)
  BY <1>2, <1>5 DEF Solvent, SolventButFor
<1> QED
  BY <1>1, <1>6 DEF SolventInv

\* A block starts without records.
LEMMA SolventSubmit ==
    ASSUME TypeOK, Guarded, SolventInv, SubmitBlock
    PROVE  SolventInv'
<1>1. /\ Idle /\ ~Idle' /\ top'.fn = "submitCapeBlock"
      /\ top'.commitments = << >> /\ top'.saved = Snapshot
      /\ UNCHANGED <<nullifiers, pendingDeposits, tree, balances, assets>>
  BY SubmitStep
<1>2. SolventWith(top.commitments)'
  BY <1>1, EmptyValue, SolventTypes DEF SolventWith, SolventInv, Solvent
<1> QED
  BY <1>1, <1>2, SnapshotFields DEF SolventInv

\* A note moves value, or pays out what it burns.
LEMMA SolventNote ==
    ASSUME TypeOK, Guarded, BackedInv, SolventInv, NextNote
    PROVE  SolventInv'
<1>1. PICK inserted \in Seq(Records) :
              /\ ~Idle /\ ~Idle' /\ top.fn = "submitCapeBlock" /\ top'.fn = "submitCapeBlock"
              /\ top.verified
              /\ top'.commitments = top.commitments \o inserted
              /\ top'.saved = top.saved
              /\ nullifiers \subseteq 1 .. Len(tree) => nullifiers' \subseteq 1 .. Len(tree)
              /\ UNCHANGED <<pendingDeposits, tree, assets>>
              /\ top'.verified => \A t \in HonestTokens :
                    balances'[t][CapeAddress] + Value(assets, t, tree, nullifiers) >=
                      balances[t][CapeAddress] + Value(assets, t, tree, nullifiers')
                        + Value(assets, t, inserted, {})
  BY NoteValue DEF BackedInv
<1>2. top \in BlockFrames
  BY <1>1, FrameTypes
<1>3. top.commitments \in Seq(Leaves) /\ inserted \in Seq(Leaves)
  BY <1>2, ListTypes DEF BlockFrames
<1>3a. TypeOK'
  BY NextNoteTypes
<1>4. ASSUME top'.verified, NEW t \in HonestTokens
      PROVE  balances'[t][CapeAddress] >=
               Value(assets, t, tree, nullifiers') + Value(assets, t, pendingDeposits, {})
                 + Value(assets, t, top'.commitments, {})
  <2> DEFINE before == Value(assets, t, tree, nullifiers)
             after == Value(assets, t, tree, nullifiers')
             queue == Value(assets, t, pendingDeposits, {})
             old == Value(assets, t, top.commitments, {})
             new == Value(assets, t, inserted, {})
             owned == balances[t][CapeAddress]
             owns == balances'[t][CapeAddress]
  <2>1. owns + before >= owned + after + new
    BY <1>1, <1>4
  <2>2. owned >= before + queue + old
    BY <1>1 DEF SolventInv, SolventWith
  <2>3. Value(assets, t, top'.commitments, {}) = old + new
    BY <1>1, <1>3, ValueConcat
  <2>4. before \in Nat /\ queue \in Nat /\ owned \in Nat
    BY SolventTypes
  <2>5. after \in Nat /\ old \in Nat /\ new \in Nat
    BY <1>3, ListTypes, ValueType
  <2>6. owns \in Nat
    BY <1>3a DEF TypeOK, Accounts
  <2> HIDE DEF before, after, queue, old, new, owned, owns
  <2>7. owns >= after + queue + (old + new)
    BY ONLY <2>1, <2>2, <2>4, <2>5, <2>6
  <2> QED
    BY <2>3, <2>7 DEF after, queue, old, new, owns
<1>5. top'.verified => SolventWith(top.commitments)'
  BY <1>1, <1>4 DEF SolventWith
<1> QED
  BY <1>1, <1>5 DEF SolventInv

\* The records of the block and the queue become leaves.
LEMMA SolventBlockReturns ==
    ASSUME TypeOK, Guarded, BackedInv, SolventInv, submitCapeBlockReturns
    PROVE  SolventInv'
<1>1. PICK length \in Nat, padding \in Seq({ZeroCommitment}) :
             /\ top \in BlockFrames
             /\ newCommitments \in Seq(Records)
             /\ BlockReturns(newCommitments, length, padding)
  BY BlockReturnsStep
<1> DEFINE items == newCommitments
<1>2. /\ ~Idle /\ top.fn = "submitCapeBlock" /\ frames' = << >>
      /\ top.notes # << >> => top.verified
      /\ tree' = tree \o items \o padding
      /\ pendingDeposits' = << >> /\ assets' = assets
      /\ UNCHANGED <<nullifiers, balances>>
  BY <1>1, Zenon DEF BlockReturns
<1>3. top.verified
  BY <1>2 DEF BackedInv
<1>4. /\ top.commitments \in Seq(Leaves) /\ padding \in Seq(Leaves) /\ items \in Seq(Leaves)
      /\ tree \in Seq(Leaves) /\ pendingDeposits \in Seq(Leaves)
      /\ items = top.commitments \o pendingDeposits
  BY <1>1, ListTypes, SeqMonotonic DEF BlockFrames, Leaves, newCommitments
<1> HIDE DEF items
<1>5. tree \o items \in Seq(Leaves) /\ Len(tree \o items) = Len(tree) + Len(items)
  BY <1>4, ConcatProperties
<1>6. Len((tree \o items) \o padding) = Len(tree) + Len(items) + Len(padding)
  BY <1>4, <1>5, ConcatProperties
<1>7. nullifiers \subseteq 1 .. Len(tree) /\ nullifiers \subseteq 1 .. Len(tree \o items)
      /\ nullifiers \subseteq 1 .. Len(tree')
  <2>1. Len(tree) \in Nat /\ Len(items) \in Nat /\ Len(padding) \in Nat
    BY <1>4
  <2>2. nullifiers \subseteq 1 .. Len(tree)
    BY DEF SolventInv
  <2> QED
    BY <1>2, <1>5, <1>6, <2>1, <2>2
<1>7a. nullifiers \in SUBSET (1 .. Len(tree)) /\ nullifiers \in SUBSET (1 .. Len(tree \o items))
  BY <1>7, Zenon
<1>8. ASSUME NEW t \in HonestTokens
      PROVE  balances[t][CapeAddress] >=
               Value(assets, t, tree', nullifiers) + Value(assets, t, << >>, {})
  <2>1. Value(assets, t, (tree \o items) \o padding, nullifiers) =
          Value(assets, t, tree \o items, nullifiers) + Value(assets, t, padding, {})
    <3> DEFINE both == tree \o items
    <3>1. both \in Seq(Leaves) /\ nullifiers \in SUBSET (1 .. Len(both))
      BY <1>5, <1>7a
    <3> HIDE DEF both
    <3>2. Value(assets, t, both \o padding, nullifiers) =
            Value(assets, t, both, nullifiers) + Value(assets, t, padding, {})
      BY <1>4, <3>1, ValueConcat
    <3> QED
      BY <3>2 DEF both
  <2>2. Value(assets, t, tree \o items, nullifiers) =
          Value(assets, t, tree, nullifiers) + Value(assets, t, items, {})
    BY <1>4, <1>7a, ValueConcat
  <2>3. Value(assets, t, items, {}) =
          Value(assets, t, top.commitments, {}) + Value(assets, t, pendingDeposits, {})
    BY <1>4, ValueConcat
  <2>4. Value(assets, t, padding, {}) = 0
    <3>1. \A i \in 1 .. Len(padding) : Part(assets, t, padding, {}, i) = 0
      BY <1>1 DEF Part, Worth
    <3> QED
      BY <1>4, <3>1, ValueNothing
  <2>5. Value(assets, t, << >>, {}) = 0
    BY EmptyValue
  <2>6. balances[t][CapeAddress] >=
          Value(assets, t, tree, nullifiers) + Value(assets, t, pendingDeposits, {})
            + Value(assets, t, top.commitments, {})
    BY <1>2, <1>3 DEF SolventInv, SolventWith
  <2>7. Value(assets, t, top.commitments, {}) \in Nat
    BY <1>4, ValueType
  <2> QED
    BY <1>2, <2>1, <2>2, <2>3, <2>4, <2>5, <2>6, <2>7, SolventTypes
<1>9. Solvent(assets, balances, tree', nullifiers, << >>)
  BY <1>8 DEF Solvent
<1>10. Idle'
  BY <1>2 DEF Idle
<1> QED
  BY <1>2, <1>7, <1>9, <1>10 DEF SolventInv

\* The state that a failing call restores is solvent.
LEMMA SolventRevert ==
    ASSUME TypeOK, Guarded, SolventInv, revert
    PROVE  SolventInv'
BY RevertStep DEF SolventInv

\* Every step keeps the invariant.
LEMMA SolventNext == TypeOK /\ Guarded /\ BackedInv /\ SolventInv /\ [Next]_vars => SolventInv'
<1>1. SolventInv /\ UNCHANGED vars => SolventInv'
  BY DEF SolventInv, SolventButFor, SolventWith, vars, contractVars, Idle, top
<1> QED
  BY <1>1, SolventFaucet, SolventSponsor, SolventDeposit, SolventDepositReturns, SolventSubmit,
     SolventNote, SolventBlockReturns, SolventRevert DEF Next

(***************************************************************************)
(* The contract can always pay: between calls it owns of every honest      *)
(* token at least what the unspent records and the queued deposits of the  *)
(* assets wrapping it are worth, whoever the burn notes pay, the contract  *)
(* itself included (CAPE.sol depositErc20, submitCapeBlock,                *)
(* _handleWithdrawal).                                                     *)
(***************************************************************************)
THEOREM CapeSolvent == Spec => []Solvency
<1>1. Init => SolventInv /\ BackedInv
  BY SolventInit, BackedInit
<1>2. /\ TypeOK /\ Guarded /\ BackedInv /\ SolventInv /\ [Next]_vars => SolventInv'
      /\ TypeOK /\ Guarded /\ BackedInv /\ [Next]_vars => BackedInv'
  BY SolventNext, BackedNext
<1>3. SolventInv => Solvency
  BY DEF SolventInv, Solvency, Solvent
<1> QED
  BY <1>1, <1>2, <1>3, CapeTypesCorrect, PTL DEF Spec

-----------------------------------------------------------------------------
(* The log: the contract implements the one that its clients read          *)
(* (CapeLog), and its state is what a reader of the log computes.          *)

-----------------------------------------------------------------------------
(* The instance of CapeLog has the library's operators under other names.  *)

\* They are the same operators.
LEMMA SameOperators ==
    /\ \A s : Log!FlattenSeq(s) = FlattenSeq(s)
    /\ \A s : Log!ToSet(s) = ToSet(s)
    /\ \A s : Log!IsInjective(s) <=> IsInjective(s)
    /\ \A s, u : Log!IsPrefix(s, u) <=> IsPrefix(s, u)
    /\ \A s, u : Log!IsStrictPrefix(s, u) <=> IsStrictPrefix(s, u)
    /\ \A S : Log!Cardinality(S) = Cardinality(S)
<1>1. \A s : Log!FlattenSeq(s) = FlattenSeq(s)
  BY Zenon DEF Log!FlattenSeq, FlattenSeq
<1>2. \A s : Log!ToSet(s) = ToSet(s)
  BY Zenon DEF Log!ToSet, ToSet
<1>3. \A s : Log!IsInjective(s) <=> IsInjective(s)
  BY Zenon DEF Log!IsInjective, IsInjective
<1>4. \A s, u : Log!IsPrefix(s, u) <=> IsPrefix(s, u)
  BY Zenon DEF Log!IsPrefix, IsPrefix
<1>5. \A s, u : Log!IsStrictPrefix(s, u) <=> IsStrictPrefix(s, u)
  BY <1>4, Zenon DEF Log!IsStrictPrefix, IsStrictPrefix
<1>6. \A S : Log!Cardinality(S) = Cardinality(S)
  BY Zenon DEF Log!Cardinality, Cardinality
<1> QED
  BY <1>1, <1>2, <1>3, <1>4, <1>5, <1>6

-----------------------------------------------------------------------------
(* The kinds of events.                                                    *)

\* What an event carries.
LEMMA EventFacts ==
    ASSUME NEW e \in Events
    PROVE  /\ e.event \in {"FaucetInitialized", "AssetSponsored", "Erc20TokensDeposited",
                           "BlockCommitted"}
           /\ e.event = "FaucetInitialized" => e.opening \in Records
           /\ e.event = "AssetSponsored" => e.asset \in AssetDefinitions
           /\ e.event = "Erc20TokensDeposited" => e.opening \in Records
           /\ e.event = "BlockCommitted" =>
                 /\ e.notes \in Seq(CommittedNotes) /\ e.deposits \in Seq(Records)
                 /\ e.padding \in Seq({ZeroCommitment})
BY DEF Events

-----------------------------------------------------------------------------
(* The deposits announced since the last block.                            *)

\* What the recursive function of Announced is.
Queues(l, f) ==
    f = [k \in 0 .. Len(l) |->
          IF k = 0 THEN << >> ELSE Log!NextQueue(f[k - 1], l[k])]

\* The queue holds records.
LEMMA NextQueueType ==
    ASSUME NEW queue \in Seq(Records), NEW e \in Events
    PROVE  Log!NextQueue(queue, e) \in Seq(Records)
<1>1. e.event = "Erc20TokensDeposited" => e.opening \in Records
  BY EventFacts
<1> QED
  BY <1>1 DEF Log!NextQueue, Log!IsBlock

\* There is such a function.
LEMMA QueuesExist ==
    ASSUME NEW l \in Seq(Events)
    PROVE  \E f : Queues(l, f)
<1> DEFINE n == Len(l)
           D == Seq(Records)
           step == [p \in Nat \X D |-> IF p[1] \in 1 .. n THEN Log!NextQueue(p[2], l[p[1]]) ELSE p[2]]
<1>0. n \in Nat /\ << >> \in D /\ \A k \in 1 .. n : l[k] \in Events
  OBVIOUS
<1>0a. \A x \in D, e \in Events : Log!NextQueue(x, e) \in D
  BY NextQueueType
<1> HIDE DEF D, n
<1>1. step \in [Nat \X D -> D]
  BY <1>0, <1>0a
<1>2. \A k \in 1 .. n, x \in D : step[<<k, x>>] = Log!NextQueue(x, l[k])
  BY <1>0
<1> HIDE DEF step
<1>3. PICK g \in [Nat -> D] : Recurs(g, << >>, step)
  BY <1>0, <1>1, NatRecursion
<1>4. g[0] = << >> /\ \A k \in Nat \ {0} : g[k] = step[<<k, g[k - 1]>>]
  BY <1>3 DEF Recurs
<1> DEFINE f == [k \in 0 .. n |-> g[k]]
           h == [k \in 0 .. n |->
                  IF k = 0 THEN << >> ELSE Log!NextQueue(f[k - 1], l[k])]
<1>5. \A k \in 0 .. n : f[k] = h[k]
  <2> TAKE k \in 0 .. n
  <2>1. CASE k = 0
    BY <1>4, <2>1
  <2>2. CASE k # 0
    <3>1. k \in 1 .. n /\ k \in Nat \ {0} /\ k - 1 \in 0 .. n /\ k - 1 \in Nat /\ k > 0
      BY <1>0, <2>2
    <3>2. g[k] = step[<<k, g[k - 1]>>] /\ g[k - 1] \in D
      BY <1>4, <3>1
    <3>3. f[k] = Log!NextQueue(f[k - 1], l[k])
      BY <1>2, <3>1, <3>2
    <3>4. h[k] = Log!NextQueue(f[k - 1], l[k])
      BY <3>1
    <3> QED
      BY <3>3, <3>4
  <2> QED
    BY <2>1, <2>2
<1>6. f = h
  <2>1. f = [k \in 0 .. n |-> f[k]] /\ h = [k \in 0 .. n |-> h[k]]
    OBVIOUS
  <2> HIDE DEF f, h
  <2> QED
    BY <1>5, <2>1
<1>7. Queues(l, f)
  <2> HIDE DEF f
  <2> QED
    BY <1>6 DEF Queues, n
<1> QED
  BY <1>7

\* The queue after each event of a log.
LEMMA AnnouncedChoice ==
    ASSUME NEW l \in Seq(Events)
    PROVE  \E f : /\ f[0] = << >>
                  /\ \A k \in 1 .. Len(l) : f[k] = Log!NextQueue(f[k - 1], l[k])
                  /\ \A k \in 0 .. Len(l) : f[k] \in Seq(Records)
                  /\ Log!Announced(l) = f[Len(l)]
<1> DEFINE f == CHOOSE f : Queues(l, f)
           n == Len(l)
<1>0. n \in Nat /\ \A k \in 1 .. n : l[k] \in Events
  OBVIOUS
<1>1. Queues(l, f)
  BY QueuesExist
<1>2. Log!Announced(l) = f[n]
  BY DEF Log!Announced, Queues
<1> HIDE DEF f
<1>3. f[0] = << >> /\ \A k \in 1 .. n : f[k] = Log!NextQueue(f[k - 1], l[k])
  BY <1>0, <1>1 DEF Queues
<1>4. \A k \in 0 .. n : f[k] \in Seq(Records)
  <2> DEFINE S == {k \in Nat : k <= n => f[k] \in Seq(Records)}
  <2>1. 0 \in S
    <3>1. << >> \in Seq(Records)
      OBVIOUS
    <3> QED
      BY <1>3, <3>1
  <2>2. \A k \in S : k + 1 \in S
    <3> SUFFICES ASSUME NEW k \in Nat, k <= n => f[k] \in Seq(Records), k + 1 <= n
                 PROVE  f[k + 1] \in Seq(Records)
      OBVIOUS
    <3>1. k + 1 \in 1 .. n /\ (k + 1) - 1 = k /\ k <= n
      BY <1>0
    <3> QED
      BY <1>0, <1>3, <3>1, NextQueueType
  <2> HIDE DEF S
  <2>3. S = Nat
    BY <2>1, <2>2, NatSetInduction DEF S
  <2> QED
    BY <1>0, <2>3 DEF S
<1> QED
  BY <1>2, <1>3, <1>4

\* Nothing was announced at first; the queue holds records.
LEMMA AnnouncedType ==
    /\ Log!Announced(<< >>) = << >>
    /\ \A l \in Seq(Events) : Log!Announced(l) \in Seq(Records)
<1>1. \A l \in Seq(Events) : Log!Announced(l) \in Seq(Records)
  <2> TAKE l \in Seq(Events)
  <2>1. Len(l) \in 0 .. Len(l)
    OBVIOUS
  <2> QED
    BY <2>1, AnnouncedChoice
<1>2. Log!Announced(<< >>) = << >>
  <2> DEFINE none == << >>
  <2>1. none \in Seq(Events) /\ Len(none) = 0
    OBVIOUS
  <2> HIDE DEF none
  <2>2. Log!Announced(none) = << >>
    BY <2>1, AnnouncedChoice
  <2> QED
    BY <2>2 DEF none
<1> QED
  BY <1>1, <1>2

\* One more event.
LEMMA AnnouncedAppend ==
    ASSUME NEW l \in Seq(Events), NEW e \in Events
    PROVE  Log!Announced(Append(l, e)) = Log!NextQueue(Log!Announced(l), e)
<1> DEFINE n == Len(l)
           more == Append(l, e)
<1>0. /\ n \in Nat /\ more \in Seq(Events) /\ Len(more) = n + 1
      /\ more[n + 1] = e /\ \A k \in 1 .. n : more[k] = l[k]
  OBVIOUS
<1> HIDE DEF more
<1>1. PICK f : /\ f[0] = << >>
               /\ \A k \in 1 .. n : f[k] = Log!NextQueue(f[k - 1], l[k])
               /\ Log!Announced(l) = f[n]
  BY AnnouncedChoice
<1>2. PICK g : /\ g[0] = << >>
               /\ \A k \in 1 .. n + 1 : g[k] = Log!NextQueue(g[k - 1], more[k])
               /\ Log!Announced(more) = g[n + 1]
  BY <1>0, AnnouncedChoice
<1> HIDE DEF n
<1> DEFINE S == {k \in Nat : k <= n => f[k] = g[k]}
<1>3. 0 \in S
  BY <1>1, <1>2
<1>4. \A k \in S : k + 1 \in S
  <2> SUFFICES ASSUME NEW k \in Nat, k <= n => f[k] = g[k], k + 1 <= n
               PROVE  f[k + 1] = g[k + 1]
    OBVIOUS
  <2>1. k + 1 \in 1 .. n /\ k + 1 \in 1 .. n + 1 /\ (k + 1) - 1 = k /\ k <= n
    BY <1>0
  <2>2. f[k + 1] = Log!NextQueue(f[k], l[k + 1]) /\ g[k + 1] = Log!NextQueue(g[k], more[k + 1])
    BY <1>1, <1>2, <2>1
  <2> QED
    BY <1>0, <2>1, <2>2
<1> HIDE DEF S
<1>5. S = Nat
  BY <1>3, <1>4, NatSetInduction DEF S
<1>6. f[n] = g[n] /\ n + 1 \in 1 .. n + 1 /\ (n + 1) - 1 = n
  BY <1>0, <1>5 DEF S
<1>7. g[n + 1] = Log!NextQueue(f[n], e)
  BY <1>0, <1>2, <1>6
<1> QED
  BY <1>1, <1>2, <1>7 DEF more

-----------------------------------------------------------------------------
(* The leaves, and what notes add and spend.                               *)

\* The leaves that notes spend: nothing, and one more note.
LEMMA SpentByFacts ==
    /\ Log!SpentBy(<< >>) = << >>
    /\ \A notes \in Seq(CommittedNotes) : Log!SpentBy(notes) \in Seq(Nat)
    /\ \A notes \in Seq(CommittedNotes), note \in CommittedNotes :
          Log!SpentBy(Append(notes, note)) = Log!SpentBy(notes) \o note.spent
<1> DEFINE lists(notes) == [n \in DOMAIN notes |-> notes[n].spent]
<1>0. \A note \in CommittedNotes : note.spent \in Seq(Nat)
  BY DEF CommittedNotes
<1>1. ASSUME NEW notes \in Seq(CommittedNotes) PROVE lists(notes) \in Seq(Seq(Nat))
  BY <1>0
<1>2. ASSUME NEW notes \in Seq(CommittedNotes), NEW note \in CommittedNotes
      PROVE  lists(Append(notes, note)) = Append(lists(notes), note.spent)
  BY <1>0
<1>3. lists(<< >>) = << >>
  OBVIOUS
<1>4. \A notes : Log!SpentBy(notes) = FlattenSeq(lists(notes))
  BY SameOperators DEF Log!SpentBy
<1> HIDE DEF lists
<1>5. ASSUME NEW notes \in Seq(CommittedNotes) PROVE Log!SpentBy(notes) \in Seq(Nat)
  BY <1>1, <1>4, FlattenType
<1>6. ASSUME NEW notes \in Seq(CommittedNotes), NEW note \in CommittedNotes
      PROVE  Log!SpentBy(Append(notes, note)) = Log!SpentBy(notes) \o note.spent
  <2>1. lists(notes) \in Seq(Seq(Nat)) /\ note.spent \in Seq(Nat)
    BY <1>0, <1>1
  <2>2. FlattenSeq(Append(lists(notes), note.spent)) = FlattenSeq(lists(notes)) \o note.spent
    BY <2>1, FlattenAppend
  <2> QED
    BY <1>2, <1>4, <2>2
<1>7. Log!SpentBy(<< >>) = << >>
  BY <1>3, <1>4, FlattenEmpty
<1> QED
  BY <1>5, <1>6, <1>7

\* The records that notes add: nothing, and one more note.
LEMMA OutputsOfFacts ==
    /\ Log!OutputsOf(<< >>) = << >>
    /\ \A notes \in Seq(CommittedNotes) : Log!OutputsOf(notes) \in Seq(Records)
    /\ \A notes \in Seq(CommittedNotes), note \in CommittedNotes :
          Log!OutputsOf(Append(notes, note)) = Log!OutputsOf(notes) \o note.outputs
<1> DEFINE lists(notes) == [n \in DOMAIN notes |-> notes[n].outputs]
<1>0. \A note \in CommittedNotes : note.outputs \in Seq(Records)
  BY DEF CommittedNotes
<1>1. ASSUME NEW notes \in Seq(CommittedNotes) PROVE lists(notes) \in Seq(Seq(Records))
  BY <1>0
<1>2. ASSUME NEW notes \in Seq(CommittedNotes), NEW note \in CommittedNotes
      PROVE  lists(Append(notes, note)) = Append(lists(notes), note.outputs)
  BY <1>0
<1>3. lists(<< >>) = << >>
  OBVIOUS
<1>4. \A notes : Log!OutputsOf(notes) = FlattenSeq(lists(notes))
  BY SameOperators DEF Log!OutputsOf
<1> HIDE DEF lists
<1>5. ASSUME NEW notes \in Seq(CommittedNotes) PROVE Log!OutputsOf(notes) \in Seq(Records)
  BY <1>1, <1>4, FlattenType
<1>6. ASSUME NEW notes \in Seq(CommittedNotes), NEW note \in CommittedNotes
      PROVE  Log!OutputsOf(Append(notes, note)) = Log!OutputsOf(notes) \o note.outputs
  <2>1. lists(notes) \in Seq(Seq(Records)) /\ note.outputs \in Seq(Records)
    BY <1>0, <1>1
  <2>2. FlattenSeq(Append(lists(notes), note.outputs)) = FlattenSeq(lists(notes)) \o note.outputs
    BY <2>1, FlattenAppend
  <2> QED
    BY <1>2, <1>4, <2>2
<1>7. Log!OutputsOf(<< >>) = << >>
  BY <1>3, <1>4, FlattenEmpty
<1> QED
  BY <1>5, <1>6, <1>7

\* An event adds leaves.
LEMMA LeavesOfType ==
    ASSUME NEW e \in Events
    PROVE  Log!LeavesOf(e) \in Seq(Leaves)
<1>1. CASE e.event = "FaucetInitialized"
  BY <1>1, EventFacts DEF Log!LeavesOf, Leaves
<1>2. CASE e.event = "BlockCommitted"
  <2>1. /\ e.notes \in Seq(CommittedNotes) /\ e.deposits \in Seq(Records)
        /\ e.padding \in Seq({ZeroCommitment})
    BY <1>2, EventFacts
  <2>2. Log!OutputsOf(e.notes) \in Seq(Records)
    BY <2>1, OutputsOfFacts
  <2>3. \A s : s \in Seq(Records) \/ s \in Seq({ZeroCommitment}) => s \in Seq(Leaves)
    BY SeqMonotonic DEF Leaves
  <2>4. /\ Log!OutputsOf(e.notes) \in Seq(Leaves) /\ e.deposits \in Seq(Leaves)
        /\ e.padding \in Seq(Leaves)
    BY <2>1, <2>2, <2>3
  <2>5. Log!LeavesOf(e) = Log!OutputsOf(e.notes) \o e.deposits \o e.padding
    BY <1>2 DEF Log!LeavesOf
  <2> QED
    BY <2>4, <2>5, ConcatProperties
<1>3. CASE e.event \notin {"FaucetInitialized", "BlockCommitted"}
  <2>1. Log!LeavesOf(e) = << >>
    BY <1>3 DEF Log!LeavesOf
  <2> QED
    BY <2>1
<1> QED
  BY <1>1, <1>2, <1>3

\* The tree of an empty log, and of a log with one more event.
LEMMA LeavesAppend ==
    /\ Log!Leaves(<< >>) = << >>
    /\ \A l \in Seq(Events) : Log!Leaves(l) \in Seq(Leaves)
    /\ \A l \in Seq(Events), e \in Events :
          Log!Leaves(Append(l, e)) = Log!Leaves(l) \o Log!LeavesOf(e)
<1> DEFINE lists(l) == [k \in DOMAIN l |-> Log!LeavesOf(l[k])]
<1>1. ASSUME NEW l \in Seq(Events) PROVE lists(l) \in Seq(Seq(Leaves))
  <2>1. \A k \in 1 .. Len(l) : Log!LeavesOf(l[k]) \in Seq(Leaves)
    <3> TAKE k \in 1 .. Len(l)
    <3>1. l[k] \in Events
      OBVIOUS
    <3> QED
      BY <3>1, LeavesOfType
  <2> QED
    BY <2>1
<1>2. ASSUME NEW l \in Seq(Events), NEW e \in Events
      PROVE  lists(Append(l, e)) = Append(lists(l), Log!LeavesOf(e))
  <2>1. lists(l) \in Seq(Seq(Leaves)) /\ Log!LeavesOf(e) \in Seq(Leaves) /\ Len(lists(l)) = Len(l)
    BY <1>1, LeavesOfType
  <2>2. /\ Append(l, e) \in Seq(Events) /\ Len(Append(l, e)) = Len(l) + 1
        /\ \A k \in 1 .. Len(l) + 1 : Append(l, e)[k] = IF k = Len(l) + 1 THEN e ELSE l[k]
    OBVIOUS
  <2> DEFINE m == Append(l, e)
             u == lists(m)
             v == Append(lists(l), Log!LeavesOf(e))
  <2>3. u \in Seq(Seq(Leaves)) /\ v \in Seq(Seq(Leaves)) /\ Len(u) = Len(l) + 1 /\ Len(v) = Len(l) + 1
    BY <1>1, <2>1, <2>2
  <2>4. \A k \in 1 .. Len(l) + 1 :
           u[k] = Log!LeavesOf(m[k]) /\ v[k] = IF k = Len(l) + 1 THEN Log!LeavesOf(e) ELSE lists(l)[k]
    BY <2>1, <2>2
  <2>5. \A k \in 1 .. Len(l) : lists(l)[k] = Log!LeavesOf(l[k])
    OBVIOUS
  <2> HIDE DEF lists, m
  <2>6. \A k \in 1 .. Len(l) + 1 : u[k] = v[k]
    <3> TAKE k \in 1 .. Len(l) + 1
    <3>1. CASE k = Len(l) + 1
      BY <2>2, <2>4, <3>1 DEF m
    <3>2. CASE k # Len(l) + 1
      <4>1. k \in 1 .. Len(l) /\ m[k] = l[k]
        BY <2>2, <3>2 DEF m
      <4> QED
        BY <2>4, <2>5, <3>2, <4>1
    <3> QED
      BY <3>1, <3>2
  <2> QED
    BY <2>3, <2>6, SeqEqual DEF m
<1>3. lists(<< >>) = << >>
  OBVIOUS
<1>4. \A l : Log!Leaves(l) = FlattenSeq(lists(l))
  BY SameOperators DEF Log!Leaves
<1> HIDE DEF lists
<1>5. ASSUME NEW l \in Seq(Events) PROVE Log!Leaves(l) \in Seq(Leaves)
  BY <1>1, <1>4, FlattenType
<1>6. ASSUME NEW l \in Seq(Events), NEW e \in Events
      PROVE  Log!Leaves(Append(l, e)) = Log!Leaves(l) \o Log!LeavesOf(e)
  <2>1. lists(l) \in Seq(Seq(Leaves)) /\ Log!LeavesOf(e) \in Seq(Leaves)
    BY <1>1, LeavesOfType
  <2>2. FlattenSeq(Append(lists(l), Log!LeavesOf(e))) = FlattenSeq(lists(l)) \o Log!LeavesOf(e)
    BY <2>1, FlattenAppend
  <2> QED
    BY <1>2, <1>4, <2>2
<1>7. Log!Leaves(<< >>) = << >>
  BY <1>3, <1>4, FlattenEmpty
<1> QED
  BY <1>5, <1>6, <1>7

-----------------------------------------------------------------------------
(* The blocks, the spent leaves and the registered assets.                 *)

\* The blocks of a log with one more event.
LEMMA BlocksAppend ==
    /\ Log!Blocks(<< >>) = {} /\ Cardinality(Log!Blocks(<< >>)) = 0
    /\ \A l \in Seq(Events) : Cardinality(Log!Blocks(l)) \in Nat
    /\ \A l \in Seq(Events), e \in Events :
          /\ Log!Blocks(Append(l, e)) =
                IF Log!IsBlock(e) THEN Log!Blocks(l) \cup {Len(l) + 1} ELSE Log!Blocks(l)
          /\ Cardinality(Log!Blocks(Append(l, e))) =
                Cardinality(Log!Blocks(l)) + IF Log!IsBlock(e) THEN 1 ELSE 0
<1>1. Log!Blocks(<< >>) = {} /\ Cardinality(Log!Blocks(<< >>)) = 0
  BY FS_EmptySet DEF Log!Blocks
<1>2. ASSUME NEW l \in Seq(Events)
      PROVE  /\ Log!Blocks(l) \subseteq 1 .. Len(l) /\ IsFiniteSet(Log!Blocks(l))
             /\ Cardinality(Log!Blocks(l)) \in Nat
  <2>1. Log!Blocks(l) \subseteq 1 .. Len(l) /\ Len(l) \in Nat
    BY DEF Log!Blocks
  <2>2. IsFiniteSet(1 .. Len(l))
    BY <2>1, FS_Interval
  <2> QED
    BY <2>1, <2>2, FS_Subset, FS_CardinalityType
<1>3. ASSUME NEW l \in Seq(Events), NEW e \in Events
      PROVE  Log!Blocks(Append(l, e)) =
                IF Log!IsBlock(e) THEN Log!Blocks(l) \cup {Len(l) + 1} ELSE Log!Blocks(l)
  <2> DEFINE m == Append(l, e)
  <2>1. /\ DOMAIN m = 1 .. Len(l) + 1 /\ DOMAIN l = 1 .. Len(l) /\ Len(l) \in Nat
        /\ m[Len(l) + 1] = e /\ \A k \in 1 .. Len(l) : m[k] = l[k]
    OBVIOUS
  <2> HIDE DEF m
  <2>2. Log!Blocks(m) = IF Log!IsBlock(e) THEN Log!Blocks(l) \cup {Len(l) + 1} ELSE Log!Blocks(l)
    BY <2>1 DEF Log!Blocks
  <2> QED
    BY <2>2 DEF m
<1>4. ASSUME NEW l \in Seq(Events), NEW e \in Events
      PROVE  Cardinality(Log!Blocks(Append(l, e))) =
                Cardinality(Log!Blocks(l)) + IF Log!IsBlock(e) THEN 1 ELSE 0
  <2>1. Len(l) + 1 \notin Log!Blocks(l)
    BY <1>2
  <2>2. Cardinality(Log!Blocks(l) \cup {Len(l) + 1}) = Cardinality(Log!Blocks(l)) + 1
    BY <1>2, <2>1, FS_AddElement
  <2>3. CASE Log!IsBlock(e)
    <3>1. Log!Blocks(Append(l, e)) = Log!Blocks(l) \cup {Len(l) + 1}
      BY <1>3, <2>3
    <3> QED
      BY <2>2, <2>3, <3>1
  <2>4. CASE ~Log!IsBlock(e)
    <3>1. Log!Blocks(Append(l, e)) = Log!Blocks(l) /\ Cardinality(Log!Blocks(l)) \in Nat
      BY <1>2, <1>3, <2>4
    <3> QED
      BY <2>4, <3>1
  <2> QED
    BY <2>3, <2>4
<1> QED
  BY <1>1, <1>2, <1>3, <1>4

\* The leaves spent by a log with one more event.
LEMMA SpentAppend ==
    /\ Log!Spent(<< >>) = {}
    /\ \A l \in Seq(Events), e \in Events :
          Log!Spent(Append(l, e)) =
            IF Log!IsBlock(e) THEN Log!Spent(l) \cup ToSet(Log!SpentBy(e.notes)) ELSE Log!Spent(l)
<1>1. Log!Spent(<< >>) = {}
  BY BlocksAppend DEF Log!Spent
<1>2. ASSUME NEW l \in Seq(Events), NEW e \in Events
      PROVE  Log!Spent(Append(l, e)) =
               IF Log!IsBlock(e) THEN Log!Spent(l) \cup ToSet(Log!SpentBy(e.notes)) ELSE Log!Spent(l)
  <2> DEFINE m == Append(l, e)
  <2>1. /\ Log!Blocks(l) \subseteq 1 .. Len(l)
        /\ m[Len(l) + 1] = e /\ \A k \in 1 .. Len(l) : m[k] = l[k]
    BY DEF Log!Blocks
  <2>2. Log!Blocks(m) = IF Log!IsBlock(e) THEN Log!Blocks(l) \cup {Len(l) + 1} ELSE Log!Blocks(l)
    BY BlocksAppend
  <2>3. \A x : x \in Log!Spent(m) <=>
               \E k \in Log!Blocks(m) : x \in ToSet(Log!SpentBy(m[k].notes))
    BY SameOperators DEF Log!Spent
  <2>4. \A x : x \in Log!Spent(l) <=>
               \E k \in Log!Blocks(l) : x \in ToSet(Log!SpentBy(l[k].notes))
    BY SameOperators DEF Log!Spent
  <2> HIDE DEF m
  <2>5. \A x : (\E k \in Log!Blocks(l) : x \in ToSet(Log!SpentBy(m[k].notes)))
                  <=> x \in Log!Spent(l)
    BY <2>1, <2>4
  <2>6. CASE Log!IsBlock(e)
    <3>1. \A x : x \in Log!Spent(m) <=>
                   x \in Log!Spent(l) \/ x \in ToSet(Log!SpentBy(e.notes))
      BY <2>1, <2>2, <2>3, <2>5, <2>6
    <3> QED
      BY <2>6, <3>1 DEF m
  <2>7. CASE ~Log!IsBlock(e)
    <3>1. \A x : x \in Log!Spent(m) <=> x \in Log!Spent(l)
      BY <2>2, <2>3, <2>5, <2>7
    <3> QED
      BY <2>7, <3>1 DEF m
  <2> QED
    BY <2>6, <2>7
<1> QED
  BY <1>1, <1>2

\* The assets registered by a log with one more event.
LEMMA RegisteredAppend ==
    /\ Log!Registered(<< >>) = {}
    /\ \A l \in Seq(Events), e \in Events :
          Log!Registered(Append(l, e)) =
            IF e.event = "AssetSponsored" THEN Log!Registered(l) \cup {e.asset}
                                          ELSE Log!Registered(l)
<1>0. \A l, a : a \in Log!Registered(l) <=>
                  \E k \in DOMAIN l : l[k].event = "AssetSponsored" /\ l[k].asset = a
  <2> TAKE l, a
  <2>1. \A pair : pair \in Log!Sponsored(l) <=>
           \E k \in DOMAIN l : l[k].event = "AssetSponsored" /\ pair = <<l[k].asset, l[k].erc20>>
    BY Zenon DEF Log!Sponsored
  <2>2. a \in Log!Registered(l) <=> \E pair \in Log!Sponsored(l) : a = pair[1]
    BY Zenon DEF Log!Registered
  <2>3. \A x, y : <<x, y>>[1] = x
    OBVIOUS
  <2>4. ASSUME NEW k \in DOMAIN l, l[k].event = "AssetSponsored", l[k].asset = a
        PROVE  a \in Log!Registered(l)
    <3>1. <<l[k].asset, l[k].erc20>> \in Log!Sponsored(l)
      BY <2>1, <2>4
    <3> QED
      BY <2>2, <2>3, <2>4, <3>1
  <2>5. ASSUME a \in Log!Registered(l)
        PROVE  \E k \in DOMAIN l : l[k].event = "AssetSponsored" /\ l[k].asset = a
    <3>1. PICK pair \in Log!Sponsored(l) : a = pair[1]
      BY <2>2, <2>5
    <3>2. PICK k \in DOMAIN l : l[k].event = "AssetSponsored" /\ pair = <<l[k].asset, l[k].erc20>>
      BY <2>1, <3>1
    <3> QED
      BY <2>3, <3>1, <3>2
  <2> QED
    BY <2>4, <2>5
<1>1. Log!Registered(<< >>) = {}
  BY <1>0
<1>2. ASSUME NEW l \in Seq(Events), NEW e \in Events
      PROVE  Log!Registered(Append(l, e)) =
               IF e.event = "AssetSponsored" THEN Log!Registered(l) \cup {e.asset}
                                             ELSE Log!Registered(l)
  <2> DEFINE m == Append(l, e)
  <2>1. /\ DOMAIN m = 1 .. Len(l) + 1 /\ DOMAIN l = 1 .. Len(l) /\ Len(l) \in Nat
        /\ m[Len(l) + 1] = e /\ \A k \in 1 .. Len(l) : m[k] = l[k]
    OBVIOUS
  <2> HIDE DEF m
  <2>2. \A a : a \in Log!Registered(m) <=>
                 a \in Log!Registered(l) \/ (e.event = "AssetSponsored" /\ e.asset = a)
    BY <1>0, <2>1
  <2> QED
    BY <2>2 DEF m
<1> QED
  BY <1>1, <1>2

\* A log is well formed when each event may follow the ones before it.
LEMMA WellFormedAppend ==
    /\ Log!WellFormed(<< >>)
    /\ \A l \in Seq(Events), e \in Events :
          Log!WellFormed(l) /\ Log!Follows(l, e) => Log!WellFormed(Append(l, e))
<1>1. Log!WellFormed(<< >>)
  BY DEF Log!WellFormed
<1>2. ASSUME NEW l \in Seq(Events), NEW e \in Events, Log!WellFormed(l), Log!Follows(l, e)
      PROVE  Log!WellFormed(Append(l, e))
  <2> DEFINE m == Append(l, e)
  <2>1. /\ DOMAIN m = 1 .. Len(l) + 1 /\ DOMAIN l = 1 .. Len(l) /\ Len(l) \in Nat
        /\ m[Len(l) + 1] = e /\ \A k \in 1 .. Len(l) : m[k] = l[k]
        /\ m \in Seq(Events)
    OBVIOUS
  <2>2. ASSUME NEW k \in 1 .. Len(l) + 1
        PROVE  SubSeq(m, 1, k - 1) = SubSeq(l, 1, k - 1)
    BY <2>1
  <2>3. SubSeq(l, 1, (Len(l) + 1) - 1) = l
    BY <2>1
  <2> HIDE DEF m
  <2>4. ASSUME NEW k \in DOMAIN m PROVE Log!Follows(SubSeq(m, 1, k - 1), m[k])
    <3>1. CASE k = Len(l) + 1
      BY <1>2, <2>1, <2>2, <2>3, <3>1
    <3>2. CASE k # Len(l) + 1
      <4>1. k \in 1 .. Len(l) /\ k \in DOMAIN l
        BY <2>1, <3>2
      <4>2. Log!Follows(SubSeq(l, 1, k - 1), l[k])
        BY <1>2, <4>1 DEF Log!WellFormed
      <4> QED
        BY <2>1, <2>2, <4>1, <4>2
    <3> QED
      BY <3>1, <3>2
  <2> QED
    BY <2>4 DEF Log!WellFormed, m
<1> QED
  BY <1>1, <1>2

-----------------------------------------------------------------------------
(* The events of the contract.                                             *)

\* The contract's events are events, of the kind their names say.
LEMMA EventsAre ==
    /\ \A ro \in Records :
          /\ Log!FaucetEvent(ro) \in Events
          /\ Log!FaucetEvent(ro).event = "FaucetInitialized" /\ Log!FaucetEvent(ro).opening = ro
    /\ \A e \in Erc20Addresses, a \in AssetDefinitions :
          /\ Log!SponsorEvent(e, a) \in Events
          /\ Log!SponsorEvent(e, a).event = "AssetSponsored" /\ Log!SponsorEvent(e, a).asset = a
    /\ \A ro \in Records, from \in Users \cup ReentrantTokens :
          /\ Log!DepositEvent(ro, from) \in Events
          /\ Log!DepositEvent(ro, from).event = "Erc20TokensDeposited"
          /\ Log!DepositEvent(ro, from).opening = ro
    /\ \A height \in Nat, deposits \in Seq(Records), notes \in Seq(CommittedNotes),
          padding \in Seq({ZeroCommitment}) :
             LET e == Log!BlockEvent(height, deposits, notes, padding)
             IN  /\ e \in Events /\ e.event = "BlockCommitted" /\ e.height = height
                 /\ e.deposits = deposits /\ e.notes = notes /\ e.padding = padding
BY DEF Events, Log!FaucetEvent, Log!SponsorEvent, Log!DepositEvent, Log!BlockEvent

(***************************************************************************)
(* A log agrees with a tree, a height, a registry and whether the faucet   *)
(* is set up.                                                              *)
(***************************************************************************)
LogOK(l, leaves, height, registry, done) ==
    /\ Log!WellFormed(l)
    /\ leaves = Log!Leaves(l)
    /\ height = Cardinality(Log!Blocks(l))
    /\ \A a \in AssetDefinitions : registry[a] # ZeroAddress <=> a \in Log!Registered(l)
    /\ \A k \in 1 .. Len(l) : l[k].event = "FaucetInitialized" => done

\* One more event: what agrees with the log after it.
LEMMA LogOKAppend ==
    ASSUME NEW l \in Seq(Events), NEW e \in Events, NEW leaves, NEW height, NEW registry,
           NEW done, LogOK(l, leaves, height, registry, done), Log!Follows(l, e)
    PROVE  /\ Log!WellFormed(Append(l, e))
           /\ leaves \o Log!LeavesOf(e) = Log!Leaves(Append(l, e))
           /\ Cardinality(Log!Blocks(Append(l, e))) = height + IF Log!IsBlock(e) THEN 1 ELSE 0
           /\ \A k \in 1 .. Len(Append(l, e)) : Append(l, e)[k].event = "FaucetInitialized" =>
                 done \/ e.event = "FaucetInitialized"
<1>1. Log!WellFormed(Append(l, e))
  BY WellFormedAppend DEF LogOK
<1>2. leaves \o Log!LeavesOf(e) = Log!Leaves(Append(l, e))
  BY LeavesAppend DEF LogOK
<1>3. Cardinality(Log!Blocks(Append(l, e))) = height + IF Log!IsBlock(e) THEN 1 ELSE 0
  BY BlocksAppend DEF LogOK
<1>4. ASSUME NEW k \in 1 .. Len(Append(l, e)), Append(l, e)[k].event = "FaucetInitialized"
      PROVE  done \/ e.event = "FaucetInitialized"
  <2>1. k \in 1 .. Len(l) + 1 /\ Append(l, e)[k] = IF k = Len(l) + 1 THEN e ELSE l[k]
    BY <1>4
  <2> QED
    BY <1>4, <2>1 DEF LogOK
<1> QED
  BY <1>1, <1>2, <1>3, <1>4

\* The event of the faucet.
LEMMA FaucetLogged ==
    ASSUME NEW l \in Seq(Events), NEW ro \in Records, NEW leaves, NEW height, NEW registry,
           LogOK(l, leaves, height, registry, FALSE)
    PROVE  LET m == Append(l, Log!FaucetEvent(ro))
           IN  /\ LogOK(m, leaves \o <<ro>>, height, registry, TRUE)
               /\ Log!Announced(m) = Log!Announced(l) /\ Log!Spent(m) = Log!Spent(l)
<1> DEFINE e == Log!FaucetEvent(ro)
           m == Append(l, e)
<1>1. e \in Events /\ e.event = "FaucetInitialized" /\ e.opening = ro
  BY EventsAre
<1> HIDE DEF e
<1>2. ~Log!IsBlock(e) /\ e.event # "AssetSponsored" /\ Log!LeavesOf(e) = <<ro>>
  BY <1>1 DEF Log!IsBlock, Log!LeavesOf
<1>3. Log!Follows(l, e)
  BY <1>1 DEF LogOK, Log!Follows
<1>4. /\ Log!WellFormed(m) /\ leaves \o <<ro>> = Log!Leaves(m)
      /\ Cardinality(Log!Blocks(m)) = height + 0
  BY <1>1, <1>2, <1>3, LogOKAppend
<1>5. height = Cardinality(Log!Blocks(l)) /\ height \in Nat
  BY BlocksAppend DEF LogOK
<1>6. Log!Registered(m) = Log!Registered(l)
  BY <1>1, <1>2, RegisteredAppend
<1>7. LogOK(m, leaves \o <<ro>>, height, registry, TRUE)
  BY <1>4, <1>5, <1>6 DEF LogOK
<1>8. Log!Announced(m) = Log!Announced(l) /\ Log!Spent(m) = Log!Spent(l)
  BY <1>1, <1>2, AnnouncedAppend, SpentAppend DEF Log!NextQueue
<1> QED
  BY <1>7, <1>8 DEF e

\* The event of a sponsor.
LEMMA SponsorLogged ==
    ASSUME NEW l \in Seq(Events), NEW t \in Erc20Addresses, NEW a \in AssetDefinitions,
           NEW leaves \in Seq(Leaves), NEW height,
           NEW registry \in [AssetDefinitions -> Erc20Addresses \cup {ZeroAddress}], NEW done,
           registry[a] = ZeroAddress, LogOK(l, leaves, height, registry, done)
    PROVE  LET m == Append(l, Log!SponsorEvent(t, a))
           IN  /\ LogOK(m, leaves, height, [registry EXCEPT ![a] = t], done)
               /\ Log!Announced(m) = Log!Announced(l) /\ Log!Spent(m) = Log!Spent(l)
<1> DEFINE e == Log!SponsorEvent(t, a)
           m == Append(l, e)
           new == [registry EXCEPT ![a] = t]
<1>1. e \in Events /\ e.event = "AssetSponsored" /\ e.asset = a
  BY EventsAre
<1>1a. t # ZeroAddress /\ \A b \in AssetDefinitions : new[b] = IF b = a THEN t ELSE registry[b]
  BY AssetRegistryAssumption
<1> HIDE DEF e, new
<1>2. ~Log!IsBlock(e) /\ Log!LeavesOf(e) = << >>
  BY <1>1 DEF Log!IsBlock, Log!LeavesOf
<1>2a. leaves \o << >> = leaves
  BY ConcatEmptySeq
<1>3. Log!Follows(l, e)
  BY <1>1 DEF LogOK, Log!Follows
<1>4. /\ Log!WellFormed(m) /\ leaves = Log!Leaves(m)
      /\ Cardinality(Log!Blocks(m)) = height + 0
      /\ \A k \in 1 .. Len(m) : m[k].event = "FaucetInitialized" => done
  <2>1. /\ Log!WellFormed(m) /\ leaves \o Log!LeavesOf(e) = Log!Leaves(m)
        /\ Cardinality(Log!Blocks(m)) = height + IF Log!IsBlock(e) THEN 1 ELSE 0
        /\ \A k \in 1 .. Len(m) : m[k].event = "FaucetInitialized" =>
               done \/ e.event = "FaucetInitialized"
    BY <1>1, <1>3, LogOKAppend
  <2> QED
    BY <1>1, <1>2, <1>2a, <2>1
<1>5. height = Cardinality(Log!Blocks(l)) /\ height \in Nat
  BY BlocksAppend DEF LogOK
<1>6. Log!Registered(m) = Log!Registered(l) \cup {a}
  BY <1>1, RegisteredAppend
<1>7. \A b \in AssetDefinitions : new[b] # ZeroAddress <=> b \in Log!Registered(m)
  BY <1>1a, <1>6 DEF LogOK
<1>8. LogOK(m, leaves, height, new, done)
  BY <1>4, <1>5, <1>7 DEF LogOK
<1>9. Log!Announced(m) = Log!Announced(l) /\ Log!Spent(m) = Log!Spent(l)
  BY <1>1, <1>2, AnnouncedAppend, SpentAppend DEF Log!NextQueue
<1> QED
  BY <1>8, <1>9 DEF e, new

\* The event of a deposit.
LEMMA DepositLogged ==
    ASSUME NEW l \in Seq(Events), NEW ro \in Records, NEW from \in Users \cup ReentrantTokens,
           NEW leaves \in Seq(Leaves), NEW height, NEW registry, NEW done,
           registry[ro.assetDef] # ZeroAddress,
           Len(Log!Announced(l)) < MAX_NUM_PENDING_DEPOSIT,
           LogOK(l, leaves, height, registry, done)
    PROVE  LET m == Append(l, Log!DepositEvent(ro, from))
           IN  /\ LogOK(m, leaves, height, registry, done)
               /\ Log!Announced(m) = Append(Log!Announced(l), ro) /\ Log!Spent(m) = Log!Spent(l)
<1> DEFINE e == Log!DepositEvent(ro, from)
           m == Append(l, e)
<1>1. e \in Events /\ e.event = "Erc20TokensDeposited" /\ e.opening = ro
  BY EventsAre
<1>1a. ro.assetDef \in AssetDefinitions
  BY DEF Records
<1> HIDE DEF e
<1>2. ~Log!IsBlock(e) /\ Log!LeavesOf(e) = << >>
  BY <1>1 DEF Log!IsBlock, Log!LeavesOf
<1>2a. leaves \o << >> = leaves
  BY ConcatEmptySeq
<1>3. Log!Follows(l, e)
  BY <1>1, <1>1a DEF LogOK, Log!Follows
<1>4. /\ Log!WellFormed(m) /\ leaves = Log!Leaves(m)
      /\ Cardinality(Log!Blocks(m)) = height + 0
      /\ \A k \in 1 .. Len(m) : m[k].event = "FaucetInitialized" => done
  <2>1. /\ Log!WellFormed(m) /\ leaves \o Log!LeavesOf(e) = Log!Leaves(m)
        /\ Cardinality(Log!Blocks(m)) = height + IF Log!IsBlock(e) THEN 1 ELSE 0
        /\ \A k \in 1 .. Len(m) : m[k].event = "FaucetInitialized" =>
               done \/ e.event = "FaucetInitialized"
    BY <1>1, <1>3, LogOKAppend
  <2> QED
    BY <1>1, <1>2, <1>2a, <2>1
<1>5. height = Cardinality(Log!Blocks(l)) /\ height \in Nat
  BY BlocksAppend DEF LogOK
<1>6. Log!Registered(m) = Log!Registered(l)
  BY <1>1, RegisteredAppend
<1>7. LogOK(m, leaves, height, registry, done)
  BY <1>4, <1>5, <1>6 DEF LogOK
<1>8. Log!Announced(m) = Append(Log!Announced(l), ro) /\ Log!Spent(m) = Log!Spent(l)
  BY <1>1, <1>2, AnnouncedAppend, SpentAppend DEF Log!NextQueue
<1> QED
  BY <1>7, <1>8 DEF e

\* A block with these notes may come next.
MayFollow(l, leaves, notes) ==
    /\ notes # << >> \/ Log!Announced(l) # << >>
    /\ IsInjective(Log!SpentBy(notes))
    /\ ToSet(Log!SpentBy(notes)) \subseteq (1 .. Len(leaves)) \ Log!Spent(l)

\* The event of a block.
LEMMA BlockLogged ==
    ASSUME NEW l \in Seq(Events), NEW notes \in Seq(CommittedNotes),
           NEW padding \in Seq({ZeroCommitment}),
           NEW leaves, NEW height, NEW registry, NEW done,
           LogOK(l, leaves, height, registry, done), MayFollow(l, leaves, notes)
    PROVE  LET m == Append(l, Log!BlockEvent(height + 1, Log!Announced(l), notes, padding))
           IN  /\ LogOK(m, leaves \o (Log!OutputsOf(notes) \o Log!Announced(l) \o padding),
                        height + 1, registry, done)
               /\ Log!Announced(m) = << >>
               /\ Log!Spent(m) = Log!Spent(l) \cup ToSet(Log!SpentBy(notes))
<1> DEFINE queue == Log!Announced(l)
           e == Log!BlockEvent(height + 1, queue, notes, padding)
           m == Append(l, e)
<1>0. height = Cardinality(Log!Blocks(l)) /\ height \in Nat /\ leaves = Log!Leaves(l)
  BY BlocksAppend DEF LogOK
<1>0a. queue \in Seq(Records)
  BY AnnouncedType
<1>1. /\ e \in Events /\ e.event = "BlockCommitted" /\ e.height = height + 1
      /\ e.deposits = queue /\ e.notes = notes /\ e.padding = padding
  BY <1>0, <1>0a, EventsAre
<1> HIDE DEF e
<1>2. Log!IsBlock(e) /\ Log!LeavesOf(e) = Log!OutputsOf(notes) \o queue \o padding
  BY <1>1 DEF Log!IsBlock, Log!LeavesOf
<1>3. Log!BlockFollows(l, e)
  <2>1. e.height = Log!Cardinality(Log!Blocks(l)) + 1
    BY <1>0, <1>1, SameOperators
  <2>2. Log!IsInjective(Log!SpentBy(e.notes))
    BY <1>1, SameOperators DEF MayFollow
  <2>3. Log!ToSet(Log!SpentBy(e.notes)) \subseteq (1 .. Len(Log!Leaves(l))) \ Log!Spent(l)
    BY <1>0, <1>1, SameOperators DEF MayFollow
  <2> QED
    BY <1>1, <2>1, <2>2, <2>3 DEF Log!BlockFollows, MayFollow
<1>3a. Log!Follows(l, e)
  BY <1>2, <1>3 DEF Log!Follows
<1>4. /\ Log!WellFormed(m)
      /\ leaves \o (Log!OutputsOf(notes) \o queue \o padding) = Log!Leaves(m)
      /\ Cardinality(Log!Blocks(m)) = height + 1
      /\ \A k \in 1 .. Len(m) : m[k].event = "FaucetInitialized" => done
  <2>1. /\ Log!WellFormed(m) /\ leaves \o Log!LeavesOf(e) = Log!Leaves(m)
        /\ Cardinality(Log!Blocks(m)) = height + IF Log!IsBlock(e) THEN 1 ELSE 0
        /\ \A k \in 1 .. Len(m) : m[k].event = "FaucetInitialized" =>
               done \/ e.event = "FaucetInitialized"
    BY <1>1, <1>3a, LogOKAppend
  <2> QED
    BY <1>1, <1>2, <2>1
<1>6. Log!Registered(m) = Log!Registered(l)
  BY <1>1, RegisteredAppend
<1>7. LogOK(m, leaves \o (Log!OutputsOf(notes) \o queue \o padding), height + 1, registry, done)
  BY <1>4, <1>6 DEF LogOK
<1>8. /\ Log!Announced(m) = << >>
      /\ Log!Spent(m) = Log!Spent(l) \cup ToSet(Log!SpentBy(notes))
  BY <1>1, <1>2, AnnouncedAppend, SpentAppend DEF Log!NextQueue
<1> QED
  BY <1>7, <1>8 DEF e

-----------------------------------------------------------------------------
(* Prefixes.                                                               *)

\* A list is a prefix of itself.
LEMMA PrefixSelf == ASSUME NEW S, NEW l \in Seq(S) PROVE IsPrefix(l, l)
BY DEF IsPrefix

\* A prefix of a log is a strict one once the log has grown.
LEMMA PrefixFacts ==
    ASSUME NEW S, NEW l \in Seq(S), NEW m \in Seq(S), NEW e \in S, IsPrefix(l, m)
    PROVE  IsPrefix(l, Append(m, e)) /\ IsStrictPrefix(l, Append(m, e))
<1>1. Len(l) <= Len(m) /\ SubSeq(l, 1, Len(l)) = SubSeq(m, 1, Len(l))
  BY DEF IsPrefix
<1>2. Len(Append(m, e)) = Len(m) + 1 /\ Len(l) \in Nat /\ Len(m) \in Nat
  OBVIOUS
<1>3. SubSeq(Append(m, e), 1, Len(l)) = SubSeq(m, 1, Len(l))
  BY <1>1, <1>2
<1>4. Append(m, e) # l
  BY <1>1, <1>2
<1> QED
  BY <1>1, <1>2, <1>3, <1>4 DEF IsPrefix, IsStrictPrefix

\* Two lists without repetitions and without a common element.
LEMMA ConcatInjective ==
    ASSUME NEW D, NEW s \in Seq(D), NEW u \in Seq(D)
    PROVE  /\ ToSet(s \o u) = ToSet(s) \cup ToSet(u)
           /\ IsInjective(s) /\ IsInjective(u) /\ ToSet(s) \cap ToSet(u) = {}
                => IsInjective(s \o u)
<1> DEFINE w == s \o u
<1>1. /\ w \in Seq(D) /\ Len(w) = Len(s) + Len(u) /\ Len(s) \in Nat /\ Len(u) \in Nat
      /\ DOMAIN w = 1 .. Len(s) + Len(u) /\ DOMAIN s = 1 .. Len(s) /\ DOMAIN u = 1 .. Len(u)
      /\ \A i \in 1 .. Len(s) + Len(u) : w[i] = IF i <= Len(s) THEN s[i] ELSE u[i - Len(s)]
  OBVIOUS
<1> HIDE DEF w
<1>2. ToSet(w) = ToSet(s) \cup ToSet(u)
  <2>1. ASSUME NEW i \in 1 .. Len(s) + Len(u) PROVE w[i] \in ToSet(s) \cup ToSet(u)
    <3>1. CASE i <= Len(s)
      BY <1>1, <3>1 DEF ToSet
    <3>2. CASE ~(i <= Len(s))
      <4>1. i - Len(s) \in 1 .. Len(u)
        BY <1>1, <3>2
      <4> QED
        BY <1>1, <3>2, <4>1 DEF ToSet
    <3> QED
      BY <3>1, <3>2
  <2>2. ASSUME NEW i \in 1 .. Len(s) PROVE s[i] \in ToSet(w)
    <3>1. i \in 1 .. Len(s) + Len(u) /\ w[i] = s[i]
      BY <1>1
    <3> QED
      BY <1>1, <3>1 DEF ToSet
  <2>3. ASSUME NEW i \in 1 .. Len(u) PROVE u[i] \in ToSet(w)
    <3>1. i + Len(s) \in 1 .. Len(s) + Len(u) /\ w[i + Len(s)] = u[i]
      <4>1. i + Len(s) \in 1 .. Len(s) + Len(u) /\ ~(i + Len(s) <= Len(s)) /\ (i + Len(s)) - Len(s) = i
        BY <1>1
      <4> QED
        BY <1>1, <4>1
    <3> QED
      BY <1>1, <3>1 DEF ToSet
  <2>4. ToSet(w) \subseteq ToSet(s) \cup ToSet(u)
    BY <1>1, <2>1 DEF ToSet
  <2>5. ToSet(s) \subseteq ToSet(w) /\ ToSet(u) \subseteq ToSet(w)
    BY <1>1, <2>2, <2>3 DEF ToSet
  <2> QED
    BY <2>4, <2>5
<1>3. ASSUME IsInjective(s), IsInjective(u), ToSet(s) \cap ToSet(u) = {}
      PROVE  IsInjective(w)
  <2>1. /\ \A i, j \in 1 .. Len(s) : s[i] = s[j] => i = j
        /\ \A i, j \in 1 .. Len(u) : u[i] = u[j] => i = j
        /\ \A i \in 1 .. Len(s), j \in 1 .. Len(u) : s[i] # u[j]
    <3>1. /\ \A i, j \in DOMAIN s : s[i] = s[j] => i = j
          /\ \A i, j \in DOMAIN u : u[i] = u[j] => i = j
      BY <1>3, Zenon DEF IsInjective
    <3>2. (\A i \in DOMAIN s : s[i] \in ToSet(s)) /\ (\A j \in DOMAIN u : u[j] \in ToSet(u))
      BY Zenon DEF ToSet
    <3> QED
      BY <1>1, <1>3, <3>1, <3>2
  <2>2. ASSUME NEW i \in 1 .. Len(s) + Len(u), NEW j \in 1 .. Len(s) + Len(u), w[i] = w[j]
        PROVE  i = j
    <3>1. CASE i <= Len(s) /\ j <= Len(s)
      BY <1>1, <2>1, <2>2, <3>1
    <3>2. CASE i > Len(s) /\ j > Len(s)
      <4>1. i - Len(s) \in 1 .. Len(u) /\ j - Len(s) \in 1 .. Len(u)
        BY <1>1, <3>2
      <4>2. u[i - Len(s)] = u[j - Len(s)]
        BY <1>1, <2>2, <3>2
      <4>3. i - Len(s) = j - Len(s)
        BY <2>1, <4>1, <4>2
      <4> QED
        BY <1>1, <4>3
    <3>3. CASE i <= Len(s) /\ j > Len(s)
      <4>1. i \in 1 .. Len(s) /\ j - Len(s) \in 1 .. Len(u)
        BY <1>1, <3>3
      <4>2. s[i] = u[j - Len(s)]
        BY <1>1, <2>2, <3>3
      <4> QED
        BY <2>1, <4>1, <4>2
    <3>4. CASE i > Len(s) /\ j <= Len(s)
      <4>1. j \in 1 .. Len(s) /\ i - Len(s) \in 1 .. Len(u)
        BY <1>1, <3>4
      <4>2. s[j] = u[i - Len(s)]
        BY <1>1, <2>2, <3>4
      <4> QED
        BY <2>1, <4>1, <4>2
    <3> QED
      BY <1>1, <3>1, <3>2, <3>3, <3>4
  <2> QED
    BY <1>1, <2>2 DEF IsInjective
<1> QED
  BY <1>2, <1>3 DEF w

-----------------------------------------------------------------------------
(* What a note does to the block in progress.                              *)

\* The next note of a block, whatever its type.
LEMMA NoteLogged ==
    ASSUME TypeOK, Guarded, NextNote
    PROVE  \E note \in CommittedNotes :
             /\ ~Idle /\ ~Idle' /\ top \in BlockFrames /\ top' \in BlockFrames
             /\ top'.notes = Append(top.notes, note)
             /\ top'.commitments = top.commitments \o note.outputs
             /\ top'.numPending = top.numPending /\ top'.saved = top.saved
             /\ IsInjective(note.spent) /\ ToSet(note.spent) \cap nullifiers = {}
             /\ ToSet(note.spent) \subseteq 1 .. Len(tree)
             /\ nullifiers' = nullifiers \cup ToSet(note.spent)
             /\ UNCHANGED <<blockHeight, pendingDeposits, faucetInitialized, tree, log, assets>>
<1>1. PICK root \in rootsMap, inputs \in InputLists, outputs \in OutputLists :
             /\ top.verified
             /\ \/ TransferStep(root, inputs, outputs)
                \/ MintStep(root, inputs, outputs)
                \/ FreezeStep(root, inputs, outputs)
                \/ BurnStep(root, inputs, outputs)
  BY NoteCases
<1>2. outputs \in Seq(Records)
  BY OutputTypes
<1>3. /\ TransferProof(root, inputs, outputs) \in BOOLEAN
      /\ FreezeProof(root, inputs, outputs) \in BOOLEAN
      /\ \A a : MintProof(root, inputs, outputs, a) \in BOOLEAN
  BY Zenon DEF TransferProof, FreezeProof, MintProof
<1>4. PICK type \in NoteTypes, inserted \in Seq(Records), proof \in BOOLEAN,
           callee \in Erc20Addresses \cup {ZeroAddress} :
             NoteSteps(type, root, inputs, inserted, proof, callee)
  <2>0. "TRANSFER" \in NoteTypes /\ "MINT" \in NoteTypes /\ "FREEZE" \in NoteTypes
        /\ "BURN" \in NoteTypes /\ ZeroAddress \in Erc20Addresses \cup {ZeroAddress}
    BY DEF NoteTypes
  <2>1. CASE TransferStep(root, inputs, outputs)
    BY <1>2, <1>3, <2>0, <2>1, Zenon DEF TransferStep
  <2>2. CASE FreezeStep(root, inputs, outputs)
    BY <1>2, <1>3, <2>0, <2>2, Zenon DEF FreezeStep
  <2>3. CASE MintStep(root, inputs, outputs)
    <3>1. PICK a : NoteSteps("MINT", root, inputs, outputs,
                             MintProof(root, inputs, outputs, a), ZeroAddress)
      BY <2>3, Zenon DEF MintStep
    <3> QED
      BY <1>2, <1>3, <2>0, <3>1, Zenon
  <2>4. CASE BurnStep(root, inputs, outputs)
    <3>0. /\ Len(outputs) >= 2
          /\ NoteSteps("BURN", root, inputs, keptOutputs(outputs),
                       TransferProof(root, inputs, outputs), lookup(outputs[2].assetDef))
      BY <2>4, Zenon DEF BurnStep
    <3>1. keptOutputs(outputs) \in Seq(Records)
      BY <3>0, OutputTypes
    <3>2. outputs[2] \in Records
      BY <1>2, <3>0
    <3>3. lookup(outputs[2].assetDef) \in Erc20Addresses \cup {ZeroAddress}
      BY <3>2 DEF lookup, TypeOK, AssetsTypeOK, Records
    <3> QED
      BY <1>3, <2>0, <3>0, <3>1, <3>3, Zenon
  <2> QED
    BY <1>1, <2>1, <2>2, <2>3, <2>4, Zenon
<1> DEFINE note == [type |-> type, spent |-> inputs, outputs |-> inserted]
<1>5. /\ ~Idle /\ ~Idle' /\ top \in BlockFrames /\ top' \in BlockFrames
      /\ note \in CommittedNotes
      /\ top'.notes = Append(top.notes, note)
      /\ top'.commitments = top.commitments \o inserted
      /\ top'.numPending = top.numPending /\ top'.saved = top.saved
  BY <1>4, NoteFrame
<1>6. note.spent = inputs /\ note.outputs = inserted
  OBVIOUS
<1>7. /\ IsInjective(inputs) /\ ToSet(inputs) \cap nullifiers = {}
      /\ nullifiers' = nullifiers \cup ToSet(inputs)
      /\ UNCHANGED <<blockHeight, pendingDeposits, faucetInitialized, tree, log, assets>>
  BY <1>4, Zenon DEF NoteSteps
<1>8. ToSet(inputs) \subseteq 1 .. Len(tree)
  BY InputTypes DEF ToSet
<1> HIDE DEF note
<1> QED
  BY <1>5, <1>6, <1>7, <1>8

-----------------------------------------------------------------------------
(***************************************************************************)
(* The invariant: the log agrees with the tree, the height and the         *)
(* registry at every moment, with the queue and the nullifiers between     *)
(* calls; a deposit in progress is queued and not announced yet, and the   *)
(* notes of a block in progress are in no event yet.  What a failing call  *)
(* restores is a state between calls, whose log is a prefix of the current *)
(* one.                                                                    *)
(***************************************************************************)
LogNow == LogOK(log, tree, blockHeight, assets, faucetInitialized)

LogIdle == pendingDeposits = Log!Announced(log) /\ nullifiers = Log!Spent(log)

LogSaved(s) ==
    /\ LogOK(s.log, s.tree, s.blockHeight, s.assets, faucetInitialized)
    /\ s.pendingDeposits = Log!Announced(s.log) /\ s.nullifiers = Log!Spent(s.log)
    /\ IsPrefix(s.log, log)

LogDeposit(ro) ==
    /\ pendingDeposits = Append(Log!Announced(log), ro)
    /\ Len(Log!Announced(log)) < MAX_NUM_PENDING_DEPOSIT
    /\ nullifiers = Log!Spent(log)
    /\ assets[ro.assetDef] # ZeroAddress

LogBlock(notes, commitments, numPending) ==
    /\ pendingDeposits = Log!Announced(log)
    /\ numPending = Len(pendingDeposits)
    /\ commitments = Log!OutputsOf(notes)
    /\ IsInjective(Log!SpentBy(notes))
    /\ ToSet(Log!SpentBy(notes)) \subseteq (1 .. Len(tree)) \ Log!Spent(log)
    /\ nullifiers = Log!Spent(log) \cup ToSet(Log!SpentBy(notes))

LogInv ==
    /\ LogNow
    /\ Idle => LogIdle
    /\ ~Idle => LogSaved(top.saved)
    /\ ~Idle /\ top.fn = "depositErc20" => LogDeposit(top.opening)
    /\ ~Idle /\ top.fn = "submitCapeBlock" =>
          LogBlock(top.notes, top.commitments, top.numPending)

\* The empty log.
LEMMA LogInit == Init => LogInv
<1> SUFFICES ASSUME Init PROVE LogInv
  OBVIOUS
<1>1. /\ nullifiers = {} /\ tree = << >> /\ pendingDeposits = << >> /\ frames = << >>
      /\ log = << >> /\ blockHeight = 0
      /\ assets = [a \in AssetDefinitions |-> ZeroAddress]
  BY Zenon DEF Init, AssetsInit
<1>2. LogNow
  BY <1>1, WellFormedAppend, LeavesAppend, BlocksAppend, RegisteredAppend DEF LogNow, LogOK
<1>3. LogIdle
  BY <1>1, AnnouncedType, SpentAppend DEF LogIdle
<1>4. Idle
  BY <1>1 DEF Idle
<1> QED
  BY <1>2, <1>3, <1>4 DEF LogInv

\* The types that the steps need.
LEMMA LogTypes ==
    ASSUME TypeOK
    PROVE  /\ log \in Seq(Events) /\ tree \in Seq(Leaves) /\ pendingDeposits \in Seq(Records)
           /\ assets \in [AssetDefinitions -> Erc20Addresses \cup {ZeroAddress}]
           /\ faucetInitialized \in BOOLEAN
BY ListTypes DEF TypeOK

\* The faucet is set up between calls.
LEMMA LogFaucet ==
    ASSUME TypeOK, Guarded, LogInv, NEW u \in Users, faucetSetupForTestnet(u)
    PROVE  LogInv' /\ Idle /\ Idle' /\ IsStrictPrefix(log, log')
<1>1. PICK ro \in Records :
             /\ Idle /\ Idle' /\ ~faucetInitialized /\ faucetInitialized' = TRUE
             /\ tree' = tree \o <<ro>>
             /\ log' = Append(log, Log!FaucetEvent(ro))
             /\ UNCHANGED <<nullifiers, blockHeight, pendingDeposits, assets>>
  BY FaucetStep
<1>2. LogOK(log, tree, blockHeight, assets, FALSE) /\ LogIdle
  BY <1>1, LogTypes DEF LogInv, LogNow
<1>3. /\ LogOK(log', tree', blockHeight, assets, TRUE)
      /\ Log!Announced(log') = Log!Announced(log) /\ Log!Spent(log') = Log!Spent(log)
  BY <1>1, <1>2, LogTypes, FaucetLogged
<1>4. LogNow' /\ LogIdle'
  BY <1>1, <1>2, <1>3 DEF LogNow, LogIdle
<1>5. Log!FaucetEvent(ro) \in Events
  BY EventsAre
<1>6. IsStrictPrefix(log, log')
  BY <1>1, <1>5, LogTypes, PrefixSelf, PrefixFacts
<1> QED
  BY <1>1, <1>4, <1>6 DEF LogInv

\* An asset is sponsored between calls or in the middle of one.
LEMMA LogSponsor ==
    ASSUME TypeOK, Guarded, LogInv, Sponsor
    PROVE  LogInv' /\ UNCHANGED frames /\ IsStrictPrefix(log, log')
<1>1. PICK e \in Erc20Addresses, a \in AssetDefinitions :
             /\ assets[a] = ZeroAddress
             /\ assets' = [assets EXCEPT ![a] = e]
             /\ log' = Append(log, Log!SponsorEvent(e, a))
             /\ top' = top /\ (Idle' <=> Idle)
             /\ UNCHANGED <<nullifiers, blockHeight, pendingDeposits, faucetInitialized,
                            tree, frames>>
  BY SponsorStep
<1>2. LogOK(log, tree, blockHeight, assets, faucetInitialized)
  BY DEF LogInv, LogNow
<1>3. /\ LogOK(log', tree, blockHeight, assets', faucetInitialized)
      /\ Log!Announced(log') = Log!Announced(log) /\ Log!Spent(log') = Log!Spent(log)
  BY <1>1, <1>2, LogTypes, SponsorLogged
<1>4. Log!SponsorEvent(e, a) \in Events
  BY EventsAre
<1>5. LogNow' /\ (Idle' => LogIdle')
  BY <1>1, <1>3 DEF LogNow, LogIdle, LogInv
<1>6. IsStrictPrefix(log, log')
  BY <1>1, <1>4, LogTypes, PrefixSelf, PrefixFacts
<1>7. ASSUME ~Idle PROVE LogSaved(top.saved)'
  <2>1. LogSaved(top.saved) /\ top.saved.log \in Seq(Events)
    BY <1>7, FrameTypes DEF LogInv, Snapshots
  <2>2. IsPrefix(top.saved.log, log')
    BY <1>1, <1>4, <2>1, LogTypes, PrefixFacts DEF LogSaved
  <2> QED
    BY <1>1, <2>1, <2>2 DEF LogSaved
<1>8. ASSUME ~Idle, top.fn = "depositErc20" PROVE LogDeposit(top.opening)'
  <2>1. LogDeposit(top.opening) /\ top \in DepositFrames
    BY <1>8, FrameTypes DEF LogInv
  <2>2. top.opening.assetDef \in AssetDefinitions
    BY <2>1 DEF DepositFrames, Records
  <2>3. assets'[top.opening.assetDef] # ZeroAddress
    BY <1>1, <2>1, <2>2, LogTypes DEF LogDeposit
  <2> QED
    BY <1>1, <1>3, <2>1, <2>3 DEF LogDeposit
<1>9. ASSUME ~Idle, top.fn = "submitCapeBlock"
      PROVE  LogBlock(top.notes, top.commitments, top.numPending)'
  BY <1>1, <1>3, <1>9 DEF LogBlock, LogInv
<1> QED
  BY <1>1, <1>5, <1>6, <1>7, <1>8, <1>9 DEF LogInv

\* A deposit starts.
LEMMA LogDepositStarts ==
    ASSUME TypeOK, Guarded, LogInv, Deposit
    PROVE  LogInv' /\ Idle /\ ~Idle' /\ top'.saved.log = log
<1>1. PICK ro \in Records, e \in Erc20Addresses :
             /\ Idle /\ ~Idle'
             /\ assets[ro.assetDef] = e /\ e # ZeroAddress
             /\ Len(pendingDeposits) < MAX_NUM_PENDING_DEPOSIT
             /\ pendingDeposits' = Append(pendingDeposits, ro)
             /\ top'.fn = "depositErc20" /\ top'.opening = ro
             /\ top'.saved = Snapshot
             /\ UNCHANGED <<nullifiers, blockHeight, faucetInitialized, tree, log, assets>>
  BY DepositStep
<1>2. LogNow /\ LogIdle
  BY <1>1 DEF LogInv
<1>3. LogNow' /\ LogDeposit(top.opening)'
  BY <1>1, <1>2 DEF LogNow, LogIdle, LogDeposit
<1>4. LogSaved(top.saved)'
  BY <1>1, <1>2, SnapshotFields, LogTypes, PrefixSelf DEF LogNow, LogIdle, LogSaved
<1> QED
  BY <1>1, <1>3, <1>4, SnapshotFields DEF LogInv

\* A deposit is announced when it ends.
LEMMA LogDepositReturns ==
    ASSUME TypeOK, Guarded, LogInv, depositErc20Returns
    PROVE  LogInv' /\ ~Idle /\ Idle' /\ IsStrictPrefix(top.saved.log, log')
<1>1. /\ ~Idle /\ top.fn = "depositErc20" /\ top \in DepositFrames /\ Idle'
      /\ log' = Append(log, Log!DepositEvent(top.opening, top.sender))
      /\ UNCHANGED <<nullifiers, blockHeight, pendingDeposits, faucetInitialized, tree, assets>>
  BY DepositReturnsStep
<1>2. /\ top.opening \in Records /\ top.sender \in Users \cup ReentrantTokens
      /\ top.saved \in Snapshots
  BY <1>1 DEF DepositFrames
<1>3. LogNow /\ LogDeposit(top.opening) /\ LogSaved(top.saved)
  BY <1>1 DEF LogInv
<1>4. /\ LogOK(log', tree, blockHeight, assets, faucetInitialized)
      /\ Log!Announced(log') = Append(Log!Announced(log), top.opening)
      /\ Log!Spent(log') = Log!Spent(log)
  BY <1>1, <1>2, <1>3, LogTypes, DepositLogged DEF LogNow, LogDeposit
<1>5. LogNow' /\ LogIdle'
  BY <1>1, <1>3, <1>4 DEF LogNow, LogIdle, LogDeposit
<1>6. Log!DepositEvent(top.opening, top.sender) \in Events /\ top.saved.log \in Seq(Events)
  BY <1>2, EventsAre DEF Snapshots
<1>7. IsStrictPrefix(top.saved.log, log')
  BY <1>1, <1>3, <1>6, LogTypes, PrefixFacts DEF LogSaved
<1> QED
  BY <1>1, <1>5, <1>7 DEF LogInv

\* A block starts.
LEMMA LogSubmit ==
    ASSUME TypeOK, Guarded, LogInv, SubmitBlock
    PROVE  LogInv' /\ Idle /\ ~Idle' /\ top'.saved.log = log
<1>1. /\ Idle /\ ~Idle' /\ top'.fn = "submitCapeBlock"
      /\ top'.notes = << >> /\ top'.commitments = << >>
      /\ top'.numPending = Len(pendingDeposits) /\ top'.saved = Snapshot
      /\ UNCHANGED <<nullifiers, blockHeight, pendingDeposits, faucetInitialized, tree, log,
                     assets>>
  BY SubmitStep
<1>2. LogNow /\ LogIdle
  BY <1>1 DEF LogInv
<1>3. /\ Log!SpentBy(<< >>) = << >> /\ Log!OutputsOf(<< >>) = << >>
      /\ ToSet(<< >>) = {} /\ IsInjective(<< >>)
  BY SpentByFacts, OutputsOfFacts DEF ToSet, IsInjective
<1>4. LogNow' /\ LogBlock(top.notes, top.commitments, top.numPending)'
  BY <1>1, <1>2, <1>3 DEF LogNow, LogIdle, LogBlock
<1>5. LogSaved(top.saved)'
  BY <1>1, <1>2, SnapshotFields, LogTypes, PrefixSelf DEF LogNow, LogIdle, LogSaved
<1> QED
  BY <1>1, <1>4, <1>5, SnapshotFields DEF LogInv

\* A failing call puts back the log it started with.
LEMMA LogRevert ==
    ASSUME TypeOK, Guarded, LogInv, revert
    PROVE  LogInv' /\ ~Idle /\ Idle' /\ log' = top.saved.log
BY RevertStep DEF LogInv, LogNow, LogIdle, LogSaved

\* A note joins the block in progress.
LEMMA LogNote ==
    ASSUME TypeOK, Guarded, LogInv, NextNote
    PROVE  LogInv' /\ ~Idle /\ ~Idle' /\ top'.saved = top.saved
<1>1. PICK note \in CommittedNotes :
             /\ ~Idle /\ ~Idle' /\ top \in BlockFrames /\ top' \in BlockFrames
             /\ top'.notes = Append(top.notes, note)
             /\ top'.commitments = top.commitments \o note.outputs
             /\ top'.numPending = top.numPending /\ top'.saved = top.saved
             /\ IsInjective(note.spent) /\ ToSet(note.spent) \cap nullifiers = {}
             /\ ToSet(note.spent) \subseteq 1 .. Len(tree)
             /\ nullifiers' = nullifiers \cup ToSet(note.spent)
             /\ UNCHANGED <<blockHeight, pendingDeposits, faucetInitialized, tree, log, assets>>
  BY NoteLogged
<1>2. /\ top.fn = "submitCapeBlock" /\ top'.fn = "submitCapeBlock"
      /\ top.notes \in Seq(CommittedNotes)
  BY <1>1 DEF BlockFrames
<1>3. /\ LogNow /\ LogSaved(top.saved)
      /\ LogBlock(top.notes, top.commitments, top.numPending)
  BY <1>1, <1>2 DEF LogInv
<1> DEFINE old == Log!SpentBy(top.notes)
           new == Log!SpentBy(top'.notes)
<1>4. /\ new = old \o note.spent /\ Log!OutputsOf(top'.notes) = Log!OutputsOf(top.notes) \o note.outputs
      /\ old \in Seq(Nat) /\ note.spent \in Seq(Nat)
  BY <1>1, <1>2, SpentByFacts, OutputsOfFacts DEF CommittedNotes
<1>5. /\ IsInjective(old) /\ ToSet(old) \subseteq (1 .. Len(tree)) \ Log!Spent(log)
      /\ nullifiers = Log!Spent(log) \cup ToSet(old)
      /\ pendingDeposits = Log!Announced(log) /\ top.numPending = Len(pendingDeposits)
      /\ top.commitments = Log!OutputsOf(top.notes)
  BY <1>3 DEF LogBlock
<1> HIDE DEF old, new
<1>6. ToSet(new) = ToSet(old) \cup ToSet(note.spent) /\ IsInjective(new)
  BY <1>1, <1>4, <1>5, ConcatInjective
<1>7. ToSet(new) \subseteq (1 .. Len(tree)) \ Log!Spent(log)
  BY <1>1, <1>5, <1>6
<1>8. nullifiers' = Log!Spent(log) \cup ToSet(new)
  BY <1>1, <1>5, <1>6
<1>9. LogBlock(top.notes, top.commitments, top.numPending)'
  BY <1>1, <1>4, <1>5, <1>6, <1>7, <1>8 DEF LogBlock, new
<1>10. LogNow' /\ LogSaved(top.saved)'
  BY <1>1, <1>3 DEF LogNow, LogSaved
<1> QED
  BY <1>1, <1>2, <1>9, <1>10 DEF LogInv

\* A block is announced when it ends.
LEMMA LogBlockReturns ==
    ASSUME TypeOK, Guarded, LogInv, submitCapeBlockReturns
    PROVE  LogInv' /\ ~Idle /\ Idle' /\ IsStrictPrefix(top.saved.log, log')
<1>1. PICK length \in Nat, padding \in Seq({ZeroCommitment}) :
             /\ top \in BlockFrames
             /\ newCommitments \in Seq(Records)
             /\ BlockReturns(newCommitments, length, padding)
  BY BlockReturnsStep
<1> DEFINE items == newCommitments
           e == Log!BlockEvent(blockHeight + 1, pendingDeposits, top.notes, padding)
<1>2. /\ ~Idle /\ top.fn = "submitCapeBlock" /\ frames' = << >>
      /\ ~emptyBlock
      /\ tree' = tree \o items \o padding
      /\ blockHeight' = blockHeight + 1
      /\ log' = Append(log, e)
      /\ pendingDeposits' = << >>
      /\ UNCHANGED <<nullifiers, faucetInitialized, assets>>
  BY <1>1, Zenon DEF BlockReturns
<1>3. /\ LogNow /\ LogSaved(top.saved)
      /\ LogBlock(top.notes, top.commitments, top.numPending)
  BY <1>2 DEF LogInv
<1>4. /\ pendingDeposits = Log!Announced(log) /\ top.numPending = Len(pendingDeposits)
      /\ top.commitments = Log!OutputsOf(top.notes)
      /\ IsInjective(Log!SpentBy(top.notes))
      /\ ToSet(Log!SpentBy(top.notes)) \subseteq (1 .. Len(tree)) \ Log!Spent(log)
      /\ nullifiers = Log!Spent(log) \cup ToSet(Log!SpentBy(top.notes))
  BY <1>3 DEF LogBlock
<1>5. top.notes \in Seq(CommittedNotes) /\ top.saved \in Snapshots
  BY <1>1 DEF BlockFrames
<1>6. top.notes # << >> \/ Log!Announced(log) # << >>
  BY <1>2, <1>4, LogTypes DEF emptyBlock
<1>7. tree' = tree \o (Log!OutputsOf(top.notes) \o Log!Announced(log) \o padding)
  <2>1. items = Log!OutputsOf(top.notes) \o Log!Announced(log)
    BY <1>4 DEF newCommitments
  <2>2. tree \in Seq(Leaves) /\ items \in Seq(Leaves) /\ padding \in Seq(Leaves)
    BY <1>1, LogTypes, ListTypes, SeqMonotonic DEF Leaves
  <2> HIDE DEF items
  <2>3. (tree \o items) \o padding = tree \o (items \o padding)
    BY <2>2, ConcatAssociative
  <2> QED
    BY <1>2, <2>1, <2>3
<1>8. /\ LogOK(log', tree', blockHeight + 1, assets, faucetInitialized)
      /\ Log!Announced(log') = << >>
      /\ Log!Spent(log') = Log!Spent(log) \cup ToSet(Log!SpentBy(top.notes))
  <2> DEFINE m == Append(log, Log!BlockEvent(blockHeight + 1, Log!Announced(log), top.notes, padding))
  <2>1. log \in Seq(Events) /\ LogOK(log, tree, blockHeight, assets, faucetInitialized)
    BY <1>3, LogTypes DEF LogNow
  <2>1a. MayFollow(log, tree, top.notes)
    BY <1>4, <1>6 DEF MayFollow
  <2>2. /\ LogOK(m, tree \o (Log!OutputsOf(top.notes) \o Log!Announced(log) \o padding),
                 blockHeight + 1, assets, faucetInitialized)
        /\ Log!Announced(m) = << >>
        /\ Log!Spent(m) = Log!Spent(log) \cup ToSet(Log!SpentBy(top.notes))
    BY <1>1, <1>5, <2>1, <2>1a, BlockLogged
  <2>3. log' = m
    BY <1>2, <1>4
  <2> HIDE DEF m
  <2> QED
    BY <1>7, <2>2, <2>3
<1>9. LogNow' /\ LogIdle'
  BY <1>2, <1>4, <1>8 DEF LogNow, LogIdle
<1>10. e \in Events /\ top.saved.log \in Seq(Events)
  <2>1. blockHeight + 1 \in Nat
    BY DEF TypeOK
  <2> QED
    BY <1>5, <2>1, LogTypes, EventsAre DEF Snapshots
<1>11. IsStrictPrefix(top.saved.log, log')
  BY <1>2, <1>3, <1>10, LogTypes, PrefixFacts DEF LogSaved
<1>12. Idle'
  BY <1>2 DEF Idle
<1> QED
  BY <1>2, <1>9, <1>11, <1>12 DEF LogInv

\* The events of completed transactions.
LEMMA Committed == Guarded => CommittedLog = IF Idle THEN log ELSE top.saved.log
<1> SUFFICES ASSUME Guarded, ~Idle PROVE Last(frames) = top
  BY DEF CommittedLog
<1>1. frames = <<top>>
  BY DEF Guarded, Idle
<1>2. \A x : Last(<<x>>) = x
  BY DEF Last
<1> QED
  BY <1>1, <1>2, Zenon

\* Every step keeps the invariant and is a step of CapeLog, or none.
LEMMA LogNext ==
    ASSUME TypeOK, Guarded, LogInv, [Next]_vars
    PROVE  LogInv' /\ [Log!Emit]_CommittedLog
<1>0. Guarded'
  BY NextTypes
<1>1. /\ CommittedLog = IF Idle THEN log ELSE top.saved.log
      /\ CommittedLog' = IF Idle' THEN log' ELSE top'.saved.log
  <2>1. (Guarded => CommittedLog = IF Idle THEN log ELSE top.saved.log)'
    BY Committed, PTL
  <2> QED
    BY <1>0, <2>1, Committed
<1>2. ASSUME LogInv', Idle', IsStrictPrefix(CommittedLog, log')
      PROVE  Log!Emit
  <2>1. Log!WellFormed(log')
    BY <1>2 DEF LogInv, LogNow, LogOK
  <2>2. CommittedLog' = log'
    BY <1>1, <1>2
  <2> HIDE DEF CommittedLog
  <2> QED
    BY <1>2, <2>1, <2>2, SameOperators DEF Log!Emit
<1>3. CASE \E s \in Users : faucetSetupForTestnet(s)
  BY <1>1, <1>2, <1>3, LogFaucet
<1>4. CASE Sponsor
  <2>1. LogInv' /\ UNCHANGED frames /\ IsStrictPrefix(log, log')
    BY <1>4, LogSponsor
  <2>2. (Idle' <=> Idle) /\ top' = top
    BY <2>1 DEF Idle, top
  <2> QED
    BY <1>1, <1>2, <2>1, <2>2
<1>5. CASE Deposit
  BY <1>1, <1>5, LogDepositStarts
<1>6. CASE depositErc20Returns
  BY <1>1, <1>2, <1>6, LogDepositReturns
<1>7. CASE SubmitBlock
  BY <1>1, <1>7, LogSubmit
<1>8. CASE NextNote
  BY <1>1, <1>8, LogNote
<1>9. CASE submitCapeBlockReturns
  BY <1>1, <1>2, <1>9, LogBlockReturns
<1>10. CASE revert
  BY <1>1, <1>10, LogRevert
<1>11. CASE UNCHANGED vars
  <2>1. /\ UNCHANGED <<nullifiers, blockHeight, pendingDeposits, tree, log, assets,
                       faucetInitialized, frames>>
        /\ (Idle' <=> Idle) /\ top' = top
    BY <1>11 DEF vars, contractVars, Idle, top
  <2>2. LogInv'
    BY <2>1 DEF LogInv, LogNow, LogIdle, LogSaved, LogDeposit, LogBlock
  <2> QED
    BY <1>1, <2>1, <2>2
<1> QED
  BY <1>3, <1>4, <1>5, <1>6, <1>7, <1>8, <1>9, <1>10, <1>11 DEF Next

(***************************************************************************)
(* Between calls the tree, the queue and the nullifiers are what a reader  *)
(* of the events computes (CAPE.sol; eqs eth_polling.rs rebuilds them this *)
(* way).                                                                   *)
(***************************************************************************)
THEOREM CapeEventsReplay == Spec => []EventsReplayState
<1>1. Init => LogInv
  BY LogInit
<1>2. TypeOK /\ Guarded /\ LogInv /\ [Next]_vars => LogInv'
  BY LogNext
<1>3. LogInv => EventsReplayState
  BY DEF LogInv, LogNow, LogIdle, LogOK, EventsReplayState
<1> QED
  BY <1>1, <1>2, <1>3, CapeTypesCorrect, PTL DEF Spec

(***************************************************************************)
(* The contract implements CapeLog: every completed transaction appends    *)
(* events, and each of them may follow the ones before it (CAPE.sol        *)
(* faucetSetupForTestnet, sponsorCapeAsset, depositErc20, submitCapeBlock, *)
(* with reentrant calls and calls that fail).                              *)
(***************************************************************************)
THEOREM CapeImplementsLog == Spec => ImplementsCapeLog
<1>1. Init => LogInv /\ CommittedLog = << >>
  <2>1. Init => Idle /\ log = << >>
    BY DEF Init, Idle
  <2> QED
    BY <2>1, LogInit DEF CommittedLog
<1>2. TypeOK /\ Guarded /\ LogInv /\ [Next]_vars => LogInv' /\ [Log!Emit]_CommittedLog
  BY LogNext
<1> QED
  BY <1>1, <1>2, CapeTypesCorrect, PTL DEF Spec, ImplementsCapeLog, Log!Spec

-----------------------------------------------------------------------------
(* No double spending.                                                     *)

\* The notes of a block spend leaves that its event names, each one once.
LEMMA SpentApart ==
    ASSUME NEW notes \in Seq(CommittedNotes)
    PROVE  /\ \A n \in 1 .. Len(notes) : \A i \in 1 .. Len(notes[n].spent) :
                 notes[n].spent[i] \in ToSet(Log!SpentBy(notes))
           /\ IsInjective(Log!SpentBy(notes)) =>
                \A n, m \in 1 .. Len(notes) :
                   \A i \in 1 .. Len(notes[n].spent), j \in 1 .. Len(notes[m].spent) :
                      notes[n].spent[i] = notes[m].spent[j] => n = m /\ i = j
<1> DEFINE lists == [n \in DOMAIN notes |-> notes[n].spent]
           flat == FlattenSeq(lists)
<1>0. \A note \in CommittedNotes : note.spent \in Seq(Nat)
  BY DEF CommittedNotes
<1>1. lists \in Seq(Seq(Nat)) /\ Len(lists) = Len(notes)
  BY <1>0
<1>2. \A n \in 1 .. Len(notes) : lists[n] = notes[n].spent
  OBVIOUS
<1>3. Log!SpentBy(notes) = flat
  BY SameOperators DEF Log!SpentBy
<1> HIDE DEF lists
<1>4. Gathered(lists, flat) /\ (Distinct(flat) => Apart(lists)) /\ flat \in Seq(Nat)
  BY <1>1, FlattenApart, FlattenType
<1> HIDE DEF flat
<1>5. DOMAIN flat = 1 .. Len(flat)
  BY <1>4
<1>6. ASSUME NEW n \in 1 .. Len(notes), NEW i \in 1 .. Len(notes[n].spent)
      PROVE  notes[n].spent[i] \in ToSet(flat)
  <2>1. PICK p \in 1 .. Len(flat) : flat[p] = lists[n][i]
    BY <1>1, <1>2, <1>4, <1>6 DEF Gathered
  <2> QED
    BY <1>2, <1>5, <2>1 DEF ToSet
<1>7. ASSUME IsInjective(flat) PROVE Apart(lists)
  <2>1. Distinct(flat)
    BY <1>5, <1>7, Zenon DEF IsInjective, Distinct
  <2> QED
    BY <1>4, <2>1
<1>8. ASSUME IsInjective(flat), NEW n \in 1 .. Len(notes), NEW m \in 1 .. Len(notes),
             NEW i \in 1 .. Len(notes[n].spent), NEW j \in 1 .. Len(notes[m].spent),
             notes[n].spent[i] = notes[m].spent[j]
      PROVE  n = m /\ i = j
  <2>1. /\ n \in 1 .. Len(lists) /\ m \in 1 .. Len(lists)
        /\ i \in 1 .. Len(lists[n]) /\ j \in 1 .. Len(lists[m])
        /\ lists[n][i] = lists[m][j]
    BY <1>1, <1>2, <1>8
  <2>2. Apart(lists)
    BY <1>7, <1>8
  <2> QED
    BY <2>1, <2>2, Zenon DEF Apart
<1> QED
  BY <1>3, <1>6, <1>8

\* What the blocks of a prefix spend is spent by the prefix.
LEMMA SpentByPrefix ==
    ASSUME NEW l \in Seq(Events), NEW k \in 1 .. Len(l), NEW m \in 1 .. Len(l), k < m,
           Log!IsBlock(l[k])
    PROVE  ToSet(Log!SpentBy(l[k].notes)) \subseteq Log!Spent(SubSeq(l, 1, m - 1))
<1> DEFINE p == SubSeq(l, 1, m - 1)
<1>1. DOMAIN p = 1 .. m - 1 /\ p[k] = l[k] /\ k \in 1 .. m - 1
  OBVIOUS
<1> HIDE DEF p
<1>2. k \in Log!Blocks(p)
  BY <1>1 DEF Log!Blocks
<1>3. Log!ToSet(Log!SpentBy(p[k].notes)) \subseteq Log!Spent(p)
  BY <1>2 DEF Log!Spent
<1> QED
  BY <1>1, <1>3, SameOperators DEF p

\* In a well-formed log nothing is spent twice.
LEMMA SpentOnce ==
    ASSUME NEW l \in Seq(Events), Log!WellFormed(l),
           NEW k \in 1 .. Len(l), NEW m \in 1 .. Len(l), Log!IsBlock(l[k]), Log!IsBlock(l[m]),
           NEW x \in ToSet(Log!SpentBy(l[k].notes)), x \in ToSet(Log!SpentBy(l[m].notes))
    PROVE  k = m /\ IsInjective(Log!SpentBy(l[k].notes))
<1>1. ASSUME NEW i \in 1 .. Len(l), Log!IsBlock(l[i])
      PROVE  /\ IsInjective(Log!SpentBy(l[i].notes))
             /\ ToSet(Log!SpentBy(l[i].notes)) \cap Log!Spent(SubSeq(l, 1, i - 1)) = {}
  <2>1. Log!Follows(SubSeq(l, 1, i - 1), l[i])
    BY DEF Log!WellFormed
  <2>2. Log!BlockFollows(SubSeq(l, 1, i - 1), l[i])
    BY <1>1, <2>1 DEF Log!Follows, Log!IsBlock
  <2> QED
    BY <2>2, SameOperators DEF Log!BlockFollows
<1>2. ~(k < m)
  BY <1>1, SpentByPrefix
<1>3. ~(m < k)
  BY <1>1, SpentByPrefix
<1> QED
  BY <1>1, <1>2, <1>3

\* The invariant rules out double spending.
LEMMA SpendsOnce == TypeOK /\ LogInv => NoDoubleSpend
<1> SUFFICES ASSUME TypeOK, LogInv,
                    NEW k \in DOMAIN log, NEW l \in DOMAIN log,
                    Log!IsBlock(log[k]), Log!IsBlock(log[l]),
                    NEW n \in DOMAIN log[k].notes, NEW m \in DOMAIN log[l].notes,
                    NEW i \in DOMAIN log[k].notes[n].spent,
                    NEW j \in DOMAIN log[l].notes[m].spent,
                    log[k].notes[n].spent[i] = log[l].notes[m].spent[j]
             PROVE  <<k, n, i>> = <<l, m, j>>
  BY DEF NoDoubleSpend
<1>1. log \in Seq(Events) /\ Log!WellFormed(log)
  BY LogTypes DEF LogInv, LogNow, LogOK
<1>2. k \in 1 .. Len(log) /\ l \in 1 .. Len(log) /\ log[k] \in Events /\ log[l] \in Events
  BY <1>1
<1>3. log[k].notes \in Seq(CommittedNotes) /\ log[l].notes \in Seq(CommittedNotes)
  BY <1>2, EventFacts DEF Log!IsBlock
<1>4. n \in 1 .. Len(log[k].notes) /\ m \in 1 .. Len(log[l].notes)
  BY <1>3
<1>5. log[k].notes[n] \in CommittedNotes /\ log[l].notes[m] \in CommittedNotes
  BY <1>3, <1>4
<1>6. i \in 1 .. Len(log[k].notes[n].spent) /\ j \in 1 .. Len(log[l].notes[m].spent)
  <2>1. log[k].notes[n].spent \in Seq(Nat) /\ log[l].notes[m].spent \in Seq(Nat)
    BY ONLY <1>5 DEF CommittedNotes
  <2>2. \A q \in Seq(Nat) : DOMAIN q = 1 .. Len(q)
    OBVIOUS
  <2> QED
    BY ONLY <2>1, <2>2, i \in DOMAIN log[k].notes[n].spent, j \in DOMAIN log[l].notes[m].spent
<1>7. /\ log[k].notes[n].spent[i] \in ToSet(Log!SpentBy(log[k].notes))
      /\ log[l].notes[m].spent[j] \in ToSet(Log!SpentBy(log[l].notes))
  BY <1>3, <1>4, <1>6, SpentApart
<1>8. k = l /\ IsInjective(Log!SpentBy(log[k].notes))
  <2> DEFINE x == log[k].notes[n].spent[i]
  <2>1. x \in ToSet(Log!SpentBy(log[k].notes)) /\ x \in ToSet(Log!SpentBy(log[l].notes))
    BY <1>7
  <2> HIDE DEF x
  <2> QED
    BY <1>1, <1>2, <2>1, SpentOnce
<1>9. n = m /\ i = j
  BY <1>3, <1>4, <1>6, <1>8, SpentApart
<1> QED
  BY <1>8, <1>9

(***************************************************************************)
(* No record is spent twice, by the notes of one block or of several, with *)
(* failing and reentrant calls in between (CAPE.sol _publish).             *)
(***************************************************************************)
THEOREM CapeNeverSpendsTwice == Spec => []NoDoubleSpend
<1>1. Init => LogInv
  BY LogInit
<1>2. TypeOK /\ Guarded /\ LogInv /\ [Next]_vars => LogInv'
  BY LogNext
<1> QED
  BY <1>1, <1>2, SpendsOnce, CapeTypesCorrect, PTL DEF Spec
=============================================================================
