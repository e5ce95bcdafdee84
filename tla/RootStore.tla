----------------------------- MODULE RootStore -----------------------------
(***************************************************************************)
(* contracts/contracts/RootStore.sol: the circular buffer that remembers   *)
(* the most recent roots of the records Merkle tree.  A note is accepted   *)
(* only against a root the buffer still holds.                             *)
(*                                                                         *)
(* `mapping(uint256 => bool) _rootsMap' is the SET of the values mapped to *)
(* true.  `added' is a history variable: every root ever stored, in order. *)
(* It is read by the properties only.                                      *)
(***************************************************************************)
EXTENDS Integers, Sequences

CONSTANTS
    NRoots,      \* constructor argument nRoots (40 in the deployment scripts)
    RootValues,  \* the roots a records Merkle tree can have
    ZeroRoot     \* the value 0 every slot of the buffer starts with

(***************************************************************************)
(* The constructor's require(nRoots > 1), and the fact its comment relies  *)
(* on: zero is not the root of any tree.                                   *)
(***************************************************************************)
ASSUME RootStoreAssumption ==
    /\ NRoots \in Nat /\ NRoots > 1
    /\ ZeroRoot \notin RootValues

VARIABLES
    roots,      \* uint256[] _roots, indexed from 0
    rootsMap,   \* the values v with _rootsMap[v] = true
    writeHead,  \* uint64 _writeHead
    added       \* history: the arguments of the successful _addRoot calls

rsVars == <<roots, rootsMap, writeHead, added>>

Slots == 0 .. NRoots - 1

RootStoreTypeOK ==
    /\ roots \in [Slots -> RootValues \cup {ZeroRoot}]
    /\ rootsMap \subseteq RootValues \cup {ZeroRoot}
    /\ writeHead \in Slots
    /\ added \in Seq(RootValues)

\* The constructor: `new uint256[](nRoots)' is all zeros, the map is empty.
RootStoreInit ==
    /\ roots = [s \in Slots |-> ZeroRoot]
    /\ rootsMap = {}
    /\ writeHead = 0
    /\ added = << >>

ContainsRoot(root) == root \in rootsMap

-----------------------------------------------------------------------------
\* Plausible mistakes in _addRoot, used by the mutants of PROJECT.json.

\* Mutant: the overwritten root stays accepted.
AddRootKeepsOverwritten(newRoot) ==
    /\ newRoot \notin rootsMap
    /\ rootsMap' = rootsMap \cup {newRoot}
    /\ roots' = [roots EXCEPT ![writeHead] = newRoot]
    /\ writeHead' = (writeHead + 1) % NRoots
    /\ added' = Append(added, newRoot)

\* Mutant: the duplicate check is missing: a root can sit in two slots, and it
\* is forgotten when the first of them is overwritten.
AddRootAllowsDuplicate(newRoot) ==
    /\ rootsMap' = (rootsMap \ {roots[writeHead]}) \cup {newRoot}
    /\ roots' = [roots EXCEPT ![writeHead] = newRoot]
    /\ writeHead' = (writeHead + 1) % NRoots
    /\ added' = Append(added, newRoot)

-----------------------------------------------------------------------------
(***************************************************************************)
(* _addRoot(newRoot).  The require is the guard: a call that fails it      *)
(* reverts and changes nothing.                                            *)
(***************************************************************************)
AddRoot(newRoot) ==
    /\ newRoot \notin rootsMap
    /\ rootsMap' = (rootsMap \ {roots[writeHead]}) \cup {newRoot}
    /\ roots' = [roots EXCEPT ![writeHead] = newRoot]
    /\ writeHead' = (writeHead + 1) % NRoots
    /\ added' = Append(added, newRoot)

RootStoreNext == \E r \in RootValues : AddRoot(r)

RootStoreSpec == RootStoreInit /\ [][RootStoreNext]_rsVars

-----------------------------------------------------------------------------
\* The position in `added' of the oldest root the buffer still holds.
OldestKept ==
    IF Len(added) > NRoots THEN Len(added) - NRoots + 1 ELSE 1

\* The latest NRoots roots, oldest first.
LatestRoots ==
    [i \in 1 .. (Len(added) - OldestKept + 1) |-> added[OldestKept + i - 1]]

LatestRootSet == {added[i] : i \in OldestKept .. Len(added)}

(***************************************************************************)
(* "Only keep the latest nRoots ones" (RootStore.sol:30): the roots that   *)
(* _containsRoot accepts are exactly the last NRoots roots ever added.     *)
(* A root is not dropped early by another slot that held the same value,   *)
(* nor by the zeros the buffer starts with, and it is not kept too long.   *)
(***************************************************************************)
KeepsLatestRoots == rootsMap = LatestRootSet

(***************************************************************************)
(* Which root each slot holds: the slots below the write head hold the     *)
(* newest roots, the ones from the write head on those of the round        *)
(* before, or still zero.                                                  *)
(***************************************************************************)
AddedIn(s) ==
    IF s < writeHead THEN Len(added) - writeHead + s + 1
                     ELSE Len(added) - writeHead - NRoots + s + 1

SlotsInOrder ==
    \A s \in Slots :
        roots[s] = IF AddedIn(s) >= 1 THEN added[AddedIn(s)] ELSE ZeroRoot

\* Before the buffer has wrapped around, the write head counts the roots.
HeadCountsRoots == Len(added) < NRoots => writeHead = Len(added)

\* No two of the roots the buffer holds are equal.
KeptRootsDistinct ==
    \A i, j \in OldestKept .. Len(added) : added[i] = added[j] => i = j

\* The invariant that is preserved by every step.
RootStoreInv ==
    /\ RootStoreTypeOK
    /\ SlotsInOrder
    /\ HeadCountsRoots
    /\ KeptRootsDistinct
    /\ KeepsLatestRoots

-----------------------------------------------------------------------------
(***************************************************************************)
(* What the store promises to the contract, with no buffer and no map: it  *)
(* implements the sliding window of the module RootWindow.                 *)
(***************************************************************************)
Window == INSTANCE RootWindow WITH
              latest <- LatestRoots, accepted <- rootsMap

\* Each _addRoot, with its ring, map and write head, is a step of the window.
ImplementsRootWindow == Window!Spec
=============================================================================
