------------------------ MODULE RecordsMerkleTree ------------------------
(***************************************************************************)
(* RecordsMerkleTree.sol: a ternary Merkle tree of which the contract      *)
(* keeps the root, the number of leaves and the path to the last leaf (the *)
(* frontier).  An update rebuilds the nodes of that path in memory, pushes *)
(* the new elements, hashes the tree and stores the new path.              *)
(*                                                                         *)
(* RescueLib.hash is free: the hash of three values is their triple.  A    *)
(* number is a tuple of one and 0, the value of an empty subtree, <<>>.    *)
(***************************************************************************)
EXTENDS Naturals, Sequences, FiniteSets, TLC

CONSTANTS
    Height,        \* _merkleTreeHeight
    MaxElements    \* bound: elements of one update

ASSUME RecordsMerkleTreeAssumption == Height \in Nat \ {0} /\ MaxElements \in Nat

VARIABLES
    rootValue,
    numLeaves,
    flattenedFrontier,
    lastIndex,     \* history: the last node the update used and the number of nodes it has
    leaves         \* history: the elements in the order of insertion

treeVars == <<rootValue, numLeaves, flattenedFrontier, lastIndex, leaves>>

Zero == <<>>

RescueHash(a, b, c) == <<a, b, c>>

Node(val, children) == [val |-> val, child |-> children]

Terminal == <<0, 0, 0>>

isTerminal(node) == node.child = Terminal

isNull(node) == node.val = Zero /\ isTerminal(node)

TreeInit ==
    /\ rootValue = Zero
    /\ numLeaves = 0
    /\ flattenedFrontier = [i \in 0..(2 * Height) |-> Zero]
    /\ lastIndex = [used |-> 0, allocated |-> 1]
    /\ leaves = <<>>

-----------------------------------------------------------------------------
(* _buildTreeFromFrontier                                                  *)

\* A node of the path: the one below it on the path and its two siblings.
createHoleNode(cursor, pos) ==
    Node(Zero, CASE pos = 0 -> <<cursor - 3, cursor - 2, cursor - 1>>
              [] pos = 1 -> <<cursor - 2, cursor - 3, cursor - 1>>
              [] pos = 2 -> <<cursor - 2, cursor - 1, cursor - 3>>)

\* Mutant: the position of the next leaf instead of this one's.
positionOfNext(cursor) == (numLeaves \div 3^((cursor - 1) \div 3 - 1)) % 3

\* The position below the node at the cursor on the path to the last leaf.
localPosition(cursor) == ((numLeaves - 1) \div 3^((cursor - 1) \div 3 - 1)) % 3

\* The null node, the last leaf, and upwards a node of the path and the two
\* siblings of each.
nodeAt(i) ==
    IF i = 0 THEN Node(Zero, Terminal)
    ELSE IF i = 1 THEN Node(flattenedFrontier[0], Terminal)
    ELSE IF i % 3 = 1 THEN createHoleNode(i, localPosition(i))
    ELSE Node(flattenedFrontier[2 * ((i - 2) \div 3) + ((i - 2) % 3) + 1], Terminal)

buildTreeFromFrontier ==
    IF numLeaves = 0 THEN [root |-> 1, nodes |-> [i \in 0..1 |-> Node(Zero, Terminal)]]
    ELSE [root |-> 3 * Height + 1, nodes |-> [i \in 0..(3 * Height + 1) |-> nodeAt(i)]]

-----------------------------------------------------------------------------
(* _pushElement                                                            *)

\* The path to a leaf, one position for each level from the root down.
computeNodePos(leaf, branch) == (leaf \div 3^(Height - branch - 1)) % 3

\* Down to the first empty node: the last node before it and its level.
RECURSIVE descend(_, _, _, _)
descend(nodes, leaf, at, branch) ==
    LET next == nodes[at].child[computeNodePos(leaf, branch) + 1] IN
    IF isNull(nodes[next]) THEN [at |-> at, branch |-> branch]
                           ELSE descend(nodes, leaf, next, branch + 1)

\* New nodes from there down to the leaf, each the child of the one before.
RECURSIVE grow(_, _, _, _, _)
grow(nodes, leaf, at, branch, element) ==
    LET new    == Cardinality(DOMAIN nodes)
        bottom == branch = Height - 1
        node   == Node(IF bottom THEN RescueHash(Zero, <<leaf>>, element) ELSE Zero, Terminal)
        grown  == (new :> node)
                  @@ [nodes EXCEPT ![at].child[computeNodePos(leaf, branch) + 1] = new]
    IN  IF bottom THEN grown ELSE grow(grown, leaf, new, branch + 1, element)

pushElement(nodes, root, leaf, element) ==
    LET found == descend(nodes, leaf, root, 0)
    IN  grow(nodes, leaf, found.at, found.branch, element)

RECURSIVE pushAll(_, _, _, _)
pushAll(nodes, root, leaf, elements) ==
    IF elements = <<>> THEN nodes
    ELSE pushAll(pushElement(nodes, root, leaf, Head(elements)), root, leaf + 1, Tail(elements))

-----------------------------------------------------------------------------
(* _computeRootValueAndUpdateTree, _storeFrontier                          *)

RECURSIVE valueOf(_, _)
valueOf(nodes, i) ==
    IF isTerminal(nodes[i]) THEN nodes[i].val
    ELSE LET v(c) == valueOf(nodes, nodes[i].child[c]) IN RescueHash(v(1), v(2), v(3))

\* The path of the non-empty nodes that are most right.
rightmost(nodes, i) ==
    LET full(c) == ~isNull(nodes[nodes[i].child[c]])
    IN  IF full(3) THEN 3 ELSE IF full(2) THEN 2 ELSE 1

\* The values at the two siblings and, at the bottom, of the leaf.
RECURSIVE frontierFrom(_, _, _)
frontierFrom(nodes, i, level) ==
    IF level = 0 THEN <<valueOf(nodes, i)>>
    ELSE LET c == rightmost(nodes, i)
             siblings == SelectSeq(<<1, 2, 3>>, LAMBDA d : d # c)
         IN  frontierFrom(nodes, nodes[i].child[c], level - 1)
             \o [k \in 1..2 |-> valueOf(nodes, nodes[i].child[siblings[k]])]

storeFrontier(nodes, root) ==
    LET path == frontierFrom(nodes, root, Height) IN [i \in 0..(2 * Height) |-> path[i + 1]]

\* Memory for the nodes; the comment in the code gives the bound.
allocated(n) == 3 * (n + 1) * Height + 2

\* The update reverts when the tree is full.
updateRecordsMerkleTree(elements) ==
    /\ numLeaves + Len(elements) <= 3^Height
    /\ LET built == buildTreeFromFrontier
           nodes == pushAll(built.nodes, built.root, numLeaves, elements)
       IN  /\ rootValue' = valueOf(nodes, built.root)
           /\ flattenedFrontier' = storeFrontier(nodes, built.root)
           /\ lastIndex' = [used |-> Cardinality(DOMAIN nodes) - 1,
                            allocated |-> allocated(Len(elements))]
    /\ numLeaves' = numLeaves + Len(elements)
    /\ leaves' = leaves \o elements

\* Elements are told apart by the order in which they are inserted.
TreeNext ==
    \E n \in 0..MaxElements :
        updateRecordsMerkleTree([i \in 1..n |-> <<numLeaves + i>>])

TreeSpec == TreeInit /\ [][TreeNext]_treeVars

-----------------------------------------------------------------------------
(* Properties                                                              *)

\* The value of the subtree of 3^level leaves that starts at a leaf,
\* computed from all leaves.
RECURSIVE subtree(_, _)
subtree(first, level) ==
    IF first >= Len(leaves) THEN Zero
    ELSE IF level = 0 THEN RescueHash(Zero, <<first>>, leaves[first + 1])
    ELSE LET v(c) == subtree(first + c * 3^(level - 1), level - 1)
         IN  RescueHash(v(0), v(1), v(2))

\* However the elements are split into updates, the root the contract
\* computes from the frontier is that of the complete tree, which wallets
\* and the query service build from all the records.
RootOfAllLeaves == rootValue = subtree(0, Height)

\* "The total number of nodes is bounded by 3*height+1 + 3*N*height"
\* (updateRecordsMerkleTree): no update runs out of the memory it allocates.
NodesSuffice == lastIndex.used < lastIndex.allocated

\* However records come in batches, an update neither fails for want of nodes
\* nor leaves a root that differs from the one clients compute
\* (RecordsMerkleTree.sol _updateRecordsMerkleTree).
UpdatesBuildTree == RootOfAllLeaves /\ NodesSuffice
=============================================================================
