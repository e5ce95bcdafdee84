------------------------------- MODULE CapeLog -------------------------------
(***************************************************************************)
(* What the CAPE contract promises to whoever reads its events: a log that *)
(* only grows, and in which every event may follow the ones before it.     *)
(* The tree of records, the queue of deposits and the spent records are    *)
(* functions of the log.  CAPE implements this specification; the query    *)
(* service (Eqs) is composed with it.                                      *)
(*                                                                         *)
(* The events are those of CAPE.sol and AssetRegistry.sol.  A block lists  *)
(* its notes in the order of noteTypes; a note names the leaves it spends  *)
(* and the records it adds.  Notes that noteTypes does not name take room  *)
(* in the array of commitments (CAPE.sol:267): the padding, zeros at the   *)
(* end, which a reader finds by the arrays of the block it fetches.        *)
(***************************************************************************)
EXTENDS Integers, Sequences, FiniteSets, SequencesExt, FiniteSetsExt

CONSTANT MAX_NUM_PENDING_DEPOSIT

VARIABLE log

FaucetEvent(ro) == [event |-> "FaucetInitialized", opening |-> ro]
SponsorEvent(e, a) == [event |-> "AssetSponsored", erc20 |-> e, asset |-> a]
DepositEvent(ro, from) ==
    [event |-> "Erc20TokensDeposited", opening |-> ro, from |-> from]
BlockEvent(height, deposits, notes, padding) ==
    [event |-> "BlockCommitted", height |-> height, deposits |-> deposits,
     notes |-> notes, padding |-> padding]

IsBlock(e) == e.event = "BlockCommitted"

Blocks(l) == {k \in DOMAIN l : IsBlock(l[k])}

\* What an event makes of the queue of deposits.
NextQueue(queue, e) ==
    CASE IsBlock(e) -> << >>
      [] e.event = "Erc20TokensDeposited" -> Append(queue, e.opening)
      [] OTHER -> queue

\* The deposits announced since the last block, oldest first.
Announced(l) ==
    LET since[k \in 0 .. Len(l)] ==
          IF k = 0 THEN << >> ELSE NextQueue(since[k - 1], l[k])
    IN  since[Len(l)]

\* The records that notes add to the tree, and the leaves they spend.
OutputsOf(notes) == FlattenSeq([n \in DOMAIN notes |-> notes[n].outputs])
SpentBy(notes) == FlattenSeq([n \in DOMAIN notes |-> notes[n].spent])

LeavesOf(e) ==
    CASE e.event = "FaucetInitialized" -> <<e.opening>>
      [] e.event = "BlockCommitted" -> OutputsOf(e.notes) \o e.deposits \o e.padding
      [] OTHER -> << >>

\* The tree of records after these events.
Leaves(l) == FlattenSeq([k \in DOMAIN l |-> LeavesOf(l[k])])

\* The records spent by these events, by position in the tree.
Spent(l) == UNION {ToSet(SpentBy(l[k].notes)) : k \in Blocks(l)}

\* The registered assets with their tokens.
Sponsored(l) ==
    {<<l[k].asset, l[k].erc20>> : k \in {i \in DOMAIN l : l[i].event = "AssetSponsored"}}

Registered(l) == {pair[1] : pair \in Sponsored(l)}

-----------------------------------------------------------------------------
\* A block may come next: it lists the waiting deposits, changes something,
\* and spends leaves that exist and were never spent before.
BlockFollows(l, e) ==
    LET spent == SpentBy(e.notes)
    IN  /\ e.height = Cardinality(Blocks(l)) + 1
        /\ e.deposits = Announced(l)
        /\ e.notes # << >> \/ e.deposits # << >>
        /\ IsInjective(spent)
        /\ ToSet(spent) \subseteq (1 .. Len(Leaves(l))) \ Spent(l)

Follows(l, e) ==
    \/ /\ e.event = "FaucetInitialized"
       /\ \A k \in DOMAIN l : l[k].event # "FaucetInitialized"
    \/ /\ e.event = "AssetSponsored"
       /\ e.asset \notin Registered(l)
    \/ /\ e.event = "Erc20TokensDeposited"
       /\ e.opening.assetDef \in Registered(l)
       /\ Len(Announced(l)) < MAX_NUM_PENDING_DEPOSIT
    \/ /\ IsBlock(e)
       /\ BlockFollows(l, e)

WellFormed(l) == \A k \in DOMAIN l : Follows(SubSeq(l, 1, k - 1), l[k])

\* One transaction appends the events of the calls it consists of.
Emit == IsStrictPrefix(log, log') /\ WellFormed(log')

Spec == log = << >> /\ [][Emit]_log
=============================================================================
