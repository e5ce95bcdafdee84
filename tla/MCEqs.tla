-------------------------------- MODULE MCEqs --------------------------------
(* Small instances of Eqs: what the contract may emit in one Ethereum block. *)
EXTENDS Eqs

CONSTANTS MaxEvents,   \* bound: events of the log
          Assets,      \* wrapped assets; deposits are of "wrapped"
          NotesLists,  \* bound: the note types and the memos of a block
          LateFaucet   \* whether deposits or blocks may precede the faucet

\* A record is named after the leaf that was spent for it.
NoteSpending(type, leaf) ==
    [type |-> type, spent |-> <<leaf>>,
     outputs |-> [i \in 1 .. 2 |-> [assetDef |-> "native", nr |-> <<leaf, i>>]]]

\* The n-th note spends the n-th unspent leaf.
BlockEvents(l, lists) ==
    LET unspent == (1 .. Len(Log!Leaves(l))) \ Log!Spent(l)
        nth(n) == CHOOSE leaf \in unspent : Cardinality({k \in unspent : k <= leaf}) = n
        notes(x) == [n \in DOMAIN x.types |-> NoteSpending(x.types[n], nth(n))]
    IN  {[event |-> "BlockCommitted", height |-> Cardinality(Log!Blocks(l)) + 1,
          deposits |-> Log!Announced(l), notes |-> notes(x), padding |-> << >>,
          memos |-> x.memos] :
           x \in {y \in lists : Len(y.types) <= Cardinality(unspent)}}

\* A deposit is named after its place in the log.
OtherEvents(l, assets, late) ==
    {Log!SponsorEvent("token", a) : a \in assets}
      \cup {Log!DepositEvent([assetDef |-> "wrapped", nr |-> <<0, Len(l)>>], "alice")}
      \cup IF late \/ (Log!Blocks(l) = {} /\ Log!Announced(l) = << >>)
           THEN {Log!FaucetEvent([assetDef |-> "native", nr |-> <<0, 0>>])} ELSE {}

\* Up to two events.
EventListsOf(l, assets, lists, late) ==
    LET Following(m) == {e \in BlockEvents(m, lists) \cup OtherEvents(m, assets, late) :
                           Len(m) < MaxEvents /\ Log!Follows(m, e)}
    IN  {<< >>} \cup UNION {{<<e>>} \cup {<<e, f>> : f \in Following(Append(l, e))} :
                               e \in Following(l)}

MCEventLists(l) == EventListsOf(l, Assets, NotesLists, LateFaucet)

-----------------------------------------------------------------------------
NotesList(types, memos) == [types |-> types, memos |-> memos]

\* What the relayer submits: one transaction with its memos, or none.
SignedLists == {NotesList(<< >>, << >>), NotesList(<<"TRANSFER">>, <<"signed">>)}

RelayerLists == SignedLists \cup {NotesList(<<"TRANSFER">>, <<"unsigned">>)}

\* Blocks of other submitters: notes of different types, memos left out.
AnyLists ==
    RelayerLists
      \cup {NotesList(<<"TRANSFER">>, << >>), NotesList(<<"MINT", "BURN">>, <<"signed", "signed">>)}

\* Blocks of two notes with their memos.
TwoNoteLists ==
    RelayerLists \cup {NotesList(<<"MINT", "BURN">>, <<m, n>>) :
                         m \in {"signed", "unsigned"}, n \in {"signed", "unsigned"}}
=============================================================================
