----------------------------- MODULE CapeBlock -----------------------------
(***************************************************************************)
(* The layout of a block: contracts/rust/src/cape/mod.rs builds it from    *)
(* transactions and takes it apart again, contracts/contracts/CAPE.sol     *)
(* reads it.  The notes of a block travel in one array per type, and       *)
(* note_types says from which array the next note comes.  A note here is a *)
(* record with a field `type'; nothing else of it matters.                 *)
(***************************************************************************)
EXTENDS Integers, Sequences, FiniteSets, SequencesExt

Types == {"TRANSFER", "MINT", "FREEZE", "BURN"}

\* The notes of a type, in their order.
OfType(notes, t) ==
    FlattenSeq([i \in DOMAIN notes |-> IF notes[i].type = t THEN <<notes[i]>> ELSE << >>])

TypesOf(notes) == [i \in DOMAIN notes |-> notes[i].type]

\* Mutant: the types are grouped, the way the arrays are.
groupedCapeBlock(notes) ==
    [note_types |-> TypesOf(OfType(notes, "TRANSFER") \o OfType(notes, "MINT")
                              \o OfType(notes, "FREEZE") \o OfType(notes, "BURN")),
     notes |-> [t \in Types |-> OfType(notes, t)]]

\* from_cape_transactions and the generate it calls.
from_cape_transactions(notes) ==
    [note_types |-> TypesOf(notes), notes |-> [t \in Types |-> OfType(notes, t)]]

\* How many of the first i entries of note_types are like the i-th: the place
\* of the i-th note in the array of its type.
PlaceInArray(block, i) ==
    Cardinality({j \in 1 .. i : block.note_types[j] = block.note_types[i]})

\* The arrays hold a note for every entry of note_types.
Malformed(block) ==
    \E i \in DOMAIN block.note_types :
        PlaceInArray(block, i) > Len(block.notes[block.note_types[i]])

\* The order in which submitCapeBlock reads the notes.
contractOrder(block) ==
    [i \in DOMAIN block.note_types |->
        block.notes[block.note_types[i]][PlaceInArray(block, i)]]

\* into_cape_transactions: each array is consumed from its end (`rev').
into_cape_transactions(block) ==
    [i \in DOMAIN block.note_types |->
        Reverse(block.notes[block.note_types[i]])[PlaceInArray(block, i)]]
=============================================================================
