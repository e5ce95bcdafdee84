------------------------------- MODULE MCCAPE -------------------------------
(***************************************************************************)
(* Two small instances of CAPE on the same variables: one with notes of    *)
(* every type, whose constants the configuration gives, and one with a     *)
(* token that calls back, R.                                               *)
(***************************************************************************)
EXTENDS CAPE

CONSTANTS alice, tok, evil

VARIABLE instance

MCRootValues == 1 .. TreeCapacity

\* The deployed verifying keys with at most two inputs (VerifyingKeys.sol).
MCVkIds ==
    {<<"TRANSFER", 1, 2>>, <<"TRANSFER", 2, 2>>, <<"TRANSFER", 2, 3>>,
     <<"MINT", 1, 2>>, <<"FREEZE", 2, 2>>}

Wrapped(token, sponsor, policy) ==
    [code |-> ForeignAssetCode(token, sponsor, policy), policy |-> policy]

Domestic == [code |-> DomesticAssetCode("d"), policy |-> NativePolicy]

Rec(a, n, f) == [assetDef |-> a, amount |-> n, freezeFlag |-> f]

\* The change of the fee.
Change == Rec(NativeAsset, 1, FALSE)

-----------------------------------------------------------------------------
(* The reentrant instance: an honest token, and one that wraps itself and    *)
(* calls back.                                                               *)

ReentrantAssets ==
    {NativeAsset, Wrapped(tok, alice, "neutral"), Wrapped(evil, evil, "neutral")}

ReentrantOutputs == {<<Change, Rec(a, 1, FALSE)>> : a \in ReentrantAssets \ {NativeAsset}}

ReentrantRoots == 1 .. 6

R == INSTANCE CAPE WITH
    RootValues <- ReentrantRoots, TreeCapacity <- 6,
    Erc20Addresses <- {tok, evil}, ReentrantTokens <- {evil},
    Sponsors <- {alice, evil}, Policies <- {"neutral"}, WidePolicies <- {},
    InternalCodes <- {}, AssetDefinitions <- ReentrantAssets,
    Amounts <- {1}, FaucetAmount <- 1, InitialBalance <- 1,
    OutputLists <- ReentrantOutputs, MaxNotes <- 1, MaxSpare <- 0

-----------------------------------------------------------------------------
(* The instance with notes of every type, two in a block, transfers that     *)
(* split a record, and a definition whose reveal map is too wide.            *)

NotesAssets ==
    {NativeAsset, Domestic, Wrapped(tok, alice, "freezable"), Wrapped(tok, alice, "wide")}

NotesOutputs ==
    LET w == Wrapped(tok, alice, "freezable")
    IN  {<<Change, Rec(a, 1, FALSE)>> : a \in {Domestic, w}}
          \cup {<<Change, Rec(w, 2, FALSE)>>, <<Change, Rec(w, 1, TRUE)>>,
                <<Change, Rec(w, 1, FALSE), Rec(w, 1, FALSE)>>}

-----------------------------------------------------------------------------
MCInit ==
    \/ instance = "notes" /\ Init
    \/ instance = "reentrant" /\ R!Init

MCNext ==
    /\ \/ instance = "notes" /\ Next
       \/ instance = "reentrant" /\ R!Next
    /\ UNCHANGED instance

MCSpec == MCInit /\ [][MCNext]_<<vars, instance>>
=============================================================================
