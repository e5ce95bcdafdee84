------------------------------ MODULE MCParts ------------------------------
(***************************************************************************)
(* The small sequential parts, each running on its own: the data           *)
(* structures of the contract, the conversions and routes, the test ledger *)
(* of the wallet, the address book, the wallet server, the accounts of     *)
(* wallets and the asset library.  The variable part says which one runs;  *)
(* the others keep an initial state.                                       *)
(***************************************************************************)
EXTENDS RootStore, RecordsMerkleTree, MCCapeBlock, CapeTypes, MCRoutes, MockNetwork,
        AddressBook, WalletServer, WalletAccounts, AssetLibrary

CONSTANTS
    MaxAdds,   \* bound: number of _addRoot calls
    t1, s1,    \* a token and a sponsor
    t2, v1     \* another token, and a viewing or freezing key

VARIABLE part

allVars == <<part, rsVars, treeVars, txns, typeVars, routeVars, mockVars, bookVars,
             serverVars, accountVars, libraryVars>>

-----------------------------------------------------------------------------
(* The ledger at the start of the wallet's tests: with or without a grant  *)
(* of fees, and with a deposit that waits or was credited.                 *)

MCGrants == {<<>>, <<[asset |-> native, id |-> 0]>>}

Wrapped == [erc20 |-> t1, sponsor |-> s1]

Deposited ==
    <<[op |-> "RegisterErc20", asset |-> Wrapped, erc20 |-> t1, sponsor |-> s1],
      [op |-> "WrapErc20", erc20 |-> t1, ro |-> [asset |-> Wrapped, id |-> 1]]>>

\* Freezes of two records have no key.
MCKeySizes == {<<"xfr", 1, 1>>, <<"xfr", 2, 2>>, <<"freeze", 1, 1>>}

MCOps == {<<>>, Deposited, Deposited \o <<[op |-> "SubmitBlock", txns |-> <<>>]>>}

-----------------------------------------------------------------------------
(* Specifications of asset libraries: two assets in either order, a        *)
(* freezing key without a viewing key, and the native asset alone.         *)

Asset(symbol, k, token, viewing, freezing, about) ==
    [symbol |-> symbol, kind |-> k, contract |-> token, viewing_key |-> viewing,
     freezing_key |-> freezing, description |-> about]

AssetA == Asset("A", "wrapped", t1, v1, Unset, "first")

AssetB == Asset("B", "wrapped", t2, v1, Unset, Unset)

MCLibrarySpecs ==
    {<<AssetA, AssetB>>, <<AssetB, AssetA>>,
     <<Asset("D", "domestic", Unset, Unset, v1, "new"), [AssetA EXCEPT !.freezing_key = v1]>>,
     <<Asset("N", "native", Unset, Unset, Unset, Unset)>>}

-----------------------------------------------------------------------------
MCInit ==
    /\ part \in {"roots", "tree", "codec", "types", "routes", "ledger", "book", "server",
                "accounts", "library"}
    /\ RootStoreInit /\ TreeInit /\ CodecInit /\ RoutesInit /\ BookInit /\ LibraryInit
    /\ TypesInit /\ (part # "types" => original = NativeAsset)
    /\ ServerInit /\ (part # "server" => assetsFile = "absent" /\ keystores = noKeystores)
    /\ MockInit /\ (part # "ledger" => net = submitOperations(newNetwork(<<>>), <<>>))
    /\ AccountsInit
    /\ part # "accounts" => driver = "api" /\ issuer[WrappedAsset] = NoHolder

RootsStep ==
    /\ part = "roots" /\ Len(added) < MaxAdds
    /\ RootStoreNext
    /\ UNCHANGED <<part, treeVars, txns, typeVars, routeVars, mockVars, bookVars, serverVars,
                   accountVars, libraryVars>>

TreeStep ==
    /\ part = "tree" /\ TreeNext
    /\ UNCHANGED <<part, rsVars, txns, typeVars, routeVars, mockVars, bookVars, serverVars,
                   accountVars, libraryVars>>

CodecStep ==
    /\ part = "codec" /\ AddTxn
    /\ UNCHANGED <<part, rsVars, treeVars, typeVars, routeVars, mockVars, bookVars, serverVars,
                   accountVars, libraryVars>>

TypesStep ==
    /\ part = "types" /\ TypesNext
    /\ UNCHANGED <<part, rsVars, treeVars, txns, routeVars, mockVars, bookVars, serverVars,
                   accountVars, libraryVars>>

RoutesStep ==
    /\ part = "routes" /\ RoutesNext
    /\ UNCHANGED <<part, rsVars, treeVars, txns, typeVars, mockVars, bookVars, serverVars,
                   accountVars, libraryVars>>

LedgerStep ==
    /\ part = "ledger" /\ MockNext
    /\ UNCHANGED <<part, rsVars, treeVars, txns, typeVars, routeVars, bookVars, serverVars,
                   accountVars, libraryVars>>

BookStep ==
    /\ part = "book" /\ BookNext
    /\ UNCHANGED <<part, rsVars, treeVars, txns, typeVars, routeVars, mockVars, serverVars,
                   accountVars, libraryVars>>

ServerStep ==
    /\ part = "server" /\ ServerNext
    /\ UNCHANGED <<part, rsVars, treeVars, txns, typeVars, routeVars, mockVars, bookVars,
                   accountVars, libraryVars>>

AccountsStep ==
    /\ part = "accounts" /\ AccountsNext
    /\ UNCHANGED <<part, rsVars, treeVars, txns, typeVars, routeVars, mockVars, bookVars,
                   serverVars, libraryVars>>

LibraryStep ==
    /\ part = "library" /\ LibraryNext
    /\ UNCHANGED <<part, rsVars, treeVars, txns, typeVars, routeVars, mockVars, bookVars,
                   serverVars, accountVars>>

MCNext ==
    \/ RootsStep \/ TreeStep \/ CodecStep \/ TypesStep \/ RoutesStep \/ LedgerStep \/ BookStep
    \/ ServerStep \/ AccountsStep \/ LibraryStep

MCSpec == MCInit /\ [][MCNext]_allVars

-----------------------------------------------------------------------------
(* The properties of the accounts, where the accounts run.                 *)

\* The balances that getbalance/all shows in all wallets, with what is frozen
\* and what transactions hold, are what was funded, minted and wrapped less
\* what was burned and paid in fees.
BalancesAddUp == part = "accounts" => SupplyAccountedFor

\* The accounts a wallet shows have no record that is not on the ledger: not
\* the burned output of an unwrap, nor a record that was frozen or spent.
AccountsShowLedger == part = "accounts" => ShownRecordsExist
=============================================================================
