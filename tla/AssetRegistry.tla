--------------------------- MODULE AssetRegistry ---------------------------
(***************************************************************************)
(* contracts/contracts/AssetRegistry.sol: which ERC-20 token backs which   *)
(* wrapped CAPE asset.  An asset definition is a code and a policy.  The   *)
(* code is a hash; hashes are collision free here, so a code is the tuple  *)
(* of what was hashed, its domain separator first.                         *)
(***************************************************************************)
EXTENDS Integers, Sequences

CONSTANTS
    Erc20Addresses,    \* addresses of the token contracts
    ZeroAddress,       \* address(0)
    Sponsors,          \* every msg.sender of the contract
    Policies,          \* asset policies
    WidePolicies,      \* the policies whose revealMap exceeds 12 bits
    InternalCodes,     \* internal codes of the assets minted inside CAPE
    AssetDefinitions   \* the definitions that occur as inputs

ForeignAssetCode(erc20Address, sponsor, policy) ==
    <<"FOREIGN_ASSET", erc20Address, sponsor, policy>>

DomesticAssetCode(internalAssetCode) == <<"DOMESTIC_ASSET", internalAssetCode>>

NativeAssetCode == <<"CAP_NATIVE_ASSET_CODE">>

\* nativeDomesticAsset(): code 1 and a policy of neutral keys.
NativePolicy == "neutral"
NativeAsset == [code |-> NativeAssetCode, policy |-> NativePolicy]

AssetCodes ==
    {NativeAssetCode}
      \cup {DomesticAssetCode(i) : i \in InternalCodes}
      \cup {ForeignAssetCode(e, s, p) :
               e \in Erc20Addresses, s \in Sponsors, p \in Policies}

ASSUME AssetRegistryAssumption ==
    /\ ZeroAddress \notin Erc20Addresses
    /\ NativePolicy \in Policies \ WidePolicies
    /\ AssetDefinitions \subseteq [code : AssetCodes, policy : Policies]
    /\ NativeAsset \in AssetDefinitions

\* mapping(bytes32 => address) assets, keyed by the definition that was hashed
VARIABLE assets

AssetsTypeOK == assets \in [AssetDefinitions -> Erc20Addresses \cup {ZeroAddress}]

AssetsInit == assets = [a \in AssetDefinitions |-> ZeroAddress]

lookup(assetDefinition) == assets[assetDefinition]

isCapeAssetRegistered(assetDefinition) == lookup(assetDefinition) # ZeroAddress

\* Mutant: the code of a minted asset is not checked.
AnyCode(assetDefinitionCode, internalAssetCode) == TRUE

\* What the require of _checkDomesticAssetCode demands.
IsDomesticCode(assetDefinitionCode, internalAssetCode) ==
    assetDefinitionCode = DomesticAssetCode(internalAssetCode)

\* What the require of _checkForeignAssetCode demands.
IsForeignCode(assetDefinitionCode, erc20Address, sponsor, policy) ==
    assetDefinitionCode = ForeignAssetCode(erc20Address, sponsor, policy)

-----------------------------------------------------------------------------
\* The part of sponsorCapeAsset that touches the registry.
RegisterAsset(sender, erc20Address, newAsset) ==
    /\ erc20Address # ZeroAddress
    /\ ~isCapeAssetRegistered(newAsset)
    /\ IsForeignCode(newAsset.code, erc20Address, sender, newAsset.policy)
    /\ assets' = [assets EXCEPT ![newAsset] = erc20Address]
=============================================================================
