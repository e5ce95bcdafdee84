---------------------------- MODULE AssetLibrary ----------------------------
(***************************************************************************)
(* The official asset library (wallet/src/bin/official-asset-library.rs).  *)
(* generate deploys the assets of a specification one after the other, any *)
(* of which may fail, and signs a library of them; update rewrites the     *)
(* names and descriptions of a signed library, perhaps with a new key; a   *)
(* wallet takes the assets of a library that opens with the key it trusts  *)
(* (wallet/src/wallet.rs), from where a part of them can be signed again   *)
(* (wallet/src/bin/extract-official-asset-library.rs).                     *)
(***************************************************************************)
EXTENDS Naturals, Sequences, SequencesExt

CONSTANTS
    LibrarySpecs,      \* specifications: sequences of assets
    SigningKeys,
    TrustedKey,        \* asset_verifier of the wallets
    Unset,             \* a key or a description that is not given
    MaxCommands        \* bound: commands run

ASSUME LibraryAssumption ==
    /\ TrustedKey \in SigningKeys
    /\ \A spec \in LibrarySpecs : spec \in Seq(ToSet(spec))

VARIABLES
    sponsoredAssets,   \* on the chain: the wrapped assets that were sponsored
    mintedAssets,      \* on the chain: the domestic assets that were minted
    codes,             \* asset codes drawn so far
    skipped,           \* assets created with --no-deploy
    command,           \* the generate command that runs
    library,           \* the library file
    verified,          \* the assets a wallet shows as verified
    commandCount

deployment == <<sponsoredAssets, mintedAssets, codes, skipped>>

libraryVars ==
    <<sponsoredAssets, mintedAssets, codes, skipped, command, library, verified, commandCount>>

NoCommand == [step |-> "none"]

NoLibrary == [key |-> Unset, assets |-> <<>>, spec |-> <<>>]

LibraryInit ==
    /\ sponsoredAssets = {} /\ mintedAssets = {} /\ codes = 0 /\ skipped = {}
    /\ command = NoCommand
    /\ library = NoLibrary
    /\ verified = {}
    /\ commandCount = 0

begins == commandCount < MaxCommands /\ commandCount' = commandCount + 1

-----------------------------------------------------------------------------
(* Asset::create                                                           *)

defaultPolicy == [viewing_key |-> Unset, freezing_key |-> Unset]

\* A freezing key takes effect only next to a viewing key.
policyOf(a) ==
    IF a.viewing_key = Unset THEN defaultPolicy
    ELSE [viewing_key |-> a.viewing_key, freezing_key |-> a.freezing_key]

native_definition == [kind |-> "native", code |-> "native", policy |-> defaultPolicy]

\* define_asset draws a new code at each call.
define_asset(a) == [kind |-> "domestic", code |-> codes, policy |-> policyOf(a)]

\* The code of a wrapped asset is derived from the token, the sponsor and the policy.
build_sponsor(a) == [kind |-> "wrapped", code |-> a.contract, policy |-> policyOf(a)]

\* A description that is not given leaves the one there is.
withMetadata(info, a) ==
    [info EXCEPT !.name = a.symbol,
                 !.description = IF a.description = Unset THEN @ ELSE a.description]

AssetInfoOf(definition, a) ==
    withMetadata([definition |-> definition, name |-> Unset, description |-> Unset], a)

generating == command.step # "none"

allCreated == Len(command.assets) = Len(command.spec)

next == command.spec[Len(command.assets) + 1]

creating(k) ==
    generating /\ command.step = "create" /\ ~allCreated /\ next.kind = k

deploy == next.symbol \notin command.no_deploy

assetCreated(definition) ==
    command' = [command EXCEPT !.assets = Append(@, AssetInfoOf(definition, next))]

\* Mutant: the error is logged only.
createdAnyway(definition) == assetCreated(definition)

\* An error ends the command; what was deployed stays.
failed(definition) == command' = NoCommand

load_icon_fails ==
    /\ generating /\ command.step = "create" /\ ~allCreated
    /\ command' = NoCommand
    /\ UNCHANGED <<deployment, library, verified, commandCount>>

createNative ==
    /\ creating("native")
    /\ assetCreated(native_definition)
    /\ UNCHANGED <<deployment, library, verified, commandCount>>

request_fee_assets ==
    /\ creating("domestic") /\ ~command.fees
    /\ \/ command' = [command EXCEPT !.step = "await fees"]
       \/ command' = NoCommand
    /\ UNCHANGED <<deployment, library, verified, commandCount>>

\* The faucet serves the request.
feesArrive ==
    /\ generating /\ command.step = "await fees"
    /\ command' = [command EXCEPT !.step = "create", !.fees = TRUE]
    /\ UNCHANGED <<deployment, library, verified, commandCount>>

\* --no-deploy: the asset is taken to be on the chain.
skip(definition) ==
    /\ ~deploy
    /\ skipped' = skipped \cup {definition}
    /\ assetCreated(definition)

\* The mint may fail, and it may retire without the wallet learning of it.
createDomestic ==
    /\ creating("domestic") /\ command.fees
    /\ LET asset == define_asset(next)
           mints == deploy /\ UNCHANGED skipped
       IN  \/ mints /\ mintedAssets' = mintedAssets \cup {asset} /\ assetCreated(asset)
           \/ mints /\ mintedAssets' \in {mintedAssets, mintedAssets \cup {asset}} /\ failed(asset)
           \/ skip(asset) /\ UNCHANGED mintedAssets
    /\ codes' = codes + 1
    /\ UNCHANGED <<sponsoredAssets, library, verified, commandCount>>

\* sponsorCapeAsset refuses an asset that is registered; its receipt may be lost.
createWrapped ==
    /\ creating("wrapped")
    /\ LET asset == build_sponsor(next)
           sponsors == deploy /\ UNCHANGED skipped
           registers == sponsoredAssets' = sponsoredAssets \cup {asset}
       IN  \/ sponsors /\ asset \notin sponsoredAssets /\ registers /\ assetCreated(asset)
           \/ sponsors /\ (registers \/ UNCHANGED sponsoredAssets) /\ failed(asset)
           \/ skip(asset) /\ UNCHANGED sponsoredAssets
    /\ UNCHANGED <<mintedAssets, codes, library, verified, commandCount>>

-----------------------------------------------------------------------------
(* The commands.                                                           *)

\* The new wallet sees only what its key receives from now on.
generate ==
    /\ ~generating /\ begins
    /\ \E spec \in LibrarySpecs, key \in SigningKeys :
        \E no_deploy \in SUBSET {spec[i].symbol : i \in DOMAIN spec} :
            command' = [step |-> "create", spec |-> spec, key |-> key, no_deploy |-> no_deploy,
                        assets |-> <<>>, fees |-> FALSE]
    /\ UNCHANGED <<deployment, library, verified>>

write_library(assets, key, spec) == library' = [key |-> key, assets |-> assets, spec |-> spec]

generateWrites ==
    /\ generating /\ command.step = "create" /\ allCreated
    /\ write_library(command.assets, command.key, command.spec)
    /\ command' = NoCommand
    /\ UNCHANGED <<deployment, verified, commandCount>>

\* The operator stops generate.
interrupt ==
    /\ generating
    /\ command' = NoCommand
    /\ UNCHANGED <<deployment, library, verified, commandCount>>

\* Both keys must be those of the specification, or neither given.
keysMatch(info, a) ==
    /\ info.definition.policy.viewing_key = a.viewing_key
    /\ info.definition.policy.freezing_key = a.freezing_key

updatable(spec) ==
    /\ Len(library.assets) = Len(spec)
    /\ \A i \in DOMAIN spec : keysMatch(library.assets[i], spec[i])

\* The assets of the file and of the specification are matched by position.
update ==
    /\ ~generating /\ library # NoLibrary /\ begins
    /\ \E spec \in LibrarySpecs, ver_key, key \in SigningKeys :
        IF library.key = ver_key /\ updatable(spec)
        THEN \/ write_library([i \in DOMAIN spec |-> withMetadata(library.assets[i], spec[i])],
                              key, spec)
             \/ UNCHANGED library   \* an icon is missing
        ELSE UNCHANGED library
    /\ UNCHANGED <<deployment, command, verified>>

\* The first wallet that finds the library verifies all of it, or fails.
verify_assets ==
    /\ library.key = TrustedKey
    /\ verified' = verified \cup ToSet(library.assets)
    /\ UNCHANGED <<deployment, command, library, commandCount>>

\* One asset of each symbol, as the map of symbols keeps only one.
extract ==
    /\ ~generating /\ begins
    /\ \E infos \in SUBSET verified, key \in SigningKeys :
        /\ infos # {} /\ \A a, b \in infos : a.name = b.name => a = b
        /\ write_library(SetToSeq(infos), key, <<>>)
    /\ UNCHANGED <<deployment, command, verified>>

LibraryNext ==
    \/ generate \/ load_icon_fails \/ createNative \/ request_fee_assets \/ feesArrive
    \/ createDomestic \/ createWrapped \/ generateWrites \/ interrupt
    \/ update \/ verify_assets \/ extract

LibrarySpec == LibraryInit /\ [][LibraryNext]_libraryVars

-----------------------------------------------------------------------------
(* Properties                                                              *)

\* An asset is on the chain: sponsored, or with records minted.
deployed(definition) ==
    CASE definition.kind = "wrapped" -> definition \in sponsoredAssets
      [] definition.kind = "domestic" -> definition \in mintedAssets
      [] definition.kind = "native" -> TRUE

\* The asset has the viewing and freezing keys the specification gives it.
asSpecified(info, a) ==
    info.definition.kind = "native" \/ info.definition.policy = policyOf(a)

\* Whatever failed or was interrupted before, resumed with --no-deploy,
\* updated, signed with another key or extracted: the assets of a library
\* and those a wallet shows as verified are on the chain (or the operator said
\* so), and their viewing and freezing keys are those of the specification the
\* library was written from (GenerateCommand::run, UpdateCommand::run,
\* verify_cape_assets).
LibrariesMatchChain ==
    /\ \A info \in ToSet(library.assets) \cup verified :
          info.definition \in skipped \/ deployed(info.definition)
    /\ \A i \in DOMAIN library.spec : asSpecified(library.assets[i], library.spec[i])
=============================================================================
