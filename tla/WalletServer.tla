---------------------------- MODULE WalletServer ----------------------------
(***************************************************************************)
(* The wallet web server (wallet/src/wallet-api) and the loader of its     *)
(* keystores (wallet/src/loader.rs).  A request holds the mutexes of the   *)
(* random generator and of the wallet until it is answered, so requests    *)
(* are handled one after the other; the services it talks to, the disk and *)
(* a crash come in between its steps.                                      *)
(***************************************************************************)
EXTENDS Naturals, Sequences, FiniteSets

CONSTANTS
    Paths,             \* keystores
    Mnemonics,
    Passwords,
    MaxRequests,       \* bound: requests
    MaxFaults          \* bound: outages, crashes and new contracts

NoWallet == "none"

NoMnemonic == "none"

\* There is a keystore, a mnemonic and a password to open one with, and the
\* path of a keystore is not mistaken for the absence of a wallet.
ASSUME WalletServerAssumption ==
    /\ Paths # {} /\ NoWallet \notin Paths
    /\ Mnemonics # {} /\ Passwords # {}
    /\ MaxRequests \in Nat /\ MaxFaults \in Nat

VARIABLES
    openWallet,       \* WebState.wallet: the open keystore
    apiRequest,      \* the request that holds the locks
    keystores,    \* on disk
    lastUsed,     \* on disk: last_wallet_path
    assetsFile,   \* on disk: verified_assets
    exported,     \* asset infos that were exported
    contract,     \* the latest contract, according to the query service
    eqsUp,
    sponsored,    \* whether the query service knows the asset as sponsored
    handles,      \* history: wallets that have the files of a keystore open
    requestCount, faults

disk == <<keystores, lastUsed, assetsFile>>

world == <<contract, eqsUp, sponsored>>

counters == <<requestCount, faults>>

serverVars == <<openWallet, apiRequest, keystores, lastUsed, assetsFile, exported, contract, eqsUp,
          sponsored, handles, requestCount, faults>>

Idle == [kind |-> "none", step |-> "none"]

Absent == [exists |-> FALSE]

AssetInfo(code, mint_info) == [code |-> code, mint_info |-> mint_info, symbol |-> "given"]

Keystore(mnemonic, password, version, assets) ==
    [exists |-> TRUE, mnemonic |-> mnemonic, password |-> password, contract |-> version,
     assets |-> assets]

noKeystores == [p \in Paths |-> Absent]

\* One keystore from an earlier run, with an asset that was defined in it; which
\* one makes no difference.
oneKeystore ==
    LET p == CHOOSE p \in Paths : TRUE
        m == CHOOSE m \in Mnemonics : TRUE
        pw == CHOOSE pw \in Passwords : TRUE
    IN  [noKeystores EXCEPT ![p] = Keystore(m, pw, 1, {AssetInfo(p, m)})]

ServerInit ==
    /\ openWallet = NoWallet
    /\ apiRequest = Idle
    /\ keystores \in {noKeystores, oneKeystore}
    /\ lastUsed = NoWallet
    /\ assetsFile \in {"absent", "valid", "invalid"}
    /\ exported = {}
    /\ contract = 1
    /\ eqsUp = TRUE
    /\ sponsored = FALSE
    /\ handles = [p \in Paths |-> 0]
    /\ requestCount = 0 /\ faults = 0

-----------------------------------------------------------------------------
(* dispatch_url                                                            *)

unlocked == apiRequest.kind = "none"

step(s) == apiRequest' = [apiRequest EXCEPT !.step = s]

reply == apiRequest' = Idle

accept(r) ==
    /\ unlocked
    /\ requestCount < MaxRequests
    /\ requestCount' = requestCount + 1
    /\ apiRequest' = r
    /\ UNCHANGED <<openWallet, disk, exported, world, handles, faults>>

\* Mutant: the open wallet is not closed before the next one is loaded.
keptOpen == handles

\* Dropping a wallet closes its files.
closed == IF openWallet = NoWallet THEN handles ELSE [handles EXCEPT ![openWallet] = @ - 1]

openingRequest(kind, path, mnemonic, password) ==
    [kind |-> kind, step |-> "latest_contract", path |-> path, mnemonic |-> mnemonic,
     password |-> password, contract |-> 0]

dispatch_url ==
    \/ \E p \in Paths, m \in Mnemonics, pw \in Passwords :
          \/ \E kind \in {"newwallet", "resetpassword"} : accept(openingRequest(kind, p, m, pw))
          \/ accept(openingRequest("openwallet", p, NoMnemonic, pw))
    \/ \E kind \in {"closewallet", "newasset", "exportasset", "importasset", "updateasset",
                    "submitsponsor",
                    "waitforsponsor", "query"} :
          accept([kind |-> kind, step |-> "handle"])

-----------------------------------------------------------------------------
(* newwallet, openwallet and resetpassword.                                *)

opening == apiRequest.kind \in {"newwallet", "openwallet", "resetpassword"}

existing == apiRequest.kind # "newwallet"

\* The wallet stays as it is when the query service does not answer.
latest_contract ==
    /\ opening /\ apiRequest.step = "latest_contract"
    /\ IF eqsUp THEN apiRequest' = [apiRequest EXCEPT !.contract = contract, !.step = "close"]
       ELSE reply
    /\ UNCHANGED <<openWallet, disk, exported, world, handles, counters>>

closeBeforeOpen ==
    /\ opening /\ apiRequest.step = "close"
    /\ openWallet' = NoWallet
    /\ handles' = closed
    /\ step("write_path")
    /\ UNCHANGED <<disk, exported, world, counters>>

write_path ==
    /\ opening /\ apiRequest.step = "write_path"
    /\ lastUsed' = apiRequest.path
    /\ step("load")
    /\ UNCHANGED <<openWallet, keystores, assetsFile, exported, world, handles, counters>>

currentContract(k) == k.contract = apiRequest.contract

\* The key opens with the password or, to recover, with the mnemonic.
unlocks(k) ==
    IF apiRequest.kind = "resetpassword" THEN k.mnemonic = apiRequest.mnemonic
                                      ELSE k.password = apiRequest.password

(***************************************************************************)
(* Opening the storage.  A keystore that is there has to be of the current *)
(* contract and to unlock; a recovered one gets the new password.  A       *)
(* keystore is to exist if and only if an existing one was asked for.      *)
(***************************************************************************)
loadWallet ==
    /\ opening /\ apiRequest.step = "load"
    /\ LET k == keystores[apiRequest.path] IN
       IF k.exists /\ currentContract(k) /\ unlocks(k)
       THEN /\ keystores' = IF apiRequest.kind = "resetpassword"
                            THEN [keystores EXCEPT ![apiRequest.path].password = apiRequest.password]
                            ELSE keystores
            /\ IF existing THEN /\ step("verify_assets")
                                /\ handles' = [handles EXCEPT ![apiRequest.path] = @ + 1]
                           ELSE reply /\ UNCHANGED handles
       ELSE /\ IF ~k.exists /\ ~existing THEN step("create") ELSE reply
            /\ UNCHANGED <<keystores, handles>>
    /\ UNCHANGED <<openWallet, lastUsed, assetsFile, exported, world, counters>>

\* A new wallet starts from a snapshot of the query service.
create ==
    /\ opening /\ apiRequest.step = "create"
    /\ IF eqsUp
       THEN /\ keystores' = [keystores EXCEPT ![apiRequest.path] =
                  Keystore(apiRequest.mnemonic, apiRequest.password, apiRequest.contract, {})]
            /\ handles' = [handles EXCEPT ![apiRequest.path] = @ + 1]
            /\ step("verify_assets")
       ELSE reply /\ UNCHANGED <<keystores, handles>>
    /\ UNCHANGED <<openWallet, lastUsed, assetsFile, exported, world, counters>>

\* A library that cannot be verified fails the request; the keystore stays.
verify_cape_assets ==
    /\ opening /\ apiRequest.step = "verify_assets"
    /\ reply
    /\ IF assetsFile = "invalid"
       THEN /\ handles' = [handles EXCEPT ![apiRequest.path] = @ - 1]
            /\ UNCHANGED openWallet
       ELSE openWallet' = apiRequest.path /\ UNCHANGED handles
    /\ UNCHANGED <<disk, exported, world, counters>>

-----------------------------------------------------------------------------
(* Requests to the open wallet.                                            *)

handling(kind) == apiRequest.kind = kind /\ apiRequest.step = "handle"

closewallet ==
    /\ handling("closewallet")
    /\ openWallet' = NoWallet
    /\ handles' = closed
    /\ reply
    /\ UNCHANGED <<disk, exported, world, counters>>

\* Endpoints that only read: they fail without a wallet and change nothing.
query ==
    /\ handling("query")
    /\ reply
    /\ UNCHANGED <<openWallet, disk, exported, world, handles, counters>>

\* The assets of the open wallet; without one every endpoint fails.
known_assets == IF openWallet = NoWallet THEN {} ELSE keystores[openWallet].assets

\* external: of an asset it has already the wallet takes the symbol and keeps
\* the secret.
import_asset(info) ==
    LET known == {i \in known_assets : i.code = info.code}
        kept == {i \in known : i.mint_info # "none"}
        merged == IF kept = {} THEN info
                  ELSE [info EXCEPT !.mint_info = (CHOOSE i \in kept : TRUE).mint_info]
    IN  keystores' = [keystores EXCEPT ![openWallet].assets = (@ \ known) \cup {merged}]

\* The asset of a creator, with the secret that allows to mint it.
newasset ==
    /\ handling("newasset")
    /\ IF openWallet = NoWallet THEN UNCHANGED keystores
       ELSE import_asset(AssetInfo(openWallet, keystores[openWallet].mnemonic))
    /\ reply
    /\ UNCHANGED <<openWallet, lastUsed, assetsFile, exported, world, handles, counters>>

\* Mutant: the mint info stays in the exported asset.
withMintInfo(info) == info

withoutMintInfo(info) == [info EXCEPT !.mint_info = "none"]

exportasset ==
    /\ handling("exportasset")
    /\ \/ \E info \in known_assets : exported' = exported \cup {withoutMintInfo(info)}
       \/ known_assets = {} /\ UNCHANGED exported
    /\ reply
    /\ UNCHANGED <<openWallet, disk, world, handles, counters>>

importasset ==
    /\ handling("importasset")
    /\ \/ openWallet # NoWallet /\ \E info \in exported : import_asset(info)
       \/ (openWallet = NoWallet \/ exported = {}) /\ UNCHANGED keystores
    /\ reply
    /\ UNCHANGED <<openWallet, lastUsed, assetsFile, exported, world, handles, counters>>

\* The information of an asset the wallet has, changed and imported again.
updateasset ==
    /\ handling("updateasset")
    /\ \/ \E info \in known_assets : import_asset([info EXCEPT !.symbol = "changed"])
       \/ known_assets = {} /\ UNCHANGED keystores
    /\ reply
    /\ UNCHANGED <<openWallet, lastUsed, assetsFile, exported, world, handles, counters>>

\* The asset has to be in the library of the wallet; then the contract is called.
submitsponsor ==
    /\ handling("submitsponsor")
    /\ IF known_assets = {} THEN reply ELSE step("wait")
    /\ UNCHANGED <<openWallet, disk, exported, world, handles, counters>>

\* external: the transaction is mined and the query service reports it.
reportSponsored ==
    /\ apiRequest.step = "wait"
    /\ eqsUp /\ ~sponsored
    /\ sponsored' = TRUE
    /\ UNCHANGED <<openWallet, apiRequest, disk, exported, contract, eqsUp, handles, counters>>

waitEnds == ~eqsUp \/ sponsored

\* Waits under the locks until the asset is known or the service fails.
waitSponsored ==
    /\ apiRequest.step = "wait"
    /\ waitEnds
    /\ reply
    /\ UNCHANGED <<openWallet, disk, exported, world, handles, counters>>

waitforsponsor ==
    /\ handling("waitforsponsor")
    /\ IF openWallet = NoWallet THEN reply ELSE step("wait")
    /\ UNCHANGED <<openWallet, disk, exported, world, handles, counters>>

timeout ==
    /\ apiRequest.kind = "waitforsponsor" /\ apiRequest.step = "wait"
    /\ reply
    /\ UNCHANGED <<openWallet, disk, exported, world, handles, counters>>

-----------------------------------------------------------------------------
(* Faults.                                                                 *)

fault == faults < MaxFaults /\ faults' = faults + 1

eqsGoesDown ==
    /\ fault
    /\ eqsUp' = ~eqsUp
    /\ UNCHANGED <<openWallet, apiRequest, disk, exported, contract, sponsored, handles, requestCount>>

newContract ==
    /\ fault
    /\ contract' = contract + 1
    /\ UNCHANGED <<openWallet, apiRequest, disk, exported, eqsUp, sponsored, handles, requestCount>>

\* The process is killed and started again.
init_server ==
    /\ fault
    /\ openWallet' = NoWallet
    /\ apiRequest' = Idle
    /\ handles' = [p \in Paths |-> 0]
    /\ UNCHANGED <<disk, exported, world, requestCount>>

Handle ==
    \/ latest_contract \/ closeBeforeOpen \/ write_path \/ loadWallet \/ create \/ verify_cape_assets
    \/ closewallet \/ query \/ newasset \/ exportasset \/ importasset \/ updateasset
    \/ submitsponsor \/ waitSponsored \/ waitforsponsor \/ timeout

ServerNext == dispatch_url \/ Handle \/ reportSponsored \/ eqsGoesDown \/ newContract \/ init_server

ServerSpec == ServerInit /\ [][ServerNext]_serverVars

-----------------------------------------------------------------------------
(* Properties                                                              *)

\* No two wallets use the files of one keystore at the same time, through
\* requests that fail half way: "otherwise we can end up with two wallets
\* using the same file at the same time" (routes.rs, newwallet).
OneWalletPerKeystore == \A p \in Paths : handles[p] <= 1

\* Only the owner of a keystore learns how to mint an asset defined in it, and
\* the owner does not lose it, however the asset is exported, imported, updated
\* and defined again: "Don't export mint info" (routes.rs, exportasset).
MintInfoStaysPrivate ==
    \A p \in Paths : keystores[p].exists =>
        \A info \in keystores[p].assets :
            /\ info.mint_info \in {"none", keystores[p].mnemonic}
            /\ info.code = p => info.mint_info = keystores[p].mnemonic
=============================================================================
