----------------------------- MODULE CapeTypes -----------------------------
(***************************************************************************)
(* The representations of assets, openings and notes, and the conversions  *)
(* between them: the types of the CAP library (jf), of the contract        *)
(* (sol, contracts/rust/src/types.rs), of MetaMask's JSON (json) and of    *)
(* the wallet's interface (ui, both in wallet/src/ui.rs).  A value goes    *)
(* through any chain of conversions, as between the parts of the system    *)
(* that hand it on.                                                        *)
(***************************************************************************)
EXTENDS Naturals, Sequences, FiniteSets

CONSTANTS
    P,              \* modulus of the field; U256 values are below MaxU256
    MaxU256,
    RevealMapLen,   \* REVEAL_MAP_INTERNAL_LEN; positions 1-2 address, 3 amount, 4 blind
    GateWidth,      \* GATE_WIDTH
    Amounts

ASSUME CapeTypesAssumption ==
    /\ P \in Nat /\ MaxU256 \in Nat /\ P > 5 /\ P < MaxU256
    /\ RevealMapLen \in Nat /\ RevealMapLen >= 4
    /\ GateWidth \in Nat
    /\ Amounts \subseteq 0..(MaxU256 - 1)

VARIABLES
    kind,           \* "asset", "opening", "note" or another kind of value
    original,       \* the value at the start, in the types of the CAP library
    asked,          \* what the user asked for, when an asset is created
    value           \* the value, under the name of the representation it is in

typeVars == <<kind, original, asked, value>>

-----------------------------------------------------------------------------
(* Numbers, points and strings.                                            *)

field_to_u256(f) == f

u256_to_field(v) == v % P

\* CanonicalDeserialize, of nullifiers, commitments, roots and codes.
deserialize(v) == IF v < P THEN v ELSE "panic"

pointToSol(p) == [x |-> field_to_u256(p[1]), y |-> field_to_u256(p[2])]

pointFromSol(s) == <<u256_to_field(s.x), u256_to_field(s.y)>>

NoKey == <<0, 1>>                   \* the default key, the neutral point

\* A number as text: base 16 for U256 and addresses, base 10 for amounts and
\* thresholds.  Read in another base it is another number.
text(base, n) == [base |-> base, number |-> n]

read(base, t) == IF t.base = base THEN t.number ELSE "misread"

hex(n) == text(16, n)

parseHex(t) == read(16, t)

decimal(n) == text(10, n)

parseDecimal(t) == read(10, t)

-----------------------------------------------------------------------------
(* Asset policies.  The reveal map is a number to the contract, its first  *)
(* bit the most significant.                                               *)

bitsToNumber(bits) ==
    LET v[i \in 0..Len(bits)] ==
          IF i = 0 THEN 0 ELSE 2 * v[i - 1] + (IF bits[i] THEN 1 ELSE 0)
    IN v[Len(bits)]

bitOf(n, i) == (n \div 2^i) % 2 = 1

\* Mutant: the least significant bit comes first.
leastBitFirst(m) ==
    IF m >= 2^RevealMapLen THEN "panic" ELSE [i \in 1..RevealMapLen |-> bitOf(m, i - 1)]

revealMapFromSol(m) ==
    IF m >= 2^RevealMapLen THEN "panic"
    ELSE [i \in 1..RevealMapLen |-> bitOf(m, RevealMapLen - i)]

policyToSol(p) ==
    [auditor_pk |-> pointToSol(p.auditor), cred_pk |-> pointToSol(p.cred),
     freezer_pk |-> pointToSol(p.freezer), reveal_map |-> bitsToNumber(p.reveal_map),
     reveal_threshold |-> p.reveal_threshold]

policyFromSol(s) ==
    [auditor |-> pointFromSol(s.auditor_pk), cred |-> pointFromSol(s.cred_pk),
     freezer |-> pointFromSol(s.freezer_pk), reveal_map |-> revealMapFromSol(s.reveal_map),
     reveal_threshold |-> s.reveal_threshold]

DefaultPolicy ==
    [auditor |-> NoKey, cred |-> NoKey, freezer |-> NoKey,
     reveal_map |-> [i \in 1..RevealMapLen |-> FALSE], reveal_threshold |-> 0]

NativeCode == 1

NativeAsset == [code |-> NativeCode, policy |-> DefaultPolicy]

assetToSol(a) == [code |-> field_to_u256(a.code), policy |-> policyToSol(a.policy)]

assetFromSol(s) ==
    IF deserialize(s.code) = NativeCode THEN NativeAsset
    ELSE [code |-> deserialize(s.code), policy |-> policyFromSol(s.policy)]

pointToJson(s) == [x |-> hex(s.x), y |-> hex(s.y)]

pointFromJson(j) == [x |-> parseHex(j.x), y |-> parseHex(j.y)]

assetToJson(s) ==
    [code |-> hex(s.code),
     policy |-> [auditor_pk |-> pointToJson(s.policy.auditor_pk),
                 cred_pk |-> pointToJson(s.policy.cred_pk),
                 freezer_pk |-> pointToJson(s.policy.freezer_pk),
                 reveal_map |-> hex(s.policy.reveal_map),
                 reveal_threshold |-> decimal(s.policy.reveal_threshold)]]

assetFromJson(j) ==
    [code |-> parseHex(j.code),
     policy |-> [auditor_pk |-> pointFromJson(j.policy.auditor_pk),
                 cred_pk |-> pointFromJson(j.policy.cred_pk),
                 freezer_pk |-> pointFromJson(j.policy.freezer_pk),
                 reveal_map |-> parseHex(j.policy.reveal_map),
                 reveal_threshold |-> parseDecimal(j.policy.reveal_threshold)]]

-----------------------------------------------------------------------------
(* The interface's asset definition: keys only when they are set.          *)

None == {}

reveals(p, positions) == \A i \in positions : p.reveal_map[i]

assetToUi(a) ==
    [code |-> a.code,
     freezing_key |-> IF a.policy.freezer # NoKey THEN {a.policy.freezer} ELSE None,
     viewing_key |-> IF a.policy.auditor # NoKey THEN {a.policy.auditor} ELSE None,
     address_viewable |-> reveals(a.policy, {1, 2}),
     amount_viewable |-> reveals(a.policy, {3}),
     blind_viewable |-> reveals(a.policy, {4}),
     viewing_threshold |-> decimal(a.policy.reveal_threshold)]

only(option, default) == IF option = None THEN default ELSE CHOOSE k \in option : TRUE

revealed(address, amount, blind) ==
    [i \in 1..RevealMapLen |->
        \/ i \in {1, 2} /\ address
        \/ i = 3 /\ amount
        \/ i = 4 /\ blind]

\* Without a viewing key nothing is revealed and the threshold is not read.
policyFromUi(u) ==
    [DefaultPolicy EXCEPT
        !.freezer = only(u.freezing_key, NoKey),
        !.auditor = only(u.viewing_key, NoKey),
        !.reveal_map = IF u.viewing_key = None THEN @
                       ELSE revealed(u.address_viewable, u.amount_viewable, u.blind_viewable),
        !.reveal_threshold = IF u.viewing_key = None THEN @
                             ELSE parseDecimal(u.viewing_threshold)]

assetFromUi(u) ==
    IF u.code = NativeCode THEN NativeAsset ELSE [code |-> u.code, policy |-> policyFromUi(u)]

(***************************************************************************)
(* The command line's form of a definition, AssetDefinition::from_str:     *)
(* key-value pairs, "in any order, or not at all".                         *)
(***************************************************************************)
from_str(kvs) ==
    LET given(key) == {i \in DOMAIN kvs : kvs[i].key = key}
        field(key, default) ==
            IF given(key) = {} THEN default
            ELSE kvs[CHOOSE i \in given(key) : \A j \in given(key) : j <= i].value
    IN  [code |-> field("code", "must specify code"),
         freezing_key |-> field("freezing_key", None),
         viewing_key |-> field("viewing_key", None),
         address_viewable |-> field("address_viewable", FALSE),
         amount_viewable |-> field("amount_viewable", FALSE),
         blind_viewable |-> field("blind_viewable", FALSE),
         viewing_threshold |-> field("viewing_threshold", decimal(0))]

-----------------------------------------------------------------------------
(* What the interface shows of the assets and transactions of a wallet.    *)

\* external: the token of a wrapped asset, by the wallet.
wrapped_erc20(asset) == IF asset.code = NativeCode THEN None ELSE {hex(asset.code)}

infoToUi(i) ==
    [definition |-> assetToUi(i.definition), mint_info |-> i.mint_info,
     verified |-> i.verified, symbol |-> i.name, description |-> i.description, icon |-> i.icon,
     wrapped_erc20 |-> wrapped_erc20(i.definition)]

\* The wallet makes up its own mind on what is verified.
infoFromUi(u) ==
    [definition |-> assetFromUi(u.definition), mint_info |-> u.mint_info,
     verified |-> FALSE, name |-> u.symbol, description |-> u.description, icon |-> u.icon]

\* The kind a wallet gives to a transition it did not build.
transitionKind(t) ==
    CASE t = "transfer" -> "Send"
      [] t = "mint" -> "Mint"
      [] t = "freeze" -> "Freeze"
      [] t = "burn" -> "Burn"
      [] t = "wrap" -> "Wrap"
      [] t = "faucet" -> "Faucet"

shownKind(k) == IF k = "Burn" THEN "unwrap" ELSE k

\* A transaction without a receipt was received, and is on the ledger.
entryToUi(e) ==
    [kind |-> shownKind(e.kind),
     receivers |-> [i \in DOMAIN e.receivers |->
                      [e.receivers[i] EXCEPT !.amount = decimal(@)]],
     fee_change |-> {decimal(amount) : amount \in e.fee_change},
     asset_change |-> {decimal(amount) : amount \in e.asset_change},
     status |-> only(e.receipt, "accepted")]

-----------------------------------------------------------------------------
(* Record openings.                                                        *)

openingToSol(r) ==
    [amount |-> r.amount, asset_def |-> assetToSol(r.asset_def),
     user_addr |-> pointToSol(r.address), enc_key |-> r.enc_key,
     freeze_flag |-> r.freeze_flag = "Frozen", blind |-> field_to_u256(r.blind)]

openingFromSol(s) ==
    [amount |-> s.amount, asset_def |-> assetFromSol(s.asset_def),
     address |-> pointFromSol(s.user_addr), enc_key |-> s.enc_key,
     freeze_flag |-> IF s.freeze_flag THEN "Frozen" ELSE "Unfrozen",
     blind |-> deserialize(s.blind)]

openingToJson(s) ==
    [amount |-> decimal(s.amount), asset_def |-> assetToJson(s.asset_def),
     user_addr |-> pointToJson(s.user_addr), enc_key |-> s.enc_key,
     freeze_flag |-> s.freeze_flag, blind |-> hex(s.blind)]

openingFromJson(j) ==
    [amount |-> parseDecimal(j.amount), asset_def |-> assetFromJson(j.asset_def),
     user_addr |-> pointFromJson(j.user_addr), enc_key |-> j.enc_key,
     freeze_flag |-> j.freeze_flag, blind |-> parseHex(j.blind)]

-----------------------------------------------------------------------------
(* Notes.  The contract's proof lists the points in another order than the *)
(* prover's: the permutation product before the split quotients.           *)

Wires == GateWidth + 1
NumG1Point == 2 * Wires + 3
NumEval == 2 * Wires
TurboPlonkLen == 2 * NumG1Point + NumEval

pointAt(fields, i) == [x |-> field_to_u256(fields[2*i - 1]), y |-> field_to_u256(fields[2*i])]

pointsFrom(fields, first, n) == [i \in 1..n |-> pointAt(fields, first + i - 1)]

evalsFrom(fields, first, n) ==
    [i \in 1..n |-> field_to_u256(fields[2 * NumG1Point + first + i - 1])]

proofToSol(fields) ==
    [wire |-> pointsFrom(fields, 1, Wires),
     prod_perm |-> pointAt(fields, 2 * Wires + 1),
     split |-> pointsFrom(fields, Wires + 1, Wires),
     zeta |-> pointAt(fields, 2 * Wires + 2),
     zeta_omega |-> pointAt(fields, 2 * Wires + 3),
     wire_eval |-> evalsFrom(fields, 1, Wires),
     sigma_eval |-> evalsFrom(fields, Wires + 1, Wires - 1),
     prod_perm_zeta_omega_eval |-> field_to_u256(fields[TurboPlonkLen])]

\* (0, 0) is the point at infinity to the contract, (0, 1) to the CAP library.
\* A proof's points are written as they are, without this.
g1PointToSol(p) ==
    IF p = <<0, 1>> THEN [x |-> 0, y |-> 0]
    ELSE [x |-> field_to_u256(p[1]), y |-> field_to_u256(p[2])]

g1_point_to_fields(p) ==
    IF p.x = 0 /\ p.y = 0 THEN <<0, 1>> ELSE <<u256_to_field(p.x), u256_to_field(p.y)>>

concat(ss) ==
    LET c[i \in 0..Len(ss)] == IF i = 0 THEN <<>> ELSE c[i - 1] \o ss[i]
    IN c[Len(ss)]

pointFields(ps) == concat([i \in DOMAIN ps |-> g1_point_to_fields(ps[i])])

evalFields(es) == [i \in DOMAIN es |-> u256_to_field(es[i])]

proverOrder(s) ==
    pointFields(s.wire) \o pointFields(s.split) \o g1_point_to_fields(s.prod_perm)

proofFromSol(s) ==
    proverOrder(s) \o g1_point_to_fields(s.zeta) \o g1_point_to_fields(s.zeta_omega)
    \o evalFields(s.wire_eval) \o evalFields(s.sigma_eval)
    \o <<u256_to_field(s.prod_perm_zeta_omega_eval)>>

memoToSol(scalars) ==
    [ephemeral_key |-> pointToSol(<<scalars[1], scalars[2]>>),
     data |-> evalFields(SubSeq(scalars, 3, Len(scalars)))]

memoFromSol(s) == pointFromSol(s.ephemeral_key) \o evalFields(s.data)

each(Op(_), s) == [i \in DOMAIN s |-> Op(s[i])]

\* valid_until and extra_proof_bound_data only in transfers.
auxToSol(a) ==
    [merkle_root |-> field_to_u256(a.merkle_root), fee |-> a.fee,
     txn_memo_ver_key |-> pointToSol(a.txn_memo_ver_key), bound |-> a.bound]

auxFromSol(s) ==
    [merkle_root |-> deserialize(s.merkle_root), fee |-> s.fee,
     txn_memo_ver_key |-> pointFromSol(s.txn_memo_ver_key), bound |-> s.bound]

mintToSol(m) ==
    [amount |-> m.amount, asset_def |-> assetToSol(m.asset_def),
     internal_asset_code |-> field_to_u256(m.internal_asset_code)]

mintFromSol(s) ==
    [amount |-> s.amount, asset_def |-> assetFromSol(s.asset_def),
     internal_asset_code |-> deserialize(s.internal_asset_code)]

\* A mint has one nullifier, the change and the minted commitment, and the
\* asset it mints; a freeze has no memo.
noteToSol(n) ==
    [type |-> n.type, proof |-> proofToSol(n.proof), aux_info |-> auxToSol(n.aux_info),
     input_nullifiers |-> each(field_to_u256, n.input_nullifiers),
     output_commitments |-> each(field_to_u256, n.output_commitments),
     audit_memo |-> IF n.type = "freeze" THEN None ELSE memoToSol(n.audit_memo),
     mint |-> IF n.type = "mint" THEN mintToSol(n.mint) ELSE None]

noteFromSol(s) ==
    [type |-> s.type, proof |-> proofFromSol(s.proof), aux_info |-> auxFromSol(s.aux_info),
     input_nullifiers |-> each(deserialize, s.input_nullifiers),
     output_commitments |-> each(deserialize, s.output_commitments),
     audit_memo |-> IF s.type = "freeze" THEN None ELSE memoFromSol(s.audit_memo),
     mint |-> IF s.type = "mint" THEN mintFromSol(s.mint) ELSE None]

-----------------------------------------------------------------------------
(* Verifying keys, one way, and the challenges of the verifier.            *)

NumSelectors == 13

\* The domain's size, the number of inputs, sigmas, selectors; the rest of the
\* key is not for the contract.
verifyingKeyToSol(vk) ==
    LET s == vk.scalars
        point(i) == g1PointToSol(<<s[2 * i + 1], s[2 * i + 2]>>) IN
    [domain_size |-> field_to_u256(s[1]), num_inputs |-> field_to_u256(s[2]),
     sigmas |-> [i \in 1..Wires |-> point(i)],
     selectors |-> [i \in 1..NumSelectors |-> point(Wires + i)]]

\* The contract is given the powers of alpha.
challengesToSol(c) ==
    [alpha |-> field_to_u256(c.alpha), alpha_2 |-> (c.alpha * c.alpha) % P,
     alpha_3 |-> (c.alpha * c.alpha * c.alpha) % P, beta |-> field_to_u256(c.beta),
     gamma |-> field_to_u256(c.gamma), zeta |-> field_to_u256(c.zeta),
     v |-> field_to_u256(c.v), u |-> field_to_u256(c.u)]

challengesFromSol(s) ==
    [tau |-> 0, alpha |-> u256_to_field(s.alpha), beta |-> u256_to_field(s.beta),
     gamma |-> u256_to_field(s.gamma), zeta |-> u256_to_field(s.zeta),
     v |-> u256_to_field(s.v), u |-> u256_to_field(s.u)]

-----------------------------------------------------------------------------
(* Where values come from.                                                 *)

Keys == {NoKey, <<2, P - 1>>}

Requests ==
    [by : {"route", "cli"}, viewer : Keys, freezer : Keys, amount : BOOLEAN,
     address : BOOLEAN, blind : BOOLEAN, threshold : Amounts]

\* newasset and buildsponsor read the flags and the threshold only with a
\* viewing key and then always reveal the blinding factor; the command line
\* sets the threshold in any case, and refuses to reveal to nobody.
policyFor(r) ==
    LET viewed == r.by = "cli" \/ r.viewer # NoKey IN
    [DefaultPolicy EXCEPT
        !.auditor = r.viewer, !.freezer = r.freezer,
        !.reveal_map = revealed(viewed /\ r.address, viewed /\ r.amount,
                                viewed /\ (r.blind \/ r.by = "route")),
        !.reveal_threshold = IF viewed THEN r.threshold ELSE @]

accepted(r) ==
    r.by = "cli" /\ r.viewer = NoKey => ~(r.amount \/ r.address \/ r.blind)

SomeAsset == [code |-> 3, policy |-> [DefaultPolicy EXCEPT !.auditor = <<2, P - 1>>,
                 !.reveal_map[3] = TRUE, !.reveal_threshold = 1]]

Openings ==
    [amount : Amounts, asset_def : {NativeAsset, SomeAsset}, address : Keys,
     enc_key : {"key"}, freeze_flag : {"Frozen", "Unfrozen"}, blind : {0, P - 1}]

\* The proof's points and evaluations are told apart by their coordinates; the
\* point at infinity may be among them.
proofWith(infinity) ==
    [i \in 1..TurboPlonkLen |->
        IF infinity = (i + 1) \div 2 THEN (IF i % 2 = 1 THEN 0 ELSE 1) ELSE 1 + (i % (P - 1))]

Notes ==
    [type : {"transfer", "mint", "freeze"},
     proof : {proofWith(i) : i \in 0..NumG1Point},
     input_nullifiers : {<<P - 1>>, <<4, 5>>}, output_commitments : {<<4, 0>>},
     audit_memo : {<<2, 3, 4, 5>>},
     mint : [amount : {9}, asset_def : {SomeAsset}, internal_asset_code : {5}],
     aux_info : [merkle_root : {4}, fee : Amounts, txn_memo_ver_key : Keys,
                 bound : {"until and bound data"}]]

fieldsOf(n) ==
    [n EXCEPT !.audit_memo = IF n.type = "freeze" THEN None ELSE @,
              !.mint = IF n.type = "mint" THEN @ ELSE None]

Infos ==
    [definition : {NativeAsset, SomeAsset}, mint_info : {None, {"seed"}}, verified : BOOLEAN,
     name : {None, {"name"}}, description : {None}, icon : {None, {"png"}}]

HistoryEntries ==
    [kind : {transitionKind(t) : t \in {"transfer", "mint", "freeze", "burn", "wrap", "faucet"}}
              \cup {"Receive", "Unfreeze", "Unknown"},
     receivers : {<<[address |-> NoKey, amount |-> a]>> : a \in Amounts},
     fee_change : {None} \cup {{a} : a \in Amounts}, asset_change : {None, {0}},
     receipt : {None, {"pending"}, {"rejected"}}]

\* The scalars of a verifying key, with or without the point at infinity.
VerifyingKeys ==
    {[scalars |-> [i \in 1..(2 + 2 * (Wires + NumSelectors)) |->
                     IF infinity = (i - 1) \div 2 THEN 1 - (i % 2) ELSE 1 + (i % (P - 1))]] :
       infinity \in 0..(Wires + NumSelectors)}

Challenges ==
    [tau : {0}, alpha : {2, P - 1}, beta : {3}, gamma : {4}, zeta : {5}, v : {6}, u : {0, 7}]

\* What a user may type for an asset: the fields that are not the default, in
\* some order.
typed(a) ==
    {"code"} \cup {f \in DOMAIN assetToUi(a) \ {"code"} : assetToUi(a)[f] # from_str(<<>>)[f]}

orders(fields) ==
    {t \in [1..Cardinality(fields) -> fields] : \A i, j \in DOMAIN t : t[i] = t[j] => i = j}

pairs(a, order) ==
    [i \in DOMAIN order |-> [key |-> order[i], value |-> assetToUi(a)[order[i]]]]

NotAsked == [by |-> "none"]

TypesInit ==
    /\ \/ \E r \in Requests :
             /\ accepted(r)
             /\ kind = "asset" /\ asked = r
             /\ original = [code |-> 3, policy |-> policyFor(r)]
       \/ kind = "asset" /\ asked = NotAsked /\ original = NativeAsset
       \/ kind = "opening" /\ asked = NotAsked /\ original \in Openings
       \/ kind = "note" /\ asked = NotAsked /\ original \in {fieldsOf(n) : n \in Notes}
       \/ kind = "info" /\ asked = NotAsked /\ original \in Infos
       \/ kind = "history" /\ asked = NotAsked /\ original \in HistoryEntries
       \/ kind = "key" /\ asked = NotAsked /\ original \in VerifyingKeys
       \/ kind = "challenges" /\ asked = NotAsked /\ original \in Challenges
       \/ kind = "asset" /\ asked = NotAsked /\ original = SomeAsset
    /\ \/ value = [jf |-> original]
       \/ /\ kind = "asset" /\ original = SomeAsset
          /\ \E order \in orders(typed(original)) : value = [text |-> pairs(original, order)]

-----------------------------------------------------------------------------
convert(k, from, to, Op(_)) ==
    /\ kind = k /\ from \in DOMAIN value
    /\ value' = [r \in {to} |-> Op(value[from])]
    /\ UNCHANGED <<kind, original, asked>>

AssetConversion ==
    \/ convert("asset", "jf", "sol", assetToSol)
    \/ convert("asset", "sol", "jf", assetFromSol)
    \/ convert("asset", "sol", "json", assetToJson)
    \/ convert("asset", "json", "sol", assetFromJson)
    \/ convert("asset", "jf", "ui", assetToUi)
    \/ convert("asset", "ui", "jf", assetFromUi)
    \/ convert("asset", "text", "ui", from_str)

OpeningConversion ==
    \/ convert("opening", "jf", "sol", openingToSol)
    \/ convert("opening", "sol", "jf", openingFromSol)
    \/ convert("opening", "sol", "json", openingToJson)
    \/ convert("opening", "json", "sol", openingFromJson)

NoteConversion ==
    \/ convert("note", "jf", "sol", noteToSol)
    \/ convert("note", "sol", "jf", noteFromSol)

VerifierConversion ==
    \/ convert("key", "jf", "sol", verifyingKeyToSol)
    \/ convert("challenges", "jf", "sol", challengesToSol)
    \/ convert("challenges", "sol", "jf", challengesFromSol)

WalletConversion ==
    \/ convert("info", "jf", "ui", infoToUi)
    \/ convert("info", "ui", "jf", infoFromUi)
    \/ convert("history", "jf", "ui", entryToUi)

TypesNext ==
    \/ AssetConversion \/ OpeningConversion \/ NoteConversion \/ VerifierConversion
    \/ WalletConversion

TypesSpec == TypesInit /\ [][TypesNext]_typeVars

-----------------------------------------------------------------------------
\* A policy sets a threshold only for a viewer.
viewerForThreshold(p) == p.auditor = NoKey => p.reveal_threshold = 0

\* The interface shows the policy the user asked for when the asset was created
\* by the wallet server or the command line, whatever conversions are in between.
PolicyAsAsked ==
    "ui" \in DOMAIN value /\ asked # NotAsked =>
        /\ only(value.ui.viewing_key, NoKey) = asked.viewer
        /\ only(value.ui.freezing_key, NoKey) = asked.freezer
        /\ asked.viewer # NoKey =>
              /\ value.ui.amount_viewable = asked.amount
              /\ value.ui.address_viewable = asked.address
              /\ parseDecimal(value.ui.viewing_threshold) = asked.threshold
        /\ asked.viewer = NoKey =>
              ~(value.ui.amount_viewable \/ value.ui.address_viewable \/ value.ui.blind_viewable)

\* The contract's verifying key has the scalars of the prover's, at their places.
KeyScalarsKept ==
    kind = "key" /\ "sol" \in DOMAIN value =>
        <<value.sol.domain_size, value.sol.num_inputs>> \o pointFields(value.sol.sigmas)
          \o pointFields(value.sol.selectors) = original.scalars

\* The history shows the amounts of a transaction, and tells a change that is
\* unknown from no change ("None indicates that the amount of change is unknown,
\* not that there is no change", TransactionHistoryEntry); what goes through the
\* interface comes back as it was, except that nothing becomes verified.
ShownAsRecorded ==
    /\ kind = "history" /\ "ui" \in DOMAIN value =>
          /\ {parseDecimal(d) : d \in value.ui.fee_change} = original.fee_change
          /\ {parseDecimal(d) : d \in value.ui.asset_change} = original.asset_change
          /\ \A i \in DOMAIN original.receivers :
                parseDecimal(value.ui.receivers[i].amount) = original.receivers[i].amount
    /\ kind = "info" /\ "jf" \in DOMAIN value =>
          value.jf \in {original, [original EXCEPT !.verified = FALSE]}

\* An asset, an opening or a note is the same after any chain of conversions
\* that leads back to the CAP library's types: through the contract's types
\* (numbers below the field's modulus, the reveal map as a number, the proof in
\* the contract's order with the point at infinity among its points), MetaMask's
\* JSON and, for a policy with a viewer for its threshold, the interface's types
\* and the command line's text with its fields in any order; the interface shows
\* the policy that was asked for, and the assets and amounts of a wallet as it
\* has them, and a verifying key keeps its scalars.
ConversionsKeepValues ==
    /\ /\ "jf" \in DOMAIN value /\ kind # "info"
       /\ kind = "asset" => viewerForThreshold(original.policy)
       => value.jf = original
    /\ PolicyAsAsked
    /\ KeyScalarsKept
    /\ ShownAsRecorded
=============================================================================
