---- MODULE MCRoutes ----
(* The routes of eqs/api/api.toml and wallet/api/api.toml. *)
EXTENDS ApiRoutes, TLC

NoParameters == [p \in {} |-> ""]

Route(paths, types) == [paths |-> paths, types |-> types]

Plain(name) == Route({<<name>>}, NoParameters)

EqsApi ==
    "get_cap_state" :> Plain("get_cap_state")
    @@ "check_nullifier" :> Route({<<"check_nullifier", ":nullifier">>},
                                  ":nullifier" :> "TaggedBase64")
    @@ "get_events_since" :> Route({<<"get_events_since", ":first">>,
                                    <<"get_events_since", ":first", ":max_count">>},
                                   ":first" :> "Integer" @@ ":max_count" :> "Integer")
    @@ "get_transaction" :> Route({<<"get_transaction", ":block_id", ":txn_id">>},
                                  ":block_id" :> "Integer" @@ ":txn_id" :> "Integer")
    @@ "get_transaction_by_hash" :> Route({<<"get_transaction", ":hash">>},
                                          ":hash" :> "TaggedBase64")
    @@ "healthcheck" :> Plain("healthcheck")
    @@ "get_wrapped_erc20_address" :> Route({<<"get_wrapped_erc20_address", ":asset">>},
                                            ":asset" :> "TaggedBase64")
    @@ "get_cape_contract_address" :> Plain("get_cape_contract_address")

Keystores(prefix) == {prefix, prefix \o <<"path", ":path">>, prefix \o <<"name", ":name">>}

KeystoreTypes ==
    ":password" :> "Base64" @@ ":path" :> "Base64" @@ ":name" :> "Base64"
    @@ ":mnemonic" :> "Literal"

Optional(paths, more) == paths \cup {p \o more : p \in paths}

\* The policies of newasset and buildsponsor: a viewing key allows for more.
Policies(paths) ==
    LET frozen == Optional(paths, <<"freezing_key", ":freezing_key">>)
        viewed == {p \o <<"viewing_key", ":viewing_key">> : p \in frozen}
    IN  frozen \cup Optional(Optional(Optional(viewed, <<"view_amount", ":view_amount">>),
                                      <<"view_address", ":view_address">>),
                             <<"viewing_threshold", ":viewing_threshold">>)

PolicyTypes ==
    ":symbol" :> "Base64" @@ ":description" :> "Base64" @@ ":freezing_key" :> "TaggedBase64"
    @@ ":viewing_key" :> "TaggedBase64" @@ ":view_amount" :> "Boolean"
    @@ ":view_address" :> "Boolean" @@ ":viewing_threshold" :> "Integer"

AmountTypes == ":asset" :> "TaggedBase64" @@ ":amount" :> "Integer" @@ ":fee" :> "Integer"

WalletApi ==
    "newwallet" :> Route(Keystores(<<"newwallet", ":mnemonic", ":password">>), KeystoreTypes)
    @@ "openwallet" :> Route(Keystores(<<"openwallet", ":password">>), KeystoreTypes)
    @@ "resetpassword" :> Route(Keystores(<<"resetpassword", ":mnemonic", ":password">>),
                                KeystoreTypes)
    @@ "closewallet" :> Plain("closewallet")
    @@ "getbalance" :> Route({<<"getbalance", "all">>, <<"getbalance", "address", ":address">>,
                              <<"getbalance", "address", ":address", "asset", ":asset">>},
                             ":address" :> "TaggedBase64" @@ ":asset" :> "TaggedBase64")
    @@ "getinfo" :> Route({<<"getinfo">>, <<"getinfo", "address">>, <<"getinfo", "asset">>,
                           <<"getinfo", "asset", ":asset">>, <<"getinfo", "sending_key">>},
                          ":asset" :> "TaggedBase64")
    @@ "newkey" :> Route(UNION {Optional({<<"newkey", k>>}, <<"description", ":description">>) :
                                    k \in {"sending", "viewing", "freezing"}},
                         ":description" :> "Base64")
    @@ "recoverkey" :> Route(UNION {Optional({p}, <<"description", ":description">>) :
                                 p \in {<<"recoverkey", "sending">>,
                                        <<"recoverkey", "sending", ":scan_from">>,
                                        <<"recoverkey", "viewing">>, <<"recoverkey", "freezing">>}},
                             ":description" :> "Base64" @@ ":scan_from" :> "Integer")
    @@ "send" :> Route({<<"send">> \o from \o <<"asset", ":asset", "recipient", ":recipient",
                                                "amount", ":amount", "fee", ":fee">> :
                            from \in {<<>>, <<"sender", ":sender">>}},
                       AmountTypes @@ ":sender" :> "TaggedBase64" @@ ":recipient" :> "TaggedBase64")
    @@ "unwrap" :> Route({<<"unwrap">> \o from \o <<"ethaddress", ":eth_address", "asset", ":asset",
                                                    "amount", ":amount", "fee", ":fee">> :
                            from \in {<<>>, <<"source", ":source">>}},
                         AmountTypes @@ ":source" :> "TaggedBase64" @@ ":eth_address" :> "Literal")
    @@ "newasset" :> Route(Policies(UNION {Optional({p}, <<"description", ":description">>) :
                                        p \in {<<"newasset">>, <<"newasset", "symbol", ":symbol">>}}),
                           PolicyTypes)
    @@ "buildsponsor" :> Route(Policies({<<"buildsponsor">> \o named
                                         \o <<"erc20", ":erc20", "sponsor", ":sponsor">> :
                                   named \in {<<>>, <<"symbol", ":symbol">>,
                                              <<"symbol", ":symbol", "description", ":description">>}}),
                               PolicyTypes @@ ":erc20" :> "Literal" @@ ":sponsor" :> "Literal")
    @@ "view" :> Route({<<"view", ":asset">>, <<"view", "key", ":key">>},
                       ":asset" :> "TaggedBase64" @@ ":key" :> "TaggedBase64")
    @@ "transactionhistory" :> Route({<<"transactionhistory">>,
                                      <<"transactionhistory", "from", ":from">>,
                                      <<"transactionhistory", "from", ":from", "count", ":count">>},
                                     ":from" :> "Integer" @@ ":count" :> "Integer")

MCApi == [eqs |-> EqsApi, wallet |-> WalletApi]

EqsReads ==
    "check_nullifier" :> (":nullifier" :> "to")
    @@ "get_events_since" :> (":first" :> "as_u64" @@ ":max_count" :> "as_u64")
    @@ "get_transaction" :> (":block_id" :> "as_u64" @@ ":txn_id" :> "as_u64")
    @@ "get_transaction_by_hash" :> (":hash" :> "to")
    @@ "get_wrapped_erc20_address" :> (":asset" :> "to")
    @@ [r \in {"get_cap_state", "healthcheck", "get_cape_contract_address"} |-> NoParameters]

KeystoreReads ==
    ":path" :> "as_path" @@ ":name" :> "as_string" @@ ":mnemonic" :> "as_string"
    @@ ":password" :> "as_string"

PolicyReads ==
    ":symbol" :> "as_string" @@ ":freezing_key" :> "to" @@ ":viewing_key" :> "to"
    @@ ":view_amount" :> "as_boolean" @@ ":view_address" :> "as_boolean"
    @@ ":viewing_threshold" :> "as_u128"

AmountReads == ":asset" :> "to" @@ ":amount" :> "as_u128" @@ ":fee" :> "as_u128"

WalletReads ==
    [r \in {"newwallet", "openwallet", "resetpassword"} |-> KeystoreReads]
    @@ "getbalance" :> (":address" :> "to" @@ ":asset" :> "to")
    @@ "newkey" :> (":description" :> "as_string")
    @@ "recoverkey" :> (":description" :> "as_string" @@ ":scan_from" :> "as_usize")
    @@ "send" :> (AmountReads @@ ":sender" :> "to" @@ ":recipient" :> "to")
    @@ "unwrap" :> (AmountReads @@ ":source" :> "to" @@ ":eth_address" :> "as_string")
    @@ "newasset" :> (PolicyReads @@ ":description" :> "as_base64")
    @@ "buildsponsor" :> (PolicyReads @@ ":description" :> "as_string" @@ ":erc20" :> "as_string")
    @@ "transactionhistory" :> (":from" :> "as_usize" @@ ":count" :> "as_usize")
    @@ [r \in {"closewallet", "getinfo", "view"} |-> NoParameters]

MCReads == [eqs |-> EqsReads, wallet |-> WalletReads]

\* Indexed by the handlers; the others are looked for.
Looked == {":path", ":name", ":max_count", ":first", ":description", ":scan_from", ":sender",
           ":source", ":from", ":count", ":address"}

MCRequired ==
    [s \in {"eqs", "wallet"} |-> [r \in DOMAIN MCApi[s] |->
        CASE r = "openwallet" -> {":password"}
          [] r = "getbalance" -> {}
          [] r = "newasset" -> {}
          [] r = "buildsponsor" -> {":erc20"}
          [] OTHER -> DOMAIN MCReads[s][r] \ Looked]]
====
