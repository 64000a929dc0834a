---------------------------- MODULE MCOperations ----------------------------
(***************************************************************************)
(* The calls TLC checks.                                                    *)
(***************************************************************************)
EXTENDS Operations

SeqUpTo(S, n) == UNION {[1..m -> S] : m \in 0..n}

-----------------------------------------------------------------------------
\* Payments: two token accounts of the shop, one of another mint, a customer with both.
MCTokenAccount == {"shop1", "shop2", "shopFake", "payer", "payerFake"}
MCOwnerOf == [a \in MCTokenAccount |-> IF a \in {"payer", "payerFake"} THEN "customer" ELSE "shop"]
MCMintOf == [a \in MCTokenAccount |-> IF a \in {"shopFake", "payerFake"} THEN "fake" ELSE "usdc"]

Verify == [op : {"payments_verify_transfer"}, amount : {1, 2}, floor : {"confirmed", "safe", "finalized"}]

Logs(amounts) == [kind : {"erc20", "other"}, asset : {"usdc", "fake"}, from : {"shop", "customer"},
                  to : {"shop", "customer"}, amount : amounts]
NotMined == [family : {"evm", "solana"}, seen : {"nowhere", "mempool"}]
EvmMined(ok, logs, scales) ==
  [family : {"evm"}, seen : {"mined"}, ok : ok, logs : logs, scale : scales, fee : [usdc : 0..1, fake : {0}],
   finality : {"confirmed", "safe", "finalized"}]
Scale == [usdc : {"registry", "otherwise", "unanswered"}, fake : {"otherwise", "unanswered"}]

Before == [shop1 |-> 1, shop2 |-> 0, shopFake |-> 0, payer |-> 2, payerFake |-> 1]
TokenMoves == {[source |-> s, destination |-> d, amount |-> n] :
            s \in MCTokenAccount, d \in MCTokenAccount, n \in 1..2}
Executable(ixs) ==
  /\ \A i \in DOMAIN ixs : ixs[i].source # ixs[i].destination
                           /\ MCMintOf[ixs[i].source] = MCMintOf[ixs[i].destination]
  /\ \A n \in DOMAIN ixs : 
       LET first == [before |-> Before, ixs |-> SubSeq(ixs, 1, n), fee |-> [usdc |-> 0, fake |-> 0]]
       IN \A a \in MCTokenAccount : Balance(first, a) >= 0
SolanaMined ==
  [family : {"solana"}, seen : {"mined"}, ok : BOOLEAN, hidden : BOOLEAN, tip : 0..1,
   finality : {"pending", "confirmed", "finalized"}, before : {Before},
   fee : [usdc : 0..1, fake : {0}], ixs : {s \in SeqUpTo(TokenMoves, 2) : Executable(s)}]

MCPaymentCases ==
  [request : Verify,
   world : NotMined \cup EvmMined({TRUE}, SeqUpTo(Logs(1..2), 2), [usdc : {"registry"}, fake : {"otherwise"}])
           \cup EvmMined({TRUE}, SeqUpTo(Logs(0..2), 1), Scale) \cup EvmMined({FALSE}, {<<>>}, Scale) \cup SolanaMined]
-----------------------------------------------------------------------------
\* A transaction that has just been sent.
MCStatusCases ==
  [request : [op : {"tx_get", "tx_status"}, hash : {"valid"}, expiry : {"given", "omitted"}]
             \cup [op : {"tx_get"}, hash : {"malformed"}, expiry : {"omitted"}],
   world : [family : {"evm"}, policy : {"finalized", "none"}, height : 1..2, lastValid : {0},
            place : {0}, ok : {FALSE}, moves : {0}]
           \cup [family : {"solana"}, policy : {"finalized", "confirmed"}, height : 1..2,
                 lastValid : 1..3, place : {0}, ok : {FALSE}, moves : {0}]]
-----------------------------------------------------------------------------
\* Transfers to another wallet and to oneself; broadcasts with and without relays.
MCSendCases ==
  [request : [op : {"tx_build_transfer"}, family : {"evm", "solana"}, to : {"from", "to"},
              asset : {"native", "token", "of the other family"}, amount : 0..3,
              memo : {"none", "short", "too long"}, create : BOOLEAN],
   world : [recipient : {"wallet", "token account"}, account : BOOLEAN, funds : 1..2,
            readable : BOOLEAN, gas : {0, PlainGas, PlainGas + 1},
            methods : {<<"works">>, <<"unavailable", "unavailable", "works">>,
                       <<"unavailable", "limited", "works">>}]]
  \cup
  [request : [op : {"tx_broadcast"}, private : BOOLEAN, payload : {"signed", "unsigned", "secret"},
              ixs : SeqUpTo([to : {"tip account", "someone"}, lamports : 1..2], 2)],
   world : [sent : {{}},
            vendors : SUBSET {[name |-> "node", relay |-> FALSE, alive |-> TRUE, tipped |-> FALSE,
                               minTip |-> 0, hash |-> "other"],
                              [name |-> "dead", relay |-> FALSE, alive |-> FALSE, tipped |-> FALSE,
                               minTip |-> 0, hash |-> "local"],
                              [name |-> "jito", relay |-> TRUE, alive |-> TRUE, tipped |-> TRUE,
                               minTip |-> 2, hash |-> "local"]}]]
-----------------------------------------------------------------------------
\* Walks over four blocks, to which one may be added.
MCGrown == {<<"in">>, <<"self", "out">>}
EvmBlocks == {<<<<"in">>, <<"in", "self">>, <<>>, <<"in", "fake">>>>,
              <<<<"self">>, <<"fake">>, <<"in", "in">>, <<"out">>>>}
SolanaBlocks == {<<<<"in">>, <<"out">>, <<"in">>, <<"failed">>>>,
                 <<<<"fake">>, <<"in", "in">>, <<"self">>, <<"in">>>>}
Questions == [op : {"payments_list_deposits"}, from : {1, 2}, to : {9}, limit : {1, 2}]
             \cup [op : {"wallet_get_transfers"}, direction : {"in", "both"}, assets : BOOLEAN,
                   from : {1}, to : {3, 9}, limit : {1, 2}]
MCHistoryCases ==
  [request : Questions,
   world : [family : {"evm"}, blocks : EvmBlocks, known : {TRUE}, maxRange : {2}, maxLogs : {9},
            vendors : {{"a", "b"}}]
           \cup [family : {"evm"}, blocks : EvmBlocks, known : {FALSE}, maxRange : {2, 9}, maxLogs : {1, 3},
                 vendors : {{"a"}}]
           \cup [family : {"solana"}, blocks : SolanaBlocks, vendors : {{"a", "b"}}]]
-----------------------------------------------------------------------------
\* Two tokens with controls, of which the address may be frozen at either.
IssuerState == [frozen : SUBSET {"usdc", "usdt"}, paused : {{}, {"usdc"}}, deprecated : {{"usdt"}},
                accounts : {{}, {"usdc"}, {"usdc", "usdt"}}, bornFrozen : {{}, {"usdt"}}]
MCIssuerStates == {s \in IssuerState : s.accounts = {"usdc", "usdt"} /\ s.bornFrozen = {}}
Usdc == [name |-> "usdc", controls |-> <<"frozen", "paused">>]
Usdt == [name |-> "usdt", controls |-> <<"frozen", "deprecated">>]
MCIssuerCases ==
  [request : [op : {"stablecoin_check_restrictions"}, token : {"all", "one", "unknown"}],
   world : [family : {"evm"}, tokens : {<<>>, <<Usdc, Usdt>>}, states : {<<s>> : s \in MCIssuerStates}]
           \cup [family : {"solana"}, tokens : {<<Usdc, Usdt>>}, states : {<<s>> : s \in IssuerState}]]
  \cup
  [request : [op : {"compliance_screen_address"}, issuers : BOOLEAN],
   world : [family : {"evm"}, tokens : {<<>>, <<Usdc>>}, states : {<<s>> : s \in MCIssuerStates},
            screeners : SeqUpTo({"hit", "clear", "error", "skipped"}, 2)]]
-----------------------------------------------------------------------------
\* Cards over changing balances and approvals, statements of three rows, rates over a week.
MCCardStates ==
  [balance : 0..2, approved : 0..2, account : {"open"}, delegate : {"spender"}]
  \cup [balance : {2}, approved : {2}, account : {"none", "frozen"}, delegate : {"spender", "other", "none"}]
Transfer == [tx : {"t1", "t2"}, from : {"me", "other"}, to : {"me", "other"}, amount : {1},
             asset : {"stable"}, timed : {TRUE}]
            \cup [tx : {"t1"}, from : {"other"}, to : {"me"}, amount : {2}, asset : {"coin"}, timed : BOOLEAN]
MCNeobankCases ==
  [request : [op : {"neobank_card_funding_status"}, token : {"erc20", "spl", "other"}, amount : 0..2],
   world : [states : {<<s>> : s \in MCCardStates}]]
  \cup
  [request : [op : {"neobank_get_ledger"}, fees : BOOLEAN],
   world : [transfers : SeqUpTo({t \in Transfer : "me" \in {t.from, t.to}}, 3), priced : {{"coin"}},
            txs : [t1 : [found : BOOLEAN, from : {"me", "other"}, fee : {3}],
                   t2 : [found : {TRUE}, from : {"me"}, fee : {5}]]]]
  \cup
  [request : [op : {"fiat_get_fx_rate"}, base : {"EUR"}, quote : {"EUR", "USD"}, date : 0..5],
   world : [today : {4}, fixings : {{}, {1, 2}, {2, 4}}]]
-----------------------------------------------------------------------------
\* The oracle of a stock, in the weeks of Thanksgiving and of the change of the clocks.
MCYears == {[march |-> 59, november |-> 304]}
MCHolidays == {0, 18, 46, 92, 144, 169, 183, 249, 329, 358}
MCEarlyCloses == {330, 357}
Moments == {d * 48 + h : d \in {93, 67, 305, 329, 330, 331, 334, 360}, h \in {3, 8, 9, 10, 14, 19, 27, 40, 44, 47}}
MCStockCases ==
  [request : [op : {"rwa_price"}, asset : {"not erc20", "unlisted", "without feed"}, maxAge : {48}]
             \cup [op : {"rwa_price"}, asset : {"listed"}, maxAge : {2, 48}],
   world : [now : Moments, round : {<<>>} \cup {<<[answer |-> n, updated |-> u]>> : n \in {0, 7}, u \in {0}},
            paused : {"live"}, sequencer : {"up"}]
           \cup {[now |-> t, round |-> <<[answer |-> 7, updated |-> t - a]>>, paused |-> p, sequencer |-> s] :
                   t \in Moments, a \in {0, 1, 20, 49, 60, 96, 145, 200, 220},
                   p \in {"live", "paused", "unread"}, s \in {"up", "down", "unread"}}]
  \cup
  [request : [op : {"rwa_token_info"}, asset : {"not erc20", "unlisted", "without feed", "listed"}],
   world : [paused : {"live", "paused", "unread"}, multiplier : [current : {1}, next : 0..2]]]
-----------------------------------------------------------------------------
\* Up to three sources of prices, of which some do not answer.
PriceSource == [kind : {"price"}, value : {0, 9, 10, 11}, age : {0, 5}, quote : {"USD"}]
               \cup [kind : {"price"}, value : {10}, age : {0}, quote : {"EUR"}]
               \cup [kind : {"error"}, error : {"NotFound", "Unsupported", "Transient"}]
Oracle == [kind : {"price"}, value : {8, 10}, age : {5}, quote : {"USD"}]
          \cup [kind : {"error"}, error : {"Transient"}]
MetadataSource == [kind : {"metadata"}, decimals : {6, 18}] \cup [kind : {"error"}, error : {"NotFound", "Transient"}]
RiskSource == [kind : {"risk"}, flags : SUBSET {"low", "critical"}] \cup [kind : {"error"}, error : {"Transient"}]
MCMarketCases ==
  [request : [op : {"market_get_price"}, quote : {"USD"}, maxSpread : {10}, maxAge : {1}]
             \cup [op : {"market_get_price_at"}, future : BOOLEAN, maxAge : {1}],
   world : [vendors : SeqUpTo(PriceSource, 3)]]
  \cup
  [request : [op : {"stablecoin_peg"}, token : {"known", "unknown"}, maxSpread : {10}, maxDeviation : {5}, maxAge : {1}],
   world : [vendors : SeqUpTo({p \in PriceSource : p.kind = "price" => p.quote = "USD"}, 2), oracle : SeqUpTo(Oracle, 1)]]
  \cup
  [request : [op : {"token_get_metadata"}, asset : {"native", "token"}],
   world : [vendors : SeqUpTo(MetadataSource, 3), native : {18}]]
  \cup
  [request : [op : {"token_check_risk"}, asset : {"native", "token"}],
   world : [vendors : SeqUpTo(RiskSource, 2), readable : BOOLEAN,
            facts : SUBSET {"mint authority", "permanent delegate", "proxy", "confidential"}]]
-----------------------------------------------------------------------------
\* Two quotes with guarantees of every kind, over allowances given before; and one with two
\* approvals, for one spender (a reset first) or for two.
Approve(n) == [spender |-> "router", amount |-> n]
SwapQuote == {[kind |-> "quote", buy |-> b, min |-> m, live |-> l, tx |-> t, approvals |-> a] :
               b \in {0, 20, 30}, m \in {14, 17, 20, 27, 30}, l \in BOOLEAN, t \in {TRUE},
               a \in {<<>>, <<Approve(2)>>}}
             \cup {[kind |-> "quote", buy |-> 30, min |-> 30, live |-> TRUE, tx |-> FALSE, approvals |-> <<>>],
                   [kind |-> "error", error |-> "Transient"], [kind |-> "error", error |-> "Unsupported"]}
MCTradeCases ==
  [request : [op : {"trade_get_swap_quote"}, pair : {"two assets of one chain"}, sell : {2}, slippage : {1},
              taker : {FALSE}, decimals : {TRUE}]
             \cup [op : {"trade_build_swap_tx"}, pair : {"two assets of one chain"}, sell : {2}, slippage : {1},
                   taker : {TRUE}, decimals : {TRUE}, floor : {0, 20, 28}],
   world : [vendors : SeqUpTo(SwapQuote, 2), metadata : {<<>>}, allowance : [{"router"} -> {1, 2}],
            readable : BOOLEAN]]
  \cup
  [request : [op : {"trade_build_swap_tx"}, pair : {"two assets of one chain", "the same", "of two chains"},
              sell : {0, 2}, slippage : {1, 6}, taker : BOOLEAN, decimals : BOOLEAN, floor : {0}],
   world : [vendors : SeqUpTo({q \in SwapQuote : q.kind = "quote" => q.live /\ q.buy = 20 /\ q.min = 20}, 1),
            metadata : SeqUpTo(MetadataSource, 1), allowance : [{"router"} -> {1}], readable : {TRUE}]]
  \cup
  [request : [op : {"trade_build_swap_tx"}, pair : {"two assets of one chain"}, sell : {2}, slippage : {1},
              taker : {TRUE}, decimals : {TRUE}, floor : {0}],
   world : [vendors : {<<[kind |-> "quote", buy |-> 20, min |-> 20, live |-> TRUE, tx |-> TRUE,
                          approvals |-> <<Approve(m), [spender |-> s, amount |-> n]>>]>> :
                         m \in 0..2, s \in {"router", "permit2"}, n \in 0..2},
            metadata : {<<>>}, allowance : [{"router", "permit2"} -> {0, 1, 2}], readable : BOOLEAN]]
-----------------------------------------------------------------------------
\* Two chains of the EVM, one of which has its canonical coin at the other's bridged one.
MCChain == {"ethereum", "base", "solana"}
MCFamilyOf == [c \in MCChain |-> IF c = "solana" THEN "solana" ELSE "evm"]
MCRegistry ==
  {[asset |-> [chain |-> "ethereum", address |-> "0xA"], symbols |-> {"USDC"}],
   [asset |-> [chain |-> "base", address |-> "0xB"], symbols |-> {"USDC"}],
   [asset |-> [chain |-> "base", address |-> "0xC"], symbols |-> {"USDT", "USDT0"}],
   [asset |-> [chain |-> "solana", address |-> "mintA"], symbols |-> {"PYUSD"}]}
WrittenToken ==
  [form : {"caip"}, asset : [chain : {"ethereum", "base"}, address : {"0xA", "0xB", "0xD"}]]
  \cup [form : {"address"}, address : {"0xA", "0xB", "0xC", "0xD"}]
  \cup [form : {"symbol"}, symbol : {"USDC", "USDT0", "PYUSD", "FOO"}]
  \cup [form : {"native"}]
MCTokenCases ==
  [request : [op : {"stablecoin_resolve"}, chain : {"none", "ethereum", "base", "disabled"}, token : WrittenToken],
   world : [symbol : {"USDC", "FOO", "unread"}]]
  \cup
  [request : [op : {"payments_build_request"}, chain : MCChain, token : WrittenToken, amount : {0, 3},
              recipient : {"0xA", "0xE"}, format : {"eip681", "solana_pay", "x402"}, resource : BOOLEAN],
   world : [symbol : {"unread"}]]
  \cup
  [request : [op : {"address_validate"}, chain : {"ethereum", "base"}, address : {"malformed", "0xA", "0xE"},
              token : WrittenToken, others : BOOLEAN],
   world : [symbol : {"USDC", "unread"}, contract : {"getThreshold", "entryPoint", "neither"},
            code : [{"ethereum", "base"} -> {"nothing", "delegation", "contract", "unread"}]]]
  \cup
  [request : [op : {"address_validate"}, chain : {"solana"}, address : {"malformed", "pubkey"},
              token : {[form |-> "native"], [form |-> "symbol", symbol |-> "PYUSD"]}, others : {TRUE}],
   world : [symbol : {"unread"}, contract : {"neither"},
            code : [{"solana"} -> {"nothing", "executable", "system", "token_account", "mint", "data", "unread"}]]]
-----------------------------------------------------------------------------
\* Balances of accounts on three chains, a small configuration, fees and old tools.
Held(chain, name, n) == [asset |-> [chain |-> chain, name |-> name], amount |-> n]
Families == [base |-> "evm", polygon |-> "evm", solana |-> "solana"]
MCConfig ==
  [custom : {<<>>, <<[name |-> "mine", chain |-> "base"]>>},
   operations : {<<>>}, chains : {<<>>, [base |-> [evm_rpc |-> <<"b", "a">>]]},
   defaults : {<<>>, [price |-> <<"b">>]}, builtInChain : {[solana |-> [solana_rpc |-> <<"s">>]]},
   builtIn : {[evm_rpc |-> <<"a", "ghost">>, price |-> <<"a", "b">>]},
   vendors : {[a |-> [verified |-> TRUE, requiresKey |-> FALSE, keys |-> {}],
               b |-> [verified |-> FALSE, requiresKey |-> TRUE, keys |-> {"key"}],
               s |-> [verified |-> TRUE, requiresKey |-> FALSE, keys |-> {}]]},
   enabled : {<<>>, [b |-> TRUE], [a |-> FALSE]}, keys : {<<>>, [b |-> {"key"}]}]
MCToolCases ==
  [request : [op : {"wallet_get_balances"}, family : {"evm", "solana"}, chains : (SUBSET DOMAIN Families) \cup {{"gone"}},
              assets : {{}, {[chain |-> "base", name |-> "usdc"]}}, stablecoins : BOOLEAN],
   world : [family : {Families}, stablecoins : {{[chain |-> "solana", name |-> "usdc"]}}, down : SUBSET {"base", "solana"},
            rows : {[base |-> <<Held("base", "native", 2), Held("base", "spam", 9)>>, polygon |-> <<>>,
                     solana |-> <<Held("solana", "usdc", 1), Held("solana", "native", 1), Held("solana", "usdc", 3)>>]}]]
  \cup
  [request : [op : {"chain_list", "provider_health"}, chain : {"all", "base", "solana", "gone"}],
   world : [family : {Families}, capabilities : {{"evm_rpc", "solana_rpc", "price"}}, config : MCConfig,
            listed : {{"a", "b", "rpc"}}, registered : {{<<"evm_rpc", "base", "a">>, <<"price", "base", "b">>}}]]
  \cup
  [request : [op : {"chain_finality"}, perProvider : BOOLEAN],
   world : [latest : {{}, {4}}, safe : {{}, {3}, {5}}, finalized : {{}, {2}}, heads : [{"a", "b"} -> {{}, {4}, {5}}]]]
  \cup
  [request : [op : {"tx_estimate_fee"}],
   world : [stack : {"l1", "op", "arbitrum"}, base : {2}, rewards : SeqUpTo({<<0, 1, 2>>, <<1, 1, 3>>}, 3),
            l1 : {{}, {4}}, operator : {{}, {1}}, price : {{}, {3}}]]
  \cup
  [request : [op : {"eth_get_balance", "eth_get_code", "eth_gas_price", "eth_get_transaction_by_hash"}, parses : BOOLEAN],
   world : [chain : {"base", "solana", "down"}, hex : BOOLEAN, value : {0, 4, 5, 15}]]
=============================================================================
