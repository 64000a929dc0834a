----------------------------- MODULE ChainTools ------------------------------
(***************************************************************************)
(* The reads of several chains and of the server's own configuration:       *)
(* wallet_get_balances, chain_list, chain_finality, provider_health,        *)
(* tx_estimate_fee, and the tools kept from before the refactoring          *)
(* (ops/wallet.rs, chain.rs, tx.rs, legacy.rs, protocols/src/evm/fees.rs).  *)
(***************************************************************************)
EXTENDS Request, Resolution, SequencesExt, FiniteSetsExt

CONSTANTS
  TransferGas, \* TRANSFER_GAS
  ToolCases    \* the calls

-----------------------------------------------------------------------------
(***************************************************************************)
(* wallet_get_balances.  world.rows[c] are the balances of the wallet's     *)
(* accounts on chain c, or <<>> with world.down when nobody answers.        *)
(***************************************************************************)
Addressed(chains) == {c \in chains : world.family[c] = request.family}

ChainsAsked ==
  IF request.chains # {} THEN request.chains
  ELSE IF request.assets # {} THEN {a.chain : a \in request.assets}
  ELSE Addressed(DOMAIN world.family)

\* What is wanted of a chain: its coin with the assets asked for, or with the stablecoins.
Coin(chain) == [chain |-> chain, name |-> "native"]
Filtered(chain) == request.stablecoins \/ request.assets # {}
WantedOf(chain) ==
  {Coin(chain)} \cup {a \in IF request.stablecoins THEN world.stablecoins ELSE request.assets :
                        a.chain = chain}

\* sum_by_asset over the accounts of a wallet, and what the filter retains.
SumByAsset(chain, rows) ==
  LET assets == {rows[i].asset : i \in DOMAIN rows}
      held(a) == {i \in DOMAIN rows : rows[i].asset = a}
  IN {[asset |-> a, amount |-> MapThenSumSet(LAMBDA i : rows[i].amount, held(a)), accounts |-> held(a)] :
        a \in {b \in assets : Filtered(chain) => b \in WantedOf(chain)}}

\* A chain of the other family, or one nobody answers for, is an error of its own.
ChainBalances(chain) ==
  [chain |-> chain, failed |-> chain \notin Addressed(ChainsAsked) \/ chain \in world.down,
   rows |-> IF chain \in Addressed(ChainsAsked) \ world.down
            THEN SumByAsset(chain, world.rows[chain]) ELSE {}]

WalletGetBalances ==
  Conclude("wallet_get_balances",
    IF ~(ChainsAsked \subseteq DOMAIN world.family) THEN Refuse("UnsupportedChain")
    ELSE IF Addressed(ChainsAsked) = {} THEN Refuse("InvalidInput")
    ELSE IF Addressed(ChainsAsked) \subseteq world.down
    THEN Refuse(IF ChainsAsked \subseteq Addressed(ChainsAsked) THEN "AllProvidersFailed" ELSE "InvalidInput")
    ELSE Reply({ChainBalances(c) : c \in ChainsAsked}))

-----------------------------------------------------------------------------
(***************************************************************************)
(* chain_list and provider_health: the configuration, the table of adapters *)
(* and the vendors' states as they are.                                     *)
(***************************************************************************)
ChainsOf(filter) == IF filter = "all" THEN DOMAIN world.family ELSE {filter}
CapsFor(family) ==
  {c \in world.capabilities : CASE c = "evm_rpc" -> family = "evm"
                                [] c = "solana_rpc" -> family = "solana"
                                [] OTHER -> TRUE}

UsableHere(capability, chain, vendor) ==
  /\ VendorStatus(world.config, vendor) = "active"
  /\ <<capability, chain, vendor>> \in world.registered

CapabilityRow(capability, chain) ==
  LET order == Order(world.config, capability, chain, "none") IN
  [capability |-> capability, chain |-> chain, level |-> order.level, order |-> order.vendors,
   usable |-> SelectSeq(order.vendors, LAMBDA v : UsableHere(capability, chain, v))]

ChainList ==
  Conclude("chain_list",
    IF ~(ChainsOf(request.chain) \subseteq DOMAIN world.family) THEN Refuse("UnsupportedChain")
    ELSE Reply(UNION {{r \in {CapabilityRow(cap, c) : cap \in CapsFor(world.family[c])} : r.order # <<>>} :
                        c \in ChainsOf(request.chain)}))

ProviderHealth ==
  Conclude("provider_health",
    IF ~(ChainsOf(request.chain) \subseteq DOMAIN world.family) THEN Refuse("UnsupportedChain")
    ELSE Reply([status |-> [v \in world.listed |-> VendorStatus(world.config, v)],
                orders |-> UNION {{CapabilityRow(cap, c).order : cap \in CapsFor(world.family[c])} :
                                    c \in ChainsOf(request.chain)}]))

-----------------------------------------------------------------------------
(***************************************************************************)
(* chain_finality: three blocks, each from whichever node answers, and the  *)
(* heads of all of them.  An empty set is a block nobody gave.              *)
(***************************************************************************)
Behind(head, block) == IF block > head THEN 0 ELSE head - block
Heads(heads) ==
  LET known == UNION {heads[v] : v \in DOMAIN heads}
  IN {[vendor |-> v, head |-> heads[v], lag |-> {Max(known) - h : h \in heads[v]}] : v \in DOMAIN heads}

ChainFinality ==
  Conclude("chain_finality",
    IF world.latest = {} THEN Refuse("AllProvidersFailed")
    ELSE LET head == Max(world.latest) IN
         Reply([levels |-> <<{0}, {Behind(head, b) : b \in world.safe}, {Behind(head, b) : b \in world.finalized}>>,
                heads |-> IF request.perProvider THEN Heads(world.heads) ELSE {}]))

-----------------------------------------------------------------------------
(***************************************************************************)
(* tx_estimate_fee on a chain of the EVM.  world.rewards has a row of three *)
(* percentiles for each recent block; a rollup adds what it pays to the     *)
(* chain below, which it may fail to say.                                   *)
(***************************************************************************)
MedianReward(i) ==
  LET column == SortSeq([b \in DOMAIN world.rewards |-> world.rewards[b][i]], LAMBDA a, b : a < b)
  IN IF column = <<>> THEN 0 ELSE column[(Len(column) \div 2) + 1]

\* getL1Fee with the operator's fee, where there is one, or Arbitrum's gas at its price.
L1Fee ==
  CASE world.stack = "l1" -> {0}
    [] world.stack = "op" -> {l + (IF world.operator = {} THEN 0 ELSE Max(world.operator)) : l \in world.l1}
    [] world.stack = "arbitrum" -> {l * world.base : l \in world.l1}

Tier(i, l1) ==
  [priority |-> MedianReward(i), maxFee |-> 2 * world.base + MedianReward(i),
   total |-> (world.base + MedianReward(i)) * TransferGas + l1,
   fiat |-> {p * ((world.base + MedianReward(i)) * TransferGas + l1) : p \in world.price}]

TxEstimateFee ==
  Conclude("tx_estimate_fee",
    IF L1Fee = {} THEN Refuse("AllProvidersFailed")
    ELSE Reply([i \in 1..3 |-> Tier(i, Max(L1Fee))]))

-----------------------------------------------------------------------------
\* The old tools: one call of a chain of the EVM, whose answer is passed on.
LegacyRead(op, value) ==
  Conclude(op,
    IF world.chain = "solana" \/ ~request.parses THEN Refuse("InvalidInput")
    ELSE IF world.chain = "down" THEN Refuse("AllProvidersFailed")
    ELSE IF ~world.hex /\ op # "eth_get_code" THEN Refuse("Internal")
    ELSE Reply(value))

\* Wei as hundredths of a gwei, half up; a bytecode that cannot be read is none.
EthGetBalance == LegacyRead("eth_get_balance", world.value)
EthGetCode == LegacyRead("eth_get_code", [contract |-> world.hex /\ world.value > 0])
EthGasPrice == LegacyRead("eth_gas_price", (world.value + 5) \div 10)
EthGetTransactionByHash == LegacyRead("eth_get_transaction_by_hash", world.value)

ToolsNext ==
  \/ WalletGetBalances \/ ChainList \/ ProviderHealth \/ ChainFinality \/ TxEstimateFee
  \/ EthGetBalance \/ EthGetCode \/ EthGasPrice \/ EthGetTransactionByHash
=============================================================================
