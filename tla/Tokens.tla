------------------------------- MODULE Tokens --------------------------------
(***************************************************************************)
(* Which token, and which address, is meant: the registry of canonical      *)
(* stablecoins (protocols/src/stablecoins.rs), stablecoin_resolve,          *)
(* payments_build_request and address_validate.                             *)
(*                                                                         *)
(* An asset is a chain and an address: the same address on two chains is    *)
(* two assets.  What a user may write for one is a record: its CAIP-19 id,  *)
(* a bare address, a symbol, or nothing for the coin of the chain.          *)
(***************************************************************************)
EXTENDS Request

CONSTANTS
  Chain,      \* the enabled chains
  FamilyOf,   \* [Chain -> {"evm", "solana"}]
  Registry,   \* the entries: their asset and the symbols they answer to
  TokenCases  \* the calls

\* What parse() checks of the built-in file: an asset and a symbol name one entry of a chain.
RegistryAssumption ==
  \A e, f \in Registry :
    e.asset.chain = f.asset.chain /\ (e.asset = f.asset \/ e.symbols \cap f.symbols # {}) => e = f
ASSUME RegistryAssumption

TokenOp == {"stablecoin_resolve", "payments_build_request", "address_validate"}
ASSUME TokensAssumption ==
  \A c \in TokenCases :
    c.request.op \in TokenOp /\ c.request.token.form \in {"caip", "address", "symbol", "native"}

AssetAt(chain, address) == [chain |-> chain, address |-> address]
Native == "native"

ByAsset(asset) == {e \in Registry : e.asset = asset}
\* Mutant: a symbol is looked for on every chain.
MutantAnyChain(chain, symbol) == {e \in Registry : symbol \in e.symbols}
BySymbol(chain, symbol) == {e \in Registry : e.asset.chain = chain /\ symbol \in e.symbols}
ForChain(chain) == {e \in Registry : e.asset.chain = chain}

\* StablecoinRegistry::resolve: at most one entry.
Resolve(chain, token) ==
  CASE token.form = "caip" -> IF token.asset.chain = chain THEN ByAsset(token.asset) ELSE {}
    [] token.form = "address" -> ByAsset(AssetAt(chain, token.address))
    [] token.form = "symbol" -> BySymbol(chain, token.symbol)
    [] token.form = "native" -> {}

\* resolve_asset: the asset a token of a payment or a check stands for; none is InvalidInput.
ResolveAsset(chain, token) ==
  CASE token.form = "native" -> {AssetAt(chain, Native)}
    [] token.form = "caip" -> {token.asset} \cap {a \in {token.asset} : a.chain = chain}
    [] token.form = "address" -> {AssetAt(chain, token.address)}
    [] token.form = "symbol" -> {e.asset : e \in BySymbol(chain, token.symbol)}

-----------------------------------------------------------------------------
(***************************************************************************)
(* stablecoin_resolve.  world.symbol is what the contract calls itself.     *)
(***************************************************************************)
Lookalikes(asset, symbol) ==
  {e.asset : e \in {f \in ForChain(asset.chain) : f.asset # asset /\ symbol \in f.symbols}}

Resolution(entries, observed, alike) ==
  Reply([entries |-> entries, observed |-> observed, lookalikeOf |-> alike])

\* The chain given, or that of the CAIP-19 id.
ChainMeant ==
  IF request.chain # "none" THEN {request.chain}
  ELSE IF request.token.form = "caip" THEN {request.token.asset.chain} ELSE {}

\* A symbol that no entry of the chain answers to, or a contract of which only its symbol
\* can be said.
UnknownToken(chain) ==
  LET token == request.token
      asset == IF token.form = "caip" THEN token.asset ELSE AssetAt(chain, token.address)
  IN IF token.form = "symbol" \/ world.symbol = "unread" THEN Resolution({}, {}, {})
     ELSE Resolution({}, {world.symbol}, Lookalikes(asset, world.symbol))

StablecoinResolve ==
  Conclude("stablecoin_resolve",
    IF request.token.form = "native" THEN Refuse("InvalidInput")
    ELSE IF ~(ChainMeant \subseteq Chain) THEN Refuse("UnsupportedChain")
    ELSE IF ChainMeant = {}
    THEN Resolution({e \in Registry : request.token.form = "symbol" /\ request.token.symbol \in e.symbols},
                    {}, {})
    ELSE LET chain == CHOOSE c \in ChainMeant : TRUE IN
         IF Resolve(chain, request.token) # {} THEN Resolution(Resolve(chain, request.token), {}, {})
         ELSE UnknownToken(chain))

-----------------------------------------------------------------------------
(***************************************************************************)
(* payments_build_request.                                                  *)
(***************************************************************************)
FormatFits(format, family) ==
  \/ format = "eip681" /\ family = "evm"
  \/ format = "solana_pay" /\ family = "solana"
  \/ format = "x402" /\ request.resource

BuildRequest ==
  LET entries == Resolve(request.chain, request.token)
      family == FamilyOf[request.chain]
  IN Conclude("payments_build_request",
       IF request.chain \notin Chain THEN Refuse("UnsupportedChain")
       ELSE IF \/ entries = {} \/ request.amount = 0 \/ ~FormatFits(request.format, family)
               \/ request.format = "eip681" /\ \E e \in entries : e.asset.address = request.recipient
       THEN Refuse("InvalidInput")
       ELSE Reply([pays |-> [asset |-> (CHOOSE e \in entries : TRUE).asset,
                             to |-> request.recipient, raw |-> request.amount],
                   reference |-> request.format = "solana_pay"]))

-----------------------------------------------------------------------------
(***************************************************************************)
(* address_validate.  world.code has what each chain holds at the address,  *)
(* or "unread"; world.contract is what the contract answers to when asked.  *)
(***************************************************************************)
EvmKind(address) ==
  LET code == world.code[request.chain] IN
  CASE code = "nothing" -> "eoa"
    [] code = "delegation" -> "eip7702_delegated"
    [] code = "contract" ->
         IF ByAsset(AssetAt(request.chain, address)) # {} THEN "token_contract"
         ELSE IF world.contract \in {"getThreshold", "entryPoint"} THEN "smart_account" ELSE "contract"

SolanaKind ==
  LET account == world.code[request.chain] IN
  CASE account = "nothing" -> "unfunded_wallet"
    [] account = "executable" -> "program"
    [] account = "system" -> "wallet"
    [] account \in {"token_account", "mint"} -> account
    [] account = "data" -> "program_owned"

\* Contracts at the address on other chains, when it has no code on this one.
Elsewhere ==
  {c \in Chain \ {request.chain} : FamilyOf[c] = "evm" /\ world.code[c] = "contract"}

\* check_token: whether the token exists here, and what it is to the registry.
Issuance(asset) ==
  IF ByAsset(asset) # {} \/ asset.address = Native THEN "canonical"
  ELSE IF FamilyOf[asset.chain] = "evm" /\ world.symbol # "unread"
          /\ BySymbol(asset.chain, world.symbol) # {}
  THEN "not_canonical" ELSE "unknown"

\* A symbol that stands for nothing here is reported; anything else malformed is refused.
TokenCheck ==
  {[asset |-> {a}, issuance |-> Issuance(a)] : a \in ResolveAsset(request.chain, request.token)}
  \cup (IF ResolveAsset(request.chain, request.token) = {} /\ request.token.form = "symbol"
        THEN {[asset |-> {}, issuance |-> "unknown"]} ELSE {})

AddressValidate ==
  LET evm == FamilyOf[request.chain] = "evm"
      kind == IF evm THEN EvmKind(request.address) ELSE SolanaKind
      warned == \/ kind \in {"eip7702_delegated", "token_contract", "unfunded_wallet", "token_account",
                             "mint", "program", "program_owned"}
                \/ kind = "eoa" /\ request.others /\ Elsewhere # {}
  IN Conclude("address_validate",
       IF request.chain \notin Chain THEN Refuse("UnsupportedChain")
       ELSE IF request.address = "malformed" THEN Reply([kind |-> "invalid", warned |-> FALSE, token |-> {}])
       ELSE IF world.code[request.chain] = "unread" THEN Refuse("AllProvidersFailed")
       ELSE IF TokenCheck = {} THEN Refuse("InvalidInput")
       ELSE Reply([kind |-> kind, warned |-> warned, token |-> TokenCheck]))

TokensNext == StablecoinResolve \/ BuildRequest \/ AddressValidate

-----------------------------------------------------------------------------
(***************************************************************************)
(* Properties.                                                              *)
(***************************************************************************)
\* The asset that a token names by its address, on a chain.
NamedAsset(chain) ==
  CASE request.token.form = "caip" -> {request.token.asset}
    [] request.token.form = "address" -> {AssetAt(chain, request.token.address)}
    [] request.token.form \in {"symbol", "native"} -> {}

(* "Never matches an unknown contract by symbol" (StablecoinRegistry::resolve): whoever names
   a contract is never told of, nor asked to pay in, another one; a payment request is for a
   registered asset of the very chain it names; a contract that calls itself like a
   registered coin of its chain is a lookalike of it, and never canonical. *)
OnlyCanonicalTokens ==
  answer.at = "replied" =>
    /\ request.op = "stablecoin_resolve" =>
         \A e \in answer.out.entries :
           /\ e \in Registry
           /\ request.chain # "none" => e.asset.chain = request.chain
           /\ \A a \in NamedAsset(e.asset.chain) : e.asset = a
    /\ request.op = "stablecoin_resolve" /\ answer.out.observed # {} =>
         \A e \in Registry, a \in UNION {NamedAsset(c) : c \in ChainMeant} :
           e.asset.chain = a.chain /\ answer.out.observed \subseteq e.symbols
             => answer.out.entries = {} /\ (e.asset \in answer.out.lookalikeOf \/ e.asset = a)
    /\ request.op = "payments_build_request" =>
         \E e \in Registry : /\ e.asset = answer.out.pays.asset
                             /\ e.asset.chain = request.chain
                             /\ \A a \in NamedAsset(request.chain) : e.asset = a
    /\ request.op = "address_validate" =>
         \A t \in answer.out.token : t.issuance = "canonical" =>
           \A a \in t.asset : a.address = Native \/ \E e \in Registry : e.asset = a
=============================================================================
