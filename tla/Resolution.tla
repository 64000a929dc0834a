----------------------------- MODULE Resolution ------------------------------
(***************************************************************************)
(* What a loaded configuration means (config/src/resolve.rs): the order of  *)
(* vendors for a capability, whether a vendor may be used at all, budgets,  *)
(* costs.  A configuration c is a record of partial functions: an absent    *)
(* key is an unset option.                                                  *)
(***************************************************************************)
EXTENDS Integers, FiniteSets, Sequences, TLC

Has(f, x) == x \in DOMAIN f
Or(f, x, default) == IF Has(f, x) THEN f[x] ELSE default

\* The operator's own endpoints, for the capabilities that speak to nodes.
CustomRpcFor(c, chain) == SelectSeq(c.custom, LAMBDA e : e.chain = chain)
Ahead(c, capability, chain) ==
  IF capability \in {"evm_rpc", "solana_rpc", "broadcast"}
  THEN [i \in DOMAIN CustomRpcFor(c, chain) |-> CustomRpcFor(c, chain)[i].name] ELSE <<>>

\* The most specific order that is set.
Order(c, capability, chain, operation) ==
  LET ofOperation == Or(c.operations, operation, << >>)
      ofChain == Or(c.chains, chain, << >>)
      builtIn == Or(Or(c.builtInChain, chain, << >>), capability, Or(c.builtIn, capability, <<>>))
  IN CASE Has(ofOperation, capability) -> [level |-> "operation", vendors |-> ofOperation[capability]]
       [] ~Has(ofOperation, capability) /\ Has(ofChain, capability) ->
            [level |-> "chain", vendors |-> ofChain[capability]]
       [] ~Has(ofOperation, capability) /\ ~Has(ofChain, capability) /\ Has(c.defaults, capability) ->
            [level |-> "default", vendors |-> c.defaults[capability]]
       [] OTHER -> [level |-> "built_in", vendors |-> Ahead(c, capability, chain) \o builtIn]

\* The setting, the registry's default, or whether the free tier was verified.
VendorStatus(c, vendor) ==
  IF vendor = "rpc" \/ \E i \in DOMAIN c.custom : c.custom[i].name = vendor THEN "active"
  ELSE IF ~Has(c.vendors, vendor) THEN "unknown"
  ELSE LET entry == c.vendors[vendor] IN
       IF ~Or(c.enabled, vendor, entry.verified) THEN "disabled"
       ELSE IF entry.requiresKey /\ ~(entry.keys \subseteq Or(c.keys, vendor, {})) THEN "missing_key"
       ELSE "active"

\* The smaller of two limits that may be unset (empty sets).
MinOpt(a, b) == {x \in a \cup b : \A y \in a \cup b : x <= y}
Keep(limit, reserve) == {(n * (100 - reserve)) \div 100 : n \in limit}

\* Rates are only capped; days and months also keep the reserve.
EffectiveBudget(limit, cap, reserve) ==
  [w \in {"rps", "per_minute"} |-> MinOpt(cap[w], limit[w])]
  @@ [w \in {"daily", "monthly"} |-> MinOpt(cap[w], Keep(limit[w], reserve))]
=============================================================================
