------------------------------ MODULE MCServer ------------------------------
(***************************************************************************)
(* A setting with an alias, a secret, a path that the environment sets and  *)
(* three that calls go by; two requests and two calls at once, a cache of   *)
(* two for three questions, two endpoints of which one serves another       *)
(* chain; two polls of the quotas.                                          *)
(***************************************************************************)
EXTENDS Server, TLC

CONSTANTS unset, torn, missing, keep, reload

Set(pairs) == pairs @@ [p \in Path |-> unset]
Change(pairs) == pairs @@ [p \in Path |-> keep]

MCPath == {"port", "monthly", "monthly_credits", "key", "enabled", "cache_ttl_secs", "evm_rpc"}
MCEnv == Set("port" :> "old")
MCConflicts == {{"monthly", "monthly_credits"}}

\* A budget set as the dashboard does (aliases first), a key alone or with it, an alias
\* beside the setting, a value that does not load, a path of the environment; and what calls go by.
MCBudgetEdits ==
  {Change("monthly" :> "new" @@ "monthly_credits" :> unset),
   Change("monthly" :> "new" @@ "monthly_credits" :> unset @@ "key" :> "new"),
   Change("key" :> unset), Change("monthly" :> "bad"), Change("monthly_credits" :> "new"),
   Change("port" :> "new")}
MCServingEdits ==
  {Change("cache_ttl_secs" :> "short"), Change("cache_ttl_secs" :> "off"),
   Change("evm_rpc" :> "astray"), Change("enabled" :> "no")}

MCEditSets == MCBudgetEdits \cup MCServingEdits

MCHandTexts == {torn, Set("monthly" :> "bad"), Set("monthly_credits" :> "old" @@ "key" :> "old")}
MCSeconds == [v \in Value \cup {unset} |-> CASE v = "short" -> 1 [] v = "off" -> 0 [] OTHER -> 2]

Budget(edit, byHand, failure, crash, call, tick, poll) ==
  [edit |-> edit, hand |-> byHand, failure |-> failure, crash |-> crash,
   call |-> call, tick |-> tick, poll |-> poll]

Renamed == [config |-> Set("monthly_credits" :> "old"), secrets |-> Set("key" :> "old")]
Masked == [config |-> Set("monthly" :> "bad"), secrets |-> Set("monthly" :> "old")]
NoFiles == [config |-> missing, secrets |-> missing]
Astray == [config |-> Set("evm_rpc" :> "astray"), secrets |-> missing]

\* Edits, failures and crashes; calls under an edit; calls on a full cache; with a restart; quotas;
\* calls to an endpoint of another chain.
MCStarts ==
  [files : {Renamed, Masked}, left : {Budget(2, 1, 1, 1, 0, 0, 0)}]
  \cup [files : {NoFiles}, left : {Budget(1, 0, 1, 0, 2, 1, 0), Budget(0, 0, 0, 0, 3, 2, 0),
                                 Budget(0, 0, 1, 1, 3, 1, 0), Budget(0, 0, 0, 0, 0, 0, 1)}]
  \cup [files : {Astray}, left : {Budget(0, 0, 1, 0, 3, 0, 0)}]

Symmetry == Permutations(Admin) \cup Permutations(Caller) \cup Permutations(Poller)
=============================================================================
