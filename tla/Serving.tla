------------------------------ MODULE Serving -------------------------------
(***************************************************************************)
(* Calls of tools through the App (app/src/app.rs) to an endpoint of the    *)
(* table in force, behind its ChainIdGuard (server/src/wiring.rs), while    *)
(* the configuration is edited and the process restarted (ConfigFiles).     *)
(* A question is a tool with its input.  Routing has what the router does   *)
(* between a call and one endpoint.                                         *)
(***************************************************************************)
EXTENDS ConfigFiles

CONSTANTS
  Caller,    \* calls that may be in progress at once, the warm-up's among them
  Question,
  Endpoint,
  Wrong,     \* endpoints of another chain than they are configured for
  Default,   \* the endpoint that is used unless evm_rpc is set
  Seconds,   \* Seconds[v]: a lifetime as set, or the operation's own for Unset
  Cap,       \* cache_max_entries
  Nothing    \* the question of a warm-up

ASSUME ServingAssumption ==
  /\ Wrong \subseteq Endpoint /\ Default \in Endpoint
  /\ {"enabled", "cache_ttl_secs", "evm_rpc"} \subseteq Path
  /\ Seconds \in [Value \cup {Unset} -> Nat]
  /\ Cap \in Nat
  /\ Nothing \notin Question

VARIABLES
  now,    \* seconds
  calls,  \* calls[c]: where call c is, and what it has read
  cells,  \* the chain-id checks that have been concluded: one cell for each port of a table
  cache   \* cache[q]: a value and when it expires

servingVars == <<now, calls, cells, cache>>

-----------------------------------------------------------------------------
(***************************************************************************)
(* Calls.                                                                   *)
(***************************************************************************)
NoCall == [at |-> "idle", question |-> Nothing, ttl |-> 0, port |-> [generation |-> 0, endpoint |-> Default],
           got |-> {}, hit |-> FALSE, since |-> 0]

ServingInit ==
  /\ now = 0
  /\ calls = [c \in Caller |-> NoCall]
  /\ cells = {}
  /\ cache = << >>

TtlNow == Seconds[table.config["cache_ttl_secs"]]
EndpointNow == IF table.config["evm_rpc"] = Unset THEN Default ELSE table.config["evm_rpc"]
PortNow(e) == [generation |-> table.generation, endpoint |-> e]

Goto(c, place) == calls' = [calls EXCEPT ![c].at = place]
Done(c, value) == calls' = [calls EXCEPT ![c].at = "done", ![c].got = value]

\* call_inner: a tool that is switched off is unknown.
Call(c) ==
  /\ Up /\ calls[c].at \in {"idle", "done"}
  /\ Spend("call")
  /\ \E q \in Question :
       calls' = [calls EXCEPT ![c] = [NoCall EXCEPT
                  !.at = IF table.config["enabled"] = Unset THEN "visible" ELSE "done", !.question = q]]
  /\ UNCHANGED <<disk, table, lock, job, acked, hand, now, cells, cache>>

\* warmup: the chain id, with no question.
WarmUp(c) ==
  /\ Up /\ calls[c].at \in {"idle", "done"}
  /\ Spend("call")
  /\ calls' = [calls EXCEPT ![c] = [NoCall EXCEPT !.at = "guarded", !.port = PortNow(EndpointNow)]]
  /\ UNCHANGED <<disk, table, lock, job, acked, hand, now, cells, cache>>

\* TtlCache::get: an entry that has expired is removed.
Fresh(q) == q \in DOMAIN cache /\ cache[q].expires > now
Without(q) == [k \in DOMAIN cache \ {q} |-> cache[k]]

\* The table is taken again; a lifetime of zero is none.
Look(c) ==
  LET q == calls[c].question IN
  /\ calls[c].at = "visible"
  /\ IF TtlNow > 0 /\ Fresh(q)
     THEN /\ calls' = [calls EXCEPT ![c].at = "done", ![c].ttl = TtlNow, ![c].since = now,
                                    ![c].got = {cache[q].value}, ![c].hit = TRUE]
          /\ cache' = cache
     ELSE /\ calls' = [calls EXCEPT ![c].at = "routing", ![c].ttl = TtlNow, ![c].since = now]
          /\ cache' = IF TtlNow > 0 THEN Without(q) ELSE cache
  /\ UNCHANGED <<filesVars, now, cells>>

\* The router takes the table a third time.
Route(c) ==
  /\ calls[c].at = "routing"
  /\ calls' = [calls EXCEPT ![c].at = "guarded", ![c].port = PortNow(EndpointNow)]
  /\ UNCHANGED <<filesVars, now, cells, cache>>

-----------------------------------------------------------------------------
(***************************************************************************)
(* ChainIdGuard::request.                                                   *)
(***************************************************************************)
Checked(port) == \E cell \in cells : cell.port = port
Passed(port) == [port |-> port, own |-> TRUE] \in cells

\* One call at a time checks a port; the others wait for it.
\* Mutant: who finds a check under way goes on.
MutantSharesTheHope(c) ==
  Passed(calls[c].port) \/ \E d \in Caller \ {c} : calls[d].at = "checking" /\ calls[d].port = calls[c].port
Admitted(c) == Passed(calls[c].port)

Check(c) ==
  /\ calls[c].at = "guarded"
  /\ ~Checked(calls[c].port)
  /\ \A d \in Caller : calls[d].at = "checking" => calls[d].port # calls[c].port
  /\ Goto(c, "checking")
  /\ UNCHANGED <<filesVars, now, cells, cache>>

\* The endpoint says which chain it serves, and its verdict stays.
CheckReplied(c) ==
  /\ calls[c].at = "checking"
  /\ cells' = cells \cup {[port |-> calls[c].port, own |-> calls[c].port.endpoint \notin Wrong]}
  /\ Goto(c, "guarded")
  /\ UNCHANGED <<filesVars, now, cache>>

\* An answer that is no chain id is a mismatch.
CheckGarbled(c) ==
  /\ calls[c].at = "checking"
  /\ Spend("failure")
  /\ cells' = cells \cup {[port |-> calls[c].port, own |-> FALSE]}
  /\ Goto(c, "guarded")
  /\ UNCHANGED <<disk, table, lock, job, acked, hand, now, cache>>

\* The verdict: a warm-up is done, a mismatch an error, and anything else is asked.
Pass(c) ==
  /\ calls[c].at = "guarded"
  /\ Admitted(c)
  /\ Goto(c, IF calls[c].question = Nothing THEN "done" ELSE "asking")
  /\ UNCHANGED <<filesVars, now, cells, cache>>

Refuse(c) ==
  /\ calls[c].at = "guarded"
  /\ Checked(calls[c].port) /\ ~Passed(calls[c].port)
  /\ Goto(c, "done")
  /\ UNCHANGED <<filesVars, now, cells, cache>>

-----------------------------------------------------------------------------
\* The endpoint reads its chain.
Served(c) ==
  /\ calls[c].at = "asking"
  /\ calls' = [calls EXCEPT ![c].at = "answered",
       ![c].got = {[question |-> calls[c].question, endpoint |-> calls[c].port.endpoint, read |-> now]}]
  /\ UNCHANGED <<filesVars, now, cells, cache>>

\* A check or a request fails, a client goes away, an operation panics: nothing is kept of it.
Fails(c) ==
  /\ calls[c].at \in {"visible", "routing", "guarded", "checking", "asking", "answered"}
  /\ Spend("failure")
  /\ Done(c, {})
  /\ UNCHANGED <<disk, table, lock, job, acked, hand, now, cells, cache>>

\* TtlCache::insert: a full cache first drops what has expired, then what expires first.
Live == {q \in DOMAIN cache : Fresh(q)}
\* Mutant: the entry that expires last.
MutantLatest(S) == {q \in S : \A k \in S : cache[k].expires <= cache[q].expires}
Soonest(S) == {q \in S : \A k \in S : cache[q].expires <= cache[k].expires}

\* What may be held beside q.
Kept(q) ==
  IF q \in DOMAIN cache \/ Cardinality(DOMAIN cache) < Cap THEN {DOMAIN cache}
  ELSE IF Cardinality(Live) < Cap THEN {Live}
  ELSE {Live \ {victim} : victim \in Soonest(Live)}

Insert(q, value, ttl) ==
  IF ttl = 0 \/ Cap = 0 THEN cache' = cache
  ELSE \E kept \in Kept(q) :
         cache' = [k \in kept \cup {q} |->
                     IF k = q THEN [value |-> value, expires |-> now + ttl] ELSE cache[k]]

Finish(c) ==
  /\ calls[c].at = "answered"
  /\ \E value \in calls[c].got : Insert(calls[c].question, value, calls[c].ttl)
  /\ Goto(c, "done")
  /\ UNCHANGED <<filesVars, now, cells>>

Tick ==
  /\ Spend("tick")
  /\ now' = now + 1
  /\ UNCHANGED <<disk, table, lock, job, acked, hand, calls, cells, cache>>

\* A killed process leaves neither calls nor cache.
CrashServing ==
  /\ Crash
  /\ calls' = [c \in Caller |-> NoCall] /\ cache' = << >>
  /\ UNCHANGED <<now, cells>>

CallStep(c) ==
  \/ Call(c) \/ WarmUp(c) \/ Look(c) \/ Route(c)
  \/ Check(c) \/ CheckReplied(c) \/ CheckGarbled(c) \/ Pass(c) \/ Refuse(c)
  \/ Served(c) \/ Fails(c) \/ Finish(c)

ServingNext ==
  \/ \E c \in Caller : CallStep(c)
  \/ Tick
  \/ CrashServing
  \/ FilesNext /\ UNCHANGED servingVars

ServingSpec == FilesInit /\ ServingInit /\ [][ServingNext]_<<filesVars, servingVars>>

-----------------------------------------------------------------------------
(***************************************************************************)
(* Properties.                                                              *)
(***************************************************************************)
\* Two verdicts on one port: concurrent first requests share the check.
OneVerdict == \A a, b \in cells : a.port = b.port => a = b

(* "Never called again" (the chain-id guard), nor before: every answer, cached or not, is one
   to the question that was asked, of an endpoint that serves the chain it is configured for,
   whatever calls share its check or fail in it, and whatever reload, restart or eviction
   comes in between; a port has one verdict, and a warm-up none but that. *)
AnswersHonest ==
  /\ OneVerdict
  /\ \A c \in Caller : \A value \in calls[c].got :
       /\ value.question = calls[c].question
       /\ value.endpoint \notin Wrong
       /\ value.read <= now
  /\ \A c \in Caller : calls[c].hit => calls[c].ttl > 0 /\ calls[c].got # {}

\* What a step may take out of the cache.
Dropped(q) ==
  \/ ~Fresh(q)
  \/ ~Up'
  \/ /\ Cardinality(DOMAIN cache) >= Cap
     /\ \A k \in DOMAIN cache \cap DOMAIN cache' : Fresh(k) /\ cache[q].expires <= cache[k].expires

(* The cache holds cache_max_entries answers at most, and gives one up before it expires only
   when all it holds are good, and none of them expires sooner. *)
EvictsSoonest ==
  [][/\ Cardinality(DOMAIN cache') <= Cap
     /\ \A q \in DOMAIN cache \ DOMAIN cache' : Dropped(q)]_<<filesVars, servingVars>>

=============================================================================
