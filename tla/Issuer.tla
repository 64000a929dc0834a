------------------------------- MODULE Issuer -------------------------------
(***************************************************************************)
(* Issuer controls over a chain that moves between the reads                *)
(* (protocols/src/issuer.rs), for stablecoin_check_restrictions and for     *)
(* compliance_screen_address, which also asks the sanctions sources         *)
(* (ops/stablecoin.rs, ops/compliance.rs, protocols/src/sanctions.rs).      *)
(*                                                                         *)
(* world.states[b] is the state at block or slot b: which tokens are        *)
(* paused, at which ones the address is frozen, of which it has an account  *)
(* and which ones start accounts frozen (Solana).  world.tokens are the     *)
(* registry's entries with a control to read, world.screeners what the      *)
(* sanctions vendors will say.  Details, methods and permanent delegates    *)
(* (which restrict nothing) are left out.                                   *)
(***************************************************************************)
EXTENDS Snapshots, SequencesExt, FiniteSetsExt

CONSTANTS
  IssuerStates, \* bound: the states the chain may move to
  IssuerCases   \* the calls

Checkers == {"stablecoin_check_restrictions", "compliance_screen_address"}
Controlled == UNION {ToSet(c.world.tokens) : c \in IssuerCases}
ChainState == IssuerStates \cup UNION {ToSet(c.world.states) : c \in IssuerCases}
Heard == {"hit", "clear", "error", "skipped"}

\* The registry names a token of a chain once (see Tokens).
ASSUME IssuerAssumption ==
  /\ StateLag \in Nat /\ MaxStates \in Nat
  /\ \A t \in Controlled : t.controls \in Seq({"frozen", "paused", "deprecated"})
  /\ \A c \in IssuerCases :
       /\ c.request.op \in Checkers
       /\ {"family", "tokens", "states"} \subseteq DOMAIN c.world
       /\ c.world.family \in {"evm", "solana"}
       /\ c.world.tokens \in Seq(Controlled) /\ c.world.states \in Seq(ChainState)
       /\ \A i, j \in DOMAIN c.world.tokens :
            c.world.tokens[i].name = c.world.tokens[j].name => i = j
       /\ c.request.op = "stablecoin_check_restrictions" =>
            c.request.token \in {"all", "one", "unknown"}
       /\ c.request.op = "compliance_screen_address" =>
            /\ c.request.issuers \in BOOLEAN
            /\ "screeners" \in DOMAIN c.world /\ c.world.screeners \in Seq(Heard)

Checking == request.op \in Checkers /\ answer.at \in {"pin", "checks", "accounts", "mint"}

Holds(b, kind, token) ==
  CASE kind = "frozen" -> token \in world.states[b].frozen
    [] kind = "paused" -> token \in world.states[b].paused
    [] kind = "deprecated" -> token \in world.states[b].deprecated

\* The tokens are checked one after the other; each is then in ok or in errors.
FirstRead == IF world.family = "evm" THEN "pin" ELSE "accounts"
Begin(tokens, screened) ==
  [at |-> FirstRead, left |-> tokens, reads |-> <<>>, block |-> 0, checks |-> {},
   ok |-> {}, errors |-> {}, screened |-> screened]

-----------------------------------------------------------------------------
(***************************************************************************)
(* The sanctions sources: every one is asked (fan_out).                     *)
(***************************************************************************)
Says(answers, what) == \E i \in DOMAIN answers : answers[i] = what

\* Mutant: a source that failed counts as one that answered.
MutantErrorsAnswer(screened, ok) ==
  IF Says(screened, "hit") \/ \E r \in ok : r.restricted THEN "blocked"
  ELSE IF screened # <<>> THEN "clear" ELSE "unknown"
Verdict(screened, ok) ==
  IF Says(screened, "hit") \/ \E r \in ok : r.restricted THEN "blocked"
  ELSE IF Says(screened, "clear") THEN "clear" ELSE "unknown"

\* The answer when there is no token left to check.
Concluded(a) ==
  IF request.op = "compliance_screen_address"
  THEN Reply([verdict |-> Verdict(a.screened, a.ok), results |-> a.ok, errors |-> a.errors])
  ELSE IF a.ok = {} THEN Refuse("AllProvidersFailed")
  ELSE Reply([restricted |-> \E r \in a.ok : r.restricted, results |-> a.ok, errors |-> a.errors])

OnToken(a) == IF a.left = <<>> THEN Concluded(a) ELSE [a EXCEPT !.at = FirstRead]

\* An issuer's checks can be left out; a chain may have none.
Screen ==
  /\ request.op = "compliance_screen_address" /\ answer = Asked
  /\ LET tokens == IF request.issuers THEN world.tokens ELSE <<>>
     IN answer' = OnToken(Begin(tokens, world.screeners))
  /\ UNCHANGED <<request, world>>

CheckRestrictions ==
  /\ request.op = "stablecoin_check_restrictions" /\ answer = Asked
  /\ answer' = IF request.token = "unknown" \/ world.tokens = <<>> THEN Refuse("InvalidInput")
               ELSE Begin(IF request.token = "all" THEN world.tokens ELSE SubSeq(world.tokens, 1, 1), <<>>)
  /\ UNCHANGED <<request, world>>

-----------------------------------------------------------------------------
(***************************************************************************)
(* The reads of a token.                                                    *)
(***************************************************************************)
Entry == Head(answer.left)

Result(checks, block) ==
  [token |-> Entry.name, block |-> block, checks |-> checks,
   restricted |-> \E c \in checks : c.restricted]

TokenDone(checks, block) ==
  ReadOn(OnToken([answer EXCEPT !.ok = @ \cup {Result(checks, block)}, !.left = Tail(@),
                                !.checks = {}, !.block = 0, !.reads = <<>>]))

\* EVM: one block for all the reads of a token.
PinBlock ==
  /\ Checking /\ answer.at = "pin"
  /\ \E b \in Recent : ReadOn([answer EXCEPT !.at = "checks", !.block = b, !.reads = Entry.controls])

\* The block the reads name.
\* Mutant: the reads name the latest block.
MutantLatest(b) == {Now}
BlockOf(b) == {b}

EvmCheck ==
  /\ Checking /\ answer.at = "checks"
  /\ IF answer.reads = <<>> THEN TokenDone(answer.checks, answer.block)
     ELSE \E b \in BlockOf(answer.block) :
            LET kind == Head(answer.reads) IN
            ReadOn([answer EXCEPT !.reads = Tail(@),
                      !.checks = @ \cup {[kind |-> kind, restricted |-> kind # "deprecated"
                                                                        /\ Holds(b, kind, Entry.name)]}])

\* Solana: the accounts at one slot, then the mint at another.
SolanaAccounts ==
  /\ Checking /\ answer.at = "accounts"
  /\ \E b \in Recent :
       ReadOn([answer EXCEPT !.at = "mint", !.block = b,
                 !.checks = {[kind |-> "frozen", restricted |-> /\ Entry.name \in world.states[b].accounts
                                                                 /\ Holds(b, "frozen", Entry.name)]},
                 !.reads = IF Entry.name \in world.states[b].accounts THEN <<"has account">> ELSE <<>>])

SolanaMint ==
  /\ Checking /\ answer.at = "mint"
  /\ \E b \in Recent :
       TokenDone(answer.checks
                 \cup (IF Holds(b, "paused", Entry.name) THEN {[kind |-> "paused", restricted |-> TRUE]} ELSE {})
                 \cup (IF Entry.name \in world.states[b].bornFrozen
                       THEN {[kind |-> "default frozen", restricted |-> answer.reads = <<>>]} ELSE {}),
                 answer.block)

\* A failure costs the answer for this token only.
CheckFails ==
  /\ Checking
  /\ ReadOn(OnToken([answer EXCEPT !.errors = @ \cup {Entry.name}, !.left = Tail(@),
                                   !.checks = {}, !.block = 0, !.reads = <<>>]))

IssuerActs == Checking /\ Advance(IssuerStates)

IssuerNext ==
  \/ Screen \/ CheckRestrictions \/ PinBlock \/ EvmCheck \/ SolanaAccounts \/ SolanaMint
  \/ CheckFails \/ IssuerActs

-----------------------------------------------------------------------------
(***************************************************************************)
(* Properties.                                                              *)
(***************************************************************************)
RepliedCheck == request.op \in Checkers /\ answer.at = "replied"

Controls(name) == UNION {ToSet(t.controls) : t \in {u \in ToSet(world.tokens) : u.name = name}}

(* "EVM reads are pinned to one block ... and the block is reported" (issuer.rs): what a
   result says of a token is what held, all at once, at the block it names, whatever the
   chain did between the reads.  On Solana that is only so of the token accounts. *)
ChecksOfOneBlock ==
  RepliedCheck =>
    \A r \in answer.out.results :
      IF world.family = "evm"
      THEN r.restricted <=> \E kind \in Controls(r.token) \ {"deprecated"} : Holds(r.block, kind, r.token)
      ELSE Holds(r.block, "frozen", r.token) /\ r.token \in world.states[r.block].accounts => r.restricted

(* "verdict=unknown means no sanctions source answered, so do not treat it as clear"
   (compliance_screen_address); restrictions name every token that could not be read: an
   all-clear is only given on the word of a sanctions source that answered, when no other
   source and no issuer objects, and no token is passed over in silence. *)
ClearMeansScreened ==
  RepliedCheck =>
    LET out == answer.out
        asked == IF request.op = "stablecoin_check_restrictions" /\ request.token = "one"
                 THEN {world.tokens[1].name} ELSE {t.name : t \in ToSet(world.tokens)}
        objected == {r \in out.results : r.restricted}
    IN /\ request.op = "compliance_screen_address" =>
            /\ out.verdict = "clear" <=> /\ Says(world.screeners, "clear")
                                         /\ ~Says(world.screeners, "hit") /\ objected = {}
            /\ out.verdict = "unknown" => ~Says(world.screeners, "clear")
       /\ request.op = "stablecoin_check_restrictions" =>
            out.results # {} /\ (out.restricted <=> objected # {})
       /\ (request.op = "stablecoin_check_restrictions" \/ request.issuers) =>
            asked = {r.token : r \in out.results} \cup out.errors
=============================================================================
