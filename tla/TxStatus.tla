------------------------------ MODULE TxStatus ------------------------------
(***************************************************************************)
(* tx_get and tx_status (src/crates/app/src/ops/tx.rs) while the chain      *)
(* moves on: each read of evm/tx.rs and solana/tx.rs sees the chain of its  *)
(* own instant, perhaps through a node that lags behind.                    *)
(*                                                                         *)
(* The chain has a height and the place of the one transaction (0: none).   *)
(* Only its last ReorgDepth blocks are ever replaced; a block is final      *)
(* FinalLag blocks below the head, which is more than the chain, the node   *)
(* and a reorganisation can move within the time of one lookup.  That is    *)
(* what the verdicts of the code rest on: a lookup is a few requests with a *)
(* timeout, finality takes minutes (EVM) or 32 slots (Solana).              *)
(***************************************************************************)
EXTENDS Request

CONSTANTS
  ReorgDepth,   \* how deep a reorganisation, or a fork switch, goes
  NodeLag,      \* how far behind a node may be
  LookupMoves,  \* how often the chain moves while a lookup runs
  SafeLag,      \* the distance of EVM's safe block
  FinalLag,     \* the distance of the final block
  MaxHeight,    \* bound: the height at which an instance ends
  StatusCases   \* the calls

ASSUME TxStatusAssumption ==
  /\ {ReorgDepth, NodeLag, LookupMoves, SafeLag, FinalLag, MaxHeight} \subseteq Nat
  /\ LookupMoves + NodeLag + ReorgDepth <= FinalLag
  /\ SafeLag <= FinalLag /\ ReorgDepth >= 1
  /\ \A c \in StatusCases :
       /\ c.request \in [op : {"tx_get", "tx_status"}, hash : {"valid", "malformed"},
                        expiry : {"given", "omitted"}]
       /\ c.world \in [family : {"evm", "solana"}, policy : {"finalized", "confirmed", "none"},
                      height : Nat, lastValid : Nat, place : {0}, ok : BOOLEAN, moves : {0}]

Op == {"tx_get", "tx_status"}
Looking == {"receipt", "finalized", "safe", "head", "fetch", "height"}
IsLookup == request.op \in Op

-----------------------------------------------------------------------------
(***************************************************************************)
(* The chain.                                                               *)
(***************************************************************************)
\* A Solana transaction is only included up to the last height its blockhash is valid at.
Includable(h) == world.family = "evm" \/ h <= world.lastValid

\* While a lookup runs, the chain moves LookupMoves times at most.
Move(height, place, ok) ==
  /\ answer.at \in Looking => world.moves < LookupMoves
  /\ world' = [world EXCEPT !.height = height, !.place = place, !.ok = ok,
                            !.moves = IF answer.at \in Looking THEN @ + 1 ELSE @]
  /\ UNCHANGED <<request, answer>>

Grow == world.height < MaxHeight /\ Move(world.height + 1, world.place, world.ok)

Include ==
  /\ world.place = 0 /\ world.height < MaxHeight /\ Includable(world.height + 1)
  /\ \E ok \in BOOLEAN : Move(world.height + 1, world.height + 1, ok)

\* Other blocks take the place of the last ones: the transaction is in one of them, or in none.
Reorganise ==
  /\ world.place = 0 \/ world.place > world.height - ReorgDepth
  /\ \/ world.place # 0 /\ Move(world.height, 0, world.ok)
     \/ \E place \in 1..world.height, ok \in BOOLEAN :
          /\ place > world.height - ReorgDepth /\ Includable(place)
          /\ Move(world.height, place, ok)

-----------------------------------------------------------------------------
(***************************************************************************)
(* The lookup: one action per read.                                         *)
(***************************************************************************)
At(place) == answer.at = place
GoOn(a) == answer' = a /\ UNCHANGED <<request, world>>

\* The head as the node that is asked knows it.
View == {h \in 0..world.height : h >= world.height - NodeLag}
KnownAt(h) == world.place # 0 /\ world.place <= h

Found(status, finality) ==
  Reply([status |-> status, finality |-> finality,
         settled |-> status = "success" /\ finality = "finalized"])
Outcome(ok) == IF ok THEN "success" ELSE "failed"

\* No node knows the transaction.
Unseen ==
  IF request.op = "tx_get" THEN Refuse("NotFound")
  ELSE IF world.family = "solana" /\ request.expiry = "given" THEN [at |-> "height"]
  ELSE Found("not_found", "unknown")

\* A hash of the wrong form is refused before anything is read.
Malformed == At("asked") /\ request.hash = "malformed" /\ GoOn(Refuse("InvalidInput"))

ReadFails ==
  /\ answer.at \in Looking \cup {"asked"} /\ request.hash = "valid"
  /\ \E e \in ProviderError : GoOn(Refuse(CodeOf(e)))

\* EVM: the transaction by its hash; a node may or may not have it in its pool.
EvmByHash ==
  /\ At("asked") /\ world.family = "evm" /\ request.hash = "valid"
  /\ \E h \in View :
       IF KnownAt(h) THEN GoOn([at |-> "receipt"])
       ELSE GoOn(Unseen) \/ GoOn(Found("pending", "pending"))

EvmReceipt ==
  /\ At("receipt")
  /\ \E h \in View :
       IF KnownAt(h)
       THEN GoOn([at |-> IF world.policy = "finalized" THEN "finalized" ELSE "head",
                  number |-> world.place, ok |-> world.ok])
       ELSE GoOn(Found("pending", "pending"))

\* finality_of: the tags in turn, which a node may not support, then the head.
EvmFinalized ==
  /\ At("finalized")
  /\ \/ \E h \in View :
          IF answer.number <= h - FinalLag
          THEN GoOn(Found(Outcome(answer.ok), "finalized")) ELSE GoOn([answer EXCEPT !.at = "safe"])
     \/ GoOn([answer EXCEPT !.at = "safe"])

EvmSafe ==
  /\ At("safe")
  /\ \/ \E h \in View :
          IF answer.number <= h - SafeLag
          THEN GoOn(Found(Outcome(answer.ok), "safe")) ELSE GoOn([answer EXCEPT !.at = "head"])
     \/ GoOn([answer EXCEPT !.at = "head"])

EvmHead == At("head") /\ GoOn(Found(Outcome(answer.ok), "confirmed"))

\* Solana: the status first.  Deeper than any fork is "confirmed", and final where the
\* chain's policy says so.
FromStatus(h) ==
  CASE world.place <= h - FinalLag -> "finalized"
    [] world.place > h - FinalLag /\ world.place <= h - ReorgDepth ->
         IF world.policy = "confirmed" THEN "finalized" ELSE "confirmed"
    [] world.place > h - FinalLag /\ world.place > h - ReorgDepth -> "pending"

SolanaStatus ==
  /\ At("asked") /\ world.family = "solana" /\ request.hash = "valid"
  /\ \E h \in View :
       IF KnownAt(h) THEN GoOn([at |-> "fetch", finality |-> FromStatus(h)]) ELSE GoOn(Unseen)

\* getTransaction serves nothing below "confirmed".
SolanaFetch ==
  /\ At("fetch")
  /\ \E h \in View :
       IF KnownAt(h) /\ world.place <= h - ReorgDepth
       THEN GoOn(Found(Outcome(world.ok), answer.finality))
       ELSE GoOn(Found("pending", "pending"))

\* unseen_solana_status: expired once the final height has passed the last valid one.
\* Mutant: the height of the head is asked for.
MutantHeadHeight ==
  /\ At("height")
  /\ \E h \in View :
       GoOn(Found(IF h > world.lastValid THEN "dropped" ELSE "pending", "unknown"))
SolanaHeight ==
  /\ At("height")
  /\ \E h \in View :
       GoOn(Found(IF h - FinalLag > world.lastValid THEN "dropped" ELSE "pending", "unknown"))

LookUp ==
  \/ Malformed \/ ReadFails
  \/ EvmByHash \/ EvmReceipt \/ EvmFinalized \/ EvmSafe \/ EvmHead
  \/ SolanaStatus \/ SolanaFetch \/ SolanaHeight

ChainMoves == Grow \/ Include \/ Reorganise

StatusNext == IsLookup /\ (LookUp \/ ChainMoves)

-----------------------------------------------------------------------------
(***************************************************************************)
(* Properties.                                                              *)
(***************************************************************************)
(* The final verdicts stay true for as long as the chain goes on: "settled" (tx_status) is a
   transaction that succeeded and will never be undone, a final failure one that will never
   succeed, and "dropped" one that will never be included, so that it is safe to send again. *)
VerdictIsFinal ==
  IsLookup /\ answer.at = "replied" =>
    LET out == answer.out IN
    /\ out.settled => world.place # 0 /\ world.ok
    /\ out.status = "failed" /\ out.finality = "finalized" => world.place # 0 /\ ~world.ok
    /\ out.status = "dropped" => world.place = 0
=============================================================================
