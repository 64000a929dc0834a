-------------------------- MODULE OperationsProofs --------------------------
(***************************************************************************)
(* Theorems about Operations, for any calls and any chain that moves within *)
(* its bounds: the verdicts of TxStatus, the restrictions of Issuer, the    *)
(* card of Neobank, the assets of Tokens, the pages of History, the         *)
(* messages of Sending, and the prices, swaps, payments and statements that *)
(* AmountProofs is about.  Each operation has its own inductive invariant;  *)
(* the last section puts them together.                                     *)
(***************************************************************************)
EXTENDS Operations, AmountProofs

-----------------------------------------------------------------------------
(***************************************************************************)
(* The inductive invariant: what a lookup has read was true when it read    *)
(* it, and what the chain may have changed since is not old enough to be    *)
(* called final.                                                            *)
(***************************************************************************)
WorldRecord ==
  [family : {"evm", "solana"}, policy : {"finalized", "confirmed", "none"},
   height : Nat, lastValid : Nat, place : Nat, ok : BOOLEAN, moves : Nat]

Outcomes == {"success", "failed", "pending", "dropped", "not_found"}
Finalities == {"finalized", "safe", "confirmed", "pending", "unknown"}
ReceiptDated == [at : {"finalized", "safe", "head"}, number : Nat \ {0}, ok : BOOLEAN]
StatusRated == [at : {"fetch"}, finality : Finalities]
StatusReply == [at : {"replied"}, out : [status : Outcomes, finality : Finalities, settled : BOOLEAN]]

StatusTypeOK ==
  /\ request.op \in Op
  /\ world \in WorldRecord
  /\ answer.at \in {"asked", "refused", "receipt", "height"} \/ answer \in ReceiptDated \cup StatusRated \cup StatusReply
  /\ answer.at \in Looking => world.moves <= LookupMoves
  /\ answer.at = "asked" => world.moves = 0
  /\ answer.at = "height" => world.family = "solana"

\* A Solana transaction is not included above the last valid height.
InTime == world.family = "solana" => world.place <= world.lastValid

\* Deeper than any reorganisation goes.
Deep == world.place # 0 /\ world.place <= world.height - ReorgDepth

\* The receipt still holds, or has been replaced since, near the head.
ReceiptHolds ==
  answer.at \in {"finalized", "safe", "head"} =>
    \/ answer.number = world.place /\ answer.ok = world.ok
    \/ answer.number > world.height - world.moves - ReorgDepth

\* A status that was called final is deep.
StatusHolds == answer.at = "fetch" /\ answer.finality = "finalized" => Deep

\* A transaction that was not seen is in no block, or in a late one.
UnseenHolds ==
  answer.at = "height" =>
    \/ world.place = 0
    \/ world.place > world.height - world.moves - NodeLag - ReorgDepth

VerdictHolds ==
  answer.at = "replied" =>
    LET out == answer.out IN
    /\ out.settled => Deep /\ world.ok
    /\ out.status = "failed" /\ out.finality = "finalized" => Deep /\ ~world.ok
    /\ out.status = "dropped" =>
         /\ world.place = 0 /\ world.family = "solana"
         /\ world.height - FinalLag > world.lastValid

StatusInv == StatusTypeOK /\ InTime /\ ReceiptHolds /\ StatusHolds /\ UnseenHolds /\ VerdictHolds

-----------------------------------------------------------------------------
(***************************************************************************)
(* The chain moves.                                                         *)
(***************************************************************************)
(* A move adds a block or replaces late ones, and is counted while a lookup runs. *)
LEMMA MoveFacts ==
  ASSUME StatusTypeOK, ChainMoves
  PROVE  /\ UNCHANGED <<request, answer>> /\ world' \in WorldRecord
         /\ world'.family = world.family /\ world'.lastValid = world.lastValid
         /\ answer.at \in Looking => world'.moves = world.moves + 1 /\ world'.moves <= LookupMoves
         /\ answer.at \notin Looking => world'.moves = world.moves
         /\ world'.height \in {world.height, world.height + 1}
         /\ \/ world'.place = world.place /\ world'.ok = world.ok
            \/ /\ world.place = 0 \/ world.place > world.height - ReorgDepth
               /\ \/ world'.place = 0
                  \/ /\ world'.place > world.height - ReorgDepth /\ Includable(world'.place)
                     /\ world'.place <= world'.height
<1> USE DEF StatusTypeOK
<1>1. /\ world \in WorldRecord /\ world.height \in Nat /\ ReorgDepth \in Nat
      /\ ReorgDepth >= 1
  BY TxStatusAssumption DEF WorldRecord
<1>2. ASSUME NEW h \in Nat, NEW p \in Nat, NEW o \in BOOLEAN, Move(h, p, o)
      PROVE  /\ UNCHANGED <<request, answer>> /\ world' \in WorldRecord
             /\ world'.family = world.family /\ world'.lastValid = world.lastValid
             /\ answer.at \in Looking => world'.moves = world.moves + 1 /\ world'.moves <= LookupMoves
             /\ answer.at \notin Looking => world'.moves = world.moves
             /\ world'.height = h /\ world'.place = p /\ world'.ok = o
  <2>1. /\ UNCHANGED <<request, answer>>
        /\ answer.at \in Looking => world.moves < LookupMoves
        /\ world' = [world EXCEPT !.height = h, !.place = p, !.ok = o,
                                  !.moves = IF answer.at \in Looking THEN @ + 1 ELSE @]
    BY <1>2 DEF Move
  <2>2. world.moves \in Nat /\ LookupMoves \in Nat
    BY <1>1, TxStatusAssumption DEF WorldRecord
  <2> DEFINE m == IF answer.at \in Looking THEN world.moves + 1 ELSE world.moves
  <2>4. m \in Nat /\ (answer.at \in Looking => m <= LookupMoves)
    BY <2>1, <2>2
  <2>5. /\ world' \in WorldRecord /\ world'.family = world.family /\ world'.lastValid = world.lastValid
        /\ world'.moves = m /\ world'.height = h /\ world'.place = p /\ world'.ok = o
    BY <1>1, <2>1, <2>4 DEF WorldRecord
  <2>6. QED
    BY <2>1, <2>4, <2>5
<1>3. CASE Grow
  <2>1. Move(world.height + 1, world.place, world.ok) /\ world.place \in Nat /\ world.ok \in BOOLEAN
    BY <1>1, <1>3 DEF Grow, WorldRecord
  <2>2. QED
    BY <1>1, <1>2, <2>1
<1>4. CASE Include
  <2>1. PICK o \in BOOLEAN : Move(world.height + 1, world.height + 1, o)
    BY <1>4 DEF Include
  <2>2. world.place = 0 /\ Includable(world.height + 1)
    BY <1>4 DEF Include
  <2>3. /\ UNCHANGED <<request, answer>> /\ world' \in WorldRecord
        /\ world'.family = world.family /\ world'.lastValid = world.lastValid
        /\ answer.at \in Looking => world'.moves = world.moves + 1 /\ world'.moves <= LookupMoves
        /\ answer.at \notin Looking => world'.moves = world.moves
        /\ world'.height = world.height + 1 /\ world'.place = world.height + 1
    BY <1>1, <1>2, <2>1
  <2>4. QED
    BY <1>1, <2>2, <2>3
<1>5. CASE Reorganise
  <2>1. world.place = 0 \/ world.place > world.height - ReorgDepth
    BY <1>5 DEF Reorganise
  <2>2. PICK p \in Nat, o \in BOOLEAN :
          /\ Move(world.height, p, o)
          /\ p = 0 \/ (p > world.height - ReorgDepth /\ Includable(p) /\ p <= world.height)
    <3>1. CASE Move(world.height, 0, world.ok)
      <4>1. 0 \in Nat /\ world.ok \in BOOLEAN
        BY <1>1 DEF WorldRecord
      <4>2. QED
        BY <3>1, <4>1, Zenon
    <3>2. ASSUME NEW p \in 1..world.height, NEW o \in BOOLEAN,
                 p > world.height - ReorgDepth /\ Includable(p) /\ Move(world.height, p, o)
          PROVE  p \in Nat /\ p <= world.height
      BY <1>1, <3>2
    <3>3. QED
      BY <1>5, <3>1, <3>2 DEF Reorganise
  <2>3. /\ UNCHANGED <<request, answer>> /\ world' \in WorldRecord
        /\ world'.family = world.family /\ world'.lastValid = world.lastValid
        /\ answer.at \in Looking => world'.moves = world.moves + 1 /\ world'.moves <= LookupMoves
        /\ answer.at \notin Looking => world'.moves = world.moves
        /\ world'.height = world.height /\ world'.place = p
    BY <1>1, <1>2, <2>2
  <2>4. QED
    BY <2>1, <2>2, <2>3
<1>6. QED
  BY <1>3, <1>4, <1>5 DEF ChainMoves

(* No move undoes what is deep, nor makes a late inclusion look early. *)
LEMMA ChainStep ==
  ASSUME StatusInv, ChainMoves
  PROVE  StatusInv'
<1> USE DEF StatusInv
<1>1. /\ {ReorgDepth, NodeLag, LookupMoves, FinalLag} \subseteq Nat
      /\ LookupMoves + NodeLag + ReorgDepth <= FinalLag
  BY TxStatusAssumption
<1>2. /\ UNCHANGED <<request, answer>> /\ world \in WorldRecord /\ world' \in WorldRecord
      /\ world.height \in Nat /\ world.place \in Nat /\ world.moves \in Nat /\ world.lastValid \in Nat
      /\ world'.height \in Nat /\ world'.place \in Nat /\ world'.moves \in Nat
  BY MoveFacts DEF StatusTypeOK, WorldRecord
<1>3. StatusTypeOK'
  BY <1>2, MoveFacts DEF StatusTypeOK, Looking
<1>4. InTime'
  BY <1>2, MoveFacts DEF InTime, Includable
<1>5. Deep => Deep' /\ world'.ok = world.ok
  BY <1>1, <1>2, MoveFacts DEF Deep
<1>6. ReceiptHolds'
  <2>1. SUFFICES ASSUME answer.at \in {"finalized", "safe", "head"}
        PROVE  \/ answer.number = world'.place /\ answer.ok = world'.ok
               \/ answer.number > world'.height - world'.moves - ReorgDepth
    BY <1>2 DEF ReceiptHolds
  <2>2. world'.moves = world.moves + 1 /\ answer \in ReceiptDated /\ answer.number \in Nat \ {0}
    BY <2>1, MoveFacts DEF StatusTypeOK, Looking, ReceiptDated, StatusRated, StatusReply
  <2>3. CASE answer.number = world.place /\ answer.ok = world.ok
    BY <1>1, <1>2, <2>2, <2>3, MoveFacts
  <2>4. CASE answer.number > world.height - world.moves - ReorgDepth
    BY <1>1, <1>2, <2>2, <2>4, MoveFacts
  <2>5. QED
    BY <2>1, <2>3, <2>4 DEF ReceiptHolds
<1>7. StatusHolds'
  BY <1>2, <1>5 DEF StatusHolds
<1>8. UnseenHolds'
  <2>1. SUFFICES ASSUME answer.at = "height", world'.place # 0
        PROVE  world'.place > world'.height - world'.moves - NodeLag - ReorgDepth
    BY <1>2 DEF UnseenHolds
  <2>2. world'.moves = world.moves + 1
    BY <2>1, MoveFacts DEF Looking
  <2>3. QED
    BY <1>1, <1>2, <2>1, <2>2, MoveFacts DEF UnseenHolds
<1>9. VerdictHolds'
  <2>1. SUFFICES ASSUME answer.at = "replied", answer.out.status = "dropped", world.place = 0,
                        world.family = "solana", world.height - FinalLag > world.lastValid
        PROVE  /\ world'.place = 0 /\ world'.family = "solana"
               /\ world'.height - FinalLag > world'.lastValid
    BY <1>2, <1>5 DEF VerdictHolds
  <2>2. QED
    BY <1>1, <1>2, <2>1, MoveFacts DEF Includable
<1>10. QED
  BY <1>3, <1>4, <1>6, <1>7, <1>8, <1>9

-----------------------------------------------------------------------------
(***************************************************************************)
(* The reads.                                                               *)
(***************************************************************************)
(* What a node knows is at most NodeLag blocks old. *)
LEMMA ViewFacts ==
  ASSUME StatusTypeOK, NEW h \in View
  PROVE  /\ h \in Nat /\ h <= world.height /\ h >= world.height - NodeLag
         /\ KnownAt(h) => world.place # 0 /\ world.place <= h
         /\ ~KnownAt(h) => world.place = 0 \/ world.place > world.height - NodeLag
BY TxStatusAssumption DEF StatusTypeOK, WorldRecord, View, KnownAt

(* A verdict that claims nothing final. *)
LEMMA Tentative ==
  ASSUME StatusInv, UNCHANGED <<request, world>>,
         NEW s \in Outcomes, NEW f \in Finalities, answer' = Found(s, f),
         s # "dropped", f = "finalized" => s \notin {"success", "failed"}
  PROVE  StatusInv'
<1>1. /\ Found(s, f) \in StatusReply /\ Found(s, f).at = "replied"
      /\ Found(s, f).out.status = s /\ Found(s, f).out.finality = f
      /\ Found(s, f).out.settled = (s = "success" /\ f = "finalized")
  BY DEF Found, Reply, StatusReply
<1>2. QED
  BY <1>1
  DEF StatusInv, StatusTypeOK, InTime, ReceiptHolds, StatusHolds, UnseenHolds, VerdictHolds, Looking

(* A verdict on a transaction that is deep. *)
LEMMA Settled ==
  ASSUME StatusInv, UNCHANGED <<request, world>>, Deep, NEW f \in Finalities,
         answer' = Found(Outcome(world.ok), f)
  PROVE  StatusInv'
<1> DEFINE s == Outcome(world.ok)
<1>0. world.ok \in BOOLEAN
  BY DEF StatusInv, StatusTypeOK, WorldRecord
<1>1. s \in Outcomes /\ s # "dropped" /\ (s = "success" => world.ok) /\ (s = "failed" => ~world.ok)
  BY <1>0 DEF Outcome, Outcomes
<1>2. /\ Found(s, f) \in StatusReply /\ Found(s, f).at = "replied"
      /\ Found(s, f).out.status = s /\ Found(s, f).out.finality = f
      /\ Found(s, f).out.settled = (s = "success" /\ f = "finalized")
  BY <1>1 DEF Found, Reply, StatusReply
<1>3. QED
  BY <1>1, <1>2
  DEF StatusInv, StatusTypeOK, InTime, Deep, ReceiptHolds, StatusHolds, UnseenHolds, VerdictHolds, Looking

(* An error, or the next question, says nothing yet. *)
LEMMA Silent ==
  ASSUME StatusInv, UNCHANGED <<request, world>>,
         answer'.at \in {"refused", "receipt"}, answer.at = "asked" \/ answer'.at = "refused"
  PROVE  StatusInv'
BY TxStatusAssumption
DEF StatusInv, StatusTypeOK, InTime, ReceiptHolds, StatusHolds, UnseenHolds, VerdictHolds, Looking, WorldRecord

(* Nobody knows the transaction. *)
LEMMA UnseenStep ==
  ASSUME StatusInv, NEW h \in View, ~KnownAt(h), answer.at = "asked", GoOn(Unseen)
  PROVE  StatusInv'
<1>1. UNCHANGED <<request, world>> /\ answer' = Unseen
  BY DEF GoOn
<1>2. CASE request.op = "tx_get"
  BY <1>1, <1>2, Silent DEF Unseen, Refuse
<1>3. CASE request.op # "tx_get" /\ world.family = "solana" /\ request.expiry = "given"
  <2>1. answer' = [at |-> "height"]
    BY <1>1, <1>3 DEF Unseen
  <2>2. world.place = 0 \/ world.place > world.height - world.moves - NodeLag - ReorgDepth
    BY ViewFacts, TxStatusAssumption DEF StatusInv, StatusTypeOK, WorldRecord
  <2>3. QED
    BY <1>1, <1>3, <2>1, <2>2, TxStatusAssumption
    DEF StatusInv, StatusTypeOK, InTime, ReceiptHolds, StatusHolds, UnseenHolds, VerdictHolds,
        Looking, WorldRecord
<1>4. CASE request.op # "tx_get" /\ ~(world.family = "solana" /\ request.expiry = "given")
  BY <1>1, <1>4, Tentative DEF Unseen, Outcomes, Finalities
<1>5. QED
  BY <1>2, <1>3, <1>4

(* One read, or the lack of it. *)
LEMMA LookStep ==
  ASSUME StatusInv, LookUp
  PROVE  StatusInv'
<1> USE DEF StatusInv
<1>1. /\ {ReorgDepth, NodeLag, LookupMoves, SafeLag, FinalLag} \subseteq Nat
      /\ LookupMoves + NodeLag + ReorgDepth <= FinalLag /\ SafeLag <= FinalLag
      /\ world \in WorldRecord /\ world.height \in Nat /\ world.place \in Nat
      /\ world.moves \in Nat /\ world.lastValid \in Nat /\ world.ok \in BOOLEAN
  BY TxStatusAssumption DEF StatusTypeOK, WorldRecord
<1>2. CASE Malformed \/ ReadFails
  <2>1. UNCHANGED <<request, world>> /\ answer'.at = "refused"
    BY <1>2 DEF Malformed, ReadFails, GoOn, Refuse
  <2>2. QED
    BY <2>1, Silent
<1>3. CASE EvmByHash
  <2>1. answer.at = "asked"
    BY <1>3 DEF EvmByHash, At
  <2>2. PICK h \in View :
          \/ GoOn([at |-> "receipt"])
          \/ ~KnownAt(h) /\ GoOn(Unseen)
          \/ GoOn(Found("pending", "pending"))
    BY <1>3 DEF EvmByHash
  <2>3. CASE GoOn([at |-> "receipt"])
    BY <2>1, <2>3, Silent DEF GoOn
  <2>4. CASE ~KnownAt(h) /\ GoOn(Unseen)
    BY <2>1, <2>4, UnseenStep
  <2>5. CASE GoOn(Found("pending", "pending"))
    BY <2>5, Tentative DEF GoOn, Outcomes, Finalities
  <2>6. QED
    BY <2>2, <2>3, <2>4, <2>5
<1>4. CASE EvmReceipt
  <2>1. PICK h \in View :
          \/ /\ KnownAt(h)
             /\ GoOn([at |-> IF world.policy = "finalized" THEN "finalized" ELSE "head",
                      number |-> world.place, ok |-> world.ok])
          \/ GoOn(Found("pending", "pending"))
    BY <1>4 DEF EvmReceipt
  <2>2. CASE KnownAt(h) /\ GoOn([at |-> IF world.policy = "finalized" THEN "finalized" ELSE "head",
                                number |-> world.place, ok |-> world.ok])
    <3>1. /\ UNCHANGED <<request, world>> /\ answer' \in ReceiptDated
          /\ answer'.number = world.place /\ answer'.ok = world.ok
          /\ answer'.at \in {"finalized", "head"} /\ answer.at = "receipt"
      BY <1>1, <1>4, <2>2, ViewFacts DEF GoOn, KnownAt, ReceiptDated, EvmReceipt, At
    <3>2. QED
      BY <3>1 DEF StatusTypeOK, InTime, ReceiptHolds, StatusHolds, UnseenHolds, VerdictHolds, Looking
  <2>3. CASE GoOn(Found("pending", "pending"))
    BY <2>3, Tentative DEF GoOn, Outcomes, Finalities
  <2>4. QED
    BY <2>1, <2>2, <2>3
<1>5. ASSUME answer \in ReceiptDated, UNCHANGED <<request, world>>, answer' \in ReceiptDated,
             answer'.number = answer.number, answer'.ok = answer.ok
      PROVE  StatusInv'
  <2>1. answer.at \in {"finalized", "safe", "head"} /\ answer'.at \in {"finalized", "safe", "head"}
    BY <1>5 DEF ReceiptDated
  <2>2. QED
    BY <1>5, <2>1 DEF StatusTypeOK, InTime, ReceiptHolds, StatusHolds, UnseenHolds, VerdictHolds, Looking
<1>6. answer.at \in {"finalized", "safe", "head"} =>
        /\ answer \in ReceiptDated /\ answer.ok \in BOOLEAN /\ Outcome(answer.ok) \in {"success", "failed"}
        /\ answer.number \in Nat \ {0}
        /\ [answer EXCEPT !.at = "safe"] \in ReceiptDated /\ [answer EXCEPT !.at = "head"] \in ReceiptDated
        /\ [answer EXCEPT !.at = "safe"].number = answer.number /\ [answer EXCEPT !.at = "safe"].ok = answer.ok
        /\ [answer EXCEPT !.at = "head"].number = answer.number /\ [answer EXCEPT !.at = "head"].ok = answer.ok
  BY DEF StatusTypeOK, ReceiptDated, StatusRated, StatusReply, Outcome
<1>7. CASE EvmFinalized
  <2>1. answer.at = "finalized" /\ UNCHANGED <<request, world>>
    BY <1>7 DEF EvmFinalized, At, GoOn
  <2>2. CASE answer' = [answer EXCEPT !.at = "safe"]
    BY <1>5, <1>6, <2>1, <2>2
  <2>3. ASSUME NEW h \in View, answer.number <= h - FinalLag,
               answer' = Found(Outcome(answer.ok), "finalized")
        PROVE  StatusInv'
    <3>1. answer.number = world.place /\ answer.ok = world.ok /\ Deep
      BY <1>1, <1>6, <2>1, <2>3, ViewFacts DEF ReceiptHolds, StatusTypeOK, Looking, Deep
    <3>2. QED
      BY <2>1, <2>3, <3>1, Settled DEF Finalities
  <2>4. QED
    BY <1>7, <2>2, <2>3 DEF EvmFinalized, GoOn
<1>8. CASE EvmSafe
  <2>1. answer.at = "safe" /\ UNCHANGED <<request, world>>
    BY <1>8 DEF EvmSafe, At, GoOn
  <2>2. CASE answer' = [answer EXCEPT !.at = "head"]
    BY <1>5, <1>6, <2>1, <2>2
  <2>3. CASE answer' = Found(Outcome(answer.ok), "safe")
    BY <1>6, <2>1, <2>3, Tentative DEF Outcomes, Finalities
  <2>4. QED
    BY <1>8, <2>2, <2>3 DEF EvmSafe, GoOn
<1>9. CASE EvmHead
  <2>1. answer.at = "head" /\ UNCHANGED <<request, world>> /\ answer' = Found(Outcome(answer.ok), "confirmed")
    BY <1>9 DEF EvmHead, At, GoOn
  <2>2. QED
    BY <1>6, <2>1, Tentative DEF Outcomes, Finalities
<1>10. CASE SolanaStatus
  <2>1. answer.at = "asked" /\ UNCHANGED <<request, world>> /\ world.moves = 0
    BY <1>10 DEF SolanaStatus, At, GoOn, StatusTypeOK
  <2>2. PICK h \in View :
          \/ KnownAt(h) /\ answer' = [at |-> "fetch", finality |-> FromStatus(h)]
          \/ ~KnownAt(h) /\ GoOn(Unseen)
    BY <1>10 DEF SolanaStatus, GoOn
  <2>3. CASE KnownAt(h) /\ answer' = [at |-> "fetch", finality |-> FromStatus(h)]
    <3>1. h \in Nat /\ h <= world.height /\ world.place # 0 /\ world.place <= h
      BY <2>3, ViewFacts
    <3>2. /\ FromStatus(h) \in Finalities
          /\ FromStatus(h) = "finalized" => world.place <= h - ReorgDepth
      BY <1>1, <3>1 DEF FromStatus, Finalities
    <3>3. FromStatus(h) = "finalized" => Deep
      BY <1>1, <3>1, <3>2 DEF Deep
    <3>4. answer' \in StatusRated /\ answer'.at = "fetch" /\ answer'.finality = FromStatus(h)
      BY <2>3, <3>2 DEF StatusRated
    <3>5. QED
      BY <1>1, <2>1, <3>3, <3>4
      DEF StatusTypeOK, InTime, Deep, ReceiptHolds, StatusHolds, UnseenHolds, VerdictHolds, Looking
  <2>4. CASE ~KnownAt(h) /\ GoOn(Unseen)
    BY <2>1, <2>4, UnseenStep
  <2>5. QED
    BY <2>2, <2>3, <2>4
<1>11. CASE SolanaFetch
  <2>1. answer.at = "fetch" /\ UNCHANGED <<request, world>> /\ answer.finality \in Finalities
    BY <1>11 DEF SolanaFetch, At, GoOn, StatusTypeOK, ReceiptDated, StatusRated, StatusReply
  <2>2. CASE answer' = Found("pending", "pending")
    BY <2>1, <2>2, Tentative DEF Outcomes, Finalities
  <2>3. CASE answer' = Found(Outcome(world.ok), answer.finality)
    <3>1. CASE answer.finality = "finalized"
      BY <2>1, <2>3, <3>1, Settled DEF StatusHolds
    <3>2. CASE answer.finality # "finalized"
      BY <1>1, <2>1, <2>3, <3>2, Tentative DEF Outcome, Outcomes
    <3>3. QED
      BY <3>1, <3>2
  <2>4. QED
    BY <1>11, <2>2, <2>3 DEF SolanaFetch, GoOn
<1>12. CASE SolanaHeight
  <2>1. answer.at = "height" /\ UNCHANGED <<request, world>> /\ world.family = "solana"
    BY <1>12 DEF SolanaHeight, At, GoOn, StatusTypeOK
  <2>2. PICK h \in View :
          answer' = Found(IF h - FinalLag > world.lastValid THEN "dropped" ELSE "pending", "unknown")
    BY <1>12 DEF SolanaHeight, GoOn
  <2>3. CASE ~(h - FinalLag > world.lastValid)
    BY <2>1, <2>2, <2>3, Tentative DEF Outcomes, Finalities
  <2>4. CASE h - FinalLag > world.lastValid
    <3>1. world.height - FinalLag > world.lastValid
      BY <1>1, <2>4, ViewFacts
    <3>2. world.moves <= LookupMoves
      BY <2>1 DEF StatusTypeOK, Looking
    <3>3. world.place = 0
      BY <1>1, <2>1, <3>1, <3>2 DEF UnseenHolds, InTime
    <3>4. /\ answer' \in StatusReply /\ answer'.at = "replied" /\ answer'.out.status = "dropped"
          /\ answer'.out.settled = FALSE /\ answer'.out.finality = "unknown"
      BY <2>2, <2>4 DEF Found, Reply, StatusReply, Outcomes, Finalities
    <3>5. QED
      BY <2>1, <3>1, <3>3, <3>4
      DEF StatusTypeOK, InTime, ReceiptHolds, StatusHolds, UnseenHolds, VerdictHolds, Looking
  <2>5. QED
    BY <2>3, <2>4
<1>13. QED
  BY <1>2, <1>3, <1>4, <1>7, <1>8, <1>9, <1>10, <1>11, <1>12 DEF LookUp

-----------------------------------------------------------------------------
(* A lookup starts with nothing read, of a transaction that is in no block. *)
LEMMA StatusStart == StartIn(StatusCases) => StatusInv
<1>1. SUFFICES ASSUME NEW c \in StatusCases, request = c.request, world = c.world, answer = Asked
      PROVE  StatusInv
  BY DEF StartIn
<1>2. /\ request.op \in Op /\ world \in WorldRecord /\ world.place = 0 /\ world.moves = 0
      /\ world.lastValid \in Nat /\ answer.at = "asked"
  <2>1. /\ c.request \in [op : Op, hash : {"valid", "malformed"}, expiry : {"given", "omitted"}]
        /\ c.world \in [family : {"evm", "solana"}, policy : {"finalized", "confirmed", "none"},
                       height : Nat, lastValid : Nat, place : {0}, ok : BOOLEAN, moves : {0}]
    BY TxStatusAssumption DEF Op
  <2>2. c.world.place = 0 /\ c.world.moves = 0 /\ c.world.lastValid \in Nat
    BY <2>1
  <2>3. c.world \in WorldRecord
    BY <2>1 DEF WorldRecord
  <2>4. c.request.op \in Op
    BY <2>1
  <2>5. QED
    BY <1>1, <2>2, <2>3, <2>4 DEF Asked
<1>3. QED
  BY <1>2
  DEF StatusInv, StatusTypeOK, InTime, ReceiptHolds, StatusHolds, UnseenHolds, VerdictHolds, Looking

(* The chain and the lookup, in whichever order, keep the invariant. *)
LEMMA StatusStep == StatusInv /\ [StatusNext]_vars => StatusInv'
<1>1. SUFFICES ASSUME StatusInv, [StatusNext]_vars PROVE StatusInv'
  OBVIOUS
<1>2. CASE UNCHANGED vars
  BY <1>1, <1>2
  DEF vars, StatusInv, StatusTypeOK, InTime, Deep, ReceiptHolds, StatusHolds, UnseenHolds, VerdictHolds
<1>3. QED
  BY <1>1, <1>2, LookStep, ChainStep DEF StatusNext

-----------------------------------------------------------------------------
(***************************************************************************)
(* Issuer: the inductive invariant.  A token's checks are made of the block *)
(* that was pinned for it, and every token is in left, in ok or in errors.  *)
(***************************************************************************)
CheckKind == {"frozen", "paused", "deprecated", "default frozen"}
TokenCheckRecord == [kind : CheckKind, restricted : BOOLEAN]
TokenName == {t.name : t \in Controlled}
TokenResult ==
  [token : TokenName, block : Nat, checks : SUBSET TokenCheckRecord, restricted : BOOLEAN]
EvmPlaces == {"pin", "checks"}
SolanaPlaces == {"accounts", "mint"}
Ongoing ==
  [at : EvmPlaces \cup SolanaPlaces, left : Seq(Controlled),
   reads : Seq({"frozen", "paused", "deprecated", "has account"}), block : Nat,
   checks : SUBSET TokenCheckRecord, ok : SUBSET TokenResult, errors : SUBSET TokenName,
   screened : Seq(Heard)]

CheckedWorld ==
  /\ request.op \in Checkers
  /\ {"family", "tokens", "states"} \subseteq DOMAIN world
  /\ world.family \in {"evm", "solana"}
  /\ world.tokens \in Seq(Controlled) /\ world.states \in Seq(ChainState)
  /\ \A i, j \in DOMAIN world.tokens : world.tokens[i].name = world.tokens[j].name => i = j
  /\ request.op = "stablecoin_check_restrictions" => request.token \in {"all", "one", "unknown"}
  /\ request.op = "compliance_screen_address" =>
       request.issuers \in BOOLEAN /\ "screeners" \in DOMAIN world /\ world.screeners \in Seq(Heard)

\* The tokens a call is about.
AskedNames ==
  IF request.op = "stablecoin_check_restrictions" /\ request.token = "one"
  THEN {world.tokens[1].name} ELSE {t.name : t \in ToSet(world.tokens)}
NamesAsked == request.op = "stablecoin_check_restrictions" \/ request.issuers

\* What a result says was so at its block.
ResultHolds(r) ==
  /\ r.block \in 1..Now
  /\ IF world.family = "evm"
     THEN r.restricted <=> \E kind \in Controls(r.token) \ {"deprecated"} : Holds(r.block, kind, r.token)
     ELSE Holds(r.block, "frozen", r.token) /\ r.token \in world.states[r.block].accounts => r.restricted

Carried(a) ==
  /\ a \in Ongoing
  /\ ToSet(a.left) \subseteq ToSet(world.tokens)
  /\ NamesAsked => AskedNames = {r.token : r \in a.ok} \cup a.errors \cup {t.name : t \in ToSet(a.left)}
  /\ request.op = "compliance_screen_address" => a.screened = world.screeners
  /\ \A r \in a.ok : ResultHolds(r)

\* What the checks made so far say of the token, on an EVM chain.
Pinned(a) ==
  LET t == Head(a.left) IN
  /\ a.block \in 1..Now
  /\ ToSet(a.reads) \subseteq ToSet(t.controls)
  /\ \A k \in ToSet(t.controls) : k \in ToSet(a.reads) \/ \E c \in a.checks : c.kind = k
  /\ \A c \in a.checks :
       /\ c.kind \in ToSet(t.controls)
       /\ c.restricted <=> (c.kind # "deprecated" /\ Holds(a.block, c.kind, t.name))

\* What the accounts said, on Solana.
AccountsRead(a) ==
  LET t == Head(a.left) IN
  /\ a.block \in 1..Now
  /\ Holds(a.block, "frozen", t.name) /\ t.name \in world.states[a.block].accounts
       => \E c \in a.checks : c.restricted

Midway ==
  answer.at \in EvmPlaces \cup SolanaPlaces =>
    /\ Carried(answer) /\ answer.left # <<>>
    /\ answer.at \in EvmPlaces <=> world.family = "evm"
    /\ answer.at = "pin" => answer.checks = {}
    /\ answer.at = "checks" => Pinned(answer)
    /\ answer.at = "mint" => AccountsRead(answer)

IssuerInv == CheckedWorld /\ Midway /\ ChecksOfOneBlock /\ ClearMeansScreened

-----------------------------------------------------------------------------
(***************************************************************************)
(* Tokens one after the other.                                              *)
(***************************************************************************)
(* The elements of a sequence are its first and those of the rest. *)
LEMMA HeadOrTail ==
  ASSUME NEW S, NEW s \in Seq(S), s # <<>>
  PROVE  /\ Head(s) \in S /\ Tail(s) \in Seq(S)
         /\ ToSet(s) = {Head(s)} \cup ToSet(Tail(s))
         /\ ToSet(s) \subseteq S
<1>1. /\ Len(s) \in Nat /\ Len(s) >= 1 /\ DOMAIN s = 1..Len(s) /\ Head(s) = s[1] /\ Head(s) \in S
      /\ Tail(s) \in Seq(S) /\ DOMAIN Tail(s) = 1..(Len(s) - 1)
      /\ \A i \in 1..(Len(s) - 1) : Tail(s)[i] = s[i + 1]
  BY EmptySeq, HeadTailProperties
<1>2. ASSUME NEW x \in ToSet(Tail(s)) PROVE x \in ToSet(s)
  <2>1. PICK i \in 1..(Len(s) - 1) : x = s[i + 1]
    BY <1>1, <1>2 DEF ToSet
  <2>2. i + 1 \in DOMAIN s
    BY <1>1
  <2>3. QED
    BY <2>1, <2>2 DEF ToSet
<1>3. ASSUME NEW x \in ToSet(s), x # Head(s) PROVE x \in ToSet(Tail(s))
  <2>1. PICK i \in 1..Len(s) : x = s[i]
    BY <1>1 DEF ToSet
  <2>2. i # 1
    BY <1>1, <1>3, <2>1
  <2>3. i - 1 \in 1..(Len(s) - 1) /\ (i - 1) + 1 = i
    BY <1>1, <2>2
  <2>4. Tail(s)[i - 1] = x
    BY <1>1, <2>1, <2>3
  <2>5. QED
    BY <1>1, <2>3, <2>4 DEF ToSet
<1>4. Head(s) \in ToSet(s) /\ ToSet(s) \subseteq S
  BY <1>1 DEF ToSet
<1>5. QED
  BY <1>1, <1>2, <1>3, <1>4

(* A sequence of one element has that element. *)
LEMMA SingleElement ==
  ASSUME NEW S, NEW s \in Seq(S), Len(s) = 1
  PROVE  s # <<>> /\ ToSet(s) = {s[1]}
<1>1. DOMAIN s = 1..1 /\ \A i \in 1..1 : i = 1
  OBVIOUS
<1>2. s[1] \in ToSet(s) /\ \A x \in ToSet(s) : x = s[1]
  BY <1>1 DEF ToSet
<1>3. s # <<>>
  OBVIOUS
<1>4. QED
  BY <1>2, <1>3

(* The answer, once no token is left. *)
LEMMA ConcludedSound ==
  ASSUME CheckedWorld, NEW a, Carried(a), a.left = <<>>,
         UNCHANGED <<request, world>>, answer' = Concluded(a)
  PROVE  IssuerInv'
<1>1. CheckedWorld'
  BY DEF CheckedWorld
<1>2. /\ a \in Ongoing /\ a.ok \subseteq TokenResult
      /\ NamesAsked => AskedNames = {r.token : r \in a.ok} \cup a.errors
      /\ request.op = "compliance_screen_address" => a.screened = world.screeners
      /\ \A r \in a.ok : ResultHolds(r)
  <2>1. {t.name : t \in ToSet(a.left)} = {}
    BY DEF ToSet
  <2>2. QED
    BY <2>1 DEF Carried, Ongoing
<1>3. CASE request.op = "compliance_screen_address"
  <2> DEFINE out == [verdict |-> Verdict(a.screened, a.ok), results |-> a.ok, errors |-> a.errors]
  <2>1. answer' = [at |-> "replied", out |-> out]
    BY <1>3 DEF Concluded, Reply
  <2>2. answer'.at = "replied" /\ answer'.out = out
    BY <2>1
  <2>3. out.verdict = Verdict(a.screened, a.ok) /\ out.results = a.ok /\ out.errors = a.errors
    OBVIOUS
  <2> HIDE DEF out
  <2>4. Midway'
    BY <2>2 DEF Midway, EvmPlaces, SolanaPlaces
  <2>5. ChecksOfOneBlock'
    BY <1>2, <2>2, <2>3 DEF ChecksOfOneBlock, ResultHolds, Controls, Holds
  <2>6. ClearMeansScreened'
    <3>1. /\ Verdict(a.screened, a.ok) = "clear" <=>
               /\ Says(world.screeners, "clear") /\ ~Says(world.screeners, "hit")
               /\ {r \in a.ok : r.restricted} = {}
          /\ Verdict(a.screened, a.ok) = "unknown" => ~Says(world.screeners, "clear")
      BY <1>2, <1>3 DEF Verdict
    <3>2. request.issuers => AskedNames = {r.token : r \in a.ok} \cup a.errors
      BY <1>2 DEF NamesAsked
    <3>3. AskedNames = {t.name : t \in ToSet(world.tokens)}
      BY <1>3 DEF AskedNames
    <3>4. QED
      BY <1>3, <2>2, <2>3, <3>1, <3>2, <3>3 DEF ClearMeansScreened, Says
  <2>7. QED
    BY <1>1, <2>4, <2>5, <2>6 DEF IssuerInv
<1>4. CASE request.op # "compliance_screen_address" /\ a.ok = {}
  <2>1. answer' = [at |-> "refused", code |-> "AllProvidersFailed"]
    BY <1>4 DEF Concluded, Refuse
  <2>2. answer'.at = "refused"
    BY <2>1
  <2>3. QED
    BY <1>1, <2>2
    DEF IssuerInv, Midway, EvmPlaces, SolanaPlaces, ChecksOfOneBlock, ClearMeansScreened, RepliedCheck
<1>5. CASE request.op # "compliance_screen_address" /\ a.ok # {}
  <2> DEFINE out == [restricted |-> \E r \in a.ok : r.restricted, results |-> a.ok, errors |-> a.errors]
  <2>1. answer' = [at |-> "replied", out |-> out]
    BY <1>5 DEF Concluded, Reply
  <2>2. answer'.at = "replied" /\ answer'.out = out
    BY <2>1
  <2>3. out.restricted = (\E r \in a.ok : r.restricted) /\ out.results = a.ok /\ out.errors = a.errors
    OBVIOUS
  <2> HIDE DEF out
  <2>4. Midway'
    BY <2>2 DEF Midway, EvmPlaces, SolanaPlaces
  <2>5. ChecksOfOneBlock'
    BY <1>2, <2>2, <2>3 DEF ChecksOfOneBlock, ResultHolds, Controls, Holds
  <2>6. request.op = "stablecoin_check_restrictions"
    BY <1>5 DEF CheckedWorld, Checkers
  <2>7. AskedNames = {r.token : r \in a.ok} \cup a.errors
    BY <1>2, <2>6 DEF NamesAsked
  <2>8. ClearMeansScreened'
    BY <1>5, <2>2, <2>3, <2>6, <2>7 DEF ClearMeansScreened, AskedNames
  <2>9. QED
    BY <1>1, <2>4, <2>5, <2>8 DEF IssuerInv
<1>6. QED
  BY <1>3, <1>4, <1>5

(* On to the next token, or to the answer. *)
LEMMA OnTokenSound ==
  ASSUME CheckedWorld, NEW a, Carried(a), a.checks = {},
         UNCHANGED <<request, world>>, answer' = OnToken(a)
  PROVE  IssuerInv'
<1>1. CASE a.left = <<>>
  BY <1>1, ConcludedSound DEF OnToken
<1>2. CASE a.left # <<>>
  <2>1. answer' = [a EXCEPT !.at = FirstRead]
    BY <1>2 DEF OnToken
  <2>2. FirstRead \in {"pin", "accounts"} /\ (FirstRead = "pin" <=> world.family = "evm")
    BY DEF FirstRead, CheckedWorld
  <2>3. /\ answer' \in Ongoing /\ answer'.at = FirstRead /\ answer'.left = a.left
        /\ answer'.ok = a.ok /\ answer'.errors = a.errors /\ answer'.screened = a.screened
        /\ answer'.checks = {}
    BY <2>1, <2>2 DEF Carried, Ongoing, EvmPlaces, SolanaPlaces
  <2>4. Carried(answer)'
    BY <2>3
    DEF Carried, NamesAsked, AskedNames, ResultHolds, Controls, Holds, Now
  <2>5. Midway'
    BY <1>2, <2>2, <2>3, <2>4 DEF Midway, EvmPlaces, SolanaPlaces
  <2>6. CheckedWorld'
    BY DEF CheckedWorld
  <2>7. QED
    BY <2>2, <2>3, <2>5, <2>6 DEF IssuerInv, ChecksOfOneBlock, ClearMeansScreened, RepliedCheck
<1>3. QED
  BY <1>1, <1>2

(* A token that was read, or could not be, is not passed over. *)
LEMMA NextToken ==
  ASSUME IssuerInv, Checking, UNCHANGED <<request, world>>,
         NEW ok, NEW errors,
         \/ /\ errors = answer.errors
            /\ \E r \in TokenResult :
                 r.token = Entry.name /\ ResultHolds(r) /\ ok = answer.ok \cup {r}
         \/ ok = answer.ok /\ errors = answer.errors \cup {Entry.name},
         answer' = OnToken([answer EXCEPT !.ok = ok, !.errors = errors, !.left = Tail(@),
                                          !.checks = {}, !.block = 0, !.reads = <<>>])
  PROVE  IssuerInv'
<1> DEFINE a == [answer EXCEPT !.ok = ok, !.errors = errors, !.left = Tail(@),
                               !.checks = {}, !.block = 0, !.reads = <<>>]
<1>1. /\ CheckedWorld /\ Carried(answer) /\ answer \in Ongoing /\ answer.left # <<>>
      /\ answer.left \in Seq(Controlled)
  BY DEF IssuerInv, Midway, Checking, EvmPlaces, SolanaPlaces, Carried, Ongoing
<1>2. /\ Tail(answer.left) \in Seq(Controlled) /\ Entry \in Controlled
      /\ ToSet(answer.left) = {Entry} \cup ToSet(Tail(answer.left))
  BY <1>1, HeadOrTail DEF Entry
<1>3. Entry.name \in TokenName
  BY <1>2 DEF TokenName
<1>4. ok \subseteq TokenResult /\ errors \subseteq TokenName /\ \A r \in ok : ResultHolds(r)
  BY <1>1, <1>3 DEF Carried, Ongoing
<1>5. {r.token : r \in ok} \cup errors = {r.token : r \in answer.ok} \cup answer.errors \cup {Entry.name}
  OBVIOUS
<1>6. {t.name : t \in ToSet(answer.left)} = {Entry.name} \cup {t.name : t \in ToSet(Tail(answer.left))}
  BY <1>2
<1>7. /\ a \in Ongoing /\ a.ok = ok /\ a.errors = errors /\ a.left = Tail(answer.left)
      /\ a.checks = {} /\ a.screened = answer.screened
  <2>1. ok \in SUBSET TokenResult /\ errors \in SUBSET TokenName
    BY <1>4
  <2>2. a = [answer EXCEPT !.ok = ok, !.errors = errors, !.left = Tail(answer.left),
                           !.checks = {}, !.block = 0, !.reads = <<>>]
    OBVIOUS
  <2> HIDE DEF a
  <2>3. answer \in Ongoing /\ Tail(answer.left) \in Seq(Controlled)
    BY <1>1, <1>2
  <2>4. <<>> \in Seq({"frozen", "paused", "deprecated", "has account"})
    OBVIOUS
  <2>5. QED
    BY <2>1, <2>2, <2>3, <2>4 DEF Ongoing
<1> HIDE DEF a
<1>8. Carried(a)
  <2>1. NamesAsked => AskedNames = {r.token : r \in a.ok} \cup a.errors \cup {t.name : t \in ToSet(a.left)}
    BY <1>1, <1>5, <1>6, <1>7 DEF Carried
  <2>2. ToSet(a.left) \subseteq ToSet(world.tokens)
    BY <1>1, <1>2, <1>7 DEF Carried
  <2>3. QED
    BY <1>1, <1>4, <1>7, <2>1, <2>2 DEF Carried
<1>9. answer' = OnToken(a)
  BY DEF a
<1>10. QED
  BY <1>1, <1>7, <1>8, <1>9, OnTokenSound

-----------------------------------------------------------------------------
(***************************************************************************)
(* The steps of a call.                                                     *)
(***************************************************************************)
(* A call begins with every token it asks for. *)
LEMMA CallBegins ==
  ASSUME IssuerInv, Screen \/ CheckRestrictions
  PROVE  IssuerInv'
<1>1. /\ CheckedWorld /\ UNCHANGED <<request, world>>
      /\ world.tokens \in Seq(Controlled) /\ world.family \in {"evm", "solana"}
  BY DEF IssuerInv, CheckedWorld, Screen, CheckRestrictions
<1>2. ASSUME NEW tokens \in Seq(Controlled), NEW screened \in Seq(Heard),
             ToSet(tokens) \subseteq ToSet(world.tokens),
             NamesAsked => AskedNames = {t.name : t \in ToSet(tokens)},
             request.op = "compliance_screen_address" => screened = world.screeners
      PROVE  LET a == Begin(tokens, screened) IN Carried(a) /\ a.checks = {}
  <2> DEFINE a == Begin(tokens, screened)
  <2>1. /\ a \in Ongoing /\ a.left = tokens /\ a.ok = {} /\ a.errors = {} /\ a.checks = {}
        /\ a.screened = screened
    BY <1>1 DEF Begin, FirstRead, Ongoing, EvmPlaces, SolanaPlaces
  <2>2. {r.token : r \in a.ok} = {}
    BY <2>1
  <2> HIDE DEF a
  <2>3. Carried(a) /\ a.checks = {}
    BY <1>2, <2>1, <2>2 DEF Carried
  <2>4. QED
    BY <2>3 DEF a
<1>3. CASE Screen
  <2> DEFINE tokens == IF request.issuers THEN world.tokens ELSE <<>>
  <2>1. /\ request.op = "compliance_screen_address"
        /\ answer' = OnToken(Begin(tokens, world.screeners))
        /\ world.screeners \in Seq(Heard)
    BY <1>1, <1>3 DEF Screen, CheckedWorld
  <2>2. tokens \in Seq(Controlled) /\ ToSet(tokens) \subseteq ToSet(world.tokens)
    BY <1>1 DEF ToSet
  <2>3. NamesAsked => AskedNames = {t.name : t \in ToSet(tokens)}
    BY <2>1 DEF NamesAsked, AskedNames
  <2> HIDE DEF tokens
  <2>4. QED
    BY <1>1, <1>2, <2>1, <2>2, <2>3, OnTokenSound
<1>4. CASE CheckRestrictions
  <2>1. request.op = "stablecoin_check_restrictions" /\ request.token \in {"all", "one", "unknown"}
    BY <1>1, <1>4 DEF CheckRestrictions, CheckedWorld
  <2>2. CASE request.token = "unknown" \/ world.tokens = <<>>
    <3>1. answer'.at = "refused"
      BY <1>4, <2>2 DEF CheckRestrictions, Refuse
    <3>2. CheckedWorld'
      BY <1>1 DEF CheckedWorld
    <3>3. QED
      BY <3>1, <3>2
      DEF IssuerInv, Midway, EvmPlaces, SolanaPlaces, ChecksOfOneBlock, ClearMeansScreened, RepliedCheck
  <2>3. CASE request.token # "unknown" /\ world.tokens # <<>>
    <3>1. /\ Len(world.tokens) \in Nat /\ Len(world.tokens) >= 1 /\ world.tokens[1] \in Controlled
          /\ world.tokens[1] \in ToSet(world.tokens)
      BY <1>1, <2>3, EmptySeq DEF ToSet
    <3>2. ASSUME NEW tokens \in Seq(Controlled), tokens # <<>>, ToSet(tokens) \subseteq ToSet(world.tokens),
                 AskedNames = {t.name : t \in ToSet(tokens)}, answer' = Begin(tokens, <<>>)
          PROVE  IssuerInv'
      <4>1. <<>> \in Seq(Heard) /\ request.op # "compliance_screen_address"
        BY <2>1
      <4>2. Carried(Begin(tokens, <<>>)) /\ Begin(tokens, <<>>).checks = {}
        BY <1>2, <3>2, <4>1
      <4>3. answer' = OnToken(Begin(tokens, <<>>))
        BY <3>2 DEF Begin, OnToken
      <4>4. QED
        BY <1>1, <4>2, <4>3, OnTokenSound
    <3>3. CASE request.token = "one"
      <4>1. /\ SubSeq(world.tokens, 1, 1) \in Seq(Controlled) /\ Len(SubSeq(world.tokens, 1, 1)) = 1
            /\ SubSeq(world.tokens, 1, 1)[1] = world.tokens[1]
        <5>1. \A i \in 1..1 : world.tokens[i] \in Controlled
          BY <3>1
        <5>2. QED
          BY <5>1, SubSeqProperties
      <4>3. SubSeq(world.tokens, 1, 1) # <<>> /\ ToSet(SubSeq(world.tokens, 1, 1)) = {world.tokens[1]}
        BY <4>1, SingleElement
      <4>4. AskedNames = {t.name : t \in {world.tokens[1]}}
        BY <2>1, <3>3 DEF AskedNames
      <4>5. answer' = Begin(SubSeq(world.tokens, 1, 1), <<>>)
        BY <1>4, <2>3, <3>3 DEF CheckRestrictions
      <4>6. QED
        BY <3>1, <3>2, <4>1, <4>3, <4>4, <4>5
    <3>4. CASE request.token = "all"
      <4>1. AskedNames = {t.name : t \in ToSet(world.tokens)}
        BY <3>4 DEF AskedNames
      <4>2. answer' = Begin(world.tokens, <<>>)
        BY <1>4, <2>3, <3>4 DEF CheckRestrictions
      <4>3. QED
        BY <1>1, <2>3, <3>2, <4>1, <4>2
    <3>5. QED
      BY <2>1, <2>3, <3>3, <3>4
  <2>4. QED
    BY <2>2, <2>3
<1>5. QED
  BY <1>3, <1>4

(* The registry has one entry of a name, and so one list of controls. *)
LEMMA ControlsOfToken ==
  ASSUME CheckedWorld, NEW t \in ToSet(world.tokens)
  PROVE  Controls(t.name) = ToSet(t.controls)
<1>1. \A u \in ToSet(world.tokens) : u.name = t.name => u = t
  BY DEF CheckedWorld, ToSet
<1>2. {u \in ToSet(world.tokens) : u.name = t.name} = {t}
  BY <1>1
<1>3. QED
  BY <1>2 DEF Controls

(* What is known of the token whose turn it is. *)
LEMMA EntryFacts ==
  ASSUME IssuerInv, Checking
  PROVE  /\ CheckedWorld /\ Carried(answer) /\ answer \in Ongoing /\ answer.left # <<>>
         /\ Entry \in Controlled /\ Entry.name \in TokenName
         /\ ToSet(Entry.controls) \subseteq {"frozen", "paused", "deprecated"}
         /\ Controls(Entry.name) = ToSet(Entry.controls)
         /\ world.family = "evm" <=> answer.at \in EvmPlaces
<1>1. /\ CheckedWorld /\ Carried(answer) /\ answer \in Ongoing /\ answer.left # <<>>
      /\ answer.left \in Seq(Controlled) /\ ToSet(answer.left) \subseteq ToSet(world.tokens)
      /\ world.family = "evm" <=> answer.at \in EvmPlaces
  BY DEF IssuerInv, Midway, Checking, EvmPlaces, SolanaPlaces, Carried, Ongoing
<1>2. Entry \in Controlled /\ Entry \in ToSet(world.tokens)
  BY <1>1, HeadOrTail DEF Entry
<1>3. Entry.controls \in Seq({"frozen", "paused", "deprecated"})
  BY <1>2, IssuerAssumption
<1>4. ToSet(Entry.controls) \subseteq {"frozen", "paused", "deprecated"}
  BY <1>3 DEF ToSet
<1>5. QED
  BY <1>1, <1>2, <1>4, ControlsOfToken DEF TokenName

(* A result keeps what its checks said (TokenResult of issuer.rs). *)
LEMMA TokenDoneSound ==
  ASSUME IssuerInv, Checking,
         NEW checks \in SUBSET TokenCheckRecord, NEW block \in Nat,
         ResultHolds(Result(checks, block)), TokenDone(checks, block)
  PROVE  IssuerInv'
<1> DEFINE r == Result(checks, block)
<1>1. r \in TokenResult /\ r.token = Entry.name
  BY EntryFacts DEF Result, TokenResult
<1>2. /\ UNCHANGED <<request, world>>
      /\ answer' = OnToken([answer EXCEPT !.ok = @ \cup {r}, !.left = Tail(@),
                                          !.checks = {}, !.block = 0, !.reads = <<>>])
  BY DEF TokenDone, ReadOn
<1>3. ResultHolds(r)
  OBVIOUS
<1> HIDE DEF r
<1> DEFINE ok == answer.ok \cup {r}
<1>4. [answer EXCEPT !.ok = @ \cup {r}, !.left = Tail(@), !.checks = {}, !.block = 0, !.reads = <<>>]
      = [answer EXCEPT !.ok = ok, !.errors = answer.errors, !.left = Tail(@),
                       !.checks = {}, !.block = 0, !.reads = <<>>]
  BY EntryFacts DEF Ongoing
<1>5. QED
  BY <1>1, <1>2, <1>3, <1>4, NextToken

(* A token that could not be read is named in the errors. *)
LEMMA CheckFailsStep ==
  ASSUME IssuerInv, CheckFails
  PROVE  IssuerInv'
<1>1. /\ Checking /\ UNCHANGED <<request, world>>
      /\ answer' = OnToken([answer EXCEPT !.errors = @ \cup {Entry.name}, !.left = Tail(@),
                                          !.checks = {}, !.block = 0, !.reads = <<>>])
  BY DEF CheckFails, ReadOn
<1> DEFINE errors == answer.errors \cup {Entry.name}
<1>2. [answer EXCEPT !.errors = @ \cup {Entry.name}, !.left = Tail(@),
                     !.checks = {}, !.block = 0, !.reads = <<>>]
      = [answer EXCEPT !.ok = answer.ok, !.errors = errors, !.left = Tail(@),
                       !.checks = {}, !.block = 0, !.reads = <<>>]
  BY <1>1, EntryFacts DEF Ongoing
<1>3. QED
  BY <1>1, <1>2, NextToken

(* Nothing but the place moves within a token. *)
LEMMA WithinToken ==
  ASSUME IssuerInv, Checking, UNCHANGED <<request, world>>, answer' \in Ongoing,
         answer'.left = answer.left, answer'.ok = answer.ok, answer'.errors = answer.errors,
         answer'.screened = answer.screened,
         \/ answer'.at = "checks" /\ world.family = "evm" /\ Pinned(answer')
         \/ answer'.at = "mint" /\ world.family = "solana" /\ AccountsRead(answer')
  PROVE  IssuerInv'
<1>1. CheckedWorld /\ Carried(answer) /\ answer.left # <<>>
  BY EntryFacts
<1>2. CheckedWorld'
  BY <1>1 DEF CheckedWorld
<1>3. Carried(answer)'
  BY <1>1 DEF Carried, NamesAsked, AskedNames, ResultHolds, Controls, Holds, Now
<1>4. Midway'
  BY <1>1, <1>3
  DEF Midway, EvmPlaces, SolanaPlaces, Pinned, AccountsRead, Holds, Now
<1>5. QED
  BY <1>2, <1>4 DEF IssuerInv, ChecksOfOneBlock, ClearMeansScreened, RepliedCheck

(* EVM: the pinned block, and no check yet. *)
LEMMA PinBlockStep ==
  ASSUME IssuerInv, PinBlock
  PROVE  IssuerInv'
<1>1. /\ Checking /\ answer.at = "pin" /\ answer \in Ongoing /\ Entry \in Controlled
      /\ ToSet(Entry.controls) \subseteq {"frozen", "paused", "deprecated"}
      /\ UNCHANGED <<request, world>> /\ answer.checks = {} /\ world.family = "evm"
      /\ Entry.controls \in Seq({"frozen", "paused", "deprecated"})
      /\ answer.left # <<>>
  BY EntryFacts, IssuerAssumption
  DEF PinBlock, ReadOn, IssuerInv, Midway, EvmPlaces, SolanaPlaces, CheckedWorld
<1>2. PICK b \in Recent :
        answer' = [answer EXCEPT !.at = "checks", !.block = b, !.reads = Entry.controls]
  BY DEF PinBlock, ReadOn
<1>3. b \in 1..Now /\ b \in Nat
  BY DEF Recent
<1>4. Entry.controls \in Seq({"frozen", "paused", "deprecated", "has account"})
  <2>1. PICK n \in Nat : Entry.controls \in [1..n -> {"frozen", "paused", "deprecated"}]
    BY <1>1, SeqDef
  <2>2. Entry.controls \in [1..n -> {"frozen", "paused", "deprecated", "has account"}]
    BY <2>1
  <2>3. QED
    BY <2>2, SeqDef
<1>5. /\ answer' \in Ongoing /\ answer'.at = "checks" /\ answer'.block = b
      /\ answer'.reads = Entry.controls /\ answer'.left = answer.left /\ answer'.checks = {}
      /\ answer'.ok = answer.ok /\ answer'.errors = answer.errors
      /\ answer'.screened = answer.screened
  BY <1>1, <1>2, <1>3, <1>4 DEF Ongoing, EvmPlaces, SolanaPlaces
<1>6. Pinned(answer')
  BY <1>3, <1>5 DEF Pinned, Entry
<1>7. QED
  BY <1>1, <1>5, <1>6, WithinToken

(* EVM: a read at the pinned block adds its check, and the last one ends the token. *)
LEMMA EvmCheckStep ==
  ASSUME IssuerInv, EvmCheck
  PROVE  IssuerInv'
<1>1. /\ Checking /\ answer.at = "checks" /\ answer \in Ongoing /\ Entry \in Controlled
      /\ ToSet(Entry.controls) \subseteq {"frozen", "paused", "deprecated"}
      /\ Controls(Entry.name) = ToSet(Entry.controls)
      /\ world.family = "evm" /\ Pinned(answer) /\ answer.left # <<>>
  BY EntryFacts DEF EvmCheck, IssuerInv, Midway, EvmPlaces, SolanaPlaces
<1>2. CASE answer.reads = <<>>
  <2>1. TokenDone(answer.checks, answer.block)
    BY <1>2 DEF EvmCheck
  <2>2. answer.checks \in SUBSET TokenCheckRecord /\ answer.block \in Nat
    BY <1>1 DEF Ongoing
  <2>3. ToSet(answer.reads) = {}
    BY <1>2 DEF ToSet
  <2>4. (\E c \in answer.checks : c.restricted)
          <=> \E kind \in Controls(Entry.name) \ {"deprecated"} : Holds(answer.block, kind, Entry.name)
    BY <1>1, <2>3 DEF Pinned, Entry
  <2>5. ResultHolds(Result(answer.checks, answer.block))
    BY <1>1, <2>4 DEF ResultHolds, Result, Pinned
  <2>6. QED
    BY <1>1, <2>1, <2>2, <2>5, TokenDoneSound
<1>3. CASE answer.reads # <<>>
  <2> DEFINE kind == Head(answer.reads)
             check == [kind |-> kind, restricted |-> kind # "deprecated"
                                                     /\ Holds(answer.block, kind, Entry.name)]
  <2>1. /\ answer' = [answer EXCEPT !.reads = Tail(@), !.checks = @ \cup {check}]
        /\ UNCHANGED <<request, world>>
    BY <1>3 DEF EvmCheck, BlockOf, ReadOn
  <2>2. /\ Tail(answer.reads) \in Seq({"frozen", "paused", "deprecated", "has account"})
        /\ ToSet(answer.reads) = {kind} \cup ToSet(Tail(answer.reads))
    BY <1>1, <1>3, HeadOrTail DEF Ongoing
  <2>3. kind \in ToSet(Entry.controls) /\ kind \in {"frozen", "paused", "deprecated"}
    BY <1>1, <2>2 DEF Pinned, Entry
  <2>4. /\ check \in TokenCheckRecord /\ check.kind = kind
        /\ check.restricted <=> (kind # "deprecated" /\ Holds(answer.block, kind, Entry.name))
    BY <2>3 DEF TokenCheckRecord, CheckKind, Holds
  <2> HIDE DEF check, kind
  <2>5. /\ answer' \in Ongoing /\ answer'.at = "checks" /\ answer'.block = answer.block
        /\ answer'.reads = Tail(answer.reads) /\ answer'.left = answer.left
        /\ answer'.checks = answer.checks \cup {check}
        /\ answer'.ok = answer.ok /\ answer'.errors = answer.errors
        /\ answer'.screened = answer.screened
    BY <1>1, <2>1, <2>2, <2>4 DEF Ongoing
  <2>6. Pinned(answer')
    <3>1. \A k \in ToSet(Entry.controls) :
            k \in ToSet(Tail(answer.reads)) \/ \E c \in answer.checks \cup {check} : c.kind = k
      BY <1>1, <2>2, <2>4 DEF Pinned, Entry
    <3>2. \A c \in answer.checks \cup {check} :
            /\ c.kind \in ToSet(Entry.controls)
            /\ c.restricted <=> (c.kind # "deprecated" /\ Holds(answer.block, c.kind, Entry.name))
      BY <1>1, <2>3, <2>4 DEF Pinned, Entry
    <3>3. /\ answer.block \in 1..Now
          /\ ToSet(Tail(answer.reads)) \subseteq ToSet(Entry.controls)
      BY <1>1, <2>2 DEF Pinned, Entry
    <3>4. /\ Head(answer'.left) = Entry /\ answer'.block = answer.block
          /\ answer'.reads = Tail(answer.reads) /\ answer'.checks = answer.checks \cup {check}
      BY <2>5 DEF Entry
    <3>5. QED
      BY <3>1, <3>2, <3>3, <3>4 DEF Pinned
  <2>7. QED
    BY <1>1, <2>1, <2>5, <2>6, WithinToken
<1>4. QED
  BY <1>2, <1>3

(* Solana: what the accounts say at their slot. *)
LEMMA SolanaAccountsStep ==
  ASSUME IssuerInv, SolanaAccounts
  PROVE  IssuerInv'
<1>1. /\ Checking /\ answer.at = "accounts" /\ answer \in Ongoing
      /\ UNCHANGED <<request, world>> /\ world.family = "solana" /\ answer.left # <<>>
  BY EntryFacts DEF SolanaAccounts, ReadOn, EvmPlaces, SolanaPlaces, CheckedWorld
<1>2. PICK b \in Recent :
        answer' = [answer EXCEPT !.at = "mint", !.block = b,
                     !.checks = {[kind |-> "frozen", restricted |-> /\ Entry.name \in world.states[b].accounts
                                                                     /\ Holds(b, "frozen", Entry.name)]},
                     !.reads = IF Entry.name \in world.states[b].accounts THEN <<"has account">> ELSE <<>>]
  BY DEF SolanaAccounts, ReadOn
<1> DEFINE check == [kind |-> "frozen", restricted |-> /\ Entry.name \in world.states[b].accounts
                                                       /\ Holds(b, "frozen", Entry.name)]
           reads == IF Entry.name \in world.states[b].accounts THEN <<"has account">> ELSE <<>>
<1>3. b \in 1..Now /\ b \in Nat
  BY DEF Recent
<1>4. /\ check \in TokenCheckRecord
      /\ check.restricted <=> (/\ Entry.name \in world.states[b].accounts
                               /\ Holds(b, "frozen", Entry.name))
  BY DEF TokenCheckRecord, CheckKind, Holds
<1>5. reads \in Seq({"frozen", "paused", "deprecated", "has account"})
  <2>1. <<"has account">> \in Seq({"frozen", "paused", "deprecated", "has account"})
    OBVIOUS
  <2>2. <<>> \in Seq({"frozen", "paused", "deprecated", "has account"})
    OBVIOUS
  <2>3. QED
    BY <2>1, <2>2
<1>6. answer' = [answer EXCEPT !.at = "mint", !.block = b, !.checks = {check}, !.reads = reads]
  BY <1>2
<1> HIDE DEF check, reads
<1>7. /\ answer' \in Ongoing /\ answer'.at = "mint" /\ answer'.block = b
      /\ answer'.left = answer.left /\ answer'.checks = {check}
      /\ answer'.ok = answer.ok /\ answer'.errors = answer.errors
      /\ answer'.screened = answer.screened
  BY <1>1, <1>3, <1>4, <1>5, <1>6 DEF Ongoing, EvmPlaces, SolanaPlaces
<1>8. AccountsRead(answer')
  BY <1>3, <1>4, <1>7 DEF AccountsRead, Entry
<1>9. QED
  BY <1>1, <1>7, <1>8, WithinToken

(* Solana: the mint only adds to what the accounts said. *)
LEMMA SolanaMintStep ==
  ASSUME IssuerInv, SolanaMint
  PROVE  IssuerInv'
<1>1. /\ Checking /\ answer.at = "mint" /\ answer \in Ongoing /\ AccountsRead(answer)
      /\ world.family = "solana"
  BY EntryFacts DEF SolanaMint, IssuerInv, Midway, EvmPlaces, SolanaPlaces, CheckedWorld
<1>2. PICK more \in SUBSET TokenCheckRecord : TokenDone(answer.checks \cup more, answer.block)
  <2>1. PICK b \in Recent :
          TokenDone(answer.checks
                 \cup (IF Holds(b, "paused", Entry.name) THEN {[kind |-> "paused", restricted |-> TRUE]} ELSE {})
                 \cup (IF Entry.name \in world.states[b].bornFrozen
                       THEN {[kind |-> "default frozen", restricted |-> answer.reads = <<>>]} ELSE {}),
                 answer.block)
    BY DEF SolanaMint
  <2> DEFINE paused == IF Holds(b, "paused", Entry.name) THEN {[kind |-> "paused", restricted |-> TRUE]} ELSE {}
             frozen == IF Entry.name \in world.states[b].bornFrozen
                       THEN {[kind |-> "default frozen", restricted |-> answer.reads = <<>>]} ELSE {}
  <2>2. paused \cup frozen \in SUBSET TokenCheckRecord
    <3>1. /\ [kind |-> "paused", restricted |-> TRUE] \in TokenCheckRecord
          /\ [kind |-> "default frozen", restricted |-> answer.reads = <<>>] \in TokenCheckRecord
      BY DEF TokenCheckRecord, CheckKind
    <3>2. QED
      BY <3>1
  <2>3. answer.checks \cup paused \cup frozen = answer.checks \cup (paused \cup frozen)
    OBVIOUS
  <2>4. TokenDone(answer.checks \cup paused \cup frozen, answer.block)
    BY <2>1
  <2> HIDE DEF paused, frozen
  <2>5. TokenDone(answer.checks \cup (paused \cup frozen), answer.block)
    BY <2>3, <2>4
  <2>6. QED
    BY <2>2, <2>5
<1>3. answer.checks \cup more \in SUBSET TokenCheckRecord /\ answer.block \in Nat
  BY <1>1 DEF Ongoing
<1>4. ResultHolds(Result(answer.checks \cup more, answer.block))
  BY <1>1 DEF ResultHolds, Result, AccountsRead, Entry
<1>5. QED
  BY <1>1, <1>2, <1>3, <1>4, TokenDoneSound

(* The chain moves: what was so at a block stays what was so at that block. *)
LEMMA IssuerActsStep ==
  ASSUME IssuerInv, IssuerActs
  PROVE  IssuerInv'
<1>1. /\ Checking /\ UNCHANGED <<request, answer>> /\ CheckedWorld /\ Carried(answer)
      /\ \E s \in IssuerStates : world' = [world EXCEPT !.states = Append(@, s)]
  BY EntryFacts DEF IssuerActs, Advance
<1>2. PICK s \in IssuerStates : world' = [world EXCEPT !.states = Append(@, s)]
  BY <1>1
<1>3. world.states \in Seq(ChainState) /\ s \in ChainState
  BY <1>1 DEF CheckedWorld, ChainState
<1>4. /\ DOMAIN world' = DOMAIN world
      /\ world'.states = Append(world.states, s)
      /\ \A f \in DOMAIN world : f # "states" => world'[f] = world[f]
  BY <1>1, <1>2 DEF CheckedWorld
<1>5. /\ world'.family = world.family /\ world'.tokens = world.tokens
      /\ "screeners" \in DOMAIN world => world'.screeners = world.screeners
  BY <1>1, <1>4 DEF CheckedWorld
<1>6. /\ world'.states \in Seq(ChainState) /\ Now \in Nat /\ Now' = Now + 1
      /\ \A b \in 1..Now : b \in 1..Now' /\ world'.states[b] = world.states[b]
  BY <1>3, <1>4, AppendProperties DEF Now
<1>7. CheckedWorld'
  BY <1>1, <1>4, <1>5, <1>6 DEF CheckedWorld
<1>8. \A r \in answer.ok : ResultHolds(r) => ResultHolds(r)'
  BY <1>5, <1>6 DEF ResultHolds, Controls, Holds
<1>9. Carried(answer)'
  BY <1>1, <1>5, <1>8 DEF Carried, NamesAsked, AskedNames, CheckedWorld, Checkers
<1>10. Midway'
  <2>1. Pinned(answer) => Pinned(answer)'
    BY <1>1, <1>6 DEF Pinned, Holds
  <2>2. AccountsRead(answer) => AccountsRead(answer)'
    BY <1>1, <1>6 DEF AccountsRead, Holds
  <2>3. QED
    BY <1>1, <1>5, <1>9, <2>1, <2>2 DEF Midway, IssuerInv
<1>11. QED
  BY <1>1, <1>7, <1>10 DEF IssuerInv, ChecksOfOneBlock, ClearMeansScreened, RepliedCheck, Checking

-----------------------------------------------------------------------------
(* A call starts with nothing read. *)
LEMMA IssuerStart == StartIn(IssuerCases) => IssuerInv
<1>1. SUFFICES ASSUME NEW c \in IssuerCases, request = c.request, world = c.world, answer = Asked
      PROVE  IssuerInv
  BY DEF StartIn
<1>2. CheckedWorld
  BY <1>1, IssuerAssumption DEF CheckedWorld
<1>3. answer.at = "asked"
  BY <1>1 DEF Asked
<1>4. QED
  BY <1>2, <1>3
  DEF IssuerInv, Midway, EvmPlaces, SolanaPlaces, ChecksOfOneBlock, ClearMeansScreened, RepliedCheck

(* The chain and the call, in whichever order, keep the invariant. *)
LEMMA IssuerStep == IssuerInv /\ [IssuerNext]_vars => IssuerInv'
<1>1. CASE IssuerInv /\ UNCHANGED vars
  <2>1. UNCHANGED <<request, world, answer>>
    BY <1>1 DEF vars
  <2>2. CheckedWorld'
    BY <1>1, <2>1 DEF IssuerInv, CheckedWorld
  <2>3. Midway'
    BY <1>1, <2>1
    DEF IssuerInv, Midway, Carried, Pinned, AccountsRead, NamesAsked, AskedNames, ResultHolds,
        Controls, Holds, Now
  <2>4. ChecksOfOneBlock'
    BY <1>1, <2>1 DEF IssuerInv, ChecksOfOneBlock, RepliedCheck, Controls, Holds
  <2>5. ClearMeansScreened'
    BY <1>1, <2>1 DEF IssuerInv, ClearMeansScreened, RepliedCheck, Says
  <2>6. QED
    BY <2>2, <2>3, <2>4, <2>5 DEF IssuerInv
<1>2. CASE IssuerInv /\ IssuerNext
  BY <1>2, CallBegins, PinBlockStep, EvmCheckStep, SolanaAccountsStep, SolanaMintStep,
     CheckFailsStep, IssuerActsStep
  DEF IssuerNext
<1>3. QED
  BY <1>1, <1>2

-----------------------------------------------------------------------------
(***************************************************************************)
(* Neobank: the inductive invariant of a card.  What was read is what the   *)
(* pinned block says, whichever of the two reads came first.                *)
(***************************************************************************)
CardAmounts == [balance : Nat, approved : Nat, frozen : BOOLEAN, absent : BOOLEAN, mismatch : BOOLEAN]
BothReads == {"balance", "approved"}
CardRun ==
  [at : {"card reads"}, block : Nat, left : SUBSET BothReads, reads : CardAmounts]

CardWorld ==
  /\ request.token \in {"erc20", "spl", "other"} /\ request.amount \in Nat
  /\ "states" \in DOMAIN world /\ world.states \in Seq(CardState)

CardPlaces ==
  \/ answer.at = "asked"
  \/ answer.at \in {"card block", "card reads"} /\ request.token = "erc20"
  \/ answer.at \in {"card mint", "card account"} /\ request.token = "spl"
  \/ answer.at \in {"refused", "replied"}

CardReads ==
  answer.at = "card reads" =>
    LET r == answer.reads IN
    /\ answer \in CardRun /\ answer.block \in 1..Now
    /\ "balance" \notin answer.left => r.balance = world.states[answer.block].balance
    /\ "approved" \notin answer.left => r.approved = world.states[answer.block].approved
    /\ ~r.frozen /\ ~r.absent /\ ~r.mismatch

CardInv == Funding => CardWorld /\ CardPlaces /\ CardReads /\ CardVerdictOfOneBlock

-----------------------------------------------------------------------------
(* The verdict on reads that agree with a state is the verdict on that state. *)
LEMMA VerdictOfState ==
  ASSUME CardWorld, NEW r \in CardAmounts, NEW b \in 1..Now,
         LET s == world.states[b] IN
           \/ /\ request.token = "erc20"
              /\ r.balance = s.balance /\ r.approved = s.approved
              /\ ~r.frozen /\ ~r.absent /\ ~r.mismatch
           \/ /\ request.token = "spl" /\ s.account = "none" /\ r.absent
           \/ /\ request.token = "spl" /\ s.account # "none" /\ ~r.absent
              /\ r.balance = s.balance /\ r.frozen = (s.account = "frozen")
              /\ r.approved = (IF s.delegate = "spender" THEN s.approved ELSE 0)
              /\ r.mismatch = (s.delegate = "other"),
         UNCHANGED <<request, world>>, answer' = FundingVerdict(r, b)
  PROVE  CardInv'
<1> DEFINE s == world.states[b]
<1>1. /\ s \in CardState /\ request.amount \in Nat /\ Needed \in Nat /\ Needed >= 1
      /\ s.balance \in Nat /\ s.approved \in Nat /\ r.balance \in Nat /\ r.approved \in Nat
      /\ s.account \in {"open", "none", "frozen"} /\ s.delegate \in {"spender", "other", "none"}
  <2>1. s \in CardState /\ request.amount \in Nat
    BY DEF CardWorld, Now
  <2>2. Needed \in Nat /\ Needed >= 1
    BY <2>1 DEF Needed, Larger
  <2>3. QED
    BY <2>1, <2>2 DEF CardState, CardAmounts
<1>2. /\ answer'.at = "replied" /\ answer'.out.block = b
      /\ answer'.out.spendable = (IF r.absent \/ r.frozen THEN 0 ELSE Smaller(r.balance, r.approved))
      /\ answer'.out.authorized = (Reasons(r) = {})
  BY DEF FundingVerdict, Reply
<1>3. Reasons(r) = {} <=>
        ~r.absent /\ ~r.frozen /\ ~r.mismatch /\ r.approved # 0 /\ ~(r.approved < Needed)
        /\ ~(r.balance < Needed)
  <2>1. CASE r.absent
    BY <2>1 DEF Reasons
  <2>2. CASE ~r.absent
    BY <2>2 DEF Reasons
  <2>3. QED
    BY <2>1, <2>2
<1>4. \/ /\ request.token = "erc20"
         /\ r.balance = s.balance /\ r.approved = s.approved
         /\ ~r.frozen /\ ~r.absent /\ ~r.mismatch
      \/ request.token = "spl" /\ s.account = "none" /\ r.absent
      \/ /\ request.token = "spl" /\ s.account # "none" /\ ~r.absent
         /\ r.balance = s.balance /\ r.frozen = (s.account = "frozen")
         /\ r.approved = (IF s.delegate = "spender" THEN s.approved ELSE 0)
         /\ r.mismatch = (s.delegate = "other")
  OBVIOUS
<1> HIDE DEF s
<1>5. /\ (IF r.absent \/ r.frozen THEN 0 ELSE Smaller(r.balance, r.approved)) = Pullable(s)
      /\ (Reasons(r) = {}) <=> Pullable(s) >= Needed
  <2>1. CASE request.token = "erc20"
    <3>1. Pullable(s) = Smaller(r.balance, r.approved)
      BY <1>4, <2>1 DEF Pullable
    <3>2. ~r.frozen /\ ~r.absent /\ ~r.mismatch
      BY <1>4, <2>1
    <3>3. QED
      BY <1>1, <1>3, <3>1, <3>2 DEF Smaller
  <2>2. CASE request.token = "spl" /\ s.account = "none"
    <3>1. Pullable(s) = 0 /\ r.absent
      BY <1>4, <2>2 DEF Pullable
    <3>2. QED
      BY <1>1, <1>3, <3>1
  <2>3. CASE request.token = "spl" /\ s.account = "frozen"
    <3>1. Pullable(s) = 0 /\ r.frozen
      BY <1>4, <2>3 DEF Pullable
    <3>2. QED
      BY <1>1, <1>3, <3>1
  <2>4. CASE request.token = "spl" /\ s.account = "open" /\ s.delegate = "spender"
    <3>1. Pullable(s) = Smaller(r.balance, r.approved) /\ ~r.frozen /\ ~r.absent /\ ~r.mismatch
      BY <1>4, <2>4 DEF Pullable
    <3>2. QED
      BY <1>1, <1>3, <3>1 DEF Smaller
  <2>5. CASE request.token = "spl" /\ s.account = "open" /\ s.delegate # "spender"
    <3>1. Pullable(s) = 0 /\ r.approved = 0 /\ ~r.frozen /\ ~r.absent
      BY <1>4, <2>5 DEF Pullable
    <3>2. QED
      BY <1>1, <1>3, <3>1 DEF Smaller
  <2>6. QED
    BY <1>1, <1>4, <2>1, <2>2, <2>3, <2>4, <2>5
<1>6. CardVerdictOfOneBlock'
  BY <1>2, <1>5 DEF CardVerdictOfOneBlock, Pullable, Needed, s
<1>7. QED
  BY <1>2, <1>6 DEF CardInv, CardWorld, CardPlaces, CardReads

(* A step that ends the call without a verdict, or goes on without a reading. *)
LEMMA CardGoesOn ==
  ASSUME CardInv, Funding, UNCHANGED <<request, world>>,
         \/ answer'.at = "refused"
         \/ answer'.at = "card block" /\ request.token = "erc20"
         \/ answer'.at \in {"card mint", "card account"} /\ request.token = "spl"
  PROVE  CardInv'
BY DEF CardInv, Funding, CardWorld, CardPlaces, CardReads, CardVerdictOfOneBlock

(* One of the two reads at the pinned block. *)
LEMMA CardReadStep ==
  ASSUME CardInv, CardRead
  PROVE  CardInv'
<1>1. /\ Funding /\ answer.at = "card reads" /\ CardWorld /\ request.token = "erc20"
      /\ answer \in CardRun /\ answer.block \in 1..Now
      /\ UNCHANGED <<request, world>>
  <2>1. Funding /\ answer.at = "card reads" /\ UNCHANGED <<request, world>>
    BY DEF CardRead, CardReading, ReadOn
  <2>2. QED
    BY <2>1 DEF CardInv, CardPlaces, CardReads
<1>2. PICK what \in answer.left :
        LET reads == [answer.reads EXCEPT ![what] = world.states[answer.block][what]] IN
        answer' = IF answer.left = {what} THEN FundingVerdict(reads, answer.block)
                  ELSE [answer EXCEPT !.left = @ \ {what}, !.reads = reads]
  BY DEF CardRead, CardBlock, ReadOn
<1> DEFINE s == world.states[answer.block]
           reads == [answer.reads EXCEPT ![what] = s[what]]
<1>3. /\ s \in CardState /\ answer.reads \in CardAmounts /\ what \in BothReads
      /\ answer.left \subseteq BothReads
  <2>1. what \in answer.left
    BY <1>2
  <2>2. answer.reads \in CardAmounts /\ answer.left \subseteq BothReads
    BY <1>1 DEF CardRun
  <2>3. s \in CardState
    <3>1. world.states \in Seq(CardState) /\ answer.block \in 1..Len(world.states)
      BY <1>1 DEF CardWorld, Now
    <3>2. QED
      BY <3>1
  <2>4. QED
    BY <2>1, <2>2, <2>3
<1>4. s["balance"] \in Nat /\ s["approved"] \in Nat
  BY <1>3 DEF CardState
<1>5. /\ reads \in CardAmounts
      /\ reads.frozen = answer.reads.frozen /\ reads.absent = answer.reads.absent
      /\ reads.mismatch = answer.reads.mismatch
      /\ \A f \in BothReads : reads[f] = IF f = what THEN s[f] ELSE answer.reads[f]
  BY <1>3, <1>4 DEF CardAmounts, BothReads
<1>6. /\ "balance" \notin answer.left \ {what} => reads.balance = s.balance
      /\ "approved" \notin answer.left \ {what} => reads.approved = s.approved
      /\ ~reads.frozen /\ ~reads.absent /\ ~reads.mismatch
  BY <1>1, <1>5 DEF CardInv, CardReads, BothReads
<1> HIDE DEF s, reads
<1>7. CASE answer.left = {what}
  <2>1. answer' = FundingVerdict(reads, answer.block)
    BY <1>2, <1>7 DEF reads, s
  <2>2. reads.balance = s.balance /\ reads.approved = s.approved
    BY <1>6, <1>7
  <2>3. QED
    BY <1>1, <1>5, <1>6, <2>1, <2>2, VerdictOfState DEF s
<1>8. CASE answer.left # {what}
  <2>1. answer' = [answer EXCEPT !.left = @ \ {what}, !.reads = reads]
    BY <1>2, <1>8 DEF reads, s
  <2>2. /\ answer' \in CardRun /\ answer'.at = "card reads" /\ answer'.block = answer.block
        /\ answer'.left = answer.left \ {what} /\ answer'.reads = reads
    BY <1>1, <1>3, <1>5, <2>1 DEF CardRun
  <2>3. CardReads'
    BY <1>1, <1>6, <2>2 DEF CardReads, Now, s
  <2>4. QED
    BY <1>1, <2>2, <2>3 DEF CardInv, CardWorld, CardPlaces, CardVerdictOfOneBlock
<1>9. QED
  BY <1>7, <1>8

(* EVM: the block of both reads. *)
LEMMA PinCardStep ==
  ASSUME CardInv, PinCard
  PROVE  CardInv'
<1>1. Funding /\ answer.at = "card block" /\ UNCHANGED <<request, world>>
  BY DEF PinCard, CardReading, ReadOn
<1>2. CardWorld /\ request.token = "erc20"
  BY <1>1 DEF CardInv, CardPlaces
<1>3. PICK b \in Recent :
        answer' = [at |-> "card reads", block |-> b, left |-> {"balance", "approved"}, reads |-> NoReads]
  BY DEF PinCard, ReadOn
<1>4. b \in 1..Now /\ b \in Nat
  BY DEF Recent
<1>5. NoReads \in CardAmounts /\ ~NoReads.frozen /\ ~NoReads.absent /\ ~NoReads.mismatch
  BY DEF NoReads, CardAmounts
<1>6. /\ answer' \in CardRun /\ answer'.at = "card reads" /\ answer'.block = b
      /\ answer'.left = BothReads /\ answer'.reads = NoReads
  BY <1>3, <1>4, <1>5 DEF CardRun, BothReads
<1>7. CardReads'
  BY <1>1, <1>4, <1>5, <1>6 DEF CardReads, BothReads, Now
<1>8. QED
  BY <1>1, <1>2, <1>6, <1>7 DEF CardInv, CardWorld, CardPlaces, CardVerdictOfOneBlock

(* Solana: the one account that is read. *)
LEMMA CardAccountStep ==
  ASSUME CardInv, CardAccount
  PROVE  CardInv'
<1>1. Funding /\ answer.at = "card account" /\ UNCHANGED <<request, world>>
  BY DEF CardAccount, CardReading, ReadOn
<1>2. CardWorld /\ request.token = "spl"
  BY <1>1 DEF CardInv, CardPlaces
<1>3. PICK b \in Recent :
        LET s == world.states[b] IN
        answer' = FundingVerdict(
          IF s.account = "none" THEN [NoReads EXCEPT !.absent = TRUE]
          ELSE [NoReads EXCEPT !.balance = s.balance, !.frozen = s.account = "frozen",
                               !.approved = IF s.delegate = "spender" THEN s.approved ELSE 0,
                               !.mismatch = s.delegate = "other"], b)
  BY DEF CardAccount, ReadOn
<1> DEFINE s == world.states[b]
<1>4. b \in 1..Now
  BY <1>3 DEF Recent
<1>5. s \in CardState
  BY <1>2, <1>4 DEF CardWorld, Now
<1>6. s.balance \in Nat /\ s.approved \in Nat
  BY <1>5 DEF CardState
<1>7. CASE s.account = "none"
  <2> DEFINE r == [NoReads EXCEPT !.absent = TRUE]
  <2>1. r \in CardAmounts /\ r.absent
    BY DEF NoReads, CardAmounts
  <2>2. answer' = FundingVerdict(r, b)
    BY <1>3, <1>7
  <2> HIDE DEF r
  <2>3. QED
    BY <1>1, <1>2, <1>4, <1>7, <2>1, <2>2, VerdictOfState
<1>8. CASE s.account # "none"
  <2> DEFINE approved == IF s.delegate = "spender" THEN s.approved ELSE 0
             r == [NoReads EXCEPT !.balance = s.balance, !.frozen = s.account = "frozen",
                                  !.approved = approved, !.mismatch = s.delegate = "other"]
  <2>1. approved \in Nat
    BY <1>6
  <2>2. answer' = FundingVerdict(r, b)
    BY <1>3, <1>8
  <2> HIDE DEF approved, s
  <2>3. /\ r \in CardAmounts /\ ~r.absent /\ r.balance = s.balance /\ r.frozen = (s.account = "frozen")
        /\ r.approved = approved /\ r.mismatch = (s.delegate = "other")
    BY <1>6, <2>1 DEF NoReads, CardAmounts
  <2> HIDE DEF r
  <2>4. QED
    BY <1>1, <1>2, <1>4, <1>8, <2>2, <2>3, VerdictOfState DEF approved, s
<1>9. QED
  BY <1>7, <1>8

(* The chain moves, and leaves the blocks it has. *)
LEMMA CardActsStep ==
  ASSUME CardInv, CardActs
  PROVE  CardInv'
<1>1. Funding /\ answer.at \in {"card block", "card reads", "card mint", "card account"}
      /\ UNCHANGED <<request, answer>> /\ CardWorld
  BY DEF CardActs, CardReading, Advance, CardInv
<1>2. PICK s \in CardStates : world' = [world EXCEPT !.states = Append(@, s)]
  BY DEF CardActs, Advance
<1>3. world.states \in Seq(CardState) /\ s \in CardState
  BY <1>1, NeobankAssumption DEF CardWorld
<1>4. DOMAIN world' = DOMAIN world /\ world'.states = Append(world.states, s)
  BY <1>1, <1>2 DEF CardWorld
<1>5. /\ world'.states \in Seq(CardState) /\ Now \in Nat /\ Now' = Now + 1
      /\ \A b \in 1..Now : b \in 1..Now' /\ world'.states[b] = world.states[b]
  BY <1>3, <1>4, AppendProperties DEF Now
<1>6. CardWorld'
  BY <1>1, <1>4, <1>5 DEF CardWorld
<1>7. CardReads'
  BY <1>1, <1>5 DEF CardInv, CardReads
<1>8. QED
  BY <1>1, <1>6, <1>7 DEF CardInv, CardPlaces, CardVerdictOfOneBlock

(* A call starts with nothing read. *)
LEMMA NeobankStart == StartIn(NeobankCases) => CardInv
<1>1. SUFFICES ASSUME NEW c \in NeobankCases, request = c.request, world = c.world, answer = Asked
      PROVE  CardInv
  BY DEF StartIn
<1>2. answer.at = "asked"
  BY <1>1 DEF Asked
<1>3. Funding => CardWorld
  BY <1>1, NeobankAssumption DEF Funding, CardWorld
<1>4. QED
  BY <1>2, <1>3 DEF CardInv, CardPlaces, CardReads, CardVerdictOfOneBlock

(* The chain and the call, in whichever order, keep the invariant. *)
LEMMA NeobankStep == CardInv /\ [NeobankNext]_vars => CardInv'
<1> SUFFICES ASSUME CardInv, [NeobankNext]_vars PROVE CardInv'
  OBVIOUS
<1>1. CASE UNCHANGED vars
  BY <1>1
  DEF vars, CardInv, Funding, CardWorld, CardPlaces, CardReads, CardVerdictOfOneBlock, Pullable, Needed, Now
<1>2. CASE CardFunding
  <2>1. Funding /\ UNCHANGED <<request, world>> /\ CardWorld
    BY <1>2 DEF CardFunding, ReadOn, CardInv
  <2>2. CASE request.token = "other"
    BY <1>2, <2>1, <2>2, CardGoesOn DEF CardFunding, ReadOn, Refuse
  <2>3. CASE request.token = "erc20"
    BY <1>2, <2>1, <2>3, CardGoesOn DEF CardFunding, ReadOn
  <2>4. CASE request.token = "spl"
    BY <1>2, <2>1, <2>4, CardGoesOn DEF CardFunding, ReadOn
  <2>5. QED
    BY <2>1, <2>2, <2>3, <2>4 DEF CardWorld
<1>3. CASE CardMint
  <2>1. Funding /\ answer.at = "card mint" /\ UNCHANGED <<request, world>> /\ answer'.at = "card account"
    BY <1>3 DEF CardMint, CardReading, ReadOn
  <2>2. request.token = "spl"
    BY <2>1 DEF CardInv, CardPlaces
  <2>3. QED
    BY <2>1, <2>2, CardGoesOn
<1>4. CASE CardFails
  <2>1. Funding /\ UNCHANGED <<request, world>> /\ \E e \in ProviderError : answer' = Refuse(CodeOf(e))
    BY <1>4 DEF CardFails, CardReading, ReadOn
  <2>2. answer'.at = "refused"
    BY <2>1 DEF Refuse
  <2>3. QED
    BY <2>1, <2>2, CardGoesOn
<1>5. CASE GetLedger \/ FxRate
  <2>1. ~Funding /\ UNCHANGED request
    BY <1>5 DEF GetLedger, FxRate, Conclude, Funding
  <2>2. QED
    BY <2>1 DEF CardInv, Funding
<1>6. QED
  BY <1>1, <1>2, <1>3, <1>4, <1>5, PinCardStep, CardReadStep, CardAccountStep, CardActsStep
  DEF NeobankNext

-----------------------------------------------------------------------------
(***************************************************************************)
(* Tokens.                                                                  *)
(***************************************************************************)
TokenAsked ==
  request.op \in {"stablecoin_resolve", "payments_build_request", "address_validate"} =>
    request.token.form \in {"caip", "address", "symbol", "native"}

(* What the registry answers for a chain and a token is on that chain, and is the very asset a
   token names (StablecoinRegistry::resolve). *)
LEMMA ResolveFacts ==
  ASSUME NEW chain, request.token.form \in {"caip", "address", "symbol", "native"},
         NEW e \in Resolve(chain, request.token)
  PROVE  /\ e \in Registry /\ e.asset.chain = chain
         /\ \A a \in NamedAsset(chain) : e.asset = a
<1>1. CASE request.token.form = "caip"
  BY <1>1 DEF Resolve, ByAsset, NamedAsset
<1>2. CASE request.token.form = "address"
  <2>1. e \in Registry /\ e.asset = AssetAt(chain, request.token.address)
    BY <1>2 DEF Resolve, ByAsset
  <2>2. AssetAt(chain, request.token.address).chain = chain
    BY DEF AssetAt
  <2>3. NamedAsset(chain) = {AssetAt(chain, request.token.address)}
    BY <1>2 DEF NamedAsset
  <2>4. QED
    BY <2>1, <2>2, <2>3
<1>3. CASE request.token.form = "symbol"
  BY <1>3 DEF Resolve, BySymbol, NamedAsset
<1>4. CASE request.token.form = "native"
  BY <1>4 DEF Resolve
<1>5. QED
  BY <1>1, <1>2, <1>3, <1>4

(* A contract that the registry does not have is at most a lookalike (stablecoin_resolve). *)
LEMMA UnknownTokenFacts ==
  ASSUME request.token.form \in {"caip", "address", "symbol"}, NEW chain, ChainMeant = {chain},
         Resolve(chain, request.token) = {},
         NEW entries, NEW observed, NEW alike,
         UnknownToken(chain) = Resolution(entries, observed, alike)
  PROVE  /\ entries = {}
         /\ observed # {} =>
              \A e \in Registry, a \in UNION {NamedAsset(c) : c \in ChainMeant} :
                e.asset.chain = a.chain /\ observed \subseteq e.symbols
                  => e.asset \in alike \/ e.asset = a
<1>1. \A x, y, z : /\ Resolution(x, y, z).out.entries = x /\ Resolution(x, y, z).out.observed = y
                   /\ Resolution(x, y, z).out.lookalikeOf = z
  BY DEF Resolution, Reply
<1>2. CASE request.token.form = "symbol" \/ world.symbol = "unread"
  <2>1. Resolution({}, {}, {}) = Resolution(entries, observed, alike)
    BY <1>2 DEF UnknownToken
  <2>2. entries = {} /\ observed = {}
    BY <1>1, <2>1
  <2>3. QED
    BY <2>2
<1>3. CASE ~(request.token.form = "symbol" \/ world.symbol = "unread")
  <2> DEFINE asset == IF request.token.form = "caip" THEN request.token.asset
                      ELSE AssetAt(chain, request.token.address)
  <2>1. Resolution({}, {world.symbol}, Lookalikes(asset, world.symbol)) = Resolution(entries, observed, alike)
    BY <1>3 DEF UnknownToken
  <2>2. NamedAsset(chain) = {asset}
    BY <1>3 DEF NamedAsset
  <2> HIDE DEF asset
  <2>3. entries = {} /\ observed = {world.symbol} /\ alike = Lookalikes(asset, world.symbol)
    BY <1>1, <2>1
  <2>4. UNION {NamedAsset(c) : c \in ChainMeant} = {asset}
    BY <2>2
  <2>5. \A e \in Registry : e.asset.chain = asset.chain /\ world.symbol \in e.symbols
                              => e.asset \in alike \/ e.asset = asset
    BY <2>3 DEF Lookalikes, ForChain
  <2>6. QED
    BY <2>3, <2>4, <2>5
<1>4. QED
  BY <1>2, <1>3

(* stablecoin_resolve answers with entries of the registry, and warns of lookalikes. *)
LEMMA ResolveStep ==
  ASSUME TokenAsked, StablecoinResolve
  PROVE  OnlyCanonicalTokens'
<1>1. request.op = "stablecoin_resolve" /\ UNCHANGED <<request, world>>
  BY DEF StablecoinResolve, Conclude
<1>2. request.token.form \in {"caip", "address", "symbol", "native"}
  BY <1>1 DEF TokenAsked
<1>3. ASSUME NEW entries, NEW observed, NEW alike, answer' = Resolution(entries, observed, alike),
             \A e \in entries : /\ e \in Registry
                                /\ request.chain # "none" => e.asset.chain = request.chain
                                /\ \A a \in NamedAsset(e.asset.chain) : e.asset = a,
             observed # {} =>
               /\ entries = {}
               /\ \A e \in Registry, a \in UNION {NamedAsset(c) : c \in ChainMeant} :
                    e.asset.chain = a.chain /\ observed \subseteq e.symbols
                      => e.asset \in alike \/ e.asset = a
      PROVE  OnlyCanonicalTokens'
  <2>1. /\ answer'.at = "replied" /\ answer'.out.entries = entries
        /\ answer'.out.observed = observed /\ answer'.out.lookalikeOf = alike
    BY <1>3 DEF Resolution, Reply
  <2>2. \A c : NamedAsset(c)' = NamedAsset(c)
    BY <1>1 DEF NamedAsset
  <2>3. ChainMeant' = ChainMeant
    BY <1>1 DEF ChainMeant
  <2>4. (UNION {NamedAsset(c) : c \in ChainMeant})' = UNION {NamedAsset(c) : c \in ChainMeant}
    BY <1>1, <2>3 DEF NamedAsset
  <2>5. QED
    BY <1>1, <1>3, <2>1, <2>2, <2>4 DEF OnlyCanonicalTokens
<1>4. ASSUME NEW code, answer' = Refuse(code) PROVE OnlyCanonicalTokens'
  BY <1>4 DEF Refuse, OnlyCanonicalTokens
<1>5. CASE request.token.form = "native" \/ ~(ChainMeant \subseteq Chain)
  BY <1>4, <1>5 DEF StablecoinResolve, Conclude
<1>6. CASE request.token.form # "native" /\ ChainMeant \subseteq Chain /\ ChainMeant = {}
  <2>1. answer' = Resolution({e \in Registry : request.token.form = "symbol" /\ request.token.symbol \in e.symbols},
                             {}, {})
    BY <1>6 DEF StablecoinResolve, Conclude
  <2>2. request.chain = "none"
    BY <1>6 DEF ChainMeant
  <2>3. request.token.form = "symbol" => \A c : NamedAsset(c) = {}
    BY DEF NamedAsset
  <2>4. QED
    BY <1>3, <2>1, <2>2, <2>3
<1>7. CASE request.token.form # "native" /\ ChainMeant \subseteq Chain /\ ChainMeant # {}
  <2> DEFINE chain == CHOOSE c \in ChainMeant : TRUE
  <2>1. ChainMeant = {chain} /\ (request.chain # "none" => chain = request.chain)
    BY <1>7 DEF ChainMeant
  <2>2. answer' = IF Resolve(chain, request.token) # {} THEN Resolution(Resolve(chain, request.token), {}, {})
                  ELSE UnknownToken(chain)
    BY <1>7 DEF StablecoinResolve, Conclude
  <2> HIDE DEF chain
  <2>3. CASE Resolve(chain, request.token) # {}
    <3>1. \A e \in Resolve(chain, request.token) :
            /\ e \in Registry /\ e.asset.chain = chain
            /\ \A a \in NamedAsset(chain) : e.asset = a
      BY <1>2, ResolveFacts
    <3>2. answer' = Resolution(Resolve(chain, request.token), {}, {})
      BY <2>2, <2>3
    <3>3. QED
      BY <1>3, <2>1, <3>1, <3>2
  <2>4. CASE Resolve(chain, request.token) = {}
    <3>1. PICK entries, observed, alike : UnknownToken(chain) = Resolution(entries, observed, alike)
      BY DEF UnknownToken
    <3>2. answer' = Resolution(entries, observed, alike)
      BY <2>2, <2>4, <3>1
    <3>3. QED
      BY <1>2, <1>3, <1>7, <2>1, <2>4, <3>1, <3>2, UnknownTokenFacts
  <2>5. QED
    BY <2>3, <2>4
<1>8. QED
  BY <1>5, <1>6, <1>7

(* A payment is asked for in a registered asset of the chain, the one the token names. *)
LEMMA BuildRequestStep ==
  ASSUME TokenAsked, BuildRequest
  PROVE  OnlyCanonicalTokens'
<1>1. request.op = "payments_build_request" /\ UNCHANGED <<request, world>>
  BY DEF BuildRequest, Conclude
<1>2. request.token.form \in {"caip", "address", "symbol", "native"}
  BY <1>1 DEF TokenAsked
<1> DEFINE entries == Resolve(request.chain, request.token)
<1>3. CASE answer'.at = "refused"
  BY <1>3 DEF OnlyCanonicalTokens
<1>4. ASSUME answer'.at # "refused" PROVE OnlyCanonicalTokens'
  <2>1. \A code : Refuse(code).at = "refused"
    BY DEF Refuse
  <2>2. /\ entries # {}
        /\ answer' = Reply([pays |-> [asset |-> (CHOOSE e \in entries : TRUE).asset,
                                      to |-> request.recipient, raw |-> request.amount],
                            reference |-> request.format = "solana_pay"])
    BY <1>4, <2>1 DEF BuildRequest, Conclude
  <2> DEFINE e == CHOOSE e \in entries : TRUE
  <2>3. answer'.at = "replied" /\ answer'.out.pays.asset = e.asset
    BY <2>2 DEF Reply
  <2>4. e \in entries
    BY <2>2
  <2> HIDE DEF e
  <2>5. /\ e \in Registry /\ e.asset.chain = request.chain
        /\ \A a \in NamedAsset(request.chain) : e.asset = a
    BY <1>2, <2>4, ResolveFacts
  <2>6. \A a \in NamedAsset(request.chain)' : e.asset = a
    BY <1>1, <2>5 DEF NamedAsset
  <2>7. QED
    BY <1>1, <2>3, <2>5, <2>6 DEF OnlyCanonicalTokens
<1>5. QED
  BY <1>3, <1>4

(* Only what the registry has is called canonical (check_token). *)
LEMMA AddressValidateStep ==
  ASSUME AddressValidate
  PROVE  OnlyCanonicalTokens'
<1>1. request.op = "address_validate" /\ UNCHANGED <<request, world>>
  BY DEF AddressValidate, Conclude
<1>2. \A t \in TokenCheck : t.issuance = "canonical" =>
        \A a \in t.asset : a.address = Native \/ \E e \in Registry : e.asset = a
  <2>1. ASSUME NEW a
        PROVE  Issuance(a) = "canonical" => a.address = Native \/ \E e \in Registry : e.asset = a
    BY DEF Issuance, ByAsset
  <2>2. QED
    BY <2>1 DEF TokenCheck
<1>3. ASSUME NEW kind, NEW warned, NEW token,
             answer' = Reply([kind |-> kind, warned |-> warned, token |-> token]),
             token \subseteq TokenCheck
      PROVE  OnlyCanonicalTokens'
  <2>1. answer'.at = "replied" /\ answer'.out.token = token
    BY <1>3 DEF Reply
  <2>2. QED
    BY <1>1, <1>2, <1>3, <2>1 DEF OnlyCanonicalTokens
<1>4. \/ \E code : answer' = Refuse(code)
      \/ \E kind, warned : answer' = Reply([kind |-> kind, warned |-> warned, token |-> {}])
      \/ \E kind, warned : answer' = Reply([kind |-> kind, warned |-> warned, token |-> TokenCheck])
  BY DEF AddressValidate, Conclude
<1>5. ASSUME NEW code, answer' = Refuse(code) PROVE OnlyCanonicalTokens'
  <2>1. answer'.at # "replied"
    BY <1>5 DEF Refuse
  <2>2. QED
    BY <2>1, Zenon DEF OnlyCanonicalTokens
<1>6. ASSUME NEW kind, NEW warned, NEW token \in {{}, TokenCheck},
             answer' = Reply([kind |-> kind, warned |-> warned, token |-> token])
      PROVE  OnlyCanonicalTokens'
  <2>1. token \subseteq TokenCheck
    OBVIOUS
  <2>2. QED
    BY <1>3, <1>6, <2>1
<1>7. QED
  BY <1>4, <1>5, <1>6, Zenon

(* A call starts with no answer. *)
LEMMA TokensStart == StartIn(TokenCases) => TokenAsked /\ OnlyCanonicalTokens
BY TokensAssumption DEF StartIn, TokenAsked, OnlyCanonicalTokens, Asked

(* Every call of a token operation ends with a canonical answer. *)
LEMMA TokensStep ==
  TokenAsked /\ OnlyCanonicalTokens /\ [TokensNext]_vars => TokenAsked' /\ OnlyCanonicalTokens'
<1> SUFFICES ASSUME TokenAsked, OnlyCanonicalTokens, [TokensNext]_vars
             PROVE  TokenAsked' /\ OnlyCanonicalTokens'
  OBVIOUS
<1>1. UNCHANGED request
  BY DEF TokensNext, StablecoinResolve, BuildRequest, AddressValidate, Conclude, vars
<1>2. TokenAsked'
  BY <1>1 DEF TokenAsked
<1>3. CASE UNCHANGED vars
  <2>1. UNCHANGED <<request, answer>>
    BY <1>3 DEF vars
  <2>2. \A c : NamedAsset(c)' = NamedAsset(c)
    BY <2>1 DEF NamedAsset
  <2>3. (UNION {NamedAsset(c) : c \in ChainMeant})' = UNION {NamedAsset(c) : c \in ChainMeant}
    BY <2>1 DEF NamedAsset, ChainMeant
  <2>4. OnlyCanonicalTokens'
    BY <2>1, <2>2, <2>3 DEF OnlyCanonicalTokens
  <2>5. QED
    BY <1>2, <2>4
<1>4. CASE TokensNext
  BY <1>2, <1>4, ResolveStep, BuildRequestStep, AddressValidateStep DEF TokensNext
<1>5. QED
  BY <1>2, <1>3, <1>4

-----------------------------------------------------------------------------
(***************************************************************************)
(* Pages of a history: a page that ends above a block has all that is wanted *)
(* above it.                                                                *)
(***************************************************************************)
(* What a range of blocks holds, block by block. *)
LEMMA ItemsAre ==
  ASSUME NEW lo \in Int, NEW hi \in Int
  PROVE  \A x : x \in ItemsIn(lo, hi) <=> x[1] \in lo..hi /\ x \in ItemsOf(x[1])
<1>1. \A b, x : x \in ItemsOf(b) => x[1] = b
  BY DEF ItemsOf
<1>2. \A x : x \in ItemsIn(lo, hi) <=> \E b \in lo..hi : x \in ItemsOf(b)
  BY DEF ItemsIn
<1>3. QED
  BY <1>1, <1>2

\* The states of a scan, turn by turn.
TurnsOf(hi, at, n, t) == t = [i \in 0..n |-> IF i = 0 THEN ScanFrom(hi) ELSE Chunk(t[i - 1], at)]

LEMMA ScanUnfolds ==
  ASSUME NEW hi, NEW at
  PROVE  Scanned(hi, at) = (CHOOSE t : TurnsOf(hi, at, MaxCalls + 1, t))[MaxCalls + 1]
BY Zenon DEF Scanned, TurnsOf

LEMMA TurnsExist ==
  ASSUME NEW hi, NEW at, NEW n \in Nat
  PROVE  \E t : TurnsOf(hi, at, n, t)
<1> DEFINE Known == {i \in Nat : \E t : TurnsOf(hi, at, i, t)}
<1>1. 0 \in Known
  <2> DEFINE t == [i \in 0..0 |-> ScanFrom(hi)]
  <2>1. t = [i \in 0..0 |-> IF i = 0 THEN ScanFrom(hi) ELSE Chunk(t[i - 1], at)]
    OBVIOUS
  <2>2. QED
    BY <2>1 DEF TurnsOf
<1>2. ASSUME NEW i \in Known PROVE i + 1 \in Known
  <2>1. PICK g : TurnsOf(hi, at, i, g)
    OBVIOUS
  <2> DEFINE t == [j \in 0..(i + 1) |-> IF j = 0 THEN ScanFrom(hi) ELSE Chunk(g[j - 1], at)]
  <2>2. i \in Nat /\ i + 1 \in Nat
    OBVIOUS
  <2>3. \A j \in 0..i : g[j] = IF j = 0 THEN ScanFrom(hi) ELSE Chunk(g[j - 1], at)
    BY <2>1 DEF TurnsOf
  <2>4. \A j \in 0..i : t[j] = g[j]
    BY <2>2, <2>3
  <2>5. \A j \in 0..(i + 1) : j # 0 => j - 1 \in 0..i
    BY <2>2
  <2>6. t = [j \in 0..(i + 1) |-> IF j = 0 THEN ScanFrom(hi) ELSE Chunk(t[j - 1], at)]
    BY <2>4, <2>5
  <2>7. QED
    BY <2>2, <2>6 DEF TurnsOf
<1> HIDE DEF Known
<1>3. ASSUME {i \in Nat : i \notin Known} # {} PROVE FALSE
  <2>1. PICK i \in {j \in Nat : j \notin Known} : \A j \in {k \in Nat : k \notin Known} : i <= j
    BY <1>3, LeastNatural
  <2>2. i # 0 /\ i - 1 \in Nat /\ i - 1 \in Known
    BY <1>1, <2>1
  <2>3. i - 1 + 1 = i
    BY <2>2
  <2>4. QED
    BY <1>2, <2>1, <2>2, <2>3
<1>4. n \in Known
  BY <1>3
<1>5. QED
  BY <1>4 DEF Known

(* Whatever is wanted is asked for by one of the requests (topics). *)
LEMMA WantedIsAsked ==
  ASSUME PagesQuery(request), NEW k \in Wanted
  PROVE  \E i \in DOMAIN Topics(Direction) : k \in Directed(Topics(Direction)[i])
<1>1. Direction \in {"in", "out", "both"}
  BY DEF Direction, PagesQuery, HistoryOp
<1>2. k \in Directed(Direction)
  BY DEF Wanted
<1>3. CASE Direction = "both"
  <2>1. Topics(Direction) = <<"in", "out">>
    BY <1>3 DEF Topics
  <2>2. k \in Directed("in") \/ k \in Directed("out")
    BY <1>2, <1>3 DEF Directed
  <2>3. 1 \in DOMAIN <<"in", "out">> /\ 2 \in DOMAIN <<"in", "out">>
        /\ <<"in", "out">>[1] = "in" /\ <<"in", "out">>[2] = "out"
    OBVIOUS
  <2>4. QED
    BY <2>1, <2>2, <2>3
<1>4. CASE Direction # "both"
  <2>1. Topics(Direction) = <<Direction>>
    BY <1>4 DEF Topics
  <2>2. QED
    BY <1>2, <2>1
<1>5. QED
  BY <1>3, <1>4

ScanFields == {"next", "chunk", "calls", "items", "missed", "count", "done", "refused"}

\* A scan has read what is wanted above where it goes on, but for what was not yet there, and no more.
ScanReads(hi, s) ==
  /\ DOMAIN s = ScanFields
  /\ s.next \in Int /\ s.chunk \in Int /\ s.chunk >= 1 /\ s.next <= hi
  /\ ~s.done => s.next >= request.from
  /\ s.items \subseteq ItemsIn(s.next + 1, hi)
  /\ ItemsIn(s.next + 1, hi) \subseteq s.items \cup s.missed
  /\ hi >= request.from => s.next >= request.from - 1
  /\ hi < request.from => s.next = hi /\ s.done

(* One turn of the loop reads on, or asks for less (scan_transfers). *)
LEMMA ChunkReads ==
  ASSUME NEW hi \in Int, NEW s, NEW at, ScanReads(hi, s), PagesQuery(request)
  PROVE  ScanReads(hi, Chunk(s, at))
<1> DEFINE l == s.next - (s.chunk - 1)
           lo == IF l < request.from THEN request.from ELSE l
           sets == DOMAIN Topics(Direction)
           asked(i) == Matching(Topics(Direction)[i], lo, s.next)
           logs(i) == {x \in asked(i) : x[1] <= at[s.calls + i]}
           refused == {i \in sets : RangeRefused(logs(i), lo, s.next)}
           had == UNION {logs(i) : i \in sets}
           lost == UNION {asked(i) \ logs(i) : i \in sets}
           raw == Cardinality(UNION {{i} \X logs(i) : i \in sets})
           read == [s EXCEPT !.calls = @ + Cardinality(sets), !.items = @ \cup had, !.missed = @ \cup lost,
                             !.count = @ + raw, !.next = lo - 1, !.done = lo = request.from]
           half == [s EXCEPT !.calls = @ + Min(refused), !.chunk = AtLeastOne(HalfOf(s.next - lo))]
<1> USE DEF ScanReads, ScanFields
<1>0. request.from \in Nat
  BY DEF PagesQuery
<1>1. Chunk(s, at) \in {s, [s EXCEPT !.done = TRUE], half, [s EXCEPT !.done = TRUE, !.refused = TRUE], read}
      /\ (s.done => Chunk(s, at) = s)
  BY Zenon DEF Chunk
<1>7. had \cup lost = ItemsIn(lo, s.next)
  <2>1. \A i \in sets : logs(i) \subseteq asked(i) /\ asked(i) \subseteq ItemsIn(lo, s.next)
    BY DEF Matching
  <2>2. ASSUME NEW x \in ItemsIn(lo, s.next) PROVE \E i \in sets : x \in asked(i)
    <3>1. PICK b \in lo..s.next : x \in ItemsOf(b)
      BY DEF ItemsIn
    <3>2. world.blocks[x[1]][x[2]] \in Wanted
      BY <3>1 DEF ItemsOf
    <3>3. QED
      BY <3>2, WantedIsAsked DEF Matching
  <2> HIDE DEF logs, asked, sets
  <2>3. \A x : x \in had \cup lost <=> \E i \in sets : x \in asked(i)
    BY <2>1
  <2>4. \A x : x \in had \cup lost <=> x \in ItemsIn(lo, s.next)
    BY <2>1, <2>2, <2>3
  <2>5. QED
    BY <2>4
<1> HIDE DEF had, lost, raw, refused, sets, logs, asked
<1>2. CASE Chunk(s, at) = s
  BY <1>2
<1>3. CASE Chunk(s, at) \in {[s EXCEPT !.done = TRUE], [s EXCEPT !.done = TRUE, !.refused = TRUE]}
  BY <1>3
<1>4. CASE ~s.done /\ Chunk(s, at) = half
  <2>1. AtLeastOne(HalfOf(s.next - lo)) \in Int /\ AtLeastOne(HalfOf(s.next - lo)) >= 1
    BY <1>0 DEF AtLeastOne, HalfOf
  <2> HIDE DEF lo
  <2>2. QED
    BY <1>4, <2>1
<1>5. CASE ~s.done /\ Chunk(s, at) = read
  <2>1. lo \in Int /\ lo <= s.next /\ lo >= request.from
    BY <1>0, <1>5
  <2>2. ItemsIn(s.next + 1, hi) \cup ItemsIn(lo, s.next) = ItemsIn(lo, hi)
    <3>1. /\ \A x : x \in ItemsIn(s.next + 1, hi) <=> x[1] \in (s.next + 1)..hi /\ x \in ItemsOf(x[1])
          /\ \A x : x \in ItemsIn(lo, s.next) <=> x[1] \in lo..s.next /\ x \in ItemsOf(x[1])
          /\ \A x : x \in ItemsIn(lo, hi) <=> x[1] \in lo..hi /\ x \in ItemsOf(x[1])
      BY <2>1, ItemsAre
    <3>2. \A b : b \in lo..hi <=> b \in (s.next + 1)..hi \/ b \in lo..s.next
      BY <2>1
    <3> HIDE DEF lo
    <3>3. \A x : x \in ItemsIn(s.next + 1, hi) \cup ItemsIn(lo, s.next) <=> x \in ItemsIn(lo, hi)
      BY <3>1, <3>2
    <3>4. QED
      BY <3>3
  <2> HIDE DEF lo
  <2>3. /\ read.next = lo - 1 /\ read.chunk = s.chunk
        /\ read.items = s.items \cup had /\ read.missed = s.missed \cup lost
        /\ read.done = (lo = request.from)
        /\ DOMAIN read = ScanFields
    OBVIOUS
  <2>4. ~read.done => lo # request.from
    BY <2>3
  <2> HIDE DEF read
  <2>5. lo - 1 + 1 = lo
    BY <2>1
  <2>6. ~read.done => read.next >= request.from
    BY <1>0, <2>1, <2>3, <2>4
  <2>7. /\ read.items \subseteq ItemsIn(read.next + 1, hi)
        /\ ItemsIn(read.next + 1, hi) \subseteq read.items \cup read.missed
    BY <1>7, <2>2, <2>3, <2>5
  <2>8. read.next \in Int /\ read.chunk \in Int /\ read.chunk >= 1 /\ read.next <= hi
    BY <2>1, <2>3
  <2>9. hi >= request.from => read.next >= request.from - 1
    BY <1>0, <2>1, <2>3
  <2>10. hi >= request.from
    BY <1>0, <1>5
  <2>11. ScanReads(hi, read)
    BY <1>0, <2>3, <2>6, <2>7, <2>8, <2>9, <2>10
  <2>12. QED
    BY <1>5, <2>11
<1>6. QED
  BY <1>1, <1>2, <1>3, <1>4, <1>5

LEMMA ScanIs ==
  ASSUME NEW hi \in Int, NEW at, PagesQuery(request), Blocks(world), world.family = "evm"
  PROVE  ScanReads(hi, Scanned(hi, at))
<1> DEFINE n == MaxCalls + 1
           t == CHOOSE t : TurnsOf(hi, at, n, t)
<1>1. n \in Nat /\ DefaultChunk \in Nat
  BY HistoryAssumption
<1>8. world.maxRange \in Nat /\ request.from \in Nat
  BY DEF Blocks, PagesQuery
<1>2. TurnsOf(hi, at, n, t)
  BY <1>1, TurnsExist
<1>3. Scanned(hi, at) = t[n]
  BY ScanUnfolds
<1> HIDE DEF t, n
<1>4. \A i \in 0..n : t[i] = IF i = 0 THEN ScanFrom(hi) ELSE Chunk(t[i - 1], at)
  BY <1>2 DEF TurnsOf
<1>5. ScanReads(hi, ScanFrom(hi))
  <2>1. ItemsIn(hi + 1, hi) = {}
    BY DEF ItemsIn
  <2> DEFINE c == AtLeastOne(IF world.known THEN world.maxRange ELSE DefaultChunk)
             start == ScanFrom(hi)
  <2>2. c \in Int /\ c >= 1
    BY <1>1, <1>8 DEF AtLeastOne
  <2> HIDE DEF c
  <2>3. /\ DOMAIN start = ScanFields
        /\ start.next = hi /\ start.chunk = c /\ start.items = {}
    BY DEF ScanFrom, ScanFields, c
  <2>4. (~start.done => hi >= request.from) /\ (hi < request.from => start.done)
    <3>1. start.done <=> hi < request.from
      BY DEF ScanFrom
    <3> HIDE DEF start
    <3>2. QED
      BY <1>8, <3>1
  <2> HIDE DEF start
  <2>5. QED
    BY <1>8, <2>1, <2>2, <2>3, <2>4 DEF ScanReads, start
<1> DEFINE Bad == {i \in 0..n : ~ScanReads(hi, t[i])}
<1>6. ASSUME Bad # {} PROVE FALSE
  <2>1. PICK i \in Bad : \A j \in Bad : i <= j
    <3>1. Bad \in SUBSET Nat
      BY <1>1
    <3> HIDE DEF Bad
    <3>2. QED
      BY <1>6, <3>1, LeastNatural
  <2>2. i # 0
    BY <1>1, <1>4, <1>5, <2>1
  <2>3. i - 1 \in 0..n /\ i - 1 \notin Bad
    BY <1>1, <2>1, <2>2
  <2>4. t[i] = Chunk(t[i - 1], at)
    BY <1>4, <2>2
  <2>5. QED
    BY <2>1, <2>3, <2>4, ChunkReads
<1>7. QED
  BY <1>1, <1>3, <1>6

-----------------------------------------------------------------------------
\* The block up to which nothing has been read yet.
Unread(cursor) == IF world.family = "evm" THEN cursor ELSE cursor - 1

\* The exception of the property: a whole page of Solana's signatures newer than to_block.
Cut == world.family = "solana" /\ request.to < Height

\* The highest block a page is asked about.
Reach(cursor) == Lower(request.to, IF cursor = NoMore THEN Height ELSE Unread(cursor))

\* A page from a cursor: it has all that is wanted above where the next one starts, but for
\* what was not yet there, and no more.
PageGood(page, cursor) ==
  /\ page.items \subseteq ItemsIn(request.from, Reach(cursor))
  /\ page.next = NoMore => Cut \/ ItemsIn(request.from, Reach(cursor)) \subseteq page.items \cup page.missed
  /\ page.next # NoMore =>
       /\ page.next \in Nat /\ Unread(page.next) <= Reach(cursor)
       /\ \A x \in page.items : x[1] > Unread(page.next)
       /\ Cut \/ \A x \in ItemsIn(request.from, Reach(cursor)) :
                   x[1] > Unread(page.next) => x \in page.items \cup page.missed

LEMMA HeightIs ==
  ASSUME PagesQuery(request), Blocks(world)
  PROVE  /\ Height \in Nat /\ DOMAIN world.blocks = 1..Height
         /\ request.from \in Nat \ {0} /\ request.to \in Nat
BY LenProperties DEF PagesQuery, Blocks, Height

LEMMA EvmPageGood ==
  ASSUME PagesQuery(request), Blocks(world), world.family = "evm", NEW cursor \in Nat,
         NEW head \in Nat, head <= Height, NEW at
  PROVE  PageGood(EvmPage(cursor, head, at), cursor)
<1> DEFINE top == Lower(Lower(request.to, head), IF cursor = NoMore THEN head ELSE cursor)
           s == Scanned(top, at)
           page == EvmPage(cursor, head, at)
           due == ItemsIn(request.from, Reach(cursor))
<1>1. request.from \in Nat \ {0} /\ request.from \in Int /\ request.to \in Nat /\ Height \in Nat
  BY HeightIs
<1>2. /\ top \in Int /\ top <= head /\ Reach(cursor) \in Int
      /\ \A b \in Int : b <= top <=> b <= Reach(cursor) /\ b <= head
  BY <1>1 DEF Lower, Reach, Unread, NoMore
<1> HIDE DEF top
<1>3. ScanReads(top, s)
  BY <1>2, ScanIs
<1>4. page = [refused |-> s.refused, next |-> CursorOf(s), items |-> s.items,
              missed |-> s.missed \cup {x \in due : x[1] > head}]
  BY DEF EvmPage, top, Reach, Unread
<1> HIDE DEF s, due
<1>5. /\ page.next = (IF s.next >= request.from THEN s.next ELSE 0) /\ page.items = s.items
      /\ page.missed = s.missed \cup {x \in due : x[1] > head}
  BY <1>4 DEF CursorOf, NoMore
<1> HIDE DEF page
<1>6. /\ \A x : x \in ItemsIn(s.next + 1, top) <=> x[1] \in (s.next + 1)..top /\ x \in ItemsOf(x[1])
      /\ \A x : x \in due <=> x[1] \in request.from..Reach(cursor) /\ x \in ItemsOf(x[1])
  BY <1>1, <1>2, <1>3, ItemsAre DEF ScanReads, due
<1>7. /\ s.next \in Int /\ s.next <= top
      /\ top >= request.from => s.next >= request.from - 1
      /\ top < request.from => s.next = top
      /\ page.items \subseteq ItemsIn(s.next + 1, top)
      /\ ItemsIn(s.next + 1, top) \subseteq page.items \cup s.missed
  BY <1>1, <1>2, <1>3, <1>5 DEF ScanReads
<1>8. s.next \in Int /\ s.next <= top
  BY <1>3 DEF ScanReads
<1>9. \A x \in page.items : x[1] \in (s.next + 1)..top /\ x \in ItemsOf(x[1])
  BY <1>6, <1>7
<1>10. \A x \in page.items : x \in due /\ x[1] > s.next
  BY <1>1, <1>2, <1>6, <1>7, <1>8, <1>9
<1>11. ASSUME NEW x \in due, x[1] > s.next PROVE x \in page.items \cup page.missed
  <2>1. x[1] \in Int /\ x[1] <= Reach(cursor) /\ x \in ItemsOf(x[1])
    BY <1>1, <1>2, <1>6
  <2>2. CASE x[1] > head
    BY <1>5, <2>2
  <2>3. CASE x[1] <= head
    <3>1. x[1] \in (s.next + 1)..top
      BY <1>2, <1>8, <1>11, <2>1, <2>3
    <3>2. x \in ItemsIn(s.next + 1, top)
      BY <1>6, <2>1, <3>1
    <3>3. QED
      BY <1>5, <1>7, <3>2
  <2>4. QED
    BY <2>1, <2>2, <2>3
<1>12. ASSUME s.next >= request.from PROVE PageGood(page, cursor)
  <2>1. page.next = s.next /\ page.next \in Nat /\ page.next # NoMore /\ page.next <= Reach(cursor)
    BY <1>1, <1>2, <1>5, <1>8, <1>12 DEF NoMore
  <2>2. Unread(page.next) = s.next
    BY <2>1 DEF Unread
  <2>3. page.items \subseteq due /\ \A x \in page.items : x[1] > Unread(page.next)
    BY <1>10, <2>2
  <2>4. \A x \in due : x[1] > Unread(page.next) => x \in page.items \cup page.missed
    BY <1>11, <2>2
  <2> HIDE DEF page
  <2>5. QED
    BY <2>1, <2>2, <2>3, <2>4 DEF PageGood, due
<1>13. ASSUME s.next < request.from PROVE PageGood(page, cursor)
  <2>1. page.next = NoMore
    BY <1>1, <1>5, <1>8, <1>13 DEF NoMore
  <2>2. \A x \in due : x[1] > s.next
    BY <1>1, <1>2, <1>6, <1>8, <1>13
  <2>3. page.items \subseteq due /\ due \subseteq page.items \cup page.missed
    BY <1>10, <1>11, <2>2
  <2>4. QED
    BY <2>1, <2>3 DEF PageGood, due
<1>14. PageGood(page, cursor)
  BY <1>1, <1>8, <1>12, <1>13
<1>15. QED
  BY <1>14 DEF page

(* A finite set of integers has a least one. *)
LEMMA FiniteLeast ==
  ASSUME NEW S, IsFiniteSet(S), S \subseteq Int, S # {}
  PROVE  \E m \in S : \A x \in S : m <= x
<1> DEFINE Q == {T \in SUBSET S : T # {} => \E m \in T : \A x \in T : m <= x}
<1>1. {} \in Q
  OBVIOUS
<1>2. ASSUME NEW T \in SUBSET S, T # {}, \A x \in T : T \ {x} \in Q PROVE T \in Q
  <2>1. PICK y \in T : TRUE
    BY <1>2
  <2>2. CASE T \ {y} = {}
    BY <2>1, <2>2
  <2>3. CASE T \ {y} # {}
    <3>1. PICK m \in T \ {y} : \A x \in T \ {y} : m <= x
      BY <1>2, <2>3
    <3>2. m \in Int /\ y \in Int /\ \A x \in T : x \in Int
      OBVIOUS
    <3>3. CASE m <= y
      BY <3>1, <3>2, <3>3
    <3>4. CASE y < m
      <4>1. \A x \in T : y <= x
        BY <3>1, <3>2, <3>4
      <4>2. QED
        BY <4>1
    <3>5. QED
      BY <3>2, <3>3, <3>4
  <2>4. QED
    BY <2>2, <2>3
<1> HIDE DEF Q
<1>3. S \in Q
  BY <1>1, <1>2, FiniteInduction
<1>4. QED
  BY <1>3 DEF Q

(* Of a set with that many numbers, that many have fewer than that many above them. *)
LEMMA TopHasMany ==
  ASSUME NEW k \in Nat, NEW S, IsFiniteSet(S), S \subseteq Int, Cardinality(S) >= k
  PROVE  Cardinality({b \in S : Cardinality({c \in S : c > b}) < k}) >= k
<1> DEFINE Top(T) == {b \in T : Cardinality({c \in T : c > b}) < k}
           Q == {T \in SUBSET S : Cardinality(T) >= k => Cardinality(Top(T)) >= k}
<1>1. \A T \in SUBSET S : IsFiniteSet(T) /\ Cardinality(T) \in Nat
  BY FS_Subset, FS_CardinalityType
<1>2. {} \in Q
  <2>1. Top({}) = {}
    OBVIOUS
  <2>2. QED
    BY <2>1
<1>3. ASSUME NEW T \in SUBSET S, T # {}, \A x \in T : T \ {x} \in Q PROVE T \in Q
  <2>1. SUFFICES ASSUME Cardinality(T) >= k PROVE Cardinality(Top(T)) >= k
    OBVIOUS
  <2>2. CASE Cardinality(T) <= k
    <3>1. ASSUME NEW b \in T PROVE b \in Top(T)
      <4>1. {c \in T : c > b} \subseteq T \ {b}
        OBVIOUS
      <4>2. Cardinality(T \ {b}) = Cardinality(T) - 1 /\ IsFiniteSet(T \ {b})
        BY <1>1, FS_RemoveElement
      <4>3. Cardinality({c \in T : c > b}) <= Cardinality(T) - 1
        BY <4>1, <4>2, FS_Subset
      <4>4. Cardinality({c \in T : c > b}) \in Nat
        BY <1>1
      <4>5. QED
        BY <1>1, <2>2, <4>3, <4>4
    <3>2. Top(T) = T
      BY <3>1
    <3>3. QED
      BY <2>1, <3>2
  <2>3. CASE Cardinality(T) > k
    <3>1. PICK m \in T : \A x \in T : m <= x
      BY <1>1, <1>3, FiniteLeast
    <3>2. Cardinality(T \ {m}) = Cardinality(T) - 1
      BY <1>1, FS_RemoveElement
    <3>3. Cardinality(Top(T \ {m})) >= k
      BY <1>1, <1>3, <2>3, <3>2
    <3>4. ASSUME NEW b \in Top(T \ {m}) PROVE b \in Top(T)
      <4>1. {c \in T \ {m} : c > b} = {c \in T : c > b}
        BY <3>1
      <4>2. QED
        BY <4>1
    <3>5. Cardinality(Top(T \ {m})) <= Cardinality(Top(T))
      <4>1. Top(T \ {m}) \subseteq Top(T) /\ IsFiniteSet(Top(T))
        BY <1>1, <3>4
      <4> HIDE DEF Top
      <4>2. QED
        BY <4>1, FS_Subset
    <3>6. Cardinality(Top(T)) \in Nat /\ Cardinality(Top(T \ {m})) \in Nat
      <4>1. Top(T) \in SUBSET S /\ Top(T \ {m}) \in SUBSET S
        OBVIOUS
      <4> HIDE DEF Top
      <4>2. QED
        BY <1>1, <4>1
    <3> HIDE DEF Top
    <3>7. QED
      BY <3>3, <3>5, <3>6
  <2>4. QED
    BY <1>1, <2>2, <2>3
<1> HIDE DEF Q
<1>4. S \in Q
  BY <1>2, <1>3, FiniteInduction
<1>5. QED
  BY <1>4 DEF Q

(* Whatever is wanted of a block is listed at some address of the wallet. *)
LEMMA WantedIsListed ==
  ASSUME PagesQuery(request), NEW k \in Kind, k \in Wanted
  PROVE  \E a \in Addresses : k \in ListedAt(a)
<1>1. Direction \in {"in", "out", "both"}
  BY DEF Direction, PagesQuery, HistoryOp
<1>2. k \in {"in", "out", "self", "fake"} /\ (k = "fake" => ~OnlyTokens)
  BY <1>1 DEF Wanted, Directed
<1>3. CASE k \in {"in", "out", "self"}
  <2>1. k \in ListedAt("account") /\ "account" \in Addresses
    BY <1>3 DEF ListedAt, Addresses
  <2>2. QED
    BY <2>1
<1>4. CASE k = "fake"
  <2>1. k \in ListedAt("other account") /\ "other account" \in Addresses
    BY <1>2, <1>4 DEF ListedAt, Addresses
  <2>2. QED
    BY <2>1
<1>5. QED
  BY <1>2, <1>3, <1>4

(* An entry that is not among an address's newest has enough of them above it. *)
LEMMA NewestAre ==
  ASSUME PagesQuery(request), NEW last \in Int, NEW a
  PROVE  /\ IsFiniteSet(Signatures(a, last)) /\ Signatures(a, last) \subseteq Listed(a, last)
         /\ \A b \in Listed(a, last) \ Signatures(a, last) :
              Cardinality({c \in Signatures(a, last) : c > b}) >= request.limit
<1> DEFINE L == Listed(a, last)
           N == Signatures(a, last)
           k == request.limit
<1>1. N = {b \in L : Cardinality({c \in L : c > b}) < k} /\ k \in Nat
  BY DEF Signatures, Listed, PagesQuery
<1>2. L \subseteq Int /\ IsFiniteSet(L)
  <2>1. L \subseteq 1..last /\ IsFiniteSet(1..last)
    BY FS_Interval DEF Listed
  <2>2. QED
    BY <2>1, FS_Subset
<1>3. IsFiniteSet(N) /\ N \subseteq L
  <2>1. N \subseteq L
    BY <1>1
  <2> HIDE DEF L, N
  <2>2. QED
    BY <1>2, <2>1, FS_Subset
<1> HIDE DEF L, N, k
<1>4. ASSUME NEW b \in L \ N PROVE Cardinality({c \in N : c > b}) >= k
  <2> DEFINE S == {c \in L : c > b}
             T == {x \in S : Cardinality({c \in S : c > x}) < k}
  <2>1. IsFiniteSet(S) /\ S \subseteq Int
    BY <1>2, FS_Subset
  <2>2. Cardinality(S) \in Nat /\ Cardinality(S) >= k
    BY <1>1, <1>4, <2>1, FS_CardinalityType
  <2>3. Cardinality(T) >= k
    <3> HIDE DEF S
    <3>1. QED
      BY <1>1, <2>1, <2>2, TopHasMany
  <2>4. T \subseteq {c \in N : c > b}
    <3> SUFFICES ASSUME NEW x \in T PROVE x \in N /\ x > b
      OBVIOUS
    <3>1. x \in L /\ x > b
      OBVIOUS
    <3>2. {c \in S : c > x} = {c \in L : c > x}
      <4>1. b \in Int /\ x \in Int
        BY <1>2, <1>4, <3>1
      <4>2. \A c \in L : c \in Int /\ (c > x => c > b)
        BY <1>2, <3>1, <4>1
      <4>3. \A c : c \in {d \in S : d > x} <=> c \in {d \in L : d > x}
        BY <4>2
      <4>4. QED
        BY <4>3
    <3>3. QED
      BY <1>1, <3>1, <3>2
  <2>5. IsFiniteSet({c \in N : c > b})
    BY <1>3, FS_Subset
  <2> HIDE DEF T
  <2>6. Cardinality(T) <= Cardinality({c \in N : c > b})
    BY <2>4, <2>5, FS_Subset
  <2>7. Cardinality(T) \in Nat /\ Cardinality({c \in N : c > b}) \in Nat
    BY <2>4, <2>5, FS_Subset, FS_CardinalityType
  <2>8. QED
    BY <1>1, <2>3, <2>6, <2>7
<1>5. QED
  BY <1>3, <1>4 DEF L, N, k

(* The page that is merged of them leaves out nothing above its last entry (signature pages of
   rpc_vendor.rs). *)
LEMMA MergedComplete ==
  ASSUME PagesQuery(request), Blocks(world), NEW cursor \in Nat, NEW at \in [Addresses -> Views],
         request.to >= Below(cursor)
  PROVE  LET page == MergedPage(cursor, at) IN
         /\ page.slots \subseteq 1..Below(cursor)
         /\ page.more => page.slots # {}
         /\ \A a \in Addresses : \A b \in Listed(a, LastOf(cursor, at, a)) :
              ~page.more \/ (\E s \in page.slots : b >= s) => b \in page.slots
<1> DEFINE page == MergedPage(cursor, at)
           LastSeen(a) == LastOf(cursor, at, a)
           N(a) == Signatures(a, LastSeen(a))
           U == UNION {N(a) : a \in Addresses}
           all == {b \in U : b <= request.to}
           Above(b) == {c \in all : c > b}
           k == request.limit
<1>1. k \in Nat \ {0}
  BY DEF PagesQuery
<1>12. /\ Below(cursor) \in Int /\ request.to \in Int
       /\ \A a \in Addresses : LastSeen(a) \in Int /\ LastSeen(a) <= Below(cursor)
  <2>1. request.to \in Nat /\ Height \in Nat
    BY HeightIs
  <2>2. \A a \in Addresses : at[a] \in Nat
    BY <2>1 DEF Views
  <2>3. QED
    BY <2>1, <2>2 DEF LastOf, Below, Lower
<1>2. /\ \A a \in Addresses : N(a) \subseteq all
      /\ all \subseteq 1..Below(cursor) /\ IsFiniteSet(all)
  <2> HIDE DEF LastSeen
  <2>1. \A a \in Addresses : N(a) \subseteq 1..Below(cursor)
    BY <1>12, NewestAre DEF Listed
  <2> HIDE DEF N
  <2>2. /\ \A a \in Addresses : N(a) \subseteq all
        /\ all \subseteq 1..Below(cursor)
    BY <1>12, <2>1
  <2>3. IsFiniteSet(1..Below(cursor))
    BY <1>12, FS_Interval
  <2> HIDE DEF all
  <2>4. QED
    BY <2>2, <2>3, FS_Subset
<1>3. /\ page.slots = {b \in all : Cardinality(Above(b)) < k}
      /\ page.more <=> \/ \E a \in Addresses : Cardinality(N(a)) >= k
                       \/ Cardinality(all) > k
  BY DEF MergedPage
<1> HIDE DEF page, U, LastSeen
<1>4. \A T \in SUBSET all : IsFiniteSet(T) /\ Cardinality(T) \in Nat
  BY <1>2, FS_Subset, FS_CardinalityType
<1>5. \A T \in SUBSET all : \A R \in SUBSET T : Cardinality(R) <= Cardinality(T)
  BY <1>4, FS_Subset
<1>6. page.slots \subseteq 1..Below(cursor)
  BY <1>2, <1>3
<1>7. ASSUME page.more PROVE page.slots # {}
  <2>1. all # {}
    <3>1. CASE Cardinality(all) > k
      <4>1. Cardinality(all) # 0
        BY <1>1, <1>4, <3>1
      <4>2. QED
        BY <4>1, FS_EmptySet
    <3>2. ASSUME NEW a \in Addresses, Cardinality(N(a)) >= k PROVE all # {}
      <4>1. Cardinality(N(a)) # 0
        BY <1>1, <1>2, <1>4, <3>2
      <4>2. N(a) # {}
        BY <4>1, FS_EmptySet
      <4>3. QED
        BY <1>2, <4>2
    <3>3. QED
      BY <1>3, <1>7, <3>1, <3>2
  <2> HIDE DEF all
  <2>2. all \subseteq Int /\ Cardinality(all) \in Nat /\ Cardinality(all) >= 1
    <3>1. all \subseteq Int /\ Cardinality(all) \in Nat
      BY <1>2, <1>4
    <3>2. Cardinality(all) # 0
      BY <1>2, <2>1, FS_EmptySet
    <3>3. QED
      BY <3>1, <3>2
  <2>3. Cardinality({b \in all : Cardinality({c \in all : c > b}) < 1}) >= 1
    BY <1>2, <2>2, TopHasMany
  <2>4. {b \in all : Cardinality({c \in all : c > b}) < 1} # {}
    <3> DEFINE T == {b \in all : Cardinality({c \in all : c > b}) < 1}
    <3>1. T = {} => Cardinality(T) = 0
      <4> HIDE DEF T
      <4>1. QED
        BY FS_EmptySet
    <3> HIDE DEF T
    <3>2. Cardinality(T) >= 1
      BY <2>3 DEF T
    <3>3. QED
      BY <3>1, <3>2 DEF T
  <2>5. PICK b \in all : Cardinality(Above(b)) < 1
    BY <2>4
  <2>6. Cardinality(Above(b)) \in Nat
    BY <1>4
  <2>7. b \in page.slots
    BY <1>1, <1>3, <2>5, <2>6
  <2>8. QED
    BY <2>7
<1>8. ASSUME NEW a \in Addresses, NEW b \in Listed(a, LastSeen(a)), b \notin N(a)
      PROVE  Cardinality({c \in N(a) : c > b}) >= k
  BY <1>8, <1>12, NewestAre
<1>9. ASSUME NEW a \in Addresses, NEW b \in Listed(a, LastSeen(a)), ~page.more
      PROVE  b \in page.slots
  <2>1. ~(Cardinality(N(a)) >= k) /\ ~(Cardinality(all) > k)
    BY <1>3, <1>9
  <2>2. b \in N(a)
    <3>1. SUFFICES ASSUME b \notin N(a) PROVE FALSE
      OBVIOUS
    <3>2. Cardinality({c \in N(a) : c > b}) >= k
      BY <1>8, <3>1
    <3>3. N(a) \in SUBSET all /\ {c \in N(a) : c > b} \in SUBSET N(a) /\ {c \in N(a) : c > b} \in SUBSET all
      BY <1>2
    <3> HIDE DEF N
    <3>4. Cardinality({c \in N(a) : c > b}) <= Cardinality(N(a))
      BY <1>5, <3>3
    <3>5. Cardinality({c \in N(a) : c > b}) \in Nat /\ Cardinality(N(a)) \in Nat
      BY <1>4, <3>3
    <3>6. QED
      BY <1>1, <2>1, <3>2, <3>4, <3>5
  <2>3. b \in all /\ b \in Int
    BY <1>2, <2>2
  <2>4. Cardinality(all \ {b}) = Cardinality(all) - 1
    BY <1>2, <2>3, FS_RemoveElement
  <2>5. Above(b) \in SUBSET (all \ {b}) /\ all \ {b} \in SUBSET all
    BY <2>3
  <2>6. Cardinality(Above(b)) <= Cardinality(all \ {b})
    BY <1>5, <2>5
  <2>7. Cardinality(Above(b)) \in Nat /\ Cardinality(all) \in Nat
    BY <1>4
  <2> HIDE DEF Above, all
  <2>8. Cardinality(Above(b)) < k
    BY <1>1, <2>1, <2>4, <2>6, <2>7
  <2>9. QED
    BY <1>3, <2>3, <2>8
<1>10. ASSUME NEW a \in Addresses, NEW b \in Listed(a, LastSeen(a)), NEW s \in page.slots, b >= s
       PROVE  b \in page.slots
  <2>1. b \in Int /\ s \in Int
    BY <1>6, <1>10, <1>12 DEF Listed
  <2>2. Cardinality(Above(s)) < k
    BY <1>3
  <2>3. b \in N(a)
    <3>1. SUFFICES ASSUME b \notin N(a) PROVE FALSE
      OBVIOUS
    <3>2. Cardinality({c \in N(a) : c > b}) >= k
      BY <1>8, <3>1
    <3>3. {c \in N(a) : c > b} \in SUBSET Above(s)
      BY <1>2, <1>10, <2>1
    <3>4. Above(s) \in SUBSET all /\ {c \in N(a) : c > b} \in SUBSET all
      BY <1>2
    <3> HIDE DEF N, Above
    <3>5. Cardinality({c \in N(a) : c > b}) <= Cardinality(Above(s))
      BY <1>5, <3>3, <3>4
    <3>6. Cardinality({c \in N(a) : c > b}) \in Nat /\ Cardinality(Above(s)) \in Nat
      BY <1>4, <3>4
    <3>7. QED
      BY <1>1, <2>2, <3>2, <3>5, <3>6
  <2>4. b \in all
    BY <1>2, <2>3
  <2>5. Above(b) \in SUBSET Above(s) /\ Above(s) \in SUBSET all
    BY <1>2, <1>10, <2>1
  <2>6. Cardinality(Above(b)) <= Cardinality(Above(s))
    BY <1>5, <2>5
  <2>7. Cardinality(Above(b)) \in Nat /\ Cardinality(Above(s)) \in Nat
    BY <1>4, <2>5
  <2> HIDE DEF Above, all
  <2>8. QED
    BY <1>1, <1>3, <2>2, <2>4, <2>6, <2>7
<1>11. QED
  BY <1>6, <1>7, <1>9, <1>10 DEF page, LastSeen

LEMMA SolanaPageGood ==
  ASSUME PagesQuery(request), Blocks(world), world.family = "solana", NEW cursor \in Nat,
         cursor # NoMore => Unread(cursor) <= Height,
         NEW at \in [Addresses -> Views], NEW gone \in SUBSET MergedPage(cursor, at).slots
  PROVE  PageGood(SolanaPage(MergedPage(cursor, at), gone), cursor)
<1> DEFINE merged == MergedPage(cursor, at)
           kept == {b \in merged.slots : b >= request.from}
           page == SolanaPage(merged, gone)
           top == Reach(cursor)
           LastSeen(a) == LastOf(cursor, at, a)
<1>1. /\ request.from \in Nat \ {0} /\ request.to \in Nat
      /\ world.blocks \in Seq(Seq(Kind)) /\ Height \in Nat /\ DOMAIN world.blocks = 1..Height
  BY LenProperties DEF PagesQuery, Blocks, Height
<1>2. /\ top \in Int /\ top <= request.to /\ top <= Below(cursor) /\ (top = request.to \/ top = Below(cursor))
      /\ Below(cursor) \in Int /\ Below(cursor) <= Height
  BY <1>1 DEF Lower, Reach, Below, Unread
<1>13. \A a \in Addresses : LastSeen(a) \in Int /\ LastSeen(a) <= Below(cursor)
  <2>1. \A a \in Addresses : at[a] \in Nat
    BY <1>1 DEF Views
  <2>2. QED
    BY <1>2, <2>1 DEF LastOf, Lower
<1>3. /\ page.next = (IF merged.more /\ kept = merged.slots /\ kept # {} THEN Min(kept) ELSE 0)
      /\ page.items = UNION {ItemsOf(b) : b \in kept \ gone}
      /\ page.missed = UNION {ItemsOf(b) : b \in gone \cup merged.unlisted}
      /\ merged.unlisted = Unlisted(cursor, at)
  BY DEF SolanaPage, NoMore, MergedPage
<1>4. merged.slots \subseteq 1..Below(cursor) /\ \A b \in merged.slots : b <= request.to
  <2> HIDE DEF LastSeen
  <2>1. \A a \in Addresses : Signatures(a, LastSeen(a)) \subseteq 1..Below(cursor)
    BY <1>2, <1>13, NewestAre DEF Listed
  <2>2. \A b \in merged.slots : b \in UNION {Signatures(a, LastSeen(a)) : a \in Addresses} /\ b <= request.to
    BY DEF MergedPage, LastSeen
  <2>3. QED
    BY <2>1, <2>2
<1> HIDE DEF page, merged, top, LastSeen
<1>5. kept \subseteq request.from..top
  BY <1>1, <1>2, <1>4
<1>6. /\ \A x : x \in page.items <=> x[1] \in kept \ gone /\ x \in ItemsOf(x[1])
      /\ \A x : x \in ItemsOf(x[1]) /\ x[1] \in gone \cup Unlisted(cursor, at) => x \in page.missed
  <2>1. \A b, x : x \in ItemsOf(b) => x[1] = b
    BY DEF ItemsOf
  <2> HIDE DEF kept
  <2>2. QED
    BY <1>3, <2>1
<1>7. \A x : x \in ItemsIn(request.from, top) <=> x[1] \in request.from..top /\ x \in ItemsOf(x[1])
  BY <1>1, <1>2, ItemsAre
<1>8. page.items \subseteq ItemsIn(request.from, top)
  BY <1>5, <1>6, <1>7
<1>9. ASSUME NEW x \in ItemsIn(request.from, top)
      PROVE  x \in page.missed \/ \E a \in Addresses : x[1] \in Listed(a, LastSeen(a))
  <2> DEFINE b == x[1]
             i == x[2]
  <2>1. b \in request.from..top /\ x \in ItemsOf(b)
    BY <1>7
  <2>2. b \in 1..Below(cursor) /\ b \in 1..Height
    BY <1>1, <1>2, <2>1
  <2>3. i \in DOMAIN world.blocks[b] /\ world.blocks[b][i] \in Wanted
    BY <2>1 DEF ItemsOf
  <2>4. world.blocks[b] \in Seq(Kind)
    BY <1>1, <2>2, ElementOfSeq
  <2>5. world.blocks[b][i] \in Kind /\ world.blocks[b][i] \in ToSet(world.blocks[b])
    BY <2>3, <2>4, ElementOfSeq DEF ToSet
  <2>6. \E a \in Addresses : b \in Listed(a, Below(cursor))
    BY <2>2, <2>3, <2>5, WantedIsListed DEF Listed
  <2>7. b \in Unlisted(cursor, at) \/ \E a \in Addresses : b \in Listed(a, LastSeen(a))
    <3>1. PICK a \in Addresses : b \in Listed(a, Below(cursor))
      BY <2>6
    <3>2. b \in UNION {Listed(c, Below(cursor)) : c \in Addresses}
      BY <3>1
    <3>3. b \notin UNION {Listed(c, LastOf(cursor, at, c)) : c \in Addresses} => b \in Unlisted(cursor, at)
      BY <3>2 DEF Unlisted
    <3>4. QED
      BY <3>3, Zenon DEF LastSeen
  <2>8. QED
    BY <1>6, <2>1, <2>7
<1>10. CASE Cut
  <2>1. page.next # 0 => page.next \in Nat
    <3> SUFFICES ASSUME page.next # 0 PROVE page.next \in Nat
      OBVIOUS
    <3>1. page.next = Min(kept) /\ kept # {} /\ kept \subseteq Int /\ \A b \in kept : 1 <= b
      BY <1>3, <1>4
    <3> HIDE DEF kept
    <3>2. Min(kept) \in kept
      BY <3>1, MinIs
    <3>3. page.next \in Int /\ 1 <= page.next
      BY <3>1, <3>2
    <3>4. QED
      BY <3>3
  <2>2. page.next # 0 => Unread(page.next) <= top /\ \A x \in page.items : x[1] > Unread(page.next)
    <3> SUFFICES ASSUME page.next # 0
                 PROVE  Unread(page.next) <= top /\ \A x \in page.items : x[1] > Unread(page.next)
      OBVIOUS
    <3>1. page.next = Min(kept) /\ kept # {} /\ kept \subseteq Int /\ \A b \in kept : 1 <= b /\ b <= top
      BY <1>1, <1>2, <1>3, <1>4, <1>5
    <3>2. Unread(page.next) = page.next - 1
      BY DEF Unread
    <3> HIDE DEF kept
    <3>3. Min(kept) \in kept /\ \A b \in kept : Min(kept) <= b
      BY <3>1, MinIs
    <3>4. \A x \in page.items : x[1] \in kept
      BY <1>6
    <3>7. page.next \in Int /\ page.next <= top /\ top \in Int
      BY <1>2, <3>1, <3>3
    <3>8. \A b \in kept : b \in Int /\ page.next <= b
      BY <3>1, <3>3
    <3>5. \A b \in kept : b > page.next - 1 /\ page.next - 1 <= top
      BY <3>7, <3>8
    <3>6. QED
      BY <3>1, <3>2, <3>3, <3>4, <3>5
  <2>3. PageGood(page, cursor)
    BY <1>8, <1>10, <2>1, <2>2 DEF PageGood, NoMore, top
  <2>4. QED
    BY <2>3 DEF page, merged
<1>11. CASE ~Cut
  <2>1. request.to >= Below(cursor)
    BY <1>1, <1>2, <1>11 DEF Cut
  <2>2. /\ merged.more => merged.slots # {}
        /\ \A a \in Addresses : \A b \in Listed(a, LastSeen(a)) :
             ~merged.more \/ (\E s \in merged.slots : b >= s) => b \in merged.slots
    BY <2>1, MergedComplete DEF merged, LastSeen
  <2>3. ASSUME NEW x \in ItemsIn(request.from, top), ~merged.more \/ \E s \in merged.slots : x[1] >= s
        PROVE  x \in page.items \cup page.missed
    <3>1. x \in page.missed \/ x[1] \in merged.slots
      BY <1>9, <2>2, <2>3
    <3>2. x[1] >= request.from /\ x \in ItemsOf(x[1])
      BY <1>1, <1>2, <1>7
    <3>3. QED
      BY <1>6, <3>1, <3>2
  <2>4. CASE merged.more /\ kept = merged.slots /\ kept # {}
    <3>1. page.next = Min(kept) /\ kept # {} /\ kept \subseteq Int /\ \A b \in kept : 1 <= b
      BY <1>3, <1>4, <2>4
    <3>2. Min(kept) \in kept
      <4> HIDE DEF kept
      <4>1. QED
        BY <3>1, MinIs
    <3>3. page.next \in merged.slots /\ page.next \in Nat \ {0}
      BY <1>4, <3>1, <3>2
    <3>4. \A x \in ItemsIn(request.from, top) : x[1] > page.next - 1 => x \in page.items \cup page.missed
      <4> SUFFICES ASSUME NEW x \in ItemsIn(request.from, top), x[1] > page.next - 1
                   PROVE  x \in page.items \cup page.missed
        OBVIOUS
      <4>1. x[1] \in Int
        BY <1>1, <1>2, <1>7
      <4>2. x[1] >= page.next
        BY <3>3, <4>1
      <4>3. QED
        BY <2>3, <3>3, <4>2
    <3>5. /\ Unread(page.next) = page.next - 1 /\ Unread(page.next) <= top
          /\ \A x \in page.items : x[1] > Unread(page.next)
      <4>1. Unread(page.next) = page.next - 1
        BY DEF Unread
      <4>2. \A b \in kept : page.next <= b /\ b \in Int /\ b <= top
        <5>1. \A b \in kept : b \in Int /\ b <= top
          BY <1>1, <1>2, <1>5
        <5> HIDE DEF kept
        <5>2. Min(kept) \in kept /\ \A b \in kept : Min(kept) <= b
          BY <3>1, MinIs
        <5>3. QED
          BY <3>1, <5>1, <5>2
      <4>3. \A x \in page.items : x[1] \in kept
        BY <1>6
      <4>4. page.next \in kept
        BY <3>1, <3>2
      <4> HIDE DEF kept
      <4>5. \A b \in kept : b > page.next - 1 /\ page.next - 1 <= top
        BY <1>2, <3>3, <4>2, <4>4
      <4>6. QED
        BY <4>1, <4>3, <4>4, <4>5
    <3>6. PageGood(page, cursor)
      BY <1>8, <3>3, <3>4, <3>5 DEF PageGood, NoMore, top
    <3>7. QED
      BY <3>6 DEF page, merged
  <2>5. CASE ~(merged.more /\ kept = merged.slots /\ kept # {})
    <3>1. page.next = 0
      BY <1>3, <2>5
    <3>2. ASSUME NEW x \in ItemsIn(request.from, top) PROVE x \in page.items \cup page.missed
      <4>1. CASE ~merged.more
        BY <2>3, <4>1
      <4>2. CASE merged.more
        <5>1. kept # merged.slots
          BY <2>2, <2>5, <4>2
        <5>2. PICK s \in merged.slots : ~(s >= request.from)
          BY <5>1
        <5>3. x[1] >= request.from /\ x[1] \in Int /\ s \in Int
          BY <1>1, <1>2, <1>4, <1>7
        <5>4. x[1] >= s
          BY <1>1, <5>2, <5>3
        <5>5. QED
          BY <2>3, <5>4
      <4>3. QED
        BY <4>1, <4>2
    <3>3. PageGood(page, cursor)
      BY <1>8, <3>1, <3>2 DEF PageGood, NoMore, top
    <3>4. QED
      BY <3>3 DEF page, merged
  <2>6. QED
    BY <2>4, <2>5
<1>12. QED
  BY <1>10, <1>11

-----------------------------------------------------------------------------
\* What a walk has: everything that is due above where it goes on, but for what was not yet
\* there; and nothing below.
Walked(cursor, found) ==
  /\ cursor \in Nat \ {NoMore} /\ Unread(cursor) <= Height /\ found.upto \in 0..Height
  /\ found.got \subseteq Due(Height)
  /\ Cut \/ \A x \in Due(found.upto) : x[1] > Unread(cursor) => x \in found.got \cup found.missed
  /\ found.silent \/ \A x \in found.got : x[1] > Unread(cursor)
  /\ found.twice => found.silent

Ended(found) ==
  /\ Cut \/ Due(found.upto) \subseteq found.got \cup found.missed
  /\ found.got \subseteq Due(Height)
  /\ found.twice => found.silent

HistoryInv ==
  request.op \in HistoryOp =>
    /\ PagesQuery(request) /\ Blocks(world)
    /\ answer.at = "walk" => Walked(answer.cursor, answer.found)
    /\ answer.at = "replied" => Ended(answer.out)

\* A transfer is due up to a block when it is asked for and happened in a block up to it.
DueAre ==
  /\ \A n \in Nat : \A x : x \in Due(n) <=> /\ x[1] \in Int /\ request.from <= x[1]
                                            /\ x[1] <= request.to /\ x[1] <= n /\ x \in ItemsOf(x[1])
  /\ \A x : x \in Due(Height) <=> /\ x[1] \in Int /\ request.from <= x[1]
                                  /\ x[1] <= request.to /\ x[1] <= Height /\ x \in ItemsOf(x[1])

LEMMA DueIs ==
  ASSUME PagesQuery(request), Blocks(world)
  PROVE  DueAre
<1> SUFFICES ASSUME NEW n \in Nat
             PROVE  \A x : x \in Due(n) <=> /\ x[1] \in Int /\ request.from <= x[1]
                                            /\ x[1] <= request.to /\ x[1] <= n /\ x \in ItemsOf(x[1])
  BY HeightIs DEF DueAre
<1>1. request.from \in Nat /\ request.to \in Nat
  BY HeightIs
<1>2. Lower(request.to, n) \in Int /\ \A b \in Int : b <= Lower(request.to, n) <=> b <= request.to /\ b <= n
  BY <1>1 DEF Lower
<1>3. \A x : x \in Due(n) <=> x[1] \in request.from..Lower(request.to, n) /\ x \in ItemsOf(x[1])
  BY <1>1, <1>2, ItemsAre DEF Due
<1>4. QED
  BY <1>1, <1>2, <1>3

LEMMA PagesGood ==
  ASSUME PagesQuery(request), Blocks(world), NEW cursor \in Nat,
         cursor # NoMore => Unread(cursor) <= Height, NEW page \in Pages(cursor)
  PROVE  PageGood(page, cursor)
<1>1. \A h \in Views : h \in Nat /\ h <= Height
  BY HeightIs DEF Views
<1>2. CASE world.family = "evm"
  <2>1. PICK head \in Views, at \in [1..MaxCalls -> Views] : page = EvmPage(cursor, head, at)
    BY <1>2 DEF Pages
  <2>2. QED
    BY <1>1, <1>2, <2>1, EvmPageGood
<1>3. CASE world.family # "evm"
  <2>1. world.family = "solana"
    BY <1>3 DEF Blocks
  <2>2. PICK at \in [Addresses -> Views] : \E gone \in SUBSET MergedPage(cursor, at).slots :
          page = SolanaPage(MergedPage(cursor, at), gone)
    BY <1>3 DEF Pages
  <2>3. QED
    BY <2>1, <2>2, SolanaPageGood
<1>4. QED
  BY <1>2, <1>3

(* What a walk has stays what it has while the chain stands still. *)
LEMMA WalkStands ==
  ASSUME PagesQuery(request), Blocks(world), UNCHANGED <<request, world>>
  PROVE  /\ PagesQuery(request)' /\ Blocks(world)'
         /\ \A c, f : Walked(c, f) => Walked(c, f)'
         /\ \A f : Ended(f) => Ended(f)'
<1>1. \A n : Due(n)' = Due(n)
  BY DEF Due, Lower, ItemsIn, ItemsOf, Wanted, Directed, Direction, OnlyTokens
<1>2. (Cut' <=> Cut) /\ Height' = Height /\ \A c : Unread(c)' = Unread(c)
  BY DEF Cut, Height, Unread
<1>3. PagesQuery(request)' /\ Blocks(world)'
  OBVIOUS
<1>4. QED
  BY <1>1, <1>2, <1>3 DEF Walked, Ended

(* A page makes the walk go on, or ends it with everything (next_cursor of the pages). *)
LEMMA TakeStep ==
  ASSUME HistoryInv, request.op \in HistoryOp, answer.at \in {"asked", "walk"},
         UNCHANGED <<request, world>>,
         NEW v, NEW cursor, cursor = NoMore \/ (answer.at = "walk" /\ cursor = answer.cursor),
         NEW page \in Pages(cursor), NEW cursor_reset \in BOOLEAN, cursor_reset => cursor = NoMore,
         TakePage(v, page, cursor, cursor_reset)
  PROVE  HistoryInv'
<1> DEFINE first == answer.at = "asked"
           fresh == first \/ cursor_reset
           upto == IF first THEN Height ELSE answer.found.upto
           had == IF fresh THEN {} ELSE answer.found.got
           got == had \cup page.items
           lost == IF cursor = NoMore THEN {} ELSE answer.found.missed
           missed == lost \cup page.missed
           silent == ~fresh /\ (answer.found.silent \/ cursor = NoMore)
           twice == ~fresh /\ (answer.found.twice \/ had \cap page.items # {})
           found == [upto |-> upto, got |-> got, missed |-> missed, silent |-> silent, twice |-> twice]
<1>1. /\ PagesQuery(request) /\ Blocks(world)
      /\ answer.at = "walk" => Walked(answer.cursor, answer.found)
  BY DEF HistoryInv
<1>2. Height \in Nat /\ request.from \in Nat \ {0} /\ request.to \in Nat
  BY <1>1, HeightIs
<1>3. /\ cursor \in Nat /\ (cursor # NoMore => Unread(cursor) <= Height)
      /\ cursor = NoMore => Unread(cursor) \in Int
      /\ cursor # NoMore => ~fresh /\ cursor = answer.cursor /\ Unread(cursor) \in Int
  BY <1>1 DEF Walked, NoMore, Unread
<1>4. PageGood(page, cursor)
  BY <1>1, <1>3, PagesGood
<1>5. answer' = IF page.refused THEN Refuse("InvalidInput")
                ELSE IF page.next = NoMore THEN Reply(found)
                ELSE Walk(page.next, v, found)
  BY Zenon DEF TakePage
<1>6. /\ found.upto = upto /\ found.got = got /\ found.missed = missed
      /\ (found.silent <=> silent) /\ (found.twice <=> twice)
  BY Zenon
<1>7. upto \in Nat /\ upto <= Height /\ had \subseteq Due(Height)
  BY <1>1, <1>2 DEF Walked
<1>8. /\ Reach(cursor) \in Int
      /\ \A b \in Int : b <= Reach(cursor) <=>
           b <= request.to /\ b <= (IF cursor = NoMore THEN Height ELSE Unread(cursor))
  BY <1>2, <1>3 DEF Reach, Lower
<1>9. \A x : x \in ItemsIn(request.from, Reach(cursor)) <=> x[1] \in request.from..Reach(cursor) /\ x \in ItemsOf(x[1])
  BY <1>2, <1>8, ItemsAre
<1>10. \A n \in Nat : \A x : x \in Due(n) <=> /\ x[1] \in Int /\ request.from <= x[1]
                                              /\ x[1] <= request.to /\ x[1] <= n /\ x \in ItemsOf(x[1])
  BY <1>1, DueIs DEF DueAre
<1>11. got \subseteq Due(Height)
  <2>1. ASSUME NEW x \in page.items PROVE x \in Due(Height)
    <3>1. x \in ItemsIn(request.from, Reach(cursor))
      BY <1>4 DEF PageGood
    <3>2. x[1] \in Int /\ request.from <= x[1] /\ x[1] <= Reach(cursor) /\ x \in ItemsOf(x[1])
      BY <1>2, <1>8, <1>9, <3>1
    <3>3. x[1] <= request.to /\ x[1] <= Height
      BY <1>2, <1>3, <1>8, <3>2
    <3>4. QED
      BY <1>2, <1>10, <3>2, <3>3
  <2>2. QED
    BY <1>7, <2>1
<1>12. ASSUME ~Cut, NEW x \in Due(upto), x \notin had \cup lost PROVE x \in ItemsIn(request.from, Reach(cursor))
  <2>1. x[1] \in Int /\ request.from <= x[1] /\ x[1] <= request.to /\ x[1] <= upto /\ x \in ItemsOf(x[1])
    BY <1>7, <1>10, <1>12
  <2>2. x[1] <= (IF cursor = NoMore THEN Height ELSE Unread(cursor))
    <3>1. CASE cursor = NoMore
      BY <1>2, <1>7, <2>1, <3>1
    <3>2. CASE cursor # NoMore
      <4>1. x[1] > Unread(cursor) => x \in answer.found.got \cup answer.found.missed
        BY <1>1, <1>3, <1>12, <3>2 DEF Walked
      <4>2. QED
        BY <1>3, <1>12, <2>1, <3>2, <4>1
    <3>3. QED
      BY <3>1, <3>2
  <2>3. QED
    BY <1>2, <1>8, <1>9, <2>1, <2>2
<1>13. ASSUME ~silent, NEW x \in had PROVE cursor # NoMore /\ x[1] > Unread(cursor) /\ x[1] \in Int
  <2>1. ~fresh /\ cursor # NoMore /\ ~answer.found.silent
    BY <1>13
  <2>2. x \in Due(Height)
    BY <1>7, <1>13
  <2>3. QED
    BY <1>1, <1>2, <1>3, <1>10, <1>13, <2>1, <2>2 DEF Walked
<1>14. \A x \in page.items : x[1] \in Int /\ (cursor # NoMore => x[1] <= Unread(cursor))
  BY <1>2, <1>3, <1>4, <1>8, <1>9 DEF PageGood
<1>15. twice => silent
  <2> SUFFICES ASSUME twice, ~silent PROVE FALSE
    OBVIOUS
  <2>1. ~fresh /\ ~answer.found.silent /\ answer.at = "walk"
    <3>1. cursor # NoMore /\ ~fresh
      BY <1>3
    <3>2. QED
      BY <3>1
  <2>2. ~answer.found.twice
    BY <1>1, <2>1 DEF Walked
  <2>3. PICK x \in had : x \in page.items
    BY <2>2
  <2>4. cursor # NoMore /\ x[1] > Unread(cursor) /\ x[1] \in Int /\ x[1] <= Unread(cursor)
    BY <1>13, <1>14, <2>3
  <2>5. QED
    BY <1>3, <2>4
<1> HIDE DEF upto, had, lost, silent, twice
<1>16. page.next = NoMore => Ended(found)
  <2> SUFFICES ASSUME page.next = NoMore PROVE Ended(found)
    OBVIOUS
  <2>1. ASSUME ~Cut, NEW x \in Due(upto) PROVE x \in got \cup missed
    <3>1. x \notin had \cup lost => x \in page.items \cup page.missed
      BY <1>4, <1>12, <2>1 DEF PageGood
    <3>2. QED
      BY <3>1
  <2> HIDE DEF found, got, missed
  <2>2. QED
    BY <1>6, <1>11, <1>15, <2>1 DEF Ended
<1>17. page.next # NoMore => Walked(page.next, found)
  <2> SUFFICES ASSUME page.next # NoMore PROVE Walked(page.next, found)
    OBVIOUS
  <2>1. ASSUME ~Cut, NEW x \in Due(upto), x[1] > Unread(page.next) PROVE x \in got \cup missed
    <3>1. x \notin had \cup lost => x \in page.items \cup page.missed
      BY <1>4, <1>12, <2>1 DEF PageGood
    <3>2. QED
      BY <3>1
  <2>2. /\ page.next \in Nat \ {NoMore} /\ Unread(page.next) <= Height /\ upto \in 0..Height
        /\ Unread(page.next) \in Int /\ (cursor # NoMore => Unread(page.next) <= Unread(cursor))
    <3>1. page.next \in Nat \ {NoMore} /\ Unread(page.next) <= Reach(cursor)
      BY <1>4 DEF PageGood
    <3>2. Unread(page.next) \in Int
      BY <3>1 DEF Unread
    <3>3. Reach(cursor) <= Height /\ (cursor # NoMore => Reach(cursor) <= Unread(cursor))
      BY <1>2, <1>3, <1>8
    <3>4. QED
      BY <1>2, <1>3, <1>7, <1>8, <3>1, <3>2, <3>3
  <2>3. ASSUME ~silent, NEW x \in got PROVE x[1] > Unread(page.next)
    <3>1. CASE x \in page.items
      BY <1>4, <3>1 DEF PageGood
    <3>2. CASE x \in had
      <4>1. cursor # NoMore /\ x[1] > Unread(cursor) /\ x[1] \in Int
        BY <1>13, <2>3, <3>2
      <4>2. QED
        BY <1>3, <2>2, <4>1
    <3>3. QED
      BY <3>1, <3>2
  <2> HIDE DEF found, got, missed
  <2>4. QED
    BY <1>6, <1>11, <1>15, <2>1, <2>2, <2>3 DEF Walked
<1> HIDE DEF found, got, missed
<1>18. /\ PagesQuery(request)' /\ Blocks(world)'
       /\ \A c, f : Walked(c, f) => Walked(c, f)'
       /\ \A f : Ended(f) => Ended(f)'
  BY <1>1, WalkStands
<1>19. CASE page.refused
  <2>1. answer'.at = "refused"
    BY <1>5, <1>19 DEF Refuse
  <2>2. QED
    BY <1>18, <2>1 DEF HistoryInv
<1>20. CASE ~page.refused /\ page.next = NoMore
  <2>1. answer'.at = "replied" /\ answer'.out = found
    BY <1>5, <1>20 DEF Reply
  <2>2. QED
    BY <1>16, <1>18, <1>20, <2>1 DEF HistoryInv
<1>21. CASE ~page.refused /\ page.next # NoMore
  <2>1. answer'.at = "walk" /\ answer'.cursor = page.next /\ answer'.found = found
    BY <1>5, <1>21 DEF Walk
  <2>2. QED
    BY <1>17, <1>18, <1>21, <2>1 DEF HistoryInv
<1>22. QED
  BY <1>19, <1>20, <1>21

(* The chain grows between the pages: what was due stays due, and more may be. *)
LEMMA NewBlockStep ==
  ASSUME HistoryInv, NewBlock
  PROVE  HistoryInv'
<1>1. PICK block \in Grown : world' = [world EXCEPT !.blocks = Append(@, block)]
  BY DEF NewBlock
<1>2. /\ UNCHANGED <<request, answer>> /\ answer.at \in {"asked", "walk"} /\ request.op \in HistoryOp
      /\ PagesQuery(request) /\ Blocks(world)
      /\ answer.at = "walk" => Walked(answer.cursor, answer.found)
  BY DEF NewBlock, Walking, HistoryInv
<1>3. Height \in Nat /\ DOMAIN world.blocks = 1..Height /\ request.to \in Nat /\ request.from \in Nat \ {0}
  BY <1>2, HeightIs
<1>4. /\ {"family", "blocks"} \subseteq DOMAIN world' /\ world'.family = world.family
      /\ world'.blocks = Append(world.blocks, block)
      /\ "maxRange" \in DOMAIN world => "maxRange" \in DOMAIN world' /\ world'.maxRange = world.maxRange
  BY <1>1, <1>2 DEF Blocks
<1>5. /\ world'.blocks \in Seq(Seq(Kind)) /\ Len(world'.blocks) = Height + 1
      /\ \A b \in 1..Height : world'.blocks[b] = world.blocks[b]
  <2>1. block \in Seq(Kind) /\ world.blocks \in Seq(Seq(Kind))
    BY <1>2, HistoryAssumption DEF Blocks
  <2>2. QED
    BY <1>4, <2>1, AppendProperties DEF Height
<1>6. Height' = Height + 1
  BY <1>5 DEF Height
<1>7. PagesQuery(request)' /\ Blocks(world)'
  BY <1>2, <1>4, <1>5 DEF Blocks
<1>8. \A b \in 1..Height : ItemsOf(b)' = ItemsOf(b)
  BY <1>2, <1>5 DEF ItemsOf, Wanted, Directed, Direction, OnlyTokens
<1>9. DueAre /\ DueAre'
  <2>1. DueAre
    BY <1>2, DueIs
  <2>2. DueAre'
    BY <1>7, DueIs, PTL
  <2>3. QED
    BY <2>1, <2>2
<1>10. /\ \A n \in Nat : \A x : x \in Due(n)' <=>
            /\ x[1] \in Int /\ request.from <= x[1]
            /\ x[1] <= request.to /\ x[1] <= n /\ x \in ItemsOf(x[1])'
       /\ \A x : x \in Due(Height)' <=>
            /\ x[1] \in Int /\ request.from <= x[1]
            /\ x[1] <= request.to /\ x[1] <= Height' /\ x \in ItemsOf(x[1])'
  BY <1>2, <1>9 DEF DueAre
<1>11. Due(Height) \subseteq Due(Height)'
  <2> SUFFICES ASSUME NEW x \in Due(Height) PROVE x \in Due(Height)'
    OBVIOUS
  <2>1. /\ x[1] \in Int /\ request.from <= x[1]
        /\ x[1] <= request.to /\ x[1] <= Height /\ x \in ItemsOf(x[1])
    BY <1>9 DEF DueAre
  <2>2. x[1] \in 1..Height /\ x[1] <= Height'
    BY <1>3, <1>6, <2>1
  <2>3. PICK b \in 1..Height : b = x[1]
    BY <2>2
  <2>4. ItemsOf(b)' = ItemsOf(b)
    BY <1>8
  <2>5. QED
    BY <1>10, <2>1, <2>2, <2>3, <2>4
<1>12. \A n \in 0..Height : Due(n)' \subseteq Due(n)
  <2> SUFFICES ASSUME NEW n \in 0..Height, NEW x \in Due(n)' PROVE x \in Due(n)
    OBVIOUS
  <2>1. /\ x[1] \in Int /\ request.from <= x[1]
        /\ x[1] <= request.to /\ x[1] <= n /\ x \in ItemsOf(x[1])'
    BY <1>3, <1>10
  <2>2. x[1] \in 1..Height
    BY <1>3, <2>1
  <2>3. PICK b \in 1..Height : b = x[1]
    BY <2>2
  <2>4. ItemsOf(b)' = ItemsOf(b)
    BY <1>8
  <2>5. x \in ItemsOf(x[1])
    BY <2>1, <2>3, <2>4
  <2>6. QED
    BY <1>3, <1>9, <2>1, <2>5 DEF DueAre
<1>13. (Cut => Cut') /\ \A c : Unread(c)' = Unread(c)
  BY <1>2, <1>3, <1>4, <1>6 DEF Cut, Unread
<1>14. \A c, f : Walked(c, f) => Walked(c, f)'
  <2> SUFFICES ASSUME NEW c, NEW f, Walked(c, f) PROVE Walked(c, f)'
    OBVIOUS
  <2>1. /\ c \in Nat \ {NoMore} /\ Unread(c) <= Height /\ f.upto \in 0..Height
        /\ f.got \subseteq Due(Height)
        /\ Cut \/ \A x \in Due(f.upto) : x[1] > Unread(c) => x \in f.got \cup f.missed
        /\ f.silent \/ \A x \in f.got : x[1] > Unread(c)
        /\ f.twice => f.silent
    BY Zenon DEF Walked
  <2>2. Unread(c) \in Int /\ Unread(c)' = Unread(c)
    BY <1>13, <2>1 DEF Unread
  <2>3. Unread(c)' <= Height' /\ f.upto \in 0..Height'
    BY <1>3, <1>6, <2>1, <2>2
  <2>4. f.got \subseteq Due(Height)'
    BY <1>11, <2>1
  <2>5. Cut' \/ \A x \in Due(f.upto)' : x[1] > Unread(c)' => x \in f.got \cup f.missed
    BY <1>12, <1>13, <2>1, <2>2
  <2>6. QED
    BY <2>1, <2>2, <2>3, <2>4, <2>5, Zenon DEF Walked
<1>15. QED
  BY <1>2, <1>7, <1>14 DEF HistoryInv

(* One step of a walk (wallet_get_transfers, payments_list_deposits). *)
LEMMA HistoryStep ==
  ASSUME HistoryInv, request.op \in HistoryOp, [HistoryNext]_vars
  PROVE  HistoryInv'
<1>1. CASE DepositsPage
  <2> DEFINE cursor == IF answer.at = "asked" THEN NoMore ELSE answer.cursor
  <2>1. PICK page \in Pages(cursor) : TakePage("any", page, cursor, FALSE)
    BY <1>1 DEF DepositsPage
  <2>2. answer.at \in {"asked", "walk"} /\ UNCHANGED <<request, world>>
    BY <1>1 DEF DepositsPage, Walking
  <2>3. QED
    BY <2>1, <2>2, TakeStep
<1>2. CASE WalletPage
  <2> DEFINE cursor(v, pinned) ==
               IF answer.at = "walk" /\ pinned /\ answer.vendor = v THEN answer.cursor ELSE NoMore
             anew(v) == answer.at = "walk" /\ answer.vendor # v
  <2>1. PICK v \in world.vendors, pinned \in BOOLEAN :
          \E page \in Pages(cursor(v, pinned)) : TakePage(v, page, cursor(v, pinned), anew(v))
    BY <1>2 DEF WalletPage
  <2>3. PICK page \in Pages(cursor(v, pinned)) : TakePage(v, page, cursor(v, pinned), anew(v))
    BY <2>1
  <2>4. /\ anew(v) \in BOOLEAN /\ (anew(v) => cursor(v, pinned) = NoMore)
        /\ cursor(v, pinned) = NoMore \/ (answer.at = "walk" /\ cursor(v, pinned) = answer.cursor)
    OBVIOUS
  <2>2. answer.at \in {"asked", "walk"} /\ UNCHANGED <<request, world>>
    BY <1>2 DEF WalletPage, Walking
  <2> HIDE DEF cursor, anew
  <2>5. QED
    BY <2>2, <2>3, <2>4, TakeStep
<1>3. CASE ForeignCursor \/ HistoryFails
  <2>1. UNCHANGED <<request, world>> /\ answer'.at = "refused"
    BY <1>3 DEF ForeignCursor, HistoryFails, Refuse
  <2>2. QED
    BY <2>1 DEF HistoryInv, PagesQuery, Blocks
<1>4. CASE NewBlock
  BY <1>4, NewBlockStep
<1>5. CASE UNCHANGED vars
  BY <1>5, WalkStands DEF vars, HistoryInv
<1>6. QED
  BY <1>1, <1>2, <1>3, <1>4, <1>5 DEF HistoryNext

(* A walk starts with nothing. *)
LEMMA HistoryStart ==
  ASSUME StartIn(HistoryCases)
  PROVE  HistoryInv
BY HistoryAssumption DEF StartIn, HistoryInv, Asked

-----------------------------------------------------------------------------
(***************************************************************************)
(* A message that is compiled reads as it was meant: each instruction names *)
(* the keys it named, and a key has the permissions of all its uses.        *)
(***************************************************************************)
(* A set with zero that has the successor of each of its numbers has them all. *)
LEMMA NaturalsIn ==
  ASSUME NEW Q, 0 \in Q, \A i \in Nat : i \in Q => i + 1 \in Q
  PROVE  \A n \in Nat : n \in Q
<1>1. SUFFICES ASSUME {i \in Nat : i \notin Q} # {} PROVE FALSE
  OBVIOUS
<1>2. PICK i \in {j \in Nat : j \notin Q} : \A j \in {k \in Nat : k \notin Q} : i <= j
  BY <1>1, LeastNatural
<1>3. i # 0 /\ i - 1 \in Nat /\ i - 1 \in Q /\ i - 1 + 1 = i
  BY <1>2
<1>4. QED
  BY <1>2, <1>3

\* The sequences that FlattenSeq joins, one by one.
JoinsOf(seqs, n, t) == t = [i \in 1..n |-> IF i = 1 THEN seqs[i] ELSE t[i - 1] \o seqs[i]]

LEMMA FlattenUnfolds ==
  ASSUME NEW seqs, Len(seqs) # 0
  PROVE  FlattenSeq(seqs) = (CHOOSE t : JoinsOf(seqs, Len(seqs), t))[Len(seqs)]
BY Zenon DEF FlattenSeq, JoinsOf

LEMMA JoinsExist ==
  ASSUME NEW seqs, NEW n \in Nat
  PROVE  \E t : JoinsOf(seqs, n, t)
<1> DEFINE Q == {i \in Nat : \E t : JoinsOf(seqs, i, t)}
<1>1. 0 \in Q
  <2> DEFINE t == [i \in 1..0 |-> 0]
  <2>1. t = [i \in 1..0 |-> IF i = 1 THEN seqs[i] ELSE t[i - 1] \o seqs[i]]
    OBVIOUS
  <2>2. QED
    BY <2>1 DEF JoinsOf
<1>2. ASSUME NEW i \in Nat, i \in Q PROVE i + 1 \in Q
  <2>1. PICK g : JoinsOf(seqs, i, g)
    BY <1>2
  <2> DEFINE t == [j \in 1..(i + 1) |-> IF j = 1 THEN seqs[j] ELSE g[j - 1] \o seqs[j]]
  <2>2. \A j \in 1..i : g[j] = IF j = 1 THEN seqs[j] ELSE g[j - 1] \o seqs[j]
    BY <2>1 DEF JoinsOf
  <2>3. \A j \in 1..i : t[j] = g[j]
    BY <2>2
  <2>4. \A j \in 1..(i + 1) : j # 1 => j - 1 \in 1..i
    OBVIOUS
  <2>5. \A j \in 1..(i + 1) : (IF j = 1 THEN seqs[j] ELSE g[j - 1] \o seqs[j])
                              = IF j = 1 THEN seqs[j] ELSE t[j - 1] \o seqs[j]
    <3> SUFFICES ASSUME NEW j \in 1..(i + 1), j # 1 PROVE g[j - 1] = t[j - 1]
      BY Zenon
    <3>1. QED
      BY <2>3, <2>4
  <2>6. t = [j \in 1..(i + 1) |-> IF j = 1 THEN seqs[j] ELSE t[j - 1] \o seqs[j]]
    <3> DEFINE u == [j \in 1..(i + 1) |-> IF j = 1 THEN seqs[j] ELSE t[j - 1] \o seqs[j]]
    <3> HIDE DEF t
    <3>1. u = t
      BY <2>5, Zenon DEF t
    <3>2. QED
      BY <3>1
  <2> HIDE DEF t
  <2>7. JoinsOf(seqs, i + 1, t)
    BY <2>6 DEF JoinsOf
  <2>8. QED
    BY <2>7
<1> HIDE DEF Q
<1>3. n \in Q
  BY <1>1, <1>2, NaturalsIn
<1>4. QED
  BY <1>3 DEF Q

(* Joining two sequences keeps what either has. *)
LEMMA JoinHas ==
  ASSUME NEW S, NEW s \in Seq(S), NEW t \in Seq(S)
  PROVE  s \o t \in Seq(S) /\ ToSet(s \o t) = ToSet(s) \cup ToSet(t)
<1>1. /\ s \o t \in Seq(S) /\ Len(s \o t) = Len(s) + Len(t)
      /\ \A i \in 1..(Len(s) + Len(t)) : (s \o t)[i] = IF i <= Len(s) THEN s[i] ELSE t[i - Len(s)]
  BY ConcatProperties
<1>2. /\ Len(s) \in Nat /\ Len(t) \in Nat /\ DOMAIN s = 1..Len(s) /\ DOMAIN t = 1..Len(t)
      /\ DOMAIN (s \o t) = 1..(Len(s) + Len(t))
  BY <1>1, LenProperties
<1> DEFINE st == s \o t
<1>3. \A i \in DOMAIN s : i \in DOMAIN st /\ st[i] = s[i]
  BY <1>1, <1>2
<1>4. \A i \in DOMAIN t : i + Len(s) \in DOMAIN st /\ st[i + Len(s)] = t[i]
  BY <1>1, <1>2
<1>5. \A i \in DOMAIN st : \/ i \in DOMAIN s /\ st[i] = s[i]
                           \/ i - Len(s) \in DOMAIN t /\ st[i] = t[i - Len(s)]
  BY <1>1, <1>2
<1> HIDE DEF st
<1>6. \A x : x \in ToSet(st) <=> x \in ToSet(s) \/ x \in ToSet(t)
  BY <1>3, <1>4, <1>5 DEF ToSet
<1>7. ToSet(st) = ToSet(s) \cup ToSet(t)
  BY <1>6
<1>8. QED
  BY <1>1, <1>7 DEF st

(* A sequence of one. *)
LEMMA OneHas ==
  ASSUME NEW S, NEW x \in S
  PROVE  <<x>> \in Seq(S) /\ ToSet(<<x>>) = {x} /\ Len(<<x>>) = 1 /\ <<x>>[1] = x
<1> DEFINE one == <<x>>
<1>1. one \in Seq(S) /\ Len(one) = 1 /\ one[1] = x /\ DOMAIN one = 1..1
  OBVIOUS
<1> HIDE DEF one
<1>2. \A y : y \in ToSet(one) <=> y = x
  BY <1>1 DEF ToSet
<1>3. ToSet(one) = {x}
  BY <1>2
<1>4. QED
  BY <1>1, <1>3 DEF one

(* What is joined has what each of the sequences has. *)
LEMMA FlattenHas ==
  ASSUME NEW S, NEW seqs \in Seq(Seq(S))
  PROVE  /\ FlattenSeq(seqs) \in Seq(S)
         /\ \A x : x \in ToSet(FlattenSeq(seqs)) <=> \E i \in DOMAIN seqs : x \in ToSet(seqs[i])
<1> DEFINE n == Len(seqs)
<1>1. n \in Nat /\ DOMAIN seqs = 1..n /\ \A i \in 1..n : seqs[i] \in Seq(S)
  BY LenProperties, ElementOfSeq
<1>2. CASE n = 0
  <2>1. FlattenSeq(seqs) = seqs /\ DOMAIN seqs = {}
    BY <1>1, <1>2 DEF FlattenSeq
  <2>2. seqs = << >>
    BY <1>2, EmptySeq
  <2>3. << >> \in Seq(S)
    BY EmptySeq
  <2>4. QED
    BY <2>1, <2>2, <2>3 DEF ToSet
<1>3. CASE n # 0
  <2> DEFINE t == CHOOSE t : JoinsOf(seqs, n, t)
  <2>1. JoinsOf(seqs, n, t)
    BY <1>1, JoinsExist
  <2>2. FlattenSeq(seqs) = t[n]
    BY <1>3, FlattenUnfolds
  <2> HIDE DEF t, n
  <2>3. \A i \in 1..n : t[i] = IF i = 1 THEN seqs[i] ELSE t[i - 1] \o seqs[i]
    BY <2>1 DEF JoinsOf
  <2> DEFINE Good(i) == /\ t[i] \in Seq(S)
                        /\ \A x : x \in ToSet(t[i]) <=> \E j \in 1..i : x \in ToSet(seqs[j])
             Q == {i \in Nat : i = 0 \/ i > n \/ Good(i)}
  <2>4. 0 \in Q
    OBVIOUS
  <2>5. ASSUME NEW i \in Nat, i \in Q PROVE i + 1 \in Q
    <3>1. CASE i + 1 > n
      BY <3>1
    <3>2. CASE i = 0 /\ i + 1 <= n
      <4>1. t[1] = seqs[1] /\ 1 \in 1..n /\ 1..1 = {1}
        BY <1>1, <2>3, <3>2
      <4>2. Good(1)
        BY <1>1, <4>1
      <4>3. i + 1 = 1
        BY <3>2
      <4> HIDE DEF Good
      <4>4. QED
        BY <4>2, <4>3
    <3>3. CASE i # 0 /\ i + 1 <= n
      <4>1. i + 1 \in 1..n /\ i + 1 # 1 /\ i + 1 - 1 = i
        BY <1>1, <3>3
      <4>0. t[i + 1] = t[i] \o seqs[i + 1]
        <5>1. PICK k \in 1..n : k = i + 1
          BY <4>1
        <5>2. t[k] = t[k - 1] \o seqs[k]
          BY <2>3, <4>1, <5>1, Zenon
        <5>3. k - 1 = i
          BY <5>1
        <5>4. QED
          BY <5>1, <5>2, <5>3, Zenon
      <4>2. Good(i)
        BY <1>1, <2>5, <3>3
      <4>3. t[i + 1] \in Seq(S) /\ ToSet(t[i + 1]) = ToSet(t[i]) \cup ToSet(seqs[i + 1])
        BY <1>1, <4>0, <4>1, <4>2, JoinHas
      <4>4. \A j : j \in 1..(i + 1) <=> j \in 1..i \/ j = i + 1
        OBVIOUS
      <4>5. \A x : x \in ToSet(t[i + 1]) <=> \E j \in 1..(i + 1) : x \in ToSet(seqs[j])
        BY <4>2, <4>3, <4>4
      <4>6. QED
        BY <4>3, <4>5
    <3>4. i + 1 > n \/ i + 1 <= n
      BY <1>1
    <3> HIDE DEF Q, Good
    <3>5. QED
      BY <3>1, <3>2, <3>3, <3>4
  <2> HIDE DEF Q, Good
  <2>6. n \in Q
    BY <1>1, <2>4, <2>5, NaturalsIn
  <2>7. Good(n)
    BY <1>1, <1>3, <2>6 DEF Q
  <2>8. QED
    BY <1>1, <2>2, <2>7 DEF Good
<1>4. QED
  BY <1>2, <1>3

-----------------------------------------------------------------------------
(* The place of an entry: one for each, in the order of the classes (the sort of
   compile_message). *)
LEMMA PlacesAre ==
  ASSUME NEW E, IsFiniteSet(DOMAIN E), DOMAIN E \subseteq Nat
  PROVE  LET N == Cardinality(DOMAIN E) IN
         /\ N \in Nat
         /\ \A i \in DOMAIN E : Place(E, i) \in 1..N
         /\ \A i, j \in DOMAIN E : Place(E, i) = Place(E, j) => i = j
         /\ \A n \in 1..N : \E i \in DOMAIN E : Place(E, i) = n
         /\ \A i \in DOMAIN E, c \in Nat :
              Place(E, i) <= Cardinality({j \in DOMAIN E : Class(E[j]) <= c}) <=> Class(E[i]) <= c
<1> DEFINE D == DOMAIN E
           N == Cardinality(D)
           c(i) == Class(E[i])
           Upto(i) == {j \in D : c(j) < c(i) \/ (c(j) = c(i) /\ j <= i)}
           Till(k) == {j \in D : c(j) <= k}
           f == [i \in D |-> Place(E, i)]
<1>1. \A i : c(i) \in Nat
  BY DEF Class
<1>2. \A i : Place(E, i) = Cardinality(Upto(i))
  BY DEF Place
<1>3. /\ \A i, j : j \in Upto(i) <=> j \in D /\ (c(j) < c(i) \/ (c(j) = c(i) /\ j <= i))
      /\ \A k, j : j \in Till(k) <=> j \in D /\ c(j) <= k
  OBVIOUS
<1> HIDE DEF c, Upto, Till
<1>4. \A T \in SUBSET D : IsFiniteSet(T) /\ Cardinality(T) \in Nat /\ Cardinality(T) <= N
  BY FS_Subset, FS_CardinalityType
<1>5. N \in Nat /\ D \subseteq Nat
  BY FS_CardinalityType
<1> HIDE DEF N
<1>6. \A i, k : Upto(i) \in SUBSET D /\ Till(k) \in SUBSET D
  BY <1>3
<1>7. ASSUME NEW S \in SUBSET D, NEW T \in SUBSET D, S \subseteq T, NEW x \in T, x \notin S
      PROVE  Cardinality(S) < Cardinality(T)
  <2>1. Cardinality(T \ {x}) = Cardinality(T) - 1 /\ IsFiniteSet(T \ {x})
    BY <1>4, FS_RemoveElement
  <2>2. S \subseteq T \ {x}
    BY <1>7
  <2>3. Cardinality(S) <= Cardinality(T \ {x})
    BY <2>1, <2>2, FS_Subset
  <2>4. QED
    BY <1>4, <2>1, <2>3
<1>8. ASSUME NEW i \in D PROVE Place(E, i) \in 1..N
  <2>1. i \in Upto(i)
    BY <1>1, <1>3, <1>5
  <2>2. {} \in SUBSET D /\ Cardinality({}) = 0
    BY FS_EmptySet
  <2>3. 0 < Cardinality(Upto(i))
    BY <1>6, <1>7, <2>1, <2>2
  <2>4. QED
    BY <1>2, <1>4, <1>6, <2>3
<1>9. ASSUME NEW i \in D, NEW j \in D, c(i) < c(j) \/ (c(i) = c(j) /\ i < j)
      PROVE  Place(E, i) < Place(E, j)
  <2>1. Upto(i) \subseteq Upto(j)
    BY <1>1, <1>3, <1>5, <1>9
  <2>2. j \in Upto(j) /\ j \notin Upto(i)
    BY <1>1, <1>3, <1>5, <1>9
  <2>3. QED
    BY <1>2, <1>6, <1>7, <2>1, <2>2
<1>10. ASSUME NEW i \in D, NEW j \in D, Place(E, i) = Place(E, j) PROVE i = j
  <2>1. Place(E, i) \in Nat /\ Place(E, j) \in Nat
    BY <1>5, <1>8
  <2>2. ~(c(i) < c(j) \/ (c(i) = c(j) /\ i < j))
    BY <1>9, <1>10, <2>1
  <2>3. ~(c(j) < c(i) \/ (c(j) = c(i) /\ j < i))
    BY <1>9, <1>10, <2>1
  <2>4. c(i) \in Nat /\ c(j) \in Nat /\ i \in Nat /\ j \in Nat
    BY <1>1, <1>5
  <2>5. QED
    BY <2>2, <2>3, <2>4
<1>11. \A n \in 1..N : \E i \in D : Place(E, i) = n
  <2>1. f \in Injection(D, 1..N)
    BY <1>8, <1>10 DEF Injection, IsInjective
  <2>2. IsFiniteSet(1..N) /\ Cardinality(1..N) = N
    BY <1>5, FS_Interval
  <2>3. Cardinality(D) = Cardinality(1..N)
    BY <2>2 DEF N
  <2>4. f \in Surjection(D, 1..N)
    BY <2>1, <2>2, <2>3, FS_Injection
  <2>5. \A n \in 1..N : \E i \in D : f[i] = n
    BY <2>4 DEF Surjection
  <2>6. QED
    BY <2>5
<1>12. ASSUME NEW i \in D, NEW k \in Nat
       PROVE  Place(E, i) <= Cardinality(Till(k)) <=> c(i) <= k
  <2>1. Cardinality(Till(k)) \in Nat /\ Place(E, i) \in Nat /\ c(i) \in Nat
    BY <1>1, <1>4, <1>5, <1>6, <1>8
  <2>2. CASE c(i) <= k
    <3>1. Upto(i) \subseteq Till(k)
      BY <1>1, <1>3, <2>2
    <3>2. IsFiniteSet(Till(k))
      BY <1>4, <1>6
    <3>3. Cardinality(Upto(i)) <= Cardinality(Till(k))
      BY <3>1, <3>2, FS_Subset
    <3>4. QED
      BY <1>2, <2>2, <3>3
  <2>3. CASE ~(c(i) <= k)
    <3>1. Till(k) \subseteq Upto(i) /\ i \in Upto(i) /\ i \notin Till(k)
      BY <1>1, <1>3, <1>5, <2>3
    <3>2. Cardinality(Till(k)) < Cardinality(Upto(i))
      BY <1>6, <1>7, <3>1
    <3>3. QED
      BY <1>2, <2>1, <2>3, <3>2
  <2>4. QED
    BY <2>2, <2>3
<1>13. QED
  BY <1>5, <1>8, <1>10, <1>11, <1>12 DEF N, c, Till

(* As many places as entries. *)
LEMMA PlacesCount ==
  ASSUME NEW E, IsFiniteSet(DOMAIN E), DOMAIN E \subseteq Nat, NEW P \in SUBSET DOMAIN E,
         NEW T \in SUBSET (1..Cardinality(DOMAIN E)),
         \A i \in DOMAIN E : Place(E, i) \in T <=> i \in P
  PROVE  Cardinality(T) = Cardinality(P)
<1> DEFINE N == Cardinality(DOMAIN E)
           f == [i \in P |-> Place(E, i)]
<1>1. /\ \A i, j \in DOMAIN E : Place(E, i) = Place(E, j) => i = j
      /\ \A n \in 1..N : \E i \in DOMAIN E : Place(E, i) = n
  BY PlacesAre
<1>2. T \subseteq 1..N
  OBVIOUS
<1> HIDE DEF N
<1>3. IsFiniteSet(P)
  BY FS_Subset
<1>4. f \in [P -> T] /\ (\A i, j \in P : f[i] = f[j] => i = j) /\ \A n \in T : \E i \in P : f[i] = n
  BY <1>1, <1>2
<1> HIDE DEF f
<1>5. f \in Bijection(P, T)
  BY <1>4 DEF Bijection, Injection, Surjection, IsInjective
<1>6. ExistsBijection(P, T)
  BY <1>5 DEF ExistsBijection
<1>7. QED
  BY <1>3, <1>6, FS_Bijection

(* The keys in their order: an entry is at its place. *)
LEMMA SortedIs ==
  ASSUME NEW E, IsFiniteSet(DOMAIN E), DOMAIN E \subseteq Nat
  PROVE  /\ DOMAIN Sorted(E) = 1..Cardinality(DOMAIN E)
         /\ \A i \in DOMAIN E : Sorted(E)[Place(E, i)] = E[i]
<1> DEFINE N == Cardinality(DOMAIN E)
           at(n) == CHOOSE i \in DOMAIN E : Place(E, i) = n
<1>1. /\ \A i \in DOMAIN E : Place(E, i) \in 1..N
      /\ \A i, j \in DOMAIN E : Place(E, i) = Place(E, j) => i = j
  BY PlacesAre
<1>2. Sorted(E) = [n \in 1..N |-> E[at(n)]]
  BY DEF Sorted
<1> HIDE DEF N
<1>3. ASSUME NEW i \in DOMAIN E PROVE at(Place(E, i)) = i
  <2>1. at(Place(E, i)) \in DOMAIN E /\ Place(E, at(Place(E, i))) = Place(E, i)
    OBVIOUS
  <2>2. QED
    BY <1>1, <2>1
<1> HIDE DEF at
<1>4. QED
  BY <1>1, <1>2, <1>3 DEF N

\* An account with its permissions, and all that a message names.
Metas(K) == [key : K, signer : BOOLEAN, writable : BOOLEAN]
Named(payer, ixs) ==
  {Meta(payer, TRUE, TRUE)}
  \cup UNION {ToSet(ixs[i].accounts) \cup {Meta(ixs[i].program, FALSE, FALSE)} : i \in DOMAIN ixs}
Instruction(K, D) == [program : K, accounts : Seq(Metas(K)), data : D]

LEMMA MetasAre ==
  ASSUME NEW K, NEW D, NEW payer \in K, NEW ixs \in Seq(Instruction(K, D))
  PROVE  LET metas == MetasOf(payer, ixs) IN
         /\ metas \in Seq(Metas(K)) /\ 1 \in DOMAIN metas /\ metas[1] = Meta(payer, TRUE, TRUE)
         /\ ToSet(metas) = Named(payer, ixs)
<1> DEFINE mine == Meta(payer, TRUE, TRUE)
           of(i) == Append(ixs[i].accounts, Meta(ixs[i].program, FALSE, FALSE))
           seqs == [i \in DOMAIN ixs |-> of(i)]
           flat == FlattenSeq(seqs)
           metas == <<mine>> \o flat
<1>1. \A k \in K, b \in BOOLEAN, c \in BOOLEAN : Meta(k, b, c) \in Metas(K)
  BY DEF Meta, Metas
<1>2. /\ Len(ixs) \in Nat /\ DOMAIN ixs = 1..Len(ixs)
      /\ \A i \in DOMAIN ixs : ixs[i].program \in K /\ ixs[i].accounts \in Seq(Metas(K))
  <2>1. Len(ixs) \in Nat /\ DOMAIN ixs = 1..Len(ixs)
    BY LenProperties
  <2>2. \A i \in DOMAIN ixs : ixs[i] \in Instruction(K, D)
    BY <2>1, ElementOfSeq
  <2>3. QED
    BY <2>1, <2>2 DEF Instruction
<1>3. ASSUME NEW i \in DOMAIN ixs
      PROVE  /\ of(i) \in Seq(Metas(K))
             /\ ToSet(of(i)) = ToSet(ixs[i].accounts) \cup {Meta(ixs[i].program, FALSE, FALSE)}
  <2> DEFINE s == ixs[i].accounts
             m == Meta(ixs[i].program, FALSE, FALSE)
  <2>1. s \in Seq(Metas(K)) /\ m \in Metas(K)
    BY <1>1, <1>2
  <2> HIDE DEF s, m
  <2> DEFINE one == <<m>>
  <2>2. Append(s, m) = s \o one
    BY <2>1, AppendIsConcat
  <2>3. one \in Seq(Metas(K)) /\ ToSet(one) = {m}
    BY <2>1, OneHas
  <2> HIDE DEF one
  <2>4. Append(s, m) \in Seq(Metas(K)) /\ ToSet(Append(s, m)) = ToSet(s) \cup {m}
    BY <2>1, <2>2, <2>3, JoinHas
  <2>5. QED
    BY <2>4 DEF s, m
<1>4. MetasOf(payer, ixs) = metas
  BY Zenon DEF MetasOf
<1> HIDE DEF of
<1>5. seqs \in Seq(Seq(Metas(K))) /\ DOMAIN seqs = DOMAIN ixs
  <2>1. seqs \in [1..Len(ixs) -> Seq(Metas(K))]
    BY <1>2, <1>3
  <2> HIDE DEF seqs
  <2>2. QED
    BY <1>2, <2>1
<1>6. /\ flat \in Seq(Metas(K))
      /\ \A x : x \in ToSet(flat) <=> \E i \in DOMAIN ixs : x \in ToSet(of(i))
  <2>1. \A i \in DOMAIN ixs : seqs[i] = of(i)
    OBVIOUS
  <2> HIDE DEF seqs
  <2>2. /\ flat \in Seq(Metas(K))
        /\ \A x : x \in ToSet(flat) <=> \E i \in DOMAIN seqs : x \in ToSet(seqs[i])
    BY <1>5, FlattenHas
  <2> HIDE DEF flat
  <2>3. QED
    BY <1>5, <2>1, <2>2
<1> HIDE DEF flat, mine
<1>7. mine \in Metas(K) /\ <<mine>> \in Seq(Metas(K)) /\ ToSet(<<mine>>) = {mine} /\ Len(<<mine>>) = 1
  <2>1. mine \in Metas(K)
    BY <1>1 DEF mine
  <2>2. QED
    BY <2>1, OneHas
<1>8. metas \in Seq(Metas(K)) /\ ToSet(metas) = {mine} \cup ToSet(flat)
  <2> DEFINE one == <<mine>>
  <2>1. one \in Seq(Metas(K)) /\ ToSet(one) = {mine}
    BY <1>7
  <2> HIDE DEF one
  <2>2. one \o flat \in Seq(Metas(K)) /\ ToSet(one \o flat) = {mine} \cup ToSet(flat)
    BY <1>6, <2>1, JoinHas
  <2>3. QED
    BY <2>2 DEF one
<1>9. 1 \in DOMAIN metas /\ metas[1] = mine
  <2>1. Len(metas) = 1 + Len(flat) /\ Len(flat) \in Nat /\ DOMAIN metas = 1..Len(metas)
    BY <1>6, <1>7, <1>8, ConcatProperties, LenProperties
  <2>2. metas[1] = <<mine>>[1]
    BY <1>6, <1>7, <2>1, ConcatProperties
  <2>3. QED
    BY <2>1, <2>2
<1> HIDE DEF metas
<1>10. ToSet(metas) = Named(payer, ixs)
  <2>1. \A x : x \in ToSet(metas) <=> x = mine \/ \E i \in DOMAIN ixs : x \in ToSet(of(i))
    BY <1>6, <1>8
  <2>2. \A x : x \in Named(payer, ixs) <=> x = mine \/ \E i \in DOMAIN ixs : x \in ToSet(of(i))
    BY <1>3 DEF Named, mine
  <2>3. \A x : x \in ToSet(metas) <=> x \in Named(payer, ixs)
    BY <2>1, <2>2
  <2>4. QED
    BY <2>3
<1>11. QED
  BY <1>4, <1>8, <1>9, <1>10 DEF mine

(* One entry for each key, with what any of its uses permits. *)
LEMMA MergedIs ==
  ASSUME NEW K, NEW metas \in Seq(Metas(K)), 1 \in DOMAIN metas
  PROVE  LET E == Merged(metas) IN
         /\ IsFiniteSet(DOMAIN E) /\ DOMAIN E \subseteq Nat \ {0}
         /\ 1 \in DOMAIN E /\ E[1].key = metas[1].key
         /\ \A i, j \in DOMAIN E : E[i].key = E[j].key => i = j
         /\ \A u \in ToSet(metas) : \E i \in DOMAIN E : E[i].key = u.key
         /\ \A i \in DOMAIN E :
              /\ E[i].signer <=> \E u \in ToSet(metas) : u.key = E[i].key /\ u.signer
              /\ E[i].writable <=> \E u \in ToSet(metas) : u.key = E[i].key /\ u.writable
              /\ E[i].signer \in BOOLEAN /\ E[i].writable \in BOOLEAN
<1> DEFINE I == {i \in DOMAIN metas : \A j \in 1..(i - 1) : metas[j].key # metas[i].key}
           uses(key) == {j \in DOMAIN metas : metas[j].key = key}
           E == Merged(metas)
<1>1. /\ Len(metas) \in Nat /\ DOMAIN metas = 1..Len(metas)
      /\ \A i \in DOMAIN metas : metas[i] \in Metas(K)
  BY LenProperties, ElementOfSeq
<1>2. E = [i \in I |-> Meta(metas[i].key, \E j \in uses(metas[i].key) : metas[j].signer,
                                         \E j \in uses(metas[i].key) : metas[j].writable)]
  BY Zenon DEF Merged
<1>3. DOMAIN E = I /\ \A i \in I : /\ E[i].key = metas[i].key
                                   /\ E[i].signer = (\E j \in uses(metas[i].key) : metas[j].signer)
                                   /\ E[i].writable = (\E j \in uses(metas[i].key) : metas[j].writable)
  <2>1. DOMAIN E = I
    BY <1>2, Zenon
  <2>2. \A k, s, w : Meta(k, s, w).key = k /\ Meta(k, s, w).signer = s /\ Meta(k, s, w).writable = w
    BY DEF Meta
  <2>3. \A i \in I : E[i] = Meta(metas[i].key, \E j \in uses(metas[i].key) : metas[j].signer,
                                              \E j \in uses(metas[i].key) : metas[j].writable)
    BY <1>2, Zenon
  <2>4. ASSUME NEW i \in I
        PROVE  /\ E[i].key = metas[i].key
               /\ E[i].signer = (\E j \in uses(metas[i].key) : metas[j].signer)
               /\ E[i].writable = (\E j \in uses(metas[i].key) : metas[j].writable)
    <3> DEFINE k == metas[i].key
               s == \E j \in uses(k) : metas[j].signer
               w == \E j \in uses(k) : metas[j].writable
    <3>1. E[i] = Meta(k, s, w)
      BY <2>3
    <3> HIDE DEF k, s, w
    <3>2. E[i].key = k /\ E[i].signer = s /\ E[i].writable = w
      <4>1. E[i] = [key |-> k, signer |-> s, writable |-> w]
        BY <3>1, Zenon DEF Meta
      <4>2. QED
        BY <4>1
    <3>3. QED
      BY <3>2, Zenon DEF k, s, w
  <2>5. QED
    BY <2>1, <2>4, Zenon
<1> HIDE DEF E
<1>4. IsFiniteSet(I) /\ I \subseteq Nat \ {0}
  <2>1. I \in SUBSET DOMAIN metas
    OBVIOUS
  <2> HIDE DEF I
  <2>2. IsFiniteSet(I)
    BY <2>1, PlacesFinite
  <2>3. QED
    BY <1>1, <2>1, <2>2
<1>5. 1 \in I
  BY <1>1
<1>6. ASSUME NEW i \in I, NEW j \in I, metas[i].key = metas[j].key PROVE i = j
  <2>1. ~(i \in 1..(j - 1)) /\ ~(j \in 1..(i - 1))
    BY <1>6
  <2>2. QED
    BY <1>4, <2>1
<1>7. ASSUME NEW u \in ToSet(metas) PROVE \E i \in I : metas[i].key = u.key
  <2> DEFINE J == {j \in DOMAIN metas : metas[j].key = u.key}
  <2>1. J # {} /\ J \in SUBSET Nat
    BY <1>1 DEF ToSet
  <2>2. PICK i \in J : \A j \in J : i <= j
    <3> HIDE DEF J
    <3>1. QED
      BY <2>1, LeastNatural
  <2>3. \A j \in 1..(i - 1) : j \in DOMAIN metas /\ ~(i <= j)
    BY <1>1, <2>2
  <2>4. i \in I
    BY <2>2, <2>3
  <2>5. QED
    BY <2>2, <2>4
<1>8. ASSUME NEW key
      PROVE  /\ (\E j \in uses(key) : metas[j].signer) <=> \E u \in ToSet(metas) : u.key = key /\ u.signer
             /\ (\E j \in uses(key) : metas[j].writable) <=> \E u \in ToSet(metas) : u.key = key /\ u.writable
  BY DEF ToSet
<1> HIDE DEF I, uses
<1>9. ASSUME NEW i \in I
      PROVE  /\ E[i].signer <=> \E u \in ToSet(metas) : u.key = E[i].key /\ u.signer
             /\ E[i].writable <=> \E u \in ToSet(metas) : u.key = E[i].key /\ u.writable
             /\ E[i].signer \in BOOLEAN /\ E[i].writable \in BOOLEAN
  <2> DEFINE k == metas[i].key
             s == \E j \in uses(k) : metas[j].signer
             w == \E j \in uses(k) : metas[j].writable
  <2>1. E[i].key = k /\ E[i].signer = s /\ E[i].writable = w
    BY <1>3
  <2>2. /\ s <=> \E u \in ToSet(metas) : u.key = k /\ u.signer
        /\ w <=> \E u \in ToSet(metas) : u.key = k /\ u.writable
    BY <1>8
  <2>3. s \in BOOLEAN /\ w \in BOOLEAN
    OBVIOUS
  <2> HIDE DEF k, s, w
  <2>4. QED
    BY <2>1, <2>2, <2>3, Zenon
<1>10. DOMAIN E = I /\ \A i \in I : E[i].key = metas[i].key
  BY <1>3
<1>11. QED
  <2>1. /\ IsFiniteSet(DOMAIN E) /\ DOMAIN E \subseteq Nat \ {0} /\ 1 \in DOMAIN E /\ E[1].key = metas[1].key
    BY <1>4, <1>5, <1>10
  <2>2. \A i, j \in DOMAIN E : E[i].key = E[j].key => i = j
    BY <1>6, <1>10
  <2>3. \A u \in ToSet(metas) : \E i \in DOMAIN E : E[i].key = u.key
    BY <1>7, <1>10
  <2>4. QED
    BY <1>9, <1>10, <2>1, <2>2, <2>3, Zenon DEF E

(* What the header counts (compile_message). *)
LEMMA HeaderIs ==
  ASSUME NEW E, IsFiniteSet(DOMAIN E), DOMAIN E \subseteq Nat
  PROVE  LET keys == Sorted(E)
             till(k) == Cardinality({j \in DOMAIN E : Class(E[j]) <= k})
             signed == Cardinality({i \in DOMAIN keys : keys[i].signer})
             readonlySigned == Cardinality({i \in DOMAIN keys : keys[i].signer /\ ~keys[i].writable})
             readonlyUnsigned == Cardinality({i \in DOMAIN keys : ~keys[i].signer /\ ~keys[i].writable})
         IN /\ signed = Cardinality({i \in DOMAIN E : E[i].signer})
            /\ signed = till(2) /\ signed - readonlySigned = till(1)
            /\ Cardinality(DOMAIN E) - readonlyUnsigned = till(3)
<1> DEFINE D == DOMAIN E
           N == Cardinality(D)
           keys == Sorted(E)
           Till(k) == {j \in D : Class(E[j]) <= k}
           S == {i \in D : E[i].signer}
           RS == {i \in D : E[i].signer /\ ~E[i].writable}
           RU == {i \in D : ~E[i].signer /\ ~E[i].writable}
           KS == {i \in DOMAIN keys : keys[i].signer}
           KRS == {i \in DOMAIN keys : keys[i].signer /\ ~keys[i].writable}
           KRU == {i \in DOMAIN keys : ~keys[i].signer /\ ~keys[i].writable}
<1>1. DOMAIN keys = 1..N /\ \A i \in D : keys[Place(E, i)] = E[i]
  BY SortedIs
<1>2. \A i \in D : Place(E, i) \in 1..N
  BY PlacesAre
<1> HIDE DEF keys
<1>3. Cardinality(KS) = Cardinality(S)
  <2>1. KS \in SUBSET (1..N) /\ S \in SUBSET D /\ \A i \in D : Place(E, i) \in KS <=> i \in S
    BY <1>1, <1>2
  <2> HIDE DEF KS, S
  <2>2. QED
    BY <2>1, PlacesCount
<1>4. Cardinality(KRS) = Cardinality(RS)
  <2>1. KRS \in SUBSET (1..N) /\ RS \in SUBSET D /\ \A i \in D : Place(E, i) \in KRS <=> i \in RS
    BY <1>1, <1>2
  <2> HIDE DEF KRS, RS
  <2>2. QED
    BY <2>1, PlacesCount
<1>5. Cardinality(KRU) = Cardinality(RU)
  <2>1. KRU \in SUBSET (1..N) /\ RU \in SUBSET D /\ \A i \in D : Place(E, i) \in KRU <=> i \in RU
    BY <1>1, <1>2
  <2> HIDE DEF KRU, RU
  <2>2. QED
    BY <2>1, PlacesCount
<1>6. \A i \in D : /\ Class(E[i]) <= 1 <=> E[i].signer /\ E[i].writable
                   /\ Class(E[i]) <= 2 <=> E[i].signer
                   /\ Class(E[i]) <= 3 <=> E[i].signer \/ E[i].writable
  BY DEF Class
<1>7. /\ \A x : x \in S <=> x \in Till(2)
      /\ \A x : x \in Till(1) <=> x \in S \ RS
      /\ \A x : x \in Till(3) <=> x \in D \ RU
      /\ RS \subseteq S /\ RU \subseteq D
  BY <1>6
<1> HIDE DEF S, RS, RU, Till
<1>8. S = Till(2) /\ Till(1) = S \ RS /\ Till(3) = D \ RU /\ S \cap RS = RS /\ D \cap RU = RU
  BY <1>7
<1>9. IsFiniteSet(S) /\ IsFiniteSet(RS) /\ IsFiniteSet(RU)
  <2>1. S \subseteq D /\ RS \subseteq D /\ RU \subseteq D
    BY <1>7 DEF S
  <2>2. QED
    BY <2>1, FS_Subset
<1>10. Cardinality(S \ RS) = Cardinality(S) - Cardinality(RS) /\ Cardinality(D \ RU) = N - Cardinality(RU)
  <2>1. Cardinality(S \ RS) = Cardinality(S) - Cardinality(S \cap RS)
    BY <1>9, FS_Difference
  <2>2. Cardinality(D \ RU) = N - Cardinality(D \cap RU)
    BY FS_Difference
  <2>3. QED
    BY <1>8, <2>1, <2>2
<1>11. Cardinality(S) \in Nat /\ Cardinality(RS) \in Nat /\ Cardinality(RU) \in Nat /\ N \in Nat
  BY <1>9, FS_CardinalityType
<1>12. /\ Cardinality(KS) = Cardinality(S) /\ Cardinality(KS) = Cardinality(Till(2))
       /\ Cardinality(KS) - Cardinality(KRS) = Cardinality(Till(1))
       /\ N - Cardinality(KRU) = Cardinality(Till(3))
  <2> HIDE DEF N, D, KS, KRS, KRU
  <2>1. QED
    BY <1>3, <1>4, <1>5, <1>8, <1>10, <1>11
<1>13. QED
  BY <1>12 DEF Till, S, keys

\* A key signs or may be written when any of its uses says so.
Signer(payer, ixs, key) == \E u \in Named(payer, ixs) : u.key = key /\ u.signer
Writer(payer, ixs, key) == \E u \in Named(payer, ixs) : u.key = key /\ u.writable

\* The message reads as its instructions were meant.
ReadsAs(m, payer, ixs) ==
  /\ DOMAIN m.ixs = DOMAIN ixs
  /\ \A i \in DOMAIN ixs :
       /\ m.ixs[i].data = ixs[i].data /\ m.keys[m.ixs[i].program] = ixs[i].program
       /\ \A n \in DOMAIN ixs[i].accounts :
            /\ KeyAt(m, m.ixs[i], n) = ixs[i].accounts[n].key
            /\ Signs(m, m.ixs[i].accounts[n]) <=> Signer(payer, ixs, ixs[i].accounts[n].key)
            /\ Writes(m, m.ixs[i].accounts[n]) <=> Writer(payer, ixs, ixs[i].accounts[n].key)
  /\ m.keys[1] = payer /\ Signs(m, 1) /\ Writes(m, 1)
  /\ (\A u \in Named(payer, ixs) : u.signer => u.key = payer) => m.signed = 1

(* Whatever the instructions share, the message reads as they were meant (compile_message,
   decode_message). *)
LEMMA CompiledReads ==
  ASSUME NEW K, NEW D, NEW payer \in K, NEW ixs \in Seq(Instruction(K, D))
  PROVE  ReadsAs(CompileMessage(payer, ixs), payer, ixs)
<1> DEFINE metas == MetasOf(payer, ixs)
           E == Merged(metas)
           N == Cardinality(DOMAIN E)
           keys == Sorted(E)
           m == CompileMessage(payer, ixs)
           index(key) == CHOOSE i \in DOMAIN keys : keys[i].key = key
           till(k) == Cardinality({j \in DOMAIN E : Class(E[j]) <= k})
<1>1. /\ metas \in Seq(Metas(K)) /\ 1 \in DOMAIN metas /\ metas[1] = Meta(payer, TRUE, TRUE)
      /\ ToSet(metas) = Named(payer, ixs)
  BY MetasAre
<1> HIDE DEF metas
<1>2. /\ IsFiniteSet(DOMAIN E) /\ DOMAIN E \subseteq Nat \ {0}
      /\ 1 \in DOMAIN E /\ E[1].key = payer
      /\ \A i, j \in DOMAIN E : E[i].key = E[j].key => i = j
      /\ \A u \in Named(payer, ixs) : \E i \in DOMAIN E : E[i].key = u.key
      /\ \A i \in DOMAIN E :
           /\ E[i].signer <=> Signer(payer, ixs, E[i].key)
           /\ E[i].writable <=> Writer(payer, ixs, E[i].key)
  BY <1>1, MergedIs DEF Meta, Signer, Writer
<1>3. /\ N \in Nat
      /\ \A i \in DOMAIN E : Place(E, i) \in 1..N
      /\ \A n \in 1..N : \E i \in DOMAIN E : Place(E, i) = n
      /\ \A i \in DOMAIN E, c \in Nat : Place(E, i) <= till(c) <=> Class(E[i]) <= c
  BY <1>2, PlacesAre
<1>4. DOMAIN keys = 1..N /\ \A i \in DOMAIN E : keys[Place(E, i)] = E[i]
  BY <1>2, SortedIs
<1>5. /\ m.signed = Cardinality({i \in DOMAIN keys : keys[i].signer})
      /\ m.readonlySigned = Cardinality({i \in DOMAIN keys : keys[i].signer /\ ~keys[i].writable})
      /\ m.readonlyUnsigned = Cardinality({i \in DOMAIN keys : ~keys[i].signer /\ ~keys[i].writable})
      /\ m.keys = [i \in DOMAIN keys |-> keys[i].key]
      /\ m.ixs = [i \in DOMAIN ixs |->
                    [program |-> index(ixs[i].program),
                     accounts |-> [n \in DOMAIN ixs[i].accounts |-> index(ixs[i].accounts[n].key)],
                     data |-> ixs[i].data]]
  BY DEF CompileMessage, metas
<1> HIDE DEF m, E
<1>6. /\ m.signed = Cardinality({i \in DOMAIN E : E[i].signer})
      /\ m.signed = till(2) /\ m.signed - m.readonlySigned = till(1) /\ N - m.readonlyUnsigned = till(3)
  <2> DEFINE s == Cardinality({i \in DOMAIN keys : keys[i].signer})
             rs == Cardinality({i \in DOMAIN keys : keys[i].signer /\ ~keys[i].writable})
             ru == Cardinality({i \in DOMAIN keys : ~keys[i].signer /\ ~keys[i].writable})
  <2>1. IsFiniteSet(DOMAIN E) /\ DOMAIN E \subseteq Nat
    BY <1>2
  <2>2. /\ s = Cardinality({i \in DOMAIN E : E[i].signer})
        /\ s = till(2) /\ s - rs = till(1) /\ N - ru = till(3)
    BY <2>1, HeaderIs, Zenon
  <2>3. m.signed = s /\ m.readonlySigned = rs /\ m.readonlyUnsigned = ru
    BY <1>5, Zenon
  <2> HIDE DEF s, rs, ru, till, N
  <2>4. QED
    BY <2>2, <2>3
<1> HIDE DEF keys, till, N
<1>7. Len(m.keys) = N
  BY <1>3, <1>4, <1>5
<1>8. ASSUME NEW i \in DOMAIN E
      PROVE  /\ index(E[i].key) = Place(E, i) /\ m.keys[Place(E, i)] = E[i].key
             /\ Signs(m, Place(E, i)) <=> Signer(payer, ixs, E[i].key)
             /\ Writes(m, Place(E, i)) <=> Writer(payer, ixs, E[i].key)
  <2>1. Place(E, i) \in DOMAIN keys /\ keys[Place(E, i)].key = E[i].key
    BY <1>3, <1>4
  <2>2. ASSUME NEW n \in DOMAIN keys, keys[n].key = E[i].key PROVE n = Place(E, i)
    <3>1. PICK j \in DOMAIN E : Place(E, j) = n
      BY <1>3, <1>4, <2>2
    <3>2. E[j].key = E[i].key
      BY <1>4, <2>2, <3>1
    <3>3. QED
      BY <1>2, <3>1, <3>2
  <2>3. index(E[i].key) = Place(E, i)
    BY <2>1, <2>2
  <2>4. /\ Class(E[i]) <= 1 <=> E[i].signer /\ E[i].writable
        /\ Class(E[i]) <= 2 <=> E[i].signer
        /\ Class(E[i]) <= 3 <=> E[i].signer \/ E[i].writable
    BY DEF Class
  <2>5. /\ Place(E, i) <= till(1) <=> Class(E[i]) <= 1
        /\ Place(E, i) <= till(2) <=> Class(E[i]) <= 2
        /\ Place(E, i) <= till(3) <=> Class(E[i]) <= 3
    BY <1>3
  <2>6. Signs(m, Place(E, i)) <=> E[i].signer
    BY <1>6, <2>4, <2>5 DEF Signs
  <2>7. Writes(m, Place(E, i)) <=> E[i].writable
    BY <1>6, <1>7, <2>4, <2>5, <2>6 DEF Writes
  <2>8. QED
    BY <1>2, <1>5, <2>1, <2>3, <2>6, <2>7
<1>9. ASSUME NEW u \in Named(payer, ixs)
      PROVE  /\ m.keys[index(u.key)] = u.key
             /\ Signs(m, index(u.key)) <=> Signer(payer, ixs, u.key)
             /\ Writes(m, index(u.key)) <=> Writer(payer, ixs, u.key)
  <2>1. PICK i \in DOMAIN E : E[i].key = u.key
    BY <1>2
  <2> HIDE DEF index
  <2>2. QED
    BY <1>8, <2>1
<1>10. ASSUME NEW i \in DOMAIN ixs
       PROVE  /\ m.ixs[i].data = ixs[i].data /\ m.keys[m.ixs[i].program] = ixs[i].program
              /\ \A n \in DOMAIN ixs[i].accounts :
                   /\ KeyAt(m, m.ixs[i], n) = ixs[i].accounts[n].key
                   /\ Signs(m, m.ixs[i].accounts[n]) <=> Signer(payer, ixs, ixs[i].accounts[n].key)
                   /\ Writes(m, m.ixs[i].accounts[n]) <=> Writer(payer, ixs, ixs[i].accounts[n].key)
  <2>1. /\ Meta(ixs[i].program, FALSE, FALSE) \in Named(payer, ixs)
        /\ \A n \in DOMAIN ixs[i].accounts : ixs[i].accounts[n] \in Named(payer, ixs)
    <3>1. \A n \in DOMAIN ixs[i].accounts : ixs[i].accounts[n] \in ToSet(ixs[i].accounts)
      BY DEF ToSet
    <3>2. ToSet(ixs[i].accounts) \cup {Meta(ixs[i].program, FALSE, FALSE)} \subseteq Named(payer, ixs)
      BY DEF Named
    <3>3. QED
      BY <3>1, <3>2
  <2>2. Meta(ixs[i].program, FALSE, FALSE).key = ixs[i].program
    BY DEF Meta
  <2>3. /\ m.ixs[i].data = ixs[i].data /\ m.ixs[i].program = index(ixs[i].program)
        /\ \A n \in DOMAIN ixs[i].accounts : m.ixs[i].accounts[n] = index(ixs[i].accounts[n].key)
    BY <1>5
  <2> HIDE DEF index
  <2>4. QED
    BY <1>9, <2>1, <2>2, <2>3 DEF KeyAt
<1>11. m.keys[1] = payer /\ Signs(m, 1) /\ Writes(m, 1)
  <2>1. Meta(payer, TRUE, TRUE) \in Named(payer, ixs)
    BY DEF Named
  <2>2. Signer(payer, ixs, payer) /\ Writer(payer, ixs, payer)
    BY <2>1 DEF Signer, Writer, Meta
  <2>3. Class(E[1]) = 1
    BY <1>2, <2>2 DEF Class
  <2>4. Place(E, 1) = 1
    <3>1. \A j \in DOMAIN E : Class(E[j]) >= 1 /\ (j <= 1 => j = 1)
      BY <1>2 DEF Class
    <3>2. \A j : j \in {k \in DOMAIN E : \/ Class(E[k]) < Class(E[1])
                                         \/ Class(E[k]) = Class(E[1]) /\ k <= 1} <=> j = 1
      BY <1>2, <2>3, <3>1 DEF Class
    <3>3. {k \in DOMAIN E : \/ Class(E[k]) < Class(E[1])
                            \/ Class(E[k]) = Class(E[1]) /\ k <= 1} = {1}
      BY <3>2
    <3>4. QED
      BY <3>3, FS_Singleton DEF Place
  <2>5. QED
    BY <1>2, <1>8, <2>2, <2>4
<1>12. (\A u \in Named(payer, ixs) : u.signer => u.key = payer) => m.signed = 1
  <2> SUFFICES ASSUME \A u \in Named(payer, ixs) : u.signer => u.key = payer PROVE m.signed = 1
    OBVIOUS
  <2>1. Meta(payer, TRUE, TRUE) \in Named(payer, ixs) /\ Meta(payer, TRUE, TRUE).key = payer
        /\ Meta(payer, TRUE, TRUE).signer
    BY DEF Named, Meta
  <2>2. \A i : i \in {j \in DOMAIN E : E[j].signer} <=> i = 1
    <3>1. Signer(payer, ixs, payer)
      BY <2>1 DEF Signer
    <3>2. E[1].signer
      BY <1>2, <3>1
    <3>3. ASSUME NEW i \in DOMAIN E, E[i].signer PROVE i = 1
      <4>1. E[i].key = payer
        BY <1>2, <3>3 DEF Signer
      <4>2. QED
        BY <1>2, <4>1
    <3>4. QED
      BY <1>2, <3>2, <3>3
  <2>3. {j \in DOMAIN E : E[j].signer} = {1}
    BY <2>2
  <2>4. QED
    BY <1>6, <2>3, FS_Singleton
<1>13. DOMAIN m.ixs = DOMAIN ixs
  BY <1>5
<1>14. QED
  BY <1>10, <1>11, <1>12, <1>13 DEF ReadsAs, m

-----------------------------------------------------------------------------
(***************************************************************************)
(* tx_build_transfer: what is built does what was asked, or nothing.        *)
(***************************************************************************)
Key == {"from", "to", "fromAccount", "toAccount", "mint", "system", "token", "memo", "associated token"}
Data == [kind : {"memo", "create"}] \cup [kind : {"system transfer", "token transfer"}, amount : Nat]

(* An instruction's accounts are as many as it has, and are named with their permissions. *)
LEMMA InstructionsAre ==
  ASSUME NEW to \in DOMAIN AtaOf, NEW amount \in Nat
  PROVE  /\ \A ix \in {MemoIx, SolTransferIx("from", to, amount), CreateAccountIx("from", to),
                       TokenTransferIx("from", to, amount)} :
              /\ ix \in Instruction(Key, Data)
              /\ \A u \in ToSet(ix.accounts) : u.signer => u.key = "from"
<1>1. /\ AtaOf[to] \in {"fromAccount", "toAccount"} /\ AtaOf["from"] = "fromAccount"
      /\ to \in {"from", "to"}
  BY DEF AtaOf
<1>2. /\ \A k \in Key, b \in BOOLEAN, c \in BOOLEAN : Meta(k, b, c) \in Metas(Key)
      /\ \A k, c : ~Meta(k, FALSE, c).signer /\ Meta("from", TRUE, c).key = "from"
      /\ {"from", "to", "fromAccount", "toAccount", "mint", "system", "token"} \subseteq Key
  BY DEF Meta, Metas, Key
<1> DEFINE M == {u \in Metas(Key) : u.signer => u.key = "from"}
<1>3. /\ MemoIx.accounts \in Seq(M) /\ SolTransferIx("from", to, amount).accounts \in Seq(M)
      /\ CreateAccountIx("from", to).accounts \in Seq(M)
      /\ TokenTransferIx("from", to, amount).accounts \in Seq(M)
  <2>1. \A k \in Key, c \in BOOLEAN : Meta(k, FALSE, c) \in M /\ Meta("from", TRUE, c) \in M
    BY <1>2
  <2> HIDE DEF M
  <2>2. MemoIx.accounts \in Seq(M)
    BY EmptySeq DEF MemoIx
  <2>3. SolTransferIx("from", to, amount).accounts \in Seq(M)
    <3>1. \A a, b \in M : <<a, b>> \in Seq(M)
      OBVIOUS
    <3>2. Meta("from", TRUE, TRUE) \in M /\ Meta(to, FALSE, TRUE) \in M
      BY <1>1, <1>2, <2>1
    <3>3. QED
      BY <3>1, <3>2 DEF SolTransferIx
  <2>4. CreateAccountIx("from", to).accounts \in Seq(M)
    <3>1. \A a, b, c, d, e, f \in M : <<a, b, c, d, e, f>> \in Seq(M)
      OBVIOUS
    <3>2. /\ Meta("from", TRUE, TRUE) \in M /\ Meta(AtaOf[to], FALSE, TRUE) \in M
          /\ Meta(to, FALSE, FALSE) \in M /\ Meta("mint", FALSE, FALSE) \in M
          /\ Meta("system", FALSE, FALSE) \in M /\ Meta("token", FALSE, FALSE) \in M
      BY <1>1, <1>2, <2>1
    <3>3. QED
      BY <3>1, <3>2 DEF CreateAccountIx
  <2>5. TokenTransferIx("from", to, amount).accounts \in Seq(M)
    <3>1. \A a, b, c, d \in M : <<a, b, c, d>> \in Seq(M)
      OBVIOUS
    <3>2. /\ Meta(AtaOf["from"], FALSE, TRUE) \in M /\ Meta("mint", FALSE, FALSE) \in M
          /\ Meta(AtaOf[to], FALSE, TRUE) \in M /\ Meta("from", TRUE, FALSE) \in M
      BY <1>1, <1>2, <2>1
    <3>3. QED
      BY <3>1, <3>2 DEF TokenTransferIx
  <2>6. QED
    BY <2>2, <2>3, <2>4, <2>5
<1>4. \A s \in Seq(M) : s \in Seq(Metas(Key)) /\ \A u \in ToSet(s) : u.signer => u.key = "from"
  <2> SUFFICES ASSUME NEW s \in Seq(M)
               PROVE  s \in Seq(Metas(Key)) /\ \A u \in ToSet(s) : u.signer => u.key = "from"
    OBVIOUS
  <2>1. DOMAIN s = 1..Len(s) /\ Len(s) \in Nat /\ \A i \in DOMAIN s : s[i] \in M
    BY LenProperties, ElementOfSeq
  <2>2. s \in [1..Len(s) -> Metas(Key)]
    <3>1. s \in [1..Len(s) -> M]
      BY LenProperties
    <3>2. QED
      BY <3>1
  <2>3. QED
    BY <2>1, <2>2 DEF ToSet
<1>5. /\ MemoIx.program \in Key /\ MemoIx.data \in Data
      /\ SolTransferIx("from", to, amount).program \in Key /\ SolTransferIx("from", to, amount).data \in Data
      /\ CreateAccountIx("from", to).program \in Key /\ CreateAccountIx("from", to).data \in Data
      /\ TokenTransferIx("from", to, amount).program \in Key /\ TokenTransferIx("from", to, amount).data \in Data
  BY DEF MemoIx, SolTransferIx, CreateAccountIx, TokenTransferIx, Key, Data
<1> HIDE DEF M
<1>6. \A p \in Key, s \in Seq(M), d \in Data :
        LET ix == [program |-> p, accounts |-> s, data |-> d] IN
        ix \in Instruction(Key, Data) /\ \A u \in ToSet(ix.accounts) : u.signer => u.key = "from"
  BY <1>4 DEF Instruction
<1>7. QED
  <2>1. \A ix \in {MemoIx, SolTransferIx("from", to, amount), CreateAccountIx("from", to),
                   TokenTransferIx("from", to, amount)} :
          /\ ix = [program |-> ix.program, accounts |-> ix.accounts, data |-> ix.data]
          /\ ix.program \in Key /\ ix.accounts \in Seq(M) /\ ix.data \in Data
    <3>1. /\ \A ix \in {MemoIx, SolTransferIx("from", to, amount), CreateAccountIx("from", to),
                        TokenTransferIx("from", to, amount)} :
               ix = [program |-> ix.program, accounts |-> ix.accounts, data |-> ix.data]
      BY DEF MemoIx, SolTransferIx, CreateAccountIx, TokenTransferIx
    <3>2. QED
      BY <1>3, <1>5, <3>1
  <2>2. QED
    BY <1>6, <2>1

\* The instructions of a transfer: an account is created first if it is missing.
Transfer(r) ==
  IF r.asset = "native" THEN SolTransferIx("from", r.to, r.amount)
  ELSE TokenTransferIx("from", r.to, r.amount)
Creates(r, w) == ~(r.asset = "native" \/ r.to = "from" \/ w.account)

LEMMA TransferHas ==
  ASSUME NEW r, NEW w, TransferQuery(r, w)
  PROVE  LET ixs == Instructions(r, w) IN
         /\ ixs \in Seq(Instruction(Key, Data))
         /\ ToSet(ixs) \subseteq {MemoIx, Transfer(r)} \cup (IF Creates(r, w) THEN {CreateAccountIx("from", r.to)} ELSE {})
         /\ Transfer(r) \in ToSet(ixs)
         /\ Creates(r, w) => CreateAccountIx("from", r.to) \in ToSet(ixs)
<1> DEFINE I == Instruction(Key, Data)
           c == CreateAccountIx("from", r.to)
           t == Transfer(r)
           memo == IF r.memo = "none" THEN <<>> ELSE <<MemoIx>>
           create == IF r.asset = "native" \/ r.to = "from" \/ w.account THEN <<>> ELSE <<c>>
           last == <<t>>
<1>1. MemoIx \in I /\ c \in I /\ t \in I
  BY InstructionsAre DEF TransferQuery, Transfer
<1>2. Instructions(r, w) = (create \o memo) \o last
  BY Zenon DEF Instructions, Transfer
<1> HIDE DEF c, t, I
<1>3. << >> \in Seq(I) /\ ToSet(<< >>) = {}
  BY EmptySeq DEF ToSet
<1>4. memo \in Seq(I) /\ ToSet(memo) \subseteq {MemoIx}
  BY <1>1, <1>3, OneHas
<1>5. create \in Seq(I) /\ ToSet(create) = IF Creates(r, w) THEN {c} ELSE {}
  BY <1>1, <1>3, OneHas DEF Creates
<1>6. last \in Seq(I) /\ ToSet(last) = {t}
  BY <1>1, OneHas
<1> HIDE DEF memo, create, last
<1>7. create \o memo \in Seq(I) /\ ToSet(create \o memo) = ToSet(create) \cup ToSet(memo)
  BY <1>4, <1>5, JoinHas
<1> DEFINE both == create \o memo
<1> HIDE DEF both
<1>8. both \o last \in Seq(I) /\ ToSet(both \o last) = ToSet(both) \cup {t}
  <2>1. both \in Seq(I)
    BY <1>7 DEF both
  <2>2. QED
    BY <1>6, <2>1, JoinHas
<1>9. Instructions(r, w) = both \o last /\ ToSet(both) = ToSet(create) \cup ToSet(memo)
  BY <1>2, <1>7 DEF both
<1>10. QED
  BY <1>4, <1>5, <1>8, <1>9 DEF c, t, I

\* A list has an element at a position.
HasAt(list, n, x) == n \in DOMAIN list /\ list[n] = x

Moving(kind, amount) == [kind |-> kind, amount |-> amount]

LEMMA Parts ==
  /\ \A x, p, a, d : x = [program |-> p, accounts |-> a, data |-> d] => x.accounts = a /\ x.data = d
  /\ \A kind, amount : Moving(kind, amount).kind = kind /\ Moving(kind, amount).amount = amount
BY DEF Moving

LEMMA ListsHave ==
  /\ \A a, b : HasAt(<<a, b>>, 1, a) /\ HasAt(<<a, b>>, 2, b)
  /\ \A a, b, c, d :
       HasAt(<<a, b, c, d>>, 1, a) /\ HasAt(<<a, b, c, d>>, 3, c) /\ HasAt(<<a, b, c, d>>, 4, d)
  /\ \A a, b, c, d, e, f : HasAt(<<a, b, c, d, e, f>>, 1, a) /\ HasAt(<<a, b, c, d, e, f>>, 2, b)
BY DEF HasAt

(* The accounts of a transfer's instructions, by position. *)
LEMMA SolTransferHas ==
  ASSUME NEW to, NEW amount
  PROVE  LET ix == SolTransferIx("from", to, amount) IN
         /\ ix.data = Moving("system transfer", amount)
         /\ HasAt(ix.accounts, 1, Meta("from", TRUE, TRUE)) /\ HasAt(ix.accounts, 2, Meta(to, FALSE, TRUE))
<1> DEFINE list == <<Meta("from", TRUE, TRUE), Meta(to, FALSE, TRUE)>>
           data == Moving("system transfer", amount)
<1>1. HasAt(list, 1, Meta("from", TRUE, TRUE)) /\ HasAt(list, 2, Meta(to, FALSE, TRUE))
  BY Zenon, ListsHave
<1>2. SolTransferIx("from", to, amount) = [program |-> "system", accounts |-> list, data |-> data]
  BY Zenon DEF SolTransferIx, Moving
<1> HIDE DEF list, data
<1>3. SolTransferIx("from", to, amount).data = data /\ SolTransferIx("from", to, amount).accounts = list
  BY <1>2, Parts
<1>4. QED
  BY Zenon, <1>1, <1>3 DEF data

LEMMA CreateAccountHas ==
  ASSUME NEW to
  PROVE  LET ix == CreateAccountIx("from", to) IN
         /\ ix.data = [kind |-> "create"]
         /\ HasAt(ix.accounts, 1, Meta("from", TRUE, TRUE)) /\ HasAt(ix.accounts, 2, Meta(AtaOf[to], FALSE, TRUE))
<1> DEFINE list == <<Meta("from", TRUE, TRUE), Meta(AtaOf[to], FALSE, TRUE), Meta(to, FALSE, FALSE),
                     Meta("mint", FALSE, FALSE), Meta("system", FALSE, FALSE), Meta("token", FALSE, FALSE)>>
           data == [kind |-> "create"]
           program == "associated token"
<1>1. HasAt(list, 1, Meta("from", TRUE, TRUE)) /\ HasAt(list, 2, Meta(AtaOf[to], FALSE, TRUE))
  BY Zenon, ListsHave
<1>2. CreateAccountIx("from", to) = [program |-> program, accounts |-> list, data |-> data]
  BY Zenon DEF CreateAccountIx
<1> HIDE DEF list, data, program
<1>3. CreateAccountIx("from", to).data = data /\ CreateAccountIx("from", to).accounts = list
  BY <1>2, Parts
<1>4. QED
  BY Zenon, <1>1, <1>3 DEF data

LEMMA TokenTransferHas ==
  ASSUME NEW to, NEW amount
  PROVE  LET ix == TokenTransferIx("from", to, amount) IN
         /\ ix.data = Moving("token transfer", amount)
         /\ HasAt(ix.accounts, 1, Meta(AtaOf["from"], FALSE, TRUE))
         /\ HasAt(ix.accounts, 3, Meta(AtaOf[to], FALSE, TRUE)) /\ HasAt(ix.accounts, 4, Meta("from", TRUE, FALSE))
<1> DEFINE list == <<Meta(AtaOf["from"], FALSE, TRUE), Meta("mint", FALSE, FALSE),
                     Meta(AtaOf[to], FALSE, TRUE), Meta("from", TRUE, FALSE)>>
           data == Moving("token transfer", amount)
<1>1. /\ HasAt(list, 1, Meta(AtaOf["from"], FALSE, TRUE))
      /\ HasAt(list, 3, Meta(AtaOf[to], FALSE, TRUE)) /\ HasAt(list, 4, Meta("from", TRUE, FALSE))
  BY Zenon, ListsHave
<1>2. TokenTransferIx("from", to, amount) = [program |-> "token", accounts |-> list, data |-> data]
  BY Zenon DEF TokenTransferIx, Moving
<1> HIDE DEF list, data
<1>3. TokenTransferIx("from", to, amount).data = data /\ TokenTransferIx("from", to, amount).accounts = list
  BY <1>2, Parts
<1>4. QED
  BY Zenon, <1>1, <1>3 DEF data

(* What the chain makes of the message that is built (build_solana). *)
LEMMA SolanaMoves ==
  ASSUME NEW r, NEW w, TransferQuery(r, w)
  PROVE  LET m == CompileMessage("from", Instructions(r, w))
             asked == [asset |-> IF r.asset = "native" THEN "native" ELSE "token",
                       from |-> IF r.asset = "native" THEN "from" ELSE AtaOf["from"],
                       to |-> IF r.asset = "native" THEN r.to ELSE AtaOf[r.to], amount |-> r.amount]
         IN SolanaEffect(m, w) = IF r.amount <= w.funds THEN {asked} ELSE {}
<1> DEFINE ixs == Instructions(r, w)
           m == CompileMessage("from", ixs)
           asked == [asset |-> IF r.asset = "native" THEN "native" ELSE "token",
                     from |-> IF r.asset = "native" THEN "from" ELSE AtaOf["from"],
                     to |-> IF r.asset = "native" THEN r.to ELSE AtaOf[r.to], amount |-> r.amount]
           c == CreateAccountIx("from", r.to)
           t == Transfer(r)
           moved == UNION {Moves(m, w, m.ixs[i]) : i \in DOMAIN m.ixs}
<1>1. /\ ixs \in Seq(Instruction(Key, Data))
      /\ \A x \in ToSet(ixs) : x = MemoIx \/ x = t \/ (x = c /\ Creates(r, w))
      /\ t \in ToSet(ixs)
      /\ Creates(r, w) => c \in ToSet(ixs)
  BY TransferHas
<1>2. ReadsAs(m, "from", ixs)
  BY <1>1, CompiledReads DEF Key
<1>3. \A x \in ToSet(ixs) : \E i \in DOMAIN ixs : ixs[i] = x
  BY DEF ToSet
<1>4. \A i \in DOMAIN ixs : ixs[i] \in ToSet(ixs)
  BY DEF ToSet
<1> HIDE DEF ixs, m, c, t
<1>5. /\ DOMAIN m.ixs = DOMAIN ixs
      /\ \A i \in DOMAIN ixs :
           /\ m.ixs[i].data = ixs[i].data
           /\ \A n \in DOMAIN ixs[i].accounts :
                /\ KeyAt(m, m.ixs[i], n) = ixs[i].accounts[n].key
                /\ Signs(m, m.ixs[i].accounts[n]) <=> Signer("from", ixs, ixs[i].accounts[n].key)
                /\ Writes(m, m.ixs[i].accounts[n]) <=> Writer("from", ixs, ixs[i].accounts[n].key)
      /\ m.keys[1] = "from" /\ Signs(m, 1) /\ Writes(m, 1)
  BY <1>2 DEF ReadsAs
<1>6. /\ \A i \in DOMAIN ixs : \A n \in DOMAIN ixs[i].accounts : ixs[i].accounts[n] \in Named("from", ixs)
      /\ Meta("from", TRUE, TRUE) \in Named("from", ixs)
  <2>1. ASSUME NEW i \in DOMAIN ixs, NEW x \in ToSet(ixs[i].accounts) PROVE x \in Named("from", ixs)
    <3> DEFINE N(j) == ToSet(ixs[j].accounts) \cup {Meta(ixs[j].program, FALSE, FALSE)}
    <3>1. x \in N(i)
      OBVIOUS
    <3>2. Named("from", ixs) = {Meta("from", TRUE, TRUE)} \cup UNION {N(j) : j \in DOMAIN ixs}
      BY Zenon DEF Named
    <3> HIDE DEF N
    <3>3. QED
      BY <3>1, <3>2
  <2>2. \A s : \A n \in DOMAIN s : s[n] \in ToSet(s)
    BY DEF ToSet
  <2>3. Meta("from", TRUE, TRUE) \in Named("from", ixs)
    BY Zenon DEF Named
  <2>4. QED
    BY Zenon, <2>1, <2>2, <2>3
<1>7. m.signed = 1
  <2>1. ASSUME NEW u \in Named("from", ixs), u.signer PROVE u.key = "from"
    <3>1. CASE u = Meta("from", TRUE, TRUE)
      BY <3>1 DEF Meta
    <3>2. CASE \E i \in DOMAIN ixs : u = Meta(ixs[i].program, FALSE, FALSE)
      BY <2>1, <3>2 DEF Meta
    <3>3. CASE \E i \in DOMAIN ixs : u \in ToSet(ixs[i].accounts)
      <4>1. PICK i \in DOMAIN ixs : u \in ToSet(ixs[i].accounts)
        BY <3>3
      <4>2. ixs[i] \in {MemoIx, t, c}
        BY <1>1, <1>4
      <4>3. QED
        BY <2>1, <4>1, <4>2, InstructionsAre DEF TransferQuery, Transfer, t, c
    <3>4. QED
      BY <3>1, <3>2, <3>3 DEF Named
  <2>2. QED
    BY <1>2, <2>1 DEF ReadsAs
<1>8. Signer("from", ixs, "from") /\ Writer("from", ixs, "from")
  BY <1>6 DEF Signer, Writer, Meta
<1>9. ASSUME NEW i \in DOMAIN ixs, ixs[i] = MemoIx
      PROVE  m.ixs[i].data.kind = "memo" /\ Permitted(m, m.ixs[i]) /\ Moves(m, w, m.ixs[i]) = {}
  <2>1. m.ixs[i].data.kind = "memo"
    BY <1>5, <1>9 DEF MemoIx
  <2>2. QED
    BY <2>1 DEF Permitted, Moves
<1>20. ASSUME NEW i \in DOMAIN ixs, NEW n, NEW k, NEW signs \in BOOLEAN, NEW writes \in BOOLEAN,
              HasAt(ixs[i].accounts, n, Meta(k, signs, writes))
       PROVE  /\ KeyAt(m, m.ixs[i], n) = k
              /\ signs => Signs(m, m.ixs[i].accounts[n])
              /\ writes => Writes(m, m.ixs[i].accounts[n])
  <2> DEFINE u == Meta(k, signs, writes)
  <2>1. n \in DOMAIN ixs[i].accounts /\ ixs[i].accounts[n] = u /\ u \in Named("from", ixs)
    BY Zenon, <1>6, <1>20 DEF HasAt
  <2>2. u.key = k /\ u.signer = signs /\ u.writable = writes
    BY DEF Meta
  <2> HIDE DEF u
  <2>3. /\ signs => Signer("from", ixs, k)
        /\ writes => Writer("from", ixs, k)
    BY <2>1, <2>2 DEF Signer, Writer
  <2>4. /\ KeyAt(m, m.ixs[i], n) = ixs[i].accounts[n].key
        /\ Signs(m, m.ixs[i].accounts[n]) <=> Signer("from", ixs, ixs[i].accounts[n].key)
        /\ Writes(m, m.ixs[i].accounts[n]) <=> Writer("from", ixs, ixs[i].accounts[n].key)
    BY Zenon, <1>5, <2>1
  <2>5. ixs[i].accounts[n].key = k
    BY Zenon, <2>1, <2>2
  <2>6. QED
    BY Zenon, <2>3, <2>4, <2>5
<1>10. ASSUME NEW i \in DOMAIN ixs, ixs[i] = c
       PROVE  /\ m.ixs[i].data.kind = "create" /\ KeyAt(m, m.ixs[i], 2) = AtaOf[r.to]
              /\ Permitted(m, m.ixs[i]) /\ Moves(m, w, m.ixs[i]) = {}
  <2>1. /\ ixs[i].data = [kind |-> "create"]
        /\ HasAt(ixs[i].accounts, 1, Meta("from", TRUE, TRUE))
        /\ HasAt(ixs[i].accounts, 2, Meta(AtaOf[r.to], FALSE, TRUE))
    BY Zenon, <1>10, CreateAccountHas DEF c
  <2>2. /\ KeyAt(m, m.ixs[i], 2) = AtaOf[r.to]
        /\ Signs(m, m.ixs[i].accounts[1]) /\ Writes(m, m.ixs[i].accounts[1]) /\ Writes(m, m.ixs[i].accounts[2])
    BY Zenon, <1>20, <2>1
  <2>3. m.ixs[i].data.kind = "create"
    BY <1>5, <2>1
  <2>4. QED
    BY <2>2, <2>3 DEF Permitted, Moves
<1>11. ASSUME NEW i \in DOMAIN ixs, ixs[i] = t
       PROVE  Permitted(m, m.ixs[i]) /\ Moves(m, w, m.ixs[i]) = {asked}
  <2>1. CASE r.asset = "native"
    <3>1. /\ ixs[i].data = Moving("system transfer", r.amount)
          /\ HasAt(ixs[i].accounts, 1, Meta("from", TRUE, TRUE))
          /\ HasAt(ixs[i].accounts, 2, Meta(r.to, FALSE, TRUE))
      <4>1. ixs[i] = SolTransferIx("from", r.to, r.amount)
        BY Zenon, <1>11, <2>1 DEF t, Transfer
      <4>2. QED
        BY <4>1, SolTransferHas
    <3>2. /\ KeyAt(m, m.ixs[i], 1) = "from" /\ KeyAt(m, m.ixs[i], 2) = r.to
          /\ Signs(m, m.ixs[i].accounts[1]) /\ Writes(m, m.ixs[i].accounts[1]) /\ Writes(m, m.ixs[i].accounts[2])
      BY Zenon, <1>20, <3>1
    <3>3. m.ixs[i].data.kind = "system transfer" /\ m.ixs[i].data.amount = r.amount
      <4>1. m.ixs[i].data = Moving("system transfer", r.amount)
        BY Zenon, <1>5, <3>1
      <4>2. \A kind : m.ixs[i].data = Moving(kind, r.amount) =>
                       m.ixs[i].data.kind = kind /\ m.ixs[i].data.amount = r.amount
        BY Parts
      <4>3. QED
        BY Zenon, <4>1, <4>2
    <3>4. QED
      BY <2>1, <3>2, <3>3 DEF Permitted, Moves
  <2>2. CASE r.asset # "native"
    <3>1. /\ ixs[i].data = Moving("token transfer", r.amount)
          /\ HasAt(ixs[i].accounts, 1, Meta(AtaOf["from"], FALSE, TRUE))
          /\ HasAt(ixs[i].accounts, 3, Meta(AtaOf[r.to], FALSE, TRUE))
          /\ HasAt(ixs[i].accounts, 4, Meta("from", TRUE, FALSE))
      <4>1. ixs[i] = TokenTransferIx("from", r.to, r.amount)
        BY Zenon, <1>11, <2>2 DEF t, Transfer
      <4>2. QED
        BY <4>1, TokenTransferHas
    <3>2. /\ KeyAt(m, m.ixs[i], 1) = AtaOf["from"] /\ KeyAt(m, m.ixs[i], 3) = AtaOf[r.to]
          /\ Writes(m, m.ixs[i].accounts[1]) /\ Writes(m, m.ixs[i].accounts[3]) /\ Signs(m, m.ixs[i].accounts[4])
      BY Zenon, <1>20, <3>1
    <3>3. m.ixs[i].data.kind = "token transfer" /\ m.ixs[i].data.amount = r.amount
      <4>1. m.ixs[i].data = Moving("token transfer", r.amount)
        BY Zenon, <1>5, <3>1
      <4>2. \A kind : m.ixs[i].data = Moving(kind, r.amount) =>
                       m.ixs[i].data.kind = kind /\ m.ixs[i].data.amount = r.amount
        BY Parts
      <4>3. QED
        BY Zenon, <4>1, <4>2
    <3>4. QED
      BY <2>2, <3>2, <3>3 DEF Permitted, Moves
  <2>3. QED
    BY <2>1, <2>2
<1>12. \A i \in DOMAIN ixs : Permitted(m, m.ixs[i])
  BY <1>1, <1>4, <1>9, <1>10, <1>11
<1>13. moved = {asked}
  <2>1. PICK i \in DOMAIN ixs : ixs[i] = t
    BY <1>1, <1>3
  <2>2. \A j \in DOMAIN ixs : Moves(m, w, m.ixs[j]) \subseteq {asked}
    BY <1>1, <1>4, <1>9, <1>10, <1>11
  <2>3. Moves(m, w, m.ixs[i]) = {asked}
    BY <1>11, <2>1
  <2>4. \A x : x \in moved <=> x \in {asked}
    BY <1>5, <2>2, <2>3
  <2>5. QED
    BY <2>4
<1>14. r.asset # "native" => HasAccount(m, w, AtaOf[r.to])
  <2>1. CASE r.to = "from" \/ w.account
    BY <2>1 DEF TransferQuery, AtaOf, HasAccount
  <2>2. CASE r.asset # "native" /\ ~(r.to = "from" \/ w.account)
    <3>1. Creates(r, w)
      BY <2>2 DEF Creates
    <3>2. PICK i \in DOMAIN ixs : ixs[i] = c
      BY <1>1, <1>3, <3>1
    <3>3. QED
      BY <1>5, <1>10, <3>2 DEF HasAccount
  <2>3. QED
    BY <2>1, <2>2
<1> HIDE DEF moved
<1>15. SolanaEffect(m, w) =
         IF /\ Signs(m, 1) /\ Writes(m, 1) /\ m.keys[1] = "from" /\ m.signed = 1
            /\ \A i \in DOMAIN m.ixs : Permitted(m, m.ixs[i])
            /\ \A x \in moved : x.amount <= w.funds /\ (x.asset = "token" => HasAccount(m, w, x.to))
         THEN moved ELSE {}
  BY DEF SolanaEffect, moved
<1>16. (\A x \in moved : x.amount <= w.funds /\ (x.asset = "token" => HasAccount(m, w, x.to))) <=> r.amount <= w.funds
  BY <1>13, <1>14
<1>17. SolanaEffect(m, w) = IF r.amount <= w.funds THEN {asked} ELSE {}
  BY <1>5, <1>7, <1>12, <1>13, <1>15, <1>16
<1>18. QED
  BY <1>17 DEF m, ixs

(* What is built moves what was asked for, or nothing (tx_build_transfer). *)
LEMMA EffectIs ==
  ASSUME NEW r, NEW w, TransferQuery(r, w)
  PROVE  LET account(k) == IF r.family = "evm" \/ r.asset = "native" THEN k ELSE AtaOf[k]
             asked == [asset |-> IF r.asset = "native" THEN "native" ELSE "token",
                       from |-> account("from"), to |-> account(r.to), amount |-> r.amount]
         IN Effect(r, w) = IF r.amount <= w.funds THEN {asked} ELSE {}
<1>1. CASE r.family = "evm"
  <2>1. Effect(r, w) = EvmEffect(EvmTransfer(r, w), w)
    BY <1>1 DEF Effect, Built
  <2>2. CASE r.asset = "native"
    BY <1>1, <2>1, <2>2 DEF EvmEffect, EvmTransfer
  <2>3. CASE r.asset # "native"
    BY <1>1, <2>1, <2>3 DEF EvmEffect, EvmTransfer
  <2>4. QED
    BY <2>2, <2>3
<1>2. CASE r.family # "evm"
  <2>1. Effect(r, w) = SolanaEffect(CompileMessage("from", Instructions(r, w)), w)
    BY <1>2 DEF Effect, Built
  <2>2. QED
    BY <1>2, <2>1, SolanaMoves
<1>3. QED
  BY <1>1, <1>2

\* The inductive invariant of the sending operations.
SendInv == request.op = "tx_build_transfer" => TransferQuery(request, world) /\ BuiltMovesAsked

\* A reply that says what it built is ready when the simulation went well.
BuiltReply ==
  /\ TransferQuery(request, world) /\ Replied("tx_build_transfer")
  /\ answer.out.ready => Simulated(request, world) = "success"

LEMMA BuiltIsAsked == BuiltReply => BuiltMovesAsked
<1> SUFFICES ASSUME BuiltReply PROVE BuiltMovesAsked
  OBVIOUS
<1> DEFINE r == request
           account(k) == IF r.family = "evm" \/ r.asset = "native" THEN k ELSE AtaOf[k]
           asked == [asset |-> IF r.asset = "native" THEN "native" ELSE "token",
                     from |-> account("from"), to |-> account(r.to), amount |-> r.amount]
<1>1. Effect(r, world) = IF r.amount <= world.funds THEN {asked} ELSE {}
  BY EffectIs DEF BuiltReply
<1>2. answer.out.ready => Effect(r, world) # {}
  BY DEF BuiltReply, Simulated
<1>3. r.amount \in Nat /\ world.funds \in Nat
  BY DEF BuiltReply, TransferQuery
<1> HIDE DEF asked
<1>4. /\ Effect(r, world) \subseteq {asked}
      /\ world.funds >= r.amount => Effect(r, world) = {asked}
      /\ answer.out.ready => Effect(r, world) = {asked}
  BY <1>1, <1>2, <1>3
<1>5. QED
  BY <1>4 DEF BuiltMovesAsked, asked

(* What is built does what was asked, whatever a broadcast does. *)
LEMMA SendStep ==
  ASSUME SendInv, [SendNext]_vars
  PROVE  SendInv'
<1>1. CASE BuildTransfer
  <2>1. /\ request.op = "tx_build_transfer" /\ UNCHANGED <<request, world>>
        /\ \/ answer'.at = "refused"
           \/ answer'.at = "replied" /\ answer'.out.ready = (Simulated(request, world) = "success")
    <3>1. /\ request.op = "tx_build_transfer" /\ UNCHANGED <<request, world>>
          /\ \/ \E code : answer' = Refuse(code)
             \/ answer' = Reply([tx |-> Built(request, world), simulated |-> Simulated(request, world),
                                 creates |-> request.family = "solana" /\ Missing(request, world),
                                 ready |-> Simulated(request, world) = "success"])
      BY <1>1, Zenon DEF BuildTransfer, Conclude
    <3>2. CASE \E code : answer' = Refuse(code)
      BY <3>1, <3>2 DEF Refuse
    <3>3. CASE answer' = Reply([tx |-> Built(request, world), simulated |-> Simulated(request, world),
                                creates |-> request.family = "solana" /\ Missing(request, world),
                                ready |-> Simulated(request, world) = "success"])
      <4> DEFINE out == [tx |-> Built(request, world), simulated |-> Simulated(request, world),
                         creates |-> request.family = "solana" /\ Missing(request, world),
                         ready |-> Simulated(request, world) = "success"]
      <4>1. out.ready = (Simulated(request, world) = "success")
        BY Zenon
      <4> HIDE DEF out
      <4>2. answer' = [at |-> "replied", out |-> out]
        BY <3>3, Zenon DEF out, Reply
      <4>3. answer'.at = "replied" /\ answer'.out = out
        BY <4>2
      <4>4. QED
        BY <3>1, <4>1, <4>3, Zenon
    <3>4. QED
      BY <3>1, <3>2, <3>3, Zenon
  <2>2. TransferQuery(request, world)
    BY <2>1 DEF SendInv
  <2>3. Simulated(request, world)' = Simulated(request, world) /\ TransferQuery(request, world)'
    <3>1. request' = request /\ world' = world
      BY <2>1
    <3>2. QED
      BY <2>2, <3>1
  <2>4. CASE answer'.at = "refused"
    BY <2>3, <2>4 DEF SendInv, BuiltMovesAsked, Replied
  <2>5. CASE answer'.at = "replied" /\ answer'.out.ready = (Simulated(request, world) = "success")
    <3>1. BuiltReply'
      BY <2>1, <2>3, <2>5 DEF BuiltReply, Replied
    <3>2. BuiltMovesAsked'
      BY <3>1, BuiltIsAsked, PTL
    <3>3. QED
      BY <2>3, <3>2 DEF SendInv
  <2>6. QED
    BY <2>1, <2>4, <2>5
<1>2. CASE Broadcast
  BY <1>2 DEF Broadcast, SendInv
<1>3. CASE UNCHANGED vars
  BY <1>3 DEF vars, SendInv, BuiltMovesAsked, Replied
<1>4. QED
  BY <1>1, <1>2, <1>3 DEF SendNext

(* A call starts with no answer. *)
LEMMA SendStart ==
  ASSUME StartIn(SendCases)
  PROVE  request.op \in SendOp /\ SendInv
BY SendAssumption DEF StartIn, SendInv, BuiltMovesAsked, Replied, Asked

-----------------------------------------------------------------------------
(***************************************************************************)
(* Any call: an operation's invariant is kept by its own steps, and is none *)
(* of the others' concern.                                                  *)
(***************************************************************************)
NeobankInv == CardInv /\ LedgerInv

CallInv ==
  /\ IsLookup => StatusInv
  /\ request.op \in Checkers => IssuerInv
  /\ NeobankInv
  /\ request.op \in TokenOp => TokenAsked /\ OnlyCanonicalTokens
  /\ PriceInv
  /\ PaymentInv
  /\ HistoryInv
  /\ SendInv

PaymentOp == {"payments_verify_transfer"}
ProvedOp == Op \cup Checkers \cup NeobankOp \cup TokenOp \cup PriceOp \cup PaymentOp \cup HistoryOp
            \cup SendOp
PriceNext == StockNext \/ MarketNext \/ TradeNext

(* The steps of an operation are taken by its own calls. *)
LEMMA StepsOfOwnOp ==
  /\ StatusNext => IsLookup /\ UNCHANGED request
  /\ IssuerNext => request.op \in Checkers /\ UNCHANGED request
  /\ NeobankNext => request.op \in NeobankOp /\ UNCHANGED request
  /\ TokensNext => request.op \in TokenOp /\ UNCHANGED request
  /\ PriceNext => request.op \in PriceOp /\ UNCHANGED request
  /\ VerifyTransfer => request.op \in PaymentOp /\ UNCHANGED request
  /\ HistoryNext => request.op \in HistoryOp /\ UNCHANGED request
  /\ SendNext => request.op \in SendOp /\ UNCHANGED request
<1>1. StatusNext => IsLookup /\ UNCHANGED request
  <2>1. LookUp => UNCHANGED request
    BY DEF LookUp, Malformed, ReadFails, EvmByHash, EvmReceipt, EvmFinalized, EvmSafe, EvmHead,
           SolanaStatus, SolanaFetch, SolanaHeight, At, GoOn
  <2>2. ChainMoves => UNCHANGED request
    BY DEF ChainMoves, Grow, Include, Reorganise, Move
  <2>3. QED
    BY <2>1, <2>2 DEF StatusNext
<1>2. IssuerNext => request.op \in Checkers /\ UNCHANGED request
  BY DEF IssuerNext, Screen, CheckRestrictions, PinBlock, EvmCheck, SolanaAccounts, SolanaMint,
         CheckFails, IssuerActs, Checking, Checkers, ReadOn, TokenDone, Advance
<1>3. NeobankNext => request.op \in NeobankOp /\ UNCHANGED request
  BY DEF NeobankNext, CardFunding, PinCard, CardRead, CardMint, CardAccount, CardFails, CardActs,
         CardReading, ReadOn, GetLedger, FxRate, Conclude, Funding, NeobankOp, Advance
<1>4. TokensNext => request.op \in TokenOp /\ UNCHANGED request
  BY DEF TokensNext, StablecoinResolve, BuildRequest, AddressValidate, Conclude, TokenOp
<1>5. PriceNext => request.op \in PriceOp /\ UNCHANGED request
  BY DEF PriceNext, StockNext, RwaPrice, RwaTokenInfo, MarketNext, MarketGetPrice, MarketGetPriceAt,
         StablecoinPeg, TokenGetMetadata, TokenCheckRisk, TradeNext, GetSwapQuote, BuildSwapTx,
         Conclude, PriceOp, StockOp, MarketOp, Priced, TradeOp
<1>6. VerifyTransfer => request.op \in PaymentOp /\ UNCHANGED request
  BY DEF VerifyTransfer, Conclude, PaymentOp
<1>7. HistoryNext => request.op \in HistoryOp /\ UNCHANGED request
  BY DEF HistoryNext, DepositsPage, ForeignCursor, WalletPage, HistoryFails, NewBlock, Walking, HistoryOp
<1>8. SendNext => request.op \in SendOp /\ UNCHANGED request
  BY DEF SendNext, BuildTransfer, Broadcast, Conclude, SendOp
<1>9. QED
  BY <1>1, <1>2, <1>3, <1>4, <1>5, <1>6, <1>7, <1>8

(* Nor do the other operations' calls take them. *)
LEMMA StepsOfOtherOps == ToolsNext => request.op \notin ProvedOp /\ UNCHANGED request
BY DEF ToolsNext, WalletGetBalances, ChainList, ProviderHealth, ChainFinality, TxEstimateFee,
       EthGetBalance, EthGetCode, EthGasPrice, EthGetTransactionByHash, LegacyRead, Conclude,
       ProvedOp, Op, Checkers, NeobankOp, TokenOp, PriceOp, StockOp, MarketOp, Priced, TradeOp,
       PaymentOp, HistoryOp, SendOp

(* Whose invariants a call is concerned with. *)
LEMMA OwnOps ==
  /\ IsLookup => request.op \notin Checkers \cup NeobankOp \cup TokenOp \cup PriceOp \cup PaymentOp \cup HistoryOp \cup SendOp
  /\ request.op \in Checkers =>
       ~IsLookup /\ request.op \notin NeobankOp \cup TokenOp \cup PriceOp \cup PaymentOp \cup HistoryOp \cup SendOp
  /\ request.op \in NeobankOp =>
       ~IsLookup /\ request.op \notin Checkers \cup TokenOp \cup PriceOp \cup PaymentOp \cup HistoryOp \cup SendOp
  /\ request.op \in TokenOp =>
       ~IsLookup /\ request.op \notin Checkers \cup NeobankOp \cup PriceOp \cup PaymentOp \cup HistoryOp \cup SendOp
  /\ request.op \in PriceOp =>
       ~IsLookup /\ request.op \notin Checkers \cup NeobankOp \cup TokenOp \cup PaymentOp \cup HistoryOp \cup SendOp
  /\ request.op \in PaymentOp =>
       ~IsLookup /\ request.op \notin Checkers \cup NeobankOp \cup TokenOp \cup PriceOp \cup HistoryOp \cup SendOp
  /\ request.op \in HistoryOp =>
       ~IsLookup /\ request.op \notin Checkers \cup NeobankOp \cup TokenOp \cup PriceOp \cup PaymentOp \cup SendOp
  /\ request.op \in SendOp =>
       ~IsLookup /\ request.op \notin Checkers \cup NeobankOp \cup TokenOp \cup PriceOp \cup PaymentOp \cup HistoryOp
BY DEF IsLookup, Op, Checkers, NeobankOp, TokenOp, PriceOp, StockOp, MarketOp, Priced, TradeOp, PaymentOp,
       HistoryOp, SendOp

(* A call says nothing of what it is not about, before a step and after. *)
LEMMA NoNeobank ==
  ASSUME UNCHANGED request, request.op \notin NeobankOp
  PROVE  NeobankInv /\ NeobankInv'
BY DEF NeobankInv, CardInv, LedgerInv, Funding, NeobankOp

LEMMA NoPrice ==
  ASSUME UNCHANGED request, request.op \notin PriceOp
  PROVE  PriceInv /\ PriceInv'
BY DEF PriceOp, StockOp, MarketOp, Priced, TradeOp, PriceInv, PriceWorld, StockWorld, SwapWorld,
       PricesHonest, AggregatesHonest, StockPriceBySession, SwapKeepsItsFloor, Replied

LEMMA NoPayment ==
  ASSUME UNCHANGED request, request.op \notin PaymentOp
  PROVE  PaymentInv /\ PaymentInv'
BY DEF PaymentOp, PaymentInv, PaymentWorld, PaidMeansReceived, Replied

LEMMA NoHistory ==
  ASSUME UNCHANGED request, request.op \notin HistoryOp
  PROVE  HistoryInv /\ HistoryInv'
BY DEF HistoryInv

LEMMA NoSending ==
  ASSUME UNCHANGED request, request.op \notin SendOp
  PROVE  SendInv /\ SendInv'
BY DEF SendInv, SendOp

(* Every call starts with its operation's invariant. *)
LEMMA CallStart == Init => CallInv
<1>1. StartIn(StatusCases) => IsLookup
  BY TxStatusAssumption DEF StartIn, IsLookup, Op
<1>2. StartIn(IssuerCases) => request.op \in Checkers
  BY IssuerAssumption DEF StartIn
<1>3. StartIn(NeobankCases) => request.op \in NeobankOp
  BY NeobankAssumption DEF StartIn
<1>4. StartIn(TokenCases) => request.op \in TokenOp
  BY TokensAssumption DEF StartIn
<1>5. StartIn(StockCases) \/ StartIn(MarketCases) \/ StartIn(TradeCases) => request.op \in PriceOp /\ PriceInv
  BY PriceStart
<1>6. StartIn(PaymentCases) => request.op \in PaymentOp /\ PaymentInv
  BY PaymentStart, PaymentsAssumption DEF StartIn, PaymentOp
<1>7. StartIn(ToolCases) => request.op \notin ProvedOp
  BY OperationsAssumption
  DEF StartIn, ProvedOp, Op, Checkers, NeobankOp, TokenOp, PriceOp, StockOp, MarketOp, Priced, TradeOp,
      PaymentOp, HistoryOp, SendOp
<1>8. /\ request.op \notin PriceOp => PriceInv
      /\ request.op \notin PaymentOp => PaymentInv
      /\ request.op \notin NeobankOp => NeobankInv
      /\ request.op \notin HistoryOp => HistoryInv
      /\ request.op \notin SendOp => SendInv
  <2>1. request.op \notin NeobankOp => NeobankInv
    BY DEF NeobankInv, CardInv, LedgerInv, Funding, NeobankOp
  <2>2. QED
    BY <2>1, PriceElsewhere, PaymentElsewhere
    DEF PriceOp, StockOp, MarketOp, TradeOp, PaymentOp, HistoryInv, SendInv, SendOp
<1>9. request.op \notin ProvedOp => CallInv
  BY <1>8 DEF ProvedOp, CallInv, IsLookup
<1>10. CASE StartIn(StatusCases)
  BY <1>1, <1>8, <1>10, OwnOps, StatusStart DEF CallInv
<1>11. CASE StartIn(IssuerCases)
  BY <1>2, <1>8, <1>11, OwnOps, IssuerStart DEF CallInv
<1>12. CASE StartIn(NeobankCases)
  BY <1>3, <1>8, <1>12, OwnOps, NeobankStart, LedgerStart DEF CallInv, NeobankInv
<1>13. CASE StartIn(TokenCases)
  BY <1>4, <1>8, <1>13, OwnOps, TokensStart DEF CallInv
<1>14. CASE StartIn(StockCases) \/ StartIn(MarketCases) \/ StartIn(TradeCases)
  BY <1>5, <1>8, <1>14, OwnOps DEF CallInv
<1>15. CASE StartIn(PaymentCases)
  BY <1>6, <1>8, <1>15, OwnOps DEF CallInv
<1>16. CASE StartIn(HistoryCases)
  <2>1. request.op \in HistoryOp
    BY <1>16, HistoryAssumption DEF StartIn, PagesQuery
  <2>2. QED
    BY <1>8, <1>16, <2>1, OwnOps, HistoryStart DEF CallInv
<1>17. CASE StartIn(SendCases)
  BY <1>8, <1>17, OwnOps, SendStart DEF CallInv
<1>18. QED
  BY <1>7, <1>9, <1>10, <1>11, <1>12, <1>13, <1>14, <1>15, <1>16, <1>17 DEF Init

(* Whoever steps, every call keeps its operation's invariant. *)
LEMMA CallStep == CallInv /\ [Next]_vars => CallInv'
<1> SUFFICES ASSUME CallInv, [Next]_vars PROVE CallInv'
  OBVIOUS
<1>1. CASE UNCHANGED vars
  <2>1. UNCHANGED request /\ (IsLookup' <=> IsLookup)
    BY <1>1 DEF vars, IsLookup
  <2>2. [StatusNext]_vars /\ [IssuerNext]_vars /\ [NeobankNext]_vars /\ [TokensNext]_vars
    BY <1>1
  <2>3. PriceInv'
    <3>1. PriceInv /\ [StockNext \/ MarketNext \/ TradeNext]_vars
      BY <1>1 DEF CallInv
    <3>2. QED
      BY <3>1, PriceStep
  <2>4. PaymentInv'
    <3>1. PaymentInv /\ [VerifyTransfer]_vars
      BY <1>1 DEF CallInv
    <3>2. QED
      BY <3>1, PaymentStep
  <2>5. HistoryInv'
    <3>1. CASE request.op \in HistoryOp
      <4>1. HistoryInv /\ [HistoryNext]_vars
        BY <1>1 DEF CallInv
      <4>2. QED
        BY <3>1, <4>1, HistoryStep
    <3>2. CASE request.op \notin HistoryOp
      BY <2>1, <3>2, NoHistory
    <3>3. QED
      BY <3>1, <3>2
  <2>6. SendInv'
    <3>1. SendInv /\ [SendNext]_vars
      BY <1>1 DEF CallInv
    <3>2. QED
      BY <3>1, SendStep
  <2>7. QED
    BY <2>1, <2>2, <2>3, <2>4, <2>5, <2>6, StatusStep, IssuerStep, NeobankStep, LedgerStep, TokensStep
    DEF CallInv, NeobankInv
<1>2. CASE StatusNext
  <2>1. IsLookup /\ UNCHANGED request /\ (IsLookup' <=> IsLookup)
    BY <1>2, StepsOfOwnOp DEF IsLookup
  <2>2. StatusInv'
    BY <1>2, <2>1, StatusStep DEF CallInv
  <2>3. NeobankInv' /\ PriceInv' /\ PaymentInv' /\ HistoryInv' /\ SendInv'
    BY <2>1, OwnOps, NoNeobank, NoPrice, NoPayment, NoHistory, NoSending
  <2>4. QED
    BY <2>1, <2>2, <2>3, OwnOps DEF CallInv
<1>3. CASE IssuerNext
  <2>1. request.op \in Checkers /\ UNCHANGED request /\ (IsLookup' <=> IsLookup)
    BY <1>3, StepsOfOwnOp DEF IsLookup
  <2>2. IssuerInv'
    BY <1>3, <2>1, IssuerStep DEF CallInv
  <2>3. NeobankInv' /\ PriceInv' /\ PaymentInv' /\ HistoryInv' /\ SendInv'
    BY <2>1, OwnOps, NoNeobank, NoPrice, NoPayment, NoHistory, NoSending
  <2>4. QED
    BY <2>1, <2>2, <2>3, OwnOps DEF CallInv
<1>4. CASE NeobankNext
  <2>1. request.op \in NeobankOp /\ UNCHANGED request /\ (IsLookup' <=> IsLookup)
    BY <1>4, StepsOfOwnOp DEF IsLookup
  <2>2. NeobankInv'
    BY <1>4, NeobankStep, LedgerStep DEF CallInv, NeobankInv
  <2>3. PriceInv' /\ PaymentInv' /\ HistoryInv' /\ SendInv'
    BY <2>1, OwnOps, NoPrice, NoPayment, NoHistory, NoSending
  <2>4. QED
    BY <2>1, <2>2, <2>3, OwnOps DEF CallInv
<1>5. CASE TokensNext
  <2>1. request.op \in TokenOp /\ UNCHANGED request /\ (IsLookup' <=> IsLookup)
    BY <1>5, StepsOfOwnOp DEF IsLookup
  <2>2. TokenAsked' /\ OnlyCanonicalTokens'
    BY <1>5, <2>1, TokensStep DEF CallInv
  <2>3. NeobankInv' /\ PriceInv' /\ PaymentInv' /\ HistoryInv' /\ SendInv'
    BY <2>1, OwnOps, NoNeobank, NoPrice, NoPayment, NoHistory, NoSending
  <2>4. QED
    BY <2>1, <2>2, <2>3, OwnOps DEF CallInv
<1>6. CASE PriceNext
  <2>1. request.op \in PriceOp /\ UNCHANGED request /\ (IsLookup' <=> IsLookup)
    BY <1>6, StepsOfOwnOp DEF IsLookup
  <2>2. PriceInv'
    BY <1>6, PriceStep DEF CallInv, PriceNext
  <2>3. NeobankInv' /\ PaymentInv' /\ HistoryInv' /\ SendInv'
    BY <2>1, OwnOps, NoNeobank, NoPayment, NoHistory, NoSending
  <2>4. QED
    BY <2>1, <2>2, <2>3, OwnOps DEF CallInv
<1>7. CASE VerifyTransfer
  <2>1. request.op \in PaymentOp /\ UNCHANGED request /\ (IsLookup' <=> IsLookup)
    BY <1>7, StepsOfOwnOp DEF IsLookup
  <2>2. PaymentInv'
    BY <1>7, PaymentStep DEF CallInv
  <2>3. NeobankInv' /\ PriceInv' /\ HistoryInv' /\ SendInv'
    BY <2>1, OwnOps, NoNeobank, NoPrice, NoHistory, NoSending
  <2>4. QED
    BY <2>1, <2>2, <2>3, OwnOps DEF CallInv
<1>8. CASE HistoryNext
  <2>1. request.op \in HistoryOp /\ UNCHANGED request /\ (IsLookup' <=> IsLookup)
    BY <1>8, StepsOfOwnOp DEF IsLookup
  <2>2. HistoryInv'
    BY <1>8, <2>1, HistoryStep DEF CallInv
  <2>3. NeobankInv' /\ PriceInv' /\ PaymentInv' /\ SendInv'
    BY <2>1, OwnOps, NoNeobank, NoPrice, NoPayment, NoSending
  <2>4. QED
    BY <2>1, <2>2, <2>3, OwnOps DEF CallInv
<1>9. CASE SendNext
  <2>1. request.op \in SendOp /\ UNCHANGED request /\ (IsLookup' <=> IsLookup)
    BY <1>9, StepsOfOwnOp DEF IsLookup
  <2>2. SendInv'
    BY <1>9, SendStep DEF CallInv
  <2>3. NeobankInv' /\ PriceInv' /\ PaymentInv' /\ HistoryInv'
    BY <2>1, OwnOps, NoNeobank, NoPrice, NoPayment, NoHistory
  <2>4. QED
    BY <2>1, <2>2, <2>3, OwnOps DEF CallInv
<1>10. CASE ToolsNext
  <2>1. request.op \notin ProvedOp /\ UNCHANGED request /\ (IsLookup' <=> IsLookup)
    BY <1>10, StepsOfOtherOps DEF IsLookup
  <2>2. NeobankInv' /\ PriceInv' /\ PaymentInv' /\ HistoryInv' /\ SendInv'
    BY <2>1, NoNeobank, NoPrice, NoPayment, NoHistory, NoSending DEF ProvedOp
  <2>3. QED
    BY <2>1, <2>2 DEF CallInv, ProvedOp, IsLookup
<1>11. QED
  BY <1>1, <1>2, <1>3, <1>4, <1>5, <1>6, <1>7, <1>8, <1>9, <1>10 DEF Next, PriceNext

(* The final verdicts of tx_get and tx_status are never undone, wherever the reads of a lookup
   fall between the blocks, reorganisations and lagging nodes. *)
THEOREM VerdictsStay == Spec => []VerdictIsFinal
<1>1. CallInv => VerdictIsFinal
  BY DEF CallInv, StatusInv, VerdictHolds, VerdictIsFinal, Deep
<1>2. QED
  BY <1>1, CallStart, CallStep, PTL DEF Spec

(* However the chain moves between the reads of a call, a result of an EVM chain says what held,
   all at once, at the block it names; and on Solana what the accounts said at their slot. *)
THEOREM ResultsOfOneBlock == Spec => []ChecksOfOneBlock
<1>1. CallInv => ChecksOfOneBlock
  BY DEF CallInv, IssuerInv, ChecksOfOneBlock, RepliedCheck
<1>2. QED
  BY <1>1, CallStart, CallStep, PTL DEF Spec

(* An all-clear rests on the word of a source that answered, no issuer objects to it, and every
   token that was asked for is in the results or in the errors. *)
THEOREM ClearIsEarned == Spec => []ClearMeansScreened
<1>1. CallInv => ClearMeansScreened
  BY DEF CallInv, IssuerInv, ClearMeansScreened, RepliedCheck
<1>2. QED
  BY <1>1, CallStart, CallStep, PTL DEF Spec

(* What a card is said to be able to spend is what it could at the block reported, whatever the
   chain did between the two reads and in whichever order they came. *)
THEOREM CardVerdictPinned == Spec => []CardVerdictOfOneBlock
<1>1. CallInv => CardVerdictOfOneBlock
  BY DEF CallInv, NeobankInv, CardInv, CardVerdictOfOneBlock
<1>2. QED
  BY <1>1, CallStart, CallStep, PTL DEF Spec

(* The credits of a statement less its debits are what its transfers moved, and its fees are
   those of the transactions that the account signed, each once, except the fees of those that
   only bring it something (OnlyReceives), which the code does not look up. *)
THEOREM StatementsAddUp == Spec => []StatementAddsUp
<1>1. CallInv => StatementAddsUp
  BY DEF CallInv, NeobankInv, LedgerInv, StatementAddsUp, Replied
<1>2. QED
  BY <1>1, CallStart, CallStep, PTL DEF Spec

(* Whoever names a contract is never told of another one, nor asked to pay in one, and nothing
   is canonical that the registry does not have. *)
THEOREM CanonicalOnly == Spec => []OnlyCanonicalTokens
<1>1. CallInv => OnlyCanonicalTokens
  BY DEF CallInv, OnlyCanonicalTokens, TokenOp
<1>2. QED
  BY <1>1, CallStart, CallStep, PTL DEF Spec

(* A price is one its sources gave, or lies between two of them, fresh ones where there are any;
   a known status comes with a price and an unknown one without; and a tokenized stock's price
   ages as of the last half hour its market was open, whatever the calendar. *)
THEOREM PricesAreHonest == Spec => []PricesHonest
<1>1. CallInv => PricesHonest
  BY DEF CallInv, PriceInv
<1>2. QED
  BY <1>1, CallStart, CallStep, PTL DEF Spec

(* The swap that is built keeps the floor and the slippage it was asked for, is no worse than
   any honest quote, and drops no approval that it needs. *)
THEOREM SwapsKeepTheirFloor == Spec => []SwapKeepsItsFloor
<1>1. CallInv => SwapKeepsItsFloor
  BY DEF CallInv, PriceInv
<1>2. QED
  BY <1>1, CallStart, CallStep, PTL DEF Spec

(* payments_verify_transfer says that a transaction has paid only of a success as final as
   asked, and, where the receipt's inflow is the whole change (KeepsInflow), exactly of one that
   changed the recipient's balance of the genuine token by the amount, however many transfers
   and accounts that took. *)
THEOREM PaidIsReceived == Spec => []PaidMeansReceived
<1>1. CallInv => PaidMeansReceived
  BY DEF CallInv, PaymentInv
<1>2. QED
  BY <1>1, CallStart, CallStep, PTL DEF Spec

(* A client that follows the cursors of a history to the end has what it asked for, each
   transfer that was on the chain when it began, once and nothing else, but for what the nodes
   that answered had not seen or did not return and the other exceptions that PagesComplete
   names: every request of a page may be answered by another node. *)
THEOREM PagesLoseNothing == Spec => []PagesComplete
<1>1. CallInv => PagesComplete
  BY DEF CallInv, HistoryInv, Ended, Cut, PagesComplete
<1>2. QED
  BY <1>1, CallStart, CallStep, PTL DEF Spec

(* A transaction that is built does what was asked or nothing, and a ready one does it: the
   message that is compiled reads as its instructions were meant, whatever they share. *)
THEOREM BuiltAsAsked == Spec => []BuiltMovesAsked
<1>1. CallInv => BuiltMovesAsked
  BY DEF CallInv, SendInv, BuiltMovesAsked, Replied
<1>2. QED
  BY <1>1, CallStart, CallStep, PTL DEF Spec
=============================================================================
