------------------------------ MODULE Payments ------------------------------
(***************************************************************************)
(* payments_verify_transfer (src/crates/app/src/ops/payments.rs): has this  *)
(* transaction paid that much of this stablecoin to the recipient?  The     *)
(* world is the transaction: on EVM a receipt with logs, on Solana token    *)
(* transfers between token accounts, whose balances they add to and take    *)
(* from.  A token may keep a fee of what it moves.  The two readers (protocols/src/{evm,solana}/tx.rs) turn it into   *)
(* the same normalized transaction, which CheckPayment judges.              *)
(*                                                                         *)
(* Transfers are numbered by where they are found, in (part of) a list.     *)
(* An owner and an asset have at most one balance change in a transaction   *)
(* (both readers merge their rows), so the changes are a function.  Which   *)
(* vendor is asked, and the quorum by block hash, are in Routing.  Notes,   *)
(* payer and key of the reply are left out.                                 *)
(***************************************************************************)
EXTENDS Request, FiniteSetsExt, Functions

CONSTANTS
  Wallet,     \* owners of tokens
  Shop,       \* the recipient of the payment
  Token,      \* token contracts and mints
  Stable,     \* the canonical one the payment is expected in
  TokenAccount, \* Solana's token accounts
  OwnerOf,    \* [TokenAccount -> Wallet]
  MintOf,     \* [TokenAccount -> Token]
  PaymentCases \* the calls: requests and transactions

Asset == Token \cup {"native"}

Rank == [unverifiable |-> 0, pending |-> 1, confirmed |-> 2, safe |-> 3, finalized |-> 4]
Finality == DOMAIN Rank
AtLeast(f, g) == Rank[f] >= Rank[g]

\* What is in a mined transaction.
Log == [kind : {"erc20", "other"}, asset : Token, from : Wallet, to : Wallet, amount : Nat]
Ix == [source : TokenAccount, destination : TokenAccount, amount : Nat]
Mined(w) ==
  /\ w.ok \in BOOLEAN /\ w.finality \in Finality /\ w.fee \in [Token -> Nat]
  /\ \/ w.family = "evm" /\ w.logs \in Seq(Log) /\ (~w.ok => w.logs = <<>>)
     \/ /\ w.family = "solana" /\ w.hidden \in BOOLEAN /\ w.tip \in Nat
        /\ w.ixs \in Seq(Ix) /\ w.before \in [TokenAccount -> Nat]

ASSUME PaymentsAssumption ==
  /\ Shop \in Wallet /\ Stable \in Token /\ "native" \notin Token
  /\ IsFiniteSet(TokenAccount)
  /\ OwnerOf \in [TokenAccount -> Wallet] /\ MintOf \in [TokenAccount -> Token]
  /\ \A c \in PaymentCases :
       /\ c.request.op = "payments_verify_transfer"
       /\ c.request.amount \in Nat /\ c.request.floor \in {"confirmed", "safe", "finalized"}
       /\ c.world.seen = "mined" => Mined(c.world)

Positive(n) == IF n > 0 THEN n ELSE 0

\* A normalized transaction before anything is known of its effects.
Unsettled(status) ==
  [status |-> status, finality |-> "pending", transfers |-> <<>>, delta |-> <<>>]
NoDelta == [before |-> 0, after |-> 0, withheld |-> 0, scaled |-> TRUE]
Delta(tx, owner, asset) ==
  IF <<owner, asset>> \in DOMAIN tx.delta THEN tx.delta[<<owner, asset>>] ELSE NoDelta
Received(d) == Positive(d.after - d.before)

-----------------------------------------------------------------------------
(***************************************************************************)
(* EVM: a log is an ERC-20 transfer, or something that looks like one (four *)
(* topics, removed, malformed).  scale[t]: whether the contract answers     *)
(* decimals(), and as the registry says.                                    *)
(***************************************************************************)
Decoded(w) ==
  [i \in {j \in DOMAIN w.logs : w.logs[j].kind = "erc20" /\ w.scale[w.logs[j].asset] # "unanswered"} |->
     w.logs[i]]

\* Mutant: a further transfer replaces what was added up.
MutantLastInflow(transfers, owner, asset) ==
  LET found == {j \in DOMAIN transfers : transfers[j].to = owner /\ transfers[j].asset = asset}
  IN IF found = {} THEN 0 ELSE transfers[CHOOSE j \in found : \A k \in found : k <= j].amount

\* All that was sent to the owner; what the owner sent on is not taken off.
Inflow(transfers, owner, asset) ==
  SumFunction([i \in {j \in DOMAIN transfers : transfers[j].to = owner /\ transfers[j].asset = asset} |->
                 transfers[i].amount])

RecipientDeltas(w, transfers) ==
  [key \in {<<transfers[i].to, transfers[i].asset>> : i \in DOMAIN transfers} |->
     [before |-> 0, after |-> Inflow(transfers, key[1], key[2]), withheld |-> 0,
      scaled |-> w.scale[key[2]] = "registry"]]

EvmTx(w) ==
  IF w.seen # "mined" THEN Unsettled("pending")
  ELSE [status |-> IF w.ok THEN "success" ELSE "failed", finality |-> w.finality,
        transfers |-> Decoded(w), delta |-> RecipientDeltas(w, Decoded(w))]

-----------------------------------------------------------------------------
(***************************************************************************)
(* Solana: transfers between token accounts; the node's meta has every      *)
(* account's balance before and after.  A Token-2022 mint may withhold fee  *)
(* of a transfer at its destination.                                        *)
(***************************************************************************)
\* The truth: a balance after the transfers.
Balance(w, account) ==
  w.before[account]
  + SumFunction([i \in DOMAIN w.ixs |->
                   (IF w.ixs[i].destination = account THEN w.ixs[i].amount - w.fee[MintOf[account]] ELSE 0)
                   - (IF w.ixs[i].source = account THEN w.ixs[i].amount ELSE 0)])

Post(w, account) == IF w.ok THEN Balance(w, account) ELSE w.before[account]

AccountsOf(owner, mint) == {a \in TokenAccount : OwnerOf[a] = owner /\ MintOf[a] = mint}

\* The gross amount an account was sent, less what it grew by: only if it sent nothing itself.
Withheld(w, account) ==
  IF w.fee[MintOf[account]] = 0 \/ \E i \in DOMAIN w.ixs : w.ixs[i].source = account THEN 0
  ELSE Positive(
         SumFunction([i \in {j \in DOMAIN w.ixs : w.ixs[j].destination = account} |-> w.ixs[i].amount])
         - Positive(Post(w, account) - w.before[account]))

TokenDelta(w, owner, mint) ==
  LET A == AccountsOf(owner, mint) IN
  [before |-> SumFunction([a \in A |-> w.before[a]]), after |-> SumFunction([a \in A |-> Post(w, a)]),
   withheld |-> SumFunction([a \in A |-> Withheld(w, a)]), scaled |-> TRUE]

BalanceDeltas(w) ==
  LET token(k) == TokenDelta(w, k[1], k[2])
      touched == {k \in Wallet \X Token :
                    token(k).before # token(k).after \/ token(k).withheld # 0}
      native == IF w.tip > 0 THEN {<<Shop, "native">>} ELSE {}
  IN [k \in touched \cup native |->
        IF k[2] = "native" THEN [NoDelta EXCEPT !.after = w.tip] ELSE token(k)]

\* The transfers of the instructions, by owner: failed transactions list them too.
Instructed(w) ==
  [i \in DOMAIN w.ixs |->
     [asset |-> MintOf[w.ixs[i].destination], to |-> OwnerOf[w.ixs[i].destination],
      amount |-> w.ixs[i].amount]]

SolanaTx(w) ==
  IF w.seen # "mined" THEN Unsettled("pending")
  ELSE [status |-> IF w.ok THEN "success" ELSE "failed",
        finality |-> IF w.hidden THEN "unverifiable" ELSE w.finality,
        transfers |-> Instructed(w), delta |-> BalanceDeltas(w)]

Normalized(w) == IF w.family = "evm" THEN EvmTx(w) ELSE SolanaTx(w)

-----------------------------------------------------------------------------
(***************************************************************************)
(* check_payment.                                                           *)
(***************************************************************************)
Others(tx) ==
  {a \in Asset \ {Stable} :
     \/ Received(Delta(tx, Shop, a)) > 0
     \/ \E i \in DOMAIN tx.transfers : tx.transfers[i].to = Shop /\ tx.transfers[i].asset = a
                                       /\ tx.transfers[i].amount > 0}

Matched(tx) ==
  \E i \in DOMAIN tx.transfers : tx.transfers[i].to = Shop /\ tx.transfers[i].asset = Stable

Compared(net, amount, finality) ==
  CASE net < amount -> "underpaid"
    [] net > amount -> "overpaid"
    [] net = amount -> IF finality = "finalized" THEN "finalized" ELSE "confirmed"

Net(tx) == LET d == Delta(tx, Shop, Stable) IN IF d.scaled THEN Received(d) ELSE 0

Status(e, tx) ==
  IF tx.status = "failed" THEN "failed"
  ELSE IF tx.finality = "unverifiable" THEN "unverifiable"
  ELSE IF tx.status = "pending" \/ ~AtLeast(tx.finality, e.floor) THEN "pending"
  ELSE IF ~Delta(tx, Shop, Stable).scaled THEN "unverifiable"
  ELSE IF <<Shop, Stable>> \notin DOMAIN tx.delta /\ Matched(tx) THEN "unverifiable"
  ELSE IF Net(tx) = 0 /\ Others(tx) # {} THEN "wrong_token"
  ELSE Compared(Net(tx), e.amount, tx.finality)

CheckPayment(e, tx) ==
  [status |-> Status(e, tx), received |-> Net(tx), finality |-> tx.finality,
   meets |-> AtLeast(tx.finality, e.floor), others |-> Others(tx)]

\* An amount of zero is refused before anything is looked up; two vendors that know
\* nothing of the transaction make it NotFound.
VerifyTransfer ==
  Conclude("payments_verify_transfer",
    IF request.amount = 0 THEN Refuse("InvalidInput")
    ELSE IF world.seen = "nowhere" THEN Refuse("NotFound")
    ELSE Reply(CheckPayment(request, Normalized(world))))

-----------------------------------------------------------------------------
(***************************************************************************)
(* Properties.                                                              *)
(***************************************************************************)
\* What a log did to the shop's balance of the expected token.
Moved(w, log) ==
  IF log.kind # "erc20" \/ log.asset # Stable THEN 0
  ELSE (IF log.to = Shop THEN Positive(log.amount - w.fee[Stable]) ELSE 0)
       - (IF log.from = Shop THEN log.amount ELSE 0)

\* By how much that balance changed, as the chain has it.
BalanceChange(w) ==
  IF w.family = "evm" THEN SumFunction([i \in DOMAIN w.logs |-> Moved(w, w.logs[i])])
  ELSE SumFunction([a \in AccountsOf(Shop, Stable) |-> Post(w, a) - w.before[a]])

\* The chain shows the amount: it is not hidden, and the contract answers as registered.
Provable(w) == IF w.family = "evm" THEN w.scale[Stable] = "registry" ELSE ~w.hidden

\* A receipt lists what was sent, not what it did to the balances: the two are the same if the
\* shop sends nothing of the token in that transaction and the token keeps no fee.
KeepsInflow(w) ==
  w.family = "evm" =>
    /\ w.fee[Stable] = 0
    /\ \A i \in DOMAIN w.logs :
         w.logs[i].kind = "erc20" /\ w.logs[i].asset = Stable => w.logs[i].from # Shop

(* "Only confirmed / finalized mean paid" (payments_verify_transfer), and whoever has paid
   is told so: the two statuses are given only to a success that is as final as asked, and,
   where KeepsInflow, exactly if it changed the recipient's balance of the genuine token by the
   amount, whatever else it moves, however many transfers and token accounts that took, and
   whatever fee was withheld; net_received is then that change. *)
PaidMeansReceived ==
  Replied("payments_verify_transfer") =>
    LET w == world
        paid == answer.out.status \in {"confirmed", "finalized"}
        shown == w.seen = "mined" /\ w.ok /\ Provable(w)
    IN
    /\ paid => shown /\ AtLeast(w.finality, request.floor)
    /\ shown /\ KeepsInflow(w) =>
         /\ answer.out.received = Positive(BalanceChange(w))
         /\ paid <=> AtLeast(w.finality, request.floor) /\ BalanceChange(w) = request.amount
    /\ paid => (answer.out.status = "finalized") = (w.finality = "finalized")

(* "Net balance increase of the recipient in the expected token (0 if none)" (net_received of
   PaymentCheck), without KeepsInflow.  The EVM reader does not keep this: see the run net. *)
NetIsBalanceChange ==
  Replied("payments_verify_transfer") =>
    \/ world.seen # "mined" \/ ~world.ok \/ ~Provable(world)
    \/ answer.out.received = Positive(BalanceChange(world))
=============================================================================
