------------------------------ MODULE Neobank -------------------------------
(***************************************************************************)
(* src/crates/app/src/ops/neobank.rs: may the issuer of a card pull an      *)
(* amount right now (over a chain that moves between the reads), what is    *)
(* the statement of an account, and at what rate are two currencies         *)
(* exchanged.                                                               *)
(***************************************************************************)
EXTENDS Snapshots, SequencesExt, FiniteSetsExt, Functions

CONSTANTS
  CardStates,   \* bound: the states the chain may move to while a card is checked
  NeobankCases  \* the calls

NeobankOp == {"neobank_card_funding_status", "neobank_get_ledger", "fiat_get_fx_rate"}
CardState ==
  [balance : Nat, approved : Nat, account : {"open", "none", "frozen"},
   delegate : {"spender", "other", "none"}]

\* What a statement is made of: the account's own transfers, and the fees of their transactions.
Statement(w) ==
  /\ w.transfers \in Seq([tx : DOMAIN w.txs, from : {"me", "other"}, to : {"me", "other"},
                          amount : Nat, asset : {"stable", "coin"}, timed : BOOLEAN])
  /\ \A t \in ToSet(w.transfers) : "me" \in {t.from, t.to}
  /\ \A tx \in DOMAIN w.txs : w.txs[tx].fee \in Nat

ASSUME NeobankAssumption ==
  /\ StateLag \in Nat /\ MaxStates \in Nat
  /\ CardStates \subseteq CardState
  /\ \A c \in NeobankCases :
       /\ c.request.op \in NeobankOp
       /\ c.request.op = "neobank_card_funding_status" =>
            /\ c.request.token \in {"erc20", "spl", "other"} /\ c.request.amount \in Nat
            /\ "states" \in DOMAIN c.world /\ c.world.states \in Seq(CardState)
       /\ c.request.op = "neobank_get_ledger" => c.request.fees \in BOOLEAN /\ Statement(c.world)

-----------------------------------------------------------------------------
(***************************************************************************)
(* neobank_card_funding_status.  A state has the balance and what the card  *)
(* issuer's spender may pull; on Solana whether the token account is there  *)
(* or frozen, and whose delegate it has.                                    *)
(***************************************************************************)
Funding == request.op = "neobank_card_funding_status"
CardReading == Funding /\ answer.at \in {"card block", "card reads", "card mint", "card account"}

Smaller(a, b) == IF a < b THEN a ELSE b
Larger(a, b) == IF a > b THEN a ELSE b

NoReads == [balance |-> 0, approved |-> 0, frozen |-> FALSE, absent |-> FALSE, mismatch |-> FALSE]

\* No amount is asked for as 0: any amount will do.
Needed == Larger(request.amount, 1)

Reasons(r) ==
  IF r.absent THEN {"no_token_account"}
  ELSE (IF r.frozen THEN {"account_frozen"} ELSE {})
       \cup (IF r.mismatch THEN {"delegate_mismatch"}
             ELSE IF r.approved = 0 THEN {"no_approval"}
             ELSE IF r.approved < Needed THEN {"insufficient_approval"} ELSE {})
       \cup (IF r.balance < Needed THEN {"insufficient_balance"} ELSE {})

FundingVerdict(r, block) ==
  Reply([spendable |-> IF r.absent \/ r.frozen THEN 0 ELSE Smaller(r.balance, r.approved),
         reasons |-> Reasons(r), authorized |-> Reasons(r) = {}, block |-> block])

CardFunding ==
  /\ Funding /\ answer = Asked
  /\ ReadOn(CASE request.token = "other" -> Refuse("InvalidInput")
              [] request.token = "erc20" -> [at |-> "card block"]
              [] request.token = "spl" -> [at |-> "card mint"])

\* EVM: the block, then balance and allowance of that block, in either order.
\* Mutant: the two reads name the latest block.
MutantCardLatest(b) == Recent
CardBlock(b) == {b}

PinCard ==
  /\ CardReading /\ answer.at = "card block"
  /\ \E b \in Recent :
       ReadOn([at |-> "card reads", block |-> b, left |-> {"balance", "approved"}, reads |-> NoReads])

CardRead ==
  /\ CardReading /\ answer.at = "card reads"
  /\ \E what \in answer.left, b \in CardBlock(answer.block) :
       LET reads == [answer.reads EXCEPT ![what] = world.states[b][what]] IN
       ReadOn(IF answer.left = {what} THEN FundingVerdict(reads, answer.block)
              ELSE [answer EXCEPT !.left = @ \ {what}, !.reads = reads])

\* Solana: the mint, whose decimals do not change, then the associated token account.
CardMint == CardReading /\ answer.at = "card mint" /\ ReadOn([at |-> "card account"])

CardAccount ==
  /\ CardReading /\ answer.at = "card account"
  /\ \E b \in Recent :
       LET s == world.states[b] IN
       ReadOn(FundingVerdict(
         IF s.account = "none" THEN [NoReads EXCEPT !.absent = TRUE]
         ELSE [NoReads EXCEPT !.balance = s.balance, !.frozen = s.account = "frozen",
                              !.approved = IF s.delegate = "spender" THEN s.approved ELSE 0,
                              !.mismatch = s.delegate = "other"], b))

CardFails == CardReading /\ \E e \in ProviderError : ReadOn(Refuse(CodeOf(e)))

CardActs == CardReading /\ Advance(CardStates)

-----------------------------------------------------------------------------
(***************************************************************************)
(* neobank_get_ledger: a row for each transfer of the page (History has the *)
(* paging).  world.transfers has who sent what to whom; world.txs[t] what a *)
(* lookup of the transaction gives, world.priced the assets with a price in *)
(* the past.  A fee or a value is a set of at most one: {} is unknown, not  *)
(* zero.                                                                    *)
(***************************************************************************)
DirectionOf(t) ==
  IF t.to = "me" THEN IF t.from = "me" THEN "self" ELSE "credit"
  ELSE IF t.from = "me" THEN "debit" ELSE "credit"

ParOf(t) == IF t.timed /\ t.asset = "stable" THEN {t.amount} ELSE {}
MarketOf(t) == IF t.timed /\ t.asset \in world.priced THEN {t.amount} ELSE {}

\* Only the transactions with something going out are looked up.
LookedUp == {t.tx : t \in {u \in ToSet(world.transfers) : DirectionOf(u) # "credit"}}
FeeOf(tx) ==
  IF request.fees /\ tx \in LookedUp /\ world.txs[tx].found /\ world.txs[tx].from = "me"
  THEN {world.txs[tx].fee} ELSE {}

\* Mutant: every row of the transaction has the fee.
MutantEveryRow(i) == TRUE
FirstOfTx(i) == \A j \in 1..(i - 1) : world.transfers[j].tx # world.transfers[i].tx

LedgerRow(i) ==
  LET t == world.transfers[i] IN
  [tx |-> t.tx, direction |-> DirectionOf(t), amount |-> t.amount, par |-> ParOf(t),
   market |-> MarketOf(t), fee |-> IF FirstOfTx(i) THEN FeeOf(t.tx) ELSE {}]

GetLedger ==
  \/ Conclude("neobank_get_ledger", Reply([rows |-> [i \in DOMAIN world.transfers |-> LedgerRow(i)]]))
  \/ \E e \in ProviderError : Conclude("neobank_get_ledger", Refuse(CodeOf(e)))

-----------------------------------------------------------------------------
(***************************************************************************)
(* fiat_get_fx_rate: the last business day's rate at or before the date;    *)
(* days are numbered, world.today is the present one, 0 asks for the latest. *)
(***************************************************************************)
Labelled(businessDay, date) ==
  [day |-> businessDay, requested |-> date = 0 \/ date = businessDay]

\* What an answering vendor takes for the date (external): the last fixing.
LastFixing(date) ==
  Max({d \in world.fixings : d <= (IF date = 0 THEN world.today ELSE date)} \cup {0})

FxRate ==
  LET date == request.date IN
  \/ Conclude("fiat_get_fx_rate",
       IF date # 0 /\ date > world.today THEN Refuse("InvalidInput")
       ELSE IF request.base = request.quote
       THEN Reply(Labelled(IF date = 0 THEN world.today ELSE date, date))
       ELSE IF LastFixing(date) = 0 THEN Refuse("NotFound")
       ELSE Reply(Labelled(LastFixing(date), date)))
  \/ request.op = "fiat_get_fx_rate" /\ request.base # request.quote
       /\ \E e \in ProviderError : Conclude("fiat_get_fx_rate", Refuse(CodeOf(e)))

NeobankNext ==
  \/ CardFunding \/ PinCard \/ CardRead \/ CardMint \/ CardAccount \/ CardFails \/ CardActs
  \/ GetLedger \/ FxRate

-----------------------------------------------------------------------------
(***************************************************************************)
(* Properties.                                                              *)
(***************************************************************************)
\* What the card issuer could pull in a state.
Pullable(s) ==
  IF request.token = "erc20" THEN Smaller(s.balance, s.approved)
  ELSE IF s.account = "open" /\ s.delegate = "spender" THEN Smaller(s.balance, s.approved) ELSE 0

(* "What the issuer can pull right now: min(balance, approved)", "pinned to one block"
   (CardFundingOut): the amount said to be spendable is what could be pulled at the block
   reported (on Solana, at the slot of the one account that is read), not a balance of one block next to an approval of another, and the
   authorization is said to go through exactly when that covers it. *)
CardVerdictOfOneBlock ==
  Funding /\ answer.at = "replied" =>
    LET able == Pullable(world.states[answer.out.block]) IN
    /\ answer.out.spendable = able
    /\ answer.out.authorized <=> able >= Needed

\* A transaction that, on this page, only brings the account something.
OnlyReceives(tx) ==
  \A t \in ToSet(world.transfers) : t.tx = tx => t.to = "me" /\ t.from # "me"

(* "Network fee paid by the account, on the first row of its transaction" (LedgerRow): a
   statement adds up.  Its credits less its debits are what the transfers moved, and its fees
   are those of the transactions of the page that the account signed, each once, however many
   rows a transaction has, with one exception: the fee of a transaction that OnlyReceives (a
   claim, a withdrawal) is not looked up, although the account has paid it. *)
StatementAddsUp ==
  Replied("neobank_get_ledger") =>
    LET rows == answer.out.rows
        amount(i) == IF rows[i].direction = "credit" THEN rows[i].amount
                     ELSE IF rows[i].direction = "debit" THEN -rows[i].amount ELSE 0
        moved(i) == LET t == world.transfers[i] IN
                    (IF t.to = "me" THEN t.amount ELSE 0) - (IF t.from = "me" THEN t.amount ELSE 0)
        fee(i) == SumFunction([n \in rows[i].fee |-> n])
        own == {tx \in DOMAIN world.txs :
                  /\ \E i \in DOMAIN rows : rows[i].tx = tx
                  /\ world.txs[tx].found /\ world.txs[tx].from = "me"
                  /\ ~OnlyReceives(tx)}
    IN /\ SumFunction([i \in DOMAIN rows |-> amount(i)])
            = SumFunction([i \in DOMAIN world.transfers |-> moved(i)])
       /\ SumFunction([i \in DOMAIN rows |-> fee(i)])
            = IF request.fees THEN SumFunction([tx \in own |-> world.txs[tx].fee]) ELSE 0
=============================================================================
