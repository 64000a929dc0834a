------------------------------- MODULE Sending -------------------------------
(***************************************************************************)
(* tx_build_transfer and tx_broadcast (src/crates/app/src/ops/tx.rs), with  *)
(* the wire format of Solana's messages on both sides: compile_message      *)
(* writes it, the runtime and decode_message (protocols/src/solana/tx.rs)   *)
(* read it.  An instruction stands for its data.                            *)
(***************************************************************************)
EXTENDS Request, SequencesExt

CONSTANTS
  MaxU64,      \* the largest amount of an SPL or SOL transfer
  PlainGas,    \* what a plain transfer costs
  SendCases    \* the calls

AtaOf == [from |-> "fromAccount", to |-> "toAccount"]

SendOp == {"tx_build_transfer", "tx_broadcast"}
\* A transfer that may be asked for, and the chain it is asked of.
TransferQuery(r, w) ==
  /\ r.family \in {"evm", "solana"} /\ r.to \in DOMAIN AtaOf
  /\ r.amount \in Nat /\ w.funds \in Nat

ASSUME SendAssumption ==
  \A c \in SendCases :
    /\ c.request.op \in SendOp
    /\ c.request.op = "tx_build_transfer" => TransferQuery(c.request, c.world)

-----------------------------------------------------------------------------
(***************************************************************************)
(* A legacy Solana message.                                                 *)
(***************************************************************************)
Meta(key, signer, writable) == [key |-> key, signer |-> signer, writable |-> writable]

\* Every account an instruction names, the payer before and each program after its own.
MetasOf(payer, ixs) ==
  <<Meta(payer, TRUE, TRUE)>>
  \o FlattenSeq([i \in DOMAIN ixs |-> Append(ixs[i].accounts, Meta(ixs[i].program, FALSE, FALSE))])

\* One entry per key, where it is first used, with the permissions of all its uses.
Merged(metas) ==
  LET uses(key) == {j \in DOMAIN metas : metas[j].key = key}
  IN [i \in {i \in DOMAIN metas : \A j \in 1..(i - 1) : metas[j].key # metas[i].key} |->
        Meta(metas[i].key, \E j \in uses(metas[i].key) : metas[j].signer,
                           \E j \in uses(metas[i].key) : metas[j].writable)]

\* Writable signers, read-only signers, writable, read-only; each in the order of first use,
\* so the payer stays first.
Class(m) == IF m.signer THEN (IF m.writable THEN 1 ELSE 2) ELSE IF m.writable THEN 3 ELSE 4
Place(entries, i) ==
  Cardinality({j \in DOMAIN entries : \/ Class(entries[j]) < Class(entries[i])
                                      \/ Class(entries[j]) = Class(entries[i]) /\ j <= i})
Sorted(entries) ==
  [n \in 1..Cardinality(DOMAIN entries) |-> entries[CHOOSE i \in DOMAIN entries : Place(entries, i) = n]]

CompileMessage(payer, ixs) ==
  LET keys == Sorted(Merged(MetasOf(payer, ixs)))
      index(key) == CHOOSE i \in DOMAIN keys : keys[i].key = key
  IN [signed |-> Cardinality({i \in DOMAIN keys : keys[i].signer}),
      readonlySigned |-> Cardinality({i \in DOMAIN keys : keys[i].signer /\ ~keys[i].writable}),
      readonlyUnsigned |-> Cardinality({i \in DOMAIN keys : ~keys[i].signer /\ ~keys[i].writable}),
      keys |-> [i \in DOMAIN keys |-> keys[i].key],
      ixs |-> [i \in DOMAIN ixs |->
                 [program |-> index(ixs[i].program),
                  accounts |-> [n \in DOMAIN ixs[i].accounts |-> index(ixs[i].accounts[n].key)],
                  data |-> ixs[i].data]]]

\* What the header says of the key at a position.
Signs(m, i) == i <= m.signed
Writes(m, i) ==
  IF Signs(m, i) THEN i <= m.signed - m.readonlySigned
  ELSE i <= Len(m.keys) - m.readonlyUnsigned

-----------------------------------------------------------------------------
(***************************************************************************)
(* The instructions of a transfer, and what the chain makes of a message.   *)
(***************************************************************************)
MemoIx == [program |-> "memo", accounts |-> <<>>, data |-> [kind |-> "memo"]]

SolTransferIx(from, to, amount) ==
  [program |-> "system",
   accounts |-> <<Meta(from, TRUE, TRUE), Meta(to, FALSE, TRUE)>>,
   data |-> [kind |-> "system transfer", amount |-> amount]]

CreateAccountIx(from, to) ==
  [program |-> "associated token",
   accounts |-> <<Meta(from, TRUE, TRUE), Meta(AtaOf[to], FALSE, TRUE), Meta(to, FALSE, FALSE),
                  Meta("mint", FALSE, FALSE), Meta("system", FALSE, FALSE),
                  Meta("token", FALSE, FALSE)>>,
   data |-> [kind |-> "create"]]

TokenTransferIx(from, to, amount) ==
  [program |-> "token",
   accounts |-> <<Meta(AtaOf[from], FALSE, TRUE), Meta("mint", FALSE, FALSE),
                  Meta(AtaOf[to], FALSE, TRUE), Meta(from, TRUE, FALSE)>>,
   data |-> [kind |-> "token transfer", amount |-> amount]]

\* The runtime: an instruction that lacks a permission or an account fails the whole message.
KeyAt(m, ix, n) == m.keys[ix.accounts[n]]
Permitted(m, ix) ==
  LET signs(n) == Signs(m, ix.accounts[n])  writes(n) == Writes(m, ix.accounts[n]) IN
  CASE ix.data.kind = "memo" -> TRUE
    [] ix.data.kind = "create" -> signs(1) /\ writes(1) /\ writes(2)
    [] ix.data.kind = "system transfer" -> signs(1) /\ writes(1) /\ writes(2)
    [] ix.data.kind = "token transfer" -> writes(1) /\ writes(3) /\ signs(4)
HasAccount(m, w, key) ==
  \/ key = "fromAccount" \/ (key = "toAccount" /\ w.account)
  \/ \E i \in DOMAIN m.ixs : m.ixs[i].data.kind = "create" /\ KeyAt(m, m.ixs[i], 2) = key
Moves(m, w, ix) ==
  CASE ix.data.kind = "system transfer" ->
         {[asset |-> "native", from |-> KeyAt(m, ix, 1), to |-> KeyAt(m, ix, 2),
           amount |-> ix.data.amount]}
    [] ix.data.kind = "token transfer" ->
         {[asset |-> "token", from |-> KeyAt(m, ix, 1), to |-> KeyAt(m, ix, 3),
           amount |-> ix.data.amount]}
    [] OTHER -> {}
SolanaEffect(m, w) ==
  LET moved == UNION {Moves(m, w, m.ixs[i]) : i \in DOMAIN m.ixs} IN
  IF /\ Signs(m, 1) /\ Writes(m, 1) /\ m.keys[1] = "from"
     /\ m.signed = 1
     /\ \A i \in DOMAIN m.ixs : Permitted(m, m.ixs[i])
     /\ \A t \in moved : t.amount <= w.funds /\ (t.asset = "token" => HasAccount(m, w, t.to))
  THEN moved ELSE {}

-----------------------------------------------------------------------------
(***************************************************************************)
(* tx_build_transfer.                                                       *)
(***************************************************************************)
\* Mutant: the instruction that creates the account comes without the account it is for.
MutantNoCreation(r, w) ==
  IF r.asset = "native" THEN <<MemoIx, SolTransferIx("from", r.to, r.amount)>>
  ELSE <<MemoIx, TokenTransferIx("from", r.to, r.amount)>>
Instructions(r, w) ==
  LET memo == IF r.memo = "none" THEN <<>> ELSE <<MemoIx>>
      create == IF r.asset = "native" \/ r.to = "from" \/ w.account THEN <<>>
                ELSE <<CreateAccountIx("from", r.to)>>
      transfer == IF r.asset = "native" THEN SolTransferIx("from", r.to, r.amount)
                  ELSE TokenTransferIx("from", r.to, r.amount)
  IN create \o memo \o <<transfer>>

Missing(r, w) == r.asset # "native" /\ r.to # "from" /\ ~w.account
Refused(r, w) ==
  \/ r.asset = "of the other family" \/ r.amount = 0
  \/ /\ r.family = "solana"
     /\ \/ w.recipient = "token account" \/ r.memo = "too long" \/ r.amount > MaxU64
        \/ Missing(r, w) /\ ~r.create

EvmTransfer(r, w) ==
  [target |-> IF r.asset = "native" THEN r.to ELSE "contract",
   value |-> IF r.asset = "native" THEN r.amount ELSE 0,
   data |-> IF r.asset = "native" THEN [call |-> "none"]
            ELSE [call |-> "transfer", to |-> r.to, amount |-> r.amount],
   gas |-> CASE w.gas = 0 -> 0
             [] w.gas = PlainGas -> w.gas
             [] w.gas \notin {0, PlainGas} -> w.gas + w.gas \div 5]
EvmEffect(tx, w) ==
  LET moved == IF tx.data.call = "none"
               THEN [asset |-> "native", from |-> "from", to |-> tx.target, amount |-> tx.value]
               ELSE [asset |-> "token", from |-> "from", to |-> tx.data.to, amount |-> tx.data.amount]
  IN IF moved.amount <= w.funds THEN {moved} ELSE {}

Built(r, w) ==
  IF r.family = "evm" THEN EvmTransfer(r, w) ELSE CompileMessage("from", Instructions(r, w))
Effect(r, w) ==
  IF r.family = "evm" THEN EvmEffect(Built(r, w), w) ELSE SolanaEffect(Built(r, w), w)

\* The simulator's methods in turn: an unsupported or failing one gives way to the next, a
\* spent limit ends it.  Solana has one method.
Simulated(r, w) ==
  LET tried == IF r.family = "evm" THEN w.methods ELSE SubSeq(w.methods, 1, 1)
      n == SelectInSeq(tried, LAMBDA m : m # "unavailable")
  IN IF n = 0 \/ tried[n] = "limited" THEN "none"
     ELSE IF Effect(r, w) # {} THEN "success" ELSE "failure"

\* The gas estimate and the fee are extras; the other reads are needed.
BuildTransfer ==
  Conclude("tx_build_transfer",
    IF Refused(request, world) THEN Refuse("InvalidInput")
    ELSE IF ~world.readable THEN Refuse("AllProvidersFailed")
    ELSE Reply([tx |-> Built(request, world), simulated |-> Simulated(request, world),
                creates |-> request.family = "solana" /\ Missing(request, world),
                ready |-> Simulated(request, world) = "success"]))

-----------------------------------------------------------------------------
(***************************************************************************)
(* tx_broadcast.  A relay takes a transaction only with its tip.            *)
(***************************************************************************)
Tip(ixs, accounts) ==
  FoldSeq(+, 0, [i \in DOMAIN ixs |-> IF ixs[i].to \in accounts THEN ixs[i].lamports ELSE 0])
TipAccepted(r, vendor) ==
  vendor.tipped => Tip(r.ixs, {"tip account"}) >= vendor.minTip

Broadcast ==
  /\ request.op = "tx_broadcast" /\ answer = Asked
  /\ LET asked == {v \in world.vendors : v.relay = request.private}
         took == {v \in asked : v.alive /\ TipAccepted(request, v)}
     IN IF request.payload # "signed"
        THEN answer' = Refuse("InvalidInput") /\ UNCHANGED world
        ELSE IF asked = {}
        THEN answer' = Refuse("UnsupportedCapability") /\ UNCHANGED world
        ELSE /\ world' = [world EXCEPT !.sent = asked]
             /\ answer' = IF took = {} THEN Refuse("AllProvidersFailed")
                          ELSE Reply([accepted |-> took, rejected |-> asked \ took,
                                      mismatch |-> {v \in took : v.hash # "local"}])
  /\ UNCHANGED request

SendNext == BuildTransfer \/ Broadcast
-----------------------------------------------------------------------------
(***************************************************************************)
(* Properties.                                                              *)
(***************************************************************************)
(* A transaction that is built does what was asked or nothing, and a ready one does it: read
   by the chain, the compiled message moves the exact amount of the asset from the sender's
   account to the recipient's own account, with each permission it needs and the sender as
   the only signer, whatever the instructions share (a sender who pays itself, an account
   that is created first, a memo). *)
BuiltMovesAsked ==
  Replied("tx_build_transfer") =>
    LET r == request
        account(k) == IF r.family = "evm" \/ r.asset = "native" THEN k ELSE AtaOf[k]
        asked == [asset |-> IF r.asset = "native" THEN "native" ELSE "token",
                  from |-> account("from"), to |-> account(r.to), amount |-> r.amount]
    IN /\ Effect(r, world) \subseteq {asked}
       /\ world.funds >= r.amount => Effect(r, world) = {asked}
       /\ answer.out.ready => Effect(r, world) = {asked}
=============================================================================
