------------------------------ MODULE History -------------------------------
(***************************************************************************)
(* A client walks through an address's transfers page by page               *)
(* (wallet_get_transfers, and payments_list_deposits for one address): the  *)
(* readers of protocols/src/evm/logs.rs and solana/rpc_vendor.rs, and the   *)
(* cursors that ops/wallet.rs ties to the vendor.  The chain grows between  *)
(* the pages, and every request of a page may be answered by another node,  *)
(* some of which lag.                                                       *)
(*                                                                         *)
(* world.blocks[b] lists what happens in block b.  On Solana it is one      *)
(* transaction: the code orders those of one slot by signature and the node *)
(* by their index, so a page that ends inside a slot may lose some.         *)
(* The wallet has the same token accounts throughout: the code asks for     *)
(* those that are open now, and not for one that has been closed.           *)
(***************************************************************************)
EXTENDS Request, SequencesExt, FiniteSetsExt

CONSTANTS
  MaxCalls,     \* MAX_CALLS: requests for logs in one page
  DefaultChunk, \* DEFAULT_CHUNK: blocks in a request when the vendor's limit is unknown
  HistoryLag,   \* how far behind a node may be
  MaxBlocks,    \* bound: the height at which the chain of an instance stops
  Grown,        \* bound: what the blocks that are added may hold
  HistoryCases  \* the calls

\* in, out and self are transfers of a token asked for, seen from the address; fake is a
\* transfer to it of another token, failed a transaction without effect.
Kind == {"in", "out", "self", "fake", "failed"}

Directed(direction) ==
  CASE direction = "in" -> {"in", "self", "fake"}
    [] direction = "out" -> {"out", "self"}
    [] direction = "both" -> {"in", "out", "self", "fake"}

\* What may be asked, and the chain that is asked about.
HistoryOp == {"payments_list_deposits", "wallet_get_transfers"}
PagesQuery(r) ==
  /\ r.op \in HistoryOp
  /\ r.from \in Nat \ {0} /\ r.to \in Nat /\ r.limit \in Nat \ {0}
  /\ r.op = "wallet_get_transfers" => r.direction \in {"in", "out", "both"} /\ r.assets \in BOOLEAN
Blocks(w) ==
  /\ {"family", "blocks"} \subseteq DOMAIN w /\ w.blocks \in Seq(Seq(Kind))
  /\ w.family = "solana" \/ (w.family = "evm" /\ "maxRange" \in DOMAIN w /\ w.maxRange \in Nat)

ASSUME HistoryAssumption ==
  /\ DefaultChunk \in Nat /\ MaxCalls \in Nat
  /\ Grown \subseteq Seq(Kind)
  /\ \A c \in HistoryCases : PagesQuery(c.request) /\ Blocks(c.world)

\* transfer_query; list_deposits asks for what comes in of the tokens of the registry.
Direction == IF request.op = "payments_list_deposits" THEN "in" ELSE request.direction
OnlyTokens == request.op = "payments_list_deposits" \/ request.assets
Wanted == Directed(Direction) \ (IF OnlyTokens THEN {"fake"} ELSE {})

-----------------------------------------------------------------------------
(***************************************************************************)
(* EVM: scan_transfers, backwards in chunks of blocks.                      *)
(***************************************************************************)
\* One request for each; a self-transfer matches both, and dedup_by makes it one again.
Topics(direction) == IF direction = "both" THEN <<"in", "out">> ELSE <<direction>>

ItemsOf(b) == {b} \X {i \in DOMAIN world.blocks[b] : world.blocks[b][i] \in Wanted}
ItemsIn(lo, hi) == UNION {ItemsOf(b) : b \in lo..hi}

Matching(topic, lo, hi) == {x \in ItemsIn(lo, hi) : world.blocks[x[1]][x[2]] \in Directed(topic)}

\* A vendor refuses a request for too many blocks, or too many logs.
RangeRefused(logs, lo, hi) ==
  \/ hi - lo + 1 > world.maxRange
  \/ Cardinality(logs) > world.maxLogs

HalfOf(n) == (n + 1) \div 2
AtLeastOne(n) == IF n < 1 THEN 1 ELSE n

\* One turn of the loop, where a node at height at[n] answers the nth request of the page,
\* with what it has of the range.  A refused range is halved, and the smaller size is kept.
Chunk(s, at) ==
  LET lo == LET l == s.next - (s.chunk - 1) IN IF l < request.from THEN request.from ELSE l
      sets == DOMAIN Topics(Direction)
      asked(i) == Matching(Topics(Direction)[i], lo, s.next)
      logs(i) == {x \in asked(i) : x[1] <= at[s.calls + i]}
      refused == {i \in sets : RangeRefused(logs(i), lo, s.next)}
  IN IF s.done THEN s
     ELSE IF s.calls + Cardinality(sets) > MaxCalls \/ s.count >= request.limit THEN [s EXCEPT !.done = TRUE]
     ELSE IF refused # {}
     THEN IF s.next > lo
          THEN [s EXCEPT !.calls = @ + Min(refused), !.chunk = AtLeastOne(HalfOf(s.next - lo))]
          ELSE [s EXCEPT !.done = TRUE, !.refused = TRUE]
     ELSE [s EXCEPT !.calls = @ + Cardinality(sets), !.items = @ \cup UNION {logs(i) : i \in sets},
                    !.missed = @ \cup UNION {asked(i) \ logs(i) : i \in sets},
                    !.count = @ + Cardinality(UNION {{i} \X logs(i) : i \in sets}),
                    !.next = lo - 1, !.done = lo = request.from]

\* missed is not of the code: what the nodes that answered had not seen yet.
ScanFrom(hi) ==
  [next |-> hi, chunk |-> AtLeastOne(IF world.known THEN world.maxRange ELSE DefaultChunk),
   calls |-> 0, items |-> {}, missed |-> {}, count |-> 0, done |-> hi < request.from, refused |-> FALSE]
Scanned(hi, at) ==
  LET turn[n \in 0..(MaxCalls + 1)] == IF n = 0 THEN ScanFrom(hi) ELSE Chunk(turn[n - 1], at)
  IN turn[MaxCalls + 1]

NoMore == 0  \* no next_cursor; blocks are counted from 1

CursorOf(scan) == IF scan.next >= request.from THEN scan.next ELSE NoMore

Height == Len(world.blocks)
Lower(a, b) == IF a < b THEN a ELSE b

\* From the cursor on, or from the head; a page ends on a boundary of chunks, and may hold
\* more than the limit.
EvmPage(cursor, head, at) ==
  LET scan == Scanned(Lower(Lower(request.to, head), IF cursor = NoMore THEN head ELSE cursor), at)
      due == ItemsIn(request.from, Lower(request.to, IF cursor = NoMore THEN Height ELSE cursor))
  IN [refused |-> scan.refused, next |-> CursorOf(scan), items |-> scan.items,
      missed |-> scan.missed \cup {x \in due : x[1] > head}]

-----------------------------------------------------------------------------
(***************************************************************************)
(* Solana: the signatures of the wallet and of each of its token accounts,  *)
(* one page of each, merged and cut; the cursor is the last of them.        *)
(***************************************************************************)
\* Where a transaction is listed: the wallet signs what goes out, a token account is
\* touched by what moves through it.
ListedAt(address) ==
  CASE address = "wallet" -> {"out", "self"}
    [] address = "account" -> {"in", "out", "self", "failed"}
    [] address = "other account" -> {"fake"}
Addresses == {"wallet", "account"} \cup (IF OnlyTokens THEN {} ELSE {"other account"})

\* Where an address has entries up to a slot, and the newest of them.
Listed(address, last) ==
  {b \in 1..last : ToSet(world.blocks[b]) \cap ListedAt(address) # {}}
Signatures(address, last) ==
  LET all == Listed(address, last)
  IN {b \in all : Cardinality({c \in all : c > b}) < request.limit}

\* The slots before the cursor that no node at[a] had seen when it was asked for the entries of a.
Below(cursor) == IF cursor = NoMore THEN Height ELSE cursor - 1
LastOf(cursor, at, address) == Lower(Below(cursor), at[address])
Unlisted(cursor, at) ==
  (UNION {Listed(a, Below(cursor)) : a \in Addresses})
  \ (UNION {Listed(a, LastOf(cursor, at, a)) : a \in Addresses})

\* Mutant: each address's page is used as it is, without cutting the merged list.
MutantMergedUncut(cursor, at) ==
  LET entries(a) == Signatures(a, LastOf(cursor, at, a))
      all == UNION {entries(a) : a \in Addresses} IN
  [slots |-> {b \in all : b <= request.to},
   more |-> \E a \in Addresses : Cardinality(entries(a)) >= request.limit,
   unlisted |-> Unlisted(cursor, at)]
MergedPage(cursor, at) ==
  LET entries(a) == Signatures(a, LastOf(cursor, at, a))
      all == {b \in UNION {entries(a) : a \in Addresses} : b <= request.to} IN
  [slots |-> {b \in all : Cardinality({c \in all : c > b}) < request.limit},
   more |-> \/ \E a \in Addresses : Cardinality(entries(a)) >= request.limit
            \/ Cardinality(all) > request.limit,
   unlisted |-> Unlisted(cursor, at)]

\* A transaction that is listed and then not returned (gone) is skipped.
SolanaPage(page, gone) ==
  LET kept == {b \in page.slots : b >= request.from}
  IN [refused |-> FALSE,
      next |-> IF page.more /\ kept = page.slots /\ kept # {} THEN Min(kept) ELSE NoMore,
      items |-> UNION {ItemsOf(b) : b \in kept \ gone},
      missed |-> UNION {ItemsOf(b) : b \in gone \cup page.unlisted}]

-----------------------------------------------------------------------------
(***************************************************************************)
(* The walk.  The client collects what the pages hold, until one has no     *)
(* next_cursor.                                                             *)
(***************************************************************************)
Walking == answer.at \in {"asked", "walk"} /\ request.op \in HistoryOp

Walk(cursor, vendor, found) == [at |-> "walk", cursor |-> cursor, vendor |-> vendor, found |-> found]

Views == {h \in 0..Height : h >= Height - HistoryLag}

\* What may be answered from the cursor on (NoMore: the first page).  Every request is a
\* failover of its own, so that each may reach a node at another height.
Pages(cursor) ==
  IF world.family = "evm"
  THEN {EvmPage(cursor, head, at) : head \in Views, at \in [1..MaxCalls -> Views]}
  ELSE UNION {{SolanaPage(page, gone) : gone \in SUBSET page.slots} :
              page \in {MergedPage(cursor, at) : at \in [Addresses -> Views]}}

\* A page by vendor v.  With cursor_reset the client drops what it has; without it, a first
\* page instead of the next goes unnoticed (silent), and what was had may come twice.
TakePage(v, page, cursor, cursor_reset) ==
  LET fresh == answer.at = "asked" \/ cursor_reset
      had == IF fresh THEN {} ELSE answer.found.got
      found == [upto |-> IF answer.at = "asked" THEN Height ELSE answer.found.upto,
                got |-> had \cup page.items,
                missed |-> (IF cursor = NoMore THEN {} ELSE answer.found.missed) \cup page.missed,
                silent |-> ~fresh /\ (answer.found.silent \/ cursor = NoMore),
                twice |-> ~fresh /\ (answer.found.twice \/ had \cap page.items # {})]
  IN answer' = IF page.refused THEN Refuse("InvalidInput")
               ELSE IF page.next = NoMore THEN Reply(found)
               ELSE Walk(page.next, v, found)

\* payments_list_deposits hands the cursor to whichever vendor answers: a reader of
\* another kind refuses it.
DepositsPage ==
  /\ Walking /\ request.op = "payments_list_deposits"
  /\ LET cursor == IF answer.at = "asked" THEN NoMore ELSE answer.cursor
     IN \E page \in Pages(cursor) : TakePage("any", page, cursor, FALSE)
  /\ UNCHANGED <<request, world>>

ForeignCursor ==
  /\ answer.at = "walk" /\ request.op = "payments_list_deposits"
  /\ answer' = Refuse("InvalidInput")
  /\ UNCHANGED <<request, world>>

\* wallet_get_transfers resumes with the vendor of the cursor, if that is a candidate
\* when the cursor is looked at and then is the one that answers; any other starts over,
\* and so does that vendor when it became a candidate in between.
WalletPage ==
  /\ Walking /\ request.op = "wallet_get_transfers"
  /\ \E v \in world.vendors, pinned \in BOOLEAN :
       LET cursor == IF answer.at = "walk" /\ pinned /\ answer.vendor = v THEN answer.cursor ELSE NoMore
       IN \E page \in Pages(cursor) : TakePage(v, page, cursor, answer.at = "walk" /\ answer.vendor # v)
  /\ UNCHANGED <<request, world>>

HistoryFails ==
  /\ Walking
  /\ \E e \in ProviderError : answer' = Refuse(CodeOf(e))
  /\ UNCHANGED <<request, world>>

NewBlock ==
  /\ Walking /\ Height < MaxBlocks
  /\ \E block \in Grown : world' = [world EXCEPT !.blocks = Append(@, block)]
  /\ UNCHANGED <<request, answer>>

HistoryNext == DepositsPage \/ ForeignCursor \/ WalletPage \/ HistoryFails \/ NewBlock

-----------------------------------------------------------------------------
(***************************************************************************)
(* Properties.                                                              *)
(***************************************************************************)
\* What the walk should have found, up to a height.
Due(upto) ==
  ItemsIn(request.from, Lower(request.to, upto))

(* "Never loses any across the cursor" (evm/logs.rs), for the client that has followed the
   cursors to the end: it has every transfer it asked for, of its tokens and direction, that
   was on the chain when it began, whatever the chunks, limits, refused ranges, new blocks
   and changes of vendor, and nothing else; and none comes twice.  The exceptions:
     - what a node that answered one of the requests had not seen (the head, one of the
       requests for logs or signatures), or listed and then did not return (missed);
     - on Solana, all that is below a whole page of signatures newer than to_block;
     - the vendor of a cursor that was not a candidate when the cursor was looked at, and
       then answered: it repeats its first page, and cursor_reset does not say so (silent). *)
PagesComplete ==
  answer.at = "replied" /\ request.op \in HistoryOp =>
    LET found == answer.out IN
    /\ \/ world.family = "solana" /\ request.to < Height
       \/ Due(found.upto) \subseteq found.got \cup found.missed
    /\ found.got \subseteq Due(Height)
    /\ found.twice => found.silent
=============================================================================
