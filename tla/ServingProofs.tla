--------------------------- MODULE ServingProofs ----------------------------
(***************************************************************************)
(* Theorems about Serving, for any callers, questions, endpoints and cache. *)
(***************************************************************************)
EXTENDS Serving, ConfigFilesProofs, FiniteSetTheorems

-----------------------------------------------------------------------------
(***************************************************************************)
(* The inductive invariant, beside that of the files.                       *)
(***************************************************************************)
PortRecord == [generation : Nat, endpoint : Value \cup {Default}]
Answer == [question : Question, endpoint : Value \cup {Default}, read : Nat]

Busy == {"visible", "routing", "guarded", "checking", "asking", "answered"}
Asked == {"visible", "routing", "asking", "answered"}

CallRecord ==
  [at : Busy \cup {"idle", "done"}, question : Question \cup {Nothing}, ttl : Nat,
   port : PortRecord, got : SUBSET Answer, hit : BOOLEAN, since : Nat]

ServingTypeOK ==
  /\ table \in [config : Text \cup {Torn}, generation : Nat]
  /\ now \in Nat
  /\ calls \in [Caller -> CallRecord]

\* An answer to q, of an endpoint of its own chain.
Honest(value, q) == value.question = q /\ value.endpoint \notin Wrong /\ value.read <= now

\* Whether call c may be where r says: at one of a running process, checking alone, asking an
\* endpoint that has passed, holding answers to its question.
Fits(c, r) ==
  /\ r.at \in Busy => Up
  /\ r.at = "checking" =>
       /\ ~Checked(r.port)
       /\ \A d \in Caller \ {c} : calls[d].at = "checking" => calls[d].port # r.port
  /\ r.at \in {"asking", "answered"} => r.port.endpoint \notin Wrong
  /\ r.at \in Asked => r.question \in Question
  /\ \A value \in r.got : Honest(value, r.question)
  /\ r.hit => r.at = "done" /\ r.ttl > 0 /\ r.got # {}

CallsFit == \A c \in Caller : Fits(c, calls[c])

\* A port has one verdict, and the right one if it is good.
Verdicts ==
  /\ OneVerdict
  /\ \A cell \in cells : cell.own => cell.port.endpoint \notin Wrong

\* At most Cap answers are held, each to the question it is kept for.
CacheHonest ==
  /\ IsFiniteSet(DOMAIN cache) /\ DOMAIN cache \subseteq Question
  /\ Cardinality(DOMAIN cache) <= Cap
  /\ \A q \in DOMAIN cache :
       cache[q] \in [value : Answer, expires : Nat] /\ Honest(cache[q].value, q)

ServingInv == FilesInv /\ ServingTypeOK /\ CallsFit /\ Verdicts /\ CacheHonest

-----------------------------------------------------------------------------
(* The files are left alone. *)
LEMMA FilesFrame ==
  ASSUME FilesInv, UNCHANGED <<disk, table, lock, job, acked, hand>>
  PROVE  FilesInv'
BY DEF FilesInv, FilesTypeOK, LockHeld, HandKnown, Plans, PlanLoads, PlanCurrent,
       AckedFree, EditsKept, RestartLoads, Active, OnDisk, Up, Hidden, LoadsNow

(* A call moves on, and nothing else does. *)
LEMMA CallMoves ==
  ASSUME ServingInv, NEW c \in Caller, NEW r \in CallRecord, Fits(c, r),
         UNCHANGED <<disk, table, lock, job, acked, hand, now, cells>>,
         calls' = [calls EXCEPT ![c] = r],
         CacheHonest'
  PROVE  ServingInv'
<1> USE DEF ServingInv
<1>1. /\ calls'[c] = r
      /\ \A d \in Caller \ {c} : calls'[d] = calls[d]
  BY DEF ServingTypeOK
<1>2. FilesInv'
  BY FilesFrame
<1>3. ServingTypeOK'
  BY DEF ServingTypeOK
<1>4. CallsFit'
  <2>1. SUFFICES ASSUME NEW d \in Caller PROVE Fits(d, calls[d])'
    BY DEF CallsFit
  <2>2. CASE d = c
    BY <1>1, <2>2 DEF Fits, Up, Checked, Honest
  <2>3. CASE d # c
    <3>1. calls'[d] = calls[d] /\ Fits(d, calls[d])
      BY <1>1, <2>3 DEF CallsFit
    <3>2. r.at = "checking" /\ calls[d].at = "checking" => r.port # calls[d].port
      BY <2>3 DEF Fits
    <3>3. QED
      BY <1>1, <2>3, <3>1, <3>2 DEF Fits, Up, Checked, Honest
  <2>4. QED
    BY <2>2, <2>3
<1>5. Verdicts'
  BY DEF Verdicts, OneVerdict
<1>6. QED
  BY <1>2, <1>3, <1>4, <1>5

(* The cache is as it was. *)
LEMMA CacheFrame ==
  ASSUME CacheHonest, UNCHANGED <<cache, now>>
  PROVE  CacheHonest'
BY DEF CacheHonest, Honest

LEMMA CallTypes ==
  ASSUME ServingInv
  PROVE  /\ NoCall \in CallRecord
         /\ Up => /\ TtlNow \in Nat
                  /\ EndpointNow \in Value \cup {Default}
                  /\ \A e \in Value \cup {Default} : PortNow(e) \in PortRecord
<1>1. NoCall \in CallRecord
  BY DEF NoCall, CallRecord, PortRecord
<1>2. ASSUME Up
      PROVE  TtlNow \in Nat /\ EndpointNow \in Value \cup {Default}
  <2>1. table.config \in Text
    BY <1>2 DEF ServingInv, ServingTypeOK, Up
  <2>2. table.config["cache_ttl_secs"] \in Value \cup {Unset} /\ table.config["evm_rpc"] \in Value \cup {Unset}
    BY <2>1, ServingAssumption DEF Text
  <2>3. QED
    BY <2>2, ServingAssumption DEF TtlNow, EndpointNow
<1>3. \A e \in Value \cup {Default} : PortNow(e) \in PortRecord
  BY DEF PortNow, PortRecord, ServingInv, ServingTypeOK
<1>4. QED
  BY <1>1, <1>2, <1>3

-----------------------------------------------------------------------------
(***************************************************************************)
(* Calls.                                                                   *)
(***************************************************************************)
(* A call arrives, or a warm-up. *)
LEMMA CallStarts ==
  ASSUME ServingInv, NEW c \in Caller, Call(c) \/ WarmUp(c)
  PROVE  ServingInv'
<1>1. /\ Up /\ UNCHANGED <<disk, table, lock, job, acked, hand, now, cells, cache>>
      /\ CacheHonest'
  BY CacheFrame DEF Call, WarmUp, ServingInv
<1>2. CASE Call(c)
  <2>1. PICK q \in Question :
          calls' = [calls EXCEPT ![c] = [NoCall EXCEPT
                     !.at = IF table.config["enabled"] = Unset THEN "visible" ELSE "done", !.question = q]]
    BY <1>2 DEF Call
  <2> DEFINE r == [NoCall EXCEPT
                     !.at = IF table.config["enabled"] = Unset THEN "visible" ELSE "done", !.question = q]
  <2>2. /\ r \in CallRecord /\ r.at \in {"visible", "done"} /\ r.question = q
        /\ r.got = {} /\ r.hit = FALSE
    BY DEF NoCall, CallRecord, PortRecord, Busy
  <2>3. Fits(c, r)
    BY <1>1, <2>2 DEF Fits, Asked
  <2>4. QED
    BY <1>1, <2>1, <2>2, <2>3, CallMoves
<1>3. CASE WarmUp(c)
  <2> DEFINE r == [NoCall EXCEPT !.at = "guarded", !.port = PortNow(EndpointNow)]
  <2>1. calls' = [calls EXCEPT ![c] = r]
    BY <1>3 DEF WarmUp
  <2>2. NoCall.got = {} /\ NoCall.hit = FALSE
    BY DEF NoCall
  <2>3. PortNow(EndpointNow) \in PortRecord
    BY <1>1, CallTypes
  <2>4. /\ r \in CallRecord /\ r.at = "guarded" /\ r.got = {} /\ r.hit = FALSE
    BY <2>2, <2>3, CallTypes DEF CallRecord, Busy
  <2>5. Fits(c, r)
    BY <1>1, <2>4 DEF Fits, Asked
  <2>6. QED
    BY <1>1, <2>1, <2>4, <2>5, CallMoves
<1>4. QED
  BY <1>2, <1>3

(* An answer in the cache is one to this question; one that has expired is dropped. *)
LEMMA LookStep ==
  ASSUME ServingInv, NEW c \in Caller, Look(c)
  PROVE  ServingInv'
<1> USE DEF ServingInv
<1> DEFINE q == calls[c].question
<1>1. /\ UNCHANGED <<disk, table, lock, job, acked, hand, now, cells>>
      /\ calls[c] \in CallRecord /\ calls[c].at = "visible" /\ Up /\ q \in Question
      /\ calls[c].hit = FALSE /\ TtlNow \in Nat /\ now \in Nat
      /\ \A value \in calls[c].got : Honest(value, q)
  BY CallTypes DEF Look, filesVars, ServingTypeOK, CallsFit, Fits, Busy, Asked, CallRecord
<1>2. CASE TtlNow > 0 /\ Fresh(q)
  <2> DEFINE r == [calls[c] EXCEPT !.at = "done", !.ttl = TtlNow, !.since = now,
                                   !.got = {cache[q].value}, !.hit = TRUE]
  <2>1. calls' = [calls EXCEPT ![c] = r] /\ cache' = cache
    BY <1>2 DEF Look, ServingTypeOK
  <2>2. q \in DOMAIN cache /\ cache[q].value \in Answer /\ Honest(cache[q].value, q)
    BY <1>2 DEF Fresh, CacheHonest
  <2>3. r \in CallRecord /\ r.at = "done" /\ r.question = q /\ r.ttl = TtlNow /\ r.got = {cache[q].value}
    BY <1>1, <2>2 DEF CallRecord
  <2>4. Fits(c, r)
    BY <1>1, <1>2, <2>2, <2>3 DEF Fits, Asked, Busy
  <2>5. QED
    BY <1>1, <2>1, <2>3, <2>4, CallMoves, CacheFrame
<1>3. CASE ~(TtlNow > 0 /\ Fresh(q))
  <2> DEFINE r == [calls[c] EXCEPT !.at = "routing", !.ttl = TtlNow, !.since = now]
  <2>1. calls' = [calls EXCEPT ![c] = r] /\ cache' = IF TtlNow > 0 THEN Without(q) ELSE cache
    BY <1>3 DEF Look, ServingTypeOK
  <2>2. /\ r \in CallRecord /\ r.at = "routing" /\ r.question = q /\ r.got = calls[c].got
        /\ r.hit = FALSE
    BY <1>1 DEF CallRecord, Busy
  <2>3. Fits(c, r)
    BY <1>1, <2>2 DEF Fits, Asked
  <2>4. CacheHonest'
    <3>1. DOMAIN cache' \subseteq DOMAIN cache /\ \A k \in DOMAIN cache' : cache'[k] = cache[k]
      BY <2>1 DEF Without
    <3>2. /\ IsFiniteSet(DOMAIN cache')
          /\ Cardinality(DOMAIN cache') <= Cardinality(DOMAIN cache)
          /\ Cardinality(DOMAIN cache) \in Nat /\ Cardinality(DOMAIN cache') \in Nat
      BY <3>1, FS_Subset, FS_CardinalityType DEF CacheHonest
    <3>3. QED
      BY <1>1, <3>1, <3>2, ServingAssumption DEF CacheHonest, Honest
  <2>5. QED
    BY <1>1, <2>1, <2>2, <2>3, <2>4, CallMoves
<1>4. QED
  BY <1>2, <1>3

(* Steps by which a call only changes place: what it holds stays, and whom it asks is known. *)
LEMMA RouteStep ==
  ASSUME ServingInv, NEW c \in Caller, Route(c)
  PROVE  ServingInv'
<1> USE DEF ServingInv
<1> DEFINE r == [calls[c] EXCEPT !.at = "guarded", !.port = PortNow(EndpointNow)]
<1>1. /\ UNCHANGED <<disk, table, lock, job, acked, hand, now, cells, cache>>
      /\ calls[c] \in CallRecord /\ calls[c].at = "routing" /\ Up /\ Fits(c, calls[c])
      /\ calls' = [calls EXCEPT ![c] = r]
  BY DEF Route, filesVars, ServingTypeOK, CallsFit, Fits, Busy
<1>2. PortNow(EndpointNow) \in PortRecord
  BY <1>1, CallTypes
<1>3. /\ r \in CallRecord /\ r.at = "guarded" /\ r.question = calls[c].question
      /\ r.got = calls[c].got /\ r.hit = calls[c].hit
  BY <1>1, <1>2 DEF CallRecord, Busy
<1>4. Fits(c, r)
  BY <1>1, <1>3 DEF Fits, Asked
<1>5. QED
  BY <1>1, <1>3, <1>4, CallMoves, CacheFrame

LEMMA GuardStep ==
  ASSUME ServingInv, NEW c \in Caller, Check(c) \/ Pass(c) \/ Refuse(c)
  PROVE  ServingInv'
<1> USE DEF ServingInv
<1>1. /\ UNCHANGED <<disk, table, lock, job, acked, hand, now, cells, cache>>
      /\ calls[c] \in CallRecord /\ calls[c].at = "guarded" /\ Fits(c, calls[c])
  BY DEF Check, Pass, Refuse, filesVars, ServingTypeOK, CallsFit
<1>2. PICK place \in {"checking", "asking", "done"} :
        /\ calls' = [calls EXCEPT ![c] = [calls[c] EXCEPT !.at = place]]
        /\ place = "checking" =>
             /\ ~Checked(calls[c].port)
             /\ \A d \in Caller : calls[d].at = "checking" => calls[d].port # calls[c].port
        /\ place = "asking" => Passed(calls[c].port) /\ calls[c].question # Nothing
  BY DEF Check, Pass, Refuse, Goto, Admitted, ServingTypeOK
<1> DEFINE r == [calls[c] EXCEPT !.at = place]
<1>3. /\ r \in CallRecord /\ r.at = place /\ r.question = calls[c].question /\ r.port = calls[c].port
      /\ r.got = calls[c].got /\ r.hit = calls[c].hit
  BY <1>1 DEF CallRecord, Busy
<1>4. place = "asking" => r.port.endpoint \notin Wrong /\ r.question \in Question
  <2>1. SUFFICES ASSUME place = "asking" PROVE calls[c].port.endpoint \notin Wrong /\ calls[c].question \in Question
    BY <1>3
  <2>2. [port |-> calls[c].port, own |-> TRUE] \in cells
    BY <1>2, <2>1 DEF Passed
  <2>3. calls[c].port.endpoint \notin Wrong
    BY <2>2 DEF Verdicts
  <2>4. QED
    BY <1>1, <1>2, <2>1, <2>3 DEF CallRecord
<1>5. Fits(c, r)
  BY <1>1, <1>2, <1>3, <1>4 DEF Fits, Asked, Busy
<1>6. QED
  BY <1>1, <1>2, <1>3, <1>5, CallMoves, CacheFrame

(* A request is answered, or a call given up. *)
LEMMA AnswerStep ==
  ASSUME ServingInv, NEW c \in Caller, Served(c) \/ Fails(c)
  PROVE  ServingInv'
<1> USE DEF ServingInv
<1>1. /\ UNCHANGED <<disk, table, lock, job, acked, hand, now, cells, cache>>
      /\ calls[c] \in CallRecord /\ calls[c].at \in Busy /\ Fits(c, calls[c]) /\ now \in Nat
      /\ calls[c].hit = FALSE
  BY DEF Served, Fails, Done, filesVars, ServingTypeOK, CallsFit, Fits, Busy, CallRecord
<1>2. CASE Served(c)
  <2> DEFINE value == [question |-> calls[c].question, endpoint |-> calls[c].port.endpoint, read |-> now]
             r == [calls[c] EXCEPT !.at = "answered", !.got = {value}]
  <2>1. /\ calls' = [calls EXCEPT ![c] = r]
        /\ calls[c].at = "asking" /\ calls[c].question \in Question
        /\ calls[c].port.endpoint \notin Wrong /\ Up
    BY <1>1, <1>2 DEF Served, ServingTypeOK, Fits, Asked, Busy
  <2>2. value \in Answer /\ Honest(value, calls[c].question)
    BY <1>1, <2>1 DEF Answer, Honest, CallRecord, PortRecord
  <2>3. /\ r \in CallRecord /\ r.at = "answered" /\ r.question = calls[c].question /\ r.port = calls[c].port
        /\ r.got = {value} /\ r.hit = FALSE
    BY <1>1, <2>2 DEF CallRecord, Busy
  <2>4. Fits(c, r)
    BY <2>1, <2>2, <2>3 DEF Fits, Asked
  <2>5. QED
    BY <1>1, <2>1, <2>3, <2>4, CallMoves, CacheFrame
<1>3. CASE Fails(c)
  <2> DEFINE r == [calls[c] EXCEPT !.at = "done", !.got = {}]
  <2>1. calls' = [calls EXCEPT ![c] = r]
    BY <1>3 DEF Fails, Done, ServingTypeOK
  <2>2. r \in CallRecord /\ r.at = "done" /\ r.got = {} /\ r.hit = FALSE
    BY <1>1 DEF CallRecord
  <2>3. Fits(c, r)
    BY <2>2 DEF Fits, Asked, Busy
  <2>4. QED
    BY <1>1, <2>1, <2>2, <2>3, CallMoves, CacheFrame
<1>4. QED
  BY <1>2, <1>3

(* A verdict: the first one on its port, given by the only call that checks it. *)
LEMMA VerdictStep ==
  ASSUME ServingInv, NEW c \in Caller, CheckReplied(c) \/ CheckGarbled(c)
  PROVE  ServingInv'
<1> USE DEF ServingInv
<1> DEFINE r == [calls[c] EXCEPT !.at = "guarded"]
<1>0. PICK port \in PortRecord : port = calls[c].port
  BY DEF ServingTypeOK, CallRecord
<1>1. /\ UNCHANGED <<disk, table, lock, job, acked, hand, now, cache>>
      /\ calls[c] \in CallRecord /\ calls[c].at = "checking" /\ Fits(c, calls[c])
      /\ calls' = [calls EXCEPT ![c] = r]
  BY DEF CheckReplied, CheckGarbled, Goto, filesVars, ServingTypeOK, CallsFit
<1>2. PICK own \in BOOLEAN :
        /\ cells' = cells \cup {[port |-> port, own |-> own]}
        /\ own => port.endpoint \notin Wrong
  BY <1>0 DEF CheckReplied, CheckGarbled
<1>3. /\ r \in CallRecord /\ r.at = "guarded" /\ r.question = calls[c].question
      /\ r.got = calls[c].got /\ r.hit = calls[c].hit
  BY <1>1 DEF CallRecord, Busy
<1>4. /\ calls'[c] = r
      /\ \A d \in Caller \ {c} : calls'[d] = calls[d]
  BY <1>1 DEF ServingTypeOK
<1>5. FilesInv' /\ ServingTypeOK' /\ CacheHonest'
  BY <1>1, <1>3, FilesFrame, CacheFrame DEF ServingTypeOK
<1>6. ~Checked(port) /\ \A d \in Caller \ {c} : calls[d].at = "checking" => calls[d].port # port
  BY <1>0, <1>1 DEF Fits
<1>7. Verdicts'
  BY <1>2, <1>6 DEF Verdicts, OneVerdict, Checked
<1>8. CallsFit'
  <2>1. SUFFICES ASSUME NEW d \in Caller PROVE Fits(d, calls[d])'
    BY DEF CallsFit
  <2>2. CASE d = c
    BY <1>1, <1>3, <1>4, <2>2 DEF Fits, Up, Honest, Asked, Busy
  <2>3. CASE d # c
    <3>1. calls'[d] = calls[d] /\ Fits(d, calls[d])
      BY <1>4, <2>3 DEF CallsFit
    <3>2. calls[d].at = "checking" => ~Checked(calls[d].port)'
      BY <1>2, <1>6, <2>3, <3>1 DEF Fits, Checked
    <3>3. \A k \in Caller \ {d} : calls'[k].at = "checking" => calls[k].at = "checking" /\ calls'[k].port = calls[k].port
      BY <1>3, <1>4
    <3>4. QED
      BY <1>1, <3>1, <3>2, <3>3 DEF Fits, Up, Honest
  <2>4. QED
    BY <2>2, <2>3
<1>9. QED
  BY <1>5, <1>7, <1>8

-----------------------------------------------------------------------------
(***************************************************************************)
(* The cache.                                                               *)
(***************************************************************************)
(* What is kept beside a new entry leaves room for it. *)
LEMMA KeptLeavesRoom ==
  ASSUME CacheHonest, Cap # 0, NEW q \in Question, NEW kept \in Kept(q)
  PROVE  /\ kept \subseteq DOMAIN cache
         /\ IsFiniteSet(kept \cup {q}) /\ Cardinality(kept \cup {q}) <= Cap
<1> DEFINE D == DOMAIN cache
<1>1. /\ IsFiniteSet(D) /\ Cardinality(D) \in Nat /\ Cardinality(D) <= Cap /\ Cap \in Nat
      /\ Live \subseteq D /\ Soonest(Live) \subseteq Live
  BY FS_CardinalityType, ServingAssumption DEF CacheHonest, Live, Soonest
<1>2. IsFiniteSet(Live) /\ Cardinality(Live) \in Nat /\ Cardinality(Live) <= Cardinality(D)
  BY <1>1, FS_Subset, FS_CardinalityType
<1>3. CASE q \in D
  <2>1. kept = D /\ D \cup {q} = D
    BY <1>3 DEF Kept
  <2>2. QED
    BY <1>1, <2>1
<1>4. CASE q \notin D /\ Cardinality(D) < Cap
  <2>1. kept = D
    BY <1>4 DEF Kept
  <2>2. IsFiniteSet(D \cup {q}) /\ Cardinality(D \cup {q}) = Cardinality(D) + 1
    BY <1>1, <1>4, FS_AddElement
  <2>3. QED
    BY <1>1, <1>4, <2>1, <2>2
<1>5. CASE q \notin D /\ ~(Cardinality(D) < Cap) /\ Cardinality(Live) < Cap
  <2>1. kept = Live /\ q \notin Live
    BY <1>1, <1>5 DEF Kept
  <2>2. IsFiniteSet(Live \cup {q}) /\ Cardinality(Live \cup {q}) = Cardinality(Live) + 1
    BY <1>2, <2>1, FS_AddElement
  <2>3. QED
    BY <1>1, <1>2, <1>5, <2>1, <2>2
<1>6. CASE q \notin D /\ ~(Cardinality(D) < Cap) /\ ~(Cardinality(Live) < Cap)
  <2>1. PICK victim \in Soonest(Live) : kept = Live \ {victim}
    BY <1>6 DEF Kept
  <2>2. IsFiniteSet(kept) /\ Cardinality(kept) = Cardinality(Live) - 1
    BY <1>1, <1>2, <2>1, FS_RemoveElement
  <2>3. q \notin kept
    BY <1>1, <1>6, <2>1
  <2>4. IsFiniteSet(kept \cup {q}) /\ Cardinality(kept \cup {q}) = Cardinality(Live)
    <3>1. IsFiniteSet(kept \cup {q}) /\ Cardinality(kept \cup {q}) = Cardinality(kept) + 1
      BY <2>2, <2>3, FS_AddElement
    <3>2. QED
      BY <1>2, <2>2, <3>1
  <2>5. QED
    BY <1>1, <1>2, <2>1, <2>4
<1>7. QED
  BY <1>3, <1>4, <1>5, <1>6

(* A call is done, and what it has got is kept if there is a lifetime for it. *)
LEMMA FinishStep ==
  ASSUME ServingInv, NEW c \in Caller, Finish(c)
  PROVE  ServingInv'
<1> USE DEF ServingInv
<1> DEFINE q == calls[c].question
           r == [calls[c] EXCEPT !.at = "done"]
<1>1. /\ UNCHANGED <<disk, table, lock, job, acked, hand, now, cells>>
      /\ calls[c] \in CallRecord /\ calls[c].at = "answered" /\ Fits(c, calls[c])
      /\ calls' = [calls EXCEPT ![c] = r] /\ now \in Nat /\ q \in Question
  BY DEF Finish, Goto, filesVars, ServingTypeOK, CallsFit, Fits, Asked
<1>2. /\ r \in CallRecord /\ r.at = "done" /\ r.question = q
      /\ r.got = calls[c].got /\ r.hit = calls[c].hit
  BY <1>1 DEF CallRecord
<1>3. Fits(c, r)
  BY <1>1, <1>2 DEF Fits, Asked, Busy
<1>4. CacheHonest'
  <2>1. PICK value \in calls[c].got : Insert(q, value, calls[c].ttl)
    BY DEF Finish
  <2>2. value \in Answer /\ Honest(value, q) /\ calls[c].ttl \in Nat
    BY <1>1 DEF CallRecord, Fits
  <2>3. CASE calls[c].ttl = 0 \/ Cap = 0
    BY <1>1, <2>1, <2>3, CacheFrame DEF Insert
  <2>4. CASE ~(calls[c].ttl = 0 \/ Cap = 0)
    <3>1. PICK kept \in Kept(q) :
            cache' = [k \in kept \cup {q} |->
                       IF k = q THEN [value |-> value, expires |-> now + calls[c].ttl] ELSE cache[k]]
      BY <2>1, <2>4 DEF Insert
    <3>2. /\ kept \subseteq DOMAIN cache
          /\ IsFiniteSet(kept \cup {q}) /\ Cardinality(kept \cup {q}) <= Cap
      BY <1>1, <2>4, KeptLeavesRoom
    <3>3. DOMAIN cache' = kept \cup {q}
      BY <3>1
    <3>4. ASSUME NEW k \in kept \cup {q}
          PROVE  cache'[k] \in [value : Answer, expires : Nat] /\ Honest(cache'[k].value, k)
      BY <1>1, <2>2, <3>1, <3>2 DEF CacheHonest
    <3>5. QED
      BY <1>1, <3>2, <3>3, <3>4 DEF CacheHonest, Honest
  <2>5. QED
    BY <2>3, <2>4
<1>5. QED
  BY <1>1, <1>2, <1>3, <1>4, CallMoves

-----------------------------------------------------------------------------
(***************************************************************************)
(* What happens beside the calls.                                           *)
(***************************************************************************)
LEMMA TickStep ==
  ASSUME ServingInv, Tick
  PROVE  ServingInv'
<1> USE DEF ServingInv
<1>1. /\ UNCHANGED <<disk, table, lock, job, acked, hand, calls, cells, cache>>
      /\ now \in Nat /\ now' = now + 1
  BY DEF Tick, ServingTypeOK
<1>2. FilesInv' /\ ServingTypeOK'
  BY <1>1, FilesFrame DEF ServingTypeOK
<1>3. \A value \in Answer, k \in Question \cup {Nothing} : Honest(value, k) => Honest(value, k)'
  BY <1>1 DEF Honest, Answer
<1>4. CallsFit'
  <2>1. SUFFICES ASSUME NEW d \in Caller PROVE Fits(d, calls[d])'
    BY DEF CallsFit
  <2>2. Fits(d, calls[d]) /\ calls[d] \in CallRecord
    BY DEF CallsFit, ServingTypeOK
  <2>3. \A value \in calls[d].got : Honest(value, calls[d].question)'
    BY <1>1, <1>3, <2>2 DEF CallRecord, Fits
  <2>4. QED
    BY <1>1, <2>2, <2>3 DEF Fits, Up, Checked
<1>5. Verdicts' /\ CacheHonest'
  <2>1. \A k \in DOMAIN cache : Honest(cache[k].value, k)'
    BY <1>1, <1>3 DEF CacheHonest
  <2>2. QED
    BY <1>1, <2>1 DEF Verdicts, OneVerdict, CacheHonest
<1>6. QED
  BY <1>2, <1>4, <1>5

(* Nobody is served by a process that is gone. *)
LEMMA CrashServingStep ==
  ASSUME ServingInv, CrashServing
  PROVE  ServingInv'
<1> USE DEF ServingInv
<1>1. /\ Crash /\ UNCHANGED <<now, cells>>
      /\ calls' = [c \in Caller |-> NoCall] /\ cache' = << >>
      /\ table' = [table EXCEPT !.config = Torn]
  BY DEF CrashServing, Crash
<1>2. FilesInv'
  BY <1>1, CrashStep
<1>3. ServingTypeOK'
  BY <1>1, CallTypes DEF ServingTypeOK
<1>4. CallsFit'
  <2>1. NoCall.at = "idle" /\ NoCall.got = {} /\ NoCall.hit = FALSE
    BY DEF NoCall
  <2>2. QED
    BY <1>1, <2>1 DEF CallsFit, Fits, Busy, Asked
<1>5. Verdicts'
  BY <1>1 DEF Verdicts, OneVerdict
<1>6. CacheHonest'
  <2>1. DOMAIN cache' = {}
    BY <1>1
  <2>2. IsFiniteSet(DOMAIN cache') /\ Cardinality(DOMAIN cache') = 0
    BY <2>1, FS_EmptySet
  <2>3. QED
    BY <2>1, <2>2, ServingAssumption DEF CacheHonest
<1>7. QED
  BY <1>2, <1>3, <1>4, <1>5, <1>6

(* The table is replaced under the calls. *)
LEMMA FilesMoveStep ==
  ASSUME ServingInv, FilesNext, UNCHANGED servingVars
  PROVE  ServingInv'
<1> USE DEF ServingInv
<1>1. UNCHANGED <<now, calls, cells, cache>>
  BY DEF servingVars
<1>2. FilesInv'
  BY FilesStep
<1>3. /\ table' \in [config : Text \cup {Torn}, generation : Nat]
      /\ Up => Up'
  <2>1. CASE table' = table
    BY <2>1 DEF ServingTypeOK, Up
  <2>2. ASSUME NEW c, NEW s, c \in Text, s \in Text, table' = InForce(Merged(c, s))
        PROVE  table'.config \in Text /\ table' \in [config : Text \cup {Torn}, generation : Nat]
    <3>1. Merged(c, s) \in Text
      BY <2>2, ConfigAssumption DEF Merged, Text
    <3>2. QED
      BY <2>2, <3>1 DEF InForce, ServingTypeOK
  <2>3. ASSUME NEW a \in Admin, Install(a)
        PROVE  \E c \in Text, s \in Text : table' = InForce(Merged(c, s))
    BY <2>3 DEF FilesInv, Install, Plans, PlanLoads, File
  <2>4. ASSUME Restart
        PROVE  \E c \in Text, s \in Text : table' = InForce(Merged(c, s))
    <3>1. OnDisk("config") \in Text /\ OnDisk("secrets") \in Text
      BY <2>4, TextFacts DEF FilesInv, Restart, LoadsNow, Loads, OnDisk, FilesTypeOK
    <3>2. QED
      BY <2>4, <3>1 DEF Restart, OnDisk
  <2>5. table' = table \/ (\E a \in Admin : Install(a)) \/ Restart
    BY DEF FilesNext, Ask, AdminStep, Begin, Plan, Create, Write, Rename, WriteFails, HandEdit
  <2>6. Torn \notin Text
    BY ConfigAssumption
  <2>7. QED
    BY <2>1, <2>2, <2>3, <2>4, <2>5, <2>6 DEF Up
<1>4. ServingTypeOK'
  BY <1>1, <1>3 DEF ServingTypeOK
<1>5. CallsFit' /\ Verdicts' /\ CacheHonest'
  BY <1>1, <1>3 DEF CallsFit, Fits, Checked, Verdicts, OneVerdict, CacheHonest, Honest
<1>6. QED
  BY <1>2, <1>4, <1>5

-----------------------------------------------------------------------------
LEMMA ServingInitInv == FilesInit /\ ServingInit => ServingInv
<1> SUFFICES ASSUME FilesInit, ServingInit PROVE ServingInv
  OBVIOUS
<1>1. FilesInv
  BY FilesInitInv
<1>2. table \in [config : Text \cup {Torn}, generation : Nat]
  <2>1. OnDisk("config") \in Text /\ OnDisk("secrets") \in Text
    BY <1>1, TextFacts DEF FilesInit, LoadsNow, Loads, OnDisk, FilesInv, FilesTypeOK
  <2>2. Merged(OnDisk("config"), OnDisk("secrets")) \in Text
    BY <2>1, ConfigAssumption DEF Merged, Text
  <2>3. QED
    BY <2>2 DEF FilesInit, OnDisk
<1>3. NoCall \in CallRecord /\ NoCall.at = "idle" /\ NoCall.got = {} /\ NoCall.hit = FALSE
  BY DEF NoCall, CallRecord, PortRecord
<1>4. ServingTypeOK /\ CallsFit /\ Verdicts
  BY <1>2, <1>3 DEF ServingInit, ServingTypeOK, CallsFit, Fits, Busy, Asked, Verdicts, OneVerdict
<1>5. CacheHonest
  <2>1. DOMAIN cache = {} /\ IsFiniteSet({}) /\ Cardinality({}) = 0
    BY FS_EmptySet DEF ServingInit
  <2>2. QED
    BY <2>1, ServingAssumption DEF CacheHonest
<1>6. QED
  BY <1>1, <1>4, <1>5 DEF ServingInv

LEMMA ServingStep == ServingInv /\ [ServingNext]_<<filesVars, servingVars>> => ServingInv'
<1> SUFFICES ASSUME ServingInv, [ServingNext]_<<filesVars, servingVars>> PROVE ServingInv'
  OBVIOUS
<1>1. ASSUME NEW c \in Caller, CallStep(c) PROVE ServingInv'
  BY <1>1, CallStarts, LookStep, RouteStep, GuardStep, AnswerStep, VerdictStep, FinishStep DEF CallStep
<1>2. CASE UNCHANGED <<filesVars, servingVars>>
  <2>1. UNCHANGED <<disk, table, lock, job, acked, hand, now, calls, cells, cache>>
    BY <1>2 DEF filesVars, servingVars
  <2>2. QED
    BY <2>1, FilesFrame, CacheFrame
    DEF ServingInv, ServingTypeOK, CallsFit, Fits, Up, Checked, Honest, Verdicts, OneVerdict
<1>3. QED
  BY <1>1, <1>2, TickStep, CrashServingStep, FilesMoveStep DEF ServingNext

LEMMA ServingInvariant == ServingSpec => []ServingInv
BY ServingInitInv, ServingStep, PTL DEF ServingSpec

(* Every answer, cached or not, is one to the question that was asked, of an endpoint of its own
   chain, whatever calls share its check and whatever reload comes in between. *)
THEOREM ServingHonest == ServingSpec => []AnswersHonest
<1>1. ServingInv => AnswersHonest
  BY DEF ServingInv, CallsFit, Fits, Honest, Verdicts, AnswersHonest
<1>2. QED
  BY <1>1, ServingInvariant, PTL

(* The edits of the configuration are as durable when it is served from. *)
THEOREM ServingDurable == ServingSpec => []ConfigDurable
<1>1. ServingInv => ConfigDurable
  BY DEF ServingInv, FilesInv, ConfigDurable
<1>2. QED
  BY <1>1, ServingInvariant, PTL

-----------------------------------------------------------------------------
(* Which entries a step may drop. *)
LEMMA DropsSoonest ==
  ASSUME ServingInv, ServingNext, NEW q \in DOMAIN cache \ DOMAIN cache'
  PROVE  Dropped(q)
<1>1. ASSUME NEW c \in Caller, CallStep(c) PROVE Dropped(q)
  <2>1. CASE Look(c)
    BY <2>1 DEF Look, Without, Dropped
  <2>2. CASE Finish(c)
    <3> DEFINE k0 == calls[c].question
    <3>1. PICK value \in calls[c].got : Insert(k0, value, calls[c].ttl)
      BY <2>2 DEF Finish
    <3>2. ~(calls[c].ttl = 0 \/ Cap = 0)
      BY <3>1 DEF Insert
    <3>3. PICK kept \in Kept(k0) :
            cache' = [k \in kept \cup {k0} |->
                       IF k = k0 THEN [value |-> value, expires |-> now + calls[c].ttl] ELSE cache[k]]
      BY <3>1, <3>2 DEF Insert
    <3>4. DOMAIN cache' = kept \cup {k0} /\ q \notin kept /\ q # k0
      BY <3>3
    <3>5. CASE kept = DOMAIN cache
      BY <3>4, <3>5
    <3>6. CASE kept = Live
      BY <3>4, <3>6 DEF Live, Dropped
    <3>7. ASSUME NEW victim \in Soonest(Live), kept = Live \ {victim},
                 k0 \notin DOMAIN cache, ~(Cardinality(DOMAIN cache) < Cap)
          PROVE  Dropped(q)
      <4>1. CASE q \notin Live
        BY <4>1 DEF Live, Dropped
      <4>2. CASE q \in Live
        <5>1. q = victim /\ \A k \in Live : cache[q].expires <= cache[k].expires
          BY <3>4, <3>7, <4>2 DEF Soonest
        <5>2. Cardinality(DOMAIN cache) \in Nat /\ Cardinality(DOMAIN cache) >= Cap
          BY <3>7, FS_CardinalityType, ServingAssumption DEF ServingInv, CacheHonest
        <5>3. \A k \in DOMAIN cache \cap DOMAIN cache' : k \in Live /\ Fresh(k)
          BY <3>4, <3>7 DEF Live
        <5>4. QED
          BY <5>1, <5>2, <5>3 DEF Dropped
      <4>3. QED
        BY <4>1, <4>2
    <3>8. QED
      BY <3>5, <3>6, <3>7 DEF Kept
  <2>3. CASE ~Look(c) /\ ~Finish(c)
    BY <1>1, <2>3
    DEF CallStep, Call, WarmUp, Route, Check, CheckReplied, CheckGarbled, Pass, Refuse, Served, Fails
  <2>4. QED
    BY <2>1, <2>2, <2>3
<1>2. CASE Tick
  BY <1>2 DEF Tick
<1>3. CASE CrashServing
  BY <1>3 DEF CrashServing, Crash, Dropped, Up, ServingInv, ServingTypeOK
<1>4. CASE FilesNext /\ UNCHANGED servingVars
  BY <1>4 DEF servingVars
<1>5. QED
  BY <1>1, <1>2, <1>3, <1>4 DEF ServingNext

(* The cache never outgrows its bound, and gives up an entry that is still good only for want of
   room, the one that expires first. *)
THEOREM ServingEvicts == ServingSpec => EvictsSoonest
<1>1. ServingInv /\ ServingInv' /\ [ServingNext]_<<filesVars, servingVars>> =>
        [/\ Cardinality(DOMAIN cache') <= Cap
         /\ \A q \in DOMAIN cache \ DOMAIN cache' : Dropped(q)]_<<filesVars, servingVars>>
  BY DropsSoonest DEF ServingInv, CacheHonest
<1>2. QED
  BY <1>1, ServingInvariant, PTL DEF ServingSpec, EvictsSoonest

=============================================================================
