------------------------------ MODULE Clients ------------------------------
(***************************************************************************)
(* The clients of a hosted server (src/crates/store/src/db.rs, hosted.rs):  *)
(* their records and counters live in sqlite, written by one worker thread, *)
(* and in memory, where requests read them.  Admin API handlers change the  *)
(* records; requests are authenticated, checked, counted and spend credits; *)
(* `clients create` of the command line writes the same file from another   *)
(* process; the server is stopped by a signal, which drops what is queued.  *)
(*                                                                         *)
(* A counter job adds to one row and commutes with every other, so counter  *)
(* jobs are counted (`queued`) and not ordered; jobs of the admin API are.  *)
(* The request counter is the day's, the credit counter the month's: those  *)
(* are the ones a limit reads.  The count of throttled requests is left out *)
(* (the dashboard shows it and nothing else reads it), and whether the      *)
(* per-minute bucket has a token is left open.                              *)
(***************************************************************************)
EXTENDS Integers, Sequences, FiniteSets

CONSTANTS
  Client,      \* ids that create_client may draw; a client's key stands for the id
  Admin,       \* admin API handlers that may run at the same time
  Request,     \* requests of clients that may run at the same time
  Limits,      \* overrides a record may carry
  None,        \* no override: the limits of the configuration
  Daily,       \* Daily[l]: effective daily_requests of a record with override l, or NoLimit
  Monthly,     \* Monthly[l]: its effective monthly_credits, or NoLimit
  MaxSpend,    \* the credits one tool call may spend
  Ops,         \* kinds of edits the admin API is asked for in this instance
  Orphan,      \* stands for a handler that is gone, as the owner of a job
  MayFail,     \* whether a statement may fail (another process holds the file, disk full)
  QueueBound,  \* bound: unfinished jobs of the admin API
  StopBound    \* bound: times the server is stopped

NoLimit == -1
Kind == {"create", "revoke", "limits"}
Field == {"requests", "credits"}

ASSUME ClientsAssumption ==
  /\ None \in Limits
  /\ Daily \in [Limits -> Nat \cup {NoLimit}] /\ Monthly \in [Limits -> Nat \cup {NoLimit}]
  /\ MaxSpend \in Nat
  /\ Ops \subseteq Kind
  /\ Orphan \notin Admin
  /\ MayFail \in BOOLEAN
  /\ QueueBound \in Nat /\ StopBound \in Nat

VARIABLES
  up,        \* the server runs
  stops,     \* how often it was stopped, for StopBound
  disk,      \* disk[c]: the row of the clients table
  mirror,    \* mirror[c]: the record in memory
  queue,     \* jobs of the admin API that the worker has not run yet
  phase,     \* phase[a]: what handler a waits for
  edit,      \* edit[a]: the edit it makes
  key,       \* key[c]: who was shown the key of c
  revoked,   \* history: clients whose revocation was answered with success
  usage,     \* usage[c]: counters in memory
  saved,     \* saved[c]: counters on disk
  queued,    \* queued[c]: additions the worker has not written yet
  at, who, limits, left,   \* request q: its place, client, limits read (while checked), credits it may spend
  happened,  \* history: requests admitted and credits spent in the window
  lost       \* history: those of them that will never be on disk

records == <<disk, mirror, queue, phase, edit, key, revoked>>
counters == <<usage, saved, queued, happened, lost>>
requests == <<at, who, limits, left>>
vars == <<up, stops, records, counters, requests>>

Status == {"absent", "active", "revoked"}
Record == [status : Status, limits : Limits]
Absent == [status |-> "absent", limits |-> None]

\* An edit carries the whole record that goes to memory when its statement is done.
Edit == [kind : Kind, client : Client, rec : Record]
NoEdit == [kind |-> "none"]
Job == [by : Admin \cup {Orphan}, edit : Edit]

Zero == [f \in Field |-> 0]

Init ==
  /\ up = FALSE /\ stops = 0
  /\ disk = [c \in Client |-> Absent]
  /\ mirror = [c \in Client |-> Absent]
  /\ queue = <<>>
  /\ phase = [a \in Admin |-> "idle"]
  /\ edit = [a \in Admin |-> NoEdit]
  /\ key = [c \in Client |-> "unused"]
  /\ revoked = {}
  /\ usage = [c \in Client |-> Zero]
  /\ saved = [c \in Client |-> Zero]
  /\ queued = [c \in Client |-> Zero]
  /\ happened = [c \in Client |-> Zero]
  /\ lost = [c \in Client |-> Zero]
  /\ at = [q \in Request |-> "idle"]
  /\ who \in [Request -> Client]
  /\ limits = [q \in Request |-> None]
  /\ left = [q \in Request |-> 0]

-----------------------------------------------------------------------------
(***************************************************************************)
(* The admin API.  A handler reads the record in memory, queues a statement,*)
(* waits for the worker and writes the record it read, edited, to memory.   *)
(***************************************************************************)
Submit(a, e) ==
  /\ up /\ phase[a] = "idle"
  /\ Len(queue) < QueueBound
  /\ queue' = Append(queue, [by |-> a, edit |-> e])
  /\ phase' = [phase EXCEPT ![a] = "waiting"]
  /\ edit' = [edit EXCEPT ![a] = e]
  /\ UNCHANGED <<up, stops, disk, mirror, revoked, counters, requests>>

\* create_client draws a fresh id and key.
Create(a, c, l) ==
  /\ "create" \in Ops
  /\ key[c] = "unused"
  /\ key' = [key EXCEPT ![c] = "drawn"]
  /\ Submit(a, [kind |-> "create", client |-> c, rec |-> [status |-> "active", limits |-> l]])

\* revoke_client and set_client_limits; an unknown id is answered at once.
Revoke(a, c) ==
  /\ "revoke" \in Ops
  /\ mirror[c].status # "absent"
  /\ Submit(a, [kind |-> "revoke", client |-> c, rec |-> [mirror[c] EXCEPT !.status = "revoked"]])
  /\ UNCHANGED key

SetLimits(a, c, l) ==
  /\ "limits" \in Ops
  /\ mirror[c].status # "absent"
  /\ Submit(a, [kind |-> "limits", client |-> c, rec |-> [mirror[c] EXCEPT !.limits = l]])
  /\ UNCHANGED key

\* What each statement leaves in the row: an UPDATE sets one column.
\* Mutants: the limits, or the revocation, write the whole record the handler read.
MutantLimitsWriteRow(old, e) ==
  CASE e.kind \in {"create", "limits"} -> e.rec
    [] e.kind = "revoke" -> [old EXCEPT !.status = e.rec.status]
MutantRevokeWritesRow(old, e) ==
  CASE e.kind \in {"create", "revoke"} -> e.rec
    [] e.kind = "limits" -> [old EXCEPT !.limits = e.rec.limits]
Written(old, e) ==
  CASE e.kind = "create" -> e.rec
    [] e.kind = "revoke" -> [old EXCEPT !.status = e.rec.status]
    [] e.kind = "limits" -> [old EXCEPT !.limits = e.rec.limits]

\* The worker runs the next job and answers its handler, if that is still there.
Answer(outcome) ==
  /\ up /\ queue # <<>>
  /\ queue' = Tail(queue)
  /\ phase' = IF Head(queue).by \in Admin
              THEN [phase EXCEPT ![Head(queue).by] = outcome] ELSE phase
  /\ UNCHANGED <<up, stops, mirror, edit, key, revoked, counters, requests>>

Execute ==
  /\ Answer("done")
  /\ LET e == Head(queue).edit IN
       disk' = [disk EXCEPT ![e.client] = Written(@, e)]

\* Mutant: the error of the statement is not looked at (`await?` for `await??`).
MutantErrorUnseen == MayFail /\ Answer("done") /\ UNCHANGED disk
ExecuteFails == MayFail /\ Answer("failed") /\ UNCHANGED disk

\* The handler goes on with the worker's answer; `Ok` reaches the operator.
Release(a) ==
  /\ phase' = [phase EXCEPT ![a] = "idle"]
  /\ edit' = [edit EXCEPT ![a] = NoEdit]

\* Mutant: a revocation changes the row only.
MutantRememberOthers(e) ==
  IF e.kind = "revoke" THEN UNCHANGED mirror
  ELSE mirror' = [mirror EXCEPT ![e.client] = e.rec]
Remember(e) == mirror' = [mirror EXCEPT ![e.client] = e.rec]

Complete(a) ==
  /\ phase[a] = "done"
  /\ LET e == edit[a] IN
       /\ Remember(e)
       /\ revoked' = IF e.kind = "revoke" THEN revoked \cup {e.client} ELSE revoked
       /\ key' = IF e.kind = "create" THEN [key EXCEPT ![e.client] = "dashboard"] ELSE key
  /\ Release(a)
  /\ UNCHANGED <<up, stops, disk, queue, counters, requests>>

Fail(a) ==
  /\ phase[a] = "failed"
  /\ Release(a)
  /\ UNCHANGED <<up, stops, disk, mirror, queue, key, revoked, counters, requests>>

\* The operator disconnects and the handler's future is dropped; its job stays queued.
Disconnect(a) ==
  /\ phase[a] # "idle"
  /\ queue' = [i \in DOMAIN queue |->
                 IF queue[i].by = a THEN [queue[i] EXCEPT !.by = Orphan] ELSE queue[i]]
  /\ Release(a)
  /\ UNCHANGED <<up, stops, disk, mirror, key, revoked, counters, requests>>

\* `clients create` in a process of its own: the row, and no record in this server's memory.
CliCreate(c) ==
  /\ key[c] = "unused"
  /\ key' = [key EXCEPT ![c] = "cli"]
  /\ disk' = [disk EXCEPT ![c] = [status |-> "active", limits |-> None]]
  /\ UNCHANGED <<up, stops, mirror, queue, phase, edit, revoked, counters, requests>>

-----------------------------------------------------------------------------
(***************************************************************************)
(* Requests.  The transport authenticates the key; later the guard looks the*)
(* client up again for its limits, and then checks both quotas and counts   *)
(* the request under one lock.  Between two of these the task or its thread *)
(* may be overtaken.                                                        *)
(***************************************************************************)
Active(rec) == rec.status = "active"
Step(q, place) == at' = [at EXCEPT ![q] = place]

\* ClientKeyAuth::authenticate; a key nobody was shown is not presented.
Authenticate(q, c) ==
  /\ up /\ at[q] = "idle"
  /\ key[c] \in {"dashboard", "cli"}
  /\ Active(mirror[c])
  /\ Step(q, "authenticated")
  /\ who' = [who EXCEPT ![q] = c]
  /\ UNCHANGED <<up, stops, records, counters, limits, left>>

\* ClientGuard::admit, up to the limits of the record; Leave is its refusal.
Check(q) ==
  /\ at[q] = "authenticated"
  /\ Active(mirror[who[q]])
  /\ Step(q, "checked")
  /\ limits' = [limits EXCEPT ![q] = mirror[who[q]].limits]
  /\ UNCHANGED <<up, stops, records, counters, who, left>>

\* admit_client: both quotas have room, and one request is counted.
\* Mutants: the request that reaches the limit is let in; credits are not looked at.
MutantRoomAtLimit(count, limit) == limit = NoLimit \/ count <= limit
HasRoom(count, limit) == limit = NoLimit \/ count < limit
MutantRequestsOnly(c, l) == HasRoom(usage[c].requests, Daily[l])
Within(c, l) ==
  /\ HasRoom(usage[c].requests, Daily[l])
  /\ HasRoom(usage[c].credits, Monthly[l])

\* One more request or credit of client c: in memory at once, on disk later (bump_client).
Bump(c, f) ==
  /\ usage' = [usage EXCEPT ![c][f] = @ + 1]
  /\ queued' = [queued EXCEPT ![c][f] = @ + 1]
  /\ happened' = [happened EXCEPT ![c][f] = @ + 1]
  /\ UNCHANGED <<saved, lost>>

Admit(q) ==
  /\ at[q] = "checked"
  /\ Within(who[q], limits[q])
  /\ Bump(who[q], "requests")
  /\ Step(q, "running")
  /\ limits' = [limits EXCEPT ![q] = None]
  /\ left' = [left EXCEPT ![q] = MaxSpend]
  /\ UNCHANGED <<up, stops, records, who>>

\* A vendor request on the client's behalf (CounterStore::add with a client).
\* Mutant: a call spends without end.
MutantSpendOn(q) ==
  /\ at[q] = "running"
  /\ Bump(who[q], "credits")
  /\ left' = [left EXCEPT ![q] = @ - 1]
  /\ UNCHANGED <<up, stops, records, at, who, limits>>
Spend(q) ==
  /\ at[q] = "running" /\ left[q] > 0
  /\ Bump(who[q], "credits")
  /\ left' = [left EXCEPT ![q] = @ - 1]
  /\ UNCHANGED <<up, stops, records, at, who, limits>>

\* The request is refused at any of its checks, returns, or its caller disconnects.
Leave(q) ==
  /\ at[q] # "idle"
  /\ Step(q, "idle")
  /\ limits' = [limits EXCEPT ![q] = None]
  /\ left' = [left EXCEPT ![q] = 0]
  /\ UNCHANGED <<up, stops, records, counters, who>>

\* The worker writes one counter job; a failed statement is only logged (submit).
Write(c, f) ==
  /\ up /\ queued[c][f] > 0
  /\ queued' = [queued EXCEPT ![c][f] = @ - 1]
  /\ saved' = [saved EXCEPT ![c][f] = @ + 1]
  /\ UNCHANGED <<up, stops, records, usage, happened, lost, requests>>

WriteFails(c, f) ==
  /\ MayFail
  /\ up /\ queued[c][f] > 0
  /\ queued' = [queued EXCEPT ![c][f] = @ - 1]
  /\ lost' = [lost EXCEPT ![c][f] = @ + 1]
  /\ UNCHANGED <<up, stops, records, usage, saved, happened, requests>>

-----------------------------------------------------------------------------
(***************************************************************************)
(* The hosted server has no shutdown of its own: a signal ends the process, *)
(* with its queue and its memory.  Started again it loads what is on disk,  *)
(* and refuses to serve without an active client (wiring::build).           *)
(***************************************************************************)
Stop ==
  /\ up /\ stops < StopBound
  /\ up' = FALSE /\ stops' = stops + 1
  /\ mirror' = [c \in Client |-> Absent]
  /\ queue' = <<>>
  /\ phase' = [a \in Admin |-> "idle"]
  /\ edit' = [a \in Admin |-> NoEdit]
  /\ usage' = [c \in Client |-> Zero]
  /\ queued' = [c \in Client |-> Zero]
  /\ lost' = [c \in Client |-> [f \in Field |-> lost[c][f] + queued[c][f]]]
  /\ at' = [q \in Request |-> "idle"]
  /\ limits' = [q \in Request |-> None]
  /\ left' = [q \in Request |-> 0]
  /\ UNCHANGED <<disk, key, revoked, saved, happened, who>>

\* Mutant: the counters are not loaded.
MutantStartFromZero ==
  /\ ~up
  /\ \E c \in Client : Active(disk[c])
  /\ up' = TRUE
  /\ mirror' = disk
  /\ UNCHANGED <<stops, disk, queue, phase, edit, key, revoked, counters, requests>>
Start ==
  /\ ~up
  /\ \E c \in Client : Active(disk[c])
  /\ up' = TRUE
  /\ mirror' = disk
  /\ usage' = saved
  /\ UNCHANGED <<stops, disk, queue, phase, edit, key, revoked, saved, queued, happened, lost, requests>>

\* A new day or month: counters live under the window's name, so f starts from zero.
NewWindow(f) ==
  LET Reset(n) == [c \in Client |-> [n[c] EXCEPT ![f] = 0]] IN
  /\ usage' = Reset(usage) /\ saved' = Reset(saved) /\ queued' = Reset(queued)
  /\ happened' = Reset(happened) /\ lost' = Reset(lost)
  /\ UNCHANGED <<up, stops, records, requests>>

-----------------------------------------------------------------------------
Handle(a) ==
  \/ \E c \in Client :
       \/ Revoke(a, c)
       \/ \E l \in Limits : Create(a, c, l) \/ SetLimits(a, c, l)
  \/ Complete(a) \/ Fail(a)
  \/ Disconnect(a)

Serve(q) ==
  \/ \E c \in Client : Authenticate(q, c)
  \/ Check(q) \/ Admit(q) \/ Spend(q)
  \/ Leave(q)

Next ==
  \/ \E a \in Admin : Handle(a)
  \/ Execute \/ ExecuteFails
  \/ \E c \in Client : CliCreate(c)
  \/ \E q \in Request : Serve(q)
  \/ \E c \in Client, f \in Field : Write(c, f) \/ WriteFails(c, f)
  \/ Stop \/ Start
  \/ \E f \in Field : NewWindow(f)

Spec == Init /\ [][Next]_vars
-----------------------------------------------------------------------------
(***************************************************************************)
(* Properties.                                                              *)
(***************************************************************************)
TypeOK ==
  /\ up \in BOOLEAN /\ stops \in Nat
  /\ disk \in [Client -> Record]
  /\ mirror \in [Client -> Record]
  /\ queue \in Seq(Job)
  /\ phase \in [Admin -> {"idle", "waiting", "done", "failed"}]
  /\ edit \in [Admin -> Edit \cup {NoEdit}]
  /\ key \in [Client -> {"unused", "drawn", "dashboard", "cli"}]
  /\ revoked \subseteq Client
  /\ usage \in [Client -> [Field -> Nat]]
  /\ saved \in [Client -> [Field -> Nat]]
  /\ queued \in [Client -> [Field -> Nat]]
  /\ happened \in [Client -> [Field -> Nat]]
  /\ lost \in [Client -> [Field -> Nat]]
  /\ at \in [Request -> {"idle", "authenticated", "checked", "running"}]
  /\ who \in [Request -> Client]
  /\ limits \in [Request -> Limits]
  /\ left \in [Request -> 0..MaxSpend]

(* A revocation that was answered with success is on disk for good, whatever other edits,
   disconnects, failed statements and stops surround it: no statement takes it back, and
   the answer is given only after its own was run (revoke_client). *)
RevocationDurable == \A c \in revoked : disk[c].status = "revoked"

(* A key shown by the dashboard works at once and after every restart, until its client is
   revoked: create_client writes the row first, then memory, then shows the key ("keys
   created in the dashboard work immediately", docs/TECHNICAL.md). *)
IssuedKeyWorks ==
  \A c \in Client : key[c] = "dashboard" =>
    /\ disk[c].status # "absent"
    /\ up /\ disk[c].status = "active" => Active(mirror[c])

(* Once a revocation was answered with success, the key is refused ("auth.authenticate(..)
   .is_err()" after revoke_client in the test of hosted.rs). *)
RevokedRefused == up => \A c \in revoked : ~Active(mirror[c])

(* Every request admitted and credit spent is accounted for: it is on disk, queued for it,
   or was lost with a stop or a failed statement; and what memory counts is between what
   disk and queue hold and what happened (admit_client, add, bump_client, start). *)
CountersAccounted ==
  \A c \in Client, f \in Field :
    /\ happened[c][f] = saved[c][f] + queued[c][f] + lost[c][f]
    /\ up => /\ saved[c][f] + queued[c][f] <= usage[c][f]
             /\ usage[c][f] <= happened[c][f]

(* No client gets more requests in a day than the most generous limits it had allow, except
   as many as were admitted before a stop and never reached the disk. *)
DailyQuotaKept ==
  \A c \in Client : \E l \in Limits :
    Daily[l] = NoLimit \/ happened[c].requests <= Daily[l] + lost[c].requests

(* The month's credits are checked before a call and spent during it: a client may exceed
   them, but only by what the calls in flight at the limit may spend, and by what was lost. *)
LastBelow(limit) == IF limit = 0 THEN 0 ELSE limit - 1
CreditsOvershootBounded ==
  \A c \in Client : \E l \in Limits :
    \/ Monthly[l] = NoLimit
    \/ happened[c].credits <= LastBelow(Monthly[l]) + Cardinality(Request) * MaxSpend
                               + lost[c].credits

(* The clients table implements the directory: creation, revocation and limits each take
   effect in one step and revocation is final, through every failure modelled here. *)
Directory == INSTANCE ClientDirectory WITH row <- disk
DirectorySpec == Directory!Spec
=============================================================================
