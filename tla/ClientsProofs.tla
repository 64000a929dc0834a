--------------------------- MODULE ClientsProofs ---------------------------
(***************************************************************************)
(* Theorems about Clients, for every set of clients, operators, requests    *)
(* and limits, and every bound.                                             *)
(***************************************************************************)
EXTENDS Clients, SequenceTheorems, FiniteSetTheorems, TLAPS

-----------------------------------------------------------------------------
(***************************************************************************)
(* The inductive invariant of the records.  Sound is what is known of an    *)
(* edit from the moment it is submitted until its handler is done; it can   *)
(* only become truer as the disk moves on.                                  *)
(***************************************************************************)
Shape(e) ==
  /\ e \in Edit
  /\ e.kind = "create" => e.rec.status = "active"
  /\ e.kind = "revoke" => e.rec.status = "revoked"
  /\ e.kind = "limits" => e.rec.status # "absent"

Sound(rows, keys, e) ==
  /\ Shape(e)
  /\ e.kind = "create" => keys[e.client] # "unused"
  /\ e.kind # "create" => rows[e.client].status # "absent"
  /\ e.kind = "limits" /\ e.rec.status = "revoked" => rows[e.client].status = "revoked"

\* A queued job is its handler's own, and the only one; an id is created once.
QueueInv ==
  /\ \A i \in 1..Len(queue) :
       /\ Sound(disk, key, queue[i].edit)
       /\ queue[i].by \in Admin =>
            phase[queue[i].by] = "waiting" /\ edit[queue[i].by] = queue[i].edit
       /\ queue[i].edit.kind = "create" => disk[queue[i].edit.client].status = "absent"
  /\ \A i, j \in 1..Len(queue) : i # j =>
       /\ queue[i].by \in Admin => queue[i].by # queue[j].by
       /\ queue[i].edit.kind = "create" /\ queue[j].edit.kind = "create"
            => queue[i].edit.client # queue[j].edit.client

\* A handler that was answered knows its statement on disk.
HandlerInv ==
  \A a \in Admin :
    /\ phase[a] # "idle" => Sound(disk, key, edit[a])
    /\ phase[a] = "done" => disk[edit[a].client].status # "absent"
    /\ phase[a] = "done" /\ edit[a].kind = "revoke" => disk[edit[a].client].status = "revoked"

\* Memory is never ahead of the disk.
RowInv ==
  \A c \in Client :
    /\ mirror[c].status # "absent" => disk[c].status # "absent"
    /\ mirror[c].status = "revoked" => disk[c].status = "revoked"
    /\ key[c] = "unused" => disk[c].status = "absent"
    /\ key[c] = "dashboard" =>
         disk[c].status # "absent" /\ (up => mirror[c].status # "absent")
    /\ c \in revoked => disk[c].status = "revoked"

RecordsInv == QueueInv /\ HandlerInv /\ RowInv

(***************************************************************************)
(* The inductive invariant of the counters.                                 *)
(***************************************************************************)
Account(c, f) ==
  /\ happened[c][f] = saved[c][f] + queued[c][f] + lost[c][f]
  /\ up => /\ saved[c][f] + queued[c][f] <= usage[c][f]
           /\ usage[c][f] <= happened[c][f]
  /\ ~up => queued[c][f] = 0

CountersInv ==
  /\ \A q \in Request : at[q] # "idle" => up
  /\ \A c \in Client, f \in Field : Account(c, f)

-----------------------------------------------------------------------------
(***************************************************************************)
(* Types.                                                                   *)
(***************************************************************************)

(* What a statement leaves in a row is a row (the SQL of db.rs). *)
LEMMA WrittenType ==
  ASSUME NEW old \in Record, NEW e \in Edit
  PROVE  Written(old, e) \in Record
<1>1. /\ e.kind \in Kind /\ e.rec \in Record
      /\ [old EXCEPT !.status = e.rec.status] \in Record
      /\ [old EXCEPT !.limits = e.rec.limits] \in Record
  BY DEF Edit, Record
<1>2. QED
  BY <1>1 DEF Written, Kind

(* A queue keeps its type when a job is appended, taken, or loses its handler. *)
LEMMA QueueTypes ==
  ASSUME NEW s \in Seq(Job)
  PROVE  /\ \A j \in Job : Append(s, j) \in Seq(Job)
         /\ s # <<>> => Tail(s) \in Seq(Job) /\ Head(s) \in Job
         /\ \A a \in Admin :
              [i \in DOMAIN s |-> IF s[i].by = a THEN [s[i] EXCEPT !.by = Orphan] ELSE s[i]]
                \in Seq(Job)
<1>1. \A j \in Job : Append(s, j) \in Seq(Job)
  OBVIOUS
<1>2. s # <<>> => Tail(s) \in Seq(Job) /\ Head(s) \in Job
  OBVIOUS
<1>3. ASSUME NEW a \in Admin
      PROVE  [i \in DOMAIN s |-> IF s[i].by = a THEN [s[i] EXCEPT !.by = Orphan] ELSE s[i]]
               \in Seq(Job)
  <2>1. \A i \in 1..Len(s) :
          (IF s[i].by = a THEN [s[i] EXCEPT !.by = Orphan] ELSE s[i]) \in Job
    <3>1. TAKE i \in 1..Len(s)
    <3>2. s[i] \in Job
      OBVIOUS
    <3>3. [s[i] EXCEPT !.by = Orphan] \in Job
      BY <3>2 DEF Job
    <3>4. QED
      BY <3>2, <3>3
  <2>2. DOMAIN s = 1..Len(s) /\ Len(s) \in Nat
    OBVIOUS
  <2>3. QED
    BY <2>1, <2>2, SeqDef
<1>4. QED
  BY <1>1, <1>2, <1>3

(* Submitting an edit keeps the types (Store::call). *)
LEMMA SubmitType ==
  ASSUME TypeOK, NEW a \in Admin, NEW e \in Edit, Submit(a, e),
         key' \in [Client -> {"unused", "drawn", "dashboard", "cli"}]
  PROVE  TypeOK'
<1>1. [by |-> a, edit |-> e] \in Job
  BY DEF Job
<1>2. queue' \in Seq(Job)
  BY <1>1, QueueTypes DEF Submit, TypeOK
<1>3. edit' \in [Admin -> Edit \cup {NoEdit}]
  BY DEF Submit, TypeOK
<1>4. phase' \in [Admin -> {"idle", "waiting", "done", "failed"}]
  BY DEF Submit, TypeOK
<1>5. QED
  BY <1>2, <1>3, <1>4 DEF Submit, TypeOK, counters, requests

(* The edits the admin API submits are edits (create_client, revoke_client, set_client_limits). *)
LEMMA EditTypes ==
  ASSUME TypeOK, NEW c \in Client, NEW l \in Limits
  PROVE  /\ [kind |-> "create", client |-> c, rec |-> [status |-> "active", limits |-> l]] \in Edit
         /\ [kind |-> "revoke", client |-> c, rec |-> [mirror[c] EXCEPT !.status = "revoked"]] \in Edit
         /\ [kind |-> "limits", client |-> c, rec |-> [mirror[c] EXCEPT !.limits = l]] \in Edit
<1>1. /\ mirror[c] \in Record
      /\ [status |-> "active", limits |-> l] \in Record
      /\ [mirror[c] EXCEPT !.status = "revoked"] \in Record
      /\ [mirror[c] EXCEPT !.limits = l] \in Record
  BY DEF TypeOK, Record, Status
<1>2. {"create", "revoke", "limits"} \subseteq Kind
  BY DEF Kind
<1>3. \A k \in Kind, r \in Record : [kind |-> k, client |-> c, rec |-> r] \in Edit
  BY DEF Edit
<1>4. QED
  BY <1>1, <1>2, <1>3

(* Every step of the admin API and of the worker keeps the types. *)
LEMMA RecordsTypeStep ==
  ASSUME TypeOK, HandlerInv,
         \/ \E a \in Admin : Handle(a)
         \/ Execute \/ ExecuteFails
         \/ \E c \in Client : CliCreate(c)
  PROVE  TypeOK'
<1>1. ASSUME NEW a \in Admin, Handle(a) PROVE TypeOK'
  <2>1. ASSUME NEW c \in Client, Revoke(a, c) PROVE TypeOK'
    BY <2>1, SubmitType, EditTypes, ClientsAssumption DEF Revoke, TypeOK
  <2>2. ASSUME NEW c \in Client, NEW l \in Limits, Create(a, c, l) PROVE TypeOK'
    <3>1. key' \in [Client -> {"unused", "drawn", "dashboard", "cli"}]
      BY <2>2 DEF Create, TypeOK
    <3>2. QED
      BY <2>2, <3>1, SubmitType, EditTypes DEF Create
  <2>3. ASSUME NEW c \in Client, NEW l \in Limits, SetLimits(a, c, l) PROVE TypeOK'
    BY <2>3, SubmitType, EditTypes DEF SetLimits, TypeOK
  <2>4. CASE Complete(a)
    <3>1. phase' \in [Admin -> {"idle", "waiting", "done", "failed"}]
          /\ edit' \in [Admin -> Edit \cup {NoEdit}]
      BY <2>4 DEF Complete, Release, TypeOK
    <3>2. edit[a].client \in Client /\ edit[a].rec \in Record
      BY <2>4 DEF HandlerInv, Complete, Sound, Shape, Edit
    <3>3. mirror' \in [Client -> Record]
      BY <2>4, <3>2 DEF Complete, Remember, TypeOK
    <3>4. revoked' \subseteq Client
      BY <2>4, <3>2 DEF Complete, TypeOK
    <3>5. key' \in [Client -> {"unused", "drawn", "dashboard", "cli"}]
      BY <2>4, <3>2 DEF Complete, TypeOK
    <3>6. QED
      BY <2>4, <3>1, <3>3, <3>4, <3>5 DEF Complete, TypeOK, counters, requests
  <2>5. CASE Fail(a)
    BY <2>5 DEF Fail, Release, TypeOK, counters, requests
  <2>6. CASE Disconnect(a)
    <3>1. queue' \in Seq(Job)
      BY <2>6, QueueTypes DEF Disconnect, TypeOK
    <3>2. QED
      BY <2>6, <3>1 DEF Disconnect, Release, TypeOK, counters, requests
  <2>7. QED
    BY <1>1, <2>1, <2>2, <2>3, <2>4, <2>5, <2>6 DEF Handle
<1>2. ASSUME NEW outcome \in {"done", "failed"}, Answer(outcome)
      PROVE  /\ queue' \in Seq(Job)
             /\ phase' \in [Admin -> {"idle", "waiting", "done", "failed"}]
             /\ Head(queue) \in Job
  BY <1>2, QueueTypes DEF Answer, TypeOK
<1>3. CASE Execute
  <2>1. Head(queue).edit \in Edit
    BY <1>2, <1>3 DEF Execute, Job
  <2>2. disk' \in [Client -> Record]
    <3>1. Head(queue).edit.client \in Client
      BY <2>1 DEF Edit
    <3>2. Written(disk[Head(queue).edit.client], Head(queue).edit) \in Record
      BY <2>1, <3>1, WrittenType DEF TypeOK
    <3>3. QED
      BY <1>3, <3>1, <3>2 DEF Execute, TypeOK
  <2>3. QED
    BY <1>2, <1>3, <2>2 DEF Execute, Answer, TypeOK, counters, requests
<1>4. CASE ExecuteFails
  BY <1>2, <1>4 DEF ExecuteFails, Answer, TypeOK, counters, requests
<1>5. ASSUME NEW c \in Client, CliCreate(c) PROVE TypeOK'
  <2>1. [status |-> "active", limits |-> None] \in Record
    BY ClientsAssumption DEF Record, Status
  <2>2. disk' \in [Client -> Record]
    BY <1>5, <2>1 DEF CliCreate, TypeOK
  <2>3. key' \in [Client -> {"unused", "drawn", "dashboard", "cli"}]
    BY <1>5 DEF CliCreate, TypeOK
  <2>4. QED
    BY <1>5, <2>2, <2>3 DEF CliCreate, TypeOK, counters, requests
<1>6. QED
  BY <1>1, <1>3, <1>4, <1>5

(* A table of counters stays one when one counter is moved by one, or a field is reset. *)
LEMMA CounterTypes ==
  ASSUME NEW n \in [Client -> [Field -> Nat]], NEW c \in Client, NEW f \in Field
  PROVE  /\ [n EXCEPT ![c][f] = @ + 1] \in [Client -> [Field -> Nat]]
         /\ n[c][f] > 0 => [n EXCEPT ![c][f] = @ - 1] \in [Client -> [Field -> Nat]]
<1>1. n[c] \in [Field -> Nat] /\ n[c][f] \in Nat
  OBVIOUS
<1>2. [n[c] EXCEPT ![f] = @ + 1] \in [Field -> Nat]
  BY <1>1
<1>3. n[c][f] > 0 => [n[c] EXCEPT ![f] = @ - 1] \in [Field -> Nat]
  <2>1. n[c][f] > 0 => n[c][f] - 1 \in Nat
    BY <1>1
  <2>2. QED
    BY <1>1, <2>1
<1>4. QED
  BY <1>2, <1>3

(* Every step of a request, of the worker on the counters, of the process and of the
   calendar keeps the types. *)
LEMMA ServiceTypeStep ==
  ASSUME TypeOK,
         \/ \E q \in Request : Serve(q)
         \/ \E c \in Client, f \in Field : Write(c, f) \/ WriteFails(c, f)
         \/ Stop \/ Start
         \/ \E f \in Field : NewWindow(f)
  PROVE  TypeOK'
<1>1. ASSUME NEW q \in Request, Serve(q) PROVE TypeOK'
  <2>1. ASSUME NEW c \in Client, Authenticate(q, c) PROVE TypeOK'
    BY <2>1 DEF Authenticate, Step, TypeOK, records, counters
  <2>2. CASE Check(q)
    <3>1. mirror[who[q]].limits \in Limits
      BY DEF TypeOK, Record
    <3>2. QED
      BY <2>2, <3>1 DEF Check, Step, TypeOK, records, counters
  <2>3. CASE Admit(q)
    <3>1. /\ usage' \in [Client -> [Field -> Nat]]
          /\ queued' \in [Client -> [Field -> Nat]]
          /\ happened' \in [Client -> [Field -> Nat]]
      <4>1. who[q] \in Client /\ "requests" \in Field
        BY DEF TypeOK, Field
      <4>2. QED
        BY <2>3, <4>1, CounterTypes DEF Admit, Bump, TypeOK
    <3>2. left' \in [Request -> 0..MaxSpend]
      BY <2>3, ClientsAssumption DEF Admit, TypeOK
    <3>3. QED
      BY <2>3, <3>1, <3>2, ClientsAssumption DEF Admit, Bump, Step, TypeOK, records
  <2>4. CASE Spend(q)
    <3>1. /\ usage' \in [Client -> [Field -> Nat]]
          /\ queued' \in [Client -> [Field -> Nat]]
          /\ happened' \in [Client -> [Field -> Nat]]
      <4>1. who[q] \in Client /\ "credits" \in Field
        BY DEF TypeOK, Field
      <4>2. QED
        BY <2>4, <4>1, CounterTypes DEF Spend, Bump, TypeOK
    <3>2. left' \in [Request -> 0..MaxSpend]
      <4>1. left \in [Request -> 0..MaxSpend] /\ left[q] \in 0..MaxSpend /\ MaxSpend \in Nat
        BY ClientsAssumption DEF TypeOK
      <4>2. left[q] > 0 /\ left' = [left EXCEPT ![q] = left[q] - 1]
        BY <2>4 DEF Spend
      <4>3. left[q] - 1 \in 0..MaxSpend
        BY <4>1, <4>2
      <4>4. QED
        BY <4>1, <4>2, <4>3
    <3>3. QED
      BY <2>4, <3>1, <3>2 DEF Spend, Bump, TypeOK, records
  <2>5. CASE Leave(q)
    <3>1. None \in Limits /\ 0 \in 0..MaxSpend
      BY ClientsAssumption
    <3>2. /\ at' = [at EXCEPT ![q] = "idle"] /\ limits' = [limits EXCEPT ![q] = None]
          /\ left' = [left EXCEPT ![q] = 0]
          /\ UNCHANGED <<up, stops, records, counters, who>>
      BY <2>5 DEF Leave, Step
    <3>3. QED
      BY <3>1, <3>2 DEF TypeOK, records, counters
  <2>6. QED
    BY <1>1, <2>1, <2>2, <2>3, <2>4, <2>5 DEF Serve
<1>2. ASSUME NEW c \in Client, NEW f \in Field, Write(c, f) \/ WriteFails(c, f) PROVE TypeOK'
  <2>1. /\ queued' \in [Client -> [Field -> Nat]]
        /\ saved' \in [Client -> [Field -> Nat]]
        /\ lost' \in [Client -> [Field -> Nat]]
    <3>1. CASE Write(c, f)
      BY <3>1, CounterTypes DEF Write, TypeOK
    <3>2. CASE WriteFails(c, f)
      BY <3>2, CounterTypes DEF WriteFails, TypeOK
    <3>3. QED
      BY <1>2, <3>1, <3>2
  <2>2. QED
    BY <1>2, <2>1 DEF Write, WriteFails, TypeOK, records, requests
<1>3. CASE Stop
  <2>1. Absent \in Record /\ Zero \in [Field -> Nat] /\ None \in Limits /\ 0 \in 0..MaxSpend
    BY ClientsAssumption DEF Absent, Record, Status, Zero
  <2>2. lost' \in [Client -> [Field -> Nat]]
    <3>1. \A c \in Client, f \in Field : lost[c][f] + queued[c][f] \in Nat
      <4>1. lost \in [Client -> [Field -> Nat]] /\ queued \in [Client -> [Field -> Nat]]
        BY DEF TypeOK
      <4>2. \A c \in Client, f \in Field : lost[c][f] \in Nat /\ queued[c][f] \in Nat
        BY <4>1
      <4>3. QED
        BY <4>2
    <3>2. \A c \in Client : [f \in Field |-> lost[c][f] + queued[c][f]] \in [Field -> Nat]
      BY <3>1
    <3>3. QED
      BY <1>3, <3>2 DEF Stop
  <2>3. queue' \in Seq(Job)
    BY <1>3 DEF Stop
  <2>4. stops' \in Nat /\ up' \in BOOLEAN
    <3>1. stops \in Nat
      BY DEF TypeOK
    <3>2. stops' = stops + 1 /\ up' = FALSE
      BY <1>3 DEF Stop
    <3>3. stops' \in Nat
      BY <3>1, <3>2
    <3>4. up' \in BOOLEAN
      BY <3>2, Zenon
    <3>5. QED
      BY <3>3, <3>4
  <2>5. /\ mirror' \in [Client -> Record]
        /\ phase' \in [Admin -> {"idle", "waiting", "done", "failed"}]
        /\ edit' \in [Admin -> Edit \cup {NoEdit}]
    BY <1>3, <2>1 DEF Stop
  <2>6. usage' \in [Client -> [Field -> Nat]] /\ queued' \in [Client -> [Field -> Nat]]
    BY <1>3, <2>1 DEF Stop
  <2>7. /\ at' \in [Request -> {"idle", "authenticated", "checked", "running"}]
        /\ limits' \in [Request -> Limits]
        /\ left' \in [Request -> 0..MaxSpend]
    BY <1>3, <2>1 DEF Stop
  <2>8. QED
    BY <1>3, <2>2, <2>3, <2>4, <2>5, <2>6, <2>7 DEF Stop, TypeOK
<1>4. CASE Start
  BY <1>4 DEF Start, TypeOK, requests
<1>5. ASSUME NEW f \in Field, NewWindow(f) PROVE TypeOK'
  <2>1. \A n \in [Client -> [Field -> Nat]] :
          [c \in Client |-> [n[c] EXCEPT ![f] = 0]] \in [Client -> [Field -> Nat]]
    OBVIOUS
  <2>2. QED
    BY <1>5, <2>1 DEF NewWindow, TypeOK, records, requests
<1>6. QED
  BY <1>1, <1>2, <1>3, <1>4, <1>5

-----------------------------------------------------------------------------
(***************************************************************************)
(* Counters.                                                                *)
(***************************************************************************)

(* One more request or credit, counted in memory and queued, stays accounted for
   (admit_client, add). *)
LEMMA BumpAccount ==
  ASSUME TypeOK, CountersInv, up, NEW c \in Client, NEW f \in Field, Bump(c, f), up' = up
  PROVE  \A d \in Client, g \in Field : Account(d, g)'
<1>1. TAKE d \in Client, g \in Field
<1>2. /\ saved[d][g] \in Nat /\ queued[d][g] \in Nat /\ lost[d][g] \in Nat
      /\ usage[d][g] \in Nat /\ happened[d][g] \in Nat
  BY DEF TypeOK
<1>3. Account(d, g)
  BY DEF CountersInv
<1>4. saved' = saved /\ lost' = lost
  BY DEF Bump
<1>5. CASE d = c /\ g = f
  <2>1. /\ usage'[d][g] = usage[d][g] + 1
        /\ queued'[d][g] = queued[d][g] + 1
        /\ happened'[d][g] = happened[d][g] + 1
    BY <1>5 DEF Bump, TypeOK
  <2>2. QED
    BY <1>2, <1>3, <1>4, <2>1 DEF Account
<1>6. CASE ~(d = c /\ g = f)
  <2>1. /\ usage'[d][g] = usage[d][g]
        /\ queued'[d][g] = queued[d][g]
        /\ happened'[d][g] = happened[d][g]
    BY <1>6 DEF Bump, TypeOK
  <2>2. QED
    BY <1>3, <1>4, <2>1 DEF Account
<1>7. QED
  BY <1>5, <1>6

(* So does a write that is done, and one that fails (submit). *)
LEMMA WriteAccount ==
  ASSUME TypeOK, CountersInv, NEW c \in Client, NEW f \in Field, Write(c, f) \/ WriteFails(c, f)
  PROVE  \A d \in Client, g \in Field : Account(d, g)'
<1>1. TAKE d \in Client, g \in Field
<1>2. /\ saved[d][g] \in Nat /\ queued[d][g] \in Nat /\ lost[d][g] \in Nat
      /\ usage[d][g] \in Nat /\ happened[d][g] \in Nat
  BY DEF TypeOK
<1>3. Account(d, g)
  BY DEF CountersInv
<1>4. up /\ up' /\ usage' = usage /\ happened' = happened
  BY DEF Write, WriteFails
<1>5. CASE d = c /\ g = f
  <2>1. queued'[d][g] = queued[d][g] - 1 /\ queued[d][g] > 0
    BY <1>5 DEF Write, WriteFails, TypeOK
  <2>2. \/ saved'[d][g] = saved[d][g] + 1 /\ lost'[d][g] = lost[d][g]
        \/ saved'[d][g] = saved[d][g] /\ lost'[d][g] = lost[d][g] + 1
    BY <1>5 DEF Write, WriteFails, TypeOK
  <2>3. QED
    BY <1>2, <1>3, <1>4, <2>1, <2>2 DEF Account
<1>6. CASE ~(d = c /\ g = f)
  <2>1. /\ saved'[d][g] = saved[d][g]
        /\ queued'[d][g] = queued[d][g]
        /\ lost'[d][g] = lost[d][g]
    <3>1. CASE Write(c, f)
      BY <1>6, <3>1 DEF Write, TypeOK
    <3>2. CASE WriteFails(c, f)
      BY <1>6, <3>2 DEF WriteFails, TypeOK
    <3>3. QED
      BY <3>1, <3>2
  <2>2. QED
    BY <1>3, <1>4, <2>1 DEF Account
<1>7. QED
  BY <1>5, <1>6

(* A stop turns what is queued into what is lost; a start counts on from the disk. *)
LEMMA RestartAccount ==
  ASSUME TypeOK, CountersInv, Stop \/ Start
  PROVE  CountersInv'
<1>1. \A c \in Client, f \in Field :
        /\ saved[c][f] \in Nat /\ queued[c][f] \in Nat /\ lost[c][f] \in Nat
        /\ Account(c, f)
  BY DEF TypeOK, CountersInv
<1>2. CASE Stop
  <2>1. \A c \in Client, f \in Field :
          /\ queued'[c][f] = 0 /\ lost'[c][f] = lost[c][f] + queued[c][f]
          /\ saved'[c][f] = saved[c][f] /\ happened'[c][f] = happened[c][f]
    BY <1>2 DEF Stop, Zero
  <2>2. ~up' /\ \A q \in Request : at'[q] = "idle"
    BY <1>2 DEF Stop
  <2>3. \A c \in Client, f \in Field : Account(c, f)'
    BY <1>1, <2>1, <2>2 DEF Account
  <2>4. QED
    BY <2>2, <2>3 DEF CountersInv
<1>3. CASE Start
  <2>1. /\ ~up /\ up'
        /\ saved' = saved /\ queued' = queued /\ lost' = lost /\ happened' = happened
        /\ usage' = saved
    BY <1>3 DEF Start
  <2>2. ASSUME NEW c \in Client, NEW f \in Field PROVE Account(c, f)'
    <3>1. /\ queued[c][f] = 0 /\ happened[c][f] = saved[c][f] + queued[c][f] + lost[c][f]
          /\ saved[c][f] \in Nat /\ lost[c][f] \in Nat
      BY <1>1, <2>1 DEF Account
    <3>2. QED
      BY <2>1, <3>1 DEF Account
  <2>3. QED
    BY <2>1, <2>2 DEF CountersInv
<1>4. QED
  BY <1>2, <1>3

(* Every step keeps the accounts. *)
LEMMA CountersStep ==
  ASSUME TypeOK, CountersInv, [Next]_vars
  PROVE  CountersInv'
<1>1. ASSUME UNCHANGED <<up, counters, at>> PROVE CountersInv'
  BY <1>1 DEF CountersInv, Account, counters
<1>2. ASSUME NEW a \in Admin, Handle(a) PROVE CountersInv'
  <2>1. UNCHANGED <<up, counters, at>>
    BY <1>2 DEF Handle, Create, Revoke, SetLimits, Submit, Complete, Fail, Disconnect, requests
  <2>2. QED
    BY <1>1, <2>1
<1>3. ASSUME Execute \/ ExecuteFails \/ \E c \in Client : CliCreate(c) PROVE CountersInv'
  <2>1. UNCHANGED <<up, counters, at>>
    BY <1>3 DEF Execute, ExecuteFails, Answer, CliCreate, requests
  <2>2. QED
    BY <1>1, <2>1
<1>4. ASSUME NEW q \in Request, Serve(q) PROVE CountersInv'
  <2>1. CASE (\E c \in Client : Authenticate(q, c)) \/ Check(q) \/ Leave(q)
    <3>1. UNCHANGED <<up, counters>>
      BY <2>1 DEF Authenticate, Check, Leave
    <3>2. \A r \in Request : at'[r] # "idle" => up
      <4>1. CASE \E c \in Client : Authenticate(q, c)
        BY <4>1 DEF Authenticate, Step, CountersInv, TypeOK
      <4>2. CASE Check(q) \/ Leave(q)
        BY <4>2 DEF Check, Leave, Step, CountersInv, TypeOK
      <4>3. QED
        BY <2>1, <4>1, <4>2
    <3>3. QED
      BY <3>1, <3>2 DEF CountersInv, Account, counters
  <2>2. CASE Admit(q) \/ Spend(q)
    <3>1. up /\ up' = up
      BY <2>2 DEF Admit, Spend, CountersInv
    <3>2. who[q] \in Client /\ "requests" \in Field /\ "credits" \in Field
      BY DEF TypeOK, Field
    <3>3. \A d \in Client, g \in Field : Account(d, g)'
      BY <2>2, <3>1, <3>2, BumpAccount DEF Admit, Spend
    <3>4. QED
      BY <3>1, <3>3 DEF CountersInv
  <2>3. QED
    BY <1>4, <2>1, <2>2 DEF Serve
<1>5. ASSUME NEW c \in Client, NEW f \in Field, Write(c, f) \/ WriteFails(c, f)
      PROVE  CountersInv'
  <2>1. up' = up /\ at' = at
    BY <1>5 DEF Write, WriteFails, requests
  <2>2. QED
    BY <1>5, <2>1, WriteAccount DEF CountersInv
<1>6. ASSUME NEW f \in Field, NewWindow(f) PROVE CountersInv'
  <2>1. up' = up /\ at' = at
    BY <1>6 DEF NewWindow, requests
  <2>2. ASSUME NEW c \in Client, NEW g \in Field PROVE Account(c, g)'
    <3>1. Account(c, g)
      BY DEF CountersInv
    <3>2. CASE g = f
      <4>1. /\ usage'[c][g] = 0 /\ saved'[c][g] = 0 /\ queued'[c][g] = 0
            /\ happened'[c][g] = 0 /\ lost'[c][g] = 0
        BY <1>6, <3>2 DEF NewWindow, TypeOK
      <4>2. QED
        BY <4>1 DEF Account
    <3>3. CASE g # f
      <4>1. /\ usage'[c][g] = usage[c][g] /\ saved'[c][g] = saved[c][g]
            /\ queued'[c][g] = queued[c][g]
            /\ happened'[c][g] = happened[c][g] /\ lost'[c][g] = lost[c][g]
        BY <1>6, <3>3 DEF NewWindow, TypeOK
      <4>2. QED
        BY <2>1, <3>1, <4>1 DEF Account
    <3>4. QED
      BY <3>2, <3>3
  <2>3. QED
    BY <2>1, <2>2 DEF CountersInv
<1>7. CASE UNCHANGED vars
  BY <1>1, <1>7 DEF vars, requests
<1>8. QED
  BY <1>2, <1>3, <1>4, <1>5, <1>6, <1>7, RestartAccount DEF Next

-----------------------------------------------------------------------------
(***************************************************************************)
(* Records.                                                                 *)
(***************************************************************************)
Later(rows1, keys1, rows2, keys2) ==
  \A c \in Client :
    /\ rows1[c].status = "revoked" => rows2[c].status = "revoked"
    /\ rows1[c].status # "absent" => rows2[c].status # "absent"
    /\ keys2[c] = "unused" => keys1[c] = "unused"

(* What is known of an edit stays true as the disk moves on. *)
LEMMA SoundStays ==
  ASSUME NEW rows1, NEW keys1, NEW rows2, NEW keys2, NEW e,
         Later(rows1, keys1, rows2, keys2), Sound(rows1, keys1, e)
  PROVE  Sound(rows2, keys2, e)
<1>1. e.client \in Client
  BY DEF Sound, Shape, Edit
<1>2. QED
  BY <1>1 DEF Sound, Later

(* Submitting a sound edit keeps the invariant (Store::call). *)
LEMMA SubmitStep ==
  ASSUME TypeOK, RecordsInv, NEW a \in Admin, NEW e, Submit(a, e),
         Sound(disk, key', e),
         e.kind = "create" => disk[e.client].status = "absent" /\ key[e.client] = "unused",
         \A c \in Client : key'[c] = key[c] \/ (key[c] = "unused" /\ key'[c] = "drawn")
  PROVE  RecordsInv'
<1>1. /\ disk' = disk /\ mirror' = mirror /\ up' = up /\ revoked' = revoked
      /\ queue' = Append(queue, [by |-> a, edit |-> e])
      /\ phase[a] = "idle"
  BY DEF Submit
<1>2. /\ phase'[a] = "waiting" /\ edit'[a] = e
      /\ \A b \in Admin \ {a} : phase'[b] = phase[b] /\ edit'[b] = edit[b]
  BY DEF Submit, TypeOK
<1>3. Later(disk, key, disk', key')
  BY <1>1 DEF Later
<1>4. queue \in Seq(Job) /\ Len(queue) \in Nat
  BY DEF TypeOK
<1>5. /\ Len(queue') = Len(queue) + 1
      /\ queue'[Len(queue) + 1] = [by |-> a, edit |-> e]
      /\ \A i \in 1..Len(queue) : queue'[i] = queue[i]
  BY <1>1, <1>4
<1>6. \A i \in 1..Len(queue) :
        /\ Sound(disk', key', queue[i].edit)
        /\ queue[i].by \in Admin =>
             /\ queue[i].by # a
             /\ phase'[queue[i].by] = "waiting" /\ edit'[queue[i].by] = queue[i].edit
        /\ queue[i].edit.kind = "create" => disk'[queue[i].edit.client].status = "absent"
        /\ queue[i].edit.kind = "create" => key[queue[i].edit.client] # "unused"
  <2>1. TAKE i \in 1..Len(queue)
  <2>2. Sound(disk, key, queue[i].edit)
    BY DEF RecordsInv, QueueInv
  <2>3. Sound(disk', key', queue[i].edit)
    BY <1>3, <2>2, SoundStays
  <2>4. queue[i].by \in Admin => phase[queue[i].by] = "waiting" /\ edit[queue[i].by] = queue[i].edit
    BY DEF RecordsInv, QueueInv
  <2>5. queue[i].by \in Admin => queue[i].by # a
    BY <1>1, <2>4
  <2>6. queue[i].edit.kind = "create" => disk[queue[i].edit.client].status = "absent"
    BY DEF RecordsInv, QueueInv
  <2>7. queue[i].edit.kind = "create" => key[queue[i].edit.client] # "unused"
    BY <2>2 DEF Sound
  <2>8. QED
    BY <1>1, <1>2, <2>3, <2>4, <2>5, <2>6, <2>7
<1>7. QueueInv'
  <2>1. ASSUME NEW i \in 1..Len(queue')
        PROVE  /\ Sound(disk', key', queue'[i].edit)
               /\ queue'[i].by \in Admin =>
                    phase'[queue'[i].by] = "waiting" /\ edit'[queue'[i].by] = queue'[i].edit
               /\ queue'[i].edit.kind = "create" => disk'[queue'[i].edit.client].status = "absent"
    <3>1. CASE i \in 1..Len(queue)
      BY <1>5, <1>6, <3>1
    <3>2. CASE i = Len(queue) + 1
      BY <1>1, <1>2, <1>5, <3>2
    <3>3. QED
      BY <1>4, <1>5, <3>1, <3>2
  <2>2. ASSUME NEW i \in 1..Len(queue'), NEW j \in 1..Len(queue'), i # j
        PROVE  /\ queue'[i].by \in Admin => queue'[i].by # queue'[j].by
               /\ queue'[i].edit.kind = "create" /\ queue'[j].edit.kind = "create"
                    => queue'[i].edit.client # queue'[j].edit.client
    <3>1. CASE i \in 1..Len(queue) /\ j \in 1..Len(queue)
      BY <1>5, <2>2, <3>1 DEF RecordsInv, QueueInv
    <3>2. CASE i = Len(queue) + 1 /\ j \in 1..Len(queue)
      BY <1>5, <1>6, <3>2
    <3>3. CASE i \in 1..Len(queue) /\ j = Len(queue) + 1
      BY <1>5, <1>6, <3>3
    <3>4. QED
      BY <1>4, <1>5, <2>2, <3>1, <3>2, <3>3
  <2>3. QED
    BY <2>1, <2>2 DEF QueueInv
<1>8. HandlerInv'
  <2>1. ASSUME NEW b \in Admin \ {a}, phase[b] # "idle" PROVE Sound(disk', key', edit[b])
    BY <1>3, <2>1, SoundStays DEF RecordsInv, HandlerInv
  <2>2. QED
    BY <1>1, <1>2, <2>1 DEF RecordsInv, HandlerInv
<1>9. RowInv'
  BY <1>1 DEF RecordsInv, RowInv
<1>10. QED
  BY <1>7, <1>8, <1>9 DEF RecordsInv

(* The three edits of the admin API, up to the worker. *)
LEMMA EditSteps ==
  ASSUME TypeOK, RecordsInv, NEW a \in Admin, NEW c \in Client, NEW l \in Limits,
         Create(a, c, l) \/ Revoke(a, c) \/ SetLimits(a, c, l)
  PROVE  RecordsInv'
<1>1. mirror[c] \in Record
  BY DEF TypeOK
<1>2. CASE Create(a, c, l)
  <2> DEFINE e == [kind |-> "create", client |-> c, rec |-> [status |-> "active", limits |-> l]]
  <2>1. Submit(a, e) /\ key[c] = "unused" /\ key'[c] = "drawn"
    BY <1>2 DEF Create, TypeOK
  <2>2. Sound(disk, key', e)
    <3>1. e \in Edit
      BY EditTypes
    <3>2. e.kind = "create" /\ e.client = c /\ e.rec.status = "active"
      OBVIOUS
    <3> HIDE DEF e
    <3>3. QED
      BY <2>1, <3>1, <3>2 DEF Sound, Shape
  <2>3. disk[c].status = "absent"
    BY <2>1 DEF RecordsInv, RowInv
  <2>4. \A d \in Client : key'[d] = key[d] \/ (key[d] = "unused" /\ key'[d] = "drawn")
    <3>1. key[c] = "unused" /\ key' = [key EXCEPT ![c] = "drawn"]
      BY <1>2 DEF Create
    <3>2. key \in [Client -> {"unused", "drawn", "dashboard", "cli"}]
      BY DEF TypeOK
    <3>3. QED
      BY <3>1, <3>2
  <2> HIDE DEF e
  <2>5. e.client = c
    BY DEF e
  <2>6. QED
    BY <2>1, <2>2, <2>3, <2>4, <2>5, SubmitStep
<1>3. CASE Revoke(a, c)
  <2> DEFINE e == [kind |-> "revoke", client |-> c, rec |-> [mirror[c] EXCEPT !.status = "revoked"]]
  <2>1. Submit(a, e) /\ key' = key /\ disk[c].status # "absent"
    BY <1>3 DEF Revoke, RecordsInv, RowInv
  <2>2. e.rec.status = "revoked"
    BY <1>1 DEF Record
  <2>3. Sound(disk, key', e)
    <3>1. e \in Edit
      BY EditTypes
    <3>2. e.kind = "revoke" /\ e.client = c
      OBVIOUS
    <3> HIDE DEF e
    <3>3. QED
      BY <2>1, <2>2, <3>1, <3>2 DEF Sound, Shape
  <2>4. e.kind = "revoke"
    OBVIOUS
  <2> HIDE DEF e
  <2>5. /\ e.kind = "create" => disk[e.client].status = "absent" /\ key[e.client] = "unused"
        /\ \A d \in Client : key'[d] = key[d]
    BY <2>1, <2>4
  <2>6. QED
    BY <2>1, <2>3, <2>5, SubmitStep
<1>4. CASE SetLimits(a, c, l)
  <2> DEFINE e == [kind |-> "limits", client |-> c, rec |-> [mirror[c] EXCEPT !.limits = l]]
  <2>1. Submit(a, e) /\ key' = key /\ mirror[c].status # "absent" /\ disk[c].status # "absent"
    BY <1>4 DEF SetLimits, RecordsInv, RowInv
  <2>2. e.rec.status = mirror[c].status
    BY <1>1 DEF Record
  <2>3. mirror[c].status = "revoked" => disk[c].status = "revoked"
    BY DEF RecordsInv, RowInv
  <2>4. Sound(disk, key', e)
    <3>1. e \in Edit
      BY EditTypes
    <3>2. e.kind = "limits" /\ e.client = c
      OBVIOUS
    <3> HIDE DEF e
    <3>3. QED
      BY <2>1, <2>2, <2>3, <3>1, <3>2 DEF Sound, Shape
  <2>5. e.kind = "limits"
    OBVIOUS
  <2> HIDE DEF e
  <2>6. /\ e.kind = "create" => disk[e.client].status = "absent" /\ key[e.client] = "unused"
        /\ \A d \in Client : key'[d] = key[d]
    BY <2>1, <2>5
  <2>7. QED
    BY <2>1, <2>4, <2>6, SubmitStep
<1>5. QED
  BY <1>2, <1>3, <1>4

(* A handler that goes on with the worker's answer changes memory only to what is on disk. *)
LEMMA CompleteStep ==
  ASSUME TypeOK, RecordsInv, NEW a \in Admin, Complete(a)
  PROVE  RecordsInv'
<1> DEFINE e == edit[a]
<1>1. /\ disk' = disk /\ queue' = queue /\ up' = up
      /\ phase[a] = "done" /\ phase'[a] = "idle"
      /\ \A b \in Admin \ {a} : phase'[b] = phase[b] /\ edit'[b] = edit[b]
  BY DEF Complete, Release, TypeOK
<1>2. /\ Sound(disk, key, e) /\ disk[e.client].status # "absent"
      /\ e.kind = "revoke" => disk[e.client].status = "revoked"
  BY <1>1 DEF RecordsInv, HandlerInv
<1>3. e.client \in Client /\ e.kind \in Kind
  BY <1>2 DEF Sound, Shape, Edit
<1>4. /\ mirror'[e.client] = e.rec
      /\ \A c \in Client \ {e.client} : mirror'[c] = mirror[c]
  BY <1>3 DEF Complete, Remember, TypeOK
<1>5. /\ e.kind = "create" => key'[e.client] = "dashboard"
      /\ e.kind # "create" => key'[e.client] = key[e.client]
      /\ \A c \in Client \ {e.client} : key'[c] = key[c]
  BY <1>3 DEF Complete, TypeOK
<1>6. \A c \in revoked' : c \in revoked \/ (c = e.client /\ e.kind = "revoke")
  BY DEF Complete
<1>7. Later(disk, key, disk', key')
  BY <1>1, <1>5 DEF Later
<1>8. QueueInv'
  <2>1. ASSUME NEW i \in 1..Len(queue)
        PROVE  /\ Sound(disk', key', queue[i].edit)
               /\ queue[i].by \in Admin =>
                    phase'[queue[i].by] = "waiting" /\ edit'[queue[i].by] = queue[i].edit
               /\ queue[i].edit.kind = "create" => disk'[queue[i].edit.client].status = "absent"
    <3>1. Sound(disk', key', queue[i].edit)
      BY <1>7, SoundStays DEF RecordsInv, QueueInv
    <3>2. QED
      BY <1>1, <3>1 DEF RecordsInv, QueueInv
  <2>2. QED
    BY <1>1, <2>1 DEF RecordsInv, QueueInv
<1>9. HandlerInv'
  <2>1. ASSUME NEW b \in Admin \ {a}, phase[b] # "idle" PROVE Sound(disk', key', edit[b])
    BY <1>7, <2>1, SoundStays DEF RecordsInv, HandlerInv
  <2>2. QED
    BY <1>1, <2>1 DEF RecordsInv, HandlerInv
<1>10. RowInv'
  <2>1. ASSUME NEW c \in Client \ {e.client}
        PROVE  /\ mirror'[c] = mirror[c] /\ key'[c] = key[c] /\ disk'[c] = disk[c]
               /\ c \in revoked' => c \in revoked
    BY <1>1, <1>4, <1>5, <1>6
  <2>2. /\ e.rec.status # "absent"
        /\ e.rec.status = "revoked" => disk[e.client].status = "revoked"
        /\ key'[e.client] # "unused"
    <3>1. key[e.client] # "unused"
      BY <1>2, <1>3 DEF RecordsInv, RowInv
    <3>2. QED
      BY <1>2, <1>3, <1>5, <3>1 DEF Sound, Shape, Kind
  <2>3. e.client \in revoked' => disk[e.client].status = "revoked"
    BY <1>2, <1>3, <1>6 DEF RecordsInv, RowInv
  <2> HIDE DEF e
  <2>4. QED
    BY <1>1, <1>2, <1>3, <1>4, <2>1, <2>2, <2>3 DEF RecordsInv, RowInv
<1>11. QED
  BY <1>8, <1>9, <1>10 DEF RecordsInv

(* A handler that fails is done; memory and disk are as they were. *)
LEMMA FailStep ==
  ASSUME TypeOK, RecordsInv, NEW a \in Admin, Fail(a)
  PROVE  RecordsInv'
<1>1. /\ UNCHANGED <<up, disk, mirror, queue, key, revoked>>
      /\ phase[a] = "failed" /\ phase'[a] = "idle"
      /\ \A b \in Admin \ {a} : phase'[b] = phase[b] /\ edit'[b] = edit[b]
  BY DEF Fail, Release, TypeOK
<1>2. QueueInv'
  <2>1. \A i \in 1..Len(queue) : queue[i].by \in Admin =>
          phase'[queue[i].by] = "waiting" /\ edit'[queue[i].by] = queue[i].edit
    BY <1>1 DEF RecordsInv, QueueInv
  <2>2. QED
    BY <1>1, <2>1 DEF RecordsInv, QueueInv
<1>3. HandlerInv'
  BY <1>1 DEF RecordsInv, HandlerInv
<1>4. RowInv'
  BY <1>1 DEF RecordsInv, RowInv
<1>5. QED
  BY <1>2, <1>3, <1>4 DEF RecordsInv

(* A job whose handler is gone stays what it was. *)
LEMMA DisconnectStep ==
  ASSUME TypeOK, RecordsInv, NEW a \in Admin, Disconnect(a)
  PROVE  RecordsInv'
<1>1. /\ UNCHANGED <<up, disk, mirror, key, revoked>>
      /\ phase'[a] = "idle"
      /\ \A b \in Admin \ {a} : phase'[b] = phase[b] /\ edit'[b] = edit[b]
  BY DEF Disconnect, Release, TypeOK
<1>2. queue \in Seq(Job) /\ Len(queue) \in Nat /\ DOMAIN queue = 1..Len(queue)
  BY DEF TypeOK
<1>3. queue' = [i \in 1..Len(queue) |->
                  IF queue[i].by = a THEN [queue[i] EXCEPT !.by = Orphan] ELSE queue[i]]
  BY <1>2 DEF Disconnect
<1>4. Len(queue') = Len(queue)
  BY <1>2, <1>3
<1>5. \A i \in 1..Len(queue) :
        /\ queue'[i].edit = queue[i].edit
        /\ queue'[i].by \in Admin => queue'[i].by = queue[i].by /\ queue[i].by # a
  <2>1. TAKE i \in 1..Len(queue)
  <2>2. queue[i] \in Job
    BY <1>2
  <2>3. /\ [queue[i] EXCEPT !.by = Orphan].edit = queue[i].edit
        /\ [queue[i] EXCEPT !.by = Orphan].by = Orphan
    BY <2>2 DEF Job
  <2>4. CASE queue[i].by = a
    <3>1. queue'[i] = [queue[i] EXCEPT !.by = Orphan]
      BY <1>3, <2>4
    <3>2. QED
      BY <2>3, <3>1, ClientsAssumption
  <2>5. CASE queue[i].by # a
    BY <1>3, <2>5
  <2>6. QED
    BY <2>4, <2>5
<1>6. QueueInv'
  <2>1. ASSUME NEW i \in 1..Len(queue)
        PROVE  /\ Sound(disk', key', queue'[i].edit)
               /\ queue'[i].by \in Admin =>
                    phase'[queue'[i].by] = "waiting" /\ edit'[queue'[i].by] = queue'[i].edit
               /\ queue'[i].edit.kind = "create" => disk'[queue'[i].edit.client].status = "absent"
    BY <1>1, <1>5 DEF RecordsInv, QueueInv
  <2>2. ASSUME NEW i \in 1..Len(queue), NEW j \in 1..Len(queue), i # j
        PROVE  /\ queue'[i].by \in Admin => queue'[i].by # queue'[j].by
               /\ queue'[i].edit.kind = "create" /\ queue'[j].edit.kind = "create"
                    => queue'[i].edit.client # queue'[j].edit.client
    <3>1. /\ queue[i].by \in Admin => queue[i].by # queue[j].by
          /\ queue[i].edit.kind = "create" /\ queue[j].edit.kind = "create"
               => queue[i].edit.client # queue[j].edit.client
      BY <2>2 DEF RecordsInv, QueueInv
    <3>2. QED
      BY <1>5, <3>1
  <2>3. QED
    BY <1>4, <2>1, <2>2 DEF QueueInv
<1>7. HandlerInv'
  BY <1>1 DEF RecordsInv, HandlerInv
<1>8. RowInv'
  BY <1>1 DEF RecordsInv, RowInv
<1>9. QED
  BY <1>6, <1>7, <1>8 DEF RecordsInv

(* What a statement leaves in the row, in terms of what was there (the SQL of db.rs). *)
LEMMA WrittenRow ==
  ASSUME NEW old \in Record, NEW keys, NEW rows, NEW e, Sound(rows, keys, e),
         rows[e.client] = old, e.kind = "create" => old.status = "absent"
  PROVE  /\ Written(old, e).status # "absent"
         /\ old.status = "revoked" => Written(old, e).status = "revoked"
         /\ e.kind = "revoke" => Written(old, e).status = "revoked"
         /\ e.kind = "limits" => Written(old, e).status = old.status
<1>1. e.kind \in Kind
  BY DEF Sound, Shape, Edit
<1>2. CASE e.kind = "create"
  BY <1>2 DEF Written, Sound, Shape
<1>3. CASE e.kind = "revoke"
  <2>1. Written(old, e) = [old EXCEPT !.status = e.rec.status]
    BY <1>3 DEF Written
  <2>2. Written(old, e).status = e.rec.status
    BY <2>1 DEF Record
  <2>3. QED
    BY <1>3, <2>2 DEF Sound, Shape
<1>4. CASE e.kind = "limits"
  <2>1. Written(old, e) = [old EXCEPT !.limits = e.rec.limits]
    BY <1>4 DEF Written
  <2>2. Written(old, e).status = old.status
    BY <2>1 DEF Record
  <2>3. QED
    BY <1>4, <2>2 DEF Sound
<1>5. QED
  BY <1>1, <1>2, <1>3, <1>4 DEF Kind

(* The worker answers the first job's handler, and no other: what the others know stays
   true whatever the statement did to its one row (the worker's loop in db.rs). *)
LEMMA AnswerStep ==
  ASSUME TypeOK, RecordsInv, NEW outcome \in {"done", "failed"}, Answer(outcome),
         NEW h, h = Head(queue).edit,
         \A c \in Client \ {h.client} : disk'[c] = disk[c],
         disk[h.client].status = "revoked" => disk'[h.client].status = "revoked",
         disk[h.client].status # "absent" => disk'[h.client].status # "absent",
         outcome = "done" => disk'[h.client].status # "absent",
         outcome = "done" /\ h.kind = "revoke" => disk'[h.client].status = "revoked"
  PROVE  RecordsInv'
<1> DEFINE b == Head(queue).by
<1>1. /\ UNCHANGED <<up, mirror, edit, key, revoked>>
      /\ queue # <<>> /\ queue' = Tail(queue)
      /\ phase' = IF b \in Admin THEN [phase EXCEPT ![b] = outcome] ELSE phase
  BY DEF Answer
<1>2. queue \in Seq(Job)
  BY DEF TypeOK
<1>3. /\ Len(queue) \in Nat /\ Len(queue) > 0 /\ Len(queue') = Len(queue) - 1
      /\ 1 \in 1..Len(queue)
      /\ Head(queue) = queue[1]
      /\ \A i \in 1..(Len(queue) - 1) : queue'[i] = queue[i + 1] /\ i + 1 \in 1..Len(queue)
  BY <1>1, <1>2
<1>4. phase \in [Admin -> {"idle", "waiting", "done", "failed"}]
  BY DEF TypeOK
<1>5. /\ b \in Admin => phase'[b] = outcome /\ phase[b] = "waiting" /\ edit[b] = h
      /\ \A a \in Admin : a # b => phase'[a] = phase[a]
  <2>1. queue[1].by \in Admin =>
          phase[queue[1].by] = "waiting" /\ edit[queue[1].by] = queue[1].edit
    BY <1>3 DEF RecordsInv, QueueInv
  <2>2. b \in Admin => phase[b] = "waiting" /\ edit[b] = h
    BY <1>3, <2>1
  <2>3. QED
    BY <1>1, <1>4, <2>2
<1>6. Sound(disk, key, h)
  BY <1>3 DEF RecordsInv, QueueInv
<1>7. h.client \in Client
  BY <1>6 DEF Sound, Shape, Edit
<1>8. Later(disk, key, disk', key')
  BY <1>1, <1>7 DEF Later
<1>9. QueueInv'
  <2>1. ASSUME NEW i \in 1..(Len(queue) - 1)
        PROVE  /\ Sound(disk', key', queue'[i].edit)
               /\ queue'[i].by \in Admin =>
                    phase'[queue'[i].by] = "waiting" /\ edit'[queue'[i].by] = queue'[i].edit
               /\ queue'[i].edit.kind = "create" => disk'[queue'[i].edit.client].status = "absent"
    <3>1. /\ queue'[i] = queue[i + 1] /\ i + 1 \in 1..Len(queue) /\ i + 1 # 1
          /\ 1 \in 1..Len(queue) /\ queue[1] = Head(queue)
      BY <1>3
    <3>2. /\ Sound(disk, key, queue[i + 1].edit)
          /\ queue[i + 1].by \in Admin =>
               /\ phase[queue[i + 1].by] = "waiting" /\ edit[queue[i + 1].by] = queue[i + 1].edit
               /\ queue[i + 1].by # b
          /\ queue[i + 1].edit.kind = "create" => disk[queue[i + 1].edit.client].status = "absent"
          /\ queue[i + 1].edit.kind = "create" /\ h.kind = "create"
               => queue[i + 1].edit.client # h.client
      BY <3>1 DEF RecordsInv, QueueInv
    <3>3. Sound(disk', key', queue[i + 1].edit)
      BY <1>8, <3>2, SoundStays
    <3>4. queue[i + 1].edit.client \in Client
      BY <3>2 DEF Sound, Shape, Edit
    <3>5. queue[i + 1].edit.kind = "create" => queue[i + 1].edit.client # h.client
      BY <1>6, <3>2 DEF Sound
    <3>6. QED
      BY <1>1, <1>5, <3>1, <3>2, <3>3, <3>4, <3>5
  <2>2. ASSUME NEW i \in 1..(Len(queue) - 1), NEW j \in 1..(Len(queue) - 1), i # j
        PROVE  /\ queue'[i].by \in Admin => queue'[i].by # queue'[j].by
               /\ queue'[i].edit.kind = "create" /\ queue'[j].edit.kind = "create"
                    => queue'[i].edit.client # queue'[j].edit.client
    <3>1. /\ i + 1 # j + 1 /\ i + 1 \in 1..Len(queue) /\ j + 1 \in 1..Len(queue)
          /\ queue'[i] = queue[i + 1] /\ queue'[j] = queue[j + 1]
      BY <1>3, <2>2
    <3>2. /\ queue[i + 1].by \in Admin => queue[i + 1].by # queue[j + 1].by
          /\ queue[i + 1].edit.kind = "create" /\ queue[j + 1].edit.kind = "create"
               => queue[i + 1].edit.client # queue[j + 1].edit.client
      BY <3>1 DEF RecordsInv, QueueInv
    <3>3. QED
      BY <3>1, <3>2
  <2>3. QED
    BY <1>3, <2>1, <2>2 DEF QueueInv
<1>10. HandlerInv'
  <2>1. ASSUME NEW a \in Admin, a # b, phase[a] # "idle"
        PROVE  /\ Sound(disk', key', edit[a]) /\ edit[a].client \in Client
    <3>1. Sound(disk, key, edit[a])
      BY <2>1 DEF RecordsInv, HandlerInv
    <3>2. Sound(disk', key', edit[a])
      BY <1>8, <3>1, SoundStays
    <3>3. QED
      BY <3>1, <3>2 DEF Sound, Shape, Edit
  <2>2. ASSUME NEW a \in Admin, a # b, phase[a] = "done"
        PROVE  /\ disk'[edit[a].client].status # "absent"
               /\ edit[a].kind = "revoke" => disk'[edit[a].client].status = "revoked"
    BY <1>8, <2>1, <2>2 DEF RecordsInv, HandlerInv, Later
  <2>3. Sound(disk', key', h)
    BY <1>6, <1>8, SoundStays
  <2>4. QED
    BY <1>1, <1>5, <2>1, <2>2, <2>3 DEF HandlerInv
<1>11. RowInv'
  <2>1. key[h.client] # "unused"
    BY <1>6, <1>7 DEF Sound, RecordsInv, RowInv
  <2>2. \A c \in Client : key[c] = "unused" => disk'[c].status = "absent"
    BY <1>7, <2>1 DEF RecordsInv, RowInv
  <2>3. QED
    BY <1>1, <1>8, <2>2 DEF RecordsInv, RowInv, Later
<1>12. QED
  BY <1>9, <1>10, <1>11 DEF RecordsInv

(* Running a job keeps the invariant, whether its statement succeeds or not. *)
LEMMA ExecuteStep ==
  ASSUME TypeOK, RecordsInv, Execute \/ ExecuteFails
  PROVE  RecordsInv'
<1> DEFINE h == Head(queue).edit
<1>1. queue \in Seq(Job) /\ queue # <<>>
  BY DEF TypeOK, Execute, ExecuteFails, Answer
<1>2. /\ 1 \in 1..Len(queue) /\ Head(queue) = queue[1]
  BY <1>1
<1>3. /\ Sound(disk, key, h) /\ h.client \in Client
      /\ h.kind = "create" => disk[h.client].status = "absent"
  BY <1>2 DEF RecordsInv, QueueInv, Sound, Shape, Edit
<1>4. disk \in [Client -> Record]
  BY DEF TypeOK
<1>5. CASE ExecuteFails
  <2>1. Answer("failed") /\ disk' = disk
    BY <1>5 DEF ExecuteFails
  <2> HIDE DEF h
  <2>2. h = Head(queue).edit
    BY DEF h
  <2>3. QED
    BY <2>1, <2>2, AnswerStep
<1>6. CASE Execute
  <2>1. /\ Answer("done")
        /\ disk' = [disk EXCEPT ![h.client] = Written(disk[h.client], h)]
    BY <1>6 DEF Execute
  <2>2. /\ Written(disk[h.client], h).status # "absent"
        /\ disk[h.client].status = "revoked" => Written(disk[h.client], h).status = "revoked"
        /\ h.kind = "revoke" => Written(disk[h.client], h).status = "revoked"
    BY <1>3, <1>4, WrittenRow
  <2>3. h = Head(queue).edit
    OBVIOUS
  <2> HIDE DEF h
  <2>4. /\ disk'[h.client] = Written(disk[h.client], h)
        /\ \A c \in Client \ {h.client} : disk'[c] = disk[c]
    BY <1>3, <1>4, <2>1
  <2>5. /\ disk[h.client].status = "revoked" => disk'[h.client].status = "revoked"
        /\ disk'[h.client].status # "absent"
        /\ h.kind = "revoke" => disk'[h.client].status = "revoked"
    BY <2>2, <2>4
  <2>6. QED
    BY <2>1, <2>3, <2>4, <2>5, AnswerStep
<1>7. QED
  BY <1>5, <1>6

(* `clients create` of another process writes a row whose id nobody else has drawn. *)
LEMMA CliCreateStep ==
  ASSUME TypeOK, RecordsInv, NEW c \in Client, CliCreate(c)
  PROVE  RecordsInv'
<1>1. /\ UNCHANGED <<up, mirror, queue, phase, edit, revoked>>
      /\ key[c] = "unused" /\ key'[c] = "cli" /\ disk'[c].status = "active"
      /\ \A d \in Client \ {c} : key'[d] = key[d] /\ disk'[d] = disk[d]
  BY DEF CliCreate, TypeOK
<1>2. disk[c].status = "absent"
  BY <1>1 DEF RecordsInv, RowInv
<1>3. Later(disk, key, disk', key')
  BY <1>1, <1>2 DEF Later
<1>4. QueueInv'
  <2>1. ASSUME NEW i \in 1..Len(queue)
        PROVE  /\ Sound(disk', key', queue[i].edit)
               /\ queue[i].edit.kind = "create" => disk'[queue[i].edit.client].status = "absent"
    <3>1. /\ Sound(disk, key, queue[i].edit)
          /\ queue[i].edit.kind = "create" => disk[queue[i].edit.client].status = "absent"
      BY DEF RecordsInv, QueueInv
    <3>2. Sound(disk', key', queue[i].edit)
      BY <1>3, <3>1, SoundStays
    <3>3. /\ queue[i].edit.client \in Client
          /\ queue[i].edit.kind = "create" => key[queue[i].edit.client] # "unused"
      BY <3>1 DEF Sound, Shape, Edit
    <3>4. QED
      BY <1>1, <3>1, <3>2, <3>3
  <2>2. QED
    BY <1>1, <2>1 DEF RecordsInv, QueueInv
<1>5. HandlerInv'
  <2>1. ASSUME NEW a \in Admin, phase[a] # "idle"
        PROVE  Sound(disk', key', edit[a]) /\ edit[a].client \in Client
    <3>1. Sound(disk, key, edit[a])
      BY <2>1 DEF RecordsInv, HandlerInv
    <3>2. Sound(disk', key', edit[a])
      BY <1>3, <3>1, SoundStays
    <3>3. QED
      BY <3>1, <3>2 DEF Sound, Shape, Edit
  <2>2. QED
    BY <1>1, <1>3, <2>1 DEF RecordsInv, HandlerInv, Later
<1>6. RowInv'
  BY <1>1, <1>2, <1>3 DEF RecordsInv, RowInv, Later
<1>7. QED
  BY <1>4, <1>5, <1>6 DEF RecordsInv

(* A stop forgets the queue and memory, a start reads what is on disk. *)
LEMMA RestartStep ==
  ASSUME TypeOK, RecordsInv, Stop \/ Start
  PROVE  RecordsInv'
<1>1. CASE Stop
  <2>1. /\ UNCHANGED <<disk, key, revoked>>
        /\ ~up' /\ queue' = <<>>
        /\ \A a \in Admin : phase'[a] = "idle"
        /\ \A c \in Client : mirror'[c].status = "absent"
    BY <1>1 DEF Stop, Absent
  <2>2. Len(queue') = 0
    BY <2>1
  <2>3. QueueInv' /\ HandlerInv'
    BY <2>1, <2>2 DEF QueueInv, HandlerInv
  <2>4. RowInv'
    BY <2>1 DEF RecordsInv, RowInv
  <2>5. QED
    BY <2>3, <2>4 DEF RecordsInv
<1>2. CASE Start
  <2>1. UNCHANGED <<disk, queue, phase, edit, key, revoked>> /\ mirror' = disk
    BY <1>2 DEF Start
  <2>2. QueueInv' /\ HandlerInv'
    BY <2>1 DEF RecordsInv, QueueInv, HandlerInv
  <2>3. RowInv'
    BY <2>1 DEF RecordsInv, RowInv
  <2>4. QED
    BY <2>2, <2>3 DEF RecordsInv
<1>3. QED
  BY <1>1, <1>2

(* Every step keeps the invariant of the records. *)
LEMMA RecordsStep ==
  ASSUME TypeOK, RecordsInv, [Next]_vars
  PROVE  RecordsInv'
<1>1. ASSUME UNCHANGED <<up, records>> PROVE RecordsInv'
  BY <1>1 DEF records, RecordsInv, QueueInv, HandlerInv, RowInv
<1>2. ASSUME NEW a \in Admin, Handle(a) PROVE RecordsInv'
  <2>1. ASSUME NEW c \in Client, Revoke(a, c) PROVE RecordsInv'
    BY <2>1, EditSteps, ClientsAssumption
  <2>2. ASSUME NEW c \in Client, NEW l \in Limits, Create(a, c, l) \/ SetLimits(a, c, l)
        PROVE  RecordsInv'
    BY <2>2, EditSteps
  <2>3. QED
    BY <1>2, <2>1, <2>2, CompleteStep, FailStep, DisconnectStep DEF Handle
<1>3. ASSUME NEW q \in Request, Serve(q) PROVE RecordsInv'
  <2>1. UNCHANGED <<up, records>>
    BY <1>3 DEF Serve, Authenticate, Check, Admit, Spend, Leave
  <2>2. QED
    BY <1>1, <2>1
<1>4. ASSUME NEW c \in Client, NEW f \in Field, Write(c, f) \/ WriteFails(c, f)
      PROVE  RecordsInv'
  <2>1. UNCHANGED <<up, records>>
    BY <1>4 DEF Write, WriteFails
  <2>2. QED
    BY <1>1, <2>1
<1>5. ASSUME NEW f \in Field, NewWindow(f) PROVE RecordsInv'
  <2>1. UNCHANGED <<up, records>>
    BY <1>5 DEF NewWindow
  <2>2. QED
    BY <1>1, <2>1
<1>6. CASE UNCHANGED vars
  BY <1>1, <1>6 DEF vars
<1>7. QED
  BY <1>2, <1>3, <1>4, <1>5, <1>6, ExecuteStep, CliCreateStep, RestartStep DEF Next

-----------------------------------------------------------------------------
(***************************************************************************)
(* Theorems.                                                                *)
(***************************************************************************)
Inv == TypeOK /\ RecordsInv /\ CountersInv

(* The server starts within the invariant. *)
LEMMA InitInv == Init => Inv
<1> SUFFICES ASSUME Init PROVE Inv
  OBVIOUS
<1>1. Absent \in Record /\ Zero \in [Field -> Nat] /\ None \in Limits /\ 0 \in 0..MaxSpend
  BY ClientsAssumption DEF Absent, Record, Status, Zero
<1>2. TypeOK
  <2>1. up \in BOOLEAN
    BY Zenon DEF Init
  <2>2. queue \in Seq(Job) /\ stops \in Nat
    BY DEF Init
  <2>3. QED
    BY <1>1, <2>1, <2>2 DEF Init, TypeOK
<1>3. RecordsInv
  <2>1. Len(queue) = 0
    BY DEF Init
  <2>2. QED
    BY <2>1 DEF Init, Absent, RecordsInv, QueueInv, HandlerInv, RowInv
<1>4. CountersInv
  BY DEF Init, Zero, CountersInv, Account
<1>5. QED
  BY <1>2, <1>3, <1>4 DEF Inv

(* And no step leaves it. *)
LEMMA StepInv == Inv /\ [Next]_vars => Inv'
<1> SUFFICES ASSUME Inv, [Next]_vars PROVE Inv'
  OBVIOUS
<1>1. TypeOK /\ RecordsInv /\ HandlerInv /\ CountersInv
  BY DEF Inv, RecordsInv
<1>2. TypeOK'
  <2>1. CASE UNCHANGED vars
    BY <1>1, <2>1 DEF vars, records, counters, requests, TypeOK
  <2>2. CASE Next
    BY <1>1, <2>2, RecordsTypeStep, ServiceTypeStep DEF Next
  <2>3. QED
    BY <2>1, <2>2
<1>3. QED
  BY <1>1, <1>2, RecordsStep, CountersStep DEF Inv

(* The state of the store and of its requests keeps its types, for any number of operators,
   requests and clients (db.rs, hosted.rs). *)
THEOREM TypeCorrect == Spec => []TypeOK
<1>1. Inv => TypeOK
  BY DEF Inv
<1>2. QED
  BY InitInv, StepInv, <1>1, PTL DEF Spec

(* A revocation answered with success is never taken back on disk (revoke_client). *)
THEOREM RevocationStaysOnDisk == Spec => []RevocationDurable
<1>1. Inv => RevocationDurable
  <2>1. ASSUME Inv PROVE RevocationDurable
    <3>1. RowInv /\ revoked \subseteq Client
      BY <2>1 DEF Inv, RecordsInv, TypeOK
    <3>2. QED
      BY <3>1 DEF RevocationDurable, RowInv
  <2>2. QED
    BY <2>1
<1>2. QED
  BY InitInv, StepInv, <1>1, PTL DEF Spec

(* A key the dashboard has shown works, before and after restarts, until its client is
   revoked (create_client). *)
THEOREM ShownKeysWork == Spec => []IssuedKeyWorks
<1>1. Inv => IssuedKeyWorks
  <2>1. ASSUME Inv PROVE IssuedKeyWorks
    <3>1. RowInv /\ mirror \in [Client -> Record]
      BY <2>1 DEF Inv, RecordsInv, TypeOK
    <3>2. \A c \in Client : mirror[c].status \in {"absent", "active", "revoked"}
      BY <3>1 DEF Record, Status
    <3>3. QED
      BY <3>1, <3>2 DEF IssuedKeyWorks, RowInv, Active
  <2>2. QED
    BY <2>1
<1>2. QED
  BY InitInv, StepInv, <1>1, PTL DEF Spec

(* Every counted request and credit is on disk, queued or known to be lost, and memory
   counts no more than happened (admit_client, add, bump_client, start). *)
THEOREM CountersSafe == Spec => []CountersAccounted
<1>1. Inv => CountersAccounted
  BY DEF Inv, CountersInv, Account, CountersAccounted
<1>2. QED
  BY InitInv, StepInv, <1>1, PTL DEF Spec

(* A step of the clients table is a step of the directory, or none. *)
LEMMA DirectoryStep == Inv /\ [Next]_vars => [Directory!Next]_disk
<1> SUFFICES ASSUME Inv, [Next]_vars, disk' # disk PROVE Directory!Next
  OBVIOUS
<1>1. Execute \/ \E c \in Client : CliCreate(c)
  <2>1. ASSUME NEW a \in Admin, Handle(a) PROVE disk' = disk
    BY <2>1 DEF Handle, Create, Revoke, SetLimits, Submit, Complete, Fail, Disconnect
  <2>2. ASSUME NEW q \in Request, Serve(q) PROVE disk' = disk
    BY <2>2 DEF Serve, Authenticate, Check, Admit, Spend, Leave, records
  <2>3. ASSUME NEW c \in Client, NEW f \in Field, Write(c, f) \/ WriteFails(c, f)
        PROVE  disk' = disk
    BY <2>3 DEF Write, WriteFails, records
  <2>4. ASSUME ExecuteFails \/ Stop \/ Start \/ UNCHANGED vars PROVE disk' = disk
    BY <2>4 DEF ExecuteFails, Stop, Start, vars, records
  <2>5. ASSUME NEW f \in Field, NewWindow(f) PROVE disk' = disk
    BY <2>5 DEF NewWindow, records
  <2>6. QED
    BY <2>1, <2>2, <2>3, <2>4, <2>5 DEF Next
<1>2. disk \in [Client -> Record]
  BY DEF Inv, TypeOK
<1>3. ASSUME NEW c \in Client, CliCreate(c) PROVE Directory!Next
  <2>1. disk[c].status = "absent"
    BY <1>3 DEF CliCreate, Inv, RecordsInv, RowInv
  <2>2. disk' = [disk EXCEPT ![c] = [status |-> "active", limits |-> None]]
    BY <1>3 DEF CliCreate
  <2>3. Directory!Create(c, None)
    BY <2>1, <2>2 DEF Directory!Create
  <2>4. QED
    BY <2>3, ClientsAssumption DEF Directory!Next
<1>4. CASE Execute
  <2> DEFINE h == Head(queue).edit
  <2>1. queue \in Seq(Job) /\ queue # <<>>
    BY <1>4 DEF Inv, TypeOK, Execute, Answer
  <2>2. 1 \in 1..Len(queue) /\ Head(queue) = queue[1]
    BY <2>1
  <2>3. /\ Sound(disk, key, h)
        /\ h.kind = "create" => disk[h.client].status = "absent"
    BY <2>2 DEF Inv, RecordsInv, QueueInv
  <2>4. disk' = [disk EXCEPT ![h.client] = Written(disk[h.client], h)]
    BY <1>4 DEF Execute
  <2> HIDE DEF h
  <2>5. h.client \in Client /\ h.kind \in Kind /\ h.rec \in Record
    BY <2>3 DEF Sound, Shape, Edit
  <2>6. CASE h.kind = "create"
    <3>1. h.rec = [status |-> "active", limits |-> h.rec.limits] /\ h.rec.limits \in Limits
      BY <2>3, <2>5, <2>6 DEF Sound, Shape, Record
    <3>2. Directory!Create(h.client, h.rec.limits)
      BY <2>3, <2>4, <2>6, <3>1 DEF Written, Directory!Create
    <3>3. QED
      BY <2>5, <3>1, <3>2 DEF Directory!Next
  <2>7. CASE h.kind = "revoke"
    <3>1. disk' = [disk EXCEPT ![h.client].status = "revoked"]
      BY <2>3, <2>4, <2>7 DEF Written, Sound, Shape
    <3>2. Directory!Revoke(h.client)
      BY <2>3, <2>7, <3>1 DEF Sound, Directory!Revoke
    <3>3. QED
      BY <2>5, <3>2 DEF Directory!Next
  <2>8. CASE h.kind = "limits"
    <3>1. disk' = [disk EXCEPT ![h.client].limits = h.rec.limits]
      BY <2>4, <2>8 DEF Written
    <3>2. Directory!SetLimits(h.client, h.rec.limits) /\ h.rec.limits \in Limits
      BY <2>3, <2>5, <2>8, <3>1 DEF Sound, Record, Directory!SetLimits
    <3>3. QED
      BY <2>5, <3>2 DEF Directory!Next
  <2>9. QED
    BY <2>5, <2>6, <2>7, <2>8 DEF Kind
<1>5. QED
  BY <1>1, <1>3, <1>4

(* The clients table implements the directory: creation, revocation and limits each take
   effect in one step, and a revocation is final (db.rs). *)
THEOREM DirectoryImplemented == Spec => DirectorySpec
<1>1. Init => Directory!Init
  BY DEF Init, Absent, Directory!Init
<1>2. QED
  BY InitInv, StepInv, DirectoryStep, <1>1, PTL DEF Spec, DirectorySpec, Directory!Spec

(* Only an admission moves a client's requests away from its limit's reach, and it finds
   room under the limit it read: the count in memory is at least what happened less what
   was lost (admit_client). *)
LEMMA DailyStep == Inv /\ DailyQuotaKept /\ [Next]_vars => DailyQuotaKept'
<1> SUFFICES ASSUME Inv, DailyQuotaKept, [Next]_vars, NEW c \in Client
             PROVE  \E l \in Limits :
                      Daily[l] = NoLimit \/ happened'[c].requests <= Daily[l] + lost'[c].requests
  BY DEF DailyQuotaKept
<1>1. /\ \A d \in Client, f \in Field :
           happened[d][f] \in Nat /\ lost[d][f] \in Nat /\ usage[d][f] \in Nat
           /\ saved[d][f] \in Nat /\ queued[d][f] \in Nat
      /\ "requests" \in Field /\ "credits" \in Field
      /\ \A l \in Limits : Daily[l] = NoLimit \/ Daily[l] \in Nat
  <2>1. /\ happened \in [Client -> [Field -> Nat]] /\ lost \in [Client -> [Field -> Nat]]
        /\ usage \in [Client -> [Field -> Nat]] /\ saved \in [Client -> [Field -> Nat]]
        /\ queued \in [Client -> [Field -> Nat]]
    BY DEF Inv, TypeOK
  <2>2. "requests" \in Field /\ "credits" \in Field
    BY DEF Field
  <2>3. \A l \in Limits : Daily[l] = NoLimit \/ Daily[l] \in Nat
    BY ClientsAssumption
  <2>4. QED
    BY <2>1, <2>2, <2>3
<1>2. /\ happened'[c].requests <= happened[c].requests
      /\ lost'[c].requests >= lost[c].requests
      /\ lost'[c].requests \in Nat /\ happened'[c].requests \in Nat
      => \E l \in Limits :
           Daily[l] = NoLimit \/ happened'[c].requests <= Daily[l] + lost'[c].requests
  <2>1. PICK l \in Limits :
          Daily[l] = NoLimit \/ happened[c].requests <= Daily[l] + lost[c].requests
    BY DEF DailyQuotaKept
  <2>2. QED
    BY <1>1, <2>1
<1>3. ASSUME UNCHANGED <<happened, lost>>
      PROVE  \E l \in Limits :
               Daily[l] = NoLimit \/ happened'[c].requests <= Daily[l] + lost'[c].requests
  BY <1>3 DEF DailyQuotaKept
<1>4. ASSUME NEW q \in Request, Admit(q)
      PROVE  \E l \in Limits :
               Daily[l] = NoLimit \/ happened'[c].requests <= Daily[l] + lost'[c].requests
  <2>1. who[q] \in Client /\ limits[q] \in Limits /\ up
    BY <1>4 DEF Inv, TypeOK, CountersInv, Admit
  <2>2. /\ lost' = lost
        /\ c # who[q] => happened'[c].requests = happened[c].requests
        /\ happened'[who[q]].requests = happened[who[q]].requests + 1
    <3>1. happened' = [happened EXCEPT ![who[q]]["requests"] = @ + 1] /\ lost' = lost
      BY <1>4 DEF Admit, Bump
    <3>2. happened \in [Client -> [Field -> Nat]]
      BY DEF Inv, TypeOK
    <3>3. QED
      BY <1>1, <2>1, <3>1, <3>2
  <2>3. CASE c # who[q]
    BY <1>1, <1>2, <2>2, <2>3
  <2>4. CASE c = who[q]
    <3>1. Daily[limits[q]] = NoLimit \/ usage[c].requests < Daily[limits[q]]
      BY <1>4, <2>4 DEF Admit, Within, HasRoom
    <3>2. /\ happened[c].requests = saved[c].requests + queued[c].requests + lost[c].requests
          /\ saved[c].requests + queued[c].requests <= usage[c].requests
      BY <1>1, <2>1 DEF Inv, CountersInv, Account
    <3>3. happened[c].requests <= usage[c].requests + lost[c].requests
      BY <1>1, <3>2
    <3>4. \/ Daily[limits[q]] = NoLimit
          \/ happened'[c].requests <= Daily[limits[q]] + lost'[c].requests
      BY <1>1, <2>1, <2>2, <2>4, <3>1, <3>3
    <3>5. QED
      BY <2>1, <3>4
  <2>5. QED
    BY <2>3, <2>4
<1>5. ASSUME NEW q \in Request, Spend(q)
      PROVE  lost' = lost /\ happened'[c].requests = happened[c].requests
  <2>1. /\ happened' = [happened EXCEPT ![who[q]]["credits"] = @ + 1] /\ lost' = lost
        /\ happened \in [Client -> [Field -> Nat]] /\ who[q] \in Client
    BY <1>5 DEF Spend, Bump, Inv, TypeOK
  <2>2. QED
    BY <1>1, <2>1
<1>6. ASSUME NEW d \in Client, NEW f \in Field, Write(d, f) \/ WriteFails(d, f)
      PROVE  /\ happened' = happened
             /\ lost'[c].requests \in Nat /\ lost'[c].requests >= lost[c].requests
  <2>1. happened' = happened /\ (lost' = lost \/ lost' = [lost EXCEPT ![d][f] = @ + 1])
    BY <1>6 DEF Write, WriteFails
  <2>2. lost \in [Client -> [Field -> Nat]]
    BY DEF Inv, TypeOK
  <2>3. QED
    BY <1>1, <2>1, <2>2
<1>7. ASSUME Stop
      PROVE  /\ happened' = happened
             /\ lost'[c].requests \in Nat /\ lost'[c].requests >= lost[c].requests
  <2>1. happened' = happened /\ lost'[c].requests = lost[c].requests + queued[c].requests
    BY <1>1, <1>7 DEF Stop
  <2>2. QED
    BY <1>1, <2>1
<1>8. ASSUME NEW f \in Field, NewWindow(f)
      PROVE  \/ happened'[c].requests = happened[c].requests
                /\ lost'[c].requests = lost[c].requests
             \/ happened'[c].requests = 0 /\ lost'[c].requests = 0
  <2>1. /\ happened' = [d \in Client |-> [happened[d] EXCEPT ![f] = 0]]
        /\ lost' = [d \in Client |-> [lost[d] EXCEPT ![f] = 0]]
    BY <1>8 DEF NewWindow
  <2>2. happened \in [Client -> [Field -> Nat]] /\ lost \in [Client -> [Field -> Nat]]
    BY DEF Inv, TypeOK
  <2>3. QED
    BY <1>1, <2>1, <2>2
<1>9. ASSUME NEW f \in Field, NewWindow(f)
      PROVE  \E l \in Limits :
               Daily[l] = NoLimit \/ happened'[c].requests <= Daily[l] + lost'[c].requests
  <2>1. CASE happened'[c].requests = 0 /\ lost'[c].requests = 0
    BY <1>1, <2>1, ClientsAssumption
  <2>2. CASE happened'[c].requests = happened[c].requests /\ lost'[c].requests = lost[c].requests
    BY <1>1, <1>2, <2>2
  <2>3. QED
    BY <1>8, <1>9, <2>1, <2>2
<1>10. ASSUME NEW a \in Admin, Handle(a) PROVE UNCHANGED <<happened, lost>>
  BY <1>10 DEF Handle, Create, Revoke, SetLimits, Submit, Complete, Fail, Disconnect, counters
<1>11. ASSUME Execute \/ ExecuteFails \/ Start \/ (\E d \in Client : CliCreate(d))
       PROVE  UNCHANGED <<happened, lost>>
  BY <1>11 DEF Execute, ExecuteFails, Answer, Start, CliCreate, counters
<1>12. ASSUME NEW q \in Request,
              Check(q) \/ Leave(q) \/ (\E d \in Client : Authenticate(q, d))
       PROVE  UNCHANGED <<happened, lost>>
  BY <1>12 DEF Check, Leave, Authenticate, counters
<1>13. CASE UNCHANGED vars
  BY <1>3, <1>13 DEF vars, counters
<1>14. ASSUME NEW q \in Request, Serve(q)
       PROVE  \E l \in Limits :
                Daily[l] = NoLimit \/ happened'[c].requests <= Daily[l] + lost'[c].requests
  BY <1>1, <1>2, <1>3, <1>4, <1>5, <1>12, <1>14 DEF Serve
<1>15. QED
  BY <1>1, <1>2, <1>3, <1>6, <1>7, <1>9, <1>10, <1>11, <1>13, <1>14 DEF Next

(* No client is admitted more often in a day than the most generous of its limits allows,
   beyond what was admitted before a stop and never reached the disk (admit_client). *)
THEOREM DailyQuota == Spec => []DailyQuotaKept
<1>1. Init => DailyQuotaKept
  <2>1. ASSUME Init PROVE DailyQuotaKept
    <3>1. \A c \in Client : happened[c].requests = 0 /\ lost[c].requests = 0
      BY <2>1 DEF Init, Zero, Field
    <3>2. None \in Limits /\ (Daily[None] = NoLimit \/ Daily[None] \in Nat)
      BY ClientsAssumption
    <3>3. QED
      BY <3>1, <3>2 DEF DailyQuotaKept
  <2>2. QED
    BY <2>1
<1>2. QED
  BY InitInv, StepInv, DailyStep, <1>1, PTL DEF Spec

-----------------------------------------------------------------------------
(***************************************************************************)
(* The month's credits.  A running call holds a ticket for each credit it   *)
(* may still spend: spending one turns a ticket into a credit, so that what *)
(* happened and the tickets together grow only with an admission, which     *)
(* finds the client below a limit.                                          *)
(***************************************************************************)
AllTickets == Request \X (1..MaxSpend)
Tickets(c) == {t \in AllTickets : at[t[1]] = "running" /\ who[t[1]] = c /\ t[2] <= left[t[1]]}
Overshoot == Cardinality(Request) * MaxSpend

Bounded(c, l) ==
  \/ Monthly[l] = NoLimit
  \/ happened[c].credits + Cardinality(Tickets(c)) <= LastBelow(Monthly[l]) + Overshoot + lost[c].credits
CreditsInv == \A c \in Client : \E l \in Limits : Bounded(c, l)

(* There are as many tickets as the calls in flight may spend. *)
LEMMA TicketsCounted ==
  ASSUME IsFiniteSet(Request)
  PROVE  /\ IsFiniteSet(AllTickets) /\ Cardinality(AllTickets) = Overshoot /\ Overshoot \in Nat
         /\ \A S \in SUBSET AllTickets :
              IsFiniteSet(S) /\ Cardinality(S) \in Nat /\ Cardinality(S) <= Overshoot
<1>1. IsFiniteSet(1..MaxSpend) /\ Cardinality(1..MaxSpend) = MaxSpend
  BY FS_Interval, ClientsAssumption
<1>2. IsFiniteSet(AllTickets) /\ Cardinality(AllTickets) = Overshoot
  BY <1>1, FS_Product DEF AllTickets, Overshoot
<1>3. Overshoot \in Nat
  BY <1>2, FS_CardinalityType
<1>4. ASSUME NEW S \in SUBSET AllTickets
      PROVE  IsFiniteSet(S) /\ Cardinality(S) \in Nat /\ Cardinality(S) <= Overshoot
  BY <1>2, <1>4, FS_Subset, FS_CardinalityType
<1>5. QED
  BY <1>2, <1>3, <1>4

(* The types of what is counted. *)
LEMMA CreditTypes ==
  ASSUME TypeOK
  PROVE  /\ "credits" \in Field /\ "requests" \in Field
         /\ \A c \in Client : happened[c].credits \in Nat /\ lost[c].credits \in Nat
                            /\ usage[c].credits \in Nat /\ saved[c].credits \in Nat
                            /\ queued[c].credits \in Nat
         /\ \A l \in Limits : Monthly[l] = NoLimit \/ (Monthly[l] \in Nat /\ LastBelow(Monthly[l]) \in Nat)
<1>1. /\ happened \in [Client -> [Field -> Nat]] /\ lost \in [Client -> [Field -> Nat]]
      /\ usage \in [Client -> [Field -> Nat]] /\ saved \in [Client -> [Field -> Nat]]
      /\ queued \in [Client -> [Field -> Nat]]
  BY DEF TypeOK
<1>2. "credits" \in Field /\ "requests" \in Field
  BY DEF Field
<1>3. \A l \in Limits : Monthly[l] = NoLimit \/ Monthly[l] \in Nat
  BY ClientsAssumption
<1>4. \A n \in Nat : LastBelow(n) \in Nat
  BY DEF LastBelow
<1>5. QED
  BY <1>1, <1>2, <1>3, <1>4

(* A client that gets no ticket and no credit stays within its bound. *)
LEMMA StillBounded ==
  ASSUME IsFiniteSet(Request), TypeOK, TypeOK', CreditsInv, NEW c \in Client,
         Tickets(c)' \subseteq Tickets(c),
         happened'[c].credits <= happened[c].credits, lost'[c].credits >= lost[c].credits
  PROVE  \E l \in Limits : Bounded(c, l)'
<1>1. PICK l \in Limits : Bounded(c, l)
  BY DEF CreditsInv
<1>2. Tickets(c) \in SUBSET AllTickets /\ AllTickets' = AllTickets
  BY DEF Tickets, AllTickets
<1>3. /\ Cardinality(Tickets(c)) \in Nat /\ Cardinality(Tickets(c)') \in Nat
      /\ Cardinality(Tickets(c)') <= Cardinality(Tickets(c)) /\ Overshoot \in Nat
  <2>1. IsFiniteSet(Tickets(c)) /\ Tickets(c)' \in SUBSET Tickets(c)
    BY <1>2, TicketsCounted
  <2>2. QED
    BY <1>2, <2>1, TicketsCounted, FS_Subset, FS_CardinalityType
<1>4. /\ happened[c].credits \in Nat /\ lost[c].credits \in Nat
      /\ happened'[c].credits \in Nat /\ lost'[c].credits \in Nat
      /\ Monthly[l] = NoLimit \/ LastBelow(Monthly[l]) \in Nat
  <2>1. happened' \in [Client -> [Field -> Nat]] /\ lost' \in [Client -> [Field -> Nat]]
    BY DEF TypeOK
  <2>2. QED
    BY <2>1, CreditTypes
<1>5. Bounded(c, l)'
  <2>1. CASE Monthly[l] = NoLimit
    BY <2>1 DEF Bounded
  <2>2. CASE Monthly[l] # NoLimit
    <3> DEFINE t == Cardinality(Tickets(c)) u == Cardinality(Tickets(c)') b == LastBelow(Monthly[l])
               h == happened[c].credits k == happened'[c].credits
               m == lost[c].credits n == lost'[c].credits o == Overshoot
    <3>1. h + t <= b + o + m
      BY <1>1, <2>2 DEF Bounded
    <3>2. t \in Nat /\ u \in Nat /\ u <= t /\ h \in Nat /\ k \in Nat /\ k <= h /\ m \in Nat /\ n \in Nat
          /\ n >= m /\ b \in Nat /\ o \in Nat
      BY <1>3, <1>4, <2>2
    <3>3. (happened[c].credits + Cardinality(Tickets(c)) <= LastBelow(Monthly[l]) + Overshoot + lost[c].credits)'
            <=> k + u <= b + o + n
      BY DEF Overshoot, LastBelow
    <3> HIDE DEF t, u, b, h, k, m, n, o
    <3>4. k + u <= b + o + n
      BY <3>1, <3>2
    <3>5. QED
      BY <3>3, <3>4 DEF Bounded
  <2>3. QED
    BY <2>1, <2>2
<1>6. QED
  BY <1>5

(* A call that spends a credit gives a ticket for it. *)
LEMMA SpendBounded ==
  ASSUME IsFiniteSet(Request), TypeOK, TypeOK', CreditsInv, NEW q \in Request, Spend(q), NEW c \in Client
  PROVE  \E l \in Limits : Bounded(c, l)'
<1>1. /\ at[q] = "running" /\ left[q] > 0 /\ left[q] \in 0..MaxSpend /\ who[q] \in Client
      /\ at' = at /\ who' = who /\ lost' = lost
      /\ left' = [left EXCEPT ![q] = @ - 1] /\ left \in [Request -> 0..MaxSpend]
      /\ happened' = [happened EXCEPT ![who[q]]["credits"] = @ + 1]
      /\ happened \in [Client -> [Field -> Nat]] /\ MaxSpend \in Nat
  BY ClientsAssumption DEF Spend, Bump, TypeOK
<1>2. /\ happened[c].credits \in Nat /\ lost[c].credits \in Nat
      /\ happened'[c].credits = IF c = who[q] THEN happened[c].credits + 1 ELSE happened[c].credits
  BY <1>1, CreditTypes
<1>3. left'[q] = left[q] - 1 /\ \A r \in Request : r # q => left'[r] = left[r]
  BY <1>1
<1>4. \A t \in AllTickets : t[1] \in Request /\ t[2] \in 1..MaxSpend /\ t = <<t[1], t[2]>>
  BY DEF AllTickets
<1>5. \A t \in AllTickets : t[2] <= left'[t[1]] <=> t[2] <= left[t[1]] /\ t # <<q, left[q]>>
  <2>1. TAKE t \in AllTickets
  <2>2. /\ t[1] \in Request /\ t[2] \in Nat /\ t = <<t[1], t[2]>>
        /\ left[t[1]] \in Nat /\ left[q] \in Nat
    BY <1>1, <1>4
  <2>3. CASE t[1] = q
    <3>1. t = <<q, left[q]>> <=> t[2] = left[q]
      BY <2>2, <2>3
    <3>2. QED
      BY <1>3, <2>2, <2>3, <3>1
  <2>4. CASE t[1] # q
    BY <1>3, <2>2, <2>4
  <2>5. QED
    BY <2>3, <2>4
<1>6. Tickets(c)' = Tickets(c) \ {<<q, left[q]>>}
  BY <1>1, <1>5 DEF Tickets, AllTickets
<1>7. CASE c # who[q]
  BY <1>2, <1>6, <1>7, <1>1, StillBounded
<1>8. CASE c = who[q]
  <2>1. PICK l \in Limits : Bounded(c, l)
    BY DEF CreditsInv
  <2>2. <<q, left[q]>> \in Tickets(c)
    BY <1>1, <1>8 DEF Tickets, AllTickets
  <2>3. Tickets(c) \in SUBSET AllTickets
    BY DEF Tickets
  <2>4. Cardinality(Tickets(c)') = Cardinality(Tickets(c)) - 1 /\ Cardinality(Tickets(c)) \in Nat
        /\ Overshoot \in Nat
    BY <1>6, <2>2, <2>3, TicketsCounted, FS_RemoveElement
  <2>5. Monthly[l] = NoLimit \/ LastBelow(Monthly[l]) \in Nat
    BY CreditTypes
  <2>6. Bounded(c, l)'
    <3>1. happened'[c].credits + Cardinality(Tickets(c)') = happened[c].credits + Cardinality(Tickets(c))
      BY <1>2, <1>8, <2>4
    <3>2. QED
      BY <1>1, <2>1, <3>1 DEF Bounded, Overshoot, LastBelow
  <2>7. QED
    BY <2>6
<1>9. QED
  BY <1>7, <1>8

(* An admission hands out its tickets to a client that was below the limit it read. *)
LEMMA AdmitBounded ==
  ASSUME IsFiniteSet(Request), Inv, TypeOK', CreditsInv, NEW q \in Request, Admit(q), NEW c \in Client
  PROVE  \E l \in Limits : Bounded(c, l)'
<1>1. /\ TypeOK /\ at[q] = "checked" /\ up /\ who[q] \in Client /\ limits[q] \in Limits
      /\ at' = [at EXCEPT ![q] = "running"] /\ who' = who /\ lost' = lost
      /\ left' = [left EXCEPT ![q] = MaxSpend] /\ left \in [Request -> 0..MaxSpend]
      /\ at \in [Request -> {"idle", "authenticated", "checked", "running"}]
      /\ happened' = [happened EXCEPT ![who[q]]["requests"] = @ + 1]
      /\ happened \in [Client -> [Field -> Nat]]
      /\ Monthly[limits[q]] = NoLimit \/ usage[who[q]].credits < Monthly[limits[q]]
  BY DEF Inv, CountersInv, Admit, Within, HasRoom, Bump, Step, TypeOK
<1>2. /\ happened[c].credits \in Nat /\ lost[c].credits \in Nat /\ usage[c].credits \in Nat
      /\ saved[c].credits \in Nat /\ queued[c].credits \in Nat /\ "credits" \in Field
      /\ happened'[c].credits = happened[c].credits
  BY <1>1, CreditTypes
<1>3. CASE c # who[q]
  <2>1. \A t \in AllTickets : t[1] \in Request
    BY DEF AllTickets
  <2>2. Tickets(c)' \subseteq Tickets(c)
    BY <1>1, <1>3, <2>1 DEF Tickets, AllTickets
  <2>3. QED
    BY <1>1, <1>2, <2>2, StillBounded
<1>4. CASE c = who[q]
  <2>1. Tickets(c)' \in SUBSET AllTickets
    BY DEF Tickets, AllTickets
  <2>2. Cardinality(Tickets(c)') \in Nat /\ Cardinality(Tickets(c)') <= Overshoot /\ Overshoot \in Nat
    BY <2>1, TicketsCounted
  <2>3. happened[c].credits <= usage[c].credits + lost[c].credits
    <3>1. /\ happened[c].credits = saved[c].credits + queued[c].credits + lost[c].credits
          /\ saved[c].credits + queued[c].credits <= usage[c].credits
      BY <1>1, <1>2 DEF Inv, CountersInv, Account
    <3>2. QED
      BY <1>2, <3>1
  <2>4. PICK l \in Limits : l = limits[q]
    BY <1>1
  <2>5. Monthly[l] = NoLimit \/ (Monthly[l] \in Nat /\ usage[c].credits < Monthly[l])
    BY <1>1, <1>4, <2>4, CreditTypes
  <2>6. CASE Monthly[l] = NoLimit
    BY <2>6 DEF Bounded
  <2>7. CASE Monthly[l] # NoLimit
    <3>1. usage[c].credits <= LastBelow(Monthly[l]) /\ LastBelow(Monthly[l]) \in Nat
      BY <1>2, <2>5, <2>7 DEF LastBelow
    <3>2. happened'[c].credits + Cardinality(Tickets(c)') <= LastBelow(Monthly[l]) + Overshoot + lost'[c].credits
      BY <1>1, <1>2, <2>2, <2>3, <3>1
    <3>3. QED
      BY <3>2 DEF Bounded, Overshoot, LastBelow
  <2>8. QED
    BY <2>6, <2>7
<1>5. QED
  BY <1>3, <1>4

(* A new month starts every client from nothing. *)
LEMMA WindowBounded ==
  ASSUME IsFiniteSet(Request), TypeOK, TypeOK', CreditsInv, NEW f \in Field, NewWindow(f), NEW c \in Client
  PROVE  \E l \in Limits : Bounded(c, l)'
<1>1. /\ happened' = [d \in Client |-> [happened[d] EXCEPT ![f] = 0]]
      /\ lost' = [d \in Client |-> [lost[d] EXCEPT ![f] = 0]]
      /\ UNCHANGED <<at, who, left>>
      /\ happened \in [Client -> [Field -> Nat]] /\ lost \in [Client -> [Field -> Nat]]
  BY DEF NewWindow, requests, TypeOK
<1>2. Tickets(c)' = Tickets(c)
  BY <1>1 DEF Tickets, AllTickets
<1>3. \/ happened'[c].credits = 0 /\ lost'[c].credits = 0
      \/ happened'[c].credits = happened[c].credits /\ lost'[c].credits = lost[c].credits
  BY <1>1, CreditTypes
<1>4. CASE happened'[c].credits = 0 /\ lost'[c].credits = 0
  <2>1. Tickets(c)' \in SUBSET AllTickets
    BY <1>2 DEF Tickets
  <2>2. Cardinality(Tickets(c)') \in Nat /\ Cardinality(Tickets(c)') <= Overshoot /\ Overshoot \in Nat
    BY <2>1, TicketsCounted
  <2>3. None \in Limits /\ (Monthly[None] = NoLimit \/ LastBelow(Monthly[None]) \in Nat)
    BY CreditTypes, ClientsAssumption
  <2>4. Bounded(c, None)'
    BY <1>4, <2>2, <2>3 DEF Bounded, Overshoot, LastBelow
  <2>5. QED
    BY <2>3, <2>4
<1>5. CASE happened'[c].credits = happened[c].credits /\ lost'[c].credits = lost[c].credits
  BY <1>2, <1>5, CreditTypes, StillBounded
<1>6. QED
  BY <1>3, <1>4, <1>5

(* Nothing else gives a credit or a ticket: a call that leaves gives its tickets back, a stop
   and a failed statement only lose what was counted. *)
LEMMA OthersBounded ==
  ASSUME TypeOK, NEW c \in Client,
         \/ \E a \in Admin : Handle(a)
         \/ Execute \/ ExecuteFails \/ Stop \/ Start
         \/ \E d \in Client : CliCreate(d)
         \/ \E q \in Request : Check(q) \/ Leave(q) \/ \E d \in Client : Authenticate(q, d)
         \/ \E d \in Client, f \in Field : Write(d, f) \/ WriteFails(d, f)
         \/ UNCHANGED vars
  PROVE  /\ Tickets(c)' \subseteq Tickets(c)
         /\ happened'[c].credits <= happened[c].credits /\ lost'[c].credits >= lost[c].credits
<1>1. /\ at \in [Request -> {"idle", "authenticated", "checked", "running"}] /\ who \in [Request -> Client]
      /\ left \in [Request -> 0..MaxSpend] /\ lost \in [Client -> [Field -> Nat]]
      /\ happened[c].credits \in Nat /\ lost[c].credits \in Nat /\ queued[c].credits \in Nat
      /\ "credits" \in Field
  BY CreditTypes DEF TypeOK
<1>2. ASSUME UNCHANGED <<at, who, left>> PROVE Tickets(c)' = Tickets(c)
  BY <1>2 DEF Tickets, AllTickets
<1>3. CASE UNCHANGED <<happened, lost, at, who, left>>
  BY <1>1, <1>2, <1>3
<1>4. CASE (\E a \in Admin : Handle(a)) \/ Execute \/ ExecuteFails \/ Start \/ (\E d \in Client : CliCreate(d))
           \/ UNCHANGED vars
  <2>1. ASSUME NEW a \in Admin, Handle(a) PROVE UNCHANGED <<counters, requests>>
    BY <2>1 DEF Handle, Create, Revoke, SetLimits, Submit, Complete, Fail, Disconnect
  <2>2. Execute \/ ExecuteFails => UNCHANGED <<counters, requests>>
    BY DEF Execute, ExecuteFails, Answer
  <2>3. Start \/ (\E d \in Client : CliCreate(d)) \/ UNCHANGED vars => UNCHANGED <<happened, lost, requests>>
    BY DEF Start, CliCreate, counters, vars
  <2>4. UNCHANGED <<happened, lost, at, who, left>>
    BY <1>4, <2>1, <2>2, <2>3 DEF counters, requests
  <2>5. QED
    BY <1>3, <2>4
<1>5. CASE Stop
  <2>1. /\ happened' = happened /\ lost'[c].credits = lost[c].credits + queued[c].credits
        /\ at' = [q \in Request |-> "idle"]
    BY <1>1, <1>5 DEF Stop
  <2>2. Tickets(c)' = {}
    BY <2>1 DEF Tickets, AllTickets
  <2>3. QED
    BY <1>1, <2>1, <2>2
<1>6. ASSUME NEW q \in Request, Check(q) \/ Leave(q) \/ \E d \in Client : Authenticate(q, d)
      PROVE  /\ Tickets(c)' \subseteq Tickets(c)
             /\ happened'[c].credits <= happened[c].credits /\ lost'[c].credits >= lost[c].credits
  <2>1. /\ UNCHANGED <<happened, lost>> /\ at'[q] # "running"
        /\ \A r \in Request : r # q => at'[r] = at[r] /\ who'[r] = who[r] /\ left'[r] = left[r]
    BY <1>1, <1>6 DEF Check, Leave, Authenticate, Step, counters
  <2>2. \A t \in AllTickets : t[1] \in Request
    BY DEF AllTickets
  <2>3. Tickets(c)' \subseteq Tickets(c)
    BY <2>1, <2>2 DEF Tickets, AllTickets
  <2>4. QED
    BY <1>1, <2>1, <2>3
<1>7. ASSUME NEW d \in Client, NEW f \in Field, Write(d, f) \/ WriteFails(d, f)
      PROVE  /\ Tickets(c)' \subseteq Tickets(c)
             /\ happened'[c].credits <= happened[c].credits /\ lost'[c].credits >= lost[c].credits
  <2>1. /\ happened' = happened /\ UNCHANGED <<at, who, left>>
        /\ lost' = lost \/ lost' = [lost EXCEPT ![d][f] = @ + 1]
    BY <1>7 DEF Write, WriteFails, requests
  <2>2. lost'[c].credits >= lost[c].credits
    BY <1>1, <2>1
  <2>3. QED
    BY <1>1, <1>2, <2>1, <2>2
<1>8. QED
  BY <1>4, <1>5, <1>6, <1>7

(* Every step keeps every client within its bound. *)
LEMMA CreditsStep ==
  ASSUME IsFiniteSet(Request)
  PROVE  Inv /\ CreditsInv /\ [Next]_vars => CreditsInv'
<1> SUFFICES ASSUME Inv, CreditsInv, [Next]_vars, NEW c \in Client
             PROVE  \E l \in Limits : Bounded(c, l)'
  BY DEF CreditsInv
<1>1. TypeOK /\ TypeOK'
  BY StepInv DEF Inv
<1>2. CASE \E q \in Request : Spend(q)
  BY <1>1, <1>2, SpendBounded
<1>3. CASE \E q \in Request : Admit(q)
  BY <1>1, <1>3, AdmitBounded
<1>4. CASE \E f \in Field : NewWindow(f)
  BY <1>1, <1>4, WindowBounded
<1>5. CASE \/ \E a \in Admin : Handle(a)
           \/ Execute \/ ExecuteFails \/ Stop \/ Start
           \/ \E d \in Client : CliCreate(d)
           \/ \E q \in Request : Check(q) \/ Leave(q) \/ \E d \in Client : Authenticate(q, d)
           \/ \E d \in Client, f \in Field : Write(d, f) \/ WriteFails(d, f)
           \/ UNCHANGED vars
  <2>1. /\ Tickets(c)' \subseteq Tickets(c)
        /\ happened'[c].credits <= happened[c].credits /\ lost'[c].credits >= lost[c].credits
    BY <1>1, <1>5, OthersBounded
  <2>2. QED
    BY <1>1, <2>1, StillBounded
<1>6. QED
  BY <1>2, <1>3, <1>4, <1>5 DEF Next, Serve

(* However many clients and calls there are, a client spends at most what the calls in flight
   may spend beyond the most generous of its limits, and what was lost (admit_client, add). *)
THEOREM CreditsOvershoot ==
  ASSUME IsFiniteSet(Request)
  PROVE  Spec => []CreditsOvershootBounded
<1>1. Init => CreditsInv
  <2> SUFFICES ASSUME Init, NEW c \in Client PROVE \E l \in Limits : Bounded(c, l)
    BY DEF CreditsInv
  <2>1. happened[c].credits = 0 /\ lost[c].credits = 0
    BY DEF Init, Zero, Field
  <2>2. Tickets(c) = {}
    BY DEF Init, Tickets, AllTickets
  <2>3. Cardinality(Tickets(c)) = 0 /\ Overshoot \in Nat
    BY <2>2, FS_EmptySet, TicketsCounted
  <2>4. None \in Limits /\ (Monthly[None] = NoLimit \/ LastBelow(Monthly[None]) \in Nat)
    BY CreditTypes, InitInv, ClientsAssumption DEF Inv
  <2>5. QED
    BY <2>1, <2>3, <2>4 DEF Bounded
<1>2. Inv /\ CreditsInv => CreditsOvershootBounded
  <2> SUFFICES ASSUME Inv, CreditsInv, NEW c \in Client
               PROVE  \E l \in Limits :
                        \/ Monthly[l] = NoLimit
                        \/ happened[c].credits <= LastBelow(Monthly[l]) + Cardinality(Request) * MaxSpend
                                                   + lost[c].credits
    BY DEF CreditsOvershootBounded
  <2>1. PICK l \in Limits : Bounded(c, l)
    BY DEF CreditsInv
  <2>2. Tickets(c) \in SUBSET AllTickets
    BY DEF Tickets
  <2>3. Cardinality(Tickets(c)) \in Nat /\ Overshoot \in Nat
    BY <2>2, TicketsCounted
  <2>4. Monthly[l] = NoLimit
        \/ happened[c].credits <= LastBelow(Monthly[l]) + Overshoot + lost[c].credits
    BY <2>1, <2>3, CreditTypes DEF Inv, Bounded
  <2>5. QED
    BY <2>4 DEF Overshoot
<1>3. QED
  BY <1>1, <1>2, InitInv, StepInv, CreditsStep, PTL DEF Spec

-----------------------------------------------------------------------------
(***************************************************************************)
(* One operator at a time.  A handler reads a client's record and writes it *)
(* back after the worker's answer; with a single operator nobody else       *)
(* revokes the client in between, so what it writes of a revoked client     *)
(* says so.  With two, the violated run shows the key come back.            *)
(***************************************************************************)
OneOperator == \A a, b \in Admin : a = b

RefusedInv ==
  /\ up => \A c \in revoked : mirror[c].status = "revoked"
  /\ \A a \in Admin :
       phase[a] # "idle" /\ edit[a].client \in revoked => edit[a].rec.status = "revoked"

(* A handler starts from a record in which every revocation so far is seen. *)
LEMMA SubmitRefused ==
  ASSUME Inv, RefusedInv, NEW a \in Admin, NEW c \in Client, NEW l \in Limits,
         Create(a, c, l) \/ Revoke(a, c) \/ SetLimits(a, c, l)
  PROVE  RefusedInv'
<1>1. /\ mirror \in [Client -> Record] /\ edit \in [Admin -> Edit \cup {NoEdit}]
      /\ phase \in [Admin -> {"idle", "waiting", "done", "failed"}] /\ revoked \subseteq Client
  BY DEF Inv, TypeOK
<1>2. ASSUME NEW e, Submit(a, e), e.client \in revoked => e.rec.status = "revoked"
      PROVE  RefusedInv'
  <2>1. /\ UNCHANGED <<up, mirror, revoked>> /\ edit' = [edit EXCEPT ![a] = e]
        /\ phase' = [phase EXCEPT ![a] = "waiting"]
    BY <1>2 DEF Submit
  <2>2. edit'[a] = e /\ \A b \in Admin : b # a => edit'[b] = edit[b] /\ phase'[b] = phase[b]
    BY <1>1, <2>1
  <2>3. QED
    BY <1>2, <2>1, <2>2 DEF RefusedInv
<1>3. CASE Create(a, c, l)
  <2>1. key[c] = "unused"
    BY <1>3 DEF Create
  <2>2. c \notin revoked
    BY <2>1 DEF Inv, RecordsInv, RowInv
  <2>3. QED
    BY <1>2, <1>3, <2>2 DEF Create
<1>4. CASE Revoke(a, c)
  <2>1. [mirror[c] EXCEPT !.status = "revoked"].status = "revoked"
    BY <1>1 DEF Record
  <2>2. QED
    BY <1>2, <1>4, <2>1 DEF Revoke
<1>5. CASE SetLimits(a, c, l)
  <2>1. up /\ mirror[c] \in Record
    BY <1>1, <1>5 DEF SetLimits, Submit
  <2>2. [mirror[c] EXCEPT !.limits = l].status = mirror[c].status
    BY <2>1 DEF Record
  <2>3. c \in revoked => mirror[c].status = "revoked"
    BY <2>1 DEF RefusedInv
  <2>4. QED
    BY <1>2, <1>5, <2>2, <2>3 DEF SetLimits
<1>6. QED
  BY <1>3, <1>4, <1>5

(* What the only operator's handler writes to memory is the last word on its client. *)
LEMMA CompleteRefused ==
  ASSUME OneOperator, Inv, RefusedInv, NEW a \in Admin, Complete(a)
  PROVE  RefusedInv'
<1> DEFINE e == edit[a]
<1>1. /\ mirror \in [Client -> Record] /\ revoked \subseteq Client /\ phase[a] = "done"
      /\ phase \in [Admin -> {"idle", "waiting", "done", "failed"}]
      /\ up' = up /\ mirror' = [mirror EXCEPT ![e.client] = e.rec]
      /\ revoked' = IF e.kind = "revoke" THEN revoked \cup {e.client} ELSE revoked
      /\ phase' = [phase EXCEPT ![a] = "idle"]
  BY DEF Inv, TypeOK, Complete, Remember, Release
<1>2. e.client \in Client /\ (e.kind = "revoke" => e.rec.status = "revoked")
  <2>1. Shape(e)
    BY <1>1 DEF Inv, RecordsInv, HandlerInv, Sound
  <2>2. QED
    BY <2>1 DEF Shape, Edit
<1>3. e.client \in revoked => e.rec.status = "revoked"
  BY <1>1 DEF RefusedInv
<1> HIDE DEF e
<1>4. ASSUME up', NEW c \in revoked' PROVE mirror'[c].status = "revoked"
  <2>1. CASE c = e.client
    BY <1>1, <1>2, <1>3, <1>4, <2>1
  <2>2. CASE c # e.client
    <3>1. up /\ c \in revoked /\ c \in Client
      BY <1>1, <1>4, <2>2
    <3>2. mirror'[c] = mirror[c] /\ mirror[c].status = "revoked"
      BY <1>1, <2>2, <3>1 DEF RefusedInv
    <3>3. QED
      BY <3>2
  <2>3. QED
    BY <2>1, <2>2
<1>5. \A b \in Admin : phase'[b] = "idle"
  BY <1>1 DEF OneOperator
<1>6. QED
  BY <1>4, <1>5 DEF RefusedInv

(* Every step of a server with one operator. *)
LEMMA RefusedStep ==
  ASSUME OneOperator
  PROVE  Inv /\ RefusedInv /\ [Next]_vars => RefusedInv'
<1> SUFFICES ASSUME Inv, RefusedInv, [Next]_vars PROVE RefusedInv'
  OBVIOUS
<1>1. /\ phase \in [Admin -> {"idle", "waiting", "done", "failed"}] /\ revoked \subseteq Client
      /\ disk \in [Client -> Record] /\ queue \in Seq(Job)
  BY DEF Inv, TypeOK
<1>2. CASE UNCHANGED <<up, mirror, revoked, edit, phase>>
  BY <1>2 DEF RefusedInv
<1>3. ASSUME NEW a \in Admin, Handle(a) PROVE RefusedInv'
  <2>1. CASE Fail(a) \/ Disconnect(a)
    <3>1. UNCHANGED <<up, mirror, revoked>> /\ phase' = [phase EXCEPT ![a] = "idle"]
      BY <2>1 DEF Fail, Disconnect, Release
    <3>2. \A b \in Admin : phase'[b] = "idle"
      BY <1>1, <3>1 DEF OneOperator
    <3>3. QED
      BY <3>1, <3>2 DEF RefusedInv
  <2>2. CASE \E c \in Client : \E l \in Limits : Create(a, c, l) \/ SetLimits(a, c, l)
    BY <2>2, SubmitRefused
  <2>3. CASE \E c \in Client : Revoke(a, c)
    BY <2>3, SubmitRefused, ClientsAssumption
  <2>4. QED
    BY <1>3, <2>1, <2>2, <2>3, CompleteRefused DEF Handle
<1>4. CASE Execute \/ ExecuteFails
  <2>1. /\ UNCHANGED <<up, mirror, revoked, edit>> /\ queue # <<>>
        /\ \/ phase' = phase
           \/ /\ Head(queue).by \in Admin
              /\ \E outcome : phase' = [phase EXCEPT ![Head(queue).by] = outcome]
    BY <1>4 DEF Execute, ExecuteFails, Answer
  <2>2. 1 \in 1..Len(queue) /\ Head(queue) = queue[1]
    BY <1>1, <2>1, EmptySeq, HeadTailProperties
  <2>3. Head(queue).by \in Admin => phase[Head(queue).by] = "waiting"
    BY <2>2 DEF Inv, RecordsInv, QueueInv
  <2>4. \A b \in Admin : phase'[b] # "idle" => phase[b] # "idle"
    BY <1>1, <2>1, <2>3
  <2>5. QED
    BY <2>1, <2>4 DEF RefusedInv
<1>5. CASE Stop
  <2>1. up' = FALSE /\ \A b \in Admin : phase'[b] = "idle"
    BY <1>5 DEF Stop
  <2>2. QED
    BY <2>1 DEF RefusedInv
<1>6. CASE Start
  <2>1. mirror' = disk /\ UNCHANGED <<revoked, phase, edit>>
    BY <1>6 DEF Start
  <2>2. \A c \in revoked : disk[c].status = "revoked"
    BY <1>1 DEF Inv, RecordsInv, RowInv
  <2>3. QED
    BY <2>1, <2>2 DEF RefusedInv
<1>7. CASE (\E q \in Request : Serve(q)) \/ (\E c \in Client, f \in Field : Write(c, f) \/ WriteFails(c, f))
  BY <1>2, <1>7 DEF Serve, Authenticate, Check, Admit, Spend, Leave, Write, WriteFails, records
<1>8. CASE (\E f \in Field : NewWindow(f)) \/ (\E c \in Client : CliCreate(c)) \/ UNCHANGED vars
  BY <1>2, <1>8 DEF NewWindow, CliCreate, vars, records
<1>9. QED
  BY <1>3, <1>4, <1>5, <1>6, <1>7, <1>8 DEF Next

(* With one operator at a time, a revocation that was answered with success is the end of the
   key, whatever the operator's other edits, disconnects, failed statements and stops
   (revoke_client, set_client_limits); two operators can bring it back (see the runs). *)
THEOREM RevokedRefusedByOne ==
  ASSUME OneOperator
  PROVE  Spec => []RevokedRefused
<1>1. Init => RefusedInv
  BY DEF Init, RefusedInv
<1>2. RefusedInv => RevokedRefused
  BY DEF RefusedInv, RevokedRefused, Active
<1>3. QED
  BY <1>1, <1>2, InitInv, StepInv, RefusedStep, PTL DEF Spec
=============================================================================
