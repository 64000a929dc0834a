------------------------- MODULE ConfigFilesProofs --------------------------
(***************************************************************************)
(* Theorems about ConfigFiles, for any settings, requests and events.       *)
(***************************************************************************)
EXTENDS ConfigFiles, TLAPS

-----------------------------------------------------------------------------
(***************************************************************************)
(* The inductive invariant.                                                 *)
(***************************************************************************)
Planning == {"creating", "writing", "renaming"}
Places == {"idle", "queued", "reading", "installing"} \cup Planning

JobRecord ==
  [at : Places, edits : EditSets \cup {Reload}, texts : [File -> Text \cup {Torn}],
   file : File, sure : BOOLEAN]

FilesTypeOK ==
  /\ disk \in [File -> [main : Text \cup {Torn, Missing}, tmp : Text \cup {Torn, Missing}]]
  /\ job \in [Admin -> JobRecord]
  /\ acked \in [Path -> Value \cup {Unset, Keep}]
  /\ hand \in BOOLEAN

Active(a) == job[a].at \notin {"idle", "queued"}

OnDisk(f) == Read(disk[f].main)

\* One request at a time is at the files.
LockHeld == \A a \in Admin : Active(a) => lock = a

\* A hand-made change leaves no claim, and who has not read it will not make one.
HandKnown == \A a \in Admin : Active(a) /\ ~job[a].sure => hand /\ \A p \in Path : acked[p] = Keep

\* What a request has planned loads, and sets what it was asked to.
PlanLoads(a) ==
  /\ Active(a) /\ job[a].edits # Reload =>
       \A p \in Path : job[a].edits[p] # Keep => Env[p] = Unset
  /\ job[a].at \in Planning \cup {"installing"} =>
       /\ job[a].texts \in [File -> Text]
       /\ Loads(job[a].texts["config"], job[a].texts["secrets"])
       /\ job[a].edits # Reload =>
            \A p \in Path : job[a].edits[p] # Keep => job[a].texts[FileOf(p)][p] = job[a].edits[p]
  /\ job[a].at \in Planning => job[a].edits # Reload /\ job[a].file \in Touched(job[a].edits)
  /\ job[a].at = "renaming" => disk[job[a].file].tmp = job[a].texts[job[a].file]

\* What it has read is what is there still, but for what it has written itself.
PlanCurrent(a) ==
  job[a].sure =>
    /\ job[a].at = "reading" => job[a].texts["config"] = OnDisk("config")
    /\ job[a].at \in Planning =>
         /\ \A f \in File : OnDisk(f) \in Text /\ job[a].texts[f] = Edited(OnDisk(f), f, job[a].edits)
         /\ job[a].file = "secrets" => job[a].texts["config"] = OnDisk("config")
    /\ job[a].at = "installing" => \A f \in File : job[a].texts[f] = OnDisk(f)

Plans == \A a \in Admin : PlanLoads(a) /\ PlanCurrent(a)

\* The environment sets nothing that was acknowledged.
AckedFree == \A p \in Path : acked[p] # Keep => Env[p] = Unset

FilesInv ==
  /\ FilesTypeOK /\ LockHeld /\ HandKnown /\ Plans /\ AckedFree
  /\ EditsKept /\ RestartLoads

-----------------------------------------------------------------------------
(***************************************************************************)
(* Texts.                                                                   *)
(***************************************************************************)
(* What is read is a text or torn, what is edited a text; every path is of a file. *)
LEMMA TextFacts ==
  /\ "config" \in File /\ "secrets" \in File
  /\ \A p \in Path : FileOf(p) \in File
  /\ Torn \notin Text /\ Missing \notin Text /\ Torn # Missing
  /\ Blank \in Text
  /\ \A t \in Text \cup {Torn, Missing} : Read(t) \in Text \cup {Torn}
  /\ \A t \in Text : Read(t) = t
  /\ \A t \in Text, f \in File, e \in Edits : Edited(t, f, e) \in Text
  /\ \A c \in Text, s \in Text : Merged(c, s) \in Text
<1>1. "config" \in File /\ "secrets" \in File /\ \A p \in Path : FileOf(p) \in File
  BY DEF File, FileOf
<1>2. Torn \notin Text /\ Missing \notin Text /\ Torn # Missing
  BY ConfigAssumption
<1>3. Blank \in Text
  BY DEF Blank, Text
<1>4. \A t \in Text \cup {Torn, Missing} : Read(t) \in Text \cup {Torn}
  BY <1>2, <1>3 DEF Read
<1>5. \A t \in Text : Read(t) = t
  BY <1>2 DEF Read
<1>6. \A t \in Text, f \in File, e \in Edits : Edited(t, f, e) \in Text
  BY DEF Edited, Text, Edits
<1>7. \A c \in Text, s \in Text : Merged(c, s) \in Text
  BY ConfigAssumption DEF Merged, Text
<1>8. QED
  BY <1>1, <1>2, <1>3, <1>4, <1>5, <1>6, <1>7

(* Half of an edit loads: what a path is set to is what it was or what it will be, and paths
   that may not be set together are of one file. *)
LEMMA HalfEditLoads ==
  ASSUME NEW c \in Text, NEW s \in Text, NEW e \in Edits,
         Loads(c, s), Loads(Edited(c, "config", e), Edited(s, "secrets", e))
  PROVE  Loads(Edited(c, "config", e), s)
<1> DEFINE c2 == Edited(c, "config", e)
           s2 == Edited(s, "secrets", e)
           half == Merged(c2, s)
<1>1. c2 \in Text /\ s2 \in Text
  BY TextFacts
<1>2. \A p \in Path : FileOf(p) = "config" => half[p] = Merged(c2, s2)[p]
  BY DEF Merged, Edited, FileOf
<1>3. \A p \in Path : FileOf(p) # "config" => half[p] = Merged(c, s)[p]
  BY DEF Merged, Edited, FileOf
<1>4. /\ \A p \in Path : Merged(c, s)[p] \notin Bad /\ Merged(c2, s2)[p] \notin Bad
      /\ \A C \in Conflicts : Cardinality({p \in C : Merged(c2, s2)[p] # Unset}) <= 1
  BY DEF Loads, Valid
<1>5. \A p \in Path : half[p] \notin Bad
  BY <1>2, <1>3, <1>4
<1>6. ASSUME NEW C \in Conflicts
      PROVE  Cardinality({p \in C : half[p] # Unset}) <= 1
  <2>1. \A p \in C : p \in Path /\ FileOf(p) = "config"
    BY ConfigAssumption DEF FileOf
  <2>2. \A p \in C : half[p] = Merged(c2, s2)[p]
    BY <1>2, <2>1
  <2>3. {p \in C : half[p] # Unset} = {p \in C : Merged(c2, s2)[p] # Unset}
    BY <2>2
  <2>4. QED
    BY <1>4, <2>3
<1>7. Valid(half)
  BY <1>5, <1>6 DEF Valid
<1>8. QED
  BY <1>1, <1>7, TextFacts DEF Loads

(* An edit leaves alone what it does not set, a file that it does not touch, and itself. *)
LEMMA EditFacts ==
  ASSUME NEW t \in Text, NEW f \in File, NEW e \in Edits
  PROVE  /\ \A p \in Path : FileOf(p) # f \/ e[p] = Keep => Edited(t, f, e)[p] = t[p]
         /\ \A p \in Path : FileOf(p) = f /\ e[p] # Keep => Edited(t, f, e)[p] = e[p]
         /\ f \notin Touched(e) => Edited(t, f, e) = t
         /\ Edited(Edited(t, f, e), f, e) = Edited(t, f, e)
<1>1. \A p \in Path : FileOf(p) # f \/ e[p] = Keep => Edited(t, f, e)[p] = t[p]
  BY DEF Edited
<1>2. \A p \in Path : FileOf(p) = f /\ e[p] # Keep => Edited(t, f, e)[p] = e[p]
  BY DEF Edited
<1>3. ASSUME f \notin Touched(e) PROVE Edited(t, f, e) = t
  <2>1. \A p \in Path : FileOf(p) # f \/ e[p] = Keep
    BY <1>3 DEF Touched
  <2>2. \A p \in Path : Edited(t, f, e)[p] = t[p]
    BY <1>1, <2>1
  <2>3. QED
    BY <2>2 DEF Edited, Text
<1>4. Edited(Edited(t, f, e), f, e) = Edited(t, f, e)
  BY DEF Edited
<1>5. QED
  BY <1>1, <1>2, <1>3, <1>4

(* With what is on disk in force, every claim holds that the files bear out. *)
LEMMA InForceKeeps ==
  ASSUME NEW c \in Text, NEW s \in Text, NEW p \in Path, NEW v, Env[p] = Unset,
         (IF FileOf(p) = "config" THEN c[p] ELSE s[p]) = v,
         ~(FileOf(p) = "config" /\ s[p] # Unset),
         ~(FileOf(p) = "secrets" /\ v = Unset /\ c[p] # Unset)
  PROVE  Merged(c, s)[p] = v
BY DEF Merged, FileOf

-----------------------------------------------------------------------------
(***************************************************************************)
(* Who does not hold the lock has nothing planned.                          *)
(***************************************************************************)
(* Only the holder of the lock is at the files. *)
LEMMA Solo ==
  ASSUME FilesInv, NEW a \in Admin, Active(a) \/ lock = Nobody
  PROVE  \A b \in Admin \ {a} : ~Active(b)
BY ConfigAssumption DEF FilesInv, LockHeld

(* Of a request that is not at the files nothing is claimed. *)
LEMMA Resting ==
  ASSUME NEW b \in Admin, job'[b].at \in {"idle", "queued"}
  PROVE  ~Active(b)' /\ PlanLoads(b)' /\ PlanCurrent(b)'
BY DEF Active, PlanLoads, PlanCurrent, Planning

(* A request that ends, is refused or has only been asked changes nothing else. *)
LEMMA Leaves ==
  ASSUME FilesInv, NEW a \in Admin, NEW r \in JobRecord, r.at \in {"idle", "queued"},
         UNCHANGED <<disk, table, acked, hand>>,
         job' = [job EXCEPT ![a] = r],
         lock' = lock \/ Active(a)
  PROVE  FilesInv'
<1> USE DEF FilesInv
<1>1. /\ job'[a] = r
      /\ \A b \in Admin \ {a} : job'[b] = job[b]
  BY DEF FilesTypeOK
<1>2. FilesTypeOK'
  BY DEF FilesTypeOK
<1>3. LockHeld'
  <2>1. SUFFICES ASSUME NEW b \in Admin, Active(b)' PROVE lock' = b
    BY DEF LockHeld
  <2>2. b # a /\ job'[b] = job[b] /\ Active(b)
    BY <1>1, <2>1 DEF Active
  <2>3. lock' = lock /\ lock = b
    BY <2>2, Solo DEF LockHeld
  <2>4. QED
    BY <2>3
<1>4. HandKnown'
  BY <1>1 DEF HandKnown, Active
<1>5. Plans'
  <2>1. SUFFICES ASSUME NEW b \in Admin PROVE PlanLoads(b)' /\ PlanCurrent(b)'
    BY DEF Plans
  <2>2. CASE b = a
    BY <1>1, <2>2, Resting
  <2>3. CASE b # a
    BY <1>1, <2>3 DEF Plans, PlanLoads, PlanCurrent, Active, OnDisk
  <2>4. QED
    BY <2>2, <2>3
<1>6. AckedFree' /\ EditsKept' /\ RestartLoads'
  BY DEF AckedFree, EditsKept, RestartLoads, Up, Hidden, LoadsNow
<1>7. QED
  BY <1>2, <1>3, <1>4, <1>5, <1>6

-----------------------------------------------------------------------------
(***************************************************************************)
(* The steps of a request.                                                  *)
(***************************************************************************)
(* A request is made. *)
LEMMA AskStep ==
  ASSUME FilesInv, NEW a \in Admin, Ask(a)
  PROVE  FilesInv'
<1>1. PICK e \in EditSets \cup {Reload} :
        job' = [job EXCEPT ![a] = [Idle EXCEPT !.at = "queued", !.edits = e]]
  BY DEF Ask
<1>2. Idle \in JobRecord
  BY TextFacts DEF Idle, JobRecord, Places, File
<1>3. /\ [Idle EXCEPT !.at = "queued", !.edits = e] \in JobRecord
      /\ [Idle EXCEPT !.at = "queued", !.edits = e].at = "queued"
  BY <1>1, <1>2, ConfigAssumption DEF JobRecord, Places
<1>4. QED
  BY <1>1, <1>3, Leaves DEF Ask

(* Who begins is alone, and reads what is there. *)
LEMMA BeginStep ==
  ASSUME FilesInv, NEW a \in Admin, Begin(a)
  PROVE  FilesInv'
<1> USE DEF FilesInv
<1>0. job[a] \in JobRecord /\ Idle \in JobRecord /\ Idle.at = "idle"
  BY TextFacts DEF FilesTypeOK, Idle, JobRecord, Places, File
<1>1. CASE job[a].edits # Reload /\ LockedByEnv(job[a].edits)
  <2>1. job' = [job EXCEPT ![a] = Idle] /\ lock' = lock /\ UNCHANGED <<disk, table, acked, hand>>
    BY <1>1 DEF Begin
  <2>2. QED
    BY <1>0, <2>1, Leaves
<1>2. CASE ~(job[a].edits # Reload /\ LockedByEnv(job[a].edits))
  <2>1. /\ UNCHANGED <<disk, table, acked, hand>>
        /\ lock = Nobody /\ lock' = a
        /\ job' = [job EXCEPT ![a].at = "reading", ![a].sure = TRUE,
                              ![a].texts["config"] = Read(disk["config"].main)]
    BY <1>2 DEF Begin, HasLock
  <2>2. OnDisk("config") \in Text \cup {Torn}
    BY TextFacts DEF FilesTypeOK, OnDisk
  <2>3. /\ job'[a] \in JobRecord
        /\ job'[a].at = "reading" /\ job'[a].sure /\ job'[a].edits = job[a].edits
        /\ job'[a].texts["config"] = OnDisk("config")
        /\ \A b \in Admin \ {a} : job'[b] = job[b] /\ ~Active(b)
    BY <1>0, <2>1, <2>2, TextFacts, Solo DEF FilesTypeOK, JobRecord, Places, OnDisk
  <2>4. FilesTypeOK'
    BY <2>1, <2>3 DEF FilesTypeOK
  <2>5. LockHeld' /\ HandKnown'
    BY <2>1, <2>3 DEF LockHeld, HandKnown, Active
  <2>6. PlanLoads(a)' /\ PlanCurrent(a)'
    BY <1>2, <2>1, <2>3 DEF PlanLoads, PlanCurrent, Planning, OnDisk, LockedByEnv
  <2>7. Plans'
    BY <2>3, <2>6, Resting DEF Plans, Active
  <2>8. AckedFree' /\ EditsKept' /\ RestartLoads'
    BY <2>1 DEF AckedFree, EditsKept, RestartLoads, Up, Hidden, LoadsNow
  <2>9. QED
    BY <2>4, <2>5, <2>7, <2>8
<1>3. QED
  BY <1>1, <1>2

(* What is planned loads, and is the edit of what is on disk. *)
LEMMA PlanStep ==
  ASSUME FilesInv, NEW a \in Admin, Plan(a)
  PROVE  FilesInv'
<1> USE DEF FilesInv
<1> DEFINE e == job[a].edits
           read == [job[a].texts EXCEPT !["secrets"] = Read(disk["secrets"].main)]
           texts == Planned(a)
<1>1. /\ job[a] \in JobRecord /\ Idle \in JobRecord /\ Idle.at = "idle"
      /\ job[a].at = "reading" /\ Active(a) /\ lock = a
      /\ UNCHANGED <<disk, table, acked, hand>>
  BY TextFacts DEF FilesTypeOK, Plan, Active, LockHeld, Idle, JobRecord, Places, File
<1>2. CASE ~Loads(texts["config"], texts["secrets"])
  <2>1. job' = [job EXCEPT ![a] = Idle]
    BY <1>2 DEF Plan
  <2>2. QED
    BY <1>1, <2>1, Leaves
<1>3. CASE Loads(texts["config"], texts["secrets"])
  <2>1. /\ lock' = lock
        /\ job' = [job EXCEPT
             ![a].at = IF e = Reload THEN "installing" ELSE "creating",
             ![a].texts = texts,
             ![a].file = IF e = Reload THEN "config" ELSE FirstOf(Touched(e))]
    BY <1>3 DEF Plan
  <2>2. /\ read \in [File -> Text \cup {Torn}]
        /\ read["secrets"] = OnDisk("secrets")
        /\ read["config"] = job[a].texts["config"]
        /\ e \in EditSets \cup {Reload} /\ (e # Reload => e \in Edits)
    BY <1>1, TextFacts, ConfigAssumption DEF FilesTypeOK, JobRecord, OnDisk, File
  <2>3. read["config"] # Torn /\ read["secrets"] # Torn /\ read \in [File -> Text]
    <3>1. texts["config"] # Torn /\ texts["secrets"] # Torn
      BY <1>3 DEF Loads
    <3>2. CASE Torn \in {read["config"], read["secrets"]}
      BY <3>1, <3>2 DEF Planned
    <3>3. CASE Torn \notin {read["config"], read["secrets"]}
      BY <2>2, <3>3 DEF File
    <3>4. QED
      BY <3>2, <3>3
  <2>4. /\ e = Reload => texts = read
        /\ e # Reload => e \in Edits /\ texts = [f \in File |-> Edited(read[f], f, e)]
    BY <2>2, <2>3 DEF Planned
  <2>5. texts \in [File -> Text]
    BY <2>3, <2>4, TextFacts
  <2>6. e # Reload => FirstOf(Touched(e)) \in File
    BY DEF FirstOf, File
  <2>7. /\ job'[a].at = (IF e = Reload THEN "installing" ELSE "creating")
        /\ job'[a].texts = texts /\ job'[a].edits = e /\ job'[a].sure = job[a].sure
        /\ job'[a].file = (IF e = Reload THEN "config" ELSE FirstOf(Touched(e)))
        /\ \A b \in Admin \ {a} : job'[b] = job[b] /\ ~Active(b)
    BY <1>1, <2>1, Solo DEF FilesTypeOK, JobRecord
  <2>8. job'[a] \in JobRecord
    <3>1. texts \in [File -> Text \cup {Torn}]
      BY <2>5
    <3>2. QED
      BY <1>1, <2>1, <2>6, <3>1, TextFacts DEF FilesTypeOK, JobRecord, Places, Planning
  <2>9. FilesTypeOK' /\ LockHeld' /\ HandKnown'
    <3>1. FilesTypeOK'
      BY <1>1, <2>1, <2>8 DEF FilesTypeOK
    <3>2. LockHeld' /\ HandKnown'
      BY <1>1, <2>1, <2>7 DEF LockHeld, HandKnown, Active
    <3>3. QED
      BY <3>1, <3>2
  <2>10. e # Reload =>
           /\ FirstOf(Touched(e)) \in Touched(e)
           /\ FirstOf(Touched(e)) = "secrets" => "config" \notin Touched(e)
    <3>1. SUFFICES ASSUME e # Reload PROVE FirstOf(Touched(e)) \in Touched(e)
      BY DEF FirstOf
    <3>2. PICK p \in Path : e[p] # Keep
      BY <2>2, <3>1, ConfigAssumption
    <3>3. FileOf(p) \in Touched(e) /\ FileOf(p) \in {"config", "secrets"}
      BY <3>2 DEF Touched, FileOf
    <3>4. QED
      BY <3>3 DEF FirstOf
  <2>11. PlanLoads(a)'
    <3>1. Active(a)' /\ job'[a].edits # Reload =>
            \A p \in Path : job'[a].edits[p] # Keep => Env[p] = Unset
      BY <1>1, <2>7 DEF Plans, PlanLoads
    <3>2. job'[a].texts \in [File -> Text] /\ Loads(job'[a].texts["config"], job'[a].texts["secrets"])
      BY <1>3, <2>5, <2>7
    <3>3. job'[a].edits # Reload =>
            \A p \in Path : job'[a].edits[p] # Keep => job'[a].texts[FileOf(p)][p] = job'[a].edits[p]
      <4>1. SUFFICES ASSUME e # Reload, NEW p \in Path, e[p] # Keep
            PROVE  texts[FileOf(p)][p] = e[p]
        BY <2>7
      <4>2. FileOf(p) \in File /\ read[FileOf(p)] \in Text /\ e \in Edits
        BY <2>2, <2>3, <4>1, TextFacts
      <4>3. texts[FileOf(p)] = Edited(read[FileOf(p)], FileOf(p), e)
        BY <2>4, <4>1, <4>2
      <4>4. QED
        BY <4>1, <4>3 DEF Edited
    <3>4. /\ job'[a].at # "renaming"
          /\ job'[a].at \in Planning => job'[a].edits # Reload /\ job'[a].file \in Touched(job'[a].edits)
      BY <2>7, <2>10 DEF Planning
    <3>5. QED
      BY <3>1, <3>2, <3>3, <3>4 DEF PlanLoads
  <2>12. PlanCurrent(a)'
    <3>1. SUFFICES ASSUME job'[a].sure PROVE PlanCurrent(a)'
      BY DEF PlanCurrent
    <3>2. \A f \in File : read[f] = OnDisk(f) /\ OnDisk(f)' = OnDisk(f)
      BY <1>1, <2>2, <2>7, <3>1 DEF Plans, PlanCurrent, File, OnDisk
    <3>3. CASE e = Reload
      <4>1. job'[a].at = "installing" /\ job'[a].texts = read
        BY <2>4, <2>7, <3>3
      <4>2. \A f \in File : job'[a].texts[f] = OnDisk(f)'
        BY <3>2, <4>1
      <4>3. job'[a].at \notin Planning \cup {"reading"}
        BY <4>1 DEF Planning
      <4>4. QED
        BY <4>2, <4>3 DEF PlanCurrent
    <3>4. CASE e # Reload
      <4>1. \A f \in File : OnDisk(f) \in Text /\ texts[f] = Edited(OnDisk(f), f, e)
        BY <2>3, <2>4, <3>2, <3>4
      <4>2. FirstOf(Touched(e)) = "secrets" => texts["config"] = OnDisk("config")
        <5>1. SUFFICES ASSUME "config" \notin Touched(e) PROVE texts["config"] = OnDisk("config")
          BY <2>10, <3>4
        <5>2. "config" \in File /\ OnDisk("config") \in Text /\ e \in Edits
          BY <2>2, <2>3, <3>2, <3>4, TextFacts
        <5>3. QED
          <6>1. Edited(OnDisk("config"), "config", e) = OnDisk("config")
            BY <5>1, <5>2, EditFacts
          <6>2. QED
            BY <4>1, <5>2, <6>1
      <4>3. QED
        BY <2>7, <3>2, <3>4, <4>1, <4>2, TextFacts DEF PlanCurrent, Planning
    <3>5. QED
      BY <3>3, <3>4
  <2>13. Plans'
    BY <2>7, <2>11, <2>12, Resting DEF Plans, Active
  <2>14. AckedFree' /\ EditsKept' /\ RestartLoads'
    BY <1>1 DEF AckedFree, EditsKept, RestartLoads, Up, Hidden, LoadsNow
  <2>15. QED
    BY <2>9, <2>13, <2>14
<1>4. QED
  BY <1>2, <1>3

(* The temporary file is written: nothing that is read has changed. *)
LEMMA WriteStep ==
  ASSUME FilesInv, NEW a \in Admin, Create(a) \/ Write(a)
  PROVE  FilesInv'
<1> USE DEF FilesInv
<1> DEFINE f == job[a].file
<1>1. /\ job[a] \in JobRecord /\ f \in File /\ job[a].texts \in [File -> Text]
      /\ job[a].at \in {"creating", "writing"} /\ Active(a) /\ lock = a
      /\ UNCHANGED <<table, lock, acked, hand>>
  BY DEF FilesTypeOK, Create, Write, Active, LockHeld, JobRecord, Plans, PlanLoads, Planning
<1>2. \E t \in Text \cup {Torn}, at \in {"writing", "renaming"} :
        /\ disk' = [disk EXCEPT ![f].tmp = t]
        /\ job' = [job EXCEPT ![a].at = at]
        /\ at = "renaming" => t = job[a].texts[f]
  <2>1. CASE Create(a)
    BY <2>1 DEF Create, Opened
  <2>2. CASE Write(a)
    BY <1>1, <2>2 DEF Write
  <2>3. QED
    BY <2>1, <2>2
<1>3. PICK t \in Text \cup {Torn}, at \in {"writing", "renaming"} :
        /\ disk' = [disk EXCEPT ![f].tmp = t]
        /\ job' = [job EXCEPT ![a].at = at]
        /\ at = "renaming" => t = job[a].texts[f]
  BY <1>2
<1>4. /\ job'[a].at = at /\ job'[a].texts = job[a].texts /\ job'[a].edits = job[a].edits
      /\ job'[a].file = f /\ job'[a].sure = job[a].sure
      /\ \A b \in Admin \ {a} : job'[b] = job[b] /\ ~Active(b)
  BY <1>1, <1>3, Solo DEF FilesTypeOK, JobRecord
<1>5. /\ \A g \in File : disk'[g].main = disk[g].main
      /\ disk'[f].tmp = t
  BY <1>1, <1>3 DEF FilesTypeOK
<1>6. \A g \in File : OnDisk(g)' = OnDisk(g)
  BY <1>5 DEF OnDisk
<1>7. FilesTypeOK'
  <2>1. [job[a] EXCEPT !.at = at] \in JobRecord
    BY <1>1 DEF JobRecord, Places, Planning
  <2>2. job' \in [Admin -> JobRecord]
    BY <1>3, <2>1 DEF FilesTypeOK
  <2>3. [disk[f] EXCEPT !.tmp = t] \in [main : Text \cup {Torn, Missing}, tmp : Text \cup {Torn, Missing}]
    BY <1>1 DEF FilesTypeOK
  <2>4. disk' = [disk EXCEPT ![f] = [disk[f] EXCEPT !.tmp = t]]
    BY <1>3
  <2>5. QED
    BY <1>1, <2>2, <2>3, <2>4 DEF FilesTypeOK
<1>8. LockHeld' /\ HandKnown'
  BY <1>1, <1>4 DEF LockHeld, HandKnown, Active
<1>9. PlanLoads(a)'
  BY <1>1, <1>3, <1>4, <1>5 DEF Plans, PlanLoads, Planning, Active
<1>10. PlanCurrent(a)'
  <2>1. SUFFICES ASSUME job[a].sure PROVE PlanCurrent(a)'
    BY <1>4 DEF PlanCurrent
  <2>2. /\ \A g \in File : OnDisk(g) \in Text /\ job[a].texts[g] = Edited(OnDisk(g), g, job[a].edits)
        /\ f = "secrets" => job[a].texts["config"] = OnDisk("config")
    BY <1>1, <2>1 DEF Plans, PlanCurrent, Planning
  <2>3. /\ \A g \in File : OnDisk(g)' \in Text /\ job'[a].texts[g] = Edited(OnDisk(g)', g, job'[a].edits)
        /\ job'[a].file = "secrets" => job'[a].texts["config"] = OnDisk("config")'
    BY <1>4, <1>6, <2>2, TextFacts
  <2>4. QED
    BY <1>3, <1>4, <2>3 DEF PlanCurrent
<1>11. Plans'
  BY <1>4, <1>9, <1>10, Resting DEF Plans, Active
<1>12. AckedFree' /\ EditsKept' /\ RestartLoads'
  BY <1>1, <1>5, TextFacts DEF AckedFree, EditsKept, RestartLoads, Up, Hidden, LoadsNow
<1>13. QED
  BY <1>7, <1>8, <1>11, <1>12

(* The first of two files is replaced by half of an edit, the last by the rest of it; no claim
   is left of a path that it sets, and every other path has what it had. *)
LEMMA RenameStep ==
  ASSUME FilesInv, NEW a \in Admin, Rename(a)
  PROVE  FilesInv'
<1> USE DEF FilesInv
<1>0. PICK f \in File, e \in Edits, texts \in [File -> Text] :
        f = job[a].file /\ e = job[a].edits /\ texts = job[a].texts
  BY ConfigAssumption DEF FilesTypeOK, Rename, JobRecord, Plans, PlanLoads, Planning
<1> DEFINE more == Touched(e) = File /\ f = "config"
<1>1. /\ job[a] \in JobRecord /\ f \in File /\ texts \in [File -> Text] /\ e \in Edits
      /\ job[a].at = "renaming" /\ Active(a) /\ lock = a /\ e # Reload /\ f \in Touched(e)
      /\ disk[f].tmp = texts[f] /\ Loads(texts["config"], texts["secrets"])
      /\ UNCHANGED <<table, lock, hand>>
  BY <1>0 DEF FilesTypeOK, Rename, Active, LockHeld, JobRecord, Plans, PlanLoads, Planning
<1>2. /\ disk' = [disk EXCEPT ![f] = [main |-> texts[f], tmp |-> Missing]]
      /\ job' = [job EXCEPT ![a].at = IF more THEN "creating" ELSE "installing",
                            ![a].file = IF more THEN "secrets" ELSE f]
      /\ acked' = [p \in Path |-> IF FileOf(p) = f /\ e[p] # Keep THEN Keep ELSE acked[p]]
  BY <1>0, <1>1 DEF Rename
<1>3. /\ job'[a].at = (IF more THEN "creating" ELSE "installing")
      /\ job'[a].file = (IF more THEN "secrets" ELSE f)
      /\ job'[a].texts = texts /\ job'[a].edits = e /\ job'[a].sure = job[a].sure
      /\ \A b \in Admin \ {a} : job'[b] = job[b] /\ ~Active(b)
  BY <1>0, <1>1, <1>2, Solo DEF FilesTypeOK, JobRecord
<1>4. /\ OnDisk(f)' = texts[f] /\ disk'[f].main = texts[f]
      /\ \A g \in File \ {f} : OnDisk(g)' = OnDisk(g) /\ disk'[g].main = disk[g].main
  BY <1>1, <1>2, TextFacts DEF FilesTypeOK, OnDisk
<1>5. FilesTypeOK'
  <2>1. disk' \in [File -> [main : Text \cup {Torn, Missing}, tmp : Text \cup {Torn, Missing}]]
    BY <1>1, <1>2 DEF FilesTypeOK
  <2>2. job' \in [Admin -> JobRecord]
    BY <1>1, <1>2, TextFacts DEF FilesTypeOK, JobRecord, Places, Planning
  <2>3. acked' \in [Path -> Value \cup {Unset, Keep}]
    BY <1>2 DEF FilesTypeOK
  <2>4. QED
    BY <1>1, <2>1, <2>2, <2>3 DEF FilesTypeOK
<1>6. LockHeld' /\ HandKnown'
  BY <1>1, <1>2, <1>3 DEF LockHeld, HandKnown, Active
<1>7. PlanLoads(a)'
  <2>1. more => "secrets" \in Touched(e)
    BY DEF File
  <2>2. PlanLoads(a) /\ job[a].at = "renaming" /\ Active(a)
    BY <1>0, <1>1 DEF Plans
  <2>3. job'[a].at \in {"creating", "installing"} /\ (job'[a].at = "creating" => more)
    BY <1>3
  <2>4. QED
    BY <1>0, <1>1, <1>3, <2>1, <2>2, <2>3 DEF PlanLoads, Planning, Active
\* Of a request that knows what is there: the new texts are the edits of the old ones.
<1>8. ASSUME job[a].sure
      PROVE  /\ \A g \in File : OnDisk(g) \in Text /\ texts[g] = Edited(OnDisk(g), g, e)
             /\ f = "secrets" => texts["config"] = OnDisk("config")
  BY <1>0, <1>1, <1>8 DEF Plans, PlanCurrent, Planning
<1>9. ASSUME job[a].sure, ~more
      PROVE  \A g \in File : OnDisk(g)' = texts[g]
  <2>1. SUFFICES ASSUME NEW g \in File, g # f PROVE OnDisk(g) = texts[g]
    BY <1>4
  <2>2. CASE f = "secrets"
    BY <1>8, <1>9, <2>1, <2>2 DEF File
  <2>3. CASE f = "config"
    <3>1. g = "secrets" /\ g \notin Touched(e)
      BY <1>1, <1>9, <2>1, <2>3 DEF File, Touched, FileOf
    <3>2. OnDisk(g) \in Text /\ texts[g] = Edited(OnDisk(g), g, e)
      BY <1>8, <1>9
    <3>3. QED
      BY <1>1, <3>1, <3>2, EditFacts
  <2>4. QED
    BY <1>1, <2>2, <2>3 DEF File
<1>10. PlanCurrent(a)'
  <2>1. SUFFICES ASSUME job[a].sure PROVE PlanCurrent(a)'
    BY <1>3 DEF PlanCurrent
  <2>2. CASE ~more
    BY <1>3, <1>9, <2>1, <2>2 DEF PlanCurrent, Planning
  <2>3. CASE more
    <3>1. /\ job'[a].at = "creating" /\ job'[a].file = "secrets"
          /\ OnDisk("config")' = texts["config"]
          /\ OnDisk("secrets")' = OnDisk("secrets")
      BY <1>3, <1>4, <2>3, TextFacts
    <3>2. /\ texts["secrets"] = Edited(OnDisk("secrets"), "secrets", e) /\ OnDisk("secrets") \in Text
          /\ texts["config"] = Edited(OnDisk("config"), "config", e) /\ OnDisk("config") \in Text
      BY <1>8, <2>1, TextFacts
    <3>3. texts["config"] = Edited(texts["config"], "config", e)
      BY <1>1, <3>2, TextFacts, EditFacts
    <3>4. \A g \in File : OnDisk(g)' \in Text /\ texts[g] = Edited(OnDisk(g)', g, e)
      BY <1>1, <3>1, <3>2, <3>3 DEF File
    <3>5. QED
      BY <1>3, <3>1, <3>4 DEF PlanCurrent, Planning
  <2>4. QED
    BY <2>2, <2>3
<1>11. Plans'
  BY <1>3, <1>7, <1>10, Resting DEF Plans, Active
<1>12. AckedFree'
  BY <1>2 DEF AckedFree
<1>13. EditsKept'
  <2>1. SUFFICES ASSUME NEW p \in Path, acked'[p] # Keep
        PROVE  /\ OnDisk(FileOf(p))'[p] = acked'[p]
               /\ Up' /\ ~Hidden(p)' => table'.config[p] = acked'[p]
    BY DEF EditsKept, OnDisk
  <2>2. /\ acked'[p] = acked[p] /\ acked[p] # Keep
        /\ FileOf(p) # f \/ e[p] = Keep
    BY <1>2, <2>1
  <2>3. job[a].sure
    BY <1>1, <2>2 DEF HandKnown
  <2>4. \A g \in File : OnDisk(g)'[p] = OnDisk(g)[p]
    <3>1. texts[f] = Edited(OnDisk(f), f, e) /\ OnDisk(f) \in Text
      BY <1>1, <1>8, <2>3
    <3>2. texts[f][p] = OnDisk(f)[p]
      BY <1>1, <2>2, <3>1, EditFacts
    <3>3. QED
      BY <1>4, <3>2
  <2>5. Hidden(p)' = Hidden(p)
    BY <2>2, <2>4, TextFacts DEF Hidden, OnDisk
  <2>6. QED
    BY <1>1, <2>2, <2>4, <2>5, TextFacts DEF EditsKept, Up, OnDisk
<1>14. RestartLoads'
  <2>1. SUFFICES ASSUME ~hand PROVE Loads(OnDisk("config")', OnDisk("secrets")')
    BY <1>1 DEF RestartLoads, LoadsNow, OnDisk
  <2>2. job[a].sure
    BY <1>1, <2>1 DEF HandKnown
  <2>3. CASE ~more
    BY <1>1, <1>9, <2>2, <2>3, TextFacts
  <2>4. CASE more
    <3>1. /\ OnDisk("config")' = texts["config"]
          /\ OnDisk("secrets")' = OnDisk("secrets")
      BY <1>4, <2>4, TextFacts
    <3>2. /\ texts["secrets"] = Edited(OnDisk("secrets"), "secrets", e) /\ OnDisk("secrets") \in Text
          /\ texts["config"] = Edited(OnDisk("config"), "config", e) /\ OnDisk("config") \in Text
      BY <1>8, <2>2, TextFacts
    <3>3. Loads(OnDisk("config"), OnDisk("secrets"))
      BY <2>1 DEF RestartLoads, LoadsNow, OnDisk
    <3>4. Loads(texts["config"], OnDisk("secrets"))
      BY <1>1, <3>2, <3>3, HalfEditLoads
    <3>5. QED
      BY <3>1, <3>4
  <2>5. QED
    BY <2>3, <2>4
<1>15. QED
  BY <1>5, <1>6, <1>11, <1>12, <1>13, <1>14

(* What is put in force is what is on disk, and what is acknowledged is in it. *)
LEMMA InstallStep ==
  ASSUME FilesInv, NEW a \in Admin, Install(a)
  PROVE  FilesInv'
<1> USE DEF FilesInv
<1>0. PICK e \in EditSets \cup {Reload}, texts \in [File -> Text] :
        e = job[a].edits /\ texts = job[a].texts
  BY DEF FilesTypeOK, Install, JobRecord, Plans, PlanLoads
<1>1. /\ Idle \in JobRecord /\ Idle.at = "idle"
      /\ job[a].at = "installing" /\ Active(a) /\ lock = a
      /\ UNCHANGED <<disk, hand>> /\ lock' = Nobody /\ job' = [job EXCEPT ![a] = Idle]
      /\ table'.config = Merged(texts["config"], texts["secrets"])
      /\ acked' = IF e = Reload \/ ~job[a].sure THEN acked
                  ELSE [p \in Path |-> IF e[p] # Keep THEN e[p] ELSE acked[p]]
  BY <1>0, TextFacts
  DEF FilesTypeOK, Install, InForce, Active, LockHeld, Idle, JobRecord, Places, File
<1>2. /\ job'[a] = Idle
      /\ \A b \in Admin \ {a} : job'[b] = job[b] /\ ~Active(b)
  BY <1>1, Solo DEF FilesTypeOK
<1>3. e # Reload => /\ e \in Edits
                    /\ \A p \in Path : e[p] # Keep => Env[p] = Unset /\ texts[FileOf(p)][p] = e[p]
  BY <1>0, <1>1, ConfigAssumption DEF Plans, PlanLoads
<1>4. FilesTypeOK'
  <2>1. acked' \in [Path -> Value \cup {Unset, Keep}]
    BY <1>1, <1>3 DEF FilesTypeOK, Edits
  <2>2. QED
    BY <1>1, <2>1 DEF FilesTypeOK
<1>5. LockHeld' /\ HandKnown' /\ Plans'
  BY <1>1, <1>2, Resting DEF LockHeld, HandKnown, Plans, Active
<1>6. AckedFree'
  BY <1>1, <1>3 DEF AckedFree
<1>7. EditsKept'
  <2>1. SUFFICES ASSUME NEW p \in Path, acked'[p] # Keep
        PROVE  /\ OnDisk(FileOf(p))[p] = acked'[p]
               /\ ~Hidden(p)' => table'.config[p] = acked'[p]
    BY <1>1 DEF EditsKept, OnDisk
  <2>2. job[a].sure
    BY <1>1, <2>1 DEF HandKnown
  <2>3. \A f \in File : texts[f] = OnDisk(f)
    BY <1>0, <1>1, <2>2 DEF Plans, PlanCurrent, Planning
  <2>4. OnDisk(FileOf(p))[p] = acked'[p] /\ Env[p] = Unset
    <3>1. CASE e # Reload /\ e[p] # Keep
      BY <1>1, <1>3, <2>2, <2>3, <3>1, TextFacts
    <3>2. CASE ~(e # Reload /\ e[p] # Keep)
      BY <1>1, <2>1, <3>2 DEF EditsKept, OnDisk, AckedFree
    <3>3. QED
      BY <3>1, <3>2
  <2>5. ASSUME ~Hidden(p)' PROVE table'.config[p] = acked'[p]
    <3>1. /\ ~(FileOf(p) = "config" /\ texts["secrets"][p] # Unset)
          /\ ~(FileOf(p) = "secrets" /\ acked'[p] = Unset /\ texts["config"][p] # Unset)
      BY <1>1, <2>3, <2>5, TextFacts DEF Hidden, OnDisk
    <3>2. (IF FileOf(p) = "config" THEN texts["config"][p] ELSE texts["secrets"][p]) = acked'[p]
      BY <2>3, <2>4, TextFacts DEF FileOf
    <3>3. texts["config"] \in Text /\ texts["secrets"] \in Text
      BY TextFacts
    <3>4. Merged(texts["config"], texts["secrets"])[p] = acked'[p]
      BY <2>4, <3>1, <3>2, <3>3, InForceKeeps
    <3>5. QED
      BY <1>1, <3>4
  <2>6. QED
    BY <2>4, <2>5
<1>8. RestartLoads'
  BY <1>1 DEF RestartLoads, LoadsNow
<1>9. QED
  BY <1>4, <1>5, <1>6, <1>7, <1>8

-----------------------------------------------------------------------------
(***************************************************************************)
(* What happens beside the requests.                                        *)
(***************************************************************************)
(* A change by hand leaves nothing to claim. *)
LEMMA HandEditStep ==
  ASSUME FilesInv, HandEdit
  PROVE  FilesInv'
<1> USE DEF FilesInv
<1>1. PICK f \in File, text \in HandTexts : disk' = [disk EXCEPT ![f].main = text]
  BY DEF HandEdit
<1>2. /\ hand' = TRUE /\ acked' = [p \in Path |-> Keep]
      /\ job' = [a \in Admin |-> [job[a] EXCEPT !.sure = FALSE]]
      /\ UNCHANGED <<table, lock>>
  BY DEF HandEdit
<1>3. \A a \in Admin :
        /\ job'[a] \in JobRecord
        /\ job'[a].at = job[a].at /\ job'[a].texts = job[a].texts /\ job'[a].edits = job[a].edits
        /\ job'[a].file = job[a].file /\ ~job'[a].sure
  BY <1>2 DEF FilesTypeOK, JobRecord
<1>4. \A g \in File : disk'[g].tmp = disk[g].tmp
  BY <1>1 DEF FilesTypeOK
<1>5. FilesTypeOK'
  <2>1. text \in Text \cup {Torn, Missing}
    BY <1>1, ConfigAssumption
  <2>2. disk' \in [File -> [main : Text \cup {Torn, Missing}, tmp : Text \cup {Torn, Missing}]]
    BY <1>1, <2>1 DEF FilesTypeOK
  <2>3. QED
    BY <1>2, <1>3, <2>2 DEF FilesTypeOK
<1>6. LockHeld' /\ HandKnown'
  BY <1>2, <1>3 DEF LockHeld, HandKnown, Active
<1>7. ASSUME NEW a \in Admin PROVE PlanLoads(a)' /\ PlanCurrent(a)'
  <2>1. PlanCurrent(a)'
    BY <1>3 DEF PlanCurrent
  <2>2. PlanLoads(a) /\ job[a] \in JobRecord
    BY DEF Plans, FilesTypeOK
  <2>3. PlanLoads(a)'
    BY <1>3, <1>4, <2>2 DEF PlanLoads, Active, JobRecord
  <2>4. QED
    BY <2>1, <2>3
<1>8. Plans' /\ AckedFree' /\ EditsKept' /\ RestartLoads'
  BY <1>2, <1>7 DEF Plans, AckedFree, EditsKept, RestartLoads
<1>9. QED
  BY <1>5, <1>6, <1>8

(* A killed process leaves the files as they are. *)
LEMMA CrashStep ==
  ASSUME FilesInv, Crash
  PROVE  FilesInv'
<1> USE DEF FilesInv
<1>1. /\ table'.config = Torn \/ table' = table
      /\ job' = [a \in Admin |-> Idle] /\ UNCHANGED <<disk, acked, hand>>
      /\ \A a \in Admin : job'[a].at = "idle"
      /\ Idle \in JobRecord
  BY TextFacts DEF Crash, Idle, JobRecord, Places, File
<1>2. FilesTypeOK' /\ LockHeld' /\ HandKnown' /\ Plans'
  BY <1>1, Resting DEF FilesTypeOK, LockHeld, HandKnown, Plans, Active
<1>3. AckedFree' /\ EditsKept' /\ RestartLoads'
  BY <1>1 DEF AckedFree, EditsKept, RestartLoads, Up, Hidden, LoadsNow
<1>4. QED
  BY <1>2, <1>3

(* A start puts in force what is on disk. *)
LEMMA RestartStep ==
  ASSUME FilesInv, Restart
  PROVE  FilesInv'
<1> USE DEF FilesInv
<1>1. /\ LoadsNow /\ UNCHANGED <<disk, lock, job, acked, hand>>
      /\ table'.config = Merged(OnDisk("config"), OnDisk("secrets"))
  BY DEF Restart, InForce, OnDisk
<1>2. OnDisk("config") \in Text /\ OnDisk("secrets") \in Text
  BY <1>1, TextFacts DEF FilesTypeOK, LoadsNow, Loads, OnDisk
<1>3. FilesTypeOK' /\ LockHeld' /\ HandKnown' /\ AckedFree' /\ RestartLoads'
  BY <1>1 DEF FilesTypeOK, LockHeld, HandKnown, AckedFree, RestartLoads, Active, LoadsNow
<1>4. Plans'
  BY <1>1 DEF Plans, PlanLoads, PlanCurrent, OnDisk, Active
<1>5. EditsKept'
  <2>1. SUFFICES ASSUME NEW p \in Path, acked[p] # Keep, ~Hidden(p)
        PROVE  table'.config[p] = acked[p]
    BY <1>1 DEF EditsKept, Hidden
  <2>2. OnDisk(FileOf(p))[p] = acked[p] /\ Env[p] = Unset
    BY <2>1 DEF EditsKept, AckedFree, OnDisk
  <2>3. /\ ~(FileOf(p) = "config" /\ OnDisk("secrets")[p] # Unset)
        /\ ~(FileOf(p) = "secrets" /\ acked[p] = Unset /\ OnDisk("config")[p] # Unset)
    BY <2>1 DEF Hidden, OnDisk
  <2>4. (IF FileOf(p) = "config" THEN OnDisk("config")[p] ELSE OnDisk("secrets")[p]) = acked[p]
    BY <2>2 DEF FileOf
  <2>5. QED
    BY <1>1, <1>2, <2>2, <2>3, <2>4, InForceKeeps
<1>6. QED
  BY <1>3, <1>4, <1>5

-----------------------------------------------------------------------------
LEMMA FilesInitInv == FilesInit => FilesInv
<1> SUFFICES ASSUME FilesInit PROVE FilesInv
  OBVIOUS
<1>1. /\ \A f \in File : disk[f].main \in Text \cup {Missing} /\ disk[f].tmp = Missing
      /\ disk \in [File -> [main : Text \cup {Torn, Missing}, tmp : Text \cup {Torn, Missing}]]
  BY ConfigAssumption DEF FilesInit
<1>2. Idle \in JobRecord /\ Idle.at = "idle"
  BY TextFacts DEF Idle, JobRecord, Places, File
<1>3. FilesTypeOK
  BY <1>1, <1>2 DEF FilesInit, FilesTypeOK
<1>4. LockHeld /\ HandKnown /\ Plans
  BY <1>2 DEF FilesInit, LockHeld, HandKnown, Plans, PlanLoads, PlanCurrent, Active, Planning
<1>5. AckedFree /\ EditsKept /\ RestartLoads
  BY DEF FilesInit, AckedFree, EditsKept, RestartLoads
<1>6. QED
  BY <1>3, <1>4, <1>5 DEF FilesInv

(* No step on the files, by whom it may be, leaves the invariant. *)
LEMMA FilesStep ==
  ASSUME FilesInv, FilesNext \/ Crash \/ UNCHANGED filesVars
  PROVE  FilesInv'
<1>1. ASSUME NEW a \in Admin, Ask(a) \/ AdminStep(a) PROVE FilesInv'
  <2>1. CASE Ask(a)
    BY <2>1, AskStep
  <2>2. CASE Begin(a)
    BY <2>2, BeginStep
  <2>3. CASE Plan(a)
    BY <2>3, PlanStep
  <2>4. CASE Create(a) \/ Write(a)
    BY <2>4, WriteStep
  <2>5. CASE Rename(a)
    BY <2>5, RenameStep
  <2>6. CASE WriteFails(a)
    <3>1. Idle \in JobRecord /\ Idle.at = "idle"
      BY TextFacts DEF Idle, JobRecord, Places, File
    <3>2. /\ job' = [job EXCEPT ![a] = Idle] /\ UNCHANGED <<disk, table, acked, hand>>
          /\ Active(a)
      BY <2>6 DEF WriteFails, Active
    <3>3. QED
      BY <3>1, <3>2, Leaves
  <2>7. CASE Install(a)
    BY <2>7, InstallStep
  <2>8. QED
    BY <1>1, <2>1, <2>2, <2>3, <2>4, <2>5, <2>6, <2>7 DEF AdminStep
<1>2. CASE UNCHANGED filesVars
  BY <1>2
  DEF filesVars, FilesInv, FilesTypeOK, LockHeld, HandKnown, Plans, PlanLoads, PlanCurrent,
      AckedFree, EditsKept, RestartLoads, Active, OnDisk, Up, Hidden, LoadsNow
<1>3. QED
  BY <1>1, <1>2, HandEditStep, RestartStep, CrashStep DEF FilesNext

(* An edit that was answered with ok is on disk and, unless hidden, in force; and the files load
   after every kill and failed write, as long as nobody has written them by hand. *)
THEOREM EditsDurable == FilesSpec => []ConfigDurable
<1>1. FilesInv => ConfigDurable
  BY DEF FilesInv, ConfigDurable
<1>2. FilesInv /\ [FilesNext \/ Crash]_filesVars => FilesInv'
  BY FilesStep
<1>3. QED
  BY <1>1, <1>2, FilesInitInv, PTL DEF FilesSpec
=============================================================================
