------------------------- MODULE PasswordFileProofs -------------------------
(***************************************************************************)
(* Theorems about PasswordFile, for any number of processes.                *)
(***************************************************************************)
EXTENDS PasswordFile, TLAPS

(***************************************************************************)
(* The inductive invariant.                                                 *)
(***************************************************************************)
\* Resets and starts are at calls of their own; who is done has a password.
Places ==
  /\ \A p \in Starter : pc[p] \notin {"copy", "replace", "clean"}
  /\ \A p \in Resetter : pc[p] \in Ended \cup {"start", "copy", "replace", "clean"}
  /\ \A p \in Process : pc[p] = "done" => got[p] \in Password

\* Nothing unusable comes about, and what is there stays there.
Contents ==
  /\ legacy # None => legacy = dir0.legacy
  /\ Unsendable \notin {dir0.file, dir0.legacy} => Unsendable \notin {file, legacy}
  /\ Untruncated => Short \notin {file, legacy} /\ \A p \in Process : pc[p] # "remove"
  /\ Untruncated /\ dir0.file # None => file # None

\* A process that missed the old file's name finds the new one.
Overtaken ==
  /\ Untruncated => \A p \in Process :
       /\ pc[p] \in {"read", "create"} => file # None \/ legacy = None
       /\ pc[p] = "readWinner" => file # None
  /\ dir0.writable => \A p \in Process : pc[p] = "readLegacy" => legacy = None

\* Only a directory with the old name and without the new one is migrated.
Migrating ==
  /\ dir0.legacy = None => \A p \in Process : pc[p] \notin {"rename", "readLegacy"}
  /\ Untruncated /\ dir0.file # None => \A p \in Process :
       pc[p] \notin {"look", "rename", "readLegacy", "create", "readWinner"}
  /\ Untruncated /\ dir0.file = None /\ dir0.legacy # None /\ replaced = {} =>
       \/ file = None /\ legacy = dir0.legacy
       \/ file = dir0.legacy /\ legacy = None
  /\ Untruncated /\ dir0.file = None /\ dir0.legacy # None /\ replaced = {} =>
       \A p \in Process : pc[p] \notin {"create", "readWinner"}

\* In a directory that cannot be written nothing happens.
ReadOnly ==
  ~dir0.writable =>
    /\ file = dir0.file /\ legacy = dir0.legacy
    /\ \A p \in Process : pc[p] \in {"look", "rename", "readLegacy"} => file = None
    /\ \A p \in Starter : pc[p] = "done" => got[p] = IF file # None THEN file ELSE legacy
    /\ \A p \in Resetter : pc[p] \notin {"copy", "replace", "clean"}

\* Whoever is done holds the file's password or one that a reset has replaced.
Agreed ==
  /\ Regular /\ dir0.writable /\ (NoMigration \/ replaced = {}) =>
       \A p \in Starter : pc[p] = "done" => got[p] = file \/ got[p] \in replaced
  /\ Regular /\ NoMigration =>
       \A p \in Resetter : pc[p] \in {"clean", "done"} => file = p \/ p \in replaced

Place == Ended \cup
  {"start", "look", "rename", "readLegacy", "read", "remove", "create", "readWinner",
   "copy", "replace", "clean"}

Inv ==
  /\ TypeOK /\ Places /\ Contents /\ Overtaken /\ Migrating /\ ReadOnly /\ Agreed
  /\ StartSucceeds /\ NoBackupLeft

-----------------------------------------------------------------------------
(* Contents are told apart: a file is missing, unusable or holds a password. *)
LEMMA Distinct ==
  /\ None \notin Password /\ Short \notin Password /\ Unsendable \notin Password
  /\ \A p \in Process : p \in Password
  /\ \A p \in Starter : p \in Process /\ p \notin Resetter
  /\ \A p \in Resetter : p \in Process
  /\ Old \in Password
  /\ Short # Unsendable /\ Short # None /\ Unsendable # None
BY PasswordFileAssumption DEF Password, Process

(* The directory is found in a state of the invariant. *)
LEMMA InitInv == Init => Inv
<1> SUFFICES ASSUME Init PROVE Inv
  OBVIOUS
<1>1. TypeOK
  BY Distinct DEF Init, TypeOK, Content, Ended
<1>2. Places /\ Contents /\ Overtaken /\ Migrating /\ ReadOnly /\ Agreed
  BY Distinct DEF Init, Places, Ended, Contents, Untruncated, Overtaken, Migrating, ReadOnly, Agreed
<1>3. StartSucceeds /\ NoBackupLeft
  BY Distinct DEF Init, StartSucceeds, NoBackupLeft
<1>4. QED
  BY <1>1, <1>2, <1>3 DEF Inv

(* A process at work goes on, gives up or ends, and leaves the others where they are. *)
LEMMA OwnStep ==
  ASSUME TypeOK, NEW p, Ensure(p) \/ Reset(p) \/ Kill(p)
  PROVE  /\ pc[p] \notin Ended
         /\ \A q \in Process \ {p} : pc'[q] = pc[q] /\ got'[q] = got[q]
<1> DEFINE Moves == (\E place : GoOn(p, place)) \/ GiveUp(p) \/ (\E x : End(p, x))
<1>1. pc[p] \notin Ended /\ Moves
  <2>1. CASE LookForFile(p) \/ LookForLegacy(p) \/ Rename(p) \/ Remove(p)
    BY <2>1 DEF LookForFile, LookForLegacy, Rename, Remove, Ended
  <2>2. CASE Read(p)
    BY <2>2, Distinct DEF Read, Ended, TypeOK, Content
  <2>3. CASE ReadLegacy(p)
    BY <2>3, Distinct DEF ReadLegacy, Ended, TypeOK, Content
  <2>4. CASE Create(p) \/ ReadWinner(p)
    BY <2>4 DEF Create, ReadWinner, Ended
  <2>5. CASE WriteTemporary(p) \/ Copy(p) \/ Replace(p) \/ Clean(p)
    BY <2>5 DEF WriteTemporary, Copy, Replace, Clean, Ended
  <2>6. CASE Kill(p)
    BY <2>6 DEF Kill
  <2>7. QED
    BY <2>1, <2>2, <2>3, <2>4, <2>5, <2>6 DEF Ensure, Reset
<1>2. /\ (\E place : pc' = [pc EXCEPT ![p] = place])
      /\ got' = got \/ \E x : got' = [got EXCEPT ![p] = x]
  BY <1>1 DEF GoOn, GiveUp, End, Goto
<1>3. QED
  BY <1>1, <1>2 DEF TypeOK

(* A look at the directory changes nothing but the place of the process that looks. *)
LEMMA LookStep ==
  ASSUME Inv, NEW p \in Starter, LookForFile(p) \/ LookForLegacy(p)
  PROVE  Inv'
<1>1. /\ UNCHANGED <<dir0, file, legacy, backup, got, replaced>>
      /\ p \in Process /\ p \notin Resetter
      /\ pc \in [Process -> Place]
  BY Distinct DEF LookForFile, LookForLegacy, GoOn, Inv, TypeOK, Place
<1>2. /\ \A q \in Process \ {p} : pc'[q] = pc[q]
      /\ \/ pc'[p] = "read" /\ (file # None \/ legacy = None)
         \/ pc'[p] = "look" /\ file = None
         \/ pc'[p] = "rename" /\ legacy # None /\ pc[p] = "look"
  BY <1>1 DEF LookForFile, LookForLegacy, GoOn, Goto
<1>3. TypeOK'
  BY <1>1 DEF Inv, TypeOK, LookForFile, LookForLegacy, GoOn, Goto
<1>4. Places' /\ Contents'
  <2>1. Places'
    BY <1>1, <1>2, Distinct DEF Inv, Places, Ended
  <2>2. Contents'
    BY <1>1, <1>2 DEF Inv, Contents, Untruncated
  <2>3. QED
    BY <2>1, <2>2
<1>5. Overtaken' /\ Migrating'
  BY <1>1, <1>2 DEF Inv, Overtaken, Contents, Migrating, Untruncated
<1>6. ReadOnly' /\ Agreed'
  BY <1>1, <1>2, Distinct DEF Inv, ReadOnly, Agreed, Untruncated, Regular, NoMigration
<1>7. StartSucceeds' /\ NoBackupLeft'
  BY <1>1, <1>2, Distinct DEF Inv, StartSucceeds, NoBackupLeft, Untruncated, Regular
<1>8. QED
  BY <1>3, <1>4, <1>5, <1>6, <1>7 DEF Inv

(* A rename replaces no password unless it overlaps a reset. *)
LEMMA RenameStep ==
  ASSUME Inv, NEW p \in Starter, Rename(p)
  PROVE  Inv'
<1>1. /\ UNCHANGED <<dir0, backup, replaced>>
      /\ p \in Process
      /\ pc \in [Process -> Place] /\ got \in [Process -> Password \cup {None}]
      /\ \A q \in Process \ {p} : pc'[q] = pc[q] /\ got'[q] = got[q]
  BY Distinct DEF Rename, Inv, TypeOK, Place, GoOn, GiveUp, End, Goto
<1>2. /\ p \notin Resetter /\ pc[p] = "rename"
      /\ \/ /\ dir0.writable /\ legacy # None
            /\ file' = legacy /\ legacy' = None /\ pc'[p] = "read"
         \/ /\ ~(dir0.writable /\ legacy # None)
            /\ UNCHANGED <<file, legacy>> /\ pc'[p] = "readLegacy"
  BY <1>1, Distinct DEF Rename, Inv, GoOn, GiveUp, End, Goto
<1>3. TypeOK'
  BY <1>1, Distinct DEF Inv, TypeOK, Content, Rename, GoOn, GiveUp, End, Goto, Ended
<1>4. Places'
  BY <1>1, <1>2, Distinct DEF Inv, Places, Ended
<1>5. Contents'
  BY <1>1, <1>2, Distinct DEF Inv, Contents, Untruncated
<1>6. Overtaken'
  BY <1>1, <1>2, Distinct DEF Inv, Overtaken, Contents, Untruncated
<1>7. Migrating'
  BY <1>1, <1>2, Distinct DEF Inv, Migrating, Contents, Overtaken, Untruncated
<1>8. ReadOnly'
  BY <1>1, <1>2, Distinct DEF Inv, ReadOnly, Untruncated
<1>9. Agreed'
  BY <1>1, <1>2, Distinct DEF Inv, Agreed, Places, Contents, Migrating, Untruncated, Regular, NoMigration
<1>10. StartSucceeds'
  BY <1>1, <1>2, Distinct DEF Inv, StartSucceeds, Untruncated, Regular
<1>11. NoBackupLeft'
  BY <1>1, <1>2, Distinct DEF Inv, NoBackupLeft, Places
<1>12. QED
  BY <1>3, <1>4, <1>5, <1>6, <1>7, <1>8, <1>9, <1>10, <1>11 DEF Inv

(* Reading a file ends with its password, or goes on to what can be done about it. *)
LEMMA ReadStep ==
  ASSUME Inv, NEW p \in Starter, ReadLegacy(p) \/ Read(p) \/ ReadWinner(p)
  PROVE  Inv'
<1>1. /\ UNCHANGED <<dir0, file, legacy, backup, replaced>>
      /\ p \in Process
      /\ pc \in [Process -> Place] /\ got \in [Process -> Password \cup {None}]
      /\ \A q \in Process \ {p} : pc'[q] = pc[q] /\ got'[q] = got[q]
  <2>1. UNCHANGED <<dir0, file, legacy, backup, replaced>> /\ Ensure(p) /\ TypeOK
    BY DEF ReadLegacy, Read, ReadWinner, Ensure, Inv
  <2>2. QED
    BY <2>1, OwnStep, Distinct DEF TypeOK, Place
<1>2. /\ p \notin Resetter
      /\ \/ pc[p] = "readLegacy" /\ pc'[p] = "done" /\ got'[p] = legacy /\ legacy \in Password
         \/ pc[p] = "readLegacy" /\ pc'[p] = "failed" /\ legacy = Unsendable
         \/ pc[p] = "readLegacy" /\ pc'[p] = "read" /\ legacy \in {Short, None}
         \/ pc[p] \in {"read", "readWinner"} /\ pc'[p] = "done" /\ got'[p] = file /\ file \in Password
         \/ pc[p] = "read" /\ pc'[p] = "failed" /\ file = Unsendable
         \/ pc[p] = "read" /\ pc'[p] = "remove" /\ file = Short
         \/ pc[p] = "read" /\ pc'[p] = "create" /\ file = None
         \/ pc[p] = "readWinner" /\ pc'[p] = "failed" /\ file \in {Short, Unsendable, None}
  <2>1. file \in Content /\ legacy \in Content
    BY DEF Inv, TypeOK
  <2>2. CASE ReadLegacy(p)
    BY <1>1, <2>1, <2>2, Distinct DEF ReadLegacy, GoOn, GiveUp, End, Goto, Content
  <2>3. CASE Read(p)
    BY <1>1, <2>1, <2>3, Distinct DEF Read, GoOn, GiveUp, End, Goto, Content
  <2>4. CASE ReadWinner(p)
    BY <1>1, <2>1, <2>4, Distinct DEF ReadWinner, GoOn, GiveUp, End, Goto, Content
  <2>5. QED
    BY <2>2, <2>3, <2>4
<1>3. TypeOK'
  <2>1. file \in Content /\ legacy \in Content
    BY DEF Inv, TypeOK
  <2>2. pc' \in [Process -> Place] /\ got' \in [Process -> Password \cup {None}]
    <3>1. CASE ReadLegacy(p)
      <4>1. CASE legacy \in Password
        <5>1. legacy # Short /\ legacy # Unsendable /\ legacy # None
          BY <4>1, Distinct
        <5>2. End(p, legacy)
          BY <3>1, <4>1, <5>1 DEF ReadLegacy
        <5>3. QED
          BY <1>1, <4>1, <5>2 DEF End, Goto, Ended, Place
      <4>2. CASE legacy = Unsendable
        BY <1>1, <3>1, <4>2, Distinct DEF ReadLegacy, GoOn, GiveUp, End, Goto, Ended, Place
      <4>3. CASE legacy \in {Short, None}
        BY <1>1, <3>1, <4>3, Distinct DEF ReadLegacy, GoOn, GiveUp, End, Goto, Ended, Place
      <4>4. QED
        BY <2>1, <4>1, <4>2, <4>3 DEF Content
    <3>2. CASE Read(p)
      <4>1. CASE file \in Password
        <5>1. file # Short /\ file # Unsendable /\ file # None
          BY <4>1, Distinct
        <5>2. End(p, file)
          BY <3>2, <4>1, <5>1 DEF Read
        <5>3. QED
          BY <1>1, <4>1, <5>2 DEF End, Goto, Ended, Place
      <4>2. CASE file = Unsendable
        BY <1>1, <3>2, <4>2, Distinct DEF Read, GoOn, GiveUp, End, Goto, Ended, Place
      <4>3. CASE file = Short
        BY <1>1, <3>2, <4>3, Distinct DEF Read, GoOn, GiveUp, End, Goto, Ended, Place
      <4>4. CASE file = None
        BY <1>1, <3>2, <4>4, Distinct DEF Read, GoOn, GiveUp, End, Goto, Ended, Place
      <4>5. QED
        BY <2>1, <4>1, <4>2, <4>3, <4>4 DEF Content
    <3>3. CASE ReadWinner(p)
      BY <1>1, <2>1, <3>3, Distinct DEF ReadWinner, Content, GoOn, GiveUp, End, Goto, Ended, Place
    <3>4. QED
      BY <3>1, <3>2, <3>3
  <2>3. QED
    BY <1>1, <2>2 DEF Inv, TypeOK, Place
<1>4. Places'
  BY <1>1, <1>2, Distinct DEF Inv, Places, Ended
<1>5. Contents'
  BY <1>1, <1>2, Distinct DEF Inv, Contents, Untruncated
<1>6. Overtaken'
  BY <1>1, <1>2, Distinct DEF Inv, Overtaken, Contents, Untruncated
<1>7. Migrating'
  BY <1>1, <1>2, Distinct DEF Inv, Migrating, Contents, Overtaken, Untruncated
<1>8. ReadOnly'
  BY <1>1, <1>2, Distinct DEF Inv, ReadOnly, Untruncated
<1>9. Agreed'
  BY <1>1, <1>2, Distinct DEF Inv, Agreed, Places, Contents, Overtaken, Migrating, Untruncated, Regular, NoMigration
<1>10. StartSucceeds'
  BY <1>1, <1>2, Distinct DEF Inv, StartSucceeds, Contents, Overtaken, Untruncated, Regular
<1>11. NoBackupLeft'
  BY <1>1, <1>2, Distinct DEF Inv, NoBackupLeft, Places
<1>12. QED
  BY <1>3, <1>4, <1>5, <1>6, <1>7, <1>8, <1>9, <1>10, <1>11 DEF Inv

(* Only a truncated file is removed. *)
LEMMA RemoveStep ==
  ASSUME Inv, NEW p \in Starter, Remove(p)
  PROVE  Inv'
<1>1. /\ UNCHANGED <<dir0, legacy, backup, replaced>>
      /\ p \in Process
      /\ pc \in [Process -> Place] /\ got \in [Process -> Password \cup {None}]
      /\ \A q \in Process \ {p} : pc'[q] = pc[q] /\ got'[q] = got[q]
  BY Distinct DEF Remove, Inv, TypeOK, Place, GoOn, GiveUp, End, Goto
<1>2. /\ p \notin Resetter /\ pc[p] = "remove" /\ ~Untruncated
      /\ \/ (file = None \/ dir0.writable) /\ file' = None /\ pc'[p] = "create"
         \/ ~dir0.writable /\ file' = file /\ pc'[p] = "failed"
  BY <1>1, Distinct DEF Remove, Inv, GoOn, GiveUp, End, Goto, Contents
<1>3. TypeOK'
  BY <1>1, Distinct DEF Inv, TypeOK, Content, Remove, GoOn, GiveUp, End, Goto, Ended
<1>4. Places'
  BY <1>1, <1>2, Distinct DEF Inv, Places, Ended
<1>5. Contents'
  BY <1>1, <1>2, Distinct DEF Inv, Contents, Untruncated
<1>6. Overtaken'
  BY <1>1, <1>2, Distinct DEF Inv, Overtaken, Contents, Untruncated
<1>7. Migrating'
  BY <1>1, <1>2, Distinct DEF Inv, Migrating, Contents, Overtaken, Untruncated
<1>8. ReadOnly'
  BY <1>1, <1>2, Distinct DEF Inv, ReadOnly, Untruncated
<1>9. Agreed'
  BY <1>1, <1>2, Distinct DEF Inv, Agreed, Places, Contents, Migrating, Untruncated, Regular, NoMigration
<1>10. StartSucceeds'
  BY <1>1, <1>2, Distinct DEF Inv, StartSucceeds, Untruncated, Regular
<1>11. NoBackupLeft'
  BY <1>1, <1>2, Distinct DEF Inv, NoBackupLeft, Places
<1>12. QED
  BY <1>3, <1>4, <1>5, <1>6, <1>7, <1>8, <1>9, <1>10, <1>11 DEF Inv

(* A password is created where there is none, on a file system with links. *)
LEMMA CreateStep ==
  ASSUME Inv, NEW p \in Starter, Create(p)
  PROVE  Inv'
<1>1. /\ UNCHANGED <<dir0, legacy, backup, replaced>>
      /\ p \in Process
      /\ pc \in [Process -> Place] /\ got \in [Process -> Password \cup {None}]
      /\ \A q \in Process \ {p} : pc'[q] = pc[q] /\ got'[q] = got[q]
  BY Distinct DEF Create, Inv, TypeOK, Place, GoOn, GiveUp, End, Goto
<1>2. /\ p \notin Resetter /\ pc[p] = "create"
      /\ \/ ~dir0.writable /\ file' = file /\ pc'[p] = "failed"
         \/ /\ dir0.writable /\ (file = None \/ ~dir0.links)
            /\ file' = p /\ pc'[p] = "done" /\ got'[p] = p
         \/ dir0.writable /\ file # None /\ file' = file /\ pc'[p] = "readWinner"
  BY <1>1, Distinct DEF Create, Inv, GoOn, GiveUp, End, Goto
<1>3. TypeOK'
  BY <1>1, Distinct DEF Inv, TypeOK, Content, Create, GoOn, GiveUp, End, Goto, Ended
<1>4. Places'
  BY <1>1, <1>2, Distinct DEF Inv, Places, Ended
<1>5. Contents'
  BY <1>1, <1>2, Distinct DEF Inv, Contents, Untruncated
<1>6. Overtaken'
  BY <1>1, <1>2, Distinct DEF Inv, Overtaken, Contents, Untruncated
<1>7. Migrating'
  BY <1>1, <1>2, Distinct DEF Inv, Migrating, Contents, Overtaken, Untruncated
<1>8. ReadOnly'
  BY <1>1, <1>2, Distinct DEF Inv, ReadOnly, Untruncated
<1>9. Agreed'
  BY <1>1, <1>2, Distinct DEF Inv, Agreed, Places, Contents, Migrating, Untruncated, Regular, NoMigration
<1>10. StartSucceeds'
  BY <1>1, <1>2, Distinct DEF Inv, StartSucceeds, Untruncated, Regular
<1>11. NoBackupLeft'
  BY <1>1, <1>2, Distinct DEF Inv, NoBackupLeft, Places
<1>12. QED
  BY <1>3, <1>4, <1>5, <1>6, <1>7, <1>8, <1>9, <1>10, <1>11 DEF Inv

(* A reset prepares its file and keeps a copy of the old one. *)
LEMMA PrepareStep ==
  ASSUME Inv, NEW p \in Resetter, WriteTemporary(p) \/ Copy(p)
  PROVE  Inv'
<1>1. /\ UNCHANGED <<dir0, file, legacy, got, replaced>>
      /\ p \in Process
      /\ pc \in [Process -> Place] /\ got \in [Process -> Password \cup {None}]
      /\ \A q \in Process \ {p} : pc'[q] = pc[q] /\ got'[q] = got[q]
  BY Distinct DEF WriteTemporary, Copy, Inv, TypeOK, Place, GoOn, GiveUp, End, Goto
<1>2. /\ p \notin Starter /\ pc'[p] \in {"failed", "copy", "replace"}
      /\ dir0.writable \/ pc'[p] = "failed" \/ pc[p] = "copy"
      /\ backup' = backup \/ pc'[p] = "replace"
      /\ pc[p] \in {"start", "copy"}
  BY <1>1, Distinct DEF WriteTemporary, Copy, Inv, GoOn, GiveUp, End, Goto
<1>3. TypeOK'
  BY <1>1, Distinct DEF Inv, TypeOK, Content, WriteTemporary, Copy, GoOn, GiveUp, End, Goto, Ended
<1>4. Places'
  BY <1>1, <1>2, Distinct DEF Inv, Places, Ended
<1>5. Contents'
  BY <1>1, <1>2, Distinct DEF Inv, Contents, Untruncated
<1>6. Overtaken'
  BY <1>1, <1>2, Distinct DEF Inv, Overtaken, Contents, Untruncated
<1>7. Migrating'
  BY <1>1, <1>2, Distinct DEF Inv, Migrating, Contents, Overtaken, Untruncated
<1>8. ReadOnly'
  BY <1>1, <1>2, Distinct DEF Inv, ReadOnly, Places, Untruncated
<1>9. Agreed'
  BY <1>1, <1>2, Distinct DEF Inv, Agreed, Places, Contents, Migrating, Untruncated, Regular, NoMigration
<1>10. StartSucceeds'
  BY <1>1, <1>2, Distinct DEF Inv, StartSucceeds, Untruncated, Regular
<1>11. NoBackupLeft'
  BY <1>1, <1>2, Distinct DEF Inv, NoBackupLeft, Places
<1>12. QED
  BY <1>3, <1>4, <1>5, <1>6, <1>7, <1>8, <1>9, <1>10, <1>11 DEF Inv

(* A reset puts its password in place of another, which is remembered as replaced. *)
LEMMA ReplaceStep ==
  ASSUME Inv, NEW p \in Resetter, Replace(p)
  PROVE  Inv'
<1>1. /\ UNCHANGED <<dir0, legacy, backup, got>>
      /\ p \in Process
      /\ pc \in [Process -> Place] /\ got \in [Process -> Password \cup {None}]
      /\ \A q \in Process \ {p} : pc'[q] = pc[q] /\ got'[q] = got[q]
  BY Distinct DEF Replace, Inv, TypeOK, Place, GoOn, GiveUp, End, Goto
<1>2. /\ p \notin Starter /\ pc[p] = "replace" /\ pc'[p] = "clean"
      /\ file' = p /\ replaced' = replaced \cup {file}
  BY <1>1, Distinct DEF Replace, Inv, GoOn, GiveUp, End, Goto
<1>3. TypeOK'
  BY <1>1, Distinct DEF Inv, TypeOK, Content, Replace, GoOn, GiveUp, End, Goto, Ended
<1>4. Places'
  BY <1>1, <1>2, Distinct DEF Inv, Places, Ended
<1>5. Contents'
  BY <1>1, <1>2, Distinct DEF Inv, Contents, Untruncated
<1>6. Overtaken'
  BY <1>1, <1>2, Distinct DEF Inv, Overtaken, Contents, Untruncated
<1>7. Migrating'
  BY <1>1, <1>2, Distinct DEF Inv, Migrating, Contents, Overtaken, Untruncated
<1>8. ReadOnly'
  BY <1>1, <1>2, Distinct DEF Inv, ReadOnly, Places, Untruncated
<1>9. Agreed'
  BY <1>1, <1>2, Distinct DEF Inv, Agreed, Places, Contents, Migrating, Untruncated, Regular, NoMigration
<1>10. StartSucceeds'
  BY <1>1, <1>2, Distinct DEF Inv, StartSucceeds, Untruncated, Regular
<1>11. NoBackupLeft'
  BY <1>1, <1>2, Distinct DEF Inv, NoBackupLeft, Places
<1>12. QED
  BY <1>3, <1>4, <1>5, <1>6, <1>7, <1>8, <1>9, <1>10, <1>11 DEF Inv

(* A reset that is done leaves no copy of its own. *)
LEMMA CleanStep ==
  ASSUME Inv, NEW p \in Resetter, Clean(p)
  PROVE  Inv'
<1>1. /\ UNCHANGED <<dir0, file, legacy, replaced>>
      /\ p \in Process
      /\ pc \in [Process -> Place] /\ got \in [Process -> Password \cup {None}]
      /\ \A q \in Process \ {p} : pc'[q] = pc[q] /\ got'[q] = got[q]
  BY Distinct DEF Clean, Inv, TypeOK, Place, GoOn, GiveUp, End, Goto
<1>2. /\ p \notin Starter /\ pc[p] = "clean" /\ pc'[p] = "done"
      /\ got'[p] = p /\ backup' = None
  BY <1>1, Distinct DEF Clean, Inv, GoOn, GiveUp, End, Goto
<1>3. TypeOK'
  BY <1>1, Distinct DEF Inv, TypeOK, Content, Clean, GoOn, GiveUp, End, Goto, Ended
<1>4. Places'
  BY <1>1, <1>2, Distinct DEF Inv, Places, Ended
<1>5. Contents'
  BY <1>1, <1>2, Distinct DEF Inv, Contents, Untruncated
<1>6. Overtaken'
  BY <1>1, <1>2, Distinct DEF Inv, Overtaken, Contents, Untruncated
<1>7. Migrating'
  BY <1>1, <1>2, Distinct DEF Inv, Migrating, Contents, Overtaken, Untruncated
<1>8. ReadOnly'
  BY <1>1, <1>2, Distinct DEF Inv, ReadOnly, Places, Untruncated
<1>9. Agreed'
  BY <1>1, <1>2, Distinct DEF Inv, Agreed, Places, Contents, Migrating, Untruncated, Regular, NoMigration
<1>10. StartSucceeds'
  BY <1>1, <1>2, Distinct DEF Inv, StartSucceeds, Untruncated, Regular
<1>11. NoBackupLeft'
  BY <1>1, <1>2, Distinct DEF Inv, NoBackupLeft, Places
<1>12. QED
  BY <1>3, <1>4, <1>5, <1>6, <1>7, <1>8, <1>9, <1>10, <1>11 DEF Inv

(* A process that is killed leaves the directory as it is. *)
LEMMA KillStep ==
  ASSUME Inv, NEW p \in Process, Kill(p)
  PROVE  Inv'
<1>1. /\ UNCHANGED <<dir0, file, legacy, backup, got, replaced>>
      /\ p \in Process
      /\ pc \in [Process -> Place] /\ got \in [Process -> Password \cup {None}]
      /\ \A q \in Process \ {p} : pc'[q] = pc[q] /\ got'[q] = got[q]
  BY Distinct DEF Kill, Inv, TypeOK, Place, GoOn, GiveUp, End, Goto
<1>2. pc'[p] = "killed"
  BY <1>1, Distinct DEF Kill, Inv, GoOn, GiveUp, End, Goto
<1>3. TypeOK'
  BY <1>1, Distinct DEF Inv, TypeOK, Content, Kill, GoOn, GiveUp, End, Goto, Ended
<1>4. Places'
  BY <1>1, <1>2, Distinct DEF Inv, Places, Ended
<1>5. Contents'
  BY <1>1, <1>2, Distinct DEF Inv, Contents, Untruncated
<1>6. Overtaken'
  BY <1>1, <1>2, Distinct DEF Inv, Overtaken, Contents, Untruncated
<1>7. Migrating'
  BY <1>1, <1>2, Distinct DEF Inv, Migrating, Contents, Overtaken, Untruncated
<1>8. ReadOnly'
  BY <1>1, <1>2, Distinct DEF Inv, ReadOnly, Places, Untruncated
<1>9. Agreed'
  BY <1>1, <1>2, Distinct DEF Inv, Agreed, Places, Contents, Migrating, Untruncated, Regular, NoMigration
<1>10. StartSucceeds'
  BY <1>1, <1>2, Distinct DEF Inv, StartSucceeds, Untruncated, Regular
<1>11. NoBackupLeft'
  BY <1>1, <1>2, Distinct DEF Inv, NoBackupLeft, Places
<1>12. QED
  BY <1>3, <1>4, <1>5, <1>6, <1>7, <1>8, <1>9, <1>10, <1>11 DEF Inv

-----------------------------------------------------------------------------
(* No step leaves the invariant. *)
LEMMA StepInv == Inv /\ [Next]_vars => Inv'
<1> SUFFICES ASSUME Inv, [Next]_vars PROVE Inv'
  OBVIOUS
<1>1. ASSUME NEW p \in Starter, Ensure(p) PROVE Inv'
  BY <1>1, LookStep, RenameStep, ReadStep, RemoveStep, CreateStep DEF Ensure
<1>2. ASSUME NEW p \in Resetter, Reset(p) PROVE Inv'
  BY <1>2, PrepareStep, ReplaceStep, CleanStep DEF Reset
<1>3. ASSUME NEW p \in Process, Kill(p) PROVE Inv'
  BY <1>3, KillStep
<1>4. CASE UNCHANGED vars
  BY <1>4 DEF vars, Inv, TypeOK, Places, Contents, Overtaken, Migrating, ReadOnly, Agreed,
     StartSucceeds, NoBackupLeft, Untruncated, Regular, NoMigration
<1>5. QED
  BY <1>1, <1>2, <1>3, <1>4 DEF Next

(* The directory and its processes keep their types (password.rs). *)
THEOREM TypeCorrect == Spec => []TypeOK
<1>1. Inv => TypeOK
  BY DEF Inv
<1>2. QED
  BY InitInv, StepInv, <1>1, PTL DEF Spec

(* Any number of processes that start at once end with the same password, created, found or
   migrated, unless a reset came between (ensure_dashboard_password, create_if_absent). *)
THEOREM StartersAgree == Spec => []SamePassword
<1>1. Inv => SamePassword
  <2> SUFFICES ASSUME Inv, Regular, NoMigration \/ replaced = {},
                      NEW p \in Starter, NEW q \in Starter, pc[p] = "done", pc[q] = "done"
               PROVE  got[p] = got[q] \/ {got[p], got[q]} \cap replaced # {}
    BY DEF SamePassword
  <2>1. CASE dir0.writable
    BY <2>1 DEF Inv, Agreed
  <2>2. CASE ~dir0.writable
    BY <2>2 DEF Inv, ReadOnly
  <2>3. QED
    BY <2>1, <2>2
<1>2. QED
  BY InitInv, StepInv, <1>1, PTL DEF Spec

(* The password of a reset that has answered is the file's until another reset
   (reset_dashboard_password). *)
THEOREM ResetHolds == Spec => []ResetStays
<1>1. Inv => ResetStays
  BY DEF Inv, Agreed, ResetStays
<1>2. QED
  BY InitInv, StepInv, <1>1, PTL DEF Spec

(* However many processes start at once, the password of an older version is kept
   (ensure_dashboard_password). *)
THEOREM MigrationSafe == Spec => []MigrationKeepsPassword
<1> DEFINE Migrated == dir0.file = None /\ dir0.legacy = Old /\ replaced = {} =>
      \A p \in Starter : pc[p] = "done" => got[p] = Old
<1>1. Inv /\ Migrated /\ [Next]_vars => Migrated'
  <2> SUFFICES ASSUME Inv, Migrated, [Next]_vars,
                      dir0'.file = None, dir0'.legacy = Old, replaced' = {},
                      NEW p \in Starter, pc'[p] = "done"
               PROVE  got'[p] = Old
    OBVIOUS
  <2>1. /\ dir0' = dir0 /\ replaced = {} /\ Untruncated /\ p \in Process
        /\ Old # None /\ Old # Short /\ Old # Unsendable
    BY Distinct DEF Next, Ensure, Reset, LookForFile, LookForLegacy, Rename, ReadLegacy, Read,
       Remove, Create, ReadWinner, WriteTemporary, Copy, Replace, Clean, Kill, vars, Untruncated
  <2>2. /\ file \in {None, Old} /\ legacy \in {None, Old}
        /\ pc[p] \notin {"create", "readWinner"}
    BY <2>1 DEF Inv, Migrating
  <2>3. /\ pc \in [Process -> Place] /\ got \in [Process -> Password \cup {None}]
    BY DEF Inv, TypeOK, Place
  <2>4. CASE pc[p] = "done"
    <3>1. got'[p] = got[p]
      <4>1. ASSUME NEW q, Ensure(q) \/ Reset(q) \/ Kill(q) PROVE got'[p] = got[p]
        BY <2>1, <2>4, <4>1, OwnStep DEF Inv, Ended
      <4>2. QED
        BY <4>1 DEF Next, vars
    <3>2. QED
      BY <2>1, <2>4, <3>1
  <2>5. CASE pc[p] # "done"
    <3>1. Ensure(p)
      <4>1. ASSUME NEW q \in Starter, q # p, Ensure(q) PROVE pc'[p] = pc[p]
        BY <2>1, <4>1, OwnStep DEF Inv
      <4>2. ASSUME NEW q \in Resetter, Reset(q) PROVE pc'[p] = pc[p]
        BY <2>1, <4>2, OwnStep, Distinct DEF Inv
      <4>3. ASSUME NEW q \in Process, Kill(q) PROVE pc'[p] # "done"
        BY <2>1, <2>3, <2>5, <4>3 DEF Kill, GoOn, Goto
      <4>4. ASSUME UNCHANGED vars PROVE pc' = pc
        BY <4>4 DEF vars
      <4>5. QED
        BY <2>5, <4>1, <4>2, <4>3, <4>4 DEF Next
    <3>2. CASE ReadLegacy(p) \/ Read(p)
      BY <2>1, <2>2, <2>3, <3>2, Distinct DEF ReadLegacy, Read, End, GoOn, GiveUp, Goto
    <3>3. CASE LookForFile(p) \/ LookForLegacy(p) \/ Rename(p) \/ Remove(p)
      BY <2>1, <2>3, <3>3 DEF LookForFile, LookForLegacy, Rename, Remove, GoOn, GiveUp, Goto
    <3>4. CASE Create(p) \/ ReadWinner(p)
      BY <2>2, <3>4 DEF Create, ReadWinner
    <3>5. QED
      BY <3>1, <3>2, <3>3, <3>4 DEF Ensure
  <2>6. QED
    BY <2>4, <2>5
<1>2. Init => Migrated
  BY Distinct DEF Init
<1>3. Migrated => MigrationKeepsPassword
  BY DEF MigrationKeepsPassword
<1> HIDE DEF Migrated
<1>4. QED
  BY InitInv, StepInv, <1>1, <1>2, <1>3, PTL DEF Spec

(* Being overtaken is no reason to fail (ensure_dashboard_password). *)
THEOREM StartIsSafe == Spec => []StartSucceeds
<1>1. Inv => StartSucceeds
  BY DEF Inv
<1>2. QED
  BY InitInv, StepInv, <1>1, PTL DEF Spec

(* A reset that has answered leaves no copy of what it replaced (reset_dashboard_password). *)
THEOREM NoCopyLeft == Spec => []NoBackupLeft
<1>1. Inv => NoBackupLeft
  BY DEF Inv
<1>2. QED
  BY InitInv, StepInv, <1>1, PTL DEF Spec
=============================================================================
