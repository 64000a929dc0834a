---------------------------- MODULE PasswordFile ----------------------------
(***************************************************************************)
(* The dashboard's password file (src/crates/transport-http/src/password.rs)*)
(* as several processes on one machine use it: each `serve` or `password`   *)
(* makes sure that there is a password, each `password reset` replaces it.  *)
(* There is no lock; every action is one call of the file system.  A        *)
(* process may be killed between any two of them.                           *)
(*                                                                         *)
(* A random password is drawn once by one process, so the process stands    *)
(* for it.  A password of the environment is used without the file and      *)
(* left out.  Temporary files have a name of their own and are not shared.  *)
(***************************************************************************)
CONSTANTS
  Starter,    \* processes that make sure of a password
  Resetter,   \* processes that replace it
  Old,        \* a usable password that was there at first
  Short,      \* contents too short to be used
  Unsendable, \* contents with characters that cannot be sent
  None        \* no file

Process == Starter \cup Resetter
Password == Process \cup {Old}
Content == Password \cup {Short, Unsendable, None}

ASSUME PasswordFileAssumption ==
  /\ Starter \cap Resetter = {}
  /\ Old \notin Process
  /\ {Short, Unsendable, None} \cap Password = {}
  /\ Short # Unsendable /\ Short # None /\ Unsendable # None

VARIABLES
  dir0,      \* the directory as it was found: two files, and what it permits
  file,      \* dashboard_password
  legacy,    \* admin_token, its name in an older version
  backup,    \* dashboard_password.bak
  pc,        \* pc[p]: the call process p makes next
  got,       \* got[p]: the password p ended with
  replaced   \* history: what the resets have replaced

vars == <<dir0, file, legacy, backup, pc, got, replaced>>

Init ==
  /\ dir0 \in [file : {Old, Short, Unsendable, None}, legacy : {Old, Short, Unsendable, None},
               writable : BOOLEAN, links : BOOLEAN]
  /\ file = dir0.file /\ legacy = dir0.legacy /\ backup = None
  /\ pc = [p \in Process |-> "start"]
  /\ got = [p \in Process |-> None]
  /\ replaced = {}

Goto(p, place) == pc' = [pc EXCEPT ![p] = place]

\* p ends with what it has read, with an error, or goes on.
End(p, password) == Goto(p, "done") /\ got' = [got EXCEPT ![p] = password]
GiveUp(p) == Goto(p, "failed") /\ UNCHANGED got
GoOn(p, place) == Goto(p, place) /\ UNCHANGED got

-----------------------------------------------------------------------------
(***************************************************************************)
(* ensure_dashboard_password.                                               *)
(***************************************************************************)
\* Mutant: the older version's file is not looked for.
MutantNoMigration(p) ==
  /\ pc[p] = "start"
  /\ GoOn(p, "read")
  /\ UNCHANGED <<dir0, file, legacy, backup, replaced>>
LookForFile(p) ==
  /\ pc[p] = "start"
  /\ GoOn(p, IF file # None THEN "read" ELSE "look")
  /\ UNCHANGED <<dir0, file, legacy, backup, replaced>>

LookForLegacy(p) ==
  /\ pc[p] = "look"
  /\ GoOn(p, IF legacy # None THEN "rename" ELSE "read")
  /\ UNCHANGED <<dir0, file, legacy, backup, replaced>>

\* The rename replaces whatever has the new name by now; it fails when the old file is gone.
Rename(p) ==
  /\ pc[p] = "rename"
  /\ IF dir0.writable /\ legacy # None
     THEN file' = legacy /\ legacy' = None /\ GoOn(p, "read")
     ELSE UNCHANGED <<file, legacy>> /\ GoOn(p, "readLegacy")
  /\ UNCHANGED <<dir0, backup, replaced>>

\* Mutant: a rename that fails is an error, also when another process was faster.
MutantGoneIsError(p) ==
  /\ pc[p] = "readLegacy"
  /\ IF legacy \in Password THEN End(p, legacy) ELSE GiveUp(p)
  /\ UNCHANGED <<dir0, file, legacy, backup, replaced>>
ReadLegacy(p) ==
  /\ pc[p] = "readLegacy"
  /\ CASE legacy \in Password -> End(p, legacy)
       [] legacy = Unsendable -> GiveUp(p)
       [] legacy \in {Short, None} -> GoOn(p, "read")
  /\ UNCHANGED <<dir0, file, legacy, backup, replaced>>

\* Mutant: the length is not looked at.
MutantReadShort(p) ==
  /\ pc[p] = "read"
  /\ CASE file \in Password \cup {Short} -> End(p, file)
       [] file = Unsendable -> GiveUp(p)
       [] file = None -> GoOn(p, "create")
  /\ UNCHANGED <<dir0, file, legacy, backup, replaced>>
Read(p) ==
  /\ pc[p] = "read"
  /\ CASE file \in Password -> End(p, file)
       [] file = Unsendable -> GiveUp(p)
       [] file = Short -> GoOn(p, "remove")
       [] file = None -> GoOn(p, "create")
  /\ UNCHANGED <<dir0, file, legacy, backup, replaced>>

\* The file read before was too short: it is removed, by now perhaps another one.
Remove(p) ==
  /\ pc[p] = "remove"
  /\ IF file = None \/ dir0.writable
     THEN file' = None /\ GoOn(p, "create")
     ELSE UNCHANGED file /\ GiveUp(p)
  /\ UNCHANGED <<dir0, legacy, backup, replaced>>

\* create_if_absent: a link fails if there is a file, a plain rename would replace it.
\* Mutant: the temporary file is renamed into place.
MutantCreateByRename(p) ==
  /\ pc[p] = "create"
  /\ IF dir0.writable THEN file' = p /\ End(p, p) ELSE UNCHANGED file /\ GiveUp(p)
  /\ UNCHANGED <<dir0, legacy, backup, replaced>>
Create(p) ==
  /\ pc[p] = "create"
  /\ \/ ~dir0.writable /\ UNCHANGED file /\ GiveUp(p)
     \/ dir0.writable /\ (file = None \/ ~dir0.links) /\ file' = p /\ End(p, p)
     \/ dir0.writable /\ file # None /\ UNCHANGED file /\ GoOn(p, "readWinner")
  /\ UNCHANGED <<dir0, legacy, backup, replaced>>

ReadWinner(p) ==
  /\ pc[p] = "readWinner"
  /\ IF file \in Password THEN End(p, file) ELSE GiveUp(p)
  /\ UNCHANGED <<dir0, file, legacy, backup, replaced>>

-----------------------------------------------------------------------------
(***************************************************************************)
(* reset_dashboard_password: write_atomic, which keeps the old file as      *)
(* .bak, and the removal of that copy.                                      *)
(***************************************************************************)
WriteTemporary(p) ==
  /\ pc[p] = "start"
  /\ IF ~dir0.writable THEN GiveUp(p) ELSE GoOn(p, IF file # None THEN "copy" ELSE "replace")
  /\ UNCHANGED <<dir0, file, legacy, backup, replaced>>

Copy(p) ==
  /\ pc[p] = "copy"
  /\ IF file = None THEN UNCHANGED backup /\ GiveUp(p)
     ELSE backup' = file /\ GoOn(p, "replace")
  /\ UNCHANGED <<dir0, file, legacy, replaced>>

Replace(p) ==
  /\ pc[p] = "replace"
  /\ replaced' = replaced \cup {file}
  /\ file' = p
  /\ GoOn(p, "clean")
  /\ UNCHANGED <<dir0, legacy, backup>>

\* Mutant: the copy is left.
MutantKeepBackup(p) ==
  /\ pc[p] = "clean"
  /\ End(p, p)
  /\ UNCHANGED <<dir0, file, legacy, backup, replaced>>
Clean(p) ==
  /\ pc[p] = "clean"
  /\ backup' = None
  /\ End(p, p)
  /\ UNCHANGED <<dir0, file, legacy, replaced>>

Ended == {"done", "failed", "killed"}
Kill(p) ==
  /\ pc[p] \notin Ended
  /\ GoOn(p, "killed")
  /\ UNCHANGED <<dir0, file, legacy, backup, replaced>>

Ensure(p) ==
  \/ LookForFile(p) \/ LookForLegacy(p) \/ Rename(p) \/ ReadLegacy(p)
  \/ Read(p) \/ Remove(p) \/ Create(p) \/ ReadWinner(p)

Reset(p) == WriteTemporary(p) \/ Copy(p) \/ Replace(p) \/ Clean(p)

Next ==
  \/ \E p \in Starter : Ensure(p)
  \/ \E p \in Resetter : Reset(p)
  \/ \E p \in Process : Kill(p)

Spec == Init /\ [][Next]_vars
-----------------------------------------------------------------------------
(***************************************************************************)
(* Properties.  The source names two exceptions: a file truncated by hand,  *)
(* and a file system without hard links.  A migration that overlaps a reset *)
(* is a third: its rename may replace the password the reset has written.   *)
(***************************************************************************)
TypeOK ==
  /\ dir0 \in [file : Content, legacy : Content, writable : BOOLEAN, links : BOOLEAN]
  /\ file \in Content /\ legacy \in Content /\ backup \in Content
  /\ pc \in [Process -> Ended \cup
               {"start", "look", "rename", "readLegacy", "read", "remove", "create",
                "readWinner", "copy", "replace", "clean"}]
  /\ got \in [Process -> Password \cup {None}]
  /\ replaced \subseteq Content

Untruncated == Short \notin {dir0.file, dir0.legacy}
Regular == Untruncated /\ dir0.links
NoMigration == dir0.file # None \/ dir0.legacy = None

(* Whoever starts ends with the same password, unless a reset has replaced it in between:
   "two processes starting at once ... must end up with the same password"
   (create_if_absent), whether they find a password, migrate one or create it. *)
SamePassword ==
  Regular /\ (NoMigration \/ replaced = {}) =>
    \A p, q \in Starter : pc[p] = "done" /\ pc[q] = "done" =>
      got[p] = got[q] \/ {got[p], got[q]} \cap replaced # {}

(* The password a reset printed is the file's until another reset: nobody who starts at the
   same time puts another one there (reset_dashboard_password, create_if_absent). *)
ResetStays ==
  Regular /\ NoMigration =>
    \A p \in Resetter : pc[p] = "done" => file = p \/ p \in replaced

(* A password of an older version stays the password ("same password", main.rs), however
   many processes start at once: between its two looks at the directory a process may miss
   both names of a file that is being renamed. *)
MigrationKeepsPassword ==
  dir0.file = None /\ dir0.legacy = Old /\ replaced = {} =>
    \A p \in Starter : pc[p] = "done" => got[p] = Old

(* Starting at the same time as others is no reason to fail: whoever is overtaken finds
   the winner's password (ensure_dashboard_password). *)
StartSucceeds ==
  Regular /\ dir0.writable /\ Unsendable \notin {dir0.file, dir0.legacy} =>
    \A p \in Starter : pc[p] # "failed"

(* A reset "keeps no .bak": once it has answered, the password it replaced is nowhere, and
   another reset at work at that moment or killed is the only reason for a copy. *)
NoBackupLeft ==
  backup # None => \E p \in Resetter : pc[p] \in {"replace", "clean", "killed"}
=============================================================================
