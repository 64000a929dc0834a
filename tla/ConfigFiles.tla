---------------------------- MODULE ConfigFiles -----------------------------
(***************************************************************************)
(* The configuration: its two files, their loading over the environment     *)
(* (config/src/loader.rs), edits of both (config/src/edit.rs), and the      *)
(* table in force, which applies and reloads replace (AdminState in         *)
(* transport-http/src/admin.rs, SIGHUP in server/src/main.rs).              *)
(*                                                                         *)
(* A text is a function from paths to values; the secrets' text may hold    *)
(* settings too, and they win.  Each action of a request is one step on the *)
(* files; the process may be killed between any two, and an operator may    *)
(* write a file by hand.                                                    *)
(***************************************************************************)
EXTENDS Integers, FiniteSets

CONSTANTS
  Path,        \* what can be set
  SecretPath,  \* paths under `keys`: edits of them go to secrets.toml
  Value,       \* what a path can be set to
  Bad,         \* values that do not load
  Unset,       \* no value
  Torn,        \* a file cut off in the middle
  Missing,     \* no file
  Keep,        \* a path that an edit leaves alone
  Env,         \* what the environment sets
  Conflicts,   \* paths that may not be set together: a setting and its aliases
  Admin,       \* requests that may be in progress at once
  Nobody,
  Reload,      \* the request to read the files again
  EditSets,    \* edits of one request
  HandTexts,   \* what an operator may write
  Starts       \* the files before the first start and, a bound, how many events of each kind
               \* a behaviour has

File == {"config", "secrets"}
FileOf(p) == IF p \in SecretPath THEN "secrets" ELSE "config"
Text == [Path -> Value \cup {Unset}]
Blank == [p \in Path |-> Unset]
Edits == [Path -> Value \cup {Unset, Keep}]

ASSUME ConfigAssumption ==
  /\ SecretPath \subseteq Path /\ Bad \subseteq Value
  /\ Unset \notin Value /\ Keep \notin Value \cup {Unset}
  /\ {Torn, Missing} \cap Text = {} /\ Torn # Missing
  /\ Env \in Text
  /\ \A C \in Conflicts : C \subseteq Path \ SecretPath
  /\ Nobody \notin Admin
  /\ EditSets \subseteq Edits /\ Reload \notin Edits
  /\ \A e \in EditSets : \E p \in Path : e[p] # Keep
  /\ HandTexts \subseteq Text \cup {Torn}
  /\ Starts \subseteq [files : [File -> Text \cup {Missing}],
                       left : [{"edit", "hand", "failure", "crash", "call", "tick", "poll"} -> Nat]]

VARIABLES
  left,   \* left[kind]: the events of that kind that may still happen
  disk,   \* disk[f].main is the file, disk[f].tmp the one an edit writes first
  table,  \* the configuration in force, and how many have been before it
  lock,   \* edit_lock: who holds it
  job,    \* job[a]: the request a is at, and where it is
  acked,  \* history: what the edits answered with ok have set (Keep: no claim)
  hand    \* history: somebody has written a file by hand

filesVars == <<left, disk, table, lock, job, acked, hand>>

Spend(kind) == left[kind] > 0 /\ left' = [left EXCEPT ![kind] = @ - 1]

-----------------------------------------------------------------------------
(***************************************************************************)
(* load_texts: secrets over config, the environment over both.              *)
(***************************************************************************)
Read(content) == IF content = Missing THEN Blank ELSE content

Merged(c, s) ==
  [p \in Path |-> IF Env[p] # Unset THEN Env[p] ELSE IF s[p] # Unset THEN s[p] ELSE c[p]]

Valid(cfg) ==
  /\ \A p \in Path : cfg[p] \notin Bad
  /\ \A C \in Conflicts : Cardinality({p \in C : cfg[p] # Unset}) <= 1

Loads(c, s) == c # Torn /\ s # Torn /\ Valid(Merged(c, s))

LoadsNow == Loads(Read(disk["config"].main), Read(disk["secrets"].main))

Edited(text, f, edits) ==
  [p \in Path |-> IF FileOf(p) = f /\ edits[p] # Keep THEN edits[p] ELSE text[p]]

\* The files that an edit changes, and the first one of some.
Touched(edits) == {FileOf(p) : p \in {q \in Path : edits[q] # Keep}}
FirstOf(files) == IF "config" \in files THEN "config" ELSE "secrets"

LockedByEnv(edits) == \E p \in Path : edits[p] # Keep /\ Env[p] # Unset

-----------------------------------------------------------------------------
(***************************************************************************)
(* apply() and reload(), each on a thread of its own.                       *)
(***************************************************************************)
\* sure: no file has been written by hand since the request has read the first one.
Idle == [at |-> "idle", edits |-> Reload, texts |-> [f \in File |-> Blank], file |-> "config", sure |-> FALSE]

Up == table.config # Torn
InForce(cfg) == [config |-> cfg, generation |-> table.generation + 1]

FilesInit ==
  /\ \E start \in Starts :
       /\ left = start.left
       /\ disk = [f \in File |-> [main |-> start.files[f], tmp |-> Missing]]
  /\ LoadsNow
  /\ table = [config |-> Merged(Read(disk["config"].main), Read(disk["secrets"].main)), generation |-> 0]
  /\ lock = Nobody
  /\ job = [a \in Admin |-> Idle]
  /\ acked = [p \in Path |-> Keep]
  /\ hand = FALSE

Ask(a) ==
  /\ Up /\ job[a].at = "idle"
  /\ Spend("edit")
  /\ \E e \in EditSets \cup {Reload} : job' = [job EXCEPT ![a] = [Idle EXCEPT !.at = "queued", !.edits = e]]
  /\ UNCHANGED <<disk, table, lock, acked, hand>>

\* Mutant: two requests at a time.
MutantNoLock(a) == TRUE
HasLock(a) == lock = Nobody

\* The first read of load() or plan_edits(); a path of the environment is refused before it.
Begin(a) ==
  /\ job[a].at = "queued"
  /\ HasLock(a)
  /\ IF job[a].edits # Reload /\ LockedByEnv(job[a].edits)
     THEN lock' = lock /\ job' = [job EXCEPT ![a] = Idle]
     ELSE /\ lock' = a
          /\ job' = [job EXCEPT ![a].at = "reading", ![a].sure = TRUE,
                                ![a].texts["config"] = Read(disk["config"].main)]
  /\ UNCHANGED <<left, disk, table, acked, hand>>

\* What a request makes of the two texts; of a torn one nothing.
Planned(a) ==
  LET read == [job[a].texts EXCEPT !["secrets"] = Read(disk["secrets"].main)]
  IN IF job[a].edits = Reload \/ Torn \in {read["config"], read["secrets"]} THEN read
     ELSE [f \in File |-> Edited(read[f], f, job[a].edits)]

\* The second read: what does not load is refused, and nothing has been written.
Plan(a) ==
  /\ job[a].at = "reading"
  /\ LET texts == Planned(a) IN
     IF ~Loads(texts["config"], texts["secrets"])
     THEN lock' = Nobody /\ job' = [job EXCEPT ![a] = Idle]
     ELSE /\ lock' = lock
          /\ job' = [job EXCEPT
               ![a].at = IF job[a].edits = Reload THEN "installing" ELSE "creating",
               ![a].texts = texts,
               ![a].file = IF job[a].edits = Reload THEN "config" ELSE FirstOf(Touched(job[a].edits))]
  /\ UNCHANGED <<left, disk, table, acked, hand>>

-----------------------------------------------------------------------------
(***************************************************************************)
(* write_atomic: a temporary file, a copy of the old one (which nothing     *)
(* reads, and which is left out), a rename.                                 *)
(***************************************************************************)
Opened(f) == [disk EXCEPT ![f].tmp = Torn]

Create(a) ==
  /\ job[a].at = "creating"
  /\ disk' = Opened(job[a].file)
  /\ job' = [job EXCEPT ![a].at = "writing"]
  /\ UNCHANGED <<left, table, lock, acked, hand>>

Write(a) ==
  /\ job[a].at = "writing"
  /\ disk' = [disk EXCEPT ![job[a].file].tmp = job[a].texts[job[a].file]]
  /\ job' = [job EXCEPT ![a].at = "renaming"]
  /\ UNCHANGED <<left, table, lock, acked, hand>>

\* From here on nothing is claimed of the paths of this file until the answer.
Rename(a) ==
  LET f == job[a].file
      more == Touched(job[a].edits) = File /\ f = "config"
  IN /\ job[a].at = "renaming"
     /\ disk' = [disk EXCEPT ![f] = [main |-> disk[f].tmp, tmp |-> Missing]]
     /\ job' = [job EXCEPT ![a].at = IF more THEN "creating" ELSE "installing",
                           ![a].file = IF more THEN "secrets" ELSE f]
     /\ acked' = [p \in Path |-> IF FileOf(p) = f /\ job[a].edits[p] # Keep THEN Keep ELSE acked[p]]
     /\ UNCHANGED <<left, table, lock, hand>>

\* A write fails: the request ends with an error, and what was renamed stays.
WriteFails(a) ==
  /\ job[a].at \in {"creating", "writing", "renaming"}
  /\ Spend("failure")
  /\ lock' = Nobody
  /\ job' = [job EXCEPT ![a] = Idle]
  /\ UNCHANGED <<disk, table, acked, hand>>

\* install: the table is swapped and the answer is ok.
Install(a) ==
  /\ job[a].at = "installing"
  /\ table' = InForce(Merged(job[a].texts["config"], job[a].texts["secrets"]))
  /\ acked' = IF job[a].edits = Reload \/ ~job[a].sure THEN acked
              ELSE [p \in Path |-> IF job[a].edits[p] # Keep THEN job[a].edits[p] ELSE acked[p]]
  /\ lock' = Nobody
  /\ job' = [job EXCEPT ![a] = Idle]
  /\ UNCHANGED <<left, disk, hand>>

-----------------------------------------------------------------------------
\* An operator replaces a file, whatever is in progress: of what was there, nothing is claimed.
HandEdit ==
  /\ Spend("hand")
  /\ \E f \in File, text \in HandTexts : disk' = [disk EXCEPT ![f].main = text]
  /\ hand' = TRUE
  /\ acked' = [p \in Path |-> Keep]
  /\ job' = [a \in Admin |-> [job[a] EXCEPT !.sure = FALSE]]
  /\ UNCHANGED <<table, lock>>

Crash ==
  /\ Up /\ Spend("crash")
  /\ table' = [table EXCEPT !.config = Torn]
  /\ lock' = Nobody
  /\ job' = [a \in Admin |-> Idle]
  /\ UNCHANGED <<disk, acked, hand>>

\* load_config: a start with files that do not load ends at once.
Restart ==
  /\ ~Up /\ LoadsNow
  /\ table' = InForce(Merged(Read(disk["config"].main), Read(disk["secrets"].main)))
  /\ UNCHANGED <<left, disk, lock, job, acked, hand>>

AdminStep(a) ==
  Begin(a) \/ Plan(a) \/ Create(a) \/ Write(a) \/ Rename(a) \/ WriteFails(a) \/ Install(a)

FilesNext == (\E a \in Admin : Ask(a) \/ AdminStep(a)) \/ HandEdit \/ Restart

FilesSpec == FilesInit /\ [][FilesNext \/ Crash]_filesVars

-----------------------------------------------------------------------------
(***************************************************************************)
(* Properties.                                                              *)
(***************************************************************************)
\* Secrets in config.toml and settings in secrets.toml are not edited, but they count.
Hidden(p) ==
  \/ FileOf(p) = "config" /\ Read(disk["secrets"].main)[p] # Unset
  \/ FileOf(p) = "secrets" /\ acked[p] = Unset /\ Read(disk["config"].main)[p] # Unset

(* An edit answered with ok is neither lost by another edit in progress, nor by a failed
   write, a crash or a restart: the file has it, and it is in force whenever the server
   runs. *)
EditsKept ==
  \A p \in Path : acked[p] # Keep =>
    /\ Read(disk[FileOf(p)].main)[p] = acked[p]
    /\ Up /\ ~Hidden(p) => table.config[p] = acked[p]

(* "Validate edits and write them atomically" (apply_edits), at least in this: at whatever
   point an edit of the two files stops, the files load, and the server starts again. *)
RestartLoads == ~hand => LoadsNow

(* The dashboard's edits never leave a configuration that does not start or that is not the
   one they answered with. *)
ConfigDurable == EditsKept /\ RestartLoads
=============================================================================
