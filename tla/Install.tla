------------------------------- MODULE Install -------------------------------
(***************************************************************************)
(* The install transaction (installer.rs) and the clone of a package from  *)
(* the store (clone.rs), for runs of the command that share one store and, *)
(* perhaps, a project.  A run compares composer.lock with installed.json   *)
(* and with the directories that are there, fetches what it misses into    *)
(* the store, removes, places, and writes installed.json last.  It may be  *)
(* interrupted between any two file operations, and is then followed by    *)
(* another run: nothing but the files is left of it.                       *)
(*                                                                         *)
(* The store is taken by its promise (module StorePromise): an entry       *)
(* appears whole, in one step.  But a file of a package that was placed by *)
(* a hard link is the very file of the store, and `spoiled` tells the      *)
(* store's files that somebody wrote to through such a link.  The packages *)
(* of a run are placed in parallel (rayon).                                *)
(*                                                                         *)
(* Left out: metapackages and path packages, the wider paths of            *)
(* composer/installers, bin proxies (module Binaries) and the state files  *)
(* other than installed.json, which are rewritten whenever they differ.    *)
(***************************************************************************)
EXTENDS Naturals, FiniteSets

CONSTANTS Projects, Packages, Versions,
          Runs, ProjectOf,   \* ProjectOf[r]: where r runs; a run runs once
          NbFiles,           \* files in a package, read in this order
          Locks,             \* what composer.lock may ask for
          Alone,             \* TRUE: one run at a time in a project
          Patient,           \* TRUE: an interrupted run is run again, first
          HandDeletes,       \* TRUE: the user may delete a package's directory
          MaxEdits,          \* bound on what the user does
          None

Wanted == [Packages -> Versions \cup {None}]

ASSUME InstallAssumption ==
  /\ ProjectOf \in [Runs -> Projects]
  /\ NbFiles \in Nat \ {0}
  /\ None \notin Versions
  /\ Locks \subseteq Wanted
  /\ MaxEdits \in Nat
  /\ {Alone, Patient, HandDeletes} \subseteq BOOLEAN

VARIABLES lock,       \* lock[j]: composer.lock of project j
          recorded,   \* recorded[j]: the packages in installed.json
          vendor,     \* vendor[j][p]: the directory of p, or None
          shelf,      \* the entries of the store
          spoiled,    \* the files <<p, v, f>> of the store written to since
          settled,    \* settled[j]: no interrupted run since the last success
          edits,      \* what the user did so far
          phase,      \* phase[r] \in Phases
          goal,       \* goal[r]: the lock that r read
          toInstall,  \* toInstall[r]: the packages r lays out
          removals,   \* removals[r]: the packages r removes
          step,       \* step[r][p] \in Steps
          at,         \* at[r][p]: the next file of p
          probing,    \* probing[r]: the packages with a reflink under way
          refused,    \* refused[r]: those whose next file was refused one
          unsupported \* unsupported[r]: the file system has refused for good

files == <<vendor, shelf, spoiled>>
user == <<lock, settled, edits>>
run == <<goal, toInstall, removals>>
cursor == <<step, at, probing, refused, unsupported>>
vars == <<files, user, run, cursor, recorded, phase>>

Phases == {"idle", "fetch", "remove", "place", "state", "done", "stopped"}

Steps == {"clear", "make", "link", "placed"}

Active == {r \in Runs : phase[r] \in {"fetch", "remove", "place", "state"}}

ActiveIn(j) == {r \in Active : ProjectOf[r] = j}

Files == 1 .. NbFiles

\* A file: the version it has the bytes of, None when it has not those of any,
\* and whether it is a hard link to the store's file.
FileOf(v, linked) == [of |-> v, linked |-> linked]

EmptyDir == [f \in {} |-> FileOf(None, FALSE)]

FileStates == [of : Versions \cup {None}, linked : BOOLEAN]

Directories == UNION {[S -> FileStates] : S \in SUBSET Files}

ASSUME NoneIsNoDirectory == None \notin Directories

\* The bytes of a file of the store.
Stored(p, v, f) == IF <<p, v, f>> \in spoiled THEN None ELSE v

\* The bytes a program finds in a file of the project.
Bytes(j, p, f) ==
  LET file == vendor[j][p][f]
  IN IF file.linked THEN Stored(p, file.of, f) ELSE file.of

Complete(j, p, v) ==
  /\ vendor[j][p] # None
  /\ DOMAIN vendor[j][p] = Files
  /\ \A f \in Files : Bytes(j, p, f) = v

Nothing == [p \in Packages |-> None]

Init ==
  /\ lock \in [Projects -> Locks]
  /\ recorded = [j \in Projects |-> Nothing]
  /\ vendor = [j \in Projects |-> Nothing]
  /\ shelf = {}
  /\ spoiled = {}
  /\ settled = [j \in Projects |-> TRUE]
  /\ edits = 0
  /\ phase = [r \in Runs |-> "idle"]
  /\ goal = [r \in Runs |-> Nothing]
  /\ toInstall = [r \in Runs |-> {}]
  /\ removals = [r \in Runs |-> {}]
  /\ step = [r \in Runs |-> [p \in Packages |-> "clear"]]
  /\ at = [r \in Runs |-> [p \in Packages |-> 1]]
  /\ probing = [r \in Runs |-> {}]
  /\ refused = [r \in Runs |-> {}]
  /\ unsupported = [r \in Runs |-> FALSE]

-----------------------------------------------------------------------------
\* `previous.retain(...)`: a recorded package whose directory is gone is not
\* installed.
Previous(j, p) == IF vendor[j][p] = None THEN None ELSE recorded[j][p]

\* Changed identity, or missing directory; whatever is in the directory.
ToInstall(j) ==
  {p \in Packages : lock[j][p] # None /\ Previous(j, p) # lock[j][p]}

Removals(j) == {p \in Packages : recorded[j][p] # None /\ lock[j][p] = None}

Begin(r) ==
  LET j == ProjectOf[r] IN
  /\ phase[r] = "idle"
  /\ Alone => ActiveIn(j) = {}
  /\ goal' = [goal EXCEPT ![r] = lock[j]]
  /\ toInstall' = [toInstall EXCEPT ![r] = ToInstall(j)]
  /\ removals' = [removals EXCEPT ![r] = Removals(j)]
  /\ phase' = [phase EXCEPT ![r] = "fetch"]
  /\ UNCHANGED <<files, user, cursor, recorded>>

\* store.ensure, also for the packages that are only warmed.
Fetch(r, p) ==
  /\ phase[r] = "fetch"
  /\ goal[r][p] # None
  /\ <<p, goal[r][p]>> \notin shelf
  /\ shelf' = shelf \cup {<<p, goal[r][p]>>}
  /\ UNCHANGED <<vendor, spoiled, user, run, cursor, recorded, phase>>

Fetched(r) ==
  /\ phase[r] = "fetch"
  /\ \A p \in toInstall[r] : <<p, goal[r][p]>> \in shelf
  /\ phase' = [phase EXCEPT ![r] = "remove"]
  /\ UNCHANGED <<files, user, run, cursor, recorded>>

SetDir(r, p, dir) == vendor' = [vendor EXCEPT ![ProjectOf[r]][p] = dir]

SetStep(r, p, s) == step' = [step EXCEPT ![r][p] = s]

\* remove_path, on a package to remove or before a package is laid out.
Clearing(r, p) ==
  /\ step[r][p] = "clear"
  /\ \/ phase[r] = "remove" /\ p \in removals[r]
     \/ phase[r] = "place" /\ p \in toInstall[r]

ClearFile(r, p, f) ==
  LET dir == vendor[ProjectOf[r]][p] IN
  /\ Clearing(r, p)
  /\ dir # None
  /\ f \in DOMAIN dir
  /\ SetDir(r, p, [g \in DOMAIN dir \ {f} |-> dir[g]])
  /\ UNCHANGED <<shelf, spoiled, user, run, cursor, recorded, phase>>

\* (mutant: the clone does not start from an empty directory)
ClearNothing(r, p) ==
  /\ Clearing(r, p)
  /\ SetStep(r, p, "make")
  /\ UNCHANGED <<files, user, run, at, probing, refused, unsupported, recorded, phase>>

\* (mutant: a directory that is not there cannot be removed)
ClearExistingDir(r, p) ==
  /\ Clearing(r, p)
  /\ vendor[ProjectOf[r]][p] = EmptyDir
  /\ SetDir(r, p, None)
  /\ SetStep(r, p, "make")
  /\ UNCHANGED <<shelf, spoiled, user, run, at, probing, refused, unsupported, recorded, phase>>

ClearDir(r, p) ==
  /\ Clearing(r, p)
  /\ vendor[ProjectOf[r]][p] \in {EmptyDir, None}
  /\ SetDir(r, p, None)
  /\ SetStep(r, p, "make")
  /\ UNCHANGED <<shelf, spoiled, user, run, at, probing, refused, unsupported, recorded, phase>>

\* (mutant: installed.json is written before the packages are there)
RemovedAndRecorded(r) ==
  /\ phase[r] = "remove"
  /\ \A p \in removals[r] : step[r][p] = "make"
  /\ phase' = [phase EXCEPT ![r] = "place"]
  /\ recorded' = [recorded EXCEPT ![ProjectOf[r]] = goal[r]]
  /\ UNCHANGED <<files, user, run, cursor>>

Removed(r) ==
  /\ phase[r] = "remove"
  /\ \A p \in removals[r] : step[r][p] = "make"
  /\ phase' = [phase EXCEPT ![r] = "place"]
  /\ UNCHANGED <<files, user, run, cursor, recorded>>

-----------------------------------------------------------------------------
\* create_dir_all
MakeDir(r, p) ==
  LET dir == vendor[ProjectOf[r]][p] IN
  /\ phase[r] = "place"
  /\ p \in toInstall[r]
  /\ step[r][p] = "make"
  /\ SetDir(r, p, IF dir = None THEN EmptyDir ELSE dir)
  /\ SetStep(r, p, "link")
  /\ UNCHANGED <<shelf, spoiled, user, run, at, probing, refused, unsupported, recorded, phase>>

\* The next file of p, while there is one and its directory is there.
Linking(r, p) ==
  /\ phase[r] = "place"
  /\ step[r][p] = "link"
  /\ at[r][p] \in Files
  /\ vendor[ProjectOf[r]][p] # None

\* p's directory with its next file set to x.
WithNext(r, p, x) ==
  LET dir == vendor[ProjectOf[r]][p]
  IN [f \in DOMAIN dir \cup {at[r][p]} |-> IF f = at[r][p] THEN x ELSE dir[f]]

NextFile(r, p) ==
  /\ at' = [at EXCEPT ![r][p] = @ + 1]
  /\ refused' = [refused EXCEPT ![r] = @ \ {p}]

\* Opening a file for writing truncates it: a new file, or somebody's.  What
\* becomes of it when its bytes are then those of version v.
Overwrite(r, p, v) ==
  LET dir == vendor[ProjectOf[r]][p]
      f == at[r][p] IN
  IF f \in DOMAIN dir /\ dir[f].linked
  THEN /\ spoiled' = spoiled \cup {<<p, dir[f].of, f>>}
       /\ UNCHANGED vendor
  ELSE /\ SetDir(r, p, WithNext(r, p, FileOf(v, FALSE)))
       /\ UNCHANGED spoiled

\* `reflink` has something to ask.
MayReflink(r, p) ==
  /\ Linking(r, p)
  /\ ~unsupported[r]
  /\ p \notin probing[r] \cup refused[r]

\* A reflink that the file system grants: an independent copy.
Reflink(r, p) ==
  /\ MayReflink(r, p)
  /\ Overwrite(r, p, Stored(p, goal[r][p], at[r][p]))
  /\ NextFile(r, p)
  /\ UNCHANGED <<shelf, user, run, step, probing, unsupported, recorded, phase>>

\* A reflink that it does not grant: the destination is opened all the same,
\* then removed.
Probe(r, p) ==
  /\ MayReflink(r, p)
  /\ Overwrite(r, p, None)
  /\ probing' = [probing EXCEPT ![r] = @ \cup {p}]
  /\ UNCHANGED <<shelf, user, run, step, at, refused, unsupported, recorded, phase>>

\* It never will (ENOTTY, EXDEV...), or this file is refused.
Refused(r, p) ==
  LET dir == vendor[ProjectOf[r]][p] IN
  /\ p \in probing[r]
  /\ Linking(r, p)
  /\ SetDir(r, p, [f \in DOMAIN dir \ {at[r][p]} |-> dir[f]])
  /\ probing' = [probing EXCEPT ![r] = @ \ {p}]
  /\ refused' = [refused EXCEPT ![r] = @ \cup {p}]
  /\ \E never \in BOOLEAN :
       unsupported' = [unsupported EXCEPT ![r] = @ \/ never]
  /\ UNCHANGED <<shelf, spoiled, user, run, step, at, recorded, phase>>

\* No reflink for this file, or no more.
WithoutReflink(r, p) ==
  /\ Linking(r, p)
  /\ p \notin probing[r]
  /\ unsupported[r] \/ p \in refused[r]
  /\ NextFile(r, p)
  /\ UNCHANGED <<shelf, user, run, step, probing, unsupported, recorded, phase>>

HardLink(r, p) ==
  /\ WithoutReflink(r, p)
  /\ at[r][p] \notin DOMAIN vendor[ProjectOf[r]][p]
  /\ SetDir(r, p, WithNext(r, p, FileOf(goal[r][p], TRUE)))
  /\ UNCHANGED spoiled

\* link(2) finds a file there, or cannot link: fs::copy onto the destination.
Copy(r, p) ==
  /\ WithoutReflink(r, p)
  /\ Overwrite(r, p, Stored(p, goal[r][p], at[r][p]))

Placed(r, p) ==
  /\ phase[r] = "place"
  /\ step[r][p] = "link"
  /\ at[r][p] = NbFiles + 1
  /\ SetStep(r, p, "placed")
  /\ UNCHANGED <<files, user, run, at, probing, refused, unsupported, recorded, phase>>

AllPlaced(r) ==
  /\ phase[r] = "place"
  /\ \A p \in toInstall[r] : step[r][p] = "placed"
  /\ phase' = [phase EXCEPT ![r] = "state"]
  /\ UNCHANGED <<files, user, run, cursor, recorded>>

\* What a process knew is gone with it.
Forget(r) ==
  /\ goal' = [goal EXCEPT ![r] = Nothing]
  /\ toInstall' = [toInstall EXCEPT ![r] = {}]
  /\ removals' = [removals EXCEPT ![r] = {}]
  /\ step' = [step EXCEPT ![r] = [p \in Packages |-> "clear"]]
  /\ at' = [at EXCEPT ![r] = [p \in Packages |-> 1]]
  /\ probing' = [probing EXCEPT ![r] = {}]
  /\ refused' = [refused EXCEPT ![r] = {}]
  /\ unsupported' = [unsupported EXCEPT ![r] = FALSE]

\* write_state_files: installed.json, a temporary file and a rename.
WriteState(r) ==
  /\ phase[r] = "state"
  /\ recorded' = [recorded EXCEPT ![ProjectOf[r]] = goal[r]]
  /\ phase' = [phase EXCEPT ![r] = "done"]
  /\ settled' = [settled EXCEPT ![ProjectOf[r]] = TRUE]
  /\ Forget(r)
  /\ UNCHANGED <<files, lock, edits>>

\* The run is killed, or returns an error: a download that fails, a directory
\* that cannot be removed or is not there any more, a full disk.
Stop(r) ==
  /\ r \in Active
  /\ phase' = [phase EXCEPT ![r] = "stopped"]
  /\ settled' = [settled EXCEPT ![ProjectOf[r]] = FALSE]
  /\ Forget(r)
  /\ UNCHANGED <<files, lock, edits, recorded>>

-----------------------------------------------------------------------------
\* The user, between two runs.
Edit(j) ==
  /\ edits < MaxEdits
  /\ edits' = edits + 1
  /\ ActiveIn(j) = {}
  /\ Patient => settled[j]
  /\ UNCHANGED <<shelf, spoiled, settled, run, cursor, recorded, phase>>

EditLock(j, l) ==
  /\ Edit(j)
  /\ l # lock[j]
  /\ lock' = [lock EXCEPT ![j] = l]
  /\ UNCHANGED vendor

DeleteByHand(j, p) ==
  /\ HandDeletes
  /\ Edit(j)
  /\ vendor[j][p] # None
  /\ vendor' = [vendor EXCEPT ![j][p] = None]
  /\ UNCHANGED lock

-----------------------------------------------------------------------------
PackageStep(r, p) ==
  \/ Fetch(r, p)
  \/ \E f \in Files : ClearFile(r, p, f)
  \/ ClearDir(r, p)
  \/ MakeDir(r, p)
  \/ Reflink(r, p)
  \/ Probe(r, p)
  \/ Refused(r, p)
  \/ HardLink(r, p)
  \/ Copy(r, p)
  \/ Placed(r, p)

RunStep(r) ==
  \/ Begin(r)
  \/ \E p \in Packages : PackageStep(r, p)
  \/ Fetched(r)
  \/ Removed(r)
  \/ AllPlaced(r)
  \/ WriteState(r)

Next ==
  \/ \E r \in Runs : RunStep(r) \/ Stop(r)
  \/ \E j \in Projects : \E l \in Locks : EditLock(j, l)
  \/ \E j \in Projects : \E p \in Packages : DeleteByHand(j, p)

\* The operating system runs a process until it ends or is killed.
Spec ==
  /\ Init /\ [][Next]_vars
  /\ \A r \in Runs : WF_vars(r \in Active /\ RunStep(r))

-----------------------------------------------------------------------------
TypeOK ==
  /\ lock \in [Projects -> Locks]
  /\ recorded \in [Projects -> Wanted]
  /\ vendor \in [Projects -> [Packages -> Directories \cup {None}]]
  /\ shelf \subseteq Packages \X Versions
  /\ spoiled \subseteq Packages \X (Versions \cup {None}) \X Files
  /\ settled \in [Projects -> BOOLEAN]
  /\ edits \in 0 .. MaxEdits
  /\ phase \in [Runs -> Phases]
  /\ goal \in [Runs -> Wanted]
  /\ toInstall \in [Runs -> SUBSET Packages]
  /\ removals \in [Runs -> SUBSET Packages]
  /\ step \in [Runs -> [Packages -> Steps]]
  /\ at \in [Runs -> [Packages -> 1 .. NbFiles + 1]]
  /\ probing \in [Runs -> SUBSET Packages]
  /\ refused \in [Runs -> SUBSET Packages]
  /\ unsupported \in [Runs -> BOOLEAN]

\* A run that succeeds leaves every package of the lock complete, at the
\* version of the lock, and nothing of the packages that it had to remove,
\* whatever interrupted runs it comes after ("rerun after an interruption, it
\* converges", installer.rs:3).
RunConverges ==
  [][\A r \in Runs : phase[r] # "done" /\ phase'[r] = "done" =>
       \A p \in Packages :
         IF goal[r][p] = None
         THEN vendor[ProjectOf[r]][p] = None
         ELSE Complete(ProjectOf[r], p, goal[r][p])]_vars

\* Nobody writes to a file of the store through a link of some project's
\* vendor ("the store is safe", HANDOVER.md:100).
StoreIntact == spoiled = {}

\* What a program finds in project j.
Contents(j) ==
  [p \in Packages |-> IF vendor[j][p] = None THEN None
                      ELSE [f \in DOMAIN vendor[j][p] |-> Bytes(j, p, f)]]

\* What is in a project's packages is changed by the runs and the user of that
\* project alone, although projects share the files of the store.
ProjectsApart ==
  [][\A j \in Projects :
       Contents(j)' # Contents(j) => ActiveIn(j) # {} \/ edits' # edits]_vars

\* A run that is not interrupted ends, whatever state it found the files in.
RunsEnd == \A r \in Runs : r \in Active ~> phase[r] \in {"done", "stopped"}
===============================================================================
