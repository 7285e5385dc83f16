------------------------------- MODULE Commands -------------------------------
(***************************************************************************)
(* The commands require, remove, update and install, and what they do to   *)
(* composer.json, composer.lock and vendor as they go from phase to phase. *)
(* require and remove edit composer.json first, resolve and install after, *)
(* and put the old files back when a later phase fails; which failures are *)
(* followed by a restoration differs from phase to phase.                  *)
(*                                                                         *)
(* The resolution is any set of packages that holds the required ones (the *)
(* solver is the business of module Solver), the install one step (module  *)
(* Install); either may refuse, with an exit status, or throw, which skips *)
(* the rest of the command.  A dry run resolves and installs in memory.    *)
(* One section of requirements stands for require and require-dev.  Left   *)
(* out: allow-plugins, the fallback to Composer, and a process killed      *)
(* while it writes one of the files.                                       *)
(***************************************************************************)
EXTENDS Naturals

CONSTANTS Packages,
          NoFile,
          Broken,       \* a composer.lock that is not JSON
          MaxCommands   \* bound on the commands the user runs

\* "any": the "*" that require writes before it knows better.
Constraints == {"none", "any", "pinned"}

Manifests == [Packages -> Constraints]

EmptyManifest == [p \in Packages |-> "none"]

Required(manifest) == {p \in Packages : manifest[p] # "none"}

\* The manifest that the content-hash was computed from, and the packages.
Locks == [manifest : Manifests, packages : SUBSET Packages]

Kinds == {"require", "remove", "update", "install"}

ASSUME CommandsAssumption ==
  /\ NoFile \notin Manifests \cup Locks \cup {Broken}
  /\ Broken \notin Locks
  /\ MaxCommands \in Nat

\* require: the constraint of the packages in `guess` is to be found.
Requests ==
  {c \in [kind : Kinds, packages : SUBSET Packages, guess : SUBSET Packages,
          dryRun : BOOLEAN, noUpdate : BOOLEAN, noInstall : BOOLEAN] :
     /\ (c.packages # {}) <=> c.kind \in {"require", "remove"}
     /\ c.guess \subseteq IF c.kind = "require" THEN c.packages ELSE {}
     /\ c.noUpdate => c.kind \in {"require", "remove"} /\ ~c.noInstall
     /\ c.noInstall => c.kind # "install"}

NoRequest == [kind |-> "none", packages |-> {}, guess |-> {},
              dryRun |-> FALSE, noUpdate |-> FALSE, noInstall |-> FALSE]

VARIABLES json,        \* composer.json: a manifest, or NoFile
          lock,        \* composer.lock: a lock, NoFile or Broken
          installed,   \* the packages of vendor
          lockEnabled, \* config.lock
          cmd,         \* the command, which runs or was the last to run
          phase,       \* its phase
          before,      \* the files before it; its backups
          toUnlink,    \* remove: the links still to remove
          resolved,    \* the packages of the resolution
          outcome,     \* how it ended
          commands     \* commands run

files == <<json, lock, installed>>
vars == <<files, lockEnabled, cmd, phase, before, toUnlink, resolved, outcome, commands>>

Phases == {"idle", "prepare", "edit", "unlink", "resolve", "install", "finish", "hash"}

\* An exit status of the resolution or of the install, an exception there or
\* elsewhere, an exit before anything is edited, a package that stays.
Outcomes == {"none", "ok", "unsolvable", "unresolved", "failed", "thrown",
             "refused", "present"}

NewlyCreated == before.json = NoFile

Init ==
  /\ json \in {NoFile, EmptyManifest} \cup {[EmptyManifest EXCEPT ![p] = "pinned"] : p \in Packages}
  /\ lock \in {NoFile, Broken}
       \cup {[manifest |-> m, packages |-> Required(m)] :
               m \in {EmptyManifest} \cup IF json = NoFile THEN {} ELSE {json}}
  /\ installed = IF lock \in Locks THEN lock.packages ELSE {}
  /\ lockEnabled \in BOOLEAN
  /\ cmd = NoRequest
  /\ phase = "idle"
  /\ before = [json |-> json, lock |-> lock, installed |-> installed]
  /\ toUnlink = {}
  /\ resolved = {}
  /\ outcome = "none"
  /\ commands = 0

\* The command goes on to phase ph.
GoTo(ph) ==
  /\ phase' = ph
  /\ UNCHANGED <<lockEnabled, cmd, before, outcome, commands>>

End(how) ==
  /\ phase' = "idle"
  /\ outcome' = how
  /\ toUnlink' = {}
  /\ resolved' = {}
  /\ UNCHANGED <<lockEnabled, cmd, before, commands>>

FirstPhase(kind) ==
  CASE kind = "require" -> "prepare"
    [] kind = "remove" -> "unlink"
    [] kind = "update" -> "resolve"
    [] kind = "install" -> "install"

\* require creates the composer.json that is missing, the others do not start.
Run(c) ==
  /\ phase = "idle"
  /\ commands < MaxCommands
  /\ json # NoFile \/ c.kind = "require"
  /\ cmd' = c
  /\ phase' = FirstPhase(c.kind)
  /\ before' = [json |-> json, lock |-> lock, installed |-> installed]
  /\ json' = IF json = NoFile THEN EmptyManifest ELSE json
  /\ toUnlink' = IF c.kind = "remove" THEN c.packages \cap Required(json) ELSE {}
  /\ outcome' = "none"
  /\ commands' = commands + 1
  /\ UNCHANGED <<lock, installed, lockEnabled, resolved>>

\* (mutant: the lock is not put back)
RevertJson ==
  IF NewlyCreated
  THEN json' = NoFile /\ lock' = NoFile
  ELSE json' = before.json /\ lock' = lock

\* revertComposerFile: the backups, or nothing where there was no json.
Revert ==
  IF NewlyCreated
  THEN json' = NoFile /\ lock' = NoFile
  ELSE /\ json' = before.json
       /\ lock' = IF before.lock = NoFile THEN lock ELSE before.lock

-----------------------------------------------------------------------------
\* require

\* No session, no candidate for a package, an "as" by itself.
CannotPrepare ==
  /\ phase = "prepare"
  /\ IF NewlyCreated THEN Revert ELSE UNCHANGED <<json, lock>>
  /\ End("thrown")
  /\ UNCHANGED installed

Prepared ==
  /\ phase = "prepare"
  /\ GoTo("edit")
  /\ UNCHANGED <<files, toUnlink, resolved>>

\* --fixed on a library, a root that requires itself, a constraint that does
\* not parse, a manifest that the manipulator does not understand: no revert.
RefuseToEdit ==
  /\ phase = "edit"
  /\ \E how \in {"refused", "thrown"} : End(how)
  /\ UNCHANGED files

\* With --no-update the best constraint is written at once.
Edited ==
  [p \in Packages |-> CASE p \notin cmd.packages -> json[p]
                        [] p \in cmd.guess /\ ~cmd.noUpdate -> "any"
                        [] OTHER -> "pinned"]

\* (mutant: a dry run edits the file)
EditJsonAlways ==
  /\ phase = "edit"
  /\ json' = Edited
  /\ UNCHANGED <<lock, installed>>
  /\ IF cmd.noUpdate THEN End("ok")
     ELSE GoTo("resolve") /\ UNCHANGED <<toUnlink, resolved>>

EditJson ==
  /\ phase = "edit"
  /\ json' = IF cmd.dryRun THEN json ELSE Edited
  /\ UNCHANGED <<lock, installed>>
  /\ IF cmd.noUpdate THEN End("ok")
     ELSE GoTo("resolve") /\ UNCHANGED <<toUnlink, resolved>>

\* doUpdate reads the lock before it resolves.
CannotReadLock ==
  /\ phase = "resolve"
  /\ cmd.kind = "require"
  /\ lock = Broken
  /\ Revert
  /\ End("unresolved")
  /\ UNCHANGED installed

\* "config.lock is false": no revert.
CannotInstallUnlocked ==
  /\ phase = "resolve"
  /\ cmd.kind = "require"
  /\ lock # Broken
  /\ ~lockEnabled /\ ~cmd.noInstall
  /\ End("thrown")
  /\ UNCHANGED files

MayResolve ==
  /\ phase = "resolve"
  /\ cmd.kind = "require" => lock # Broken /\ (lockEnabled \/ cmd.noInstall)

-----------------------------------------------------------------------------
\* remove

RemoveLink(p) ==
  /\ phase = "unlink"
  /\ p \in toUnlink
  /\ json' = IF cmd.dryRun THEN json ELSE [json EXCEPT ![p] = "none"]
  /\ toUnlink' = toUnlink \ {p}
  /\ UNCHANGED <<lock, installed, lockEnabled, cmd, phase, before, resolved, outcome, commands>>

\* An error of the manipulator, after some links were removed: no revert.
CannotRemoveLink ==
  /\ phase = "unlink"
  /\ toUnlink # {} /\ ~cmd.dryRun
  /\ End("thrown")
  /\ UNCHANGED files

LinksRemoved ==
  /\ phase = "unlink"
  /\ toUnlink = {}
  /\ UNCHANGED files
  /\ IF cmd.noUpdate THEN End("ok")
     ELSE GoTo("resolve") /\ UNCHANGED <<toUnlink, resolved>>

\* A status that is not 0: composer.json alone is put back.
RestoreRemoved ==
  /\ json' = before.json
  /\ UNCHANGED lock

-----------------------------------------------------------------------------
\* The resolution and the install, which all commands share.

\* What an exit status makes of the files, by command.
OnStatus ==
  CASE cmd.kind = "require" -> Revert
    [] cmd.kind = "remove" -> RestoreRemoved
    [] OTHER -> UNCHANGED <<json, lock>>

Unsolvable ==
  /\ MayResolve
  /\ OnStatus
  /\ End("unsolvable")
  /\ UNCHANGED installed

\* (mutant: an exception of the resolution is passed on as it is)
ResolutionThrowsThrough ==
  /\ MayResolve
  /\ UNCHANGED files
  /\ End("unresolved")

\* An exception: only require puts the files back.
ResolutionThrows ==
  /\ MayResolve
  /\ IF cmd.kind = "require" THEN Revert ELSE UNCHANGED <<json, lock>>
  /\ End("unresolved")
  /\ UNCHANGED installed

\* The manifest that is resolved: of a dry run, the one patched in memory.
Resolvable ==
  CASE ~cmd.dryRun -> json
    [] cmd.kind = "require" -> Edited
    [] cmd.kind = "remove" ->
         [p \in Packages |-> IF p \in cmd.packages THEN "none" ELSE json[p]]
    [] OTHER -> json

ResolveAndLock(packages) ==
  /\ MayResolve
  /\ Required(Resolvable) \subseteq packages
  /\ lock' = IF lockEnabled /\ ~cmd.dryRun
             THEN [manifest |-> json, packages |-> packages]
             ELSE lock
  /\ resolved' = packages
  /\ GoTo(IF cmd.noInstall THEN "finish" ELSE "install")
  /\ UNCHANGED <<json, installed, toUnlink>>

\* The policy, the platform, a requirement that the lock misses, a plugin
\* that vivacity does not emulate: before anything is installed.
InstallRefused ==
  /\ phase = "install"
  /\ OnStatus
  /\ End("failed")
  /\ UNCHANGED installed

\* There is no lock or it does not parse, an install goes wrong half-way, or
\* the autoloader after it.
InstallThrows ==
  /\ phase = "install"
  /\ installed' \in IF cmd.dryRun \/ lock \notin Locks THEN {installed}
                    ELSE (SUBSET installed) \cup {lock.packages}
  /\ End("thrown")
  /\ UNCHANGED <<json, lock>>

Install ==
  /\ phase = "install"
  /\ lock \in Locks \/ (cmd.dryRun /\ cmd.kind # "install")
  /\ installed' = IF cmd.dryRun THEN installed ELSE lock.packages
  /\ GoTo("finish")
  /\ UNCHANGED <<json, lock, toUnlink, resolved>>

-----------------------------------------------------------------------------
\* updateRequirementsAfterResolution, or remove's look at what is installed.

ToPin == cmd.guess # {} /\ ~cmd.dryRun

\* A json created for a dry run goes; a package that stays is reported.
Finish ==
  /\ phase = "finish"
  /\ ~ToPin
  /\ json' = IF cmd.dryRun /\ NewlyCreated THEN NoFile ELSE json
  /\ End(IF cmd.kind = "remove" /\ ~cmd.dryRun /\ cmd.packages \cap installed # {}
         THEN "present" ELSE "ok")
  /\ UNCHANGED <<lock, installed>>

Pin ==
  /\ phase = "finish"
  /\ ToPin
  /\ json' = [p \in Packages |->
                IF p \in cmd.guess \cap resolved THEN "pinned" ELSE json[p]]
  /\ GoTo("hash")
  /\ UNCHANGED <<lock, installed, toUnlink, resolved>>

\* (mutant: composer.json changes after its hash was taken)
KeepHash ==
  /\ phase = "hash"
  /\ End("ok")
  /\ UNCHANGED files

UpdateHash ==
  /\ phase = "hash"
  /\ lock' = IF lock \in Locks /\ lockEnabled THEN [lock EXCEPT !.manifest = json] ELSE lock
  /\ End("ok")
  /\ UNCHANGED <<json, installed>>

\* An entry of the lock that does not load, a file that cannot be written.
CannotPin ==
  /\ phase = "hash" \/ (phase = "finish" /\ cmd.guess # {})
  /\ End("thrown")
  /\ UNCHANGED files

Next ==
  \/ \E c \in Requests : Run(c)
  \/ CannotPrepare \/ Prepared \/ RefuseToEdit \/ EditJson
  \/ CannotReadLock \/ CannotInstallUnlocked
  \/ \E p \in Packages : RemoveLink(p)
  \/ CannotRemoveLink \/ LinksRemoved
  \/ Unsolvable \/ ResolutionThrows
  \/ \E packages \in SUBSET Packages : ResolveAndLock(packages)
  \/ InstallRefused \/ InstallThrows \/ Install
  \/ Finish \/ Pin \/ UpdateHash \/ CannotPin

Spec == Init /\ [][Next]_vars

-----------------------------------------------------------------------------
TypeOK ==
  /\ json \in Manifests \cup {NoFile}
  /\ lock \in Locks \cup {NoFile, Broken}
  /\ installed \subseteq Packages
  /\ lockEnabled \in BOOLEAN
  /\ cmd \in Requests \cup {NoRequest}
  /\ phase \in Phases
  /\ before \in [json : Manifests \cup {NoFile}, lock : Locks \cup {NoFile, Broken},
                 installed : SUBSET Packages]
  /\ toUnlink \subseteq Packages
  /\ resolved \subseteq Packages
  /\ outcome \in Outcomes
  /\ commands \in 0 .. MaxCommands

Over(kind) == phase = "idle" /\ cmd.kind = kind

Matched(manifest, locked) == locked \in Locks /\ locked.manifest = manifest

Restored == json = before.json /\ lock = before.lock

\* A command that succeeds leaves a lock made from the composer.json that is
\* on disk, whatever was edited again after the lock was written
\* (require.rs, Locker::updateHash).
LockFollowsJson ==
  phase = "idle" /\ outcome = "ok" /\ cmd.kind # "install" /\ lockEnabled
  /\ ~cmd.dryRun /\ ~cmd.noUpdate
    => Matched(json, lock)

\* A require does not take a lock that matches composer.json apart, unless it
\* is told not to update or is thrown out of its last phases.
RequireKeepsMatched ==
  Over("require") /\ Matched(before.json, before.lock)
  /\ outcome \notin {"none", "thrown"} /\ ~cmd.noUpdate /\ lockEnabled
    => Matched(json, lock)

\* Where there were a composer.json and a composer.lock, a require that the
\* resolution or the install refuses leaves them as they were
\* (Files::revert); so does a remove that the resolution refuses.
FailureRestores ==
  /\ Over("require") /\ before.json # NoFile /\ before.lock # NoFile
     /\ outcome \in {"unsolvable", "unresolved", "failed", "refused"} => Restored
  /\ Over("remove") /\ outcome = "unsolvable" => Restored

\* A dry run in a project that has a composer.json changes none of its files,
\* in whatever phase it ends.
DryRunIsDry ==
  phase = "idle" /\ cmd.dryRun /\ before.json # NoFile =>
    Restored /\ installed = before.installed
===============================================================================
