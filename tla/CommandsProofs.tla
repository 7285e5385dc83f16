---------------------------- MODULE CommandsProofs ----------------------------
(***************************************************************************)
(* What a command does to the files of a project, and in which order.      *)
(*                                                                         *)
(* First that the commands keep composer.json and composer.lock together,  *)
(* for every set of packages and every number of commands.  Between the    *)
(* phases a command is in the middle of its edits: `Midway` says what the  *)
(* files then are, compared with the backups and with one another.         *)
(*                                                                         *)
(* Then that the operations of a transaction carry over what is present    *)
(* into the result, in an order in which requirements come first.          *)
(***************************************************************************)
EXTENDS Commands, Transaction, SequenceLemmas, FiniteSetTheorems

\* A command that is under way has a composer.json.
Typed == TypeOK /\ (phase # "idle" => json # NoFile)

\* Who is in which phase.
Phased ==
  /\ phase # "idle" => cmd \in Requests
  /\ phase \in {"prepare", "edit", "hash"} => cmd.kind = "require"
  /\ phase = "unlink" => cmd.kind = "remove"
  /\ phase = "hash" => ~cmd.dryRun
  /\ phase \in {"resolve", "install", "finish", "hash"} => ~cmd.noUpdate

\* What the files are in the middle of a command.
Midway ==
  /\ phase \in {"prepare", "edit"} /\ before.json # NoFile => json = before.json
  /\ phase \in {"prepare", "edit", "unlink", "resolve"} => lock = before.lock
  /\ phase # "idle" /\ cmd.dryRun =>
       /\ lock = before.lock
       /\ installed = before.installed
       /\ before.json # NoFile => json = before.json
  /\ phase \in {"install", "finish"} /\ cmd.kind # "install"
     /\ lockEnabled /\ ~cmd.dryRun => Matched(json, lock)
  /\ phase = "hash" /\ lockEnabled => lock \in Locks

\* What the commands promise, once they are over.
Promises ==
  /\ LockFollowsJson
  /\ RequireKeepsMatched
  /\ FailureRestores
  /\ DryRunIsDry

Inv == Typed /\ Phased /\ Midway /\ Promises

-----------------------------------------------------------------------------
(* Types. *)

LEMMA RequestTypes ==
  ASSUME NEW c \in Requests
  PROVE  /\ c.kind \in Kinds
         /\ c.packages \subseteq Packages
         /\ c.guess \subseteq Packages
         /\ c.dryRun \in BOOLEAN /\ c.noUpdate \in BOOLEAN /\ c.noInstall \in BOOLEAN
         /\ c.noUpdate => c.kind \in {"require", "remove"}
  BY DEF Requests, Kinds

LEMMA SomeManifests ==
  /\ EmptyManifest \in Manifests
  /\ \A m \in Manifests : \A p : [m EXCEPT ![p] = "pinned"] \in Manifests
  /\ \A m \in Manifests : \A p : [m EXCEPT ![p] = "none"] \in Manifests
  BY DEF EmptyManifest, Manifests, Constraints

LEMMA EditedType ==
  ASSUME json \in Manifests
  PROVE  Edited \in Manifests
  <1>1. \A p \in Packages : json[p] \in Constraints
    BY DEF Manifests
  <1>2. \A p \in Packages :
          (CASE p \notin cmd.packages -> json[p]
             [] p \in cmd.guess /\ ~cmd.noUpdate -> "any"
             [] OTHER -> "pinned") \in Constraints
    BY <1>1 DEF Constraints
  <1> QED BY <1>2 DEF Edited, Manifests

LEMMA InitTyped == Init => Typed
  <1> SUFFICES ASSUME Init PROVE Typed
    OBVIOUS
  <1>1. json \in Manifests \cup {NoFile}
    BY SomeManifests DEF Init
  <1>2. lock \in Locks \cup {NoFile, Broken}
    <2>1. \A m \in Manifests : [manifest |-> m, packages |-> Required(m)] \in Locks
      BY DEF Locks, Required
    <2>2. {EmptyManifest} \cup (IF json = NoFile THEN {} ELSE {json}) \subseteq Manifests
      BY <1>1, SomeManifests
    <2> QED BY <2>1, <2>2 DEF Init
  <1>3. installed \subseteq Packages
    BY <1>2 DEF Init, Locks
  <1>4. /\ lockEnabled \in BOOLEAN /\ cmd = NoRequest /\ phase = "idle"
        /\ before = [json |-> json, lock |-> lock, installed |-> installed]
        /\ toUnlink = {} /\ resolved = {} /\ outcome = "none" /\ commands = 0
    BY DEF Init
  <1> QED
    BY <1>1, <1>2, <1>3, <1>4, CommandsAssumption
    DEF Typed, TypeOK, Phases, Outcomes

LEMMA NextTyped == Typed /\ [Next]_vars => Typed'
  <1> SUFFICES ASSUME Typed, [Next]_vars PROVE Typed'
    OBVIOUS
  <1> USE DEF Typed, TypeOK
  <1>1. CASE UNCHANGED vars
    BY <1>1 DEF vars, files
  <1>2. ASSUME NEW c \in Requests, Run(c) PROVE Typed'
    <2>1. json' \in Manifests /\ json' # NoFile
      BY <1>2, SomeManifests, CommandsAssumption DEF Run
    <2>2. /\ cmd' = c /\ phase' \in Phases /\ outcome' = "none"
          /\ before' = [json |-> json, lock |-> lock, installed |-> installed]
          /\ UNCHANGED <<lock, installed, lockEnabled, resolved>>
      BY <1>2, RequestTypes DEF Run, FirstPhase, Phases, Kinds
    <2>3. toUnlink' \subseteq Packages
      BY <1>2, RequestTypes DEF Run
    <2>4. commands' \in 0 .. MaxCommands
      BY <1>2, CommandsAssumption DEF Run
    <2> QED BY <2>1, <2>2, <2>3, <2>4 DEF Outcomes
  <1>3. ASSUME Revert PROVE /\ json' \in Manifests \cup {NoFile}
                            /\ lock' \in Locks \cup {NoFile, Broken}
    BY <1>3 DEF Revert, NewlyCreated
  <1>4. ASSUME OnStatus PROVE /\ json' \in Manifests \cup {NoFile}
                              /\ lock' \in Locks \cup {NoFile, Broken}
    BY <1>3, <1>4 DEF OnStatus, RestoreRemoved
  <1> USE DEF End, GoTo, Phases, Outcomes
  <1>5. CASE CannotPrepare
    <2>1. /\ json' \in Manifests \cup {NoFile}
          /\ lock' \in Locks \cup {NoFile, Broken}
      BY <1>3, <1>5 DEF CannotPrepare
    <2> QED BY <1>5, <2>1 DEF CannotPrepare
  <1>6. CASE Prepared
    BY <1>6 DEF Prepared, files
  <1>7. CASE RefuseToEdit
    BY <1>7 DEF RefuseToEdit, files
  <1>8. CASE EditJson
    <2>1. json' \in Manifests
      BY <1>8, EditedType DEF EditJson
    <2> QED BY <1>8, <2>1, CommandsAssumption DEF EditJson
  <1>9. CASE CannotReadLock
    BY <1>3, <1>9 DEF CannotReadLock
  <1>10. CASE CannotInstallUnlocked
    BY <1>10 DEF CannotInstallUnlocked, files
  <1>11. ASSUME NEW p \in Packages, RemoveLink(p) PROVE Typed'
    <2>1. json' \in Manifests
      BY <1>11, SomeManifests DEF RemoveLink
    <2> QED BY <1>11, <2>1, CommandsAssumption DEF RemoveLink
  <1>12. CASE CannotRemoveLink
    BY <1>12 DEF CannotRemoveLink, files
  <1>13. CASE LinksRemoved
    BY <1>13 DEF LinksRemoved, files
  <1>14. CASE Unsolvable
    BY <1>4, <1>14 DEF Unsolvable
  <1>15. CASE ResolutionThrows
    <2>1. /\ json' \in Manifests \cup {NoFile}
          /\ lock' \in Locks \cup {NoFile, Broken}
      BY <1>3, <1>15 DEF ResolutionThrows
    <2> QED BY <1>15, <2>1 DEF ResolutionThrows
  <1>16. ASSUME NEW packages \in SUBSET Packages, ResolveAndLock(packages) PROVE Typed'
    <2>1. lock' \in Locks \cup {NoFile, Broken}
      BY <1>16 DEF ResolveAndLock, MayResolve, Locks
    <2> QED BY <1>16, <2>1 DEF ResolveAndLock, MayResolve
  <1>17. CASE InstallRefused
    BY <1>4, <1>17 DEF InstallRefused
  <1>18. CASE InstallThrows
    <2>1. installed' \subseteq Packages
      BY <1>18 DEF InstallThrows, Locks
    <2> QED BY <1>18, <2>1 DEF InstallThrows
  <1>19. CASE Install
    <2>1. installed' \subseteq Packages
      BY <1>19 DEF Install, Locks
    <2> QED BY <1>19, <2>1 DEF Install
  <1>20. CASE Finish
    BY <1>20 DEF Finish
  <1>21. CASE Pin
    <2>1. json' \in Manifests
      BY <1>21 DEF Pin, Manifests, Constraints
    <2> QED BY <1>21, <2>1, CommandsAssumption DEF Pin
  <1>22. CASE UpdateHash
    <2>1. lock' \in Locks \cup {NoFile, Broken}
      BY <1>22 DEF UpdateHash, Locks
    <2> QED BY <1>22, <2>1 DEF UpdateHash
  <1>23. CASE CannotPin
    BY <1>23 DEF CannotPin, files
  <1> QED
    BY <1>1, <1>2, <1>5, <1>6, <1>7, <1>8, <1>9, <1>10, <1>11, <1>12, <1>13,
       <1>14, <1>15, <1>16, <1>17, <1>18, <1>19, <1>20, <1>21, <1>22, <1>23
    DEF Next

\* The files are manifests and locks, or missing, whatever failed (TypeOK).
THEOREM CommandTypes == Spec => []TypeOK
  <1>1. Spec => []Typed
    BY InitTyped, NextTyped, PTL DEF Spec
  <1>2. Typed => TypeOK
    BY DEF Typed
  <1> QED BY <1>1, <1>2, PTL
-----------------------------------------------------------------------------
(* What is Midway, and what is promised. *)

LEMMA InitInv == Init => Inv
  <1> SUFFICES ASSUME Init PROVE Inv
    OBVIOUS
  <1>1. Typed
    BY InitTyped
  <1>2. phase = "idle" /\ outcome = "none" /\ cmd = NoRequest
    BY DEF Init
  <1>3. Phased /\ Midway
    BY <1>2 DEF Phased, Midway
  <1>4. Promises
    BY <1>2 DEF Promises, LockFollowsJson, RequireKeepsMatched, FailureRestores,
                DryRunIsDry, Over, NoRequest
  <1> QED BY <1>1, <1>3, <1>4 DEF Inv

\* In the middle of a command nothing is promised.
LEMMA NotOver == phase' # "idle" => Promises'
  BY DEF Promises, LockFollowsJson, RequireKeepsMatched, FailureRestores,
         DryRunIsDry, Over

LEMMA NotUnderWay == phase' = "idle" => Phased' /\ Midway'
  BY DEF Phased, Midway

\* What a restoration leaves of a project that had a composer.json.
LEMMA RevertRestores ==
  ASSUME Revert, before.json # NoFile
  PROVE  /\ json' = before.json
         /\ lock' = IF before.lock = NoFile THEN lock ELSE before.lock
  BY DEF Revert, NewlyCreated

LEMMA MatchedExist ==
  ASSUME NEW manifest \in Manifests \cup {NoFile}, NEW locked, Matched(manifest, locked)
  PROVE  manifest # NoFile /\ locked # NoFile
  BY CommandsAssumption DEF Matched, Locks

LEMMA NextInv == Inv /\ Typed' /\ [Next]_vars => Inv'
  <1> SUFFICES ASSUME Inv, Typed', [Next]_vars PROVE Inv'
    OBVIOUS
  <1> USE DEF Inv
  <1>1. CASE UNCHANGED vars
    BY <1>1 DEF vars, files, Phased, Midway, Promises, LockFollowsJson,
       RequireKeepsMatched, FailureRestores, DryRunIsDry, Over, Restored, Matched
  <1>2. ASSUME phase' # "idle", Phased', Midway' PROVE Inv'
    BY <1>2, NotOver
  <1>3. ASSUME phase' = "idle", Promises' PROVE Inv'
    BY <1>3, NotUnderWay
  <1> USE DEF End, GoTo
  <1>4. ASSUME NEW c \in Requests, Run(c) PROVE Inv'
    <2>1. phase' # "idle" /\ Phased'
      BY <1>4, RequestTypes DEF Run, FirstPhase, Phased, Kinds
    <2>2. Midway'
      BY <1>4, RequestTypes DEF Run, FirstPhase, Midway, Kinds
    <2> QED BY <1>2, <2>1, <2>2
  <1>5. ASSUME phase' = "idle", UNCHANGED <<cmd, before, lockEnabled>>, 
               cmd.kind = "require", Revert, UNCHANGED installed,
               outcome' \in {"unsolvable", "unresolved", "failed", "thrown"},
               cmd.dryRun => installed = before.installed /\ lock = before.lock
        PROVE  Promises'
    <2>1. before.json # NoFile => json' = before.json
      BY <1>5, RevertRestores
    <2>2. before.json # NoFile /\ before.lock # NoFile => Restored'
      BY <1>5, RevertRestores DEF Restored
    <2>3. ASSUME Matched(before.json, before.lock) PROVE Matched(json', lock')
      <3>1. before.json # NoFile /\ before.lock # NoFile
        BY <2>3, MatchedExist DEF Typed, TypeOK
      <3> QED BY <1>5, <2>2, <2>3, <3>1 DEF Restored
    <2>4. DryRunIsDry'
      BY <1>5, <2>1, <2>2, RevertRestores DEF DryRunIsDry, Restored
    <2> QED
      BY <1>5, <2>2, <2>3, <2>4
      DEF Promises, LockFollowsJson, RequireKeepsMatched, FailureRestores, Over
  <1>6. ASSUME phase' = "idle", UNCHANGED <<cmd, before, lockEnabled>>,
               outcome' = "thrown", UNCHANGED <<json, lock>>,
               cmd.dryRun => installed' = before.installed /\ lock = before.lock
                             /\ (before.json # NoFile => json = before.json)
        PROVE  Promises'
    BY <1>6
    DEF Promises, LockFollowsJson, RequireKeepsMatched, FailureRestores,
        DryRunIsDry, Over, Restored
  <1>7. CASE CannotPrepare
    <2>1. phase = "prepare" /\ cmd.kind = "require" /\ phase' = "idle" /\ outcome' = "thrown"
          /\ UNCHANGED <<cmd, before, lockEnabled, installed>>
      BY <1>7 DEF CannotPrepare, Phased
    <2>2. cmd.dryRun => installed = before.installed /\ lock = before.lock
                        /\ (before.json # NoFile => json = before.json)
      BY <2>1 DEF Midway
    <2>3. CASE NewlyCreated
      BY <1>3, <1>5, <1>7, <2>1, <2>2, <2>3 DEF CannotPrepare
    <2>4. CASE ~NewlyCreated
      BY <1>3, <1>6, <1>7, <2>1, <2>2, <2>4 DEF CannotPrepare
    <2> QED BY <2>3, <2>4
  <1>8. CASE Prepared
    BY <1>2, <1>8 DEF Prepared, files, Phased, Midway
  <1>9. CASE RefuseToEdit
    <2>1. /\ phase = "edit" /\ cmd.kind = "require" /\ phase' = "idle"
          /\ outcome' \in {"refused", "thrown"} /\ UNCHANGED files
          /\ UNCHANGED <<cmd, before, lockEnabled>>
      BY <1>9 DEF RefuseToEdit, Phased
    <2>2. lock = before.lock /\ (before.json # NoFile => json = before.json)
          /\ (cmd.dryRun => installed = before.installed)
      BY <2>1 DEF Midway
    <2>3. before.json # NoFile => Restored'
      BY <2>1, <2>2 DEF Restored, files
    <2>4. RequireKeepsMatched'
      BY <2>1, <2>3, MatchedExist DEF RequireKeepsMatched, Over, Restored
    <2>5. DryRunIsDry'
      BY <2>1, <2>2, <2>3 DEF DryRunIsDry, files
    <2>6. Promises'
      BY <2>1, <2>3, <2>4, <2>5 DEF Promises, LockFollowsJson, FailureRestores, Over
    <2> QED BY <1>3, <2>1, <2>6
  <1>10. CASE EditJson
    <2>1. CASE cmd.noUpdate
      <3>1. /\ phase = "edit" /\ cmd.kind = "require" /\ phase' = "idle"
            /\ outcome' = "ok" /\ UNCHANGED <<lock, installed, cmd, before>>
            /\ cmd.dryRun => json' = json
        BY <1>10, <2>1 DEF EditJson, Phased
      <3>2. Promises'
        BY <2>1, <3>1
        DEF Midway, Promises, LockFollowsJson, RequireKeepsMatched,
            FailureRestores, DryRunIsDry, Over, Restored
      <3> QED BY <1>3, <3>1, <3>2
    <2>2. CASE ~cmd.noUpdate
      <3>1. Phased' /\ Midway' /\ phase' = "resolve"
        BY <1>10, <2>2 DEF EditJson, Phased, Midway
      <3> QED BY <1>2, <3>1
    <2> QED BY <2>1, <2>2
  <1>11. CASE CannotReadLock
    <2>1. /\ phase = "resolve" /\ cmd.kind = "require" /\ phase' = "idle"
          /\ outcome' = "unresolved" /\ Revert
          /\ UNCHANGED <<cmd, before, lockEnabled, installed>>
      BY <1>11 DEF CannotReadLock
    <2>2. cmd.dryRun => installed = before.installed /\ lock = before.lock
      BY <2>1 DEF Midway
    <2> QED BY <1>3, <1>5, <2>1, <2>2
  <1>12. CASE CannotInstallUnlocked
    <2>1. phase # "idle" /\ phase' = "idle" /\ outcome' = "thrown"
          /\ UNCHANGED <<cmd, before, lockEnabled, json, lock, installed>>
      BY <1>12 DEF CannotInstallUnlocked, files
    <2> QED BY <1>3, <1>6, <2>1 DEF Midway
  <1>13. ASSUME NEW p \in Packages, RemoveLink(p) PROVE Inv'
    <2>1. Phased' /\ Midway' /\ phase' # "idle"
      BY <1>13 DEF RemoveLink, Phased, Midway
    <2> QED BY <1>2, <2>1
  <1>14. CASE CannotRemoveLink
    <2>1. phase # "idle" /\ phase' = "idle" /\ outcome' = "thrown"
          /\ UNCHANGED <<cmd, before, lockEnabled, json, lock, installed>>
      BY <1>14 DEF CannotRemoveLink, files
    <2> QED BY <1>3, <1>6, <2>1 DEF Midway
  <1>15. CASE LinksRemoved
    <2>1. CASE cmd.noUpdate
      <3>1. /\ phase = "unlink" /\ cmd.kind = "remove" /\ phase' = "idle"
            /\ outcome' = "ok" /\ UNCHANGED <<json, lock, installed, cmd, before>>
        BY <1>15, <2>1 DEF LinksRemoved, Phased, files
      <3>2. Promises'
        BY <2>1, <3>1
        DEF Midway, Promises, LockFollowsJson, RequireKeepsMatched,
            FailureRestores, DryRunIsDry, Over, Restored
      <3> QED BY <1>3, <3>1, <3>2
    <2>2. CASE ~cmd.noUpdate
      <3>1. Phased' /\ Midway' /\ phase' = "resolve"
        BY <1>15, <2>2 DEF LinksRemoved, files, Phased, Midway
      <3> QED BY <1>2, <3>1
    <2> QED BY <2>1, <2>2
  <1>16. ASSUME phase \in {"resolve", "install"}, OnStatus, End("unsolvable") \/ End("failed"),
                phase = "install" => End("failed"), UNCHANGED installed
         PROVE  Inv'
    <2>1. /\ phase' = "idle" /\ outcome' \in {"unsolvable", "failed"}
          /\ UNCHANGED <<cmd, before, lockEnabled, installed>>
      BY <1>16
    <2>2. cmd.dryRun => installed = before.installed /\ lock = before.lock
                        /\ (before.json # NoFile => json = before.json)
      BY <1>16 DEF Midway
    <2>3. CASE cmd.kind = "require"
      BY <1>3, <1>5, <1>16, <2>1, <2>2, <2>3 DEF OnStatus
    <2>4. CASE cmd.kind = "remove"
      <3>1. json' = before.json /\ lock' = lock
        BY <1>16, <2>4 DEF OnStatus, RestoreRemoved
      <3>2. outcome' = "unsolvable" => lock = before.lock
        BY <1>16 DEF Midway
      <3>3. Promises'
        BY <2>1, <2>2, <2>4, <3>1, <3>2
        DEF Promises, LockFollowsJson, RequireKeepsMatched, FailureRestores,
            DryRunIsDry, Over, Restored
      <3> QED BY <1>3, <2>1, <3>3
    <2>5. CASE cmd.kind \notin {"require", "remove"}
      <3>1. UNCHANGED <<json, lock>>
        BY <1>16, <2>5 DEF OnStatus
      <3>2. Promises'
        BY <2>1, <2>2, <2>5, <3>1
        DEF Promises, LockFollowsJson, RequireKeepsMatched, FailureRestores,
            DryRunIsDry, Over, Restored
      <3> QED BY <1>3, <2>1, <3>2
    <2> QED BY <2>3, <2>4, <2>5
  <1>17. CASE Unsolvable
    BY <1>16, <1>17 DEF Unsolvable, MayResolve
  <1>18. CASE ResolutionThrows
    <2>1. /\ phase = "resolve" /\ phase' = "idle" /\ outcome' = "unresolved"
          /\ UNCHANGED <<cmd, before, lockEnabled, installed>>
      BY <1>18 DEF ResolutionThrows, MayResolve
    <2>2. cmd.dryRun => installed = before.installed /\ lock = before.lock
                        /\ (before.json # NoFile => json = before.json)
      BY <2>1 DEF Midway
    <2>3. CASE cmd.kind = "require"
      BY <1>3, <1>5, <1>18, <2>1, <2>2, <2>3 DEF ResolutionThrows
    <2>4. CASE cmd.kind # "require"
      <3>1. UNCHANGED <<json, lock>>
        BY <1>18, <2>4 DEF ResolutionThrows
      <3>2. Promises'
        BY <2>1, <2>2, <2>4, <3>1
        DEF Promises, LockFollowsJson, RequireKeepsMatched, FailureRestores,
            DryRunIsDry, Over, Restored
      <3> QED BY <1>3, <2>1, <3>2
    <2> QED BY <2>3, <2>4
  <1>19. ASSUME NEW packages \in SUBSET Packages, ResolveAndLock(packages) PROVE Inv'
    <2>1. phase = "resolve" /\ phase' \in {"install", "finish"}
          /\ UNCHANGED <<json, installed, cmd, before, lockEnabled>>
      BY <1>19 DEF ResolveAndLock, MayResolve
    <2>2. cmd.dryRun => lock' = lock
      BY <1>19 DEF ResolveAndLock
    <2>3. json \in Manifests
      BY <2>1 DEF Typed, TypeOK
    <2>4. lockEnabled /\ ~cmd.dryRun => Matched(json', lock')
      BY <1>19, <2>1, <2>3 DEF ResolveAndLock, Matched, Locks
    <2>5. Phased' /\ Midway'
      BY <2>1, <2>2, <2>4 DEF Phased, Midway
    <2> QED BY <1>2, <2>1, <2>5
  <1>20. CASE InstallRefused
    BY <1>16, <1>20 DEF InstallRefused
  <1>21. CASE InstallThrows
    <2>1. /\ phase = "install" /\ phase' = "idle" /\ outcome' = "thrown"
          /\ UNCHANGED <<cmd, before, lockEnabled, json, lock>>
          /\ cmd.dryRun => installed' = installed
      BY <1>21 DEF InstallThrows
    <2> QED BY <1>3, <1>6, <2>1 DEF Midway
  <1>22. CASE Install
    <2>1. /\ phase = "install" /\ phase' = "finish"
          /\ UNCHANGED <<cmd, before, lockEnabled, json, lock>>
          /\ cmd.dryRun => installed' = installed
      BY <1>22 DEF Install
    <2>2. Phased' /\ Midway'
      BY <2>1 DEF Phased, Midway, Matched
    <2> QED BY <1>2, <2>1, <2>2
  <1>23. CASE Finish
    <2>1. /\ phase = "finish" /\ phase' = "idle" /\ outcome' \in {"ok", "present"}
          /\ UNCHANGED <<cmd, before, lockEnabled, lock, installed>>
          /\ json' = IF cmd.dryRun /\ NewlyCreated THEN NoFile ELSE json
          /\ cmd.kind = "require" => outcome' = "ok"
      BY <1>23 DEF Finish
    <2>2. ~cmd.noUpdate
      BY <2>1 DEF Phased
    <2>3. Promises'
      BY <2>1, <2>2
      DEF Midway, Promises, LockFollowsJson, RequireKeepsMatched, FailureRestores,
          DryRunIsDry, Over, Restored, NewlyCreated, Matched
    <2> QED BY <1>3, <2>1, <2>3
  <1>24. CASE Pin
    <2>1. /\ phase = "finish" /\ phase' = "hash" /\ ~cmd.dryRun /\ cmd.guess # {}
          /\ UNCHANGED <<cmd, before, lockEnabled, lock, installed>>
      BY <1>24 DEF Pin, ToPin
    <2>2. cmd \in Requests
      BY <2>1 DEF Phased
    <2>3. cmd.kind = "require"
      BY <2>1, <2>2 DEF Requests
    <2>4. lockEnabled => lock \in Locks
      BY <2>1, <2>3 DEF Midway, Matched
    <2>5. Phased' /\ Midway'
      BY <2>1, <2>3, <2>4 DEF Phased, Midway
    <2> QED BY <1>2, <2>1, <2>5
  <1>25. CASE UpdateHash
    <2>1. /\ phase = "hash" /\ phase' = "idle" /\ outcome' = "ok"
          /\ UNCHANGED <<cmd, before, lockEnabled, json, installed>>
      BY <1>25 DEF UpdateHash
    <2>2. ~cmd.dryRun /\ json \in Manifests
      BY <2>1 DEF Phased, Typed, TypeOK
    <2>3. lockEnabled => Matched(json', lock')
      BY <1>25, <2>1, <2>2 DEF UpdateHash, Midway, Matched, Locks
    <2>4. Promises'
      BY <2>1, <2>2, <2>3
      DEF Promises, LockFollowsJson, RequireKeepsMatched, FailureRestores,
          DryRunIsDry, Over
    <2> QED BY <1>3, <2>1, <2>4
  <1>26. CASE CannotPin
    <2>1. phase # "idle" /\ phase' = "idle" /\ outcome' = "thrown"
          /\ UNCHANGED <<cmd, before, lockEnabled, json, lock, installed>>
      BY <1>26 DEF CannotPin, files
    <2> QED BY <1>3, <1>6, <2>1 DEF Midway
  <1> QED
    BY <1>1, <1>4, <1>7, <1>8, <1>9, <1>10, <1>11, <1>12, <1>13, <1>14, <1>15,
       <1>17, <1>18, <1>19, <1>20, <1>21, <1>22, <1>23, <1>24, <1>25, <1>26
    DEF Next

LEMMA CommandsInvariant == Spec => []Inv
  <1>1. Inv => Typed
    BY DEF Inv
  <1>2. Inv /\ [Next]_vars => Inv'
    BY <1>1, NextTyped, NextInv
  <1> QED BY InitInv, <1>2, PTL DEF Spec

\* After a command that succeeds the lock is made from the composer.json on
\* disk (require.rs, updateRequirementsAfterResolution).
THEOREM SuccessLeavesAFreshLock == Spec => []LockFollowsJson
  BY CommandsInvariant, PTL DEF Inv, Promises

\* No refusal of a require takes a matching lock and composer.json apart
\* (require.rs, Files::revert).
THEOREM RefusalsKeepThemTogether == Spec => []RequireKeepsMatched
  BY CommandsInvariant, PTL DEF Inv, Promises

\* Failures restore both files where both were there (require.rs, revert;
\* lib.rs, run_remove).
THEOREM FailuresRestore == Spec => []FailureRestores
  BY CommandsInvariant, PTL DEF Inv, Promises

\* A dry run changes nothing in a project that has a composer.json.
THEOREM DryRunsAreDry == Spec => []DryRunIsDry
  BY CommandsInvariant, PTL DEF Inv, Promises

-----------------------------------------------------------------------------
(***************************************************************************)
(* The transaction.                                                        *)
(***************************************************************************)

(***************************************************************************)
(* Instances.                                                              *)
(***************************************************************************)

\* What the assumption says of the instance at hand.
LEMMA InstanceFacts ==
  ASSUME inst \in Instances
  PROVE  /\ Results \subseteq DOMAIN inst.arena /\ Present \subseteq DOMAIN inst.arena
         /\ inst.result \in Seq(Results) /\ inst.present \in Seq(Present)
         /\ Distinct(inst.result) /\ Distinct(inst.present)
         /\ \A i, j \in Results : SameKey(i, j) => i = j
         /\ \A i, j \in Present : SameKey(i, j) => i = j
         /\ \A id \in DOMAIN inst.arena :
              /\ Package(id).name \in Range(NameOrder)
              /\ Package(id).version \in Nat
              /\ Package(id).requires \in Seq(Range(Package(id).requires))
         /\ \A id \in Results :
              IsAlias(Package(id)) =>
                LET base == Package(id).alias_of IN
                /\ base \in Results
                /\ ~IsAlias(Package(base))
                /\ Package(base).name = Package(id).name
                /\ RequiresOf(base) = RequiresOf(id)
                /\ NamesOf(base) = NamesOf(id)
<1> DEFINE arena == inst.arena
<1>1. IsInstance(inst)
  BY TransactionAssumption
<1>2. \A ids \in {inst.present, inst.result} :
        /\ ids \in Seq(DOMAIN arena)
        /\ \A k, n \in DOMAIN ids : HaveOneKey(arena[ids[k]], arena[ids[n]]) => k = n
  BY <1>1 DEF IsInstance
<1>3. ASSUME NEW ids \in {inst.present, inst.result}
      PROVE  /\ Range(ids) \subseteq DOMAIN arena /\ ids \in Seq(Range(ids)) /\ Distinct(ids)
             /\ \A i, j \in Range(ids) : SameKey(i, j) => i = j
  <2>1. ids \in Seq(DOMAIN arena)
    BY <1>2
  <2>2. Range(ids) \subseteq DOMAIN arena /\ ids \in Seq(Range(ids))
    BY <2>1, RangeOf, SeqOfRange
  <2>3. DOMAIN ids = 1 .. Len(ids)
    BY <2>1, LenProperties
  <2>4. \A k, n \in 1 .. Len(ids) : SameKey(ids[k], ids[n]) => k = n
    BY <1>2, <2>3 DEF SameKey, Package
  <2>5. \A i : SameKey(i, i)
    BY DEF SameKey, HaveOneKey
  <2>6. Distinct(ids)
    BY <2>4, <2>5 DEF Distinct
  <2>7. ASSUME NEW i \in Range(ids), NEW j \in Range(ids), SameKey(i, j)
        PROVE  i = j
    <3>1. PICK k \in 1 .. Len(ids) : ids[k] = i
      BY <2>1, RangeOf
    <3>2. PICK n \in 1 .. Len(ids) : ids[n] = j
      BY <2>1, RangeOf
    <3> QED
      BY <3>1, <3>2, <2>4, <2>7
  <2> QED
    BY <2>2, <2>6, <2>7
<1>4. \A id \in DOMAIN arena :
              /\ Package(id).name \in Range(NameOrder)
              /\ Package(id).version \in Nat
              /\ Package(id).requires \in Seq(Range(Package(id).requires))
  BY <1>1 DEF IsInstance, Package
<1>5. \A id \in Results :
              IsAlias(Package(id)) =>
                LET base == Package(id).alias_of IN
                /\ base \in Results
                /\ ~IsAlias(Package(base))
                /\ Package(base).name = Package(id).name
                /\ RequiresOf(base) = RequiresOf(id)
                /\ NamesOf(base) = NamesOf(id)
  BY <1>1 DEF IsInstance, Package, Results, RequiresOf, NamesOf
<1> HIDE DEF arena
<1> QED
  BY <1>3, <1>4, <1>5 DEF Results, Present, arena

LEMMA RankFacts ==
  /\ \A n \in Range(NameOrder) : Rank(n) \in Nat
  /\ \A m, n \in Range(NameOrder) : Rank(m) = Rank(n) => m = n
<1>1. DOMAIN NameOrder = 1 .. Len(NameOrder) /\ Len(NameOrder) \in Nat
  BY TransactionAssumption, LenProperties
<1>2. ASSUME NEW n \in Range(NameOrder)
      PROVE  Rank(n) \in DOMAIN NameOrder /\ NameOrder[Rank(n)] = n
  <2>1. \E k \in DOMAIN NameOrder : NameOrder[k] = n
    BY DEF Range
  <2> QED
    BY <2>1 DEF Rank
<1>3. ASSUME NEW n \in Range(NameOrder) PROVE Rank(n) \in Nat
  BY <1>1, <1>2
<1> QED
  BY <1>2, <1>3

\* The order in which the packages of the result are sorted is strict and total.
LEMMA SortFacts ==
  ASSUME inst \in Instances
  PROVE  /\ \A i \in Results : ~SortsBefore(i, i)
         /\ \A i, j \in Results : i = j \/ SortsBefore(i, j) \/ SortsBefore(j, i)
         /\ \A i, j, k \in Results : SortsBefore(i, j) /\ SortsBefore(j, k) => SortsBefore(i, k)
<1> DEFINE n(i) == Package(i).name
           r(i) == Rank(n(i))
           a(i) == IsAlias(Package(i))
           v(i) == Package(i).version
<1>1. \A i \in Results : r(i) \in Nat /\ v(i) \in Nat
  BY InstanceFacts, RankFacts
<1>2. \A i, j \in Results : n(i) = n(j) <=> r(i) = r(j)
  BY InstanceFacts, RankFacts
<1>3. \A i, j \in Results : SortsBefore(i, j) <=>
         \/ r(i) > r(j)
         \/ r(i) = r(j) /\ a(i) /\ ~a(j)
         \/ r(i) = r(j) /\ (a(i) <=> a(j)) /\ v(i) > v(j)
  <2> SUFFICES ASSUME NEW i \in Results, NEW j \in Results
               PROVE  SortsBefore(i, j) <=>
                         \/ r(i) > r(j)
                         \/ r(i) = r(j) /\ a(i) /\ ~a(j)
                         \/ r(i) = r(j) /\ (a(i) <=> a(j)) /\ v(i) > v(j)
    OBVIOUS
  <2>1. SortsBefore(i, j) <=> IF n(i) # n(j) THEN r(i) > r(j)
                              ELSE IF a(i) # a(j) THEN a(i) ELSE v(i) > v(j)
    BY DEF SortsBefore
  <2>2. a(i) \in BOOLEAN /\ a(j) \in BOOLEAN
    BY DEF IsAlias
  <2>3. r(i) \in Nat /\ r(j) \in Nat /\ (n(i) = n(j) <=> r(i) = r(j))
    BY <1>1, <1>2
  <2> HIDE DEF n, r, a, v
  <2> QED
    BY <2>1, <2>2, <2>3
<1>4. ASSUME NEW i \in Results, NEW j \in Results,
             n(i) = n(j), a(i) <=> a(j), v(i) = v(j)
      PROVE  i = j
  <2>1. a(i) \in BOOLEAN /\ a(j) \in BOOLEAN
    BY DEF IsAlias
  <2>2. a(i) = a(j)
    BY <2>1, <1>4
  <2>3. SameKey(i, j)
    BY <1>4, <2>2 DEF SameKey, HaveOneKey
  <2> QED
    BY <2>3, InstanceFacts
<1> HIDE DEF n, r, a, v
<1>5. \A i \in Results : ~SortsBefore(i, i)
  BY <1>1, <1>3
<1>6. \A i, j \in Results : i = j \/ SortsBefore(i, j) \/ SortsBefore(j, i)
  BY <1>1, <1>2, <1>3, <1>4
<1>7. \A i, j, k \in Results : SortsBefore(i, j) /\ SortsBefore(j, k) => SortsBefore(i, k)
  BY <1>1, <1>3
<1> QED
  BY <1>5, <1>6, <1>7

\* Every alias has the package it is for after it.
BasesAbove(s) ==
  \A k \in 1 .. Len(s) :
    IsAlias(Package(s[k])) => \E n \in k + 1 .. Len(s) : s[n] = Package(s[k]).alias_of

\* As it has when, wherever both are, the alias is first.
AliasesFirst(s) ==
  \A id \in Range(s) :
    IsAlias(Package(id)) => /\ Package(id).alias_of \in Range(s)
                            /\ Ahead(s, id, Package(id).alias_of)

LEMMA AliasesFirstBasesAbove ==
  ASSUME NEW S, NEW s \in Seq(S), AliasesFirst(s)
  PROVE  BasesAbove(s)
<1>1. Len(s) \in Nat
  BY LenProperties
<1> SUFFICES ASSUME NEW k \in 1 .. Len(s), IsAlias(Package(s[k]))
             PROVE  \E n \in k + 1 .. Len(s) : s[n] = Package(s[k]).alias_of
  BY DEF BasesAbove
<1>2. s[k] \in Range(s)
  BY RangeOf
<1>3. Package(s[k]).alias_of \in Range(s) /\ Ahead(s, s[k], Package(s[k]).alias_of)
  BY <1>2 DEF AliasesFirst
<1>4. PICK n \in 1 .. Len(s) : s[n] = Package(s[k]).alias_of
  BY <1>3, RangeOf
<1>5. k < n
  BY <1>3, <1>4 DEF Ahead
<1> QED
  BY <1>1, <1>4, <1>5

\* The sorted result has all of the result, an alias before its package.
LEMMA SortedResult ==
  ASSUME inst \in Instances
  PROVE  ResultMap \in Seq(Results) /\ Range(ResultMap) = Results /\ AliasesFirst(ResultMap)
<1> DEFINE N == Len(inst.result)
           Before(id) == {i \in Results : SortsBefore(i, id)}
           c == [id \in Results |-> Cardinality(Before(id))]
<1>1. inst.result \in Seq(Results) /\ Distinct(inst.result)
  BY InstanceFacts
<1>2. N \in Nat /\ DOMAIN inst.result = 1 .. N /\ inst.result \in [1 .. N -> Results]
  BY <1>1, LenProperties
<1>2a. N \in Nat
  BY <1>2
<1>2b. /\ \A i \in Results : ~SortsBefore(i, i)
       /\ \A i, j \in Results : i = j \/ SortsBefore(i, j) \/ SortsBefore(j, i)
  BY SortFacts
<1>3. IsFiniteSet(Results) /\ Cardinality(Results) = N
  <2>1. inst.result \in Bijection(1 .. N, Results)
    <3>1. \A i, j \in 1 .. N : inst.result[i] = inst.result[j] => i = j
      BY <1>1 DEF Distinct
    <3>2. \A x \in Results : \E i \in 1 .. N : inst.result[i] = x
      BY <1>1, RangeOf DEF Results
    <3> QED
      BY <3>1, <3>2, <1>2 DEF Bijection, Injection, Surjection, IsInjective
  <2> QED
    BY <2>1, <1>2, FS_CountingElements, FS_NatBijection DEF ExistsBijection
<1>4. \A id \in Results : IsFiniteSet(Before(id)) /\ c[id] = Cardinality(Before(id)) /\ c[id] \in Nat
  BY <1>3, FS_Subset, FS_CardinalityType
<1>4a. \A id \in Results : c[id] \in Nat
  BY <1>4
<1>5. ASSUME NEW i \in Results, NEW j \in Results, SortsBefore(i, j)
      PROVE  c[i] < c[j]
  <2>1. Before(i) \subseteq Before(j) /\ i \in Before(j) /\ i \notin Before(i)
    BY <1>5, SortFacts
  <2>2. Cardinality(Before(i)) < Cardinality(Before(j))
    BY <2>1, <1>4, FS_Subset
  <2> QED
    BY <2>2, <1>4
<1>6. \A i \in Results : c[i] < N
  <2> SUFFICES ASSUME NEW i \in Results PROVE c[i] < N
    OBVIOUS
  <2>1. Before(i) \subseteq Results /\ Before(i) # Results
    BY <1>2b
  <2>2. /\ Cardinality(Before(i)) <= Cardinality(Results)
        /\ Cardinality(Before(i)) # Cardinality(Results)
    BY <2>1, <1>3, FS_Subset
  <2>3. c[i] <= N /\ c[i] # N
    BY <2>2, <1>3, <1>4
  <2> QED
    BY <2>3, <1>2a, <1>4a
<1> HIDE DEF c
<1>7. \A i, j \in Results : c[i] = c[j] => i = j
  <2> SUFFICES ASSUME NEW i \in Results, NEW j \in Results, c[i] = c[j], i # j PROVE FALSE
    OBVIOUS
  <2>1. c[i] < c[j] \/ c[j] < c[i]
    BY <1>2b, <1>5
  <2>2. c[i] \in Nat /\ c[j] \in Nat
    BY <1>4a
  <2> QED
    BY <2>1, <2>2
<1>8. \A k \in 0 .. N - 1 : \E id \in Results : c[id] = k
  <2> DEFINE I == {c[id] : id \in Results}
  <2>1. c \in [Results -> 0 .. N - 1]
    <3>1. \A id \in Results : c[id] \in 0 .. N - 1
      BY <1>2a, <1>4a, <1>6
    <3>2. c = [id \in Results |-> c[id]]
      BY DEF c
    <3> QED
      BY <3>1, <3>2
  <2>2. I \subseteq 0 .. N - 1
    BY <2>1
  <2>3. c \in Bijection(Results, I)
    <3>1. c \in [Results -> I]
      BY <2>1
    <3> QED
      BY <3>1, <1>7 DEF Bijection, Injection, Surjection, IsInjective
  <2>4. Cardinality(I) = N
    BY <2>3, <1>3, FS_Bijection DEF ExistsBijection
  <2>5. IsFiniteSet(0 .. N - 1) /\ Cardinality(0 .. N - 1) = N
    <3>1. /\ IsFiniteSet(0 .. N - 1)
          /\ Cardinality(0 .. N - 1) = IF 0 > N - 1 THEN 0 ELSE (N - 1) - 0 + 1
      <4>1. 0 \in Int /\ N - 1 \in Int
        BY <1>2a
      <4> QED
        BY <4>1, FS_Interval
    <3> QED
      BY <3>1, <1>2a
  <2>6. I = 0 .. N - 1
    BY <2>2, <2>4, <2>5, FS_Subset
  <2> QED
    BY <2>6
<1> DEFINE m == ResultMap
<1>9. m = [k \in 1 .. N |-> CHOOSE id \in Results : Cardinality(Before(id)) = k - 1]
  BY <1>2 DEF ResultMap
<1> HIDE DEF m
<1>10. ASSUME NEW k \in 1 .. N
       PROVE  m[k] \in Results /\ c[m[k]] = k - 1
  <2>1. k - 1 \in 0 .. N - 1
    BY <1>2
  <2>2. \E id \in Results : Cardinality(Before(id)) = k - 1
    BY <2>1, <1>4, <1>8
  <2>3. m[k] = CHOOSE id \in Results : Cardinality(Before(id)) = k - 1
    BY <1>9
  <2> QED
    BY <2>2, <2>3, <1>4
<1>11. m \in Seq(Results) /\ Len(m) = N
  <2>1. m \in [1 .. N -> Results]
    BY <1>9, <1>10
  <2> QED
    BY <2>1, <1>2
<1>12. \A id \in Results : c[id] + 1 \in 1 .. N /\ m[c[id] + 1] = id
  <2> SUFFICES ASSUME NEW id \in Results PROVE c[id] + 1 \in 1 .. N /\ m[c[id] + 1] = id
    OBVIOUS
  <2>1. c[id] + 1 \in 1 .. N /\ (c[id] + 1) - 1 = c[id]
    <3>1. c[id] \in Nat /\ c[id] < N
      BY <1>4a, <1>6
    <3> QED
      BY <3>1, <1>2a
  <2> QED
    BY <2>1, <1>7, <1>10
<1>13. Range(m) = Results
  BY <1>11, <1>12, RangeOf
<1>14. ASSUME NEW id \in Results, IsAlias(Package(id))
       PROVE  Package(id).alias_of \in Results /\ Ahead(m, id, Package(id).alias_of)
  <2> DEFINE base == Package(id).alias_of
  <2>1. base \in Results /\ ~IsAlias(Package(base)) /\ Package(base).name = Package(id).name
    BY <1>14, InstanceFacts
  <2>2. SortsBefore(id, base)
    BY <2>1, <1>14 DEF SortsBefore
  <2>3. c[id] < c[base] /\ c[id] \in Nat /\ c[base] \in Nat
    BY <2>1, <2>2, <1>5, <1>4a
  <2> HIDE DEF base
  <2>4. ASSUME NEW i \in 1 .. N, NEW j \in 1 .. N, m[i] = id, m[j] = base
        PROVE  i < j
    <3>1. c[id] = i - 1 /\ c[base] = j - 1
      BY <2>4, <1>10
    <3> QED
      BY <3>1, <2>3, <1>2a
  <2> QED
    BY <2>1, <2>4, <1>11 DEF Ahead, base
<1> QED
  BY <1>11, <1>13, <1>14 DEF m, AliasesFirst

-----------------------------------------------------------------------------
(***************************************************************************)
(* What a package has the walk push.                                       *)
(***************************************************************************)

\* The map of the result is the sorted result.
MapInv ==
  /\ inst \in Instances
  /\ result_map \in Seq(Results) /\ Range(result_map) = Results /\ AliasesFirst(result_map)

LEMMA ProvidersFacts ==
  ASSUME MapInv, NEW target
  PROVE  /\ Providers(target) \in Seq(Results)
         /\ Range(Providers(target)) = {q \in Results : target \in NamesOf(q)}
         /\ BasesAbove(Providers(target))
<1> DEFINE S == {q \in Results : target \in NamesOf(q)}
           s == Selected(result_map, S)
<1>1. result_map \in Seq(Results) /\ Range(result_map) = Results /\ AliasesFirst(result_map)
  BY DEF MapInv
<1>2. Providers(target) = s
  BY DEF Providers
<1>3. /\ s \in Seq(Results) /\ Range(s) = S
      /\ \A a, b : Ahead(result_map, a, b) => Ahead(s, a, b)
  BY <1>1, SelectedKeeps
<1> HIDE DEF s
<1>4. AliasesFirst(s)
  <2> SUFFICES ASSUME NEW id \in S, IsAlias(Package(id))
               PROVE  Package(id).alias_of \in S /\ Ahead(s, id, Package(id).alias_of)
    BY <1>3 DEF AliasesFirst
  <2>1. /\ Package(id).alias_of \in Results
        /\ NamesOf(Package(id).alias_of) = NamesOf(id)
    BY InstanceFacts DEF MapInv
  <2>2. Ahead(result_map, id, Package(id).alias_of)
    BY <1>1 DEF AliasesFirst
  <2> QED
    BY <2>1, <2>2, <1>3
<1> QED
  BY <1>2, <1>3, <1>4, AliasesFirstBasesAbove

LEMMA JoinedBasesAbove ==
  ASSUME NEW S, NEW s \in Seq(S), NEW t \in Seq(S), BasesAbove(s), BasesAbove(t)
  PROVE  BasesAbove(s \o t)
<1>1. /\ Len(s) \in Nat /\ Len(t) \in Nat
      /\ Len(s \o t) = Len(s) + Len(t)
      /\ \A i \in 1 .. Len(s) : (s \o t)[i] = s[i]
      /\ \A i \in 1 .. Len(t) : (s \o t)[Len(s) + i] = t[i]
  BY JoinedElements
<1> DEFINE u == s \o t
<1> HIDE DEF u
<1> SUFFICES ASSUME NEW k \in 1 .. Len(u), IsAlias(Package(u[k]))
             PROVE  \E n \in k + 1 .. Len(u) : u[n] = Package(u[k]).alias_of
  BY DEF BasesAbove, u
<1>2. CASE k \in 1 .. Len(s)
  <2>1. u[k] = s[k]
    BY <1>1, <1>2 DEF u
  <2>2. PICK n \in k + 1 .. Len(s) : s[n] = Package(s[k]).alias_of
    BY <1>2, <2>1 DEF BasesAbove
  <2>3. n \in 1 .. Len(s) /\ n \in k + 1 .. Len(u)
    BY <1>1, <1>2 DEF u
  <2> QED
    BY <2>1, <2>2, <2>3, <1>1 DEF u
<1>3. CASE k \notin 1 .. Len(s)
  <2> DEFINE i == k - Len(s)
  <2>1. i \in 1 .. Len(t) /\ Len(s) + i = k
    BY <1>1, <1>3 DEF u
  <2>2. u[k] = t[i]
    BY <1>1, <2>1 DEF u
  <2>3. PICK n \in i + 1 .. Len(t) : t[n] = Package(t[i]).alias_of
    BY <2>1, <2>2 DEF BasesAbove
  <2>4. n \in 1 .. Len(t) /\ Len(s) + n \in k + 1 .. Len(u)
    BY <1>1, <1>3, <2>1 DEF u
  <2>5. u[Len(s) + n] = Package(u[k]).alias_of
    BY <2>2, <2>3, <2>4, <1>1 DEF u
  <2> QED
    BY <2>4, <2>5
<1> QED
  BY <1>2, <1>3

\* What the recursive function of Pushed computes, up to n.
PushesAll(f, requires, n) ==
  f = [k \in 0 .. n |-> IF k = 0 THEN <<>> ELSE f[k - 1] \o Providers(requires[k].target)]

LEMMA PushesAllExists ==
  ASSUME NEW requires, NEW n \in Nat
  PROVE  \E f : PushesAll(f, requires, n)
<1> DEFINE T == {k \in Nat : ~\E f : PushesAll(f, requires, k)}
<1> SUFFICES ASSUME T # {} PROVE FALSE
  OBVIOUS
<1>1. PICK k \in T : \A j \in T : k <= j
  BY LeastNumber
<1>2. CASE k = 0
  <2>1. PushesAll([i \in 0 .. 0 |-> <<>>], requires, 0)
    BY DEF PushesAll
  <2> QED
    BY <2>1, <1>2
<1>3. CASE k > 0
  <2>1. k - 1 \in Nat /\ k - 1 \notin T
    BY <1>1, <1>3
  <2>2. PICK f : PushesAll(f, requires, k - 1)
    BY <2>1
  <2> DEFINE p(i) == Providers(requires[i].target)
             g == [i \in 0 .. k |-> IF i < k THEN f[i] ELSE f[k - 1] \o p(k)]
             h == [i \in 0 .. k |-> IF i = 0 THEN <<>> ELSE g[i - 1] \o p(i)]
  <2> HIDE DEF p
  <2>3. \A i \in 0 .. k - 1 : g[i] = f[i]
    BY <1>3
  <2>4. ASSUME NEW i \in 0 .. k
        PROVE  g[i] = h[i]
    <3>1. CASE i = k
      BY <3>1, <1>3, <2>3
    <3>2. CASE i < k
      <4>1. i \in 0 .. k - 1 /\ (i # 0 => i - 1 \in 0 .. k - 1)
        BY <3>2
      <4>2. f[i] = IF i = 0 THEN <<>> ELSE f[i - 1] \o p(i)
        BY <4>1, <2>2 DEF PushesAll, p
      <4> QED
        BY <4>1, <4>2, <2>3
    <3> QED
      BY <3>1, <3>2
  <2>5. DOMAIN g = 0 .. k /\ DOMAIN h = 0 .. k
    OBVIOUS
  <2>6. g = h
    BY <2>4, <2>5
  <2> HIDE DEF g
  <2>7. PushesAll(g, requires, k)
    BY <2>6 DEF PushesAll, p
  <2> QED
    BY <2>7
<1> QED
  BY <1>1, <1>2, <1>3

\* A package has the providers of its requirements pushed, an alias its package,
\* and an alias is never the last of those of a name.
LEMMA PushedFacts ==
  ASSUME MapInv, NEW id \in Results
  PROVE  /\ Pushed(id) \in Seq(Results)
         /\ IsAlias(Package(id)) => Range(Pushed(id)) = {Package(id).alias_of}
         /\ ~IsAlias(Package(id)) =>
              Range(Pushed(id)) = {q \in Results : RequiresOf(id) \cap NamesOf(q) # {}}
         /\ BasesAbove(Pushed(id))
<1>0. inst \in Instances
  BY DEF MapInv
<1>1. CASE IsAlias(Package(id))
  <2> DEFINE base == Package(id).alias_of
  <2>1. base \in Results /\ ~IsAlias(Package(base))
    BY <1>0, <1>1, InstanceFacts
  <2>2. Pushed(id) = <<base>>
    BY <1>1 DEF Pushed
  <2> HIDE DEF base
  <2>3. <<base>> \in Seq(Results) /\ Len(<<base>>) = 1 /\ <<base>>[1] = base
    BY <2>1
  <2>4. Range(<<base>>) = {base}
    <3>1. \A i : i \in 1 .. 1 <=> i = 1
      OBVIOUS
    <3>2. \A x : x \in Range(<<base>>) <=> \E i \in 1 .. 1 : <<base>>[i] = x
      BY <2>3, RangeOf
    <3> QED
      BY <3>1, <3>2, <2>3
  <2>5. BasesAbove(<<base>>)
    BY <2>1, <2>3 DEF BasesAbove
  <2> QED
    BY <2>2, <2>3, <2>4, <2>5, <1>1 DEF base
<1>2. CASE ~IsAlias(Package(id))
  <2> DEFINE requires == Package(id).requires
             N == Len(requires)
             f == CHOOSE g : PushesAll(g, requires, N)
             Good(n) ==
               /\ f[n] \in Seq(Results)
               /\ \A q : q \in Range(f[n]) <=>
                    q \in Results /\ \E k \in 1 .. n : requires[k].target \in NamesOf(q)
               /\ BasesAbove(f[n])
  <2>1. requires \in Seq(Range(requires))
    BY <1>0, InstanceFacts DEF Results
  <2>2. N \in Nat /\ DOMAIN requires = 1 .. N
    BY <2>1, LenProperties
  <2>3. PushesAll(f, requires, N)
    BY <2>2, PushesAllExists
  <2>4. Pushed(id) = f[N]
    BY <1>2 DEF Pushed, PushesAll
  <2> HIDE DEF f, N
  <2> DEFINE T == {n \in 0 .. N : ~Good(n)}
  <2>5. T = {}
    <3> SUFFICES ASSUME T # {} PROVE FALSE
      OBVIOUS
    <3>1. T \in SUBSET Nat
      BY <2>2
    <3>2. PICK n \in T : \A m \in T : n <= m
      BY <3>1, LeastNumber
    <3>3. f[n] = IF n = 0 THEN <<>> ELSE f[n - 1] \o Providers(requires[n].target)
      BY <2>3 DEF PushesAll
    <3>4. CASE n = 0
      <4>1. f[n] = <<>> /\ Len(f[n]) = 0 /\ f[n] \in Seq(Results)
        BY <3>3, <3>4, EmptySeq
      <4>2. \A i \in 1 .. 0 : FALSE
        OBVIOUS
      <4>3. \A q : q \notin Range(f[n])
        BY <4>1, <4>2, RangeOf
      <4> QED
        BY <4>1, <4>2, <4>3, <3>4 DEF BasesAbove
    <3>5. CASE n # 0
      <4> DEFINE s == f[n - 1]
                 t == Providers(requires[n].target)
      <4>1. n \in 1 .. N /\ n - 1 \in 0 .. N /\ ~(n <= n - 1)
        BY <2>2, <3>5
      <4>2. Good(n - 1)
        <5>1. n - 1 \notin T
          BY <3>2, <4>1
        <5> QED
          BY <5>1, <4>1
      <4>3. /\ t \in Seq(Results)
            /\ \A q : q \in Range(t) <=> q \in Results /\ requires[n].target \in NamesOf(q)
            /\ BasesAbove(t)
        BY ProvidersFacts
      <4>4. f[n] = s \o t
        BY <3>3, <3>5
      <4> HIDE DEF t
      <4>5. f[n] \in Seq(Results) /\ Range(f[n]) = Range(s) \cup Range(t)
        BY <4>2, <4>3, <4>4, ConcatProperties, JoinedRange
      <4>6. BasesAbove(f[n])
        BY <4>2, <4>3, <4>4, JoinedBasesAbove
      <4>7. \A k \in 1 .. n : k \in 1 .. n - 1 \/ k = n
        BY <4>1, <2>2
      <4>8. n \in 1 .. n /\ \A k \in 1 .. n - 1 : k \in 1 .. n
        BY <4>1, <2>2
      <4>9. \A q : q \in Range(f[n]) <=>
                    q \in Results /\ \E k \in 1 .. n : requires[k].target \in NamesOf(q)
        BY <4>2, <4>3, <4>5, <4>7, <4>8
      <4> QED
        BY <4>5, <4>6, <4>9
    <3> QED
      BY <3>4, <3>5
  <2>6. Good(N)
    BY <2>2, <2>5
  <2>7. RequiresOf(id) = {requires[k].target : k \in 1 .. N}
    BY <2>2 DEF RequiresOf, TargetsOf
  <2>8. \A q : RequiresOf(id) \cap NamesOf(q) # {} <=>
               \E k \in 1 .. N : requires[k].target \in NamesOf(q)
    BY <2>7
  <2> QED
    BY <2>4, <2>6, <2>8, <1>2
<1> QED
  BY <1>1, <1>2

-----------------------------------------------------------------------------
(***************************************************************************)
(* The invariant.                                                          *)
(***************************************************************************)

OpTypes == {"install", "update", "uninstall", "mark_alias_installed", "mark_alias_uninstalled"}

Ops == [type : OpTypes, from : Present \cup {0}, package : Results \cup Present]

Requirable == UNION {NonPlatformRequires(id) : id \in Results}

TypesInv ==
  /\ at \in {"roots", "walk", "plugins", "done"}
  /\ cursor \in Nat
  /\ roots \in Seq(Results) /\ stack \in Seq(Results)
  /\ visited \in SUBSET Results /\ processed \in SUBSET visited
  /\ remove_map \in Seq(Present) /\ remove_alias_map \in Seq(Present)
  /\ operations \in Seq(Ops)
  /\ needed \in [{"dl", "plugin"} -> SUBSET Requirable]
  /\ moved \in [Lists -> Seq(Ops)]
  /\ at = "roots" => visited = {} /\ operations = <<>>
  /\ at \in {"roots", "walk"} =>
       /\ needed = [why \in {"dl", "plugin"} |-> {}]
       /\ moved = [list \in Lists |-> <<>>]
       /\ taken = {}

\* From the roots the walk comes to every package of the result.
RootsInv ==
  \A X \in SUBSET Results :
    ClosedUnderWalk(X) /\ Range(roots) \subseteq X => Results \subseteq X

\* id is on the stack at k: what it pushed is processed or above it, and all that
\* is above it is there because of what it pushed.
Opened(id, k) ==
  /\ stack[k] = id
  /\ \A q \in Range(Pushed(id)) : q \in processed \/ \E j \in k + 1 .. Len(stack) : stack[j] = q
  /\ \A X \in SUBSET Results :
       ClosedUnderWalk(X) /\ Range(Pushed(id)) \subseteq X =>
         \A j \in k + 1 .. Len(stack) : stack[j] \in X

BaseOf(id) == Package(id).alias_of

WalkInv ==
  /\ at = "walk" => Range(roots) \subseteq visited \cup Range(stack)
  /\ \A id \in visited : Range(Pushed(id)) \subseteq visited \cup Range(stack)
  /\ \A id \in visited \ processed : \E k \in 1 .. Len(stack) : Opened(id, k)
  /\ \A k \in 1 .. Len(stack) :
       IsAlias(Package(stack[k])) /\ stack[k] \in visited =>
         \/ BaseOf(stack[k]) \in processed
         \/ \E j \in k + 1 .. Len(stack) : stack[j] = BaseOf(stack[k])

\* What the packages of P change.
IsChange(op, P) ==
  LET id == op.package IN
  /\ id \in P
  /\ \/ /\ op = Operation("install", 0, id)
        /\ ~IsAlias(Package(id)) /\ PresentWithKey(id) = {}
     \/ /\ op = Operation("update", op.from, id)
        /\ ~IsAlias(Package(id)) /\ op.from \in PresentWithKey(id) /\ Differs(id, op.from)
     \/ /\ op = Operation("mark_alias_installed", 0, id)
        /\ IsAlias(Package(id)) /\ PresentWithKey(id) = {}

IsGone(i, P) == i \in Present /\ \A id \in P : ~SameKey(i, id)

IsRemoval(op) ==
  /\ IsGone(op.package, Results)
  /\ op = Operation(IF IsAlias(Package(op.package)) THEN "mark_alias_uninstalled" ELSE "uninstall",
                    0, op.package)

MapsInv ==
  /\ Distinct(remove_map) /\ Distinct(remove_alias_map)
  /\ \A i \in Present :
       /\ i \in Range(remove_map) <=> ~IsAlias(Package(i)) /\ IsGone(i, processed)
       /\ i \in Range(remove_alias_map) <=> IsAlias(Package(i)) /\ IsGone(i, processed)

\* b comes because of a, or after it.
MustPrecede(a, b) ==
  LET id == b.package IN
  /\ Places(a)
  /\ \/ Places(b) /\ ~OnCycle(id) /\ a.package \in Range(Pushed(id))
     \/ b.type = "mark_alias_installed" /\ a.package = BaseOf(id)

WalkedOps ==
  /\ \A op \in Ops : op \in Range(operations) <=> IsChange(op, processed)
  /\ \A a \in Ops, b \in Range(operations) :
       MustPrecede(a, b) => a.package \in processed /\ Ahead(operations, a, b)

AllOps ==
  \A op \in Ops : op \in Range(operations) <=> IsChange(op, Results) \/ IsRemoval(op)

RangesOf(lists) == UNION {Range(moved[list]) : list \in lists}

DlLists == {"dl_no_deps", "dl_with_deps"}
PluginLists == {"plugins_no_deps", "plugins_with_deps"}
AloneLists == {"dl_no_deps", "plugins_no_deps"}

PackagesOf(ops) == {op.package : op \in ops}

\* a puts in place what b requires, the platform apart.
Provides(a, b) == NamesOf(a.package) \cap NonPlatformRequires(b.package) # {}

Wanted(X) == UNION {NonPlatformRequires(id) : id \in X}

\* The lists have the operations taken, in the order of the operations.
ListsInv ==
  /\ cursor \in 0 .. Len(operations)
  /\ taken \subseteq cursor + 1 .. Len(operations)
  /\ RangesOf(Lists) = {operations[k] : k \in taken}
  /\ \A list, other \in Lists : list # other => Range(moved[list]) \cap Range(moved[other]) = {}
  /\ \A list \in Lists : InOrder(operations, moved[list])
  /\ \A k \in taken : Places(operations[k])

\* The operation at k, when the loop has passed it, was taken if it is a plugin; and
\* when it was taken, so was what the loop met after it and what it requires.
PassedInv(k) ==
  LET op == operations[k] IN
  Places(op) =>
    /\ IsDlPlugin(op.package) => op \in RangesOf(DlLists)
    /\ IsPlugin(op.package) => op \in RangesOf(Lists)
    /\ op \in RangesOf(DlLists) =>
         /\ NonPlatformRequires(op.package) \subseteq needed["dl"]
         /\ \A n \in cursor + 1 .. k - 1 :
              Places(operations[n]) /\ Provides(operations[n], op) =>
                operations[n] \in RangesOf(DlLists)
    /\ op \in RangesOf(PluginLists) =>
         /\ NonPlatformRequires(op.package) \subseteq needed["plugin"]
         /\ \A n \in cursor + 1 .. k - 1 :
              Places(operations[n]) /\ Provides(operations[n], op) =>
                operations[n] \in RangesOf(Lists)
    /\ op \in RangesOf(AloneLists) => NonPlatformRequires(op.package) = {}

\* Only plugins and what they need were taken.
TakenInv ==
  \A X \in SUBSET Results :
    /\ HasWithNeeds(X, {"dl_plugin"}) =>
         PackagesOf(RangesOf(DlLists)) \subseteq X /\ needed["dl"] \subseteq Wanted(X)
    /\ HasWithNeeds(X, PluginTypes) =>
         /\ PackagesOf(RangesOf(Lists)) \subseteq X
         /\ needed["dl"] \cup needed["plugin"] \subseteq Wanted(X)

MovesInv ==
  /\ ListsInv
  /\ \A k \in cursor + 1 .. Len(operations) : PassedInv(k)
  /\ TakenInv

Exempt(a, b) ==
  /\ NeededByPlugins(b.package)
  /\ NonPlatformRequires(b.package) \cap NamesOf(a.package) = {}

\* The order in the end.
DoneInv ==
  /\ \A a, b \in Range(operations) :
       MustPrecede(a, b) /\ ~(Places(b) /\ Exempt(a, b)) => Ahead(operations, a, b)
  /\ \A types \in {{"dl_plugin"}, PluginTypes}, X \in SUBSET Results :
       HasWithNeeds(X, types) =>
         \A a, b \in Range(operations) :
           /\ Places(a) /\ Places(b)
           /\ Package(b.package).type \in types
           /\ a.package \notin X
           => Ahead(operations, b, a)

WalkStateInv ==
  /\ MapInv /\ TypesInv /\ RootsInv
  /\ Distinct(operations)
  /\ at \in {"roots", "walk"} => WalkInv /\ MapsInv /\ WalkedOps
  /\ at \in {"plugins", "done"} => AllOps
  /\ at = "plugins" =>
       /\ \A a, b \in Range(operations) : MustPrecede(a, b) => Ahead(operations, a, b)
       /\ MovesInv
  /\ at = "done" => DoneInv

-----------------------------------------------------------------------------
(***************************************************************************)
(* The beginning, and the roots.                                           *)
(***************************************************************************)

LEMMA RemovedMaps ==
  ASSUME MapInv, TypesInv, NEW id \in Results,
         NEW map \in Seq(Present)
  PROVE  /\ Without(map, id) \in Seq(Present)
         /\ Range(Without(map, id)) = {i \in Range(map) : ~SameKey(i, id)}
         /\ Distinct(map) => Distinct(Without(map, id))
<1> DEFINE S == {i \in Present : ~SameKey(i, id)}
<1>1. /\ Selected(map, S) \in Seq(Present)
      /\ Range(Selected(map, S)) = Range(map) \cap S
      /\ Distinct(map) => Distinct(Selected(map, S))
  BY SelectedKeeps
<1>2. Range(map) \subseteq Present
  BY RangeOf
<1> QED
  BY <1>1, <1>2 DEF Without

LEMMA WalkInitState ==
  ASSUME WalkInit
  PROVE  WalkStateInv
<1>0. inst \in Instances
  BY DEF WalkInit
<1>1. MapInv
  BY <1>0, SortedResult DEF MapInv, WalkInit
<1>2. inst.present \in Seq(Present) /\ Distinct(inst.present) /\ Range(inst.present) = Present
  BY <1>0, InstanceFacts DEF Present
<1>3. /\ remove_map \in Seq(Present) /\ Distinct(remove_map)
      /\ Range(remove_map) = {i \in Present : ~IsAlias(Package(i))}
  <2> DEFINE S == {i \in Present : ~IsAlias(Package(i))}
  <2>1. remove_map = Selected(inst.present, S)
    BY DEF WalkInit
  <2>2. Present \cap S = S
    OBVIOUS
  <2> HIDE DEF S
  <2> QED
    BY <2>1, <2>2, <1>2, SelectedKeeps DEF S
<1>4. /\ remove_alias_map \in Seq(Present) /\ Distinct(remove_alias_map)
      /\ Range(remove_alias_map) = {i \in Present : IsAlias(Package(i))}
  <2> DEFINE S == {i \in Present : IsAlias(Package(i))}
  <2>1. remove_alias_map = Selected(inst.present, S)
    BY DEF WalkInit
  <2>2. Present \cap S = S
    OBVIOUS
  <2> HIDE DEF S
  <2> QED
    BY <2>1, <2>2, <1>2, SelectedKeeps DEF S
<1>5. /\ \A S : <<>> \in Seq(S) /\ Len(<<>>) = 0 /\ Range(<<>>) = {}
  <2> SUFFICES ASSUME NEW S PROVE <<>> \in Seq(S) /\ Len(<<>>) = 0 /\ Range(<<>>) = {}
    OBVIOUS
  <2>1. <<>> \in Seq(S) /\ Len(<<>>) = 0
    BY EmptySeq
  <2>2. \A i \in 1 .. 0 : FALSE
    OBVIOUS
  <2> QED
    BY <2>1, <2>2, RangeOf
<1>6. TypesInv
  <2>1. needed \in [{"dl", "plugin"} -> SUBSET Requirable]
    BY DEF WalkInit
  <2>2. moved \in [Lists -> Seq(Ops)]
    BY <1>5 DEF WalkInit
  <2>3. roots \in Seq(Results) /\ stack \in Seq(Results) /\ operations \in Seq(Ops)
    BY <1>1, <1>5 DEF WalkInit, MapInv
  <2> QED
    BY <1>3, <1>4, <2>1, <2>2, <2>3 DEF TypesInv, WalkInit
<1>7. RootsInv
  BY <1>1 DEF RootsInv, MapInv, WalkInit
<1>8. Distinct(operations)
  BY <1>5 DEF Distinct, WalkInit
<1>9. at = "roots" /\ visited = {} /\ processed = {} /\ stack = <<>> /\ operations = <<>>
  BY DEF WalkInit
<1>10. \A i \in 1 .. 0 : FALSE
  OBVIOUS
<1>11. WalkInv
  BY <1>9, <1>5, <1>10 DEF WalkInv
<1>12. MapsInv
  BY <1>3, <1>4, <1>9 DEF MapsInv, IsGone
<1>13. WalkedOps
  <2>1. \A op \in Ops : ~IsChange(op, {})
    BY DEF IsChange
  <2> QED
    BY <1>9, <1>5, <2>1 DEF WalkedOps
<1> QED
  BY <1>1, <1>6, <1>7, <1>8, <1>9, <1>11, <1>12, <1>13 DEF WalkStateInv

\* A root that strikes leaves a way to what it strikes: the package it is, or is
\* an alias of, pushes it.
LEMMA StrikeRootsStep ==
  ASSUME WalkStateInv, StrikeRoots
  PROVE  roots' \in Seq(Results) /\ RootsInv'
<1> DEFINE id == result_map[cursor]
           struck == {r \in Results \ {id} : RequiresOf(id) \cap NamesOf(r) # {}}
<1>1. MapInv /\ inst \in Instances /\ roots \in Seq(Results) /\ RootsInv
  BY DEF WalkStateInv, MapInv, TypesInv
<1>2. inst' = inst /\ result_map' = result_map
  BY DEF StrikeRoots
<1>3. id \in Results
  <2>1. DOMAIN result_map = 1 .. Len(result_map)
    BY <1>1, LenProperties DEF MapInv
  <2> QED
    BY <2>1, <1>1, ElementOfSeq DEF StrikeRoots, MapInv
<1>4. roots' = IF Strikes(id) THEN Selected(roots, Results \ struck) ELSE roots
  BY DEF StrikeRoots
<1> HIDE DEF id, struck
<1>5. \A q \in Results : Pushed(q)' = Pushed(q)
  BY <1>2 DEF Pushed, Package, Providers, Results, NamesOf
<1>6. Results' = Results
  BY <1>2 DEF Results
<1>7. CASE Strikes(id)
  <2>1. /\ roots' \in Seq(Results)
        /\ Range(roots') = Range(roots) \cap (Results \ struck)
    BY <1>1, <1>4, <1>7, SelectedKeeps
  <2>2. Range(roots) \subseteq Results
    BY <1>1, RangeOf
  <2>3. id \in Range(roots')
    BY <2>1, <1>3, <1>7 DEF Strikes, struck
  <2>4. ASSUME NEW X \in SUBSET Results, ClosedUnderWalk(X), Range(roots') \subseteq X
        PROVE  Results \subseteq X
    <3>1. PICK p \in X : ~IsAlias(Package(p)) /\ RequiresOf(p) = RequiresOf(id)
      <4>1. CASE ~IsAlias(Package(id))
        BY <4>1, <2>3, <2>4
      <4>2. CASE IsAlias(Package(id))
        <5>1. Range(Pushed(id)) = {Package(id).alias_of} /\ Range(Pushed(id)) \subseteq X
          BY <4>2, <1>1, <1>3, <2>3, <2>4, PushedFacts DEF ClosedUnderWalk
        <5> QED
          BY <5>1, <4>2, <1>1, <1>3, InstanceFacts
      <4> QED
        BY <4>1, <4>2
    <3>2. {q \in Results : RequiresOf(id) \cap NamesOf(q) # {}} \subseteq X
      <4>1. Range(Pushed(p)) = {q \in Results : RequiresOf(p) \cap NamesOf(q) # {}}
        BY <3>1, <2>4, <1>1, PushedFacts
      <4>2. Range(Pushed(p)) \subseteq X
        BY <2>4 DEF ClosedUnderWalk
      <4> QED
        BY <4>1, <4>2, <3>1
    <3>3. Range(roots) \subseteq X
      BY <2>1, <2>2, <2>4, <3>2 DEF struck
    <3> QED
      BY <3>3, <2>4, <1>1 DEF RootsInv
  <2>5. \A X \in SUBSET Results : ClosedUnderWalk(X)' <=> ClosedUnderWalk(X)
    BY <1>5 DEF ClosedUnderWalk
  <2> QED
    BY <2>1, <2>4, <2>5, <1>6 DEF RootsInv
<1>8. CASE ~Strikes(id)
  <2>1. roots' = roots
    BY <1>4, <1>8
  <2>2. \A X \in SUBSET Results : ClosedUnderWalk(X)' <=> ClosedUnderWalk(X)
    BY <1>5 DEF ClosedUnderWalk
  <2> QED
    BY <2>1, <2>2, <1>1, <1>6 DEF RootsInv
<1> QED
  BY <1>7, <1>8

-----------------------------------------------------------------------------
(***************************************************************************)
(* The walk.                                                               *)
(***************************************************************************)

\* What only depends on the instance stays.
LEMMA InstanceStays ==
  ASSUME inst' = inst, result_map' = result_map
  PROVE  /\ Results' = Results /\ Present' = Present /\ Ops' = Ops /\ Requirable' = Requirable
         /\ \A id : Package(id)' = Package(id) /\ NamesOf(id)' = NamesOf(id)
                    /\ RequiresOf(id)' = RequiresOf(id) /\ Pushed(id)' = Pushed(id)
                    /\ PresentWithKey(id)' = PresentWithKey(id) /\ BaseOf(id)' = BaseOf(id)
                    /\ (OnCycle(id)' <=> OnCycle(id))
         /\ \A X : ClosedUnderWalk(X)' <=> ClosedUnderWalk(X)
         /\ \A i, j : SameKey(i, j)' <=> SameKey(i, j)
         /\ \A i, P : IsGone(i, P)' <=> IsGone(i, P)
         /\ \A op, P : IsChange(op, P)' <=> IsChange(op, P)
         /\ \A op : IsRemoval(op)' <=> IsRemoval(op)
         /\ \A a, b : MustPrecede(a, b)' <=> MustPrecede(a, b)
         /\ MapInv' <=> MapInv
<1>1. /\ Results' = Results /\ Present' = Present
      /\ \A id : Package(id)' = Package(id)
  BY DEF Results, Present, Package
<1>2. \A id : /\ NamesOf(id)' = NamesOf(id) /\ RequiresOf(id)' = RequiresOf(id)
              /\ BaseOf(id)' = BaseOf(id)
  BY <1>1 DEF NamesOf, RequiresOf, BaseOf
<1>3. \A i, j : SameKey(i, j)' <=> SameKey(i, j)
  BY <1>1 DEF SameKey
<1>4. \A id : PresentWithKey(id)' = PresentWithKey(id)
  BY <1>1, <1>3 DEF PresentWithKey
<1>5. \A id : Pushed(id)' = Pushed(id)
  BY DEF Pushed, Package, Providers, Results, NamesOf
<1>6. \A X : ClosedUnderWalk(X)' <=> ClosedUnderWalk(X)
  BY <1>5 DEF ClosedUnderWalk
<1>7. \A id : OnCycle(id)' <=> OnCycle(id)
  BY <1>1, <1>5, <1>6 DEF OnCycle
<1>8. \A i, P : IsGone(i, P)' <=> IsGone(i, P)
  BY <1>1, <1>3 DEF IsGone
<1>9. \A op, P : IsChange(op, P)' <=> IsChange(op, P)
  BY <1>1, <1>4 DEF IsChange, Differs
<1>10. \A op : IsRemoval(op)' <=> IsRemoval(op)
  BY <1>1, <1>8 DEF IsRemoval
<1>11. \A a, b : MustPrecede(a, b)' <=> MustPrecede(a, b)
  BY <1>2, <1>5, <1>7 DEF MustPrecede
<1>12. Ops' = Ops /\ Requirable' = Requirable
  BY <1>1, <1>2 DEF Ops, Requirable, NonPlatformRequires
<1>13. MapInv' <=> MapInv
  BY <1>1 DEF MapInv, AliasesFirst
<1> QED
  BY <1>1, <1>2, <1>3, <1>4, <1>5, <1>6, <1>7, <1>8, <1>9, <1>10, <1>11, <1>12, <1>13

\* The top of the stack, when it was visited, is processed or will have been.
LEMMA PopWalk ==
  ASSUME MapInv, TypesInv, WalkInv, NEW id \in visited,
         Walking(id), Pop, WalkUnchanged, visited' = visited, processed' = processed \cup {id}
  PROVE  stack' \in Seq(Results) /\ WalkInv'
<1> DEFINE n == Len(stack)
<1>1. /\ n \in Nat \ {0} /\ id = stack[n]
      /\ stack' \in Seq(Results) /\ Len(stack') = n - 1
      /\ \A i \in 1 .. n - 1 : stack'[i] = stack[i]
      /\ Range(stack) = Range(stack') \cup {id}
  <2>1. stack \in Seq(Results) /\ stack # <<>> /\ stack' = Front(stack) /\ id = Last(stack)
    BY DEF TypesInv, Walking, Pop
  <2> QED
    BY <2>1, FrontFacts
<1>2. inst' = inst /\ result_map' = result_map /\ roots' = roots /\ at' = at
  BY DEF WalkUnchanged
<1>3. \A i \in 1 .. n : i \in 1 .. n - 1 \/ i = n
  BY <1>1
<1>4. \A k \in 1 .. n - 1 : /\ k \in 1 .. n
                            /\ \A j \in k + 1 .. n : j \in k + 1 .. n - 1 \/ j = n
                            /\ \A j \in k + 1 .. n - 1 : j \in 1 .. n - 1 /\ j \in k + 1 .. n
  <2>1. n \in Nat \ {0}
    BY <1>1
  <2> HIDE DEF n
  <2> QED
    BY <2>1
<1>5. at' = "walk" => Range(roots)' \subseteq visited' \cup Range(stack)'
  BY <1>1, <1>2 DEF WalkInv
<1>6. \A v \in visited' : Range(Pushed(v))' \subseteq visited' \cup Range(stack)'
  BY <1>1, <1>2, InstanceStays DEF WalkInv
<1>7. ASSUME NEW v \in visited' \ processed'
      PROVE  \E k \in 1 .. Len(stack') : Opened(v, k)'
  <2>1. v # id /\ v \in visited \ processed
    BY <1>7
  <2>2. PICK k \in 1 .. n : Opened(v, k)
    BY <2>1 DEF WalkInv
  <2>3. k \in 1 .. n - 1
    BY <2>1, <2>2, <1>1, <1>3 DEF Opened
  <2>4. stack'[k] = v
    BY <2>2, <2>3, <1>1 DEF Opened
  <2>5. ASSUME NEW q \in Range(Pushed(v)), q \notin processed'
        PROVE  \E j \in k + 1 .. n - 1 : stack'[j] = q
    <3>1. PICK j \in k + 1 .. n : stack[j] = q
      BY <2>2, <2>5 DEF Opened
    <3>2. j # n
      BY <3>1, <2>5, <1>1
    <3> QED
      BY <3>1, <3>2, <2>3, <1>1, <1>4
  <2>6. ASSUME NEW X \in SUBSET Results, ClosedUnderWalk(X), Range(Pushed(v)) \subseteq X,
               NEW j \in k + 1 .. n - 1
        PROVE  stack'[j] \in X
    BY <2>2, <2>3, <2>6, <1>1, <1>4 DEF Opened
  <2>7. Opened(v, k)'
    BY <2>4, <2>5, <2>6, <1>1, <1>2, InstanceStays DEF Opened
  <2> QED
    BY <2>3, <2>7, <1>1
<1>8. ASSUME NEW k \in 1 .. n - 1, IsAlias(Package(stack'[k])), stack'[k] \in visited,
             BaseOf(stack'[k]) \notin processed'
      PROVE  \E j \in k + 1 .. n - 1 : stack'[j] = BaseOf(stack'[k])
  <2>1. stack'[k] = stack[k] /\ k \in 1 .. n
    BY <1>1, <1>4
  <2>2. PICK j \in k + 1 .. n : stack[j] = BaseOf(stack[k])
    BY <2>1, <1>8 DEF WalkInv
  <2>3. j # n
    BY <2>1, <2>2, <1>1, <1>8
  <2> QED
    BY <2>1, <2>2, <2>3, <1>1, <1>4
<1>9. \A k \in 1 .. Len(stack') :
       IsAlias(Package(stack[k])') /\ stack'[k] \in visited' =>
         \/ BaseOf(stack[k])' \in processed'
         \/ \E j \in k + 1 .. Len(stack') : stack'[j] = BaseOf(stack[k])'
  <2>1. \A k : Package(stack[k])' = Package(stack'[k]) /\ BaseOf(stack[k])' = BaseOf(stack'[k])
    BY <1>2 DEF Package, BaseOf
  <2> QED
    BY <2>1, <1>1, <1>8
<1> QED
  BY <1>1, <1>5, <1>6, <1>7, <1>9 DEF WalkInv

\* A package that is popped for the second time has what it waits for processed,
\* unless the walk came back to it.
LEMMA SecondPop ==
  ASSUME MapInv, TypesInv, WalkInv, NEW id \in visited \ processed, Walking(id)
  PROVE  /\ IsAlias(Package(id)) => BaseOf(id) \in processed
         /\ ~OnCycle(id) => Range(Pushed(id)) \subseteq processed
<1> DEFINE n == Len(stack)
<1>1. n \in Nat \ {0} /\ id = stack[n]
  <2>1. stack \in Seq(Results) /\ stack # <<>> /\ id = Last(stack)
    BY DEF TypesInv, Walking
  <2> QED
    BY <2>1, FrontFacts
<1>2. n \in 1 .. n /\ \A j : j \notin n + 1 .. n
  BY <1>1
<1>3. IsAlias(Package(id)) => BaseOf(id) \in processed
  BY <1>1, <1>2 DEF WalkInv
<1>4. ASSUME ~OnCycle(id)
      PROVE  Range(Pushed(id)) \subseteq processed
  <2>1. PICK k \in 1 .. n : Opened(id, k)
    BY DEF WalkInv
  <2>2. PICK X \in SUBSET Results :
          ClosedUnderWalk(X) /\ Range(Pushed(id)) \subseteq X /\ id \notin X
    BY <1>4 DEF OnCycle
  <2>3. n \notin k + 1 .. n
    BY <2>1, <2>2, <1>1 DEF Opened
  <2>4. k = n
    BY <2>3, <1>1
  <2> QED
    BY <2>1, <2>4, <1>2 DEF Opened
<1> QED
  BY <1>3, <1>4

LEMMA VisitWalk ==
  ASSUME MapInv, TypesInv, WalkInv, at = "walk", NEW id \in Results \ visited, Walking(id), WalkUnchanged,
         visited' = visited \cup {id}, stack' = stack \o Pushed(id), processed' = processed
  PROVE  stack' \in Seq(Results) /\ WalkInv'
<1>n. PICK n : n = Len(stack)
  OBVIOUS
<1> DEFINE p == Pushed(id)
           m == Len(p)
           s == stack'
<1>0. stack \in Seq(Results) /\ stack # <<>> /\ id = Last(stack) /\ processed \subseteq visited
  BY DEF TypesInv, Walking
<1>1. /\ p \in Seq(Results) /\ BasesAbove(p)
      /\ IsAlias(Package(id)) => Range(p) = {BaseOf(id)}
  BY PushedFacts DEF BaseOf
<1>2. n \in Nat \ {0} /\ id = stack[n]
  BY <1>0, <1>n, FrontFacts
<1>3. /\ m \in Nat /\ s \in Seq(Results) /\ Len(s) = n + m
      /\ \A i \in 1 .. n : s[i] = stack[i]
      /\ \A i \in 1 .. m : s[n + i] = p[i]
  BY <1>0, <1>1, <1>n, JoinedElements
<1>4. Range(s) = Range(stack) \cup Range(p)
  BY <1>0, <1>1, JoinedRange
<1>5. inst' = inst /\ result_map' = result_map /\ roots' = roots /\ at' = at
  BY DEF WalkUnchanged
<1> HIDE DEF m, p, s
<1>6. n \in 1 .. n /\ n \in 1 .. n + m /\ \A i \in 1 .. n : i \in 1 .. n + m
  BY <1>2, <1>3
<1>7. \A j \in 1 .. n + m : j \in 1 .. n \/ (j - n \in 1 .. m /\ n + (j - n) = j /\ s[j] = p[j - n])
  <2>1. \A j \in 1 .. n + m : j \in 1 .. n \/ (j - n \in 1 .. m /\ n + (j - n) = j)
    BY <1>2, <1>3
  <2> QED
    BY <2>1, <1>3
<1>8. \A q \in Range(p) : \E j \in n + 1 .. n + m : s[j] = q
  <2> SUFFICES ASSUME NEW q \in Range(p) PROVE \E j \in n + 1 .. n + m : s[j] = q
    OBVIOUS
  <2>1. PICK i \in 1 .. m : p[i] = q
    BY <1>1, RangeOf DEF m
  <2>2. n + i \in n + 1 .. n + m
    BY <1>2, <1>3
  <2> QED
    BY <2>1, <2>2, <1>3
<1>9. \A k \in 1 .. n : \A j \in n + 1 .. n + m : j \in k + 1 .. n + m
  BY <1>2, <1>3
<1>10. at' = "walk" => Range(roots)' \subseteq visited' \cup Range(stack)'
  BY <1>4, <1>5 DEF WalkInv, s
<1>11. \A v \in visited' : Range(Pushed(v))' \subseteq visited' \cup Range(stack)'
  BY <1>4, <1>5, InstanceStays DEF WalkInv, s, p
<1>12. ASSUME NEW v \in visited' \ processed'
       PROVE  \E k \in 1 .. Len(stack') : Opened(v, k)'
  <2>1. CASE v = id
    <3>1. s[n] = id
      BY <1>2, <1>3, <1>6
    <3>2. ASSUME NEW X \in SUBSET Results, Range(p) \subseteq X, NEW j \in n + 1 .. n + m
          PROVE  s[j] \in X
      <4>1. j \in 1 .. n + m /\ j \notin 1 .. n
        BY <1>2, <1>3
      <4>2. j - n \in 1 .. m /\ s[j] = p[j - n]
        BY <4>1, <1>7
      <4>3. p[j - n] \in Range(p)
        BY <4>2, <1>1, RangeOf DEF m
      <4> QED
        BY <4>2, <4>3, <3>2
    <3>3. Opened(id, n)'
      BY <3>1, <3>2, <1>3, <1>5, <1>8, InstanceStays DEF Opened, s, p
    <3> QED
      BY <3>3, <2>1, <1>3, <1>6 DEF s
  <2>2. CASE v # id
    <3>1. v \in visited \ processed
      BY <2>2, <1>12
    <3>2. PICK k \in 1 .. n : Opened(v, k)
      BY <3>1, <1>n DEF WalkInv
    <3>3. k # n
      BY <3>2, <2>2, <1>2 DEF Opened
    <3>4. n \in k + 1 .. n /\ \A j \in k + 1 .. n : j \in 1 .. n /\ j \in k + 1 .. n + m
      BY <3>3, <1>2, <1>3
    <3>5. s[k] = v
      BY <3>2, <1>3 DEF Opened
    <3>6. \A q \in Range(Pushed(v)) : q \in processed \/ \E j \in k + 1 .. n + m : s[j] = q
      BY <3>2, <3>4, <1>3, <1>n DEF Opened
    <3>7. ASSUME NEW X \in SUBSET Results, ClosedUnderWalk(X), Range(Pushed(v)) \subseteq X,
                 NEW j \in k + 1 .. n + m
          PROVE  s[j] \in X
      <4>1. \A i \in k + 1 .. n : stack[i] \in X
        BY <3>2, <3>7, <1>n DEF Opened
      <4>2. CASE j \in 1 .. n
        <5>1. j \in k + 1 .. n
          BY <4>2, <1>2, <1>3
        <5> QED
          BY <4>1, <4>2, <5>1, <1>3
      <4>3. CASE j \notin 1 .. n
        <5>1. id \in X
          BY <4>1, <3>4, <1>2
        <5>2. Range(p) \subseteq X
          BY <5>1, <3>7 DEF ClosedUnderWalk, p
        <5>3. j \in 1 .. n + m
          BY <1>2, <1>3
        <5>4. j - n \in 1 .. m /\ s[j] = p[j - n]
          BY <5>3, <4>3, <1>7
        <5>5. p[j - n] \in Range(p)
          BY <5>4, <1>1, RangeOf DEF m
        <5> QED
          BY <5>2, <5>4, <5>5
      <4> QED
        BY <4>2, <4>3
    <3>8. Opened(v, k)'
      BY <3>5, <3>6, <3>7, <1>3, <1>5, InstanceStays DEF Opened, s
    <3> QED
      BY <3>8, <1>3, <1>6 DEF s
  <2> QED
    BY <2>1, <2>2
<1>13. ASSUME NEW k \in 1 .. n + m, IsAlias(Package(s[k])), s[k] \in visited'
       PROVE  \/ BaseOf(s[k]) \in processed
              \/ \E j \in k + 1 .. n + m : s[j] = BaseOf(s[k])
  <2>1. CASE k \in 1 .. n
    <3>1. s[k] = stack[k]
      BY <2>1, <1>3
    <3>2. CASE s[k] = id
      <4>1. BaseOf(id) \in Range(p)
        BY <3>2, <1>1, <1>13
      <4> QED
        BY <4>1, <3>2, <2>1, <1>8, <1>9
    <3>3. CASE s[k] # id
      <4>1. s[k] \in visited
        BY <3>3, <1>13
      <4>2. \/ BaseOf(stack[k]) \in processed
            \/ \E j \in k + 1 .. n : stack[j] = BaseOf(stack[k])
        BY <4>1, <3>1, <2>1, <1>13, <1>n DEF WalkInv
      <4>3. \A j \in k + 1 .. n : j \in 1 .. n /\ j \in k + 1 .. n + m
        BY <2>1, <1>2, <1>3
      <4> QED
        BY <4>2, <4>3, <3>1, <1>3
    <3> QED
      BY <3>2, <3>3
  <2>2. CASE k \notin 1 .. n
    <3> DEFINE i == k - n
    <3>1. i \in 1 .. m /\ s[k] = p[i] /\ n + i = k
      BY <2>2, <1>7
    <3>2. PICK j \in i + 1 .. m : p[j] = BaseOf(p[i])
      BY <3>1, <1>1, <1>13 DEF BasesAbove, BaseOf, m
    <3>3. j \in 1 .. m /\ n + j \in k + 1 .. n + m
      BY <3>1, <1>2, <1>3
    <3> HIDE DEF i
    <3> QED
      BY <3>1, <3>2, <3>3, <1>3
  <2> QED
    BY <2>1, <2>2
<1>14. ASSUME NEW k \in 1 .. Len(s), IsAlias(Package(stack[k])'), s[k] \in visited'
       PROVE  \/ BaseOf(stack[k])' \in processed'
              \/ \E j \in k + 1 .. Len(s) : s[j] = BaseOf(stack[k])'
  <2>1. Package(stack[k])' = Package(s[k]) /\ BaseOf(stack[k])' = BaseOf(s[k])
    BY <1>5 DEF Package, BaseOf, s
  <2>2. k \in 1 .. n + m /\ IsAlias(Package(s[k]))
    BY <2>1, <1>3, <1>14
  <2> QED
    BY <2>1, <2>2, <1>3, <1>13, <1>14
<1> QED
  BY <1>3, <1>10, <1>11, <1>12, <1>14 DEF WalkInv, s

\* A step of the walk, when its parts are as they should be.
LEMMA WalkStep ==
  ASSUME WalkStateInv, at = "walk", WalkUnchanged,
         stack' \in Seq(Results), WalkInv',
         visited' \in SUBSET Results, processed' \in SUBSET visited',
         remove_map' \in Seq(Present), remove_alias_map' \in Seq(Present),
         operations' \in Seq(Ops), Distinct(operations)', MapsInv', WalkedOps'
  PROVE  WalkStateInv'
<1>1. /\ inst' = inst /\ result_map' = result_map /\ at' = "walk"
      /\ UNCHANGED <<cursor, roots, needed, moved, taken>>
  BY DEF WalkUnchanged
<1>2. TypesInv'
  <2>1. /\ Results' = Results /\ Present' = Present /\ Ops' = Ops /\ Requirable' = Requirable
    BY <1>1, InstanceStays
  <2>2. TypesInv
    BY DEF WalkStateInv
  <2> QED
    BY <1>1, <2>1, <2>2 DEF TypesInv
<1>3. RootsInv'
  BY <1>1, InstanceStays DEF WalkStateInv, RootsInv
<1>4. MapInv'
  BY <1>1, InstanceStays DEF WalkStateInv
<1> QED
  BY <1>1, <1>2, <1>3, <1>4 DEF WalkStateInv

LEMMA StrikeRootsState ==
  ASSUME WalkStateInv, StrikeRoots
  PROVE  WalkStateInv'
<1>1. /\ inst' = inst /\ result_map' = result_map /\ at' = at /\ at = "roots" /\ cursor' = cursor + 1
      /\ UNCHANGED <<stack, visited, processed, remove_map, remove_alias_map, operations,
                     needed, moved, taken>>
  BY DEF StrikeRoots
<1>2. TypesInv /\ MapInv /\ WalkInv /\ MapsInv /\ WalkedOps /\ Distinct(operations)
  BY <1>1 DEF WalkStateInv
<1>3. roots' \in Seq(Results) /\ RootsInv'
  BY StrikeRootsStep
<1>4. MapInv' /\ Distinct(operations)'
  BY <1>1, <1>2, InstanceStays DEF Distinct
<1>5. TypesInv'
  <2>1. /\ Results' = Results /\ Present' = Present /\ Ops' = Ops /\ Requirable' = Requirable
    BY <1>1, InstanceStays
  <2>2. cursor' \in Nat
    BY <1>1, <1>2 DEF TypesInv
  <2> QED
    BY <1>1, <1>2, <1>3, <2>1, <2>2 DEF TypesInv
<1>6. WalkInv'
  <2>1. visited = {} /\ processed \subseteq visited
    BY <1>1, <1>2 DEF TypesInv
  <2> QED
    BY <1>1, <2>1 DEF WalkInv
<1>7. MapsInv'
  BY <1>1, <1>2, InstanceStays DEF MapsInv, Distinct
<1>8. WalkedOps'
  BY <1>1, <1>2, InstanceStays DEF WalkedOps, Ahead
<1> QED
  BY <1>1, <1>3, <1>4, <1>5, <1>6, <1>7, <1>8 DEF WalkStateInv

LEMMA StartWalkState ==
  ASSUME WalkStateInv, StartWalk
  PROVE  WalkStateInv'
<1>1. /\ inst' = inst /\ result_map' = result_map /\ at' = "walk" /\ at = "roots" /\ stack' = roots
      /\ UNCHANGED <<cursor, roots, visited, processed, remove_map, remove_alias_map, operations,
                     needed, moved, taken>>
  BY DEF StartWalk
<1>2. TypesInv /\ MapInv /\ RootsInv /\ MapsInv /\ WalkedOps /\ Distinct(operations)
  BY <1>1 DEF WalkStateInv
<1>3. MapInv' /\ Distinct(operations)'
  BY <1>1, <1>2, InstanceStays DEF Distinct
<1>4. TypesInv'
  <2>1. /\ Results' = Results /\ Present' = Present /\ Ops' = Ops /\ Requirable' = Requirable
    BY <1>1, InstanceStays
  <2> QED
    BY <1>1, <1>2, <2>1 DEF TypesInv
<1>5. RootsInv'
  BY <1>1, <1>2, InstanceStays DEF RootsInv
<1>6. WalkInv'
  <2>1. visited = {} /\ processed \subseteq visited
    BY <1>1, <1>2 DEF TypesInv
  <2> QED
    BY <1>1, <2>1 DEF WalkInv
<1>7. MapsInv'
  BY <1>1, <1>2, InstanceStays DEF MapsInv, Distinct
<1>8. WalkedOps'
  BY <1>1, <1>2, InstanceStays DEF WalkedOps, Ahead
<1> QED
  BY <1>1, <1>3, <1>4, <1>5, <1>6, <1>7, <1>8 DEF WalkStateInv

LEMMA SkipProcessedState ==
  ASSUME WalkStateInv, SkipProcessed
  PROVE  WalkStateInv'
<1>1. PICK id \in processed : Walking(id)
  BY DEF SkipProcessed
<1>2. /\ Pop /\ WalkUnchanged /\ at = "walk"
      /\ UNCHANGED <<visited, processed, remove_map, remove_alias_map, operations>>
  BY <1>1 DEF SkipProcessed, Walking
<1>3. TypesInv /\ MapInv /\ WalkInv /\ MapsInv /\ WalkedOps /\ Distinct(operations)
  BY <1>2 DEF WalkStateInv
<1>4. id \in visited /\ processed' = processed \cup {id} /\ visited' = visited
  BY <1>1, <1>2, <1>3 DEF TypesInv
<1>5. stack' \in Seq(Results) /\ WalkInv'
  BY <1>1, <1>2, <1>3, <1>4, PopWalk
<1>6. inst' = inst /\ result_map' = result_map
  BY <1>2 DEF WalkUnchanged
<1>7. Distinct(operations)' /\ MapsInv' /\ WalkedOps'
  BY <1>2, <1>3, <1>6, InstanceStays DEF MapsInv, Distinct, WalkedOps, Ahead
<1>8. /\ remove_map' \in Seq(Present) /\ remove_alias_map' \in Seq(Present)
      /\ operations' \in Seq(Ops)
      /\ visited' \in SUBSET Results /\ processed' \in SUBSET visited'
  BY <1>2, <1>3 DEF TypesInv
<1> QED
  BY <1>2, <1>5, <1>7, <1>8, WalkStep

LEMMA VisitState ==
  ASSUME WalkStateInv, Visit
  PROVE  WalkStateInv'
<1>1. PICK id \in DOMAIN inst.arena \ (visited \cup processed) :
        /\ Walking(id)
        /\ visited' = visited \cup {id}
        /\ stack' = stack \o Pushed(id)
        /\ WalkUnchanged
        /\ UNCHANGED <<processed, remove_map, remove_alias_map, operations>>
  BY DEF Visit
<1>2. at = "walk" /\ stack # <<>> /\ id = Last(stack)
  BY <1>1 DEF Walking
<1>3. TypesInv /\ MapInv /\ WalkInv /\ MapsInv /\ WalkedOps /\ Distinct(operations)
  BY <1>2 DEF WalkStateInv
<1>4. id \in Results \ visited
  <2>1. stack \in Seq(Results)
    BY <1>3 DEF TypesInv
  <2>2. id \in Range(stack) /\ Range(stack) \subseteq Results
    BY <2>1, <1>2, FrontFacts, RangeOf
  <2> QED
    BY <2>2, <1>1
<1>5. stack' \in Seq(Results) /\ WalkInv'
  BY <1>1, <1>2, <1>3, <1>4, VisitWalk
<1>6. inst' = inst /\ result_map' = result_map
  BY <1>1 DEF WalkUnchanged
<1>7. Distinct(operations)' /\ MapsInv' /\ WalkedOps'
  BY <1>1, <1>3, <1>6, InstanceStays DEF MapsInv, Distinct, WalkedOps, Ahead
<1>8. /\ remove_map' \in Seq(Present) /\ remove_alias_map' \in Seq(Present)
      /\ operations' \in Seq(Ops)
      /\ visited' \in SUBSET Results /\ processed' \in SUBSET visited'
  BY <1>1, <1>3, <1>4 DEF TypesInv
<1> QED
  BY <1>1, <1>2, <1>5, <1>7, <1>8, WalkStep

\* What id changes: nothing, or one operation.
ChangeOf(id, op) == \A o \in Ops : IsChange(o, {id}) <=> o = op

\* The operations after a second pop.
LEMMA ProcessedOps ==
  ASSUME WalkStateInv, at = "walk", NEW id \in visited \ processed, Process(id),
         \/ operations' = operations /\ \A o \in Ops : ~IsChange(o, {id})
         \/ \E op \in Ops : operations' = Append(operations, op) /\ ChangeOf(id, op)
  PROVE  operations' \in Seq(Ops) /\ Distinct(operations)' /\ WalkedOps'
<1>1. TypesInv /\ MapInv /\ WalkInv /\ WalkedOps /\ Distinct(operations)
  BY DEF WalkStateInv
<1>2. /\ inst' = inst /\ result_map' = result_map /\ processed' = processed \cup {id}
      /\ Walking(id)
  BY DEF Process, WalkUnchanged
<1>3. operations \in Seq(Ops)
  BY <1>1 DEF TypesInv
<1>4. /\ IsAlias(Package(id)) => BaseOf(id) \in processed
      /\ ~OnCycle(id) => Range(Pushed(id)) \subseteq processed
  BY <1>1, <1>2, SecondPop
<1>5. \A o : IsChange(o, processed') <=> IsChange(o, processed) \/ IsChange(o, {id})
  BY <1>2 DEF IsChange
<1>6. \A o : IsChange(o, processed) => o.package \in processed
  BY DEF IsChange
<1>7. CASE operations' = operations /\ \A o \in Ops : ~IsChange(o, {id})
  <2>1. \A op \in Ops : op \in Range(operations') <=> IsChange(op, processed')
    BY <1>1, <1>5, <1>7 DEF WalkedOps
  <2>2. \A a \in Ops, b \in Range(operations') :
          MustPrecede(a, b) => a.package \in processed' /\ Ahead(operations', a, b)
    BY <1>1, <1>2, <1>7 DEF WalkedOps
  <2> QED
    BY <1>1, <1>2, <1>3, <1>7, <2>1, <2>2, InstanceStays DEF WalkedOps, Ahead, Distinct
<1>8. ASSUME NEW x \in Ops, operations' = Append(operations, x), ChangeOf(id, x)
      PROVE  operations' \in Seq(Ops) /\ Distinct(operations)' /\ WalkedOps'
  <2>1. IsChange(x, {id})
    BY <1>8 DEF ChangeOf
  <2>2. x.package = id
    BY <2>1 DEF IsChange
  <2>3. x \notin Range(operations)
    BY <2>2, <1>1, <1>6 DEF WalkedOps
  <2>4. /\ operations' \in Seq(Ops)
        /\ Range(operations') = Range(operations) \cup {x}
        /\ Distinct(operations')
        /\ \A a, b : Ahead(operations, a, b) /\ (a = x => b \notin Range(operations) \cup {x})
                       => Ahead(operations', a, b)
    BY <1>1, <1>3, <1>8, <2>3, AppendedAhead
  <2>5. \A op \in Ops : op \in Range(operations') <=> IsChange(op, processed')
    BY <1>1, <1>5, <1>8, <2>4 DEF WalkedOps, ChangeOf
  <2>6. ASSUME NEW a \in Ops, NEW b \in Range(operations'), MustPrecede(a, b)
        PROVE  a.package \in processed /\ Ahead(operations', a, b)
    <3>1. CASE b \in Range(operations)
      <4>1. a.package \in processed /\ Ahead(operations, a, b)
        BY <3>1, <2>6, <1>1 DEF WalkedOps
      <4>2. a # x
        BY <4>1, <2>2
      <4> QED
        BY <4>1, <4>2, <2>4
    <3>2. CASE b = x
      <4>1. a.package \in processed
        <5>1. x.type = "mark_alias_installed" => IsAlias(Package(id))
          BY <2>1 DEF IsChange, Operation
        <5> QED
          BY <5>1, <3>2, <2>2, <2>6, <1>4 DEF MustPrecede
      <4>2. a # x
        BY <4>1, <2>2
      <4>3. Ahead(operations, a, b)
        <5>1. \A j \in 1 .. Len(operations) : operations[j] # b
          BY <3>2, <2>3, <1>3, RangeOf
        <5> QED
          BY <5>1 DEF Ahead
      <4> QED
        BY <4>1, <4>2, <4>3, <2>4
    <3> QED
      BY <3>1, <3>2, <2>4
  <2>7. /\ \A op \in Ops' : op \in Range(operations)' <=> IsChange(op, processed)'
        /\ \A a \in Ops', b \in Range(operations)' :
             MustPrecede(a, b)' => a.package \in processed' /\ Ahead(operations, a, b)'
    <3>1. Ops' = Ops /\ \A op : IsChange(op, processed)' <=> IsChange(op, processed')
      BY <1>2, InstanceStays DEF IsChange, Package, PresentWithKey, SameKey, Present, Differs
    <3> QED
      BY <1>2, <2>5, <2>6, <3>1, InstanceStays DEF Ahead
  <2> QED
    BY <2>4, <2>7 DEF WalkedOps, Distinct
<1> QED
  BY <1>7, <1>8

\* The maps after a second pop.
LEMMA ProcessedMaps ==
  ASSUME WalkStateInv, at = "walk", NEW id \in visited \ processed, Process(id),
         remove_map' \in Seq(Present), Distinct(remove_map'),
         Range(remove_map') = {i \in Range(remove_map) : ~SameKey(i, id)},
         remove_alias_map' \in Seq(Present), Distinct(remove_alias_map'),
         Range(remove_alias_map') = {i \in Range(remove_alias_map) : ~SameKey(i, id)}
  PROVE  MapsInv'
<1>1. MapsInv /\ TypesInv
  BY DEF WalkStateInv
<1>2. /\ inst' = inst /\ result_map' = result_map /\ processed' = processed \cup {id}
  BY DEF Process, WalkUnchanged
<1>3. \A i \in Present : IsGone(i, processed') <=> IsGone(i, processed) /\ ~SameKey(i, id)
  BY <1>2 DEF IsGone
<1>4. \A i \in Present :
       /\ i \in Range(remove_map') <=> ~IsAlias(Package(i)) /\ IsGone(i, processed')
       /\ i \in Range(remove_alias_map') <=> IsAlias(Package(i)) /\ IsGone(i, processed')
  BY <1>1, <1>3 DEF MapsInv
<1>5. \A i : IsGone(i, processed)' <=> IsGone(i, processed')
  BY <1>2, InstanceStays DEF IsGone, SameKey, Package, Present
<1>6. Present' = Present /\ \A i : Package(i)' = Package(i)
  BY <1>2, InstanceStays
<1> QED
  BY <1>4, <1>5, <1>6 DEF MapsInv, Distinct

\* A second pop, when the operations and the maps are as they should be.
LEMMA ProcessStep ==
  ASSUME WalkStateInv, NEW id \in visited \ processed, Process(id),
         operations' \in Seq(Ops), Distinct(operations)', WalkedOps',
         remove_map' \in Seq(Present), remove_alias_map' \in Seq(Present), MapsInv'
  PROVE  WalkStateInv'
<1>1. /\ Walking(id) /\ at = "walk" /\ Pop /\ WalkUnchanged
      /\ processed' = processed \cup {id} /\ visited' = visited
  BY DEF Process, Walking
<1>2. TypesInv /\ MapInv /\ WalkInv
  BY <1>1 DEF WalkStateInv
<1>3. stack' \in Seq(Results) /\ WalkInv'
  BY <1>1, <1>2, PopWalk
<1>4. visited' \in SUBSET Results /\ processed' \in SUBSET visited'
  BY <1>1, <1>2 DEF TypesInv
<1> QED
  BY <1>1, <1>3, <1>4, WalkStep

\* What shares a key with the package at hand.
LEMMA KeyFacts ==
  ASSUME MapInv
  PROVE  /\ \A i, j : SameKey(i, j) => (IsAlias(Package(i)) <=> IsAlias(Package(j)))
         /\ \A i, j \in Present : \A id : SameKey(i, id) /\ SameKey(j, id) => i = j
         /\ \A i, j \in Results : \A id : SameKey(id, i) /\ SameKey(id, j) => i = j
         /\ \A i : SameKey(i, i)
<1>1. inst \in Instances
  BY DEF MapInv
<1>2. /\ \A i, j \in Results : SameKey(i, j) => i = j
      /\ \A i, j \in Present : SameKey(i, j) => i = j
  BY <1>1, InstanceFacts
<1>3. /\ \A i, j, id : SameKey(i, id) /\ SameKey(j, id) => SameKey(i, j)
      /\ \A i, j, id : SameKey(id, i) /\ SameKey(id, j) => SameKey(i, j)
      /\ \A i : SameKey(i, i)
      /\ \A i, j : SameKey(i, j) => (IsAlias(Package(i)) <=> IsAlias(Package(j)))
  BY DEF SameKey, HaveOneKey
<1> QED
  BY <1>2, <1>3

LEMMA ProcessAliasState ==
  ASSUME WalkStateInv, ProcessAlias
  PROVE  WalkStateInv'
<1>1. PICK id \in visited \ processed :
        /\ Process(id)
        /\ IsAlias(Package(id))
        /\ IF PresentWithKey(id) # {}
           THEN remove_alias_map' = Without(remove_alias_map, id) /\ UNCHANGED operations
           ELSE /\ operations' = Append(operations, Operation("mark_alias_installed", 0, id))
                /\ UNCHANGED remove_alias_map
        /\ UNCHANGED remove_map
  BY DEF ProcessAlias
<1>2. at = "walk"
  BY <1>1 DEF Process, Walking
<1>3. TypesInv /\ MapInv /\ MapsInv
  BY <1>2 DEF WalkStateInv
<1>4. id \in Results /\ remove_map \in Seq(Present) /\ remove_alias_map \in Seq(Present)
  BY <1>3 DEF TypesInv
<1>5. Range(remove_map) \subseteq Present /\ Range(remove_alias_map) \subseteq Present
  BY <1>4, RangeOf
<1>6. /\ remove_map' \in Seq(Present) /\ Distinct(remove_map')
      /\ Range(remove_map') = {i \in Range(remove_map) : ~SameKey(i, id)}
  <2>1. \A i \in Range(remove_map) : ~SameKey(i, id)
    BY <1>1, <1>3, <1>5, KeyFacts DEF MapsInv
  <2> QED
    BY <2>1, <1>1, <1>3, <1>4 DEF MapsInv
<1>7. /\ remove_alias_map' \in Seq(Present) /\ Distinct(remove_alias_map')
      /\ Range(remove_alias_map') = {i \in Range(remove_alias_map) : ~SameKey(i, id)}
  <2>1. CASE PresentWithKey(id) # {}
    BY <2>1, <1>1, <1>3, <1>4, RemovedMaps DEF MapsInv
  <2>2. CASE PresentWithKey(id) = {}
    <3>1. \A i \in Range(remove_alias_map) : ~SameKey(i, id)
      BY <2>2, <1>5 DEF PresentWithKey
    <3> QED
      BY <3>1, <2>2, <1>1, <1>3, <1>4 DEF MapsInv
  <2> QED
    BY <2>1, <2>2
<1>8. operations' \in Seq(Ops) /\ Distinct(operations)' /\ WalkedOps'
  <2>1. CASE PresentWithKey(id) # {}
    <3>1. \A o \in Ops : ~IsChange(o, {id})
      BY <2>1, <1>1 DEF IsChange
    <3> QED
      BY <3>1, <2>1, <1>1, <1>2, ProcessedOps
  <2>2. CASE PresentWithKey(id) = {}
    <3> DEFINE x == Operation("mark_alias_installed", 0, id)
    <3>1. x \in Ops
      BY <1>4 DEF Ops, Operation, OpTypes
    <3>2. ChangeOf(id, x)
      BY <2>2, <1>1 DEF ChangeOf, IsChange, Operation
    <3>3. operations' = Append(operations, x)
      BY <2>2, <1>1
    <3> QED
      BY <3>1, <3>2, <3>3, <1>1, <1>2, ProcessedOps
  <2> QED
    BY <2>1, <2>2
<1>9. MapsInv'
  BY <1>1, <1>2, <1>6, <1>7, ProcessedMaps
<1> QED
  BY <1>1, <1>6, <1>7, <1>8, <1>9, ProcessStep

\* The maps after a package that is not an alias.
LEMMA ProcessedPackage ==
  ASSUME WalkStateInv, at = "walk", NEW id \in visited \ processed, Process(id),
         ~IsAlias(Package(id)),
         remove_map' = Without(remove_map, id), remove_alias_map' = remove_alias_map
  PROVE  remove_map' \in Seq(Present) /\ remove_alias_map' \in Seq(Present) /\ MapsInv'
<1>1. TypesInv /\ MapInv /\ MapsInv
  BY DEF WalkStateInv
<1>2. id \in Results /\ remove_map \in Seq(Present) /\ remove_alias_map \in Seq(Present)
  BY <1>1 DEF TypesInv
<1>3. Range(remove_alias_map) \subseteq Present
  BY <1>2, RangeOf
<1>4. /\ remove_map' \in Seq(Present) /\ Distinct(remove_map')
      /\ Range(remove_map') = {i \in Range(remove_map) : ~SameKey(i, id)}
  BY <1>1, <1>2, RemovedMaps DEF MapsInv
<1>5. /\ remove_alias_map' \in Seq(Present) /\ Distinct(remove_alias_map')
      /\ Range(remove_alias_map') = {i \in Range(remove_alias_map) : ~SameKey(i, id)}
  <2>1. \A i \in Range(remove_alias_map) : ~SameKey(i, id)
    BY <1>1, <1>3, KeyFacts DEF MapsInv
  <2> QED
    BY <2>1, <1>1, <1>2 DEF MapsInv
<1> QED
  BY <1>4, <1>5, ProcessedMaps

LEMMA ProcessKnownState ==
  ASSUME WalkStateInv, ProcessKnown
  PROVE  WalkStateInv'
<1>1. PICK id \in visited \ processed, source \in Present :
        /\ Process(id)
        /\ ~IsAlias(Package(id)) /\ source \in PresentWithKey(id)
        /\ operations' = IF Differs(id, source)
                         THEN Append(operations, Operation("update", source, id))
                         ELSE operations
        /\ remove_map' = Without(remove_map, id)
        /\ UNCHANGED remove_alias_map
  BY DEF ProcessKnown
<1>2. at = "walk"
  BY <1>1 DEF Process, Walking
<1>3. TypesInv /\ MapInv
  BY <1>2 DEF WalkStateInv
<1>4. id \in Results
  BY <1>3 DEF TypesInv
<1>5. \A i \in PresentWithKey(id) : i = source
  BY <1>1, <1>3, KeyFacts DEF PresentWithKey
<1>6. operations' \in Seq(Ops) /\ Distinct(operations)' /\ WalkedOps'
  <2>1. CASE ~Differs(id, source)
    <3>1. \A o \in Ops : ~IsChange(o, {id})
      BY <2>1, <1>1, <1>5 DEF IsChange
    <3> QED
      BY <3>1, <2>1, <1>1, <1>2, ProcessedOps
  <2>2. CASE Differs(id, source)
    <3> DEFINE x == Operation("update", source, id)
    <3>1. x \in Ops
      BY <1>4 DEF Ops, Operation, OpTypes
    <3>2. ChangeOf(id, x)
      <4>1. ASSUME NEW o \in Ops, IsChange(o, {id}) PROVE o = x
        <5>1. o.package = id /\ PresentWithKey(id) # {}
          BY <1>1, <4>1 DEF IsChange
        <5>2. o = Operation("update", o.from, id) /\ o.from \in PresentWithKey(id)
          BY <5>1, <4>1, <1>1 DEF IsChange
        <5> QED
          BY <5>2, <1>5
      <4>2. x.package = id /\ x.from = source
        BY DEF Operation
      <4>3. IsChange(x, {id})
        BY <4>2, <2>2, <1>1 DEF IsChange
      <4> QED
        BY <4>1, <4>3 DEF ChangeOf
    <3>3. operations' = Append(operations, x)
      BY <2>2, <1>1
    <3> QED
      BY <3>1, <3>2, <3>3, <1>1, <1>2, ProcessedOps
  <2> QED
    BY <2>1, <2>2
<1>7. remove_map' \in Seq(Present) /\ remove_alias_map' \in Seq(Present) /\ MapsInv'
  BY <1>1, <1>2, ProcessedPackage
<1> QED
  BY <1>1, <1>6, <1>7, ProcessStep

LEMMA ProcessNewState ==
  ASSUME WalkStateInv, ProcessNew
  PROVE  WalkStateInv'
<1>1. PICK id \in visited \ processed :
        /\ Process(id)
        /\ ~IsAlias(Package(id)) /\ PresentWithKey(id) = {}
        /\ operations' = Append(operations, Operation("install", 0, id))
        /\ remove_map' = Without(remove_map, id)
        /\ UNCHANGED remove_alias_map
  BY DEF ProcessNew
<1>2. at = "walk"
  BY <1>1 DEF Process, Walking
<1>3. TypesInv /\ MapInv
  BY <1>2 DEF WalkStateInv
<1>4. id \in Results
  BY <1>3 DEF TypesInv
<1>5. operations' \in Seq(Ops) /\ Distinct(operations)' /\ WalkedOps'
  <2> DEFINE x == Operation("install", 0, id)
  <2>1. x \in Ops
    BY <1>4 DEF Ops, Operation, OpTypes
  <2>2. ChangeOf(id, x)
    BY <1>1 DEF ChangeOf, IsChange, Operation
  <2> QED
    BY <2>1, <2>2, <1>1, <1>2, ProcessedOps
<1>6. remove_map' \in Seq(Present) /\ remove_alias_map' \in Seq(Present) /\ MapsInv'
  BY <1>1, <1>2, ProcessedPackage
<1> QED
  BY <1>1, <1>5, <1>6, ProcessStep

-----------------------------------------------------------------------------
(***************************************************************************)
(* The removals.                                                           *)
(***************************************************************************)

LEMMA AheadOutside ==
  ASSUME NEW S, NEW s \in Seq(S), NEW a, NEW b, a \notin Range(s) \/ b \notin Range(s)
  PROVE  Ahead(s, a, b)
BY RangeOf DEF Ahead

LEMMA ReversedKeeps ==
  ASSUME NEW S, NEW s \in Seq(S)
  PROVE  /\ Reverse(s) \in Seq(S)
         /\ Range(Reverse(s)) = Range(s)
         /\ Distinct(s) => Distinct(Reverse(s))
<1> DEFINE t == Reverse(s)
<1>n. PICK n : n = Len(s)
  OBVIOUS
<1>1. n \in Nat
  BY <1>n, LenProperties
<1>2. t \in Seq(S)
  BY ReversedElements
<1>3. t = [i \in 1 .. n |-> s[(n - i) + 1]]
  BY <1>n DEF Reverse
<1>4. Len(t) = n
  BY <1>1, <1>2, <1>3, LenProperties
<1> HIDE DEF t
<1>5. \A i \in 1 .. n : (n - i) + 1 \in 1 .. n /\ (n - ((n - i) + 1)) + 1 = i
  BY <1>1
<1>6. \A i \in 1 .. n : t[i] = s[(n - i) + 1] /\ s[i] = t[(n - i) + 1]
  BY <1>3, <1>5
<1>7. Range(t) = Range(s)
  <2>1. \A x : x \in Range(t) <=> \E i \in 1 .. n : t[i] = x
    BY <1>2, <1>4, RangeOf
  <2>2. \A x : x \in Range(s) <=> \E i \in 1 .. n : s[i] = x
    BY <1>n, RangeOf
  <2> QED
    BY <2>1, <2>2, <1>5, <1>6
<1>8. ASSUME Distinct(s) PROVE Distinct(t)
  <2>1. \A i, j \in 1 .. n : s[i] = s[j] => i = j
    BY <1>8, <1>n DEF Distinct
  <2>2. ASSUME NEW i \in 1 .. n, NEW j \in 1 .. n, t[i] = t[j] PROVE i = j
    <3>1. (n - i) + 1 = (n - j) + 1
      BY <2>1, <2>2, <1>5, <1>6
    <3> QED
      BY <3>1, <1>1
  <2> QED
    BY <2>2, <1>4 DEF Distinct
<1> QED
  BY <1>2, <1>7, <1>8 DEF t

LEMMA AllFacts ==
  ASSUME NEW type \in OpTypes, NEW ids \in Seq(Present)
  PROVE  /\ All(type, ids) \in Seq(Ops)
         /\ \A op : op \in Range(All(type, ids)) <=>
                      op.package \in Range(ids) /\ op = Operation(type, 0, op.package)
         /\ Distinct(ids) => Distinct(All(type, ids))
<1> DEFINE s == All(type, ids)
<1>n. PICK n : n = Len(ids)
  OBVIOUS
<1>1. n \in Nat /\ ids \in [1 .. n -> Present]
  BY <1>n, LenProperties
<1>2. \A id \in Present : Operation(type, 0, id) \in Ops
  BY DEF Ops, Operation
<1>3. s = [k \in 1 .. n |-> Operation(type, 0, ids[k])]
  BY <1>1 DEF All
<1>4. s \in [1 .. n -> Ops]
  BY <1>1, <1>2, <1>3
<1>5. s \in Seq(Ops) /\ Len(s) = n
  <2>1. s \in Seq(Ops)
    BY <1>1, <1>4, SeqDef
  <2> QED
    BY <2>1, <1>1, <1>4, LenProperties
<1> HIDE DEF s
<1>6. \A k \in 1 .. n : s[k] = Operation(type, 0, ids[k])
  BY <1>3
<1>7. \A op : op \in Range(s) <=> op.package \in Range(ids) /\ op = Operation(type, 0, op.package)
  <2>1. \A x : x \in Range(s) <=> \E k \in 1 .. n : s[k] = x
    BY <1>5, RangeOf
  <2>2. \A x : x \in Range(ids) <=> \E k \in 1 .. n : ids[k] = x
    BY <1>n, RangeOf
  <2>3. \A id : Operation(type, 0, id).package = id
    BY DEF Operation
  <2> QED
    BY <2>1, <2>2, <2>3, <1>6
<1>8. Distinct(ids) => Distinct(s)
  <2>1. \A id : Operation(type, 0, id).package = id
    BY DEF Operation
  <2>2. \A i, j \in 1 .. n : s[i] = s[j] => ids[i] = ids[j]
    BY <2>1, <1>6
  <2> QED
    BY <2>2, <1>n, <1>5 DEF Distinct
<1> QED
  BY <1>5, <1>7, <1>8 DEF s

\* When the stack is empty the walk has been everywhere.
LEMMA WalkedEverywhere ==
  ASSUME TypesInv, MapInv, RootsInv, WalkInv, at = "walk", stack = <<>>
  PROVE  processed = Results /\ visited = Results
<1>1. Len(stack) = 0 /\ \A k : k \notin 1 .. Len(stack)
  <2>1. Len(stack) = 0
    BY EmptySeq
  <2> QED
    BY <2>1
<1>2. Range(stack) = {}
  BY <1>1, RangeOf DEF TypesInv
<1>3. processed = visited
  BY <1>1 DEF WalkInv, TypesInv
<1>4. ClosedUnderWalk(visited)
  BY <1>2 DEF WalkInv, ClosedUnderWalk
<1>5. Range(roots) \subseteq visited
  BY <1>2 DEF WalkInv
<1> QED
  BY <1>3, <1>4, <1>5 DEF RootsInv, TypesInv

LEMMA ChangeTypes ==
  /\ \A op, P : IsChange(op, P) =>
       /\ op.type \in {"install", "update", "mark_alias_installed"}
       /\ op.package \in P
       /\ Places(op) <=> ~IsAlias(Package(op.package))
       /\ op.type = "mark_alias_installed" <=> IsAlias(Package(op.package))
  /\ \A op : IsRemoval(op) =>
       /\ op.type \in {"uninstall", "mark_alias_uninstalled"}
       /\ op.package \in Present
       /\ ~Places(op)
<1>1. \A t, f, p : Operation(t, f, p).type = t
  BY DEF Operation
<1>2. ASSUME NEW op, NEW P, IsChange(op, P)
      PROVE  /\ op.type \in {"install", "update", "mark_alias_installed"}
             /\ op.package \in P
             /\ Places(op) <=> ~IsAlias(Package(op.package))
             /\ op.type = "mark_alias_installed" <=> IsAlias(Package(op.package))
  <2>1. \/ op.type = "install" /\ ~IsAlias(Package(op.package))
        \/ op.type = "update" /\ ~IsAlias(Package(op.package))
        \/ op.type = "mark_alias_installed" /\ IsAlias(Package(op.package))
    BY <1>1, <1>2 DEF IsChange
  <2>2. op.package \in P
    BY <1>2 DEF IsChange
  <2> QED
    BY <2>1, <2>2 DEF Places
<1>3. ASSUME NEW op, IsRemoval(op)
      PROVE  /\ op.type \in {"uninstall", "mark_alias_uninstalled"}
             /\ op.package \in Present
             /\ ~Places(op)
  <2>1. op.type \in {"uninstall", "mark_alias_uninstalled"}
    BY <1>1, <1>3 DEF IsRemoval
  <2> QED
    BY <2>1, <1>3 DEF IsRemoval, IsGone, Places
<1> QED
  BY <1>2, <1>3

LEMMA PutRemovalsState ==
  ASSUME WalkStateInv, PutRemovals
  PROVE  WalkStateInv'
<1> DEFINE A == All("uninstall", Reverse(remove_map))
           B == All("mark_alias_uninstalled", remove_alias_map)
           C == A \o operations
           D == C \o B
<1>1. /\ at = "walk" /\ stack = <<>> /\ at' = "plugins"
      /\ operations' = D /\ cursor' = Len(operations')
      /\ inst' = inst /\ result_map' = result_map
      /\ UNCHANGED <<roots, stack, visited, processed, remove_map, remove_alias_map,
                     needed, moved, taken>>
  BY DEF PutRemovals
<1>2. TypesInv /\ MapInv /\ RootsInv /\ WalkInv /\ MapsInv /\ WalkedOps /\ Distinct(operations)
  BY <1>1 DEF WalkStateInv
<1>3. processed = Results
  BY <1>1, <1>2, WalkedEverywhere
<1>4. /\ A \in Seq(Ops) /\ Distinct(A)
      /\ \A op : op \in Range(A) <=> op.package \in Range(remove_map)
                                     /\ op = Operation("uninstall", 0, op.package)
  <2>1. /\ Reverse(remove_map) \in Seq(Present) /\ Distinct(Reverse(remove_map))
        /\ Range(Reverse(remove_map)) = Range(remove_map)
    BY <1>2, ReversedKeeps DEF TypesInv, MapsInv
  <2> QED
    BY <2>1, AllFacts DEF OpTypes
<1>5. /\ B \in Seq(Ops) /\ Distinct(B)
      /\ \A op : op \in Range(B) <=> op.package \in Range(remove_alias_map)
                                     /\ op = Operation("mark_alias_uninstalled", 0, op.package)
  BY <1>2, AllFacts DEF OpTypes, TypesInv, MapsInv
<1>6. operations \in Seq(Ops) /\ Range(operations) \subseteq Ops
  BY <1>2, RangeOf DEF TypesInv
<1>7. Range(A) \subseteq Ops /\ Range(B) \subseteq Ops
  BY <1>4, <1>5, RangeOf
<1> HIDE DEF A, B
<1>8. C \in Seq(Ops) /\ Range(C) = Range(A) \cup Range(operations)
  BY <1>4, <1>6, JoinedRange, JoinedElements
<1> HIDE DEF C
<1>9. D \in Seq(Ops) /\ Range(D) = Range(C) \cup Range(B)
  BY <1>5, <1>8, JoinedRange, JoinedElements
<1>10. /\ \A op \in Range(A) : op.type = "uninstall"
       /\ \A op \in Range(B) : op.type = "mark_alias_uninstalled"
       /\ \A op \in Range(operations) : op.type \in {"install", "update", "mark_alias_installed"}
  <2>1. \A op \in Range(operations) : IsChange(op, processed)
    BY <1>2, <1>6 DEF WalkedOps
  <2>2. \A t, f, p : Operation(t, f, p).type = t
    BY DEF Operation
  <2> QED
    BY <2>1, <2>2, <1>4, <1>5, ChangeTypes
<1> HIDE DEF D
<1>11. Distinct(D)
  <2>1. Range(A) \cap Range(operations) = {} /\ Range(C) \cap Range(B) = {}
    BY <1>8, <1>10
  <2>2. Distinct(C)
    BY <2>1, <1>2, <1>4, <1>6, JoinedDistinct DEF C
  <2> QED
    BY <2>1, <2>2, <1>5, <1>8, JoinedDistinct DEF D
<1>12. ASSUME NEW op \in Ops
       PROVE  op \in Range(D) <=> IsChange(op, Results) \/ IsRemoval(op)
  <2>1. op \in Range(operations) <=> IsChange(op, Results)
    BY <1>2, <1>3 DEF WalkedOps
  <2>2. op \in Range(A) \cup Range(B) <=> IsRemoval(op)
    <3>1. Range(remove_map) \subseteq Present /\ Range(remove_alias_map) \subseteq Present
      BY <1>2, RangeOf DEF TypesInv
    <3>2. IsGone(op.package, Results) => op.package \in Present
      BY DEF IsGone
    <3>3. op.package \in Range(remove_map) <=>
            ~IsAlias(Package(op.package)) /\ IsGone(op.package, Results)
      BY <3>1, <3>2, <1>2, <1>3 DEF MapsInv
    <3>4. op.package \in Range(remove_alias_map) <=>
            IsAlias(Package(op.package)) /\ IsGone(op.package, Results)
      BY <3>1, <3>2, <1>2, <1>3 DEF MapsInv
    <3> QED
      BY <3>3, <3>4, <1>4, <1>5 DEF IsRemoval
  <2> QED
    BY <2>1, <2>2, <1>8, <1>9
<1>13. ASSUME NEW a \in Range(D), NEW b \in Range(D), MustPrecede(a, b)
       PROVE  Ahead(D, a, b)
  <2>1. /\ Places(a) /\ (Places(b) \/ b.type = "mark_alias_installed")
    BY <1>13 DEF MustPrecede
  <2>2. a \notin Range(A) /\ a \notin Range(B) /\ b \notin Range(A) /\ b \notin Range(B)
    BY <2>1, <1>10 DEF Places
  <2>3. a \in Ops /\ b \in Range(operations)
    BY <2>2, <1>6, <1>8, <1>9
  <2>4. Ahead(operations, a, b)
    BY <2>2, <2>3, <1>2, <1>13 DEF WalkedOps
  <2>5. Ahead(A, a, b) /\ Ahead(B, a, b)
    BY <2>2, <1>4, <1>5, AheadOutside
  <2>6. Ahead(C, a, b)
    BY <2>2, <2>4, <2>5, <1>4, <1>6, JoinedAhead DEF C
  <2> QED
    BY <2>2, <2>5, <2>6, <1>5, <1>8, JoinedAhead DEF D
<1>14. Len(D) \in Nat /\ \A k : k \notin Len(D) + 1 .. Len(D)
  <2>1. Len(D) \in Nat
    BY <1>9, LenProperties
  <2>2. PICK n \in Nat : n = Len(D)
    BY <2>1
  <2>3. \A k : k \notin n + 1 .. n
    OBVIOUS
  <2> QED
    BY <2>1, <2>2, <2>3
<1>15. TypesInv'
  <2>1. /\ Results' = Results /\ Present' = Present /\ Ops' = Ops /\ Requirable' = Requirable
    BY <1>1, InstanceStays
  <2> QED
    BY <1>1, <1>2, <1>9, <1>14, <2>1 DEF TypesInv
<1>16. MovesInv'
  <2>1. taken = {} /\ needed["dl"] = {} /\ needed["plugin"] = {} /\ \A list \in Lists : moved[list] = <<>>
    BY <1>1, <1>2 DEF TypesInv
  <2>2. Range(<<>>) = {} /\ \A i : i \notin 1 .. Len(<<>>)
    <3>1. Len(<<>>) = 0 /\ <<>> \in Seq(Ops)
      BY EmptySeq
    <3>2. \A i : i \notin 1 .. 0
      OBVIOUS
    <3> QED
      BY <3>1, <3>2, RangeOf
  <2>3. \A lists \in SUBSET Lists : RangesOf(lists)' = {}
    BY <2>1, <2>2, <1>1 DEF RangesOf
  <2>4. DlLists \subseteq Lists
    BY DEF DlLists, Lists
  <2>5. Len(D) \in 0 .. Len(D)
    BY <1>14
  <2>6. ListsInv'
    BY <2>1, <2>2, <2>3, <2>5, <1>1, <1>14 DEF ListsInv, InOrder
  <2>7. TakenInv'
    BY <2>1, <2>3, <2>4, <1>1 DEF TakenInv, PackagesOf
  <2> QED
    BY <2>6, <2>7, <1>1, <1>14 DEF MovesInv
<1>17. MapInv' /\ RootsInv' /\ AllOps'
  BY <1>1, <1>2, <1>12, InstanceStays DEF RootsInv, AllOps, IsChange, Package, PresentWithKey,
     SameKey, Present, Results, Differs
<1>18. Distinct(operations)' /\ \A a, b \in Range(operations)' :
                                   MustPrecede(a, b)' => Ahead(operations, a, b)'
  BY <1>1, <1>11, <1>13, InstanceStays DEF Distinct, Ahead
<1> QED
  BY <1>1, <1>15, <1>16, <1>17, <1>18 DEF WalkStateInv

-----------------------------------------------------------------------------
(***************************************************************************)
(* movePluginsToFront.                                                     *)
(***************************************************************************)

LEMMA PrependedElements ==
  ASSUME NEW S, NEW s \in Seq(S), NEW x \in S
  PROVE  /\ <<x>> \o s \in Seq(S)
         /\ Range(<<x>> \o s) = {x} \cup Range(s)
         /\ Len(<<x>> \o s) = Len(s) + 1 /\ Len(s) \in Nat
         /\ (<<x>> \o s)[1] = x
         /\ \A i \in 1 .. Len(s) : (<<x>> \o s)[1 + i] = s[i]
<1>1. PICK t : t = <<x>>
  OBVIOUS
<1>2. t \in Seq(S) /\ Len(t) = 1 /\ t[1] = x
  BY <1>1
<1>3. 1 \in 1 .. 1 /\ \A i \in 1 .. 1 : i = 1
  OBVIOUS
<1>4. Range(t) = {x}
  <2>1. \A y : y \in Range(t) <=> \E i \in 1 .. 1 : t[i] = y
    BY <1>2, RangeOf
  <2> QED
    BY <2>1, <1>2, <1>3
<1>5. Range(t \o s) = {x} \cup Range(s) /\ t \o s \in Seq(S)
  BY <1>2, <1>4, JoinedRange, JoinedElements
<1>6. /\ Len(s) \in Nat /\ Len(t \o s) = 1 + Len(s)
      /\ \A i \in 1 .. 1 : (t \o s)[i] = t[i]
      /\ \A i \in 1 .. Len(s) : (t \o s)[1 + i] = s[i]
  <2>1. /\ Len(s) \in Nat /\ Len(t \o s) = Len(t) + Len(s)
        /\ \A i \in 1 .. Len(t) : (t \o s)[i] = t[i]
        /\ \A i \in 1 .. Len(s) : (t \o s)[Len(t) + i] = s[i]
    <3>1. t \in Seq(S)
      BY <1>2
    <3> QED
      BY <3>1, JoinedElements
  <2> QED
    BY <2>1, <1>2
<1>7. Len(t \o s) = Len(s) + 1
  BY <1>6
<1> QED
  BY <1>1, <1>2, <1>3, <1>5, <1>6, <1>7

\* Something put in front of a sequence that is in order, before all it has.
LEMMA PrependedInOrder ==
  ASSUME NEW S, NEW s \in Seq(S), Distinct(s), NEW t \in Seq(S), InOrder(s, t),
         NEW c \in 1 .. Len(s),
         \A x \in Range(t) : \E k \in c + 1 .. Len(s) : s[k] = x
  PROVE  InOrder(s, <<s[c]>> \o t)
<1>n. PICK n : n = Len(s)
  OBVIOUS
<1>m. PICK m : m = Len(t)
  OBVIOUS
<1> DEFINE u == <<s[c]>> \o t
<1>1. s[c] \in S /\ n \in Nat
  BY <1>n, ElementOfSeq, LenProperties
<1>2. /\ Len(u) = m + 1 /\ m \in Nat /\ u[1] = s[c]
      /\ \A i \in 1 .. m : u[1 + i] = t[i]
  BY <1>1, <1>m, PrependedElements
<1> HIDE DEF u
<1>3. \A i \in 1 .. m + 1 : i = 1 \/ (i - 1 \in 1 .. m /\ 1 + (i - 1) = i)
  BY <1>2
<1>4. ASSUME NEW i \in 1 .. m + 1, NEW j \in 1 .. m + 1, NEW p \in 1 .. n, NEW q \in 1 .. n,
             i < j, u[i] = s[p], u[j] = s[q]
      PROVE  p < q
  <2>1. j - 1 \in 1 .. m /\ u[j] = t[j - 1]
    BY <1>2, <1>3, <1>4
  <2>2. CASE i = 1
    <3>1. p = c
      BY <2>2, <1>2, <1>4, <1>n DEF Distinct
    <3>2. t[j - 1] \in Range(t)
      BY <2>1, <1>m, RangeOf
    <3>3. PICK k \in c + 1 .. n : s[k] = t[j - 1]
      BY <3>2, <1>n
    <3>4. k \in 1 .. n /\ c < k
      BY <3>3, <1>1, <1>n
    <3>5. k = q
      BY <3>3, <3>4, <2>1, <1>4, <1>n DEF Distinct
    <3> QED
      BY <3>1, <3>4, <3>5
  <2>3. CASE i # 1
    <3>1. PICK h \in 1 .. m : h = i - 1 /\ t[h] = s[p]
      BY <2>3, <1>2, <1>3, <1>4
    <3>2. PICK k \in 1 .. m : k = j - 1 /\ t[k] = s[q]
      BY <2>1, <1>4
    <3>3. h < k
      BY <3>1, <3>2, <1>2, <1>4
    <3> QED
      BY <3>1, <3>2, <3>3, <1>m, <1>n DEF InOrder
  <2> QED
    BY <2>2, <2>3
<1> QED
  BY <1>2, <1>4, <1>n DEF InOrder, u

LEMMA ListFacts ==
  /\ DlLists \subseteq Lists /\ PluginLists \subseteq Lists /\ AloneLists \subseteq Lists
  /\ \A list \in Lists : list \in DlLists \/ list \in PluginLists
  /\ DlLists \cap PluginLists = {}
BY DEF DlLists, PluginLists, AloneLists, Lists

\* What the lists have after an operation is taken.
LEMMA TakeFacts ==
  ASSUME TypesInv, ListsInv, Distinct(operations), cursor \in 1 .. Len(operations),
         Places(operations[cursor]),
         NEW list \in Lists, NEW id, NEW why, Take(list, id, why),
         operations' = operations, cursor' = cursor - 1
  PROVE  /\ ListsInv'
         /\ \A lists \in SUBSET Lists :
              RangesOf(lists)' = RangesOf(lists)
                                   \cup (IF list \in lists THEN {operations[cursor]} ELSE {})
         /\ moved' \in [Lists -> Seq(Ops)]
         /\ operations[cursor] \notin RangesOf(Lists)
<1>n. PICK n : n = Len(operations)
  OBVIOUS
<1>c. PICK c : c = cursor
  OBVIOUS
<1> DEFINE op == operations[c]
<1>1. /\ operations \in Seq(Ops) /\ moved \in [Lists -> Seq(Ops)] /\ op \in Ops
      /\ n \in Nat /\ c \in 1 .. n
  BY <1>n, <1>c, ElementOfSeq, LenProperties DEF TypesInv
<1>2. /\ moved' = [moved EXCEPT ![list] = <<op>> \o @]
      /\ taken' = taken \cup {c}
  BY <1>c DEF Take
<1>3. /\ taken \subseteq c + 1 .. n
      /\ RangesOf(Lists) = {operations[k] : k \in taken}
      /\ \A l, o \in Lists : l # o => Range(moved[l]) \cap Range(moved[o]) = {}
      /\ \A l \in Lists : InOrder(operations, moved[l])
      /\ \A k \in taken : Places(operations[k])
  BY <1>n, <1>c DEF ListsInv
<1>4. c \in 1 .. n /\ \A k \in c + 1 .. n : k \in 1 .. n /\ k # c /\ k \in (c - 1) + 1 .. n
  BY <1>1
<1>5. op \notin RangesOf(Lists)
  BY <1>n, <1>1, <1>3, <1>4 DEF Distinct
<1> HIDE DEF op
<1>6. /\ moved' \in [Lists -> Seq(Ops)]
      /\ moved'[list] = <<op>> \o moved[list]
      /\ \A l \in Lists \ {list} : moved'[l] = moved[l]
      /\ Range(moved'[list]) = {op} \cup Range(moved[list])
  BY <1>1, <1>2, PrependedElements
<1>7. ASSUME NEW lists \in SUBSET Lists
      PROVE  RangesOf(lists)' = RangesOf(lists) \cup (IF list \in lists THEN {op} ELSE {})
  <2>1. RangesOf(lists)' = UNION {Range(moved'[l]) : l \in lists}
    BY DEF RangesOf
  <2>2. \A l \in lists : Range(moved'[l]) = Range(moved[l]) \cup (IF l = list THEN {op} ELSE {})
    BY <1>6
  <2> QED
    BY <2>1, <2>2 DEF RangesOf
<1>8. InOrder(operations, moved'[list])
  <2>1. \A x \in Range(moved[list]) : x \in RangesOf(Lists)
    BY DEF RangesOf
  <2>2. \A x \in Range(moved[list]) : \E k \in c + 1 .. n : operations[k] = x
    BY <2>1, <1>3
  <2>3. PICK t \in Seq(Ops) : t = moved[list]
    BY <1>1
  <2>4. InOrder(operations, t) /\ \A x \in Range(t) : \E k \in c + 1 .. Len(operations) : operations[k] = x
    BY <2>2, <2>3, <1>3, <1>n
  <2>5. InOrder(operations, <<operations[c]>> \o t)
    BY <2>4, <1>n, <1>1, PrependedInOrder
  <2> QED
    BY <2>3, <2>5, <1>6 DEF op
<1>9. \A l, o \in Lists : l # o => Range(moved'[l]) \cap Range(moved'[o]) = {}
  <2>1. \A l \in Lists : op \notin Range(moved[l])
    BY <1>5 DEF RangesOf
  <2>2. \A l \in Lists : Range(moved'[l]) = Range(moved[l]) \cup (IF l = list THEN {op} ELSE {})
    BY <1>6
  <2>3. ASSUME NEW l \in Lists, NEW o \in Lists, l # o,
               NEW x \in Range(moved'[l]), x \in Range(moved'[o])
        PROVE  FALSE
    <3>1. x \in Range(moved[l]) \/ (l = list /\ x = op)
      BY <2>2, <2>3
    <3>2. x \in Range(moved[o]) \/ (o = list /\ x = op)
      BY <2>2, <2>3
    <3> QED
      BY <3>1, <3>2, <2>1, <2>3, <1>3
  <2> QED
    BY <2>3
<1>10. c - 1 \in 0 .. n /\ taken' \subseteq (c - 1) + 1 .. n
  <2>1. c - 1 \in 0 .. n /\ c \in (c - 1) + 1 .. n
    BY <1>1
  <2> QED
    BY <2>1, <1>2, <1>3, <1>4
<1>11. RangesOf(Lists)' = {operations[k] : k \in taken'}
  BY <1>2, <1>3, <1>7 DEF op
<1>12. \A k \in taken' : Places(operations[k])
  BY <1>2, <1>3, <1>c
<1>13. \A l \in Lists : InOrder(operations, moved'[l])
  BY <1>3, <1>6, <1>8
<1>14. ListsInv'
  BY <1>9, <1>10, <1>11, <1>12, <1>13, <1>n, <1>c DEF ListsInv
<1> QED
  BY <1>5, <1>6, <1>7, <1>14, <1>c DEF op

LEMMA PlacedFacts ==
  ASSUME AllOps, TypesInv, NEW op \in Range(operations), Places(op)
  PROVE  op \in Ops /\ IsChange(op, Results) /\ op.package \in Results /\ ~IsAlias(Package(op.package))
<1>1. op \in Ops
  BY RangeOf DEF TypesInv
<1>2. IsChange(op, Results)
  BY <1>1, ChangeTypes DEF AllOps
<1> QED
  BY <1>1, <1>2, ChangeTypes

LEMMA NeedsStay ==
  ASSUME inst' = inst, result_map' = result_map
  PROVE  /\ \A id : /\ NonPlatformRequires(id)' = NonPlatformRequires(id)
                    /\ (IsDlPlugin(id)' <=> IsDlPlugin(id)) /\ (IsPlugin(id)' <=> IsPlugin(id))
         /\ \A a, b : Provides(a, b)' <=> Provides(a, b)
         /\ \A X, types : HasWithNeeds(X, types)' <=> HasWithNeeds(X, types)
         /\ \A X : Wanted(X)' = Wanted(X)
<1>1. /\ Results' = Results
      /\ \A id : Package(id)' = Package(id) /\ NamesOf(id)' = NamesOf(id) /\ RequiresOf(id)' = RequiresOf(id)
  BY InstanceStays
<1>2. \A id : NonPlatformRequires(id)' = NonPlatformRequires(id)
  BY <1>1 DEF NonPlatformRequires
<1> QED
  BY <1>1, <1>2 DEF IsDlPlugin, IsPlugin, Provides, HasWithNeeds, Wanted

\* A step of the loop, when its lists are as they should be.
LEMMA MoveStep ==
  ASSUME WalkStateInv, at = "plugins", cursor' = cursor - 1,
         UNCHANGED <<inst, at, result_map, roots, stack, visited, processed, remove_map,
                     remove_alias_map, operations>>,
         needed' \in [{"dl", "plugin"} -> SUBSET Requirable], moved' \in [Lists -> Seq(Ops)],
         MovesInv'
  PROVE  WalkStateInv'
<1>1. /\ Results' = Results /\ Present' = Present /\ Ops' = Ops /\ Requirable' = Requirable
  BY InstanceStays
<1>2. TypesInv /\ MapInv /\ RootsInv /\ AllOps /\ Distinct(operations)
      /\ \A a, b \in Range(operations) : MustPrecede(a, b) => Ahead(operations, a, b)
  BY DEF WalkStateInv
<1>3. cursor' \in Nat
  <2>1. cursor' \in 0 .. Len(operations')
    BY DEF MovesInv, ListsInv
  <2>2. cursor \in Nat /\ operations \in Seq(Ops)
    BY <1>2 DEF TypesInv
  <2>3. Len(operations') \in Nat
    BY <2>2, LenProperties
  <2> QED
    BY <2>1, <2>3
<1>4. TypesInv'
  BY <1>1, <1>2, <1>3 DEF TypesInv
<1>5. MapInv' /\ RootsInv' /\ AllOps' /\ Distinct(operations)'
  BY <1>2, InstanceStays DEF RootsInv, AllOps, Distinct, IsChange, PresentWithKey, Results, Present,
     SameKey, Package, Differs
<1>6. \A a, b \in Range(operations)' : MustPrecede(a, b)' => Ahead(operations, a, b)'
  BY <1>2, InstanceStays DEF Ahead
<1> QED
  BY <1>4, <1>5, <1>6 DEF WalkStateInv

\* The operation at the cursor is not taken.
LEMMA MoveLeft ==
  ASSUME WalkStateInv, at = "plugins", cursor > 0, cursor' = cursor - 1,
         UNCHANGED <<inst, at, result_map, operations, moved, needed, taken>>,
         LET op == operations[cursor] IN
           Places(op) => ~ForDl(op.package) /\ ~ForPlugin(op.package)
  PROVE  MovesInv'
<1>n. PICK n : n = Len(operations)
  OBVIOUS
<1>c. PICK c : c = cursor
  OBVIOUS
<1> DEFINE op == operations[c]
<1>1. TypesInv /\ ListsInv /\ TakenInv /\ Distinct(operations)
      /\ \A k \in cursor + 1 .. Len(operations) : PassedInv(k)
  BY DEF WalkStateInv, MovesInv
<1>2. n \in Nat /\ c \in 1 .. n
  BY <1>n, <1>c, <1>1, LenProperties DEF TypesInv, ListsInv
<1>3. /\ taken \subseteq c + 1 .. n
      /\ RangesOf(Lists) = {operations[k] : k \in taken}
  BY <1>n, <1>c, <1>1 DEF ListsInv
<1>4. c \in 1 .. n /\ \A k \in c + 1 .. n : k \in 1 .. n /\ k # c
  BY <1>2
<1>5. op \notin RangesOf(Lists)
  BY <1>n, <1>1, <1>3, <1>4 DEF Distinct
<1>6. op \notin RangesOf(DlLists) /\ op \notin RangesOf(PluginLists) /\ op \notin RangesOf(AloneLists)
  BY <1>5, ListFacts DEF RangesOf
<1>7. /\ \A k \in (c - 1) + 1 .. n : k = c \/ k \in c + 1 .. n
      /\ \A k \in c + 1 .. n : \A m \in (c - 1) + 1 .. k - 1 : m = c \/ m \in c + 1 .. k - 1
      /\ \A k : k \notin (c - 1) + 1 .. c - 1
      /\ taken \subseteq (c - 1) + 1 .. n /\ c - 1 \in 0 .. n
  BY <1>2, <1>3
<1>8. Places(op) => ~ForDl(op.package) /\ ~ForPlugin(op.package)
  BY <1>c
<1> HIDE DEF op
<1>9. \A lists : RangesOf(lists)' = RangesOf(lists)
  BY DEF RangesOf
<1>10. ASSUME NEW k \in (c - 1) + 1 .. n
       PROVE  PassedInv(k)'
  <2> DEFINE o == operations[k]
  <2>1. CASE k = c
    <3>1. o = op
      BY <2>1 DEF op
    <3>2. Places(o) => ~IsDlPlugin(o.package) /\ ~IsPlugin(o.package)
      BY <3>1, <1>8 DEF ForDl, ForPlugin
    <3> HIDE DEF o
    <3>3. Places(o) =>
            /\ ~IsDlPlugin(o.package) /\ ~IsPlugin(o.package)
            /\ o \notin RangesOf(DlLists) /\ o \notin RangesOf(PluginLists) /\ o \notin RangesOf(AloneLists)
      BY <3>1, <3>2, <1>6
    <3>4. o = operations'[k]
      BY DEF o
    <3> QED
      BY <3>3, <3>4, <1>9, NeedsStay DEF PassedInv
  <2>2. CASE k \in c + 1 .. n
    <3>1. PassedInv(k)
      BY <2>2, <1>1, <1>n, <1>c
    <3>2. ASSUME Places(o), o \in RangesOf(DlLists), Places(op), Provides(op, o)
          PROVE  FALSE
      BY <3>1, <3>2, <1>8 DEF PassedInv, Provides, ForDl
    <3>3. ASSUME Places(o), o \in RangesOf(PluginLists), Places(op), Provides(op, o)
          PROVE  FALSE
      BY <3>1, <3>3, <1>8 DEF PassedInv, Provides, ForPlugin
    <3>4. \A m \in (c - 1) + 1 .. k - 1 : operations[m] = op \/ m \in c + 1 .. k - 1
      BY <2>2, <1>7 DEF op
    <3> QED
      BY <3>1, <3>2, <3>3, <3>4, <1>9, <1>c, NeedsStay DEF PassedInv
  <2> QED
    BY <2>1, <2>2, <1>7
<1>11. ListsInv'
  BY <1>1, <1>7, <1>9, <1>n, <1>c DEF ListsInv, InOrder
<1>12. TakenInv'
  BY <1>1, <1>9, NeedsStay, InstanceStays DEF TakenInv, PackagesOf
<1>13. \A k \in cursor' + 1 .. Len(operations') : PassedInv(k)'
  BY <1>10, <1>n, <1>c
<1> QED
  BY <1>11, <1>12, <1>13 DEF MovesInv

\* The operation at the cursor is taken.
LEMMA MoveTaken ==
  ASSUME WalkStateInv, at = "plugins", cursor > 0, cursor' = cursor - 1,
         UNCHANGED <<inst, at, result_map, operations>>,
         NEW id, id = operations[cursor].package, Places(operations[cursor]),
         NEW list \in Lists, NEW why \in {"dl", "plugin"}, Take(list, id, why),
         why = "dl" => list \in DlLists /\ ForDl(id),
         why = "plugin" => list \in PluginLists /\ ForPlugin(id) /\ ~ForDl(id),
         list \in AloneLists => NonPlatformRequires(id) = {}
  PROVE  /\ MovesInv'
         /\ needed' \in [{"dl", "plugin"} -> SUBSET Requirable] /\ moved' \in [Lists -> Seq(Ops)]
<1>n. PICK n : n = Len(operations)
  OBVIOUS
<1>c. PICK c : c = cursor
  OBVIOUS
<1> DEFINE op == operations[c]
<1>1. TypesInv /\ ListsInv /\ TakenInv /\ Distinct(operations) /\ AllOps
      /\ \A k \in cursor + 1 .. Len(operations) : PassedInv(k)
  BY DEF WalkStateInv, MovesInv
<1>2. n \in Nat /\ c \in 1 .. n /\ operations \in Seq(Ops)
  BY <1>n, <1>c, <1>1, LenProperties DEF TypesInv, ListsInv
<1>3. c \in 1 .. n /\ \A k \in c + 1 .. n : k \in 1 .. n /\ k # c
  BY <1>2
<1>4. /\ \A k \in (c - 1) + 1 .. n : k = c \/ k \in c + 1 .. n
      /\ \A k \in c + 1 .. n : \A m \in (c - 1) + 1 .. k - 1 : m = c \/ m \in c + 1 .. k - 1
      /\ \A k : k \notin (c - 1) + 1 .. c - 1
  BY <1>2
<1>5. /\ ListsInv'
      /\ \A lists \in SUBSET Lists :
           RangesOf(lists)' = RangesOf(lists) \cup (IF list \in lists THEN {op} ELSE {})
      /\ moved' \in [Lists -> Seq(Ops)]
      /\ op \notin RangesOf(Lists)
  BY <1>1, <1>2, <1>n, <1>c, TakeFacts
<1>6. id \in Results /\ op.package = id /\ Places(op)
  <2>1. op \in Range(operations) /\ op.package = id /\ Places(op)
    BY <1>2, <1>n, <1>c, RangeOf
  <2> QED
    BY <2>1, <1>1, PlacedFacts
<1>7. \A k \in c + 1 .. n : operations[k] # op
  BY <1>3, <1>1, <1>n DEF Distinct
<1> HIDE DEF op
<1>8. op \notin RangesOf(DlLists) /\ op \notin RangesOf(PluginLists) /\ op \notin RangesOf(AloneLists)
  BY <1>5, ListFacts DEF RangesOf
<1>9. /\ RangesOf(DlLists)' = RangesOf(DlLists) \cup (IF why = "dl" THEN {op} ELSE {})
      /\ RangesOf(PluginLists)' = RangesOf(PluginLists) \cup (IF why = "plugin" THEN {op} ELSE {})
      /\ RangesOf(AloneLists)' = RangesOf(AloneLists) \cup (IF list \in AloneLists THEN {op} ELSE {})
      /\ RangesOf(Lists)' = RangesOf(Lists) \cup {op}
  <2>1. (list \in DlLists <=> why = "dl") /\ (list \in PluginLists <=> why = "plugin")
    BY ListFacts
  <2> QED
    BY <2>1, <1>5, ListFacts
<1>10. /\ needed' \in [{"dl", "plugin"} -> SUBSET Requirable]
       /\ needed'["dl"] = needed["dl"] \cup (IF why = "dl" THEN NonPlatformRequires(id) ELSE {})
       /\ needed'["plugin"] = needed["plugin"] \cup (IF why = "plugin" THEN NonPlatformRequires(id) ELSE {})
  <2>1. NonPlatformRequires(id) \subseteq Requirable
    BY <1>6 DEF Requirable
  <2>2. needed' = [needed EXCEPT ![why] = @ \cup NonPlatformRequires(id)]
    BY DEF Take
  <2>3. needed \in [{"dl", "plugin"} -> SUBSET Requirable]
    BY <1>1 DEF TypesInv
  <2> QED
    BY <2>1, <2>2, <2>3
<1>11. ASSUME NEW k \in (c - 1) + 1 .. n
       PROVE  PassedInv(k)'
  <2> DEFINE o == operations[k]
  <2>1. CASE k = c
    <3>1. o = op
      BY <2>1 DEF op
    <3> HIDE DEF o
    <3>2. /\ IsDlPlugin(id) => op \in RangesOf(DlLists)'
          /\ op \in RangesOf(Lists)'
          /\ op \in RangesOf(DlLists)' => NonPlatformRequires(id) \subseteq needed'["dl"]
          /\ op \in RangesOf(PluginLists)' => NonPlatformRequires(id) \subseteq needed'["plugin"]
          /\ op \in RangesOf(AloneLists)' => NonPlatformRequires(id) = {}
      <4>1. IsDlPlugin(id) => why = "dl"
        BY DEF ForDl
      <4> QED
        BY <4>1, <1>8, <1>9, <1>10
    <3>3. op = operations'[k] /\ \A m : m \notin cursor' + 1 .. k - 1
      BY <3>1, <2>1, <1>4, <1>c DEF o
    <3> QED
      BY <3>2, <3>3, <1>6, NeedsStay DEF PassedInv
  <2>2. CASE k \in c + 1 .. n
    <3>1. PassedInv(k)
      BY <2>2, <1>1, <1>n, <1>c
    <3>2. o # op
      BY <2>2, <1>7
    <3>3. /\ o \in RangesOf(DlLists)' <=> o \in RangesOf(DlLists)
          /\ o \in RangesOf(PluginLists)' <=> o \in RangesOf(PluginLists)
          /\ o \in RangesOf(AloneLists)' <=> o \in RangesOf(AloneLists)
          /\ o \in RangesOf(Lists)' <=> o \in RangesOf(Lists)
      BY <3>2, <1>9
    <3>4. ASSUME Places(o), o \in RangesOf(DlLists), Provides(op, o)
          PROVE  op \in RangesOf(DlLists)'
      <4>1. ForDl(id)
        BY <3>1, <3>4, <1>6 DEF PassedInv, Provides, ForDl
      <4> QED
        BY <4>1, <1>9
    <3>5. \A m \in (c - 1) + 1 .. k - 1 : operations[m] = op \/ m \in c + 1 .. k - 1
      BY <2>2, <1>4 DEF op
    <3>6. /\ Places(o) /\ IsDlPlugin(o.package) => o \in RangesOf(DlLists)'
          /\ Places(o) /\ IsPlugin(o.package) => o \in RangesOf(Lists)'
          /\ Places(o) /\ o \in RangesOf(AloneLists)' => NonPlatformRequires(o.package) = {}
      BY <3>1, <3>3 DEF PassedInv
    <3>7. ASSUME Places(o), o \in RangesOf(DlLists)'
          PROVE  /\ NonPlatformRequires(o.package) \subseteq needed'["dl"]
                 /\ \A m \in (c - 1) + 1 .. k - 1 :
                      Places(operations[m]) /\ Provides(operations[m], o) =>
                        operations[m] \in RangesOf(DlLists)'
      <4>1. /\ NonPlatformRequires(o.package) \subseteq needed["dl"]
            /\ \A m \in c + 1 .. k - 1 :
                 Places(operations[m]) /\ Provides(operations[m], o) =>
                   operations[m] \in RangesOf(DlLists)
        BY <3>1, <3>3, <3>7, <1>c DEF PassedInv
      <4>2. needed["dl"] \subseteq needed'["dl"] /\ RangesOf(DlLists) \subseteq RangesOf(DlLists)'
        BY <1>9, <1>10
      <4> QED
        BY <4>1, <4>2, <3>3, <3>4, <3>5, <3>7
    <3>8. ASSUME Places(o), o \in RangesOf(PluginLists)'
          PROVE  /\ NonPlatformRequires(o.package) \subseteq needed'["plugin"]
                 /\ \A m \in (c - 1) + 1 .. k - 1 :
                      Places(operations[m]) /\ Provides(operations[m], o) =>
                        operations[m] \in RangesOf(Lists)'
      <4>1. /\ NonPlatformRequires(o.package) \subseteq needed["plugin"]
            /\ \A m \in c + 1 .. k - 1 :
                 Places(operations[m]) /\ Provides(operations[m], o) =>
                   operations[m] \in RangesOf(Lists)
        BY <3>1, <3>3, <3>8, <1>c DEF PassedInv
      <4>2. needed["plugin"] \subseteq needed'["plugin"] /\ RangesOf(Lists) \subseteq RangesOf(Lists)'
            /\ op \in RangesOf(Lists)'
        BY <1>9, <1>10
      <4> QED
        BY <4>1, <4>2, <3>5
    <3>9. o = operations'[k] /\ operations' = operations /\ cursor' + 1 = (c - 1) + 1
      BY <1>c
    <3> QED
      BY <3>6, <3>7, <3>8, <3>9, NeedsStay DEF PassedInv
  <2> QED
    BY <2>1, <2>2, <1>4
<1>12. ASSUME NEW X \in SUBSET Results
       PROVE  /\ HasWithNeeds(X, {"dl_plugin"}) =>
                   PackagesOf(RangesOf(DlLists)') \subseteq X /\ needed'["dl"] \subseteq Wanted(X)
              /\ HasWithNeeds(X, PluginTypes) =>
                   /\ PackagesOf(RangesOf(Lists)') \subseteq X
                   /\ needed'["dl"] \cup needed'["plugin"] \subseteq Wanted(X)
  <2>1. \A x \in X : NonPlatformRequires(x) \subseteq Wanted(X)
    BY DEF Wanted
  <2>2. HasWithNeeds(X, PluginTypes) => HasWithNeeds(X, {"dl_plugin"})
    BY DEF HasWithNeeds, PluginTypes
  <2>3. ASSUME NEW types, HasWithNeeds(X, types), NamesOf(id) \cap Wanted(X) # {}
        PROVE  id \in X
    BY <2>3, <1>6 DEF HasWithNeeds, Wanted
  <2>4. ASSUME HasWithNeeds(X, {"dl_plugin"}), why = "dl"
        PROVE  id \in X
    <3>1. needed["dl"] \subseteq Wanted(X)
      BY <2>4, <1>1 DEF TakenInv
    <3>2. CASE IsDlPlugin(id)
      BY <3>2, <2>4, <1>6 DEF HasWithNeeds, IsDlPlugin
    <3>3. CASE NamesOf(id) \cap needed["dl"] # {}
      BY <3>1, <3>3, <2>3, <2>4
    <3> QED
      BY <3>2, <3>3, <2>4 DEF ForDl
  <2>5. ASSUME HasWithNeeds(X, PluginTypes), why = "plugin"
        PROVE  id \in X
    <3>1. needed["plugin"] \subseteq Wanted(X)
      BY <2>5, <1>1 DEF TakenInv
    <3>2. CASE IsPlugin(id)
      BY <3>2, <2>5, <1>6 DEF HasWithNeeds, IsPlugin, PluginTypes
    <3>3. CASE NamesOf(id) \cap needed["plugin"] # {}
      BY <3>1, <3>3, <2>3, <2>5
    <3> QED
      BY <3>2, <3>3, <2>5 DEF ForPlugin
  <2>6. \A S : PackagesOf(S \cup {op}) = PackagesOf(S) \cup {id} /\ PackagesOf(S \cup {}) = PackagesOf(S)
    BY <1>6 DEF PackagesOf
  <2>7. HasWithNeeds(X, {"dl_plugin"}) =>
          PackagesOf(RangesOf(DlLists)) \subseteq X /\ needed["dl"] \subseteq Wanted(X)
    BY <1>1 DEF TakenInv
  <2>8. HasWithNeeds(X, PluginTypes) =>
          /\ PackagesOf(RangesOf(Lists)) \subseteq X
          /\ needed["dl"] \cup needed["plugin"] \subseteq Wanted(X)
    BY <1>1 DEF TakenInv
  <2>9. ASSUME HasWithNeeds(X, {"dl_plugin"})
        PROVE  PackagesOf(RangesOf(DlLists)') \subseteq X /\ needed'["dl"] \subseteq Wanted(X)
    <3>1. CASE why = "dl"
      BY <3>1, <2>1, <2>4, <2>6, <2>7, <2>9, <1>9, <1>10
    <3>2. CASE why # "dl"
      BY <3>2, <2>6, <2>7, <2>9, <1>9, <1>10
    <3> QED
      BY <3>1, <3>2
  <2>10. ASSUME HasWithNeeds(X, PluginTypes)
         PROVE  /\ PackagesOf(RangesOf(Lists)') \subseteq X
                /\ needed'["dl"] \cup needed'["plugin"] \subseteq Wanted(X)
    <3>1. id \in X
      BY <2>2, <2>4, <2>5, <2>10
    <3> QED
      BY <3>1, <2>1, <2>6, <2>8, <2>10, <1>9, <1>10
  <2> QED
    BY <2>9, <2>10
<1>13. TakenInv'
  <2>1. Results' = Results
    BY InstanceStays
  <2> QED
    BY <2>1, <1>12, NeedsStay DEF TakenInv, PackagesOf
<1>14. \A k \in cursor' + 1 .. Len(operations') : PassedInv(k)'
  BY <1>11, <1>n, <1>c
<1>15. MovesInv'
  BY <1>5, <1>13, <1>14 DEF MovesInv
<1> QED
  BY <1>5, <1>10, <1>15

LEMMA MovePluginState ==
  ASSUME WalkStateInv, MovePlugin
  PROVE  WalkStateInv'
<1> DEFINE op == operations[cursor]
           id == op.package
           alone == NonPlatformRequires(id) = {}
           dl == IF IsDlPlugin(id) /\ alone THEN "dl_no_deps" ELSE "dl_with_deps"
           pl == IF IsPlugin(id) /\ alone THEN "plugins_no_deps" ELSE "plugins_with_deps"
<1>1. /\ at = "plugins" /\ cursor > 0 /\ cursor' = cursor - 1
      /\ UNCHANGED <<inst, at, result_map, roots, stack, visited, processed, remove_map,
                     remove_alias_map, operations>>
      /\ IF Places(op) /\ ForDl(id) THEN Take(dl, id, "dl")
         ELSE IF Places(op) /\ ForPlugin(id) THEN Take(pl, id, "plugin")
         ELSE UNCHANGED <<moved, needed, taken>>
  BY DEF MovePlugin
<1>2. /\ needed \in [{"dl", "plugin"} -> SUBSET Requirable] /\ moved \in [Lists -> Seq(Ops)]
  BY DEF WalkStateInv, TypesInv
<1>3. CASE Places(op) /\ ForDl(id)
  <2>1. dl \in DlLists /\ dl \in Lists /\ (dl \in AloneLists => alone)
    BY DEF DlLists, AloneLists, Lists
  <2>2. Take(dl, id, "dl")
    BY <1>1, <1>3
  <2> HIDE DEF dl
  <2>3. MovesInv' /\ needed' \in [{"dl", "plugin"} -> SUBSET Requirable] /\ moved' \in [Lists -> Seq(Ops)]
    BY <2>1, <2>2, <1>1, <1>3, MoveTaken
  <2> QED
    BY <2>3, <1>1, MoveStep
<1>4. CASE Places(op) /\ ~ForDl(id) /\ ForPlugin(id)
  <2>1. pl \in PluginLists /\ pl \in Lists /\ (pl \in AloneLists => alone)
    BY DEF PluginLists, AloneLists, Lists
  <2>2. Take(pl, id, "plugin")
    BY <1>1, <1>4
  <2> HIDE DEF pl
  <2>3. MovesInv' /\ needed' \in [{"dl", "plugin"} -> SUBSET Requirable] /\ moved' \in [Lists -> Seq(Ops)]
    BY <2>1, <2>2, <1>1, <1>4, MoveTaken
  <2> QED
    BY <2>3, <1>1, MoveStep
<1>5. CASE ~Places(op) \/ (~ForDl(id) /\ ~ForPlugin(id))
  <2>1. UNCHANGED <<moved, needed, taken>>
    BY <1>1, <1>5
  <2>2. MovesInv'
    BY <2>1, <1>1, <1>5, MoveLeft
  <2> QED
    BY <2>1, <2>2, <1>1, <1>2, MoveStep
<1> QED
  BY <1>3, <1>4, <1>5

-----------------------------------------------------------------------------
(***************************************************************************)
(* The plugins in front, and moveUninstallsToFront.                        *)
(***************************************************************************)

\* The operations that no list has, in their order.
LEMMA NotTakenFacts ==
  ASSUME NEW S, operations \in Seq(S), Distinct(operations)
  PROVE  /\ NotTaken \in Seq(S)
         /\ \A x : x \in Range(NotTaken) <=>
                     \E k \in 1 .. Len(operations) : k \notin taken /\ operations[k] = x
         /\ InOrder(operations, NotTaken)
<1>n. PICK n : n = Len(operations)
  OBVIOUS
<1>1. n \in Nat /\ DOMAIN operations = 1 .. n
  BY <1>n, LenProperties
<1> DEFINE all == [k \in 1 .. n |-> k]
           left == Selected(all, (1 .. n) \ taken)
<1>2. all \in Seq(1 .. n) /\ Len(all) = n /\ \A k \in 1 .. n : all[k] = k
  <2>1. all \in [1 .. n -> 1 .. n]
    OBVIOUS
  <2>2. all \in Seq(1 .. n)
    BY <2>1, <1>1, SeqDef
  <2> QED
    BY <2>1, <2>2, <1>1, LenProperties
<1>3. NotTaken = [k \in DOMAIN left |-> operations[left[k]]]
  BY <1>1 DEF NotTaken
<1>4. Range(all) = 1 .. n
  BY <1>2, RangeOf
<1> HIDE DEF all
<1>5. /\ left \in Seq(1 .. n) /\ Range(left) = (1 .. n) \ taken
      /\ \E e : Embeds(e, left, all, n)
  <2>1. left \in Seq(1 .. n) /\ Range(left) = Range(all) \cap ((1 .. n) \ taken)
    BY <1>2, SelectedKeeps
  <2>2. \E e : Embeds(e, left, all, Len(all))
    BY <1>2, SelectedEmbeds
  <2> HIDE DEF left
  <2> QED
    BY <2>1, <2>2, <1>2, <1>4
<1> HIDE DEF left
<1>6. PICK m : m = Len(left)
  OBVIOUS
<1>7. m \in Nat /\ left \in [1 .. m -> 1 .. n]
  BY <1>5, <1>6, LenProperties
<1>8. \A i, j \in 1 .. m : i < j => left[i] < left[j]
  <2>1. PICK e : Embeds(e, left, all, n)
    BY <1>5
  <2>2. \A i \in 1 .. m : left[i] = e[i]
    BY <2>1, <1>2, <1>6 DEF Embeds
  <2> QED
    BY <2>1, <2>2, <1>6 DEF Embeds
<1>9. \A x : x \in (1 .. n) \ taken <=> \E i \in 1 .. m : left[i] = x
  BY <1>5, <1>6, RangeOf
<1> DEFINE t == NotTaken
<1>10. t = [k \in 1 .. m |-> operations[left[k]]]
  BY <1>3, <1>7
<1>11. t \in Seq(S) /\ Len(t) = m
  <2>1. t \in [1 .. m -> S]
    BY <1>1, <1>n, <1>7, <1>10, ElementOfSeq
  <2>2. t \in Seq(S)
    BY <2>1, <1>7, SeqDef
  <2> QED
    BY <2>1, <2>2, <1>7, LenProperties
<1> HIDE DEF t
<1>12. \A i \in 1 .. m : t[i] = operations[left[i]] /\ left[i] \in 1 .. n
  BY <1>7, <1>10
<1>13. \A x : x \in Range(t) <=> \E k \in 1 .. n : k \notin taken /\ operations[k] = x
  <2>1. \A x : x \in Range(t) <=> \E i \in 1 .. m : t[i] = x
    BY <1>11, RangeOf
  <2> QED
    BY <2>1, <1>9, <1>12
<1>14. \A i, j \in 1 .. m : \A p, q \in 1 .. n :
         i < j /\ t[i] = operations[p] /\ t[j] = operations[q] => p < q
  BY <1>8, <1>12, <1>n DEF Distinct
<1> QED
  BY <1>11, <1>13, <1>14, <1>n DEF InOrder, t

Apart(s, t) == Range(s) \cap Range(t) = {}

\* s has what the parts have, once; and what is ahead in each part, and in no later
\* part, is ahead in s.
InParts(S, s, s1, s2, s3, s4, s5) ==
  /\ s \in Seq(S) /\ Distinct(s)
  /\ Range(s) = Range(s1) \cup Range(s2) \cup Range(s3) \cup Range(s4) \cup Range(s5)
  /\ \A a, b :
       /\ Ahead(s1, a, b) /\ Ahead(s2, a, b) /\ Ahead(s3, a, b) /\ Ahead(s4, a, b)
       /\ Ahead(s5, a, b)
       /\ b \in Range(s1) => a \notin Range(s2)
       /\ b \in Range(s1) \cup Range(s2) => a \notin Range(s3)
       /\ b \in Range(s1) \cup Range(s2) \cup Range(s3) => a \notin Range(s4)
       /\ b \in Range(s1) \cup Range(s2) \cup Range(s3) \cup Range(s4) => a \notin Range(s5)
       => Ahead(s, a, b)

\* Five parts that share nothing, one after the other.
LEMMA FiveParts ==
  ASSUME NEW S, NEW s1 \in Seq(S), NEW s2 \in Seq(S), NEW s3 \in Seq(S), NEW s4 \in Seq(S),
         NEW s5 \in Seq(S),
         Distinct(s1), Distinct(s2), Distinct(s3), Distinct(s4), Distinct(s5),
         Apart(s1, s2), Apart(s1, s3), Apart(s2, s3), Apart(s1, s4), Apart(s2, s4), Apart(s3, s4),
         Apart(s1, s5), Apart(s2, s5), Apart(s3, s5), Apart(s4, s5),
         NEW s, s = s1 \o s2 \o s3 \o s4 \o s5
  PROVE  InParts(S, s, s1, s2, s3, s4, s5)
<1> DEFINE t2 == s1 \o s2
           t3 == t2 \o s3
           t4 == t3 \o s4
           t5 == t4 \o s5
<1>1. /\ t2 \in Seq(S) /\ Range(t2) = Range(s1) \cup Range(s2) /\ Distinct(t2)
      /\ \A a, b : Ahead(s1, a, b) /\ Ahead(s2, a, b) /\ ~(b \in Range(s1) /\ a \in Range(s2))
                     => Ahead(t2, a, b)
  BY JoinedElements, JoinedRange, JoinedDistinct, JoinedAhead DEF Apart
<1> HIDE DEF t2
<1>2. /\ t3 \in Seq(S) /\ Range(t3) = Range(t2) \cup Range(s3) /\ Distinct(t3)
      /\ \A a, b : Ahead(t2, a, b) /\ Ahead(s3, a, b) /\ ~(b \in Range(t2) /\ a \in Range(s3))
                     => Ahead(t3, a, b)
  <2>1. Range(t2) \cap Range(s3) = {}
    BY <1>1 DEF Apart
  <2> QED
    BY <2>1, <1>1, JoinedElements, JoinedRange, JoinedDistinct, JoinedAhead
<1> HIDE DEF t3
<1>3. /\ t4 \in Seq(S) /\ Range(t4) = Range(t3) \cup Range(s4) /\ Distinct(t4)
      /\ \A a, b : Ahead(t3, a, b) /\ Ahead(s4, a, b) /\ ~(b \in Range(t3) /\ a \in Range(s4))
                     => Ahead(t4, a, b)
  <2>1. Range(t3) \cap Range(s4) = {}
    BY <1>1, <1>2 DEF Apart
  <2> QED
    BY <2>1, <1>2, JoinedElements, JoinedRange, JoinedDistinct, JoinedAhead
<1> HIDE DEF t4
<1>4. /\ t5 \in Seq(S) /\ Range(t5) = Range(t4) \cup Range(s5) /\ Distinct(t5)
      /\ \A a, b : Ahead(t4, a, b) /\ Ahead(s5, a, b) /\ ~(b \in Range(t4) /\ a \in Range(s5))
                     => Ahead(t5, a, b)
  <2>1. Range(t4) \cap Range(s5) = {}
    BY <1>1, <1>2, <1>3 DEF Apart
  <2> QED
    BY <2>1, <1>3, JoinedElements, JoinedRange, JoinedDistinct, JoinedAhead
<1> HIDE DEF t5
<1>5. t5 = s
  BY DEF t2, t3, t4, t5
<1>6. Range(t5) = Range(s1) \cup Range(s2) \cup Range(s3) \cup Range(s4) \cup Range(s5)
  BY <1>1, <1>2, <1>3, <1>4
<1>7. ASSUME NEW a, NEW b,
             Ahead(s1, a, b), Ahead(s2, a, b), Ahead(s3, a, b), Ahead(s4, a, b), Ahead(s5, a, b),
             b \in Range(s1) => a \notin Range(s2),
             b \in Range(s1) \cup Range(s2) => a \notin Range(s3),
             b \in Range(s1) \cup Range(s2) \cup Range(s3) => a \notin Range(s4),
             b \in Range(s1) \cup Range(s2) \cup Range(s3) \cup Range(s4) => a \notin Range(s5)
      PROVE  Ahead(t5, a, b)
  <2>1. Ahead(t2, a, b)
    BY <1>1, <1>7
  <2>2. Ahead(t3, a, b)
    BY <2>1, <1>1, <1>2, <1>7
  <2>3. Ahead(t4, a, b)
    BY <2>2, <1>1, <1>2, <1>3, <1>7
  <2> QED
    BY <2>3, <1>1, <1>2, <1>3, <1>4, <1>7
<1> QED
  BY <1>4, <1>5, <1>6, <1>7 DEF InParts

\* The operations with the plugins in front: all of them, in an order that only
\* the lists change.
LEMMA PluginsInFrontFacts ==
  ASSUME TypesInv, ListsInv, Distinct(operations)
  PROVE  /\ PluginsInFront \in Seq(Ops) /\ Distinct(PluginsInFront)
         /\ Range(PluginsInFront) = Range(operations)
         /\ \A a, b :
              /\ Ahead(operations, a, b)
              /\ b \notin RangesOf(AloneLists)
              /\ b \in RangesOf(DlLists) => a \in RangesOf(DlLists)
              /\ b \in RangesOf(Lists) => a \in RangesOf(Lists)
              => Ahead(PluginsInFront, a, b)
         /\ \A a, b :
              \/ a \in RangesOf(DlLists) /\ b \notin RangesOf(DlLists)
              \/ a \in RangesOf(Lists) /\ b \notin RangesOf(Lists)
              => Ahead(PluginsInFront, a, b)
<1> DEFINE s1 == moved["dl_no_deps"]
           s2 == moved["dl_with_deps"]
           s3 == moved["plugins_no_deps"]
           s4 == moved["plugins_with_deps"]
           s5 == NotTaken
<1>1. /\ operations \in Seq(Ops)
      /\ s1 \in Seq(Ops) /\ s2 \in Seq(Ops) /\ s3 \in Seq(Ops) /\ s4 \in Seq(Ops)
  BY DEF TypesInv, Lists
<1>2. /\ s5 \in Seq(Ops) /\ InOrder(operations, s5)
      /\ \A x : x \in Range(s5) <=> \E k \in 1 .. Len(operations) : k \notin taken /\ operations[k] = x
  BY <1>1, NotTakenFacts
<1>3. /\ RangesOf(DlLists) = Range(s1) \cup Range(s2)
      /\ RangesOf(AloneLists) = Range(s1) \cup Range(s3)
      /\ RangesOf(Lists) = Range(s1) \cup Range(s2) \cup Range(s3) \cup Range(s4)
  BY DEF RangesOf, DlLists, AloneLists, Lists
<1>4. /\ InOrder(operations, s1) /\ InOrder(operations, s2) /\ InOrder(operations, s3)
      /\ InOrder(operations, s4)
      /\ Range(s1) \cap Range(s2) = {}
      /\ (Range(s1) \cup Range(s2)) \cap Range(s3) = {}
      /\ (Range(s1) \cup Range(s2) \cup Range(s3)) \cap Range(s4) = {}
  <2>1. /\ "dl_no_deps" \in Lists /\ "dl_with_deps" \in Lists
        /\ "plugins_no_deps" \in Lists /\ "plugins_with_deps" \in Lists
    BY DEF Lists
  <2>2. /\ Range(s1) \cap Range(s2) = {} /\ Range(s1) \cap Range(s3) = {}
        /\ Range(s2) \cap Range(s3) = {} /\ Range(s1) \cap Range(s4) = {}
        /\ Range(s2) \cap Range(s4) = {} /\ Range(s3) \cap Range(s4) = {}
    BY <2>1 DEF ListsInv
  <2> QED
    BY <2>1, <2>2 DEF ListsInv
<1>n. PICK n : n = Len(operations)
  OBVIOUS
<1>5. /\ n \in Nat /\ taken \subseteq 1 .. n
      /\ RangesOf(Lists) = {operations[k] : k \in taken}
  <2>1. n \in Nat /\ cursor \in 0 .. n /\ taken \subseteq cursor + 1 .. n
    BY <1>1, <1>n, LenProperties DEF ListsInv
  <2> QED
    BY <2>1 DEF ListsInv
<1>6. \A x : x \in Range(operations) <=> \E k \in 1 .. n : operations[k] = x
  BY <1>1, <1>n, RangeOf
<1>7. /\ RangesOf(Lists) \cap Range(s5) = {}
      /\ RangesOf(Lists) \cup Range(s5) = Range(operations)
  <2>1. RangesOf(Lists) \cap Range(s5) = {}
    BY <1>2, <1>5, <1>n DEF Distinct
  <2>2. RangesOf(Lists) \cup Range(s5) = Range(operations)
    BY <1>2, <1>5, <1>6, <1>n
  <2> QED
    BY <2>1, <2>2
<1> HIDE DEF s1, s2, s3, s4, s5
<1>8. /\ Range(s1) \subseteq Range(operations) /\ Range(s2) \subseteq Range(operations)
      /\ Range(s3) \subseteq Range(operations) /\ Range(s4) \subseteq Range(operations)
      /\ Range(s5) \subseteq Range(operations)
  BY <1>3, <1>7
<1>9. Distinct(s1) /\ Distinct(s2) /\ Distinct(s3) /\ Distinct(s4) /\ Distinct(s5)
  BY <1>1, <1>2, <1>4, <1>8, InOrderDistinct
<1>10. PluginsInFront = s1 \o s2 \o s3 \o s4 \o s5
  BY DEF PluginsInFront, s1, s2, s3, s4, s5
<1> DEFINE s == PluginsInFront
<1> HIDE DEF s
<1>11. InParts(Ops, s, s1, s2, s3, s4, s5)
  <2>1. Apart(s1, s5) /\ Apart(s2, s5) /\ Apart(s3, s5) /\ Apart(s4, s5)
    BY <1>3, <1>7 DEF Apart
  <2>2. /\ Apart(s1, s2) /\ Apart(s1, s3) /\ Apart(s2, s3)
        /\ Apart(s1, s4) /\ Apart(s2, s4) /\ Apart(s3, s4)
    BY <1>4 DEF Apart
  <2>3. s = s1 \o s2 \o s3 \o s4 \o s5
    BY <1>10 DEF s
  <2> QED
    BY <2>1, <2>2, <2>3, <1>1, <1>2, <1>9, FiveParts
<1>12. ASSUME NEW a, NEW b, Ahead(operations, a, b)
       PROVE  Ahead(s1, a, b) /\ Ahead(s2, a, b) /\ Ahead(s3, a, b) /\ Ahead(s4, a, b) /\ Ahead(s5, a, b)
  BY <1>1, <1>2, <1>4, <1>8, <1>12, InOrderAhead
<1>13. ASSUME NEW a, NEW b,
              \/ a \in RangesOf(DlLists) /\ b \notin RangesOf(DlLists)
              \/ a \in RangesOf(Lists) /\ b \notin RangesOf(Lists)
       PROVE  Ahead(s, a, b)
  <2>1. /\ a \notin Range(s1) \/ b \notin Range(s1)
        /\ a \notin Range(s2) \/ b \notin Range(s2)
        /\ a \notin Range(s3) \/ b \notin Range(s3)
        /\ a \notin Range(s4) \/ b \notin Range(s4)
        /\ a \notin Range(s5) \/ b \notin Range(s5)
    BY <1>3, <1>4, <1>7, <1>13
  <2>2. /\ b \in Range(s1) => a \notin Range(s2)
        /\ b \in Range(s1) \cup Range(s2) => a \notin Range(s3)
        /\ b \in Range(s1) \cup Range(s2) \cup Range(s3) => a \notin Range(s4)
        /\ b \in Range(s1) \cup Range(s2) \cup Range(s3) \cup Range(s4) => a \notin Range(s5)
    BY <1>3, <1>4, <1>7, <1>13
  <2>3. Ahead(s1, a, b) /\ Ahead(s2, a, b) /\ Ahead(s3, a, b) /\ Ahead(s4, a, b) /\ Ahead(s5, a, b)
    BY <2>1, <1>1, <1>2, AheadOutside
  <2> QED
    BY <2>2, <2>3, <1>11 DEF InParts
<1>14. ASSUME NEW a, NEW b, Ahead(operations, a, b),
              b \notin RangesOf(AloneLists),
              b \in RangesOf(DlLists) => a \in RangesOf(DlLists),
              b \in RangesOf(Lists) => a \in RangesOf(Lists)
       PROVE  Ahead(s, a, b)
  <2>1. /\ b \in Range(s1) => a \notin Range(s2)
        /\ b \in Range(s1) \cup Range(s2) => a \notin Range(s3)
        /\ b \in Range(s1) \cup Range(s2) \cup Range(s3) => a \notin Range(s4)
        /\ b \in Range(s1) \cup Range(s2) \cup Range(s3) \cup Range(s4) => a \notin Range(s5)
    BY <1>3, <1>4, <1>7, <1>8, <1>14
  <2> QED
    BY <2>1, <1>11, <1>12, <1>14 DEF InParts
<1>15. Range(s) = Range(operations)
  BY <1>3, <1>7, <1>11 DEF InParts
<1> QED
  BY <1>11, <1>13, <1>14, <1>15 DEF s, InParts

LEMMA RemovalsFirstState ==
  ASSUME WalkStateInv, RemovalsFirst
  PROVE  WalkStateInv'
<1> DEFINE removals == {op \in Range(operations) : Removes(op)}
           s == Selected(PluginsInFront, removals)
           t == Selected(PluginsInFront, Range(operations) \ removals)
<1>n. PICK n : n = Len(operations)
  OBVIOUS
<1>1. /\ at = "plugins" /\ cursor = 0 /\ at' = "done" /\ operations' = s \o t
      /\ inst' = inst /\ result_map' = result_map
      /\ UNCHANGED <<cursor, roots, stack, visited, processed, remove_map, remove_alias_map,
                     needed, moved, taken>>
  BY DEF RemovalsFirst
<1>2. /\ TypesInv /\ MapInv /\ RootsInv /\ AllOps /\ ListsInv /\ TakenInv /\ Distinct(operations)
      /\ \A a, b \in Range(operations) : MustPrecede(a, b) => Ahead(operations, a, b)
      /\ \A k \in 1 .. n : PassedInv(k)
  <2>1. MovesInv
    BY <1>1 DEF WalkStateInv
  <2>2. \A k \in cursor + 1 .. Len(operations) : PassedInv(k)
    BY <2>1 DEF MovesInv
  <2>3. \A k \in 1 .. n : PassedInv(k)
    BY <2>2, <1>1, <1>n
  <2> QED
    BY <2>1, <2>3, <1>1 DEF WalkStateInv, MovesInv
<1>3. operations \in Seq(Ops) /\ n \in Nat
      /\ \A x : x \in Range(operations) <=> \E k \in 1 .. n : operations[k] = x
  BY <1>2, <1>n, RangeOf, LenProperties DEF TypesInv
<1> DEFINE p == PluginsInFront
<1>4. /\ p \in Seq(Ops) /\ Distinct(p) /\ Range(p) = Range(operations)
      /\ \A a, b :
           /\ Ahead(operations, a, b)
           /\ b \notin RangesOf(AloneLists)
           /\ b \in RangesOf(DlLists) => a \in RangesOf(DlLists)
           /\ b \in RangesOf(Lists) => a \in RangesOf(Lists)
           => Ahead(p, a, b)
      /\ \A a, b :
           \/ a \in RangesOf(DlLists) /\ b \notin RangesOf(DlLists)
           \/ a \in RangesOf(Lists) /\ b \notin RangesOf(Lists)
           => Ahead(p, a, b)
  BY <1>2, PluginsInFrontFacts
<1> HIDE DEF p
<1>5. /\ s \in Seq(Ops) /\ Range(s) = Range(p) \cap removals /\ Distinct(s)
      /\ \A a, b : Ahead(p, a, b) => Ahead(s, a, b)
  BY <1>4, SelectedKeeps DEF p
<1>6. /\ t \in Seq(Ops) /\ Range(t) = Range(p) \cap (Range(operations) \ removals) /\ Distinct(t)
      /\ \A a, b : Ahead(p, a, b) => Ahead(t, a, b)
  BY <1>4, SelectedKeeps DEF p
<1> HIDE DEF s, t
<1>7. /\ operations' \in Seq(Ops) /\ Range(operations') = Range(operations) /\ Distinct(operations')
      /\ \A a, b : Ahead(p, a, b) /\ b \notin removals => Ahead(operations', a, b)
  <2>1. Range(s) = removals /\ Range(t) = Range(operations) \ removals
    BY <1>4, <1>5, <1>6
  <2>2. Range(s) \cap Range(t) = {}
    BY <2>1
  <2>3. s \o t \in Seq(Ops) /\ Range(s \o t) = Range(s) \cup Range(t) /\ Distinct(s \o t)
    BY <2>2, <1>5, <1>6, JoinedElements, JoinedRange, JoinedDistinct
  <2>4. \A a, b : Ahead(p, a, b) /\ b \notin removals => Ahead(s \o t, a, b)
    BY <2>1, <1>5, <1>6, JoinedAhead
  <2> QED
    BY <2>1, <2>3, <2>4, <1>1
<1>8. \A op : Places(op) \/ op.type = "mark_alias_installed" => op \notin removals
  BY DEF Places, Removes
<1>9. ASSUME NEW op \in RangesOf(Lists)
      PROVE  op \in Range(operations) /\ Places(op)
  <2>1. \A k \in taken : Places(operations[k]) /\ k \in 1 .. n
    BY <1>1, <1>2, <1>n DEF ListsInv
  <2> QED
    BY <2>1, <1>2, <1>3, <1>9 DEF ListsInv
<1>10. \A lists \in SUBSET Lists : RangesOf(lists) \subseteq RangesOf(Lists)
  BY DEF RangesOf
<1>11. ASSUME NEW a \in Range(operations), NEW b \in Range(operations), MustPrecede(a, b),
              ~(Places(b) /\ Exempt(a, b))
       PROVE  Ahead(operations', a, b)
  <2>1. Places(a) /\ Ahead(operations, a, b) /\ b \notin removals
    BY <1>2, <1>8, <1>11 DEF MustPrecede
  <2>2. CASE b \notin RangesOf(Lists)
    <3>1. b \notin RangesOf(AloneLists) /\ b \notin RangesOf(DlLists)
      BY <2>2, <1>10, ListFacts
    <3> QED
      BY <3>1, <2>1, <2>2, <1>4, <1>7
  <2>3. CASE b \in RangesOf(Lists)
    <3>1. Places(b) /\ ~Exempt(a, b)
      BY <2>3, <1>9, <1>11
    <3>2. NeededByPlugins(b.package)
      <4>1. b.package \in PackagesOf(RangesOf(Lists))
        BY <2>3 DEF PackagesOf
      <4> QED
        BY <4>1, <1>2 DEF TakenInv, NeededByPlugins
    <3>3. Provides(a, b)
      BY <3>1, <3>2 DEF Exempt, Provides
    <3>4. PICK k \in 1 .. n, m \in 1 .. n : operations[k] = b /\ operations[m] = a
      BY <1>3
    <3>5. m < k
      BY <3>4, <2>1, <1>n DEF Ahead
    <3>6. m \in cursor + 1 .. k - 1
      BY <3>4, <3>5, <1>1, <1>3
    <3>7. /\ b \in RangesOf(DlLists) => a \in RangesOf(DlLists)
          /\ b \in RangesOf(PluginLists) => a \in RangesOf(Lists)
          /\ b \in RangesOf(AloneLists) => NonPlatformRequires(b.package) = {}
      BY <3>1, <3>3, <3>4, <3>6, <2>1, <1>2 DEF PassedInv
    <3>8. b \notin RangesOf(AloneLists)
      BY <3>3, <3>7 DEF Provides
    <3>9. b \in RangesOf(DlLists) \/ b \in RangesOf(PluginLists)
      BY <2>3, ListFacts DEF RangesOf
    <3>10. RangesOf(DlLists) \subseteq RangesOf(Lists)
      BY <1>10, ListFacts
    <3> QED
      BY <3>7, <3>8, <3>9, <3>10, <2>1, <1>4, <1>7
  <2> QED
    BY <2>2, <2>3
<1>12. ASSUME NEW types \in {{"dl_plugin"}, PluginTypes}, NEW X \in SUBSET Results,
              HasWithNeeds(X, types),
              NEW a \in Range(operations), NEW b \in Range(operations), Places(a), Places(b),
              Package(b.package).type \in types, a.package \notin X
       PROVE  Ahead(operations', b, a)
  <2>1. PICK k \in 1 .. n : operations[k] = b
    BY <1>3
  <2>2. a \notin removals
    BY <1>8, <1>12
  <2>3. CASE types = {"dl_plugin"}
    <3>1. b \in RangesOf(DlLists)
      BY <2>1, <2>3, <1>2, <1>12 DEF PassedInv, IsDlPlugin
    <3>2. a \notin RangesOf(DlLists)
      BY <2>3, <1>2, <1>12 DEF TakenInv, PackagesOf
    <3> QED
      BY <3>1, <3>2, <2>2, <1>4, <1>7
  <2>4. CASE types = PluginTypes
    <3>1. b \in RangesOf(Lists)
      BY <2>1, <2>4, <1>2, <1>12 DEF PassedInv, IsPlugin, PluginTypes
    <3>2. a \notin RangesOf(Lists)
      BY <2>4, <1>2, <1>12 DEF TakenInv, PackagesOf
    <3> QED
      BY <3>1, <3>2, <2>2, <1>4, <1>7
  <2> QED
    BY <2>3, <2>4
<1>13. TypesInv'
  <2>1. /\ Results' = Results /\ Present' = Present /\ Ops' = Ops /\ Requirable' = Requirable
    BY <1>1, InstanceStays
  <2> QED
    BY <1>1, <1>2, <1>7, <2>1 DEF TypesInv
<1>14. MapInv' /\ RootsInv' /\ AllOps' /\ Distinct(operations)'
  <2>1. \A op : IsChange(op, Results)' <=> IsChange(op, Results)
    BY <1>1, InstanceStays DEF IsChange, PresentWithKey, Results, Present, SameKey, Package, Differs
  <2> QED
    BY <2>1, <1>1, <1>2, <1>7, InstanceStays DEF RootsInv, AllOps, Distinct
<1>15. \A a, b : Exempt(a, b)' <=> Exempt(a, b)
  <2>1. \A id : NeededByPlugins(id)' <=> NeededByPlugins(id)
    BY <1>1, InstanceStays, NeedsStay DEF NeededByPlugins
  <2> QED
    BY <2>1, <1>1, InstanceStays, NeedsStay DEF Exempt
<1>16. DoneInv'
  <2>1. \A a, b \in Range(operations)' :
          MustPrecede(a, b)' /\ ~(Places(b) /\ Exempt(a, b)') => Ahead(operations, a, b)'
    BY <1>1, <1>7, <1>11, <1>15, InstanceStays DEF Ahead
  <2>2. \A types \in {{"dl_plugin"}, PluginTypes}, X \in SUBSET Results' :
          HasWithNeeds(X, types)' =>
            \A a, b \in Range(operations)' :
              /\ Places(a) /\ Places(b)
              /\ Package(b.package)'.type \in types
              /\ a.package \notin X
              => Ahead(operations, b, a)'
    <3>1. /\ Results' = Results /\ Range(operations)' = Range(operations)
          /\ \A id : Package(id)' = Package(id)
          /\ \A X, types : HasWithNeeds(X, types)' <=> HasWithNeeds(X, types)
      BY <1>1, <1>7, InstanceStays, NeedsStay
    <3>2. \A a, b : Ahead(operations', a, b) <=> Ahead(operations, a, b)'
      BY DEF Ahead
    <3> QED
      BY <3>1, <3>2, <1>12
  <2> QED
    BY <2>1, <2>2 DEF DoneInv, PluginTypes, Places
<1> QED
  BY <1>1, <1>13, <1>14, <1>16 DEF WalkStateInv

LEMMA WalkStateStep ==
  ASSUME WalkStateInv, [WalkNext]_walkVars
  PROVE  WalkStateInv'
<1>1. CASE UNCHANGED walkVars
  <2>1. /\ inst' = inst /\ result_map' = result_map
        /\ UNCHANGED <<at, cursor, roots, stack, visited, processed, remove_map, remove_alias_map,
                       operations, needed, moved, taken>>
    BY <1>1 DEF walkVars
  <2>2. /\ Results' = Results /\ Present' = Present /\ Ops' = Ops /\ Requirable' = Requirable
        /\ (MapInv' <=> MapInv)
    BY <2>1, InstanceStays
  <2>3. (TypesInv' <=> TypesInv) /\ (Distinct(operations)' <=> Distinct(operations))
    BY <2>1, <2>2 DEF TypesInv, Distinct
  <2>4. RootsInv' <=> RootsInv
    BY <2>1, InstanceStays DEF RootsInv
  <2>5. WalkInv' <=> WalkInv
    BY <2>1 DEF WalkInv, Opened, Pushed, Providers, Results, Package, NamesOf, ClosedUnderWalk, BaseOf
  <2>6. MapsInv' <=> MapsInv
    BY <2>1 DEF MapsInv, Distinct, IsGone, Present, Package, SameKey
  <2>7. WalkedOps' <=> WalkedOps
    BY <2>1, <2>2, InstanceStays DEF WalkedOps, Ahead, IsChange, Package, PresentWithKey, SameKey,
       Present, Differs
  <2>8. AllOps' <=> AllOps
    BY <2>1, <2>2, InstanceStays DEF AllOps, IsChange, Package, PresentWithKey, SameKey, Present,
       Results, Differs
  <2>9. (\A a, b \in Range(operations) : MustPrecede(a, b) => Ahead(operations, a, b))' <=>
        (\A a, b \in Range(operations) : MustPrecede(a, b) => Ahead(operations, a, b))
    BY <2>1, InstanceStays DEF Ahead
  <2>10. MovesInv => MovesInv'
    <3>1. \A lists : RangesOf(lists)' = RangesOf(lists)
      BY <2>1 DEF RangesOf
    <3>2. ASSUME ListsInv PROVE ListsInv'
      <4>1. \A list : InOrder(operations, moved[list]) <=> InOrder(operations, moved[list])'
        BY <2>1 DEF InOrder
      <4> QED
        BY <2>1, <3>1, <3>2, <4>1 DEF ListsInv
    <3>3. TakenInv' <=> TakenInv
      BY <2>1, <2>2, <3>1, NeedsStay DEF TakenInv, PackagesOf
    <3>4. \A k : PassedInv(k)' <=> PassedInv(k)
      BY <2>1, <3>1, NeedsStay DEF PassedInv
    <3> QED
      BY <2>1, <3>2, <3>3, <3>4 DEF MovesInv
  <2>11. DoneInv' <=> DoneInv
    <3>1. \A a, b : Exempt(a, b)' <=> Exempt(a, b)
      BY <2>1, <2>2, InstanceStays, NeedsStay DEF Exempt, NeededByPlugins
    <3>2. \A id : Package(id)' = Package(id)
      BY <2>1, InstanceStays
    <3> QED
      BY <2>1, <2>2, <3>1, <3>2, InstanceStays, NeedsStay DEF DoneInv, Ahead
  <2> QED
    BY <2>1, <2>2, <2>3, <2>4, <2>5, <2>6, <2>7, <2>8, <2>9, <2>10, <2>11 DEF WalkStateInv
<1>2. CASE WalkNext
  BY <1>2, StrikeRootsState, StartWalkState, SkipProcessedState, VisitState, ProcessAliasState,
     ProcessKnownState, ProcessNewState, PutRemovalsState, MovePluginState, RemovalsFirstState
     DEF WalkNext
<1> QED
  BY <1>1, <1>2

-----------------------------------------------------------------------------
(***************************************************************************)
(* What the operations do.                                                 *)
(***************************************************************************)

LEMMA FactKeys ==
  /\ \A i, j : Fact(i) = Fact(j) => SameKey(i, j)
  /\ \A i, j : SameKey(i, j) /\ (IsAlias(Package(i)) \/ ~Differs(i, j)) => Fact(i) = Fact(j)
  /\ \A i, j : Differs(i, j) /\ ~IsAlias(Package(i)) /\ ~IsAlias(Package(j)) => Fact(i) # Fact(j)
  /\ \A i : Fact(i).name = Package(i).name /\ (Fact(i).alias <=> IsAlias(Package(i)))
<1>1. \A i : /\ Fact(i).name = Package(i).name
             /\ Fact(i).alias = IsAlias(Package(i))
             /\ Fact(i).version = Package(i).version
             /\ Fact(i).ref = IF IsAlias(Package(i)) THEN 0 ELSE Package(i).ref
  BY DEF Fact
<1>2. \A i, j : SameKey(i, j) <=>
                  /\ Package(i).name = Package(j).name
                  /\ IsAlias(Package(i)) = IsAlias(Package(j))
                  /\ IsAlias(Package(i)) => Package(i).version = Package(j).version
  BY DEF SameKey, HaveOneKey, IsAlias
<1>3. \A i, j : Fact(i) = Fact(j) => SameKey(i, j)
  BY <1>1, <1>2
<1>4. ASSUME NEW i, NEW j, SameKey(i, j), IsAlias(Package(i)) \/ ~Differs(i, j)
      PROVE  Fact(i) = Fact(j)
  <2>1. /\ Package(i).name = Package(j).name
        /\ IsAlias(Package(i)) = IsAlias(Package(j))
        /\ Package(i).version = Package(j).version
        /\ ~IsAlias(Package(i)) => Package(i).ref = Package(j).ref
    BY <1>2, <1>4 DEF Differs
  <2> QED
    BY <2>1 DEF Fact
<1>5. \A i, j : Differs(i, j) /\ ~IsAlias(Package(i)) /\ ~IsAlias(Package(j)) => Fact(i) # Fact(j)
  BY <1>1 DEF Differs
<1> QED
  BY <1>1, <1>3, <1>4, <1>5

\* An operation changes a package of the result, or removes one that has no
\* counterpart there.
LEMMA OpFacts ==
  ASSUME TypesInv, MapInv, AllOps, NEW a \in Range(operations)
  PROVE  \/ /\ ~Removes(a) /\ a.package \in Results /\ IsChange(a, Results)
            /\ a.type \in {"install", "update", "mark_alias_installed"}
            /\ a.type = "mark_alias_installed" <=> IsAlias(Package(a.package))
            /\ Gained(a) = {Fact(a.package)}
            /\ IF a.type = "update"
               THEN /\ Lost(a) = {Fact(a.from)}
                    /\ a.from \in Present /\ SameKey(a.from, a.package)
                    /\ Differs(a.package, a.from)
               ELSE Lost(a) = {} /\ a.from = 0 /\ PresentWithKey(a.package) = {}
         \/ /\ Removes(a) /\ a.package \in Present /\ IsRemoval(a)
            /\ a.type \in {"uninstall", "mark_alias_uninstalled"}
            /\ Gained(a) = {} /\ Lost(a) = {Fact(a.package)}
            /\ \A r \in Results : ~SameKey(a.package, r)
<1>1. a \in Ops
  BY RangeOf DEF TypesInv
<1>2. IsChange(a, Results) \/ IsRemoval(a)
  BY <1>1 DEF AllOps
<1>3. \A t, f, p : Operation(t, f, p).type = t /\ Operation(t, f, p).from = f
  BY DEF Operation
<1>4. CASE IsChange(a, Results)
  <2>1. /\ a.type \in {"install", "update", "mark_alias_installed"}
        /\ a.package \in Results
        /\ a.type = "mark_alias_installed" <=> IsAlias(Package(a.package))
    BY <1>4, ChangeTypes
  <2>2. ~Removes(a) /\ Gained(a) = {Fact(a.package)}
        /\ Lost(a) = IF a.type = "update" THEN {Fact(a.from)} ELSE {}
    BY <2>1 DEF Removes, Gained, Lost
  <2>3. CASE a.type = "update"
    <3>1. a.from \in PresentWithKey(a.package) /\ Differs(a.package, a.from)
      BY <2>3, <1>3, <1>4 DEF IsChange
    <3> QED
      BY <3>1, <2>1, <2>2, <2>3, <1>4 DEF PresentWithKey
  <2>4. CASE a.type # "update"
    <3>1. a.from = 0 /\ PresentWithKey(a.package) = {}
      <4>1. \/ a = Operation("install", 0, a.package) /\ PresentWithKey(a.package) = {}
            \/ a = Operation("mark_alias_installed", 0, a.package) /\ PresentWithKey(a.package) = {}
        BY <2>4, <1>3, <1>4 DEF IsChange
      <4> QED
        BY <4>1, <1>3
    <3> QED
      BY <3>1, <2>1, <2>2, <2>4, <1>4
  <2> QED
    BY <2>3, <2>4
<1>5. CASE IsRemoval(a)
  <2>1. a.type \in {"uninstall", "mark_alias_uninstalled"} /\ a.package \in Present
    BY <1>5, ChangeTypes
  <2>2. \A r \in Results : ~SameKey(a.package, r)
    BY <1>5 DEF IsRemoval, IsGone
  <2>3. Removes(a) /\ Gained(a) = {} /\ Lost(a) = {Fact(a.package)}
    BY <2>1 DEF Removes, Gained, Lost
  <2> QED
    BY <2>1, <2>2, <2>3, <1>5
<1> QED
  BY <1>2, <1>4, <1>5

\* There is one operation for a package of the result, and one for one removed.
LEMMA OneOperation ==
  ASSUME TypesInv, MapInv, AllOps, NEW a \in Range(operations), NEW b \in Range(operations),
         a.package = b.package, Removes(a) <=> Removes(b)
  PROVE  a = b
<1> DEFINE id == a.package
<1>1. CASE Removes(a)
  <2>1. IsRemoval(a) /\ IsRemoval(b)
    BY <1>1, OpFacts
  <2> QED
    BY <2>1 DEF IsRemoval
<1>2. CASE ~Removes(a)
  <2>1. /\ IsChange(a, Results) /\ IsChange(b, Results)
        /\ a = Operation(a.type, a.from, id) /\ b = Operation(b.type, b.from, id)
    <3>1. IsChange(a, Results) /\ IsChange(b, Results)
      BY <1>2, OpFacts
    <3>2. \A o : IsChange(o, Results) => o = Operation(o.type, o.from, o.package)
      BY DEF IsChange, Operation
    <3> QED
      BY <3>1, <3>2
  <2>2. /\ a.type \in {"install", "update", "mark_alias_installed"}
        /\ a.type = "mark_alias_installed" <=> IsAlias(Package(id))
        /\ IF a.type = "update" THEN a.from \in Present /\ SameKey(a.from, id)
           ELSE a.from = 0 /\ PresentWithKey(id) = {}
    BY <1>2, OpFacts
  <2>3. /\ b.type \in {"install", "update", "mark_alias_installed"}
        /\ b.type = "mark_alias_installed" <=> IsAlias(Package(id))
        /\ IF b.type = "update" THEN b.from \in Present /\ SameKey(b.from, id)
           ELSE b.from = 0 /\ PresentWithKey(id) = {}
    BY <1>2, OpFacts
  <2>4. CASE a.type = "update"
    <3>1. b.type = "update"
      BY <2>2, <2>3, <2>4 DEF PresentWithKey
    <3>2. a.from = b.from
      BY <3>1, <2>2, <2>3, <2>4, KeyFacts
    <3> QED
      BY <3>1, <3>2, <2>1, <2>4
  <2>5. CASE a.type # "update"
    <3>1. b.type # "update"
      BY <2>2, <2>3, <2>5 DEF PresentWithKey
    <3>2. a.type = b.type /\ a.from = b.from
      BY <3>1, <2>2, <2>3, <2>5
    <3> QED
      BY <3>2, <2>1
  <2> QED
    BY <2>4, <2>5
<1> QED
  BY <1>1, <1>2

\* What an operation takes away no other operation has put there.
LEMMA GainedNotLost ==
  ASSUME TypesInv, MapInv, AllOps, NEW a \in Range(operations), NEW b \in Range(operations), a # b
  PROVE  Gained(a) \cap Lost(b) = {}
<1> SUFFICES ASSUME NEW f \in Gained(a), f \in Lost(b) PROVE FALSE
  OBVIOUS
<1>1. ~Removes(a) /\ a.package \in Results /\ f = Fact(a.package)
  BY OpFacts
<1>2. CASE Removes(b)
  <2>1. f = Fact(b.package) /\ \A r \in Results : ~SameKey(b.package, r)
    BY <1>2, OpFacts
  <2> QED
    BY <2>1, <1>1, FactKeys
<1>3. CASE ~Removes(b)
  <2>1. /\ f = Fact(b.from) /\ b.from \in Present /\ SameKey(b.from, b.package)
        /\ b.package \in Results
    BY <1>3, OpFacts
  <2>2. SameKey(b.from, a.package)
    BY <2>1, <1>1, FactKeys
  <2>3. a.package = b.package
    BY <2>1, <2>2, <1>1, KeyFacts
  <2> QED
    BY <2>3, <1>1, <1>3, OneOperation
<1> QED
  BY <1>2, <1>3

\* An operation that takes a package away that was present.
LEMMA LostFacts ==
  ASSUME TypesInv, MapInv, AllOps, NEW a \in Range(operations), NEW i \in Present,
         Fact(i) \in Lost(a)
  PROVE  \/ /\ Removes(a) /\ a.package = i /\ \A r \in Results : ~SameKey(i, r)
         \/ /\ ~Removes(a) /\ a.type = "update" /\ a.from = i /\ a.package \in Results
            /\ SameKey(i, a.package) /\ Differs(a.package, i)
<1>1. CASE Removes(a)
  <2>1. /\ Fact(i) = Fact(a.package) /\ a.package \in Present
        /\ \A r \in Results : ~SameKey(a.package, r)
    BY <1>1, OpFacts
  <2>2. a.package = i
    BY <2>1, FactKeys, KeyFacts
  <2> QED
    BY <2>1, <2>2, <1>1
<1>2. CASE ~Removes(a)
  <2>1. /\ a.type = "update" /\ Fact(i) = Fact(a.from) /\ a.from \in Present
        /\ a.package \in Results /\ SameKey(a.from, a.package) /\ Differs(a.package, a.from)
    BY <1>2, OpFacts
  <2>2. a.from = i
    BY <2>1, FactKeys, KeyFacts
  <2> QED
    BY <2>1, <2>2, <1>2
<1> QED
  BY <1>1, <1>2

HaveIs(f, n) ==
  f = [k \in 0 .. n |-> IF k = 0 THEN Facts(Present)
                        ELSE (f[k - 1] \ Lost(operations[k])) \cup Gained(operations[k])]

LEMMA HaveExists ==
  ASSUME NEW n \in Nat
  PROVE  \E f : HaveIs(f, n)
<1> DEFINE T == {k \in Nat : ~\E f : HaveIs(f, k)}
<1> SUFFICES ASSUME T # {} PROVE FALSE
  OBVIOUS
<1>1. PICK k \in T : \A j \in T : k <= j
  BY LeastNumber
<1>2. CASE k = 0
  <2>1. HaveIs([i \in 0 .. 0 |-> Facts(Present)], 0)
    BY DEF HaveIs
  <2> QED
    BY <2>1, <1>2
<1>3. CASE k > 0
  <2>1. k - 1 \in Nat /\ k - 1 \notin T
    BY <1>1, <1>3
  <2>2. PICK f : HaveIs(f, k - 1)
    BY <2>1
  <2> DEFINE z == Facts(Present)
             p(h, i) == (h \ Lost(operations[i])) \cup Gained(operations[i])
             g == [i \in 0 .. k |-> IF i < k THEN f[i] ELSE p(f[k - 1], k)]
             h == [i \in 0 .. k |-> IF i = 0 THEN z ELSE p(g[i - 1], i)]
  <2> HIDE DEF p, z
  <2>3. \A i \in 0 .. k - 1 : g[i] = f[i]
    BY <1>3
  <2>4. ASSUME NEW i \in 0 .. k
        PROVE  g[i] = h[i]
    <3>1. CASE i = k
      BY <3>1, <1>3, <2>3
    <3>2. CASE i < k
      <4>1. i \in 0 .. k - 1 /\ (i # 0 => i - 1 \in 0 .. k - 1)
        BY <3>2
      <4>2. f[i] = IF i = 0 THEN z ELSE p(f[i - 1], i)
        BY <4>1, <2>2 DEF HaveIs, p, z
      <4> QED
        BY <4>1, <4>2, <2>3
    <3> QED
      BY <3>1, <3>2
  <2>5. DOMAIN g = 0 .. k /\ DOMAIN h = 0 .. k
    OBVIOUS
  <2>6. g = h
    BY <2>4, <2>5
  <2> HIDE DEF g
  <2>7. HaveIs(g, k)
    BY <2>6 DEF HaveIs, p, z
  <2> QED
    BY <2>7
<1> QED
  BY <1>1, <1>2, <1>3

\* What is there is what was and was not taken away, and what was put.
LEMMA HaveFacts ==
  ASSUME NEW n \in Nat,
         \A j, k \in 1 .. n : j < k => Gained(operations[j]) \cap Lost(operations[k]) = {}
  PROVE  \A f : f \in Have(n) <=>
                  \/ f \in Facts(Present) /\ \A k \in 1 .. n : f \notin Lost(operations[k])
                  \/ \E k \in 1 .. n : f \in Gained(operations[k])
<1> DEFINE h == CHOOSE g : HaveIs(g, n)
           Good(m) ==
             \A f : f \in h[m] <=>
                      \/ f \in Facts(Present) /\ \A k \in 1 .. m : f \notin Lost(operations[k])
                      \/ \E k \in 1 .. m : f \in Gained(operations[k])
           T == {m \in 0 .. n : ~Good(m)}
<1>1. HaveIs(h, n)
  BY HaveExists
<1>2. Have(n) = h[n]
  BY DEF Have, HaveIs
<1> HIDE DEF h
<1>3. T = {}
  <2> SUFFICES ASSUME T # {} PROVE FALSE
    OBVIOUS
  <2>0. T \in SUBSET Nat
    OBVIOUS
  <2>1. PICK m \in T : \A j \in T : m <= j
    <3> HIDE DEF T
    <3> QED
      BY <2>0, LeastNumber
  <2>2. h[m] = IF m = 0 THEN Facts(Present)
               ELSE (h[m - 1] \ Lost(operations[m])) \cup Gained(operations[m])
    BY <1>1 DEF HaveIs
  <2>3. CASE m = 0
    <3>1. \A k : k \notin 1 .. 0
      OBVIOUS
    <3>2. Good(0)
      BY <3>1, <2>2, <2>3
    <3> QED
      BY <3>2, <2>3
  <2>4. CASE m # 0
    <3>1. m - 1 \in 0 .. n /\ m - 1 \notin T
      BY <2>1, <2>4
    <3>2. Good(m - 1)
      BY <3>1
    <3>3. /\ \A k \in 1 .. m : k \in 1 .. m - 1 \/ k = m
          /\ m \in 1 .. m /\ m \in 1 .. n
          /\ \A k \in 1 .. m - 1 : k \in 1 .. m /\ k \in 1 .. n /\ k < m
      BY <2>4
    <3>4. \A k \in 1 .. m - 1 : Gained(operations[k]) \cap Lost(operations[m]) = {}
      BY <3>3
    <3> DEFINE P(f) == f \in Facts(Present)
               L(f, k) == f \in Lost(operations[k])
               G(f, k) == f \in Gained(operations[k])
    <3>5. ASSUME NEW f
          PROVE  f \in h[m] <=>
                   \/ P(f) /\ \A k \in 1 .. m : ~L(f, k)
                   \/ \E k \in 1 .. m : G(f, k)
      <4>1. f \in h[m] <=> (f \in h[m - 1] /\ ~L(f, m)) \/ G(f, m)
        BY <2>2, <2>4
      <4>2. f \in h[m - 1] <=>
              \/ P(f) /\ \A k \in 1 .. m - 1 : ~L(f, k)
              \/ \E k \in 1 .. m - 1 : G(f, k)
        BY <3>2
      <4>3. \A k \in 1 .. m - 1 : G(f, k) => ~L(f, m)
        BY <3>4
      <4> HIDE DEF P, L, G
      <4> QED
        BY <4>1, <4>2, <4>3, <3>3
    <3> QED
      BY <3>5
  <2> QED
    BY <2>3, <2>4
<1> QED
  BY <1>2, <1>3

-----------------------------------------------------------------------------
(***************************************************************************)
(* The properties.                                                         *)
(***************************************************************************)

\* What there is after the first n operations.
LEMMA HaveAfter ==
  ASSUME TypesInv, MapInv, AllOps, Distinct(operations), NEW n \in 0 .. Len(operations)
  PROVE  \A f : f \in Have(n) <=>
                  \/ f \in Facts(Present) /\ \A k \in 1 .. n : f \notin Lost(operations[k])
                  \/ \E k \in 1 .. n : f \in Gained(operations[k])
<1>1. operations \in Seq(Ops) /\ Len(operations) \in Nat
  BY LenProperties DEF TypesInv
<1>2. n \in Nat /\ \A k \in 1 .. n : k \in 1 .. Len(operations)
  BY <1>1
<1>3. ASSUME NEW j \in 1 .. n, NEW k \in 1 .. n, j < k
      PROVE  Gained(operations[j]) \cap Lost(operations[k]) = {}
  <2>1. operations[j] \in Range(operations) /\ operations[k] \in Range(operations)
    BY <1>1, <1>2, RangeOf
  <2>2. operations[j] # operations[k]
    BY <1>2, <1>3 DEF Distinct
  <2> QED
    BY <2>1, <2>2, GainedNotLost
<1> QED
  BY <1>2, <1>3, HaveFacts

\* The operation at n, and those before it.
LEMMA EachApplies ==
  ASSUME TypesInv, MapInv, AllOps, Distinct(operations), DoneInv, NEW n \in 1 .. Len(operations)
  PROVE  Applies(n)
<1> DEFINE op == operations[n]
           p == op.package
           have == Have(n - 1)
<1>1. operations \in Seq(Ops) /\ Len(operations) \in Nat
  BY LenProperties DEF TypesInv
<1>2. /\ n - 1 \in 0 .. Len(operations)
      /\ \A k \in 1 .. n - 1 : k \in 1 .. Len(operations) /\ k # n
      /\ \A k \in 1 .. Len(operations) : k < n => k \in 1 .. n - 1
  BY <1>1
<1>3. \A f : f \in have <=>
               \/ f \in Facts(Present) /\ \A k \in 1 .. n - 1 : f \notin Lost(operations[k])
               \/ \E k \in 1 .. n - 1 : f \in Gained(operations[k])
  BY <1>2, HaveAfter
<1>4. op \in Range(operations) /\ \A k \in 1 .. n - 1 : operations[k] \in Range(operations)
                                                        /\ operations[k] # op
  <2>1. \A k \in 1 .. Len(operations) : operations[k] \in Range(operations)
    BY <1>1, RangeOf
  <2> QED
    BY <2>1, <1>2 DEF Distinct
<1> HIDE DEF op, have
<1>5. ASSUME NEW f \in have
      PROVE  \/ \E i \in Present : /\ f = Fact(i)
                                   /\ \A k \in 1 .. n - 1 : Fact(i) \notin Lost(operations[k])
             \/ \E k \in 1 .. n - 1 :
                  /\ f = Fact(operations[k].package) /\ operations[k].package \in Results
                  /\ ~Removes(operations[k])
  <2>1. CASE f \in Facts(Present) /\ \A k \in 1 .. n - 1 : f \notin Lost(operations[k])
    BY <2>1 DEF Facts
  <2>2. ASSUME NEW k \in 1 .. n - 1, f \in Gained(operations[k])
        PROVE  /\ f = Fact(operations[k].package) /\ operations[k].package \in Results
               /\ ~Removes(operations[k])
    BY <2>2, <1>4, OpFacts
  <2> QED
    BY <2>1, <2>2, <1>3, <1>5
<1>6. ASSUME ~Removes(op), NEW k \in 1 .. n - 1, operations[k].package \in Results,
             ~Removes(operations[k]), SameKey(operations[k].package, p)
      PROVE  FALSE
  <2>1. p \in Results
    BY <1>4, <1>6, OpFacts
  <2>2. operations[k].package = p
    BY <2>1, <1>6, KeyFacts
  <2> QED
    BY <2>2, <1>4, <1>6, OneOperation
<1>7. ASSUME NEW f \in have, NEW q, f.name = Package(q).name, ~f.alias, ~IsAlias(Package(q))
      PROVE  \/ \E i \in Present : f = Fact(i) /\ SameKey(i, q)
             \/ \E k \in 1 .. n - 1 : /\ operations[k].package \in Results /\ ~Removes(operations[k])
                                      /\ SameKey(operations[k].package, q)
  <2>1. \A i : f = Fact(i) => SameKey(i, q)
    <3>1. \A i : f = Fact(i) => Package(i).name = Package(q).name /\ ~IsAlias(Package(i))
      BY <1>7, FactKeys
    <3> QED
      BY <3>1, <1>7 DEF SameKey, HaveOneKey, IsAlias
  <2> QED
    BY <2>1, <1>5, <1>7
<1>8. CASE op.type = "install"
  <2>1. ~Removes(op) /\ ~IsAlias(Package(p)) /\ PresentWithKey(p) = {}
    BY <1>4, <1>8, OpFacts DEF Removes
  <2>2. ASSUME NEW f \in have, f.name = Package(p).name, ~f.alias
        PROVE  FALSE
    BY <2>1, <2>2, <1>6, <1>7 DEF PresentWithKey
  <2>3. Named(have, Package(p).name) = {}
    BY <2>2 DEF Named
  <2> QED
    BY <2>3, <1>8 DEF Applies, op, have
<1>9. CASE op.type = "update"
  <2>1. /\ ~Removes(op) /\ ~IsAlias(Package(p)) /\ p \in Results
        /\ op.from \in Present /\ SameKey(op.from, p) /\ Differs(p, op.from)
    BY <1>4, <1>9, OpFacts DEF Removes
  <2>2. ~IsAlias(Package(op.from))
    BY <2>1, KeyFacts
  <2>3. ASSUME NEW f \in have, f.name = Package(p).name, ~f.alias
        PROVE  f = Fact(op.from)
    <3>1. PICK i \in Present : f = Fact(i) /\ SameKey(i, p)
      BY <2>1, <2>3, <1>6, <1>7
    <3>2. i = op.from
      BY <3>1, <2>1, KeyFacts
    <3> QED
      BY <3>1, <3>2
  <2>4. Fact(op.from) \in have
    <3>1. ASSUME NEW k \in 1 .. n - 1, Fact(op.from) \in Lost(operations[k]) PROVE FALSE
      <4>1. ~Removes(operations[k]) /\ operations[k].package \in Results
            /\ SameKey(op.from, operations[k].package)
        BY <3>1, <2>1, <1>4, LostFacts
      <4>2. operations[k].package = p
        BY <4>1, <2>1, KeyFacts
      <4> QED
        BY <4>1, <4>2, <2>1, <1>4, OneOperation
    <3>2. Fact(op.from) \in Facts(Present)
      BY <2>1 DEF Facts
    <3> QED
      BY <3>1, <3>2, <1>3
  <2>5. Fact(op.from).name = Package(p).name /\ ~Fact(op.from).alias
    BY <2>1, <2>2, FactKeys DEF SameKey, HaveOneKey
  <2>6. Named(have, Package(p).name) = {Fact(op.from)}
    BY <2>3, <2>4, <2>5 DEF Named
  <2>7. Fact(op.from) # Fact(p)
    BY <2>1, <2>2, FactKeys
  <2> QED
    BY <2>6, <2>7, <1>9 DEF Applies, op, have
<1>10. CASE op.type = "mark_alias_installed"
  <2> DEFINE base == BaseOf(p)
  <2>1. ~Removes(op) /\ IsAlias(Package(p)) /\ p \in Results /\ PresentWithKey(p) = {}
    BY <1>4, <1>10, OpFacts DEF Removes
  <2>2. base \in Results /\ ~IsAlias(Package(base))
    BY <2>1, InstanceFacts DEF MapInv, BaseOf
  <2>3. Fact(p) \notin have
    <3>1. \A i \in Present : Fact(p) # Fact(i)
      BY <2>1, FactKeys DEF PresentWithKey
    <3>2. \A k \in 1 .. n - 1 :
            ~(/\ Fact(p) = Fact(operations[k].package) /\ operations[k].package \in Results
              /\ ~Removes(operations[k]))
      BY <2>1, <1>6, FactKeys
    <3> QED
      BY <3>1, <3>2, <1>5
  <2> HIDE DEF base
  <2>4. ASSUME NEW x \in Ops, IsChange(x, Results), Places(x), x.package = base
        PROVE  Fact(base) \in have
    <3>1. x \in Range(operations)
      BY <2>4 DEF AllOps
    <3>2. PICK k \in 1 .. Len(operations) : operations[k] = x
      BY <3>1, <1>1, RangeOf
    <3>3. MustPrecede(x, op) /\ ~Places(op)
      BY <2>4, <1>10 DEF MustPrecede, base, Places
    <3>4. Ahead(operations, x, op)
      BY <3>1, <3>3, <1>4 DEF DoneInv
    <3>5. k < n
      BY <3>2, <3>4 DEF Ahead, op
    <3>6. Fact(base) \in Gained(operations[k])
      BY <3>2, <2>4 DEF Gained, Places, Removes
    <3> QED
      BY <3>5, <3>6, <1>2, <1>3
  <2>5. Fact(base) \in have
    <3>1. CASE PresentWithKey(base) = {}
      <4> DEFINE x == Operation("install", 0, base)
      <4>1. x.package = base /\ x.type = "install"
        BY DEF Operation
      <4>2. x \in Ops
        BY <2>2 DEF Ops, Operation, OpTypes
      <4>3. IsChange(x, Results) /\ Places(x)
        BY <4>1, <3>1, <2>2 DEF IsChange, Places
      <4> QED
        BY <4>1, <4>2, <4>3, <2>4
    <3>2. ASSUME NEW i \in PresentWithKey(base), Differs(base, i)
          PROVE  Fact(base) \in have
      <4> DEFINE x == Operation("update", i, base)
      <4>1. x.package = base /\ x.type = "update" /\ x.from = i
        BY DEF Operation
      <4>2. x \in Ops
        BY <2>2, <3>2 DEF Ops, Operation, OpTypes, PresentWithKey
      <4>3. IsChange(x, Results) /\ Places(x)
        BY <4>1, <3>2, <2>2 DEF IsChange, Places
      <4> QED
        BY <4>1, <4>2, <4>3, <2>4
    <3>3. ASSUME NEW i \in PresentWithKey(base), ~Differs(base, i)
          PROVE  Fact(base) \in have
      <4>1. i \in Present /\ SameKey(i, base) /\ ~Differs(i, base)
        BY <3>3 DEF PresentWithKey, Differs
      <4>2. Fact(i) = Fact(base)
        BY <4>1, FactKeys
      <4>3. ASSUME NEW k \in 1 .. n - 1, Fact(i) \in Lost(operations[k]) PROVE FALSE
        <5>1. ~Removes(operations[k]) /\ operations[k].package \in Results
              /\ SameKey(i, operations[k].package) /\ Differs(operations[k].package, i)
          BY <4>1, <4>3, <2>2, <1>4, LostFacts
        <5>2. operations[k].package = base
          BY <5>1, <4>1, <2>2, KeyFacts
        <5> QED
          BY <5>1, <5>2, <3>3
      <4>4. Fact(i) \in Facts(Present)
        BY <4>1 DEF Facts
      <4> QED
        BY <4>2, <4>3, <4>4, <1>3
    <3> QED
      BY <3>1, <3>2, <3>3
  <2> QED
    BY <2>3, <2>5, <1>10 DEF Applies, op, have, base, BaseOf
<1>11. CASE op.type \notin {"install", "update", "mark_alias_installed"}
  <2>1. /\ Removes(op) /\ p \in Present
        /\ \A r \in Results : ~SameKey(p, r)
    BY <1>4, <1>11, OpFacts
  <2>2. ASSUME NEW k \in 1 .. n - 1, Fact(p) \in Lost(operations[k]) PROVE FALSE
    <3>1. Removes(operations[k]) /\ operations[k].package = p
      BY <2>1, <2>2, <1>4, LostFacts
    <3> QED
      BY <3>1, <2>1, <1>4, OneOperation
  <2>3. Fact(p) \in Facts(Present)
    BY <2>1 DEF Facts
  <2>4. Fact(p) \in have
    BY <2>2, <2>3, <1>3
  <2> QED
    BY <2>4, <1>11 DEF Applies, op, have
<1> QED
  BY <1>8, <1>9, <1>10, <1>11

LEMMA AllCarriedOver ==
  ASSUME TypesInv, MapInv, AllOps, Distinct(operations)
  PROVE  Have(Len(operations)) = Facts(Results)
<1>n. PICK n : n = Len(operations)
  OBVIOUS
<1>1. operations \in Seq(Ops) /\ n \in Nat /\ n \in 0 .. n
  BY <1>n, LenProperties DEF TypesInv
<1>2. \A f : f \in Have(n) <=>
               \/ f \in Facts(Present) /\ \A k \in 1 .. n : f \notin Lost(operations[k])
               \/ \E k \in 1 .. n : f \in Gained(operations[k])
  BY <1>1, <1>n, HaveAfter
<1>3. \A x : x \in Range(operations) <=> \E k \in 1 .. n : operations[k] = x
  BY <1>1, <1>n, RangeOf
<1>4. ASSUME NEW r \in Results
      PROVE  Fact(r) \in Have(n)
  <2>1. ASSUME NEW x \in Ops, IsChange(x, Results), x.package = r
        PROVE  Fact(r) \in Have(n)
    <3>1. x \in Range(operations)
      BY <2>1 DEF AllOps
    <3>2. Gained(x) = {Fact(r)}
      BY <2>1, ChangeTypes DEF Gained, Removes
    <3> QED
      BY <3>1, <3>2, <1>2, <1>3
  <2>2. CASE PresentWithKey(r) = {}
    <3> DEFINE x == Operation(IF IsAlias(Package(r)) THEN "mark_alias_installed" ELSE "install", 0, r)
    <3>1. x.package = r
      BY DEF Operation
    <3>2. x \in Ops
      BY DEF Ops, Operation, OpTypes
    <3>3. IsChange(x, Results)
      BY <3>1, <2>2 DEF IsChange
    <3> QED
      BY <3>1, <3>2, <3>3, <2>1
  <2>3. ASSUME NEW i \in PresentWithKey(r), ~IsAlias(Package(r)), Differs(r, i)
        PROVE  Fact(r) \in Have(n)
    <3> DEFINE x == Operation("update", i, r)
    <3>1. x.package = r /\ x.from = i
      BY DEF Operation
    <3>2. x \in Ops
      BY <2>3 DEF Ops, Operation, OpTypes, PresentWithKey
    <3>3. IsChange(x, Results)
      BY <3>1, <2>3 DEF IsChange
    <3> QED
      BY <3>1, <3>2, <3>3, <2>1
  <2>4. ASSUME NEW i \in PresentWithKey(r), IsAlias(Package(r)) \/ ~Differs(r, i)
        PROVE  Fact(r) \in Have(n)
    <3>1. i \in Present /\ SameKey(i, r) /\ (IsAlias(Package(i)) \/ ~Differs(i, r))
      BY <2>4, KeyFacts DEF PresentWithKey, Differs
    <3>2. Fact(i) = Fact(r)
      BY <3>1, FactKeys
    <3>3. ASSUME NEW k \in 1 .. n, Fact(i) \in Lost(operations[k]) PROVE FALSE
      <4> DEFINE a == operations[k]
      <4>1. a \in Range(operations)
        BY <1>3
      <4> HIDE DEF a
      <4>2. /\ ~Removes(a) /\ a.type = "update" /\ a.package \in Results
            /\ SameKey(i, a.package) /\ Differs(a.package, i)
        BY <4>1, <3>1, <3>3, LostFacts DEF a
      <4>3. a.package = r
        BY <4>2, <3>1, KeyFacts
      <4>4. ~IsAlias(Package(r))
        BY <4>1, <4>2, <4>3, OpFacts
      <4> QED
        BY <4>2, <4>3, <4>4, <2>4
    <3>4. Fact(i) \in Facts(Present)
      BY <3>1 DEF Facts
    <3> QED
      BY <3>2, <3>3, <3>4, <1>2
  <2> QED
    BY <2>2, <2>3, <2>4
<1>5. ASSUME NEW f \in Have(n)
      PROVE  f \in Facts(Results)
  <2>1. ASSUME NEW k \in 1 .. n, f \in Gained(operations[k])
        PROVE  f \in Facts(Results)
    <3>1. operations[k] \in Range(operations)
      BY <1>3
    <3>2. f = Fact(operations[k].package) /\ operations[k].package \in Results
      BY <3>1, <2>1, OpFacts
    <3> QED
      BY <3>2 DEF Facts
  <2>2. ASSUME NEW i \in Present, f = Fact(i), \A k \in 1 .. n : Fact(i) \notin Lost(operations[k])
        PROVE  f \in Facts(Results)
    <3>1. ASSUME NEW x \in Ops, IsChange(x, Results) \/ IsRemoval(x), Fact(i) \in Lost(x)
          PROVE  FALSE
      BY <3>1, <2>2, <1>3 DEF AllOps
    <3>2. PICK r \in Results : SameKey(i, r)
      <4> SUFFICES ASSUME \A r \in Results : ~SameKey(i, r) PROVE FALSE
        OBVIOUS
      <4> DEFINE x == Operation(IF IsAlias(Package(i)) THEN "mark_alias_uninstalled" ELSE "uninstall", 0, i)
      <4>1. x.package = i /\ Removes(x) /\ x.type # "update"
        BY DEF Operation, Removes
      <4>2. x \in Ops
        BY DEF Ops, Operation, OpTypes
      <4>3. IsRemoval(x)
        BY <4>1 DEF IsRemoval, IsGone
      <4>4. Fact(i) \in Lost(x)
        BY <4>1 DEF Lost
      <4> QED
        BY <4>2, <4>3, <4>4, <3>1
    <3>3. CASE IsAlias(Package(i)) \/ ~Differs(i, r)
      <4>1. f = Fact(r)
        BY <3>2, <3>3, <2>2, FactKeys
      <4> QED
        BY <4>1 DEF Facts
    <3>4. CASE ~IsAlias(Package(i)) /\ Differs(i, r)
      <4> DEFINE x == Operation("update", i, r)
      <4>1. x.package = r /\ x.from = i /\ x.type = "update"
        BY DEF Operation
      <4>2. x \in Ops
        BY DEF Ops, Operation, OpTypes
      <4>3. ~IsAlias(Package(r)) /\ i \in PresentWithKey(r) /\ Differs(r, i)
        BY <3>2, <3>4, KeyFacts DEF PresentWithKey, Differs
      <4>4. IsChange(x, Results)
        BY <4>1, <4>3 DEF IsChange
      <4>5. Fact(i) \in Lost(x)
        BY <4>1 DEF Lost
      <4> QED
        BY <4>2, <4>4, <4>5, <3>1
    <3> QED
      BY <3>3, <3>4
  <2> QED
    BY <2>1, <2>2, <1>2, <1>5 DEF Facts
<1> QED
  BY <1>4, <1>5, <1>n DEF Facts

LEMMA StateTypes ==
  ASSUME WalkStateInv
  PROVE  WalkTypes
<1>1. TypesInv /\ MapInv
  BY DEF WalkStateInv
<1>2. /\ roots \in Seq(Results) /\ stack \in Seq(Results) /\ operations \in Seq(Ops)
      /\ remove_map \in Seq(Present) /\ remove_alias_map \in Seq(Present)
  BY <1>1 DEF TypesInv
<1>3. /\ Range(roots) \subseteq Results /\ Range(stack) \subseteq Results
      /\ Range(remove_map) \subseteq Present /\ Range(remove_alias_map) \subseteq Present
      /\ Range(operations) \subseteq Ops
  BY <1>2, RangeOf
<1>4. visited \subseteq Results /\ processed \subseteq visited /\ cursor \in Nat
      /\ at \in {"roots", "walk", "plugins", "done"}
  BY <1>1 DEF TypesInv
<1>5. Results \subseteq DOMAIN inst.arena /\ Present \subseteq DOMAIN inst.arena
  BY <1>1, InstanceFacts DEF MapInv
<1>6. ASSUME NEW op \in Range(operations)
      PROVE  /\ op.type \in {"install", "update", "uninstall",
                             "mark_alias_installed", "mark_alias_uninstalled"}
             /\ op.package \in DOMAIN inst.arena
             /\ op.from \in IF op.type = "update" THEN Present ELSE {0}
  <2>1. op \in Ops
    BY <1>3
  <2>2. op.type \in OpTypes /\ op.package \in Results \cup Present
    BY <2>1 DEF Ops
  <2>3. IsChange(op, Results) \/ IsRemoval(op)
    <3>1. CASE at \in {"roots", "walk"}
      <4>1. IsChange(op, processed)
        BY <2>1, <3>1 DEF WalkStateInv, WalkedOps
      <4>2. processed \subseteq Results
        BY <1>4
      <4> QED
        BY <4>1, <4>2 DEF IsChange
    <3>2. CASE at \in {"plugins", "done"}
      BY <2>1, <3>2 DEF WalkStateInv, AllOps
    <3> QED
      BY <3>1, <3>2, <1>4
  <2>4. op.from \in IF op.type = "update" THEN Present ELSE {0}
    <3>1. \A t, f, p : Operation(t, f, p).type = t /\ Operation(t, f, p).from = f
      BY DEF Operation
    <3>2. CASE IsChange(op, Results)
      <4>1. \/ op = Operation("install", 0, op.package)
            \/ op = Operation("mark_alias_installed", 0, op.package)
            \/ op = Operation("update", op.from, op.package) /\ op.from \in Present
        BY <3>2 DEF IsChange, PresentWithKey
      <4> QED
        BY <4>1, <3>1
    <3>3. CASE IsRemoval(op)
      BY <3>1, <3>3 DEF IsRemoval
    <3> QED
      BY <2>3, <3>2, <3>3
  <2> QED
    BY <2>2, <2>4, <1>5 DEF OpTypes
<1>7. \A why \in {"dl", "plugin"} : needed[why] \cap PlatformNames = {}
  <2>1. Requirable \cap PlatformNames = {}
    BY DEF Requirable, NonPlatformRequires
  <2>2. needed \in [{"dl", "plugin"} -> SUBSET Requirable]
    BY <1>1 DEF TypesInv
  <2> QED
    BY <2>1, <2>2
<1>8. at = "plugins" => taken \subseteq DOMAIN operations
  <2> SUFFICES ASSUME at = "plugins" PROVE taken \subseteq DOMAIN operations
    OBVIOUS
  <2>1. cursor \in Nat /\ taken \subseteq cursor + 1 .. Len(operations)
    BY <1>4 DEF WalkStateInv, MovesInv, ListsInv
  <2>2. Len(operations) \in Nat /\ DOMAIN operations = 1 .. Len(operations)
    BY <1>2, LenProperties
  <2> QED
    BY <2>1, <2>2
<1> QED
  BY <1>3, <1>4, <1>6, <1>7, <1>8 DEF WalkTypes

LEMMA StateCarriesOver ==
  ASSUME WalkStateInv
  PROVE  OperationsCarryOver
<1> SUFFICES ASSUME at = "done"
             PROVE  /\ \A n \in DOMAIN operations : Applies(n)
                    /\ Have(Len(operations)) = Facts(Results)
  BY DEF OperationsCarryOver
<1>1. TypesInv /\ MapInv /\ AllOps /\ Distinct(operations) /\ DoneInv
  BY DEF WalkStateInv
<1>2. DOMAIN operations = 1 .. Len(operations)
  BY <1>1, LenProperties DEF TypesInv
<1> QED
  BY <1>1, <1>2, EachApplies, AllCarriedOver

LEMMA StateDependenciesFirst ==
  ASSUME WalkStateInv
  PROVE  DependenciesFirst
<1> SUFFICES ASSUME at = "done", NEW id \in Results, ~IsAlias(Package(id)), ~OnCycle(id),
                    NEW q \in Range(Pushed(id)),
                    ~(NeededByPlugins(id) /\ NonPlatformRequires(id) \cap NamesOf(q) = {}),
                    NEW m \in Position(q), NEW n \in Position(id)
             PROVE  m < n
  BY DEF DependenciesFirst
<1>1. DoneInv /\ operations \in Seq(Ops)
  BY DEF WalkStateInv, TypesInv
<1>2. m \in 1 .. Len(operations) /\ n \in 1 .. Len(operations)
  BY <1>1, LenProperties DEF Position
<1> DEFINE a == operations[m]
           b == operations[n]
<1>3. a \in Range(operations) /\ b \in Range(operations)
  BY <1>1, <1>2, RangeOf
<1>4. Places(a) /\ a.package = q /\ Places(b) /\ b.package = id
  BY DEF Position
<1> HIDE DEF a, b
<1>5. MustPrecede(a, b) /\ ~Exempt(a, b)
  BY <1>4 DEF MustPrecede, Exempt
<1>6. Ahead(operations, a, b)
  BY <1>1, <1>3, <1>5 DEF DoneInv
<1> QED
  BY <1>2, <1>6 DEF Ahead, a, b

LEMMA StatePluginsFirst ==
  ASSUME WalkStateInv
  PROVE  PluginsFirst
<1> SUFFICES ASSUME at = "done", NEW types \in {{"dl_plugin"}, PluginTypes}, NEW X \in SUBSET Results,
                    HasWithNeeds(X, types),
                    NEW n \in DOMAIN operations, NEW m \in 1 .. n - 1,
                    Places(operations[m]), Places(operations[n]),
                    Package(operations[n].package).type \in types,
                    operations[m].package \notin X
             PROVE  FALSE
  BY DEF PluginsFirst
<1>1. DoneInv /\ operations \in Seq(Ops)
  BY DEF WalkStateInv, TypesInv
<1>2. n \in 1 .. Len(operations) /\ m \in 1 .. Len(operations) /\ m < n
  BY <1>1, LenProperties
<1>3. operations[m] \in Range(operations) /\ operations[n] \in Range(operations)
  BY <1>1, <1>2, RangeOf
<1>4. Ahead(operations, operations[n], operations[m])
  BY <1>1, <1>3 DEF DoneInv
<1> QED
  BY <1>2, <1>4 DEF Ahead

\* In every state of the walk its invariant holds.
THEOREM WalkStateAlways == WalkSpec => []WalkStateInv
<1>1. WalkInit => WalkStateInv
  BY WalkInitState
<1>2. WalkStateInv /\ [WalkNext]_walkVars => WalkStateInv'
  BY WalkStateStep
<1> QED
  BY <1>1, <1>2, PTL DEF WalkSpec

\* For every instance: the operations of a transaction, applied in their order to
\* what is present, give the result, each finding what it expects; what a package
\* requires comes before it, but for cycles and what plugins need of the platform;
\* and only what a plugin needs comes before it (Transaction::new).
THEOREM OperationsAlwaysInOrder == WalkSpec => []OperationsInOrder
<1>1. WalkStateInv => OperationsInOrder
  BY StateTypes, StateCarriesOver, StateDependenciesFirst, StatePluginsFirst DEF OperationsInOrder
<1> QED
  BY <1>1, WalkStateAlways, PTL
===============================================================================
