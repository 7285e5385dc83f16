-------------------------------- MODULE Store --------------------------------
(***************************************************************************)
(* The content-addressed store, shared by every vivacity process of a      *)
(* user.  Store::ensure extracts an archive into a temporary directory of  *)
(* its own, next to the entry, and renames it; the existence of the        *)
(* entry's directory is the only record that the entry is complete.        *)
(* Processes interleave between any two file operations, an extraction may *)
(* fail or be handed a damaged archive, a process may die anywhere.  A     *)
(* process that comes back is another element of Procs.                    *)
(***************************************************************************)
EXTENDS Functions

CONSTANTS Procs, Entries,
          Archives,    \* what may be downloaded
          Damaged,     \* the archives that do not extract to the end
          FilesOf,     \* FilesOf[a]: the files that archive a extracts to
          Absent       \* no directory, no entry

ASSUME StoreAssumption ==
  /\ Damaged \subseteq Archives
  /\ Absent \notin Entries
  /\ FilesOf \in [Archives -> SUBSET UNION Range(FilesOf)]
  /\ \A a \in Archives \ Damaged : FilesOf[a] # {}   \* rename(2), below
  /\ \A a \in Archives \ Damaged : [f \in FilesOf[a] |-> a] # Absent

VARIABLES pc,       \* pc[p] \in Stages
          asked,    \* asked[p]: the entry p ensures, or Absent
          bytes,    \* bytes[p]: the archive p was given
          temp,     \* temp[p]: p's temporary directory, or Absent
          store     \* store[e]: the directory of entry e, or Absent

vars == <<pc, asked, bytes, temp, store>>

Stages == {"idle", "extract", "discard", "abandon", "ok", "error", "crashed"}

\* The processes in the middle of an ensure.
Busy == {p \in Procs : pc[p] \in {"extract", "discard", "abandon"}}

\* A directory: the archive that each of its files comes from.
EmptyTree == [f \in {} |-> Absent]

TreeOf(a) == [f \in FilesOf[a] |-> a]

Trees == {TreeOf(a) : a \in Archives \ Damaged}

\* What an extraction of archive a may have written so far.
PartialTrees(a) == {[f \in S |-> a] : S \in SUBSET FilesOf[a]}

Directories == UNION {PartialTrees(a) : a \in Archives}

Init ==
  /\ pc = [p \in Procs |-> "idle"]
  /\ asked = [p \in Procs |-> Absent]
  /\ bytes \in [Procs -> Archives]
  /\ temp = [p \in Procs |-> Absent]
  /\ store = [e \in Entries |-> Absent]

\* `if final_path.is_dir()`: the entry that is there wins, whatever the bytes.
Found(p, e) ==
  /\ pc[p] = "idle"
  /\ store[e] # Absent
  /\ asked' = [asked EXCEPT ![p] = e]
  /\ pc' = [pc EXCEPT ![p] = "ok"]
  /\ UNCHANGED <<bytes, temp, store>>

\* tempdir_in: a name no other process has.
OpenTemp(p, e) ==
  /\ pc[p] = "idle"
  /\ store[e] = Absent
  /\ asked' = [asked EXCEPT ![p] = e]
  /\ temp' = [temp EXCEPT ![p] = EmptyTree]
  /\ pc' = [pc EXCEPT ![p] = "extract"]
  /\ UNCHANGED <<bytes, store>>

MissingFiles(p) == FilesOf[bytes[p]] \ DOMAIN temp[p]

ExtractFile(p, f) ==
  /\ pc[p] = "extract"
  /\ f \in MissingFiles(p)
  /\ temp' = [temp EXCEPT ![p] =
                [g \in DOMAIN temp[p] \cup {f} |->
                   IF g = f THEN bytes[p] ELSE temp[p][g]]]
  /\ UNCHANGED <<pc, asked, bytes, store>>

\* extract_zip fails: the TempDir guard removes what was extracted.
ExtractFails(p) ==
  /\ pc[p] = "extract"
  /\ temp' = [temp EXCEPT ![p] = Absent]
  /\ pc' = [pc EXCEPT ![p] = "error"]
  /\ UNCHANGED <<asked, bytes, store>>

\* (mutant: the rename does not wait for the extraction)
ExtractedOrNot(p) ==
  /\ pc[p] = "extract"
  /\ bytes[p] \notin Damaged

Extracted(p) ==
  /\ pc[p] = "extract"
  /\ bytes[p] \notin Damaged
  /\ MissingFiles(p) = {}

\* rename(2) replaces a directory only if it is empty.
CanReplace(e) == store[e] \in {Absent, EmptyTree}

Rename(p) ==
  /\ Extracted(p)
  /\ CanReplace(asked[p])
  /\ store' = [store EXCEPT ![asked[p]] = temp[p]]
  /\ temp' = [temp EXCEPT ![p] = Absent]
  /\ pc' = [pc EXCEPT ![p] = "ok"]
  /\ UNCHANGED <<asked, bytes>>

\* (mutant: the loser of the rename keeps its temporary directory)
RenameFailsKeeping(p) ==
  /\ Extracted(p)
  /\ pc' = [pc EXCEPT ![p] = IF store[asked[p]] # Absent THEN "ok" ELSE "error"]
  /\ UNCHANGED <<asked, bytes, temp, store>>

\* (mutant: every failed rename is taken for a lost one)
RenameFailsBlindly(p) ==
  /\ Extracted(p)
  /\ pc' = [pc EXCEPT ![p] = "discard"]
  /\ UNCHANGED <<asked, bytes, temp, store>>

\* The rename failed, because another process won it or for another reason:
\* the temporary directory goes, and the answer depends on is_dir.
RenameFails(p) ==
  /\ Extracted(p)
  /\ pc' = [pc EXCEPT ![p] = IF store[asked[p]] # Absent THEN "discard"
                                                         ELSE "abandon"]
  /\ UNCHANGED <<asked, bytes, temp, store>>

\* remove_dir_all(&tmp_path), whose own failure is ignored.
RemoveTemp(p) ==
  /\ pc[p] \in {"discard", "abandon"}
  /\ temp' = [temp EXCEPT ![p] = Absent]
  /\ pc' = [pc EXCEPT ![p] = IF @ = "discard" THEN "ok" ELSE "error"]
  /\ UNCHANGED <<asked, bytes, store>>

Crash(p) ==
  /\ p \in Busy
  /\ pc' = [pc EXCEPT ![p] = "crashed"]
  /\ UNCHANGED <<asked, bytes, temp, store>>

Next ==
  \E p \in Procs :
    \/ \E e \in Entries : Found(p, e) \/ OpenTemp(p, e)
    \/ \E f \in UNION Range(FilesOf) : ExtractFile(p, f)
    \/ ExtractFails(p)
    \/ Rename(p)
    \/ RenameFails(p)
    \/ RemoveTemp(p)
    \/ Crash(p)

Spec == Init /\ [][Next]_vars

-----------------------------------------------------------------------------
\* The types; a temporary directory holds files of its owner's archive alone.
TypeOK ==
  /\ pc \in [Procs -> Stages]
  /\ asked \in [Procs -> Entries \cup {Absent}]
  /\ bytes \in [Procs -> Archives]
  /\ temp \in [Procs -> Directories \cup {Absent}]
  /\ store \in [Entries -> Directories \cup {Absent}]
  /\ \A p \in Procs : temp[p] \in PartialTrees(bytes[p]) \cup {Absent}

\* The final directory only exists complete: all the files of one archive,
\* whoever died in the middle of an extraction (store.rs, the module's comment).
EntriesWhole == \A e \in Entries : store[e] \in Trees \cup {Absent}

\* An entry never changes once it exists: nobody renames over it, projects
\* that cloned it may rely on it (Store::ensure, the existing entry wins).
EntriesNeverChange ==
  [][\A e \in Entries : store[e] # Absent => store'[e] = store[e]]_store

\* Only a process that died leaves a temporary directory behind: the loser of
\* a rename and the victim of a bad archive remove theirs.
OnlyCrashesLeak ==
  \A p \in Procs : temp[p] # Absent => p \in Busy \/ pc[p] = "crashed"

\* The store keeps the promise: however the extractions interleave, entries
\* appear in one step and nobody is told of an entry that is not there.
Promise == INSTANCE StorePromise WITH
  shelf <- store,
  request <- asked,
  answer <- [p \in Procs |-> IF pc[p] \in {"ok", "error"} THEN pc[p] ELSE "none"]

KeepsPromise == Promise!Spec
===============================================================================
