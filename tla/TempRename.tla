------------------------------ MODULE TempRename ------------------------------
(***************************************************************************)
(* Writing a cache entry through a temporary file and a rename, as the     *)
(* dist cache (fetch.rs), the metadata cache (metacache.rs) and the        *)
(* classmap cache (classmap.rs) do.  They differ in the name of the        *)
(* temporary file: the dist cache gives it one name for everybody, the     *)
(* others put the process id in it.                                        *)
(*                                                                         *)
(* A name leads to an inode, and an open file stays on its inode: opening  *)
(* an existing temporary file truncates what another process is writing,   *)
(* and a rename moves whatever the name leads to.  std::fs::write opens    *)
(* (create, truncate) and then writes; here in Chunks steps.  A process    *)
(* writes once; one that comes back is another writer.                     *)
(***************************************************************************)
EXTENDS Naturals

CONSTANTS Writers,
          Names,       \* the names of temporary files
          NameOf,      \* NameOf[w]: the one that w uses
          Exclusive,   \* TRUE: two living writers never share a name
          Tidy,        \* TRUE: a failed rename removes the temporary file
          Versions,    \* the contents that may be written
          Chunks,      \* steps of a write
          None

ASSUME TempRenameAssumption ==
  /\ NameOf \in [Writers -> Names]
  /\ Exclusive \in BOOLEAN
  /\ Tidy \in BOOLEAN
  /\ Chunks \in Nat \ {0}
  /\ None \notin Writers \cup Versions

VARIABLES stage,     \* stage[w] \in WriteStages
          payload,   \* payload[w]: what w writes
          fd,        \* fd[w]: the inode w has open, or None
          sent,      \* sent[w]: the chunks w has written
          names,     \* names[n]: the inode of temporary file n, or None
          entry,     \* the inode of the cache entry, or None
          content    \* content[i]: the chunks of inode i, None where unwritten

writeVars == <<stage, payload, fd, sent, names, entry, content>>

WriteStages == {"idle", "writing", "closed", "dead"}

Blank == [k \in 1 .. Chunks |-> None]

Full(v) == [k \in 1 .. Chunks |-> v]

WriteInit ==
  /\ stage = [w \in Writers |-> "idle"]
  /\ payload \in [Writers -> Versions]
  /\ fd = [w \in Writers |-> None]
  /\ sent = [w \in Writers |-> 0]
  /\ names = [n \in Names |-> None]
  /\ entry = None
  /\ content = [i \in Writers |-> Blank]

\* The living writers of a name.
Holders(n) == {w \in Writers : stage[w] = "writing" /\ NameOf[w] = n}

\* The inode behind w's temporary name: the one there, or a new one, w.
Inode(w) == IF names[NameOf[w]] = None THEN w ELSE names[NameOf[w]]

\* File::create: the inode behind the name is truncated.
Create(w) ==
  /\ stage[w] = "idle"
  /\ Exclusive => Holders(NameOf[w]) = {}
  /\ fd' = [fd EXCEPT ![w] = Inode(w)]
  /\ names' = [names EXCEPT ![NameOf[w]] = Inode(w)]
  /\ content' = [content EXCEPT ![Inode(w)] = Blank]
  /\ stage' = [stage EXCEPT ![w] = "writing"]
  /\ UNCHANGED <<payload, sent, entry>>

WriteChunk(w) ==
  /\ stage[w] = "writing"
  /\ sent[w] < Chunks
  /\ sent' = [sent EXCEPT ![w] = @ + 1]
  /\ content' = [content EXCEPT ![fd[w]][sent[w] + 1] = payload[w]]
  /\ UNCHANGED <<stage, payload, fd, names, entry>>

Close(w, how) ==
  /\ stage[w] = "writing"
  /\ stage' = [stage EXCEPT ![w] = how]
  /\ fd' = [fd EXCEPT ![w] = None]
  /\ UNCHANGED <<payload, sent, content>>

\* A full disk: the caller carries on without the cache, the temporary file
\* stays.
WriteFails(w) ==
  /\ sent[w] < Chunks
  /\ Close(w, "closed")
  /\ UNCHANGED <<names, entry>>

\* (mutant: the outcome of the write is not looked at)
RenameUnchecked(w) ==
  /\ names[NameOf[w]] # None
  /\ Close(w, "closed")
  /\ entry' = names[NameOf[w]]
  /\ names' = [names EXCEPT ![NameOf[w]] = None]

\* rename(2) by name, whatever inode the name leads to by now.
RenameTemp(w) ==
  /\ sent[w] = Chunks
  /\ names[NameOf[w]] # None
  /\ Close(w, "closed")
  /\ entry' = names[NameOf[w]]
  /\ names' = [names EXCEPT ![NameOf[w]] = None]

\* Another writer of the name has renamed it, or the system refuses.
RenameTempFails(w) ==
  /\ sent[w] = Chunks
  /\ Close(w, "closed")
  /\ names' = IF Tidy THEN [names EXCEPT ![NameOf[w]] = None] ELSE names
  /\ UNCHANGED entry

Die(w) ==
  /\ Close(w, "dead")
  /\ UNCHANGED <<names, entry>>

WriteStep(w) ==
  \/ Create(w)
  \/ WriteChunk(w)
  \/ WriteFails(w)
  \/ RenameTemp(w)
  \/ RenameTempFails(w)
  \/ Die(w)

WriteSpec == WriteInit /\ [][\E w \in Writers : WriteStep(w)]_writeVars

-----------------------------------------------------------------------------
WriteTypeOK ==
  /\ stage \in [Writers -> WriteStages]
  /\ payload \in [Writers -> Versions]
  /\ fd \in [Writers -> Writers \cup {None}]
  /\ sent \in [Writers -> 0 .. Chunks]
  /\ names \in [Names -> Writers \cup {None}]
  /\ entry \in Writers \cup {None}
  /\ content \in [Writers -> [1 .. Chunks -> Versions \cup {None}]]

\* A reader of the entry, which takes no lock, finds the whole of what one
\* writer wrote, whoever is writing or died writing: the "atomic write (temp +
\* rename)" of metacache.rs:128.
EntryWhole == entry # None => \E v \in Versions : content[entry] = Full(v)

\* The file a reader has open is never written to: what goes on happens to
\* other inodes, until a rename changes the entry.
EntryNotRewritten ==
  [][entry # None => content'[entry] = content[entry]]_writeVars
===============================================================================
