--------------------------- MODULE DistCacheProofs ---------------------------
(***************************************************************************)
(* Why a temporary file and a rename make an atomic write, and what it     *)
(* takes: the temporary name must be the writer's own while it writes      *)
(* (Exclusive).  The names then lead to different inodes, none of them the *)
(* entry's, so that truncating one or writing to it touches neither the    *)
(* entry nor another writer's file, and the inode behind a writer's name   *)
(* at the rename is the one it filled.                                     *)
(*                                                                         *)
(* Then what dist_bytes owes to its callers, for any number of processes   *)
(* that share a cache of dists under any temporary names, and die          *)
(* anywhere: with a checksum, the archive that it names or an error;       *)
(* offline, neither a download nor a write.  Nothing is asked of the       *)
(* temporary names: it is the checksum that makes up for their being       *)
(* shared.                                                                 *)
(***************************************************************************)
EXTENDS DistCache, TLAPS


\* A writer has the inode behind its name open.
OwnInode ==
  \A w \in Writers :
    stage[w] = "writing" => fd[w] # None /\ fd[w] = names[NameOf[w]]

\* The names lead to different inodes, none of which is the entry.
NamesApart ==
  /\ \A m, n \in Names : names[m] # None /\ names[m] = names[n] => m = n
  /\ \A n \in Names : names[n] # None => names[n] # entry

\* What a writer has sent is in its inode.
SentIsThere ==
  \A w \in Writers :
    stage[w] = "writing" =>
      \A k \in 1 .. sent[w] : content[fd[w]][k] = payload[w]

\* The inode of a writer that has not started is not in use.
FreshInodes ==
  \A i \in Writers :
    stage[i] = "idle" =>
      /\ sent[i] = 0
      /\ entry # i
      /\ \A n \in Names : names[n] # i

OneHolder ==
  \A v, w \in Writers :
    stage[v] = "writing" /\ stage[w] = "writing" /\ NameOf[v] = NameOf[w]
      => v = w

WriteInv ==
  /\ WriteTypeOK
  /\ OwnInode
  /\ NamesApart
  /\ SentIsThere
  /\ FreshInodes
  /\ OneHolder
  /\ EntryWhole

\* The inductive invariant holds at the start: nothing is written.
LEMMA InitWriteInv == WriteInit => WriteInv
<1> SUFFICES ASSUME WriteInit PROVE WriteInv
  OBVIOUS
<1> USE TempRenameAssumption DEF WriteInit
<1>1. WriteTypeOK
  BY DEF WriteTypeOK, WriteStages, Blank
<1>2. OwnInode /\ NamesApart /\ SentIsThere /\ OneHolder
  BY DEF OwnInode, NamesApart, SentIsThere, OneHolder
<1>3. FreshInodes
  BY DEF FreshInodes
<1>4. EntryWhole
  BY DEF EntryWhole
<1> QED BY <1>1, <1>2, <1>3, <1>4 DEF WriteInv

\* Creating the temporary file truncates an inode that is nobody's.
LEMMA CreateKeeps ==
  ASSUME Exclusive, WriteInv, NEW w \in Writers, Create(w)
  PROVE  WriteInv'
<1> DEFINE i == Inode(w)
<1> USE TempRenameAssumption DEF WriteInv
<1>1. stage[w] = "idle" /\ NameOf[w] \in Names /\ sent[w] = 0
  BY DEF Create, FreshInodes
<1>2. i \in Writers
  BY <1>1 DEF Inode, WriteTypeOK
<1>3. i # entry
  BY <1>1 DEF Inode, NamesApart, FreshInodes, WriteTypeOK
<1>4. \A n \in Names : n # NameOf[w] => names[n] # i
  BY <1>1 DEF Inode, NamesApart, FreshInodes, WriteTypeOK
<1>5. \A v \in Writers :
        stage[v] = "writing" => NameOf[v] # NameOf[w] /\ v # w /\ fd[v] # i
  BY <1>1, <1>4 DEF Create, Holders, OwnInode
<1>6. stage[i] = "idle" => i = w
  BY <1>1, <1>2 DEF Inode, FreshInodes
<1> HIDE DEF i
<1>7. /\ fd' = [fd EXCEPT ![w] = i]
      /\ names' = [names EXCEPT ![NameOf[w]] = i]
      /\ content' = [content EXCEPT ![i] = Blank]
      /\ stage' = [stage EXCEPT ![w] = "writing"]
      /\ payload' = payload /\ sent' = sent /\ entry' = entry
  BY DEF Create, i
<1>8. WriteTypeOK'
  <2>1. Blank \in [1 .. Chunks -> Versions \cup {None}]
    BY DEF Blank
  <2> QED BY <2>1, <1>1, <1>2, <1>7 DEF WriteTypeOK, WriteStages
<1>9. OwnInode'
  BY <1>1, <1>2, <1>5, <1>7 DEF OwnInode, WriteTypeOK
<1>10. NamesApart'
  BY <1>1, <1>3, <1>4, <1>7 DEF NamesApart, WriteTypeOK
<1>11. SentIsThere'
  BY <1>1, <1>2, <1>5, <1>7 DEF SentIsThere, WriteTypeOK
<1>12. FreshInodes'
  BY <1>1, <1>2, <1>6, <1>7 DEF FreshInodes, WriteTypeOK
<1>13. OneHolder'
  BY <1>1, <1>5, <1>7 DEF OneHolder, WriteTypeOK
<1>14. EntryWhole'
  BY <1>2, <1>3, <1>7 DEF EntryWhole, WriteTypeOK
<1> QED BY <1>8, <1>9, <1>10, <1>11, <1>12, <1>13, <1>14

\* Writing touches the writer's inode alone.
LEMMA WriteChunkKeeps ==
  ASSUME WriteInv, NEW w \in Writers, WriteChunk(w)
  PROVE  WriteInv'
<1> USE TempRenameAssumption DEF WriteInv, WriteChunk
<1>1. fd[w] \in Writers /\ fd[w] # entry /\ fd[w] = names[NameOf[w]]
  BY DEF OwnInode, NamesApart, WriteTypeOK
<1>2. \A v \in Writers : stage[v] = "writing" /\ v # w => fd[v] # fd[w]
  BY <1>1 DEF OwnInode, NamesApart, OneHolder
<1>3. sent[w] \in 0 .. Chunks /\ sent[w] + 1 \in 1 .. Chunks
  BY DEF WriteTypeOK
<1>4. content' = [content EXCEPT ![fd[w]] =
                    [content[fd[w]] EXCEPT ![sent[w] + 1] = payload[w]]]
  OBVIOUS
<1>5. WriteTypeOK'
  <2>1. [content[fd[w]] EXCEPT ![sent[w] + 1] = payload[w]]
          \in [1 .. Chunks -> Versions \cup {None}]
    BY <1>1, <1>3 DEF WriteTypeOK
  <2> QED BY <2>1, <1>1, <1>3, <1>4 DEF WriteTypeOK
<1>6. OwnInode' /\ NamesApart' /\ OneHolder'
  BY DEF OwnInode, NamesApart, OneHolder
<1>7. SentIsThere'
  <2> SUFFICES ASSUME NEW v \in Writers, stage[v] = "writing",
                      NEW k \in 1 .. sent'[v]
               PROVE  content'[fd[v]][k] = payload[v]
    BY DEF SentIsThere
  <2>1. CASE v # w
    BY <2>1, <1>1, <1>2, <1>4 DEF SentIsThere, WriteTypeOK, OwnInode
  <2>2. CASE v = w /\ k = sent[w] + 1
    BY <2>2, <1>1, <1>3, <1>4 DEF WriteTypeOK
  <2>3. CASE v = w /\ k # sent[w] + 1
    <3>1. k \in 1 .. sent[w]
      BY <2>3, <1>3 DEF WriteTypeOK
    <3>2. content'[fd[w]][k] = content[fd[w]][k]
      BY <3>1, <2>3, <1>1, <1>3, <1>4 DEF WriteTypeOK
    <3> QED BY <3>1, <3>2, <2>3 DEF SentIsThere
  <2> QED BY <2>1, <2>2, <2>3
<1>8. FreshInodes'
  BY <1>3 DEF FreshInodes, WriteTypeOK
<1>9. EntryWhole'
  BY <1>1, <1>4 DEF EntryWhole, WriteTypeOK
<1> QED BY <1>5, <1>6, <1>7, <1>8, <1>9

\* A writer that stops without renaming gives up its inode, at most.
LEMMA StopKeeps ==
  ASSUME WriteInv, NEW w \in Writers, NEW how \in {"closed", "dead"},
         Close(w, how), UNCHANGED entry,
         \/ UNCHANGED names
         \/ names' = [names EXCEPT ![NameOf[w]] = None]
  PROVE  WriteInv'
<1> USE TempRenameAssumption DEF WriteInv, Close
<1>1. WriteTypeOK'
  BY DEF WriteTypeOK, WriteStages
<1>2. OwnInode'
  BY DEF OwnInode, OneHolder, WriteTypeOK
<1>3. NamesApart'
  BY DEF NamesApart, WriteTypeOK
<1>4. SentIsThere'
  BY DEF SentIsThere, WriteTypeOK
<1>5. FreshInodes'
  BY DEF FreshInodes, WriteTypeOK
<1>6. OneHolder'
  BY DEF OneHolder, WriteTypeOK
<1>7. EntryWhole'
  BY DEF EntryWhole
<1> QED BY <1>1, <1>2, <1>3, <1>4, <1>5, <1>6, <1>7

\* What is renamed is the inode the writer has filled.
LEMMA RenameKeeps ==
  ASSUME WriteInv, NEW w \in Writers, RenameTemp(w)
  PROVE  WriteInv'
<1> USE TempRenameAssumption DEF WriteInv, RenameTemp, Close
<1>1. entry' = fd[w] /\ fd[w] \in Writers /\ fd[w] = names[NameOf[w]]
  BY DEF OwnInode, WriteTypeOK
<1>2. content[fd[w]] = Full(payload[w]) /\ payload[w] \in Versions
  BY <1>1 DEF SentIsThere, Full, WriteTypeOK
<1>3. EntryWhole'
  BY <1>1, <1>2 DEF EntryWhole
<1>4. WriteTypeOK'
  BY <1>1 DEF WriteTypeOK, WriteStages
<1>5. OwnInode'
  BY DEF OwnInode, OneHolder, WriteTypeOK
<1>6. NamesApart'
  BY <1>1 DEF NamesApart, WriteTypeOK
<1>7. SentIsThere'
  BY DEF SentIsThere, WriteTypeOK
<1>8. FreshInodes'
  BY <1>1 DEF FreshInodes, WriteTypeOK
<1>9. OneHolder'
  BY DEF OneHolder, WriteTypeOK
<1> QED BY <1>3, <1>4, <1>5, <1>6, <1>7, <1>8, <1>9

\* One step, by action.
LEMMA StepKeepsWriteInv ==
  ASSUME Exclusive, WriteInv, [\E w \in Writers : WriteStep(w)]_writeVars
  PROVE  WriteInv'
<1>1. CASE UNCHANGED writeVars
  BY <1>1 DEF writeVars, WriteInv, WriteTypeOK, OwnInode, NamesApart,
              SentIsThere, FreshInodes, OneHolder, EntryWhole
<1>2. ASSUME NEW w \in Writers, WriteStep(w) PROVE WriteInv'
  <2>1. CASE Create(w)
    BY <2>1, CreateKeeps
  <2>2. CASE WriteChunk(w)
    BY <2>2, WriteChunkKeeps
  <2>3. CASE WriteFails(w)
    BY <2>3, StopKeeps DEF WriteFails
  <2>4. CASE RenameTemp(w)
    BY <2>4, RenameKeeps
  <2>5. CASE RenameTempFails(w)
    BY <2>5, StopKeeps DEF RenameTempFails
  <2>6. CASE Die(w)
    BY <2>6, StopKeeps DEF Die
  <2> QED BY <1>2, <2>1, <2>2, <2>3, <2>4, <2>5, <2>6 DEF WriteStep
<1> QED BY <1>1, <1>2

\* A reader finds the whole of what one writer wrote, however many writers
\* there are and wherever they die, when no two share a temporary name while
\* they write (metacache.rs:128, classmap.rs:449).
THEOREM EntryStaysWhole == Exclusive => (WriteSpec => []EntryWhole)
<1> SUFFICES ASSUME Exclusive PROVE WriteSpec => []EntryWhole
  OBVIOUS
<1>1. WriteInit => WriteInv
  BY InitWriteInv
<1>2. WriteInv /\ [\E w \in Writers : WriteStep(w)]_writeVars => WriteInv'
  BY StepKeepsWriteInv
<1>3. WriteInv => EntryWhole
  BY DEF WriteInv
<1> QED BY <1>1, <1>2, <1>3, PTL DEF WriteSpec

\* No step changes the file behind the entry: a reader that has it open goes
\* on reading what it opened, through any number of renames.
THEOREM EntryIsNotRewritten == Exclusive => (WriteSpec => EntryNotRewritten)
<1> SUFFICES ASSUME Exclusive PROVE WriteSpec => EntryNotRewritten
  OBVIOUS
<1>1. ASSUME WriteInv, [\E w \in Writers : WriteStep(w)]_writeVars
      PROVE  [entry # None => content'[entry] = content[entry]]_writeVars
  <2> USE TempRenameAssumption DEF WriteInv
  <2>1. ASSUME NEW w \in Writers, Create(w), entry # None
        PROVE  content'[entry] = content[entry]
    <3>1. Inode(w) # entry
      BY <1>1, <2>1 DEF Create, Inode, NamesApart, FreshInodes, WriteTypeOK
    <3> QED BY <1>1, <2>1, <3>1 DEF Create, WriteTypeOK
  <2>2. ASSUME NEW w \in Writers, WriteChunk(w), entry # None
        PROVE  content'[entry] = content[entry]
    <3>1. fd[w] # entry
      BY <1>1, <2>2 DEF WriteChunk, OwnInode, NamesApart, WriteTypeOK
    <3> QED BY <1>1, <2>2, <3>1 DEF WriteChunk, WriteTypeOK
  <2>3. ASSUME NEW w \in Writers,
               WriteFails(w) \/ RenameTemp(w) \/ RenameTempFails(w) \/ Die(w)
        PROVE  content' = content
    BY <2>3 DEF WriteFails, RenameTemp, RenameTempFails, Die, Close
  <2> QED BY <1>1, <2>1, <2>2, <2>3 DEF WriteStep
<1>2. WriteInit => WriteInv
  BY InitWriteInv
<1>3. WriteInv /\ [\E w \in Writers : WriteStep(w)]_writeVars => WriteInv'
  BY StepKeepsWriteInv
<1> QED BY <1>1, <1>2, <1>3, PTL DEF WriteSpec, EntryNotRewritten
-----------------------------------------------------------------------------

\* There is an attempt, and an archive is not the absence of one.
DistAssumption ==
  /\ Checked \cup Offline \subseteq Writers
  /\ Attempts \in Nat \ {0}
  /\ Full(Expected) # None

\* What is about to be saved, and returned, has been checked.
SavedIsChecked ==
  \A w \in Writers : pc[w] = "save" => Matches(w, Full(payload[w]))

DistInv ==
  /\ TypeOK
  /\ result = [w \in Writers |-> result[w]]
  /\ SavedIsChecked
  /\ CheckedAnswersWhole
  /\ OfflineStaysOffline

\* The steps of a write keep its types, whatever the names of the temporary
\* files.
LEMMA WriteTypes ==
  ASSUME WriteTypeOK, NEW w \in Writers, WriteStep(w)
  PROVE  WriteTypeOK'
<1> USE TempRenameAssumption DEF WriteTypeOK, WriteStages
<1>1. CASE Create(w)
  <2>1. Inode(w) \in Writers
    BY DEF Inode
  <2>2. Blank \in [1 .. Chunks -> Versions \cup {None}]
    BY DEF Blank
  <2> QED
    BY <1>1, <2>1, <2>2 DEF Create
<1>2. CASE WriteChunk(w)
  <2>1. sent[w] \in 0 .. Chunks /\ sent[w] + 1 \in 1 .. Chunks
    BY <1>2 DEF WriteChunk
  <2>2. content' \in [Writers -> [1 .. Chunks -> Versions \cup {None}]]
    <3>1. content' = [content EXCEPT ![fd[w]] =
                        [content[fd[w]] EXCEPT ![sent[w] + 1] = payload[w]]]
      BY <1>2 DEF WriteChunk
    <3>2. CASE fd[w] \in Writers
      <4>1. [content[fd[w]] EXCEPT ![sent[w] + 1] = payload[w]]
              \in [1 .. Chunks -> Versions \cup {None}]
        BY <2>1, <3>2
      <4> QED
        BY <3>1, <3>2, <4>1
    <3>3. CASE fd[w] \notin Writers
      BY <3>1, <3>3
    <3> QED
      BY <3>2, <3>3
  <2> QED
    BY <1>2, <2>1, <2>2 DEF WriteChunk
<1>3. CASE WriteFails(w) \/ RenameTemp(w) \/ RenameTempFails(w) \/ Die(w)
  BY <1>3 DEF WriteFails, RenameTemp, RenameTempFails, Die, Close
<1> QED
  BY <1>1, <1>2, <1>3 DEF WriteStep

\* A step of one write leaves the other writers where they are, and what is
\* written.
LEMMA WriteAlone ==
  ASSUME WriteTypeOK, NEW w \in Writers, WriteStep(w)
  PROVE  payload' = payload /\ \A v \in Writers \ {w} : stage'[v] = stage[v]
BY DEF WriteStep, Create, WriteChunk, WriteFails, RenameTemp, RenameTempFails, Die,
       Close, WriteTypeOK

LEMMA DistInvInit ==
  ASSUME DistAssumption, Init
  PROVE  DistInv
<1>1. TypeOK
  BY TempRenameAssumption
     DEF DistAssumption, Init, WriteInit, TypeOK, WriteTypeOK, WriteStages, Phases, Blank
<1>2. SavedIsChecked /\ CheckedAnswersWhole
  BY DEF DistAssumption, Init, SavedIsChecked, CheckedAnswersWhole, Answered
<1>3. OfflineStaysOffline
  BY DEF DistAssumption, Init, WriteInit, OfflineStaysOffline
<1> QED
  BY <1>1, <1>2, <1>3 DEF DistInv, Init

\* A step of w that goes to another phase, writes nothing, and gives w an answer
\* that has been checked, if it gives one.
LEMMA PhaseKeeps ==
  ASSUME DistAssumption, DistInv, NEW w \in Writers, NEW phase \in Phases, NEW answer,
         Goto(w, phase),
         attempt' \in [Writers -> 0 .. Attempts - 1],
         result' = [result EXCEPT ![w] = answer],
         stage' = stage, payload' = payload, WriteTypeOK',
         phase = "save" => Matches(w, Full(payload[w])),
         phase = "done" => Matches(w, answer),
         phase # "done" => answer = result[w],
         phase \in {"download", "save"} => w \notin Offline
  PROVE  DistInv'
<1> USE DEF DistInv, TypeOK, Goto
<1>1. TypeOK'
  OBVIOUS
<1>2. result' = [v \in Writers |-> result'[v]]
  OBVIOUS
<1>3. SavedIsChecked'
  BY DEF SavedIsChecked, Matches
<1>4. CheckedAnswersWhole'
  <2> SUFFICES ASSUME NEW v \in Checked
               PROVE  Answered(v)'
    BY DEF CheckedAnswersWhole
  <2>1. v \in Writers /\ Acceptable(v) = {Full(Expected)}
    BY DEF DistAssumption, Acceptable
  <2>2. CASE v = w
    BY <2>1, <2>2 DEF CheckedAnswersWhole, Answered, Matches, Acceptable, DistAssumption
  <2>3. CASE v # w
    BY <2>1, <2>3 DEF CheckedAnswersWhole, Answered, Acceptable
  <2> QED
    BY <2>2, <2>3
<1>5. OfflineStaysOffline'
  BY DEF OfflineStaysOffline, DistAssumption
<1> QED
  BY <1>1, <1>2, <1>3, <1>4, <1>5

\* Without the cache: the network when it may be used, and then it is said so.
LEMMA FromNetworkKeeps ==
  ASSUME DistAssumption, DistInv, NEW w \in Writers, FromNetwork(w),
         stage' = stage, payload' = payload, WriteTypeOK'
  PROVE  DistInv'
<1>1. result' = [result EXCEPT ![w] = result[w]]
  BY DEF FromNetwork, Fail, DistInv
<1>2. attempt' \in [Writers -> 0 .. Attempts - 1]
  BY DEF FromNetwork, Fail, NoMoreAttempts, DistInv, TypeOK, DistAssumption
<1>3. CASE w \in Offline
  BY <1>1, <1>2, <1>3, PhaseKeeps DEF FromNetwork, Fail, Phases
<1>4. CASE w \notin Offline
  BY <1>1, <1>2, <1>4, PhaseKeeps DEF FromNetwork, Phases
<1> QED
  BY <1>3, <1>4

\* A step of the write of w, for the caller or when it dies.
LEMMA WritingKeeps ==
  ASSUME DistAssumption, DistInv, NEW w \in Writers, WriteStep(w), w \notin Offline,
         UNCHANGED <<pc, attempt, result>>
  PROVE  DistInv'
<1>1. WriteTypeOK' /\ payload' = payload /\ \A v \in Writers \ {w} : stage'[v] = stage[v]
  BY WriteTypes, WriteAlone DEF DistInv, TypeOK
<1>2. TypeOK' /\ result' = [v \in Writers |-> result'[v]]
  BY <1>1 DEF DistInv, TypeOK
<1>3. SavedIsChecked' /\ CheckedAnswersWhole'
  BY <1>1 DEF DistInv, SavedIsChecked, CheckedAnswersWhole, Answered, Acceptable, Matches
<1>4. OfflineStaysOffline'
  BY <1>1 DEF DistInv, OfflineStaysOffline, DistAssumption
<1> QED
  BY <1>2, <1>3, <1>4 DEF DistInv

LEMMA DistInvNext ==
  ASSUME DistAssumption, DistInv, [Next]_vars
  PROVE  DistInv'
<1> USE DEF writeVars, Phases
<1>1. ASSUME NEW w \in Writers, Miss(w)
      PROVE  DistInv'
  <2>1. UNCHANGED writeVars /\ WriteTypeOK
    BY <1>1 DEF Miss, DistInv, TypeOK
  <2>2. WriteTypeOK'
    BY <2>1 DEF WriteTypeOK
  <2> QED
    BY <1>1, <2>1, <2>2, FromNetworkKeeps DEF Miss
<1>2. ASSUME NEW w \in Writers, Hit(w)
      PROVE  DistInv'
  <2>1. UNCHANGED writeVars /\ WriteTypeOK
    BY <1>2 DEF Hit, DistInv, TypeOK
  <2>2. WriteTypeOK'
    BY <2>1 DEF WriteTypeOK
  <2> QED
    BY <1>2, <2>1, <2>2, PhaseKeeps DEF Hit, Return, DistInv, TypeOK
<1>3. ASSUME NEW w \in Writers, Mismatch(w)
      PROVE  DistInv'
  <2>1. UNCHANGED writeVars /\ WriteTypeOK
    BY <1>3 DEF Mismatch, DistInv, TypeOK
  <2>2. WriteTypeOK'
    BY <2>1 DEF WriteTypeOK
  <2>3. result' = [result EXCEPT ![w] = result[w]]
    BY <1>3 DEF Mismatch, DistInv
  <2> QED
    BY <1>3, <2>1, <2>2, <2>3, PhaseKeeps DEF Mismatch, DistInv, TypeOK
<1>4. ASSUME NEW w \in Writers, Drop(w)
      PROVE  DistInv'
  <2>1. WriteTypeOK'
    BY <1>4 DEF Drop, DistInv, TypeOK, WriteTypeOK
  <2> QED
    BY <1>4, <2>1, FromNetworkKeeps DEF Drop
<1>5. ASSUME NEW w \in Writers, AttemptFails(w)
      PROVE  DistInv'
  <2>1. UNCHANGED writeVars /\ WriteTypeOK
    BY <1>5 DEF AttemptFails, DistInv, TypeOK
  <2>2. WriteTypeOK'
    BY <2>1 DEF WriteTypeOK
  <2>3. result' = [result EXCEPT ![w] = result[w]]
    BY <1>5 DEF AttemptFails, Fail, DistInv
  <2>4. attempt' \in [Writers -> 0 .. Attempts - 1]
    BY <1>5 DEF AttemptFails, Fail, NoMoreAttempts, DistInv, TypeOK, DistAssumption
  <2>5. CASE attempt[w] + 1 = Attempts
    BY <1>5, <2>1, <2>2, <2>3, <2>4, <2>5, PhaseKeeps DEF AttemptFails, Fail
  <2>6. CASE attempt[w] + 1 # Attempts
    BY <1>5, <2>1, <2>2, <2>4, <2>6
       DEF AttemptFails, DistInv, TypeOK, SavedIsChecked, Matches, CheckedAnswersWhole,
           Answered, Acceptable, OfflineStaysOffline
  <2> QED
    BY <2>5, <2>6
<1>6. ASSUME NEW w \in Writers, WrongSum(w)
      PROVE  DistInv'
  <2>1. UNCHANGED writeVars /\ WriteTypeOK
    BY <1>6 DEF WrongSum, DistInv, TypeOK
  <2>2. WriteTypeOK'
    BY <2>1 DEF WriteTypeOK
  <2>3. result' = [result EXCEPT ![w] = result[w]]
    BY <1>6 DEF WrongSum, Fail, DistInv
  <2>4. attempt' \in [Writers -> 0 .. Attempts - 1]
    BY <1>6 DEF WrongSum, Fail, NoMoreAttempts, DistInv, TypeOK, DistAssumption
  <2> QED
    BY <1>6, <2>1, <2>2, <2>3, <2>4, PhaseKeeps DEF WrongSum, Fail
<1>7. ASSUME NEW w \in Writers, Downloaded(w)
      PROVE  DistInv'
  <2>1. UNCHANGED writeVars /\ WriteTypeOK
    BY <1>7 DEF Downloaded, DistInv, TypeOK
  <2>2. WriteTypeOK'
    BY <2>1 DEF WriteTypeOK
  <2>3. result' = [result EXCEPT ![w] = result[w]]
    BY <1>7 DEF Downloaded, DistInv
  <2>4. attempt' \in [Writers -> 0 .. Attempts - 1]
    BY <1>7 DEF Downloaded, NoMoreAttempts, DistInv, TypeOK, DistAssumption
  <2>5. w \notin Offline
    BY <1>7 DEF Downloaded, DistInv, OfflineStaysOffline
  <2> QED
    BY <1>7, <2>1, <2>2, <2>3, <2>4, <2>5, PhaseKeeps DEF Downloaded
<1>8. ASSUME NEW w \in Writers, Save(w)
      PROVE  DistInv'
  <2>1. w \notin Offline
    BY <1>8 DEF Save, DistInv, OfflineStaysOffline
  <2> QED
    BY <1>8, <2>1, WritingKeeps DEF Save, WriteStep
<1>9. ASSUME NEW w \in Writers, Saved(w)
      PROVE  DistInv'
  <2>1. UNCHANGED writeVars /\ WriteTypeOK
    BY <1>9 DEF Saved, DistInv, TypeOK
  <2>2. WriteTypeOK'
    BY <2>1 DEF WriteTypeOK
  <2>3. Matches(w, Full(payload[w]))
    BY <1>9 DEF Saved, DistInv, SavedIsChecked
  <2> QED
    BY <1>9, <2>1, <2>2, <2>3, PhaseKeeps DEF Saved, Return, DistInv, TypeOK
<1>10. ASSUME NEW w \in Writers, Killed(w)
       PROVE  DistInv'
  <2>1. w \notin Offline
    BY <1>10 DEF Killed, Die, Close, DistInv, OfflineStaysOffline
  <2> QED
    BY <1>10, <2>1, WritingKeeps DEF Killed, WriteStep
<1>11. CASE UNCHANGED vars
  BY <1>11 DEF vars, DistInv, TypeOK, WriteTypeOK, SavedIsChecked, Matches, CheckedAnswersWhole,
               Answered, Acceptable, OfflineStaysOffline
<1> QED
  BY <1>1, <1>2, <1>3, <1>4, <1>5, <1>6, <1>7, <1>8, <1>9, <1>10, <1>11 DEF Next

\* A caller with a checksum is given its archive or an error, and an offline one
\* never downloads nor writes, however many processes share the cache, whatever
\* they leave in it and wherever they die (fetch.rs: dist_bytes).
THEOREM DistAnswersAlways == DistAssumption => (Spec => []DistAnswers)
<1> SUFFICES ASSUME DistAssumption PROVE Spec => []DistAnswers
  OBVIOUS
<1>1. Init => DistInv
  BY DistInvInit
<1>2. DistInv /\ [Next]_vars => DistInv'
  BY DistInvNext
<1>3. DistInv => DistAnswers
  BY DEF DistInv, DistAnswers
<1> QED
  BY <1>1, <1>2, <1>3, PTL DEF Spec
===============================================================================
