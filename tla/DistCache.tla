------------------------------ MODULE DistCache ------------------------------
(***************************************************************************)
(* Fetcher::dist_bytes: the archive of one dist URL, for several processes *)
(* that share the cache of dists.  The cache is read first, and its bytes  *)
(* are checked against the checksum of the lock when there is one; then    *)
(* the network, three attempts; what was downloaded is written to the      *)
(* cache through a temporary file (module TempRename) and returned whether *)
(* or not the cache could be written.                                      *)
(*                                                                         *)
(* payload[w] is what the server would send to w.  Reading the entry is    *)
(* one step: an instant of what std::fs::read may see.                     *)
(***************************************************************************)
EXTENDS TempRename

CONSTANTS Expected,    \* the content with the checksum of the lock
          Checked,     \* the processes whose lock has that checksum
          Offline,     \* the processes that may not use the network
          Attempts     \* downloads tried before giving up

VARIABLES pc,        \* pc[w] \in Phases
          attempt,   \* attempt[w]: failed downloads
          result     \* result[w]: the content returned, or None

vars == <<pc, attempt, result, writeVars>>

Phases == {"start", "drop", "download", "save", "done", "failed"}

Init ==
  /\ WriteInit
  /\ pc = [w \in Writers |-> "start"]
  /\ attempt = [w \in Writers |-> 0]
  /\ result = [w \in Writers |-> None]

Goto(w, phase) == pc' = [pc EXCEPT ![w] = phase]

Return(w, c) ==
  /\ Goto(w, "done")
  /\ result' = [result EXCEPT ![w] = c]
  /\ UNCHANGED attempt

\* The loop over the attempts is left.
NoMoreAttempts(w) == attempt' = [attempt EXCEPT ![w] = 0]

Fail(w) ==
  /\ Goto(w, "failed")
  /\ NoMoreAttempts(w)
  /\ UNCHANGED result

\* Without the cache: the network, unless it is ruled out.
FromNetwork(w) ==
  IF w \in Offline
  THEN Fail(w)
  ELSE Goto(w, "download") /\ UNCHANGED <<attempt, result>>

Miss(w) ==
  /\ pc[w] = "start"
  /\ entry = None
  /\ FromNetwork(w)
  /\ UNCHANGED writeVars

\* (mutant: the checksum of a cache entry is not looked at)
Unchecked(w, c) == c # None

Matches(w, c) == w \in Checked => c = Full(Expected)

Hit(w) ==
  /\ pc[w] = "start"
  /\ entry # None
  /\ Matches(w, content[entry])
  /\ Return(w, content[entry])
  /\ UNCHANGED writeVars

\* "Corrupted/poisoned cache entry: throw it away", by its path, later.
Mismatch(w) ==
  /\ pc[w] = "start"
  /\ entry # None
  /\ ~Matches(w, content[entry])
  /\ Goto(w, "drop")
  /\ UNCHANGED <<attempt, result, writeVars>>

Drop(w) ==
  /\ pc[w] = "drop"
  /\ entry' = None
  /\ FromNetwork(w)
  /\ UNCHANGED <<stage, payload, fd, sent, names, content>>

AttemptFails(w) ==
  /\ pc[w] = "download"
  /\ UNCHANGED writeVars
  /\ IF attempt[w] + 1 = Attempts
     THEN Fail(w)
     ELSE /\ attempt' = [attempt EXCEPT ![w] = @ + 1]
          /\ UNCHANGED <<pc, result>>

\* The wrong checksum is not tried again.
WrongSum(w) ==
  /\ pc[w] = "download"
  /\ ~Matches(w, Full(payload[w]))
  /\ Fail(w)
  /\ UNCHANGED writeVars

Downloaded(w) ==
  /\ pc[w] = "download"
  /\ Matches(w, Full(payload[w]))
  /\ Goto(w, "save")
  /\ NoMoreAttempts(w)
  /\ UNCHANGED <<result, writeVars>>

\* One step of std::fs::write or of the rename.
Save(w) ==
  /\ pc[w] = "save"
  /\ Create(w) \/ WriteChunk(w) \/ WriteFails(w) \/ RenameTemp(w) \/ RenameTempFails(w)
  /\ UNCHANGED <<pc, attempt, result>>

\* The cache was written, or it cannot be (create_dir_all, File::create).
Saved(w) ==
  /\ pc[w] = "save"
  /\ stage[w] \in {"idle", "closed"}
  /\ Return(w, Full(payload[w]))
  /\ UNCHANGED writeVars

Killed(w) ==
  /\ Die(w)
  /\ UNCHANGED <<pc, attempt, result>>

Next ==
  \E w \in Writers :
    \/ Miss(w)
    \/ Hit(w)
    \/ Mismatch(w)
    \/ Drop(w)
    \/ AttemptFails(w)
    \/ WrongSum(w)
    \/ Downloaded(w)
    \/ Save(w)
    \/ Saved(w)
    \/ Killed(w)

Spec == Init /\ [][Next]_vars

-----------------------------------------------------------------------------
TypeOK ==
  /\ WriteTypeOK
  /\ pc \in [Writers -> Phases]
  /\ attempt \in [Writers -> 0 .. Attempts - 1]

Acceptable(w) == IF w \in Checked THEN {Full(Expected)} ELSE {Full(v) : v \in Versions}

Answered(w) ==
  /\ result[w] \in Acceptable(w) \cup {None}
  /\ pc[w] = "done" => result[w] # None

\* A caller whose lock has a checksum is given the archive it names, whatever
\* other processes make of the cache meanwhile.
CheckedAnswersWhole == \A w \in Checked : Answered(w)

\* What a caller is given is an archive the server sent, whole: nobody
\* extracts a file that another process is still writing, or died writing
\* ("cache fed through temp+rename", fetch.rs:273).
AnswersWhole == \A w \in Writers : Answered(w)

\* An offline process is served by the cache or told that it cannot be
\* served; it never starts a download nor writes the cache.
OfflineStaysOffline ==
  \A w \in Offline : pc[w] \notin {"download", "save"} /\ stage[w] = "idle"

\* Together: what dist_bytes owes to a caller with a checksum, or offline.
DistAnswers == TypeOK /\ CheckedAnswersWhole /\ OfflineStaysOffline
===============================================================================
