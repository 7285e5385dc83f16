------------------------------- MODULE MCCaches -------------------------------
(***************************************************************************)
(* What the vivacity processes of a user share on disk, one part at a time *)
(* (scenario):                                                             *)
(*   "store"     three processes extract two archives, and a damaged one,  *)
(*               into two entries of the store                             *)
(*   "entry"     four writers of one cache entry; the first two use the    *)
(*               same name one after the other, as when a process id comes *)
(*               back                                                      *)
(*   "dist"      three processes that fetch one dist, one without a        *)
(*               checksum, one offline; all of them use the one temporary  *)
(*               name that dist_bytes derives from the path of the entry   *)
(*   "metadata"  an update, an audit and an offline update, two at a time, *)
(*               while the server changes; b has no Last-Modified          *)
(* The parts that are not the scenario's stay as they begin.               *)
(***************************************************************************)
EXTENDS Store, TempRename, MetadataFetch, TLC

CONSTANTS p1, p2, p3, first, second, broken, w1, w2, w3, w4

VARIABLES scenario,
          dStage, dPayload, dFd, dSent, dNames, dEntry, dContent,
          dPc, attempt, result

distVars == <<dStage, dPayload, dFd, dSent, dNames, dEntry, dContent, dPc,
              attempt, result>>

DistWriters == {w1, w2, w4}

Dist == INSTANCE DistCache WITH
  Writers <- DistWriters,
  Names <- {"zip.vivacity-tmp"},
  NameOf <- [w \in DistWriters |-> "zip.vivacity-tmp"],
  Exclusive <- FALSE, Tidy <- FALSE, Versions <- {"good", "other"},
  Expected <- "good", Checked <- {w1, w4}, Offline <- {w4}, Attempts <- 2,
  stage <- dStage, payload <- dPayload, fd <- dFd, sent <- dSent,
  names <- dNames, entry <- dEntry, content <- dContent, pc <- dPc

MCPlan ==
  LET Phase(batch, tolerant, max_age) ==
        [batch |-> batch, tolerant |-> tolerant, max_age |-> max_age]
  IN  "update" :> <<Phase(<<"a", "b">>, FALSE, FALSE), Phase(<<"a", "b">>, TRUE, TRUE)>> @@
      "audit" :> <<Phase(<<"a", "b">>, TRUE, TRUE), Phase(<<"a">>, FALSE, TRUE)>> @@
      "offline" :> <<Phase(<<"a">>, FALSE, FALSE)>>

MCFilesOf == first :> {"a", "b"} @@ second :> {"b", "c"} @@ broken :> {"a"}

MCNameOf == w1 :> "pid1" @@ w2 :> "pid1" @@ w3 :> "pid2" @@ w4 :> "pid3"

cachesVars == <<scenario, vars, writeVars, distVars, fetchVars>>

\* What a part may begin with matters in its own scenario only.
CachesInit ==
  /\ scenario \in {"store", "entry", "dist", "metadata"}
  /\ scenario # "store" => bytes = [p \in Procs |-> first]
  /\ scenario # "entry" => payload = [w \in Writers |-> "old"]
  /\ scenario # "dist" => dPayload = [w \in DistWriters |-> "good"]
  /\ Init /\ WriteInit /\ Dist!Init /\ FetchInit
  /\ scenario # "metadata" => progress["audit"] = "done" /\ disk["a"] = NoEntry

CachesNext ==
  /\ UNCHANGED scenario
  /\ \/ /\ scenario = "store"
        /\ Next
        /\ UNCHANGED <<writeVars, distVars, fetchVars>>
     \/ /\ scenario = "entry"
        /\ \E w \in Writers : WriteStep(w)
        /\ UNCHANGED <<vars, distVars, fetchVars>>
     \/ /\ scenario = "dist"
        /\ Dist!Next
        /\ UNCHANGED <<vars, writeVars, fetchVars>>
     \/ /\ scenario = "metadata"
        /\ FetchNext
        /\ UNCHANGED <<vars, writeVars, distVars>>

CachesSpec == CachesInit /\ [][CachesNext]_cachesVars

\* The processes of the store are alike.
Symmetry == Permutations({p1, p2, p3})

-----------------------------------------------------------------------------
\* A caller of dist_bytes with a checksum in its lock is given the archive it
\* names, whatever other processes make of the cache; no attempt is made after
\* the last, and offline there is the cache or an error, never a download nor a
\* write.
DistAnswers == Dist!DistAnswers
===============================================================================
