---------------------------- MODULE MetadataFetch ----------------------------
(***************************************************************************)
(* ComposerRepository's files, for several runs of vivacity that share the *)
(* metadata cache: packages.json, the root, and one file per package.  A   *)
(* run remembers what it read (memo); a file of the cache is revalidated   *)
(* with its Last-Modified, the stamp; a run whose request fails is served  *)
(* by a stamped entry and warns that it may be out of date (degraded).     *)
(*                                                                         *)
(* A phase of a run asks for a batch of package files: loading the pool,   *)
(* then the advisories and the filter lists, which tolerate a transport    *)
(* error when the policy ignores unreachable repositories.  The content of *)
(* a file is the number of its version, 0 where there is none.  What the   *)
(* cache holds of a batch is read in one step, and the three attempts of   *)
(* metadata_fetch are one: nothing is kept from one to the next.  A run    *)
(* that dies is one that takes no more steps.                              *)
(***************************************************************************)
EXTENDS Naturals, Sequences, SequencesExt

CONSTANTS Runs, Root, Packages,
          Stamped,    \* the files that the server sends with Last-Modified
          Offline,    \* the runs that may not use the network
          Plan,       \* Plan[r]: the phases, [batch, tolerant, max_age]
          Together,   \* the sets of runs that share a cache
          Changes     \* bound: what happens on the server

VARIABLES server,     \* server[f]: the last version published
          gone,       \* the files that are not on the server
          disk,       \* disk[f]: [version, stamped], or NoEntry
          progress,   \* progress[r] \in FetchStages
          phase,      \* phase[r]: where r is in Plan[r]
          request,    \* request[r]: [files, cached, answers, values], or Idle
          memo,       \* memo[r][f]: root and fetched, or Unread
          degraded,   \* degraded[r]: the user was warned
          seen,       \* history: the versions the server had during r
          warm,       \* history: r began with a stamped entry for each file
          aged        \* history: r took packages.json for its age

\* packages.json is no package's file; a run has one phase at least.
ASSUME FetchAssumption ==
  /\ Root \notin Packages
  /\ Changes \in Nat
  /\ \A r \in Runs :
       /\ Plan[r] \in Seq([batch : Seq(Packages), tolerant : BOOLEAN, max_age : BOOLEAN])
       /\ Plan[r] # <<>>

worldVars == <<server, gone, disk>>
historyVars == <<seen, warm, aged>>
fetchVars == <<worldVars, progress, phase, request, memo, degraded, historyVars>>

Files == Packages \cup {Root}
FetchStages == {"new", "ready", "waiting", "done", "failed", "rejected"}
NoEntry == [version |-> 0, stamped |-> FALSE]
Unread == Changes + 2
Idle == [files |-> <<>>, cached |-> <<>>, answers |-> <<>>, values |-> <<>>]

\* What the server has now.
Current(f) == IF f \in gone THEN 0 ELSE server[f]

\* The files that the phases of r need.
Needed(r) == {Root} \cup UNION {ToSet(Plan[r][k].batch) : k \in DOMAIN Plan[r]}

FetchInit ==
  /\ server = [f \in Files |-> 1]
  /\ gone = {}
  /\ disk \in {[f \in Files |-> NoEntry],
               [f \in Files |-> [version |-> 1, stamped |-> f \in Stamped]]}
  /\ \E S \in Together : progress = [r \in Runs |-> IF r \in S THEN "new" ELSE "done"]
  /\ phase = [r \in Runs |-> 1]
  /\ request = [r \in Runs |-> Idle]
  /\ memo = [r \in Runs |-> [f \in Files |-> Unread]]
  /\ degraded = [r \in Runs |-> FALSE]
  /\ seen = [r \in Runs |-> [f \in Files |-> {}]]
  /\ warm = [r \in Runs |-> FALSE]
  /\ aged = [r \in Runs |-> FALSE]

-----------------------------------------------------------------------------
\* Every change on the server has a number of its own.
Happened == FoldFunction(LAMBDA n, sum : sum + n - 1, 0, server)

Working == {r \in Runs : progress[r] \in {"ready", "waiting"}}

Change(f, v) ==
  /\ Happened < Changes
  /\ server' = [server EXCEPT ![f] = @ + 1]
  /\ seen' = [r \in Runs |-> IF r \in Working
                             THEN [seen[r] EXCEPT ![f] = @ \cup {v}]
                             ELSE seen[r]]
  /\ UNCHANGED <<disk, progress, phase, request, memo, degraded, warm, aged>>

\* A file gets a new version, or comes back with one.
Publish(f) ==
  /\ gone' = gone \ {f}
  /\ Change(f, server[f] + 1)

Withdraw(f) ==
  /\ f \in Packages \ gone
  /\ gone' = gone \cup {f}
  /\ Change(f, 0)

-----------------------------------------------------------------------------
Goto(r, stage) == progress' = [progress EXCEPT ![r] = stage]

Begin(r) ==
  /\ progress[r] = "new"
  /\ Goto(r, "ready")
  /\ seen' = [seen EXCEPT ![r] = [f \in Files |-> {Current(f)}]]
  /\ warm' = [warm EXCEPT ![r] = \A f \in Needed(r) : disk[f].stamped]
  /\ UNCHANGED <<worldVars, phase, request, memo, degraded, aged>>

PhaseOf(r) == Plan[r][phase[r]]

\* (mutant: the files read before are asked for again)
BatchAgain(r) == PhaseOf(r).batch

\* The files of the phase that are not in memory; with less than two of them
\* prefetch returns, and provider asks for the one.
Batch(r) ==
  LET b == PhaseOf(r).batch
      unread[k \in 0 .. Len(b)] ==
        IF k = 0 THEN <<>>
        ELSE IF memo[r][b[k]] = Unread THEN Append(unread[k - 1], b[k]) ELSE unread[k - 1]
  IN  unread[Len(b)]

\* The cache is read, then the request sent.
Request(r, files) ==
  /\ Goto(r, "waiting")
  /\ request' = [request EXCEPT ![r] =
                   [files |-> files, cached |-> [k \in DOMAIN files |-> disk[files[k]]],
                    answers |-> <<>>, values |-> <<>>]]
  /\ UNCHANGED <<worldVars, phase, memo, degraded, historyVars>>

\* root_data_max_age: a packages.json of the cache that is at most 600 s old,
\* as any may be, is taken without a request.
TakeRecent(r) ==
  /\ progress[r] = "ready"
  /\ memo[r][Root] = Unread
  /\ PhaseOf(r).max_age
  /\ disk[Root] # NoEntry
  /\ memo' = [memo EXCEPT ![r][Root] = disk[Root].version]
  /\ aged' = [aged EXCEPT ![r] = TRUE]
  /\ UNCHANGED <<worldVars, progress, phase, request, degraded, seen, warm>>

AskRoot(r) ==
  /\ progress[r] = "ready"
  /\ memo[r][Root] = Unread
  /\ Request(r, <<Root>>)

AskBatch(r) ==
  /\ progress[r] = "ready"
  /\ memo[r][Root] # Unread
  /\ Batch(r) # <<>>
  /\ Request(r, Batch(r))

NextPhase(r) ==
  IF phase[r] = Len(Plan[r])
  THEN Goto(r, "done") /\ UNCHANGED phase
  ELSE Goto(r, "ready") /\ phase' = [phase EXCEPT ![r] = @ + 1]

PhaseEnds(r) ==
  /\ progress[r] = "ready"
  /\ memo[r][Root] # Unread
  /\ Batch(r) = <<>>
  /\ NextPhase(r)
  /\ UNCHANGED <<worldVars, request, memo, degraded, historyVars>>

Says(kind) == [kind |-> kind, version |-> 0]

\* If-Modified-Since is sent when the cached file has a stamp.
FromServer(f, cached) ==
  CASE Current(f) = 0 -> Says("not found")
    [] cached.stamped /\ cached.version = Current(f) -> Says("not modified")
    [] OTHER -> [kind |-> "body", version |-> Current(f)]

\* What a request may be answered; an error page may be no JSON.
Answers(r, f, cached) ==
  IF r \in Offline
  THEN {Says("error")}
  ELSE {Says("error"), Says("garbled"), FromServer(f, cached)}

\* The server answers for the next file, the change of another in between.
Answer(r) ==
  /\ progress[r] = "waiting"
  /\ LET k == Len(request[r].answers) + 1 IN
       /\ k \in DOMAIN request[r].files
       /\ \E a \in Answers(r, request[r].files[k], request[r].cached[k]) :
            request' = [request EXCEPT ![r].answers = Append(@, a)]
  /\ UNCHANGED <<worldVars, progress, phase, memo, degraded, historyVars>>

\* (mutant: on 304 the cache is read again)
KeptNow(f, cached) == disk[f].version

\* The value of a 304 or of an error: what was read before the request.
Kept(f, cached) == cached.version

\* A body is written with the Last-Modified of its answer, when it has one.
Written(f, v) == [version |-> v, stamped |-> f \in Stamped]

\* The transport errors that settle returns, and root_data for a 404.
Unserved(f, cached, a) ==
  \/ a.kind = "error" /\ ~cached.stamped
  \/ a.kind = "not found" /\ f = Root

\* What settle returns for an answer it accepts.
Value(f, cached, a) ==
  CASE a.kind \in {"not modified", "error"} -> Kept(f, cached)
    [] OTHER                                -> a.version

\* A batch that is wholly settled is remembered, all of it at once.
Remember(r, values) ==
  /\ memo' = [memo EXCEPT ![r] =
                [f \in Files |->
                   IF f \in ToSet(request[r].files)
                   THEN values[CHOOSE k \in DOMAIN values : request[r].files[k] = f]
                   ELSE memo[r][f]]]
  /\ Goto(r, "ready")
  /\ request' = [request EXCEPT ![r] = Idle]

Keep(r, values) ==
  IF Len(values) = Len(request[r].files)
  THEN Remember(r, values)
  ELSE /\ request' = [request EXCEPT ![r].values = values]
       /\ UNCHANGED <<progress, memo>>

\* The first error of a batch drops it: nothing is remembered, though the
\* files settled before it are written.  An answer that is no JSON is an error
\* that no phase tolerates.
Abort(r, a) ==
  /\ \/ a.kind = "garbled" /\ Goto(r, "rejected") /\ UNCHANGED phase
     \/ a.kind # "garbled" /\ PhaseOf(r).tolerant /\ NextPhase(r)
     \/ a.kind # "garbled" /\ ~PhaseOf(r).tolerant /\ Goto(r, "failed") /\ UNCHANGED phase
  /\ request' = [request EXCEPT ![r] = Idle]
  /\ UNCHANGED <<disk, memo, degraded>>

\* settle, for each file in order, when all are answered.
Settle(r, f, cached, a) ==
  IF a.kind = "garbled" \/ Unserved(f, cached, a)
  THEN Abort(r, a)
  ELSE /\ disk' = IF a.kind = "body" THEN [disk EXCEPT ![f] = Written(f, a.version)]
                                     ELSE disk
       /\ degraded' = [degraded EXCEPT ![r] = @ \/ a.kind = "error"]
       /\ Keep(r, Append(request[r].values, Value(f, cached, a)))
       /\ UNCHANGED phase

SettleNext(r) ==
  /\ progress[r] = "waiting"
  /\ Len(request[r].answers) = Len(request[r].files)
  /\ LET k == Len(request[r].values) + 1 IN
       Settle(r, request[r].files[k], request[r].cached[k], request[r].answers[k])
  /\ UNCHANGED <<server, gone, historyVars>>

RunStep(r) ==
  \/ Begin(r)
  \/ TakeRecent(r)
  \/ AskRoot(r)
  \/ AskBatch(r)
  \/ PhaseEnds(r)
  \/ Answer(r)
  \/ SettleNext(r)

FetchNext ==
  \/ \E f \in Files : Publish(f) \/ Withdraw(f)
  \/ \E r \in Runs : RunStep(r)

FetchSpec == FetchInit /\ [][FetchNext]_fetchVars

-----------------------------------------------------------------------------
\* What a run works with was on the server at some time since it began, or
\* its user was warned; a packages.json taken for its age is the exception.
\* Another run may meanwhile put an older file in the cache: a 304 is about
\* the file that was read before the request (settle, repository.rs:905).
ConfirmedOrWarned ==
  \A r \in Runs, f \in Files :
    \/ memo[r][f] \in {Unread} \cup seen[r][f]
    \/ degraded[r]
    \/ f = Root /\ aged[r]

\* All the phases of a run see the same version of a file, and of the root,
\* whatever is published between them: the pool, the advisories and the lists
\* are about the same packages (fetched, repository.rs:417).
OneVersionPerRun ==
  [][\A r \in Runs, f \in Files :
       memo[r][f] # Unread => memo'[r][f] = memo[r][f]]_memo

\* A run that finds a stamped entry for each of its files is not stopped by the
\* network, nor by what other runs, and the batches they drop halfway, make of
\* the cache: an offline update works after an update.
ServedByTheCache == \A r \in Runs : warm[r] => progress[r] # "failed"

\* What an update or audit works with was on the server since it began, or its
\* user was warned, whatever other runs write to the metadata cache (settle); a
\* run that begins with a stamped entry for each of its files is not stopped by
\* the network, nor by the batches that other runs drop halfway.
MetadataServed == ConfirmedOrWarned /\ ServedByTheCache
===============================================================================
