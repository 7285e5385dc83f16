---------------------------- MODULE CachesProofs ----------------------------
(***************************************************************************)
(* Proofs about the caches that runs share, for any number of runs.        *)
(*                                                                         *)
(* The metadata cache, for any files, changes on the server and phases:    *)
(* what a run works with is a version that the server had since the run    *)
(* began, or it warns; it is the same in all the phases of a run; and the  *)
(* network fails no run whose cache has it all. The value of a 304 is what *)
(* was read before the request, and an entry keeps its stamp whoever writes*)
(* it: nothing else is asked of the other runs.                            *)
(*                                                                         *)
(* The store of packages, for any entries and archives: an entry that      *)
(* exists is whole and never changes, and Store implements StorePromise.   *)
(***************************************************************************)
EXTENDS MetadataFetch, Store, SequenceLemmas

\* The records of the model.
FileEntries == [version : Nat, stamped : BOOLEAN]

Replies ==
  [kind : {"error", "garbled", "not found", "not modified", "body"}, version : Nat]

Requests ==
  [files : Seq(Files), cached : Seq(FileEntries), answers : Seq(Replies), values : Seq(Nat)]

FetchTypeOK ==
  /\ server \in [Files -> Nat \ {0}]
  /\ gone \subseteq Packages
  /\ disk \in [Files -> FileEntries]
  /\ progress \in [Runs -> FetchStages]
  /\ phase \in [Runs -> Nat]
  /\ \A r \in Runs : phase[r] \in DOMAIN Plan[r]
  /\ request \in [Runs -> Requests]
  /\ memo \in [Runs -> [Files -> Nat]]
  /\ degraded \in [Runs -> BOOLEAN]
  /\ seen \in [Runs -> [Files -> SUBSET Nat]]
  /\ warm \in [Runs -> BOOLEAN]
  /\ aged \in [Runs -> BOOLEAN]

\* A request is for files that the run needs and does not remember; its batch
\* is settled when it is answered, and remembered when it is settled.
RequestInOrder(r) ==
  LET q == request[r] IN
  /\ Len(q.cached) = Len(q.files)
  /\ Len(q.answers) <= Len(q.files)
  /\ Len(q.values) < Len(q.files)
  /\ q.values # <<>> => Len(q.answers) = Len(q.files)
  /\ \A k \in DOMAIN q.files :
       q.files[k] \in Needed(r) /\ memo[r][q.files[k]] = Unread

\* What an answer says was so on the server when it was given, during the run;
\* the root is always there.
AnswersFounded(r) ==
  LET q == request[r] IN
  \A k \in DOMAIN q.answers :
    /\ q.answers[k].kind = "not modified" => q.cached[k].version \in seen[r][q.files[k]]
    /\ q.answers[k].kind \in {"body", "not found"} =>
         q.answers[k].version \in seen[r][q.files[k]]
    /\ q.answers[k].kind = "not found" => q.files[k] # Root

\* The values settled so far may be remembered.
ValuesFounded(r) ==
  LET q == request[r] IN
  \A k \in DOMAIN q.values : q.values[k] \in seen[r][q.files[k]] \/ degraded[r]

\* What a run has seen of the server goes up to now; it remembers nothing
\* before it begins.
SeenUpToNow(r) ==
  /\ r \in Working => \A f \in Files : Current(f) \in seen[r][f]
  /\ progress[r] = "new" => \A f \in Files : memo[r][f] = Unread

\* Entries keep their stamps, those that a request began with among them.
StampsStay(r) ==
  warm[r] =>
    /\ \A f \in Needed(r) : disk[f].stamped
    /\ progress[r] = "waiting" =>
         \A k \in DOMAIN request[r].cached : request[r].cached[k].stamped

\* The server sends the Last-Modified of a file always or never.
StampsSent == \A f \in Files : disk[f].stamped => f \in Stamped

\* What is to be proved, for one run.
Confirmed(r) ==
  \A f \in Files :
    \/ memo[r][f] \in {Unread} \cup seen[r][f]
    \/ degraded[r]
    \/ f = Root /\ aged[r]

Served(r) == warm[r] => progress[r] # "failed"

RunInv(r) ==
  /\ progress[r] = "waiting" =>
       RequestInOrder(r) /\ AnswersFounded(r) /\ ValuesFounded(r)
  /\ SeenUpToNow(r)
  /\ StampsStay(r)
  /\ Confirmed(r)
  /\ Served(r)

FetchInv ==
  /\ FetchTypeOK
  /\ StampsSent
  /\ \A r \in Runs : RunInv(r)

-----------------------------------------------------------------------------
(***************************************************************************)
(* The files that a run asks for.                                          *)
(***************************************************************************)

LEMMA FilesOfThePlan ==
  ASSUME NEW r \in Runs
  PROVE  /\ Root \in Needed(r) /\ Needed(r) \subseteq Files
         /\ \A k \in DOMAIN Plan[r] :
              /\ Plan[r][k] \in [batch : Seq(Packages), tolerant : BOOLEAN, max_age : BOOLEAN]
              /\ ToSet(Plan[r][k].batch) \subseteq Needed(r)
<1> DEFINE Phases == [batch : Seq(Packages), tolerant : BOOLEAN, max_age : BOOLEAN]
<1>1. \A k \in DOMAIN Plan[r] : Plan[r][k] \in Phases
  <2>1. Plan[r] \in Seq(Phases)
    BY FetchAssumption
  <2> HIDE DEF Phases
  <2> QED
    BY <2>1
<1>2. \A k \in DOMAIN Plan[r] : Plan[r][k].batch \in Seq(Packages)
  BY <1>1
<1>3. \A k \in DOMAIN Plan[r] : ToSet(Plan[r][k].batch) \subseteq Packages
  BY <1>2 DEF ToSet
<1>4. \A k \in DOMAIN Plan[r] : ToSet(Plan[r][k].batch) \subseteq Needed(r)
  BY DEF Needed
<1>5. Needed(r) \subseteq Files
  BY <1>3 DEF Needed, Files
<1> QED
  BY <1>1, <1>4, <1>5 DEF Needed

\* What the recursive function of Batch computes, up to n.
Gathers(g, r, b, n) ==
  g = [k \in 0 .. n |->
        IF k = 0 THEN <<>>
        ELSE IF memo[r][b[k]] = Unread THEN Append(g[k - 1], b[k]) ELSE g[k - 1]]

LEMMA GathersExists ==
  ASSUME NEW r, NEW b, NEW n \in Nat
  PROVE  \E g : Gathers(g, r, b, n)
<1> DEFINE T == {k \in Nat : ~\E g : Gathers(g, r, b, k)}
<1> SUFFICES ASSUME T # {} PROVE FALSE
  OBVIOUS
<1>1. PICK k \in T : \A j \in T : k <= j
  BY LeastNumber
<1>2. CASE k = 0
  <2>1. Gathers([i \in 0 .. 0 |-> <<>>], r, b, 0)
    BY DEF Gathers
  <2> QED
    BY <2>1, <1>2
<1>3. CASE k > 0
  <2>1. k - 1 \in Nat /\ k - 1 \notin T
    BY <1>1, <1>3
  <2>2. PICK g : Gathers(g, r, b, k - 1)
    BY <2>1
  <2> DEFINE next(s, i) == IF memo[r][b[i]] = Unread THEN Append(s, b[i]) ELSE s
             h == [i \in 0 .. k |-> IF i < k THEN g[i] ELSE next(g[k - 1], k)]
             e == [i \in 0 .. k |-> IF i = 0 THEN <<>> ELSE next(h[i - 1], i)]
  <2>3. \A i \in 0 .. k - 1 : h[i] = g[i]
    BY <1>3
  <2>4. ASSUME NEW i \in 0 .. k
        PROVE  h[i] = e[i]
    <3>1. CASE i = k
      BY <3>1, <1>3, <2>3
    <3>2. CASE i < k
      <4>1. i \in 0 .. k - 1 /\ (i # 0 => i - 1 \in 0 .. k - 1)
        BY <3>2
      <4>2. g[i] = IF i = 0 THEN <<>> ELSE next(g[i - 1], i)
        BY <4>1, <2>2 DEF Gathers
      <4> QED
        BY <4>1, <4>2, <2>3
    <3> QED
      BY <3>1, <3>2
  <2>5. DOMAIN h = 0 .. k /\ DOMAIN e = 0 .. k
    OBVIOUS
  <2>6. h = e
    BY <2>4, <2>5
  <2>7. Gathers(h, r, b, k)
    BY <2>6 DEF Gathers
  <2> QED
    BY <2>7
<1> QED
  BY <1>1, <1>2, <1>3

\* The batch that is asked for has files of the phase, and none that the run
\* remembers.
LEMMA BatchElements ==
  ASSUME NEW r, NEW A, PhaseOf(r).batch \in Seq(A)
  PROVE  Batch(r) \in Seq({f \in A : memo[r][f] = Unread})
<1> DEFINE b == PhaseOf(r).batch
           U == {f \in A : memo[r][f] = Unread}
           g == CHOOSE h : Gathers(h, r, b, Len(b))
<1>1. Len(b) \in Nat /\ \A i \in 1 .. Len(b) : b[i] \in A
  OBVIOUS
<1>2. Gathers(g, r, b, Len(b))
  BY <1>1, GathersExists
<1>3. Batch(r) = g[Len(b)]
  BY DEF Batch, Gathers
<1> HIDE DEF g
<1> DEFINE T == {k \in 0 .. Len(b) : g[k] \notin Seq(U)}
<1>4. T = {}
  <2> SUFFICES ASSUME T # {} PROVE FALSE
    OBVIOUS
  <2>1. T \subseteq Nat
    BY <1>1
  <2>2. PICK k \in T : \A j \in T : k <= j
    BY <2>1, LeastNumber
  <2>5. g[k] \notin Seq(U)
    BY <2>2
  <2>3. CASE k = 0
    <3>1. g[0] = <<>>
      BY <1>1, <1>2 DEF Gathers
    <3>2. <<>> \in Seq(U)
      <4> HIDE DEF U
      <4> QED
        OBVIOUS
    <3> QED
      BY <3>1, <3>2, <2>5, <2>3
  <2>4. CASE k # 0
    <3>1. k \in 0 .. Len(b) /\ k - 1 \in 0 .. Len(b) /\ k \in 1 .. Len(b)
      BY <1>1, <2>2, <2>4
    <3>2. k - 1 \notin T
      BY <2>2, <3>1
    <3>3. g[k - 1] \in Seq(U) /\ b[k] \in A
      BY <3>1, <3>2, <1>1
    <3>4. g[k] = IF memo[r][b[k]] = Unread THEN Append(g[k - 1], b[k]) ELSE g[k - 1]
      BY <3>1, <1>2, <2>4 DEF Gathers
    <3>5. CASE memo[r][b[k]] = Unread
      <4>1. b[k] \in U
        BY <3>3, <3>5
      <4>2. Append(g[k - 1], b[k]) \in Seq(U)
        <5> HIDE DEF U, b
        <5> QED
          BY <3>3, <4>1
      <4> QED
        BY <3>4, <3>5, <4>2, <2>5
    <3>6. CASE memo[r][b[k]] # Unread
      BY <3>3, <3>4, <3>6, <2>5
    <3> QED
      BY <3>5, <3>6
  <2> QED
    BY <2>3, <2>4
<1>5. Len(b) \in 0 .. Len(b)
  BY <1>1
<1> QED
  BY <1>3, <1>4, <1>5

-----------------------------------------------------------------------------
(***************************************************************************)
(* The beginning, and what a run owes to the steps of the others.          *)
(***************************************************************************)

LEMMA FetchInvInit == FetchInit => FetchInv
<1> SUFFICES ASSUME FetchInit PROVE FetchInv
  OBVIOUS
<1> USE DEF FetchInit
<1>1. disk \in [Files -> FileEntries] /\ StampsSent
  <2> DEFINE written == [f \in Files |-> [version |-> 1, stamped |-> f \in Stamped]]
             none == [f \in Files |-> NoEntry]
  <2>1. \A f \in Files : [version |-> 1, stamped |-> f \in Stamped] \in FileEntries
    BY DEF FileEntries
  <2>2. NoEntry \in FileEntries /\ ~NoEntry.stamped
    BY DEF FileEntries, NoEntry
  <2>3. \A f \in Files : written[f].stamped = (f \in Stamped)
    OBVIOUS
  <2>4. written \in [Files -> FileEntries] /\ none \in [Files -> FileEntries]
    BY <2>1, <2>2
  <2>5. disk = written \/ disk = none
    OBVIOUS
  <2> HIDE DEF written
  <2> QED
    BY <2>2, <2>3, <2>4, <2>5 DEF StampsSent
<1>2. progress \in [Runs -> FetchStages] /\ \A r \in Runs : progress[r] \in {"new", "done"}
  BY DEF FetchStages
<1>3. request \in [Runs -> Requests]
  <2>1. <<>> \in Seq(Files) /\ <<>> \in Seq(FileEntries) /\ <<>> \in Seq(Replies)
        /\ <<>> \in Seq(Nat)
    OBVIOUS
  <2> QED
    BY <2>1 DEF Idle, Requests
<1>4. \A r \in Runs : 1 \in DOMAIN Plan[r]
  BY FetchAssumption
<1>5. Unread \in Nat
  BY FetchAssumption DEF Unread
<1>6. FetchTypeOK
  BY <1>1, <1>2, <1>3, <1>4, <1>5 DEF FetchTypeOK
<1>7. ASSUME NEW r \in Runs PROVE RunInv(r)
  <2>1. progress[r] # "waiting" /\ r \notin Working /\ progress[r] # "failed"
    BY <1>2 DEF Working
  <2>2. SeenUpToNow(r)
    BY <2>1 DEF SeenUpToNow
  <2>3. StampsStay(r)
    BY DEF StampsStay
  <2>4. Confirmed(r)
    BY DEF Confirmed
  <2> QED
    BY <2>1, <2>2, <2>3, <2>4 DEF RunInv, Served
<1> QED
  BY <1>1, <1>6, <1>7 DEF FetchInv

\* What r has of its own.
Own(r) ==
  <<progress[r], request[r], memo[r], degraded[r], seen[r], warm[r], aged[r]>>

\* No entry loses its stamp.
StampsKept == \A f \in Files : disk[f].stamped => disk'[f].stamped

\* A run is disturbed by a step of another only if an entry lost its stamp.
LEMMA OthersKeep ==
  ASSUME FetchInv, NEW s \in Runs, UNCHANGED Own(s), UNCHANGED <<server, gone>>, StampsKept
  PROVE  RunInv(s)'
<1> USE DEF Own
<1>1. RunInv(s)
  BY DEF FetchInv
<1>2. progress'[s] = "waiting" =>
        RequestInOrder(s)' /\ AnswersFounded(s)' /\ ValuesFounded(s)'
  BY <1>1 DEF RunInv, RequestInOrder, AnswersFounded, ValuesFounded
<1>3. SeenUpToNow(s)'
  <2>1. s \in Working' => s \in Working
    BY DEF Working
  <2>2. \A f \in Files : Current(f)' = Current(f)
    BY DEF Current
  <2> QED
    BY <1>1, <2>1, <2>2 DEF RunInv, SeenUpToNow
<1>4. StampsStay(s)'
  <2>1. Needed(s) \subseteq Files
    BY FilesOfThePlan
  <2> QED
    BY <1>1, <2>1 DEF RunInv, StampsStay, StampsKept
<1>5. Confirmed(s)' /\ Served(s)'
  BY <1>1 DEF RunInv, Confirmed, Served
<1> QED
  BY <1>2, <1>3, <1>4, <1>5 DEF RunInv

\* A change on the server adds to what the runs under way have seen.
LEMMA ChangeKeeps ==
  ASSUME FetchInv, NEW f \in Files, Publish(f) \/ Withdraw(f)
  PROVE  FetchInv'
<1> USE DEF FetchInv
<1>1. PICK v \in Nat :
        /\ Change(f, v)
        /\ v = Current(f)'
        /\ gone' \subseteq Packages
        /\ \A g \in Files \ {f} : Current(g)' = Current(g)
  <2>1. CASE Publish(f)
    <3>1. server[f] + 1 \in Nat
      BY DEF FetchTypeOK
    <3>2. Change(f, server[f] + 1) /\ gone' = gone \ {f}
      BY <2>1 DEF Publish
    <3>3. server' = [server EXCEPT ![f] = @ + 1]
      BY <3>2 DEF Change
    <3>4. Current(f)' = server[f] + 1 /\ \A g \in Files \ {f} : Current(g)' = Current(g)
      BY <3>2, <3>3 DEF Current, FetchTypeOK
    <3> QED
      BY <3>1, <3>2, <3>4 DEF FetchTypeOK
  <2>2. CASE Withdraw(f)
    <3>1. Change(f, 0) /\ gone' = gone \cup {f} /\ f \in Packages
      BY <2>2 DEF Withdraw
    <3>2. server' = [server EXCEPT ![f] = @ + 1]
      BY <3>1 DEF Change
    <3>3. Current(f)' = 0 /\ \A g \in Files \ {f} : Current(g)' = Current(g)
      BY <3>1, <3>2 DEF Current, FetchTypeOK
    <3> QED
      BY <3>1, <3>3 DEF FetchTypeOK
  <2> QED
    BY <2>1, <2>2
<1>2. /\ UNCHANGED <<disk, progress, phase, request, memo, degraded, warm, aged>>
      /\ server' = [server EXCEPT ![f] = @ + 1]
      /\ seen' = [r \in Runs |-> IF r \in Working
                                 THEN [seen[r] EXCEPT ![f] = @ \cup {v}]
                                 ELSE seen[r]]
  BY <1>1 DEF Change
<1>3. \A r \in Runs, g \in Files :
        /\ seen[r][g] \subseteq seen'[r][g]
        /\ seen'[r][g] \subseteq Nat
        /\ r \in Working => (f = g => v \in seen'[r][g])
  BY <1>2 DEF FetchTypeOK
<1>4. FetchTypeOK'
  <2>1. server' \in [Files -> Nat \ {0}]
    BY <1>2 DEF FetchTypeOK
  <2>2. seen' \in [Runs -> [Files -> SUBSET Nat]]
    BY <1>2 DEF FetchTypeOK
  <2> QED
    BY <1>1, <1>2, <2>1, <2>2 DEF FetchTypeOK
<1>5. ASSUME NEW r \in Runs PROVE RunInv(r)'
  <2>1. RunInv(r)
    OBVIOUS
  <2>2. progress'[r] = "waiting" => RequestInOrder(r)' /\ ValuesFounded(r)' /\ AnswersFounded(r)'
    <3> SUFFICES ASSUME progress[r] = "waiting"
                 PROVE  RequestInOrder(r)' /\ ValuesFounded(r)' /\ AnswersFounded(r)'
      BY <1>2
    <3>1. RequestInOrder(r) /\ ValuesFounded(r) /\ AnswersFounded(r)
      BY <2>1 DEF RunInv
    <3>2. request[r] \in Requests
      BY DEF FetchTypeOK
    <3>3. /\ \A k \in DOMAIN request[r].values : request[r].files[k] \in Files
          /\ \A k \in DOMAIN request[r].answers : request[r].files[k] \in Files
      <4>1. /\ request[r].files \in Seq(Files) /\ request[r].values \in Seq(Nat)
            /\ request[r].answers \in Seq(Replies)
        BY <3>2 DEF Requests
      <4>2. /\ Len(request[r].answers) <= Len(request[r].files)
            /\ Len(request[r].values) < Len(request[r].files)
        BY <3>1 DEF RequestInOrder
      <4> QED
        BY <4>1, <4>2
    <3>4. RequestInOrder(r)'
      BY <3>1, <1>2 DEF RequestInOrder
    <3>5. ValuesFounded(r)'
      BY <3>1, <3>3, <1>2, <1>3 DEF ValuesFounded
    <3>6. AnswersFounded(r)'
      BY <3>1, <3>3, <1>2, <1>3 DEF AnswersFounded
    <3> QED
      BY <3>4, <3>5, <3>6
  <2>3. SeenUpToNow(r)'
    <3>1. Working' = Working
      BY <1>2 DEF Working
    <3>2. SeenUpToNow(r)
      BY <2>1 DEF RunInv
    <3>3. ASSUME r \in Working, NEW g \in Files PROVE Current(g)' \in seen'[r][g]
      BY <3>2, <3>3, <1>1, <1>3 DEF SeenUpToNow
    <3> QED
      BY <3>1, <3>2, <3>3, <1>2 DEF SeenUpToNow
  <2>4. StampsStay(r)'
    BY <2>1, <1>2 DEF RunInv, StampsStay
  <2>5. Confirmed(r)' /\ Served(r)'
    BY <2>1, <1>2, <1>3 DEF RunInv, Confirmed, Served
  <2> QED
    BY <2>2, <2>3, <2>4, <2>5 DEF RunInv
<1>6. StampsSent'
  BY <1>2 DEF StampsSent
<1> QED
  BY <1>4, <1>5, <1>6

-----------------------------------------------------------------------------
(***************************************************************************)
(* The steps of a run.                                                     *)
(***************************************************************************)

LEMMA CurrentIsAVersion ==
  ASSUME FetchTypeOK, NEW f \in Files
  PROVE  Current(f) \in Nat /\ Current(Root) # 0
<1>1. server[f] \in Nat /\ server[Root] \in Nat \ {0} /\ Root \notin gone
  BY FetchAssumption DEF FetchTypeOK, Files
<1> QED
  BY <1>1 DEF Current

LEMMA BeginKeeps ==
  ASSUME FetchInv, NEW r \in Runs, Begin(r)
  PROVE  FetchInv'
<1> USE DEF FetchInv
<1>1. /\ progress[r] = "new"
      /\ progress' = [progress EXCEPT ![r] = "ready"]
      /\ seen' = [seen EXCEPT ![r] = [f \in Files |-> {Current(f)}]]
      /\ warm' = [warm EXCEPT ![r] = \A f \in Needed(r) : disk[f].stamped]
      /\ UNCHANGED <<server, gone, disk, phase, request, memo, degraded, aged>>
  BY DEF Begin, Goto, worldVars
<1>2. FetchTypeOK'
  <2>1. progress' \in [Runs -> FetchStages]
    BY <1>1 DEF FetchTypeOK, FetchStages
  <2>2. [f \in Files |-> {Current(f)}] \in [Files -> SUBSET Nat]
    BY CurrentIsAVersion
  <2>3. seen' \in [Runs -> [Files -> SUBSET Nat]]
    BY <1>1, <2>2 DEF FetchTypeOK
  <2>4. (\A f \in Needed(r) : disk[f].stamped) \in BOOLEAN
    OBVIOUS
  <2>5. warm' \in [Runs -> BOOLEAN]
    BY <1>1, <2>4 DEF FetchTypeOK
  <2> QED
    BY <1>1, <2>1, <2>3, <2>5 DEF FetchTypeOK
<1>3. ASSUME NEW s \in Runs PROVE RunInv(s)'
  <2>1. CASE s # r
    <3>1. UNCHANGED Own(s)
      BY <1>1, <2>1 DEF Own, FetchTypeOK
    <3>2. StampsKept
      BY <1>1 DEF StampsKept
    <3> QED
      BY <3>1, <3>2, <1>1, OthersKeep
  <2>2. CASE s = r
    <3>1. progress'[r] = "ready" /\ seen'[r] = [f \in Files |-> {Current(f)}]
          /\ (warm'[r] => \A f \in Needed(r) : disk[f].stamped)
      BY <1>1 DEF FetchTypeOK
    <3>2. \A f \in Files : memo[r][f] = Unread
      BY <1>1 DEF RunInv, SeenUpToNow
    <3>3. SeenUpToNow(r)'
      BY <1>1, <3>1 DEF SeenUpToNow, Current
    <3>4. StampsStay(r)'
      BY <1>1, <3>1 DEF StampsStay
    <3>5. Confirmed(r)' /\ Served(r)'
      BY <1>1, <3>1, <3>2 DEF Confirmed, Served, Unread
    <3> QED
      BY <2>2, <3>1, <3>3, <3>4, <3>5 DEF RunInv
  <2> QED
    BY <2>1, <2>2
<1>4. StampsSent'
  BY <1>1 DEF StampsSent
<1> QED
  BY <1>2, <1>3, <1>4

LEMMA TakeRecentKeeps ==
  ASSUME FetchInv, NEW r \in Runs, TakeRecent(r)
  PROVE  FetchInv'
<1> USE DEF FetchInv
<1>1. /\ progress[r] = "ready"
      /\ memo' = [memo EXCEPT ![r][Root] = disk[Root].version]
      /\ aged' = [aged EXCEPT ![r] = TRUE]
      /\ UNCHANGED <<server, gone, disk, progress, phase, request, degraded, seen, warm>>
  BY DEF TakeRecent, worldVars
<1>2. disk[Root].version \in Nat /\ Root \in Files
  BY DEF FetchTypeOK, FileEntries, Files
<1>3. FetchTypeOK'
  <2>1. memo' \in [Runs -> [Files -> Nat]]
    BY <1>1, <1>2 DEF FetchTypeOK
  <2> QED
    BY <1>1, <2>1 DEF FetchTypeOK
<1>4. ASSUME NEW s \in Runs PROVE RunInv(s)'
  <2>1. CASE s # r
    <3>1. UNCHANGED Own(s)
      BY <1>1, <2>1 DEF Own, FetchTypeOK
    <3>2. StampsKept
      BY <1>1 DEF StampsKept
    <3> QED
      BY <3>1, <3>2, <1>1, OthersKeep
  <2>2. CASE s = r
    <3>1. RunInv(r)
      OBVIOUS
    <3>2. aged'[r] /\ \A f \in Files \ {Root} : memo'[r][f] = memo[r][f]
      BY <1>1 DEF FetchTypeOK
    <3>3. SeenUpToNow(r)' /\ StampsStay(r)'
      BY <1>1, <3>1 DEF RunInv, SeenUpToNow, StampsStay, Working, Current
    <3>4. Confirmed(r)' /\ Served(r)'
      BY <1>1, <3>1, <3>2 DEF RunInv, Confirmed, Served, Unread
    <3> QED
      BY <2>2, <1>1, <3>3, <3>4 DEF RunInv
  <2> QED
    BY <2>1, <2>2
<1>5. StampsSent'
  BY <1>1 DEF StampsSent
<1> QED
  BY <1>3, <1>4, <1>5

\* What a run asks for, it needs and does not remember.
LEMMA AskKeeps ==
  ASSUME FetchInv, NEW r \in Runs, AskRoot(r) \/ AskBatch(r)
  PROVE  FetchInv'
<1> USE DEF FetchInv
<1>1. PICK files :
        /\ progress[r] = "ready"
        /\ Request(r, files)
        /\ files \in Seq(Files) /\ files # <<>>
        /\ \A k \in DOMAIN files : files[k] \in Needed(r) /\ memo[r][files[k]] = Unread
  <2>1. CASE AskRoot(r)
    <3>1. Root \in Needed(r) /\ Root \in Files
      BY FilesOfThePlan
    <3>2. <<Root>> \in Seq(Files) /\ <<Root>> # <<>> /\ DOMAIN <<Root>> = {1}
          /\ <<Root>>[1] = Root
      BY <3>1
    <3> QED
      BY <2>1, <3>1, <3>2 DEF AskRoot
  <2>2. CASE AskBatch(r)
    <3> DEFINE A == ToSet(PhaseOf(r).batch)
               U == {f \in A : memo[r][f] = Unread}
    <3>1. phase[r] \in DOMAIN Plan[r]
      BY DEF FetchTypeOK
    <3>2. PhaseOf(r).batch \in Seq(Packages) /\ A \subseteq Needed(r) /\ Needed(r) \subseteq Files
      BY <3>1, FilesOfThePlan DEF PhaseOf
    <3>3. PhaseOf(r).batch \in Seq(A)
      BY <3>2 DEF ToSet
    <3>4. Batch(r) \in Seq(U)
      BY <3>3, BatchElements
    <3> HIDE DEF A
    <3>5. \A f \in U : f \in Files /\ f \in Needed(r) /\ memo[r][f] = Unread
      BY <3>2
    <3> HIDE DEF U
    <3>6. Batch(r) \in Seq(Files)
      BY <3>4, <3>5
    <3>7. \A k \in DOMAIN Batch(r) : Batch(r)[k] \in U
      BY <3>4
    <3> QED
      BY <2>2, <3>5, <3>6, <3>7 DEF AskBatch
  <2> QED
    BY <2>1, <2>2
<1> DEFINE cached == [k \in DOMAIN files |-> disk[files[k]]]
           new == [files |-> files, cached |-> cached, answers |-> <<>>, values |-> <<>>]
<1>2. /\ progress' = [progress EXCEPT ![r] = "waiting"]
      /\ request' = [request EXCEPT ![r] = new]
      /\ UNCHANGED <<server, gone, disk, phase, memo, degraded, seen, warm, aged>>
  BY <1>1 DEF Request, Goto, worldVars, historyVars
<1>3. /\ Len(files) \in Nat \ {0} /\ DOMAIN files = 1 .. Len(files)
      /\ \A k \in DOMAIN files : files[k] \in Files /\ disk[files[k]] \in FileEntries
  BY <1>1 DEF FetchTypeOK
<1>4. /\ cached \in Seq(FileEntries) /\ Len(cached) = Len(files)
      /\ DOMAIN cached = DOMAIN files
  BY <1>3
<1> HIDE DEF cached
<1>5. new \in Requests
  BY <1>1, <1>4 DEF Requests
<1>6. FetchTypeOK'
  <2> HIDE DEF new
  <2> QED
    BY <1>2, <1>5 DEF FetchTypeOK, FetchStages
<1>7. ASSUME NEW s \in Runs PROVE RunInv(s)'
  <2>1. CASE s # r
    <3>1. UNCHANGED Own(s)
      BY <1>2, <2>1 DEF Own, FetchTypeOK
    <3>2. StampsKept
      BY <1>2 DEF StampsKept
    <3> QED
      BY <3>1, <3>2, <1>2, OthersKeep
  <2>2. CASE s = r
    <3>1. RunInv(r)
      OBVIOUS
    <3>2. progress'[r] = "waiting" /\ request'[r] = new
      BY <1>2 DEF FetchTypeOK
    <3>3. RequestInOrder(r)'
      BY <1>1, <1>2, <1>3, <1>4, <3>2 DEF RequestInOrder, Needed, Unread
    <3>4. AnswersFounded(r)' /\ ValuesFounded(r)'
      BY <3>2 DEF AnswersFounded, ValuesFounded
    <3>5. SeenUpToNow(r)'
      <4>1. r \in Working
        BY <1>1 DEF Working
      <4> QED
        BY <4>1, <1>2, <3>1, <3>2 DEF RunInv, SeenUpToNow, Current
    <3>6. StampsStay(r)'
      <4>1. warm'[r] => \A f \in Needed(r) : disk[f].stamped
        BY <1>2, <3>1 DEF RunInv, StampsStay
      <4>2. \A k \in DOMAIN cached : cached[k] = disk[files[k]] /\ files[k] \in Needed(r)
        BY <1>1, <1>4 DEF cached
      <4> QED
        BY <4>1, <4>2, <1>2, <3>2 DEF StampsStay
    <3>7. Confirmed(r)' /\ Served(r)'
      BY <1>2, <3>1, <3>2 DEF RunInv, Confirmed, Served, Unread
    <3> QED
      BY <2>2, <3>3, <3>4, <3>5, <3>6, <3>7 DEF RunInv
  <2> QED
    BY <2>1, <2>2
<1>8. StampsSent'
  BY <1>2 DEF StampsSent
<1> QED
  BY <1>6, <1>7, <1>8

LEMMA Appended ==
  ASSUME NEW S, NEW s \in Seq(S), NEW e \in S
  PROVE  /\ Append(s, e) \in Seq(S)
         /\ Len(Append(s, e)) = Len(s) + 1
         /\ \A j \in DOMAIN Append(s, e) :
              \/ j \in DOMAIN s /\ Append(s, e)[j] = s[j]
              \/ j = Len(s) + 1 /\ Append(s, e)[j] = e
  OBVIOUS

LEMMA NextPhaseTypes ==
  ASSUME FetchTypeOK, NEW r \in Runs, NextPhase(r)
  PROVE  \E stage \in {"ready", "done"} :
           /\ progress' = [progress EXCEPT ![r] = stage]
           /\ phase' \in [Runs -> Nat]
           /\ \A s \in Runs : phase'[s] \in DOMAIN Plan[s]
<1>1. Len(Plan[r]) \in Nat /\ DOMAIN Plan[r] = 1 .. Len(Plan[r]) /\ phase[r] \in DOMAIN Plan[r]
  BY FetchAssumption DEF FetchTypeOK
<1>2. CASE phase[r] = Len(Plan[r])
  BY <1>2 DEF NextPhase, Goto, FetchTypeOK
<1>3. CASE phase[r] # Len(Plan[r])
  <2>1. phase' = [phase EXCEPT ![r] = @ + 1] /\ progress' = [progress EXCEPT ![r] = "ready"]
    BY <1>3 DEF NextPhase, Goto
  <2>2. phase[r] + 1 \in DOMAIN Plan[r] /\ phase[r] + 1 \in Nat
    BY <1>1, <1>3
  <2> QED
    BY <2>1, <2>2 DEF FetchTypeOK
<1> QED
  BY <1>2, <1>3

\* A run that stops waiting, or goes to another phase, keeps what it knows.
LEMMA StopsWaiting ==
  ASSUME FetchInv, NEW r \in Runs, r \in Working,
         NEW stage \in {"ready", "done", "failed", "rejected"},
         progress' = [progress EXCEPT ![r] = stage],
         phase' \in [Runs -> Nat],
         \A s \in Runs : phase'[s] \in DOMAIN Plan[s],
         request' = request \/ request' = [request EXCEPT ![r] = Idle],
         UNCHANGED <<server, gone, disk, memo, degraded, seen, warm, aged>>,
         stage = "failed" => ~warm[r]
  PROVE  FetchInv'
<1> USE DEF FetchInv
<1>1. Idle \in Requests
  <2>1. <<>> \in Seq(Files) /\ <<>> \in Seq(FileEntries) /\ <<>> \in Seq(Replies)
        /\ <<>> \in Seq(Nat)
    OBVIOUS
  <2> QED
    BY <2>1 DEF Idle, Requests
<1>2. FetchTypeOK'
  <2>1. progress' \in [Runs -> FetchStages]
    BY DEF FetchTypeOK, FetchStages
  <2>2. request' \in [Runs -> Requests]
    BY <1>1 DEF FetchTypeOK
  <2> QED
    BY <2>1, <2>2 DEF FetchTypeOK
<1>3. ASSUME NEW s \in Runs PROVE RunInv(s)'
  <2>1. CASE s # r
    <3>1. UNCHANGED Own(s)
      BY <2>1 DEF Own, FetchTypeOK
    <3>2. StampsKept
      BY DEF StampsKept
    <3> QED
      BY <3>1, <3>2, OthersKeep
  <2>2. CASE s = r
    <3>1. RunInv(r)
      OBVIOUS
    <3>2. progress'[r] = stage
      BY DEF FetchTypeOK
    <3>3. SeenUpToNow(r)' /\ StampsStay(r)'
      BY <3>1, <3>2 DEF RunInv, SeenUpToNow, StampsStay, Current
    <3>4. Confirmed(r)' /\ Served(r)'
      BY <3>1, <3>2 DEF RunInv, Confirmed, Served, Unread
    <3> QED
      BY <2>2, <3>2, <3>3, <3>4 DEF RunInv
  <2> QED
    BY <2>1, <2>2
<1>4. StampsSent'
  BY DEF StampsSent
<1> QED
  BY <1>2, <1>3, <1>4

LEMMA PhaseEndsKeeps ==
  ASSUME FetchInv, NEW r \in Runs, PhaseEnds(r)
  PROVE  FetchInv'
<1>1. NextPhase(r) /\ r \in Working
      /\ UNCHANGED <<server, gone, disk, request, memo, degraded, seen, warm, aged>>
  BY DEF PhaseEnds, worldVars, historyVars, Working
<1>2. PICK stage \in {"ready", "done"} :
        /\ progress' = [progress EXCEPT ![r] = stage]
        /\ phase' \in [Runs -> Nat]
        /\ \A s \in Runs : phase'[s] \in DOMAIN Plan[s]
  BY <1>1, NextPhaseTypes DEF FetchInv
<1> QED
  BY <1>1, <1>2, StopsWaiting

\* An answer tells what is on the server when it is given.
LEMMA AnswerKeeps ==
  ASSUME FetchInv, NEW r \in Runs, Answer(r)
  PROVE  FetchInv'
<1> USE DEF FetchInv
<1> DEFINE q == request[r]
           k == Len(q.answers) + 1
<1>1. /\ progress[r] = "waiting" /\ r \in Working
      /\ k \in DOMAIN q.files
      /\ UNCHANGED <<server, gone, disk, progress, phase, memo, degraded, seen, warm, aged>>
  BY DEF Answer, worldVars, historyVars, Working
<1>2. PICK a \in Answers(r, q.files[k], q.cached[k]) :
        request' = [request EXCEPT ![r].answers = Append(@, a)]
  BY DEF Answer
<1>3. q \in Requests /\ RequestInOrder(r) /\ AnswersFounded(r) /\ ValuesFounded(r)
  BY <1>1 DEF FetchTypeOK, RunInv
<1>4. /\ q.files \in Seq(Files) /\ q.cached \in Seq(FileEntries)
      /\ q.answers \in Seq(Replies) /\ q.values \in Seq(Nat)
  BY <1>3 DEF Requests
<1>5. q.files[k] \in Files /\ k \in 1 .. Len(q.files)
  BY <1>1, <1>4
<1>6. Current(q.files[k]) \in seen[r][q.files[k]]
  BY <1>1, <1>5 DEF RunInv, SeenUpToNow
<1>7. /\ a \in Replies
      /\ a.kind = "not modified" => q.cached[k].version = Current(q.files[k])
      /\ a.kind \in {"body", "not found"} => a.version = Current(q.files[k])
      /\ a.kind = "not found" => q.files[k] # Root
  <2>1. Current(q.files[k]) \in Nat /\ Current(Root) # 0
    BY <1>5, CurrentIsAVersion
  <2>2. \A kind \in {"error", "garbled", "not found", "not modified"} : Says(kind) \in Replies
    BY DEF Says, Replies
  <2>3. CASE a = Says("error") \/ a = Says("garbled")
    <3>1. Says("error").kind = "error" /\ Says("garbled").kind = "garbled"
      BY DEF Says
    <3>2. Says("error") \in Replies /\ Says("garbled") \in Replies
      BY <2>2
    <3>3. a \in Replies /\ a.kind \in {"error", "garbled"}
      BY <2>3, <3>1, <3>2
    <3> QED
      BY <3>3
  <2>4. CASE a = FromServer(q.files[k], q.cached[k])
    <3>1. CASE Current(q.files[k]) = 0
      BY <2>1, <2>2, <2>4, <3>1 DEF FromServer, Says
    <3>2. CASE Current(q.files[k]) # 0 /\ q.cached[k].stamped
               /\ q.cached[k].version = Current(q.files[k])
      BY <2>2, <2>4, <3>2 DEF FromServer, Says
    <3>3. CASE Current(q.files[k]) # 0 /\ ~(q.cached[k].stamped
               /\ q.cached[k].version = Current(q.files[k]))
      <4>1. a = [kind |-> "body", version |-> Current(q.files[k])]
        BY <2>4, <3>3 DEF FromServer
      <4> QED
        BY <2>1, <4>1 DEF Replies
    <3> QED
      BY <3>1, <3>2, <3>3
  <2> QED
    BY <1>2, <2>3, <2>4 DEF Answers
<1>8. /\ Append(q.answers, a) \in Seq(Replies)
      /\ Len(Append(q.answers, a)) = k /\ Len(Append(q.answers, a)) <= Len(q.files)
      /\ \A j \in DOMAIN Append(q.answers, a) :
           \/ j \in DOMAIN q.answers /\ Append(q.answers, a)[j] = q.answers[j]
           \/ j = k /\ Append(q.answers, a)[j] = a
  <2>1. k <= Len(q.files)
    BY <1>5
  <2> QED
    BY <1>4, <1>7, <2>1, Appended
<1> DEFINE n == [q EXCEPT !.answers = Append(q.answers, a)]
<1>9. /\ n \in Requests /\ n.files = q.files /\ n.cached = q.cached /\ n.values = q.values
      /\ n.answers = Append(q.answers, a)
  BY <1>3, <1>8 DEF Requests
<1>10. request' = [request EXCEPT ![r] = n]
  BY <1>2
<1> HIDE DEF n
<1>11. FetchTypeOK'
  BY <1>1, <1>9, <1>10 DEF FetchTypeOK
<1>12. ASSUME NEW s \in Runs PROVE RunInv(s)'
  <2>1. CASE s # r
    <3>1. UNCHANGED Own(s)
      BY <1>1, <1>10, <2>1 DEF Own, FetchTypeOK
    <3>2. StampsKept
      BY <1>1 DEF StampsKept
    <3> QED
      BY <3>1, <3>2, <1>1, OthersKeep
  <2>2. CASE s = r
    <3>1. RunInv(r)
      OBVIOUS
    <3>2. progress'[r] = "waiting" /\ request'[r] = n
      BY <1>1, <1>10 DEF FetchTypeOK
    <3>3. RequestInOrder(r)'
      <4>1. q.values = <<>>
        BY <1>3, <1>4, <1>5 DEF RequestInOrder
      <4> QED
        BY <4>1, <1>1, <1>3, <1>8, <1>9, <3>2 DEF RequestInOrder, Needed, Unread
    <3>4. AnswersFounded(r)'
      BY <1>1, <1>3, <1>6, <1>7, <1>8, <1>9, <3>2 DEF AnswersFounded
    <3>5. ValuesFounded(r)'
      BY <1>1, <1>3, <1>9, <3>2 DEF ValuesFounded
    <3>6. SeenUpToNow(r)'
      BY <1>1, <3>1 DEF RunInv, SeenUpToNow, Current, Working
    <3>7. StampsStay(r)'
      BY <1>1, <1>9, <3>1, <3>2 DEF RunInv, StampsStay
    <3>8. Confirmed(r)' /\ Served(r)'
      BY <1>1, <3>1 DEF RunInv, Confirmed, Served, Unread
    <3> QED
      BY <2>2, <3>3, <3>4, <3>5, <3>6, <3>7, <3>8 DEF RunInv
  <2> QED
    BY <2>1, <2>2
<1>13. StampsSent'
  BY <1>1 DEF StampsSent
<1> QED
  BY <1>11, <1>12, <1>13

-----------------------------------------------------------------------------
(***************************************************************************)
(* Settling the answers.                                                   *)
(***************************************************************************)

\* What is known of a file that is about to be settled.
LEMMA NextToSettle ==
  ASSUME FetchInv, NEW r \in Runs, progress[r] = "waiting",
         Len(request[r].answers) = Len(request[r].files),
         NEW k, k = Len(request[r].values) + 1
  PROVE  LET q == request[r] IN
         /\ q \in Requests
         /\ q.files \in Seq(Files) /\ q.cached \in Seq(FileEntries)
         /\ q.answers \in Seq(Replies) /\ q.values \in Seq(Nat)
         /\ RequestInOrder(r) /\ AnswersFounded(r) /\ ValuesFounded(r)
         /\ k \in DOMAIN q.files /\ k \in DOMAIN q.cached /\ k \in DOMAIN q.answers
         /\ q.files[k] \in Needed(r) /\ q.files[k] \in Files
         /\ q.cached[k] \in FileEntries /\ q.answers[k] \in Replies
<1> DEFINE q == request[r]
<1>1. q \in Requests /\ RequestInOrder(r) /\ AnswersFounded(r) /\ ValuesFounded(r)
  BY DEF FetchInv, FetchTypeOK, RunInv
<1>2. /\ q.files \in Seq(Files) /\ q.cached \in Seq(FileEntries)
      /\ q.answers \in Seq(Replies) /\ q.values \in Seq(Nat)
  BY <1>1 DEF Requests
<1>3. /\ Len(q.cached) = Len(q.files) /\ Len(q.values) < Len(q.files)
      /\ \A j \in DOMAIN q.files : q.files[j] \in Needed(r)
  BY <1>1 DEF RequestInOrder
<1>4. /\ k \in DOMAIN q.files /\ k \in DOMAIN q.cached /\ k \in DOMAIN q.answers
  BY <1>2, <1>3
<1> HIDE DEF q
<1>5. /\ q.files[k] \in Files /\ q.cached[k] \in FileEntries /\ q.answers[k] \in Replies
  BY <1>2, <1>4
<1> USE DEF q
<1> QED
  BY <1>1, <1>2, <1>3, <1>4, <1>5

\* A run that finds stamps is not stopped: the error it may meet is answered
\* from the cache, and the root is there.
LEMMA AbortKeeps ==
  ASSUME FetchInv, NEW r \in Runs, progress[r] = "waiting",
         Len(request[r].answers) = Len(request[r].files),
         NEW k, k = Len(request[r].values) + 1,
         request[r].answers[k].kind = "garbled"
           \/ Unserved(request[r].files[k], request[r].cached[k], request[r].answers[k]),
         Abort(r, request[r].answers[k]),
         UNCHANGED <<server, gone, historyVars>>
  PROVE  FetchInv'
<1> DEFINE a == request[r].answers[k]
<1>1. /\ request' = [request EXCEPT ![r] = Idle]
      /\ UNCHANGED <<server, gone, disk, memo, degraded, seen, warm, aged>>
  BY DEF Abort, historyVars
<1>2. r \in Working
  BY DEF Working
<1>3. phase \in [Runs -> Nat] /\ \A s \in Runs : phase[s] \in DOMAIN Plan[s]
  BY DEF FetchInv, FetchTypeOK
<1>4. CASE a.kind = "garbled"
  <2>1. progress' = [progress EXCEPT ![r] = "rejected"] /\ phase' = phase
    BY <1>4 DEF Abort, Goto
  <2> QED
    BY <2>1, <1>1, <1>2, <1>3, StopsWaiting
<1>5. CASE a.kind # "garbled" /\ PhaseOf(r).tolerant
  <2>1. NextPhase(r)
    BY <1>5 DEF Abort
  <2>2. PICK stage \in {"ready", "done"} :
          /\ progress' = [progress EXCEPT ![r] = stage]
          /\ phase' \in [Runs -> Nat]
          /\ \A s \in Runs : phase'[s] \in DOMAIN Plan[s]
    BY <2>1, NextPhaseTypes DEF FetchInv
  <2> QED
    BY <2>2, <1>1, <1>2, StopsWaiting
<1>6. CASE a.kind # "garbled" /\ ~PhaseOf(r).tolerant
  <2>1. progress' = [progress EXCEPT ![r] = "failed"] /\ phase' = phase
    BY <1>6 DEF Abort, Goto
  <2>2. ~warm[r]
    <3> SUFFICES ASSUME warm[r] PROVE FALSE
      OBVIOUS
    <3>1. /\ k \in DOMAIN request[r].cached /\ k \in DOMAIN request[r].answers
          /\ AnswersFounded(r)
      BY NextToSettle
    <3>2. request[r].cached[k].stamped
      BY <3>1 DEF FetchInv, RunInv, StampsStay
    <3>3. a.kind = "not found" /\ request[r].files[k] = Root
      BY <1>6, <3>2 DEF Unserved
    <3> QED
      BY <3>1, <3>3 DEF AnswersFounded
  <2> QED
    BY <2>1, <2>2, <1>1, <1>2, <1>3, StopsWaiting
<1> QED
  BY <1>4, <1>5, <1>6

\* An answer that is accepted: its value was on the server during the run, or
\* the run is warned.
LEMMA SettledValue ==
  ASSUME FetchInv, NEW r \in Runs, progress[r] = "waiting",
         Len(request[r].answers) = Len(request[r].files),
         NEW k, k = Len(request[r].values) + 1,
         request[r].answers[k].kind # "garbled",
         degraded' = [degraded EXCEPT ![r] = @ \/ request[r].answers[k].kind = "error"]
  PROVE  LET q == request[r]
             v == Value(q.files[k], q.cached[k], q.answers[k])
         IN  v \in Nat /\ (v \in seen[r][q.files[k]] \/ degraded'[r])
<1> DEFINE q == request[r]
           a == q.answers[k]
           v == Value(q.files[k], q.cached[k], a)
<1>1. /\ k \in DOMAIN q.answers /\ AnswersFounded(r)
      /\ q.cached[k] \in FileEntries /\ a \in Replies
  BY NextToSettle
<1>2. a.version \in Nat /\ q.cached[k].version \in Nat
      /\ a.kind \in {"error", "garbled", "not found", "not modified", "body"}
  BY <1>1 DEF FileEntries, Replies
<1>3. degraded'[r] = (degraded[r] \/ a.kind = "error")
  BY DEF FetchInv, FetchTypeOK
<1>4. CASE a.kind = "error"
  BY <1>2, <1>3, <1>4 DEF Value, Kept
<1>5. CASE a.kind = "not modified"
  BY <1>1, <1>2, <1>5 DEF Value, Kept, AnswersFounded
<1>6. CASE a.kind \in {"body", "not found"}
  BY <1>1, <1>2, <1>6 DEF Value, AnswersFounded
<1> QED
  BY <1>2, <1>4, <1>5, <1>6

\* A file is settled: its value waits for the others', or the whole batch is
\* remembered.
LEMMA KeepKeeps ==
  ASSUME FetchInv, NEW r \in Runs, progress[r] = "waiting",
         Len(request[r].answers) = Len(request[r].files),
         NEW k, k = Len(request[r].values) + 1,
         NEW v \in Nat, v \in seen[r][request[r].files[k]] \/ degraded'[r],
         degraded' \in [Runs -> BOOLEAN],
         \A s \in Runs : degraded[s] => degraded'[s],
         \A s \in Runs \ {r} : degraded'[s] = degraded[s],
         disk' \in [Files -> FileEntries], StampsKept, StampsSent',
         Keep(r, Append(request[r].values, v)),
         UNCHANGED <<server, gone, phase, seen, warm, aged>>
  PROVE  FetchInv'
<1> USE DEF FetchInv
<1> DEFINE q == request[r]
           values == Append(q.values, v)
<1>1. /\ q \in Requests
      /\ q.files \in Seq(Files) /\ q.cached \in Seq(FileEntries)
      /\ q.answers \in Seq(Replies) /\ q.values \in Seq(Nat)
      /\ RequestInOrder(r) /\ AnswersFounded(r) /\ ValuesFounded(r)
      /\ k \in DOMAIN q.files
  BY NextToSettle
<1>2. /\ values \in Seq(Nat) /\ Len(values) = k
      /\ \A j \in DOMAIN values :
           \/ j \in DOMAIN q.values /\ values[j] = q.values[j]
           \/ j = k /\ values[j] = v
  BY <1>1, Appended
<1>3. \A j \in DOMAIN values : values[j] \in Nat
        /\ (values[j] \in seen[r][q.files[j]] \/ degraded'[r])
  <2> SUFFICES ASSUME NEW j \in DOMAIN values
               PROVE  values[j] \in Nat /\ (values[j] \in seen[r][q.files[j]] \/ degraded'[r])
    OBVIOUS
  <2>1. CASE j \in DOMAIN q.values /\ values[j] = q.values[j]
    <3>1. q.values[j] \in Nat
      BY <1>1, <2>1
    <3>2. q.values[j] \in seen[r][q.files[j]] \/ degraded[r]
      BY <1>1, <2>1 DEF ValuesFounded
    <3> HIDE DEF values
    <3> QED
      BY <2>1, <3>1, <3>2
  <2>2. CASE j = k /\ values[j] = v
    <3> HIDE DEF values
    <3> QED
      BY <2>2
  <2> QED
    BY <1>2, <2>1, <2>2
<1>4. /\ \A j \in DOMAIN q.files : q.files[j] \in Files /\ memo[r][q.files[j]] = Unread
      /\ Len(q.files) \in Nat /\ DOMAIN q.files = 1 .. Len(q.files)
      /\ DOMAIN values = 1 .. Len(values)
      /\ k \in 1 .. Len(q.files)
  BY <1>1, <1>2 DEF RequestInOrder
<1>5. r \in Working
  BY DEF Working
<1> HIDE DEF values
<1>6. ASSUME NEW s \in Runs, s # r, UNCHANGED <<progress[s], request[s], memo[s]>>
      PROVE  RunInv(s)'
  BY <1>6, OthersKeep DEF Own
<1>7. /\ SeenUpToNow(r) /\ Confirmed(r) /\ StampsStay(r) /\ Served(r)
      /\ Needed(r) \subseteq Files
  BY FilesOfThePlan DEF RunInv
<1>8. CASE Len(values) = Len(q.files)
  <2>1. /\ progress' = [progress EXCEPT ![r] = "ready"]
        /\ request' = [request EXCEPT ![r] = Idle]
        /\ memo' = [memo EXCEPT ![r] =
                      [f \in Files |->
                         IF f \in ToSet(q.files)
                         THEN values[CHOOSE j \in DOMAIN values : q.files[j] = f]
                         ELSE memo[r][f]]]
    BY <1>8 DEF Keep, Remember, Goto, values
  <2>2. \A f \in ToSet(q.files) : \E j \in DOMAIN values : q.files[j] = f
    BY <1>8, <1>4 DEF ToSet
  <2>3. ASSUME NEW f \in ToSet(q.files)
        PROVE  \E j \in DOMAIN values :
                 q.files[j] = f /\ (CHOOSE i \in DOMAIN values : q.files[i] = f) = j
    BY <2>2
  <2>4. ASSUME NEW f \in Files
        PROVE  /\ memo'[r][f] \in Nat
               /\ memo'[r][f] = memo[r][f] \/ memo'[r][f] \in seen[r][f] \/ degraded'[r]
    <3>1. CASE f \in ToSet(q.files)
      <4>1. PICK j \in DOMAIN values :
                q.files[j] = f /\ (CHOOSE i \in DOMAIN values : q.files[i] = f) = j
        BY <3>1, <2>3
      <4>2. memo'[r][f] = values[j]
        BY <2>1, <3>1, <4>1 DEF FetchTypeOK
      <4> QED
        BY <4>1, <4>2, <1>3
    <3>2. CASE f \notin ToSet(q.files)
      BY <2>1, <3>2 DEF FetchTypeOK
    <3> QED
      BY <3>1, <3>2
  <2>5. memo' \in [Runs -> [Files -> Nat]]
    <3>1. memo'[r] \in [Files -> Nat]
      <4>1. memo'[r] = [f \in Files |->
                         IF f \in ToSet(q.files)
                         THEN values[CHOOSE j \in DOMAIN values : q.files[j] = f]
                         ELSE memo[r][f]]
        BY <2>1 DEF FetchTypeOK
      <4> QED
        BY <2>4, <4>1
    <3> QED
      BY <2>1, <3>1 DEF FetchTypeOK
  <2>6. Idle \in Requests
    <3>1. <<>> \in Seq(Files) /\ <<>> \in Seq(FileEntries) /\ <<>> \in Seq(Replies)
          /\ <<>> \in Seq(Nat)
      OBVIOUS
    <3> QED
      BY <3>1 DEF Idle, Requests
  <2>7. FetchTypeOK'
    <3>1. progress' \in [Runs -> FetchStages] /\ request' \in [Runs -> Requests]
      BY <2>1, <2>6 DEF FetchTypeOK, FetchStages
    <3> QED
      BY <3>1, <2>5 DEF FetchTypeOK
  <2>8. RunInv(r)'
    <3>1. progress'[r] = "ready"
      BY <2>1 DEF FetchTypeOK
    <3>2. SeenUpToNow(r)'
      BY <3>1, <1>5, <1>7 DEF SeenUpToNow, Current
    <3>3. StampsStay(r)'
      BY <3>1, <1>7 DEF StampsStay, StampsKept
    <3>4. Confirmed(r)' /\ Served(r)'
      BY <3>1, <2>4, <1>7 DEF Confirmed, Served, Unread
    <3> QED
      BY <3>1, <3>2, <3>3, <3>4 DEF RunInv
  <2>9. ASSUME NEW s \in Runs, s # r PROVE RunInv(s)'
    BY <2>1, <2>9, <1>6 DEF FetchTypeOK
  <2> QED
    BY <2>7, <2>8, <2>9
<1>9. CASE Len(values) # Len(q.files)
  <2> DEFINE n == [q EXCEPT !.values = values]
  <2>1. request' = [request EXCEPT ![r] = n] /\ UNCHANGED <<progress, memo>>
    BY <1>9 DEF Keep, values
  <2>2. /\ n \in Requests /\ n.files = q.files /\ n.cached = q.cached
        /\ n.answers = q.answers /\ n.values = values
    BY <1>1, <1>2 DEF Requests
  <2> HIDE DEF n
  <2>3. FetchTypeOK'
    BY <2>1, <2>2 DEF FetchTypeOK
  <2>4. RunInv(r)'
    <3>1. progress'[r] = "waiting" /\ request'[r] = n
      BY <2>1 DEF FetchTypeOK
    <3>2. RequestInOrder(r)'
      <4>1. Len(values) < Len(q.files)
        BY <1>2, <1>4, <1>9
      <4>2. /\ Len(q.cached) = Len(q.files) /\ Len(q.answers) = Len(q.files)
            /\ \A j \in DOMAIN q.files :
                 q.files[j] \in Needed(r) /\ memo[r][q.files[j]] = Unread
        BY <1>1 DEF RequestInOrder
      <4>3. memo' = memo /\ Needed(r)' = Needed(r)
        BY <2>1 DEF Needed
      <4>4. /\ request'[r].files = q.files /\ request'[r].cached = q.cached
            /\ request'[r].answers = q.answers /\ request'[r].values = values
        BY <2>2, <3>1
      <4>5. Len(q.files) \in Nat
        BY <1>4
      <4> HIDE DEF q
      <4> QED
        BY <4>1, <4>2, <4>3, <4>4, <4>5 DEF RequestInOrder, Unread
    <3>3. AnswersFounded(r)'
      BY <1>1, <2>2, <3>1 DEF AnswersFounded
    <3>4. ValuesFounded(r)'
      BY <1>3, <2>2, <3>1 DEF ValuesFounded
    <3>5. SeenUpToNow(r)'
      BY <2>1, <1>5, <1>7 DEF SeenUpToNow, Current
    <3>6. StampsStay(r)'
      BY <2>1, <2>2, <3>1, <1>7 DEF StampsStay, StampsKept
    <3>7. Confirmed(r)' /\ Served(r)'
      BY <2>1, <1>7 DEF Confirmed, Served, Unread
    <3> QED
      BY <3>2, <3>3, <3>4, <3>5, <3>6, <3>7 DEF RunInv
  <2>5. ASSUME NEW s \in Runs, s # r PROVE RunInv(s)'
    BY <2>1, <2>5, <1>6 DEF FetchTypeOK
  <2> QED
    BY <2>3, <2>4, <2>5
<1> QED
  BY <1>8, <1>9

LEMMA SettleKeeps ==
  ASSUME FetchInv, NEW r \in Runs, SettleNext(r)
  PROVE  FetchInv'
<1> DEFINE q == request[r]
           k == Len(q.values) + 1
           f == q.files[k]
           a == q.answers[k]
           v == Value(f, q.cached[k], a)
<1>1. /\ progress[r] = "waiting" /\ Len(q.answers) = Len(q.files)
      /\ Settle(r, f, q.cached[k], a)
      /\ UNCHANGED <<server, gone, historyVars>>
  BY DEF SettleNext
<1>2. CASE a.kind = "garbled" \/ Unserved(f, q.cached[k], a)
  <2>1. Abort(r, a)
    BY <1>1, <1>2 DEF Settle
  <2> HIDE DEF k
  <2>2. k = Len(q.values) + 1
    BY DEF k
  <2> QED
    BY <1>1, <1>2, <2>1, <2>2, AbortKeeps
<1>3. CASE ~(a.kind = "garbled" \/ Unserved(f, q.cached[k], a))
  <2>1. /\ disk' = IF a.kind = "body" THEN [disk EXCEPT ![f] = Written(f, a.version)] ELSE disk
        /\ degraded' = [degraded EXCEPT ![r] = @ \/ a.kind = "error"]
        /\ Keep(r, Append(q.values, v))
        /\ phase' = phase
    BY <1>1, <1>3 DEF Settle
  <2> HIDE DEF k
  <2>2. k = Len(q.values) + 1
    BY DEF k
  <2>3. f \in Files /\ a \in Replies
    BY <1>1, <2>2, NextToSettle
  <2>4. v \in Nat /\ (v \in seen[r][f] \/ degraded'[r])
    BY <1>1, <1>3, <2>1, <2>2, SettledValue
  <2>5. /\ degraded' \in [Runs -> BOOLEAN]
        /\ \A s \in Runs : degraded[s] => degraded'[s]
        /\ \A s \in Runs \ {r} : degraded'[s] = degraded[s]
    BY <2>1 DEF FetchInv, FetchTypeOK
  <2>6. disk' \in [Files -> FileEntries] /\ StampsKept /\ StampsSent'
    <3>1. disk \in [Files -> FileEntries] /\ StampsSent
      BY DEF FetchInv, FetchTypeOK
    <3>2. Written(f, a.version) \in FileEntries /\ (Written(f, a.version).stamped = (f \in Stamped))
      <4>1. a.version \in Nat
        <5> HIDE DEF a
        <5> QED
          BY <2>3 DEF Replies
      <4> HIDE DEF f, a
      <4> QED
        BY <4>1 DEF Written, FileEntries
    <3> HIDE DEF f, a
    <3> QED
      BY <2>1, <2>3, <3>1, <3>2 DEF StampsKept, StampsSent
  <2>7. UNCHANGED <<server, gone, phase, seen, warm, aged>>
    BY <1>1, <2>1 DEF historyVars
  <2> HIDE DEF v
  <2> QED
    BY <1>1, <2>1, <2>2, <2>4, <2>5, <2>6, <2>7, KeepKeeps
<1> QED
  BY <1>2, <1>3

-----------------------------------------------------------------------------
(***************************************************************************)
(* The theorems.                                                           *)
(***************************************************************************)

LEMMA FetchInvNext == FetchInv /\ [FetchNext]_fetchVars => FetchInv'
<1> SUFFICES ASSUME FetchInv, [FetchNext]_fetchVars PROVE FetchInv'
  OBVIOUS
<1>1. ASSUME NEW f \in Files, Publish(f) \/ Withdraw(f) PROVE FetchInv'
  BY <1>1, ChangeKeeps
<1>2. ASSUME NEW r \in Runs, RunStep(r) PROVE FetchInv'
  BY <1>2, BeginKeeps, TakeRecentKeeps, AskKeeps, PhaseEndsKeeps, AnswerKeeps, SettleKeeps
     DEF RunStep
<1>3. CASE UNCHANGED fetchVars
  <2>1. UNCHANGED <<server, gone, disk, progress, phase, request, memo, degraded, seen, warm,
                    aged>>
    BY <1>3 DEF fetchVars, worldVars, historyVars
  <2>2. FetchTypeOK' /\ StampsSent'
    BY <2>1 DEF FetchInv, FetchTypeOK, StampsSent
  <2>3. StampsKept
    BY <2>1 DEF StampsKept
  <2>4. ASSUME NEW r \in Runs PROVE RunInv(r)'
    BY <2>1, <2>3, OthersKeep DEF Own
  <2> QED
    BY <2>2, <2>4 DEF FetchInv
<1> QED
  BY <1>1, <1>2, <1>3 DEF FetchNext

\* What runs know of the server is inductive.
THEOREM FetchInvariant == FetchSpec => []FetchInv
  BY FetchInvInit, FetchInvNext, PTL DEF FetchSpec

\* For any runs, plans and changes: a run works with what was on the server
\* since it began, or its user was warned; one that begins with a stamped entry
\* for each of its files is not stopped by the network.
THEOREM MetadataIsServed == FetchSpec => []MetadataServed
<1>1. FetchInv => MetadataServed
  BY DEF FetchInv, RunInv, Confirmed, Served, MetadataServed, ConfirmedOrWarned,
     ServedByTheCache
<1> QED
  BY <1>1, FetchInvariant, PTL

\* What a run remembers is never replaced: only files that it does not remember
\* are asked for, and a batch is remembered at once.
LEMMA MemoStays ==
  ASSUME FetchInv, [FetchNext]_fetchVars, NEW r \in Runs, NEW f \in Files,
         memo[r][f] # Unread
  PROVE  memo'[r][f] = memo[r][f]
<1>1. ASSUME NEW s \in Runs, TakeRecent(s) PROVE memo'[r][f] = memo[r][f]
  <2>1. memo[s][Root] = Unread /\ memo' = [memo EXCEPT ![s][Root] = disk[Root].version]
    BY <1>1 DEF TakeRecent
  <2> QED
    BY <2>1 DEF FetchInv, FetchTypeOK
<1>2. ASSUME NEW s \in Runs, SettleNext(s) PROVE memo'[r][f] = memo[r][f]
  <2> SUFFICES ASSUME memo' # memo PROVE memo'[r][f] = memo[r][f]
    OBVIOUS
  <2>1. PICK values : Remember(s, values)
    BY <1>2 DEF SettleNext, Settle, Abort, Keep
  <2>2. progress[s] = "waiting"
    BY <1>2 DEF SettleNext
  <2>3. s = r => f \notin ToSet(request[s].files)
    BY <2>2 DEF FetchInv, RunInv, RequestInOrder, ToSet
  <2> QED
    BY <2>1, <2>3 DEF Remember, FetchInv, FetchTypeOK
<1>3. ASSUME NEW s \in Runs, RunStep(s) PROVE memo'[r][f] = memo[r][f]
  BY <1>1, <1>2, <1>3 DEF RunStep, Begin, AskRoot, AskBatch, Request, PhaseEnds, Answer
<1>4. ASSUME NEW g \in Files, Publish(g) \/ Withdraw(g) PROVE memo'[r][f] = memo[r][f]
  BY <1>4 DEF Publish, Withdraw, Change
<1> QED
  BY <1>3, <1>4 DEF FetchNext, fetchVars

\* The phases of a run see one version of each file, for any runs and plans.
THEOREM OneVersionAlways == FetchSpec => OneVersionPerRun
<1>1. FetchInv /\ [FetchNext]_fetchVars =>
        [\A r \in Runs, f \in Files :
           memo[r][f] # Unread => memo'[r][f] = memo[r][f]]_memo
  BY MemoStays
<1> QED
  BY <1>1, FetchInvariant, PTL DEF FetchSpec, OneVersionPerRun

-----------------------------------------------------------------------------
(***************************************************************************)
(* The store of packages.                                                  *)
(***************************************************************************)

USE StoreAssumption

\* Where a process stands: what its directory holds, and that the entry it
\* will be told of exists.
Standing(p) ==
  /\ pc[p] = "idle" => asked[p] = Absent
  /\ pc[p] # "idle" => asked[p] \in Entries
  /\ pc[p] = "extract" => temp[p] \in PartialTrees(bytes[p])
  /\ pc[p] \in {"discard", "ok"} => store[asked[p]] # Absent

StoreInv ==
  /\ TypeOK
  /\ EntriesWhole
  /\ \A p \in Procs : Standing(p)

LEMMA TreesAreDirectories ==
  ASSUME NEW tree \in Trees
  PROVE  tree \in Directories
BY DEF Trees, TreeOf, PartialTrees, Directories

LEMMA PartsAreDirectories ==
  ASSUME NEW a \in Archives, NEW tree \in PartialTrees(a)
  PROVE  tree \in Directories
BY DEF Directories

\* Absent and "no file" are not the directory of an archive.
LEMMA TreesAreThere ==
  ASSUME NEW tree \in Trees
  PROVE  tree # Absent /\ tree # EmptyTree
<1>1. PICK a \in Archives \ Damaged : tree = [f \in FilesOf[a] |-> a]
  BY DEF Trees, TreeOf
<1>2. tree # Absent
  BY <1>1
<1>3. DOMAIN tree = FilesOf[a] /\ DOMAIN EmptyTree = {}
  BY <1>1 DEF EmptyTree
<1> QED
  BY <1>1, <1>2, <1>3

\* An extraction that misses no file has written the whole archive.
LEMMA WholeWhenNothingIsMissing ==
  ASSUME StoreInv, NEW p \in Procs, Extracted(p)
  PROVE  temp[p] \in Trees
<1>1. bytes[p] \in Archives \ Damaged
  BY DEF StoreInv, TypeOK, Extracted
<1>2. PICK S \in SUBSET FilesOf[bytes[p]] : temp[p] = [f \in S |-> bytes[p]]
  BY DEF StoreInv, Standing, PartialTrees, Extracted
<1>3. S = FilesOf[bytes[p]]
  BY <1>2 DEF Extracted, MissingFiles
<1> QED
  BY <1>1, <1>2, <1>3 DEF Trees, TreeOf

\* One more file of the archive, and the directory is still a part of it.
LEMMA OneMoreFile ==
  ASSUME NEW a, NEW tree \in PartialTrees(a), NEW f \in FilesOf[a]
  PROVE  [g \in DOMAIN tree \cup {f} |-> IF g = f THEN a ELSE tree[g]]
           \in PartialTrees(a)
<1>1. PICK S \in SUBSET FilesOf[a] : tree = [g \in S |-> a]
  BY DEF PartialTrees
<1>2. [g \in DOMAIN tree \cup {f} |-> IF g = f THEN a ELSE tree[g]]
        = [g \in S \cup {f} |-> a]
  BY <1>1
<1>3. S \cup {f} \in SUBSET FilesOf[a]
  BY <1>1
<1> QED
  BY <1>2, <1>3 DEF PartialTrees

LEMMA NothingWrittenYet ==
  ASSUME NEW a
  PROVE  EmptyTree \in PartialTrees(a)
<1>1. EmptyTree = [f \in {} |-> a]
  BY DEF EmptyTree
<1> QED
  BY <1>1 DEF PartialTrees

LEMMA StoreInvInit == Init => StoreInv
BY DEF Init, StoreInv, TypeOK, Stages, EntriesWhole, Standing

LEMMA StoreInvNext ==
  ASSUME StoreInv, [Next]_vars
  PROVE  StoreInv'
<1> USE DEF StoreInv, TypeOK, Stages, EntriesWhole, Standing
<1>1. ASSUME NEW p \in Procs, NEW e \in Entries, Found(p, e)
      PROVE  StoreInv'
  BY <1>1 DEF Found
<1>2. ASSUME NEW p \in Procs, NEW e \in Entries, OpenTemp(p, e)
      PROVE  StoreInv'
  <2>1. EmptyTree \in PartialTrees(bytes[p])
    BY NothingWrittenYet
  <2> HIDE DEF EntriesWhole
  <2>2. TypeOK'
    BY <1>2, <2>1, PartsAreDirectories DEF OpenTemp
  <2>3. EntriesWhole'
    BY <1>2 DEF OpenTemp, EntriesWhole
  <2>4. \A q \in Procs : Standing(q)'
    <3> TAKE q \in Procs
    <3>1. CASE q = p
      <4>1. /\ pc'[q] = "extract"
            /\ asked'[q] = e
            /\ temp'[q] = EmptyTree
            /\ bytes'[q] = bytes[p]
        BY <1>2, <3>1 DEF OpenTemp
      <4> QED
        BY <2>1, <4>1
    <3>2. CASE q # p
      BY <1>2, <3>2 DEF OpenTemp
    <3> QED
      BY <3>1, <3>2
  <2> QED
    BY <2>2, <2>3, <2>4
<1>3. ASSUME NEW p \in Procs, NEW f, ExtractFile(p, f)
      PROVE  StoreInv'
  <2> DEFINE more == [g \in DOMAIN temp[p] \cup {f} |->
                       IF g = f THEN bytes[p] ELSE temp[p][g]]
  <2>1. temp[p] \in PartialTrees(bytes[p]) /\ f \in FilesOf[bytes[p]]
    BY <1>3 DEF ExtractFile, MissingFiles
  <2>2. more \in PartialTrees(bytes[p])
    BY <2>1, OneMoreFile
  <2>3. temp'[p] = more
    BY <1>3 DEF ExtractFile
  <2>4. temp'[p] \in PartialTrees(bytes[p])
    BY <2>2, <2>3
  <2>5. temp'[p] \in Directories
    BY <2>4, PartsAreDirectories
  <2> QED
    BY <1>3, <2>4, <2>5 DEF ExtractFile
<1>4. ASSUME NEW p \in Procs, ExtractFails(p)
      PROVE  StoreInv'
  BY <1>4 DEF ExtractFails
<1>5. ASSUME NEW p \in Procs, Rename(p)
      PROVE  StoreInv'
  <2>1. temp[p] \in Trees /\ temp[p] # Absent
    BY <1>5, WholeWhenNothingIsMissing, TreesAreThere DEF Rename
  <2>2. TypeOK'
    BY <1>5, <2>1, TreesAreDirectories DEF Rename, Extracted
  <2>3. EntriesWhole'
    BY <1>5, <2>1 DEF Rename
  <2>4. \A q \in Procs : Standing(q)'
    <3> TAKE q \in Procs
    <3>1. /\ store' = [store EXCEPT ![asked[p]] = temp[p]]
          /\ asked' = asked
          /\ bytes' = bytes
          /\ asked[p] \in Entries
      BY <1>5 DEF Rename, Extracted
    <3>2. \A e \in Entries : store[e] # Absent => store'[e] # Absent
      BY <2>1, <3>1
    <3>3. CASE q = p
      <4>1. pc'[q] = "ok" /\ store'[asked[p]] # Absent
        BY <1>5, <2>1, <3>1, <3>3 DEF Rename
      <4> QED
        BY <3>1, <3>3, <4>1
    <3>4. CASE q # p
      <4>1. pc'[q] = pc[q] /\ temp'[q] = temp[q]
        BY <1>5, <3>4 DEF Rename
      <4> QED
        BY <3>1, <3>2, <4>1
    <3> QED
      BY <3>3, <3>4
  <2> QED
    BY <2>2, <2>3, <2>4
<1>6. ASSUME NEW p \in Procs, RenameFails(p)
      PROVE  StoreInv'
  BY <1>6 DEF RenameFails, Extracted
<1>7. ASSUME NEW p \in Procs, RemoveTemp(p)
      PROVE  StoreInv'
  BY <1>7 DEF RemoveTemp
<1>8. ASSUME NEW p \in Procs, Crash(p)
      PROVE  StoreInv'
  BY <1>8 DEF Crash, Busy
<1>9. CASE UNCHANGED vars
  BY <1>9 DEF vars
<1> QED
  BY <1>1, <1>2, <1>3, <1>4, <1>5, <1>6, <1>7, <1>8, <1>9 DEF Next

LEMMA StoreInvariant == Spec => []StoreInv
<1>1. StoreInv /\ [Next]_vars => StoreInv'
  BY StoreInvNext
<1> QED
  BY <1>1, StoreInvInit, PTL DEF Spec

-----------------------------------------------------------------------------
\* The final directory of an entry only ever exists complete: whatever the
\* number of processes that extract it and wherever they die (store.rs:4-6).
THEOREM EntriesStayWhole == Spec => []EntriesWhole
BY StoreInvariant, PTL DEF StoreInv

\* A temporary directory that nobody works in is that of a process that died: the
\* losers of a rename and the victims of bad archives remove theirs, in any number
\* (Store::ensure).
THEOREM CrashesAloneLeak == Spec => []OnlyCrashesLeak
<1> USE DEF OnlyCrashesLeak, Busy
<1>1. Init => OnlyCrashesLeak
  BY DEF Init
<1>2. ASSUME OnlyCrashesLeak, StoreInv, [Next]_vars
      PROVE  OnlyCrashesLeak'
  <2> USE <1>2 DEF StoreInv, TypeOK, Stages
  <2>1. ASSUME NEW p \in Procs, NEW e \in Entries, Found(p, e) \/ OpenTemp(p, e)
        PROVE  OnlyCrashesLeak'
    BY <2>1 DEF Found, OpenTemp
  <2>2. ASSUME NEW p \in Procs, NEW f, ExtractFile(p, f)
        PROVE  OnlyCrashesLeak'
    BY <2>2 DEF ExtractFile
  <2>3. ASSUME NEW p \in Procs, ExtractFails(p) \/ Rename(p) \/ RemoveTemp(p)
        PROVE  OnlyCrashesLeak'
    BY <2>3 DEF ExtractFails, Rename, RemoveTemp, Extracted
  <2>4. ASSUME NEW p \in Procs, RenameFails(p) \/ Crash(p)
        PROVE  OnlyCrashesLeak'
    BY <2>4 DEF RenameFails, Crash, Extracted
  <2>5. CASE UNCHANGED vars
    BY <2>5 DEF vars
  <2> QED
    BY <2>1, <2>2, <2>3, <2>4, <2>5 DEF Next
<1> QED
  BY <1>1, <1>2, StoreInvariant, PTL DEF Spec

\* The types, and that a temporary directory is its owner's alone.
THEOREM StoreTypes == Spec => []TypeOK
BY StoreInvariant, PTL DEF StoreInv

\* The entry that is there wins over any later ensure: a project that cloned
\* it, or links to it, never sees it replaced.
THEOREM NothingReplacesAnEntry == Spec => EntriesNeverChange
<1>1. StoreInv /\ [Next]_vars
        => [\A e \in Entries : store[e] # Absent => store'[e] = store[e]]_store
  <2> SUFFICES ASSUME StoreInv, [Next]_vars, NEW e \in Entries, store[e] # Absent
               PROVE  store'[e] = store[e]
    OBVIOUS
  <2>1. store[e] # EmptyTree
    BY TreesAreThere DEF StoreInv, EntriesWhole
  <2>2. ASSUME NEW p \in Procs, Rename(p)
        PROVE  store'[e] = store[e]
    BY <2>1, <2>2 DEF Rename, CanReplace, StoreInv, TypeOK
  <2> QED
    BY <2>2 DEF Next, vars, Found, OpenTemp, ExtractFile, ExtractFails,
                RenameFails, RemoveTemp, Crash
<1> QED
  BY <1>1, StoreInvariant, PTL DEF Spec, EntriesNeverChange

\* Every step of an extraction is a step of the promise or changes nothing
\* that the promise speaks of: two concurrent processes converge.
THEOREM StoreKeepsPromise == Spec => KeepsPromise
<1>1. Init => Promise!Init
  BY DEF Init, Promise!Init
<1>2. StoreInv /\ [Next]_vars => [Promise!Next]_Promise!vars
  <2> SUFFICES ASSUME StoreInv, [Next]_vars
               PROVE  [Promise!Next]_Promise!vars
    OBVIOUS
  <2> USE DEF StoreInv, Standing
  <2>1. ASSUME NEW p \in Procs, NEW e \in Entries, Found(p, e)
        PROVE  Promise!AskAndFind(p, e)
    BY <2>1 DEF Found, Promise!AskAndFind, Promise!Ask, TypeOK, Stages
  <2>2. ASSUME NEW p \in Procs, NEW e \in Entries, OpenTemp(p, e)
        PROVE  Promise!AskAndWait(p, e)
    BY <2>2 DEF OpenTemp, Promise!AskAndWait, Promise!Ask, TypeOK, Stages
  <2>3. ASSUME NEW p \in Procs, NEW f, ExtractFile(p, f)
        PROVE  UNCHANGED Promise!vars
    BY <2>3 DEF ExtractFile, Promise!vars
  <2>4. ASSUME NEW p \in Procs, ExtractFails(p)
        PROVE  Promise!GiveUp(p)
    BY <2>4 DEF ExtractFails, Promise!GiveUp, Promise!Waiting, TypeOK, Stages
  <2>5. ASSUME NEW p \in Procs, Rename(p)
        PROVE  \E tree \in Trees : Promise!Shelve(p, tree)
    <3>1. temp[p] \in Trees
      BY <2>5, WholeWhenNothingIsMissing DEF Rename
    <3>2. store[asked[p]] = Absent
      BY <2>5, TreesAreThere DEF Rename, Extracted, CanReplace, EntriesWhole
    <3>3. Promise!Shelve(p, temp[p])
      BY <2>5, <3>2 DEF Rename, Extracted, Promise!Shelve, Promise!Waiting,
                        TypeOK, Stages
    <3> QED
      BY <3>1, <3>3 DEF Promise!Shelve
  <2>6. ASSUME NEW p \in Procs, RenameFails(p)
        PROVE  UNCHANGED Promise!vars
    BY <2>6 DEF RenameFails, Extracted, Promise!vars, TypeOK, Stages
  <2>7. ASSUME NEW p \in Procs, RemoveTemp(p)
        PROVE  Promise!Settle(p) \/ Promise!GiveUp(p)
    BY <2>7 DEF RemoveTemp, Promise!Settle, Promise!GiveUp, Promise!Waiting,
                TypeOK, Stages
  <2>8. ASSUME NEW p \in Procs, Crash(p)
        PROVE  UNCHANGED Promise!vars
    BY <2>8 DEF Crash, Busy, Promise!vars, TypeOK, Stages
  <2>9. CASE UNCHANGED vars
    BY <2>9 DEF vars, Promise!vars
  <2> QED
    BY <2>1, <2>2, <2>3, <2>4, <2>5, <2>6, <2>7, <2>8, <2>9
       DEF Next, Promise!Next
<1> QED
  BY <1>1, <1>2, StoreInvariant, PTL DEF Spec, KeepsPromise, Promise!Spec

=============================================================================
