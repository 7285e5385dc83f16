---------------------------- MODULE InstallProofs ----------------------------
(***************************************************************************)
(* The store is safe from the runs that link its files, as long as no two  *)
(* runs are in the same project at once: a run removes a package's         *)
(* directory before it links files there, nobody else adds any, and so the *)
(* file that it is about to create (reflink, link or copy) is not there, or *)
(* is the empty file of its own refused reflink.  A run that nobody         *)
(* interrupts leaves what the lock asks for, with its proxies.             *)
(***************************************************************************)
EXTENDS Install, Binaries, SequenceLemmas

\* One run at a time, in a project.
OneRun ==
  Alone => \A r, s \in Active : ProjectOf[r] = ProjectOf[s] => r = s

\* Where run r places package p, no file that is still to come is a link.
NothingInTheWay(r, p) ==
  LET dir == vendor[ProjectOf[r]][p] IN
  /\ step[r][p] = "make" => dir = None
  /\ step[r][p] = "link" /\ dir # None =>
       \A f \in DOMAIN dir : f >= at[r][p] => ~dir[f].linked

\* A run that has not begun has nothing in progress.
NotBegun ==
  \A r \in Runs : phase[r] = "idle" => \A p \in Packages : step[r][p] = "clear"

InstallInv ==
  /\ TypeOK
  /\ OneRun
  /\ NotBegun
  /\ Alone =>
       /\ \A r \in Active : \A p \in Packages : NothingInTheWay(r, p)
       /\ StoreIntact

-----------------------------------------------------------------------------
\* What is put in a directory, or left of it, makes a directory.
LEMMA EmptyIsDirectory == EmptyDir \in Directories
<1>1. EmptyDir \in [{} -> FileStates]
  BY DEF EmptyDir
<1>2. {} \in SUBSET Files
  OBVIOUS
<1> QED BY <1>1, <1>2 DEF Directories

LEMMA DirectoryDomain ==
  ASSUME NEW dir \in Directories
  PROVE  /\ DOMAIN dir \subseteq Files
         /\ \A f \in DOMAIN dir : dir[f] \in FileStates
BY DEF Directories

LEMMA LessIsDirectory ==
  ASSUME NEW dir \in Directories, NEW f
  PROVE  [g \in DOMAIN dir \ {f} |-> dir[g]] \in Directories
<1> DEFINE S == DOMAIN dir \ {f}
           new == [g \in S |-> dir[g]]
<1>1. S \in SUBSET Files
  BY DirectoryDomain
<1>2. new \in [S -> FileStates]
  BY DirectoryDomain
<1> HIDE DEF S, new
<1>3. new \in Directories
  BY <1>1, <1>2 DEF Directories
<1> QED BY <1>3 DEF S, new

LEMMA MoreIsDirectory ==
  ASSUME NEW dir \in Directories, NEW f \in Files, NEW x \in FileStates
  PROVE  [g \in DOMAIN dir \cup {f} |-> IF g = f THEN x ELSE dir[g]]
           \in Directories
<1> DEFINE S == DOMAIN dir \cup {f}
           new == [g \in S |-> IF g = f THEN x ELSE dir[g]]
<1>1. S \in SUBSET Files
  BY DirectoryDomain
<1>2. new \in [S -> FileStates]
  BY DirectoryDomain
<1> HIDE DEF S, new
<1>3. new \in Directories
  BY <1>1, <1>2 DEF Directories
<1> QED BY <1>3 DEF S, new

LEMMA WithNextIsDirectory ==
  ASSUME TypeOK, NEW r \in Runs, NEW p \in Packages, Linking(r, p),
         NEW x \in FileStates
  PROVE  WithNext(r, p, x) \in Directories
<1>1. vendor[ProjectOf[r]][p] \in Directories /\ at[r][p] \in Files
  BY InstallAssumption DEF TypeOK, Linking
<1> QED BY <1>1, MoreIsDirectory DEF WithNext

LEMMA StoredType ==
  ASSUME TypeOK, NEW r \in Runs, NEW p \in Packages, NEW f
  PROVE  Stored(p, goal[r][p], f) \in Versions \cup {None}
BY DEF TypeOK, Stored, Wanted

\* Opening the next file for writing leaves a directory, and may spoil a file.
LEMMA OverwriteTypes ==
  ASSUME TypeOK, NEW r \in Runs, NEW p \in Packages, Linking(r, p),
         NEW v \in Versions \cup {None}, Overwrite(r, p, v)
  PROVE  /\ vendor' \in [Projects -> [Packages -> Directories \cup {None}]]
         /\ spoiled' \subseteq Packages \X (Versions \cup {None}) \X Files
<1> DEFINE dir == vendor[ProjectOf[r]][p]
           f == at[r][p]
<1>1. dir \in Directories /\ f \in Files
  BY InstallAssumption DEF TypeOK, Linking
<1>2. CASE f \in DOMAIN dir /\ dir[f].linked
  <2>1. dir[f].of \in Versions \cup {None}
    BY <1>1, <1>2, DirectoryDomain DEF FileStates
  <2> QED BY <1>1, <1>2, <2>1 DEF Overwrite, TypeOK
<1>3. CASE ~(f \in DOMAIN dir /\ dir[f].linked)
  <2>1. FileOf(v, FALSE) \in FileStates
    BY DEF FileOf, FileStates
  <2>2. WithNext(r, p, FileOf(v, FALSE)) \in Directories
    BY <2>1, WithNextIsDirectory
  <2>3. SetDir(r, p, WithNext(r, p, FileOf(v, FALSE))) /\ UNCHANGED spoiled
    BY <1>3 DEF Overwrite
  <2> QED BY <2>2, <2>3, InstallAssumption DEF SetDir, TypeOK
<1> QED BY <1>2, <1>3

\* What the process holds, as long as its steps are within Steps.
LEMMA ForgetTypes ==
  ASSUME TypeOK, NEW r \in Runs, Forget(r)
  PROVE  /\ goal' \in [Runs -> Wanted]
         /\ toInstall' \in [Runs -> SUBSET Packages]
         /\ removals' \in [Runs -> SUBSET Packages]
         /\ step' \in [Runs -> [Packages -> Steps]]
         /\ at' \in [Runs -> [Packages -> 1 .. NbFiles + 1]]
         /\ probing' \in [Runs -> SUBSET Packages]
         /\ refused' \in [Runs -> SUBSET Packages]
         /\ unsupported' \in [Runs -> BOOLEAN]
<1>1. Nothing \in Wanted
  BY DEF Nothing, Wanted
<1>2. [p \in Packages |-> "clear"] \in [Packages -> Steps]
  BY DEF Steps
<1>3. [p \in Packages |-> 1] \in [Packages -> 1 .. NbFiles + 1]
  BY InstallAssumption
<1> QED BY <1>1, <1>2, <1>3 DEF Forget, TypeOK

LEMMA PackageStepTypes ==
  ASSUME TypeOK, NEW r \in Runs, NEW p \in Packages, PackageStep(r, p)
  PROVE  TypeOK'
<1> USE InstallAssumption
<1> DEFINE dir == vendor[ProjectOf[r]][p]
<1>1. CASE Fetch(r, p)
  BY <1>1 DEF Fetch, TypeOK, files, user, run, cursor, Wanted
<1>2. ASSUME NEW f \in Files, ClearFile(r, p, f) PROVE TypeOK'
  <2>1. dir \in Directories
    BY <1>2 DEF ClearFile, TypeOK
  <2>2. [g \in DOMAIN dir \ {f} |-> dir[g]] \in Directories
    BY <2>1, LessIsDirectory
  <2> QED BY <1>2, <2>2
      DEF ClearFile, SetDir, TypeOK, user, run, cursor
<1>3. CASE ClearDir(r, p)
  BY <1>3 DEF ClearDir, SetDir, SetStep, Steps, TypeOK, user, run
<1>4. CASE MakeDir(r, p)
  BY <1>4, EmptyIsDirectory DEF MakeDir, SetDir, SetStep, Steps, TypeOK, user, run
<1>5. CASE Reflink(r, p)
  <2>1. /\ vendor' \in [Projects -> [Packages -> Directories \cup {None}]]
        /\ spoiled' \subseteq Packages \X (Versions \cup {None}) \X Files
    BY <1>5, StoredType, OverwriteTypes DEF Reflink, MayReflink
  <2>2. at[r][p] + 1 \in 1 .. NbFiles + 1
    BY <1>5 DEF Reflink, MayReflink, Linking, Files
  <2> QED BY <1>5, <2>1, <2>2 DEF Reflink, MayReflink, NextFile, TypeOK, user, run
<1>6. CASE Probe(r, p)
  <2>1. /\ vendor' \in [Projects -> [Packages -> Directories \cup {None}]]
        /\ spoiled' \subseteq Packages \X (Versions \cup {None}) \X Files
    BY <1>6, OverwriteTypes DEF Probe, MayReflink
  <2> QED BY <1>6, <2>1 DEF Probe, MayReflink, TypeOK, user, run
<1>7. CASE Refused(r, p)
  <2>1. dir \in Directories
    BY <1>7 DEF Refused, Linking, TypeOK
  <2>2. [f \in DOMAIN dir \ {at[r][p]} |-> dir[f]] \in Directories
    BY <2>1, LessIsDirectory
  <2> QED BY <1>7, <2>2 DEF Refused, SetDir, TypeOK, user, run
<1>8. CASE HardLink(r, p)
  <2>1. FileOf(goal[r][p], TRUE) \in FileStates
    BY DEF TypeOK, FileOf, FileStates, Wanted
  <2>2. WithNext(r, p, FileOf(goal[r][p], TRUE)) \in Directories
    BY <1>8, <2>1, WithNextIsDirectory DEF HardLink, WithoutReflink
  <2>3. at[r][p] + 1 \in 1 .. NbFiles + 1
    BY <1>8 DEF HardLink, WithoutReflink, Linking, Files
  <2> QED BY <1>8, <2>2, <2>3
      DEF HardLink, WithoutReflink, NextFile, SetDir, TypeOK, user, run
<1>9. CASE Copy(r, p)
  <2>1. /\ vendor' \in [Projects -> [Packages -> Directories \cup {None}]]
        /\ spoiled' \subseteq Packages \X (Versions \cup {None}) \X Files
    BY <1>9, StoredType, OverwriteTypes DEF Copy, WithoutReflink
  <2>2. at[r][p] + 1 \in 1 .. NbFiles + 1
    BY <1>9 DEF Copy, WithoutReflink, Linking, Files
  <2> QED BY <1>9, <2>1, <2>2
      DEF Copy, WithoutReflink, NextFile, TypeOK, user, run
<1>10. CASE Placed(r, p)
  BY <1>10 DEF Placed, SetStep, Steps, TypeOK, files, user, run
<1> QED BY <1>1, <1>2, <1>3, <1>4, <1>5, <1>6, <1>7, <1>8, <1>9, <1>10,
           PackageStep(r, p) DEF PackageStep

LEMMA NextTypes == TypeOK /\ [Next]_vars => TypeOK'
<1> SUFFICES ASSUME TypeOK, [Next]_vars PROVE TypeOK'
  OBVIOUS
<1> USE InstallAssumption
<1>1. CASE UNCHANGED vars
  BY <1>1 DEF vars, files, user, run, cursor, TypeOK
<1>2. ASSUME NEW r \in Runs, Begin(r) PROVE TypeOK'
  <2>1. lock[ProjectOf[r]] \in Wanted
    BY DEF TypeOK
  <2>2. ToInstall(ProjectOf[r]) \subseteq Packages
    BY DEF ToInstall
  <2>3. Removals(ProjectOf[r]) \subseteq Packages
    BY DEF Removals
  <2> QED BY <1>2, <2>1, <2>2, <2>3
      DEF Begin, Phases, TypeOK, files, user, cursor
<1>3. ASSUME NEW r \in Runs, NEW p \in Packages, PackageStep(r, p) PROVE TypeOK'
  BY <1>3, PackageStepTypes
<1>4. ASSUME NEW r \in Runs, Fetched(r) \/ Removed(r) \/ AllPlaced(r) PROVE TypeOK'
  BY <1>4 DEF Fetched, Removed, AllPlaced, Phases, TypeOK, files, user, run, cursor
<1>5. ASSUME NEW r \in Runs, WriteState(r) PROVE TypeOK'
  <2>1. recorded' \in [Projects -> Wanted]
    BY <1>5 DEF WriteState, TypeOK
  <2> QED BY <1>5, <2>1, ForgetTypes DEF WriteState, Phases, TypeOK, files
<1>6. ASSUME NEW r \in Runs, Stop(r) PROVE TypeOK'
  BY <1>6, ForgetTypes DEF Stop, Phases, TypeOK, files
<1>7. ASSUME NEW j \in Projects, NEW l \in Locks, EditLock(j, l) PROVE TypeOK'
  BY <1>7 DEF EditLock, Edit, TypeOK, run, cursor
<1>8. ASSUME NEW j \in Projects, NEW p \in Packages, DeleteByHand(j, p) PROVE TypeOK'
  BY <1>8 DEF DeleteByHand, Edit, TypeOK, run, cursor
<1> QED BY <1>1, <1>2, <1>3, <1>4, <1>5, <1>6, <1>7, <1>8 DEF Next, RunStep

LEMMA InitTypes == Init => TypeOK
<1> SUFFICES ASSUME Init PROVE TypeOK
  OBVIOUS
<1> USE InstallAssumption DEF Init
<1>1. Nothing \in Wanted
  BY DEF Nothing, Wanted
<1>2. vendor \in [Projects -> [Packages -> Directories \cup {None}]]
  BY DEF Nothing
<1>3. step \in [Runs -> [Packages -> Steps]]
  BY DEF Steps
<1> QED BY <1>1, <1>2, <1>3 DEF TypeOK, Phases

\* Every variable keeps its type, whatever the runs and the user do: in
\* particular a run is never asked for a file beyond the last.
THEOREM InstallTypes == Spec => []TypeOK
BY InitTypes, NextTypes, PTL DEF Spec

-----------------------------------------------------------------------------
\* The package p of run r stays as it was, or loses files.
LEMMA NothingInTheWayKept ==
  ASSUME NEW r \in Runs, NEW p \in Packages, NothingInTheWay(r, p),
         step'[r][p] = step[r][p], at'[r][p] = at[r][p],
         vendor'[ProjectOf[r]][p] = vendor[ProjectOf[r]][p]
  PROVE  NothingInTheWay(r, p)'
BY DEF NothingInTheWay

\* With one run in a project, the steps of run r on package p are nobody
\* else's business.
LEMMA OthersKept ==
  ASSUME TypeOK, TypeOK', Alone, OneRun, NEW r \in Active, NEW p \in Packages,
         \A q \in Runs : \A b \in Packages : q # r \/ b # p =>
            step'[q][b] = step[q][b] /\ at'[q][b] = at[q][b],
         \A j \in Projects : \A b \in Packages :
            j # ProjectOf[r] \/ b # p => vendor'[j][b] = vendor[j][b],
         \A q \in Active : \A b \in Packages : NothingInTheWay(q, b),
         Active' = Active, NothingInTheWay(r, p)'
  PROVE  \A q \in Active' : \A b \in Packages : NothingInTheWay(q, b)'
<1> SUFFICES ASSUME NEW q \in Active, NEW b \in Packages, q # r \/ b # p
             PROVE  NothingInTheWay(q, b)'
  OBVIOUS
<1>1. q \in Runs /\ ProjectOf[q] \in Projects
  BY InstallAssumption DEF Active
<1>2. ProjectOf[q] # ProjectOf[r] \/ b # p
  BY DEF OneRun
<1> QED BY <1>1, <1>2, NothingInTheWayKept

\* The next file of a package is no link.
LEMMA NextIsNoLink ==
  ASSUME TypeOK, NEW r \in Runs, NEW p \in Packages, Linking(r, p),
         NothingInTheWay(r, p)
  PROVE  LET dir == vendor[ProjectOf[r]][p] IN
         at[r][p] \in DOMAIN dir => ~dir[at[r][p]].linked
BY DEF Linking, NothingInTheWay, Files, TypeOK

\* Opening the next file for writing therefore spoils nothing, and leaves the
\* files that follow as they were.
LEMMA OverwriteIsSafe ==
  ASSUME TypeOK, NEW r \in Runs, NEW p \in Packages, Linking(r, p),
         NothingInTheWay(r, p), NEW v, Overwrite(r, p, v),
         step'[r][p] = step[r][p],
         at'[r][p] = at[r][p] \/ at'[r][p] = at[r][p] + 1
  PROVE  /\ spoiled' = spoiled
         /\ vendor' = [vendor EXCEPT ![ProjectOf[r]][p] =
                          WithNext(r, p, FileOf(v, FALSE))]
         /\ NothingInTheWay(r, p)'
<1> DEFINE dir == vendor[ProjectOf[r]][p]
           f == at[r][p]
           new == WithNext(r, p, FileOf(v, FALSE))
<1> USE InstallAssumption
<1>1. dir \in Directories /\ f \in Files
  BY DEF TypeOK, Linking
<1>2. spoiled' = spoiled /\ SetDir(r, p, new)
  BY NextIsNoLink DEF Overwrite
<1>3. vendor'[ProjectOf[r]][p] = new
  BY <1>2 DEF SetDir, TypeOK
<1>4. DOMAIN new = DOMAIN dir \cup {f}
  BY DEF WithNext
<1>5. \A g \in DOMAIN new : g >= f => ~new[g].linked
  BY DEF WithNext, FileOf, NothingInTheWay, Linking
<1>6. DOMAIN new \subseteq Nat /\ f \in Nat
  <2>1. DOMAIN dir \subseteq Files
    BY <1>1, DirectoryDomain
  <2> HIDE DEF dir, new
  <2> QED BY <2>1, <1>1, <1>4 DEF Files
<1>7. \A g \in DOMAIN new : g >= at'[r][p] => ~new[g].linked
  <2> HIDE DEF new
  <2> QED BY <1>5, <1>6
<1>8. step'[r][p] = "link"
  BY DEF Linking
<1> QED BY <1>2, <1>3, <1>7, <1>8 DEF SetDir, NothingInTheWay

LEMMA PackageStepSafe ==
  ASSUME TypeOK, TypeOK', NEW r \in Active, NEW p \in Packages,
         NothingInTheWay(r, p), PackageStep(r, p)
  PROVE  /\ NothingInTheWay(r, p)'
         /\ spoiled' = spoiled
<1> USE InstallAssumption
<1>0. r \in Runs
  BY DEF Active
<1> DEFINE dir == vendor[ProjectOf[r]][p]
<1>1. CASE Fetch(r, p)
  BY <1>1 DEF Fetch, NothingInTheWay, cursor
<1>2. ASSUME NEW f \in Files, ClearFile(r, p, f)
      PROVE  NothingInTheWay(r, p)' /\ spoiled' = spoiled
  BY <1>2 DEF ClearFile, Clearing, NothingInTheWay, cursor
<1>3. CASE ClearDir(r, p)
  BY <1>0, <1>3 DEF ClearDir, SetDir, SetStep, NothingInTheWay, TypeOK
<1>4. CASE MakeDir(r, p)
  <2>1. vendor'[ProjectOf[r]][p] = EmptyDir
    BY <1>0, <1>4 DEF MakeDir, SetDir, NothingInTheWay, TypeOK
  <2>2. step'[r][p] = "link"
    BY <1>0, <1>4 DEF MakeDir, SetStep, TypeOK
  <2> QED BY <1>4, <2>1, <2>2 DEF MakeDir, NothingInTheWay, EmptyDir
<1>5. CASE Reflink(r, p)
  <2>1. at'[r][p] = at[r][p] + 1 /\ step'[r][p] = step[r][p]
    BY <1>0, <1>5 DEF Reflink, MayReflink, NextFile, TypeOK
  <2> QED BY <1>0, <1>5, <2>1, OverwriteIsSafe DEF Reflink, MayReflink
<1>6. CASE Probe(r, p)
  <2>1. Linking(r, p) /\ Overwrite(r, p, None)
    BY <1>6 DEF Probe, MayReflink
  <2>2. at'[r][p] = at[r][p] /\ step'[r][p] = step[r][p]
    BY <1>6 DEF Probe, MayReflink
  <2> QED BY <1>0, <2>1, <2>2, OverwriteIsSafe
<1>7. CASE Refused(r, p)
  <2>1. vendor'[ProjectOf[r]][p] = [f \in DOMAIN dir \ {at[r][p]} |-> dir[f]]
    BY <1>0, <1>7 DEF Refused, SetDir, TypeOK
  <2> QED BY <1>7, <2>1 DEF Refused, NothingInTheWay, Linking
<1>8. CASE HardLink(r, p)
  <2> DEFINE new == WithNext(r, p, FileOf(goal[r][p], TRUE))
  <2>1. vendor'[ProjectOf[r]][p] = new
    BY <1>0, <1>8 DEF HardLink, WithoutReflink, SetDir, TypeOK
  <2>2. at'[r][p] = at[r][p] + 1 /\ step'[r][p] = "link"
    BY <1>0, <1>8 DEF HardLink, WithoutReflink, Linking, NextFile, TypeOK
  <2>3. dir \in Directories /\ at[r][p] \in Files
    BY <1>0, <1>8 DEF HardLink, WithoutReflink, Linking, TypeOK
  <2>4. ASSUME NEW f \in DOMAIN new, f >= at[r][p] + 1 PROVE ~new[f].linked
    <3>1. f \in DOMAIN dir \cup {at[r][p]}
      BY DEF WithNext
    <3>2. f \in Nat /\ at[r][p] \in Nat
      BY <2>3, <3>1, DirectoryDomain DEF Files
    <3>3. f # at[r][p] /\ f >= at[r][p] /\ f \in DOMAIN dir
      BY <2>4, <3>1, <3>2
    <3>4. new[f] = dir[f]
      BY <3>3 DEF WithNext
    <3>5. ~dir[f].linked
      BY <1>8, <3>3 DEF HardLink, WithoutReflink, Linking, NothingInTheWay
    <3> QED BY <3>4, <3>5
  <2> QED BY <1>8, <2>1, <2>2, <2>4 DEF HardLink, NothingInTheWay
<1>9. CASE Copy(r, p)
  <2>1. at'[r][p] = at[r][p] + 1 /\ step'[r][p] = step[r][p]
    BY <1>0, <1>9 DEF Copy, WithoutReflink, NextFile, TypeOK
  <2> QED BY <1>0, <1>9, <2>1, OverwriteIsSafe DEF Copy, WithoutReflink
<1>10. CASE Placed(r, p)
  BY <1>0, <1>10 DEF Placed, SetStep, NothingInTheWay, TypeOK, files
<1> QED BY <1>1, <1>2, <1>3, <1>4, <1>5, <1>6, <1>7, <1>8, <1>9, <1>10,
           PackageStep(r, p) DEF PackageStep

LEMMA OverwriteFrame ==
  ASSUME TypeOK, NEW r \in Runs, NEW p \in Packages, NEW v, Overwrite(r, p, v)
  PROVE  \A j \in Projects : \A b \in Packages :
           j # ProjectOf[r] \/ b # p => vendor'[j][b] = vendor[j][b]
<1>1. \/ vendor' = vendor
      \/ vendor' = [vendor EXCEPT ![ProjectOf[r]][p] =
                       WithNext(r, p, FileOf(v, FALSE))]
  <2> DEFINE dir == vendor[ProjectOf[r]][p]
             f == at[r][p]
  <2>1. CASE f \in DOMAIN dir /\ dir[f].linked
    BY <2>1 DEF Overwrite
  <2>2. CASE ~(f \in DOMAIN dir /\ dir[f].linked)
    BY <2>2 DEF Overwrite, SetDir
  <2> QED BY <2>1, <2>2
<1>2. /\ vendor \in [Projects -> [Packages -> Directories \cup {None}]]
      /\ ProjectOf[r] \in Projects
  BY InstallAssumption DEF TypeOK
<1> SUFFICES ASSUME NEW j \in Projects, NEW b \in Packages,
                    j # ProjectOf[r] \/ b # p
             PROVE  vendor'[j][b] = vendor[j][b]
  OBVIOUS
<1>3. CASE j # ProjectOf[r]
  BY <1>1, <1>2, <1>3
<1>4. CASE j = ProjectOf[r] /\ b # p
  BY <1>1, <1>2, <1>4
<1> QED BY <1>3, <1>4

\* A step of r on p touches nothing but p's directory and r's own cursor.
LEMMA PackageStepFrame ==
  ASSUME TypeOK, NEW r \in Runs, NEW p \in Packages, PackageStep(r, p)
  PROVE  /\ r \in Active
         /\ phase' = phase
         /\ \A q \in Runs : \A b \in Packages : q # r \/ b # p =>
              step'[q][b] = step[q][b] /\ at'[q][b] = at[q][b]
         /\ \A j \in Projects : \A b \in Packages :
              j # ProjectOf[r] \/ b # p => vendor'[j][b] = vendor[j][b]
<1> USE InstallAssumption DEF Active, TypeOK
<1>1. CASE Fetch(r, p)
  BY <1>1 DEF Fetch, cursor
<1>2. ASSUME NEW f \in Files, ClearFile(r, p, f)
      PROVE  /\ r \in Active
             /\ phase' = phase
             /\ \A q \in Runs : \A b \in Packages : q # r \/ b # p =>
                  step'[q][b] = step[q][b] /\ at'[q][b] = at[q][b]
             /\ \A j \in Projects : \A b \in Packages :
                  j # ProjectOf[r] \/ b # p => vendor'[j][b] = vendor[j][b]
  BY <1>2 DEF ClearFile, Clearing, SetDir, cursor
<1>3. CASE ClearDir(r, p)
  BY <1>3 DEF ClearDir, Clearing, SetDir, SetStep
<1>4. CASE MakeDir(r, p)
  BY <1>4 DEF MakeDir, SetDir, SetStep
<1>5. CASE Reflink(r, p)
  BY <1>5, OverwriteFrame DEF Reflink, MayReflink, Linking, NextFile
<1>6. CASE Probe(r, p)
  BY <1>6, OverwriteFrame DEF Probe, MayReflink, Linking
<1>7. CASE Refused(r, p)
  BY <1>7 DEF Refused, Linking, SetDir
<1>8. CASE HardLink(r, p)
  BY <1>8 DEF HardLink, WithoutReflink, Linking, SetDir, NextFile
<1>9. CASE Copy(r, p)
  BY <1>9, OverwriteFrame DEF Copy, WithoutReflink, Linking, NextFile
<1>10. CASE Placed(r, p)
  BY <1>10 DEF Placed, SetStep, files
<1> QED BY <1>1, <1>2, <1>3, <1>4, <1>5, <1>6, <1>7, <1>8, <1>9, <1>10,
           PackageStep(r, p) DEF PackageStep

-----------------------------------------------------------------------------
LEMMA InitInstallInv == Init => InstallInv
<1> SUFFICES ASSUME Init PROVE InstallInv
  OBVIOUS
<1>1. Active = {}
  BY DEF Init, Active
<1>2. OneRun /\ StoreIntact
  BY <1>1 DEF Init, OneRun, StoreIntact
<1>3. NotBegun
  BY DEF Init, NotBegun
<1> QED BY <1>1, <1>2, <1>3, InitTypes DEF InstallInv

\* A package's step: the run is the only one of its project.
LEMMA PackageStepKeeps ==
  ASSUME InstallInv, TypeOK', NEW r \in Runs, NEW p \in Packages,
         PackageStep(r, p)
  PROVE  InstallInv'
<1> USE DEF InstallInv
<1>1. r \in Active /\ phase' = phase /\ Active' = Active
  BY PackageStepFrame DEF Active
<1>2. OneRun'
  BY <1>1 DEF OneRun
<1>3. NotBegun'
  <2> SUFFICES ASSUME NEW q \in Runs, phase[q] = "idle", NEW b \in Packages
               PROVE  step'[q][b] = "clear"
    BY <1>1 DEF NotBegun
  <2>1. q # r
    BY <1>1 DEF Active
  <2> QED BY <2>1, PackageStepFrame DEF NotBegun
<1>4. ASSUME Alone
      PROVE  /\ \A q \in Active' : \A b \in Packages : NothingInTheWay(q, b)'
             /\ StoreIntact'
  <2>1. NothingInTheWay(r, p)' /\ spoiled' = spoiled
    BY <1>1, <1>4, PackageStepSafe
  <2>2. StoreIntact'
    BY <1>4, <2>1 DEF StoreIntact
  <2>3. \A q \in Active' : \A b \in Packages : NothingInTheWay(q, b)'
    BY <1>1, <1>4, <2>1, PackageStepFrame, OthersKept
  <2> QED BY <2>2, <2>3
<1> QED BY <1>2, <1>3, <1>4

\* A run begins where no other is under way; it has nothing in progress.
LEMMA BeginKeeps ==
  ASSUME InstallInv, TypeOK', NEW r \in Runs, Begin(r)
  PROVE  InstallInv'
<1> USE DEF InstallInv
<1>1. /\ phase' = [phase EXCEPT ![r] = "fetch"] /\ phase[r] = "idle"
      /\ vendor' = vendor /\ spoiled' = spoiled /\ step' = step /\ at' = at
      /\ Alone => ActiveIn(ProjectOf[r]) = {}
  BY DEF Begin, files, cursor
<1>2. Active' = Active \cup {r}
  BY <1>1 DEF Active, TypeOK
<1>3. OneRun'
  BY <1>1, <1>2 DEF OneRun, ActiveIn
<1>4. NotBegun'
  BY <1>1 DEF NotBegun, TypeOK
<1>5. \A p \in Packages : NothingInTheWay(r, p)'
  BY <1>1 DEF NotBegun, NothingInTheWay
<1>6. Alone => /\ \A q \in Active' : \A p \in Packages : NothingInTheWay(q, p)'
               /\ StoreIntact'
  BY <1>1, <1>2, <1>5 DEF NothingInTheWay, StoreIntact
<1> QED BY <1>3, <1>4, <1>6

\* A run goes from one phase to the next.
LEMMA PhaseKeeps ==
  ASSUME InstallInv, TypeOK', NEW r \in Runs,
         Fetched(r) \/ Removed(r) \/ AllPlaced(r)
  PROVE  InstallInv'
<1> USE DEF InstallInv
<1>1. /\ vendor' = vendor /\ spoiled' = spoiled /\ step' = step /\ at' = at
      /\ Active' = Active
      /\ \A q \in Runs : phase'[q] = "idle" => phase[q] = "idle"
  BY DEF Fetched, Removed, AllPlaced, files, cursor, Active, TypeOK
<1>2. OneRun' /\ NotBegun'
  BY <1>1 DEF OneRun, NotBegun
<1>3. Alone => /\ \A q \in Active' : \A p \in Packages : NothingInTheWay(q, p)'
               /\ StoreIntact'
  BY <1>1 DEF NothingInTheWay, StoreIntact
<1> QED BY <1>2, <1>3

\* A run ends, one way or the other.
LEMMA EndKeeps ==
  ASSUME InstallInv, TypeOK', NEW r \in Runs, WriteState(r) \/ Stop(r)
  PROVE  InstallInv'
<1> USE DEF InstallInv
<1>1. /\ vendor' = vendor /\ spoiled' = spoiled
      /\ Active' \subseteq Active \ {r}
      /\ \A q \in Runs \ {r} : /\ step'[q] = step[q] /\ at'[q] = at[q]
                               /\ phase'[q] = phase[q]
      /\ phase'[r] # "idle"
  BY DEF WriteState, Stop, Forget, files, Active, TypeOK
<1>2. OneRun'
  BY <1>1 DEF OneRun
<1>3. NotBegun'
  BY <1>1 DEF NotBegun
<1>4. Alone => /\ \A q \in Active' : \A p \in Packages : NothingInTheWay(q, p)'
               /\ StoreIntact'
  <2> SUFFICES ASSUME Alone, NEW q \in Active', NEW p \in Packages
               PROVE  NothingInTheWay(q, p)' /\ StoreIntact'
    BY <1>1 DEF StoreIntact
  <2>1. q \in Active /\ q \in Runs \ {r}
    BY <1>1 DEF Active
  <2> QED BY <1>1, <2>1 DEF NothingInTheWay, StoreIntact
<1> QED BY <1>2, <1>3, <1>4

\* The user acts in projects where no run is under way.
LEMMA UserKeeps ==
  ASSUME InstallInv, TypeOK', NEW j \in Projects,
         \/ \E l \in Locks : EditLock(j, l)
         \/ \E p \in Packages : DeleteByHand(j, p)
  PROVE  InstallInv'
<1> USE DEF InstallInv
<1>1. /\ spoiled' = spoiled /\ step' = step /\ at' = at /\ phase' = phase
      /\ Active' = Active /\ ActiveIn(j) = {}
  BY DEF EditLock, DeleteByHand, Edit, cursor, Active
<1>2. \A k \in Projects : k # j => vendor'[k] = vendor[k]
  BY DEF EditLock, DeleteByHand, TypeOK
<1>3. OneRun' /\ NotBegun'
  BY <1>1 DEF OneRun, NotBegun
<1>4. Alone => /\ \A q \in Active' : \A p \in Packages : NothingInTheWay(q, p)'
               /\ StoreIntact'
  <2> SUFFICES ASSUME Alone, NEW q \in Active, NEW p \in Packages
               PROVE  NothingInTheWay(q, p)'
    BY <1>1 DEF StoreIntact
  <2>1. ProjectOf[q] \in Projects /\ ProjectOf[q] # j
    BY <1>1, InstallAssumption DEF Active, ActiveIn
  <2> QED BY <1>1, <1>2, <2>1 DEF NothingInTheWay
<1> QED BY <1>3, <1>4

LEMMA NextInstallInv == InstallInv /\ [Next]_vars => InstallInv'
<1> SUFFICES ASSUME InstallInv, [Next]_vars PROVE InstallInv'
  OBVIOUS
<1>1. TypeOK'
  BY NextTypes DEF InstallInv
<1>2. CASE UNCHANGED vars
  <2>1. Active' = Active
    BY <1>2 DEF vars, Active
  <2> QED BY <1>1, <1>2, <2>1
      DEF vars, files, cursor, InstallInv, OneRun, NotBegun, NothingInTheWay,
          StoreIntact
<1>3. ASSUME NEW r \in Runs, RunStep(r) PROVE InstallInv'
  BY <1>1, <1>3, BeginKeeps, PackageStepKeeps, PhaseKeeps, EndKeeps DEF RunStep
<1>4. ASSUME NEW r \in Runs, Stop(r) PROVE InstallInv'
  BY <1>1, <1>4, EndKeeps
<1>5. ASSUME NEW j \in Projects, \E l \in Locks : EditLock(j, l) PROVE InstallInv'
  BY <1>1, <1>5, UserKeeps
<1>6. ASSUME NEW j \in Projects, \E p \in Packages : DeleteByHand(j, p)
      PROVE  InstallInv'
  BY <1>1, <1>6, UserKeeps
<1> QED BY <1>2, <1>3, <1>4, <1>5, <1>6 DEF Next

\* With one run at a time in each project, no run ever writes to a file of the
\* store through a link in vendor: not by a reflink that is refused, not by a
\* copy, whatever was interrupted before and whatever the user deleted
\* (HANDOVER.md:100, "the store is safe").
THEOREM StoreStaysIntact == Alone => (Spec => []StoreIntact)
<1> SUFFICES ASSUME Alone PROVE Spec => []StoreIntact
  OBVIOUS
<1>1. InstallInv => StoreIntact
  BY DEF InstallInv
<1> QED BY <1>1, InitInstallInv, NextInstallInv, PTL DEF Spec

\* Whatever a run or the user does in one project, the packages of the others
\* keep their contents, although their files may be the store's own.
THEOREM ProjectsStayApart == Alone => (Spec => ProjectsApart)
<1> SUFFICES ASSUME Alone PROVE Spec => ProjectsApart
  OBVIOUS
<1> DEFINE Apart ==
      \A j \in Projects :
        Contents(j)' # Contents(j) => ActiveIn(j) # {} \/ edits' # edits
<1>1. ASSUME InstallInv, InstallInv', [Next]_vars PROVE [Apart]_vars
  <2> SUFFICES ASSUME Next, NEW j \in Projects, ActiveIn(j) = {}, edits' = edits
               PROVE  Contents(j)' = Contents(j)
    BY <1>1
  <2>1. spoiled' = spoiled
    BY <1>1 DEF InstallInv, StoreIntact
  <2>2. vendor'[j] = vendor[j]
    <3>1. ASSUME NEW r \in Runs, NEW p \in Packages, PackageStep(r, p)
          PROVE  vendor'[j] = vendor[j]
      <4>1. ProjectOf[r] # j
        BY <1>1, <3>1, PackageStepFrame DEF ActiveIn, InstallInv
      <4>2. \A b \in Packages : vendor'[j][b] = vendor[j][b]
        BY <1>1, <3>1, <4>1, PackageStepFrame DEF InstallInv
      <4> QED BY <1>1, <4>2 DEF InstallInv, TypeOK
    <3>2. ASSUME NEW r \in Runs,
                 \/ Begin(r) \/ Fetched(r) \/ Removed(r) \/ AllPlaced(r)
                 \/ WriteState(r) \/ Stop(r)
          PROVE  vendor'[j] = vendor[j]
      BY <3>2 DEF Begin, Fetched, Removed, AllPlaced, WriteState, Stop, files
    <3>3. ASSUME NEW k \in Projects, Edit(k) PROVE FALSE
      BY <1>1, <3>3 DEF Edit, InstallInv, TypeOK
    <3> QED BY <3>1, <3>2, <3>3 DEF Next, RunStep, EditLock, DeleteByHand
  <2> QED BY <2>1, <2>2 DEF Contents, Bytes, Stored
<1> QED BY <1>1, InitInstallInv, NextInstallInv, PTL DEF Spec, ProjectsApart

-----------------------------------------------------------------------------
(***************************************************************************)
(* A run that succeeds leaves what composer.lock asks for, whatever         *)
(* interrupted runs it comes after, for any number of packages, projects    *)
(* and files, as long as a project has one run at a time, an interrupted    *)
(* run is run again before the lock changes, and nobody deletes a package   *)
(* by hand: what installed.json records and the lock still wants is there,  *)
(* so that a run is right to leave it alone, and it lays out all the rest   *)
(* from an empty directory.                                                 *)
(***************************************************************************)

Calm == Alone /\ Patient /\ ~HandDeletes

\* Project j has package p at version v, each file made from the store's.
IsThere(j, p, v) ==
  IF v = None THEN vendor[j][p] = None
  ELSE /\ vendor[j][p] # None
       /\ DOMAIN vendor[j][p] = Files
       /\ \A f \in Files : vendor[j][p][f].of = v

\* installed.json tells the truth between two runs that nothing interrupted,
\* and always of the packages that the lock does not change.
RecordIsTrue ==
  \A j \in Projects : \A p \in Packages :
    \/ settled[j] /\ ActiveIn(j) = {}
    \/ recorded[j][p] = lock[j][p]
    => IsThere(j, p, recorded[j][p])

\* A package is copied from its first file on.
FromTheFirst ==
  \A r \in Runs : \A p \in Packages :
    step[r][p] \in {"clear", "make"} => at[r][p] = 1

\* A run works for the lock as it is, on all that the record tells apart from
\* it, and removes before it places.
AsPlanned(r) ==
  LET j == ProjectOf[r] IN
  /\ goal[r] = lock[j]
  /\ toInstall[r] =
       {p \in Packages : goal[r][p] # None /\ recorded[j][p] # goal[r][p]}
  /\ removals[r] =
       {p \in Packages : goal[r][p] = None /\ recorded[j][p] # None}
  /\ phase[r] \in {"place", "state"} =>
       \A p \in removals[r] : step[r][p] = "make"
  /\ phase[r] = "state" => \A p \in toInstall[r] : step[r][p] = "placed"

\* The files of p that come before the next one are those of the goal.
LaidOut(r, p) ==
  LET dir == vendor[ProjectOf[r]][p] IN
  /\ step[r][p] = "make" => p \in toInstall[r] \cup removals[r]
  /\ step[r][p] \in {"link", "placed"} =>
       /\ p \in toInstall[r]
       /\ dir # None
       /\ \A f \in 1 .. at[r][p] - 1 : f \in DOMAIN dir /\ dir[f].of = goal[r][p]
  /\ step[r][p] = "placed" => at[r][p] = NbFiles + 1

ConvergeInv ==
  /\ InstallInv
  /\ RecordIsTrue
  /\ FromTheFirst
  /\ \A r \in Active : AsPlanned(r) /\ \A p \in Packages : LaidOut(r, p)

-----------------------------------------------------------------------------
LEMMA InitConverges == Init => ConvergeInv
<1> SUFFICES ASSUME Init PROVE ConvergeInv
  OBVIOUS
<1>1. Active = {}
  BY DEF Init, Active
<1>2. RecordIsTrue
  BY DEF Init, RecordIsTrue, IsThere, Nothing
<1>3. FromTheFirst
  BY DEF Init, FromTheFirst
<1> QED BY <1>1, <1>2, <1>3, InitInstallInv DEF ConvergeInv

\* A file is added, and those before it stay.
LEMMA NextFileIsLaid ==
  ASSUME TypeOK, NEW r \in Runs, NEW p \in Packages, Linking(r, p),
         LaidOut(r, p), NEW x \in FileStates, x.of = goal[r][p],
         vendor'[ProjectOf[r]][p] = WithNext(r, p, x),
         at'[r][p] = at[r][p] + 1,
         step' = step, goal' = goal, toInstall' = toInstall
  PROVE  LaidOut(r, p)'
<1> USE InstallAssumption
<1> DEFINE dir == vendor[ProjectOf[r]][p]
           n == at[r][p]
           new == WithNext(r, p, x)
<1>1. n \in Nat /\ step[r][p] = "link"
  BY DEF Linking, Files
<1>2. p \in toInstall[r] /\ \A f \in 1 .. n - 1 : f \in DOMAIN dir /\ dir[f].of = goal[r][p]
  BY <1>1 DEF LaidOut
<1>3. new = [f \in DOMAIN dir \cup {n} |-> IF f = n THEN x ELSE dir[f]]
  BY DEF WithNext
<1> HIDE DEF new
<1>4. \A f \in 1 .. n : f \in DOMAIN new /\ new[f].of = goal[r][p]
  <2> SUFFICES ASSUME NEW f \in 1 .. n
               PROVE  f \in DOMAIN new /\ new[f].of = goal[r][p]
    OBVIOUS
  <2>1. CASE f = n
    BY <1>3, <2>1
  <2>2. CASE f # n
    <3>1. f \in 1 .. n - 1
      BY <1>1, <2>2
    <3> QED BY <1>2, <1>3, <2>2, <3>1
  <2> QED BY <2>1, <2>2
<1>5. new # None
  <2>1. new \in Directories
    BY WithNextIsDirectory DEF new
  <2> QED BY <2>1, NoneIsNoDirectory
<1>6. vendor'[ProjectOf[r]][p] = new /\ 1 .. at'[r][p] - 1 = 1 .. n
  BY <1>1 DEF new
<1>7. step'[r][p] = "link" /\ p \in toInstall'[r]
  BY <1>1, <1>2
<1> HIDE DEF n
<1> QED BY <1>4, <1>5, <1>6, <1>7 DEF LaidOut

\* A reflink and a copy of a store that nobody spoiled have the bytes of the
\* version, in a file of their own.
LEMMA OverwriteLays ==
  ASSUME TypeOK, StoreIntact, NEW r \in Runs, NEW p \in Packages,
         Linking(r, p), NothingInTheWay(r, p), LaidOut(r, p),
         Overwrite(r, p, Stored(p, goal[r][p], at[r][p])), NextFile(r, p),
         step' = step, goal' = goal, toInstall' = toInstall
  PROVE  LaidOut(r, p)'
<1> USE InstallAssumption
<1>1. Stored(p, goal[r][p], at[r][p]) = goal[r][p]
  BY DEF Stored, StoreIntact
<1>2. at'[r][p] = at[r][p] + 1
  BY DEF NextFile, TypeOK
<1> DEFINE x == FileOf(goal[r][p], FALSE)
<1>3. vendor' = [vendor EXCEPT ![ProjectOf[r]][p] = WithNext(r, p, x)]
  <2>1. Overwrite(r, p, goal[r][p])
    BY <1>1
  <2> QED BY <1>2, <2>1, OverwriteIsSafe
<1>4. vendor'[ProjectOf[r]][p] = WithNext(r, p, x)
  BY <1>3 DEF TypeOK
<1>5. x \in FileStates /\ x.of = goal[r][p]
  BY DEF TypeOK, FileOf, FileStates, Wanted
<1> HIDE DEF x
<1> QED BY <1>2, <1>4, <1>5, NextFileIsLaid

\* Every step of a run on a package continues the layout of that package.
LEMMA PackageStepLays ==
  ASSUME TypeOK, TypeOK', StoreIntact, NEW r \in Runs, NEW p \in Packages,
         NothingInTheWay(r, p), LaidOut(r, p), FromTheFirst,
         PackageStep(r, p)
  PROVE  LaidOut(r, p)'
<1> USE InstallAssumption
<1> DEFINE dir == vendor[ProjectOf[r]][p]
<1>1. CASE Fetch(r, p)
  BY <1>1 DEF Fetch, LaidOut, run, cursor
<1>2. ASSUME NEW f \in Files, ClearFile(r, p, f) PROVE LaidOut(r, p)'
  BY <1>2 DEF ClearFile, Clearing, LaidOut, run, cursor
<1>3. CASE ClearDir(r, p)
  <2>1. step'[r][p] = "make" /\ p \in toInstall'[r] \cup removals'[r]
    BY <1>3 DEF ClearDir, Clearing, SetStep, TypeOK, run
  <2> QED BY <2>1 DEF LaidOut
<1>4. CASE MakeDir(r, p)
  <2>1. step'[r][p] = "link" /\ p \in toInstall'[r] /\ at'[r][p] = 1
    BY <1>4 DEF MakeDir, SetStep, TypeOK, run, FromTheFirst
  <2>2. vendor'[ProjectOf[r]][p] = EmptyDir
    BY <1>4 DEF MakeDir, SetDir, NothingInTheWay, TypeOK
  <2>3. vendor'[ProjectOf[r]][p] # None
    BY <2>2, EmptyIsDirectory, NoneIsNoDirectory
  <2>4. 1 .. at'[r][p] - 1 = {}
    BY <2>1
  <2> QED BY <2>1, <2>3, <2>4 DEF LaidOut
<1>5. CASE Reflink(r, p)
  BY <1>5, OverwriteLays DEF Reflink, MayReflink, LaidOut, run
<1>6. CASE Probe(r, p)
  <2>1. /\ Linking(r, p) /\ Overwrite(r, p, None)
        /\ at' = at /\ step' = step /\ goal' = goal /\ toInstall' = toInstall
    BY <1>6 DEF Probe, MayReflink, run
  <2> DEFINE new == WithNext(r, p, FileOf(None, FALSE))
  <2>2. vendor'[ProjectOf[r]][p] = new
    <3>1. vendor' = [vendor EXCEPT ![ProjectOf[r]][p] = new]
      BY <2>1, OverwriteIsSafe
    <3> HIDE DEF new
    <3> QED BY <3>1 DEF TypeOK
  <2>3. new # None
    <3>1. FileOf(None, FALSE) \in FileStates
      BY DEF FileOf, FileStates
    <3> QED BY <2>1, <3>1, WithNextIsDirectory, NoneIsNoDirectory
  <2>4. \A f \in 1 .. at[r][p] - 1 : f \in DOMAIN dir =>
          f \in DOMAIN new /\ new[f] = dir[f]
    <3>1. \A f \in 1 .. at[r][p] - 1 : f # at[r][p]
      BY <2>1 DEF Linking, Files
    <3> QED BY <3>1 DEF WithNext
  <2> HIDE DEF new
  <2> QED BY <2>1, <2>2, <2>3, <2>4 DEF LaidOut, Linking
<1>7. CASE Refused(r, p)
  <2> DEFINE new == [f \in DOMAIN dir \ {at[r][p]} |-> dir[f]]
  <2>1. /\ Linking(r, p)
        /\ at' = at /\ step' = step /\ goal' = goal /\ toInstall' = toInstall
    BY <1>7 DEF Refused, run
  <2>2. vendor'[ProjectOf[r]][p] = new
    BY <1>7 DEF Refused, SetDir, TypeOK
  <2>3. new # None
    <3>1. dir \in Directories
      BY <2>1 DEF Linking, TypeOK
    <3> QED BY <3>1, LessIsDirectory, NoneIsNoDirectory
  <2>4. \A f \in 1 .. at[r][p] - 1 : f \in DOMAIN dir =>
          f \in DOMAIN new /\ new[f] = dir[f]
    BY <2>1 DEF Linking, Files
  <2> HIDE DEF new
  <2> QED BY <2>1, <2>2, <2>3, <2>4 DEF LaidOut, Linking
<1>8. CASE HardLink(r, p)
  <2> DEFINE x == FileOf(goal[r][p], TRUE)
  <2>1. /\ Linking(r, p) /\ at'[r][p] = at[r][p] + 1
        /\ step' = step /\ goal' = goal /\ toInstall' = toInstall
    BY <1>8 DEF HardLink, WithoutReflink, NextFile, TypeOK, run
  <2>2. vendor'[ProjectOf[r]][p] = WithNext(r, p, x)
    BY <1>8 DEF HardLink, SetDir, TypeOK
  <2>3. x \in FileStates /\ x.of = goal[r][p]
    BY DEF TypeOK, FileOf, FileStates, Wanted
  <2> HIDE DEF x
  <2> QED BY <2>1, <2>2, <2>3, NextFileIsLaid
<1>9. CASE Copy(r, p)
  BY <1>9, OverwriteLays DEF Copy, WithoutReflink, LaidOut, run
<1>10. CASE Placed(r, p)
  <2>1. step'[r][p] = "placed"
    BY <1>10 DEF Placed, SetStep, TypeOK
  <2>2. UNCHANGED <<vendor, goal, toInstall, at>> /\ at[r][p] = NbFiles + 1
    BY <1>10 DEF Placed, files, run
  <2> QED BY <1>10, <2>1, <2>2 DEF LaidOut, Placed
<1> QED BY <1>1, <1>2, <1>3, <1>4, <1>5, <1>6, <1>7, <1>8, <1>9, <1>10,
           PackageStep(r, p) DEF PackageStep

\* A step on a package follows the plan: it is a package to lay out or to
\* remove, and one that is removed stays so.
LEMMA PackageStepPlanned ==
  ASSUME TypeOK, NEW r \in Runs, NEW p \in Packages, AsPlanned(r),
         LaidOut(r, p), FromTheFirst, PackageStep(r, p)
  PROVE  /\ UNCHANGED <<lock, recorded, settled, phase>>
         /\ UNCHANGED <<goal, toInstall, removals>>
         /\ step'[r][p] \in {"clear", "make"} => at'[r][p] = 1
         /\ \/ vendor' = vendor
            \/ p \in toInstall[r] \cup removals[r]
         /\ p \in removals[r] /\ step[r][p] = "make" => step'[r][p] = "make"
         /\ phase[r] # "state"
<1> DEFINE Goal ==
             /\ UNCHANGED <<lock, recorded, settled, phase>>
             /\ UNCHANGED <<goal, toInstall, removals>>
             /\ step'[r][p] \in {"clear", "make"} => at'[r][p] = 1
             /\ \/ vendor' = vendor
                \/ p \in toInstall[r] \cup removals[r]
             /\ p \in removals[r] /\ step[r][p] = "make" => step'[r][p] = "make"
             /\ phase[r] # "state"
<1>1. CASE Fetch(r, p)
  BY <1>1 DEF Fetch, FromTheFirst, user, run, cursor
<1>2. ASSUME NEW f \in Files, ClearFile(r, p, f) PROVE Goal
  BY <1>2 DEF ClearFile, Clearing, FromTheFirst, user, run, cursor
<1>3. CASE ClearDir(r, p)
  BY <1>3 DEF ClearDir, Clearing, SetStep, FromTheFirst, TypeOK, user, run
<1>4. CASE MakeDir(r, p)
  <2>1. p \notin removals[r]
    BY <1>4 DEF MakeDir, AsPlanned
  <2>2. step'[r][p] = "link"
    BY <1>4 DEF MakeDir, SetStep, TypeOK
  <2> QED BY <1>4, <2>1, <2>2 DEF MakeDir, user, run
<1>5. ASSUME Linking(r, p), step' = step, UNCHANGED <<user, run, recorded, phase>>
      PROVE  Goal
  BY <1>5 DEF Linking, LaidOut, user, run
<1>6. CASE Reflink(r, p) \/ Probe(r, p) \/ Refused(r, p) \/ HardLink(r, p) \/ Copy(r, p)
  BY <1>5, <1>6
     DEF Reflink, Probe, MayReflink, Refused, HardLink, Copy, WithoutReflink,
         user, run
<1>7. CASE Placed(r, p)
  BY <1>7 DEF Placed, SetStep, TypeOK, files, user, run
<1> QED BY <1>1, <1>2, <1>3, <1>4, <1>6, <1>7, PackageStep(r, p) DEF PackageStep

\* What the others lay out is elsewhere.
LEMMA LaidOutKept ==
  ASSUME NEW r \in Runs, NEW p \in Packages, LaidOut(r, p),
         step'[r][p] = step[r][p], at'[r][p] = at[r][p], goal'[r] = goal[r],
         toInstall'[r] = toInstall[r], removals'[r] = removals[r],
         vendor'[ProjectOf[r]][p] = vendor[ProjectOf[r]][p]
  PROVE  LaidOut(r, p)'
BY DEF LaidOut

LEMMA AsPlannedKept ==
  ASSUME NEW r \in Runs, AsPlanned(r),
         step'[r] = step[r], phase'[r] = phase[r], goal'[r] = goal[r],
         toInstall'[r] = toInstall[r], removals'[r] = removals[r],
         lock'[ProjectOf[r]] = lock[ProjectOf[r]],
         recorded'[ProjectOf[r]] = recorded[ProjectOf[r]]
  PROVE  AsPlanned(r)'
BY DEF AsPlanned

LEMMA IsThereKept ==
  ASSUME NEW j, NEW p, NEW v, IsThere(j, p, v), vendor'[j][p] = vendor[j][p]
  PROVE  IsThere(j, p, v)'
BY DEF IsThere

\* What a run changes in the directories is what the record does not vouch for.
LEMMA PackageStepConverges ==
  ASSUME Calm, ConvergeInv, InstallInv', NEW r \in Runs, NEW p \in Packages,
         PackageStep(r, p)
  PROVE  ConvergeInv'
<1> USE InstallAssumption DEF ConvergeInv, InstallInv, Calm
<1>1. /\ r \in Active /\ Active' = Active
      /\ AsPlanned(r) /\ LaidOut(r, p) /\ NothingInTheWay(r, p)
  BY PackageStepFrame DEF Active
<1>2. /\ UNCHANGED <<lock, recorded, settled, phase>>
      /\ UNCHANGED <<goal, toInstall, removals>>
      /\ step'[r][p] \in {"clear", "make"} => at'[r][p] = 1
      /\ \/ vendor' = vendor
         \/ p \in toInstall[r] \cup removals[r]
      /\ p \in removals[r] /\ step[r][p] = "make" => step'[r][p] = "make"
      /\ phase[r] # "state"
  BY <1>1, PackageStepPlanned
<1>3. \A q \in Runs : \A b \in Packages : q # r \/ b # p =>
        step'[q][b] = step[q][b] /\ at'[q][b] = at[q][b]
  BY PackageStepFrame
<1>4. \A j \in Projects : \A b \in Packages :
        j # ProjectOf[r] \/ b # p => vendor'[j][b] = vendor[j][b]
  BY PackageStepFrame
<1>5. RecordIsTrue'
  <2> SUFFICES ASSUME NEW j \in Projects, NEW b \in Packages,
                      \/ settled[j] /\ ActiveIn(j) = {}
                      \/ recorded[j][b] = lock[j][b]
               PROVE  IsThere(j, b, recorded[j][b])'
    BY <1>1, <1>2 DEF RecordIsTrue, ActiveIn
  <2>1. IsThere(j, b, recorded[j][b])
    BY DEF RecordIsTrue
  <2>2. vendor'[j][b] = vendor[j][b]
    <3>1. CASE j = ProjectOf[r] /\ b = p /\ vendor' # vendor
      <4>1. recorded[j][b] # lock[j][b]
        BY <1>1, <1>2, <3>1 DEF AsPlanned
      <4>2. ActiveIn(j) # {}
        BY <1>1, <3>1 DEF ActiveIn
      <4> QED BY <4>1, <4>2
    <3> QED BY <1>4, <3>1
  <2> QED BY <1>2, <2>1, <2>2, IsThereKept
<1>6. FromTheFirst'
  <2> SUFFICES ASSUME NEW q \in Runs, NEW b \in Packages,
                      step'[q][b] \in {"clear", "make"}
               PROVE  at'[q][b] = 1
    BY DEF FromTheFirst
  <2> QED BY <1>2, <1>3 DEF FromTheFirst
<1>7. ASSUME NEW q \in Active PROVE AsPlanned(q)'
  <2>1. q \in Runs /\ AsPlanned(q)
    BY DEF Active
  <2>2. CASE q # r
    <3>1. step'[q] = step[q]
      BY <1>3, <2>1, <2>2 DEF TypeOK
    <3> QED BY <1>2, <2>1, <3>1, AsPlannedKept
  <2>3. CASE q = r
    <3>1. phase[r] = "place" => \A b \in removals[r] : step'[r][b] = "make"
      BY <1>1, <1>2, <1>3 DEF AsPlanned
    <3> QED BY <1>1, <1>2, <2>3, <3>1 DEF AsPlanned
  <2> QED BY <2>2, <2>3
<1>8. ASSUME NEW q \in Active, NEW b \in Packages PROVE LaidOut(q, b)'
  <2>1. q \in Runs /\ LaidOut(q, b) /\ ProjectOf[q] \in Projects
    BY DEF Active
  <2>2. CASE q = r /\ b = p
    BY <1>1, <2>2, PackageStepLays
  <2>3. CASE q # r \/ b # p
    <3>1. ProjectOf[q] # ProjectOf[r] \/ b # p
      BY <1>1, <2>3 DEF OneRun
    <3> QED BY <1>2, <1>3, <1>4, <2>1, <2>3, <3>1, LaidOutKept
  <2> QED BY <2>2, <2>3
<1> QED BY <1>1, <1>5, <1>6, <1>7, <1>8

\* A run that begins finds what the record vouches for, and plans the rest.
LEMMA BeginConverges ==
  ASSUME Calm, ConvergeInv, InstallInv', NEW r \in Runs, Begin(r)
  PROVE  ConvergeInv'
<1> USE InstallAssumption DEF ConvergeInv, InstallInv, Calm
<1> DEFINE j == ProjectOf[r]
<1>1. /\ UNCHANGED <<vendor, lock, recorded, settled, step, at>>
      /\ phase[r] = "idle" /\ phase' = [phase EXCEPT ![r] = "fetch"]
      /\ goal' = [goal EXCEPT ![r] = lock[j]]
      /\ toInstall' = [toInstall EXCEPT ![r] = ToInstall(j)]
      /\ removals' = [removals EXCEPT ![r] = Removals(j)]
  BY DEF Begin, files, user, cursor
<1>2. Active' = Active \cup {r} /\ r \notin Active
  BY <1>1 DEF Active, TypeOK
<1>3. RecordIsTrue'
  <2>1. \A k \in Projects : ActiveIn(k) \subseteq ActiveIn(k)'
    BY <1>2 DEF ActiveIn
  <2> QED BY <1>1, <2>1 DEF RecordIsTrue, IsThere
<1>4. FromTheFirst'
  BY <1>1 DEF FromTheFirst
<1>5. AsPlanned(r)'
  <2>1. goal'[r] = lock[j] /\ toInstall'[r] = ToInstall(j)
        /\ removals'[r] = Removals(j) /\ phase'[r] = "fetch"
    BY <1>1 DEF TypeOK
  <2>2. \A p \in Packages : lock[j][p] # None =>
          (Previous(j, p) # lock[j][p] <=> recorded[j][p] # lock[j][p])
    BY DEF Previous, RecordIsTrue, IsThere
  <2>3. ToInstall(j) =
          {p \in Packages : lock[j][p] # None /\ recorded[j][p] # lock[j][p]}
    BY <2>2 DEF ToInstall
  <2>4. Removals(j) =
          {p \in Packages : lock[j][p] = None /\ recorded[j][p] # None}
    BY DEF Removals
  <2> QED BY <1>1, <2>1, <2>3, <2>4 DEF AsPlanned
<1>6. \A p \in Packages : LaidOut(r, p)'
  BY <1>1 DEF NotBegun, LaidOut
<1>7. ASSUME NEW q \in Active PROVE AsPlanned(q)' /\ \A p \in Packages : LaidOut(q, p)'
  <2>1. q \in Runs /\ q # r
    BY <1>2 DEF Active
  <2>2. /\ goal'[q] = goal[q] /\ toInstall'[q] = toInstall[q]
        /\ removals'[q] = removals[q] /\ phase'[q] = phase[q]
    BY <1>1, <2>1 DEF TypeOK
  <2> QED BY <1>1, <2>1, <2>2, AsPlannedKept, LaidOutKept
<1> QED BY <1>2, <1>3, <1>4, <1>5, <1>6, <1>7

\* Removals end before the packages are placed, and these before the record.
LEMMA PhaseConverges ==
  ASSUME Calm, ConvergeInv, InstallInv', NEW r \in Runs,
         Fetched(r) \/ Removed(r) \/ AllPlaced(r)
  PROVE  ConvergeInv'
<1> USE InstallAssumption DEF ConvergeInv, InstallInv, Calm
<1>1. /\ UNCHANGED <<vendor, lock, recorded, settled, step, at>>
      /\ UNCHANGED <<goal, toInstall, removals>>
      /\ r \in Active /\ Active' = Active
      /\ \A q \in Runs : q # r => phase'[q] = phase[q]
  BY DEF Fetched, Removed, AllPlaced, files, user, run, cursor, Active, TypeOK
<1>2. RecordIsTrue' /\ FromTheFirst'
  BY <1>1 DEF RecordIsTrue, FromTheFirst, IsThere, ActiveIn
<1>3. AsPlanned(r)'
  <2>1. CASE Fetched(r)
    <3>1. phase'[r] = "remove"
      BY <2>1 DEF Fetched, TypeOK
    <3> QED BY <1>1, <3>1 DEF AsPlanned
  <2>2. CASE Removed(r)
    <3>1. phase'[r] = "place" /\ \A p \in removals[r] : step[r][p] = "make"
      BY <2>2 DEF Removed, TypeOK
    <3> QED BY <1>1, <3>1 DEF AsPlanned
  <2>3. CASE AllPlaced(r)
    <3>1. /\ phase[r] = "place" /\ phase'[r] = "state"
          /\ \A p \in toInstall[r] : step[r][p] = "placed"
      BY <2>3 DEF AllPlaced, TypeOK
    <3> QED BY <1>1, <3>1 DEF AsPlanned
  <2> QED BY <2>1, <2>2, <2>3
<1>4. ASSUME NEW q \in Active PROVE AsPlanned(q)' /\ \A p \in Packages : LaidOut(q, p)'
  <2>1. q \in Runs
    BY DEF Active
  <2> QED BY <1>1, <1>3, <2>1, AsPlannedKept, LaidOutKept
<1> QED BY <1>1, <1>2, <1>4

\* A run that is about to write the record has the whole of its goal there.
LEMMA FinishedIsThere ==
  ASSUME Calm, ConvergeInv, NEW r \in Runs, phase[r] = "state", NEW p \in Packages
  PROVE  IsThere(ProjectOf[r], p, goal[r][p])
<1> USE InstallAssumption DEF ConvergeInv, InstallInv, Calm
<1> DEFINE j == ProjectOf[r]
           dir == vendor[j][p]
<1>1. r \in Active /\ AsPlanned(r) /\ LaidOut(r, p) /\ NothingInTheWay(r, p)
  BY DEF Active
<1>2. CASE p \in toInstall[r]
  <2>1. goal[r][p] # None /\ step[r][p] = "placed"
    BY <1>1, <1>2 DEF AsPlanned
  <2>2. at[r][p] = NbFiles + 1 /\ dir # None
        /\ \A f \in 1 .. at[r][p] - 1 : f \in DOMAIN dir /\ dir[f].of = goal[r][p]
    BY <1>1, <2>1 DEF LaidOut
  <2>3. \A f \in Files : f \in DOMAIN dir /\ dir[f].of = goal[r][p]
    BY <2>2 DEF Files
  <2>4. DOMAIN dir \subseteq Files
    BY <2>2, DirectoryDomain DEF TypeOK
  <2> QED BY <2>1, <2>2, <2>3, <2>4 DEF IsThere
<1>3. CASE p \in removals[r]
  BY <1>1, <1>3 DEF AsPlanned, NothingInTheWay, IsThere
<1>4. CASE p \notin toInstall[r] \cup removals[r]
  BY <1>1, <1>4 DEF AsPlanned, RecordIsTrue
<1> QED BY <1>2, <1>3, <1>4

\* A run ends: the record is then true, or the project unsettled.
LEMMA EndConverges ==
  ASSUME Calm, ConvergeInv, InstallInv', NEW r \in Runs, WriteState(r) \/ Stop(r)
  PROVE  ConvergeInv'
<1> USE InstallAssumption DEF ConvergeInv, InstallInv, Calm
<1> DEFINE j == ProjectOf[r]
<1>1. /\ UNCHANGED <<vendor, lock>>
      /\ r \in Active /\ Active' = Active \ {r}
      /\ \A k \in Projects : k # j =>
           settled'[k] = settled[k] /\ recorded'[k] = recorded[k]
      /\ \A q \in Runs : q # r =>
           /\ phase'[q] = phase[q] /\ step'[q] = step[q] /\ at'[q] = at[q]
           /\ goal'[q] = goal[q] /\ toInstall'[q] = toInstall[q]
           /\ removals'[q] = removals[q]
      /\ \A p \in Packages : at'[r][p] = 1
  BY DEF WriteState, Stop, Forget, files, Active, TypeOK
<1>2. ASSUME NEW k \in Projects, NEW p \in Packages,
             (settled[k] /\ ActiveIn(k) = {})' \/ (recorded[k][p] = lock[k][p])'
      PROVE  IsThere(k, p, recorded[k][p])'
  <2>1. CASE k # j
    <3>1. ActiveIn(k)' = ActiveIn(k)
      BY <1>1, <2>1 DEF ActiveIn
    <3>2. IsThere(k, p, recorded[k][p])
      BY <1>1, <1>2, <2>1, <3>1 DEF RecordIsTrue
    <3> QED BY <1>1, <2>1, <3>2 DEF IsThere
  <2>2. CASE k = j /\ WriteState(r)
    <3>1. recorded'[j] = goal[r] /\ phase[r] = "state"
      BY <2>2 DEF WriteState, TypeOK
    <3>2. IsThere(j, p, goal[r][p])
      BY <3>1, FinishedIsThere
    <3> QED BY <1>1, <2>2, <3>1, <3>2 DEF IsThere
  <2>3. CASE k = j /\ Stop(r)
    <3>1. ~settled'[j] /\ recorded' = recorded
      BY <2>3 DEF Stop, TypeOK
    <3>2. IsThere(j, p, recorded[j][p])
      BY <1>1, <1>2, <2>3, <3>1 DEF RecordIsTrue
    <3> QED BY <1>1, <2>3, <3>1, <3>2 DEF IsThere
  <2> QED BY <2>1, <2>2, <2>3
<1>3. RecordIsTrue'
  BY <1>2 DEF RecordIsTrue
<1>4. FromTheFirst'
  BY <1>1 DEF FromTheFirst
<1>5. ASSUME NEW q \in Active'
      PROVE  AsPlanned(q)' /\ \A p \in Packages : LaidOut(q, p)'
  <2>1. q \in Active /\ q \in Runs /\ q # r
    BY <1>1 DEF Active
  <2>2. ProjectOf[q] # j /\ ProjectOf[q] \in Projects
    BY <1>1, <2>1 DEF OneRun
  <2> QED BY <1>1, <2>1, <2>2, AsPlannedKept, LaidOutKept
<1> QED BY <1>3, <1>4, <1>5

\* The user changes the lock where the record is true of every package.
LEMMA UserConverges ==
  ASSUME Calm, ConvergeInv, InstallInv', NEW j \in Projects,
         \/ \E l \in Locks : EditLock(j, l)
         \/ \E p \in Packages : DeleteByHand(j, p)
  PROVE  ConvergeInv'
<1> USE InstallAssumption DEF ConvergeInv, InstallInv, Calm
<1>1. /\ UNCHANGED <<vendor, settled, recorded, phase, step, at>>
      /\ UNCHANGED <<goal, toInstall, removals>>
      /\ Active' = Active /\ ActiveIn(j) = {} /\ settled[j]
      /\ \A k \in Projects : k # j => lock'[k] = lock[k]
  BY DEF EditLock, DeleteByHand, Edit, run, cursor, Active, TypeOK
<1>2. RecordIsTrue'
  BY <1>1 DEF RecordIsTrue, IsThere, ActiveIn
<1>3. FromTheFirst'
  BY <1>1 DEF FromTheFirst
<1>4. ASSUME NEW q \in Active PROVE AsPlanned(q)' /\ \A p \in Packages : LaidOut(q, p)'
  <2>1. q \in Runs /\ ProjectOf[q] \in Projects /\ ProjectOf[q] # j
    BY <1>1 DEF Active, ActiveIn
  <2> QED BY <1>1, <2>1, AsPlannedKept, LaidOutKept
<1> QED BY <1>1, <1>2, <1>3, <1>4

LEMMA NextConverges ==
  Calm /\ ConvergeInv /\ [Next]_vars => ConvergeInv'
<1> SUFFICES ASSUME Calm, ConvergeInv, [Next]_vars PROVE ConvergeInv'
  OBVIOUS
<1>1. InstallInv'
  BY NextInstallInv DEF ConvergeInv
<1>2. CASE UNCHANGED vars
  <2>1. Active' = Active
    BY <1>2 DEF vars, Active
  <2>2. /\ UNCHANGED <<vendor, lock, settled, recorded, phase, step, at>>
        /\ UNCHANGED <<goal, toInstall, removals>>
    BY <1>2 DEF vars, files, user, run, cursor
  <2>3. RecordIsTrue' /\ FromTheFirst'
    BY <2>1, <2>2 DEF ConvergeInv, RecordIsTrue, FromTheFirst, IsThere, ActiveIn
  <2>4. ASSUME NEW q \in Active PROVE AsPlanned(q)' /\ \A p \in Packages : LaidOut(q, p)'
    <3>1. q \in Runs
      BY DEF Active
    <3> QED BY <2>2, <3>1, AsPlannedKept, LaidOutKept DEF ConvergeInv
  <2> QED BY <1>1, <2>1, <2>3, <2>4 DEF ConvergeInv
<1>3. ASSUME NEW r \in Runs, RunStep(r) PROVE ConvergeInv'
  BY <1>1, <1>3, BeginConverges, PackageStepConverges, PhaseConverges,
     EndConverges DEF RunStep
<1>4. ASSUME NEW r \in Runs, Stop(r) PROVE ConvergeInv'
  BY <1>1, <1>4, EndConverges
<1>5. ASSUME NEW j \in Projects, \E l \in Locks : EditLock(j, l) PROVE ConvergeInv'
  BY <1>1, <1>5, UserConverges
<1>6. ASSUME NEW j \in Projects, \E p \in Packages : DeleteByHand(j, p)
      PROVE  ConvergeInv'
  BY <1>1, <1>6, UserConverges
<1> QED BY <1>2, <1>3, <1>4, <1>5, <1>6 DEF Next

\* A run that succeeds leaves every package of the lock complete, at the
\* version of the lock, and nothing of those that it removed, although runs
\* before it died anywhere (installer.rs:3, "rerun after an interruption, it
\* converges"); module Install says what becomes of it otherwise.
THEOREM RunsConverge == Calm => (Spec => RunConverges)
<1> SUFFICES ASSUME Calm PROVE Spec => RunConverges
  OBVIOUS
<1> DEFINE Converges ==
      \A r \in Runs : phase[r] # "done" /\ phase'[r] = "done" =>
        \A p \in Packages :
          IF goal[r][p] = None
          THEN vendor[ProjectOf[r]][p] = None
          ELSE Complete(ProjectOf[r], p, goal[r][p])
<1>1. ASSUME ConvergeInv, [Next]_vars PROVE [Converges]_vars
  <2> SUFFICES ASSUME Next, NEW r \in Runs, phase[r] # "done", phase'[r] = "done",
                      NEW p \in Packages
               PROVE  IF goal[r][p] = None
                      THEN vendor[ProjectOf[r]][p] = None
                      ELSE Complete(ProjectOf[r], p, goal[r][p])
    BY <1>1
  <2> USE <1>1 DEF ConvergeInv, InstallInv, Calm
  <2>1. phase[r] = "state"
    <3>1. ASSUME NEW q \in Runs, NEW b \in Packages, PackageStep(q, b) PROVE FALSE
      BY <3>1, PackageStepFrame
    <3>2. ASSUME NEW q \in Runs,
                 \/ Begin(q) \/ Fetched(q) \/ Removed(q) \/ AllPlaced(q)
                 \/ WriteState(q) \/ Stop(q)
          PROVE  phase[r] = "state"
      BY <3>2 DEF Begin, Fetched, Removed, AllPlaced, WriteState, Stop, TypeOK
    <3>3. ASSUME NEW k \in Projects, Edit(k) PROVE FALSE
      BY <3>3 DEF Edit
    <3> QED BY <3>1, <3>2, <3>3 DEF Next, RunStep, EditLock, DeleteByHand
  <2>2. IsThere(ProjectOf[r], p, goal[r][p])
    BY <2>1, FinishedIsThere
  <2> QED BY <2>2 DEF IsThere, Complete, Bytes, Stored, StoreIntact
<1> QED BY <1>1, InitConverges, NextConverges, PTL DEF Spec, RunConverges

(***************************************************************************)
(* The proxies of vendor/bin.                                              *)
(***************************************************************************)

\* What the recursive function of AllBinaries computes, up to n.
PlacesBinaries(f, wanted, n) ==
  f = [i \in 0 .. n |->
         IF i = 0 THEN proxies ELSE AfterPackage(wanted, LockOrder[i], f[i - 1])]

\* It exists.
LEMMA PlacesBinariesExists ==
  ASSUME NEW wanted, NEW n \in Nat
  PROVE  \E f : PlacesBinaries(f, wanted, n)
<1> DEFINE T == {k \in Nat : ~\E f : PlacesBinaries(f, wanted, k)}
           After(bin, i) == AfterPackage(wanted, LockOrder[i], bin)
<1> SUFFICES ASSUME T # {} PROVE FALSE
  OBVIOUS
<1>1. PICK k \in T : \A j \in T : k <= j
  BY LeastNumber
<1>2. CASE k = 0
  <2>1. PlacesBinaries([i \in 0 .. 0 |-> proxies], wanted, 0)
    BY DEF PlacesBinaries
  <2> QED
    BY <2>1, <1>2
<1>3. CASE k > 0
  <2>1. k - 1 \in Nat /\ k - 1 \notin T
    BY <1>1, <1>3
  <2>2. PICK f : PlacesBinaries(f, wanted, k - 1)
    BY <2>1
  <2>3. f = [i \in 0 .. k - 1 |-> IF i = 0 THEN proxies ELSE After(f[i - 1], i)]
    BY <2>2 DEF PlacesBinaries
  <2> HIDE DEF After
  <2> DEFINE g == [i \in 0 .. k |-> IF i < k THEN f[i] ELSE After(f[k - 1], k)]
             h == [i \in 0 .. k |-> IF i = 0 THEN proxies ELSE After(g[i - 1], i)]
  <2>4. \A i \in 0 .. k - 1 : g[i] = f[i]
    BY <1>3
  <2>5. ASSUME NEW i \in 0 .. k
        PROVE  g[i] = h[i]
    <3>1. CASE i = k
      BY <3>1, <1>3, <2>4
    <3>2. CASE i < k
      <4>1. i \in 0 .. k - 1 /\ (i # 0 => i - 1 \in 0 .. k - 1)
        BY <3>2
      <4>2. f[i] = IF i = 0 THEN proxies ELSE After(f[i - 1], i)
        BY <4>1, <2>3
      <4> QED
        BY <4>1, <4>2, <2>4
    <3> QED
      BY <3>1, <3>2
  <2>6. DOMAIN g = 0 .. k /\ DOMAIN h = 0 .. k
    OBVIOUS
  <2>7. g = h
    BY <2>5, <2>6
  <2>8. PlacesBinaries(g, wanted, k)
    BY <2>7 DEF PlacesBinaries, After
  <2> QED
    BY <2>8
<1> QED
  BY <1>1, <1>2, <1>3

\* The proxies lead to packages that have such a binary.
LeadOn(bin) ==
  /\ DOMAIN bin = Names
  /\ \A b \in Names : bin[b] \in Shippers(b) \cup {Absent}

\* Whoever is at work: what is there leads on, and is not lost.
LEMMA PackageKeeps ==
  ASSUME NEW wanted \in [Carriers -> Releases \cup {Absent}], NEW p \in Carriers, NEW bin,
         LeadOn(bin)
  PROVE  /\ LeadOn(AfterPackage(wanted, p, bin))
         /\ \A b \in Names : bin[b] # Absent => AfterPackage(wanted, p, bin)[b] # Absent
         /\ \A b \in Present(wanted, p) : AfterPackage(wanted, p, bin)[b] # Absent
<1>1. p # Absent
  BY BinariesAssumption
<1>2. Present(wanted, p) \subseteq Names /\ \A b \in Present(wanted, p) : p \in Shippers(b)
  BY BinariesAssumption DEF Present, Shippers
<1>3. CASE p \in Laid(wanted) \/ WithoutProxy(wanted, p, bin)
  <2>1. AfterPackage(wanted, p, bin) =
          [b \in Names |-> IF b \in Present(wanted, p) THEN p ELSE bin[b]]
    BY <1>3 DEF AfterPackage, InstallBinaries
  <2> QED
    BY <2>1, <1>1, <1>2 DEF LeadOn
<1>4. CASE ~(p \in Laid(wanted) \/ WithoutProxy(wanted, p, bin))
  <2>1. AfterPackage(wanted, p, bin) = bin
    BY <1>4 DEF AfterPackage
  <2> QED
    BY <2>1, <1>4 DEF WithoutProxy
<1> QED
  BY <1>3, <1>4

\* All of them: nothing that an installed package ships is without a proxy.
LEMMA AllBinariesThere ==
  ASSUME NEW wanted \in [Carriers -> Releases \cup {Absent}], LeadOn(proxies)
  PROVE  /\ LeadOn(AllBinaries(wanted))
         /\ \A p \in Carriers : \A b \in Present(wanted, p) : AllBinaries(wanted)[b] # Absent
<1> DEFINE n == Len(LockOrder)
           f == CHOOSE g : PlacesBinaries(g, wanted, n)
<1>1. /\ n \in Nat
      /\ \A i \in 1 .. n : LockOrder[i] \in Carriers
      /\ \A p \in Carriers : \E i \in 1 .. n : LockOrder[i] = p
  <2>1. LockOrder \in Seq(Carriers) /\ ToSet(LockOrder) = Carriers
    BY BinariesAssumption
  <2>2. n \in Nat /\ DOMAIN LockOrder = 1 .. n
    BY <2>1
  <2> QED
    BY <2>1, <2>2, ElementOfSeq DEF ToSet
<1>2. PlacesBinaries(f, wanted, n)
  BY <1>1, PlacesBinariesExists
<1>3. AllBinaries(wanted) = f[n]
  BY DEF AllBinaries, PlacesBinaries
<1> HIDE DEF f, n
<1> DEFINE Kept(k) ==
             /\ LeadOn(f[k])
             /\ \A j \in 1 .. k : \A b \in Present(wanted, LockOrder[j]) : f[k][b] # Absent
           T == {k \in 0 .. n : ~Kept(k)}
<1>4. T = {}
  <2> SUFFICES ASSUME T # {} PROVE FALSE
    OBVIOUS
  <2>1. T \in SUBSET Nat
    BY <1>1
  <2>2. PICK k \in T : \A j \in T : k <= j
    BY <2>1, LeastNumber
  <2>3. f[k] = IF k = 0 THEN proxies ELSE AfterPackage(wanted, LockOrder[k], f[k - 1])
    BY <1>2 DEF PlacesBinaries
  <2>4. k # 0
    <3> SUFFICES ASSUME k = 0 PROVE FALSE
      OBVIOUS
    <3>1. Kept(0)
      BY <2>3
    <3> QED
      BY <3>1, <2>2
  <2>5. k \in 1 .. n /\ k - 1 \in 0 .. n /\ k - 1 \notin T
    BY <2>2, <2>4, <1>1
  <2>6. Kept(k - 1) /\ LockOrder[k] \in Carriers
    BY <2>5, <1>1
  <2>7. /\ LeadOn(f[k])
        /\ \A b \in Names : f[k - 1][b] # Absent => f[k][b] # Absent
        /\ \A b \in Present(wanted, LockOrder[k]) : f[k][b] # Absent
    BY <2>3, <2>4, <2>6, PackageKeeps
  <2>8. ASSUME NEW j \in 1 .. k, NEW b \in Present(wanted, LockOrder[j])
        PROVE  f[k][b] # Absent
    <3>1. CASE j = k
      BY <3>1, <2>7
    <3>2. CASE j # k
      <4>1. j \in 1 .. k - 1 /\ LockOrder[j] \in Carriers
        BY <3>2, <2>5, <1>1
      <4>2. b \in Names
        BY <4>1, BinariesAssumption DEF Present
      <4> QED
        BY <4>1, <4>2, <2>6, <2>7
    <3> QED
      BY <3>1, <3>2
  <2> QED
    BY <2>2, <2>7, <2>8
<1>5. Kept(n)
  BY <1>1, <1>4
<1> QED
  BY <1>1, <1>3, <1>5

\* The names of vendor/bin are expected and lead to packages that have them.
ProxiesInv ==
  /\ LeadOn(proxies)
  /\ NamesExpected

LEMMA InstallKeepsProxies ==
  ASSUME LeadOn(proxies), NEW wanted \in [Carriers -> Releases \cup {Absent}], Install(wanted)
  PROVE  /\ ProxiesInv'
         /\ \A p \in Carriers : \A b \in Present(installed', p) : proxies'[b] \in Shippers(b)
<1>1. /\ LeadOn(AllBinaries(wanted))
      /\ \A p \in Carriers : \A b \in Present(wanted, p) : AllBinaries(wanted)[b] # Absent
  BY AllBinariesThere
<1>2. /\ installed' = wanted
      /\ proxies' = [b \in Names |->
                       IF b \in Expected(wanted) THEN AllBinaries(wanted)[b] ELSE Absent]
  BY DEF Install, Prune
<1>3. LeadOn(proxies')
  BY <1>1, <1>2 DEF LeadOn
<1>4. NamesExpected'
  BY <1>2 DEF NamesExpected, Expected, Bins
<1>5. ASSUME NEW p \in Carriers, NEW b \in Present(wanted, p)
      PROVE  proxies'[b] \in Shippers(b)
  <2>1. b \in Names /\ b \in Expected(wanted)
    BY BinariesAssumption DEF Present, Expected, Bins
  <2>2. proxies'[b] = AllBinaries(wanted)[b]
    BY <2>1, <1>2
  <2> QED
    BY <2>1, <2>2, <1>1 DEF LeadOn
<1> QED
  BY <1>2, <1>3, <1>4, <1>5 DEF ProxiesInv, LeadOn, Shippers

LEMMA ProxiesStep == ProxiesInv /\ [BinNext]_binVars => ProxiesInv'
<1> SUFFICES ASSUME ProxiesInv, [BinNext]_binVars
             PROVE  ProxiesInv'
  OBVIOUS
<1>1. ASSUME NEW wanted \in [Carriers -> Releases \cup {Absent}], Install(wanted)
      PROVE  ProxiesInv'
  BY <1>1, InstallKeepsProxies DEF ProxiesInv
<1>2. ASSUME NEW names \in SUBSET Names, Wipe(names)
      PROVE  ProxiesInv'
  BY <1>2 DEF Wipe, ProxiesInv, LeadOn, Shippers, NamesExpected, Expected, Bins
<1>3. CASE UNCHANGED binVars
  BY <1>3 DEF binVars, ProxiesInv, LeadOn, Shippers, NamesExpected, Expected, Bins
<1> QED
  BY <1>1, <1>2, <1>3 DEF BinNext

\* After an install, whatever was installed, removed or wiped before, what is
\* declared and shipped has a proxy that leads to a package that has it, and no
\* name is left that nobody declares.
THEOREM BinariesAreKept == BinSpec => BinariesKept
<1>1. BinInit => ProxiesInv
  BY DEF BinInit, ProxiesInv, LeadOn, NamesExpected
<1>2. ProxiesInv /\ [BinNext]_binVars => ProxiesInv'
  BY ProxiesStep
<1>3. ProxiesInv /\ ProxiesInv' =>
        [/\ NamesExpected'
         /\ \A wanted \in [Carriers -> Releases \cup {Absent}] : Install(wanted) =>
              \A p \in Carriers : \A b \in Present(installed', p) :
                proxies'[b] \in Shippers(b)]_binVars
  BY InstallKeepsProxies DEF ProxiesInv
<1> QED
  BY <1>1, <1>2, <1>3, PTL DEF BinSpec, BinariesKept
=============================================================================
