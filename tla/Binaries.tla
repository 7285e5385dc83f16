------------------------------ MODULE Binaries ------------------------------
(***************************************************************************)
(* vendor/bin: the proxies that an install leaves for the binaries of the  *)
(* packages (installer.rs, after the packages are placed; binproxy.rs).    *)
(* One step is the whole of that part of a run that is not interrupted;    *)
(* the packages themselves are placed and removed as module Install says.  *)
(* Two packages may declare binaries of one name.  Only bin-compat "proxy" *)
(* is modelled, without the .bat files.                                    *)
(***************************************************************************)
EXTENDS Integers, SequencesExt

CONSTANTS Carriers, Releases, Names,
          LockOrder,   \* the packages, in the order of composer.lock
          Declared,    \* Declared[p][v]: the binaries in p's composer.json
          Shipped,     \* Shipped[p][v]: those the archive contains
          Absent

ASSUME BinariesAssumption ==
  /\ Absent \notin Releases \cup Carriers
  /\ LockOrder \in Seq(Carriers) /\ ToSet(LockOrder) = Carriers
  /\ Declared \in [Carriers -> [Releases -> SUBSET Names]]
  /\ Shipped \in [Carriers -> [Releases -> SUBSET Names]]

VARIABLES installed,  \* installed[p]: the version installed, or Absent
          proxies     \* proxies[b]: the package that vendor/bin/b leads to, or Absent

binVars == <<installed, proxies>>

BinInit ==
  /\ installed = [p \in Carriers |-> Absent]
  /\ proxies = [b \in Names |-> Absent]

Bins(packages, p) == IF packages[p] = Absent THEN {} ELSE Declared[p][packages[p]]

Present(packages, p) ==
  IF packages[p] = Absent THEN {} ELSE Declared[p][packages[p]] \cap Shipped[p][packages[p]]

Laid(wanted) == {p \in Carriers : wanted[p] \notin {Absent, installed[p]}}

\* (mutant: the proxies that are missing are left so)
WithoutProxies(wanted, p, bin) == FALSE

\* A binary that is there has no proxy.
WithoutProxy(wanted, p, bin) ==
  \E b \in Present(wanted, p) : bin[b] = Absent

\* install_binaries: every binary of p that is there.
InstallBinaries(wanted, p, bin) ==
  [b \in Names |-> IF b \in Present(wanted, p) THEN p ELSE bin[b]]

\* A package that was placed or lacks a proxy.
AfterPackage(wanted, p, bin) ==
  IF p \in Laid(wanted) \/ WithoutProxy(wanted, p, bin)
  THEN InstallBinaries(wanted, p, bin)
  ELSE bin

\* The packages in order.
AllBinaries(wanted) ==
  LET bins[i \in 0 .. Len(LockOrder)] ==
        IF i = 0 THEN proxies ELSE AfterPackage(wanted, LockOrder[i], bins[i - 1])
  IN bins[Len(LockOrder)]

Expected(wanted) == UNION {Bins(wanted, p) : p \in Carriers}

\* prune_orphan_bin_proxies, by name.
Prune(wanted, bin) == [b \in Names |-> IF b \in Expected(wanted) THEN bin[b] ELSE Absent]

Install(wanted) ==
  /\ installed' = wanted
  /\ proxies' = Prune(wanted, AllBinaries(wanted))

\* The user removes some of vendor/bin.
Wipe(names) ==
  /\ \E b \in names : proxies[b] # Absent
  /\ proxies' = [b \in Names |-> IF b \in names THEN Absent ELSE proxies[b]]
  /\ UNCHANGED installed

BinNext ==
  \/ \E wanted \in [Carriers -> Releases \cup {Absent}] : Install(wanted)
  \/ \E names \in SUBSET Names : Wipe(names)

BinSpec == BinInit /\ [][BinNext]_binVars

-----------------------------------------------------------------------------
\* The names of vendor/bin are those of installed packages, after any sequence
\* of updates and removals: a package that leaves, or that stops declaring a
\* binary, takes its name along.
NamesExpected == \A b \in Names : proxies[b] # Absent => b \in Expected(installed)

\* The packages of which a version has such a binary.
Shippers(b) == {p \in Carriers : \E v \in Releases : b \in Declared[p][v] \cap Shipped[p][v]}

\* What vendor/bin promises over a whole history: after an install every binary
\* that a package declares and ships has a proxy, which leads to that package
\* if no other has one of the same name, also when the package is unchanged and
\* the user had wiped vendor/bin; and no step leaves a name that no installed
\* package declares.
BinariesKept ==
  [][/\ NamesExpected'
     /\ \A wanted \in [Carriers -> Releases \cup {Absent}] : Install(wanted) =>
          \A p \in Carriers : \A b \in Present(installed', p) : proxies'[b] \in Shippers(b)]_binVars
===============================================================================
