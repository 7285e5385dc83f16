----------------------------- MODULE StorePromise -----------------------------
(***************************************************************************)
(* What the package store promises to the processes that share it: an      *)
(* entry appears whole, in one step, never changes afterwards, and is on   *)
(* disk whenever a process is told that it is.  How an extraction of many  *)
(* files amounts to one step is the business of module Store.              *)
(***************************************************************************)
CONSTANTS Procs, Entries, Trees, Absent

VARIABLES shelf,     \* shelf[e]: the directory of entry e, or Absent
          request,   \* request[p]: the entry p asks for, or Absent
          answer     \* answer[p] \in {"none", "ok", "error"}

vars == <<shelf, request, answer>>

Init ==
  /\ shelf = [e \in Entries |-> Absent]
  /\ request = [p \in Procs |-> Absent]
  /\ answer = [p \in Procs |-> "none"]

Ask(p, e) ==
  /\ request[p] = Absent
  /\ request' = [request EXCEPT ![p] = e]

\* The entry was there.
AskAndFind(p, e) ==
  /\ Ask(p, e)
  /\ shelf[e] # Absent
  /\ answer' = [answer EXCEPT ![p] = "ok"]
  /\ UNCHANGED shelf

AskAndWait(p, e) ==
  /\ Ask(p, e)
  /\ UNCHANGED <<shelf, answer>>

Waiting(p) ==
  /\ request[p] # Absent
  /\ answer[p] = "none"

\* p puts the whole entry on the shelf.
Shelve(p, tree) ==
  /\ Waiting(p)
  /\ shelf[request[p]] = Absent
  /\ shelf' = [shelf EXCEPT ![request[p]] = tree]
  /\ answer' = [answer EXCEPT ![p] = "ok"]
  /\ UNCHANGED request

\* Somebody else put it there in the meantime.
Settle(p) ==
  /\ Waiting(p)
  /\ shelf[request[p]] # Absent
  /\ answer' = [answer EXCEPT ![p] = "ok"]
  /\ UNCHANGED <<shelf, request>>

GiveUp(p) ==
  /\ Waiting(p)
  /\ answer' = [answer EXCEPT ![p] = "error"]
  /\ UNCHANGED <<shelf, request>>

Next ==
  \E p \in Procs :
    \/ \E e \in Entries : AskAndFind(p, e) \/ AskAndWait(p, e)
    \/ \E tree \in Trees : Shelve(p, tree)
    \/ Settle(p)
    \/ GiveUp(p)

Spec == Init /\ [][Next]_vars
===============================================================================
