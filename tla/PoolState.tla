------------------------------ MODULE PoolState ------------------------------
(***************************************************************************)
(* What the phases of the pool of an update share: the input `x`, and the  *)
(* builder with the request it changes, one record `b`, because            *)
(* unlock_package changes all of it from the middle of load_package        *)
(* (resolver/src/pool.rs).  The packages of module Pool live in an arena   *)
(* (package.rs) and are named by their index in it; they have two more     *)
(* fields here:                                                            *)
(*   origin     the number of the repository, or one of the Origins of     *)
(*              PoolBuilder                                                *)
(*   path       the lock has it from a path repository: "symlink", "copy", *)
(*              or "no"                                                    *)
(* The fields of `b`:                                                      *)
(*   arena          the packages; root aliases are added to it             *)
(*   packages       the pool so far: arena indices, 0 where one was unset  *)
(*   alias_map      {<<aliased package, index in packages, its alias>>}    *)
(*   to_load        packages_to_load, [name, constraint] in order          *)
(*   loaded         loaded_packages, [name, constraint]                    *)
(*   per_repo       loaded_per_repo, {<<repository, name, version>>}       *)
(*   skipped        skipped_load, [name, id]: what the lock has for a name *)
(*   path_unlocked  path_repo_unlocked                                     *)
(*   max_extended   max_extended_reqs                                      *)
(*   warned         update_allow_warned                                    *)
(*   unacceptable   unacceptable_fixed_or_locked                           *)
(*   locked         Request::locked_packages                               *)
(***************************************************************************)
EXTENDS Pool, SequencesExt

CONSTANT Inputs    \* the updates: what the caller gives

VARIABLES x, b, phase, at, repo, batches, kept

vars == <<x, b, phase, at, repo, batches, kept>>

\* A pool that is built has only packages of the arena.
BuiltPool ==
  /\ {"arena", "packages", "locked"} \subseteq DOMAIN b
  /\ b.packages \in Seq(DOMAIN b.arena)
=============================================================================
