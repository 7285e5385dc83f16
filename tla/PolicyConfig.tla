---------------------------- MODULE PolicyConfig ----------------------------
(***************************************************************************)
(* What may not be installed (resolver/src/policy_config.rs): the `policy` *)
(* and `audit` keys of the global and the project configuration, merged in *)
(* this order, then the environment and --no-blocking.  A switch is "yes", *)
(* "no" or "absent".  A layer is a record:                                 *)
(*   policy       "absent", "no", "yes", or "object" with                  *)
(*   lists          list name -> settings of the list, and                 *)
(*   unreachable    "absent" or "set", with                                *)
(*   scopes           the operations that may ignore a dead repository     *)
(*   audit        the legacy key: [given, block, ignore, ids, severities,  *)
(*                abandoned, abandoned_ignore, unreachable]                *)
(* The settings of a list:                                                 *)
(*   kind         "no", "yes" or "object" with                             *)
(*   block, scope ("absent" or a scope), sources, ids, severities,         *)
(*   ignore       rules [name, keyed, versions, on_block] in order; an id  *)
(*                or a severity is a rule too                              *)
(***************************************************************************)
EXTENDS Integers, Sequences, SequencesExt

Given(new, old) == IF new = "absent" THEN old ELSE new

Switch(value, default) == IF value = "absent" THEN default ELSE value = "yes"

NoSettings ==
  [kind |-> "object", block |-> "absent", scope |-> "absent", sources |-> {},
   ids |-> <<>>, severities |-> <<>>, ignore |-> <<>>]

NoAudit == [given |-> FALSE, block |-> "absent", ignore |-> <<>>, ids |-> <<>>,
            severities |-> <<>>, abandoned |-> "absent", abandoned_ignore |-> <<>>,
            unreachable |-> "absent"]

NoLayer == [policy |-> "absent", lists |-> <<>>, unreachable |-> "absent", scopes |-> {},
            audit |-> NoAudit]

\* RawPolicyConfig::default: the audit key is there, and it is not empty.
DefaultLayer == [NoLayer EXCEPT !.policy = "yes", !.audit.given = TRUE]

\* (mutant: the rules of the later layer replace those of the earlier)
MutLaterRules(old, new) == IF new = <<>> THEN old ELSE new

SameKey(r, q) == r.keyed /\ q.keyed /\ r.name = q.name

\* php_array_merge on rules: a keyed rule takes the place of the one it had.
MergeRule(rules, r) ==
  LET slots == {j \in DOMAIN rules : SameKey(rules[j], r)}
  IN IF slots = {} THEN Append(rules, r)
     ELSE [rules EXCEPT ![CHOOSE j \in slots : \A k \in slots : j <= k] = r]

MergeRules(old, new) ==
  LET merged[i \in 0 .. Len(new)] ==
        IF i = 0 THEN old ELSE MergeRule(merged[i - 1], new[i])
  IN merged[Len(new)]

Object(s) == IF s.kind = "yes" THEN NoSettings ELSE s

MergeSettings(old, new) ==
  IF new.kind = "no" \/ old.kind = "no" THEN new
  ELSE [new EXCEPT !.block = Given(@, old.block), !.scope = Given(@, old.scope),
          !.sources = @ \cup old.sources, !.ids = MergeRules(old.ids, @),
          !.severities = MergeRules(old.severities, @), !.ignore = MergeRules(old.ignore, @)]

MergeLists(old, new) ==
  [l \in DOMAIN old \cup DOMAIN new |->
     IF l \notin DOMAIN new THEN old[l]
     ELSE IF l \notin DOMAIN old THEN Object(new[l])
     ELSE MergeSettings(Object(old[l]), Object(new[l]))]

\* Of the lists of rules only audit.ignore accumulates.
MergeAudit(old, new) ==
  IF ~new.given THEN old
  ELSE [given |-> TRUE, block |-> Given(new.block, old.block),
        ignore |-> MergeRules(old.ignore, new.ignore), ids |-> MergeRules(old.ids, new.ids),
        severities |-> IF new.severities = <<>> THEN old.severities ELSE new.severities,
        abandoned |-> Given(new.abandoned, old.abandoned),
        abandoned_ignore |-> IF new.abandoned_ignore = <<>> THEN old.abandoned_ignore
                             ELSE new.abandoned_ignore,
        unreachable |-> Given(new.unreachable, old.unreachable)]

\* RawPolicyConfig::merge: an object over a `false` starts from nothing.
MergeLayer(old, new) ==
  LET over == IF old.policy = "object" THEN old ELSE NoLayer
      merged == CASE new.policy = "absent" -> old
                  [] new.policy = "no" -> [NoLayer EXCEPT !.policy = "no"]
                  [] OTHER -> [policy |-> "object", lists |-> MergeLists(over.lists, new.lists),
                               unreachable |-> Given(new.unreachable, over.unreachable),
                               scopes |-> IF new.unreachable = "set" THEN new.scopes ELSE over.scopes,
                               audit |-> old.audit]
  IN [merged EXCEPT !.audit = MergeAudit(old.audit, new.audit)]

\* The layers, the earliest first.
Merged(layers) ==
  LET merged[i \in 0 .. Len(layers)] ==
        IF i = 0 THEN DefaultLayer ELSE MergeLayer(merged[i - 1], layers[i])
  IN merged[Len(layers)]

\* effective_policy
Effective(raw, env) ==
  CASE env.policy = "no" -> "no"
    [] env.policy = "yes" /\ raw.policy = "no" -> "yes"
    [] OTHER -> raw.policy

Disabled ==
  [advisories |-> [block |-> FALSE, ignore |-> <<>>, ids |-> <<>>, severities |-> <<>>],
   malware |-> [block |-> FALSE, scope |-> "all", ignore |-> <<>>, sources |-> {}],
   abandoned |-> [block |-> FALSE, ignore |-> <<>>],
   custom |-> {}, unreachable |-> {"audit", "install", "update"}]

Builtin == {"advisories", "malware", "abandoned"}

\* from_raw, then apply_no_blocking.
PolicyOf(layers, env, no_blocking) ==
  LET raw == Merged(layers)
      lists == IF Effective(raw, env) = "object" THEN raw.lists ELSE <<>>
      Of(l) == IF l \in DOMAIN lists THEN lists[l] ELSE NoSettings
      Blocks(l, default) == Of(l).kind # "no" /\ Switch(Of(l).block, default)
      legacy(l) == l \notin DOMAIN lists /\ raw.audit.given
      Env(switch, value) == Switch(switch, value) /\ ~no_blocking
  IN IF Effective(raw, env) = "no" THEN Disabled
     ELSE [advisories |->
             IF legacy("advisories")
             THEN [block |-> Env(env.advisories, Switch(raw.audit.block, TRUE)),
                   ignore |-> raw.audit.ignore, ids |-> raw.audit.ids,
                   severities |-> raw.audit.severities]
             ELSE [block |-> Env(env.advisories, Blocks("advisories", TRUE)),
                   ignore |-> Of("advisories").ignore, ids |-> Of("advisories").ids,
                   severities |-> Of("advisories").severities],
           malware |->
             [block |-> Env(env.malware, Blocks("malware", TRUE)),
              scope |-> Given(Of("malware").scope, "all"),
              ignore |-> Of("malware").ignore, sources |-> Of("malware").sources],
           abandoned |->
             IF legacy("abandoned")
             THEN [block |-> Env(env.abandoned, Switch(raw.audit.abandoned, FALSE)),
                   ignore |-> raw.audit.abandoned_ignore]
             ELSE [block |-> Env(env.abandoned, Blocks("abandoned", FALSE)),
                   ignore |-> Of("abandoned").ignore],
           custom |-> DOMAIN lists \ Builtin,
           unreachable |->
             CASE Effective(raw, env) = "object" /\ raw.unreachable = "set" -> raw.scopes
               [] Switch(raw.audit.unreachable, FALSE) -> {"audit"}
               [] OTHER -> {"install", "update"}]

\* malware_blocks
MalwareBlocks(policy, scope) ==
  policy.malware.block /\ policy.malware.scope \in {"all", scope}

\* advisory_ignore_list_for_block, advisory_ignore_severity_for_block and
\* flat_ignore_for_block: what the rules with on_block name.
OnBlock(rules) == {r.name : r \in {q \in ToSet(rules) : q.on_block}}
=============================================================================
