------------------------------- MODULE JsonEdit -------------------------------
(***************************************************************************)
(* What require and remove write to composer.json: edits of the text, and, *)
(* where the text does not let itself be edited, the same edits of the     *)
(* decoded file, which is then written anew.                               *)
(*                                                                         *)
(* The text is its entries in their order; spaces and the indentation are  *)
(* left out.  A section may spell one name in several ways, or twice: the  *)
(* keys of the file itself are distinct.  No value is null.  `limited`     *)
(* says that the file is too long for the regular expression of a node,    *)
(* which then gives up (pcre.backtrack_limit).                             *)
(***************************************************************************)
EXTENDS NaturalOrder, SequencesExt

CONSTANTS Lowercase(_),   \* of a name
          Group(_),       \* of a name: its place in the order of sort-packages
          Spelled(_)      \* its characters, as NaturalOrder has them

NoSub == "no sub-key"

Text(s) == [kind |-> "text", is |-> s]
True == [kind |-> "true"]
EmptyList == [kind |-> "list"]
Object(entries) == [kind |-> "object", entries |-> entries]
Entry(key, value) == [key |-> key, value |-> value]

EntriesOf(value) == IF value.kind = "object" THEN value.entries ELSE <<>>
IsEmpty(value) == value \in {EmptyList, Object(<<>>)}
Isset(entries, key) == \E k \in DOMAIN entries : entries[k].key = key
Without(entries, key) == SelectSeq(entries, LAMBDA e : e.key # key)

Put(entries, key, value) ==
  IF Isset(entries, key)
  THEN [k \in DOMAIN entries |-> IF entries[k].key = key THEN Entry(key, value) ELSE entries[k]]
  ELSE Append(entries, Entry(key, value))

\* The last value of a key, in its first place.
RECURSIVE Decoded(_)
Decoded(value) ==
  IF value.kind # "object" THEN value
  ELSE Object(FoldLeft(LAMBDA d, e : Put(d, e.key, Decoded(e.value)), <<>>, value.entries))

\* What a key that is there holds, as it is written and decoded.
Written(entries, key) == entries[CHOOSE k \in DOMAIN entries : entries[k].key = key].value
At(entries, key) == Written(EntriesOf(Decoded(Object(entries))), key)

Done(text) == [done |-> TRUE, text |-> text]
GaveUp == [done |-> FALSE]

-----------------------------------------------------------------------------
\* The text: JsonManipulator.

\* Replaced where it is, or added at the end.
AddMainKey(text, key, value) == Put(text, key, value)

RemoveMainKey(text, key) == Done(Without(text, key))

RemoveMainKeyIfEmpty(text, key) ==
  IF Isset(text, key) /\ IsEmpty(At(text, key)) THEN RemoveMainKey(text, key) ELSE Done(text)

Ahead(a, b) == Strnatcmp(SortPrefix(Group(a), Spelled(a)), SortPrefix(Group(b), Spelled(b))) < 0

\* A stable sort.
SortPackages(links) ==
  FoldLeft(LAMBDA sorted, e :
             SelectSeq(sorted, LAMBDA x : ~Ahead(e.key, x.key))
               \o <<e>> \o SelectSeq(sorted, LAMBDA x : Ahead(e.key, x.key)),
           <<>>, links)

\* (mutant: only a name spelled as it is asked for is replaced)
SpelledLink(link, name) == link.key = name /\ link.value.kind = "text"

SameLink(link, name) ==
  Lowercase(link.key) = Lowercase(name) /\ link.value.kind = "text"

\* The links of the name take the spelling of the first.
PutLink(links, name, constraint) ==
  LET same == {k \in DOMAIN links : SameLink(links[k], name)}
      first == CHOOSE k \in same : \A j \in same : k <= j
  IN IF same = {} THEN Append(links, Entry(name, Text(constraint)))
     ELSE [k \in DOMAIN links |->
             IF k \in same THEN Entry(links[first].key, Text(constraint)) ELSE links[k]]

AddLink(text, section, name, constraint, sort) ==
  IF ~Isset(text, section)
  THEN Done(AddMainKey(text, section, Object(<<Entry(name, Text(constraint))>>)))
  ELSE LET links == PutLink(EntriesOf(Written(text, section)), name, constraint)
           decoded == EntriesOf(Decoded(Object(links)))
       IN Done(Put(text, section, Object(IF sort THEN SortPackages(decoded) ELSE links)))

\* The node is there, and is an object.
AddSubNode(text, node, name, sub, value) ==
  LET children == EntriesOf(Written(text, node))
      old == IF Isset(children, name) THEN EntriesOf(At(children, name)) ELSE <<>>
  IN Put(text, node, Object(Put(children, name,
       IF sub = NoSub THEN value ELSE Object(Put(old, sub, value)))))

UnsetSub(value, sub) == Object(Without(EntriesOf(value), sub))

\* The text of the child is looked for after a comma, and when it is not there
\* once, anywhere; names are compared in any case.
RemoveChild(children, name) ==
  LET child == Entry(name, Written(children, name))
      same(e) == Lowercase(e.key) = Lowercase(name) /\ e.value = child.value
      left == <<Head(children)>> \o SelectSeq(Tail(children), LAMBDA e : ~same(e))
  IN CASE Len(left) = Len(children) - 1 -> Done(left)
       [] Len(left) # Len(children) - 1 /\ same(Head(left)) -> Done(Tail(left))
       [] OTHER -> GaveUp

RemoveSubNode(text, node, name, sub, limited) ==
  LET children == EntriesOf(Written(text, node))
      entry == At(children, name)
      removed == RemoveChild(children, name)
      inner == UnsetSub(entry, sub)
  IN CASE ~Isset(text, node) \/ IsEmpty(At(text, node)) -> Done(text)
       [] limited \/ Written(text, node).kind # "object" -> GaveUp
       [] ~Isset(children, name) -> Done(text)
       [] sub # NoSub /\ ~Isset(EntriesOf(entry), sub) -> Done(text)
       [] ~removed.done -> GaveUp
       [] removed.text = <<>> /\ sub # NoSub ->
            Done(AddSubNode(Put(text, node, Object(<<>>)), node, name, NoSub, inner))
       [] sub # NoSub ->
            Done(Put(text, node, Object(Put(EntriesOf(At(text, node)), name, inner))))
       [] OTHER -> Done(Put(text, node, Object(removed.text)))

-----------------------------------------------------------------------------
\* The decoded file: JsonConfigSource and require's updateFile.

DecodedFile(text) == EntriesOf(Decoded(Object(text)))

\* An empty object is an empty array.
RECURSIVE Encoded(_)
Encoded(value) ==
  CASE IsEmpty(value) -> EmptyList
    [] value.kind = "object" /\ ~IsEmpty(value) ->
         Object([k \in DOMAIN value.entries |->
                   Entry(value.entries[k].key, Encoded(value.entries[k].value))])
    [] OTHER -> value

EncodedFile(entries) == EntriesOf(Encoded(Object(entries)))

\* Some of the keys that are objects in the schema.
Objects == {"require", "require-dev", "autoload"}

FixupEmptyObjects(entries) ==
  [k \in DOMAIN entries |->
    IF entries[k].key \in Objects /\ IsEmpty(entries[k].value)
    THEN Entry(entries[k].key, Object(<<>>)) ELSE Entry(entries[k].key, Encoded(entries[k].value))]

\* manipulateJson.
Manipulate(edited, rewritten) ==
  IF edited.done THEN edited.text ELSE FixupEmptyObjects(rewritten)

UnsetKey(entries, node, key) ==
  IF Isset(entries, node) /\ At(entries, node).kind = "object"
  THEN Put(entries, node, Object(Without(EntriesOf(At(entries, node)), key)))
  ELSE entries

RemoveLink(text, section, name, limited) ==
  LET unlinked == Manipulate(RemoveSubNode(text, section, name, NoSub, limited),
                             UnsetKey(DecodedFile(text), section, name))
  IN Manipulate(RemoveMainKeyIfEmpty(unlinked, section), unlinked)

\* The key of a sub-setting, as it is given, is no key.
RemoveConfigSetting(text, name, sub, limited) ==
  Manipulate(RemoveSubNode(text, "config", name, sub, limited),
             IF sub = NoSub THEN UnsetKey(DecodedFile(text), "config", name)
             ELSE DecodedFile(text))

\* update_file of require: the links in `new` are <<name, constraint>>.
RewriteLink(entries, link, requireKey, removeKey) ==
  LET links == IF Isset(entries, requireKey) THEN EntriesOf(At(entries, requireKey)) ELSE <<>>
      required == Put(entries, requireKey, Object(Put(links, link[1], Text(link[2]))))
      unlinked == UnsetKey(required, removeKey, link[1])
  IN IF Isset(unlinked, removeKey) /\ At(unlinked, removeKey) = Object(<<>>)
     THEN Without(unlinked, removeKey) ELSE unlinked

UpdateFile(text, new, requireKey, removeKey, sort, limited) ==
  LET edit(r, link) ==
        IF ~r.done THEN r
        ELSE RemoveSubNode(AddLink(r.text, requireKey, link[1], link[2], sort).text,
                           removeKey, link[1], NoSub, limited)
      clean == FoldLeft(edit, Done(text), new)
      rewritten == FoldLeft(LAMBDA entries, link : RewriteLink(entries, link, requireKey, removeKey),
                            DecodedFile(text), new)
  IN IF clean.done THEN RemoveMainKeyIfEmpty(clean.text, removeKey).text
     ELSE EncodedFile(rewritten)

-----------------------------------------------------------------------------
\* remove: the packages, in lower case, and what was allowed as a plugin.

\* The last spelling of the package in the file, if there is one.
Lookup(manifest, section, package) ==
  LET links == IF Isset(manifest, section) THEN EntriesOf(At(manifest, section)) ELSE <<>>
      spelled == SelectSeq(links, LAMBDA e : Lowercase(e.key) = package)
  IN IF spelled = <<>> THEN <<>> ELSE <<Last(spelled).key>>

\* The entries of the project, and those of config.json; each may be missing.
MergedAllowPlugins(project, global) ==
  IF project # <<>> /\ global # <<>> /\ project[1].kind = "object" /\ global[1].kind = "object"
  THEN <<Object(project[1].entries
                  \o SelectSeq(global[1].entries, LAMBDA e : ~Isset(project[1].entries, e.key)))>>
  ELSE IF project # <<>> THEN project ELSE global

AllowPlugins(text) ==
  IF Isset(text, "config") /\ Isset(EntriesOf(At(text, "config")), "allow-plugins")
  THEN <<At(EntriesOf(At(text, "config")), "allow-plugins")>> ELSE <<>>

Disallow(text, global, packages, limited) ==
  LET merged == MergedAllowPlugins(AllowPlugins(text), global)
      allow == IF merged = <<>> THEN <<>> ELSE EntriesOf(merged[1])
      removed == SelectSeq(allow, LAMBDA e : e.key \in Range(packages))
  IN CASE removed = <<>> -> text
       [] removed # <<>> /\ Len(removed) = Len(allow) ->
            RemoveConfigSetting(text, "allow-plugins", NoSub, limited)
       [] OTHER -> FoldLeft(LAMBDA t, e : RemoveConfigSetting(t, "allow-plugins", e.key, limited),
                            text, removed)

RemovePackages(text, global, packages, linkType, limited) ==
  LET remove(t, p) ==
        LET name == Lookup(DecodedFile(text), linkType, p)
        IN IF name = <<>> THEN t ELSE RemoveLink(t, linkType, name[1], limited)
  IN Disallow(FoldLeft(remove, text, packages), global, packages, limited)

-----------------------------------------------------------------------------
\* What a file means: an empty array is an empty object.
RECURSIVE Meant(_)
Meant(value) ==
  CASE IsEmpty(value) -> Object(<<>>)
    [] value.kind = "object" /\ ~IsEmpty(value) ->
         Object([k \in DOMAIN value.entries |->
                   Entry(value.entries[k].key, Meant(value.entries[k].value))])
    [] OTHER -> value

Meaning(text) == EntriesOf(Meant(Object(DecodedFile(text))))

Section(meaning, key) == IF Isset(meaning, key) THEN EntriesOf(At(meaning, key)) ELSE <<>>

Except(entries, names) == SelectSeq(entries, LAMBDA e : Lowercase(e.key) \notin names)

\* But for the links of these names, the sections keep their links, in their order
\* unless they are sorted, and the rest of the file is as it was.
OthersStay(before, after, sections, names, sorted) ==
  LET b == Meaning(before) a == Meaning(after)
      others(m, s) == Except(Section(m, s), names)
  IN /\ SelectSeq(b, LAMBDA e : e.key \notin sections)
          = SelectSeq(a, LAMBDA e : e.key \notin sections)
     /\ \A s \in sections :
          IF s = sorted THEN Range(others(b, s)) = Range(others(a, s))
                        ELSE others(b, s) = others(a, s)

\* No section has a name twice; nor, where the file may be rewritten, one that is
\* not in lower case.
Tidy(text, sections, limited) ==
  \A s \in sections : Isset(text, s) =>
    LET links == EntriesOf(Written(text, s)) IN
    /\ \A j, k \in DOMAIN links : j # k => Lowercase(links[j].key) # Lowercase(links[k].key)
    /\ limited => \A k \in DOMAIN links : links[k].key = Lowercase(links[k].key)

\* Whether the text is edited or the file rewritten, require changes the links that
\* it is asked for and no others; in a tidy file each is there once, with its
\* constraint, and in one section.
UpdateIsExact(text, new, requireKey, removeKey, sort, limited) ==
  LET after == UpdateFile(text, new, requireKey, removeKey, sort, limited)
      m == Meaning(after)
      names == {Lowercase(new[k][1]) : k \in DOMAIN new}
      required == Section(m, requireKey)
      moved(k) == SelectSeq(required, LAMBDA e : Lowercase(e.key) = new[k][1])
  IN /\ OthersStay(text, after, {requireKey, removeKey}, names,
                   IF sort THEN requireKey ELSE "none")
     /\ Tidy(text, {requireKey, removeKey}, limited) =>
          \A k \in DOMAIN new :
            /\ Len(moved(k)) = 1 /\ moved(k)[1].value = Text(new[k][2])
            /\ ~Isset(Section(m, removeKey), new[k][1])
     /\ Isset(m, removeKey) => Section(m, removeKey) # <<>>

PluginsOf(meaning) ==
  IF AllowPlugins(meaning) = <<>> THEN <<>> ELSE EntriesOf(AllowPlugins(meaning)[1])

\* The same of remove, which takes the packages out of what is allowed as well
\* where the text lets itself be edited, and an emptied section away.
RemovalIsExact(text, global, packages, linkType, limited) ==
  LET after == RemovePackages(text, global, packages, linkType, limited)
      b == Meaning(text) a == Meaning(after)
      names == Range(packages)
  IN /\ OthersStay(text, after, {linkType, "config"}, names \cup {"allow-plugins"}, "none")
     /\ Except(PluginsOf(b), names) = Except(PluginsOf(a), names)
     /\ AllowPlugins(b) = <<True>> => AllowPlugins(a) = <<True>>
     /\ ~limited => \A k \in DOMAIN PluginsOf(a) : PluginsOf(a)[k].key \notin names
     /\ Tidy(text, {linkType}, limited) =>
          Except(Section(a, linkType), names) = Section(a, linkType)
     /\ Section(b, linkType) # <<>> /\ Isset(a, linkType) => Section(a, linkType) # <<>>

\* What require adds to a text that does not name it, remove takes away without a
\* trace, the section included that was not there before.
RequireThenRemove(text, link, requireKey, removeKey) ==
  LET m == Meaning(text)
      names(s) == {Lowercase(Section(m, s)[k].key) : k \in DOMAIN Section(m, s)}
      untouched(s) == link[1] \notin names(s) /\ (Isset(m, s) => names(s) # {})
      required == UpdateFile(text, <<link>>, requireKey, removeKey, FALSE, FALSE)
  IN untouched(requireKey) /\ untouched(removeKey) =>
       RemoveLink(required, requireKey, link[1], FALSE) = text
===============================================================================
