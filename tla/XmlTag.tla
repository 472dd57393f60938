------------------------------- MODULE XmlTag -------------------------------
(***************************************************************************)
(* The tag tree of ATXmlTag and TagHelper (xml_tag.cpp, taghelper.cpp): who *)
(* owns which tag, and how the tree is searched.  The application makes any *)
(* call on any tag it can reach, and deletes the roots, which are its own.  *)
(***************************************************************************)
EXTENDS Integers, Sequences, SequencesExt, FiniteSets

CONSTANTS
  Name,     \* the names of tags
  Path,     \* the paths of searches: sequences of names
  MaxTag,   \* bound: tags that live at a time, and those of them with text once more
  MaxRoot,  \* bound: roots among them
  MaxText   \* bound: tags with text to which more may be added

VARIABLES
  tree,         \* the tags that live, with their fields
  tags_count    \* tags_created - tags_destroyed

vars == <<tree, tags_count>>

NULL == 0
CDATA == 0              \* a child node that is character data, not a tag
Tag == 1..MaxTag
Live == DOMAIN tree
Fresh(tr) == CHOOSE t \in Tag \ DOMAIN tr : \A u \in Tag \ DOMAIN tr : t <= u

(***************************************************************************)
(* The tree.                                                               *)
(***************************************************************************)
\* insertChildElement.
Inserted(tr, t, c) ==
  [tr EXCEPT ![c].parent = t, ![t].children = Append(@, c), ![t].childnodes = Append(@, c)]

\* The constructor, and the allocator that gives the lowest address.
Created(tr, name) ==
  [t \in DOMAIN tr \cup {Fresh(tr)} |->
     IF t = Fresh(tr)
     THEN [name |-> name, parent |-> NULL, children |-> <<>>, childnodes |-> <<>>]
     ELSE tr[t]]

\* The tags whose destructors run when t is deleted: clear deletes the children.
Destroyed(t) ==
  LET dead[u \in Tag] ==
        <<u>> \o FlattenSeq([i \in DOMAIN tree[u].children |-> dead[tree[u].children[i]]])
  IN  dead[t]

\* The calls of destructors in calls leave the tags of tr that were not deleted.
Without(tr, calls) == [t \in DOMAIN tr \ ToSet(calls) |-> tr[t]]

\* clear: the tags it deletes.
Cleared(t) == FlattenSeq([i \in DOMAIN tree[t].children |-> Destroyed(tree[t].children[i])])

Named(tr, t, name) == SelectSeq(tr[t].children, LAMBDA c : tr[c].name = name)

HeadOrNull(s) == IF s = <<>> THEN NULL ELSE Head(s)

(***************************************************************************)
(* The searches.                                                           *)
(***************************************************************************)
\* find, for the rest of the path from i on.
FindFrom(path, i, t) ==
  LET found[j \in 1..Len(path), u \in Tag] ==
        IF j = Len(path)
        THEN HeadOrNull(Named(tree, u, path[j]))
        ELSE HeadOrNull(SelectSeq(
               [k \in DOMAIN Named(tree, u, path[j]) |-> found[j + 1, Named(tree, u, path[j])[k]]],
               LAMBDA c : c # NULL))
  IN  found[i, t]

Find(t, path) == FindFrom(path, 1, t)

\* hasChild(tag): whether t is above tag, by the parents.
HasChild(t, tag) ==
  LET up[n \in 0..MaxTag, u \in Tag] ==
        \/ tree[u].parent = t
        \/ n > 0 /\ tree[u].parent # NULL /\ up[n - 1, tree[u].parent]
  IN  tag # t /\ up[MaxTag, tag]

\* nextChild(name, from).
NextChild(t, name, from) ==
  LET children == tree[t].children
      at == SelectInSeq(children, LAMBDA c : c = from)
  IN  IF at = 0 THEN NULL
      ELSE HeadOrNull(SelectSeq(SubSeq(children, at + 1, Len(children)),
                                LAMBDA c : tree[c].name = name))

\* Mutant: the later children are searched only when from has no next of its own.
FindNextStops(t, path, from) ==
  LET next[i \in 1..Len(path), u \in Tag] ==
        LET named == Named(tree, u, path[i])
            at    == SelectInSeq(named, LAMBDA c : HasChild(c, from))
        IN  IF i = Len(path) THEN NextChild(u, path[i], from)
            ELSE IF at = 0 THEN NULL ELSE next[i + 1, named[at]]
  IN  next[1, t]

\* findNext: below the child that has from, and then below the children after it.
FindNext(t, path, from) ==
  LET next[i \in 1..Len(path), u \in Tag] ==
        LET named == Named(tree, u, path[i])
            at    == SelectInSeq(named, LAMBDA c : HasChild(c, from))
            later == [k \in at + 1..Len(named) |-> FindFrom(path, i + 1, named[k])]
        IN  IF i = Len(path) THEN NextChild(u, path[i], from)
            ELSE IF at = 0 THEN NULL
            ELSE IF next[i + 1, named[at]] # NULL THEN next[i + 1, named[at]]
            ELSE IF \E k \in DOMAIN later : later[k] # NULL
                 THEN later[CHOOSE k \in DOMAIN later :
                              later[k] # NULL /\ \A l \in at + 1..k - 1 : later[l] = NULL]
                 ELSE NULL
  IN  next[1, t]

(***************************************************************************)
(* The calls.                                                              *)
(***************************************************************************)
Texts == {t \in Live : Contains(tree[t].childnodes, CDATA)}
Room == MaxTag - Cardinality(Live) - Cardinality(Texts)

NewTag(name) ==
  /\ Room > 0
  /\ Cardinality({t \in Live : tree[t].parent = NULL}) < MaxRoot
  /\ tree' = Created(tree, name)
  /\ tags_count' = tags_count + 1

\* TagHelper += tag: one that has a parent is not added again.  A root that is
\* added below itself would be its own ancestor, which nothing looks for.
AddTag(t, c) ==
  /\ t # c /\ ~HasChild(c, t)
  /\ tree[c].parent = NULL
  /\ tree' = Inserted(tree, t, c)
  /\ UNCHANGED tags_count

InsertCharacterData(t) ==
  /\ Room > 0 /\ Cardinality(Texts) < MaxText
  /\ tree' = [tree EXCEPT ![t].childnodes = Append(@, CDATA)]
  /\ UNCHANGED tags_count

\* Mutant: the tag leaves the nodes, not the children.
RemoveChildNode(t, name) ==
  LET c == HeadOrNull(SelectSeq(tree[t].childnodes,
                                LAMBDA n : IF n = CDATA THEN FALSE ELSE tree[n].name = name))
  IN  /\ c # NULL
      /\ tree' = Without([tree EXCEPT ![t].childnodes = SelectSeq(@, LAMBDA n : n # c)],
                         Destroyed(c))
      /\ tags_count' = tags_count - Len(Destroyed(c))

\* removeChild(name): the first tag with the name among the nodes.
RemoveChild(t, name) ==
  LET c == HeadOrNull(SelectSeq(tree[t].childnodes,
                                LAMBDA n : IF n = CDATA THEN FALSE ELSE tree[n].name = name))
  IN  /\ c # NULL
      /\ tree' = Without([tree EXCEPT ![t].childnodes = SelectSeq(@, LAMBDA n : n # c),
                                      ![t].children = SelectSeq(@, LAMBDA n : n # c)],
                         Destroyed(c))
      /\ tags_count' = tags_count - Len(Destroyed(c))

\* clear, alone or followed by the new text of TagHelper = text.
Clear(t, text) ==
  /\ tree' = Without([tree EXCEPT ![t].children = <<>>, ![t].childnodes = text], Cleared(t))
  /\ tags_count' = tags_count - Len(Cleared(t))

\* TagHelper [path]: the tags of the path, created where they are missing.
Subscript(t, path) ==
  LET step(s, name) ==
        LET c == HeadOrNull(Named(s.tree, s.cur, name))
        IN  IF c # NULL THEN [s EXCEPT !.cur = c]
            ELSE [tree |-> Inserted(Created(s.tree, name), s.cur, Fresh(s.tree)),
                  cur |-> Fresh(s.tree)]
      end == FoldLeft(step, [tree |-> tree, cur |-> t], path)
  IN  /\ Room >= Len(path)
      /\ tree' = end.tree
      /\ tags_count' = tags_count + Cardinality(DOMAIN end.tree \ Live)

\* The application deletes a root.
Delete(t) ==
  /\ tree[t].parent = NULL
  /\ tree' = Without(tree, Destroyed(t))
  /\ tags_count' = tags_count - Len(Destroyed(t))

Init == tree = [t \in {} |-> NULL] /\ tags_count = 0

Next ==
  \/ \E name \in Name : NewTag(name)
  \/ \E t \in Live :
       \/ \E c \in Live : AddTag(t, c)
       \/ InsertCharacterData(t)
       \/ \E name \in Name : RemoveChild(t, name)
       \/ \E text \in {<<>>, <<CDATA>>} : Clear(t, text)
       \/ \E path \in Path : Subscript(t, path)
       \/ Delete(t)

Spec == Init /\ [][Next]_vars

(***************************************************************************)
(* Properties.                                                             *)
(***************************************************************************)
\* A tag is owned by one parent, which lists it once among its children and at the
\* same place among its nodes; no list names a deleted tag; no tag is deleted twice
\* or forgotten by the counters (getTagsCount).
TreeSound ==
  /\ tags_count = Cardinality(Live)
  /\ \A t \in Live :
       /\ tree[t].children = SelectSeq(tree[t].childnodes, LAMBDA n : n # CDATA)
       /\ IsInjective(tree[t].children)
       /\ \A c \in ToSet(tree[t].children) : c \in Live /\ tree[c].parent = t
       /\ tree[t].parent # NULL => Contains(tree[tree[t].parent].children, t)
       /\ ~HasChild(t, t)

\* All tags at the end of a path, in the order of the document.
Matches(t, path) ==
  LET all[i \in 1..Len(path), u \in Tag] ==
        LET named == Named(tree, u, path[i])
        IN  IF i = Len(path) THEN named
            ELSE FlattenSeq([k \in DOMAIN named |-> all[i + 1, named[k]]])
  IN  all[1, t]

\* A loop over find and findNext visits every tag at the end of the path once, in the
\* order of the document, and ends ("find the next node", xml_tag.cpp:332-336).
FindsAll ==
  \A t \in Live, path \in Path :
    LET tags == Matches(t, path)
    IN  /\ Find(t, path) = HeadOrNull(tags)
        /\ \A i \in DOMAIN tags :
             FindNext(t, path, tags[i]) = IF i = Len(tags) THEN NULL ELSE tags[i + 1]

\* The forest without its identifiers, for the VIEW of TLC: which tag has which
\* identifier makes no difference to any call, nor to any property.
Forest ==
  LET shape[t \in Tag] ==
        <<tree[t].name,
          [i \in DOMAIN tree[t].childnodes |->
             IF tree[t].childnodes[i] = CDATA THEN <<>> ELSE shape[tree[t].childnodes[i]]]>>
  IN  IF TreeSound
      THEN LET roots == SetToSortSeq({t \in Live : tree[t].parent = NULL}, <)
           IN  [i \in DOMAIN roots |-> shape[roots[i]]]
      ELSE tree
=============================================================================
