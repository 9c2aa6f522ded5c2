------------------------------ MODULE PageTree ------------------------------
(***************************************************************************)
(* dukafi-editor/src/core/page-tree: a page (or a component's body) is a   *)
(* flat map of nodes, the children lists that make it a tree, and in every *)
(* node parentId, a cache of whoever lists it.  Parents are always looked  *)
(* up through the cache, children through the lists, so an operation that  *)
(* leaves the two apart makes every later one act on another tree than the *)
(* page shows.  These are the operations of mutations.ts and dnd.ts as     *)
(* operators; an operation that throws has its condition in a Can...       *)
(* Node ids are naturals, given out in increasing order for nanoid().      *)
(* Loops are functions of the number of turns taken: what they keep can    *)
(* then be proved by induction on it.                                      *)
(***************************************************************************)
EXTENDS Integers, FiniteSets, SequencesExt

Null == 0   \* no node, no component

NewNode(module) ==
    [moduleId |-> module, children |-> <<>>, parentId |-> Null,
     componentId |-> Null, slotName |-> "", locked |-> FALSE]

CanHaveChildren(node) == node.moduleId \notin {"text", "outlet", "slot-outlet"}

Has(tree, id) == id \in DOMAIN tree.nodes

\* The elements of list that are in set, in their order (Array.filter).
Keep(list, set) ==
    LET kept[k \in 0..Len(list)] ==
            IF k = 0 THEN <<>>
            ELSE IF list[k] \in set THEN Append(kept[k - 1], list[k]) ELSE kept[k - 1]
    IN  kept[Len(list)]

\* {...old, [key]: value} and {...old, ...new}.
With(old, key, value) ==
    [k \in DOMAIN old \union {key} |-> IF k = key THEN value ELSE old[k]]

Over(new, old) ==
    [k \in DOMAIN new \union DOMAIN old |-> IF k \in DOMAIN new THEN new[k] ELSE old[k]]

Ascending(ids) == IF ids = {} THEN <<>> ELSE Keep([i \in 1..Max(ids) |-> i], ids)

\* Fresh ids for the nodes in ids, from next on.
FreshIds(ids, next) == [id \in ids |-> next + Cardinality({j \in ids : j < id})]

-----------------------------------------------------------------------------
(* selectors.ts *)

Parent(tree, id) ==
    IF Has(tree, id) /\ Has(tree, tree.nodes[id].parentId)
    THEN tree.nodes[id].parentId ELSE Null

\* From the root down to id, or from where the chain of parents breaks off.
Chain(tree, id) ==
    LET up[k \in 0..Cardinality(DOMAIN tree.nodes)] ==
            IF k = 0 THEN <<id>>
            ELSE LET above == up[k - 1]
                     parent == Parent(tree, Head(above))
                 IN  IF parent = Null \/ Contains(above, parent) THEN above
                     ELSE <<parent>> \o above
    IN  up[Cardinality(DOMAIN tree.nodes)]

IsAncestor(tree, ancestor, id) == Contains(Chain(tree, id), ancestor)

\* Depth first, a node before its children; children that are not in the map
\* are skipped, a node met again is not entered again.
CollectSubtreeIds(tree, root) ==
    LET n == Cardinality(DOMAIN tree.nodes)
        visit(now) ==
            LET new == {i \in DOMAIN now.todo :
                           Has(tree, now.todo[i]) /\ ~Contains(now.done, now.todo[i])}
                i == Min(new)
                id == now.todo[i]
            IN  IF new = {} THEN now
                ELSE [todo |-> tree.nodes[id].children
                                 \o SubSeq(now.todo, i + 1, Len(now.todo)),
                      done |-> Append(now.done, id)]
        walk[k \in 0..n] ==
            IF k = 0 THEN [todo |-> <<root>>, done |-> <<>>] ELSE visit(walk[k - 1])
    IN  walk[n].done

Subtree(tree, root) == ToSet(CollectSubtreeIds(tree, root))

\* (Slip: an outlet deeper in the subtree is not seen.)
IsOutlet(tree, root) == tree.nodes[root].moduleId = "outlet"

SubtreeHasOutlet(tree, root) ==
    \E id \in Subtree(tree, root) : tree.nodes[id].moduleId = "outlet"

TreeHasOutlet(tree) ==
    \E id \in DOMAIN tree.nodes : tree.nodes[id].moduleId = "outlet"

-----------------------------------------------------------------------------
(* mutations.ts: insert, delete, move *)

\* Array.prototype.splice(index, 0, ...ids), index clamped to the list.
Splice(list, index, ids) ==
    LET k == IF index > Len(list) THEN Len(list) ELSE IF index < 0 THEN 0 ELSE index
    IN  SubSeq(list, 1, k) \o ids \o SubSeq(list, k + 1, Len(list))

IndexOf(list, id) == SelectInSeq(list, LAMBDA x : x = id) - 1   \* -1: not there

\* list[list.indexOf(id)] = new.
Replace(list, id, new) ==
    [i \in DOMAIN list |-> IF i = IndexOf(list, id) + 1 THEN new ELSE list[i]]

InsertNode(tree, id, node, parent, index) ==
    LET added == With(tree.nodes, id, [node EXCEPT !.parentId = parent])
    IN  [tree EXCEPT !.nodes =
            [added EXCEPT ![parent].children = Splice(@, index, <<id>>)]]

\* (Slip: only the node itself leaves the map.)
DeleteShallow(tree, root) ==
    LET parent == Parent(tree, root)
        left == [id \in DOMAIN tree.nodes \ {root} |->
                    IF id = parent
                    THEN [tree.nodes[id] EXCEPT !.children = Keep(@, ToSet(@) \ {root})]
                    ELSE tree.nodes[id]]
    IN  [tree EXCEPT !.nodes = left]

\* subtreeRemoval.ts: the parent that loses the child is the cached one.
DeleteSubtree(tree, root) ==
    LET parent == Parent(tree, root)
        left == [id \in DOMAIN tree.nodes \ Subtree(tree, root) |->
                    IF id = parent
                    THEN [tree.nodes[id] EXCEPT !.children = Keep(@, ToSet(@) \ {root})]
                    ELSE tree.nodes[id]]
    IN  [tree EXCEPT !.nodes = left]

\* One after the other; those that went with an earlier one are gone already.
DeleteSubtrees(tree, ids) ==
    LET left[k \in 0..Len(ids)] ==
            IF k = 0 THEN tree ELSE DeleteSubtree(left[k - 1], ids[k])
    IN  left[Len(ids)]

\* Those of ids with no other of ids above them, in their order.
TopLevel(tree, ids) ==
    Keep(ids, {id \in ToSet(ids) :
                  \A other \in ToSet(ids) \ {id} : ~IsAncestor(tree, other, id)})

CanMove(tree, ids, parent) ==
    /\ ids # <<>>
    /\ Has(tree, parent)
    /\ \A id \in ToSet(ids) : Has(tree, id) /\ id # tree.rootNodeId
    /\ \A id \in ToSet(TopLevel(tree, ids)) : ~IsAncestor(tree, id, parent)

\* moveNode is the case of one id.  The index counts the list as it is once
\* the moved nodes have left it.
MoveNodes(tree, ids, parent, index) ==
    LET tops == TopLevel(tree, ids)
        left == [id \in DOMAIN tree.nodes |->
                   [tree.nodes[id] EXCEPT !.children =
                       Keep(@, {c \in ToSet(@) :
                                   ~(Contains(tops, c) /\ Parent(tree, c) = id)})]]
        placed == [left EXCEPT ![parent].children = Splice(@, index, tops)]
    IN  [tree EXCEPT !.nodes =
            [id \in DOMAIN placed |->
                IF Contains(tops, id) THEN [placed[id] EXCEPT !.parentId = parent]
                ELSE placed[id]]]

-----------------------------------------------------------------------------
(* mutations.ts: wrap *)

\* The deepest node that is above all of ids and is none of them.
ClosestCommonAncestor(tree, ids) ==
    LET shared == Keep(Chain(tree, ids[1]), {a \in ToSet(Chain(tree, ids[1])) :
                      /\ ~Contains(ids, a)
                      /\ \A i \in DOMAIN ids : Contains(Chain(tree, ids[i]), a)})
    IN  IF ids = <<>> \/ shared = <<>> THEN Null ELSE Last(shared)

\* The child of ancestor on the way down to id.
BranchOf(tree, id, ancestor) ==
    LET chain == Chain(tree, id) IN chain[IndexOf(chain, ancestor) + 2]

Branches(tree, ids, ancestor) ==
    Keep(tree.nodes[ancestor].children,
         {BranchOf(tree, ids[i], ancestor) : i \in DOMAIN ids})

CanWrap(tree, ids) ==
    /\ \A id \in ToSet(ids) : Has(tree, id) /\ id # tree.rootNodeId
    /\ IF Len(ids) = 1 THEN Parent(tree, ids[1]) # Null
       ELSE LET tops == TopLevel(tree, ids)
                above == ClosestCommonAncestor(tree, tops)
            IN  above # Null /\ Branches(tree, tops, above) # <<>>

\* wrapNode (one id) puts the wrapper in the node's place; wrapNodes gathers
\* the branches that hold the selection where the first of them was.
WrapNodes(tree, ids, wrapper) ==
    LET tops == TopLevel(tree, ids)
        above == IF Len(ids) = 1 THEN Parent(tree, ids[1])
                 ELSE ClosestCommonAncestor(tree, tops)
        kids == tree.nodes[above].children
        inside == IF Len(ids) = 1 THEN ids ELSE Branches(tree, tops, above)
        rest == Keep(kids, ToSet(kids) \ ToSet(inside))
        after == IF Len(ids) = 1 THEN Replace(kids, ids[1], wrapper)
                 ELSE Splice(rest, IndexOf(kids, inside[1]), <<wrapper>>)
        node == [NewNode("container") EXCEPT !.children = inside, !.parentId = above]
        placed == [With(tree.nodes, wrapper, node) EXCEPT ![above].children = after]
    IN  [tree EXCEPT !.nodes =
            [id \in DOMAIN placed |->
                IF Contains(inside, id) THEN [placed[id] EXCEPT !.parentId = wrapper]
                ELSE placed[id]]]

-----------------------------------------------------------------------------
(* mutations.ts, cloneNode.ts, subtreeSnapshot.ts: copies *)

\* cloneNodeWithRemap: children that were not copied along are dropped; the
\* parent is the original's until linkChildrenParents puts it right, and the
\* roots', whom no copy lists, until the caller does.
Copies(nodes, ids, idMap) ==
    LET copy(id) ==
            [nodes[id] EXCEPT !.children =
                LET kept == Keep(@, DOMAIN idMap)
                IN  [i \in DOMAIN kept |-> idMap[kept[i]]],
             !.parentId = IF \E p \in ids : Contains(nodes[p].children, id)
                          THEN idMap[CHOOSE p \in ids : Contains(nodes[p].children, id)]
                          ELSE @]
    IN  [new \in {idMap[id] : id \in ids} |->
            copy(CHOOSE id \in ids : idMap[id] = new)]

\* (Slip: the copies of the children keep their originals' parent.)
DuplicateUnlinked(tree, id, next) ==
    LET ids == Subtree(tree, id)
        idMap == FreshIds(ids, next)
        parent == Parent(tree, id)
        copied == Over([new \in {idMap[i] : i \in ids} |->
                      LET old == CHOOSE i \in ids : idMap[i] = new IN
                      [tree.nodes[old] EXCEPT !.children =
                          [i \in DOMAIN @ |-> idMap[@[i]]]]], tree.nodes)
    IN  [tree EXCEPT !.nodes =
            [copied EXCEPT ![parent].children =
                Splice(@, IndexOf(@, id) + 1, <<idMap[id]>>)]]

DuplicateNode(tree, id, next) ==
    LET ids == Subtree(tree, id)
        idMap == FreshIds(ids, next)
        parent == Parent(tree, id)
        copied == Over(Copies(tree.nodes, ids, idMap), tree.nodes)
        root == [copied EXCEPT ![idMap[id]].parentId =
                    IF parent # Null THEN parent ELSE tree.nodes[id].parentId]
    IN  [tree EXCEPT !.nodes =
            IF parent = Null THEN root
            ELSE [root EXCEPT ![parent].children =
                     Splice(@, IndexOf(@, id) + 1, <<idMap[id]>>)]]

\* One after the other, in the tree as the earlier copies have left it.
DuplicateAll(tree, ids, next) ==
    LET copied[k \in 0..Len(ids)] ==
            IF k = 0 THEN [tree |-> tree, next |-> next]
            ELSE LET now == copied[k - 1]
                 IN  [tree |-> DuplicateNode(now.tree, ids[k], now.next),
                      next |-> now.next + Cardinality(Subtree(now.tree, ids[k]))]
    IN  copied[Len(ids)]

\* A clipboard's content: the copied roots and every node under them.
Snapshot(tree, roots) ==
    [rootNodeIds |-> roots,
     nodes |-> Restrict(tree.nodes, UNION {Subtree(tree, r) : r \in ToSet(roots)})]

\* pasteSubtree for each root in turn.  The map of new ids spans all roots and
\* every call copies all of it, so the roots already pasted are copied again,
\* and come back with the parent they had in the snapshot.
PasteSnapshot(tree, snapshot, parent, index, next) ==
    LET ids == DOMAIN snapshot.nodes
        idMap == FreshIds(ids, next)
        roots == [i \in DOMAIN snapshot.rootNodeIds |-> idMap[snapshot.rootNodeIds[i]]]
        copied == Over(Copies(snapshot.nodes, ids, idMap), tree.nodes)
        placed == [copied EXCEPT ![parent].children = Splice(@, index, roots)]
    IN  [tree EXCEPT !.nodes = [placed EXCEPT ![Last(roots)].parentId = parent]]

-----------------------------------------------------------------------------
(* parentIndex.ts: the cache rebuilt from the lists, at every load. *)

ReindexNodeParents(nodes) ==
    [id \in DOMAIN nodes |->
        LET listing == {p \in DOMAIN nodes : Contains(nodes[p].children, id)}
        IN  [nodes[id] EXCEPT !.parentId =
                IF listing = {} THEN Null ELSE CHOOSE p \in listing : TRUE]]

Slots(tree) == {id \in DOMAIN tree.nodes : tree.nodes[id].moduleId = "slot-instance"}

-----------------------------------------------------------------------------
(* insertLocation.ts and dnd.ts: where something the user points at goes. *)

Nowhere == [parentId |-> Null, index |-> 0]

SiblingAfter(tree, target) ==
    LET listing == {p \in DOMAIN tree.nodes : Contains(tree.nodes[p].children, target)}
    IN  IF listing = {} THEN Nowhere
        ELSE LET p == CHOOSE p \in listing : \A q \in listing : p <= q
             IN  [parentId |-> p, index |-> IndexOf(tree.nodes[p].children, target) + 1]

\* Into a container; into a component's first slot; else behind the target.
InsertLocation(tree, target) ==
    LET node == tree.nodes[target]
        atEnd(id) == [parentId |-> id, index |-> Len(tree.nodes[id].children)]
        slots == Keep(node.children, Slots(tree))
    IN  CASE target # tree.rootNodeId /\ ~CanHaveChildren(node) ->
                 SiblingAfter(tree, target)
          [] node.moduleId = "ref" ->
                 IF slots # <<>> THEN atEnd(slots[1]) ELSE SiblingAfter(tree, target)
          [] OTHER -> atEnd(target)

\* (Slip: the place the grabbed node leaves is still counted.)
KeepIndex(tree, dragged, parent, rawIndex) == rawIndex

\* The index once the grabbed node has left the list.  Only the node under
\* the pointer is accounted for, not the others dragged with it.
NormalizeIndexAfterRemoval(tree, dragged, parent, rawIndex) ==
    LET at == IndexOf(tree.nodes[parent].children, dragged)
    IN  IF Parent(tree, dragged) # parent \/ at = -1 \/ at >= rawIndex
        THEN rawIndex ELSE rawIndex - 1

\* Where dropping ids, grabbed at dragged, on a zone of over puts them.
ResolveDropTarget(tree, dragged, ids, over, zone) ==
    LET parent == IF zone = "inside" THEN over ELSE Parent(tree, over)
        node == tree.nodes[parent]
        at == IndexOf(node.children, over)
        raw == CASE zone = "inside" -> Len(node.children)
                 [] zone = "before" -> at
                 [] zone = "after" -> at + 1
        index == NormalizeIndexAfterRemoval(tree, dragged, parent, raw)
        accepts ==
            /\ \A id \in ToSet(ids) :
                 id # tree.rootNodeId /\ Has(tree, id) /\ ~tree.nodes[id].locked
            /\ ~Contains(ids, over)
            /\ parent # Null
            /\ node.moduleId # "ref"
            /\ \A id \in ToSet(ids) : ~IsAncestor(tree, id, parent)
            /\ IF zone = "inside"
               THEN /\ CanHaveChildren(node)
                    /\ ~node.locked \/ node.moduleId = "slot-instance"
               ELSE over # tree.rootNodeId /\ ~node.locked /\ at # -1
    IN  IF /\ accepts
           /\ ~(/\ Parent(tree, dragged) = parent
                /\ IndexOf(node.children, dragged) = index)
        THEN [parentId |-> parent, index |-> index]
        ELSE Nowhere
=============================================================================
