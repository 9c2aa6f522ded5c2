----------------------------- MODULE Components -----------------------------
(***************************************************************************)
(* Visual components: core/visualComponents, store/slices/vcTreeOps.ts and *)
(* vcSlotReconcile.ts.  A component is a tree like a page's.  A page uses  *)
(* it through a ref node; where the component's tree has a slot-outlet,    *)
(* the ref has a slot-instance of that name holding the page's content     *)
(* for it.  Whoever changes a component's outlets must bring the slot      *)
(* instances of every ref to it along, in every page and every component.  *)
(* docs maps the id of a page or of a component to its tree.               *)
(***************************************************************************)
EXTENDS PageTree

IsRefTo(node, comp) == node.moduleId = "ref" /\ node.componentId = comp

Refs(tree, comp) == {id \in DOMAIN tree.nodes : IsRefTo(tree.nodes[id], comp)}

-----------------------------------------------------------------------------
(* slotSync.ts *)

Outlets(tree) == {id \in DOMAIN tree.nodes : tree.nodes[id].moduleId = "slot-outlet"}

EachOnce(tree, outlets) ==
    LET name(i) == tree.nodes[outlets[i]].slotName
        firsts == {i \in DOMAIN outlets : \A j \in 1..(i - 1) : name(j) # name(i)}
        kept == Ascending(firsts)
    IN  [k \in DOMAIN kept |-> name(kept[k])]

\* The names of a component's outlets, each once, in document order.
OutletNames(tree) ==
    EachOnce(tree, Keep(CollectSubtreeIds(tree, tree.rootNodeId), Outlets(tree)))

NewSlot(name, ref) ==
    [NewNode("slot-instance") EXCEPT !.slotName = name, !.parentId = ref, !.locked = TRUE]

\* The ref's instances of that name, in their order; the first is the match.
SlotsNamed(nodes, slots, name) == Keep(slots, {c \in ToSet(slots) : nodes[c].slotName = name})

UnmatchedInstances(nodes, slots, names) ==
    Keep(slots, {c \in ToSet(slots) :
        LET name == nodes[c].slotName
        IN  ~Contains(names, name) \/ Head(SlotsNamed(nodes, slots, name)) # c})

UnmatchedNames(nodes, slots, names) ==
    Keep(names, {name \in ToSet(names) : SlotsNamed(nodes, slots, name) = <<>>})

\* applySlotSyncResult: unmatched instances (spare) take the unmatched names
\* (missing) in order; what is left over goes with its content, as do children
\* that are no instances; missing ones are made.
ApplySlotSync(nodes, ref, refNode, names, slots, spare, missing, next) ==
    LET paired == {i \in DOMAIN missing : i <= Len(spare)}
        made == DOMAIN missing \ paired
        idOf(i) == IF i \in paired THEN spare[i] ELSE next + i
        instance(name) == IF SlotsNamed(nodes, slots, name) # <<>>
                          THEN Head(SlotsNamed(nodes, slots, name))
                          ELSE idOf(IndexOf(missing, name) + 1)
        here == [nodes |-> nodes]
        gone == UNION {Subtree(here, c) :
                    c \in (ToSet(refNode.children) \ Slots(here))
                          \union {spare[i] : i \in DOMAIN spare \ paired}}
        fresh == [id \in {idOf(i) : i \in made} |-> NewSlot(missing[id - next], ref)]
    IN  [id \in (DOMAIN nodes \ gone) \union DOMAIN fresh |->
            IF id \in DOMAIN fresh THEN fresh[id]
            ELSE IF id = ref
            THEN [nodes[id] EXCEPT !.children =
                     [k \in DOMAIN names |-> instance(names[k])]]
            ELSE IF \E k \in DOMAIN names : instance(names[k]) = id
            THEN [nodes[id] EXCEPT !.parentId = ref,
                     !.slotName = names[CHOOSE k \in DOMAIN names : instance(names[k]) = id]]
            ELSE nodes[id]]

\* syncSlotInstances for one ref, in nodes, applied at once: instances whose
\* name still exists stay.  refNode is the ref as the caller holds it: nodes may
\* have lost it.
SyncSlotInstances(nodes, ref, refNode, names, next) ==
    LET slots == Keep(refNode.children, Slots([nodes |-> nodes]))
    IN  ApplySlotSync(nodes, ref, refNode, names, slots,
                      UnmatchedInstances(nodes, slots, names),
                      UnmatchedNames(nodes, slots, names), next)

\* One ref's turn.  A ref that an earlier turn removed is synced all the same.
SyncRef(now, docs, comp, d, ref) ==
    LET names == OutletNames(now.docs[comp])
        refNode == IF Has(now.docs[d], ref) THEN now.docs[d].nodes[ref]
                   ELSE docs[d].nodes[ref]
    IN  [docs |-> [now.docs EXCEPT ![d].nodes =
                      SyncSlotInstances(@, ref, refNode, names, now.next)],
         next |-> now.next + Len(names) + 1]

\* Every ref to comp that was in document d at the start.
SyncRefsIn(now, docs, comp, d) ==
    LET refs == Ascending(Refs(docs[d], comp))
        synced[k \in 0..Len(refs)] ==
            IF k = 0 THEN now ELSE SyncRef(synced[k - 1], docs, comp, d, refs[k])
    IN  synced[Len(refs)]

\* syncAllVCRefSlotInstances: in every page and component.
SyncAllRefs(docs, comp, next) ==
    LET ids == Ascending(DOMAIN docs)
        swept[k \in 0..Len(ids)] ==
            IF k = 0 THEN [docs |-> docs, next |-> next]
            ELSE SyncRefsIn(swept[k - 1], docs, comp, ids[k])
    IN  swept[Len(ids)]

-----------------------------------------------------------------------------
(* recursionGuard.ts *)

ReferencedComponentIds(tree) ==
    {tree.nodes[id].componentId :
        id \in {id \in DOMAIN tree.nodes : tree.nodes[id].moduleId = "ref"}}

\* The components start uses, directly or through others: what every set that
\* is closed under use has in common.
TransitivelyReachable(docs, start) ==
    LET used == UNION {ReferencedComponentIds(docs[d]) : d \in DOMAIN docs}
        closed(set) ==
            /\ ReferencedComponentIds(docs[start]) \subseteq set
            /\ \A c \in set \intersect DOMAIN docs :
                  ReferencedComponentIds(docs[c]) \subseteq set
    IN  {c \in used : \A set \in SUBSET used : closed(set) => c \in set}

\* (Slip: only a component placed straight into itself is refused.)
WouldContainItself(docs, host, candidate) == host = candidate

WouldCreateCycle(docs, host, candidate) ==
    \/ host = candidate
    \/ host \in TransitivelyReachable(docs, candidate)
    \/ candidate \in TransitivelyReachable(docs, host)

-----------------------------------------------------------------------------
(* visualComponentsSlice.ts, vcTreeOps.ts, instantiate.ts *)

\* cascadeRemoveVCRefs: each ref goes with its subtree, and is unlinked from
\* the parent its parentId names.
CascadeRemoveRefs(tree, comp) ==
    DeleteSubtrees(tree, Ascending(Refs(tree, comp)))

\* convertNodeToComponent, the new component: the subtree's copy in a body.
ExtractedComponent(tree, id, next) ==
    LET ids == Subtree(tree, id)
        idMap == FreshIds(ids, next + 1)
        body == [NewNode("body") EXCEPT !.children = <<idMap[id]>>]
    IN  [rootNodeId |-> next,
         nodes |-> ReindexNodeParents(With(Copies(tree.nodes, ids, idMap), next, body))]

\* convertNodeToComponent, the page: a ref in the node's place.  The ref gets
\* no parentId and the page is not reindexed.
ReplacedByRef(tree, id, comp, ref) ==
    LET parent == SiblingAfter(tree, id).parentId
        node == [NewNode("ref") EXCEPT !.componentId = comp]
        kids == tree.nodes[parent].children
        swapped == [tree.nodes EXCEPT ![parent].children =
                       Replace(kids, id, ref)]
    IN  [tree EXCEPT !.nodes =
            With(Restrict(swapped, DOMAIN swapped \ Subtree(tree, id)), ref, node)]

\* (Slip: the slots' content is not carried into the page.)
InstantiatedEmpty(tree, ref, comp) == comp.nodes

\* instantiateVCAtRef: the component's nodes with every filled outlet replaced
\* by what the ref's slot of that name holds, and that content's own nodes.
Instantiated(tree, ref, comp) ==
    LET slots == Keep(tree.nodes[ref].children, Slots(tree))
        filling(name) ==
            LET named == Keep(slots, {c \in ToSet(slots) : tree.nodes[c].slotName = name})
            IN  IF named = <<>> THEN <<>> ELSE tree.nodes[Last(named)].children
        own == Subtree(comp, comp.rootNodeId)
        filled(id) == /\ comp.nodes[id].moduleId = "slot-outlet"
                      /\ filling(comp.nodes[id].slotName) # <<>>
        inPlaceOf(id) == IF id \notin own THEN <<>>
                         ELSE IF filled(id) THEN filling(comp.nodes[id].slotName)
                         ELSE <<id>>
        content == UNION {Subtree(tree, c) : c \in UNION {ToSet(inPlaceOf(id)) :
                              id \in {i \in own : filled(i)}}}
    IN  [id \in {i \in own : ~filled(i)} \union content |->
            IF id \notin own THEN tree.nodes[id]
            ELSE [comp.nodes[id] EXCEPT !.children =
                     FlattenSeq([k \in DOMAIN @ |-> inPlaceOf(@[k])])]]

\* detachComponentRef: copies of the instantiated nodes in the ref's place.
DetachRef(tree, ref, comp, next) ==
    LET inst == Instantiated(tree, ref, comp)
        idMap == FreshIds(DOMAIN inst, next)
        copied == Copies(inst, DOMAIN inst, idMap)
        body == idMap[comp.rootNodeId]
        inserted == copied[body].children
        parent == SiblingAfter(tree, ref).parentId
        at == IndexOf(tree.nodes[parent].children, ref)
        kept == Restrict(tree.nodes, DOMAIN tree.nodes \ Subtree(tree, ref))
        placed == [kept EXCEPT ![parent].children =
                       Splice(Keep(@, ToSet(@) \ {ref}), at, inserted)]
    IN  [tree EXCEPT !.nodes =
            ReindexNodeParents(Over(Restrict(copied, DOMAIN copied \ {body}), placed))]

CanDetach(tree, ref, comp) ==
    /\ Instantiated(tree, ref, comp)[comp.rootNodeId].children # <<>>
    /\ SiblingAfter(tree, ref).parentId # Null

-----------------------------------------------------------------------------
(* What the publisher shows of a document: bodies, refs and slot instances *)
(* print nothing of their own, an outlet prints what the ref that brought  *)
(* it in holds for it.  via is the refs entered on the way, outermost first *)
(* (only defined when no component contains itself).                       *)

Shown(docs, doc) ==
    LET concat(seqs) == FlattenSeq(seqs)
        show[d \in DOMAIN docs, id \in Nat, via \in Seq(Nat \X Nat)] ==
            LET tree == docs[d]
                node == tree.nodes[id]
                inside == concat([k \in DOMAIN node.children |->
                              IF Has(tree, node.children[k])
                              THEN show[d, node.children[k], via] ELSE <<>>])
                host == IF via = <<>> THEN <<Null, Null>> ELSE Last(via)
                slots == Keep(docs[host[1]].nodes[host[2]].children,
                              {c \in Slots(docs[host[1]]) :
                                  docs[host[1]].nodes[c].slotName = node.slotName})
            IN  CASE node.moduleId \in {"body", "slot-instance"} -> inside
                  [] node.moduleId = "ref" ->
                       IF node.componentId \notin DOMAIN docs THEN <<>>
                       ELSE show[node.componentId, docs[node.componentId].rootNodeId,
                                 Append(via, <<d, id>>)]
                  [] node.moduleId = "slot-outlet" ->
                       IF via = <<>> \/ slots = <<>> THEN <<>>
                       ELSE show[host[1], Last(slots), Front(via)]
                  [] OTHER -> <<[moduleId |-> node.moduleId, inside |-> inside]>>
    IN  show[doc, docs[doc].rootNodeId, <<>>]
=============================================================================
