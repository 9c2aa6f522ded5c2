------------------------------- MODULE Editor -------------------------------
(***************************************************************************)
(* The visual editor's edits of a site (store/slices): each runs on the    *)
(* document the editor has open, a page, a component in its own mode or a  *)
(* component edited inline through a ref on the page, and, where it        *)
(* changes a component's outlets, on every document that uses it.          *)
(* Edits that lose track of something, where a comment says they do not,   *)
(* are noted in "known"; the properties speak of everything else.          *)
(***************************************************************************)
EXTENDS Components

CONSTANTS
    Page,       \* ids of the pages
    Site,       \* the sites the editor may load: <<docs, clipboard>>
    SlotName,   \* names an outlet may be given
    Zone,       \* where on a node something can be dropped
    FirstId,    \* greater than every id of those sites
    MaxEdits    \* bound: edits after loading

ASSUME PageAssumption == Page \subseteq Nat \ {Null} /\ Page # {}
ASSUME FirstIdAssumption == FirstId \in Nat
ASSUME NameAssumption == "children" \in SlotName /\ Zone \subseteq {"before", "after", "inside"}
ASSUME BoundAssumption == MaxEdits \in Nat

-----------------------------------------------------------------------------
(* What a site is made of, when every id below n has been given out. *)

Module == {"container", "text", "outlet", "slot-outlet"}

Node(n) ==
    [moduleId : Module \union {"body", "ref", "slot-instance"},
     children : Seq(Nat), parentId : Nat, componentId : (0..(n - 1)) \ Page,
     slotName : SlotName \union {""}, locked : BOOLEAN]

IsNodes(nodes, n) == DOMAIN nodes \subseteq 1..(n - 1) /\ nodes \in [DOMAIN nodes -> Node(n)]

\* The root is a body, and nobody's child.
IsDocument(tree, n) ==
    /\ tree \in [rootNodeId : DOMAIN tree.nodes, nodes : {tree.nodes}]
    /\ IsNodes(tree.nodes, n)
    /\ tree.nodes[tree.rootNodeId].moduleId = "body"
    /\ \A id \in DOMAIN tree.nodes : ~Contains(tree.nodes[id].children, tree.rootNodeId)

IsDocuments(trees, n) ==
    /\ Page \subseteq DOMAIN trees
    /\ DOMAIN trees \subseteq 1..(n - 1)
    /\ trees = [d \in DOMAIN trees |-> trees[d]]
    /\ \A d \in DOMAIN trees : IsDocument(trees[d], n)

IsSnapshot(snapshot, n) ==
    /\ snapshot \in [rootNodeIds : Seq(DOMAIN snapshot.nodes), nodes : {snapshot.nodes}]
    /\ IsNodes(snapshot.nodes, n)

\* No list names a node twice or one that is gone, whoever lists a node is its
\* parentId, and nodes never go round in a circle: some node of any set of them
\* is listed by none of the set.
IsForest(nodes) ==
    /\ \A p \in DOMAIN nodes :
          /\ IsInjective(nodes[p].children)
          /\ \A c \in ToSet(nodes[p].children) : c \in DOMAIN nodes /\ nodes[c].parentId = p
    /\ \A set \in SUBSET DOMAIN nodes : set # {} =>
          \E top \in set : \A p \in set : top \notin ToSet(nodes[p].children)

\* Every node but the roots is listed, and no slot-outlet holds anything.
IsWhole(nodes, roots) ==
    /\ \A id \in DOMAIN nodes \ roots : \E p \in DOMAIN nodes : id \in ToSet(nodes[p].children)
    /\ \A id \in DOMAIN nodes : nodes[id].moduleId = "slot-outlet" => nodes[id].children = <<>>

\* What a clipboard was copied from was such a forest, and its roots are its tops.
IsCut(snapshot) ==
    /\ IsForest(snapshot.nodes)
    /\ IsInjective(snapshot.rootNodeIds)
    /\ \A p \in DOMAIN snapshot.nodes :
          ToSet(snapshot.nodes[p].children) \intersect ToSet(snapshot.rootNodeIds) = {}

\* No node is in two documents.
Apart(trees) ==
    \A d, e \in DOMAIN trees : d # e => DOMAIN trees[d].nodes \intersect DOMAIN trees[e].nodes = {}

ContentOutlets(tree) == {id \in DOMAIN tree.nodes : tree.nodes[id].moduleId = "outlet"}

\* What a ref holds is slots, locked where they are.
OnlySlots(nodes, ref) ==
    \A k \in ToSet(nodes[ref].children) : nodes[k].moduleId = "slot-instance" /\ nodes[k].locked

SlotNames(nodes, ref) ==
    [i \in DOMAIN nodes[ref].children |-> nodes[nodes[ref].children[i]].slotName]

\* Every ref to comp holds slots for its outlets, in their order.
HasItsSlots(trees, comp) ==
    \A d \in DOMAIN trees : \A r \in Refs(trees[d], comp) :
        OnlySlots(trees[d].nodes, r) /\ SlotNames(trees[d].nodes, r) = OutletNames(trees[comp])

\* What was copied had its slots too, and only slots were copied off a ref.
IsCopied(nodes, trees) ==
    /\ \A id \in DOMAIN nodes : nodes[id].moduleId = "ref" => OnlySlots(nodes, id)
    /\ \A id \in DOMAIN nodes :
          /\ nodes[id].parentId < FirstId
          /\ \A d \in DOMAIN trees, comp \in DOMAIN trees \ Page :
                nodes[id].parentId \in Refs(trees[d], comp) => nodes[id].moduleId = "slot-instance"

\* A site as the editor's own edits leave one when nothing has slipped: every
\* document one tree (the loader rebuilds parentId) with node ids of its own
\* (nanoid), no ref without its component or its slots, no component in itself,
\* no second content outlet.
ASSUME SiteAssumption ==
    \A site \in Site :
        LET trees == site[1]
        IN  /\ IsDocuments(trees, FirstId)
            /\ IsSnapshot(site[2], FirstId)
            /\ \A d \in DOMAIN trees :
                  IsForest(trees[d].nodes) /\ IsWhole(trees[d].nodes, {trees[d].rootNodeId})
            /\ Apart(trees)
            /\ IsCut(site[2]) /\ IsWhole(site[2].nodes, ToSet(site[2].rootNodeIds))
            /\ \A d \in DOMAIN trees : ReferencedComponentIds(trees[d]) \subseteq DOMAIN trees \ Page
            /\ \A d \in DOMAIN trees : trees[d].nodes[trees[d].rootNodeId].parentId = Null
            /\ \A c \in DOMAIN trees \ Page : HasItsSlots(trees, c)
            /\ IsCopied(site[2].nodes, trees)
            /\ \A c \in DOMAIN trees \ Page : c \notin TransitivelyReachable(trees, c)
            /\ \A d \in DOMAIN trees : Cardinality(ContentOutlets(trees[d])) <= 1
            /\ Cardinality(ContentOutlets(site[2])) <= 1

-----------------------------------------------------------------------------
VARIABLES
    docs,            \* id of a page or component -> its tree
    activePageId,
    activeDocument,  \* the component open in its own mode, or Null
    inlineRef,       \* inlineEditingRefId: the ref edited inline, or Null
    clipboard,       \* [rootNodeIds, nodes]; survives a reload
    next,            \* the first unused id
    known,           \* history: <<what, id>> a known slip has hit
    last,            \* history: what the latest edit promised
    edits            \* edits so far (for MaxEdits)

mode == <<activePageId, activeDocument, inlineRef>>
vars == <<docs, mode, clipboard, next, known, last, edits>>

Component == DOMAIN docs \ Page

TypeOK ==
    /\ IsDocuments(docs, next)
    /\ activePageId \in Page
    /\ activeDocument \in Component \union {Null}
    /\ inlineRef \in Nat
    /\ IsSnapshot(clipboard, next)
    /\ next \in Nat
    /\ edits \in 0..MaxEdits

Nothing == [op |-> "none"]

\* The pages are to look as they do now (while what they show is finite, and
\* no earlier edit has lost track of anything).
Promise == IF known # {} THEN Nothing
           ELSE [op |-> "same", shown |-> [p \in Page |-> Shown(docs, p)]]

Init ==
    /\ \E site \in Site : docs = site[1] /\ clipboard = site[2]
    /\ activePageId = CHOOSE p \in Page : \A q \in Page : p <= q
    /\ activeDocument = Null
    /\ inlineRef = Null
    /\ next = FirstId
    /\ known = {}
    /\ last = Nothing
    /\ edits = 0

-----------------------------------------------------------------------------
(* site/helpers.ts: the tree an edit works on, and what follows from it. *)

\* resolveActiveTreeTarget
Target ==
    LET page == docs[activePageId]
        inline == IF Has(page, inlineRef) THEN page.nodes[inlineRef].componentId ELSE Null
    IN  IF inline \in Component THEN inline
        ELSE IF activeDocument # Null THEN activeDocument
        ELSE activePageId

Tree == docs[Target]
Ids  == DOMAIN Tree.nodes
OnPage == Target = activePageId

\* What the user may have selected: a node, or two that no slot-instance is
\* among.
Selection ==
    LET nodes == Tree.nodes
        free == {id \in DOMAIN nodes : nodes[id].moduleId # "slot-instance"}
    IN  {<<id>> : id \in DOMAIN nodes} \union {pair \in free \X free : pair[1] < pair[2]}

Edit == edits < MaxEdits /\ edits' = edits + 1

Hit(what) == {k[2] : k \in {k \in known : k[1] = what}}

\* Where a node has been left in two lists, what is copied from there has it too:
\* into the clipboard (Null), and from it into another page.
Spread(from, to) == {<<"shared", to>> : s \in Hit("shared") \intersect {from}}

\* The components some document's outlets of which differ in the two states.
OutletsChanged(before, after) ==
    {c \in (DOMAIN before \intersect DOMAIN after) \ Page :
        OutletNames(before[c]) # OutletNames(after[c])}

\* Whether a sweep of trees for comp meets a ref inside another ref's slot, or
\* in comp itself, whose outlets may then change from turn to turn.
NestedUse(trees, comp) ==
    \/ Refs(trees[comp], comp) # {}
    \/ \E d \in DOMAIN trees : \E r, s \in Refs(trees[d], comp) :
           r # s /\ IsAncestor(trees[d], r, s)

\* (Slip: outlets that change are noticed only while the component is open
\* in its own mode.)
CommitInMode(tree, n, slips) ==
    LET changed == /\ Target = activeDocument
                   /\ OutletNames(docs[Target]) # OutletNames(tree)
        edited == [docs EXCEPT ![Target] = tree]
        swept == IF changed THEN SyncAllRefs(edited, Target, n)
                 ELSE [docs |-> edited, next |-> n]
    IN  /\ docs' = swept.docs
        /\ next' = swept.next
        /\ known' = known \union slips

\* mutateActiveTree: the tree takes the place of the target's, and if that is
\* a component whose outlets changed, every ref to it is brought along.
Commit(tree, n, slips) ==
    LET changed == Target \in Component /\ OutletNames(docs[Target]) # OutletNames(tree)
        edited == [docs EXCEPT ![Target] = tree]
        swept == IF changed THEN SyncAllRefs(edited, Target, n)
                 ELSE [docs |-> edited, next |-> n]
        lost == OutletsChanged(edited, docs') \union {c \in {Target} : NestedUse(edited, c)}
    IN  /\ docs' = swept.docs
        /\ next' = swept.next
        /\ known' = known \union slips
                      \union {<<"slots", c>> : c \in {c \in Component : changed /\ c \in lost}}

\* Deleting, copying or wrapping a slot-instance with the keyboard: the menu
\* refuses it, the shortcuts do not.
SlotSlips(ids) ==
    {<<"slots", Tree.nodes[Parent(Tree, s)].componentId>> : s \in
        {s \in ToSet(ids) : /\ Tree.nodes[s].moduleId = "slot-instance"
                            /\ Parent(Tree, s) # Null}}

-----------------------------------------------------------------------------
(* site/nodeActions.ts *)

InsertModule(target, module) ==
    LET to == InsertLocation(Tree, target)
        node == [NewNode(module) EXCEPT
                    !.slotName = IF module = "slot-outlet" THEN "children" ELSE ""]
    IN  /\ Edit
        /\ to.parentId # Null
        /\ module = "slot-outlet" => activeDocument # Null
        /\ module = "outlet" => ~TreeHasOutlet(Tree)
        /\ Commit(InsertNode(Tree, next, node, to.parentId, to.index), next + 1, {})
        /\ last' = Nothing
        /\ UNCHANGED <<mode, clipboard>>

\* The new ref gets its slots at once.  The recursion guard runs only in the
\* component's own mode: inline, a component may come to contain itself.
InsertComponentRef(target, comp) ==
    LET to == InsertLocation(Tree, target)
        node == [NewNode("ref") EXCEPT !.componentId = comp, !.parentId = to.parentId]
        names == OutletNames(docs[comp])
        placed == InsertNode(Tree, next, node, to.parentId, to.index)
    IN  /\ Edit
        /\ to.parentId # Null
        /\ activeDocument # Null => ~WouldCreateCycle(docs, activeDocument, comp)
        /\ Commit([placed EXCEPT !.nodes =
                      SyncSlotInstances(@, next, node, names, next)],
                  next + 1 + Len(names),
                  {<<"cycle", Target>> : h \in
                      {h \in {Target} : h \in Component /\ WouldCreateCycle(docs, h, comp)}})
        /\ last' = Nothing
        /\ UNCHANGED <<mode, clipboard>>

DeleteNodes(ids) ==
    LET gone == DeleteSubtrees(Tree, Keep(ids, Ids \ {Tree.rootNodeId}))
    IN  /\ Edit
        /\ gone # Tree
        /\ Commit(gone, next, SlotSlips(ids))
        /\ last' = Nothing
        /\ UNCHANGED <<mode, clipboard>>

DuplicateNodes(ids) ==
    LET copied == Keep(ids, {id \in Ids : id # Tree.rootNodeId /\ ~SubtreeHasOutlet(Tree, id)})
        done == DuplicateAll(Tree, copied, next)
    IN  /\ Edit
        /\ copied # <<>>
        /\ Commit(done.tree, done.next, SlotSlips(ids))
        /\ last' = Nothing
        /\ UNCHANGED <<mode, clipboard>>

Wrap(ids) ==
    LET above == ClosestCommonAncestor(Tree, TopLevel(Tree, ids))
    IN  /\ Edit
        /\ CanWrap(Tree, ids)
        /\ Commit(WrapNodes(Tree, ids, next), next + 1,
                  SlotSlips(ids) \union
                  {<<"slots", Tree.nodes[a].componentId>> :
                      a \in {a \in Ids : a = above /\ Tree.nodes[a].moduleId = "ref"}})
        /\ last' = Nothing
        /\ UNCHANGED <<mode, clipboard>>

\* A drag: dnd.ts finds the place, moveNodes puts them there.
Drop(ids, dragged, over, zone) ==
    LET to == ResolveDropTarget(Tree, dragged, ids, over, zone)
    IN  /\ Edit
        /\ to # Nowhere
        /\ CanMove(Tree, ids, to.parentId)
        /\ Commit(MoveNodes(Tree, ids, to.parentId, to.index), next, {})
        /\ last' = IF known # {} THEN Nothing
                   ELSE [op |-> "drop", doc |-> Target, moved |-> TopLevel(Tree, ids),
                         alone |-> Len(ids) = 1, over |-> over, zone |-> zone]
        /\ UNCHANGED <<mode, clipboard>>

\* updateNodeProps on an outlet's slotName.  Given a name of its own, an
\* outlet keeps what the pages put in it.
RenameOutlet(id, name) ==
    LET others == {o \in Ids \ {id} : Tree.nodes[o].moduleId = "slot-outlet"}
        taken == {Tree.nodes[o].slotName : o \in others}
    IN  /\ Edit
        /\ Tree.nodes[id].moduleId = "slot-outlet"
        /\ name # Tree.nodes[id].slotName
        /\ Commit([Tree EXCEPT !.nodes[id].slotName = name], next, {})
        /\ last' = IF taken \intersect {name, Tree.nodes[id].slotName} = {}
                   THEN Promise
                   ELSE Nothing
        /\ UNCHANGED <<mode, clipboard>>

-----------------------------------------------------------------------------
(* clipboardSlice.ts: from and to the page alone. *)

Copied(ids) ==
    TopLevel(Tree, Keep(ids, Ids \ {Tree.rootNodeId}))

CopyNodes(ids) ==
    /\ Edit
    /\ OnPage
    /\ Copied(ids) # <<>>
    /\ clipboard' = Snapshot(Tree, Copied(ids))
    /\ known' = known \union Spread(activePageId, Null)
    /\ last' = Nothing
    /\ UNCHANGED <<docs, mode, next>>

CutNodes(ids) ==
    /\ OnPage
    /\ Copied(ids) # <<>>
    /\ Edit
    /\ Commit(DeleteSubtrees(Tree, Copied(ids)), next,
              SlotSlips(ids) \union Spread(activePageId, Null))
    /\ clipboard' = Snapshot(Tree, Copied(ids))
    /\ last' = Nothing
    /\ UNCHANGED mode

\* The refs of a snapshot that the components have moved on from, or one of
\* whose slots was copied for itself.
Outdated ==
    {id \in DOMAIN clipboard.nodes :
        LET node == clipboard.nodes[id]
            nameOf(c) == IF Has(clipboard, c) THEN clipboard.nodes[c].slotName ELSE ""
        IN  /\ node.moduleId = "ref"
            /\ \/ node.componentId \notin Component
               \/ ToSet(node.children) \intersect ToSet(clipboard.rootNodeIds) # {}
               \/ OutletNames(docs[node.componentId])
                    # [i \in DOMAIN node.children |-> nameOf(node.children[i])]}

\* Nothing checks the refs that come in, and all roots but the last keep the
\* parent they had where they were copied.
Paste(target) ==
    LET to == InsertLocation(Tree, target)
        roots == clipboard.rootNodeIds
        ids == DOMAIN clipboard.nodes
        stale == {i \in 1..(Len(roots) - 1) :
                     clipboard.nodes[roots[i]].parentId # to.parentId}
    IN  /\ Edit
        /\ OnPage
        /\ roots # <<>>
        /\ to.parentId # Null
        /\ ~(TreeHasOutlet(Tree) /\ TreeHasOutlet(clipboard))
        /\ Commit(PasteSnapshot(Tree, clipboard, to.parentId, to.index, next),
                  next + Cardinality(ids),
                  {<<"parent", FreshIds(ids, next)[roots[i]]>> : i \in stale}
                  \union {<<"slots", clipboard.nodes[r].componentId>> : r \in Outdated}
                  \union Spread(Null, activePageId))
        /\ last' = Nothing
        /\ UNCHANGED <<mode, clipboard>>

-----------------------------------------------------------------------------
(* visualComponentsSlice.ts *)

CreateComponent ==
    /\ Edit
    /\ docs' = With(docs, next, [rootNodeId |-> next + 1,
                                  nodes |-> [id \in {next + 1} |-> NewNode("body")]])
    /\ next' = next + 2
    /\ last' = Nothing
    /\ UNCHANGED <<mode, clipboard, known>>

\* (Slip: only the pages are searched for refs to it, not the components.)
DeleteFromPages(comp) ==
    LET left == [d \in DOMAIN docs \ {comp} |->
                    IF d \in Page THEN CascadeRemoveRefs(docs[d], comp) ELSE docs[d]]
    IN  /\ Edit
        /\ docs' = left
        /\ activeDocument' = IF activeDocument = comp THEN Null ELSE activeDocument
        /\ last' = Nothing
        /\ UNCHANGED <<activePageId, inlineRef, clipboard, next, known>>

\* (Slip: the component stays open.)
DeleteOpenComponent(comp) ==
    LET left == [d \in DOMAIN docs \ {comp} |-> CascadeRemoveRefs(docs[d], comp)]
    IN  /\ Edit
        /\ docs' = left
        /\ known' = known \union {<<"slots", c>> : c \in OutletsChanged(docs, left)}
        /\ last' = Nothing
        /\ UNCHANGED <<mode, clipboard, next>>

\* With every ref to it, everywhere; the explorer closes it if it was open.
\* Outlets that go with a ref in another component are not swept.
DeleteComponent(comp) ==
    LET left == [d \in DOMAIN docs \ {comp} |-> CascadeRemoveRefs(docs[d], comp)]
    IN  /\ Edit
        /\ docs' = left
        /\ activeDocument' = IF activeDocument = comp THEN Null ELSE activeDocument
        /\ known' = known \union {<<"slots", c>> : c \in OutletsChanged(docs, left)}
        /\ last' = Nothing
        /\ UNCHANGED <<activePageId, inlineRef, clipboard, next>>

\* addParam, renameParam and removeParamWithCleanup of a slot parameter.
ChangeSlotParam(comp) ==
    LET swept == SyncAllRefs(docs, comp, next)
    IN  /\ Edit
        /\ activeDocument = comp
        /\ swept.docs # docs
        /\ docs' = swept.docs
        /\ next' = swept.next
        /\ known' = known \union
               {<<"slots", c>> : c \in OutletsChanged(docs, swept.docs)
                                   \union {c \in {comp} : NestedUse(docs, c)}}
        /\ last' = Nothing
        /\ UNCHANGED <<mode, clipboard>>

\* convertNodeToComponent: a subtree of the page becomes a component, a ref to
\* it takes its place, and the component is opened.
Convert(id) ==
    LET page == docs[activePageId]
        node == page.nodes[id]
        inside == {page.nodes[i].componentId :
                      i \in {i \in Subtree(page, id) : page.nodes[i].moduleId = "ref"}}
        comp == next
        ref == next + 1
        made == ExtractedComponent(page, id, next + 2)
    IN  /\ Edit
        /\ OnPage
        /\ node.moduleId \notin {"ref", "body", "slot-instance"}
        /\ inside \subseteq Component
        /\ SiblingAfter(page, id) # Nowhere
        /\ docs' = With([docs EXCEPT ![activePageId] = ReplacedByRef(page, id, comp, ref)],
                        comp, made)
        /\ next' = next + 3 + Cardinality(Subtree(page, id))
        /\ activeDocument' = comp
        /\ known' = known \union {<<"parent", ref>>}
                    \union {<<"slots", c>> : c \in {c \in {comp} : OutletNames(made) # <<>>}}
        /\ last' = Promise
        /\ UNCHANGED <<activePageId, inlineRef, clipboard>>

\* detachComponentRef: the component's nodes take the ref's place, filled with
\* the ref's content; the page is reindexed.
Detach(ref) ==
    LET page == docs[activePageId]
        comp == docs[page.nodes[ref].componentId]
        detached == DetachRef(page, ref, comp, next)
        outlets == {o \in DOMAIN comp.nodes : comp.nodes[o].moduleId = "slot-outlet"}
        twice == \E o, p \in outlets : o # p /\ comp.nodes[o].slotName = comp.nodes[p].slotName
    IN  /\ Edit
        /\ activeDocument = Null
        /\ Has(page, ref)
        /\ page.nodes[ref].moduleId = "ref"
        /\ page.nodes[ref].componentId \in Component
        /\ CanDetach(page, ref, comp)
        /\ docs' = [docs EXCEPT ![activePageId] = detached]
        /\ next' = next + Cardinality(DOMAIN Instantiated(page, ref, comp))
        /\ inlineRef' = Null
        /\ known' = known \union {<<"shared", p>> : p \in {p \in {activePageId} : twice}}
                    \union {<<"outlet", p>> : p \in
                        {p \in {activePageId} : TreeHasOutlet(page) /\ TreeHasOutlet(comp)}}
        /\ last' = Promise
        /\ UNCHANGED <<activePageId, activeDocument, clipboard>>

-----------------------------------------------------------------------------
(* canvasSlice.ts, uiSlice.ts: what is open. *)

\* Nothing that is opened after the last edit (MaxEdits) matters.
Navigating == edits < MaxEdits /\ last' = Nothing /\ UNCHANGED edits

OpenComponent(comp) ==
    /\ Navigating
    /\ activeDocument # comp
    /\ activeDocument' = comp
    /\ inlineRef' = Null
    /\ UNCHANGED <<docs, activePageId, clipboard, next, known>>

\* exitVisualComponentMode.  (The page it returns to is the active one still: to
\* open another page closes the component.)
ExitComponent ==
    /\ Navigating
    /\ activeDocument # Null
    /\ activeDocument' = Null
    /\ inlineRef' = Null
    /\ UNCHANGED <<docs, activePageId, clipboard, next, known>>

StartInlineEdit(ref) ==
    LET page == docs[activePageId]
    IN  /\ Navigating
        /\ activeDocument = Null
        /\ Has(page, ref)
        /\ page.nodes[ref].moduleId = "ref"
        /\ page.nodes[ref].componentId \in Component
        /\ inlineRef # ref
        /\ inlineRef' = ref
        /\ UNCHANGED <<docs, activePageId, activeDocument, clipboard, next, known>>

EndInlineEdit ==
    /\ Navigating
    /\ inlineRef # Null
    /\ inlineRef' = Null
    /\ UNCHANGED <<docs, activePageId, activeDocument, clipboard, next, known>>

\* The ref edited inline is not forgotten, and still is when its page is reopened.
OpenPageInCanvas(page) ==
    /\ Navigating
    /\ page # activePageId \/ activeDocument # Null
    /\ activePageId' = page
    /\ activeDocument' = Null
    /\ UNCHANGED <<docs, inlineRef, clipboard, next, known>>

EditTree ==
    \/ \E target \in Ids, module \in Module : InsertModule(target, module)
    \/ \E target \in Ids, comp \in Component : InsertComponentRef(target, comp)
    \/ \E ids \in Selection : DeleteNodes(ids)
    \/ \E ids \in Selection : DuplicateNodes(ids)
    \/ \E ids \in Selection : Wrap(ids)
    \/ /\ edits < MaxEdits
       /\ \E ids \in Selection : \E dragged \in ToSet(ids), over \in Ids, zone \in Zone :
              Drop(ids, dragged, over, zone)
    \/ \E id \in Ids, name \in SlotName : RenameOutlet(id, name)
    \/ \E ids \in Selection : CopyNodes(ids)
    \/ \E ids \in Selection : CutNodes(ids)
    \/ \E target \in Ids : Paste(target)

EditComponents ==
    \/ CreateComponent
    \/ \E comp \in Component : DeleteComponent(comp)
    \/ \E comp \in Component : ChangeSlotParam(comp)
    \/ \E id \in DOMAIN docs[activePageId].nodes : Convert(id)
    \/ \E ref \in DOMAIN docs[activePageId].nodes : Detach(ref)

Navigate ==
    \/ \E comp \in Component : OpenComponent(comp)
    \/ ExitComponent
    \/ \E ref \in DOMAIN docs[activePageId].nodes : StartInlineEdit(ref)
    \/ EndInlineEdit
    \/ \E page \in Page : OpenPageInCanvas(page)

Next == EditTree \/ EditComponents \/ Navigate

Spec == Init /\ [][Next]_vars

-----------------------------------------------------------------------------
\* baseNode.ts:74-81, selectors.ts:41-48: parentId is maintained by every edit,
\* also through copies, cascades and sweeps of other documents: whoever lists a
\* node is whom it names, unless a conversion or a paste left it stale.
ParentIndex ==
    Hit("parent") = {} =>
    \A d \in DOMAIN docs \ Hit("shared") : \A p \in DOMAIN docs[d].nodes :
        \A c \in ToSet(docs[d].nodes[p].children) :
            Has(docs[d], c) => docs[d].nodes[c].parentId = p

\* Every document stays one tree: no node is out of the root's reach, listed
\* twice or above itself, and no list names a node that is gone.  A stale parent
\* leads edits astray, and a sweep leaves slots of refs it has just removed.
IsTree ==
    Hit("parent") = {} =>
    \A d \in DOMAIN docs \ Hit("shared") :
        LET nodes == docs[d].nodes
            reached == CollectSubtreeIds(docs[d], docs[d].rootNodeId)
            listed == FlattenSeq([i \in DOMAIN reached |-> nodes[reached[i]].children])
        IN  /\ ToSet(reached) = DOMAIN nodes \/ Hit("slots") # {}
            /\ ToSet(listed) = ToSet(reached) \ {docs[d].rootNodeId}
            /\ Len(listed) = Len(reached) - 1

\* vcSlotReconcile.ts: every ref, in pages and components, has exactly the slots
\* of its component's outlets, in their order, whoever changed them and from
\* where.
SlotsMatch ==
    \A d \in DOMAIN docs : \A c \in Component \ Hit("slots") :
        \A r \in Refs(docs[d], c) :
            LET nodes == docs[d].nodes
                kids == nodes[r].children
                names == OutletNames(docs[c])
            IN  /\ Len(kids) = Len(names)
                /\ \A i \in DOMAIN kids :
                     /\ nodes[kids[i]].moduleId = "slot-instance"
                     /\ nodes[kids[i]].slotName = names[i]

\* Every ref has a component to show: deleting one takes all refs with it, in
\* other components too.  A clipboard may bring one back that has none.
RefsResolve ==
    \A d \in DOMAIN docs :
        ReferencedComponentIds(docs[d]) \subseteq Component \union Hit("slots")

\* recursionGuard.ts: no component contains itself, directly or through others,
\* so the publisher's expansion ends.
NoComponentInItself ==
    Hit("cycle") = {} =>
        \A c \in Component : c \notin TransitivelyReachable(docs, c)

\* A document keeps at most one content outlet through inserts, copies, pastes
\* and conversions.
OneContentOutlet ==
    Hit("outlet") = {} =>
    \A d \in DOMAIN docs : Cardinality(ContentOutlets(docs[d])) <= 1

\* dnd.ts and moveNodes together: what is dragged lands where the pointer was,
\* right before or after the node it was over or last inside it, and several
\* stay together in their order.  (Only the grabbed node's own place is
\* subtracted: of several, only that they arrive together is promised.)
DropLands ==
    last.op = "drop" =>
        LET nodes == docs[last.doc].nodes
            moved == last.moved
            lists(kids, seq) == \E i \in 0..(Len(kids) - Len(seq)) :
                                    SubSeq(kids, i + 1, i + Len(seq)) = seq
            lands(kids) == CASE last.zone = "before" -> lists(kids, moved \o <<last.over>>)
                             [] last.zone = "after" -> lists(kids, <<last.over>> \o moved)
                             [] last.zone = "inside" -> IsSuffix(moved, kids)
        IN  \E p \in DOMAIN nodes :
                LET kids == nodes[p].children
                IN  /\ IF last.zone = "inside" THEN p = last.over ELSE Contains(kids, last.over)
                    /\ IF last.alone THEN lands(kids) ELSE lists(kids, moved)

\* Making a component of a subtree, dissolving one into the page and renaming
\* an outlet change how the site is kept, not what any page shows.
LooksTheSame ==
    last.op = "same" =>
        \A p \in Page : Shown(docs, p) = last.shown[p]
=============================================================================
