------------------------------ MODULE History -------------------------------
(***************************************************************************)
(* The editor's undo (store/slices/site/collabBinding.ts, detached mode):  *)
(* every document has a Yjs undo manager of its own, with its own stacks,  *)
(* and a route remembers, edit by edit, which managers took a step, so     *)
(* that one Cmd+Z reverts an edit in all its documents.  Edits with the    *)
(* same key, such as the letters typed into one field, fold into one step. *)
(* Nothing but the route ties the stacks together.                         *)
(***************************************************************************)
EXTENDS Integers, Sequences, FiniteSets

CONSTANTS
    Doc,         \* the site's own document, pages and components
    Key,         \* coalescing keys: a field of a node
    NoKey,       \* no key: the edit is a step of its own
    TouchedBy,   \* Key -> the documents an edit with that key changes
    Interleaved, \* whether a burst may be taken up again after other edits
    MaxEdits     \* bound: edits; an edit's number stands for what it writes

ASSUME KeyAssumption == NoKey \notin Key
ASSUME TouchedAssumption == TouchedBy \in [Key -> (SUBSET Doc) \ {{}}]
ASSUME InterleavedAssumption == Interleaved \in BOOLEAN
ASSUME EditsAssumption == MaxEdits \in Nat

VARIABLES
    content,    \* document -> the edit that wrote what it holds
    undoStack,  \* document -> what its manager would put back
    redoStack,
    open,       \* its manager is capturing: lastChange > 0
    lastKey,    \* lastCoalesce: the key of its last edit
    undoRoute,  \* for each step, the documents that took it
    redoRoute,
    edits       \* edits so far (for MaxEdits)

stacks == <<undoStack, redoStack, open>>
routes == <<undoRoute, redoRoute>>
history == <<content, stacks, lastKey, routes, edits>>

Elsewhere == MaxEdits + 1    \* what another writer wrote
Value == 0..Elsewhere

HistoryTypeOK ==
    /\ content \in [Doc -> Value]
    /\ undoStack \in [Doc -> Seq(Value)]
    /\ redoStack \in [Doc -> Seq(Value)]
    /\ open \in [Doc -> BOOLEAN]
    /\ lastKey \in [Doc -> Key \union {NoKey}]
    /\ undoRoute \in Seq((SUBSET Doc) \ {{}})
    /\ redoRoute \in Seq((SUBSET Doc) \ {{}})
    /\ edits \in 0..MaxEdits

HistoryInit ==
    /\ content = [d \in Doc |-> 0]
    /\ undoStack = [d \in Doc |-> <<>>]
    /\ redoStack = [d \in Doc |-> <<>>]
    /\ open = [d \in Doc |-> FALSE]
    /\ lastKey = [d \in Doc |-> NoKey]
    /\ undoRoute = <<>>
    /\ redoRoute = <<>>
    /\ edits = 0

Top(s)  == s[Len(s)]
Pop(s)  == SubSeq(s, 1, Len(s) - 1)

-----------------------------------------------------------------------------
\* applyLocalSitePatches: a document whose last edit had this key, and whose
\* manager has not been stopped by an undo since, folds the edit into its
\* newest step; the others take a step, and form the route's new group.
Folds(d, key) ==
    /\ key # NoKey
    /\ lastKey[d] = key
    /\ open[d]
    /\ undoStack[d] # <<>>

\* A burst is resumed while its group is the newest on the route (constant
\* Interleaved), and all documents of an edit fold or none does.
Undivided(key, touched) ==
    LET folding == {d \in touched : Folds(d, key)}
    IN  folding # {} => /\ folding = touched
                        /\ undoRoute # <<>> /\ Top(undoRoute) = touched

\* (Slip: an edit is routed to its first document alone.)
RoutedToPrimary(grew) ==
    /\ undoRoute' = IF grew = {} THEN undoRoute
                    ELSE Append(undoRoute, {CHOOSE d \in grew : TRUE})
    /\ redoRoute' = IF grew = {} THEN redoRoute ELSE <<>>

\* (Slip: an edit that only folds is routed too.)
RoutedAlways(grew) ==
    /\ undoRoute' = Append(undoRoute, grew)
    /\ redoRoute' = <<>>

Routed(grew) ==
    /\ undoRoute' = IF grew = {} THEN undoRoute ELSE Append(undoRoute, grew)
    /\ redoRoute' = IF grew = {} THEN redoRoute ELSE <<>>

Apply(key, touched) ==
    LET grew == {d \in touched : ~Folds(d, key)}
    IN  /\ edits < MaxEdits
        /\ Interleaved \/ Undivided(key, touched)
        /\ edits' = edits + 1
        /\ content' = [d \in Doc |-> IF d \in touched THEN edits + 1 ELSE content[d]]
        /\ undoStack' = [d \in Doc |-> IF d \in grew THEN Append(undoStack[d], content[d])
                                       ELSE undoStack[d]]
        /\ redoStack' = [d \in Doc |-> IF d \in touched THEN <<>> ELSE redoStack[d]]
        /\ open' = [d \in Doc |-> d \in touched \/ open[d]]
        /\ lastKey' = [d \in Doc |-> IF d \in touched THEN key ELSE lastKey[d]]
        /\ Routed(grew)

EditDocs ==
    \/ \E touched \in (SUBSET Doc) \ {{}} : Apply(NoKey, touched)
    \/ \E key \in Key : Apply(key, TouchedBy[key])

\* collabBreakCoalescing: an inline editing session begins or ends.
BreakCoalescing ==
    /\ lastKey # [d \in Doc |-> NoKey]
    /\ lastKey' = [d \in Doc |-> NoKey]
    /\ UNCHANGED <<content, stacks, routes, edits>>

\* (Slip: typing goes on folding into the newest step that is left.)
KeepsCapturing(undone) == UNCHANGED <<open, lastKey>>

\* An undo ends the bursts, and its managers stop capturing.
StopsCapturing(undone) ==
    /\ open' = [d \in Doc |-> d \notin undone /\ open[d]]
    /\ lastKey' = [d \in Doc |-> NoKey]

\* collabUndo.  (It would go on to the next group if no manager of this one
\* had anything to undo; RouteMatchesStacks says that does not happen.)
Undo ==
    LET group == Top(undoRoute)
        undone == {d \in group : undoStack[d] # <<>>}
    IN  /\ undoRoute # <<>>
        /\ content' = [d \in Doc |-> IF d \in undone THEN Top(undoStack[d]) ELSE content[d]]
        /\ undoStack' = [d \in Doc |-> IF d \in undone THEN Pop(undoStack[d])
                                       ELSE undoStack[d]]
        /\ redoStack' = [d \in Doc |-> IF d \in undone THEN Append(redoStack[d], content[d])
                                       ELSE redoStack[d]]
        /\ StopsCapturing(undone)
        /\ undoRoute' = Pop(undoRoute)
        /\ redoRoute' = Append(redoRoute, group)
        /\ UNCHANGED edits

\* collabRedo
Redo ==
    LET group == Top(redoRoute)
        redone == {d \in group : redoStack[d] # <<>>}
    IN  /\ redoRoute # <<>>
        /\ content' = [d \in Doc |-> IF d \in redone THEN Top(redoStack[d]) ELSE content[d]]
        /\ redoStack' = [d \in Doc |-> IF d \in redone THEN Pop(redoStack[d])
                                       ELSE redoStack[d]]
        /\ undoStack' = [d \in Doc |-> IF d \in redone THEN Append(undoStack[d], content[d])
                                       ELSE undoStack[d]]
        /\ lastKey' = [d \in Doc |-> NoKey]
        /\ redoRoute' = Pop(redoRoute)
        /\ undoRoute' = Append(undoRoute, group)
        /\ UNCHANGED <<open, edits>>

\* resetCollabDocsFromSite: another site is loaded, its history starts anew.
Load(version) ==
    /\ content' = version
    /\ undoStack' = [d \in Doc |-> <<>>]
    /\ redoStack' = [d \in Doc |-> <<>>]
    /\ open' = [d \in Doc |-> FALSE]
    /\ lastKey' = [d \in Doc |-> NoKey]
    /\ undoRoute' = <<>>
    /\ redoRoute' = <<>>
    /\ UNCHANGED edits

Change == EditDocs \/ Undo \/ Redo

HistoryNext == Change \/ BreakCoalescing \/ \E version \in [Doc -> Value] : Load(version)

HistorySpec == HistoryInit /\ [][HistoryNext]_history

-----------------------------------------------------------------------------
\* How many of the groups from i on have d in them.
Steps(route, i, d) == Cardinality({j \in i..Len(route) : d \in route[j]})

\* The route and the managers agree: what Cmd+Z will ask of a document's manager
\* is exactly what that manager has, so an undo reverts an edit in all its
\* documents and in no other, however steps, folds, undos and redos mixed.
RouteMatchesStacks ==
    \A d \in Doc : /\ Len(undoStack[d]) = Steps(undoRoute, 1, d)
                   /\ Len(redoStack[d]) >= Steps(redoRoute, 1, d)

\* The versions the stacks hold, seen as one line of versions of the site: d,
\* as it was before the i-th group, is what its manager put aside at the first
\* group from i on that it was part of, or is as it is now.
Versions(route, stack) ==
    [i \in 1..Len(route) |->
        [d \in Doc |-> LET n == Steps(route, i, d)
                       IN  IF n = 0 \/ n > Len(stack[d]) THEN content[d]
                           ELSE stack[d][Len(stack[d]) - n + 1]]]

OneTimeline == INSTANCE Timeline
                 WITH past <- Versions(undoRoute, undoStack),
                      future <- Versions(redoRoute, redoStack)

\* collabBinding.ts:23-28: to the user the managers and the route together are
\* one line of versions (as long as bursts are not interleaved).
UndoIsLinear == OneTimeline!Spec
=============================================================================
