------------------------------ MODULE MCEditor ------------------------------
(***************************************************************************)
(* Sites for Editor.  Pages 1 and 2; components 3 (a card with a slot) and *)
(* 4 (a section whose own slot sits inside the slot of a card in it).      *)
(***************************************************************************)
EXTENDS Editor

Body(kids) == [NewNode("body") EXCEPT !.children = kids]
Box(kids) == [NewNode("container") EXCEPT !.children = kids]
Text == NewNode("text")
Use(comp, kids) == [NewNode("ref") EXCEPT !.componentId = comp, !.children = kids]
Slot(name, kids) == [NewSlot(name, Null) EXCEPT !.children = kids]
Outlet(name) == [NewNode("slot-outlet") EXCEPT !.slotName = name]

MCTree(root, nodes) == [rootNodeId |-> root, nodes |-> ReindexNodeParents(nodes)]

Home == MCTree(10,
    10 :> Body(<<11, 14, 17>>)
    @@ 11 :> Box(<<12, 13>>) @@ 12 :> Text @@ 13 :> [Text EXCEPT !.locked = TRUE]
    @@ 14 :> Use(3, <<15>>) @@ 15 :> Slot("children", <<16>>) @@ 16 :> Text
    @@ 17 :> NewNode("outlet"))
About == MCTree(20, 20 :> Body(<<21>>) @@ 21 :> Use(4, <<22>>)
    @@ 22 :> Slot("children", <<23>>) @@ 23 :> Text)
Card == MCTree(30, 30 :> Body(<<31, 33>>)
    @@ 31 :> Box(<<32>>) @@ 32 :> Outlet("children") @@ 33 :> Text)
Section == MCTree(40, 40 :> Body(<<41>>) @@ 41 :> Use(3, <<42>>)
    @@ 42 :> Slot("children", <<43>>) @@ 43 :> Outlet("children"))

\* Component 3 again, with two slots, and used inside one of its own slots.
Nested == MCTree(10, 10 :> Body(<<11>>) @@ 11 :> Use(3, <<12, 16>>)
    @@ 12 :> Slot("children", <<13>>)
    @@ 13 :> Use(3, <<14, 15>>) @@ 14 :> Slot("children", <<>>) @@ 15 :> Slot("aside", <<>>)
    @@ 16 :> Slot("aside", <<17>>) @@ 17 :> Text)
Empty == MCTree(20, 20 :> Body(<<>>))
Media == MCTree(30, 30 :> Body(<<31, 33>>)
    @@ 31 :> Box(<<32>>) @@ 32 :> Outlet("children") @@ 33 :> Outlet("aside"))

MCSite == {<<1 :> Home @@ 2 :> About @@ 3 :> Card @@ 4 :> Section,
             Snapshot(Home, <<12, 16>>)>>,
           <<1 :> Nested @@ 2 :> Empty @@ 3 :> Media, Snapshot(Nested, <<>>)>>}
=============================================================================
