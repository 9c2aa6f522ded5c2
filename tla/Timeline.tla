------------------------------ MODULE Timeline ------------------------------
(***************************************************************************)
(* What undo promises the person at the editor, whatever documents an edit *)
(* touches: one line of versions of the whole site.  An edit adds a        *)
(* version, or, in a burst such as typing, replaces the newest; undo and   *)
(* redo go back and forth by one version; loading a site starts anew.      *)
(***************************************************************************)
EXTENDS Integers, Sequences

CONSTANTS Doc, Value

VARIABLES
    past,     \* the versions undo leads back to, the nearest last
    content,  \* what the editor shows
    future    \* the versions redo leads to, the nearest last

vars == <<past, content, future>>

Version == [Doc -> Value]

TypeOK ==
    /\ past \in Seq(Version)
    /\ content \in Version
    /\ future \in Seq(Version)

Init == past = <<>> /\ content \in Version /\ future = <<>>

Step ==
    /\ content' \in Version
    /\ past' = Append(past, content)
    /\ future' = <<>>

Fold ==
    /\ past # <<>>
    /\ future = <<>>
    /\ content' \in Version
    /\ UNCHANGED <<past, future>>

Undo ==
    /\ past # <<>>
    /\ content' = past[Len(past)]
    /\ past' = SubSeq(past, 1, Len(past) - 1)
    /\ future' = Append(future, content)

Redo ==
    /\ future # <<>>
    /\ content' = future[Len(future)]
    /\ future' = SubSeq(future, 1, Len(future) - 1)
    /\ past' = Append(past, content)

Load ==
    /\ content' \in Version
    /\ past' = <<>>
    /\ future' = <<>>

Next == Step \/ Fold \/ Undo \/ Redo \/ Load

Spec == Init /\ [][Next]_vars
=============================================================================
