------------------------------ MODULE MCSession -----------------------------
EXTENDS Drafts, TLC

CONSTANTS shell, page, text, name

\* A text field changes the page; the name of an outlet, which is a slot's name,
\* changes the component, in the site's document, and the slots of the page.
MCTouchedBy == text :> {page} @@ name :> {shell, page}

Scenario(e, c, m, f, w, r, s) ==
    [edits |-> e, changes |-> c, mounts |-> m, faults |-> f, writes |-> w,
     refreshes |-> r, subscribed |-> s]

MCScenarios == {
    Scenario(4, 0, 1, 0, 0, 0, FALSE),  \* undo and redo alone
    Scenario(2, 3, 1, 1, 1, 0, TRUE),   \* a failing save, and another writer
    Scenario(1, 2, 2, 0, 2, 0, TRUE),   \* other writers; leaving or reloading
    Scenario(2, 3, 2, 1, 0, 0, TRUE),   \* leaving, with a failing save
    Scenario(1, 2, 2, 0, 1, 1, TRUE)}   \* a refresh after an agent's edit
=============================================================================
