----------------------------- MODULE MCRebuild ------------------------------
EXTENDS Rebuild, TLC

Pages == {"home", "featured", "banner", "team"}
WhatPagesShow ==
    [home     |-> <<"products", NoSlug>>, featured |-> <<"members", "a">>,
     banner   |-> <<"card", "a">>,        team     |-> <<"data", "a">>]

\* The shop starts with one product, in its one collection.
MCInit ==
    /\ Init
    /\ LET p == CHOOSE p \in Product : TRUE
           c == CHOOSE c \in Collection : TRUE
       IN  /\ Products = {p} /\ product[p].slug = "a" /\ product[p].status = "active"
           /\ Collections = {c} /\ collection[c].slug = "a" /\ members[c] = {p}
           /\ table.slug = "a"
MCSpec == MCInit /\ [][Next]_vars

\* The slots' names do not matter, only which is live; nor, while no bake is
\* under way, what the other one holds, since a bake begins by emptying it.
View ==
    <<catalogue, redirect, files[live],
      IF \E r \in Request : Baking(r) THEN files[Other(live)] ELSE <<>>,
      [r \in Request |-> Baking(r) => bake[r].from = live],
      [r \in Request |-> <<bake[r].step, bake[r].of, bake[r].pages>>],
      index, job, missed, overlaps, writes, faults>>

Symmetry == Permutations(Request)

\* One fault, or two bakes that overlap once, but not both.
OneMishap == overlaps + faults <= 1
=============================================================================
