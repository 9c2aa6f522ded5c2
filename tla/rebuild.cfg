SPECIFICATION MCSpec
CONSTANTS
    Request = {r1, r2}
    Product = {p1, p2}
    Collection = {c1, c2}
    Slug = {"a", "b", "c"}
    NoSlug = NoSlug
    Page <- Pages
    Shows <- WhatPagesShow
    MaxWrites = 2
    MaxOverlaps = 1
    MaxFaults = 1
CONSTRAINT OneMishap
VIEW View
SYMMETRY Symmetry
INVARIANTS
    TypeOK
    StalePagesAreDue
    RedirectsLandInOneHop
