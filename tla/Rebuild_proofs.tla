--------------------------- MODULE Rebuild_proofs ---------------------------
(***************************************************************************)
(* For any requests, products, collections, slugs, pages and bounds: the   *)
(* types, of what overlapping bakes leave too; that a redirect leads to    *)
(* its thing in one hop; and that while bakes do not overlap, a stale page *)
(* is still to be baked or among those a write is known to leave behind.   *)
(***************************************************************************)
EXTENDS Rebuild, FiniteSetTheorems, SequenceTheorems, TLAPS

\* The tasks a request can hold, and the invariant of the tables' rows, of
\* the site's slots and index, of the bakes and of the jobs.
Slugged == {"product", "collection"} \X Slug

Task ==
    [do : {"product"}, id : Product, slug : Slug, active : BOOLEAN, old : Slug]
        \union [do : {"collection"}, slug : Slug, old : Slug]
        \union [do : {"load product"}, id : Product]
        \union [do : {"load collection"}, id : Collection]
        \union [do : {"table"}, slug : Slug]
        \union [do : {"paths"}, paths : SUBSET Path]
        \union [do : {"publish"}]
        \union [do : {"found"}, paths : SUBSET Path, dropped : SUBSET Slugged]
        \union [do : {"destroy product"}, id : Product, paths : SUBSET Path]
        \union [do : {"destroy collection"}, id : Collection, paths : SUBSET Path]

Destroys == {"destroy product", "destroy collection"}

IsPage(page) == page = [shows |-> page.shows, ids |-> page.ids, srcs |-> page.srcs]

\* What the page of the site's page g loops.
SrcsOf(g) == IF Shows[g][1] = "card" THEN {} ELSE {Shows[g]}

RowsOK ==
    /\ product \in [Product -> [slug : Slug \union {NoSlug},
                                status : Status \union {"unborn", "gone"}, version : Nat]]
    /\ collection \in [Collection -> [slug : Slug \union {NoSlug},
                                      status : Status \union {"unborn", "gone"}, version : Nat]]
    /\ OneOwner(product, Products) /\ OneOwner(collection, Collections)
    /\ \A p \in Products : product[p].slug # NoSlug
    /\ \A c \in Collections : collection[c].slug # NoSlug
    /\ members \in [Collection -> SUBSET Product]
    /\ \A c \in Collection : members[c] \subseteq (IF c \in Collections THEN Products ELSE {})

TablesOK ==
    /\ table \in [slug : Slug \union {NoSlug}, rows : Nat]
    /\ redirect \in [{"product", "collection"} -> [Slug -> Slug \union {NoSlug}]]

SiteOK ==
    /\ DOMAIN files = Slot /\ \A slot \in Slot : DOMAIN files[slot] = Path
    /\ live \in Slot
    /\ index \in [Path -> [ids : SUBSET Products, srcs : SUBSET Source]]
    /\ \A g \in Page : index[<<"page", g>>].srcs = SrcsOf(g)

\* The products destroyed, and the pages a bake holds: they may still list
\* products that were.
Lost == {p \in Product : product[p] = Gone}

HeldPages(pages) ==
    /\ DOMAIN pages \subseteq Path
    /\ \A path \in DOMAIN pages :
          /\ IsPage(pages[path])
          /\ pages[path].ids \subseteq Products \union Lost
          /\ pages[path].srcs \subseteq Source
    /\ \A g \in Page : <<"page", g>> \in DOMAIN pages => pages[<<"page", g>>].srcs = SrcsOf(g)

IsBake(b) ==
    /\ b = [step |-> b.step, of |-> b.of, from |-> b.from, pages |-> b.pages]
    /\ b.step \in {"none", "found", "copied", "rendered", "flipped"}
    /\ b.step = "none" => b = NoBake
    /\ b.step \in {"found", "copied"} => b.pages = NoPages
    /\ b.from \in Slot

BakesOK ==
    /\ DOMAIN bake = Request
    /\ \A r \in Request : IsBake(bake[r]) /\ HeldPages(bake[r].pages)

JobsOK ==
    /\ job \in [Request -> Seq(Task)]
    /\ \A r \in Request : \A i \in 1 .. Len(job[r]) :
          job[r][i].do \in Destroys => Len(job[r]) = 1

\* A bake that has rendered nothing yet has its pages in its request's task.
Finding(r) == bake[r].step \in {"found", "copied"}

Linked(b, tasks) ==
    b.step \in {"found", "copied"} =>
        LET task == Head(tasks) IN
        /\ tasks # <<>> /\ task.do = "found"
        /\ b.of = "publish" => task.paths = Path /\ task.dropped = {}
        /\ b.of = "table" => task.dropped = {}

LinksOK == \A r \in Request : Linked(bake[r], job[r])

CountsOK ==
    /\ missed \subseteq Path
    /\ overlaps \in 0 .. MaxOverlaps
    /\ writes \in 0 .. MaxWrites
    /\ faults \in 0 .. MaxFaults

BaseInv == RowsOK /\ TablesOK /\ SiteOK /\ BakesOK /\ JobsOK /\ LinksOK /\ CountsOK

-----------------------------------------------------------------------------
\* Paths and sources.
LEMMA PathCases ==
    ASSUME NEW path \in Path
    PROVE  \/ \E s \in Slug : path = <<"product", s>>
           \/ \E s \in Slug : path = <<"collection", s>>
           \/ \E g \in Page : path = <<"page", g>>
  BY DEF Path

LEMMA PathsAre ==
    /\ \A s \in Slug : <<"product", s>> \in Path /\ <<"collection", s>> \in Path
    /\ \A g \in Page : <<"page", g>> \in Path
  BY DEF Path

LEMMA PathsDiffer ==
    /\ \A s, t : <<"product", s>> # <<"collection", t>> /\ <<"product", s>> # <<"page", t>>
                  /\ <<"collection", s>> # <<"page", t>>
    /\ \A s, t : <<"product", s>> = <<"product", t>> => s = t
    /\ \A s, t : <<"collection", s>> = <<"collection", t>> => s = t
    /\ \A s, t : <<"page", s>> = <<"page", t>> => s = t
  OBVIOUS

LEMMA SourcesDiffer ==
    /\ \A s, t : <<"members", s>> = <<"members", t>> => s = t
    /\ \A s, t : <<"card", s>> = <<"card", t>> => s = t
    /\ \A s, t : <<"data", s>> = <<"data", t>> => s = t
  OBVIOUS

LEMMA SourceCases ==
    ASSUME NEW source \in Source
    PROVE  \/ source = <<"products", NoSlug>>
           \/ \E s \in Slug : source = <<"members", s>>
           \/ \E s \in Slug : source = <<"data", s>>
           \/ \E s \in Slug : source = <<"card", s>>
  BY DEF Source

\* What Render makes of each kind of path.
LEMMA RenderPage ==
    ASSUME NEW g
    PROVE  Render(<<"page", g>>) = SitePage(g)
  BY DEF Render

LEMMA RenderNoProduct ==
    ASSUME NEW s, ProductAt(s) = {}
    PROVE  Render(<<"product", s>>) = Nothing
  BY DEF Render

LEMMA RenderProduct ==
    ASSUME NEW s, NEW p \in ProductAt(s), OneOwner(product, Products)
    PROVE  Render(<<"product", s>>) = ProductPage(p)
  <1>1. ProductAt(s) = {p}
    BY DEF ProductAt, OneOwner, Products, Active, Live
  <1>2. {ProductPage(q) : q \in ProductAt(s)} = {ProductPage(p)}
    BY <1>1
  <1>3. <<"product", s>>[1] = "product" /\ <<"product", s>>[2] = s
    OBVIOUS
  <1> QED
    BY <1>2, <1>3 DEF Render

LEMMA RenderNoCollection ==
    ASSUME NEW s, CollectionAt(s) = {}
    PROVE  Render(<<"collection", s>>) = Nothing
  BY DEF Render

LEMMA RenderCollection ==
    ASSUME NEW s, NEW c \in CollectionAt(s), OneOwner(collection, Collections)
    PROVE  Render(<<"collection", s>>) = CollectionPage(c)
  <1>1. CollectionAt(s) = {c}
    BY DEF CollectionAt, OneOwner
  <1>2. {CollectionPage(d) : d \in CollectionAt(s)} = {CollectionPage(c)}
    BY <1>1
  <1>3. <<"collection", s>>[1] = "collection" /\ <<"collection", s>>[2] = s
    OBVIOUS
  <1> QED
    BY <1>2, <1>3 DEF Render

LEMMA HomesAreCollections ==
    ASSUME RowsOK, NEW p, NEW c \in Homes(p)
    PROVE  c \in Collections /\ c \in Collection /\ p \in members[c]
  BY DEF RowsOK, Homes, Collections

LEMMA SlugsOfCollections ==
    ASSUME RowsOK, NEW c \in Collections
    PROVE  collection[c].slug \in Slug
  BY DEF RowsOK, Collections

LEMMA SlugsOfProducts ==
    ASSUME RowsOK, NEW p \in Products
    PROVE  product[p].slug \in Slug /\ p \in Product
  BY DEF RowsOK, Products

LEMMA ActiveAreProducts ==
    ASSUME RowsOK
    PROVE  Active \subseteq Products
  BY DEF Active, Products, Live, RowsOK

LEMMA ListedActive ==
    ASSUME NEW source
    PROVE  Listed(source) \subseteq Active
  BY DEF Listed, ActiveIn, ProductAt

LEMMA RenderOK ==
    ASSUME RowsOK, NEW path \in Path
    PROVE  /\ IsPage(Render(path))
           /\ Render(path).ids \subseteq Active
           /\ Render(path).srcs \subseteq Source
  <1>1. CASE \E g \in Page : path = <<"page", g>>
    <2>1. PICK g \in Page : path = <<"page", g>>
      BY <1>1
    <2>2. Shows[g] \in Source
      BY PagesAssumption
    <2>3. Listed(Shows[g]) \subseteq Active
      BY ListedActive
    <2>4. Render(path) = SitePage(g)
      BY <2>1, RenderPage
    <2>5. IsPage(SitePage(g))
      BY DEF SitePage, IsPage
    <2>6. SitePage(g).ids \subseteq Active /\ SitePage(g).srcs \subseteq Source
      BY <2>2, <2>3 DEF SitePage
    <2> QED
      BY <2>4, <2>5, <2>6
  <1>2. CASE \E s \in Slug : path = <<"product", s>>
    <2>1. PICK s \in Slug : path = <<"product", s>>
      BY <1>2
    <2>2. CASE ProductAt(s) = {}
      BY <2>1, <2>2, RenderNoProduct DEF Nothing, IsPage
    <2>3. CASE ProductAt(s) # {}
      <3>1. PICK p \in ProductAt(s) : TRUE
        BY <2>3
      <3>2. Render(path) = ProductPage(p)
        BY <2>1, <3>1, RenderProduct DEF RowsOK
      <3>3. \A c \in Homes(p) : <<"members", collection[c].slug>> \in Source
        BY HomesAreCollections, SlugsOfCollections DEF Source
      <3>4. {p} \union Related(p) \subseteq Active
        BY <3>1 DEF Related, ActiveIn, ProductAt
      <3> QED
        BY <3>2, <3>3, <3>4 DEF ProductPage, IsPage
    <2> QED
      BY <2>2, <2>3
  <1>3. CASE \E s \in Slug : path = <<"collection", s>>
    <2>1. PICK s \in Slug : path = <<"collection", s>>
      BY <1>3
    <2>2. CASE CollectionAt(s) = {}
      BY <2>1, <2>2, RenderNoCollection DEF Nothing, IsPage
    <2>3. CASE CollectionAt(s) # {}
      <3>1. PICK c \in CollectionAt(s) : TRUE
        BY <2>3
      <3>2. Render(path) = CollectionPage(c)
        BY <2>1, <3>1, RenderCollection DEF RowsOK
      <3>3. <<"members", collection[c].slug>> \in Source
        BY <3>1, SlugsOfCollections DEF CollectionAt, Source
      <3> QED
        BY <3>2, <3>3 DEF CollectionPage, IsPage, ActiveIn
    <2> QED
      BY <2>2, <2>3
  <1> QED
    BY <1>1, <1>2, <1>3, PathCases

-----------------------------------------------------------------------------
\* What a task is to bake, and the page it drops.
DueFor(task) == Targets(baked, task) \union OldPath(task)

LEMMA TasksMade ==
    /\ \A p \in Product, s \in Slug, old \in Slug : \A status, version :
          OfProduct(p, [slug |-> s, status |-> status, version |-> version], old) \in Task
    /\ \A s \in Slug, old \in Slug : OfCollection(s, old) \in Task
    /\ \A p \in Product : LoadProduct(p) \in Task
    /\ \A c \in Collection : LoadCollection(c) \in Task
    /\ \A s \in Slug : OfTable(s) \in Task
    /\ \A paths \in SUBSET Path : OfPaths(paths) \in Task
    /\ OfSite \in Task
    /\ \A paths \in SUBSET Path, dropped \in SUBSET Slugged : Found(paths, dropped) \in Task
    /\ \A p \in Product, paths \in SUBSET Path : Destroy("destroy product", p, paths) \in Task
    /\ \A c \in Collection, paths \in SUBSET Path : Destroy("destroy collection", c, paths) \in Task
  BY DEF OfProduct, OfCollection, LoadProduct, LoadCollection, OfTable, OfPaths, OfSite, Found, Destroy,
         Task

LEMMA TasksKinds ==
    /\ \A p, row, old : OfProduct(p, row, old).do \notin Destroys
    /\ \A s, old : OfCollection(s, old).do \notin Destroys
    /\ \A p : LoadProduct(p).do \notin Destroys
    /\ \A c : LoadCollection(c).do \notin Destroys
    /\ \A s : OfTable(s).do \notin Destroys
    /\ \A paths : OfPaths(paths).do \notin Destroys
    /\ OfSite.do \notin Destroys
    /\ \A paths, dropped : Found(paths, dropped).do \notin Destroys
  BY DEF OfProduct, OfCollection, LoadProduct, LoadCollection, OfTable, OfPaths, OfSite, Found, Destroys

LEMMA TaskCases ==
    ASSUME NEW t \in Task
    PROVE  \/ t.do = "product" /\ t.id \in Product /\ t.slug \in Slug /\ t.active \in BOOLEAN /\ t.old \in Slug
           \/ t.do = "collection" /\ t.slug \in Slug /\ t.old \in Slug
           \/ t.do = "load product" /\ t.id \in Product
           \/ t.do = "load collection" /\ t.id \in Collection
           \/ t.do = "table" /\ t.slug \in Slug
           \/ t.do = "paths" /\ t.paths \subseteq Path
           \/ t.do = "publish"
           \/ t.do = "found" /\ t.paths \subseteq Path /\ t.dropped \subseteq Slugged
           \/ t.do = "destroy product" /\ t.id \in Product /\ t.paths \subseteq Path
           \/ t.do = "destroy collection" /\ t.id \in Collection /\ t.paths \subseteq Path
  BY DEF Task

\* The index finds the page for p.
Finds(path, p) ==
    \/ p \in baked[path].ids
    \/ <<"products", NoSlug>> \in baked[path].srcs
    \/ \E c \in Homes(p) : <<"members", collection[c].slug>> \in baked[path].srcs

LEMMA ProductTargets ==
    ASSUME NEW p, NEW s, NEW path
    PROVE  /\ path \in TargetsOfProduct(baked, p, s, FALSE) <=> path \in Path /\ Finds(path, p)
           /\ path \in TargetsOfProduct(baked, p, s, TRUE)
                 <=> (path \in Path /\ Finds(path, p)) \/ path = <<"product", s>>
  <1> DEFINE listing == {x \in Path : p \in baked[x].ids}
             selling == Loops(baked, <<"products", NoSlug>>)
             looping == UNION {Loops(baked, <<"members", collection[c].slug>>) : c \in Homes(p)}
  <1>1. path \in looping <=> \E c \in Homes(p) : path \in Loops(baked, <<"members", collection[c].slug>>)
    OBVIOUS
  <1>2. path \in looping
           <=> path \in Path /\ \E c \in Homes(p) : <<"members", collection[c].slug>> \in baked[path].srcs
    BY <1>1 DEF Loops
  <1>3. path \in selling <=> path \in Path /\ <<"products", NoSlug>> \in baked[path].srcs
    BY DEF Loops
  <1>4. path \in listing <=> path \in Path /\ p \in baked[path].ids
    OBVIOUS
  <1>5. path \in listing \union selling \union looping <=> path \in Path /\ Finds(path, p)
    <2> HIDE DEF listing, selling, looping
    <2>1. path \in listing \union selling \union looping <=> path \in listing \/ path \in selling \/ path \in looping
      OBVIOUS
    <2> QED
      BY <1>2, <1>3, <1>4, <2>1, Zenon DEF Finds
  <1>6. TargetsOfProduct(baked, p, s, FALSE) = listing \union selling \union looping
    BY DEF TargetsOfProduct
  <1>7. TargetsOfProduct(baked, p, s, TRUE) = listing \union selling \union looping \union {<<"product", s>>}
    BY DEF TargetsOfProduct
  <1> HIDE DEF listing, selling, looping
  <1>8. path \in TargetsOfProduct(baked, p, s, FALSE) <=> path \in Path /\ Finds(path, p)
    BY <1>5, <1>6, Zenon
  <1>9. path \in TargetsOfProduct(baked, p, s, TRUE)
                 <=> (path \in Path /\ Finds(path, p)) \/ path = <<"product", s>>
    BY <1>5, <1>7, Zenon
  <1> QED
    BY <1>8, <1>9

LEMMA ActiveTargets ==
    ASSUME NEW p, NEW s, NEW paths, paths = TargetsOfProduct(baked, p, s, TRUE), NEW path
    PROVE  path \in paths <=> (path \in Path /\ Finds(path, p)) \/ path = <<"product", s>>
  <1>1. path \in TargetsOfProduct(baked, p, s, TRUE)
              <=> (path \in Path /\ Finds(path, p)) \/ path = <<"product", s>>
    BY ProductTargets
  <1> QED
    BY <1>1, Zenon

LEMMA NotIn ==
    ASSUME NEW p, p \notin Active
    PROVE  (p \in Active) = FALSE
  OBVIOUS

LEMMA CollectionTargets ==
    ASSUME NEW s, NEW path
    PROVE  path \in TargetsOfCollection(baked, s)
              <=> path = <<"collection", s>> \/ (path \in Path /\ <<"members", s>> \in baked[path].srcs)
  BY DEF TargetsOfCollection, Loops

\* Which paths a task is to bake or to drop.
LEMMA DueForProduct ==
    ASSUME NEW t, t.do = "product", t.active \in BOOLEAN, NEW path
    PROVE  path \in DueFor(t)
              <=> \/ path \in Path /\ Finds(path, t.id)
                  \/ t.active = TRUE /\ path = <<"product", t.slug>>
                  \/ t.old # t.slug /\ path = <<"product", t.old>>
  <1>1. path \in OldPath(t) <=> t.old # t.slug /\ path = <<"product", t.old>>
    BY DEF OldPath
  <1>2. path \in Targets(baked, t) <=> (path \in Path /\ Finds(path, t.id)) \/ (t.active = TRUE /\ path = <<"product", t.slug>>)
    <2>1. CASE t.active = TRUE
      <3>1. Targets(baked, t) = TargetsOfProduct(baked, t.id, t.slug, TRUE)
        BY <2>1 DEF Targets
      <3>2. path \in Targets(baked, t) <=> (path \in Path /\ Finds(path, t.id)) \/ path = <<"product", t.slug>>
        BY <3>1, ActiveTargets
      <3> QED
        BY <2>1, <3>2, Zenon
    <2>2. CASE t.active = FALSE
      <3>1. Targets(baked, t) = TargetsOfProduct(baked, t.id, t.slug, FALSE)
        BY <2>2 DEF Targets
      <3>2. t.active # TRUE
        BY <2>2
      <3> QED
        BY <3>1, <3>2, ProductTargets, Zenon
    <2> QED
      BY <2>1, <2>2
  <1> QED
    BY <1>1, <1>2, Zenon DEF DueFor

LEMMA LoadedTargets ==
    ASSUME NEW t, t.do = "load product", NEW p \in Products, p = t.id, NEW path
    PROVE  path \in Targets(baked, t)
              <=> (path \in Path /\ Finds(path, p)) \/ (p \in Active /\ path = OwnPath(p))
  <1>1. Targets(baked, t) = TargetsOfProduct(baked, p, product[p].slug, p \in Active)
    BY DEF Targets
  <1>2. CASE p \in Active
    <2>1. (p \in Active) = TRUE
      BY <1>2
    <2>2. Targets(baked, t) = TargetsOfProduct(baked, p, product[p].slug, TRUE)
      BY <1>1, <2>1, Zenon
    <2> QED
      BY <1>2, <2>2, ActiveTargets DEF OwnPath
  <1>3. CASE p \notin Active
    <2>1. (p \in Active) = FALSE
      BY <1>3, NotIn
    <2>2. Targets(baked, t) = TargetsOfProduct(baked, p, product[p].slug, FALSE)
      BY <1>1, <2>1, Zenon
    <2> QED
      BY <1>3, <2>2, ProductTargets, Zenon
  <1> QED
    BY <1>2, <1>3

LEMMA DueForLoadProduct ==
    ASSUME NEW t, t.do = "load product", NEW path
    PROVE  path \in DueFor(t)
              <=> /\ t.id \in Products
                  /\ \/ path \in Path /\ Finds(path, t.id)
                     \/ t.id \in Active /\ path = OwnPath(t.id)
  <1>1. path \notin OldPath(t)
    BY DEF OldPath
  <1>2. CASE t.id \in Products
    <2>1. path \in Targets(baked, t)
             <=> (path \in Path /\ Finds(path, t.id)) \/ (t.id \in Active /\ path = OwnPath(t.id))
      BY <1>2, LoadedTargets
    <2> QED
      BY <1>1, <1>2, <2>1, Zenon DEF DueFor
  <1>3. CASE t.id \notin Products
    <2>1. Targets(baked, t) = {}
      BY <1>3 DEF Targets
    <2> QED
      BY <1>1, <1>3, <2>1 DEF DueFor
  <1> QED
    BY <1>2, <1>3

LEMMA DueForCollection ==
    ASSUME NEW t, t.do = "collection", NEW path
    PROVE  path \in DueFor(t)
              <=> \/ path = <<"collection", t.slug>>
                  \/ path \in Path /\ <<"members", t.slug>> \in baked[path].srcs
                  \/ t.old # t.slug /\ path = <<"collection", t.old>>
  <1>1. path \in OldPath(t) <=> t.old # t.slug /\ path = <<"collection", t.old>>
    BY DEF OldPath
  <1>2. Targets(baked, t) = TargetsOfCollection(baked, t.slug)
    BY DEF Targets
  <1> QED
    BY <1>1, <1>2, CollectionTargets, Zenon DEF DueFor

LEMMA DueForLoadCollection ==
    ASSUME NEW t, t.do = "load collection", NEW path
    PROVE  path \in DueFor(t)
              <=> /\ t.id \in Collections
                  /\ \/ path = <<"collection", collection[t.id].slug>>
                     \/ path \in Path /\ <<"members", collection[t.id].slug>> \in baked[path].srcs
  <1>1. path \notin OldPath(t)
    BY DEF OldPath
  <1>2. Targets(baked, t) = IF t.id \in Collections THEN TargetsOfCollection(baked, collection[t.id].slug) ELSE {}
    BY DEF Targets
  <1>3. CASE t.id \in Collections
    <2>1. Targets(baked, t) = TargetsOfCollection(baked, collection[t.id].slug)
      BY <1>2, <1>3
    <2> QED
      BY <1>1, <1>3, <2>1, CollectionTargets, Zenon DEF DueFor
  <1>4. CASE t.id \notin Collections
    BY <1>1, <1>2, <1>4 DEF DueFor
  <1> QED
    BY <1>3, <1>4

LEMMA DueForOthers ==
    ASSUME NEW t, NEW path
    PROVE  /\ t.do = "table" =>
                 (path \in DueFor(t) <=> path \in Path /\ <<"data", t.slug>> \in baked[path].srcs)
           /\ t.do = "paths" => (path \in DueFor(t) <=> path \in t.paths)
           /\ t.do = "publish" => (path \in DueFor(t) <=> path \in Path)
           /\ t.do = "found" => (path \in DueFor(t) <=> path \in t.paths \/ path \in t.dropped)
           /\ t.do \in Destroys => path \notin DueFor(t)
  BY DEF DueFor, Targets, OldPath, Loops, Destroys

LEMMA DueForPaths ==
    ASSUME RowsOK, NEW t \in Task
    PROVE  DueFor(t) \subseteq Path
  <1> SUFFICES ASSUME NEW path, path \in DueFor(t)
               PROVE  path \in Path
    OBVIOUS
  <1>1. CASE t.do = "product"
    <2>1. t.slug \in Slug /\ t.old \in Slug /\ t.active \in BOOLEAN
      BY <1>1, TaskCases
    <2>2. <<"product", t.slug>> \in Path /\ <<"product", t.old>> \in Path
      BY <2>1, PathsAre
    <2> QED
      BY <1>1, <2>1, <2>2, DueForProduct, Zenon
  <1>2. CASE t.do = "collection"
    <2>1. t.slug \in Slug /\ t.old \in Slug
      BY <1>2, TaskCases
    <2>2. <<"collection", t.slug>> \in Path /\ <<"collection", t.old>> \in Path
      BY <2>1, PathsAre
    <2> QED
      BY <1>2, <2>2, DueForCollection, Zenon
  <1>3. CASE t.do = "load product"
    <2>1. t.id \in Products => OwnPath(t.id) \in Path
      BY SlugsOfProducts, PathsAre DEF OwnPath
    <2> QED
      BY <1>3, <2>1, DueForLoadProduct, Zenon
  <1>4. CASE t.do = "load collection"
    <2>1. t.id \in Collections => <<"collection", collection[t.id].slug>> \in Path
      BY SlugsOfCollections, PathsAre
    <2> QED
      BY <1>4, <2>1, DueForLoadCollection, Zenon
  <1>5. CASE t.do \in {"table", "paths", "publish", "found"} \union Destroys
    BY <1>5, DueForOthers, TaskCases DEF Destroys, Slugged, Path
  <1> QED
    BY <1>1, <1>2, <1>3, <1>4, <1>5, TaskCases DEF Destroys

LEMMA DueIs ==
    ASSUME NEW r, NEW path
    PROVE  path \in ToMake(r) <=> \E i \in 1 .. Len(job[r]) : path \in DueFor(job[r][i])
  BY DEF ToMake, DueFor

LEMMA DuePaths ==
    ASSUME RowsOK, JobsOK, NEW r \in Request
    PROVE  ToMake(r) \subseteq Path
  <1> SUFFICES ASSUME NEW path \in ToMake(r) PROVE path \in Path
    OBVIOUS
  <1>1. PICK i \in 1 .. Len(job[r]) : path \in DueFor(job[r][i])
    BY DueIs
  <1>2. job[r][i] \in Task
    BY <1>1 DEF JobsOK
  <1> QED
    BY <1>1, <1>2, DueForPaths

-----------------------------------------------------------------------------
\* What each change to the catalogue does to its rows.
LEMMA ProductPut ==
    ASSUME RowsOK, NEW p \in Product, NEW row,
           row \in [slug : Slug, status : Status, version : Nat],
           product[p] # Gone, ProductFree(p, row.slug), PutProduct(p, row)
    PROVE  RowsOK' /\ Products' = Products \union {p} /\ Lost' = Lost
  <1>1. /\ product'[p] = row
        /\ \A q \in Product \ {p} : product'[q] = product[q]
        /\ collection' = collection /\ members' = members
    BY DEF PutProduct, RowsOK
  <1>2. row.slug \in Slug /\ row.slug # NoSlug /\ row.status \in {"draft", "active"}
    BY PagesAssumption DEF Status
  <1>3. Products' = Products \union {p}
    BY <1>1, <1>2 DEF Products, Live
  <1>4. Collections' = Collections
    BY <1>1 DEF Collections
  <1>5. product' \in [Product -> [slug : Slug \union {NoSlug},
                                status : Status \union {"unborn", "gone"}, version : Nat]]
    BY DEF PutProduct, RowsOK, Status
  <1>6. OneOwner(product, Products)'
    BY <1>1, <1>2, <1>3 DEF OneOwner, ProductFree, RowsOK, Products
  <1>7. \A q \in Products' : product'[q].slug # NoSlug
    BY <1>1, <1>2, <1>3 DEF RowsOK, Products
  <1>8. OneOwner(collection, Collections)' /\ \A c \in Collections' : collection'[c].slug # NoSlug
    BY <1>1, <1>4 DEF OneOwner, RowsOK
  <1>9. Lost' = Lost
    BY <1>1, <1>2 DEF Lost, Gone
  <1> QED
    BY <1>9, <1>1, <1>3, <1>4, <1>5, <1>6, <1>7, <1>8 DEF RowsOK

LEMMA ProductsRetagged ==
    ASSUME RowsOK, UNCHANGED <<collection, members>>,
           product' = [p \in Product |-> IF p \in Products
                                         THEN [product[p] EXCEPT !.version = @ + 1] ELSE product[p]]
    PROVE  RowsOK' /\ Products' = Products /\ Lost' = Lost
  <1>1. \A p \in Product : product'[p].slug = product[p].slug /\ product'[p].status = product[p].status
    BY DEF RowsOK
  <1>2. Products' = Products
    BY <1>1 DEF Products, Live
  <1>3. Collections' = Collections
    BY DEF Collections
  <1>4. product' \in [Product -> [slug : Slug \union {NoSlug},
                                status : Status \union {"unborn", "gone"}, version : Nat]]
    BY DEF RowsOK
  <1>5. OneOwner(product, Products)' /\ \A q \in Products' : product'[q].slug # NoSlug
    BY <1>1, <1>2 DEF OneOwner, RowsOK, Products
  <1>6. OneOwner(collection, Collections)' /\ \A c \in Collections' : collection'[c].slug # NoSlug
    BY <1>3 DEF OneOwner, RowsOK
  <1>7. Lost' = Lost
    BY DEF Lost, Gone, RowsOK, Products, Live
  <1> QED
    BY <1>7, <1>2, <1>3, <1>4, <1>5, <1>6 DEF RowsOK

LEMMA ProductLost ==
    ASSUME RowsOK, NEW p \in Product, LoseProduct(p)
    PROVE  RowsOK' /\ Products' = Products \ {p} /\ Active' = Active \ {p} /\ Lost' = Lost \union {p}
  <1>1. /\ product'[p] = Gone
        /\ \A q \in Product \ {p} : product'[q] = product[q]
        /\ collection' = collection
        /\ \A c \in Collection : members'[c] = members[c] \ {p}
        /\ members' \in [Collection -> SUBSET Product]
    BY DEF LoseProduct, RowsOK
  <1>2. Products' = Products \ {p} /\ Active' = Active \ {p}
    BY <1>1 DEF Products, Active, Live, Gone
  <1>3. Collections' = Collections
    BY <1>1 DEF Collections
  <1>4. product' \in [Product -> [slug : Slug \union {NoSlug},
                                status : Status \union {"unborn", "gone"}, version : Nat]]
    BY DEF LoseProduct, RowsOK, Gone
  <1>5. OneOwner(product, Products)' /\ \A q \in Products' : product'[q].slug # NoSlug
    BY <1>1, <1>2 DEF OneOwner, RowsOK, Products
  <1>6. OneOwner(collection, Collections)' /\ \A c \in Collections' : collection'[c].slug # NoSlug
    BY <1>1, <1>3 DEF OneOwner, RowsOK
  <1>7. \A c \in Collection : members'[c] \subseteq (IF c \in Collections' THEN Products' ELSE {})
    BY <1>1, <1>2, <1>3 DEF RowsOK
  <1>8. collection' \in [Collection -> [slug : Slug \union {NoSlug},
                                      status : Status \union {"unborn", "gone"}, version : Nat]]
    BY <1>1 DEF RowsOK
  <1>9. Lost' = Lost \union {p}
    BY <1>1 DEF Lost
  <1> QED
    BY <1>9, <1>1, <1>2, <1>4, <1>5, <1>6, <1>7, <1>8 DEF RowsOK

LEMMA CollectionPut ==
    ASSUME RowsOK, NEW c \in Collection, NEW row,
           row \in [slug : Slug, status : {"active"}, version : Nat],
           CollectionFree(c, row.slug), PutCollection(c, row)
    PROVE  RowsOK' /\ Lost' = Lost /\ Products' = Products /\ Collections' = Collections \union {c}
  <1>1. /\ collection'[c] = row
        /\ \A d \in Collection \ {c} : collection'[d] = collection[d]
        /\ product' = product /\ members' = members
    BY DEF PutCollection, RowsOK
  <1>2. row.slug \in Slug /\ row.slug # NoSlug /\ row.status = "active"
    BY PagesAssumption
  <1>3. Collections' = Collections \union {c}
    BY <1>1, <1>2 DEF Collections, Live
  <1>4. Products' = Products
    BY <1>1 DEF Products
  <1>5. collection' \in [Collection -> [slug : Slug \union {NoSlug},
                                      status : Status \union {"unborn", "gone"}, version : Nat]]
    BY DEF PutCollection, RowsOK, Status
  <1>6. OneOwner(collection, Collections)'
    BY <1>1, <1>2, <1>3 DEF OneOwner, CollectionFree, RowsOK, Collections
  <1>7. \A d \in Collections' : collection'[d].slug # NoSlug
    BY <1>1, <1>2, <1>3 DEF RowsOK, Collections
  <1>8. OneOwner(product, Products)' /\ \A q \in Products' : product'[q].slug # NoSlug
    BY <1>1, <1>4 DEF OneOwner, RowsOK
  <1>9. \A d \in Collection : members'[d] \subseteq (IF d \in Collections' THEN Products' ELSE {})
    BY <1>1, <1>3, <1>4 DEF RowsOK
  <1>a. Lost' = Lost
    BY <1>1 DEF Lost
  <1> QED
    BY <1>a, <1>1, <1>3, <1>4, <1>5, <1>6, <1>7, <1>8, <1>9 DEF RowsOK

LEMMA CollectionLost ==
    ASSUME RowsOK, NEW c \in Collection, LoseCollection(c)
    PROVE  RowsOK' /\ Lost' = Lost /\ Products' = Products /\ Collections' = Collections \ {c}
  <1>1. /\ collection'[c] = Gone
        /\ \A d \in Collection \ {c} : collection'[d] = collection[d]
        /\ product' = product
        /\ members'[c] = {} /\ \A d \in Collection \ {c} : members'[d] = members[d]
        /\ members' \in [Collection -> SUBSET Product]
    BY DEF LoseCollection, RowsOK
  <1>2. Collections' = Collections \ {c}
    BY <1>1 DEF Collections, Live, Gone
  <1>3. Products' = Products
    BY <1>1 DEF Products
  <1>4. collection' \in [Collection -> [slug : Slug \union {NoSlug},
                                      status : Status \union {"unborn", "gone"}, version : Nat]]
    BY DEF LoseCollection, RowsOK, Gone
  <1>5. OneOwner(collection, Collections)' /\ \A d \in Collections' : collection'[d].slug # NoSlug
    BY <1>1, <1>2 DEF OneOwner, RowsOK, Collections
  <1>6. OneOwner(product, Products)' /\ \A q \in Products' : product'[q].slug # NoSlug
    BY <1>1, <1>3 DEF OneOwner, RowsOK
  <1>7. \A d \in Collection : members'[d] \subseteq (IF d \in Collections' THEN Products' ELSE {})
    BY <1>1, <1>2, <1>3 DEF RowsOK
  <1>a. Lost' = Lost
    BY <1>1 DEF Lost
  <1> QED
    BY <1>a, <1>1, <1>2, <1>3, <1>4, <1>5, <1>6, <1>7 DEF RowsOK

LEMMA MembersPut ==
    ASSUME RowsOK, NEW m \in [Collection -> SUBSET Products], PutMembers(m),
           \A c \in Collection \ Collections : m[c] = {}
    PROVE  RowsOK' /\ Lost' = Lost /\ Products' = Products /\ Collections' = Collections
  <1>1. product' = product /\ collection' = collection /\ members' = m
    BY DEF PutMembers
  <1>2. Products' = Products /\ Collections' = Collections /\ Products \subseteq Product
    BY <1>1 DEF Products, Collections
  <1>3. OneOwner(product, Products)' /\ OneOwner(collection, Collections)'
    BY <1>1, <1>2 DEF OneOwner, RowsOK
  <1>a. Lost' = Lost
    BY <1>1 DEF Lost
  <1> QED
    BY <1>a, <1>1, <1>2, <1>3 DEF RowsOK

LEMMA RowsKept ==
    ASSUME RowsOK, UNCHANGED <<product, collection, members>>
    PROVE  RowsOK' /\ Lost' = Lost /\ Products' = Products /\ Collections' = Collections /\ Active' = Active
  BY DEF RowsOK, Lost, Products, Collections, Active, OneOwner

LEMMA JobsBegun ==
    ASSUME JobsOK, NEW r \in Request, NEW tasks \in Seq(Task),
           \A i \in 1 .. Len(tasks) : tasks[i].do \in Destroys => Len(tasks) = 1,
           job' = [job EXCEPT ![r] = tasks]
    PROVE  JobsOK' /\ job'[r] = tasks /\ \A q \in Request \ {r} : job'[q] = job[q]
  BY DEF JobsOK

LEMMA OneTask ==
    ASSUME NEW t \in Task
    PROVE  <<t>> \in Seq(Task) /\ Len(<<t>>) = 1 /\ <<t>>[1] = t
  OBVIOUS

LEMMA NoTask ==
    /\ <<>> \in Seq(Task) /\ Len(<<>>) = 0
    /\ \A i \in 1 .. Len(<<>>) : <<>>[i].do \in Destroys => Len(<<>>) = 1
  OBVIOUS

LEMMA BeginsOne ==
    ASSUME JobsOK, NEW r \in Request, NEW t \in Task, Begin(r, <<t>>)
    PROVE  JobsOK' /\ job'[r] = <<t>> /\ \A q \in Request \ {r} : job'[q] = job[q]
  BY OneTask, JobsBegun DEF Begin

LEMMA BeginsNone ==
    ASSUME JobsOK, NEW r \in Request, Begin(r, <<>>)
    PROVE  JobsOK' /\ job'[r] = <<>> /\ \A q \in Request \ {r} : job'[q] = job[q]
  BY NoTask, JobsBegun DEF Begin

\* The order SetToSeqs gives a set has each of its elements.
LEMMA OrdersHaveAll ==
    ASSUME NEW S, IsFiniteSet(S), NEW order \in SetToSeqs(S)
    PROVE  /\ order \in Seq(S) /\ DOMAIN order = 1 .. Len(order)
           /\ \A x \in S : \E i \in 1 .. Len(order) : order[i] = x
  <1> DEFINE n == Cardinality(S)
  <1>1. n \in Nat
    BY FS_CardinalityType
  <1>2. order \in [1 .. n -> S] /\ \A i, j \in 1 .. n : i # j => order[i] # order[j]
    BY DEF SetToSeqs
  <1> HIDE DEF n
  <1>3. order \in Seq(S) /\ Len(order) = n /\ DOMAIN order = 1 .. n
    BY <1>1, <1>2
  <1>4. order \in Injection(1 .. n, S)
    BY <1>2 DEF Injection, IsInjective
  <1>5. Cardinality(1 .. n) = n
    BY <1>1, FS_Interval
  <1>6. order \in Surjection(1 .. n, S)
    BY <1>4, <1>5, FS_Injection DEF n
  <1> QED
    BY <1>3, <1>6 DEF Surjection

LEMMA ProductsFinite ==
    ASSUME NEW S, S \subseteq Product
    PROVE  IsFiniteSet(S)
  BY Finite, FS_Subset

LEMMA CollectionsFinite ==
    ASSUME NEW S, S \subseteq Collection
    PROVE  IsFiniteSet(S)
  BY Finite, FS_Subset

LEMMA SiteStays ==
    ASSUME SiteOK, UNCHANGED site, Products \subseteq Products'
    PROVE  SiteOK'
  BY DEF SiteOK, site

LEMMA HeldStay ==
    ASSUME NEW pages, HeldPages(pages), Products \union Lost \subseteq Products' \union Lost'
    PROVE  HeldPages(pages)'
  BY DEF HeldPages

LEMMA BakesStay ==
    ASSUME BakesOK, bake' = bake, Products \union Lost \subseteq Products' \union Lost'
    PROVE  BakesOK'
  <1>1. ASSUME NEW r \in Request
        PROVE  IsBake(bake'[r]) /\ HeldPages(bake[r].pages)'
    BY HeldStay DEF BakesOK
  <1> QED
    BY <1>1 DEF BakesOK, IsBake

LEMMA LinksStay ==
    ASSUME LinksOK, NEW r \in Request, ~Finding(r), bake' = bake,
           \A q \in Request \ {r} : job'[q] = job[q]
    PROVE  LinksOK'
  BY DEF LinksOK, Linked, Finding

LEMMA IdleIs ==
    ASSUME NEW r, Idle(r)
    PROVE  job[r] = <<>> /\ bake[r] = NoBake /\ ~Finding(r)
  BY DEF Idle, Baking, NoBake, Finding

LEMMA VerbStays ==
    ASSUME BaseInv, NEW r \in Request, Idle(r), NEW tasks, Begin(r, tasks),
           Products \subseteq Products', Lost' = Lost
    PROVE  SiteOK' /\ BakesOK' /\ LinksOK'
  <1>1. \A q \in Request \ {r} : job'[q] = job[q]
    BY DEF Begin, BaseInv, JobsOK
  <1>2. bake' = bake /\ UNCHANGED site
    BY DEF Begin
  <1> QED
    BY <1>1, <1>2, IdleIs, SiteStays, BakesStay, LinksStay DEF BaseInv

LEMMA CountsBegun ==
    ASSUME CountsOK, writes < MaxWrites, writes' = writes + 1, faults' = faults,
           overlaps' = overlaps, missed' \subseteq Path
    PROVE  CountsOK'
  BY RebuildBounds DEF CountsOK

LEMMA ProductPathsOK ==
    ASSUME NEW p, NEW s \in Slug
    PROVE  TargetsOfProduct(baked, p, s, TRUE) \subseteq Path /\ TargetsOfProduct(baked, p, s, FALSE) \subseteq Path
  BY ProductTargets, PathsAre

LEMMA CollectionPathsOK ==
    ASSUME NEW s \in Slug
    PROVE  TargetsOfCollection(baked, s) \subseteq Path
  BY CollectionTargets, PathsAre

LEMMA CardPathsOK ==
    ASSUME NEW p, NEW row
    PROVE  NewOnCards(p, row) \subseteq Path
  BY DEF NewOnCards, Path

LEMMA RecordOK ==
    ASSUME redirect \in [{"product", "collection"} -> [Slug -> Slug \union {NoSlug}]],
           NEW kind \in {"product", "collection"}, NEW old \in Slug, NEW new \in Slug
    PROVE  Record(kind, old, new) \in [{"product", "collection"} -> [Slug -> Slug \union {NoSlug}]]
  <1>1. redirect[kind] \in [Slug -> Slug \union {NoSlug}]
    OBVIOUS
  <1>2. [s \in Slug |-> IF s = new THEN NoSlug
                        ELSE IF s = old \/ redirect[kind][s] = old THEN new
                        ELSE redirect[kind][s]] \in [Slug -> Slug \union {NoSlug}]
    BY <1>1
  <1> QED
    BY <1>2 DEF Record

LEMMA ProductRowOK ==
    ASSUME RowsOK, NEW p \in Product, NEW s \in Slug, NEW status \in Status
    PROVE  [slug |-> s, status |-> status, version |-> product[p].version + 1]
              \in [slug : Slug, status : Status, version : Nat]
  BY DEF RowsOK

LEMMA CollectionRowOK ==
    ASSUME RowsOK, NEW c \in Collection, NEW s \in Slug
    PROVE  [slug |-> s, status |-> "active", version |-> collection[c].version + 1]
              \in [slug : Slug, status : {"active"}, version : Nat]
  BY DEF RowsOK

LEMMA TypesCreateProduct ==
    ASSUME BaseInv, NEW r \in Request, Idle(r), writes < MaxWrites, NEW p \in Product, NEW s \in Slug,
           NEW status \in Status, CreateProduct(r, p, s, status)
    PROVE  BaseInv'
  <1> DEFINE row == [slug |-> s, status |-> status, version |-> product[p].version + 1]
  <1>1. row \in [slug : Slug, status : Status, version : Nat] /\ row.slug = s
    BY ProductRowOK DEF BaseInv
  <1>2. /\ ProductFree(p, s) /\ PutProduct(p, row) /\ Begin(r, <<OfProduct(p, row, s)>>)
        /\ Leaves(NewOnCards(p, row)) /\ redirect' = redirect
    BY DEF CreateProduct
  <1>3. OfProduct(p, row, s) \in Task
    BY TasksMade
  <1>9. product[p] # Gone
    BY DEF CreateProduct, NoRow, Gone
  <1> HIDE DEF row
  <1>4. RowsOK' /\ Lost' = Lost /\ Products' = Products \union {p}
    BY <1>1, <1>2, <1>9, ProductPut DEF BaseInv
  <1>5. JobsOK'
    BY <1>2, <1>3, BeginsOne DEF BaseInv
  <1>6. SiteOK' /\ BakesOK' /\ LinksOK'
    BY <1>2, <1>4, VerbStays
  <1>7. TablesOK'
    BY <1>2 DEF BaseInv, TablesOK, PutProduct
  <1>8. CountsOK'
    BY <1>2, CardPathsOK, CountsBegun DEF BaseInv, Begin, Leaves, CountsOK
  <1> QED
    BY <1>4, <1>5, <1>6, <1>7, <1>8 DEF BaseInv

LEMMA TypesSaveProduct ==
    ASSUME BaseInv, NEW r \in Request, Idle(r), writes < MaxWrites, NEW p \in Product, NEW s \in Slug,
           NEW status \in Status, NEW byAdmin \in BOOLEAN, SaveProduct(r, p, s, status, byAdmin)
    PROVE  BaseInv'
  <1> DEFINE row == [slug |-> s, status |-> status, version |-> product[p].version + 1]
             old == product[p].slug
  <1>1. row \in [slug : Slug, status : Status, version : Nat] /\ row.slug = s
    BY ProductRowOK DEF BaseInv
  <1>2. /\ p \in Products /\ ProductFree(p, s) /\ PutProduct(p, row) /\ Begin(r, <<OfProduct(p, row, old)>>)
        /\ Leaves(NewOnCards(p, row))
        /\ redirect' = IF byAdmin THEN Record("product", old, s) ELSE redirect
    BY DEF SaveProduct
  <1>a. old \in Slug
    BY <1>2, SlugsOfProducts DEF BaseInv
  <1> HIDE DEF old
  <1>3. OfProduct(p, row, old) \in Task
    BY <1>a, TasksMade
  <1>9. product[p] # Gone
    BY DEF SaveProduct, Products, Live, Gone
  <1> HIDE DEF row
  <1>4. RowsOK' /\ Lost' = Lost /\ Products' = Products \union {p}
    BY <1>1, <1>2, <1>9, ProductPut DEF BaseInv
  <1>5. JobsOK'
    BY <1>2, <1>3, BeginsOne DEF BaseInv
  <1>6. SiteOK' /\ BakesOK' /\ LinksOK'
    BY <1>2, <1>4, VerbStays
  <1>7. TablesOK'
    BY <1>2, <1>a, RecordOK DEF BaseInv, TablesOK, PutProduct
  <1>8. CountsOK'
    BY <1>2, CardPathsOK, CountsBegun DEF BaseInv, Begin, Leaves, CountsOK
  <1> QED
    BY <1>4, <1>5, <1>6, <1>7, <1>8 DEF BaseInv

LEMMA TypesImportProduct ==
    ASSUME BaseInv, NEW r \in Request, Idle(r), writes < MaxWrites, NEW p \in Product, NEW s \in Slug,
           NEW status \in Status, ImportProduct(r, p, s, status)
    PROVE  BaseInv'
  <1> DEFINE row == [slug |-> s, status |-> status, version |-> product[p].version + 1]
  <1>1. row \in [slug : Slug, status : Status, version : Nat] /\ row.slug = s
    BY ProductRowOK DEF BaseInv
  <1>2. /\ \/ ProductFree(p, s)
           \/ p \in Products /\ product[p].slug = s
        /\ PutProduct(p, row) /\ Begin(r, <<>>)
        /\ Leaves(TargetsOfProduct(baked, p, s, TRUE) \union NewOnCards(p, row)) /\ redirect' = redirect
    BY DEF ImportProduct
  <1>3. ProductFree(p, s)
    BY <1>2 DEF ProductFree, BaseInv, RowsOK, OneOwner
  <1>9. product[p] # Gone
    BY DEF ImportProduct, NoRow, Gone, Products, Live
  <1> HIDE DEF row
  <1>4. RowsOK' /\ Lost' = Lost /\ Products' = Products \union {p}
    BY <1>1, <1>2, <1>3, <1>9, ProductPut DEF BaseInv
  <1>5. JobsOK'
    BY <1>2, BeginsNone DEF BaseInv
  <1>6. SiteOK' /\ BakesOK' /\ LinksOK'
    BY <1>2, <1>4, VerbStays
  <1>7. TablesOK'
    BY <1>2 DEF BaseInv, TablesOK, PutProduct
  <1>8. CountsOK'
    BY <1>2, CardPathsOK, ProductPathsOK, CountsBegun DEF BaseInv, Begin, Leaves, CountsOK
  <1> QED
    BY <1>4, <1>5, <1>6, <1>7, <1>8 DEF BaseInv

\* The tasks of a retag: one for every product.
Retagged(p) == OfProduct(p, [product[p] EXCEPT !.version = @ + 1], product[p].slug)

LEMMA RetagTasks ==
    ASSUME RowsOK, NEW ps \in SetToSeqs(Products), NEW tasks,
           tasks = [i \in DOMAIN ps |-> Retagged(ps[i])]
    PROVE  /\ tasks \in Seq(Task)
           /\ \A i \in 1 .. Len(tasks) : tasks[i].do \notin Destroys
           /\ \A p \in Products : \E i \in 1 .. Len(tasks) :
                 tasks[i].do = "product" /\ tasks[i].id = p
  <1>1. /\ ps \in Seq(Products) /\ DOMAIN ps = 1 .. Len(ps)
        /\ \A p \in Products : \E i \in 1 .. Len(ps) : ps[i] = p
    BY OrdersHaveAll, ProductsFinite DEF Products
  <1>2. ASSUME NEW p \in Products
        PROVE  Retagged(p) \in Task /\ Retagged(p).do = "product" /\ Retagged(p).id = p
    <2>1. p \in Product /\ product[p].slug \in Slug
      BY SlugsOfProducts
    <2>2. [product[p] EXCEPT !.version = @ + 1]
             = [slug |-> product[p].slug, status |-> product[p].status, version |-> product[p].version + 1]
      BY <2>1 DEF RowsOK
    <2> QED
      BY <2>1, <2>2, TasksMade DEF OfProduct, Retagged
  <1>3. tasks \in Seq(Task) /\ Len(tasks) = Len(ps)
    BY <1>1, <1>2
  <1>4. \A i \in 1 .. Len(tasks) : ps[i] \in Products /\ tasks[i].do = "product" /\ tasks[i].id = ps[i]
    BY <1>1, <1>2, <1>3
  <1>5. ASSUME NEW p \in Products
        PROVE  \E i \in 1 .. Len(tasks) : tasks[i].do = "product" /\ tasks[i].id = p
    <2>1. PICK i \in 1 .. Len(ps) : ps[i] = p
      BY <1>1
    <2> QED
      BY <1>3, <1>4, <2>1
  <1>6. \A i \in 1 .. Len(tasks) : tasks[i].do \notin Destroys
    BY <1>4 DEF Destroys
  <1> QED
    BY <1>3, <1>5, <1>6

LEMMA TypesRetag ==
    ASSUME BaseInv, NEW r \in Request, Idle(r), writes < MaxWrites, Retag(r)
    PROVE  BaseInv'
  <1>1. PICK ps \in SetToSeqs(Products) : Begin(r, [i \in DOMAIN ps |-> Retagged(ps[i])])
    BY DEF Retag, Retagged
  <1> DEFINE tasks == [i \in DOMAIN ps |-> Retagged(ps[i])]
  <1>2. RowsOK' /\ Lost' = Lost /\ Products' = Products
    BY ProductsRetagged DEF Retag, BaseInv
  <1>3. tasks \in Seq(Task) /\ \A i \in 1 .. Len(tasks) : tasks[i].do \notin Destroys
    BY RetagTasks DEF BaseInv
  <1>4. Begin(r, tasks)
    BY <1>1
  <1> HIDE DEF tasks
  <1>5. JobsOK'
    BY <1>3, <1>4, JobsBegun DEF BaseInv, Begin
  <1>6. SiteOK' /\ BakesOK' /\ LinksOK'
    BY <1>2, <1>4, VerbStays
  <1>7. TablesOK'
    BY DEF BaseInv, TablesOK, Retag
  <1>8. CountsOK'
    BY <1>4, CountsBegun DEF BaseInv, Begin, Retag, CountsOK
  <1> QED
    BY <1>2, <1>5, <1>6, <1>7, <1>8 DEF BaseInv

\* What the pages of a product about to be destroyed are.
FoundFor(p) == TargetsOfProduct(index, p, product[p].slug, p \in Active) \union {OwnPath(p)}

LEMMA TargetsOfProductPaths ==
    ASSUME NEW by, NEW p, NEW s \in Slug, NEW active
    PROVE  TargetsOfProduct(by, p, s, active) \subseteq Path
  BY PathsAre DEF TargetsOfProduct, Loops

LEMMA TargetsOfCollectionPaths ==
    ASSUME NEW by, NEW s \in Slug
    PROVE  TargetsOfCollection(by, s) \subseteq Path
  BY PathsAre DEF TargetsOfCollection, Loops

LEMMA FoundForOK ==
    ASSUME RowsOK, NEW p \in Products
    PROVE  FoundFor(p) \subseteq Path
  <1>1. OwnPath(p) \in Path /\ product[p].slug \in Slug
    BY SlugsOfProducts, PathsAre DEF OwnPath
  <1> QED
    BY <1>1, TargetsOfProductPaths DEF FoundFor

LEMMA TypesDeleteProduct ==
    ASSUME BaseInv, NEW r \in Request, Idle(r), writes < MaxWrites, NEW p \in Product, DeleteProduct(r, p)
    PROVE  BaseInv'
  <1>1. /\ p \in Products /\ Begin(r, <<Destroy("destroy product", p, FoundFor(p))>>)
        /\ UNCHANGED <<product, collection, members, table, redirect, missed>>
    BY DEF DeleteProduct, FoundFor, catalogue
  <1>2. Destroy("destroy product", p, FoundFor(p)) \in Task
    BY <1>1, FoundForOK, TasksMade DEF BaseInv
  <1>3. RowsOK' /\ Lost' = Lost /\ Products' = Products
    BY <1>1, RowsKept DEF BaseInv
  <1>4. JobsOK'
    BY <1>1, <1>2, BeginsOne DEF BaseInv
  <1>5. SiteOK' /\ BakesOK' /\ LinksOK'
    BY <1>1, <1>3, VerbStays
  <1>6. TablesOK'
    BY <1>1 DEF BaseInv, TablesOK
  <1>7. CountsOK'
    BY <1>1, CountsBegun DEF BaseInv, Begin, CountsOK
  <1> QED
    BY <1>3, <1>4, <1>5, <1>6, <1>7 DEF BaseInv

LEMMA SiteLoses ==
    ASSUME RowsOK, SiteOK, BakesOK, NEW p \in Product, LoseProduct(p)
    PROVE  SiteOK' /\ BakesOK'
  <1>1. Products' = Products \ {p} /\ Lost' = Lost \union {p}
    BY ProductLost
  <1>2. UNCHANGED <<files, live, bake>>
    BY DEF LoseProduct
  <1>3. BakesOK'
    BY <1>1, <1>2, BakesStay
  <1>4. ASSUME NEW path \in Path
        PROVE  index'[path] = [ids |-> index[path].ids \ {p}, srcs |-> index[path].srcs]
    BY DEF LoseProduct, SiteOK
  <1>5. index' \in [Path -> [ids : SUBSET Products', srcs : SUBSET Source]]
    <2>1. index' = [path \in Path |-> index'[path]]
      BY DEF LoseProduct
    <2>2. ASSUME NEW path \in Path
          PROVE  index'[path] \in [ids : SUBSET Products', srcs : SUBSET Source]
      <3> DEFINE ids  == index[path].ids \ {p}
                 srcs == index[path].srcs
      <3>1. ids \in SUBSET Products' /\ srcs \in SUBSET Source
        BY <1>1 DEF SiteOK
      <3>2. index'[path] = [ids |-> ids, srcs |-> srcs]
        BY <1>4
      <3> HIDE DEF ids, srcs
      <3> QED
        BY <3>1, <3>2
    <2> QED
      BY <2>1, <2>2
  <1>6. \A g \in Page : index'[<<"page", g>>].srcs = SrcsOf(g)
    <2>1. ASSUME NEW path \in Path
          PROVE  index'[path].srcs = index[path].srcs
      <3> DEFINE ids  == index[path].ids \ {p}
                 srcs == index[path].srcs
      <3>1. index'[path] = [ids |-> ids, srcs |-> srcs]
        BY <1>4
      <3> HIDE DEF ids, srcs
      <3>2. index'[path].srcs = srcs
        BY <3>1
      <3> QED
        BY <3>2 DEF srcs
    <2> QED
      BY <2>1, PathsAre DEF SiteOK
  <1> QED
    BY <1>2, <1>3, <1>5, <1>6 DEF SiteOK

LEMMA TypesAdminDeleteProduct ==
    ASSUME BaseInv, NEW r \in Request, Idle(r), writes < MaxWrites, NEW p \in Product, AdminDeleteProduct(r, p)
    PROVE  BaseInv'
  <1>1. /\ p \in Products /\ writes' = writes + 1 /\ LoseProduct(p)
        /\ Leaves(TargetsOfProduct(baked, p, product[p].slug, TRUE)) /\ UNCHANGED <<redirect, job, faults>>
    BY DEF AdminDeleteProduct
  <1>2. RowsOK' /\ SiteOK' /\ BakesOK'
    BY <1>1, ProductLost, SiteLoses DEF BaseInv
  <1>3. JobsOK' /\ LinksOK' /\ TablesOK'
    BY <1>1 DEF BaseInv, JobsOK, LinksOK, TablesOK, LoseProduct
  <1>4. CountsOK'
    BY <1>1, ProductPathsOK, SlugsOfProducts, CountsBegun DEF BaseInv, Leaves, CountsOK, LoseProduct
  <1> QED
    BY <1>2, <1>3, <1>4 DEF BaseInv

LEMMA TypesCreateCollection ==
    ASSUME BaseInv, NEW r \in Request, Idle(r), writes < MaxWrites, NEW c \in Collection, NEW s \in Slug,
           NEW byAdmin \in BOOLEAN, CreateCollection(r, c, s, byAdmin)
    PROVE  BaseInv'
  <1> DEFINE row == [slug |-> s, status |-> "active", version |-> collection[c].version + 1]
  <1>1. row \in [slug : Slug, status : {"active"}, version : Nat] /\ row.slug = s
    BY CollectionRowOK DEF BaseInv
  <1>2. /\ CollectionFree(c, s) /\ PutCollection(c, row)
        /\ Begin(r, IF byAdmin THEN <<>> ELSE <<OfCollection(s, s)>>)
        /\ Leaves(IF byAdmin THEN TargetsOfCollection(baked, s) ELSE {}) /\ redirect' = redirect
    BY DEF CreateCollection
  <1> HIDE DEF row
  <1>3. OfCollection(s, s) \in Task
    BY TasksMade
  <1>4. RowsOK' /\ Lost' = Lost /\ Products' = Products
    BY <1>1, <1>2, CollectionPut DEF BaseInv
  <1>5. JobsOK'
    BY <1>2, <1>3, BeginsOne, BeginsNone DEF BaseInv
  <1>6. SiteOK' /\ BakesOK' /\ LinksOK'
    BY <1>2, <1>4, VerbStays
  <1>7. TablesOK'
    BY <1>2 DEF BaseInv, TablesOK, PutCollection
  <1>8. CountsOK'
    BY <1>2, CollectionPathsOK, CountsBegun DEF BaseInv, Begin, Leaves, CountsOK
  <1> QED
    BY <1>4, <1>5, <1>6, <1>7, <1>8 DEF BaseInv

LEMMA TypesSaveCollection ==
    ASSUME BaseInv, NEW r \in Request, Idle(r), writes < MaxWrites, NEW c \in Collection, NEW s \in Slug,
           NEW byAdmin \in BOOLEAN, SaveCollection(r, c, s, byAdmin)
    PROVE  BaseInv'
  <1> DEFINE row == [slug |-> s, status |-> "active", version |-> collection[c].version + 1]
             old == collection[c].slug
  <1>1. row \in [slug : Slug, status : {"active"}, version : Nat] /\ row.slug = s
    BY CollectionRowOK DEF BaseInv
  <1>2. /\ c \in Collections /\ CollectionFree(c, s) /\ PutCollection(c, row)
        /\ Begin(r, <<OfCollection(s, old)>>)
        /\ Leaves(IF s # old THEN Loops(baked, <<"members", old>>) ELSE {})
        /\ redirect' = IF byAdmin THEN Record("collection", old, s) ELSE redirect
    BY DEF SaveCollection
  <1> HIDE DEF row
  <1>3. old \in Slug
    BY <1>2, SlugsOfCollections DEF BaseInv
  <1> HIDE DEF old
  <1>4. OfCollection(s, old) \in Task
    BY <1>3, TasksMade
  <1>5. RowsOK' /\ Lost' = Lost /\ Products' = Products
    BY <1>1, <1>2, CollectionPut DEF BaseInv
  <1>6. JobsOK'
    BY <1>2, <1>4, BeginsOne DEF BaseInv
  <1>7. SiteOK' /\ BakesOK' /\ LinksOK'
    BY <1>2, <1>5, VerbStays
  <1>8. TablesOK'
    BY <1>2, <1>3, RecordOK DEF BaseInv, TablesOK, PutCollection
  <1>9. CountsOK'
    BY <1>2, CountsBegun DEF BaseInv, Begin, Leaves, CountsOK, Loops
  <1> QED
    BY <1>5, <1>6, <1>7, <1>8, <1>9 DEF BaseInv

LEMMA TypesDeleteCollection ==
    ASSUME BaseInv, NEW r \in Request, Idle(r), writes < MaxWrites, NEW c \in Collection, DeleteCollection(r, c)
    PROVE  BaseInv'
  <1>1. /\ c \in Collections
        /\ Begin(r, <<Destroy("destroy collection", c, TargetsOfCollection(index, collection[c].slug))>>)
        /\ UNCHANGED <<product, collection, members, table, redirect, missed>>
    BY DEF DeleteCollection, catalogue
  <1>2. Destroy("destroy collection", c, TargetsOfCollection(index, collection[c].slug)) \in Task
    BY <1>1, SlugsOfCollections, TargetsOfCollectionPaths, TasksMade DEF BaseInv
  <1>3. RowsOK' /\ Lost' = Lost /\ Products' = Products
    BY <1>1, RowsKept DEF BaseInv
  <1>4. JobsOK'
    BY <1>1, <1>2, BeginsOne DEF BaseInv
  <1>5. SiteOK' /\ BakesOK' /\ LinksOK'
    BY <1>1, <1>3, VerbStays
  <1>6. TablesOK'
    BY <1>1 DEF BaseInv, TablesOK
  <1>7. CountsOK'
    BY <1>1, CountsBegun DEF BaseInv, Begin, CountsOK
  <1> QED
    BY <1>3, <1>4, <1>5, <1>6, <1>7 DEF BaseInv

LEMMA TypesAdminDeleteCollection ==
    ASSUME BaseInv, NEW r \in Request, Idle(r), writes < MaxWrites, NEW c \in Collection, AdminDeleteCollection(r, c)
    PROVE  BaseInv'
  <1>1. /\ c \in Collections /\ LoseCollection(c) /\ Begin(r, <<>>)
        /\ Leaves(TargetsOfCollection(baked, collection[c].slug)) /\ redirect' = redirect
    BY DEF AdminDeleteCollection
  <1>2. RowsOK' /\ Lost' = Lost /\ Products' = Products
    BY <1>1, CollectionLost DEF BaseInv
  <1>3. JobsOK'
    BY <1>1, BeginsNone DEF BaseInv
  <1>4. SiteOK' /\ BakesOK' /\ LinksOK'
    BY <1>1, <1>2, VerbStays
  <1>5. TablesOK'
    BY <1>1 DEF BaseInv, TablesOK, LoseCollection
  <1>6. CountsOK'
    BY <1>1, SlugsOfCollections, CollectionPathsOK, CountsBegun DEF BaseInv, Begin, Leaves, CountsOK
  <1> QED
    BY <1>2, <1>3, <1>4, <1>5, <1>6 DEF BaseInv

\* Tasks loaded one by one.
LEMMA LoadTasks ==
    ASSUME NEW S, IsFiniteSet(S), NEW order \in SetToSeqs(S)
    PROVE  /\ S \subseteq Product =>
                 LET tasks == [i \in DOMAIN order |-> LoadProduct(order[i])] IN
                 /\ tasks \in Seq(Task)
                 /\ \A i \in 1 .. Len(tasks) : tasks[i].do \notin Destroys
                 /\ \A p \in S : \E i \in 1 .. Len(tasks) : tasks[i] = LoadProduct(p)
           /\ S \subseteq Collection =>
                 LET tasks == [i \in DOMAIN order |-> LoadCollection(order[i])] IN
                 /\ tasks \in Seq(Task)
                 /\ \A i \in 1 .. Len(tasks) : tasks[i].do \notin Destroys
                 /\ \A c \in S : \E i \in 1 .. Len(tasks) : tasks[i] = LoadCollection(c)
  <1>1. /\ order \in Seq(S) /\ DOMAIN order = 1 .. Len(order)
        /\ \A x \in S : \E i \in 1 .. Len(order) : order[i] = x
    BY OrdersHaveAll
  <1>2. ASSUME S \subseteq Product, NEW tasks, tasks = [i \in DOMAIN order |-> LoadProduct(order[i])]
        PROVE  /\ tasks \in Seq(Task)
               /\ \A i \in 1 .. Len(tasks) : tasks[i].do \notin Destroys
               /\ \A p \in S : \E i \in 1 .. Len(tasks) : tasks[i] = LoadProduct(p)
    <2>0. \A x \in Product : LoadProduct(x) \in Task
      BY TasksMade
    <2>a. \A i \in 1 .. Len(order) : order[i] \in Product
      BY <1>1, <1>2
    <2>1. \A i \in 1 .. Len(order) : LoadProduct(order[i]) \in Task
      BY <2>0, <2>a
    <2>2. tasks \in Seq(Task) /\ Len(tasks) = Len(order)
      BY <1>1, <1>2, <2>1
    <2>3. \A i \in 1 .. Len(tasks) : tasks[i] = LoadProduct(order[i])
      BY <1>1, <1>2, <2>2
    <2> QED
      BY <1>1, <2>2, <2>3, TasksKinds
  <1>3. ASSUME S \subseteq Collection, NEW tasks, tasks = [i \in DOMAIN order |-> LoadCollection(order[i])]
        PROVE  /\ tasks \in Seq(Task)
               /\ \A i \in 1 .. Len(tasks) : tasks[i].do \notin Destroys
               /\ \A c \in S : \E i \in 1 .. Len(tasks) : tasks[i] = LoadCollection(c)
    <2>0. \A x \in Collection : LoadCollection(x) \in Task
      BY TasksMade
    <2>a. \A i \in 1 .. Len(order) : order[i] \in Collection
      BY <1>1, <1>3
    <2>1. \A i \in 1 .. Len(order) : LoadCollection(order[i]) \in Task
      BY <2>0, <2>a
    <2>2. tasks \in Seq(Task) /\ Len(tasks) = Len(order)
      BY <1>1, <1>3, <2>1
    <2>3. \A i \in 1 .. Len(tasks) : tasks[i] = LoadCollection(order[i])
      BY <1>1, <1>3, <2>2
    <2> QED
      BY <1>1, <2>2, <2>3, TasksKinds
  <1> QED
    BY <1>2, <1>3

\* The tasks of the two verbs that load what they bake.
LEMMA SetProductsTasks ==
    ASSUME BaseInv, NEW r \in Request, NEW c \in Collection, NEW ps \in SUBSET Products,
           SetCollectionProducts(r, c, ps)
    PROVE  \E tasks \in Seq(Task) :
              /\ Begin(r, tasks)
              /\ \A i \in 1 .. Len(tasks) : tasks[i].do \notin Destroys
              /\ \E i \in 1 .. Len(tasks) : tasks[i] = OfCollection(collection[c].slug, collection[c].slug)
              /\ \A p \in (ps \ members[c]) \union (members[c] \ ps) :
                    \E i \in 1 .. Len(tasks) : tasks[i] = LoadProduct(p)
  <1> DEFINE changed == (ps \ members[c]) \union (members[c] \ ps)
             first   == OfCollection(collection[c].slug, collection[c].slug)
  <1>1. c \in Collections /\ \E order \in SetToSeqs(changed) :
           Begin(r, <<first>> \o [i \in DOMAIN order |-> LoadProduct(order[i])])
    BY DEF SetCollectionProducts
  <1>2. PICK order \in SetToSeqs(changed) :
           Begin(r, <<first>> \o [i \in DOMAIN order |-> LoadProduct(order[i])])
    BY <1>1
  <1> DEFINE rest == [i \in DOMAIN order |-> LoadProduct(order[i])]
  <1>3. changed \subseteq Product
    BY DEF BaseInv, RowsOK, Products
  <1>4. first \in Task /\ first.do \notin Destroys
    BY <1>1, SlugsOfCollections, TasksMade, TasksKinds DEF BaseInv
  <1> HIDE DEF changed, first
  <1>5. /\ rest \in Seq(Task)
        /\ \A i \in 1 .. Len(rest) : rest[i].do \notin Destroys
        /\ \A p \in changed : \E i \in 1 .. Len(rest) : rest[i] = LoadProduct(p)
    BY <1>3, LoadTasks, ProductsFinite
  <1>6. Begin(r, <<first>> \o rest)
    BY <1>2
  <1> HIDE DEF rest
  <1> DEFINE tasks == <<first>> \o rest
  <1>7. /\ tasks \in Seq(Task) /\ Len(tasks) = 1 + Len(rest) /\ tasks[1] = first
        /\ \A i \in 1 .. Len(rest) : tasks[i + 1] = rest[i]
        /\ \A i \in 2 .. Len(tasks) : i - 1 \in 1 .. Len(rest) /\ tasks[i] = rest[i - 1]
    BY <1>4, <1>5
  <1> HIDE DEF tasks
  <1>8. \A i \in 1 .. Len(tasks) : tasks[i].do \notin Destroys
    <2> TAKE i \in 1 .. Len(tasks)
    <2>1. CASE i = 1
      BY <1>4, <1>7, <2>1
    <2>2. CASE i # 1
      <3>1. i \in 2 .. Len(tasks)
        BY <2>2, <1>5, <1>7
      <3> QED
        BY <1>5, <1>7, <3>1
    <2> QED
      BY <2>1, <2>2
  <1>9. ASSUME NEW p \in changed
        PROVE  \E i \in 1 .. Len(tasks) : tasks[i] = LoadProduct(p)
    <2>1. PICK i \in 1 .. Len(rest) : rest[i] = LoadProduct(p)
      BY <1>5
    <2>2. i + 1 \in 1 .. Len(tasks) /\ tasks[i + 1] = LoadProduct(p)
      BY <1>5, <1>7, <2>1
    <2> QED
      BY <2>2
  <1>10. \E i \in 1 .. Len(tasks) : tasks[i] = first
    BY <1>5, <1>7
  <1>11. Begin(r, tasks)
    BY <1>6 DEF tasks
  <1> QED
    BY <1>7, <1>8, <1>9, <1>10, <1>11 DEF changed, first

LEMMA SetCollectionsTasks ==
    ASSUME BaseInv, NEW r \in Request, NEW p \in Product, NEW cs \in SUBSET Collections,
           AdminSetProductCollections(r, p, cs)
    PROVE  \E tasks \in Seq(Task) :
              /\ Begin(r, tasks)
              /\ \A i \in 1 .. Len(tasks) : tasks[i].do \notin Destroys
              /\ \A c \in (cs \ Homes(p)) \union (Homes(p) \ cs) :
                    \E i \in 1 .. Len(tasks) : tasks[i] = LoadCollection(c)
  <1> DEFINE changed == (cs \ Homes(p)) \union (Homes(p) \ cs)
  <1>1. PICK order \in SetToSeqs(changed) : Begin(r, [i \in DOMAIN order |-> LoadCollection(order[i])])
    BY DEF AdminSetProductCollections
  <1>2. changed \subseteq Collection
    BY DEF Homes, Collections
  <1> DEFINE tasks == [i \in DOMAIN order |-> LoadCollection(order[i])]
  <1> HIDE DEF changed
  <1>3. /\ tasks \in Seq(Task)
        /\ \A i \in 1 .. Len(tasks) : tasks[i].do \notin Destroys
        /\ \A c \in changed : \E i \in 1 .. Len(tasks) : tasks[i] = LoadCollection(c)
    BY <1>2, LoadTasks, CollectionsFinite
  <1>4. Begin(r, tasks)
    BY <1>1
  <1> HIDE DEF tasks
  <1> QED
    BY <1>3, <1>4 DEF changed

LEMMA TypesSetCollectionProducts ==
    ASSUME BaseInv, NEW r \in Request, Idle(r), writes < MaxWrites, NEW c \in Collection, NEW ps \in SUBSET Products,
           SetCollectionProducts(r, c, ps)
    PROVE  BaseInv'
  <1>1. PICK tasks \in Seq(Task) :
           Begin(r, tasks) /\ \A i \in 1 .. Len(tasks) : tasks[i].do \notin Destroys
    BY SetProductsTasks
  <1>2. c \in Collections /\ PutMembers([members EXCEPT ![c] = ps]) /\ UNCHANGED <<redirect, missed>>
    BY DEF SetCollectionProducts
  <1>3. [members EXCEPT ![c] = ps] \in [Collection -> SUBSET Products]
    BY DEF BaseInv, RowsOK
  <1>4. RowsOK' /\ Lost' = Lost /\ Products' = Products
    <2>1. \A d \in Collection \ Collections : [members EXCEPT ![c] = ps][d] = {}
      BY <1>2 DEF BaseInv, RowsOK
    <2> QED
      BY <1>2, <1>3, <2>1, MembersPut DEF BaseInv
  <1>5. JobsOK'
    BY <1>1, JobsBegun DEF BaseInv, Begin
  <1>6. SiteOK' /\ BakesOK' /\ LinksOK'
    BY <1>1, <1>4, VerbStays
  <1>7. TablesOK'
    BY <1>2 DEF BaseInv, TablesOK, PutMembers
  <1>8. CountsOK'
    BY <1>1, <1>2, CountsBegun DEF BaseInv, Begin, CountsOK
  <1> QED
    BY <1>4, <1>5, <1>6, <1>7, <1>8 DEF BaseInv

LEMMA TypesAdminSetCollectionProducts ==
    ASSUME BaseInv, NEW r \in Request, Idle(r), writes < MaxWrites, NEW c \in Collection, NEW ps \in SUBSET Products,
           AdminSetCollectionProducts(r, c, ps)
    PROVE  BaseInv'
  <1>1. /\ c \in Collections /\ PutMembers([members EXCEPT ![c] = ps])
        /\ Begin(r, <<OfCollection(collection[c].slug, collection[c].slug)>>)
        /\ Leaves({OwnPath(p) : p \in (ps \ members[c]) \intersect Active}) /\ redirect' = redirect
    BY DEF AdminSetCollectionProducts
  <1>2. OfCollection(collection[c].slug, collection[c].slug) \in Task
    BY <1>1, SlugsOfCollections, TasksMade DEF BaseInv
  <1>3. [members EXCEPT ![c] = ps] \in [Collection -> SUBSET Products]
    BY DEF BaseInv, RowsOK
  <1>4. RowsOK' /\ Lost' = Lost /\ Products' = Products
    <2>1. \A d \in Collection \ Collections : [members EXCEPT ![c] = ps][d] = {}
      BY <1>1 DEF BaseInv, RowsOK
    <2> QED
      BY <1>1, <1>3, <2>1, MembersPut DEF BaseInv
  <1>5. JobsOK'
    BY <1>1, <1>2, BeginsOne DEF BaseInv
  <1>6. SiteOK' /\ BakesOK' /\ LinksOK'
    BY <1>1, <1>4, VerbStays
  <1>7. TablesOK'
    BY <1>1 DEF BaseInv, TablesOK, PutMembers
  <1>8. \A p \in Products : OwnPath(p) \in Path
    BY SlugsOfProducts, PathsAre DEF OwnPath, BaseInv
  <1>9. CountsOK'
    BY <1>1, <1>8, CountsBegun DEF BaseInv, Begin, Leaves, CountsOK
  <1> QED
    BY <1>4, <1>5, <1>6, <1>7, <1>9 DEF BaseInv

LEMMA TypesAdminSetProductCollections ==
    ASSUME BaseInv, NEW r \in Request, Idle(r), writes < MaxWrites, NEW p \in Product, NEW cs \in SUBSET Collections,
           AdminSetProductCollections(r, p, cs)
    PROVE  BaseInv'
  <1>1. PICK tasks \in Seq(Task) :
           Begin(r, tasks) /\ \A i \in 1 .. Len(tasks) : tasks[i].do \notin Destroys
    BY SetCollectionsTasks
  <1> DEFINE m == [c \in Collection |-> IF c \in cs THEN members[c] \union {p} ELSE members[c] \ {p}]
  <1>2. /\ p \in Products /\ PutMembers(m) /\ redirect' = redirect
        /\ Leaves(IF p \in Active /\ ~(cs \subseteq Homes(p)) THEN {OwnPath(p)} ELSE {})
    BY DEF AdminSetProductCollections
  <1>3. m \in [Collection -> SUBSET Products] /\ \A d \in Collection \ Collections : m[d] = {}
    BY <1>2 DEF BaseInv, RowsOK
  <1> HIDE DEF m
  <1>4. RowsOK' /\ Lost' = Lost /\ Products' = Products
    BY <1>2, <1>3, MembersPut DEF BaseInv
  <1>5. JobsOK'
    BY <1>1, JobsBegun DEF BaseInv, Begin
  <1>6. SiteOK' /\ BakesOK' /\ LinksOK'
    BY <1>1, <1>4, VerbStays
  <1>7. TablesOK'
    BY <1>2 DEF BaseInv, TablesOK, PutMembers
  <1>8. OwnPath(p) \in Path
    BY <1>2, SlugsOfProducts, PathsAre DEF OwnPath, BaseInv
  <1>9. CountsOK'
    BY <1>1, <1>2, <1>8, CountsBegun DEF BaseInv, Begin, Leaves, CountsOK
  <1> QED
    BY <1>4, <1>5, <1>6, <1>7, <1>9 DEF BaseInv

\* A verb of the table.
LEMMA TypesPutTable ==
    ASSUME BaseInv, NEW r \in Request, Idle(r), writes < MaxWrites, NEW row, PutTable(row),
           row \in [slug : Slug \union {NoSlug}, rows : Nat],
           NEW tasks \in Seq(Task), Begin(r, tasks),
           \A i \in 1 .. Len(tasks) : tasks[i].do \notin Destroys
    PROVE  BaseInv'
  <1>1. RowsOK' /\ Lost' = Lost /\ Products' = Products
    BY RowsKept DEF BaseInv, PutTable
  <1>2. JobsOK'
    BY JobsBegun DEF BaseInv, Begin
  <1>3. SiteOK' /\ BakesOK' /\ LinksOK'
    BY <1>1, VerbStays
  <1>4. TablesOK'
    BY DEF BaseInv, TablesOK, PutTable
  <1>5. CountsOK'
    BY CountsBegun DEF BaseInv, Begin, PutTable, CountsOK
  <1> QED
    BY <1>1, <1>2, <1>3, <1>4, <1>5 DEF BaseInv

\* What a table's verb puts, and the tasks it begins.
TablePut(r, row, tasks) ==
    /\ row \in [slug : Slug \union {NoSlug}, rows : Nat] /\ tasks \in Seq(Task)
    /\ PutTable(row) /\ Begin(r, tasks)
    /\ \A i \in 1 .. Len(tasks) : tasks[i].do = "table"
    /\ table.slug # NoSlug => \E i \in 1 .. Len(tasks) : tasks[i].slug = table.slug
    /\ row.rows # 0 => \E i \in 1 .. Len(tasks) : tasks[i].slug = row.slug

LEMMA TablePutOne ==
    ASSUME NEW r, NEW row \in [slug : Slug \union {NoSlug}, rows : Nat], PutTable(row),
           table.slug \in Slug, row.rows # 0 => row.slug = table.slug, Begin(r, <<OfTable(table.slug)>>)
    PROVE  TablePut(r, row, <<OfTable(table.slug)>>)
  <1> DEFINE t == OfTable(table.slug)
             tasks == <<t>>
  <1>1. t \in Task /\ t.do = "table" /\ t.slug = table.slug
    BY TasksMade DEF OfTable
  <1> HIDE DEF t
  <1>2. tasks \in Seq(Task) /\ Len(tasks) = 1 /\ tasks[1] = t
    BY <1>1
  <1>3. Begin(r, tasks)
    BY DEF t
  <1> HIDE DEF tasks
  <1>4. TablePut(r, row, tasks)
    BY <1>1, <1>2, <1>3 DEF TablePut
  <1> QED
    BY <1>4 DEF tasks, t

LEMMA TablePutTwo ==
    ASSUME NEW r, NEW row \in [slug : Slug \union {NoSlug}, rows : Nat], PutTable(row),
           table.slug \in Slug, row.slug \in Slug,
           Begin(r, <<OfTable(table.slug)>> \o <<OfTable(row.slug)>>)
    PROVE  TablePut(r, row, <<OfTable(table.slug)>> \o <<OfTable(row.slug)>>)
  <1> DEFINE t == OfTable(table.slug)
             u == OfTable(row.slug)
             tasks == <<t>> \o <<u>>
  <1>1. /\ t \in Task /\ t.do = "table" /\ t.slug = table.slug
        /\ u \in Task /\ u.do = "table" /\ u.slug = row.slug
    BY TasksMade DEF OfTable
  <1> HIDE DEF t, u
  <1>2. tasks \in Seq(Task) /\ Len(tasks) = 2 /\ tasks[1] = t /\ tasks[2] = u
    BY <1>1
  <1>3. Begin(r, tasks)
    BY DEF t, u
  <1> HIDE DEF tasks
  <1>4. \A i \in 1 .. Len(tasks) : tasks[i].do = "table"
    BY <1>1, <1>2
  <1>5. /\ \E i \in 1 .. Len(tasks) : tasks[i].slug = table.slug
        /\ \E i \in 1 .. Len(tasks) : tasks[i].slug = row.slug
    <2>1. 1 \in 1 .. Len(tasks) /\ 2 \in 1 .. Len(tasks)
      BY <1>2
    <2> QED
      BY <1>1, <1>2, <2>1
  <1>6. TablePut(r, row, tasks)
    BY <1>2, <1>3, <1>4, <1>5 DEF TablePut
  <1> QED
    BY <1>6 DEF tasks, t, u

LEMMA TablePutNone ==
    ASSUME NEW r, NEW row \in [slug : Slug \union {NoSlug}, rows : Nat], PutTable(row),
           table.slug = NoSlug, row.rows = 0, Begin(r, <<>>)
    PROVE  TablePut(r, row, <<>>)
  BY NoTask DEF TablePut

LEMMA TableVerbs ==
    ASSUME BaseInv, NEW r \in Request, TableVerb(r)
    PROVE  \E row, tasks : TablePut(r, row, tasks)
  <1>1. table \in [slug : Slug \union {NoSlug}, rows : Nat] /\ writes + 1 \in Nat
    BY RebuildBounds DEF BaseInv, TablesOK, CountsOK
  <1>2. ASSUME DeleteTable(r)
        PROVE  \E row, tasks : TablePut(r, row, tasks)
    <2> DEFINE row == [slug |-> NoSlug, rows |-> 0]
    <2>1. table.slug \in Slug /\ PutTable(row) /\ Begin(r, <<OfTable(table.slug)>>)
      BY <1>1, <1>2 DEF DeleteTable
    <2>2. row \in [slug : Slug \union {NoSlug}, rows : Nat] /\ row.rows = 0
      OBVIOUS
    <2> HIDE DEF row
    <2>3. TablePut(r, row, <<OfTable(table.slug)>>)
      BY <2>1, <2>2, TablePutOne
    <2> QED
      BY <2>3
  <1>3. ASSUME NEW s \in Slug, SaveTable(r, s)
        PROVE  \E row, tasks : TablePut(r, row, tasks)
    <2> DEFINE row == [slug |-> s, rows |-> IF table.rows = 0 THEN 0 ELSE writes + 1]
    <2>1. /\ table.slug \in Slug /\ PutTable(row)
          /\ s = table.slug => Begin(r, <<OfTable(table.slug)>> \o <<>>)
          /\ s # table.slug => Begin(r, <<OfTable(table.slug)>> \o <<OfTable(s)>>)
      BY <1>1, <1>3 DEF SaveTable
    <2>2. row \in [slug : Slug \union {NoSlug}, rows : Nat] /\ row.slug = s
      BY <1>1
    <2> HIDE DEF row
    <2>3. CASE s = table.slug
      <3>1. <<OfTable(table.slug)>> \o <<>> = <<OfTable(table.slug)>>
        <4>1. OfTable(table.slug) \in Task
          BY <2>1, TasksMade
        <4> QED
          BY <4>1
      <3>2. Begin(r, <<OfTable(table.slug)>>)
        BY <2>1, <2>3, <3>1
      <3>3. TablePut(r, row, <<OfTable(table.slug)>>)
        BY <2>1, <2>2, <2>3, <3>2, TablePutOne
      <3> QED
        BY <3>3
    <2>4. CASE s # table.slug
      <3>1. TablePut(r, row, <<OfTable(table.slug)>> \o <<OfTable(row.slug)>>)
        BY <2>1, <2>2, <2>4, TablePutTwo
      <3> QED
        BY <3>1
    <2> QED
      BY <2>3, <2>4
  <1>4. ASSUME NEW s \in Slug, CreateTable(r, s)
        PROVE  \E row, tasks : TablePut(r, row, tasks)
    <2> DEFINE row == [slug |-> s, rows |-> 0]
    <2>1. table.slug = NoSlug /\ PutTable(row) /\ Begin(r, <<>>)
      BY <1>4 DEF CreateTable
    <2>2. row \in [slug : Slug \union {NoSlug}, rows : Nat] /\ row.rows = 0
      OBVIOUS
    <2> HIDE DEF row
    <2>3. TablePut(r, row, <<>>)
      BY <2>1, <2>2, TablePutNone
    <2> QED
      BY <2>3
  <1>5. ASSUME NEW rows \in {0, writes + 1}, WriteRow(r, rows)
        PROVE  \E row, tasks : TablePut(r, row, tasks)
    <2> DEFINE row == [table EXCEPT !.rows = rows]
    <2>1. table.slug \in Slug /\ PutTable(row) /\ Begin(r, <<OfTable(table.slug)>>)
      BY <1>1, <1>5 DEF WriteRow
    <2>2. row \in [slug : Slug \union {NoSlug}, rows : Nat] /\ row.slug = table.slug
      BY <1>1
    <2> HIDE DEF row
    <2>3. TablePut(r, row, <<OfTable(table.slug)>>)
      BY <2>1, <2>2, TablePutOne
    <2> QED
      BY <2>3
  <1> QED
    BY <1>2, <1>3, <1>4, <1>5 DEF TableVerb

LEMMA TypesTableVerb ==
    ASSUME BaseInv, NEW r \in Request, Idle(r), writes < MaxWrites, TableVerb(r)
    PROVE  BaseInv'
  <1>1. PICK row, tasks : TablePut(r, row, tasks)
    BY TableVerbs
  <1>2. \A i \in 1 .. Len(tasks) : tasks[i].do \notin Destroys
    BY <1>1 DEF Destroys, TablePut
  <1> QED
    BY <1>1, <1>2, TypesPutTable DEF TablePut

\* The task at the head of a request's job, and what is left without it.
LEMMA HeadTask ==
    ASSUME JobsOK, NEW r \in Request, job[r] # <<>>
    PROVE  /\ Head(job[r]) \in Task /\ Head(job[r]) = job[r][1] /\ 1 \in 1 .. Len(job[r])
           /\ Head(job[r]).do \in Destroys => Len(job[r]) = 1
  <1>1. job[r] \in Seq(Task) /\ job[r] # <<>>
    BY DEF JobsOK, Idle
  <1>2. Head(job[r]) = job[r][1] /\ 1 \in 1 .. Len(job[r]) /\ Head(job[r]) \in Task
    BY <1>1
  <1> QED
    BY <1>2 DEF JobsOK

LEMMA TailTasks ==
    ASSUME JobsOK, NEW r \in Request, job[r] # <<>>, job' = [job EXCEPT ![r] = Tail(@)]
    PROVE  /\ JobsOK'
           /\ \A i \in 2 .. Len(job[r]) : i - 1 \in 1 .. Len(job'[r]) /\ job'[r][i - 1] = job[r][i]
           /\ \A q \in Request \ {r} : job'[q] = job[q]
  <1>1. job[r] \in Seq(Task) /\ job[r] # <<>>
    BY DEF JobsOK, Idle
  <1>2. /\ job'[r] = Tail(job[r]) /\ \A q \in Request \ {r} : job'[q] = job[q]
        /\ DOMAIN job' = Request
    BY DEF JobsOK
  <1>3. /\ job'[r] \in Seq(Task) /\ Len(job'[r]) = Len(job[r]) - 1 /\ Len(job[r]) \in Nat
        /\ \A i \in 1 .. Len(job'[r]) : job'[r][i] = job[r][i + 1]
    BY <1>1, <1>2
  <1>4. \A i \in 2 .. Len(job[r]) : i - 1 \in 1 .. Len(job'[r]) /\ job'[r][i - 1] = job[r][i]
    <2> TAKE i \in 2 .. Len(job[r])
    <2>1. i - 1 \in 1 .. Len(job'[r]) /\ (i - 1) + 1 = i
      BY <1>3
    <2> QED
      BY <1>3, <2>1
  <1>5. ASSUME NEW i \in 1 .. Len(job'[r])
        PROVE  job'[r][i].do \notin Destroys
    <2>1. i + 1 \in 1 .. Len(job[r]) /\ Len(job[r]) # 1
      BY <1>3
    <2>2. job[r][i + 1].do \notin Destroys
      BY <2>1 DEF JobsOK
    <2> QED
      BY <1>3, <2>2
  <1>6. job' \in [Request -> Seq(Task)]
    BY <1>1 DEF JobsOK
  <1>7. \A q \in Request : \A i \in 1 .. Len(job'[q]) : job'[q][i].do \in Destroys => Len(job'[q]) = 1
    BY <1>2, <1>5 DEF JobsOK
  <1> QED
    BY <1>2, <1>4, <1>6, <1>7 DEF JobsOK

LEMMA JobReplaced ==
    ASSUME JobsOK, NEW r \in Request, NEW paths \in SUBSET Path, job' = [job EXCEPT ![r] = <<OfPaths(paths)>>]
    PROVE  /\ JobsOK' /\ job'[r] = <<OfPaths(paths)>> /\ \A q \in Request \ {r} : job'[q] = job[q]
  <1> DEFINE t == OfPaths(paths)
             tasks == <<t>>
  <1>1. t \in Task /\ t.do \notin Destroys
    BY TasksMade, TasksKinds
  <1>2. job' = [job EXCEPT ![r] = tasks]
    OBVIOUS
  <1> HIDE DEF t
  <1>3. tasks \in Seq(Task) /\ Len(tasks) = 1
    BY <1>1
  <1>4. \A i \in 1 .. Len(tasks) : tasks[i].do \in Destroys => Len(tasks) = 1
    BY <1>3
  <1> HIDE DEF tasks
  <1>5. JobsOK' /\ job'[r] = tasks /\ \A q \in Request \ {r} : job'[q] = job[q]
    BY <1>2, <1>3, <1>4, JobsBegun
  <1> QED
    BY <1>5 DEF tasks, t

LEMMA JobDropped ==
    ASSUME JobsOK, NEW r \in Request, job' = [job EXCEPT ![r] = <<>>]
    PROVE  /\ JobsOK' /\ job'[r] = <<>> /\ \A q \in Request \ {r} : job'[q] = job[q]
  BY NoTask, JobsBegun

LEMMA TypesDestroyProduct ==
    ASSUME BaseInv, NEW r \in Request, DestroyProduct(r)
    PROVE  BaseInv'
  <1> DEFINE task == Head(job[r])
  <1>1. job[r] # <<>> /\ task.do = "destroy product" /\ UNCHANGED <<redirect, writes, faults>>
    BY DEF DestroyProduct
  <1>2. task \in Task
    BY <1>1, HeadTask DEF BaseInv
  <1>3. task.id \in Product /\ task.paths \in SUBSET Path
    BY <1>1, <1>2, TaskCases
  <1>6. ~Finding(r)
    BY <1>1 DEF BaseInv, LinksOK, Linked, Finding
  <1>4. CASE task.id \in Products
    <2>1. /\ LoseProduct(task.id) /\ job' = [job EXCEPT ![r] = <<OfPaths(task.paths)>>]
          /\ Leaves(TargetsOfProduct(baked, task.id, product[task.id].slug, TRUE) \ task.paths)
      BY <1>4 DEF DestroyProduct
    <2> HIDE DEF task
    <2>2. RowsOK' /\ SiteOK' /\ BakesOK'
      BY <1>3, <2>1, ProductLost, SiteLoses DEF BaseInv
    <2>3. JobsOK' /\ \A q \in Request \ {r} : job'[q] = job[q]
      BY <1>3, <2>1, JobReplaced DEF BaseInv
    <2>6. LinksOK'
      BY <1>6, <2>1, <2>3, LinksStay DEF BaseInv, LoseProduct
    <2>4. TablesOK'
      BY <1>1, <2>1 DEF BaseInv, TablesOK, LoseProduct
    <2>5. CountsOK'
      BY <1>1, <1>4, <2>1, SlugsOfProducts, ProductPathsOK DEF BaseInv, CountsOK, Leaves, LoseProduct
    <2> QED
      BY <2>2, <2>3, <2>4, <2>5, <2>6 DEF BaseInv
  <1>5. CASE task.id \notin Products
    <2>1. job' = [job EXCEPT ![r] = <<>>] /\ UNCHANGED <<product, collection, members, table, site, bake, missed, overlaps>>
      BY <1>5 DEF DestroyProduct, catalogue
    <2>2. RowsOK' /\ Lost' = Lost /\ Products' = Products
      BY <2>1, RowsKept DEF BaseInv
    <2>3. JobsOK' /\ \A q \in Request \ {r} : job'[q] = job[q]
      BY <2>1, JobDropped DEF BaseInv
    <2>4. SiteOK' /\ BakesOK' /\ LinksOK'
      BY <1>6, <2>1, <2>2, <2>3, SiteStays, BakesStay, LinksStay DEF BaseInv
    <2> QED
      BY <1>1, <2>1, <2>2, <2>3, <2>4 DEF BaseInv, TablesOK, CountsOK
  <1> QED
    BY <1>4, <1>5

LEMMA TypesDestroyCollection ==
    ASSUME BaseInv, NEW r \in Request, DestroyCollection(r)
    PROVE  BaseInv'
  <1> DEFINE task == Head(job[r])
  <1>1. job[r] # <<>> /\ task.do = "destroy collection" /\ UNCHANGED <<redirect, site, bake, overlaps, writes, faults>>
    BY DEF DestroyCollection
  <1>2. task \in Task
    BY <1>1, HeadTask DEF BaseInv
  <1>3. task.id \in Collection /\ task.paths \in SUBSET Path
    BY <1>1, <1>2, TaskCases
  <1>6. ~Finding(r)
    BY <1>1 DEF BaseInv, LinksOK, Linked, Finding
  <1>4. CASE task.id \in Collections
    <2>1. /\ LoseCollection(task.id) /\ job' = [job EXCEPT ![r] = <<OfPaths(task.paths)>>]
          /\ Leaves(TargetsOfCollection(baked, collection[task.id].slug) \ task.paths)
      BY <1>4 DEF DestroyCollection
    <2> HIDE DEF task
    <2>2. RowsOK' /\ Lost' = Lost /\ Products' = Products
      BY <1>3, <2>1, CollectionLost DEF BaseInv
    <2>3. JobsOK' /\ \A q \in Request \ {r} : job'[q] = job[q]
      BY <1>3, <2>1, JobReplaced DEF BaseInv
    <2>6. SiteOK' /\ BakesOK' /\ LinksOK'
      BY <1>1, <1>6, <2>2, <2>3, SiteStays, BakesStay, LinksStay DEF BaseInv
    <2>4. TablesOK'
      BY <1>1, <2>1 DEF BaseInv, TablesOK, LoseCollection
    <2>5. CountsOK'
      BY <1>1, <1>4, <2>1, SlugsOfCollections, CollectionPathsOK DEF BaseInv, CountsOK, Leaves
    <2> QED
      BY <2>2, <2>3, <2>4, <2>5, <2>6 DEF BaseInv
  <1>5. CASE task.id \notin Collections
    <2>1. job' = [job EXCEPT ![r] = <<>>] /\ UNCHANGED <<product, collection, members, table, missed>>
      BY <1>5 DEF DestroyCollection, catalogue
    <2>2. RowsOK' /\ Lost' = Lost /\ Products' = Products
      BY <2>1, RowsKept DEF BaseInv
    <2>3. JobsOK' /\ \A q \in Request \ {r} : job'[q] = job[q]
      BY <2>1, JobDropped DEF BaseInv
    <2>4. SiteOK' /\ BakesOK' /\ LinksOK'
      BY <1>1, <1>6, <2>2, <2>3, SiteStays, BakesStay, LinksStay DEF BaseInv
    <2> QED
      BY <1>1, <2>1, <2>2, <2>3, <2>4 DEF BaseInv, TablesOK, CountsOK
  <1> QED
    BY <1>4, <1>5

-----------------------------------------------------------------------------
\* The steps of a bake.
LEMMA SiteSources ==
    ASSUME NEW g
    PROVE  Render(<<"page", g>>).srcs = SrcsOf(g)
  <1>1. Render(<<"page", g>>) = SitePage(g)
    BY RenderPage
  <1>2. SitePage(g).srcs = SrcsOf(g)
    BY DEF SitePage, SrcsOf
  <1> QED
    BY <1>1, <1>2

LEMMA SluggedPaths ==
    /\ Slugged \subseteq Path
    /\ \A g : <<"page", g>> \notin Slugged
  BY DEF Slugged, Path

LEMMA TargetsPaths ==
    ASSUME RowsOK, NEW by, NEW t \in Task
    PROVE  Targets(by, t) \subseteq Path
  <1>1. CASE t.do = "product"
    BY <1>1, TaskCases, TargetsOfProductPaths DEF Targets
  <1>2. CASE t.do = "collection"
    BY <1>2, TaskCases, TargetsOfCollectionPaths DEF Targets
  <1>3. CASE t.do = "load product"
    BY <1>3, SlugsOfProducts, TargetsOfProductPaths DEF Targets
  <1>4. CASE t.do = "load collection"
    BY <1>4, SlugsOfCollections, TargetsOfCollectionPaths DEF Targets
  <1>5. CASE t.do \in {"table", "paths", "publish", "found"} \union Destroys
    BY <1>5, TaskCases DEF Targets, Loops, Destroys
  <1> QED
    BY <1>1, <1>2, <1>3, <1>4, <1>5, TaskCases DEF Destroys

LEMMA OldPathSlugged ==
    ASSUME NEW t \in Task
    PROVE  OldPath(t) \subseteq Slugged
  <1>1. CASE t.do \in {"product", "collection"}
    <2>1. t.old \in Slug
      BY <1>1, TaskCases
    <2>2. <<t.do, t.old>> \in Slugged
      BY <1>1, <2>1 DEF Slugged
    <2>3. OldPath(t) = IF t.old # t.slug THEN {<<t.do, t.old>>} ELSE {}
      BY <1>1 DEF OldPath
    <2> QED
      BY <2>2, <2>3
  <1>3. CASE t.do = "found"
    BY <1>3, TaskCases DEF OldPath
  <1>4. CASE t.do \notin {"product", "collection", "found"}
    BY <1>4 DEF OldPath
  <1> QED
    BY <1>1, <1>3, <1>4

LEMMA NoPagesHeld == HeldPages(NoPages) /\ IsBake(NoBake) /\ NoBake.pages = NoPages
  BY DEF HeldPages, NoPages, IsBake, NoBake, Slot

\* One request's bake moves on.
LEMMA BakePut ==
    ASSUME BakesOK, Products' = Products, Lost' = Lost, NEW r \in Request, NEW b,
           IsBake(b), HeldPages(b.pages), bake' = [bake EXCEPT ![r] = b]
    PROVE  BakesOK' /\ bake'[r] = b /\ \A q \in Request \ {r} : bake'[q] = bake[q]
  <1>1. /\ DOMAIN bake' = Request /\ bake'[r] = b
        /\ \A q \in Request \ {r} : bake'[q] = bake[q]
    BY DEF BakesOK
  <1>2. ASSUME NEW q \in Request
        PROVE  IsBake(bake'[q]) /\ HeldPages(bake'[q].pages)
    BY <1>1 DEF BakesOK
  <1>3. ASSUME NEW q \in Request
        PROVE  HeldPages(bake[q].pages)' /\ IsBake(bake[q])'
    BY <1>2 DEF HeldPages, IsBake
  <1> QED
    BY <1>1, <1>3 DEF BakesOK

LEMMA LinksPut ==
    ASSUME LinksOK, NEW r \in Request,
           \A q \in Request \ {r} : bake'[q] = bake[q] /\ job'[q] = job[q],
           Linked(bake'[r], job'[r])
    PROVE  LinksOK'
  BY DEF LinksOK

\* The next task is replaced by what the index says of it.
LEMMA HeadReplaced ==
    ASSUME JobsOK, NEW r \in Request, job[r] # <<>>, Head(job[r]).do \notin Destroys,
           NEW t \in Task, t.do \notin Destroys, job' = [job EXCEPT ![r] = <<t>> \o Tail(@)]
    PROVE  /\ JobsOK' /\ job'[r] # <<>> /\ Head(job'[r]) = t /\ job'[r][1] = t
           /\ Len(job'[r]) = Len(job[r])
           /\ \A i \in 2 .. Len(job[r]) : job'[r][i] = job[r][i]
           /\ \A q \in Request \ {r} : job'[q] = job[q]
  <1>1. job[r] \in Seq(Task)
    BY DEF JobsOK
  <1>2. /\ job'[r] = <<t>> \o Tail(job[r]) /\ \A q \in Request \ {r} : job'[q] = job[q]
        /\ DOMAIN job' = Request
    BY DEF JobsOK
  <1> DEFINE new == <<t>> \o Tail(job[r])
  <1>3. /\ new \in Seq(Task) /\ Len(new) = Len(job[r]) /\ new # <<>> /\ Head(new) = t /\ new[1] = t
        /\ \A i \in 2 .. Len(job[r]) : new[i] = job[r][i]
    BY <1>1
  <1>4. job'[r] = new
    BY <1>2
  <1> HIDE DEF new
  <1>5. ASSUME NEW i \in 1 .. Len(job'[r])
        PROVE  job'[r][i].do \notin Destroys
    <2>1. CASE i = 1
      BY <1>3, <1>4, <2>1
    <2>2. CASE i # 1
      <3>1. i \in 2 .. Len(job[r]) /\ i \in 1 .. Len(job[r]) /\ 1 \in 1 .. Len(job[r])
        BY <1>1, <1>3, <1>4, <2>2
      <3>2. Len(job[r]) # 1
        <4> DEFINE n == Len(job[r])
        <4>1. n \in Nat /\ i \in 2 .. n
          BY <1>1, <3>1
        <4> HIDE DEF n
        <4>2. n # 1
          BY <4>1
        <4> QED
          BY <4>2 DEF n
      <3>3. job[r][i].do \notin Destroys
        BY <3>1, <3>2 DEF JobsOK
      <3> QED
        BY <1>3, <1>4, <3>1, <3>3
    <2> QED
      BY <2>1, <2>2
  <1>6. job' \in [Request -> Seq(Task)]
    BY <1>2, <1>3, <1>4 DEF JobsOK
  <1>7. \A q \in Request : \A i \in 1 .. Len(job'[q]) : job'[q][i].do \in Destroys => Len(job'[q]) = 1
    BY <1>2, <1>5 DEF JobsOK
  <1> QED
    BY <1>2, <1>3, <1>4, <1>6, <1>7 DEF JobsOK

LEMMA TypesPublish ==
    ASSUME BaseInv, NEW r \in Request, Publish(r)
    PROVE  BaseInv'
  <1> DEFINE tasks == <<OfSite>>
  <1>1. /\ Idle(r) /\ job' = [job EXCEPT ![r] = tasks]
        /\ UNCHANGED <<product, collection, members, table, redirect, site, bake, missed, overlaps,
                       writes, faults>>
    BY DEF Publish, catalogue
  <1>2. tasks \in Seq(Task) /\ \A i \in 1 .. Len(tasks) : tasks[i].do \in Destroys => Len(tasks) = 1
    BY TasksMade, OneTask
  <1> HIDE DEF tasks
  <1>3. RowsOK' /\ Lost' = Lost /\ Products' = Products
    BY <1>1, RowsKept DEF BaseInv
  <1>4. JobsOK' /\ \A q \in Request \ {r} : job'[q] = job[q]
    BY <1>1, <1>2, JobsBegun DEF BaseInv
  <1>5. SiteOK' /\ BakesOK' /\ LinksOK'
    BY <1>1, <1>3, <1>4, IdleIs, SiteStays, BakesStay, LinksStay DEF BaseInv
  <1> QED
    BY <1>1, <1>3, <1>4, <1>5 DEF BaseInv, TablesOK, CountsOK

LEMMA NotFinding ==
    ASSUME NEW r, ~Baking(r)
    PROVE  ~Finding(r)
  BY DEF Baking, NoBake, Finding

LEMMA TypesSkip ==
    ASSUME BaseInv, NEW r \in Request, Skip(r)
    PROVE  BaseInv'
  <1>1. /\ job[r] # <<>> /\ ~Baking(r) /\ job' = [job EXCEPT ![r] = Tail(@)]
        /\ UNCHANGED <<product, collection, members, table, redirect, site, bake, missed, overlaps,
                       writes, faults>>
    BY DEF Skip, catalogue
  <1>2. RowsOK' /\ Lost' = Lost /\ Products' = Products
    BY <1>1, RowsKept DEF BaseInv
  <1>3. JobsOK' /\ \A q \in Request \ {r} : job'[q] = job[q]
    BY <1>1, TailTasks DEF BaseInv
  <1>4. SiteOK' /\ BakesOK' /\ LinksOK'
    BY <1>1, <1>2, <1>3, NotFinding, SiteStays, BakesStay, LinksStay DEF BaseInv
  <1> QED
    BY <1>1, <1>2, <1>3, <1>4 DEF BaseInv, TablesOK, CountsOK

LEMMA TypesFind ==
    ASSUME BaseInv, NEW r \in Request, Find(r)
    PROVE  BaseInv'
  <1> DEFINE task  == Head(job[r])
             found == Found(Targets(index, task), OldPath(task))
             b     == [step |-> "found", of |-> task.do, from |-> live, pages |-> NoPages]
  <1>1. /\ job[r] # <<>> /\ ~Baking(r) /\ task.do \notin Destroys
        /\ job' = [job EXCEPT ![r] = <<found>> \o Tail(@)]
        /\ bake' = [bake EXCEPT ![r] = b]
        /\ UNCHANGED <<product, collection, members, table, redirect, site, missed, writes, faults>>
    BY DEF Find, catalogue, Destroys
  <1>2. overlaps' \in 0 .. MaxOverlaps
    <2>1. overlaps \in 0 .. MaxOverlaps /\ MaxOverlaps \in Nat
      BY RebuildBounds DEF BaseInv, CountsOK
    <2>2. \/ overlaps < MaxOverlaps /\ overlaps' = overlaps + 1
          \/ overlaps' = 0
          \/ overlaps' = overlaps
      BY DEF Find
    <2> QED
      BY <2>1, <2>2
  <1>3. task \in Task
    BY <1>1, HeadTask DEF BaseInv
  <1>4. found \in Task /\ found.do = "found" /\ found.do \notin Destroys
    <2>1. Targets(index, task) \subseteq Path /\ OldPath(task) \subseteq Slugged
      BY <1>3, TargetsPaths, OldPathSlugged DEF BaseInv
    <2> QED
      BY <2>1, TasksMade, TasksKinds DEF Found
  <1>5. IsBake(b) /\ HeldPages(b.pages)
    BY NoPagesHeld DEF IsBake, BaseInv, SiteOK
  <1>6. Linked(b, <<found>> \o Tail(job[r]))
    <2>1. Head(<<found>> \o Tail(job[r])) = found /\ <<found>> \o Tail(job[r]) # <<>>
      <3> HIDE DEF found
      <3>1. job[r] \in Seq(Task)
        BY DEF BaseInv, JobsOK
      <3> QED
        BY <1>1, <1>4, <3>1
    <2>2. task.do = "publish" => found.paths = Path /\ found.dropped = {}
      BY DEF Found, Targets, OldPath
    <2>3. task.do = "table" => found.dropped = {}
      BY DEF Found, OldPath
    <2> HIDE DEF found, task
    <2> QED
      BY <1>4, <2>1, <2>2, <2>3 DEF Linked
  <1> HIDE DEF task, found, b
  <1>7. RowsOK' /\ Lost' = Lost /\ Products' = Products
    BY <1>1, RowsKept DEF BaseInv
  <1>8. JobsOK' /\ \A q \in Request \ {r} : job'[q] = job[q]
    BY <1>1, <1>4, HeadReplaced DEF BaseInv, task
  <1>9. BakesOK' /\ bake'[r] = b /\ \A q \in Request \ {r} : bake'[q] = bake[q]
    BY <1>1, <1>5, <1>7, BakePut DEF BaseInv
  <1>10. SiteOK'
    BY <1>1, <1>7, SiteStays DEF BaseInv
  <1>11. LinksOK'
    <2>1. job'[r] = <<found>> \o Tail(job[r])
      BY <1>1 DEF BaseInv, JobsOK
    <2> QED
      BY <1>6, <1>8, <1>9, <2>1, LinksPut DEF BaseInv
  <1> QED
    BY <1>1, <1>2, <1>7, <1>8, <1>9, <1>10, <1>11 DEF BaseInv, TablesOK, CountsOK

LEMMA BakeIs ==
    ASSUME BakesOK, NEW r \in Request
    PROVE  /\ IsBake(bake[r]) /\ HeldPages(bake[r].pages)
           /\ bake[r].from \in Slot /\ Other(bake[r].from) \in Slot
  BY DEF BakesOK, IsBake, Slot, Other

LEMMA TypesCopy ==
    ASSUME BaseInv, NEW r \in Request, Copy(r)
    PROVE  BaseInv'
  <1> DEFINE b == [step |-> "copied", of |-> bake[r].of, from |-> bake[r].from, pages |-> bake[r].pages]
             into == Other(bake[r].from)
  <1>1. /\ bake[r].step = "found" /\ bake' = [bake EXCEPT ![r].step = "copied"]
        /\ files' = [files EXCEPT ![into] = IF bake[r].of = "publish" THEN Empty ELSE files[bake[r].from]]
        /\ UNCHANGED <<product, collection, members, table, redirect, live, index, job, missed,
                       overlaps, writes, faults>>
    BY DEF Copy, catalogue
  <1>2. IsBake(bake[r]) /\ HeldPages(bake[r].pages) /\ bake[r].from \in Slot /\ into \in Slot
    BY BakeIs DEF BaseInv
  <1>3. [bake[r] EXCEPT !.step = "copied"] = b
    BY <1>2 DEF IsBake
  <1>4. bake' = [bake EXCEPT ![r] = b]
    BY <1>1, <1>3
  <1>5. IsBake(b) /\ HeldPages(b.pages)
    BY <1>1, <1>2 DEF IsBake
  <1>6. Linked(b, job[r])
    BY <1>1 DEF BaseInv, LinksOK, Linked
  <1> HIDE DEF b, into
  <1>7. RowsOK' /\ Lost' = Lost /\ Products' = Products
    BY <1>1, RowsKept DEF BaseInv
  <1>8. BakesOK' /\ bake'[r] = b /\ \A q \in Request \ {r} : bake'[q] = bake[q]
    BY <1>4, <1>5, <1>7, BakePut DEF BaseInv
  <1>9. SiteOK'
    BY <1>1, <1>2, <1>7 DEF BaseInv, SiteOK, Empty
  <1>10. LinksOK' /\ JobsOK'
    BY <1>1, <1>6, <1>8, LinksPut DEF BaseInv, JobsOK
  <1> QED
    BY <1>1, <1>7, <1>8, <1>9, <1>10 DEF BaseInv, TablesOK, CountsOK

\* What RenderPages writes.
Rendered(task) ==
    [path \in task.paths \union task.dropped |->
        IF path \in task.dropped THEN Nothing ELSE Render(path)]

LEMMA RenderedHeld ==
    ASSUME RowsOK, NEW task, task.paths \subseteq Path, task.dropped \subseteq Slugged
    PROVE  HeldPages(Rendered(task))
  <1> DEFINE pages == Rendered(task)
  <1>1. /\ DOMAIN pages = task.paths \union task.dropped
        /\ \A path \in DOMAIN pages :
              /\ path \in Path
              /\ \/ path \in Slugged /\ pages[path] = Nothing
                 \/ pages[path] = Render(path)
    BY SluggedPaths DEF Rendered
  <1> HIDE DEF pages
  <1>2. ASSUME NEW path \in DOMAIN pages
        PROVE  /\ IsPage(pages[path])
               /\ pages[path].ids \subseteq Products \union Lost
               /\ pages[path].srcs \subseteq Source
    <2>1. CASE pages[path] = Nothing
      BY <2>1 DEF Nothing, IsPage
    <2>2. CASE pages[path] = Render(path)
      BY <1>1, <2>2, RenderOK, ActiveAreProducts
    <2> QED
      BY <1>1, <2>1, <2>2
  <1>3. ASSUME NEW g \in Page, <<"page", g>> \in DOMAIN pages
        PROVE  pages[<<"page", g>>].srcs = SrcsOf(g)
    BY <1>1, <1>3, SluggedPaths, SiteSources
  <1>4. HeldPages(pages)
    BY <1>1, <1>2, <1>3 DEF HeldPages
  <1> QED
    BY <1>4 DEF pages

\* What RenderPages does, the task's parts named.
LEMMA RenderIs ==
    ASSUME BaseInv, NEW r \in Request, RenderPages(r)
    PROVE  LET task == Head(job[r]) IN
           /\ job[r] # <<>> /\ task.do = "found" /\ task \in Task
           /\ task.paths \subseteq Path /\ task.dropped \subseteq Slugged
           /\ bake[r].step = "copied" /\ bake[r].of = "publish" => task.paths = Path /\ task.dropped = {}
           /\ bake' = [bake EXCEPT ![r] = [step |-> "rendered", of |-> bake[r].of,
                                           from |-> bake[r].from, pages |-> Rendered(task)]]
           /\ Other(bake[r].from) \in Slot
           /\ files' = [files EXCEPT ![Other(bake[r].from)] =
                 [path \in Path |-> IF path \in task.paths \union task.dropped
                                    THEN Rendered(task)[path].shows ELSE @[path]]]
           /\ missed' = (missed \ (task.paths \union task.dropped))
                            \union {path \in task.dropped : Render(path) # Nothing}
           /\ job' = [job EXCEPT ![r] = Tail(@)]
           /\ UNCHANGED <<product, collection, members, table, redirect, live, index, overlaps,
                          writes, faults>>
  <1> DEFINE task == Head(job[r])
  <1>1. bake[r].step = "copied" /\ Linked(bake[r], job[r])
    BY DEF RenderPages, BaseInv, LinksOK
  <1>2. /\ job[r] # <<>> /\ task.do = "found"
        /\ bake[r].of = "publish" => task.paths = Path /\ task.dropped = {}
    BY <1>1 DEF Linked
  <1>3. task \in Task
    BY <1>2, HeadTask DEF BaseInv
  <1>4. task.paths \subseteq Path /\ task.dropped \subseteq Slugged
    BY <1>2, <1>3, TaskCases
  <1>5. IsBake(bake[r]) /\ Other(bake[r].from) \in Slot
    BY BakeIs DEF BaseInv
  <1> DEFINE pages == [path \in task.paths \union task.dropped |->
                         IF path \in task.dropped THEN Nothing ELSE Render(path)]
  <1>6. DOMAIN pages = task.paths \union task.dropped /\ pages = Rendered(task)
    BY DEF Rendered
  <1>7. /\ files' = [files EXCEPT ![Other(bake[r].from)] =
              [path \in Path |-> IF path \in DOMAIN pages THEN pages[path].shows ELSE @[path]]]
        /\ bake' = [bake EXCEPT ![r].step = "rendered", ![r].pages = pages]
        /\ missed' = (missed \ DOMAIN pages) \union {path \in task.dropped : Render(path) # Nothing}
        /\ job' = [job EXCEPT ![r] = Tail(@)]
        /\ UNCHANGED <<product, collection, members, table, redirect, live, index, overlaps,
                       writes, faults>>
    BY DEF RenderPages, catalogue
  <1> HIDE DEF task, pages
  <1>8. [[bake[r] EXCEPT !.step = "rendered"] EXCEPT !.pages = pages]
            = [step |-> "rendered", of |-> bake[r].of, from |-> bake[r].from, pages |-> pages]
    <2>1. [bake[r] EXCEPT !.step = "rendered"]
             = [step |-> "rendered", of |-> bake[r].of, from |-> bake[r].from, pages |-> bake[r].pages]
      BY <1>5 DEF IsBake
    <2>2. \A of, from, old, new :
             [[step |-> "rendered", of |-> of, from |-> from, pages |-> old] EXCEPT !.pages = new]
                = [step |-> "rendered", of |-> of, from |-> from, pages |-> new]
      OBVIOUS
    <2>3. [[step |-> "rendered", of |-> bake[r].of, from |-> bake[r].from,
            pages |-> bake[r].pages] EXCEPT !.pages = pages]
             = [step |-> "rendered", of |-> bake[r].of, from |-> bake[r].from, pages |-> pages]
      BY <2>2
    <2> QED
      BY <2>1, <2>3, Zenon
  <1>9. bake' = [bake EXCEPT ![r] = [step |-> "rendered", of |-> bake[r].of,
                                     from |-> bake[r].from, pages |-> pages]]
    <2>1. bake' = [bake EXCEPT ![r] = [[bake[r] EXCEPT !.step = "rendered"] EXCEPT !.pages = pages]]
      BY <1>7 DEF BaseInv, BakesOK
    <2> QED
      BY <1>8, <2>1
  <1> QED
    BY <1>1, <1>2, <1>3, <1>4, <1>5, <1>6, <1>7, <1>9 DEF task

LEMMA TypesRenderPages ==
    ASSUME BaseInv, NEW r \in Request, RenderPages(r)
    PROVE  BaseInv'
  <1> DEFINE task == Head(job[r])
             b == [step |-> "rendered", of |-> bake[r].of, from |-> bake[r].from,
                   pages |-> Rendered(task)]
  <1>1. /\ job[r] # <<>> /\ task.paths \subseteq Path /\ task.dropped \subseteq Slugged
        /\ bake' = [bake EXCEPT ![r] = b] /\ job' = [job EXCEPT ![r] = Tail(@)]
        /\ missed' = (missed \ (task.paths \union task.dropped))
                            \union {path \in task.dropped : Render(path) # Nothing}
        /\ UNCHANGED <<product, collection, members, table, redirect, live, index, overlaps,
                       writes, faults>>
    BY RenderIs
  <1>2. files' = [files EXCEPT ![Other(bake[r].from)] =
                 [path \in Path |-> IF path \in task.paths \union task.dropped
                                    THEN Rendered(task)[path].shows ELSE @[path]]]
        /\ Other(bake[r].from) \in Slot
    BY RenderIs
  <1>3. IsBake(b) /\ HeldPages(b.pages) /\ Linked(b, Tail(job[r]))
    BY <1>1, RenderedHeld, BakeIs DEF IsBake, BaseInv, Linked
  <1> HIDE DEF task, b
  <1>4. RowsOK' /\ Lost' = Lost /\ Products' = Products
    BY <1>1, RowsKept DEF BaseInv
  <1>5. BakesOK' /\ bake'[r] = b /\ \A q \in Request \ {r} : bake'[q] = bake[q]
    BY <1>1, <1>3, <1>4, BakePut DEF BaseInv
  <1>6. JobsOK' /\ job'[r] = Tail(job[r]) /\ \A q \in Request \ {r} : job'[q] = job[q]
    BY <1>1, TailTasks DEF BaseInv, JobsOK
  <1>7. LinksOK'
    BY <1>3, <1>5, <1>6, LinksPut DEF BaseInv
  <1>8. SiteOK'
    BY <1>1, <1>2, <1>4 DEF BaseInv, SiteOK
  <1>9. missed' \subseteq Path
    BY <1>1, SluggedPaths DEF BaseInv, CountsOK
  <1> QED
    BY <1>1, <1>4, <1>5, <1>6, <1>7, <1>8, <1>9 DEF BaseInv, TablesOK, CountsOK

LEMMA TypesFlip ==
    ASSUME BaseInv, NEW r \in Request, Flip(r)
    PROVE  BaseInv'
  <1> DEFINE b == [step |-> "flipped", of |-> bake[r].of, from |-> bake[r].from, pages |-> bake[r].pages]
  <1>1. /\ bake[r].step = "rendered" /\ bake' = [bake EXCEPT ![r].step = "flipped"]
        /\ live' = Other(bake[r].from)
        /\ UNCHANGED <<product, collection, members, table, redirect, files, index, job, missed,
                       overlaps, writes, faults>>
    BY DEF Flip, catalogue
  <1>2. IsBake(bake[r]) /\ HeldPages(bake[r].pages) /\ Other(bake[r].from) \in Slot
    BY BakeIs DEF BaseInv
  <1>3. bake' = [bake EXCEPT ![r] = b]
    <2>1. [bake[r] EXCEPT !.step = "flipped"] = b
      BY <1>2 DEF IsBake
    <2> QED
      BY <1>1, <2>1
  <1>4. IsBake(b) /\ HeldPages(b.pages) /\ Linked(b, job[r])
    BY <1>2 DEF IsBake, Linked
  <1> HIDE DEF b
  <1>5. RowsOK' /\ Lost' = Lost /\ Products' = Products
    BY <1>1, RowsKept DEF BaseInv
  <1>6. BakesOK' /\ bake'[r] = b /\ \A q \in Request \ {r} : bake'[q] = bake[q]
    BY <1>3, <1>4, <1>5, BakePut DEF BaseInv
  <1>7. SiteOK'
    BY <1>1, <1>2, <1>5 DEF BaseInv, SiteOK
  <1>8. LinksOK' /\ JobsOK'
    BY <1>1, <1>4, <1>6, LinksPut DEF BaseInv, JobsOK
  <1> QED
    BY <1>1, <1>5, <1>6, <1>7, <1>8 DEF BaseInv, TablesOK, CountsOK

\* A request's bake is over.
LEMMA BakeOver ==
    ASSUME BakesOK, LinksOK, Products' = Products, Lost' = Lost, NEW r \in Request,
           bake' = [bake EXCEPT ![r] = NoBake], \A q \in Request \ {r} : job'[q] = job[q]
    PROVE  /\ BakesOK' /\ LinksOK' /\ bake'[r] = NoBake
           /\ \A q \in Request \ {r} : bake'[q] = bake[q]
  <1>1. BakesOK' /\ bake'[r] = NoBake /\ \A q \in Request \ {r} : bake'[q] = bake[q]
    <2>1. IsBake(NoBake) /\ HeldPages(NoBake.pages)
      BY NoPagesHeld
    <2> QED
      BY <2>1, BakePut
  <1>2. \A j : Linked(NoBake, j)
    BY DEF Linked, NoBake
  <1> QED
    BY <1>1, <1>2, LinksPut

LEMMA TypesRecordPages ==
    ASSUME BaseInv, NEW r \in Request, RecordPages(r)
    PROVE  BaseInv'
  <1> DEFINE pages == bake[r].pages
  <1>1. /\ Recordable(r)
        /\ index' = [path \in Path |-> IF path \in DOMAIN pages THEN Entry(pages[path]) ELSE index[path]]
        /\ bake' = [bake EXCEPT ![r] = NoBake]
        /\ UNCHANGED <<product, collection, members, table, redirect, files, live, job, missed,
                       overlaps, writes, faults>>
    BY DEF RecordPages, catalogue, Made
  <1>2. HeldPages(pages)
    BY BakeIs DEF BaseInv
  <1>3. \A path \in DOMAIN pages : pages[path].ids \subseteq Products
    BY <1>1 DEF Recordable, Made
  <1> HIDE DEF pages
  <1>4. RowsOK' /\ Lost' = Lost /\ Products' = Products
    BY <1>1, RowsKept DEF BaseInv
  <1>5. BakesOK' /\ LinksOK'
    BY <1>1, <1>4, BakeOver DEF BaseInv
  <1>6. ASSUME NEW path \in DOMAIN pages
        PROVE  /\ Entry(pages[path]) \in [ids : SUBSET Products, srcs : SUBSET Source]
               /\ Entry(pages[path]).srcs = pages[path].srcs
    BY <1>2, <1>3 DEF Entry, HeldPages
  <1>7. index' \in [Path -> [ids : SUBSET Products, srcs : SUBSET Source]]
    BY <1>1, <1>6 DEF BaseInv, SiteOK
  <1>8. \A g \in Page : index'[<<"page", g>>].srcs = SrcsOf(g)
    BY <1>1, <1>2, <1>6, PathsAre DEF BaseInv, SiteOK, HeldPages
  <1>9. SiteOK'
    BY <1>1, <1>4, <1>7, <1>8 DEF BaseInv, SiteOK
  <1> QED
    BY <1>1, <1>4, <1>5, <1>9 DEF BaseInv, TablesOK, CountsOK, JobsOK

\* The slots of a bake that raises, or of one whose process dies.
LEMMA UndoOK ==
    ASSUME BaseInv, NEW r \in Request, UNCHANGED <<files, live>> \/ Undo(r), index' = index,
           Products' = Products
    PROVE  SiteOK'
  <1>1. bake[r].from \in Slot /\ Other(bake[r].from) \in Slot
    BY BakeIs DEF BaseInv
  <1>2. CASE UNCHANGED <<files, live>>
    BY <1>2 DEF BaseInv, SiteOK
  <1>3. CASE Undo(r) /\ ~UNCHANGED <<files, live>>
    <2>1. files' = [files EXCEPT ![Other(bake[r].from)] = Empty] /\ live' \in Slot
      BY <1>1, <1>3 DEF Undo, BaseInv, SiteOK
    <2> QED
      BY <1>1, <2>1 DEF BaseInv, SiteOK, Empty
  <1> QED
    BY <1>2, <1>3

LEMMA MadePaths ==
    ASSUME BakesOK, NEW r \in Request
    PROVE  Made(r) \subseteq Path
  BY BakeIs DEF Made, HeldPages

LEMMA TypesAbandon ==
    ASSUME BaseInv, NEW r \in Request, Abandon(r), faults' = faults \/ Fault,
           UNCHANGED <<files, live>> \/ Undo(r)
    PROVE  BaseInv'
  <1>1. /\ job' = [job EXCEPT ![r] = <<>>] /\ missed' = missed \union (ToMake(r) \union Made(r))
        /\ bake' = [bake EXCEPT ![r] = NoBake]
        /\ UNCHANGED <<product, collection, members, table, redirect, index, overlaps, writes>>
    BY DEF Abandon, Leaves, catalogue
  <1>2. RowsOK' /\ Lost' = Lost /\ Products' = Products
    BY <1>1, RowsKept DEF BaseInv
  <1>3. JobsOK' /\ \A q \in Request \ {r} : job'[q] = job[q]
    BY <1>1, JobDropped DEF BaseInv
  <1>4. missed' \subseteq Path
    BY <1>1, DuePaths, MadePaths DEF BaseInv, CountsOK
  <1>5. CountsOK'
    BY <1>1, <1>4, RebuildBounds DEF BaseInv, CountsOK, Fault
  <1>6. BakesOK' /\ LinksOK' /\ SiteOK'
    BY <1>1, <1>2, <1>3, BakeOver, UndoOK DEF BaseInv
  <1> QED
    BY <1>1, <1>2, <1>3, <1>5, <1>6 DEF BaseInv, TablesOK

LEMMA TypesGoOn ==
    ASSUME BaseInv, NEW r \in Request, Baking(r), GoOn(r), faults' = faults \/ Fault, Undo(r)
    PROVE  BaseInv'
  <1>1. /\ bake' = [bake EXCEPT ![r] = NoBake]
        /\ UNCHANGED <<product, collection, members, table, redirect, index, overlaps, writes>>
    BY DEF GoOn, catalogue
  <1>2. \/ job' = job /\ missed' = missed \union Made(r)
        \/ Finding(r) /\ job' = [job EXCEPT ![r] = Tail(@)] /\ missed' = missed \union Head(job[r]).paths
    <2>1. IsBake(bake[r])
      BY BakeIs DEF BaseInv
    <2>2. bake[r].step \in {"rendered", "flipped"} \/ Finding(r)
      BY <2>1 DEF IsBake, Baking, Finding
    <2> QED
      BY <2>2 DEF GoOn, Leaves, Finding
  <1>3. ASSUME Finding(r)
        PROVE  job[r] # <<>> /\ Head(job[r]).paths \subseteq Path
    <2>1. job[r] # <<>> /\ Head(job[r]).do = "found"
      BY <1>3 DEF BaseInv, LinksOK, Linked, Finding
    <2> QED
      BY <2>1, HeadTask, TaskCases DEF BaseInv
  <1>4. RowsOK' /\ Lost' = Lost /\ Products' = Products
    BY <1>1, RowsKept DEF BaseInv
  <1>5. JobsOK' /\ \A q \in Request \ {r} : job'[q] = job[q]
    BY <1>2, <1>3, TailTasks DEF BaseInv, JobsOK
  <1>6. missed' \subseteq Path
    BY <1>2, <1>3, MadePaths DEF BaseInv, CountsOK
  <1>7. CountsOK'
    BY <1>1, <1>6, RebuildBounds DEF BaseInv, CountsOK, Fault
  <1>8. BakesOK' /\ LinksOK' /\ SiteOK'
    BY <1>1, <1>4, <1>5, BakeOver, UndoOK DEF BaseInv
  <1> QED
    BY <1>1, <1>4, <1>5, <1>7, <1>8 DEF BaseInv, TablesOK

LEMMA TypesFail ==
    ASSUME BaseInv, NEW r \in Request, Fail(r)
    PROVE  BaseInv'
  <1>1. Baking(r) /\ (faults' = faults \/ Fault) /\ Undo(r) /\ (GoOn(r) \/ Abandon(r))
    BY DEF Fail
  <1> QED
    BY <1>1, TypesGoOn, TypesAbandon

LEMMA TypesVerb ==
    ASSUME BaseInv, NEW r \in Request, Idle(r), writes < MaxWrites,
           ProductVerb(r) \/ CollectionVerb(r) \/ TableVerb(r)
    PROVE  BaseInv'
  <1>1. CASE ProductVerb(r)
    BY <1>1, TypesRetag, TypesDeleteProduct, TypesAdminDeleteProduct, TypesCreateProduct,
       TypesImportProduct, TypesSaveProduct, TypesAdminSetProductCollections DEF ProductVerb
  <1>2. CASE CollectionVerb(r)
    BY <1>2, TypesDeleteCollection, TypesAdminDeleteCollection, TypesCreateCollection,
       TypesSaveCollection, TypesSetCollectionProducts, TypesAdminSetCollectionProducts DEF CollectionVerb
  <1>3. CASE TableVerb(r)
    BY <1>3, TypesTableVerb
  <1> QED
    BY <1>1, <1>2, <1>3

LEMMA TypesStutter ==
    ASSUME BaseInv, UNCHANGED vars
    PROVE  BaseInv'
  <1>1. RowsOK' /\ Lost' = Lost /\ Products' = Products
    BY RowsKept DEF BaseInv, vars, catalogue
  <1>2. SiteOK' /\ BakesOK'
    BY <1>1, SiteStays, BakesStay DEF BaseInv, vars
  <1> QED
    BY <1>1, <1>2 DEF BaseInv, vars, catalogue, TablesOK, JobsOK, CountsOK, LinksOK

LEMMA TypesStep ==
    ASSUME BaseInv, [Next]_vars
    PROVE  BaseInv'
  <1>1. ASSUME NEW r \in Request, Idle(r), writes < MaxWrites,
               ProductVerb(r) \/ CollectionVerb(r) \/ TableVerb(r)
        PROVE  BaseInv'
    BY <1>1, TypesVerb
  <1>2. ASSUME NEW r \in Request, DestroyProduct(r) \/ DestroyCollection(r)
        PROVE  BaseInv'
    BY <1>2, TypesDestroyProduct, TypesDestroyCollection
  <1>3. ASSUME NEW r \in Request, Publish(r) \/ Find(r) \/ Copy(r) \/ RenderPages(r) \/ Flip(r)
        PROVE  BaseInv'
    BY <1>3, TypesPublish, TypesFind, TypesCopy, TypesRenderPages, TypesFlip
  <1>4. ASSUME NEW r \in Request, RecordPages(r) \/ Skip(r) \/ Fail(r)
        PROVE  BaseInv'
    BY <1>4, TypesRecordPages, TypesSkip, TypesFail
  <1>5. ASSUME NEW r \in Request, NoCollection(r) \/ Die(r)
        PROVE  BaseInv'
    BY <1>5, TypesAbandon DEF NoCollection, Die
  <1>6. CASE UNCHANGED vars
    BY <1>6, TypesStutter
  <1> QED
    BY <1>1, <1>2, <1>3, <1>4, <1>5, <1>6 DEF Next

LEMMA TypesInit ==
    ASSUME Init
    PROVE  BaseInv
  <1>1. RowsOK
    <2>1. product \in [Product -> [slug : Slug \union {NoSlug},
                                status : Status \union {"unborn", "gone"}, version : Nat]]
      <3>1. NoRow \in [slug : Slug \union {NoSlug}, status : Status \union {"unborn", "gone"}, version : Nat]
        BY DEF NoRow
      <3>2. [slug : Slug, status : Status, version : {0}]
              \subseteq [slug : Slug \union {NoSlug}, status : Status \union {"unborn", "gone"}, version : Nat]
        OBVIOUS
      <3> QED
        BY <3>1, <3>2 DEF Init
    <2>2. collection \in [Collection -> [slug : Slug \union {NoSlug},
                                      status : Status \union {"unborn", "gone"}, version : Nat]]
      <3>1. NoRow \in [slug : Slug \union {NoSlug}, status : Status \union {"unborn", "gone"}, version : Nat]
        BY DEF NoRow
      <3>2. [slug : Slug, status : {"active"}, version : {0}]
              \subseteq [slug : Slug \union {NoSlug}, status : Status \union {"unborn", "gone"}, version : Nat]
        BY DEF Status
      <3> QED
        BY <3>1, <3>2 DEF Init
    <2>3. \A p \in Products : product[p].slug # NoSlug
      BY PagesAssumption DEF Init, Products, Live, NoRow
    <2>4. \A c \in Collections : collection[c].slug # NoSlug
      BY PagesAssumption DEF Init, Collections, Live, NoRow
    <2> QED
      BY <2>1, <2>2, <2>3, <2>4 DEF Init, RowsOK
  <1>2. TablesOK
    BY DEF Init, TablesOK
  <1>3. SiteOK
    <2>1. /\ live \in Slot /\ DOMAIN files = Slot /\ \A slot \in Slot : DOMAIN files[slot] = Path
      BY DEF Init, Slot, Empty
    <2>2. index = [path \in Path |-> Entry(Render(path))]
      BY DEF Init
    <2>3. ASSUME NEW path \in Path
          PROVE  /\ Entry(Render(path)) \in [ids : SUBSET Products, srcs : SUBSET Source]
                 /\ Entry(Render(path)).srcs = Render(path).srcs
      BY <1>1, RenderOK, ActiveAreProducts DEF Entry
    <2>4. index \in [Path -> [ids : SUBSET Products, srcs : SUBSET Source]]
      BY <2>2, <2>3
    <2>5. \A g \in Page : index[<<"page", g>>].srcs = SrcsOf(g)
      BY <2>2, <2>3, SiteSources, PathsAre
    <2> QED
      BY <2>1, <2>4, <2>5 DEF SiteOK
  <1>4. JobsOK
    BY NoTask DEF Init, JobsOK
  <1>5. BakesOK /\ LinksOK
    <2>1. DOMAIN bake = Request /\ \A r \in Request : bake[r] = NoBake
      BY DEF Init
    <2>2. \A j : Linked(NoBake, j)
      BY DEF Linked, NoBake
    <2> QED
      BY <2>1, <2>2, NoPagesHeld DEF BakesOK, LinksOK
  <1>6. CountsOK
    BY RebuildBounds DEF Init, CountsOK
  <1> QED
    BY <1>1, <1>2, <1>3, <1>4, <1>5, <1>6 DEF BaseInv

LEMMA TypesAlways == Spec => []BaseInv
  BY TypesInit, TypesStep, PTL DEF Spec

\* Type correctness, with what the tables' constraints keep.
THEOREM TypeCorrect == Spec => []TypeOK
  <1>1. BaseInv => TypeOK
    BY DEF BaseInv, RowsOK, TablesOK, SiteOK, BakesOK, IsBake, HeldPages, Made, JobsOK, CountsOK, TypeOK
  <1> QED
    BY <1>1, TypesAlways, PTL

-----------------------------------------------------------------------------
\* Redirects.
LEMMA RecordLandsInOneHop ==
    ASSUME redirect \in [{"product", "collection"} -> [Slug -> Slug \union {NoSlug}]],
           RedirectsLandInOneHop,
           NEW kind \in {"product", "collection"}, NEW old \in Slug, NEW new \in Slug,
           redirect' = Record(kind, old, new)
    PROVE  RedirectsLandInOneHop'
  <1>1. CASE old = new
    BY <1>1 DEF Record, RedirectsLandInOneHop
  <1>2. CASE old # new
    <2> DEFINE before == redirect[kind]
               after  == redirect'[kind]
    <2>1. before \in [Slug -> Slug \union {NoSlug}]
      OBVIOUS
    <2>2. redirect' = [redirect EXCEPT ![kind] =
            [s \in Slug |-> IF s = new THEN NoSlug
                            ELSE IF s = old \/ @[s] = old THEN new ELSE @[s]]]
      BY <1>2 DEF Record
    <2>3. after = [s \in Slug |-> IF s = new THEN NoSlug
                                  ELSE IF s = old \/ before[s] = old THEN new ELSE before[s]]
      BY <2>2
    <2>4. DOMAIN redirect' = DOMAIN redirect /\ \A k \in DOMAIN redirect : k # kind => redirect'[k] = redirect[k]
      BY <2>2
    <2>5. \A s \in Slug : before[s] # NoSlug => before[before[s]] = NoSlug
      BY DEF RedirectsLandInOneHop
    <2> HIDE DEF before, after
    <2>6. /\ after[new] = NoSlug /\ after[old] = new
          /\ \A s \in Slug \ {new, old} : after[s] = IF before[s] = old THEN new ELSE before[s]
      BY <1>2, <2>3
    <2>7. ASSUME NEW s \in Slug, after[s] # NoSlug
          PROVE  after[after[s]] = NoSlug
      <3>1. CASE after[s] = new
        BY <2>6, <3>1
      <3>2. CASE after[s] # new
        <4>1. s # new /\ s # old /\ before[s] # old /\ after[s] = before[s]
          BY <2>6, <2>7, <3>2
        <4>2. before[s] \in Slug \ {new, old} /\ before[before[s]] = NoSlug
          BY <2>1, <2>5, <2>7, <3>2, <4>1
        <4>3. after[before[s]] = NoSlug
          BY <2>6, <4>2, PagesAssumption
        <4> QED
          BY <4>1, <4>3
      <3> QED
        BY <3>1, <3>2
    <2> QED
      BY <2>4, <2>7 DEF RedirectsLandInOneHop, after
  <1> QED
    BY <1>1, <1>2

LEMMA RedirectsStep ==
    ASSUME BaseInv, RedirectsLandInOneHop, [Next]_vars
    PROVE  RedirectsLandInOneHop'
  <1>1. CASE redirect' = redirect
    BY <1>1 DEF RedirectsLandInOneHop
  <1>2. ASSUME NEW r \in Request, NEW p \in Product, NEW s \in Slug, NEW status \in Status,
               NEW byAdmin \in BOOLEAN, SaveProduct(r, p, s, status, byAdmin)
        PROVE  RedirectsLandInOneHop'
    <2>1. product[p].slug \in Slug
      BY <1>2, SlugsOfProducts DEF SaveProduct, BaseInv
    <2>2. redirect' = redirect \/ redirect' = Record("product", product[p].slug, s)
      BY <1>2 DEF SaveProduct
    <2> QED
      BY <1>1, <2>1, <2>2, RecordLandsInOneHop DEF BaseInv, TablesOK
  <1>3. ASSUME NEW r \in Request, NEW c \in Collection, NEW s \in Slug,
               NEW byAdmin \in BOOLEAN, SaveCollection(r, c, s, byAdmin)
        PROVE  RedirectsLandInOneHop'
    <2>1. collection[c].slug \in Slug
      BY <1>3, SlugsOfCollections DEF SaveCollection, BaseInv
    <2>2. redirect' = redirect \/ redirect' = Record("collection", collection[c].slug, s)
      BY <1>3 DEF SaveCollection
    <2> QED
      BY <1>1, <2>1, <2>2, RecordLandsInOneHop DEF BaseInv, TablesOK
  <1>4. ASSUME NEW r \in Request, ProductVerb(r)
        PROVE  RedirectsLandInOneHop'
    <2>1. \/ redirect' = redirect
          \/ \E p \in Product, s \in Slug, status \in Status, byAdmin \in BOOLEAN :
                SaveProduct(r, p, s, status, byAdmin)
      BY <1>4 DEF ProductVerb, Retag, DeleteProduct, AdminDeleteProduct, CreateProduct, ImportProduct,
                  AdminSetProductCollections
    <2> QED
      BY <1>1, <1>2, <2>1
  <1>5. ASSUME NEW r \in Request, CollectionVerb(r)
        PROVE  RedirectsLandInOneHop'
    <2>1. \/ redirect' = redirect
          \/ \E c \in Collection, s \in Slug, byAdmin \in BOOLEAN : SaveCollection(r, c, s, byAdmin)
      BY <1>5 DEF CollectionVerb, DeleteCollection, AdminDeleteCollection, CreateCollection,
                  SetCollectionProducts, AdminSetCollectionProducts
    <2> QED
      BY <1>1, <1>3, <2>1
  <1>6. ASSUME NEW r \in Request, TableVerb(r)
        PROVE  redirect' = redirect
    BY <1>6 DEF TableVerb, DeleteTable, SaveTable, CreateTable, WriteRow, PutTable
  <1>7. ASSUME NEW r \in Request,
               \/ DestroyProduct(r) \/ DestroyCollection(r)
               \/ Publish(r) \/ Find(r) \/ Copy(r) \/ RenderPages(r) \/ Flip(r) \/ RecordPages(r)
               \/ Skip(r) \/ NoCollection(r) \/ Fail(r) \/ Die(r)
        PROVE  redirect' = redirect
    BY <1>7 DEF DestroyProduct, DestroyCollection, Publish, Find, Copy, RenderPages, Flip,
                RecordPages, Skip, NoCollection, Fail, Die, Abandon, GoOn
  <1>8. CASE UNCHANGED vars
    BY <1>1, <1>8 DEF vars
  <1> QED
    BY <1>1, <1>4, <1>5, <1>6, <1>7, <1>8 DEF Next

\* Whatever is renamed, in whatever order, no redirect leads to a slug that
\* is itself redirected (slug_redirect.rb).
THEOREM OneHopAlways == Spec => []RedirectsLandInOneHop
  <1>1. Init => RedirectsLandInOneHop
    BY DEF Init, RedirectsLandInOneHop
  <1> QED
    BY <1>1, RedirectsStep, TypesAlways, PTL DEF Spec

-----------------------------------------------------------------------------
\* What was last made of each path, while at most one bake is under way.
Lone == \A q, r \in Request : Baking(q) /\ Baking(r) => q = r

Placed(path) == [shows |-> files[live][path], ids |-> index[path].ids, srcs |-> index[path].srcs]

LEMMA MadeIs ==
    ASSUME BakesOK, NEW r \in Request, NEW path \in Made(r)
    PROVE  Baking(r) /\ bake[r].step \in {"rendered", "flipped"} /\ path \in Path
  <1>1. IsBake(bake[r]) /\ HeldPages(bake[r].pages)
    BY BakeIs
  <1>2. DOMAIN NoPages = {}
    BY DEF NoPages
  <1> QED
    BY <1>1, <1>2 DEF IsBake, HeldPages, Made, Baking, NoBake

BakedSays == BakesOK /\ Lone => \A path \in Path :
    /\ \A r \in Request : path \in Made(r) => baked[path] = Extant(bake[r].pages[path])
    /\ (\A r \in Request : path \notin Made(r)) => baked[path] = Placed(path)
    /\ \A r \in Request : (\A q \in Request \ {r} : ~Baking(q)) /\ path \notin Made(r)
                             => baked[path] = Placed(path)

LEMMA BakedIs == BakedSays
  <1> SUFFICES ASSUME BakesOK, Lone, NEW path \in Path
               PROVE  /\ \A r \in Request : path \in Made(r) => baked[path] = Extant(bake[r].pages[path])
                      /\ (\A r \in Request : path \notin Made(r)) => baked[path] = Placed(path)
                      /\ \A r \in Request : (\A q \in Request \ {r} : ~Baking(q)) /\ path \notin Made(r)
                                               => baked[path] = Placed(path)
    BY DEF BakedSays
  <1>1. ASSUME NEW r \in Request, path \in Made(r)
        PROVE  baked[path] = Extant(bake[r].pages[path])
    <2>1. Makers(path) = {r}
      BY <1>1, MadeIs DEF Makers, Lone
    <2>2. (CHOOSE q \in Makers(path) : TRUE) = r /\ Makers(path) # {}
      BY <2>1
    <2> QED
      BY <2>2 DEF baked
  <1>2. ASSUME \A r \in Request : path \notin Made(r)
        PROVE  baked[path] = Placed(path)
    BY <1>2 DEF baked, Makers, Placed
  <1>3. ASSUME NEW r \in Request, \A q \in Request \ {r} : ~Baking(q), path \notin Made(r)
        PROVE  baked[path] = Placed(path)
    BY <1>2, <1>3, MadeIs
  <1> QED
    BY <1>1, <1>2, <1>3

LEMMA BakedIsNext == BakedSays'
  BY BakedIs, PTL

\* Each page is one, lists products that are there, and loops what it should.
PagesOK ==
    /\ \A path \in Path : /\ IsPage(baked[path])
                          /\ baked[path].ids \subseteq Products /\ baked[path].srcs \subseteq Source
    /\ \A g \in Page : baked[<<"page", g>>].srcs = SrcsOf(g)

ExtantSays == \A page : IsPage(page) =>
    Extant(page) = [shows |-> page.shows, ids |-> {p \in page.ids : product[p] # Gone}, srcs |-> page.srcs]

LEMMA ExtantIs == ExtantSays
  <1> SUFFICES ASSUME NEW page, IsPage(page)
               PROVE  Extant(page) = [shows |-> page.shows, ids |-> {p \in page.ids : product[p] # Gone},
                                      srcs |-> page.srcs]
    BY DEF ExtantSays
  <1> QED
    BY DEF Extant, IsPage

LEMMA ExtantIsNext == ExtantSays'
  BY ExtantIs, PTL

PagesAreOK == BaseInv /\ Lone => PagesOK
LEMMA PagesAre == PagesAreOK
  <1> SUFFICES ASSUME BaseInv, Lone
               PROVE  PagesOK
    BY DEF PagesAreOK
  <1>1. ASSUME NEW path \in Path
        PROVE  /\ IsPage(baked[path])
               /\ baked[path].ids \subseteq Products /\ baked[path].srcs \subseteq Source
               /\ \A g \in Page : path = <<"page", g>> => baked[path].srcs = SrcsOf(g)
    <2>1. CASE \A r \in Request : path \notin Made(r)
      <3>1. baked[path] = Placed(path)
        BY <2>1, BakedIs DEF BakedSays, BaseInv
      <3> QED
        BY <3>1 DEF Placed, IsPage, BaseInv, SiteOK
    <2>2. ASSUME NEW r \in Request, path \in Made(r)
          PROVE  /\ IsPage(baked[path])
                 /\ baked[path].ids \subseteq Products /\ baked[path].srcs \subseteq Source
                 /\ \A g \in Page : path = <<"page", g>> => baked[path].srcs = SrcsOf(g)
      <3> DEFINE page == bake[r].pages[path]
      <3>1. baked[path] = Extant(page)
        BY <2>2, BakedIs DEF BakedSays, BaseInv
      <3>2. /\ IsPage(page) /\ page.ids \subseteq Products \union Lost /\ page.srcs \subseteq Source
            /\ \A g \in Page : path = <<"page", g>> => page.srcs = SrcsOf(g)
        BY <2>2, BakeIs DEF BaseInv, HeldPages, Made
      <3> HIDE DEF page
      <3>3. Extant(page) = [shows |-> page.shows, ids |-> {p \in page.ids : product[p] # Gone}, srcs |-> page.srcs]
        BY <3>2, ExtantIs DEF ExtantSays
      <3>4. {p \in page.ids : product[p] # Gone} \subseteq Products
        BY <3>2 DEF Lost
      <3> QED
        BY <3>1, <3>2, <3>3, <3>4 DEF IsPage
    <2> QED
      BY <2>1, <2>2
  <1> QED
    BY <1>1, PathsAre DEF PagesOK
LEMMA PagesAreNext == PagesAreOK'
  BY PagesAre, PTL

Base == BaseInv /\ Lone /\ PagesOK

\* A write leaves what was made alone, but for the product it destroys.
LEMMA BakedStays ==
    ASSUME Base, Base', UNCHANGED <<files, live, index>>, \A r \in Request : bake'[r] = bake[r],
           Lost' = Lost
    PROVE  baked' = baked
  <1>1. \A r \in Request : Made(r)' = Made(r)
    BY DEF Made
  <1>2. \A path \in Path : Placed(path)' = Placed(path)
    BY DEF Placed
  <1>3. \A p \in Product : product'[p] = Gone <=> product[p] = Gone
    BY DEF Lost
  <1>4. ASSUME NEW path \in Path
        PROVE  baked'[path] = baked[path]
    <2>1. CASE \A r \in Request : path \notin Made(r)
      BY <1>1, <1>2, <2>1, BakedIs, BakedIsNext DEF BakedSays, Base, BaseInv
    <2>2. ASSUME NEW r \in Request, path \in Made(r)
          PROVE  baked'[path] = baked[path]
      <3>0. PICK page : page = bake[r].pages[path]
        OBVIOUS
      <3>1. baked[path] = Extant(page)
        BY <2>2, <3>0, BakedIs DEF BakedSays, Base, BaseInv
      <3>2. IsPage(page) /\ page.ids \subseteq Products \union Lost
        BY <2>2, <3>0, BakeIs DEF Base, BaseInv, HeldPages, Made
      <3>3. baked'[path] = Extant(page)'
        <4>1. baked'[path] = Extant(bake[r].pages[path])'
          BY <1>1, <2>2, BakedIsNext DEF BakedSays, Base, BaseInv
        <4> QED
          BY <3>0, <4>1 DEF Extant
      <3>4. page.ids \subseteq Product
        BY <3>2 DEF Products, Lost
      <3>5. {p \in page.ids : product'[p] # Gone} = {p \in page.ids : product[p] # Gone}
        BY <1>3, <3>4
      <3>6. Extant(page) = [shows |-> page.shows, ids |-> {p \in page.ids : product[p] # Gone}, srcs |-> page.srcs]
        BY <3>2, ExtantIs DEF ExtantSays
      <3>7. Extant(page)' = [shows |-> page.shows, ids |-> {p \in page.ids : product'[p] # Gone}, srcs |-> page.srcs]
        BY <3>2, ExtantIsNext DEF ExtantSays, IsPage
      <3> QED
        BY <3>1, <3>3, <3>5, <3>6, <3>7
    <2> QED
      BY <2>1, <2>2
  <1>5. baked' = [path \in Path |-> baked'[path]] /\ baked = [path \in Path |-> baked[path]]
    BY DEF baked
  <1> QED
    BY <1>4, <1>5

LEMMA BakedLoses ==
    ASSUME Base, Base', NEW p \in Product, LoseProduct(p), NEW path \in Path
    PROVE  /\ baked'[path].ids = baked[path].ids \ {p} /\ baked'[path].srcs = baked[path].srcs
           /\ p \notin baked[path].ids => baked'[path] = baked[path]
  <1>1. /\ product'[p] = Gone /\ \A q \in Product \ {p} : product'[q] = product[q]
        /\ index'[path].ids = index[path].ids \ {p} /\ index'[path].srcs = index[path].srcs
        /\ UNCHANGED <<files, live, bake>>
    <2>1. index'[path] = [index[path] EXCEPT !.ids = @ \ {p}] /\ index[path] \in [ids : SUBSET Products, srcs : SUBSET Source]
      BY DEF LoseProduct, Base, BaseInv, SiteOK
    <2>2. index[path] = [ids |-> index[path].ids, srcs |-> index[path].srcs]
      BY <2>1
    <2>3. index'[path] = [ids |-> index[path].ids \ {p}, srcs |-> index[path].srcs]
      BY <2>1, <2>2
    <2> QED
      BY <2>3 DEF LoseProduct, Base, BaseInv, RowsOK
  <1>2. \A r \in Request : Made(r)' = Made(r)
    BY <1>1 DEF Made
  <1>3. CASE \A r \in Request : path \notin Made(r)
    <2>1. baked[path] = Placed(path) /\ baked'[path] = Placed(path)'
      BY <1>2, <1>3, BakedIs, BakedIsNext DEF BakedSays, Base, BaseInv
    <2>2. PICK ids, srcs, shows : ids = index[path].ids /\ srcs = index[path].srcs /\ shows = files[live][path]
      OBVIOUS
    <2>3. Placed(path) = [shows |-> shows, ids |-> ids, srcs |-> srcs]
      BY <2>2 DEF Placed
    <2>4. Placed(path)' = [shows |-> shows, ids |-> ids \ {p}, srcs |-> srcs]
      BY <1>1, <2>2 DEF Placed
    <2>5. p \notin ids => ids \ {p} = ids
      OBVIOUS
    <2> QED
      BY <2>1, <2>3, <2>4, <2>5
  <1>4. ASSUME NEW r \in Request, path \in Made(r)
        PROVE  /\ baked'[path].ids = baked[path].ids \ {p} /\ baked'[path].srcs = baked[path].srcs
               /\ p \notin baked[path].ids => baked'[path] = baked[path]
    <2>0. PICK page : page = bake[r].pages[path]
      OBVIOUS
    <2>1. baked[path] = Extant(page)
      BY <1>4, <2>0, BakedIs DEF BakedSays, Base, BaseInv
    <2>2. IsPage(page) /\ page.ids \subseteq Products \union Lost
      BY <1>4, <2>0, BakeIs DEF Base, BaseInv, HeldPages, Made
    <2>3. baked'[path] = Extant(page)'
      <3>1. baked'[path] = Extant(bake[r].pages[path])'
        BY <1>2, <1>4, BakedIsNext DEF BakedSays, Base, BaseInv
      <3> QED
        BY <1>1, <2>0, <3>1 DEF Extant
    <2>4. page.ids \subseteq Product
      BY <2>2 DEF Products, Lost
    <2>5. {q \in page.ids : product'[q] # Gone} = {q \in page.ids : product[q] # Gone} \ {p}
      BY <1>1, <2>4
    <2>6. PICK ids : ids = {q \in page.ids : product[q] # Gone}
      OBVIOUS
    <2>7. /\ baked[path] = [shows |-> page.shows, ids |-> ids, srcs |-> page.srcs]
          /\ baked'[path] = [shows |-> page.shows, ids |-> ids \ {p}, srcs |-> page.srcs]
      BY <2>1, <2>2, <2>3, <2>5, <2>6, ExtantIs, ExtantIsNext DEF ExtantSays, IsPage
    <2>8. p \notin ids => ids \ {p} = ids
      OBVIOUS
    <2> QED
      BY <2>7, <2>8
  <1> QED
    BY <1>3, <1>4

LEMMA VerbBakes ==
    ASSUME Base, Base', NEW r, NEW tasks, Begin(r, tasks), Lost' = Lost
    PROVE  baked' = baked
  BY BakedStays DEF Begin, site

LEMMA PutKeeps ==
    ASSUME RowsOK, NEW p \in Product, NEW row, row \in [slug : Slug, status : Status, version : Nat],
           product[p] # Gone, PutProduct(p, row)
    PROVE  Lost' = Lost
  <1>1. row.status # "gone"
    BY DEF Status
  <1>2. product'[p] = row /\ \A q \in Product \ {p} : product'[q] = product[q]
    BY DEF PutProduct, RowsOK
  <1> QED
    BY <1>1, <1>2 DEF Lost, Gone

-----------------------------------------------------------------------------
\* The page of a path is what a bake would make of it.
Fresh(path) == baked[path] = Render(path)

LEMMA RowsStay ==
    ASSUME NEW S, \A q \in S : product'[q].version = product[q].version
    PROVE  {<<q, product'[q].version>> : q \in S} = {<<q, product[q].version>> : q \in S}
  OBVIOUS

LEMMA ListedOf ==
    /\ Listed(<<"products", NoSlug>>) = Active
    /\ \A s : Listed(<<"members", s>>) = UNION {ActiveIn(c) : c \in CollectionAt(s)}
    /\ \A s : Listed(<<"card", s>>) = ProductAt(s)
    /\ \A s : Listed(<<"data", s>>) = {}
  BY DEF Listed

\* The same of the state after a step.
RenderSays ==
    /\ \A g : Render(<<"page", g>>) = SitePage(g)
    /\ OneOwner(product, Products) => \A s :
          /\ ProductAt(s) = {} => Render(<<"product", s>>) = Nothing
          /\ \A p \in ProductAt(s) : Render(<<"product", s>>) = ProductPage(p)
    /\ OneOwner(collection, Collections) => \A s :
          /\ CollectionAt(s) = {} => Render(<<"collection", s>>) = Nothing
          /\ \A c \in CollectionAt(s) : Render(<<"collection", s>>) = CollectionPage(c)

LEMMA RenderSaysNow == RenderSays
  BY RenderPage, RenderNoProduct, RenderProduct, RenderNoCollection, RenderCollection DEF RenderSays

LEMMA RenderSaysNext == RenderSays'
  BY RenderSaysNow, PTL

\* A page shows the same when what it is made of is the same.
LEMMA SameSitePage ==
    ASSUME NEW g,
           Listed(Shows[g])' = Listed(Shows[g]),
           \A q \in Listed(Shows[g]) : product'[q].version = product[q].version,
           \A s : Shows[g] = <<"data", s>> => TableRows(s)' = TableRows(s),
           Shows[g] \in Source
    PROVE  Render(<<"page", g>>)' = Render(<<"page", g>>)
  <1>1. Rows(Listed(Shows[g]))' = Rows(Listed(Shows[g]))
    BY RowsStay DEF Rows
  <1>2. Shows[g][1] = "data" => TableRows(Shows[g][2])' = TableRows(Shows[g][2])
    BY SourceCases
  <1>3. SitePage(g)' = SitePage(g)
    BY <1>1, <1>2 DEF SitePage
  <1>4. Render(<<"page", g>>)' = SitePage(g)'
    BY RenderSaysNext DEF RenderSays
  <1> QED
    BY <1>3, <1>4, RenderPage

LEMMA SameProductPage ==
    ASSUME RowsOK, RowsOK', NEW s, ProductAt(s)' = ProductAt(s),
           \A q \in ProductAt(s) :
              /\ Homes(q)' = Homes(q)
              /\ \A c \in Homes(q) : ActiveIn(c)' = ActiveIn(c) /\ collection'[c].slug = collection[c].slug
              /\ \A x \in {q} \union Related(q) : product'[x].version = product[x].version
    PROVE  Render(<<"product", s>>)' = Render(<<"product", s>>)
  <1>1. CASE ProductAt(s) = {}
    <2>1. Render(<<"product", s>>) = Nothing
      BY <1>1, RenderNoProduct
    <2>2. Render(<<"product", s>>)' = Nothing
      BY <1>1, RenderSaysNext DEF RenderSays, RowsOK, Nothing
    <2> QED
      BY <2>1, <2>2
  <1>2. CASE ProductAt(s) # {}
    <2>1. PICK q \in ProductAt(s) : TRUE
      BY <1>2
    <2>2. Render(<<"product", s>>) = ProductPage(q)
      BY <2>1, RenderProduct DEF RowsOK
    <2>3. Render(<<"product", s>>)' = ProductPage(q)'
      BY <2>1, RenderSaysNext DEF RenderSays, RowsOK
    <2>4. Homes(q)' = Homes(q)
      BY <2>1
    <2>5. Related(q)' = Related(q)
      BY <2>1, <2>4 DEF Related
    <2>6. Rows({q} \union Related(q))' = Rows({q} \union Related(q))
      BY <2>1, <2>5, RowsStay DEF Rows
    <2>7. {<<"members", collection'[c].slug>> : c \in Homes(q)} = {<<"members", collection[c].slug>> : c \in Homes(q)}
      BY <2>1
    <2>8. ProductPage(q)' = ProductPage(q)
      BY <2>4, <2>5, <2>6, <2>7 DEF ProductPage
    <2> QED
      BY <2>2, <2>3, <2>8
  <1> QED
    BY <1>1, <1>2

LEMMA SameCollectionPage ==
    ASSUME RowsOK, RowsOK', NEW s, CollectionAt(s)' = CollectionAt(s),
           \A c \in CollectionAt(s) :
              /\ ActiveIn(c)' = ActiveIn(c)
              /\ collection'[c] = collection[c]
              /\ \A x \in ActiveIn(c) : product'[x].version = product[x].version
    PROVE  Render(<<"collection", s>>)' = Render(<<"collection", s>>)
  <1>1. CASE CollectionAt(s) = {}
    <2>1. Render(<<"collection", s>>) = Nothing
      BY <1>1, RenderNoCollection
    <2>2. Render(<<"collection", s>>)' = Nothing
      BY <1>1, RenderSaysNext DEF RenderSays, RowsOK, Nothing
    <2> QED
      BY <2>1, <2>2
  <1>2. CASE CollectionAt(s) # {}
    <2>1. PICK c \in CollectionAt(s) : TRUE
      BY <1>2
    <2>2. Render(<<"collection", s>>) = CollectionPage(c)
      BY <2>1, RenderCollection DEF RowsOK
    <2>3. Render(<<"collection", s>>)' = CollectionPage(c)'
      BY <2>1, RenderSaysNext DEF RenderSays, RowsOK
    <2>4. Rows(ActiveIn(c))' = Rows(ActiveIn(c))
      BY <2>1, RowsStay DEF Rows
    <2>5. CollectionPage(c)' = CollectionPage(c)
      BY <2>1, <2>4 DEF CollectionPage
    <2> QED
      BY <2>2, <2>3, <2>5
  <1> QED
    BY <1>1, <1>2

\* What a fresh page says of what it is made of.
LEMMA FreshProduct ==
    ASSUME RowsOK, NEW s, NEW q \in ProductAt(s), Fresh(<<"product", s>>)
    PROVE  /\ q \in baked[<<"product", s>>].ids
           /\ \A c \in Homes(q) : <<"members", collection[c].slug>> \in baked[<<"product", s>>].srcs
  <1>1. baked[<<"product", s>>] = ProductPage(q)
    BY RenderProduct DEF Fresh, RowsOK
  <1> QED
    BY <1>1 DEF ProductPage

LEMMA FreshCollection ==
    ASSUME RowsOK, NEW s, NEW c \in CollectionAt(s), Fresh(<<"collection", s>>)
    PROVE  <<"members", s>> \in baked[<<"collection", s>>].srcs
  <1>1. baked[<<"collection", s>>] = CollectionPage(c) /\ collection[c].slug = s
    BY RenderCollection DEF Fresh, RowsOK, CollectionAt
  <1> QED
    BY <1>1 DEF CollectionPage

LEMMA FreshPage ==
    ASSUME NEW g, Fresh(<<"page", g>>)
    PROVE  baked[<<"page", g>>].ids = Listed(Shows[g])
  <1>1. baked[<<"page", g>>] = SitePage(g)
    BY RenderPage DEF Fresh
  <1> QED
    BY <1>1 DEF SitePage

LEMMA PageLoops ==
    ASSUME PagesOK, NEW g \in Page
    PROVE  /\ Shows[g] = <<"products", NoSlug>> => <<"products", NoSlug>> \in baked[<<"page", g>>].srcs
           /\ \A s : Shows[g] = <<"members", s>> => <<"members", s>> \in baked[<<"page", g>>].srcs
           /\ \A s : Shows[g] = <<"data", s>> => <<"data", s>> \in baked[<<"page", g>>].srcs
  <1>1. baked[<<"page", g>>].srcs = IF Shows[g][1] = "card" THEN {} ELSE {Shows[g]}
    BY DEF PagesOK, SrcsOf
  <1> QED
    BY <1>1

-----------------------------------------------------------------------------
\* A write to the row of p changes no fresh page but those the index finds
\* for p, the page p now has, and the cards of the slug p now has.
LEMMA ProductWriteFound ==
    ASSUME RowsOK, RowsOK', PagesOK, NEW p \in Product,
           \A q \in Product \ {p} : product'[q] = product[q],
           collection' = collection, table' = table,
           \A c \in Collection : members'[c] \subseteq members[c] /\ members[c] \ {p} \subseteq members'[c],
           NEW path \in Path, Fresh(path), ~Finds(path, p),
           product'[p].status = "active" =>
              /\ path # <<"product", product'[p].slug>>
              /\ \A g \in Page : path = <<"page", g>> => Shows[g] # <<"card", product'[p].slug>>
    PROVE  Render(path)' = Render(path)
  <1>1. \A c \in Collection : p \notin members[c] => members'[c] = members[c] /\ ActiveIn(c)' = ActiveIn(c)
    <2>1. Active' \ {p} = Active \ {p}
      BY DEF Active
    <2> QED
      BY <2>1 DEF ActiveIn
  <1>2. \A c \in Collection : p \in members[c] => c \in Homes(p)
    BY DEF Homes
  <1>3. \A s : CollectionAt(s)' = CollectionAt(s)
    BY DEF CollectionAt, Collections
  <1>4. \A s : p \notin ProductAt(s) /\ p \notin ProductAt(s)' => ProductAt(s)' = ProductAt(s)
    BY DEF ProductAt, Active
  <1>5. \A s : p \in ProductAt(s)' => product'[p].status = "active" /\ product'[p].slug = s
    BY DEF ProductAt, Active
  <1>6. CASE \E s \in Slug : path = <<"product", s>>
    <2>1. PICK s \in Slug : path = <<"product", s>>
      BY <1>6
    <2>2. p \notin ProductAt(s)
      BY <2>1, FreshProduct DEF Finds
    <2>3. ProductAt(s)' = ProductAt(s)
      BY <1>4, <1>5, <2>1, <2>2
    <2>4. ASSUME NEW q \in ProductAt(s)
          PROVE  /\ Homes(q)' = Homes(q)
                 /\ \A c \in Homes(q) : ActiveIn(c)' = ActiveIn(c) /\ collection'[c].slug = collection[c].slug
                 /\ \A x \in {q} \union Related(q) : product'[x].version = product[x].version
      <3>1. q \in Product /\ q # p
        BY <2>2 DEF ProductAt, Active
      <3>2. Homes(q)' = Homes(q)
        BY <3>1 DEF Homes
      <3>3. \A c \in Homes(q) : c \notin Homes(p)
        BY <2>1, <2>4, FreshProduct DEF Finds
      <3>4. \A c \in Homes(q) : c \in Collection /\ p \notin members[c]
        BY <1>2, <3>3 DEF Homes
      <3>5. p \notin Related(q) /\ Related(q) \subseteq Product
        BY <3>4 DEF Related, ActiveIn, Active
      <3> QED
        BY <1>1, <3>1, <3>2, <3>4, <3>5
    <2> QED
      BY <2>1, <2>3, <2>4, SameProductPage
  <1>7. CASE \E s \in Slug : path = <<"collection", s>>
    <2>1. PICK s \in Slug : path = <<"collection", s>>
      BY <1>7
    <2>2. ASSUME NEW c \in CollectionAt(s)
          PROVE  /\ ActiveIn(c)' = ActiveIn(c)
                 /\ collection'[c] = collection[c]
                 /\ \A x \in ActiveIn(c) : product'[x].version = product[x].version
      <3>1. c \in Collection /\ collection[c].slug = s
        BY DEF CollectionAt, Collections
      <3>2. p \notin members[c]
        BY <1>2, <2>1, <3>1, FreshCollection DEF Finds
      <3>3. ActiveIn(c) \subseteq Product \ {p}
        BY <3>2 DEF ActiveIn, Active
      <3> QED
        BY <1>1, <3>1, <3>2, <3>3
    <2> QED
      BY <1>3, <2>1, <2>2, SameCollectionPage
  <1>8. CASE \E g \in Page : path = <<"page", g>>
    <2>1. PICK g \in Page : path = <<"page", g>>
      BY <1>8
    <2>2. Shows[g] \in Source
      BY PagesAssumption
    <2>3. \A s : TableRows(s)' = TableRows(s)
      BY DEF TableRows
    <2>4. Listed(Shows[g])' = Listed(Shows[g])
      <3>1. CASE Shows[g] = <<"products", NoSlug>>
        BY <2>1, <3>1, PageLoops DEF Finds
      <3>2. CASE \E s \in Slug : Shows[g] = <<"members", s>>
        <4>1. PICK s \in Slug : Shows[g] = <<"members", s>>
          BY <3>2
        <4>2. \A c \in CollectionAt(s) : c \in Collection /\ collection[c].slug = s
          BY DEF CollectionAt, Collections
        <4>3. \A c \in CollectionAt(s) : p \notin members[c]
          BY <1>2, <2>1, <4>1, <4>2, PageLoops DEF Finds
        <4>4. \A c \in CollectionAt(s) : ActiveIn(c)' = ActiveIn(c)
          BY <1>1, <4>2, <4>3
        <4> QED
          BY <1>3, <4>1, <4>4 DEF Listed
      <3>3. CASE \E s \in Slug : Shows[g] = <<"card", s>>
        <4>1. PICK s \in Slug : Shows[g] = <<"card", s>>
          BY <3>3
        <4>2. p \notin ProductAt(s)
          BY <2>1, <4>1, FreshPage, ListedOf DEF Finds
        <4>3. p \notin ProductAt(s)'
          BY <1>5, <2>1, <4>1
        <4> QED
          BY <1>4, <4>1, <4>2, <4>3 DEF Listed
      <3>4. CASE \E s \in Slug : Shows[g] = <<"data", s>>
        BY <3>4 DEF Listed
      <3> QED
        BY <2>2, <3>1, <3>2, <3>3, <3>4, SourceCases
    <2>5. Listed(Shows[g]) \subseteq Product \ {p}
      BY <2>1, FreshPage, ListedActive DEF Finds, Active
    <2> QED
      BY <2>1, <2>2, <2>3, <2>4, <2>5, SameSitePage
  <1> QED
    BY <1>6, <1>7, <1>8, PathCases

\* New memberships change no fresh page but those that loop a collection
\* changed, and the own pages of the products that join one.
LEMMA MembershipFound ==
    ASSUME RowsOK, RowsOK', PagesOK,
           product' = product, collection' = collection, table' = table,
           NEW path \in Path, Fresh(path),
           \A c \in Collections : members'[c] # members[c] =>
              /\ <<"members", collection[c].slug>> \notin baked[path].srcs
              /\ \A q \in Active : q \in members'[c] \ members[c] => path # OwnPath(q)
    PROVE  Render(path)' = Render(path)
  <1>1. Active' = Active /\ Collections' = Collections
    BY DEF Active, Collections
  <1>2. \A s : CollectionAt(s)' = CollectionAt(s) /\ ProductAt(s)' = ProductAt(s)
    BY <1>1 DEF CollectionAt, ProductAt
  <1>3. \A c : members'[c] = members[c] => ActiveIn(c)' = ActiveIn(c)
    BY <1>1 DEF ActiveIn
  <1>4. CASE \E s \in Slug : path = <<"product", s>>
    <2>1. PICK s \in Slug : path = <<"product", s>>
      BY <1>4
    <2>2. ASSUME NEW q \in ProductAt(s)
          PROVE  /\ Homes(q)' = Homes(q)
                 /\ \A c \in Homes(q) : ActiveIn(c)' = ActiveIn(c)
      <3>1. q \in Active /\ path = OwnPath(q)
        BY <2>1 DEF ProductAt, OwnPath
      <3>2. \A c \in Homes(q) : c \in Collections
        BY HomesAreCollections
      <3>3. \A c \in Homes(q) : members'[c] = members[c]
        BY <2>1, <2>2, <3>2, FreshProduct
      <3>4. ASSUME NEW c \in Collection, q \in members'[c]
            PROVE  q \in members[c]
        <4>1. c \in Collections
          BY <1>1, <3>4 DEF RowsOK
        <4> QED
          BY <3>1, <3>4, <4>1
      <3>5. Homes(q)' = Homes(q)
        BY <3>3, <3>4 DEF Homes
      <3> QED
        BY <1>3, <3>3, <3>5
    <2> QED
      BY <1>2, <2>1, <2>2, SameProductPage
  <1>5. CASE \E s \in Slug : path = <<"collection", s>>
    <2>1. PICK s \in Slug : path = <<"collection", s>>
      BY <1>5
    <2>2. ASSUME NEW c \in CollectionAt(s)
          PROVE  ActiveIn(c)' = ActiveIn(c)
      <3>1. c \in Collections /\ collection[c].slug = s
        BY DEF CollectionAt
      <3>2. members'[c] = members[c]
        BY <2>1, <3>1, FreshCollection
      <3> QED
        BY <1>3, <3>2
    <2> QED
      BY <1>2, <2>1, <2>2, SameCollectionPage
  <1>6. CASE \E g \in Page : path = <<"page", g>>
    <2>1. PICK g \in Page : path = <<"page", g>>
      BY <1>6
    <2>2. Shows[g] \in Source
      BY PagesAssumption
    <2>3. \A s : TableRows(s)' = TableRows(s)
      BY DEF TableRows
    <2>4. CASE \E s \in Slug : Shows[g] = <<"members", s>>
      <3>1. PICK s \in Slug : Shows[g] = <<"members", s>>
        BY <2>4
      <3>2. \A c \in CollectionAt(s) : c \in Collections /\ collection[c].slug = s
        BY DEF CollectionAt
      <3>3. \A c \in CollectionAt(s) : ActiveIn(c)' = ActiveIn(c)
        BY <1>3, <2>1, <3>1, <3>2, PageLoops
      <3>4. Listed(Shows[g])' = Listed(Shows[g])
        BY <1>2, <3>1, <3>3 DEF Listed
      <3> QED
        BY <2>1, <2>2, <2>3, <3>4, SameSitePage
    <2>5. CASE ~ \E s \in Slug : Shows[g] = <<"members", s>>
      <3>1. Listed(Shows[g])' = Listed(Shows[g])
        BY <1>1, <1>2, <2>2, <2>5, SourceCases DEF Listed
      <3> QED
        BY <2>1, <2>2, <2>3, <3>1, SameSitePage
    <2> QED
      BY <2>4, <2>5
  <1> QED
    BY <1>4, <1>5, <1>6, PathCases

\* A write to the row of c changes no fresh page but those that loop it under
\* the slug it had and those TargetsOfCollection finds under the slug it has.
LEMMA CollectionWriteFound ==
    ASSUME RowsOK, RowsOK', PagesOK, NEW c \in Collection,
           \A d \in Collection \ {c} : collection'[d] = collection[d] /\ members'[d] = members[d],
           members'[c] \subseteq members[c],
           product' = product, table' = table,
           NEW path \in Path, Fresh(path),
           c \in Collections => <<"members", collection[c].slug>> \notin baked[path].srcs,
           c \in Collections' =>
              /\ <<"members", collection'[c].slug>> \notin baked[path].srcs
              /\ path # <<"collection", collection'[c].slug>>
    PROVE  Render(path)' = Render(path)
  <1>1. Active' = Active
    BY DEF Active
  <1>2. \A s : ProductAt(s)' = ProductAt(s)
    BY <1>1 DEF ProductAt
  <1>3. \A d \in Collection \ {c} : ActiveIn(d)' = ActiveIn(d)
    BY <1>1 DEF ActiveIn
  <1>4. \A d \in Collection \ {c} : d \in Collections' <=> d \in Collections
    BY DEF Collections
  <1>5. \A s : c \notin CollectionAt(s) /\ c \notin CollectionAt(s)' => CollectionAt(s)' = CollectionAt(s)
    BY <1>4 DEF CollectionAt, Collections
  <1>6. \A s : c \in CollectionAt(s)' => c \in Collections' /\ collection'[c].slug = s
    BY DEF CollectionAt
  <1>7. \A s : c \in CollectionAt(s) => c \in Collections /\ collection[c].slug = s
    BY DEF CollectionAt
  <1>8. CASE \E s \in Slug : path = <<"product", s>>
    <2>1. PICK s \in Slug : path = <<"product", s>>
      BY <1>8
    <2>2. ASSUME NEW q \in ProductAt(s)
          PROVE  /\ Homes(q)' = Homes(q)
                 /\ \A d \in Homes(q) : ActiveIn(d)' = ActiveIn(d) /\ collection'[d].slug = collection[d].slug
      <3>1. c \notin Homes(q)
        BY <2>1, <2>2, FreshProduct, HomesAreCollections
      <3>2. Homes(q)' = Homes(q)
        BY <3>1 DEF Homes
      <3>3. \A d \in Homes(q) : d \in Collection \ {c}
        BY <3>1 DEF Homes
      <3> QED
        BY <1>3, <3>2, <3>3
    <2> QED
      BY <1>2, <2>1, <2>2, SameProductPage
  <1>9. CASE \E s \in Slug : path = <<"collection", s>>
    <2>1. PICK s \in Slug : path = <<"collection", s>>
      BY <1>9
    <2>2. c \notin CollectionAt(s)
      BY <1>7, <2>1, FreshCollection
    <2>3. c \notin CollectionAt(s)'
      BY <1>6, <2>1
    <2>4. CollectionAt(s)' = CollectionAt(s) /\ CollectionAt(s) \subseteq Collection \ {c}
      BY <1>5, <2>2, <2>3 DEF CollectionAt, Collections
    <2> QED
      BY <1>3, <2>1, <2>4, SameCollectionPage
  <1>10. CASE \E g \in Page : path = <<"page", g>>
    <2>1. PICK g \in Page : path = <<"page", g>>
      BY <1>10
    <2>2. Shows[g] \in Source
      BY PagesAssumption
    <2>3. \A s : TableRows(s)' = TableRows(s)
      BY DEF TableRows
    <2>4. CASE \E s \in Slug : Shows[g] = <<"members", s>>
      <3>1. PICK s \in Slug : Shows[g] = <<"members", s>>
        BY <2>4
      <3>2. c \notin CollectionAt(s) /\ c \notin CollectionAt(s)'
        BY <1>6, <1>7, <2>1, <3>1, PageLoops
      <3>3. CollectionAt(s)' = CollectionAt(s) /\ CollectionAt(s) \subseteq Collection \ {c}
        BY <1>5, <3>2 DEF CollectionAt, Collections
      <3>4. Listed(Shows[g])' = Listed(Shows[g])
        BY <1>3, <3>1, <3>3 DEF Listed
      <3> QED
        BY <2>1, <2>2, <2>3, <3>4, SameSitePage
    <2>5. CASE ~ \E s \in Slug : Shows[g] = <<"members", s>>
      <3>1. Listed(Shows[g])' = Listed(Shows[g])
        BY <1>1, <1>2, <2>2, <2>5, SourceCases DEF Listed
      <3> QED
        BY <2>1, <2>2, <2>3, <3>1, SameSitePage
    <2> QED
      BY <2>4, <2>5
  <1> QED
    BY <1>8, <1>9, <1>10, PathCases

\* A write to the table changes no page but those that loop it under the slug
\* it had, or has if it has rows.
LEMMA TableWriteFound ==
    ASSUME RowsOK, RowsOK', PagesOK, product' = product, collection' = collection, members' = members,
           NEW path \in Path,
           table.slug # NoSlug => <<"data", table.slug>> \notin baked[path].srcs,
           table'.rows # 0 => <<"data", table'.slug>> \notin baked[path].srcs
    PROVE  Render(path)' = Render(path)
  <1>1. Active' = Active /\ Collections' = Collections
    BY DEF Active, Collections
  <1>2. \A s : CollectionAt(s)' = CollectionAt(s) /\ ProductAt(s)' = ProductAt(s)
    BY <1>1 DEF CollectionAt, ProductAt
  <1>3. \A c : ActiveIn(c)' = ActiveIn(c)
    BY <1>1 DEF ActiveIn
  <1>4. CASE \E s \in Slug : path = <<"product", s>>
    BY <1>2, <1>3, <1>4, SameProductPage DEF Homes
  <1>5. CASE \E s \in Slug : path = <<"collection", s>>
    BY <1>2, <1>3, <1>5, SameCollectionPage
  <1>6. CASE \E g \in Page : path = <<"page", g>>
    <2>1. PICK g \in Page : path = <<"page", g>>
      BY <1>6
    <2>2. Shows[g] \in Source
      BY PagesAssumption
    <2>3. Listed(Shows[g])' = Listed(Shows[g])
      BY <1>1, <1>2, <1>3, <2>2, SourceCases DEF Listed
    <2>4. ASSUME NEW s, Shows[g] = <<"data", s>>
          PROVE  TableRows(s)' = TableRows(s)
      <3>1. <<"data", s>> \in baked[path].srcs
        BY <2>1, <2>4, PageLoops
      <3>2. s # NoSlug
        BY <2>2, <2>4, PagesAssumption DEF Source
      <3>3. TableRows(s) = {}
        BY <3>1, <3>2 DEF TableRows
      <3>4. TableRows(s)' = {}
        BY <3>1 DEF TableRows
      <3> QED
        BY <3>3, <3>4
    <2> QED
      BY <2>1, <2>2, <2>3, <2>4, SameSitePage
  <1> QED
    BY <1>4, <1>5, <1>6, PathCases

-----------------------------------------------------------------------------
\* DueFor, of this state and of the next.
ProductDue == \A t, path : t.do = "product" /\ t.active \in BOOLEAN =>
    (path \in DueFor(t)
       <=> \/ path \in Path /\ Finds(path, t.id)
           \/ t.active = TRUE /\ path = <<"product", t.slug>>
           \/ t.old # t.slug /\ path = <<"product", t.old>>)
LoadProductDue == \A t, path : t.do = "load product" =>
    (path \in DueFor(t)
       <=> /\ t.id \in Products
           /\ \/ path \in Path /\ Finds(path, t.id)
              \/ t.id \in Active /\ path = OwnPath(t.id))
CollectionDue == \A t, path : t.do = "collection" =>
    (path \in DueFor(t)
       <=> \/ path = <<"collection", t.slug>>
           \/ path \in Path /\ <<"members", t.slug>> \in baked[path].srcs
           \/ t.old # t.slug /\ path = <<"collection", t.old>>)
LoadCollectionDue == \A t, path : t.do = "load collection" =>
    (path \in DueFor(t)
       <=> /\ t.id \in Collections
           /\ \/ path = <<"collection", collection[t.id].slug>>
              \/ path \in Path /\ <<"members", collection[t.id].slug>> \in baked[path].srcs)
OthersDue == \A t, path :
    /\ t.do = "table" =>
          (path \in DueFor(t) <=> path \in Path /\ <<"data", t.slug>> \in baked[path].srcs)
    /\ t.do = "paths" => (path \in DueFor(t) <=> path \in t.paths)
    /\ t.do = "publish" => (path \in DueFor(t) <=> path \in Path)
    /\ t.do = "found" => (path \in DueFor(t) <=> path \in t.paths \/ path \in t.dropped)
    /\ t.do \in Destroys => path \notin DueFor(t)

LEMMA ProductDueNow == ProductDue
  BY DueForProduct DEF ProductDue
LEMMA LoadProductDueNow == LoadProductDue
  BY DueForLoadProduct DEF LoadProductDue
LEMMA CollectionDueNow == CollectionDue
  BY DueForCollection DEF CollectionDue
LEMMA LoadCollectionDueNow == LoadCollectionDue
  BY DueForLoadCollection DEF LoadCollectionDue
LEMMA OthersDueNow == OthersDue
  BY DueForOthers DEF OthersDue

LEMMA ProductDueNext == ProductDue'
  BY ProductDueNow, PTL
LEMMA LoadProductDueNext == LoadProductDue'
  BY LoadProductDueNow, PTL
LEMMA CollectionDueNext == CollectionDue'
  BY CollectionDueNow, PTL
LEMMA LoadCollectionDueNext == LoadCollectionDue'
  BY LoadCollectionDueNow, PTL
LEMMA OthersDueNext == OthersDue'
  BY OthersDueNow, PTL

\* A task stays due for a path while the index finds it as before, and while
\* what the task will load is as before.
LEMMA DueKept ==
    ASSUME NEW t \in Task, NEW path \in Path, path \in DueFor(t),
           baked'[path].srcs = baked[path].srcs,
           t.do \in {"product", "load product"} /\ Finds(path, t.id) => Finds(path, t.id)',
           t.do = "load product" =>
              /\ t.id \in Products'
              /\ t.id \in Active /\ path = OwnPath(t.id) => t.id \in Active' /\ path = OwnPath(t.id)',
           t.do = "load collection" =>
              t.id \in Collections' /\ collection'[t.id].slug = collection[t.id].slug
    PROVE  path \in DueFor(t)'
  <1>1. CASE t.do = "product"
    <2>1. t.active \in BOOLEAN
      BY <1>1, TaskCases
    <2>2. \/ Finds(path, t.id)
          \/ t.active = TRUE /\ path = <<"product", t.slug>>
          \/ t.old # t.slug /\ path = <<"product", t.old>>
      BY <1>1, <2>1, DueForProduct
    <2>3. \/ path \in Path /\ Finds(path, t.id)'
          \/ t.active = TRUE /\ path = <<"product", t.slug>>
          \/ t.old # t.slug /\ path = <<"product", t.old>>
      BY <1>1, <2>2
    <2> QED
      BY <1>1, <2>1, <2>3, ProductDueNext, Zenon DEF ProductDue
  <1>2. CASE t.do = "load product"
    <2>1. Finds(path, t.id) \/ (t.id \in Active /\ path = OwnPath(t.id))
      BY <1>2, DueForLoadProduct
    <2>2. /\ t.id \in Products'
          /\ \/ path \in Path /\ Finds(path, t.id)'
             \/ t.id \in Active' /\ path = OwnPath(t.id)'
      BY <1>2, <2>1
    <2> QED
      BY <1>2, <2>2, LoadProductDueNext, Zenon DEF LoadProductDue
  <1>3. CASE t.do = "collection"
    <2>1. \/ path = <<"collection", t.slug>>
          \/ path \in Path /\ <<"members", t.slug>> \in baked[path].srcs
          \/ t.old # t.slug /\ path = <<"collection", t.old>>
      BY <1>3, DueForCollection
    <2> QED
      BY <1>3, <2>1, CollectionDueNext DEF CollectionDue
  <1>4. CASE t.do = "load collection"
    <2>1. \/ path = <<"collection", collection[t.id].slug>>
          \/ path \in Path /\ <<"members", collection[t.id].slug>> \in baked[path].srcs
      BY <1>4, DueForLoadCollection
    <2> QED
      BY <1>4, <2>1, LoadCollectionDueNext DEF LoadCollectionDue
  <1>5. CASE t.do \in {"table", "paths", "publish", "found"} \union Destroys
    BY <1>5, DueForOthers, OthersDueNext DEF OthersDue, Destroys
  <1> QED
    BY <1>1, <1>2, <1>3, <1>4, <1>5, TaskCases DEF Destroys

\* What stays due through each change.
LEMMA DueThroughProductWrite ==
    ASSUME NEW p \in Product, \A q \in Product \ {p} : product'[q] = product[q],
           UNCHANGED <<collection, members, baked>>, p \in Products',
           NEW t \in Task, NEW path \in Path, path \in DueFor(t),
           p \in Active /\ path = OwnPath(p) => p \in Active' /\ path = OwnPath(p)'
    PROVE  path \in DueFor(t)'
  <1>1. \A x : Finds(path, x)' <=> Finds(path, x)
    BY DEF Finds, Homes
  <1>2. ASSUME t.do = "load product"
        PROVE  /\ t.id \in Products'
               /\ t.id \in Active /\ path = OwnPath(t.id) => t.id \in Active' /\ path = OwnPath(t.id)'
    <2>1. t.id \in Products
      BY <1>2, DueForLoadProduct
    <2>2. CASE t.id = p
      BY <2>2
    <2>3. CASE t.id # p
      BY <2>1, <2>3 DEF Products, Active, OwnPath
    <2> QED
      BY <2>2, <2>3
  <1>3. ASSUME t.do = "load collection"
        PROVE  t.id \in Collections'
    BY <1>3, DueForLoadCollection DEF Collections
  <1> QED
    BY <1>1, <1>2, <1>3, DueKept

LEMMA DueThroughRetag ==
    ASSUME \A q \in Product : product'[q].slug = product[q].slug /\ product'[q].status = product[q].status,
           UNCHANGED <<collection, members, baked>>,
           NEW t \in Task, NEW path \in Path, path \in DueFor(t)
    PROVE  path \in DueFor(t)'
  <1>1. \A x : Finds(path, x)' <=> Finds(path, x)
    BY DEF Finds, Homes
  <1>2. ASSUME t.do = "load product"
        PROVE  /\ t.id \in Products'
               /\ t.id \in Active /\ path = OwnPath(t.id) => t.id \in Active' /\ path = OwnPath(t.id)'
    <2>1. t.id \in Products
      BY <1>2, DueForLoadProduct
    <2> QED
      BY <2>1 DEF Products, Active, OwnPath, Live
  <1>3. ASSUME t.do = "load collection"
        PROVE  t.id \in Collections'
    BY <1>3, DueForLoadCollection DEF Collections
  <1> QED
    BY <1>1, <1>2, <1>3, DueKept

LEMMA DueThroughLoss ==
    ASSUME Base, Base', NEW p \in Product, LoseProduct(p),
           NEW t \in Task, NEW path \in Path, path \in DueFor(t),
           ~Finds(path, p), path # OwnPath(p)
    PROVE  path \in DueFor(t)'
  <1>1. baked'[path].ids = baked[path].ids \ {p} /\ baked'[path].srcs = baked[path].srcs
    BY BakedLoses
  <1>2. /\ \A q \in Product \ {p} : product'[q] = product[q]
        /\ collection' = collection
        /\ \A c \in Collection : members'[c] = members[c] \ {p}
    BY DEF LoseProduct, Base, BaseInv, RowsOK
  <1>3. \A x : x # p => Homes(x)' = Homes(x)
    BY <1>2 DEF Homes
  <1>4. \A x : Finds(path, x) => Finds(path, x)'
    <2> SUFFICES ASSUME NEW x, Finds(path, x)
                 PROVE  Finds(path, x)'
      OBVIOUS
    <2>1. x # p
      OBVIOUS
    <2> QED
      BY <1>1, <1>2, <1>3, <2>1 DEF Finds
  <1>5. ASSUME t.do = "load product"
        PROVE  /\ t.id \in Products'
               /\ t.id \in Active /\ path = OwnPath(t.id) => t.id \in Active' /\ path = OwnPath(t.id)'
    <2>1. t.id \in Products /\ (Finds(path, t.id) \/ path = OwnPath(t.id))
      BY <1>5, DueForLoadProduct
    <2>2. t.id # p
      BY <2>1
    <2> QED
      BY <1>2, <2>1, <2>2 DEF Products, Active, OwnPath
  <1>6. ASSUME t.do = "load collection"
        PROVE  t.id \in Collections'
    BY <1>2, <1>6, DueForLoadCollection DEF Collections
  <1> QED
    BY <1>1, <1>2, <1>4, <1>5, <1>6, DueKept

LEMMA DueThroughMembership ==
    ASSUME RowsOK, UNCHANGED <<product, collection, baked>>,
           NEW t \in Task, NEW path \in Path, path \in DueFor(t),
           \A c \in Collections : members'[c] # members[c] =>
              <<"members", collection[c].slug>> \notin baked[path].srcs
    PROVE  path \in DueFor(t)'
  <1>1. ASSUME NEW x, Finds(path, x)
        PROVE  Finds(path, x)'
    <2>1. CASE x \in baked[path].ids \/ <<"products", NoSlug>> \in baked[path].srcs
      BY <2>1 DEF Finds
    <2>2. CASE \E c \in Homes(x) : <<"members", collection[c].slug>> \in baked[path].srcs
      <3>1. PICK c \in Homes(x) : <<"members", collection[c].slug>> \in baked[path].srcs
        BY <2>2
      <3>2. members'[c] = members[c]
        BY <3>1, HomesAreCollections
      <3>3. c \in Homes(x)'
        BY <3>1, <3>2 DEF Homes
      <3> QED
        BY <3>1, <3>3 DEF Finds
    <2> QED
      BY <1>1, <2>1, <2>2 DEF Finds
  <1>2. ASSUME t.do = "load product"
        PROVE  /\ t.id \in Products'
               /\ t.id \in Active /\ path = OwnPath(t.id) => t.id \in Active' /\ path = OwnPath(t.id)'
    BY <1>2, DueForLoadProduct DEF Products, Active, OwnPath
  <1>3. ASSUME t.do = "load collection"
        PROVE  t.id \in Collections'
    BY <1>3, DueForLoadCollection DEF Collections
  <1> QED
    BY <1>1, <1>2, <1>3, DueKept

LEMMA DueThroughCollectionWrite ==
    ASSUME RowsOK, NEW c \in Collection,
           \A d \in Collection \ {c} : collection'[d] = collection[d] /\ members'[d] = members[d],
           UNCHANGED <<product, baked>>,
           NEW t \in Task, NEW path \in Path, path \in DueFor(t),
           c \in Collections =>
              /\ <<"members", collection[c].slug>> \notin baked[path].srcs
              /\ path # <<"collection", collection[c].slug>>
    PROVE  path \in DueFor(t)'
  <1>1. ASSUME NEW x, Finds(path, x)
        PROVE  Finds(path, x)'
    <2>1. CASE x \in baked[path].ids \/ <<"products", NoSlug>> \in baked[path].srcs
      BY <2>1 DEF Finds
    <2>2. CASE \E d \in Homes(x) : <<"members", collection[d].slug>> \in baked[path].srcs
      <3>1. PICK d \in Homes(x) : <<"members", collection[d].slug>> \in baked[path].srcs
        BY <2>2
      <3>2. d # c
        BY <3>1, HomesAreCollections
      <3>3. d \in Homes(x)' /\ collection'[d] = collection[d]
        BY <3>1, <3>2 DEF Homes
      <3> QED
        BY <3>1, <3>3 DEF Finds
    <2> QED
      BY <1>1, <2>1, <2>2 DEF Finds
  <1>2. ASSUME t.do = "load product"
        PROVE  /\ t.id \in Products'
               /\ t.id \in Active /\ path = OwnPath(t.id) => t.id \in Active' /\ path = OwnPath(t.id)'
    BY <1>2, DueForLoadProduct DEF Products, Active, OwnPath
  <1>3. ASSUME t.do = "load collection"
        PROVE  t.id \in Collections' /\ collection'[t.id].slug = collection[t.id].slug
    <2>1. t.id \in Collections /\ t.id # c
      BY <1>3, DueForLoadCollection
    <2> QED
      BY <2>1 DEF Collections
  <1> QED
    BY <1>1, <1>2, <1>3, DueKept

LEMMA DueThroughBakes ==
    ASSUME UNCHANGED <<product, collection, members>>,
           NEW t \in Task, NEW path \in Path, path \in DueFor(t), baked'[path] = baked[path]
    PROVE  path \in DueFor(t)'
  <1>1. \A x : Finds(path, x)' <=> Finds(path, x)
    BY DEF Finds, Homes
  <1>2. ASSUME t.do = "load product"
        PROVE  /\ t.id \in Products'
               /\ t.id \in Active /\ path = OwnPath(t.id) => t.id \in Active' /\ path = OwnPath(t.id)'
    BY <1>2, DueForLoadProduct DEF Products, Active, OwnPath
  <1>3. ASSUME t.do = "load collection"
        PROVE  t.id \in Collections'
    BY <1>3, DueForLoadCollection DEF Collections
  <1> QED
    BY <1>1, <1>2, <1>3, DueKept

-----------------------------------------------------------------------------
\* A stale page is one that is left behind or due.
Covered(path) == path \in missed \/ \E r \in Request : path \in ToMake(r)

FreshOrDue == \A path \in Path : Fresh(path) \/ Covered(path)

\* The paths a task names itself, whatever the index says by then.
Keeps(t, path) ==
    \/ t.do \in {"product", "collection"} /\ t.old # t.slug /\ path = <<t.do, t.old>>
    \/ t.do = "product" /\ t.active = TRUE /\ path = <<"product", t.slug>>
    \/ t.do = "paths" /\ path \in t.paths
    \/ t.do = "publish" /\ path \in Path
    \/ t.do = "found" /\ (path \in t.paths \/ path \in t.dropped)

KeptPath(path) ==
    \/ path \in missed
    \/ \E r \in Request : \E i \in 1 .. Len(job[r]) : Keeps(job[r][i], path)

\* The page of an active product lists it, so that the index finds it when
\* the product ceases to be active; or it is to be baked, come what may.
OwnPages ==
    \A q \in Active : \A path \in Path :
       path = OwnPath(q) => q \in baked[path].ids \/ KeptPath(path)

PagesInv == FreshOrDue /\ OwnPages

DueSays ==
    \A r \in Request : \A path :
       /\ \A i \in 1 .. Len(job[r]) : \A t : job[r][i] = t /\ path \in DueFor(t) => path \in ToMake(r)
       /\ path \in ToMake(r) => \E i \in 1 .. Len(job[r]) : \E t : job[r][i] = t /\ path \in DueFor(t)
LEMMA DueSaysNow == DueSays
  BY DueIs DEF DueSays
LEMMA DueSaysNext == DueSays'
  BY DueSaysNow, PTL

KeepsAreDue == \A t \in Task : \A path : Keeps(t, path) => path \in DueFor(t)
LEMMA KeepsAreDueNow == KeepsAreDue
  <1> SUFFICES ASSUME NEW t \in Task, NEW path, Keeps(t, path)
               PROVE  path \in DueFor(t)
    BY DEF KeepsAreDue
  <1>1. CASE t.do = "product"
    BY <1>1, TaskCases, DueForProduct DEF Keeps
  <1>2. CASE t.do = "collection"
    BY <1>2, DueForCollection DEF Keeps
  <1>3. CASE t.do \in {"paths", "publish", "found"}
    BY <1>3, DueForOthers DEF Keeps
  <1> QED
    BY <1>1, <1>2, <1>3 DEF Keeps
LEMMA KeepsAreDueNext == KeepsAreDue'
  BY KeepsAreDueNow, PTL

LEMMA NewlyDue ==
    ASSUME NEW r \in Request, NEW i \in 1 .. Len(job'[r]), NEW t, job'[r][i] = t,
           NEW path, path \in DueFor(t)'
    PROVE  Covered(path)'
  <1>1. path \in ToMake(r)'
    BY DueSaysNext DEF DueSays
  <1> QED
    BY <1>1 DEF Covered

LEMMA NewlyKept ==
    ASSUME NEW r \in Request, NEW i \in 1 .. Len(job'[r]), NEW path, Keeps(job'[r][i], path)
    PROVE  KeptPath(path)'
  BY DEF KeptPath, Keeps

LEMMA KeptAreCovered ==
    ASSUME JobsOK', NEW path, KeptPath(path)'
    PROVE  Covered(path)'
  <1>1. CASE path \in missed'
    BY <1>1 DEF Covered
  <1>2. ASSUME NEW r \in Request, NEW i \in 1 .. Len(job'[r]), Keeps(job'[r][i], path)
        PROVE  Covered(path)'
    <2>1. PICK t \in Task : job'[r][i] = t
      BY DEF JobsOK
    <2>2. path \in DueFor(t)'
      BY <1>2, <2>1, KeepsAreDueNext DEF KeepsAreDue
    <2> QED
      BY <2>1, <2>2, NewlyDue
  <1> QED
    BY <1>1, <1>2 DEF KeptPath, Keeps

\* What was covered is: by what the request r does instead of its old job,
\* by the jobs of the others, or because it was left behind before.
LEMMA CoveredStays ==
    ASSUME JobsOK, NEW r \in Request, \A q \in Request \ {r} : job'[q] = job[q],
           NEW path, path \in missed => path \in missed',
           \A t \in Task : path \in DueFor(t) => path \in DueFor(t)',
           \A i \in 1 .. Len(job[r]), t \in Task :
              job[r][i] = t /\ path \in DueFor(t) => Covered(path)',
           Covered(path)
    PROVE  Covered(path)'
  <1>1. CASE path \in missed
    BY <1>1 DEF Covered
  <1>2. ASSUME NEW q \in Request, path \in ToMake(q)
        PROVE  Covered(path)'
    <2>1. PICK i \in 1 .. Len(job[q]), t \in Task : job[q][i] = t /\ path \in DueFor(t)
      BY <1>2, DueSaysNow DEF DueSays, JobsOK
    <2>3. CASE q = r
      BY <2>1, <2>3
    <2>4. CASE q # r
      <3>1. job'[q] = job[q] /\ path \in DueFor(t)'
        BY <2>1, <2>4
      <3> QED
        BY <2>1, <3>1, NewlyDue
    <2> QED
      BY <2>3, <2>4
  <1> QED
    BY <1>1, <1>2 DEF Covered

LEMMA KeptStays ==
    ASSUME NEW r \in Request, \A q \in Request \ {r} : job'[q] = job[q],
           NEW path, path \in missed => path \in missed',
           \A i \in 1 .. Len(job[r]) : Keeps(job[r][i], path) => KeptPath(path)',
           KeptPath(path)
    PROVE  KeptPath(path)'
  <1>1. CASE path \in missed
    BY <1>1 DEF KeptPath
  <1>2. ASSUME NEW q \in Request, NEW i \in 1 .. Len(job[q]), Keeps(job[q][i], path)
        PROVE  KeptPath(path)'
    <2>1. CASE q = r
      BY <1>2, <2>1
    <2>2. CASE q # r
      BY <1>2, <2>2, NewlyKept
    <2> QED
      BY <2>1, <2>2
  <1> QED
    BY <1>1, <1>2 DEF KeptPath

LEMMA IdleHasNone ==
    ASSUME NEW r, Idle(r)
    PROVE  \A i : i \notin 1 .. Len(job[r])
  BY DEF Idle

\* A step that leaves products and pages alone leaves each product its page.
LEMMA OwnPagesStay ==
    ASSUME OwnPages, product' = product, baked' = baked,
           \A path \in Path : KeptPath(path) => KeptPath(path)'
    PROVE  OwnPages'
  BY DEF OwnPages, Active, OwnPath

\* A task of one request alone.
LEMMA OnlyTask ==
    ASSUME NEW r \in Request, NEW t, job'[r] = <<t>>, NEW path
    PROVE  /\ path \in DueFor(t)' => Covered(path)'
           /\ Keeps(t, path) => KeptPath(path)'
  <1>1. 1 \in 1 .. Len(job'[r]) /\ job'[r][1] = t
    OBVIOUS
  <1> QED
    BY <1>1, NewlyDue, NewlyKept

\* A write of a product, by whichever verb.
LEMMA ProductWritten ==
    ASSUME Base, Base', PagesInv, NEW r \in Request, Idle(r),
           \A q \in Request \ {r} : job'[q] = job[q],
           NEW p \in Product, NEW row, row \in [slug : Slug, status : Status, version : Nat],
           PutProduct(p, row), baked' = baked,
           missed \subseteq missed', NewOnCards(p, row) \subseteq missed',
           \A path \in Path : Finds(path, p) => Covered(path)',
           row.status = "active" => KeptPath(<<"product", row.slug>>)',
           \A path \in Path : p \in Active /\ path = OwnPath(p)
                                 /\ (row.status # "active" \/ row.slug # product[p].slug) => Covered(path)'
    PROVE  PagesInv'
  <1>1. /\ product'[p] = row /\ \A q \in Product \ {p} : product'[q] = product[q]
        /\ UNCHANGED <<collection, members, table>>
    BY DEF PutProduct, Base, BaseInv, RowsOK
  <1>2. p \in Products' /\ (p \in Active' <=> row.status = "active")
    BY <1>1 DEF Products, Active, Live, Status
  <1>3. ASSUME NEW path \in Path
        PROVE  Fresh(path)' \/ Covered(path)'
    <2>1. CASE Finds(path, p)
      BY <2>1
    <2>2. CASE row.status = "active" /\ path = <<"product", row.slug>>
      BY <2>2, KeptAreCovered DEF Base, BaseInv
    <2>3. CASE path \in NewOnCards(p, row)
      BY <2>3 DEF Covered
    <2>4. CASE p \in Active /\ path = OwnPath(p) /\ (row.status # "active" \/ row.slug # product[p].slug)
      BY <2>4
    <2>5. CASE /\ ~Finds(path, p) /\ ~(row.status = "active" /\ path = <<"product", row.slug>>)
               /\ path \notin NewOnCards(p, row)
               /\ ~(p \in Active /\ path = OwnPath(p) /\ (row.status # "active" \/ row.slug # product[p].slug))
      <3>1. CASE Fresh(path)
        <4>1. ASSUME row.status = "active", NEW g \in Page, path = <<"page", g>>
              PROVE  Shows[g] # <<"card", row.slug>>
          <5>1. p \notin baked[path].ids
            BY <2>5 DEF Finds
          <5>2. path \in {"page"} \X Page /\ path[2] = g
            BY <4>1
          <5> QED
            BY <2>5, <4>1, <5>1, <5>2 DEF NewOnCards
        <4>2. product'[p].status = "active" =>
                 /\ path # <<"product", product'[p].slug>>
                 /\ \A g \in Page : path = <<"page", g>> => Shows[g] # <<"card", product'[p].slug>>
          BY <1>1, <2>5, <4>1
        <4>3. \A c \in Collection : members'[c] \subseteq members[c] /\ members[c] \ {p} \subseteq members'[c]
          BY <1>1
        <4>4. Render(path)' = Render(path)
          BY <1>1, <2>5, <3>1, <4>2, <4>3, ProductWriteFound DEF Base, BaseInv
        <4> QED
          BY <3>1, <4>4 DEF Fresh
      <3>2. CASE Covered(path)
        <4>1. p \in Active /\ path = OwnPath(p) => p \in Active' /\ path = OwnPath(p)'
          BY <1>1, <1>2, <2>5 DEF OwnPath
        <4>2. \A t \in Task : path \in DueFor(t) => path \in DueFor(t)'
          BY <1>1, <1>2, <4>1, DueThroughProductWrite
        <4>3. path \in missed => path \in missed'
          OBVIOUS
        <4> QED
          BY <3>2, <4>2, <4>3, CoveredStays, IdleHasNone DEF Base, BaseInv
      <3> QED
        BY <3>1, <3>2 DEF PagesInv, FreshOrDue
    <2> QED
      BY <2>1, <2>2, <2>3, <2>4, <2>5
  <1>4. ASSUME NEW q \in Active', NEW path \in Path, path = OwnPath(q)'
        PROVE  q \in baked'[path].ids \/ KeptPath(path)'
    <2>1. CASE q = p
      BY <1>1, <1>2, <1>4, <2>1 DEF OwnPath
    <2>2. CASE q # p
      <3>1. q \in Active /\ path = OwnPath(q)
        BY <1>1, <1>4, <2>2 DEF Active, OwnPath
      <3>2. q \in baked[path].ids \/ KeptPath(path)
        BY <3>1 DEF PagesInv, OwnPages
      <3>3. path \in missed => path \in missed'
        OBVIOUS
      <3> QED
        BY <3>2, <3>3, KeptStays, IdleHasNone
    <2> QED
      BY <2>1, <2>2
  <1>5. FreshOrDue'
    BY <1>3 DEF FreshOrDue
  <1>6. OwnPages'
    BY <1>4 DEF OwnPages
  <1> QED
    BY <1>5, <1>6 DEF PagesInv

\* A write to no product leaves the pages alone.
LEMMA BegunAlone ==
    ASSUME Base, Base', NEW r, NEW tasks, Begin(r, tasks), product' = product
    PROVE  baked' = baked
  <1>1. Lost' = Lost
    BY DEF Lost
  <1> QED
    BY <1>1, VerbBakes

\* The verbs that bake for it.
LEMMA ProductSaved ==
    ASSUME Base, Base', PagesInv, NEW r \in Request, Idle(r),
           NEW p \in Product, NEW row, row \in [slug : Slug, status : Status, version : Nat],
           NEW old \in Slug, p \in Active => old = product[p].slug, product[p] # Gone,
           PutProduct(p, row), Begin(r, <<OfProduct(p, row, old)>>), Leaves(NewOnCards(p, row))
    PROVE  PagesInv'
  <1>1. PICK t : t = OfProduct(p, row, old)
    OBVIOUS
  <1>2. /\ t.do = "product" /\ t.id = p /\ t.slug = row.slug /\ t.old = old
        /\ t.active \in BOOLEAN /\ (t.active = TRUE <=> row.status = "active")
    BY <1>1 DEF OfProduct
  <1>3. /\ job'[r] = <<t>> /\ \A q \in Request \ {r} : job'[q] = job[q]
        /\ baked' = baked /\ missed' = missed \union NewOnCards(p, row)
    BY <1>1, PutKeeps, VerbBakes DEF Begin, Leaves, Base, BaseInv, JobsOK
  <1>4. ASSUME NEW path \in Path, Finds(path, p)
        PROVE  Covered(path)'
    <2>1. Finds(path, p)'
      BY <1>3, <1>4 DEF Finds, Homes, PutProduct
    <2>2. path \in DueFor(t)'
      BY <1>2, <2>1, ProductDueNext DEF ProductDue
    <2> QED
      BY <1>3, <2>2, OnlyTask
  <1>5. ASSUME NEW path, Keeps(t, path)
        PROVE  KeptPath(path)'
    BY <1>3, <1>5, OnlyTask
  <1>6. row.status = "active" => KeptPath(<<"product", row.slug>>)'
    BY <1>2, <1>5 DEF Keeps
  <1>7. ASSUME NEW path \in Path, p \in Active, path = OwnPath(p),
               row.status # "active" \/ row.slug # product[p].slug
        PROVE  Covered(path)'
    <2>1. CASE row.slug # product[p].slug
      <3>1. Keeps(t, path)
        BY <1>2, <1>7, <2>1 DEF Keeps, OwnPath
      <3> QED
        BY <1>5, <3>1, KeptAreCovered DEF Base, BaseInv
    <2>2. CASE p \in baked[path].ids
      BY <1>4, <2>2 DEF Finds
    <2>3. CASE KeptPath(path)
      <3>1. path \in missed => path \in missed'
        BY <1>3
      <3>2. KeptPath(path)'
        BY <1>3, <2>3, <3>1, KeptStays, IdleHasNone
      <3> QED
        BY <3>2, KeptAreCovered DEF Base, BaseInv
    <2> QED
      BY <1>7, <2>1, <2>2, <2>3 DEF PagesInv, OwnPages
  <1> QED
    BY <1>3, <1>4, <1>6, <1>7, ProductWritten

LEMMA PagesCreateProduct ==
    ASSUME Base, Base', PagesInv, NEW r \in Request, Idle(r), NEW p \in Product, NEW s \in Slug,
           NEW status \in Status, CreateProduct(r, p, s, status)
    PROVE  PagesInv'
  <1> DEFINE row == [slug |-> s, status |-> status, version |-> product[p].version + 1]
  <1>1. row \in [slug : Slug, status : Status, version : Nat]
    BY ProductRowOK DEF Base, BaseInv
  <1>2. PutProduct(p, row) /\ Begin(r, <<OfProduct(p, row, s)>>) /\ Leaves(NewOnCards(p, row))
    BY DEF CreateProduct
  <1>3. p \notin Active /\ product[p] # Gone
    BY DEF CreateProduct, Active, NoRow, Gone
  <1> HIDE DEF row
  <1> QED
    BY <1>1, <1>2, <1>3, ProductSaved

LEMMA PagesSaveProduct ==
    ASSUME Base, Base', PagesInv, NEW r \in Request, Idle(r), NEW p \in Product, NEW s \in Slug,
           NEW status \in Status, NEW byAdmin \in BOOLEAN, SaveProduct(r, p, s, status, byAdmin)
    PROVE  PagesInv'
  <1> DEFINE row == [slug |-> s, status |-> status, version |-> product[p].version + 1]
  <1>1. row \in [slug : Slug, status : Status, version : Nat]
    BY ProductRowOK DEF Base, BaseInv
  <1>2. PutProduct(p, row) /\ Begin(r, <<OfProduct(p, row, product[p].slug)>>) /\ Leaves(NewOnCards(p, row))
    BY DEF SaveProduct
  <1> HIDE DEF row
  <1>3. PICK old : old = product[p].slug
    OBVIOUS
  <1>4. old \in Slug
    BY <1>3, SlugsOfProducts DEF Base, BaseInv, SaveProduct
  <1>5. Begin(r, <<OfProduct(p, row, old)>>) /\ product[p] # Gone
    BY <1>2, <1>3 DEF SaveProduct, Products, Live, Gone
  <1> QED
    BY <1>1, <1>2, <1>3, <1>4, <1>5, ProductSaved

LEMMA PagesImportProduct ==
    ASSUME Base, Base', PagesInv, NEW r \in Request, Idle(r), NEW p \in Product, NEW s \in Slug,
           NEW status \in Status, ImportProduct(r, p, s, status)
    PROVE  PagesInv'
  <1> DEFINE row == [slug |-> s, status |-> status, version |-> product[p].version + 1]
  <1>1. row \in [slug : Slug, status : Status, version : Nat] /\ row.slug = s
    BY ProductRowOK DEF Base, BaseInv
  <1>2. /\ PutProduct(p, row) /\ Begin(r, <<>>)
        /\ missed' = missed \union (TargetsOfProduct(baked, p, s, TRUE) \union NewOnCards(p, row))
    BY DEF ImportProduct, Leaves
  <1>3. p \in Active => product[p].slug = s
    BY DEF ImportProduct, Active, NoRow
  <1> HIDE DEF row
  <1>4. \A q \in Request \ {r} : job'[q] = job[q]
    BY <1>2, BeginsNone DEF Base, BaseInv
  <1>5. \A path \in Path : Finds(path, p) => path \in missed'
    BY <1>2, ActiveTargets
  <1>6. <<"product", s>> \in missed'
    BY <1>2, ActiveTargets
  <1>7. \A path \in Path : Finds(path, p) => Covered(path)'
    BY <1>5 DEF Covered
  <1>8. KeptPath(<<"product", s>>)' /\ Covered(<<"product", s>>)'
    BY <1>6 DEF KeptPath, Covered
  <1>9. \A path \in Path : p \in Active /\ path = OwnPath(p) => Covered(path)'
    BY <1>3, <1>8 DEF OwnPath
  <1>10. baked' = baked
    <2>1. product[p] # Gone
      BY DEF ImportProduct, NoRow, Gone, Products, Live
    <2> QED
      BY <1>1, <1>2, <2>1, PutKeeps, VerbBakes DEF Base, BaseInv
  <1> QED
    BY <1>1, <1>2, <1>4, <1>7, <1>8, <1>9, <1>10, ProductWritten

\* A page that lists no product shows no version of one.
LEMMA UnfoundKept ==
    ASSUME RowsOK, RowsOK',
           \A q \in Product : product'[q].slug = product[q].slug /\ product'[q].status = product[q].status,
           UNCHANGED <<collection, members, table>>,
           NEW path \in Path, Fresh(path), baked[path].ids = {}
    PROVE  Render(path)' = Render(path)
  <1>1. Active' = Active /\ \A s : ProductAt(s)' = ProductAt(s)
    BY DEF Active, ProductAt
  <1>2. /\ \A c : ActiveIn(c)' = ActiveIn(c)
        /\ \A s : CollectionAt(s)' = CollectionAt(s) /\ TableRows(s)' = TableRows(s)
    BY <1>1 DEF ActiveIn, CollectionAt, Collections, TableRows
  <1>3. ASSUME NEW g \in Page, path = <<"page", g>>
        PROVE  Render(path)' = Render(path)
    <2>1. Listed(Shows[g]) = {}
      BY <1>3, FreshPage
    <2>2. Listed(Shows[g])' = Listed(Shows[g])
      BY <1>1, <1>2 DEF Listed
    <2>3. Shows[g] \in Source
      BY PagesAssumption
    <2> QED
      BY <1>2, <1>3, <2>1, <2>2, <2>3, SameSitePage
  <1>4. ASSUME NEW s \in Slug, path = <<"product", s>>
        PROVE  Render(path)' = Render(path)
    <2>1. ProductAt(s) = {}
      BY <1>4, FreshProduct
    <2> QED
      BY <1>1, <1>4, <2>1, SameProductPage
  <1>5. ASSUME NEW s \in Slug, path = <<"collection", s>>
        PROVE  Render(path)' = Render(path)
    <2>1. ASSUME NEW c \in CollectionAt(s)
          PROVE  ActiveIn(c) = {}
      <3>1. Render(path) = CollectionPage(c)
        BY <1>5, RenderCollection DEF RowsOK
      <3>2. CollectionPage(c).ids = ActiveIn(c)
        BY DEF CollectionPage
      <3> QED
        BY <3>1, <3>2 DEF Fresh
    <2>2. \A c \in CollectionAt(s) :
             /\ ActiveIn(c)' = ActiveIn(c)
             /\ collection'[c] = collection[c]
             /\ \A x \in ActiveIn(c) : product'[x].version = product[x].version
      BY <1>2, <2>1
    <2> QED
      BY <1>2, <1>5, <2>2, SameCollectionPage
  <1> QED
    BY <1>3, <1>4, <1>5, PathCases

LEMMA PagesRetag ==
    ASSUME Base, Base', PagesInv, NEW r \in Request, Idle(r), Retag(r)
    PROVE  PagesInv'
  <1>1. /\ UNCHANGED <<collection, members, table, missed, files, live, index, bake>>
        /\ \A q \in Request \ {r} : job'[q] = job[q]
    BY DEF Retag, Begin, Base, BaseInv, JobsOK, site
  <1>2. \A q \in Product : product'[q].slug = product[q].slug /\ product'[q].status = product[q].status
    BY DEF Retag, Base, BaseInv, RowsOK
  <1>0. baked' = baked
    <2>1. product' = [p \in Product |-> IF p \in Products THEN [product[p] EXCEPT !.version = @ + 1]
                                       ELSE product[p]]
      BY DEF Retag
    <2> QED
      BY <1>1, <2>1, ProductsRetagged, BakedStays DEF Base, BaseInv
  <1>a. PICK ps \in SetToSeqs(Products) : Begin(r, [i \in DOMAIN ps |-> Retagged(ps[i])])
    BY DEF Retag, Retagged
  <1>b. PICK tasks : tasks = [i \in DOMAIN ps |-> Retagged(ps[i])]
    OBVIOUS
  <1>c. /\ tasks \in Seq(Task)
        /\ \A i \in 1 .. Len(tasks) : tasks[i].do \notin Destroys
        /\ \A p \in Products : \E i \in 1 .. Len(tasks) :
              tasks[i].do = "product" /\ tasks[i].id = p
    <2>1. RowsOK
      BY DEF Base, BaseInv
    <2> QED
      BY <1>b, <2>1, RetagTasks
  <1>d. job'[r] = tasks
    <2>1. Begin(r, tasks)
      BY <1>a, <1>b
    <2> QED
      BY <2>1 DEF Begin, Base, BaseInv, JobsOK
  <1>3. ASSUME NEW p \in Products
        PROVE  \E i \in 1 .. Len(job'[r]) : \E t \in Task :
                  job'[r][i] = t /\ t.do = "product" /\ t.id = p
    <2>1. PICK i \in 1 .. Len(tasks) : tasks[i].do = "product" /\ tasks[i].id = p
      BY <1>c
    <2>2. tasks[i] \in Task
      BY <1>c
    <2> QED
      BY <1>d, <2>1, <2>2
  <1>4. ASSUME NEW path \in Path, NEW p \in Products, Finds(path, p)
        PROVE  Covered(path)'
    <2>1. PICK i \in 1 .. Len(job'[r]), t \in Task : job'[r][i] = t /\ t.do = "product" /\ t.id = p
      BY <1>3
    <2>2. Finds(path, p)'
      BY <1>0, <1>1, <1>4 DEF Finds, Homes
    <2>3. path \in DueFor(t)'
      BY <2>1, <2>2, TaskCases, ProductDueNext DEF ProductDue
    <2> QED
      BY <2>1, <2>3, NewlyDue
  <1>5. ASSUME NEW path \in Path
        PROVE  Fresh(path)' \/ Covered(path)'
    <2>1. CASE Covered(path)
      <3>1. \A t \in Task : path \in DueFor(t) => path \in DueFor(t)'
        BY <1>0, <1>1, <1>2, DueThroughRetag
      <3> QED
        BY <1>1, <2>1, <3>1, CoveredStays, IdleHasNone DEF Base, BaseInv
    <2>2. CASE Fresh(path) /\ baked[path].ids = {}
      BY <1>0, <1>1, <1>2, <2>2, UnfoundKept DEF Fresh, Base, BaseInv
    <2>3. CASE baked[path].ids # {}
      BY <1>4, <2>3 DEF Base, BaseInv, PagesOK, Finds
    <2> QED
      BY <2>1, <2>2, <2>3 DEF PagesInv, FreshOrDue
  <1>6. OwnPages'
    <2>1. Active' = Active /\ \A q \in Active : OwnPath(q)' = OwnPath(q)
      BY <1>2 DEF Active, OwnPath
    <2>2. \A path : KeptPath(path) => KeptPath(path)'
      BY <1>1, KeptStays, IdleHasNone
    <2> QED
      BY <1>0, <1>1, <2>1, <2>2 DEF PagesInv, OwnPages
  <1>7. FreshOrDue'
    BY <1>5 DEF FreshOrDue
  <1> QED
    BY <1>6, <1>7 DEF PagesInv

\* The row of p goes; r lets go of nothing it had to do.
LEMMA ProductGone ==
    ASSUME Base, Base', PagesInv, NEW r \in Request,
           \A q \in Request \ {r} : job'[q] = job[q],
           \A i \in 1 .. Len(job[r]) : job[r][i].do \in Destroys \/ job'[r] = job[r],
           NEW p \in Products, LoseProduct(p), missed \subseteq missed',
           \A path \in TargetsOfProduct(baked, p, product[p].slug, TRUE) : KeptPath(path)'
    PROVE  PagesInv'
  <1>1. p \in Product /\ product[p].slug \in Slug
    BY SlugsOfProducts DEF Base, BaseInv
  <1>2. /\ product'[p] = Gone /\ \A q \in Product \ {p} : product'[q] = product[q]
        /\ \A c \in Collection : members'[c] = members[c] \ {p}
        /\ UNCHANGED <<collection, table>>
    BY DEF LoseProduct, Base, BaseInv, RowsOK
  <1>3. /\ \A path \in Path : baked'[path].ids = baked[path].ids \ {p}
        /\ \A path \in Path : p \notin baked[path].ids => baked'[path] = baked[path]
    BY <1>1, BakedLoses
  <1>4. ASSUME NEW path \in Path, Finds(path, p) \/ path = OwnPath(p)
        PROVE  KeptPath(path)'
    BY <1>4, ActiveTargets DEF OwnPath
  <1>5. ASSUME NEW path \in Path, KeptPath(path)
        PROVE  KeptPath(path)'
    <2>1. ASSUME NEW i \in 1 .. Len(job[r]), Keeps(job[r][i], path)
          PROVE  KeptPath(path)'
      <3>1. job[r][i].do \notin Destroys
        BY <2>1 DEF Keeps, Destroys
      <3>2. job'[r] = job[r]
        BY <3>1
      <3> QED
        BY <2>1, <3>2, NewlyKept
    <2> QED
      BY <1>5, <2>1, KeptStays
  <1>6. ASSUME NEW path \in Path
        PROVE  Fresh(path)' \/ Covered(path)'
    <2>1. CASE Finds(path, p) \/ path = OwnPath(p)
      BY <1>4, <2>1, KeptAreCovered DEF Base, BaseInv
    <2>2. CASE ~Finds(path, p) /\ path # OwnPath(p)
      <3>1. baked'[path] = baked[path]
        BY <1>3, <2>2 DEF Finds
      <3>2. CASE Fresh(path)
        <4>1. \A c \in Collection : members'[c] \subseteq members[c] /\ members[c] \ {p} \subseteq members'[c]
          BY <1>2
        <4>2. product'[p].status # "active"
          BY <1>2 DEF Gone
        <4>3. Render(path)' = Render(path)
          BY <1>1, <1>2, <2>2, <3>2, <4>1, <4>2, ProductWriteFound DEF Base, BaseInv
        <4> QED
          BY <3>1, <3>2, <4>3 DEF Fresh
      <3>3. CASE Covered(path)
        <4>1. \A t \in Task : path \in DueFor(t) => path \in DueFor(t)'
          BY <1>1, <2>2, DueThroughLoss
        <4>2. ASSUME NEW i \in 1 .. Len(job[r]), NEW t \in Task, job[r][i] = t, path \in DueFor(t)
              PROVE  Covered(path)'
          <5>1. t.do \notin Destroys
            BY <4>2, OthersDueNow DEF OthersDue
          <5>2. job'[r] = job[r]
            BY <4>2, <5>1
          <5> QED
            BY <4>1, <4>2, <5>2, NewlyDue
        <4> QED
          BY <3>3, <4>1, <4>2, CoveredStays DEF Base, BaseInv
      <3> QED
        BY <3>2, <3>3 DEF PagesInv, FreshOrDue
    <2> QED
      BY <2>1, <2>2
  <1>7. ASSUME NEW q \in Active', NEW path \in Path, path = OwnPath(q)'
        PROVE  q \in baked'[path].ids \/ KeptPath(path)'
    <2>1. q # p /\ q \in Active /\ path = OwnPath(q)
      BY <1>2, <1>7 DEF Active, OwnPath, Gone
    <2>2. q \in baked[path].ids \/ KeptPath(path)
      BY <2>1 DEF PagesInv, OwnPages
    <2> QED
      BY <1>3, <1>5, <2>1, <2>2
  <1>8. FreshOrDue'
    BY <1>6 DEF FreshOrDue
  <1>9. OwnPages'
    BY <1>7 DEF OwnPages
  <1> QED
    BY <1>8, <1>9 DEF PagesInv

LEMMA PagesAdminDeleteProduct ==
    ASSUME Base, Base', PagesInv, NEW r \in Request, NEW p \in Product, AdminDeleteProduct(r, p)
    PROVE  PagesInv'
  <1>1. /\ p \in Products /\ LoseProduct(p) /\ job' = job
        /\ missed' = missed \union TargetsOfProduct(baked, p, product[p].slug, TRUE)
    BY DEF AdminDeleteProduct, Leaves
  <1>2. \A path \in TargetsOfProduct(baked, p, product[p].slug, TRUE) : KeptPath(path)'
    BY <1>1 DEF KeptPath
  <1> QED
    BY <1>1, <1>2, ProductGone

\* A step that changes nothing that is rendered, and makes no page but those
\* it leaves behind.
LEMMA PagesQuiet ==
    ASSUME Base, Base', PagesInv, UNCHANGED <<product, collection, members, table>>,
           NEW r \in Request, \A q \in Request \ {r} : job'[q] = job[q],
           \A path \in Path : Render(path)' = Render(path),
           missed \subseteq missed',
           \A path \in Path : path \in missed' \/ baked'[path] = baked[path],
           \A path \in Path : \A i \in 1 .. Len(job[r]), t \in Task :
              job[r][i] = t /\ path \in DueFor(t) => path \in missed' \/ t \in {job'[r][j] : j \in 1 .. Len(job'[r])}
    PROVE  PagesInv'
  <1>0. ASSUME NEW path \in Path, path \in missed'
        PROVE  Covered(path)' /\ KeptPath(path)'
    BY <1>0 DEF Covered, KeptPath
  <1>1. ASSUME NEW path \in Path, path \notin missed', NEW t \in Task, path \in DueFor(t)
        PROVE  path \in DueFor(t)'
    <2>1. baked'[path] = baked[path]
      BY <1>1
    <2> QED
      BY <1>1, <2>1, DueThroughBakes
  <1>2. ASSUME NEW path \in Path, path \notin missed', Covered(path)
        PROVE  Covered(path)'
    <2>1. ASSUME NEW i \in 1 .. Len(job[r]), NEW t \in Task, job[r][i] = t, path \in DueFor(t)
          PROVE  Covered(path)'
      <3>1. t \in {job'[r][j] : j \in 1 .. Len(job'[r])}
        BY <1>2, <2>1
      <3> QED
        BY <1>1, <1>2, <2>1, <3>1, NewlyDue
    <2>2. \A t \in Task : path \in DueFor(t) => path \in DueFor(t)'
      BY <1>1, <1>2
    <2>3. path \in missed => path \in missed'
      OBVIOUS
    <2> QED
      BY <1>2, <2>1, <2>2, <2>3, CoveredStays DEF Base, BaseInv
  <1>3. ASSUME NEW path \in Path, path \notin missed', KeptPath(path)
        PROVE  KeptPath(path)'
    <2>1. ASSUME NEW i \in 1 .. Len(job[r]), Keeps(job[r][i], path)
          PROVE  KeptPath(path)'
      <3>1. PICK t \in Task : job[r][i] = t
        BY DEF Base, BaseInv, JobsOK
      <3>2. path \in DueFor(t)
        BY <2>1, <3>1, KeepsAreDueNow DEF KeepsAreDue
      <3>3. t \in {job'[r][j] : j \in 1 .. Len(job'[r])}
        BY <1>3, <3>1, <3>2
      <3> QED
        BY <2>1, <3>1, <3>3, NewlyKept
    <2>2. path \in missed => path \in missed'
      OBVIOUS
    <2> QED
      BY <1>3, <2>1, <2>2, KeptStays
  <1>4. FreshOrDue'
    <2> SUFFICES ASSUME NEW path \in Path
                 PROVE  Fresh(path)' \/ Covered(path)'
      BY DEF FreshOrDue
    <2>1. CASE path \in missed'
      BY <1>0, <2>1
    <2>2. CASE path \notin missed'
      BY <1>2, <2>2 DEF PagesInv, FreshOrDue, Fresh
    <2> QED
      BY <2>1, <2>2
  <1>5. OwnPages'
    <2> SUFFICES ASSUME NEW q \in Active', NEW path \in Path, path = OwnPath(q)'
                 PROVE  q \in baked'[path].ids \/ KeptPath(path)'
      BY DEF OwnPages
    <2>1. q \in Active /\ path = OwnPath(q)
      BY DEF Active, OwnPath
    <2>2. CASE path \in missed'
      BY <1>0, <2>2
    <2>3. CASE path \notin missed'
      BY <1>3, <2>1, <2>3 DEF PagesInv, OwnPages
    <2> QED
      BY <2>2, <2>3
  <1> QED
    BY <1>4, <1>5 DEF PagesInv

LEMMA RenderStays ==
    ASSUME RowsOK, RowsOK', UNCHANGED <<product, collection, members, table>>, NEW path \in Path
    PROVE  Render(path)' = Render(path)
  <1>1. Active' = Active /\ Collections' = Collections /\ \A s : TableRows(s)' = TableRows(s)
    BY DEF Active, Collections, TableRows
  <1>2. \A s : CollectionAt(s)' = CollectionAt(s) /\ ProductAt(s)' = ProductAt(s)
    BY <1>1 DEF CollectionAt, ProductAt
  <1>3. \A c : ActiveIn(c)' = ActiveIn(c)
    BY <1>1 DEF ActiveIn
  <1>4. CASE \E s \in Slug : path = <<"product", s>>
    BY <1>2, <1>3, <1>4, SameProductPage DEF Homes
  <1>5. CASE \E s \in Slug : path = <<"collection", s>>
    BY <1>2, <1>3, <1>5, SameCollectionPage
  <1>6. CASE \E g \in Page : path = <<"page", g>>
    <2>1. PICK g \in Page : path = <<"page", g>>
      BY <1>6
    <2>2. Shows[g] \in Source
      BY PagesAssumption
    <2>3. Listed(Shows[g])' = Listed(Shows[g])
      BY <1>1, <1>2, <1>3, <2>2, SourceCases DEF Listed
    <2> QED
      BY <1>1, <2>1, <2>2, <2>3, SameSitePage
  <1> QED
    BY <1>4, <1>5, <1>6, PathCases

LEMMA PagesDelete ==
    ASSUME Base, Base', PagesInv, NEW r \in Request, Idle(r),
           \/ \E p \in Product : DeleteProduct(r, p)
           \/ \E c \in Collection : DeleteCollection(r, c)
    PROVE  PagesInv'
  <1>1. /\ UNCHANGED <<product, collection, members, table, missed, baked>>
        /\ \A q \in Request \ {r} : job'[q] = job[q]
    BY BegunAlone DEF DeleteProduct, DeleteCollection, Begin, catalogue, Base, BaseInv, JobsOK
  <1>2. \A path \in Path : Render(path)' = Render(path)
    BY <1>1, RenderStays DEF Base, BaseInv
  <1> QED
    BY <1>1, <1>2, PagesQuiet, IdleHasNone

LEMMA PagesDestroyProduct ==
    ASSUME Base, Base', PagesInv, NEW r \in Request, DestroyProduct(r)
    PROVE  PagesInv'
  <1> DEFINE task == Head(job[r])
  <1>1. job[r] # <<>> /\ task.do = "destroy product"
    BY DEF DestroyProduct
  <1>2. task \in Task /\ task = job[r][1] /\ Len(job[r]) = 1
    BY <1>1, HeadTask DEF Base, BaseInv, Destroys
  <1>3. task.id \in Product /\ task.paths \in SUBSET Path
    BY <1>1, <1>2, TaskCases
  <1>4. \A i \in 1 .. Len(job[r]) : job[r][i].do \in Destroys
    <2>1. job[r][1].do \in Destroys
      BY <1>1, <1>2 DEF Destroys
    <2> HIDE DEF task
    <2> QED
      BY <1>2, <2>1
  <1>5. CASE task.id \in Products
    <2>1. PICK p \in Products : p = task.id
      BY <1>5
    <2>2. PICK paths \in SUBSET Path : paths = task.paths
      BY <1>3
    <2>3. /\ LoseProduct(p) /\ job' = [job EXCEPT ![r] = <<OfPaths(paths)>>]
          /\ missed' = missed \union (TargetsOfProduct(baked, p, product[p].slug, TRUE) \ paths)
      BY <1>5, <2>1, <2>2 DEF DestroyProduct, Leaves
    <2>4. job'[r] = <<OfPaths(paths)>> /\ \A q \in Request \ {r} : job'[q] = job[q]
      BY <2>3, JobReplaced DEF Base, BaseInv
    <2>5. ASSUME NEW path \in TargetsOfProduct(baked, p, product[p].slug, TRUE)
          PROVE  KeptPath(path)'
      <3>1. CASE path \in paths
        <4>1. Keeps(OfPaths(paths), path)
          BY <3>1 DEF Keeps, OfPaths
        <4> QED
          BY <2>4, <4>1, OnlyTask
      <3>2. CASE path \notin paths
        BY <2>3, <3>2 DEF KeptPath
      <3> QED
        BY <3>1, <3>2
    <2> QED
      BY <1>4, <2>3, <2>4, <2>5, ProductGone
  <1>6. CASE task.id \notin Products
    <2>1. job' = [job EXCEPT ![r] = <<>>] /\ UNCHANGED <<product, collection, members, table, baked, missed>>
      BY <1>6, BakedStays DEF DestroyProduct, catalogue, site, Lost
    <2>2. \A path \in Path : Render(path)' = Render(path)
      BY <2>1, RenderStays DEF Base, BaseInv
    <2>3. \A q \in Request \ {r} : job'[q] = job[q]
      BY <2>1, JobDropped DEF Base, BaseInv
    <2>4. \A path \in Path : \A i \in 1 .. Len(job[r]), t \in Task : job[r][i] = t => path \notin DueFor(t)
      BY <1>4, OthersDueNow DEF OthersDue
    <2> QED
      BY <2>1, <2>2, <2>3, <2>4, PagesQuiet
  <1> QED
    BY <1>5, <1>6

\* What is still to do after the head of r's job.
LEMMA AfterHead ==
    ASSUME JobsOK, NEW r \in Request, job[r] # <<>>, job' = [job EXCEPT ![r] = Tail(@)],
           NEW i \in 1 .. Len(job[r]), NEW t, job[r][i] = t
    PROVE  t = Head(job[r]) \/ t \in {job'[r][j] : j \in 1 .. Len(job'[r])}
  <1>1. CASE i = 1
    BY <1>1, HeadTask
  <1>2. CASE i # 1
    <2>1. i \in 2 .. Len(job[r])
      BY <1>2
    <2> QED
      BY <2>1, TailTasks
  <1> QED
    BY <1>1, <1>2

LEMMA OwnPageLists ==
    ASSUME RowsOK, NEW q \in Active, NEW path, path = OwnPath(q)
    PROVE  q \in Render(path).ids /\ Render(path) # Nothing
  <1>1. q \in ProductAt(product[q].slug)
    BY DEF ProductAt
  <1>2. Render(path) = ProductPage(q)
    BY <1>1, RenderProduct DEF RowsOK, OwnPath
  <1>3. q \in ProductPage(q).ids /\ Nothing.ids = {}
    BY DEF ProductPage, Nothing
  <1> QED
    BY <1>2, <1>3

\* A collection's row changes or goes: the pages found for its slug, the old
\* one and the new one, are left behind or due.
LEMMA CollectionFound ==
    ASSUME Base, Base', PagesInv, NEW r \in Request,
           \A q \in Request \ {r} : job'[q] = job[q],
           \A i \in 1 .. Len(job[r]) : job[r][i].do \in Destroys,
           NEW c \in Collection,
           \A d \in Collection \ {c} : collection'[d] = collection[d] /\ members'[d] = members[d],
           members'[c] \subseteq members[c],
           UNCHANGED <<product, table, baked>>, missed \subseteq missed',
           c \in Collections => \A path \in TargetsOfCollection(baked, collection[c].slug) : Covered(path)',
           c \in Collections' => \A path \in TargetsOfCollection(baked, collection'[c].slug) : Covered(path)'
    PROVE  PagesInv'
  <1>1. ASSUME NEW path \in Path
        PROVE  Fresh(path)' \/ Covered(path)'
    <2>1. CASE c \in Collections /\ path \in TargetsOfCollection(baked, collection[c].slug)
      BY <2>1
    <2>2. CASE c \in Collections' /\ path \in TargetsOfCollection(baked, collection'[c].slug)
      BY <2>2
    <2>3. CASE /\ ~(c \in Collections /\ path \in TargetsOfCollection(baked, collection[c].slug))
               /\ ~(c \in Collections' /\ path \in TargetsOfCollection(baked, collection'[c].slug))
      <3>1. c \in Collections =>
               /\ <<"members", collection[c].slug>> \notin baked[path].srcs
               /\ path # <<"collection", collection[c].slug>>
        BY <2>3, CollectionTargets
      <3>2. c \in Collections' =>
               /\ <<"members", collection'[c].slug>> \notin baked[path].srcs
               /\ path # <<"collection", collection'[c].slug>>
        BY <2>3, CollectionTargets
      <3>3. CASE Fresh(path)
        <4>1. Render(path)' = Render(path)
          BY <3>1, <3>2, <3>3, CollectionWriteFound DEF Base, BaseInv
        <4> QED
          BY <3>3, <4>1 DEF Fresh
      <3>4. CASE Covered(path)
        <4>1. \A t \in Task : path \in DueFor(t) => path \in DueFor(t)'
          BY <3>1, DueThroughCollectionWrite DEF Base, BaseInv
        <4>2. \A i \in 1 .. Len(job[r]), t \in Task : job[r][i] = t => path \notin DueFor(t)
          BY OthersDueNow DEF OthersDue
        <4> QED
          BY <3>4, <4>1, <4>2, CoveredStays DEF Base, BaseInv
      <3> QED
        BY <3>3, <3>4 DEF PagesInv, FreshOrDue
    <2> QED
      BY <2>1, <2>2, <2>3
  <1>2. ASSUME NEW path \in Path, KeptPath(path)
        PROVE  KeptPath(path)'
    <2>1. \A i \in 1 .. Len(job[r]) : ~Keeps(job[r][i], path)
      BY DEF Keeps, Destroys
    <2> QED
      BY <1>2, <2>1, KeptStays
  <1>3. FreshOrDue'
    BY <1>1 DEF FreshOrDue
  <1>4. OwnPages'
    BY <1>2, OwnPagesStay DEF PagesInv
  <1> QED
    BY <1>3, <1>4 DEF PagesInv

LEMMA CollectionLostFound ==
    ASSUME Base, Base', PagesInv, NEW r \in Request,
           \A q \in Request \ {r} : job'[q] = job[q],
           \A i \in 1 .. Len(job[r]) : job[r][i].do \in Destroys,
           NEW c \in Collections, LoseCollection(c), baked' = baked, missed \subseteq missed',
           \A path \in TargetsOfCollection(baked, collection[c].slug) : Covered(path)'
    PROVE  PagesInv'
  <1>1. c \in Collection
    BY DEF Collections
  <1>2. /\ \A d \in Collection \ {c} : collection'[d] = collection[d] /\ members'[d] = members[d]
        /\ members'[c] \subseteq members[c] /\ c \notin Collections'
        /\ UNCHANGED <<product, table>>
    BY <1>1 DEF LoseCollection, Collections, Live, Gone, Base, BaseInv, RowsOK
  <1> QED
    BY <1>1, <1>2, CollectionFound

LEMMA CollectionPutFound ==
    ASSUME Base, Base', PagesInv, NEW r \in Request, Idle(r),
           \A q \in Request \ {r} : job'[q] = job[q],
           NEW c \in Collection, NEW row, PutCollection(c, row), baked' = baked, missed \subseteq missed',
           c \in Collections => \A path \in TargetsOfCollection(baked, collection[c].slug) : Covered(path)',
           \A path \in TargetsOfCollection(baked, row.slug) : Covered(path)'
    PROVE  PagesInv'
  <1>1. /\ \A d \in Collection \ {c} : collection'[d] = collection[d] /\ members'[d] = members[d]
        /\ members'[c] \subseteq members[c] /\ collection'[c] = row
        /\ UNCHANGED <<product, table>>
    BY DEF PutCollection, Base, BaseInv, RowsOK
  <1>2. c \in Collections' => \A path \in TargetsOfCollection(baked, collection'[c].slug) : Covered(path)'
    BY <1>1
  <1> QED
    BY <1>1, <1>2, CollectionFound, IdleHasNone

LEMMA PagesDestroyCollection ==
    ASSUME Base, Base', PagesInv, NEW r \in Request, DestroyCollection(r)
    PROVE  PagesInv'
  <1> DEFINE task == Head(job[r])
  <1>1. job[r] # <<>> /\ task.do = "destroy collection" /\ baked' = baked
    <2>1. product' = product /\ UNCHANGED <<files, live, index, bake>>
      BY DEF DestroyCollection, LoseCollection, catalogue, site
    <2> QED
      BY <2>1, BakedStays DEF DestroyCollection, Lost
  <1>2. task \in Task /\ task = job[r][1] /\ Len(job[r]) = 1
    BY <1>1, HeadTask DEF Base, BaseInv, Destroys
  <1>3. task.id \in Collection /\ task.paths \in SUBSET Path
    BY <1>1, <1>2, TaskCases
  <1>4. \A i \in 1 .. Len(job[r]) : job[r][i].do \in Destroys
    <2>1. job[r][1].do \in Destroys
      BY <1>1, <1>2 DEF Destroys
    <2> HIDE DEF task
    <2> QED
      BY <1>2, <2>1
  <1>5. CASE task.id \in Collections
    <2>1. PICK c \in Collections : c = task.id
      BY <1>5
    <2>2. PICK paths \in SUBSET Path : paths = task.paths
      BY <1>3
    <2>3. /\ LoseCollection(c) /\ job' = [job EXCEPT ![r] = <<OfPaths(paths)>>]
          /\ missed' = missed \union (TargetsOfCollection(baked, collection[c].slug) \ paths)
      BY <1>5, <2>1, <2>2 DEF DestroyCollection, Leaves
    <2>4. job'[r] = <<OfPaths(paths)>> /\ \A q \in Request \ {r} : job'[q] = job[q]
      BY <2>3, JobReplaced DEF Base, BaseInv
    <2>5. ASSUME NEW path \in TargetsOfCollection(baked, collection[c].slug)
          PROVE  Covered(path)'
      <3>1. CASE path \in paths
        <4>1. Keeps(OfPaths(paths), path)
          BY <3>1 DEF Keeps, OfPaths
        <4> QED
          BY <2>4, <4>1, OnlyTask, KeptAreCovered DEF Base, BaseInv
      <3>2. CASE path \notin paths
        BY <2>3, <3>2 DEF Covered
      <3> QED
        BY <3>1, <3>2
    <2>6. c \in Collection /\ c \notin Collections'
      BY <2>3 DEF LoseCollection, Collections, Live, Gone, Base, BaseInv, RowsOK
    <2>7. missed \subseteq missed'
      BY <2>3
    <2> QED
      BY <1>1, <1>4, <2>3, <2>4, <2>5, <2>6, <2>7, CollectionLostFound
  <1>6. CASE task.id \notin Collections
    <2>1. job' = [job EXCEPT ![r] = <<>>] /\ UNCHANGED <<product, collection, members, table, missed>>
      BY <1>6 DEF DestroyCollection, catalogue
    <2>2. \A path \in Path : Render(path)' = Render(path)
      BY <2>1, RenderStays DEF Base, BaseInv
    <2>3. \A q \in Request \ {r} : job'[q] = job[q]
      BY <2>1, JobDropped DEF Base, BaseInv
    <2>4. \A path \in Path : \A i \in 1 .. Len(job[r]), t \in Task : job[r][i] = t => path \notin DueFor(t)
      BY <1>4, OthersDueNow DEF OthersDue
    <2> QED
      BY <1>1, <2>1, <2>2, <2>3, <2>4, PagesQuiet
  <1> QED
    BY <1>5, <1>6

LEMMA PagesAdminDeleteCollection ==
    ASSUME Base, Base', PagesInv, NEW r \in Request, Idle(r), NEW c \in Collection,
           AdminDeleteCollection(r, c)
    PROVE  PagesInv'
  <1>1. /\ c \in Collections /\ LoseCollection(c) /\ Begin(r, <<>>)
        /\ missed' = missed \union TargetsOfCollection(baked, collection[c].slug)
    BY DEF AdminDeleteCollection, Leaves
  <1>2. \A q \in Request \ {r} : job'[q] = job[q]
    BY <1>1, BeginsNone DEF Base, BaseInv
  <1>3. \A path \in TargetsOfCollection(baked, collection[c].slug) : Covered(path)'
    BY <1>1 DEF Covered
  <1>4. baked' = baked
    BY <1>1, BegunAlone DEF LoseCollection
  <1>5. missed \subseteq missed'
    BY <1>1
  <1> QED
    BY <1>1, <1>2, <1>3, <1>4, <1>5, CollectionLostFound, IdleHasNone

LEMMA PagesCreateCollection ==
    ASSUME Base, Base', PagesInv, NEW r \in Request, Idle(r), NEW c \in Collection, NEW s \in Slug,
           NEW byAdmin \in BOOLEAN, CreateCollection(r, c, s, byAdmin)
    PROVE  PagesInv'
  <1> DEFINE row == [slug |-> s, status |-> "active", version |-> collection[c].version + 1]
  <1>1. row.slug = s
    OBVIOUS
  <1>2. PutCollection(c, row) /\ c \notin Collections
    BY DEF CreateCollection, Collections, Live, NoRow
  <1> HIDE DEF row
  <1>3. CASE byAdmin = TRUE
    <2>1. Begin(r, <<>>) /\ missed' = missed \union TargetsOfCollection(baked, s)
      BY <1>3 DEF CreateCollection, Leaves
    <2>2. baked' = baked /\ \A q \in Request \ {r} : job'[q] = job[q]
      BY <1>2, <2>1, BeginsNone, BegunAlone DEF Base, BaseInv, PutCollection
    <2>3. \A path \in TargetsOfCollection(baked, s) : Covered(path)'
      BY <2>1 DEF Covered
    <2>4. missed \subseteq missed'
      BY <2>1
    <2> QED
      BY <1>1, <1>2, <2>2, <2>3, <2>4, CollectionPutFound
  <1>4. CASE byAdmin = FALSE
    <2>1. PICK t : t = OfCollection(s, s)
      OBVIOUS
    <2>2. Begin(r, <<t>>) /\ missed' = missed /\ t \in Task
      BY <1>4, <2>1, TasksMade DEF CreateCollection, Leaves
    <2>3. baked' = baked /\ job'[r] = <<t>> /\ \A q \in Request \ {r} : job'[q] = job[q]
      BY <1>2, <2>2, BeginsOne, BegunAlone DEF Base, BaseInv, PutCollection
    <2>4. ASSUME NEW path \in TargetsOfCollection(baked, s)
          PROVE  Covered(path)'
      <3>1. path \in DueFor(t)'
        BY <2>1, <2>3, CollectionTargets, CollectionDueNext DEF CollectionDue, OfCollection
      <3> QED
        BY <2>3, <3>1, OnlyTask
    <2> QED
      BY <1>1, <1>2, <2>2, <2>3, <2>4, CollectionPutFound
  <1> QED
    BY <1>3, <1>4

LEMMA PagesSaveCollection ==
    ASSUME Base, Base', PagesInv, NEW r \in Request, Idle(r), NEW c \in Collection, NEW s \in Slug,
           NEW byAdmin \in BOOLEAN, SaveCollection(r, c, s, byAdmin)
    PROVE  PagesInv'
  <1> DEFINE row == [slug |-> s, status |-> "active", version |-> collection[c].version + 1]
  <1>1. row.slug = s
    OBVIOUS
  <1>2. PICK old : old = collection[c].slug
    OBVIOUS
  <1>3. PICK t : t = OfCollection(s, old)
    OBVIOUS
  <1>4. old \in Slug /\ c \in Collections
    BY <1>2, SlugsOfCollections DEF Base, BaseInv, SaveCollection
  <1>5. /\ PutCollection(c, row) /\ Begin(r, <<t>>) /\ t \in Task
        /\ missed' = missed \union (IF s # old THEN Loops(baked, <<"members", old>>) ELSE {})
    BY <1>2, <1>3, <1>4, TasksMade DEF SaveCollection, Leaves
  <1> HIDE DEF row
  <1>6. baked' = baked /\ job'[r] = <<t>> /\ \A q \in Request \ {r} : job'[q] = job[q]
    BY <1>5, BeginsOne, BegunAlone DEF Base, BaseInv, PutCollection
  <1>7. ASSUME NEW path \in TargetsOfCollection(baked, s)
        PROVE  Covered(path)'
    <2>1. path \in DueFor(t)'
      BY <1>3, <1>6, CollectionTargets, CollectionDueNext DEF CollectionDue, OfCollection
    <2> QED
      BY <1>6, <2>1, OnlyTask
  <1>8. ASSUME NEW path \in TargetsOfCollection(baked, old)
        PROVE  Covered(path)'
    <2>1. CASE s = old
      BY <1>7, <2>1
    <2>2. CASE s # old /\ path = <<"collection", old>>
      <3>1. path \in DueFor(t)'
        BY <1>3, <2>2, CollectionDueNext DEF CollectionDue, OfCollection
      <3> QED
        BY <1>6, <3>1, OnlyTask
    <2>3. CASE s # old /\ path \in Loops(baked, <<"members", old>>)
      BY <1>5, <2>3 DEF Covered
    <2> QED
      BY <2>1, <2>2, <2>3, CollectionTargets DEF TargetsOfCollection
  <1>9. missed \subseteq missed'
    BY <1>5
  <1> QED
    BY <1>1, <1>2, <1>5, <1>6, <1>7, <1>8, <1>9, CollectionPutFound

\* Memberships change: every collection whose set does is baked, and the page
\* of each product that joins one.
LEMMA MembersFound ==
    ASSUME Base, Base', PagesInv, NEW r \in Request, Idle(r),
           \A q \in Request \ {r} : job'[q] = job[q],
           UNCHANGED <<product, collection, table, baked>>, missed \subseteq missed',
           \A c \in Collections : members'[c] # members[c] =>
              \A path \in Loops(baked, <<"members", collection[c].slug>>) : Covered(path)',
           \A c \in Collections : \A q \in Active : q \in members'[c] \ members[c] =>
              \A path \in Path : path = OwnPath(q) => Covered(path)'
    PROVE  PagesInv'
  <1>1. ASSUME NEW path \in Path
        PROVE  Fresh(path)' \/ Covered(path)'
    <2>1. CASE \E c \in Collections : members'[c] # members[c] /\ <<"members", collection[c].slug>> \in baked[path].srcs
      BY <2>1 DEF Loops
    <2>2. CASE \E c \in Collections : \E q \in Active : q \in members'[c] \ members[c] /\ path = OwnPath(q)
      BY <2>2
    <2>3. CASE /\ \A c \in Collections : members'[c] # members[c] => <<"members", collection[c].slug>> \notin baked[path].srcs
               /\ \A c \in Collections : \A q \in Active : q \in members'[c] \ members[c] => path # OwnPath(q)
      <3>1. CASE Fresh(path)
        <4>1. \A c \in Collections : members'[c] # members[c] =>
                 /\ <<"members", collection[c].slug>> \notin baked[path].srcs
                 /\ \A q \in Active : q \in members'[c] \ members[c] => path # OwnPath(q)
          BY <2>3
        <4>2. Render(path)' = Render(path)
          BY <3>1, <4>1, MembershipFound DEF Base, BaseInv
        <4> QED
          BY <3>1, <4>2 DEF Fresh
      <3>2. CASE Covered(path)
        <4>1. \A t \in Task : path \in DueFor(t) => path \in DueFor(t)'
          BY <2>3, DueThroughMembership DEF Base, BaseInv
        <4> QED
          BY <3>2, <4>1, CoveredStays, IdleHasNone DEF Base, BaseInv
      <3> QED
        BY <3>1, <3>2 DEF PagesInv, FreshOrDue
    <2> QED
      BY <2>1, <2>2, <2>3
  <1>2. \A path \in Path : KeptPath(path) => KeptPath(path)'
    BY KeptStays, IdleHasNone
  <1>3. FreshOrDue'
    BY <1>1 DEF FreshOrDue
  <1>4. OwnPages'
    BY <1>2, OwnPagesStay DEF PagesInv
  <1> QED
    BY <1>3, <1>4 DEF PagesInv

LEMMA PagesSetCollectionProducts ==
    ASSUME Base, Base', PagesInv, NEW r \in Request, Idle(r), NEW c \in Collection,
           NEW ps \in SUBSET Products, SetCollectionProducts(r, c, ps)
    PROVE  PagesInv'
  <1>1. PICK tasks \in Seq(Task) :
              /\ Begin(r, tasks)
              /\ \A i \in 1 .. Len(tasks) : tasks[i].do \notin Destroys
              /\ \E i \in 1 .. Len(tasks) : tasks[i] = OfCollection(collection[c].slug, collection[c].slug)
              /\ \A p \in (ps \ members[c]) \union (members[c] \ ps) :
                    \E i \in 1 .. Len(tasks) : tasks[i] = LoadProduct(p)
    BY SetProductsTasks DEF Base
  <1>2. /\ c \in Collections /\ UNCHANGED <<product, collection, table, missed, baked>>
        /\ members' = [members EXCEPT ![c] = ps]
    BY <1>1, BegunAlone DEF SetCollectionProducts, PutMembers
  <1>3. job'[r] = tasks /\ \A q \in Request \ {r} : job'[q] = job[q]
    BY <1>1, JobsBegun DEF Begin, Base, BaseInv
  <1>4. /\ members'[c] = ps /\ \A d \in Collections \ {c} : members'[d] = members[d]
        /\ members[c] \subseteq Products
    BY <1>2 DEF Base, BaseInv, RowsOK, Collections
  <1>5. ASSUME NEW path \in Loops(baked, <<"members", collection[c].slug>>)
        PROVE  Covered(path)'
    <2>1. PICK i \in 1 .. Len(tasks), t \in Task : t = tasks[i] /\ t = OfCollection(collection[c].slug, collection[c].slug)
      BY <1>1
    <2>2. path \in DueFor(t)'
      BY <1>2, <2>1, CollectionDueNext DEF CollectionDue, OfCollection, Loops
    <2> QED
      BY <1>3, <2>1, <2>2, NewlyDue
  <1>6. ASSUME NEW q \in Active, q \in ps \ members[c], NEW path \in Path, path = OwnPath(q)
        PROVE  Covered(path)'
    <2>1. PICK i \in 1 .. Len(tasks), t \in Task : t = tasks[i] /\ t = LoadProduct(q)
      BY <1>1, <1>6
    <2>2. q \in Products' /\ q \in Active' /\ path = OwnPath(q)'
      BY <1>2, <1>6 DEF Products, Active, OwnPath, Live
    <2>3. path \in DueFor(t)'
      BY <2>1, <2>2, LoadProductDueNext DEF LoadProductDue, LoadProduct
    <2> QED
      BY <1>3, <2>1, <2>3, NewlyDue
  <1>7. \A d \in Collections : members'[d] # members[d] => d = c
    BY <1>4
  <1>8. missed \subseteq missed'
    BY <1>2
  <1>9. \A d \in Collections : members'[d] # members[d] =>
              \A path \in Loops(baked, <<"members", collection[d].slug>>) : Covered(path)'
    BY <1>5, <1>7
  <1>10. \A d \in Collections : \A q \in Active : q \in members'[d] \ members[d] =>
              \A path \in Path : path = OwnPath(q) => Covered(path)'
    BY <1>4, <1>6, <1>7
  <1> QED
    BY <1>2, <1>3, <1>8, <1>9, <1>10, MembersFound

LEMMA PagesAdminSetCollectionProducts ==
    ASSUME Base, Base', PagesInv, NEW r \in Request, Idle(r), NEW c \in Collection,
           NEW ps \in SUBSET Products, AdminSetCollectionProducts(r, c, ps)
    PROVE  PagesInv'
  <1>1. PICK t : t = OfCollection(collection[c].slug, collection[c].slug)
    OBVIOUS
  <1>2. c \in Collections /\ t \in Task
    BY <1>1, SlugsOfCollections, TasksMade DEF AdminSetCollectionProducts, Base, BaseInv
  <1>3. /\ UNCHANGED <<product, collection, table>> /\ Begin(r, <<t>>)
        /\ members' = [members EXCEPT ![c] = ps]
        /\ missed' = missed \union {OwnPath(p) : p \in (ps \ members[c]) \intersect Active}
    BY <1>1 DEF AdminSetCollectionProducts, PutMembers, Leaves
  <1>4. baked' = baked /\ job'[r] = <<t>> /\ \A q \in Request \ {r} : job'[q] = job[q]
    BY <1>2, <1>3, BeginsOne, BegunAlone DEF Base, BaseInv
  <1>5. members'[c] = ps /\ \A d \in Collections \ {c} : members'[d] = members[d]
    BY <1>2, <1>3 DEF Base, BaseInv, RowsOK, Collections
  <1>6. ASSUME NEW path \in Loops(baked, <<"members", collection[c].slug>>)
        PROVE  Covered(path)'
    <2>1. path \in DueFor(t)'
      BY <1>1, <1>4, CollectionDueNext DEF CollectionDue, OfCollection, Loops
    <2> QED
      BY <1>4, <2>1, OnlyTask
  <1>7. ASSUME NEW q \in Active, q \in ps \ members[c]
        PROVE  OwnPath(q) \in missed'
    BY <1>3, <1>7
  <1>8. \A d \in Collections : members'[d] # members[d] => d = c
    BY <1>5
  <1>9. missed \subseteq missed'
    BY <1>3
  <1>10. \A d \in Collections : members'[d] # members[d] =>
              \A path \in Loops(baked, <<"members", collection[d].slug>>) : Covered(path)'
    BY <1>6, <1>8
  <1>11. \A d \in Collections : \A q \in Active : q \in members'[d] \ members[d] =>
              \A path \in Path : path = OwnPath(q) => Covered(path)'
    BY <1>5, <1>7, <1>8 DEF Covered
  <1> QED
    BY <1>3, <1>4, <1>9, <1>10, <1>11, MembersFound

LEMMA PagesAdminSetProductCollections ==
    ASSUME Base, Base', PagesInv, NEW r \in Request, Idle(r), NEW p \in Product,
           NEW cs \in SUBSET Collections, AdminSetProductCollections(r, p, cs)
    PROVE  PagesInv'
  <1>1. PICK tasks \in Seq(Task) :
              /\ Begin(r, tasks)
              /\ \A i \in 1 .. Len(tasks) : tasks[i].do \notin Destroys
              /\ \A c \in (cs \ Homes(p)) \union (Homes(p) \ cs) :
                    \E i \in 1 .. Len(tasks) : tasks[i] = LoadCollection(c)
    BY SetCollectionsTasks DEF Base
  <1>2. /\ UNCHANGED <<product, collection, table, baked>>
        /\ members' = [c \in Collection |-> IF c \in cs THEN members[c] \union {p} ELSE members[c] \ {p}]
        /\ missed' = missed \union (IF p \in Active /\ ~(cs \subseteq Homes(p)) THEN {OwnPath(p)} ELSE {})
    BY <1>1, BegunAlone DEF AdminSetProductCollections, PutMembers, Leaves
  <1>3. job'[r] = tasks /\ \A q \in Request \ {r} : job'[q] = job[q]
    BY <1>1, JobsBegun DEF Begin, Base, BaseInv
  <1>4. ASSUME NEW c \in Collections
        PROVE  /\ members'[c] # members[c] => c \in (cs \ Homes(p)) \union (Homes(p) \ cs)
               /\ \A q \in members'[c] \ members[c] : q = p /\ c \in cs \ Homes(p)
    <2>1. c \in Collection
      BY DEF Collections
    <2>2. members'[c] = IF c \in cs THEN members[c] \union {p} ELSE members[c] \ {p}
      BY <1>2, <2>1
    <2>3. c \in Homes(p) <=> p \in members[c]
      BY <2>1 DEF Homes
    <2> QED
      BY <2>2, <2>3
  <1>5. ASSUME NEW c \in Collections, members'[c] # members[c],
               NEW path \in Loops(baked, <<"members", collection[c].slug>>)
        PROVE  Covered(path)'
    <2>1. c \in (cs \ Homes(p)) \union (Homes(p) \ cs)
      BY <1>4, <1>5
    <2>2. PICK i \in 1 .. Len(tasks), t \in Task : t = tasks[i] /\ t = LoadCollection(c)
      BY <1>1, <2>1
    <2>3. c \in Collections'
      BY <1>2 DEF Collections
    <2>4. path \in DueFor(t)'
      BY <1>2, <2>2, <2>3, LoadCollectionDueNext DEF LoadCollectionDue, LoadCollection, Loops
    <2> QED
      BY <1>3, <2>2, <2>4, NewlyDue
  <1>6. ASSUME NEW c \in Collections, NEW q \in Active, q \in members'[c] \ members[c],
               NEW path \in Path, path = OwnPath(q)
        PROVE  Covered(path)'
    <2>1. q = p /\ c \in cs \ Homes(p)
      BY <1>4, <1>6
    <2>2. path \in missed'
      BY <1>2, <1>6, <2>1
    <2> QED
      BY <2>2 DEF Covered
  <1>7. missed \subseteq missed'
    BY <1>2
  <1> QED
    BY <1>2, <1>3, <1>5, <1>6, <1>7, MembersFound

LEMMA PagesTableVerb ==
    ASSUME Base, Base', PagesInv, NEW r \in Request, Idle(r), TableVerb(r)
    PROVE  PagesInv'
  <1>1. PICK row, tasks : TablePut(r, row, tasks)
    BY TableVerbs DEF Base
  <1>2. /\ table' = row /\ UNCHANGED <<product, collection, members, missed, baked>>
        /\ tasks \in Seq(Task)
    BY <1>1, BegunAlone DEF TablePut, PutTable
  <1>3. job'[r] = tasks /\ \A q \in Request \ {r} : job'[q] = job[q]
    BY <1>1 DEF TablePut, Begin, Base, BaseInv, JobsOK
  <1>4. ASSUME NEW path \in Path, NEW i \in 1 .. Len(tasks), <<"data", tasks[i].slug>> \in baked[path].srcs
        PROVE  Covered(path)'
    <2>1. PICK t : t = tasks[i]
      OBVIOUS
    <2>2. t.do = "table"
      BY <1>1, <2>1 DEF TablePut
    <2>3. path \in DueFor(t)'
      BY <1>2, <1>4, <2>1, <2>2, OthersDueNext DEF OthersDue
    <2> QED
      BY <1>3, <2>1, <2>3, NewlyDue
  <1>5. ASSUME NEW path \in Path
        PROVE  Fresh(path)' \/ Covered(path)'
    <2>1. CASE \E i \in 1 .. Len(tasks) : <<"data", tasks[i].slug>> \in baked[path].srcs
      BY <1>4, <2>1
    <2>2. CASE /\ \A i \in 1 .. Len(tasks) : <<"data", tasks[i].slug>> \notin baked[path].srcs
               /\ Fresh(path)
      <3>1. /\ table.slug # NoSlug => <<"data", table.slug>> \notin baked[path].srcs
            /\ table'.rows # 0 => <<"data", table'.slug>> \notin baked[path].srcs
        BY <1>1, <1>2, <2>2 DEF TablePut
      <3>2. Render(path)' = Render(path)
        BY <1>2, <3>1, TableWriteFound DEF Base, BaseInv
      <3> QED
        BY <1>2, <2>2, <3>2 DEF Fresh
    <2>3. CASE Covered(path)
      <3>1. \A t \in Task : path \in DueFor(t) => path \in DueFor(t)'
        BY <1>2, DueThroughBakes
      <3> QED
        BY <1>2, <1>3, <2>3, <3>1, CoveredStays, IdleHasNone DEF Base, BaseInv
    <2> QED
      BY <2>1, <2>2, <2>3 DEF PagesInv, FreshOrDue
  <1>6. \A path \in Path : KeptPath(path) => KeptPath(path)'
    BY <1>2, <1>3, KeptStays, IdleHasNone
  <1>7. FreshOrDue'
    BY <1>5 DEF FreshOrDue
  <1>8. OwnPages'
    BY <1>2, <1>6, OwnPagesStay DEF PagesInv
  <1> QED
    BY <1>7, <1>8 DEF PagesInv

-----------------------------------------------------------------------------
\* What the bake under way has done to the slots so far.
Stage(r) ==
    /\ bake[r].step \in {"found", "copied", "rendered"} => live = bake[r].from
    /\ bake[r].step = "flipped" => live = Other(bake[r].from)
    /\ bake[r].step = "copied" /\ bake[r].of # "publish" => files[Other(bake[r].from)] = files[bake[r].from]
    /\ bake[r].step \in {"rendered", "flipped"} => \A path \in Path :
          files[Other(bake[r].from)][path] =
             IF path \in Made(r) THEN bake[r].pages[path].shows ELSE files[bake[r].from][path]

Staged == \A r \in Request : Stage(r)

\* What holds while bakes do not overlap.
Calm == Lone /\ Staged /\ PagesInv

OthersRest(r) == \A q \in Request \ {r} : ~Baking(q)

LEMMA Based ==
    /\ BaseInv /\ Lone => Base
    /\ BaseInv' /\ Lone' => Base'
  BY PagesAre, PagesAreNext DEF PagesAreOK, Base

LEMMA OneBake ==
    ASSUME NEW r \in Request, OthersRest(r)', Stage(r)'
    PROVE  Lone' /\ Staged'
  <1>1. \A q \in Request \ {r} : bake'[q] = NoBake
    BY DEF OthersRest, Baking
  <1>2. Lone'
    BY DEF OthersRest, Lone
  <1>3. ASSUME NEW q \in Request \ {r}
        PROVE  Stage(q)'
    BY <1>1 DEF Stage, NoBake
  <1> QED
    BY <1>2, <1>3 DEF Staged

LEMMA SlotsKept ==
    ASSUME Lone, Staged, UNCHANGED <<files, live>>, \A r \in Request : bake'[r] = bake[r]
    PROVE  Lone' /\ Staged'
  BY DEF Lone, Staged, Stage, Baking, Made

\* The bake of r, and of no other, moves on.
LEMMA BakeMoves ==
    ASSUME Lone, NEW r \in Request, Baking(r) \/ OthersRest(r),
           \A q \in Request \ {r} : bake'[q] = bake[q]
    PROVE  OthersRest(r) /\ OthersRest(r)'
  BY DEF Lone, OthersRest, Baking

LEMMA SlotsDiffer ==
    ASSUME NEW slot \in Slot
    PROVE  Other(slot) \in Slot /\ Other(slot) # slot /\ Other(Other(slot)) = slot
  BY DEF Slot, Other

LEMMA PageStays ==
    ASSUME Base, Base', NEW r \in Request, OthersRest(r), OthersRest(r)', NEW path \in Path,
           path \notin Made(r), path \notin Made(r)', Placed(path)' = Placed(path)
    PROVE  baked'[path] = baked[path]
  BY BakedIs, BakedIsNext DEF BakedSays, Base, BaseInv, OthersRest

LEMMA StepPut ==
    ASSUME BakesOK, NEW r \in Request, NEW s, bake' = [bake EXCEPT ![r].step = s]
    PROVE  /\ bake'[r] = [step |-> s, of |-> bake[r].of, from |-> bake[r].from, pages |-> bake[r].pages]
           /\ Made(r)' = Made(r)
           /\ \A q \in Request \ {r} : bake'[q] = bake[q]
  <1>1. IsBake(bake[r]) /\ DOMAIN bake = Request
    BY DEF BakesOK
  <1>2. [bake[r] EXCEPT !.step = s]
           = [step |-> s, of |-> bake[r].of, from |-> bake[r].from, pages |-> bake[r].pages]
    BY <1>1 DEF IsBake
  <1>3. bake'[r] = [step |-> s, of |-> bake[r].of, from |-> bake[r].from, pages |-> bake[r].pages]
    BY <1>1, <1>2
  <1>4. Made(r)' = Made(r)
    BY <1>3 DEF Made
  <1> QED
    BY <1>1, <1>3, <1>4

\* A bake that has rendered nothing has made nothing.
LEMMA NoneMade ==
    ASSUME BakesOK, NEW r \in Request, bake[r].step \notin {"rendered", "flipped"}
    PROVE  Made(r) = {}
  <1>1. \A path : path \notin Made(r)
    BY MadeIs
  <1> QED
    BY <1>1

LEMMA CalmCopy ==
    ASSUME BaseInv, BaseInv', Calm, NEW r \in Request, Copy(r)
    PROVE  Calm'
  <1> DEFINE from == bake[r].from
             into == Other(from)
  <1>1. /\ bake[r].step = "found" /\ bake' = [bake EXCEPT ![r].step = "copied"]
        /\ files' = [files EXCEPT ![into] = IF bake[r].of = "publish" THEN Empty ELSE files[from]]
        /\ UNCHANGED <<product, collection, members, table, live, index, job, missed>>
    BY DEF Copy, catalogue
  <1>2. bake[r].from \in Slot /\ into \in Slot /\ into # from /\ DOMAIN files = Slot
    BY BakeIs, SlotsDiffer DEF BaseInv, SiteOK
  <1>3. /\ bake'[r] = [step |-> "copied", of |-> bake[r].of, from |-> from, pages |-> bake[r].pages]
        /\ \A q \in Request \ {r} : bake'[q] = bake[q]
        /\ Made(r)' = {} /\ Made(r) = {}
    BY <1>1, StepPut, NoneMade DEF BaseInv
  <1>4. live = from
    BY <1>1 DEF Calm, Staged, Stage
  <1>5. files'[from] = files[from] /\ (bake[r].of # "publish" => files'[into] = files[from])
    BY <1>1, <1>2
  <1>6. OthersRest(r) /\ OthersRest(r)'
    <2>1. Baking(r)
      BY <1>1 DEF Baking, NoBake
    <2> QED
      BY <1>3, <2>1, BakeMoves DEF Calm
  <1>7. Stage(r)'
    BY <1>1, <1>3, <1>4, <1>5 DEF Stage
  <1> HIDE DEF from, into
  <1>8. Lone' /\ Staged'
    BY <1>6, <1>7, OneBake
  <1>9. Base /\ Base'
    BY <1>8, Based DEF Calm
  <1>10. ASSUME NEW path \in Path
         PROVE  baked'[path] = baked[path]
    <2>1. Placed(path)' = Placed(path)
      BY <1>1, <1>4, <1>5 DEF Placed
    <2> QED
      BY <1>3, <1>6, <1>9, <2>1, PageStays
  <1>11. \A path \in Path : Render(path)' = Render(path)
    BY <1>1, RenderStays DEF BaseInv
  <1>12. PagesInv'
    BY <1>1, <1>9, <1>10, <1>11, PagesQuiet DEF Calm
  <1> QED
    BY <1>8, <1>12 DEF Calm

LEMMA CalmFlip ==
    ASSUME BaseInv, BaseInv', Calm, NEW r \in Request, Flip(r)
    PROVE  Calm'
  <1> DEFINE from == bake[r].from
             into == Other(from)
  <1>1. /\ bake[r].step = "rendered" /\ bake' = [bake EXCEPT ![r].step = "flipped"] /\ live' = into
        /\ UNCHANGED <<product, collection, members, table, files, index, job, missed>>
    BY DEF Flip, catalogue
  <1>2. /\ bake'[r] = [step |-> "flipped", of |-> bake[r].of, from |-> from, pages |-> bake[r].pages]
        /\ \A q \in Request \ {r} : bake'[q] = bake[q]
        /\ Made(r)' = Made(r)
    BY <1>1, StepPut DEF BaseInv
  <1>3. /\ live = from
        /\ \A path \in Path : files[into][path] = IF path \in Made(r) THEN bake[r].pages[path].shows
                                                  ELSE files[from][path]
    BY <1>1 DEF Calm, Staged, Stage
  <1>4. OthersRest(r) /\ OthersRest(r)'
    <2>1. Baking(r)
      BY <1>1 DEF Baking, NoBake
    <2> QED
      BY <1>2, <2>1, BakeMoves DEF Calm
  <1>5. Stage(r)'
    BY <1>1, <1>2, <1>3 DEF Stage
  <1> HIDE DEF from, into
  <1>6. Lone' /\ Staged'
    BY <1>4, <1>5, OneBake
  <1>7. Base /\ Base'
    BY <1>6, Based DEF Calm
  <1>8. ASSUME NEW path \in Path
        PROVE  baked'[path] = baked[path]
    <2>1. CASE path \notin Made(r)
      <3>1. Placed(path)' = Placed(path)
        BY <1>1, <1>3, <2>1 DEF Placed
      <3> QED
        BY <1>2, <1>4, <1>7, <2>1, <3>1, PageStays
    <2>2. CASE path \in Made(r)
      <3>1. baked[path] = Extant(bake[r].pages[path])
        BY <1>7, <2>2, BakedIs DEF BakedSays, Base, BaseInv
      <3>2. baked'[path] = Extant(bake[r].pages[path])'
        BY <1>2, <1>7, <2>2, BakedIsNext DEF BakedSays, Base, BaseInv
      <3>3. Extant(bake[r].pages[path])' = Extant(bake[r].pages[path])
        BY <1>1, <1>2 DEF Extant
      <3> QED
        BY <3>1, <3>2, <3>3
    <2> QED
      BY <2>1, <2>2
  <1>9. \A path \in Path : Render(path)' = Render(path)
    BY <1>1, RenderStays DEF BaseInv
  <1>10. PagesInv'
    BY <1>1, <1>7, <1>8, <1>9, PagesQuiet DEF Calm
  <1> QED
    BY <1>6, <1>10 DEF Calm

\* A bake ends: no page is made any more, and those it made are live and
\* recorded, or left behind.
LEMMA BakeEnds ==
    ASSUME BaseInv, BaseInv', Calm, NEW r \in Request, Baking(r),
           bake' = [bake EXCEPT ![r] = NoBake]
    PROVE  /\ Lone' /\ Staged' /\ Base /\ Base' /\ OthersRest(r) /\ OthersRest(r)'
           /\ Made(r)' = {} /\ \A q \in Request \ {r} : bake'[q] = bake[q]
  <1>1. bake'[r] = NoBake /\ \A q \in Request \ {r} : bake'[q] = bake[q]
    BY DEF BaseInv, BakesOK
  <1>2. OthersRest(r) /\ OthersRest(r)'
    BY <1>1, BakeMoves DEF Calm
  <1>3. Stage(r)' /\ Made(r)' = {}
    BY <1>1 DEF Stage, Made, NoBake, NoPages
  <1>4. Lone' /\ Staged'
    BY <1>2, <1>3, OneBake
  <1> QED
    BY <1>1, <1>2, <1>3, <1>4, Based DEF Calm

LEMMA CalmRecordPages ==
    ASSUME BaseInv, BaseInv', Calm, NEW r \in Request, RecordPages(r)
    PROVE  Calm'
  <1>1. /\ bake[r].step = "flipped" /\ Recordable(r) /\ bake' = [bake EXCEPT ![r] = NoBake]
        /\ index' = [path \in Path |-> IF path \in Made(r) THEN Entry(bake[r].pages[path]) ELSE index[path]]
        /\ UNCHANGED <<product, collection, members, table, files, live, job, missed>>
    BY DEF RecordPages, catalogue
  <1>2. Baking(r)
    BY <1>1 DEF Baking, NoBake
  <1>3. /\ Lone' /\ Staged' /\ Base /\ Base' /\ OthersRest(r) /\ OthersRest(r)' /\ Made(r)' = {}
        /\ \A q \in Request \ {r} : bake'[q] = bake[q]
    BY <1>1, <1>2, BakeEnds
  <1>4. \A path \in Path : path \in Made(r) => files[live][path] = bake[r].pages[path].shows
    BY <1>1 DEF Calm, Staged, Stage
  <1>5. ASSUME NEW path \in Path
        PROVE  baked'[path] = baked[path]
    <2>1. CASE path \notin Made(r)
      <3>1. Placed(path)' = Placed(path)
        BY <1>1, <2>1 DEF Placed
      <3> QED
        BY <1>3, <2>1, <3>1, PageStays
    <2>2. CASE path \in Made(r)
      <3>1. PICK page : page = bake[r].pages[path]
        OBVIOUS
      <3>2. baked[path] = Extant(page)
        BY <1>3, <2>2, <3>1, BakedIs DEF BakedSays, Base, BaseInv
      <3>3. IsPage(page) /\ page.ids \subseteq Products
        BY <1>1, <2>2, <3>1, BakeIs DEF BaseInv, HeldPages, Made, Recordable
      <3>4. {p \in page.ids : product[p] # Gone} = page.ids
        BY <3>3 DEF Products, Live, Gone
      <3>5. baked[path] = [shows |-> page.shows, ids |-> page.ids, srcs |-> page.srcs]
        BY <3>2, <3>3, <3>4, ExtantIs DEF ExtantSays
      <3>6. baked'[path] = Placed(path)'
        BY <1>3, BakedIsNext DEF BakedSays, Base, BaseInv, OthersRest
      <3>7. Placed(path)' = [shows |-> page.shows, ids |-> page.ids, srcs |-> page.srcs]
        BY <1>1, <1>4, <2>2, <3>1 DEF Placed, Entry
      <3> QED
        BY <3>5, <3>6, <3>7
    <2> QED
      BY <2>1, <2>2
  <1>6. \A path \in Path : Render(path)' = Render(path)
    BY <1>1, RenderStays DEF BaseInv
  <1>7. PagesInv'
    BY <1>1, <1>3, <1>5, <1>6, PagesQuiet DEF Calm
  <1> QED
    BY <1>3, <1>7 DEF Calm

-----------------------------------------------------------------------------
\* What rendering makes of each path.
LEMMA RenderMakes ==
    ASSUME BaseInv, BaseInv', Calm, NEW r \in Request, RenderPages(r),
           NEW task, task = Head(job[r])
    PROVE  /\ Lone' /\ Staged' /\ Base /\ Base'
           /\ \A path \in task.dropped : baked'[path] = Nothing
           /\ \A path \in task.paths \ task.dropped : baked'[path] = Render(path)
           /\ \A path \in Path \ (task.paths \union task.dropped) : baked'[path] = baked[path]
  <1> DEFINE from == bake[r].from
             into == Other(from)
             pages == Rendered(task)
             b == [step |-> "rendered", of |-> bake[r].of, from |-> from, pages |-> pages]
             new == task.paths \union task.dropped
  <1>0. bake[r].step = "copied"
    BY DEF RenderPages
  <1>1. /\ job[r] # <<>> /\ task.paths \subseteq Path /\ task.dropped \subseteq Slugged
        /\ bake[r].of = "publish" => task.paths = Path /\ task.dropped = {}
        /\ bake' = [bake EXCEPT ![r] = b] /\ into \in Slot
        /\ files' = [files EXCEPT ![into] =
              [path \in Path |-> IF path \in new THEN pages[path].shows ELSE @[path]]]
        /\ UNCHANGED <<product, collection, members, table, live, index>>
    BY <1>0, RenderIs
  <1>3. from \in Slot /\ into # from /\ DOMAIN files = Slot /\ new \subseteq Path
    BY <1>1, BakeIs, SlotsDiffer, SluggedPaths DEF BaseInv, SiteOK
  <1>4. /\ DOMAIN pages = new
        /\ \A path \in task.dropped : pages[path] = Nothing
        /\ \A path \in task.paths \ task.dropped : pages[path] = Render(path)
    BY DEF Rendered
  <1>5. live = from /\ (bake[r].of # "publish" => files[into] = files[from])
    BY <1>0 DEF Calm, Staged, Stage
  <1>6. files'[from] = files[from]
    BY <1>1, <1>3
  <1>7. \A path \in Path : files'[into][path] = IF path \in new THEN pages[path].shows ELSE files[into][path]
    BY <1>1, <1>3
  <1>8. b.step = "rendered" /\ b.of = bake[r].of /\ b.from = from /\ b.pages = pages
    OBVIOUS
  <1> HIDE DEF pages, b
  <1>9. /\ bake'[r] = b /\ \A q \in Request \ {r} : bake'[q] = bake[q]
        /\ Made(r) = {} /\ Made(r)' = new
    <2>1. bake'[r] = b /\ \A q \in Request \ {r} : bake'[q] = bake[q]
      BY <1>1 DEF BaseInv, BakesOK
    <2>2. Made(r) = {}
      BY <1>0, NoneMade DEF BaseInv
    <2>3. Made(r)' = new
      BY <1>4, <1>8, <2>1 DEF Made
    <2> QED
      BY <2>1, <2>2, <2>3
  <1>10. OthersRest(r) /\ OthersRest(r)'
    <2>1. Baking(r)
      BY <1>0 DEF Baking, NoBake
    <2> QED
      BY <1>9, <2>1, BakeMoves DEF Calm
  <1>11. Stage(r)'
    <2>1. ASSUME NEW path \in Path
          PROVE  files'[into][path] = IF path \in new THEN pages[path].shows ELSE files'[from][path]
      BY <1>1, <1>5, <1>6, <1>7
    <2> QED
      BY <1>1, <1>5, <1>8, <1>9, <2>1 DEF Stage
  <1> HIDE DEF from, into
  <1>12. Lone' /\ Staged'
    BY <1>10, <1>11, OneBake
  <1>13. Base /\ Base'
    BY <1>12, Based DEF Calm
  <1>14. ASSUME NEW path \in Path \ new
         PROVE  baked'[path] = baked[path]
    <2>1. Placed(path)' = Placed(path)
      BY <1>1, <1>5, <1>6 DEF Placed
    <2> QED
      BY <1>9, <1>10, <1>13, <2>1, PageStays
  <1>15. ASSUME NEW path \in new, NEW page, pages[path] = page, IsPage(page), page.ids \subseteq Active
         PROVE  baked'[path] = page
    <2>1. baked'[path] = Extant(page)'
      <3>1. baked'[path] = Extant(bake[r].pages[path])'
        BY <1>3, <1>9, <1>13, BakedIsNext DEF BakedSays, Base, BaseInv
      <3> QED
        BY <1>8, <1>9, <1>15, <3>1 DEF Extant
    <2>2. {p \in page.ids : product'[p] # Gone} = page.ids
      BY <1>1, <1>15 DEF Active, Gone
    <2> QED
      BY <1>15, <2>1, <2>2, ExtantIsNext DEF ExtantSays, IsPage
  <1>16. \A path \in task.dropped : baked'[path] = Nothing
    <2>1. IsPage(Nothing) /\ Nothing.ids \subseteq Active
      BY DEF IsPage, Nothing
    <2> QED
      BY <1>4, <1>15, <2>1
  <1>17. \A path \in task.paths \ task.dropped : baked'[path] = Render(path)
    BY <1>1, <1>4, <1>15, RenderOK DEF BaseInv
  <1> QED
    BY <1>12, <1>13, <1>14, <1>16, <1>17

LEMMA CalmRenderPages ==
    ASSUME BaseInv, BaseInv', Calm, NEW r \in Request, RenderPages(r)
    PROVE  Calm'
  <1> DEFINE task == Head(job[r])
             targets == task.paths
             dropped == task.dropped
  <1>1. /\ job[r] # <<>> /\ task.do = "found" /\ task \in Task
        /\ dropped \subseteq Slugged
        /\ missed' = (missed \ (targets \union dropped)) \union {path \in dropped : Render(path) # Nothing}
        /\ job' = [job EXCEPT ![r] = Tail(@)]
        /\ UNCHANGED <<product, collection, members, table>>
    BY RenderIs
  <1>6. /\ Lone' /\ Staged' /\ Base /\ Base'
        /\ \A path \in dropped : baked'[path] = Nothing
        /\ \A path \in targets \ dropped : baked'[path] = Render(path)
        /\ \A path \in Path \ (targets \union dropped) : baked'[path] = baked[path]
    BY RenderMakes
  <1>2. \A path \in Path : Render(path)' = Render(path)
    BY <1>1, RenderStays DEF BaseInv
  <1>3. \A q \in Request \ {r} : job'[q] = job[q]
    BY <1>1, TailTasks DEF BaseInv
  <1>4. \A path : path \in DueFor(task) <=> path \in targets \/ path \in dropped
    BY <1>1, DueForOthers
  <1>5. \A i \in 1 .. Len(job[r]), t \in Task :
           job[r][i] = t => t = task \/ t \in {job'[r][j] : j \in 1 .. Len(job'[r])}
    BY <1>1, AfterHead DEF BaseInv
  <1> HIDE DEF task, targets, dropped
  <1>7. ASSUME NEW path \in Path, path \in dropped
        PROVE  baked'[path] = Nothing /\ (path \in missed' \/ Render(path) = Nothing)
    BY <1>1, <1>6, <1>7
  <1>8. ASSUME NEW path \in Path, path \notin dropped, path \in targets
        PROVE  baked'[path] = Render(path)
    BY <1>6, <1>8
  <1>9. ASSUME NEW path \in Path, path \notin dropped, path \notin targets
        PROVE  /\ baked'[path] = baked[path]
               /\ path \in missed => path \in missed'
               /\ path \notin DueFor(task)
    BY <1>1, <1>6, <1>4, <1>9
  <1>10. ASSUME NEW path \in Path, path \notin dropped, path \notin targets, Covered(path)
         PROVE  Covered(path)'
    <2>1. \A t \in Task : path \in DueFor(t) => path \in DueFor(t)'
      BY <1>1, <1>9, <1>10, DueThroughBakes
    <2>2. ASSUME NEW i \in 1 .. Len(job[r]), NEW t \in Task, job[r][i] = t, path \in DueFor(t)
          PROVE  Covered(path)'
      <3>1. t \in {job'[r][j] : j \in 1 .. Len(job'[r])}
        BY <1>5, <1>9, <1>10, <2>2
      <3> QED
        BY <2>1, <2>2, <3>1, NewlyDue
    <2> QED
      BY <1>3, <1>9, <1>10, <2>1, <2>2, CoveredStays DEF BaseInv
  <1>11. ASSUME NEW path \in Path, path \notin dropped, path \notin targets, KeptPath(path)
         PROVE  KeptPath(path)'
    <2>1. ASSUME NEW i \in 1 .. Len(job[r]), Keeps(job[r][i], path)
          PROVE  KeptPath(path)'
      <3>1. PICK t \in Task : job[r][i] = t
        BY DEF BaseInv, JobsOK
      <3>2. path \in DueFor(t)
        BY <2>1, <3>1, KeepsAreDueNow DEF KeepsAreDue
      <3>3. t \in {job'[r][j] : j \in 1 .. Len(job'[r])}
        BY <1>5, <1>9, <1>11, <3>1, <3>2
      <3> QED
        BY <2>1, <3>1, <3>3, NewlyKept
    <2> QED
      BY <1>3, <1>9, <1>11, <2>1, KeptStays
  <1>12. ASSUME NEW path \in Path
         PROVE  Fresh(path)' \/ Covered(path)'
    <2>1. CASE path \in dropped
      BY <1>2, <1>7, <2>1 DEF Fresh, Covered
    <2>2. CASE path \notin dropped /\ path \in targets
      BY <1>2, <1>8, <2>2 DEF Fresh
    <2>3. CASE path \notin dropped /\ path \notin targets
      BY <1>2, <1>9, <1>10, <2>3 DEF Calm, PagesInv, FreshOrDue, Fresh
    <2> QED
      BY <2>1, <2>2, <2>3
  <1>13. ASSUME NEW q \in Active', NEW path \in Path, path = OwnPath(q)'
         PROVE  q \in baked'[path].ids \/ KeptPath(path)'
    <2>1. q \in Active /\ path = OwnPath(q)
      BY <1>1, <1>13 DEF Active, OwnPath
    <2>2. q \in Render(path).ids /\ Render(path) # Nothing
      BY <2>1, OwnPageLists DEF BaseInv
    <2>3. CASE path \in dropped
      BY <1>7, <2>2, <2>3 DEF KeptPath
    <2>4. CASE path \notin dropped /\ path \in targets
      BY <1>8, <2>2, <2>4
    <2>5. CASE path \notin dropped /\ path \notin targets
      BY <1>9, <1>11, <2>1, <2>5 DEF Calm, PagesInv, OwnPages
    <2> QED
      BY <2>3, <2>4, <2>5
  <1>14. FreshOrDue'
    BY <1>12 DEF FreshOrDue
  <1>15. OwnPages'
    BY <1>13 DEF OwnPages
  <1> QED
    BY <1>6, <1>14, <1>15 DEF Calm, PagesInv

\* The pages a bake had not made are live as they were when it is undone.
LEMMA UndoneLeaves ==
    ASSUME BaseInv, Calm, NEW r \in Request, index' = index,
           UNCHANGED <<files, live>> \/ (Baking(r) /\ Undo(r)),
           NEW path \in Path, path \notin Made(r)
    PROVE  Placed(path)' = Placed(path)
  <1> DEFINE from == bake[r].from
             into == Other(from)
  <1>1. CASE UNCHANGED <<files, live>>
    BY <1>1 DEF Placed
  <1>2. CASE Baking(r) /\ Undo(r) /\ ~UNCHANGED <<files, live>>
    <2>1. from \in Slot /\ into \in Slot /\ into # from /\ DOMAIN files = Slot
      BY BakeIs, SlotsDiffer DEF BaseInv, SiteOK
    <2>2. bake[r].step \in {"copied", "rendered", "flipped"}
      BY <1>2, BakeIs DEF BaseInv, IsBake, Baking, Undo
    <2>3. /\ files' = [files EXCEPT ![into] = Empty]
          /\ live' = IF bake[r].of # "publish" \/ bake[r].step = "flipped" THEN from ELSE live
      BY <1>2, <2>2 DEF Undo
    <2>4. files'[from] = files[from]
      BY <2>1, <2>3
    <2>5. CASE bake[r].step \in {"copied", "rendered"}
      <3>1. live = from /\ live' = from
        BY <2>3, <2>5 DEF Calm, Staged, Stage
      <3> QED
        BY <2>4, <3>1 DEF Placed
    <2>6. CASE bake[r].step = "flipped"
      <3>1. live = into /\ live' = from /\ files[into][path] = files[from][path]
        BY <2>3, <2>6 DEF Calm, Staged, Stage
      <3> QED
        BY <2>4, <3>1 DEF Placed
    <2> QED
      BY <2>2, <2>5, <2>6
  <1> QED
    BY <1>1, <1>2

LEMMA CalmAbandon ==
    ASSUME BaseInv, BaseInv', Calm, NEW r \in Request, Abandon(r),
           UNCHANGED <<files, live>> \/ (Baking(r) /\ Undo(r))
    PROVE  Calm'
  <1>1. /\ job' = [job EXCEPT ![r] = <<>>] /\ bake' = [bake EXCEPT ![r] = NoBake]
        /\ missed' = missed \union (ToMake(r) \union Made(r))
        /\ UNCHANGED <<product, collection, members, table, index>>
    BY DEF Abandon, Leaves, catalogue
  <1>2. \A q \in Request \ {r} : job'[q] = job[q]
    BY <1>1, JobDropped DEF BaseInv
  <1>3. \A path \in Path : Render(path)' = Render(path)
    BY <1>1, RenderStays DEF BaseInv
  <1>4. Lone' /\ Staged' /\ Base /\ Base' /\ \A path \in Path : path \in Made(r) \/ baked'[path] = baked[path]
    <2>1. CASE Baking(r)
      <3>1. /\ Lone' /\ Staged' /\ Base /\ Base' /\ OthersRest(r) /\ OthersRest(r)' /\ Made(r)' = {}
        BY <1>1, <2>1, BakeEnds
      <3>2. ASSUME NEW path \in Path, path \notin Made(r)
            PROVE  baked'[path] = baked[path]
        <4>1. Placed(path)' = Placed(path)
          BY <1>1, <3>2, UndoneLeaves
        <4> QED
          BY <3>1, <3>2, <4>1, PageStays
      <3> QED
        BY <3>1, <3>2
    <2>2. CASE ~Baking(r)
      <3>1. (\A q \in Request : bake'[q] = bake[q]) /\ UNCHANGED <<files, live>>
        BY <1>1, <2>2 DEF Baking, BaseInv, BakesOK
      <3>2. Lone' /\ Staged'
        BY <3>1, SlotsKept DEF Calm
      <3>3. Base /\ Base'
        BY <3>2, Based DEF Calm
      <3>4. baked' = baked
        BY <1>1, <3>1, <3>3, BakedStays DEF Lost
      <3> QED
        BY <3>2, <3>3, <3>4
    <2> QED
      BY <2>1, <2>2
  <1>5. \A path \in Path : \A i \in 1 .. Len(job[r]), t \in Task :
              job[r][i] = t /\ path \in DueFor(t) => path \in missed'
    BY <1>1, DueSaysNow DEF DueSays
  <1>6. PagesInv'
    BY <1>1, <1>2, <1>3, <1>4, <1>5, PagesQuiet DEF Calm
  <1> QED
    BY <1>4, <1>6 DEF Calm

LEMMA CalmGoOn ==
    ASSUME BaseInv, BaseInv', Calm, NEW r \in Request, Baking(r), Undo(r), bake[r].of = "table", GoOn(r)
    PROVE  Calm'
  <1> DEFINE made == bake[r].step \in {"rendered", "flipped"}
             left == IF made THEN Made(r) ELSE Head(job[r]).paths
  <1>1. /\ job' = IF made THEN job ELSE [job EXCEPT ![r] = Tail(@)]
        /\ bake' = [bake EXCEPT ![r] = NoBake]
        /\ missed' = missed \union left
        /\ UNCHANGED <<product, collection, members, table, index>>
    BY DEF GoOn, Leaves, catalogue
  <1>2. ~made => /\ job[r] # <<>> /\ Head(job[r]) \in Task
                 /\ \A path \in DueFor(Head(job[r])) : path \in left
    <2> SUFFICES ASSUME ~made
                 PROVE  /\ job[r] # <<>> /\ Head(job[r]) \in Task
                        /\ \A path \in DueFor(Head(job[r])) : path \in left
      OBVIOUS
    <2>1. bake[r].step \in {"found", "copied"}
      BY BakeIs DEF BaseInv, IsBake, Baking
    <2>2. job[r] # <<>> /\ Head(job[r]).do = "found" /\ Head(job[r]).dropped = {}
      BY <2>1 DEF BaseInv, LinksOK, Linked
    <2>3. Head(job[r]) \in Task
      BY <2>2, HeadTask DEF BaseInv
    <2>4. \A path \in DueFor(Head(job[r])) : path \in Head(job[r]).paths
      BY <2>2, <2>3, DueForOthers
    <2> QED
      BY <2>2, <2>3, <2>4
  <1>3. \A q \in Request \ {r} : job'[q] = job[q]
    BY <1>1, <1>2, TailTasks DEF BaseInv
  <1>4. \A path \in Path : Render(path)' = Render(path)
    BY <1>1, RenderStays DEF BaseInv
  <1>5. Made(r) \subseteq left
    BY NoneMade DEF BaseInv
  <1>6. \A path \in Path : \A i \in 1 .. Len(job[r]), t \in Task :
              job[r][i] = t /\ path \in DueFor(t) => path \in missed' \/ t \in {job'[r][j] : j \in 1 .. Len(job'[r])}
    <2>1. CASE made
      BY <1>1, <2>1
    <2>2. CASE ~made
      BY <1>1, <1>2, <2>2, AfterHead DEF BaseInv
    <2> QED
      BY <2>1, <2>2
  <1> HIDE DEF made, left
  <1>7. /\ Lone' /\ Staged' /\ Base /\ Base' /\ OthersRest(r) /\ OthersRest(r)' /\ Made(r)' = {}
    BY <1>1, BakeEnds
  <1>8. ASSUME NEW path \in Path, path \notin Made(r)
        PROVE  baked'[path] = baked[path]
    <2>1. Placed(path)' = Placed(path)
      BY <1>1, <1>8, UndoneLeaves
    <2> QED
      BY <1>7, <1>8, <2>1, PageStays
  <1>9. \A path \in Path : path \in missed' \/ baked'[path] = baked[path]
    BY <1>1, <1>5, <1>8
  <1>10. PagesInv'
    BY <1>1, <1>3, <1>4, <1>6, <1>7, <1>9, PagesQuiet DEF Calm
  <1> QED
    BY <1>7, <1>10 DEF Calm

LEMMA CalmFail ==
    ASSUME BaseInv, BaseInv', Calm, NEW r \in Request, NoCollection(r) \/ Fail(r) \/ Die(r)
    PROVE  Calm'
  <1>1. CASE NoCollection(r) \/ Die(r)
    BY <1>1, CalmAbandon DEF NoCollection, Die
  <1>2. CASE Fail(r)
    BY <1>2, CalmAbandon, CalmGoOn DEF Fail
  <1> QED
    BY <1>1, <1>2

\* While nobody bakes, the index says what was last made.
LEMMA IndexSays ==
    ASSUME BaseInv, \A q \in Request : ~Baking(q), NEW t \in Task
    PROVE  Targets(index, t) = Targets(baked, t)
  <1>1. Lone
    BY DEF Lone
  <1>2. \A path \in Path : \A q \in Request : path \notin Made(q)
    BY MadeIs DEF BaseInv
  <1>3. \A path \in Path : index[path].ids = baked[path].ids /\ index[path].srcs = baked[path].srcs
    <2>1. \A path : Placed(path).ids = index[path].ids /\ Placed(path).srcs = index[path].srcs
      BY DEF Placed
    <2>2. \A path \in Path : baked[path] = Placed(path)
      BY <1>1, <1>2, BakedIs DEF BakedSays, BaseInv
    <2> QED
      BY <2>1, <2>2, Zenon
  <1>4. \A source : Loops(index, source) = Loops(baked, source)
    BY <1>3 DEF Loops
  <1>5. \A p : {path \in Path : p \in index[path].ids} = {path \in Path : p \in baked[path].ids}
    BY <1>3
  <1>6. \A p, s, active : TargetsOfProduct(index, p, s, active) = TargetsOfProduct(baked, p, s, active)
    BY <1>4, <1>5 DEF TargetsOfProduct
  <1>7. \A s : TargetsOfCollection(index, s) = TargetsOfCollection(baked, s)
    BY <1>4 DEF TargetsOfCollection
  <1>8. CASE t.do = "product"
    BY <1>6, <1>8 DEF Targets
  <1>9. CASE t.do = "load product"
    BY <1>6, <1>9 DEF Targets
  <1>10. CASE t.do = "collection"
    BY <1>7, <1>10 DEF Targets
  <1>11. CASE t.do = "load collection"
    <2>1. \A by : Targets(by, t) = IF t.id \in Collections
                                   THEN TargetsOfCollection(by, collection[t.id].slug) ELSE {}
      BY <1>11 DEF Targets
    <2> QED
      BY <1>7, <2>1, Zenon
  <1>12. CASE t.do \in {"table", "paths", "publish", "found"} \union Destroys
    BY <1>4, <1>12 DEF Targets, Destroys
  <1> QED
    BY <1>8, <1>9, <1>10, <1>11, <1>12, TaskCases DEF Destroys

\* What was found of the head of the job is what was due for it.
LEMMA FoundInstead ==
    ASSUME Base, Base', PagesInv, UNCHANGED <<product, collection, members, table, missed, baked>>,
           NEW r \in Request, job[r] # <<>>, Head(job[r]).do \notin Destroys,
           NEW t \in Task, t.do = "found",
           \A path : path \in DueFor(Head(job[r])) => path \in t.paths \/ path \in t.dropped,
           job' = [job EXCEPT ![r] = <<t>> \o Tail(@)]
    PROVE  PagesInv'
  <1>1. /\ job'[r][1] = t /\ Len(job'[r]) = Len(job[r])
        /\ \A i \in 2 .. Len(job[r]) : job'[r][i] = job[r][i]
        /\ \A q \in Request \ {r} : job'[q] = job[q]
    <2>1. t.do \notin Destroys
      BY DEF Destroys
    <2> QED
      BY <2>1, HeadReplaced DEF Base, BaseInv
  <1>2. /\ Head(job[r]) = job[r][1] /\ 1 \in 1 .. Len(job[r]) /\ Head(job[r]) \in Task
    BY HeadTask DEF Base, BaseInv
  <1>3. \A i \in 1 .. Len(job[r]) : i = 1 \/ i \in 2 .. Len(job[r])
    <2>1. Len(job[r]) \in Nat
      BY DEF Base, BaseInv, JobsOK
    <2> QED
      BY <2>1
  <1>4. ASSUME NEW path, path \in DueFor(Head(job[r]))
        PROVE  Covered(path)' /\ KeptPath(path)'
    <2>1. path \in t.paths \/ path \in t.dropped
      BY <1>4
    <2>2. path \in DueFor(t)'
      BY <2>1, OthersDueNext DEF OthersDue
    <2>3. Keeps(t, path)
      BY <2>1 DEF Keeps
    <2> QED
      BY <1>1, <1>2, <2>2, <2>3, NewlyDue, NewlyKept
  <1>5. ASSUME NEW path \in Path, Covered(path)
        PROVE  Covered(path)'
    <2>1. \A u \in Task : path \in DueFor(u) => path \in DueFor(u)'
      BY DueThroughBakes
    <2>2. ASSUME NEW i \in 1 .. Len(job[r]), NEW u \in Task, job[r][i] = u, path \in DueFor(u)
          PROVE  Covered(path)'
      <3>1. CASE i = 1
        BY <1>2, <1>4, <2>2, <3>1
      <3>2. CASE i # 1
        <4>1. i \in 1 .. Len(job'[r]) /\ job'[r][i] = u
          BY <1>1, <1>3, <2>2, <3>2
        <4> QED
          BY <2>1, <2>2, <4>1, NewlyDue
      <3> QED
        BY <3>1, <3>2
    <2> QED
      BY <1>1, <1>5, <2>1, <2>2, CoveredStays DEF Base, BaseInv
  <1>6. ASSUME NEW path \in Path, KeptPath(path)
        PROVE  KeptPath(path)'
    <2>1. ASSUME NEW i \in 1 .. Len(job[r]), Keeps(job[r][i], path)
          PROVE  KeptPath(path)'
      <3>1. CASE i = 1
        <4>1. path \in DueFor(Head(job[r]))
          BY <1>2, <2>1, <3>1, KeepsAreDueNow DEF KeepsAreDue
        <4> QED
          BY <1>4, <4>1
      <3>2. CASE i # 1
        <4>1. i \in 1 .. Len(job'[r]) /\ job'[r][i] = job[r][i]
          BY <1>1, <1>3, <2>1, <3>2
        <4> QED
          BY <2>1, <4>1, NewlyKept
      <3> QED
        BY <3>1, <3>2
    <2> QED
      BY <1>1, <1>6, <2>1, KeptStays
  <1>7. \A path \in Path : Render(path)' = Render(path)
    BY RenderStays DEF Base, BaseInv
  <1>8. FreshOrDue'
    BY <1>5, <1>7 DEF PagesInv, FreshOrDue, Fresh
  <1>9. OwnPages'
    BY <1>6, OwnPagesStay DEF PagesInv
  <1> QED
    BY <1>8, <1>9 DEF PagesInv

\* A bake of the whole site keeps every page.
LEMMA FoundAll ==
    ASSUME NEW r \in Request, 1 \in 1 .. Len(job'[r]), NEW t, job'[r][1] = t, t.do = "found", t.paths = Path
    PROVE  PagesInv'
  <1>1. ASSUME NEW path \in Path
        PROVE  Covered(path)' /\ KeptPath(path)'
    <2>1. path \in DueFor(t)'
      BY OthersDueNext DEF OthersDue
    <2>2. Keeps(t, path)
      BY DEF Keeps
    <2> QED
      BY <2>1, <2>2, NewlyDue, NewlyKept
  <1> QED
    BY <1>1 DEF PagesInv, FreshOrDue, OwnPages

LEMMA CalmFind ==
    ASSUME BaseInv, BaseInv', overlaps = 0 => Calm, NEW r \in Request, Find(r), overlaps' = 0
    PROVE  Calm'
  <1> DEFINE task  == Head(job[r])
             found == Found(Targets(index, task), OldPath(task))
             b     == [step |-> "found", of |-> task.do, from |-> live, pages |-> NoPages]
  <1>1. /\ job[r] # <<>> /\ task.do \notin Destroys
        /\ job' = [job EXCEPT ![r] = <<found>> \o Tail(@)]
        /\ bake' = [bake EXCEPT ![r] = b]
        /\ UNCHANGED <<product, collection, members, table, files, live, index, missed>>
    BY DEF Find, catalogue, site, Destroys
  <1>2. (\A q \in Request : ~Baking(q)) /\ (overlaps = 0 \/ task.do = "publish")
    <2>1. overlaps \in Nat
      BY RebuildBounds DEF BaseInv, CountsOK
    <2>2. overlaps + 1 # 0
      BY <2>1
    <2> QED
      BY <2>2 DEF Find
  <1>3. task \in Task
    BY <1>1, HeadTask DEF BaseInv
  <1>4. found \in Task /\ found.do = "found" /\ found.paths = Targets(index, task) /\ found.dropped = OldPath(task)
    <2>1. Targets(index, task) \subseteq Path /\ OldPath(task) \subseteq Slugged
      BY <1>3, TargetsPaths, OldPathSlugged DEF BaseInv
    <2> QED
      BY <2>1, TasksMade DEF Found
  <1>5. b.step = "found" /\ b.from = live /\ b.pages = NoPages
    OBVIOUS
  <1> HIDE DEF task, found, b
  <1>6. bake'[r] = b /\ \A q \in Request \ {r} : bake'[q] = bake[q]
    BY <1>1 DEF BaseInv, BakesOK
  <1>7. Made(r) = {} /\ Made(r)' = {}
    <2>1. Made(r)' = {}
      BY <1>5, <1>6 DEF Made, NoPages
    <2>2. Made(r) = {}
      BY <1>2, NoneMade DEF BaseInv, Baking, NoBake
    <2> QED
      BY <2>1, <2>2
  <1>8. OthersRest(r) /\ OthersRest(r)'
    BY <1>2, <1>6 DEF OthersRest, Baking
  <1>9. Stage(r)'
    BY <1>1, <1>5, <1>6 DEF Stage
  <1>10. Lone' /\ Staged'
    BY <1>8, <1>9, OneBake
  <1>11. Base /\ Base'
    BY <1>2, <1>10, Based DEF Lone
  <1>12. CASE task.do = "publish"
    <2>1. found.paths = Path
      BY <1>4, <1>12 DEF Targets
    <2>2. found.do \notin Destroys
      BY <1>4 DEF Destroys
    <2>3. job'[r][1] = found /\ Len(job'[r]) = Len(job[r]) /\ 1 \in 1 .. Len(job[r])
      BY <1>1, <1>4, <2>2, HeadReplaced, HeadTask DEF BaseInv, task
    <2>4. PagesInv'
      BY <1>4, <2>1, <2>3, FoundAll
    <2> QED
      BY <1>10, <2>4 DEF Calm
  <1>13. CASE task.do # "publish"
    <2>1. Calm
      BY <1>2, <1>13
    <2>2. baked' = baked
      <3>1. ASSUME NEW path \in Path
            PROVE  baked'[path] = baked[path]
        <4>1. Placed(path)' = Placed(path)
          BY <1>1 DEF Placed
        <4> QED
          BY <1>7, <1>8, <1>11, <4>1, PageStays
      <3>2. baked' = [path \in Path |-> baked'[path]] /\ baked = [path \in Path |-> baked[path]]
        BY DEF baked
      <3> QED
        BY <3>1, <3>2
    <2>3. \A path : path \in DueFor(Head(job[r])) => path \in found.paths \/ path \in found.dropped
      BY <1>2, <1>3, <1>4, IndexSays DEF DueFor, task
    <2>4. PagesInv'
      BY <1>1, <1>4, <1>11, <2>1, <2>2, <2>3, FoundInstead DEF Calm, task
    <2> QED
      BY <1>10, <2>4 DEF Calm
  <1> QED
    BY <1>12, <1>13

-----------------------------------------------------------------------------
\* Only the site's own pages loop the table.
NoTable(page) == \A s : <<"data", s>> \notin page.srcs

TableLess == \A path \in Slugged :
    /\ NoTable(index[path])
    /\ \A r \in Request : path \in Made(r) => NoTable(bake[r].pages[path])

LEMMA RenderTableLess ==
    ASSUME RowsOK, NEW path \in Slugged
    PROVE  NoTable(Render(path)) /\ NoTable(Nothing)
  <1>0. NoTable(Nothing)
    BY DEF NoTable, Nothing
  <1>1. CASE \E s \in Slug : path = <<"product", s>>
    <2>1. PICK s \in Slug : path = <<"product", s>>
      BY <1>1
    <2>2. ASSUME NEW p \in ProductAt(s)
          PROVE  NoTable(Render(path))
      <3>1. Render(path) = ProductPage(p)
        BY <2>1, <2>2, RenderProduct DEF RowsOK
      <3> QED
        BY <3>1 DEF NoTable, ProductPage
    <2> QED
      BY <1>0, <2>1, <2>2, RenderNoProduct
  <1>2. CASE \E s \in Slug : path = <<"collection", s>>
    <2>1. PICK s \in Slug : path = <<"collection", s>>
      BY <1>2
    <2>2. ASSUME NEW c \in CollectionAt(s)
          PROVE  NoTable(Render(path))
      <3>1. Render(path) = CollectionPage(c)
        BY <2>1, <2>2, RenderCollection DEF RowsOK
      <3> QED
        BY <3>1 DEF NoTable, CollectionPage
    <2> QED
      BY <1>0, <2>1, <2>2, RenderNoCollection
  <1> QED
    BY <1>0, <1>1, <1>2 DEF Slugged

LEMMA TableLessStays ==
    ASSUME TableLess, \A path \in Slugged : index'[path].srcs = index[path].srcs,
           \A q \in Request : bake'[q] = bake[q]
    PROVE  TableLess'
  <1>1. \A path \in Slugged : NoTable(index[path])'
    BY DEF TableLess, NoTable
  <1>2. \A path \in Slugged : \A r \in Request : (path \in Made(r))' => NoTable(bake[r].pages[path])'
    BY DEF TableLess, NoTable, Made
  <1> QED
    BY <1>1, <1>2 DEF TableLess

LEMMA TableLessPut ==
    ASSUME TableLess, \A path \in Slugged : NoTable(index[path])',
           NEW r \in Request, \A q \in Request \ {r} : bake'[q] = bake[q],
           \A path \in Slugged : (path \in Made(r))' => NoTable(bake[r].pages[path])'
    PROVE  TableLess'
  <1>1. \A path \in Slugged : \A q \in Request \ {r} : (path \in Made(q))' => NoTable(bake[q].pages[path])'
    BY DEF TableLess, NoTable, Made
  <1> QED
    BY <1>1 DEF TableLess

LEMMA TableLessInit ==
    ASSUME Init, BaseInv
    PROVE  TableLess
  <1>1. ASSUME NEW path \in Slugged
        PROVE  NoTable(index[path])
    <2>1. index[path] = Entry(Render(path))
      BY SluggedPaths DEF Init
    <2>2. index[path].srcs = Render(path).srcs
      BY <2>1 DEF Entry
    <2> QED
      BY <2>2, RenderTableLess DEF BaseInv, NoTable
  <1>2. \A r \in Request : Made(r) = {}
    BY DEF Init, Made, NoBake, NoPages
  <1> QED
    BY <1>1, <1>2 DEF TableLess

\* The verbs leave the slots, the bakes and what the index loops.
LEMMA VerbLeaves ==
    ASSUME BaseInv, NEW r \in Request,
           \/ ProductVerb(r) \/ CollectionVerb(r) \/ TableVerb(r)
           \/ DestroyProduct(r) \/ DestroyCollection(r)
    PROVE  /\ UNCHANGED <<files, live, overlaps, bake>>
           /\ \A path \in Slugged : index'[path].srcs = index[path].srcs
  <1>1. ASSUME NEW p \in Product, LoseProduct(p)
        PROVE  /\ UNCHANGED <<files, live, overlaps, bake>>
               /\ \A path \in Slugged : index'[path].srcs = index[path].srcs
    <2>1. index' = [path \in Path |-> [index[path] EXCEPT !.ids = @ \ {p}]]
      BY <1>1 DEF LoseProduct
    <2>2. ASSUME NEW path \in Path
          PROVE  [index[path] EXCEPT !.ids = @ \ {p}].srcs = index[path].srcs
      <3>1. index[path] \in [ids : SUBSET Products, srcs : SUBSET Source]
        BY DEF BaseInv, SiteOK
      <3>2. index[path] = [ids |-> index[path].ids, srcs |-> index[path].srcs]
        BY <3>1
      <3>3. \A i, s : [[ids |-> i, srcs |-> s] EXCEPT !.ids = @ \ {p}].srcs = s
        OBVIOUS
      <3> QED
        BY <3>2, <3>3
    <2> QED
      BY <1>1, <2>1, <2>2, SluggedPaths DEF LoseProduct
  <1>2. ASSUME NEW tasks, Begin(r, tasks)
        PROVE  /\ UNCHANGED <<files, live, overlaps, bake>>
               /\ \A path \in Slugged : index'[path].srcs = index[path].srcs
    BY <1>2 DEF Begin, site
  <1>3. CASE ProductVerb(r)
    <2>1. ASSUME NEW p \in Product, AdminDeleteProduct(r, p)
          PROVE  LoseProduct(p)
      BY <2>1 DEF AdminDeleteProduct
    <2>2. CASE Retag(r)
      <3>1. \E tasks : Begin(r, tasks)
        BY <2>2 DEF Retag
      <3> QED
        BY <1>2, <3>1
    <2>3. ASSUME NEW p \in Product, DeleteProduct(r, p)
          PROVE  \E tasks : Begin(r, tasks)
      BY <2>3 DEF DeleteProduct
    <2>4. ASSUME NEW p \in Product, NEW s \in Slug, NEW status \in Status,
                 \/ CreateProduct(r, p, s, status) \/ ImportProduct(r, p, s, status)
                 \/ \E byAdmin \in BOOLEAN : SaveProduct(r, p, s, status, byAdmin)
          PROVE  \E tasks : Begin(r, tasks)
      BY <2>4 DEF CreateProduct, ImportProduct, SaveProduct
    <2>5. ASSUME NEW p \in Product, NEW cs \in SUBSET Collections, AdminSetProductCollections(r, p, cs)
          PROVE  \E tasks : Begin(r, tasks)
      BY <2>5 DEF AdminSetProductCollections
    <2> QED
      BY <1>1, <1>2, <1>3, <2>1, <2>2, <2>3, <2>4, <2>5 DEF ProductVerb
  <1>4. CASE CollectionVerb(r)
    <2>1. PICK c \in Collection :
             \/ DeleteCollection(r, c) \/ AdminDeleteCollection(r, c)
             \/ \E s \in Slug, byAdmin \in BOOLEAN :
                   CreateCollection(r, c, s, byAdmin) \/ SaveCollection(r, c, s, byAdmin)
             \/ \E ps \in SUBSET Products :
                   SetCollectionProducts(r, c, ps) \/ AdminSetCollectionProducts(r, c, ps)
      BY <1>4 DEF CollectionVerb
    <2>2. \E tasks : Begin(r, tasks)
      BY <2>1 DEF DeleteCollection, AdminDeleteCollection, CreateCollection, SaveCollection,
                  SetCollectionProducts, AdminSetCollectionProducts
    <2> QED
      BY <1>2, <2>2
  <1>5. CASE TableVerb(r)
    <2>1. \E tasks : Begin(r, tasks)
      BY <1>5 DEF TableVerb, DeleteTable, SaveTable, CreateTable, WriteRow
    <2> QED
      BY <1>2, <2>1
  <1>6. CASE DestroyProduct(r)
    <2>1. job[r] # <<>> /\ Head(job[r]).do = "destroy product"
      BY <1>6 DEF DestroyProduct
    <2>2. Head(job[r]).id \in Product
      BY <2>1, HeadTask, TaskCases DEF BaseInv
    <2>3. LoseProduct(Head(job[r]).id) \/ UNCHANGED <<catalogue, site, bake, missed, overlaps>>
      BY <1>6 DEF DestroyProduct
    <2> QED
      BY <1>1, <2>2, <2>3 DEF site
  <1>7. CASE DestroyCollection(r)
    BY <1>7 DEF DestroyCollection, site
  <1> QED
    BY <1>3, <1>4, <1>5, <1>6, <1>7

LEMMA TableLessStep ==
    ASSUME BaseInv, BaseInv', TableLess, [Next]_vars
    PROVE  TableLess'
  <1>1. ASSUME NEW r \in Request,
               \/ ProductVerb(r) \/ CollectionVerb(r) \/ TableVerb(r)
               \/ DestroyProduct(r) \/ DestroyCollection(r)
        PROVE  TableLess'
    BY <1>1, VerbLeaves, TableLessStays
  <1>2. ASSUME NEW r \in Request, Publish(r) \/ Skip(r)
        PROVE  TableLess'
    BY <1>2, TableLessStays DEF Publish, Skip, site
  <1>3. ASSUME NEW r \in Request, Copy(r) \/ Flip(r)
        PROVE  TableLess'
    <2>1. index' = index /\ \E s : bake' = [bake EXCEPT ![r].step = s]
      BY <1>3 DEF Copy, Flip
    <2>2. bake'[r].pages = bake[r].pages /\ \A q \in Request \ {r} : bake'[q] = bake[q]
      BY <2>1, StepPut DEF BaseInv
    <2> QED
      BY <2>1, <2>2, TableLessPut DEF TableLess, Made, NoTable
  <1>4. ASSUME NEW r \in Request, RenderPages(r)
        PROVE  TableLess'
    <2>1. PICK task : task = Head(job[r])
      OBVIOUS
    <2>2. /\ task.paths \subseteq Path /\ task.dropped \subseteq Slugged /\ index' = index
          /\ bake' = [bake EXCEPT ![r] = [step |-> "rendered", of |-> bake[r].of,
                                           from |-> bake[r].from, pages |-> Rendered(task)]]
      BY <1>4, <2>1, RenderIs
    <2>3. bake'[r].pages = Rendered(task) /\ \A q \in Request \ {r} : bake'[q] = bake[q]
      BY <2>2 DEF BaseInv, BakesOK
    <2>4. ASSUME NEW path \in Slugged, path \in DOMAIN Rendered(task)
          PROVE  NoTable(Rendered(task)[path])
      <3>1. Rendered(task)[path] = Nothing \/ Rendered(task)[path] = Render(path)
        BY <2>4 DEF Rendered
      <3> QED
        BY <3>1, RenderTableLess DEF BaseInv
    <2>5. \A path \in Slugged : (path \in Made(r))' => NoTable(bake[r].pages[path])'
      BY <2>3, <2>4 DEF Made, NoTable
    <2>6. \A path \in Slugged : NoTable(index[path])'
      BY <2>2 DEF TableLess, NoTable
    <2> QED
      BY <2>3, <2>5, <2>6, TableLessPut
  <1>5. ASSUME NEW r \in Request, Find(r) \/ RecordPages(r) \/ NoCollection(r) \/ Fail(r) \/ Die(r)
        PROVE  TableLess'
    <2>1. \E b : b.pages = NoPages /\ bake' = [bake EXCEPT ![r] = b]
      <3>1. CASE Find(r)
        <4>1. \A of, from : [step |-> "found", of |-> of, from |-> from, pages |-> NoPages].pages = NoPages
          OBVIOUS
        <4> QED
          BY <3>1, <4>1 DEF Find
      <3>2. CASE ~Find(r)
        <4>1. bake' = [bake EXCEPT ![r] = NoBake]
          BY <1>5, <3>2 DEF RecordPages, NoCollection, Fail, Die, Abandon, GoOn
        <4> QED
          BY <4>1 DEF NoBake
      <3> QED
        BY <3>1, <3>2
    <2>2. (Made(r) = {})' /\ \A q \in Request \ {r} : bake'[q] = bake[q]
      BY <2>1 DEF Made, NoPages, BaseInv, BakesOK
    <2>3. ASSUME NEW path \in Slugged
          PROVE  NoTable(index[path])'
      <3>1. CASE RecordPages(r)
        <4>1. index'[path] = IF path \in Made(r) THEN Entry(bake[r].pages[path]) ELSE index[path]
          BY <3>1, SluggedPaths DEF RecordPages
        <4>2. index'[path].srcs = IF path \in Made(r) THEN bake[r].pages[path].srcs ELSE index[path].srcs
          BY <4>1 DEF Entry
        <4> QED
          BY <4>2 DEF TableLess, NoTable
      <3>2. CASE ~RecordPages(r)
        <4>1. index' = index
          BY <1>5, <3>2 DEF Find, NoCollection, Fail, Die, Abandon, GoOn, site
        <4> QED
          BY <4>1 DEF TableLess, NoTable
      <3> QED
        BY <3>1, <3>2
    <2> QED
      BY <2>2, <2>3, TableLessPut
  <1>6. CASE UNCHANGED vars
    BY <1>6, TableLessStays DEF vars, site
  <1> QED
    BY <1>1, <1>2, <1>3, <1>4, <1>5, <1>6 DEF Next

-----------------------------------------------------------------------------
\* A step that makes nothing.
LEMMA CalmQuiet ==
    ASSUME BaseInv, BaseInv', Calm, UNCHANGED <<product, collection, members, table, site, missed>>,
           \A q \in Request : bake'[q] = bake[q],
           NEW r \in Request, \A q \in Request \ {r} : job'[q] = job[q],
           \A i \in 1 .. Len(job[r]), t \in Task :
              job[r][i] = t => DueFor(t) = {} \/ t \in {job'[r][j] : j \in 1 .. Len(job'[r])}
    PROVE  Calm'
  <1>1. UNCHANGED <<files, live, index>>
    BY DEF site
  <1>2. Lone' /\ Staged'
    BY <1>1, SlotsKept DEF Calm
  <1>3. Base /\ Base'
    BY <1>2, Based DEF Calm
  <1>4. baked' = baked
    BY <1>1, <1>3, BakedStays DEF Lost
  <1>5. \A path \in Path : Render(path)' = Render(path)
    BY RenderStays DEF BaseInv
  <1>6. PagesInv'
    BY <1>3, <1>4, <1>5, PagesQuiet DEF Calm
  <1> QED
    BY <1>2, <1>6 DEF Calm

LEMMA CalmPublish ==
    ASSUME BaseInv, BaseInv', Calm, NEW r \in Request, Publish(r)
    PROVE  Calm'
  <1>1. /\ Idle(r) /\ job' = [job EXCEPT ![r] = <<OfSite>>] /\ bake' = bake
        /\ UNCHANGED <<product, collection, members, table, site, missed>>
    BY DEF Publish, catalogue
  <1>2. \A q \in Request \ {r} : job'[q] = job[q]
    BY <1>1 DEF BaseInv, JobsOK
  <1> QED
    BY <1>1, <1>2, IdleHasNone, CalmQuiet

\* There was nothing to bake for a task that is skipped.
LEMMA VoidIsNotDue ==
    ASSUME BaseInv, TableLess, Calm, NEW t \in Task, Void(t)
    PROVE  DueFor(t) = {}
  <1> SUFFICES ASSUME NEW path, path \in DueFor(t)
               PROVE  FALSE
    OBVIOUS
  <1>1. CASE t.do = "load product"
    BY <1>1, LoadProductDueNow DEF LoadProductDue, Void
  <1>2. CASE t.do = "table" /\ Targets(index, t) = {}
    <2>1. path \in Path /\ <<"data", t.slug>> \in baked[path].srcs
      BY <1>2, OthersDueNow DEF OthersDue
    <2>2. <<"data", t.slug>> \notin index[path].srcs
      BY <1>2, <2>1 DEF Targets, Loops
    <2>3. CASE path \in Slugged
      <3>1. CASE \A r \in Request : path \notin Made(r)
        <4>1. baked[path] = Placed(path)
          BY <2>1, <3>1, BakedIs DEF BakedSays, BaseInv, Calm
        <4> QED
          BY <2>1, <2>2, <4>1 DEF Placed
      <3>2. ASSUME NEW r \in Request, path \in Made(r)
            PROVE  FALSE
        <4>1. PICK page : page = bake[r].pages[path]
          OBVIOUS
        <4>2. baked[path] = Extant(page)
          BY <2>1, <3>2, <4>1, BakedIs DEF BakedSays, BaseInv, Calm
        <4>3. IsPage(page)
          BY <3>2, <4>1, BakeIs DEF BaseInv, HeldPages, Made
        <4>4. baked[path].srcs = page.srcs
          BY <4>2, <4>3, ExtantIs DEF ExtantSays
        <4> QED
          BY <2>1, <2>3, <3>2, <4>1, <4>4 DEF TableLess, NoTable
      <3> QED
        BY <3>1, <3>2
    <2>4. ASSUME NEW g \in Page, path = <<"page", g>>
          PROVE  FALSE
      <3>1. PagesOK
        BY PagesAre DEF PagesAreOK, Calm
      <3> QED
        BY <2>1, <2>2, <2>4, <3>1 DEF PagesOK, BaseInv, SiteOK
    <2> QED
      BY <2>1, <2>3, <2>4 DEF Path, Slugged
  <1> QED
    BY <1>1, <1>2 DEF Void

LEMMA CalmSkip ==
    ASSUME BaseInv, BaseInv', TableLess, Calm, NEW r \in Request, Skip(r)
    PROVE  Calm'
  <1>1. /\ job[r] # <<>> /\ Void(Head(job[r])) /\ job' = [job EXCEPT ![r] = Tail(@)] /\ bake' = bake
        /\ UNCHANGED <<product, collection, members, table, site, missed>>
    BY DEF Skip, catalogue
  <1>2. \A q \in Request \ {r} : job'[q] = job[q]
    BY <1>1, TailTasks DEF BaseInv
  <1>3. DueFor(Head(job[r])) = {}
    BY <1>1, HeadTask, VoidIsNotDue DEF BaseInv
  <1>4. ASSUME NEW i \in 1 .. Len(job[r]), NEW t \in Task, job[r][i] = t
        PROVE  DueFor(t) = {} \/ t \in {job'[r][j] : j \in 1 .. Len(job'[r])}
    <2>1. t = Head(job[r]) \/ t \in {job'[r][j] : j \in 1 .. Len(job'[r])}
      BY <1>1, <1>4, AfterHead DEF BaseInv
    <2> QED
      BY <1>3, <2>1
  <1> QED
    BY <1>1, <1>2, <1>4, CalmQuiet

LEMMA CalmStutter ==
    ASSUME BaseInv, BaseInv', Calm, UNCHANGED vars
    PROVE  Calm'
  <1>1. UNCHANGED <<product, collection, members, table, site, missed, bake, job>>
    BY DEF vars, catalogue
  <1>2. ASSUME NEW r \in Request
        PROVE  Calm'
    BY <1>1, CalmQuiet
  <1>3. CASE Request = {}
    <2>1. UNCHANGED <<files, live, index>>
      BY <1>1 DEF site
    <2>2. Lone' /\ Staged'
      BY <1>1, <2>1, SlotsKept DEF Calm
    <2>3. Base /\ Base'
      BY <2>2, Based DEF Calm
    <2>4. baked' = baked
      BY <1>1, <2>1, <2>3, BakedStays DEF Lost
    <2>5. \A path \in Path : Render(path)' = Render(path)
      BY <1>1, RenderStays DEF BaseInv
    <2>6. FreshOrDue'
      BY <1>1, <1>3, <2>4, <2>5 DEF Calm, PagesInv, FreshOrDue, Fresh, Covered
    <2>7. \A path \in Path : KeptPath(path) => KeptPath(path)'
      BY <1>1, <1>3 DEF KeptPath
    <2> QED
      BY <1>1, <2>2, <2>4, <2>6, <2>7, OwnPagesStay DEF Calm, PagesInv
  <1> QED
    BY <1>2, <1>3

LEMMA PagesVerb ==
    ASSUME Base, Base', PagesInv, NEW r \in Request, Idle(r),
           ProductVerb(r) \/ CollectionVerb(r) \/ TableVerb(r)
    PROVE  PagesInv'
  <1>1. CASE ProductVerb(r)
    BY <1>1, PagesRetag, PagesDelete, PagesAdminDeleteProduct, PagesCreateProduct,
       PagesImportProduct, PagesSaveProduct, PagesAdminSetProductCollections DEF ProductVerb
  <1>2. CASE CollectionVerb(r)
    BY <1>2, PagesDelete, PagesAdminDeleteCollection, PagesCreateCollection,
       PagesSaveCollection, PagesSetCollectionProducts, PagesAdminSetCollectionProducts DEF CollectionVerb
  <1>3. CASE TableVerb(r)
    BY <1>3, PagesTableVerb
  <1> QED
    BY <1>1, <1>2, <1>3

\* A verb, or the row it destroys once the pages are found.
LEMMA CalmVerb ==
    ASSUME BaseInv, BaseInv', Calm, NEW r \in Request,
           \/ Idle(r) /\ (ProductVerb(r) \/ CollectionVerb(r) \/ TableVerb(r))
           \/ DestroyProduct(r) \/ DestroyCollection(r)
    PROVE  Calm'
  <1>1. Lone' /\ Staged'
    BY VerbLeaves, SlotsKept DEF Calm
  <1>2. Base /\ Base'
    BY <1>1, Based DEF Calm
  <1>3. PagesInv'
    BY <1>2, PagesVerb, PagesDestroyProduct, PagesDestroyCollection DEF Calm
  <1> QED
    BY <1>1, <1>3 DEF Calm

LEMMA CalmStep ==
    ASSUME BaseInv, BaseInv', TableLess, overlaps = 0 => Calm, [Next]_vars, overlaps' = 0
    PROVE  Calm'
  <1>1. ASSUME NEW r \in Request, Find(r)
        PROVE  Calm'
    BY <1>1, CalmFind
  <1>2. ASSUME NEW r \in Request,
               \/ Idle(r) /\ (ProductVerb(r) \/ CollectionVerb(r) \/ TableVerb(r))
               \/ DestroyProduct(r) \/ DestroyCollection(r)
        PROVE  Calm'
    BY <1>2, VerbLeaves, CalmVerb
  <1>3. ASSUME NEW r \in Request, Publish(r) \/ Skip(r)
        PROVE  Calm'
    <2>1. overlaps' = overlaps
      BY <1>3 DEF Publish, Skip
    <2> QED
      BY <1>3, <2>1, CalmPublish, CalmSkip
  <1>4. ASSUME NEW r \in Request, Copy(r) \/ RenderPages(r) \/ Flip(r) \/ RecordPages(r)
        PROVE  Calm'
    <2>1. overlaps' = overlaps
      BY <1>4 DEF Copy, RenderPages, Flip, RecordPages
    <2> QED
      BY <1>4, <2>1, CalmCopy, CalmRenderPages, CalmFlip, CalmRecordPages
  <1>5. ASSUME NEW r \in Request, NoCollection(r) \/ Fail(r) \/ Die(r)
        PROVE  Calm'
    <2>1. overlaps' = overlaps
      BY <1>5 DEF NoCollection, Fail, Die, Abandon, GoOn
    <2> QED
      BY <1>5, <2>1, CalmFail
  <1>6. CASE UNCHANGED vars
    <2>1. overlaps' = overlaps
      BY <1>6 DEF vars
    <2> QED
      BY <1>6, <2>1, CalmStutter
  <1> QED
    BY <1>1, <1>2, <1>3, <1>4, <1>5, <1>6 DEF Next

LEMMA CalmInit ==
    ASSUME Init, BaseInv
    PROVE  Calm
  <1>1. \A r \in Request : bake[r] = NoBake /\ Made(r) = {} /\ ~Baking(r)
    BY DEF Init, Made, NoBake, NoPages, Baking
  <1>2. Lone /\ Staged
    BY <1>1 DEF Lone, Staged, Stage, NoBake
  <1>3. ASSUME NEW path \in Path
        PROVE  baked[path] = Render(path)
    <2>1. baked[path] = Placed(path)
      BY <1>1, <1>2, BakedIs DEF BakedSays, BaseInv
    <2>2. files[live][path] = Render(path).shows /\ index[path] = Entry(Render(path))
      BY DEF Init, Slot
    <2>3. PICK page : page = Render(path)
      OBVIOUS
    <2>4. IsPage(page)
      BY <2>3, RenderOK DEF BaseInv
    <2>5. Placed(path) = [shows |-> page.shows, ids |-> page.ids, srcs |-> page.srcs]
      BY <2>2, <2>3 DEF Placed, Entry
    <2> QED
      BY <2>1, <2>3, <2>4, <2>5 DEF IsPage
  <1>4. FreshOrDue
    BY <1>3 DEF FreshOrDue, Fresh
  <1>5. OwnPages
    BY <1>3, OwnPageLists DEF OwnPages, BaseInv
  <1> QED
    BY <1>2, <1>4, <1>5 DEF Calm, PagesInv

\* A stale page is covered, or made by the bake under way.
LEMMA StaleAreDue ==
    ASSUME BaseInv, overlaps = 0 => Calm
    PROVE  StalePagesAreDue
  <1> SUFFICES ASSUME Calm, NEW path \in Stale
               PROVE  path \in missed \/ \E r \in Request : path \in Due(r)
    BY DEF StalePagesAreDue, EveryWriteIsShown
  <1>1. path \in Path /\ files[live][path] # Render(path).shows
    BY DEF Stale
  <1>2. CASE Covered(path)
    BY <1>2 DEF Covered, Due
  <1>3. CASE Fresh(path)
    <2>1. CASE \A r \in Request : path \notin Made(r)
      <3>1. baked[path] = Placed(path)
        BY <1>1, <2>1, BakedIs DEF BakedSays, BaseInv, Calm
      <3> QED
        BY <1>1, <1>3, <3>1 DEF Fresh, Placed
    <2>2. ASSUME NEW r \in Request, path \in Made(r)
          PROVE  bake[r].step = "rendered"
      <3>1. PICK page : page = bake[r].pages[path]
        OBVIOUS
      <3>2. baked[path] = Extant(page) /\ IsPage(page)
        BY <1>1, <2>2, <3>1, BakedIs, BakeIs DEF BakedSays, BaseInv, Calm, HeldPages, Made
      <3>3. baked[path].shows = page.shows
        BY <3>2, ExtantIs DEF ExtantSays
      <3>4. files[live][path] # page.shows
        BY <1>1, <1>3, <3>3 DEF Fresh
      <3>5. bake[r].step \in {"rendered", "flipped"}
        BY <2>2, MadeIs DEF BaseInv
      <3>6. bake[r].step = "flipped" => files[live][path] = page.shows
        BY <1>1, <2>2, <3>1 DEF Calm, Staged, Stage
      <3> QED
        BY <3>4, <3>5, <3>6
    <2> QED
      BY <2>1, <2>2 DEF Due
  <1> QED
    BY <1>1, <1>2, <1>3 DEF Calm, PagesInv, FreshOrDue

\* While no bake has overlapped another since the last full publish, and
\* however requests and faults interleave with its steps, a page that a bake
\* would change is one that is still to be baked, or that a write is known to
\* have left behind (rebuild_index.rb, partial_bake.rb).
THEOREM StalePagesKnown == Spec => []StalePagesAreDue
  <1> DEFINE Inv == BaseInv /\ TableLess /\ (overlaps = 0 => Calm)
  <1>1. Init => Inv
    BY TypesInit, TableLessInit, CalmInit
  <1>2. Inv /\ [Next]_vars => Inv'
    BY TypesStep, TableLessStep, CalmStep
  <1>3. Inv => StalePagesAreDue
    BY StaleAreDue
  <1> QED
    BY <1>1, <1>2, <1>3, PTL DEF Spec
=============================================================================
