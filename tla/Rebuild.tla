------------------------------ MODULE Rebuild ------------------------------
(***************************************************************************)
(* dukafi/services/rebuild_index.rb, dependency_tracker.rb,                *)
(* partial_bake.rb, commerce_writes.rb, custom_table_writes.rb and the     *)
(* catalogue routes of dukafi/routes/admin_api.rb: which published pages a *)
(* catalogue write bakes again.  Each baked page leaves in the index the   *)
(* products it listed (ids) and the sources it loops (srcs); a verb writes *)
(* its row, then has the pages baked.  A bake is five steps: it finds the  *)
(* pages, copies the live slot to the other one, renders there, points     *)
(* current at it, and records what it rendered in the index.  No lock      *)
(* holds them together: verbs and bakes of other requests go on between    *)
(* them.  What bakes that overlap do to each other is counted since a full *)
(* publish last began with no bake under way.                              *)
(*                                                                         *)
(* Some writes are known to leave pages behind.  They are in missed until  *)
(* something bakes them; each action that adds to it says why.             *)
(***************************************************************************)
EXTENDS Naturals, SequencesExt

CONSTANTS
    Request,    \* requests of the admin and of MCP clients
    Product,    \* product ids
    Collection, \* collection ids
    Slug,       \* slugs of products, collections and the custom table
    NoSlug,
    Page,       \* the site's pages
    Shows,      \* Page -> Source: the loop or card on it
    MaxWrites,  \* bound: verbs begun
    MaxOverlaps, \* bound: bakes begun while another is under way
    MaxFaults   \* bound: bakes that raise, processes that die

\* What a loop or card can name: products, collections/s.products, data/s,
\* and the product card of slug s.
Source == {<<"products", NoSlug>>} \union ({"members", "data", "card"} \X Slug)

ASSUME PagesAssumption == NoSlug \notin Slug /\ Shows \in [Page -> Source]
ASSUME RebuildBounds == MaxWrites \in Nat /\ MaxOverlaps \in Nat /\ MaxFaults \in Nat
ASSUME Finite == IsFiniteSet(Product) /\ IsFiniteSet(Collection)

VARIABLES
    product,    \* products: slug, status and how often it was written
    collection, \* collections, likewise
    members,    \* collection_products
    table,      \* a custom table: its slug, and when its rows were written
    redirect,   \* slug_redirects
    files,      \* what each path's file shows, in each slot
    live,       \* the slot current points at
    index,      \* page_dependencies and page_sources of each path
    job,        \* what each request has still to do
    bake,       \* the bake each request is in
    missed,     \* history: pages a write is known to have left behind
    overlaps,   \* history: bakes that overlapped since the last full publish
    writes,     \* verbs begun (for MaxWrites)
    faults      \* faults so far (for MaxFaults)

catalogue == <<product, collection, members, table>>
site == <<files, live, index>>
vars == <<catalogue, redirect, site, job, bake, missed, overlaps, writes, faults>>

Slot == {0, 1}
Other(slot) == 1 - slot

Path == ({"product", "collection"} \X Slug) \union ({"page"} \X Page)

NoRow == [slug |-> NoSlug, status |-> "unborn", version |-> 0]
Gone  == [slug |-> NoSlug, status |-> "gone", version |-> 0]

Live(row) == row.status \in {"draft", "active"}
Products == {p \in Product : Live(product[p])}
Active   == {p \in Product : product[p].status = "active"}
Collections == {c \in Collection : Live(collection[c])}

ProductAt(s)    == {p \in Active : product[p].slug = s}
CollectionAt(s) == {c \in Collections : collection[c].slug = s}

-----------------------------------------------------------------------------
\* Rendering (CommercePrefetcher, PartialBake#render_path, Bake): what a path
\* shows of the catalogue, and what DependencyTracker and
\* RebuildIndex.sources record of it.

Nothing == [shows |-> {}, ids |-> {}, srcs |-> {}]

ActiveIn(c) == members[c] \intersect Active

Listed(source) ==
    CASE source[1] = "products" -> Active
      [] source[1] = "members"  -> UNION {ActiveIn(c) : c \in CollectionAt(source[2])}
      [] source[1] = "card"     -> ProductAt(source[2])
      [] OTHER                  -> {}

\* currentEntry.related: the active products that share a collection.
Homes(p)   == {c \in Collection : p \in members[c]}
Related(p) == (UNION {ActiveIn(c) : c \in Homes(p)}) \ {p}

Rows(ps) == {<<p, product[p].version>> : p \in ps}
TableRows(s) == IF table.slug = s /\ table.rows # 0 THEN {<<"row", table.rows>>} ELSE {}

SitePage(g) ==
    LET source == Shows[g] IN
    [shows |-> IF source[1] = "data" THEN TableRows(source[2]) ELSE Rows(Listed(source)),
     ids   |-> Listed(source),
     srcs  |-> IF source[1] = "card" THEN {} ELSE {source}]

ProductPage(p) ==
    [shows |-> Rows({p} \union Related(p)),
     ids   |-> {p} \union Related(p),
     srcs  |-> {<<"members", collection[c].slug>> : c \in Homes(p)}]

CollectionPage(c) ==
    [shows |-> {<<c, collection[c].version>>} \union Rows(ActiveIn(c)),
     ids   |-> ActiveIn(c),
     srcs  |-> {<<"members", collection[c].slug>>}]

Render(path) ==
    LET found == CASE path[1] = "page"       -> {SitePage(path[2])}
                   [] path[1] = "product"    -> {ProductPage(p) : p \in ProductAt(path[2])}
                   [] path[1] = "collection" -> {CollectionPage(c) : c \in CollectionAt(path[2])}
    IN  IF found = {} THEN Nothing ELSE CHOOSE page \in found : TRUE

Empty == [path \in Path |-> {}]

\* RebuildIndex.record_path!
Entry(page) == [ids |-> page.ids, srcs |-> page.srcs]

Stale == {path \in Path : files[live][path] # Render(path).shows}

-----------------------------------------------------------------------------
\* The bake a request is in: how far it is, what for, the slot it found live,
\* and the pages it has rendered and not yet recorded.

NoPages == [path \in {} |-> Nothing]
NoBake  == [step |-> "none", of |-> "none", from |-> 0, pages |-> NoPages]

Made(r)      == DOMAIN bake[r].pages
Baking(r)    == bake[r] # NoBake
Makers(path) == {r \in Request : path \in Made(r)}

\* What was last made of each path: its file and its rows of the index, or
\* those it is about to have (less the products that are gone by now).
Extant(page) == [page EXCEPT !.ids = {p \in @ : product[p] # Gone}]
baked ==
    [path \in Path |->
        IF Makers(path) = {}
        THEN [shows |-> files[live][path], ids |-> index[path].ids, srcs |-> index[path].srcs]
        ELSE Extant(bake[CHOOSE r \in Makers(path) : TRUE].pages[path])]

-----------------------------------------------------------------------------
\* RebuildIndex: whom to bake, by what the index holds or, in the history
\* variable, by what it is about to.  (ensure_recorded! does nothing here: the
\* index is written by every publish, and some page loops a source.)

Loops(by, source) == {path \in Path : source \in by[path].srcs}

\* (Slip: only the pages that already listed it.)
ListersOf(by, p, s, active) ==
    {path \in Path : p \in by[path].ids}
        \union (IF active THEN {<<"product", s>>} ELSE {})
TargetsOfProduct(by, p, s, active) ==
    {path \in Path : p \in by[path].ids}
        \union Loops(by, <<"products", NoSlug>>)
        \union (UNION {Loops(by, <<"members", collection[c].slug>>) : c \in Homes(p)})
        \union (IF active THEN {<<"product", s>>} ELSE {})

TargetsOfCollection(by, s) == {<<"collection", s>>} \union Loops(by, <<"members", s>>)

\* What a request has still to do: bake for a product or a collection as it
\* holds it in memory, or as it will load it then; bake the pages of a
\* table, or of the whole site; destroy a row, then bake the paths it found
\* before.  A bake under way has found its paths and those it drops.
OfProduct(p, row, old) ==
    [do |-> "product", id |-> p, slug |-> row.slug, active |-> row.status = "active", old |-> old]
OfCollection(s, old)    == [do |-> "collection", slug |-> s, old |-> old]
LoadProduct(p)          == [do |-> "load product", id |-> p]
LoadCollection(c)       == [do |-> "load collection", id |-> c]
OfTable(s)              == [do |-> "table", slug |-> s]
OfPaths(paths)          == [do |-> "paths", paths |-> paths]
OfSite                  == [do |-> "publish"]
Destroy(what, id, paths) == [do |-> what, id |-> id, paths |-> paths]
Found(paths, dropped)   == [do |-> "found", paths |-> paths, dropped |-> dropped]

Targets(by, task) ==
    CASE task.do = "product"         -> TargetsOfProduct(by, task.id, task.slug, task.active)
      [] task.do = "collection"      -> TargetsOfCollection(by, task.slug)
      [] task.do = "table"           -> Loops(by, <<"data", task.slug>>)
      [] task.do = "publish"         -> Path
      [] task.do \in {"paths", "found"} -> task.paths
      [] task.do = "load product"    ->
            LET p == task.id IN
            IF p \in Products
            THEN TargetsOfProduct(by, p, product[p].slug, p \in Active) ELSE {}
      [] task.do = "load collection" ->
            IF task.id \in Collections THEN TargetsOfCollection(by, collection[task.id].slug) ELSE {}
      [] OTHER                       -> {}

\* The page a rename leaves behind.
OldPath(task) ==
    CASE task.do = "found" -> task.dropped
      [] task.do \in {"product", "collection"} ->
            IF task.old # task.slug THEN {<<task.do, task.old>>} ELSE {}
      [] OTHER -> {}

\* What a request has still to make, and what it made that is not yet live.
ToMake(r) == UNION {Targets(baked, job[r][i]) \union OldPath(job[r][i]) : i \in 1 .. Len(job[r])}
Due(r)    == ToMake(r) \union (IF bake[r].step = "rendered" THEN Made(r) ELSE {})

-----------------------------------------------------------------------------
Status == {"draft", "active"}

OneOwner(rows, owners) ==
    \A i, j \in owners : rows[i].slug = rows[j].slug => i = j

\* Types, and what the tables' constraints keep: slugs are unique, and a
\* membership goes with its collection and its product.
TypeOK ==
    /\ product \in [Product -> [slug : Slug \union {NoSlug},
                                status : Status \union {"unborn", "gone"}, version : Nat]]
    /\ collection \in [Collection -> [slug : Slug \union {NoSlug},
                                      status : Status \union {"unborn", "gone"}, version : Nat]]
    /\ OneOwner(product, Products) /\ OneOwner(collection, Collections)
    /\ \A p \in Products : product[p].slug # NoSlug
    /\ \A c \in Collection : members[c] \subseteq (IF c \in Collections THEN Products ELSE {})
    /\ table \in [slug : Slug \union {NoSlug}, rows : Nat]
    /\ redirect \in [{"product", "collection"} -> [Slug -> Slug \union {NoSlug}]]
    /\ DOMAIN files = Slot /\ \A slot \in Slot : DOMAIN files[slot] = Path
    /\ live \in Slot
    /\ DOMAIN index = Path
    /\ \A path \in Path : index[path].ids \subseteq Products /\ index[path].srcs \subseteq Source
    /\ DOMAIN job = Request
    /\ DOMAIN bake = Request
    /\ \A r \in Request :
          /\ bake[r].step \in {"none", "found", "copied", "rendered", "flipped"}
          /\ bake[r].from \in Slot
          /\ Made(r) \subseteq Path
    /\ missed \subseteq Path
    /\ overlaps \in 0 .. MaxOverlaps
    /\ writes \in 0 .. MaxWrites
    /\ faults \in 0 .. MaxFaults

\* A shop that has just been published: some products, a collection of some
\* of them, a table with a row.  (Before the first publish there is nothing
\* to bake and PartialBake returns at once.)
Init ==
    /\ product \in [Product -> {NoRow} \union
                       [slug : Slug, status : Status, version : {0}]]
    /\ OneOwner(product, Products)
    /\ collection \in [Collection -> {NoRow} \union
                          [slug : Slug, status : {"active"}, version : {0}]]
    /\ OneOwner(collection, Collections)
    /\ members \in [Collection -> SUBSET Product]
    /\ \A c \in Collection : members[c] \subseteq (IF c \in Collections THEN Products ELSE {})
    /\ \E s \in Slug : table = [slug |-> s, rows |-> 0]
    /\ redirect = [kind \in {"product", "collection"} |-> [s \in Slug |-> NoSlug]]
    /\ live = 0
    /\ files = [slot \in Slot |-> IF slot = live THEN [path \in Path |-> Render(path).shows] ELSE Empty]
    /\ index = [path \in Path |-> Entry(Render(path))]
    /\ job = [r \in Request |-> <<>>]
    /\ bake = [r \in Request |-> NoBake]
    /\ missed = {}
    /\ overlaps = 0
    /\ writes = 0
    /\ faults = 0

-----------------------------------------------------------------------------
Idle(r) == job[r] = <<>> /\ ~Baking(r)

\* A verb leaves its request with tasks to do.
Begin(r, tasks) ==
    /\ writes' = writes + 1
    /\ job' = [job EXCEPT ![r] = tasks]
    /\ UNCHANGED <<site, bake, overlaps, faults>>

Leaves(paths) == missed' = missed \union paths

ProductFree(p, s)    == \A q \in Products \ {p} : product[q].slug # s
CollectionFree(c, s) == \A d \in Collections \ {c} : collection[d].slug # s

PutProduct(p, row) == product' = [product EXCEPT ![p] = row] /\ UNCHANGED <<collection, members, table>>
PutCollection(c, row) == collection' = [collection EXCEPT ![c] = row] /\ UNCHANGED <<product, members, table>>
PutMembers(m) == members' = m /\ UNCHANGED <<product, collection, table>>

\* SlugRedirect.record
\* (Slip: redirects to the old slug are not moved on.)
RecordAlone(kind, old, new) ==
    IF old = new THEN redirect
    ELSE [redirect EXCEPT ![kind] = [@ EXCEPT ![new] = NoSlug, ![old] = new]]
Record(kind, old, new) ==
    IF old = new THEN redirect
    ELSE [redirect EXCEPT ![kind] =
            [s \in Slug |-> IF s = new THEN NoSlug
                            ELSE IF s = old \/ @[s] = old THEN new ELSE @[s]]]

\* A card of a slug no product had records no product: it is not found when
\* one comes to have it.
NewOnCards(p, row) ==
    IF row.status # "active" THEN {}
    ELSE {path \in {"page"} \X Page :
             Shows[path[2]] = <<"card", row.slug>> /\ p \notin baked[path].ids}

-----------------------------------------------------------------------------
\* Products.  The admin's verbs and those of an MCP client (CommerceWrites)
\* are one where they do the same.

CreateProduct(r, p, s, status) ==
    LET row == [slug |-> s, status |-> status, version |-> product[p].version + 1] IN
    /\ product[p] = NoRow
    /\ ProductFree(p, s)
    /\ PutProduct(p, row)
    /\ Begin(r, <<OfProduct(p, row, s)>>)
    /\ Leaves(NewOnCards(p, row))
    /\ UNCHANGED redirect

\* Its row, its variants, stock or images; only the admin records a redirect.
SaveProduct(r, p, s, status, byAdmin) ==
    LET old == product[p].slug
        row == [slug |-> s, status |-> status, version |-> product[p].version + 1]
    IN  /\ p \in Products
        /\ ProductFree(p, s)
        /\ PutProduct(p, row)
        /\ Begin(r, <<OfProduct(p, row, old)>>)
        /\ Leaves(NewOnCards(p, row))
        /\ redirect' = IF byAdmin THEN Record("product", old, s) ELSE redirect

\* A CSV import, which finds products by slug, bakes nothing.
ImportProduct(r, p, s, status) ==
    LET row == [slug |-> s, status |-> status, version |-> product[p].version + 1] IN
    /\ \/ product[p] = NoRow /\ ProductFree(p, s)
       \/ p \in Products /\ product[p].slug = s
    /\ PutProduct(p, row)
    /\ Begin(r, <<>>)
    /\ Leaves(TargetsOfProduct(baked, p, s, TRUE) \union NewOnCards(p, row))
    /\ UNCHANGED redirect

\* retag_variants_with_store_currency writes every product, then bakes each.
Retag(r) ==
    LET Wrote(p) == [product[p] EXCEPT !.version = @ + 1]
        Task(p)  == OfProduct(p, Wrote(p), product[p].slug)
    IN  /\ Products # {}
        /\ product' = [p \in Product |-> IF p \in Products THEN Wrote(p) ELSE product[p]]
        /\ \E ps \in SetToSeqs(Products) : Begin(r, [i \in DOMAIN ps |-> Task(ps[i])])
        /\ UNCHANGED <<collection, members, table, redirect, missed>>

\* Destroying the row takes its memberships and its rows of the index along.
\* (Slip: the memberships stay.)
LoseRow(p) ==
    /\ product' = [product EXCEPT ![p] = Gone]
    /\ index' = [path \in Path |-> [index[path] EXCEPT !.ids = @ \ {p}]]
    /\ UNCHANGED <<collection, members, table, files, live, bake, overlaps>>
LoseProduct(p) ==
    /\ product' = [product EXCEPT ![p] = Gone]
    /\ members' = [c \in Collection |-> members[c] \ {p}]
    /\ index' = [path \in Path |-> [index[path] EXCEPT !.ids = @ \ {p}]]
    /\ UNCHANGED <<collection, table, files, live, bake, overlaps>>

OwnPath(p) == <<"product", product[p].slug>>

\* CommerceWrites.delete_product! finds the pages first ...
DeleteProduct(r, p) ==
    /\ p \in Products
    /\ Begin(r, <<Destroy("destroy product", p,
                    TargetsOfProduct(index, p, product[p].slug, p \in Active) \union {OwnPath(p)})>>)
    /\ UNCHANGED <<catalogue, redirect, missed>>

\* ... and destroys the row then; a page that came to list the product in
\* between is left behind.  A second request finds no row and raises.
DestroyProduct(r) ==
    /\ job[r] # <<>>
    /\ LET task == Head(job[r]) IN
       /\ task.do = "destroy product"
       /\ IF task.id \in Products
          THEN /\ LoseProduct(task.id)
               /\ job' = [job EXCEPT ![r] = <<OfPaths(task.paths)>>]
               /\ Leaves(TargetsOfProduct(baked, task.id, product[task.id].slug, TRUE) \ task.paths)
          ELSE /\ job' = [job EXCEPT ![r] = <<>>]
               /\ UNCHANGED <<catalogue, site, bake, missed, overlaps>>
    /\ UNCHANGED <<redirect, writes, faults>>

\* The admin's DELETE bakes nothing.
AdminDeleteProduct(r, p) ==
    /\ p \in Products
    /\ writes' = writes + 1
    /\ LoseProduct(p)
    /\ Leaves(TargetsOfProduct(baked, p, product[p].slug, TRUE))
    /\ UNCHANGED <<redirect, job, faults>>

-----------------------------------------------------------------------------
\* Collections

\* The admin's POST bakes nothing, an MCP client's does.
CreateCollection(r, c, s, byAdmin) ==
    /\ collection[c] = NoRow
    /\ CollectionFree(c, s)
    /\ PutCollection(c, [slug |-> s, status |-> "active", version |-> collection[c].version + 1])
    /\ Begin(r, IF byAdmin THEN <<>> ELSE <<OfCollection(s, s)>>)
    /\ Leaves(IF byAdmin THEN TargetsOfCollection(baked, s) ELSE {})
    /\ UNCHANGED redirect

\* A rename looks the pages up under the new slug; the index of those that
\* show the collection has them under the old one.
SaveCollection(r, c, s, byAdmin) ==
    LET old == collection[c].slug IN
    /\ c \in Collections
    /\ CollectionFree(c, s)
    /\ PutCollection(c, [slug |-> s, status |-> "active", version |-> collection[c].version + 1])
    /\ Begin(r, <<OfCollection(s, old)>>)
    /\ Leaves(IF s # old THEN Loops(baked, <<"members", old>>) ELSE {})
    /\ redirect' = IF byAdmin THEN Record("collection", old, s) ELSE redirect

DeleteCollection(r, c) ==
    /\ c \in Collections
    /\ Begin(r, <<Destroy("destroy collection", c, TargetsOfCollection(index, collection[c].slug))>>)
    /\ UNCHANGED <<catalogue, redirect, missed>>

LoseCollection(c) ==
    /\ collection' = [collection EXCEPT ![c] = Gone]
    /\ members' = [members EXCEPT ![c] = {}]
    /\ UNCHANGED <<product, table>>

DestroyCollection(r) ==
    /\ job[r] # <<>>
    /\ LET task == Head(job[r]) IN
       /\ task.do = "destroy collection"
       /\ IF task.id \in Collections
          THEN /\ LoseCollection(task.id)
               /\ job' = [job EXCEPT ![r] = <<OfPaths(task.paths)>>]
               /\ Leaves(TargetsOfCollection(baked, collection[task.id].slug) \ task.paths)
          ELSE /\ job' = [job EXCEPT ![r] = <<>>]
               /\ UNCHANGED <<catalogue, missed>>
    /\ UNCHANGED <<redirect, site, bake, overlaps, writes, faults>>

AdminDeleteCollection(r, c) ==
    /\ c \in Collections
    /\ LoseCollection(c)
    /\ Begin(r, <<>>)
    /\ Leaves(TargetsOfCollection(baked, collection[c].slug))
    /\ UNCHANGED redirect

\* An MCP client's set_collection_products bakes the collection, then each
\* product that joined or left it, loaded again.
SetCollectionProducts(r, c, ps) ==
    LET changed == (ps \ members[c]) \union (members[c] \ ps) IN
    /\ c \in Collections
    /\ PutMembers([members EXCEPT ![c] = ps])
    /\ \E order \in SetToSeqs(changed) :
          Begin(r, <<OfCollection(collection[c].slug, collection[c].slug)>>
                       \o [i \in DOMAIN order |-> LoadProduct(order[i])])
    /\ UNCHANGED <<redirect, missed>>

\* The admin's two verbs bake the collections only: the page of a product
\* that joins one does not loop it yet, and is not found.
AdminSetCollectionProducts(r, c, ps) ==
    /\ c \in Collections
    /\ PutMembers([members EXCEPT ![c] = ps])
    /\ Begin(r, <<OfCollection(collection[c].slug, collection[c].slug)>>)
    /\ Leaves({OwnPath(p) : p \in (ps \ members[c]) \intersect Active})
    /\ UNCHANGED redirect

AdminSetProductCollections(r, p, cs) ==
    LET changed == (cs \ Homes(p)) \union (Homes(p) \ cs) IN
    /\ p \in Products
    /\ PutMembers([c \in Collection |->
                      IF c \in cs THEN members[c] \union {p} ELSE members[c] \ {p}])
    /\ \E order \in SetToSeqs(changed) :
          Begin(r, [i \in DOMAIN order |-> LoadCollection(order[i])])
    /\ Leaves(IF p \in Active /\ ~(cs \subseteq Homes(p)) THEN {OwnPath(p)} ELSE {})
    /\ UNCHANGED redirect

-----------------------------------------------------------------------------
\* The custom table (CustomTableWrites; reviews go the same way).

PutTable(row) == table' = row /\ UNCHANGED <<product, collection, members, redirect, missed>>

\* Its name, columns or slug; both slugs' pages are baked.
SaveTable(r, s) ==
    /\ table.slug # NoSlug
    /\ PutTable([slug |-> s, rows |-> IF table.rows = 0 THEN 0 ELSE writes + 1])
    /\ Begin(r, <<OfTable(table.slug)>> \o IF s = table.slug THEN <<>> ELSE <<OfTable(s)>>)

\* A row is created, changed, or the last one deleted.
WriteRow(r, rows) ==
    /\ table.slug # NoSlug
    /\ PutTable([table EXCEPT !.rows = rows])
    /\ Begin(r, <<OfTable(table.slug)>>)

DeleteTable(r) ==
    /\ table.slug # NoSlug
    /\ PutTable([slug |-> NoSlug, rows |-> 0])
    /\ Begin(r, <<OfTable(table.slug)>>)

CreateTable(r, s) ==
    /\ table.slug = NoSlug
    /\ PutTable([slug |-> s, rows |-> 0])
    /\ Begin(r, <<>>)

-----------------------------------------------------------------------------
\* PartialBake, and PublishSite where it does the same to the whole site.
\* (Its slot is named by the version; module Publish says when that is not the
\* other one.)

Publish(r) ==
    /\ Idle(r)
    /\ job' = [job EXCEPT ![r] = <<OfSite>>]
    /\ UNCHANGED <<catalogue, redirect, site, bake, missed, overlaps, writes, faults>>

\* A product that is gone, or a table no page loops: there is nothing to bake.
Void(task) ==
    \/ task.do = "load product" /\ task.id \notin Products
    \/ task.do = "table" /\ Targets(index, task) = {}

Skip(r) ==
    /\ job[r] # <<>> /\ ~Baking(r)
    /\ Void(Head(job[r]))
    /\ job' = [job EXCEPT ![r] = Tail(@)]
    /\ UNCHANGED <<catalogue, redirect, site, bake, missed, overlaps, writes, faults>>

\* The index is read for the pages of the next task, and current for the slot
\* to copy.
Find(r) ==
    /\ job[r] # <<>> /\ ~Baking(r)
    /\ LET task == Head(job[r]) IN
       /\ task.do \notin {"destroy product", "destroy collection"}
       /\ ~Void(task)
       /\ ~(task.do = "load collection" /\ task.id \notin Collections)
       /\ job' = [job EXCEPT ![r] = <<Found(Targets(index, task), OldPath(task))>> \o Tail(@)]
       /\ bake' = [bake EXCEPT ![r] =
                     [step |-> "found", of |-> task.do, from |-> live, pages |-> NoPages]]
       /\ IF \E q \in Request : Baking(q)
          THEN overlaps < MaxOverlaps /\ overlaps' = overlaps + 1
          ELSE overlaps' = IF task.do = "publish" THEN 0 ELSE overlaps
    /\ UNCHANGED <<catalogue, redirect, site, missed, writes, faults>>

\* A bake of the whole site starts from nothing.
Copy(r) ==
    LET from == bake[r].from IN
    /\ bake[r].step = "found"
    /\ files' = [files EXCEPT ![Other(from)] = IF bake[r].of = "publish" THEN Empty ELSE files[from]]
    /\ bake' = [bake EXCEPT ![r].step = "copied"]
    /\ UNCHANGED <<catalogue, redirect, live, index, job, missed, overlaps, writes, faults>>

\* The pages found are rendered from the catalogue as it is now; the page at
\* the old path is deleted, be it another product's by now.
RenderPages(r) ==
    LET task  == Head(job[r])
        pages == [path \in task.paths \union task.dropped |->
                    IF path \in task.dropped THEN Nothing ELSE Render(path)]
        into  == Other(bake[r].from)
    IN  /\ bake[r].step = "copied"
        /\ files' = [files EXCEPT ![into] =
              [path \in Path |-> IF path \in DOMAIN pages THEN pages[path].shows ELSE @[path]]]
        /\ bake' = [bake EXCEPT ![r].step = "rendered", ![r].pages = pages]
        /\ missed' = (missed \ DOMAIN pages)
                         \union {path \in task.dropped : Render(path) # Nothing}
        /\ job' = [job EXCEPT ![r] = Tail(@)]
        /\ UNCHANGED <<catalogue, redirect, live, index, overlaps, writes, faults>>

Flip(r) ==
    /\ bake[r].step = "rendered"
    /\ live' = Other(bake[r].from)
    /\ bake' = [bake EXCEPT ![r].step = "flipped"]
    /\ UNCHANGED <<catalogue, redirect, files, index, job, missed, overlaps, writes, faults>>

\* page_dependencies takes no product that is gone.
Recordable(r) == \A path \in Made(r) : bake[r].pages[path].ids \subseteq Products

RecordPages(r) ==
    /\ bake[r].step = "flipped"
    /\ Recordable(r)
    /\ index' = [path \in Path |->
                    IF path \in Made(r) THEN Entry(bake[r].pages[path]) ELSE index[path]]
    /\ bake' = [bake EXCEPT ![r] = NoBake]
    /\ UNCHANGED <<catalogue, redirect, files, live, job, missed, overlaps, writes, faults>>

\* The request is over before its bakes are: what it had to bake is not.
Abandon(r) ==
    /\ job' = [job EXCEPT ![r] = <<>>]
    /\ bake' = [bake EXCEPT ![r] = NoBake]
    /\ Leaves(ToMake(r) \union Made(r))
    /\ UNCHANGED <<catalogue, redirect, index, overlaps, writes>>

\* Collection[id] is nil by now: PartialBake raises.
NoCollection(r) ==
    /\ job[r] # <<>> /\ ~Baking(r)
    /\ Head(job[r]).do = "load collection"
    /\ Head(job[r]).id \notin Collections
    /\ Abandon(r)
    /\ UNCHANGED <<files, live, faults>>

Fault == faults < MaxFaults /\ faults' = faults + 1

Die(r) == ~Idle(r) /\ Fault /\ Abandon(r) /\ UNCHANGED <<files, live>>

\* The rescue of a bake that raises: current goes back, the slot is removed.
\* (Bake's own moves current only where it had moved it.)
Undo(r) ==
    LET from == bake[r].from IN
    IF bake[r].step = "found" THEN UNCHANGED <<files, live>>
    ELSE /\ files' = [files EXCEPT ![Other(from)] = Empty]
         /\ live' = IF bake[r].of # "publish" \/ bake[r].step = "flipped" THEN from ELSE live

\* CustomTableWrites.rebake! rescues what PartialBake raises, and goes on.
GoOn(r) ==
    LET made == bake[r].step \in {"rendered", "flipped"} IN
    /\ job' = IF made THEN job ELSE [job EXCEPT ![r] = Tail(@)]
    /\ bake' = [bake EXCEPT ![r] = NoBake]
    /\ Leaves(IF made THEN Made(r) ELSE Head(job[r]).paths)
    /\ UNCHANGED <<catalogue, redirect, index, overlaps, writes>>

\* A bake raises: for a fault, or since the index refuses what it records.
Fail(r) ==
    /\ Baking(r)
    /\ \/ Fault
       \/ bake[r].step = "flipped" /\ ~Recordable(r) /\ UNCHANGED faults
    /\ Undo(r)
    /\ IF bake[r].of = "table" THEN GoOn(r) ELSE Abandon(r)

-----------------------------------------------------------------------------
ProductVerb(r) ==
    \/ Retag(r)
    \/ \E p \in Product :
          \/ DeleteProduct(r, p) \/ AdminDeleteProduct(r, p)
          \/ \E s \in Slug, status \in Status :
                \/ CreateProduct(r, p, s, status)
                \/ ImportProduct(r, p, s, status)
                \/ \E byAdmin \in BOOLEAN : SaveProduct(r, p, s, status, byAdmin)
          \/ \E cs \in SUBSET Collections : AdminSetProductCollections(r, p, cs)

CollectionVerb(r) ==
    \E c \in Collection :
       \/ DeleteCollection(r, c) \/ AdminDeleteCollection(r, c)
       \/ \E s \in Slug, byAdmin \in BOOLEAN :
             CreateCollection(r, c, s, byAdmin) \/ SaveCollection(r, c, s, byAdmin)
       \/ \E ps \in SUBSET Products :
             SetCollectionProducts(r, c, ps) \/ AdminSetCollectionProducts(r, c, ps)

TableVerb(r) ==
    \/ DeleteTable(r)
    \/ \E s \in Slug : SaveTable(r, s) \/ CreateTable(r, s)
    \/ \E rows \in {0, writes + 1} : WriteRow(r, rows)

Next ==
    \E r \in Request :
       \/ /\ Idle(r)
          /\ writes < MaxWrites
          /\ ProductVerb(r) \/ CollectionVerb(r) \/ TableVerb(r)
       \/ DestroyProduct(r) \/ DestroyCollection(r)
       \/ Publish(r) \/ Find(r) \/ Copy(r) \/ RenderPages(r) \/ Flip(r) \/ RecordPages(r)
       \/ Skip(r) \/ NoCollection(r) \/ Fail(r) \/ Die(r)

Spec == Init /\ [][Next]_vars

-----------------------------------------------------------------------------
\* A write bakes again every page that would show it
\* (docs/architecture/publishing.md:66-67): a page that is not what a bake
\* would make of it now is one that a request under way is still to bake, or
\* one that a write is known to have left behind.  Bakes that overlap break
\* it.
EveryWriteIsShown == Stale \subseteq missed \union UNION {Due(r) : r \in Request}

\* While no bake has overlapped another since the last full publish, every
\* page that is out of date is still to be baked or among the named ones: the
\* index finds each page a write shows on, those that did not list the row
\* before included (rebuild_index.rb:3-11).
StalePagesAreDue == overlaps = 0 => EveryWriteIsShown

\* A redirect leads to where the thing is, in one hop: none leads to a slug
\* that is itself redirected, whatever was renamed, in whatever order
\* (slug_redirect.rb:11).
RedirectsLandInOneHop ==
    \A kind \in DOMAIN redirect : \A s \in Slug :
       redirect[kind][s] # NoSlug => redirect[kind][redirect[kind][s]] = NoSlug
=============================================================================
