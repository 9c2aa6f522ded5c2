# Dukafi, specified

Dukafi is a self-hosted store: a Ruby (Roda, Sequel, Puma) application that
sells from a database, bakes its storefront into static files, and carries a
visual editor (TypeScript) for the merchant. This directory holds TLA+ models of
the parts of it in which steps of several actors meet, or in which edits of a
shared structure must agree with one another, the TLC runs that check them on
small instances, and proofs, checked by TLAPS, of what matters most for any
number of actors.

Every definition is written from the code under `dukafi/` and
`dukafi-editor/src/`; `PROJECT.json` maps each one to its lines.

## The system

| Component | State it keeps | Operations | What makes it hard | What makes it correct |
|---|---|---|---|---|
| Checkout | `variants.stock`, `discounts.usage_count`, carts, orders | `CreateOrder`, `CheckoutStockCheck.reserve!`, cart edits, stock edits | requests interleave around a transaction; two database engines with different isolation; state read before the transaction | never oversold; all or nothing; codes not overspent; every customer answered |
| Payments | `payment_attempts.status`, `orders.status` | start, callback, poll, settle, admin status edit | callbacks lost, repeated, late; a time-out that hides a success; crashes; rows held in memory across a network call | only the provider's word pays; attempt and order agree; no charge is stranded |
| Publishing | two slot directories, the `current` symlink, `publish_version`, a lock row | publish, partial bake on every save, rescue | crash between flip and commit; a lock with a time to live and no renewal; saves that take no lock; a version that others write back | one publish at a time; visitors see whole sites; the lock comes back |
| Draft store | `pages.document`, `site_states.site_json`, `seq`; in the editor the queued snapshot, the save under way, the last seq seen | editor autosave, poll, refresh, leaving and reloading; agent edits and publishes that write the same row | lost updates between read and whole-row write; late and lost requests; a conflict check nobody asks for | saves land in order; "synced" is true; the notice is true; an edit is saved or said not to be |
| Undo history | one undo stack per document, a route over them, coalescing keys | edit, fold, undo, redo, load | edits that touch several documents; bursts | one line of versions of the whole site |
| Visual editor | pages and components as trees with a parent cache; slots of every use; the open document; the clipboard | insert, delete, copy, cut, paste, wrap, drag, convert, detach, create and delete components, navigate | one edit must follow into every document that uses a component; indices counted before a removal | trees stay trees; every use has its slots; conversions change nothing that is shown |
| Cart verbs | carts by session key, cart lines, the session cookie | add, step, set, remove, clear, apply a code, order | check-then-write; overlapping requests carry old cookies; a spent cart whose key stays in the cookie | one cart, that holds what the verbs put in it; a cart can always be had |
| Scheduler and jobs | lock row 1, `_job:*:ran_at` | claim, run due jobs, stamp | jobs longer than the lease; crash before the stamp | one leader; a due job runs |
| Customer identity | customers | find or create at checkout | two first orders at once | one row per identity |
| Catalogue, custom tables, dependency index | products, collections, memberships, rows, `page_dependencies`, `page_sources`, redirects | the verbs of the admin and of MCP clients, rebuild targets, partial bake | an index that must cover what a page shows, also what it did not show before; a row written by one request between another's write and its bakes; bakes that overlap | every page that shows a row is rebuilt; a redirect lands |
| Authorization server, plugin registry, media, themes, forms, AI, MCP, renderer | see `PROJECT.json` | | mostly I/O, rendering, or third-party code | |

How they interact. A checkout reads the cart and the discount code that the
cart verbs left, writes the order that payments later marks paid, and emits
`order.created`; settling a payment emits `order.paid`, which sends the
confirmation. Every catalogue save calls a partial bake; the publish button
calls a full one; both end by moving `site_states.publish_version`. A publish, the
editor's save and an agent's edit all load that row, work, and save the whole of
it, so each may put back what another has written since: the draft, its `seq`, and
the version that names the slot. The scheduler's
leader runs plugin jobs, of which a payment provider's reconcile job is one, and
it uses the same lock class as publishing. The editor sends whole sites to the
store, an AI agent edits pages of it through the MCP tools, and the editor learns
of that by polling `seq`, a number each of them increments.

Concurrency. Puma runs five request threads in one process
(`config/puma.rb:2`), and milestone m15 runs several such processes on one
database and one published directory. The scheduler adds a thread. Nothing else
orders the requests. The editor is one browser thread, but its timers, requests
and answers interleave with the person's edits, with the agent's and with the
publisher's.

## Modules

| Module | Models | Proofs |
|---|---|---|
| `Shop` | the promise: a sale is one indivisible event | |
| `Checkout` | `create_order.rb`, `checkout_stock_check.rb`, the two engines of `config/database.rb` | `Orders_proofs` |
| `CartVerbs` | the cart verbs of `routes/fragments.rb` and the session cookie | `CartsAndJobs_proofs` |
| `Payments` | `services/payments.rb`, `routes/payments.rb` | `Orders_proofs` |
| `Publish` | `publish_site.rb`, `bake.rb`, `partial_bake.rb`, `scheduler_lock.rb`, and the writers of the state row (`site_state.rb`, `mcp_tools.rb`, `admin_api.rb`) as far as the version goes | `Publish_proofs` |
| `Rebuild` | `rebuild_index.rb`, `dependency_tracker.rb`, `partial_bake.rb`, `commerce_writes.rb`, `custom_table_writes.rb`, the catalogue routes of `admin_api.rb`, `slug_redirect.rb` | `Rebuild_proofs` |
| `Jobs` | `scheduler.rb`, `plugin_jobs.rb`, `scheduler_lock.rb` | `CartsAndJobs_proofs` |
| `Timeline` | the promise: undo is one line of versions of the site | |
| `History` | `collabBinding.ts` in detached mode: undo, redo, folding | `Drafts_proofs` |
| `Drafts` (extends `History`) | `usePersistence.ts`, `sync/*.ts`, the PUT route and the other writers of `site_states` | `Drafts_proofs` |
| `PageTree` | `core/page-tree`: lists, parents, copies, drops | |
| `Components` (extends `PageTree`) | `core/visualComponents`: slots, references, what a page shows | |
| `Editor` (extends `Components`) | `store/slices`: the structural edits named below, opening and closing pages and components | `Editor_proofs`, `EditorTrees_proofs`, `EditorSlots_proofs` |
| `MC*` | the functions, sites, scenarios and symmetries TLC needs | |

Definitions marked *slip* in the modules are faulty variants of the definition
beneath them (a dropped guard, an off-by-one). No specification uses them; each
is what a property would catch if the code changed that way.

`Orders_proofs` extends `Checkout` and `Payments` together, so what the two would
otherwise both call `Init`, `Next`, `Spec`, `TypeOK` has the prefix `Payments` in
`Payments`; likewise `CartsAndJobs_proofs` extends `CartVerbs` and `Jobs`, and
`Jobs` has the prefix. The editor's proof is in three modules, each of which extends
the one before: `Editor_proofs` (types, references, outlets), `EditorTrees_proofs`
(trees, parents, drops) and `EditorSlots_proofs` (the slots of refs).

### Checkout

One action per read, write or early return of a request. `Start` is the route
finding its active cart; `ReadPayload` reads the priced lines, and the code if
it still validates, before the transaction; `CheckStock` is the transaction's
first read, `ReadLines` the second, `Decrement` one turn of the loop of UPDATEs,
and `CommitOrder` the rest: order, lines, discount use, converted cart. `Fail`,
`Busy` and `DeadlockAbort` are the ways out, all through `Rollback`. `EditLine`
and `SetStock` are the other writers.

An uncommitted decrement is kept in `taken[r]`, so that other transactions do
not see it. The engines differ in three operators: `CanWrite`, the write lock
and the stale snapshot of SQLite's WAL mode; `RowFree`, a Postgres row lock;
`OutdateOthers`, a commit that ages the open snapshots.

Left out: prices, shipping rates, customers, the order's number. What can fail
there is `Fail`.

### Cart verbs

One visitor, several requests in flight. The browser's cookie is replaced as a
whole by any answer that brings one, and an answer brings one only when its
handler changed the session. `Send` copies the cookie into the request; the
`ReadFor*` actions are the handlers' lookups and refusals, `FindCart` and
`MakeCart` are `active_cart`, `KeyTaken` its exception, `WriteLine` and
`WriteFails` the separate write; `Clear`, `SetCode` and `Order` change the
session; `Deliver` and `Lose` end a request. A line read and since deleted is
`Gone`, even if another row took its place, because the row's id is another.

The ghosts `wanted` and `code` are the cart as the verbs carried out so far
make it. The ghost `known` collects the six ways in which it is not: a line
written by a request that read it otherwise (`raced`), first requests without a
key (`early`), requests with the key of a cart being spent (`late`), answers that
replace a newer cookie (`overtaken`), sessions changed that were not the
visitor's last (`crossed`), and lost answers (`lost`). The properties hold
whenever none was taken: TLC shows the list to be complete on this instance.

### Payments

A worker is a request thread or the scheduler's. `StartAttempt` writes the row,
`Initiate` calls the provider, `FinishStart` writes the outcome over whatever
the row says by then. `Callback` and `LoadForPoll` load the row into the
worker's memory (`at`, `seen`); `Poll` asks the provider; the `Settle*` actions
judge by the row in memory and write; `EmitPaid` sends the events after the
transaction. `Decide` is the provider. `Crash` ends a worker anywhere. An
administrator may set any status at any time. The order statuses that are
payable and not paid (pending, fulfilled, shipped) are one value.

### Publish

A thread either publishes (`ReadState`, `Claim` or `Refuse`, `Prepare`, then
`Build`, `Flip`, `Commit`, `Unlock`) or saves a product (`StartSave`, `Copy`,
then the same `Build`, `Flip`, `Commit`). A slot is empty, being built, torn, or
whole; that is all a visitor could tell. `Rescue` is the code's rescue clause,
`RaiseEarly` an exception before the bake, `Crash` the end of a process with all
its threads, `Expire` the passing of the lock's 90 seconds.

A writer of the draft, which is the editor's PUT or an agent's edit, is
`LoadDraft`, then `SaveDraft` or `DropDraft`; `held` is the version in the row it
loaded, and saving puts it back.

`LiveSlotIsWhole` is the promise of `publishing.md`, without exceptions. The code
does not keep it. A draft writer that straddles a publish is enough: the next publish
takes the same version again, and empties the slot being served. The ghost `disturbed`
records all the circumstances against which the code has no protection: a bake that
began while another ran, one that began from a version or a symlink that had moved
on, a crash between the flip and its transaction, and a draft that put back a
version of the other parity (`OffBeat`; one of the same parity names the same slot
and does no harm). `VisitorsSeeWholeSite` is claimed up to the first of those. It is
a real weakening: a publish that loaded the state row before another committed
(`publish_site.rb:6` loads it before the lock is claimed) builds the version it
read in the slot that is live by then. `Publish` has that step, and TLC finds a
torn live slot at once when the ghost is left out of the property.

### Rebuild

Which pages a catalogue write bakes again. `files` holds what each path's file shows
(rows, each with the version it had) in either slot, `live` is the slot `current`
points at, `index` what the two indexes have for each path; `Render` is what a bake
would make of the path now. A verb writes its row and leaves tasks in `job`: the
bakes it still has to do, each with the row as the request holds it in memory, or
to be loaded again. A delete finds its pages first and destroys the row then.

A bake is five steps, with no lock around them, and between any two of them every
other request may write and bake: `Find` reads the index for the pages and `current`
for the slot to copy, `Copy` fills the other slot, `RenderPages` reads the catalogue
and writes the pages there, `Flip` points `current` at it, `RecordPages` writes the
index. `Publish` is the same over the whole site. `Fail` is a bake that raises, for a
fault or because a product it listed is gone and the index refuses it
(`Recordable`); `Undo` is what its rescue does to slot and symlink, and the request
ends (`Abandon`) or, for tables, goes on (`GoOn`). `Die` ends a request anywhere,
`NoCollection` is a row that is gone when it is loaded again, `Skip` a task with
nothing to bake. `baked` is what was last made of a path, in the live slot and the
index or in a bake under way.

The ghost `missed` holds the pages a write is known to leave behind until something
bakes them. Each `Leaves` is one of the ways, and TLC finds the property violated
when any of them is taken out, so that the list is complete and has no slack:

- a product card of a slug that no product had (`NewOnCards`);
- a CSV import; the admin's DELETE of a product or a collection, and its POST of a
  collection, which bake nothing;
- the rename of a collection, which looks up under the new slug only;
- a page that came to list the product or collection between a delete's lookup and
  its destroy;
- the admin's membership verbs, which do not find the joining product's own page;
- the rename of a product whose old slug another product took meanwhile: the page
  at the old path is deleted although it is the other's;
- bakes that failed, died, were rescued, or did not find their row.

The ghost `overlaps` counts the bakes that began while another was under way, since
a full publish last began alone. `EveryWriteIsShown` is the promise of
`publishing.md`, up to `missed`; the code does not keep it when bakes overlap: of two
that both succeed, the second copies the slot that was live when it began over the
first one's pages. `StalePagesAreDue` claims it while `overlaps` is zero: the
writes of other requests interleave with the steps of a bake, their bakes do not.
Nothing finer is claimed of overlaps, for a page that one bake undoes is neither due
nor known to anybody; but the property speaks again after the next full publish that
begins alone, which makes good what they left behind.

Left out: pages behind a gate (a partial bake deletes their file and they are
served live), `collections` loops (nothing but a publish bakes those again), the
order within a collection, the limit of twelve related products,
`ensure_recorded!`, which fills the indexes of a site published before they
existed, and `publish_version`: a publish takes the slot that is not live, and when
the version says otherwise is the subject of `Publish`.

### Jobs

Every process has one scheduler thread: asleep for `wait` ticks, looking through
the jobs, or running one. `Claim` and `LoseClaim` are `SchedulerLock.claim`;
`Fire`, `Stamp`, `JobFails`, `Skip` and `EndPass` are `PluginJobs.run_due`, which
judges every job by the one `now` taken at the start of its pass (`since`).
`Rescue` is the loop's rescue, `Crash` and `Boot` the process. A tick is 30
seconds; instants are ages, because only differences matter, and stop where
nothing can tell them apart. The ghost `overran` says that a pass has outlived
its lease: nothing renews the lease inside a pass.

### Drafts and undo

An edit writes a number, so a document is a version and a site a function from
documents to versions. `EditDocs` takes or folds a step in each document the
edit touches, `Undo`, `Redo` and `Load` follow the route. In `Drafts` every edit
also queues a snapshot (`pending`) and starts `timer`; `TimerFires` sends it if no
save is awaited; `ServerReads` and `ServerSave` are the PUT route, which loads the
state row outside its transaction and writes it, with the seq that follows the one
read, inside; it compares nothing, because the editor sends `replace`; `Answer`, `Fail` and `LoseUnawaited` are what comes
back. `Leave`, `Return`, `Reload`, `Refresh`, `Fetched` and `Loaded` are the
mounting hook and its reads, document by document. `WriterReads`,
`AgentPersists` and `PublishSaves` are the two other writers, who read, work and
write the row back, with the seq they read.

The ghost `known` names the ways in which the code is known to go wrong, and
every property excludes only the ones that touch it: `left` (the editor was left
with work queued or in flight), `late` (a request given up landed after all),
`overlap` (a row written back over a newer one, by a late save and its successor too), `raced` (a poll overtook the
answer to a save), `refresh` (a refresh over unsaved work) and `torn` (a load
that met a write). That the counter is monotonic, and that an agent's work is
announced before it is lost, as the comments in `site_state.rb` promise, is therefore
not claimed: the code does not keep either ("What the code does not keep").
`Interleaved` says whether a burst of typing may be resumed
after other edits; the linear undo holds only without.

### The editor

`PageTree` holds the pure operations on one tree, `Components` the ones about
slots and references, and `Shown`, the reference rendering of a page with its
components expanded. Each action of `Editor` is one store action with all its
guards, for the three modes in which the tree may be edited (a page, a component
in its own mode, a component inline through one of its uses), including the
sweep over every other document that the change of an outlet entails: inserting a
module or a use of a component, deleting, duplicating, wrapping, copying, cutting,
pasting, dragging, renaming an outlet or a slot parameter, converting, detaching,
deleting a component; and opening a page, a component, or a component inline. Not
among them: `insertBlock` (`blocksSlice.ts:70`, which puts a ready-made tree into the
open document and, in a component's own mode, has no recursion guard, so
`NoComponentInItself` says nothing about it), and creating, renaming and deleting
pages. `last`
keeps what the edit promised (where a drop lands, what pages show); `known` marks
the ids hit by a slip the code is known to make, and the properties speak of all
others. Some slips spread: once a parent is stale, a later edit may go by it and
harm any node, so `ParentIndex` and `IsTree` speak only of sites where none is; a
page with a node in two lists gives it to what is copied from there, and a
clipboard to the page it is pasted into (`Spread`), and those are the documents
the two properties leave aside; a second content outlet may be copied on, so
`OneContentOutlet` speaks only of sites where none was detached into a page; and
promises are made only while nothing is known to be wrong. Two edits could not tell
the difference; three can.

The loops of the code (walks down a subtree and up the parents, edits repeated
over a selection, sweeps) are functions of the number of turns taken, and what a
component reaches is the least set closed under use: both can be reasoned about
without recursive operators. `SiteAssumption` says what a loaded site is like:
documents whose ids are below `FirstId`, each one tree with true parents and node
ids of its own, every ref with its component, no component in itself, at most one
content outlet in a document, every ref with exactly its component's slots, and a
clipboard that was cut from such a tree. It is what the editor's own edits leave
when nothing has slipped.

## Runs

State counts are distinct states, the search is complete in every passing run.

| Run | States | What it shows |
|---|---|---|
| `checkout_sqlite` | 1,004,442 | On SQLite: never oversold, all or nothing, codes overspent by at most one use per other thread, and `Checkout` implements `Shop`. |
| `checkout_postgres` | 281,428 | On Postgres: every unit is in stock or in an order, and every checkout is answered, deadlocks included. |
| `cart` | 217,406 | Overlapping requests of one visitor: one cart, no unhandled exception, and a cart and code that are what the verbs made them, but for six named ways. |
| `payments` | 296,788 | Only the provider or an administrator makes an order paid; a succeeded attempt has its order paid; a charge that went through on an attempt in flight is settled. |
| `publish` | 457,508 | Publishes of two processes never overlap, visitors see whole sites (up to `disturbed`) beside a writer of the draft, and the lock always comes back. |
| `jobs` | 252,355 | A job meets itself only when a pass has outlived its lease, is stamped once per period until then, and a due job always runs. |
| `session` | 863,406 | Undo is `Timeline`; saves land in order; "synced" and the notice are true; what is queued is saved or said not to be. |
| `editor` | 209,714 | Every two edits in a row on two sites: trees stay trees with a true parent index, every use has its slots, no component contains itself, drops land, conversions change nothing that is shown. |
| `rebuild` | 1,288,999 | Two overlapping requests, two writes, one fault or two bakes that overlap once: until an overlap, and again after the next full publish that begins alone, every page that is not up to date is about to be baked, or left behind in a way listed above; renames in any order never chain redirects. |
| `oversell_postgres` | violation | On Postgres two checkouts sell the last unit twice. |
| `double_submit` | violation | A cart submitted twice becomes two orders. |
| `two_publishers` | violation | Two threads of one process both hold the publish lock. |

Each violation contradicts a sentence of the repository's own documents,
comments or tests, quoted under `findings` in `PROJECT.json`.

### Bounds, and why they are enough

- Checkout: two threads, two carts, two variants with one and two units, one
  code with a single use, quantities up to 1. Two transactions are what SQLite's
  argument and a deadlock need; two variants let the loops lock in opposite
  orders; a unit and a use that are scarce make every check bind. `MaxServed`
  (3 checkouts on SQLite, so that a thread serves twice) and `MaxEdits` bound
  the length. The Postgres run has no code, since its questions do not touch one.
- Payments: two workers, two attempts at one order, one fault, one edit by hand.
  The races are between two loads of one row, or between two attempts at one
  order. Callbacks are unbounded: the model repeats them for ever.
- Publish: two threads, in two processes or in one, one writer of the draft who
  may write again and again, four bakes and two faults (`MaxBakes`, `MaxFaults`):
  enough for a publish, a save and a failure or a crash with a bake before and after,
  with both slots used twice; the version put back and the publish that suffers
  from it need two. The proofs have no bounds.

- Cart: three requests in flight, four in all, one lost answer, one variant with
  two units, three session keys (symmetry over the requests). Two requests race
  over a line; the third lets a row be removed and added again between another's
  read and write. A fourth is needed to meet a spent key: add, order, add, and one
  that overlaps. Five requests in all pass too, in a longer run.
- Jobs: three processes, jobs due at every pass and at every second one, a lease
  of three ticks with passes of up to four (`Longest`), two faults. A pass longer
  than its lease, a takeover, a crash and a second takeover all fit in.
- Session: five scenarios (`MCScenarios`) share the budget between the hazards: a
  scenario for undo alone with four edits over two documents; one in which saves
  fail beside another writer; two writers around leaving and reloading; leaving
  with a failing save; a refresh after an agent's edit. Two documents are enough
  for a step that touches one or both; one value per edit makes every version
  distinct.
- Editor: two edits (`MaxEdits`), with navigation between them unbounded, on two
  sites written so that each mechanism is there before the first edit: a component
  used inside a component's slot, an outlet inside a slot, a component inside its
  own slot, two slots, a locked node, a content outlet, a clipboard. New ids start at
  `FirstId` = 100, above every id of the two sites. The second
  edit meets what the first left behind; that is where the flaws below were found.

- Rebuild: two requests, two writes, one fault or one overlap; two products and two collections,
  so that one may take over another's slug; three slugs, so that a rename can be
  followed by a second one (a to b to c); a page for every kind of
  loop and card. It starts with one active product in one collection; the
  writes make the rest. Publishes are unbounded. `OneMishap` keeps
  faults and overlaps in behaviours of their own. Two writes are what it takes for
  one request to write between another's write and any step of its bake, and a third
  would take longer than all other runs together.

`PaymentsTypeOK`, `TypeOK` of `Publish` and `SqliteInvariant` of `Checkout` are proved
and are not repeated by the runs. The proofs remove these bounds for the safety
properties listed below.

### Fairness

- `Checkout!FairSpec`: weak fairness of a request's next step. Puma runs an
  accepted request to its end; a wait for a lock ends by `busy_timeout` or by
  Postgres' deadlock detection, which are actions. No fairness for failures,
  edits, or new requests.
- `Payments!PaymentsFairSpec`: weak fairness of a worker's next step, and strong
  fairness of polling an attempt in flight, because the status region polls
  every few seconds and a provider's reconcile job every 15 minutes, while a
  worker is idle again and again. That the reconcile job keeps running is
  `DueJobRuns` of `Jobs`. Callbacks and the provider's decision are
  owed by nobody.
- `Publish!FairSpec`: weak fairness of a request's next step, and of `Expire`,
  the clock. Faults and new bakes are owed by nobody.
- `Jobs!JobsFairSpec`: weak fairness of a thread's next step (handlers return), of
  `Boot` (the compose file says `restart: unless-stopped`), and of the clock.
- `Drafts!Spec`: weak fairness of the autosave timer, the poll (the tab is visible
  from time to time), the answer or failure of a save, the server's work on a
  request, and the fetches of a load. The person, the agent and the publisher owe
  nothing, and a request that was given up may be lost.
- `Editor`, `CartVerbs` and `Rebuild` state no fairness: they make safety claims
  only. A person may stop (`CHECK_DEADLOCK FALSE` in `editor`, `cart` and
  `session`); a merchant may always publish again, so `rebuild` checks deadlock.

## What is proved

| Theorem | Statement | From |
|---|---|---|
| `Orders_proofs!TypeCorrect` | `Spec => []TypeOK` | the assumptions of the module |
| `Orders_proofs!NeverOversold` | `StockNeverNegative` | `Engine = "sqlite"` |
| `Orders_proofs!CheckoutImplementsShop` | `ImplementsShop` | `Engine = "sqlite"` |
| `Orders_proofs!OverrunBounded` | `UsageOverrunBounded` | either engine |
| `Orders_proofs!SqliteKept` | `SqliteInvariant` | `Engine = "sqlite"` |
| `Orders_proofs!WholeOrders` | `AllOrNothing` | either engine |
| `Orders_proofs!EveryUnitAccounted` | `UnitsAccounted` | either engine |
| `Orders_proofs!PaymentsTypeCorrect` | `PaymentsTypeOK` | |
| `Orders_proofs!OnlyTheProviderPays` | `PaidOnlyByProvider` | |
| `Orders_proofs!AttemptAndOrderTogether` | `SettledTogether` | |
| `Publish_proofs!TypeCorrect` | `TypeOK` | |
| `Publish_proofs!PublishIsSingleFlight` | `SingleFlight` | one thread per process, bakes shorter than the lock's time to live |
| `Publish_proofs!WholeSiteServed` | `VisitorsSeeWholeSite` | any number of threads per process, slow bakes too |
| `CartsAndJobs_proofs!JobsTypeCorrect` | `JobsTypeOK` | |
| `CartsAndJobs_proofs!NeverTwiceAtOnce` | `NotTwiceAtOnce` | |
| `CartsAndJobs_proofs!StampsSpaced` | `OncePerPeriod` | |
| `Drafts_proofs!SessionTypeCorrect` | `TypeOK` | any documents, keys, scenarios |
| `Drafts_proofs!UndoRouteSound` | `RouteMatchesStacks` | interleaved bursts too |
| `Drafts_proofs!UndoIsOneTimeline` | `UndoIsLinear`, the refinement of `Timeline` | `Interleaved = FALSE` |
| `Drafts_proofs!SavesLandInOrder` | `SavesInOrder` | |
| `Drafts_proofs!NoticeTrue` | `NoticeIsTrue` | |
| `Drafts_proofs!SyncedTrue` | `SyncedMeansSaved` | |
| `CartsAndJobs_proofs!TypeCorrect` | `TypeOK` | |
| `CartsAndJobs_proofs!OneCartAlways` | `ShoppingGoesOn` | |
| `CartsAndJobs_proofs!CartAsOrdered` | `CartIsHonest` | |
| `Editor_proofs!Invariant` | the four below, inductive together | `SiteAssumption` |
| `Editor_proofs!EditorTypes` | `TypeOK` | the same |
| `Editor_proofs!RefsAlwaysResolve` | `RefsResolve` | the same |
| `Editor_proofs!NeverInItself` | `NoComponentInItself` | the same |
| `Editor_proofs!OneOutletEach` | `OneContentOutlet` | the same |
| `EditorTrees_proofs!AlwaysTrees` | `Trees`, inductive beside the ones above | the same |
| `EditorTrees_proofs!ParentIndexTrue` | `ParentIndex` | the same |
| `EditorTrees_proofs!AlwaysATree` | `IsTree` | the same |
| `EditorTrees_proofs!DropsLand` | `DropLands` | the same |
| `EditorSlots_proofs!AlwaysSlotful` | `Slotful`, inductive beside `Inv` | the same |
| `EditorSlots_proofs!SlotsAlwaysMatch` | `SlotsMatch` | the same |
| `Rebuild_proofs!TypeCorrect` | `TypeOK` | finitely many products and collections (`Finite`) |
| `Rebuild_proofs!OneHopAlways` | `RedirectsLandInOneHop` | the same |
| `Rebuild_proofs!StalePagesKnown` | `StalePagesAreDue` | the same; until bakes overlap, as the property says |

The arguments, and why the invariants must be stronger than what they show:

- *Never oversold.* That stock is not negative says nothing about a transaction
  about to commit. `SqliteInvariant` adds that only the holder of the write lock
  has decremented, that the holder's snapshot is current, and that a check made
  on a snapshot holds for as long as the snapshot is current, because any commit
  outdates the others. On Postgres the middle part fails, and `oversell_postgres`
  shows the consequence.
- *Implements Shop.* Under the same invariant only `CommitOrder` changes what
  Shop sees (a whole sale, of units that are there), besides the merchant's edit.
- *Overrun.* Uses so far plus requests that have validated the code and not yet
  ended never exceed the limit plus the other threads.
- *Only the provider pays.* A worker carries only verdicts the provider gave,
  and the provider does not take a success back: an attempt is asked for once,
  by the one worker that created its row (`OneInitiator`), and before the row
  exists it was never asked for (`UnaskedBeforeRow`).
- *Single flight.* Whoever publishes holds the lock and the lock has not
  expired (`LockHeld`). Both assumptions are needed: the first is what
  `two_publishers` refutes for `config/puma.rb`'s five threads, and without the
  second nothing renews the lock.
- *Whole sites.* While nothing was disturbed there is one bake at a time, and it
  works beside a live slot that is whole and that the version names
  (`Alternating`); since consecutive versions name different slots
  (`SlotsAlternate`) and a save works in the slot that was not live
  (`SavesCross`), the next bake does so too, and a failed one finds its way back.
  A draft writer may put the version back at any step: what the invariant says of a
  version is which slot it names, and a version put back that names the same slot
  keeps it (`SlotsInStep`).
- *All or nothing.* The invariant is inductive as it stands, for either engine: only
  `CommitOrder` changes orders, uses or a cart's status, and it changes them in
  one step (the order appended, its code counted once, its cart converted); every
  way out before it leaves them alone.
- *Units accounted for.* What was sold is counted as a set, each unit named by its
  order and a number within it, so that a commit adds the units of one order, which
  are new and as many as its loop has decremented, and no induction over the orders
  is needed.
- *Jobs.* `LeaseInv`: a pass no older than its lease holds the row and its
  heartbeat is as old as the pass (`LeaseHeld`), until one overran no pass is older
  than its lease (`PassesYoung`), and the job a pass is running was due when it was
  called and nobody has stamped it since (`StillDue`). Two passes in
  one job would both hold the row.
- *The undo route.* `HistoryInv`: types, lengths that agree, and no coalescing key
  while there is something to redo, or a fold would drop what redo needs.
- *One timeline.* Seen through the stacks, an edit pushes a version, a fold
  replaces the newest, undo and redo move one across: one lemma per action over
  the positions of a document's steps in the route. A fold into a step that is not
  the newest of the route breaks it, hence `Interleaved = FALSE`.
- *Saves in order.* `OrderInv`: until work was left or a request given up, there is
  at most one request, it is the awaited one, and landed, in flight, queued and
  shown snapshots are numbered in that order.
- *Synced.* `SavedInv`: what is queued is what is shown; the awaited save wrote, or
  will write, what is shown, or something is queued; what was fetched is what is
  stored; and a writer knows what is stored for as long as `seq` is unchanged. A save
  that has read the row is written with a `seq` nobody has seen, or it overlaps.
- *The notice.* `NoticeInv`: until somebody else wrote, every value of `seq` was
  seen, or an answer that tells it is on its way; a publish under way has read no `seq`
  beyond the one stored (`WriterBehind`), and what a save has read is not below it
  (`ReadsAhead`).
- *The cart.* While no known way was taken: every request in flight was sent with
  the key the cookie has (`KeysSent`), and a key made by an add is known to that
  request only, until its answer (`KeysMade`); so there is one cart to be found,
  `wanted` is its lines, and no two requests can make one. At most one answer
  under way will set the code, and what it will set is `code` (`CodeUnderWay`);
  when nothing is under way the cookie has it.
- *Redirects.* `Record` clears the new slug, points the old one at it, and moves on
  whatever pointed at the old one: the invariant is inductive by itself, but only
  once `TypeOK` says that a live row has a slug.
- *Stale pages.* Seen through files and index alone, the property is not inductive,
  for one because a bake has live pages it has not recorded yet, and pages recorded
  nowhere it is about to flip to. `Calm`, which holds while no bake has overlapped
  another, has three parts. At most one bake is under way (`Lone`). Each of its steps
  has left the two slots as it should, the other one a copy of the live one but for
  the pages made (`Staged`); so `baked` moves only when pages are rendered, and
  `Copy`, `Flip` and `RecordPages` leave it alone. And of what `baked` says
  (`PagesInv`): every path is *fresh* (what a bake would make of it), left behind, or
  due (`FreshOrDue`), and the own page of an active product lists it, or is left
  behind, or a task names it whatever the index says by then (`OwnPages`), since a
  request that saves a product as a draft finds its page only because the page lists
  it. Four lemmas, one for each kind of write (`ProductWriteFound`,
  `MembershipFound`, `CollectionWriteFound`, `TableWriteFound`), say that a fresh
  path the index does not find renders as before: that is what `rebuild_index.rb`
  promises. As many (`DueThrough...`) say that a page another request was to bake is
  still among its targets after the write, although targets are looked up only when
  the bake starts, or is one of those the write has found itself. What a full publish
  finds when it begins alone is every path, whatever held before (`FoundAll`), and so
  the property holds again.
- *The editor.* `Inv` has the types of the whole site, `RefsResolve`,
  `NoComponentInItself`, and at most one content outlet, in the clipboard too, since a
  paste brings what was copied earlier. The proof goes through every tree
  operator: what it does is said by what it may bring (`Narrows`: no use and no
  outlet that was not there; `Grows`: at most the ones named; `Like`: neither),
  and a loop is followed turn by turn (`UpTo`). Then each action is a `Turn` of one
  document followed by a sweep that brings nothing (`SyncAllRefsIs`). A new
  component cannot be in itself because the types say that nothing refers to an
  id that was not given out; `GuardKeepsAcyclic` says that a use which
  `wouldCreateCycle` lets pass leaves the components acyclic. The theorems hold
  for any number of edits, not the two of the run.
- *The editor's trees.* That parents are true is not inductive without the lists:
  an edit finds a list by a `parentId`, and one that is in two lists is taken out
  of one. Nor is it without the absence of circles, which moving and wrapping
  need, nor without the clipboard and the other documents, from which nodes come.
  `Trees` has all of them: while no parent is known to be stale, every document not
  known to share a node is a forest with its root at the top (each node in one list,
  no circle, true parents); while no slot is lost it is whole, every node listed and
  no slot outlet holding any; no two documents have a node in common; and the
  clipboard is such a forest, with its roots as tops. That there is no circle is
  said by sets (some node of any set is listed by none of the set), so that no path
  has to be followed by induction. What each operator does to the lists is one
  relation: a tree hung into another (`Grafts`), without a branch (`Pruned`), with
  nodes moved (`Moved`), with one slipped in (`Slipped`), a copy (`Mirror`), a use
  whose slots changed (`Turned`), a component with its slots filled in (`Fed`), and a
  document partway through a sweep (`Sweeping`), which is wrong only where one use is
  inside another's slot. Each keeps forests. From `IsForest` to `IsTree`: what the
  walk meets is closed under lists, and were one node left out, the set of those
  left out would have a top that nobody lists.
- *Drops.* `DropLandsAt` follows the arithmetic of `resolvePageTreeDropTarget`, which
  subtracts the grabbed node's own place, through `moveNodes`, which takes the others
  out too; `Moved` gives the list that results. The sweep after the commit is
  always for the component that was edited, and `NoComponentInItself` is why it
  cannot meet the tree the drop was in.
- *Slots.* `SlotsMatch` compares what a ref lists with the outlets of another
  document, and the edit that breaks it may be anywhere; and it is claimed also where
  a stale parent leads edits astray, where `Trees` says nothing. What it needs instead
  is ownership. `Slotful` says of every component nothing has slipped for: a ref to it
  lists its slots alone, each locked, naming the ref as its parent, and listed by no
  other node; nothing but a slot has such a ref for its parent, in any document or
  in the clipboard, so an edit that goes by a `parentId` never reaches a ref's list
  except through a slot, and the edits that do (deleting, wrapping, copying a slot)
  are the slips; no id is mentioned in two documents, by key or in a list; and ids are
  below `next`, so that new nodes touch none of this. Each operator keeps it of one
  node map (`Kept`, mostly by `Calm`: no new ref, and old refs keep their slots).
  A sweep breaks it for its component and mends it ref by ref: `Underway` splits the
  refs into those that have the new names and those that still own the old slots,
  and a ref taken away with another's slot is marked by `NestedUse`. A commit in
  which outlets of a third component change marks that one (`OutletsChanged`), so
  what is wanted of the others stays the same (`SlottedFewer`). A conversion needs
  all of it at once: the refs inside the subtree move to a new document
  (`Carved`) with their slots, and the page gets a ref nothing is wanted of.

Only model-checked:

- everything that says something must happen (`EveryCheckoutAnswered`,
  `EveryChargeResolves`, `LockComesBack`, `DueJobRuns`, `EditReachesServer`),
  which needs fairness;
- of the editor, `LooksTheSame`, which compares pages through `Shown`, an induction
  over data. It is checked for two edits in a row on two sites.

## What the code does not keep

Three sentences of the repository are refuted by runs (above). While writing the
models other places came up where the code does not do what a text beside it
says, or where a property had to be weakened by name. They are kept here, each
with the ghost that excludes it where there is one.

- *Payments.* Any exception from `provider.initiate`, also a time-out after the
  charge was accepted, marks the attempt failed, which is terminal: the poll
  (`payments.rb:123`) and the callback (`:90`) then ignore it, against
  `payments.rb:120-121`. `settle` judges the row it holds in memory, so a callback
  and a poll may both emit `order.paid`, against "cannot double-apply" (`:87`).
- *Cart.* `fragments.rb:729-731` says a delta is resolved against the current
  quantity without a race; two overlapping steps read the same quantity and one is
  lost (`raced`). A spent cart keeps its unique key: when the answer to the order
  is lost or overtaken, every later add raises (`lost`, `overtaken`). Two first
  adds at once make two carts (`early`).
- *Publishing.* A publish loads the state row before it claims the lock, and saves take
  no lock at all, and every writer of the draft saves the version it loaded
  (`site_state.rb:25`), so a bake can empty the slot that is live (`disturbed`), against
  "Clear and prepare the inactive slot" and "Visitors therefore do not observe a
  partially written release" (`docs/architecture/publishing.md:54`, `:62`).
- *Rebuild.* "A catalogue or data-table write must re-bake every page that would show
  the change" (`publishing.md:66`): the list under *Rebuild* above is where it does
  not (`missed`), and bakes that overlap undo one another (`overlaps`).
  Read in the code and not modelled: `PartialBake` renders without
  `SitePartials.compose`, which only `bake.rb:197` calls, so a page baked by a save
  has no site header and footer until the next publish, against
  `site_partials.rb:3`; a product created with a slug that was freed by a rename
  stays behind the old redirect, which the storefront looks up first; a rename by
  an MCP client records no redirect.
- *Jobs.* A pass longer than 90 seconds runs beside a new leader (`overran`);
  milestone m15 promises "DB locks preventing double-publish and
  double-scheduling".
- *Drafts.* The editor saves in `replace` mode, so the conflict check of
  `admin_api.rb:537` never runs for it, although the comment there says the editor
  ships base numbers; an agent's page is overwritten, and the notice tells of it only
  if a poll comes before the save is answered, against `site_state.rb:21-22`. A
  failed save drops its snapshot until the next edit. The parting save on unmount
  races the one under way, and nobody reads its answer (`left`). A refresh does
  not cancel a queued save (`refresh`). The loads of a site's parts may be torn
  (`torn`). `seq` is incremented in memory, so an overlapping write can go unseen
  (`overlap`), against "One monotonic counter" (`site_state.rb:12`), also between two saves of the editor, one of which it
  gave up; and a publish writes the shell and the seq it read back over newer
  ones. A page deleted in the editor stays on the server: the route deletes only
  listed ids (`admin_api.rb:1462`), while `cms.ts:49-51` says the server derives
  deletions.
- *Undo.* A burst resumed after other edits folds out of order
  (`Interleaved = TRUE`).
- *Editor.* A converted node and re-cloned paste roots keep a stale or missing
  `parentId` (`parent`). A component may be put into itself when edited inline,
  because `insertComponentRef` guards only the component's own mode (`cycle`).
  Pastes of uses whose component is gone or changed or one of whose slots was
  copied apart from it, sweeps over uses that are nested or in the component itself,
  deletion, wrapping and keyboard removal of slots leave a use without the slots
  of its component (`slots`). Detaching a component with two outlets of one name
  lists one copy twice (`shared`) and may create a second content outlet
  (`outlet`). A drag of several nodes subtracts only the grabbed one's place.
- *Customers.* `Customer.upsert_by_identity` finds one row by e-mail, and another
  may own the phone; the update then violates the unique phone, and every
  checkout with that pair raises. (Read in the code, not modelled.)

## Not modelled

The reasons are in `PROJECT.json`, component by component. In short: rendering
and compilation (pure functions the repository tests by example), file, image
and network I/O, third-party plugin code, and the authorization server.

Of the modelled components: prices, discount arithmetic, shipping and customers in
`Checkout`; amounts and redirects in `Payments`; what a bake renders in
`Publish`; in `Rebuild`, what is named there, and the verbs of discount codes; in `Drafts`, content below a document, and creating
or deleting pages; in `History`, the mode with a collaboration provider, which no
code of the repository turns on; in `Editor`, styles and classes, properties and
bindings, selection, layouts, metadata toggles, and imports from HTML.

Most of the implementation's lines are the editor's user interface: panels,
dialogs, inspectors, CSS and canvas rendering in TypeScript, which show state and
call the store actions that `Editor`, `History` and `Drafts` model. They keep
little state of their own and no protocol between them, so the share of all lines
that the map names is small, although the share of the code that decides
something is not.

## Plan

Done: checkout, payments and publishing, written first because a mistake there
costs money or the site; then the editor's trees, undo and drafts, the
scheduler, the cart verbs, and the rebuild index. Left, in this order:

1. `Customer.upsert_by_identity` under concurrent checkouts, as part of
   `Checkout`.
2. Cart totals and discounts, as operators checked against reference definitions
   over bounded inputs.
3. Page creation and deletion in `Drafts`, with the deletions the route needs to
   be told.
4. Proofs: that `Publish` implements an abstract publisher, in which a release is
   one event.
