------------------------------- MODULE Drafts -------------------------------
(***************************************************************************)
(* How the editor's document reaches the store, and how the editor learns  *)
(* that somebody else wrote to it (hooks/usePersistence.ts, sync/*.ts, the *)
(* PUT site-document route, and the other writers of site_states).  An     *)
(* edit queues a snapshot of the whole site; 400 ms after the last one a   *)
(* save sends it, one at a time; the server counts the writes, and the     *)
(* editor polls that count.  The editor can be left and opened again, the  *)
(* tab reloaded, requests lost or late; the route that saves, an AI agent  *)
(* and the publisher read the state row, work for a while, and write the   *)
(* whole row back.                                                         *)
(***************************************************************************)
EXTENDS History

CONSTANTS
    Site,       \* the document in site_states: shell, styles and components
    Scenarios   \* bounds: what may happen, how often, in one run

ASSUME SiteAssumption == Site \in Doc
ASSUME ScenariosAssumption ==
    Scenarios \subseteq [edits : 0..MaxEdits, changes : Nat, mounts : Nat \ {0},
                         faults : Nat, writes : Nat, refreshes : Nat,
                         subscribed : BOOLEAN]

VARIABLES
    budget,     \* the scenario this behaviour is of
    mount,      \* which mounting of the editor is open, 0 for none
    mounts,     \* mountings so far
    subscribed, \* the hook hears of changes: its boot did not fail
    pending,    \* pendingSite
    timer,      \* saveTimer
    flight,     \* for each mounting, the save it awaits and the seq it landed at
    status,     \* saveStatus
    seen,       \* lastSeenSeq
    changed,    \* the notice "This store changed somewhere else"
    skip,       \* skipAutosave
    loading,    \* the document being fetched, and why
    requests,   \* saves on their way to the server or being served, then with the seq read
    stored,     \* site_states.site_json and pages.document
    seq,        \* site_states.seq
    writer,     \* what an agent's edit, or a publish, has read
    faults, writes, refreshes,   \* for the budget
    rev,        \* ghost: changes of the editor's document, numbering snapshots
    landed,     \* ghost: the snapshot stored last
    foreign,    \* ghost: another writer has written
    known       \* ghost: ways to go wrong that are known of

client == <<mount, mounts, subscribed, pending, timer, flight, status, seen, changed, skip>>
server == <<stored, seq>>
counts == <<budget, faults, writes, refreshes>>
ghosts == <<rev, landed, foreign, known>>
vars == <<history, client, loading, requests, server, writer, counts, ghosts>>

Version == [Doc -> Value]
Nothing == [rev |-> 0]
Snapshot == [rev : Nat \ {0}, of : Version]
Idle == [rev |-> 0, answer |-> 0]
Unread == -1
NotLoading == [why |-> "none"]
Known == {"late", "left", "overlap", "raced", "refresh", "torn"}
Mount == 1..budget.mounts

DraftTypeOK ==
    /\ budget \in Scenarios
    /\ mount \in {0} \union Mount
    /\ mounts \in Mount
    /\ subscribed \in BOOLEAN
    /\ pending = Nothing \/ pending \in Snapshot
    /\ timer \in BOOLEAN
    /\ flight \in [Mount -> [rev : Nat, answer : Nat]]
    /\ status \in {"loading", "synced", "connecting", "error"}
    /\ seen \in Nat
    /\ changed \in BOOLEAN
    /\ skip \in BOOLEAN
    /\ \/ loading = NotLoading
       \/ loading \in [why : {"boot", "refresh"}, got : [Doc -> Value \union {Unread}],
                       seq : Nat, rev : Nat]
    /\ requests \subseteq [mount : Mount, rev : Nat \ {0}, of : Version, read : Nat \union {Unread}]
    /\ stored \in Version
    /\ seq \in Nat
    /\ writer = Nothing \/ writer \in [who : {"agent", "publish"}, seq : Nat, site : Value]
    /\ faults \in Nat /\ writes \in Nat /\ refreshes \in Nat
    /\ rev \in Nat /\ landed \in Nat
    /\ foreign \in BOOLEAN
    /\ known \subseteq Known

TypeOK == HistoryTypeOK /\ DraftTypeOK

\* The editor has loaded the site.  (Or it has created one, and saving that
\* failed: it can be edited, and nothing is listening.)
Init ==
    /\ HistoryInit
    /\ budget \in Scenarios
    /\ mount = 1
    /\ mounts = 1
    /\ subscribed = budget.subscribed
    /\ pending = Nothing
    /\ timer = FALSE
    /\ flight = [m \in Mount |-> Idle]
    /\ status = IF subscribed THEN "synced" ELSE "error"
    /\ seen = 0
    /\ changed = FALSE
    /\ skip = FALSE
    /\ loading = NotLoading
    /\ requests = {}
    /\ stored = content
    /\ seq = 0
    /\ writer = Nothing
    /\ faults = 0 /\ writes = 0 /\ refreshes = 0
    /\ rev = 0
    /\ landed = 0
    /\ foreign = FALSE
    /\ known = {}

Later(a, b) == IF a > b THEN a ELSE b
Booting == loading # NotLoading /\ loading.why = "boot"
Admit(kind, condition) == known' = IF condition THEN known \union {kind} ELSE known

-----------------------------------------------------------------------------
\* The editor.

\* A change of the document, or an undo or redo of one: the subscription
\* queues the new site, and starts the 400 ms over.  (Unless a refresh armed
\* the skip while nothing was mounted that would have consumed it.)
ChangeSite ==
    /\ mount # 0 /\ ~Booting
    /\ subscribed => rev < budget.changes
    /\ Change
    /\ edits' <= budget.edits
    /\ IF subscribed
       THEN /\ rev' = rev + 1
            /\ skip' = FALSE
            /\ IF skip
               THEN UNCHANGED <<pending, timer>>
               ELSE /\ pending' = [rev |-> rev + 1, of |-> content']
                    /\ timer' = TRUE
       ELSE UNCHANGED <<rev, skip, pending, timer>>
    /\ UNCHANGED <<mount, mounts, subscribed, flight, status, seen, changed, loading, requests,
                   server, writer, counts, landed, foreign, known>>

InlineEditing ==
    /\ mount # 0 /\ ~Booting
    /\ BreakCoalescing
    /\ UNCHANGED <<client, loading, requests, server, writer, counts, ghosts>>

\* One turn of flushSaves' loop: the pending snapshot leaves the queue and is sent.
Send ==
    /\ pending' = Nothing
    /\ status' = "connecting"
    /\ flight' = [flight EXCEPT ![mount] = [rev |-> pending.rev, answer |-> 0]]

Request == [mount |-> mount, rev |-> pending.rev, of |-> pending.of, read |-> Unread]

\* (Slip: the save under way is not waited for.)
TimerFiresAnyway ==
    /\ mount # 0
    /\ timer
    /\ timer' = FALSE
    /\ IF pending # Nothing
       THEN Send /\ requests' = requests \union {Request}
       ELSE UNCHANGED <<pending, status, flight, requests>>
    /\ UNCHANGED <<history, mount, mounts, subscribed, seen, changed, skip, loading, server,
                   writer, counts, ghosts>>

\* The timer calls flushSaves, which leaves the snapshot to a save under way.
TimerFires ==
    /\ mount # 0
    /\ timer
    /\ timer' = FALSE
    /\ IF flight[mount] = Idle /\ pending # Nothing
       THEN Send /\ requests' = requests \union {Request}
       ELSE UNCHANGED <<pending, status, flight, requests>>
    /\ UNCHANGED <<history, mount, mounts, subscribed, seen, changed, skip, loading, server,
                   writer, counts, ghosts>>

\* (Slip: the loop is left after one save.)
AnswerOnce(m) ==
    /\ flight[m].answer # 0
    /\ seen' = Later(seen, flight[m].answer)
    /\ flight' = [flight EXCEPT ![m] = Idle]
    /\ status' = IF m = mount THEN "synced" ELSE status
    /\ UNCHANGED <<history, mount, mounts, subscribed, pending, timer, changed, skip, loading,
                   requests, server, writer, counts, ghosts>>

\* (Slip: the seq a save landed at is not recorded.)
AnswerUnrecorded(m) ==
    /\ flight[m].answer # 0
    /\ IF m = mount /\ pending # Nothing
       THEN Send /\ requests' = requests \union {Request}
       ELSE /\ flight' = [flight EXCEPT ![m] = Idle]
            /\ status' = IF m = mount THEN "synced" ELSE status
            /\ UNCHANGED <<pending, requests>>
    /\ UNCHANGED <<history, mount, mounts, subscribed, timer, seen, changed, skip, loading, server,
                   writer, counts, ghosts>>

\* A save is answered: its seq is recorded, and the next snapshot goes out.
Answer(m) ==
    /\ flight[m].answer # 0
    /\ seen' = Later(seen, flight[m].answer)
    /\ IF m = mount /\ pending # Nothing
       THEN Send /\ requests' = requests \union {Request}
       ELSE /\ flight' = [flight EXCEPT ![m] = Idle]
            /\ status' = IF m = mount THEN "synced" ELSE status
            /\ UNCHANGED <<pending, requests>>
    /\ UNCHANGED <<history, mount, mounts, subscribed, timer, changed, skip, loading, server,
                   writer, counts, ghosts>>

\* A save fails for the editor: its request is lost, or lands later, or its answer
\* is lost.  The snapshot is not kept; a newer one, if any, is sent at once.
Fail(m) ==
    LET own == {r \in requests : r.mount = m /\ r.rev = flight[m].rev}
    IN  \E lost \in {{}, own} :
            LET others == requests \ lost
            IN  /\ flight[m] # Idle
                /\ faults < budget.faults
                /\ faults' = faults + 1
                /\ IF m = mount /\ pending # Nothing
                   THEN Send /\ requests' = others \union {Request}
                   ELSE /\ flight' = [flight EXCEPT ![m] = Idle]
                        /\ status' = IF m = mount THEN "error" ELSE status
                        /\ requests' = others
                        /\ UNCHANGED pending
                /\ Admit("late", lost = {})
    /\ UNCHANGED <<history, mount, mounts, subscribed, timer, seen, changed, skip, loading,
                   server, writer, budget, writes, refreshes, rev, landed, foreign>>

\* A request nobody awaits (the parting one, or one from before a reload) is lost.
LoseUnawaited(r) ==
    /\ r.rev # flight[r.mount].rev
    /\ faults < budget.faults
    /\ faults' = faults + 1
    /\ requests' = requests \ {r}
    /\ Admit("late", TRUE)
    /\ UNCHANGED <<history, client, loading, server, writer, budget, writes, refreshes,
                   rev, landed, foreign>>

\* useExternalSiteChanges: the seq, fetched every five seconds while the tab is
\* visible, is compared with the last seen when the answer arrives.
Poll ==
    /\ mount # 0
    /\ ~changed
    /\ seq > seen
    /\ changed' = TRUE
    /\ Admit("raced", Booting \/ \E m \in Mount : flight[m].answer # 0)
    /\ UNCHANGED <<history, mount, mounts, subscribed, pending, timer, flight, status, seen,
                   skip, loading, requests, server, writer, counts, rev, landed, foreign>>

\* The editor is left for another admin page: the queued snapshot is sent without
\* waiting for the save under way, and nobody looks at its answer.
Leave ==
    /\ mount # 0 /\ ~Booting
    /\ mounts < budget.mounts
    /\ mount' = 0
    /\ subscribed' = FALSE
    /\ timer' = FALSE
    /\ pending' = Nothing
    /\ requests' = IF pending = Nothing THEN requests ELSE requests \union {Request}
    /\ status' = "loading"
    /\ changed' = FALSE
    /\ Admit("left", pending # Nothing \/ flight[mount] # Idle \/ status = "error")
    /\ UNCHANGED <<history, mounts, flight, seen, skip, loading, server, writer, counts,
                   rev, landed, foreign>>

\* boot, with the site still in the store: it is not loaded again.
Return ==
    /\ mount = 0
    /\ mounts < budget.mounts
    /\ mount' = mounts + 1
    /\ mounts' = mounts + 1
    /\ subscribed' = TRUE
    /\ status' = "synced"
    /\ UNCHANGED <<history, pending, timer, flight, seen, changed, skip, loading, requests,
                   server, writer, counts, ghosts>>

\* The notice's Reload button: a new page, which loads the site anew.
Reload ==
    /\ mount # 0 /\ ~Booting
    /\ changed
    /\ mounts < budget.mounts
    /\ mount' = mounts + 1
    /\ mounts' = mounts + 1
    /\ subscribed' = FALSE
    /\ pending' = Nothing
    /\ timer' = FALSE
    /\ flight' = [m \in Mount |-> Idle]
    /\ status' = "loading"
    /\ seen' = 0
    /\ changed' = FALSE
    /\ skip' = FALSE
    /\ loading' = [why |-> "boot", got |-> [d \in Doc |-> Unread], seq |-> 0, rev |-> rev]
    /\ Admit("left", requests # {})
    /\ UNCHANGED <<history, requests, server, writer, counts, rev, landed, foreign>>

\* An AI conversation of this editor has had the store changed, and the document is
\* fetched to show it.
Refresh ==
    /\ loading = NotLoading
    /\ foreign
    /\ refreshes < budget.refreshes
    /\ refreshes' = refreshes + 1
    /\ loading' = [why |-> "refresh", got |-> [d \in Doc |-> Unread], seq |-> 0, rev |-> rev]
    /\ UNCHANGED <<history, client, requests, server, writer, budget, faults, writes, ghosts>>

\* loadSite fetches the shell, with the seq, and the rows in parallel.
Fetched(d) ==
    /\ loading # NotLoading
    /\ loading.got[d] = Unread
    /\ loading' = [loading EXCEPT !.got[d] = stored[d],
                                  !.seq = IF d = Site THEN seq ELSE @]
    /\ UNCHANGED <<history, client, requests, server, writer, counts, ghosts>>

\* The site replaces the editor's, whatever that has become in the meantime; its
\* history starts anew, and the snapshot in the queue stays there.
Loaded ==
    /\ loading # NotLoading
    /\ \A d \in Doc : loading.got[d] # Unread
    /\ Load(loading.got)
    /\ seen' = Later(seen, loading.seq)
    /\ loading' = NotLoading
    /\ IF Booting
       THEN subscribed' = TRUE /\ status' = "synced" /\ UNCHANGED skip
       ELSE skip' = ~subscribed /\ UNCHANGED <<subscribed, status>>
    /\ Admit("refresh", /\ ~Booting
                        /\ \/ ~subscribed \/ status = "error" \/ rev # loading.rev
                           \/ pending # Nothing \/ requests # {}
                           \/ \E m \in Mount : flight[m] # Idle)
    /\ UNCHANGED <<mount, mounts, pending, timer, flight, changed, requests, server, writer,
                   counts, rev, landed, foreign>>

-----------------------------------------------------------------------------
\* The server.

\* PUT site-document loads the state row, outside its transaction ...
ServerReads(r) ==
    /\ r.read = Unread
    /\ requests' = (requests \ {r}) \union {[r EXCEPT !.read = seq]}
    /\ UNCHANGED <<history, client, loading, server, writer, counts, ghosts>>

\* (Slip: only the document in site_states is saved.)
ServerSaveShell(r) ==
    /\ r.read # Unread
    /\ requests' = requests \ {r}
    /\ stored' = [stored EXCEPT ![Site] = r.of[Site]]
    /\ seq' = r.read + 1
    /\ landed' = r.rev
    /\ flight' = IF flight[r.mount].rev = r.rev
                 THEN [flight EXCEPT ![r.mount].answer = r.read + 1] ELSE flight
    /\ known' = known \union (IF seq # r.read THEN {"overlap"} ELSE {})
                      \union (IF loading # NotLoading THEN {"torn"} ELSE {})
    /\ UNCHANGED <<history, mount, mounts, subscribed, pending, timer, status, seen, changed,
                   skip, loading, writer, counts, rev, foreign>>

\* ... and in it writes the row, with the seq that follows the one read, and the
\* pages.  The editor sends "replace", so save_conflicts looks for none.
ServerSave(r) ==
    /\ r.read # Unread
    /\ requests' = requests \ {r}
    /\ stored' = r.of
    /\ seq' = r.read + 1
    /\ landed' = r.rev
    /\ flight' = IF flight[r.mount].rev = r.rev
                 THEN [flight EXCEPT ![r.mount].answer = r.read + 1] ELSE flight
    /\ known' = known \union (IF seq # r.read THEN {"overlap"} ELSE {})
                      \union (IF loading # NotLoading THEN {"torn"} ELSE {})
    /\ UNCHANGED <<history, mount, mounts, subscribed, pending, timer, status, seen, changed,
                   skip, loading, writer, counts, rev, foreign>>

\* run_apply_edits and PublishSite.call read the state row first ...
WriterReads(who) ==
    /\ writer = Nothing
    /\ writes < budget.writes
    /\ writes' = writes + 1
    /\ writer' = [who |-> who, seq |-> seq, site |-> stored[Site]]
    /\ UNCHANGED <<history, client, loading, requests, server, budget, faults, refreshes, ghosts>>

\* ... and after the sidecar has worked on the page, persist! writes both, and the
\* seq that follows the one read.
AgentPersists(page) ==
    /\ writer # Nothing /\ writer.who = "agent"
    /\ stored' = [stored EXCEPT ![Site] = writer.site, ![page] = Elsewhere]
    /\ seq' = writer.seq + 1
    /\ foreign' = TRUE
    /\ writer' = Nothing
    /\ known' = known \union (IF seq # writer.seq THEN {"overlap"} ELSE {})
                      \union (IF loading # NotLoading THEN {"torn"} ELSE {})
    /\ UNCHANGED <<history, client, loading, requests, counts, rev, landed>>

\* ... or, after the bake, state.save writes the whole row back.
PublishSaves ==
    /\ writer # Nothing /\ writer.who = "publish"
    /\ stored' = [stored EXCEPT ![Site] = writer.site]
    /\ seq' = writer.seq
    /\ writer' = Nothing
    /\ known' = known \union (IF seq # writer.seq THEN {"overlap"} ELSE {})
                      \union (IF loading # NotLoading THEN {"torn"} ELSE {})
    /\ UNCHANGED <<history, client, loading, requests, counts, rev, landed, foreign>>

-----------------------------------------------------------------------------
Next ==
    \/ ChangeSite \/ InlineEditing \/ TimerFires \/ Poll
    \/ Leave \/ Return \/ Reload \/ Refresh \/ Loaded
    \/ \E m \in Mount : Answer(m) \/ Fail(m)
    \/ \E d \in Doc : Fetched(d)
    \/ \E r \in requests : ServerReads(r) \/ ServerSave(r) \/ LoseUnawaited(r)
    \/ \E who \in {"agent", "publish"} : WriterReads(who)
    \/ \E page \in Doc \ {Site} : AgentPersists(page)
    \/ PublishSaves

\* The browser's timers fire, the tab is visible from time to time, and the server
\* and the network answer or fail.
Fairness ==
    /\ WF_vars(TimerFires)
    /\ WF_vars(Poll)
    /\ WF_vars(\E m \in Mount : Answer(m))
    /\ WF_vars(\E r \in requests : ServerReads(r) \/ ServerSave(r))
    /\ WF_vars(\E d \in Doc : Fetched(d))
    /\ WF_vars(Loaded)

Spec == Init /\ [][Next]_vars /\ Fairness

-----------------------------------------------------------------------------
\* When the editor says that all is saved, the store holds what the editor shows,
\* or the seq (or the notice) tells that somebody wrote since.  The known ways to
\* be wrong: leaving with work unsaved or in flight, a refresh over unsaved work, a
\* write that overlaps with another, or with a load.
SyncedMeansSaved ==
    (/\ status = "synced" /\ pending = Nothing
     /\ known \intersect {"left", "refresh", "overlap", "torn"} = {})
        => stored = content \/ seq > seen \/ changed

\* usePersistence.ts:84-85 ("short, serialized REST autosave"): of the snapshots the
\* editor sends, an older one never lands on a newer, except for the one sent on
\* leaving, and one that had been given up.
SavesInOrder ==
    [][known \intersect {"left", "late"} = {} => landed' >= landed]_vars

\* useExternalSiteChanges.ts:68-70: the notice is not about the editor's own writes,
\* unless the poll overtakes the answer of a save, or that answer never comes.
NoticeIsTrue ==
    changed => foreign \/ known \intersect {"raced", "left", "late"} # {}

\* usePersistence.ts:85: what is queued gets to the server, or the editor says that
\* it did not, or the person discards it with Reload; it is never just forgotten.
EditReachesServer ==
    (mount # 0 /\ pending # Nothing)
        ~> (\/ stored = content
            \/ status = "error" \/ Booting
            \/ known \intersect {"left", "refresh"} # {})
=============================================================================
