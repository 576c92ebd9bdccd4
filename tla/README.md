# Formal models of PromptGrimoire

PromptGrimoire is a NiceGUI application with one server process, a PostgreSQL
database and a few background loops. Students annotate texts together in shared
CRDT documents, export them as PDFs and play wargames in teams against a
language model. This directory holds TLA+ models of the parts whose correctness
depends on the order in which things happen, the TLC configurations that check
them on small instances, and proofs, checked by TLAPS, of the invariants that
matter most.

Paths below are relative to `src/src/promptgrimoire/` unless they start with
`src/`. `PROJECT.json` lists the components, the runs, the code each definition
models, the mutants that show each property can fail, the hazards, the findings
and the theorems.

Contents: [1 the system](#1-the-system), [2 modules](#2-modules),
[3 runs and bounds](#3-runs-and-bounds), [4 fairness](#4-fairness),
[5 proofs](#5-proofs), [6 findings](#6-findings),
[7 what is not modelled](#7-what-is-not-modelled), [8 plan](#8-plan).

## 1 The system

### How it runs

All request handlers, page builders and background loops share one asyncio event
loop, so a handler runs undisturbed from one `await` to the next, and anything
may happen at an `await`. Database access goes through `get_session()`
(`db/engine.py`): the transaction commits when the block ends and is rolled back
when an exception leaves it. PDF exports are run by a worker loop, either inside
the application or as a systemd service of its own (`export/worker_main.py`).
Dictionaries in memory are lost when the process ends; browsers reconnect to the
next one and reload.

| Component | State | Operations | Talks to |
|---|---|---|---|
| Admission gate: `admission.py`, `pages/registry.py`, `auth/client_registry.py`, `diagnostics.py`, `queue_handlers.py` | cap, deque, enqueue times, tickets, two token maps, connected clients (memory) | page load, poll, diagnostic cycle (AIMD cap, batch, sweep), kick, reset | every page; browser script of the queue page; pre-restart handler |
| CRDT persistence: `crdt/annotation_doc.py`, `crdt/persistence.py`, `pages/annotation/broadcast.py`, `workspace.py`, `tab_bar.py`, `respond.py`, `highlights.py` | document registry, second registry and dirty marks and timers of the manager, presence (memory); one column per workspace | load and join, edit, debounced and forced save, leave, revoke, evict, save before restart | database; other tabs by broadcast; restart handlers |
| Respond editor and relay: `static/milkdown/src/index.js`, `pages/annotation/respond.py`, `broadcast.py`, `pages/restart.py` | a Y.Doc per browser; the shared draft and its markdown mirror on the server; which clients have an editor | start the editor, type, relay, catch up, mirror, flush, close | CRDT persistence (saves the draft); PDF export and search (read the mirror) |
| Text, selections, highlights: `static/annotation-highlight.js`, `input_pipeline/text_extraction.py`, `pages/annotation/document.py`, `highlights.py`, `broadcast.py` | selection and drawn ranges per browser; selection per page; presence; the list of highlights | select, clear, add a highlight, draw, arrive, leave | sidebar; CRDT persistence; other tabs by broadcast |
| Annotation sidebar: `static/annotationsidebar.js`, `pages/annotation/sidebar.py`, `document.py` | items, expansion, drafts and card positions per browser; expansion per page; comments and references | expand, tag, comment, delete, edit a reference, refresh, lay out | document; other tabs by broadcast |
| Organise tab: `elements/sortable/sortable.js`, `pages/annotation/tab_bar.py`, `organise.py`, `crdt/annotation_doc.py` | columns per browser; tag of each highlight and ordered lists in the document | drag, render, broadcast, edits from other tabs | document; other tabs by broadcast |
| Idle eviction: `static/idle-tracker.js` | timers, modal, last interaction (browser) | interaction, poll, countdown, visibility, clean-up | the server only by leaving the page |
| Turn cycle: `db/wargames.py` (752-1348), `deadline_worker.py`, `wargame/turn_cycle.py` | team rows: round, state, deadline; messages | start, lock, preprocess, publish, deadline | language model; deadline worker and facilitators share the rows without locks |
| Export queue: `db/export_jobs.py`, `export/worker.py`, `export/download.py` | job rows, output directories | create, claim, complete, fail, clean up, download, fail orphans | page that polls; service manager; export pipeline |
| Search worker: `search_worker.py` | `search_dirty`, `search_text` columns | poll, extract, write | rows written by CRDT saves |
| Team permissions: `db/wargames.py` (71-747), `wargame/roster.py` | ACL rows of teams | grant, revoke, roster import | turn cycle (teams) |
| Tags and documents: `db/tags.py`, `db/workspace_documents.py`, `pages/annotation/tag_*.py` | rows, and the same data in the live document | create, update, reorder, delete, import | CRDT persistence |
| Workspaces, access, courses, enrolment: `db/workspaces.py`, `db/acl.py`, `db/courses.py`, ... | rows | CRUD, clone, place, share, resolve | all pages |
| Pipelines: `export/*`, `input_pipeline/*` | none | pure functions | export worker, uploads |

The complete list, with everything that is not modelled and the reason, is under
"components" in `PROJECT.json`.

### What is hard about it, and what should hold

*Admission.* Five dictionaries describe one thing, who waits and who may come in,
and are updated separately by five handlers; the state disappears at a restart
while browsers go on polling. It is correct if the dictionaries stay consistent,
nobody loses a place or a valid ticket, the order is first in, first out, the cap
is respected by every batch, and everyone who waits is eventually told something.

*CRDT persistence.* Loading has awaits between reading the row, looking for a
registered document and registering a new one; leaving has one between deciding
to be the last and evicting; saving has one between encoding the state and
removing the dirty mark; each save overwrites the whole column; and each key
press cancels the save that was due, perhaps after its commit. It is correct if
all tabs edit one document, the document stays while someone is there, what is
not saved is known to be unsaved, and nothing that was saved is lost.

*Respond editor.* Every browser runs a script with a state that was read some time
ago, and joins the relay only when it reports that it is ready; what it was sent looks
to its observer like typing; a cloned draft is planted by every browser that finds the
draft empty. It is correct if nothing is sent back, nothing between the script and the
report is missed, no operation arrives before one it builds on, and everybody ends up
with the same draft.

*Text, selections, highlights.* Two walks in the browser and one on the server number
the same characters, with collapsed spaces, skipped elements and breaks. Selections,
highlights, arrivals and departures are pushed separately and cross. It is correct if a
highlight covers the text that was selected, one selection makes one highlight, and a
browser that has received everything shows what the server knows.

*Sidebar and Organise tab.* The browser changes at once and the server follows;
refreshes that were computed before an event arrive after it. The page that drops a
card is not rendered again. An index counts the cards on a screen and is applied to a
list that may hold other names. They are correct if a page at rest shows the document,
no input is applied twice, and a position means the same on both sides.

*Idle eviction.* Timers of a hidden tab fire late, and not at all while the computer
sleeps. It is correct if nobody who is looking is sent away unwarned, and a tab nobody
returns to is sent away.

*Turn cycle.* A facilitator's calls and the deadline worker work on the same rows
without locks, with AI calls of many seconds between reading and writing, and
each team may fail alone. It is correct if a team enters a round only with a
response to the previous one, teams that did not fail stay together, and every
open round ends.

*Export queue.* A job lives in a row, a directory and the memory of a worker that
may stop anywhere, and the row may be deleted with its workspace. It is correct
if no job looks as if it ran when nothing runs it, a valid link leads to a file,
and every job ends.

## 2 Modules

| Module | What it is |
|---|---|
| `TicketQueue` | abstract: one line, tickets for its head, and a house |
| `Admission` | the admission gate; implements `TicketQueue` |
| `DurableDocument` | abstract: one document, the part of it that is stored, the part acknowledged |
| `CrdtPersistence` | the document of one workspace: loading, saving, evicting; implements `DurableDocument` in a calm world |
| `SharedDraft` | abstract: one draft and a view of it in each editor |
| `EditorRelay` | the Respond editors and the relay between them; implements `SharedDraft` |
| `TextOffsets` | pure: offsets of a document, in the browser and on the server |
| `Selection` | selections, highlights and presence, over `TextOffsets` |
| `Sidebar` | the annotation cards of a document |
| `Organise` | the columns of cards per tag |
| `IdleTracker` | the eviction of an idle tab |
| `TurnCycle` | one wargame activity with its deadline worker |
| `JobTable` | abstract: one line of jobs, of which one is worked on |
| `ExportQueue` | the job table, the worker and the files; implements `JobTable` |
| `MC...` | an instance of each state machine for TLC |
| `AdmissionProofs`, `CrdtPersistenceProofs`, `EditorRelayProofs`, `SelectionProofs`, `SidebarProofs`, `IdleTrackerProofs`, `TurnCycleProofs` | theorems |
| `OrganiseExportProofs` | theorems about `Organise` and, apart from these, about `ExportQueue` |

Components that meet do so through the document. The relay, the selections, the
sidebar and the Organise tab each change a part of it that the others do not read back
(the draft; the list of highlights; tags, comments and references; the ordered lists),
and each handler ends in the same save, which is `CrdtPersistence`: there the document
is the set of edits it received, whatever these were. So each module takes the others'
steps as its environment: another tab that adds or removes a highlight is an action of
`Organise`, a departure is an action of `Selection` and of `EditorRelay`. The admission
gate only decides whether a page load happens, the rows of the wargame and the export
jobs are not in the document.

### Admission and TicketQueue

| Variable | Code |
|---|---|
| `cap`, `queue`, `tokens`, `userTokens` | `AdmissionState.cap`, `_queue`, `_tokens`, `_user_tokens` |
| `waited` | `_enqueue_times`, as the time since; `None` where there is no key |
| `tickets` | `_tickets`, as the time left; negative when expired |
| `registry` | `client_registry._registry`, as a number of clients per user |
| `ready` | `init_admission()` has run |
| `polling` | tokens for which a queue page is open in a browser |

A handler has no await between its first read and last write of these, so each
is one action. `Visit` is the gate in `page_route`: `VisitUngated` (already
connected, or no admission state yet), `VisitAdmitted` (ticket, privilege or
room; `try_enter` has removed a ticket in any case) and `VisitQueued` (`enqueue`,
whose two branches for known and new users are in `Enqueue`). `Cycle` is one
round of the diagnostic loop: `update_cap`, `admit_batch` and `sweep_expired` in
this order. `PollAnswered` is the status endpoint when it answers something other
than "keep waiting", with what it deletes on the way; polls that change nothing
are no step. `CloseClient` and `DisconnectUser` are `deregister` and the kick of
a banned user. `Clear` and `Restart` are the pre-restart handler and the end of
the process. Times are distances from now that stop one step past the last
threshold; the module knows event-loop lag as low, in between or high, which is
all `update_cap` distinguishes.

`TicketQueue` is what users are promised: they wait in one line that is served from the
front, a ticket serves once, and only who finds no room joins. It has no tokens, no
dictionaries and no clocks; any ticket may lapse and anybody may give up the place at
any time. The gate is up when `ready` and `Enabled`, the line is `queue`, the holders
are the users in `tickets` and the users inside those in the client registry. `Visit` is `Enter`, `Join`
or `Lapse` (a ticket that `try_enter` removed), a cycle is `Admit`, `Clear` and
`Restart` are `Reset`, and the endpoint that deletes the token of an admitted user is no step.

### CrdtPersistence and DurableDocument

| Variable | Code |
|---|---|
| `crdt_state` | the column of the workspace row |
| `content` | the edits held by each document object |
| `documents` | `AnnotationDocumentRegistry._documents` |
| `docRegistry`, `dirty`, `timer` | `PersistenceManager._doc_registry`, `_workspace_dirty`, `_workspace_pending_saves` |
| `saves` | calls of `save_workspace_crdt_state` that have not returned, with what they write |
| `presence` | `_workspace_presence` |
| `pc`, `row`, `doc` | per tab: how far its page load is, the row it fetched, the document it holds |
| `gone`, `leaving`, `last` | deleted tabs whose load goes on, whose departure awaits a save, and which of these were the last client |
| `made`, `saved` | history: edits made, and edits shown as "Saved" |
| `late` | history: edits made while a save was in flight that had read the document before and will not read it again |

A document is the set of edits it has received. This is what a grow-only CRDT is
to the questions asked here: merging is union, and a saved state is the set that
was encoded. A step runs from one await to the next. A page load is `Fetch` (the
row and the headers), `BeginLoad` (registered document, or a new one from the row
that was fetched, `LoadedFrom`: a row that cannot be read or applied is logged and gives an
empty document, in worlds with `Failures`), perhaps `RepairTags` (the tag consistency check found
something and saves), `FinishFirstLoad` (registers the document whatever was
registered meanwhile, then joins the presence), then the same once more for the
tab panel, which reads the row itself. `Type` is a key press with its debounce,
`Annotate` a highlight or comment with its forced save, `TimerFires` and
`SaveReturns` are the two halves of a save. `Leave` is `_handle_client_delete` up
to its await; `SaveReturns` of a save of kind "leave" is the rest of it, with the
eviction. `Revoke` is the removal of a client whose access was withdrawn.
`PersistAll` is the flush by the pre-restart handler or the shutdown handler,
`Stop` the end of a process whose shutdown handler had nothing to write, `Crash`
any other end.

Cancelling a task that awaits a commit leaves open whether the row was written:
`Cancelled` takes either. A behaviour happens in one of the `Worlds` of its instance,
chosen at the start and never changed (`world`): whether page loads overlap with each other, with
departures, saves and revocations (`Overlap`), whether concurrent saves commit in the order they
were started (`InOrder`), whether saves, and the reading of a row, may fail (`Failures`), the
tag check may find something (`Drift`), the server be restarted (`Restarts`) or die
(`Crashes`), and how many edits are made. A property that does not hold in a rough world
names the worlds it is for: `DirtyUntilWritten` is for all of them, `OneDocument` and
`UnsavedIsDirty` for those without `Overlap`, `SavedMeansDurable` for `Calm` ones
(without overlap, failures and repairs, and with saves in order), `RowNeverForgets` for
`Calm` ones and for a tab that types `Alone`.

`DurableDocument` is what saving promises: every open page shows the one document, a
part of it is stored and never shrinks, what was acknowledged is stored, and what is
not stored is at risk with the last departure and the end of the process only. It has
no registries, marks, timers or tasks. The pages that are open are those with `pc`
"ready", `acked` is `saved` and `stored` is `crdt_state`. The document (`Latest`) is
the registered one; while none is, it is what the last save in flight will write, and
without one the row.

### EditorRelay and SharedDraft

| Variable | Code |
|---|---|
| `draft`, `mirror` | `response_draft` and `response_draft_markdown` of the document |
| `presence`, `editors` | `_workspace_presence`, and in it `has_milkdown_editor` |
| `page` | per browser: closed, page open, editor starting, creating, ready or failed |
| `start` | the state and the seed text in the script that starts the editor |
| `ydoc` | `window.__milkdownYDoc` |
| `up`, `down` | messages between a browser and the server, in order |
| `needs` | history: what the author's document held when an operation was made |

A document is the set of Y.js operations it has received (a deletion is an operation
too), and a markdown text is the set it was rendered from. `OpenRespond` is
`render_respond_tab` with the script of `_build_editor_init_js`; `CreateEditor`, `EditorCreated` and
`EditorFails` are the two halves of `createEditor` in the bundle, with the observer that is
attached before the seed is planted; `Edit` is typing, `ApplyRemote` a relayed update;
`HandleReady` is `_handle_editor_ready` with the state it sends to catch up; `HandleUpdate`
merges, replaces the mirror and relays; `FlushNow`, `FlushMilkdown` and `HandleFlush` are
the exchange before a restart; `ClosePage` and `DeleteClient` are the two ends of a
departure, between which messages of the closed page may or may not arrive.
`OnUpdate` is the observer, with the test of the origin that stops the echo.

`SharedDraft` is what the Respond tab promises: operations are posted, accepted into
one draft and learned by views, and nothing else happens to them. The mapping takes the
updates under way to the server as what is posted and the Y.Docs as views.

### TextOffsets and Selection

`TextOffsets` has the document as a tree of nodes with texts. `countCollapsed`,
`findLocalOffset`, the walk (`Walked`, `Breaks`, `CharsOf`, `startChar`) and the boundaries between
elements are those of annotation-highlight.js (`OffsetsOf` from a range to offsets and
`charOffsetToRange` back). The server has a walk of its own, that of text_extraction.py:
`Reached` (which elements it enters), `_collapse_text_node` (what it makes of a text) and
`document_chars`, the list it builds, of which `SliceOf` cuts out the same offsets. Nothing
is shared between the two but the document. Each has its own class of whitespace
(`Spaces` and `_WHITESPACE_RUN`), and a text has code points, of which an emoji (`Astral`)
is two UTF-16 units: the browser's walk counts the former, its functions that look into a
text the latter (`Units`). `Covered` is the reference: the characters a range covers, by
definition.

| Variable of `Selection` | Code |
|---|---|
| `live`, `stored`, `clicked` | `window.getSelection()`, `_lastAnnotSelRange`, the timer of the click listener |
| `functions`, `pending` | per browser: annotation-highlight.js has loaded; scripts begun and not done, an init that waits for its onload and replays that poll |
| `ready`, `drawn`, `remote`, `styles` | per browser: listeners set up, `CSS.highlights`, and the style elements of the others' selections |
| `behind`, `missed` | history: the latest push of highlights came before init had run, or was undone by it; the clients of whom the latest word came too early or was overtaken |
| `up`, `down` | events and scripts |
| `selection`, `adding` | `PageState.selection_start/end`, `processing_highlight` with how far `_add_highlight` is |
| `present`, `presence` | `_workspace_presence`, the clients and their selections |
| `highlights` | the highlights of the document |
| `page`, `doc`, `emitted`, `inputs` | whether the tab is open; the document; history of reports and of inputs |

`SelectionChange`, `Collapse`, `MouseUp`, `Click`, `ClickSettles` and `PressTag` are the
listeners; `RunScript` is a script that arrives: an init, which adds a script tag and waits
for its onload with the list of the time it was sent; a draw or a hide, which fails while the
functions are not defined; a show, which a `typeof` guard skips then; a replay, which polls. `LoadFunctions`,
`RunPending` and `StopPolling` are the loading of the file, the onload and the polls of 50 ms, in any
order, and the end of the polling after five seconds. Whether the script tags
came with the page is open in `OpenPage`. On the
server `HandleEvent` takes the next event; adding a highlight is `AddHighlight`, `HighlightPersisted`
and `HighlightBroadcast`, one per await; `OpenPage`, `RenderPage` (with the replay of
presence) and `DeleteClient` are arrival and departure.

### Sidebar

`page` is the Vue component (items, expanded and built cards, drafts, references being
edited, whether the text is drawn and shown, positions, and whether a frame is due),
`doc` the highlights with their tag, reference and comments, `expanded_cards` the
server's set for each page, `up` and `down` events and pushes that cross, `owed` the
refreshes that handlers still owe while they await their save. User actions are the
methods of the component; a paragraph reference finishes once by Enter or by the loss of the
focus, or twice (`FinishParaRefEdit` with `again`). `Frame` is `positionCards`.
`HandleEvent` calls the `_on_*` handler of the event; `refresh_from_state` pushes.

### Organise

`tag` and `order` are the document's two maps, `columns` and `shownGen` what a browser
shows, `gen` the rendering whose elements the server knows: an event of an older one is
dropped by NiceGUI (`OnSortEnd`). `Drop` is SortableJS moving the card and sending the
event; `ApplySortReorderOrMove` is the handler, with `move_highlight_to_tag` and the
reordering within a column; `ListedInSomeOrder` and `exact` are how initial states and
`StoredAsShown` say what the lists name. `HandleRemoteUpdate` renders the other pages,
`OpenTab` renders on a visit, `Edit` is whatever a source tab does to highlights.

### IdleTracker

Time passes in seconds (`Second`); a timer that is due fires before the next one when
the tab is in view, and late or not when it is `hidden`; `Sleep` lets the clock jump.
`elapsed` is `getElapsed()`, `poll` and `countdown` the time left on the timers,
`warningModalShown` and `modalEl` the modal, `leaving` that `/paused` was asked for and
`Unload` that it came. `warned` and `attended` are history, for the properties.

### TurnCycle

| Variable | Code |
|---|---|
| `current_round`, `round_state`, `current_deadline` | columns of `wargame_team` |
| `responses` | assistant messages, as pairs of team and round |
| `call` | per caller: the service it is in, the teams still to do, and what it read |
| `overtaken` | history: the publications since whose reading another one, or a start, committed |
| `crashes` | counter for the bound |

Services that await the AI are split at the await: `start_game` and
`run_preprocessing` begin with their precondition (`StartGame`,
`RunPreprocessing`) and then take team after team (`NextTeam` reads the row and
skips a team answered in `RoundToAnswer`, round 1 for a start; `StoreResponse` commits;
`RollBack` and `MarkErrored` are the failure and the second session that records it, or
fails as well, which is logged and changes nothing). `publish_all` is `Publish`,
the completion gate and the rows it read, and `CommitPublish` or `AbortPublish`
after the summaries; it computes the new rounds from the ones it read. Transactions without an AI call (`lock_round`, the locking
half of `on_deadline_fired`) are short and taken as one step. `Poll`,
`FireDeadline` and the worker's own `RunPreprocessing` are the deadline worker:
the query, the lock and the AI calls are three sessions. The user and the
assistant message of a round are inserted together and their sequence number is
unique, so a second insertion fails and rolls back; this is the guard of
`StoreResponse`. A column read with the value it is to receive is not in the
UPDATE that SQLAlchemy emits, which `StoreResponse` respects.

### ExportQueue and JobTable

`status`, `user_id`, `pdf_path` and `created` are the rows in order of creation,
`expired` those older than 24 hours, which is both the validity of a token and
the age for clean-up. `disk` is the set of output directories, `worker` and `job`
say what the worker does, `swept` is the list of directories it still has to
remove after the rows are gone. `logged` is history, the jobs of which this worker has
logged that their iteration raised, and so is `cleared`, the directories that
went with a stop.

`Claim` is `claim_next_job` (oldest queued job). The directory is made afterwards and
outside the `try` of `_process_job` (`MakeDirectory`); where that fails, or the commit of the claim
raised, the loop logs it and goes on with the row "running" (`LoseClaim`). `Complete`,
`Fail`, `GiveUp` and `RemoveOutput` are the ends of `_process_job`. With `DbFailures`, the
commit of `complete_job` may raise although it took effect, and the job goes the way of a
failed one (`worker` "failing"); and `fail_job` may raise too, which the loop logs
(`GiveUp`). `DeleteExpired` and `RemoveExpired` are the two halves of
`cleanup_expired_jobs`; `StartWorker` fails all orphans, `StopWorker` is a
cancellation, a kill or a crash at any point, and `CascadeDelete` the deletion of
the workspace or user. With `PrivateTmp` a stop takes the directories along, as the unit
file does (`src/deploy/promptgrimoire-worker.service:45`).

`JobTable` is what a user sees: jobs wait in the order of their creation, one per user
and one at a time is worked on, its result is offered and later withdrawn; or it gets
stuck, and blocks its user until it is dropped. There is no worker that could be down and
there are no directories: the jobs waiting are the queued rows, the job worked on is the
running one that was not given up, stuck are those that were, and those offered are the ones
`download_export` would serve.

## 3 Runs and bounds

Every property of a passing run has a mutant of the code under which the same run
finds it violated; the mutants are the definitions marked "Mutant" just before the
one they change.

| Run | Instance | Distinct states | Result |
|---|---|---|---|
| `admission` | 3 users (1 privileged, early), cap 1 to 2, queue timeout 2 | 7,400 | pass |
| `admission_returning` | 4 users, cap 1 | | violated, see [6](#6-findings) |
| `crdt_peers` | 2 tabs, 3 documents; 1 edit in a rough world, 3 in one without overlap and in a still one | 1,671,761 | pass |
| `crdt_typing` | 1 tab, 3 typed edits, overlap, saves in any order | 336 | pass |
| `editor_relay` | 2 browsers, 1 edit and 2 seeds of a cloned draft, restarts | 58,268 | pass |
| `idle_tracker` | timeout 10 s, warning 6 s, 4 s beyond | 5,526 | pass |
| `selection` | 2 tabs, 5 scenes over 4 documents, 2 reports, 3 inputs | 2,560,695 | pass |
| `sidebar` | 2 pages, 2 highlights, 2 to 4 inputs | 661,221 | pass |
| `organise` | 2 pages, 3 highlights, 2 tags, up to 3 drags | 1,632,357 | pass |
| `organise_order` | 1 page, 3 highlights, 1 drag | | violated, see [6](#6-findings) |
| `turn_cycle` | 2 teams, 1 facilitator, worker, 3 rounds, 1 crash | 179,570 | pass |
| `export_queue` | 2 users, 3 jobs, failing commits, private `/tmp` | 293,862 | pass |

*admission* checks that the types, the deque with the dictionary of times, and the
two token maps with the places agree (`BooksAgree`, of `TypeOK`, `QueueMatchesTimes` and
`TokensMatchPlaces`), that a place is only lost to a ticket, the timeout or a reset and a
valid ticket only spent on its holder's entry (`ClaimsKept`), the order
(`FirstInFirstOut`), that a batch respects the cap (`BatchFitsCap`), and that queue pages,
places and tickets all come to an end (`EveryWaitEnds`). Two ordinary users may wait while
a privileged one, whose page may also load before the start-up hook, is connected: the
smallest case in which order, tickets and room interact and both ways past the gate are
used. The cap moves between 1 and 2, so that a batch may have one or two users. The queue
timeout exceeds the validity of a ticket, as in the default configuration, so that tickets
expire while others still wait. As many tokens as ordinary users suffice, since a
user has one token at a time. No symmetry is used, since it is not sound for liveness.

`FirstInFirstOut` has one exception, the one the code's own docstring makes: a user who
comes back with an expired ticket may be put in front. *admission_returning* asks whether the
gate does that (`ReturnsInFront`), and TLC finds that it never does. It
has a user more, so that others wait when the ticket holder comes back.

*crdt_peers* has three worlds. The rough one has everything the environment may do:
overlapping loads, departures and revocations, failing saves and reads, saves that commit in the
wrong order, repairs, restarts and crashes; what survives is `DirtyUntilWritten` and
`TypeOK`, which says that the two registries always hold the same document. A single
edit suffices for these, which speak about marks and references and not about which
edit is where. In the second (`Apart`) only the overlap of loads and departures is taken
away: with three edits by typing and annotating tabs, saves that are cancelled, fail or
overtake each other, restarts and crashes, `OneDocument` and `UnsavedIsDirty` hold. The
still one has, besides, saves that succeed in order, and there `SavedMeansDurable` holds as well.
The distinctions are needed: with overlap TLC finds two tabs with different documents and
an eviction under a joining tab, with failures an edit that is shown as saved and is not.
Three documents are one more than two tabs can refer to, which makes a fresh one always
available; three edits allow one that is saved, one in flight and one that is new.

*crdt_typing* has one tab with everything that may overlap a single writer, and
checks `RowNeverForgets` and `EveryEditSaved`. One tab suffices
because the debounce is per workspace and cancels without asking who typed.

*editor_relay* checks `NoEcho`, `CausallyClosed` (of every document and of the mirror),
`Converging`, `EveryEditShown` and that the relay implements `SharedDraft` with its fairness
(`ImplementsSharedDraft`). Both browsers may plant the markdown of the clone, so
there are three operations, enough for one that is merged, one that is under way and
one that builds on another. Browsers close and come back without bound.

*idle_tracker* checks that who attends to a tab is warned in time (`WarnedBeforePause`),
that a tab in view is sent away on time (`PausedOnTime`) and that an abandoned one is
sent away in the end (`AbandonedIsPaused`). The timeout is not a multiple of the poll
interval (3 s), so that polls fall on either side of the limits.

*selection* checks for every pair of boundary points of four document trees, with runs of spaces,
breaks at the start and the end of blocks, skipped elements, nested lists, white space
between blocks, emoji, and characters that only one side takes for white space, that the
two walks give each character the same number and that the offsets a browser reports
select on the server, and draw in every browser,
exactly what the range covers (`OffsetsAgree`), and the same of every highlight made. Excepted
are what the two sides do count differently: documents with a character that is white
space on one side only, as far as the server is concerned, and ranges that begin or end in a text with an
emoji ([6](#6-findings)). It also checks
`OneHighlightPerSelection`, `SettledShown` (a browser that has received everything and
whose scripts have run draws the highlights of the document and the selections of those
present, unless the last push or word came while annotation-highlight.js was loading; then it
draws a former list, never a highlight that is not in the document) and
`SelectionIsCurrent`. Two tabs are an author and a viewer, in either role; two reports
are a selection that becomes a highlight and one made meanwhile; three inputs allow two
presses of a tag key and a click between them.

*sidebar* checks `EachCommentOnce` (a comment is a draft, or on its way, or posted, and
only one of these), `SettledPage` (a page at rest shows the document; its cards are at
their text or pushed down by the card right above, and do not overlap) and `TypeOK`,
which includes that an expanded card has its details built. One page takes four inputs;
two pages share a highlight for three, or both for two. The second highlight starts
where the expanded card of the first still is.

*organise* checks `SettledColumns` (every highlight has its card in the column of its
tag, and no card is of a removed one) and `StoredAsShown` (the order stored is the order
shown, if the tab was rendered from complete lists and nobody else changed the
document). One page drags three cards up to three times; two pages have two drags and
an edit that cross. *organise_order* is the same page without that condition.

*turn_cycle* checks `TypeOK`, `RoundsAreAnswered`, `TeamsStayInStep` and
`EveryRoundEnds`. Two teams are needed to differ, three rounds to publish twice, of
which the second publication starts from states the first one produced; one crash may
fall anywhere. Calls are not serialised, not even those of different facilitators, and a second
facilitator is what makes locks, retries and publications overlap. The run has one, since with
two the graph is too large for liveness; `MCTurnCycleTwo.cfg` is the same module with
two facilitators, two rounds and no crash, in which TLC finds the three safety
properties satisfied in 1.4 million states up to symmetry. That a publication was not overtaken, which
`TeamsStayInStep` asks for, is needed there: without it TLC finds a second start that brings a team, which failed in the first, into
round 1 while a publication of the others awaits its summaries, and is left behind. The safety properties are proved for any number of facilitators ([5](#5-proofs)).

*export_queue* checks `TypeOK` (with at most one active job per user),
`RunningIsProcessed`, `ValidTokenServed` and `EveryJobEnds`. Two users and three jobs
give a job that is running, one that is queued behind it and a third that is created
after one of these ended. Stops of the worker are unbounded. Commits may raise, before
or after they took effect, a directory may not be made, and each stop takes the files
along as in the shipped unit. The exceptions this makes necessary are in the properties: a job whose failing
iteration was logged stays "running" until the worker is started again, and a file may have gone
with a stop ([6](#6-findings)).

Deadlock is checked in the admission runs. In the others the system really stops: every
edit, input or drag within the bound has been made and saved, the tab has been left,
every round and every job is over.

Bounds, all named constants: `MaxCap`, `MaxClients`, `QueueTimeout`, `TicketValidity`
(Admission); the sets `Clients`, `Edits`, `DocIds` and the edits of each world
(CrdtPersistence); `Edits` (EditorRelay); `MaxEmits`, `MaxInputs`, `Documents`
(Selection); the inputs, pages, highlights, drags and edits of each scene (Sidebar,
Organise); `Horizon` (IdleTracker); `MaxRound`, `MaxCrashes` (TurnCycle); `MaxJobs`
(ExportQueue).

## 4 Fairness

*Admission.* Weak fairness of `Start`, `Cycle` and `Tick`: the start-up hook runs, the
diagnostic loop is never left (an exception in one round is logged and the loop goes
on) and time passes. Strong fairness of `PollAnswered`: the page's
script calls itself again after five seconds whether the call succeeded or not, so it
is not starved by a server that restarts now and then. Users owe nothing: they may
never load a page, close one or return.

*CrdtPersistence.* Weak fairness of what the event loop resumes: a sleep that is over,
a query that is answered, the steps of a page load. Users need not leave or type.

*EditorRelay.* For each client, weak fairness of what its browser does on its own
(`Browser`: start the editor, take the next message) and of the server's handlers for its
messages (`Handlers`): scripts run and events of a connection are handled one after the
other. Users owe nothing, and neither does the deletion of a client whose page is
closed. The fairness of `SharedDraft`, that what is posted is accepted or lost with
its author, follows in TLC from this.

*IdleTracker.* Weak fairness of the clock, of a timer that is due (browsers throttle the
timers of hidden tabs, they do not stop them; a computer that sleeps may wake) and of a
navigation that was asked for. Users owe nothing.

*TurnCycle.* Weak fairness of `Expire`, `Poll`, `FireDeadline` and of the worker's
own steps: deadlines pass, the worker is restarted and polls, an AI call answers or
fails. Facilitators owe nothing, so `EveryRoundEnds` holds although none of them ever
locks a round.

*ExportQueue.* Weak fairness of `StartWorker` (the service manager restarts it), of
`Claim`, of making the directory or failing to, and of the end of what the worker has
begun: an export is ended by its timeouts. Stops are not fair. A worker that is stopped
for ever before it can claim still fails the waiting jobs each time it starts, so every
job ends, unless the worker logged that it could not record the end.

*Selection, Sidebar, Organise* state no liveness: their properties are about pages that
have received everything, which needs no fairness.

## 5 Proofs

TLAPS checks the following for every value of the constants that satisfies the
assumptions in the modules. All proofs go down to the leaves; no fact is assumed
except the ASSUMEs, which TLC evaluates in the runs. Each module has one lemma for each
action (`Next` is split once, at the end) and states apart from these what the operators on
sequences and functions do. An invariant that is not inductive is strengthened; what is added
is named here, because it is what the code relies on without saying so.

*AdmissionProofs* (`BooksNeverDisagree`, from `Consistent`, with its parts `TypeCorrect`,
`QueueNeverDesynced`, `TokensNeverStale`; `QueueIsFair`, `ClaimsAreKept`, `BatchesFitCap`;
`RefinesTicketQueue`), for any users, tokens, sizes and lags. `IInv`
is `TypeOK`, `QueueMatchesTimes` and `TokensMatchPlaces` together. Neither of the last
two is inductive alone: `enqueue` may only append a user because a user without a token
neither waits nor holds a ticket (`TokensMatchPlaces`), and the sweep removes the
right tokens because the token maps are inverse to each other. The lemmas about the
sequence operators are `RankBijection` and
`PurgedProperties` (the rebuilt deque holds the users that are not swept, each once),
`TailProperties` (a batch taken from the head) and `AppendedProperties` (one user
added at either end). The consequence for the code: the branch
"admission_queue_desync" of `get_queue_status` is never taken.

The three action properties follow from `IInv` and from what a step does to the order:
every action but the cycle and the resets leaves the line as it is or lets one user join at
its end, grants nothing and takes a valid ticket from nobody but whoever enters
(`OrderlyStep`); the cycle takes a batch from the head and then drops the timed-out users
without changing the order of the others (`CyclePlaces`). `BatchesFitCap` counts: a batch
has as many users as entries, since no user is in the deque twice.

`RefinesTicketQueue` maps each action to one of `TicketQueue` or to a stutter (`VisitEnters`,
`VisitJoins`, `PollImplements`, `CycleImplements` and so on). That the deque, the
enqueue times and the tickets are one line and one set of holders is `IInv`; that a
cycle leaves a line of those who stay, in their order and behind the batch, is `PurgedInOrder`.
Where the gate is down there is no line and no ticket (`NobodyAtClosedGate`), so a cycle then
does nothing but move the cap. The abstract
`Admit` has the bound of `BatchFitsCap` as its guard: a step that gives out too many tickets
implements nothing.

Assumptions: the
sets are finite, `InitialCap`, `BatchSize` and `MaxClients` are positive, `None` is not
a user, token or number.

*CrdtPersistenceProofs* (`TypeCorrect`, `StaysDirty`, `ShareOneDocument`, `SavedIsDurable`,
`UnsavedStaysDirty`, `RowOnlyGrows`, `RefinesDurableDocument`), for any finite number of clients and documents and any
edits. There are four invariants: one for all worlds, and for three kinds of world one that rests on it.

- `IInv` holds in every world. Besides types it says that the two registries hold the same
  document (`Docs`), that every client that departs awaits exactly one save (`Departures`), that
  at most one debounced save is in flight, and only while the timer is "saving" (`Timers`), that
  every page being served has a document (`HasDocument`) and that a client departs only once its
  page is out, or while its load goes on without it (`GoneLoads`). `StaysDirty` follows.
- `ApartInv` holds where loads and departures do not overlap, whatever becomes of saves and
  reads. `OneAtATime` says that loads and departures exclude each other; `Shared` that everybody who was
  served a document was served the registered one, and that a document which is created, and not
  registered yet, holds no more than the row and every save in flight; `Covered` that no save in
  flight misses an edit outside `late`, and that those of them that the row misses are
  marked. `ShareOneDocument` and `UnsavedStaysDirty` follow. `late` is needed: a forced
  save and a flush encode the document before they await, and take the mark of a
  later key press away when they return.
- `CalmInv` holds in worlds without overlap, reordering, failures and repairs. Its centre is
  `Chain`: the row, then the saves in flight in the order they were started, then the
  registered document, each holding all that those before it hold. `Served` says that a document
  which is created equals a row that no save is about to change, `EditsKept` that the save of an
  annotation holds it. `SavedIsDurable` follows.
- `AloneInv` holds for one tab that types, with overlap and reordering. There is one
  content, `Held`, that of the registered document, or of the row while none is registered. Every
  save in flight and every page served has it (`SavesHeld`, `PagesHeld`), although there may be
  several document objects; and the row is behind it only while the mark is set (`Behind`).
  Saves may commit in any order because they all write the same: a key press cancels
  the debounced save of the document it changes, and no other save is in flight while one tab types.

`RowOnlyGrows` takes its steps from `CalmInv` and `AloneInv`. The lemmas about the list of saves
(`RemoveAtFacts`, `AppendFacts`, `WithoutTimerCases` and their consequences `...Departing`, `...OneTimer`,
`...Rising`) say what a save that starts, returns or is cancelled does to each of
these. Assumptions: clients and documents are finite and there are more documents than clients,
so that a fresh one exists.

`RefinesDurableDocument` has the hypothesis `Calm`, as the properties it brings together
do; TLC finds the abstract specification violated in a rough world, by overlapping loads and
departures. It needs one
fact more than `CalmInv`: while no document is registered, nothing is marked dirty or waits
for a timer (`Idle`), so a page that loads is served all there is. `Chain`
makes each save in flight write more than the row has and no more than the document, which is the abstract
`Writes`; the document itself shrinks in `CloseImplements` (the last departure, whose
page is the only one open) and `EndImplements` only.

*EditorRelayProofs* (`TypeCorrect`, `NeverEchoes`, `Converges`, `NothingPending`,
`RefinesSharedDraft`), for
any browsers and edits and channels of any length. None of the properties is inductive:
that an update is not an echo depends on where its operation was before. `IInv` adds

- `Phases`: which of a client's documents, channels and flags are in use at each stage
  of its page; a script to start an editor holds a state the draft has reached, and a
  seed only while the draft has none of that client;
- `OneWay`: the updates of a channel bring one operation each, no two channels bring
  the same one, and none of them is in the draft, so an operation is in one place
  between its author and the draft;
- `Sources`: what is on its way to a browser is in the draft, and what a browser holds
  is in the draft or on its way there;
- `Synced`: an editor that is relayed to lacks only what is on its way to it.

`NoEcho` is a part of `OneWay`, `Converging` follows from `Sources` and `Synced`. The
lemmas about channels (`CarriedAppend`, `CarriedTail`, `CarriedPrefix`, `OrderlyAppend` and so on)
say what appending, taking and cutting off messages does to the operations under way.
`NothingPending` has a second invariant, `Causal`: each message of a channel
is sound for what its receiver will hold when it comes to that message, that is, for the receiver's
document with the operations of the messages in front of it (`Explained`). That
channels keep their order is what it rests on, and that relaying appends an update behind what the
draft sent before.
`RefinesSharedDraft` shows that the initial states are those of `SharedDraft` and that
each action is one of its actions or leaves it alone: typing and planting a seed are
`Make`, merging an update is `Accept`, applying one and starting from a state are
`Learn`, closing a page and deleting its client are `Leave`. It is the safety part; the fairness of the abstract
specification is checked by TLC.

*SelectionProofs* (`TypeCorrect`, `OneHighlight`, `Settles`, `RestsOnCurrent`), for any set of
documents, finite number of tabs, and numbers of reports and inputs. `Inv` is the conjunction of

- `Shape`: the types with all messages, and how far each page is;
- `ReportedOnce`: the reports of a tab that are under way are newer than the selection
  its page has (`FreshReports`), and this one is already a highlight only while the handler that
  made it still runs (`KnownSelection`). The flag `processing_highlight` and the reset of
  the selection at the end of the handler are what keeps it, and `OneHighlight` follows;
- `SetUpOnce`: the script that sets a browser up is sent once and before any replay, and
  before it has been begun the browser shows nothing of the others and nothing is pending;
- `DrawingReaches`, `PresenceReaches`: the last script under way that draws, and the last one
  about each other client, say what the server has now; where there is none, the browser shows
  it, or a script that it has begun (an init before its onload, a replay that polls) is going to, or
  the last one came too early (`behind`, `missed`); where there is neither, a handler still
  owes the push. `NothingStrange` says that whatever is drawn, pending or under way are
  highlights of the document. `Settles` is the case in which nothing is under way or pending;
- `LiveReaches`: the same in the other direction, for `RestsOnCurrent`.

"The last message of a kind" is `EndsWith` and `EndsSaying`, with lemmas about
appending to and taking from a channel. Nothing is said about what the offsets mean: the
proofs hold for whatever `TextOffsets` computes.

*SidebarProofs* (`TypeCorrect`, `SettledShowsDocument`, `CommentsAreUnique`), for any pages,
tags, texts and references and any finite set of highlights. User actions are first
classified by what they can disturb (`UserInput`: calm, typing, sending), so that each
invariant is shown once per class and not once per method.

- `Shape` is `TypeOK` with the messages.
- The layout: `positionCards` is a recursive function over the cards from top to bottom.
  `Column` says what it satisfies; `ColumnClear`, `ColumnAtText` and `ColumnPushed` say
  that cards do not overlap, are never above their text, and are below it only where the card right
  above pushes them there; `PositionsLaid` transfers this to the page. The arguments take the
  least position at which the claim could fail (`LeastNatural`), which a rule of induction with a
  predicate as a parameter would do otherwise.
- `AtRest`: for every page, the last push under way shows the document, or a handler still owes
  one, or the page shows the document; and the cards are laid, or a frame, a push or a
  change of tab is due (`UpToDate`, `Placed`).
- `One(t)`: the text `t` is at most one draft, in at most one message, in at most one posted
  comment, in no two of these at the same time, and in none before it is typed. That
  `submit_comment` empties the draft in the step that sends it, and that the server
  assigns each event to one comment, keeps it. `EachCommentOnce` counts what `One` describes.

*IdleTrackerProofs* (`TypeCorrect`, `PausesOnTime`, `WarnsBeforePause`), for any timeout, even
warning time of at most the timeout, and poll interval. `IInv` relates the clocks to the
timers of a tab in view: without the modal the poll has not fired since the tab came into
view, or found it too early to warn (`PollBounds`); with it the countdown has not fired
since, or found time left (`CountdownBounds`); and the modal has been up since the first poll in
view, or for all but one poll interval of the warning time (`WarningBounds`). Each allows
one round of its timer after a return into view or a sleep, however late the timer was by then.

*TurnCycleProofs* (`NoRoundSkipped`, `TypeCorrect`, `PublishedTogether`), for any teams, any
number of facilitators and any bounds of rounds and crashes. The gate of `publish_all` is checked when the rows are read
and acted upon after the summaries have been awaited, so `IInv` adds that a publication
in progress read only answered rounds (`GateStillHolds`). It remains true because
responses are never removed, whatever locks, retries and deadlines do meanwhile; this
is the argument the code relies on without stating it.

`TypeCorrect` comes from `ColInv`. A row that drafts without a deadline is one that was
never locked (`New`): whatever makes a team draft again writes a deadline, and whatever
removes one ends the drafting (`RowsHold`). A start that answers late writes round 1, and does not write a
state it read as "locked"; so it must not have read a new team as locked (`CallHolds`).

`PublishedTogether` comes from `Fresh`: a publication that no other one and no start
overtook finds at its commit every team either in error or in the round it read. Locks,
deadlines, retries and failures do not change a round or end an error, and
a start answers only teams without a response to round 1, which by `IInv` have not been
advanced.

*OrganiseExportProofs*, first part (`ColumnsSettle`, `OrderStoredAsShown`, from
`PagesWillAgree`), for any pages, tags and finite set of highlights. Neither
property is inductive, because the page that drops a card is never rendered again: it is right
only if what it did to its own columns is what the server will do to the document
with the event. `OrganiseIInv` is

- `Types`, with all messages;
- `Generations`: renderings on their way to a page are numbered up to the one the server
  knows, and an event carries the number of the rendering it was dropped on;
- `Settling`: for each page with the tab open, a handler still owes it a broadcast
  (and another page changed the document), or what it will show agrees with the document. If a rendering is on its way, that is what
  the last one shows, and events of earlier renderings do not count, since
  their generation makes the server drop them. If none is, the page's columns must
  agree with the document after each of the events on their way, handled in turn.

`ResultIsApplied` and `DropFacts` are the heart: the list a drop leaves in the browser,
with the card cut from its column and inserted at the index, is the list the
handler stores, if the stored lists named all cards (`exact`). Where they
do not, only membership agrees, which is what `SettledColumns` needs and why
`StoredAsShown` has its condition ([6](#6-findings)). `AmongFacts`, `RemoveFirstFacts`
and `InsertAtFacts` are the lemmas about the lists; `Among` is written with ranks and without
recursion for their sake.

*OrganiseExportProofs*, second part (`TypeCorrect`, `NoRunningForgotten`, `TokensLeadToFiles`,
`RefinesJobTable`), for any
users and number of jobs, whether commits may fail or not and whether stops take files
along or not. `QueueIInv` adds where the worker is (`WorkerFits`: the job it
exports is running or its row is gone, and was not given up; a job that it is about to fail may be
completed already; what it sweeps are directories of rows that are
gone for good) and that no row exists for a job not yet created
(`CreatedOnly`). `FilesThere` says that a completed job has its directory or lost it in a
stop, and that the one being written exists.
`RefinesJobTable` maps the running rows to the job that is worked on and, where the worker logged
that it gave them up, to the stuck ones. One at a time is not a matter of the row locks but
of the worker, which fails what its predecessor left before it claims and
logs what it leaves itself: no two jobs are worked on, though a row may say "running" beside the
one that is.

*Only model-checked.*

- The liveness properties `EveryWaitEnds`, `EveryEditSaved`, `EveryEditShown`,
  `AbandonedIsPaused`, `EveryRoundEnds` and `EveryJobEnds`, and the fairness of `SharedDraft` in
  `ImplementsSharedDraft`: the prover handles neither ENABLED nor fairness.
- `OffsetsAgree`: it is about what functions over the tree of a document compute, for
  every tree by induction over the tree, and the installed provers cannot instantiate a
  theorem of induction with such a predicate. TLC evaluates it on
  chosen trees.

Every other property of the passing runs is stated by a theorem. No module declares a RECURSIVE
operator.

## 6 Findings

`admission_returning` (`pages/registry.py:140`): `enqueue` puts a user in front who returns
with an expired ticket, says its docstring (`admission.py:91-93`), and a unit test of
`enqueue` alone agrees (`src/tests/unit/test_admission.py:355-394`). The gate calls
`try_enter` first, which removes the expired ticket together with the token
by which `enqueue` would recognise the user, as do the poll and the sweep; TLC finds the user at
the back of the line. `FirstInFirstOut` holds with the documented exception and, since
the gate never makes use of it, without.

`organise_order` (`pages/annotation/tab_bar.py:123`): TLC finds an order that a page shows
and no rendering of the stored lists gives. The index of a drop counts all cards of the
column, and the card is inserted there into a stored list that names only the highlights
that were dragged before; the others are rendered behind the listed ones. A card that is
dropped anywhere but in front is elsewhere at the next visit. The design plan of the
tabs says that the order persists; the sentence is quoted in `PROJECT.json`.

Other places where the code and what is said about it differ, or where nothing is said
about a surprising outcome, met while modelling. They are visible in the modules, and where a
property would be false for them it excepts them in its statement; no run is kept for them.

1. `db/wargames.py:1095`. A retry that succeeds stores the response of an errored team
   and leaves its state at "error". Later retries skip the team because it has a
   response, publications skip it because of its state. Where the marking of a team fails as
   well (`:1143`), which is only logged, a team that should be in error stays as it was; in a start it
   goes on drafting in round 0 without a deadline, and no service accepts the activity
   any more: a start refuses messages, a lock wants all teams drafting, the others want none.
2. `pages/annotation/broadcast.py:320`. A departure decides that it is the last, awaits a
   save, and evicts the workspace although a tab joined meanwhile, whose later edits are
   never saved. Two loads that overlap each create a document, and the one registered
   second replaces the first under its tab. (`OneDocument` and `UnsavedIsDirty` are for
   loads and departures that do not overlap.)
3. `crdt/persistence.py:134-137`. A key press while a forced save is in flight, of an
   annotation or before a restart, is marked dirty, and the mark is removed when that save
   returns. The timer of the key press finds nothing to do, and neither does the last departure or
   the shutdown handler: unless something else is edited, the key press is lost with
   the document. (`UnsavedIsDirty` excepts what was made while such a save was in flight, `late`.)
4. `crdt/annotation_doc.py:1023-1034`. A row that cannot be read or applied is logged, and an
   empty document is served in its place; the next save writes that one over
   the row. (`SavedMeansDurable` and `RowNeverForgets` are for worlds without failures.)
5. `pages/registry.py:148`. The gate compares the cap with connected users only, so
   newcomers may take the room that tickets were granted for. Connected users and ticket
   holders together can exceed the cap; a batch never makes them (`BatchFitsCap`).
6. `pages/annotation/respond.py:513`. The mirror is replaced by the text of whichever browser
   sent last, which may lack what the draft already has. It is the text of a state the
   draft could have had (`CausallyClosed`), not of the present one.
7. `pages/annotation/respond.py:609`. Two browsers that open a cloned draft at the same
   time both find it empty and both plant its text, which then stands there twice.
8. `pages/annotation/document.py:327`. The event of an expansion carries the state the
   user wants, and the handler flips its own: when a push crosses it, the card ends up the
   other way round.
9. `static/annotation-highlight.js:14-17` says that both walks "must produce identical
   character counts". White space is `\s` on either side, which in JavaScript includes
   U+FEFF and in Python (`input_pipeline/text_extraction.py:56`) U+0085 and U+001C to
   U+001F: behind such a character the server cuts out other text than was selected. And
   the browser's walk counts code points, as Python does, but the functions that look into a text
   count UTF-16 units (`:207`, `:479`): a selection that begins or ends behind an emoji
   of the same text is one off. (`OffsetsAgree` excepts both.)
10. `src/deploy/promptgrimoire-worker.service:45`. The unit gives the worker a private `/tmp`
    (as `src/docs/deployment.md:995` does for the application), and exports lie in
    `tempfile.mkdtemp`. Each restart removes the files behind links that are still valid;
    the design plan of the queue says "repeat downloads within 24-hour TTL return the same
    PDF" (`src/docs/design-plans/2026-03-21-export-queue-402.md:39`). (`ValidTokenServed` excepts
    what went with a stop.)
11. `export/worker.py:80` and `:173`. A directory that cannot be made, outside the `try`, a commit of
    the claim that raises or a `fail_job` that raises is logged by the loop, which goes on; the row stays "running",
    and its user gets no other export, until the worker is started again. Orphans are failed
    at a start "so users see an error instead of a perpetual spinner"
    (`db/export_jobs.py:145`); these see one meanwhile. (`RunningIsProcessed` and `EveryJobEnds`
    except what was logged.)
12. `pages/annotation/document.py:266-297`. A page loads annotation-highlight.js and draws, when
    it has come, the highlights of the time the page was rendered. A push in between is lost
    (`highlights.py:149-155`), as is a selection that is shown (`broadcast.py:207-214`); a
    replay that polls (`broadcast.py:265-277`) may show a selection again that has
    changed. The next push or word mends it. (`SettledShown` excepts both.)
13. `db/wargames.py:1322`. A publication computes the rounds from the rows it read before the
    summaries: two that overlap advance a team once instead of twice, or set its
    round back, and a start that commits meanwhile is left behind. Nothing
    serialises the callers. (`TeamsStayInStep` is for publications that were not overtaken.)
14. `pages/annotation/tab_bar.py:247`. A drop on a rendering that the server has replaced
    meanwhile is dropped with it, without a message to the user; "no lost moves" says the design plan of the
    tabs of simultaneous drags (`src/docs/design-plans/2026-02-07-three-tab-ui-98.md:64`).
    (`SettledColumns` says that the page then shows what the document has.)

## 7 What is not modelled

*Within modelled components.* The ban check of a page load (the kick is), texts below the
level of edits and operations (`TextOffsets` has them), messages and
summaries, the clock of deadlines, the download's HTTP headers and a second export worker,
for the reasons given above. Of the browser code:
remote cursors (no browser ever emits `cursor_move`), hovering, the throb of a located
highlight, scrolling to a card, the toolbar and theme of the Milkdown editor, base64.
Of `sortable.js` the events, methods and clone plug-in that no page uses.
Of the Organise tab its search and locate buttons. Of `db/wargames.py`, teams,
roster and permissions.

*Components.* Everything listed as `not_modelled` in `PROJECT.json`.
`static/annotation-card-sync.js` measures the toolbar,
`static/annotation-copy-protection.js` intercepts clipboard events, and
`static/milkdown/vite.config.js` is a build configuration: none of them has a state that
something else depends on. `static/milkdown/dist` is the built bundle and
the library of SortableJS is vendored. The rest is user interface, pipelines of pure conversions,
CRUD in single transactions (atomic by the database), the external identity provider,
configuration, command line and deployment, and the components of the plan below.

Three hazards have no property; their notes in `PROJECT.json` say why.

## 8 Plan

In order:

1. `SearchWorker`: rows with a version of the saved state, the version whose text is
   searchable and the mark; the batch query, the write guarded by the mark, the saves
   of CrdtPersistence as the environment. Properties: a clear mark means that the
   text is that of the saved state (the comment in `search_worker.py:91-94` claims
   it); every save is searched in the end; a row that cannot be read does not shut
   out others.
2. `TeamPermissions`: grant and revoke as sequences of statements with row locks under
   READ COMMITTED. Properties: a team with members keeps an editor; callers do not
   wait for each other.
3. `TagDualWrite`: tag rows, order counter and the document's tag map, with a reorder
   from a stale list, deletion in three sessions, the guards that read the saved
   state, and the consistency check on load that repairs the map. The abstract
   specification is a single tag table.
4. Pure algorithms, as operators checked against a reference over bounded inputs: the
   splitting of overlapping highlights into spans (`export/highlight_spans.py`),
   permission resolution and settings fall-back, word limits, the roll-over of
   wall-clock deadlines (`wargame/turn_cycle.py:97`).
