# kryten-webqueue: TLA+ models, checks and proofs

kryten-webqueue is the web front of a CyTube channel: users browse a catalogue and pay to
put items on the channel's playlist, admins edit and schedule playlists, a promo director
weaves promos between items, jobs fetch media into MediaCMS and enrich what is there, and
messages of the day (MOTDs) are published by hand or by schedule. It is one asyncio process
over SQLite or PostgreSQL; CyTube, the economy service and the chat bot are reached through
HTTP (`api_gate/client.py`), MediaCMS, TMDb, OMDb and a shared workbook through HTTP from
jobs that run in threads.

Handlers and loops run in one event loop, so code between two `await`s is atomic and
everything else interleaves: handlers with handlers, handlers with the background loops,
jobs with the people who use MediaCMS and the workbook, and all of them with CyTube, which
plays on whatever the service does.

The sections: 1 inventory, 2 modules, 3 how the modules correspond to the code, 4 runs, 5
bounds, 6 fairness, 7 theorems, 8 known divergences, 9 plan, 10 not modelled.

## 1. Inventory

| component | code | state | operations | interacts with |
|---|---|---|---|---|
| Paid queue | `queue/ordering.py`, `routes/admin_queue.py`, `routes/queue.py`, `catalog/db/_queue.py` | `_queue_lock`, tables `spend_requests`, `queue_history` | insert, play next, admin and override modes, `refund_item`, clear, remove, jump | economy, CyTube, shadow, promo director |
| Queue shadow | `queue/shadow.py`, table `queue_shadow` | `_items`, `_now_playing`, `_lock` | `apply_poll_result`, `insert_at`, `remove`, `load_from_db` | poller writes it, everything reads it |
| State poller | `queue/poller.py` | last result | read playlist and now-playing, apply, broadcast | shadow, web sockets, completion recorder, promo director |
| Presence refund monitor | `queue/presence.py` | when each owner was last seen | cancel and refund the items of owners gone past a grace | paid queue, shadow |
| Scheduled playlists | `playlists/fire.py`, `playlists/scheduler.py`, `routes/admin_schedules.py`, `catalog/db/_playlists.py` | own `_queue_lock`, timers, tables of schedules and of the active one | arm, fire, lock before and during, lift, expire, re-arm, edit, delete | shadow, paid queue, CyTube |
| Promo director | `promos/director.py` | suppress depth, cadence counters, rebaseline flag | weave a promo, lead-ins, suppress while a schedule fires | CyTube, shadow |
| Saved playlists | `catalog/db/_playlists.py`, `routes/admin_playlists.py` | items of each list, one shared connection | replace, append, rotate, purge | completion, workbook and fetch jobs |
| Jobs | `jobs/manager.py`, `jobs/job_scheduler.py`, `catalog/db/_jobs_db.py` | running map, table `job_runs` | run, finish, reconcile orphans at start-up | every job |
| Fetch queue | `jobs/tasks.py`, `catalog/db/_fetch_queue.py` | the table of requests | enqueue, claim, complete, retry, requeue, reset at start-up | jobs, downloader |
| Downloader | `integrations/ytpipe/downloader.py` | files of one directory, items of MediaCMS | look up, download, check, upload, verify, clean up, make richer | fetch queue, MediaCMS |
| Catalogue sync | `catalog/sync.py`, `catalog/mediacms_client.py`, `routes/admin_catalog.py` | mirror of MediaCMS | page, upsert, prune; hide, edit, delete | MediaCMS, enrichment, visibility |
| Visibility, blackouts | `catalog/db/_catalog.py`, `catalog/db/__init__.py`, `catalog/db/_blackouts.py`, `cmsutils/blackout_scan.py` | exclusions of several kinds, over one database or several | browse, item page, check before queueing; scan, hide, prune | paid queue, jobs |
| Enrichment | `catalog/enrichment/`, `catalog/db/_enrichment.py` | step stamps, titles, texts, posters, tags | classify, identify, title, meta, art, tags | MediaCMS, TMDb, OMDb, sync |
| CMS tools, look-ups | `integrations/cmsutils/enrich*.py` | none of their own; MediaCMS | scan, look up, PUT, restore the owner | MediaCMS, TMDb, OMDb |
| Workbook | `integrations/cmsutils/fetchurls.py` | a sheet per weekend, the played movies | check or fetch addresses, write cells, make playlists | downloader, saved playlists, editors |
| Completion | `queue/completion.py` | item being watched, furthest point | record plays, turn lists over | poller, saved playlists, visibility |
| Web sockets | `ws/manager.py`, `ws/handler.py` | one socket per user | connect (replaces), disconnect, broadcast, send | poller and presence monitor |
| Race page | `queue/race_poller.py` | last frame, race whose timeline was sent | poll, broadcast, clear | sockets, the race service |
| MOTD templates | `catalog/db/_motd_templates.py`, `routes/admin_motd_templates.py`, `routes/admin_media.py` | templates, revisions, default, images | save, restore, archive, delete, upload | automation, CyTube |
| MOTD automation | `motd/`, `jobs/motd_publish.py` | publications, schedules, next look | tick, compose, publish, prune | templates, jobs, CyTube |
| Device links | `routes/devices.py`, `routes/public_api.py`, `catalog/db/_devices.py` | pads (codes), keys, bans | issue, exchange, revoke, reconcile bans | moderation, jobs |
| Limits | `auth/rate_limit.py` | a deque of recent requests per key | admit or refuse | every limited route |
| One-time codes, sessions | `auth/` | signed cookies, a table of codes | issue, verify, expire | users |
| Ordering, import | `playlists/ordering.py`, `playlists/importer.py` | none | order a result set, read a list of links | saved playlists |
| Images, emotes, TMDB index, moderation, feedback, pages, front end, migration, configuration | `catalog/`, `jobs/`, `routes/`, `static/`, `scripts/` | files and rows of their own | single statements, sequential copies | see section 10 |

### What is hard here

* **Stale reads.** The poller reads the playlist, then awaits, then takes the shadow lock
  and applies what it read. The same shape is everywhere: a tool scans a library for an hour
  and writes what it decided, a job writes into a row of a sheet it read before the editors
  moved it, a sync writes a row an admin has just hidden.
* **Several calls that should be one.** A purchase is spend, add, move, record; an upload is
  send, wait, verify; a MediaCMS write is PUT and give back the owner. Each may be refused,
  or time out having taken effect.
* **Locks that do not cover each other.** Purchases hold `ordering._queue_lock`; admin clear
  and remove, the presence monitor and the poller do not; `fire.py` has a lock of its own
  under the same name.
* **Memory and table, crash and restart.** The shadow, timers, running map and sockets are
  memory; rows, stamps and files are not.
* **One connection for all.** Statements of one request are committed by another's commit,
  and left half done by a crash.
* **Check, then act.** A code, a default template, an image, a job name is looked at in one
  statement and acted on in the next.

### What makes each component correct

| component | properties |
|---|---|
| Paid queue, shadow | an error costs nothing; every paid mark can be refunded; a refund is made once and recorded; nobody plays for free; money follows a life cycle; the shadow settles on the playlist |
| Schedules, events | fired once per due time and armed again; the queue opens again; two fires never mix; an early purchase is refunded; promos go back to work |
| Jobs, fetch queue, downloader | a true history; every claimed item ends or returns; attempts bounded but for claims on an old count; a video is uploaded once and what is reported is there |
| Sync, visibility, blackouts | the mirror agrees after a clean sync and is never emptied by a bad listing; a hidden item stays hidden; a viewer sees what nothing stands against |
| Enrichment, tools, look-ups | an admin's word is not overwritten; the owner comes back; a text never gets poorer; data are of one work; every item gets its turn |
| Workbook, lists, completion | an address is beside its film; a list is what somebody wrote; a play is counted once and only past half |
| Sockets, race | an open page is reached and ends with the last state |
| MOTD | no edit is lost; the channel ends up with what is scheduled, of the right week |
| Devices, limits | a pad yields one key; a banned user has none in the end; no window lets through more than it says |

## 2. Modules

| module | what it is | run |
|---|---|---|
| `PlaylistOps`, `ShadowOps` | operators on the CyTube playlist (external) and on the shadow list and its table | |
| `PayQueue` | the paid queue, the refunding handlers, the poll loop, playback and restarts | `paid_*`, `claim_lost` |
| `PaidSpend` | abstract specification: the life of each request's money and its answer | `paid_crash` |
| `JobManager`, `FetchQueue` | job runs and their history; the table of the fetch queue and its two jobs, composed by EXTENDS | `fetch_queue` |
| `ScheduleFire` | `fire_schedule`, the event lock, the polls that lift it, the promo director's turn | `event_*` |
| `Schedules` | timers, recurrence, the pre-fire lock, admins' edits, a purchase that meets both locks | `admin` |
| `MotdTemplates` | masters, revisions, the default, the images | `admin` |
| `SavedPlaylists` | the items of a list, on the shared connection | `admin` |
| `Visibility`, `Blackouts` | what a viewer is shown; the weekend titles held back | `admin` |
| `MotdSchedule`, `Motd` | which template is on when (no state); automation, publish job, pruning | `motd`, `catalogue` |
| `Completion` | plays and what follows from them | `catalogue` |
| `Downloader` | runs that look up, fetch, check, upload and clean up | `catalogue` |
| `CatalogSync` | the mirror of MediaCMS | `catalogue` |
| `CmsTools`, `Lookups` | the tools' writes and the owner; how works are recognised | `catalogue` |
| `Workbook` | the job that fills a weekend's sheet | `catalogue` |
| `Rules` | choice of streams, tags, ordering, import, MOTD timeline, against reference definitions | `catalogue` |
| `Sockets`, `RaceView` | the live pages | `live` |
| `Devices`, `Limits` | device keys and bans; sliding windows | `live` |
| `Enrichment` | one run at a time through the six steps, beside admins and the sync | `live` |
| `PayQueueClaims`, `EnrichmentClaims` | statements of the repository's documents that the code does not keep | `claim_*` |
| `MCPayQueue`, `MCFetchQueue`, `MCScheduleFire`, `MCMotd` | constants of the runs of one family | |
| `MCAdmin`, `MCCatalogue`, `MCLive` | several components side by side | |
| `FiniteFacts` | lemmas on finite sets and numbers | |
| `PayQueueProofs`, `FetchQueueProofs`, `ScheduleFireProofs` | theorems about the module each is named for | |
| `AdminProofs`, `LiveProofs` | theorems about components of `MCAdmin` (schedules, templates, visibility, blackouts); about `MCLive`, `SavedPlaylists` and `Motd` | |
| `RulesProofs`, `CatalogueProofs` | theorems about `Lookups` and `Rules` by themselves; about `MCCatalogue`, which has them | |

`MCAdmin`, `MCCatalogue` and `MCLive` are sums: a variable `mode`, chosen at the start, says
which component moves, the others stand still (`Quiet` leaves an idle component one initial
state where it has several). The components of a sum share no state, so nothing is lost
against runs of their own, and a state costs what the moving component costs. What they do
to each other is in each module as an action of its environment: `Schedules` has a purchase,
`SavedPlaylists` has the completion recorder's rotation, `Enrichment` the sync, `Downloader`
the lag of MediaCMS's index.

Properties are conjunctions of named parts (`TemplatesSafe` is `NoLostEdit`,
`RevisionsTrue`, `DefaultKept`, `UrlStable`, `MediaKept` and its types), each with a comment
that says what it is about and each with a mutant of the code it would catch. Mutants
(`..._Suffix` definitions) stand before what they mutate.

## 3. Correspondence

### How PayQueue corresponds to the code

A process `p` is one call of a handler and `Kind[p]` says which; `pc[p]` is where it awaits.
`uid`, `tgt`, `slot`, `todo`, `req` are the locals it carries over awaits.

| label | code |
|---|---|
| `spend` `anchor` `add` `move` `save` `insert` `row` | the purchase: `queue_spend`, `_last_pay_uid` or `_now_playing_uid`, `playlist_add`, `playlist_move`, `save_spend_request`, `shadow.insert_at` up to and after its statement |
| `undo` `unadd` | compensation: refund, then delete of the item that was added |
| `list` `lookup` `refund` `mark` `delete` `forget` `unrow` `clear` | the loops that refund: choose items, `get_spend_by_uid`, economy refund, `mark_spend_refunded`, `playlist_delete`, `shadow.remove` in two steps, `playlist_clear` |
| `done` `failed` `raised` | answered ok, answered with an error, ended by an exception |

`ppc` is the poll loop: read, wait for the lock, prune rows, upsert rows, replace the list.
`items` is the in-memory list as a set of entries that carry their index; `rows` and
`spends` are the two tables; `ledger` is what the economy holds for each request. `Faults`
says which external calls may be refused, time out with or without effect (`lost_answer`),
or be unavailable. The history variable `strays` has the items the service lets go of while
they are on the playlist: those a poll drops because it read the list before they were
there, and those a handler forgets after a refused delete.

Abstracted: prices, titles and wording; the history row and the answer are one step with the
last write; the now-playing look-up and its fallback are one step; promo lead-ins, which are
off unless a director is configured; the CyTube playlist keeps an item once its call to
delete it succeeds in one step; the order in which a refund loop takes items of equal
position is free.

### How JobManager and FetchQueue correspond to the code

A run `r` is a row of `job_runs`, numbered as the table numbers them. `task[r]` is where its
coroutine is, `running` the dictionary `_running` from job names to runs, `cancelled` the
tasks `stop` has cancelled, `caller[r]` who awaits the call of `run()`. The check of
`_running` (`Call`) and the entry in it (`Begin`) are two steps with the INSERT between
them, as in `manager.py:216-225`; `Finish` and `InterruptFinish` are the outcome with its
statement and the `finally` clause that pops the *name*.

`queue` is the table `fetch_queue`, `step[r]` and `item[r]` the place and the locals of a
drain or add job: `Select` and `Claim` are the two statements of `claim_next_fetch_item`,
`Report` the progress call inside the `try`, `Fetch` the download with its possible results,
`Record` what is written of it (done, skipped, broken and to be retried, failed),
`InterruptDrain` a cancellation at any await, `Requeue` the statement it runs. `read[r]` is the
count of attempts in the row the drain selected: by that one, not by the table's, it decides
whether to try again (`tasks.py:1008`). The history variable `stale` counts, item by item,
the claims made when the two already differed. `Stop`
cancels what runs, `Crash` ends the process, `Boot` is start-up: reconcile run rows, reset
running items, start a drain.

Abstracted: log capture, parameter checks, what a download produces; a task is cancelled
only after it has started to run; the item's lookup columns.

### How ScheduleFire corresponds to the code

A fire `f` is a call of `fire_schedule`; `pc[f]` is idle, waiting for the module's own lock,
clearing (the refunds and `playlist_clear`), loading, adding the fallback, or ended;
`loaded`, `lastUid` and `lastMedia` are its locals. `active` is the row of `active_schedule`
and `overdue` says that its estimated end is five minutes past. `ppc` is the poll loop: two
reads (`seen`, `seenNow`), the SELECT of `_maybe_lift_event_lock` and its UPDATE, the SELECT
of `_maybe_expire_active_schedule` and its DELETE, then `PromoDirector.on_poll`: the look at
the suppression, the baseline, `is_event_lock_active`, and up to two promos, a lead-in and a
general one.

Abstracted: the playlist is the set of its items and any may play next; of the list the poll
has read only the event's items are kept; paid items and their refunds are in `PayQueue`;
which promo is due, and where it goes, is free. `strays` counts the promos put into the load
under way.

### How the components of `MCAdmin` correspond to the code

**`Schedules`.** `rows` is `playlist_schedules`, `timer` the job APScheduler keeps for a
row, `task[p]` the coroutine of a timed fire or of an admin's request: `Due` starts one,
`Reread` is the row read again after the fire, `Write` the UPDATE that re-arms with the
`add_job` that follows it; `Stop`, `Boot`, `LoadOne` and `Loaded` are a restart and
`start()`'s loop over the rows. `fire_schedule` is what the timers see of it (`List` the
refunds, `ClearList`, `Activate`, `Mark`). `Ask`, `AskAgain` and `Buy` are a purchase that
asks for the pre-fire lock and the event lock and then buys. A database statement is one
step with the local code up to the next await; start-up takes no time; no call takes longer
than `Longest`.

Admins give any time, come or gone, as neither `create` nor `update` looks at it
(`admin_schedules.py:44-67`). `CreateSchedule` keeps the row on and adds the job whatever the
time is; a job for a time that is over is found late by APScheduler (whose misfire grace is
one second, and which runs one instance of a job) and goes, which is `Due`. A rule is of a
kind: without end, with an `UNTIL`, with a `COUNT`, or "none", which stands for a one-off and
for a rule that cannot be parsed. `Comes` says whether `_next_occurrence` returns a time or
`None`, wherever the code asks it: after a fire, after an update, at start-up. The anchor is
the row's current `fire_at`, so a `COUNT` is counted anew from each. Two history variables:
`late` has the schedules whose time was over before a job could be armed for it, `missed`
those whose timed fire broke off at its clear. An edit or a restart that makes it good takes
a schedule out of them.

Abstracted: other frequencies than one period, exceptions within a rule, changes of daylight
time.

**`MotdTemplates`.** Every statement of a handler of `admin_motd_templates.py` and
`admin_media.py` is a step, so the steps of two editors mix and a crash falls between any
two; `call[e]` holds the locals. A body is the image it shows, a file is named for its slug.
Masters only: fragments differ by a guard on the kind. Previews, metadata and the audit log
write nothing these properties see.

**`SavedPlaylists`.** `entries` is what the shared connection sees, `saved` what is
committed; a call is its statements and a commit, `Stranger` is the commit of any other
request, `Restart` loses what is not committed. `PresentIds`, `LastAt`, `Playlists` and
`Items` are the reads of append and rotate.

**`Visibility`.** `SingleStatement` is the SQL of the single database; the other steps are
the facade's reads of a parted one, with a change (`Turn`) between any two. `lasting` and
`ever` are what stood against a title all the while and at any time of the request.

**`Blackouts`.** `ScanBook` reads the sheets, `Hide` is one upsert, `Prune` the delete of
what is over, `Pencil` an edit of a sheet, `Midnight` a day. How a sheet is found and its
layout read is left out.

### How `Motd` and `MotdSchedule` correspond to the code

`MotdSchedule` is `motd/schedule.py`: which windows a schedule has in a range, which of the
open ones wins, the timeline. `Motd` composes it with the automation's `tick` (look, key,
guard, request), the job (`run[r]`: begin, compose, backup, `set_motd`, record, finish), an
admin's publish, edits of schedules and templates, the week and the pruning of history and
backups. A publication is its key (the revisions it was made of) and its week. A statement
and its commit are one step; a slug has one file name; a tick, a pruning, the INSERT of a
run and what follows a backup take less than a time unit. `taint` records what the code does
not answer for: a lost answer of `set_motd`, or a crash between it and the row.

### How the components of `MCCatalogue` correspond to the code

**`Completion`.** `Advance` and `Play` are the player, `Same` and `Moved` a poll of the same
or of another media, `Record` and `Rotate` the two writes, `ResolveNew` the look-up of the
new title, each of which may fail. `seen` is the furthest point a poll has seen of a play.

**`Downloader`.** `fetch[r]` is a run over its list of URLs; a video is looked up by address
and title, skipped, made richer, or downloaded in some of several formats, checked by
ffprobe, uploaded (the answer may be lost: then it is looked for by address and title),
verified for being readable, and its file removed. `Indexed` and `Reaped` are MediaCMS: an
item becomes searchable late, and one it cannot read goes. Runs of the job and of the fetch
queue share the directory, so one's file can be another's.

**`CatalogSync`.** A sync reads MediaCMS by page numbers while the list shifts, writes a row
(`Process`) and its tags (`Facets`, `SetTags`) an item, and at the end passes the guards and
deletes what it did not meet. The guard against a listing that lost most of its items goes
by the rows `browse_count` counts when the sync begins, which leaves out reserved items
(`Counted`, `_catalog.py:440`); which tokens are `Reserved` does not change during a run.
Admins hide, unhide, edit and delete in two writes with a sync between them; MediaCMS's users
upload, withdraw and retitle.

**`CmsTools`.** `Scan` copies all items with their owner, a tool-specific look decides what
to write (`MetaLook`, `TvLook`, `TitlesLook`), `Put` makes the token's holder the owner,
`Restore` puts the scanned owner back. "writer" is the site's own writers, which do the same
for one item. A description is its score (`level`) and whether it carries its source mark.

**`Lookups`.** Operators translated from the parsers and pickers of the site and the tools,
checked one sample a state: titles as lists of tokens, names as numbers that are alike when
they are neighbours, answers of the providers chosen freely. A run of `enrichtv` with its
cache is the one behaviour with steps.

**`Workbook`.** A job reads the sheet once and works through its rows; each cell is written
into the live sheet by the row number read. Editors insert rows, change what a row asks for
and add to the played movies meanwhile.

**`Rules`.** The choice of streams and tags (`downloader.py`), the order of a result set
(`ordering.py`), the reading of a line (`importer.py`), and the MOTD timeline, each sample a
state, each against a definition written independently of the algorithm.

### How the components of `MCLive` correspond to the code

**`Sockets`.** A handler accepts, connects (replacing its user's socket), sends the first
state without the lock, listens, and cleans up by its user's name; a broadcaster reads the
state (`Snapshot`), takes the lock, sends to each and drops those that fail. A queue's state
is a version number. **`RaceView`** is the poll of the race, the frame kept for late comers,
the timeline sent once a race, the single clear.

**`Devices`.** Each step of `create_link_code` and `exchange_link_code` is a statement; a
pad is one row ever issued of a code. `BanHere` and `BanRevokes` are the two writes of a ban
made on the site, `Holders`, `BanList` and `RevokeAll` the reconcile job, which may not get
its list.

**`Limits`.** One deque and several windows; `Request` is `check` from end to end, which has
no await.

**`Enrichment`.** `work` is the run: step, rows loaded, the film in hand. The data a
provider returns is kept as the key it was looked up by, so a text from another film can be
told. `Synced` and `AdminEdits` happen between any two statements; a step is stamped after
it, failed pushes to MediaCMS included. The local write, the push and the stamp of the tags
step are one action, as are `save_state` and `update_catalog` of the meta step.

## 4. Runs

| run | question | result |
|---|---|---|
| `paid_remove` | purchase, presence cycle, admin removal, admin clear: economy and table agree on refunds, nobody plays for free | holds |
| `paid_crash` | purchase and override, every fault, one restart anywhere: paid marks survive a restart and stay as long as the item does, money follows `PaidSpend` | holds |
| `paid_live` | a queue and a play-next purchase contend for both locks, calls may be refused: marks are backed, errors are free, both are answered, the shadow settles on the playlist | holds |
| `claim_lost` | a failed add is refunded (`PRODUCT_PLAN.md:626`) | violated on a time-out |
| `fetch_queue` | two calls, deletions, one stop or kill anywhere: one drain per item, nothing stranded, a true history, attempts bounded but for stale claims, everything settles | holds |
| `event_lock` | a fire, every fault, admins, one restart: the lock opens again, promos resume, at most one cycle's promos in a load | holds |
| `event_pair` | two fires, failing calls, one restart: items of two fires are never mixed | holds |
| `admin` | schedules, templates, lists, visibility, blackouts under overlapping calls and a crash: a schedule that is on is armed but for three named causes and fires once, no edit is lost, lists are what was written, viewers see what they may | holds |
| `motd` | automation, an admin's publish, failures, a lost answer, a crash, edits, two weeks, a pruning: history and channel agree and settle on what is scheduled, in the right week | holds |
| `catalogue` | plays, downloads, the mirror, the tools, the workbook, look-ups and rules, against lost answers, late indexes, shifting pages and people at work | holds |
| `live` | pages, spectators, device keys, limits, enrichment: everybody gets the last state, a banned user's keys go, every item its description | holds |
| `claim_art` | the poster an admin chose is what the art step puts up (`CHANGELOG.md:702`) | violated: the query leaves the number out |

The two violated runs are findings of `PROJECT.json`. Type invariants are checked inside the
first property of each component (`PaidSafe`, `FetchSafe`, `LoadSafe`, `SchedulesSafe`,
...).

## 5. Bounds

`CHECK_DEADLOCK FALSE` stands where calls, edits, crashes or time are bounded and a
behaviour may therefore come to its end; the paid queue and the events run without it. A run
takes between a few seconds and about four minutes; `admin` and `catalogue` have 2.4 to 2.6
million states, `motd` and `live` about half a million.

* **Paid queue.** Two to four calls, a playlist of one or two permanent items, a poller that
  polls without end, playback that may advance or jump at any time, at most one restart.
  Each hazard needs two actors; four are used where a refund, a removal and a clear race
  over one purchase.
* **Fetch queue.** One item, two calls besides the drain start-up makes, one stop or kill,
  three attempts. The claims race over one item; an item more multiplies the states and adds
  no new race, since a drain handles one at a time.
* **Scheduled events.** A playlist of two items and a fallback of one: with two, the uid
  known for the "last item" may be that of the first. One fire with every fault; two fires
  for the lock. Three strays are let in before the count stops, so that a third would be
  seen.
* **`Schedules`.** One schedule with a rule of period 3 that ends at 4, so that it recurs from
  the times 0 and 1 and has run out from 2; two requests of admins one
  after another, with times from 0 to 2, come or gone; a clear that may be refused, a
  purchase, a restart, time to 4: an occurrence, the next, one missed while the service is
  down, and a rule that has run out. An edit mixes with the re-arm of a fire; a second
  schedule would share only the lock, which `event_pair` has. Rules without end and with a
  count are left to the theorems.
* **`MotdTemplates`.** Two masters, one image, two editors, four requests, one crash: the
  lost update needs two saves and a revision to save from, made by the third; the fourth is
  a restore or an archive beside them.
* **`SavedPlaylists`, `Visibility`, `Blackouts`.** Two callers and three calls; one title,
  since a title's reasons do not touch another's, both layouts, two changes in a request;
  two titles, two overlapping weekends (days 4 and 11, ten days each), two scans.
* **`Motd`.** Two masters and a fragment, a one-off and a recurring table, time to 2 and
  weeks of 1, so the week turns; two runs at a time, one edit (a save, crash or lost
  answer), one publish, one pruning; from time 1 on the world is calm, and the automation
  has a retry left.
* **`Completion`, `Downloader`, `CatalogSync`.** A title of three ticks and one of unknown
  length and an alien, three plays; two addresses with the same title, two runs, two items,
  one retry; three tokens, one of them reserved, pages of one, so that every deletion shifts a
  page, three syncs, two acts.
* **`CmsTools`, `Workbook`.** Two videos, three tools and a writer, two scans, two upsets;
  two films, three rows with a gap or a film twice, two jobs and three edits.
* **`Lookups`, `Rules`.** All samples over two works, titles of up to four parts, three
  streams, tag caps of two, pairs of schedules, and a run of two episodes.
* **`Sockets`, `RaceView`.** A user with two sockets in turn and one with one, two
  broadcasters, one change of state; two races, two spectators.
* **`Devices`, `Limits`, `Enrichment`.** One user, one code (so that it is issued again),
  two televisions, two pads, a crash; windows of 2 and 4 with two and three requests, time
  to 9, which is twice the longest; two films one of which the sources do not know, a limit
  of 1, two upsets.

## 6. Fairness

The event loop runs every task that is ready and external calls end: a started call, the
poller, jobs, fires, broadcasts and enrichment runs proceed (weak fairness).

* `asyncio.Lock` serves its waiters in order, so taking a lock is strongly fair:
  `paid_live`, `event_lock`, and `Broadcast(Poller)` in `live`.
* `paid_live`: the two calls are made. `fetch_queue`: a service that went down is started
  again. `event_lock`: the poll's second read does not fail for ever (a transport error
  leads to another cycle, `poller.py:70`), and time passes.
* `motd`: the loop ticks, a run goes on, the clock, which waits for ticks in progress, is
  not stopped for ever. Failures are bounded, so `Converges` says what comes after the last.
* `live`: the list of bans, asked for again and again, is answered again and again
  (`BanList`, strong); crashes are bounded; admins go on starting enrichment runs
  (`StartAll`, weak), which `Described` supposes of them and nothing in the code promises.
  The modes of the sum exclude each other, so `LiveFairness` can put obligations of several
  modes into one disjunction.

Nothing obliges a user to call, an item to end, an admin to unlock or the service to
restart.

## 7. Theorems

They hold for every value of the constants (any calls, users, media, items, titles, faults,
any number of restarts), from the assumption of each module that its constants have their
types and that null values are not values. A theorem that needs more of the constants has
it as a hypothesis, named below. None assumes fairness. `FiniteFacts` has what they share:
sizes and extremes of finite sets, and what a step does to a field of a record.

A property of a run that is listed here is proved as the run checks it, types included.

**Paid queue** (`PayQueueProofs`), from `PayQueueAssumption`, which also keeps apart what
two locks store as their holder (a call is not called "poller"):

* `TypeCorrect`: `TypeOK` is inductive: besides types it says that a call at a label that
  acts on an item has its uid, that only calls that pay are at "spend" or "save", and that
  list and table are finite, without which an insert position (a cardinality) need not be a
  number.
* `PaidBackedCorrect`: not inductive alone: a call about to insert must have recorded its
  spend (`Recorded`), which needs that paying calls stay out of the labels of refunding
  handlers (`PayersInsert`). `MarksCome` shows where a paid mark may come from (the
  operators of `ShadowOps` only copy marks by uid), `SpendsKept` that spend rows stay.
  `PaidSafeCorrect` joins the two.
* `RefundRecordedCorrect`: from `MoneyInv`: where the money of a request is at every label
  of its call, that a spend row exists only for a call past its charge, and that a handler
  at "refund" or "mark" has such a row in hand.
* `MoneyKeptCorrect`: `PayQueue` implements `PaidSpend`: initial states map to initial
  states and every step maps to a step of `PaidSpend` or a stutter, from `MoneyInv` and
  `Recorded`.
* `ErrorIsFreeCorrect`: `UidInv`: the playlist holds no uid twice, the uid an inserting call
  works on is its own and nobody else's, and a spend row has the uid its request got. From
  it a call that answers "failed" has no item left (`AllGone`).
* `MirrorDurableCorrect` speaks of moments when nobody is in a shadow operation. `MirrorInv`
  says for each holder of the lock, at each place it may be, how far the table is behind the
  list (`Behind`): by the one uid of an insert or a removal, or by the uids a poll has not yet
  dealt with.
* `PaidMarkStaysCorrect` follows an item from its purchase on: of an item that is on the
  playlist and not in `strays` there is one row, the buyer's (`KeptMarks`). The cases: no
  later insert is for its uid (`Given`, from `UidInv`); a poll writes only uids the table has
  no row of, and removes a row only if the list it read has not the item, which makes a stray
  of it or finds it gone (`Dropped`); a handler that takes a row away has deleted the item or
  forgets it after a refusal.
* `NoFreeRideCorrect`, with the hypothesis `Calm`: no restart, no refused delete or clear,
  and, where an admin's clear is among the calls, no refund that is refused or unanswered.
  It needs that the request a handler refunds bought the item it has in hand (`Aimed`). The
  hypothesis is what the code needs: a refund that raises in the middle of a clear ends the
  handler before `playlist_clear` and leaves the items it refunded to play; TLC finds the
  behaviour with two purchases and a clear.

**Fetch queue** (`FetchQueueProofs`): `FetchTypeCorrect`, `ClaimedOnceCorrect`,
`NothingStrandedCorrect`, `AttemptsBoundedCorrect`, `HistoryTrueCorrect`, and
`FetchSafeCorrect`, what `FetchSafe` has of them. None but the types is inductive.
`Control` says what the place of a run implies: an unborn run holds nothing, one that has
not begun has no item, one that awaits its caller's task is at "start", and nobody works
while the service is down. `Held` says that an item at a run's hands is marked running in
the table and conversely, so a second claim of it is refused; `Counted` that the attempts
are below the limit (`MaxAttempts` and `stale` of the item) whenever the item may be tried
again, and `ReadTrue` that the count a drain has read is the table's, or that its stale
claim has been counted and leaves an attempt over. Three facts about a step carry them: a
hold begins with a claim (`HoldsStep`), what is held keeps its attempts (`AttemptsKept`),
and only a claim counts (`StaleStep`).
`HistoryTrueCorrect` needs that every row has a coroutine, and there are as many as
`RunIds`: `Numbered` counts the runs by what starts them, a call, the job "add" of a call,
or a boot.

**Scheduled events** (`ScheduleFireProofs`): `ScheduleTypeCorrect`, `LoadsApartCorrect`,
`StraysBoundedCorrect`, `LoadSafeCorrect`. `LoadsApart` needs `Alone` (since its clear only
the holder of the lock has added content), `StraysBounded` needs `Counted` (a poll cycle past
its look at the suppression has put in every promo there is, and a load begins with none).

**MOTD** (`LiveProofs`): `MotdSafeCorrect` and `WeekKeptCorrect` (an action property), with
the hypothesis `~Overlap`: no request falls into the INSERT of another's run. With it there is
one run at a time (`Solo`); without it two pass the check of `JobManager._running`, which is
set only after the awaited INSERT (`manager.py:216`), and the channel shows what the one sent
and the history says what the other did. `RunTrue` is what a run has in hand: until it has
recorded what it sent the clock stands, so its backup is younger than any cutoff, and a run
of the automation's goes for a week from which the channel is put neither back nor ahead.
`WorldTrue` says what history, channel, backups and the pruning under way say of each other.

**Schedules** (`AdminProofs`): all three hold for any rules, any times, come or gone, any
edits of any admins at once, refused clears and restarts. `FutureArmedCorrect` and
`FiredOnceCorrect` (an action property, but for a schedule set back while it is firing)
suppose nothing more. `SchedulesSafeCorrect` has two hypotheses. `Ample`: requests and fires
are short against a period, which is a day at least. `Longest <= PreFire`: none takes longer
than the pre-fire lock, 15 minutes unless configured (`config.py:481`). Of `RecurringArmed` it
says what the code keeps: a schedule that is on and whose rule has an occurrence to come has
a job, unless it is in `late` or `missed`. The invariant dates everything: no task is older
than `Longest` (`InTime`), what occurred lies before every fire under way or armed (`Past`), a
job that is not armed for its row's time is about to be armed by an edit younger than
`Longest` (`Near`), a fire writes a time that is still to come (`Rewritten`), a row that
nobody edits has the job of its time or no occurrence to come (`Armed`), and while no admin
interferes all times agree and none falls into the time of a purchase that was let in
(`Calm`).

**Templates, visibility, blackouts** (`AdminProofs`):

* `TemplatesSafeCorrect`: `TemplatesInv` has three parts. `Books`: the pointer of a template
  only moves to newer revisions, what a request has inserted and not yet put to use is its
  own, and what no crash cut short is somebody's business; so the base of a save that won is
  behind the pointer for good. `Shelves`: the file of a slug is its owner's or nobody's.
  `Orderly`: while requests come one at a time and none is cut short, there is a default
  except where a request is about to make one, and what a request looked at has not been
  taken from it.
* `VisibilitySafeCorrect`: what stands against a title at any moment of a request is between
  what has stood all the while and what ever has (`Between`). So the names a step gathers
  are at least those of the former (`Gathered`) and at most those of the latter
  (`Grounded`), and stay so whatever changes between two steps: the one only shrinks, the
  other only grows. `LookRoute` says which steps a kind of request takes, so that at the end
  every reason has been looked at.
* `BlackoutsSafeCorrect`: "hidden exactly while promised" is not inductive, since a job may
  write late an end it found days ago; `Agreed` says that row and promise are the same or
  both over, which such a write keeps because it takes the later of two ends.

**Sockets, race, devices, limits, enrichment, saved playlists** (`LiveProofs`):

* `PagesSafeCorrect`: a user who has never connected beside an older handler of his has one
  handler (`OneHandler`), and whom a broadcast found gone has no other page until it is over,
  since it holds the lock (`StaleGone`); so clean-up takes nobody else's page from the map.
  On the race page, the race whose timeline was sent is in the last frame as long as it runs
  (`SentOnce`), no race begins as one it was sent for (`Once`), and who is registered knows
  it or is about to be sent it (`Caught`).
* `DevicesSafeCorrect`: a pad yields one key because once it has yielded one, nobody can read
  it alone: as long as its row is there some exchange is about to delete it (`Consumed`), so
  whoever reads it now shares it (`Unspent`, `OneReader`); and the row that is deleted, by
  its code, is the pad's own (`PadsTold`).
* `LimitsSafeCorrect`: the deque is the last part of all that was let through, and what is
  not in it is older than the longest window; so each window sees in it what it would see in
  the whole history.
* `EnrichmentSafeCorrect`, `RunsGentleCorrect` (an action property): what a step saw of a film
  may be stale when it writes. A film an identify step holds had no number when it was read,
  and only that step gives one (`NoNumber`), and what is about to be saved was pushed, or its
  push failed (`GotRight`).
* `ListsSafeCorrect`: the property speaks of completed calls only; in between, of the list
  the running call means, the first so many items are in the table and the others are what
  it has left to write (`Halfway`), and before its first write the table is what is on disk
  (`Undisturbed`). It rests on what a listing is: a table of items at positions of their own
  has one (`AllSorted`, from a smallest table that had none), and that of a list's own table
  is the list (`TableListed`, since positions that rise below their number skip none). That
  a rotation's rewrite is the list less the first of the item played, and that at the end, is
  `Sinking`. Types hold for calls that overlap too.

**Catalogue** (`CatalogueProofs`), for the sum of its components; `CatalogueSteps` shows that
a step of one leaves the others where they are:

* `IngestSafeCorrect`: outside a URL's blind spots one run works on it, and before it has
  sent it there is no item of it (`Once`); what is sent was checked and what is reported
  stands (`Sound`); a file is in the hands of a run that will take it away (`Shelf`).
* `ToolsSafeCorrect`: the owner a tool has noted is the uploader or was given up on, and a
  note has the mark of its source if there was one to read (`AllFrank`).
* `MirrorSafeCorrect`: what is promised hidden is so in both, and the sync has read it so or
  will (`Promise`); while nothing disturbs the sync, each row it has paged past it has met or
  has in hand (`Met`), and what it is done with is as MediaCMS has it (`Mirrored`).
* `PlaysCountedCorrect`: of each title, what is counted and what is still owed of it is never
  more than its plays seen past half, and exactly those unless it is excused (`Tally`); the
  play in hand is the one that is on, or the last that was (`Watched`).
* `WorkbookSafeCorrect`: while no editor has written under its hands, the rows a job holds
  are the rows of the sheet (`HeldTrue`), what it has still to list lies past the list's end
  and is not in it (`ToList`), and its lines are what column F has beside the rows it is done
  with (`Follows`).
* `StepsRightCorrect` (an action property of the sum): a sync prunes nothing a whole and
  undisturbed listing had, nor so much that fewer than three quarters of the rows it counted
  are left; a tool makes no text poorer but behind
  somebody's back; the playlist a job imports is the sheet's.

**Look-ups and rules** (`RulesProofs`, joined to the catalogue in `CatalogueProofs`):
`RulesHoldCorrect`, of which `FilmsFitCorrect`, `SeriesKeptCorrect`, `ListsKeptCorrect` and
`TimelineAgreesCorrect` are the parts. `RulesAssumption` supposes that heights and caps are
numbers, that the empty string is no title's token, and that the tables are such as `validate`
lets in (`Timetable`).

* Look-ups: `LookInv` says that a run never changes a show it keeps, so whatever it gave an
  episode is on the shelf still (`ServedFromShelf`), with the number OMDb was asked by; and
  that a film asked for is one of `FilmAsked`. From that `FilmFits` and `OneFilm` follow by
  what a pick is (`BestPicks`, `PickPicks`: the least of a set of places, so of the set).
* Rules that lay out a list: a finite set that one order runs through from end to end
  (`Chain`) is laid out in that order and whole (`ChainLaidOut`, from a smallest set that is
  not, and `LayoutHasAll`). Streams from the highest or the lowest, titles as they are watched
  and the places of a list are such chains (`BestChain`, `LeastChain`, `WatchChain`,
  `RisingChain`). `LeftIs` is what a filter leaves: the member of rank k at place k (`RankIs`).
* Timeline (`TimelineCorrect`, for any table and range): the windows asked for are those that
  overlap the range (`OccurrencesAre`), the best by rank has the best claim (`WinnersAre`), and
  winners stay from one cut to the next, where nothing opens or closes (`SameStretch`).

### What is model-checked only

* `TitlesRead`: a title is read by filtering and cutting sequences, and what a filter defined
  by recursion gives is an induction over data, out of the prover's reach. `EpisodeRead` needs
  none: TLC checks it for every title there is in it, whatever the constants. `FilmRead` is
  checked for titles of up to `MaxWords` parts.
* Liveness under fairness (`Answered`, `ShadowConverges`, `AllSettles`, `EventEnds`,
  `Converges`, `PagesSettle`, `CutOff`, `Described`), which is out of its reach as well.

## 8. Known divergences

What the models show the code to do, where nobody wrote down that it does otherwise. A
property excuses each by name, so that it would still see any other cause.

* **Paid queue.** A poll that applies a list it read before an item was added drops that
  item's row, paid mark and all, and the next poll takes the item in as an unpaid one
  (`shadow.py:115-134`): until then a newer purchase is placed ahead of it, and from then on
  neither the presence monitor nor a clear refunds it, while it plays on. `PaidMarkStays`
  excuses it by `strays`, as it does an item whose delete was refused and which the handler
  forgets all the same. A poll that lists an item between its add and its `insert_at` leaves
  two entries of it in memory, of which the next poll keeps the later; if that is the unpaid
  one, the mark is gone from memory and stays in the table until a restart loads it. An item
  bought during a clear is cleared without a refund. The presence monitor may
  delete an item that began to play since its look (`presence.py:93`). `insert_at` and
  `remove` renumber in memory and write one row, so stored positions drift
  (`shadow.py:336`). "admin" as kind of insert is the tail of an override.
* **Jobs.** Two calls of `run` before either is in `_running` both start (`manager.py:216`),
  which is why `ClaimedOnce` has to hold with two drains. An item added as a drain ends
  stays pending until something starts the next. `_fetch_queue.py:38` counts on one drain at a
  time; with two, one may claim an item that the other has requeued since its SELECT, and
  retries it by the old count: `MAX_FETCH_UPLOAD_ATTEMPTS` may then be exceeded, once for
  each such claim (`AttemptsBounded` without `stale` is violated after 23 steps).
* **Events.** A poll that read the playlist before a load can end the event's lock too
  early. Promos of a cycle that had begun before a fire land in its load: `StraysBounded`
  says two and not none. A purchase that asks in the gap between the pre-fire lock's end and
  the event lock can be lost.
* **Schedules.** A schedule that is on and recurs can be left without a job until it is
  edited or the service restarts: `create` and `update` take a time that is over, keep the row
  on, and `create`'s job is dropped by APScheduler (`admin_schedules.py:44-67`); an occurrence
  that comes due between an update's look at the clock and its `add_job` gets none; and a
  timed fire whose clear fails ends before it has re-armed (`scheduler.py:130`). A rule that
  has run out or cannot be parsed leaves its row on for good, with a time that is over
  (`scheduler.py:92`, `:140`). The re-arm arms a schedule switched off or deleted meanwhile. A
  schedule set back to a time that is over while it is firing may fire an occurrence twice.
* **MOTD.** Two admins at once can leave no default, or a template with an image that is
  gone; so can a crash in the middle of making or archiving a template. A `set_motd` that
  took effect and whose answer was lost, or a crash before its row, is not healed until the
  composition changes.
* **Saved playlists.** Calls that overlap on one list can fail on UNIQUE without a rollback
  and lose items.
* **Visibility.** A title reserved between the two reads of a parted database is shown once.
  Over several databases the completion of a promo or of a curated item is recorded although
  `_catalog.py:713` exempts it, and over one that of a promo whose list names it by its
  address. The purge at start-up compares raw media ids. The page at `pages.py:158` counts
  without the length limit its list has.
* **Completion.** Two plays of one item with no poll of another between count as one; a play
  under way at a restart is judged by the rest of it.
* **Devices.** Two exchanges of one pad that overlap get a key each. Expiry of one-time
  codes is a comparison of strings.
* **Downloader.** Recovery after a lost answer may, by its title, report another item;
  making an entry richer replaces its sections; two runs on one video can upload a file
  nobody checked; single and batch runs report a token that was there already, playlist runs
  do not.
* **Sync.** A sync beside a hide shows the item until the next one has passed. A page that
  shifts after a deletion prunes a live row until the next sync. A row an admin deletes
  during a sync comes back. Reserved rows are left out of the count the guard against a short
  listing goes by (`sync.py:70`, `_catalog.py:440`), so it lets more rows go than its 100 and
  75% say: of 100 rows and 30 reserved ones beside them 75 may be left. An
  edit that is not sent to MediaCMS is overwritten. An edit is logged before it is refused.
* **Enrichment.** A forced run overwrites an admin's title; a dry run stamps titles and
  tags; a failed push is stamped all the same; films no provider knows keep their place in
  the limit.
* **CMS tools.** An interrupt between PUT and restore loses the owner; `enrichtv` may write
  a text that scores lower; `enrichtitles` does not catch a failed PUT.
* **Workbook.** Rows moved during a job get an address of another film; a film changed
  beside a filled cell keeps the old address; titles added to the played movies while the
  job rewrites them are lost; a section with nothing resolved keeps its last list.
* **Look-ups.** A year is not part of the cache key; a failed look-up is kept as a miss;
  OMDb refusing TMDb's number mixes two films; raw "S04 Ep 20" is read as season 1; "S1 E2"
  with a space is classified without a season; a leading year leaves no name; hosted titles
  with an episode code are passed over by `enrichmeta`; the site takes the first series
  found; a YouTube title with "Full Movie" loses a year after it.
* **Rules.** A stream without height or rate makes the sort raise, and the download loses
  all formats of that source; separate streams over the cap precede combined ones within it;
  a tag matched under another spelling is also reported missing.
* **Sockets.** A page opened while the handler of the user's older page is still there is
  taken out of the map by that one's clean-up (`manager.py:30`).

## 9. Plan

1. Proofs: `MotdSafe` without its hypothesis, for what is left of it when two runs overlap;
   `NoFreeRide` with restarts, as far as it holds.
2. Abstract specifications: an event that opens and closes the queue, implemented by
   `ScheduleFire` and by `Schedules`; an atomic register, implemented by the saves of
   `MotdTemplates`.
3. Composition of `PayQueue` and `ScheduleFire` at the level of items that are paid, cleared
   and refunded; of `Downloader` with `FetchQueue`.
4. The cadence and place of promos; the presence monitor's clock; categories in enrichment.

## 10. Not modelled

* **Configuration, logging, start-up**: wiring; what start-up does to a component's state is
  in its module.
* **Front end**, page routes, moderation and feedback handlers: browser code, or single
  statements (a ban's effect on keys is in `Devices`).
* **One-time codes and sessions**: signed cookies and single statements.
* **TMDB index**: a bulk import from an export file into a table of its own; sequential.
* **Images and covers, emote rehosting**: files copied one after the other and kept under a
  hash; repeating a copy changes nothing.
* **Database migration tools**: run once, by hand, while the service is stopped.
* Of modelled components: wording, prices, log capture, the parameters of jobs, search
  ranking, facets and paging of the catalogue, how a workbook is signed in to and laid out,
  preview of templates, pings of sockets, the format of codes and keys, interactive picks of
  the command-line tools, sites and prompts of the downloader.
