# A formal model of libtv

libtv sells AI generation (video, image, audio, text). A user arranges nodes on
a canvas in the browser; a node is generated by the server, which takes credits
first, asks a third party, waits for minutes and stores what it gets. Around the
studio are the pages where videos are published and discussed, points are
bought and administrators put right what went wrong.

Two things are hard here. On the server, the user's credits, the table of
reconciliation rows, the queue and the stored canvas have to agree although no
transaction spans them and any process may die at any point. In the browser,
every page keeps copies of what the server has, asks for more, and is told later
than the user acts. The modules beside this file model both; TLC checks them on
small instances, and TLAPS proves the central results for instances of every
size.

Server code is `src/server/internal/` (Go, Postgres, Redis) and paths below are
relative to it; front-end code is `src/web/src/` (TypeScript, React) and named by
its file. `PROJECT.json` maps every definition to its lines and lists every
hazard with the properties aimed at it.

## 1. Inventory

### Server

| Component | Code | State | Operations | Module |
|---|---|---|---|---|
| Reconciliation table | `repository/provider_task_repo.go` | rows of `provider_tasks` | upsert by charge key or task id; claim, confirm, revert a manual refund; the newest outstanding charge | `ProviderTasks` |
| Billing ledger and policy | `billing/ledger.go`, `policy.go` | none of its own | `Record`, `AlreadyRefunded`, `RefundManually` | `VideoCharge`, `SyncCharge` |
| Credits and bill entries | `billing/service.go` | balance, `billing_records` | charge, refund, recharge | `VideoCharge`, `SyncCharge`, `Recharge` |
| Video executor | `engine/executor.go` | locals of a run | `VideoExecutor.Execute`, `handleDownloadFailure`, `refundCharge` | `VideoCharge` |
| Text, script, image and voice executors | `engine/executor.go`, `element_edit.go` | locals of a run | `Execute` of each, `syncTask.settleFailure`, `chargeAlreadyDone` | `SyncCharge` |
| Task references, refund markers | `llm/asyncresume.go` | Redis `task:*`, `refunded:task:*` | load, save, take, clear; mark, unmark | `VideoCharge` |
| Video provider client | `llm/video.go` | the provider's task | create, poll | `VideoCharge` |
| Generation queue | `queue/queue.go` | Redis stream, pending entries, retry set, dead letters, `lock:exec:*`, `done:exec:*` | enqueue, deliver, handle, renew, reclaim, move due retries, restart | `GenQueue` |
| Queued execution handler | `handler/workflow_handler.go` | status of the execution | `Execute`, `HandleQueuedTask`, `runExecution`, `persistNodeOutput(s)` | `GenQueue`, `CanvasPersist` |
| Watchdog | `handler/execution_watchdog.go` | none | sweep, judge, close, repair the canvas | `VideoCharge`, `SyncCharge`, `CanvasPersist` |
| Canvas and project services | `repository/canvas_repo.go`, `service/canvas_service.go` | canvas documents with a version | save with merge and retry | `CanvasPersist` |
| Payments and recharge | `service/payment_*.go`, `wechat_pay_service.go` | orders | create, notify, query, claim, credit, roll back | `Recharge` |
| Idempotency store | `idem/idem.go` | Redis keys | begin, finish, release | `DirectCall` |
| Direct calls | `handler/prompt_handler.go`, `previz_handler.go`, `billing/sync_call.go` | rows keyed `sync:*` | claim, charge, ask, settle | `DirectCall` |
| Forum, shows, comments | `service/forum_service.go`, `show_service.go`, ... | rows, media directories | create, edit, delete, review | `Forum`, `AdminPage`, `VideoDetail` |
| Workflow engine; enhance executor; audit; pricing; model clients; users; other content; storage; WeChat SDK, mail, configuration | | | | not modelled, section 6 |

### Front end

| Component | Code | State | Module |
|---|---|---|---|
| Canvas editor | `stores/canvasStore.ts`, `components/canvas/Canvas.tsx`, `utils/canvasGroups.ts` | nodes, edges, groups, history, clipboard, dirty flag | `CanvasGroups`, `CanvasStore`, `CanvasDrop` |
| Workspace | `WorkspacePage.tsx`, `useExecutionStream.ts`, execution store | project on the screen, streams, polls, saved canvases | `Workspace` |
| Image tools | `components/canvas/imageops` | one session, marks, runs asked for | `ImageOps` |
| Media cards | `components/nodes/*`, `NodeToolbar.tsx` | clips, uploads, frames, notes | `MediaNodes`, `Reshoot`, `TextNote` |
| Prompt panel | `components/panels/prompt` | a prompt in four places; model, size, mode | `PromptDraft`, `ModelChoice` |
| Script and storyboard | `components/nodes/script`, `utils/assetImageSync.ts`, `shotNodeSync.ts` | table of shots, assets, their nodes | `Storyboard`, `ScriptAssets`, `ShotFrames` |
| Scene editor | `pages/previz` | objects, characters, cameras, time line | `Previz` |
| Session | `stores/authStore.ts`, `services/api.ts` | token, disk, cookie, calls | `Session` |
| Points mall | `PointsMallModal.tsx`, `refreshCredits.ts` | an order and its poll | `PointsMall` |
| Video pages | `pages/videos`, `CommentPanel.tsx` | lists, counts, carousel | `VideoHome`, `VideoDetail`, `Banners` |
| Administration | `pages/admin` | lists, reviews, reconciliation | `AdminPage`, `Reconciliation` |
| Publishing dialog | `AddShowDialog.tsx` | video, cover, length | `ShowForm` |
| Forum page | `ForumPostPage.tsx`, `RichTextEditor.tsx` | drafts, uploads, replies | `Forum` |

### How they interact

A click on "generate" saves the canvas and calls `Execute`, which stores an
execution as *pending* and adds a task to the Redis stream. A worker takes the
entry, takes the lock of the execution and calls `HandleQueuedTask`, which
rebuilds the plan and runs the engine. For a video node the engine calls
`VideoExecutor.Execute`: it looks for a reference to a task it may resume, then
for a charge it may reuse, else it deducts credits and writes a row; it creates
the provider's task, saves the reference, polls, stores the video and marks the
row delivered, or puts the row up for review and returns the credits if the
provider refused. The other kinds of node ask a model that answers at once: no
reference, no marker, the row alone tells a later run what was charged. Each node is written to the stored canvas when it is done, the
whole result once more at the end. An error goes back to the queue, which
schedules a retry or writes a dead letter. Meanwhile an administrator may refund
any row that is up for review, the watchdog may close an execution that is over
its budget, and the page saves its own copy of the canvas. The browser follows
by a stream of events, polls when the stream breaks, and asks again after the
user comes back.

### What makes it hard

- *Crash and redelivery*: a process may die between any two calls, and another
  run of the same execution follows. Each store tells it only part of the story.
- *Interleaving*: a run, another run, an administrator, the watchdog and the page
  write the same row, the same keys and the same document.
- *Partial failure*: most errors of row writes, acknowledgements and Redis calls
  are logged and dropped.
- *Idempotency in many places*: task reference (GETDEL), refund marker (SETNX),
  row and order (compare-and-set), version of a canvas, key of a request.
- *At-least-once delivery*: entries, retries and restarts duplicate a task, a
  provider repeats its notification, a user repeats a click.
- *Late answers*: a page has gone on to another project, query, shot or user by
  the time it is told.
- *Copies*: closures of old renderings, editors with a text of their own, a
  document read half an hour before it is written.

### What makes each component correct

- *Table*: a refunded row stays refunded, a late write never reopens a settled
  row, one charge has one row, a row is claimed by one administrator.
- *Ledger, credits, executor*: a charge is returned at most once, never when its
  video was delivered, and "refunded" means that the credits came back; when
  nothing runs any more, every charge is delivered, returned or in a state in
  which an administrator can return it; no second charge while one is open.
- *Synchronous executors*: one click is charged once, a charge is returned once and
  never when its result was handed over, and none is out of everybody's reach.
- *Queue*: one engine per execution at a time, no task lost, what is done or
  refused stays so, the number of runs is bounded, every task comes to an end.
- *Recharge*: an order is credited at most once, and only what is credited is
  acknowledged to the provider.
- *Direct calls*: one request works under a key, a charge that bought nothing is
  returned, once.
- *Canvas documents*: what was produced and stored stays, whoever saves an old
  copy over it, and a thumbnail is that of its picture.
- *Canvas in the browser*: groups, references and history stay whole, edits are
  known to be unsaved, results land in their own project.
- *Pages*: what was typed is what is kept and sent, a list is the answer to the
  question on the screen, every wait ends.

## 2. Modules

| Module | Contents |
|---|---|
| `ProviderTasks` | one reconciliation row and the pure functions the SQL computes on it |
| `VideoCharge` | the money of one video node: runs, refund clicks, watchdog, provider, Redis |
| `SyncCharge` | the money of one text, script, image or voice node: what it draws on, runs, clicks, watchdog |
| `ChargeLifecycle` | what is promised about a charge; `VideoCharge` and `SyncCharge` end with a mapping of their state to it |
| `GenQueue` | the queue on a Redis stream and the handler behind it |
| `CanvasPersist` | the stored document of a project and all who write it |
| `Recharge`, `PointsMall` | buying points: the server, and the browser on top of it |
| `DirectCall` | prompt and scene calls: idempotency key, charge, model, settlement |
| `CanvasGroups`, `CanvasStore`, `CanvasDrop` | containers and their geometry; the canvas and its history; what is dropped on it |
| `Workspace` | projects that are opened and left while executions of them run |
| `ImageOps`, `MediaNodes`, `Reshoot`, `TextNote` | the tools of a picture, the cards of media, a part made again, a note |
| `PromptDraft`, `ModelChoice` | writing a prompt; choosing what it is generated with |
| `Storyboard`, `ScriptAssets`, `ShotFrames`, `Previz` | shots, pictures of assets, frames of a shot, the scene in three dimensions |
| `Session`, `VideoHome`, `VideoDetail`, `Banners`, `AdminPage`, `Reconciliation`, `ShowForm`, `Forum` | the pages around the studio |
| `VideoCharge_proofs`, `SyncCharge_proofs`, `GenQueue_proofs`, `PointsMall_proofs`, `DirectCall_proofs`, `CanvasPersist_proofs`, `Workspace_proofs`, `Session_proofs` | the proofs |
| `MCAdmins`, `MCQueues`, `MCVisits`, `MCScript`, `MCCards` (which extends it), `MCPages` | compositions for TLC, of modules or of worlds; the other runs take their module as it is |

Each module opens with a comment on what it stands for and from which files.
Conventions they share: an event handler of the browser, with everything it
calls synchronously, is one action, and what it awaits comes back in another; a
server's call that reads or writes shared state is one action, and the local
code up to the next such call belongs to it. A request is a member of `asks` (or
of `jobs`) that keeps what its closure keeps. `Losses`, `Faults` and the troubles
of a world name the calls that may fail; `Habits` names the ways of a user, or
the circumstances, under which a page is known to go wrong, so that such a
disagreement of section 4 is one change of one constant. Where it would leave out
what every user does, the module lets it happen and an *observer*, a
variable that is no state of the page, notes what its property excuses:
`mishaps` in `ShowForm` (a frame that failed or came late, a form submitted before
all had come, a lost answer), `newest` and `unheard` in `AdminPage`, `sent` in
`Reconciliation`, and `old` of a request (asked by the closure of an earlier
rendering). A text, a picture or a
prompt is the number of the act that made it.

### `ProviderTasks`, `VideoCharge`, `ChargeLifecycle`

One node of one execution. Every amount of a row is the whole charge or nothing,
so an amount is a Boolean. A run takes at most one charge and creates at most
one task, so charge key and task id of run `r` are both written `r`; which of
the two a row is keyed by (`RowKeys`) still matters and is kept.

| Variable | Code |
|---|---|
| `act[r]` | program counter of a run and its local variables `taskRef`, `chargedAmount`, `resumeRef` |
| `click[a]` | one request to `RefundManually`, with the columns `ClaimForRefund` returned |
| `charged`, `bill` | deductions and refund entries of `billing_records` |
| `rows`, `order` | `provider_tasks`; `order` stands for `created_at` in `ActiveChargeByNode` |
| `ref`, `marker` | the task reference and the refund markers in Redis |
| `upstream`, `given` | the provider's tasks (external), and deliveries in `generation_history` |
| `msg`, `retries`, `exec` | the entry of the queue, `Task.Retry`, status of the execution |
| `dog` | the watchdog between its reads and its writes |

Labels of a run follow the order of `VideoExecutor.Execute`:

    load -> check -> charge -> recordCharge -> create -> saveRef -> hook -> poll
    failed:    recordFailure -> takeRef | askRefunded -> mark -> pay
                 -> recordRefund -> consume            (pay failed: unmark -> restore)
    delivered: download -> history -> recordDelivered -> clearRef
    download failed: countFailure -> abandon -> recordAbandon

`Crash` kills a run at a label of `CrashAt` and puts its message back into the
queue, as the reclaimer would; `Finish` and `Redeliver` are what the queue does
with the outcome; with `Overlap` the queue may deliver the message while its run
is still alive. Abstractions: prices, notes and addresses; the three attempts of
a download are one success or failure; the 24 hours that references and markers
live are taken as longer than any run; `Restore` writes the reference and the
row in one action; failures of Redis on references are left out. One provider
path (a task id, then polling) stands for all.

In `ChargeLifecycle` a charge is `none`, `open`, `delivered` or `returned`; one
is open or delivered at a time; the balance moves by exactly one charge when it
is taken and when it is returned. The mapping reads state and balance
off the bill entries, the deductions and the history, never off the rows: the
promise is about the money, and the rows are the machinery that must keep it.

### `SyncCharge`

One node of one execution whose model answers while the worker waits. A run takes
at most one charge, so the charge key of run `r` is written `r`.

| Variable | Code |
|---|---|
| `kind`, `input` | type of the node, and what the executor makes of the canvas: refuse before it charges (`"bad"`), go through without a model, or ask |
| `unit`, `credits` | price of a call (0 when none is set), balance of the user |
| `act[r]` | program counter of a run and `chargedAmount`, the charge key in its context, pictures asked for |
| `click[a]` | a request to `RefundManually` and the row it claimed |
| `charged`, `bill` | deductions and refund entries, with their amounts |
| `rows`, `order` | `provider_tasks`, and `created_at` in `ActiveChargeByNode` |
| `given` | charges whose result reached the user |
| `msg`, `retries`, `exec`, `closed` | the queue's message, status of the execution, and whether the watchdog closed it |
| `trouble`, `faults` | what goes wrong in this behaviour, and how often it did |

    read -> check -> charge -> submit -> call -> store -> deliver -> history -> handed
    refused by the model: settle -> pay -> recordRefund -> ended
    no answer, or pay failed: review -> ended

`ReadNode` says for each kind of node what `Execute` refuses before it charges;
which texts and pictures a node draws on is a small record of what it mentions
and what is linked to it. `Check` is `chargeAlreadyDone`. `Crash` may hit a run
anywhere but in the windows that a trouble of their own opens (section 4); the
message is delivered again after `Fail` if the failure may be retried, `SkipDone`
and `RefusePlan` are the ways out of `HandleQueuedTask` before the engine. What
the queue guarantees, one run after the other, is assumed (`RunsNeverOverlap`).
Left out: wording of prompts, sizes, the composition of an edited picture.

### `GenQueue`

An entry's id is its position in `stream`. Entries after `cursor` are unread,
`pending` ones are delivered and not acknowledged, `idle` ones among them have
an expired lease. `con[c]` is where worker `c` (or the reclaim goroutine, which
handles entries too) is inside `handle`. Labels follow `handle`: done key, lock,
`HandleQueuedTask`, engine, done key / retry / dead letter, acknowledgement, and
the deferred release, which deletes the lock whoever holds it. `phase` walks
through `reclaimLoop`: clear the locks, take over old entries (one second at
start, 900 seconds later), handle them, move due retries.

Time is abstract: a lease or a lock expires when nobody renews it, and with
`Stall` also under a live worker. A retry is due when the consumer that
scheduled it has left `handle`, because the shortest backoff is 30 seconds.
Left out: removal of stale consumers, recreation of a lost group, the set of
executions in flight (statistics only), the watchdog's writes of status.

### `CanvasPersist`

`doc` is the stored document (a picture, a thumbnail, a prompt and a presence
for each node) with its `version`; `tab` the page's copy, `run[x]` the copy an
execution read when its plan was built, `write[w]` a call of
`canvasRepo.Save` by the page, an execution or the watchdog, between its read and
its update of the version it has read. A lost race is retried with what it had
merged, three times. `lock` is the lock of the project that executions take
around a write. Left out: the creation of a canvas and the removal of a project.

### `Recharge`, `PointsMall`, `DirectCall`

`Recharge` has an order of either channel, the money at the provider (external),
and workers of the server, each a request: a notification, or the browser asking
after an order. A worker claims the order, adds the credits, reads the balance,
and undoes the claim if a step fails. A *world* chooses the channels and the
faults at the start: `add`, `balance` (the balance cannot be read), `gone` (the
page is closed, and the context of its request with it), `late`, `resend`
(notifications overlap), `crash`. `PointsMall` adds the page that buys, polls
every three seconds, closes, and refreshes the balance on the screen.

`DirectCall` has requests with one idempotency key, from one click repeated or
from two tabs. Each claims the key, charges, asks the model and settles its own
row; every call but the settlement uses the context of the request. A *trouble*
chosen at the start is what may go wrong.

### The front end

`CanvasStore` takes one event of the browser, with the flush of what React Flow
queued, as one action; the timer after a drag is not part of it. `CanvasGroups`
computes positions of nodes relative to containers in one dimension. `Workspace`
has one project on the screen, canvases at the server, executions with their
events, a stream and a poll for each, and what is saved on leaving.
`PromptDraft` keeps a prompt in the node, in the panel, and in the DOM of two
editors. `Storyboard` asks which copy of a shot a handler writes back: the one
it saw when its shot, its mode or its model last changed. `ScriptAssets` and
`ShotFrames` find nodes by links and by fields. `Session` has one page
of a browser, its disk and the cookie it shares with its sister sites, and the
renewal of the token. The other modules are one page each.

Modules that share nothing are checked in one run with a `focus`, chosen at the
start: interleaving their steps would multiply states and show nothing, as no
variable is common. `MCCards` has `pick`, `prompt`, `note`, `cross`, `image`,
`edit`, `clip`, `unclip`, `part`, `drop`, `undo` and from `MCScript` `board`,
`asset`, `frame`, `copy`, `scene`; `MCVisits` has `visit` and
`queue`; `MCPages` has `mall` (the points mall with
the server), `direct`, `persist`, `session`, `home`, `admin`, `rows`, `show`,
`detail`, `forum`, `crowd` (the forum with several users) and `banner`. In the
same way `MCAdmins` chooses a weather and `MCQueues` a kind of trouble, of which the
refusals are those of `GenQueue` with the constants of the configuration.

## 3. Runs

Every run turns deadlock checking off because each of these systems does stop:
all runs used, all messages acknowledged, every act of the user taken.

| Run | Instance | What it shows |
|---|---|---|
| `Settle` | 3 runs, no click, crashes at every safe label (below), failing refunds | `ImplementsLifecycle`; no charge returned twice or after delivery, no second charge while one is open, "refunded" means paid, refunded rows are final, every charge settled at the end |
| `Storm` | 2 clicks, in the storm with 2 overlapping runs, crashes around each payment and failing plan, charge, row write, payment and confirmation; in the calm with 3 runs in turn and crashes at every safe label | one refund per upstream task; two clicks never pay for one row; with administrators at work too, no charge is left unsettled |
| `Sync` | 3 runs and 2 clicks, every kind of node and every input, prices 0 and 1, calm and eleven troubles | one click is charged once and what is charged is returned once, whole; what was handed over stays paid; no charge ends out of reach; `ImplementsLifecycle` |
| `Live` | 3 runs, watchdog, crashes, failing payments and markers, fairness | every charge that was taken is eventually settled |
| `Queue` | 2 workers and the reclaimer; one restart with 2 executions, or every tolerated call failing with one, or refusals around a restart | one engine per execution, no task lost, what is done or refused stays so, at most `MaxRetry + 1` runs and one more per restart |
| `Edits` | a canvas with a group, a script and its edge; any 3 operations, undo and redo, the timer after a drag, writes of status | groups stay whole, nodes stay put, references go with their nodes, all edits can be undone and are known to be unsaved |
| `Visits` | 2 projects, 3 nodes, 2 executions, every request may fail, streams break; or 1 task of the queue, 1 restart, failing calls, lost replies; fairness | results land in their own canvas, a card fails only for a reason, every card stops turning, every task is brought to an end |
| `Cards` | the cards and panels, the shots, assets, frames and the scene editor, each under any order of a few acts and answers | what was typed or chosen is kept and sent, what is shown of a picture is so, the tables, references and nodes of a script agree, what is at hand is not changed, every wait ends |
| `Pages` | points mall with server, direct calls, the stored canvas with one execution, and the other pages; in the back office and the publishing dialog any act at any time, answers in any order, every list, refund, role, review, frame, look-up, submission and thumbnail may fail | credited once, money where it belongs, lists are asked for, what is shown belongs where and to whom it is shown (pictures, files, the session), a session, a product and a click are not lost, nothing hangs |
| `StartupClearsLock` | one restart, a crash between XADD and ZREM | *violation*: two engines for one execution |
| `WatchdogOpens` | a run without the queue that dies while the model works, the watchdog | *violation*: execution closed, row left `submitted` |
| `HoleOpens` | a WeChat order, the page closed while its poll credits | *violation*: acknowledged, never credited |

**Bounds.** `Runs` bounds how often an execution is run: with `MaxRetry = 1`
(`config.yaml`) three runs are a first run, a retry and one more after a crash;
two charges and a reuse, or a resumed task that fails twice, fit into three; in
`Sync` three runs are a charge, its reuse and a run after the settlement, and
`MaxFaults = 2` lets a trouble strike a run and the one that follows it. Two
clicks are the smallest race of administrators. `MaxEntries` of 3 to 5 leaves
room for the first entry, its retry and duplicates of either. `MaxLen` is as
large as `MaxEntries` in the passing runs, as the code's 1000 is to real
traffic. `MaxCrash` of one is one restart of the process; crashes of single runs
are bounded by `Runs` alone. Two workers of the server and two requests are the
smallest races in `Recharge` and `DirectCall`; `MaxFaults = 1` lets any one of
the calls of a world fail. `MaxOps`, `MaxActs`, `MaxTurns`, `MaxChanges` and
`MaxMarks` bound what a user does: every disagreement listed in section 4 is
found with three to five acts, so the bounds leave room for what is known to go
wrong. `ShowForm` has four acts and three shows, one of which is there at the
start: enough for each of its mishaps to break the property that excuses it
(checked by taking them out one at a time), and its properties also hold with
five. Two rows on pages of one, two filters, three categories are the least with
a second page, another filter, and a category to fall back on. `MaxHistory` of 3 is exceeded by three recorded operations, so that the
history is cut. `EveryChargeSettles` allows for the bound on `Runs` to be used
up while the message is queued (`OutOfRuns`).

**Safe crash labels.** `CrashAt` of `Settle`, `Live` and of the calm in `Storm`
leaves out the labels at which the code cannot be interrupted without harm; they
are the windows a fix would have to close:

| Label | What a crash there does |
|---|---|
| `recordCharge` | credits taken, no row: the next run charges again (`engine/executor.go:2738-2756`) |
| `pay` | marker set, credits not returned: the next rejection skips the payment and calls the row refunded (`:359`) |
| `unmark` | the same after a payment that failed |
| `recordRefund` | credits returned, row still outstanding: the next run reuses the charge and may deliver (`:2886`) |
| `recordAbandon` | reference gone, row still submitted and so not claimable |
| `ended` | delivered row, message not acknowledged: `ActiveChargeByNode` still offers the charge: a second video for nothing, or a refund after delivery if the second task is resumed and rejected |

In the queue the unsafe places are `moving` (between XADD and ZREM of a due
retry: the task is duplicated, see `StartupClearsLock`) and, for refusals, the
windows before a done key or an acknowledgement is written.

**Fairness.** Goroutines that are alive run: weak fairness on the steps of a run,
a click and the watchdog, on delivery of a queued message, on the handling of a
request. Nobody is forced to click, to crash or to enqueue. In `Visits` the leases of the
queue run out and the ticker of `reclaimLoop` ticks, which the clock guarantees.
`MoveAdd` has strong fairness: it is enabled once in every round of the loop, not
continuously, and the code moves every due retry each time. A provider repeats a
notification until it is acknowledged, hence strong fairness on `Notified`. In
the browser, a request is answered or fails, and a timer that is set runs out.

## 4. Disagreements

### Findings

- `StartupClearsLock`: `clearStaleLocks` runs after the workers have started and
  deletes locks they have just taken (`queue/queue.go:508`, against the comment
  at `:505`); with a retry duplicated by a crash between XADD and ZREM two
  engines run one execution.
- `WatchdogOpens`: the watchdog writes `pending_review` only for nodes with a task
  reference in Redis (`handler/execution_watchdog.go:168`), which only video nodes
  have. When a run that was started in the process (no queue) dies while its model
  works, the row of its charge stays `submitted`; `ClaimForRefund` refuses such rows
  because "进行中的任务由看门狗判定超时后落成 pending_review 再退，路径是通的"
  (`repository/provider_task_repo.go:427`).
- `HoleOpens`: `GetOrder` hands the context of its request on
  (`handler/payment_handler.go:92`); when the page is closed after the claim, the
  credits are not added, the claim is not undone, and the next notification is
  acknowledged, the outcome `handler/wechat_pay_handler.go:46` means to avoid.

### Widened configurations

The following show up when a configuration is widened, and are why it is as
narrow as it is.

| Change | Property that fails | Reason |
|---|---|---|
| `Settle` with one click | `RefundedIsFinal` | `RevertRefund` has no condition on the status and reopens a row a run has refunded (`repository/provider_task_repo.go:461`) |
| `Settle` with one click | `RefundOncePerCharge` | a rejection without a task id has no marker; a click between `AlreadyRefunded` and the row's final write pays a second time (`billing/ledger.go:143`, against `billing/doc.go:15`) |
| `Settle` with `pay` in `CrashAt` | `RefundedMeansPaid` | marker without payment, as above |
| `Settle` with `recordRefund` in `CrashAt` | `DeliveredNeverRefunded` | reuse of a returned charge, as above |
| `Settle` with `recordCharge` in `CrashAt` | `OneOutstandingCharge` | charge without a row, as above |
| `Settle` with `Watchdog` | `DeliveredNeverRefunded` | the watchdog judges before a run starts and closes after its `SaveTaskRef`: its row, keyed by the task, stays outstanding after the refund and is reused by the next run, which delivers |
| `Settle` with `Watchdog` and `OldSuccess` | `SettledWhenQuiet` | an older success on the canvas and no reference count as a delivery (`handler/execution_watchdog.go:130`) |
| `Settle` with failing `charge` | `SettledWhenQuiet` | a retry spent on a failed charge leaves too few for the limit of download failures: the message is given up with the row still `submitted`, which nobody can claim (`engine/executor.go:433`, against `:2703`) |
| `Settle` with failing `plan` | `SettledWhenQuiet` | a redelivered message whose plan is refused leaves the charge of the crashed run open, without a claimable row |
| `Storm` with failing `pay` in the calm | `AdminsSettle` | the click's marker makes the run skip its payment, the click's payment fails, the run calls the row refunded |
| `Storm` with failing `mark` | `RefundOncePerTask` | `TryMarkRefunded` answers true when Redis fails (`llm/asyncresume.go:255`) |
| `Queue` refusing with `ack` in `CrashAt` | `RefusedStaysRefused` | a refusal writes no done key (`queue/queue.go:330`) |
| `Queue` with `MaxLen = 1` | `NoTaskLost` | XADD trims unread entries (`queue/queue.go:94`) |
| `Queue` with failing `dead` | `NoTaskLost` | acknowledged although the dead letter was not written (`queue/queue.go:346`) |
| `Queue` with `MaxRetry = 2` and failing `done`, `find`, `move` | `NoTaskLost` | a retry moved twice: its second copy reschedules the member being moved, and ZREM deletes it |
| `Queue` with `reply` | `OneRunPerExecution` | a lost reply of XADD: the execution runs in the process, without a lock, and in the queue |
| `Queue` with `Stall` | `OneRunPerExecution` | no fencing token: a worker that lost its lease goes on, and its release deletes the next holder's lock |
| `Queue` with failing `find` | `DoneIsFinal` | when the done key could not be written and the database does not answer, the engine runs again |

### Observations on the server

- A run that reuses an earlier charge and is rejected does not return it
  (`chargedAmount` is 0), although `billing/policy.go` promises an automatic
  refund: the charge stays in review, which `SettledWhenQuiet` accepts.
- Synchronous nodes: the windows in which a process must not die are between the
  charge and its row (`"unrecorded"`: later runs charge again), between a refund and
  its row (`"unsettled"`: the next run takes the charge for outstanding, delivers it
  for nothing or returns it again), and between the last row and the end of the
  execution (`"unacked"`: `ActiveChargeByNode` still offers a delivered charge, so the
  next run asks the model again for nothing and returns the charge if it refuses, and
  a failure that needs a review does not get one; after a refund it charges again).
  Errors of row writes are dropped (`"record"`), with the same effects. When the
  canvas is edited, its node is gone or a picture cannot be read any more at the
  redelivery (`"edit"`, `"gone"`, `"unread"`), or an old success counts as delivered
  (`"stale"`), the row of the first run stays `submitted`, out of everybody's reach.
- Image nodes: a composed picture that cannot be stored falls back to the address of
  the upstream (`executor.go:2173-2176`) and its row says delivered (`:2093`). A linked
  image node without a picture is sent as an empty one (`:1692-1698`): the user is charged,
  the call fails before it reaches the model (`llm/image.go`, `ConvertLocalImageToBase64`), and
  the charge waits for a manual refund. The comment at `:1670` speaks of the first
  upstream picture; all are used.
- `ClaimForRefund` does not return `charge_key`, so the bill entry of a manual
  refund has none (`repository/provider_task_repo.go:437`, against
  `billing/ledger.go:130`), nor has that of an unreadable picture
  (`previz_handler.go`, against `sync_call.go:91`).
- `Execute` asks `ListActiveByProject` and then creates the execution
  (`workflow_handler.go:132-166`): two submissions may both pass, and an error of
  the listing skips the guard.
- Recharge: `billing.Recharge` returns an error when the balance cannot be read
  after the credits were added (`service.go:677-683`); the claim is rolled back
  and a retry credits again, against `payment_shared.go:61-63`. `AckedIsCredited`
  also fails with a late request and with a crash between claim and credits.
- Direct calls: a refused charge, an unreadable picture and a page closed while
  the model works leave the claim in flight for up to five minutes, so that a
  retry hears "正在生成中" (`prompt_handler.go:194-200`, `previz_handler.go:126-170`,
  against `idem.go:148`). A page closed between the answer and the row leaves it
  `submitted`, which no administrator can refund. The key lives as long as the
  client's time-out, and `Release` and `Finish` have no fencing.
- Stored canvas: `persistNodeOutputs` merges into the document read before the
  engine ran and saves it whole (`workflow_handler.go:305`, `:699-761`, against
  `:754` and `canvas_repo.go:47`): prompts edited meanwhile, deleted nodes and
  newer pictures of other nodes are overwritten by older ones. `CanvasPersist`
  shows what survives this: no product is replaced by nothing. The watchdog takes
  no lock. A failed thumbnail leaves the old one beside the new picture
  (`executor.go:2053`), and the watchdog's repair writes a picture without one.
  A save that lost a race keeps what it had merged, so that its retry can replace
  a newer product, and it gives up after three.

### Observations on the front end

Each is a violation under the member of `Habits`, `Slips`, `Losses` or `Faults`
given, or of a property no run checks.

- Session: signing out or in with requests under way (`"quick"`), or a first request
  that fails though its token is good (`"start"`, `authStore.ts:144-149`), puts the
  data of one session on the screen of another and breaks `SessionEndsOnce`.
- Workspace: the back arrow deletes a project whose canvas is still loading
  (`WorkspacePage.tsx:238-252`); the final event of an execution saves the current
  project with no nodes while it loads (`useExecutionStream.ts:553-566`); the
  button of a node stays disabled after leaving and returning
  (`executionTerminal.ts:67`).
- Canvas: `EdgesConnectNodes` is violated by deletions (`Canvas.tsx:569-572`); a
  drop saves whatever project the store holds under the drop's project
  (`Canvas.tsx:794-798`, `"leave"` in `CanvasDrop`); a spinner survives undo.
- Image tools: `HdSubmitsAgain`, `StaleInstruction`, `DoubleEnter`, `GhostDrag`
  (`SplitConfig.tsx:193-199`, `ElementEditOverlay.tsx:352-364`, `:469-478`,
  `SplitOverlay.tsx:40-73`).
- Media cards: `SizeFits` with answers in another order (`VideoNode.tsx:252`);
  the range of a reshoot is reset (`NodeToolbar.tsx:187-189`); what is typed is
  lost when a generated text crosses it (`TextNode.tsx:154`).
- Prompt panel: the last words may be lost and marks dangle
  (`PromptPanel.tsx:606-611`, `:639-643`, `:729-759`); a model of another provider
  stays chosen after the channel moves (`:648-657`).
- Script: `NumbersFollowRows` `"again"`, `EditsStand` `"meanwhile"`,
  `SavesOwnCanvas` `"leave"` (`PromptMergeModal.tsx:318-345`); `ReferenceIsUsers`
  `"bare"`, `OriginalKept` `"borrow"`, `DraftStays` `"type"`, `FilesTaken`
  `"overlap"` (`assetImageSync.ts`); `CloneIsASlot` `"paste"`
  (`shotNodeSync.ts:163-176`).
- Scene editor: the export records with the camera and the scene of another node
  (`ExportPanel.tsx:147-150`); a failed save is skipped afterwards; the answer of
  an analysis lands in another empty scene.
- Pages: `CookieIsDisk` (`authStore.ts:136`); pages of two queries in one list
  with `"hasty"` (`VideoListPage.tsx:298`); a comment shown twice
  (`VideoDetail`, `NoneTwice`); media of a reply that is posted while its post is
  deleted stay (`forum_service.go:452`); the carousel stops after its first
  rendering (`VideoListPage.tsx:548-559`).
- Back office: a list that fails leaves the rows of the filter, page or category
  before under the new one, without a word on the page
  (`ProviderTaskReconciliation.tsx:388-391`, `AdminPage.tsx:159`, `:189`, `:379`); so
  does an answer that another overtakes. An audit, a change of a role and the
  listener for the return of a page load with the filter or the category they
  were begun under (`ProviderTaskReconciliation.tsx:955-988`,
  `AdminPage.tsx:1326-1368`, `:570-580`). All three are in the
  run: `ListIsAsked` therefore says that the *last* question is about what is
  marked, unless one of these closures asked it. A category that was deleted stays marked
  when the list of categories then fails (`AdminPage.tsx:419-437`) or when it was
  the last one and the tab is entered again (`:521-526`). A click on a row of an old list of
  shows under review takes a published show back: neither page nor server looks
  at what it is now (`AdminPage.tsx:462-486`, `show_service.go:143-150`), so no property says that what
  is published stays so. In the dialog of a banner, leaving it (`"close"`) or
  submitting it (`"early"`) during an upload gives a banner the picture of another
  or none (`AdminPage.tsx:269-283`).
- Publishing dialog: a cover stays that is not of the video when no frame could be taken
  (`"capture"`, `AddShowDialog.tsx:340-344`), when a frame or the show of the project comes
  after the form holds another video (`"other"`, `:396-417`, `:257-275`), when the form is
  submitted before they came (`"hurry"`, `:419-434`), when an address is typed over a
  file whose upload failed, of which no frame is taken (`"typed"`, `:397`), when the
  thumbnail fails or an answer is lost after the row was written (`"thumb"`,
  `"answer"`, `:451-468`). In the last two cases the row of a new show is not kept,
  so that submitting again makes a second one; so does a look-up that fails or
  is not waited for (`"lookup"`, `"hurry"`, `:280-281`). An upload that outlives its
  dialog fills the next one. `DurationFits` fails: the first length stays
  (`:334`). `CoverFitsVideo` and `OneShowPerProject` hold where no such mishap
  happened; each of them is needed.

## 5. Proofs

All theorems hold for sets of any size and any bounds. Each component's proofs
are in a module of their own; the strengthened invariants were checked with TLC
on the instances of section 3 before they were proved. An assumption is named
and says what trouble it leaves out; without it the property is false, and
section 4 has the counterexample, unless noted otherwise.

### The money of a node in any weather: `VideoCharge_proofs`

From `VideoChargeAssumption` only (the sets are disjoint, the bounds are numbers),
any crash labels, with or without overlapping delivery and with the watchdog:

- `TypeCorrect`: `Spec => []TypeOK`, one lemma per group of actions.
- `RefundedOncePerTask`: `Spec => []RefundOncePerTask` if `"mark" \notin Faults`,
  that is, if Redis answers the SETNX. A payer *holds* a task from winning the
  marker until it has paid or withdrawn. The invariant says that a task that is
  held or was paid for is marked, and that no two payers hold, or have paid for,
  the same task. Marking is then the only step that could bring in a second payer,
  and it requires the marker to be absent. A marker of a dead payer stays, which
  covers crashes.
- `RefundedManuallyOncePerRow`: `Spec => []OneManualRefundPerRow`, for any faults. A
  click holds its row from the claim until it gives it back, for ever once it has
  paid; the row of a holder has the refunded amount set; two holders hold distinct
  rows. Every write of a run or of the watchdog keeps a refunded amount.
- `OnlyRevertReopens`: the only step that makes a refunded row something else is
  `RevertRefund`; hence `RefundedStaysRefunded`: without clicks, refunded rows are
  final.

### The money of a node in a calm world: `VideoCharge_proofs`

`Calm` says: no overlapping delivery, no watchdog, no clicks, row writes and
markers succeed, and no crash at the labels of the table in section 3
(`Unrecorded`). Every other crash, any number of them, and failing plans, charges
and payments remain. Each conjunct but the last of `Unrecorded` has its line in
section 4.

- `CalmHolds`: the inductive invariant `CalmInv`, a conjunction of what a label
  says about the run at it (`Flow`), what the bill entries add up to (`Ledger`),
  which rows there are for which charges (`Books`, `Booked`), whose task the
  reference names (`RefIsTrue`), what was delivered (`Delivered`), and that a run
  knows about its charge what the rows say (`RunKnows`). None is inductive
  without the others: that a charge is not returned twice depends on which run
  may still pay for it, that on which row is outstanding, that on the reference.
- From it: `ChargeReturnedOnce` (`RefundOncePerCharge`), `DeliveredStaysPaid`
  (`DeliveredNeverRefunded`), `ChargedOnceAtATime` (`OneOutstandingCharge`),
  `RefundedRowsArePaid` (`RefundedMeansPaid`).
- `KeepsThePromise`: `Spec => Lifecycle!Spec` for a finite set of runs, by
  refinement: each step maps to a charge, a delivery, a return or a stutter. The
  finiteness is needed to count charges for the balance.
- `NothingStaysOpen`: `SettledWhenQuiet`, if moreover `Steady`: plans and charges
  do not fail and `DownloadFailureLimit <= MaxRetry + 1`, which holds of the
  shipped values (2 and 1). The invariants `Asleep` and `Settling` say where the
  charge of an execution is while its message is queued or its run is dying.

### Synchronous nodes: `SyncCharge_proofs`

From `SyncChargeAssumption` (the sets are disjoint, funds and prices are numbers), for
any runs, clicks, prices and retries, in every trouble; where a trouble excuses the
code, the property itself says so.

- `InvHolds`: `Spec => []IInv`, the inductive invariant. Its base says that one run
  follows another and what a label tells of the run at it (`Serial`, `Fresh`,
  `Holding`, `ClicksHold`), that rows are those listed and name what was charged
  (`Listed`, `RowsAreTrue`), and that bill entries are whole and by those who may write
  them (`Bills`). On it rest: a charge that was paid back has a row that says so, or a
  run about to write it (`RowsTellRefunds`); a row follows its run, from submitted to
  delivered, and an occupied one is in review (`RowsFollowRuns`); what was given has a
  delivered row and no run to come (`GivenStays`); every charge has its row, or a run
  about to write it (`ChargesKnown`), so that one charge stands (`OneStands`), and one
  that gives way is on its way back (`RefundsArrive`); and a charge that is not settled
  is with a run, a click or a message (`NothingForgotten`). None is inductive alone:
  that a charge is not taken twice depends on the row of the first, that row on who may
  have paid it, and a payment on which of run and administrator holds the row.
- From it: `TypeCorrect` (`TypeOK`), `RefundedAtMostOnce` (`ReturnedOnce`),
  `WhatIsGivenStaysPaid` (`DeliveredStaysPaid`), `OneClickOneCharge` (`ChargedOnce`),
  `NoChargeIsForgotten` (`SettledWhenQuiet`).
- `SyncKeepsThePromise`: `Spec => ImplementsLifecycle` for finite sets of runs and
  clicks, by refinement: only `Charge`, the payments, `RecordGeneration` and `Hand` move a charge in
  `ChargeLifecycle`, and the balance counts deductions and payments.

TLC checked the invariant on the instance of `Sync` before it was proved.

### The queue: `GenQueue_proofs`

- `TypeCorrect`, together with `InStream`: what is pending, in a hand or in a batch
  is an entry of the stream.
- `RunsNeverOverlap`: `OneRunPerExecution` under `Once`: no worker outlives its
  lease, no reply of XADD is lost, and either there is no restart, or moves and
  acknowledgements do not fail and no crash comes between XADD and ZREM (with more
  than one restart, neither before an acknowledgement). The invariant `OnceInv`
  says that two consumers have different entries in hand (`Apart`), that a
  consumer past the lock holds it (`Locking`), what the clearing of locks at the
  start may take away (`Clearing`), and that during it an execution has one
  handler (`Single`).
- `NothingIsLost`: `NoTaskLost` under `Roomy` (no stall, dead letters are written,
  the stream is not trimmed) and `MaxRetry <= 1`, the shipped value. The invariant
  `KeptInv` follows a task from the stream through a hand to the retry set and
  back. Any other failing call, any number of restarts anywhere.
- `RunsAreFew`: at most `MaxRetry + 1` runs and one more per restart, under
  `OneCopy`: no reply lost, moves and acknowledgements succeed and are not cut off. `CopyInv` says that
  an execution has one copy in all of stream, hands and retry set; `Budget` that
  the retries left and the restarts had pay for the runs.
- `DoneStaysDone`: under `Once` and an answering database, no new run of an
  execution whose runs have succeeded: its status is final before its lock is
  given up. `RefusalsStand`: under `OneCopy` and no crash before the done key, the
  same of a refused execution. `RefusingRunsAreFew` and `RefusingIsFinal` carry both
  over to the composition `MCQueues` that the run `Queue` checks (`RunsStayBounded`,
  `RefusedStaysRefused`).

TLC checked `OnceInv` on 6.3 million states, and `KeptInv` on a part (60 million
states) of an instance too large to finish.

### Recharge, direct calls, stored canvas

- `PointsMall_proofs`: `PointsAddedOnce` (`Spec => []CreditedOnce`) if no world has
  the fault `balance`, for any orders, workers, crashes and requests cut off; and
  `MallAddsOnce`, the same with the page on top. The invariant says that two
  workers past the claim have different orders (`Exclusive`), that a worker about
  to undo its claim has not credited (`UndoneIsUncredited`), and that what is
  credited is claimed and what is claimed was paid for.
  `ServerAcksAreHonest` and `AcksAreHonest`: `AckedIsCredited`, without and with
  the page, if every world is `Smooth`: no crash, no rollback that fails, no balance
  that cannot be read, no request of WeChat Pay that is cut off, and where adding
  the credits may fail, Alipay alone, with one notification after the other. Each
  of these but the balance is a hole of the protocol: a request that finds the
  order claimed answers "success" on the word of another, which may still fail
  (`HoleOpens` is one). The invariant `Honest` says that a claim is in somebody's
  hands until it is credited (`ClaimIsHeld`), and that whoever is about to
  acknowledge may rely on it (`AckIsSure`). Both configurations of `Pages` that
  check `AckedIsCredited` are smooth.
- `DirectCall_proofs`, for any number of requests and any faults:
  `ChargeReturnedOnce`, without any assumption: the invariant relates where a
  request is to its row and its bill entries. `OneAsksAtATime`
  (`Spec => []OneAtATime`): `Alone` says that who asks the model has the claim, so
  that nobody else can take it. `FailuresFreeTheKey` (`FailureFreesKey`): in the
  worlds it is about, a claim belongs to a request that asks (`Freed`).
  `FailuresAreSettled` (`FailedIsSettled`): `Ordered` says that a page is closed
  no earlier than the model works, so that the row was written before, and that a
  row left open for an answer with holes stays so until its claim is released,
  unless the administrator returns the charge first. The worlds excluded are
  conditions of the properties themselves; section 4 says what happens in them.
- `CanvasPersist_proofs`: `ProductsAreKept`, once a picture is stored, no save of
  whatever old copy removes it, for any executions, nodes, edits and crashes. The
  invariant says that a save about to update the version it has read still holds
  the document of that version (`Current`), so that its merge has seen all that is
  stored.
  `ThumbsAreTheirs`: the thumbnail beside a picture is that picture's, if
  thumbnails are made and the watchdog repairs nothing.

### The workspace page: `Workspace_proofs`

From `WorkspaceAssumption` (nodes belong to projects, siblings to the same one),
for any projects, nodes and executions, and whatever requests or events are lost:

- `FailuresHaveReasons`: `Spec => []FailedForAReason`. The hard part is who may
  write `"failed"` into a canvas: a stream or a poll that ends, a resumed
  execution found gone, a card whose execution is gone, a save that carries an old
  copy. `KnownInv` says that whoever follows an execution knows its node and
  nothing else (`Followed`), and that every copy of a canvas, on the screen, at the
  server, in a load or a save under way, shows as failed only blamed nodes
  (`Known`); blame never goes away.
- `CanvasesStayApart`: `Spec => []CanvasesApart` if the user is `Patient`, that is,
  does not leave a page that waits for an answer. What waits for an answer is then
  about the project on the screen (`Apart`), but for the final save of an
  execution, which carries the project it was begun for. With `Hasty` it is false
  (section 4).

### The session: `Session_proofs`

From `Instance` (`None` is no user, one token at least), for any users, tokens and
acts, if the user is `Patient`: `"quick"` is no habit, so nobody signs out or in
while requests are under way, and `"start"` is no loss, so the first request fails
only if its token does. Otherwise an answer to the earlier session fills the later
one (section 4).

- `DataStaysMine`: `Spec => [](TypeOK /\ DataIsMine /\ DiskIsStore)`. The invariant
  `SessionInv` says that every request under way has a token of the store's account,
  which is as good as the store's or will be refused (`OneAccount`), that tokens are
  handed out in order (`Handed`), and that there is one request of the start
  (`Once`). Without `OneAccount` nothing is known of whose data an answer brings.
- `SessionsEndOnce`: `Spec => [][SessionEndsOnce]_vars`, from the same invariant.

### Only model-checked

Liveness and everything that needs ENABLED (`EveryChargeSettles`,
`EverythingEnds`, `NothingHangs`) is out of the prover's reach.
The properties of the other pages, cards and panels are not proved yet.
`AckedIsCredited` and the properties of `DirectCall`,
`CanvasPersist` and `Session` are checked as parts of larger properties of their
runs, and proved by the theorems above.
`AdminsSettle` adds clicks to `NothingStaysOpen`, whose proof leans on there being
none. `CanvasGroups` and the functions of the script modules are recursive or fold
over sequences; what they compute for every input needs induction over data, which
the prover has no rule for.

## 6. What is left

- *To prove*: `AdminsSettle`; the lists, pictures and reviews of the pages; the
  drafts and pictures of the cards. The invariants of `CanvasStore` rest on
  `NormalizeGroups`, a fold over the nodes, and stay with TLC.
- *Not modelled*: the workflow engine beyond a plan of one node; the executor
  that enhances videos, whose charge and refund are those of `SyncCharge` around
  another provider; the audit (read-only SQL); prices, model
  clients, storage, mail and the WeChat SDK (lookups, formats and external I/O);
  accounts and content services at the server (operations on single rows); the
  asset library dialog, pricing, packages, billing records, profile, the audio and
  enhance cards. `PROJECT.json` gives the reason for each.
- *Hazards without a property*: a worker that cannot renew its lease for 900
  seconds (`queue/queue.go:388`), false with `Stall`; a crash between a charge and
  its row (`engine/executor.go:2738`) and a stream that is trimmed
  (`queue/queue.go:94`), both of which do go wrong (section 4); the submission guard
  (`handler/workflow_handler.go:132`); an edit of the canvas that an execution
  overwrites (`handler/workflow_handler.go:699`), which it does.
- *Hazards covered in part*: a crash between a refund and its row
  (`engine/executor.go:2886`), a refusal between its outcome and its
  acknowledgement (`queue/queue.go:330`), a revert over a settled row
  (`repository/provider_task_repo.go:461`), the timer of the prompt panel
  (`PromptPanel.tsx:757`), the mishaps of the publishing dialog. The notes in
  `PROJECT.json` say what is left out of each.
