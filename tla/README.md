# Workboard: a TLA+ development of the server

Workboard is a task manager: projects, tasks, kanban boards, files, sharing,
reminders. The program that is deployed is the Node.js server in `server/`
(`DEPLOY.md`, `server/README.md`); `pkg/` is the Go implementation it replaces,
`frontend/` the web client, `veans/` a command-line client. This development
models the server, `server/src`, to which paths below are relative, and of the
client the two parts with a protocol of their own: the session that the tabs of a
browser share (`frontend/src/helpers/auth.ts`, `frontend/src/stores/auth.ts`) and
the live feed (`frontend/src/composables/useWebSocket.ts`).

## 1. The system

One Node process serves HTTP requests with asynchronous handlers over one MySQL
database. `lib/db.js` gives every handler `query` and `one`: each awaited call
is one SQL statement that commits by itself. Between two awaited statements of
a handler any other handler or job may run; a second instance of the server, or
a restart at any point, adds nothing new but the loss of what was in flight.
`transaction()` is used in two places only (the project cascade and the account
deletion). The schema has no foreign keys and few unique keys, so most rules
between rows are kept by the order of statements in the handlers, or not kept.

| component | state | operations | talks to |
|---|---|---|---|
| Kanban board (`routes/tasks.js`, `routes/misc.js`, `lib/taskViews.js`, `lib/repeat.js`) | `tasks`, `buckets`, `task_buckets`, the column ids in `project_views` | create, update, delete, bulk edit of tasks; move a card; create, edit, delete a column; edit a view | jobs, notifications, webhooks |
| Jobs (`lib/cron.js`) | what is in flight in a tick | reminders (1 min), repeating tasks (10 min), digest (24 h), deletions (1 h) | board, accounts, mail |
| Projects (`routes/projects.js`) | `projects` (a forest by `parent_project_id`), views | create, update, move, archive, delete with a cascade, duplicate | board, files, webhooks |
| Files (`routes/storage.js`, `routes/taskDetail.js`, `routes/account.js`, `routes/extras2.js`) | item rows, `files` rows, blobs on disk | upload, rename, delete, set avatar or background | projects, accounts |
| Sharing (`lib/permissions.js`, `routes/sharing.js`, `routes/teams.js`, `routes/linkShareAuth.js`) | `users_projects`, `team_projects`, `team_members`, `link_shares` | share, change, remove; members and admins of a team; permission of a caller is the largest of owner, share, teams | every route |
| Accounts and administration (`routes/account.js`, `routes/auth.js`, `routes/admin.js`) | `users`, tokens, TOTP secrets, sessions | reset, change of e-mail, deletion with a grace period, administrators | projects, mail |
| Task details (`routes/taskDetail.js`) | comments, reminders, relations, assignees, labels | create, replace, delete | notifications |
| Time tracking, bots (`routes/extras2.js`) | `time_entries` | start, stop, edit | |
| Realtime (`lib/realtime.js`, `frontend/src/composables/useWebSocket.ts`) | server: per connection, who it is and what it subscribed to; client: the current socket, callbacks, a reconnect timer, a flag that stops it | connect, sign in, subscribe, push, refuse, close, lose, reconnect | everything that notifies |
| Webhooks (`lib/webhooks.js`) | none kept | deliver | everything that notifies |
| Session of the web client (`frontend/src/helpers/auth.ts`, `stores/auth.ts`) | a token per tab, one in local storage, the refreshes under way | refresh, retry, sign in, sign out, reload | other tabs (Web Lock, storage), `routes/auth.js` |
| Filters, CalDAV, importers, export (`lib/filter.js`, `routes/caldav.js`, `lib/ical.js`, `routes/migration.js`, `lib/csv.js`) | none of their own | parse, convert, import | board |

What makes it hard: every check in a handler is a statement before the write it
guards; several related rows are written one statement at a time; a restart
loses the rest of a handler; jobs overlap handlers and, in a slow tick,
themselves. `PROJECT.json` lists each such place with its line under
`hazards`, and which property covers it.

What makes each component correct:

* Board: numbers of tasks without a hole or a repeat; boards that do not mix;
  every task on every board; done and its time stamp together; card and done
  agreeing; the WIP limit; a column left on each board; repeating tasks rolled.
* Projects: parents form a forest, a deletion leaves no child and no row behind.
* Files: a row that is shown has its blob, and an unreferenced blob is removed.
* Sharing: the effective permission is the one last given; a team, and the
  system, keep an administrator; the owner is never without access.
* Accounts: a cancelled deletion deletes nothing, shared projects survive their
  owner, a token works once.
* Jobs: each reminder once, and moved with its date. Timers: one running per user.
* Views: every task has its place in every view, and no place without a view.
* Sessions: signed out is signed out; one refresh per tab; newer tokens win.
* Feed: one connection, subscribed to what the tab wants; it comes back after a loss.

## 2. The plan

| order | module | content | theorems |
|---|---|---|---|
| 1, done | `Board` | the kanban board, with the repeating-task job and restarts | types, numbers, separation of boards, done stamps; a column on each board and a card for each task; what checkbox, dropped card and column deletion promise one at a time |
| 2, done | `FileStore`, abstract specification `FileShelf` | item row, files row and blob; uploads, deletions, backgrounds, avatars, the project cascade, with failing steps and restarts | types; a shown file is stored; the store implements the shelf; a request alone leaves nothing behind |
| 3, done | `ProjectTree` | create, move and delete in the forest, the cascade of an account | types; a lone move keeps the forest; a lone deletion leaves no orphan |
| 4, done | `Access` | shares, change of owner, administrators, deletion of an account, its job | ownership, stray rights, who gives permissions, which projects a leaver does not take along |
| 5, done | `Teams`, `Timers`, `ProjectViews`, `Reminders`, put side by side by `Services` | team membership; time entries; creating and deleting views beside tasks; the reminder job beside rolls and replacements | every invariant and `StoppedStaysStopped`; the composition |
| 6, done | `TabSessions` | tabs, tokens, refreshes under the Web Lock, sign-in and sign-out | sign-out, one refresh per tab, tokens move forward |
| 7, done | `Feed`, put beside `TabSessions` by `Client` | both ends of the live feed of a tab, losses, refusals and reconnection | the feed is current; the composition |
| 8, done | proofs | `Access`; the board's properties of one request at a time; the lock and the feed of the client | see section 5 |
| 9 | `ProjectTree` with `Access` | one deletion of an account that cascades through a tree with children of others | |
| 10 | `Accounts` | reset tokens, change of e-mail, the second factor | |
| 11 | pure algorithms | the filter parser against a reference grammar, iCalendar priorities | |

All modules have one action per SQL statement (or storage operation), parameters
as CONSTANTS with at most one named assumption each, and no RECURSIVE operator, so
that each can be proved about.

## 3. What is modelled

### The board

| file | content |
|---|---|
| `Board.tla` | state, one action per awaited statement of each handler and of the repeating-task job, fairness |
| `BoardProps.tla` | the type invariant, safety, action and liveness properties |
| `MCBoard.tla` and `board_*.cfg` | the instances TLC checks |
| `BoardProofs.tla` | the theorems |

State and code:

* `task[t]` is a row of `tasks`: whether it exists, is marked deleted, its
  `index`, `done`, `done_at` (null, less or more than ten minutes old: all the
  code tells apart) and its repeat setting (never; repeats but has no date to
  shift; repeats and has one).
* `bucket[b]` is a row of `buckets`, `view[v]` the two column ids of a kanban
  view, `card[v][t]` the bucket id in `task_buckets` for the unique pair of
  task and view. Ids are auto-increment numbers and a deleted row's id is not
  used again, which is why a stale id never comes to name another column.
* `req[r]` is what a handler in flight remembers: the statement it runs next
  (`pc`) and its local variables. A job tick is the same record in a slot of
  `Jobs`.

Handlers and actions, in the order of their statements:

| handler | actions |
|---|---|
| PUT `/projects/:project/tasks` | `ReadMaxIndex`, `InsertTask` or `InsertConflict`, `AddTaskToViews`, then per view `PickFallback`, `PlaceCard` |
| POST `/tasks/:task` | `BeginUpdate`, `WriteUpdate`, and if done was sent `SyncDoneBucket`, per view `PickFallback`, `PlaceCard`, and if it was set `RollRead`, `RollWrite` |
| DELETE `/tasks/:task` | `BeginDeleteTask`, `WriteDeleteTask` |
| POST `/tasks/bulk` | `BeginBulk`, `WriteBulk` |
| POST `.../buckets/:bucket/tasks` | `BeginMove`, `MoveFindBucket`, `MoveRejected` or `MoveAllowed`, `MovePlace`, `MoveReadView`, `MoveSetDone`, `RollRead`, `RollWrite` |
| PUT, POST, DELETE of a bucket | `ReadMaxPosition`, `InsertBucket`; `BeginUpdateBucket`, `WriteBucket`; `BeginDeleteBucket`, `ReadRemaining`, `MoveCards`, `DropBucket` |
| POST of a view | `BeginEditView`, `WriteView` |
| repeating-task job | `CronStart`, then per task `CronNext`, `RollRead`, `RollWrite` |
| restart | `Crash`; time: `Age` |

Abstractions: the caller has write access (the permission checks only read);
titles, descriptions, dates and the order of cards within a column are left
out, and with them the reminders a roll shifts; a statement that reads and
decides is one action, also when it reads several rows. Bounds are named
constants: `MaxTask`, `MaxBucket` (rows ever inserted), `MaxCrashes`, `Limits`
and `Positions` (the values clients send).

### Uploaded files

| file | content |
|---|---|
| `FileShelf.tla` | what users see: items, attachments and pictures, one atomic step per request |
| `FileStore.tla` | the table `files`, the blobs on disk, what refers to them, one action per awaited statement or file operation |
| `FileStoreProps.tla` | the type invariant, the safety properties, the refinement mapping to `FileShelf`; `ModeSpec`, with the choice (`alone`) of one request at a time without faults |
| `MCFileStore.tla` and `files.cfg` | the two instances TLC checks in one run |
| `FileStoreProofs.tla` | the theorems |

State and code:

* `row` is the set of ids in table `files`, `blob[f]` the file on disk named
  after the id: none, created but not yet filled, or whole. `issued` is the
  table's auto-increment counter.
* `item[f]` is the one row of `storage_items` or `task_attachments` that is ever
  inserted for file `f`: not yet there, the place it is listed at (a project and
  the kind of item), or deleted. Tasks are not told apart: nothing moves a task to
  another project, so an attachment goes when its project goes.
* `slot[s]` is `background_file_id` of a project or `avatar_file_id` of a user;
  `project` the projects that exist.
* `req[r]` is a handler in flight: its next statement, the file it is storing or
  dropping, what it is for, how many files of the batch are left, and the files
  it will drop (`previous`, or `fileIds` of the cascade).

| handler | actions |
|---|---|
| POST `.../storage/upload`, PUT `/tasks/:task/attachments` | `BeginUpload`, then per file `InsertFileRow`, `OpenBlob`, `FinishBlob`, `InsertItem` |
| PUT of a background or an avatar | `BeginPicture`, `InsertFileRow`, `OpenBlob`, `FinishBlob`, `ReadPrevious`, `WriteSlot`, `DropRow`, `DropBlob` |
| DELETE of a storage item or an attachment | `BeginDeleteItem`, `DeleteItem`, `DropRow`, `DropBlob` |
| DELETE of a background | `BeginClear`, `ReadBackground`, `ClearBackground`, `DropRow`, `DropBlob` |
| DELETE of a project, `deleteProjectCascade` | `BeginDeleteProject`, `CollectStorage`, `CollectAttachments`, `CommitCascade`, per file `DropRow`, `DropBlob` |
| a statement or file operation throws | `FailUpload`, `FailRead`, `FailWrite`, `FailDrop`, after the handler's own `catch` |
| restart | `Crash` |

Abstractions: callers have the permission they need and the project no
children; names, types, sizes and links (items without a file) are left out; the
cascade's transaction is one action, as its statements commit together; the files
a cascade drops are taken in any order; no project is created. A failing
operation changes nothing, except that a blob whose writing fails stays
half written. Bounds: `MaxFile` (rows ever inserted into `files`),
`MaxBatch`, `MaxFaults`, `MaxCrashes`; `Deletable` and `Pictures` restrict what
clients do in an instance.

### The tree of projects

`ProjectTree.tla`, `MCProjectTree.tla`, `tree_moves.cfg`, `ProjectTreeProofs.tla`.
`project` is the set of ids in table `projects`, `parent[p]` its
`parent_project_id` (`Root` for null), `issued` the auto-increment counter,
`work[r]` a handler in flight with the cursor (`at`) and the `seen` set of the
cycle check.

| handler (`routes/projects.js`) | actions |
|---|---|
| PUT `/projects` | `StartCreate`, `InsertProject` |
| POST `/projects/:project` with a parent | `StartMove`, `CheckParent`, one `Walk` per row read by `createsCycle`, `WriteParent` |
| DELETE `/projects/:project` | `StartDelete`, `CountChildren`, `Cascade` |
| deletion of an account (`routes/account.js`) | `StartAccountDeletion`, one `Cascade` per project, without counting children |

`moves_met` and `delete_met` record that two moves, or a deletion and a move or
creation, were once in flight together; no guard reads them. Permissions, and
which projects an account keeps, are `Access`'s; here any subset may be left.

### Owners, shares and accounts

`Access.tla`, `AccessProps.tla`, `MCAccess.tla`, `access_rights.cfg`,
`AccessProofs.tla`. `account`,
`administrator` and `scheduled` are the rows of `users` and two of their columns,
`owner[p]` is `owner_id`, `share` and `team_share` are the rows of
`users_projects` and `team_projects` (no key but their id, so a pair can have
several rows), `role` is `team_members`. `Grants` and `Allowed` are
`lib/permissions.js`: the strongest of owner, own share and team shares.

| handler | actions |
|---|---|
| PUT, POST, DELETE of a user's share | `StartShare`, `FindUser`, `NotTheOwner`, `PutShare`, `SetShare`, `DropShare` |
| PUT, DELETE of a team's share | `StartTeamShare`, `PutTeamShare`, `DropTeamShare` |
| PATCH of the owner (`routes/admin.js`) | `StartChangeOwner`, `FindNewOwner`, `SetOwner`, `DropRedundantShare`, `SharePrevious` |
| DELETE of a project | `StartDeleteProject`, `DropProject` |
| asking for and calling off the deletion of an account | `ScheduleDeletion`, `CancelDeletion` |
| deletion of an account, by an administrator or by the hourly job | `StartDeleteAccount` or `StartJob`, `ReadOwned`, per project `FindHeir`, `PassOn`, `DropHeirsShare`, `CascadeOwned`, `CloseAccount` |
| team membership, seen from here | `ChangeMember`, in one step |
| restart | `Crash` |

Link shares and API tokens are left out. The heir among several administrators is
any of them (the query takes the one with the lowest id).

### Teams, time entries, views, reminders

Four modules that write no row of one another. `Services.tla` puts them side by
side: a behaviour is one part at work, chosen at the start, which shows every
state each part can reach without multiplying them. `MCServices.tla`,
`services.cfg` and `views_reset.cfg` instantiate it; the proofs of the parts are in
`ServicesProofs.tla`, `ProjectViewsProofs.tla` and `RemindersProofs.tla`.

* `Teams.tla` (`routes/teams.js`): `team`, `creator`, `role`; a request in
  `team_desk` with the count of admins it read. Create: `StartCreate`,
  `InsertTeam`, `InsertCreator`; delete: `StartEnd`, `DropMembers`, `DropTeam`;
  members: `StartMember`, then `AddMember`, or `CountOtherAdmins`, `ReadTarget`,
  `RemoveMember`, or `ReadMember`, `KeepAnotherAdmin`, `SetRole`. `TeamCrash` is a
  restart: it can leave a team without its creator's row, or one whose members
  are gone. That, a deletion that meets another request, and a request for a team
  whose creation has not been answered yet, are what `torn` records; no guard
  reads it. Users are not deleted here.
* `Timers.tla` (`routes/extras2.js`): `entry[e]` is a row of `time_entries` of one
  user: running (no end time), ended or gone. `StartEntry`, `LookForRunning`,
  `InsertEntry`; `StartStop`, `FindRunning`, `Stop`; `StartEdit`, `ReadEntry`,
  `WriteEntry`, which writes back what the body does not name; `DeleteEntry`.
* `ProjectViews.tla` (`lib/taskViews.js`, `routes/extras2.js`, `routes/tasks.js`):
  `position` and `card` are the rows of `task_positions` and `task_buckets`, keyed by
  view and task, `columns[v]` how far a board has got its buckets. Both
  `StartTask`, `InsertTask` and `StartView`, `InsertView`, `InsertBuckets`,
  `SetDefault`, `ReadTasks` end in the loop of `addTaskToViews` (`ReadViews`,
  `NextTask`, `Position`, `Card`); `StartDrop`, `Remaining`, `DropPositions`,
  `DropCards`, `DropBuckets`, `DropView` delete a view. Nothing more is asked for
  once a view's deletion has overlapped another handler (a bound: from then on
  the properties say nothing).
* `Reminders.tla` (`lib/cron.js`, `lib/notify.js`, `lib/repeat.js`,
  `routes/taskDetail.js`): one repeating task with its `due` date and `reminder`,
  the notifications `told`, a clock. A tick of the job is `StartTick`,
  `ReadAssignees`, per assignee `LookForNotification` and `Notify`; ticking the
  task off is `StartRoll`, `ReadTask`, `WriteDates`, `ReadReminder`,
  `ShiftReminder`; replacing the reminder is `StartReplace`, `DeleteReminder`,
  `InsertReminder`. The clock runs during a tick; a handler of a client and a
  tick use different slots and overlap freely.

### The session of a browser

`TabSessions.tla`, `ClientProofs.tla`, run through `Client.tla` (`MCClient.tla`,
`client.cfg`) and alone (`MCTabSessions.tla`, `logout_undone.cfg`). Per tab: `saved`
(the token in memory), `authed`, `inflight` (which refresh it shares); per browser:
`stored` (local storage), `holding` and `line` (who has the Web Lock and who waits for
it, in order; `secure` says whether there is one). A refresh is `BeginAs` (from
`Renew` or a retry), `Enter` when the lock is granted,
`Serve`, `Deliver` or `Fail`; `old` is that `authEpoch` has moved since it began.
`checkAuth` is `CheckAuth`, which reads the token and with one asks the server for its
user (`asking`), and `UserAnswered` or `UserFailed`, which act on what was decided before the
request; two checks of one tab at once are taken as one. `Logout` removes the tokens,
and its tab counts as signed in (`leaving`) until the check after the router, a
`CheckAuth` that finds no token. `Login`, `LoginAnswered`, `LoginRefused` and
`Reload` are the rest. Tokens are numbered as issued. `overtaken` records that a sign-out
has overlapped GET user of its tab, or that a tab has begun a renewal within its
sign-out; no guard reads it.

Three things of the code shape this model. The client posts `user/logout` and the
server has only `/logout` (`routes/auth.js:131`), so signing out leaves the
refresh cookie and a later refresh still succeeds. Refreshes are begun in three places:
by `renewToken`, which is modelled; by `checkAuth` when its token has run out
(`stores/auth.ts:371`); and by the interceptor of `helpers/fetcher.ts:101` when an answer
says that it has (it waits for an error code 11, which `lib/auth.js:165` does not
send). Tokens do not expire in the model, which leaves the last two out. A refresh of
another tab may store a token after this tab has signed out; the property therefore
speaks of having signed out of every tab. Not modelled: expiry, the desktop and
link-share paths, and two tokens issued in one second being the same string.

### The live feed

`Feed.tla`, `ClientProofs.tla`, run through `Client.tla`. `tab` is the module state of
`frontend/src/composables/useWebSocket.ts`: `sock` (`socket`), `wanted` (the events
in `subscriptions` that have a callback), `connected`, `authed`, `gone`
(`manuallyDisconnected`), `timer` (`reconnectTimer`), and what `getToken` returns.
`link[k]` is one connection: the browser's `readyState`, the server's end
(`known` is `socket.userId`, `subs` its subscriptions), and the messages under way
each way, in order.

| code | actions |
|---|---|
| `connect` (from `ContentAuth.vue`, or the timer) | `Connect`, in `SignInAndMount` and `Reconnect` |
| `disconnect` (first thing in `logout`) | `SignOut` |
| `subscribe` and the function it returns | `Subscribe`, `Unsubscribe` |
| `onopen`, `onclose`, `handleMessage` | `Open`, `OnClose` in `Closed` and `Lose`, `SignedIn`, `Refused` |
| the server's `message`, `close` and time limit | `Hear`, `AuthTimeout` |

`spoilt` records what lets the server refuse a tab for good: a token that ran out, a
sign-in later than ten seconds, and a sign-in while a connection of the last one is
still closing. The two sides have no module state in common but the token, which the
feed reads as it connects, so `Client` has either the tabs or the feed at work. Not
modelled: event data and acknowledgements (the client ignores the latter), several
callbacks of one event (only the last one's going sends anything), the length of
the reconnect delay, the failure to construct a `WebSocket`, and sign-ins of link
shares, which the server refuses.

## 4. What the runs check

Properties that hold under every interleaving are checked with overlapping
requests; those a check-then-write handler can only keep alone are checked with
one request at a time, or say with a history variable which overlap they
exempt, so that every other interleaving is still covered.

| run | instance | shows |
|---|---|---|
| `board_columns` | 1 request at a time, 1 view, 1 task, up to 4 columns, all operations | `TypeOK`; a board keeps a column; every created task has a card even if the view names no default column; a shown card leaves the shown columns only through a view that still names a deleted column |
| `board_two_views` | 1 request at a time, 2 views of 3 columns, 2 tasks, limit 1 | ticking a task settles its card on both boards; dropping a card makes it done exactly in the done column, before a repeating task is rolled; a move respects the limit |
| `board_boards` | 2 overlapping requests, 2 views of 3 columns, 1 task; create, update, move, deletion of a column, view edit | `BoardsSeparate`: an id read for one board is never written to the other, whatever happens between the reading and the writing |
| `board_races` | 2 overlapping requests and the job, 2 tasks, a restart anywhere | numbers unbroken; `done` and `done_at` together; under fairness a repeating task does not stay done |
| `board_vanish` | create, update, move and deletion of a column | finding, section 6 |
| `files` | either 2 overlapping requests on 1 project and 1 user, a batch of 2, a failing step and a restart; or 1 request at a time on 2 projects without faults (`alone`); 3 files | what is shown is stored; the store implements `FileShelf`; alone, no row and no blob is left that nothing refers to |
| `tree_moves` | 2 overlapping requests, 2 projects and a third created later | a loop needs two overlapping moves; a parent is taken from under a project only by an overlap or an account's deletion; every cycle check ends, also over loops |
| `access_rights` | 2 users, one of them administrator, the other may leave; 1 project, 1 team, levels write and admin, 1 request and the job, a restart | projects belong to somebody; no share outlives its project or account; permissions rise only through those entitled to give them; a project another user administers by a share of their own is passed on; a scheduled deletion is settled |
| `services` | 3 users, 1 team; 3 time entries; 3 views, 1 task; 2 assignees, clock to 3, a restart of that part, restarts among the teams; 2 overlapping handlers each, or the job and a client | a team keeps an admin and has no stray members; one timer runs, a stopped one stays stopped; every task has its place, a view remains, no place outlives its view; a reminder is sent, once, and follows its date |
| `views_reset` | a view is created after a card was moved | finding, section 6 |
| `client` | 2 tabs, 2 refreshes each, 4 tokens, one failing request, with and without Web Locks; a feed with 2 events, 3 connections, 2 lost, 2 messages under way | signed out means no token unless a request failed (no sign-out overlapping GET user, no renewal within one); one live refresh per tab; the stored token moves forward under the lock; every refresh ends; the feed is subscribed to what the tab wants, and comes back |
| `logout_undone` | the tabs alone, 5 tokens, one failing request | finding, section 6 |

Bounds beyond the constants stand as a `CONSTRAINT` in the cfg: a state that breaks one
is checked and not followed further. `FewChanges` (`board_boards`): a second column is
deleted, or default or done column changed. `SecondOnlyNumbered` (`board_races`): a second
task exists while something else than creations and deletions is in flight, or while
a task is done or repeats; a task's row is never read for another's sake except
for the number. `Followed` (`services`): a team is torn. `Undisturbed` (`client`): a
sign-out has been overtaken. The last two are what the safety properties exempt;
`EveryTaskHasItsPlace` and the other parts of `Services` know no torn team.

Why the bounds are enough. The board's handlers treat tasks and columns by id and
compare at most two of them at a time (largest number, leftmost column, the
limit), so two tasks tell a lost race, a full column and a shared number apart;
a fourth column is the one inserted after the three of a new project, and a
deleted column, a remaining one and a new one can exist together. Two views are
needed to mix boards, and one change is enough to outdate an id that the other
request has read. Two requests give every pairwise overlap. One restart
cuts any handler anywhere; a second restart meets the same states.

For files, two requests give every pair of handlers, and three files are a
picture, the one that replaces it and a third of a racing request, or the two
of a batch and a racing picture; a second project would only add files that the
first one's handlers never touch (the lone instance has two, to catch a deletion
that takes too much or too little). One failing step and one restart meet every
statement of either request, also one after the other.

In the tree three projects give chains, so that a walk passes a row that another
handler moves or deletes, and loops of two and three that a walk enters from
outside. For access, two users are the owner and someone else in either role,
and every handler is met by the job at every statement; clients ask for nothing
more once two handlers have overlapped, as the safety properties are about what
leads up to the first overlap and liveness about what is in flight. In a team,
three users are the one to be demoted, the one counted and a bystander. The third
view is the one created beside a list and a board. The clock reaches one period
beyond the first due date, with a window that a reminder can miss. Two tabs
compete for the lock; each has a second refresh when a sign-out outdates the
first. Of three connections one is closing, one lost and one opening; a second loss
meets the reconnection of the first.

Deadlock is not checked: clients need not send anything, and at the bounds no
id is left.

Fairness. No run assumes it of clients, of `Crash` or of `Fail`. What it assumes:

* `FairSpec` (board): Node runs every handler whose statement has returned to its
  end (`WF` of `Step(r)`), `setInterval` keeps firing so the job starts whenever
  there is something for it (`WF` of `CronStart`), clocks advance (`WF` of `Age`).
* `TreeSpec`: `WF` of `Handle(r)`, the same of a handler in flight.
* `AccessSpec`: the same of handlers (`Sharing(r) \/ Deletion(r)`) and of the job in
  flight (`Deletion(Job)`), and the hourly interval (`WF` of `StartJob`).
* `Fairness` of `Services` (`ReminderFairness` of `Reminders` alone): the minute
  interval and a tick in flight (`StartTick(s) \/ Tick(s)`), and a client's handler
  in flight (`Edit(s)`); none of the clock. It is asked where that part is at work,
  which `RemindersAreSent` says too.
* `Spec` of `TabSessions`: the browser grants the lock in turn (`Enter`), a request
  is served and its answer arrives (`Serve`, `Deliver`).
* `FeedFairness`: a reconnect timer fires, and of each connection what is sent
  arrives, opening and closing get done (`Open`, `SignedIn`, `Refused`, `Closed`,
  `Hear`). None of the user, of `Lose`, `Expire` or `AuthTimeout`. `ClientSpec` has
  both; the part not at work has nothing enabled that fairness names.

Every property of a passing run has a mutant: a definition of the model changed
as a plausible bug would change the code (a dropped condition, an off-by-one, a
missing unique key), under which TLC finds the property violated. The mutated
forms stand in the modules under a comment `Mutant:`.

## 5. What is proved

### The board

`BoardProofs.tla`, checked by TLAPS for any number of requests, jobs, tasks,
columns, views and restarts. The only assumption is `BoardAssumption`, the
types of the constants and room for three columns per view, which TLC evaluates
in every run.

* `BoardTyped`: `Spec => []TypeOK`. `TypeOK` is inductive. The lemmas `GotoType`,
  `PlacedType`, `RolledType`, `SetDoneType` and `SetRepeatsType` say what the
  helpers return, and `StepType` has one step per action.
* `NumbersStayUnbroken`: `Spec => []NumbersUnbroken`. The property is not
  inductive: a create holds a number it computed some time ago. `NumberInv`
  adds that ids are handed out in order, that a stored task's number is at most
  its id, that the predecessor of each number exists, and that the number a
  create in flight holds follows a stored one. Tasks are never removed from the table, so
  what follows a stored number keeps doing so (`NumbersGrow`); the unique key
  does the rest (`NumbersInserted`).
* `BoardsStaySeparate`: `Spec => []BoardsSeparate`. `SeparateInv` adds the columns
  that requests in flight have read and not yet written (`plan`, `bucket`,
  `other`): each belongs to the view it will be written to. A column never
  changes its view (`ColumnsStay`), so this survives every step of others.
* `DoneStaysStamped`: without bulk edits, `Spec => []DoneStamped`. `StampInv` adds
  that no request is in a bulk write.
* `ABoardKeepsAColumn`: `Spec /\ []OneDeletion => []BoardHasColumn`, where
  `OneDeletion` says that no two deletions of columns have both read what remains
  (`routes/misc.js:192` does not prevent it, and then the property fails).
  Everything else may overlap. `ColumnInv`: a deletion that has read
  the other columns still finds one when it drops its own (`HasRead`).
* `EveryTaskHasACard`: `Spec /\ []OneDeletion => [](crashes = 0 => NoTaskOffBoard)`.
  `OnBoardInv`: each task that is there is on each board, or a creation in flight is
  about to read the views or has this one in its plan. A restart there loses
  the rest of the plan, so the theorem speaks of the time before the first.
* One request at a time (`OneAtATime`), with the inductive invariant `QuietInv`, which
  says of the request at work that what it has read is still so:
  `LoopUndisturbed` of the loop over the views (views it is through with are settled,
  the plan has the right column for the others), `DropUndisturbed` of a dropped card
  (the count that was compared with the limit is the count), `DeletionUndisturbed`
  of a column that goes (no card is left in it). From it
  `OnlyStaleColumnsTakeCards` (`CardsLeaveOnlyByStaleColumn`), `NoMoveOverTheLimit`
  (`MovesKeepLimit`) and, without a restart, which `crashes = 0` says,
  `EveryBoardIsSettled` (`UpdateSettlesEveryBoard`) and `DropsSettleDone`
  (`MoveSettlesDone`), for any number of views, tasks and columns, and for
  repeating tasks, which `board_two_views` leaves out.

`OneDeletion` and `OneAtATime` are conditions on behaviours, not on constants; with
one request slot and no job, as in the runs, both always hold.

`OneRequestMoves`, `ArmedBy`, `TaskWrittenBy` and `CardWrittenBy` say which
actions can write which variable, so that each invariant is argued only for the
actions that can disturb it.

### Uploaded files

`FileStoreProofs.tla`, for any number of requests, projects, users, files,
failing steps and restarts, from `FileAssumption` (projects, users and places are
told apart; the bounds are numbers).

* `FilesTyped`: `Spec => []TypeOK`. Not inductive alone: that a batch does not
  count below zero needs `Fit`, what each step of a request says of its fields.
* `ShownStaysStored`: `Spec => []ShownIsStored`. Not inductive: a request about to
  show a file must still find it stored, and one about to drop a file must not
  find it shown. `StoreInv` therefore adds `InHand` (a file held by an upload is
  stored as far as the upload got, is seen nowhere, is held by nobody else and
  is on no list to be dropped), `Leaving` (a file on such a list is seen nowhere,
  or only where this very request is about to remove it), `PicturesApart` (a
  picture has one owner and is no item) and `Issued` (only ids handed out are
  in use). `RequestMoves` covers every step that leaves rows and blobs alone;
  each other action has its lemma.
* `StoreLooksAtomic`: `Spec => LooksAtomic`, the refinement of `FileShelf`.
  `readable` is what is shown and stored, so that under `StoreInv` it is what is
  shown; `InsertItem`, `WriteSlot`, `DeleteItem`, `ClearBackground` and
  `CommitCascade` map to `Add`, `Show`, `Remove`, `Hide` and `Discard`, the second
  deletion of an item and the picture of a deleted project to stutters, and all
  other actions to stutters.
* `NothingIsLeft`: `ModeSpec => []NothingLeftWhenAlone`. `ModeSpec` is `Spec` with a
  choice at the start: when `alone`, every state is `Quiet` (one request at a
  time, no fault, no restart, and no deletion of a project with a background, of which
  section 6 says what it leaves). `Tidy`, the invariant: whatever has a row or a
  blob is seen or carried by the request, and what the request is about to hide
  is already on its list (`Ready`), so that hiding it leaves nobody without a
  keeper. It needs `StoreInv` as well.

### The tree of projects

`ProjectTreeProofs.tla`, for any number of requests and projects, from
`TreeAssumption` (the bounds are numbers).

* `TreeIsTyped`, `LoneMovesKeepTheForest`: `TreeSpec => []TreeTypeOK` and
  `[]LoopNeedsCrossedMoves`. The hard part is the walk: it reads ancestors one by
  one while other handlers create, delete and cascade. `WalkHolds` says of what it has
  seen that it contains the new parent, is closed under `parent` up to the
  cursor (`Above`) and does not contain the project; a deletion only sets parents
  to the root, and a creation only adds a row that nothing above names, so both
  keep it. At the write, a set without parents outside itself would have to meet
  that closed set, which leads to the root.
* `DeletionsLeaveNoOrphans`: `TreeSpec => OrphansNeedRaceOrAccount`. `StillThere` adds
  that without an overlap the parent a handler is about to write is there and
  the project a deletion is about to drop still has no children.

### Owners, shares and accounts

`AccessProofs.tla` (`EveryProjectIsOwned`, `NoRightOutlivesItsRows`,
`DeletionsSpareAdministeredWork`, `PermissionsComeFromAdmins`), for any number of
users, projects, teams, requests and restarts, from `AccessAssumption` (the job is
no request, nobody is no user, levels are levels). All four properties exempt what
follows the first overlap (`met`). `AccessInv` carries, for the one handler at work
(`OneAtWork`), what it has found out so far and which rows are in between:
`FoundSharing` (the user, team and project it will insert a row for are there),
`FoundOwner`, and `FoundDeletion`, whose core is `Settled`: each project of the
account to be deleted is still to be looked at, or has an heir it will be passed to,
or will go because nobody else has an administrator's share of their own. What
`DeletionsSpareAdministeredWork` says is less than the code's comment does (section
6). A restart in the middle leaves owners and shares as the statements so far have
made them, which keeps the invariant, as every statement of `deleteUserAccount`
does. For `PermissionsComeFromAdmins` each action that can raise a permission is
shown to be of a handler whose caller the guards have let through.

### Teams, time entries, views, reminders

* `ServicesProofs.tla`, teams (`MembersAreOfTeams`, `LastAdminIsKept`), from
  `TeamAssumption` (finitely many users, none of them named `"nobody"`). `TeamInv`:
  what a demoting handler has counted still holds (`CountHolds`), as only another
  demotion or a deletion of the team could undo it, and those are what the
  property exempts (`OneDemotion`, `EndAlone`); a team being created or down to its
  row has no members (`Present`). All of it is kept until a team is torn (`TeamKept`);
  a restart empties the desk and, unless it tears a team, leaves nothing half done
  (`TeamCrashKeeps`).
* `ServicesProofs.tla`, time entries (`OneTimerAtATime`, `StoppedEntriesStay`), from
  nothing. `TimerInv`: without overlap one handler is at work, and what it read
  still holds when it writes.
* `ProjectViewsProofs.tla` (`AViewIsKept`, `TasksGetTheirPlaces`,
  `PlacesGoWithTheirView`), from `ViewAssumption` (room for the two views of the
  start). `Placed` is the heart: each task is placed in each view, or some handler
  is on its way to place it there: it is about to read the views, or has the
  view in its plan, or made the view and has not yet read the tasks. Whichever of
  a task and a view is inserted second is read by the other's handler or by its
  own. `Sound` says that what handlers hold is there and what a deletion has
  dropped is gone.
* `RemindersProofs.tla` (`RemindersMoveWithTheDate`, `NobodyIsToldTwice`), from
  `ReminderAssumption` (ticks and clients have slots of their own, a reminder is
  at most a period ahead). `FollowInv` says at each statement of an edit how far it
  has got; `Unsaid`, that whom a tick is about to tell has not been told, holds
  only of ticks that do not overlap, so `NobodyIsToldTwice` assumes a single slot of
  ticks; the runs have one too.

These theorems are about `TeamSpec`, `TimerSpec`, `ViewSpec` and `ReminderSpec`.
`PartsStayApart` shows that a behaviour of `Services` is one of each part, in
which the others' steps are stutters, and `ServicesKeepTheirPromises` draws the
conclusion: all those properties hold of the composition, but `ToldOnce`,
which has its hypothesis.

### The client

`ClientProofs.tla`, for any number of tabs, slots and tokens, from
`SessionAssumption` (slots are numbered from one), and for any connections and
finitely many events, from `FeedAssumption` (a tab without a socket is told apart).

* `SignedOutStaysOut`, `RefreshesAreShared`. The invariant: a refresh that may save its
  token is the one its tab remembers (`Remembered`); while no request has failed and no
  sign-out been overtaken, a tab that signed out holds no token, has no such refresh
  and no GET user under way, and a stored token is of a tab that is signed in
  (`SignedOutIsOut`). Each of the three exemptions is needed (section 6).
* `LateAnswersAreHarmless`: `Spec => StoredMovesForward`. `LockTaken`: under the lock
  whoever has a request under way is its one holder. `NoneTooOld`: an answer on its
  way that still counts brings nothing older than what is stored, as nobody
  else could store meanwhile but a sign-in, and a sign-in that overlaps a
  refresh is what the property exempts.
* `TheFeedIsCurrent`: `FeedSpec => []FeedIsCurrent`. What the messages under way amount
  to is stated without a fold: an event is subscribed to in the end if it is
  asked for and not taken back later, or known to the server and not taken back
  (`AskedFor`, `TakenBack`, `Heard`), and `LastWord` says how that adds up when a message
  is sent or one is heard. `FeedSound`: the tab holds on to one connection, will be
  subscribed there to no more than it wants, and to all of it once it is signed
  in; `resubscribeAll` at the success is what closes the gap. The exception is
  the property's, a sign-in while the last connection is still closing (section 6).
* `TheClientKeepsItsPromises`: a behaviour of `Client` is one of the sessions and one
  of the feed, so all four properties hold of it, with the exemptions they state.

### Only model-checked

* Liveness (`RepeatingTasksRoll`, `WalksEnd`, `ScheduledIsSettled`,
  `RemindersAreSent`, `RefreshesSettle`, `FeedComesBack`), which the prover does not
  handle.
* The findings of section 6: that a property fails is shown by one behaviour.

Every invariant and every action property of a passing run is stated by a theorem.

## 6. Where code and comments disagree

Found by a run:

* `routes/misc.js:200` says that cards move "rather than vanishing with the
  bucket". The view's `default_bucket_id` and `done_bucket_id` are not updated
  when that column is deleted, so tasks created or ticked later get a card in
  a column that no longer exists (`board_vanish`).
* `routes/extras2.js:197` wants a card in a new view for every existing task.
  The call at line 218 goes over every view of the project, so creating a view
  also puts the cards of all older boards back into their default or done column
  and every manual order back to the order of creation (`views_reset`).
* `frontend/src/helpers/auth.ts:49` says that a refresh resolving after a logout
  "can't undo it". The retry in `frontend/src/stores/auth.ts:70` is a new
  refresh that begins after the sign-out, and the cookie is still good
  (`logout_undone`).

Read off the code and its model, some stated as properties no run checks:

* `lib/taskViews.js:53` says the board is wrong if only one of card and done
  updates. A repeating task that is ticked off is moved to Done and then rolled
  back to not done, and its card stays (`BoardAgrees`).
* `lib/cron.js:121` says the job catches tasks marked done "by a path that
  missed" the roll. `POST /tasks/bulk` is such a path, and as it leaves
  `done_at` null the job's comparison never selects the task; `board_races`
  leaves bulk edits out.
* `lib/cron.js:10` says that a second instance of the jobs duplicates nothing.
  Two overlapping ticks, of one instance or of two, may both find no
  notification and both send it: `ToldOnce` with two ticks does not hold. The
  digest checks nothing before it sends.
* `lib/repeat.js:60` says reminders move with the dates they were set against. In
  the mode that repeats from the current date each is shifted from the current
  date too, and the distance is lost; the model is of the default mode.
* `routes/projects.js:348` says the cascade keeps a deletion from leaving
  "orphaned blobs on disk". `deleteProjectCascade` never looks at
  `background_file_id`, so the row and the blob of a project's background stay.
  `deleteUserAccount` leaves a user's avatar the same way. The lone instance of
  `files` therefore deletes the project without a background.
* `routes/account.js:255` says that projects shared with other people are transferred,
  as one person leaving "must not take the team's work with them". The query at
  line 264 looks only for a row of `users_projects` with permission 2: a project that
  is shared to read or write, or with a team in whatever role, is deleted with all its
  tasks. `SharedWorkIsPassedOn` (`AccessProps`) states the comment, and TLC finds it
  violated under `access_rights.cfg`; what the code does keep is
  `AdministeredWorkIsPassedOn`.
* `frontend/src/stores/auth.ts:398` bails out so that a stale decision "doesn't
  override the auth state that logout() already set". It does so only where GET user
  brings no user. Where the user signs out during that request and it still succeeds,
  line 405 sets `authenticated` although the token is gone, the check is not repeated
  for a minute (line 434), and a `renewToken` in that time stores a new token from the
  cookie, which is still good. `SignOutStands` (`TabSessions`) states that a tab that has
  signed out does not count as signed in again; TLC finds it violated with
  `MCTabSessions`, 5 tokens and no failing request.
* A sign-out removes the token, waits for the router and only then has `checkAuth`
  clear `authenticated` (`frontend/src/stores/auth.ts:584`). A renewal that begins
  in between, where a leave guard waits for the user, finds the tab signed in and
  the cookie good, and stores a token after the sign-out, against
  `frontend/src/helpers/auth.ts:49` once more.
* `routes/account.js:470` wants no old blob left behind when an avatar is
  replaced. For one request at a time that holds; two uploads that overlap both
  read the same previous id, and the file of the first is lost.
* `routes/extras2.js:390` excludes a second running timer. An edit that sets the
  end to null starts one without asking (`OneTimerRunsAfterEdits`), as do two
  overlapping starts.
* `routes/admin.js:184` keeps a last administrator from being demoted. Two
  overlapping requests, or an administrator's own account deletion, still leave
  none (`AdministratorRemains`).
* `routes/sharing.js:60` updates the permission `ON DUPLICATE KEY`, and
  `users_projects` has no such key: sharing again inserts a second row and the
  stronger of the two keeps winning (`SharingSetsPermission`).
* `frontend/src/composables/useWebSocket.ts:68` ends the feed for good on a refusal,
  so as not to come back "with a bad token". A good one can meet the same end: the
  `onclose` of a connection still closing when the user signs in again sets `socket`
  to null although it is the new one, and reconnects. The tab then has two
  connections (`OneConnection`). If the one it let go of had not opened yet it never
  sends a token, and the server's `auth_required` ten seconds later closes the other
  one and stops the feed until the user signs in anew or loads the page again.
* `frontend/src/components/notifications/Notifications.vue:166` reloads on
  disconnect "to catch any events that may have been missed during the disconnect
  window". The window only begins there; polling while disconnected covers it but for
  what arrives between the last poll and the new subscription.

## 7. What is not modelled

Left for later: the rest of accounts (reset tokens, change of e-mail, the second
factor, export), CalDAV's etags, duplicates of tasks and projects, saved filters and
subscriptions, links and renaming of storage items, permissions by link shares, the
files of a deleted account.

Left out because nothing depends on an earlier step: webhooks and mail (sent once
after the reply, outcome not kept), the overdue digest (no record of what it sent), comments,
relations, assignees and labels (single rows that no other handler decides on).

Left out for good: the filter language, iCalendar, CSV and importers beyond what
section 2 names (conversions of text); `lib/shape.js`, `lib/sniff.js`,
`lib/config.js`, `dbInit.js` (formatting, guesses, settings, table creation); the
connection pool; build and deployment files.

Of the repository's lines most are not the program modelled here: the Go
implementation in `pkg/` (with two vendored bundles of API documentation) that the
Node server replaces, and the components of the web client, which are user
interface over the API. Of `server/src`, the modules cover the routes and jobs
that change rows which other routes or jobs rely on.

Files of this directory: the modules, the `.cfg` files of the runs, and
`PROJECT.json`, which lists components, runs, mutants, the lines each definition
models, findings, hazards and theorems.
