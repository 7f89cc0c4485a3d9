# TaskForge API in TLA+

TaskForge API is a NestJS process (pm2 keeps one instance) over Postgres
(Prisma), with BullMQ queues on Redis for scheduled work and socket.io for
realtime.  It takes almost no explicit locks and its transactions run at READ
COMMITTED.  What keeps concurrent requests, scheduled jobs and sockets apart are
unique indexes, conditional updates, cascades, the row locks of an `UPDATE`, and
the order of statements.  These modules model that, component by component.

Paths below are relative to the repository; `src/modules/...` is
`src/src/modules/...` in `PROJECT.json`.

1. [The system](#1-the-system)
2. [The plan](#2-the-plan)
3. [The modules and the code](#3-the-modules-and-the-code)
4. [The runs](#4-the-runs)
5. [Fairness](#5-fairness)
6. [What is proved](#6-what-is-proved)
7. [Where the code does otherwise](#7-where-the-code-does-otherwise)
8. [What is not modelled](#8-what-is-not-modelled)

## 1. The system

| Component | State | Operations | Interacts with | Correct when |
|---|---|---|---|---|
| **Recurrence engine** `common/utils/recurrence.ts` | none | next day of a schedule, of a completion, end conditions | rules, generator | the next occurrence is the earliest one after a day; month clamping does not drift; ends stop exactly |
| **Recurrence rules and generator** `modules/recurrence`, `workers/workers.module.ts` | `recurrence_rules` (at most one per task), `task_instances` (unique per rule and day) | create, update, delete a rule; hourly tick: scheduled and after-completion rules | tasks (completion, trash, due date), purge | each occurrence once, in order, none skipped, none beyond the horizon or the end; a tick that dies loses nothing; one open instance after completion |
| **Authentication and sessions** `modules/auth` | `refresh_tokens`, accounts and their passwords, `password_reset_tokens` | sign up, login, refresh with a grace window, logout and prune, change password, rotate it as an admin, ask for and use a reset link | guards, mail | one usable token per session, no fork, a password change ends every session, a reset link works once, refreshes and a password change never deadlock |
| **Reminders and the overdue check** `modules/reminders`, `workers` | `reminders`; the overdue `notifications` rows | create, edit, snooze, dismiss, remove; re-anchoring when a due date moves; the pass that fires; the pass that reports overdue tasks | tasks, notifications | fires once, at the time it should; one overdue notice per day |
| **Realtime** `modules/realtime`, `modules/presence` | two presence maps, call rooms, sockets' rooms; all in memory | connect, disconnect, join and leave a call, screen, typing, relays | members, conversations, push | what the server counts, what clients show and who knows whom in a call agree |
| **Tasks, lists, trash** `modules/tasks`, `lists`, `trash`, `workers` | `tasks`, `lists`, `list_members`, checklists | create, update, move, lock, archive, trash, restore, purge; add, tick, remove and order checklist items; two nightly sweeps | members and their roles, recurrence, reminders, notifications | tasks nest one level deep; the sweeps archive and delete only what has been done, or in the trash, for long enough; a checklist's order is one that was asked for |
| **Invitations, workspaces, members** `modules/invitations`, `workspaces`, the guards | `invitations`, `workspace_members`, accounts | invite, resend, revoke, accept, expire; roles, deactivation, reactivation | auth, mail, tasks (open ones stop a deactivation) | a link that died stays dead; an invitation is not used up for nothing; the last admin is not lost by the check itself |
| **Messages** `modules/messages` | conversations, their members, messages, uploaded files, pins, reads | open a direct conversation, groups, send, forward, edit, delete, upload, react, pin, mark read | attachments, notifications | who writes takes part at that moment; a file stays with its message until it is removed; a removal leaves a group of two |
| **Notifications, push** `modules/notifications`, `push` | members' settings, `notifications`, device subscriptions, pushes under way | change settings, subscribe, dispatch, mark read | everything that reports | a settings patch does not undo another; whoever an event concerns hears of it once |
| **Comments** `modules/comments` | `comments`, `mentions` | create, edit, delete | tasks, notifications | the mention rows follow the body |
| **Templates** `modules/templates` | `templates` with the last versions | create, duplicate, save, update, remove, apply | tasks, lists | the version history is one the template had; no version is lost |
| **Attachments** `modules/attachments`, `common/utils/r2-storage.ts` | `attachments`, objects in R2 | upload, remove | tasks, messages | a row has its object |
| **E-mail ingestion** `modules/email-ingestion`, `cloudflare-worker` | task e-mail metadata | mail arrives at the worker, the webhook makes a task | lists, members, tasks | no mail is lost, and its sender is told the truth |
| **Views, search, reports, audit, users, AI, health; guards, filters, mail, unfurling** | single rows or none | queries, single writes, request plumbing | - | - |

Hard behaviours, in the order of how much can go wrong:

* the generator's tick is a long sequence of statements over rows that requests
  edit meanwhile; it may die after any of them, run again, or overlap another;
* refreshes, retries, logouts and password changes of one user overlap inside
  transactions that hold row locks;
* the reminder and overdue passes work from lists read at their start;
* a socket may disconnect while the handler of its connection awaits;
* the CRUD services check, then write, with nothing in between to keep the check
  true.

`PROJECT.json` lists each of them as a hazard at its line, with the property
that covers it or the reason there is none yet.

## 2. The plan

Done, in this order: the calendar engine; rules and generator; sessions;
reminders and overdue checks; realtime; the workspace; conversations; then what
hangs on a workspace (accounts, templates, files, checklists, notices, comments,
a chat, mail).  The first five are modules (or two) of their own because in the
code they share no rows: a rule reads its source task's due date, completion and
trash day, which are part of `RecurrenceRules`; reminders read their task's due
date, assignee and status, which are part of `Reminders`.  Members, invitations,
lists, tasks and what refers to them do share rows, so `Workspace` composes them
over one pool of requests.

| Module | Composes | Abstract specification | Theorems | Status |
|---|---|---|---|---|
| `RecurrenceEnd`, `RecurrenceEngine`, `RecurrenceWalk` | the end conditions are shared with `RecurrenceRules`; the engine is tabulated for its runs | the declarative reading of a schedule in `RecurrenceWalk` | earliest day, exact end, delay; the engine moves forward as the generator assumes | done |
| `RecurrenceRules` | rule, source task, instances, generator, purge | `OccurrenceLog` | types, rows agree, one instance per day, horizon; for one generator no skipped day, the count, one open instance, refinement | done |
| `RefreshTokens` | requests and row locks of one user | `SessionChain` | types, one usable token, never forks, sessions end with a password, no circular wait, refinement | done |
| `Reminders` | one task's reminders, both workers, overlapping requests | - | types, fires once, fire times, one notice a day | done |
| `Realtime` | chat and call gateways, both presence maps | - | types, counting, presence dots, call peers, limit | done |
| `Requests` | - (the frame of the next four rows) | - | none | done |
| `Membership`, `TaskTree`, `Accounts`, `Templates`, `Attachments`, `Checklists`, `Notices`, `Comments`, `Chatroom`, `Ingestion` | one part of a workspace each | - | with `Workspace` | done |
| `Workspace` | all of these, and the process that serves them | - | types, the invariants and action properties of its run | done |
| `Conversations` | chats, members, messages, files | - | types, senders take part, a file is linked once, removals leave two | done |
| what is left | managers, list settings and defaults, workspace settings, calls | | | later |

## 3. The modules and the code

### Recurrence

`RecurrenceEngine` translates `common/utils/recurrence.ts`: `NextScheduled` with
its closed forms for daily, weekly, monthly and yearly rules and its bounded
scans for weekdays, `NextAfterCompletion`, and the calendar arithmetic with
month clamping.  A day key is a day number and back; parsing, formatting and the
timezone conversion of an instant to a day are left out.  `RecurrenceEnd` is
`applyEnd`, shared with the rules.  `RecurrenceWalk` follows a rule from
occurrence to occurrence and holds the reference reading: a day is an occurrence
when the anchor and the rule say so, whatever the code's formulas.

`RecurrenceRules` is one rule with everything that touches it:

| Variable | Code |
|---|---|
| `task` | the source task's due date (`anchor`), `completedAt`, `deletedAt` |
| `rule` | the `recurrence_rules` row |
| `instances` | the `task_instances` rows with their tasks' completion and trash days |
| `job` | per worker, the local variables of `processScheduled` / `processAfterCompletion` |
| `request` | a create or update between its read and its write |
| `created`, `log`, `ops`, `crashes` | insertion order, history, bounds |

Requests are `CreateRead`/`UpdateRead` then `Store`, and `Remove`; the tick is
`Start`, then `Count`, `Generate`*, `Finish`, or `ReadLatest`, `Decide`,
`MakeNext`, `Settle`; each statement is a step, `Crash` ends a tick after any of
them and the next one starts over.  The unique index is the split of `Insert`
and `Duplicate` (P2002); a rule deleted by a cascade makes the insert fail
(`Orphaned`).  The calendar is two constant operators with the assumption
`CalendarMovesForward`; the runs give them the real engine's tables, and
`RecurrenceWalkProofs` proves it of the engine.

`OccurrenceLog` is the abstract generator: occurrences are covered one after the
other, in the order of the schedule, each once.

### Sessions

`RefreshTokens` is one user's `refresh_tokens` rows and the requests on them.
Prisma's batch and interactive transactions become locks and a commit: `Claim`
(the conditional `updateMany`) takes the row's lock, `Rotate` writes the
successor and commits; `GraceRead`, `Drop`, `Relink` are `reissueWithinGrace`;
`UpdateUser`, `LockRow`*, `CommitPassword` are the password change's
transaction, whose update of many rows locks one after the other;
`RotatePassword`, `SetPassword`, `FindSessions`, `LockRow`*, `EndSessions` are
an admin's rotation of a member's password, which has no transaction around its
two statements; `FindDead`, `LockRow`*, `CommitPrune` are the `deleteMany` at the
end of a logout, which locks its rows one after the other too and is its own
transaction; `Crash` rolls back.  A statement that waits looks at the row again once it may go on, which is
what READ COMMITTED does.  `session`, `parent`, `password` and `amid` of a row
are history, and so is `owed`, the passwords an admin has set whose second
statement has yet to run, or never will.  The JWTs, the hashes and the cookie are left out: a token is its
row's id.

`SessionChain` is what rotation promises: sign-ins start sessions, a renewal puts
a new token in the place of the usable one, sessions end, nothing revives one.

### Reminders and overdue notices

`Reminders` is one task with its reminders.  `task` has the three columns the
workers look at (`open` is neither done nor trashed); `reminder` is the table by
id; `pass` and `check` are the local variables of the two processors;
`request` is a request between its reads and its write; `rows` are the overdue
notification rows.  `sent` and `told` count what was dispatched.

* requests: `CreateExact`, `CreateRelative`+`Store`, `Patch`(+`StorePatch`),
  `Snooze`, `Dismiss`, `Remove`; `MoveDue`, `WriteDue`, `Reload`, `ListPending`,
  `Anchor`* are the update of a due date and `recomputeRelativeForTask` after it;
  `Reassign`, `Close`, `Reopen`, `Purge` the other updates of the task;
* a request computes a fire time from the due date it read (`request.due`), a
  re-anchoring also from the offset it listed, and neither looks again when it
  writes.  So overlapping requests leave fire times of a date or an offset that is
  no longer stored, a date written back over a change re-anchors nothing, and a
  removal among the rows of a re-anchoring ends it.  The history variable `adrift`
  has the reminders to which that happened (`Computed`), until they are computed
  from what is stored; `ToAnchor` has those a re-anchoring has still to reach;
* `ReminderProcessor`: `List`, then `Mark` and `Send` per reminder; a removed
  reminder makes `Mark` throw, which ends the job;
* `OverdueProcessor`: `ListOverdue`, `LookUp`, `Tell`; the dedupe day is the
  server's (UTC) while "overdue" is by the workspace's calendar, `ZoneAhead`
  ahead of it; `Tell` writes no row for a member with in-app notices off;
* `Die` ends a pass or a request anywhere.

### Realtime

`Realtime` has the two presence maps, the call's members, its socket.io room and
what each client believes (`dots`, `peers`).  What a handler does between two
awaits is one step, since the process has one thread; a disconnect may come at
any await.  `Connect`, `AuthenticateChat`, `Register` are
`ChatGateway.handleConnection` around its two awaits, `AuthenticateCall`,
`AskToJoin`, `Join`, `RefuseJoin`, `Leave` the call gateway's handlers;
`Disconnect` is both gateways' `handleDisconnect`.  A rejected socket is
disconnected by the server.  Events reach a socket in the order they were
emitted, so a client's belief is kept as of the last one emitted.  The
registration of a socket that closed during an await, and the join of one that
did, are steps of the model because they are steps of the code.

### The workspace

`Requests` is what every CRUD handler has in common: it runs from one await to
the next, between which any other handler may run.  `request` is a handler's
local state (`at` names the statement it awaits), `Take` its arrival with the
reads it begins with, `Await` and `Answer` the end of a statement, `Die` the end
of the process, which pm2 starts again.  A request whose first reads refuse it
changes nothing and is left out.  The reads at the beginning of a handler are one
step: what matters is what happens between the last of them and the writes.

`Membership` has `member` (the `workspace_members` rows), `account` (which
addresses have a user), `invitations`, `mailed` (the links sent; a link is its
number, as a token's hash identifies the mail that carried it) and `dead`, which
is history.  `Invite`, `InviteSupersede`, `InviteCreate` are
`InvitationsService.create`; `Revoke`, `RevokeDelete`; `Resend`, `ResendRotate`;
`Accept` to `AcceptMark` are `accept`, with its reads and writes one by one and
the unique indexes on `users.email` and `(workspaceId, userId)` where they end
it; `PatchRole`, `PatchCount`, `PatchWrite` and `Deactivate` to
`DeactivateWrite` are the two operations that ask `isLastActiveAdmin`.
`AdminCalls` and `Admitted` are the two guards.

`TaskTree` has `list` and `access` (lists and their members), `task`, `used`
(ids are uuids and never come back), `clock` and `since`, which is history.
`Call` is a route behind the guard; `PatchStatus`, `MoveTask`, `Assign` are the
parts of `TasksService.update` that other operations decide on; `File` and the
four steps after it are remove, restore, archive and unarchive; `MoveStore` and
`MoveSubtasks` are the two statements of a move.  Foreign keys are where the code
has them: a task cannot be stored without its list and parent (`TaskCreate`), a
list's tasks go with it, and a subtask that stays loses its parent (`Without`).
`AutoArchive` and `TrashCleanup` are the nightly jobs.

`Accounts` has `google` (the accounts without a password) and `links`, the reset
links in the order they were mailed.  `Signup` and `LoginWithGoogle` end in
`AccountCreate`, where the unique index on the address ends the slower one;
`ForgotPassword`, `ForgotBurn`, `ForgotCommit` are the transaction that marks the
links it finds and stores another; `ResetPassword`, `ResetCommit` look a link up
and use it.  What a reset does to the sessions is `RefreshTokens`' password
change.

`Templates` keeps a template's version, data and history (`template`), and as
history of the model every version it ever had (`past`).  Four routes lead to
`TemplateCreate`; `TemplateUpdate` writes version and history from the row that
was read (`seen`); `TemplateList` and `TemplateTask` store a list and its tasks
one statement after the other.

`Attachments` has the rows (`attachment`) and the store (`object`), written in
this order: object, row; object removed (or not: a failure is logged), row
removed.  `removing` is history.

`Checklists` has `item`, with its place and tick.  `Reorder`, `ReorderItem`*,
`ReorderCommit` are the batch transaction of a new order: each update locks its
row (`Held`), nothing shows before the commit, whoever needs the row waits, the
deletion of the task included, and of two orders that wait for each other the
database gives one up (`GivenUp`).  `ordered`, the last order carried out, is
history.

`Notices` has the settings (`prefs`), the feed (`notice`), the devices
(`subscription`, and `gone` at the push service) and the pushes under way, which
no handler waits for (`pushing`).  `UpdatePrefs`, `PrefsStore` merge and write;
`Dispatch` is `NotificationsService.dispatch` for each recipient, read, row, push
decision; `PushRead`, `PushSend`, `PushPrune` are `sendTo`.  A comment, a message
or a change of a task is an event; feed and pushes are counted for one watched
event, and `event` is history: whom it concerned, and how things stood then.
`NotifyAssigned` and `NotifyStatusChanged` run after the answer of the update
that changed the task; they are requests of their own here, which allows more
interleavings than the code and no fewer.

`Comments` has the rows and, per comment and member, how many mention rows there
are.  `Comment` to `MentionCreate` are the creation, `EditComment` to
`MentionSync` the edit, with the awaits between body, mentions and notices.

`Chatroom` is one group conversation: `seat` is a membership with its mute and
read mark, `said` the messages, then reactions, pins and link previews.
`MessageStore` and `NotifyParticipants` are `sendMessage` and what it starts;
`SeatStore` the four requests on a membership; `MarkStore` reactions and pins,
which read whether the member takes part and write later.

`Ingestion` follows a mail: `SendMail`, `Ingest`, `MailTask`, `MailMetadata`; an
answer may be lost, and whatever the worker does not hear an "ok" for is
rejected, upon which its sender may send it again.

`Workspace` composes these: the guard reads `member`, deactivation counts the
open tasks, and what refers to a task goes with it (`Cascade`).  A start says
which first steps its requests take (`routes`): a behaviour mixes the requests
that share rows, and the runs need not multiply those that do not.

### Conversations

`Conversations` has three tables.  `OpenDirect` and `CreateGroup` look for an
existing conversation and `ChatCreate` makes one later; `Kick` counts and
`MemberRemove` deletes later; `MessageSend` is the transaction of `sendMessage`,
whose update of the sender's read mark makes it fail when the sender has been
removed (`Commits`), and `LinkFiles` the statement after it; `Forward`, `Edit`,
`Delete`, `Upload` and their second steps likewise.  A file may be removed, by
`DELETE attachments/:aid` of its uploader or an admin (`RemoveFile`, then
`FileRemove`: the handler looks a row up by its id and workspace only, so it takes
files of conversations too, in a message or not), or with the task it is on
(`TaskGoes`, the cascade of the schema); `gone` remembers the ids that were
given out once.  `recent` is the minute in
which an equal group is returned instead of a new one.  Names are two classes: a
name of spaces passes validation and is empty when trimmed, after which the
conversation is treated as a direct one (`IsGroup`).

## 4. The runs

| Run | Instance | Checks | Shows |
|---|---|---|---|
| `engine` | 4 anchors (31 January and 29 February of a leap year, the end of 2099, a Sunday in May), every frequency with intervals 1, 2, 3, 13, weekday and month-day lists, created before, on and after the anchor, up to 400 days after it; completions from a week early to 30 days late; 5 steps | `NextIsEarliestScheduled`, `StopsExactlyAtTheEnd`, `DelayCountsFromCompletion` | the formulas and bounded scans agree with the declarative reading |
| `rules_schedule` | one worker as deployed, 8 days, horizon 2, at most 2 per tick, two crashes, four rules (daily, every other day, counted, dated) and rules that wait for completions with delays longer than the horizon, with and without a count | `NoSkippedOccurrence`, `CountRespected`, `OneOpenInstance`, `LogIsFaithful`, `DueOccurrencesAreGenerated`, `CompletionsAreAnswered` | instances are the schedule's occurrences whatever ticks die or days are missed; after completion, one is open and each completion is answered |
| `rules_overlap` | two ticks, every user operation, 3 of them, purge after 0 days | `RowsAgree`, `OneInstancePerDay` | no interleaving doubles a day or parts a rule from its task |
| `rules_stuck` (violation) | one tick, a one-day delay within the horizon | `CompletionsAreAnswered` | see section 7 |
| `sessions` | two requests, four tokens, two passwords, clock 0..1 with a grace of 0 | `NeverForks`, `SessionsEndWithPassword`, `NoCircularWait`, `SessionsAreChains` | rotation, retries and revocation, by the user or an admin, at the level of row locks |
| `sessions_logged_out` (violation) | one request | `LoggedOutStaysOut` | see section 7 |
| `reminders` | one reminder, which may be there from the start, one member, two offsets, two instants, two-hour days with a zone one hour ahead, clock 0..2, two requests, which may overlap, one pass or request that dies, one pass per queue as deployed | `FireTimeIsCurrent`, `FiresOncePerPass`, `OneOverduePerDay`, `RemindersFire` | reminders fire once, when they should; overdue is told once a day |
| `reminders_overdue_again` (violation) | a member with in-app notices off, nothing else happening | `OneOverduePerDay` | see section 7 |
| `realtime` | four sockets, three members, a call of two | `SocketsAreCounted`, `DotsAreRight`, `PeersAgree`, `CallWithinLimit` | counts, dots and call peers agree at every await |
| `workspace` | an admin and one more user in seventeen small workspaces: five of them mix members, invitations, lists and tasks (a colleague with a task and a subtask in two lists, twice; a stranger; a former admin; a colleague and member requests alone), each of the others puts one more part to work (templates twice, files, a checklist, comments twice, changes of tasks twice, a chat twice, mail, accounts); two requests at a time, three in all; both settings 0 days, clock 0..1 | `TypeOK`, `AcceptedMeansMember`, `DeadLinksStayDead`, `OneLevelDeep`, `HistoryIsTrue`, `RowsHaveObjects`, `OrdersAreKeptWhole`, `MentionsFollowBody`, `PatchesAreKept`, `EveryoneIsTold`, `NoMailIsLost`, `LastAdminStays`, `SweepsArePatient`, `VersionsAreKept` | check-then-act, partial writes and notices nobody waits for keep what they promise here |
| `reset_twice` (violation) | accounts alone | `ResetHappensOnce` | see section 7 |
| `conversations` | three members, either with a group of three, a direct conversation, one message and one file, or with a new group of two and nothing else, or with a direct conversation and a file on a task; two requests at a time, three in all | `SendersTakePart`, `LinkedOnce`, `KicksLeaveTwo` | messages, files and groups stay consistent when requests overlap and files are removed |

Why the bounds are enough.  *Rules*: the horizon, the maximum per tick and the
retention are small so that a rule is several ticks behind, a tick stops at its
maximum, and the purge fires, all within eight days; two crashes allow a tick to
die twice at different statements; three user operations are a create and any
two disturbances.  *Sessions*: every property relates at most two tokens of one
session; four tokens give a session with a rotated token, two successive
successors and a second session; two requests reach every pair of overlapping
transactions (a third only waits behind one of them; the proofs cover any
number).  The run has a view (`Behaviour`): states that differ only in whom a logout
was answered for, or in the password under which a row that is revoked or gone was
issued, count as one.  No guard reads either, no revoked row becomes usable again,
and the four properties speak of the passwords of usable rows only.  *Reminders*: the
workers relate no two reminders, and the one place where one's removal ends the pass of
others only delays them to the next pass; the clock passes a midnight of the workspace
at 1 and the server's at 2, and each can fall between the statements of a pass.  The
reminder may be stored from the start, so that two requests are all on it: two
re-anchorings, or one across an edit, a snooze, a removal or the purge of the task.
That a removal leaves the rest of a re-anchoring's list as it was takes two reminders,
and is in the proof.  *Realtime*: three members are
needed for a call to be full for someone, four sockets for a member with two
tabs beside two others.  *Workspace* and
*Conversations*: each hazard is one request that comes between the statements of
another, after at most one that prepares it (an invitation to accept, a task in
the trash, a message to delete), which is three requests and two handlers; a
task, its subtask and one more task, and three messages, are what these touch.
Per start, `Workspace` has two templates, files and comments, one mail, three
checklist items, one device, one message said in a behaviour, and one watched
event; its requests are those that share rows with each other (`routes`), so two
parts that share none are not multiplied.  The six versions of its template make
the history full.
What the runs cannot cover by size, the theorems do.

Deadlock checking is off in every run because each model really stops: the
calendar or the clock ends, tokens run out, every socket may be closed.  That
requests of `RefreshTokens` do not wait for each other is the property
`NoCircularWait`, with the exceptions section 7 describes; section 6 proves it for any
number of requests.

Each property of a passing run has a mutant in `PROJECT.json`: a plausible bug
in one definition (a missing unique index, a token spent without the condition,
a snooze that re-arms a fired reminder, a set filled before it is asked whether
it was empty) under which the same run fails.  The mutated forms stand before the
definitions they mutate.

## 5. Fairness

* `RecurrenceRules`: `WF(Tick(w))` per worker.  The scheduler repeats the job
  every hour and BullMQ retries it; a tick that has started runs to its end
  unless it dies, and deaths are bounded.  Nothing is assumed of users.
* `Reminders`: `WF` of each pass, for the same reason: both queues repeat every
  one and fifteen minutes.  Nothing is assumed of requests; `RemindersFire` needs
  none of them to finish.
* `RefreshTokens`: `SF(Continue(r))`: Postgres queues the waiters of a row, so a
  lock that is released again and again is granted in the end.  Only the
  refinement and the safety properties are checked under it.
* `Realtime`, `Workspace` and `Conversations` have safety properties only.

## 6. What is proved

TLAPS checks these for every value of the constants.  Each component's proofs are
in a module of their own.

**`RecurrenceWalkProofs`** (any rule that `create()` or `update()` stores (`Rules`),
any day from 1970 on, whatever interval, weekdays or distance of today from the
source): `NextIsEarliest`, `StopsAtItsEnd`, `DelayCounts`, `EngineMovesForward`.

* The calendar first: a year is 365 or 366 days after the last (`NextYear`,
  `YearsApart`), so every day is in one year, one month and has one key (`YearOfDay`,
  `MonthOfDay`, `KeyOfDay`, `OneKey`), and keys are ordered as their months and days
  (`KeysInOrder`).  Adding months or years lands in that month, on the day wanted or
  the last (`AddsMonths`, `AddsYears`);
* `Opens(e, from)`: `e` is on the schedule, after `from`, and no scheduled day lies
  between.  For days it is arithmetic with an unknown divisor; for weeks, the day that
  is looked for lies within the scan, because a week the rule is on begins at most one
  interval later; for months and years the candidates are a growing series
  (`Series`) that is exactly the schedule, which passes `from` at most one step after
  the distance divided by the interval (`Passes`), so the four tries contain the
  first past it (`TriesSuffice`);
* `Walking`, the invariant: the stored occurrence is the one computed from the
  latest step, and the generated are fewer than the count.
* `EngineMovesForward` is `CalendarMovesForward` of the next module with the engine in
  the place of the calendar, so what is proved there of any calendar holds of the
  code's.

**`RecurrenceRulesProofs`** (any calendar that `CalendarMovesForward`, any
horizon, any number of ticks and requests): `TypeCorrect`, `RowsAlwaysAgree`,
`NoDuplicateInstance`, `NeverTooEarly`.  The invariant is the conjunction of the
four.  `RowsAgree` is what makes it inductive: a rule never outlives its task, a
tick works from a day that has begun, and what it is about to make lies within
the horizon of that day, so it still does when it is made, after midnight too.

The rest is about one tick at a time (`OneTick`, as deployed) of a task that is not
trashed and keeps its due date, whose rule is stored while no tick runs
(`StoredAlone`): section 7 shows that a rule stored or removed in the middle of a
tick does lose days.  Rows last, ticks die anywhere, the clock runs on, and for
rules that are created and never edited `CreatedAlone` proves the condition.

* `NothingIsSkipped`, `CountIsKept` and, for rules never edited, `UneditedSchedules`.
  `Gapless` says what a cursor stands for: every scheduled day before it is covered
  (`Reached`), and no cursor means that the end is (`Over`).  That holds of the stored
  cursor and, since a tick writes instances first and its cursor last, of the
  tick's own, which is never behind; a tick that dies leaves the stored one, which
  was true before and still is.  The days covered are the schedule's first, without
  a gap (`Prefix`), so no duplicate is ever met but those a dead tick left;
* `OneOpenAtATime`, for a rule that keeps its kind (`KindKept`) and whose instances
  are not reopened: only the latest instance may be open, and a tick that goes on
  to make the next has found every one completed (`OneByOne`);
* `LogIsKept`, the refinement: `Generate` and `MakeNext` cover one day each, `Store`
  starts the log or changes its rule, every other step is a stutter.  It holds on
  conditions: `OneTick`, nothing trashed, re-dated or reopened, rules stored while no
  tick runs that keep their kind (`Calm`), and for a rule that waits a delay longer than
  the horizon (`SlowDelays`).  Outside them the code departs from the log: an edit or a
  removal in the middle of a tick is overwritten, a shorter delay gets stuck (section 7).
  `UneditedLog` has no condition on how steps interleave (`Calm`) left: one tick and one
  request at a time, rules of one kind that are created and never edited or removed,
  completions that are not taken back, delays longer than the horizon.

**`RefreshTokensProofs`** (any number of requests, tokens, passwords, any grace
and pruning age): `TypesHold`, `OneTokenIsUsable`, `SessionsNeverFork`,
`TokensAreChains`, `SessionsEnd`, `NoCircle`.  None of the last five is inductive alone.  The invariant
adds

* `Lineage`: a token's parent is older and of its session; a spent row points to
  the latest of the tokens issued in its place, and the others are revoked;
* `Remembered`: what a request read earlier is still true in the weaker form it
  needs (a successor it is about to drop did replace the token it holds);
* `Held`: who is inside a transaction holds the locks of the rows it will write.

The rotation of a password by an admin revokes in a transaction of its own and
needs no more than that.

Most steps only revoke, lock or delete (`Weakens`), which keeps all of it; the
three that issue a token are treated one by one.  `TokensAreChains` is the
refinement: a sign-in maps to `SignIn`, a rotation and a re-issue to `Renew`, a
revocation, prune or password change to `EndSome`, everything else to a stutter.
For `SessionsEnd`, `Ending` follows a change of the password: a row it found that can
still be used is yet to be locked by its statement, is locked by it and will be
revoked, or was committed after the statement began; and the password does not change
again while a transaction holds the user's row.

`NoCircularWait` is stated through `WaitsFor`, who holds the lock another has yet to
take: no set of requests has each of them wait for another in the set, unless a prune
is among them, or two revocations that the user's row does not keep apart.  The
invariant follows who can hold and who can wait:

* `Locking`: a row is held by a rotation, which waits for nothing, by a retry that has
  dropped the successor, or by a revocation or a prune that has locked it; and the
  user's row only by the change of the password that revokes;
* `Spent`: a retry holds the usable successor it replaces and waits for the spent token
  it replaces it for, so no retry waits for another;
* `Strangers`: the rows a revocation found were usable together, so none was issued in
  the place of another, and a retry that holds one of them wants none of the others.

**`RemindersProofs`** (any calendar, reminders, members, requests, deaths):

* `TypesHold`, with `Related`: rows exist only under ids given out and under a
  task, and only relative rows are re-anchored;
* `NeverFiresAgain`, for any finite number of overlapping passes: `Sends` counts a
  reminder's dispatches together with the passes that hold it.  Firing moves one
  from the second to the first; listing adds to the second only while nothing has
  been dispatched, because what has fired stays fired (`RowsMove`);
* `OverdueIsToldOnce`, for one overdue pass at a time and members who keep in-app
  notices on (section 7 shows why that is needed): a pass that is about to tell
  has seen no row since its day began, and every notice has its row;
* `FireTimesAreCurrent`, for any number of requests that overlap and die:
  `FiresRight` says of every pending row that it agrees with the stored date and
  offset, is snoozed to its fire time, is adrift, or has a request on its way that
  moved the date (`Waits`).  Each write settles one row and leaves the others waited
  for; a request that stops short sets the rows it leaves adrift.  Which rows are
  exempt is part of the property, not an assumption on the requests.

**`RealtimeProofs`** (any number of sockets and members, any limit):
`TypesHold`, `SocketsAreAlwaysCounted`, `DotsAreAlwaysRight`,
`PeersAlwaysAgree`, `CallStaysWithinLimit`.  `Links` ties the state of a
connection to its handler's progress: a socket goes down early when it goes down
before its handler has run to its end, and only those can be registered
afterwards.

**`ConversationsProofs`** (any finite number of members, any number of
conversations, messages, files and requests, any tables to start from):
`TypesHold`, `SendersAlwaysTakePart`, `FilesStayLinked`, `RemovalsLeaveTwo`.  The
invariant adds `Standing`, what a handler has looked up and may still rely on
when it writes (the row exists, because conversations and messages are never
deleted; a message it links files to is its own; it counted more than two), and
`FilesAgree`, that a linked file's message is of its uploader, and
`GoneForGood`, that a removed file is not there.  A file's row may go while a
handler waits: then nothing is linked to it, and what a handler that removes it
may rely on is that the row, if it is there, is one it may remove.  `Lasts` is why
the other handlers do not disturb it.

**`WorkspaceProofs`** (any number of users, requests, invitations, files, tasks;
any starts that `StartsAreTidy`): `AttachmentsHaveObjects`,
`AcceptedInvitationsAdmit`, `DeadLinksOpenNothing`, `LastAdminGoesUnseen`,
`HistoriesAreTrue`, `VersionsGiveWay`, `PatchesLast`.  `Moves` says for every part which steps its
requests go through, so that a step of another part disturbs nothing (`Steps`).
Then

* `FilesKept`: an upload that is about to store its row has stored its object,
  and objects only go into a removal;
* `Invited`: an invitation's id and token are mails sent to its user, and no two
  have an id; a request that accepts one holds such an invitation and marks it
  only once the user has a row; no member row ever vanishes (`Grows`);
* `Decided`: a request that takes an admin's place away saw another admin when it
  counted, and one that lets a member in again saw it out; so whichever removes the
  last admin decided on a list that is no longer the list;
* `Historic`: a template's row, also one that a request has read some steps ago, has
  a history that counts down from its version and whose entries the template once
  had.  The past only grows (`PastGrows`), so what an update puts back is true;
* `Asks`: of a member whose patches come one at a time, the request that is about to
  store the settings has what was asked for, and without one the row has it.

Of the tasks and what hangs on them, `TasksNestOnce`, `EveryMailIsAnswered`,
`SweepsAlwaysWait` and `OrdersStandWhole`:

* `Tree`: a request that creates a subtask read its parent some steps ago; the
  parent was no subtask then, and is none now or is gone, because no statement
  makes a task a subtask and no id is given out twice (`Ages`);
* `Posted`: a mail that is taken is in the hands of exactly one request, which
  knows the last task made of it; each rejection pays for one task, so a request
  that is about to make one finds no more tasks than rejections;
* `Timely`: a task's completion and deletion are never older than the history says.
  `completedAt` follows the status that was read; a request that has read one which
  is no longer the row's finds a completion of the present moment, or none
  (`Claims`), so what it keeps makes no task look done for longer than it is;
* `Lined`: the items of a reordering are of its task and stay so, the ones it holds
  and the ones to come are all of them (`Queue`), so its commit places all it names;
  every other statement only adds items under new ids, ticks or removes (`Tame`).

**`NoticesProofs`** (on top of it, any number of comments, messages and devices):
`MentionsAreOfTheBody`, `EverybodyHears` and `TablesKeepTheirTypes`.

* `Mentioned`: the only request that writes a comment knows how far it has come
  (`Underway`): before a new comment's rows are stored there are none, before an
  edit's are synced they are one each (`NobodyTwice`) and, once read, those it has
  read; so the difference it writes leaves those it wants.  A comment that two
  requests write, or whose writing died, is owed nothing any more;
* `Announced`: before the watched event nothing is told (`Ahead`, `Untold`).  From
  then on the books balance for everybody who has not changed (`Just`): the rows in
  the feed and those to come of the requests about the event (`ToTell`) are as many as
  there should be (`Fed`), and so are, on each device that has not moved, the times it
  rang, the rings of the pushes under way and those to come (`Rung`).  `Coming` says
  what a request will tell from what it has read, so it is right at every await of the
  comment, of the message and of the dispatch; a number belongs to one request
  (`Numbered`), and a row of a list of recipients and a push to one place in the list
  (`Single`), so nothing is counted twice.  Whoever ceases to be as the event found
  them is no longer counted, and that is what each statement on members, settings,
  devices and seats must record (`AnnouncedAside`).

`TablesKeepTheirTypes` is the type invariant of the whole of `Workspace`.  `Tree`,
`Invited`, `Posted`, `Mentioned` and `Announced` carry the types of the tables they are
about; `Apart` is the rest: what a request remembers is typed (`Apt`), and so are the
tables it is written to (`Filled`); its lemmas end `WorkspaceProofs`.  Where that is more than bookkeeping:

* a link that is claimed, and a message that is told of, are among those there are,
  because links and messages are only added (`AptStays`);
* the place of a new checklist item exists because a task has finitely many items
  (`GreatestOf`, `LastPlace`), and a reordering places items it was given (`Lined`);
* the history of a template stays a history when an update puts the row it read in
  front and keeps the latest entries (`LatestEntries`).

Only model-checked: the liveness properties (`DueOccurrencesAreGenerated`,
`CompletionsAreAnswered`, `RemindersFire`), because liveness under fairness is out of
the prover's reach.  Every safety invariant and every action property that a run
checks is proved.  The type invariants of the other components with proofs,
`WithinHorizon` and `OneUsableToken` are proved too, and no run repeats them.

Assumptions on constants are named (`CalendarMovesForward`, `EndsAreGiven` (what
`create()` and `update()` require of an end), `ConstantsAreSane`,
`TokenConstants`, `TimeIsSane`, `TasksHaveTime`, `NullIsApart`, `NullIsNoRow`,
`NullIsNoMember`, `NullIsNoTask`, `NullIsNoMail`, `NullIsNoPatch`,
`NullIsNoComment`, `NullIsNoNotice`, `NullIsNoMessage`, `BodiesNameUsers`, `MessagesNameUsers`, `PatchesAreSettings`, `ItemsAreFinite`, `CallHasRoom`, `StartsAreTidy`,
`DraftsAreData`, `TasksAreFinite`,
`StartsAreRows`, `RequestsAreCounted`, `MembersAreFinite`) and TLC evaluates them
in every run that meets the module they belong to.  `StartsAreRules` and `DelaysAreDays`
of `RecurrenceWalk` give the rules the bounds of the request's fields and count days
from 1970 on.

## 7. Where the code does otherwise

With a run:

* **A rule gets stuck** (`rules_stuck`).  The generator promises "exactly one
  instance ... the configured delay after the completion day".  When that day
  already has an instance, because the latest one was completed early, the insert
  is skipped as a duplicate and every later tick skips it again.
* **Logout with a spent token** (`sessions_logged_out`).  The service says that a
  logout revokes the successor too; it revokes the row it was given, and when
  that token has already been rotated its successor goes on.
* **A reset link resets twice** (`reset_twice`).  A comment says that a concurrent
  second submit of a link loses the race "instead of resetting twice".  The
  update that decides the race is one statement of a batch whose others run
  whatever it finds, and its count is read after the commit: the loser sets its
  password over the winner's, ends the winner's new session, and is told that the
  link has been used.
* **Overdue is told all day** (`reminders_overdue_again`).  The pass finds out
  whether it has told a member today by looking for the notification row, which
  is not written for a member with in-app notices switched off, while the push is
  sent: every fifteen minutes.

Without a run of their own, each with the change to a configuration that shows it:

* a tick's last write restores a rule that a DELETE stopped while it ran, or a
  next occurrence that a PATCH has just recomputed: `rules_schedule` with
  `UserOps` extended by `"remove"` or `"update"` (`NoSkippedOccurrence`);
* two overlapping ticks over-count a counted rule, because a duplicate is not
  counted as generated: two workers in `rules_schedule` (`CountRespected`);
* a re-created rule counts from zero for its first occurrence and with the old
  instances afterwards;
* two requests that move a due date at the same time may leave fire times of the date
  that lost, an edit that overlaps a re-anchoring one of the old date or offset, and a
  re-anchoring that meets a removed reminder leaves the rest of its list as it was (its
  error is swallowed): the reminders `adrift`, which `FireTimeIsCurrent` exempts; without
  `i \notin adrift` the run `reminders` shows it;
* two overdue passes at once both tell: two checkers in `reminders`;
* a sign-in or refresh that overlaps a password change outlives it; this is the
  second case of `SessionsEndWithPassword`;
* a socket that closes while its connection handler awaits stays counted for
  ever (the second case of `SocketsAreCounted`), and closing any of a member's
  call sockets takes the member out of the call, also when another one joined;
* the generator's comment promises rules whose source is "neither trashed nor
  archived"; the query looks at the trash only;
* the last admin can be lost: two admins who demote or deactivate each other at
  the same time each count the other, and an accepted invitation may overwrite
  the role of an admin who was reactivated meanwhile.  `LastAdminStays` allows
  exactly these (a request that decided on a list of admins that has changed);
  without its last conjunct `workspace` shows them.  The service's answer is
  "Cannot change the role of the only active admin — promote another member
  first";
* two invitations of one address at the same time both stay, since each
  supersedes before the other is stored; "a re-invite supersedes an old one"
  holds for re-invitations one after the other, and for every link that was
  superseded (`DeadLinksStayDead`);
* "a task is never in both places at once": archiving refuses a trashed task, but
  trashing takes an archived one;
* "a task never straddles two lists": a subtask created or moved between the two
  statements of a move, or moved by itself, does, and then stays as a task of
  its own when its parent's list is deleted;
* "double-tapped create buttons idempotent": two requests that overlap both find
  no twin, as two that open the same direct conversation do;
* an edit that read a message before it was deleted stores its text in the
  deleted message; a forward, unlike a message, is stored although its author
  was removed from the conversation meanwhile; a group whose name is blank is
  treated as a direct conversation from then on;
* "ONE of taskId or messageId is set" (`schema.prisma`): sending a message may
  name a task's attachment of the same uploader, which then has both;
* a reminder is marked fired before it is dispatched: a pass that dies in between
  loses it.  A reminder snoozed after it fired never fires again;
* an admin's rotation of a password that dies between its two statements leaves
  the member's old sessions alive, although its comment says that it "forces the
  affected user to log in fresh" (the first case of `SessionsEndWithPassword`);
* the revocations of a rotation take no lock on the user's row first, so two of
  them, or one and a password change, may wait for each other until the database
  gives one up (an exception in `NoCircularWait`); the member's sessions then
  go on in the rotation that lost.  Two orders of one checklist likewise;
* the prune of a logout locks rows that are old and revoked or expired, and a change
  of the password locks expired rows as well as long as nobody revoked them: the two,
  or two prunes, may wait for each other (the other exception).  A prune that is given
  up is caught and logged; a change that is given up fails and has to be asked for
  again;
* two requests for a reset link at the same time leave two live links;
* the creator of a task who is also its assignee, and not its commenter, is told
  of each comment twice (`twice` in `EveryoneIsTold`);
* an edit by an admin leaves out of the mentions the admin who edits, who loses a
  mention the body still has; overlapping edits of a comment leave mentions that
  match neither body, or a member twice (`owed` in `MentionsFollowBody`);
* two patches of a member's settings at the same time undo one another (`asked`
  in `PatchesAreKept`);
* a push that was read before its device changed hands rings at the new owner's;
  a quiet time that begins at midnight may be missed in its first hour;
* two updates of a template that overlap lose a version (the second case of
  `VersionsAreKept`), and a list template whose third task fails leaves the list
  and two tasks behind;
* an upload whose task goes before its row is written, or whose process dies,
  leaves an object nobody refers to (`RowsHaveObjects` goes one way only);
* a mail whose answer is lost is rejected although its task exists; sent again, it
  makes a second one (the bound in `NoMailIsLost`);
* two toggles of a message's pin at the same time count as one; a reaction under way when its member is removed is
  stored all the same; after a forward the list of conversations and the unread
  count disagree;
* two items added to a checklist at the same time get the same place.

## 8. What is not modelled

* **Of tasks**: titles, priorities, dates and times (those matter to reminders
  and rules and are there), the settings and the default assignee of a list: the
  assignee of a new task is any member.  Managers: the role passes the same
  guards as an employee except where it sees and edits the tasks of its reports.
  A `PATCH` of several fields is the sequence of its parts.
* **Of members**: time zones, who manages whom, the creation and the settings of
  a workspace; the sessions that a deactivation ends, one statement of the
  transaction that deactivates, are not a step of `RefreshTokens`.
* **Of messages**: the conversation of `Chatroom` and those of `Conversations` are
  not the same rows: `Chatroom` has what touches a member's settings, marks and
  notices, `Conversations` what touches members, messages and files.
* **Of notices**: the read marks of the feed (one statement each), the ringing of
  calls, the notices of the workers other than the overdue one, and the
  high-priority flag, which bypasses settings.  Quiet hours and the open screen
  are a choice.
* **Of reset links and mail**: expiry is a step that may happen at any time;
  tokens, addresses and parsing are left out.
* **Screens, typing, signalling relays, call start and end messages** of
  realtime; a relay forwards and keeps nothing, the rest is next to the parts
  modelled and independent of them.
* **Time zones as such**: day keys are numbers; the two calendars that meet in the
  overdue check are modelled by their difference.
* **Search, views, reports, audit, users, AI, health, token guards, mail,
  unfurling**: stateless or single statements.
