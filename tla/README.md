# Verification of liberta

liberta runs coding agents in waves. A *controller* (a language model following
`skills/liberta/SKILL.md`) plans a session as a graph of tasks, dispatches them to
agents in git worktrees, and merges their branches. What it does is recorded in a
*run store*, a directory of JSON files that several short-lived command-line programs
write, and that a long-lived *console* (an HTTP server with a database) mirrors and shows.

There is no daemon that owns the store: every command is a process of its own, any number
of them may run at once, each may be killed between two system calls, and they meet only
in files, git branches and database tables. That is what these modules are about.

Contents: inventory · modules and their correspondence to the code · runs · fairness ·
proofs · what is only model-checked · abstractions · divergences · plan.

## 1. Inventory

| Part (source) | State it keeps | Operations | Meets others through |
|---|---|---|---|
| Locked JSON update (`scripts/_locked-json.cjs`) | `<file>.lock` (pid, time, token), the JSON file | acquire with stale takeover and timeout, read-modify-write, release | the lock file, `rename` |
| Event log and status writer (`scripts/_log-event.mjs`) | `events.jsonl`, `index.json`, `state.json` | append an event; with `--status`, rewrite two files | two locks, one after the other |
| Maintenance tools (`console/scripts/backfill-parents.mjs`, `fixture-sessions.mjs`) | the same files | survey, patch, merge onto the index, compare, rename, retry | `index.json`, *without* its lock |
| Inbox (`scripts/_mailbox.mjs`, routes of `console/server.js`) | `inbox/*.json`, `inbox/archive/*.json` | send, reply, POST, list, GET | renames and unlinks only |
| Wave execution (`scripts/wave-exec.js`) | `plan.json`, `wave-state.json`, `owned-branches.json`, branches, worktrees | `--generate`, `--record`, `--summary` | files written back whole, git |
| Mirror (`console/sync.js`) | offsets in memory; tables runs, tasks, events | one pass every three seconds | the store (read), the database |
| Console boot (`console/server.js`, `console/db.js`) | ports, the database file, its schema and seed | bind or try the next port, create tables, seed skills | other consoles: ports, tables |
| Skills and overrides (`console/server.js`) | tables skills, run_skill_overrides | edit, import, delete, override, restore | the database, and booting consoles |
| Views (`console/session-graph.js`, graph and detail routes of `console/server.js`) | none | answer a poll from the database and the store | both, while they change |
| Status report (`scripts/_status.mjs`, `console/tail.js`) | none | read the store, tail logs | the store (read) |
| Dashboard (`console/public/dashboard.js`) | selection, open tab, what each pane shows, editor, draft | poll every three seconds, select, open a tab, edit a run's skill, send a message, draw the map | HTTP requests, several under way at once |
| Authentication (`console/auth*.js`, routes of `console/server.js`) | signed cookies, tables users, web_sessions, a limiter's times | password and OAuth login, logout, the gate before every route | the browser, GitHub, the database |
| Controller and agents (`skills/`, `agents/`) | – | prompts | all of the above |

What is hard about it, and what makes each part correct:

- **Lock.** Waiters judge a lock stale and act on that later; creators have a gap between
  creating the lock file and stamping it; release checks and then unlinks. Correct:
  exclusion, no lost update, a caller never waits for ever, an abandoned lock is reclaimed.
- **Status writer.** Two files, two locks, failures and deaths in between. Correct: no
  status without its event, the registry never loses a session, the two copies agree
  unless something overlapped or failed.
- **Maintenance tools.** A lock-free compare-and-rename against locked writers. Correct:
  the unguarded gap is *only* between the last look and the rename.
- **Inbox.** Two processes and an event loop over directories. Correct: no message is lost
  or missed by a reader, one reply wins, the cap holds.
- **Wave execution.** State read at the start and written back at the end, around a dozen
  git commands. Correct: what is on record as merged is merged, merges respect
  dependencies, other people's branches are left alone unless their name had been claimed, conflicts
  are not thrown away.
- **Mirror.** Passes overlap at each query; the store changes underneath. Correct: a quiet
  pass leaves an exact mirror, nothing that exists loses its rows, no line is repeated short of an overlap or
  a restart.
- **Views.** A detail view is three queries against a mirror that moves in between; the graph
  reads plans that are rewritten in place; the end of a log is cut at any byte. Correct: a
  view is not behind what was mirrored when it was asked for, waves do not go back, no line
  is shown cut short.
- **Boot and library.** Look-then-create schema and seed by competing processes, while
  requests are already answered. Correct: a serving console has a whole database of its
  own; the library changes in single steps.

- **Dashboard.** Polls overlap each other and the operator's clicks; an answer may arrive when
  another session is selected, or after a newer one; an editor outlives its selection; the map
  is drawn from whatever sessions say of their mothers. Correct: a thread never shows another
  session's messages, a message is stored once, nobody's text is saved to another run behind
  the operator's back, the page catches up; every visible session is drawn once.
- **Authentication.** A login is two requests and up to four queries, in a browser that has other
  tabs; a logout deletes a row while other requests are between their queries; secrets may
  change with a restart. Correct: a session ends up in the browser in which its login began,
  nobody is admitted on a session that was over, undisturbed logins succeed, the limiter holds.

`PROJECT.json` lists every hazard at its line, with the properties that cover it.

## 2. Modules

| Module | Lines up with | Role |
|---|---|---|
| `AtomicUpdate` | what `updateJsonAtomic` promises | abstract: one update is applied or refused, in one step |
| `LockedJson` | `_locked-json.cjs` | one step per system call another process can see |
| `LogEvent` | `_log-event.mjs` | one step per file access; locks taken whole |
| `IndexTools` | `backfill-parents.mjs`, `fixture-sessions.mjs` | EXTENDS `LogEvent`: tools composed with locked writers |
| `Registry` | what the writers of `index.json` promise together | abstract: a status, parents or fixtures, each in one step |
| `MessageBox` | what an inbox promises | abstract: a message is accepted, and answered once |
| `Mailbox` | `_mailbox.mjs` and the inbox routes | commands, requests and the console's event loop |
| `WaveExec` | `wave-exec.js` | commands, each git command and each file access a step |
| `Sync` | `sync.js` | one step per query |
| `LogTail` | `tail.js`, `tailJsonLines` of `_status.mjs` | pure: how the last lines of a log are read |
| `SessionGraph` | `session-graph.js` | pure: a plan's current wave, tasks in flight, counts; edges |
| `Mindmap` | the map of `dashboard.js` | pure, EXTENDS `SessionGraph`: order, clusters, captions and threads of any lineage |
| `Views` | graph and detail routes, over a reduced `Sync` | EXTENDS `LogTail` and `Mindmap`: one step per query |
| `Dashboard` | the runs view of `dashboard.js` and the routes it calls | one step per stretch of the page's code between two awaits |
| `Login` | `auth.js`, `auth-oauth.js`, the login routes and the gate of `server.js` | one step per query or response |
| `SkillLibrary` | the skill routes' promises | abstract: seed, edit, import, delete, each in one step |
| `Console` | boot of `server.js` and `db.js`, skill routes | one step per bind or query |
| `…_proofs` | – | EXTENDS the module of that name and `TLAPS`: its inductive invariant, lemmas and theorems (section 5) |
| `MC…` | – | symmetry sets and the definitions the `.cfg` files use |

How state and actions correspond:

- **`LockedJson`.** A member of `Proc` is one call by one process; its name stands for pid
  and token. `lock` is the lock file: who created it, whether the stamp has been written,
  whether its age exceeds `staleMs`. `file` is the sequence of mutations the guarded file
  reflects. `pc` names the next system call: `Create`/`Exists` (`openSync "wx"`),
  `ReadHolder` (contents and mtime; gone means try again), `JudgeStale`, `Backoff`,
  `TimeOut`, `TakeOver` (unlink), `Stamp`, `Fetch`, `Store`, `LeaveFile` (the updater or
  the write throws), `CheckOwner`, `Release`. `Age` and `Expire` are the passing of
  `staleMs` and `timeoutMs`, `Crash` is death at any of these points and `Exit` the ordinary end of a process
  whose call is over: after either its pid is no longer alive (`PidAlive`), which is all that `Stale` asks, of a
  process as it is now and of a lock file as it was when it was read. `outcome` is what the
  call reports. `preempted`, `stalled` and `overdue` are history variables.
- **`LogEvent`.** `AppendEvent`, then per file `Acquire`/`TimeOut`, `ReadIndex` or
  `ReadState`, `WriteIndex` or `WriteState`, `Release`; `WriteFails` is a failed write or
  rename, `Reclaim` takes a dead holder's lock away. The refusals of
  `readIndexForUpdate` (blank, not JSON, misshapen) are the content `Corrupt`.
- **`IndexTools`.** `Survey` (read the index and decide who is live), `Visit`/`Patch`
  (backfill's walk, which rewrites `state.json` unlocked), `Validate`/`Directories`
  (fixtures), `CommitRead`, `Compare`, `Rename`.
- **`Mailbox`.** `Send`; `Arrive`, `Count`, `Post` (the POST handler, split at its
  `await`); `Reply`, `ReadMessage`, `WriteArchive`, `UnlinkPending`; `StartReading`'s
  `List`/`Get`, `ReadPending`, `ReadArchive`. `busy` is the request the event loop is
  inside of: a synchronous stretch lets other *processes* in but no other request.
- **`WaveExec`.** `Load` … `RewriteWaveState` is `--generate`, `ReadPlan` … `SaveResult` is
  `--record`; `Summary` is `--summary`. A wave branch is the set of its ancestors and of
  the tasks whose changes it contains, which a squash merge tells apart. `Reconcile` (an
  agent resolves a conflict), `Deliver` (the pull request is merged) and `OthersBranch` (somebody else makes
  a branch of a name of ours, at any time at which it is free) are external. `foreign` are the branches made
  like that, and `usurped` those of them whose name we had claimed already; both are history.
- **`Sync`.** `pass[p].pc` names the query a pass has issued; `queue` is the order in which
  they were issued, which a pool of one connection preserves (`OneConnection`). The run has it FALSE, a server's
  pool, in which queries may overtake each other: every behaviour of the other is among those. The
  store's writers are environment actions.
- **`Views`.** A log is the set of the positions of its newlines, and a line the pair of the positions
  before its first character and of its newline, so that a line cut short is one that begins later than
  it does in the log (`LogTail`). `Ask`, `FindRun`, `ReadEvents` are `GET /api/sessions/:id`; `Node` and `Edges` are what
  `GET /api/sessions/graph` answers in a state. `Mirror…` and `Reap…` are the mirror, of
  which `Sync` is the full account: here a pass inserts what it has read in
  one step. It begins at the end of what is mirrored or, after a restart (offsets are in memory) or overlapping
  another pass, at an earlier line, so that a run may have several rows of a line; a row is its id and the
  line it is made of. `written`, `known` and `steady` of a request are history.
- **`Mindmap`.** A lineage is the visible ids in their order and what each records as its
  mother. `Generation`, how many steps a session is from its root, is the property's own measure of the rings. `Visit1` and `Spread` are the bodies of the two loops, repeated as often as they
  can be if they end; that the work list is then empty is part of `Drawn`, which `Views` states of
  every poll and of every lineage of a few sessions.
- **`Dashboard`.** An *activation* is one run of an asynchronous function: a `tick`, or what a click
  starts (`selectSession`, `OpenTab`, `Save`, `Revert`, `Send`). `at` is the request it awaits,
  `about` the session the request names, `status` and `answer` what has become of it. `Read`,
  `Write` and `Fail` are the server's side; `TakeSessions` … `TakeWritten` are what the page does
  with an answer, up to the next request (`Onward`, `After`). `Progress` and `Reply` are the
  controller. `home` of an editor's text, `strayed`, `failed` and `typed` are history.
- **`Login`.** A *visit* is one request, or the two of a login with GitHub, which are one because the
  `state` names it. `jar` holds a browser's cookies, which a request reads when it is made and a
  response writes when it arrives (`Receive`). `secret` is the boot in which the signing secret was
  made: a cookie of another secret is one with a bad signature. `verifySessionCookie` takes, as the code does,
  any payload but one with a `wsid`. `Begin`, `Callback`,
  `Exchange`, `FindUser`, `InsertUser`/`UpdateUser`, `OpenSession` are the OAuth routes and
  `handleCallback`; `LogIn`, `LogOut`/`DeleteRow` the password and logout routes;
  `Ask`, `FindRow`, `FindPrincipal` are `resolvePrincipal`. `revoked`, `compared`, `logins`
  (which logins were granted, when and under which secret), `entitled` (by that record) and `disturbed` are
  history.
- **`Console`.** `Bind`/`NextPort`/`GiveUp` are `listenWithRetry`; `Check`/`Create` run
  through `ensureSchema` object by object; `CountSkills`/`Seed` are `seedSkillsFromDisk`;
  `Lookup`, `FindOverride`, `Insert…`, `Update…`, `Delete…` are the queries of the
  handlers. A request that was answered with success and changed nothing is `hollow`.

A definition called a mutant in its comment (`StaleByAge`, `CompareNothing`, …) is never
part of a specification: it is the code with a plausible mistake in it, and putting it in
the place of the definition before which it stands makes the property it is paired with in
`PROJECT.json` fail. That is the evidence that the property depends on the code.

## 3. Runs

| Run | Instance | Shows |
|---|---|---|
| `LockedJson_calls` | 3 processes, crashes, stalls, exits; 266 thousand states | exclusion and updates are lost only after a live holder's lock file was unlinked by another; that takes a crash, a stall, or an exit together with a holder slower than `staleMs`; refinement of `AtomicUpdate`; every call ends, and an abandoned lock is reclaimed before that |
| `LogEvent_calls` | 2 calls, 2 sessions, 2 statuses, any file missing or corrupt, crashes; 1.2 million | events precede statuses; the registry only grows and of either file only the status changes; drift needs an overlap or a failure; every call ends |
| `IndexTools_all` | 2 tools of any kind, 1 locked writer, 2 attempts; 1.8 million | the compare closes everything but the gap to the rename; entries are kept; a corrupt index is left as found; the index behaves as `Registry` |
| `Mailbox_all` | 3 messages, 3 replies, 1 reader, cap 1, crashes; 220 thousand | nothing lost or missed, the cap, one reply wins and stands; the inbox behaves as `MessageBox` |
| `WaveExec_all` | 3 tasks in 2 waves, 2 commands at once, crashes, others making 2 branches at any time; 774 thousand | merged is merged; dependency order; records and plan agree when nothing overlaps; conflicts stay when nothing overlaps; others' branches are untouched unless their names were claimed |
| `Sync_all` | 2 runs, 2 overlapping passes, failing queries, restart, unmount, 2 store changes; 2.1 million | a quiet pass leaves an exact mirror; rows of what exists stay; lines once; no orphans (a log has one line here: that lines are in order is what `EventsTheorem` adds) |
| `Views_all` | 2 sessions of which 1 has files, lines of 3 characters, files of up to 8 read whole and else 6 of them, 2 plans, 3 changes of the store or repetitions of the mirror; 279 thousand | tails are the ends of logs; a detail view with room for the rows is not behind its request, and skips no line of a log it has room for; nodes agree with their plans and never go back a wave; edges join nodes; the map draws every session of every poll, and every lineage of 4 sessions with one more hidden, once |
| `Console_boot` | 2 consoles, 3 ports of which 1 taken, 2 requests, 3 starts; 860 thousand | who serves has a whole database of its own; boots do not all fail; the library behaves as `SkillLibrary`; a success answer means a write |
| `Dashboard_all` | 2 sessions, 1 skill, 2 activations at once, 4 clicks, 1 text, 1 failure or outside event; 1.2 million | a thread is the selected session's; messages are stored once; texts stay with their run; the page settles on what the server has |
| `Login_all` | 2 browsers, 3 visits, 2 accounts of which 1 allowed, lifetimes of 1, a window of 2 with 1 attempt, a restart with a new secret; 2.4 million | sessions come home; who is admitted was entitled; undisturbed logins succeed; the rate holds |
| `LockedJson_preempted`, `WaveExec_squash` | small | divergences of section 8 |

Four more configurations, not listed as runs, are for looking at a divergence of section 8 that is known: in
`WaveExec_claimed`, `WaveExec_conflict`, `IndexTools_live` and `Views_rescan` TLC finds the one property of each violated
within ten seconds.

A module's type invariant is the first conjunct of one of the invariants its run lists
(`SlowHolderKeepsLock`, `StatusHasEvent`, `WritersAreCurrent`, `NothingLost`, `RecordsKept`, `MirrorAgrees`,
`ServesOwnDatabase`, `DetailIsCurrent`, `ThreadIsSelected`, `SessionsComeHome`). `AnswerStands` follows from `BoxAnswersOnce`, and is proved without being listed.

**Why these bounds are enough.** Three lock callers are what the worst interleaving needs
(a holder that is gone, one who takes over, one who judged the same lock), and two for every
property about overlap. Two sessions tell "my entry" from "another's". Two attempts make
both a retry and giving up happen. A cap of one with two posts reaches the limit and one
beyond. Three tasks give a dependency inside a wave and one across waves; a fourth record
(`MaxRecords`) is needed only for the squash divergence. Two passes and two runs let a reap
of one run meet the insert of another; a log line counts two units of size, so that a
partly written line is an odd size. In `Views` two lines of three characters, with their
newlines, are the largest file that is read whole; of three, the chunk of six begins inside the
second and holds the third; and the windows of the status report, of one and four, begin inside
a line and exactly at one. Three starts for two consoles let one restart on the
database of another. Two activations are a late answer and
whatever overtakes it, and four clicks let the operator select, open a tab, leave and act; one
text sent or saved twice shows as twice the same number. Three visits are two logins that meet, or a login,
a request and the logout between its queries; lifetimes of one let a session, a state and an
attempt expire or survive as time goes on, and a window of two with one attempt has a time inside it
and one outside. Four sessions on a map allow a cycle of three with a session that hangs on it, or
two cycles of two. Each bound is a constant named "bound" in its module. Deadlock is not
checked: calls end, bounds are used up, and the systems may then stop.

## 4. Fairness

Liveness is stated only where the code's own structure gives progress:

- `LockedJson`: weak fairness of each process's next system call (the operating system runs
  every process) and of `Expire` (clocks advance). Nothing obliges a call to be made, a
  process to crash or not to, or a lock to grow old.
- `LogEvent`: weak fairness of each call's next step. `TimeOut` is one of them, so a call
  ends even while a dead process's lock is never reclaimed.

- `Dashboard`: the server answers every request or the request fails, the page takes up every
  answer (promises settle), and the timer fires (`setInterval`). Nothing obliges the operator, the
  controller or a failure to act. That requests of different activations are answered in some
  particular order is not assumed.

The other modules have safety properties only; the code promises no progress there that
does not depend on an operator or a controller.

## 5. Proofs

TLC checks a property on the instance of section 3. `TLAPS` proves it for every value of the
constants: any number of calls, sessions, tasks, consoles, browsers or activations, and any value of the
bounds. Ten modules have such proofs, in modules that EXTEND them; those about `IndexTools`, which composes
the tools with the calls of `LogEvent`, follow those about `LogEvent` and use them, and those about `Views`,
`LogTail` and `SessionGraph`, which are what a console answers, follow those about `Console`:

| Module | Theorem | States |
|---|---|---|
| `LockedJson_proofs` | `TypeCorrect`, `Invariance` | `[]TypeOK`, `[]IInv` |
| | `ExclusionTheorem` | `[]ExclusionUnlessPreempted` |
| | `NoLostUpdateTheorem` | `[]NoLostUpdate` |
| | `SlowHolderTheorem` | `[]SlowHolderKeepsLock` |
| | `Refinement` | `AtomicUpdates`: every step is one of `AtomicUpdate`, or a stutter |
| | `CalmExclusion` | while calm (no crash and no stall so far, and no exit or no overdue holder): exclusion and no lost update |
| `LogEvent_proofs` | `TypeCorrect`, `Invariance` | `[](TypeOK /\ Prepared)`, `[]IInv` |
| | `StatusTheorem` | `[]StatusHasEvent` |
| | `OnlyStatusTheorem` | `OnlyStatusChanges`, an action property |
| | `DriftTheorem` | `[]DriftNeedsOverlap` |
| | `ToolInvariance` | `[]ToolIInv`, of `IndexTools` |
| | `CurrentTheorem` | `[]WritersAreCurrent`, of `IndexTools` |
| | `KeepTheorem` | `ToolsKeepEntries`, an action property of `IndexTools` |
| | `RegistryTheorem` | `UpdatesAreSingle`: every step of `IndexTools` is one of `Registry`, or a stutter |
| `Mailbox_proofs` | `TypeCorrect`, `Invariance` | `[](TypeOK /\ OnlyPostedWait)`, `[]IInv` |
| | `NothingLostTheorem`, `ReadersTheorem` | `[]NothingLost`, `[]ReadersMissNothing` |
| | `CapTheorem`, `AnswerTheorem` | `[]CapHeld`, `[]AnswerStands` |
| | `BoxTheorem` | `BoxAnswersOnce`: every step is one of `MessageBox`, or a stutter |
| `WaveExec_proofs` | `TypeCorrect`, `Invariance` | `[](TypeOK /\ JobsFit)`, `[]IInv` |
| | `MergedTheorem`, `DependencyTheorem` | `[]MergedIsMerged`, `[]DependencyOrder` |
| | `ForeignTheorem`, `RecordsTheorem` | `[]ForeignUntouched`, `[]RecordsKept` |
| | `ConflictTheorem` | `ConflictStays`, an action property |
| `Sync_proofs` | `TypeCorrect`, `Invariance` | `[]TypeOK`, `[]IInv` |
| | `EventsTheorem`, `MirrorTheorem` | `[]EventsInOrder`, `[]MirrorAgrees` |
| | `RowsTheorem` | `RealRowsKept`, an action property |
| `Console_proofs` | `TypeCorrect`, `Invariance` | `[]TypeOK`, `[]IInv` |
| | `ServesTheorem`, `AnsweredTheorem` | `[]ServesOwnDatabase`, `[]AnsweredIsApplied` |
| | `SurvivesTheorem` | `[]OneBootSurvives`, if some console's own port is not held by another program |
| | `LibraryTheorem` | `LibraryAtomic`: every step is one of `SkillLibrary`, or a stutter |
| | `ViewTypeCorrect` | `[]ViewTypeOK`, of `Views` |
| | `TailsTheorem`, `DetailTheorem` | `[]TailsMatchLog`, `[]DetailIsCurrent`, of `Views` |
| | `GraphTheorem` | `GraphFollowsPlan`, an action property of `Views` |
| `Login_proofs` | `TypeCorrect`, `Invariance` | `[]TypeOK`, `[]IInv` |
| | `SessionsTheorem`, `AdmissionTheorem` | `[]SessionsComeHome`, `[]AdmittedWereEntitled` |
| | `SuccessTheorem`, `RateTheorem` | `[]UndisturbedLoginSucceeds`, `[]RateHeld` |
| `Dashboard_proofs` | `TypeCorrect`, `Invariance` | `[]TypeOK`, `[]IInv` |
| | `ThreadTheorem`, `SentTheorem`, `OwnTheorem` | `[]ThreadIsSelected`, `[]SentOnce`, `[]OwnTexts` |

**Shape.** None of these properties is inductive. Each proof states an `IInv`, a conjunction of named
parts, that TLC was given as an invariant of the module's run before anything was proved of it;
shows that the initial states have it; shows, with one lemma per action, that a step keeps it; and
reads the properties off it. `Spec => []IInv` is then one temporal step. What an action does to a record that
EXCEPT changes is stated once, field by field, so that the
steps of the invariant do not depend on how the model writes it down.

**What makes the invariants inductive.** In each case it is what an actor remembers, related to the state that it
remembers it of:

- `LockedJson`: that a process is inside its critical section says nothing by itself of the
  lock file. Short of pre-emption, whoever is between create and release is the owner of the lock
  file that is there (`HoldersOwnLock`; two holders would both be its owner); what a process about to store
  has read is what the file holds (`ReadsStayFresh`); an outcome is fixed only by the store or by
  what ends the call (`PendingUntilStored`); the owner
  of the lock file that is there is a holder or has died in its call (`OwnerHolds`), so that a process which has exited
  owns none; and short of a stall an old lock file, as it is or as somebody has read it, was left by the dead or
  has outlasted its live holder, so that whoever is about to take it over has judged so after a crash, or
  after an exit when some holder had been overdue (`StaleMeansLeft`).
- `LogEvent`: whoever is past the wait holds the lock (`LockHeld`), so what it is about to merge into is what
  the file holds (`BufferCurrent`). `HalfWritten` locates the moment between the two files: as long as no two
  calls were setting a session's status at once, at most one has it half written, and then
  `index.json` has the new status already.
- `IndexTools`: the calls keep their types among the tools (`TypeStep` again), but not `BufferCurrent`: a
  rename without the lock may come between a call's read and write. What remains is that an index which cannot be
  trusted has no writer in its gap (`CorruptAlone`), which is why nobody writes over one even then; and that what a tool
  has merged keeps the entries of what it was merged onto (`InHand`), whatever has happened since. That it is one
  update of the registry is so because it differs from what it was merged onto in what the tool's kind
  changes, and in nothing else (`AllChose`).
- `Mailbox`: a copy is archived before its pending file goes (`ArchivedFirst`), so that what a reader
  owes is found, archived, or pending under a name it will still look at (`ReaderWillFind`); a
  message that has been counted keeps the event loop, and the room it was counted for
  (`LoopHoldsRequest`). Whatever was archived had been sent, and what was sent and is no longer
  pending was answered by a command that has been told so (`AnsweredWasTold`).
- `WaveExec`: a branch that others make is ours in nothing but a name that was claimed, and a branch of ours is unclaimed
  only between two steps of a `--generate`, or after it was killed there (`Ownership`, `Accounted`); what a command remembers as merged is an ancestor now, since branches only grow
  (`ClaimsHold`); what is about to be merged has its dependencies in the branch (`DepsThere`); a command
  that runs alone has read what is still on file (`Undisturbed`), and between its two files the outcome is in
  `plan.json` (`PlanTells`).
- `Sync`: what a pass remembers of the store was so at some time (`Remembered`), which is why nothing that
  always existed is reaped. While passes do not overlap the offset is that of the last line
  mirrored (`LinesOrdered`); whatever overlaps, the lines before it are (`LinesCovered`). A pass is *clean* while the
  store stands still under it: then what it knows is so (`CleanKnows`), and what it has done so far stands
  (`CleanDone`).
- `Console`: a port has one listener (`PortsHeld`); what a boot has seen of its schema stays (`SchemaSeen`); a
  library that no import was ahead of is empty or whole (`LibrarySound`). That boots do not *all* fail needs
  a witness that moves: the console that holds a port and is not about to fail, or may still come to a
  free one (`HopeOrEarly`).
- `Views`: before a row of a line there is one, with a smaller id, of each line before it, however often the mirror has
  begun again (`Mirrored`), so that the first rows up to any limit skip no line. What a request knew when it was made is still mirrored, and what was written then is
  still in the log, as long as the session's directory is there (`Current`); so whichever way the request is
  answered, and whatever the mirror does between its queries, the answer shows the one and is not empty for the
  other (`Shows`). That both readers find the ends of a log needs no invariant but that no line is empty: the
  lines are those that begin inside what is read (`PieceIsLine`), a piece more than was asked for is enough not to need
  the first one, which may be cut (`EnoughRead`), and a window that grows fourfold is at last as large as the
  log (`ChunksGrow`).
- `Login`: a session's cookie is in the browser where its login began, and that login is over
  (`JarsKept`); a row a logout has deleted never comes back (`RowsGone`); a login that
  nothing has come between still has its state cookie (`AwayUndisturbed`) and, when it is about to insert its account's row, finds none there yet
  (`AloneUndisturbed`). Every session cookie, in a jar or on its way, is that of a login on record, with its
  time and its secret (`LoginsKept`), which is why admission can be held against that record. Every attempt
  that was let through and is in the window that ends now is still in the limiter's list (`Limited`), so that
  what the list has room for, the window has.
- `Dashboard`: every activation agrees with the page it will return to (`Fits`), whatever the page has
  become meanwhile; a message on its way is the draft, and in no inbox yet (`SendFits`).

**Assumptions.** All are ASSUMEs of the modules, and TLC evaluates them in every run. Most say that
values which stand for nothing (`None`, `NoLock`, `Absent`, `Corrupt`, `Unloaded`) are none of the values they
stand beside, which in the code are `null`, `ENOENT` or a caught exception, and that numbers are
natural. Those with content: tail.js reads at least two bytes, and no more than a file may have that it reads whole
(`ChunkAssumption`: 256 KB of 5 MB); a task's dependencies are in its wave or an earlier one (`PlanAssumption`: by SKILL.md the
planner gives tasks "a `wave` number for ordering, `depends_on` for same-wave ordering"); names of tasks and numbers of
waves differ (`NameAssumption`: the branch names differ by prefix); a cap and a number of lines of at
least one; `Allowed`, `Posted`, `Foreign`, `Fixture`, `Desired`, `BuiltIn` and `Taken` are part of what they are chosen from, and there is a
built-in skill (`ConsoleAssumption`: the repository ships `skills/liberta/SKILL.md` and `agents/*.md`). `SurvivesTheorem` alone has a hypothesis of its
own, and needs it: if another program holds every port that the consoles are told to bind, a boot without
`LIBERTA_CONSOLE_PORT_AUTO` has none to get. In `Console_boot` it holds.

**Refinements.** `LockedJson` implements `AtomicUpdate` with `value` for `file` and `void` for
`preempted`: `AtomicUpdate` itself says that its promise ends when `void` becomes true (`Break`), as a
lock's user has no more to rely on once a live holder's lock file has been removed. `Console` implements
`SkillLibrary`, one for every database that no import reached before its seed: seed, edit, import and delete each
take effect in one query, and every other query leaves the library alone. `Mailbox` implements `MessageBox`: the
answer to a message takes effect when the pending file is unlinked, and an archived copy written before that
is not on record yet, so that one which a dead command has left behind does no harm; `contended` is `overlapped`, the messages that two
commands had in hand, whose answer may come to be the other's but never disappears. `IndexTools` implements
`Registry` with `index.json` for `entries`: a call's status, backfill's parents and either way of the
fixture tool take effect in the rename. `void` is `raced`: from the first write in a tool's gap `Registry` allows `Lose`, any index over
an index, but still nothing over one that cannot be trusted.

**What proving has changed.** `MirrorAgrees` and `EventsInOrder` hold on the run's instance in an earlier
form that does not hold in general: `reapRuns` deletes a run's events and then its row
(`sync.js:226-229`), so if the second query fails, or another pass is under way, the row may stay or be made again
while the offset stays where it was, and the log's lines are never mirrored again if the directory comes
back. It takes more changes of the store than the run's bound. The history `torn` now names such
runs, and the two properties speak of the others. `TypeOK` of `LogEvent`, `IndexTools`, `WaveExec`, `Sync`, `Console`, `Login` and
`Dashboard` say more than they did: of each phase, what a process has in hand. A run of the fixture tool could end in
`IndexTools` as backfill's does, without having done anything (`EndWalk`), which is how the refinement of `Registry` was first
refused. The limiter of `Login` is a set of attempts and no longer a list, which a `SelectSeq` had kept out of reach, and a log
of `LogTail` the set of its newlines, where two readers walked over its text. With it the proof of `TailsMatchLog` found the one
size of chunk for which it does not hold: one byte is the newline alone, and nothing is shown.

## 6. Only model-checked

- **Liveness**: `EveryCallEnds` of `LockedJson` and of `LogEvent`, `Settles`. The prover has no rule for
  fairness over an unbounded set of processes, and none for ENABLED.
- **`MapDrawsAll`**: `mindmapOrder` and `mindmapClusters` are folds and repeated steps over stacks and queues,
  and what they return for any lineage needs induction with a step that is a parameter, which the provers cannot
  instantiate. TLC compares the two walks, and both with the server's edges, for every lineage of four sessions and
  one hidden one. (The one induction that is needed elsewhere, that a window which grows fourfold reaches
  the beginning of any log, goes through a set of numbers: `Induction`.)

`LogEvent` and `IndexTools` take a lock as atomic; `ExclusionTheorem` says when that is
sound, namely until a live holder is pre-empted.

## 7. Abstractions, and what is not modelled

- **Lock.** `readHolder`'s read and stat are one step (what replaces the file in between is
  younger and judged as if read whole). Errors other than `EEXIST` and `ENOENT` are left
  out, except that writes may fail. Pid reuse is not modelled. The next command of a
  process that goes on after one call is the call of another process.
- **Tools.** `createOne`/`removeOne` for all fixtures and the survey are one step each.
  `--dry-run`, symlinked sessions and paths outside the store are left out.
- **Inbox.** Name validation, the limits of the list (`MAX_LIST_FILES` and those in bytes; a fuller box is listed in
  part) and its layout are left out.
- **Wave execution.** Identifier and path guards (I1, I2, I4), logging and the lines of
  the summary are left out; a record costs one token.
- **Mirror.** A log is only appended to, or else replaced (`replaced`), of which nothing is claimed. Of a run's row only its existence and `active` are kept. The upserts of one
  run's tasks are one query.
- **Console.** All consoles bind the same address (see below for what happens when they do
  not). Row ids, read-only routes and the tables of mirror and logins
  (`OtherTables`) are abstracted; of a table and its index, two statements, one step is made; the read that fetches a row for the answer belongs to the
  write. A request that comes before the skills table exists fails, and is left out.
- **Views.** Of a detail its events are kept, of a node its plan and edges. An unreadable
  `events.jsonl` is left out, an unreadable plan is `Broken`. Lines hold no multi-byte
  characters, and every line has its newline: a last line whose end is yet to be written, which the
  detail view shows as it is and the status report counts as bad, is left out. A session id that has rows is not used again.
- **Map.** `mindmapDepth`, which nothing calls, and geometry are left out: of a place only the cluster and the
  ring around its root are kept.
- **Dashboard.** Of a detail its version is kept, of a skill its text. What the operator types is part of
  the click that sends or saves it, so text typed *while* a message is being sent is left out.
  Navigation, the skills library and its forms, who is logged in, the answer 401 (which leaves the
  page), and the overlapping polls of the map are left out, as is the request for the list of
  sessions once a session is selected, since nothing of the runs view depends on it. A selected session that vanishes for good is left out.
- **Login.** Ids, states and tokens are random, hence the visit that made them; a signature is the secret
  it was made with. All attempts come from one address. The cross-site check in front of the
  routes, redirects' targets and pages are left out. A browser returns each cookie under the name it was given. An insert yields its row, as it does on SQLite (but
  see section 8).
- **Not modelled.** The tables that the status report prints; the dashboard's skills library;
  `shot.mjs`, which starts a console of its own, drives a browser and stops both, and the other screenshot
  scripts, installer, test runner and site (rendering and I/O); the prompts, whose effects are the environment
  of `WaveExec`, `LogEvent` and `Mailbox`.

## 8. Divergences

Shown by TLC, with a violated property each (the first two are runs, the others further configurations):

| Configuration | The code | What is said of it |
|---|---|---|
| `LockedJson_preempted` | a waiter unlinks whatever lock file is there, not the one it judged, and may find the pid gone of a slow holder that has released it and exited | "a live holder is never pre-empted" (README.md) |
| `WaveExec_squash` | dependencies are confirmed by ancestry | waves are merged with `--squash` (SKILL.md) |
| `WaveExec_claimed` | a task's branch is claimed before git makes it, so one that others make in between is taken for ours by the next `--generate` | "we fail loudly rather than silently checking out somebody else's work" (wave-exec.js) |
| `WaveExec_conflict` | the merge tree is looked at and then removed by force, also if an overlapping record has left conflicts there in between | "A worktree still holding merge conflicts is never force-removed" (wave-exec.js) |
| `IndexTools_live` | backfill decides once who is live and rewrites each `state.json` later | nothing but its controller "may write anything inside" a live run's directory (backfill-parents.mjs) |
| `Views_rescan` | a restarted console inserts every line again, and the first 50 rows then lack later lines of a log that would fit | a full rescan "is fine for a mirror table" (sync.js) |

The others are plain from the code and have no configuration of their own:

- A status write takes two locks one after the other, so two overlapping writes may leave
  `index.json` and `state.json` with different statuses, where SKILL.md says that "those two files
  never drift apart" (`DriftNeedsOverlap` says when they cannot).
- The offset into a log moves after an awaited insert, so overlapping passes insert the same lines
  twice, where sync.js says that "we simply never re-read bytes" (`EventsInOrder`).
- The tools compare and rename `index.json` without its lock, and a status write that falls in
  between is lost, although fixture-sessions.mjs says that it "is never clobbered"
  (`WritersAreCurrent` holds for every write *outside* that gap).
- The detail view of a mirrored session reads its events in ascending order with a limit of 50,
  hence the *first* 50, where console/README.md speaks of "a tail of its event log" and the fallback to
  the file does show the last 50 (`DetailIsCurrent` claims nothing of a log longer than the view).
- The run-skill editor stays open when another session is selected, and then saves the text it got from
  the first run to the second (`OwnTexts`: `strayed`).
- A late answer for the detail of a session no longer selected is shown under that session's
  heading until the next poll: `refreshDetail` lacks the check that `refreshChat` has
  (`ThreadIsSelected` is about the chat, `Settles` about both).
- The map's caption calls a mother "not in the store" that is there and merely hidden.
- `handleCallback` inserts a user without asking for the row back, which on Postgres yields none: an
  account's first login then fails, and its second succeeds.

Further observations, most of which a property's proviso excludes:

- `release` takes the null token of an unstamped lock file for its own (within `preempted`).
- What backfill does to the `state.json` of a session that has started meanwhile is no part of `ToolsKeepEntries`,
  which is about the index.
- Of two replies with one message in hand, the one that fails may leave its text
  (`BoxAnswersOnce`: `contended`).
- Overlapping `--record` commands lose results and tokens (`RecordsKept`: `overlapped`); a `--generate` that dies between creating
  and claiming a branch leaves one that is refused from then on.
- With overlapping passes, events of a run that is being reaped may stay
  (`EventsInOrder`: `overlapped`). If a run's events are deleted but then its row is not, or is made again by
  another pass, the offset stays, and the log's lines are not mirrored again should the directory come
  back (`MirrorAgrees`, `EventsInOrder`: `torn`); an unmount in the middle of a pass removes rows of runs that the index no
  longer names although their directories exist (`AlwaysThere`: `unmounted`).
- An import before the seed means that built-in skills are never seeded, or that the seed's
  insert fails and with it the boot (`early`). A handler whose row was deleted under it
  answers with success (`crossed`). Deleting a skill leaves its overrides.
- `tailLines` drops the first line of its chunk even if the chunk begins exactly at that line.
  An undone task without a wave lets a node report the highest wave although work is left
  (`PlanShown` speaks of tasks that have one). `_status.mjs` reports "no events" for a log
  whose last five lines are all unparseable.
- If the text of a skill cannot be read again after a save, the editor says "Saved" and opens on the old
  text. What is typed while a message is being sent is wiped when it has been.
- Where mothers form a cycle, the map takes the first session of the list for a root, though it may merely
  hang on the cycle; its thread then comes from another cluster (`Drawn`).
- A second login leaves the row of the first in `web_sessions`. Two tabs that log in at once take each
  other's state cookie away; of two first logins of an account the one that inserts its row second fails; a logout during a login ends
  logged in (`UndisturbedLoginSucceeds`: `disturbed`). A request that is past the lookup of its session's
  row is admitted even if a logout deletes the row at that moment (`AdmittedWereEntitled` speaks of
  when it was made). Refused attempts count as attempts, and so prolong the limiter's block.
- Consoles on different addresses may use one port, and then share the database file that
  is named after it. A scan past port 65535 ends in an exception rather than a message.

## 9. Plan

1. The dashboard's skills library (its view and import form), and the life of the console and the browser
   that `shot.mjs` starts.
2. The runs of `WaveExec` and `Sync` at larger bounds, one component at a time.

## 10. Running

    tlc -workers 2 -config LockedJson_calls.cfg MCLockedJson
    tlapm LockedJson_proofs.tla

Every other run is named in `PROJECT.json` with its module, and takes at most about two
minutes and three quarters on two cores.
