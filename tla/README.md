# A TLA+ model of project-pat

project-pat is a single-user workshop for ideas and project design docs. One
server process (`cmd/pat/server.go`) and any number of command-line processes
(`cmd/pat/cli.go`) share one SQLite file; LLM providers do the writing, a cron
scheduler runs agents, and a project can be written to disk as Markdown. The
modules here model the parts of it where the order of steps matters, check them
with TLC, and prove the most important results with TLAPS. Every definition is
translated from the Go code; `PROJECT.json` maps each one to its lines. Paths
below are relative to `src/internal/` unless they start with `cmd/`.

## 1. Inventory

| component | state it keeps | operations | what is hard | what makes it correct |
|---|---|---|---|---|
| runs and their jobs: `handlers/handlers.go` (streamSSE, streamTeamDraft, run now), `handlers/prototype.go`, `scheduler/scheduler.go` (runAgent), `cmd/pat/cli.go` (agents run) | rows of `runs`, `artifacts`, `inbox_items`; request contexts, `RootCtx`, the wait group of Background | open a row, stream, time out, disconnect, close the row, deliver the result | crashes and refused writes between the two writes of a run; disconnect against timeout; reaping of live rows | a row says what became of its run; nothing says *running* without an owner |
| server process: `cmd/pat/server.go` | its phase; one 10 s grace period | boot, reap, serve, drain, wait, stop, crash | jobs in flight under a shutdown; a drain with no deadline | the process ends, and ends without open rows |
| scheduler: `scheduler/scheduler.go` | cron entries, `sc.ids`, the notify channel | Start, Stop, Reload, reloadLoop, syncFromDB | a ping racing a read; a read applied later; failing reads | the runner holds the schedule of the table |
| project documents: `handlers` passes, `store` artifacts | design doc and `updated_at`, artifacts, brief items, decisions | draft, critique, apply, brief, reconcile, decide, notes, presets | passes that overlap; two writes per brief; one-second timestamps | pages draw the right conclusions from timestamps |
| promotion: `handlers` ideaActions, `cmd/pat/cli.go` | table `projects` with `UNIQUE(slug)` | look, probe, insert | three statements with nothing around them | a redirect leads home; failures and duplicates have a cause |
| workspace materializer: `workspace/workspace.go` | a directory of Markdown files | several reads, then several writes in map order | reads that mix states; errors dropped; writers at the same time; files nobody removes | the index agrees with its files; what is written is no older than the start |
| idea board: `handlers` board*, `store` ReplaceClusterData | `idea_clusters`, their members, `idea_links` | ask, replace in a transaction, three reads | reads of two clusterings; ids repeated or invented by a model; a refusal after the delete | one reply is stored whole or not at all; no page puts an idea where it was not put |
| database: `db/db.go` | tables, columns, one late index | a script of CREATE IF NOT EXISTS, four changes of columns | processes that migrate side by side, with no transaction; crashes between statements; one connection | whoever opens the file gets the current schema; a start alone never fails |
| streams: `llm/` CompleteStream, `handlers` streamSSE and writeSSE, `stream.js` | the text so far on each side, the block the page is parsing | read a line, emit, write lines, tick, show | failures in the middle; a heartbeat beside a late token; a page that leaves | the page, the row and the provider tell the same story |
| line diff: `web/diff.go` | none | align, pair, refine, clip | empty texts; runs of different lengths; gaps at either end | both texts can be read off it, and no line is marked for nothing |
| replies of models: extractFirstObject and extractJSON in `handlers`, sanitizeRelPath in `handlers/prototype.go` | none | find the JSON in prose; accept or refuse a path | braces and quotes within strings; dots that lead out and in again; blanks, odd bytes, length | what is found is the object; what is written is below its directory |
| inbox and floor: `handlers` inbox*, runDiff, floor; `store` PreviousRunOutput, UnreadItems | `inbox_items` and their marks, rows of `runs` | file a report, show it against the run before, mark it, count the unread | runs of one agent that overlap, end in another order or are reaped; a floor loaded before the marks | a page goes on comparing with the same run; a count leads to reports |
| stack and its catalogue: `stack/catalog.go`, `handlers` stack*, `store` project_stack | `project_stack`, `projects.stack_preset` | pick, clear, apply a preset slot by slot, panel, banner, prompt | a preset half applied; two requests at once; rows of an earlier release's options | label, panel, prompt and rows say the same |
| configuration: `config/config.go`, `llm/llm.go` New | the environment | `.env` under it, provider, key, model, URL | variables of several vendors, empty ones, orders of precedence | what is meant for a vendor goes to it |
| interactive shell: `cmd/pat/repl.go` | the pinned project | cut a line into words, fill in the id | quotes within quotes, escapes, arguments that look like ids | the command typed is the command run |
| prompts, Markdown, templates, scripts of the page but `stream.js` | none worth the name | layout and tables | | |

How they interact: handlers, the scheduler and the command line call the
store, which serialises statements on one connection per process (`db.go:24`)
and knows two transactions (`CreateBriefItems`, `ReplaceClusterData`); every
other sequence of statements can be interleaved. The server cancels `RootCtx`
(seen by Background goroutines, cron jobs and prototypes), closes the listener,
waits for requests and goroutines, then stops the scheduler. Handlers that
create agents ping the scheduler over a channel of capacity one. The
materializer and the pages read what passes are writing.

`PROJECT.json` lists all components with their status, and the hazards, each at
the line where it bites, with the properties that would catch it.

## 2. Plan

Done, in the order of importance: (1) `RunLifecycle` with its abstract
specification `RunRecord`, (2) `Scheduler`, (3) `ProjectDoc`, (4) `Promote`,
(5) `Workspace`, (6) `Stream`, (7) `LineDiff`, (8) `Board`, (9) `Migrations`,
(10) the text functions `Replies`, `Shell` and `Config`, (11) `Inbox`, (12)
`Catalog` and `Stack`. All have their proofs: every safety property a run checks
is a theorem.

Left, in this order:

13. Composition: `RunLifecycle` with the passes of `ProjectDoc` as its
    successes, and `Stream` as the inside of its answers; a materialization
    implements an atomic read where nothing is stored meanwhile.
14. What passes that overlap lose of each other's docs (`handlers.go:960`): a
    bound on what an overwrite may drop, which the code does not state.
15. The scores that order the tiles of the floor.

Theorem worth adding: what the ticker of `Scheduler` needs (`InSync` is stable
without edits).

## 3. Modules

### RunLifecycle, RunRecord, RunsProofs

One process per job that owns a row of `runs`. `pc[j]` is the statement a
job is at: *accepted* (request or cron job), *spawned* (Background goroutine),
*llm* (inside `CompleteStream` or `Complete`), *answered*, *drafted* (a team
draft whose doc is stored), *recorded* (row closed, result not yet delivered).

| actions | code |
|---|---|
| Request, Fire, Invoke, Background | the ways a job begins: `handlers.go:1335`, cron, `cli.go:288`, `handlers.go:54` |
| StartRun, FinishRun | `store.go:356-375`; a refused insert ends a stream (500), the others go on with run 0 |
| Token, Disconnect, Answer | `handlers.go:1118-1138` and the provider |
| FinishError, FinishOk, OnSuccess | `handlers.go:1127-1161`: the row first, then the result |
| NextPass, UpdateProjectDoc, FinishTeam | `handlers.go:1225-1298`: the results first, then the row |
| WriteFiles, CreateInboxItem | `prototype.go:63`, `store.go:489` |
| Boot, Start, RivalStart, Signal, GraceExpires, ShutdownReturns, WaitReturns, Stop, Crash, KillCli | `cmd/pat/server.go` and the operating system |

Writes may be refused (`StoreMayFail`); `lost` remembers whose. `RivalStart` is
a second server that reaps before it finds its port taken. What a job stores is
a set of things; texts are left out. A job runs once. `ResultAgreesWithRow` has
two parts: `TakenWritesAgree` for a job none of whose own writes was refused,
and `RefusedWritesLeave`, the little that holds for any other (the code logs or
drops the error and goes on, so that a result may stand under a row that is still
*running*, and an *ok* row without its result).

`RunRecord` is what the history pages promise: open, close once, sweep, report.

### Scheduler, RunsProofs

`table` is the table `agents`, `snapshot` what `ListAgents` returned, `ids` is
`sc.ids`, `entries` the cron runner's entries with the agent each closure
captured. `CreateAgent` commits and `Reload` pings later, as the handlers do.
`ListAgents` and `Apply` are separate because only the latter holds the mutex.
`Edit` is another program with the file open. `FollowsSnapshot` compares both
`ids` and `entries` with the table as it was read. What a fired entry does is
`RunLifecycle`'s Crons, which is why the proofs of both stand together; names that both
would have, such as `SchedulerInit` and `StopScheduler`, say whose they are.

### ProjectDoc, MCProjectDoc, ProjectDocProofs

Passes read a project and store minutes later what they made. Artifacts are a
sequence of records with a kind, a second, and what they were made from;
`doc.seen` is the last critique its author had seen. A brief is stored with one
write and its items with another. `CritiquePending`, `Stale` and `ShownRecon`
are the conclusions the floor and the project page draw.

### Promote, MCPromote, PagesProofs

`ProjectByIdea`, `ProjectBySlug`, `CreateProject` are the three statements of a
web promotion; `PromoteFromCLI` and `CreateFromForm` insert beside it. The slug
candidates of an idea are a constant sequence, since `Slugify` is a function of
the title; the thousand suffixes of the code are as many as the sequence has.

### Workspace, MCWorkspace, WorkspaceProofs

The database is the log of what was stored. A maker reads the project row
(`Begin`), then makes its queries in the order of `workspace.go:35-43`, each of
which may be refused and then counts as nothing found; with the last one it
chooses the files, and writes them in any order. A file is the positions of the
events it was built from, so that age and provenance of every section can be
told. `Torn` is a file left empty or mixed by an error, a crash or two writers.
`solo`, `began` and `blind` are history variables: the maker that started last if
it has been alone since, how much was stored when it started, and its queries
that were refused. `NotOlderThanStart` goes by the source: of one whose query was
refused it says nothing, and nothing of a `BRIEF_RECON.md` that is not written
this time because no reconciliation is newer than the brief. The code leaves
such a file as an earlier run wrote it (`workspace.go:57`), though line 20 calls
the directory a snapshot.

### Stream, MCStream, StreamProofs

One pass from the provider's lines to the page. The provider (external) sends
lines: a chunk of text or thoughts, an error in either shape, the mark of the
end. `emitting` is what the handler is writing, line by line, since `writeSSE`
turns a payload into one `data:` line for each of its lines; the page
(`stream.js`) gathers them in `block` and joins them again at the blank line. A
chunk is a sequence of pieces joined by line breaks (`Joined`). The heartbeat is
a goroutine of its own that writes a comment between two events, kept out of
them by the mutex (`Unlocked`); `Disconnect` and `Expire` may come at any
moment. `full` is what `CompleteStream` returns, `partial` what streamSSE was
told by `OnContent`, `row` the row of the run. `Record` is FinishRun, which the
store may refuse; that is only logged, and the stream goes on. `said`, `noted`
and `refused` are history variables: what the provider sent, and whether the row
could not be closed.

### LineDiff, MCTexts, TextsProofs

`AlignLines`, `Refine` and `Clip` are the stages of the inbox's diff, each a
whole pass of a pure function: the table of common subsequences and its walk
(`lcsDiff`, and `tokenLCS` for words), `pairAndRefine` and `refinePair`,
`clipContext`. A line is a model value with a sequence of words; `DiffInit` chooses
any two texts. The loops over two indices are functions on their pairs
(`Corners`): the table `InCommon`, filled from the ends, and `Walk`, what is
output from each pair on. `RefinedFrom` is the outer loop of `pairAndRefine` and
`Select` every loop that copies some elements of a slice. A line of the diff is
the positions it stands for (`old`, `new`, 0 for none), so that lines that are
equal can be told apart.

### Board, MCBoard, BoardProofs

`Ask`, `Answer`, `Begin` lead to the transaction of `ReplaceClusterData`, whose
statements are actions of their own (`Wipe`, `InsertCluster`, `InsertMember`,
`InsertLink`, `Commit`), with `Fails` possible at each. One connection means
that nobody reads or writes meanwhile (`Free`); between the three queries of
`boardData` anybody may. A label is the reply it came from and its position
there, so that what a page shows can be traced to a reply. `version` and
`source` are history variables. Another process with the file open waits for
the lock of the transaction, which is the same as waiting for the connection.

### Migrations, MCMigrations, MigrationsProofs

Every process runs `Open` once: the statements of the script (`RunScript`), then
for each of the four changes a look at the table (`QueryTable`, whose result set
is closed by `ScanTable`) and the ALTER if it is needed, then the index that
comes last. Statements of different processes interleave; any may be refused
(`Refuse`), and a process may die between two (`Crash`). `AlterTable` fails where
SQLite says "duplicate column" or "no such column". `rows` is the process's one
connection, in use by a result set. `rivals` and `refused` are history
variables. Init is no file, or the file of any release: any set of tables that
has those the changes are about, and any prefix of the changes.

### Texts, Replies, Shell, Config, Answers, MCTexts, TextsProofs

Pure functions, as functions on the positions of a sequence of characters, words
or lines: `Scanned` is what `extractFirstObject` knows after each character,
`Parts` cuts a path at its slashes, `Cleaned` is what `filepath.Clean` has after
each part, `Read` what `tokenize` has
after each character, `AfterLines` the environment after each line of `.env`. A
character the code does not look at is one value; a path is a sequence of bytes,
in which a backslash and a NUL are both *odd*, and one of more than `LongestName`
bytes is refused, 200 in the code; a number is what `strconv.ParseInt` takes, with its sign
and its limit of 64 bits. A value of a variable is named for the vendor it is
meant for. `Texts` has the two functions of package
strings that two of the modules call. `Answers` asks one question of one of the
functions (`Reply`, `Path`, `Line`, `Setup`) and compares the answer with a
definition that has nothing of its shape: objects are what a grammar generates
(`Items`), a path is walked, a command is compared with the words that were
quoted, settings with what was said. Which questions there are is a constant;
`MCTexts` gives all of bounded size, and runs `LineDiff` beside `Answers` as
`MCPages` does with two pages.

### Inbox, MCPages, PagesProofs

Runs of agents in flight, each with its row and, later, its report; `Reap` marks
the rows of the dead. A viewer opens a report in two queries, the row and then
the run it is compared with, and marks it afterwards; `tiles` is what the floor
said when it was loaded. `beside`, `raced` and `since` are history variables.

### Catalog, Stack, MCPages, PagesProofs

`Catalog` is what `stack/catalog.go` computes of options and presets, and what
the panel, the banner and the prompt make of a pick. In `Stack` each statement
of a request is an action: a pick, a clear, a preset slot by slot and its label
after them, each of which may be refused or be the last before a crash, and the
panel that is read for the answer. Rows outlive the server: `Crash` starts one of
any release, and `offered` are the options it has, so that rows may hold options
that were taken out of the catalogue (`catalog.go:3` invites such edits).
`renewed` and `touched` are history variables. `MCPages` checks `Inbox` and `Stack`
in one run; they share nothing, so each behaviour is of one of them.

## 4. Runs

| run | instance | what it shows |
|---|---|---|
| `runs_server` | a stream, a manual run and a cron job; two starts of the server | rows and owners agree at every step, crash and drain; a stop is clean; the record of `RunRecord` is implemented; every run and every shutdown ends |
| `runs_refused` | a stream, a team draft or a prototype, beside a command-line run, a store that refuses, a rival server | results agree with rows for every job whose own writes were taken, whatever is reaped or killed; without a row or under *cancelled* nothing is stored; *cancelled* keeps content |
| `sched_sync` | two agents, two valid expressions, an invalid one, one edit | schedule, wake-ups, convergence |
| `doc_overlap` | two passes of all kinds, three artifacts, two doc versions, two seconds | pending, stale and complete are judged rightly |
| `doc_preset` (violation) | one pass | a critique newer than the doc is pending, a preset is applied a second later, and it is pending no more |
| `promote_race` | two requests, three colliding ideas, three projects | redirects, failures and duplicates have their causes |
| `workspace_index` | two makers, three briefs, notes or reconciliations over two seconds, queries that are refused | index and files agree; what a query answered is on disk no older than the start, but for a reconciliation that is no newer than the brief; notes on their brief |
| `stream_page` | three lines of a provider, among them text with a line break, thoughts and errors, one heartbeat, a store that may refuse to close the row | a page that stays shows what the handler was told; it is told the end once, and rightly; the row is what the provider said, or still *running* where its write was refused; the heartbeat ends |
| `board_cluster` | two requests, four replies, three ideas, a page | one reply is stored whole or not at all; a page shows one clustering or says nothing false |
| `migrations_open` | three processes, four tables, a new file or one of any release | who opens the file finds the current schema; losing takes a race, and not everybody loses; somebody gets in |
| `texts` | a pair of 203 texts (all of up to three lines out of five, all of four and five out of two); replies of six characters or five with fences; paths of eight bytes under a limit of seven, of five with blanks and odd ones among them; commands in every quoting, pinned or not, with questions that are numbers or almost; environments of four variables, and of three under a file of two lines | both texts can be read off the diff and it marks no more than it must, inside its gaps and pairs too; the other functions agree with definitions of their own |
| `pages` | three runs of two agents, a viewer; two requests on two slots and two presets, servers of two releases | a comparison is stable, and with the run whose report stands below; counts lead to reports; label, panel and prompt agree |

Why the bounds are enough. Jobs interact only through the server's phase and
through reaping, and each kind of job occurs; a second start is needed to reap
and to meet the late write of an earlier process, a third shows nothing a
second does not. In `sched_sync` one edit exercises each difference between
two rows, and the second agent is there for the ping that is dropped because
another is in the channel. Three artifacts are a brief, its reconciliation and a newer
brief, or a critique between two docs. Promotions collide pairwise: two requests
and a third insert. Three events are a brief with a reconciliation or a note and
a newer brief, two seconds an older and a newer one.
Three lines are a chunk with a break in it, a failure, and what follows it, and
one tick falls before, between or after them. A context of one line needs texts
of four and five lines for a gap in the middle, which are among the 203. An
object with a string with an escaped quote in it has six characters; `a/../..`
and `./..//..` have the parts that lead out of a directory, and
names of six, seven and eight letters with blanks or `./` before or behind are on either
side of the limit, which only matters as a number; the least and the largest numbers of 64 bits and their
neighbours are among the questions; four
variables are a provider, two keys and a model. Of three processes that open a
file two can lose and one go on. Three runs are the one on the page, the one before it and
one that ends between them. Two presets with two slots can be left half
applied over each other, and one release lacks the framework of one of them. In
`runs_refused` one request begins at most (`OneRequest`), as a stream, a team
draft and a prototype share nothing but the server. Two
requests to cluster are the one whose data a page has read and the one that
replaces it between two of its queries; the replies are one as asked for, one
that repeats ideas and links, one that invents ids, and an empty one. Properties
that quantify over kinds a run does not have (the decisions and critique of
`Workspace`) are proved for every slice of the kinds.
`CHECK_DEADLOCK FALSE` stands where the system may really stop: the server is
down and every job is used up, the scheduler's loop has exited, every process
has opened its file, or every request and question has been answered.

Every property of a passing run is paired in `PROJECT.json` with a mutant (`FollowsSnapshot` with two), a
definition marked *Mutant* in its module that replaces the code's, such as a
dropped guard or a forgotten write, and TLC then finds the property violated.

### Fairness

`PromptSpec`: a goroutine that can run does, the grace period and the phases of
the shutdown advance, and an LLM call whose context is cancelled returns
(`http.Request.WithContext`). Nobody has to send requests or signals. That every
call ends is an assumption of its own, `Deadlines` (each context has a timeout,
`handlers.go:1086`), in the antecedent of `RunsEnd` only; `ShutdownEnds` holds
without it.

`PingSpec`: handlers reach their ping, the loop wakes and applies, and a read
that is attempted again and again succeeds some time (strong fairness of
`ListAgents`, as the store may fail in between). The ticker and the choice of
the `select` are `Ticking`, in the antecedent of `TickerConverges` only.

`FairSpec` of `Migrations`: a process that can take a step of `Open` does;
nobody has to start one, and none is assumed to be spared a crash or a refusal,
which the property names as its exceptions.

`FairSpec` of `Stream`: the goroutines run, and every call of the provider ends,
with the deadline of its context at the latest (`handlers.go:1086`). Nothing is
assumed of the page or of ticks.

## 5. Proofs

Proved for every value of the constants, from the named assumptions of the
modules (the kinds of jobs are disjoint, markers are no values, every idea has
more than one candidate, and so on).

`RunsProofs`, of `RunLifecycle`. `TypeCorrect`; `ResultsAgree` from *JobInv*: besides the
types, `RowFollowsJob` (which statuses a row can have at which statement),
`SavesInOrder` (what a job has stored by then), both of a job whose own writes
were taken, `LeavesLittle` (how far any job is bounds whether it has a row and
what it has stored) and `TakenWritesAgree`. `NoPhantomRows`
and `StopIsClean` from *OwnerInv*: `DownIsIdle` (no served job is in flight
while the server is down), `Drained` (which jobs are gone in which phase of the
shutdown), `RowFollowsJob`, and the two properties, none of which is inductive
alone. `CancelledKept` from *CancelInv*: a cancelled row belongs to a job that is
over, so that no later pass empties its partial. `TerminalFinal` and `RecordRefined` (initial states and steps of
`RunLifecycle` are those of `RunRecord` or stutter) from *RecordInv*, under
`Undisturbed`: no command-line jobs, no rival server and no refused write, which
is when they are true.

`RunsProofs`, of `Scheduler`. `ScheduleFollows` is put together from `IdsAlwaysFollow`,
by the lemma that `Apply` makes the scheduler adopt the snapshot, and from
`EntriesMatch`, which is inductive beside the types; `WakeupsKept` needs the types
alone.

`ProjectDocProofs`. *Stamped*: timestamps grow with ids and never exceed the
clock, and all the doc's author had seen is no newer than `updated_at`; from it
`PendingUnfolded` and `FreshShown`. *Listed*: who is about to store a
reconciliation read a brief with items; from it `ListRead`. Each action is first
reduced to how the table grows. The largest id of a table exists by the lemma
`LargestExists`, which `WorkspaceProofs` has too.

`PagesProofs`, of `Promote`. *RequestInv*, a conjunction for every request: what it found
when it looked, what it found when it probed, where it was sent, why it was
refused. All of it survives a growing table, which is one lemma; from it
`RedirectsHome`, `FailuresExplained` and the action property
`DuplicatesExplained`.

`PagesProofs`, of `Inbox`. *InboxInv*: the types; a run that began while an
earlier one of its agent was in flight knows of it (`BesideTold`); a run files
at most one report, when it goes (`FiledOnce`); reports of an agent come in the
order its runs began but for those that began beside another (`InOrder`); what
a page compares with is still what `PreviousRunOutput` would find, and no run
below it can end well any more (`Compared`). `ComparisonStable` and
`ComparesWithBelow` follow from it, the latter by way of the largest report
below; `TilesLead` is inductive beside the types, by counting: a report
that is filed adds to the list, one that is marked leaves it and is counted as marked.

`PagesProofs`, of `Stack`. *StackInv*: the types; *OfferedInv*: a slot written since
the server started holds an option of its catalogue, or none, and so will what a
preset under way has yet to write, whatever releases came before; `LabelInv`, that a request which has written some
slots of a preset still has them there unless it has been told of another
writer, and that the label names what every slot holds that nobody else has
written; `PanelInv`, that a panel about to be shown has the label as it is. From
it `PromptAgrees`, `LabelTrue` and `LastPanelCurrent`.

`WorkspaceProofs`. `IndexCorrect` from *IndexInv*: a maker that is alone is the
only one at work, and each file it need not write any more holds what it read.
`SinceCorrect` from *SinceInv*: in addition positions are within the log, the
log is in the order of its seconds (*Ordered*), the
brief is read before its reconciliation and its notes, and what has been read by
queries that were answered is no older than the start; *ReconHalf* is that for a
reconciliation: the file of one that counts, because it is newer than the brief, is written or still to be. Either property speaks of the moment the last file is written, and
both are carried past it because whoever comes next ends the solitude.

`StreamProofs`. *Transit*: what the page shows, followed by the event it is
reading and the pieces still to be written, is `partial`, and the page is between
two events whenever the writer is; *Results* ties `full`, `partial` and the row to what the
provider said, and says that a row still *running* behind its answer is one
whose write was refused; *Told* counts the ends on their way. Together with the types they
give `PageFollowsCorrect`, `ToldOnceCorrect` and `RowIsWhatWasSaidCorrect`.

`BoardProofs`. *Placed*: every cluster of the stored tables, and of those a
transaction is building, has the label of a reply that was given, and its
members are named there; *Grown*: ids of a transaction that are not new are
those it found, with their labels, which is what AUTOINCREMENT is for; *Shown*:
what pages have read of ideas agrees with the clusters there are. From these
`NoneForeign`; `ConstraintsKept` from *Remembered*, that every member inserted
is in `assigned`; `TypeCorrect` needs *InPlace*, where the cursor stands.
`OneSnapshot` from *SnapshotInv*: an idea is in one cluster at most (*Once*), and
what a page has read under the present version is what is stored (*Snapped*).
`OneReply` from *OneReplyInv*: between two statements of a transaction the tables
are exactly those of the part of the reply that the cursor has passed
(*Midway*): its clusters in its order, every idea in the first of them that
names it, of every pair the last link; at the commit that part is the whole.
What is stored came from a request whose reply is still there (*Sourced*).

`TextsProofs`, of `LineDiff`. `BothSidesShown` and `NothingGivenUp` from *DiffInv*, for texts
of any length. Aligned and refined, the diff is *Whole* (every line of both
texts is in it once and in order, and unchanged lines are equal) and *Counted*
(as many lines are unchanged as the longest common subsequence has); refined
pairs are in agreement (`AllAgree`); clipped, the diff is `ClippedWell`. Four
arguments lead there:

- the table bounds every pair of matching positions from each corner on
  (`TableBounds`), and the walk reaches that bound and leaves nothing out
  (`WalkIsWhole`);
- a diff that has the same lines in an order that `MayPrecede` allows is as good
  (`Tidy`, `WholeKept`, `CountKept`), and that is what pairing by position makes of
  runs of different lengths (`PairedTidy`, `RefinedTidy`);
- the words of a refined pair are those of its lines, since the tokens that are not
  added (or not deleted) are the words in their order, and two lines with
  words that are similar have a common subsequence that is not empty;
- a stretch that is left out is the same in both texts (`HiddenAlike`), and the
  neighbours of a gap within the context are unchanged (`ClippedGaps`).

Each recursive function is shown to have a solution and the induction is over
the distance from the end: `LeastExists` takes from the library that the order
of numbers is well founded (`WFMin`), which speaks of sets, so that no operator
has to be passed (`FromZeroOn`, `OverCorners`). What is assumed is that texts are
sequences of lines and not empty, that every line has its words and the blank
line none, and that the context is a number.

`TextsProofs`, of `Answers`. *AskInv* says that an answer, once given, is what the
functions make of a question that was allowed; each property is then a fact
about the functions, for questions of any length. What is assumed of questions
(`RepliesType`, `PathsType`, `CommandsType`, `SetupsType`) is only that they are
of their sort: a reply and a path are sequences of characters, a command about
a project has its id and its words are not empty (its question may be a number), a
variable that is named for a vendor holds a value for it. Each function on positions is shown to
have a solution by `CarrySolved` or in the manner of it.

- `FilesStayInside`: as long as a walk from the directory does not leave it, it is
  at the directory followed by the cleaned parts (`StaysBelow`), and if the
  cleaned path has no `..`, the walk never went above (`PathIs`). A path that
  is absolute is walked from the root, and refused.
- `SettingsAlwaysAgree`: after n lines a variable is what the environment says, else
  what the first of the n lines on it says (`DotenvStands`); the first of some
  variables that is set is found (`FirstSetIs`); the client is then told
  by cases over which are (`ClientIs`).
- `WordsAlwaysArrive`: *Reads(a, text, b)*, that a text takes the tokenizer from one
  state to another, can be put together (`ReadsOn`). A quoted word takes it from
  between two words to the end of that word (`QuotedMeans`), so a line does for all
  its words (`LinesGo`), and the blanks at its ends are nobody's
  (`NothingTrimmed`). The id fills exactly the gap it left (`IdFilledIn`), unless
  what stands there is a question that is a number.
- `RepliesAlwaysFound`: the scanner says *in a string* just where the grammar has
  one (`InString`, with `EscapedNext` for the parity of backslashes), and that
  is the ground of two inductions over the length of a stretch. What the grammar
  calls items leads the scanner from a depth back to it and never below
  (`ItemsLead`); a stretch that does so are items (`ItemsMade`, where the brace
  that closes the first one is found by `BraceFound`). So the depth is zero for the
  first time exactly where the object at the first brace ends, or there is no
  object (`ObjectIs`). The fenced text is found by its two first fences
  (`FencedIs`).

`MigrationsProofs`. `OpenedCurrent` from *SchemaInv*: what a process has passed
is there (*InPlace*), which stays so because tables and columns only come.
`LosingTakesARace` from *RaceInv*: processes that are opening the file know each
other (`RivalsKnown`), and whoever has been beaten to its change has somebody
ahead of it who has not lost (`BeatenBySomebody`). A process that loses at a
later change was itself ahead of some and hands them over to the one ahead of
it, which is why the order of the changes is in the invariant.

Proved and not run of their own: the types, `TerminalFinal`, `EntriesMatch` (a part of `FollowsSnapshot`),
`ConstraintsKept`. Only model-checked: liveness (`RunsEnd`, `ShutdownEnds`,
`TickerConverges`, `HeartbeatEnds`, `SomebodyOpens`), which is out of the
prover's reach, and the violation. No invariant of a run is left without its
theorem.

## 6. Where code and documents disagree

The violation run, with the quote in `PROJECT.json`:

- `doc_preset`: applying a stack preset bumps `updated_at` (`store/store.go:254`), by
  which a pending critique is told (`store/store.go:827`). In the trace the critique
  is stored in the second after the doc's, so that it is pending; a preset is
  applied in the second after that, and the critique, which no doc has taken in,
  is pending no more.

Seen while reading and modelling, not run: two promotions of one idea at
once make two projects, of which promoting again leads to the newer
(`handlers.go:218`, where `DuplicateNeedsRace` says it takes a race; the command
line, `cmd/pat/cli.go:134`, does not look at all); a start of the server marks the run
of a live `pat agents run` as orphaned (`store/store.go:383`, while README.md:41
speaks of crashed processes); a client that leaves a team draft before the
current pass has streamed anything gets *failed* and an empty output
(`handlers.go:1230` against README.md:41); `BRIEF_RECON.md` of a replaced brief
is never removed (`workspace/workspace.go:57` against line 20), and a refused
query leaves the file of its section as it was or writes *none yet* over it; a run whose FinishRun is
refused stays *running* while its page is told *end*, and its artifact or report is
stored (`handlers.go:1147`, `scheduler.go:154`), until the next start calls it failed; an
agent whose prompt, model or project another program edits keeps firing as it was
read (`scheduler.go:93`); the heartbeat's
`select` may take a tick that is ready after its request has ended
(`handlers.go:1098`); the OpenAI driver passes over an error object without a
message (`llm/openai.go:242`), and in both drivers a stream that ends without
`[DONE]` or `message_stop` counts as complete;
a timeout whose client leaves at the same instant is recorded
as cancelled (`handlers.go:1135` against the comment at 1131); briefs,
reconciliations and prototypes are prompted without the resolved decisions
(README.md:30 says every call has them); an apply overwrites a doc that is newer
than the one it read; the page can show a reconciliation of an older brief
(`handlers.go:344`); `Path` takes README.md for the mark of a complete directory
(`workspace.go:70`), although map order may write it first; the page judges
ties of timestamps one way (`Before`) and the materializer the other (`After`);
with keys of both OpenAI and Anthropic in the environment and no provider named,
the provider is one and the key the other's (`config.go:36-57`); the model of
`DEEPSEEK_MODEL_FLASH` is sent to any provider, unlike `DEEPSEEK_BASE_URL`; the
shell drops an argument that is quoted and empty (`cmd/pat/repl.go:105`), and takes a
question that is a number for the id: `projects decide 42 yes` with a project
pinned is left as it is (`cmd/pat/repl.go:121`); a pick with a version and no option is
on the panel and not in the prompt (`handlers.go:604-616`), and a row of an option that
was taken out of the catalogue shows the option's id on the panel and, in the
prompt, the words beside it or nothing (`handlers.go:619`, `catalog.go:310`).

## 7. Not modelled

Pages that only read, listing and filtering, stars and archiving (single
statements); the scores that order the floor's tiles and the excerpts on them;
Markdown and templates (layout); the settings that are one variable
each; the wording of prompts. A stack preset is a loop of upserts whose picks nothing
reads together with the doc, so the picks are `Stack`'s and left out of `ProjectDoc`;
the ninety options of the catalogue are a few of each sort, the versions a preset
brings with its picks are left out, and so are the notes beside a pick. A panel whose request was
refused a write or overtaken by another preset is *Unsure*, and nothing is said of
it. Names of providers are one value each, in capitals or not and with *claude* for
Anthropic. In
`Stream`, counts of tokens, the events before the first chunk and the carriage
returns that `writeSSE` strips are left out; in `LineDiff`, the html of a line
beyond which of its words are marked; in `Board`, labels, synopses and the
extraction of an object from the reply, which is `Replies`'. Decoding the JSON
found there is the library's. The listing verbs of the command line only read,
and its other verbs are one statement each.
