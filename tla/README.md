# Seshat, specified

Seshat is a Go web application of interactive Swift lessons. A learner reads a
lesson, writes an answer, and has it checked: static rules first, then, where the
lesson asks for it, by compiling the answer to WebAssembly in a container and
running it in-process. What they submit is recorded, failing earns help, and the
lessons they solved unaided count on a board. Agents do the same over MCP with a
bearer token.

This directory holds TLA+ modules translated from the Go, SQL and shell sources,
the configurations TLC checks them with, and proofs TLAPS checks.

    tlc -config MCExecutor.cfg MCExecutor      # a run
    tlapm ExecutorProofs.tla                   # the proofs of a module

## The system

| Component | Source | State | Operations | What makes it correct |
|---|---|---|---|---|
| Executor | `internal/executor/executor.go` | `compileSlots`, the cache | `Cached`, `Run` (lookup, `admit`, `Compile`, `Put`, `execute`) | what runs is what was submitted, slots are neither lost nor doubled, every call returns |
| Module cache | `internal/executor/cache.go` | map, recency list, byte count | `Get`, `Put` | the three agree; LRU; the budget |
| Compiler | `internal/compiler`, `build/compiler/compile.sh` | a scratch directory and a container per call | `Compile` | a failure of ours is never reported as the learner's; no module for code that does not compile |
| Grading | `internal/grading` | none of its own | `Grade`: static checks, run, record | a pass is deserved; nothing fails a submission after its verdict |
| Progress | `internal/progress`, its queries | `user_lesson`, `exercise_attempt` | `Start`, `Complete`, `RecordAttempt`, `RevealSolution`, `FailedAttempts` | completion and reveals are sticky; the row keeps its CHECK |
| Lesson pages | `internal/lessons/handler.go` | none of its own | show, check, hint, solution, complete | help is earned, and recorded |
| Guest tries | `internal/lessons/attempts.go` | a cookie of the browser | count, record, clear | a guest is helped on a learner's terms |
| Leaderboard | `internal/leaderboard`, its queries | `leaderboard_optin` | opt in, opt out, two boards | only who opted in is listed; solo means unaided |
| Rate limiter | `internal/shared/ratelimit` | attempts by key, last sweep | `Allow`, `Reset`, `RetryAfter` | the limit holds, windows end, the map does not leak |
| Auth | `internal/auth`, its queries | `users`, `sessions`, `api_token`, two cookies | register, log in and out, `LoadUser`, `Touch`, tokens, sweeps | a revoked credential stays revoked |
| MCP | `internal/mcp` | none of its own | `submit_solution` and reading tools | same rules as the browser |
| Analytics | `internal/shared/analytics` | a bounded queue, a worker | `Capture`, `Close` | never blocks a request; what is queued is flushed or given up in time |
| Middleware | `internal/shared/middleware` | CSRF cookie | request id, logging, recovery, CSRF | an open page can post its form |
| Validator | `internal/validate`, `tools/swift-validate`, `internal/lessons/lesson/code.go` | none | a subprocess per call, output checks, and a scanner for the content tests | a word in a comment or a string is not code |
| Lesson parsing | `internal/lessons/parse.go`, `lesson/`, `content/` | an index, built once | parse, get, next, in a track | every replica of a build serves the same lessons in the same order |
| Startup | `cmd/web/main.go`, `internal/config`, `internal/shared/database` | the process, the schema | load, migrate, serve, drain, close | each migration once, a shutdown that ends |
| Browser and pages | `web/` | the editor, htmx | provenance from paste size | pages and tools say the same |

How they interact: HTTP handlers and MCP tools are goroutines that call the
limiter, the grader and the database directly; the grader calls the validator, the
executor, progress and analytics; the executor calls the cache and the compiler.
There are no messages inside the process apart from two channels, the compile
slots and the analytics queue. Shared state is the limiter's map and the cache,
each under a mutex that is never held across another component's call, and the
database, where almost every operation is one statement.

A signed-out visitor shares nothing inside the process: what is known of them is in
two cookies, which several tabs send and several answers set. What outlives a
process is the database alone, its schema included; replicas share it, and the
rows of lessons a later build no longer has.

What is hard to test here: the interleavings of several requests around one cache
and one set of slots, around one learner's rows, and around one browser's cookies;
answers that arrive out of order or not at all; the ways a container build can
end; writes that fail after a verdict; a count, a lookup or a gate that is read in
one call and used in the next; two replicas that start together; an old build
beside a new one. `PROJECT.json` lists these under "hazards", each at its line with
the properties that would catch it.

## The modules

| Module | Models | State and actions |
|---|---|---|
| `ForgetfulStore` | what the executor asks of its `Cache` interface | `entries`; `Lookup`, `Store` |
| `ModuleCache` | `MemoryCache` | `entries`, `order`, `bytes`; `Get`, and `Put` split into `Replace` and `Insert` |
| `CacheHistory` | the same cache beside a history of its use | `usedSince`, what was used since each key was |
| `Executor` | `Run`, `Cached`, `admit`, over `ModuleCache` | `pc` per request, `slots`, `orphans`; an action for each point where another goroutine can get in between |
| `Compiler` | one `Compile`, the CLI, the script and what they leave | `stage`, `exit`, `said`, `file`; an action for each way a step can end |
| `RateLimiter` | the limiter | `attempts`, `lastSweep`, `now`; `Allow`, `Reset`, `Tick` |
| `SignIn` | one sign-in or registration over the limiter, with both of its keys | `at`, `keys`, `done`, `allowed`, `retry`; `CountKey`, `AskKey` and `ClearKey` take a key each, `Others` is everybody else |
| `SwiftText` | `lesson/code.go`, the scanner of the content tests | operators on texts |
| `Grader` | the reading of `swift-validate`, `validate.go`, `output.go` and the assertions of a lesson | operators on texts |
| `Submissions` | one learner and one lesson: quota, grading, recording, help, boards | `rows`, `lesson`, `pc`/`job` per request; an action per handler step between database calls |
| `Visitor` | a signed-out visitor: the tries cookie and the CSRF cookie | the cookies, `request` and `page` per tab; `Send` with the cookies as they are, an action per kind of answer, `Lost`, `Restart`, `Expire` |
| `Leaderboard` | opting in and out, solving, and one view of the page | `optin`, `solved`; `Begin`, `ReadBoards`, `ReadStanding`, with the others' statements in between |
| `Lessons` | `parse.go` and every reader of its index: pages, sitemap, agents' tools | operators on the files of a build |
| `Deploys` | replicas that load, migrate, connect, parse, serve and stop, and one learner's rows | `stage`, `mode`, `commit`, `index` per replica, `lock`, `schema`, `rows`, `answers` on their way; an action per step of the start, a route and a tool, each of which ends by sending what its read gave it; `Arrive`, `Lose` |
| `Sessions` | accounts, sessions, API tokens; one browser and agents | `rows`, `jar`, `pc`/`cred`/`as`/`seen` per request; an action per statement of `LoadUser`, `RequireToken`, the handlers and the sweeps |
| `EventQueue` | what a caller of the analytics client may count on | `waiting`, `sent`; `Accept`, `Send` |
| `Analytics` | the event queue, its worker, and how the process ends around them | `queue`, `batch`, `worker`, `main`; `Capture`, the cases of `loop`, the steps of `run` after a signal or a failing listener |
| `MC...` | instances for TLC | sets of model values, texts, commits, symmetry |
| `...Proofs` | theorems; `ExecutorProofs` those of `ModuleCache`, `CacheHistory`, `Executor` and `Compiler`, `SignInProofs` those of `RateLimiter` and `SignIn`, `DeploysProofs` those of `Lessons` and `Deploys` | |

How they compose:

* `Executor` extends `ModuleCache`, so its requests work on the real cache with its
  real evictions. `ModuleCache` implements `ForgetfulStore`; `Submissions`, where
  only whether a module is held matters, uses that abstraction (`compiled` and
  `Forget`).
* `Compiler` gives the outcomes that `Executor` lets a compile have: whatever
  `Compiler` answers of a submission is one of `Executor`'s `Outcomes`, a `partial`
  module among them (`CompileGivesOutcomes`).
* `SignIn` extends `RateLimiter`: the request's calls are the limiter's own
  operations, and between any two of them anybody else's may come. `SignInSpec`
  implies the limiter's `Spec`, so what is proved of the limiter holds under its
  real caller.
* `MCSubmissions` instantiates `Grader`: its lesson and its three codes are texts,
  and which of them break rules or print the right thing is what the operators make
  of them. `Submissions` alone takes those sets as constants, so that its other
  properties do not depend on a text.
* `Deploys` extends `Lessons`: a replica's index is one that `Parse` may return for
  its commit, and every page is computed from it by the operator of that page.
* `Analytics` implements `EventQueue`, `waiting` mapped to the batch followed by the
  queue.

Operators that start with "Slip" in their comment are what a plausible mistake in
a definition would look like. No specification uses them: putting one in the place
of the definition it stands beside makes a run fail, which shows that the run can
tell (`PROJECT.json`, "mutants").

### Abstractions

* A module is what it was built from, and whether it is whole; a cache key is
  the tuple that is hashed, the hash taken to be injective.
* `Compiler`'s output is a set of kinds of text: `diagnostics`, `noise`, and
  `marker` for any of the phrases `isRuntimeFailure` looks for.
* A Swift text is a sequence of one-letter strings over the letters that matter to
  what is code: quotes, slashes, stars, backslashes, line ends, and names one letter
  long. `Grader` has the parser read a letter at a time; of its grammar only what
  strings, comments and interpolations do is kept.
* The database is a set of rows; a call is one atomic statement that works or
  fails. `Submissions` appends attempts in the order of their `created_at`. Two
  overlapping inserts may become visible in the other order, which it leaves out.
* The limiter's clock is a counter of ticks; the configuration has two to a second,
  so that rounding to seconds can go either way.
* A session or API token and its digest are one value. `Sessions` keeps both tables
  in `rows`; `used` is `last_used_at` of a session, and the `last_used_at` of a
  token is left out, because only its listing reads it. The clock of the database
  and that of the process are one. A token's page is read with its creation in one
  step. `Submissions` takes the user as given; `Sessions` says when a request has
  one.
* `Visitor`'s cookies are functions; `url.ParseQuery` and `strconv` are what they do
  to well-formed and ill-formed values. `maxCookieBytes`, which no count of real
  slugs under `maxTrackedLessons` reaches, is left out. Which of the lessons is
  dropped when the cookie is full is any of them, because the code ranges over a
  map.
* Names in `Leaderboard` are numbers in collation order, with a function for
  `lower`; slugs in `Lessons` are numbers in alphabetical order. A file is what its
  frontmatter says, and `sort.Slice`, not being stable, may leave any order in which
  nothing is out of place.
* An event is the request that captured it, at most one each; `posted` takes a
  batch whatever the endpoint answers, because nothing is ever sent again.
* Variables under "History variables" record what happened for the properties to
  compare with; no guard reads them, but for a fresh secret in `Sessions` and the
  bounds.
* The container runtime, swiftc, SwiftParser, Postgres' advisory lock, goose, the
  kernel's caps and the client's connection are the environment, taken from how the
  code drives them and what its comments say of them; those definitions are marked
  external in the map where no line stands for them.

## The runs

| Run | Checks | Bounds, and why they suffice |
|---|---|---|
| `module_cache` | map, list and byte count agree; eviction is of the least recently used and never needless; refinement of `ForgetfulStore` | three keys, modules of sizes from less than to more than the budget: replacements both ways, evictions of several entries, refusals |
| `executor` | `SlotsAreHeld`, `RunsWhatWasSubmitted`, and under `FairSpec` `EveryCallReturns` | two requests over one slot, two sources and a budget that does not hold both, so that replacing, evicting and waiting all happen |
| `executor_orphans` | **fails**: `ContainerCeiling` | |
| `compiler` | the verdict against what happened, and that there is one | every combination of configuration, code and environment, one call |
| `sign_in` | twice the limit at most, windows do not stretch, nothing outlives a sweep, whom a key refused goes no further, and the wait told covers both keys | the two keys of a request; limit 1, two and a half windows (`Horizon`) of four ticks, counts told apart up to `MaxCount` |
| `submissions` | rows, status, help, boards, and the verdicts against what the content tests would say of the texts; on start-up, that scanner and parser agree on all 9,331 texts of up to five of six letters | two requests at once, three submissions (`MaxRows`): enough to fail twice, be shown the answer and pass; a right answer with a forbidden letter in a nested comment and behind an escaped quote, one that prints past a cap of three letters (`MaxOutput`), one that declares in a comment only; any database call may fail |
| `sessions` | revoked credentials, lapsing ones, used ones, and who may delete | two requests at once, two accounts, two session secrets and a token; lifetimes of three and two ticks, a touch interval of two, four instants (`Horizon`): a session can be touched late, early and not at all, lapse, and be swept |
| `visitor` | a guest's help is earned, counts are exact without overlap, forms stay good | two tabs, three lessons with a cookie that tracks two, help after one and two failures, four graded answers (`MaxGraded`), two tokens (`MaxTokens`): the cookie overflows, an old one overwrites a new one, the browser restarts |
| `leaderboard` | who is listed, under which name, whose line is marked, places, the cut | four learners over a board of three, five names of which two differ in case, counts up to `MaxSolved`, a statement of another (`MaxMeanwhile`) at any point of a view: somebody is cut, and a tie for the first place is followed by the third, which no board of two lines can have. What a longer board gives its lines is `PlacesCountThoseAhead`, proved for every length. One statement is enough for who takes a name or gives one up: two matter only to a viewer who takes a name that was freed meanwhile, and `MarkedLineIsYours` leaves that viewer out |
| `deploys` | lessons served, surfaces agree, nothing told is taken back by what reads the rows, migrations once and whole | two replicas, three commits that move and drop lessons, put two in one place or must be refused, overlapping sets of versions, four environments; two lessons the learner asks for, two requests at once (`MaxUnderway`): an answer can be overtaken by the completion it does not know of and by the answer that tells it, and come from another build |
| `analytics` | completeness and order of what is sent (refinement of `EventQueue`), the end of the process | four requests, a queue and a batch of two: drops, full batches, partial ones, and a last send of each |
| `analytics_closed` | **fails**: `CaptureNeverFails` | |

All bounds: `MaxOrphans` (containers abandoned at once), `Horizon` and `MaxCount`
(the limiter), `MaxRows` (submissions), `Horizon` (sessions), `MaxTokens` and
`MaxGraded` (visitor), `MaxSolved` and `MaxMeanwhile` (leaderboard), `MaxUnderway`
(deploys); `MaxTracked` and
`BoardLimit` are the code's own limits, made small enough to be met. Deadlock is
checked in every run; a `Compiler` call that has returned stutters by an explicit
`Done`, a process that has exited by `Gone`.

### Fairness

`Executor`'s `FairSpec` assumes weak fairness of what a request does by itself
(the Go scheduler runs what can run), of its wait for admission (a 10 s timer is
one of the select's cases) and of its wait for the container (a 60 s deadline kills
the CLI). Nothing is assumed of the container, of getting a slot, or of the client.
`Compiler`'s `CompileSpec` assumes it of the deadline and of `Compile`'s own steps, not of
the container or the script. `execute` is bounded by its own timeouts (30 s and
5 s) and is one step. `Analytics`' `FairSpec` assumes it of the two deadlines of
`main.go`, and, for what must leave the queue, of the worker, its ticker and a send,
which has a deadline of its own; not of handlers, nor of the worker's end. The
other specifications have safety properties only: what their components owe is an
answer to each call, which the handlers' own returns give.

### Where the code and its comments part

The failing runs each check one sentence of the repository:

* `executor_orphans` (`executor.go:107`): the docker CLI is killed with the
  context, its container is not, and the slot is given back, so that more
  containers than slots can be running.
* `analytics_closed` (`analytics.go:4`): a handler that outlasts the drain, or is
  still running when the listener fails, captures into a closed channel and panics.

Others were met and have no run of their own.

*Executor, cache and compiler.* A module that was being copied when the script died
is taken for the result and cached (`compiler.go:220` against `compiler.go:69`).
Replacing a module by a larger one skips the eviction loop, so that the cache is
over its budget until the next insertion (`cache.go:71-77` against `cache.go:8-11`).
With no container command installed the learner is told that their code does not
compile (`compiler.go:251` against `compiler.go:27-30`). `isRuntimeFailure` finds its
phrases in swiftc's quotations of the learner's source too, which
`compiler.go:254-256` rules out. A build killed by a resource cap exits 1 like code
that does not compile (`compile.sh:28-32` against `compiler.go:244-245`). A
submission admitted free because its module is cached (`handler.go:457-465`) may
find it evicted and spawn a container uncharged; `Executor` and `Submissions` have
both lookups.

*Grading and help.* A pending submission is recorded as a failed one and counts
towards the hint and the solution (`grading.go:184` against `submission.go:142-144`).
A reveal that could not be recorded is shown, and a pass after it counts as solo
(`lessons/handler.go:185-189`). A guest may see the solution, register, and type it
in as a solo answer. An answer that prints what is asked for and then blanks past
the output cap does not match, because the note of the truncation is compared too. A
lesson with output assertions only is not checkable (`HasStatic`). The cap of 256 KiB
in the validator lies behind the handlers' 64 KiB.

*What is code.* The scanner takes an interpolation for part of its string and
does not know raw strings, and an escaped quote in a string of several lines can end
it for the scanner, where the parser reads on: `ScannerAgreesWithParser` is over texts
without interpolations, and what differs is accepted by `code.go`'s own comment as
approximate.

*Tries.* `attempts.go:84-85` promises to drop the lesson least recently failed and
the loop drops any but the current. Overlapping submissions, and answers that never
arrive, lose a count or bring one back; never one that was not earned. Pages restored
by a browser that was restarted hold a token of a cookie that is gone.

*Boards.* The assisted board is the top hundred by solo, re-sorted
(`leaderboard.go:80-88`): learners with many assisted lessons and few solo ones may
be missing, and ties by assisted count with different solo counts get different
places (`handler.go:125`). A view's two queries are not one snapshot: a viewer who
changes name meanwhile may find another's line marked, which is why
`MarkedLineIsYours` says "steady". Passes of lessons a build no longer has still
count, although `20260822110000_lesson_progress.sql:6-9` has them filtered when
read. Names that look alike in different scripts are different names.

*Startup and pages.* Migrations run before the lessons are parsed
(`main.go:89-107`), so a build whose content does not parse has already changed the
schema. With `AutoMigrate` off a server may serve over an older schema. `list_lessons`
of a known track with no lessons answers that there is no such track. The test for
duplicate slugs cannot fire, files of one directory having different names. When the
rows, or the session, cannot be read, the list shows every lesson unmarked and 0 of N
(`lessons/handler.go:257-264`) and the lesson page offers "Mark complete"
(`lessons/handler.go:290-294`), as they do for a lesson that is not finished: the
learner cannot tell that their completion was merely not read. `List` and `Shown` send
these answers (`Unmarked`), and `NothingIsTakenBack` says "made from the rows" because
of them. The dashboard and the tools answer something else instead. An answer whose
rows were read before a completion may arrive after the answer that told of it;
`knew`, what the learner had been told when an answer was made, tells these apart.

*Sign-in, sessions and limits.* The wait told to a refused caller is rounded to the
nearest second, so up to half a second short, and a window is still closed at its
last instant: `ToldTheLongestWait` says how far off it can be. `ClientIP` documents
the zero address as a key requests can share (one bucket), and `limitKeys` drops it.
`NormalizeEmail` trims what `CreateUser` and `GetUserByEmail` store and look up
untrimmed (`password.go:62-66`). Two requests that read a session together both
touch it, whatever "at most once per touchInterval" says (`session.go:111`);
`UsedSessionsLast` holds all the same. An answer that clears the cookie of a dead
session may arrive after the answer that set a fresh one (`middleware.go:41-43`), and
signs the browser out of it. An account whose first session could not be created
stays, although its visitor was shown an error (`service.go:77-80`). A token whose
page could not be rendered is live and shown to nobody (`tokens_handler.go:73-76`).

## The proofs

TLAPS proves the following for all values of the constants, from the named
assumptions in each module (finite sets, positive limits).

* `ExecutorProofs`, the cache: all that the run `module_cache` checks. The
  invariant of `ListMatchesMap` and of the refinement of `ForgetfulStore` is the type
  of the entries with `ListMatchesMap` itself: the eviction keeps a prefix of the
  list, and a prefix of a list without repetition has none, so map and list lose the
  same keys. The byte count is not needed there: whatever prefix the loop stops at,
  the contract holds. `BytesAreAccounted` needs that invariant, though: `Weight` counts
  the pairs of a key and a place in its module, keys apart weigh apart
  (`WeightSplits`), and because no key stands on both sides of the cut the count at any
  place of the loop is what the keys in front of it weigh (`CountAtAnyPlace`). The
  properties of eviction rest on `UsesInOrder`: the list is in the order of the
  history. So what is cut off was used before what stays, and the first victim is the
  latest of the victims. `EvictsOnlyToBudget` applies the count at two neighbouring
  places. That a module larger than the budget is refused is what keeps the loop from
  ever emptying the list.
* `ExecutorProofs`, the requests: `TypeOK`, `SlotsAreHeld`, `RunsWhatWasSubmitted`,
  `RefusedCodeNeverRuns`. The invariant adds to the cache's what ties a request's
  module to its submission: every entry was built from the submission of its key,
  and only compilable submissions have entries; so a hit, a fresh build and a
  replacement by a concurrent compile of the same key all run the right code.
  `SlotsAreHeld` goes action by action: `Admit` adds one holder and one token,
  `Release` removes one of each, nothing else changes either.
* `ExecutorProofs`, one compile: `OutageIsNotARejection`, `ModuleMeansItCompiled`, and
  that every answer is one the executor's theorems allow for. The invariant says what
  is known at each stage of the container: a module file is there only for code that
  compiles, and an outage of the daemon has left exit code 125 or its marker among
  what was said.
* `SignInProofs`, the limiter: `TypeOK`, `AtMostTwiceTheLimit`, `NothingOutlivesASweep`,
  `WindowsDoNotStretch`. The property about 2 x limit is not inductive. The
  invariant says where a key's admissions lie: the window that counts the latest of
  them opened at the last admission that opens one, at most `Limit` of them came
  since, and consecutive openings are more than a window apart.
* `SignInProofs`, the caller: that a sign-in amid any other traffic is a use of the
  limiter (`SignInSpec => Spec`, so the four theorems above carry over), and
  `ToldTheLongestWait`. As long as no key has refused it (`allowed`) there is no such
  window, and once one has, no other request's `Reset` lets it on: the flag is the
  request's own. The invariant follows a window that refused the request: it is
  over, or still open, over its limit and ending when it did, because until then
  nothing but a `Reset` changes a window's end, and a `Reset` strikes it from what is
  owed; and the longest wait so far reaches the end of every such window whose key
  has been asked.
* `SessionsProofs`: `TypeOK`, `RevokedStaysRevoked`, `UsedSessionsLast`,
  `CredentialsLapse` and `NothingLiveIsLost`. The steps are first put into kinds by what they do to the
  tables (a new row under a fresh secret, fewer rows, rows slid), and each part of
  the invariant is shown for each kind. `RevokedStaysRevoked` rests on `Gone`: a
  deleted secret has no row, which a touch keeps because it updates only rows that
  exist, and an insert because a secret is drawn once. `UsedSessionsLast` rests on
  `Clocked` with `SeenEarlier`: what a request read of a row is no later than what
  the row says by the time it decides whether to write, so a touch that is skipped
  leaves the row at most an interval behind.
* `SubmissionsProofs`: everything the run checks of `Submissions` itself: `TypeOK`,
  `StatusMatchesTimestamp`, `HelpIsEarned`, `OwnFailureCounts`, `SoloIsUnaided`,
  `NoSoloByRetyping`. Attempts are only added, so the count of failures never falls
  (`FailuresOnlyGrow`), and what holds when a gate is passed (`GateHeld`) still holds when
  the help is given, however many other requests come in between. The row a request
  wrote stays (`RowsStay`), so its own failure is in any later count. That there is a
  first pass is part of the invariant (`HasFirstPass`), and an appended row never
  becomes it. Beyond the run, `OnlyVerdictsAreRecorded`: each attempt is one request's,
  with the verdict that the checks, in their order, give the code it submitted
  (`VerdictsHold`). `VerdictsAreFair` is the same of the texts TLC is given.
* `VisitorProofs`: `TypeOK`, `HelpIsEarned`, `TriesAreExact`, `FormsStayGood`. What makes help earned is
  that every cookie under way, the browser's and each request's copy, counts no
  more failures of a lesson than there were: an answer puts a request's copy, plus
  one for the failure just graded, back into the browser. Forms stay good
  because, unless two first visits overlapped, every page, request and cookie since
  the browser's start carries one token. Exactness needs more than the property says: at
  most one submission is under way and the copy it carries is still the browser's
  (`Exact`), so that what comes back has lost nothing.
* `AnalyticsProofs`: `TypeOK`, `SentOnceInOrder`, `CloseFlushes`, and that the client
  implements `EventQueue` (`BestEffort`). `SentOnceInOrder` is inductive with the
  types: each step moves an event between two neighbours of the concatenation.
  `CloseFlushes` adds that the worker stops only with the queue closed and empty and
  its batch sent. Taking an event into the batch stutters under the mapping, and a
  send hands over a prefix of what waits.

* `LeaderboardProofs`: all that the run checks. The page is put together from two
  queries, so the invariant speaks of what is held between them: the rows were what
  their learners had asked for and in the order of the query when they were read
  (`RowsAreAsked`, `RowsInOrder`), and the page marks one name at most, the viewer's own
  unless they changed it (`ViewerIsListed`, `PageMarksOneName`). `Sorting` shows that a
  finite set with a strict total order can be listed in it (an element's place is one
  more than the number of those before it, and no two elements have the same number),
  so that the choice of such a list in `BySolo` and `ByAssisted` is one; `PlaceCounts`
  that in a sorted list the place computed line by line is one more than the number
  of lines ahead.
* `DeploysProofs`: all that the run checks. `IInv` ties each replica to its build
  (`HasItsBuild`), the lock to the one replica that applies (`LockHeld`), what that one
  found missing to what is still missing (`StillMissing`), and how often each version ran
  to the schema (`AppliedOnce`), which is why no version is applied twice however the
  replicas start and crash. `ToldTheTruth` makes `NothingIsTakenBack` inductive: what the
  learner was told, and what any answer on its way will tell them, is completed in the
  rows, and completion is sticky; so an answer made from the rows calls nothing
  unfinished that the learner knew of by then. What pages say is
  shown of the operators: whatever order `sort.Slice` leaves, the concatenation of the
  tracks is the lessons in the order they are taught (`ParsedOrder`, `ServedOrder`), and
  the home page's sums over the tracks equal the tally of one pass over all lessons
  (`PagesAgree`), each by induction over the index.

Induction over data is done in `DeploysProofs` without the library's induction
theorems, whose operator parameter no installed prover can instantiate. `LeastNatural`
follows from the well-foundedness of the naturals, and `Induction` and `Recursion` are
stated of sets and functions (a set of numbers that holds the base and is closed under
the step; a function that meets the recursive equation), which the provers can
instantiate. `Recursion` gives the recursive functions of `Lessons` their equations.

Only model-checked: the liveness properties (`EveryCallReturns`, `EveryCompileReturns`,
`ShutdownGetsPastTheFlush`, `QueuedEventsLeave`), because liveness under fairness and
`ENABLED` are out of the prover's reach; `VerdictsAreFair`, which is about given texts;
and `ScannerAgreesWithParser`, because what the scanner and the lexer compute is a
recursion over every text in several modes, and no invariant relating the two was
found that is simpler than both.

## Not modelled

* `DeleteAllForUser`, which only a test calls, and the queries without a caller
  (`Attempts`, `ListAttempts`); password hashing; the label of a token.
* An agent's own submission quota, beyond being refused by it, and the wording of
  what tools answer (`describeAssertions` and the like).
* `wazero` and the database pool as the process closes them: `Exit` is one step.
* `RequestID`, `Logger`, `MaxBody`; health, metrics, assets and the landing page: no
  state whose steps interact.
* Rendering: templates, layout, markdown, the browser's scripts. The vendored
  component library with its icon data (`web/shared/ui/icon`) is half of the Go in the
  repository and holds no logic.
* Generated code (`*_templ.go`, and sqlc's `db.go`, which passes calls on), lesson
  content, the test helpers.
* `RunModule`, a tool's entry to `execute` without state.

## Plan

1. *Done*: every component with state of its own has a module, and every safety
   invariant and action property of the runs has a theorem, but for `VerdictsAreFair`.
2. Abstract specifications: a credential that is good or revoked, implemented by
   `Sessions`; a grader that answers each submission once and about itself,
   implemented by `Executor`; one migrated schema, implemented by `Deploys`.
3. Of the texts: that `StripLiteralsAndComments` keeps the length and the line ends of
   every text, and `TrimSpace` the ink.
4. An agent's own quota beside the browser's in one instance of `Submissions`.
