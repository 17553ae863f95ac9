------------------------------- MODULE Deploys -------------------------------
(***************************************************************************)
(* Replicas of the server that start, serve and stop while a learner reads *)
(* on (cmd/web/main.go, internal/shared/database, internal/lessons): each  *)
(* migrates the schema its build carries, connects, parses the lessons of  *)
(* its build and serves them; the rows of the learner's progress outlive   *)
(* every build.  A database call is one action, and what is answered from  *)
(* it is on its way until it arrives or is lost, while others overtake it. *)
(***************************************************************************)
EXTENDS Lessons

CONSTANTS
    Replicas,
    Commits,        \* the commits that are deployed
    Files,          \* Files[c]: the lessons of commit c
    Migrations,     \* Migrations[c]: the versions c embeds
    Environments,   \* what the process may find in its environment
    Asked,          \* the slugs a learner asks for
    MaxUnderway     \* bound: requests of the learner's under way at once

\* Parse refuses two lessons of one name, as a directory does two files.
ASSUME DeploysAssumption ==
    /\ None \notin Replicas
    /\ None \notin Asked
    /\ MaxUnderway \in Nat
    /\ \A c \in Commits :
         /\ Migrations[c] \subseteq Int
         /\ IsFiniteSet(Files[c])
         /\ \A f \in Files[c] : f.order \in Int /\ f.slug \in Int /\ f.slug # None
         /\ \A f, g \in Files[c] : f.slug = g.slug => f = g

VARIABLES
    stage,      \* where each replica's start is
    mode,       \* "migrate", "run" or "run and migrate"
    commit,     \* the commit each replica was built from
    pending,    \* the versions its goose provider has found missing
    index,      \* its parsed lessons
    lock,       \* who holds the advisory lock
    schema,     \* goose_db_version
    rows,       \* user_lesson of the learner
    opening,    \* lesson pages between their two statements
    answers,    \* what is on its way to the learner
    \* History variables:
    ran,        \* how often each version was applied
    told        \* the lessons the learner was told are completed

replicas == <<stage, mode, commit, pending, index, lock, schema, ran>>
learner == <<rows, opening, answers, told>>
vars == <<replicas, learner>>

Versions == UNION {Migrations[c] : c \in Commits}
NoIndex == [t \in Known |-> << >>]

Init ==
    /\ stage = [r \in Replicas |-> "off"] /\ mode = [r \in Replicas |-> "run"]
    /\ commit = [r \in Replicas |-> None]
    /\ pending = [r \in Replicas |-> {}] /\ index = [r \in Replicas |-> NoIndex]
    /\ lock = None /\ schema = {}
    /\ rows = [s \in Asked |-> "absent"] /\ opening = {} /\ answers = {}
    /\ ran = [v \in Versions |-> 0] /\ told = {}

At(r, s) == stage[r] = s
Goto(r, s) == stage' = [stage EXCEPT ![r] = s]

-----------------------------------------------------------------------------
\* config.Load, of the variables a start depends on; "" is an unset one.

Production(env) == env.goEnv = "production"

LoadFails(env) ==
    \/ env.compiles \in {"junk", "0"}
    \/ env.autoMigrate = "junk"
    \/ env.databaseURL = ""

AutoMigrate(env) ==
    IF env.autoMigrate = "" THEN ~Production(env) ELSE env.autoMigrate = "true"

-----------------------------------------------------------------------------
\* dispatch and run, up to the listener.

\* The subcommand migrates, whatever AUTO_MIGRATE says, and exits; a server may
\* migrate before it connects.
Start(r) ==
    /\ At(r, "off")
    /\ \E c \in Commits, env \in Environments, subcommand \in BOOLEAN :
         /\ ~LoadFails(env)
         /\ commit' = [commit EXCEPT ![r] = c]
         /\ mode' = [mode EXCEPT ![r] = IF subcommand THEN "migrate"
                                        ELSE IF AutoMigrate(env) THEN "run and migrate"
                                        ELSE "run"]
         /\ Goto(r, IF mode'[r] = "run" THEN "connect" ELSE "migrate")
    /\ UNCHANGED <<pending, index, lock, schema, ran, learner>>

\* provider.Up compares what is embedded with goose_db_version, out of order or not.
Missing(r) == Migrations[commit[r]] \ schema

\* Slip: the lock is not waited for.
NotWaited == TRUE

Free == lock = None

\* Migrate: the session-level lock is had before anything is compared.
Lock(r) ==
    /\ At(r, "migrate") /\ Free
    /\ lock' = r
    /\ pending' = [pending EXCEPT ![r] = Missing(r)]
    /\ Goto(r, "apply")
    /\ UNCHANGED <<mode, commit, index, schema, ran, learner>>

\* One version and its row, in one transaction, the oldest first.
Apply(r) ==
    /\ At(r, "apply")
    /\ \E v \in pending[r] :
         /\ \A w \in pending[r] : v <= w
         /\ schema' = schema \cup {v}
         /\ ran' = [ran EXCEPT ![v] = @ + 1]
         /\ pending' = [pending EXCEPT ![r] = @ \ {v}]
    /\ UNCHANGED <<stage, mode, commit, index, lock, learner>>

Unlocked(r) == lock' = IF lock = r THEN None ELSE lock

\* The process ends.
Off(r) ==
    /\ Goto(r, "off")
    /\ commit' = [commit EXCEPT ![r] = None] /\ mode' = [mode EXCEPT ![r] = "run"]

\* Up returns; the subcommand is done.
Migrated(r) ==
    /\ At(r, "apply") /\ pending[r] = {}
    /\ Unlocked(r)
    /\ IF mode[r] = "migrate"
       THEN Off(r)
       ELSE Goto(r, "connect") /\ UNCHANGED <<mode, commit>>
    /\ UNCHANGED <<pending, index, schema, ran, learner>>

\* The pool answers its ping.
Connect(r) ==
    /\ At(r, "connect") /\ Goto(r, "parse")
    /\ UNCHANGED <<mode, commit, pending, index, lock, schema, ran, learner>>

\* lessons.Parse; what follows it only warns, until the listener is up.
Parse(r) ==
    /\ At(r, "parse") /\ ~Refused(Files[commit[r]])
    /\ \E x \in Indexes(Files[commit[r]]) : index' = [index EXCEPT ![r] = x]
    /\ Goto(r, "serving")
    /\ UNCHANGED <<mode, commit, pending, lock, schema, ran, learner>>

\* A step returns an error, the context is cancelled, the process is killed or
\* has been shut down: its session ends, and the lock and the handlers with it.
Exit(r) ==
    /\ ~At(r, "off")
    /\ Off(r) /\ Unlocked(r)
    /\ pending' = [pending EXCEPT ![r] = {}]
    /\ index' = [index EXCEPT ![r] = NoIndex]
    /\ opening' = {o \in opening : o[1] # r}
    /\ UNCHANGED <<schema, ran, rows, answers, told>>

-----------------------------------------------------------------------------
\* The learner, signed in or through an agent.  Deploys overlap: any replica
\* that serves may get the next request.

\* What a row comes to: toLessonProgress, and IsCompleted of it.
Finished(status) == status = "completed"

\* ForUser, of the rows there are, and Get, of one that may not be there.
Listed == {s \in Asked : rows[s] # "absent"}
Completed == {s \in Listed : Finished(rows[s])}
Got(s) == {s} \cap Completed

\* A replica that serves takes a request.
Serves(r) == At(r, "serving") /\ Cardinality(opening) + Cardinality(answers) < MaxUnderway

\* An answer calls the lessons of yes completed and those of no unfinished, from
\* the rows or without them.  For the properties it carries which of the latter
\* the learner had been told are completed.
Send(yes, no, read) ==
    /\ answers' = answers \cup {[yes |-> yes, no |-> no, read |-> read, knew |-> no \cap told]}
    /\ UNCHANGED <<replicas, told>>

\* Of lessons whose rows could be read, each is called what it is.
FromRows(slugs) == Send(slugs \cap Completed, slugs \ Completed, TRUE)

\* When the rows, or the session, could not be read, no lesson is marked.
Unmarked(slugs) == Send({}, slugs, FALSE)

Arrive(a) ==
    /\ answers' = answers \ {a}
    /\ told' = told \cup a.yes
    /\ UNCHANGED <<replicas, rows, opening>>

\* The connection, the process or the learner is gone.
Lose(a) ==
    /\ answers' = answers \ {a}
    /\ UNCHANGED <<replicas, rows, opening, told>>

\* Slip: opening a finished lesson demotes it.
Reopened(status, new) == new

\* UpsertLessonProgress: completion is sticky.
Upserted(status, new) == IF status = "completed" THEN status ELSE new

\* The lessons before the one to continue with are all completed, by the page.
Before(x, next) ==
    LET o == Ordered(x)
    IN  {o[i] : i \in {i \in DOMAIN o : \A j \in 1..i : o[j] # next}}

\* GET /, and get_progress.  Without the rows the one is the marketing page and
\* the other an error, which say nothing of any lesson.
Home(r) ==
    /\ Serves(r)
    /\ LET page == HomePage(index[r], Completed)
       IN  Send(Before(index[r], page.next), {page.next}, TRUE)
    /\ UNCHANGED <<rows, opening>>

ReadProgress(r) ==
    /\ Serves(r)
    /\ LET report == GetProgress(index[r], Completed)
       IN  Send(Before(index[r], report.next), {report.next}, TRUE)
    /\ UNCHANGED <<rows, opening>>

\* GET /lessons: every lesson with its mark, if there are marks.
List(r) ==
    /\ Serves(r)
    /\ LET all == ToSet(Ordered(index[r])) IN FromRows(all) \/ Unmarked(all)
    /\ UNCHANGED <<rows, opening>>

\* list_lessons with a track, and get_lesson: errors without the rows.
ListTrack(r) ==
    /\ Serves(r)
    /\ \E t \in Known : FromRows(ToSet(ListLessons(index[r], t)))
    /\ UNCHANGED <<rows, opening>>

GetLesson(r, s) ==
    /\ Serves(r) /\ Get(index[r], s)
    /\ FromRows({s})
    /\ UNCHANGED <<rows, opening>>

\* GET /lessons/{slug}: Start, which may fail or be left out for want of the
\* session, and then the read of the row.  A page without it offers to mark the lesson
\* complete, as one of an unfinished lesson does.
Show(r, s) ==
    /\ Serves(r) /\ Get(index[r], s)
    /\ opening' = opening \cup {<<r, s>>}
    /\ \/ rows' = [rows EXCEPT ![s] = Upserted(@, "in_progress")]
       \/ UNCHANGED rows
    /\ UNCHANGED <<replicas, answers, told>>

Shown(r, s) ==
    /\ <<r, s>> \in opening
    /\ opening' = opening \ {<<r, s>>}
    /\ Send(Got(s), {s} \ Got(s), TRUE) \/ Unmarked({s})
    /\ UNCHANGED rows

\* POST /lessons/{slug}/complete: the statement, and the footer that says so, or
\* an error though the statement may have been committed.
Complete(r, s) ==
    /\ Serves(r) /\ Get(index[r], s)
    /\ rows' = [rows EXCEPT ![s] = Upserted(@, "completed")]
    /\ Send({s}, {}, TRUE) \/ UNCHANGED <<replicas, answers, told>>
    /\ UNCHANGED opening

Boot(r) == Start(r) \/ Lock(r) \/ Apply(r) \/ Migrated(r) \/ Connect(r) \/ Parse(r) \/ Exit(r)

\* The routes of a browser, and the tools an agent calls.
Routes(r) ==
    \/ Home(r) \/ List(r)
    \/ \E s \in Asked : Show(r, s) \/ Shown(r, s) \/ Complete(r, s)

Tools(r) == ReadProgress(r) \/ ListTrack(r) \/ \E s \in Asked : GetLesson(r, s)

Next ==
    \/ \E r \in Replicas : Boot(r) \/ Routes(r) \/ Tools(r)
    \/ \E a \in answers : Arrive(a) \/ Lose(a)

Spec == Init /\ [][Next]_vars

-----------------------------------------------------------------------------
Serving == {r \in Replicas : At(r, "serving")}

\* The order lessons are taught in, from the files alone.
Teaches(a, b) ==
    LET rank(f) == CHOOSE i \in DOMAIN TrackOrder : TrackOrder[i] = f.track
    IN  \/ rank(a) < rank(b)
        \/ rank(a) = rank(b) /\ a.order < b.order
        \/ rank(a) = rank(b) /\ a.order = b.order /\ a.slug < b.slug

\* What a replica serves is every lesson of its build once, in the order they
\* are taught, the same in every replica of the build; the links from each to
\* the next visit all of them, and the sitemap lists all of them
\* (parse.go:62-69, 142-171, main.go:346-348).
EveryLessonIsServed ==
    \A r \in Serving :
        LET fs == Files[commit[r]]
            o == Ordered(index[r])
        IN  /\ \E s \in SetToSeqs(fs) :
                 /\ \A i, j \in DOMAIN s : i < j => Teaches(s[i], s[j])
                 /\ o = Slugs(s)
            /\ \A i \in DOMAIN o : NextOf(index[r], o[i]) = IF i = Len(o) THEN None ELSE o[i + 1]
            /\ Sitemap(index[r]) = {f.slug : f \in fs}

\* The dashboard and the agent's report say the same of the same rows, and what
\* they say is right about the lessons of the build: rows of lessons that are
\* gone are "harmless" and filtered out
\* (migrations/20260822110000_lesson_progress.sql:6-9, home.templ:127-143, tools.go:286-308).
SurfacesAgree ==
    \A r \in Serving :
        LET home == HomePage(index[r], Completed)
            here == {f.slug : f \in Files[commit[r]]}
        IN  /\ GetProgress(index[r], Completed) = home
            /\ home.completed = Cardinality(here \cap Completed)
            /\ home.total = Cardinality(here)
            /\ (home.next = None) <=> (here \subseteq Completed)

\* An answer made from the rows calls no lesson unfinished that the learner had
\* been told is completed when the rows were read, in any build that has the lesson,
\* whatever is opened, completed or deployed meanwhile.  A lesson page and a list
\* served without the rows do, and so may an answer that was overtaken: its rows
\* were read before the learner knew
\* (progress/db/queries.sql:9-20, handler.go:232-324).
NothingIsTakenBack == \A a \in answers : a.read => a.no \cap a.knew = {}

\* "Two replicas starting at the same moment cannot both try to apply the same
\* migration", and a server that migrates has every version of its build,
\* though versions are merged in no order (migrate.go:28-44).
MigratedOnceAndWhole ==
    /\ \A v \in Versions : ran[v] <= 1
    /\ \A r \in Serving : mode[r] = "run and migrate" => Migrations[commit[r]] \subseteq schema
=============================================================================
