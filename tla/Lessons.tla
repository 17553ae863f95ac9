------------------------------- MODULE Lessons -------------------------------
(***************************************************************************)
(* internal/lessons/parse.go: what a build makes of the markdown embedded  *)
(* in it, and what its readers are told of it: the reading order, the      *)
(* dashboard (web/lesson) and the tools of an agent (internal/mcp).  A     *)
(* file is a record of what its frontmatter says; slugs are numbers in the *)
(* alphabetical order of their names.                                      *)
(***************************************************************************)
EXTENDS Integers, FiniteSets, SequencesExt

CONSTANTS
    TrackOrder,     \* trackOrder, which also holds the keys of trackTitles
    None            \* no lesson

ASSUME LessonsAssumption ==
    /\ TrackOrder \in Seq(ToSet(TrackOrder))
    /\ IsInjective(TrackOrder)

Known == ToSet(TrackOrder)

-----------------------------------------------------------------------------
\* Parse.

Valid(runtime) == runtime \in {"embedded", "full", "none"}

\* parseOne: the errors it returns.
Malformed(f) ==
    \/ ~f.fenced
    \/ ~f.titled
    \/ f.track = ""
    \/ f.minutes <= 0
    \/ ~Valid(f.runtime)

\* Slip: lessons that share an order number swap places between builds.
ByOrder(a, b) == a.order < b.order

Less(a, b) == a.order < b.order \/ (a.order = b.order /\ a.slug < b.slug)

\* What sort.Slice may leave: it is not stable, and only ends with nothing out
\* of place.
Sortings(fs) ==
    {s \in SetToSeqs(fs) : \A i, j \in DOMAIN s : i < j => ~Less(s[j], s[i])}

Slugs(s) == [i \in DOMAIN s |-> s[i].slug]

InTrack(files, t) == {Slugs(s) : s \in Sortings({f \in files : f.track = t})}

\* Nothing to serve, a file that cannot be parsed, or a track nobody knows.
Refused(files) == files = {} \/ \E f \in files : Malformed(f) \/ f.track \notin Known

\* The indexes Parse may return: the slugs of each track, in order.
Indexes(files) ==
    {x \in [Known -> UNION {InTrack(files, t) : t \in Known}] :
        \A t \in Known : x[t] \in InTrack(files, t)}

-----------------------------------------------------------------------------
\* Index.

\* index.tracks leaves out the empty ones, which would add nothing below.
Tracks(x) == {t \in Known : x[t] # << >>}

\* Every track after those before it, in trackOrder.
Ordered(x) ==
    LET upTo[n \in 0..Len(TrackOrder)] ==
            IF n = 0 THEN << >> ELSE upTo[n - 1] \o x[TrackOrder[n]]
    IN  upTo[Len(TrackOrder)]

Get(x, slug) == slug \in ToSet(Ordered(x))

\* The "keep going" link.
NextOf(x, slug) ==
    LET o == Ordered(x)
        n == {i \in DOMAIN o : o[i] = slug /\ i + 1 \in DOMAIN o}
    IN  IF n = {} THEN None ELSE o[(CHOOSE i \in n : TRUE) + 1]

\* mountCrawlerRoutes.
Sitemap(x) == ToSet(Ordered(x))

-----------------------------------------------------------------------------
\* What the dashboard and the tools make of a learner's rows: completed is the
\* set of slugs with that status.

IsCompleted(completed, slug) == slug \in completed

CompletedCount(x, t, completed) ==
    Cardinality({i \in DOMAIN x[t] : IsCompleted(completed, x[t][i])})

\* firstIncomplete.
Continue(x, completed) ==
    LET o == Ordered(x)
        todo == {i \in DOMAIN o : ~IsCompleted(completed, o[i])}
    IN  IF todo = {} THEN None ELSE o[Min(todo)]

\* Slip: every completed row is counted, those of lessons that are gone too.
DoneInAll(x, completed) == Cardinality(completed)

\* The sum, over the tracks, of count[t].
Summed(count) ==
    LET upTo[n \in 0..Len(TrackOrder)] ==
            IF n = 0 THEN 0 ELSE upTo[n - 1] + count[TrackOrder[n]]
    IN  upTo[Len(TrackOrder)]

TotalCompleted(x, completed) ==
    Summed([t \in Known |-> CompletedCount(x, t, completed)])

Total(x) == Summed([t \in Known |-> Len(x[t])])

HomePage(x, completed) ==
    [next |-> Continue(x, completed), completed |-> TotalCompleted(x, completed),
     total |-> Total(x)]

\* getProgress: one pass over the lessons of the tracks.
Tally(report, slug, done) ==
    IF ~done /\ report.next = None THEN [report EXCEPT !.next = slug]
    ELSE IF done THEN [report EXCEPT !.completed = @ + 1]
    ELSE report

GetProgress(x, completed) ==
    LET o == Ordered(x)
        upTo[n \in 0..Len(o)] ==
            IF n = 0 THEN [next |-> None, completed |-> 0, total |-> Len(o)]
            ELSE Tally(upTo[n - 1], o[n], o[n] \in completed)
    IN  upTo[Len(o)]

\* listLessons, narrowed to one track: an unknown one, or an empty one, is an
\* error, for which << >> stands.
ListLessons(x, t) == IF t \in Tracks(x) THEN x[t] ELSE << >>
=============================================================================
