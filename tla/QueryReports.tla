---------------------------- MODULE QueryReports ----------------------------
(***************************************************************************)
(* The reports EmbeddedReader computes over the event table of one site,  *)
(* and the handlers of routes/analytics.rs that ask for them, while the    *)
(* writer adds files, a replay adds events a second time and the pruner    *)
(* removes days.  The SQL of a query is an operator over the rows; a       *)
(* request that reads the table twice (query_pageviews, a top list with    *)
(* trends) is two actions.                                                 *)
(*                                                                         *)
(* Timestamps are set by the clients and are in no order.  Bounce rates    *)
(* and percentages are kept as their numerators and denominators.          *)
(***************************************************************************)
EXTENDS Integers, Sequences, FiniteSets, FiniteSetsExt

CONSTANTS
    Value,       \* what the columns can say
    Beacon,      \* what events say: session, kind, and a value for each column
    Time,        \* the timestamps that occur
    TimeRange,   \* the ranges asked for
    DayLength,   \* how many of them make a day
    FilterParam, \* the filter= parameters of a request, in their order
    ListRequest, \* the top lists asked for, as the handlers below make them
    MAX_FILTERS, \* 10 in the code
    EXPORT_MAX_ROWS, \* 100,000 in the code
    MaxEvents,   \* bound: events recorded
    MaxRows      \* bound: rows in the table

VARIABLES
    rows,    \* the events in Parquet; id is the event's, copy tells rows apart
    report,  \* the request being answered, or the last one
    grown,   \* history: rows were added between its two reads
    pruned   \* history: rows were pruned between its two reads

reportVars == <<rows, report, grown, pruned>>

(* The columns that are listed and filtered by; NULL is one value more, and *)
(* the label it is listed under ("Direct / None") is no value of a column. *)
UTM == {"utm_source", "utm_medium", "utm_campaign", "utm_term", "utm_content"}
Column == {"url", "referrer", "country_code", "browser", "device_type", "os", "region", "name"} \cup UTM
Null == "null"

(* A filter names a field, an operator, and the values that pass it (the   *)
(* one it is equal to, or those that contain or start with the text).      *)
Filter ==
    {f \in [field : Column, op : {"eq", "not_eq", "contains", "starts_with"}, values : SUBSET Value] :
        f.op \in {"eq", "not_eq"} => \E v \in Value : f.values = {v}}
Malformed == [field |-> "none", op |-> "none", values |-> {}]
Eq(column, value) == [field |-> column, op |-> "eq", values |-> {value}]

ASSUME ReportsAssumption ==
    /\ Null \notin Value
    /\ \A b \in Beacon :
          /\ b.kind \in {"pageview", "custom"} /\ b.dim \in [Column -> Value \cup {Null}]
          /\ b.dim["name"] # Null
    /\ Time \subseteq Nat /\ DayLength \in Nat \ {0}
    /\ TimeRange \subseteq [start : Time, end : Time]
    /\ FilterParam \subseteq Seq(Filter \cup {Malformed})
    /\ \A ask \in ListRequest : ask.limit \in Nat /\ (ask.name # Null => ask.field = "name")
    /\ MAX_FILTERS \in Nat /\ EXPORT_MAX_ROWS \in Nat /\ MaxEvents \in Nat /\ MaxRows \in Nat

DayOf(t) == t \div DayLength

(* The sum of the values of a function. *)
Total(f) == Cardinality(UNION {{x} \X (1 .. f[x]) : x \in DOMAIN f})

(* The equal-length range before, which ends where this one starts. *)
previous(range) ==
    [start |-> range.start - (range.end - range.start), end |-> range.start]
-----------------------------------------------------------------------------
(* The filters of a request by the place they have in it, as far as they  *)
(* are kept: the first ones that are well-formed.                          *)
AtMost(n, filters) ==
    [i \in {j \in DOMAIN filters : Cardinality({k \in DOMAIN filters : k <= j}) <= n} |-> filters[i]]
WellFormed(raw) == [i \in {j \in DOMAIN raw : raw[j] # Malformed} |-> raw[i]]
parse_filters(raw) == AtMost(MAX_FILTERS, WellFormed(raw))

(* NULL satisfies no comparison, <> included. *)
Satisfies(r, f) ==
    /\ r.dim[f.field] # Null
    /\ (r.dim[f.field] \in f.values) = (f.op # "not_eq")
Where(V, filters) == {r \in V : \A i \in DOMAIN filters : Satisfies(r, filters[i])}

(* WHERE "timestamp" >= start AND "timestamp" <= end AND kind = ...: both  *)
(* ends inclusive.                                                         *)
Events(range, kind) ==
    {r \in rows : r.ts \in range.start .. range.end /\ r.kind = kind}
Pageviews(range) == Events(range, "pageview")

Sessions(V) == {r.session : r \in V}
Of(V, session) == {r \in V : r.session = session}
Visits(V) == {Of(V, s) : s \in Sessions(V)}

(* ORDER BY ... DESC LIMIT: those that rank highest, ties in any order. *)
Foremost(S, limit, rank) ==
    {T \in SUBSET S :
        /\ Cardinality(T) = Min({limit, Cardinality(S)})
        /\ \A a \in T, b \in S \ T : rank[a] >= rank[b]}

(* ORDER BY "timestamp", id; the rows of one event tie. *)
Before(q, r) == q.ts < r.ts \/ (q.ts = r.ts /\ q.id < r.id)

(* rn = 1: ROW_NUMBER numbers tied rows differently, in any order. *)
First_BugRank(W) == {r \in W : \A q \in W : ~Before(q, r)}
First(W) == {CHOOSE r \in W : \A q \in W : ~Before(q, r)}
Last_BugRank(W) == {r \in W : \A q \in W : ~Before(r, q)}
Last(W) == {CHOOSE r \in W : \A q \in W : ~Before(r, q)}

(* query_entry_pages, per url: sessions, and bounces among them *)
Entries(V) == UNION {First(W) : W \in Visits(V)}
EntryVisits(V, url) == {W \in Visits(V) : \E r \in First(W) : r.dim["url"] = url}
EntryPage(V, url) ==
    [sessions |-> Cardinality({r \in Entries(V) : r.dim["url"] = url}),
     bounces  |-> Cardinality({W \in EntryVisits(V, url) : Cardinality(W) = 1})]

(* query_exit_pages, per url: exits, and pageviews *)
Exits(V) == UNION {Last(W) : W \in Visits(V)}
ExitPage(V, url) ==
    [exits     |-> Cardinality({r \in Exits(V) : r.dim["url"] = url}),
     pageviews |-> Cardinality({r \in V : r.dim["url"] = url})]

(* query_sessions: a row per session; 30 seconds are less than a unit *)
Earliest(W) == Min({r.ts : r \in W})
Latest(W) == Max({r.ts : r \in W})
SessionRow(W) ==
    [session   |-> (CHOOSE r \in W : TRUE).session,
     started   |-> Earliest(W),
     entry_url |-> (CHOOSE r \in First(W) : TRUE).dim["url"],
     exit_url  |-> (CHOOSE r \in Last(W) : TRUE).dim["url"],
     is_bounce |-> Cardinality(W) = 1 /\ Latest(W) - Earliest(W) < 1]

(* session_summary *)
SummaryBounces(V) == Cardinality({W \in Visits(V) : Cardinality(W) = 1})

(* The latest sessions, and query_events_list: the latest rows of either   *)
(* kind.                                                                   *)
query_sessions(range, limit) ==
    LET S == {SessionRow(W) : W \in Visits(Pageviews(range))}
    IN  Foremost(S, limit, [row \in S |-> row.started])
query_events_list(range, limit) ==
    LET E == Events(range, "pageview") \cup Events(range, "custom")
    IN  Foremost(E, limit, [r \in E |-> r.ts])

(* The exports; neither looks at the filters. *)
AtMostExport(limit) == Min({limit, EXPORT_MAX_ROWS})
export_sessions(range, limit) == query_sessions(range, AtMostExport(limit))
export_events(range, limit) == query_events_list(range, AtMostExport(limit))

(* query_funnel, per step: sessions with the event, whatever the order of  *)
(* the steps, the time between them and the filters of the step            *)
query_funnel(range, names) ==
    LET E == Events(range, "pageview") \cup Events(range, "custom")
    IN  [i \in DOMAIN names |->
            Cardinality(Sessions({r \in E : r.dim["name"] = names[i]}))]
-----------------------------------------------------------------------------
(* Top lists.  A request names the column, how many rows it wants, the     *)
(* filters that are kept, and for events the name they are confined to.    *)
Asked(field, limit, filters, name) ==
    [field |-> field, limit |-> limit, filters |-> filters, name |-> name]

top_list_response(field, limit, raw) == Asked(field, limit, parse_filters(raw), Null)
top_pages(limit, raw) == top_list_response("url", limit, raw)
top_referrers(limit, raw) == top_list_response("referrer", limit, raw)
top_os(limit, raw) == top_list_response("os", limit, raw)
top_regions(limit, raw) == top_list_response("region", limit, raw)
top_countries(limit, raw) == top_list_response("country_code", limit, raw)
top_browsers(limit, raw) == top_list_response("browser", limit, raw)
top_devices(limit, raw) == top_list_response("device_type", limit, raw)
Breakdowns(limit, raw) ==
    {top_pages(limit, raw), top_referrers(limit, raw), top_os(limit, raw), top_regions(limit, raw),
     top_countries(limit, raw), top_browsers(limit, raw), top_devices(limit, raw)}

(* Without a name, the first event_name:eq filter is taken for it. *)
Only(filters, I) == [i \in I |-> filters[i]]
Named(filters) == {i \in DOMAIN filters : filters[i].field = "name" /\ filters[i].op = "eq"}
FirstNamed(filters) == CHOOSE i \in Named(filters) : \A j \in Named(filters) : i <= j
events_Bug(name, limit, raw) ==
    LET filters == parse_filters(raw)
        Others == {i \in DOMAIN filters : filters[i].field # "name"}
    IN  IF name # Null \/ Named(filters) = {} THEN Asked("name", limit, filters, name)
        ELSE Asked("name", limit, Only(filters, Others),
                   CHOOSE v \in filters[FirstNamed(filters)].values : TRUE)
events(name, limit, raw) ==
    LET filters == parse_filters(raw)
        Others == DOMAIN filters \ {FirstNamed(filters)}
    IN  IF name # Null \/ Named(filters) = {} THEN Asked("name", limit, filters, name)
        ELSE Asked("name", limit, Only(filters, Others),
                   CHOOSE v \in filters[FirstNamed(filters)].values : TRUE)

(* The restrictions to a source and a medium come after the filters, and   *)
(* the cap after them.                                                     *)
Given(filters, i, column, value) ==
    IF value = Null THEN filters
    ELSE [j \in DOMAIN filters \cup {i} |-> IF j = i THEN Eq(column, value) ELSE filters[j]]
utm(dimension, source, medium, limit, raw) ==
    LET bySource == Given(parse_filters(raw), Len(raw) + 1, "utm_source", source)
    IN  Asked(dimension, limit,
              AtMost(MAX_FILTERS, Given(bySource, Len(raw) + 2, "utm_medium", medium)), Null)

(* One list for each dimension, read one after the other. *)
campaigns(limit, raw) == {Asked(field, limit, parse_filters(raw), Null) : field \in UTM}

event_kind(field) == IF field = "name" THEN "custom" ELSE "pageview"

(* The rows that query_top_list counts, and query_custom_events for names. *)
Counted(ask, range) ==
    {r \in Where(Events(range, event_kind(ask.field)), ask.filters) :
        ask.name = Null \/ r.dim["name"] = ask.name}

(* The groups with the most rows, ties in any order; a percentage is of    *)
(* the rows in the groups that are listed.                                 *)
Count(V, field, value) == Cardinality({r \in V : r.dim[field] = value})
TopLists(V, field, limit) ==
    LET Values == {r.dim[field] : r \in V}
    IN  Foremost(Values, limit, [v \in Values |-> Count(V, field, v)])
ListTotal(V, field, T) == Total([v \in T |-> Count(V, field, v)])

(* The pages most sessions enter or leave by, over what the filters keep;  *)
(* a page without an exit is not listed.                                   *)
top_entry_pages(range, limit, raw) ==
    LET V == Where(Pageviews(range), parse_filters(raw))
    IN  {{[url |-> u, page |-> EntryPage(V, u)] : u \in T} : T \in TopLists(Entries(V), "url", limit)}
top_exit_pages(range, limit, raw) ==
    LET V == Where(Pageviews(range), parse_filters(raw))
    IN  {{[url |-> u, page |-> ExitPage(V, u)] : u \in T} : T \in TopLists(Exits(V), "url", limit)}

(* query_top_sparklines: the groups with the most rows once more, day by   *)
(* day.  The handler passes the filters on, and not the name.              *)
Charted_Bug(ask, range) == Events(range, event_kind(ask.field))
Charted(ask, range) == Where(Events(range, event_kind(ask.field)), ask.filters)
Points(V, field, value) ==
    [d \in {DayOf(r.ts) : r \in V} |->
        Cardinality({r \in V : r.dim[field] = value /\ DayOf(r.ts) = d})]
-----------------------------------------------------------------------------
NoReport == [at |-> "none"]

ReportInit == rows = {} /\ report = NoReport /\ grown = FALSE /\ pruned = FALSE

Ids == {r.id : r \in rows}

HalfDone == report.at \in {"summary", "trends"}

(* Rows change while no request, or half a request, is answered. *)
RowsChange(added, removed) ==
    /\ report = NoReport \/ HalfDone
    /\ grown' = (HalfDone /\ (grown \/ added)) /\ pruned' = (HalfDone /\ (pruned \/ removed))
    /\ UNCHANGED report

(* A flush writes an event, of any session and with any timestamp.  Ids    *)
(* only break ties, so they can be given out in their order.               *)
Flush(b, t) ==
    /\ Cardinality(Ids) < MaxEvents /\ Cardinality(rows) < MaxRows
    /\ rows' = rows \cup
          {[id |-> Min((1 .. MaxEvents) \ Ids), copy |-> 1, ts |-> t,
            session |-> b.session, kind |-> b.kind, dim |-> b.dim]}
    /\ RowsChange(TRUE, FALSE)

(* An event that is in Parquet is replayed from the WAL and written again. *)
Replay(r) ==
    /\ Cardinality(rows) < MaxRows
    /\ [r EXCEPT !.copy = @ + 1] \notin rows
    /\ rows' = rows \cup {[r EXCEPT !.copy = @ + 1]}
    /\ RowsChange(TRUE, FALSE)

(* prune_before *)
Prune(day) ==
    /\ rows' = {r \in rows : DayOf(r.ts) >= day}
    /\ RowsChange(FALSE, rows' # rows)

(* query_pageviews: the buckets *)
Buckets(V) ==
    [d \in {DayOf(r.ts) : r \in V} |-> Cardinality(Sessions({r \in V : DayOf(r.ts) = d}))]

StartReport(range) ==
    /\ report = NoReport
    /\ LET V == Pageviews(range)
       IN  report' = [at |-> "summary", range |-> range, pageviews |-> Cardinality(V),
                      buckets |-> Buckets(V),
                      sessions |-> 0, bounces |-> 0]
    /\ UNCHANGED <<rows, grown, pruned>>

(* ... and, if there are any, the totals from session_summary *)
Summarised(rep, V) ==
    [rep EXCEPT !.at = "done",
                !.sessions = IF rep.pageviews = 0 THEN 0 ELSE Cardinality(Sessions(V)),
                !.bounces = IF rep.pageviews = 0 THEN 0 ELSE SummaryBounces(V)]
Summary_Bug(rep) ==
    Summarised(rep, {r \in Pageviews(rep.range) : DayOf(r.ts) = DayOf(rep.range.end)})
Summary(rep) == Summarised(rep, Pageviews(rep.range))

FinishReport ==
    /\ report.at = "summary"
    /\ report' = Summary(report)
    /\ UNCHANGED <<rows, grown, pruned>>

(* top_list_response and events with spark=1: the rows of the list *)
StartList(ask, range) ==
    /\ report = NoReport
    /\ LET V == Counted(ask, range)
       IN  \E T \in TopLists(V, ask.field, ask.limit) :
             report' = [at |-> "trends", ask |-> ask, range |-> range,
                        list |-> {[value |-> v, count |-> Count(V, ask.field, v)] : v \in T},
                        charts |-> {}]
    /\ UNCHANGED <<rows, grown, pruned>>

(* ... and their trends, found by value; an error leaves them out *)
FinishList ==
    /\ report.at = "trends"
    /\ LET ask == report.ask
           V == Charted(ask, report.range)
       IN  \/ \E T \in TopLists(V, ask.field, ask.limit) :
                report' = [report EXCEPT !.at = "listed",
                              !.charts = {[value |-> v, points |-> Points(V, ask.field, v)] : v \in T}]
          \/ report' = [report EXCEPT !.at = "failed"]
    /\ UNCHANGED <<rows, grown, pruned>>

(* The answer is sent. *)
Answer ==
    /\ report # NoReport /\ ~HalfDone
    /\ report' = NoReport /\ grown' = FALSE /\ pruned' = FALSE
    /\ UNCHANGED rows

(* pageviews with compare=1 asks for the range before as well. *)
ReportNext ==
    \/ \E b \in Beacon, t \in Time : Flush(b, t)
    \/ \E r \in rows : Replay(r)
    \/ \E t \in Time : Prune(DayOf(t))
    \/ \E range \in TimeRange : StartReport(range) \/ StartReport(previous(range))
    \/ FinishReport
    \/ \E ask \in ListRequest, range \in TimeRange : StartList(ask, range)
    \/ FinishList \/ Answer

ReportSpec == ReportInit /\ [][ReportNext]_reportVars
-----------------------------------------------------------------------------
Url == {b.dim["url"] : b \in Beacon}
Ranges == TimeRange \cup {previous(range) : range \in TimeRange}

(* The reports agree, whatever rows the table holds, tied timestamps and   *)
(* replayed events included: under any filters the entry pages and the     *)
(* exit pages add up to the sessions of the summary, and find its bounces; *)
(* the exported sessions start and end on these pages and are bounces as   *)
(* often; the top lists and the campaigns add up to the pageviews; and an  *)
(* export leaves nothing out unless it is full.                            *)
ReportsAgree ==
    report.at = "none" => \A range \in Ranges :
        /\ \A raw \in FilterParam :
              LET V == Where(Pageviews(range), parse_filters(raw))
              IN  /\ \A list \in top_entry_pages(range, MaxRows, raw) :
                        /\ Total([row \in list |-> row.page.sessions]) = Cardinality(Sessions(V))
                        /\ Total([row \in list |-> row.page.bounces]) = SummaryBounces(V)
                  /\ \A list \in top_exit_pages(range, MaxRows, raw) :
                        /\ Total([row \in list |-> row.page.exits]) = Cardinality(Sessions(V))
                        /\ \A row \in list : row.page.exits <= row.page.pageviews
        /\ LET V == Pageviews(range)
           IN  /\ \A S \in export_sessions(range, MaxRows) :
                     Cardinality(S) < EXPORT_MAX_ROWS =>
                       /\ \A url \in Url :
                             /\ EntryPage(V, url).sessions = Cardinality({row \in S : row.entry_url = url})
                             /\ ExitPage(V, url).exits = Cardinality({row \in S : row.exit_url = url})
                       /\ Cardinality({row \in S : row.is_bounce}) = SummaryBounces(V)
               /\ \A E \in export_events(range, MaxRows) : V \subseteq E \/ Cardinality(E) = EXPORT_MAX_ROWS
               /\ \A ask \in campaigns(MaxRows, <<>>) \cup Breakdowns(MaxRows, <<>>) :
                     \A T \in TopLists(Counted(ask, range), ask.field, ask.limit) :
                         ListTotal(Counted(ask, range), ask.field, T) = Cardinality(V)

(* The two reads of query_pageviews agree as far as they can: the totals   *)
(* miss no session of a bucket unless days were pruned between the reads,  *)
(* and count no more than the buckets unless rows were added between them. *)
TilesAgree ==
    report.at = "done" =>
        /\ ~pruned =>
              /\ report.pageviews > 0 => report.sessions > 0
              /\ \A d \in DOMAIN report.buckets : report.buckets[d] <= report.sessions
        /\ ~grown =>
              /\ report.sessions <= Total(report.buckets)
              /\ report.sessions <= report.pageviews

(* Replaying an event that is already in Parquet inflates pageviews only:  *)
(* no session starts or ends elsewhere, none appears, none becomes a       *)
(* bounce, and no funnel changes.                                          *)
ReplayKeepsSessions ==
    [][\A r \in rows : Replay(r) =>
          \A range \in TimeRange :
              LET V == Pageviews(range)
                  Names == <<"pageview", "signup">>
              IN  /\ Sessions(V)' = Sessions(V)
                  /\ \A url \in Url :
                        /\ EntryPage(V, url).sessions' = EntryPage(V, url).sessions
                        /\ ExitPage(V, url).exits' = ExitPage(V, url).exits
                  /\ SummaryBounces(V)' <= SummaryBounces(V)
                  /\ query_funnel(range, Names)' = query_funnel(range, Names)]_reportVars

(* analytics.rs:436 "Opt-in sparklines for the dashboard Trend column":    *)
(* the days of a trend add up to the row beside it, up to rows that were   *)
(* added or pruned between the two reads, and in a table at rest a row has *)
(* a trend unless another ties with it for the last place, or a name was   *)
(* asked for: the trends are then those of the most frequent names.        *)
TrendsMatchRows ==
    report.at = "listed" =>
        /\ \A row \in report.list, c \in report.charts :
              row.value = c.value =>
                  /\ ~grown => Total(c.points) <= row.count
                  /\ ~pruned => Total(c.points) >= row.count
        /\ ~grown /\ ~pruned /\ report.ask.name = Null =>
              \A row \in report.list :
                  \E c \in report.charts : row.value = c.value \/ row.count = Total(c.points)

(* The ways to confine a list agree, whatever filters there are already    *)
(* and while there is room for one more: a click on a row leaves that row  *)
(* with its count and no other; utm_source= is the filter on utm_source,   *)
(* and name= is the filter on event_name.                                  *)
RestrictionsAgree ==
    report.at = "none" => \A range \in TimeRange, raw \in FilterParam :
        Cardinality(DOMAIN parse_filters(raw)) < MAX_FILTERS =>
            /\ \A field \in {"referrer", "utm_source"} :
                  LET V == Counted(top_list_response(field, MaxRows, raw), range)
                  IN  \A v \in {r.dim[field] : r \in V} \ {Null} :
                        Counted(top_list_response(field, 1, Append(raw, Eq(field, v))), range) =
                            {r \in V : r.dim[field] = v}
            /\ \A v \in {r.dim["utm_source"] : r \in Pageviews(range)} \ {Null} :
                  Counted(utm("utm_medium", v, Null, MaxRows, raw), range) =
                  Counted(top_list_response("utm_medium", MaxRows, Append(raw, Eq("utm_source", v))), range)
            /\ \A v \in {r.dim["name"] : r \in Events(range, "custom")} :
                  Counted(events(v, MaxRows, raw), range) =
                  Counted(events(Null, MaxRows, Append(raw, Eq("name", v))), range)
=============================================================================
