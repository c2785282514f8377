------------------------------ MODULE Dashboard ------------------------------
(* One tab of the dashboard: the card on screen, the request that fills it  *)
(* (use_resource), the changes it sends (spawn), navigation, and the        *)
(* auto-refresh loops, against a server that other tabs write to as well.   *)
(* Pages: crates/web/src/ui.                                                *)
EXTENDS Integers

CONSTANTS
    Sites, Org,      \* what a card shows: a site's data, or the organisation's
    Fields,          \* what can be changed by itself: a row of a list, a control of a form
    Visited,         \* the cards this instance goes to
    Intervals,       \* the lengths of auto-refresh on offer, 0 for "Manual"
    Latency,         \* the longest a card waits for an answer, in the same unit
    MaxEdits, MaxMoves, MaxFaults   \* bounds: changes, navigations, failed requests

ASSUME OrgAssumption == Org \notin Sites
ASSUME BoundsAssumption ==
    /\ Intervals \subseteq Nat /\ 0 \in Intervals
    /\ {Latency, MaxEdits, MaxMoves, MaxFaults} \subseteq Nat

Place == Sites \cup {Org}
Values == [Fields -> Nat]
Blank == [f \in Fields |-> 0]
-----------------------------------------------------------------------------
(* What the components of the pages do.  reactive: the resource restarts    *)
(* when the route's site or query changes (use_reactive), otherwise it      *)
(* keeps the site it was mounted for; whole: a change carries every         *)
(* control, not only the one changed; reloads: a change that succeeds makes *)
(* the resource load again; leaves: or it goes to another page.             *)
Managed == [scoped |-> TRUE, queried |-> FALSE, reactive |-> FALSE, live |-> FALSE,
            edits |-> TRUE, whole |-> FALSE, reloads |-> TRUE, leaves |-> ""]
Insight == [Managed EXCEPT !.queried = TRUE, !.reactive = TRUE, !.live = TRUE, !.edits = FALSE]

SiteOverview   == Insight
BreakdownPanel == Insight
EntryExitPanel == Insight
Events         == Insight
Campaigns      == Insight
FunnelDetail   == [Insight EXCEPT !.live = FALSE, !.edits = TRUE, !.reloads = FALSE, !.leaves = "Funnels"]
Funnels        == [Managed EXCEPT !.queried = TRUE]
AlertsCard     == Managed
SiteKeys       == Managed
NotificationDestinations == Managed
DigestCard     == [Managed EXCEPT !.whole = TRUE]
GeneralCard    == [DigestCard EXCEPT !.reloads = FALSE]
SiteSettings   == [Managed EXCEPT !.reloads = FALSE, !.leaves = "SitesIndex"]
SitesIndex     == [Managed EXCEPT !.scoped = FALSE, !.leaves = "SiteOverview"]
Keys           == [Managed EXCEPT !.scoped = FALSE]

Component ==
    [SiteOverview |-> SiteOverview, BreakdownPanel |-> BreakdownPanel, EntryExitPanel |-> EntryExitPanel,
     Events |-> Events, Campaigns |-> Campaigns, FunnelDetail |-> FunnelDetail, Funnels |-> Funnels,
     AlertsCard |-> AlertsCard, SiteKeys |-> SiteKeys, NotificationDestinations |-> NotificationDestinations,
     DigestCard |-> DigestCard, GeneralCard |-> GeneralCard, SiteSettings |-> SiteSettings,
     SitesIndex |-> SitesIndex, Keys |-> Keys]

ASSUME VisitedAssumption == Visited \subseteq DOMAIN Component

(* DashQuery: a preset or a custom window, and whether filters or the       *)
(* comparison are on.                                                       *)
DashQuery == [range : {"30d", "7d", "custom"}, narrowed : BOOLEAN]
NoQuery == [range |-> "30d", narrowed |-> FALSE]

(* The links of the funnel pages carry the preset range alone.              *)
range_only(q) == [NoQuery EXCEPT !.range = IF q.range = "custom" THEN "30d" ELSE q.range]

(* What the card on screen asks the server for.                             *)
Asked(card, q) == IF card = "FunnelDetail" THEN range_only(q) ELSE q
-----------------------------------------------------------------------------
VARIABLES
    stored,    \* what the server has
    route,     \* the card on screen and the route it is on
    mounted,   \* the site the card was mounted for
    shown,     \* what the card shows, and where that is from
    get,       \* the request of its resource
    writes,    \* the changes on their way
    interval, loops,   \* the chosen auto-refresh; its loops, with the time each has left
    behind,    \* ghost: the card missed a change nothing will tell it of
    edits, moves, faults

dashVars == <<stored, route, mounted, shown, get, writes, interval, loops, behind, edits, moves, faults>>

Here == Component[route.card]
NoGet == [on |-> FALSE, read |-> FALSE, site |-> Org, q |-> NoQuery, value |-> Blank, age |-> 0]
Nothing == [loaded |-> FALSE, site |-> Org, q |-> NoQuery, value |-> Blank]
Load(site, q) == [NoGet EXCEPT !.on = TRUE, !.site = site, !.q = q]
Own == {w \in writes : w.alive}
Sleeping(t) == [left |-> t, current |-> TRUE]
Started_Bug(card) == IF Component[card].live /\ interval # 0 THEN {[Sleeping(interval) EXCEPT !.current = FALSE]} ELSE {}
Started(card) == IF Component[card].live /\ interval # 0 THEN {Sleeping(interval)} ELSE {}

DashTypeOK ==
    /\ stored \in [Place -> Values] /\ mounted \in Place
    /\ route \in [card : DOMAIN Component, site : Place, q : DashQuery]
    /\ shown \in [loaded : BOOLEAN, site : Place, q : DashQuery, value : Values]
    /\ get \in [on : BOOLEAN, read : BOOLEAN, site : Place, q : DashQuery, value : Values, age : Nat]
    /\ \A w \in writes :
         /\ w \in [site : Place, of : Place, field : Fields, sets : {w.sets},
                  alive : BOOLEAN, applied : BOOLEAN, calm : BOOLEAN]
         /\ DOMAIN w.sets \subseteq Fields /\ w.sets \in [DOMAIN w.sets -> Nat]
    /\ interval \in Intervals /\ loops \subseteq [left : Nat, current : BOOLEAN]
    /\ behind \in BOOLEAN /\ {edits, moves, faults} \subseteq Nat

(* Any page may be the first: a bookmark, or a reload.                      *)
DashInit ==
    /\ stored = [s \in Place |-> Blank] /\ interval \in Intervals
    /\ \E card \in Visited, s \in Sites :
         /\ mounted = (IF Component[card].scoped THEN s ELSE Org)
         /\ route = [card |-> card, site |-> mounted, q |-> NoQuery] /\ get = Load(mounted, NoQuery)
         /\ loops = Started(card)
    /\ shown = Nothing /\ writes = {} /\ behind = FALSE /\ edits = 0 /\ moves = 0 /\ faults = 0
-----------------------------------------------------------------------------
(* use_resource runs again: the request it had in flight is dropped, and    *)
(* what is shown stays until the new answer.                                *)
Reload == get' = Load(IF Here.reactive THEN route.site ELSE mounted, Asked(route.card, route.q))

(* A page is left: its tasks are dropped, and the changes they sent may     *)
(* still arrive.  The refresh interval is remembered (localStorage).        *)
Mount(card, site, q, rest) ==
    LET s == IF Component[card].scoped THEN site ELSE Org
        p == IF Component[card].queried THEN q ELSE NoQuery
    IN  /\ route' = [card |-> card, site |-> s, q |-> p] /\ mounted' = s
        /\ shown' = Nothing /\ get' = Load(s, Asked(card, p))
        /\ writes' = {[w EXCEPT !.alive = FALSE] : w \in {v \in rest : ~v.applied}}
        /\ loops' = Started(card)

Moves == moves < MaxMoves /\ moves' = moves + 1

(* The tabs of a site, the links of the sidebar, a card of the sites index, *)
(* a funnel of the list.                                                    *)
SiteTabs(card) ==
    /\ Here.scoped /\ Component[card].scoped /\ card \notin {route.card, "FunnelDetail"}
    /\ Mount(card, route.site, route.q, writes)
Sidebar(card) == ~Component[card].scoped /\ card # route.card /\ Mount(card, Org, NoQuery, writes)
SiteCard(s) ==
    /\ route.card = "SitesIndex" /\ shown.loaded
    /\ Mount("SiteOverview", s, [NoQuery EXCEPT !.range = "7d"], writes)
OpenFunnel ==
    /\ route.card = "Funnels" /\ shown.loaded
    /\ Mount("FunnelDetail", route.site, range_only(route.q), writes)

Navigate ==
    /\ Moves /\ UNCHANGED <<stored, interval, behind, edits, faults>>
    /\ \/ \E card \in Visited : SiteTabs(card) \/ Sidebar(card)
       \/ "SiteOverview" \in Visited /\ \E s \in Sites : SiteCard(s)
       \/ "FunnelDetail" \in Visited /\ OpenFunnel

(* A range, or a filter or the comparison, is chosen: the same page,        *)
(* another query.                                                           *)
with_query(q) ==
    /\ Here.queried /\ q # route.q /\ (q.range = route.q.range \/ q.narrowed = route.q.narrowed)
    /\ Moves /\ route' = [route EXCEPT !.q = q]
    /\ get' = IF Here.reactive /\ Asked(route.card, q) # Asked(route.card, route.q)
              THEN Load(route.site, Asked(route.card, q)) ELSE get
    /\ UNCHANGED <<stored, mounted, shown, writes, interval, loops, behind, edits, faults>>

(* The browser's history leads from a page to the same page of another      *)
(* site: the router keeps the component and gives it the new route.         *)
HistoryJump(s) ==
    /\ Here.scoped /\ s # route.site /\ Moves /\ route' = [route EXCEPT !.site = s]
    /\ get' = IF Here.reactive THEN Load(s, Asked(route.card, route.q)) ELSE get
    /\ UNCHANGED <<stored, mounted, shown, writes, interval, loops, behind, edits, faults>>
-----------------------------------------------------------------------------
Watched == IF get.on THEN get.site ELSE shown.site

ServerReads ==
    /\ get.on /\ ~get.read
    /\ get' = [get EXCEPT !.read = TRUE, !.value = stored[get.site]]
    /\ behind' = FALSE
    /\ UNCHANGED <<stored, route, mounted, shown, writes, interval, loops, edits, moves, faults>>

get_json ==
    /\ get.read /\ get' = NoGet
    /\ shown' = [loaded |-> TRUE, site |-> get.site, q |-> get.q, value |-> get.value]
    /\ UNCHANGED <<stored, route, mounted, writes, interval, loops, behind, edits, moves, faults>>

GetFails ==
    /\ get.on /\ faults < MaxFaults /\ faults' = faults + 1
    /\ get' = NoGet /\ shown' = Nothing
    /\ UNCHANGED <<stored, route, mounted, writes, interval, loops, behind, edits, moves>>

(* Whether the card is at rest and shows all it should: ghost.              *)
Settled == shown.loaded /\ ~get.on /\ Own = {}
Calm == Settled /\ ~behind /\ writes = {} /\ shown.site = route.site

(* The body of a change: every control of the card as it is shown, or the   *)
(* one that was changed.                                                    *)
Body_Bug(f) == IF Here.whole THEN [Blank EXCEPT ![f] = edits + 1] ELSE [g \in {f} |-> edits + 1]
Body(f) == IF Here.whole THEN [shown.value EXCEPT ![f] = edits + 1] ELSE [g \in {f} |-> edits + 1]

Ruffled == {[w EXCEPT !.calm = FALSE] : w \in writes}

(* The user changes one thing.  The form of GeneralCard shows what was      *)
(* typed; nothing loads it again, so it does not learn that another change  *)
(* of it was under way, or that it went to another site.                    *)
Change(f) ==
    /\ Here.edits /\ (Here.whole => shown.loaded) /\ edits < MaxEdits /\ edits' = edits + 1
    /\ writes' = Ruffled \cup
         {[site |-> route.site, of |-> IF shown.loaded THEN shown.site ELSE route.site, field |-> f,
           sets |-> Body(f), alive |-> TRUE, applied |-> FALSE, calm |-> Calm]}
    /\ IF Here.whole /\ ~Here.reloads
       THEN /\ shown' = [shown EXCEPT !.value = Body(f)]
            /\ behind' = (behind \/ writes # {} \/ shown.site # route.site)
       ELSE UNCHANGED <<shown, behind>>
    /\ UNCHANGED <<stored, route, mounted, get, interval, loops, moves, faults>>

Applied(w) ==
    /\ ~w.applied
    /\ stored' = [stored EXCEPT ![w.site] = [f \in Fields |-> IF f \in DOMAIN w.sets THEN w.sets[f] ELSE @[f]]]
    /\ IF w.alive
       THEN writes' = (writes \ {w}) \cup {[w EXCEPT !.applied = TRUE]} /\ UNCHANGED behind
       ELSE writes' = writes \ {w} /\ behind' = (behind \/ w.site = Watched)
    /\ UNCHANGED <<route, mounted, shown, get, interval, loops, edits, moves, faults>>

(* A change succeeded: the card loads again, or is left (from the sites     *)
(* index for the site that was created).                                    *)
Answered_Bug(w) ==
    /\ w.alive /\ w.applied /\ writes' = writes \ {w}
    /\ UNCHANGED <<stored, route, mounted, shown, get, interval, loops, behind, edits, moves, faults>>
Answered(w) ==
    /\ w.alive /\ w.applied
    /\ IF Here.leaves # ""
       THEN \E s \in IF route.card = "SitesIndex" THEN Sites ELSE {w.site} :
              Mount(Here.leaves, s, range_only(route.q), writes \ {w})
       ELSE /\ writes' = writes \ {w}
            /\ IF Here.reloads THEN Reload ELSE UNCHANGED get
            /\ UNCHANGED <<route, mounted, shown, loops>>
    /\ UNCHANGED <<stored, interval, behind, edits, moves, faults>>

(* A change failed, as far as the tab can tell: it was refused, or its      *)
(* answer was lost, or it is still to arrive.  Nothing loads again.         *)
WriteFails(w) ==
    /\ faults < MaxFaults /\ faults' = faults + 1
    /\ writes' \in {writes \ {w}} \cup
         (IF w.alive /\ ~w.applied THEN {(writes \ {w}) \cup {[w EXCEPT !.alive = FALSE]}} ELSE {})
    /\ behind' = (behind \/ (w.applied /\ w.site = Watched) \/ (w.alive /\ Here.whole /\ ~Here.reloads))
    /\ UNCHANGED <<stored, route, mounted, shown, get, interval, loops, edits, moves>>

(* Another tab, or a tracked visitor, changes what is stored.               *)
AnotherTab(s, f) ==
    /\ edits < MaxEdits /\ edits' = edits + 1
    /\ stored' = [stored EXCEPT ![s][f] = edits + 1] /\ writes' = Ruffled
    /\ behind' = (behind \/ s = Watched)
    /\ UNCHANGED <<route, mounted, shown, get, interval, loops, moves, faults>>
-----------------------------------------------------------------------------
(* AutoRefresh: choosing an interval bumps the generation, which ends the   *)
(* loops that are asleep when they wake, and starts a new one.              *)
ChooseInterval_Bug(v) ==
    /\ Here.live /\ v # interval /\ Moves /\ interval' = v
    /\ loops' = loops \cup (IF v = 0 THEN {} ELSE {Sleeping(v)})
    /\ UNCHANGED <<stored, route, mounted, shown, get, writes, behind, edits, faults>>
ChooseInterval(v) ==
    /\ Here.live /\ v # interval /\ Moves /\ interval' = v
    /\ loops' = {[l EXCEPT !.current = FALSE] : l \in loops} \cup
                (IF v = 0 THEN {} ELSE {Sleeping(v)})
    /\ UNCHANGED <<stored, route, mounted, shown, get, writes, behind, edits, faults>>

AutoRefresh(l) ==
    /\ l.left = 0
    /\ IF l.current
       THEN loops' = (loops \ {l}) \cup {[l EXCEPT !.left = interval]} /\ Reload
       ELSE loops' = loops \ {l} /\ UNCHANGED get
    /\ UNCHANGED <<stored, route, mounted, shown, writes, interval, behind, edits, moves, faults>>

(* Time passes for sleeping loops; an answer takes at most Latency.         *)
TimePasses ==
    /\ loops # {} /\ \A l \in loops : l.left > 0
    /\ get.on => get.age < Latency
    /\ loops' = {[l EXCEPT !.left = @ - 1] : l \in loops}
    /\ get' = IF get.on THEN [get EXCEPT !.age = @ + 1] ELSE get
    /\ UNCHANGED <<stored, route, mounted, shown, writes, interval, behind, edits, moves, faults>>

Loading == ServerReads \/ get_json
Delivery == \E w \in writes : Applied(w) \/ Answered(w)

DashNext ==
    \/ Navigate \/ (\E q \in DashQuery : with_query(q)) \/ (\E s \in Sites : HistoryJump(s))
    \/ Loading \/ GetFails \/ Delivery
    \/ (\E f \in Fields : Change(f)) \/ (\E w \in writes : WriteFails(w))
    \/ (\E s \in Place, f \in Fields : AnotherTab(s, f))
    \/ (\E v \in Intervals : ChooseInterval(v)) \/ (\E l \in loops : AutoRefresh(l)) \/ TimePasses

(* Requests are answered or fail, timers fire.                              *)
DashSpec ==
    /\ DashInit /\ [][DashNext]_dashVars
    /\ WF_dashVars(Loading) /\ WF_dashVars(Delivery)
    /\ WF_dashVars(\E l \in loops : AutoRefresh(l)) /\ WF_dashVars(TimePasses)
-----------------------------------------------------------------------------
(* PROPERTIES                                                               *)

(* At rest, with no answer lost and nothing changed behind its back since   *)
(* it was read, a card shows what the server has: for the site it shows,    *)
(* and, on the analytics pages, for the site and query of the route.  A     *)
(* change must load again after its answer, never before, and an answer     *)
(* that is overtaken must not be shown.                                     *)
SettledIsFresh ==
    Settled /\ ~behind =>
      /\ shown.value = stored[shown.site]
      /\ Here.reactive => shown.site = route.site /\ shown.q = Asked(route.card, route.q)

(* A change made on a settled card, with no other change around until it    *)
(* arrives, alters the one thing the user changed, at the site whose data   *)
(* was on screen: although DigestCard and GeneralCard send every control,   *)
(* and a card may still show the site it was mounted for.                   *)
CalmChangesAreExact ==
    \A w \in writes : w.calm /\ ~w.applied =>
      /\ w.site = w.of
      /\ \A f \in DOMAIN w.sets \ {w.field} : w.sets[f] = stored[w.site][f]

(* However often the interval is changed, or set to "Manual" and back,      *)
(* while loops of earlier choices are still asleep (a change does not wake  *)
(* them), and however pages with and without auto-refresh follow each       *)
(* other, refreshes come at the pace that is chosen: one loop at most will  *)
(* tick rather than end, it ticks again within the interval in force, there *)
(* is none under "Manual", and there is one on a live page otherwise.       *)
RefreshFollowsChoice ==
    /\ \A l, m \in loops : l.current /\ m.current => l = m
    /\ \A l \in loops : l.current => interval # 0 /\ l.left <= interval
    /\ Here.live /\ interval # 0 => \E l \in loops : l.current

(* A user who ends up on a live page with auto-refresh on ends up with what *)
(* the server has, whatever failed before: as long as an answer takes less  *)
(* than the interval (each tick drops the request before it).               *)
Live == Here.live /\ interval # 0
UpToDate == shown.loaded /\ shown.site = route.site /\ shown.value = stored[route.site]
LivePagesKeepUp == <>[]Live => <>[]UpToDate
=============================================================================
