--------------------------- MODULE DashboardProofs ---------------------------
(***************************************************************************)
(* Proofs about Dashboard, for any sites, fields, cards visited, intervals *)
(* and latency, and any number of changes, navigations and failures.       *)
(***************************************************************************)
EXTENDS Dashboard, TLAPS

(* A form: nothing loads it again while it is on screen (GeneralCard).      *)
Form == Here.whole /\ ~Here.reloads

(* No change of this card is applied where the card looks and unanswered.   *)
Undisturbed == \A w \in Own : ~(w.applied /\ w.site = Watched)

(* What was read, or is shown, is what is stored, until an answer tells the *)
(* card otherwise.                                                         *)
ReadIsFresh ==
    /\ get.read => get.on
    /\ ~behind /\ get.read /\ Undisturbed => get.value = stored[get.site]
    /\ ~Form /\ ~behind /\ ~get.on /\ shown.loaded /\ Undisturbed =>
          shown.value = stored[shown.site]

(* A form shows what was typed, and has at most one change under way that  *)
(* makes this the stored value.                                            *)
FormFollows == Form =>
    /\ get.on => ~shown.loaded
    /\ get.on \/ ~shown.loaded => Own = {}
    /\ ~behind /\ shown.loaded /\ ~get.on =>
          /\ \A u, w \in Own : u = w
          /\ \A w \in Own :
                /\ w.site = shown.site /\ w.sets = shown.value
                /\ w.applied => stored[shown.site] = shown.value
          /\ Own = {} => stored[shown.site] = shown.value

(* An analytics page is asked for, and shows, what its route says.         *)
FollowsRoute == Here.reactive =>
    /\ get.on => get.site = route.site /\ get.q = Asked(route.card, route.q)
    /\ ~get.on /\ shown.loaded => shown.site = route.site /\ shown.q = Asked(route.card, route.q)

(* A change that was made at rest is the only one.                         *)
CalmIsAlone == \A w, u \in writes : w.calm => u = w

(* Only live pages have auto-refresh.                                      *)
LoopsAreLive == loops # {} => Here.live

DashInv ==
    /\ DashTypeOK /\ ReadIsFresh /\ FormFollows /\ FollowsRoute /\ CalmIsAlone /\ LoopsAreLive
    /\ CalmChangesAreExact
-----------------------------------------------------------------------------
(* What the components of the pages have in common. *)
Traits == [scoped : BOOLEAN, queried : BOOLEAN, reactive : BOOLEAN, live : BOOLEAN, edits : BOOLEAN,
           whole : BOOLEAN, reloads : BOOLEAN, leaves : {"", "Funnels", "SitesIndex", "SiteOverview"}]

LEMMA Kinds ==
    ASSUME NEW c \in DOMAIN Component
    PROVE  /\ Component[c].leaves \in DOMAIN Component \cup {""}
           /\ Component[c].live => Component[c].reactive /\ Component[c].reloads
           /\ Component[c].leaves = "" /\ ~Component[c].reloads => Component[c].whole
           /\ Component[c].whole /\ ~Component[c].reloads =>
                 /\ ~Component[c].reactive /\ ~Component[c].live /\ ~Component[c].queried
                 /\ Component[c].leaves = ""
<1> DEFINE Fine(k) ==
      /\ k \in Traits
      /\ k.live => k.reactive /\ k.reloads
      /\ k.leaves = "" /\ ~k.reloads => k.whole
      /\ k.whole /\ ~k.reloads => ~k.reactive /\ ~k.live /\ ~k.queried /\ k.leaves = ""
<1>1. Fine(Managed) /\ ~Managed.queried /\ ~Managed.reactive /\ ~Managed.live /\ Managed.reloads
      /\ ~Managed.whole /\ Managed.leaves = ""
  BY DEF Managed, Traits
<1>2. Fine(Insight) /\ Insight.reactive /\ ~Insight.whole
  BY <1>1 DEF Insight, Traits
<1>3. Fine(FunnelDetail)
  BY <1>2 DEF FunnelDetail, Traits
<1>4. Fine(Funnels) /\ Fine(SiteSettings) /\ Fine(SitesIndex) /\ Fine(Keys)
  <2>1. Fine(Funnels)
    BY <1>1 DEF Funnels, Traits
  <2>2. Fine(SiteSettings)
    BY <1>1 DEF SiteSettings, Traits
  <2>3. Fine(SitesIndex)
    BY <1>1 DEF SitesIndex, Traits
  <2>4. Fine(Keys)
    BY <1>1 DEF Keys, Traits
  <2> QED
    BY <2>1, <2>2, <2>3, <2>4
<1>5. Fine(DigestCard) /\ ~DigestCard.queried /\ ~DigestCard.reactive /\ ~DigestCard.live /\ DigestCard.leaves = ""
      /\ DigestCard.whole
  BY <1>1 DEF DigestCard, Traits
<1>6. Fine(GeneralCard)
  BY <1>5 DEF GeneralCard, Traits
<1> HIDE DEF Fine
<1>7. DOMAIN Component =
        {"SiteOverview", "BreakdownPanel", "EntryExitPanel", "Events", "Campaigns", "FunnelDetail",
         "Funnels", "AlertsCard", "SiteKeys", "NotificationDestinations", "DigestCard", "GeneralCard",
         "SiteSettings", "SitesIndex", "Keys"}
  BY DEF Component
<1>8. Component[c] \in {Managed, Insight, FunnelDetail, Funnels, SiteSettings, SitesIndex, Keys,
                       DigestCard, GeneralCard}
  BY <1>7 DEF Component, SiteOverview, BreakdownPanel, EntryExitPanel, Events, Campaigns,
              AlertsCard, SiteKeys, NotificationDestinations
<1>9. Fine(Component[c])
  BY <1>1, <1>2, <1>3, <1>4, <1>5, <1>6, <1>8
<1> QED
  BY <1>7, <1>9 DEF Fine, Traits

LEMMA QueriesTyped ==
    /\ NoQuery \in DashQuery
    /\ \A q \in DashQuery : range_only(q) \in DashQuery /\ [NoQuery EXCEPT !.range = "7d"] \in DashQuery
    /\ \A q \in DashQuery : \A card : Asked(card, q) \in DashQuery
<1>1. NoQuery \in DashQuery
  BY DEF NoQuery, DashQuery
<1>2. \A q \in DashQuery : range_only(q) \in DashQuery /\ [NoQuery EXCEPT !.range = "7d"] \in DashQuery
  BY DEF NoQuery, DashQuery, range_only
<1> QED
  BY <1>1, <1>2 DEF Asked

LEMMA LoadTyped ==
    ASSUME NEW site \in Place, NEW q \in DashQuery
    PROVE  /\ Load(site, q) \in [on : BOOLEAN, read : BOOLEAN, site : Place, q : DashQuery,
                                 value : Values, age : Nat]
           /\ Load(site, q).on /\ ~Load(site, q).read
           /\ Load(site, q).site = site /\ Load(site, q).q = q
  BY QueriesTyped DEF Load, NoGet, Blank, Values, Place

LEMMA NothingTyped ==
    /\ Nothing \in [loaded : BOOLEAN, site : Place, q : DashQuery, value : Values]
    /\ NoGet \in [on : BOOLEAN, read : BOOLEAN, site : Place, q : DashQuery, value : Values, age : Nat]
    /\ ~Nothing.loaded /\ ~NoGet.on /\ ~NoGet.read
  BY QueriesTyped DEF Nothing, NoGet, Blank, Values, Place
-----------------------------------------------------------------------------
(* The loops a page starts, and the requests. *)
Loops == [left : Nat, current : BOOLEAN]

LEMMA LoopsTyped ==
    ASSUME interval \in Intervals, NEW card \in DOMAIN Component
    PROVE  /\ Started(card) \subseteq Loops
           /\ Started(card) # {} => Component[card].live
<1>1. interval \in Nat
  BY BoundsAssumption
<1>2. Sleeping(interval) \in Loops
  BY <1>1 DEF Sleeping, Loops
<1> QED
  BY <1>2 DEF Started

LEMMA HereTyped ==
    ASSUME DashTypeOK
    PROVE  route.card \in DOMAIN Component /\ route.site \in Place /\ route.q \in DashQuery
  BY DEF DashTypeOK

(* A page is left for another: its own changes become nobody's, and what   *)
(* the new page shows is still to be read.                                 *)
LEMMA MountKeeps ==
    ASSUME DashInv, NEW card \in DOMAIN Component, NEW site \in Place, NEW q \in DashQuery,
           NEW rest \in SUBSET writes, Mount(card, site, q, rest),
           UNCHANGED <<stored, interval, behind, edits, faults>>, moves' \in Nat
    PROVE  DashInv'
<1> DEFINE s == IF Component[card].scoped THEN site ELSE Org
           p == IF Component[card].queried THEN q ELSE NoQuery
<1>1. s \in Place /\ p \in DashQuery /\ Asked(card, p) \in DashQuery
  BY QueriesTyped DEF Place
<1>2. /\ route' = [card |-> card, site |-> s, q |-> p] /\ mounted' = s
      /\ shown' = Nothing /\ get' = Load(s, Asked(card, p))
      /\ writes' = {[w EXCEPT !.alive = FALSE] : w \in {v \in rest : ~v.applied}}
      /\ loops' = Started(card)
  BY DEF Mount
<1> HIDE DEF s, p
<1>3. /\ get' \in [on : BOOLEAN, read : BOOLEAN, site : Place, q : DashQuery, value : Values, age : Nat]
      /\ get'.on /\ ~get'.read /\ get'.site = s /\ get'.q = Asked(card, p)
  BY <1>1, <1>2, LoadTyped
<1>4. /\ route' \in [card : DOMAIN Component, site : Place, q : DashQuery]
      /\ route'.card = card /\ route'.site = s /\ route'.q = p
  BY <1>1, <1>2
<1>5. /\ shown' \in [loaded : BOOLEAN, site : Place, q : DashQuery, value : Values] /\ ~shown'.loaded
  BY <1>2, NothingTyped
<1>6. ASSUME NEW w \in writes'
      PROVE  \E v \in rest : /\ ~v.applied /\ v \in writes /\ w = [v EXCEPT !.alive = FALSE]
                             /\ ~w.alive /\ ~w.applied /\ w.calm = v.calm /\ w.site = v.site /\ w.of = v.of
                             /\ w.sets = v.sets /\ w.field = v.field
                             /\ w \in [site : Place, of : Place, field : Fields, sets : {w.sets},
                                       alive : BOOLEAN, applied : BOOLEAN, calm : BOOLEAN]
  <2>1. PICK v \in rest : ~v.applied /\ w = [v EXCEPT !.alive = FALSE]
    BY <1>2
  <2>2. v \in [site : Place, of : Place, field : Fields, sets : {v.sets},
               alive : BOOLEAN, applied : BOOLEAN, calm : BOOLEAN]
    BY DEF DashInv, DashTypeOK
  <2> QED
    BY <2>1, <2>2
<1>7. loops' \subseteq Loops /\ (loops' # {} => Component[card].live)
  BY <1>2, LoopsTyped DEF DashInv, DashTypeOK
<1>8. DashTypeOK'
  <2>1. \A w \in writes' :
           /\ w \in [site : Place, of : Place, field : Fields, sets : {w.sets},
                    alive : BOOLEAN, applied : BOOLEAN, calm : BOOLEAN]
           /\ DOMAIN w.sets \subseteq Fields /\ w.sets \in [DOMAIN w.sets -> Nat]
    BY <1>6 DEF DashInv, DashTypeOK
  <2> QED
    BY <1>1, <1>2, <1>3, <1>4, <1>5, <1>7, <2>1 DEF DashInv, DashTypeOK, Loops
<1>9. Own' = {}
  BY <1>6 DEF Own
<1>10. ReadIsFresh' /\ FormFollows'
  BY <1>3, <1>5, <1>9 DEF ReadIsFresh, FormFollows
<1>11. FollowsRoute' /\ LoopsAreLive'
  BY <1>3, <1>4, <1>7 DEF FollowsRoute, LoopsAreLive, Here
<1>12. CalmIsAlone'
  <2> SUFFICES ASSUME NEW w \in writes', NEW u \in writes', w.calm PROVE u = w
    BY DEF CalmIsAlone
  <2>1. PICK v \in writes : w = [v EXCEPT !.alive = FALSE] /\ w.calm = v.calm
    BY <1>6
  <2>2. PICK x \in writes : u = [x EXCEPT !.alive = FALSE]
    BY <1>6
  <2> QED
    BY <2>1, <2>2 DEF DashInv, CalmIsAlone
<1>13. CalmChangesAreExact'
  <2> SUFFICES ASSUME NEW w \in writes', w.calm
               PROVE  /\ w.site = w.of
                      /\ \A f \in DOMAIN w.sets \ {w.field} : w.sets[f] = stored[w.site][f]
    BY DEF CalmChangesAreExact
  <2>1. PICK v \in writes : /\ ~v.applied /\ w.calm = v.calm /\ w.site = v.site /\ w.of = v.of
                            /\ w.sets = v.sets /\ w.field = v.field
    BY <1>6
  <2> QED
    BY <2>1 DEF DashInv, CalmChangesAreExact
<1> QED
  BY <1>8, <1>10, <1>11, <1>12, <1>13 DEF DashInv

LEMMA NavigateKeeps == ASSUME DashInv, Navigate PROVE DashInv'
<1> USE HereTyped, QueriesTyped DEF DashInv
<1>1. moves' \in Nat /\ UNCHANGED <<stored, interval, behind, edits, faults>>
  BY DEF Navigate, Moves, DashTypeOK
<1>2. ASSUME NEW card \in Visited, SiteTabs(card) PROVE DashInv'
  BY <1>1, <1>2, MountKeeps, VisitedAssumption DEF SiteTabs
<1>3. ASSUME NEW card \in Visited, Sidebar(card) PROVE DashInv'
  BY <1>1, <1>3, MountKeeps, VisitedAssumption DEF Sidebar, Place
<1>4. ASSUME NEW s \in Sites, "SiteOverview" \in Visited, SiteCard(s) PROVE DashInv'
  BY <1>1, <1>4, MountKeeps, VisitedAssumption DEF SiteCard, Place
<1>5. ASSUME "FunnelDetail" \in Visited, OpenFunnel PROVE DashInv'
  BY <1>1, <1>5, MountKeeps, VisitedAssumption DEF OpenFunnel
<1> QED
  BY <1>2, <1>3, <1>4, <1>5 DEF Navigate

(* A form is on no page that has a query, and is not reactive.             *)
LEMMA FormIsPlain ==
    ASSUME DashInv, Form
    PROVE  ~Here.reactive /\ ~Here.live /\ ~Here.queried /\ Here.leaves = "" /\ loops = {}
  BY Kinds, HereTyped DEF Form, Here, DashInv, LoopsAreLive

(* The same card on another route, with the request of the old one or with *)
(* a new one.                                                              *)
LEMMA RouteChangeKeeps ==
    ASSUME DashInv, route'.card = route.card, route' \in [card : DOMAIN Component, site : Place, q : DashQuery],
           moves' \in Nat, UNCHANGED <<stored, mounted, shown, writes, interval, loops, behind, edits, faults>>,
           \/ ~Form /\ get' = Load(route'.site, Asked(route'.card, route'.q))
           \/ /\ get' = get
              /\ Here.reactive => /\ route'.site = route.site
                                  /\ Asked(route'.card, route'.q) = Asked(route.card, route.q)
    PROVE  DashInv'
<1> USE DEF DashInv
<1>1. CASE /\ get' = get
           /\ Here.reactive => /\ route'.site = route.site
                               /\ Asked(route'.card, route'.q) = Asked(route.card, route.q)
  <2>1. DashTypeOK'
    BY <1>1 DEF DashTypeOK
  <2>2. Here' = Here /\ (Form' <=> Form) /\ Own' = Own /\ Watched' = Watched
    BY <1>1 DEF Here, Form, Own, Watched
  <2>3. ReadIsFresh' /\ FormFollows' /\ CalmIsAlone' /\ LoopsAreLive' /\ CalmChangesAreExact'
    BY <1>1, <2>2 DEF ReadIsFresh, Undisturbed, FormFollows, CalmIsAlone, LoopsAreLive, CalmChangesAreExact
  <2>4. FollowsRoute'
    BY <1>1, <2>2 DEF FollowsRoute
  <2> QED
    BY <2>1, <2>3, <2>4
<1>2. CASE ~Form /\ get' = Load(route'.site, Asked(route'.card, route'.q))
  <2>1. /\ get' \in [on : BOOLEAN, read : BOOLEAN, site : Place, q : DashQuery, value : Values, age : Nat]
        /\ get'.on /\ ~get'.read
        /\ get'.site = route'.site /\ get'.q = Asked(route'.card, route'.q)
    BY <1>2, LoadTyped, QueriesTyped
  <2>2. DashTypeOK'
    BY <2>1 DEF DashTypeOK
  <2>3. Here' = Here /\ ~Form' /\ Own' = Own
    BY <1>2 DEF Here, Form, Own
  <2>4. ReadIsFresh' /\ FormFollows' /\ FollowsRoute'
    BY <2>1, <2>3 DEF ReadIsFresh, FormFollows, FollowsRoute
  <2>5. CalmIsAlone' /\ LoopsAreLive' /\ CalmChangesAreExact'
    BY <2>3 DEF CalmIsAlone, LoopsAreLive, CalmChangesAreExact
  <2> QED
    BY <2>2, <2>4, <2>5
<1> QED
  BY <1>1, <1>2

LEMMA WithQueryKeeps == ASSUME DashInv, NEW q \in DashQuery, with_query(q) PROVE DashInv'
<1>1. /\ route' \in [card : DOMAIN Component, site : Place, q : DashQuery]
      /\ route'.card = route.card /\ route'.site = route.site /\ route'.q = q
  BY DEF with_query, DashInv, DashTypeOK
<1>2. ~Form
  BY FormIsPlain DEF with_query
<1>3. moves' \in Nat
  BY DEF with_query, Moves, DashInv, DashTypeOK
<1>4. \/ get' = Load(route.site, Asked(route.card, q))
      \/ get' = get /\ (Here.reactive => Asked(route.card, q) = Asked(route.card, route.q))
  BY DEF with_query
<1>5. UNCHANGED <<stored, mounted, shown, writes, interval, loops, behind, edits, faults>>
  BY DEF with_query
<1> QED
  BY <1>1, <1>2, <1>3, <1>4, <1>5, RouteChangeKeeps

LEMMA HistoryJumpKeeps == ASSUME DashInv, NEW s \in Sites, HistoryJump(s) PROVE DashInv'
<1>1. /\ route' \in [card : DOMAIN Component, site : Place, q : DashQuery]
      /\ route'.card = route.card /\ route'.site = s /\ route'.q = route.q
  BY DEF HistoryJump, DashInv, DashTypeOK, Place
<1>2. moves' \in Nat
  BY DEF HistoryJump, Moves, DashInv, DashTypeOK
<1>3. IF Here.reactive THEN get' = Load(s, Asked(route.card, route.q)) ELSE get' = get
  BY DEF HistoryJump
<1>4. UNCHANGED <<stored, mounted, shown, writes, interval, loops, behind, edits, faults>>
  BY DEF HistoryJump
<1>5. Here.reactive => ~Form
  BY FormIsPlain
<1> QED
  BY <1>1, <1>2, <1>3, <1>4, <1>5, RouteChangeKeeps
-----------------------------------------------------------------------------
LEMMA ServerReadsKeeps == ASSUME DashInv, ServerReads PROVE DashInv'
<1> USE DEF DashInv
<1>1. /\ get.on /\ ~get.read /\ get' = [get EXCEPT !.read = TRUE, !.value = stored[get.site]] /\ behind' = FALSE
      /\ UNCHANGED <<stored, route, mounted, shown, writes, interval, loops, edits, moves, faults>>
  BY DEF ServerReads
<1>2. /\ get' \in [on : BOOLEAN, read : BOOLEAN, site : Place, q : DashQuery, value : Values, age : Nat]
      /\ get'.on /\ get'.site = get.site /\ get'.q = get.q /\ get'.value = stored[get.site]
  BY <1>1 DEF DashTypeOK
<1>3. DashTypeOK'
  BY <1>1, <1>2 DEF DashTypeOK
<1>4. Here' = Here /\ (Form' <=> Form) /\ Own' = Own
  BY <1>1 DEF Here, Form, Own
<1>5. ReadIsFresh' /\ FormFollows' /\ FollowsRoute'
  BY <1>1, <1>2, <1>4 DEF ReadIsFresh, FormFollows, FollowsRoute
<1>6. CalmIsAlone' /\ LoopsAreLive' /\ CalmChangesAreExact'
  BY <1>1, <1>4 DEF CalmIsAlone, LoopsAreLive, CalmChangesAreExact
<1> QED
  BY <1>3, <1>5, <1>6

LEMMA GetJsonKeeps == ASSUME DashInv, get_json PROVE DashInv'
<1> USE DEF DashInv
<1>1. /\ get.read /\ get' = NoGet
      /\ shown' = [loaded |-> TRUE, site |-> get.site, q |-> get.q, value |-> get.value]
      /\ UNCHANGED <<stored, route, mounted, writes, interval, loops, behind, edits, moves, faults>>
  BY DEF get_json
<1>2. /\ shown' \in [loaded : BOOLEAN, site : Place, q : DashQuery, value : Values]
      /\ shown'.loaded /\ shown'.site = get.site /\ shown'.q = get.q /\ shown'.value = get.value
  BY <1>1 DEF DashTypeOK
<1>3. /\ get' \in [on : BOOLEAN, read : BOOLEAN, site : Place, q : DashQuery, value : Values, age : Nat]
      /\ ~get'.on /\ ~get'.read /\ get.on
  BY <1>1, NothingTyped DEF ReadIsFresh
<1>4. DashTypeOK'
  BY <1>1, <1>2, <1>3 DEF DashTypeOK
<1>5. Here' = Here /\ (Form' <=> Form) /\ Own' = Own /\ Watched' = Watched
  BY <1>1, <1>2, <1>3 DEF Here, Form, Own, Watched
<1>6. ~behind /\ Undisturbed => get.value = stored[get.site]
  BY <1>1 DEF ReadIsFresh
<1>7. Undisturbed' <=> Undisturbed
  BY <1>5 DEF Undisturbed
<1>8. ReadIsFresh' /\ FollowsRoute'
  BY <1>1, <1>2, <1>3, <1>5, <1>6, <1>7 DEF ReadIsFresh, FollowsRoute
<1>9. FormFollows'
  <2> SUFFICES ASSUME Form PROVE FormFollows'
    BY <1>5 DEF FormFollows
  <2>1. Own = {}
    BY <1>3 DEF FormFollows
  <2>2. Undisturbed
    BY <2>1 DEF Undisturbed
  <2> QED
    BY <1>1, <1>2, <1>3, <1>5, <1>6, <2>1, <2>2 DEF FormFollows
<1>10. CalmIsAlone' /\ LoopsAreLive' /\ CalmChangesAreExact'
  BY <1>1, <1>5 DEF CalmIsAlone, LoopsAreLive, CalmChangesAreExact
<1> QED
  BY <1>4, <1>8, <1>9, <1>10

LEMMA GetFailsKeeps == ASSUME DashInv, GetFails PROVE DashInv'
<1> USE DEF DashInv
<1>1. /\ get.on /\ faults' \in Nat /\ get' = NoGet /\ shown' = Nothing
      /\ UNCHANGED <<stored, route, mounted, writes, interval, loops, behind, edits, moves>>
  BY DEF GetFails, DashTypeOK
<1>2. DashTypeOK'
  BY <1>1, NothingTyped DEF DashTypeOK
<1>3. Here' = Here /\ (Form' <=> Form) /\ Own' = Own
  BY <1>1 DEF Here, Form, Own
<1>4. ReadIsFresh' /\ FollowsRoute' /\ FormFollows'
  BY <1>1, <1>3, NothingTyped DEF ReadIsFresh, FollowsRoute, FormFollows
<1>5. CalmIsAlone' /\ LoopsAreLive' /\ CalmChangesAreExact'
  BY <1>1, <1>3 DEF CalmIsAlone, LoopsAreLive, CalmChangesAreExact
<1> QED
  BY <1>2, <1>4, <1>5

(* A card at rest shows what is stored. *)
LEMMA SettledShowsStored ==
    ASSUME DashInv, Settled, ~behind
    PROVE  shown.value = stored[shown.site]
<1>1. Undisturbed
  BY DEF Settled, Undisturbed
<1>2. CASE Form
  BY <1>2 DEF DashInv, FormFollows, Settled
<1>3. CASE ~Form
  BY <1>1, <1>3 DEF DashInv, ReadIsFresh, Settled
<1> QED
  BY <1>2, <1>3

LEMMA BodyTyped ==
    ASSUME DashTypeOK, NEW f \in Fields
    PROVE  /\ DOMAIN Body(f) \subseteq Fields /\ Body(f) \in [DOMAIN Body(f) -> Nat]
           /\ Here.whole => Body(f) \in Values
           /\ \A g \in DOMAIN Body(f) \ {f} : Here.whole /\ Body(f)[g] = shown.value[g]
<1>1. shown.value \in [Fields -> Nat] /\ edits + 1 \in Nat
  BY DEF DashTypeOK, Values
<1>2. CASE Here.whole
  <2>1. Body(f) = [shown.value EXCEPT ![f] = edits + 1]
    BY <1>2 DEF Body
  <2>2. Body(f) \in [Fields -> Nat] /\ \A g \in Fields \ {f} : Body(f)[g] = shown.value[g]
    BY <1>1, <2>1
  <2> QED
    BY <1>2, <2>2 DEF Values
<1>3. CASE ~Here.whole
  <2>1. Body(f) = [g \in {f} |-> edits + 1]
    BY <1>3 DEF Body
  <2> QED
    BY <1>1, <1>3, <2>1
<1> QED
  BY <1>2, <1>3

(* Earlier changes are no longer the only ones. *)
LEMMA RuffledTyped ==
    ASSUME DashTypeOK, NEW w \in Ruffled
    PROVE  \E v \in writes :
             /\ w = [v EXCEPT !.calm = FALSE] /\ ~w.calm
             /\ w \in [site : Place, of : Place, field : Fields, sets : {w.sets},
                       alive : BOOLEAN, applied : BOOLEAN, calm : BOOLEAN]
             /\ w.sets = v.sets /\ w.site = v.site /\ w.alive = v.alive /\ w.applied = v.applied
<1>1. PICK v \in writes : w = [v EXCEPT !.calm = FALSE]
  BY DEF Ruffled
<1>2. v \in [site : Place, of : Place, field : Fields, sets : {v.sets},
             alive : BOOLEAN, applied : BOOLEAN, calm : BOOLEAN]
  BY DEF DashTypeOK
<1> QED
  BY <1>1, <1>2

LEMMA ChangeKeeps == ASSUME DashInv, NEW f \in Fields, Change(f) PROVE DashInv'
<1> USE DEF DashInv
<1> DEFINE new == [site |-> route.site, of |-> IF shown.loaded THEN shown.site ELSE route.site, field |-> f,
                   sets |-> Body(f), alive |-> TRUE, applied |-> FALSE, calm |-> Calm]
<1>1. /\ Here.whole => shown.loaded
      /\ edits' \in Nat /\ writes' = Ruffled \cup {new}
      /\ UNCHANGED <<stored, route, mounted, get, interval, loops, moves, faults>>
  BY DEF Change, DashTypeOK
<1>2. IF Form THEN /\ shown' = [shown EXCEPT !.value = Body(f)]
                   /\ behind' = (behind \/ writes # {} \/ shown.site # route.site)
              ELSE UNCHANGED <<shown, behind>>
  BY DEF Change, Form
<1>3. Calm \in BOOLEAN
  BY DEF Calm, Settled
<1>4. /\ new \in [site : Place, of : Place, field : Fields, sets : {new.sets},
                  alive : BOOLEAN, applied : BOOLEAN, calm : BOOLEAN]
      /\ new.sets = Body(f) /\ new.alive /\ ~new.applied /\ new.site = route.site /\ new.field = f
      /\ new.of = (IF shown.loaded THEN shown.site ELSE route.site) /\ new.calm = Calm
  BY <1>3, HereTyped DEF DashTypeOK
<1> HIDE DEF new
<1>5. /\ shown' \in [loaded : BOOLEAN, site : Place, q : DashQuery, value : Values]
      /\ shown'.loaded = shown.loaded /\ shown'.site = shown.site /\ shown'.q = shown.q
      /\ Form => shown'.value = Body(f)
      /\ ~Form => shown' = shown
      /\ behind' \in BOOLEAN
  BY <1>2, BodyTyped DEF DashTypeOK, Form
<1>6. DashTypeOK'
  <2>1. \A w \in writes' :
           /\ w \in [site : Place, of : Place, field : Fields, sets : {w.sets},
                    alive : BOOLEAN, applied : BOOLEAN, calm : BOOLEAN]
           /\ DOMAIN w.sets \subseteq Fields /\ w.sets \in [DOMAIN w.sets -> Nat]
    <3> SUFFICES ASSUME NEW w \in writes'
                 PROVE  /\ w \in [site : Place, of : Place, field : Fields, sets : {w.sets},
                                 alive : BOOLEAN, applied : BOOLEAN, calm : BOOLEAN]
                        /\ DOMAIN w.sets \subseteq Fields /\ w.sets \in [DOMAIN w.sets -> Nat]
      OBVIOUS
    <3>1. CASE w = new
      BY <1>4, <3>1, BodyTyped
    <3>2. CASE w \in Ruffled
      <4>1. PICK v \in writes :
              /\ w \in [site : Place, of : Place, field : Fields, sets : {w.sets},
                       alive : BOOLEAN, applied : BOOLEAN, calm : BOOLEAN]
              /\ w.sets = v.sets
        BY <3>2, RuffledTyped
      <4> QED
        BY <4>1 DEF DashTypeOK
    <3> QED
      BY <1>1, <3>1, <3>2
  <2> QED
    BY <1>1, <1>5, <2>1 DEF DashTypeOK
<1>7. Here' = Here /\ (Form' <=> Form) /\ Watched' = Watched
  BY <1>1, <1>5 DEF Here, Form, Watched
<1>8. Undisturbed' => Undisturbed
  <2> SUFFICES ASSUME Undisturbed', NEW w \in Own, w.applied, w.site = Watched PROVE FALSE
    BY DEF Undisturbed
  <2>1. w \in [site : Place, of : Place, field : Fields, sets : {w.sets},
               alive : BOOLEAN, applied : BOOLEAN, calm : BOOLEAN]
    BY DEF Own, DashTypeOK
  <2>2. [w EXCEPT !.calm = FALSE] \in Own'
    BY <1>1, <2>1 DEF Ruffled, Own
  <2> QED
    BY <1>7, <2>1, <2>2 DEF Undisturbed
<1>9. Form => shown.loaded /\ ~get.on
  BY <1>1 DEF Form, FormFollows
<1>10. ReadIsFresh'
  BY <1>1, <1>2, <1>5, <1>7, <1>8, <1>9 DEF ReadIsFresh
<1>11. FollowsRoute' /\ LoopsAreLive'
  BY <1>1, <1>5, <1>7 DEF FollowsRoute, LoopsAreLive
<1>12. FormFollows'
  <2> SUFFICES ASSUME Form, ~behind' PROVE Own' = {new} /\ new.site = shown.site
    BY <1>1, <1>4, <1>5, <1>7, <1>9 DEF FormFollows
  <2>1. writes = {} /\ shown.site = route.site
    BY <1>2
  <2> QED
    BY <1>1, <1>4, <2>1 DEF Ruffled, Own
<1>13. \A w \in writes' : w.calm => w = new /\ Calm
  BY <1>1, <1>4, RuffledTyped
<1>14. CalmIsAlone'
  <2> SUFFICES ASSUME Calm PROVE writes' = {new}
    BY <1>13 DEF CalmIsAlone
  <2> QED
    BY <1>1 DEF Calm, Ruffled
<1>15. CalmChangesAreExact'
  <2> SUFFICES ASSUME Calm
               PROVE  /\ new.site = new.of
                      /\ \A g \in DOMAIN new.sets \ {f} : new.sets[g] = stored[new.site][g]
    BY <1>1, <1>4, <1>13 DEF CalmChangesAreExact
  <2>1. shown.loaded /\ shown.site = route.site /\ shown.value = stored[shown.site]
    BY SettledShowsStored DEF Calm, Settled
  <2> QED
    BY <1>4, <2>1, BodyTyped
<1> QED
  BY <1>6, <1>10, <1>11, <1>12, <1>14, <1>15

LEMMA WriteTyped ==
    ASSUME DashTypeOK, NEW w \in writes
    PROVE  /\ w \in [site : Place, of : Place, field : Fields, sets : {w.sets},
                    alive : BOOLEAN, applied : BOOLEAN, calm : BOOLEAN]
           /\ DOMAIN w.sets \subseteq Fields /\ w.sets \in [DOMAIN w.sets -> Nat]
  BY DEF DashTypeOK

(* What a change that arrives does to what is stored. *)
LEMMA StoredTyped ==
    ASSUME DashTypeOK, NEW w \in writes, Applied(w)
    PROVE  /\ stored' \in [Place -> Values]
           /\ \A s \in Place : s # w.site => stored'[s] = stored[s]
           /\ w.sets \in Values => stored'[w.site] = w.sets
<1> DEFINE merged == [f \in Fields |-> IF f \in DOMAIN w.sets THEN w.sets[f] ELSE stored[w.site][f]]
<1>1. stored' = [stored EXCEPT ![w.site] = merged]
  BY DEF Applied
<1>2. stored[w.site] \in [Fields -> Nat] /\ w.site \in Place
  BY WriteTyped DEF DashTypeOK, Values
<1>3. merged \in [Fields -> Nat]
  BY <1>2, WriteTyped
<1>4. w.sets \in [Fields -> Nat] => merged = w.sets
  OBVIOUS
<1> HIDE DEF merged
<1> QED
  BY <1>1, <1>2, <1>3, <1>4 DEF DashTypeOK, Values

LEMMA OwnAppliedKeeps == ASSUME DashInv, NEW w \in writes, Applied(w), w.alive PROVE DashInv'
<1> USE DEF DashInv
<1> DEFINE done == [w EXCEPT !.applied = TRUE]
<1>1. /\ ~w.applied /\ writes' = (writes \ {w}) \cup {done}
      /\ UNCHANGED <<behind, route, mounted, shown, get, interval, loops, edits, moves, faults>>
  BY DEF Applied
<1>2. /\ done \in [site : Place, of : Place, field : Fields, sets : {done.sets},
                   alive : BOOLEAN, applied : BOOLEAN, calm : BOOLEAN]
      /\ done.sets = w.sets /\ done.alive /\ done.applied /\ done.site = w.site /\ done.calm = w.calm
  BY WriteTyped
<1> HIDE DEF done
<1>3. DashTypeOK'
  <2>1. \A v \in writes' :
           /\ v \in [site : Place, of : Place, field : Fields, sets : {v.sets},
                    alive : BOOLEAN, applied : BOOLEAN, calm : BOOLEAN]
           /\ DOMAIN v.sets \subseteq Fields /\ v.sets \in [DOMAIN v.sets -> Nat]
    BY <1>1, <1>2, WriteTyped
  <2> QED
    BY <1>1, <2>1, StoredTyped DEF DashTypeOK
<1>4. Here' = Here /\ (Form' <=> Form) /\ Watched' = Watched /\ Own' = (Own \ {w}) \cup {done}
  BY <1>1, <1>2 DEF Here, Form, Watched, Own
<1>5. Undisturbed' => Undisturbed /\ w.site # Watched
  BY <1>1, <1>2, <1>4 DEF Undisturbed
<1>6. get.site \in Place /\ shown.site \in Place
  BY DEF DashTypeOK
<1>7. ReadIsFresh'
  BY <1>1, <1>4, <1>5, <1>6, StoredTyped DEF ReadIsFresh, Watched
<1>8. FollowsRoute' /\ LoopsAreLive'
  BY <1>1, <1>4 DEF FollowsRoute, LoopsAreLive
<1>9. FormFollows'
  <2> SUFFICES ASSUME Form PROVE FormFollows'
    BY <1>4 DEF FormFollows
  <2>1. w \in Own
    BY DEF Own
  <2>2. ~get.on /\ shown.loaded
    BY <2>1 DEF FormFollows
  <2> SUFFICES ASSUME ~behind
               PROVE  /\ Own' = {done} /\ done.site = shown.site /\ done.sets = shown.value
                      /\ stored'[shown.site] = shown.value
    BY <1>1, <1>4, <2>2 DEF FormFollows
  <2>3. Own = {w} /\ w.site = shown.site /\ w.sets = shown.value
    BY <2>1, <2>2 DEF FormFollows
  <2>4. stored'[w.site] = w.sets
    BY <2>3, StoredTyped DEF DashTypeOK
  <2> QED
    BY <1>2, <1>4, <2>3, <2>4
<1>10. CalmIsAlone' /\ CalmChangesAreExact'
  BY <1>1, <1>2 DEF CalmIsAlone, CalmChangesAreExact
<1> QED
  BY <1>3, <1>7, <1>8, <1>9, <1>10

(* A change of a page that has been left arrives. *)
LEMMA LateAppliedKeeps == ASSUME DashInv, NEW w \in writes, Applied(w), ~w.alive PROVE DashInv'
<1> USE DEF DashInv
<1>1. /\ writes' = writes \ {w} /\ behind' = (behind \/ w.site = Watched)
      /\ UNCHANGED <<route, mounted, shown, get, interval, loops, edits, moves, faults>>
  BY DEF Applied
<1>2. DashTypeOK'
  BY <1>1, StoredTyped DEF DashTypeOK
<1>3. Here' = Here /\ (Form' <=> Form) /\ Watched' = Watched /\ Own' = Own
  BY <1>1 DEF Here, Form, Watched, Own
<1>4. Undisturbed' <=> Undisturbed
  BY <1>3 DEF Undisturbed
<1>5. ~behind' => ~behind /\ (get.on => stored'[get.site] = stored[get.site])
                          /\ (~get.on => stored'[shown.site] = stored[shown.site])
  BY <1>1, StoredTyped DEF DashTypeOK, Watched
<1>6. ReadIsFresh' /\ FormFollows'
  BY <1>1, <1>3, <1>4, <1>5 DEF ReadIsFresh, FormFollows
<1>7. FollowsRoute' /\ LoopsAreLive'
  BY <1>1, <1>3 DEF FollowsRoute, LoopsAreLive
<1>8. CalmIsAlone' /\ CalmChangesAreExact'
  BY <1>1 DEF CalmIsAlone, CalmChangesAreExact
<1> QED
  BY <1>2, <1>6, <1>7, <1>8

LEMMA AnsweredKeeps == ASSUME DashInv, NEW w \in writes, Answered(w) PROVE DashInv'
<1> USE DEF DashInv
<1>1. w.alive /\ w.applied /\ UNCHANGED <<stored, interval, behind, edits, moves, faults>> /\ moves' \in Nat
  BY DEF Answered, DashTypeOK
<1>2. CASE Here.leaves # ""
  <2>1. PICK s \in IF route.card = "SitesIndex" THEN Sites ELSE {w.site} :
          Mount(Here.leaves, s, range_only(route.q), writes \ {w})
    BY <1>2 DEF Answered
  <2>2. s \in Place /\ Here.leaves \in DOMAIN Component /\ range_only(route.q) \in DashQuery
    BY <1>2, WriteTyped, Kinds, HereTyped, QueriesTyped DEF Here, Place
  <2> QED
    BY <1>1, <2>1, <2>2, MountKeeps
<1>3. CASE Here.leaves = ""
  <2>1. /\ writes' = writes \ {w} /\ UNCHANGED <<route, mounted, shown, loops>>
        /\ IF Here.reloads THEN Reload ELSE UNCHANGED get
    BY <1>3 DEF Answered
  <2>2. Here' = Here /\ (Form' <=> Form) /\ Own' = Own \ {w} /\ w \in Own
    BY <1>1, <2>1 DEF Here, Form, Own
  <2>3. CalmIsAlone' /\ CalmChangesAreExact' /\ LoopsAreLive'
    BY <1>1, <2>1, <2>2 DEF CalmIsAlone, CalmChangesAreExact, LoopsAreLive
  <2>4. CASE Here.reloads
    <3> DEFINE site == IF Here.reactive THEN route.site ELSE mounted
    <3>1. site \in Place /\ Asked(route.card, route.q) \in DashQuery
      BY HereTyped, QueriesTyped DEF DashTypeOK
    <3>2. /\ get' \in [on : BOOLEAN, read : BOOLEAN, site : Place, q : DashQuery, value : Values, age : Nat]
          /\ get'.on /\ ~get'.read /\ get'.site = site /\ get'.q = Asked(route.card, route.q)
      BY <2>1, <2>4, <3>1, LoadTyped DEF Reload
    <3>3. DashTypeOK'
      BY <1>1, <2>1, <3>2 DEF DashTypeOK
    <3>4. ReadIsFresh' /\ FormFollows' /\ FollowsRoute'
      BY <2>1, <2>2, <2>4, <3>2 DEF ReadIsFresh, FormFollows, Form, FollowsRoute
    <3> QED
      BY <2>3, <3>3, <3>4
  <2>5. CASE ~Here.reloads
    <3>1. Form
      BY <1>3, <2>5, Kinds, HereTyped DEF Form, Here
    <3>2. ~get.on /\ shown.loaded /\ get' = get
      BY <2>1, <2>2, <2>5, <3>1 DEF FormFollows
    <3>3. DashTypeOK'
      BY <1>1, <2>1, <3>2 DEF DashTypeOK
    <3>4. FormFollows'
      BY <1>1, <2>1, <2>2, <3>1, <3>2 DEF FormFollows
    <3>5. ReadIsFresh' /\ FollowsRoute'
      BY <1>1, <2>1, <2>2, <3>1, <3>2, FormIsPlain DEF ReadIsFresh, FollowsRoute
    <3> QED
      BY <2>3, <3>3, <3>4, <3>5
  <2> QED
    BY <2>4, <2>5
<1> QED
  BY <1>2, <1>3

LEMMA WriteFailsKeeps == ASSUME DashInv, NEW w \in writes, WriteFails(w) PROVE DashInv'
<1> USE DEF DashInv
<1> DEFINE late == [w EXCEPT !.alive = FALSE]
<1>1. /\ faults' \in Nat
      /\ behind' = (behind \/ (w.applied /\ w.site = Watched) \/ (w.alive /\ Form))
      /\ UNCHANGED <<stored, route, mounted, shown, get, interval, loops, edits, moves>>
  BY DEF WriteFails, DashTypeOK, Form
<1>2. writes' = writes \ {w} \/ (~w.applied /\ writes' = (writes \ {w}) \cup {late})
  BY DEF WriteFails
<1>3. /\ late \in [site : Place, of : Place, field : Fields, sets : {late.sets},
                   alive : BOOLEAN, applied : BOOLEAN, calm : BOOLEAN]
      /\ late.sets = w.sets /\ ~late.alive /\ late.applied = w.applied /\ late.site = w.site
      /\ late.calm = w.calm /\ late.of = w.of /\ late.field = w.field
  BY WriteTyped
<1> HIDE DEF late
<1>4. DashTypeOK'
  <2>1. \A v \in writes' :
           /\ v \in [site : Place, of : Place, field : Fields, sets : {v.sets},
                    alive : BOOLEAN, applied : BOOLEAN, calm : BOOLEAN]
           /\ DOMAIN v.sets \subseteq Fields /\ v.sets \in [DOMAIN v.sets -> Nat]
    BY <1>2, <1>3, WriteTyped
  <2> QED
    BY <1>1, <2>1 DEF DashTypeOK
<1>5. Here' = Here /\ (Form' <=> Form) /\ Watched' = Watched /\ Own' = Own \ {w}
  BY <1>1, <1>2, <1>3 DEF Here, Form, Watched, Own
<1>6. ~behind' /\ Undisturbed' => ~behind /\ Undisturbed
  BY <1>1, <1>5 DEF Undisturbed
<1>7. ReadIsFresh' /\ FollowsRoute' /\ LoopsAreLive'
  BY <1>1, <1>5, <1>6 DEF ReadIsFresh, FollowsRoute, LoopsAreLive
<1>8. FormFollows'
  <2>1. Form /\ ~behind' => ~behind /\ Own' = Own
    BY <1>1, <1>5 DEF Own
  <2> QED
    BY <1>1, <1>5, <2>1 DEF FormFollows
<1>9. CalmIsAlone' /\ CalmChangesAreExact'
  BY <1>1, <1>2, <1>3 DEF CalmIsAlone, CalmChangesAreExact
<1> QED
  BY <1>4, <1>7, <1>8, <1>9

LEMMA AnotherTabKeeps == ASSUME DashInv, NEW s \in Place, NEW f \in Fields, AnotherTab(s, f) PROVE DashInv'
<1> USE DEF DashInv
<1>1. /\ edits' \in Nat /\ stored' = [stored EXCEPT ![s][f] = edits + 1] /\ writes' = Ruffled
      /\ behind' = (behind \/ s = Watched)
      /\ UNCHANGED <<route, mounted, shown, get, interval, loops, moves, faults>>
  BY DEF AnotherTab, DashTypeOK
<1>2. stored' \in [Place -> Values] /\ \A p \in Place \ {s} : stored'[p] = stored[p]
  BY <1>1 DEF DashTypeOK, Values
<1>3. DashTypeOK'
  <2>1. \A v \in writes' :
           /\ v \in [site : Place, of : Place, field : Fields, sets : {v.sets},
                    alive : BOOLEAN, applied : BOOLEAN, calm : BOOLEAN]
           /\ DOMAIN v.sets \subseteq Fields /\ v.sets \in [DOMAIN v.sets -> Nat]
    BY <1>1, RuffledTyped, WriteTyped
  <2> QED
    BY <1>1, <1>2, <2>1 DEF DashTypeOK
<1>4. Here' = Here /\ (Form' <=> Form) /\ Watched' = Watched
  BY <1>1 DEF Here, Form, Watched
<1>5. \A v \in Own' : \E w \in Own : /\ v = [w EXCEPT !.calm = FALSE] /\ v.sets = w.sets
                                     /\ v.site = w.site /\ v.applied = w.applied
  BY <1>1, RuffledTyped DEF Own
<1>6. \A w \in Own : \E v \in Own' : v.site = w.site /\ v.applied = w.applied
  <2> SUFFICES ASSUME NEW w \in Own PROVE \E v \in Own' : v.site = w.site /\ v.applied = w.applied
    OBVIOUS
  <2>1. w \in [site : Place, of : Place, field : Fields, sets : {w.sets},
               alive : BOOLEAN, applied : BOOLEAN, calm : BOOLEAN]
    BY WriteTyped DEF Own
  <2>2. [w EXCEPT !.calm = FALSE] \in Own'
    BY <1>1, <2>1 DEF Ruffled, Own
  <2> QED
    BY <2>1, <2>2
<1>7. Undisturbed' => Undisturbed
  BY <1>4, <1>6 DEF Undisturbed
<1>8. ~behind' => ~behind /\ (get.on => stored'[get.site] = stored[get.site])
                          /\ (~get.on => stored'[shown.site] = stored[shown.site])
  BY <1>1, <1>2 DEF DashTypeOK, Watched
<1>9. ReadIsFresh' /\ FollowsRoute' /\ LoopsAreLive'
  BY <1>1, <1>4, <1>7, <1>8 DEF ReadIsFresh, FollowsRoute, LoopsAreLive
<1>10. FormFollows'
  <2> SUFFICES ASSUME Form PROVE FormFollows'
    BY <1>4 DEF FormFollows
  <2>1. get.on => ~shown.loaded
    BY DEF FormFollows
  <2>2. Own' = {} <=> Own = {}
    BY <1>5, <1>6
  <2>3. get.on \/ ~shown.loaded => Own' = {}
    BY <2>2 DEF FormFollows
  <2>4. ASSUME ~behind', shown.loaded, ~get.on
        PROVE  /\ \A u, w \in Own' : u = w
               /\ \A w \in Own' :
                     /\ w.site = shown.site /\ w.sets = shown.value
                     /\ w.applied => stored'[shown.site] = shown.value
               /\ Own' = {} => stored'[shown.site] = shown.value
    <3>1. stored'[shown.site] = stored[shown.site] /\ ~behind
      BY <1>8, <2>4
    <3>2. /\ \A u, w \in Own : u = w
          /\ \A w \in Own :
                /\ w.site = shown.site /\ w.sets = shown.value
                /\ w.applied => stored[shown.site] = shown.value
          /\ Own = {} => stored[shown.site] = shown.value
      BY <2>4, <3>1 DEF FormFollows
    <3>3. \A u, w \in Own' : u = w
      <4> SUFFICES ASSUME NEW u \in Own', NEW w \in Own' PROVE u = w
        OBVIOUS
      <4>1. PICK x \in Own : u = [x EXCEPT !.calm = FALSE]
        BY <1>5
      <4>2. PICK y \in Own : w = [y EXCEPT !.calm = FALSE]
        BY <1>5
      <4> QED
        BY <3>2, <4>1, <4>2
    <3>4. ASSUME NEW w \in Own'
          PROVE  /\ w.site = shown.site /\ w.sets = shown.value
                 /\ w.applied => stored'[shown.site] = shown.value
      <4>1. PICK x \in Own : w.sets = x.sets /\ w.site = x.site /\ w.applied = x.applied
        BY <1>5
      <4> QED
        BY <3>1, <3>2, <4>1
    <3>5. Own' = {} => stored'[shown.site] = shown.value
      BY <2>2, <3>1, <3>2
    <3> QED
      BY <3>3, <3>4, <3>5
  <2> QED
    BY <1>1, <1>4, <2>1, <2>3, <2>4 DEF FormFollows
<1>11. CalmIsAlone' /\ CalmChangesAreExact'
  BY <1>1, RuffledTyped DEF CalmIsAlone, CalmChangesAreExact
<1> QED
  BY <1>3, <1>9, <1>10, <1>11
-----------------------------------------------------------------------------
(* Steps that change no request, no page and no data. *)
LEMMA TimersKeep ==
    ASSUME DashInv, loops' \subseteq Loops, loops' # {} => Here.live, interval' \in Intervals, moves' \in Nat,
           UNCHANGED <<stored, route, mounted, shown, writes, behind, edits, faults>>,
           get' = get \/ (get.on /\ get' = [get EXCEPT !.age = @ + 1])
    PROVE  DashInv'
<1> USE DEF DashInv
<1>1. /\ get' \in [on : BOOLEAN, read : BOOLEAN, site : Place, q : DashQuery, value : Values, age : Nat]
      /\ get'.on = get.on /\ get'.read = get.read /\ get'.site = get.site /\ get'.q = get.q
      /\ get'.value = get.value
  BY DEF DashTypeOK
<1>2. DashTypeOK'
  BY <1>1 DEF DashTypeOK, Loops
<1>3. Here' = Here /\ (Form' <=> Form) /\ Watched' = Watched /\ Own' = Own
  BY <1>1 DEF Here, Form, Watched, Own
<1>4. Undisturbed' <=> Undisturbed
  BY <1>3 DEF Undisturbed
<1>5. ReadIsFresh' /\ FormFollows'
  BY <1>1, <1>3, <1>4 DEF ReadIsFresh, FormFollows
<1>6. FollowsRoute' /\ LoopsAreLive' /\ CalmIsAlone' /\ CalmChangesAreExact'
  BY <1>1, <1>3 DEF FollowsRoute, LoopsAreLive, CalmIsAlone, CalmChangesAreExact
<1> QED
  BY <1>2, <1>5, <1>6

LEMMA ChooseIntervalKeeps == ASSUME DashInv, NEW v \in Intervals, ChooseInterval(v) PROVE DashInv'
<1>1. v \in Nat
  BY BoundsAssumption
<1>2. loops \subseteq Loops
  BY DEF DashInv, DashTypeOK, Loops
<1>3. \A l \in loops : [l EXCEPT !.current = FALSE] \in Loops
  BY <1>2 DEF Loops
<1>4. Sleeping(v) \in Loops
  BY <1>1 DEF Sleeping, Loops
<1>5. loops' \subseteq Loops /\ Here.live /\ interval' = v
  BY <1>3, <1>4 DEF ChooseInterval
<1>6. moves' \in Nat
  BY DEF ChooseInterval, Moves, DashInv, DashTypeOK
<1>7. UNCHANGED <<stored, route, mounted, shown, get, writes, behind, edits, faults>>
  BY DEF ChooseInterval
<1> QED
  BY <1>5, <1>6, <1>7, TimersKeep

LEMMA TimePassesKeeps == ASSUME DashInv, TimePasses PROVE DashInv'
<1>1. \A l \in loops : [l EXCEPT !.left = @ - 1] \in Loops
  BY DEF TimePasses, DashInv, DashTypeOK, Loops
<1>2. loops' \subseteq Loops /\ loops # {}
  BY <1>1 DEF TimePasses
<1>3. Here.live
  BY <1>2 DEF DashInv, LoopsAreLive
<1>4. get' = get \/ (get.on /\ get' = [get EXCEPT !.age = @ + 1])
  BY DEF TimePasses
<1>5. interval' \in Intervals /\ moves' \in Nat
  BY DEF TimePasses, DashInv, DashTypeOK
<1>6. UNCHANGED <<stored, route, mounted, shown, writes, behind, edits, faults>>
  BY DEF TimePasses
<1> QED
  BY <1>2, <1>3, <1>4, <1>5, <1>6, TimersKeep

LEMMA AutoRefreshKeeps == ASSUME DashInv, NEW l \in loops, AutoRefresh(l) PROVE DashInv'
<1>1. Here.live /\ l \in Loops /\ loops \subseteq Loops /\ interval \in Nat
  BY BoundsAssumption DEF DashInv, LoopsAreLive, DashTypeOK, Loops
<1>2. UNCHANGED <<stored, route, mounted, shown, writes, interval, behind, edits, moves, faults>>
  BY DEF AutoRefresh
<1>3. CASE ~l.current
  BY <1>1, <1>2, <1>3, TimersKeep DEF AutoRefresh, DashInv, DashTypeOK
<1>4. CASE l.current
  <2>1. [l EXCEPT !.left = interval] \in Loops
    BY <1>1 DEF Loops
  <2>2. loops' \subseteq Loops /\ Reload
    BY <1>1, <1>4, <2>1 DEF AutoRefresh
  <2>3. Here.reactive
    BY <1>1, Kinds, HereTyped DEF Here, DashInv
  <2>4. ~Form
    BY <2>3, FormIsPlain
  <2>5. route.site \in Place /\ Asked(route.card, route.q) \in DashQuery
    BY HereTyped, QueriesTyped DEF DashInv
  <2>6. /\ get' \in [on : BOOLEAN, read : BOOLEAN, site : Place, q : DashQuery, value : Values, age : Nat]
        /\ get'.on /\ ~get'.read /\ get'.site = route.site /\ get'.q = Asked(route.card, route.q)
    BY <2>2, <2>3, <2>5, LoadTyped DEF Reload
  <2>7. DashTypeOK'
    BY <1>2, <2>2, <2>6 DEF DashInv, DashTypeOK, Loops
  <2>8. Here' = Here /\ ~Form' /\ Own' = Own
    BY <1>2, <2>4 DEF Here, Form, Own
  <2>9. ReadIsFresh' /\ FormFollows' /\ FollowsRoute' /\ LoopsAreLive'
    BY <1>1, <1>2, <2>6, <2>8 DEF ReadIsFresh, FormFollows, FollowsRoute, LoopsAreLive
  <2>10. CalmIsAlone' /\ CalmChangesAreExact'
    BY <1>2, <2>8 DEF DashInv, CalmIsAlone, CalmChangesAreExact
  <2> QED
    BY <2>7, <2>9, <2>10 DEF DashInv
<1> QED
  BY <1>3, <1>4
-----------------------------------------------------------------------------
LEMMA DashInitInv == DashInit => DashInv
<1> SUFFICES ASSUME DashInit PROVE DashInv
  OBVIOUS
<1>1. PICK card \in Visited, s \in Sites :
        /\ mounted = (IF Component[card].scoped THEN s ELSE Org)
        /\ route = [card |-> card, site |-> mounted, q |-> NoQuery] /\ get = Load(mounted, NoQuery)
        /\ loops = Started(card)
  BY DEF DashInit
<1>2. /\ stored = [p \in Place |-> Blank] /\ interval \in Intervals
      /\ shown = Nothing /\ writes = {} /\ behind = FALSE /\ edits = 0 /\ moves = 0 /\ faults = 0
  BY DEF DashInit
<1>3. mounted \in Place /\ card \in DOMAIN Component /\ stored \in [Place -> Values]
  BY <1>1, <1>2, VisitedAssumption DEF Place, Values, Blank
<1>4. /\ get \in [on : BOOLEAN, read : BOOLEAN, site : Place, q : DashQuery, value : Values, age : Nat]
      /\ get.on /\ ~get.read /\ get.site = mounted /\ get.q = NoQuery
  BY <1>1, <1>3, LoadTyped, QueriesTyped
<1>5. /\ route \in [card : DOMAIN Component, site : Place, q : DashQuery]
      /\ route.card = card /\ route.site = mounted /\ route.q = NoQuery
  BY <1>1, <1>3, QueriesTyped
<1>6. loops \subseteq Loops /\ (loops # {} => Here.live)
  BY <1>1, <1>2, <1>3, <1>5, LoopsTyped DEF Here
<1>7. DashTypeOK
  <2>1. shown \in [loaded : BOOLEAN, site : Place, q : DashQuery, value : Values]
    BY <1>2, NothingTyped
  <2>2. behind \in BOOLEAN /\ {edits, moves, faults} \subseteq Nat
    <3>1. behind = FALSE
      BY <1>2
    <3>2. edits = 0 /\ moves = 0 /\ faults = 0
      BY <1>2
    <3>3. behind \in BOOLEAN
      BY <3>1, Zenon
    <3>4. \A x \in {edits, moves, faults} : x \in Nat
      BY <3>2, SMT
    <3> QED
      BY <3>3, <3>4, Zenon
  <2>3. interval \in Intervals /\ loops \subseteq [left : Nat, current : BOOLEAN]
    BY <1>2, <1>6 DEF Loops
  <2>4. writes = {}
    BY <1>2
  <2> QED
    BY <1>3, <1>4, <1>5, <2>1, <2>2, <2>3, <2>4 DEF DashTypeOK
<1>8. Asked(route.card, route.q) = NoQuery
  BY <1>5 DEF Asked, range_only, NoQuery
<1>9. ReadIsFresh /\ FormFollows /\ FollowsRoute
  BY <1>2, <1>4, <1>5, <1>8, NothingTyped DEF ReadIsFresh, FormFollows, FollowsRoute, Own
<1>10. LoopsAreLive /\ CalmIsAlone /\ CalmChangesAreExact
  BY <1>2, <1>6 DEF LoopsAreLive, CalmIsAlone, CalmChangesAreExact
<1> QED
  BY <1>7, <1>9, <1>10 DEF DashInv

LEMMA DashNextInv == DashInv /\ [DashNext]_dashVars => DashInv'
<1> SUFFICES ASSUME DashInv, [DashNext]_dashVars PROVE DashInv'
  OBVIOUS
<1>1. CASE UNCHANGED dashVars
  <2>1. Here' = Here /\ (Form' <=> Form) /\ Watched' = Watched /\ Own' = Own
    BY <1>1 DEF dashVars, Here, Form, Watched, Own
  <2>2. loops \subseteq Loops /\ (loops # {} => Here.live) /\ interval \in Intervals /\ moves \in Nat
    BY DEF DashInv, DashTypeOK, LoopsAreLive, Loops
  <2> QED
    BY <1>1, <2>2, TimersKeep DEF dashVars
<1>2. CASE Loading \/ GetFails \/ Delivery
  <2>1. ASSUME NEW w \in writes, Applied(w) PROVE DashInv'
    BY <2>1, OwnAppliedKeeps, LateAppliedKeeps
  <2> QED
    BY <1>2, <2>1, ServerReadsKeeps, GetJsonKeeps, GetFailsKeeps, AnsweredKeeps DEF Loading, Delivery
<1> QED
  BY <1>1, <1>2, NavigateKeeps, WithQueryKeeps, HistoryJumpKeeps, ChangeKeeps, WriteFailsKeeps,
     AnotherTabKeeps, ChooseIntervalKeeps, AutoRefreshKeeps, TimePassesKeeps
     DEF DashNext

LEMMA DashInvariance == DashSpec => []DashInv
  BY DashInitInv, DashNextInv, PTL DEF DashSpec

-----------------------------------------------------------------------------
(* The refresh loops.  Only four steps touch them: a page is mounted, an    *)
(* interval is chosen, a loop wakes up, time passes.                       *)
LEMMA MountedAtPace ==
    ASSUME interval \in Nat, NEW card \in DOMAIN Component, NEW site, NEW q, NEW rest,
           Mount(card, site, q, rest), interval' = interval
    PROVE  RefreshFollowsChoice'
<1>1. loops' = Started(card) /\ route'.card = card
  BY DEF Mount
<1>2. Sleeping(interval).left = interval /\ Sleeping(interval).current
  BY DEF Sleeping
<1>3. \A l \in loops' : l = Sleeping(interval) /\ interval # 0
  BY <1>1 DEF Started
<1>4. Here'.live /\ interval # 0 => Sleeping(interval) \in loops'
  BY <1>1 DEF Started, Here
<1> QED
  BY <1>2, <1>3, <1>4 DEF RefreshFollowsChoice

LEMMA ChoiceIsFollowed ==
    ASSUME DashTypeOK, NEW v \in Intervals, ChooseInterval(v)
    PROVE  RefreshFollowsChoice'
<1>1. v \in Nat /\ interval' = v
  BY BoundsAssumption DEF ChooseInterval
<1>2. Sleeping(v).left = v /\ Sleeping(v).current
  BY DEF Sleeping
<1>3. \A l \in loops : ~[l EXCEPT !.current = FALSE].current
  BY DEF DashTypeOK
<1>4. \A l \in loops' : l.current => l = Sleeping(v) /\ v # 0
  BY <1>3 DEF ChooseInterval
<1>5. v # 0 => Sleeping(v) \in loops'
  BY DEF ChooseInterval
<1> QED
  BY <1>1, <1>2, <1>4, <1>5 DEF RefreshFollowsChoice

LEMMA WakingKeepsPace ==
    ASSUME DashTypeOK, RefreshFollowsChoice, NEW l \in loops, AutoRefresh(l)
    PROVE  RefreshFollowsChoice'
<1>1. interval' = interval /\ interval \in Nat /\ Here' = Here /\ loops \subseteq [left : Nat, current : BOOLEAN]
  BY BoundsAssumption DEF AutoRefresh, DashTypeOK, Here
<1>2. CASE ~l.current
  <2>1. loops' = loops \ {l}
    BY <1>2 DEF AutoRefresh
  <2> QED
    BY <1>1, <1>2, <2>1 DEF RefreshFollowsChoice
<1>3. CASE l.current
  <2> DEFINE m == [l EXCEPT !.left = interval]
  <2>1. loops' = (loops \ {l}) \cup {m}
    BY <1>3 DEF AutoRefresh
  <2>2. m.current /\ m.left = interval
    BY <1>1, <1>3
  <2> HIDE DEF m
  <2>3. \A k \in loops' : k.current => k = m
    BY <1>3, <2>1 DEF RefreshFollowsChoice
  <2>4. interval # 0
    BY <1>3 DEF RefreshFollowsChoice
  <2> QED
    BY <1>1, <2>1, <2>2, <2>3, <2>4 DEF RefreshFollowsChoice
<1> QED
  BY <1>2, <1>3

LEMMA TimeKeepsPace ==
    ASSUME DashTypeOK, RefreshFollowsChoice, TimePasses
    PROVE  RefreshFollowsChoice'
<1>1. interval' = interval /\ interval \in Nat /\ Here' = Here /\ loops \subseteq [left : Nat, current : BOOLEAN]
  BY BoundsAssumption DEF TimePasses, DashTypeOK, Here
<1> DEFINE Passed(l) == [l EXCEPT !.left = @ - 1]
<1>2. \A l \in loops : Passed(l).current = l.current /\ Passed(l).left = l.left - 1 /\ l.left \in Nat
  BY <1>1
<1>3. loops' = {Passed(l) : l \in loops}
  BY DEF TimePasses
<1> HIDE DEF Passed
<1>4. \A l, m \in loops' : l.current /\ m.current => l = m
  BY <1>2, <1>3 DEF RefreshFollowsChoice
<1>5. \A l \in loops' : l.current => interval # 0 /\ l.left <= interval
  BY <1>1, <1>2, <1>3 DEF RefreshFollowsChoice
<1>6. Here.live /\ interval # 0 => \E l \in loops' : l.current
  BY <1>2, <1>3 DEF RefreshFollowsChoice
<1> QED
  BY <1>1, <1>4, <1>5, <1>6 DEF RefreshFollowsChoice

(* refresh.rs: whatever choices, pages and sleeping loops follow each       *)
(* other, one loop at most goes on, at the pace of the last choice.         *)
THEOREM RefreshIsAtPace == DashSpec => []RefreshFollowsChoice
<1>1. DashInit => RefreshFollowsChoice
  <2> SUFFICES ASSUME DashInit PROVE RefreshFollowsChoice
    OBVIOUS
  <2>1. PICK card \in Visited : route.card = card /\ loops = Started(card)
    BY DEF DashInit
  <2>2. interval \in Nat
    BY BoundsAssumption DEF DashInit
  <2>3. Sleeping(interval).left = interval /\ Sleeping(interval).current
    BY DEF Sleeping
  <2>4. \A l \in loops : l = Sleeping(interval) /\ interval # 0
    BY <2>1 DEF Started
  <2>5. Here.live /\ interval # 0 => Sleeping(interval) \in loops
    BY <2>1 DEF Started, Here
  <2> QED
    BY <2>2, <2>3, <2>4, <2>5 DEF RefreshFollowsChoice
<1>2. DashInv /\ RefreshFollowsChoice /\ [DashNext]_dashVars => RefreshFollowsChoice'
  <2> SUFFICES ASSUME DashInv, RefreshFollowsChoice, [DashNext]_dashVars PROVE RefreshFollowsChoice'
    OBVIOUS
  <2>1. DashTypeOK /\ interval \in Nat /\ route.card \in DOMAIN Component
    BY BoundsAssumption DEF DashInv, DashTypeOK
  <2>2. CASE UNCHANGED <<loops, interval>> /\ route'.card = route.card
    BY <2>2 DEF RefreshFollowsChoice, Here
  <2>3. CASE Navigate
    <3>1. ASSUME NEW card, SiteTabs(card), card \in Visited PROVE RefreshFollowsChoice'
      BY <2>1, <2>3, <3>1, VisitedAssumption, MountedAtPace DEF SiteTabs, Navigate
    <3>2. ASSUME NEW card, Sidebar(card), card \in Visited PROVE RefreshFollowsChoice'
      BY <2>1, <2>3, <3>2, VisitedAssumption, MountedAtPace DEF Sidebar, Navigate
    <3>3. ASSUME NEW s \in Sites, "SiteOverview" \in Visited, SiteCard(s) PROVE RefreshFollowsChoice'
      BY <2>1, <2>3, <3>3, VisitedAssumption, MountedAtPace DEF SiteCard, Navigate
    <3>4. ASSUME "FunnelDetail" \in Visited, OpenFunnel PROVE RefreshFollowsChoice'
      BY <2>1, <2>3, <3>4, VisitedAssumption, MountedAtPace DEF OpenFunnel, Navigate
    <3> QED
      BY <2>3, <3>1, <3>2, <3>3, <3>4 DEF Navigate
  <2>4. ASSUME NEW w \in writes, Answered(w) PROVE RefreshFollowsChoice'
    <3>1. CASE Here.leaves # ""
      <4>1. PICK s : Mount(Here.leaves, s, range_only(route.q), writes \ {w})
        BY <2>4, <3>1 DEF Answered
      <4>2. Here.leaves \in DOMAIN Component
        BY <2>1, <3>1, Kinds DEF Here
      <4>3. interval' = interval
        BY <2>4 DEF Answered
      <4> QED
        BY <2>1, <4>1, <4>2, <4>3, MountedAtPace
    <3>2. CASE Here.leaves = ""
      BY <2>2, <2>4, <3>2 DEF Answered
    <3> QED
      BY <3>1, <3>2
  <2>5. CASE \/ UNCHANGED dashVars \/ Loading \/ GetFails \/ \E w \in writes : Applied(w) \/ WriteFails(w)
             \/ \E f \in Fields : Change(f) \/ \E s \in Place : AnotherTab(s, f)
    BY <2>2, <2>5 DEF dashVars, Loading, ServerReads, get_json, GetFails, Applied, WriteFails, Change, AnotherTab
  <2>6. ASSUME NEW q \in DashQuery, with_query(q) PROVE RefreshFollowsChoice'
    BY <2>1, <2>2, <2>6 DEF with_query, DashTypeOK
  <2>7. ASSUME NEW s \in Sites, HistoryJump(s) PROVE RefreshFollowsChoice'
    BY <2>1, <2>2, <2>7 DEF HistoryJump, DashTypeOK
  <2> QED
    BY <2>1, <2>3, <2>4, <2>5, <2>6, <2>7, ChoiceIsFollowed, WakingKeepsPace, TimeKeepsPace
       DEF DashNext, Delivery
<1> QED
  BY <1>1, <1>2, DashInvariance, DashInitInv, PTL DEF DashSpec

(* Requests, routes, changes on their way and loops keep their types.      *)
THEOREM DashTyped == DashSpec => []DashTypeOK
<1>1. DashInv => DashTypeOK
  BY DEF DashInv
<1> QED
  BY <1>1, DashInvariance, PTL

(* components/mod.rs use_resource: a card at rest shows what the server    *)
(* has, whatever navigation, refreshes, changes and failures came before;  *)
(* an analytics page shows it for the site and the query of its route.     *)
THEOREM SettledShowsTheServer == DashSpec => []SettledIsFresh
<1>1. DashInv => SettledIsFresh
  BY SettledShowsStored DEF DashInv, SettledIsFresh, FollowsRoute, Settled
<1> QED
  BY <1>1, DashInvariance, PTL

(* site_settings.rs:121: a change that is made at rest alters the one      *)
(* thing that was changed, although the cards send every control.          *)
THEOREM CalmChangesAlterOne == DashSpec => []CalmChangesAreExact
<1>1. DashInv => CalmChangesAreExact
  BY DEF DashInv
<1> QED
  BY <1>1, DashInvariance, PTL
=============================================================================
