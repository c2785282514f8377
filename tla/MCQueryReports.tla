--------------------------- MODULE MCQueryReports ---------------------------
(* QueryReports with two sessions, two pages, referrers and sources that   *)
(* may be missing, two custom events, two timestamps on two days, and      *)
(* ranges that share a boundary.                                           *)
EXTENDS QueryReports, TLC

With(values) == values @@ [column \in Column |-> Null]
View(session, url, referrer, source) ==
    [session |-> session, kind |-> "pageview",
     dim |-> With([url |-> url, referrer |-> referrer, utm_source |-> source, name |-> "pageview"])]
Custom(session, name) ==
    [session |-> session, kind |-> "custom", dim |-> With([url |-> "/a", name |-> name])]

MCBeacon == {View("s1", "/a", "news", "mail"), View("s1", "/b", Null, Null),
             View("s2", "/a", "blog", Null), Custom("s2", "signup"), Custom("s2", "other")}
MCValue == {"/a", "/b", "news", "blog", "mail", "pageview", "signup", "other"}
MCTime == 1 .. 2
MCTimeRange == {[start |-> 1, end |-> 2], [start |-> 2, end |-> 2]}

NotNews == [field |-> "referrer", op |-> "not_eq", values |-> {"news"}]
MCFilterParam == {<<>>, <<Malformed, NotNews>>, <<Eq("name", "signup")>>, <<Eq("name", "other")>>}
MCListRequest ==
    {top_pages(1, <<>>), top_referrers(2, <<Malformed, Eq("url", "/a")>>),
     utm("utm_source", "mail", Null, 1, <<>>), events(Null, 1, <<>>)}
=============================================================================
