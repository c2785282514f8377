---------------------------- MODULE MCSiteScope ----------------------------
(* Two requests: one for any route, one for the routes that change what    *)
(* the other has read.                                                     *)
EXTENDS SiteScope, TLC

CONSTANTS q1, q2

EveryRoute ==
    (q1 :> Routes) @@ (q2 :> {patch_site_api, put_subscription, delete_funnel})

Symmetry == Permutations(Site) \cup Permutations(Domain) \cup Permutations(Row)
=============================================================================
