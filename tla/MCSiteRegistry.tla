--------------------------- MODULE MCSiteRegistry ---------------------------
(* SiteRegistry with two queries and two partitions, one of them old.      *)
EXTENDS SiteRegistry

CONSTANTS q1, q2

MCQuery == {q1, q2}
MCPart == {"old", "recent"}
MCOld == {"old"}
=============================================================================
