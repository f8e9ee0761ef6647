--------------------------- MODULE MCRateLimiter ---------------------------
(***************************************************************************)
(* RateLimiter for TLC: two clients that may forge each other's address.   *)
(***************************************************************************)
EXTENDS RateLimiter

CONSTANTS p1, p2, in

MCPeers == {p1, p2}

(* No entry of the client's own, or one naming a client.                  *)
MCForged == {<<>>, <<p2>>}

============================================================================
