-------------------------- MODULE MCSessionReader --------------------------
(***************************************************************************)
(* SessionReader in ticks of thirty seconds: a floor of 90 s.  The two     *)
(* limits of 300 s are shortened to eight ticks, which leaves the slow     *)
(* keepalive below them and the fast one below the floor.                  *)
(***************************************************************************)
EXTENDS SessionReader

\* A fast keepalive, below the floor; one just above it, which a burst of pings
\* can have dropped; and a slow one.
MCPeriods == {1, 4, 6}
=============================================================================
