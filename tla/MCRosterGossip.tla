--------------------------- MODULE MCRosterGossip ---------------------------
(* Small hives for RosterGossip. *)
EXTENDS RosterGossip, TLC

CONSTANTS a, b, c

\* a finds b only, b finds c, c finds a.
Ring == {<<a, b>>, <<b, c>>, <<c, a>>}

=============================================================================
