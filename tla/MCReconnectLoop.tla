--------------------------- MODULE MCReconnectLoop ---------------------------
(***************************************************************************)
(* ReconnectLoop with three URLs, of which one manager never answers.      *)
(***************************************************************************)
EXTENDS ReconnectLoop

MCAnswering == Index \ {1}
MCSteps == <<1, 2, 5>>
=============================================================================
