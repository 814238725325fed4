--------------------------- MODULE MCCommandLink ---------------------------
(***************************************************************************)
(* CommandLink on small instances: two sessions, a queue of one or two     *)
(* places and a channel of one.                                            *)
(***************************************************************************)
EXTENDS CommandLink

\* A large frame, which takes all of a budget of two, then small ones of which
\* it holds two: a queue of two is full by bytes and full by count.
MCCost == [c \in Cmds |-> IF c = 1 THEN 2 ELSE 1]

\* The second command is a get_config.
MCGetConfig == Cmds \cap {2}
=============================================================================
