--------------------------- MODULE MCCommandCache ---------------------------
(* Model checking instance of CommandCache: two commands of one client,    *)
(* which may overtake each other, and one of another client.               *)
EXTENDS CommandCache

CONSTANTS a, b

MCCommands == {[id |-> a, seq |-> 1], [id |-> a, seq |-> 2], [id |-> b, seq |-> 1]}
=============================================================================
