----------------------------- MODULE MCSession -----------------------------
(* Model checking instance of Session: two clients and two interactions   *)
(* on the first secondary, sent against the order of their schedule, and   *)
(* one client and one interaction on the second.                           *)
EXTENDS SessionInvariant

Entry(slot, kind, index, time) ==
    [slot |-> slot, kind |-> kind, index |-> index, time |-> time]

MCPlan == <<Entry(1, "client", 0, 0), Entry(1, "client", 1, 0),
            Entry(2, "client", 0, 0), Entry(1, "iact", 0, 2),
            Entry(2, "iact", 0, 2), Entry(1, "iact", 1, 1)>>
=============================================================================
