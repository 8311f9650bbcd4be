------------------------------- MODULE MCAODV -------------------------------
(***************************************************************************)
(* Small networks for the model checker.                                     *)
(***************************************************************************)
EXTENDS AODV

CONSTANTS a, b, c, d

Line3 == {{a, b}, {b, c}}

Line4 == {{a, b}, {b, c}, {c, d}}

Ring4 == {{a, b}, {b, c}, {c, d}, {d, a}}

Lines3 == {Line3}

\* Two ways from a to c, one, and none.
Rings == {Ring4, Line4, {{a, b}, {c, d}}}

\* b and c in range of a, d of nobody.
Star == {{{a, b}, {a, c}}}

Twoaway == <<<<a, c>>>>

Twice == <<<<a, c>>, <<a, c>>>>

Retried == <<<<a, c>>, <<a, d>>, <<b, c>>, <<a, c>>>>

NoFault == [x \in Budgets |-> 0]

TwoFaults == [loss |-> 1, timeout |-> 2, hello |-> 1, link |-> 1, race |-> 0,
              garbage |-> 1, any |-> 2]

\* Only timers, and only when no frame is in flight.
TimersAtRest == [loss |-> 0, timeout |-> 2, hello |-> 1, link |-> 0, race |-> 0,
                 garbage |-> 0, any |-> 3]
=============================================================================
