------------------------------- MODULE MCOSPF -------------------------------
(***************************************************************************)
(* Small OSPF networks for TLC.                                             *)
(***************************************************************************)
EXTENDS OSPF

\* Two routers that still have the LSA of a third, one of them a newer one. The
\* same router has two LSAs more, so that the other has more to ask for than
\* fits one request.
Pair == {{1, 2}}
Apart ==
    {[r \in Router |-> [k \in Key |->
        [key |-> k, links |-> {},
         seq |-> CASE k = r -> 1 [] k # r /\ k \in Router -> 0 [] k = 3 -> r [] OTHER -> r - 1]]]}

\* Three in a line, synchronised.
Line == {{1, 2}, {2, 3}}
Together ==
    {[r \in Router |-> [k \in Key |->
        [key |-> k, links |-> Neighbors(k),
         seq |-> 1 + Cardinality(Neighbors(k))]]]}

OneFault == [b \in Budgets |-> 1]

\* Two faults, of which two refreshes may be.
TwoFaults == [loss |-> 1, dead |-> 1, refresh |-> 2, race |-> 1, any |-> 2]

=============================================================================
