------------------------------ MODULE MCTCPPair ------------------------------
(***************************************************************************)
(* Instances of TCPPair for TLC.                                           *)
(***************************************************************************)
EXTENDS TCPClaims

\* A client and a server, and the same with a simultaneous open.
ActivePassive == <<{"active"}, {"passive"}>>
EitherWay == <<{"active"}, {"active", "passive"}>>

Wrote21 == <<2, 1>>
Wrote20 == <<2, 0>>
Wrote90 == <<9, 0>>
Wrote01 == <<0, 1>>

NoFault == [loss |-> 0, dup |-> 0, overtake |-> 0, spurious |-> 0]
Lose1 == [NoFault EXCEPT !.loss = 1]
Lose2 == [NoFault EXCEPT !.loss = 2]
Overtake1 == [NoFault EXCEPT !.overtake = 1]
Spurious1 == [NoFault EXCEPT !.spurious = 1]
AllFaults1 == [loss |-> 1, dup |-> 1, overtake |-> 1, spurious |-> 0]

OneLoss == {Lose1}
TwoLosses == {Lose2}
OneOvertaking == {Overtake1}
LossOrSpurious == {Lose1, Spurious1}
LossDuplicateOvertaking == {AllFaults1}
=============================================================================
