------------------------------ MODULE TCPClaims ------------------------------
(***************************************************************************)
(* What a comment of the TCP module says of it and the code does not keep: *)
(* the property of a run that ends with a counterexample.                  *)
(***************************************************************************)
EXTENDS TCPPair

\* TCPConnectionRcvSegment.cc:491, on a FIN above sequence: the advance over it
\* and the PEER_CLOSED indication follow "later (when an arriving segment
\* "fills the gap")".  Here segment i arrives and fills it.
FinAboveSequenceHandledLater ==
  [][\A e \in Ends : \A i \in 1 .. Len(net[e]) :
       LET s == net[e][i]
       IN /\ conn[e].fin_rcvd
          /\ s.seq = conn[e].rcv_nxt /\ SeqAdd(s.seq, s.len) = conn[e].rcv_fin_seq
          /\ net'[e] = Without(net[e], i) /\ budget' = budget
          => conn'[e].peerClosedInds > 0]_vars
=============================================================================
