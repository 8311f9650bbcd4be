--------------------------- MODULE ReliableStream ---------------------------
(***************************************************************************)
(* What a pair of TCP connections promises its two applications, with no   *)
(* segment, timer or sequence number in sight: the octets that an end      *)
(* writes are read by its peer in order, once each and without a gap, and  *)
(* the end of the stream is reported after the last octet only.  Which     *)
(* octets were read is their number, since the stream is read in order.    *)
(***************************************************************************)
EXTENDS Integers

CONSTANT Writers

VARIABLES sent,    \* octets the writer handed over
          ended,   \* the writer closed or aborted its stream
          read,    \* octets its reader was given
          eof      \* its reader was told that the stream has ended

streamVars == <<sent, ended, read, eof>>

StreamInit ==
  /\ sent = [w \in Writers |-> 0]
  /\ ended = [w \in Writers |-> FALSE]
  /\ read = [w \in Writers |-> 0]
  /\ eof = [w \in Writers |-> FALSE]

Write(w) ==
  /\ ~ ended[w]
  /\ sent'[w] > sent[w]
  /\ sent' = [sent EXCEPT ![w] = sent'[w]]
  /\ UNCHANGED <<ended, read, eof>>

End(w) ==
  /\ ~ ended[w]
  /\ ended' = [ended EXCEPT ![w] = TRUE]
  /\ UNCHANGED <<sent, read, eof>>

\* Data and the end of the stream may reach the reader together.
Read(w) ==
  /\ ~ eof[w]
  /\ \E n \in read[w] .. sent[w] : read' = [read EXCEPT ![w] = n]
  /\ \E told \in BOOLEAN :
       /\ told => ended[w] /\ read'[w] = sent[w]
       /\ eof' = [eof EXCEPT ![w] = told]
  /\ UNCHANGED <<sent, ended>>

StreamNext == \E w \in Writers : Write(w) \/ End(w) \/ Read(w)

StreamSpec == StreamInit /\ [][StreamNext]_streamVars
=============================================================================
