SPECIFICATION Spec
CHECK_DEADLOCK FALSE
CONSTANTS
  SeqMod = 64
  MSS = 1
  RcvWnd = 3
  Alg = "TCPTahoe"
  MaxRexmitCount = 1
  MaxSynRexmitCount = 12
  Opens <- ActivePassive
  InitialSeqNums = {63}
  WriteSizes = {2}
  MaxWritten <- Wrote20
  Aborts = {}
  RawSend = FALSE
  ConnEstabRexmits = 1
  Faults <- LossDuplicateOvertaking
INVARIANTS
  TypeOK
  AckedWasReceived
  RexmitArmed
  SendVariablesOrdered
PROPERTIES
  ReliableStreams
