SPECIFICATION FairSpec
CHECK_DEADLOCK FALSE
CONSTANTS
  SeqMod = 64
  MSS = 1
  RcvWnd = 5
  Alg = "TCPReno"
  MaxRexmitCount = 1
  MaxSynRexmitCount = 12
  Opens <- ActivePassive
  InitialSeqNums = {0}
  WriteSizes = {9}
  MaxWritten <- Wrote90
  Aborts = {}
  RawSend = FALSE
  ConnEstabRexmits = 1
  Faults <- OneLoss
INVARIANTS
  FlightWithinWindow
PROPERTY LossRepaired
