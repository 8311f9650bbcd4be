SPECIFICATION Spec
CHECK_DEADLOCK FALSE
CONSTANTS
  SeqMod = 64
  MSS = 1
  RcvWnd = 3
  Alg = "TCPReno"
  MaxRexmitCount = 1
  MaxSynRexmitCount = 12
  Opens <- ActivePassive
  InitialSeqNums = {0}
  WriteSizes = {1, 2}
  MaxWritten <- Wrote21
  Aborts = {}
  RawSend = FALSE
  ConnEstabRexmits = 1
  Faults <- OneOvertaking
PROPERTY FinAboveSequenceHandledLater
