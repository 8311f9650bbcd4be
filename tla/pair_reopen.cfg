SPECIFICATION Spec
CHECK_DEADLOCK FALSE
CONSTANTS
  SeqMod = 64
  MSS = 1
  RcvWnd = 3
  Alg = "TCPNoCongestionControl"
  MaxRexmitCount = 1
  MaxSynRexmitCount = 12
  Opens <- EitherWay
  InitialSeqNums = {0, 2}
  WriteSizes = {1}
  MaxWritten <- Wrote01
  Aborts = {1, 2}
  RawSend = TRUE
  ConnEstabRexmits = 1
  Faults <- TwoLosses
INVARIANTS
  HandshakeTimers
  RemovedMeansTold
PROPERTY ReliableStreams
