\* Both rings, two slots each and one in the channel.  The third and fourth
\* attempts on the main ring may be lost, before or between two reads of the
\* drop counter; the XDP ring's reader competes for the channel.
SPECIFICATION FairSpec
CONSTANTS
  XdpEnabled = TRUE
  RingCap = 2
  ChanCap = 1
  MaxMain = 4
  MaxXdp = 1
INVARIANTS
  TypeOK
  NoAcceptedRecordLost
  HandledInKernelOrder
  NoTornRecord
  LossMetricNeverOverstates
  PipelineInv
PROPERTIES
  ImplementsLossyFifo
  MainLossReported
  AcceptedRecordHandled
  ShutdownCompletes
