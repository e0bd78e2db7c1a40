\* Each packet alone.  Buffers have the headroom of an Ethernet driver.
SPECIFICATION Spec
CONSTANTS
  Frames <- MCFrames
  Buffers <- MCBuffers
  Headrooms = {78}
  Elsewhere <- MCElsewhere
  Containers <- MCContainers
INVARIANTS
  
  SocketFlowIsTheProcess
CHECK_DEADLOCK FALSE
