\* Two whole packets in buffers with the headroom of an Ethernet driver.
SPECIFICATION Spec
CONSTANTS
  Frames = {}
  Buffers <- MCBuffers
  Headrooms = {78}
  Elsewhere <- MCElsewhere
  Containers <- MCContainers
INVARIANT SkbFlowIsThePacket
CHECK_DEADLOCK FALSE
