SPECIFICATION SerialSpec
CONSTANTS
  Writers = {"cmd", "ack"}
  Script <- MCScript
  Noise = {125, 126}
  MaxFaults = 2
INVARIANTS BufferHasOneHolder FramesReal CleanIsDelivered Resynchronised
CHECK_DEADLOCK FALSE
