CONSTANTS
  Sessions = {1}
  Ports <- MCPorts
  Subsessions <- MCSubsessions
  Slots = 3
  Troubles = {"bye","refused","ends","early","remove_sdp","remove_connected","leave_waiting"}
  MaxConnects = 2
SPECIFICATION FairSpec
INVARIANTS FramesReceived
PROPERTIES Resumes
CONSTRAINT Untroubled
