SPECIFICATION Spec
CONSTANTS
  Conversation = c
  Agents = {1}
  Capacity <- Places
  NoAgent = noAgent
  Users = {u}
  Disconnects = {}
  Worker = w
  Nothing = nothing
  MaxEvents = 4
  MaxFailures = 2
  MaxTimeouts = 0
  MaxWritten = 4
INVARIANTS
  
  StatusFollows
