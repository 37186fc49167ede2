SPECIFICATION Spec
CONSTANTS
  Conversation = c
  Agents = {1, 2}
  Capacity <- Places
  NoAgent = noAgent
  Users = {u}
  Disconnects = {d}
  Worker = w
  Nothing = nothing
  MaxEvents = 3
  MaxFailures = 1
  MaxTimeouts = 1
  MaxWritten = 0
INVARIANTS
  TypeOK
  SlotIsReleasable
  EndedIsGone
  AgentsAgree
