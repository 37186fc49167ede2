\* Two agents, one of them full with its first chat; three conversations.
SPECIFICATION Spec
CONSTANTS
  Agents = {1, 2}
  Conversations = {c1, c2, c3}
  Capacity <- Places
  NoAgent = NoAgent
  MaxTimeouts = 1
SYMMETRY ConversationSymmetry
INVARIANTS
  TypeOK
  AssignedIsListed
  NoOverbooking
