SPECIFICATION Spec
CONSTANTS
  Conversations = {c1}
  Users = {u1, u2}
  Agents = {a1, a2}
  Disconnects = {d1, d2}
  Worker = worker
  Nobody = nobody
  Nothing = nothing
SYMMETRY Symmetry
INVARIANTS
  TypeOK
  ListedWithRecord
  RecordIsFound
