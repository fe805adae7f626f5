\* One client that may read nothing, or come late; small queues,
\* two writers, two keys, calls, presses and a change of layer.
SPECIFICATION Spec
SYMMETRY Symmetric
CONSTANTS
  Clients = {c1}
  Writers = {w1, w2}
  NumKeys = 2
  Values = {a, b}
  QueueSize = 2
  MaxDrops = 1
  MaxClients = 1
  PressQueue = 2
  MaxWork = 2
  MaxLayers = 1
  None = None
INVARIANTS ClientsAgree ChildrenInOrder
CHECK_DEADLOCK FALSE
