\* One process: its goroutines share the mutex.
CONSTANTS
  server = server
  command = command
  g1 = g1
  g2 = g2
  c1 = c1
  Thread = {g1, g2}
  Process = {server}
  ProcessOf <- OneProcess
  Image = {v1, v2}
  Inode = {i1, i2, i3, i4}
  None = None
  Empty = Empty
  Torn = Torn
SPECIFICATION Spec
PROPERTIES
  ReplacedAtomically
