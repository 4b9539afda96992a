CONSTANTS
  a = a  b = b  c = c  d = d
  ann = ann  bob = bob
  m1 = m1  m2 = m2  m3 = m3  m4 = m4
  NoUser = NoUser  NoUid = NoUid  NoProc = NoProc
  Users = {ann, bob}
  Media = {m1, m2, m3, m4}
  InitMedia <- TwoItems
  Owner <- OwnerDef
  MediaOf <- MediaDef
  Procs = {a, b}
  Kind <- QueueQueue
  Faults = {"lost_answer"}
  MaxRestarts = 0
SPECIFICATION Spec
INVARIANT FailedAddRefunded
