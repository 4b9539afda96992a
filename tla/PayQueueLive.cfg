CONSTANTS
  a = a  b = b  c = c  d = d
  ann = ann  bob = bob
  m1 = m1  m2 = m2  m3 = m3  m4 = m4
  NoUser = NoUser  NoUid = NoUid  NoProc = NoProc
  Users = {ann, bob}
  Media = {m1, m2, m3, m4}
  InitMedia <- OneItem
  Owner <- OwnerDef
  MediaOf <- MediaDef
  Procs = {a, b}
  Kind <- QueueNext
  Faults = {"spend_refused", "add_refused", "move_refused"}
  MaxRestarts = 0
SPECIFICATION FairSpec
INVARIANTS PaidSafe ErrorIsFree
PROPERTIES Answered ShadowConverges
