SPECIFICATION MCSpec
CHECK_DEADLOCK FALSE
CONSTANTS
  one = one
  four = four
  Nobody = Nobody
  Payload <- MCPayload
  Size <- MCSize
  Hdr = 2
  Chunk = 4
  BufSize = 4
  Window = 2
  Lengths = {0, 2, 5}
  Faults = {"write", "disconnect", "connect"}
  Phones = {p1}
  Deployers = {d1}
  Senders = {s1}
  Tasks = {t1}
  NumFds = 4
  Sizes = {1, 3}
  Capacity = 2
INVARIANTS Intact Reachable DescriptorsKept GivenWhole
PROPERTIES EveryTransferArrives ClientsServed
