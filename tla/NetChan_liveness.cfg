\* Datagrams lost now and then, both ends keep sending.
SPECIFICATION FairSpec
CONSTANTS
  c1 = c1
  c2 = c2
  Commands = {c1}
  MessageCapacity = 2
  MaxSequence <- LiveSequence
  MaxWrites <- LiveWrites
  MaxLead = 0
  MaxInTransit = 0
  MaxLost = 2
  Repair = 13
  Repeats = FALSE
PROPERTIES EventuallyDelivered
CHECK_DEADLOCK FALSE
