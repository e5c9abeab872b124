CONSTANTS
  ping = ping
  text = text
  bytes = bytes
  more = more
  t1 = t1
  t2 = t2
  Call = {ping, text, bytes, more}
  WithPayload = {bytes, more}
  Task = {t1, t2}
  RestartsEarly = FALSE
SPECIFICATION FairSpec
INVARIANTS
  OneTask
  MadeOnceInOrder
  PayloadsOfQueued
PROPERTIES
  EveryCallMade
