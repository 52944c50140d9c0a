\* Both brokers: safety, the promise, and progress while every message fits MaxAckPending.
SPECIFICATION FairSpec
CONSTANTS
  e1 = e1  e2 = e2
  a1 = a1  k1 = k1
  w1 = w1  w2 = w2
  Events = {e1, e2}
  Blank = {}
  Accounts = {a1}
  Keys = {k1}
  KeyOwner <- MCKeyOwner
  Credential <- MCCredential
  Workers = {w1, w2}
  Kept = {w1, w2}
  Brokers = {"jetstream", "core"}
  MaxAckPending = 2
  MaxFaults = 2
  NoKey = NoKey  NoMsg = NoMsg  NoWorker = NoWorker  Absent = Absent
INVARIANT TypeOK NoSilentLoss Attribution CoreHandlesOnce
PROPERTY StoredOnce ImplementsDelivery ImplementsWorkerLife StreamedIsStored
CHECK_DEADLOCK FALSE
