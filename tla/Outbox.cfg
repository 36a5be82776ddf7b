SPECIFICATION FairSpec
CONSTANTS
  Events = {e1, e2, e3}
  Workers = {w1, w2}
  Undeliverable = {e3}
  BatchLimit = 2
  MaxFaults = 2
INVARIANTS
  TypeOK
  MarkedWasPublished
  AnnouncedWasCommitted
  DuplicatesNeedFaults
PROPERTIES
  CommittedIsPublished
