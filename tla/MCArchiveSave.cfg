SPECIFICATION Spec
CONSTANTS
  s1 = s1
  s2 = s2
  s3 = s3
  n1 = n1
  n2 = n2
  Saves = {s1, s2, s3}
  Loads = {l1}
  Names = {n1, n2}
  NameOf <- MCNameOf
  NMembers = 2
  Oversized = {s3}
  NoSave = NoSave
INVARIANTS TypeOK PublishedComplete StoredIsThere TempAccountedFor LoadsAreWhole
PROPERTIES PublishedStays ImplementsStore
CHECK_DEADLOCK FALSE
