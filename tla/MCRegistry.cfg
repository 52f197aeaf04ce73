\* Two saves and two readers, one of which has another password, and two seconds.
SPECIFICATION RegistrySpec
CONSTANTS
  s1 = s1  s2 = s2  r1 = r1  r2 = r2
  Savers = {s1, s2}
  Readers = {r1, r2}
  Password <- TwoPasswords
  MaxSecond = 2
SYMMETRY Saves
INVARIANTS OneKey ReportedMeansRecorded ListingComplete
PROPERTY NothingOverwritten
