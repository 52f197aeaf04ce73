\* Two visits at a time of a file of two chunks; mtimes up to two ticks old or one ahead, three elapsed.
SPECIFICATION ScoreMapSpec
CONSTANTS
  s1 = s1  s2 = s2
  Saver = {s1, s2}
  Chunks = 2
  MinElapsed = 3
  MaxAge = 2
  MaxAhead = 1
  MaxTime = 4
  MaxWrites = 2
SYMMETRY Savers
INVARIANTS EntriesAreFresh QuietFileIsSaved
