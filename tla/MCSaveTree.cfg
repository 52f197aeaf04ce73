SPECIFICATION Spec
CONSTANTS
  Path <- TreePath
  Root = ""
  Names <- TreeNames
  MayBe <- TreeMayBe
  Excluded = {"c"}
  MaxJobs = 2
  MaxChanges = 2
INVARIANTS UntouchedIsSaved FailsForCause ResultIsStable ListPredictsSave
CHECK_DEADLOCK FALSE
