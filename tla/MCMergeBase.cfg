SPECIFICATION Spec
CONSTANTS
  Commit = {1, 2, 3, 4, 5, 6}
  Null = Null
  Histories <- MCHistories
  Calls <- MCCalls
INVARIANTS BasesRight MarksCleared
