SPECIFICATION Spec
CONSTANTS
  d1 = d1  d2 = d2  r1 = r1  r2 = r2  k1 = k1
  Docs = {d1, d2}
  Downloads = {r1, r2}
  Submissions = {k1}
  DocOf <- SameDoc
  Crashes = TRUE
  RemoveFails = FALSE
INVARIANTS TypeOK DocumentsReadable AnsweredIsClean
CHECK_DEADLOCK FALSE
