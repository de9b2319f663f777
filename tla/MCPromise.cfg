CONSTANTS
  Callers = {c1, c2, c3}
  Volumes = {v1}
  Methods = {"IsPending", "GetValue", "Fulfill", "Reject"}
  NoCaller = NoCaller
  Nil = Nil
SPECIFICATION FairSpec
INVARIANTS NoDataRace AnswersHold
PROPERTIES CallsReturn ImplementsFuture
CHECK_DEADLOCK FALSE
