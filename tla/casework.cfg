SPECIFICATION Spec
CONSTANTS
  s1 = s1
  s2 = s2
  s3 = s3
  Submitter = {s1, s2, s3}
  Ask <- AskIs
  Features = {"timeline", "custody", "cross_case", "report_audit", "triage", "multilingual"}
  MaxRestarts = 1
  Client = {c1, c2}
  Admin = {c1}
  c1 = c1
  c2 = c2
  Topics = {"findings", "collection", "hypothesis", "report", "proposal", "candidate"}
  Alone = {"proposal"}
  Outputs <- OutputsAre
  MaxRequests = 4
INVARIANTS
  AnswersMatchRequest
  StatusIsEarned
  CommittedOnce

  
CHECK_DEADLOCK FALSE
