SPECIFICATION Spec
CONSTANTS
  Skew = 1
  NoDigest = 0
  Malformed <- NoHash
  Normal <- MCNormal
  Domain <- MCDomain
  Invalid = 0
  MaxSupportingIds = 2
  Lower <- LastDigit
  Within <- SameDigit
  SearchLimit = 2
  OptionLimit = 2
  DigestLimit = 2
  DefaultTop = 2
  MaxTop = 3
  PageRank <- FallingScore
  PerDay = 2
  MaxEvents = 1
  NoTime <- Never
  Similarity <- Alike
  TypePlace <- ByName
  ReviewThreshold = 80
  AutoThreshold = 95
  MaxPerBucket = 2
  MaxPairs = 2
  UrlFlags <- Suspect
  Host <- HostOf
  Scheme <- SchemeOf
  MaxObservations = 4
  MaxUrls = 2
  MaxEntries = 2
  MaxLines = 5
  Burst = 3
  Window = 2
  Hints <- FieldHints
  MaxPerAnchor = 3
  MaxPairEvals = 9
  MaxPerPair = 5
  MaxTotal = 20
  MaxStatements = 2
  Extracted = 8
  MaxLlmPairs = 2
  Histories <- CustodyInput
  Scopes <- CrossInput
  Readers <- CrossReaders
  Deleted = {{}, {1}}
  Questions <- AssistantInput
  Timelines <- TimelineInput
  Populations <- MatchingInput
  Exhibits <- TriageInput
  Dossiers <- ContradictionInput
  Unreadable <- NoPosition
  Passage <- OnePosition
  DraftLength = 5
  AmountsIn <- ClaimAmounts
  DatesIn <- ClaimDates
  StatesTotal <- SaysTotal
  TokensIn <- ClaimTokens
  MaxClaims = 3
  MaxChecks = 2
  MaxCited = 2
  MaxMatches = 1
  MaxExcerpts = 1
  Reports <- AuditInput
CHECK_DEADLOCK FALSE
INVARIANTS
  EvidenceIsJudged
  AnswersStayInScope
  ConflictsMeetTheMatrix
  MoneyIsTraced
  SuggestionsAreAccountedFor
  
  ReadingsAreTrue

