CONSTANTS
  turn = turn
  mail = mail
  mailAgain = mailAgain
  conclusion = conclusion
  echo = echo
  approved = approved
  bad = bad
  NoTs = NoTs
  MailId = MailId
  NoMessage = NoMessage
  NoEpisode = NoEpisode
  Episodes <- EchoRows
  Inferred = {conclusion}
  Hitl = {approved}
  Faint = {conclusion}
  Poison = {}
  Message <- MessageOf
  Similar <- EchoPairs
  Window = 2
  Order <- OrderOf
  Passes = {p1, p2}
  ChunkSize = 2
  MaxFailures = 1
  MaxCrashes = 1
  MaxLapses = 1
SPECIFICATION Spec
SYMMETRY PassSymmetry
CHECK_DEADLOCK FALSE
INVARIANTS
  AppliedOnce
  NeverSelfConfirms
  MarksTruthful
