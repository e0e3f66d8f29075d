CONSTANTS
  turn = turn
  mail = mail
  mailAgain = mailAgain
  conclusion = conclusion
  echo = echo
  approved = approved
  bad = bad
  NoTs = NoTs
  MailId = MailId
  NoMessage = NoMessage
  NoEpisode = NoEpisode
  Episodes <- MailRows
  Inferred = {}
  Hitl = {}
  Faint = {}
  Poison = {bad}
  Message <- MessageOf
  Similar <- EchoPairs
  Window = 2
  Order <- OrderOf
  Passes = {p1, p2}
  ChunkSize = 2
  MaxFailures = 1
  MaxCrashes = 1
  MaxLapses = 0
SPECIFICATION FairSpec
CHECK_DEADLOCK FALSE
PROPERTY Drained
