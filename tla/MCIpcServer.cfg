\* Two clients that compete for the one session.  The server may stop.
CONSTANTS
  Clients = {c1, c2}
  NoClient = NoClient
SPECIFICATION FairSpec
CHECK_DEADLOCK FALSE
INVARIANTS
  HandleMatchesSession
  FatalOnlyIfVanished
PROPERTIES
  RequestAnswered
  AnswerAdvances
