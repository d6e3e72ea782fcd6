SPECIFICATION Spec
CONSTANTS
  Conn = {c1, c2, c3}
  Name <- MCName
  ValidName <- MCName
  Chan <- MCChan
  Lower <- MCLower
  TargetLists <- MCLists
  Topic = {"t0"}
  DefaultTopic = "t0"
  DefaultChan = "#p"
  NoNick = NoNick
  NoTopic = NoTopic
  Silence = Silence
SYMMETRY Sym
INVARIANT MembersAreLive
PROPERTY ImplementsPartyline
CHECK_DEADLOCK FALSE
