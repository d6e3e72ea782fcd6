SPECIFICATION Spec
CONSTANTS
  Conn = {c1, c2, c3}
  Name <- MCName
  ValidName <- MCValid
  Chan <- MCChan
  Lower <- MCLower
  TargetLists <- MCLists
  Topic = {"t0", "t1"}
  DefaultTopic = "t0"
  DefaultChan = "#p"
  NoNick = NoNick
  NoTopic = NoTopic
  Silence = Silence
SYMMETRY Sym
INVARIANTS
  TypeOK
  MembersAreLive
  NicksDistinct
  RegistrationComplete
  ViewsAgree
  DeliveryMatchesRoster
PROPERTY IdentityIsKept
CHECK_DEADLOCK FALSE
