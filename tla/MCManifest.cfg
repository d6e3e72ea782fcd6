SPECIFICATION Spec
CONSTANTS
  Document <- Files
  Word = 16
  MaxToml = 99
INVARIANTS
  TypeOK
  ReadersAgree
  SameFilesAreTaken
  RoutedIsWithinFloor
  ClampsAreLogged
CHECK_DEADLOCK FALSE
