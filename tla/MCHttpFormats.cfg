CONSTANTS
  RangeMaxCount = 4
  LongMax = 99
  FileMax = 2
  HeaderMax = 8
  Alphabet <- MCAlphabet
  MaxLength <- MCMaxLength
  Path <- MCPath
  ParamNames <- MCParamNames
  Patterns <- MCPatterns
  Lengths <- MCLengths
  Forms <- MCForms
  LineSize <- MCLineSize
  Directories <- MCDirectories
  Files <- MCFiles
  Unreadable <- MCUnreadable
  Mounted <- MCMounted
SPECIFICATION Spec
INVARIANTS
  ParametersArrive
  TextsArrive
  PathsStayBelow
  RoutesMatchByPart
  RangesAreAnswered
  FormArrives
\* A text has its length, a form its end.
CHECK_DEADLOCK FALSE
