SPECIFICATION Spec
CONSTANTS
  None = None
  OtherBytes = OtherBytes
  small = small
  incompressible = incompressible
  big = big
  huge = huge
  empty = empty
  Names <- MCNames
  Types <- MCTypes
  Precompressed <- MCPrecompressed
  Contents <- MCContents
  Size <- MCSize
  GzSize <- MCGzSize
  Passwords = {p1}
  Nonces = {n1, n2}
  HeaderLen = 3
  TagLen = 1
  GzipMin = 2
  GzipRoom = 1
  GzipMinLen = 2
  MaxLen = 3
  MaxFileBytes = 6
  MaxStreamBytes = 16
  MaxAlterations = 2
  Characters <- MCCharacters
  NameStrings <- MCNameStrings
  TypeStrings <- MCTypeStrings
  Separators = {"/"}
  Dropped = {"ctl"}
  Replaced = {":"}
  White = {" ", "nbsp"}
  Printable = {"a", "b", "d", "/", ";", " ", "("}
  Token = {"a", "d", "b"}
  Upper <- MCUpper
  Devices <- MCDevices
  DefaultName <- MCDefaultName
  DefaultType <- MCDefaultType
INVARIANTS
  AcceptedIsGenuine
  PackedFits
  NamesAreSafe
  MetadataSurvives
PROPERTIES RoundTrip
CHECK_DEADLOCK FALSE
