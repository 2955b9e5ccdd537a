SPECIFICATION Spec
CONSTANTS
  MasterData <- MCMasterData
  Inputs <- MCInputs
  Counts = {0, 2}
  AssetData <- MCAssetData
  OutletName <- MCOutletName
  DistributorName <- MCDistributorName
  People <- MCPeople
  Later <- MCLater
  Fold <- MCFold
  Submitters = {0, 2}
  TooLong = "TooLong"
  Digits <- MCDigits
  Codes <- MCCodes
  Brands = {b1, b2}
  Models = {m1, m2}
  Names = {n1, n2}
  Editors = {1, 2}
  None = None
  TACs = {"t1", "t2", "t3"}
  Devices = {"A", "B"}
  Files <- MCFiles
  ChunkSize = 2
  Importers = {1, 2}
  Unknown = "none"
  Ids = {"1", "form-options", "phone-catalog"}
  TTL = 1
  Expiry = 1
  MaxDelay = 1
  Submitted <- MCSubmitted
  NSteps = 1
  Categories = {"Barcode", "Laptop"}
  MonthTicks = 2
  YearMonths = 2
  Zone = 1
  MinYear = 1
  MaxYear = 2
  LastTick = 4
  Limit = 1
  Requests = {1, 2}
INVARIANTS
  OfferedIsAccepted StoredIsOffered OneIdentifierPerUnit RetrySendsTheSame RequesterIsNamed
  CatalogIsWhole ServedAsDeclared MatrixIsFollowed
  RoleChangesApply MastersEnd ShownIsTheirs PageAgrees EachInOneBar
PROPERTY WholeFiles
CHECK_DEADLOCK FALSE
