\* A default of the environment under a section of a world, against the docstring of load_config.
SPECIFICATION McSpec
CONSTANTS
  NULL = NULL
  Users = {"root", "ann", "bob"}
  Root = "root"
  Worlds <- McWorlds
  CreationMode <- McCreationMode
  NamingMode <- McNamingMode
  SlotLimit <- McSlotLimit
  Invitations <- McInvitations
  Closable = {"w1"}
  SelfCreate = TRUE
  Registration = TRUE
  Names <- McNames
  Token <- McToken
  Full = 8
  Threads = {"t1", "t2"}
  Bundles <- McBundles
  Policy <- McPolicy
  Payloads <- McPayloads
  SeedMin = 1
  SeedMax = 3
  Enabled = TRUE
  MaxAttempts = 2
  MaxRequests = 2
  Registries <- McRegistries
  Entities <- McEntities
  Shifts <- McShifts
  Writers = {"p1", "p2"}
  MaxEvents = 3
  Services = {"s1", "s2"}
  Sheets <- McSheets
  ActiveAxes = {"wealth"}
  Deterministic = TRUE
  Strict = TRUE
  MaxOutput = 3
  Hashes = {"h1", "h2"}
  Raws <- McRaws
  MaxTranslations = 2
  Options <- McOptions
  Kind <- McKind
  Allowed <- McAllowed
  InEnv <- McOptions
  BuiltIn <- McBuiltIn
  Number <- McNumber
  Starters = {"p1", "p2"}
  Preferred <- McPreferred
  FirstPort = 8000
  LastPort = 8001
  Admin = "admin"
  Other = "other"
  AdminGiven = TRUE
  OtherAccepted = TRUE
  MaxStarts = 3
  Code <- McCode
  Lower <- McLower
  Classes <- McClasses
  Plain <- McPlain
  Blank <- McBlank
  Common <- McCommon
  Bits <- McBits
  PasswordInputs <- McPasswordInputs
  SettingInputs <- McSettingInputs
  PolicyInputs <- McPolicyInputs
  WearInputs <- McWearInputs
  PayloadInputs <- McPayloadInputs
  RawInputs <- McRawInputs
INVARIANT EnvironmentWins
CHECK_DEADLOCK FALSE
