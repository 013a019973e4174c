SPECIFICATION RequestsSpec
CONSTANTS
  x1 = x1
  x2 = x2
  y1 = y1
  y2 = y2
  z1 = z1
  z2 = z2
  w1 = w1
  w2 = w2

  Targets = {"metadata", "acce"}
  AssetTypes = {"acce"}
  Contents <- UploadContents
  MaxPuts = 3
  Completions = {y1, y2}
  Failures = {z1, z2}
  PayloadOf <- ReportedBy

  Passwords = {"p", "q"}
  MaxFailedLogins = 2
  Logins = {y1, y2}
  PasswordChanges = {x1}
  Links = {z1, z2}
  Activations = {w1, w2}

  Subjects = {y1, y2}
  Emails = {z1, z2}
  Callbacks = {w1, w2}
  NoUser = NoUser

  Members = {y1, y2}
  Founders = {y1, y2}
  Requests = {z1, z2}
  Platform = Platform
  MaxVersion = 1
  MaxChanges = 1
  MaxBegun = 2
  MaxFailedSignIns = 1

  People = {x1, x2}
  Founder = x1
  Invites = {y1, y2}
  Addresses = {Addr}
  Petitions = {z1, z2}
  Slugs = {"slug", "other slug"}
  Clients = {w1, w2}
  MaxRows = 2
  NoOne = NoOne

  Handovers = {"sign-in"}
  Holders = {x1, x2}
  OidcSessions = {z1, z2}
  Callers = {w1, w2}
  Nobody = Nobody

  Creations = {x1, x2}
  IdempotencyKeys = {w1, w2}
  Recordings = {"recording"}
  Pipelines = {"pipeline"}
  Assets = {y1, y2}
  Parameters = {"origin"}
  Requires <- NeedsOrigin
  Takes <- NeedsOrigin
  RunBodies <- FirstRunAndRetry
  NoRun = NoRun

  FloorRequests = {x1}
  BeaconRequests = {y1, y2}
  BeaconPatches = {x2}
  Identities = {z1, z2}
  Positions = {w1, w2, Outside}
  OnMap = {w1, w2}
  BeaconLimit = 1
  NoBeacon = NoBeacon

  Rows = {1, 2, 3}
  Organizations = {"lab", "other lab"}
  OrgOf <- SecondRowElsewhere
  Mine = {1}
  Runs = {1}
  MembershipsIn <- SuspendedInTheLab
  StampsOf <- FirstRowMayBeLater
  MicrosPerMilli = 2
  PageSize = 1
  MaxHeld = 1
  NoCursor = NoCursor

  ProfileEdits = {y1, y2}
  ProfileFields = {"display_name", "height_meters"}
  ProfileValues = {"v"}
  NoOverride = NoOverride
SYMMETRY Symmetry
INVARIANTS
  RequestsTypeOK
  ReadyIsValidated
  UploadAnswersHold
  AccountsHold
  GoogleAnswersHold
  OwnerRemains
  GrantsAreCurrent
  InviteSettledOnce
  PetitionDecidedOnce
  HandedOverOnce
  OneRunPerKey
  FloorResourcesHold
  ReadsHold
  TrailNamesAuthors
PROPERTIES
  UploadEndsOnce
  OwnMethodsRemain
CHECK_DEADLOCK FALSE
