SPECIFICATION ReadsSpec
CONSTANTS
  Rows = {1, 2}
  Organizations = {"lab"}
  OrgOf <- OneOrganization
  Mine = {1}
  Runs = {1}
  MembershipsIn <- ManagerOrNot
  StampsOf <- TwoStamps
  MicrosPerMilli = 2
  PageSize = 1
  MaxHeld = 1
  NoCursor = NoCursor
INVARIANTS
  EveryPageHasItsCursor
CHECK_DEADLOCK FALSE
