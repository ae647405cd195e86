SPECIFICATION Spec
CONSTANTS
  alice = alice
  bob = bob
  app1 = app1
  app2 = app2
  Users = {alice, bob}
  AppIds = {1, 2}
  AppAddress <- AppAccounts
  Schemas <- TwoSchemas
  Keys = {"x", "y"}
  Names = {"n"}
  NameLength <- Lengths
  Sizes = {1, 2, 3}
  SetupBalance <- Loaded
  SetupApps <- LoadedApp
  SetupLocal <- LoadedOptIn
  Amounts = {5}
  PARAM_MIN_BALANCE = 1
  PARAM_APP_PAGE_FLAT = 1
  PARAM_APP_OPTIN_FLAT = 1
  IntEntry = 1
  BytesEntry = 2
  BoxFlat = 1
  BoxByte = 1
  PARAM_MAX_BOX_SIZE = 2
  MaxTxns = 3
INVARIANTS
  TypeOK
  MinBalanceIsPrice
  WithinSchema
  StateIsPaidFor
PROPERTIES
  BoxSizesStay
CHECK_DEADLOCK FALSE
