SPECIFICATION Spec
CONSTANTS
  Names = {"f", "v"}
  ByValue = {"v"}
  ContractOf <- MCContractOf
  Dirs = {d1, d2}
  None = None
  Modules = {"a", "b"}
  ModuleOf <- MCModuleOf
INVARIANTS PathsAreComplete
  FetchedFilesAgree CallsReachTheirFunction
PROPERTY ImportsSettle
CHECK_DEADLOCK FALSE
