SPECIFICATION Spec
CONSTANTS
  Normal <- MCNormal
  Repositories <- MCRepositories
  Worlds <- MCWorlds
  VulnId <- MCVulnId
INVARIANTS
  TypeOK
  FilesAgree
  NothingInvented
  NothingOverlooked
  AdvisoriesOnce
  GraveIsAlerted
