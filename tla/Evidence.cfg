CONSTANTS
  TagOrder <- MCTagOrder
  System <- MCSystem
  Arch <- MCArch
  Toolchain = {"cgo"}
  Ignore = "ignore"
  Platforms <- MCPlatforms
  HostSystem = "linux"
  HostArch = "arm"
  MaxFreeTags = 4
  KeyOrder <- MCKeyOrder
  RowOf <- MCRowOf
  Go = "go"
  Language = {"go", "rust"}
  Unset = Unset
  Bad = Bad
  Width = 12
  Unlimited = 4000
  NoFile = NoFile
  Cases <- MCEvidenceCases
  None = None
  Symbol <- Of
  Outside = Outside
SPECIFICATION EvidenceSpec
CHECK_DEADLOCK FALSE
INVARIANTS SettingsRanked TargetRead HeadroomHonest NarrowingsHold ClaimsWhole BodiesRead HeldLive ProgramRead ArtifactsHold RemarksHold
