SPECIFICATION Spec
CONSTANTS
  Base = 2
  MaxUint = 4
  Offers <- MCOffers
  Undeclared = Undeclared
  Nothing = Nothing
  MaxChain = 3
INVARIANTS
  TypeOK
  NeverBack
  SameMeansRepair
  UpgradesFollowSemVer
