\* Browsing across lost connections, other devices and other models.
SPECIFICATION Spec
CONSTANTS
  Host = {h1, h2}
  Models <- MCModels
  OptionLists <- MCOptionLists
  NanosPerMilli = 4
  UintSize = 8
INVARIANTS
  TypeOK
  BrowseIsOneModel
  WalksNoNullList
  SclHoldsAttributes
  TimeoutsHonoured
