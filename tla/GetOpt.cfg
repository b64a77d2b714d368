CONSTANTS
  Lines <- MCLines
  Words <- MCWords
  Letter <- MCLetter
  Attached <- MCAttached
  DashDash = "--"
  Empty = ""
  IntOf <- MCIntOf
  Chunks <- MCChunks
  Files = {"v", "7"}
  Addresses = {"v"}
  Persists = {"", "7"}
SPECIFICATION Spec
INVARIANTS
  SettingsAsGiven
  DecidesExactly
PROPERTIES
  EveryLineDecided
