SPECIFICATION Spec
CONSTANTS
  ProfileIds = {p1, p2}
  Aliases = {a, b}
  BundledAlias = a
  MaxEdits = 3
  MaxVersion = 3
  MaxMoves = 1
  MaxProfileBoots = 1
  Runtimes = {r1, r2}
  NoRuntime = NoRuntime
  Tokens = {t1}
  MaxRuns = 3
  MaxRequests = 2
  Users = {admin, u2, u3}
  Admin = admin
  Roles = {administrator, role2}
  Administrator = administrator
  Sessions = {s1, s2}
  Full = {"auth.write", "other"}
  MaxPasswords = 3
  MaxChanges = 3
  Catalog <- MCCatalog
  RuntimeFlags <- MCRuntimeFlags
  Numbers <- MCNumbers
  Items <- MCItems
  Inline <- MCInline
  Lower <- MCLower
  Dashed <- MCDashed
  LongFlags <- MCLongFlags
  TrueTexts <- MCTrue
  FalseTexts <- MCFalse
  UnsafeTexts = {}
  ModelWords <- MCModelWords
  Phrases <- MCPhrases
  LegacyGroups <- MCGroups
  Entries <- MCEntries
  Removals <- MCRemovals
  MaxPhrases = 3
  MaxGroups = 2
  MaxEntries = 2
SYMMETRY Symmetry
INVARIANTS  RouterObeysRecords  ArgumentsKept ImportIsStable
PROPERTIES ChoicesStand RollbackRestores
CHECK_DEADLOCK FALSE
