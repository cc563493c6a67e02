SPECIFICATION Spec
CONSTANTS
  Names = {"work", "staging"}
  Default = "default"
  URLs <- MCURLs
  HTTPURLs <- MCHTTPURLs
  ClientIDs = {"public", "mine"}
  ProductionEndpoint = "production"
  DefaultAuth <- MCDefaultAuth
  Scheme <- MCScheme
  Host <- MCHost
  Loopback = {}
  DevLoopbackEnabled = FALSE
  KnownHarnesses <- MCKnownHarnesses
  ClaudeCode = "claude-code"
  Antigravity = "antigravity"
  Devin = "devin"
  Windsurf = "windsurf"
  Footprints <- MCFootprints
  Starts <- MCStarts
  Contents <- MCContents
  Lines <- MCLines
  Failures <- MCFailures
INVARIANTS
  TypeOK
  JSONContract
  RequestsGoWhereConfigured
  PrecedencePerField
  GuideNeedsNoConfig
  InstalledIsInPlace
  NothingWrittenUnlessWanted
PROPERTY InterruptEnds
CHECK_DEADLOCK FALSE
