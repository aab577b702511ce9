SPECIFICATION Spec
CONSTANTS
  c1 = c1
  c2 = c2
  Clients <- TwoClients
  Form <- ThreeComponents
  BadValues = {0}
  Sources <- AllSources
  Trusted = {"own", "visitor", "tool"}
  Host = "here"
  Scheme = "http"
  Registered <- Menu
  OwnItems <- Items2
  Crumb <- Crumbs
  Hidden <- HiddenThere
  Languages = {"en", "sv"}
  Accept <- Accepted
  Wanted = {"sv", ""}
  FormPath = "doc"
  Submissions <- Forms
  StartDoc <- Scattered
  MaxRequests = 3
INVARIANTS AnsweredOnce MenuIsOwn LanguageFollows SavedIsShown TrustedNeverRefused
PROPERTIES UnmanagedStay OnlyTrustedWrite
CHECK_DEADLOCK FALSE
