SPECIFICATION Spec
CONSTANTS
  c1 = c1
  c2 = c2
  Clients <- TwoClients
  Form <- ThreeComponents
  BadValues = {0}
  Sources <- AllSources
  Trusted = {"own", "visitor", "tool"}
  Host = "here"
  Scheme = "http"
  Registered <- Menu
  OwnItems <- Items2
  Crumb <- Crumbs
  Hidden <- HiddenThere
  Languages = {"en", "sv"}
  Accept <- Accepted
  Wanted = {"sv", ""}
  FormPath = "doc"
  Submissions <- Forms
  StartDoc <- Scattered
  MaxRequests = 1
INVARIANT LanguageInOrder
CHECK_DEADLOCK FALSE
