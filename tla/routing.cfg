SPECIFICATION Spec
CONSTANTS
  Fleet = Fleet
  NoName = NoName
  NoMessage = NoMessage
  n1 = n1
  n2 = n2
  d = d
  Agents <- TwoOrgs
  DomainsOf <- SharedDomain
  Messages <- FourMessages
  Own = "acme"
INVARIANTS TypeOK OwnOrgOnly  ToReader DirectToAddressee
PROPERTIES RoutesAlone
CHECK_DEADLOCK FALSE
