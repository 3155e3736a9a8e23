SPECIFICATION Spec
CONSTANTS
  Urls <- MCUrls
  UrlLength <- MCUrlLength
  PubKeys <- MCPubKeys
  NoUrl = ""
  NoKey = ""
  Failed = Failed
  None = None
  Configs <- MCConfigs
  RelayLists <- MCRelayLists
  DefaultRelays <- MCDefaultRelays
  Offers <- MCOffers
  Requests <- MCRequests
  MaxSent = 4
INVARIANTS NamesServed
CHECK_DEADLOCK FALSE
