\* Two peers; resources are declared by the node before the peers use them.
CONSTANTS
    Peers = {1, 2}
    SELF = SELF NONE = NONE
    MAX_RID = 9
    MAX_RESOURCES = 2
    MAX_PUBLICATIONS = 2
    MAX_SUBSCRIPTIONS = 2
    MAX_SUBSCRIPTIONS_PER_PEER = 2
    CountSpace = 8
    Uris <- AllUris
    ValidUris <- Valid
    UriMatches <- Matches
    Resources <- Named
    OwnRids = {1, 2}
    Messages <- Usual
    Settled = TRUE
    Cids = {0}
    XmitCid <- OneConduit
    XmitNeed <- Increasing
SPECIFICATION Spec
  
PROPERTIES CommitAllOrNothing NamesMatch 
