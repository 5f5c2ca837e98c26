\* A peer that declares resources of its own.
CONSTANTS
    Peers = {1}
    SELF = SELF NONE = NONE
    MAX_RID = 9
    MAX_RESOURCES = 2
    MAX_PUBLICATIONS = 2
    MAX_SUBSCRIPTIONS = 2
    MAX_SUBSCRIPTIONS_PER_PEER = 2
    CountSpace = 8
    Uris <- AllUris
    ValidUris <- Valid
    UriMatches <- Matches
    Resources <- Named
    OwnRids = {1, 2}
    Messages <- OwnResources
    Settled = FALSE
    Cids = {0}
    XmitCid <- OneConduit
    XmitNeed <- Increasing
SPECIFICATION Spec
INVARIANT ListsFit
