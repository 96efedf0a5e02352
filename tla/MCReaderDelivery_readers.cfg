SPECIFICATION FairSpec
CONSTANTS
    d1 = d1
    Device <- OneReader
    Token <- Tokens
    NoToken = NoToken
    NoDelivery = NoDelivery
    NoRequest = NoRequest
    NoReply = NoReply
    NoPage = NoPage
    MaxRevision = 3
    PageLimit = 1
    LeaseTtl = 2
INVARIANTS
  LiveReaderKeepsHistory
  ConfirmedIsApplied
PROPERTIES
  ReaderSettles
CHECK_DEADLOCK FALSE
