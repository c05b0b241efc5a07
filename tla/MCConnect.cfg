SPECIFICATION FairSpec
CONSTANTS
    Drafts <- MCDrafts
    UserFiles <- MCUserFiles
    Answers <- MCAnswers
    HostKeys <- MCHostKeys
    ReplyDelay <- MCReplyDelay
    ProbeTimeout = 8
    MaxAttempts = 2
    MaxEdits = 1
INVARIANTS
    SessionIsPinned
    VerdictFits
    ProbeFindsAnswering
    SavedProfileRuns
    CallersSecretsOnly
PROPERTIES
    HostKeysHold
    ConnectSettles
CHECK_DEADLOCK FALSE
