SPECIFICATION Spec
CONSTANTS
    PATH_BUF = 8
    MAX_PAT = 5
    NAME_MAX_REV = 3
    CRED_RULE_NAME = 5
    PKT_BUF = 14
    NAME_MAX_LEN = 9
    MAX_READ = 160
    NAME_ROOM = 5
    MAX_EXTS = 3
    MAX_ANSWERS = 3
    PATH_MAX = 30
    WALK_MAX = 8
    USER_MAX = 8
    Builds <- MCBuilds
    Calls <- MCCalls
INVARIANT TypeOK
INVARIANT ReadyWhenTracked
INVARIANT CredExact
INVARIANT DnsExact
INVARIANT SniExact
INVARIANT AnswersExact
INVARIANT RemoveExact
