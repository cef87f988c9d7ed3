SPECIFICATION Spec
CONSTANTS
    cyril = cyril
    dana = dana
    research = research
    None = None
    Persons = {cyril, dana}
    Admins = {cyril}
    Listed = {cyril}
    Tiers = {research}
    MaxCommands = 3
    MaxSessions = 2
INVARIANTS
    TypeOK
    AuditExplains
    AnsweredIsDurable
    SessionStateExplained
\* After the last command and the last session nothing happens any more.
CHECK_DEADLOCK FALSE
