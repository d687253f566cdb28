SPECIFICATION Spec
CONSTANTS
    MaxTokens = 3
    Passwords <- AllPasswords
    Latin1 <- SomeLatin1
INVARIANTS
    TypeOK
    KeyAsMeant
    TextIsPrefix
    TypedWhole
CHECK_DEADLOCK FALSE
