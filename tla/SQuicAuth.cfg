SPECIFICATION AuthSpec
CONSTANTS
    Streams = {s1, s2, s3}
    Users = {alice, bob}
    NoUser = NoUser
    AcceptCap = 1
INVARIANTS
    OnlyAuthenticated
    AuthenticatedIsPrompt
PROPERTIES
    BadCredentialCloses
    TasksGoOn
CHECK_DEADLOCK FALSE
