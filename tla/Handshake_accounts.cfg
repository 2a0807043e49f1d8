SPECIFICATION HandshakeSpec
CONSTANTS
    MaxUsers = 2
    Names <- MCNames
    Stored <- MCStored
    Kept <- MCKept
    Passwords <- MCPasswords
    NoName <- MCNoName
    MaxByte = 5
    Ipv4Len = 1
    Ipv6Len = 2
    MaxLen = 2
INVARIANTS
    AdminRemains
    DestinationExact
PROPERTIES
    CredentialsTakeEffect
    FollowsGrammar
