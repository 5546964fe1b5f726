CONSTANTS
    NONE = NONE
    MagiskPrefix <- MCMagiskPrefix
    VersionCodeKey <- MCVersionCodeKey
    Digits <- MCDigits
    Defaults <- MCDefaults
SPECIFICATION Spec
INVARIANT LoadConfigMatchesReference
