CONSTANTS
    Urls <- MCUrls
    Files <- MCFiles
    Servers <- MCServers
    Start <- MCStart
SPECIFICATION FairSpec
INVARIANTS
    SecretOnlyToTrusted
PROPERTIES
    TrustedReached
