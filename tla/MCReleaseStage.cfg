CONSTANTS
    Manifests <- MCManifests
    Bundles <- MCBundles
    Runs <- MCRuns
    Signed <- MCSigned
    Logged <- MCLogged
    Trusted <- MCTrusted
    RekorKeys <- MCRekorKeys
    Signers <- MCSigners
    DeviceType = "gateway"
    Installer <- MCInstaller
    Callers = {c1, c2}
    Requests <- MCRequests
    Configs <- MCConfigs
    Width <- MCWidth
    Chains <- MCChains
    EventRoom = 1
    MaxRestarts = 1
SPECIFICATION FairSpec
INVARIANTS
    TypeOK
    VerdictRight
PROPERTIES
    ImplementsGate
    StageAnswers
