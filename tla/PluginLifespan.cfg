\* One Host, started again whenever it ended, and new code put in place once.
SPECIFICATION FairSpec
CONSTANTS
    Module = {m1, m2}
    MaxVersion = 2
INVARIANTS
    TypeOK ClientOutlivesWorker HealthIsHonest IdentityIsOfThisProcess
    MirrorIsAsShown
PROPERTY ServesWithoutArchive
