SPECIFICATION FairSpec
CONSTANTS
    file = file
    directory = directory
    Toolbar = Toolbar
    Uploads <- MCDirectories
    Directories <- MCDirectories
    Files <- MCDirectoryFiles
    Limits = {1}
    MaxRetries = 1
    MaxDisturbances = 2
    MaxVisits = 1
    MaxEvents = 1
INVARIANTS RegistryMatchesWorker NoLostWakeup
PROPERTIES CancelEnds EndedRunFreesSlot
CHECK_DEADLOCK FALSE
