SPECIFICATION Spec
CONSTANTS
    file = file
    directory = directory
    Toolbar = Toolbar
    Uploads <- MCUploads
    Directories <- MCDirectories
    Files <- MCFiles
    Limits = {1, 2}
    MaxRetries = 1
    MaxDisturbances = 1
    MaxVisits = 1
    MaxEvents = 1
INVARIANTS TypeOK OneRunPerUpload CompletedIsReal
PROPERTY SlotsAreFilled
CHECK_DEADLOCK FALSE
