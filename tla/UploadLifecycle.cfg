SPECIFICATION FairSpec
CONSTANTS
    Openings = 2
    IsArray = FALSE
    Uploads = 2
    MaxMishaps = 1
INVARIANT SavedFilesExist
PROPERTY NoOrphans
CHECK_DEADLOCK FALSE
