\* A source that goes on after a pause of five seconds.
SPECIFICATION FairSpec
CONSTANTS
    Mount <- OneMount
    Free = Free
    PipeSize = 1
    MaxChunks <- ThreeChunks
PROPERTIES UploadGoesOn
CHECK_DEADLOCK FALSE
