SPECIFICATION WalkSpec
CONSTANTS
    Links <- MCLinks
    MaxPost = 5
    MessageLimit = 4
    CaptionLimit = 2
    HeaderLength = 1
    MarkdownLimit = 4
    CaptionMarkdownLimit = 2
    ComplexLimit = 2
    ErrorLimit = 3
    FloodLimit = 2
    LossLimit = 2
    BlurLimit = 1
INVARIANTS  OneAlbumAfterStop 
CHECK_DEADLOCK FALSE
