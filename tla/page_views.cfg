SPECIFICATION Spec
CONSTANTS
    Latin1 <- InLatin1
    LongTexts <- LongOnes
    PrettyTypes <- HtmlOnly
    Urls <- SomeUrls
    BadPaths <- NoHost
    Bodies <- SomeBodies
    Pairs <- SomePairs
    TopSize = 1
    PathsSize = 1
    PaletteSize = 2
    MaxId = 2
    Data <- TwoRecords
    MaxGestures = 4
INVARIANTS ViewFollowsSelection ListenersMatch ViewerCurrent UrlAndParamsAgree
           SentBodyIsEdited PanelsCurrent
PROPERTIES ColorsKept
CHECK_DEADLOCK FALSE
