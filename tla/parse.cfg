SPECIFICATION Spec
CONSTANTS
    MaxInt = 99
    Key <- MCKey
    Values <- MCValues
    Depth <- MCDepth
    Rests <- MCRests
    Torrents <- MCTorrents
    Answers <- MCAnswers
    Urls <- MCUrls
    Raws <- MCRaws
INVARIANTS RoundTrip InfoIsSliced MetadataRead   EscapeRoundTrip
CHECK_DEADLOCK FALSE
