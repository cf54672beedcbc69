\* The same section of a page, found twice by one collection.
CONSTANTS
    s1 = s1
    Urls = {"page#section"}
    Titles = {"THE talk"}
    NormalUrl <- MCNormalUrl
    SqlUrl <- MCSqlUrl
    TitleMatch <- MCTitleMatch
    Savers = {s1}
    Editors = {}
    MaxItems = 2
    MaxPages = 2
    MaxEdits = 0
SPECIFICATION Spec
CHECK_DEADLOCK FALSE
INVARIANT UrlsOnce
