\* Three rows, two URLs and two titles, two pages looked up and two edits or
\* failures: a merge of a merged item, and a URL that arrives while an item is merged.
CONSTANTS
    s1 = s1
    s2 = s2
    e1 = e1
    e2 = e2
    Urls = {"page#section", "other"}
    Titles = {"walk", "THE talk"}
    NormalUrl <- MCNormalUrl
    SqlUrl <- MCSqlUrl
    TitleMatch <- MCTitleMatch
    Savers = {s1, s2}
    Editors = {e1, e2}
    MaxItems = 3
    MaxPages = 2
    MaxEdits = 2
SPECIFICATION Spec
SYMMETRY Symmetry
CHECK_DEADLOCK FALSE
INVARIANTS StoriesOnce SourcesDiffer
PROPERTY MergeKeepsUrls
