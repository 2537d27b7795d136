CONSTANTS
    Nothing = Nothing
    NaN = NaN
    Blank = Blank
    Texts = {Blank, t0}
    Empty = Empty
    Docs = {Empty, d1, d2}
    Keys = {"k"}
    Values = {"v"}
    Urls = {"u"}
    Bodies = {"b"}
    MaxRows = 3
    Sample = Sample
    Other = Other
    Bad = Bad
    NoScript = NoScript
    MaxLints = 2
    MaxLoads = 2
    NoId = NoId
    Ids = {i1, i2}
    Keyed = {i1}
    MaxReads = 2
    RowIds = {r1, r2}
    MaxCalls = 2
    s1 = s1
    s2 = s2
    t1 = t1
    t2 = t2
    Systems = {s1, s2}
    Tiles = {t1, t2}
    OwnerOf <- MCOwnerOf
    FilterIds = {f1, f2}
    MaxPages = 2
    MaxAsks = 3
    Failure = Failure
    FileNames = {"f"}
    Entries <- MCEntries
    MaxOrders = 2
    d1 = d1
    d2 = d2
    p1 = p1
    p2 = p2
    Schemas = {NoSchema, d1, d2}
    NoSchema = NoSchema
    PathsOf <- MCPathsOf
    MaxDocs = 2
    MaxTasks = 2
    NodeIds = {a, b}
    Drawn = {a}
    Looks = {Plain, styled}
    Plain = Plain
    MaxEdges = 2
SPECIFICATION WebSpec
INVARIANTS
    PagesTypeOK
    SavedRequestComesBack
    PickedIsInEditor
    SelectionListed
    FormsWriteTheirRow
    ListAtRestIsTable
    ViewIsOfSelection
    RowsAreOfFolder
    FieldsFitTemplate
    DiagramAgrees
PROPERTIES
    PanelsShowLastAnswer
    EditorShowsLastAnswer
    ToggleNeverMislabels
    ResponseIsLastAnswer
    OutputIsLastAnswer
    SelectionSticks
    PagesSettle
