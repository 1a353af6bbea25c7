CONSTANTS
    Workers = {}
    Main = main
    LateCount = FALSE
    MaxReports = 1
    MaxJobs = 2
    JobIds = {1, 2, 3}
    MaxActions = 3
    MaxFailures = 1
    Sections = {"featured", "curated", "recent"}
    Featured = "featured"
    MaxCatalog = 1
    Texts = {s1, s2}
    NoText = notext
    MaxStamp = 3
    MaxBack = 2
    PageApps = {p1, p2}
    MaxChanges = 3
    Categories = {c1, c2}
    NoCategory = nocategory
    WithFeatured = {c1}
    MaxCategoryLoads = 3
    one = one
    other = other
    ListedApps = {one, other}
    Alternates <- MCAlternates
    FileApp = file
    NoApp = noapp
    MaxDetailLoads = 2
SPECIFICATION PagesSpec
CHECK_DEADLOCK FALSE
INVARIANTS NothingShownTwice UpdatesInv OverviewInv SearchInv InstalledInv CategoryInv DetailsInv
PROPERTIES LoadsEnd ResultsAreOfTheText
