\* Two shows, every view, rows in three; an axis and a Similar feed, two filter sets, two pages; two queries of three
\* pages; two shows in two boxes; three covers in a pool of two;
\* sources of three episodes, and of two uploads and a change, a page each, two pages at most;
\* a viewer of three pages, or of a book of five units, in a narrow and a wide window;
\* an airing show of two episodes, one delay, seven gestures; two shows of which one may be MyAnimeList's.
SPECIFICATION ScreensSpec
CONSTANTS
    None = None
    Axes = {"trending"}
    Seeds = {s1, s2}
    Filters = {x1, x2}
    MaxPages = 2
    MaxEmpty = 1
    LastPage = 2
    MaxChanges = 2
    Queries = {q1, q2}
    Blank = Blank
    MaxAsked = 3
    Shows = {a, b}
    Stocked = {"Browse", "History", "Discover"}
    Sections = TRUE
    MaxFetches = 1
    Boxes = {pane, page}
    NoBox = NoBox
    Urls = {u1, u2, u3}
    PoolCap = 2
    Concurrency = 2
    Rows = 2
    Impersonates = TRUE
    Servers = 2
    MaxNumber = 3
    Limit = 1
    MaxFeedPages = 2
    Window = 2
    MaxUploads = 2
    MaxRanked = 3
    MaxSiteChanges = 1
    Kinds = {"images", "fixed", "book"}
    Pages = 3
    Unit = 4
    Zooms = {100, 200}
    Fits = {"page"}
    Rtl = {TRUE}
    MaxRequests = 2
    LastEp = 2
    MaxTime = 3
    MaxLooks = 7
    MaxDelays = 1
    MaxKeys = 4
    MaxSearches = 1
    MaxExpiries = 1
    Titles = {"a", "b"}
    Bridged = {"a"}
    Found <- MCFound
INVARIANTS FocusIsOnScreen FeedIsWhole ListIsOneQuery HeldIsAsAsked HonestAnswers ReadsOn NoticesAreKept
PROPERTIES PromotesForTheShownShow GridShowsItsCovers HealsWhole
