CONSTANTS
    Entry <- Entries
    Root = "root"
    Type <- Types
    Name <- NameOf
    Inode <- Numbers
    Listing <- Listings
    Scores <- HardLinks
    Thread = {t1, t2}
    MaxRequests = 5
SPECIFICATION Spec
SYMMETRY Threads
INVARIANTS CountsAgree NothingUsedAfterItsEnd AnswersAreRight NothingLeftBehind
