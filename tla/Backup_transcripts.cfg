CONSTANTS
    Files <- MCFiles
    Phones = {"98912"}
    Names <- MCNames
    Given = {"Ali", "Team"}
    Alike <- MCAlike
    Slug <- MCSlug
    Digits <- MCDigits
    Caches <- MCCaches
    MaxUploads = 2
    None = None
SPECIFICATION UploadSpec
INVARIANTS
    EntriesMatch
    NothingElseLost
    ReuploadIsSafe
