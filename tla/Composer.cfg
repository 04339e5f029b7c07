SPECIFICATION ComposerSpec
CONSTANTS
    Slots = {c1, c2}
    Files = {f1}
    UploadTTL = 1
    MaxLetters = 2
    MaxDrafts = 2
    MaxRows = 1
    MaxOpens = 3
    MaxDeeds = 7
    MaxTime = 2
    MaxMishaps = 1
SYMMETRY Interchangeable
INVARIANTS
    LettersKept
    MailsArePressed
    DraftsOfSentGone
    RefusedFilesExplained
CHECK_DEADLOCK FALSE
