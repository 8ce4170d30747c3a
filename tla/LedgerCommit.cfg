SPECIFICATION FairReadSpec
CHECK_DEADLOCK FALSE
CONSTANTS
    goCall = goCall  pyCall = pyCall  None = None
    Translated = FALSE
    Calls = {goCall, pyCall}
    Ids = {1, 2}
    Lang <- MCLang
INVARIANTS OutcomeTruth
PROPERTIES KeepsContract CallsReturn TransactionsEnd CaughtUp
