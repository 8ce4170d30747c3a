SPECIFICATION ReadSpec
CHECK_DEADLOCK FALSE
CONSTANTS
    goCall = goCall  pyCall = pyCall  None = None
    Translated = TRUE
    Calls = {goCall, pyCall}
    Ids = {1, 2}
    Lang <- MCLang
INVARIANT OutcomeTruth
