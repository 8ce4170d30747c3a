SPECIFICATION MCSpec
CHECK_DEADLOCK FALSE
CONSTANTS
    MaxEventTypeBytes = 6
    MaxJSONBytes = 8
    NoArg = NoArg
    Omitted = NoArg
    Inputs <- MCInputs
    HexLen = 4
    MaxEdits = 2
    Originals <- MCOriginals
    Characters <- MCCharacters
INVARIANTS NoFalseRefusal WritersAgree ServerDecidesOnly StoredContract IdIsCanonical OneSpelling
