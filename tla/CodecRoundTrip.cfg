\* One connection carrying up to two frames; values include one of 65528 bytes.
CONSTANTS
    Tags <- MCTags
    Keys <- MCKeys
    Values <- MCValues
    Versions <- MCVersions
    MaxMsgs = 2
SPECIFICATION Spec
INVARIANT DecodedAreSent
