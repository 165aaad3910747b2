SPECIFICATION Spec
CONSTANTS
    N = 4
    Needles = {"x", "y"}
    Has <- MCHas
    BodyHas <- MCBodyHas
    Attachments <- MCAttachments
    HasAttachments = {2, 4}
    Readable = {1, 2, 4}
    DateOf <- MCDateOf
    LengthOf <- MCLengthOf
    MaxBytes = 8
    MaxTerms = 3
    MaxFilters = 2
    Queries <- MCQueries
INVARIANTS
    FindsTheMeaning
    BodyTermsNeedTheBody
    TypingShowsNoStrangers
PROPERTIES
    SearchEnds
CHECK_DEADLOCK FALSE
