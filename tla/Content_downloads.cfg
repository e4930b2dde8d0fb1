SPECIFICATION MCSpec
CONSTANTS
    Limit = 4
    Emls <- MCEmls
INVARIANTS ShowsTheMessage AttachmentsAreListed SavedIsTheNamed EmlFilesStay ReferencesLead
CHECK_DEADLOCK FALSE
