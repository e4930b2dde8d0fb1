SPECIFICATION Spec
CONSTANTS
    Subject <- MCSubject
    Sender <- MCSender
    DefaultSlot = 2
    SlotUnit = 1
    FolderType <- MCFolderType
    NewNames = {"New"}
    Rules <- MCRules
    Slots = {0, 1}
    Attached = {1}
    Drafts = {5}
    Incoming = {4, 6, 7}
    Garbled = {7}
    Starts <- MCStarts
INVARIANTS TypeOK SyncMirrors RowsTellTheUid ThreadHasOneHead MailsHaveTheirMailbox DeletionReachesServer
PROPERTIES MailsAreKept MessagesAreKept FilesStay
CHECK_DEADLOCK FALSE
