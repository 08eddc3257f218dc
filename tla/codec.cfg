\* About 120 values, one message after them, and an end of the stream anywhere.
CONSTANTS
    Bits = 15
    First <- MCFirst
    Follow <- MCFollow
    MaxMessages = 2
SPECIFICATION FairSpec
INVARIANTS TruncatedIsRefused WholeMessagesRead
PROPERTIES ImplementsQueue EverythingRead
CHECK_DEADLOCK FALSE
