SPECIFICATION FairSpec
CONSTANTS
    Packets <- MCCopies
    FEC = 2
    FlushAt = 2
    MaxPosts = 2
    Garbage = Garbage
INVARIANTS TypeOK BatchBounded FlushedOnClose OncePerPost AnswerOnce
PROPERTIES ChannelSpec Flushed
CHECK_DEADLOCK FALSE
