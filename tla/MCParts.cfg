\* Five independent parts; lines end at four typed characters and a full disk
\* stops a writer, so the run may stop.  Three characters in the ring, reads of
\* two, indices that wrap at 6; ticks wraps at 6 too, so a sleep of 4 that is
\* one tick late ends before it comes round.  Two files of at most three blocks
\* of two cells and an indirect block, in four blocks; the bytes are block
\* numbers, one of them valid.
CONSTANTS
    UINT = 6
    INPUT_BUF = 3
    Keys = {"x"}
    Counts = {2}
    Times = {0, 2, 4}
    MaxLate = 1
    Reader = {p1, p2}
    Sleeper = {p1, p2}
    Inode = {1, 2}
    NBLOCKS = 5
    BSIZE = 2
    NDIRECT = 1
    WORD = 16
    Byte = {4, 5}
    WriteCounts = {3, 15}
    ShChars = {"x", "y", " ", "<", ">", "|", "&", ";", "(", ")"}
SPECIFICATION Spec
CHECK_DEADLOCK FALSE
INVARIANTS
    ConsoleInput
    TimedSleep
    FileContents
    Heap
    ShellParses
    ShellPlumbs
PROPERTY
    EofSeenOnce
