\* The story goes on over two chapters, with every kind of
\* lock on the first; a call at a time.
SPECIFICATION Spec
CONSTANTS
    a1 = a1
    a2 = a2
    a3 = a3
    s1 = s1
    s2 = s2
    c1 = c1
    c2 = c2
    c3 = c3
    Agent = {a1, a2, a3}
    Story = {s1, s2}
    Seeds <- AllLocks
    Early = {}
    Card = {c1, c2, c3}
    StoryOf <- ChapterOf
    OwnerOf <- Owner
    ExitOf <- Exits
    Mounted = {c1}
    Simulated = {c1, c2, c3}
    Call = {r1}
    Overlap = FALSE
    Copy = {1, 2, 3, 4}
    None = None
INVARIANTS
    TypeOK
    NextChapterReachable
    OldChapterCleared
    LockHolds
