SPECIFICATION MCSpec
CONSTANTS
    c1 = c1
    c2 = c2
    c3 = c3
    p1 = p1
    p2 = p2
    Disk = Disk
    BlockSize = 2
    Threads = {t1, t2}
    OpenFiles = {o1, o2}
    MaxBuffer = 2
    MaxOffset = 2
    RootInode = root
    dir = dir
    Names = {"d", "f"}
    Tree <- OneDirectory
    Directories = {root, dir}
    Files = {f1, f2}
    Paths <- FourPaths
    None = None
SYMMETRY Alike
INVARIANTS
    BlockInv
    FileSizeExact
    CacheInv
    AnswersRight
PROPERTIES
    EntriesStay
CHECK_DEADLOCK FALSE
