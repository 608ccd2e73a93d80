SPECIFICATION Spec
CONSTANTS
    Inode = {f1, f2, f3, f4}
    NoInode = NoInode
    MaxVersion = 2
    Size <- Sizes
    Overlap = FALSE
    IoErrors = TRUE
INVARIANTS
    TypeOK
    SnapshotReadable
    FinalSnapshotComplete
PROPERTY
    SnapshotNeverGoesBack
