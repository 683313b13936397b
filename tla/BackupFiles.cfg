\* Three contents of the files.  Opening, unmounting, making, copying, renaming and
\* removing files fail, each any number of times; the daemon is killed at any step.
SPECIFICATION Spec
CONSTANTS
    MaxVersion = 4
    FaultKinds = {"open", "unmount", "tree", "copy", "rename", "renameBack", "remove"}
INVARIANTS TypeOK BackupComplete OldFilesKept RestoreFailsWhole
