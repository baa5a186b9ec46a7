\* Two snapshot attempts with up to two crashes at any step.
\* The run stops once both directories are used, hence no deadlock check.
CONSTANTS
    Dirs = {d1, d2}
    MaxCrashes = 2
SPECIFICATION Spec
INVARIANTS TypeOK MetaOnDiskComplete InstalledSnapshotDurable
CHECK_DEADLOCK FALSE
