SPECIFICATION Spec
CONSTANTS
    None = None
    Replicas = {r1, r2}
    TrackOrder <- MCTracks
    Commits <- MCCommits
    Files <- MCFiles
    Migrations <- MCMigrations
    Environments <- MCEnvironments
    Asked = {1, 2}
    MaxUnderway = 2
INVARIANTS
    EveryLessonIsServed
    SurfacesAgree
    NothingIsTakenBack
    MigratedOnceAndWhole
SYMMETRY ReplicaSymmetry
