SPECIFICATION Spec
CONSTANTS
    Instances = {home, away}
    Home = home
    Imports = {m1, m2}
    Names = {0, 1, 2, 3}
    MaxBundles = 5
    Sensitive = {"authorization", "token"}
    Uuids = {"u1", "u2"}
    Templates = {"${uuid}"}
    Streams <- MCStreams
    Foreign <- MCForeign
    Substitutions <- MCSubstitutions
SYMMETRY ImportSymmetry
INVARIANTS TypeOK CopyFaithful SelfContained NothingSensitive IdentityKept
PROPERTY OriginalsUntouched
CHECK_DEADLOCK FALSE
