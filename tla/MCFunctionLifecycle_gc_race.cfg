SPECIFICATION Spec
CONSTANTS
    Deploys = {d1}
    Rollbacks = {}
    Deletes = {}
    EnvEdits = {}
    Invokes = {}
    Collectors = {g1}
    Names = {n1}
    Owners = {o1}
    Workspaces = {}
    Users = {u1}
    Hashes = {h1}
    Descs = {s1}
    Limit = 0
    None = None
INVARIANT ReferencedBlobsExist
