CONSTANTS
    Orgs = {o1}
    Users = {u1, u2}
    Projects = {p1}
    Emails = {e1, e2}
    Roles = {"admin", "surveyor"}
    Requests = {r1, r2}
    Solo <- SoloCaps
    None = None
SYMMETRY Symmetry
SPECIFICATION Spec
INVARIANTS
    OrgKeepsAdmin
