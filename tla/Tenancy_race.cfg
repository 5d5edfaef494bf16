CONSTANTS
    Orgs = {o1, o2}
    Users = {u1, u2}
    Projects = {p1}
    Emails = {e1, e2}
    Roles = {"admin", "surveyor"}
    Requests = {r1, r2}
    Solo <- SoloCaps
    None = None
SYMMETRY Symmetry
SPECIFICATION Spec
INVARIANTS
    TypeOK
    EmailUnique
    RowsHaveOrg
    SessionScope
PROPERTIES
    TenantIsolation
