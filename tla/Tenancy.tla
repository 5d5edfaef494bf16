------------------------------ MODULE Tenancy ------------------------------
(***************************************************************************)
(* Organizations, their members, projects and sessions, and the quotas of  *)
(* the Solo plan (schema/auth.rs, schema/projects.rs, billing.rs, auth.rs). *)
(*                                                                         *)
(* A resolver is a request: one action per SQL statement, because every    *)
(* await lets another request run.  A request that an early return refuses *)
(* goes back to Idle, or never leaves it.  Row ids are UUIDs and are never *)
(* handed out twice.  Passwords and one-time links are reduced to two      *)
(* flags of a row: active (login succeeds) and invited (an invite link is  *)
(* outstanding).                                                           *)
(***************************************************************************)
EXTENDS Integers, FiniteSets

CONSTANTS
    Orgs, Users, Projects,   \* the ids a run may hand out
    Emails,                  \* normalized addresses
    Roles,                   \* the roles in use
    Requests,                \* the requests that may be in flight at once
    Solo,                    \* Plan::Solo.limits()
    None                     \* SQL NULL, and "no row"

ASSUME RolesAssumption ==
    "admin" \in Roles /\ Roles \subseteq {"admin", "surveyor", "viewer"}
ASSUME SoloAssumption ==
    Solo \in [projects : Nat, admins : Nat \ {0}, non_admin : Nat]
ASSUME NoneAssumption ==
    None \notin Orgs \cup Users \cup Projects \cup Emails
ASSUME FiniteAssumption == IsFiniteSet(Users) /\ IsFiniteSet(Projects)

VARIABLES
    orgs,      \* the orgs table: ids of the rows
    users,     \* the users table: org = None where there is no row
    projects,  \* the projects table: the org of the row, or None
    issued,    \* ids handed out so far
    paid,      \* orgs whose subscription_status grants Crew
    sessions,  \* the JWTs browsers hold; the role is frozen in the token
    req        \* the requests in flight

vars == <<orgs, users, projects, issued, paid, sessions, req>>
tables == <<orgs, users, projects, issued>>

-----------------------------------------------------------------------------
(* Types *)

UserRow == [org : Orgs \cup {None}, email : Emails \cup {None}, role : Roles,
            active : BOOLEAN, invited : BOOLEAN]
NoUser == [org |-> None, email |-> None, role |-> "admin",
           active |-> FALSE, invited |-> FALSE]

Session == [user : Users, org : Orgs, role : Roles]
NoSession == [user |-> None, org |-> None, role |-> "admin"]

Labels == {"idle", "signup_insert", "login_issue", "invite_email", "invite_insert",
           "role_is_admin", "role_count", "role_write",
           "remove_is_admin", "remove_count", "remove_write", "org_delete",
           "project_quota", "project_insert", "project_ensure", "project_delete"}

Request == [at : Labels, by : Session \cup {NoSession}, user : Users \cup {None},
            role : Roles, email : Emails \cup {None}, project : Projects \cup {None}]
Idle == [at |-> "idle", by |-> NoSession, user |-> None,
         role |-> "admin", email |-> None, project |-> None]

TypeOK ==
    /\ orgs \subseteq Orgs
    /\ users \in [Users -> UserRow]
    /\ projects \in [Projects -> Orgs \cup {None}]
    /\ issued \subseteq Orgs \cup Users \cup Projects
    /\ paid \subseteq Orgs
    /\ sessions \subseteq Session
    /\ req \in [Requests -> Request]

Init ==
    /\ orgs = {}
    /\ users = [u \in Users |-> NoUser]
    /\ projects = [p \in Projects |-> None]
    /\ issued = {}
    /\ paid = {}
    /\ sessions = {}
    /\ req = [r \in Requests |-> Idle]

-----------------------------------------------------------------------------
(* Queries *)

Admins(o) == {u \in Users : users[u].org = o /\ users[u].role = "admin"}
NonAdmins(o) == {u \in Users : users[u].org = o /\ users[u].role # "admin"}
ProjectsOf(o) == {p \in Projects : projects[p] = o}

EmailTaken(e) == \E u \in Users : users[u].org # None /\ users[u].email = e

\* The constraints of the users and projects tables: the unique index on
\* lower(email), and the foreign key to orgs.
NoIndex(e) == TRUE    \* mutant of UniqueEmail: no unique index
UniqueEmail(e) == ~EmailTaken(e)
NoKey(o) == TRUE      \* mutant of OrgKey: no foreign key
OrgKey(o) == o \in orgs

\* require_member_quota: org_billing is one SELECT, and fails without the org row.
MemberQuota(o, newAdmin) ==
    /\ o \in orgs
    /\ \/ o \in paid
       \/ newAdmin /\ Cardinality(Admins(o)) < Solo.admins
       \/ ~newAdmin /\ Cardinality(NonAdmins(o)) < Solo.non_admin

\* require_project_quota
ProjectQuota(o) ==
    /\ o \in orgs
    /\ o \in paid \/ Cardinality(ProjectsOf(o)) < Solo.projects

\* OrgBilling::restricted: the read-only lock
Restricted(o) ==
    /\ o \notin paid
    /\ \/ Cardinality(ProjectsOf(o)) > Solo.projects
       \/ Cardinality(Admins(o)) > Solo.admins
       \/ Cardinality(NonAdmins(o)) > Solo.non_admin

\* require_editor_active
EditorActive(s) == s.role # "viewer" /\ s.org \in orgs /\ ~Restricted(s.org)

-----------------------------------------------------------------------------
(* Request bookkeeping *)

Begin(r, request) ==
    req[r].at = "idle" /\ req' = [req EXCEPT ![r] = request]
Goto(r, label) == req' = [req EXCEPT ![r].at = label]
End(r) == req' = [req EXCEPT ![r] = Idle]

\* A request of session s; the fields it does not use keep their Idle value.
Ask(label, s) == [Idle EXCEPT !.at = label, !.by = s]

-----------------------------------------------------------------------------
(* Accounts: signup, login, invites *)

\* signup reads email_taken, then inserts the org and its first admin in one
\* transaction; the unique index on lower(email) rejects a late duplicate.
Signup(r, e) ==
    /\ ~EmailTaken(e)
    /\ Begin(r, [Idle EXCEPT !.at = "signup_insert", !.email = e])
    /\ UNCHANGED <<tables, paid, sessions>>

InsertUser(u, o, e, role, invited) ==
    users' = [users EXCEPT ![u] = [org |-> o, email |-> e, role |-> role,
                                   active |-> FALSE, invited |-> invited]]

SignupInsert(r, o, u) ==
    /\ req[r].at = "signup_insert"
    /\ o \notin issued /\ u \notin issued
    /\ IF ~UniqueEmail(req[r].email)
       THEN UNCHANGED tables
       ELSE /\ orgs' = orgs \cup {o}
            /\ InsertUser(u, o, req[r].email, "admin", FALSE)
            /\ issued' = issued \cup {o, u}
            /\ UNCHANGED projects
    /\ End(r)
    /\ UNCHANGED <<paid, sessions>>

\* verify_email or reset_password: one UPDATE by token.
Activate(u) ==
    /\ users[u].org # None /\ ~users[u].active
    /\ users' = [users EXCEPT ![u].active = TRUE]
    /\ UNCHANGED <<orgs, projects, issued, paid, sessions, req>>

\* login reads the row and checks the password; the cookie is set afterwards.
Login(r, u) ==
    /\ users[u].org # None /\ users[u].active
    /\ Begin(r, Ask("login_issue",
                    [user |-> u, org |-> users[u].org, role |-> users[u].role]))
    /\ UNCHANGED <<tables, paid, sessions>>

\* Mutant of LoginIssue: reads the claims after the request is cleared.
LoginIssueLate(r) ==
    /\ req[r].at = "login_issue"
    /\ End(r)
    /\ sessions' = sessions \cup {req'[r].by}
    /\ UNCHANGED <<tables, paid>>
LoginIssue(r) ==
    /\ req[r].at = "login_issue"
    /\ sessions' = sessions \cup {req[r].by}
    /\ End(r)
    /\ UNCHANGED <<tables, paid>>

\* logout, or the JWT expires.
Logout(s) ==
    /\ s \in sessions
    /\ sessions' = sessions \ {s}
    /\ UNCHANGED <<tables, paid, req>>

InviteUser(r, s, e, role) ==
    /\ s.role = "admin"
    /\ MemberQuota(s.org, role = "admin")
    /\ Begin(r, [Ask("invite_email", s) EXCEPT !.email = e, !.role = role])
    /\ UNCHANGED <<tables, paid, sessions>>

InviteEmail(r) ==
    /\ req[r].at = "invite_email"
    /\ IF EmailTaken(req[r].email) THEN End(r) ELSE Goto(r, "invite_insert")
    /\ UNCHANGED <<tables, paid, sessions>>

\* The unique index and the foreign key to orgs decide.
InviteInsert(r, u) ==
    /\ req[r].at = "invite_insert"
    /\ u \notin issued
    /\ IF ~UniqueEmail(req[r].email) \/ ~OrgKey(req[r].by.org)
       THEN UNCHANGED tables
       ELSE /\ InsertUser(u, req[r].by.org, req[r].email, req[r].role, TRUE)
            /\ issued' = issued \cup {u}
            /\ UNCHANGED <<orgs, projects>>
    /\ End(r)
    /\ UNCHANGED <<paid, sessions>>

\* accept_invite: one UPDATE ... RETURNING by token, then the cookie.
AcceptInvite(u) ==
    /\ users[u].org # None /\ users[u].invited
    /\ users' = [users EXCEPT ![u].active = TRUE, ![u].invited = FALSE]
    /\ sessions' = sessions \cup
                     {[user |-> u, org |-> users[u].org, role |-> users[u].role]}
    /\ UNCHANGED <<orgs, projects, issued, paid, req>>

-----------------------------------------------------------------------------
(* Roles and removal *)

UpdateUserRole(r, s, u, role) ==
    /\ s.role = "admin"
    /\ role = "admin" => MemberQuota(s.org, TRUE)
    /\ LET first == IF role = "admin" THEN "role_write" ELSE "role_is_admin"
       IN  Begin(r, [Ask(first, s) EXCEPT !.user = u, !.role = role])
    /\ UNCHANGED <<tables, paid, sessions>>

RemoveUser(r, s, u) ==
    /\ s.role = "admin"
    /\ Begin(r, [Ask("remove_is_admin", s) EXCEPT !.user = u])
    /\ UNCHANGED <<tables, paid, sessions>>

\* is_last_admin, first statement: is the target an admin of the org at all?
IsAdmin(r, check, count, write) ==
    /\ req[r].at = check
    /\ Goto(r, IF req[r].user \in Admins(req[r].by.org) THEN count ELSE write)
    /\ UNCHANGED <<tables, paid, sessions>>

\* is_last_admin, second statement: how many admins does the org have?
CountAdmins(r, count, write) ==
    /\ req[r].at = count
    /\ IF Cardinality(Admins(req[r].by.org)) <= 1 THEN End(r) ELSE Goto(r, write)
    /\ UNCHANGED <<tables, paid, sessions>>

\* Mutant of Target: WHERE id = $2 alone.
TargetAnyOrg(r) == users[req[r].user].org # None
\* WHERE id = $2 AND org_id = $3
Target(r) == users[req[r].user].org = req[r].by.org

\* Mutant of RoleWrite: an upsert by id, which adopts a user of another org.
RoleUpsert(r) ==
    /\ req[r].at = "role_write"
    /\ users' = IF users[req[r].user].org # None
                THEN [users EXCEPT ![req[r].user].role = req[r].role,
                                   ![req[r].user].org = req[r].by.org]
                ELSE users
    /\ End(r)
    /\ UNCHANGED <<orgs, projects, issued, paid, sessions>>
RoleWrite(r) ==
    /\ req[r].at = "role_write"
    /\ users' = IF Target(r)
                THEN [users EXCEPT ![req[r].user].role = req[r].role]
                ELSE users
    /\ End(r)
    /\ UNCHANGED <<orgs, projects, issued, paid, sessions>>

RemoveWrite(r) ==
    /\ req[r].at = "remove_write"
    /\ users' = IF Target(r) THEN [users EXCEPT ![req[r].user] = NoUser] ELSE users
    /\ End(r)
    /\ UNCHANGED <<orgs, projects, issued, paid, sessions>>

DeleteOrganization(r, s) ==
    /\ s.role = "admin"
    /\ Begin(r, Ask("org_delete", s))
    /\ UNCHANGED <<tables, paid, sessions>>

\* ON DELETE CASCADE takes the members and the projects along; the caller's
\* cookie is cleared, the other members keep theirs.
OrgDelete(r) ==
    /\ req[r].at = "org_delete"
    /\ LET o == req[r].by.org IN
       /\ orgs' = orgs \ {o}
       /\ users' = [u \in Users |-> IF users[u].org = o THEN NoUser ELSE users[u]]
       /\ projects' = [p \in Projects |-> IF projects[p] = o THEN None ELSE projects[p]]
       /\ paid' = paid \ {o}
    /\ sessions' = sessions \ {req[r].by}
    /\ End(r)
    /\ UNCHANGED issued

-----------------------------------------------------------------------------
(* Projects *)

\* create_project and import_project
CreateProject(r, s) ==
    /\ EditorActive(s)
    /\ Begin(r, Ask("project_quota", s))
    /\ UNCHANGED <<tables, paid, sessions>>

CheckProjectQuota(r) ==
    /\ req[r].at = "project_quota"
    /\ IF ProjectQuota(req[r].by.org) THEN Goto(r, "project_insert") ELSE End(r)
    /\ UNCHANGED <<tables, paid, sessions>>

ProjectInsert(r, p) ==
    /\ req[r].at = "project_insert"
    /\ p \notin issued
    /\ IF ~OrgKey(req[r].by.org)
       THEN UNCHANGED tables
       ELSE /\ projects' = [projects EXCEPT ![p] = req[r].by.org]
            /\ issued' = issued \cup {p}
            /\ UNCHANGED <<orgs, users>>
    /\ End(r)
    /\ UNCHANGED <<paid, sessions>>

DeleteProject(r, s, p) ==
    /\ EditorActive(s)
    /\ Begin(r, [Ask("project_ensure", s) EXCEPT !.project = p])
    /\ UNCHANGED <<tables, paid, sessions>>

\* ensure_project_in_org; the purge of the files is in ProjectFiles.
EnsureProject(r) ==
    /\ req[r].at = "project_ensure"
    /\ IF projects[req[r].project] = req[r].by.org THEN Goto(r, "project_delete") ELSE End(r)
    /\ UNCHANGED <<tables, paid, sessions>>

ProjectDelete(r) ==
    /\ req[r].at = "project_delete"
    /\ projects' = IF projects[req[r].project] = req[r].by.org
                   THEN [projects EXCEPT ![req[r].project] = None]
                   ELSE projects
    /\ End(r)
    /\ UNCHANGED <<orgs, users, issued, paid, sessions>>

-----------------------------------------------------------------------------
(* The client disconnects, a statement fails or the process stops: the      *)
(* handler is dropped between two statements, and nothing is undone.        *)

Abort(r) ==
    /\ req[r].at # "idle"
    /\ End(r)
    /\ UNCHANGED <<tables, paid, sessions>>

-----------------------------------------------------------------------------
(* Stripe decides who pays (module Billing): a subscription starts or lapses. *)

Subscribe(o) ==
    /\ o \in orgs \ paid
    /\ paid' = paid \cup {o}
    /\ UNCHANGED <<tables, sessions, req>>

Lapse(o) ==
    /\ o \in paid
    /\ paid' = paid \ {o}
    /\ UNCHANGED <<tables, sessions, req>>

-----------------------------------------------------------------------------
(* A client opens a request; the server takes its next step; the rest. *)

Open(r) ==
    \/ \E e \in Emails : Signup(r, e)
    \/ \E u \in Users : Login(r, u)
    \/ \E s \in sessions :
          \/ \E e \in Emails, role \in Roles : InviteUser(r, s, e, role)
          \/ \E u \in Users, role \in Roles : UpdateUserRole(r, s, u, role)
          \/ \E u \in Users : RemoveUser(r, s, u)
          \/ DeleteOrganization(r, s)
          \/ CreateProject(r, s)
          \/ \E p \in Projects : DeleteProject(r, s, p)

Step(r) ==
    \/ \E o \in Orgs, u \in Users : SignupInsert(r, o, u)
    \/ LoginIssue(r)
    \/ InviteEmail(r)
    \/ \E u \in Users : InviteInsert(r, u)
    \/ IsAdmin(r, "role_is_admin", "role_count", "role_write")
    \/ IsAdmin(r, "remove_is_admin", "remove_count", "remove_write")
    \/ CountAdmins(r, "role_count", "role_write")
    \/ CountAdmins(r, "remove_count", "remove_write")
    \/ RoleWrite(r)
    \/ RemoveWrite(r)
    \/ OrgDelete(r)
    \/ CheckProjectQuota(r)
    \/ \E p \in Projects : ProjectInsert(r, p)
    \/ EnsureProject(r)
    \/ ProjectDelete(r)
    \/ Abort(r)

Links == \E u \in Users : Activate(u) \/ AcceptInvite(u)
Cookies == \E s \in sessions : Logout(s)
Stripe == \E o \in Orgs : Subscribe(o) \/ Lapse(o)

Next == (\E r \in Requests : Open(r) \/ Step(r)) \/ Links \/ Cookies \/ Stripe

Spec == Init /\ [][Next]_vars

\* Requests one at a time, and no subscription change while one is in flight:
\* what the checks guarantee when nothing runs between a check and its write.
Quiet == \A r \in Requests : req[r].at = "idle"
SerialNext ==
    \/ \E r \in Requests : (Quiet /\ Open(r)) \/ Step(r)
    \/ Links
    \/ Cookies
    \/ Quiet /\ Stripe
SerialSpec == Init /\ [][SerialNext]_vars

-----------------------------------------------------------------------------
(* Safety *)

\* No two members share an address, whatever signups and invites race: the
\* email_taken read of each may be stale when it inserts (users_email_lower_idx).
EmailUnique ==
    \A u, v \in Users :
        u # v /\ users[u].org # None /\ users[v].org # None
            => users[u].email # users[v].email

\* Nothing survives the deletion of its org, and nothing is added to it later by
\* an invite or a project creation that was already past its checks.
RowsHaveOrg ==
    /\ \A u \in Users : users[u].org # None => users[u].org \in orgs
    /\ \A p \in Projects : projects[p] # None => projects[p] \in orgs

\* A token never speaks for an org its user does not belong to: the org claim of
\* a JWT, and of the JWT a login is about to issue, is the user's org for as long
\* as the user exists, whatever is deleted and created in between.
SessionScope ==
    \A s \in sessions \cup {req[r].by : r \in Requests} :
        s # NoSession => users[s.user].org \in {s.org, None}

\* Every org keeps an admin ("Never demote the org's last admin").
OrgKeepsAdmin == \A o \in orgs : Admins(o) # {}

-----------------------------------------------------------------------------
(* Action properties *)

\* What its owner may do to a row with a mailed link: activate it.
SelfService(u) ==
    /\ users'[u].active
    /\ users'[u].org = users[u].org
    /\ users'[u].email = users[u].email
    /\ users'[u].role = users[u].role

\* Tenant isolation: a row of an org is changed, removed or added only by a
\* request whose session is of that org; a signup adds to a new org only.
ActsFor(o) == \E r \in Requests : req[r].by.org = o /\ req'[r] # req[r]

TenantStep ==
    /\ \A u \in Users : users'[u] # users[u] =>
         LET o == IF users[u].org = None THEN users'[u].org ELSE users[u].org
         IN  SelfService(u) \/ ActsFor(o) \/ o \notin issued
    /\ \A p \in Projects : projects'[p] # projects[p] =>
         ActsFor(IF projects[p] = None THEN projects'[p] ELSE projects[p])
    /\ \A o \in orgs \ orgs' : ActsFor(o)
TenantIsolation == [][TenantStep]_vars

\* The Solo caps are never passed by a member or project operation: a Solo org
\* that is within them stays within them ("Fresh free orgs within the caps are
\* NOT restricted").  Demoting an admin adds a member without a quota check; it is
\* the last-admin check that blocks it in an org at its admin cap.
CapsStep ==
    \A o \in orgs : o \notin paid /\ o \notin paid' /\ ~Restricted(o) => ~Restricted(o)'
CapsKept == [][CapsStep]_vars
=============================================================================
