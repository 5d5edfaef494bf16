--------------------------- MODULE Tenancy_proofs ---------------------------
(***************************************************************************)
(* What Tenancy guarantees for any number of orgs, users, projects and     *)
(* requests in flight.                                                     *)
(***************************************************************************)
EXTENDS Tenancy, FiniteSetTheorems, TLAPS

\* The fields a request carries, by the step it is at.
WellFormed(q) ==
    /\ q.at \notin {"idle", "signup_insert"} => q.by \in Session
    /\ q.at \in {"signup_insert", "invite_email", "invite_insert"} => q.email \in Emails
    /\ q.at \in {"role_is_admin", "role_count", "role_write",
                 "remove_is_admin", "remove_count", "remove_write"} => q.user \in Users
    /\ q.at \in {"project_ensure", "project_delete"} => q.project \in Projects

TypeInv == TypeOK /\ \A r \in Requests : WellFormed(req[r])

LEMMA IdleWellFormed == Idle \in Request /\ WellFormed(Idle)
BY RolesAssumption DEF Idle, Request, WellFormed, NoSession, Labels

LEMMA NoUserIsRow == NoUser \in UserRow
BY RolesAssumption DEF NoUser, UserRow

LEMMA InitTypeInv == Init => TypeInv
BY IdleWellFormed, NoUserIsRow DEF Init, TypeInv, TypeOK, Idle

\* A request step that leaves the tables alone.
LEMMA RequestStepTypeInv ==
    ASSUME TypeInv, NEW r \in Requests, NEW q \in Request, WellFormed(q),
           req' = [req EXCEPT ![r] = q], UNCHANGED tables,
           paid' \subseteq Orgs, sessions' \subseteq Session
    PROVE  TypeInv'
BY DEF TypeInv, TypeOK, tables, WellFormed

LEMMA OpenTypeInv ==
    ASSUME TypeInv, NEW r \in Requests, Open(r)
    PROVE  TypeInv'
<1> USE IdleWellFormed DEF TypeInv, TypeOK
<1>1. ASSUME NEW e \in Emails, Signup(r, e) PROVE TypeInv'
  <2> DEFINE q == [Idle EXCEPT !.at = "signup_insert", !.email = e]
  <2>1. q \in Request /\ WellFormed(q)
    BY DEF Idle, Request, WellFormed, Labels, NoSession
  <2>2. QED BY <1>1, <2>1, RequestStepTypeInv DEF Signup, Begin
<1>2. ASSUME NEW u \in Users, Login(r, u) PROVE TypeInv'
  <2> DEFINE s == [user |-> u, org |-> users[u].org, role |-> users[u].role]
             q == Ask("login_issue", s)
  <2>1. s \in Session BY <1>2 DEF Login, UserRow, Session
  <2>2. q \in Request /\ WellFormed(q)
    BY <2>1 DEF Ask, Idle, Request, WellFormed, Labels
  <2>3. QED BY <1>2, <2>2, RequestStepTypeInv DEF Login, Begin
<1>3. ASSUME NEW s \in sessions, NEW e \in Emails, NEW role \in Roles,
             InviteUser(r, s, e, role)
      PROVE  TypeInv'
  <2> DEFINE q == [Ask("invite_email", s) EXCEPT !.email = e, !.role = role]
  <2>1. q \in Request /\ WellFormed(q)
    BY DEF Ask, Idle, Request, WellFormed, Labels
  <2>2. QED BY <1>3, <2>1, RequestStepTypeInv DEF InviteUser, Begin
<1>4. ASSUME NEW s \in sessions, NEW u \in Users, NEW role \in Roles,
             UpdateUserRole(r, s, u, role)
      PROVE  TypeInv'
  <2> DEFINE first == IF role = "admin" THEN "role_write" ELSE "role_is_admin"
             q == [Ask(first, s) EXCEPT !.user = u, !.role = role]
  <2>1. q \in Request /\ WellFormed(q)
    BY DEF Ask, Idle, Request, WellFormed, Labels
  <2>2. QED BY <1>4, <2>1, RequestStepTypeInv DEF UpdateUserRole, Begin
<1>5. ASSUME NEW s \in sessions, NEW u \in Users, RemoveUser(r, s, u) PROVE TypeInv'
  <2> DEFINE q == [Ask("remove_is_admin", s) EXCEPT !.user = u]
  <2>1. q \in Request /\ WellFormed(q)
    BY DEF Ask, Idle, Request, WellFormed, Labels
  <2>2. QED BY <1>5, <2>1, RequestStepTypeInv DEF RemoveUser, Begin
<1>6. ASSUME NEW s \in sessions, DeleteOrganization(r, s) PROVE TypeInv'
  <2> DEFINE q == Ask("org_delete", s)
  <2>1. q \in Request /\ WellFormed(q)
    BY DEF Ask, Idle, Request, WellFormed, Labels
  <2>2. QED BY <1>6, <2>1, RequestStepTypeInv DEF DeleteOrganization, Begin
<1>7. ASSUME NEW s \in sessions, CreateProject(r, s) PROVE TypeInv'
  <2> DEFINE q == Ask("project_quota", s)
  <2>1. q \in Request /\ WellFormed(q)
    BY DEF Ask, Idle, Request, WellFormed, Labels
  <2>2. QED BY <1>7, <2>1, RequestStepTypeInv DEF CreateProject, Begin
<1>8. ASSUME NEW s \in sessions, NEW p \in Projects, DeleteProject(r, s, p) PROVE TypeInv'
  <2> DEFINE q == [Ask("project_ensure", s) EXCEPT !.project = p]
  <2>1. q \in Request /\ WellFormed(q)
    BY DEF Ask, Idle, Request, WellFormed, Labels
  <2>2. QED BY <1>8, <2>1, RequestStepTypeInv DEF DeleteProject, Begin
<1>9. QED
  BY <1>1, <1>2, <1>3, <1>4, <1>5, <1>6, <1>7, <1>8 DEF Open

LEMMA InsertUserType ==
    ASSUME TypeInv, NEW u \in Users, NEW o \in Orgs, NEW e \in Emails,
           NEW role \in Roles, NEW invited \in BOOLEAN,
           InsertUser(u, o, e, role, invited)
    PROVE  users' \in [Users -> UserRow]
<1> DEFINE row == [org |-> o, email |-> e, role |-> role,
                   active |-> FALSE, invited |-> invited]
<1>1. row \in UserRow BY DEF UserRow
<1>2. users' = [users EXCEPT ![u] = row] BY DEF InsertUser
<1>3. QED BY <1>1, <1>2 DEF TypeInv, TypeOK

LEMMA StepTypeInv ==
    ASSUME TypeInv, NEW r \in Requests, Step(r)
    PROVE  TypeInv'
<1> USE DEF TypeInv, TypeOK
<1>i. Idle \in Request /\ WellFormed(Idle) BY IdleWellFormed
<1>r. req[r] \in Request /\ WellFormed(req[r]) OBVIOUS
<1>goto. ASSUME NEW label \in Labels, Goto(r, label), UNCHANGED <<tables, paid, sessions>>,
                WellFormed([req[r] EXCEPT !.at = label])
         PROVE  TypeInv'
  <2>1. [req[r] EXCEPT !.at = label] \in Request BY <1>r DEF Request
  <2>2. QED BY <1>goto, <2>1, RequestStepTypeInv DEF Goto
<1>end. ASSUME End(r), UNCHANGED <<tables, paid, sessions>> PROVE TypeInv'
  BY <1>end, <1>i, RequestStepTypeInv DEF End
<1>1. ASSUME NEW o \in Orgs, NEW u \in Users, SignupInsert(r, o, u) PROVE TypeInv'
  <2>1. CASE ~UniqueEmail(req[r].email)
    BY <1>1, <2>1, <1>end DEF SignupInsert
  <2>2. CASE UniqueEmail(req[r].email)
    <3>1. req[r].email \in Emails BY <1>1, <1>r DEF SignupInsert, WellFormed
    <3>2. users' \in [Users -> UserRow]
      BY <1>1, <2>2, <3>1, RolesAssumption, InsertUserType DEF SignupInsert
    <3>3. QED BY <1>1, <1>i, <2>2, <3>2 DEF SignupInsert, End, WellFormed, tables
  <2>3. QED BY <2>1, <2>2
<1>2. CASE LoginIssue(r)
  BY <1>2, <1>i, <1>r DEF LoginIssue, End, WellFormed, tables
<1>3. CASE InviteEmail(r)
  BY <1>3, <1>r, <1>end, <1>goto DEF InviteEmail, WellFormed, Labels, Request
<1>4. ASSUME NEW u \in Users, InviteInsert(r, u) PROVE TypeInv'
  <2>1. CASE ~UniqueEmail(req[r].email) \/ ~OrgKey(req[r].by.org)
    BY <1>4, <2>1, <1>end DEF InviteInsert
  <2>2. CASE UniqueEmail(req[r].email) /\ OrgKey(req[r].by.org)
    <3>1. req[r].email \in Emails /\ req[r].role \in Roles /\ req[r].by.org \in Orgs
      BY <1>4, <1>r DEF InviteInsert, WellFormed, Request, Session
    <3>2. users' \in [Users -> UserRow]
      BY <1>4, <2>2, <3>1, InsertUserType DEF InviteInsert
    <3>3. QED BY <1>4, <1>i, <2>2, <3>2 DEF InviteInsert, End, WellFormed, tables
  <2>3. QED BY <2>1, <2>2
<1>5. CASE IsAdmin(r, "role_is_admin", "role_count", "role_write")
  BY <1>5, <1>r, <1>goto DEF IsAdmin, WellFormed, Labels, Request
<1>6. CASE IsAdmin(r, "remove_is_admin", "remove_count", "remove_write")
  BY <1>6, <1>r, <1>goto DEF IsAdmin, WellFormed, Labels, Request
<1>7. CASE CountAdmins(r, "role_count", "role_write")
  BY <1>7, <1>r, <1>end, <1>goto DEF CountAdmins, WellFormed, Labels, Request
<1>8. CASE CountAdmins(r, "remove_count", "remove_write")
  BY <1>8, <1>r, <1>end, <1>goto DEF CountAdmins, WellFormed, Labels, Request
<1>9. CASE RoleWrite(r)
  <2>1. req[r].user \in Users /\ req[r].role \in Roles
    BY <1>9, <1>r DEF RoleWrite, WellFormed, Request
  <2>2. users' \in [Users -> UserRow] BY <1>9, <2>1 DEF RoleWrite, UserRow
  <2>3. QED BY <1>9, <1>i, <2>2 DEF RoleWrite, End, WellFormed
<1>10. CASE RemoveWrite(r)
  <2>1. users' \in [Users -> UserRow] BY <1>10, NoUserIsRow DEF RemoveWrite
  <2>2. QED BY <1>10, <1>i, <2>1 DEF RemoveWrite, End, WellFormed
<1>11. CASE OrgDelete(r)
  <2>1. users' \in [Users -> UserRow] BY <1>11, NoUserIsRow DEF OrgDelete
  <2>2. QED BY <1>11, <1>i, <2>1 DEF OrgDelete, End, WellFormed
<1>12. CASE CheckProjectQuota(r)
  BY <1>12, <1>r, <1>end, <1>goto DEF CheckProjectQuota, WellFormed, Labels, Request
<1>13. ASSUME NEW p \in Projects, ProjectInsert(r, p) PROVE TypeInv'
  <2>1. req[r].by.org \in Orgs
    BY <1>13, <1>r DEF ProjectInsert, WellFormed, Session
  <2>2. QED
    BY <1>13, <1>i, <2>1, <1>end DEF ProjectInsert, End, WellFormed, tables
<1>14. CASE EnsureProject(r)
  BY <1>14, <1>r, <1>end, <1>goto DEF EnsureProject, WellFormed, Labels, Request
<1>15. CASE ProjectDelete(r)
  BY <1>15, <1>i DEF ProjectDelete, End, WellFormed
<1>16. CASE Abort(r)
  BY <1>16, <1>end DEF Abort
<1>17. QED
  BY <1>1, <1>2, <1>3, <1>4, <1>5, <1>6, <1>7, <1>8, <1>9, <1>10, <1>11, <1>12,
     <1>13, <1>14, <1>15, <1>16 DEF Step

LEMMA EnvironmentTypeInv ==
    ASSUME TypeInv, Links \/ Cookies \/ Stripe
    PROVE  TypeInv'
<1> USE DEF TypeInv, TypeOK
<1>1. ASSUME NEW u \in Users, Activate(u) PROVE TypeInv'
  <2>1. users' \in [Users -> UserRow] BY <1>1 DEF Activate, UserRow
  <2>2. QED BY <1>1, <2>1 DEF Activate, WellFormed
<1>2. ASSUME NEW u \in Users, AcceptInvite(u) PROVE TypeInv'
  <2>1. users' \in [Users -> UserRow] BY <1>2 DEF AcceptInvite, UserRow
  <2>2. [user |-> u, org |-> users[u].org, role |-> users[u].role] \in Session
    BY <1>2 DEF AcceptInvite, UserRow, Session
  <2>3. QED BY <1>2, <2>1, <2>2 DEF AcceptInvite, WellFormed
<1>3. CASE Cookies BY <1>3 DEF Cookies, Logout, tables, WellFormed
<1>4. CASE Stripe BY <1>4 DEF Stripe, Subscribe, Lapse, tables, WellFormed
<1>5. QED BY <1>1, <1>2, <1>3, <1>4 DEF Links

LEMMA NextTypeInv == TypeInv /\ [Next]_vars => TypeInv'
<1> SUFFICES ASSUME TypeInv, [Next]_vars PROVE TypeInv'
  OBVIOUS
<1>1. CASE Next
  BY <1>1, OpenTypeInv, StepTypeInv, EnvironmentTypeInv DEF Next
<1>2. CASE UNCHANGED vars
  BY <1>2 DEF vars, TypeInv, TypeOK, WellFormed
<1>3. QED BY <1>1, <1>2

\* Every variable keeps its type, and every request carries the fields its step uses.
THEOREM TypeCorrect == Spec => []TypeInv
<1>1. QED BY InitTypeInv, NextTypeInv, PTL DEF Spec

\* The type invariant of the model, for any number of orgs, users and requests.
THEOREM TypeSafe == Spec => []TypeOK
<1>1. TypeInv => TypeOK BY DEF TypeInv
<1>2. QED BY <1>1, TypeCorrect, PTL

-----------------------------------------------------------------------------
(* What a step does to the tables. *)

\* Opening a request writes nothing.
LEMMA OpenWritesNothing ==
    ASSUME NEW r \in Requests, Open(r)
    PROVE  UNCHANGED tables
BY DEF Open, Signup, Login, InviteUser, UpdateUserRole, RemoveUser,
       DeleteOrganization, CreateProject, DeleteProject

\* The only actions that write the users table.
WritesUsers(r) ==
    \/ \E o \in Orgs, u \in Users : SignupInsert(r, o, u)
    \/ \E u \in Users : InviteInsert(r, u)
    \/ RoleWrite(r) \/ RemoveWrite(r) \/ OrgDelete(r)

\* The only actions that write the orgs or the projects table.
WritesProjects(r) ==
    \/ \E o \in Orgs, u \in Users : SignupInsert(r, o, u)
    \/ OrgDelete(r)
    \/ \E p \in Projects : ProjectInsert(r, p)
    \/ ProjectDelete(r)

LEMMA StepWrites ==
    ASSUME NEW r \in Requests, Step(r)
    PROVE  /\ WritesUsers(r) \/ UNCHANGED users
           /\ WritesProjects(r) \/ UNCHANGED <<orgs, projects>>
BY DEF Step, WritesUsers, WritesProjects, LoginIssue, InviteEmail, IsAdmin, CountAdmins,
       CheckProjectQuota, ProjectInsert, EnsureProject, ProjectDelete, Abort, tables,
       InviteInsert, RoleWrite, RemoveWrite

LEMMA LinksWrite ==
    ASSUME Links
    PROVE  /\ UNCHANGED <<orgs, projects, issued, req>>
           /\ \E u \in Users : users[u].org # None /\ (Activate(u) \/ AcceptInvite(u))
BY DEF Links, Activate, AcceptInvite

-----------------------------------------------------------------------------
(* Addresses are unique. *)

LEMMA InsertKeepsEmails ==
    ASSUME TypeInv, EmailUnique, NEW u \in Users, NEW o, NEW e \in Emails, NEW role,
           NEW invited, UniqueEmail(e), InsertUser(u, o, e, role, invited)
    PROVE  EmailUnique'
BY DEF TypeInv, TypeOK, EmailUnique, UniqueEmail, EmailTaken, InsertUser

LEMMA NextEmailUnique == TypeInv /\ EmailUnique /\ [Next]_vars => EmailUnique'
<1> SUFFICES ASSUME TypeInv, EmailUnique, [Next]_vars PROVE EmailUnique'
  OBVIOUS
<1> USE DEF TypeInv, TypeOK
<1>1. CASE UNCHANGED users BY <1>1 DEF EmailUnique
<1>2. ASSUME NEW r \in Requests, WritesUsers(r) PROVE EmailUnique'
  <2>1. ASSUME NEW o \in Orgs, NEW u \in Users, SignupInsert(r, o, u) PROVE EmailUnique'
    BY <2>1, <1>1, InsertKeepsEmails DEF SignupInsert, tables, WellFormed
  <2>2. ASSUME NEW u \in Users, InviteInsert(r, u) PROVE EmailUnique'
    BY <2>2, <1>1, InsertKeepsEmails DEF InviteInsert, tables, WellFormed
  <2>3. CASE RoleWrite(r) BY <2>3 DEF RoleWrite, EmailUnique, UserRow
  <2>4. CASE RemoveWrite(r) BY <2>4 DEF RemoveWrite, EmailUnique, NoUser
  <2>5. CASE OrgDelete(r) BY <2>5 DEF OrgDelete, EmailUnique, NoUser
  <2>6. QED BY <1>2, <2>1, <2>2, <2>3, <2>4, <2>5 DEF WritesUsers
<1>3. CASE Links
  <2>1. \A u \in Users : users'[u].org = users[u].org /\ users'[u].email = users[u].email
    BY <1>3 DEF Links, Activate, AcceptInvite, UserRow
  <2>2. QED BY <2>1 DEF EmailUnique
<1>4. QED
  BY <1>1, <1>2, <1>3, OpenWritesNothing, StepWrites
     DEF Next, vars, tables, Cookies, Logout, Stripe, Subscribe, Lapse

\* No two members ever share an address, however many signups and invites race.
THEOREM EmailsStayUnique == Spec => []EmailUnique
<1>1. Init => EmailUnique BY DEF Init, EmailUnique, NoUser
<1>2. QED BY <1>1, NextEmailUnique, TypeCorrect, PTL DEF Spec

-----------------------------------------------------------------------------
(* Every row has its org. *)

LEMMA NextRowsHaveOrg == TypeInv /\ RowsHaveOrg /\ [Next]_vars => RowsHaveOrg'
<1> SUFFICES ASSUME TypeInv, RowsHaveOrg, [Next]_vars PROVE RowsHaveOrg'
  OBVIOUS
<1> USE DEF TypeInv, TypeOK, RowsHaveOrg
<1>1. CASE UNCHANGED <<orgs, users, projects>> BY <1>1
<1>2. ASSUME NEW r \in Requests, Step(r), ~UNCHANGED <<orgs, users, projects>>
      PROVE  RowsHaveOrg'
  <2>1. ASSUME NEW o \in Orgs, NEW u \in Users, SignupInsert(r, o, u) PROVE RowsHaveOrg'
    BY <2>1, <1>1 DEF SignupInsert, InsertUser, tables
  <2>2. ASSUME NEW u \in Users, InviteInsert(r, u) PROVE RowsHaveOrg'
    BY <2>2, <1>1 DEF InviteInsert, InsertUser, OrgKey, tables
  <2>3. CASE RoleWrite(r) BY <2>3 DEF RoleWrite, UserRow
  <2>4. CASE RemoveWrite(r) BY <2>4 DEF RemoveWrite, NoUser
  <2>5. CASE OrgDelete(r) BY <2>5 DEF OrgDelete, NoUser
  <2>6. ASSUME NEW p \in Projects, ProjectInsert(r, p) PROVE RowsHaveOrg'
    BY <2>6, <1>1 DEF ProjectInsert, OrgKey, tables
  <2>7. CASE ProjectDelete(r) BY <2>7 DEF ProjectDelete
  <2>8. QED
    BY <1>2, <2>1, <2>2, <2>3, <2>4, <2>5, <2>6, <2>7, StepWrites
       DEF WritesUsers, WritesProjects
<1>3. CASE Links
  <2>1. \A u \in Users : users'[u].org = users[u].org
    BY <1>3 DEF Links, Activate, AcceptInvite, UserRow
  <2>2. QED BY <1>3, <2>1, LinksWrite
<1>4. QED
  BY <1>1, <1>2, <1>3, OpenWritesNothing
     DEF Next, vars, tables, Cookies, Logout, Stripe, Subscribe, Lapse

\* No member or project outlives its org, and none is added to it after it is gone.
THEOREM RowsKeepOrg == Spec => []RowsHaveOrg
<1>1. Init => RowsHaveOrg BY DEF Init, RowsHaveOrg, NoUser
<1>2. QED BY <1>1, NextRowsHaveOrg, TypeCorrect, PTL DEF Spec

-----------------------------------------------------------------------------
(* A token keeps its scope. *)

Tokens == sessions \cup {req[r].by : r \in Requests}

\* What makes it inductive: an id is issued before a row or a token names it, so
\* an insertion, whose id is fresh, gives no old token a new org.
ScopeInv ==
    /\ SessionScope
    /\ \A u \in Users : users[u].org # None => u \in issued
    /\ \A p \in Projects : projects[p] # None => p \in issued
    /\ \A s \in Tokens : s # NoSession => s.user \in issued

\* Opening a request brings in no token but those in circulation, the empty one,
\* or, for a login, one that is true of the user's row.
LEMMA OpenTokens ==
    ASSUME TypeInv, NEW r \in Requests, Open(r)
    PROVE  /\ UNCHANGED sessions
           /\ \A t \in Requests \ {r} : req'[t] = req[t]
           /\ \/ req'[r].by \in sessions \cup {NoSession}
              \/ /\ req'[r].by \in Session
                 /\ users[req'[r].by.user].org = req'[r].by.org
<1> USE DEF TypeInv, TypeOK, Begin
<1>1. ASSUME NEW e \in Emails, Signup(r, e) PROVE req'[r].by = NoSession
  BY <1>1 DEF Signup, Idle
<1>2. ASSUME NEW u \in Users, Login(r, u)
      PROVE  req'[r].by \in Session /\ users[req'[r].by.user].org = req'[r].by.org
  BY <1>2 DEF Login, UserRow, Session, Ask, Idle
<1>3. ASSUME NEW s \in sessions,
             \/ \E e \in Emails, role \in Roles : InviteUser(r, s, e, role)
             \/ \E u \in Users, role \in Roles : UpdateUserRole(r, s, u, role)
             \/ \E u \in Users : RemoveUser(r, s, u)
             \/ DeleteOrganization(r, s)
             \/ CreateProject(r, s)
             \/ \E p \in Projects : DeleteProject(r, s, p)
      PROVE  req'[r].by = s
  <2>1. CASE \E e \in Emails, role \in Roles : InviteUser(r, s, e, role)
    BY <2>1 DEF Ask, Idle, InviteUser
  <2>2. CASE \E u \in Users, role \in Roles : UpdateUserRole(r, s, u, role)
    BY <2>2 DEF Ask, Idle, UpdateUserRole
  <2>3. CASE \E u \in Users : RemoveUser(r, s, u)
    BY <2>3 DEF Ask, Idle, RemoveUser
  <2>4. CASE DeleteOrganization(r, s)  BY <2>4 DEF Ask, Idle, DeleteOrganization
  <2>5. CASE CreateProject(r, s)  BY <2>5 DEF Ask, Idle, CreateProject
  <2>6. CASE \E p \in Projects : DeleteProject(r, s, p)
    BY <2>6 DEF Ask, Idle, DeleteProject
  <2> QED  BY <1>3, <2>1, <2>2, <2>3, <2>4, <2>5, <2>6
<1>4. UNCHANGED sessions /\ \E q : req' = [req EXCEPT ![r] = q]
  BY DEF Open, Signup, Login, InviteUser, UpdateUserRole, RemoveUser,
         DeleteOrganization, CreateProject, DeleteProject
<1>5. QED BY <1>1, <1>2, <1>3, <1>4 DEF Open

\* A server step brings in no token but those in circulation and the empty one.
LEMMA StepTokens ==
    ASSUME TypeInv, NEW r \in Requests, Step(r)
    PROVE  Tokens' \subseteq Tokens \cup {NoSession}
<1> USE DEF TypeInv, TypeOK, Tokens
<1>1. CASE End(r) /\ sessions' \subseteq sessions \cup {req[r].by}
  BY <1>1 DEF End, Idle
<1>2. ASSUME NEW label, Goto(r, label), UNCHANGED sessions
      PROVE  Tokens' \subseteq Tokens \cup {NoSession}
  BY <1>2 DEF Goto, Request
<1>3. QED
  BY <1>1, <1>2 DEF Step, SignupInsert, LoginIssue, InviteEmail, InviteInsert, IsAdmin,
     CountAdmins, RoleWrite, RemoveWrite, OrgDelete, CheckProjectQuota, ProjectInsert,
     EnsureProject, ProjectDelete, Abort

\* No step moves a row to another org, and only a fresh id gets a row.
RowStep ==
    /\ issued \subseteq issued'
    /\ \A u \in Users : \/ users'[u].org \in {users[u].org, None}
                        \/ u \notin issued /\ u \in issued'
    /\ \A p \in Projects : \/ projects'[p] \in {projects[p], None}
                           \/ p \notin issued /\ p \in issued'

LEMMA StepRows ==
    ASSUME TypeInv, NEW r \in Requests, Step(r)
    PROVE  RowStep
<1> USE DEF TypeInv, TypeOK, RowStep
<1>1. CASE UNCHANGED tables BY <1>1 DEF tables
<1>2. ASSUME NEW o \in Orgs, NEW u \in Users, SignupInsert(r, o, u) PROVE RowStep
  BY <1>1, <1>2 DEF SignupInsert, InsertUser, tables
<1>3. ASSUME NEW u \in Users, InviteInsert(r, u) PROVE RowStep
  BY <1>1, <1>3 DEF InviteInsert, InsertUser, tables
<1>4. CASE RoleWrite(r) BY <1>4 DEF RoleWrite, UserRow
<1>5. CASE RemoveWrite(r) BY <1>5 DEF RemoveWrite, NoUser
<1>6. CASE OrgDelete(r) BY <1>6 DEF OrgDelete, NoUser
<1>7. ASSUME NEW p \in Projects, ProjectInsert(r, p) PROVE RowStep
  BY <1>1, <1>7 DEF ProjectInsert, tables
<1>8. CASE ProjectDelete(r) BY <1>8 DEF ProjectDelete
<1>9. QED
  BY <1>1, <1>2, <1>3, <1>4, <1>5, <1>6, <1>7, <1>8
     DEF Step, LoginIssue, InviteEmail, IsAdmin, CountAdmins, CheckProjectQuota,
         EnsureProject, Abort

LEMMA NextScopeInv == TypeInv /\ ScopeInv /\ [Next]_vars => ScopeInv'
<1> SUFFICES ASSUME TypeInv, ScopeInv, [Next]_vars PROVE ScopeInv'
  OBVIOUS
<1> USE DEF TypeInv, TypeOK, ScopeInv, SessionScope, Tokens
<1>t. \A s \in Tokens : s # NoSession => s.user \in Users
  BY DEF Request, Session
<1>1. CASE UNCHANGED <<users, projects, issued, sessions, req>> BY <1>1
<1>2. ASSUME NEW r \in Requests, Open(r) PROVE ScopeInv'
  <2>1. UNCHANGED <<users, projects, issued, sessions>>
    BY <1>2, OpenTokens, OpenWritesNothing DEF tables
  <2>2. Tokens' \subseteq Tokens \cup {req'[r].by}
    BY <1>2, OpenTokens
  <2>3. \/ req'[r].by \in sessions \cup {NoSession}
        \/ /\ users[req'[r].by.user].org = req'[r].by.org
           /\ req'[r].by.user \in issued
    BY <1>2, OpenTokens, NoneAssumption DEF Session
  <2>4. QED BY <2>1, <2>2, <2>3
<1>3. ASSUME NEW r \in Requests, Step(r) PROVE ScopeInv'
  BY <1>t, <1>3, StepTokens, StepRows DEF RowStep
<1>4. ASSUME NEW u \in Users, Activate(u) \/ AcceptInvite(u) PROVE ScopeInv'
  <2> DEFINE s == [user |-> u, org |-> users[u].org, role |-> users[u].role]
  <2>1. /\ UNCHANGED <<projects, issued, req>>
        /\ sessions' \subseteq sessions \cup {s}
        /\ users[u].org # None
        /\ \A v \in Users : users'[v].org = users[v].org
    BY <1>4 DEF Activate, AcceptInvite, UserRow
  <2>2. QED BY <1>t, <2>1
<1>5. CASE Cookies BY <1>5 DEF Cookies, Logout, tables
<1>6. CASE Stripe BY <1>1, <1>6 DEF Stripe, Subscribe, Lapse, tables
<1>7. QED
  BY <1>1, <1>2, <1>3, <1>4, <1>5, <1>6 DEF Next, vars, Links

\* A token, once issued, speaks for its user's org or for nobody, whatever is
\* deleted, invited and signed up afterwards.
THEOREM SessionsKeepScope == Spec => []SessionScope
<1>1. Init => ScopeInv BY DEF Init, ScopeInv, SessionScope, Tokens, NoUser, Idle
<1>2. ScopeInv => SessionScope BY DEF ScopeInv
<1>3. QED BY <1>1, <1>2, NextScopeInv, TypeCorrect, PTL DEF Spec

-----------------------------------------------------------------------------
(* Tenants are isolated. *)

LEMMA NextTenantStep == TypeInv /\ ScopeInv /\ [Next]_vars => [TenantStep]_vars
<1> SUFFICES ASSUME TypeInv, ScopeInv, Next PROVE TenantStep
  BY DEF vars, TenantStep
<1> USE DEF TypeInv, TypeOK, TenantStep
<1>1. CASE UNCHANGED <<orgs, users, projects>> BY <1>1
<1>2. ASSUME NEW r \in Requests, Step(r), ~UNCHANGED <<orgs, users, projects>>
      PROVE  TenantStep
  <2>a. req[r].at # "idle" => ~End(r) \/ ActsFor(req[r].by.org)
    BY DEF End, Idle, ActsFor
  <2>1. ASSUME NEW o \in Orgs, NEW u \in Users, SignupInsert(r, o, u) PROVE TenantStep
    BY <2>1, <1>1 DEF SignupInsert, InsertUser, ScopeInv, tables
  <2>2. ASSUME NEW u \in Users, InviteInsert(r, u) PROVE TenantStep
    BY <2>2, <2>a, <1>1 DEF InviteInsert, InsertUser, ScopeInv, tables
  <2>3. CASE RoleWrite(r)
    BY <2>3, <2>a, NoneAssumption DEF RoleWrite, Target, WellFormed, Session
  <2>4. CASE RemoveWrite(r)
    BY <2>4, <2>a, NoneAssumption DEF RemoveWrite, Target, WellFormed, Session
  <2>5. CASE OrgDelete(r)
    BY <2>5, <2>a, NoneAssumption DEF OrgDelete, WellFormed, Session
  <2>6. ASSUME NEW p \in Projects, ProjectInsert(r, p)
        PROVE  TenantStep
    BY <2>6, <2>a, <1>1 DEF ProjectInsert, ScopeInv, tables
  <2>7. CASE ProjectDelete(r)
    BY <2>7, <2>a, NoneAssumption DEF ProjectDelete, WellFormed, Session
  <2>8. QED
    BY <1>2, <2>1, <2>2, <2>3, <2>4, <2>5, <2>6, <2>7, StepWrites
       DEF WritesUsers, WritesProjects
<1>3. ASSUME NEW u \in Users, Activate(u) \/ AcceptInvite(u) PROVE TenantStep
  <2>1. SelfService(u) BY <1>3 DEF Activate, AcceptInvite, SelfService, UserRow
  <2>2. UNCHANGED <<orgs, projects>> /\ \A v \in Users \ {u} : users'[v] = users[v]
    BY <1>3 DEF Activate, AcceptInvite
  <2>3. QED BY <2>1, <2>2
<1>4. QED
  BY <1>1, <1>2, <1>3, OpenWritesNothing
     DEF Next, tables, Links, Cookies, Logout, Stripe, Subscribe, Lapse

\* A row of an org is written only by a request of that org's session, for any
\* number of requests interleaved at every statement.
THEOREM TenantsIsolated == Spec => TenantIsolation
<1>1. Init => ScopeInv BY DEF Init, ScopeInv, SessionScope, Tokens, NoUser, Idle
<1>2. QED BY <1>1, NextScopeInv, NextTenantStep, TypeCorrect, PTL DEF Spec, TenantIsolation

-----------------------------------------------------------------------------
(* Handled one at a time, requests leave every org an admin. *)

\* The write this request is about to make takes an admin away from its org.
Demotes(q) == q.at = "remove_write" \/ (q.at = "role_write" /\ q.role # "admin")

\* A request past its last-admin check still has another admin to count on: in a
\* serial run nothing demotes that one before the write.
SerialInv ==
    /\ \A r, t \in Requests : req[r].at # "idle" /\ req[t].at # "idle" => r = t
    /\ OrgKeepsAdmin
    /\ \A r \in Requests :
          Demotes(req[r]) /\ req[r].user \in Admins(req[r].by.org) =>
              \E a \in Admins(req[r].by.org) : a # req[r].user

LEMMA AnotherAdmin ==
    ASSUME NEW o, ~(Cardinality(Admins(o)) <= 1)
    PROVE  \A u : \E a \in Admins(o) : a # u
<1>1. SUFFICES ASSUME NEW u, Admins(o) \subseteq {u} PROVE FALSE
  OBVIOUS
<1>2. IsFiniteSet({u}) /\ Cardinality({u}) = 1 BY FS_Singleton
<1>3. Cardinality(Admins(o)) \in Nat /\ Cardinality(Admins(o)) <= Cardinality({u})
  BY <1>1, <1>2, FS_Subset, FS_CardinalityType
<1>4. QED BY <1>2, <1>3

\* A step that touches no role and lets no request past its check.
LEMMA RolesKept ==
    ASSUME SerialInv, TypeInv, orgs' \subseteq orgs,
           \A u \in Users : users'[u].org = users[u].org /\ users'[u].role = users[u].role,
           \A r \in Requests : req'[r] = req[r] \/ ~Demotes(req'[r]),
           \A r, t \in Requests : req'[r].at # "idle" /\ req'[t].at # "idle" => r = t
    PROVE  SerialInv'
<1>1. \A o : Admins(o)' = Admins(o) BY DEF Admins
<1>2. QED BY <1>1 DEF SerialInv, OrgKeepsAdmin, Demotes

LEMMA SerialNextInv == TypeInv /\ ScopeInv /\ SerialInv /\ [SerialNext]_vars => SerialInv'
<1> SUFFICES ASSUME TypeInv, ScopeInv, SerialInv, [SerialNext]_vars PROVE SerialInv'
  OBVIOUS
<1> USE DEF TypeInv, TypeOK
<1>1. CASE UNCHANGED <<orgs, users, req>> BY <1>1, RolesKept DEF SerialInv
<1>2. ASSUME NEW r \in Requests, Quiet, Open(r) PROVE SerialInv'
  <2>1. UNCHANGED <<orgs, users>> BY <1>2, OpenWritesNothing DEF tables
  <2>2. \A t \in Requests \ {r} : req'[t] = req[t] /\ req'[t].at = "idle"
    BY <1>2, OpenTokens DEF Quiet
  <2>3. ~Demotes(req'[r])
    <3> USE DEF Demotes, Begin, Ask, Idle
    <3>1. ASSUME NEW e \in Emails, Signup(r, e) PROVE ~Demotes(req'[r])
      BY <3>1 DEF Signup
    <3>2. ASSUME NEW u \in Users, Login(r, u) PROVE ~Demotes(req'[r])
      BY <3>2 DEF Login
    <3>3. ASSUME NEW s, NEW e, NEW role, InviteUser(r, s, e, role) PROVE ~Demotes(req'[r])
      BY <3>3 DEF InviteUser
    <3>4. ASSUME NEW s, NEW u, NEW role, UpdateUserRole(r, s, u, role)
          PROVE  ~Demotes(req'[r])
      BY <3>4 DEF UpdateUserRole
    <3>5. ASSUME NEW s, NEW u, RemoveUser(r, s, u) PROVE ~Demotes(req'[r])
      BY <3>5 DEF RemoveUser
    <3>6. ASSUME NEW s, DeleteOrganization(r, s) \/ CreateProject(r, s)
          PROVE  ~Demotes(req'[r])
      BY <3>6 DEF DeleteOrganization, CreateProject
    <3>7. ASSUME NEW s, NEW p, DeleteProject(r, s, p) PROVE ~Demotes(req'[r])
      BY <3>7 DEF DeleteProject
    <3>8. QED BY <1>2, <3>1, <3>2, <3>3, <3>4, <3>5, <3>6, <3>7 DEF Open
  <2>4. QED BY <2>1, <2>2, <2>3, RolesKept
<1>3. ASSUME NEW r \in Requests, Step(r) PROVE SerialInv'
  <2>o. PICK o : o = req[r].by.org OBVIOUS
  <2>1. req[r].at # "idle"
    BY <1>3 DEF Step, SignupInsert, LoginIssue, InviteEmail, InviteInsert, IsAdmin,
       CountAdmins, RoleWrite, RemoveWrite, OrgDelete, CheckProjectQuota, ProjectInsert,
       EnsureProject, ProjectDelete, Abort
  <2>2. \A t \in Requests \ {r} : req[t].at = "idle"
    BY <2>1 DEF SerialInv
  <2>3. \A t \in Requests \ {r} : req'[t] = req[t]
    BY <1>3 DEF Step, SignupInsert, LoginIssue, InviteEmail, InviteInsert, IsAdmin,
       CountAdmins, RoleWrite, RemoveWrite, OrgDelete, CheckProjectQuota, ProjectInsert,
       EnsureProject, ProjectDelete, Abort, End, Goto
  <2>4. ASSUME End(r), OrgKeepsAdmin' PROVE SerialInv'
    BY <2>2, <2>3, <2>4 DEF SerialInv, Demotes, End, Idle
  <2>5. ASSUME ~Demotes(req'[r]), UNCHANGED <<orgs, users>> PROVE SerialInv'
    BY <2>2, <2>3, <2>5, RolesKept
  <2>6. CASE LoginIssue(r) \/ CheckProjectQuota(r) \/ EnsureProject(r) \/ InviteEmail(r)
             \/ Abort(r) \/ ProjectDelete(r)
    <3>1. UNCHANGED <<orgs, users>>
      BY <2>6 DEF LoginIssue, CheckProjectQuota, EnsureProject, InviteEmail, Abort,
         ProjectDelete, tables
    <3>2. req'[r].at \in {"idle", "project_insert", "project_delete", "invite_insert"}
      BY <2>6 DEF LoginIssue, CheckProjectQuota, EnsureProject, InviteEmail, Abort,
         ProjectDelete, Goto, End, Idle, Request
    <3>3. QED BY <2>5, <3>1, <3>2 DEF Demotes
  <2>7. ASSUME NEW u \in Users, NEW n \in Orgs, SignupInsert(r, n, u) PROVE SerialInv'
    <3>1. CASE UNCHANGED tables
      BY <2>4, <2>7, <3>1 DEF SerialInv, OrgKeepsAdmin, Admins, SignupInsert, tables
    <3>2. CASE ~UNCHANGED tables
      <4>1. orgs' = orgs \cup {n} /\ InsertUser(u, n, req[r].email, "admin", FALSE)
        BY <2>7, <3>2 DEF SignupInsert
      <4>2. u \in Admins(n)' BY <4>1 DEF Admins, InsertUser
      <4>3. users[u].org = None BY <2>7 DEF SignupInsert, ScopeInv
      <4>4. \A m \in orgs : Admins(m) \subseteq Admins(m)'
        BY <4>1, <4>3, NoneAssumption DEF Admins, InsertUser
      <4>5. OrgKeepsAdmin' BY <4>1, <4>2, <4>4 DEF OrgKeepsAdmin, SerialInv
      <4>6. QED BY <2>4, <2>7, <4>5 DEF SignupInsert
    <3>3. QED BY <3>1, <3>2
  <2>8. ASSUME NEW u \in Users, InviteInsert(r, u) PROVE SerialInv'
    <3>1. OrgKeepsAdmin'
      BY <2>8, NoneAssumption
         DEF SerialInv, ScopeInv, OrgKeepsAdmin, Admins, InviteInsert, InsertUser, tables
    <3>2. QED BY <2>4, <2>8, <3>1 DEF InviteInsert
  <2>9. ASSUME NEW check, NEW count, NEW write, IsAdmin(r, check, count, write),
               count \in {"role_count", "remove_count"}
        PROVE  SerialInv'
    <3>1. Admins(o)' = Admins(o) /\ OrgKeepsAdmin'
      BY <2>9 DEF IsAdmin, tables, Admins, SerialInv, OrgKeepsAdmin
    <3>2. req'[r].by.org = o /\ req'[r].user = req[r].user
      BY <2>o, <2>9 DEF IsAdmin, Goto, Request
    <3>3. Demotes(req'[r]) => req[r].user \notin Admins(o)
      BY <2>o, <2>9 DEF IsAdmin, Goto, Demotes, Request
    <3>4. QED BY <2>2, <2>3, <3>1, <3>2, <3>3 DEF SerialInv, Demotes
  <2>10. ASSUME NEW count, NEW write, CountAdmins(r, count, write) PROVE SerialInv'
    <3>1. Admins(o)' = Admins(o) /\ OrgKeepsAdmin'
      BY <2>10 DEF CountAdmins, tables, Admins, SerialInv, OrgKeepsAdmin
    <3>2. CASE Cardinality(Admins(o)) <= 1
      BY <2>o, <2>4, <2>10, <3>1, <3>2 DEF CountAdmins
    <3>3. CASE ~(Cardinality(Admins(o)) <= 1)
      <4>1. \E a \in Admins(o) : a # req[r].user BY <3>3, AnotherAdmin
      <4>2. req'[r].by.org = o /\ req'[r].user = req[r].user
        BY <2>o, <2>10, <3>3 DEF CountAdmins, Goto, Request
      <4>3. QED BY <2>2, <2>3, <3>1, <4>1, <4>2 DEF SerialInv, Demotes
    <3>4. QED BY <3>2, <3>3
  <2>11. CASE RoleWrite(r)
    <3>1. OrgKeepsAdmin'
      BY <2>11 DEF RoleWrite, SerialInv, OrgKeepsAdmin, Admins, Demotes, Target, UserRow
    <3>2. QED BY <2>4, <2>11, <3>1 DEF RoleWrite
  <2>12. CASE RemoveWrite(r)
    <3>1. \A n \in Orgs : Admins(n) # {} => Admins(n)' # {}
      <4> SUFFICES ASSUME NEW n \in Orgs, NEW a \in Admins(n) PROVE Admins(n)' # {}
        OBVIOUS
      <4>1. CASE Target(r) /\ a = req[r].user
        <5>1. n = o /\ Demotes(req[r]) BY <2>o, <2>12, <4>1 DEF Target, Admins, RemoveWrite, Demotes
        <5>2. PICK b \in Admins(n) : b # a BY <2>o, <4>1, <5>1 DEF SerialInv
        <5>3. b \in Admins(n)' BY <2>12, <4>1, <5>2 DEF RemoveWrite, Admins
        <5>4. QED BY <5>3
      <4>2. CASE ~(Target(r) /\ a = req[r].user)
        <5>1. a \in Admins(n)' BY <2>12, <4>2 DEF RemoveWrite, Admins
        <5>2. QED BY <5>1
      <4>3. QED BY <4>1, <4>2
    <3>3. OrgKeepsAdmin' BY <2>12, <3>1 DEF RemoveWrite, OrgKeepsAdmin, SerialInv
    <3>2. QED BY <2>4, <2>12, <3>3 DEF RemoveWrite
  <2>13. CASE OrgDelete(r)
    <3>1. \A n \in orgs' : Admins(n) \subseteq Admins(n)'
      BY <2>13 DEF OrgDelete, Admins
    <3>3. OrgKeepsAdmin' BY <2>13, <3>1 DEF OrgDelete, OrgKeepsAdmin, SerialInv
    <3>2. QED BY <2>4, <2>13, <3>3 DEF OrgDelete
  <2>14. ASSUME NEW p \in Projects, ProjectInsert(r, p) PROVE SerialInv'
    BY <2>5, <2>14 DEF ProjectInsert, End, Idle, Demotes, tables
  <2>15. QED
    BY <1>3, <2>6, <2>7, <2>8, <2>9, <2>10, <2>11, <2>12, <2>13, <2>14 DEF Step
<1>4. CASE Links
  <2>1. \A u \in Users : users'[u].org = users[u].org /\ users'[u].role = users[u].role
    BY <1>4 DEF Links, Activate, AcceptInvite, UserRow
  <2>2. QED BY <1>4, <2>1, LinksWrite, RolesKept DEF SerialInv
<1>5. QED
  BY <1>1, <1>2, <1>3, <1>4
     DEF SerialNext, vars, tables, Cookies, Logout, Stripe, Subscribe, Lapse

LEMMA SerialNextIsNext == [SerialNext]_vars => [Next]_vars
BY DEF SerialNext, Next

\* Handled one at a time, no sequence of demotions and removals leaves an org
\* without an admin: the two reads of is_last_admin are enough then.
THEOREM SerialKeepsAdmin == SerialSpec => []OrgKeepsAdmin
<1>1. Init => TypeInv /\ ScopeInv /\ SerialInv
  BY InitTypeInv DEF Init, ScopeInv, SessionScope, Tokens, NoUser, Idle, SerialInv,
     OrgKeepsAdmin, Demotes
<1>2. TypeInv /\ ScopeInv /\ SerialInv /\ [SerialNext]_vars
          => (TypeInv /\ ScopeInv /\ SerialInv)'
  BY SerialNextIsNext, NextTypeInv, NextScopeInv, SerialNextInv
<1>3. SerialInv => OrgKeepsAdmin BY DEF SerialInv
<1>4. QED BY <1>1, <1>2, <1>3, PTL DEF SerialSpec

-----------------------------------------------------------------------------
(* Handled one at a time, requests leave an org within its caps. *)

\* What a request has checked still holds when it writes: in a serial run nobody
\* pays, joins or creates in between.
QuotaHeld(q) ==
    /\ q.at \in {"invite_email", "invite_insert"} => MemberQuota(q.by.org, q.role = "admin")
    /\ q.at \in {"role_is_admin", "role_count"} => q.role # "admin"
    /\ q.at = "role_write" /\ q.role = "admin" => MemberQuota(q.by.org, TRUE)
    /\ q.at = "project_insert" => ProjectQuota(q.by.org)
QuotaInv == orgs \subseteq issued /\ \A r \in Requests : QuotaHeld(req[r])

\* Counts are of finite sets, and one more makes one more.
LEMMA Counts ==
    ASSUME NEW o
    PROVE  /\ IsFiniteSet(Admins(o)) /\ IsFiniteSet(NonAdmins(o)) /\ IsFiniteSet(ProjectsOf(o))
           /\ Cardinality(Admins(o)) \in Nat /\ Cardinality(NonAdmins(o)) \in Nat
           /\ Cardinality(ProjectsOf(o)) \in Nat
<1>1. /\ Admins(o) \subseteq Users /\ NonAdmins(o) \subseteq Users /\ ProjectsOf(o) \subseteq Projects
  BY DEF Admins, NonAdmins, ProjectsOf
<1> QED
  BY <1>1, FiniteAssumption, FS_Subset, FS_CardinalityType

LEMMA OneMore ==
    ASSUME NEW S, IsFiniteSet(S), NEW T, NEW x, T \subseteq S \cup {x}
    PROVE  /\ Cardinality(S) \in Nat /\ Cardinality(T) \in Nat /\ Cardinality(T) <= Cardinality(S) + 1
           /\ T \subseteq S => Cardinality(T) <= Cardinality(S)
<1>1. IsFiniteSet(S \cup {x}) /\ Cardinality(S) \in Nat
      /\ (Cardinality(S \cup {x}) = Cardinality(S) \/ Cardinality(S \cup {x}) = Cardinality(S) + 1)
  BY FS_AddElement, FS_CardinalityType
<1>2. IsFiniteSet(T) /\ Cardinality(T) <= Cardinality(S \cup {x})
  BY <1>1, FS_Subset
<1>3. Cardinality(T) \in Nat
  BY <1>2, FS_CardinalityType
<1>4. T \subseteq S => Cardinality(T) <= Cardinality(S)
  BY FS_Subset
<1> QED
  BY <1>1, <1>2, <1>3, <1>4

\* An org that no step adds to stays within its caps.
LEMMA NoneJoins ==
    ASSUME NEW o \in Orgs, o \notin paid, ~Restricted(o), o \notin paid',
           Admins(o)' \subseteq Admins(o), NonAdmins(o)' \subseteq NonAdmins(o),
           ProjectsOf(o)' \subseteq ProjectsOf(o)
    PROVE  ~Restricted(o)'
<1>1. /\ Cardinality(Admins(o)) <= Solo.admins /\ Cardinality(NonAdmins(o)) <= Solo.non_admin
      /\ Cardinality(ProjectsOf(o)) <= Solo.projects
  BY Counts, SoloAssumption DEF Restricted
<1>2. /\ Cardinality(Admins(o)') <= Cardinality(Admins(o)) /\ Cardinality(Admins(o)') \in Nat
      /\ Cardinality(NonAdmins(o)') <= Cardinality(NonAdmins(o)) /\ Cardinality(NonAdmins(o)') \in Nat
      /\ Cardinality(ProjectsOf(o)') <= Cardinality(ProjectsOf(o)) /\ Cardinality(ProjectsOf(o)') \in Nat
  BY Counts, OneMore
<1> QED
  BY <1>1, <1>2, Counts, SoloAssumption DEF Restricted

\* Nothing changes in what the quotas look at, and no request is past a check
\* that it has not made.
LEMMA QuotaStays ==
    ASSUME QuotaInv, orgs' = orgs, issued' = issued, paid' = paid,
           \A o : Admins(o)' = Admins(o) /\ NonAdmins(o)' = NonAdmins(o) /\ ProjectsOf(o)' = ProjectsOf(o),
           \A r \in Requests : req'[r] = req[r] \/ QuotaHeld(req'[r])
    PROVE  QuotaInv'
<1>1. \A o, new : (MemberQuota(o, new) => MemberQuota(o, new)') /\ (ProjectQuota(o) => ProjectQuota(o)')
  BY DEF MemberQuota, ProjectQuota
<1>2. ASSUME NEW r \in Requests PROVE QuotaHeld(req[r])'
  <2>1. QuotaHeld(req'[r])
    BY DEF QuotaInv
  <2> QED
    BY <1>1, <2>1 DEF QuotaHeld
<1> QED
  BY <1>2 DEF QuotaInv

LEMMA RowsSame ==
    ASSUME UNCHANGED projects,
           \A u \in Users : users'[u].org = users[u].org /\ users'[u].role = users[u].role
    PROVE  \A o : Admins(o)' = Admins(o) /\ NonAdmins(o)' = NonAdmins(o) /\ ProjectsOf(o)' = ProjectsOf(o)
BY DEF Admins, NonAdmins, ProjectsOf

\* A request that is over holds nothing.
LEMMA AllOver ==
    ASSUME SerialInv, TypeInv, NEW r \in Requests, req[r].at # "idle", End(r), orgs' \subseteq issued'
    PROVE  QuotaInv'
<1>1. \A t \in Requests : req'[t].at = "idle"
  BY DEF SerialInv, TypeInv, TypeOK, End, Idle
<1> QED
  BY <1>1 DEF QuotaInv, QuotaHeld

LEMMA OpenHolds ==
    ASSUME TypeInv, QuotaInv, SerialInv, Quiet, NEW r \in Requests, Open(r)
    PROVE  QuotaInv'
<1> USE DEF TypeInv, TypeOK, Begin, QuotaHeld, Ask, Idle
<1>1. ASSUME NEW e \in Emails, Signup(r, e) PROVE QuotaHeld(req'[r])
  BY <1>1 DEF Signup
<1>2. ASSUME NEW u \in Users, Login(r, u) PROVE QuotaHeld(req'[r])
  BY <1>2 DEF Login
<1>3. ASSUME NEW s, NEW e \in Emails, NEW role \in Roles, InviteUser(r, s, e, role) PROVE QuotaHeld(req'[r])
  BY <1>3 DEF InviteUser
<1>4. ASSUME NEW s, NEW u \in Users, NEW role \in Roles, UpdateUserRole(r, s, u, role) PROVE QuotaHeld(req'[r])
  BY <1>4 DEF UpdateUserRole
<1>5. ASSUME NEW s, NEW u \in Users, RemoveUser(r, s, u) PROVE QuotaHeld(req'[r])
  BY <1>5 DEF RemoveUser
<1>6. ASSUME NEW s, DeleteOrganization(r, s) \/ CreateProject(r, s) PROVE QuotaHeld(req'[r])
  BY <1>6 DEF DeleteOrganization, CreateProject
<1>7. ASSUME NEW s, NEW p \in Projects, DeleteProject(r, s, p) PROVE QuotaHeld(req'[r])
  BY <1>7 DEF DeleteProject
<1>8. QuotaHeld(req'[r])
  BY <1>1, <1>2, <1>3, <1>4, <1>5, <1>6, <1>7 DEF Open
<1>9. UNCHANGED <<tables, paid>> /\ \A t \in Requests \ {r} : req'[t] = req[t]
  <2>1. UNCHANGED paid
    BY DEF Open, Signup, Login, InviteUser, UpdateUserRole, RemoveUser,
           DeleteOrganization, CreateProject, DeleteProject
  <2> QED
    BY <2>1, OpenWritesNothing, OpenTokens
<1> HIDE DEF QuotaHeld, TypeInv
<1>10. \A o : Admins(o)' = Admins(o) /\ NonAdmins(o)' = NonAdmins(o) /\ ProjectsOf(o)' = ProjectsOf(o)
  BY <1>9, RowsSame DEF tables
<1> QED
  BY <1>8, <1>9, <1>10, QuotaStays DEF tables

LEMMA StepBusy ==
    ASSUME NEW r \in Requests, Step(r)
    PROVE  req[r].at # "idle"
BY DEF Step, SignupInsert, LoginIssue, InviteEmail, InviteInsert, IsAdmin, CountAdmins, RoleWrite,
       RemoveWrite, OrgDelete, CheckProjectQuota, ProjectInsert, EnsureProject, ProjectDelete, Abort

LEMMA StepHolds ==
    ASSUME TypeInv, SerialInv, QuotaInv, NEW r \in Requests, Step(r)
    PROVE  QuotaInv'
<1>1. req[r].at # "idle"
  BY StepBusy
<1>2. ASSUME End(r) PROVE QuotaInv'
  <2>1. orgs' \subseteq issued'
    BY DEF QuotaInv, Step, SignupInsert, LoginIssue, InviteEmail, InviteInsert, IsAdmin, CountAdmins,
           RoleWrite, RemoveWrite, OrgDelete, CheckProjectQuota, ProjectInsert, EnsureProject,
           ProjectDelete, Abort, tables
  <2> QED
    BY <1>1, <1>2, <2>1, AllOver
<1>3. ASSUME NEW label, Goto(r, label), UNCHANGED <<tables, paid>>, QuotaHeld([req[r] EXCEPT !.at = label])
      PROVE  QuotaInv'
  <2>1. \A t \in Requests : req'[t] = req[t] \/ QuotaHeld(req'[t])
    BY <1>3 DEF Goto, TypeInv, TypeOK
  <2>2. \A o : Admins(o)' = Admins(o) /\ NonAdmins(o)' = NonAdmins(o) /\ ProjectsOf(o)' = ProjectsOf(o)
    BY <1>3, RowsSame DEF tables
  <2> QED
    BY <1>3, <2>1, <2>2, QuotaStays DEF tables
<1>4. ASSUME NEW label
      PROVE  LET q == [req[r] EXCEPT !.at = label]
             IN  q.at = label /\ q.by = req[r].by /\ q.role = req[r].role
  BY DEF TypeInv, TypeOK, Request
<1>5. QuotaHeld(req[r])
  BY DEF QuotaInv
<1>6. CASE InviteEmail(r)
  BY <1>2, <1>3, <1>4, <1>5, <1>6 DEF InviteEmail, QuotaHeld
<1>7. CASE IsAdmin(r, "role_is_admin", "role_count", "role_write")
  BY <1>3, <1>4, <1>5, <1>7 DEF IsAdmin, QuotaHeld
<1>8. CASE IsAdmin(r, "remove_is_admin", "remove_count", "remove_write")
  BY <1>3, <1>4, <1>5, <1>8 DEF IsAdmin, QuotaHeld
<1>9. CASE CountAdmins(r, "role_count", "role_write")
  BY <1>2, <1>3, <1>4, <1>5, <1>9 DEF CountAdmins, QuotaHeld
<1>10. CASE CountAdmins(r, "remove_count", "remove_write")
  BY <1>2, <1>3, <1>4, <1>5, <1>10 DEF CountAdmins, QuotaHeld
<1>11. CASE CheckProjectQuota(r)
  BY <1>2, <1>3, <1>4, <1>5, <1>11 DEF CheckProjectQuota, QuotaHeld
<1>12. CASE EnsureProject(r)
  BY <1>2, <1>3, <1>4, <1>5, <1>12 DEF EnsureProject, QuotaHeld
<1> QED
  BY <1>2, <1>6, <1>7, <1>8, <1>9, <1>10, <1>11, <1>12
     DEF Step, SignupInsert, LoginIssue, InviteInsert, RoleWrite, RemoveWrite, OrgDelete,
         ProjectInsert, ProjectDelete, Abort

\* The one row a step adds is counted where its check allowed one more.
LEMMA StepCaps ==
    ASSUME Solo.admins = 1, TypeInv, ScopeInv, SerialInv, QuotaInv, NEW r \in Requests, Step(r),
           NEW o \in orgs, o \notin paid, o \notin paid', ~Restricted(o)
    PROVE  ~Restricted(o)'
<1>1. /\ o \in Orgs /\ o # None /\ o \in issued
  BY NoneAssumption DEF TypeInv, TypeOK, QuotaInv
<1>2. /\ Cardinality(Admins(o)) <= Solo.admins /\ Cardinality(NonAdmins(o)) <= Solo.non_admin
      /\ Cardinality(ProjectsOf(o)) <= Solo.projects
      /\ Cardinality(Admins(o)) \in Nat /\ Cardinality(NonAdmins(o)) \in Nat
      /\ Cardinality(ProjectsOf(o)) \in Nat
      /\ Solo.admins \in Nat /\ Solo.non_admin \in Nat /\ Solo.projects \in Nat
  BY Counts, SoloAssumption DEF Restricted
<1>3. /\ WellFormed(req[r]) /\ QuotaHeld(req[r]) /\ req[r] \in Request
      /\ users \in [Users -> UserRow] /\ projects \in [Projects -> Orgs \cup {None}]
  BY DEF TypeInv, TypeOK, QuotaInv
<1>4. ASSUME Admins(o)' \subseteq Admins(o), NonAdmins(o)' \subseteq NonAdmins(o),
             ProjectsOf(o)' \subseteq ProjectsOf(o)
      PROVE  ~Restricted(o)'
  BY <1>1, <1>4, NoneJoins
<1>5. ASSUME NEW u \in Users, Admins(o)' \subseteq Admins(o) \cup {u}, NonAdmins(o)' \subseteq NonAdmins(o),
             ProjectsOf(o)' \subseteq ProjectsOf(o), Cardinality(Admins(o)) < Solo.admins
      PROVE  ~Restricted(o)'
  <2>1. /\ Cardinality(Admins(o)') \in Nat /\ Cardinality(Admins(o)') <= Cardinality(Admins(o)) + 1
        /\ Cardinality(NonAdmins(o)') \in Nat /\ Cardinality(NonAdmins(o)') <= Cardinality(NonAdmins(o))
        /\ Cardinality(ProjectsOf(o)') \in Nat /\ Cardinality(ProjectsOf(o)') <= Cardinality(ProjectsOf(o))
    BY <1>5, Counts, OneMore
  <2> QED
    BY <1>2, <1>5, <2>1 DEF Restricted
<1>6. ASSUME NEW u \in Users, Admins(o)' \subseteq Admins(o), NonAdmins(o)' \subseteq NonAdmins(o) \cup {u},
             ProjectsOf(o)' \subseteq ProjectsOf(o), Cardinality(NonAdmins(o)) < Solo.non_admin
      PROVE  ~Restricted(o)'
  <2>1. /\ Cardinality(Admins(o)') \in Nat /\ Cardinality(Admins(o)') <= Cardinality(Admins(o))
        /\ Cardinality(NonAdmins(o)') \in Nat /\ Cardinality(NonAdmins(o)') <= Cardinality(NonAdmins(o)) + 1
        /\ Cardinality(ProjectsOf(o)') \in Nat /\ Cardinality(ProjectsOf(o)') <= Cardinality(ProjectsOf(o))
    BY <1>6, Counts, OneMore
  <2> QED
    BY <1>2, <1>6, <2>1 DEF Restricted
<1>7. CASE UNCHANGED <<users, projects>>
  BY <1>4, <1>7 DEF Admins, NonAdmins, ProjectsOf
<1>8. ASSUME NEW n \in Orgs, NEW u \in Users, SignupInsert(r, n, u) PROVE ~Restricted(o)'
  <2>1. CASE ~UNCHANGED tables
    <3>1. InsertUser(u, n, req[r].email, "admin", FALSE) /\ projects' = projects /\ n # o
      BY <1>1, <1>8, <2>1 DEF SignupInsert
    <3> QED
      BY <1>1, <1>3, <1>4, <3>1 DEF InsertUser, Admins, NonAdmins, ProjectsOf
  <2> QED
    BY <1>7, <2>1 DEF tables
<1>9. ASSUME NEW u \in Users, InviteInsert(r, u) PROVE ~Restricted(o)'
  <2>1. CASE ~UNCHANGED tables
    <3> DEFINE to == req[r].by.org
               role == req[r].role
    <3>1. /\ InsertUser(u, to, req[r].email, role, TRUE) /\ projects' = projects
          /\ MemberQuota(to, role = "admin")
      BY <1>3, <1>9, <2>1 DEF InviteInsert, QuotaHeld
    <3>2. ProjectsOf(o)' = ProjectsOf(o)
      BY <3>1 DEF ProjectsOf
    <3> HIDE DEF to, role
    <3>3. CASE to # o
      BY <1>3, <1>4, <3>1, <3>2, <3>3 DEF InsertUser, Admins, NonAdmins
    <3>4. CASE to = o /\ role = "admin"
      <4>1. Admins(o)' \subseteq Admins(o) \cup {u} /\ NonAdmins(o)' \subseteq NonAdmins(o)
        BY <1>3, <3>1, <3>4 DEF InsertUser, Admins, NonAdmins
      <4>2. Cardinality(Admins(o)) < Solo.admins
        BY <3>1, <3>4 DEF MemberQuota
      <4> QED
        BY <1>5, <3>2, <4>1, <4>2
    <3>5. CASE to = o /\ role # "admin"
      <4>1. Admins(o)' \subseteq Admins(o) /\ NonAdmins(o)' \subseteq NonAdmins(o) \cup {u}
        BY <1>3, <3>1, <3>5 DEF InsertUser, Admins, NonAdmins
      <4>2. Cardinality(NonAdmins(o)) < Solo.non_admin
        BY <3>1, <3>5 DEF MemberQuota
      <4> QED
        BY <1>6, <3>2, <4>1, <4>2
    <3> QED
      BY <3>3, <3>4, <3>5
  <2> QED
    BY <1>7, <2>1 DEF tables
<1>10. CASE RoleWrite(r)
  <2> DEFINE u == req[r].user
             role == req[r].role
  <2>1. u \in Users /\ req[r].at = "role_write" /\ projects' = projects
    BY <1>3, <1>10 DEF RoleWrite, WellFormed
  <2>2. ProjectsOf(o)' = ProjectsOf(o)
    BY <2>1 DEF ProjectsOf
  <2>3. CASE ~Target(r) \/ users[u].org # o
    <3>1. \A v \in Users : users'[v].org = o \/ users[v].org = o => users'[v] = users[v]
      BY <1>3, <1>10, <2>1, <2>3 DEF RoleWrite, Target, UserRow
    <3> QED
      BY <1>4, <2>2, <3>1 DEF Admins, NonAdmins
  <2>4. CASE Target(r) /\ users[u].org = o
    <3>1. req[r].by.org = o /\ users' = [users EXCEPT ![u].role = role]
      BY <1>10, <2>4 DEF RoleWrite, Target
    <3>2. /\ users'[u].org = o /\ users'[u].role = role
          /\ \A v \in Users \ {u} : users'[v] = users[v]
      BY <1>3, <2>1, <2>4, <3>1 DEF UserRow
    <3>3. CASE role = "admin"
      <4>1. Admins(o)' \subseteq Admins(o) \cup {u} /\ NonAdmins(o)' \subseteq NonAdmins(o)
        BY <2>1, <3>2, <3>3 DEF Admins, NonAdmins
      <4>2. Cardinality(Admins(o)) < Solo.admins
        BY <1>3, <2>1, <3>1, <3>3 DEF QuotaHeld, MemberQuota
      <4> QED
        BY <1>5, <2>1, <2>2, <4>1, <4>2
    <3>4. CASE role # "admin" /\ u \notin Admins(o)
      <4>1. Admins(o)' \subseteq Admins(o) /\ NonAdmins(o)' \subseteq NonAdmins(o)
        BY <2>1, <2>4, <3>2, <3>4 DEF Admins, NonAdmins
      <4> QED
        BY <1>4, <2>2, <4>1
    <3>5. CASE role # "admin" /\ u \in Admins(o)
      <4>1. PICK b \in Admins(o) : b # u
        BY <2>1, <3>1, <3>5 DEF SerialInv, Demotes
      <4>2. Cardinality({u, b}) = 2 /\ {u, b} \in SUBSET Admins(o)
        <5>1. IsFiniteSet({u}) /\ Cardinality({u}) = 1
          BY FS_Singleton
        <5>2. Cardinality({u} \cup {b}) = IF b \in {u} THEN Cardinality({u}) ELSE Cardinality({u}) + 1
          BY <5>1, FS_AddElement
        <5>3. {u, b} = {u} \cup {b}
          OBVIOUS
        <5> QED
          BY <3>5, <4>1, <5>1, <5>2, <5>3
      <4>3. 2 <= Cardinality(Admins(o))
        BY <4>2, Counts, FS_Subset
      <4> QED
        BY <1>2, <4>3
    <3> QED
      BY <3>3, <3>4, <3>5
  <2> QED
    BY <2>3, <2>4
<1>11. CASE RemoveWrite(r)
  <2>1. Admins(o)' \subseteq Admins(o) /\ NonAdmins(o)' \subseteq NonAdmins(o)
    BY <1>1, <1>3, <1>11 DEF RemoveWrite, Admins, NonAdmins, NoUser
  <2>2. ProjectsOf(o)' = ProjectsOf(o)
    BY <1>11 DEF RemoveWrite, ProjectsOf
  <2> QED
    BY <1>4, <2>1, <2>2
<1>12. CASE OrgDelete(r)
  <2>1. /\ users' = [u \in Users |-> IF users[u].org = req[r].by.org THEN NoUser ELSE users[u]]
        /\ projects' = [p \in Projects |-> IF projects[p] = req[r].by.org THEN None ELSE projects[p]]
    BY <1>12 DEF OrgDelete
  <2>2. Admins(o)' \subseteq Admins(o) /\ NonAdmins(o)' \subseteq NonAdmins(o) /\ ProjectsOf(o)' \subseteq ProjectsOf(o)
    BY <1>1, <1>3, <2>1 DEF Admins, NonAdmins, ProjectsOf, NoUser
  <2> QED
    BY <1>4, <2>2
<1>13. ASSUME NEW p \in Projects, ProjectInsert(r, p) PROVE ~Restricted(o)'
  <2>1. CASE ~UNCHANGED tables
    <3>1. /\ projects' = [projects EXCEPT ![p] = req[r].by.org] /\ users' = users
          /\ ProjectQuota(req[r].by.org)
      BY <1>3, <1>13, <2>1 DEF ProjectInsert, QuotaHeld
    <3>2. Admins(o)' = Admins(o) /\ NonAdmins(o)' = NonAdmins(o)
      BY <3>1 DEF Admins, NonAdmins
    <3>3. CASE req[r].by.org # o
      BY <1>3, <1>4, <3>1, <3>2, <3>3 DEF ProjectsOf
    <3>4. CASE req[r].by.org = o
      <4>1. ProjectsOf(o)' \subseteq ProjectsOf(o) \cup {p}
        BY <1>3, <3>1 DEF ProjectsOf
      <4>2. Cardinality(ProjectsOf(o)) < Solo.projects
        BY <3>1, <3>4 DEF ProjectQuota
      <4>3. Cardinality(ProjectsOf(o)') \in Nat /\ Cardinality(ProjectsOf(o)') <= Cardinality(ProjectsOf(o)) + 1
        BY <4>1, Counts, OneMore
      <4> QED
        BY <1>2, <3>2, <4>2, <4>3 DEF Restricted
    <3> QED
      BY <3>3, <3>4
  <2> QED
    BY <1>7, <2>1 DEF tables
<1>14. CASE ProjectDelete(r)
  <2>1. ProjectsOf(o)' \subseteq ProjectsOf(o)
    BY <1>1, <1>3, <1>14 DEF ProjectDelete, ProjectsOf
  <2>2. Admins(o)' = Admins(o) /\ NonAdmins(o)' = NonAdmins(o)
    BY <1>14 DEF ProjectDelete, Admins, NonAdmins
  <2> QED
    BY <1>4, <2>1, <2>2
<1> QED
  BY <1>7, <1>8, <1>9, <1>10, <1>11, <1>12, <1>13, <1>14, StepWrites DEF WritesUsers, WritesProjects

LEMMA SerialNextQuota ==
    TypeInv /\ SerialInv /\ QuotaInv /\ [SerialNext]_vars => QuotaInv'
<1> SUFFICES ASSUME TypeInv, SerialInv, QuotaInv, [SerialNext]_vars PROVE QuotaInv'
  OBVIOUS
<1>1. CASE UNCHANGED <<orgs, issued, projects, paid, req>> /\
           \A u \in Users : users'[u].org = users[u].org /\ users'[u].role = users[u].role
  BY <1>1, RowsSame, QuotaStays
<1>2. CASE Links
  <2>1. \A u \in Users : users'[u].org = users[u].org /\ users'[u].role = users[u].role
    BY <1>2 DEF Links, Activate, AcceptInvite, UserRow, TypeInv, TypeOK
  <2>2. UNCHANGED paid
    BY <1>2 DEF Links, Activate, AcceptInvite
  <2> QED
    BY <1>1, <1>2, <2>1, <2>2, LinksWrite
<1>3. CASE Quiet /\ Stripe
  <2>1. \A r \in Requests : QuotaHeld(req[r])'
    BY <1>3 DEF Quiet, Stripe, Subscribe, Lapse, QuotaHeld
  <2>2. (orgs \subseteq issued)'
    BY <1>3 DEF Stripe, Subscribe, Lapse, QuotaInv, tables
  <2> QED
    BY <2>1, <2>2 DEF QuotaInv
<1>4. CASE Cookies \/ UNCHANGED vars
  BY <1>1, <1>4 DEF Cookies, Logout, tables, vars
<1> QED
  BY <1>2, <1>3, <1>4, OpenHolds, StepHolds DEF SerialNext

LEMMA SerialNextCaps ==
    ASSUME Solo.admins = 1, TypeInv, ScopeInv, SerialInv, QuotaInv, SerialNext
    PROVE  CapsStep
<1> SUFFICES ASSUME NEW o \in orgs, o \notin paid, o \notin paid', ~Restricted(o)
             PROVE  ~Restricted(o)'
  BY DEF CapsStep
<1>1. ASSUME UNCHANGED projects,
             \A u \in Users : users'[u].org = users[u].org /\ users'[u].role = users[u].role
      PROVE  ~Restricted(o)'
  <2>1. o \in Orgs
    BY DEF TypeInv, TypeOK
  <2> QED
    BY <1>1, <2>1, RowsSame, NoneJoins
<1>2. CASE \E r \in Requests : Step(r)
  BY <1>2, StepCaps
<1>3. CASE \E r \in Requests : Quiet /\ Open(r)
  BY <1>1, <1>3, OpenWritesNothing DEF tables
<1>4. CASE Links
  <2>1. \A u \in Users : users'[u].org = users[u].org /\ users'[u].role = users[u].role
    BY <1>4 DEF Links, Activate, AcceptInvite, UserRow, TypeInv, TypeOK
  <2> QED
    BY <1>1, <1>4, <2>1, LinksWrite
<1>5. CASE Cookies \/ (Quiet /\ Stripe)
  BY <1>1, <1>5 DEF Cookies, Logout, Stripe, Subscribe, Lapse, tables
<1> QED
  BY <1>2, <1>3, <1>4, <1>5 DEF SerialNext

\* Handled one at a time, no sequence of invites, role changes, projects and
\* deletions takes a Solo org past its caps, whatever the caps on projects and
\* on other members are: with one admin allowed (plan.rs), as the code has it, the
\* last-admin check is what keeps a demotion, which no quota is asked for, from
\* adding a member.
THEOREM SerialKeepsCaps ==
    ASSUME Solo.admins = 1
    PROVE  SerialSpec => CapsKept
<1>1. Init => TypeInv /\ ScopeInv /\ SerialInv /\ QuotaInv
  <2>1. Init => TypeInv /\ ScopeInv /\ SerialInv
    BY InitTypeInv DEF Init, ScopeInv, SessionScope, Tokens, NoUser, Idle, SerialInv,
       OrgKeepsAdmin, Demotes
  <2>2. Init => QuotaInv
    <3>1. Init => orgs = {} /\ \A r \in Requests : req[r].at = "idle"
      BY DEF Init, Idle
    <3>2. \A q : q.at = "idle" => QuotaHeld(q)
      BY DEF QuotaHeld
    <3> QED
      BY <3>1, <3>2 DEF QuotaInv
  <2> QED
    BY <2>1, <2>2
<1>2. TypeInv /\ ScopeInv /\ SerialInv /\ QuotaInv /\ [SerialNext]_vars
          => (TypeInv /\ ScopeInv /\ SerialInv /\ QuotaInv)'
  BY SerialNextIsNext, NextTypeInv, NextScopeInv, SerialNextInv, SerialNextQuota
<1>3. TypeInv /\ ScopeInv /\ SerialInv /\ QuotaInv /\ [SerialNext]_vars => [CapsStep]_vars
  BY SerialNextCaps
<1> QED
  BY <1>1, <1>2, <1>3, PTL DEF SerialSpec, CapsKept
=============================================================================
