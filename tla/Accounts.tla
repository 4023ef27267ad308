------------------------------ MODULE Accounts ------------------------------
(***************************************************************************)
(* Accounts of the API (server.ts): registration, further organizations    *)
(* and workspaces, and members.  A request writes its rows one by one,     *)
(* with no transaction around them; the database keeps addresses, slugs    *)
(* and memberships unique.  All organizations here have the same name, so  *)
(* that a slug is the base with a counter, and stands for its row.         *)
(***************************************************************************)
EXTENDS Naturals, FiniteSets

CONSTANTS
  Person,   \* e-mail addresses
  Visit,    \* requests
  Nobody,   \* no address
  MaxSlugs, \* counters that are tried before the allocation gives up
  MaxCuts   \* bound: requests that a crash or a failing statement cuts

ASSUME AccountsAssumption ==
  Nobody \notin Person /\ MaxSlugs \in Nat \ {0} /\ MaxCuts \in Nat

VARIABLES
  users,      \* addresses with a row
  roles,      \* slug -> person -> role; a slug without a row has no members
  orgs,       \* slugs that are taken
  workspaces, \* slugs of the organizations that have a workspace
  visit,      \* request -> the locals of its handler
  given       \* ghost: <<slug, person>> whose role a manager's request set

accountVars == <<users, roles, orgs, workspaces, visit, given>>

Role == {"owner", "admin", "member"}
NoRole == "none"
Slug == 1..MaxSlugs

Founding == {"register", "organization"}

NoVisit == [pc |-> "none", kind |-> "none", who |-> Nobody,
            slug |-> 1, whom |-> Nobody, role |-> NoRole]

AccountsInit ==
  /\ users = {} /\ orgs = {} /\ workspaces = {}
  /\ roles = [s \in Slug |-> [p \in Person |-> NoRole]]
  /\ visit = [v \in Visit |-> NoVisit]
  /\ given = {}

VisitGoto(v, pc) == visit' = [visit EXCEPT ![v].pc = pc]
VisitAt(v, pc) == visit[v].pc = pc

\* isOrgManager of the membership that is read.
IsOrgManager(p, s) == roles[s][p] \in {"owner", "admin"}

\* A request comes: anybody's registration, or what somebody with a row asks.
Visits(v) ==
  /\ VisitAt(v, "none")
  /\ \E p \in Person :
       \/ visit' = [visit EXCEPT ![v] = [@ EXCEPT !.pc = "user", !.kind = "register", !.who = p]]
       \/ /\ p \in users
          /\ visit' = [visit EXCEPT ![v] = [@ EXCEPT !.pc = "slug", !.kind = "organization", !.who = p]]
       \/ /\ p \in users
          /\ \E s \in orgs, q \in Person, role \in {"admin", "member"} :
               visit' = [visit EXCEPT ![v] = [@ EXCEPT !.pc = "manager", !.kind = "member",
                           !.who = p, !.slug = s, !.whom = q, !.role = role]]
       \/ /\ p \in users
          /\ \E s \in orgs :
               visit' = [visit EXCEPT ![v] = [@ EXCEPT !.pc = "manager", !.kind = "workspace",
                           !.who = p, !.slug = s]]
  /\ UNCHANGED <<users, roles, orgs, workspaces, given>>

\* createUser; an address that is taken is a 409.
CreateUser(v) ==
  /\ VisitAt(v, "user")
  /\ users' = users \cup {visit[v].who}
  /\ VisitGoto(v, IF visit[v].who \in users THEN "refused" ELSE "slug")
  /\ UNCHANGED <<roles, orgs, workspaces, given>>

\* Faulty variant: the insert is an upsert, as that of a membership is.
NeverTaken(s) == FALSE

\* The insert of an organization violates the uniqueness of slugs.
Taken(s) == s \in orgs

\* createOrganizationWithUniqueSlug, one insert after the other.
CreateOrganization(v) ==
  LET s == visit[v].slug
  IN
  /\ VisitAt(v, "slug")
  /\ orgs' = orgs \cup {s}
  /\ visit' = [visit EXCEPT ![v] =
       IF ~Taken(s) THEN [@ EXCEPT !.pc = "owner"]
       ELSE IF s = MaxSlugs THEN [@ EXCEPT !.pc = "cut"]
       ELSE [@ EXCEPT !.slug = s + 1]]
  /\ UNCHANGED <<users, roles, workspaces, given>>

\* createMembership leaves a membership that is there alone.
CreateMembership(s, p, role) ==
  roles' = IF roles[s][p] = NoRole THEN [roles EXCEPT ![s][p] = role] ELSE roles

CreateOwner(v) ==
  /\ VisitAt(v, "owner")
  /\ CreateMembership(visit[v].slug, visit[v].who, "owner")
  /\ VisitGoto(v, "workspace")
  /\ UNCHANGED <<users, orgs, workspaces, given>>

CreateWorkspace(v) ==
  /\ VisitAt(v, "workspace")
  /\ workspaces' = workspaces \cup {visit[v].slug}
  /\ VisitGoto(v, IF visit[v].kind = "register" THEN "session" ELSE "answered")
  /\ UNCHANGED <<users, roles, orgs, given>>

\* createAndSetSession, and the account as it is then goes into the answer.
AnswerRegistration(v) ==
  /\ VisitAt(v, "session")
  /\ VisitGoto(v, "answered")
  /\ UNCHANGED <<users, roles, orgs, workspaces, given>>

\* Members and workspaces are a manager's to add; the member must have a row.
CheckManager(v) ==
  LET r == visit[v]
      next == IF r.kind = "workspace" THEN "workspace" ELSE "member"
      may == IsOrgManager(r.who, r.slug) /\ (r.kind = "member" => r.whom \in users)
  IN
  /\ VisitAt(v, "manager")
  /\ VisitGoto(v, IF may THEN next ELSE "refused")
  /\ UNCHANGED <<users, roles, orgs, workspaces, given>>

AddMember(v) ==
  /\ VisitAt(v, "member")
  /\ CreateMembership(visit[v].slug, visit[v].whom, visit[v].role)
  /\ VisitGoto(v, "role")
  /\ UNCHANGED <<users, orgs, workspaces, given>>

\* updateMembershipRole, whatever the member was.
UpdateMembershipRole(v) ==
  /\ VisitAt(v, "role")
  /\ roles' = [roles EXCEPT ![visit[v].slug][visit[v].whom] = visit[v].role]
  /\ given' = given \cup {<<visit[v].slug, visit[v].whom>>}
  /\ VisitGoto(v, "answered")
  /\ UNCHANGED <<users, orgs, workspaces>>

\* The server dies or a statement fails; what was written stays.
CutVisit(v) ==
  /\ visit[v].pc \notin {"none", "answered", "refused", "cut"}
  /\ Cardinality({w \in Visit : VisitAt(w, "cut")}) < MaxCuts
  /\ VisitGoto(v, "cut")
  /\ UNCHANGED <<users, roles, orgs, workspaces, given>>

AccountsNext ==
  \E v \in Visit :
    \/ Visits(v) \/ CreateUser(v) \/ CreateOrganization(v) \/ CreateOwner(v)
    \/ CreateWorkspace(v) \/ AnswerRegistration(v) \/ CheckManager(v) \/ AddMember(v)
    \/ UpdateMembershipRole(v) \/ CutVisit(v)

AccountsSpec == AccountsInit /\ [][AccountsNext]_accountVars
-----------------------------------------------------------------------------
AccountsTypeOK ==
  /\ users \subseteq Person /\ orgs \subseteq Slug /\ workspaces \subseteq orgs
  /\ roles \in [Slug -> [Person -> Role \cup {NoRole}]]
  /\ \A v \in Visit : visit[v].kind \in {"none", "register", "organization", "member", "workspace"}
                      /\ visit[v].slug \in Slug
  /\ given \subseteq Slug \X Person

\* Visits that have an organization of their own.
Founded(v) == visit[v].kind \in Founding /\ visit[v].pc \in {"owner", "workspace", "session", "answered"}

\* However requests interleave and are cut: no two found one organization; an
\* answer names an organization with a workspace and with its founder as owner,
\* unless a manager's request has set the founder's role since; an organization
\* has an owner unless its founding was cut or is under way, or its owner's role
\* was set; and an address without a membership is one whose registration is
\* under way or was cut (server.ts, POST /api/auth/register, POST /api/orgs).
AccountsWhole ==
  /\ \A v, w \in Visit : v # w /\ Founded(v) /\ Founded(w) => visit[v].slug # visit[w].slug
  /\ \A v \in Visit : visit[v].kind \in Founding /\ VisitAt(v, "answered") =>
       /\ visit[v].slug \in workspaces
       /\ roles[visit[v].slug][visit[v].who] = "owner" \/ <<visit[v].slug, visit[v].who>> \in given
  /\ \A s \in orgs :
       \/ \E p \in Person : roles[s][p] = "owner" \/ <<s, p>> \in given
       \/ \E v \in Visit : visit[v].slug = s /\ visit[v].pc \in {"owner", "cut"}
  /\ \A p \in users :
       \/ \E s \in Slug : roles[s][p] # NoRole
       \/ \E v \in Visit : visit[v].kind = "register" /\ visit[v].who = p
                           /\ visit[v].pc \in {"slug", "owner", "cut"}
=============================================================================
