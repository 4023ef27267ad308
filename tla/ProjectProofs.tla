---------------------------- MODULE ProjectProofs ----------------------------
(***************************************************************************)
(* What is done with a project outside of a run's worktree, proved for any *)
(* persons, requests, calls, ports and bounds: accounts are whole, changes *)
(* of a project exclude each other, a browser's session is kept, and a     *)
(* readiness verdict is earned and what it used given back.  Each part has *)
(* an inductive invariant of its own.                                      *)
(***************************************************************************)
EXTENDS MCProjectChecks, SequenceTheorems, FiniteSetTheorems, TLAPS
-----------------------------------------------------------------------------
(* Accounts.                                                               *)

VisitRow == [pc : {"none", "user", "slug", "owner", "workspace", "session", "manager",
                   "member", "role", "answered", "refused", "cut"},
             kind : {"none", "register", "organization", "member", "workspace"},
             who : Person \cup {Nobody}, slug : Slug, whom : Person \cup {Nobody},
             role : Role \cup {NoRole}]

VisitsTyped == visit \in [Visit -> VisitRow]

\* The statements a request of each kind goes through, and what it knows there.
VisitsInStage == \A v \in Visit :
  /\ visit[v].pc \in {"user", "session"} => visit[v].kind = "register"
  /\ visit[v].pc \in {"slug", "owner"} => visit[v].kind \in Founding
  /\ visit[v].pc = "manager" => visit[v].kind \in {"member", "workspace"}
  /\ visit[v].pc \in {"member", "role"} => visit[v].kind = "member"
  /\ visit[v].pc = "workspace" => visit[v].kind \in Founding \cup {"workspace"}
  /\ visit[v].kind \in Founding \cup {"member"} => visit[v].who \in Person
  /\ visit[v].kind = "member" => visit[v].whom \in Person /\ visit[v].role \in {"admin", "member"}

HasMembers(s) == \E p \in Person : roles[s][p] # NoRole

\* Only an organization that is there is worked on or has members, and until its
\* founder is made its owner nobody can make anybody a member.
PlacesTaken ==
  /\ \A s \in Slug : HasMembers(s) => s \in orgs
  /\ \A v \in Visit :
       /\ visit[v].pc \in {"owner", "workspace", "session", "manager", "member", "role"} =>
            visit[v].slug \in orgs
       /\ visit[v].kind \in Founding /\ visit[v].pc = "answered" => visit[v].slug \in orgs
       /\ visit[v].pc = "owner" => ~HasMembers(visit[v].slug)
       /\ visit[v].pc \in {"member", "role"} => HasMembers(visit[v].slug)

\* What a founding has achieved when it is past the owner, and past the workspace.
FoundingsGoOn == \A v \in Visit : visit[v].kind \in Founding =>
  /\ visit[v].pc \in {"workspace", "session", "answered"} =>
       roles[visit[v].slug][visit[v].who] = "owner" \/ <<visit[v].slug, visit[v].who>> \in given
  /\ visit[v].pc \in {"session", "answered"} => visit[v].slug \in workspaces

FoundedApart ==
  \A v, w \in Visit : v # w /\ Founded(v) /\ Founded(w) => visit[v].slug # visit[w].slug

OrgsOwned ==
  \A s \in orgs :
    \/ \E p \in Person : roles[s][p] = "owner" \/ <<s, p>> \in given
    \/ \E v \in Visit : visit[v].slug = s /\ visit[v].pc \in {"owner", "cut"}

UsersPlaced ==
  \A p \in users :
    \/ \E s \in Slug : roles[s][p] # NoRole
    \/ \E v \in Visit : visit[v].kind = "register" /\ visit[v].who = p
                        /\ visit[v].pc \in {"slug", "owner", "cut"}

\* Inductive.
AccountsInv ==
  /\ AccountsTypeOK /\ VisitsTyped /\ VisitsInStage
  /\ PlacesTaken /\ FoundingsGoOn
  /\ FoundedApart /\ OrgsOwned /\ UsersPlaced

\* The answered founding of AccountsWhole is the last stage of FoundingsGoOn.
LEMMA AccountsInvIsWhole == ASSUME AccountsInv PROVE AccountsWhole
  BY DEF AccountsInv, AccountsWhole, FoundedApart, OrgsOwned, UsersPlaced, FoundingsGoOn, VisitAt

\* No row, no request.
LEMMA AccountsInitInv == ASSUME AccountsInit PROVE AccountsInv
<1> USE AccountsAssumption DEF AccountsInit, NoVisit
<1>1. AccountsTypeOK
  BY DEF AccountsTypeOK, Slug
<1>2. VisitsTyped /\ VisitsInStage
  BY DEF VisitsTyped, VisitRow, VisitsInStage, Slug, Founding
<1>3. PlacesTaken /\ FoundingsGoOn
  BY DEF PlacesTaken, HasMembers, FoundingsGoOn, Founding
<1>4. FoundedApart /\ OrgsOwned /\ UsersPlaced
  BY DEF FoundedApart, Founded, OrgsOwned, UsersPlaced
<1> QED
  BY <1>1, <1>2, <1>3, <1>4 DEF AccountsInv

\* The rows of one kind of step: the visit's own locals change, nobody else's.
LEMMA VisitGotoKeeps ==
  ASSUME VisitsTyped, NEW v \in Visit, NEW pc, VisitGoto(v, pc)
  PROVE  /\ visit'[v] = [visit[v] EXCEPT !.pc = pc]
         /\ \A w \in Visit \ {v} : visit'[w] = visit[w]
         /\ visit'[v].pc = pc
         /\ visit'[v].kind = visit[v].kind /\ visit'[v].who = visit[v].who
         /\ visit'[v].slug = visit[v].slug /\ visit'[v].whom = visit[v].whom
         /\ visit'[v].role = visit[v].role
  BY DEF VisitsTyped, VisitRow, VisitGoto

\* A membership that is made is made once: the others, and one that was there,
\* are left alone (createMembership's ON CONFLICT DO NOTHING).
LEMMA CreateMembershipKeeps ==
  ASSUME AccountsTypeOK, NEW s \in Slug, NEW p \in Person, NEW role \in Role,
         CreateMembership(s, p, role)
  PROVE  /\ roles' \in [Slug -> [Person -> Role \cup {NoRole}]]
         /\ \A t \in Slug, q \in Person :
              roles[t][q] # NoRole \/ t # s \/ q # p => roles'[t][q] = roles[t][q]
         /\ roles[s][p] = NoRole => roles'[s][p] = role
         /\ roles'[s][p] # NoRole
  BY DEF AccountsTypeOK, CreateMembership, Role, NoRole

\* A request comes: nothing is founded by it yet.
LEMMA VisitsKeepsInv ==
  ASSUME AccountsInv, NEW v \in Visit, Visits(v) PROVE AccountsInv'
<1> USE DEF AccountsInv
<1> DEFINE row == visit'[v]
<1>0. visit \in [Visit -> VisitRow] /\ visit[v] \in VisitRow /\ orgs \subseteq Slug
  BY DEF VisitsTyped, AccountsTypeOK
<1>1. PICK p \in Person :
        \/ visit' = [visit EXCEPT ![v] = [@ EXCEPT !.pc = "user", !.kind = "register", !.who = p]]
        \/ visit' = [visit EXCEPT ![v] = [@ EXCEPT !.pc = "slug", !.kind = "organization", !.who = p]]
        \/ \E t \in orgs, q \in Person, role \in {"admin", "member"} :
             visit' = [visit EXCEPT ![v] = [@ EXCEPT !.pc = "manager", !.kind = "member",
                       !.who = p, !.slug = t, !.whom = q, !.role = role]]
        \/ \E t \in orgs :
             visit' = [visit EXCEPT ![v] = [@ EXCEPT !.pc = "manager", !.kind = "workspace",
                       !.who = p, !.slug = t]]
  BY ZenonT(30) DEF Visits
<1>2. /\ visit' = [visit EXCEPT ![v] = row]
      /\ \A new : visit' = [visit EXCEPT ![v] = new] => row = new
  BY <1>0, <1>1
<1> HIDE DEF row
<1>a. /\ row \in VisitRow
      /\ row.pc \in {"user", "slug", "manager"} /\ row.slug \in Slug
      /\ row.pc = "user" => row.kind = "register" /\ row.who \in Person
      /\ row.pc = "slug" => row.kind = "organization" /\ row.who \in Person
      /\ row.pc = "manager" =>
           /\ row.slug \in orgs
           /\ \/ row.kind = "workspace"
              \/ /\ row.kind = "member" /\ row.whom \in Person /\ row.who \in Person
                 /\ row.role \in {"admin", "member"}
  <2>1. CASE visit' = [visit EXCEPT ![v] = [@ EXCEPT !.pc = "user", !.kind = "register", !.who = p]]
    <3>1. row = [visit[v] EXCEPT !.pc = "user", !.kind = "register", !.who = p]
      BY <2>1, <1>2
    <3> QED
      BY <3>1, <1>0 DEF VisitRow
  <2>2. CASE visit' = [visit EXCEPT ![v] = [@ EXCEPT !.pc = "slug", !.kind = "organization", !.who = p]]
    <3>1. row = [visit[v] EXCEPT !.pc = "slug", !.kind = "organization", !.who = p]
      BY <2>2, <1>2
    <3> QED
      BY <3>1, <1>0 DEF VisitRow
  <2>3. ASSUME NEW t \in orgs, NEW q \in Person, NEW role \in {"admin", "member"},
               visit' = [visit EXCEPT ![v] = [@ EXCEPT !.pc = "manager", !.kind = "member",
                         !.who = p, !.slug = t, !.whom = q, !.role = role]]
        PROVE  <1>a!:
    <3>1. row = [visit[v] EXCEPT !.pc = "manager", !.kind = "member",
                    !.who = p, !.slug = t, !.whom = q, !.role = role]
      BY <2>3, <1>2
    <3> QED
      BY <3>1, <1>0, <2>3 DEF VisitRow, Role
  <2>4. ASSUME NEW t \in orgs,
               visit' = [visit EXCEPT ![v] = [@ EXCEPT !.pc = "manager", !.kind = "workspace",
                         !.who = p, !.slug = t]]
        PROVE  <1>a!:
    <3>1. row = [visit[v] EXCEPT !.pc = "manager", !.kind = "workspace",
                    !.who = p, !.slug = t]
      BY <2>4, <1>2
    <3> QED
      BY <3>1, <1>0, <2>4 DEF VisitRow, Role
  <2> QED
    BY <1>1, <2>1, <2>2, <2>3, <2>4
<1>b. /\ visit' \in [Visit -> VisitRow] /\ visit'[v] = row
      /\ \A w \in Visit \ {v} : visit'[w] = visit[w]
  BY <1>0, <1>2, <1>a
<1>3. VisitAt(v, "none") /\ UNCHANGED <<users, roles, orgs, workspaces, given>>
  BY DEF Visits
<1>4. AccountsTypeOK'
  BY <1>a, <1>b, <1>3 DEF AccountsTypeOK, VisitRow
<1>5. VisitsTyped' /\ VisitsInStage'
  BY <1>a, <1>b DEF VisitsTyped, VisitsInStage, Founding
<1>6. PlacesTaken'
  BY <1>a, <1>b, <1>3 DEF PlacesTaken, HasMembers
<1>7. FoundingsGoOn' /\ FoundedApart'
  BY <1>a, <1>b, <1>3 DEF FoundingsGoOn, FoundedApart, Founded
<1>8. OrgsOwned' /\ UsersPlaced'
  BY <1>a, <1>b, <1>3 DEF OrgsOwned, UsersPlaced, VisitAt
<1> QED
  BY <1>4, <1>5, <1>6, <1>7, <1>8

\* A row with the address, and its registration goes on.
LEMMA CreateUserKeepsInv ==
  ASSUME AccountsInv, NEW v \in Visit, CreateUser(v) PROVE AccountsInv'
<1> USE DEF AccountsInv
<1>1. visit' \in [Visit -> VisitRow] /\ \A w \in Visit \ {v} : visit'[w] = visit[w]
  BY DEF VisitsTyped, VisitRow, CreateUser, VisitGoto
<1>2. /\ visit[v].pc = "user" /\ visit[v].kind = "register" /\ visit[v].who \in Person
      /\ visit'[v].pc = IF visit[v].who \in users THEN "refused" ELSE "slug"
      /\ visit'[v].kind = "register" /\ visit'[v].who = visit[v].who
      /\ visit'[v].slug = visit[v].slug
  BY DEF VisitsTyped, VisitRow, CreateUser, VisitGoto, VisitAt, VisitsInStage, Founding
<1>3. users' = users \cup {visit[v].who} /\ UNCHANGED <<roles, orgs, workspaces, given>>
  BY DEF CreateUser
<1>4. AccountsTypeOK'
  BY <1>1, <1>2, <1>3 DEF AccountsTypeOK, VisitRow
<1>5. VisitsTyped' /\ VisitsInStage'
  BY <1>1, <1>2 DEF VisitsTyped, VisitsInStage, Founding
<1>6. PlacesTaken'
  BY <1>1, <1>2, <1>3 DEF PlacesTaken, HasMembers
<1>7. FoundingsGoOn' /\ FoundedApart'
  BY <1>1, <1>2, <1>3 DEF FoundingsGoOn, FoundedApart, Founded
<1>8. OrgsOwned'
  BY <1>1, <1>2, <1>3 DEF OrgsOwned
<1>9. UsersPlaced'
  <2> SUFFICES ASSUME NEW p \in users' PROVE UsersPlaced!(p)'
    BY DEF UsersPlaced
  <2>1. CASE p \in users
    BY <2>1, <1>1, <1>2, <1>3 DEF UsersPlaced
  <2>2. CASE p \notin users
    BY <2>2, <1>2, <1>3
  <2> QED
    BY <2>1, <2>2
<1> QED
  BY <1>4, <1>5, <1>6, <1>7, <1>8, <1>9

\* Only the visit whose insert was not refused has founded the slug, and a slug
\* that was not taken has no members.
LEMMA CreateOrganizationKeepsInv ==
  ASSUME AccountsInv, NEW v \in Visit, CreateOrganization(v) PROVE AccountsInv'
<1> USE DEF AccountsInv
<1> DEFINE s == visit[v].slug
<1>1. visit' \in [Visit -> VisitRow] /\ \A w \in Visit \ {v} : visit'[w] = visit[w]
  BY AccountsAssumption DEF VisitsTyped, VisitRow, CreateOrganization, Slug
<1>2. /\ s \in Slug
      /\ visit[v].pc = "slug" /\ visit[v].kind \in Founding /\ visit[v].who \in Person
      /\ visit'[v].kind = visit[v].kind /\ visit'[v].who = visit[v].who
      /\ visit'[v].pc = "owner" => visit'[v].slug = s /\ s \notin orgs
      /\ visit'[v].pc = "owner" \/ s \in orgs
      /\ visit'[v].pc \in {"slug", "owner", "cut"}
  BY DEF VisitsTyped, VisitRow, CreateOrganization, VisitAt, VisitsInStage, Taken
<1>3. orgs' = orgs \cup {s} /\ UNCHANGED <<users, roles, workspaces, given>>
  BY DEF CreateOrganization
<1>4. AccountsTypeOK'
  BY <1>1, <1>2, <1>3 DEF AccountsTypeOK, VisitRow
<1>5. VisitsTyped' /\ VisitsInStage'
  BY <1>1, <1>2 DEF VisitsTyped, VisitsInStage, Founding
<1>6. PlacesTaken'
  BY <1>1, <1>2, <1>3 DEF PlacesTaken, HasMembers
<1>7. FoundingsGoOn'
  BY <1>1, <1>2, <1>3 DEF FoundingsGoOn
<1>8. FoundedApart'
  BY <1>1, <1>2, <1>3 DEF FoundedApart, Founded, PlacesTaken, Founding
<1>9. OrgsOwned'
  <2> SUFFICES ASSUME NEW o \in orgs' PROVE OrgsOwned!(o)'
    BY DEF OrgsOwned
  <2>1. CASE o \in orgs
    <3>1. \/ \E p \in Person : roles[o][p] = "owner" \/ <<o, p>> \in given
          \/ \E w \in Visit : visit[w].slug = o /\ visit[w].pc \in {"owner", "cut"}
      BY <2>1 DEF OrgsOwned
    <3> QED
      BY <3>1, <1>1, <1>2, <1>3
  <2>2. CASE o \notin orgs
    BY <2>2, <1>2, <1>3
  <2> QED
    BY <2>1, <2>2
<1>10. UsersPlaced'
  BY <1>1, <1>2, <1>3 DEF UsersPlaced
<1> QED
  BY <1>4, <1>5, <1>6, <1>7, <1>8, <1>9, <1>10

\* A workspace for an organization that is there.
LEMMA CreateWorkspaceKeepsInv ==
  ASSUME AccountsInv, NEW v \in Visit, CreateWorkspace(v) PROVE AccountsInv'
<1> USE DEF AccountsInv
<1>1. visit' \in [Visit -> VisitRow] /\ \A w \in Visit \ {v} : visit'[w] = visit[w]
  BY DEF VisitsTyped, VisitRow, CreateWorkspace, VisitGoto
<1>2. /\ visit[v].pc = "workspace" /\ visit[v].kind \in Founding \cup {"workspace"}
      /\ visit'[v].pc = IF visit[v].kind = "register" THEN "session" ELSE "answered"
      /\ visit'[v].kind = visit[v].kind /\ visit'[v].who = visit[v].who
      /\ visit'[v].slug = visit[v].slug /\ visit'[v].whom = visit[v].whom
      /\ visit'[v].role = visit[v].role
  BY DEF VisitsTyped, VisitRow, CreateWorkspace, VisitGoto, VisitAt, VisitsInStage, Founding
<1>3. workspaces' = workspaces \cup {visit[v].slug} /\ UNCHANGED <<users, roles, orgs, given>>
  BY DEF CreateWorkspace
<1>4. AccountsTypeOK'
  BY <1>1, <1>2, <1>3 DEF AccountsTypeOK, VisitRow, PlacesTaken
<1>5. VisitsTyped' /\ VisitsInStage'
  BY <1>1, <1>2 DEF VisitsTyped, VisitsInStage, Founding
<1>6. PlacesTaken'
  BY <1>1, <1>2, <1>3 DEF PlacesTaken, HasMembers, IsOrgManager, NoRole
<1>7. FoundingsGoOn'
  BY <1>1, <1>2, <1>3 DEF FoundingsGoOn, Founding
<1>8. FoundedApart'
  BY <1>1, <1>2, <1>3 DEF FoundedApart, Founded
<1>9. OrgsOwned'
  BY <1>1, <1>2, <1>3 DEF OrgsOwned
<1>10. UsersPlaced'
  BY <1>1, <1>2, <1>3 DEF UsersPlaced
<1> QED
  BY <1>4, <1>5, <1>6, <1>7, <1>8, <1>9, <1>10

\* The answer to a registration writes nothing.
LEMMA AnswerRegistrationKeepsInv ==
  ASSUME AccountsInv, NEW v \in Visit, AnswerRegistration(v) PROVE AccountsInv'
<1> USE DEF AccountsInv
<1>1. visit' \in [Visit -> VisitRow] /\ \A w \in Visit \ {v} : visit'[w] = visit[w]
  BY DEF VisitsTyped, VisitRow, AnswerRegistration, VisitGoto
<1>2. /\ visit[v].pc = "session" /\ visit[v].kind = "register"
      /\ visit'[v].pc = "answered"
      /\ visit'[v].kind = visit[v].kind /\ visit'[v].who = visit[v].who
      /\ visit'[v].slug = visit[v].slug /\ visit'[v].whom = visit[v].whom
      /\ visit'[v].role = visit[v].role
  BY DEF VisitsTyped, VisitRow, AnswerRegistration, VisitGoto, VisitAt, VisitsInStage, Founding
<1>3. UNCHANGED <<users, roles, orgs, workspaces, given>>
  BY DEF AnswerRegistration
<1>4. AccountsTypeOK'
  BY <1>1, <1>2, <1>3 DEF AccountsTypeOK, VisitRow, PlacesTaken
<1>5. VisitsTyped' /\ VisitsInStage'
  BY <1>1, <1>2 DEF VisitsTyped, VisitsInStage, Founding
<1>6. PlacesTaken'
  BY <1>1, <1>2, <1>3 DEF PlacesTaken, HasMembers, IsOrgManager, NoRole
<1>7. FoundingsGoOn'
  BY <1>1, <1>2, <1>3 DEF FoundingsGoOn, Founding
<1>8. FoundedApart'
  BY <1>1, <1>2, <1>3 DEF FoundedApart, Founded
<1>9. OrgsOwned'
  BY <1>1, <1>2, <1>3 DEF OrgsOwned
<1>10. UsersPlaced'
  BY <1>1, <1>2, <1>3 DEF UsersPlaced
<1> QED
  BY <1>4, <1>5, <1>6, <1>7, <1>8, <1>9, <1>10

\* Who manages an organization is one of its members.
LEMMA CheckManagerKeepsInv ==
  ASSUME AccountsInv, NEW v \in Visit, CheckManager(v) PROVE AccountsInv'
<1> USE DEF AccountsInv
<1>1. visit' \in [Visit -> VisitRow] /\ \A w \in Visit \ {v} : visit'[w] = visit[w]
  BY DEF VisitsTyped, VisitRow, CheckManager, IsOrgManager, VisitGoto
<1>2. /\ visit[v].pc = "manager" /\ visit[v].slug \in Slug
      /\ visit[v].kind \in {"member", "workspace"}
      /\ visit'[v].pc \in {"refused", "member", "workspace"}
      /\ visit'[v].pc # "refused" =>
           /\ roles[visit[v].slug][visit[v].who] \in {"owner", "admin"}
           /\ visit'[v].pc = "workspace" <=> visit[v].kind = "workspace"
      /\ visit[v].kind = "member" => visit[v].who \in Person
      /\ visit'[v].kind = visit[v].kind /\ visit'[v].who = visit[v].who
      /\ visit'[v].slug = visit[v].slug /\ visit'[v].whom = visit[v].whom
      /\ visit'[v].role = visit[v].role
  BY DEF VisitsTyped, VisitRow, CheckManager, IsOrgManager, VisitGoto, VisitAt, VisitsInStage, Founding
<1>3. UNCHANGED <<users, roles, orgs, workspaces, given>>
  BY DEF CheckManager, IsOrgManager
<1>4. AccountsTypeOK'
  BY <1>1, <1>2, <1>3 DEF AccountsTypeOK, VisitRow, PlacesTaken
<1>5. VisitsTyped' /\ VisitsInStage'
  BY <1>1, <1>2 DEF VisitsTyped, VisitsInStage, Founding
<1>6. PlacesTaken'
  BY <1>1, <1>2, <1>3 DEF PlacesTaken, HasMembers, IsOrgManager, NoRole
<1>7. FoundingsGoOn'
  BY <1>1, <1>2, <1>3 DEF FoundingsGoOn, Founding
<1>8. FoundedApart'
  BY <1>1, <1>2, <1>3 DEF FoundedApart, Founded, Founding
<1>9. OrgsOwned'
  BY <1>1, <1>2, <1>3 DEF OrgsOwned
<1>10. UsersPlaced'
  BY <1>1, <1>2, <1>3 DEF UsersPlaced
<1> QED
  BY <1>4, <1>5, <1>6, <1>7, <1>8, <1>9, <1>10

\* What a visit that is cut had written stays.
LEMMA CutVisitKeepsInv ==
  ASSUME AccountsInv, NEW v \in Visit, CutVisit(v) PROVE AccountsInv'
<1> USE DEF AccountsInv
<1>1. visit' \in [Visit -> VisitRow] /\ \A w \in Visit \ {v} : visit'[w] = visit[w]
  BY DEF VisitsTyped, VisitRow, CutVisit, VisitGoto
<1>2. /\ visit'[v].pc = "cut"
      /\ visit'[v].kind = visit[v].kind /\ visit'[v].who = visit[v].who
      /\ visit'[v].slug = visit[v].slug /\ visit'[v].whom = visit[v].whom
      /\ visit'[v].role = visit[v].role
  BY DEF VisitsTyped, VisitRow, CutVisit, VisitGoto, VisitAt, VisitsInStage, Founding
<1>3. UNCHANGED <<users, roles, orgs, workspaces, given>>
  BY DEF CutVisit
<1>4. AccountsTypeOK'
  BY <1>1, <1>2, <1>3 DEF AccountsTypeOK, VisitRow, PlacesTaken
<1>5. VisitsTyped' /\ VisitsInStage'
  BY <1>1, <1>2 DEF VisitsTyped, VisitsInStage, Founding
<1>6. PlacesTaken'
  BY <1>1, <1>2, <1>3 DEF PlacesTaken, HasMembers, IsOrgManager, NoRole
<1>7. FoundingsGoOn'
  BY <1>1, <1>2, <1>3 DEF FoundingsGoOn, Founding
<1>8. FoundedApart'
  BY <1>1, <1>2, <1>3 DEF FoundedApart, Founded
<1>9. OrgsOwned'
  BY <1>1, <1>2, <1>3 DEF OrgsOwned
<1>10. UsersPlaced'
  BY <1>1, <1>2, <1>3 DEF UsersPlaced
<1> QED
  BY <1>4, <1>5, <1>6, <1>7, <1>8, <1>9, <1>10

\* The founder becomes the owner: nobody can have been a member before.
LEMMA CreateOwnerKeepsInv ==
  ASSUME AccountsInv, NEW v \in Visit, CreateOwner(v) PROVE AccountsInv'
<1> USE DEF AccountsInv
<1> DEFINE s == visit[v].slug
           p == visit[v].who
<1>1. visit' \in [Visit -> VisitRow] /\ \A w \in Visit \ {v} : visit'[w] = visit[w]
  BY DEF VisitsTyped, VisitRow, CreateOwner, VisitGoto
<1>2. /\ visit[v].pc = "owner" /\ visit[v].kind \in Founding /\ s \in Slug /\ p \in Person
      /\ visit'[v].pc = "workspace"
      /\ visit'[v].kind = visit[v].kind /\ visit'[v].who = p /\ visit'[v].slug = s
      /\ visit'[v].whom = visit[v].whom /\ visit'[v].role = visit[v].role
  BY DEF VisitsTyped, VisitRow, CreateOwner, VisitGoto, VisitAt, VisitsInStage
<1>3. UNCHANGED <<users, orgs, workspaces, given>> /\ CreateMembership(s, p, "owner")
  BY DEF CreateOwner
<1>4. ~HasMembers(s) /\ s \in orgs
  BY <1>2 DEF PlacesTaken
<1>5. /\ roles' \in [Slug -> [Person -> Role \cup {NoRole}]] /\ roles'[s][p] = "owner"
      /\ \A t \in Slug, q \in Person : t # s \/ q # p => roles'[t][q] = roles[t][q]
      /\ \A t \in Slug, q \in Person : roles[t][q] # NoRole => roles'[t][q] = roles[t][q]
  <2>1. roles[s][p] = NoRole
    BY <1>2, <1>4 DEF HasMembers
  <2> QED
    BY <2>1, <1>2, <1>3, CreateMembershipKeeps DEF Role
<1> HIDE DEF s, p
<1>6. AccountsTypeOK'
  BY <1>1, <1>2, <1>3, <1>5 DEF AccountsTypeOK, VisitRow
<1>7. VisitsTyped' /\ VisitsInStage'
  BY <1>1, <1>2 DEF VisitsTyped, VisitsInStage, Founding
<1>8. PlacesTaken'
  <2>1. \A t \in Slug : HasMembers(t)' <=> HasMembers(t) \/ t = s
    BY <1>2, <1>5 DEF HasMembers, NoRole
  <2>2. \A w \in Visit \ {v} : visit[w].pc = "owner" => visit[w].slug # s
    BY <1>2 DEF FoundedApart, Founded, VisitsInStage, s
  <2> QED
    BY <1>1, <1>2, <1>3, <1>4, <2>1, <2>2 DEF PlacesTaken, VisitsTyped, VisitRow
<1>9. FoundingsGoOn'
  <2> SUFFICES ASSUME NEW w \in Visit, (visit[w].kind \in Founding)' PROVE FoundingsGoOn!(w)!2'
    BY DEF FoundingsGoOn
  <2>1. CASE w = v
    BY <2>1, <1>2, <1>5
  <2>2. CASE w # v
    <3>1. visit'[w] = visit[w] /\ visit[w].slug \in Slug /\ visit[w].who \in Person
      BY <2>2, <1>1 DEF VisitsTyped, VisitRow, VisitsInStage
    <3>2. FoundingsGoOn!(w)!2
      BY <3>1 DEF FoundingsGoOn
    <3> QED
      BY <3>1, <3>2, <1>3, <1>5 DEF NoRole
  <2> QED
    BY <2>1, <2>2
<1>10. FoundedApart'
  BY <1>1, <1>2, <1>3 DEF FoundedApart, Founded, s
<1>11. OrgsOwned'
  <2> SUFFICES ASSUME NEW o \in orgs PROVE OrgsOwned!(o)'
    BY <1>3 DEF OrgsOwned
  <2>1. CASE o = s
    BY <2>1, <1>2, <1>5
  <2>2. CASE o # s
    <3>1. o \in Slug
      BY DEF AccountsTypeOK
    <3>2. \/ \E q \in Person : roles[o][q] = "owner" \/ <<o, q>> \in given
          \/ \E w \in Visit \ {v} : visit[w].slug = o /\ visit[w].pc \in {"owner", "cut"}
      BY <2>2, <1>2 DEF OrgsOwned, s
    <3> QED
      BY <3>1, <3>2, <2>2, <1>1, <1>3, <1>5
  <2> QED
    BY <2>1, <2>2
<1>12. UsersPlaced'
  <2> SUFFICES ASSUME NEW q \in users PROVE UsersPlaced!(q)'
    BY <1>3 DEF UsersPlaced
  <2>1. q \in Person
    BY DEF AccountsTypeOK
  <2>2. CASE q = p
    BY <2>2, <1>2, <1>5 DEF NoRole
  <2>3. CASE q # p
    <3>1. \/ \E t \in Slug : roles[t][q] # NoRole
          \/ \E w \in Visit \ {v} : visit[w].kind = "register" /\ visit[w].who = q
                                    /\ visit[w].pc \in {"slug", "owner", "cut"}
      BY <2>3 DEF UsersPlaced, p
    <3> QED
      BY <3>1, <2>1, <1>1, <1>5
  <2> QED
    BY <2>2, <2>3
<1> QED
  BY <1>6, <1>7, <1>8, <1>9, <1>10, <1>11, <1>12

\* A manager makes a member of an organization that has members.
LEMMA AddMemberKeepsInv ==
  ASSUME AccountsInv, NEW v \in Visit, AddMember(v) PROVE AccountsInv'
<1> USE DEF AccountsInv
<1> DEFINE s == visit[v].slug
           p == visit[v].whom
<1>1. visit' \in [Visit -> VisitRow] /\ \A w \in Visit \ {v} : visit'[w] = visit[w]
  BY DEF VisitsTyped, VisitRow, AddMember, VisitGoto
<1>2. /\ visit[v].pc = "member" /\ visit[v].kind = "member" /\ s \in Slug /\ p \in Person
      /\ visit[v].role \in Role /\ visit'[v].pc = "role"
      /\ visit'[v].kind = "member" /\ visit'[v].who = visit[v].who /\ visit'[v].slug = s
      /\ visit'[v].whom = p /\ visit'[v].role = visit[v].role
  BY DEF VisitsTyped, VisitRow, AddMember, VisitGoto, VisitAt, VisitsInStage, Role
<1>3. UNCHANGED <<users, orgs, workspaces, given>> /\ CreateMembership(s, p, visit[v].role)
  BY DEF AddMember
<1>4. HasMembers(s) /\ s \in orgs
  BY <1>2 DEF PlacesTaken
<1>5. /\ roles' \in [Slug -> [Person -> Role \cup {NoRole}]] /\ roles'[s][p] # NoRole
      /\ \A t \in Slug, q \in Person : t # s \/ q # p => roles'[t][q] = roles[t][q]
      /\ \A t \in Slug, q \in Person : roles[t][q] # NoRole => roles'[t][q] = roles[t][q]
  BY <1>2, <1>3, CreateMembershipKeeps
<1> HIDE DEF s, p
<1>6. AccountsTypeOK'
  BY <1>1, <1>2, <1>3, <1>5 DEF AccountsTypeOK, VisitRow
<1>7. VisitsTyped' /\ VisitsInStage'
  BY <1>1, <1>2 DEF VisitsTyped, VisitsInStage, Founding, s, p
<1>8. PlacesTaken'
  <2>1. \A t \in Slug : HasMembers(t)' <=> HasMembers(t)
    BY <1>2, <1>4, <1>5 DEF HasMembers
  <2> QED
    BY <1>1, <1>2, <1>3, <1>4, <2>1 DEF PlacesTaken, VisitsTyped, VisitRow, Founding
<1>9. FoundingsGoOn'
  <2> SUFFICES ASSUME NEW w \in Visit, (visit[w].kind \in Founding)' PROVE FoundingsGoOn!(w)!2'
    BY DEF FoundingsGoOn
  <2>1. CASE w = v
    BY <2>1, <1>2 DEF Founding
  <2>2. CASE w # v
    <3>1. visit'[w] = visit[w] /\ visit[w].slug \in Slug /\ visit[w].who \in Person
      BY <2>2, <1>1 DEF VisitsTyped, VisitRow, VisitsInStage
    <3>2. FoundingsGoOn!(w)!2
      BY <3>1 DEF FoundingsGoOn
    <3> QED
      BY <3>1, <3>2, <1>3, <1>5 DEF NoRole
  <2> QED
    BY <2>1, <2>2
<1>10. FoundedApart'
  BY <1>1, <1>2, <1>3 DEF FoundedApart, Founded, Founding
<1>11. OrgsOwned'
  <2> SUFFICES ASSUME NEW o \in orgs PROVE OrgsOwned!(o)'
    BY <1>3 DEF OrgsOwned
  <2>1. o \in Slug
    BY DEF AccountsTypeOK
  <2>2. \/ \E q \in Person : roles[o][q] = "owner" \/ <<o, q>> \in given
        \/ \E w \in Visit \ {v} : visit[w].slug = o /\ visit[w].pc \in {"owner", "cut"}
    BY <1>2 DEF OrgsOwned
  <2> QED
    BY <2>1, <2>2, <1>1, <1>3, <1>5 DEF NoRole
<1>12. UsersPlaced'
  <2> SUFFICES ASSUME NEW q \in users PROVE UsersPlaced!(q)'
    BY <1>3 DEF UsersPlaced
  <2>1. q \in Person
    BY DEF AccountsTypeOK
  <2>2. \/ \E t \in Slug : roles[t][q] # NoRole
        \/ \E w \in Visit \ {v} : visit[w].kind = "register" /\ visit[w].who = q
                                  /\ visit[w].pc \in {"slug", "owner", "cut"}
    BY <1>2 DEF UsersPlaced
  <2> QED
    BY <2>1, <2>2, <1>1, <1>5
<1> QED
  BY <1>6, <1>7, <1>8, <1>9, <1>10, <1>11, <1>12

\* A role that is set is told by given, and never the owner's again.
LEMMA UpdateRoleKeepsInv ==
  ASSUME AccountsInv, NEW v \in Visit, UpdateMembershipRole(v) PROVE AccountsInv'
<1> USE DEF AccountsInv
<1> DEFINE s == visit[v].slug
           p == visit[v].whom
<1>1. visit' \in [Visit -> VisitRow] /\ \A w \in Visit \ {v} : visit'[w] = visit[w]
  BY DEF VisitsTyped, VisitRow, UpdateMembershipRole, VisitGoto
<1>2. /\ visit[v].pc = "role" /\ visit[v].kind = "member" /\ s \in Slug /\ p \in Person
      /\ visit[v].role \in Role /\ visit'[v].pc = "answered"
      /\ visit'[v].kind = "member" /\ visit'[v].who = visit[v].who /\ visit'[v].slug = s
      /\ visit'[v].whom = p /\ visit'[v].role = visit[v].role
  BY DEF VisitsTyped, VisitRow, UpdateMembershipRole, VisitGoto, VisitAt, VisitsInStage, Role
<1>3. UNCHANGED <<users, orgs, workspaces>> /\ given' = given \cup {<<s, p>>}
      /\ roles' = [roles EXCEPT ![s][p] = visit[v].role]
  BY DEF UpdateMembershipRole
<1>4. HasMembers(s) /\ s \in orgs
  BY <1>2 DEF PlacesTaken
<1>5. /\ roles' \in [Slug -> [Person -> Role \cup {NoRole}]] /\ roles'[s][p] # NoRole
      /\ \A t \in Slug, q \in Person : t # s \/ q # p => roles'[t][q] = roles[t][q]
  BY <1>2, <1>3 DEF AccountsTypeOK, Role, NoRole
<1> HIDE DEF s, p
<1>6. AccountsTypeOK'
  BY <1>1, <1>2, <1>3, <1>5 DEF AccountsTypeOK, VisitRow
<1>7. VisitsTyped' /\ VisitsInStage'
  BY <1>1, <1>2 DEF VisitsTyped, VisitsInStage, Founding, s, p
<1>8. PlacesTaken'
  <2>1. \A t \in Slug : HasMembers(t)' <=> HasMembers(t)
    BY <1>2, <1>4, <1>5 DEF HasMembers
  <2> QED
    BY <1>1, <1>2, <1>3, <1>4, <2>1 DEF PlacesTaken, VisitsTyped, VisitRow, Founding
<1>9. FoundingsGoOn'
  <2> SUFFICES ASSUME NEW w \in Visit, (visit[w].kind \in Founding)' PROVE FoundingsGoOn!(w)!2'
    BY DEF FoundingsGoOn
  <2>1. CASE w = v
    BY <2>1, <1>2 DEF Founding
  <2>2. CASE w # v
    <3>1. visit'[w] = visit[w] /\ visit[w].slug \in Slug /\ visit[w].who \in Person
      BY <2>2, <1>1 DEF VisitsTyped, VisitRow, VisitsInStage
    <3>2. FoundingsGoOn!(w)!2
      BY <3>1 DEF FoundingsGoOn
    <3>3. roles'[visit[w].slug][visit[w].who] = roles[visit[w].slug][visit[w].who]
            \/ <<visit[w].slug, visit[w].who>> \in given'
      BY <3>1, <1>3, <1>5
    <3> QED
      BY <3>1, <3>2, <3>3, <1>3
  <2> QED
    BY <2>1, <2>2
<1>10. FoundedApart'
  BY <1>1, <1>2, <1>3 DEF FoundedApart, Founded, Founding
<1>11. OrgsOwned'
  <2> SUFFICES ASSUME NEW o \in orgs PROVE OrgsOwned!(o)'
    BY <1>3 DEF OrgsOwned
  <2>1. o \in Slug
    BY DEF AccountsTypeOK
  <2>2. \/ \E q \in Person : roles[o][q] = "owner" \/ <<o, q>> \in given
        \/ \E w \in Visit \ {v} : visit[w].slug = o /\ visit[w].pc \in {"owner", "cut"}
    BY <1>2 DEF OrgsOwned
  <2>3. \A q \in Person : roles'[o][q] = roles[o][q] \/ <<o, q>> \in given'
    BY <2>1, <1>3, <1>5
  <2> QED
    BY <2>2, <2>3, <1>1, <1>3
<1>12. UsersPlaced'
  <2> SUFFICES ASSUME NEW q \in users PROVE UsersPlaced!(q)'
    BY <1>3 DEF UsersPlaced
  <2>1. q \in Person
    BY DEF AccountsTypeOK
  <2>2. \/ \E t \in Slug : roles[t][q] # NoRole
        \/ \E w \in Visit \ {v} : visit[w].kind = "register" /\ visit[w].who = q
                                  /\ visit[w].pc \in {"slug", "owner", "cut"}
    BY <1>2 DEF UsersPlaced
  <2> QED
    BY <2>1, <2>2, <1>1, <1>5
<1> QED
  BY <1>6, <1>7, <1>8, <1>9, <1>10, <1>11, <1>12

\* A step in which no account changes.
LEMMA AccountsStutter == ASSUME AccountsInv, UNCHANGED accountVars PROVE AccountsInv'
<1> USE DEF accountVars, AccountsInv
<1>1. AccountsTypeOK' /\ VisitsTyped' /\ VisitsInStage'
  BY DEF AccountsTypeOK, VisitsTyped, VisitsInStage
<1>2. PlacesTaken' /\ FoundingsGoOn'
  BY DEF PlacesTaken, HasMembers, FoundingsGoOn
<1>3. FoundedApart' /\ OrgsOwned' /\ UsersPlaced'
  BY DEF FoundedApart, Founded, OrgsOwned, UsersPlaced
<1> QED
  BY <1>1, <1>2, <1>3

\* However requests interleave and are cut, for any number of them: the
\* statements of a founding follow one another on a slug of its own.
THEOREM AccountsAreWhole == AccountsSpec => [](AccountsTypeOK /\ AccountsWhole)
<1>1. AccountsInit => AccountsInv
  BY AccountsInitInv
<1>2. AccountsInv /\ [AccountsNext]_accountVars => AccountsInv'
  <2> SUFFICES ASSUME AccountsInv, [AccountsNext]_accountVars PROVE AccountsInv'
    OBVIOUS
  <2>1. ASSUME NEW v \in Visit, \/ Visits(v) \/ CreateUser(v) \/ CreateOrganization(v)
                                \/ CreateOwner(v) \/ CreateWorkspace(v)
        PROVE  AccountsInv'
    BY <2>1, VisitsKeepsInv, CreateUserKeepsInv, CreateOrganizationKeepsInv, CreateOwnerKeepsInv,
       CreateWorkspaceKeepsInv
  <2>2. ASSUME NEW v \in Visit, \/ AnswerRegistration(v) \/ CheckManager(v) \/ AddMember(v)
                                \/ UpdateMembershipRole(v) \/ CutVisit(v)
        PROVE  AccountsInv'
    BY <2>2, AnswerRegistrationKeepsInv, CheckManagerKeepsInv, AddMemberKeepsInv,
       UpdateRoleKeepsInv, CutVisitKeepsInv
  <2> QED
    BY <2>1, <2>2, AccountsStutter DEF AccountsNext
<1>3. AccountsInv => AccountsTypeOK /\ AccountsWhole
  BY AccountsInvIsWhole DEF AccountsInv
<1> QED
  BY <1>1, <1>2, <1>3, PTL DEF AccountsSpec
-----------------------------------------------------------------------------
(* Requests that work on the project.                                      *)

RowStatus == Active \cup {"none", "complete", "failed"}

HandlerPc ==
  {"none", "stage", "limit", "insert", "sweep", "execute", "failing", "apply", "commit",
   "committed", "write", "ended", "read", "bootstrap", "done", "refused"}

Entries == Seq(Request)

HandlerRow == [pc : HandlerPc, kind : Kind \cup {"none"}, file : File \cup {None},
               before : Request \cup {None}, commit : Nat, copy : Entries,
               corrections : 0..MaxCorrections, refused : BOOLEAN, fix : BOOLEAN]

Commit == [files : Files, parent : Nat]

ActivityRows ==
  /\ handler \in [Request -> HandlerRow]
  /\ rowStatus \in [Request -> RowStatus]
  /\ met \in [Request -> [unseen : SUBSET Request, answered : SUBSET Request, dirty : SUBSET File]]
  /\ crashed \subseteq {r \in Request : handler[r].pc = "refused"}

RepositoryRows ==
  /\ objects \in Seq(Commit) /\ \A c \in 1..Len(objects) : objects[c].parent < c
  /\ live \in [files : Files, head : 1..Len(objects)]

HistoryRow == history \in Seq(Request) /\ Len(history) <= MaxHistory

\* What a handler knows where it stands: the file its step is about, and the
\* commit to go back to once its run has been entered.
HandlerKnows(r) ==
  /\ handler[r].pc \in {"apply", "commit"} => handler[r].file \in File
  /\ handler[r].commit <= Len(objects)
  /\ handler[r].pc = "none" => rowStatus[r] = "none"
  /\ rowStatus[r] = "queued" => handler[r].pc \in {"execute", "refused"}
  /\ handler[r].pc \in {"execute", "committed"} => rowStatus[r] # "none"
  /\ /\ rowStatus[r] \notin {"none", "queued"}
     /\ handler[r].pc \in {"execute", "stage", "apply", "commit", "committed", "failing", "ended"}
     => handler[r].commit # NoCommit

HandlersKnow == \A r \in Request : HandlerKnows(r)

\* Nobody finds the project before its creation began.
CreatorFirst ==
  handler[Creator].pc = "none" => \A r \in Request : handler[r].pc = "none"

\* Stronger than MutationsExclude: whoever is under way met everybody who is.
AllMet == \A r, s \in UnderWay : r # s => Met(r, s)

\* Inductive.
ActivityInv ==
  /\ ActivityRows /\ RepositoryRows /\ HistoryRow
  /\ HandlersKnow /\ CreatorFirst /\ AllMet

\* A handler that changes the project's files is under way.
LEMMA ActivityInvImplies == ASSUME ActivityInv PROVE ActivityTypeOK /\ MutationsExclude
<1> USE ProjectActivityAssumption DEF ActivityInv
<1>1. history \in BoundedSeq(Request, MaxHistory)
  <2>1. history \in [1..Len(history) -> Request] /\ Len(history) \in 0..MaxHistory
    BY LenProperties DEF HistoryRow
  <2> QED
    BY <2>1 DEF BoundedSeq, SeqOf
<1>2. /\ \A c \in DOMAIN objects : objects[c].files \in Files /\ objects[c].parent < c
      /\ live \in [files : Files, head : DOMAIN objects]
  <2>1. objects \in [1..Len(objects) -> Commit] /\ DOMAIN objects = 1..Len(objects)
    BY LenProperties DEF RepositoryRows
  <2> QED
    BY <2>1 DEF RepositoryRows, Commit
<1>3. \A r \in Request :
       /\ rowStatus[r] \in Active \cup {"none", "complete", "failed"}
       /\ handler[r].kind \in Kind \cup {"none"}
       /\ handler[r].commit \in {NoCommit} \cup DOMAIN objects
       /\ handler[r].corrections <= MaxCorrections
  <2>1. DOMAIN objects = 1..Len(objects) /\ Len(objects) \in Nat
    BY LenProperties DEF RepositoryRows
  <2> QED
    BY <2>1 DEF ActivityRows, RowStatus, HandlerRow, HandlersKnow, HandlerKnows, NoCommit
<1>4. MutationsExclude
  BY DEF MutationsExclude, Mutating, AllMet, UnderWay
<1> QED
  BY <1>1, <1>2, <1>3, <1>4 DEF ActivityTypeOK

\* No request has come, and the repository has one commit of untouched files.
LEMMA ActivityInitInv == ASSUME ActivityInit PROVE ActivityInv
<1> USE ProjectActivityAssumption DEF ActivityInit
<1>1. [f \in File |-> None] \in Files
  BY DEF Files
<1>2. NoLocals \in HandlerRow /\ NoLocals.pc = "none" /\ NoLocals.commit = 0
  BY DEF NoLocals, HandlerRow, HandlerPc, Entries, NoCommit
<1>3. ActivityRows
  BY <1>2 DEF ActivityRows, RowStatus
<1>4. RepositoryRows
  BY <1>1 DEF RepositoryRows, Commit, NoCommit
<1>5. HistoryRow
  BY DEF HistoryRow
<1>6. HandlersKnow
  BY <1>2, <1>4, LenProperties DEF HandlersKnow, HandlerKnows, RepositoryRows
<1>7. CreatorFirst /\ AllMet
  BY <1>2 DEF CreatorFirst, AllMet, UnderWay
<1> QED
  BY <1>3, <1>4, <1>5, <1>6, <1>7 DEF ActivityInv

\* A handler that is under way and goes on, or answers, meets nobody new.
LEMMA GoingOnMeetsNobody ==
  ASSUME ActivityInv, NEW r \in UnderWay, handler' \in [Request -> HandlerRow], met' = met,
         \A s \in Request \ {r} : handler'[s] = handler[s], handler'[r].pc # "none"
  PROVE  CreatorFirst' /\ AllMet'
<1>1. UnderWay' \subseteq UnderWay
  BY DEF UnderWay
<1>2. AllMet'
  BY <1>1 DEF ActivityInv, AllMet, Met
<1>3. CreatorFirst'
  BY ProjectActivityAssumption DEF ActivityInv, CreatorFirst, UnderWay
<1> QED
  BY <1>2, <1>3

\* Another handler knows what it knew: its row is as before and no commit is lost.
LEMMA OthersStillKnow ==
  ASSUME ActivityInv, NEW r \in Request, HandlerKnows(r)',
         \A s \in Request \ {r} : handler'[s] = handler[s] /\ rowStatus'[s] = rowStatus[s],
         Len(objects') \in Nat, Len(objects) <= Len(objects')
  PROVE  HandlersKnow'
<1> SUFFICES ASSUME NEW s \in Request \ {r} PROVE HandlerKnows(s)'
  BY DEF HandlersKnow
<1>1. HandlerKnows(s) /\ handler[s].commit \in Nat /\ Len(objects) \in Nat
  BY LenProperties DEF ActivityInv, HandlersKnow, ActivityRows, HandlerRow, RepositoryRows
<1> QED
  BY <1>1 DEF HandlerKnows

\* A step of one handler keeps all that speaks of the others.
LEMMA OneHandlerSteps ==
  ASSUME ActivityInv, NEW r \in UnderWay,
         handler' \in [Request -> HandlerRow], rowStatus' \in [Request -> RowStatus],
         \A s \in Request \ {r} : handler'[s] = handler[s] /\ rowStatus'[s] = rowStatus[s],
         handler'[r].pc # "none", met' = met, crashed' = crashed,
         RepositoryRows', Len(objects) <= Len(objects'), HistoryRow', HandlerKnows(r)'
  PROVE  ActivityInv'
<1>1. r \in Request /\ handler[r].pc # "refused"
  BY DEF UnderWay
<1>2. ActivityRows'
  BY <1>1 DEF ActivityInv, ActivityRows
<1>3. HandlersKnow'
  BY <1>1, OthersStillKnow, LenProperties DEF RepositoryRows
<1>4. CreatorFirst' /\ AllMet'
  BY GoingOnMeetsNobody
<1> QED
  BY <1>2, <1>3, <1>4 DEF ActivityInv

\* The same of a step that leaves files, commits and history alone.
LEMMA OneHandlerStepsQuietly ==
  ASSUME ActivityInv, NEW r \in UnderWay,
         handler' \in [Request -> HandlerRow], rowStatus' \in [Request -> RowStatus],
         \A s \in Request \ {r} : handler'[s] = handler[s] /\ rowStatus'[s] = rowStatus[s],
         handler'[r].pc # "none", UNCHANGED <<history, tree, ghosts>>, HandlerKnows(r)'
  PROVE  ActivityInv'
<1>1. RepositoryRows' /\ HistoryRow' /\ Len(objects) <= Len(objects')
  BY LenProperties DEF ActivityInv, RepositoryRows, HistoryRow, tree
<1> QED
  BY <1>1, OneHandlerSteps DEF ghosts

\* A handler that goes on with its locals as they are, and one that ends.
LEMMA HandlerMoves ==
  ASSUME handler \in [Request -> HandlerRow], NEW r \in Request
  PROVE  /\ \A pc \in HandlerPc : ActivityGoto(r, pc) =>
              /\ handler' \in [Request -> HandlerRow]
              /\ \A s \in Request \ {r} : handler'[s] = handler[s]
              /\ handler'[r].pc = pc
              /\ handler'[r].file = handler[r].file /\ handler'[r].commit = handler[r].commit
         /\ Refuse(r) =>
              /\ handler' \in [Request -> HandlerRow]
              /\ \A s \in Request \ {r} : handler'[s] = handler[s]
              /\ handler'[r].pc = "refused" /\ handler'[r].commit = NoCommit
         /\ Answer(r) =>
              /\ handler' \in [Request -> HandlerRow]
              /\ \A s \in Request \ {r} : handler'[s] = handler[s]
              /\ handler'[r].pc = "done" /\ handler'[r].commit = handler[r].commit
<1>1. handler[r] \in HandlerRow
  OBVIOUS
<1>2. NoLocals \in HandlerRow
  BY ProjectActivityAssumption DEF NoLocals, HandlerRow, HandlerPc, Entries, NoCommit
<1>3. \A pc \in HandlerPc : [handler[r] EXCEPT !.pc = pc] \in HandlerRow
  BY <1>1 DEF HandlerRow
<1>4. /\ [NoLocals EXCEPT !.pc = "refused"] \in HandlerRow
      /\ [NoLocals EXCEPT !.pc = "done", !.kind = handler[r].kind, !.commit = handler[r].commit]
            \in HandlerRow
  BY <1>1, <1>2 DEF HandlerRow, HandlerPc
<1>5. ASSUME NEW pc \in HandlerPc, ActivityGoto(r, pc)
      PROVE  handler' = [handler EXCEPT ![r] = [handler[r] EXCEPT !.pc = pc]]
  BY <1>5 DEF ActivityGoto
<1>6. ASSUME NEW pc \in HandlerPc
      PROVE  /\ [handler[r] EXCEPT !.pc = pc].pc = pc
             /\ [handler[r] EXCEPT !.pc = pc].file = handler[r].file
             /\ [handler[r] EXCEPT !.pc = pc].commit = handler[r].commit
  BY <1>1 DEF HandlerRow
<1>7. Refuse(r) => handler'[r].pc = "refused" /\ handler'[r].commit = NoCommit
  BY <1>1 DEF Refuse, NoLocals
<1>8. Answer(r) => handler'[r].pc = "done" /\ handler'[r].commit = handler[r].commit
  BY <1>1 DEF Answer, NoLocals
<1>9. ASSUME NEW new \in HandlerRow, handler' = [handler EXCEPT ![r] = new]
      PROVE  handler' \in [Request -> HandlerRow] /\ handler'[r] = new
             /\ \A s \in Request \ {r} : handler'[s] = handler[s]
  BY <1>1, <1>9
<1>10. ASSUME NEW pc \in HandlerPc, ActivityGoto(r, pc)
       PROVE  /\ handler' \in [Request -> HandlerRow]
              /\ \A s \in Request \ {r} : handler'[s] = handler[s]
              /\ handler'[r].pc = pc
              /\ handler'[r].file = handler[r].file /\ handler'[r].commit = handler[r].commit
  BY <1>3, <1>5, <1>6, <1>9, <1>10
<1> QED
  BY <1>4, <1>7, <1>8, <1>9, <1>10 DEF Refuse, Answer

\* Statements that write the run's row or nothing but the handler's locals.
LEMMA QuietStepsKeepInv ==
  ASSUME ActivityInv, NEW r \in Request,
         \/ ConsumeRateLimit(r)
         \/ InsertRun(r)
         \/ EnterProjectRun(r)
         \/ ToolFails(r)
         \/ EndProjectRun(r)
         \/ QueueInvariantCorrection(r)
         \/ QueueValidationCorrection(r)
         \/ KeepRefusedCorrection(r)
         \/ DeriveResult(r)
  PROVE  ActivityInv'
<1> DEFINE Moves ==
             /\ r \in UnderWay /\ handler'[r].pc # "none"
             /\ handler' \in [Request -> HandlerRow]
             /\ \A s \in Request \ {r} : handler'[s] = handler[s]
           Rows ==
             /\ rowStatus' \in [Request -> RowStatus]
             /\ \A s \in Request \ {r} : rowStatus'[s] = rowStatus[s]
             /\ UNCHANGED <<history, tree, ghosts>>
<1>1. /\ handler \in [Request -> HandlerRow] /\ rowStatus \in [Request -> RowStatus]
      /\ HandlerKnows(r)
      /\ live.head \in 1..Len(objects) /\ Len(objects) \in Nat
  BY LenProperties DEF ActivityInv, ActivityRows, HandlersKnow, RepositoryRows
<1> USE ProjectActivityAssumption, <1>1 DEF At
<1>2. CASE ConsumeRateLimit(r)
  <2>1. r \in UnderWay /\ (ActivityGoto(r, "insert") \/ Refuse(r))
    BY <1>2 DEF ConsumeRateLimit, UnderWay
  <2>2. Moves /\ handler'[r].pc \in {"insert", "refused"}
        /\ (handler'[r].commit = handler[r].commit \/ handler'[r].pc = "refused")
        /\ handler'[r].commit \in {handler[r].commit, NoCommit}
    BY <2>1, HandlerMoves DEF HandlerPc
  <2>3. Rows
    BY <1>2 DEF ConsumeRateLimit, RowStatus
  <2>4. HandlerKnows(r)'
    BY <1>2, <2>2, <2>3 DEF ConsumeRateLimit, HandlerKnows, NoCommit, tree, Status, Active
  <2> QED
    BY <2>2, <2>3, <2>4, OneHandlerStepsQuietly
<1>3. CASE InsertRun(r)
  <2>1. r \in UnderWay /\ (ActivityGoto(r, "execute"))
    BY <1>3 DEF InsertRun, UnderWay
  <2>2. Moves /\ handler'[r].pc \in {"execute"}
        /\ (handler'[r].commit = handler[r].commit \/ handler'[r].pc = "refused")
        /\ handler'[r].commit \in {handler[r].commit, NoCommit}
    BY <2>1, HandlerMoves DEF HandlerPc
  <2>3. Rows
    BY <1>3 DEF InsertRun, RowStatus, Status, Active
  <2>4. HandlerKnows(r)'
    BY <1>3, <2>2, <2>3 DEF InsertRun, HandlerKnows, NoCommit, tree, Status, Active
  <2> QED
    BY <2>2, <2>3, <2>4, OneHandlerStepsQuietly
<1>4. CASE EnterProjectRun(r)
  <2> DEFINE new == [handler[r] EXCEPT !.pc = "stage", !.refused = FALSE,
                       !.commit = IF rowStatus[r] = "queued" THEN live.head ELSE @]
  <2>1. r \in UnderWay /\ new \in HandlerRow /\ handler' = [handler EXCEPT ![r] = new]
    <3>1. r \in UnderWay
      BY <1>4 DEF EnterProjectRun, UnderWay
    <3>2. new \in HandlerRow
      <4> DEFINE head == IF rowStatus[r] = "queued" THEN live.head ELSE handler[r].commit
      <4>1. head \in Nat /\ "stage" \in HandlerPc /\ handler[r] \in HandlerRow
        BY DEF HandlerRow, HandlerPc
      <4>2. new = [handler[r] EXCEPT !.pc = "stage", !.refused = FALSE, !.commit = head]
        OBVIOUS
      <4> HIDE DEF head, new
      <4> QED
        BY <4>1, <4>2 DEF HandlerRow
    <3>3. handler' = [handler EXCEPT ![r] = new]
      BY <1>4 DEF EnterProjectRun, HandlerRow
    <3> QED
      BY <3>1, <3>2, <3>3
  <2>2. Moves /\ handler'[r].pc = "stage"
        /\ handler'[r].commit = IF rowStatus[r] = "queued" THEN live.head ELSE handler[r].commit
    BY <2>1 DEF HandlerRow
  <2>3. Rows
    BY <1>4 DEF EnterProjectRun, RowStatus, Status, Active
  <2>4. HandlerKnows(r)'
    BY <1>4, <2>2, <2>3 DEF EnterProjectRun, HandlerKnows, NoCommit, tree, Status, Active
  <2> QED
    BY <2>2, <2>3, <2>4, OneHandlerStepsQuietly
<1>5. CASE ToolFails(r)
  <2>1. r \in UnderWay /\ (ActivityGoto(r, "failing"))
    BY <1>5 DEF ToolFails, UnderWay
  <2>2. Moves /\ handler'[r].pc \in {"failing"}
        /\ (handler'[r].commit = handler[r].commit \/ handler'[r].pc = "refused")
        /\ handler'[r].commit \in {handler[r].commit, NoCommit}
    BY <2>1, HandlerMoves DEF HandlerPc
  <2>3. Rows
    BY <1>5 DEF ToolFails, RowStatus
  <2>4. HandlerKnows(r)'
    BY <1>5, <2>2, <2>3 DEF ToolFails, HandlerKnows, NoCommit, tree, Status, Active
  <2> QED
    BY <2>2, <2>3, <2>4, OneHandlerStepsQuietly
<1>6. CASE EndProjectRun(r)
  <2>1. r \in UnderWay /\ (ActivityGoto(r, "ended"))
    BY <1>6 DEF EndProjectRun, UnderWay
  <2>2. Moves /\ handler'[r].pc \in {"ended"}
        /\ (handler'[r].commit = handler[r].commit \/ handler'[r].pc = "refused")
        /\ handler'[r].commit \in {handler[r].commit, NoCommit}
    BY <2>1, HandlerMoves DEF HandlerPc
  <2>3. Rows
    BY <1>6 DEF EndProjectRun, RowStatus, Status, Active
  <2>4. HandlerKnows(r)'
    BY <1>6, <2>2, <2>3 DEF EndProjectRun, HandlerKnows, NoCommit, tree, Status, Active
  <2> QED
    BY <2>2, <2>3, <2>4, OneHandlerStepsQuietly
<1>7. CASE QueueInvariantCorrection(r)
  <2> DEFINE new == [handler[r] EXCEPT !.pc = "execute", !.corrections = @ + 1, !.fix = FALSE]
  <2>1. r \in UnderWay /\ new \in HandlerRow /\ handler' = [handler EXCEPT ![r] = new]
    BY <1>7 DEF QueueInvariantCorrection, Correct, UnderWay, HandlerRow, HandlerPc
  <2>2. Moves /\ handler'[r].pc = "execute" /\ handler'[r].commit = handler[r].commit
    BY <2>1 DEF HandlerRow
  <2>3. Rows
    BY <1>7 DEF QueueInvariantCorrection, RowStatus, Status, Active
  <2>4. HandlerKnows(r)'
    BY <1>7, <2>2, <2>3 DEF QueueInvariantCorrection, HandlerKnows, NoCommit, tree, Correct, Status, Active
  <2> QED
    BY <2>2, <2>3, <2>4, OneHandlerStepsQuietly
<1>8. CASE QueueValidationCorrection(r)
  <2> DEFINE new == [handler[r] EXCEPT !.pc = "execute", !.corrections = @ + 1, !.fix = TRUE]
  <2>1. r \in UnderWay /\ new \in HandlerRow /\ handler' = [handler EXCEPT ![r] = new]
    BY <1>8 DEF QueueValidationCorrection, Correct, UnderWay, HandlerRow, HandlerPc
  <2>2. Moves /\ handler'[r].pc = "execute" /\ handler'[r].commit = handler[r].commit
    BY <2>1 DEF HandlerRow
  <2>3. Rows
    BY <1>8 DEF QueueValidationCorrection, RowStatus, Status, Active
  <2>4. HandlerKnows(r)'
    BY <1>8, <2>2, <2>3 DEF QueueValidationCorrection, HandlerKnows, NoCommit, tree, Correct, Status, Active
  <2> QED
    BY <2>2, <2>3, <2>4, OneHandlerStepsQuietly
<1>9. CASE KeepRefusedCorrection(r)
  <2>2. Moves /\ handler' = handler
    BY <1>9 DEF KeepRefusedCorrection, UnderWay
  <2>3. Rows
    BY <1>9 DEF KeepRefusedCorrection, RowStatus, Status, Active
  <2>4. HandlerKnows(r)'
    BY <1>9, <2>2, <2>3 DEF KeepRefusedCorrection, HandlerKnows, NoCommit, tree, Status, Active
  <2> QED
    BY <2>2, <2>3, <2>4, OneHandlerStepsQuietly
<1>10. CASE DeriveResult(r)
  <2>1. r \in UnderWay /\ (ActivityGoto(r, "read") \/ Refuse(r))
    BY <1>10 DEF DeriveResult, UnderWay
  <2>2. Moves /\ handler'[r].pc \in {"read", "refused"}
        /\ (handler'[r].commit = handler[r].commit \/ handler'[r].pc = "refused")
        /\ handler'[r].commit \in {handler[r].commit, NoCommit}
    BY <2>1, HandlerMoves DEF HandlerPc
  <2>3. Rows
    BY <1>10 DEF DeriveResult, RowStatus
  <2>4. HandlerKnows(r)'
    BY <1>10, <2>2, <2>3 DEF DeriveResult, HandlerKnows, NoCommit, tree, Status, Active
  <2> QED
    BY <2>2, <2>3, <2>4, OneHandlerStepsQuietly
<1> QED
  BY <1>2, <1>3, <1>4, <1>5, <1>6, <1>7, <1>8, <1>9, <1>10

\* A commit comes after its parent, and HEAD names one that is there.
LEMMA AutoCommitKeeps ==
  ASSUME RepositoryRows, AutoCommit
  PROVE  /\ RepositoryRows' /\ Len(objects) <= Len(objects')
         /\ live.files # HeadFiles => live'.head \in 1..Len(objects')
<1>1. Len(objects) \in Nat /\ live \in [files : Files, head : 1..Len(objects)]
  BY LenProperties DEF RepositoryRows
<1>2. CASE live.files = HeadFiles
  BY <1>1, <1>2 DEF AutoCommit, tree, RepositoryRows
<1>3. CASE live.files # HeadFiles
  <2> DEFINE new == [files |-> live.files, parent |-> live.head]
  <2>1. new \in Commit
    BY <1>1 DEF Commit
  <2>2. objects' = Append(objects, new) /\ live' = [live EXCEPT !.head = Len(objects')]
    BY <1>3 DEF AutoCommit
  <2>3. /\ objects' \in Seq(Commit) /\ Len(objects') = Len(objects) + 1
        /\ \A c \in 1..Len(objects) : objects'[c] = objects[c]
        /\ objects'[Len(objects) + 1] = new
    BY <2>1, <2>2, AppendProperties DEF RepositoryRows
  <2>4. live' \in [files : Files, head : 1..Len(objects')] /\ live'.head = Len(objects')
    BY <1>1, <2>2, <2>3
  <2>5. \A c \in 1..Len(objects') : objects'[c].parent < c
    <3> SUFFICES ASSUME NEW c \in 1..Len(objects') PROVE objects'[c].parent < c
      OBVIOUS
    <3>1. CASE c \in 1..Len(objects)
      BY <3>1, <2>3 DEF RepositoryRows
    <3>2. CASE c = Len(objects) + 1
      BY <3>2, <2>3, <1>1
    <3> QED
      BY <3>1, <3>2, <2>3, <1>1
  <2> QED
    BY <1>1, <2>3, <2>4, <2>5 DEF RepositoryRows
<1> QED
  BY <1>2, <1>3

\* A step that is over, and one that is staged, leave a handler's row in shape.
LEMMA StepRows ==
  ASSUME handler \in [Request -> HandlerRow], NEW r \in UnderWay
  PROVE  /\ \A pc \in HandlerPc, commit \in Nat : StepOver(r, pc, commit) =>
              /\ handler' \in [Request -> HandlerRow]
              /\ \A s \in Request \ {r} : handler'[s] = handler[s]
              /\ handler'[r].pc = pc /\ handler'[r].commit = commit
         /\ \A f \in File, before \in Request \cup {None} :
              handler' = [handler EXCEPT ![r].pc = "apply", ![r].file = f, ![r].before = before] =>
              /\ handler' \in [Request -> HandlerRow]
              /\ \A s \in Request \ {r} : handler'[s] = handler[s]
              /\ handler'[r].pc = "apply" /\ handler'[r].file = f
              /\ handler'[r].commit = handler[r].commit
<1>1. r \in Request /\ handler[r] \in HandlerRow
  BY DEF UnderWay
<1>2. ASSUME NEW pc \in HandlerPc, NEW commit \in Nat, StepOver(r, pc, commit)
      PROVE  /\ handler' \in [Request -> HandlerRow]
             /\ \A s \in Request \ {r} : handler'[s] = handler[s]
             /\ handler'[r].pc = pc /\ handler'[r].commit = commit
  <2> DEFINE new == [handler[r] EXCEPT !.pc = pc, !.commit = commit, !.file = None, !.before = None]
  <2>1. new \in HandlerRow /\ new.pc = pc /\ new.commit = commit
    BY <1>1 DEF HandlerRow
  <2>2. handler' = [handler EXCEPT ![r] = new]
    BY <1>1, <1>2 DEF StepOver, HandlerRow
  <2> HIDE DEF new
  <2> QED
    BY <1>1, <2>1, <2>2
<1>3. ASSUME NEW f \in File, NEW before \in Request \cup {None},
             handler' = [handler EXCEPT ![r].pc = "apply", ![r].file = f, ![r].before = before]
      PROVE  /\ handler' \in [Request -> HandlerRow]
             /\ \A s \in Request \ {r} : handler'[s] = handler[s]
             /\ handler'[r].pc = "apply" /\ handler'[r].file = f
             /\ handler'[r].commit = handler[r].commit
  <2> DEFINE new == [handler[r] EXCEPT !.pc = "apply", !.file = f, !.before = before]
  <2>1. "apply" \in HandlerPc
    BY DEF HandlerPc
  <2>2. new \in HandlerRow /\ new.pc = "apply" /\ new.file = f /\ new.commit = handler[r].commit
    BY <1>1, <2>1 DEF HandlerRow
  <2>3. handler' = [handler EXCEPT ![r] = new]
    BY <1>1, <1>3 DEF HandlerRow
  <2> HIDE DEF new
  <2> QED
    BY <1>1, <2>2, <2>3
<1> QED
  BY <1>2, <1>3

\* Statements that write the project's files or its repository.
LEMMA FileStepsKeepInv ==
  ASSUME ActivityInv, NEW r \in Request,
         StageFile(r) \/ ApplyFile(r) \/ RestoreFile(r) \/ CommitFile(r) \/ CommitByHand(r)
           \/ PolicyRollsBack(r)
  PROVE  ActivityInv'
<1> DEFINE Moves ==
             /\ r \in UnderWay /\ handler'[r].pc # "none"
             /\ handler' \in [Request -> HandlerRow]
             /\ \A s \in Request \ {r} : handler'[s] = handler[s]
           Rows ==
             /\ rowStatus' \in [Request -> RowStatus]
             /\ \A s \in Request \ {r} : rowStatus'[s] = rowStatus[s]
             /\ UNCHANGED <<history, ghosts>>
           f == handler[r].file
<1>1. /\ handler \in [Request -> HandlerRow] /\ rowStatus \in [Request -> RowStatus]
      /\ handler[r] \in HandlerRow /\ HandlerKnows(r) /\ RepositoryRows /\ HistoryRow
  BY DEF ActivityInv, ActivityRows, HandlersKnow
<1>2. /\ live \in [files : Files, head : 1..Len(objects)] /\ Len(objects) \in Nat
      /\ \A g \in File, x \in Request \cup {None} :
           [live EXCEPT !.files[g] = x] \in [files : Files, head : 1..Len(objects)]
  BY <1>1, LenProperties DEF RepositoryRows, Files
<1>3. handler[r].before \in Request \cup {None} /\ handler[r].commit \in Nat
  BY <1>1 DEF HandlerRow
<1>4. ASSUME UNCHANGED history PROVE HistoryRow'
  BY <1>1, <1>4 DEF HistoryRow
<1> USE DEF At
<1>5. CASE StageFile(r)
  <2>1. r \in UnderWay
    BY <1>5 DEF StageFile, UnderWay
  <2>2. PICK g \in File : handler' = [handler EXCEPT ![r].pc = "apply", ![r].file = g,
                                                   ![r].before = live.files[g]]
    BY <1>5 DEF StageFile
  <2>3. live.files[g] \in Request \cup {None}
    BY <1>2 DEF Files
  <2>4. Moves /\ handler'[r].pc = "apply" /\ handler'[r].file \in File
        /\ handler'[r].commit = handler[r].commit
    BY <1>1, <2>1, <2>2, <2>3, StepRows
  <2>5. Rows /\ UNCHANGED <<tree, history>>
    BY <1>1, <1>5 DEF StageFile
  <2>6. HandlerKnows(r)'
    BY <1>1, <1>5, <2>4, <2>5 DEF StageFile, HandlerKnows, tree
  <2> QED
    BY <2>4, <2>5, <2>6, OneHandlerStepsQuietly
<1>6. CASE ApplyFile(r)
  <2>1. r \in UnderWay /\ f \in File /\ "commit" \in HandlerPc /\ "failing" \in HandlerPc
    BY <1>1, <1>6 DEF ApplyFile, UnderWay, HandlerKnows, HandlerPc
  <2>2. /\ Moves /\ handler'[r].pc \in {"commit", "failing"}
        /\ handler'[r].commit = handler[r].commit
        /\ handler'[r].pc = "commit" => handler'[r].file = f
    <3>1. CASE ActivityGoto(r, "commit")
      BY <1>1, <2>1, <3>1, HandlerMoves
    <3>2. CASE StepOver(r, "failing", handler[r].commit)
      BY <1>1, <1>3, <2>1, <3>2, StepRows
    <3> QED
      BY <1>6, <3>1, <3>2 DEF ApplyFile
  <2>3. Rows /\ objects' = objects /\ rowStatus' = rowStatus
    BY <1>1, <1>6 DEF ApplyFile
  <2>4. RepositoryRows'
    <3>1. live' = live \/ live' = [live EXCEPT !.files[f] = r]
      BY <1>6 DEF ApplyFile
    <3> QED
      BY <1>1, <1>2, <2>1, <2>3, <3>1 DEF RepositoryRows
  <2>5. HandlerKnows(r)'
    <3>1. handler[r].pc = "apply" /\ HandlerKnows(r)
      BY <1>1, <1>6 DEF ApplyFile
    <3> QED
      BY <2>1, <2>2, <2>3, <3>1 DEF HandlerKnows
  <2> QED
    <3>1. HistoryRow' /\ Len(objects) <= Len(objects') /\ UNCHANGED <<met, crashed>>
      BY <1>2, <1>4, <2>3 DEF ghosts
    <3> QED
      BY <2>2, <2>3, <2>4, <2>5, <3>1, OneHandlerSteps
<1>7. CASE RestoreFile(r)
  <2> DEFINE new == [handler[r] EXCEPT !.pc = "failing", !.refused = TRUE, !.file = None,
                                       !.before = None]
  <2>1. r \in UnderWay /\ f \in File /\ "failing" \in HandlerPc
    BY <1>1, <1>7 DEF RestoreFile, UnderWay, HandlerKnows, HandlerPc
  <2>2. Moves /\ handler'[r].pc = "failing" /\ handler'[r].commit = handler[r].commit
    <3>1. new \in HandlerRow /\ new.pc = "failing" /\ new.commit = handler[r].commit
      BY <1>1, <2>1 DEF HandlerRow
    <3>2. handler' = [handler EXCEPT ![r] = new]
      BY <1>1, <1>7 DEF RestoreFile, HandlerRow
    <3> HIDE DEF new
    <3> QED
      BY <1>1, <2>1, <3>1, <3>2
  <2>3. Rows /\ objects' = objects /\ live' = [live EXCEPT !.files[f] = handler[r].before]
    BY <1>1, <1>7 DEF RestoreFile
  <2>4. RepositoryRows'
    BY <1>1, <1>2, <1>3, <2>1, <2>3 DEF RepositoryRows
  <2>5. HandlerKnows(r)'
    BY <1>1, <1>7, <2>2, <2>3 DEF RestoreFile, HandlerKnows
  <2> QED
    BY <1>2, <1>4, <2>2, <2>3, <2>4, <2>5, OneHandlerSteps DEF ghosts
<1>8. CASE CommitFile(r)
  <2> DEFINE pc == IF rowStatus[r] = "none" THEN "write" ELSE "committed"
             commit == IF live.files = HeadFiles THEN handler[r].commit ELSE live'.head
  <2>1. r \in UnderWay /\ pc \in HandlerPc /\ pc # "none"
    BY <1>8 DEF CommitFile, UnderWay, HandlerPc
  <2>2. /\ RepositoryRows' /\ Len(objects) <= Len(objects')
        /\ live.files # HeadFiles => live'.head \in 1..Len(objects')
    BY <1>1, <1>8, AutoCommitKeeps DEF CommitFile
  <2>3. commit \in Nat /\ Len(objects') \in Nat
    <3>1. Len(objects') \in Nat
      BY <2>2, LenProperties DEF RepositoryRows
    <3> QED
      BY <1>3, <2>2, <3>1
  <2>4. /\ commit <= Len(objects')
        /\ rowStatus[r] \notin {"none", "queued"} => commit # NoCommit
    <3>1. handler[r].pc = "commit" /\ HandlerKnows(r)
      BY <1>1, <1>8 DEF CommitFile
    <3> QED
      BY <1>2, <1>3, <2>2, <2>3, <3>1 DEF HandlerKnows, NoCommit
  <2>5. StepOver(r, pc, commit)
    BY <1>8 DEF CommitFile
  <2>6. rowStatus' = rowStatus /\ rowStatus[r] # "queued"
    BY <1>1, <1>8 DEF CommitFile, HandlerKnows
  <2> HIDE DEF commit
  <2>7. Moves /\ handler'[r].pc = pc /\ handler'[r].commit = commit
    BY <1>1, <2>1, <2>3, <2>5, StepRows
  <2>8. Rows
    BY <1>1, <1>8 DEF CommitFile
  <2>9. HandlerKnows(r)'
    BY <2>4, <2>6, <2>7 DEF HandlerKnows
  <2> QED
    <3>1. HistoryRow' /\ UNCHANGED <<met, crashed>>
      BY <1>4, <2>8 DEF ghosts
    <3> HIDE DEF pc
    <3> QED
      BY <2>1, <2>2, <2>7, <2>8, <2>9, <3>1, OneHandlerSteps
<1>9. CASE CommitByHand(r)
  <2>1. r \in UnderWay /\ rowStatus' = rowStatus
    BY <1>9 DEF CommitByHand, UnderWay
  <2>2. RepositoryRows' /\ Len(objects) <= Len(objects') /\ Len(objects') \in Nat
    BY <1>1, <1>9, AutoCommitKeeps, LenProperties DEF CommitByHand, RepositoryRows
  <2>3. Moves /\ handler'[r].pc = "done" /\ handler'[r].commit = handler[r].commit
    BY <1>1, <1>9, <2>1, HandlerMoves DEF CommitByHand
  <2>4. Rows
    BY <1>1, <1>9 DEF CommitByHand
  <2>5. HandlerKnows(r)'
    BY <1>1, <1>2, <1>3, <1>9, <2>1, <2>2, <2>3 DEF CommitByHand, HandlerKnows
  <2> QED
    BY <1>4, <2>2, <2>3, <2>4, <2>5, OneHandlerSteps DEF ghosts
<1>10. CASE PolicyRollsBack(r)
  <2>1. r \in UnderWay /\ "ended" \in HandlerPc /\ ActivityGoto(r, "ended")
    BY <1>10 DEF PolicyRollsBack, UnderWay, HandlerPc
  <2>2. Moves /\ handler'[r].pc = "ended" /\ handler'[r].commit = handler[r].commit
    BY <1>1, <2>1, HandlerMoves
  <2>3. Rows /\ rowStatus'[r] = "failed"
    BY <1>1, <1>10 DEF PolicyRollsBack, Status, RowStatus
  <2>4. handler[r].commit \in 1..Len(objects)
    <3>1. handler[r].pc = "committed" /\ HandlerKnows(r) /\ rowStatus[r] \notin {"none", "queued"}
      BY <1>1, <1>10 DEF PolicyRollsBack, HandlerKnows
    <3> QED
      BY <1>2, <1>3, <3>1 DEF HandlerKnows, NoCommit
  <2>5. RepositoryRows' /\ objects' = objects
    <3>1. objects[handler[r].commit].files \in Files
      <4>1. objects[handler[r].commit] \in Commit
        BY <1>1, <2>4, LenProperties DEF RepositoryRows
      <4> QED
        BY <4>1 DEF Commit
    <3>2. objects' = objects
          /\ live' = [files |-> objects[handler[r].commit].files, head |-> handler[r].commit]
      BY <1>10 DEF PolicyRollsBack
    <3> QED
      BY <1>1, <2>4, <3>1, <3>2 DEF RepositoryRows
  <2>6. HandlerKnows(r)'
    BY <1>1, <1>10, <2>2, <2>3, <2>4, <2>5 DEF PolicyRollsBack, HandlerKnows, NoCommit
  <2> QED
    BY <1>2, <1>4, <2>2, <2>3, <2>5, <2>6, <1>10, OneHandlerSteps DEF ghosts, PolicyRollsBack
<1> QED
  BY <1>5, <1>6, <1>7, <1>8, <1>9, <1>10

\* The entry goes before those that were read, and the oldest ones fall off.
LEMMA WithEntryKeeps ==
  ASSUME NEW copy \in Seq(Request), NEW r \in Request
  PROVE  WithEntry(copy, r) \in Seq(Request) /\ Len(WithEntry(copy, r)) <= MaxHistory
<1> DEFINE entries == <<r>> \o copy
           last == IF Len(entries) > MaxHistory THEN MaxHistory ELSE Len(entries)
<1>1. <<r>> \in Seq(Request)
  OBVIOUS
<1>2. entries \in Seq(Request)
  BY <1>1, ConcatProperties
<1>3. Len(entries) \in Nat
  BY <1>2, LenProperties
<1>4. last \in 0..Len(entries) /\ last <= MaxHistory
  BY <1>3, ProjectActivityAssumption
<1>5. WithEntry(copy, r) = SubSeq(entries, 1, last)
  BY DEF WithEntry, FirstOf
<1> HIDE DEF entries, last
<1>6. SubSeq(entries, 1, last) \in Seq(Request) /\ Len(SubSeq(entries, 1, last)) = last
  BY <1>2, <1>3, <1>4, SubSeqProperties
<1> QED
  BY <1>4, <1>5, <1>6

\* What is read is put back with the entry before it.
LEMMA HistoryStepsKeepInv ==
  ASSUME ActivityInv, NEW r \in Request, ReadProject(r) \/ UpdateProject(r)
  PROVE  ActivityInv'
<1> DEFINE Moves ==
             /\ r \in UnderWay /\ handler'[r].pc # "none"
             /\ handler' \in [Request -> HandlerRow]
             /\ \A s \in Request \ {r} : handler'[s] = handler[s]
           Rows ==
             /\ rowStatus' = rowStatus /\ UNCHANGED tree /\ met' = met /\ crashed' = crashed
<1>1. /\ handler \in [Request -> HandlerRow] /\ rowStatus \in [Request -> RowStatus]
      /\ handler[r] \in HandlerRow /\ HandlerKnows(r) /\ RepositoryRows /\ HistoryRow
  BY DEF ActivityInv, ActivityRows, HandlersKnow
<1>2. ASSUME Rows PROVE RepositoryRows' /\ Len(objects) <= Len(objects')
  BY <1>1, <1>2, LenProperties DEF RepositoryRows, tree
<1> USE DEF At
<1>3. CASE ReadProject(r)
  <2> DEFINE new == [handler[r] EXCEPT !.pc = "write", !.copy = history]
  <2>1. r \in UnderWay /\ "write" \in HandlerPc /\ history \in Entries
    BY <1>1, <1>3 DEF ReadProject, UnderWay, HandlerPc, HistoryRow, Entries
  <2>2. new \in HandlerRow /\ new.pc = "write" /\ new.commit = handler[r].commit
    BY <1>1, <2>1 DEF HandlerRow
  <2>3. handler' = [handler EXCEPT ![r] = new]
    BY <1>1, <1>3 DEF ReadProject, HandlerRow
  <2> HIDE DEF new
  <2>4. Moves
    BY <1>1, <2>1, <2>2, <2>3
  <2>5. Rows /\ HistoryRow'
    BY <1>1, <1>3 DEF ReadProject, ghosts, HistoryRow
  <2>6. HandlerKnows(r)'
    BY <1>1, <1>3, <2>2, <2>3, <2>5 DEF ReadProject, HandlerKnows, tree
  <2> QED
    BY <1>1, <1>2, <2>4, <2>5, <2>6, OneHandlerSteps
<1>4. CASE UpdateProject(r)
  <2> DEFINE new == [handler[r] EXCEPT !.pc = "bootstrap", !.copy = <<>>]
  <2>1. r \in UnderWay /\ "bootstrap" \in HandlerPc /\ <<>> \in Entries
        /\ handler[r].copy \in Seq(Request)
    BY <1>1, <1>4 DEF UpdateProject, UnderWay, HandlerPc, HandlerRow, Entries
  <2>2. Moves /\ handler'[r].pc \in {"bootstrap", "done"} /\ handler'[r].commit = handler[r].commit
    <3>1. CASE handler' = [handler EXCEPT ![r].pc = "bootstrap", ![r].copy = <<>>]
      <4>1. new \in HandlerRow /\ new.pc = "bootstrap" /\ new.commit = handler[r].commit
        BY <1>1, <2>1 DEF HandlerRow
      <4>2. handler' = [handler EXCEPT ![r] = new]
        BY <1>1, <3>1 DEF HandlerRow
      <4> HIDE DEF new
      <4> QED
        BY <1>1, <2>1, <4>1, <4>2
    <3>2. CASE Answer(r)
      BY <1>1, <2>1, <3>2, HandlerMoves
    <3> QED
      BY <1>4, <3>1, <3>2 DEF UpdateProject
  <2>3. Rows /\ HistoryRow'
    BY <1>4, <2>1, WithEntryKeeps DEF UpdateProject, ghosts, HistoryRow
  <2>4. HandlerKnows(r)'
    <3>1. handler[r].pc = "write" /\ objects' = objects
      BY <1>4 DEF UpdateProject, tree
    <3> QED
      BY <1>1, <2>2, <2>3, <3>1 DEF HandlerKnows
  <2> QED
    BY <1>1, <1>2, <2>2, <2>3, <2>4, OneHandlerSteps
<1> QED
  BY <1>3, <1>4

\* Who comes is admitted knowing of all that are under way, or turned down.
LEMMA NewcomerMeetsAll ==
  ASSUME ActivityInv, NEW r \in Request,
         handler[r].pc = "none", handler[Creator].pc # "none", handler'[r].pc # "none",
         handler' \in [Request -> HandlerRow], \A s \in Request \ {r} : handler'[s] = handler[s],
         UNCHANGED <<history, tree, rowStatus, crashed>>, HandlerKnows(r)',
         \/ handler'[r].pc = "refused" /\ met' = met
         \/ Admit(r, UnderWay \ {r}) \/ Admit(r, UnderWay)
  PROVE  ActivityInv'
<1> USE ProjectActivityAssumption
<1>1. /\ met' \in [Request -> [unseen : SUBSET Request, answered : SUBSET Request, dirty : SUBSET File]]
      /\ \A s \in Request \ {r} : met'[s] = met[s]
      /\ handler'[r].pc = "refused" \/ UnderWay \ {r} \subseteq met'[r].unseen
  <2>1. /\ UnderWay \subseteq Request /\ Dirty \subseteq File
        /\ {s \in Request : handler[s].pc = "done"} \subseteq Request
    BY DEF UnderWay, Dirty
  <2>2. met \in [Request -> [unseen : SUBSET Request, answered : SUBSET Request, dirty : SUBSET File]]
    BY DEF ActivityInv, ActivityRows
  <2> QED
    BY <2>1, <2>2 DEF Admit, At
<1>2. ActivityRows'
  BY <1>1 DEF ActivityInv, ActivityRows
<1>3. RepositoryRows' /\ HistoryRow' /\ Len(objects) <= Len(objects') /\ Len(objects') \in Nat
  BY LenProperties DEF ActivityInv, RepositoryRows, HistoryRow, tree
<1>4. HandlersKnow'
  BY <1>3, OthersStillKnow
<1>5. CreatorFirst'
  BY DEF ActivityInv, CreatorFirst
<1>6. AllMet'
  <2> SUFFICES ASSUME NEW s \in UnderWay', NEW t \in UnderWay', s # t PROVE Met(s, t)'
    BY DEF AllMet
  <2>1. UnderWay' \ {r} \subseteq UnderWay /\ UnderWay' \subseteq Request
    BY DEF UnderWay
  <2>2. handler'[r].pc = "refused" => r \notin UnderWay'
    BY DEF UnderWay
  <2>3. CASE s # r /\ t # r
    BY <1>1, <2>1, <2>3 DEF ActivityInv, AllMet, Met
  <2>4. CASE s = r \/ t = r
    BY <1>1, <2>1, <2>2, <2>4 DEF Met
  <2> QED
    BY <2>3, <2>4
<1> QED
  BY <1>2, <1>3, <1>4, <1>5, <1>6 DEF ActivityInv

\* The check lets nobody in while the row of one that is under way says so: all
\* that are under way are unseen.
LEMMA ArrivalsKeepInv ==
  ASSUME ActivityInv, NEW r \in Request, CheckNoActiveRun(r) \/ ReportValidation(r)
  PROVE  ActivityInv'
<1>1. /\ handler \in [Request -> HandlerRow] /\ handler[r] \in HandlerRow
      /\ HandlerKnows(r) /\ handler[r].commit \in Nat
  BY DEF ActivityInv, ActivityRows, HandlersKnow, HandlerRow
<1>2. /\ handler[r].pc = "none" /\ handler[Creator].pc # "none"
      /\ UNCHANGED <<history, tree, rowStatus, crashed>>
  BY DEF CheckNoActiveRun, ReportValidation, MayArrive
<1>3. Len(objects) \in Nat /\ rowStatus \in [Request -> RowStatus]
  BY LenProperties DEF ActivityInv, ActivityRows, RepositoryRows
<1> DEFINE Comes(pc, kind) ==
             handler' = [handler EXCEPT ![r].kind = kind, ![r].pc = pc]
           Moves ==
             /\ handler' \in [Request -> HandlerRow]
             /\ \A s \in Request \ {r} : handler'[s] = handler[s]
<1>4. ASSUME NEW pc \in HandlerPc \ {"none", "apply", "commit", "execute", "stage", "committed",
                                       "failing", "ended"},
             NEW kind \in Kind, Comes(pc, kind)
      PROVE  Moves /\ handler'[r].pc = pc /\ HandlerKnows(r)'
  <2> DEFINE new == [handler[r] EXCEPT !.kind = kind, !.pc = pc]
  <2>1. new \in HandlerRow /\ new.pc = pc /\ new.commit = handler[r].commit
    BY <1>1 DEF HandlerRow
  <2>2. handler' = [handler EXCEPT ![r] = new]
    BY <1>1, <1>4 DEF HandlerRow
  <2> HIDE DEF new
  <2>3. Moves /\ handler'[r] = new
    BY <1>1, <2>1, <2>2
  <2>4. HandlerKnows(r)'
    BY <1>1, <1>2, <2>1, <2>3 DEF HandlerKnows, tree
  <2> QED
    BY <2>1, <2>3, <2>4
<1>5. CASE CheckNoActiveRun(r)
  <2>1. CASE HasActiveAgentRun
    <3>1. Refuse(r) /\ met' = met
      BY <1>5, <2>1 DEF CheckNoActiveRun
    <3>2. Moves /\ handler'[r].pc = "refused" /\ handler'[r].commit = NoCommit
      BY <1>1, <3>1, HandlerMoves
    <3>3. HandlerKnows(r)'
      BY <1>1, <1>2, <1>3, <3>2 DEF HandlerKnows, tree, NoCommit
    <3> QED
      BY <1>2, <3>1, <3>2, <3>3, NewcomerMeetsAll
  <2>2. CASE ~HasActiveAgentRun
    <3>1. Unseen(r) = UnderWay \ {r}
      BY <2>2 DEF HasActiveAgentRun, CountsAsActive, Unseen, UnderWay
    <3>2. Admit(r, UnderWay \ {r})
      BY <1>5, <2>2, <3>1 DEF CheckNoActiveRun
    <3>3. PICK gate \in {<<"builder", "limit">>, <<"file", "insert">>, <<"commit", "sweep">>} :
            Comes(gate[2], gate[1])
      BY <1>5, <2>2 DEF CheckNoActiveRun
    <3>4. /\ gate[1] \in Kind
          /\ gate[2] \in HandlerPc \ {"none", "apply", "commit", "execute", "stage", "committed",
                                      "failing", "ended"}
      BY DEF Kind, HandlerPc
    <3>5. Moves /\ handler'[r].pc = gate[2] /\ HandlerKnows(r)'
      BY <1>4, <3>3, <3>4
    <3> QED
      BY <1>2, <3>2, <3>4, <3>5, NewcomerMeetsAll
  <2> QED
    BY <2>1, <2>2
<1>6. CASE ReportValidation(r)
  <2>1. Admit(r, UnderWay)
    BY <1>6 DEF ReportValidation
  <2>2. handler' = [handler EXCEPT ![r].pc = "read", ![r].kind = "validate"]
    BY <1>6 DEF ReportValidation
  <2>3. Comes("read", "validate")
    BY <1>1, <2>2 DEF HandlerRow
  <2>4. /\ "validate" \in Kind
        /\ "read" \in HandlerPc \ {"none", "apply", "commit", "execute", "stage", "committed",
                                   "failing", "ended"}
    BY DEF Kind, HandlerPc
  <2>5. Moves /\ handler'[r].pc = "read" /\ HandlerKnows(r)'
    BY <1>4, <2>3, <2>4
  <2> QED
    BY <1>2, <2>1, <2>5, NewcomerMeetsAll
<1> QED
  BY <1>5, <1>6

\* The project's creation comes before everything else.
LEMMA CreateProjectKeepsInv == ASSUME ActivityInv, CreateProject PROVE ActivityInv'
<1> USE ProjectActivityAssumption
<1>1. /\ handler \in [Request -> HandlerRow] /\ handler[Creator] \in HandlerRow
      /\ HandlerKnows(Creator) /\ handler[Creator].commit \in Nat
      /\ \A r \in Request : handler[r].pc = "none"
  BY DEF ActivityInv, ActivityRows, HandlersKnow, HandlerRow, CreatorFirst, CreateProject, At
<1>2. PICK kind \in Kind : handler' = [handler EXCEPT ![Creator].pc = "stage", ![Creator].kind = kind]
  BY DEF CreateProject, Kind
<1> DEFINE new == [handler[Creator] EXCEPT !.pc = "stage", !.kind = kind]
<1>3. new \in HandlerRow /\ new.pc = "stage" /\ new.commit = handler[Creator].commit
  <2>1. "stage" \in HandlerPc
    BY DEF HandlerPc
  <2> QED
    BY <1>1, <2>1 DEF HandlerRow
<1>4. handler' = [handler EXCEPT ![Creator] = new]
  BY <1>1, <1>2 DEF HandlerRow
<1> HIDE DEF new
<1>5. /\ handler' \in [Request -> HandlerRow] /\ handler'[Creator] = new
      /\ \A r \in Request \ {Creator} : handler'[r] = handler[r]
  BY <1>1, <1>3, <1>4
<1>6. /\ UNCHANGED <<history, tree, rowStatus, met, crashed>>
      /\ handler[Creator].pc = "none" /\ rowStatus[Creator] = "none"
  BY <1>1 DEF CreateProject, ghosts, HandlerKnows, At
<1>7. ActivityRows'
  BY <1>3, <1>5, <1>6 DEF ActivityInv, ActivityRows
<1>8. RepositoryRows' /\ HistoryRow' /\ Len(objects) <= Len(objects') /\ Len(objects') \in Nat
  BY <1>6, LenProperties DEF ActivityInv, RepositoryRows, HistoryRow, tree
<1>9. HandlerKnows(Creator)'
  BY <1>1, <1>3, <1>5, <1>6 DEF HandlerKnows, tree
<1>10. HandlersKnow'
  BY <1>5, <1>6, <1>8, <1>9, OthersStillKnow
<1>11. CreatorFirst' /\ AllMet'
  BY <1>1, <1>3, <1>5 DEF CreatorFirst, AllMet, UnderWay
<1> QED
  BY <1>7, <1>8, <1>10, <1>11 DEF ActivityInv

\* The first run of a bootstrapped project, and a scaffold that fails.
LEMMA CreatorStepsKeepInv ==
  ASSUME ActivityInv, ScaffoldFails \/ BootstrapRun PROVE ActivityInv'
<1> USE ProjectActivityAssumption
<1> DEFINE Moves ==
             /\ Creator \in UnderWay /\ handler'[Creator].pc # "none"
             /\ handler' \in [Request -> HandlerRow]
             /\ \A s \in Request \ {Creator} : handler'[s] = handler[s]
           Rows ==
             /\ rowStatus' \in [Request -> RowStatus]
             /\ \A s \in Request \ {Creator} : rowStatus'[s] = rowStatus[s]
             /\ UNCHANGED <<history, tree, ghosts>>
<1>1. /\ handler \in [Request -> HandlerRow] /\ rowStatus \in [Request -> RowStatus]
      /\ HandlerKnows(Creator) /\ Len(objects) \in Nat
  BY LenProperties DEF ActivityInv, ActivityRows, HandlersKnow, RepositoryRows
<1>2. CASE ScaffoldFails
  <2>1. Creator \in UnderWay /\ Refuse(Creator)
    BY <1>2 DEF ScaffoldFails, UnderWay, At
  <2>2. Moves /\ handler'[Creator].pc = "refused" /\ handler'[Creator].commit = NoCommit
    BY <1>1, <2>1, HandlerMoves
  <2>3. Rows
    BY <1>1, <1>2 DEF ScaffoldFails
  <2>4. HandlerKnows(Creator)'
    BY <1>1, <1>2, <2>2 DEF ScaffoldFails, HandlerKnows, tree, NoCommit
  <2> QED
    BY <2>2, <2>3, <2>4, OneHandlerStepsQuietly
<1>3. CASE BootstrapRun
  <2>1. Creator \in UnderWay /\ "read" \in HandlerPc /\ handler[Creator].pc = "bootstrap"
    BY <1>3 DEF BootstrapRun, UnderWay, At, HandlerPc
  <2>2. Moves /\ handler'[Creator].pc \in {"bootstrap", "read"}
        /\ handler'[Creator].commit = handler[Creator].commit
    <3>1. CASE handler' = handler
      BY <1>1, <2>1, <3>1
    <3>2. CASE ActivityGoto(Creator, "read")
      BY <1>1, <2>1, <3>2, HandlerMoves
    <3> QED
      BY <1>3, <3>1, <3>2 DEF BootstrapRun
  <2>3. Rows /\ rowStatus'[Creator] \in {"running", "complete", "failed"}
    BY <1>1, <1>3 DEF BootstrapRun, Status, RowStatus, Active
  <2>4. HandlerKnows(Creator)'
    BY <1>1, <1>3, <2>2, <2>3 DEF BootstrapRun, HandlerKnows, tree
  <2> QED
    BY <2>2, <2>3, <2>4, OneHandlerStepsQuietly
<1> QED
  BY <1>2, <1>3

\* A crash ends whoever is under way, and leaves their rows to be ended later.
LEMMA CrashKeepsInv ==
  ASSUME ActivityInv, CrashServer \/ \E r \in Request : EndCrashedRun(r) PROVE ActivityInv'
<1> USE ProjectActivityAssumption
<1>1. /\ ActivityRows /\ HandlersKnow /\ AllMet /\ CreatorFirst
      /\ handler \in [Request -> HandlerRow] /\ UnderWay \subseteq Request
      /\ Len(objects) \in Nat
  BY LenProperties DEF ActivityInv, ActivityRows, RepositoryRows, UnderWay
<1>2. RepositoryRows' /\ HistoryRow' /\ objects' = objects /\ met' = met
  BY DEF ActivityInv, CrashServer, EndCrashedRun, RepositoryRows, HistoryRow, tree, ghosts
<1>3. CASE CrashServer
  <2> DEFINE gone == [NoLocals EXCEPT !.pc = "refused"]
  <2>1. gone \in HandlerRow /\ gone.pc = "refused" /\ gone.commit = 0
    <3>1. NoLocals \in HandlerRow /\ NoLocals.commit = 0
      BY DEF NoLocals, HandlerRow, HandlerPc, Entries, NoCommit
    <3>2. "refused" \in HandlerPc
      BY DEF HandlerPc
    <3> QED
      BY <3>1, <3>2 DEF HandlerRow
  <2>2. /\ handler' = [r \in Request |-> IF r \in UnderWay THEN gone ELSE handler[r]]
        /\ crashed' = UnderWay /\ rowStatus' = rowStatus
    BY <1>3 DEF CrashServer
  <2> HIDE DEF gone
  <2>3. ActivityRows'
    BY <1>1, <1>2, <2>1, <2>2 DEF ActivityRows
  <2>4. HandlersKnow'
    <3> SUFFICES ASSUME NEW r \in Request PROVE HandlerKnows(r)'
      BY DEF HandlersKnow
    <3>1. HandlerKnows(r)
      BY <1>1 DEF HandlersKnow
    <3>2. CASE r \in UnderWay
      BY <1>1, <1>2, <2>1, <2>2, <3>2 DEF HandlerKnows
    <3>3. CASE r \notin UnderWay
      BY <1>2, <2>2, <3>1, <3>3 DEF HandlerKnows
    <3> QED
      BY <3>2, <3>3
  <2>5. CreatorFirst' /\ AllMet'
    BY <1>1, <2>1, <2>2 DEF CreatorFirst, AllMet, UnderWay
  <2> QED
    BY <1>2, <2>3, <2>4, <2>5 DEF ActivityInv
<1>4. ASSUME NEW r \in Request, EndCrashedRun(r) PROVE ActivityInv'
  <2>1. /\ handler[r].pc = "refused" /\ handler' = handler /\ crashed' = crashed
        /\ rowStatus' \in [Request -> RowStatus] /\ rowStatus'[r] \in {"complete", "failed"}
        /\ \A s \in Request \ {r} : rowStatus'[s] = rowStatus[s]
    BY <1>1, <1>4 DEF EndCrashedRun, ActivityRows, Status, RowStatus, ghosts
  <2>2. ActivityRows'
    BY <1>1, <1>2, <2>1 DEF ActivityRows
  <2>3. HandlerKnows(r) /\ HandlerKnows(r)'
    BY <1>1, <1>2, <2>1 DEF HandlersKnow, HandlerKnows
  <2>4. HandlersKnow'
    BY <1>1, <1>2, <2>1, <2>3, OthersStillKnow
  <2>5. CreatorFirst' /\ AllMet'
    BY <1>1, <1>2, <2>1 DEF CreatorFirst, AllMet, UnderWay, Met
  <2> QED
    BY <1>2, <2>2, <2>4, <2>5 DEF ActivityInv
<1> QED
  BY <1>3, <1>4

\* A step in which no request does anything.
LEMMA ActivityStutter == ASSUME ActivityInv, UNCHANGED activityVars PROVE ActivityInv'
<1> USE DEF activityVars, ActivityInv
<1>1. ActivityRows' /\ RepositoryRows' /\ HistoryRow'
  BY DEF ActivityRows, RepositoryRows, HistoryRow
<1>2. HandlersKnow' /\ CreatorFirst'
  BY DEF HandlersKnow, HandlerKnows, CreatorFirst
<1>3. AllMet'
  BY DEF AllMet, UnderWay, Met
<1> QED
  BY <1>1, <1>2, <1>3

\* For any number of requests, files, corrections and crashes: no two change the
\* project's files at once unless the later one's check could not see the other.
THEOREM MutationsAreExclusive == ActivitySpec => [](ActivityTypeOK /\ MutationsExclude)
<1>1. ActivityInit => ActivityInv
  BY ActivityInitInv
<1>2. ActivityInv /\ [ActivityNext]_activityVars => ActivityInv'
  <2> SUFFICES ASSUME ActivityInv, [ActivityNext]_activityVars PROVE ActivityInv'
    OBVIOUS
  <2>1. ASSUME NEW r \in Request, ActivityStep(r) PROVE ActivityInv'
    <3>1. CASE CheckNoActiveRun(r) \/ ReportValidation(r)
      BY <3>1, ArrivalsKeepInv
    <3>2. CASE \/ StageFile(r) \/ ApplyFile(r) \/ RestoreFile(r) \/ CommitFile(r)
               \/ CommitByHand(r) \/ PolicyRollsBack(r)
      BY <3>2, FileStepsKeepInv
    <3>3. CASE ReadProject(r) \/ UpdateProject(r)
      BY <3>3, HistoryStepsKeepInv
    <3>4. CASE EndCrashedRun(r)
      BY <3>4, CrashKeepsInv
    <3>5. CASE \/ ConsumeRateLimit(r) \/ InsertRun(r) \/ EnterProjectRun(r) \/ ToolFails(r)
               \/ EndProjectRun(r) \/ QueueInvariantCorrection(r) \/ QueueValidationCorrection(r)
               \/ KeepRefusedCorrection(r) \/ DeriveResult(r)
      BY <3>5, QuietStepsKeepInv
    <3> QED
      BY <2>1, <3>1, <3>2, <3>3, <3>4, <3>5 DEF ActivityStep
  <2>2. CASE CreateProject
    BY <2>2, CreateProjectKeepsInv
  <2>3. CASE ScaffoldFails \/ BootstrapRun
    BY <2>3, CreatorStepsKeepInv
  <2>4. CASE CrashServer
    BY <2>4, CrashKeepsInv
  <2> QED
    BY <2>1, <2>2, <2>3, <2>4, ActivityStutter DEF ActivityNext
<1>3. ActivityInv => ActivityTypeOK /\ MutationsExclude
  BY ActivityInvImplies
<1> QED
  BY <1>1, <1>2, <1>3, PTL DEF ActivitySpec
-----------------------------------------------------------------------------
(* What a request that met no other is promised (ActivityTold).  No        *)
(* induction is needed for the branches that commits end: that their       *)
(* equation has one solution is itself invariant, since a commit adds one  *)
(* argument at the end.                                                    *)

Arrived == {r \in Request : handler[r].pc # "none"}

\* The equation that defines the branches which commits end.
IsBranches(b, os) ==
  b = [c \in 0..Len(os) |-> IF c = 0 THEN {} ELSE {c} \cup b[os[c].parent]]

OneBranching(os) ==
  /\ \E b : IsBranches(b, os)
  /\ \A a, b : IsBranches(a, os) /\ IsBranches(b, os) => a = b

\* And its solution.
Branches[c \in 0..Len(objects)] == IF c = 0 THEN {} ELSE {c} \cup Branches[objects[c].parent]

\* A list of entries tells of r: behind others none of which r met, or no more,
\* pushed out by such.
TellsOf(entries, r) ==
  \/ \E i \in 1..Len(entries) :
       entries[i] = r /\ \A j \in 1..(i - 1) : r \in met[entries[j]].answered
  \/ Len(entries) = MaxHistory /\ \A i \in 1..Len(entries) : r \in met[entries[i]].answered

\* Lists and gates name only requests that came.
OnlyArrived ==
  /\ met[Creator].answered = {}
  /\ \A i \in 1..Len(history) : history[i] \in Arrived
  /\ \A r \in Request :
       /\ handler[r].pc = "none" => met[r].unseen = {}
       /\ met[r].unseen \subseteq Arrived
       /\ \A i \in 1..Len(handler[r].copy) : handler[r].copy[i] \in Arrived

\* Who is under way met those who have answered, or came after their answer.
DoneKnown ==
  \A r \in Request, s \in UnderWay :
    handler[r].pc = "done" => Met(r, s) \/ r \in met[s].answered

\* Not only the row tells of a request that met no other, but every copy of the
\* history that is about to be written back.
HistoryTells ==
  \A r \in Request : handler[r].pc = "done" /\ Alone(r) /\ handler[r].kind # "commit" =>
    /\ TellsOf(history, r)
    /\ \A s \in Request : handler[s].pc = "write" => TellsOf(handler[s].copy, r)

HistoryInv == OnlyArrived /\ DoneKnown /\ HistoryTells

\* A commit on top of another that changes files of r only, or what it found.
Own(r, c) ==
  /\ objects[c].parent # NoCommit
  /\ \A f \in File :
       \/ objects[c].files[f] = r \/ f \in met[r].dirty
       \/ objects[c].files[f] = objects[objects[c].parent].files[f]

\* Contents were written by requests that came, and the tree is clean before the
\* creation.
FilesOfArrived ==
  /\ \A f \in File : live.files[f] \in Arrived \cup {None}
  /\ \A c \in 1..Len(objects), f \in File : objects[c].files[f] \in Arrived \cup {None}
  /\ \A r \in Request : handler[r].before \in Arrived \cup {None}
  /\ handler[Creator].pc = "none" => live.files = HeadFiles

\* The commit of a request that met no other and has answered is on the branch,
\* and on that of every commit somebody may roll back to.
CommitsKept ==
  \A r \in Request : handler[r].pc = "done" /\ Alone(r) /\ handler[r].commit # NoCommit =>
    /\ Own(r, handler[r].commit)
    /\ handler[r].commit \in Branches[live.head]
    /\ \A s \in UnderWay :
         handler[s].commit # NoCommit => handler[r].commit \in Branches[handler[s].commit]

\* The handler's commit is its own, and not the one it started from.
HasCommitted(r) ==
  \/ handler[r].pc \in {"committed", "read", "write", "bootstrap"}
  \/ rowStatus[r] \in {"none", "complete"}
  \/ handler[r].fix

\* Content that r wrote, that is HEAD's, or that r found.
Expected(r, f, content) == content = r \/ content = HeadFiles[f] \/ f \in met[r].dirty

\* What a request that meets no other finds and leaves in the tree.
CleanFor(r) ==
  /\ handler[r].commit # NoCommit => handler[r].commit = live.head
  /\ \A f \in File : Expected(r, f, live.files[f])
  /\ handler[r].pc \in {"apply", "commit"} => Expected(r, handler[r].file, handler[r].before)
  /\ handler[r].pc = "commit" => live.files[handler[r].file] = r
  /\ (\E f \in File : HeadFiles[f] = r) => Own(r, live.head)
  /\ HasCommitted(r) /\ handler[r].commit # NoCommit => Own(r, handler[r].commit)

AloneClean == \A r \in UnderWay : Alone(r) => CleanFor(r)

TreeInv == OneBranching(objects) /\ FilesOfArrived /\ CommitsKept /\ AloneClean

\* Only the creation changes files without a row; what commits by hand has no
\* commit of its own; and only a run that has committed is corrected as valid once.
HandlerStands(r) ==
  /\ handler[r].pc \in {"stage", "apply", "commit"} /\ rowStatus[r] = "none" => r = Creator
  /\ handler[r].pc = "sweep" => handler[r].kind = "commit"
  /\ handler[r].pc \in {"none", "sweep"} => handler[r].commit = NoCommit
  /\ handler[r].fix => handler[r].commit # NoCommit

HandlersStand == \A r \in Request : HandlerStands(r)

\* Inductive.
ToldInv == ActivityInv /\ HandlersStand /\ HistoryInv /\ TreeInv

\* The branches are the solution of their equation.
LEMMA BranchesAre == OneBranching(objects) => IsBranches(Branches, objects)
  BY DEF OneBranching, Branches, IsBranches

\* And what HEAD is built on is one of them.
LEMMA OnBranchIs == OnBranch = Branches[live.head]
  BY DEF OnBranch, Branches

\* Where a commit's parent is older and a commit is added, the solution grows at
\* its end (createAutoCommit).
Extended(os, ns, p) ==
  /\ Len(os) \in Nat /\ Len(ns) = Len(os) + 1
  /\ p \in 0..Len(os) /\ ns[Len(ns)].parent = p
  /\ \A c \in 1..Len(os) : ns[c] = os[c] /\ os[c].parent \in 0..Len(os)

\* With one more commit there is still one solution, which is the old one on the
\* older commits and adds the new commit to the branch of its parent.
LEMMA BranchesExtend ==
  ASSUME NEW os, NEW ns, NEW p, Extended(os, ns, p), OneBranching(os), NEW old, IsBranches(old, os)
  PROVE  /\ OneBranching(ns)
         /\ \A a : IsBranches(a, ns) =>
              /\ \A c \in 0..Len(os) : a[c] = old[c]
              /\ a[Len(ns)] = {Len(ns)} \cup old[p]
<1> DEFINE n == Len(os)
           On(b, c) == {c} \cup b
           new == [c \in 0..(n + 1) |-> IF c = n + 1 THEN On(old[p], c) ELSE old[c]]
<1>1. /\ n \in Nat /\ Len(ns) = n + 1 /\ p \in 0..n /\ ns[n + 1].parent = p
      /\ \A c \in 1..n : ns[c] = os[c] /\ os[c].parent \in 0..n
  BY DEF Extended
<1>2. \A f : IsBranches(f, os) <=> f = [c \in 0..n |-> IF c = 0 THEN {} ELSE On(f[os[c].parent], c)]
  BY DEF IsBranches
<1>3. \A f : IsBranches(f, ns) <=>
        f = [c \in 0..(n + 1) |-> IF c = 0 THEN {} ELSE On(f[ns[c].parent], c)]
  BY <1>1 DEF IsBranches
<1>4. old[0] = {} /\ \A c \in 1..n : old[c] = On(old[os[c].parent], c)
  BY <1>1, <1>2
<1>5. On(old[p], n + 1) = {Len(ns)} \cup old[p]
  BY <1>1
<1> HIDE DEF On
<1>6. ASSUME NEW a, IsBranches(a, ns)
      PROVE  /\ \A c \in 0..n : a[c] = old[c]
             /\ a[n + 1] = On(old[p], n + 1)
             /\ a = new
  <2> DEFINE b == [c \in 0..n |-> a[c]]
  <2>1. a = [c \in 0..(n + 1) |-> IF c = 0 THEN {} ELSE On(a[ns[c].parent], c)]
    BY <1>3, <1>6
  <2>2. a[0] = {} /\ a[n + 1] = On(a[p], n + 1)
    <3>1. 0 \in 0..(n + 1) /\ n + 1 \in 0..(n + 1) /\ n + 1 # 0
      BY <1>1
    <3>2. a[0] = {} /\ a[n + 1] = On(a[ns[n + 1].parent], n + 1)
      BY <2>1, <3>1
    <3> QED
      BY <1>1, <3>2
  <2>3. ASSUME NEW c \in 1..n PROVE a[c] = On(a[os[c].parent], c)
    <3>1. ns[c] = os[c] /\ c \in 0..(n + 1) /\ c # 0
      BY <1>1
    <3>2. a[c] = On(a[ns[c].parent], c)
      BY <2>1, <3>1
    <3> QED
      BY <3>1, <3>2
  <2>4. b[0] = {} /\ \A c \in 1..n : b[c] = On(b[os[c].parent], c)
    BY <1>1, <2>2, <2>3
  <2>5. b = [c \in 0..n |-> IF c = 0 THEN {} ELSE On(b[os[c].parent], c)]
    BY <1>1, <2>4
  <2>6. b = old
    BY <1>2, <2>5 DEF OneBranching
  <2>7. \A c \in 0..n : a[c] = old[c]
    BY <2>6
  <2>8. a[n + 1] = On(old[p], n + 1)
    BY <1>1, <2>2, <2>7
  <2>9. \A c \in 0..(n + 1) : a[c] = new[c]
    BY <1>1, <2>7, <2>8
  <2>10. a = new
    BY <2>1, <2>9
  <2> QED
    BY <2>7, <2>8, <2>10
<1>7. IsBranches(new, ns)
  <2>1. new[0] = {} /\ \A c \in 0..n : new[c] = old[c]
    BY <1>1, <1>4
  <2>2. new[n + 1] = On(new[p], n + 1)
    BY <1>1, <2>1
  <2>3. \A c \in 1..n : new[c] = On(new[ns[c].parent], c)
    BY <1>1, <1>4, <2>1
  <2>4. \A c \in 0..(n + 1) : new[c] = IF c = 0 THEN {} ELSE On(new[ns[c].parent], c)
    <3> SUFFICES ASSUME NEW c \in 0..(n + 1)
                 PROVE  new[c] = IF c = 0 THEN {} ELSE On(new[ns[c].parent], c)
      OBVIOUS
    <3> HIDE DEF new
    <3>1. CASE c = 0
      BY <2>1, <3>1
    <3>2. CASE c = n + 1
      BY <1>1, <2>2, <3>2
    <3>3. CASE c \in 1..n
      BY <1>1, <2>3, <3>3
    <3> QED
      BY <1>1, <3>1, <3>2, <3>3
  <2>5. new = [c \in 0..(n + 1) |-> IF c = 0 THEN {} ELSE On(new[ns[c].parent], c)]
    BY <2>4
  <2> QED
    BY <1>3, <2>5
<1>8. OneBranching(ns)
  BY <1>6, <1>7 DEF OneBranching
<1> QED
  BY <1>1, <1>5, <1>6, <1>8

\* The repository before and after a commit, or a step that makes none: older
\* commits and their branches stay, a new one is on top of HEAD.
CommitsStay ==
  /\ OneBranching(objects)'
  /\ Len(objects) \in Nat /\ Len(objects) <= Len(objects')
  /\ \A c \in 1..Len(objects) :
       /\ objects'[c] = objects[c] /\ Branches'[c] = Branches[c]
       /\ c \in Branches[c] /\ objects[c].parent \in 0..Len(objects)

\* Nothing of the tree changes.
LEMMA BranchesStay ==
  ASSUME RepositoryRows, OneBranching(objects), objects' = objects
  PROVE  CommitsStay
<1>1. Len(objects) \in Nat /\ \A c \in 1..Len(objects) : objects[c].parent \in 0..Len(objects)
  <2>1. \A c \in 1..Len(objects) : objects[c] \in Commit /\ objects[c].parent < c
    BY DEF RepositoryRows
  <2> QED
    BY <2>1, LenProperties DEF RepositoryRows, Commit
<1>2. OneBranching(objects)'
  BY DEF OneBranching, IsBranches
<1>3. Branches' = Branches
  BY DEF Branches
<1>4. \A c \in 1..Len(objects) : c \in Branches[c]
  BY <1>1, BranchesAre DEF IsBranches
<1> QED
  BY <1>1, <1>2, <1>3, <1>4 DEF CommitsStay

\* The automatic commit, where something differs.
LEMMA CommitExtends ==
  ASSUME RepositoryRows, OneBranching(objects), AutoCommit, live.files # HeadFiles
  PROVE  /\ CommitsStay
         /\ live'.files = live.files /\ live'.head = Len(objects) + 1
         /\ live'.head \in 1..Len(objects')
         /\ objects'[live'.head].files = live.files /\ objects'[live'.head].parent = live.head
         /\ Len(objects') = Len(objects) + 1
         /\ Branches'[live'.head] = {live'.head} \cup Branches[live.head]
<1> DEFINE new == [files |-> live.files, parent |-> live.head]
           n == Len(objects)
<1>1. /\ n \in Nat /\ live \in [files : Files, head : 1..n]
      /\ \A c \in 1..n : objects[c].parent \in 0..n
  <2>1. \A c \in 1..n : objects[c] \in Commit /\ objects[c].parent < c
    BY DEF RepositoryRows
  <2> QED
    BY <2>1, LenProperties DEF RepositoryRows, Commit
<1>2. new \in Commit
  BY <1>1 DEF Commit
<1>3. objects' = Append(objects, new) /\ live' = [live EXCEPT !.head = Len(objects')]
  BY DEF AutoCommit
<1>4. /\ Len(objects') = n + 1 /\ objects'[n + 1] = new
      /\ \A c \in 1..n : objects'[c] = objects[c]
  BY <1>2, <1>3, AppendProperties DEF RepositoryRows
<1>5. live'.files = live.files /\ live'.head = n + 1 /\ n + 1 \in 1..Len(objects')
  BY <1>1, <1>3, <1>4
<1>6. Extended(objects, objects', live.head)
  BY <1>1, <1>4 DEF Extended
<1>7. IsBranches(Branches, objects)
  BY BranchesAre
<1>8. OneBranching(objects)' /\ IsBranches(Branches, objects)'
  <2>1. OneBranching(objects')
    BY <1>6, <1>7, BranchesExtend
  <2>2. (OneBranching(objects) => IsBranches(Branches, objects))'
    BY BranchesAre, PTL
  <2> QED
    BY <2>1, <2>2
<1>9. /\ \A c \in 0..n : Branches'[c] = Branches[c]
      /\ Branches'[n + 1] = {n + 1} \cup Branches[live.head]
  <2>1. \A a : IsBranches(a, objects') =>
          /\ \A c \in 0..Len(objects) : a[c] = Branches[c]
          /\ a[Len(objects')] = {Len(objects')} \cup Branches[live.head]
    BY <1>6, <1>7, BranchesExtend
  <2>2. IsBranches(Branches', objects')
    BY <1>8
  <2> QED
    BY <1>4, <2>1, <2>2
<1>10. \A c \in 1..n : c \in Branches[c]
  BY <1>1, <1>7 DEF IsBranches
<1> QED
  BY <1>1, <1>4, <1>5, <1>8, <1>9, <1>10 DEF CommitsStay

\* Where a handler stands after its step, with which commit; and what of its
\* locals it still has.
Goes(r, pc, commit, fix) ==
  /\ \A s \in Request \ {r} : handler'[s] = handler[s]
  /\ handler'[r].pc = pc /\ handler'[r].commit = commit /\ handler'[r].fix = fix

SameStep(r) == handler'[r].file = handler[r].file /\ handler'[r].before = handler[r].before
SameEntry(r) == handler'[r].kind = handler[r].kind /\ handler'[r].copy = handler[r].copy

\* What the assignments to a handler's locals come to.
LocalsAssigned(r) ==
  /\ \A pc \in HandlerPc : ActivityGoto(r, pc) =>
       Goes(r, pc, handler[r].commit, handler[r].fix) /\ SameStep(r) /\ SameEntry(r)
  /\ Refuse(r) => Goes(r, "refused", NoCommit, FALSE) /\ handler'[r].before = None
       /\ handler'[r].copy = <<>>
  /\ Answer(r) =>
       /\ Goes(r, "done", handler[r].commit, FALSE) /\ handler'[r].before = None
       /\ handler'[r].copy = <<>> /\ handler'[r].kind = handler[r].kind
  /\ \A commit \in Nat :
       handler' = [handler EXCEPT ![r] = [handler[r] EXCEPT !.pc = "stage", !.refused = FALSE,
         !.commit = commit]] =>
       Goes(r, "stage", commit, handler[r].fix) /\ SameStep(r) /\ SameEntry(r)
  /\ \A f \in File, before \in Request \cup {None} :
       handler' = [handler EXCEPT ![r].pc = "apply", ![r].file = f, ![r].before = before] =>
       /\ Goes(r, "apply", handler[r].commit, handler[r].fix) /\ SameEntry(r)
       /\ handler'[r].file = f /\ handler'[r].before = before
  /\ \A pc \in HandlerPc, commit \in Nat : StepOver(r, pc, commit) =>
       Goes(r, pc, commit, handler[r].fix) /\ handler'[r].before = None /\ SameEntry(r)
  /\ handler' = [handler EXCEPT ![r].pc = "failing", ![r].refused = TRUE, ![r].file = None,
       ![r].before = None] =>
       Goes(r, "failing", handler[r].commit, handler[r].fix) /\ handler'[r].before = None
         /\ SameEntry(r)
  /\ \A fix \in BOOLEAN : Correct(r, fix) =>
       Goes(r, "execute", handler[r].commit, fix) /\ SameStep(r) /\ SameEntry(r)
  /\ handler' = [handler EXCEPT ![r].pc = "write", ![r].copy = history] =>
       /\ Goes(r, "write", handler[r].commit, handler[r].fix) /\ SameStep(r)
       /\ handler'[r].copy = history
  /\ handler' = [handler EXCEPT ![r].pc = "bootstrap", ![r].copy = <<>>] =>
       /\ Goes(r, "bootstrap", handler[r].commit, handler[r].fix) /\ SameStep(r)
       /\ handler'[r].copy = <<>>
  /\ \A pc \in HandlerPc, kind \in Kind :
       \/ handler' = [handler EXCEPT ![r].kind = kind, ![r].pc = pc]
       \/ handler' = [handler EXCEPT ![r].pc = pc, ![r].kind = kind]
       => /\ Goes(r, pc, handler[r].commit, handler[r].fix) /\ SameStep(r)
          /\ handler'[r].copy = handler[r].copy /\ handler'[r].kind = kind

\* Each names the fields it writes and leaves the others.
LEMMA LocalsAre ==
  ASSUME handler \in [Request -> HandlerRow], HistoryRow, NEW r \in Request
  PROVE  LocalsAssigned(r)
<1>1. handler[r] \in HandlerRow /\ history \in Entries /\ <<>> \in Entries
  BY DEF HistoryRow, Entries
<1>2. ASSUME NEW new, handler' = [handler EXCEPT ![r] = new]
      PROVE  handler'[r] = new /\ \A s \in Request \ {r} : handler'[s] = handler[s]
  BY <1>2
<1>3. ASSUME NEW pc \in HandlerPc, ActivityGoto(r, pc)
      PROVE  Goes(r, pc, handler[r].commit, handler[r].fix) /\ SameStep(r) /\ SameEntry(r)
  <2> DEFINE new == [handler[r] EXCEPT !.pc = pc]
  <2>1. /\ new.pc = pc /\ new.commit = handler[r].commit /\ new.fix = handler[r].fix
        /\ new.file = handler[r].file /\ new.before = handler[r].before
        /\ new.kind = handler[r].kind /\ new.copy = handler[r].copy
    BY <1>1 DEF HandlerRow
  <2>2. handler' = [handler EXCEPT ![r] = new]
    BY <1>3 DEF ActivityGoto
  <2> HIDE DEF new
  <2> QED
    BY <1>2, <2>1, <2>2 DEF Goes, SameStep, SameEntry
<1>4. Refuse(r) => Goes(r, "refused", NoCommit, FALSE) /\ handler'[r].before = None
        /\ handler'[r].copy = <<>>
  <2> DEFINE new == [NoLocals EXCEPT !.pc = "refused"]
  <2>1. /\ new.pc = "refused" /\ new.commit = NoCommit /\ new.fix = FALSE
        /\ new.before = None /\ new.copy = <<>>
    BY DEF NoLocals
  <2>2. Refuse(r) => handler' = [handler EXCEPT ![r] = new]
    BY DEF Refuse
  <2> HIDE DEF new
  <2> QED
    BY <1>2, <2>1, <2>2 DEF Goes
<1>5. Answer(r) =>
        /\ Goes(r, "done", handler[r].commit, FALSE) /\ handler'[r].before = None
        /\ handler'[r].copy = <<>> /\ handler'[r].kind = handler[r].kind
  <2> DEFINE new == [NoLocals EXCEPT !.pc = "done", !.kind = handler[r].kind,
        !.commit = handler[r].commit]
  <2>1. /\ new.pc = "done" /\ new.commit = handler[r].commit /\ new.fix = FALSE
        /\ new.before = None /\ new.copy = <<>> /\ new.kind = handler[r].kind
    BY DEF NoLocals
  <2>2. Answer(r) => handler' = [handler EXCEPT ![r] = new]
    BY DEF Answer
  <2> HIDE DEF new
  <2> QED
    BY <1>2, <2>1, <2>2 DEF Goes
<1>6. ASSUME NEW commit \in Nat,
             handler' = [handler EXCEPT ![r] = [handler[r] EXCEPT !.pc = "stage",
               !.refused = FALSE, !.commit = commit]]
      PROVE  Goes(r, "stage", commit, handler[r].fix) /\ SameStep(r) /\ SameEntry(r)
  <2> DEFINE new == [handler[r] EXCEPT !.pc = "stage", !.refused = FALSE, !.commit = commit]
  <2>1. /\ new.pc = "stage" /\ new.commit = commit /\ new.fix = handler[r].fix
        /\ new.file = handler[r].file /\ new.before = handler[r].before
        /\ new.kind = handler[r].kind /\ new.copy = handler[r].copy
    BY <1>1 DEF HandlerRow
  <2>2. handler' = [handler EXCEPT ![r] = new]
    BY <1>6
  <2> HIDE DEF new
  <2> QED
    BY <1>2, <2>1, <2>2 DEF Goes, SameStep, SameEntry
<1>7. ASSUME NEW f \in File, NEW before \in Request \cup {None},
             handler' = [handler EXCEPT ![r].pc = "apply", ![r].file = f, ![r].before = before]
      PROVE  /\ Goes(r, "apply", handler[r].commit, handler[r].fix) /\ SameEntry(r)
             /\ handler'[r].file = f /\ handler'[r].before = before
  <2> DEFINE new == [handler[r] EXCEPT !.pc = "apply", !.file = f, !.before = before]
  <2>1. /\ new.pc = "apply" /\ new.commit = handler[r].commit /\ new.fix = handler[r].fix
        /\ new.file = f /\ new.before = before
        /\ new.kind = handler[r].kind /\ new.copy = handler[r].copy
    BY <1>1 DEF HandlerRow
  <2>2. handler' = [handler EXCEPT ![r] = new]
    BY <1>1, <1>7 DEF HandlerRow
  <2> HIDE DEF new
  <2> QED
    BY <1>2, <2>1, <2>2 DEF Goes, SameEntry
<1>8. ASSUME NEW pc \in HandlerPc, NEW commit \in Nat, StepOver(r, pc, commit)
      PROVE  Goes(r, pc, commit, handler[r].fix) /\ handler'[r].before = None /\ SameEntry(r)
  <2> DEFINE new == [handler[r] EXCEPT !.pc = pc, !.commit = commit, !.file = None, !.before = None]
  <2>1. /\ new.pc = pc /\ new.commit = commit /\ new.fix = handler[r].fix /\ new.before = None
        /\ new.kind = handler[r].kind /\ new.copy = handler[r].copy
    BY <1>1 DEF HandlerRow
  <2>2. handler' = [handler EXCEPT ![r] = new]
    BY <1>1, <1>8 DEF HandlerRow, StepOver
  <2> HIDE DEF new
  <2> QED
    BY <1>2, <2>1, <2>2 DEF Goes, SameEntry
<1>9. ASSUME handler' = [handler EXCEPT ![r].pc = "failing", ![r].refused = TRUE, ![r].file = None,
               ![r].before = None]
      PROVE  Goes(r, "failing", handler[r].commit, handler[r].fix) /\ handler'[r].before = None
               /\ SameEntry(r)
  <2> DEFINE new == [handler[r] EXCEPT !.pc = "failing", !.refused = TRUE, !.file = None,
        !.before = None]
  <2>1. /\ new.pc = "failing" /\ new.commit = handler[r].commit /\ new.fix = handler[r].fix
             /\ new.before = None
        /\ new.kind = handler[r].kind /\ new.copy = handler[r].copy
    BY <1>1 DEF HandlerRow
  <2>2. handler' = [handler EXCEPT ![r] = new]
    BY <1>1, <1>9 DEF HandlerRow
  <2> HIDE DEF new
  <2> QED
    BY <1>2, <2>1, <2>2 DEF Goes, SameEntry
<1>10. ASSUME NEW fix \in BOOLEAN, Correct(r, fix)
       PROVE  Goes(r, "execute", handler[r].commit, fix) /\ SameStep(r) /\ SameEntry(r)
  <2> DEFINE new == [handler[r] EXCEPT !.pc = "execute", !.corrections = @ + 1, !.fix = fix]
  <2>1. /\ new.pc = "execute" /\ new.commit = handler[r].commit /\ new.fix = fix
        /\ new.file = handler[r].file /\ new.before = handler[r].before
        /\ new.kind = handler[r].kind /\ new.copy = handler[r].copy
    BY <1>1 DEF HandlerRow
  <2>2. handler' = [handler EXCEPT ![r] = new]
    BY <1>1, <1>10 DEF HandlerRow, Correct
  <2> HIDE DEF new
  <2> QED
    BY <1>2, <2>1, <2>2 DEF Goes, SameStep, SameEntry
<1>11. ASSUME handler' = [handler EXCEPT ![r].pc = "write", ![r].copy = history]
       PROVE  /\ Goes(r, "write", handler[r].commit, handler[r].fix) /\ SameStep(r)
              /\ handler'[r].copy = history
  <2> DEFINE new == [handler[r] EXCEPT !.pc = "write", !.copy = history]
  <2>1. /\ new.pc = "write" /\ new.commit = handler[r].commit /\ new.fix = handler[r].fix
        /\ new.file = handler[r].file /\ new.before = handler[r].before /\ new.copy = history
    BY <1>1 DEF HandlerRow
  <2>2. handler' = [handler EXCEPT ![r] = new]
    BY <1>1, <1>11 DEF HandlerRow
  <2> HIDE DEF new
  <2> QED
    BY <1>2, <2>1, <2>2 DEF Goes, SameStep
<1>12. ASSUME handler' = [handler EXCEPT ![r].pc = "bootstrap", ![r].copy = <<>>]
       PROVE  /\ Goes(r, "bootstrap", handler[r].commit, handler[r].fix) /\ SameStep(r)
              /\ handler'[r].copy = <<>>
  <2> DEFINE new == [handler[r] EXCEPT !.pc = "bootstrap", !.copy = <<>>]
  <2>1. /\ new.pc = "bootstrap" /\ new.commit = handler[r].commit /\ new.fix = handler[r].fix
        /\ new.file = handler[r].file /\ new.before = handler[r].before /\ new.copy = <<>>
    BY <1>1 DEF HandlerRow
  <2>2. handler' = [handler EXCEPT ![r] = new]
    BY <1>1, <1>12 DEF HandlerRow
  <2> HIDE DEF new
  <2> QED
    BY <1>2, <2>1, <2>2 DEF Goes, SameStep
<1>13. ASSUME NEW pc \in HandlerPc, NEW kind \in Kind,
              \/ handler' = [handler EXCEPT ![r].kind = kind, ![r].pc = pc]
              \/ handler' = [handler EXCEPT ![r].pc = pc, ![r].kind = kind]
       PROVE  /\ Goes(r, pc, handler[r].commit, handler[r].fix) /\ SameStep(r)
              /\ handler'[r].copy = handler[r].copy /\ handler'[r].kind = kind
  <2> DEFINE new == [handler[r] EXCEPT !.kind = kind, !.pc = pc]
  <2>1. /\ new.pc = pc /\ new.commit = handler[r].commit /\ new.fix = handler[r].fix
        /\ new.file = handler[r].file /\ new.before = handler[r].before
        /\ new.kind = kind /\ new.copy = handler[r].copy
    BY <1>1 DEF HandlerRow
  <2>2. handler' = [handler EXCEPT ![r] = new]
    BY <1>1, <1>13 DEF HandlerRow
  <2> HIDE DEF new
  <2> QED
    BY <1>2, <2>1, <2>2 DEF Goes, SameStep
<1> QED
  BY <1>3, <1>4, <1>5, <1>6, <1>7, <1>8, <1>9, <1>10, <1>11, <1>12, <1>13 DEF LocalsAssigned

\* The entry is the first, and those that were read follow (updateProject).
LEMMA EntryIsFirst ==
  ASSUME NEW copy \in Seq(Request), NEW r \in Request
  PROVE  /\ Len(WithEntry(copy, r)) \in 1..MaxHistory
         /\ Len(WithEntry(copy, r)) = IF Len(copy) + 1 > MaxHistory THEN MaxHistory
              ELSE Len(copy) + 1
         /\ WithEntry(copy, r)[1] = r
         /\ \A i \in 2..Len(WithEntry(copy, r)) : WithEntry(copy, r)[i] = copy[i - 1]
<1> DEFINE entries == <<r>> \o copy
           last == IF Len(entries) > MaxHistory THEN MaxHistory ELSE Len(entries)
<1>1. <<r>> \in Seq(Request) /\ Len(<<r>>) = 1 /\ <<r>>[1] = r /\ Len(copy) \in Nat
  BY LenProperties
<1>2. /\ entries \in Seq(Request) /\ Len(entries) = Len(copy) + 1
      /\ entries[1] = r /\ \A i \in 2..(Len(copy) + 1) : entries[i] = copy[i - 1]
  BY <1>1, ConcatProperties
<1>3. last \in 1..Len(entries) /\ last \in 1..MaxHistory
  BY <1>1, <1>2, ProjectActivityAssumption
<1>4. WithEntry(copy, r) = SubSeq(entries, 1, last)
  BY DEF WithEntry, FirstOf
<1>5. last = IF Len(copy) + 1 > MaxHistory THEN MaxHistory ELSE Len(copy) + 1
  BY <1>2
<1> HIDE DEF entries, last
<1>6. /\ Len(SubSeq(entries, 1, last)) = last
      /\ \A i \in 1..last : SubSeq(entries, 1, last)[i] = entries[i]
  BY <1>2, <1>3, SubSeqProperties
<1> QED
  BY <1>1, <1>2, <1>3, <1>4, <1>5, <1>6

\* A list goes on telling of r when one that came after r's answer is put before it,
\* and tells of the one put before it.
LEMMA TellsOn ==
  ASSUME NEW copy \in Seq(Request), NEW s \in Request, NEW r \in Request
  PROVE  /\ TellsOf(WithEntry(copy, s), s)
         /\ TellsOf(copy, r) /\ r \in met[s].answered => TellsOf(WithEntry(copy, s), r)
<1> DEFINE new == WithEntry(copy, s)
           n == Len(copy)
<1>1. /\ Len(new) \in 1..MaxHistory /\ n \in Nat /\ MaxHistory \in Nat
      /\ Len(new) = IF n + 1 > MaxHistory THEN MaxHistory ELSE n + 1
      /\ new[1] = s /\ \A i \in 2..Len(new) : new[i] = copy[i - 1]
  BY EntryIsFirst, LenProperties, ProjectActivityAssumption
<1> HIDE DEF new
<1>2. TellsOf(new, s)
  BY <1>1 DEF TellsOf
<1>3. ASSUME TellsOf(copy, r), r \in met[s].answered PROVE TellsOf(new, r)
  <2>1. ASSUME NEW i \in 1..n, \A j \in 1..(i - 1) : r \in met[copy[j]].answered,
               NEW k \in 1..Len(new), k <= i
        PROVE  r \in met[new[k]].answered
    <3>1. CASE k = 1
      BY <1>1, <1>3, <3>1
    <3>2. CASE k # 1
      <4>1. k \in 2..Len(new) /\ k - 1 \in 1..(i - 1)
        BY <1>1, <2>1, <3>2
      <4> QED
        BY <1>1, <2>1, <4>1
    <3> QED
      BY <3>1, <3>2
  <2>2. CASE \E i \in 1..n : copy[i] = r /\ \A j \in 1..(i - 1) : r \in met[copy[j]].answered
    <3>1. PICK i \in 1..n : copy[i] = r /\ \A j \in 1..(i - 1) : r \in met[copy[j]].answered
      BY <2>2
    <3>2. CASE i + 1 <= Len(new)
      <4>1. i + 1 \in 1..Len(new) /\ i + 1 \in 2..Len(new) /\ (i + 1) - 1 = i
        BY <1>1, <3>2
      <4>2. new[i + 1] = r
        BY <1>1, <3>1, <4>1
      <4>3. \A k \in 1..((i + 1) - 1) : r \in met[new[k]].answered
        BY <1>1, <2>1, <3>1, <4>1
      <4> QED
        BY <4>1, <4>2, <4>3 DEF TellsOf
    <3>3. CASE i + 1 > Len(new)
      <4>1. Len(new) = MaxHistory /\ \A k \in 1..Len(new) : k <= i
        BY <1>1, <3>3
      <4> QED
        BY <2>1, <3>1, <4>1 DEF TellsOf
    <3> QED
      BY <1>1, <3>2, <3>3
  <2>3. CASE n = MaxHistory /\ \A i \in 1..n : r \in met[copy[i]].answered
    <3>1. Len(new) = MaxHistory /\ \A k \in 2..Len(new) : k - 1 \in 1..n
      BY <1>1, <2>3
    <3>2. \A k \in 1..Len(new) : k = 1 \/ k \in 2..Len(new)
      BY <1>1
    <3>3. \A k \in 1..Len(new) : r \in met[new[k]].answered
      BY <1>1, <1>3, <2>3, <3>1, <3>2
    <3> QED
      BY <3>1, <3>3 DEF TellsOf
  <2> QED
    BY <1>3, <2>2, <2>3 DEF TellsOf
<1> QED
  BY <1>2, <1>3 DEF new

\* A request that met no other is under way by itself.
LEMMA AloneIsAlone ==
  ASSUME ActivityInv, NEW r \in UnderWay, Alone(r), NEW s \in UnderWay
  PROVE  s = r
BY DEF ActivityInv, AllMet, Alone, Met, UnderWay

\* The history of a handler's step: it is left alone, or rewritten from the copy
\* with the entry first (updateProject); what is copied is what was read.
LEMMA HistoryGoesOn ==
  ASSUME ToldInv, NEW h \in UnderWay, met' = met,
         \A s \in Request \ {h} : handler'[s] = handler[s], handler'[h].pc # "none",
         handler'[h].copy \in {handler[h].copy, history, <<>>},
         \/ /\ history' = history
            /\ handler'[h].pc = "done" => handler'[h].kind = "commit"
            /\ handler'[h].pc = "write" => h = Creator \/ handler'[h].copy = history
         \/ /\ handler[h].pc = "write" /\ history' = WithEntry(handler[h].copy, h)
            /\ handler'[h].pc # "write"
  PROVE  HistoryInv'
<1> USE ProjectActivityAssumption DEF ToldInv, HistoryInv
<1>1. /\ UnderWay \subseteq Request /\ UnderWay' \subseteq UnderWay
      /\ handler[h].pc \notin {"none", "done", "refused"}
      /\ Arrived' = Arrived /\ h \in Arrived
      /\ handler[h].copy \in Seq(Request) /\ history \in Seq(Request)
  BY DEF UnderWay, Arrived, ActivityInv, ActivityRows, HandlerRow, Entries, HistoryRow
<1>2. OnlyArrived'
  <2>1. \A i \in 1..Len(handler'[h].copy) : handler'[h].copy[i] \in Arrived
    <3>1. CASE handler'[h].copy = <<>>
      BY <3>1
    <3>2. CASE handler'[h].copy \in {handler[h].copy, history}
      BY <1>1, <3>2 DEF OnlyArrived
    <3> QED
      BY <3>1, <3>2
  <2>2. \A r \in Request : \A i \in 1..Len(handler'[r].copy) : handler'[r].copy[i] \in Arrived
    BY <2>1 DEF OnlyArrived
  <2>3. \A i \in 1..Len(history') : history'[i] \in Arrived
    <3>1. CASE history' = history
      BY <3>1 DEF OnlyArrived
    <3>2. CASE history' = WithEntry(handler[h].copy, h)
      <4> DEFINE new == WithEntry(handler[h].copy, h)
      <4>1. /\ Len(new) \in Nat /\ new[1] = h
            /\ \A i \in 2..Len(new) : new[i] = handler[h].copy[i - 1]
                                        /\ i - 1 \in 1..Len(handler[h].copy)
        <5>1. Len(handler[h].copy) \in Nat
          BY <1>1, LenProperties
        <5>2. /\ Len(new) \in 1..MaxHistory /\ new[1] = h
              /\ Len(new) = IF Len(handler[h].copy) + 1 > MaxHistory THEN MaxHistory
                   ELSE Len(handler[h].copy) + 1
              /\ \A i \in 2..Len(new) : new[i] = handler[h].copy[i - 1]
          BY <1>1, EntryIsFirst
        <5> HIDE DEF new
        <5> QED
          BY <5>1, <5>2
      <4> HIDE DEF new
      <4>2. \A i \in 1..Len(new) : i = 1 \/ i \in 2..Len(new)
        BY <4>1
      <4>3. \A i \in 1..Len(new) : new[i] \in Arrived
        BY <1>1, <4>1, <4>2 DEF OnlyArrived
      <4> QED
        BY <3>2, <4>3 DEF new
    <3> QED
      BY <3>1, <3>2
  <2> QED
    BY <1>1, <2>2, <2>3 DEF OnlyArrived
<1>3. DoneKnown'
  <2> SUFFICES ASSUME NEW r \in Request, NEW s \in UnderWay', handler'[r].pc = "done"
               PROVE  Met(r, s) \/ r \in met[s].answered
    BY DEF DoneKnown, Met
  <2>1. s \in UnderWay
    BY <1>1
  <2>2. CASE r = h
    <3>1. r # s
      BY DEF UnderWay
    <3> QED
      BY <2>1, <2>2, <3>1 DEF ActivityInv, AllMet
  <2>3. CASE r # h
    BY <2>1, <2>3 DEF DoneKnown
  <2> QED
    BY <2>2, <2>3
<1>4. HistoryTells'
  <2> SUFFICES ASSUME NEW r \in Request, handler'[r].pc = "done", Alone(r),
                      handler'[r].kind # "commit"
               PROVE  /\ TellsOf(history', r)
                      /\ \A s \in Request : handler'[s].pc = "write" => TellsOf(handler'[s].copy, r)
    BY DEF HistoryTells, Alone, Met, TellsOf
  <2>1. CASE r = h
    <3>1. history' = WithEntry(handler[h].copy, h)
      BY <2>1
    <3>2. TellsOf(history', r)
      BY <1>1, <2>1, <3>1, TellsOn
    <3>3. ASSUME NEW s \in Request, handler'[s].pc = "write" PROVE FALSE
      <4>1. s \in UnderWay'
        BY <3>3 DEF UnderWay
      <4>2. s = h
        BY <1>1, <2>1, <4>1, AloneIsAlone
      <4> QED
        BY <2>1, <3>3, <4>2
    <3> QED
      BY <3>2, <3>3
  <2>2. CASE r # h
    <3>1. /\ handler[r].pc = "done" /\ handler[r].kind # "commit"
          /\ TellsOf(history, r)
          /\ \A s \in Request : handler[s].pc = "write" => TellsOf(handler[s].copy, r)
      BY <2>2 DEF HistoryTells
    <3>2. r \in met[h].answered
      BY <1>1, <2>2, <3>1 DEF DoneKnown, Alone, Met
    <3>3. TellsOf(history', r)
      <4>1. CASE history' = history
        BY <3>1, <4>1
      <4>2. CASE handler[h].pc = "write" /\ history' = WithEntry(handler[h].copy, h)
        BY <1>1, <3>1, <3>2, <4>2, TellsOn
      <4> QED
        BY <4>1, <4>2
    <3>4. handler'[h].pc = "write" => TellsOf(handler'[h].copy, r)
      <4>1. h # Creator
        BY <3>2 DEF OnlyArrived
      <4> QED
        BY <3>1, <4>1
    <3> QED
      BY <3>1, <3>3, <3>4
  <2> QED
    BY <2>1, <2>2
<1> QED
  BY <1>2, <1>3, <1>4

\* A commit that stays keeps its files and those of its parent.
LEMMA OwnStays ==
  ASSUME CommitsStay, NEW r \in Request, met'[r].dirty = met[r].dirty, NEW c \in 1..Len(objects),
         Own(r, c)
  PROVE  Own(r, c)'
<1>1. objects'[c] = objects[c] /\ objects[c].parent \in 1..Len(objects)
  BY DEF CommitsStay, Own, NoCommit
<1>2. objects'[objects[c].parent] = objects[objects[c].parent]
  BY <1>1 DEF CommitsStay
<1> QED
  BY <1>1, <1>2 DEF Own

\* The tree and the branch after a handler's step: HEAD stays, goes on to a commit
\* on top of it, or back to the handler's commit; and if the handler met no other
\* it finds all clean (CleanFor), by itself.
LEMMA TreeGoesOn ==
  ASSUME ToldInv, ActivityInv', NEW h \in UnderWay, met' = met, CommitsStay,
         \A s \in Request \ {h} : handler'[s] = handler[s], handler'[h].pc # "none",
         handler'[h].before \in Arrived \cup {None},
         \A f \in File : live'.files[f] \in Arrived \cup {None},
         \A c \in 1..Len(objects') : c \in 1..Len(objects) \/ objects'[c].files = live.files,
         handler'[h].commit \in {handler[h].commit, live.head, live'.head, NoCommit},
         \/ live'.head = live.head
         \/ live'.head = handler[h].commit /\ handler[h].commit # NoCommit
         \/ Branches'[live'.head] = {live'.head} \cup Branches[live.head],
         handler'[h].pc = "done" =>
           \/ handler'[h].commit = NoCommit
           \/ handler[h].pc = "write" /\ live'.head = live.head
                /\ handler'[h].commit = handler[h].commit,
         h \in UnderWay' /\ Alone(h) => CleanFor(h)'
  PROVE  TreeInv'
<1> USE ProjectActivityAssumption DEF ToldInv, TreeInv
<1>1. /\ UnderWay \subseteq Request /\ UnderWay' \subseteq UnderWay
      /\ handler[h].pc \notin {"none", "done", "refused"}
      /\ Arrived' = Arrived /\ h \in Arrived
      /\ live.head \in 1..Len(objects)
      /\ \A r \in Request : handler[r].commit \in 0..Len(objects)
      /\ \A r \in Request : Alone(r)' = Alone(r)
  <2>1. \A r \in Request : handler[r].commit \in Nat /\ handler[r].commit <= Len(objects)
    BY DEF ActivityInv, ActivityRows, HandlerRow, HandlersKnow, HandlerKnows
  <2>2. \A r \in Request : Alone(r)' = Alone(r)
    BY DEF Alone, Met
  <2>3. live.head \in 1..Len(objects)
    BY DEF ActivityInv, RepositoryRows
  <2>4. /\ UnderWay \subseteq Request /\ UnderWay' \subseteq UnderWay
        /\ handler[h].pc \notin {"none", "done", "refused"}
        /\ Arrived' = Arrived /\ h \in Arrived
    BY DEF UnderWay, Arrived
  <2> QED
    BY <2>1, <2>2, <2>3, <2>4 DEF CommitsStay
<1>2. FilesOfArrived'
  <2>1. \A f \in File : (live'.files[f] \in Arrived \cup {None})
                          /\ (live.files[f] \in Arrived \cup {None})
    BY DEF FilesOfArrived
  <2>2. ASSUME NEW c \in 1..Len(objects'), NEW f \in File
        PROVE  objects'[c].files[f] \in Arrived \cup {None}
    BY <2>1 DEF FilesOfArrived, CommitsStay
  <2>3. \A r \in Request : handler'[r].before \in Arrived \cup {None}
    BY DEF FilesOfArrived
  <2>4. handler'[Creator].pc # "none"
    BY <1>1 DEF ActivityInv, CreatorFirst
  <2> QED
    BY <1>1, <2>1, <2>2, <2>3, <2>4 DEF FilesOfArrived
<1>3. AloneClean'
  <2> SUFFICES ASSUME NEW r \in UnderWay', Alone(r) PROVE CleanFor(r)'
    BY <1>1 DEF AloneClean
  <2>1. r = h
    BY <1>1, AloneIsAlone
  <2> QED
    BY <2>1
<1>4. CommitsKept'
  <2> SUFFICES ASSUME NEW r \in Request, handler'[r].pc = "done", Alone(r),
                      handler'[r].commit # NoCommit
               PROVE  /\ Own(r, handler[r].commit)'
                      /\ handler'[r].commit \in Branches'[live'.head]
                      /\ \A s \in UnderWay' :
                           handler'[s].commit # NoCommit
                             => handler'[r].commit \in Branches'[handler'[s].commit]
    BY <1>1 DEF CommitsKept
  <2>1. CASE r = h
    <3>0. PICK c \in 0..Len(objects) : c = handler[h].commit
      BY <1>1
    <3>1. handler[h].pc = "write" /\ live'.head = live.head /\ handler'[h].commit = c
            /\ c # NoCommit
      BY <2>1, <3>0
    <3>2. CleanFor(h) /\ HasCommitted(h)
      BY <1>1, <2>1, <3>1 DEF AloneClean, HasCommitted
    <3>3. Own(h, c) /\ c = live.head /\ c \in 1..Len(objects)
      BY <1>1, <3>0, <3>1, <3>2 DEF CleanFor
    <3>4. Own(h, c)'
      BY <1>1, <3>3, OwnStays
    <3>5. c \in Branches'[live'.head]
      BY <3>1, <3>3 DEF CommitsStay
    <3>6. h \notin UnderWay' /\ \A s \in UnderWay' : s = h
      BY <1>1, <2>1, AloneIsAlone DEF UnderWay
    <3> QED
      BY <2>1, <3>1, <3>4, <3>5, <3>6
  <2>2. CASE r # h
    <3> DEFINE c == handler[r].commit
    <3>1. /\ handler'[r] = handler[r] /\ c \in 1..Len(objects)
          /\ Own(r, c) /\ c \in Branches[live.head]
          /\ \A s \in UnderWay : handler[s].commit # NoCommit => c \in Branches[handler[s].commit]
      BY <1>1, <2>2 DEF CommitsKept, NoCommit
    <3>2. Own(r, c)'
      BY <3>1, OwnStays
    <3>3. c \in Branches'[live.head] /\ \A s \in UnderWay : handler[s].commit # NoCommit
            => c \in Branches'[handler[s].commit]
      BY <1>1, <3>1 DEF CommitsStay, NoCommit
    <3>4. c \in Branches'[live'.head]
      BY <3>1, <3>3
    <3>5. ASSUME NEW s \in UnderWay', handler'[s].commit # NoCommit
          PROVE  c \in Branches'[handler'[s].commit]
      BY <1>1, <3>3, <3>4, <3>5
    <3> QED
      BY <3>1, <3>2, <3>4, <3>5
  <2> QED
    BY <2>1, <2>2
<1> QED
  BY <1>2, <1>3, <1>4 DEF CommitsStay

\* Other handlers stand as they did.
LEMMA OthersStand ==
  ASSUME HandlersStand, NEW h \in Request, HandlerStands(h)',
         \A s \in Request \ {h} : handler'[s] = handler[s] /\ rowStatus'[s] = rowStatus[s]
  PROVE  HandlersStand'
BY DEF HandlersStand, HandlerStands

\* The handler's commit stays its own, or is HEAD's when it enters a run before
\* which it had none (executeLoop).
CommitStands(h) ==
  \/ handler'[h].commit = handler[h].commit /\ (HasCommitted(h)' => HasCommitted(h))
  \/ /\ handler'[h].commit = live.head
     /\ HasCommitted(h)' => HasCommitted(h) /\ handler[h].commit # NoCommit

\* Where no file changes and nothing is staged, all stays clean.
LEMMA StaysClean ==
  ASSUME ToldInv, NEW h \in UnderWay, Alone(h), UNCHANGED <<tree, met>>,
         handler'[h].pc \notin {"apply", "commit"}, CommitStands(h)
  PROVE  CleanFor(h)'
<1>1. CleanFor(h) /\ objects' = objects /\ live' = live
  BY DEF ToldInv, TreeInv, AloneClean, tree
<1>2. /\ \A f \in File : \A x : Expected(h, f, x)' = Expected(h, f, x)
      /\ \A c : Own(h, c) => Own(h, c)'
      /\ HeadFiles' = HeadFiles
  BY <1>1 DEF Expected, Own, HeadFiles
<1>3. \A f \in File : Expected(h, f, live.files[f])'
  BY <1>1, <1>2 DEF CleanFor, Expected, HeadFiles
<1>4. (\E f \in File : HeadFiles[f] = h)' => Own(h, live.head)'
  BY <1>1, <1>2 DEF CleanFor, Own
<1>5. handler'[h].commit # NoCommit => handler'[h].commit = live'.head
  BY <1>1 DEF CleanFor, CommitStands
<1>6. HasCommitted(h)' /\ handler'[h].commit # NoCommit => Own(h, handler[h].commit)'
  <2> SUFFICES ASSUME HasCommitted(h)', handler'[h].commit # NoCommit
               PROVE  Own(h, handler[h].commit)'
    OBVIOUS
  <2>1. Own(h, live.head) /\ handler'[h].commit = live.head
    BY <1>1, <1>5 DEF CleanFor, CommitStands
  <2> QED
    BY <1>1, <2>1 DEF Own
<1> QED
  BY <1>3, <1>4, <1>5, <1>6 DEF CleanFor

\* A step that leaves files, commits and history alone.
LEMMA QuietlyTold ==
  ASSUME ToldInv, ActivityInv', NEW h \in UnderWay, UNCHANGED <<history, tree, met>>,
         \A s \in Request \ {h} : handler'[s] = handler[s] /\ rowStatus'[s] = rowStatus[s],
         handler'[h].pc \notin {"none", "apply", "commit", "write", "done"},
         handler'[h].before \in {handler[h].before, None},
         handler'[h].copy \in {handler[h].copy, <<>>},
         HandlerStands(h)',
         handler'[h].pc = "refused" \/ CommitStands(h),
         handler'[h].pc = "refused" => handler'[h].commit = NoCommit
  PROVE  ToldInv'
<1>1. /\ h \in Request /\ RepositoryRows /\ OneBranching(objects) /\ FilesOfArrived
      /\ objects' = objects /\ live' = live
  BY DEF UnderWay, ToldInv, ActivityInv, TreeInv, tree
<1>2. CommitsStay
  BY <1>1, BranchesStay
<1>3. HandlersStand'
  BY <1>1, OthersStand DEF ToldInv
<1>4. HistoryInv'
  BY HistoryGoesOn
<1>5. h \in UnderWay' /\ Alone(h) => CleanFor(h)'
  BY StaysClean DEF UnderWay
<1>6. handler'[h].commit \in {handler[h].commit, live.head, live'.head, NoCommit}
  BY DEF CommitStands
<1>7. handler'[h].before \in Arrived \cup {None}
        /\ \A f \in File : live'.files[f] \in Arrived \cup {None}
  BY <1>1 DEF FilesOfArrived
<1>8. TreeInv'
  BY <1>1, <1>2, <1>5, <1>6, <1>7, TreeGoesOn
<1> QED
  BY <1>3, <1>4, <1>8 DEF ToldInv

\* Statements that write the run's row or nothing but the handler's locals.
LEMMA QuietStepsTell ==
  ASSUME ToldInv, NEW h \in Request,
         \/ ConsumeRateLimit(h)
         \/ InsertRun(h)
         \/ EnterProjectRun(h)
         \/ ToolFails(h)
         \/ EndProjectRun(h)
         \/ QueueInvariantCorrection(h)
         \/ QueueValidationCorrection(h)
         \/ KeepRefusedCorrection(h)
         \/ DeriveResult(h)
  PROVE  ToldInv'
<1>1. /\ handler \in [Request -> HandlerRow] /\ rowStatus \in [Request -> RowStatus]
      /\ handler[h] \in HandlerRow /\ HistoryRow /\ HandlerKnows(h) /\ HandlerStands(h)
      /\ live.head \in Nat /\ handler[h].commit \in Nat
  BY LenProperties DEF ToldInv, ActivityInv, ActivityRows, HandlersKnow, HandlersStand,
     RepositoryRows, HandlerRow
<1>2. ActivityInv'
  BY QuietStepsKeepInv DEF ToldInv
<1>3. h \in UnderWay
  BY DEF ConsumeRateLimit, InsertRun, EnterProjectRun, ToolFails, EndProjectRun,
     QueueInvariantCorrection,
     QueueValidationCorrection, KeepRefusedCorrection, DeriveResult, Correct, At, UnderWay
<1>4. LocalsAssigned(h)
  BY <1>1, LocalsAre
<1>5. /\ UNCHANGED <<history, tree, met>>
      /\ \A s \in Request \ {h} : rowStatus'[s] = rowStatus[s]
  BY <1>1 DEF ConsumeRateLimit, InsertRun, EnterProjectRun, ToolFails, EndProjectRun,
     QueueInvariantCorrection,
     QueueValidationCorrection, KeepRefusedCorrection, DeriveResult, Status, ghosts
<1> DEFINE Quiet ==
             /\ \A s \in Request \ {h} : handler'[s] = handler[s]
             /\ handler'[h].pc \notin {"none", "sweep", "apply", "commit", "write", "done"}
             /\ handler'[h].before \in {handler[h].before, None}
             /\ handler'[h].copy \in {handler[h].copy, <<>>}
           Refused == handler'[h].pc = "refused" /\ handler'[h].commit = NoCommit
             /\ handler'[h].fix = FALSE
<1>6. Refuse(h) => Quiet /\ Refused
  BY <1>4 DEF LocalsAssigned, Goes
<1>7. ASSUME NEW pc \in HandlerPc \ {"none", "sweep", "apply", "commit", "write", "done",
               "refused"},
             ActivityGoto(h, pc)
      PROVE  /\ Quiet /\ handler'[h].pc = pc
             /\ handler'[h].commit = handler[h].commit /\ handler'[h].fix = handler[h].fix
  BY <1>4, <1>7 DEF LocalsAssigned, Goes, SameStep, SameEntry
<1>8. ASSUME NEW fix \in BOOLEAN, Correct(h, fix)
      PROVE  /\ Quiet /\ handler'[h].pc = "execute"
             /\ handler'[h].commit = handler[h].commit /\ handler'[h].fix = fix
  BY <1>4, <1>8 DEF LocalsAssigned, Goes, SameStep, SameEntry
<1>9. ASSUME Quiet, HandlerStands(h)', Refused \/ (CommitStands(h) /\ handler'[h].pc # "refused")
      PROVE  ToldInv'
  BY <1>2, <1>3, <1>5, <1>9, QuietlyTold
<1> HIDE DEF Quiet
<1>10. CASE ConsumeRateLimit(h)
  <2>1. CASE Refuse(h)
    BY <1>6, <1>9, <2>1 DEF HandlerStands
  <2>2. CASE ActivityGoto(h, "insert")
    <3>1. rowStatus' = rowStatus /\ handler[h].pc = "limit"
      BY <1>10 DEF ConsumeRateLimit, At
    <3>2. /\ Quiet /\ handler'[h].pc = "insert"
          /\ handler'[h].commit = handler[h].commit /\ handler'[h].fix = handler[h].fix
      BY <1>7, <2>2 DEF HandlerPc
    <3>3. CommitStands(h) /\ HandlerStands(h)'
      BY <1>1, <3>1, <3>2 DEF CommitStands, HasCommitted, HandlerStands
    <3> QED
      BY <1>9, <3>2, <3>3
  <2> QED
    BY <1>10, <2>1, <2>2 DEF ConsumeRateLimit
<1>11. CASE InsertRun(h)
  <2>1. rowStatus'[h] = "queued"
    BY <1>1, <1>11 DEF InsertRun, Status
  <2>2. /\ Quiet /\ handler'[h].pc = "execute"
        /\ handler'[h].commit = handler[h].commit /\ handler'[h].fix = handler[h].fix
    BY <1>7, <1>11 DEF HandlerPc, InsertRun
  <2>3. CommitStands(h) /\ HandlerStands(h)'
    BY <1>1, <2>1, <2>2 DEF CommitStands, HasCommitted, HandlerStands
  <2> QED
    BY <1>9, <2>2, <2>3
<1>12. CASE EnterProjectRun(h)
  <2>1. PICK commit \in Nat : commit = IF rowStatus[h] = "queued" THEN live.head
          ELSE handler[h].commit
    BY <1>1
  <2>2. handler' = [handler EXCEPT ![h] = [handler[h] EXCEPT !.pc = "stage", !.refused = FALSE,
          !.commit = commit]]
    BY <1>1, <1>12, <2>1 DEF EnterProjectRun, HandlerRow
  <2>3. rowStatus'[h] = "running" /\ handler[h].pc = "execute"
    BY <1>1, <1>12 DEF EnterProjectRun, Status, At
  <2>4. /\ Quiet /\ handler'[h].pc = "stage"
        /\ handler'[h].commit = commit /\ handler'[h].fix = handler[h].fix
    BY <1>4, <2>2 DEF LocalsAssigned, Goes, SameStep, SameEntry, Quiet
  <2>5. live.head # NoCommit
    BY DEF ToldInv, ActivityInv, RepositoryRows, NoCommit
  <2>6. CommitStands(h) /\ HandlerStands(h)'
    BY <1>1, <2>1, <2>3, <2>4, <2>5 DEF CommitStands, HasCommitted, HandlerStands
  <2> QED
    BY <1>9, <2>4, <2>6
<1>13. CASE ToolFails(h)
  <2>1. rowStatus' = rowStatus /\ handler[h].pc = "stage"
    BY <1>13 DEF ToolFails, At
  <2>2. /\ Quiet /\ handler'[h].pc = "failing"
        /\ handler'[h].commit = handler[h].commit /\ handler'[h].fix = handler[h].fix
    BY <1>7, <1>13 DEF HandlerPc, ToolFails
  <2>3. CommitStands(h) /\ HandlerStands(h)'
    BY <1>1, <2>1, <2>2 DEF CommitStands, HasCommitted, HandlerStands
  <2> QED
    BY <1>9, <2>2, <2>3
<1>14. CASE EndProjectRun(h)
  <2>1. \/ rowStatus'[h] = "complete" /\ handler[h].pc = "committed"
        \/ rowStatus'[h] = "failed"
    BY <1>1, <1>14 DEF EndProjectRun, Status, At
  <2>2. /\ Quiet /\ handler'[h].pc = "ended"
        /\ handler'[h].commit = handler[h].commit /\ handler'[h].fix = handler[h].fix
    BY <1>7, <1>14 DEF HandlerPc, EndProjectRun
  <2>3. CommitStands(h) /\ HandlerStands(h)'
    BY <1>1, <2>1, <2>2 DEF CommitStands, HasCommitted, HandlerStands
  <2> QED
    BY <1>9, <2>2, <2>3
<1>15. CASE QueueInvariantCorrection(h)
  <2>1. rowStatus'[h] = "correcting" /\ Correct(h, FALSE)
    BY <1>1, <1>15 DEF QueueInvariantCorrection, Status
  <2>2. /\ Quiet /\ handler'[h].pc = "execute"
        /\ handler'[h].commit = handler[h].commit /\ handler'[h].fix = FALSE
    BY <1>8, <2>1
  <2>3. CommitStands(h) /\ HandlerStands(h)'
    BY <1>1, <2>1, <2>2 DEF CommitStands, HasCommitted, HandlerStands
  <2> QED
    BY <1>9, <2>2, <2>3
<1>16. CASE QueueValidationCorrection(h)
  <2>1. /\ rowStatus[h] = "complete" /\ rowStatus'[h] = "running" /\ Correct(h, TRUE)
        /\ handler[h].pc = "ended"
    BY <1>1, <1>16 DEF QueueValidationCorrection, Status, Correct, At
  <2>2. /\ Quiet /\ handler'[h].pc = "execute"
        /\ handler'[h].commit = handler[h].commit /\ handler'[h].fix = TRUE
    BY <1>8, <2>1
  <2>3. handler[h].commit # NoCommit
    BY <1>1, <2>1 DEF HandlerKnows
  <2>4. CommitStands(h) /\ HandlerStands(h)'
    BY <1>1, <2>1, <2>2, <2>3 DEF CommitStands, HasCommitted, HandlerStands
  <2> QED
    BY <1>9, <2>2, <2>4
<1>17. CASE KeepRefusedCorrection(h)
  <2>1. /\ handler[h].fix /\ handler' = handler /\ handler[h].pc = "ended"
        /\ rowStatus'[h] = "complete"
    BY <1>1, <1>17 DEF KeepRefusedCorrection, Status, At
  <2>2. Quiet
    BY <2>1 DEF Quiet
  <2>3. CommitStands(h) /\ HandlerStands(h)' /\ handler'[h].pc # "refused"
    BY <1>1, <2>1 DEF CommitStands, HasCommitted, HandlerStands
  <2> QED
    BY <1>9, <2>2, <2>3
<1>18. CASE DeriveResult(h)
  <2>1. CASE Refuse(h)
    BY <1>6, <1>9, <2>1 DEF HandlerStands
  <2>2. CASE rowStatus[h] = "complete" /\ ActivityGoto(h, "read")
    <3>1. rowStatus' = rowStatus
      BY <1>18 DEF DeriveResult
    <3>2. /\ Quiet /\ handler'[h].pc = "read"
          /\ handler'[h].commit = handler[h].commit /\ handler'[h].fix = handler[h].fix
      BY <1>7, <2>2 DEF HandlerPc
    <3>3. CommitStands(h) /\ HandlerStands(h)'
      BY <1>1, <2>2, <3>1, <3>2 DEF CommitStands, HasCommitted, HandlerStands
    <3> QED
      BY <1>9, <3>2, <3>3
  <2> QED
    BY <1>18, <2>1, <2>2 DEF DeriveResult
<1> QED
  BY <1>10, <1>11, <1>12, <1>13, <1>14, <1>15, <1>16, <1>17, <1>18

\* The first run of a bootstrapped project, and a scaffold that fails.
LEMMA CreatorStepsTell ==
  ASSUME ToldInv, ScaffoldFails \/ BootstrapRun PROVE ToldInv'
<1> DEFINE h == Creator
<1>1. /\ handler \in [Request -> HandlerRow] /\ rowStatus \in [Request -> RowStatus]
      /\ h \in Request /\ handler[h] \in HandlerRow /\ HistoryRow /\ HandlerStands(h)
  BY ProjectActivityAssumption DEF ToldInv, ActivityInv, ActivityRows, HandlersStand
<1>2. ActivityInv'
  BY CreatorStepsKeepInv DEF ToldInv
<1>3. h \in UnderWay
  BY <1>1 DEF ScaffoldFails, BootstrapRun, At, UnderWay
<1>4. LocalsAssigned(h)
  BY <1>1, LocalsAre
<1>5. /\ UNCHANGED <<history, tree, met>>
      /\ \A s \in Request \ {h} : rowStatus'[s] = rowStatus[s]
  BY <1>1 DEF ScaffoldFails, BootstrapRun, Status, ghosts
<1> HIDE DEF h
<1>6. CASE Refuse(h)
  <2>1. /\ \A s \in Request \ {h} : handler'[s] = handler[s]
        /\ handler'[h].pc = "refused" /\ handler'[h].commit = NoCommit /\ handler'[h].fix = FALSE
        /\ handler'[h].before = None /\ handler'[h].copy = <<>>
    BY <1>4, <1>6 DEF LocalsAssigned, Goes
  <2>2. HandlerStands(h)'
    BY <2>1 DEF HandlerStands
  <2> QED
    BY <1>2, <1>3, <1>5, <2>1, <2>2, QuietlyTold
<1>7. CASE handler[h].pc = "bootstrap" /\ (handler' = handler \/ ActivityGoto(h, "read"))
  <2>1. /\ \A s \in Request \ {h} : handler'[s] = handler[s]
        /\ handler'[h].pc \in {"bootstrap", "read"} /\ handler'[h].commit = handler[h].commit
        /\ handler'[h].fix = handler[h].fix
        /\ handler'[h].before = handler[h].before /\ handler'[h].copy = handler[h].copy
    <3>1. CASE handler' = handler
      BY <1>7, <3>1
    <3>2. CASE ActivityGoto(h, "read")
      <4>1. "read" \in HandlerPc
        BY DEF HandlerPc
      <4> QED
        BY <1>4, <3>2, <4>1 DEF LocalsAssigned, Goes, SameStep, SameEntry
    <3> QED
      BY <1>7, <3>1, <3>2
  <2>2. HandlerStands(h)' /\ CommitStands(h)
    BY <1>1, <1>7, <2>1 DEF HandlerStands, CommitStands, HasCommitted
  <2> QED
    BY <1>2, <1>3, <1>5, <2>1, <2>2, QuietlyTold
<1> QED
  BY <1>6, <1>7 DEF ScaffoldFails, BootstrapRun, At, h

\* The history is read, and written back with the entry first.
LEMMA HistoryStepsTell ==
  ASSUME ToldInv, NEW h \in Request, ReadProject(h) \/ UpdateProject(h) PROVE ToldInv'
<1>1. /\ handler \in [Request -> HandlerRow] /\ RepositoryRows /\ OneBranching(objects)
      /\ handler[h] \in HandlerRow /\ HistoryRow /\ HandlerStands(h)
      /\ FilesOfArrived
  BY DEF ToldInv, ActivityInv, ActivityRows, HandlersStand, TreeInv
<1>2. ActivityInv'
  BY HistoryStepsKeepInv DEF ToldInv
<1>3. h \in UnderWay
  BY <1>1 DEF ReadProject, UpdateProject, At, UnderWay
<1>4. LocalsAssigned(h)
  BY <1>1, LocalsAre
<1>5. UNCHANGED <<tree, met>> /\ rowStatus' = rowStatus /\ objects' = objects /\ live' = live
  BY DEF ReadProject, UpdateProject, ghosts, tree
<1>6. CommitsStay
  BY <1>1, <1>5, BranchesStay
<1> DEFINE Moves == /\ \A s \in Request \ {h} : handler'[s] = handler[s]
                    /\ handler'[h].commit = handler[h].commit
                    /\ handler'[h].before \in {handler[h].before, None}
<1>7. ASSUME Moves, handler'[h].pc \in {"write", "bootstrap", "done"}, HandlerStands(h)',
             handler[h].pc \in {"read", "write"}, handler[h].pc = "read" => handler'[h].pc # "done"
      PROVE  TreeInv' /\ HandlersStand'
  <2>1. HandlersStand'
    BY <1>5, <1>7, OthersStand DEF ToldInv
  <2>2. CommitStands(h)
    BY <1>7 DEF CommitStands, HasCommitted
  <2>3. h \in UnderWay' /\ Alone(h) => CleanFor(h)'
    BY <1>3, <1>5, <1>7, <2>2, StaysClean
  <2>4. handler'[h].before \in Arrived \cup {None}
          /\ \A f \in File : live'.files[f] \in Arrived \cup {None}
    BY <1>1, <1>5, <1>7 DEF FilesOfArrived
  <2>5. TreeInv'
    BY <1>2, <1>3, <1>5, <1>6, <1>7, <2>3, <2>4, TreeGoesOn
  <2> QED
    BY <2>1, <2>5
<1>8. CASE ReadProject(h)
  <2>1. /\ handler' = [handler EXCEPT ![h].pc = "write", ![h].copy = history]
        /\ handler[h].pc = "read" /\ history' = history
    BY <1>8 DEF ReadProject, At
  <2>2. /\ Moves /\ handler'[h].pc = "write" /\ handler'[h].copy = history
        /\ handler'[h].fix = handler[h].fix
    BY <1>4, <2>1 DEF LocalsAssigned, Goes, SameStep
  <2>3. HandlerStands(h)'
    BY <1>1, <2>2 DEF HandlerStands
  <2>4. TreeInv' /\ HandlersStand'
    BY <1>7, <2>1, <2>2, <2>3
  <2>5. HistoryInv'
    BY <1>3, <1>5, <2>1, <2>2, HistoryGoesOn
  <2> QED
    BY <1>2, <2>4, <2>5 DEF ToldInv
<1>9. CASE UpdateProject(h)
  <2>1. /\ handler[h].pc = "write" /\ history' = WithEntry(handler[h].copy, h)
        /\ \/ handler' = [handler EXCEPT ![h].pc = "bootstrap", ![h].copy = <<>>]
           \/ Answer(h)
    BY <1>9 DEF UpdateProject, At
  <2>2. /\ Moves /\ handler'[h].pc \in {"bootstrap", "done"} /\ handler'[h].copy = <<>>
        /\ handler'[h].fix \in {handler[h].fix, FALSE}
    <3>1. CASE handler' = [handler EXCEPT ![h].pc = "bootstrap", ![h].copy = <<>>]
      BY <1>4, <3>1 DEF LocalsAssigned, Goes, SameStep
    <3>2. CASE Answer(h)
      BY <1>4, <3>2 DEF LocalsAssigned, Goes
    <3> QED
      BY <2>1, <3>1, <3>2
  <2>3. HandlerStands(h)'
    BY <1>1, <2>2 DEF HandlerStands
  <2>4. TreeInv' /\ HandlersStand'
    BY <1>7, <2>1, <2>2, <2>3
  <2>5. HistoryInv'
    BY <1>3, <1>5, <2>1, <2>2, HistoryGoesOn
  <2> QED
    BY <1>2, <2>4, <2>5 DEF ToldInv
<1> QED
  BY <1>8, <1>9

\* Files that are staged, applied and written back.
LEMMA TreeStepsTell ==
  ASSUME ToldInv, NEW h \in Request, StageFile(h) \/ ApplyFile(h) \/ RestoreFile(h)
           \/ PolicyRollsBack(h)
  PROVE  ToldInv'
<1>1. /\ handler \in [Request -> HandlerRow] /\ rowStatus \in [Request -> RowStatus]
      /\ RepositoryRows /\ OneBranching(objects)
      /\ handler[h] \in HandlerRow /\ HistoryRow /\ HandlerStands(h) /\ HandlerKnows(h)
      /\ FilesOfArrived /\ live \in [files : Files, head : 1..Len(objects)]
      /\ handler[h].before \in Request \cup {None} /\ handler[h].commit \in Nat
  BY DEF ToldInv, ActivityInv, ActivityRows, HandlersStand, HandlersKnow, TreeInv, RepositoryRows,
     HandlerRow
<1>2. ActivityInv'
  BY FileStepsKeepInv DEF ToldInv
<1>3. h \in UnderWay /\ h \in Arrived
  BY <1>1 DEF StageFile, ApplyFile, RestoreFile, PolicyRollsBack, At, UnderWay, Arrived
<1>4. LocalsAssigned(h)
  BY <1>1, LocalsAre
<1>5. /\ met' = met /\ history' = history /\ objects' = objects
      /\ \A s \in Request \ {h} : rowStatus'[s] = rowStatus[s]
  BY <1>1 DEF StageFile, ApplyFile, RestoreFile, PolicyRollsBack, ghosts, tree, Status
<1>6. CommitsStay
  BY <1>1, <1>5, BranchesStay
<1> DEFINE Moves == /\ \A s \in Request \ {h} : handler'[s] = handler[s]
                    /\ handler'[h].commit = handler[h].commit
                    /\ handler'[h].fix = handler[h].fix
                    /\ handler'[h].copy = handler[h].copy
           Clean == Alone(h) => CleanFor(h)'
<1>7. ASSUME Moves, handler'[h].pc \in {"apply", "commit", "failing", "ended"}, HandlerStands(h)',
             handler'[h].before \in Arrived \cup {None},
             \A f \in File : live'.files[f] \in Arrived \cup {None},
             live'.head = live.head
               \/ (live'.head = handler[h].commit /\ handler[h].commit # NoCommit),
             Clean
      PROVE  ToldInv'
  <2>1. HandlersStand'
    BY <1>5, <1>7, OthersStand DEF ToldInv
  <2>2. HistoryInv'
    BY <1>3, <1>5, <1>7, HistoryGoesOn
  <2>3. TreeInv'
    BY <1>2, <1>3, <1>5, <1>6, <1>7, TreeGoesOn
  <2> QED
    BY <1>2, <2>1, <2>2, <2>3 DEF ToldInv
<1>8. Alone(h) => CleanFor(h)
  BY <1>3 DEF ToldInv, TreeInv, AloneClean
<1>9. ASSUME live'.head = live.head
      PROVE  /\ HeadFiles' = HeadFiles
             /\ \A f \in File : \A x : Expected(h, f, x)' = Expected(h, f, x)
             /\ \A c : Own(h, c) => Own(h, c)'
  BY <1>5, <1>9 DEF Expected, Own, HeadFiles
\* What a step in the tree leaves as it was: HEAD, and what of it is h's.
<1>10. ASSUME Moves, live'.head = live.head, Alone(h), HasCommitted(h)' => HasCommitted(h),
              \A f \in File : Expected(h, f, live'.files[f]),
              handler'[h].pc \in {"apply", "commit"}
                => Expected(h, handler'[h].file, handler'[h].before),
              handler'[h].pc = "commit" => live'.files[handler'[h].file] = h
       PROVE  CleanFor(h)'
  <2>1. PICK c \in Nat : c = handler[h].commit /\ c = handler'[h].commit
    BY <1>1, <1>10
  <2>2. /\ CleanFor(h)
        /\ c # NoCommit => c = live.head
        /\ (\E f \in File : HeadFiles[f] = h) => Own(h, live.head)
        /\ HasCommitted(h) /\ c # NoCommit => Own(h, c)
    BY <1>8, <1>10, <2>1 DEF CleanFor
  <2>3. \A f \in File : Expected(h, f, live.files[f])'
    BY <1>5, <1>9, <1>10 DEF Expected
  <2>4. (handler[h].pc \in {"apply", "commit"} => Expected(h, handler[h].file, handler[h].before))'
    BY <1>5, <1>9, <1>10 DEF Expected
  <2>5. (\E f \in File : HeadFiles[f] = h)' => Own(h, live.head)'
    BY <1>5, <1>9, <1>10, <2>2 DEF Own
  <2>6. HasCommitted(h)' /\ handler'[h].commit # NoCommit => Own(h, handler[h].commit)'
    BY <1>5, <1>9, <1>10, <2>1, <2>2 DEF Own
  <2>7. handler'[h].commit # NoCommit => handler'[h].commit = live'.head
    BY <1>10, <2>1, <2>2
  <2> QED
    BY <1>10, <2>3, <2>4, <2>5, <2>6, <2>7 DEF CleanFor
<1> HIDE DEF Clean
<1>11. CASE StageFile(h)
  <2>1. PICK g \in File : handler' = [handler EXCEPT ![h].pc = "apply", ![h].file = g,
                                                   ![h].before = live.files[g]]
    BY <1>11 DEF StageFile
  <2>2. /\ live.files[g] \in Request \cup {None} /\ live.files[g] \in Arrived \cup {None}
        /\ live' = live /\ rowStatus' = rowStatus /\ handler[h].pc = "stage"
    BY <1>1, <1>11 DEF StageFile, FilesOfArrived, Files, tree, At
  <2>3. /\ Moves /\ handler'[h].pc = "apply" /\ handler'[h].file = g
             /\ handler'[h].before = live.files[g]
    <3>1. PICK before \in Request \cup {None} : before = live.files[g]
      BY <2>2
    <3>2. handler' = [handler EXCEPT ![h].pc = "apply", ![h].file = g, ![h].before = before]
      BY <2>1, <3>1
    <3>3. /\ Goes(h, "apply", handler[h].commit, handler[h].fix) /\ SameEntry(h)
          /\ handler'[h].file = g /\ handler'[h].before = before
      BY <1>4, <3>2 DEF LocalsAssigned
    <3> QED
      BY <3>1, <3>3 DEF Goes, SameEntry
  <2>4. HandlerStands(h)'
    BY <1>1, <2>2, <2>3 DEF HandlerStands
  <2>5. Clean
    <3>1. HasCommitted(h)' => HasCommitted(h)
      BY <2>2, <2>3 DEF HasCommitted
    <3>2. Alone(h) => \A f \in File : Expected(h, f, live.files[f])
      BY <1>8 DEF CleanFor
    <3> QED
      BY <1>10, <2>2, <2>3, <3>1, <3>2 DEF Clean
  <2> QED
    BY <1>1, <1>7, <2>2, <2>3, <2>4, <2>5 DEF FilesOfArrived
<1>12. CASE ApplyFile(h)
  <2>1. PICK g \in File : g = handler[h].file
    BY <1>1, <1>12 DEF ApplyFile, HandlerKnows, At
  <2>2. rowStatus' = rowStatus /\ handler[h].pc = "apply" /\ "commit" \in HandlerPc
          /\ "failing" \in HandlerPc
    BY <1>12 DEF ApplyFile, At, HandlerPc
  <2>3. CASE live' = [live EXCEPT !.files[g] = h] /\ ActivityGoto(h, "commit")
    <3>1. Moves /\ handler'[h].pc = "commit" /\ SameStep(h)
      BY <1>4, <2>2, <2>3 DEF LocalsAssigned, Goes, SameEntry
    <3>2. /\ live'.head = live.head /\ live'.files[g] = h
          /\ \A f \in File : f # g => live'.files[f] = live.files[f]
      BY <1>1, <2>3 DEF Files
    <3>3. HandlerStands(h)'
      BY <1>1, <2>2, <3>1 DEF HandlerStands
    <3>4. Clean
      <4>1. HasCommitted(h)' => HasCommitted(h)
        BY <2>2, <3>1 DEF HasCommitted
      <4>2. Alone(h) => /\ \A f \in File : Expected(h, f, live.files[f])
                        /\ Expected(h, handler[h].file, handler[h].before)
        BY <1>8, <2>2 DEF CleanFor
      <4>3. Expected(h, g, h)
        BY DEF Expected
      <4> QED
        BY <1>10, <2>1, <3>1, <3>2, <4>1, <4>2, <4>3 DEF Clean, SameStep
    <3>5. \A f \in File : live'.files[f] \in Arrived \cup {None}
      BY <1>1, <1>3, <3>2 DEF FilesOfArrived
    <3> QED
      BY <1>1, <1>7, <3>1, <3>2, <3>3, <3>4, <3>5 DEF FilesOfArrived, SameStep
  <2>4. CASE live' = live /\ StepOver(h, "failing", handler[h].commit)
    <3>1. Moves /\ handler'[h].pc = "failing" /\ handler'[h].before = None
      BY <1>1, <1>4, <2>2, <2>4 DEF LocalsAssigned, Goes, SameEntry
    <3>2. HandlerStands(h)'
      BY <1>1, <3>1 DEF HandlerStands
    <3>3. Clean
      <4>1. HasCommitted(h)' => HasCommitted(h)
        BY <2>2, <3>1 DEF HasCommitted
      <4>2. Alone(h) => \A f \in File : Expected(h, f, live.files[f])
        BY <1>8 DEF CleanFor
      <4> QED
        BY <1>10, <2>4, <3>1, <4>1, <4>2 DEF Clean
    <3> QED
      BY <1>1, <1>7, <2>4, <3>1, <3>2, <3>3 DEF FilesOfArrived
  <2> QED
    BY <1>12, <2>1, <2>3, <2>4 DEF ApplyFile
<1>13. CASE RestoreFile(h)
  <2>1. PICK g \in File : g = handler[h].file
    BY <1>1, <1>13 DEF RestoreFile, HandlerKnows, At
  <2>2. /\ rowStatus' = rowStatus /\ handler[h].pc = "commit"
        /\ live' = [live EXCEPT !.files[g] = handler[h].before]
    BY <1>13, <2>1 DEF RestoreFile, At
  <2>3. Moves /\ handler'[h].pc = "failing" /\ handler'[h].before = None
    BY <1>4, <1>13 DEF LocalsAssigned, Goes, SameEntry, RestoreFile
  <2>4. /\ live'.head = live.head /\ live'.files[g] = handler[h].before
        /\ \A f \in File : f # g => live'.files[f] = live.files[f]
    BY <1>1, <2>2 DEF Files
  <2>5. HandlerStands(h)'
    BY <1>1, <2>3 DEF HandlerStands
  <2>6. Clean
    <3>1. HasCommitted(h)' => HasCommitted(h)
      BY <2>2, <2>3 DEF HasCommitted
    <3>2. Alone(h) => /\ \A f \in File : Expected(h, f, live.files[f])
                      /\ Expected(h, g, handler[h].before)
      BY <1>8, <2>1, <2>2 DEF CleanFor
    <3> QED
      BY <1>10, <2>3, <2>4, <3>1, <3>2 DEF Clean
  <2>7. \A f \in File : live'.files[f] \in Arrived \cup {None}
    BY <1>1, <2>4 DEF FilesOfArrived
  <2> QED
    BY <1>1, <1>7, <2>3, <2>4, <2>5, <2>6, <2>7 DEF FilesOfArrived
<1>14. CASE PolicyRollsBack(h)
  <2>1. PICK c \in Nat : c = handler[h].commit
    BY <1>1
  <2>2. /\ handler[h].pc = "committed" /\ handler[h].fix /\ "ended" \in HandlerPc
        /\ live' = [files |-> objects[c].files, head |-> c] /\ ActivityGoto(h, "ended")
        /\ rowStatus'[h] = "failed"
    BY <1>1, <1>14, <2>1 DEF PolicyRollsBack, At, HandlerPc, Status
  <2>3. Moves /\ handler'[h].pc = "ended" /\ SameStep(h)
    BY <1>4, <2>2 DEF LocalsAssigned, Goes, SameEntry
  <2>4. c # NoCommit /\ c \in 1..Len(objects)
    BY <1>1, <2>1, <2>2, LenProperties DEF HandlerStands, HandlerKnows, NoCommit, RepositoryRows
  <2>5. live'.head = c /\ live'.files = objects[c].files
    BY <2>2
  <2>6. HandlerStands(h)'
    BY <1>1, <2>2, <2>3 DEF HandlerStands
  <2>7. Clean
    <3>1. HasCommitted(h)
      BY <2>2 DEF HasCommitted
    <3>2. Alone(h) => live'.head = live.head /\ \A f \in File : Expected(h, f, live'.files[f])
      BY <1>8, <2>1, <2>4, <2>5 DEF CleanFor, Expected, HeadFiles
    <3> QED
      BY <1>10, <2>3, <3>1, <3>2 DEF Clean
  <2>8. \A f \in File : live'.files[f] \in Arrived \cup {None}
    BY <1>1, <2>4, <2>5 DEF FilesOfArrived
  <2> QED
    BY <1>1, <1>7, <2>1, <2>3, <2>4, <2>5, <2>6, <2>7, <2>8 DEF FilesOfArrived, SameStep
<1> QED
  BY <1>11, <1>12, <1>13, <1>14

\* The commit of a step, or by hand: HEAD's files are the tree's, and what differs
\* from the commit before is the handler's, or what it found.
LEMMA CommitStepsTell ==
  ASSUME ToldInv, NEW h \in Request, CommitFile(h) \/ CommitByHand(h) PROVE ToldInv'
<1>1. /\ handler \in [Request -> HandlerRow]
      /\ RepositoryRows /\ OneBranching(objects) /\ FilesOfArrived
      /\ handler[h] \in HandlerRow /\ HistoryRow /\ HandlerStands(h) /\ HandlerKnows(h)
      /\ live \in [files : Files, head : 1..Len(objects)] /\ Len(objects) \in Nat
      /\ handler[h].commit \in Nat
  BY LenProperties
     DEF ToldInv, ActivityInv, ActivityRows, HandlersStand, HandlersKnow, TreeInv, RepositoryRows,
         HandlerRow
<1>2. ActivityInv'
  BY FileStepsKeepInv DEF ToldInv
<1>3. h \in UnderWay
  BY <1>1 DEF CommitFile, CommitByHand, At, UnderWay
<1>4. LocalsAssigned(h)
  BY <1>1, LocalsAre
<1>5. /\ met' = met /\ history' = history /\ rowStatus' = rowStatus /\ AutoCommit
  BY DEF CommitFile, CommitByHand, ghosts
\* Nothing differs, or there is a new commit on top of HEAD.
<1>6. /\ CommitsStay /\ live'.files = live.files
      /\ \A c \in 1..Len(objects') : c \in 1..Len(objects) \/ objects'[c].files = live.files
      /\ \/ live.files = HeadFiles /\ live' = live /\ objects' = objects
         \/ /\ live.files # HeadFiles /\ live'.head \in 1..Len(objects')
            /\ Branches'[live'.head] = {live'.head} \cup Branches[live.head]
            /\ objects'[live'.head].files = live.files /\ objects'[live'.head].parent = live.head
  <2>1. CASE live.files = HeadFiles
    <3>1. objects' = objects /\ live' = live
      BY <1>5, <2>1 DEF AutoCommit, tree
    <3>2. CommitsStay
      BY <1>1, <3>1, BranchesStay
    <3> QED
      BY <2>1, <3>1, <3>2
  <2>2. CASE live.files # HeadFiles
    <3>1. /\ CommitsStay
          /\ live'.files = live.files /\ live'.head = Len(objects) + 1
          /\ live'.head \in 1..Len(objects')
          /\ objects'[live'.head].files = live.files /\ objects'[live'.head].parent = live.head
          /\ Len(objects') = Len(objects) + 1
          /\ Branches'[live'.head] = {live'.head} \cup Branches[live.head]
      BY <1>1, <1>5, <2>2, CommitExtends
    <3>2. \A c \in 1..Len(objects') : c \in 1..Len(objects) \/ c = live'.head
      BY <1>1, <3>1
    <3> QED
      BY <2>2, <3>1, <3>2
  <2> QED
    BY <2>1, <2>2
<1>7. /\ \A f \in File : live'.files[f] \in Arrived \cup {None}
      /\ \/ live'.head = live.head
         \/ Branches'[live'.head] = {live'.head} \cup Branches[live.head]
  BY <1>1, <1>6 DEF FilesOfArrived
<1>8. CASE CommitByHand(h)
  <2>1. handler[h].pc = "sweep" /\ Answer(h)
    BY <1>8 DEF CommitByHand, At
  <2>2. handler[h].kind = "commit" /\ handler[h].commit = NoCommit
    BY <1>1, <2>1 DEF HandlerStands
  <2>3. /\ \A s \in Request \ {h} : handler'[s] = handler[s]
        /\ handler'[h].pc = "done" /\ handler'[h].commit = NoCommit /\ handler'[h].fix = FALSE
        /\ handler'[h].before = None /\ handler'[h].copy = <<>> /\ handler'[h].kind = "commit"
    BY <1>4, <2>1, <2>2 DEF LocalsAssigned, Goes
  <2>4. HandlersStand'
    <3>1. HandlerStands(h)'
      BY <2>3 DEF HandlerStands
    <3> QED
      BY <1>5, <2>3, <3>1, OthersStand DEF ToldInv
  <2>5. HistoryInv'
    BY <1>3, <1>5, <2>3, HistoryGoesOn
  <2>6. TreeInv'
    <3>1. h \notin UnderWay'
      BY <2>3 DEF UnderWay
    <3> QED
      BY <1>2, <1>3, <1>5, <1>6, <1>7, <2>3, <3>1, TreeGoesOn
  <2> QED
    BY <1>2, <2>4, <2>5, <2>6 DEF ToldInv
<1>9. CASE CommitFile(h)
  <2>1. PICK pc \in HandlerPc : pc = IF rowStatus[h] = "none" THEN "write" ELSE "committed"
    BY DEF HandlerPc
  <2>2. PICK c \in Nat : c = IF live.files = HeadFiles THEN handler[h].commit ELSE live'.head
    BY <1>1, <1>6
  <2>3. handler[h].pc = "commit" /\ StepOver(h, pc, c) /\ handler[h].file \in File
    BY <1>1, <1>9, <2>1, <2>2 DEF CommitFile, At, HandlerKnows
  <2>4. /\ \A s \in Request \ {h} : handler'[s] = handler[s]
        /\ handler'[h].pc = pc /\ handler'[h].commit = c /\ handler'[h].fix = handler[h].fix
        /\ handler'[h].before = None /\ handler'[h].copy = handler[h].copy
    BY <1>4, <2>3 DEF LocalsAssigned, Goes, SameEntry
  <2>5. c # NoCommit \/ c = handler[h].commit
    BY <1>6, <2>2 DEF NoCommit
  <2>6. HandlersStand'
    <3>1. HandlerStands(h)'
      BY <1>1, <2>1, <2>4, <2>5 DEF HandlerStands
    <3> QED
      BY <1>5, <2>4, <3>1, OthersStand DEF ToldInv
  <2>7. HistoryInv'
    <3>1. pc = "write" => h = Creator
      BY <1>1, <2>1, <2>3 DEF HandlerStands
    <3> QED
      BY <1>3, <1>5, <2>1, <2>4, <3>1, HistoryGoesOn
  <2>8. ASSUME Alone(h) PROVE CleanFor(h)'
    <3>1. CleanFor(h)
      BY <1>3, <2>8 DEF ToldInv, TreeInv, AloneClean
    <3>2. CASE live.files = HeadFiles /\ live' = live /\ objects' = objects
      <4>1. c = handler[h].commit /\ HeadFiles' = HeadFiles
        BY <2>2, <3>2 DEF HeadFiles
      <4>2. HeadFiles[handler[h].file] = h
        BY <2>3, <3>1, <3>2 DEF CleanFor
      <4>3. Own(h, live.head) /\ (c # NoCommit => c = live.head)
        BY <2>3, <3>1, <4>1, <4>2 DEF CleanFor
      <4>4. Own(h, live.head)' /\ (c # NoCommit => Own(h, c)')
        BY <1>5, <3>2, <4>3 DEF Own
      <4>5. \A f \in File : Expected(h, f, live.files[f])'
        BY <3>2, <4>1 DEF Expected
      <4>6. c # NoCommit => Own(h, handler[h].commit)'
        BY <2>4, <4>4 DEF Own
      <4> QED
        BY <2>1, <2>4, <3>2, <4>3, <4>4, <4>5, <4>6 DEF CleanFor
    <3>3. CASE /\ live.files # HeadFiles /\ live'.head \in 1..Len(objects')
               /\ objects'[live'.head].files = live.files /\ objects'[live'.head].parent = live.head
      <4>1. c = live'.head /\ HeadFiles' = live.files
        BY <2>2, <3>3 DEF HeadFiles
      <4>2. \A f \in File : live.files[f] = h \/ f \in met[h].dirty
                              \/ live.files[f] = objects[live.head].files[f]
        BY <3>1 DEF CleanFor, Expected, HeadFiles
      <4>3. objects'[live.head] = objects[live.head] /\ live.head # NoCommit
        BY <1>1, <1>6 DEF CommitsStay, NoCommit
      <4>4. Own(h, live.head)'
        BY <1>5, <3>3, <4>2, <4>3 DEF Own
      <4>5. Own(h, handler[h].commit)'
        BY <2>4, <4>1, <4>4 DEF Own
      <4>6. \A f \in File : Expected(h, f, live.files[f])'
        BY <1>6, <4>1 DEF Expected
      <4> QED
        BY <2>1, <2>4, <4>1, <4>4, <4>5, <4>6 DEF CleanFor
    <3> QED
      BY <1>6, <3>2, <3>3
  <2>9. TreeInv'
    <3>1. c \in {handler[h].commit, live'.head} /\ pc \notin {"none", "done"}
      BY <2>1, <2>2
    <3> QED
      BY <1>2, <1>3, <1>5, <1>6, <1>7, <2>4, <2>8, <3>1, TreeGoesOn
  <2> QED
    BY <1>2, <2>6, <2>7, <2>9 DEF ToldInv
<1> QED
  BY <1>8, <1>9

\* Who comes, or is turned down, is not in the files and lists that there are; and
\* who is admitted knows who has answered and what is not clean.
LEMMA NewcomerTells ==
  ASSUME ToldInv, ActivityInv', NEW r \in Request, UNCHANGED <<history, tree, rowStatus>>,
         handler[r].pc = "none", handler'[r].pc \notin {"none", "done", "write", "apply", "commit"},
         \A s \in Request \ {r} : handler'[s] = handler[s] /\ met'[s] = met[s],
         handler'[r].commit = NoCommit, handler'[r].copy \in {handler[r].copy, <<>>},
         handler'[r].before \in {handler[r].before, None}, HandlerStands(r)',
         r = Creator => met' = met, met'[r].unseen \subseteq Arrived,
         handler'[r].pc # "refused" =>
           /\ \A s \in Request : handler[s].pc = "done" => s \in met'[r].answered
           /\ \A f \in File : live.files[f] # HeadFiles[f] => f \in met'[r].dirty
  PROVE  ToldInv'
<1> USE ProjectActivityAssumption
<1>1. /\ RepositoryRows /\ OneBranching(objects) /\ FilesOfArrived /\ CommitsKept
      /\ OnlyArrived /\ DoneKnown /\ HistoryTells /\ AloneClean /\ HandlersStand
      /\ objects' = objects /\ live' = live /\ history' = history /\ rowStatus' = rowStatus
  BY DEF ToldInv, ActivityInv, TreeInv, HistoryInv, tree
<1>2. CommitsStay
  BY <1>1, BranchesStay
<1>3. /\ Arrived \subseteq Arrived' /\ r \notin Arrived /\ Arrived \subseteq Request
      /\ UnderWay' \subseteq Request /\ \A s \in UnderWay' : s = r \/ s \in UnderWay
      /\ handler'[r].pc = "refused" => r \notin UnderWay'
  BY DEF Arrived, UnderWay
<1>4. \A s \in Request, t \in Request : Met(s, t) => Met(s, t)'
  BY <1>1 DEF OnlyArrived, Met
<1>5. \A s \in Request : Alone(s)' => Alone(s)
  BY <1>4 DEF Alone
<1>6. HandlersStand'
  BY <1>1, OthersStand
<1>7. OnlyArrived'
  <2>1. \A i \in 1..Len(handler'[r].copy) : handler'[r].copy[i] \in Arrived
    <3>1. CASE handler'[r].copy = <<>>
      BY <3>1
    <3>2. CASE handler'[r].copy = handler[r].copy
      BY <1>1, <3>2 DEF OnlyArrived
    <3> QED
      BY <3>1, <3>2
  <2>2. ASSUME NEW s \in Request
        PROVE  /\ handler'[s].pc = "none" => met'[s].unseen = {}
               /\ met'[s].unseen \subseteq Arrived
               /\ \A i \in 1..Len(handler'[s].copy) : handler'[s].copy[i] \in Arrived
    <3>1. CASE s = r
      BY <2>1, <3>1
    <3>2. CASE s # r
      BY <1>1, <3>2 DEF OnlyArrived
    <3> QED
      BY <3>1, <3>2
  <2>3. met'[Creator].answered = {} /\ \A i \in 1..Len(history) : history[i] \in Arrived
    BY <1>1 DEF OnlyArrived
  <2> QED
    BY <1>1, <1>3, <2>2, <2>3 DEF OnlyArrived
<1>8. DoneKnown'
  <2> SUFFICES ASSUME NEW s \in Request, NEW t \in UnderWay', handler'[s].pc = "done"
               PROVE  Met(s, t)' \/ s \in met'[t].answered
    BY DEF DoneKnown
  <2>1. s # r /\ handler[s].pc = "done"
    OBVIOUS
  <2>2. CASE t = r
    BY <1>3, <2>1, <2>2
  <2>3. CASE t # r
    BY <1>1, <1>3, <1>4, <2>1, <2>3 DEF DoneKnown
  <2> QED
    BY <2>2, <2>3
<1>9. ASSUME NEW entries, NEW s \in Request, TellsOf(entries, s),
             \A i \in 1..Len(entries) : entries[i] \in Arrived, Len(entries) \in Nat
      PROVE  TellsOf(entries, s)'
  <2>1. \A i \in 1..Len(entries) : met'[entries[i]] = met[entries[i]]
    BY <1>3, <1>9
  <2>2. \A i \in 1..Len(entries) : 1..(i - 1) \subseteq 1..Len(entries)
    BY <1>9
  <2> QED
    BY <1>9, <2>1, <2>2 DEF TellsOf
<1>10. HistoryTells'
  <2> SUFFICES ASSUME NEW s \in Request, handler'[s].pc = "done", Alone(s)',
                      handler'[s].kind # "commit"
               PROVE  /\ TellsOf(history, s)'
                      /\ \A t \in Request : handler'[t].pc = "write" => TellsOf(handler[t].copy, s)'
    BY DEF HistoryTells
  <2>1. /\ TellsOf(history, s)
        /\ \A t \in Request : handler[t].pc = "write" => TellsOf(handler[t].copy, s)
    BY <1>1, <1>5 DEF HistoryTells
  <2>2. /\ Len(history) \in Nat /\ \A i \in 1..Len(history) : history[i] \in Arrived
        /\ \A t \in Request : /\ Len(handler[t].copy) \in Nat
                              /\ \A i \in 1..Len(handler[t].copy) : handler[t].copy[i] \in Arrived
    <3>1. history \in Seq(Request) /\ \A t \in Request : handler[t].copy \in Seq(Request)
      BY DEF ToldInv, ActivityInv, ActivityRows, HistoryRow, HandlerRow, Entries
    <3> QED
      BY <1>1, <3>1, LenProperties DEF OnlyArrived
  <2>3. TellsOf(history, s)'
    BY <1>1, <1>9, <2>1, <2>2 DEF TellsOf
  <2>4. ASSUME NEW t \in Request, handler'[t].pc = "write" PROVE TellsOf(handler[t].copy, s)'
    <3>1. t # r /\ handler[t].pc = "write" /\ handler'[t] = handler[t]
      BY <2>4
    <3>2. PICK entries : entries = handler[t].copy
      OBVIOUS
    <3>3. TellsOf(entries, s)'
      BY <1>9, <2>1, <2>2, <3>1, <3>2
    <3> QED
      BY <3>1, <3>2, <3>3 DEF TellsOf
  <2> QED
    BY <2>3, <2>4
<1>11. FilesOfArrived'
  <2>1. \A f \in File : live.files[f] \in Arrived' \cup {None}
    BY <1>1, <1>3 DEF FilesOfArrived
  <2>2. \A c \in 1..Len(objects), f \in File : objects[c].files[f] \in Arrived' \cup {None}
    BY <1>1, <1>3 DEF FilesOfArrived
  <2>3. \A s \in Request : handler'[s].before \in Arrived' \cup {None}
    BY <1>1, <1>3 DEF FilesOfArrived
  <2>4. handler'[Creator].pc = "none" => live.files = HeadFiles
    BY <1>1 DEF FilesOfArrived
  <2> QED
    BY <1>1, <2>1, <2>2, <2>3, <2>4 DEF FilesOfArrived, HeadFiles
<1>12. CommitsKept'
  <2> SUFFICES ASSUME NEW s \in Request, handler'[s].pc = "done", Alone(s)',
                      handler'[s].commit # NoCommit
               PROVE  /\ Own(s, handler[s].commit)'
                      /\ handler'[s].commit \in Branches'[live'.head]
                      /\ \A t \in UnderWay' :
                           handler'[t].commit # NoCommit
                             => handler'[s].commit \in Branches'[handler'[t].commit]
    BY DEF CommitsKept
  <2>1. /\ s # r /\ handler[s].pc = "done" /\ Alone(s) /\ handler'[s] = handler[s]
             /\ met'[s] = met[s]
        /\ handler[s].commit # NoCommit
    BY <1>5
  <2>2. /\ Own(s, handler[s].commit) /\ handler[s].commit \in Branches[live.head]
        /\ \A t \in UnderWay : handler[t].commit # NoCommit
                                 => handler[s].commit \in Branches[handler[t].commit]
    BY <1>1, <2>1 DEF CommitsKept
  <2>3. Branches' = Branches
    BY <1>1 DEF Branches
  <2>4. Own(s, handler[s].commit)'
    BY <1>1, <2>1, <2>2 DEF Own
  <2> QED
    BY <1>1, <1>3, <2>1, <2>2, <2>3, <2>4
<1>13. AloneClean'
  <2> SUFFICES ASSUME NEW s \in UnderWay', Alone(s)' PROVE CleanFor(s)'
    BY DEF AloneClean
  <2>1. CASE s = r
    <3>1. \A f \in File : HeadFiles[f] # r
      <4>1. live.head \in 1..Len(objects)
        BY <1>1 DEF RepositoryRows
      <4> QED
        BY <1>1, <1>3, <4>1 DEF FilesOfArrived, HeadFiles
    <3>2. \A f \in File : Expected(r, f, live.files[f])'
      BY <1>1, <1>3, <2>1 DEF Expected, HeadFiles
    <3>3. HeadFiles' = HeadFiles
      BY <1>1 DEF HeadFiles
    <3> QED
      BY <2>1, <3>1, <3>2, <3>3 DEF CleanFor
  <2>2. CASE s # r
    <3>1. CleanFor(s)
      BY <1>1, <1>3, <1>5, <2>2 DEF AloneClean
    <3>2. handler'[s] = handler[s] /\ met'[s] = met[s]
      BY <1>3, <2>2
    <3> QED
      BY <1>1, <3>1, <3>2 DEF CleanFor, Expected, Own, HeadFiles, HasCommitted
  <2> QED
    BY <2>1, <2>2
<1> QED
  BY <1>2, <1>6, <1>7, <1>8, <1>10, <1>11, <1>12, <1>13 DEF ToldInv, HistoryInv, TreeInv,
     CommitsStay

\* The gate of prompts, edits and commits, reports, and the project's creation.
LEMMA ArrivalsTell ==
  ASSUME ToldInv, NEW r \in Request,
         CheckNoActiveRun(r) \/ ReportValidation(r) \/ (r = Creator /\ CreateProject)
  PROVE  ToldInv'
<1> USE ProjectActivityAssumption
<1>1. /\ handler \in [Request -> HandlerRow] /\ handler[r] \in HandlerRow /\ HistoryRow
      /\ met \in [Request -> [unseen : SUBSET Request, answered : SUBSET Request,
           dirty : SUBSET File]]
      /\ HandlerStands(r) /\ OnlyArrived /\ FilesOfArrived /\ CreatorFirst
  BY DEF ToldInv, ActivityInv, ActivityRows, HandlersStand, HistoryInv, TreeInv
<1>2. ActivityInv'
  BY ArrivalsKeepInv, CreateProjectKeepsInv DEF ToldInv
<1>3. LocalsAssigned(r)
  BY <1>1, LocalsAre
<1>4. handler[r].pc = "none" /\ UNCHANGED <<history, tree, rowStatus>>
  BY DEF CheckNoActiveRun, ReportValidation, CreateProject, MayArrive, At
<1>5. UnderWay \subseteq Arrived /\ met[r].unseen \subseteq Arrived
  BY <1>1 DEF UnderWay, Arrived, OnlyArrived
<1>6. ASSUME NEW unseen \in SUBSET UnderWay, Admit(r, unseen)
      PROVE  /\ \A s \in Request \ {r} : met'[s] = met[s]
             /\ met'[r].unseen \subseteq Arrived
             /\ \A s \in Request : handler[s].pc = "done" => s \in met'[r].answered
             /\ \A f \in File : live.files[f] # HeadFiles[f] => f \in met'[r].dirty
  BY <1>1, <1>5, <1>6 DEF Admit, Dirty, At
<1> DEFINE Comes == /\ \A s \in Request \ {r} : handler'[s] = handler[s]
                    /\ handler'[r].commit = NoCommit
                    /\ handler'[r].copy \in {handler[r].copy, <<>>}
                    /\ handler'[r].before \in {handler[r].before, None}
                    /\ handler'[r].fix \in {handler[r].fix, FALSE}
<1>7. ASSUME NEW pc \in HandlerPc, NEW kind \in Kind,
             \/ handler' = [handler EXCEPT ![r].kind = kind, ![r].pc = pc]
             \/ handler' = [handler EXCEPT ![r].pc = pc, ![r].kind = kind]
      PROVE  Comes /\ handler'[r].pc = pc /\ handler'[r].kind = kind
  <2>1. handler[r].commit = NoCommit
    BY <1>1, <1>4 DEF HandlerStands
  <2>2. /\ Goes(r, pc, handler[r].commit, handler[r].fix) /\ SameStep(r)
        /\ handler'[r].copy = handler[r].copy /\ handler'[r].kind = kind
    BY <1>3, <1>7 DEF LocalsAssigned
  <2> QED
    BY <2>1, <2>2 DEF Goes, SameStep
<1>8. ~handler[r].fix
  BY <1>1, <1>4 DEF HandlerStands
<1>9. CASE r = Creator /\ CreateProject
  <2>1. PICK kind \in Kind : handler' = [handler EXCEPT ![r].pc = "stage", ![r].kind = kind]
    BY <1>9 DEF CreateProject, Kind
  <2>2. Comes /\ handler'[r].pc = "stage"
    <3>1. "stage" \in HandlerPc
      BY DEF HandlerPc
    <3> QED
      BY <1>7, <2>1, <3>1
  <2>3. met' = met /\ \A s \in Request : handler[s].pc = "none"
    BY <1>1, <1>4, <1>9 DEF CreateProject, ghosts, CreatorFirst
  <2>4. live.files = HeadFiles
    BY <1>1, <1>4, <1>9 DEF FilesOfArrived
  <2>5. HandlerStands(r)'
    BY <1>8, <1>9, <2>2 DEF HandlerStands
  <2> QED
    BY <1>2, <1>4, <1>5, <2>2, <2>3, <2>4, <2>5, NewcomerTells
<1>10. CASE Refuse(r) /\ met' = met
  <2>1. Comes /\ handler'[r].pc = "refused"
    BY <1>3, <1>10 DEF LocalsAssigned, Goes
  <2>2. HandlerStands(r)'
    BY <1>8, <2>1 DEF HandlerStands
  <2> QED
    BY <1>2, <1>4, <1>5, <1>10, <2>1, <2>2, NewcomerTells
<1>11. ASSUME NEW pc \in {"limit", "insert", "sweep", "read"}, NEW kind \in Kind,
              handler' = [handler EXCEPT ![r].kind = kind, ![r].pc = pc],
              pc = "sweep" => kind = "commit", r # Creator,
              NEW unseen \in SUBSET UnderWay, Admit(r, unseen)
       PROVE  ToldInv'
  <2>1. pc \in HandlerPc
    BY DEF HandlerPc
  <2>2. Comes /\ handler'[r].pc = pc /\ handler'[r].kind = kind
    BY <1>7, <1>11, <2>1
  <2>3. HandlerStands(r)'
    BY <1>8, <1>11, <2>2 DEF HandlerStands
  <2> QED
    BY <1>2, <1>4, <1>6, <1>11, <2>2, <2>3, NewcomerTells
<1>12. CASE CheckNoActiveRun(r) /\ ~HasActiveAgentRun
  <2>1. PICK gate \in {<<"builder", "limit">>, <<"file", "insert">>, <<"commit", "sweep">>} :
          handler' = [handler EXCEPT ![r].kind = gate[1], ![r].pc = gate[2]]
    BY <1>12 DEF CheckNoActiveRun
  <2>2. /\ gate[1] \in Kind /\ gate[2] \in {"limit", "insert", "sweep", "read"}
        /\ gate[2] = "sweep" => gate[1] = "commit"
    BY DEF Kind
  <2>3. Unseen(r) \in SUBSET UnderWay /\ Admit(r, Unseen(r)) /\ r # Creator
    BY <1>12 DEF CheckNoActiveRun, Unseen, MayArrive
  <2> QED
    BY <1>11, <2>1, <2>2, <2>3
<1>13. CASE ReportValidation(r)
  <2>1. /\ handler' = [handler EXCEPT ![r].pc = "read", ![r].kind = "validate"]
        /\ Admit(r, UnderWay) /\ r # Creator
    BY <1>13 DEF ReportValidation, MayArrive
  <2>2. handler' = [handler EXCEPT ![r].kind = "validate", ![r].pc = "read"]
    BY <1>1, <2>1 DEF HandlerRow
  <2>3. "validate" \in Kind
    BY DEF Kind
  <2> QED
    BY <1>11, <2>1, <2>2, <2>3
<1> QED
  BY <1>9, <1>10, <1>12, <1>13 DEF CheckNoActiveRun

\* A crash: nobody is under way any more, and nobody's copy is written back.
LEMMA CrashTells == ASSUME ToldInv, CrashServer PROVE ToldInv'
<1> USE ProjectActivityAssumption
<1> DEFINE gone == [NoLocals EXCEPT !.pc = "refused"]
<1>1. /\ RepositoryRows /\ OneBranching(objects) /\ FilesOfArrived /\ CommitsKept
      /\ OnlyArrived /\ HistoryTells /\ HandlersStand
      /\ handler \in [Request -> HandlerRow]
  BY DEF ToldInv, ActivityInv, ActivityRows, TreeInv, HistoryInv
<1>2. /\ objects' = objects /\ live' = live /\ history' = history /\ rowStatus' = rowStatus
           /\ met' = met
      /\ handler' = [r \in Request |-> IF r \in UnderWay THEN gone ELSE handler[r]]
  BY DEF CrashServer, tree
<1>3. /\ gone.pc = "refused" /\ gone.commit = NoCommit /\ gone.fix = FALSE
      /\ gone.before = None /\ gone.copy = <<>>
  BY DEF NoLocals
<1> HIDE DEF gone
<1>4. /\ \A r \in Request : handler'[r] = gone \/ (r \notin UnderWay /\ handler'[r] = handler[r])
      /\ \A r \in Request : handler[r].pc = "none" <=> handler'[r].pc = "none"
      /\ UnderWay' = {} /\ Arrived' = Arrived
  BY <1>1, <1>2, <1>3 DEF UnderWay, Arrived
<1>5. ActivityInv' /\ CommitsStay
  BY <1>1, <1>2, CrashKeepsInv, BranchesStay DEF ToldInv
<1>6. HandlersStand'
  <2> SUFFICES ASSUME NEW r \in Request PROVE HandlerStands(r)'
    BY DEF HandlersStand
  <2>1. CASE handler'[r] = gone
    BY <1>3, <2>1 DEF HandlerStands
  <2>2. CASE handler'[r] = handler[r]
    BY <1>1, <1>2, <2>2 DEF HandlersStand, HandlerStands
  <2> QED
    BY <1>4, <2>1, <2>2
<1>7. OnlyArrived'
  <2> SUFFICES ASSUME NEW r \in Request, NEW i \in 1..Len(handler'[r].copy)
               PROVE  handler'[r].copy[i] \in Arrived
    BY <1>1, <1>2, <1>4 DEF OnlyArrived
  <2>1. CASE handler'[r] = gone
    <3>1. Len(<<>>) = 0
      OBVIOUS
    <3> QED
      BY <1>3, <2>1, <3>1
  <2>2. CASE handler'[r] = handler[r]
    BY <1>1, <2>2 DEF OnlyArrived
  <2> QED
    BY <1>4, <2>1, <2>2
<1>8. DoneKnown' /\ AloneClean'
  BY <1>4 DEF DoneKnown, AloneClean
<1>9. HistoryTells'
  <2> SUFFICES ASSUME NEW r \in Request, handler'[r].pc = "done", Alone(r)',
                      handler'[r].kind # "commit"
               PROVE  TellsOf(history, r) /\ \A s \in Request : handler'[s].pc # "write"
    BY <1>2 DEF HistoryTells, TellsOf
  <2>1. handler'[r] = handler[r] /\ Alone(r)
    BY <1>2, <1>3, <1>4 DEF Alone, Met
  <2>2. \A s \in Request : handler'[s].pc # "write"
    BY <1>3, <1>4 DEF UnderWay
  <2> QED
    BY <1>1, <2>1, <2>2 DEF HistoryTells
<1>10. FilesOfArrived'
  <2>1. \A r \in Request : handler'[r].before \in Arrived \cup {None}
    BY <1>1, <1>3, <1>4 DEF FilesOfArrived
  <2> QED
    BY <1>1, <1>2, <1>4, <2>1 DEF FilesOfArrived, HeadFiles
<1>11. CommitsKept'
  <2> SUFFICES ASSUME NEW r \in Request, handler'[r].pc = "done", Alone(r)',
                      handler'[r].commit # NoCommit
               PROVE  Own(r, handler[r].commit)' /\ handler'[r].commit \in Branches'[live'.head]
    BY <1>4 DEF CommitsKept
  <2>1. handler'[r] = handler[r] /\ Alone(r)
    BY <1>2, <1>3, <1>4 DEF Alone, Met
  <2>2. Branches' = Branches
    BY <1>2 DEF Branches
  <2> QED
    BY <1>1, <1>2, <2>1, <2>2 DEF CommitsKept, Own
<1> QED
  BY <1>5, <1>6, <1>7, <1>8, <1>9, <1>10, <1>11 DEF ToldInv, HistoryInv, TreeInv, CommitsStay

\* A run that a crash left ends in a worktree of its own, or nothing happens.
LEMMA NobodyMovesTells ==
  ASSUME ToldInv, ActivityInv', UNCHANGED <<history, tree, handler, met>>,
         \A s \in Request : rowStatus'[s] = rowStatus[s] \/ handler[s].pc = "refused"
  PROVE  ToldInv'
<1>1. /\ objects' = objects /\ live' = live /\ history' = history /\ handler' = handler
           /\ met' = met
      /\ UnderWay' = UnderWay /\ Arrived' = Arrived /\ HeadFiles' = HeadFiles
           /\ Branches' = Branches
      /\ \A r \in Request : Alone(r)' = Alone(r)
  BY DEF tree, UnderWay, Arrived, HeadFiles, Branches, Alone, Met
<1>2. HandlersStand'
  BY <1>1 DEF ToldInv, HandlersStand, HandlerStands
<1>3. HistoryInv'
  BY <1>1 DEF ToldInv, HistoryInv, OnlyArrived, DoneKnown, HistoryTells, TellsOf, Met
<1>4. OneBranching(objects)' /\ FilesOfArrived' /\ CommitsKept'
  BY <1>1 DEF ToldInv, TreeInv, OneBranching, IsBranches, FilesOfArrived, CommitsKept, Own
<1>5. AloneClean'
  <2> SUFFICES ASSUME NEW r \in UnderWay, Alone(r) PROVE CleanFor(r)'
    BY <1>1 DEF AloneClean, UnderWay
  <2>1. CleanFor(r) /\ rowStatus'[r] = rowStatus[r]
    BY DEF ToldInv, TreeInv, AloneClean, UnderWay
  <2> QED
    BY <1>1, <2>1 DEF CleanFor, Expected, Own, HasCommitted
<1> QED
  BY <1>2, <1>3, <1>4, <1>5 DEF ToldInv, TreeInv

\* Nobody has come, and the repository's one commit is on top of nothing.
LEMMA ToldInitInv == ASSUME ActivityInit PROVE ToldInv
<1> USE ProjectActivityAssumption DEF ActivityInit
<1>1. ActivityInv
  BY ActivityInitInv
<1>2. /\ NoLocals.pc = "none" /\ NoLocals.commit = NoCommit /\ NoLocals.fix = FALSE
      /\ NoLocals.before = None /\ NoLocals.copy = <<>>
  BY DEF NoLocals
<1>3. \A r \in Request : handler[r] = NoLocals
  OBVIOUS
<1>4. Arrived = {} /\ UnderWay = {}
  BY <1>2, <1>3 DEF Arrived, UnderWay
<1>5. HandlersStand
  BY <1>2, <1>3 DEF HandlersStand, HandlerStands
<1>6. HistoryInv
  <2>1. Len(<<>>) = 0
    OBVIOUS
  <2>2. OnlyArrived
    BY <1>2, <1>3, <2>1 DEF OnlyArrived
  <2>3. DoneKnown /\ HistoryTells
    BY <1>2, <1>3, <1>4 DEF DoneKnown, HistoryTells
  <2> QED
    BY <2>2, <2>3 DEF HistoryInv
<1>7. OneBranching(objects)
  <2> DEFINE on(b, c) == {c} \cup b
             first == [c \in 0..1 |-> IF c = 0 THEN {} ELSE {1}]
  <2>1. Len(objects) = 1 /\ objects[1].parent = 0
    BY DEF NoCommit
  <2>0. /\ on({}, 1) = {1} /\ first[0] = {} /\ first[1] = {1}
        /\ \A c \in 0..1 : c = 0 \/ c = 1
    OBVIOUS
  <2>2. ASSUME NEW b PROVE IsBranches(b, objects) <=> b = [c \in 0..1 |-> IF c = 0 THEN {}
                 ELSE on(b[objects[c].parent], c)]
    BY <2>1 DEF IsBranches
  <2>3. ASSUME NEW b, IsBranches(b, objects) PROVE b = first
    <3>1. b = [c \in 0..1 |-> IF c = 0 THEN {} ELSE on(b[objects[c].parent], c)]
      BY <2>2, <2>3
    <3>2. b[0] = {}
      BY <3>1
    <3>3. b[1] = on(b[0], 1)
      BY <2>1, <3>1
    <3>4. \A c \in 0..1 : b[c] = first[c]
      BY <2>0, <3>2, <3>3
    <3> QED
      BY <3>1, <3>4
  <2>4. IsBranches(first, objects)
    <3>1. \A c \in 0..1 : first[c] = IF c = 0 THEN {} ELSE on(first[objects[c].parent], c)
      <4>1. first[1] = on(first[objects[1].parent], 1)
        BY <2>0, <2>1
      <4> HIDE DEF first
      <4> QED
        BY <2>0, <4>1
    <3>2. first = [c \in 0..1 |-> IF c = 0 THEN {} ELSE on(first[objects[c].parent], c)]
      BY <3>1
    <3> QED
      BY <2>2, <3>2
  <2> QED
    BY <2>3, <2>4 DEF OneBranching
<1>8. FilesOfArrived
  <2>1. Len(objects) = 1 /\ objects[1].files = [f \in File |-> None]
          /\ live.files = [f \in File |-> None]
        /\ HeadFiles = live.files
    BY DEF HeadFiles
  <2> QED
    BY <1>2, <1>3, <2>1 DEF FilesOfArrived
<1>9. CommitsKept /\ AloneClean
  BY <1>2, <1>3, <1>4 DEF CommitsKept, AloneClean
<1> QED
  BY <1>1, <1>5, <1>6, <1>7, <1>8, <1>9 DEF ToldInv, TreeInv

\* What the invariant says of who has answered.
LEMMA ToldInvTells == ASSUME ToldInv PROVE ActivityTold
<1> SUFFICES ASSUME NEW r \in Request, handler[r].pc = "done", Alone(r)
             PROVE  /\ handler[r].kind # "commit" =>
                         \/ \E i \in DOMAIN history : history[i] = r
                         \/ /\ Len(history) = MaxHistory
                            /\ \A i \in DOMAIN history : r \in met[history[i]].answered
                    /\ handler[r].commit # NoCommit =>
                         /\ handler[r].commit \in OnBranch
                         /\ \A f \in File :
                              \/ objects[handler[r].commit].files[f] = r \/ f \in met[r].dirty
                              \/ objects[handler[r].commit].files[f]
                                   = objects[objects[handler[r].commit].parent].files[f]
  BY DEF ActivityTold
<1>1. DOMAIN history = 1..Len(history)
  BY LenProperties DEF ToldInv, ActivityInv, HistoryRow
<1>2. handler[r].kind # "commit" => TellsOf(history, r)
  BY DEF ToldInv, HistoryInv, HistoryTells
<1>3. handler[r].commit # NoCommit => Own(r, handler[r].commit)
        /\ handler[r].commit \in Branches[live.head]
  BY DEF ToldInv, TreeInv, CommitsKept
<1>4. handler[r].kind # "commit" =>
        \/ \E i \in DOMAIN history : history[i] = r
        \/ Len(history) = MaxHistory /\ \A i \in DOMAIN history : r \in met[history[i]].answered
  BY <1>1, <1>2 DEF TellsOf
<1> QED
  BY <1>3, <1>4, OnBranchIs DEF Own

\* For any number of requests, files, corrections and crashes, and a history of any
\* length: a request that met no other is told by the history until later ones push
\* it out, and its commit stays on the branch and holds its own changes only.
THEOREM ActivityIsTold == ActivitySpec => []ActivityTold
<1>1. ActivityInit => ToldInv
  BY ToldInitInv
<1>2. ToldInv /\ [ActivityNext]_activityVars => ToldInv'
  <2> SUFFICES ASSUME ToldInv, [ActivityNext]_activityVars PROVE ToldInv'
    OBVIOUS
  <2>1. ASSUME NEW r \in Request, ActivityStep(r) PROVE ToldInv'
    <3>1. CASE CheckNoActiveRun(r) \/ ReportValidation(r)
      BY <3>1, ArrivalsTell
    <3>2. CASE StageFile(r) \/ ApplyFile(r) \/ RestoreFile(r) \/ PolicyRollsBack(r)
      BY <3>2, TreeStepsTell
    <3>3. CASE CommitFile(r) \/ CommitByHand(r)
      BY <3>3, CommitStepsTell
    <3>4. CASE ReadProject(r) \/ UpdateProject(r)
      BY <3>4, HistoryStepsTell
    <3>5. CASE EndCrashedRun(r)
      <4>1. ActivityInv'
        BY <3>5, CrashKeepsInv DEF ToldInv
      <4>2. UNCHANGED <<history, tree, handler, met>>
        BY <3>5 DEF EndCrashedRun, ghosts
      <4>3. \A s \in Request : rowStatus'[s] = rowStatus[s] \/ handler[s].pc = "refused"
        BY <3>5 DEF EndCrashedRun, Status, ToldInv, ActivityInv, ActivityRows
      <4> QED
        BY <4>1, <4>2, <4>3, NobodyMovesTells
    <3>6. CASE \/ ConsumeRateLimit(r) \/ InsertRun(r) \/ EnterProjectRun(r) \/ ToolFails(r)
               \/ EndProjectRun(r) \/ QueueInvariantCorrection(r) \/ QueueValidationCorrection(r)
               \/ KeepRefusedCorrection(r) \/ DeriveResult(r)
      BY <3>6, QuietStepsTell
    <3> QED
      BY <2>1, <3>1, <3>2, <3>3, <3>4, <3>5, <3>6 DEF ActivityStep
  <2>2. CASE CreateProject
    BY <2>2, ArrivalsTell, ProjectActivityAssumption
  <2>3. CASE ScaffoldFails \/ BootstrapRun
    BY <2>3, CreatorStepsTell
  <2>4. CASE CrashServer
    BY <2>4, CrashTells
  <2>5. CASE UNCHANGED activityVars
    <3>1. ActivityInv'
      BY <2>5, ActivityStutter DEF ToldInv
    <3> QED
      BY <2>5, <3>1, NobodyMovesTells DEF activityVars, tree
  <2> QED
    BY <2>1, <2>2, <2>3, <2>4, <2>5 DEF ActivityNext
<1>3. ToldInv => ActivityTold
  BY ToldInvTells
<1> QED
  BY <1>1, <1>2, <1>3, PTL DEF ActivitySpec
-----------------------------------------------------------------------------
(* The sessions of a browser.                                              *)

CallPc == {"none", "sent", "denied", "cleared", "revoke", "served", "refused", "waiting", "done",
           "refresh", "rotate", "reuse", "fresh", "stale", "missing"}

\* The statements of a refresh, until the page has heard of it.
RefreshPc == {"refresh", "rotate", "reuse", "fresh", "stale", "missing"}

AnySid == Sid \cup {NoSid}

CallRow == [pc : CallPc, tab : Tab \cup {NoCall}, logout : BOOLEAN, again : BOOLEAN,
            sid : AnySid, refresh : Nat, heard : BOOLEAN]

SessionRow == [hash : Nat, revoked : BOOLEAN, expired : BOOLEAN]

SessionRows ==
  /\ issued \in Nat
  /\ session \in [Sid -> SessionRow] /\ \A s \in Sid : session[s].hash <= issued
  /\ cookies \in [sid : AnySid, refresh : Nat] /\ cookies.refresh <= issued
  /\ tab \in [Tab -> [signedIn : BOOLEAN, refreshInFlight : Call \cup {NoCall}, login : AnySid]]
  /\ call \in [Call -> CallRow] /\ \A c \in Call : call[c].refresh <= issued
  /\ trouble \in [apart : SUBSET AnySid, lost : Nat, reused : SUBSET AnySid,
                  loggedOut : SUBSET Sid, raced : SUBSET Sid]

\* A token that is the one its session's row knows, unless tabs came apart.
Current(s, token) == token = session[s].hash \/ s \in trouble.apart

\* What a call carries fits the rows, and its tab waits for its refresh unless
\* the connection broke.
CallFits(c) ==
  LET s == call[c].sid
  IN
  /\ call[c].pc # "none" => TabOf(c) \in Tab
  /\ s # NoSid => session[s].hash # 0
  /\ call[c].pc \notin RefreshPc => call[c].heard
  /\ call[c].pc \in RefreshPc /\ call[c].heard => tab[TabOf(c)].refreshInFlight = c
  /\ ~call[c].heard => s \in trouble.apart
  /\ call[c].pc \in {"revoke", "rotate", "reuse", "fresh"} => s # NoSid
  /\ call[c].pc = "refresh" /\ s # NoSid => Current(s, call[c].refresh)
  /\ call[c].pc = "fresh" => Current(s, call[c].refresh)
  /\ call[c].pc = "reuse" => s \in trouble.apart
  /\ call[c].pc = "rotate" => s \notin trouble.loggedOut \ trouble.raced

CallsFit == \A c \in Call : CallFits(c)

CookiesFit ==
  cookies.sid # NoSid =>
    /\ session[cookies.sid].hash # 0
    /\ Current(cookies.sid, cookies.refresh) \/ Refreshing(cookies.sid) # {}

LoginsFit == \A t \in Tab : tab[t].login # NoSid => session[tab[t].login].hash # 0

\* Two refreshes of one session meet only when tabs came apart.
RefreshesApart ==
  \A c, d \in Call : /\ c # d /\ call[c].sid = call[d].sid
                     /\ c \in Refreshing(call[c].sid) /\ d \in Refreshing(call[d].sid)
                     => call[c].sid \in trouble.apart

EndsHold ==
  /\ trouble.reused \subseteq trouble.apart
  /\ \A s \in trouble.loggedOut \ trouble.raced : session[s].revoked

\* Inductive.
SessionsInv ==
  SessionRows /\ CallsFit /\ CookiesFit /\ LoginsFit /\ RefreshesApart /\ EndsHold

\* A session that was revoked is not valid.
LEMMA SessionsInvImplies == ASSUME SessionsInv PROVE SessionsTypeOK /\ SessionKept
<1> USE SessionsAssumption DEF SessionsInv
<1>1. session \in [Sid -> [hash : 0..issued, revoked : BOOLEAN, expired : BOOLEAN]]
  BY DEF SessionRows, SessionRow
<1>2. cookies \in [sid : Sid \cup {NoSid}, refresh : 0..issued]
  BY DEF SessionRows, AnySid
<1>3. \A t \in Tab : tab[t].refreshInFlight \in Call \cup {NoCall} /\ tab[t].login \in Sid \cup {NoSid}
  BY DEF SessionRows, AnySid
<1>4. \A c \in Call : TabOf(c) \in Tab \cup {NoCall} /\ call[c].refresh \in 0..issued
  BY DEF SessionRows, CallRow, TabOf
<1>5. cookies.sid # NoSid =>
       \/ cookies.refresh = session[cookies.sid].hash
       \/ Refreshing(cookies.sid) # {} \/ cookies.sid \in trouble.apart
  BY DEF CookiesFit, Current
<1>6. \A s \in trouble.loggedOut \ trouble.raced : ~Valid(s)
  BY DEF EndsHold, Valid
<1> QED
  BY <1>1, <1>2, <1>3, <1>4, <1>5, <1>6 DEF SessionsTypeOK, SessionKept, EndsHold

\* The browser begins with the cookies of its one session.
LEMMA SessionsInitInv == ASSUME SessionsInit PROVE SessionsInv
<1> USE SessionsAssumption DEF SessionsInit
<1>1. NotMade \in CallRow /\ NotMade.pc = "none" /\ NotMade.sid = NoSid /\ NotMade.heard
      /\ NotMade.refresh = 0
  BY DEF NotMade, CallRow, CallPc, AnySid
<1>2. 1 \in Sid /\ NoSid \notin Sid /\ Sid \subseteq Nat
  BY DEF Sid, NoSid
<1>3. SessionRows
  BY <1>1, <1>2 DEF SessionRows, SessionRow, AnySid
<1>4. CallsFit
  BY <1>1 DEF CallsFit, CallFits, RefreshPc
<1>5. CookiesFit /\ LoginsFit
  BY <1>2 DEF CookiesFit, LoginsFit, Current
<1>6. RefreshesApart /\ EndsHold
  BY <1>1 DEF RefreshesApart, EndsHold, Refreshing
<1> QED
  BY <1>3, <1>4, <1>5, <1>6 DEF SessionsInv

\* A call that goes on with what it carries.
LEMMA CallMoves ==
  ASSUME call \in [Call -> CallRow], NEW c \in Call, NEW pc \in CallPc, CallGoto(c, pc)
  PROVE  /\ call' \in [Call -> CallRow] /\ \A d \in Call \ {c} : call'[d] = call[d]
         /\ call'[c].pc = pc /\ call'[c].tab = call[c].tab /\ call'[c].sid = call[c].sid
         /\ call'[c].refresh = call[c].refresh /\ call'[c].heard = call[c].heard
         /\ call'[c].logout = call[c].logout /\ call'[c].again = call[c].again
  BY DEF CallGoto, CallRow

\* One call moves: the others fit as they did, if the rows and the tabs that they
\* rely on are as they were.
LEMMA OneCallMoves ==
  ASSUME SessionsInv, NEW c \in Call, CallFits(c)', SessionRows',
         \A d \in Call \ {c} : call'[d] = call[d],
         \A t \in Tab : /\ tab'[t].login = tab[t].login
                        /\ \/ tab'[t].refreshInFlight = tab[t].refreshInFlight
                           \/ \A d \in Call \ {c} : TabOf(d) = t /\ call[d].pc \in RefreshPc =>
                                                      ~call[d].heard,
         \A s \in Sid : session[s].hash # 0 => session'[s].hash # 0,
         trouble.apart \subseteq trouble'.apart,
         \A d \in Call \ {c} : call[d].pc \in {"refresh", "fresh"} /\ call[d].sid # NoSid =>
           \/ session'[call[d].sid].hash = session[call[d].sid].hash
           \/ call[d].sid \in trouble'.apart,
         \A d \in Call \ {c} : call[d].pc = "rotate" /\ call[d].sid \in trouble'.loggedOut \ trouble'.raced =>
           call[d].sid \in trouble.loggedOut \ trouble.raced
  PROVE  CallsFit' /\ LoginsFit'
<1>1. /\ call \in [Call -> CallRow] /\ \A t \in Tab : tab[t].login \in AnySid
      /\ \A d \in Call : call[d].sid \in AnySid
  BY DEF SessionsInv, SessionRows, CallRow
<1>2. LoginsFit'
  BY <1>1 DEF SessionsInv, LoginsFit, AnySid
<1>3. ASSUME NEW d \in Call \ {c} PROVE CallFits(d)'
  <2> DEFINE s == call[d].sid
  <2>1. call'[d] = call[d] /\ s \in AnySid /\ CallFits(d) /\ TabOf(d)' = TabOf(d)
    BY <1>1 DEF SessionsInv, CallsFit, TabOf
  <2>2. s # NoSid => session'[s].hash # 0
    BY <2>1 DEF CallFits, AnySid
  <2>3. call[d].pc \in RefreshPc /\ call[d].heard =>
          tab'[TabOf(d)].refreshInFlight = d
    BY <2>1 DEF CallFits, RefreshPc
  <2>4. /\ call[d].pc = "refresh" /\ s # NoSid => Current(s, call[d].refresh)'
        /\ call[d].pc = "fresh" => Current(s, call[d].refresh)'
    BY <2>1 DEF CallFits, Current
  <2> QED
    BY <2>1, <2>2, <2>3, <2>4 DEF CallFits
<1> QED
  BY <1>2, <1>3 DEF CallsFit

\* A call that does not begin a refresh meets no other refresh.
LEMMA NoRefreshBegins ==
  ASSUME SessionsInv, NEW c \in Call, \A d \in Call \ {c} : call'[d] = call[d],
         trouble.apart \subseteq trouble'.apart,
         \/ call'[c].pc \notin {"refresh", "rotate", "reuse", "fresh", "stale"}
         \/ call[c].pc \in {"refresh", "rotate", "reuse", "fresh", "stale"}
              /\ call'[c].sid = call[c].sid
  PROVE  RefreshesApart'
  BY DEF SessionsInv, RefreshesApart, Refreshing

\* The cookies still fit, when the refresh they may be waiting for goes on.
LEMMA CookiesStay ==
  ASSUME SessionsInv, NEW c \in Call, \A d \in Call \ {c} : call'[d] = call[d],
         cookies' = cookies, trouble.apart \subseteq trouble'.apart,
         \A s \in Sid : session[s].hash # 0 => session'[s].hash # 0,
         \/ \A s \in Sid : session'[s].hash = session[s].hash
         \/ /\ c \in Refreshing(cookies.sid)' \/ call'[c].sid # cookies.sid
            /\ \A s \in Sid \ {call'[c].sid} : session'[s].hash = session[s].hash,
         c \in Refreshing(cookies.sid) => c \in Refreshing(cookies.sid)'
  PROVE  CookiesFit'
<1> SUFFICES ASSUME cookies.sid # NoSid
             PROVE  /\ session'[cookies.sid].hash # 0
                    /\ Current(cookies.sid, cookies.refresh)' \/ Refreshing(cookies.sid)' # {}
  BY DEF CookiesFit
<1>1. cookies.sid \in Sid
  BY DEF SessionsInv, SessionRows, AnySid
<1>2. \A d \in Call \ {c} : d \in Refreshing(cookies.sid) => d \in Refreshing(cookies.sid)'
  BY DEF Refreshing
<1>3. Refreshing(cookies.sid) \subseteq Call
  BY DEF Refreshing
<1>4. Current(cookies.sid, cookies.refresh) \/ Refreshing(cookies.sid) # {}
  BY DEF SessionsInv, CookiesFit
<1>5. CASE Refreshing(cookies.sid)' # {}
  BY <1>1, <1>5 DEF SessionsInv, CookiesFit
<1>6. CASE Refreshing(cookies.sid)' = {}
  BY <1>1, <1>2, <1>3, <1>4, <1>6 DEF SessionsInv, CookiesFit, Current
<1> QED
  BY <1>5, <1>6

\* A call is made, and comes to its handler or back from it.
LEMMA CallStepsKeepInv ==
  ASSUME SessionsInv, NEW c \in Call,
         (\E t \in Tab : SendCall(c, t)) \/ Authorize(c) \/ ReadForRefresh(c)
  PROVE  SessionsInv'
<1> DEFINE Moves ==
             /\ call' \in [Call -> CallRow] /\ \A d \in Call \ {c} : call'[d] = call[d]
             /\ call'[c].refresh <= issued
           Rows == UNCHANGED <<session, issued, cookies, tab, trouble>>
<1>1. /\ call \in [Call -> CallRow] /\ call[c] \in CallRow /\ CallFits(c) /\ SessionRows
      /\ issued \in Nat /\ cookies.sid \in AnySid /\ call[c].refresh <= issued
  BY DEF SessionsInv, SessionRows, CallsFit
<1>2. ASSUME Moves, Rows, CallFits(c)',
             \/ call'[c].pc \notin {"refresh", "rotate", "reuse", "fresh", "stale"}
                  /\ call[c].pc \notin {"refresh", "rotate", "reuse", "fresh", "stale"}
             \/ /\ call[c].pc \in {"refresh", "rotate", "reuse", "fresh", "stale"}
                /\ call'[c].sid = call[c].sid
                /\ call'[c].sid # NoSid => call'[c].pc \in {"refresh", "rotate", "reuse", "fresh", "stale"}
      PROVE  SessionsInv'
  <2>1. SessionRows'
    BY <1>1, <1>2 DEF SessionRows
  <2>2. CallsFit' /\ LoginsFit'
    BY <1>2, <2>1, OneCallMoves
  <2>3. RefreshesApart'
    BY <1>2, NoRefreshBegins
  <2>4. CookiesFit'
    <3>1. CASE cookies.sid = NoSid
      BY <1>2, <3>1 DEF CookiesFit
    <3>2. CASE cookies.sid # NoSid
      <4>1. c \in Refreshing(cookies.sid) => c \in Refreshing(cookies.sid)'
        BY <1>2, <3>2 DEF Refreshing
      <4> QED
        BY <1>2, <4>1, CookiesStay
    <3> QED
      BY <3>1, <3>2
  <2>5. EndsHold'
    BY <1>2 DEF SessionsInv, EndsHold
  <2> QED
    BY <2>1, <2>2, <2>3, <2>4, <2>5 DEF SessionsInv
<1>3. ASSUME NEW t \in Tab, SendCall(c, t) PROVE SessionsInv'
  <2>1. PICK logout \in BOOLEAN :
          call' = [call EXCEPT ![c] = [NotMade EXCEPT !.pc = "sent", !.tab = t,
                                         !.logout = logout, !.sid = cookies.sid]]
    BY <1>3 DEF SendCall
  <2> DEFINE new == [NotMade EXCEPT !.pc = "sent", !.tab = t, !.logout = logout, !.sid = cookies.sid]
  <2>2. /\ new \in CallRow /\ new.pc = "sent" /\ new.tab = t /\ new.sid = cookies.sid
        /\ new.heard /\ new.refresh = 0
    BY <1>1 DEF NotMade, CallRow, CallPc, AnySid
  <2>7. call' = [call EXCEPT ![c] = new]
    BY <2>1
  <2> HIDE DEF new
  <2>3. Moves /\ call'[c] = new
    BY <1>1, <2>2, <2>7
  <2>4. Rows /\ call[c].pc = "none"
    BY <1>3 DEF SendCall, CallAt
  <2>5. cookies.sid # NoSid => session[cookies.sid].hash # 0
    BY DEF SessionsInv, CookiesFit
  <2>6. CallFits(c)'
    BY <2>2, <2>3, <2>4, <2>5 DEF CallFits, TabOf, RefreshPc
  <2> QED
    BY <1>2, <2>2, <2>3, <2>4, <2>6
<1>4. CASE Authorize(c)
  <2>1. PICK pc \in {"denied", "cleared", "revoke", "served"} :
          CallGoto(c, pc) /\ (pc = "revoke" => call[c].sid # NoSid)
    BY <1>4 DEF Authorize, Valid
  <2>2. pc \in CallPc
    BY DEF CallPc
  <2>3. Moves /\ call'[c].pc = pc /\ call'[c].sid = call[c].sid /\ call'[c].tab = call[c].tab
        /\ call'[c].heard = call[c].heard
    BY <1>1, <2>1, <2>2, CallMoves
  <2>4. Rows /\ call[c].pc = "sent"
    BY <1>4 DEF Authorize, CallAt
  <2>5. CallFits(c)'
    BY <1>1, <2>1, <2>3, <2>4 DEF CallFits, TabOf, RefreshPc
  <2> QED
    BY <1>2, <2>3, <2>4, <2>5
<1>5. CASE ReadForRefresh(c)
  <2> DEFINE s == call[c].sid
  <2>1. s \in AnySid /\ CallAt(c, "refresh") /\ Rows
    BY <1>1, <1>5 DEF ReadForRefresh, CallRow
  <2>2. PICK pc \in {"missing", "stale", "rotate", "reuse"} :
          /\ CallGoto(c, pc)
          /\ pc = "missing" => s = NoSid
          /\ pc = "rotate" => Valid(s)
          /\ pc = "reuse" => s # NoSid /\ session[s].hash # call[c].refresh
    <3>1. CASE s = NoSid
      BY <1>5, <3>1 DEF ReadForRefresh
    <3>2. CASE s # NoSid /\ ~Valid(s)
      BY <1>5, <3>2 DEF ReadForRefresh
    <3>3. CASE s # NoSid /\ Valid(s)
      BY <1>5, <3>3 DEF ReadForRefresh
    <3> QED
      BY <3>1, <3>2, <3>3
  <2>3. pc \in CallPc
    BY DEF CallPc
  <2>4. Moves /\ call'[c].pc = pc /\ call'[c].sid = s /\ call'[c].tab = call[c].tab
        /\ call'[c].heard = call[c].heard /\ call'[c].refresh = call[c].refresh
    BY <1>1, <2>2, <2>3, CallMoves
  <2>5. pc = "rotate" => s # NoSid /\ s \notin trouble.loggedOut \ trouble.raced
    BY <2>2 DEF Valid, SessionsInv, EndsHold
  <2>6. pc = "reuse" => s \in trouble.apart
    BY <1>1, <2>1, <2>2 DEF CallFits, CallAt, Current
  <2>7. CallFits(c)'
    BY <1>1, <2>1, <2>2, <2>4, <2>5, <2>6 DEF CallFits, TabOf, RefreshPc, CallAt
  <2> QED
    BY <1>2, <2>1, <2>2, <2>4, <2>7 DEF CallAt
<1> QED
  BY <1>3, <1>4, <1>5

\* A session is ended, by a logout or as reused; nobody's token changes.
LEMMA RevocationsKeepInv ==
  ASSUME SessionsInv, NEW c \in Call, RevokeByLogout(c) \/ RevokeReused(c) PROVE SessionsInv'
<1> DEFINE s == call[c].sid
<1>1. /\ call \in [Call -> CallRow] /\ call[c] \in CallRow /\ CallFits(c) /\ SessionRows
      /\ issued \in Nat /\ s \in AnySid /\ call[c].refresh <= issued
  BY DEF SessionsInv, SessionRows, CallsFit, CallRow
<1>2. PICK pc \in {"cleared", "stale"} :
        /\ CallGoto(c, pc)
        /\ \/ RevokeByLogout(c) /\ call[c].pc = "revoke" /\ pc = "cleared"
           \/ RevokeReused(c) /\ call[c].pc = "reuse" /\ pc = "stale"
  BY DEF RevokeByLogout, RevokeReused, CallAt
<1>3. /\ s \in Sid /\ UNCHANGED <<issued, cookies, tab>>
      /\ session' = [session EXCEPT ![s].revoked = TRUE]
      /\ \/ call[c].pc = "revoke" /\ pc = "cleared"
         \/ call[c].pc = "reuse" /\ pc = "stale"
  BY <1>1, <1>2 DEF RevokeByLogout, RevokeReused, CallFits, AnySid
<1>4. /\ session' \in [Sid -> SessionRow] /\ session'[s].revoked
      /\ \A r \in Sid : session'[r].hash = session[r].hash
      /\ \A r \in Sid : session[r].revoked => session'[r].revoked
  BY <1>1, <1>3 DEF SessionRows, SessionRow
<1>5. pc \in CallPc
  BY DEF CallPc
<1>6. /\ call' \in [Call -> CallRow] /\ \A d \in Call \ {c} : call'[d] = call[d]
      /\ call'[c].pc = pc /\ call'[c].tab = call[c].tab /\ call'[c].sid = s
      /\ call'[c].refresh = call[c].refresh /\ call'[c].heard = call[c].heard
  BY <1>1, <1>2, <1>5, CallMoves
<1>7. /\ trouble' \in [apart : SUBSET AnySid, lost : Nat, reused : SUBSET AnySid,
                       loggedOut : SUBSET Sid, raced : SUBSET Sid]
      /\ trouble'.apart = trouble.apart
      /\ call[c].pc = "revoke" => /\ trouble'.reused = trouble.reused
                                  /\ trouble'.loggedOut = trouble.loggedOut \cup {s}
                                  /\ trouble'.raced =
                                       IF \E d \in Refreshing(s) : CallAt(d, "rotate")
                                       THEN trouble.raced \cup {s} ELSE trouble.raced
      /\ call[c].pc = "reuse" => /\ trouble'.reused = trouble.reused \cup {s}
                                 /\ trouble'.loggedOut = trouble.loggedOut
                                 /\ trouble'.raced = trouble.raced
  <2>1. trouble \in [apart : SUBSET AnySid, lost : Nat, reused : SUBSET AnySid,
                     loggedOut : SUBSET Sid, raced : SUBSET Sid]
    BY <1>1 DEF SessionRows
  <2>2. CASE RevokeByLogout(c) /\ call[c].pc = "revoke"
    <3> DEFINE races == \E d \in Refreshing(s) : CallAt(d, "rotate")
    <3>1. trouble' = [trouble EXCEPT !.loggedOut = @ \cup {s},
                        !.raced = IF races THEN @ \cup {s} ELSE @]
      BY <2>2 DEF RevokeByLogout
    <3> HIDE DEF races
    <3>2. /\ trouble' \in [apart : SUBSET AnySid, lost : Nat, reused : SUBSET AnySid,
                           loggedOut : SUBSET Sid, raced : SUBSET Sid]
          /\ trouble'.apart = trouble.apart /\ trouble'.reused = trouble.reused
          /\ trouble'.loggedOut = trouble.loggedOut \cup {s}
          /\ trouble'.raced = IF races THEN trouble.raced \cup {s} ELSE trouble.raced
      BY <1>3, <2>1, <3>1
    <3> QED
      BY <2>2, <3>2 DEF races
  <2>3. CASE RevokeReused(c) /\ call[c].pc = "reuse"
    BY <1>1, <2>1, <2>3 DEF RevokeReused
  <2> QED
    BY <1>2, <2>2, <2>3
<1>8. SessionRows'
  BY <1>1, <1>3, <1>4, <1>6, <1>7 DEF SessionRows
<1>9. \A d \in Call \ {c} :
        call[d].pc = "rotate" /\ call[d].sid \in trouble'.loggedOut \ trouble'.raced =>
          call[d].sid \in trouble.loggedOut \ trouble.raced
  BY <1>3, <1>7 DEF Refreshing, CallAt
<1>10. CallFits(c)'
  BY <1>1, <1>3, <1>4, <1>6, <1>7 DEF CallFits, TabOf, RefreshPc
<1>11. CallsFit' /\ LoginsFit'
  BY <1>3, <1>4, <1>6, <1>7, <1>8, <1>9, <1>10, OneCallMoves
<1>12. RefreshesApart'
  BY <1>3, <1>6, <1>7, NoRefreshBegins
<1>13. CookiesFit'
  <2>1. c \in Refreshing(cookies.sid) => c \in Refreshing(cookies.sid)'
    BY <1>3, <1>6 DEF Refreshing
  <2> QED
    BY <1>3, <1>4, <1>6, <1>7, <2>1, CookiesStay
<1>14. EndsHold'
  BY <1>1, <1>3, <1>4, <1>7 DEF SessionsInv, EndsHold, CallFits
<1> QED
  BY <1>8, <1>11, <1>12, <1>13, <1>14 DEF SessionsInv

\* A rotation changes the token of its session: whoever else carries the old one
\* is refreshing it too, so that tabs came apart.
LEMMA RotationKeepsInv ==
  ASSUME SessionsInv, NEW c \in Call, RotateSession(c) PROVE SessionsInv'
<1> DEFINE s == call[c].sid
<1>1. /\ call \in [Call -> CallRow] /\ call[c] \in CallRow /\ CallFits(c) /\ SessionRows
      /\ issued \in Nat /\ s \in AnySid /\ call[c].refresh <= issued /\ call[c].pc = "rotate"
  BY DEF SessionsInv, SessionRows, CallsFit, CallRow, RotateSession, CallAt
<1>2. /\ s \in Sid /\ UNCHANGED <<cookies, tab, trouble>> /\ issued' = issued + 1
      /\ session' = [session EXCEPT ![s] = [hash |-> issued + 1, revoked |-> FALSE, expired |-> FALSE]]
      /\ call' = [call EXCEPT ![c].pc = "fresh", ![c].refresh = issued + 1]
  BY <1>1 DEF RotateSession, CallFits, AnySid
<1>3. /\ session' \in [Sid -> SessionRow] /\ session'[s].hash = issued + 1
      /\ \A r \in Sid \ {s} : session'[r] = session[r]
  BY <1>1, <1>2 DEF SessionRows, SessionRow
<1>4. /\ call' \in [Call -> CallRow] /\ \A d \in Call \ {c} : call'[d] = call[d]
      /\ call'[c].pc = "fresh" /\ call'[c].tab = call[c].tab /\ call'[c].sid = s
      /\ call'[c].refresh = issued + 1 /\ call'[c].heard = call[c].heard
  <2> DEFINE new == [call[c] EXCEPT !.pc = "fresh", !.refresh = issued + 1]
  <2>1. "fresh" \in CallPc /\ issued + 1 \in Nat
    BY <1>1 DEF CallPc
  <2>2. /\ new \in CallRow /\ new.pc = "fresh" /\ new.tab = call[c].tab /\ new.sid = s
        /\ new.refresh = issued + 1 /\ new.heard = call[c].heard
    BY <1>1, <2>1 DEF CallRow
  <2>3. call' = [call EXCEPT ![c] = new]
    BY <1>1, <1>2 DEF CallRow
  <2> HIDE DEF new
  <2> QED
    BY <1>1, <2>2, <2>3
<1>5. SessionRows'
  <2>1. \A r \in Sid : session'[r].hash <= issued'
    BY <1>1, <1>2, <1>3 DEF SessionRows, SessionRow
  <2>2. \A d \in Call : call'[d].refresh <= issued'
    BY <1>1, <1>2, <1>4 DEF SessionRows, CallRow
  <2>3. cookies'.refresh <= issued'
    BY <1>1, <1>2 DEF SessionRows
  <2> QED
    BY <1>1, <1>2, <1>3, <1>4, <2>1, <2>2, <2>3 DEF SessionRows
<1>6. \A d \in Call \ {c} : call[d].pc \in {"refresh", "fresh"} /\ call[d].sid # NoSid =>
        session'[call[d].sid].hash = session[call[d].sid].hash \/ call[d].sid \in trouble.apart
  <2> SUFFICES ASSUME NEW d \in Call \ {c}, call[d].pc \in {"refresh", "fresh"}, call[d].sid = s
               PROVE  s \in trouble.apart
    BY <1>1, <1>3 DEF SessionRows, CallRow, AnySid
  <2>1. c \in Refreshing(s) /\ d \in Refreshing(s)
    BY <1>1 DEF Refreshing
  <2> QED
    BY <2>1 DEF SessionsInv, RefreshesApart
<1>7. CallFits(c)'
  BY <1>1, <1>2, <1>3, <1>4 DEF CallFits, TabOf, RefreshPc, Current
<1>8. \A r \in Sid : session[r].hash # 0 => session'[r].hash # 0
  BY <1>1, <1>3
<1>9. CallsFit' /\ LoginsFit'
  BY <1>2, <1>4, <1>5, <1>6, <1>7, <1>8, OneCallMoves
<1>10. RefreshesApart'
  BY <1>1, <1>2, <1>4, NoRefreshBegins
<1>11. CookiesFit'
  <2>1. c \in Refreshing(cookies.sid) => c \in Refreshing(cookies.sid)'
    BY <1>2, <1>4 DEF Refreshing
  <2>2. c \in Refreshing(cookies.sid)' \/ call'[c].sid # cookies.sid
    BY <1>2, <1>4 DEF Refreshing
  <2> QED
    BY <1>2, <1>3, <1>4, <1>8, <2>1, <2>2, CookiesStay
<1>12. EndsHold'
  BY <1>1, <1>2, <1>3 DEF SessionsInv, EndsHold, CallFits, SessionRows
<1> QED
  BY <1>5, <1>9, <1>10, <1>11, <1>12 DEF SessionsInv

\* An answer arrives: the cookies are as they were, or none.
LEMMA ReceiveAnswerKeepsInv ==
  ASSUME SessionsInv, NEW c \in Call, ReceiveAnswer(c) PROVE SessionsInv'
<1>1. /\ call \in [Call -> CallRow] /\ call[c] \in CallRow /\ CallFits(c) /\ SessionRows
      /\ call[c].refresh <= issued
  BY DEF SessionsInv, SessionRows, CallsFit
<1>2. PICK pc \in {"refused", "done"} : CallGoto(c, pc)
  BY DEF ReceiveAnswer
<1>3. /\ call[c].pc \in {"served", "denied", "cleared"} /\ cookies' \in {cookies, NoCookies}
      /\ tab' = [tab EXCEPT ![TabOf(c)].signedIn = @ /\ ~call[c].logout]
      /\ UNCHANGED <<session, issued, trouble>>
  BY DEF ReceiveAnswer
<1>4. pc \in CallPc
  BY DEF CallPc
<1>5. /\ call' \in [Call -> CallRow] /\ \A d \in Call \ {c} : call'[d] = call[d]
      /\ call'[c].pc = pc /\ call'[c].tab = call[c].tab /\ call'[c].sid = call[c].sid
      /\ call'[c].refresh = call[c].refresh /\ call'[c].heard = call[c].heard
  BY <1>1, <1>2, <1>4, CallMoves
<1>6. /\ tab' \in [Tab -> [signedIn : BOOLEAN, refreshInFlight : Call \cup {NoCall}, login : AnySid]]
      /\ \A t \in Tab : /\ tab'[t].login = tab[t].login
                        /\ tab'[t].refreshInFlight = tab[t].refreshInFlight
  <2> DEFINE on == tab[TabOf(c)].signedIn /\ ~call[c].logout
  <2>1. tab' = [tab EXCEPT ![TabOf(c)].signedIn = on]
    BY <1>3
  <2>2. on \in BOOLEAN
    OBVIOUS
  <2> HIDE DEF on
  <2> QED
    BY <1>1, <2>1, <2>2 DEF SessionRows
<1>7. SessionRows'
  <2>1. cookies' \in [sid : AnySid, refresh : Nat] /\ cookies'.refresh <= issued
    BY <1>1, <1>3 DEF SessionRows, NoCookies, AnySid
  <2> QED
    BY <1>1, <1>3, <1>5, <1>6, <2>1 DEF SessionRows
<1>8. CallFits(c)'
  BY <1>1, <1>3, <1>5 DEF CallFits, TabOf, RefreshPc
<1>9. CallsFit' /\ LoginsFit'
  BY <1>3, <1>5, <1>6, <1>7, <1>8, OneCallMoves
<1>10. RefreshesApart'
  BY <1>3, <1>5, NoRefreshBegins
<1>11. CookiesFit'
  <2>1. CASE cookies' = NoCookies
    BY <2>1 DEF CookiesFit, NoCookies
  <2>2. CASE cookies' = cookies
    <3>1. c \notin Refreshing(cookies.sid)
      BY <1>3 DEF Refreshing
    <3> QED
      BY <1>3, <1>5, <2>2, <3>1, CookiesStay
  <2> QED
    BY <1>3, <2>1, <2>2
<1>12. EndsHold'
  BY <1>3 DEF SessionsInv, EndsHold
<1> QED
  BY <1>7, <1>9, <1>10, <1>11, <1>12 DEF SessionsInv

\* A refresh begins: any other of its session is another tab's, or was lost.
LEMMA BeginRefreshKeepsInv ==
  ASSUME SessionsInv, NEW c \in Call, BeginRefresh(c) PROVE SessionsInv'
<1> DEFINE t == TabOf(c)
           s == cookies.sid
<1>1. /\ call \in [Call -> CallRow] /\ call[c] \in CallRow /\ CallFits(c) /\ SessionRows
      /\ call[c].refresh <= issued /\ s \in AnySid /\ call[c].pc = "refused"
      /\ cookies.refresh \in Nat /\ cookies.refresh <= issued
  BY DEF SessionsInv, SessionRows, CallsFit, BeginRefresh, CallAt
<1>2. UNCHANGED <<session, issued, cookies>> /\ call[c].heard /\ t \in Tab
  BY <1>1 DEF BeginRefresh, CallFits, RefreshPc
<1>3. c \notin Refreshing(s)
  BY <1>1 DEF Refreshing
<1>4. CASE Joins(c)
  <2>1. CallGoto(c, "waiting") /\ UNCHANGED <<tab, trouble>> /\ "waiting" \in CallPc
    BY <1>4 DEF BeginRefresh, CallPc
  <2>2. /\ call' \in [Call -> CallRow] /\ \A d \in Call \ {c} : call'[d] = call[d]
        /\ call'[c].pc = "waiting" /\ call'[c].tab = call[c].tab /\ call'[c].sid = call[c].sid
        /\ call'[c].refresh = call[c].refresh /\ call'[c].heard = call[c].heard
    BY <1>1, <2>1, CallMoves
  <2>3. SessionRows'
    BY <1>1, <1>2, <2>1, <2>2 DEF SessionRows
  <2>4. CallFits(c)'
    BY <1>1, <1>2, <2>1, <2>2 DEF CallFits, TabOf, RefreshPc
  <2>5. CallsFit' /\ LoginsFit'
    BY <1>2, <2>1, <2>2, <2>3, <2>4, OneCallMoves
  <2>6. RefreshesApart'
    BY <2>1, <2>2, NoRefreshBegins
  <2>7. CookiesFit'
    BY <1>2, <1>3, <2>1, <2>2, CookiesStay
  <2>8. EndsHold'
    BY <1>2, <2>1 DEF SessionsInv, EndsHold
  <2> QED
    BY <2>3, <2>5, <2>6, <2>7, <2>8 DEF SessionsInv
<1>5. CASE ~Joins(c)
  <2> DEFINE new == [call[c] EXCEPT !.pc = "refresh", !.sid = s, !.refresh = cookies.refresh]
             others == \E d \in Refreshing(s) : TabOf(d) # t
  <2>1. /\ call' = [call EXCEPT ![c] = new]
        /\ tab' = [tab EXCEPT ![t].refreshInFlight = c]
        /\ trouble' = [trouble EXCEPT !.apart = IF others THEN @ \cup {s} ELSE @]
        /\ tab[t].refreshInFlight = NoCall
    BY <1>5 DEF BeginRefresh, Joins
  <2>2. /\ new \in CallRow /\ new.pc = "refresh" /\ new.tab = t /\ new.sid = s
        /\ new.refresh = cookies.refresh /\ new.heard
    BY <1>1, <1>2 DEF CallRow, CallPc, TabOf
  <2> HIDE DEF new, others
  <2>3. call' \in [Call -> CallRow] /\ call'[c] = new /\ \A d \in Call \ {c} : call'[d] = call[d]
    BY <1>1, <2>1, <2>2
  <2>4. /\ tab' \in [Tab -> [signedIn : BOOLEAN, refreshInFlight : Call \cup {NoCall}, login : AnySid]]
        /\ \A u \in Tab : tab'[u].login = tab[u].login
        /\ \A u \in Tab \ {t} : tab'[u].refreshInFlight = tab[u].refreshInFlight
        /\ tab'[t].refreshInFlight = c
    BY <1>1, <1>2, <2>1 DEF SessionRows
  <2>5. /\ trouble' \in [apart : SUBSET AnySid, lost : Nat, reused : SUBSET AnySid,
                         loggedOut : SUBSET Sid, raced : SUBSET Sid]
        /\ trouble.apart \subseteq trouble'.apart
        /\ others => s \in trouble'.apart
        /\ trouble'.reused = trouble.reused /\ trouble'.loggedOut = trouble.loggedOut
        /\ trouble'.raced = trouble.raced
    BY <1>1, <2>1 DEF SessionRows
  <2>6. \A d \in Call \ {c} : TabOf(d) = t /\ call[d].pc \in RefreshPc => ~call[d].heard
    BY <1>1, <2>1, SessionsAssumption DEF SessionsInv, CallsFit, CallFits
  <2>7. \A d \in Refreshing(s) : s \in trouble'.apart
    <3> SUFFICES ASSUME NEW d \in Refreshing(s), TabOf(d) = t PROVE s \in trouble'.apart
      BY <2>5 DEF others
    <3>1. d \in Call \ {c} /\ call[d].sid = s /\ call[d].pc \in RefreshPc
      BY <1>3 DEF Refreshing, RefreshPc
    <3> QED
      BY <2>5, <2>6, <3>1 DEF SessionsInv, CallsFit, CallFits
  <2>8. SessionRows'
    BY <1>1, <1>2, <2>2, <2>3, <2>4, <2>5 DEF SessionRows
  <2>9. CallFits(c)'
    <3>1. s # NoSid => session[s].hash # 0 /\ (Current(s, cookies.refresh) \/ Refreshing(s) # {})
      BY DEF SessionsInv, CookiesFit
    <3>2. s # NoSid => Current(s, cookies.refresh)'
      BY <1>2, <2>5, <2>7, <3>1 DEF Current
    <3>3. TabOf(c)' = t
      BY <2>2, <2>3 DEF TabOf
    <3> QED
      BY <1>2, <2>2, <2>3, <2>4, <3>1, <3>2, <3>3 DEF CallFits, RefreshPc
  <2>10. CallsFit' /\ LoginsFit'
    BY <1>2, <2>3, <2>4, <2>5, <2>6, <2>8, <2>9, OneCallMoves
  <2>11. RefreshesApart'
    <3> SUFFICES ASSUME NEW d \in Call, NEW e \in Call, d # e, call'[d].sid = call'[e].sid,
                        d \in Refreshing(call[d].sid)', e \in Refreshing(call[e].sid)'
                 PROVE  call'[d].sid \in trouble'.apart
      BY DEF RefreshesApart
    <3>1. CASE d # c /\ e # c
      BY <2>3, <2>5, <3>1 DEF Refreshing, SessionsInv, RefreshesApart
    <3>2. CASE d = c
      BY <2>2, <2>3, <2>7, <3>2 DEF Refreshing
    <3>3. CASE e = c
      BY <2>2, <2>3, <2>7, <3>3 DEF Refreshing
    <3> QED
      BY <3>1, <3>2, <3>3
  <2>12. CookiesFit'
    BY <1>2, <1>3, <2>3, <2>5, CookiesStay
  <2>13. EndsHold'
    BY <1>2, <2>5 DEF SessionsInv, EndsHold
  <2> QED
    BY <2>8, <2>10, <2>11, <2>12, <2>13 DEF SessionsInv
<1> QED
  BY <1>4, <1>5

\* A refresh is settled: the calls that waited are made again or done, its own
\* with them unless the connection broke, and the tab waits for none.
LEMMA SettleMoves ==
  ASSUME SessionsInv, NEW c \in Call, call[c].pc \in RefreshPc, call[c].heard,
         NEW ok \in BOOLEAN, NEW again \in BOOLEAN, Settle(c, TabOf(c), ok, again),
         cookies'.sid \in AnySid
  PROVE  /\ call' \in [Call -> CallRow]
         /\ \A d \in Call :
              \/ /\ call'[d].pc \in {"sent", "done"}
                 /\ call[d].pc = "waiting" \/ d = c
                 /\ d = c => again
                 /\ call'[d].sid = cookies'.sid
                 /\ call'[d].tab = call[d].tab /\ call'[d].refresh = call[d].refresh
                 /\ call[d].heard /\ call'[d].heard
              \/ /\ d = c /\ ~again
                 /\ call'[d].pc = call[d].pc /\ call'[d].sid = call[d].sid
                 /\ call'[d].tab = call[d].tab /\ call'[d].refresh = call[d].refresh
                 /\ ~call'[d].heard
              \/ /\ d # c
                 /\ call'[d] = call[d]
                 /\ call[d].pc \in RefreshPc /\ call[d].heard =>
                      tab'[TabOf(d)].refreshInFlight = d
         /\ tab' \in [Tab -> [signedIn : BOOLEAN, refreshInFlight : Call \cup {NoCall}, login : AnySid]]
         /\ \A u \in Tab : tab'[u].login = tab[u].login
<1> DEFINE t == TabOf(c)
           them == {d \in Call : CallAt(d, "waiting") /\ TabOf(d) = t} \cup (IF again THEN {c} ELSE {})
<1>1. /\ call \in [Call -> CallRow] /\ \A d \in Call : CallFits(d)
      /\ SessionRows /\ t \in Tab /\ tab[t].refreshInFlight = c
      /\ \A d \in Call : call[d] \in CallRow /\ TabOf(d) = call[d].tab
  <2>1. CallFits(c) /\ call[c].pc # "none"
    BY DEF SessionsInv, CallsFit, RefreshPc
  <2> QED
    BY <2>1 DEF SessionsInv, SessionRows, CallsFit, CallFits, TabOf
<1> DEFINE on == tab[t].signedIn /\ ok
           made(d) == [call[d] EXCEPT !.pc = IF ok THEN "sent" ELSE "done", !.again = TRUE,
                                      !.sid = cookies'.sid]
           lost(d) == [call[d] EXCEPT !.heard = FALSE]
           after(d) == IF d \in them THEN made(d) ELSE IF d = c THEN lost(d) ELSE call[d]
<1>2. /\ call' = [d \in Call |-> after(d)]
      /\ tab' = [tab EXCEPT ![t].refreshInFlight = NoCall, ![t].signedIn = on]
  BY Zenon DEF Settle
<1> HIDE DEF after, made, lost
<1>0. \A d \in Call : call'[d] = after(d)
  BY <1>2
<1>10. on \in BOOLEAN
  OBVIOUS
<1> HIDE DEF on
<1>3. /\ tab' \in [Tab -> [signedIn : BOOLEAN, refreshInFlight : Call \cup {NoCall}, login : AnySid]]
      /\ \A u \in Tab : tab'[u].login = tab[u].login
      /\ \A u \in Tab \ {t} : tab'[u] = tab[u]
  <2> DEFINE new == [tab[t] EXCEPT !.refreshInFlight = NoCall, !.signedIn = on]
  <2>2. tab' = [tab EXCEPT ![t] = new]
    BY <1>1, <1>2 DEF SessionRows
  <2>3. /\ new \in [signedIn : BOOLEAN, refreshInFlight : Call \cup {NoCall}, login : AnySid]
        /\ new.login = tab[t].login
    BY <1>1, <1>10 DEF SessionRows
  <2> HIDE DEF new
  <2> QED
    BY <1>1, <2>2, <2>3 DEF SessionRows
<1>4. \A d \in Call : /\ d \in them <=> (call[d].pc = "waiting" /\ call[d].tab = t) \/ (again /\ d = c)
                      /\ d \in them => call[d].heard
  BY <1>1 DEF CallFits, RefreshPc, CallAt, TabOf
<1>5. ASSUME NEW d \in Call, d \in them
      PROVE  /\ call'[d] \in CallRow /\ call'[d].pc \in {"sent", "done"}
             /\ call'[d].sid = cookies'.sid /\ call'[d].heard = call[d].heard
             /\ call'[d].tab = call[d].tab /\ call'[d].refresh = call[d].refresh
  <2> DEFINE pc == IF ok THEN "sent" ELSE "done"
             new == [call[d] EXCEPT !.pc = pc, !.again = TRUE, !.sid = cookies'.sid]
  <2>1. pc \in CallPc /\ pc \in {"sent", "done"}
    BY DEF CallPc
  <2>2. call'[d] = new
    BY <1>0, <1>5, Zenon DEF after, made
  <2> HIDE DEF pc
  <2>3. call[d] \in CallRow
    BY <1>1
  <2>4. /\ new \in CallRow /\ new.pc = pc /\ new.sid = cookies'.sid /\ new.heard = call[d].heard
        /\ new.tab = call[d].tab /\ new.refresh = call[d].refresh
    BY <2>1, <2>3 DEF CallRow
  <2> QED
    BY <2>1, <2>2, <2>4
<1> HIDE DEF them
<1>6. ASSUME NEW d \in Call, d \notin them, d = c
      PROVE  /\ call'[d] \in CallRow /\ call'[d].pc = call[d].pc /\ call'[d].sid = call[d].sid
             /\ call'[d].tab = call[d].tab /\ call'[d].refresh = call[d].refresh /\ ~call'[d].heard
             /\ ~again
  <2>1. call'[d] = lost(d)
    BY <1>0, <1>6, Zenon DEF after
  <2>2. call[d] \in CallRow
    BY <1>1
  <2>3. ~again
    BY <1>4, <1>6
  <2> QED
    BY <2>1, <2>2, <2>3 DEF CallRow, lost
<1>7. ASSUME NEW d \in Call, d \notin them, d # c
      PROVE  /\ call'[d] = call[d]
             /\ call[d].pc \in RefreshPc /\ call[d].heard => tab'[TabOf(d)].refreshInFlight = d
  <2>1. call'[d] = call[d]
    BY <1>0, <1>7, Zenon DEF after
  <2>2. ASSUME call[d].pc \in RefreshPc, call[d].heard PROVE tab'[TabOf(d)].refreshInFlight = d
    <3>1. tab[TabOf(d)].refreshInFlight = d /\ TabOf(d) \in Tab /\ CallFits(d)
      BY <1>1, <2>2 DEF CallFits, RefreshPc
    <3> QED
      BY <1>1, <1>3, <1>7, <3>1
  <2> QED
    BY <2>1, <2>2
<1>8. call' \in [Call -> CallRow]
  <2>1. \A d \in Call : call'[d] \in CallRow
    BY <1>1, <1>5, <1>6, <1>7
  <2> QED
    BY <1>2, <2>1
<1>9. ASSUME NEW d \in Call, d \in them
      PROVE  /\ call[d].pc = "waiting" \/ d = c
             /\ d = c => again
             /\ call[d].heard /\ call'[d].heard
  <2>1. call[d].pc = "waiting" \/ d = c
    BY <1>4, <1>9
  <2>2. d = c => again
    <3>1. call[c].pc # "waiting"
      BY DEF RefreshPc
    <3> QED
      BY <1>4, <1>9, <3>1
  <2> QED
    BY <1>4, <1>5, <1>9, <2>1, <2>2
<1> QED
  BY <1>3, <1>5, <1>6, <1>7, <1>8, <1>9

\* The answer of a refresh arrives: the cookies are its new ones, none, or as they
\* were, and nothing of it is left behind.
LEMMA ReceiveRefreshKeepsInv ==
  ASSUME SessionsInv, NEW c \in Call, ReceiveRefresh(c) PROVE SessionsInv'
<1>1. /\ SessionRows /\ call[c] \in CallRow /\ CallFits(c) /\ call[c].refresh <= issued
      /\ CookiesFit
  BY DEF SessionsInv, SessionRows, CallsFit
<1>2. /\ call[c].pc \in {"fresh", "stale", "missing"} /\ call[c].heard
      /\ UNCHANGED <<session, issued, trouble>>
  BY DEF ReceiveRefresh
<1>3. /\ call[c].pc = "fresh" => cookies' = [sid |-> call[c].sid, refresh |-> call[c].refresh]
      /\ call[c].pc = "stale" => cookies' = NoCookies
      /\ call[c].pc = "missing" => cookies' = cookies
  BY DEF ReceiveRefresh, CallAt
<1>4. cookies' \in [sid : AnySid, refresh : Nat] /\ cookies'.refresh <= issued
  <2>1. CASE call[c].pc = "fresh"
    BY <1>1, <1>3, <2>1 DEF CallRow
  <2>2. CASE call[c].pc = "stale"
    BY <1>1, <1>3, <2>2 DEF NoCookies, AnySid, SessionRows
  <2>3. CASE call[c].pc = "missing"
    BY <1>1, <1>3, <2>3 DEF SessionRows
  <2> QED
    BY <1>2, <2>1, <2>2, <2>3
<1>5. cookies'.sid # NoSid => session[cookies'.sid].hash # 0
  <2>1. CASE call[c].pc = "fresh"
    BY <1>1, <1>3, <2>1 DEF CallFits
  <2>2. CASE call[c].pc = "stale"
    BY <1>3, <2>2 DEF NoCookies
  <2>3. CASE call[c].pc = "missing"
    BY <1>1, <1>3, <2>3 DEF CookiesFit
  <2> QED
    BY <1>2, <2>1, <2>2, <2>3
<1>6. call[c].pc \in RefreshPc /\ TRUE \in BOOLEAN /\ cookies'.sid \in AnySid
  BY <1>2, <1>4 DEF RefreshPc
<1>16. PICK ok \in BOOLEAN, again \in BOOLEAN : again /\ Settle(c, TabOf(c), ok, again)
  BY Zenon DEF ReceiveRefresh, CallAt
<1>7. /\ call' \in [Call -> CallRow]
      /\ \A d \in Call :
           \/ /\ call'[d].pc \in {"sent", "done"}
              /\ call[d].pc = "waiting" \/ d = c
              /\ call'[d].sid = cookies'.sid
              /\ call'[d].tab = call[d].tab /\ call'[d].refresh = call[d].refresh
              /\ call[d].heard /\ call'[d].heard
           \/ /\ d # c /\ call'[d] = call[d]
              /\ call[d].pc \in RefreshPc /\ call[d].heard => tab'[TabOf(d)].refreshInFlight = d
      /\ tab' \in [Tab -> [signedIn : BOOLEAN, refreshInFlight : Call \cup {NoCall}, login : AnySid]]
      /\ \A u \in Tab : tab'[u].login = tab[u].login
  BY <1>2, <1>6, <1>16, SettleMoves
<1>8. SessionRows'
  <2>1. \A d \in Call : call'[d].refresh <= issued
    BY <1>1, <1>7 DEF SessionRows
  <2> QED
    BY <1>1, <1>2, <1>4, <1>7, <2>1 DEF SessionRows
<1>9. \A d \in Call : CallFits(d) /\ TabOf(d)' = TabOf(d) /\ TabOf(d) = call[d].tab
  BY <1>7 DEF SessionsInv, CallsFit, TabOf
<1>10. CallsFit'
  <2> SUFFICES ASSUME NEW d \in Call PROVE CallFits(d)'
    BY DEF CallsFit
  <2>1. CASE /\ call'[d].pc \in {"sent", "done"}
             /\ call[d].pc = "waiting" \/ d = c
             /\ call'[d].sid = cookies'.sid /\ call'[d].heard
    <3>1. TabOf(d) \in Tab
      BY <1>2, <1>9, <2>1 DEF CallFits
    <3> QED
      BY <1>2, <1>5, <1>9, <2>1, <3>1 DEF CallFits, RefreshPc
  <2>2. CASE /\ call'[d] = call[d]
             /\ call[d].pc \in RefreshPc /\ call[d].heard => tab'[TabOf(d)].refreshInFlight = d
    BY <1>2, <1>9, <2>2 DEF CallFits, Current
  <2> QED
    BY <1>7, <2>1, <2>2
<1>11. LoginsFit'
  BY <1>2, <1>7 DEF SessionsInv, LoginsFit
<1>12. \A d \in Call : call'[d].pc \in RefreshPc => call'[d] = call[d]
  BY <1>7 DEF RefreshPc
<1>13. RefreshesApart'
  BY <1>2, <1>12 DEF SessionsInv, RefreshesApart, Refreshing, RefreshPc
<1>14. CookiesFit'
  <2>1. CASE call[c].pc = "fresh"
    BY <1>2, <1>3, <1>5, <1>9, <2>1 DEF CookiesFit, CallFits, Current
  <2>2. CASE call[c].pc = "stale"
    BY <1>3, <2>2 DEF CookiesFit, NoCookies
  <2>3. CASE call[c].pc = "missing"
    <3>1. \A d \in Refreshing(cookies.sid) : d \in Refreshing(cookies.sid)'
      <4> SUFFICES ASSUME NEW d \in Refreshing(cookies.sid) PROVE d \in Refreshing(cookies.sid)'
        OBVIOUS
      <4>1. d \in Call /\ call[d].sid = cookies.sid /\ d # c /\ call[d].pc # "waiting"
        BY <2>3 DEF Refreshing
      <4>2. call'[d] = call[d]
        BY <1>7, <4>1
      <4> QED
        BY <1>3, <2>3, <4>1, <4>2 DEF Refreshing
    <3> QED
      BY <1>1, <1>2, <1>3, <2>3, <3>1 DEF CookiesFit, Current
  <2> QED
    BY <1>2, <2>1, <2>2, <2>3
<1>15. EndsHold'
  BY <1>2 DEF SessionsInv, EndsHold
<1> QED
  BY <1>8, <1>10, <1>11, <1>13, <1>14, <1>15 DEF SessionsInv

\* The connection of a refresh breaks: its tab comes apart from the session.
LEMMA LoseRefreshKeepsInv ==
  ASSUME SessionsInv, NEW c \in Call, LoseRefresh(c) PROVE SessionsInv'
<1> DEFINE s == call[c].sid
<1>1. /\ SessionRows /\ CookiesFit /\ s \in AnySid /\ \A d \in Call : call[d] \in CallRow
  BY DEF SessionsInv, SessionRows, CallRow
<1>2. /\ c \in Refreshing(s) /\ call[c].heard
      /\ UNCHANGED <<session, issued, cookies>>
      /\ Settle(c, TabOf(c), FALSE, FALSE)
  BY DEF LoseRefresh
<1>3. /\ trouble' \in [apart : SUBSET AnySid, lost : Nat, reused : SUBSET AnySid,
                       loggedOut : SUBSET Sid, raced : SUBSET Sid]
      /\ trouble'.apart = trouble.apart \cup {s}
      /\ trouble'.reused = trouble.reused /\ trouble'.loggedOut = trouble.loggedOut
      /\ trouble'.raced = trouble.raced
  <2>1. trouble \in [apart : SUBSET AnySid, lost : Nat, reused : SUBSET AnySid,
                     loggedOut : SUBSET Sid, raced : SUBSET Sid]
    BY <1>1 DEF SessionRows
  <2>2. trouble' = [trouble EXCEPT !.lost = @ + 1, !.apart = @ \cup {s}]
    BY DEF LoseRefresh
  <2>3. trouble.lost + 1 \in Nat
    BY <2>1
  <2> QED
    BY <1>1, <2>1, <2>2, <2>3
<1>4. call[c].pc \in RefreshPc /\ FALSE \in BOOLEAN /\ cookies'.sid \in AnySid
  BY <1>1, <1>2 DEF Refreshing, RefreshPc, SessionRows
<1>5. /\ call' \in [Call -> CallRow]
      /\ \A d \in Call :
           \/ /\ call'[d].pc \in {"sent", "done"} /\ call[d].pc = "waiting"
              /\ call'[d].sid = cookies'.sid
              /\ call'[d].tab = call[d].tab /\ call'[d].refresh = call[d].refresh
              /\ call[d].heard /\ call'[d].heard
           \/ /\ d = c
              /\ call'[d].pc = call[d].pc /\ call'[d].sid = call[d].sid
              /\ call'[d].tab = call[d].tab /\ call'[d].refresh = call[d].refresh
              /\ ~call'[d].heard
           \/ /\ d # c /\ call'[d] = call[d]
              /\ call[d].pc \in RefreshPc /\ call[d].heard => tab'[TabOf(d)].refreshInFlight = d
      /\ tab' \in [Tab -> [signedIn : BOOLEAN, refreshInFlight : Call \cup {NoCall}, login : AnySid]]
      /\ \A u \in Tab : tab'[u].login = tab[u].login
  BY <1>2, <1>4, SettleMoves
<1>6. SessionRows'
  <2>1. \A d \in Call : call'[d].refresh <= issued
    BY <1>1, <1>5 DEF SessionRows
  <2> QED
    BY <1>1, <1>2, <1>3, <1>5, <2>1 DEF SessionRows
<1>7. \A d \in Call : CallFits(d) /\ TabOf(d)' = TabOf(d)
  BY <1>5 DEF SessionsInv, CallsFit, TabOf
<1>8. CallsFit'
  <2> SUFFICES ASSUME NEW d \in Call PROVE CallFits(d)'
    BY DEF CallsFit
  <2>1. CASE /\ call'[d].pc \in {"sent", "done"} /\ call[d].pc = "waiting"
             /\ call'[d].sid = cookies'.sid /\ call'[d].heard
    BY <1>1, <1>2, <1>7, <2>1 DEF CallFits, CookiesFit, RefreshPc
  <2>2. CASE /\ d = c /\ call'[d].pc = call[d].pc /\ call'[d].sid = call[d].sid
             /\ call'[d].refresh = call[d].refresh /\ ~call'[d].heard
    BY <1>2, <1>3, <1>4, <1>7, <2>2 DEF CallFits, Current
  <2>3. CASE /\ call'[d] = call[d]
             /\ call[d].pc \in RefreshPc /\ call[d].heard => tab'[TabOf(d)].refreshInFlight = d
    BY <1>2, <1>3, <1>7, <2>3 DEF CallFits, Current
  <2> QED
    BY <1>5, <2>1, <2>2, <2>3
<1>9. LoginsFit'
  BY <1>2, <1>5 DEF SessionsInv, LoginsFit
<1>10. \A d \in Call : /\ call'[d].pc \in RefreshPc => call'[d].pc = call[d].pc /\ call'[d].sid = call[d].sid
                       /\ call[d].pc \in RefreshPc => call'[d].pc = call[d].pc /\ call'[d].sid = call[d].sid
  BY <1>5 DEF RefreshPc
<1>11. RefreshesApart'
  BY <1>3, <1>10 DEF SessionsInv, RefreshesApart, Refreshing, RefreshPc
<1>12. CookiesFit'
  <2>1. \A d \in Refreshing(cookies.sid) : d \in Refreshing(cookies.sid)'
    BY <1>2, <1>10 DEF Refreshing, RefreshPc
  <2> QED
    BY <1>1, <1>2, <1>3, <2>1 DEF CookiesFit, Current
<1>13. EndsHold'
  BY <1>2, <1>3 DEF SessionsInv, EndsHold
<1> QED
  BY <1>6, <1>8, <1>9, <1>11, <1>12, <1>13 DEF SessionsInv

\* No call moves, and no token that was given out changes.
LEMMA NoCallMoves ==
  ASSUME SessionsInv, UNCHANGED <<call, trouble>>,
         \A t \in Tab : tab'[t].refreshInFlight = tab[t].refreshInFlight,
         \A s \in Sid : /\ session[s].hash # 0 => session'[s].hash = session[s].hash
                        /\ session[s].revoked => session'[s].revoked
  PROVE  /\ CallsFit' /\ RefreshesApart' /\ EndsHold'
         /\ cookies' = cookies => CookiesFit'
<1>1. \A c \in Call : call[c].sid \in AnySid
  BY DEF SessionsInv, SessionRows, CallRow
<1>2. \A c \in Call : CallFits(c)'
  <2> SUFFICES ASSUME NEW c \in Call PROVE CallFits(c)'
    OBVIOUS
  <2>1. /\ CallFits(c) /\ TabOf(c)' = TabOf(c)
        /\ call[c].sid # NoSid => session'[call[c].sid].hash = session[call[c].sid].hash
    BY <1>1 DEF SessionsInv, CallsFit, CallFits, TabOf, AnySid
  <2> QED
    BY <2>1 DEF CallFits, Current, RefreshPc
<1>3. RefreshesApart'
  BY DEF SessionsInv, RefreshesApart, Refreshing
<1>4. EndsHold'
  BY DEF SessionsInv, SessionRows, EndsHold
<1>5. ASSUME cookies' = cookies PROVE CookiesFit'
  <2>1. cookies.sid # NoSid => session'[cookies.sid].hash = session[cookies.sid].hash
    BY DEF SessionsInv, SessionRows, CookiesFit, AnySid
  <2> QED
    BY <1>5, <2>1 DEF SessionsInv, CookiesFit, Current, Refreshing
<1> QED
  BY <1>2, <1>3, <1>4, <1>5 DEF CallsFit

\* A session begins with a token nobody carries yet.
LEMMA SignInKeepsInv ==
  ASSUME SessionsInv, NEW t \in Tab, SignIn(t) PROVE SessionsInv'
<1>1. PICK s \in Sid : /\ session[s].hash = 0 /\ issued' = issued + 1
                       /\ session' = [session EXCEPT ![s].hash = issued + 1]
                       /\ tab' = [tab EXCEPT ![t].login = s]
  BY DEF SignIn
<1>2. SessionRows /\ LoginsFit /\ issued \in Nat /\ UNCHANGED <<cookies, call, trouble>>
  BY DEF SessionsInv, SessionRows, SignIn
<1>3. /\ session' \in [Sid -> SessionRow] /\ session'[s].hash = issued + 1
      /\ \A r \in Sid \ {s} : session'[r] = session[r]
      /\ session'[s].revoked = session[s].revoked
  BY <1>1, <1>2 DEF SessionRows, SessionRow
<1>4. /\ tab' \in [Tab -> [signedIn : BOOLEAN, refreshInFlight : Call \cup {NoCall}, login : AnySid]]
      /\ \A u \in Tab : tab'[u].refreshInFlight = tab[u].refreshInFlight
      /\ \A u \in Tab \ {t} : tab'[u].login = tab[u].login
      /\ tab'[t].login = s
  BY <1>1, <1>2 DEF SessionRows, AnySid
<1>5. SessionRows'
  <2>1. \A r \in Sid : session'[r].hash <= issued'
    BY <1>1, <1>2, <1>3 DEF SessionRows, SessionRow
  <2>2. cookies'.refresh <= issued' /\ issued' \in Nat
    BY <1>1, <1>2 DEF SessionRows
  <2>3. \A c \in Call : call'[c].refresh <= issued'
    BY <1>1, <1>2 DEF SessionRows, CallRow
  <2> QED
    BY <1>2, <1>3, <1>4, <2>1, <2>2, <2>3 DEF SessionRows
<1>6. LoginsFit'
  BY <1>1, <1>2, <1>3, <1>4 DEF LoginsFit, SessionRows, AnySid, NoSid, Sid
<1>7. CallsFit' /\ RefreshesApart' /\ EndsHold' /\ CookiesFit'
  BY <1>1, <1>2, <1>3, <1>4, NoCallMoves
<1> QED
  BY <1>5, <1>6, <1>7 DEF SessionsInv

\* The cookies of a sign-in are those of its row.
LEMMA ReceiveSignInKeepsInv ==
  ASSUME SessionsInv, NEW t \in Tab, ReceiveSignIn(t) PROVE SessionsInv'
<1> DEFINE s == tab[t].login
<1>1. /\ SessionRows /\ LoginsFit /\ s \in Sid /\ session[s].hash # 0
      /\ session[s].hash \in Nat /\ session[s].hash <= issued
  BY DEF SessionsInv, SessionRows, SessionRow, LoginsFit, ReceiveSignIn, AnySid
<1>2. /\ UNCHANGED <<session, issued, call, trouble>>
      /\ cookies' = [sid |-> s, refresh |-> session[s].hash]
      /\ tab' = [tab EXCEPT ![t].login = NoSid, ![t].signedIn = TRUE]
  BY DEF ReceiveSignIn
<1>3. /\ tab' \in [Tab -> [signedIn : BOOLEAN, refreshInFlight : Call \cup {NoCall}, login : AnySid]]
      /\ \A u \in Tab : /\ tab'[u].refreshInFlight = tab[u].refreshInFlight
                        /\ tab'[u].login \in {tab[u].login, NoSid}
  <2> DEFINE new == [tab[t] EXCEPT !.login = NoSid, !.signedIn = TRUE]
  <2>1. tab' = [tab EXCEPT ![t] = new]
    BY <1>1, <1>2 DEF SessionRows
  <2>2. /\ new \in [signedIn : BOOLEAN, refreshInFlight : Call \cup {NoCall}, login : AnySid]
        /\ new.refreshInFlight = tab[t].refreshInFlight /\ new.login = NoSid
    BY <1>1 DEF SessionRows, AnySid
  <2> HIDE DEF new
  <2> QED
    BY <1>1, <2>1, <2>2 DEF SessionRows
<1>4. SessionRows'
  BY <1>1, <1>2, <1>3 DEF SessionRows, AnySid
<1>5. LoginsFit'
  BY <1>1, <1>2, <1>3 DEF LoginsFit
<1>6. CallsFit' /\ RefreshesApart' /\ EndsHold'
  BY <1>2, <1>3, NoCallMoves
<1>7. CookiesFit'
  BY <1>1, <1>2 DEF CookiesFit, Current
<1> QED
  BY <1>4, <1>5, <1>6, <1>7 DEF SessionsInv

\* A session grows too old with its token.
LEMMA SessionExpiresKeepsInv ==
  ASSUME SessionsInv, NEW s \in Sid, SessionExpires(s) PROVE SessionsInv'
<1>1. /\ SessionRows /\ UNCHANGED <<issued, cookies, tab, call, trouble>>
      /\ session' = [session EXCEPT ![s].expired = TRUE]
  BY DEF SessionsInv, SessionExpires
<1>2. /\ session' \in [Sid -> SessionRow]
      /\ \A r \in Sid : session'[r].hash = session[r].hash /\ session'[r].revoked = session[r].revoked
  BY <1>1 DEF SessionRows, SessionRow
<1>3. SessionRows'
  BY <1>1, <1>2 DEF SessionRows
<1>4. LoginsFit'
  BY <1>1, <1>2 DEF SessionsInv, SessionRows, LoginsFit, AnySid
<1>5. CallsFit' /\ RefreshesApart' /\ EndsHold' /\ CookiesFit'
  BY <1>1, <1>2, NoCallMoves
<1> QED
  BY <1>3, <1>4, <1>5 DEF SessionsInv

\* Nothing moves.
LEMMA SessionsStutter == ASSUME SessionsInv, UNCHANGED sessionVars PROVE SessionsInv'
<1>1. UNCHANGED <<session, issued, cookies, tab, call, trouble>>
  BY DEF sessionVars
<1>2. SessionRows' /\ LoginsFit'
  BY <1>1 DEF SessionsInv, SessionRows, LoginsFit
<1>3. CallsFit' /\ RefreshesApart' /\ EndsHold' /\ CookiesFit'
  BY <1>1, NoCallMoves
<1> QED
  BY <1>2, <1>3 DEF SessionsInv

\* For any tabs, calls and sign-ins: the browser keeps the token its session's row
\* knows, so that the page's own retries end no session, and a session that was
\* logged out stays ended, unless a refresh had been let in before (public/app.js
\* tryRefreshSession; server.ts POST /api/auth/refresh; project-store.ts
\* rotateSession).
THEOREM SessionsAreKept == SessionsSpec => [](SessionsTypeOK /\ SessionKept)
<1>1. SessionsInit => SessionsInv
  BY SessionsInitInv
<1>2. SessionsInv /\ [SessionsNext]_sessionVars => SessionsInv'
  <2> SUFFICES ASSUME SessionsInv, [SessionsNext]_sessionVars PROVE SessionsInv'
    OBVIOUS
  <2>1. ASSUME NEW c \in Call, (\E t \in Tab : SendCall(c, t)) \/ Authorize(c) \/ ReadForRefresh(c)
        PROVE  SessionsInv'
    BY <2>1, CallStepsKeepInv
  <2>2. ASSUME NEW c \in Call, RevokeByLogout(c) \/ RevokeReused(c) PROVE SessionsInv'
    BY <2>2, RevocationsKeepInv
  <2>3. ASSUME NEW c \in Call, ReceiveAnswer(c) PROVE SessionsInv'
    BY <2>3, ReceiveAnswerKeepsInv
  <2>4. ASSUME NEW c \in Call, BeginRefresh(c) PROVE SessionsInv'
    BY <2>4, BeginRefreshKeepsInv
  <2>5. ASSUME NEW c \in Call, RotateSession(c) PROVE SessionsInv'
    BY <2>5, RotationKeepsInv
  <2>6. ASSUME NEW c \in Call, ReceiveRefresh(c) PROVE SessionsInv'
    BY <2>6, ReceiveRefreshKeepsInv
  <2>7. ASSUME NEW c \in Call, LoseRefresh(c) PROVE SessionsInv'
    BY <2>7, LoseRefreshKeepsInv
  <2>8. ASSUME NEW t \in Tab, SignIn(t) \/ ReceiveSignIn(t) PROVE SessionsInv'
    BY <2>8, SignInKeepsInv, ReceiveSignInKeepsInv
  <2>9. ASSUME NEW s \in Sid, SessionExpires(s) PROVE SessionsInv'
    BY <2>9, SessionExpiresKeepsInv
  <2> QED
    BY <2>1, <2>2, <2>3, <2>4, <2>5, <2>6, <2>7, <2>8, <2>9, SessionsStutter DEF SessionsNext
<1>3. SessionsInv => SessionsTypeOK /\ SessionKept
  BY SessionsInvImplies
<1> QED
  BY <1>1, <1>2, <1>3, PTL DEF SessionsSpec
-----------------------------------------------------------------------------
(* The readiness check beside a preview container.                         *)

HeavyPc == {"heavyTree", "heavy", "bootPort", "bootProbe", "heavyEnd", "heavyThrew"}
BuildPc == {"dockerBuild", "dockerPort", "dockerRun", "dockerProbe"}
ReportedPc == {"dockerStop", "dockerImage", "dockerTreeEnd", "verdict", "done"}
CheckPc == HeavyPc \cup BuildPc \cup ReportedPc \cup {"debt", "dockerVersion"}
PreviewPc == {"port", "build", "run", "watch", "container", "image", "done"}

Holder == Attempt \cup {"nobody"}
AppState == {"none", "starting", "up", "mute", "stopping", "gone"}

HostRows ==
  /\ port \in [Attempt -> Port \cup {NoPort}]
  /\ app \in [Attempt -> AppState]
  /\ listener \in [Port -> Holder]
  /\ answered \in [Attempt -> Holder]

ChecksTyped ==
  /\ debt \subseteq {"markers", "artifacts", "unscanned"}
  /\ rpc \in CheckPc /\ ppc \in PreviewPc
  /\ verdict \in {"none", "YES", "NO"}
  /\ previewStatus \in {"none", "threw", "failed", "healthy"}

\* The count is of the failed checks; the architecture may count for one more.
Counted ==
  /\ failedChecks \subseteq HeavyCheck /\ blocking \in Nat
  /\ blocking <= Cardinality(failedChecks) + 1
  /\ blocking = 0 <=> failedChecks = {}
  /\ rpc \in {"bootPort", "bootProbe"} => "boot" \notin failedChecks

\* Each check is reported at its stage.  The boot of a container is skipped only
\* when its image was not built, and passes only when it was answered.
StagesReported ==
  /\ report \in [DOMAIN report -> {"pass", "fail", "skip"}] /\ DOMAIN report \subseteq CheckId
  /\ rpc \notin HeavyPc => "heavy_validation" \in DOMAIN report
  /\ rpc \in {"dockerVersion"} \cup BuildPc \cup ReportedPc =>
       {"stub_markers", "stub_debt"} \subseteq DOMAIN report
  /\ rpc \in {"dockerPort", "dockerRun", "dockerProbe"} =>
       {"docker_build", "docker_migration"} \subseteq DOMAIN report
  /\ rpc \in ReportedPc => DOMAIN report = CheckId
  /\ rpc \notin ReportedPc => "docker_boot" \notin DOMAIN report

ReportsMeant ==
  /\ "heavy_validation" \in DOMAIN report => report["heavy_validation"] # "skip"
  /\ "stub_markers" \in DOMAIN report =>
       /\ report["stub_markers"] # "skip"
       /\ report["stub_markers"] = "pass" => debt \cap {"markers", "unscanned"} = {}
  /\ "stub_debt" \in DOMAIN report =>
       /\ report["stub_debt"] # "skip"
       /\ report["stub_debt"] = "pass" => debt \cap {"artifacts", "unscanned"} = {}
  /\ "docker_boot" \in DOMAIN report =>
       /\ report["docker_boot"] = "skip" => report["docker_build"] = "fail"
       /\ report["docker_boot"] = "pass" => answered["docker_boot"] # "nobody"

VerdictRead ==
  verdict # "none" =>
    /\ rpc = "done"
    /\ verdict = "YES" => \A c \in DOMAIN report : report[c] # "fail"

\* A port is acquired once for each attempt, before its application starts.
PortsInStage ==
  /\ rpc \in {"heavyTree", "heavy", "bootPort"} => port["boot"] = NoPort
  /\ rpc = "bootProbe" => port["boot"] # NoPort
  /\ app["boot"] = "starting" => port["boot"] # NoPort
  /\ rpc \in HeavyPc \cup {"debt", "dockerVersion", "dockerBuild", "dockerPort"} =>
       port["docker_boot"] = NoPort
  /\ rpc \in {"dockerRun", "dockerProbe"} => port["docker_boot"] # NoPort
  /\ ppc = "port" => port["preview"] = NoPort
  /\ ppc \in {"build", "run", "watch"} => port["preview"] # NoPort

\* An application listens on its attempt's port, and only it can answer there.
PortsMatch ==
  /\ \A p \in Port : listener[p] # "nobody" => port[listener[p]] = p
  /\ \A a \in Attempt : answered[a] # "nobody" =>
       port[answered[a]] = port[a] /\ port[a] # NoPort

\* What exists is still needed, or a mishap left it.
StoreHeld ==
  /\ worktrees \subseteq {"heavy", "docker"} /\ images \cup containers \subseteq Attempt
  /\ "heavy" \in worktrees => rpc \in HeavyPc \ {"heavyTree"} \/ "heavy" \in mishaps
  /\ "docker" \in worktrees =>
       \/ rpc \in BuildPc \cup {"dockerStop", "dockerImage", "dockerTreeEnd"}
       \/ "docker" \in mishaps
  /\ "docker_boot" \in containers =>
       rpc \in {"dockerProbe", "dockerStop"} \/ "docker_boot" \in mishaps
  /\ "docker_boot" \in images =>
       \/ rpc \in {"dockerPort", "dockerRun", "dockerProbe", "dockerStop", "dockerImage"}
       \/ "docker_image" \in mishaps
  /\ "preview" \in containers => ppc \in {"watch", "container"} \/ "preview" \in mishaps
  /\ "preview" \in images =>
       ppc \in {"run", "watch", "container", "image"} \/ "preview_image" \in mishaps

\* Inductive.
ReadinessInv ==
  /\ ChecksTyped /\ HostRows
  /\ Counted /\ StagesReported /\ ReportsMeant /\ VerdictRead
  /\ PortsInStage /\ PortsMatch
  /\ StoreHeld

\* No failed check has a name of its own to leave, whatever the project is.
LEMMA FailedAreChecks ==
  ASSUME NEW project, NEW ok
  PROVE  FailedOf(project, ok) \subseteq HeavyCheck \ {"boot"}
<1>1. DOMAIN ScriptOf = {"migration", "seed", "typecheck", "build", "tests"}
  BY DEF ScriptOf
<1> QED
  BY <1>1 DEF FailedOf, HeavyCheck

\* Sets of checks can be counted.
LEMMA ChecksCounted ==
  ASSUME NEW failures, failures \subseteq HeavyCheck
  PROVE  /\ IsFiniteSet(failures) /\ Cardinality(failures) \in Nat
         /\ Cardinality(failures) = 0 <=> failures = {}
<1>1. IsFiniteSet(HeavyCheck)
  <2>1. HeavyCheck = {"architecture", "production_config", "install", "migration", "seed",
                      "typecheck", "build"} \cup {"tests"} \cup {"boot"}
    BY DEF HeavyCheck
  <2>2. IsFiniteSet({}) /\ \A S, x : IsFiniteSet(S) => IsFiniteSet(S \cup {x})
    BY FS_EmptySet, FS_AddElement
  <2>3. {"architecture", "production_config", "install", "migration", "seed", "typecheck", "build"}
          = {} \cup {"architecture"} \cup {"production_config"} \cup {"install"} \cup {"migration"}
               \cup {"seed"} \cup {"typecheck"} \cup {"build"}
    OBVIOUS
  <2>4. IsFiniteSet({} \cup {"architecture"} \cup {"production_config"} \cup {"install"})
    BY <2>2
  <2> DEFINE S == {} \cup {"architecture"} \cup {"production_config"} \cup {"install"}
  <2> HIDE DEF S
  <2>5. IsFiniteSet(S \cup {"migration"} \cup {"seed"} \cup {"typecheck"} \cup {"build"})
    BY <2>2, <2>4 DEF S
  <2> QED
    BY <2>1, <2>2, <2>3, <2>5 DEF S
<1>2. IsFiniteSet(failures) /\ Cardinality(failures) \in Nat
  BY <1>1, FS_Subset, FS_CardinalityType
<1> QED
  BY <1>2, FS_EmptySet

\* The count is 0 exactly when nothing failed.
LEMMA BlockingCounts ==
  ASSUME NEW failures, failures \subseteq HeavyCheck, NEW light \in 1..2
  PROVE  /\ BlockingOf(failures, light) \in Nat
         /\ BlockingOf(failures, light) <= Cardinality(failures) + 1
         /\ BlockingOf(failures, light) = 0 <=> failures = {}
<1> DEFINE rest == failures \ {"architecture"}
<1>1. /\ IsFiniteSet(failures) /\ Cardinality(failures) \in Nat
      /\ Cardinality(failures) = 0 <=> failures = {}
      /\ Cardinality(rest) \in Nat
      /\ "architecture" \in failures => Cardinality(rest) = Cardinality(failures) - 1
      /\ "architecture" \notin failures => rest = failures
  <2>1. rest \subseteq HeavyCheck
    OBVIOUS
  <2> QED
    BY <2>1, ChecksCounted, FS_RemoveElement
<1> HIDE DEF rest
<1>2. BlockingOf(failures, light) =
        Cardinality(rest) + IF "architecture" \in failures THEN light ELSE 0
  BY DEF BlockingOf, rest
<1>3. CASE "architecture" \in failures
  BY <1>1, <1>2, <1>3
<1>4. CASE "architecture" \notin failures
  BY <1>1, <1>2, <1>4
<1> QED
  BY <1>3, <1>4

\* A report, with some checks added or given another status.
LEMMA ReportedGrows ==
  ASSUME report \in [DOMAIN report -> {"pass", "fail", "skip"}], DOMAIN report \subseteq CheckId,
         NEW s, report' = Reported(s), DOMAIN s \subseteq CheckId,
         \A c \in DOMAIN s : s[c] \in {"pass", "fail", "skip"}
  PROVE  /\ report' \in [DOMAIN report' -> {"pass", "fail", "skip"}] /\ DOMAIN report' \subseteq CheckId
         /\ DOMAIN report' = DOMAIN report \cup DOMAIN s
         /\ \A c \in DOMAIN s : report'[c] = s[c]
         /\ \A c \in DOMAIN report \ DOMAIN s : report'[c] = report[c]
  BY DEF Reported

\* What the readiness check does not touch.
LEMMA CheckKeepsTool == ASSUME ReadinessStep PROVE UNCHANGED <<ppc, previewStatus>>
<1>1. CASE HeavyStart \/ HeavyCommands \/ BootPort \/ BootProbe
  BY <1>1 DEF HeavyStart, HeavyCommands, BootPort, BootProbe, tool
<1>2. CASE HeavyThrows \/ HeavyEnd \/ DebtChecks \/ DockerVersion
  BY <1>2 DEF HeavyThrows, HeavyEnd, DebtChecks, DockerVersion, tool
<1>3. CASE DockerBuild \/ DockerPort
  BY <1>3, Zenon DEF DockerBuild, DockerPort, tool
<1>4. CASE DockerRun
  BY <1>4 DEF DockerRun, tool
<1>5. CASE DockerProbe
  BY <1>5 DEF DockerProbe, tool
<1>6. CASE DockerStop \/ DockerImage \/ DockerTreeEnd
  BY <1>6, Zenon DEF DockerStop, DockerImage, DockerTreeEnd, tool
<1>7. CASE GiveVerdict
  BY <1>7 DEF GiveVerdict, tool
<1> QED
  BY <1>1, <1>2, <1>3, <1>4, <1>5, <1>6, <1>7 DEF ReadinessStep

\* What the preview and the applications do not touch.
LEMMA HostKeepsCheck ==
  ASSUME PreviewStep \/ AppListens \/ (\E a \in Attempt : AppExits(a)) \/ UNCHANGED readinessVars
  PROVE  UNCHANGED <<debt, rpc, failedChecks, blocking, report, verdict>>
<1>1. CASE PreviewStep
  <2>1. CASE PreviewPort \/ PreviewBuild \/ PreviewRun
    BY <2>1 DEF PreviewPort, PreviewBuild, PreviewRun, readiness
  <2>2. CASE PreviewWatch
    BY <2>2 DEF PreviewWatch, readiness
  <2>3. CASE PreviewContainer \/ PreviewImage
    BY <2>3, Zenon DEF PreviewContainer, PreviewImage, readiness
  <2> QED
    BY <1>1, <2>1, <2>2, <2>3 DEF PreviewStep
<1>2. CASE AppListens
  BY <1>2 DEF AppListens, readiness
<1>3. CASE \E a \in Attempt : AppExits(a)
  BY <1>3 DEF AppExits, readiness
<1>4. CASE UNCHANGED readinessVars
  BY <1>4 DEF readinessVars
<1> QED
  BY <1>1, <1>2, <1>3, <1>4

\* What is neither the check nor the preview.
HostStep ==
  PreviewStep \/ AppListens \/ (\E a \in Attempt : AppExits(a)) \/ UNCHANGED readinessVars

\* Heavy validation's count is kept beside its failures, and reset with them.
LEMMA CountKept == ASSUME ReadinessInv, ReadinessStep \/ HostStep PROVE Counted'
<1>1. Counted
  BY DEF ReadinessInv
<1>2. CASE HeavyCommands
  <2>1. PICK failures \in SUBSET (HeavyCheck \ {"boot"}), light \in 1..2 :
          failedChecks' = failures /\ blocking' = BlockingOf(failures, light)
    <3>1. PICK project \in Project, failing \in SUBSET MayFail, light \in 1..2 :
            LET failures == FailedOf(project, HeavyCheck \ failing)
            IN  failedChecks' = failures /\ blocking' = BlockingOf(failures, light)
      BY <1>2, Zenon DEF HeavyCommands
    <3> QED
      BY <3>1, FailedAreChecks, Zenon
  <2> QED
    BY <2>1, BlockingCounts DEF Counted
<1>3. CASE BootPort
  BY <1>1, <1>3 DEF BootPort, Counted, tally
<1>4. CASE BootProbe
  <2>1. CASE UNCHANGED tally
    BY <1>1, <1>4, <2>1 DEF BootProbe, Counted, tally
  <2>2. CASE failedChecks' = failedChecks \cup {"boot"} /\ blocking' = blocking + 1
    <3>1. "boot" \notin failedChecks /\ "boot" \in HeavyCheck
      BY <1>1, <1>4 DEF BootProbe, Counted, HeavyCheck
    <3>2. /\ IsFiniteSet(failedChecks) /\ Cardinality(failedChecks) \in Nat
          /\ Cardinality(failedChecks') = Cardinality(failedChecks) + 1
      BY <1>1, <2>2, <3>1, ChecksCounted, FS_AddElement DEF Counted
    <3> QED
      BY <1>1, <1>4, <2>2, <3>1, <3>2 DEF BootProbe, Counted
  <2> QED
    BY <1>4, <2>1, <2>2 DEF BootProbe
<1>5. CASE DebtChecks
  BY <1>5, FS_EmptySet DEF DebtChecks, Counted
<1>6. CASE HeavyStart \/ HeavyThrows \/ HeavyEnd
  BY <1>1, <1>6 DEF HeavyStart, HeavyThrows, HeavyEnd, Counted, tally
<1>7. CASE DockerVersion \/ DockerRun \/ DockerProbe
  BY <1>1, <1>7 DEF DockerVersion, DockerRun, DockerProbe, StartContainer, Mishap, Counted, tally
<1>8. CASE DockerBuild \/ DockerPort \/ DockerStop \/ DockerImage \/ DockerTreeEnd \/ GiveVerdict
  <2>1. /\ failedChecks' = failedChecks /\ blocking' = blocking
        /\ rpc' \in {"dockerPort", "dockerRun", "dockerImage", "dockerTreeEnd", "verdict", "done"}
    <3>1. CASE DockerBuild \/ DockerPort
      BY <3>1, Zenon DEF DockerBuild, DockerPort, tally
    <3>2. CASE DockerStop \/ DockerImage
      BY <3>2, Zenon DEF DockerStop, DockerImage, tally
    <3>3. CASE DockerTreeEnd \/ GiveVerdict
      BY <3>3, Zenon DEF DockerTreeEnd, GiveVerdict, tally
    <3> QED
      BY <1>8, <3>1, <3>2, <3>3
  <2> QED
    BY <1>1, <2>1 DEF Counted
<1>10. CASE HostStep
  BY <1>1, <1>10, HostKeepsCheck DEF HostStep, Counted
<1> QED
  BY <1>2, <1>3, <1>4, <1>5, <1>6, <1>7, <1>8, <1>10 DEF ReadinessStep

\* The steps of the check that report nothing, as far as the report goes.
GoesOnSilently ==
  /\ UNCHANGED <<report, debt, verdict>>
  /\ \/ rpc \in HeavyPc /\ rpc' \in HeavyPc
     \/ rpc = "dockerVersion" /\ rpc' = "dockerBuild"
     \/ rpc = "dockerPort" /\ rpc' = "dockerRun"
     \/ rpc = "dockerRun" /\ rpc' = "dockerProbe"
     \/ rpc \in {"dockerStop", "dockerImage", "dockerTreeEnd"}
          /\ rpc' \in {"dockerImage", "dockerTreeEnd", "verdict"}

\* The steps that give up on the image.
ReportsNoImage ==
  /\ report' = Reported(NoImageBuilt) /\ UNCHANGED <<debt, verdict>>
  /\ rpc \in {"dockerVersion", "dockerBuild", "dockerPort", "dockerTreeEnd"}
  /\ rpc' \in {"dockerTreeEnd", "verdict"}

\* What the steps of the check report.
LEMMA StepsReport ==
  ASSUME ReadinessStep
  PROVE  \/ GoesOnSilently \/ ReportsNoImage
         \/ /\ \E x \in {"pass", "fail"} : report' = Reported([heavy_validation |-> x])
            /\ rpc \in HeavyPc /\ rpc' = "debt" /\ UNCHANGED <<debt, verdict>>
         \/ DebtChecks
         \/ /\ \E x \in {"pass", "fail", "skip"} :
                 report' = Reported([docker_build |-> "pass", docker_migration |-> x])
            /\ rpc = "dockerBuild" /\ rpc' = "dockerPort" /\ UNCHANGED <<debt, verdict>>
         \/ /\ \/ report' = Reported([docker_boot |-> "fail"])
               \/ report' = Reported([docker_boot |-> "pass"]) /\ ProbeAnswered("docker_boot")
            /\ rpc \in {"dockerRun", "dockerProbe"} /\ rpc' \in {"dockerStop", "dockerImage"}
            /\ UNCHANGED <<debt, verdict>>
         \/ GiveVerdict
<1>1. CASE HeavyStart \/ HeavyCommands \/ BootPort
  BY <1>1, Zenon DEF HeavyStart, HeavyCommands, BootPort, HeavyPc, GoesOnSilently
<1>2. CASE BootProbe \/ HeavyThrows
  BY <1>2, Zenon DEF BootProbe, HeavyThrows, HeavyPc, GoesOnSilently
<1>3. CASE HeavyEnd
  <2>1. \/ report' = Reported([heavy_validation |->
                       IF rpc = "heavyEnd" /\ blocking = 0 THEN "pass" ELSE "fail"])
        \/ report' = Reported([heavy_validation |-> "fail"])
    BY <1>3, Zenon DEF HeavyEnd, RemoveWorktree
  <2>2. rpc \in HeavyPc /\ rpc' = "debt" /\ UNCHANGED <<debt, verdict>>
    BY <1>3, Zenon DEF HeavyEnd, HeavyPc
  <2> QED
    BY <2>1, <2>2, Zenon
<1>4. CASE DockerVersion
  BY <1>4, Zenon DEF DockerVersion, GoesOnSilently, ReportsNoImage
<1>5. CASE DockerBuild
  BY <1>5, Zenon DEF DockerBuild, ReportsNoImage
<1>6. CASE DockerPort
  BY <1>6, Zenon DEF DockerPort, GoesOnSilently, ReportsNoImage
<1>7. CASE DockerRun
  BY <1>7, Zenon DEF DockerRun, StartContainer, GoesOnSilently
<1>8. CASE DockerProbe
  BY <1>8, Zenon DEF DockerProbe
<1>9. CASE DockerStop \/ DockerImage
  BY <1>9, Zenon DEF DockerStop, DockerImage, GoesOnSilently
<1>10. CASE DockerTreeEnd
  BY <1>10, Zenon DEF DockerTreeEnd, RemoveWorktree, GoesOnSilently, ReportsNoImage
<1> QED
  BY <1>1, <1>2, <1>3, <1>4, <1>5, <1>6, <1>7, <1>8, <1>9, <1>10, Zenon DEF ReadinessStep

\* The report is read only when it is whole, and a status stands for what was seen.
LEMMA ReportKept ==
  ASSUME ReadinessInv, ReadinessStep \/ HostStep,
         answered["docker_boot"] # "nobody" => answered'["docker_boot"] # "nobody",
         ProbeAnswered("docker_boot") => answered'["docker_boot"] # "nobody"
  PROVE  StagesReported' /\ ReportsMeant' /\ VerdictRead'
<1>1. /\ StagesReported /\ ReportsMeant /\ VerdictRead /\ ChecksTyped
      /\ report \in [DOMAIN report -> {"pass", "fail", "skip"}] /\ DOMAIN report \subseteq CheckId
  BY DEF ReadinessInv, StagesReported
<1>2. CASE GoesOnSilently
  BY <1>1, <1>2 DEF GoesOnSilently, StagesReported, ReportsMeant, VerdictRead, HeavyPc, BuildPc, ReportedPc
<1>3. CASE ReportsNoImage
  <2> DEFINE added == NoImageBuilt
  <2>1. /\ DOMAIN added = {"docker_build", "docker_migration", "docker_boot"}
        /\ added["docker_build"] = "fail" /\ added["docker_migration"] = "skip"
        /\ added["docker_boot"] = "skip"
    BY DEF NoImageBuilt
  <2>2. /\ \A c \in DOMAIN added : added[c] \in {"pass", "fail", "skip"}
        /\ DOMAIN added \subseteq CheckId
    BY <2>1 DEF CheckId
  <2>10. report' = Reported(added)
    BY <1>3 DEF ReportsNoImage
  <2> HIDE DEF added
  <2>3. /\ report' \in [DOMAIN report' -> {"pass", "fail", "skip"}] /\ DOMAIN report' \subseteq CheckId
        /\ DOMAIN report' = DOMAIN report \cup DOMAIN added
        /\ \A c \in DOMAIN added : report'[c] = added[c]
        /\ \A c \in DOMAIN report \ DOMAIN added : report'[c] = report[c]
    BY <1>1, <2>2, <2>10, ReportedGrows, Zenon
  <2>4. StagesReported'
    BY <1>1, <1>3, <2>1, <2>3
    DEF ReportsNoImage, StagesReported, HeavyPc, BuildPc, ReportedPc, CheckId
  <2>5. ReportsMeant'
    BY <1>1, <1>3, <2>1, <2>3 DEF ReportsNoImage, ReportsMeant
  <2>6. VerdictRead'
    BY <1>1, <1>3 DEF ReportsNoImage, VerdictRead
  <2> QED
    BY <2>4, <2>5, <2>6
<1>4. CASE /\ \E x \in {"pass", "fail"} : report' = Reported([heavy_validation |-> x])
           /\ rpc \in HeavyPc /\ rpc' = "debt" /\ UNCHANGED <<debt, verdict>>
  <2>1. PICK x \in {"pass", "fail"} : report' = Reported([heavy_validation |-> x])
    BY <1>4
  <2> DEFINE added == [heavy_validation |-> x]
  <2>2. DOMAIN added = {"heavy_validation"} /\ added["heavy_validation"] = x
    OBVIOUS
  <2>3. /\ \A c \in DOMAIN added : added[c] \in {"pass", "fail", "skip"}
        /\ DOMAIN added \subseteq CheckId
    BY <2>2 DEF CheckId
  <2>10. report' = Reported(added)
    BY <2>1
  <2> HIDE DEF added
  <2>4. /\ report' \in [DOMAIN report' -> {"pass", "fail", "skip"}] /\ DOMAIN report' \subseteq CheckId
        /\ DOMAIN report' = DOMAIN report \cup DOMAIN added
        /\ \A c \in DOMAIN added : report'[c] = added[c]
        /\ \A c \in DOMAIN report \ DOMAIN added : report'[c] = report[c]
    BY <1>1, <2>3, <2>10, ReportedGrows, Zenon
  <2>5. StagesReported'
    BY <1>1, <1>4, <2>2, <2>4 DEF StagesReported, HeavyPc, BuildPc, ReportedPc
  <2>6. ReportsMeant'
    BY <1>1, <1>4, <2>2, <2>4 DEF ReportsMeant, StagesReported, HeavyPc, ReportedPc
  <2>7. VerdictRead'
    BY <1>1, <1>4 DEF VerdictRead, HeavyPc
  <2> QED
    BY <2>5, <2>6, <2>7
<1>5. CASE DebtChecks
  <2> DEFINE StatusOf(kind) == IF debt' \cap {kind, "unscanned"} = {} THEN "pass" ELSE "fail"
             added == [stub_markers |-> StatusOf("markers"), stub_debt |-> StatusOf("artifacts")]
  <2>1. report' = Reported(added) /\ rpc = "debt" /\ rpc' = "dockerVersion" /\ UNCHANGED verdict
    BY <1>5, Zenon DEF DebtChecks
  <2>2. /\ DOMAIN added = {"stub_markers", "stub_debt"}
        /\ added["stub_markers"] = StatusOf("markers") /\ added["stub_debt"] = StatusOf("artifacts")
    OBVIOUS
  <2>3. /\ StatusOf("markers") \in {"pass", "fail"} /\ StatusOf("artifacts") \in {"pass", "fail"}
        /\ StatusOf("markers") = "pass" => debt' \cap {"markers", "unscanned"} = {}
        /\ StatusOf("artifacts") = "pass" => debt' \cap {"artifacts", "unscanned"} = {}
    OBVIOUS
  <2> HIDE DEF StatusOf, added
  <2>4. /\ \A c \in DOMAIN added : added[c] \in {"pass", "fail", "skip"}
        /\ DOMAIN added \subseteq CheckId
    BY <2>2, <2>3 DEF CheckId
  <2>5. /\ report' \in [DOMAIN report' -> {"pass", "fail", "skip"}] /\ DOMAIN report' \subseteq CheckId
        /\ DOMAIN report' = DOMAIN report \cup DOMAIN added
        /\ \A c \in DOMAIN added : report'[c] = added[c]
        /\ \A c \in DOMAIN report \ DOMAIN added : report'[c] = report[c]
    BY <1>1, <2>1, <2>4, ReportedGrows, Zenon
  <2>6. StagesReported'
    BY <1>1, <2>1, <2>2, <2>5 DEF StagesReported, HeavyPc, BuildPc, ReportedPc
  <2>7. ReportsMeant'
    BY <1>1, <2>1, <2>2, <2>3, <2>5 DEF ReportsMeant, StagesReported, ReportedPc
  <2>8. VerdictRead'
    BY <1>1, <2>1 DEF VerdictRead
  <2> QED
    BY <2>6, <2>7, <2>8
<1>6. CASE /\ \E x \in {"pass", "fail", "skip"} :
                report' = Reported([docker_build |-> "pass", docker_migration |-> x])
           /\ rpc = "dockerBuild" /\ rpc' = "dockerPort" /\ UNCHANGED <<debt, verdict>>
  <2>1. PICK x \in {"pass", "fail", "skip"} :
          report' = Reported([docker_build |-> "pass", docker_migration |-> x])
    BY <1>6
  <2> DEFINE added == [docker_build |-> "pass", docker_migration |-> x]
  <2>2. /\ DOMAIN added = {"docker_build", "docker_migration"}
        /\ \A c \in DOMAIN added : added[c] \in {"pass", "fail", "skip"}
    OBVIOUS
  <2>3. DOMAIN added \subseteq CheckId
    BY <2>2 DEF CheckId
  <2>10. report' = Reported(added)
    BY <2>1
  <2> HIDE DEF added
  <2>4. /\ report' \in [DOMAIN report' -> {"pass", "fail", "skip"}] /\ DOMAIN report' \subseteq CheckId
        /\ DOMAIN report' = DOMAIN report \cup DOMAIN added
        /\ \A c \in DOMAIN report \ DOMAIN added : report'[c] = report[c]
    BY <1>1, <2>2, <2>3, <2>10, ReportedGrows, Zenon
  <2>5. StagesReported'
    BY <1>1, <1>6, <2>2, <2>4 DEF StagesReported, HeavyPc, BuildPc, ReportedPc
  <2>6. ReportsMeant'
    BY <1>1, <1>6, <2>2, <2>4 DEF ReportsMeant, StagesReported, ReportedPc
  <2>7. VerdictRead'
    BY <1>1, <1>6 DEF VerdictRead
  <2> QED
    BY <2>5, <2>6, <2>7
<1>7. CASE /\ \/ report' = Reported([docker_boot |-> "fail"])
              \/ report' = Reported([docker_boot |-> "pass"]) /\ ProbeAnswered("docker_boot")
           /\ rpc \in {"dockerRun", "dockerProbe"} /\ rpc' \in {"dockerStop", "dockerImage"}
           /\ UNCHANGED <<debt, verdict>>
  <2>1. PICK x \in {"pass", "fail"} :
          /\ report' = Reported([docker_boot |-> x])
          /\ x = "pass" => answered'["docker_boot"] # "nobody"
    BY <1>7
  <2> DEFINE added == [docker_boot |-> x]
  <2>2. DOMAIN added = {"docker_boot"} /\ added["docker_boot"] = x
    OBVIOUS
  <2>3. /\ \A c \in DOMAIN added : added[c] \in {"pass", "fail", "skip"}
        /\ DOMAIN added \subseteq CheckId
    BY <2>2 DEF CheckId
  <2>10. report' = Reported(added)
    BY <2>1
  <2> HIDE DEF added
  <2>4. /\ report' \in [DOMAIN report' -> {"pass", "fail", "skip"}] /\ DOMAIN report' \subseteq CheckId
        /\ DOMAIN report' = DOMAIN report \cup DOMAIN added
        /\ \A c \in DOMAIN added : report'[c] = added[c]
        /\ \A c \in DOMAIN report \ DOMAIN added : report'[c] = report[c]
    BY <1>1, <2>3, <2>10, ReportedGrows, Zenon
  <2>5. StagesReported'
    BY <1>1, <1>7, <2>2, <2>4 DEF StagesReported, HeavyPc, BuildPc, ReportedPc, CheckId
  <2>6. ReportsMeant'
    BY <1>1, <1>7, <2>1, <2>2, <2>4 DEF ReportsMeant
  <2>7. VerdictRead'
    BY <1>1, <1>7 DEF VerdictRead
  <2> QED
    BY <2>5, <2>6, <2>7
<1>8. CASE GiveVerdict
  <2>1. /\ rpc = "verdict" /\ rpc' = "done" /\ UNCHANGED <<debt, report>>
        /\ verdict' = "YES" => \A c \in DOMAIN report : report[c] # "fail"
    BY <1>8, Zenon DEF GiveVerdict
  <2> QED
    BY <1>1, <2>1 DEF StagesReported, ReportsMeant, VerdictRead, ReportedPc, BuildPc, HeavyPc
<1>9. CASE HostStep
  <2>1. UNCHANGED <<debt, rpc, report, verdict>>
    BY <1>9, HostKeepsCheck DEF HostStep
  <2> QED
    BY <1>1, <2>1 DEF StagesReported, ReportsMeant, VerdictRead
<1> QED
  BY <1>2, <1>3, <1>4, <1>5, <1>6, <1>7, <1>8, <1>9, StepsReport, Zenon

\* An attempt is handed its port: nobody listened or answered for it before.
LEMMA PortAcquired ==
  ASSUME HostRows, PortsMatch, NEW a \in Attempt, port[a] = NoPort, AcquireFreePort(a),
         UNCHANGED <<listener, answered>>, app' \in [Attempt -> AppState]
  PROVE  /\ HostRows' /\ PortsMatch' /\ port'[a] # NoPort
         /\ \A b \in Attempt \ {a} : port'[b] = port[b]
<1>1. PICK p \in Port : port' = [port EXCEPT ![a] = p]
  BY DEF AcquireFreePort
<1>2. p # NoPort
  BY ReadinessAssumption
<1>3. HostRows' /\ port'[a] = p /\ \A b \in Attempt \ {a} : port'[b] = port[b]
  BY <1>1 DEF HostRows
<1>4. \A q \in Port : listener[q] # "nobody" => port'[listener[q]] = q
  <2> SUFFICES ASSUME NEW q \in Port, listener[q] # "nobody" PROVE port'[listener[q]] = q
    OBVIOUS
  <2>1. listener[q] \in Attempt /\ port[listener[q]] = q /\ q # NoPort
    BY ReadinessAssumption DEF HostRows, Holder, PortsMatch
  <2> QED
    BY <1>3, <2>1
<1>5. \A b \in Attempt : answered[b] # "nobody" =>
        port'[answered[b]] = port'[b] /\ port'[b] # NoPort
  <2> SUFFICES ASSUME NEW b \in Attempt, answered[b] # "nobody"
               PROVE  port'[answered[b]] = port'[b] /\ port'[b] # NoPort
    OBVIOUS
  <2>1. answered[b] \in Attempt /\ port[answered[b]] = port[b] /\ port[b] # NoPort
    BY DEF HostRows, Holder, PortsMatch
  <2> QED
    BY <1>3, <2>1
<1> QED
  BY <1>2, <1>3, <1>4, <1>5 DEF PortsMatch

\* A probe passes: who answered has the port that was probed.
LEMMA AnswerTaken ==
  ASSUME HostRows, PortsMatch, NEW a \in Attempt, port[a] # NoPort,
         ProbeAnswered(a) \/ UNCHANGED answered,
         UNCHANGED <<port, listener>>, app' \in [Attempt -> AppState]
  PROVE  /\ HostRows' /\ PortsMatch'
         /\ \A b \in Attempt : answered[b] # "nobody" => answered'[b] # "nobody"
         /\ ProbeAnswered(a) => answered'[a] # "nobody"
<1>1. CASE UNCHANGED answered /\ ~ProbeAnswered(a)
  BY <1>1 DEF HostRows, PortsMatch
<1>2. CASE ProbeAnswered(a)
  <2> DEFINE who == listener[port[a]]
  <2>1. /\ who # "nobody" /\ answered' = [answered EXCEPT ![a] = who]
        /\ port[a] \in Port
    BY <1>2 DEF ProbeAnswered, HostRows
  <2>2. who \in Attempt /\ port[who] = port[a]
    BY <2>1 DEF HostRows, Holder, PortsMatch
  <2> HIDE DEF who
  <2>3. HostRows' /\ answered'[a] = who /\ \A b \in Attempt \ {a} : answered'[b] = answered[b]
    BY <2>1, <2>2 DEF HostRows, Holder
  <2>4. PortsMatch'
    BY <2>2, <2>3 DEF PortsMatch
  <2> QED
    BY <2>1, <2>3, <2>4
<1> QED
  BY <1>1, <1>2

\* An application begins to listen on the port of its attempt, or is gone.
LEMMA ListenerMoves ==
  ASSUME HostRows, PortsMatch, NEW a \in Attempt,
         \/ listener' = listener
         \/ port[a] # NoPort /\ listener' = [listener EXCEPT ![port[a]] = a]
         \/ listener' = [p \in Port |-> IF listener[p] = a THEN "nobody" ELSE listener[p]],
         UNCHANGED <<port, answered>>, app' \in [Attempt -> AppState]
  PROVE  HostRows' /\ PortsMatch'
<1>1. CASE listener' = listener
  BY <1>1 DEF HostRows, PortsMatch
<1>2. CASE port[a] # NoPort /\ listener' = [listener EXCEPT ![port[a]] = a]
  <2>1. port[a] \in Port /\ a \in Holder /\ a # "nobody"
    BY <1>2 DEF HostRows, Holder, Attempt
  <2> QED
    BY <1>2, <2>1 DEF HostRows, PortsMatch
<1>3. CASE listener' = [p \in Port |-> IF listener[p] = a THEN "nobody" ELSE listener[p]]
  <2>1. listener' \in [Port -> Holder]
    BY <1>3 DEF HostRows, Holder
  <2>2. \A p \in Port : listener'[p] # "nobody" => listener'[p] = listener[p]
    BY <1>3
  <2> QED
    BY <2>1, <2>2 DEF HostRows, PortsMatch
<1> QED
  BY <1>1, <1>2, <1>3

\* The order of the check's statements.
LEMMA StepsInOrder ==
  ASSUME ReadinessStep
  PROVE  \/ rpc = "heavyTree" /\ rpc' = "heavy"
         \/ rpc = "heavy" /\ rpc' \in {"bootPort", "heavyEnd", "heavyThrew"}
         \/ rpc = "bootPort" /\ rpc' = "heavyThrew"
         \/ rpc = "bootPort" /\ rpc' = "bootProbe" /\ BootPort
         \/ rpc = "bootProbe" /\ rpc' = "heavyEnd"
         \/ rpc \in {"heavyEnd", "heavyThrew"} /\ rpc' = "debt"
         \/ rpc = "debt" /\ rpc' = "dockerVersion"
         \/ rpc = "dockerVersion" /\ rpc' \in {"dockerBuild", "verdict"}
         \/ rpc = "dockerBuild" /\ rpc' \in {"dockerPort", "dockerTreeEnd"}
         \/ rpc = "dockerPort" /\ rpc' = "dockerTreeEnd"
         \/ rpc = "dockerPort" /\ rpc' = "dockerRun" /\ DockerPort
         \/ rpc = "dockerRun" /\ rpc' \in {"dockerProbe", "dockerImage"}
         \/ rpc = "dockerProbe" /\ rpc' = "dockerStop"
         \/ rpc = "dockerStop" /\ rpc' = "dockerImage"
         \/ rpc = "dockerImage" /\ rpc' = "dockerTreeEnd"
         \/ rpc = "dockerTreeEnd" /\ rpc' = "verdict"
         \/ rpc = "verdict" /\ rpc' = "done"
<1>1. CASE HeavyStart
  BY <1>1, Zenon DEF HeavyStart
<1>2. CASE HeavyCommands
  BY <1>2, Zenon DEF HeavyCommands
<1>3. CASE BootPort
  BY <1>3, Zenon DEF BootPort
<1>4. CASE BootProbe
  BY <1>4, Zenon DEF BootProbe
<1>5. CASE HeavyThrows
  BY <1>5, Zenon DEF HeavyThrows
<1>6. CASE HeavyEnd
  BY <1>6, Zenon DEF HeavyEnd
<1>7. CASE DebtChecks
  BY <1>7, Zenon DEF DebtChecks
<1>8. CASE DockerVersion
  BY <1>8, Zenon DEF DockerVersion
<1>9. CASE DockerBuild
  BY <1>9, Zenon DEF DockerBuild
<1>10. CASE DockerPort
  BY <1>10, Zenon DEF DockerPort
<1>11. CASE DockerRun
  BY <1>11, Zenon DEF DockerRun, StartContainer
<1>12. CASE DockerProbe
  BY <1>12, Zenon DEF DockerProbe
<1>13. CASE DockerStop
  BY <1>13, Zenon DEF DockerStop
<1>14. CASE DockerImage
  BY <1>14, Zenon DEF DockerImage
<1>15. CASE DockerTreeEnd
  BY <1>15, Zenon DEF DockerTreeEnd
<1>16. CASE GiveVerdict
  BY <1>16, Zenon DEF GiveVerdict
<1> QED
  BY <1>1, <1>2, <1>3, <1>4, <1>5, <1>6, <1>7, <1>8, <1>9, <1>10, <1>11, <1>12, <1>13, <1>14,
     <1>15, <1>16, Zenon DEF ReadinessStep

\* The order of the preview's statements.
LEMMA PreviewInOrder ==
  ASSUME PreviewStep
  PROVE  /\ UNCHANGED rpc
         /\ \/ ppc = "port" /\ ppc' = "build" /\ PreviewPort
            \/ ppc = "port" /\ ppc' = "done"
            \/ ppc = "build" /\ ppc' \in {"run", "container"}
            \/ ppc = "run" /\ ppc' \in {"watch", "container"}
            \/ ppc = "watch" /\ ppc' = "container"
            \/ ppc = "container" /\ ppc' = "image"
            \/ ppc = "image" /\ ppc' = "done"
<1>1. UNCHANGED rpc
  BY HostKeepsCheck
<1>2. CASE PreviewPort
  BY <1>1, <1>2, Zenon DEF PreviewPort
<1>3. CASE PreviewBuild
  BY <1>1, <1>3, Zenon DEF PreviewBuild
<1>4. CASE PreviewRun
  BY <1>1, <1>4, Zenon DEF PreviewRun, StartContainer
<1>5. CASE PreviewWatch
  BY <1>1, <1>5, Zenon DEF PreviewWatch
<1>6. CASE PreviewContainer
  BY <1>1, <1>6, Zenon DEF PreviewContainer
<1>7. CASE PreviewImage
  BY <1>1, <1>7, Zenon DEF PreviewImage
<1> QED
  BY <1>2, <1>3, <1>4, <1>5, <1>6, <1>7, Zenon DEF PreviewStep

\* The applications go on by themselves.
LEMMA ApplicationsStay ==
  ASSUME AppListens \/ (\E a \in Attempt : AppExits(a)) \/ UNCHANGED readinessVars
  PROVE  UNCHANGED <<rpc, ppc, previewStatus>>
<1>1. CASE AppListens
  BY <1>1, Zenon DEF AppListens, readiness, tool
<1>2. CASE \E a \in Attempt : AppExits(a)
  BY <1>2, Zenon DEF AppExits, readiness, tool
<1>3. CASE UNCHANGED readinessVars
  BY <1>3 DEF readinessVars
<1> QED
  BY <1>1, <1>2, <1>3

\* What the steps do to the host, attempt by attempt.
Acquires(a) ==
  /\ AcquireFreePort(a) /\ UNCHANGED <<listener, answered>>
  /\ \/ /\ a = "boot" /\ rpc = "bootPort" /\ rpc' = "bootProbe"
        /\ app' = [app EXCEPT !["boot"] = "starting"]
     \/ a = "docker_boot" /\ rpc = "dockerPort" /\ rpc' = "dockerRun" /\ UNCHANGED app
     \/ a = "preview" /\ ppc = "port" /\ ppc' = "build" /\ UNCHANGED app

Probes(a) ==
  /\ ProbeAnswered(a) \/ UNCHANGED answered
  /\ UNCHANGED <<port, listener>>
  /\ \/ a = "boot" /\ rpc = "bootProbe" /\ \E state \in {"gone", "stopping"} : app' = [app EXCEPT !["boot"] = state]
     \/ a = "docker_boot" /\ rpc = "dockerProbe" /\ UNCHANGED app
     \/ a = "preview" /\ ppc = "watch" /\ UNCHANGED app

Listens(a) ==
  /\ listener' = [listener EXCEPT ![port[a]] = a] /\ UNCHANGED <<port, answered>>
  /\ \E health \in {"up", "mute"} : app' = [app EXCEPT ![a] = health]
  /\ \/ a = "boot" /\ app["boot"] = "starting"
     \/ a = "docker_boot" /\ rpc = "dockerRun"
     \/ a = "preview" /\ ppc = "run"

Leaves(a) == Gone(a) /\ UNCHANGED <<port, answered>>

\* Every step is one of them, or leaves the host alone.
LEMMA StepsOnHost ==
  ASSUME ReadinessStep \/ HostStep
  PROVE  \/ UNCHANGED <<port, app, listener, answered>>
         \/ \E a \in Attempt : Acquires(a) \/ Probes(a) \/ Listens(a) \/ Leaves(a)
<1>1. "boot" \in Attempt /\ "docker_boot" \in Attempt /\ "preview" \in Attempt
  BY DEF Attempt
<1>2. CASE HeavyStart \/ HeavyCommands \/ HeavyThrows \/ HeavyEnd
  BY <1>2, Zenon DEF HeavyStart, HeavyCommands, HeavyThrows, HeavyEnd, host
<1>3. CASE DebtChecks \/ DockerVersion \/ DockerBuild
  BY <1>3, Zenon DEF DebtChecks, DockerVersion, DockerBuild, host
<1>4. CASE DockerImage \/ DockerTreeEnd \/ GiveVerdict
  BY <1>4, Zenon DEF DockerImage, DockerTreeEnd, GiveVerdict, host
<1>5. CASE BootPort
  BY <1>1, <1>5, Zenon DEF BootPort, Acquires
<1>6. CASE BootProbe
  <2>1. (ProbeAnswered("boot") \/ UNCHANGED answered) /\ UNCHANGED <<port, listener>> /\ rpc = "bootProbe"
    BY <1>6, Zenon DEF BootProbe
  <2>2. \E state \in {"gone", "stopping"} : app' = [app EXCEPT !["boot"] = state]
    BY <1>6 DEF BootProbe
  <2> QED
    BY <1>1, <2>1, <2>2, Zenon DEF Probes
<1>7. CASE DockerPort
  BY <1>1, <1>7, Zenon DEF DockerPort, Acquires
<1>8. CASE DockerRun
  BY <1>1, <1>8, Zenon DEF DockerRun, StartContainer, Listens
<1>9. CASE DockerProbe
  BY <1>1, <1>9, Zenon DEF DockerProbe, Probes
<1>10. CASE DockerStop
  BY <1>1, <1>10, Zenon DEF DockerStop, RemoveContainer, Leaves
<1>11. CASE PreviewPort
  BY <1>1, <1>11, Zenon DEF PreviewPort, Acquires
<1>12. CASE PreviewBuild \/ PreviewImage
  BY <1>12, Zenon DEF PreviewBuild, PreviewImage, host
<1>13. CASE PreviewRun
  BY <1>1, <1>13, Zenon DEF PreviewRun, StartContainer, Listens
<1>14. CASE PreviewWatch
  BY <1>1, <1>14, Zenon DEF PreviewWatch, Probes
<1>15. CASE PreviewContainer
  BY <1>1, <1>15, Zenon DEF PreviewContainer, RemoveContainer, Leaves
<1>16. CASE AppListens
  BY <1>1, <1>16, Zenon DEF AppListens, Listens, Leaves
<1>17. CASE \E a \in Attempt : AppExits(a)
  BY <1>17, Zenon DEF AppExits, Leaves
<1>18. CASE UNCHANGED readinessVars
  BY <1>18 DEF readinessVars
<1>19. CASE ReadinessStep
  BY <1>2, <1>3, <1>4, <1>5, <1>6, <1>7, <1>8, <1>9, <1>10, <1>19, Zenon DEF ReadinessStep
<1>20. CASE PreviewStep
  BY <1>11, <1>12, <1>13, <1>14, <1>15, <1>20, Zenon DEF PreviewStep
<1> QED
  BY <1>16, <1>17, <1>18, <1>19, <1>20, Zenon DEF HostStep

\* The host's rows fit, and each port is known at its stage.
LEMMA HostKept ==
  ASSUME ReadinessInv, ReadinessStep \/ HostStep
  PROVE  /\ HostRows' /\ PortsMatch' /\ PortsInStage'
         /\ answered["docker_boot"] # "nobody" => answered'["docker_boot"] # "nobody"
         /\ ProbeAnswered("docker_boot") => answered'["docker_boot"] # "nobody"
<1>1. HostRows /\ PortsMatch /\ PortsInStage /\ app \in [Attempt -> AppState]
  BY DEF ReadinessInv, HostRows
<1>2. /\ rpc' \in {"heavyTree", "heavy", "bootPort"} => rpc \in {"heavyTree", "heavy", "bootPort"}
      /\ rpc' = "bootProbe" => rpc = "bootProbe" \/ BootPort
      /\ rpc' \in HeavyPc \cup {"debt", "dockerVersion", "dockerBuild", "dockerPort"} =>
           rpc \in HeavyPc \cup {"debt", "dockerVersion", "dockerBuild", "dockerPort"}
      /\ rpc' \in {"dockerRun", "dockerProbe"} =>
           rpc \in {"dockerRun", "dockerProbe"} \/ (DockerPort /\ rpc' = "dockerRun")
      /\ ppc' = "port" => ppc = "port"
      /\ ppc' \in {"build", "run", "watch"} =>
           ppc \in {"build", "run", "watch"} \/ (PreviewPort /\ ppc' = "build")
  <2>1. CASE ReadinessStep
    BY <2>1, StepsInOrder, CheckKeepsTool DEF HeavyPc
  <2>2. CASE PreviewStep
    BY <2>2, PreviewInOrder
  <2>3. CASE AppListens \/ (\E a \in Attempt : AppExits(a)) \/ UNCHANGED readinessVars
    BY <2>3, ApplicationsStay
  <2> QED
    BY <2>1, <2>2, <2>3 DEF HostStep
<1>3. /\ BootPort => Acquires("boot")
      /\ DockerPort /\ rpc' = "dockerRun" => Acquires("docker_boot")
      /\ PreviewPort /\ ppc' = "build" => Acquires("preview")
  <2>1. BootPort => Acquires("boot")
    BY Zenon DEF BootPort, Acquires
  <2>2. DockerPort /\ rpc' = "dockerRun" => Acquires("docker_boot")
    BY Zenon DEF DockerPort, Acquires
  <2>3. PreviewPort /\ ppc' = "build" => Acquires("preview")
    BY Zenon DEF PreviewPort, Acquires
  <2> QED
    BY <2>1, <2>2, <2>3
<1>4. ASSUME NEW a \in Attempt, Acquires(a)
      PROVE  /\ HostRows' /\ PortsMatch' /\ port'[a] # NoPort /\ UNCHANGED answered
             /\ \A b \in Attempt \ {a} : port'[b] = port[b]
             /\ app'["boot"] = "starting" => app["boot"] = "starting" \/ a = "boot"
  <2>1. port[a] = NoPort
    BY <1>1, <1>4 DEF Acquires, PortsInStage, HeavyPc
  <2>2. /\ app' \in [Attempt -> AppState]
        /\ app'["boot"] = "starting" => app["boot"] = "starting" \/ a = "boot"
    BY <1>1, <1>4 DEF Acquires, AppState
  <2> QED
    BY <1>1, <1>4, <2>1, <2>2, PortAcquired DEF Acquires
<1>5. ASSUME NEW a \in Attempt, Probes(a) \/ Listens(a) \/ Leaves(a)
      PROVE  /\ HostRows' /\ PortsMatch' /\ UNCHANGED port
             /\ app'["boot"] = "starting" => app["boot"] = "starting"
             /\ \A b \in Attempt : answered[b] # "nobody" => answered'[b] # "nobody"
  <2>1. /\ app' \in [Attempt -> AppState]
        /\ app'["boot"] = "starting" => app["boot"] = "starting"
    <3>1. CASE Probes(a)
      BY <1>1, <3>1 DEF Probes, AppState
    <3>2. CASE Listens(a)
      BY <1>1, <3>2 DEF Listens, AppState
    <3>3. CASE Leaves(a)
      BY <1>1, <3>3 DEF Leaves, Gone, AppState
    <3> QED
      BY <1>5, <3>1, <3>2, <3>3
  <2>2. CASE Probes(a)
    <3>1. port[a] # NoPort
      BY <1>1, <2>2 DEF Probes, PortsInStage
    <3> QED
      BY <1>1, <2>1, <2>2, <3>1, AnswerTaken DEF Probes
  <2>3. CASE Listens(a)
    <3>1. port[a] # NoPort
      BY <1>1, <2>3 DEF Listens, PortsInStage
    <3> QED
      BY <1>1, <2>1, <2>3, <3>1, ListenerMoves DEF Listens
  <2>4. CASE Leaves(a)
    BY <1>1, <2>1, <2>4, ListenerMoves DEF Leaves, Gone
  <2> QED
    BY <1>5, <2>2, <2>3, <2>4
<1>6. ASSUME UNCHANGED <<port, app, listener, answered>> PROVE HostRows' /\ PortsMatch'
  BY <1>1, <1>6 DEF HostRows, PortsMatch
<1>7. /\ HostRows' /\ PortsMatch'
      /\ \A a \in Attempt : port'[a] = port[a] \/ Acquires(a)
      /\ \A a \in Attempt : Acquires(a) => port'[a] # NoPort
      /\ app'["boot"] = "starting" => app["boot"] = "starting" \/ Acquires("boot")
      /\ \A a \in Attempt : answered[a] # "nobody" => answered'[a] # "nobody"
  BY <1>4, <1>5, <1>6, StepsOnHost
<1>8. "boot" \in Attempt /\ "docker_boot" \in Attempt /\ "preview" \in Attempt
  BY DEF Attempt
<1>9. ProbeAnswered("docker_boot") => answered'["docker_boot"] # "nobody"
  BY <1>1, <1>8 DEF ProbeAnswered, HostRows
<1>10. /\ Acquires("boot") => rpc' = "bootProbe"
       /\ Acquires("docker_boot") => rpc' = "dockerRun"
       /\ Acquires("preview") => ppc' = "build"
  BY DEF Acquires
<1>11. PortsInStage'
  BY <1>1, <1>2, <1>3, <1>7, <1>8, <1>10 DEF PortsInStage, HeavyPc
<1> QED
  BY <1>7, <1>8, <1>9, <1>11

\* What exists on the host is needed by a statement still to come, or a mishap
\* is known to have left it.
LEMMA StoreKept == ASSUME ReadinessInv, ReadinessStep \/ HostStep PROVE StoreHeld'
<1>1. StoreHeld /\ ChecksTyped
  BY DEF ReadinessInv
<1> USE DEF StoreHeld, HeavyPc, BuildPc, readiness, tool
<1>2. CASE HeavyStart
  BY <1>1, <1>2 DEF HeavyStart
<1>3. CASE HeavyCommands
  BY <1>1, <1>3 DEF HeavyCommands, store
<1>4. CASE BootPort
  BY <1>1, <1>4 DEF BootPort, store
<1>5. CASE BootProbe
  BY <1>1, <1>5 DEF BootProbe, store
<1>6. CASE HeavyThrows
  BY <1>1, <1>6 DEF HeavyThrows, store
<1>7. CASE HeavyEnd
  BY <1>1, <1>7 DEF HeavyEnd, RemoveWorktree, Mishap
<1>8. CASE DebtChecks
  BY <1>1, <1>8 DEF DebtChecks, store
<1>9. CASE DockerVersion
  BY <1>1, <1>9 DEF DockerVersion
<1>10. CASE DockerBuild
  BY <1>1, <1>10 DEF DockerBuild, Mishap, Attempt
<1>11. CASE DockerPort
  BY <1>1, <1>11 DEF DockerPort, Mishap
<1>12. CASE DockerRun
  BY <1>1, <1>12 DEF DockerRun, StartContainer, Mishap, Attempt
<1>13. CASE DockerProbe
  BY <1>1, <1>13 DEF DockerProbe, store
<1>14. CASE DockerStop
  BY <1>1, <1>14 DEF DockerStop, RemoveContainer, Mishap
<1>15. CASE DockerImage
  BY <1>1, <1>15 DEF DockerImage, RemoveImage, Mishap
<1>16. CASE DockerTreeEnd
  BY <1>1, <1>16 DEF DockerTreeEnd, RemoveWorktree, Mishap
<1>17. CASE GiveVerdict
  BY <1>1, <1>17 DEF GiveVerdict, store
<1>18. CASE PreviewPort
  BY <1>1, <1>18 DEF PreviewPort, store
<1>19. CASE PreviewBuild
  BY <1>1, <1>19 DEF PreviewBuild, Attempt
<1>20. CASE PreviewRun
  BY <1>1, <1>20 DEF PreviewRun, StartContainer, Mishap, Attempt
<1>21. CASE PreviewWatch
  BY <1>1, <1>21 DEF PreviewWatch, store
<1>22. CASE PreviewContainer
  BY <1>1, <1>22 DEF PreviewContainer, RemoveContainer, Mishap
<1>23. CASE PreviewImage
  BY <1>1, <1>23 DEF PreviewImage, RemoveImage, Mishap
<1>24. CASE AppListens
  BY <1>1, <1>24 DEF AppListens, store
<1>25. CASE \E a \in Attempt : AppExits(a)
  BY <1>1, <1>25 DEF AppExits
<1>26. CASE UNCHANGED readinessVars
  BY <1>1, <1>26 DEF readinessVars
<1> QED
  BY <1>2, <1>3, <1>4, <1>5, <1>6, <1>7, <1>8, <1>9, <1>10, <1>11, <1>12, <1>13, <1>14, <1>15, <1>16, <1>17, <1>18, <1>19, <1>20, <1>21, <1>22, <1>23, <1>24, <1>25, <1>26, Zenon
  DEF ReadinessStep, HostStep, PreviewStep

\* The statements stay the check's and the preview's own.
LEMMA ChecksStayTyped == ASSUME ReadinessInv, ReadinessStep \/ HostStep PROVE ChecksTyped'
<1>1. ChecksTyped
  BY DEF ReadinessInv
<1>2. CASE ReadinessStep
  <2>1. UNCHANGED <<ppc, previewStatus>> /\ rpc' \in CheckPc
    BY <1>2, StepsInOrder, CheckKeepsTool DEF CheckPc, HeavyPc, BuildPc, ReportedPc
  <2>2. CASE DebtChecks
    <3>1. debt' \subseteq {"markers", "artifacts", "unscanned"} /\ UNCHANGED verdict
      BY <2>2 DEF DebtChecks
    <3> QED
      BY <1>1, <2>1, <3>1 DEF ChecksTyped
  <2>3. CASE GiveVerdict
    <3>1. UNCHANGED debt /\ verdict' \in {"YES", "NO"}
      BY <2>3, Zenon DEF GiveVerdict
    <3> QED
      BY <1>1, <2>1, <3>1 DEF ChecksTyped
  <2>4. CASE UNCHANGED <<debt, verdict>>
    BY <1>1, <2>1, <2>4 DEF ChecksTyped
  <2> QED
    BY <1>2, <2>2, <2>3, <2>4, StepsReport, Zenon DEF GoesOnSilently, ReportsNoImage
<1>3. CASE PreviewStep
  <2>1. UNCHANGED <<debt, rpc, verdict>> /\ ppc' \in PreviewPc
    BY <1>3, HostKeepsCheck, PreviewInOrder DEF PreviewPc
  <2>2. previewStatus' \in {previewStatus, "threw", "failed", "healthy"}
    <3>1. CASE PreviewPort \/ PreviewBuild
      BY <3>1, Zenon DEF PreviewPort, PreviewBuild
    <3>2. CASE PreviewRun \/ PreviewWatch
      BY <3>2, Zenon DEF PreviewRun, PreviewWatch
    <3>3. CASE PreviewContainer \/ PreviewImage
      BY <3>3, Zenon DEF PreviewContainer, PreviewImage
    <3> QED
      BY <1>3, <3>1, <3>2, <3>3 DEF PreviewStep
  <2> QED
    BY <1>1, <2>1, <2>2 DEF ChecksTyped
<1>4. CASE AppListens \/ (\E a \in Attempt : AppExits(a)) \/ UNCHANGED readinessVars
  BY <1>1, <1>4, HostKeepsCheck, ApplicationsStay DEF ChecksTyped
<1> QED
  BY <1>2, <1>3, <1>4 DEF HostStep

\* Nothing has been checked, started or made.
LEMMA ReadinessInitInv == ASSUME ReadinessInit PROVE ReadinessInv
<1> USE DEF ReadinessInit
<1>1. ChecksTyped
  BY DEF ChecksTyped, CheckPc, HeavyPc, PreviewPc
<1>2. HostRows
  BY DEF HostRows, AppState, Holder
<1>3. Counted
  BY FS_EmptySet DEF Counted
<1>4. DOMAIN report = {} /\ report \in [DOMAIN report -> {"pass", "fail", "skip"}]
  OBVIOUS
<1>5. StagesReported /\ ReportsMeant
  BY <1>4 DEF StagesReported, ReportsMeant, HeavyPc, BuildPc, ReportedPc
<1>6. VerdictRead /\ StoreHeld
  BY DEF VerdictRead, StoreHeld
<1>7. "boot" \in Attempt /\ "docker_boot" \in Attempt /\ "preview" \in Attempt
  BY DEF Attempt
<1>8. PortsInStage
  BY <1>7 DEF PortsInStage
<1>9. PortsMatch
  BY DEF PortsMatch
<1> QED
  BY <1>1, <1>2, <1>3, <1>5, <1>6, <1>8, <1>9 DEF ReadinessInv

\* For any ports, scripts, failures and mishaps.
LEMMA ReadinessInvHolds == ReadinessSpec => []ReadinessInv
<1>1. ReadinessInit => ReadinessInv
  BY ReadinessInitInv
<1>2. ReadinessInv /\ [ReadinessNext]_readinessVars => ReadinessInv'
  <2> SUFFICES ASSUME ReadinessInv, [ReadinessNext]_readinessVars PROVE ReadinessInv'
    OBVIOUS
  <2>1. ReadinessStep \/ HostStep
    BY DEF ReadinessNext, HostStep
  <2>2. HostRows' /\ PortsMatch' /\ PortsInStage'
    BY <2>1, HostKept
  <2>3. StagesReported' /\ ReportsMeant' /\ VerdictRead'
    BY <2>1, HostKept, ReportKept
  <2> QED
    BY <2>1, <2>2, <2>3, CountKept, StoreKept, ChecksStayTyped DEF ReadinessInv
<1> QED
  BY <1>1, <1>2, PTL DEF ReadinessSpec

\* A YES of the readiness check is given only with all six checks made, heavy
\* validation passed, a container that booted and no stub debt left, and what
\* passed a probe was the application under test unless its port was handed out
\* twice (check-v1-ready.ts:668-743, heavy-validator.ts:437-911).
THEOREM VerdictsAreEarned == ReadinessSpec => [](ReadinessTypeOK /\ VerdictIsEarned)
<1>1. ASSUME ReadinessInv PROVE ReadinessTypeOK
  <2> USE <1>1 DEF ReadinessInv
  <2>1. failedChecks \subseteq HeavyCheck /\ blocking \in 0..(Cardinality(failedChecks) + 1)
    BY ChecksCounted DEF Counted
  <2>2. DOMAIN report \subseteq CheckId /\ \A c \in DOMAIN report : report[c] \in {"pass", "fail", "skip"}
    BY DEF StagesReported
  <2>3. \A a \in Attempt : /\ port[a] \in Port \cup {NoPort}
                           /\ app[a] \in {"none", "starting", "up", "mute", "stopping", "gone"}
                           /\ answered[a] \in Attempt \cup {"nobody"}
    BY DEF HostRows, AppState, Holder
  <2>4. \A p \in Port : listener[p] \in Attempt \cup {"nobody"}
    BY DEF HostRows, Holder
  <2> QED
    BY <2>1, <2>2, <2>3, <2>4 DEF ReadinessTypeOK, ChecksTyped, StoreHeld
<1>2. ASSUME ReadinessInv PROVE VerdictIsEarned
  <2> USE <1>2 DEF ReadinessInv
  <2>1. ASSUME verdict = "YES"
        PROVE  /\ DOMAIN report = CheckId
               /\ report["heavy_validation"] = "pass" /\ report["docker_boot"] = "pass"
               /\ answered["docker_boot"] # "nobody"
               /\ debt = {}
    <3>1. rpc = "done" /\ \A c \in DOMAIN report : report[c] # "fail"
      BY <2>1 DEF VerdictRead
    <3>2. DOMAIN report = CheckId /\ \A c \in CheckId : report[c] \in {"pass", "skip"}
      BY <3>1 DEF StagesReported, ReportedPc
    <3>3. /\ {"heavy_validation", "stub_markers", "stub_debt", "docker_build", "docker_boot"} \subseteq CheckId
      BY DEF CheckId
    <3>4. /\ report["heavy_validation"] = "pass" /\ report["docker_boot"] = "pass"
          /\ report["stub_markers"] = "pass" /\ report["stub_debt"] = "pass"
      BY <3>2, <3>3 DEF ReportsMeant
    <3> QED
      BY <3>2, <3>3, <3>4 DEF ReportsMeant, ChecksTyped
  <2>2. ASSUME NEW a \in Attempt PROVE answered[a] \in {"nobody", a} \/ SharesPort(a)
    BY DEF HostRows, Holder, PortsMatch, SharesPort
  <2> QED
    BY <2>1, <2>2 DEF VerdictIsEarned, Counted
<1> QED
  BY <1>1, <1>2, ReadinessInvHolds, PTL

\* A finished check or preview leaves behind only what a command that was to
\* remove it did not remove, or what it was told to keep (git-versioning.ts:368-398,
\* check-v1-ready.ts:543-665, run-preview-container.ts:283-409).
THEOREM EverythingIsGivenBack == ReadinessSpec => []GivenBack
<1>1. ASSUME ReadinessInv PROVE GivenBack
  BY <1>1 DEF ReadinessInv, StoreHeld, GivenBack, HeavyPc, BuildPc
<1> QED
  BY <1>1, ReadinessInvHolds, PTL
-----------------------------------------------------------------------------
(* The parts together.                                                     *)

\* A behaviour about one part is one of each part: the others stand still.
THEOREM ProjectIsTyped == MCSpec => []ProjectTypeOK
<1>1. MCSpec => AccountsSpec
  <2>1. MCInit => AccountsInit
    BY DEF MCInit
  <2>2. [MCNext]_<<parts, scene>> => [AccountsNext]_accountVars
    BY DEF MCNext, parts
  <2> QED
    BY <2>1, <2>2, PTL DEF MCSpec, AccountsSpec
<1>2. MCSpec => ActivitySpec
  <2>1. MCInit => ActivityInit
    BY DEF MCInit
  <2>2. [MCNext]_<<parts, scene>> => [ActivityNext]_activityVars
    BY DEF MCNext, parts
  <2> QED
    BY <2>1, <2>2, PTL DEF MCSpec, ActivitySpec
<1>3. MCSpec => SessionsSpec
  <2>1. MCInit => SessionsInit
    BY DEF MCInit
  <2>2. [MCNext]_<<parts, scene>> => [SessionsNext]_sessionVars
    BY DEF MCNext, parts
  <2> QED
    BY <2>1, <2>2, PTL DEF MCSpec, SessionsSpec
<1>4. MCSpec => ReadinessSpec
  <2>1. MCInit => ReadinessInit
    BY DEF MCInit
  <2>2. [MCNext]_<<parts, scene>> => [ReadinessNext]_readinessVars
    BY DEF MCNext, parts
  <2> QED
    BY <2>1, <2>2, PTL DEF MCSpec, ReadinessSpec
<1> QED
  BY <1>1, <1>2, <1>3, <1>4, AccountsAreWhole, MutationsAreExclusive, SessionsAreKept, VerdictsAreEarned, PTL
  DEF ProjectTypeOK
=============================================================================
