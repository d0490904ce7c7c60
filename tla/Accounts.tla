------------------------------ MODULE Accounts ------------------------------
(* Accounts, login methods, companies and their teams.                     *)
(*                                                                         *)
(* A User stands for one row of users together with the e-mail address it  *)
(* was created with; somebody who signs up again after leaving is another  *)
(* User.  team is company_members: its UNIQUE (user_id) makes it a         *)
(* function.  Each handler reads on the pool, decides, and writes in a     *)
(* later statement or transaction; between the two any other handler may   *)
(* run, so a request that has decided is kept in request until it writes.  *)
(*                                                                         *)
(* Left out: sessions (every handler here re-reads users.deactivated_at    *)
(* when it starts, which is the guard status[u] = "active"), password      *)
(* changes (an account that has a password keeps one), the phone and terms *)
(* checks that come before a profile, and plan changes (Seats is           *)
(* MaxTeamMembers of the plan in force; a downgrade removes nobody).       *)
EXTENDS Naturals, FiniteSets

CONSTANTS
    User,           \* rows of users
    Social,         \* those who have accounts with the login providers
    Provider,       \* google, naver, kakao
    Company,        \* rows of company_profiles
    Invitation,     \* rows of company_invitations
    Request,        \* handlers that can be in flight at once
    Seats,          \* planInfo.MaxTeamMembers
    MaxLeavers,     \* bound: users who leave
    None            \* no value

ASSUME SocialAssumption == Social \subseteq User
ASSUME SeatsAssumption == Seats \in Nat \ {0}
ASSUME FiniteAssumption == IsFiniteSet(User) /\ IsFiniteSet(Invitation)

VARIABLES
    status,         \* users.deactivated_at, and whether the row exists
    password,       \* users whose password_hash is not NULL
    linked,         \* user_oauth_identities, by user
    team,           \* company_members, by user
    founder,        \* company_profiles.user_id, None if there is no row
    invitation,     \* company_invitations
    request,        \* what each handler has read and decided
    closed,         \* history: companies that existed once
    raced,          \* history: who joined while they or their team left
    overInvited,    \* history: companies whose invitations overlapped
    overAccepted,   \* history: companies whose acceptances overlapped
    locked          \* history: users whose disconnections overlapped

vars == <<status, password, linked, team, founder, invitation, request,
          closed, raced, overInvited, overAccepted, locked>>

login == <<password, linked, locked>>
rows == <<status, team, founder, invitation, closed>>
history == <<raced, overInvited, overAccepted>>

-----------------------------------------------------------------------------
Seat == [company : Company, role : {"owner", "member"}]

\* An invitation's status is 'pending' or 'accepted' in its row; "expired" is
\* a pending row whose expires_at has passed, None a row that is not there.
InvitationRow ==
    [company : Company, to : User, by : User,
     status : {"pending", "expired", "accepted"}]

Idle == [op |-> "idle"]

Decided ==
    [op : {"profile"}, user : User]
        \union [op : {"disconnect"}, user : User, provider : Provider]
        \union [op : {"invite"}, user : User, to : User, company : Company]
        \union [op : {"accept"}, user : User, invitation : Invitation,
                company : Company]
        \union [op : {"deactivate", "delete"}, user : User,
                owned : Company \union {None}]

ASSUME NoneAssumption ==
    None \notin User \union Company \union Seat \union InvitationRow

TypeOK ==
    /\ status \in [User -> {"none", "active", "left", "deleted"}]
    /\ password \subseteq User
    /\ linked \in [User -> SUBSET Provider]
    /\ team \in [User -> Seat \union {None}]
    /\ founder \in [Company -> User \union {None}]
    /\ invitation \in [Invitation -> InvitationRow \union {None}]
    /\ request \in [Request -> Decided \union {Idle}]
    /\ closed \subseteq Company
    /\ raced \subseteq User \union Company
    /\ overInvited \subseteq Company
    /\ overAccepted \subseteq Company
    /\ locked \subseteq User

Init ==
    /\ status = [u \in User |-> "none"]
    /\ password = {}
    /\ linked = [u \in User |-> {}]
    /\ team = [u \in User |-> None]
    /\ founder = [c \in Company |-> None]
    /\ invitation = [i \in Invitation |-> None]
    /\ request = [r \in Request |-> Idle]
    /\ closed = {}
    /\ raced = {}
    /\ overInvited = {}
    /\ overAccepted = {}
    /\ locked = {}

-----------------------------------------------------------------------------
Members(c) == {u \in User : team[u] # None /\ team[u].company = c}
Others(c, u) == Members(c) \ {u}
IsOwner(u) == team[u] # None /\ team[u].role = "owner"

\* The invitations that hold a seat: pending and not past expires_at.
Reserved(c) ==
    {i \in Invitation : /\ invitation[i] # None
                        /\ invitation[i].company = c
                        /\ invitation[i].status = "pending"}

InFlight(ops) == {r \in Request : request[r].op \in ops}

\* Requests other than r that would make u, or the owner of c, leave.
Leaving(r, u, c) ==
    {q \in InFlight({"deactivate", "delete"}) \ {r} :
        request[q].user = u \/ request[q].owned = c}

Decide(r, what) ==
    /\ request[r] = Idle
    /\ request' = [request EXCEPT ![r] = what]

Done(r) == request' = [request EXCEPT ![r] = Idle]

\* INSERT INTO company_members: u takes a seat of c.  The history records a
\* seat taken by somebody who has left meanwhile, or in a team that is about
\* to be dissolved.
Join(r, u, c, role) ==
    /\ team' = [team EXCEPT ![u] = [company |-> c, role |-> role]]
    /\ raced' = IF status[u] # "active" \/ Leaving(r, u, c) # {}
                THEN raced \union {u, c} \union Members(c)
                ELSE raced

-----------------------------------------------------------------------------
(* Login methods.                                                          *)

\* POST /api/auth/signup: the account has a password from the start.
HandleSignup(u) ==
    /\ status[u] = "none"
    /\ status' = [status EXCEPT ![u] = "active"]
    /\ password' = password \union {u}
    /\ UNCHANGED <<linked, locked, team, founder, invitation, closed, request,
                   history>>

\* OAuth callback: the identity's row if there is one, else the row with the
\* same e-mail, else a new row without a password.  The identity of somebody
\* who left is still theirs, and is refused.
ResolveOAuthUser(u, p) ==
    /\ u \in Social
    /\ p \notin linked[u]
    /\ status[u] \in {"none", "active"}
    /\ status' = [status EXCEPT ![u] = "active"]
    /\ linked' = [linked EXCEPT ![u] = @ \union {p}]
    /\ UNCHANGED <<password, locked, team, founder, invitation, closed,
                   request, history>>

\* Mutant: the last login method can be disconnected.
DisconnectsLast(r, u, p) ==
    /\ status[u] = "active"
    /\ p \in linked[u]
    /\ Decide(r, [op |-> "disconnect", user |-> u, provider |-> p])
    /\ locked' = IF \E q \in InFlight({"disconnect"}) :
                        request[q].user = u /\ request[q].provider # p
                 THEN locked \union {u} ELSE locked
    /\ UNCHANGED <<password, linked, rows, history>>

\* DELETE /api/me/account/oauth/{provider}: refused when it is the last way
\* to log in.  The count and the DELETE are two statements.
DisconnectCheck(r, u, p) ==
    /\ status[u] = "active"
    /\ p \in linked[u]
    /\ u \in password \/ linked[u] \ {p} # {}
    /\ Decide(r, [op |-> "disconnect", user |-> u, provider |-> p])
    /\ locked' = IF \E q \in InFlight({"disconnect"}) :
                        request[q].user = u /\ request[q].provider # p
                 THEN locked \union {u} ELSE locked
    /\ UNCHANGED <<password, linked, rows, history>>

DisconnectDelete(r) ==
    /\ request[r].op = "disconnect"
    /\ linked' = [linked EXCEPT ![request[r].user] =
                     @ \ {request[r].provider}]
    /\ Done(r)
    /\ UNCHANGED <<password, locked, rows, history>>

-----------------------------------------------------------------------------
(* Companies and their teams.                                              *)

\* PUT /api/me/company-profile by somebody who is in no company.
ProfileCheck(r, u) ==
    /\ status[u] = "active"
    /\ team[u] = None
    /\ Decide(r, [op |-> "profile", user |-> u])
    /\ UNCHANGED <<rows, login, history>>

\* The profile and its owner's seat are one transaction.  It fails if the
\* caller has a seat by now or is deleted; it does not look whether the
\* caller has left.
ProfileInsert(r, c) ==
    LET u == request[r].user IN
    /\ request[r].op = "profile"
    /\ status[u] # "deleted"
    /\ team[u] = None
    /\ founder[c] = None
    /\ c \notin closed
    /\ founder' = [founder EXCEPT ![c] = u]
    /\ Join(r, u, c, "owner")
    /\ Done(r)
    /\ UNCHANGED <<status, invitation, closed, login, overInvited,
                   overAccepted>>

\* Mutant: pending invitations do not hold a seat.
InvitesUncounted(r, u, to) ==
    /\ status[u] = "active"
    /\ IsOwner(u)
    /\ LET c == team[u].company IN
       /\ Cardinality(Members(c)) < Seats
       /\ to \notin Members(c)
       /\ Decide(r, [op |-> "invite", user |-> u, to |-> to, company |-> c])
       /\ overInvited' = IF \E q \in InFlight({"invite"}) :
                                request[q].company = c
                         THEN overInvited \union {c} ELSE overInvited
    /\ UNCHANGED <<rows, login, raced, overAccepted>>

\* POST /api/me/company/invitations, by the owner: members and pending
\* invitations must leave a seat free.
InviteCheck(r, u, to) ==
    /\ status[u] = "active"
    /\ IsOwner(u)
    /\ LET c == team[u].company IN
       /\ Cardinality(Members(c)) + Cardinality(Reserved(c)) < Seats
       /\ to \notin Members(c)
       /\ Decide(r, [op |-> "invite", user |-> u, to |-> to, company |-> c])
       /\ overInvited' = IF \E q \in InFlight({"invite"}) :
                                request[q].company = c
                         THEN overInvited \union {c} ELSE overInvited
    /\ UNCHANGED <<rows, login, raced, overAccepted>>

\* The INSERT needs the company and the inviter to exist.
InviteInsert(r, i) ==
    /\ request[r].op = "invite"
    /\ invitation[i] = None
    /\ founder[request[r].company] # None
    /\ status[request[r].user] # "deleted"
    /\ invitation' = [invitation EXCEPT ![i] =
                         [company |-> request[r].company,
                          to |-> request[r].to, by |-> request[r].user,
                          status |-> "pending"]]
    /\ Done(r)
    /\ UNCHANGED <<status, team, founder, closed, login, history>>

\* expires_at passes.  An acceptance that was already let through still
\* completes, on top of whoever is invited to the seat it gave up.
Expire(i) ==
    /\ invitation[i] # None
    /\ invitation[i].status = "pending"
    /\ invitation' = [invitation EXCEPT ![i].status = "expired"]
    /\ overInvited' = IF \E q \in InFlight({"accept"}) :
                             request[q].invitation = i
                      THEN overInvited \union {invitation[i].company}
                      ELSE overInvited
    /\ UNCHANGED <<status, team, founder, closed, request, login, raced,
                   overAccepted>>

\* POST /api/invitations/{token}/accept.
AcceptCheck(r, i) ==
    /\ invitation[i] # None
    /\ invitation[i].status = "pending"
    /\ LET u == invitation[i].to
           c == invitation[i].company
       IN /\ status[u] = "active"
          /\ team[u] = None
          /\ Cardinality(Members(c)) < Seats
          /\ Decide(r, [op |-> "accept", user |-> u, invitation |-> i,
                        company |-> c])
          /\ overAccepted' = IF \E q \in InFlight({"accept"}) :
                                    request[q].company = c
                             THEN overAccepted \union {c} ELSE overAccepted
    /\ UNCHANGED <<rows, login, raced, overInvited>>

\* The seat and the invitation's status are one transaction; the UPDATE finds
\* no row if the invitation went with its sender.
AcceptInsert(r) ==
    LET u == request[r].user
        i == request[r].invitation
        c == request[r].company
    IN /\ request[r].op = "accept"
       /\ status[u] # "deleted"
       /\ team[u] = None
       /\ founder[c] # None
       /\ Join(r, u, c, "member")
       /\ invitation' = IF invitation[i] = None THEN invitation
                        ELSE [invitation EXCEPT ![i].status = "accepted"]
       /\ Done(r)
       /\ UNCHANGED <<status, founder, closed, login, overInvited,
                      overAccepted>>

\* DELETE /api/me/company/members/{id}: the owner sends a member away.  The
\* role that was checked never changes, so the check and the DELETE are one.
HandleRemoveCompanyMember(u, m) ==
    /\ status[u] = "active"
    /\ IsOwner(u)
    /\ m \in Members(team[u].company)
    /\ team[m].role = "member"
    /\ team' = [team EXCEPT ![m] = None]
    /\ UNCHANGED <<status, founder, invitation, closed, request, login,
                   history>>

-----------------------------------------------------------------------------
(* Leaving.                                                                *)

\* Bound.
FewLeavers(u) ==
    Cardinality({v \in User : \/ v = u
                              \/ status[v] \in {"left", "deleted"}
                              \/ \E q \in InFlight({"deactivate", "delete"}) :
                                    request[q].user = v}) <= MaxLeavers

\* Mutant: an owner may leave whoever else is in the team.
DepartsAnyway(r, u, op) ==
    /\ \/ status[u] = "active"
       \/ status[u] = "left" /\ op = "delete"
    /\ FewLeavers(u)
    /\ Decide(r, [op |-> op, user |-> u,
                  owned |-> IF IsOwner(u) THEN team[u].company ELSE None])
    /\ UNCHANGED <<rows, login, history>>

\* deactivateUserAccount and handleAdminDeleteMember: an owner whose team has
\* somebody else is refused.  op says which; an account that has already
\* left can be deleted.
DepartCheck(r, u, op) ==
    /\ \/ status[u] = "active"
       \/ status[u] = "left" /\ op = "delete"
    /\ IsOwner(u) => Others(team[u].company, u) = {}
    /\ FewLeavers(u)
    /\ Decide(r, [op |-> op, user |-> u,
                  owned |-> IF IsOwner(u) THEN team[u].company ELSE None])
    /\ UNCHANGED <<rows, login, history>>

\* company_members after the transaction: the whole team goes with the
\* company that was seen to be owned, otherwise only the leaver's seat goes.
TeamWithout(u, c) ==
    [m \in User |-> IF IF c = None THEN m = u ELSE m \in Members(c)
                    THEN None ELSE team[m]]

\* Mutant: the company stays when its owner leaves.
NeverDissolves(c) == UNCHANGED <<founder, closed>>

\* deleteCompanyData: the invitations and the profile go as well.
DissolveCompany(c) ==
    /\ founder' = IF c = None THEN founder ELSE [founder EXCEPT ![c] = None]
    /\ closed' = IF c = None THEN closed ELSE closed \union {c}

DeactivateUserAccount(r) ==
    LET u == request[r].user
        c == request[r].owned
    IN /\ request[r].op = "deactivate"
       /\ status' = [status EXCEPT ![u] = IF @ = "deleted" THEN @ ELSE "left"]
       /\ password' = password \ {u}
       /\ team' = TeamWithout(u, c)
       /\ DissolveCompany(c)
       /\ invitation' = [i \in Invitation |->
                            IF invitation[i] # None /\ invitation[i].company = c
                            THEN None ELSE invitation[i]]
       /\ Done(r)
       /\ UNCHANGED <<linked, locked, history>>

\* The row itself goes, with the invitations it sent.  A profile created
\* meanwhile still refers to it: then the transaction fails.
DeleteMember(r) ==
    LET u == request[r].user
        c == request[r].owned
    IN /\ request[r].op = "delete"
       /\ \A d \in Company \ {c} : founder[d] # u
       /\ status' = [status EXCEPT ![u] = "deleted"]
       /\ password' = password \ {u}
       /\ linked' = [linked EXCEPT ![u] = {}]
       /\ team' = [TeamWithout(u, c) EXCEPT ![u] = None]
       /\ DissolveCompany(c)
       /\ invitation' = [i \in Invitation |->
                            IF invitation[i] # None
                               /\ (invitation[i].company = c
                                   \/ invitation[i].by = u)
                            THEN None ELSE invitation[i]]
       /\ Done(r)
       /\ UNCHANGED <<locked, history>>

\* The write fails, is refused by a constraint or the caller is gone: the
\* transaction is rolled back.
Fail(r) ==
    /\ request[r] # Idle
    /\ Done(r)
    /\ UNCHANGED <<rows, login, history>>

-----------------------------------------------------------------------------
LoginStep ==
    \/ \E u \in User : HandleSignup(u)
    \/ \E u \in User, p \in Provider : ResolveOAuthUser(u, p)
    \/ \E r \in Request, u \in User, p \in Provider : DisconnectCheck(r, u, p)
    \/ \E r \in Request : DisconnectDelete(r)

TeamStep ==
    \/ \E r \in Request, u \in User : ProfileCheck(r, u)
    \/ \E r \in Request, c \in Company : ProfileInsert(r, c)
    \/ \E r \in Request, u, to \in User : InviteCheck(r, u, to)
    \/ \E r \in Request, i \in Invitation : InviteInsert(r, i)
    \/ \E i \in Invitation : Expire(i)
    \/ \E r \in Request, i \in Invitation : AcceptCheck(r, i)
    \/ \E r \in Request : AcceptInsert(r)
    \/ \E u, m \in User : HandleRemoveCompanyMember(u, m)

LeavingStep ==
    \/ \E r \in Request, u \in User, op \in {"deactivate", "delete"} :
          DepartCheck(r, u, op)
    \/ \E r \in Request : DeactivateUserAccount(r)
    \/ \E r \in Request : DeleteMember(r)

Next == LoginStep \/ TeamStep \/ LeavingStep \/ \E r \in Request : Fail(r)

Spec == Init /\ [][Next]_vars

-----------------------------------------------------------------------------
(* Properties.                                                             *)

\* Members and outstanding invitations never claim more seats than the plan
\* has, so that whoever accepts in time finds one: handleCreateInvitation
\* counts the pending invitations for that.  Both handlers count and insert in
\* separate statements, so the companies where two of either overlapped, or
\* where an acceptance outlived its invitation, are exempt.  (The UPDATE of an
\* acceptance does not look at the invitation's status: of two acceptances by
\* the same user the second can take a seat back after the user was removed.)
SeatsReserved ==
    \A c \in Company \ (overInvited \union overAccepted) :
        Cardinality(Members(c)) + Cardinality(Reserved(c)) <= Seats

\* Even where too many were invited, handleAcceptInvitation counts again, so
\* no team outgrows its plan unless two acceptances overlapped.
TeamBounded ==
    \A c \in Company \ overAccepted : Cardinality(Members(c)) <= Seats

\* What the plan of a team promises about seats, while it invites and accepts.
SeatsKept == TypeOK /\ SeatsReserved /\ TeamBounded

\* No company is left without its owner and nobody who left keeps a seat: the
\* policy of deactivateUserAccount.  Exempt is who joined while they, or the
\* team they joined, were already leaving.
NobodyLeftBehind ==
    /\ \A c \in Company \ raced :
           founder[c] # None =>
               {u \in Members(c) : team[u].role = "owner"} = {founder[c]}
    /\ \A u \in User \ raced :
           team[u] # None => /\ status[u] = "active"
                            /\ founder[team[u].company] # None

\* A member loses the seat only by leaving or by being sent away: the company
\* is never dissolved under them (owner_has_other_members), unless they
\* joined while it was being dissolved.
NoEviction ==
    [][\A m \in User \ raced :
          /\ team[m] # None
          /\ team[m].role = "member"
          /\ team'[m] = None
          => \/ status'[m] # "active"
             \/ \E u \in User : HandleRemoveCompanyMember(u, m)]_vars

\* Whoever has an account can get into it: a password, or a provider that was
\* not disconnected (last_login_method), unless two disconnections overlapped.
CanLogIn ==
    \A u \in User \ locked :
        status[u] = "active" => u \in password \/ linked[u] # {}
=============================================================================
