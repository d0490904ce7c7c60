--------------------------- MODULE AccountsProofs ---------------------------
(* What holds of Accounts for every number of users, companies, providers,  *)
(* invitations, requests and seats.                                         *)
EXTENDS Accounts, FiniteSetTheorems, TLAPS

-----------------------------------------------------------------------------
(* Why a login method is left.  A disconnection in flight may still take    *)
(* its provider, so another one has to be linked; and all disconnections of *)
(* a user in flight are of one provider, unless they overlapped.            *)

Disconnects(u) ==
    {r \in Request : request[r].op = "disconnect" /\ request[r].user = u}

DisconnectsKnown ==
    \A r \in Request :
        request[r].op = "disconnect" => status[request[r].user] # "none"

OneProvider ==
    \A u \in User \ locked : \A q, r \in Disconnects(u) :
        request[q].provider = request[r].provider

WayIn(u) ==
    \/ u \in password
    \/ \E p \in linked[u] :
          \A r \in Disconnects(u) : request[r].provider # p

LoginInv ==
    /\ DisconnectsKnown
    /\ OneProvider
    /\ \A u \in User \ locked : status[u] = "active" => WayIn(u)

-----------------------------------------------------------------------------
(* Why nobody is left behind: what a request to leave saw of the team is    *)
(* still so, or the history names who joined meanwhile.                     *)

ClosedGone == \A c \in closed : founder[c] = None

SeatsHaveFounders ==
    \A u \in User : team[u] # None =>
        /\ founder[team[u].company] # None
        /\ team[u].role = "owner" => founder[team[u].company] = u

\* The request to leave of u, which saw u own c, or nothing.
LeaverKnows(u, c) ==
    /\ IsOwner(u) => c = team[u].company \/ team[u].company \in raced
    /\ team[u] # None /\ c # None => c = team[u].company \/ u \in raced
    /\ c # None => Members(c) \ {u} \subseteq raced

LeaversKnow ==
    \A r \in InFlight({"deactivate", "delete"}) :
        LeaverKnows(request[r].user, request[r].owned)

TeamInv == ClosedGone /\ SeatsHaveFounders /\ LeaversKnow /\ NobodyLeftBehind

-----------------------------------------------------------------------------
(* Why the seats suffice: who is invited or accepts has been counted, alone. *)

Invites(c) == {r \in InFlight({"invite"}) : request[r].company = c}
Accepts(c) == {r \in InFlight({"accept"}) : request[r].company = c}

\* An invitation is its company's founder's, and goes with either.
InvitationsLive ==
    \A i \in Invitation : invitation[i] # None =>
        invitation[i].by = founder[invitation[i].company]

InvitesLive ==
    \A r \in InFlight({"invite"}) :
        \/ founder[request[r].company] = request[r].user
        \/ request[r].company \in closed

\* The invitation that u is accepting for c.
Accepting(i, c) ==
    /\ invitation[i] # None
    /\ invitation[i].company = c
    /\ invitation[i].status = "pending" \/ c \in overInvited \union overAccepted

AcceptsLive ==
    \A r \in InFlight({"accept"}) :
        \/ request[r].company \in closed
        \/ Accepting(request[r].invitation, request[r].company)

OneAtATime ==
    /\ \A c \in Company \ overInvited : \A q, r \in Invites(c) : q = r
    /\ \A c \in Company \ overAccepted : \A q, r \in Accepts(c) : q = r

Taken(c) == Cardinality(Members(c)) + Cardinality(Reserved(c))

InvitesFit ==
    \A c \in Company \ (overInvited \union overAccepted) :
        Invites(c) # {} => Taken(c) < Seats

AcceptsFit ==
    \A c \in Company \ overAccepted :
        Accepts(c) # {} => Cardinality(Members(c)) < Seats

SeatsInv ==
    /\ InvitationsLive /\ InvitesLive /\ AcceptsLive /\ OneAtATime
    /\ SeatsReserved /\ InvitesFit
    /\ TeamBounded /\ AcceptsFit

-----------------------------------------------------------------------------
(* Types.                                                                   *)

\* What a request in flight has, by its kind.
LEMMA RequestFields ==
    ASSUME TypeOK, NEW r \in Request
    PROVE  /\ request[r] # Idle =>
                /\ request[r] \in Decided
                /\ request[r].user \in User
                /\ request[r].op \in {"profile", "disconnect", "invite",
                                      "accept", "deactivate", "delete"}
           /\ request[r] = Idle => request[r].op = "idle"
           /\ request[r].op = "disconnect" => request[r].provider \in Provider
           /\ request[r].op = "invite" =>
                request[r].to \in User /\ request[r].company \in Company
           /\ request[r].op = "accept" =>
                /\ request[r].invitation \in Invitation
                /\ request[r].company \in Company
           /\ request[r].op \in {"deactivate", "delete"} =>
                request[r].owned \in Company \union {None}
<1>1. request[r] \in Decided \union {Idle}
  BY DEF TypeOK
<1>2. CASE request[r] = Idle
  BY <1>2 DEF Idle
<1>3. CASE request[r] \in Decided
  <2>1. CASE request[r] \in [op : {"profile"}, user : User]
    BY <1>3, <2>1 DEF Idle
  <2>2. CASE request[r] \in [op : {"disconnect"}, user : User, provider : Provider]
    BY <1>3, <2>2 DEF Idle
  <2>3. CASE request[r] \in [op : {"invite"}, user : User, to : User, company : Company]
    BY <1>3, <2>3 DEF Idle
  <2>4. CASE request[r] \in [op : {"accept"}, user : User, invitation : Invitation,
                             company : Company]
    BY <1>3, <2>4 DEF Idle
  <2>5. CASE request[r] \in [op : {"deactivate", "delete"}, user : User,
                             owned : Company \union {None}]
    BY <1>3, <2>5 DEF Idle
  <2> QED BY <1>3, <2>1, <2>2, <2>3, <2>4, <2>5 DEF Decided
<1> QED BY <1>1, <1>2, <1>3

\* Every step, one by one.
LEMMA Steps ==
    ASSUME [Next]_vars
    PROVE  \/ \E u \in User : HandleSignup(u)
           \/ \E u \in User, p \in Provider : ResolveOAuthUser(u, p)
           \/ \E r \in Request, u \in User, p \in Provider :
                 DisconnectCheck(r, u, p)
           \/ \E r \in Request : \/ DisconnectDelete(r) \/ AcceptInsert(r)
                                 \/ DeactivateUserAccount(r)
                                 \/ DeleteMember(r) \/ Fail(r)
           \/ \E r \in Request, u \in User : ProfileCheck(r, u)
           \/ \E r \in Request, c \in Company : ProfileInsert(r, c)
           \/ \E r \in Request, u, to \in User : InviteCheck(r, u, to)
           \/ \E r \in Request, i \in Invitation :
                 InviteInsert(r, i) \/ AcceptCheck(r, i)
           \/ \E i \in Invitation : Expire(i)
           \/ \E u, m \in User : HandleRemoveCompanyMember(u, m)
           \/ \E r \in Request, u \in User, op \in {"deactivate", "delete"} :
                 DepartCheck(r, u, op)
           \/ UNCHANGED vars
  BY DEF Next, LoginStep, TeamStep, LeavingStep

LEMMA JoinType ==
    ASSUME TypeOK, NEW r \in Request, NEW u \in User, NEW c \in Company,
           NEW role \in {"owner", "member"}, Join(r, u, c, role)
    PROVE  team' \in [User -> Seat \union {None}] /\ raced' \subseteq User \union Company
  BY DEF TypeOK, Join, Seat, Members

LEMMA SeatFields ==
    ASSUME TypeOK, NEW u \in User
    PROVE  team[u] # None => /\ team[u] \in Seat
                             /\ team[u].company \in Company
                             /\ team[u].role \in {"owner", "member"}
  BY DEF TypeOK, Seat

LEMMA InvitationFields ==
    ASSUME TypeOK, NEW i \in Invitation
    PROVE  invitation[i] # None =>
               /\ invitation[i] \in InvitationRow
               /\ invitation[i].company \in Company
               /\ invitation[i].to \in User /\ invitation[i].by \in User
               /\ invitation[i].status \in {"pending", "expired", "accepted"}
  BY DEF TypeOK, InvitationRow

LEMMA InitType == Init => TypeOK
  BY DEF Init, TypeOK

LEMMA NextType == TypeOK /\ [Next]_vars => TypeOK'
<1> SUFFICES ASSUME TypeOK, [Next]_vars PROVE TypeOK'
  OBVIOUS
<1> USE DEF rows, login, history
<1>1. ASSUME NEW u \in User, HandleSignup(u) PROVE TypeOK'
  BY <1>1 DEF HandleSignup, TypeOK
<1>2. ASSUME NEW u \in User, NEW p \in Provider, ResolveOAuthUser(u, p) PROVE TypeOK'
  BY <1>2 DEF ResolveOAuthUser, TypeOK
<1>3. ASSUME NEW r \in Request, NEW u \in User, NEW p \in Provider, DisconnectCheck(r, u, p)
      PROVE  TypeOK'
  <2>1. request' \in [Request -> Decided \union {Idle}]
    BY <1>3 DEF DisconnectCheck, Decide, TypeOK, Decided
  <2>2. locked' \subseteq User
    BY <1>3 DEF DisconnectCheck, TypeOK
  <2> QED BY <1>3, <2>1, <2>2 DEF DisconnectCheck, TypeOK
<1>4. ASSUME NEW r \in Request, DisconnectDelete(r) PROVE TypeOK'
  BY <1>4, RequestFields DEF DisconnectDelete, Done, Idle, TypeOK
<1>5. ASSUME NEW r \in Request, AcceptInsert(r) PROVE TypeOK'
  <2>1. /\ request[r].user \in User /\ request[r].invitation \in Invitation
        /\ request[r].company \in Company
    BY <1>5, RequestFields DEF AcceptInsert
  <2>2. team' \in [User -> Seat \union {None}] /\ raced' \subseteq User \union Company
    BY <1>5, <2>1, JoinType DEF AcceptInsert
  <2>3. invitation' \in [Invitation -> InvitationRow \union {None}]
    <3>1. CASE invitation[request[r].invitation] = None
      BY <1>5, <3>1 DEF AcceptInsert, TypeOK
    <3>2. CASE invitation[request[r].invitation] # None
      <4>1. [invitation[request[r].invitation] EXCEPT !.status = "accepted"] \in InvitationRow
        BY <2>1, <3>2, InvitationFields DEF InvitationRow
      <4> QED BY <1>5, <3>2, <4>1 DEF AcceptInsert, TypeOK
    <3> QED BY <3>1, <3>2
  <2> QED BY <1>5, <2>2, <2>3 DEF AcceptInsert, Done, TypeOK
<1>6. ASSUME NEW r \in Request, DeactivateUserAccount(r) PROVE TypeOK'
  <2>1. request[r].user \in User /\ request[r].owned \in Company \union {None}
    BY <1>6, RequestFields DEF DeactivateUserAccount
  <2> QED BY <1>6, <2>1 DEF DeactivateUserAccount, TeamWithout, DissolveCompany, Done, TypeOK
<1>7. ASSUME NEW r \in Request, DeleteMember(r) PROVE TypeOK'
  <2>1. request[r].user \in User /\ request[r].owned \in Company \union {None}
    BY <1>7, RequestFields DEF DeleteMember
  <2> QED BY <1>7, <2>1 DEF DeleteMember, TeamWithout, DissolveCompany, Done, TypeOK
<1>8. ASSUME NEW r \in Request, Fail(r) PROVE TypeOK'
  BY <1>8 DEF Fail, Done, TypeOK
<1>9. ASSUME NEW r \in Request, NEW u \in User, ProfileCheck(r, u) PROVE TypeOK'
  BY <1>9 DEF ProfileCheck, Decide, Decided, TypeOK
<1>10. ASSUME NEW r \in Request, NEW c \in Company, ProfileInsert(r, c) PROVE TypeOK'
  <2>1. request[r].user \in User
    BY <1>10, RequestFields DEF ProfileInsert
  <2>2. team' \in [User -> Seat \union {None}] /\ raced' \subseteq User \union Company
    BY <1>10, <2>1, JoinType DEF ProfileInsert
  <2> QED BY <1>10, <2>1, <2>2 DEF ProfileInsert, Done, TypeOK
<1>11. ASSUME NEW r \in Request, NEW u \in User, NEW to \in User, InviteCheck(r, u, to)
       PROVE  TypeOK'
  <2>1. team[u].company \in Company
    BY <1>11, SeatFields DEF InviteCheck, IsOwner
  <2>2. request' \in [Request -> Decided \union {Idle}]
    BY <1>11, <2>1 DEF InviteCheck, Decide, TypeOK, Decided
  <2> QED BY <1>11, <2>1, <2>2 DEF InviteCheck, TypeOK
<1>12. ASSUME NEW r \in Request, NEW i \in Invitation, InviteInsert(r, i) PROVE TypeOK'
  <2>1. /\ request[r].user \in User /\ request[r].to \in User
        /\ request[r].company \in Company
    BY <1>12, RequestFields DEF InviteInsert
  <2> QED BY <1>12, <2>1 DEF InviteInsert, InvitationRow, Done, TypeOK
<1>13. ASSUME NEW r \in Request, NEW i \in Invitation, AcceptCheck(r, i) PROVE TypeOK'
  <2>1. invitation[i].company \in Company /\ invitation[i].to \in User
    BY <1>13, InvitationFields DEF AcceptCheck
  <2>2. request' \in [Request -> Decided \union {Idle}]
    BY <1>13, <2>1 DEF AcceptCheck, Decide, TypeOK, Decided
  <2> QED BY <1>13, <2>1, <2>2 DEF AcceptCheck, TypeOK
<1>14. ASSUME NEW i \in Invitation, Expire(i) PROVE TypeOK'
  <2>1. invitation[i].company \in Company
    BY <1>14, InvitationFields DEF Expire
  <2>2. [invitation[i] EXCEPT !.status = "expired"] \in InvitationRow
    BY <1>14, InvitationFields DEF Expire, InvitationRow
  <2> QED BY <1>14, <2>1, <2>2 DEF Expire, TypeOK
<1>15. ASSUME NEW u \in User, NEW m \in User, HandleRemoveCompanyMember(u, m) PROVE TypeOK'
  BY <1>15 DEF HandleRemoveCompanyMember, TypeOK
<1>16. ASSUME NEW r \in Request, NEW u \in User, NEW op \in {"deactivate", "delete"},
              DepartCheck(r, u, op)
       PROVE  TypeOK'
  <2>1. (IF IsOwner(u) THEN team[u].company ELSE None) \in Company \union {None}
    BY SeatFields DEF IsOwner
  <2>2. request' \in [Request -> Decided \union {Idle}]
    BY <1>16, <2>1 DEF DepartCheck, Decide, TypeOK, Decided
  <2> QED BY <1>16, <2>2 DEF DepartCheck, TypeOK
<1>17. UNCHANGED vars => TypeOK'
  BY DEF vars, TypeOK
<1> QED BY Steps, <1>1, <1>2, <1>3, <1>4, <1>5, <1>6, <1>7, <1>8, <1>9, <1>10, <1>11,
           <1>12, <1>13, <1>14, <1>15, <1>16, <1>17

\* Every row and every request in flight has the type it is declared with.
THEOREM TypeCorrect == Spec => []TypeOK
<1> QED BY InitType, NextType, PTL DEF Spec

-----------------------------------------------------------------------------
(* Login methods.                                                           *)

\* Steps that start no disconnection and leave active users their methods.
LEMMA LoginKept ==
    ASSUME TypeOK, LoginInv, locked' = locked,
           \A r \in Request :
               request'[r].op = "disconnect" => request'[r] = request[r],
           \A u \in User : status[u] # "none" => status'[u] # "none",
           \A u \in User : status'[u] = "active" =>
               /\ status[u] = "active"
               /\ u \in password => u \in password'
               /\ linked'[u] = linked[u]
    PROVE  LoginInv'
<1>1. DisconnectsKnown'
  BY RequestFields DEF LoginInv, DisconnectsKnown, Idle
<1>2. \A u \in User : Disconnects(u)' \subseteq Disconnects(u)
  BY DEF Disconnects
<1>3. OneProvider'
  BY <1>2 DEF LoginInv, OneProvider, Disconnects
<1>4. ASSUME NEW u \in User \ locked', status'[u] = "active"
      PROVE  WayIn(u)'
  <2>1. WayIn(u)
    BY <1>4 DEF LoginInv
  <2> QED BY <1>2, <1>4, <2>1 DEF WayIn, Disconnects
<1> QED BY <1>1, <1>3, <1>4 DEF LoginInv

LEMMA LinkKeepsLogin ==
    ASSUME TypeOK, LoginInv, NEW u \in User, NEW p \in Provider, ResolveOAuthUser(u, p)
    PROVE  LoginInv'
<1> USE DEF ResolveOAuthUser, history
<1>1. DisconnectsKnown'
  BY RequestFields DEF LoginInv, DisconnectsKnown, Idle, TypeOK
<1>2. OneProvider'
  BY DEF LoginInv, OneProvider, Disconnects
<1>3. ASSUME NEW v \in User \ locked', status'[v] = "active"
      PROVE  WayIn(v)'
  <2>1. CASE status[v] = "active"
    <3>1. WayIn(v)
      BY <1>3, <2>1 DEF LoginInv
    <3>2. linked[v] \subseteq linked'[v] /\ Disconnects(v)' = Disconnects(v)
      BY DEF TypeOK, Disconnects
    <3> QED BY <3>1, <3>2 DEF WayIn, Disconnects
  <2>2. CASE status[v] # "active"
    <3>1. v = u /\ status[u] = "none" /\ p \in linked'[v]
      BY <1>3, <2>2 DEF TypeOK
    <3>2. Disconnects(v)' = {}
      BY <3>1 DEF LoginInv, DisconnectsKnown, Disconnects
    <3> QED BY <3>1, <3>2 DEF WayIn
  <2> QED BY <2>1, <2>2
<1> QED BY <1>1, <1>2, <1>3 DEF LoginInv

LEMMA DisconnectCheckKeepsLogin ==
    ASSUME TypeOK, LoginInv, NEW r \in Request, NEW u \in User, NEW p \in Provider,
           DisconnectCheck(r, u, p)
    PROVE  LoginInv'
<1> USE DEF DisconnectCheck, Decide, rows
<1>1. /\ request'[r] = [op |-> "disconnect", user |-> u, provider |-> p]
      /\ \A q \in Request \ {r} : request'[q] = request[q]
  BY DEF TypeOK
<1>2. DisconnectsKnown'
  BY <1>1 DEF LoginInv, DisconnectsKnown
<1>3. \A v \in User \ {u} : Disconnects(v)' = Disconnects(v)
  BY <1>1 DEF Disconnects, Idle
<1>4. Disconnects(u)' = Disconnects(u) \union {r}
  BY <1>1 DEF Disconnects, Idle
<1>5. ASSUME u \notin locked'
      PROVE  \A q \in Disconnects(u)' : request'[q].provider = p
  <2>1. \A q \in InFlight({"disconnect"}) : request[q].user = u => request[q].provider = p
    BY <1>5
  <2> QED BY <1>1, <1>4, <2>1 DEF Disconnects, InFlight
<1>6. locked \subseteq locked' /\ (u \notin locked' => locked' = locked)
  OBVIOUS
<1>7. OneProvider'
  <2> SUFFICES ASSUME NEW v \in User \ locked', NEW q \in Disconnects(v)', NEW s \in Disconnects(v)'
               PROVE  request'[q].provider = request'[s].provider
    BY DEF OneProvider
  <2>1. CASE v = u
    BY <1>5, <2>1
  <2>2. CASE v # u
    BY <1>1, <1>3, <1>6, <2>2 DEF LoginInv, OneProvider, Disconnects, Idle
  <2> QED BY <2>1, <2>2
<1>8. ASSUME NEW v \in User \ locked', status'[v] = "active"
      PROVE  WayIn(v)'
  <2>1. CASE v = u
    <3>1. u \in password \/ \E o \in linked[u] : o # p
      OBVIOUS
    <3> QED BY <1>5, <1>8, <2>1, <3>1 DEF WayIn
  <2>2. CASE v # u
    <3>1. WayIn(v)
      BY <1>6, <1>8 DEF LoginInv
    <3> QED BY <1>1, <1>3, <2>2, <3>1 DEF WayIn, Disconnects, Idle
  <2> QED BY <2>1, <2>2
<1> QED BY <1>2, <1>7, <1>8 DEF LoginInv

LEMMA DisconnectDeleteKeepsLogin ==
    ASSUME TypeOK, LoginInv, NEW r \in Request, DisconnectDelete(r)
    PROVE  LoginInv'
<1> DEFINE u == request[r].user
           p == request[r].provider
<1> USE DEF DisconnectDelete, Done, rows
<1>1. u \in User /\ p \in Provider /\ r \in Disconnects(u)
  BY RequestFields DEF Disconnects, Idle
<1>2. /\ request'[r] = Idle
      /\ \A q \in Request \ {r} : request'[q] = request[q]
  BY DEF TypeOK
<1>3. \A v \in User : Disconnects(v)' \subseteq Disconnects(v) \ {r}
  BY <1>2 DEF Disconnects, Idle
<1>4. DisconnectsKnown'
  BY <1>2 DEF LoginInv, DisconnectsKnown, Idle
<1>5. OneProvider'
  BY <1>2, <1>3 DEF LoginInv, OneProvider, Disconnects
<1>6. ASSUME NEW v \in User \ locked', status'[v] = "active"
      PROVE  WayIn(v)'
  <2>1. WayIn(v)
    BY <1>6 DEF LoginInv
  <2>2. CASE v \in password
    BY <2>2 DEF WayIn
  <2>3. ASSUME NEW o \in linked[v], \A q \in Disconnects(v) : request[q].provider # o
        PROVE  WayIn(v)'
    <3>1. o \in linked'[v]
      BY <1>1, <2>3 DEF TypeOK
    <3> QED BY <1>2, <1>3, <2>3, <3>1 DEF WayIn, Disconnects
  <2> QED BY <2>1, <2>2, <2>3 DEF WayIn
<1> QED BY <1>4, <1>5, <1>6 DEF LoginInv

LEMMA NextLogin == TypeOK /\ LoginInv /\ [Next]_vars => LoginInv'
<1> SUFFICES ASSUME TypeOK, LoginInv, [Next]_vars PROVE LoginInv'
  OBVIOUS
<1> USE DEF rows, login, history, Decide, Done, Idle
<1>1. ASSUME NEW u \in User, HandleSignup(u) PROVE LoginInv'
  <2>1. u \in password'
    BY <1>1 DEF HandleSignup
  <2>2. DisconnectsKnown' /\ OneProvider'
    BY <1>1, RequestFields DEF HandleSignup, LoginInv, DisconnectsKnown, OneProvider, Disconnects, TypeOK
  <2>3. ASSUME NEW v \in User \ locked', status'[v] = "active"
        PROVE  WayIn(v)'
    <3>1. CASE v = u
      BY <2>1, <3>1 DEF WayIn
    <3>2. CASE v # u
      BY <1>1, <2>3, <3>2 DEF HandleSignup, LoginInv, WayIn, Disconnects, TypeOK
    <3> QED BY <3>1, <3>2
  <2> QED BY <2>2, <2>3 DEF LoginInv
<1>2. ASSUME NEW u \in User, NEW p \in Provider, ResolveOAuthUser(u, p) PROVE LoginInv'
  BY <1>2, LinkKeepsLogin
<1>3. ASSUME NEW r \in Request, NEW u \in User, NEW p \in Provider, DisconnectCheck(r, u, p)
      PROVE  LoginInv'
  BY <1>3, DisconnectCheckKeepsLogin
<1>4. ASSUME NEW r \in Request, DisconnectDelete(r) PROVE LoginInv'
  BY <1>4, DisconnectDeleteKeepsLogin
<1>5. ASSUME NEW r \in Request, AcceptInsert(r) \/ Fail(r) PROVE LoginInv'
  BY <1>5, LoginKept DEF AcceptInsert, Fail, TypeOK
<1>6. ASSUME NEW r \in Request, DeactivateUserAccount(r) \/ DeleteMember(r) PROVE LoginInv'
  <2>1. request[r].user \in User
    BY <1>6, RequestFields DEF DeactivateUserAccount, DeleteMember
  <2>2. \A u \in User : /\ u # request[r].user => status'[u] = status[u] /\ linked'[u] = linked[u]
                        /\ u = request[r].user => status'[u] \in {"left", "deleted"}
    BY <1>6, <2>1 DEF DeactivateUserAccount, DeleteMember, TypeOK
  <2>3. password' = password \ {request[r].user} /\ locked' = locked
    BY <1>6 DEF DeactivateUserAccount, DeleteMember
  <2>4. \A q \in Request : request'[q].op = "disconnect" => request'[q] = request[q]
    BY <1>6 DEF DeactivateUserAccount, DeleteMember, TypeOK
  <2> QED BY <2>2, <2>3, <2>4, LoginKept
<1>7. ASSUME NEW r \in Request, NEW u \in User, ProfileCheck(r, u) PROVE LoginInv'
  BY <1>7, LoginKept DEF ProfileCheck, TypeOK
<1>8. ASSUME NEW r \in Request, NEW c \in Company, ProfileInsert(r, c) PROVE LoginInv'
  BY <1>8, LoginKept DEF ProfileInsert, TypeOK
<1>9. ASSUME NEW r \in Request, NEW u \in User, NEW to \in User, InviteCheck(r, u, to)
      PROVE  LoginInv'
  BY <1>9, LoginKept DEF InviteCheck, TypeOK
<1>10. ASSUME NEW r \in Request, NEW i \in Invitation, InviteInsert(r, i) \/ AcceptCheck(r, i)
       PROVE  LoginInv'
  BY <1>10, LoginKept DEF InviteInsert, AcceptCheck, TypeOK
<1>11. ASSUME NEW i \in Invitation, Expire(i) PROVE LoginInv'
  BY <1>11, LoginKept DEF Expire, TypeOK
<1>12. ASSUME NEW u \in User, NEW m \in User, HandleRemoveCompanyMember(u, m) PROVE LoginInv'
  BY <1>12, LoginKept DEF HandleRemoveCompanyMember
<1>13. ASSUME NEW r \in Request, NEW u \in User, NEW op \in {"deactivate", "delete"},
              DepartCheck(r, u, op)
       PROVE  LoginInv'
  BY <1>13, LoginKept DEF DepartCheck, TypeOK
<1>14. UNCHANGED vars => LoginInv'
  BY LoginKept DEF vars
<1> QED BY Steps, <1>1, <1>2, <1>3, <1>4, <1>5, <1>6, <1>7, <1>8, <1>9, <1>10, <1>11,
           <1>12, <1>13, <1>14

\* Whoever has an account can get into it, unless two disconnections of
\* theirs overlapped: the last login method stays.
THEOREM LoginStays == Spec => []CanLogIn
<1>1. Init => LoginInv
  BY DEF Init, LoginInv, DisconnectsKnown, OneProvider, Disconnects, Idle
<1>2. LoginInv => CanLogIn
  BY DEF LoginInv, WayIn, CanLogIn
<1> QED BY <1>1, <1>2, InitType, NextType, NextLogin, PTL DEF Spec

-----------------------------------------------------------------------------
(* Teams.                                                                   *)

\* Steps that touch no team and nobody's leaving.
LEMMA TeamKept ==
    ASSUME TypeOK, TeamInv, UNCHANGED <<team, founder, closed, raced>>,
           \A u \in User : status[u] = "active" => status'[u] = "active",
           \A r \in Request :
               request'[r].op \in {"deactivate", "delete"} => request'[r] = request[r]
    PROVE  TeamInv'
<1>1. ClosedGone' /\ SeatsHaveFounders'
  BY DEF TeamInv, ClosedGone, SeatsHaveFounders
<1>2. \A u \in User, c \in Company \union {None} : LeaverKnows(u, c) => LeaverKnows(u, c)'
  BY DEF LeaverKnows, IsOwner, Members
<1>3. LeaversKnow'
  BY <1>2, RequestFields DEF TeamInv, LeaversKnow, InFlight
<1>4. NobodyLeftBehind'
  BY DEF TeamInv, NobodyLeftBehind, Members
<1> QED BY <1>1, <1>3, <1>4 DEF TeamInv

\* Somebody takes a seat of a company that is there, or founds one.
LEMMA JoinKeepsTeam ==
    ASSUME TypeOK, TeamInv, NEW r \in Request, NEW u \in User, NEW c \in Company,
           NEW role \in {"owner", "member"}, Join(r, u, c, role),
           team[u] = None, c \notin closed,
           request' = [request EXCEPT ![r] = Idle],
           request[r].op \notin {"deactivate", "delete"},
           status' = status, closed' = closed,
           \/ role = "owner" /\ founder[c] = None /\ founder' = [founder EXCEPT ![c] = u]
           \/ role = "member" /\ founder[c] # None /\ founder' = founder
    PROVE  TeamInv'
<1> USE NoneAssumption
<1>1. /\ team'[u] = [company |-> c, role |-> role] /\ team'[u] # None
      /\ \A v \in User \ {u} : team'[v] = team[v]
  BY DEF Join, TypeOK, Seat
<1>2. raced \subseteq raced'
  BY DEF Join
<1>3. /\ founder'[c] # None
      /\ role = "owner" => founder'[c] = u
      /\ \A d \in Company : founder[d] # None => founder'[d] = founder[d]
      /\ \A d \in Company \ {c} : founder'[d] = founder[d]
  BY DEF TypeOK
<1>4. /\ Members(c)' = Members(c) \union {u}
      /\ \A d \in Company \ {c} : Members(d)' = Members(d)
  BY <1>1, SeatFields DEF Members
<1>5. ClosedGone'
  BY <1>3 DEF TeamInv, ClosedGone, TypeOK
<1>6. SeatsHaveFounders'
  BY <1>1, <1>3, SeatFields DEF TeamInv, SeatsHaveFounders
<1>7. ASSUME NEW q \in InFlight({"deactivate", "delete"})'
      PROVE  LeaverKnows(request[q].user, request[q].owned)'
  <2> DEFINE v == request[q].user
             d == request[q].owned
  <2>1. /\ q # r /\ request'[q] = request[q] /\ q \in InFlight({"deactivate", "delete"}) \ {r}
        /\ v \in User /\ d \in Company \union {None}
    BY <1>7, RequestFields DEF InFlight, Idle, TypeOK
  <2>2. LeaverKnows(v, d)
    BY <2>1 DEF TeamInv, LeaversKnow
  <2>3. v = u \/ d = c => {u, c} \subseteq raced'
    BY <2>1 DEF Join, Leaving
  <2>4. IsOwner(v)' => d = team'[v].company \/ team'[v].company \in raced'
    BY <1>1, <1>2, <2>1, <2>2, <2>3 DEF LeaverKnows, IsOwner
  <2>5. team'[v] # None /\ d # None => d = team'[v].company \/ v \in raced'
    BY <1>1, <1>2, <2>1, <2>2, <2>3 DEF LeaverKnows
  <2>6. d # None => Members(d)' \ {v} \subseteq raced'
    <3>1. CASE d = c
      <4>1. Members(c) \ {v} \subseteq raced /\ u \in raced'
        BY <2>2, <2>3, <3>1 DEF LeaverKnows
      <4>2. Members(d)' = Members(c)'
        BY <2>1, <3>1 DEF Members
      <4> QED BY <1>2, <1>4, <2>1, <4>1, <4>2
    <3>2. CASE d # c
      BY <1>2, <1>4, <2>1, <2>2, <3>2 DEF LeaverKnows
    <3> QED BY <3>1, <3>2
  <2> QED BY <2>1, <2>4, <2>5, <2>6 DEF LeaverKnows
<1>8. ASSUME NEW d \in Company \ raced', founder'[d] # None
      PROVE  {v \in Members(d) : team[v].role = "owner"}' = {founder'[d]}
  <2>1. CASE d # c
    <3>1. founder[d] # None /\ d \notin raced
      BY <1>2, <1>3, <1>8, <2>1
    <3>2. {v \in Members(d) : team[v].role = "owner"} = {founder[d]}
      BY <3>1 DEF TeamInv, NobodyLeftBehind
    <3>3. u \notin Members(d)
      BY DEF Members
    <3> QED BY <1>1, <1>3, <1>4, <2>1, <3>2, <3>3 DEF Members
  <2>2. CASE d = c /\ role = "member"
    <3>1. {v \in Members(c) : team[v].role = "owner"} = {founder[c]}
      BY <1>2, <1>8, <2>2 DEF TeamInv, NobodyLeftBehind
    <3>2. u \notin Members(c)
      BY DEF Members
    <3> QED BY <1>1, <1>4, <2>2, <3>1, <3>2 DEF Members
  <2>3. CASE d = c /\ role = "owner"
    <3>1. Members(c) = {}
      BY <2>3 DEF TeamInv, SeatsHaveFounders, Members
    <3> QED BY <1>1, <1>3, <1>4, <2>3, <3>1
  <2> QED BY <2>1, <2>2, <2>3
<1>9. ASSUME NEW v \in User \ raced', team'[v] # None
      PROVE  status'[v] = "active" /\ founder'[team'[v].company] # None
  <2>1. CASE v = u
    BY <1>1, <1>3, <1>9, <2>1 DEF Join
  <2>2. CASE v # u
    BY <1>1, <1>2, <1>3, <1>9, <2>2, SeatFields DEF TeamInv, NobodyLeftBehind
  <2> QED BY <2>1, <2>2
<1>10. NobodyLeftBehind'
  BY <1>8, <1>9 DEF NobodyLeftBehind
<1> QED BY <1>5, <1>6, <1>7, <1>10 DEF TeamInv, LeaversKnow

\* The request to leave of u, who owned c, has been carried out.
LEMMA LeaveKeepsTeam ==
    ASSUME TypeOK, TeamInv, NEW r \in Request, NEW u \in User,
           NEW c \in Company \union {None},
           request[r].op \in {"deactivate", "delete"},
           request[r].user = u, request[r].owned = c,
           request' = [request EXCEPT ![r] = Idle],
           team' \in [User -> Seat \union {None}],
           \A v \in User : team'[v] \in {None, team[v]},
           \A v \in User \ {u} : c = None \/ v \notin Members(c) => team'[v] = team[v],
           \A v \in User : c # None /\ v \in Members(c) => team'[v] = None,
           c = None => team'[u] = None,
           \A v \in User \ {u} : status'[v] = status[v],
           DissolveCompany(c), raced' = raced
    PROVE  TeamInv'
<1> USE NoneAssumption
<1>1. LeaverKnows(u, c)
  BY DEF TeamInv, LeaversKnow, InFlight
<1>2. \A v \in User : team'[v] # None => team'[v] = team[v] /\ team[v].company # c
  BY SeatFields DEF Members
<1>3. /\ c # None => founder'[c] = None
      /\ \A d \in Company \ {c} : founder'[d] = founder[d]
  BY DEF DissolveCompany, TypeOK
<1>4. ClosedGone'
  BY <1>3 DEF DissolveCompany, TeamInv, ClosedGone, TypeOK
<1>5. SeatsHaveFounders'
  BY <1>2, <1>3, SeatFields DEF TeamInv, SeatsHaveFounders
<1>6. \A d \in Company : Members(d)' \subseteq Members(d)
  BY <1>2 DEF Members
<1>7. ASSUME NEW q \in InFlight({"deactivate", "delete"})'
      PROVE  LeaverKnows(request[q].user, request[q].owned)'
  <2>1. /\ request'[q] = request[q] /\ q \in InFlight({"deactivate", "delete"})
        /\ request[q].user \in User /\ request[q].owned \in Company \union {None}
    BY <1>7, RequestFields DEF InFlight, Idle, TypeOK
  <2>2. LeaverKnows(request[q].user, request[q].owned)
    BY <2>1 DEF TeamInv, LeaversKnow
  <2> QED BY <1>2, <1>6, <2>1, <2>2 DEF LeaverKnows, IsOwner
<1>8. ASSUME NEW d \in Company \ raced', founder'[d] # None
      PROVE  {v \in Members(d) : team[v].role = "owner"}' = {founder'[d]}
  <2>1. d # c /\ founder'[d] = founder[d]
    BY <1>3, <1>8
  <2>2. {v \in Members(d) : team[v].role = "owner"} = {founder[d]}
    BY <1>8, <2>1 DEF TeamInv, NobodyLeftBehind
  <2>3. founder[d] # u /\ founder[d] \in Members(d) /\ founder[d] \in User
    BY <1>1, <1>8, <2>1, <2>2 DEF LeaverKnows, IsOwner, Members
  <2>4. team'[founder[d]] = team[founder[d]]
    BY <2>1, <2>3 DEF Members
  <2> QED BY <1>2, <1>6, <2>1, <2>2, <2>3, <2>4 DEF Members
<1>9. ASSUME NEW v \in User \ raced', team'[v] # None
      PROVE  status'[v] = "active" /\ founder'[team'[v].company] # None
  <2>1. v # u
    BY <1>1, <1>2, <1>9 DEF LeaverKnows
  <2> QED BY <1>2, <1>3, <1>9, <2>1, SeatFields DEF TeamInv, NobodyLeftBehind
<1>10. NobodyLeftBehind'
  BY <1>8, <1>9 DEF NobodyLeftBehind
<1> QED BY <1>4, <1>5, <1>7, <1>10 DEF TeamInv, LeaversKnow

LEMMA DepartCheckKeepsTeam ==
    ASSUME TypeOK, TeamInv, NEW r \in Request, NEW u \in User,
           NEW op \in {"deactivate", "delete"}, DepartCheck(r, u, op)
    PROVE  TeamInv'
<1> DEFINE c == IF IsOwner(u) THEN team[u].company ELSE None
<1> USE NoneAssumption DEF DepartCheck, Decide, rows, history, Idle
<1>1. /\ request'[r] = [op |-> op, user |-> u, owned |-> c]
      /\ \A q \in Request \ {r} : request'[q] = request[q]
      /\ UNCHANGED <<team, founder, closed, raced, status>>
  BY DEF TypeOK
<1>2. ClosedGone' /\ SeatsHaveFounders' /\ NobodyLeftBehind'
  BY <1>1 DEF TeamInv, ClosedGone, SeatsHaveFounders, NobodyLeftBehind, Members
<1>3. LeaverKnows(u, c)
  BY SeatFields DEF LeaverKnows, IsOwner, Others
<1>4. ASSUME NEW q \in InFlight({"deactivate", "delete"})'
      PROVE  LeaverKnows(request[q].user, request[q].owned)'
  <2>1. CASE q = r
    BY <1>1, <1>3, <2>1 DEF LeaverKnows, IsOwner, Members
  <2>2. CASE q # r
    <3>1. LeaverKnows(request[q].user, request[q].owned)
      BY <1>1, <1>4, <2>2 DEF TeamInv, LeaversKnow, InFlight
    <3> QED BY <1>1, <1>4, <2>2, <3>1 DEF LeaverKnows, IsOwner, Members, InFlight
  <2> QED BY <2>1, <2>2
<1> QED BY <1>2, <1>4 DEF TeamInv, LeaversKnow

\* What DeactivateUserAccount and DeleteMember have in common.
LEMMA Departure ==
    ASSUME TypeOK, NEW r \in Request, DeactivateUserAccount(r) \/ DeleteMember(r)
    PROVE  LET u == request[r].user
               c == request[r].owned
           IN  /\ u \in User /\ c \in Company \union {None}
               /\ request[r].op \in {"deactivate", "delete"}
               /\ request' = [request EXCEPT ![r] = Idle]
               /\ \A v \in User : team'[v] \in {None, team[v]}
               /\ \A v \in User \ {u} : c = None \/ v \notin Members(c) => team'[v] = team[v]
               /\ \A v \in User : c # None /\ v \in Members(c) => team'[v] = None
               /\ c = None => team'[u] = None
               /\ status'[u] \in {"left", "deleted"}
               /\ \A v \in User \ {u} : status'[v] = status[v]
               /\ DissolveCompany(c) /\ raced' = raced
<1> DEFINE u == request[r].user
           c == request[r].owned
<1>1. /\ u \in User /\ c \in Company \union {None}
      /\ request[r].op \in {"deactivate", "delete"}
  BY RequestFields DEF DeactivateUserAccount, DeleteMember
<1>2. \A v \in User : TeamWithout(u, c)[v] =
                         IF IF c = None THEN v = u ELSE v \in Members(c)
                         THEN None ELSE team[v]
  BY DEF TeamWithout
<1>3. \A v \in User : team'[v] = TeamWithout(u, c)[v] \/ (v = u /\ team'[v] = None)
  <2>1. CASE DeactivateUserAccount(r)
    BY <2>1 DEF DeactivateUserAccount
  <2>2. CASE DeleteMember(r)
    <3>1. team' = [TeamWithout(u, c) EXCEPT ![u] = None]
      BY <2>2 DEF DeleteMember
    <3>2. DOMAIN TeamWithout(u, c) = User
      BY DEF TeamWithout
    <3> QED BY <1>1, <3>1, <3>2
  <2> QED BY <2>1, <2>2
<1>4. /\ status'[u] \in {"left", "deleted"}
      /\ \A v \in User \ {u} : status'[v] = status[v]
  BY <1>1 DEF DeactivateUserAccount, DeleteMember, TypeOK
<1>5. /\ request' = [request EXCEPT ![r] = Idle]
      /\ DissolveCompany(c) /\ raced' = raced
  BY DEF DeactivateUserAccount, DeleteMember, Done, history
<1> HIDE DEF u, c
<1>6. /\ \A v \in User : team'[v] \in {None, team[v]}
      /\ \A v \in User \ {u} : c = None \/ v \notin Members(c) => team'[v] = team[v]
      /\ \A v \in User : c # None /\ v \in Members(c) => team'[v] = None
      /\ c = None => team'[u] = None
  BY <1>1, <1>2, <1>3
<1> QED BY <1>1, <1>4, <1>5, <1>6 DEF u, c

\* A member's seat goes only with the member, or because the owner says so.
KeepsSeats ==
    \A m \in User \ raced :
        /\ team[m] # None
        /\ team[m].role = "member"
        /\ team'[m] = None
        => \/ status'[m] # "active"
           \/ \E u \in User : HandleRemoveCompanyMember(u, m)

LEMMA NextTeam == TypeOK /\ TeamInv /\ [Next]_vars => TeamInv' /\ KeepsSeats
<1> SUFFICES ASSUME TypeOK, TeamInv, [Next]_vars PROVE TeamInv' /\ KeepsSeats
  OBVIOUS
<1> USE NoneAssumption DEF rows, login, history
<1>1. ASSUME UNCHANGED team PROVE KeepsSeats
  BY <1>1 DEF KeepsSeats
<1>2. ASSUME NEW r \in Request, NEW u \in User, NEW c \in Company,
             NEW role \in {"owner", "member"}, Join(r, u, c, role)
      PROVE  KeepsSeats
  BY <1>2 DEF KeepsSeats, Join, TypeOK, Seat
<1>3. ASSUME NEW u \in User, HandleSignup(u) PROVE TeamInv' /\ KeepsSeats
  BY <1>1, <1>3, TeamKept DEF HandleSignup, TypeOK
<1>4. ASSUME NEW u \in User, NEW p \in Provider, ResolveOAuthUser(u, p)
      PROVE  TeamInv' /\ KeepsSeats
  BY <1>1, <1>4, TeamKept DEF ResolveOAuthUser, TypeOK
<1>5. ASSUME NEW r \in Request, NEW u \in User, NEW p \in Provider, DisconnectCheck(r, u, p)
      PROVE  TeamInv' /\ KeepsSeats
  BY <1>1, <1>5, TeamKept DEF DisconnectCheck, Decide, TypeOK
<1>6. ASSUME NEW r \in Request, DisconnectDelete(r) \/ Fail(r) PROVE TeamInv' /\ KeepsSeats
  BY <1>1, <1>6, TeamKept DEF DisconnectDelete, Fail, Done, Idle, TypeOK
<1>7. ASSUME NEW r \in Request, AcceptInsert(r) PROVE TeamInv' /\ KeepsSeats
  <2>1. request[r].user \in User /\ request[r].company \in Company
    BY <1>7, RequestFields DEF AcceptInsert
  <2>2. request[r].company \notin closed
    BY <1>7, <2>1 DEF AcceptInsert, TeamInv, ClosedGone
  <2> QED BY <1>2, <1>7, <2>1, <2>2, JoinKeepsTeam DEF AcceptInsert, Done
<1>8. ASSUME NEW r \in Request, NEW c \in Company, ProfileInsert(r, c)
      PROVE  TeamInv' /\ KeepsSeats
  <2>1. request[r].user \in User
    BY <1>8, RequestFields DEF ProfileInsert
  <2> QED BY <1>2, <1>8, <2>1, JoinKeepsTeam DEF ProfileInsert, Done
<1>9. ASSUME NEW r \in Request, DeactivateUserAccount(r) \/ DeleteMember(r)
      PROVE  TeamInv' /\ KeepsSeats
  <2> DEFINE u == request[r].user
             c == request[r].owned
  <2>1. LeaverKnows(u, c)
    BY <1>9, Departure DEF TeamInv, LeaversKnow, InFlight
  <2>2. KeepsSeats
    BY <1>9, <2>1, Departure DEF KeepsSeats, LeaverKnows, Members
  <2>3. team' \in [User -> Seat \union {None}]
    BY NextType DEF TypeOK
  <2>4. TeamInv'
    BY <1>9, <2>3, Departure, LeaveKeepsTeam
  <2> QED BY <2>2, <2>4
<1>10. ASSUME NEW r \in Request, NEW u \in User, ProfileCheck(r, u) PROVE TeamInv' /\ KeepsSeats
  BY <1>1, <1>10, TeamKept DEF ProfileCheck, Decide, TypeOK
<1>11. ASSUME NEW r \in Request, NEW u \in User, NEW to \in User, InviteCheck(r, u, to)
       PROVE  TeamInv' /\ KeepsSeats
  BY <1>1, <1>11, TeamKept DEF InviteCheck, Decide, TypeOK
<1>12. ASSUME NEW r \in Request, NEW i \in Invitation, InviteInsert(r, i) \/ AcceptCheck(r, i)
       PROVE  TeamInv' /\ KeepsSeats
  BY <1>1, <1>12, TeamKept DEF InviteInsert, AcceptCheck, Decide, Done, Idle, TypeOK
<1>13. ASSUME NEW i \in Invitation, Expire(i) PROVE TeamInv' /\ KeepsSeats
  BY <1>1, <1>13, TeamKept DEF Expire
<1>14. ASSUME NEW u \in User, NEW m \in User, HandleRemoveCompanyMember(u, m)
       PROVE  TeamInv' /\ KeepsSeats
  <2> USE DEF HandleRemoveCompanyMember
  <2>1. /\ team'[m] = None /\ \A v \in User \ {m} : team'[v] = team[v]
        /\ team[m].role = "member"
    BY <1>14 DEF TypeOK
  <2>2. KeepsSeats
    BY <1>14, <2>1 DEF KeepsSeats
  <2>3. \A d \in Company : Members(d)' \subseteq Members(d)
    BY <2>1 DEF Members
  <2>4. ClosedGone' /\ SeatsHaveFounders'
    BY <1>14, <2>1 DEF TeamInv, ClosedGone, SeatsHaveFounders
  <2>5. ASSUME NEW q \in InFlight({"deactivate", "delete"})'
        PROVE  LeaverKnows(request[q].user, request[q].owned)'
    <3>1. /\ request' = request /\ raced' = raced
          /\ request[q].user \in User /\ request[q].owned \in Company \union {None}
          /\ LeaverKnows(request[q].user, request[q].owned)
      BY <1>14, <2>5, RequestFields DEF TeamInv, LeaversKnow, InFlight, Idle
    <3> QED BY <2>1, <2>3, <3>1 DEF LeaverKnows, IsOwner
  <2>6. \A d \in Company :
            {v \in Members(d) : team[v].role = "owner"}'
                = {v \in Members(d) : team[v].role = "owner"}
    BY <2>1 DEF Members
  <2>7. NobodyLeftBehind'
    BY <1>14, <2>1, <2>6 DEF TeamInv, NobodyLeftBehind
  <2> QED BY <2>2, <2>4, <2>5, <2>7 DEF TeamInv, LeaversKnow
<1>15. ASSUME NEW r \in Request, NEW u \in User, NEW op \in {"deactivate", "delete"},
              DepartCheck(r, u, op)
       PROVE  TeamInv' /\ KeepsSeats
  BY <1>1, <1>15, DepartCheckKeepsTeam DEF DepartCheck
<1>16. UNCHANGED vars => TeamInv' /\ KeepsSeats
  BY <1>1, TeamKept DEF vars
<1> QED BY Steps, <1>3, <1>4, <1>5, <1>6, <1>7, <1>8, <1>9, <1>10, <1>11, <1>12, <1>13,
           <1>14, <1>15, <1>16

LEMMA InitTeam == Init => TeamInv
  BY DEF Init, TeamInv, ClosedGone, SeatsHaveFounders, LeaversKnow, InFlight, Idle,
         NobodyLeftBehind, Members

\* Every company keeps its owner and nobody who left keeps a seat, except
\* those who joined while they, or the team, were leaving.
THEOREM TeamsComplete == Spec => []NobodyLeftBehind
<1>1. TeamInv => NobodyLeftBehind
  BY DEF TeamInv
<1> QED BY <1>1, InitType, InitTeam, NextType, NextTeam, PTL DEF Spec

\* Nobody's company is dissolved under them, unless they joined while it was.
THEOREM NobodyEvicted == Spec => NoEviction
<1> QED BY InitType, InitTeam, NextType, NextTeam, PTL DEF Spec, NoEviction, KeepsSeats

-----------------------------------------------------------------------------
(* Seats.                                                                   *)

LEMMA Counts ==
    ASSUME NEW c \in Company
    PROVE  /\ IsFiniteSet(Members(c)) /\ Cardinality(Members(c)) \in Nat
           /\ IsFiniteSet(Reserved(c)) /\ Cardinality(Reserved(c)) \in Nat
<1>1. Members(c) \subseteq User /\ Reserved(c) \subseteq Invitation
  BY DEF Members, Reserved
<1> QED BY <1>1, FiniteAssumption, FS_Subset, FS_CardinalityType

\* Steps that begin no invitation and no acceptance and take no seat.
LEMMA SeatsFreed ==
    ASSUME TypeOK, SeatsInv, InvitationsLive', InvitesLive', AcceptsLive',
           overInvited \subseteq overInvited', overAccepted \subseteq overAccepted',
           \A r \in Request : request'[r].op \in {"invite", "accept"} =>
               request'[r] = request[r],
           \A c \in Company : /\ Members(c)' \subseteq Members(c)
                             /\ Reserved(c)' \subseteq Reserved(c)
    PROVE  SeatsInv'
<1>1. \A c \in Company : Invites(c)' \subseteq Invites(c) /\ Accepts(c)' \subseteq Accepts(c)
  BY DEF Invites, Accepts, InFlight
<1>2. OneAtATime'
  BY <1>1 DEF SeatsInv, OneAtATime
<1>3. ASSUME NEW c \in Company
      PROVE  /\ Cardinality(Members(c)') \in Nat /\ Cardinality(Reserved(c)') \in Nat
             /\ Cardinality(Members(c)') <= Cardinality(Members(c))
             /\ Cardinality(Reserved(c)') <= Cardinality(Reserved(c))
  BY Counts, FS_Subset, FS_CardinalityType
<1>4. SeatsReserved' /\ TeamBounded'
  BY <1>3, Counts, SeatsAssumption DEF SeatsInv, SeatsReserved, TeamBounded
<1>5. InvitesFit' /\ AcceptsFit'
  BY <1>1, <1>3, Counts, SeatsAssumption DEF SeatsInv, InvitesFit, AcceptsFit, Taken
<1> QED BY <1>2, <1>4, <1>5 DEF SeatsInv

\* Steps that touch neither companies nor invitations.
LEMMA LiveKept ==
    ASSUME TypeOK, SeatsInv, UNCHANGED <<founder, closed, invitation>>,
           overInvited \subseteq overInvited', overAccepted \subseteq overAccepted',
           \A r \in Request : request'[r].op \in {"invite", "accept"} =>
               request'[r] = request[r]
    PROVE  InvitationsLive' /\ InvitesLive' /\ AcceptsLive'
<1>1. InvitationsLive'
  BY DEF SeatsInv, InvitationsLive
<1>2. InvitesLive'
  BY DEF SeatsInv, InvitesLive, InFlight
<1>3. AcceptsLive'
  BY DEF SeatsInv, AcceptsLive, Accepting, InFlight
<1> QED BY <1>1, <1>2, <1>3

LEMMA LoginKeepsSeats ==
    ASSUME TypeOK, SeatsInv,
           UNCHANGED <<team, founder, closed, invitation, overInvited, overAccepted>>,
           \A r \in Request : request'[r].op \in {"invite", "accept"} =>
               request'[r] = request[r]
    PROVE  SeatsInv'
  BY LiveKept, SeatsFreed DEF Members, Reserved

LEMMA ProfileInsertKeepsSeats ==
    ASSUME TypeOK, TeamInv, SeatsInv, NEW r \in Request, NEW c \in Company,
           ProfileInsert(r, c)
    PROVE  SeatsInv'
<1> DEFINE u == request[r].user
<1> USE NoneAssumption DEF ProfileInsert
<1>1. /\ u \in User /\ founder[c] = None /\ c \notin closed
      /\ UNCHANGED <<invitation, closed, overInvited, overAccepted>>
      /\ \A d \in Company \ {c} : founder'[d] = founder[d]
      /\ request' = [request EXCEPT ![r] = Idle]
  BY RequestFields DEF Done, TypeOK
<1>2. /\ Members(c) = {} /\ Members(c)' = {u}
      /\ \A d \in Company \ {c} : Members(d)' = Members(d)
  BY <1>1, SeatFields DEF Join, Members, TeamInv, SeatsHaveFounders, TypeOK, Seat
<1>3. \A i \in Invitation : invitation[i] # None => invitation[i].company # c
  BY <1>1, InvitationFields DEF SeatsInv, InvitationsLive
<1>4. \A q \in InFlight({"invite", "accept"}) : request[q].company # c
  BY <1>1, <1>3, RequestFields DEF SeatsInv, InvitesLive, AcceptsLive, Accepting, InFlight, Idle
<1>5. \A q \in Request : request'[q].op \in {"invite", "accept"} => request'[q] = request[q]
  BY <1>1 DEF TypeOK, Idle
<1>6. InvitationsLive'
  BY <1>1, <1>3, InvitationFields DEF SeatsInv, InvitationsLive
<1>7. InvitesLive'
  BY <1>1, <1>4, <1>5, RequestFields DEF SeatsInv, InvitesLive, InFlight, Idle
<1>8. AcceptsLive'
  BY <1>1, <1>5 DEF SeatsInv, AcceptsLive, Accepting, InFlight
<1>9. /\ Invites(c)' = {} /\ Accepts(c)' = {} /\ Reserved(c)' = {}
      /\ \A d \in Company : /\ Invites(d)' \subseteq Invites(d)
                           /\ Accepts(d)' \subseteq Accepts(d)
                           /\ Reserved(d)' = Reserved(d)
  BY <1>1, <1>3, <1>4, <1>5 DEF Invites, Accepts, Reserved, InFlight
<1>10. Cardinality(Members(c)') = 1 /\ Cardinality(Reserved(c)') = 0
  BY <1>2, <1>9, FS_Singleton, FS_EmptySet
<1>11. OneAtATime'
  BY <1>1, <1>9 DEF SeatsInv, OneAtATime
<1>12. SeatsReserved' /\ TeamBounded'
  <2>1. \A d \in Company \ {c} : /\ Cardinality(Members(d)') = Cardinality(Members(d))
                                /\ Cardinality(Reserved(d)') = Cardinality(Reserved(d))
    BY <1>2, <1>9
  <2>2. 1 <= Seats /\ 1 + 0 <= Seats
    BY SeatsAssumption
  <2> QED BY <1>1, <1>10, <2>1, <2>2 DEF SeatsInv, SeatsReserved, TeamBounded
<1>13. InvitesFit' /\ AcceptsFit'
  BY <1>1, <1>2, <1>9 DEF SeatsInv, InvitesFit, AcceptsFit, Taken
<1> QED BY <1>6, <1>7, <1>8, <1>11, <1>12, <1>13 DEF SeatsInv

LEMMA InviteCheckKeepsSeats ==
    ASSUME TypeOK, TeamInv, SeatsInv, NEW r \in Request, NEW u \in User, NEW to \in User,
           InviteCheck(r, u, to)
    PROVE  SeatsInv'
<1> DEFINE c == team[u].company
<1> USE DEF InviteCheck, Decide, rows
<1>1. /\ c \in Company /\ founder[c] = u /\ Taken(c) < Seats
      /\ UNCHANGED <<team, founder, invitation, closed, overAccepted>>
      /\ overInvited' = IF Invites(c) # {} THEN overInvited \union {c} ELSE overInvited
  BY SeatFields DEF IsOwner, Taken, TeamInv, SeatsHaveFounders, Invites
<1>2. /\ request'[r] = [op |-> "invite", user |-> u, to |-> to, company |-> c]
      /\ \A q \in Request \ {r} : request'[q] = request[q]
  BY DEF TypeOK
<1>3. \A d \in Company : Members(d)' = Members(d) /\ Reserved(d)' = Reserved(d)
  BY <1>1 DEF Members, Reserved
<1>4. /\ Invites(c)' = Invites(c) \union {r}
      /\ \A d \in Company \ {c} : Invites(d)' = Invites(d)
      /\ \A d \in Company : Accepts(d)' = Accepts(d)
  BY <1>2 DEF Invites, Accepts, InFlight, Idle
<1>5. InvitationsLive' /\ InvitesLive'
  BY <1>1, <1>2 DEF SeatsInv, InvitationsLive, InvitesLive, InFlight
<1>6. AcceptsLive'
  BY <1>1, <1>2 DEF SeatsInv, AcceptsLive, Accepting, InFlight
<1>7. OneAtATime'
  BY <1>1, <1>4 DEF SeatsInv, OneAtATime
<1>8. SeatsReserved' /\ TeamBounded' /\ AcceptsFit'
  BY <1>1, <1>3, <1>4 DEF SeatsInv, SeatsReserved, TeamBounded, AcceptsFit
<1>9. InvitesFit'
  BY <1>1, <1>3, <1>4 DEF SeatsInv, InvitesFit, Taken
<1> QED BY <1>5, <1>6, <1>7, <1>8, <1>9 DEF SeatsInv

LEMMA InviteInsertKeepsSeats ==
    ASSUME TypeOK, TeamInv, SeatsInv, NEW r \in Request, NEW i \in Invitation,
           InviteInsert(r, i), NEW c \in Company, c = request[r].company
    PROVE  SeatsInv'
<1> USE NoneAssumption DEF InviteInsert, Done, history
<1>1. /\ request[r].user \in User /\ r \in Invites(c)
      /\ UNCHANGED <<team, founder, closed, overInvited, overAccepted>>
  BY RequestFields DEF Invites, InFlight, Idle
<1>2. founder[c] = request[r].user
  BY <1>1 DEF SeatsInv, InvitesLive, Invites, TeamInv, ClosedGone
<1>3. /\ invitation'[i] # None
      /\ invitation'[i].company = c /\ invitation'[i].by = request[r].user
      /\ invitation'[i].status = "pending"
      /\ \A j \in Invitation \ {i} : invitation'[j] = invitation[j]
  <2>1. [company |-> c, to |-> request[r].to, by |-> request[r].user, status |-> "pending"]
            \in InvitationRow
    BY RequestFields DEF InvitationRow
  <2> QED BY <2>1 DEF TypeOK
<1>4. /\ \A d \in Company : Members(d)' = Members(d)
      /\ i \notin Reserved(c) /\ Reserved(c)' = Reserved(c) \union {i}
      /\ \A d \in Company \ {c} : Reserved(d)' = Reserved(d)
  BY <1>1, <1>3 DEF Members, Reserved
<1>5. \A q \in Request : request'[q].op \in {"invite", "accept"} =>
                            request'[q] = request[q] /\ q # r
  BY DEF TypeOK, Idle
<1>6. /\ r \notin Invites(c)'
      /\ \A d \in Company : Invites(d)' \subseteq Invites(d) /\ Accepts(d)' \subseteq Accepts(d)
  BY <1>5 DEF Invites, Accepts, InFlight
<1>7. InvitationsLive' /\ InvitesLive'
  BY <1>1, <1>2, <1>3, <1>5 DEF SeatsInv, InvitationsLive, InvitesLive, InFlight
<1>8. AcceptsLive'
  <2> SUFFICES ASSUME NEW q \in InFlight({"accept"})', request[q].company \notin closed
               PROVE  Accepting(request[q].invitation, request[q].company)'
    BY <1>1, <1>5 DEF AcceptsLive, InFlight
  <2>1. /\ request'[q] = request[q] /\ request[q].invitation \in Invitation
        /\ Accepting(request[q].invitation, request[q].company)
    BY <1>5, RequestFields DEF SeatsInv, AcceptsLive, InFlight
  <2> QED BY <1>1, <1>3, <2>1 DEF Accepting
<1>9. OneAtATime'
  BY <1>1, <1>6 DEF SeatsInv, OneAtATime
<1>10. c \notin overInvited => Invites(c)' = {}
  BY <1>1, <1>6 DEF SeatsInv, OneAtATime
<1>11. Cardinality(Reserved(c)') = Cardinality(Reserved(c)) + 1
  BY <1>1, <1>4, Counts, FS_AddElement
<1>12. SeatsReserved' /\ InvitesFit'
  <2> SUFFICES ASSUME NEW d \in Company \ (overInvited \union overAccepted)
               PROVE  Taken(d)' <= Seats /\ (Invites(d)' # {} => Taken(d)' < Seats)
    BY <1>1 DEF SeatsReserved, InvitesFit, Taken
  <2>1. CASE d = c
    <3>1. Taken(c) < Seats
      BY <1>1, <2>1 DEF SeatsInv, InvitesFit
    <3>2. Taken(c) \in Nat /\ Taken(c)' = Taken(c) + 1
      BY <1>4, <1>11, Counts DEF Taken
    <3>3. Invites(c)' = {}
      BY <1>10, <2>1
    <3> QED BY <2>1, <3>1, <3>2, <3>3, SeatsAssumption
  <2>2. CASE d # c
    BY <1>4, <1>6, <2>2 DEF SeatsInv, SeatsReserved, InvitesFit, Taken
  <2> QED BY <2>1, <2>2
<1>13. TeamBounded' /\ AcceptsFit'
  BY <1>1, <1>4, <1>6 DEF SeatsInv, TeamBounded, AcceptsFit
<1> QED BY <1>7, <1>8, <1>9, <1>12, <1>13 DEF SeatsInv

LEMMA AcceptCheckKeepsSeats ==
    ASSUME TypeOK, TeamInv, SeatsInv, NEW r \in Request, NEW i \in Invitation,
           AcceptCheck(r, i)
    PROVE  SeatsInv'
<1> DEFINE c == invitation[i].company
<1> USE DEF AcceptCheck, Decide, rows
<1>1. /\ c \in Company /\ Cardinality(Members(c)) < Seats
      /\ invitation[i] # None /\ invitation[i].status = "pending"
      /\ UNCHANGED <<team, founder, invitation, closed, overInvited>>
      /\ overAccepted' = IF Accepts(c) # {} THEN overAccepted \union {c} ELSE overAccepted
  BY InvitationFields DEF Accepts
<1>2. /\ request'[r].op = "accept" /\ request'[r].invitation = i /\ request'[r].company = c
      /\ \A q \in Request \ {r} : request'[q] = request[q]
  BY DEF TypeOK
<1>3. \A d \in Company : Members(d)' = Members(d) /\ Reserved(d)' = Reserved(d)
  BY <1>1 DEF Members, Reserved
<1>4. /\ Accepts(c)' = Accepts(c) \union {r}
      /\ \A d \in Company \ {c} : Accepts(d)' = Accepts(d)
      /\ \A d \in Company : Invites(d)' = Invites(d)
  BY <1>1, <1>2 DEF Invites, Accepts, InFlight, Idle
<1>5. InvitationsLive' /\ InvitesLive'
  BY <1>1, <1>2 DEF SeatsInv, InvitationsLive, InvitesLive, InFlight
<1>6. AcceptsLive'
  BY <1>1, <1>2 DEF SeatsInv, AcceptsLive, Accepting, InFlight
<1>7. OneAtATime'
  BY <1>1, <1>4 DEF SeatsInv, OneAtATime
<1>8. SeatsReserved' /\ TeamBounded' /\ InvitesFit'
  BY <1>1, <1>3, <1>4 DEF SeatsInv, SeatsReserved, TeamBounded, InvitesFit, Taken
<1>9. AcceptsFit'
  BY <1>1, <1>3, <1>4 DEF SeatsInv, AcceptsFit
<1> QED BY <1>5, <1>6, <1>7, <1>8, <1>9 DEF SeatsInv

\* The seat of u that invitation i held becomes u's, unless i expired meanwhile
\* or somebody else accepted it.
LEMMA AcceptInsertKeepsSeats ==
    ASSUME TypeOK, TeamInv, SeatsInv, NEW r \in Request, AcceptInsert(r),
           NEW u \in User, NEW i \in Invitation, NEW c \in Company,
           u = request[r].user, i = request[r].invitation, c = request[r].company
    PROVE  SeatsInv'
<1> USE NoneAssumption DEF AcceptInsert, Done
<1>1. /\ r \in Accepts(c) /\ founder[c] # None /\ c \notin closed
      /\ UNCHANGED <<founder, closed, overInvited, overAccepted>>
  BY DEF Accepts, InFlight, TeamInv, ClosedGone
<1>2. Accepting(i, c)
  BY <1>1 DEF SeatsInv, AcceptsLive, Accepts
<1>3. /\ invitation'[i] = [invitation[i] EXCEPT !.status = "accepted"]
      /\ invitation'[i] # None
      /\ invitation'[i].company = c /\ invitation'[i].by = invitation[i].by
      /\ invitation'[i].status = "accepted"
      /\ \A j \in Invitation \ {i} : invitation'[j] = invitation[j]
  <2>1. [invitation[i] EXCEPT !.status = "accepted"] \in InvitationRow
    BY <1>2, InvitationFields DEF Accepting, InvitationRow
  <2>2. invitation' = [invitation EXCEPT ![i] = [invitation[i] EXCEPT !.status = "accepted"]]
    BY <1>2 DEF Accepting
  <2>3. invitation'[i] = [invitation[i] EXCEPT !.status = "accepted"]
    BY <2>2 DEF TypeOK
  <2>4. /\ invitation[i] \in InvitationRow /\ invitation[i].company = c
    BY <1>2, InvitationFields DEF Accepting
  <2> QED BY <2>1, <2>2, <2>3, <2>4 DEF InvitationRow, TypeOK
<1>4. /\ u \notin Members(c) /\ Members(c)' = Members(c) \union {u}
      /\ \A d \in Company \ {c} : Members(d)' = Members(d)
  BY SeatFields DEF Join, Members, TypeOK, Seat
<1>5. /\ Reserved(c)' = Reserved(c) \ {i}
      /\ \A d \in Company \ {c} : Reserved(d)' = Reserved(d)
  BY <1>2, <1>3 DEF Reserved, Accepting
<1>6. \A q \in Request : request'[q].op \in {"invite", "accept"} =>
                            request'[q] = request[q] /\ q # r
  BY DEF TypeOK, Idle
<1>7. /\ r \notin Accepts(c)'
      /\ \A d \in Company : Invites(d)' \subseteq Invites(d) /\ Accepts(d)' \subseteq Accepts(d)
  BY <1>6 DEF Invites, Accepts, InFlight
<1>8. InvitationsLive' /\ InvitesLive'
  BY <1>1, <1>2, <1>3, <1>6 DEF SeatsInv, InvitationsLive, InvitesLive, InFlight, Accepting
<1>9. c \notin overAccepted => Accepts(c)' = {}
  BY <1>1, <1>7 DEF SeatsInv, OneAtATime
<1>10. AcceptsLive'
  <2> SUFFICES ASSUME NEW q \in InFlight({"accept"})', request[q].company \notin closed
               PROVE  Accepting(request[q].invitation, request[q].company)'
    BY <1>1, <1>6 DEF AcceptsLive, InFlight
  <2>1. /\ request'[q] = request[q] /\ request[q].invitation \in Invitation
        /\ Accepting(request[q].invitation, request[q].company)
        /\ request[q].company = c => q \in Accepts(c)'
    BY <1>6, RequestFields DEF SeatsInv, AcceptsLive, InFlight, Accepts
  <2>2. CASE request[q].invitation = i
    <3>1. request[q].company = c /\ c \in overAccepted
      BY <1>2, <1>9, <2>1, <2>2 DEF Accepting
    <3> QED BY <1>1, <1>3, <2>1, <2>2, <3>1 DEF Accepting
  <2>3. CASE request[q].invitation # i
    BY <1>1, <1>3, <2>1, <2>3 DEF Accepting
  <2> QED BY <2>2, <2>3
<1>11. OneAtATime'
  BY <1>1, <1>7 DEF SeatsInv, OneAtATime
<1>12. Cardinality(Members(c)') = Cardinality(Members(c)) + 1
  BY <1>4, Counts, FS_AddElement
<1>13. ASSUME c \notin overInvited \union overAccepted
       PROVE  Taken(c)' = Taken(c)
  <2>1. i \in Reserved(c)
    BY <1>2, <1>13 DEF Accepting, Reserved
  <2>2. Cardinality(Reserved(c)') = Cardinality(Reserved(c)) - 1
    <3>1. IsFiniteSet(Reserved(c))
      BY Counts
    <3>2. Cardinality(Reserved(c) \ {i}) = Cardinality(Reserved(c)) - 1
      BY <2>1, <3>1, FS_RemoveElement
    <3>3. Reserved(c)' = Reserved(c) \ {i}
      BY <1>5
    <3> QED BY <3>2, <3>3
  <2> QED BY <1>12, <2>2, Counts DEF Taken
<1>14. SeatsReserved' /\ InvitesFit'
  <2> SUFFICES ASSUME NEW d \in Company \ (overInvited \union overAccepted)
               PROVE  Taken(d)' <= Seats /\ (Invites(d)' # {} => Taken(d)' < Seats)
    BY <1>1 DEF SeatsReserved, InvitesFit, Taken
  <2>1. Taken(d)' = Taken(d)
    <3>1. CASE d = c
      BY <1>13, <3>1
    <3>2. CASE d # c
      BY <1>4, <1>5, <3>2 DEF Taken
    <3> QED BY <3>1, <3>2
  <2>2. Taken(d) <= Seats
    BY DEF SeatsInv, SeatsReserved, Taken
  <2> QED BY <1>7, <2>1, <2>2 DEF SeatsInv, InvitesFit
<1>15. TeamBounded' /\ AcceptsFit'
  <2> SUFFICES ASSUME NEW d \in Company \ overAccepted
               PROVE  /\ Cardinality(Members(d)') <= Seats
                      /\ Accepts(d)' # {} => Cardinality(Members(d)') < Seats
    BY <1>1 DEF TeamBounded, AcceptsFit
  <2>1. CASE d = c
    <3>1. Cardinality(Members(c)) < Seats /\ Accepts(c)' = {}
      BY <1>1, <1>9, <2>1 DEF SeatsInv, AcceptsFit
    <3> QED BY <1>12, <2>1, <3>1, Counts, SeatsAssumption
  <2>2. CASE d # c
    BY <1>4, <1>7, <2>2 DEF SeatsInv, TeamBounded, AcceptsFit
  <2> QED BY <2>1, <2>2
<1> QED BY <1>8, <1>10, <1>11, <1>14, <1>15 DEF SeatsInv

LEMMA ExpireKeepsSeats ==
    ASSUME TypeOK, SeatsInv, NEW i \in Invitation, Expire(i)
    PROVE  SeatsInv'
<1> USE NoneAssumption DEF Expire, login
<1>1. /\ invitation'[i] = [invitation[i] EXCEPT !.status = "expired"]
      /\ invitation'[i] # None
      /\ invitation'[i].company = invitation[i].company
      /\ invitation'[i].by = invitation[i].by /\ invitation'[i].status = "expired"
      /\ \A j \in Invitation \ {i} : invitation'[j] = invitation[j]
  <2>1. [invitation[i] EXCEPT !.status = "expired"] \in InvitationRow
    BY InvitationFields DEF InvitationRow
  <2> QED BY <2>1, InvitationFields DEF InvitationRow, TypeOK
<1>2. /\ UNCHANGED <<team, founder, closed, request, overAccepted>>
      /\ overInvited \subseteq overInvited'
  OBVIOUS
<1>3. InvitationsLive' /\ InvitesLive'
  BY <1>1, <1>2 DEF SeatsInv, InvitationsLive, InvitesLive, InFlight
<1>4. AcceptsLive'
  <2> SUFFICES ASSUME NEW q \in InFlight({"accept"}), request[q].company \notin closed
               PROVE  Accepting(request[q].invitation, request[q].company)'
    BY <1>2 DEF AcceptsLive, InFlight
  <2>1. /\ request'[q] = request[q] /\ request[q].invitation \in Invitation
        /\ Accepting(request[q].invitation, request[q].company)
    BY <1>2, RequestFields DEF SeatsInv, AcceptsLive, InFlight
  <2>2. CASE request[q].invitation = i
    <3>1. request[q].company \in overInvited'
      BY <2>1, <2>2 DEF Accepting
    <3> QED BY <1>1, <2>1, <2>2, <3>1 DEF Accepting
  <2>3. CASE request[q].invitation # i
    BY <1>1, <1>2, <2>1, <2>3 DEF Accepting
  <2> QED BY <2>2, <2>3
<1>5. \A c \in Company : Members(c)' \subseteq Members(c) /\ Reserved(c)' \subseteq Reserved(c)
  BY <1>1, <1>2 DEF Members, Reserved
<1> QED BY <1>2, <1>3, <1>4, <1>5, SeatsFreed

LEMMA DepartureKeepsSeats ==
    ASSUME TypeOK, SeatsInv, NEW r \in Request, DeactivateUserAccount(r) \/ DeleteMember(r)
    PROVE  SeatsInv'
<1> USE NoneAssumption
<1>1. PICK c \in Company \union {None} : c = request[r].owned
  BY Departure
<1>2. /\ \A v \in User : team'[v] \in {None, team[v]}
      /\ \A d \in Company \ {c} : founder'[d] = founder[d]
      /\ closed \subseteq closed' /\ (c # None => c \in closed')
      /\ UNCHANGED <<overInvited, overAccepted>>
      /\ request' = [request EXCEPT ![r] = Idle]
  <2>1. DissolveCompany(c)
    BY <1>1, Departure
  <2>2. UNCHANGED <<overInvited, overAccepted>>
    BY DEF DeactivateUserAccount, DeleteMember, history
  <2> QED BY <2>1, <2>2, Departure DEF DissolveCompany, TypeOK
<1>3. \A i \in Invitation :
          IF invitation[i] = None \/ invitation[i].company = c THEN invitation'[i] = None
          ELSE invitation'[i] = invitation[i]
  <2>1. CASE DeactivateUserAccount(r)
    BY <1>1, <2>1 DEF DeactivateUserAccount
  <2>2. CASE DeleteMember(r)
    <3>1. \A i \in Invitation : invitation[i] # None /\ invitation[i].company # c
              => invitation[i].by # request[r].user
      BY <1>1, <2>2, InvitationFields DEF DeleteMember, SeatsInv, InvitationsLive
    <3>2. \A i \in Invitation : invitation'[i] =
              IF invitation[i] # None /\ (\/ invitation[i].company = c
                                         \/ invitation[i].by = request[r].user)
              THEN None ELSE invitation[i]
      BY <1>1, <2>2 DEF DeleteMember
    <3> QED BY <3>1, <3>2
  <2> QED BY <2>1, <2>2
<1>4. \A q \in Request : request'[q].op \in {"invite", "accept"} => request'[q] = request[q]
  BY <1>2 DEF TypeOK, Idle
<1>5. InvitationsLive'
  BY <1>2, <1>3, InvitationFields DEF SeatsInv, InvitationsLive
<1>6. InvitesLive'
  BY <1>2, <1>4, RequestFields DEF SeatsInv, InvitesLive, InFlight, Idle
<1>7. AcceptsLive'
  <2> SUFFICES ASSUME NEW q \in InFlight({"accept"})', request'[q].company \notin closed'
               PROVE  Accepting(request[q].invitation, request[q].company)'
    BY DEF AcceptsLive
  <2>1. /\ request'[q] = request[q] /\ request[q].invitation \in Invitation
        /\ request[q].company \in Company
        /\ Accepting(request[q].invitation, request[q].company)
    BY <1>2, <1>4, RequestFields DEF SeatsInv, AcceptsLive, InFlight
  <2> QED BY <1>2, <1>3, <2>1 DEF Accepting
<1>8. \A d \in Company : Members(d)' \subseteq Members(d) /\ Reserved(d)' \subseteq Reserved(d)
  BY <1>2, <1>3 DEF Members, Reserved
<1> QED BY <1>2, <1>4, <1>5, <1>6, <1>7, <1>8, SeatsFreed

LEMMA NextSeats == TypeOK /\ TeamInv /\ SeatsInv /\ [Next]_vars => SeatsInv'
<1> SUFFICES ASSUME TypeOK, TeamInv, SeatsInv, [Next]_vars PROVE SeatsInv'
  OBVIOUS
<1> USE DEF rows, login, history, Decide, Done, Idle
<1>1. ASSUME NEW u \in User, HandleSignup(u) PROVE SeatsInv'
  BY <1>1, LoginKeepsSeats DEF HandleSignup
<1>2. ASSUME NEW u \in User, NEW p \in Provider, ResolveOAuthUser(u, p) PROVE SeatsInv'
  BY <1>2, LoginKeepsSeats DEF ResolveOAuthUser
<1>3. ASSUME NEW r \in Request, NEW u \in User, NEW p \in Provider, DisconnectCheck(r, u, p)
      PROVE  SeatsInv'
  BY <1>3, LoginKeepsSeats DEF DisconnectCheck, TypeOK
<1>4. ASSUME NEW r \in Request, DisconnectDelete(r) \/ Fail(r) PROVE SeatsInv'
  BY <1>4, LoginKeepsSeats DEF DisconnectDelete, Fail, TypeOK
<1>5. ASSUME NEW r \in Request, AcceptInsert(r) PROVE SeatsInv'
  BY <1>5, RequestFields, AcceptInsertKeepsSeats DEF AcceptInsert
<1>6. ASSUME NEW r \in Request, DeactivateUserAccount(r) \/ DeleteMember(r) PROVE SeatsInv'
  BY <1>6, DepartureKeepsSeats
<1>7. ASSUME NEW r \in Request, NEW u \in User, ProfileCheck(r, u) PROVE SeatsInv'
  BY <1>7, LoginKeepsSeats DEF ProfileCheck, TypeOK
<1>8. ASSUME NEW r \in Request, NEW c \in Company, ProfileInsert(r, c) PROVE SeatsInv'
  BY <1>8, ProfileInsertKeepsSeats
<1>9. ASSUME NEW r \in Request, NEW u \in User, NEW to \in User, InviteCheck(r, u, to)
      PROVE  SeatsInv'
  BY <1>9, InviteCheckKeepsSeats
<1>10. ASSUME NEW r \in Request, NEW i \in Invitation, InviteInsert(r, i) PROVE SeatsInv'
  BY <1>10, RequestFields, InviteInsertKeepsSeats DEF InviteInsert
<1>11. ASSUME NEW r \in Request, NEW i \in Invitation, AcceptCheck(r, i) PROVE SeatsInv'
  BY <1>11, AcceptCheckKeepsSeats
<1>12. ASSUME NEW i \in Invitation, Expire(i) PROVE SeatsInv'
  BY <1>12, ExpireKeepsSeats
<1>13. ASSUME NEW u \in User, NEW m \in User, HandleRemoveCompanyMember(u, m) PROVE SeatsInv'
  <2>1. /\ UNCHANGED <<founder, closed, invitation, request, overInvited, overAccepted>>
        /\ \A v \in User : team'[v] \in {None, team[v]}
    BY <1>13 DEF HandleRemoveCompanyMember, TypeOK
  <2>2. \A d \in Company : Members(d)' \subseteq Members(d) /\ Reserved(d)' = Reserved(d)
    BY <2>1 DEF Members, Reserved
  <2> QED BY <2>1, <2>2, LiveKept, SeatsFreed
<1>14. ASSUME NEW r \in Request, NEW u \in User, NEW op \in {"deactivate", "delete"},
              DepartCheck(r, u, op)
       PROVE  SeatsInv'
  BY <1>14, LoginKeepsSeats DEF DepartCheck, TypeOK
<1>15. UNCHANGED vars => SeatsInv'
  BY LoginKeepsSeats DEF vars
<1> QED BY Steps, <1>1, <1>2, <1>3, <1>4, <1>5, <1>6, <1>7, <1>8, <1>9, <1>10, <1>11,
           <1>12, <1>13, <1>14, <1>15

LEMMA InitSeats == Init => SeatsInv
<1> SUFFICES ASSUME Init PROVE SeatsInv
  OBVIOUS
<1> USE DEF Init
<1>1. \A c \in Company : /\ Members(c) = {} /\ Reserved(c) = {}
                        /\ Invites(c) = {} /\ Accepts(c) = {}
  BY DEF Members, Reserved, Invites, Accepts, InFlight, Idle
<1>2. \A c \in Company : Cardinality(Members(c)) = 0 /\ Cardinality(Reserved(c)) = 0
  BY <1>1, FS_EmptySet
<1>3. InvitationsLive /\ InvitesLive /\ AcceptsLive /\ OneAtATime
  BY <1>1 DEF InvitationsLive, InvitesLive, AcceptsLive, OneAtATime, InFlight, Idle
<1>4. SeatsReserved /\ TeamBounded /\ InvitesFit /\ AcceptsFit
  BY <1>1, <1>2, SeatsAssumption DEF SeatsReserved, TeamBounded, InvitesFit, AcceptsFit
<1> QED BY <1>3, <1>4 DEF SeatsInv

\* Members and outstanding invitations fit into the plan's seats, unless two
\* requests that count them overlapped or an acceptance outlived its invitation.
THEOREM SeatsSuffice == Spec => []SeatsKept
<1>1. TypeOK /\ SeatsInv => SeatsKept
  BY DEF SeatsInv, SeatsKept
<1> QED BY <1>1, InitType, InitTeam, InitSeats, NextType, NextTeam, NextSeats, PTL DEF Spec

=============================================================================
