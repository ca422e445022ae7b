------------------------------ MODULE Accounts -----------------------------
(***************************************************************************)
(* Accounts, sessions, membership of one workspace and client access to    *)
(* one of its websites (internal/portal/store.go, members.go,              *)
(* invitations.go, project_clients.go, client_invitations.go).             *)
(*                                                                         *)
(* A user is its e-mail address. A link is a bearer token that is mailed:  *)
(* a row of account_tokens, invitations or client_invitations, numbered in *)
(* the order of issue. Each action is one SQLite transaction; Login and    *)
(* ResetPassword, which hash a password between a read and a transaction,  *)
(* take two. Time passes by tokens and sessions running out.               *)
(***************************************************************************)
EXTENDS Naturals, FiniteSets

CONSTANTS
  Users,
  Founder,      \* the user whose registration created the workspace
  Established,  \* users registered and verified before the run
  Browsers,
  NoUser,
  Purposes,     \* kinds of link issued in the run
  Roles,        \* roles given out in the run
  MaxLinks,     \* bound on the links issued in the run
  MaxClients,   \* 20 in the code
  MaxPending    \* 20 in the code

Links == 1 .. MaxLinks

ASSUME AccountsAssumption ==
  /\ Founder \in Users /\ Established \subseteq Users /\ NoUser \notin Users
  /\ Purposes \subseteq {"verify", "reset", "invite", "client-invite"}
  /\ "owner" \in Roles /\ Roles \subseteq {"owner", "developer", "viewer"}
  /\ MaxLinks \in Nat /\ MaxClients \in Nat /\ MaxPending \in Nat

VARIABLES
  account,   \* users: missing, not verified, verified
  disabled,  \* users an operator has disabled
  hash,      \* users.password_hash, by the number of times it was replaced
  role,      \* memberships of the workspace
  clients,   \* project_clients
  deleting,  \* the website's deletion was requested
  link,      \* account_tokens, invitations, client_invitations
  uses,      \* how often each link took effect
  session,   \* the session each browser holds
  call       \* Login or ResetPassword calls that are hashing a password

accountVars == <<account, disabled, hash>>
accessVars == <<role, clients, deleting>>
linkVars == <<link, uses>>
browserVars == <<session, call>>
vars == <<accountVars, accessVars, linkVars, browserVars>>

Link == [purpose : {"none"} \cup Purposes,
         to      : Users \cup {NoUser},
         by      : Users \cup {NoUser},
         role    : Roles \cup {"none"},
         state   : {"unissued", "pending", "dead"}]

Unissued == [purpose |-> "none", to |-> NoUser, by |-> NoUser, role |-> "none", state |-> "unissued"]

\* Deleted, revoked, accepted or expired: no query finds the row any more.
Dead == [Unissued EXCEPT !.state = "dead"]

Session == [user : Users \cup {NoUser}, hash : Nat]

SignedOut == [user |-> NoUser, hash |-> 0]

Call == [op : {"none", "login", "reset"}, user : Users \cup {NoUser}, hash : Nat,
         link : 0 .. MaxLinks]

NoCall == [op |-> "none", user |-> NoUser, hash |-> 0, link |-> 0]

TypeOK ==
  /\ account \in [Users -> {"none", "unverified", "verified"}]
  /\ disabled \subseteq Users
  /\ hash \in [Users -> Nat]
  /\ role \in [Users -> Roles \cup {"none"}]
  /\ clients \subseteq Users
  /\ deleting \in BOOLEAN
  /\ link \in [Links -> Link]
  /\ uses \in [Links -> Nat]
  /\ session \in [Browsers -> Session]
  /\ call \in [Browsers -> Call]

Init ==
  /\ account = [u \in Users |-> IF u \in Established THEN "verified" ELSE "none"]
  /\ disabled = {}
  /\ hash = [u \in Users |-> 0]
  /\ role = [u \in Users |-> IF u \in Established \cap {Founder} THEN "owner" ELSE "none"]
  /\ clients = {} /\ deleting = FALSE
  /\ link = [i \in Links |-> Unissued]
  /\ uses = [i \in Links |-> 0]
  /\ session = [b \in Browsers |-> SignedOut]
  /\ call = [b \in Browsers |-> NoCall]

-----------------------------------------------------------------------------
(* Links.                                                                  *)

Pending(i) == link[i].state = "pending"

\* The rows that a new link, or an act of its owner, makes unusable.
Withdrawn(S) == [i \in Links |-> IF i \in S THEN Dead ELSE link[i]]

\* Issue a link to u, withdrawing those of S.
Issue(purpose, u, by, r, S) ==
  /\ purpose \in Purposes
  /\ \E i \in Links :
       /\ link[i].state = "unissued"
       /\ \A j \in 1 .. i - 1 : link[j].state # "unissued"
       /\ link' = [Withdrawn(S) EXCEPT ![i] = [purpose |-> purpose, to |-> u, by |-> by, role |-> r,
                                               state   |-> "pending"]]
  /\ UNCHANGED uses

\* Link i takes effect, and those of S become unusable with it.
Consume(i, S) ==
  /\ link' = Withdrawn(S \cup {i})
  /\ uses' = [uses EXCEPT ![i] = @ + 1]

\* The links of a purpose sent to u.
SentTo(purpose, u) == {i \in Links : link[i].purpose = purpose /\ link[i].to = u}

\* expires_at passes.
LinkExpires(i) ==
  /\ Pending(i)
  /\ link' = Withdrawn({i})
  /\ UNCHANGED <<uses, accountVars, accessVars, browserVars>>

-----------------------------------------------------------------------------
(* Registration and verification.                                          *)

Active(u) == account[u] = "verified" /\ u \notin disabled

\* A registration also makes the user owner of a workspace of its own; the
\* one modelled is the founder's.
Register(u) ==
  /\ account[u] = "none"
  /\ account' = [account EXCEPT ![u] = "unverified"]
  /\ role' = [role EXCEPT ![u] = IF u = Founder THEN "owner" ELSE @]
  /\ Issue("verify", u, NoUser, "none", {})
  /\ UNCHANGED <<disabled, hash, clients, deleting, browserVars>>

\* At most one a minute and five a day, which is left out: a link may be asked
\* for at any time. Links already sent stay usable.
RequestVerification(u) ==
  /\ account[u] = "unverified" /\ u \notin disabled
  /\ Issue("verify", u, NoUser, "none", {})
  /\ UNCHANGED <<accountVars, accessVars, browserVars>>

Verify(i) ==
  /\ Pending(i) /\ link[i].purpose = "verify"
  /\ LET u == link[i].to
     IN /\ account' = [account EXCEPT ![u] = IF u \in disabled THEN @ ELSE "verified"]
        /\ Consume(i, SentTo("verify", u))
  /\ UNCHANGED <<disabled, hash, accessVars, browserVars>>

\* External: an operator sets users.disabled; nothing in the repository clears it.
Disable(u) ==
  /\ account[u] # "none" /\ u \notin disabled
  /\ disabled' = disabled \cup {u}
  /\ UNCHANGED <<account, hash, accessVars, linkVars, browserVars>>

-----------------------------------------------------------------------------
(* Sessions and passwords.                                                 *)

\* Login reads the account, compares the password with the hash it read ...
LoginRead(b, u) ==
  /\ call[b] = NoCall /\ session[b] = SignedOut
  /\ Active(u)
  /\ call' = [call EXCEPT ![b] = [op |-> "login", user |-> u, hash |-> hash[u], link |-> 0]]
  /\ UNCHANGED <<session, accountVars, accessVars, linkVars>>

\* A mutant: the login's transaction looks at the account and not at its password.
StillEnabled(c) == Active(c.user)

StillValid(c) == Active(c.user) /\ hash[c.user] = c.hash

\* ... and reads it again in the transaction that inserts the session.
LoginCommit(b) ==
  /\ call[b].op = "login"
  /\ session' = [session EXCEPT ![b] = IF StillValid(call[b])
                                       THEN [user |-> call[b].user, hash |-> call[b].hash] ELSE @]
  /\ call' = [call EXCEPT ![b] = NoCall]
  /\ UNCHANGED <<accountVars, accessVars, linkVars>>

\* Logout, or the session's expiry.
Logout(b) ==
  /\ session[b] # SignedOut
  /\ session' = [session EXCEPT ![b] = SignedOut]
  /\ UNCHANGED <<call, accountVars, accessVars, linkVars>>

\* DELETE FROM sessions WHERE user_id=u
WithoutSessions(u) == [b \in Browsers |-> IF session[b].user = u THEN SignedOut ELSE session[b]]

RequestReset(u) ==
  /\ Active(u)
  /\ Issue("reset", u, NoUser, "none", SentTo("reset", u))
  /\ UNCHANGED <<accountVars, accessVars, browserVars>>

ResetRead(b, i) ==
  /\ call[b] = NoCall
  /\ Pending(i) /\ link[i].purpose = "reset"
  /\ call' = [call EXCEPT ![b] = [op |-> "reset", user |-> link[i].to, hash |-> 0, link |-> i]]
  /\ UNCHANGED <<session, accountVars, accessVars, linkVars>>

\* The transaction deletes the token and fails unless it was there.
ResetCommit(b) ==
  /\ call[b].op = "reset"
  /\ call' = [call EXCEPT ![b] = NoCall]
  /\ \/ /\ Pending(call[b].link)
        /\ Consume(call[b].link, {})
        /\ hash' = [hash EXCEPT ![call[b].user] = @ + 1]
        /\ session' = WithoutSessions(call[b].user)
     \/ /\ ~ Pending(call[b].link)
        /\ UNCHANGED <<linkVars, hash, session>>
  /\ UNCHANGED <<account, disabled, accessVars>>

-----------------------------------------------------------------------------
(* Membership of the workspace.                                            *)

SignedIn(b, u) == session[b].user = u /\ u # NoUser /\ Active(u)

\* authorizeOwner
OwnerAt(b) == \E u \in Users : SignedIn(b, u) /\ role[u] = "owner"

ActiveOwners == {u \in Users : role[u] = "owner" /\ Active(u)}

\* The workspace invitations that t has issued.
IssuedBy(t) == {i \in Links : link[i].purpose = "invite" /\ link[i].by = t}

\* A mutant: the owner who is demoted is counted among those that remain.
ChangeMemberCountingSelf(b, t, r) ==
  /\ OwnerAt(b)
  /\ role[t] # "none" /\ role[t] # r
  /\ role[t] = "owner" => ActiveOwners # {}
  /\ role' = [role EXCEPT ![t] = r]
  /\ link' = IF role[t] = "owner" THEN Withdrawn(IssuedBy(t)) ELSE link
  /\ session' = WithoutSessions(t)
  /\ UNCHANGED <<call, uses, accountVars, clients, deleting>>

\* A mutant: the invitations of a former owner stay.
ChangeMemberKeepingInvitations(b, t, r) ==
  /\ OwnerAt(b)
  /\ role[t] # "none" /\ role[t] # r
  /\ role[t] = "owner" => ActiveOwners \ {t} # {}
  /\ role' = [role EXCEPT ![t] = r]
  /\ session' = WithoutSessions(t)
  /\ UNCHANGED <<call, linkVars, accountVars, clients, deleting>>

\* Empty role removes the member.
ChangeMember(b, t, r) ==
  /\ OwnerAt(b)
  /\ role[t] # "none" /\ role[t] # r
  /\ role[t] = "owner" => ActiveOwners \ {t} # {}
  /\ role' = [role EXCEPT ![t] = r]
  /\ link' = IF role[t] = "owner" THEN Withdrawn(IssuedBy(t)) ELSE link
  /\ session' = WithoutSessions(t)
  /\ UNCHANGED <<call, uses, accountVars, clients, deleting>>

Invite(b, u, r) ==
  /\ OwnerAt(b)
  /\ role[u] = "none"
  /\ Issue("invite", u, session[b].user, r, SentTo("invite", u))
  /\ UNCHANGED <<accountVars, accessVars, browserVars>>

RevokeInvitation(b, i) ==
  /\ OwnerAt(b)
  /\ Pending(i) /\ link[i].purpose = "invite"
  /\ link' = Withdrawn({i})
  /\ UNCHANGED <<uses, accountVars, accessVars, browserVars>>

\* The inviter is still an enabled owner.
Authorized(i) == link[i].by \in ActiveOwners

Acceptable(i) == Pending(i) /\ link[i].purpose = "invite" /\ Authorized(i)

AcceptInvitation(b, i) ==
  /\ Acceptable(i)
  /\ SignedIn(b, link[i].to)
  /\ role[link[i].to] = "none"
  /\ role' = [role EXCEPT ![link[i].to] = link[i].role]
  /\ Consume(i, {})
  /\ UNCHANGED <<clients, deleting, accountVars, browserVars>>

-----------------------------------------------------------------------------
(* Client access to the website.                                           *)

\* projectClientOwner
ClientOwnerAt(b) == ~ deleting /\ OwnerAt(b)

\* Whether an address without an account may register is the operator's list,
\* left open here; so are the limits per minute and per day.
InviteClient(b, u) ==
  /\ ClientOwnerAt(b)
  /\ role[u] = "none" /\ u \notin clients
  /\ Cardinality(clients) < MaxClients
  /\ Cardinality({i \in Links : Pending(i) /\ link[i].purpose = "client-invite" /\ link[i].to # u})
       < MaxPending
  /\ Issue("client-invite", u, session[b].user, "none", SentTo("client-invite", u))
  /\ UNCHANGED <<accountVars, accessVars, browserVars>>

RevokeClientInvitation(b, i) ==
  /\ ClientOwnerAt(b)
  /\ Pending(i) /\ link[i].purpose = "client-invite"
  /\ link' = Withdrawn({i})
  /\ UNCHANGED <<uses, accountVars, accessVars, browserVars>>

\* liveClientInvitation
LiveClientInvitation(i) ==
  /\ Pending(i) /\ link[i].purpose = "client-invite"
  /\ ~ deleting /\ Authorized(i)

AcceptClientInvitation(b, i) ==
  /\ LiveClientInvitation(i)
  /\ SignedIn(b, link[i].to)
  /\ role[link[i].to] = "none"
  /\ Cardinality(clients) < MaxClients
  /\ clients' = clients \cup {link[i].to}
  /\ Consume(i, {})
  /\ UNCHANGED <<role, deleting, accountVars, browserVars>>

\* A grant to an existing client withdraws its links and changes nothing else.
GrantClient(b, u) ==
  /\ ClientOwnerAt(b)
  /\ Active(u) /\ role[u] = "none"
  /\ u \in clients \/ Cardinality(clients) < MaxClients
  /\ clients' = clients \cup {u}
  /\ link' = Withdrawn(SentTo("client-invite", u))
  /\ UNCHANGED <<role, deleting, uses, accountVars, browserVars>>

RemoveClient(b, u) ==
  /\ ClientOwnerAt(b)
  /\ account[u] # "none"
  /\ clients' = clients \ {u}
  /\ link' = Withdrawn(SentTo("client-invite", u))
  /\ UNCHANGED <<role, deleting, uses, accountVars, browserVars>>

\* Jobs of the website that hold its deletion up are modelled with the jobs.
DeleteProject(b) ==
  /\ OwnerAt(b)
  /\ ~ deleting
  /\ deleting' = TRUE
  /\ UNCHANGED <<role, clients, accountVars, linkVars, browserVars>>

-----------------------------------------------------------------------------

UserNext ==
  \E u \in Users : Register(u) \/ RequestVerification(u) \/ RequestReset(u) \/ Disable(u)

LinkNext == \E i \in Links : LinkExpires(i) \/ Verify(i)

BrowserNext ==
  \E b \in Browsers :
    \/ LoginCommit(b) \/ Logout(b) \/ ResetCommit(b) \/ DeleteProject(b)
    \/ \E u \in Users :
         \/ LoginRead(b, u) \/ InviteClient(b, u) \/ GrantClient(b, u) \/ RemoveClient(b, u)
         \/ \E r \in Roles : Invite(b, u, r)
         \/ \E r \in Roles \cup {"none"} : ChangeMember(b, u, r)
    \/ \E i \in Links :
         \/ ResetRead(b, i)
         \/ RevokeInvitation(b, i) \/ AcceptInvitation(b, i)
         \/ RevokeClientInvitation(b, i) \/ AcceptClientInvitation(b, i)

Next == UserNext \/ LinkNext \/ BrowserNext

Spec == Init /\ [][Next]_vars

-----------------------------------------------------------------------------
(* Properties.                                                             *)

\* Every session was opened with the password the account has now: a login
\* that was hashing the old one while a reset went through opens none, and
\* the reset closes those that were open (Login, ResetPassword).
SessionsAreCurrent ==
  \A b \in Browsers : session[b] # SignedOut => session[b].hash = hash[session[b].user]

\* A link takes effect at most once, however many browsers present it at the
\* same time (ResetPassword, Verify, AcceptInvitation, AcceptClientInvitation).
LinksWorkOnce == \A i \in Links : uses[i] <= 1

\* What lets a user in is current: neither a session nor a link survives what
\* should have ended it, although checking and acting are two transactions.
CredentialsAreCurrent == SessionsAreCurrent /\ LinksWorkOnce

\* A workspace invitation that can still be accepted was issued by somebody
\* who has been an owner ever since: losing ownership withdraws it for good,
\* even if ownership is given back later (ChangeMember).
InvitationHasOwner ==
  \A i \in Links : Pending(i) /\ link[i].purpose = "invite" => role[link[i].by] = "owner"

\* No step of the portal takes the last enabled owner from a workspace, in
\* whatever order two owners demote, remove and invite each other (ChangeMember).
ActiveOwnerRemains ==
  [][UNCHANGED disabled /\ ActiveOwners # {} => ActiveOwners' # {}]_vars

\* Nobody holds two usable invitations to the same thing, and nobody who
\* already has the access holds one: an old link cannot overwrite a role, nor
\* bring back a client who was removed (Invite, InviteClient,
\* ChangeProjectClient).
InvitationsAreNeeded ==
  \A i \in Links : Pending(i) =>
    /\ link[i].purpose \in {"invite", "client-invite"} =>
         \A j \in SentTo(link[i].purpose, link[i].to) : Pending(j) => j = i
    /\ link[i].purpose = "invite" => role[link[i].to] = "none"
    /\ link[i].purpose = "client-invite" => link[i].to \notin clients

\* A website never has more clients, nor more invitations under way, than its
\* limits: invitations reserve no place, so the limit has to hold again when
\* they are accepted (InviteClient, AcceptClientInvitation, ChangeProjectClient).
ClientLimits ==
  /\ Cardinality(clients) <= MaxClients
  /\ Cardinality({i \in Links : Pending(i) /\ link[i].purpose = "client-invite"}) <= MaxPending

\* The invitations that can still be accepted are those that should be: issued
\* by an owner who has been one ever since, needed, and within the limits,
\* whatever members and clients do while they are in the mail.
InvitationsAreSound == InvitationHasOwner /\ InvitationsAreNeeded /\ ClientLimits

\* What the comment on liveClientInvitation says, "A queued invitation cannot
\* outlive its owner's authority": a client invitation whose inviter has lost
\* ownership cannot be accepted any more.
ClientInvitationDiesWithAuthority ==
  [][\A i \in Links : Pending(i) /\ link[i].purpose = "client-invite" /\ role[link[i].by] # "owner"
                        => ~ LiveClientInvitation(i)']_vars
=============================================================================
