--------------------------- MODULE AccountProofs ---------------------------
(***************************************************************************)
(* Proofs about Accounts and AccountMail, for every set of users, browsers, *)
(* roles and mail workers, and every number of links and attempts.         *)
(***************************************************************************)
EXTENDS AccountMail, FiniteSetTheorems, TLAPS

-----------------------------------------------------------------------------
(* The inductive invariant.                                                *)

\* A session is of the password the account has now; calls are of users.
SessionInv ==
  /\ \A b \in Browsers : session[b] # SignedOut =>
       session[b].user \in Users /\ session[b].hash = hash[session[b].user]
  /\ \A b \in Browsers : call[b].op # "none" => call[b].user \in Users
  /\ \A b \in Browsers : call[b].op = "reset" => call[b].link \in Links

\* Links are sent to users, and users invite.
LinkInv ==
  \A i \in Links : Pending(i) =>
    /\ link[i].to \in Users
    /\ link[i].purpose \in {"invite", "client-invite"} => link[i].by \in Users

\* A link that took effect is not found again.
UsesInv == \A i \in Links : uses[i] <= 1 /\ (link[i].state # "dead" => uses[i] = 0)

\* Nobody is a member before the founder has registered.
FounderInv == account[Founder] = "none" => \A u \in Users : role[u] = "none"

PendingClientInvitations == {i \in Links : Pending(i) /\ link[i].purpose = "client-invite"}

AccountInv ==
  /\ TypeOK
  /\ SessionInv
  /\ LinkInv
  /\ UsesInv
  /\ FounderInv
  /\ InvitationHasOwner
  /\ InvitationsAreNeeded
  /\ IsFiniteSet(clients)
  /\ ClientLimits

-----------------------------------------------------------------------------
(* Lemmas about links.                                                     *)

LEMMA DeadFacts ==
  Dead \in Link /\ Dead.state = "dead" /\ Unissued \in Link /\ Unissued.state = "unissued"
BY DEF Dead, Unissued, Link

LEMMA WithdrawnFacts ==
  ASSUME TypeOK, NEW S
  PROVE  /\ Withdrawn(S) \in [Links -> Link]
         /\ \A i \in Links : Withdrawn(S)[i] = IF i \in S THEN Dead ELSE link[i]
BY DeadFacts DEF Withdrawn, TypeOK

LEMMA ConsumeFacts ==
  ASSUME TypeOK, NEW i \in Links, NEW S, Consume(i, S)
  PROVE  /\ link' \in [Links -> Link] /\ uses' \in [Links -> Nat]
         /\ link'[i] = Dead /\ \A j \in Links : link'[j] = link[j] \/ link'[j] = Dead
         /\ uses'[i] = uses[i] + 1 /\ \A j \in Links \ {i} : uses'[j] = uses[j]
<1>1. link' = Withdrawn(S \cup {i}) /\ uses' = [uses EXCEPT ![i] = uses[i] + 1]
  BY DEF Consume
<1>2. uses \in [Links -> Nat]
  BY DEF TypeOK
<1> QED
  BY <1>1, <1>2, WithdrawnFacts

\* The invitations under way are finitely many.
LEMMA PendingFinite ==
  ASSUME NEW S \in SUBSET Links
  PROVE  IsFiniteSet(S) /\ Cardinality(S) \in Nat
<1>1. IsFiniteSet(Links)
  BY AccountsAssumption, FS_Interval DEF Links
<1> QED
  BY <1>1, FS_Subset, FS_CardinalityType

\* Withdrawing links leaves the invitations sound, if those that remain are not
\* touched by what happens to members and clients.
LEMMA WithdrawalInv ==
  ASSUME AccountInv,
         \A i \in Links : link'[i] = link[i] \/ link'[i] = Dead,
         \A i \in Links : Pending(i)' /\ link[i].purpose = "invite" =>
           role'[link[i].by] = role[link[i].by] /\ role'[link[i].to] = role[link[i].to],
         \A i \in Links : Pending(i)' /\ link[i].purpose = "client-invite" =>
           (link[i].to \in clients' => link[i].to \in clients)
  PROVE  /\ InvitationHasOwner' /\ InvitationsAreNeeded'
         /\ Cardinality(PendingClientInvitations') <= MaxPending
         /\ LinkInv'
<1> USE DEF AccountInv
<1>1. \A i \in Links : Pending(i)' => Pending(i) /\ link'[i] = link[i]
  BY DeadFacts DEF Pending
<1>2. InvitationHasOwner'
  BY <1>1 DEF InvitationHasOwner
<1>3. InvitationsAreNeeded'
  <2> SUFFICES ASSUME NEW i \in Links, Pending(i)'
               PROVE  /\ link'[i].purpose \in {"invite", "client-invite"} =>
                           \A j \in Links : link'[j].purpose = link'[i].purpose
                             /\ link'[j].to = link'[i].to /\ Pending(j)' => j = i
                      /\ link'[i].purpose = "invite" => role'[link'[i].to] = "none"
                      /\ link'[i].purpose = "client-invite" => link'[i].to \notin clients'
    BY DEF InvitationsAreNeeded, SentTo
  <2>1. Pending(i) /\ link'[i] = link[i]
    BY <1>1
  <2>2. \A j \in Links : link[i].purpose \in {"invite", "client-invite"} /\ Pending(j)
          /\ link[j].purpose = link[i].purpose /\ link[j].to = link[i].to => j = i
    BY <2>1 DEF InvitationsAreNeeded, SentTo
  <2>3. link[i].purpose = "invite" => role'[link[i].to] = "none"
    BY <2>1 DEF InvitationsAreNeeded
  <2>4. link[i].purpose = "client-invite" => link[i].to \notin clients'
    BY <2>1 DEF InvitationsAreNeeded
  <2> QED
    BY <1>1, <2>1, <2>2, <2>3, <2>4
<1>4. Cardinality(PendingClientInvitations') <= MaxPending
  <2>1. PendingClientInvitations' \subseteq PendingClientInvitations
    BY <1>1 DEF PendingClientInvitations
  <2>2. PendingClientInvitations \in SUBSET Links
    BY DEF PendingClientInvitations
  <2>3. Cardinality(PendingClientInvitations) <= MaxPending
    BY DEF ClientLimits, PendingClientInvitations
  <2>4. Cardinality(PendingClientInvitations') <= Cardinality(PendingClientInvitations)
    BY <2>1, <2>2, PendingFinite, FS_Subset
  <2>5. PendingClientInvitations' \in SUBSET Links
    BY <2>1, <2>2
  <2> QED
    BY <2>2, <2>3, <2>4, <2>5, PendingFinite, AccountsAssumption
<1>5. LinkInv'
  BY <1>1 DEF LinkInv
<1> QED
  BY <1>2, <1>3, <1>4, <1>5

\* A new link withdraws the old ones of its kind; an invitation is issued by an
\* owner to somebody who needs it.
LEMMA IssueInv ==
  ASSUME AccountInv, NEW purpose, NEW u \in Users, NEW by \in Users \cup {NoUser},
         NEW r \in Roles \cup {"none"}, NEW S,
         Issue(purpose, u, by, r, S), UNCHANGED clients,
         \A i \in Links : Pending(i) /\ link[i].purpose = "invite" =>
           role'[link[i].by] = role[link[i].by] /\ role'[link[i].to] = role[link[i].to],
         purpose \in {"invite", "client-invite"} => by \in Users /\ S = SentTo(purpose, u),
         purpose = "invite" => role'[by] = "owner" /\ role'[u] = "none",
         purpose = "client-invite" =>
           /\ u \notin clients
           /\ Cardinality({i \in Links : Pending(i) /\ link[i].purpose = "client-invite"
                                                    /\ link[i].to # u}) < MaxPending
  PROVE  /\ link' \in [Links -> Link] /\ UNCHANGED uses
         /\ \A i \in Links : link[i].state = "dead" => link'[i].state = "dead"
         /\ InvitationHasOwner' /\ InvitationsAreNeeded'
         /\ Cardinality(PendingClientInvitations') <= MaxPending
         /\ LinkInv'
<1> USE DEF AccountInv
<1> DEFINE new == [purpose |-> purpose, to |-> u, by |-> by, role |-> r, state |-> "pending"]
<1>1. PICK n \in Links : link[n].state = "unissued" /\ link' = [Withdrawn(S) EXCEPT ![n] = new]
  BY DEF Issue
<1>2. new \in Link
  BY DEF Issue, Link
<1>3. link' \in [Links -> Link] /\ UNCHANGED uses
  BY <1>1, <1>2, WithdrawnFacts DEF Issue
<1>4. /\ link'[n] = new
      /\ \A i \in Links \ {n} : link'[i] = IF i \in S THEN Dead ELSE link[i]
  BY <1>1, WithdrawnFacts
<1>5. /\ link'[n].purpose = purpose /\ link'[n].to = u /\ link'[n].by = by /\ link'[n].role = r
      /\ Pending(n)'
  BY <1>4 DEF Pending
<1> HIDE DEF new
<1>6. \A i \in Links : link[i].state = "dead" => link'[i].state = "dead"
  BY <1>1, <1>4, DeadFacts
<1>7. \A i \in Links \ {n} : Pending(i)' => Pending(i) /\ i \notin S /\ link'[i] = link[i]
  BY <1>4, DeadFacts DEF Pending
<1>8. InvitationHasOwner'
  BY <1>5, <1>7 DEF InvitationHasOwner
<1>9. \A i \in Links \ {n} : Pending(i)' /\ purpose \in {"invite", "client-invite"}
        /\ link'[i].purpose = purpose => link'[i].to # u
  BY <1>7 DEF SentTo
<1>10. InvitationsAreNeeded'
  <2> SUFFICES ASSUME NEW i \in Links, Pending(i)'
               PROVE  /\ link'[i].purpose \in {"invite", "client-invite"} =>
                           \A j \in Links : link'[j].purpose = link'[i].purpose
                             /\ link'[j].to = link'[i].to /\ Pending(j)' => j = i
                      /\ link'[i].purpose = "invite" => role'[link'[i].to] = "none"
                      /\ link'[i].purpose = "client-invite" => link'[i].to \notin clients'
    BY DEF InvitationsAreNeeded, SentTo
  <2>1. CASE i = n
    BY <1>5, <1>9, <2>1
  <2>2. CASE i # n
    <3>1. Pending(i) /\ link'[i] = link[i]
      BY <1>7, <2>2
    <3>2. \A j \in Links : link[i].purpose \in {"invite", "client-invite"} /\ Pending(j)
            /\ link[j].purpose = link[i].purpose /\ link[j].to = link[i].to => j = i
      BY <3>1 DEF InvitationsAreNeeded, SentTo
    <3>3. link[i].purpose = "invite" => role'[link[i].to] = "none"
      BY <3>1 DEF InvitationsAreNeeded
    <3>4. link[i].purpose = "client-invite" => link[i].to \notin clients'
      BY <3>1 DEF InvitationsAreNeeded
    <3> QED
      BY <1>5, <1>7, <1>9, <2>2, <3>1, <3>2, <3>3, <3>4
  <2> QED
    BY <2>1, <2>2
<1>11. Cardinality(PendingClientInvitations') <= MaxPending
  <2> DEFINE others == {i \in Links : Pending(i) /\ link[i].purpose = "client-invite"
                                                 /\ link[i].to # u}
  <2>1. PendingClientInvitations' \in SUBSET Links
    BY DEF PendingClientInvitations
  <2>2. CASE purpose = "client-invite"
    <3>1. PendingClientInvitations' \subseteq others \cup {n}
      BY <1>7, <1>9, <2>2 DEF PendingClientInvitations
    <3>2. others \in SUBSET Links
      OBVIOUS
    <3> HIDE DEF others
    <3>3. IsFiniteSet(others) /\ Cardinality(others) \in Nat
      BY <3>2, PendingFinite
    <3>4. IsFiniteSet(others \cup {n}) /\ Cardinality(others \cup {n}) <= Cardinality(others) + 1
      <4>1. IsFiniteSet(others \cup {n}) /\ Cardinality(others \cup {n}) =
              IF n \in others THEN Cardinality(others) ELSE Cardinality(others) + 1
        BY <3>3, FS_AddElement
      <4> QED
        BY <3>3, <4>1
    <3>5. Cardinality(PendingClientInvitations') <= Cardinality(others \cup {n})
      BY <3>1, <3>4, FS_Subset
    <3>6. Cardinality(others) < MaxPending
      BY <2>2 DEF others
    <3>7. Cardinality(others \cup {n}) \in Nat /\ Cardinality(PendingClientInvitations') \in Nat
      BY <2>1, <3>4, FS_CardinalityType, PendingFinite
    <3> QED
      BY <3>3, <3>4, <3>5, <3>6, <3>7, AccountsAssumption
  <2>3. CASE purpose # "client-invite"
    <3>1. PendingClientInvitations' \subseteq PendingClientInvitations
      BY <1>5, <1>7, <2>3 DEF PendingClientInvitations
    <3>2. PendingClientInvitations \in SUBSET Links
      BY DEF PendingClientInvitations
    <3>3. Cardinality(PendingClientInvitations') <= Cardinality(PendingClientInvitations)
      BY <3>1, <3>2, PendingFinite, FS_Subset
    <3>4. Cardinality(PendingClientInvitations) <= MaxPending
      BY DEF ClientLimits, PendingClientInvitations
    <3> QED
      BY <2>1, <3>2, <3>3, <3>4, PendingFinite, AccountsAssumption
  <2> QED
    BY <2>2, <2>3
<1>12. LinkInv'
  BY <1>5, <1>7 DEF LinkInv
<1> QED
  BY <1>3, <1>6, <1>8, <1>10, <1>11, <1>12

-----------------------------------------------------------------------------
(* Every action preserves the invariant.                                   *)

LEMMA InitInv == Init => AccountInv
<1> SUFFICES ASSUME Init
             PROVE  AccountInv
  OBVIOUS
<1> USE DEF Init
<1>1. SignedOut \in Session /\ NoCall \in Call /\ NoCall.op = "none"
  BY AccountsAssumption DEF SignedOut, NoCall, Session, Call
<1>2. TypeOK
  BY <1>1, DeadFacts, AccountsAssumption DEF TypeOK
<1>3. SessionInv
  BY <1>1 DEF SessionInv
<1>4. \A i \in Links : ~ Pending(i)
  BY DeadFacts DEF Pending
<1>5. LinkInv /\ UsesInv /\ InvitationHasOwner /\ InvitationsAreNeeded
  BY <1>4 DEF LinkInv, UsesInv, InvitationHasOwner, InvitationsAreNeeded
<1>6. FounderInv
  BY AccountsAssumption DEF FounderInv
<1>7. IsFiniteSet(clients) /\ ClientLimits
  <2>1. {i \in Links : Pending(i) /\ link[i].purpose = "client-invite"} = {}
    BY <1>4
  <2> QED
    BY <2>1, FS_EmptySet, AccountsAssumption DEF ClientLimits
<1> QED
  BY <1>2, <1>3, <1>5, <1>6, <1>7 DEF AccountInv

\* Links, members and clients are not concerned.
LEMMA QuietInv ==
  ASSUME AccountInv, TypeOK', SessionInv', FounderInv', UNCHANGED <<linkVars, role, clients>>
  PROVE  AccountInv'
BY DEF AccountInv, LinkInv, UsesInv, InvitationHasOwner, InvitationsAreNeeded, ClientLimits,
       Pending, SentTo, linkVars

LEMMA StutterInv == AccountInv /\ UNCHANGED vars => AccountInv'
<1> SUFFICES ASSUME AccountInv, UNCHANGED vars
             PROVE  AccountInv'
  OBVIOUS
<1>1. TypeOK' /\ SessionInv' /\ FounderInv'
  BY DEF AccountInv, TypeOK, SessionInv, FounderInv, vars, accountVars, accessVars, linkVars,
         browserVars
<1> QED
  BY <1>1, QuietInv DEF vars, accessVars

\* A login, a logout and the first half of a reset.
LEMMA BrowserInv ==
  ASSUME AccountInv, NEW b \in Browsers,
         \/ \E u \in Users : LoginRead(b, u)
         \/ LoginCommit(b) \/ Logout(b)
         \/ \E i \in Links : ResetRead(b, i)
  PROVE  AccountInv'
<1> USE DEF AccountInv
<1>1. UNCHANGED <<account, disabled, hash, role, clients, deleting, link, uses>>
  BY DEF LoginRead, LoginCommit, Logout, ResetRead, accountVars, accessVars, linkVars
<1>2. SignedOut \in Session /\ NoCall \in Call /\ NoCall.op = "none"
  BY AccountsAssumption DEF SignedOut, NoCall, Session, Call
<1>3. /\ call' \in [Browsers -> Call]
      /\ \A c \in Browsers \ {b} : call'[c] = call[c]
      /\ call'[b].op # "none" => call'[b].user \in Users
      /\ call'[b].op = "reset" => call'[b].link \in Links
  <2>1. ASSUME NEW u \in Users, LoginRead(b, u)
        PROVE  call' = [call EXCEPT ![b] = [op |-> "login", user |-> u, hash |-> hash[u], link |-> 0]]
    BY <2>1 DEF LoginRead
  <2>2. ASSUME NEW u \in Users
        PROVE  [op |-> "login", user |-> u, hash |-> hash[u], link |-> 0] \in Call
    BY <2>2, AccountsAssumption DEF Call, TypeOK
  <2>3. CASE LoginCommit(b) \/ Logout(b)
    BY <1>2, <2>3 DEF LoginCommit, Logout, TypeOK, SessionInv
  <2>4. CASE \E u \in Users : LoginRead(b, u)
    BY <2>1, <2>2, <2>4 DEF TypeOK
  <2>5. ASSUME NEW i \in Links, ResetRead(b, i)
        PROVE  /\ call' = [call EXCEPT ![b] = [op |-> "reset", user |-> link[i].to, hash |-> 0, link |-> i]]
               /\ [op |-> "reset", user |-> link[i].to, hash |-> 0, link |-> i] \in Call
               /\ link[i].to \in Users
    BY <2>5, AccountsAssumption DEF ResetRead, LinkInv, Call, Links
  <2>6. CASE \E i \in Links : ResetRead(b, i)
    <3>1. PICK i \in Links : ResetRead(b, i)
      BY <2>6
    <3> DEFINE c == [op |-> "reset", user |-> link[i].to, hash |-> 0, link |-> i]
    <3>2. call' = [call EXCEPT ![b] = c] /\ c \in Call /\ c.user \in Users /\ c.link \in Links
      BY <2>5, <3>1
    <3> HIDE DEF c
    <3> QED
      BY <3>2 DEF TypeOK
  <2> QED
    BY <2>3, <2>4, <2>6
<1>4. /\ session' \in [Browsers -> Session]
      /\ \A c \in Browsers \ {b} : session'[c] = session[c]
      /\ \/ session'[b] = SignedOut \/ session'[b] = session[b]
         \/ session'[b].user \in Users /\ session'[b].hash = hash[session'[b].user]
  <2>1. CASE LoginCommit(b) /\ StillValid(call[b])
    <3>1. session' = [session EXCEPT ![b] = [user |-> call[b].user, hash |-> call[b].hash]]
      BY <2>1 DEF LoginCommit
    <3>2. call[b].user \in Users /\ hash[call[b].user] = call[b].hash /\ call[b].hash \in Nat
      BY <2>1 DEF LoginCommit, StillValid, SessionInv, TypeOK
    <3>3. [user |-> call[b].user, hash |-> call[b].hash] \in Session
      BY <3>2 DEF Session
    <3> QED
      BY <3>1, <3>2, <3>3 DEF TypeOK
  <2>2. CASE LoginCommit(b) /\ ~ StillValid(call[b])
    BY <2>2 DEF LoginCommit, TypeOK
  <2>3. CASE Logout(b)
    BY <1>2, <2>3 DEF Logout, TypeOK
  <2>4. CASE (\E u \in Users : LoginRead(b, u)) \/ (\E i \in Links : ResetRead(b, i))
    BY <2>4 DEF LoginRead, ResetRead, TypeOK
  <2> QED
    BY <2>1, <2>2, <2>3, <2>4
<1>5. TypeOK'
  BY <1>1, <1>3, <1>4 DEF TypeOK
<1>6. SessionInv'
  BY <1>1, <1>3, <1>4 DEF SessionInv
<1>7. FounderInv'
  BY <1>1 DEF FounderInv
<1> QED
  BY <1>1, <1>5, <1>6, <1>7, QuietInv DEF linkVars

LEMMA QuietStepsInv ==
  ASSUME AccountInv,
         (\E u \in Users : Disable(u)) \/ (\E b \in Browsers : DeleteProject(b))
  PROVE  AccountInv'
<1>1. /\ UNCHANGED <<account, hash, role, clients, link, uses, session, call>>
      /\ disabled' \subseteq Users /\ deleting' \in BOOLEAN
  BY DEF Disable, DeleteProject, AccountInv, TypeOK, accountVars, accessVars, linkVars, browserVars
<1>2. TypeOK' /\ SessionInv' /\ FounderInv'
  BY <1>1 DEF AccountInv, TypeOK, SessionInv, FounderInv
<1> QED
  BY <1>1, <1>2, QuietInv DEF linkVars

\* A password is replaced by a link that is then gone, and with it the sessions.
LEMMA ResetCommitInv ==
  ASSUME AccountInv, NEW b \in Browsers, ResetCommit(b)
  PROVE  AccountInv'
<1> USE DEF AccountInv
<1> DEFINE u == call[b].user
           i == call[b].link
<1>1. u \in Users /\ i \in Links
  BY DEF ResetCommit, SessionInv
<1>2. NoCall \in Call /\ NoCall.op = "none" /\ SignedOut \in Session
  BY AccountsAssumption DEF NoCall, Call, SignedOut, Session
<1>3. call' \in [Browsers -> Call] /\ call'[b] = NoCall /\ \A c \in Browsers \ {b} : call'[c] = call[c]
  BY <1>2 DEF ResetCommit, TypeOK
<1>4. UNCHANGED <<account, disabled, role, clients, deleting>>
  BY DEF ResetCommit, accessVars
<1>5. CASE ~ Pending(i)
  <2>1. UNCHANGED <<link, uses, hash, session>>
    BY <1>5 DEF ResetCommit, linkVars
  <2>2. TypeOK' /\ FounderInv'
    BY <1>3, <1>4, <2>1 DEF TypeOK, FounderInv
  <2>3. SessionInv'
    BY <1>2, <1>3, <2>1 DEF SessionInv
  <2> QED
    BY <1>4, <2>1, <2>2, <2>3, QuietInv DEF linkVars
<1>6. CASE Pending(i)
  <2>1. /\ Consume(i, {}) /\ session' = WithoutSessions(u)
        /\ hash' = [hash EXCEPT ![u] = hash[u] + 1]
    BY <1>6 DEF ResetCommit
  <2>2. /\ session' \in [Browsers -> Session]
        /\ \A c \in Browsers : session'[c] = IF session[c].user = u THEN SignedOut ELSE session[c]
    BY <1>2, <2>1 DEF WithoutSessions, TypeOK
  <2>3. hash' \in [Users -> Nat] /\ \A v \in Users \ {u} : hash'[v] = hash[v]
    BY <1>1, <2>1 DEF TypeOK
  <2> HIDE DEF u, i
  <2>4. TypeOK'
    BY <1>1, <1>3, <1>4, <2>1, <2>2, <2>3, ConsumeFacts DEF TypeOK
  <2>5. SessionInv'
    BY <1>2, <1>3, <2>2, <2>3 DEF SessionInv
  <2>6. UsesInv'
    <3>1. uses[i] = 0
      BY <1>1, <1>6 DEF UsesInv, Pending
    <3> QED
      BY <1>1, <2>1, <3>1, ConsumeFacts, DeadFacts DEF UsesInv
  <2>7. FounderInv'
    BY <1>4 DEF FounderInv
  <2>8. \A j \in Links : link'[j] = link[j] \/ link'[j] = Dead
    BY <1>1, <2>1, ConsumeFacts
  <2>9. LinkInv' /\ InvitationHasOwner' /\ InvitationsAreNeeded'
        /\ Cardinality(PendingClientInvitations') <= MaxPending
    BY <1>4, <2>8, WithdrawalInv
  <2>10. IsFiniteSet(clients') /\ ClientLimits'
    BY <1>4, <2>9 DEF ClientLimits, PendingClientInvitations
  <2> QED
    BY <2>4, <2>5, <2>6, <2>7, <2>9, <2>10
<1> QED
  BY <1>5, <1>6

\* Links that are withdrawn, when nothing else happens.
LEMMA LinksWithdrawnInv ==
  ASSUME AccountInv, NEW S, link' = Withdrawn(S), UNCHANGED <<uses, accountVars, accessVars, browserVars>>
  PROVE  AccountInv'
<1> USE DEF AccountInv
<1>1. link' \in [Links -> Link] /\ \A i \in Links : link'[i] = link[i] \/ link'[i] = Dead
  BY WithdrawnFacts
<1>2. TypeOK' /\ SessionInv' /\ FounderInv'
  BY <1>1 DEF TypeOK, SessionInv, FounderInv, accountVars, accessVars, browserVars
<1>3. UsesInv'
  BY <1>1, DeadFacts DEF UsesInv
<1>4. LinkInv' /\ InvitationHasOwner' /\ InvitationsAreNeeded'
        /\ Cardinality(PendingClientInvitations') <= MaxPending
  BY <1>1, WithdrawalInv DEF accessVars
<1>5. IsFiniteSet(clients') /\ ClientLimits'
  BY <1>4 DEF ClientLimits, PendingClientInvitations, accessVars
<1> QED
  BY <1>2, <1>3, <1>4, <1>5

LEMMA RevokedInv ==
  ASSUME AccountInv,
         \/ \E i \in Links : LinkExpires(i)
         \/ \E b \in Browsers, i \in Links : RevokeInvitation(b, i) \/ RevokeClientInvitation(b, i)
  PROVE  AccountInv'
BY LinksWithdrawnInv DEF LinkExpires, RevokeInvitation, RevokeClientInvitation

\* Links that are issued, when nothing else happens.
LEMMA LinkIssuedInv ==
  ASSUME AccountInv,
         \/ \E u \in Users : RequestVerification(u) \/ RequestReset(u)
         \/ \E b \in Browsers, u \in Users : InviteClient(b, u) \/ \E r \in Roles : Invite(b, u, r)
  PROVE  AccountInv'
<1> USE DEF AccountInv
<1>1. UNCHANGED <<account, disabled, hash, role, clients, deleting, session, call>>
  BY DEF RequestVerification, RequestReset, InviteClient, Invite, accountVars, accessVars, browserVars
<1> DEFINE Sound ==
             /\ link' \in [Links -> Link] /\ UNCHANGED uses
             /\ \A i \in Links : link[i].state = "dead" => link'[i].state = "dead"
             /\ InvitationHasOwner' /\ InvitationsAreNeeded'
             /\ Cardinality(PendingClientInvitations') <= MaxPending
             /\ LinkInv'
<1>2. Sound
  <2>1. ASSUME NEW u \in Users, RequestVerification(u) \/ RequestReset(u)
        PROVE  Sound
    BY <1>1, <2>1, IssueInv DEF RequestVerification, RequestReset
  <2>2. ASSUME NEW b \in Browsers, OwnerAt(b)
        PROVE  session[b].user \in Users /\ role[session[b].user] = "owner"
    BY <2>2 DEF OwnerAt, SignedIn
  <2>3. ASSUME NEW b \in Browsers, NEW u \in Users, InviteClient(b, u)
        PROVE  Sound
    <3>1. session[b].user \in Users
      BY <2>2, <2>3 DEF InviteClient, ClientOwnerAt
    <3> QED
      BY <1>1, <2>3, <3>1, IssueInv DEF InviteClient
  <2>4. ASSUME NEW b \in Browsers, NEW u \in Users, NEW r \in Roles, Invite(b, u, r)
        PROVE  Sound
    <3>1. session[b].user \in Users /\ role[session[b].user] = "owner"
      BY <2>2, <2>4 DEF Invite
    <3> QED
      BY <1>1, <2>4, <3>1, IssueInv DEF Invite
  <2> QED
    BY <2>1, <2>3, <2>4
<1>3. TypeOK' /\ SessionInv' /\ FounderInv'
  BY <1>1, <1>2 DEF TypeOK, SessionInv, FounderInv
<1>4. UsesInv'
  BY <1>2 DEF UsesInv
<1>5. IsFiniteSet(clients') /\ ClientLimits'
  BY <1>1, <1>2 DEF ClientLimits, PendingClientInvitations
<1> QED
  BY <1>2, <1>3, <1>4, <1>5

\* The founder becomes the owner when nobody is invited yet.
LEMMA RegisterInv ==
  ASSUME AccountInv, NEW u \in Users, Register(u)
  PROVE  AccountInv'
<1> USE DEF AccountInv
<1>1. /\ account' = [account EXCEPT ![u] = "unverified"]
      /\ role' = [role EXCEPT ![u] = IF u = Founder THEN "owner" ELSE role[u]]
      /\ Issue("verify", u, NoUser, "none", {})
      /\ UNCHANGED <<disabled, hash, clients, deleting, session, call>>
  BY DEF Register, browserVars
<1>2. \A i \in Links : Pending(i) /\ link[i].purpose = "invite" =>
        role'[link[i].by] = role[link[i].by] /\ role'[link[i].to] = role[link[i].to]
  <2>1. CASE u = Founder
    <3>1. \A v \in Users : role[v] = "none"
      BY <2>1 DEF Register, FounderInv
    <3> QED
      BY <3>1 DEF InvitationHasOwner, LinkInv
  <2>2. CASE u # Founder
    BY <1>1, <2>2 DEF TypeOK
  <2> QED
    BY <2>1, <2>2
<1>3. /\ link' \in [Links -> Link] /\ UNCHANGED uses
      /\ \A i \in Links : link[i].state = "dead" => link'[i].state = "dead"
      /\ InvitationHasOwner' /\ InvitationsAreNeeded'
      /\ Cardinality(PendingClientInvitations') <= MaxPending
      /\ LinkInv'
  BY <1>1, <1>2, IssueInv
<1>4. TypeOK'
  BY <1>1, <1>3, AccountsAssumption DEF TypeOK
<1>5. SessionInv'
  BY <1>1 DEF SessionInv
<1>6. FounderInv'
  BY <1>1, AccountsAssumption DEF FounderInv, TypeOK
<1>7. UsesInv'
  BY <1>3 DEF UsesInv
<1>8. IsFiniteSet(clients') /\ ClientLimits'
  BY <1>1, <1>3 DEF ClientLimits, PendingClientInvitations
<1> QED
  BY <1>3, <1>4, <1>5, <1>6, <1>7, <1>8

LEMMA VerifyInv ==
  ASSUME AccountInv, NEW i \in Links, Verify(i)
  PROVE  AccountInv'
<1> USE DEF AccountInv
<1> DEFINE u == link[i].to
<1>1. /\ Pending(i) /\ u \in Users
      /\ account' = [account EXCEPT ![u] = IF u \in disabled THEN account[u] ELSE "verified"]
      /\ Consume(i, SentTo("verify", u))
      /\ UNCHANGED <<disabled, hash, role, clients, deleting, session, call>>
  BY DEF Verify, LinkInv, accessVars, browserVars
<1> HIDE DEF u
<1>2. /\ link' \in [Links -> Link] /\ uses' \in [Links -> Nat]
      /\ link'[i] = Dead /\ \A j \in Links : link'[j] = link[j] \/ link'[j] = Dead
      /\ uses'[i] = uses[i] + 1 /\ \A j \in Links \ {i} : uses'[j] = uses[j]
  BY <1>1, ConsumeFacts
<1>3. TypeOK'
  BY <1>1, <1>2 DEF TypeOK
<1>4. SessionInv'
  BY <1>1 DEF SessionInv
<1>5. UsesInv'
  BY <1>1, <1>2, DeadFacts DEF UsesInv, Pending
<1>6. FounderInv'
  BY <1>1, AccountsAssumption DEF FounderInv, TypeOK
<1>7. LinkInv' /\ InvitationHasOwner' /\ InvitationsAreNeeded'
        /\ Cardinality(PendingClientInvitations') <= MaxPending
  BY <1>1, <1>2, WithdrawalInv
<1>8. IsFiniteSet(clients') /\ ClientLimits'
  BY <1>1, <1>7 DEF ClientLimits, PendingClientInvitations
<1> QED
  BY <1>3, <1>4, <1>5, <1>6, <1>7, <1>8

\* Whoever loses ownership loses the invitations it issued; a member has none
\* to receive.
LEMMA ChangeMemberInv ==
  ASSUME AccountInv, NEW b \in Browsers, NEW t \in Users, NEW r \in Roles \cup {"none"},
         ChangeMember(b, t, r)
  PROVE  AccountInv'
<1> USE DEF AccountInv
<1>1. /\ role[t] # "none"
      /\ role' = [role EXCEPT ![t] = r]
      /\ link' = IF role[t] = "owner" THEN Withdrawn(IssuedBy(t)) ELSE link
      /\ session' = WithoutSessions(t)
      /\ UNCHANGED <<call, uses, account, disabled, hash, clients, deleting>>
  BY DEF ChangeMember, accountVars
<1>2. SignedOut \in Session
  BY AccountsAssumption DEF SignedOut, Session
<1>3. /\ session' \in [Browsers -> Session]
      /\ \A c \in Browsers : session'[c] = SignedOut \/ session'[c] = session[c]
  BY <1>1, <1>2 DEF WithoutSessions, TypeOK
<1>4. link' \in [Links -> Link] /\ \A i \in Links : link'[i] = link[i] \/ link'[i] = Dead
  BY <1>1, WithdrawnFacts DEF TypeOK
<1>5. \A i \in Links : Pending(i)' /\ link[i].purpose = "invite" =>
        link[i].by # t /\ link[i].to # t
  <2> SUFFICES ASSUME NEW i \in Links, Pending(i)', link[i].purpose = "invite"
               PROVE  link[i].by # t /\ link[i].to # t
    OBVIOUS
  <2>1. Pending(i) /\ link'[i] = link[i]
    BY <1>4, DeadFacts DEF Pending
  <2>2. link[i].to # t
    BY <1>1, <2>1 DEF InvitationsAreNeeded
  <2>3. CASE role[t] = "owner"
    <3>1. i \notin IssuedBy(t)
      BY <1>1, <2>3, WithdrawnFacts, DeadFacts DEF Pending
    <3> QED
      BY <2>2, <3>1 DEF IssuedBy
  <2>4. CASE role[t] # "owner"
    BY <2>1, <2>2, <2>4 DEF InvitationHasOwner
  <2> QED
    BY <2>3, <2>4
<1>6. \A i \in Links : Pending(i)' /\ link[i].purpose = "invite" =>
        role'[link[i].by] = role[link[i].by] /\ role'[link[i].to] = role[link[i].to]
  BY <1>1, <1>5 DEF TypeOK
<1>7. TypeOK'
  BY <1>1, <1>3, <1>4 DEF TypeOK
<1>8. SessionInv'
  BY <1>1, <1>3 DEF SessionInv
<1>9. UsesInv'
  BY <1>1, <1>4, DeadFacts DEF UsesInv
<1>10. FounderInv'
  BY <1>1 DEF FounderInv
<1>11. LinkInv' /\ InvitationHasOwner' /\ InvitationsAreNeeded'
        /\ Cardinality(PendingClientInvitations') <= MaxPending
  BY <1>1, <1>4, <1>6, WithdrawalInv
<1>12. IsFiniteSet(clients') /\ ClientLimits'
  BY <1>1, <1>11 DEF ClientLimits, PendingClientInvitations
<1> QED
  BY <1>7, <1>8, <1>9, <1>10, <1>11, <1>12

\* The invitation that is accepted was the only one.
LEMMA AcceptInvitationInv ==
  ASSUME AccountInv, NEW b \in Browsers, NEW i \in Links, AcceptInvitation(b, i)
  PROVE  AccountInv'
<1> USE DEF AccountInv
<1> DEFINE u == link[i].to
<1>1. /\ Pending(i) /\ link[i].purpose = "invite" /\ u \in Users
      /\ link[i].by \in Users /\ role[link[i].by] = "owner" /\ role[u] = "none"
  BY DEF AcceptInvitation, Acceptable, LinkInv, InvitationHasOwner
<1>2. /\ role' = [role EXCEPT ![u] = link[i].role]
      /\ Consume(i, {})
      /\ UNCHANGED <<clients, deleting, account, disabled, hash, session, call>>
  BY DEF AcceptInvitation, accountVars, browserVars
<1>3. \A j \in Links \ {i} : Pending(j) /\ link[j].purpose = "invite" =>
        link[j].to # u /\ link[j].by # u
  BY <1>1 DEF InvitationsAreNeeded, SentTo, InvitationHasOwner
<1> HIDE DEF u
<1>4. /\ link' \in [Links -> Link] /\ uses' \in [Links -> Nat]
      /\ link'[i] = Dead /\ \A j \in Links : link'[j] = link[j] \/ link'[j] = Dead
      /\ uses'[i] = uses[i] + 1 /\ \A j \in Links \ {i} : uses'[j] = uses[j]
  BY <1>2, ConsumeFacts
<1>5. link[i].role \in Roles \cup {"none"}
  BY DEF TypeOK, Link
<1>6. TypeOK'
  BY <1>1, <1>2, <1>4, <1>5 DEF TypeOK
<1>7. SessionInv'
  BY <1>2 DEF SessionInv
<1>8. UsesInv'
  BY <1>1, <1>4, DeadFacts DEF UsesInv, Pending
<1>9. FounderInv'
  BY <1>1, <1>2 DEF FounderInv
<1>10. \A j \in Links : Pending(j)' /\ link[j].purpose = "invite" =>
        role'[link[j].by] = role[link[j].by] /\ role'[link[j].to] = role[link[j].to]
  <2>1. \A j \in Links : Pending(j)' => Pending(j) /\ j # i
    BY <1>4, DeadFacts DEF Pending
  <2> QED
    BY <1>2, <1>3, <2>1 DEF TypeOK
<1>11. LinkInv' /\ InvitationHasOwner' /\ InvitationsAreNeeded'
        /\ Cardinality(PendingClientInvitations') <= MaxPending
  BY <1>2, <1>4, <1>10, WithdrawalInv
<1>12. IsFiniteSet(clients') /\ ClientLimits'
  BY <1>2, <1>11 DEF ClientLimits, PendingClientInvitations
<1> QED
  BY <1>6, <1>7, <1>8, <1>9, <1>11, <1>12

\* A client is added within the limit and is invited no longer, or removed.
LEMMA ClientsInv ==
  ASSUME AccountInv, NEW u \in Users,
         \/ clients' = clients \cup {u} /\ (u \in clients \/ Cardinality(clients) < MaxClients)
         \/ clients' = clients \ {u},
         \A j \in Links : link'[j] = link[j] \/ link'[j] = Dead,
         \A j \in Links : Pending(j)' /\ link[j].purpose = "client-invite" => link[j].to # u,
         link' \in [Links -> Link], uses' \in [Links -> Nat], UsesInv',
         UNCHANGED <<role, deleting, account, disabled, hash, session, call>>
  PROVE  AccountInv'
<1> USE DEF AccountInv
<1>1. TypeOK' /\ SessionInv' /\ FounderInv'
  BY DEF TypeOK, SessionInv, FounderInv
<1>2. LinkInv' /\ InvitationHasOwner' /\ InvitationsAreNeeded'
        /\ Cardinality(PendingClientInvitations') <= MaxPending
  BY WithdrawalInv
<1>3. IsFiniteSet(clients) /\ Cardinality(clients) \in Nat /\ Cardinality(clients) <= MaxClients
  BY FS_CardinalityType DEF ClientLimits
<1>4. IsFiniteSet(clients') /\ Cardinality(clients') <= MaxClients
  <2>1. CASE clients' = clients \cup {u} /\ (u \in clients \/ Cardinality(clients) < MaxClients)
    <3>1. IsFiniteSet(clients') /\ Cardinality(clients') =
            IF u \in clients THEN Cardinality(clients) ELSE Cardinality(clients) + 1
      BY <1>3, <2>1, FS_AddElement
    <3> QED
      BY <1>3, <2>1, <3>1, AccountsAssumption
  <2>2. CASE clients' = clients \ {u}
    <3>1. IsFiniteSet(clients') /\ Cardinality(clients') =
            IF u \in clients THEN Cardinality(clients) - 1 ELSE Cardinality(clients)
      BY <1>3, <2>2, FS_RemoveElement
    <3> QED
      BY <1>3, <3>1, AccountsAssumption
  <2> QED
    BY <2>1, <2>2
<1>5. ClientLimits'
  BY <1>2, <1>4 DEF ClientLimits, PendingClientInvitations
<1> QED
  BY <1>1, <1>2, <1>4, <1>5

LEMMA AcceptClientInvitationInv ==
  ASSUME AccountInv, NEW b \in Browsers, NEW i \in Links, AcceptClientInvitation(b, i)
  PROVE  AccountInv'
<1> USE DEF AccountInv
<1> DEFINE u == link[i].to
<1>1. Pending(i) /\ link[i].purpose = "client-invite" /\ u \in Users
  BY DEF AcceptClientInvitation, LiveClientInvitation, LinkInv
<1>2. /\ clients' = clients \cup {u} /\ Cardinality(clients) < MaxClients
      /\ Consume(i, {})
      /\ UNCHANGED <<role, deleting, account, disabled, hash, session, call>>
  BY DEF AcceptClientInvitation, accountVars, browserVars
<1>3. \A j \in Links \ {i} : Pending(j) /\ link[j].purpose = "client-invite" => link[j].to # u
  BY <1>1 DEF InvitationsAreNeeded, SentTo
<1> HIDE DEF u
<1>4. /\ link' \in [Links -> Link] /\ uses' \in [Links -> Nat]
      /\ link'[i] = Dead /\ \A j \in Links : link'[j] = link[j] \/ link'[j] = Dead
      /\ uses'[i] = uses[i] + 1 /\ \A j \in Links \ {i} : uses'[j] = uses[j]
  BY <1>2, ConsumeFacts
<1>5. UsesInv'
  BY <1>1, <1>4, DeadFacts DEF UsesInv, Pending
<1>6. \A j \in Links : Pending(j)' => Pending(j) /\ j # i
  BY <1>4, DeadFacts DEF Pending
<1> QED
  BY <1>1, <1>2, <1>3, <1>4, <1>5, <1>6, ClientsInv

LEMMA ChangeProjectClientInv ==
  ASSUME AccountInv, NEW b \in Browsers, NEW u \in Users, GrantClient(b, u) \/ RemoveClient(b, u)
  PROVE  AccountInv'
<1> USE DEF AccountInv
<1>1. /\ link' = Withdrawn(SentTo("client-invite", u))
      /\ UNCHANGED <<role, deleting, uses, account, disabled, hash, session, call>>
      /\ \/ clients' = clients \cup {u} /\ (u \in clients \/ Cardinality(clients) < MaxClients)
         \/ clients' = clients \ {u}
  BY DEF GrantClient, RemoveClient, accountVars, browserVars
<1>2. /\ link' \in [Links -> Link]
      /\ \A j \in Links : link'[j] = IF j \in SentTo("client-invite", u) THEN Dead ELSE link[j]
  BY <1>1, WithdrawnFacts
<1>3. \A j \in Links : Pending(j)' /\ link[j].purpose = "client-invite" => link[j].to # u
  BY <1>2, DeadFacts DEF Pending, SentTo
<1>4. UsesInv' /\ uses' \in [Links -> Nat]
  BY <1>1, <1>2, DeadFacts DEF UsesInv, TypeOK
<1> QED
  BY <1>1, <1>2, <1>3, <1>4, ClientsInv

LEMMA StepInv == AccountInv /\ [Next]_vars => AccountInv'
BY StutterInv, BrowserInv, QuietStepsInv, ResetCommitInv, RevokedInv, LinkIssuedInv, RegisterInv,
   VerifyInv, ChangeMemberInv, AcceptInvitationInv, AcceptClientInvitationInv,
   ChangeProjectClientInv
   DEF Next, UserNext, LinkNext, BrowserNext

-----------------------------------------------------------------------------
(* The theorems.                                                           *)

\* The invariant holds of accounts, members, clients and links.
THEOREM Invariance == Spec => []AccountInv
BY InitInv, StepInv, PTL DEF Spec

\* The variables keep their types (Accounts).
THEOREM TypeCorrect == Spec => []TypeOK
BY Invariance, PTL DEF AccountInv

\* Every session is of the password its account has now, and no link takes effect
\* twice, although Login and ResetPassword check and act in two transactions.
THEOREM CredentialsStayCurrent == Spec => []CredentialsAreCurrent
<1>1. AccountInv => CredentialsAreCurrent
  BY DEF AccountInv, SessionInv, UsesInv, CredentialsAreCurrent, SessionsAreCurrent, LinksWorkOnce
<1> QED
  BY <1>1, Invariance, PTL

\* Invitations that can still be accepted were issued by an owner who has been
\* one ever since, are needed, and stay within the limits (ChangeMember, Invite,
\* InviteClient, AcceptClientInvitation, ChangeProjectClient).
THEOREM InvitationsStaySound == Spec => []InvitationsAreSound
<1>1. AccountInv => InvitationsAreSound
  BY DEF AccountInv, InvitationsAreSound
<1> QED
  BY <1>1, Invariance, PTL

\* No step of the portal takes the last enabled owner from a workspace, for any
\* number of owners who demote and remove each other (ChangeMember).
THEOREM OwnerRemains == Spec => ActiveOwnerRemains
<1>1. ASSUME AccountInv, [Next]_vars, UNCHANGED disabled, ActiveOwners # {}
      PROVE  ActiveOwners' # {}
  <2>1. PICK o \in Users : role[o] = "owner" /\ Active(o)
    BY <1>1 DEF ActiveOwners
  <2>2. ASSUME NEW b \in Browsers, NEW t \in Users, NEW r \in Roles \cup {"none"},
               ChangeMember(b, t, r)
        PROVE  ActiveOwners' # {}
    <3>1. PICK p \in Users \ {t} : role[p] = "owner" /\ Active(p)
      BY <2>1, <2>2 DEF ChangeMember, ActiveOwners
    <3>2. role'[p] = "owner" /\ Active(p)'
      BY <1>1, <2>2, <3>1 DEF ChangeMember, Active, accountVars, AccountInv, TypeOK
    <3> QED
      BY <3>2 DEF ActiveOwners
  <2>3. ASSUME role'[o] = "owner", account'[o] = "verified"
        PROVE  ActiveOwners' # {}
    BY <1>1, <2>1, <2>3 DEF ActiveOwners, Active
  <2>4. ASSUME NEW u \in Users, Register(u)
        PROVE  ActiveOwners' # {}
    BY <1>1, <2>1, <2>3, <2>4 DEF Register, Active, AccountInv, TypeOK
  <2>5. ASSUME NEW i \in Links, Verify(i)
        PROVE  ActiveOwners' # {}
    BY <1>1, <2>1, <2>3, <2>5 DEF Verify, Active, accessVars, AccountInv, TypeOK
  <2>6. ASSUME NEW b \in Browsers, NEW i \in Links, AcceptInvitation(b, i)
        PROVE  ActiveOwners' # {}
    BY <1>1, <2>1, <2>3, <2>6 DEF AcceptInvitation, Active, accountVars, AccountInv, TypeOK
  <2>7. CASE UNCHANGED <<account, role>>
    BY <2>1, <2>3, <2>7 DEF Active
  <2>8. \/ UNCHANGED <<account, role>>
        \/ \E u \in Users : Register(u)
        \/ \E i \in Links : Verify(i)
        \/ \E b \in Browsers, i \in Links : AcceptInvitation(b, i)
        \/ \E b \in Browsers, t \in Users, r \in Roles \cup {"none"} : ChangeMember(b, t, r)
    <3>1. CASE UNCHANGED vars
      BY <3>1 DEF vars, accountVars, accessVars
    <3>2. CASE UserNext
      BY <3>2 DEF UserNext, RequestVerification, RequestReset, Disable, accountVars, accessVars
    <3>3. CASE LinkNext
      BY <3>3 DEF LinkNext, LinkExpires, accountVars, accessVars
    <3>4. CASE BrowserNext
      BY <3>4 DEF BrowserNext, LoginCommit, Logout, ResetCommit, DeleteProject, LoginRead,
                  InviteClient, GrantClient, RemoveClient, Invite, ResetRead, RevokeInvitation,
                  RevokeClientInvitation, AcceptClientInvitation, accountVars, accessVars
    <3> QED
      BY <1>1, <3>1, <3>2, <3>3, <3>4 DEF Next
  <2> QED
    BY <2>2, <2>4, <2>5, <2>6, <2>7, <2>8
<1>2. AccountInv /\ [Next]_vars =>
        [UNCHANGED disabled /\ ActiveOwners # {} => ActiveOwners' # {}]_vars
  BY <1>1
<1> QED
  BY <1>2, Invariance, PTL DEF Spec, ActiveOwnerRemains

-----------------------------------------------------------------------------
(* AccountMail: the inductive invariant.                                   *)

\* Whoever invites to the workspace has a verified account, and keeps it.
InviterInv ==
  \A i \in Links : Pending(i) /\ link[i].purpose = "invite" => account[link[i].by] = "verified"

\* The link is one that its message should reach somebody with.
Wanted(i) == LinkIsGood(i) /\ link[i].purpose # "client-invite"

\* A settled message has no lease, and was settled for a reason that stays.
MessageInv ==
  \A i \in Links :
    /\ mail[i].lease # NoWorker => mail[i].state = "pending"
    /\ mail[i].state = "sent" => i \in accepted
    /\ mail[i].state = "discarded" => ~ Wanted(i)
    /\ mail[i].state = "failed" => mail[i].attempts = MaxAttempts

\* What a worker has found out about its message holds when it acts on it,
\* whoever has the lease by then.
WorkerInv ==
  \A w \in Workers : worker[w].pc # "idle" =>
    /\ worker[w].link \in Links /\ link[worker[w].link].state # "unissued"
    /\ worker[w].pc = "invalid" => ~ Wanted(worker[w].link)
    /\ worker[w].pc = "acknowledge" => worker[w].link \in accepted

MailInv ==
  /\ AccountInv
  /\ InviterInv
  /\ MailTypeOK
  /\ MessageInv
  /\ WorkerInv

-----------------------------------------------------------------------------
(* AccountMail: what a step of the accounts does to links.                 *)

\* A step issues a link, or only makes links unusable.
LEMMA LinkSteps ==
  ASSUME AccountInv, [Next]_vars
  PROVE  \/ \A i \in Links : link'[i] = link[i] \/ link'[i] = Dead
         \/ \E u \in Users : Register(u) \/ RequestVerification(u) \/ RequestReset(u)
         \/ \E b \in Browsers, u \in Users : InviteClient(b, u) \/ \E r \in Roles : Invite(b, u, r)
<1> USE DEF AccountInv
<1>1. ASSUME NEW S, link' = Withdrawn(S)
      PROVE  \A i \in Links : link'[i] = link[i] \/ link'[i] = Dead
  BY <1>1, WithdrawnFacts
<1>2. ASSUME NEW i \in Links, NEW S, Consume(i, S)
      PROVE  \A j \in Links : link'[j] = link[j] \/ link'[j] = Dead
  BY <1>2, ConsumeFacts
<1>3. CASE UNCHANGED vars
  BY <1>3 DEF vars, linkVars
<1>4. CASE UserNext
  BY <1>4 DEF UserNext, Disable, linkVars
<1>5. CASE LinkNext
  BY <1>1, <1>2, <1>5 DEF LinkNext, LinkExpires, Verify
<1>6. CASE BrowserNext
  <2>1. ASSUME NEW b \in Browsers,
               LoginCommit(b) \/ Logout(b) \/ ResetCommit(b) \/ DeleteProject(b)
        PROVE  \A i \in Links : link'[i] = link[i] \/ link'[i] = Dead
    BY <1>2, <2>1 DEF LoginCommit, Logout, ResetCommit, DeleteProject, SessionInv, linkVars
  <2>2. ASSUME NEW b \in Browsers, NEW u \in Users,
               LoginRead(b, u) \/ GrantClient(b, u) \/ RemoveClient(b, u)
        PROVE  \A i \in Links : link'[i] = link[i] \/ link'[i] = Dead
    BY <1>1, <2>2 DEF LoginRead, GrantClient, RemoveClient, linkVars
  <2>3. ASSUME NEW b \in Browsers, NEW u \in Users, NEW r, ChangeMember(b, u, r)
        PROVE  \A i \in Links : link'[i] = link[i] \/ link'[i] = Dead
    BY <1>1, <2>3 DEF ChangeMember
  <2>4. ASSUME NEW b \in Browsers, NEW i \in Links,
               \/ ResetRead(b, i) \/ RevokeInvitation(b, i) \/ AcceptInvitation(b, i)
               \/ RevokeClientInvitation(b, i) \/ AcceptClientInvitation(b, i)
        PROVE  \A j \in Links : link'[j] = link[j] \/ link'[j] = Dead
    BY <1>1, <1>2, <2>4 DEF ResetRead, RevokeInvitation, AcceptInvitation,
       RevokeClientInvitation, AcceptClientInvitation, linkVars
  <2> QED
    BY <1>6, <2>1, <2>2, <2>3, <2>4 DEF BrowserNext
<1> QED
  BY <1>3, <1>4, <1>5, <1>6 DEF Next

\* Links only die: no step brings a link that was issued back, or changes it.
LEMMA LinksOnlyDie ==
  ASSUME AccountInv, [Next]_vars
  PROVE  \A i \in Links : link[i].state # "unissued" => link'[i] = link[i] \/ link'[i] = Dead
<1>1. ASSUME NEW purpose, NEW u, NEW by, NEW r, NEW S, Issue(purpose, u, by, r, S)
      PROVE  \A i \in Links : link[i].state # "unissued" => link'[i] = link[i] \/ link'[i] = Dead
  BY <1>1, WithdrawnFacts DEF Issue, AccountInv
<1> QED
  BY <1>1, LinkSteps DEF Register, RequestVerification, RequestReset, InviteClient, Invite

\* A verified account stays verified, and a disabled one disabled.
LEMMA AccountsAdvance ==
  ASSUME AccountInv, [Next]_vars
  PROVE  /\ \A u \in Users : account[u] = "verified" => account'[u] = "verified"
         /\ disabled \subseteq disabled'
<1> USE DEF AccountInv
<1>1. CASE UNCHANGED vars
  BY <1>1 DEF vars, accountVars
<1>2. CASE UserNext
  BY <1>2 DEF UserNext, Register, RequestVerification, RequestReset, Disable, TypeOK, accountVars
<1>3. CASE LinkNext
  BY <1>3 DEF LinkNext, LinkExpires, Verify, TypeOK, accountVars
<1>4. CASE BrowserNext
  BY <1>4 DEF BrowserNext, LoginCommit, Logout, ResetCommit, DeleteProject, LoginRead,
     InviteClient, GrantClient, RemoveClient, Invite, ChangeMember, ResetRead, RevokeInvitation,
     AcceptInvitation, RevokeClientInvitation, AcceptClientInvitation, accountVars
<1> QED
  BY <1>1, <1>2, <1>3, <1>4 DEF Next

\* An invitation to the workspace is issued by a user who is signed in.
LEMMA InviterStep ==
  ASSUME AccountInv, InviterInv, [Next]_vars
  PROVE  InviterInv'
<1> USE DEF AccountInv
<1>1. ASSUME NEW i \in Links, link'[i] = link[i] \/ link'[i] = Dead, Pending(i)',
             link'[i].purpose = "invite"
      PROVE  account'[link'[i].by] = "verified"
  BY <1>1, DeadFacts, AccountsAdvance DEF InviterInv, LinkInv, Pending
<1>2. ASSUME NEW purpose, NEW u, NEW by, NEW r, NEW S, Issue(purpose, u, by, r, S),
             purpose = "invite" => by \in Users /\ account[by] = "verified"
      PROVE  InviterInv'
  <2> DEFINE new == [purpose |-> purpose, to |-> u, by |-> by, role |-> r, state |-> "pending"]
  <2>1. PICK n \in Links : link' = [Withdrawn(S) EXCEPT ![n] = new]
    BY <1>2 DEF Issue
  <2>2. /\ link'[n].purpose = purpose /\ link'[n].by = by
        /\ \A i \in Links \ {n} : link'[i] = link[i] \/ link'[i] = Dead
    BY <2>1, WithdrawnFacts
  <2>3. \A i \in Links \ {n} : Pending(i)' /\ link'[i].purpose = "invite" =>
          account'[link'[i].by] = "verified"
    BY <1>1, <2>2
  <2>4. purpose = "invite" => account'[by] = "verified"
    BY <1>2, AccountsAdvance
  <2> QED
    BY <2>2, <2>3, <2>4 DEF InviterInv
<1>3. ASSUME \A i \in Links : link'[i] = link[i] \/ link'[i] = Dead
      PROVE  InviterInv'
  BY <1>1, <1>3 DEF InviterInv
<1>4. ASSUME NEW b \in Browsers, NEW u \in Users, NEW r \in Roles, Invite(b, u, r)
      PROVE  InviterInv'
  BY <1>2, <1>4 DEF Invite, OwnerAt, SignedIn, Active
<1>5. ASSUME NEW b \in Browsers, NEW u \in Users, InviteClient(b, u)
      PROVE  InviterInv'
  BY <1>2, <1>5 DEF InviteClient
<1>6. ASSUME NEW u \in Users, Register(u) \/ RequestVerification(u) \/ RequestReset(u)
      PROVE  InviterInv'
  BY <1>2, <1>6 DEF Register, RequestVerification, RequestReset
<1> QED
  BY <1>3, <1>4, <1>5, <1>6, LinkSteps

\* Once a link is not good any more it never is again: its inviter cannot be
\* enabled again, and cannot become an owner again without losing it.
LEMMA UnwantedStays ==
  ASSUME AccountInv, InviterInv, [Next]_vars, NEW i \in Links, link[i].state # "unissued",
         ~ Wanted(i)
  PROVE  ~ Wanted(i)'
<1> USE DEF AccountInv
<1> SUFFICES ASSUME LinkIsGood(i)', link'[i].purpose # "client-invite"
             PROVE  Wanted(i)
  BY DEF Wanted
<1>1. Pending(i)' /\ link'[i] = link[i]
  BY LinksOnlyDie, DeadFacts DEF LinkIsGood, Acceptable, LiveClientInvitation, Pending
<1>2. Pending(i)
  BY <1>1 DEF Pending
<1>3. CASE link[i].purpose = "invite"
  <2>1. link[i].by \in Users /\ role[link[i].by] = "owner" /\ account[link[i].by] = "verified"
    BY <1>2, <1>3 DEF LinkInv, InvitationHasOwner, InviterInv
  <2>2. link'[i].by \in ActiveOwners'
    BY <1>1, <1>3 DEF LinkIsGood, Acceptable, LiveClientInvitation, Authorized
  <2>3. link[i].by \notin disabled
    BY <1>1, <2>2, AccountsAdvance DEF ActiveOwners, Active
  <2> QED
    BY <1>2, <1>3, <2>1, <2>3
       DEF Wanted, LinkIsGood, Acceptable, Authorized, ActiveOwners, Active
<1>4. CASE link[i].purpose # "invite"
  BY <1>1, <1>2, <1>4, AccountsAdvance
     DEF Wanted, LinkIsGood, Acceptable, LiveClientInvitation
<1> QED
  BY <1>3, <1>4

-----------------------------------------------------------------------------
(* AccountMail: every action preserves the invariant.                      *)

LEMMA MailInitInv == MailInit => MailInv
<1> SUFFICES ASSUME MailInit
             PROVE  MailInv
  OBVIOUS
<1>1. AccountInv
  BY InitInv DEF MailInit
<1>2. \A i \in Links : link[i].state = "unissued"
  BY DeadFacts DEF MailInit, Init
<1>3. Row("none", FALSE, NoWorker, 0) \in Message /\ Idle \in Step /\ Idle.pc = "idle"
  BY MailAssumption, AccountsAssumption DEF Row, Message, Idle, Step
<1>4. MailTypeOK
  BY <1>1, <1>2, <1>3 DEF MailInit, MailTypeOK, AccountInv, Row
<1> QED
  BY <1>1, <1>2, <1>3, <1>4
     DEF MailInit, MailInv, InviterInv, MessageInv, WorkerInv, Pending, Row

\* A step of the accounts: a new link comes with its message.
LEMMA AccountStepInv ==
  ASSUME MailInv, [Next]_vars, Enqueue, UNCHANGED <<accepted, worker>>
  PROVE  MailInv'
<1> USE DEF MailInv
<1>1. AccountInv' /\ InviterInv'
  BY StepInv, InviterStep
<1>2. \A i \in Links : link[i].state # "unissued" =>
        link'[i].state # "unissued" /\ (~ Wanted(i) => ~ Wanted(i)')
  BY LinksOnlyDie, UnwantedStays, DeadFacts
<1>3. \A i \in Links :
        \/ mail'[i] = mail[i] /\ (link'[i].state = "unissued" <=> link[i].state = "unissued")
        \/ /\ mail'[i] = Row("pending", TRUE, NoWorker, 0)
           /\ link'[i].state # "unissued"
  BY <1>2 DEF Enqueue
<1>4. mail' \in [Links -> Message]
  BY MailAssumption DEF Enqueue, MailTypeOK, Row, Message
<1>5. MailTypeOK'
  BY <1>1, <1>3, <1>4 DEF MailTypeOK, AccountInv, Row
<1>6. MessageInv'
  BY <1>2, <1>3 DEF MessageInv, MailTypeOK, Row
<1>7. WorkerInv'
  BY <1>2 DEF WorkerInv
<1> QED
  BY <1>1, <1>5, <1>6, <1>7

\* A step of the outbox leaves the accounts alone.
LEMMA AccountsRest ==
  ASSUME MailInv, UNCHANGED vars
  PROVE  /\ AccountInv' /\ InviterInv' /\ link' = link
         /\ \A i \in Links : Wanted(i)' <=> Wanted(i)
<1>1. AccountInv' /\ InviterInv'
  BY StepInv, InviterStep DEF MailInv
<1>2. UNCHANGED <<account, disabled, role, deleting, link>>
  BY DEF vars, accountVars, accessVars, linkVars
<1>3. \A i \in Links : Wanted(i)' <=> Wanted(i)
  BY <1>2 DEF Wanted, LinkIsGood, Acceptable, LiveClientInvitation, Pending, Authorized,
              ActiveOwners, Active
<1> QED
  BY <1>1, <1>2, <1>3

\* What a step may do to one message, one worker and the mail server.
LEMMA OutboxMoves ==
  ASSUME MailInv, UNCHANGED vars,
         NEW i \in Links, NEW m, mail' = [mail EXCEPT ![i] = m],
         NEW w \in Workers, NEW s, worker' = [worker EXCEPT ![w] = s],
         accepted \subseteq accepted', accepted' \subseteq Links,
         link[i].state # "unissued",
         m = mail[i] \/ /\ m \in Message /\ m.state # "none"
                        /\ m.lease # NoWorker => m.state = "pending"
                        /\ m.state = "sent" => i \in accepted
                        /\ m.state = "discarded" => ~ Wanted(i)
                        /\ m.state = "failed" => m.attempts = MaxAttempts,
         s \in Step,
         s.pc # "idle" => /\ s.link \in Links /\ link[s.link].state # "unissued"
                          /\ s.pc = "invalid" => ~ Wanted(s.link)
                          /\ s.pc = "acknowledge" => s.link \in accepted'
  PROVE  MailInv'
<1> USE DEF MailInv
<1>1. /\ AccountInv' /\ InviterInv' /\ link' = link
      /\ \A j \in Links : Wanted(j)' <=> Wanted(j)
  BY AccountsRest
<1>2. /\ mail' \in [Links -> Message] /\ mail'[i] = m
      /\ \A j \in Links \ {i} : mail'[j] = mail[j]
  BY DEF MailTypeOK
<1>3. /\ worker' \in [Workers -> Step] /\ worker'[w] = s
      /\ \A v \in Workers \ {w} : worker'[v] = worker[v]
  BY DEF MailTypeOK
<1>4. MailTypeOK'
  BY <1>1, <1>2, <1>3 DEF MailTypeOK, AccountInv
<1>5. MessageInv'
  BY <1>1, <1>2 DEF MessageInv
<1>6. WorkerInv'
  BY <1>1, <1>3 DEF WorkerInv
<1> QED
  BY <1>1, <1>4, <1>5, <1>6

LEMMA BecomesDueInv ==
  ASSUME MailInv, NEW i \in Links, BecomesDue(i)
  PROVE  MailInv'
<1> USE DEF MailInv
<1> DEFINE m == Row("pending", TRUE, mail[i].lease, mail[i].attempts)
<1>1. /\ mail' = [mail EXCEPT ![i] = m] /\ link[i].state # "unissued"
      /\ UNCHANGED <<vars, accepted, worker>>
  BY DEF BecomesDue, MailTypeOK
<1>2. m \in Message /\ m.state = "pending"
  BY DEF Row, Message, MailTypeOK
<1> HIDE DEF m
<1>3. /\ AccountInv' /\ InviterInv' /\ link' = link
      /\ \A j \in Links : Wanted(j)' <=> Wanted(j)
  BY <1>1, AccountsRest
<1>4. MailTypeOK'
  BY <1>1, <1>2, <1>3 DEF MailTypeOK, AccountInv
<1>5. MessageInv'
  BY <1>1, <1>2, <1>3 DEF MessageInv, MailTypeOK
<1>6. WorkerInv'
  BY <1>1, <1>3 DEF WorkerInv
<1> QED
  BY <1>3, <1>4, <1>5, <1>6

LEMMA LeaseInv ==
  ASSUME MailInv, NEW w \in Workers, NEW i \in Links, Lease(w, i)
  PROVE  MailInv'
<1> DEFINE n == IF mail[i].attempts = MaxAttempts THEN MaxAttempts ELSE mail[i].attempts + 1
           m == Row("pending", FALSE, w, n)
           s == [pc |-> "leased", link |-> i]
<1>1. /\ mail' = [mail EXCEPT ![i] = m] /\ worker' = [worker EXCEPT ![w] = s]
      /\ link[i].state # "unissued" /\ UNCHANGED <<vars, accepted>>
  BY DEF Lease, MailInv, MailTypeOK
<1>2. n \in 0 .. MaxAttempts
  <2>1. mail[i].attempts \in 0 .. MaxAttempts
    BY DEF MailInv, MailTypeOK, Message
  <2> QED
    BY <2>1, MailAssumption
<1> HIDE DEF n
<1>3. m \in Message /\ m.state = "pending"
  BY <1>2 DEF Row, Message
<1>4. s \in Step /\ s.pc = "leased" /\ s.link = i
  BY AccountsAssumption DEF Step, Links
<1>5. accepted \subseteq Links
  BY DEF MailInv, MailTypeOK
<1> HIDE DEF m, s
<1> QED
  BY <1>1, <1>3, <1>4, <1>5, OutboxMoves

\* A step of a worker that leaves its message alone.
LEMMA WorkerMoves ==
  ASSUME MailInv, UNCHANGED <<vars, mail>>,
         NEW w \in Workers, NEW s, worker' = [worker EXCEPT ![w] = s],
         worker[w].pc # "idle",
         accepted \subseteq accepted', accepted' \subseteq Links,
         s \in Step,
         s.pc # "idle" => s.link = worker[w].link,
         s.pc = "invalid" => ~ Wanted(s.link),
         s.pc = "acknowledge" => s.link \in accepted'
  PROVE  MailInv'
<1> DEFINE i == worker[w].link
<1>1. i \in Links /\ link[i].state # "unissued"
  BY DEF MailInv, WorkerInv
<1>2. mail' = [mail EXCEPT ![i] = mail[i]]
  BY <1>1 DEF MailInv, MailTypeOK
<1> HIDE DEF i
<1>3. s.pc # "idle" => s.link = i
  BY DEF i
<1> QED
  BY <1>1, <1>2, <1>3, OutboxMoves

\* finish changes the row only for the holder of the lease, whose message is
\* pending.
LEMMA FinishInv ==
  ASSUME MailInv, UNCHANGED vars,
         NEW w \in Workers, NEW state \in {"pending", "sent", "discarded", "failed"},
         Finish(w, state), worker[w].pc # "idle",
         accepted \subseteq accepted', accepted' \subseteq Links,
         state = "sent" => worker[w].link \in accepted,
         state = "discarded" => ~ Wanted(worker[w].link),
         state = "failed" => mail[worker[w].link].attempts = MaxAttempts
  PROVE  MailInv'
<1> DEFINE i == worker[w].link
           r == Row(state, FALSE, NoWorker, mail[i].attempts)
           m == IF mail[i].lease = w THEN r ELSE mail[i]
<1>1. i \in Links /\ link[i].state # "unissued"
  BY DEF MailInv, WorkerInv
<1>2. mail' = [mail EXCEPT ![i] = m] /\ worker' = [worker EXCEPT ![w] = Idle]
  BY DEF Finish
<1>3. r \in Message /\ r.state = state /\ r.lease = NoWorker /\ r.attempts = mail[i].attempts
  BY <1>1 DEF Row, Message, MailInv, MailTypeOK
<1>4. Idle \in Step /\ Idle.pc = "idle"
  BY AccountsAssumption DEF Idle, Step
<1>5. /\ state = "sent" => i \in accepted
      /\ state = "discarded" => ~ Wanted(i)
      /\ state = "failed" => mail[i].attempts = MaxAttempts
  OBVIOUS
<1> HIDE DEF i, r
<1>6. m = mail[i] \/ m = r
  OBVIOUS
<1> HIDE DEF m
<1> QED
  BY <1>1, <1>2, <1>3, <1>4, <1>5, <1>6, OutboxMoves

LEMMA WorkerProgressInv ==
  ASSUME MailInv, NEW w \in Workers, WorkerProgress(w) \/ WorkerStops(w)
  PROVE  MailInv'
<1>1. CASE CheckLink(w)
  <2> DEFINE s == [pc   |-> IF LinkIsGood(worker[w].link) THEN "send" ELSE "invalid",
                   link |-> worker[w].link]
  <2>1. worker' = [worker EXCEPT ![w] = s] /\ worker[w].pc # "idle" /\ UNCHANGED <<vars, mail, accepted>>
    BY <1>1 DEF CheckLink
  <2>2. s \in Step /\ s.link = worker[w].link /\ s.pc \in {"send", "invalid"}
    BY DEF Step, MailInv, MailTypeOK
  <2>3. s.pc = "invalid" => ~ Wanted(s.link)
    BY DEF Wanted
  <2>4. accepted \subseteq Links
    BY DEF MailInv, MailTypeOK
  <2> HIDE DEF s
  <2> QED
    BY <2>1, <2>2, <2>3, <2>4, WorkerMoves
<1>2. CASE Discard(w)
  BY <1>2, FinishInv DEF Discard, MailInv, MailTypeOK, WorkerInv
<1>3. CASE Send(w)
  <2> DEFINE s == [pc |-> "acknowledge", link |-> worker[w].link]
  <2>1. /\ worker' = [worker EXCEPT ![w] = s] /\ worker[w].pc # "idle" /\ UNCHANGED <<vars, mail>>
        /\ accepted' = accepted \cup {worker[w].link}
    BY <1>3 DEF Send
  <2>2. s \in Step /\ s.link = worker[w].link /\ s.pc = "acknowledge"
    BY DEF Step, MailInv, MailTypeOK
  <2>3. accepted \subseteq Links /\ worker[w].link \in Links
    BY <2>1 DEF MailInv, MailTypeOK, WorkerInv
  <2> HIDE DEF s
  <2> QED
    BY <2>1, <2>2, <2>3, WorkerMoves
<1>4. CASE SendFails(w)
  <2> DEFINE state == IF mail[worker[w].link].attempts = MaxAttempts THEN "failed" ELSE "pending"
  <2>1. /\ Finish(w, state) /\ worker[w].pc # "idle" /\ UNCHANGED vars
        /\ accepted' \in {accepted, accepted \cup {worker[w].link}}
    BY <1>4 DEF SendFails
  <2>2. /\ state \in {"pending", "failed"}
        /\ state = "failed" => mail[worker[w].link].attempts = MaxAttempts
    OBVIOUS
  <2>3. accepted \subseteq accepted' /\ accepted' \subseteq Links
    BY <2>1 DEF MailInv, MailTypeOK, WorkerInv
  <2> HIDE DEF state
  <2> QED
    BY <2>1, <2>2, <2>3, FinishInv
<1>5. CASE Acknowledge(w)
  BY <1>5, FinishInv DEF Acknowledge, MailInv, MailTypeOK, WorkerInv
<1>6. CASE WorkerStops(w)
  <2>1. Idle \in Step /\ Idle.pc = "idle"
    BY AccountsAssumption DEF Idle, Step
  <2>2. CASE worker[w].pc = "idle"
    <3>1. UNCHANGED <<vars, mail, accepted>> /\ worker' = [worker EXCEPT ![w] = Idle]
      BY <1>6 DEF WorkerStops
    <3>2. /\ AccountInv' /\ InviterInv' /\ link' = link
          /\ \A j \in Links : Wanted(j)' <=> Wanted(j)
      BY <3>1, AccountsRest
    <3> QED
      BY <2>1, <2>2, <3>1, <3>2 DEF MailInv, MailTypeOK, AccountInv, MessageInv, WorkerInv
  <2>3. CASE worker[w].pc # "idle"
    BY <1>6, <2>1, <2>3, WorkerMoves DEF WorkerStops, MailInv, MailTypeOK
  <2> QED
    BY <2>2, <2>3
<1>7. CASE \E i \in Links : Lease(w, i)
  BY <1>7, LeaseInv
<1> QED
  BY <1>1, <1>2, <1>3, <1>4, <1>5, <1>6, <1>7 DEF WorkerProgress

LEMMA MailStepInv == MailInv /\ [MailNext]_allVars => MailInv'
<1> SUFFICES ASSUME MailInv, [MailNext]_allVars
             PROVE  MailInv'
  OBVIOUS
<1>1. CASE UNCHANGED allVars
  <2>1. UNCHANGED <<vars, mail, accepted, worker>>
    BY <1>1 DEF allVars, mailVars
  <2>2. /\ AccountInv' /\ InviterInv' /\ link' = link
        /\ \A j \in Links : Wanted(j)' <=> Wanted(j)
    BY <2>1, AccountsRest
  <2> QED
    BY <2>1, <2>2 DEF MailInv, MailTypeOK, AccountInv, MessageInv, WorkerInv
<1>2. CASE AccountStep
  BY <1>2, AccountStepInv DEF AccountStep
<1> QED
  BY <1>1, <1>2, BecomesDueInv, WorkerProgressInv DEF MailNext

-----------------------------------------------------------------------------
(* AccountMail: the theorems.                                              *)

\* The invariant holds of the accounts, the outbox and its workers.
THEOREM MailInvariance == MailSpec => []MailInv
BY MailInitInv, MailStepInv, PTL DEF MailSpec

\* The variables keep their types, and exactly the links that were issued have a
\* message (AccountMail).
THEOREM MailTypeCorrect == MailSpec => []MailTypeOK
BY MailInvariance, PTL DEF MailInv

\* No crash, lost lease or stale check drops the message of a link that somebody
\* could still use, for any number of workers (DeliverOne, finish).
THEOREM UsableLinksAreMailed == MailSpec => []UsableLinkIsMailed
<1>1. ASSUME MailInv, NEW i \in Links, Wanted(i)
      PROVE  \/ mail[i].state = "pending"
             \/ i \in accepted
             \/ mail[i].state = "failed" /\ mail[i].attempts = MaxAttempts
  <2>1. mail[i].state # "none"
    BY <1>1 DEF MailInv, MailTypeOK, Wanted, LinkIsGood, Acceptable, LiveClientInvitation, Pending
  <2>2. mail[i].state \in {"pending", "sent", "discarded", "failed"}
    BY <2>1, <1>1 DEF MailInv, MailTypeOK, Message
  <2> QED
    BY <1>1, <2>2 DEF MailInv, MessageInv
<1>2. MailInv => UsableLinkIsMailed
  BY <1>1 DEF UsableLinkIsMailed, Wanted
<1> QED
  BY <1>2, MailInvariance, PTL
=============================================================================
