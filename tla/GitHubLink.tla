----------------------------- MODULE GitHubLink -----------------------------
(***************************************************************************)
(* Connecting a project to a repository: an owner starts an OAuth attempt, *)
(* GitHub sends the browser back, the portal exchanges the code, the owner *)
(* selects a repository and the connection is saved.                       *)
(* (internal/portal/github_link.go, github_connections.go, github_http.go) *)
(*                                                                         *)
(* The database keeps one pending state and one completion per project;    *)
(* the browser flows live in the portal's memory.  Every call to GitHub is *)
(* made without a lock, so that attempts overlap: attempt k is the k-th    *)
(* one that was started.                                                   *)
(***************************************************************************)
EXTENDS Naturals, FiniteSets

CONSTANT MaxLinks          \* bound: attempts

ASSUME LinkAssumption == MaxLinks \in Nat

Links == 1 .. MaxLinks
NoLink == 0

VARIABLES
  begun,        \* attempts started so far
  linkState,    \* github_link_states: the attempt whose state is stored
  completion,   \* github_link_completions: the attempt with a receipt
  starts,       \* githubFlows.starts: attempts waiting for the callback
  selection,    \* githubFlows.selections: the attempt that may select
  request,      \* the HTTP request in progress for each attempt
  connected,    \* github_connections: the attempt behind it, or NoLink
  revision,     \* its revision
  entitled      \* ghost: the attempt that may still connect

linkVars == <<begun, linkState, completion, starts, selection, request, connected,
              revision, entitled>>

LinkInit == /\ begun = 0
            /\ linkState = NoLink /\ completion = NoLink
            /\ starts = {} /\ selection = NoLink
            /\ request = [k \in Links |-> "none"]
            /\ connected = NoLink /\ revision = 0
            /\ entitled = NoLink

\* A new flow replaces every flow of the project; disconnecting removes them.
StartFlow(k) == starts' = {k} /\ selection' = NoLink
ClearFlows == starts' = {} /\ selection' = NoLink

\* POST /api/github/start, all of it under the lock of the flows.  The state
\* is stored before the authorisation URL is made, which may fail.
BeginGitHubLink ==
  /\ begun < MaxLinks
  /\ begun' = begun + 1
  /\ linkState' = begun + 1
  /\ completion' = NoLink
  /\ entitled' = begun + 1
  /\ \/ StartFlow(begun + 1)
     \/ UNCHANGED <<starts, selection>>
  /\ UNCHANGED <<request, connected, revision>>

\* POST /api/github/callback takes the flow out of memory ...
TakeCallback(k) ==
  /\ k \in starts /\ request[k] = "none"
  /\ starts' = starts \ {k}
  /\ request' = [request EXCEPT ![k] = "returned"]
  /\ UNCHANGED <<begun, linkState, completion, selection, connected, revision, entitled>>

\* ... consumes the stored state, if it is still that of this attempt ...
ConsumeGitHubLink(k) ==
  /\ request[k] = "returned"
  /\ IF linkState = k
     THEN /\ linkState' = NoLink /\ completion' = k
          /\ request' = [request EXCEPT ![k] = "exchanging"]
     ELSE /\ request' = [request EXCEPT ![k] = "none"]
          /\ UNCHANGED <<linkState, completion>>
  /\ UNCHANGED <<begun, starts, selection, connected, revision, entitled>>

\* githubCompletionCurrent
CompletionCurrent(k) == completion = k

\* ... exchanges the code, and keeps the token only for a current completion.
KeepSelection(k) ==
  /\ request[k] = "exchanging"
  /\ request' = [request EXCEPT ![k] = "none"]
  /\ selection' = IF CompletionCurrent(k) THEN k ELSE selection
  /\ UNCHANGED <<begun, linkState, completion, starts, connected, revision, entitled>>

\* POST /api/github/connect reads the selection and asks GitHub for access ...
ReadSelection(k) ==
  /\ selection = k /\ request[k] = "none"
  /\ request' = [request EXCEPT ![k] = "verifying"]
  /\ UNCHANGED <<begun, linkState, completion, starts, selection, connected, revision, entitled>>

\* Mutant: the connection is saved with whatever completion is stored.
CompletionStored(k) == completion # NoLink

\* The receipt of exactly this attempt is there to be consumed.
CompletionOf(k) == completion = k

\* ... and saves the connection, consuming the completion.
SaveConnection(k) ==
  /\ request[k] = "verifying"
  /\ IF CompletionOf(k)
     THEN /\ completion' = NoLink
          /\ connected' = k /\ revision' = revision + 1
          /\ entitled' = NoLink
          /\ request' = [request EXCEPT ![k] = "saved"]
     ELSE /\ request' = [request EXCEPT ![k] = "none"]
          /\ UNCHANGED <<completion, connected, revision, entitled>>
  /\ UNCHANGED <<begun, linkState, starts, selection>>

\* The saved selection is forgotten, unless it is already another one.
ForgetSelection(k) ==
  /\ request[k] = "saved"
  /\ request' = [request EXCEPT ![k] = "none"]
  /\ selection' = IF selection = k THEN NoLink ELSE selection
  /\ UNCHANGED <<begun, linkState, completion, starts, connected, revision, entitled>>

\* GitHub refuses the code or the repository, or does not answer.
ProviderFails(k) ==
  /\ request[k] \in {"exchanging", "verifying"}
  /\ request' = [request EXCEPT ![k] = "none"]
  /\ UNCHANGED <<begun, linkState, completion, starts, selection, connected, revision, entitled>>

\* POST /api/github/disconnect, under the lock of the flows.
DisconnectProject ==
  /\ connected # NoLink
  /\ linkState' = NoLink /\ completion' = NoLink
  /\ connected' = NoLink /\ revision' = revision + 1
  /\ ClearFlows
  /\ entitled' = NoLink
  /\ UNCHANGED <<begun, request>>

\* Ten minutes pass: rows are no longer accepted and flows are cleaned up.
LinkExpires ==
  /\ \/ linkState' = NoLink /\ UNCHANGED completion
     \/ completion' = NoLink /\ UNCHANGED linkState
  /\ ClearFlows
  /\ UNCHANGED <<begun, request, connected, revision, entitled>>

\* The portal restarts: tokens and requests are gone, the rows stay.
PortalRestarts ==
  /\ ClearFlows
  /\ request' = [k \in Links |-> "none"]
  /\ UNCHANGED <<begun, linkState, completion, connected, revision, entitled>>

LinkNext == \/ BeginGitHubLink \/ DisconnectProject \/ LinkExpires \/ PortalRestarts
            \/ \E k \in Links : \/ TakeCallback(k) \/ ConsumeGitHubLink(k) \/ KeepSelection(k)
                                \/ ReadSelection(k) \/ SaveConnection(k) \/ ForgetSelection(k)
                                \/ ProviderFails(k)

LinkSpec == LinkInit /\ [][LinkNext]_linkVars

\* A connection is saved only from the attempt that was started last, only
\* if nobody disconnected the project since, and once: a late answer from
\* GitHub never replaces or restores a connection (SaveGitHubConnection).
LateLinkLoses ==
  [][\A k \in Links : revision' # revision /\ connected' = k => entitled = k]_linkVars
=============================================================================
