--------------------------- MODULE ProjectDeletion ---------------------------
(***************************************************************************)
(* What a website holds outside the portal, and how it is given back: the  *)
(* enrolment of websites in the fleet (deploy/fleet/provision-projects.py),*)
(* the routes of custom domains (internal/portal/custom_domains.go,        *)
(* deploy/fleet/reconcile-domains.py) and the deletion of a website        *)
(* (internal/portal/project_deletions.go, deploy/fleet/delete-projects.py).*)
(*                                                                         *)
(* Three programs started by timers share the resources under two lock     *)
(* files, the portal changes its rows at any time, and every program may   *)
(* fail or stop at any step.  The websites are Node websites, which hold   *)
(* most, and want the same custom hostname.                                *)
(***************************************************************************)
EXTENDS Naturals, FiniteSets

CONSTANTS
  Websites,         \* projects
  FleetMax,         \* FLEET_MAX_PROJECTS
  MaxRemovalFaults  \* bound: failed steps, waits that ran out and stops

ASSUME RemovalAssumption == FleetMax \in Nat /\ MaxRemovalFaults \in Nat

VARIABLES
  project,     \* "live", "deleting" (deletion_requested_at > 0) or "gone"
  job,         \* websites with a queued or running job
  row,         \* project_domains.state of the website's hostname
  route,       \* objects of the custom route in the cluster
  held,        \* what the website has outside the database
  loaded,      \* websites the fleet worker started with
  applied,     \* provision-applied.json: websites of the last recorded restart
  provisioner, \* the pass of provision-projects.py under way
  reconciler,  \* the pass of reconcile-domains.py under way
  deleter,     \* the pass of delete-projects.py under way
  upsets       \* faults so far

removalVars == <<project, job, row, route, held, loaded, applied, provisioner,
                 reconciler, deleter, upsets>>

\* files: builder configuration and dependencies; builder: its service; app: the
\* deployer's app with its ingress and certificate; fleet: the assignment in
\* worker.json; portal: those in the portal's files.
Resources == {"files", "builder", "app", "fleet", "portal"}
RouteObjects == {"ingress", "certificate"}

\* Where a program is, what it has still to do, and what it has taken up.
Pass(at, todo, new) == [at |-> at, todo |-> todo, new |-> new]

NoPass == Pass("rest", {}, {})

RemovalTypeOK ==
  /\ project \in [Websites -> {"live", "deleting", "gone"}]
  /\ job \subseteq Websites
  /\ row \in [Websites -> {"none", "pending", "verified", "active", "removing"}]
  /\ route \in [Websites -> SUBSET RouteObjects]
  /\ held \in [Websites -> SUBSET Resources]
  /\ loaded \subseteq Websites /\ applied \subseteq Websites
  /\ provisioner \in [at   : {"rest", "prepare", "portal", "restart", "record"},
                      todo : SUBSET Websites, new : SUBSET Websites]
  /\ reconciler \in [at   : {"rest", "route", "issue", "state", "ingress", "certificate", "row"},
                     todo : SUBSET Websites, new : {{}}]
  /\ deleter \in [at   : {"rest", "waiting", "next", "ingress", "certificate", "row", "builder",
                          "app", "fleet", "portal", "restart", "files", "purge"},
                  todo : SUBSET Websites, new : SUBSET Websites]
  /\ upsets \in Nat

RemovalInit ==
  /\ project = [p \in Websites |-> "live"]
  /\ job = {}
  /\ row = [p \in Websites |-> "none"]
  /\ route = [p \in Websites |-> {}]
  /\ held = [p \in Websites |-> {}]
  /\ loaded = {} /\ applied = {}
  /\ provisioner = NoPass /\ reconciler = NoPass /\ deleter = NoPass
  /\ upsets = 0

Assigned == {p \in Websites : "fleet" \in held[p]}
DropRoute(p, x) == route' = [route EXCEPT ![p] = @ \ {x}]
Drop(p, x) == held' = [held EXCEPT ![p] = @ \ {x}]

-----------------------------------------------------------------------------
(* The portal.                                                             *)

\* A publication, build or deployment is queued, and settled by the fleet.
EnqueueJob(p) ==
  /\ project[p] = "live" /\ p \notin job
  /\ job' = job \cup {p}
  /\ UNCHANGED <<project, row, route, held, loaded, applied, provisioner,
                 reconciler, deleter, upsets>>

\* The fleet worker puts the release into service, with the ingress.
SettleJob(p) ==
  /\ p \in job /\ p \in loaded
  /\ job' = job \ {p}
  /\ held' = [held EXCEPT ![p] = @ \cup {"app"}]
  /\ UNCHANGED <<project, row, route, loaded, applied, provisioner, reconciler,
                 deleter, upsets>>

RemovingRows(p) == row' = [row EXCEPT ![p] = IF @ = "none" THEN @ ELSE "removing"]

\* DeleteProject, by an owner: refused while a job is queued or running.
DeleteProject(p) ==
  /\ project[p] = "live" /\ p \notin job
  /\ project' = [project EXCEPT ![p] = "deleting"]
  /\ RemovingRows(p)
  /\ UNCHANGED <<job, route, held, loaded, applied, provisioner, reconciler,
                 deleter, upsets>>

\* CreateCustomDomain: a hostname has one row at most.
CreateCustomDomain(p) ==
  /\ project[p] = "live"
  /\ \A q \in Websites : row[q] = "none"
  /\ row' = [row EXCEPT ![p] = "pending"]
  /\ UNCHANGED <<project, job, route, held, loaded, applied, provisioner,
                 reconciler, deleter, upsets>>

\* CustomDomainWriteAccess, before the DNS is asked.
MayChangeDomain(p) == project[p] = "live" /\ row[p] # "none"

\* VerifyCustomDomain looks again, with DNS answers that match.
VerifyCustomDomain(p) ==
  /\ MayChangeDomain(p) /\ row[p] = "pending"
  /\ row' = [row EXCEPT ![p] = "verified"]
  /\ UNCHANGED <<project, job, route, held, loaded, applied, provisioner,
                 reconciler, deleter, upsets>>

RemoveCustomDomain(p) ==
  /\ row[p] \notin {"none", "removing"}
  /\ row' = [row EXCEPT ![p] = "removing"]
  /\ UNCHANGED <<project, job, route, held, loaded, applied, provisioner,
                 reconciler, deleter, upsets>>

-----------------------------------------------------------------------------
(* provision-projects.py                                                   *)

ProvisionLockFree == provisioner.at = "rest" /\ deleter.at = "rest"

\* eligible, read once.
BeginProvision ==
  /\ ProvisionLockFree
  /\ provisioner' = Pass("prepare", {p \in Websites : project[p] = "live"}, {})
  /\ UNCHANGED <<project, job, row, route, held, loaded, applied, reconciler,
                 deleter, upsets>>

\* A website already assigned everywhere is passed over, and so is one the fleet
\* has no place for.
Enrolls(p) ==
  /\ ~({"fleet", "portal"} \subseteq held[p])
  /\ p \in Assigned \/ Cardinality(Assigned \cup provisioner.new) < FleetMax

PrepareWebsite(p) ==
  /\ provisioner.at = "prepare" /\ p \in provisioner.todo
  /\ IF Enrolls(p)
     THEN /\ held' = [held EXCEPT ![p] = @ \cup {"files", "builder"}]
          /\ provisioner' = Pass("prepare", provisioner.todo \ {p}, provisioner.new \cup {p})
     ELSE /\ provisioner' = Pass("prepare", provisioner.todo \ {p}, provisioner.new)
          /\ UNCHANGED held
  /\ UNCHANGED <<project, job, row, route, loaded, applied, reconciler, deleter,
                 upsets>>

\* worker.json is replaced first, then the portal's files.
WriteAssignments ==
  /\ provisioner.todo = {}
  /\ \E at \in {"prepare", "portal"} :
       /\ provisioner.at = at
       /\ provisioner' = Pass(IF at = "prepare" THEN "portal" ELSE "restart", {}, provisioner.new)
       /\ held' = [p \in Websites |->
                     IF p \in provisioner.new
                     THEN held[p] \cup {IF at = "prepare" THEN "fleet" ELSE "portal"}
                     ELSE held[p]]
  /\ UNCHANGED <<project, job, row, route, loaded, applied, reconciler, deleter,
                 upsets>>

\* The worker is restarted unless the fingerprint says that it was ...
RestartWorker ==
  /\ provisioner.at = "restart"
  /\ IF applied = Assigned
     THEN provisioner' = NoPass /\ UNCHANGED loaded
     ELSE provisioner' = Pass("record", {}, {}) /\ loaded' = Assigned
  /\ UNCHANGED <<project, job, row, route, held, applied, reconciler, deleter, upsets>>

\* ... and the fingerprint is written after it.
RecordRestart ==
  /\ provisioner.at = "record"
  /\ applied' = Assigned
  /\ provisioner' = NoPass
  /\ UNCHANGED <<project, job, row, route, held, loaded, reconciler, deleter, upsets>>

-----------------------------------------------------------------------------
(* reconcile-domains.py                                                    *)

\* Mutant: a row being removed is not listed.
ListedLive(p) == row[p] \in {"verified", "active"}

Listed(p) == row[p] \in {"verified", "active", "removing"}

\* The rows and their states are read once.
BeginReconcile ==
  /\ reconciler.at = "rest" /\ deleter.at \in {"rest", "waiting"}
  /\ \E p \in Websites :
       /\ Listed(p)
       /\ reconciler' = Pass(IF row[p] = "removing" THEN "ingress" ELSE "route", {p}, {})
  /\ UNCHANGED <<project, job, row, route, held, loaded, applied, provisioner,
                 deleter, upsets>>

\* The next object of a row read as removing, and at last the row.
RemoveRoute(p, pass) ==
  \/ /\ pass.at \in RouteObjects
     /\ DropRoute(p, pass.at)
     /\ UNCHANGED row
  \/ /\ pass.at = "row"
     /\ row' = [row EXCEPT ![p] = IF @ = "removing" THEN "none" ELSE @]
     /\ UNCHANGED route

NextRemoval(at) ==
  IF at = "ingress" THEN "certificate" ELSE IF at = "certificate" THEN "row" ELSE "rest"

ReconcileRemoval ==
  \E p \in reconciler.todo :
    /\ RemoveRoute(p, reconciler)
    /\ reconciler' = IF reconciler.at = "row" THEN NoPass
                     ELSE [reconciler EXCEPT !.at = NextRemoval(@)]
    /\ UNCHANGED <<project, job, held, loaded, applied, provisioner, deleter, upsets>>

\* conflict: some other ingress of the cluster has the hostname.
RouteConflict ==
  \E p \in reconciler.todo :
    /\ reconciler.at = "route"
    /\ row' = [row EXCEPT ![p] = IF @ = "active" THEN "verified" ELSE @]
    /\ reconciler' = NoPass
    /\ UNCHANGED <<project, job, route, held, loaded, applied, provisioner,
                   deleter, upsets>>

\* The ingress is applied if the website has one to route to ...
ApplyIngress ==
  \E p \in reconciler.todo :
    /\ reconciler.at = "route"
    /\ \A q \in Websites \ {p} : "ingress" \notin route[q]
    /\ IF "app" \in held[p]
       THEN /\ route' = [route EXCEPT ![p] = @ \cup {"ingress"}]
            /\ reconciler' = [reconciler EXCEPT !.at = "issue"]
       ELSE reconciler' = NoPass /\ UNCHANGED route
    /\ UNCHANGED <<project, job, row, held, loaded, applied, provisioner, deleter,
                   upsets>>

\* ... then the certificate ...
ApplyCertificate ==
  \E p \in reconciler.todo :
    /\ reconciler.at = "issue"
    /\ route' = [route EXCEPT ![p] = @ \cup {"certificate"}]
    /\ reconciler' = [reconciler EXCEPT !.at = "state"]
    /\ UNCHANGED <<project, job, row, held, loaded, applied, provisioner, deleter,
                   upsets>>

\* ... and the state recorded, of a row that is still wanted.
RecordRoute(state) ==
  \E p \in reconciler.todo :
    /\ reconciler.at = "state"
    /\ row' = [row EXCEPT ![p] = IF @ \in {"verified", "active"} THEN state ELSE @]
    /\ reconciler' = NoPass
    /\ UNCHANGED <<project, job, route, held, loaded, applied, provisioner,
                   deleter, upsets>>

-----------------------------------------------------------------------------
(* delete-projects.py                                                      *)

\* wait_for_lock: provision.lock, and with it held, domains.lock.  A pass that
\* finds nothing to delete is left out.
BeginDeletion ==
  /\ ProvisionLockFree /\ deleter.at = "rest"
  /\ \E p \in Websites : project[p] = "deleting"
  /\ deleter' = Pass("waiting", {}, {})
  /\ UNCHANGED <<project, job, row, route, held, loaded, applied, provisioner,
                 reconciler, upsets>>

\* Mutant: the deletion worker does not take domains.lock.
DomainsLockIgnored == TRUE

DomainsLockFree == reconciler.at = "rest"

\* The locks were not free for 20 seconds.  The reconciler rests for 30 between
\* its passes: this happens, and counts as a fault.
DeferDeletion ==
  /\ deleter.at = "waiting" /\ ~DomainsLockFree /\ upsets < MaxRemovalFaults
  /\ deleter' = NoPass
  /\ upsets' = upsets + 1
  /\ UNCHANGED <<project, job, row, route, held, loaded, applied, provisioner,
                 reconciler>>

\* The websites to delete, in turn; a failure of one does not stop the others.
ListDeletions ==
  /\ deleter.at = "waiting" /\ DomainsLockFree
  /\ deleter' = Pass("next", {p \in Websites : project[p] = "deleting"}, {})
  /\ UNCHANGED <<project, job, row, route, held, loaded, applied, provisioner,
                 reconciler, upsets>>

NextDeletion ==
  /\ deleter.at = "next"
  /\ \/ deleter.todo = {} /\ deleter' = NoPass /\ UNCHANGED row
     \/ \E p \in deleter.todo :
          /\ p \notin job
          /\ RemovingRows(p)
          /\ deleter' = Pass(IF row[p] = "none" THEN "builder" ELSE "ingress",
                             deleter.todo \ {p}, {p})
  /\ UNCHANGED <<project, job, route, held, loaded, applied, provisioner,
                 reconciler, upsets>>

\* reconcile_row of the website's domain.
DeleteRoute ==
  \E p \in deleter.new :
    /\ RemoveRoute(p, deleter)
    /\ deleter' = [deleter EXCEPT !.at = IF @ = "row" THEN "builder" ELSE NextRemoval(@)]
    /\ UNCHANGED <<project, job, held, loaded, applied, provisioner, reconciler, upsets>>

\* remove_builder, "deployer delete" with remove_primary_tls, the assignments, and
\* last, after the restart, remove_private_files.
DeletionStep(at) ==
  IF at = "builder" THEN "app"
  ELSE IF at = "app" THEN "fleet"
  ELSE IF at = "fleet" THEN "portal"
  ELSE IF at = "portal" THEN "restart"
  ELSE IF at = "restart" THEN "files" ELSE "purge"

DeleteResource ==
  \E p \in deleter.new :
    /\ deleter.at \in Resources
    /\ Drop(p, deleter.at)
    /\ deleter' = [deleter EXCEPT !.at = DeletionStep(@)]
    /\ UNCHANGED <<project, job, row, route, loaded, applied, provisioner,
                   reconciler, upsets>>

RestartReduced ==
  /\ deleter.at = "restart"
  /\ loaded' = Assigned
  /\ deleter' = [deleter EXCEPT !.at = DeletionStep(@)]
  /\ UNCHANGED <<project, job, row, route, held, applied, provisioner, reconciler,
                 upsets>>

\* purge_records, which looks at the jobs and the domains again.
PurgeRecords ==
  \E p \in deleter.new :
    /\ deleter.at = "purge"
    /\ p \notin job /\ row[p] = "none"
    /\ project' = [project EXCEPT ![p] = "gone"]
    /\ deleter' = Pass("next", deleter.todo, {})
    /\ UNCHANGED <<job, row, route, held, loaded, applied, provisioner, reconciler,
                   upsets>>

\* A step of the deletion fails: an error is noted for the owner.
DeletionFails ==
  /\ deleter.new # {} /\ upsets < MaxRemovalFaults
  /\ deleter' = Pass("next", deleter.todo, {})
  /\ upsets' = upsets + 1
  /\ UNCHANGED <<project, job, row, route, held, loaded, applied, provisioner,
                 reconciler>>

-----------------------------------------------------------------------------
\* One of the programs stops, or fails with its pass: its locks are released.
ProgramStops ==
  /\ upsets < MaxRemovalFaults
  /\ \/ /\ provisioner # NoPass /\ provisioner' = NoPass
        /\ UNCHANGED <<reconciler, deleter>>
     \/ /\ reconciler # NoPass /\ reconciler' = NoPass
        /\ UNCHANGED <<provisioner, deleter>>
     \/ /\ deleter # NoPass /\ deleter' = NoPass
        /\ UNCHANGED <<provisioner, reconciler>>
  /\ upsets' = upsets + 1
  /\ UNCHANGED <<project, job, row, route, held, loaded, applied>>

ProvisionProceeds ==
  \/ \E p \in Websites : PrepareWebsite(p)
  \/ WriteAssignments \/ RestartWorker \/ RecordRestart

ReconcileProceeds ==
  \/ ReconcileRemoval \/ RouteConflict \/ ApplyIngress \/ ApplyCertificate
  \/ \E s \in {"verified", "active"} : RecordRoute(s)

DeletionProceeds ==
  NextDeletion \/ DeleteRoute \/ DeleteResource \/ RestartReduced \/ PurgeRecords

RemovalNext ==
  \/ \E p \in Websites :
       \/ EnqueueJob(p) \/ SettleJob(p) \/ DeleteProject(p)
       \/ CreateCustomDomain(p) \/ VerifyCustomDomain(p) \/ RemoveCustomDomain(p)
  \/ BeginProvision \/ BeginReconcile \/ BeginDeletion \/ ListDeletions
  \/ ProvisionProceeds \/ ReconcileProceeds \/ DeletionProceeds
  \/ DeferDeletion \/ DeletionFails \/ ProgramStops

RemovalSpec == RemovalInit /\ [][RemovalNext]_removalVars

\* The timers start every program again and again.  The deletion worker asks for
\* its locks every quarter second for 20 seconds while the other two hold them
\* for moments: it gets them at some time, however often they are taken.
RemovalFairness ==
  /\ WF_removalVars(ProvisionProceeds)
  /\ WF_removalVars(ReconcileProceeds)
  /\ WF_removalVars(DeletionProceeds)
  /\ WF_removalVars(BeginReconcile)
  /\ SF_removalVars(BeginDeletion \/ ListDeletions)

-----------------------------------------------------------------------------
(* Properties.                                                             *)

\* NothingOutlivesItsRecord: whatever the programs and the owners do at the same
\* time, a route never outlives the row of its domain, so that the hostname may
\* be given to another website, and nothing of a deleted website is left behind
\* (delete_one, reconcile_row, provision-projects.py and the two lock files).
NothingOutlivesItsRecord ==
  \A p \in Websites :
    /\ route[p] # {} => row[p] \in {"verified", "active", "removing"}
    /\ project[p] = "gone" =>
         held[p] = {} /\ p \notin loaded /\ p \notin job /\ row[p] = "none"

\* RemovalsComplete: a website whose deletion was requested is deleted, and a
\* domain that was removed loses its route, whatever failed on the way
\* (delete-projects.py, reconcile-domains.py).
RemovalsComplete ==
  []<>(\A p \in Websites : project[p] # "deleting" /\ row[p] # "removing")
=============================================================================
