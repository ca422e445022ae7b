----------------------------- MODULE StaticSite -----------------------------
(***************************************************************************)
(* The static runtime's release store (internal/staticsite), one site.     *)
(*                                                                         *)
(* A release is known by the SHA-256 of its ZIP, so a release here is that *)
(* hash.  The site's directory holds one ZIP per release and the file      *)
(* "active", a pointer to a release with the publication revision that put *)
(* it there.  A write is: write a temporary file, fsync it, rename it over *)
(* the target, fsync the directory.  A rename is visible at once, but only *)
(* the directory fsync makes it survive a power loss, so the module keeps  *)
(* what is visible (dir) apart from what a power loss may leave behind     *)
(* (survivors), and both apart from what the process serves (current).     *)
(*                                                                         *)
(* The site's mutex serialises publications; a publication is one action   *)
(* whose outcome is chosen among the places where its I/O can fail.  A     *)
(* process crash in the middle of a publication is one of those outcomes   *)
(* followed by Restart, a power cut one followed by PowerLoss.             *)
(***************************************************************************)
EXTENDS Naturals, FiniteSets

CONSTANTS
  Releases,     \* the archives' hashes
  NoRelease,    \* "no release is active"
  MaxReleases,  \* staticsite.MaxReleases
  MaxRevision   \* bound on publication revisions

ASSUME SiteAssumption ==
  /\ NoRelease \notin Releases
  /\ MaxReleases \in Nat \ {0}
  /\ MaxRevision \in Nat \ {0}

VARIABLES
  dir,        \* the directory the file system shows: [active, zips]
  survivors,  \* the directories a power loss may leave: the one of the last
              \* fsync and, in order, those after each rename since
  current     \* Site.current and Site.revision, what the process serves

siteVars == <<dir, survivors, current>>

Revisions == 0..MaxRevision
Pointer   == [rev : Revisions, rel : Releases \cup {NoRelease}]
NoPointer == [rev |-> 0, rel |-> NoRelease]
Directory == [active : Pointer, zips : SUBSET Releases]

SiteTypeOK ==
  /\ dir \in Directory
  /\ survivors \subseteq Directory
  /\ current \in Pointer

SiteInit ==
  /\ dir = [active |-> NoPointer, zips |-> {}]
  /\ survivors = {dir}
  /\ current = NoPointer

-----------------------------------------------------------------------------
\* Mutant: the revision is not checked.
NeverStale(rev) == FALSE

\* publish refuses a revision at or below the one it serves ...
Stale(rev) == current.rev > 0 /\ rev <= current.rev

\* ... except the very revision it serves, with the very same archive.
IsReplay(rev, rel) == current = [rev |-> rev, rel |-> rel] /\ current.rev > 0

\* A ZIP that is not stored yet needs room.
HasRoom(rel) == rel \in dir.zips \/ Cardinality(dir.zips) < MaxReleases

Stored(rel)        == [dir EXCEPT !.zips = @ \cup {rel}]
Activated(rev, rel) == [active |-> [rev |-> rev, rel |-> rel],
                        zips   |-> dir.zips \cup {rel}]

\* Mutant: a replay is acknowledged from memory.
ReplayUnsynced(rev, rel) ==
  /\ IsReplay(rev, rel)
  /\ UNCHANGED siteVars

\* A replay only syncs the directory; the caller is acknowledged.
ReplaySync(rev, rel) ==
  /\ IsReplay(rev, rel)
  /\ survivors' = {dir}
  /\ UNCHANGED <<dir, current>>

\* A new revision: the ZIP is stored and the pointer replaced, both durably.
\* The caller is acknowledged.
Activate(rev, rel) ==
  /\ ~Stale(rev)
  /\ HasRoom(rel)
  /\ dir' = Activated(rev, rel)
  /\ survivors' = {dir'}
  /\ current' = dir'.active

\* A new ZIP is renamed into place, and then its directory sync fails, or the
\* pointer cannot be replaced.  The caller gets an error.
StoreOnly(rev, rel) ==
  /\ ~Stale(rev)
  /\ HasRoom(rel)
  /\ rel \notin dir.zips
  /\ dir' = Stored(rel)
  /\ survivors' \in {survivors \cup {dir'}, {dir'}}
  /\ UNCHANGED current

\* The pointer is renamed into place and its directory sync fails (a new ZIP
\* was synced before it).  activate reads the pointer back and, if that works,
\* serves what it finds.  The caller gets an error.
ActivateUnsynced(rev, rel) ==
  /\ ~Stale(rev)
  /\ HasRoom(rel)
  /\ dir' = Activated(rev, rel)
  /\ survivors' = {dir'} \cup IF rel \in dir.zips THEN survivors ELSE {Stored(rel)}
  /\ current' \in {current, dir'.active}

\* The process stops and Open reads the pointer the file system shows.
Restart ==
  /\ current # dir.active
  /\ current' = dir.active
  /\ UNCHANGED <<dir, survivors>>

\* Power is lost: what has not been synced may or may not be there.
PowerLoss ==
  /\ survivors # {dir}
  /\ dir' \in survivors
  /\ survivors' = {dir'}
  /\ current' = dir'.active
=============================================================================
