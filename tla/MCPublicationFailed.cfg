SPECIFICATION Spec
CONSTANTS
  j1 = j1  j2 = j2  u1 = u1  u2 = u2  up1 = up1  up2 = up2
  r1 = r1  r2 = r2  w1 = w1  w2 = w2  k1 = k1  k2 = k2
  l1 = l1  l2 = l2
  None = None  NoRelease = NoRelease
  Jobs = {j1, j2}
  Uploads = {up1, up2}
  Keys = {k1, k2}
  Users = {u1, u2}
  Leases = {l1, l2}
  Workers = {w1}
  Releases = {r1, r2}
  SHA256 <- MCSHA256
  UploadLimit = 2
  MaxReleases = 2
  MaxRevision = 2
SYMMETRY Symmetry
INVARIANTS
  FailedIsNotApplied
