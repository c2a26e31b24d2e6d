----------------------------- MODULE MCUploads -----------------------------
EXTENDS Uploads, TLC

\* One content of the right size and the wrong hash, and one of another size.
CONSTANTS o1, forged, short
Sizes1 == o1 :> 1 @@ forged :> 1 @@ short :> 2
Symmetry == Permutations(Repo) \cup Permutations(Call) \cup Permutations(UploadId)

Deployment(layout, transfer, verifyUploads, ops, contents, clients, gc) ==
  [layout |-> layout, transfer |-> transfer, verifyUploads |-> verifyUploads,
   ops |-> ops, contents |-> contents, clients |-> clients, gc |-> gc]

AllOps == {"upload", "verify", "complete"}

\* Proxy uploads with gc at work, and with contents that do not hash to the oid.
ProxyShared == {
  Deployment("shared", "proxy", TRUE, AllOps, {o1}, "any", TRUE),
  Deployment("shared", "proxy", TRUE, {"upload", "complete"}, {o1, forged}, "any", FALSE)}

\* Presigned uploads that the Worker checks, which clients call by the right size
\* and by the wrong one, and uploads that it takes as claims.
StagedShared == Deployment("shared", "presigned", TRUE, {"verify"}, {o1, short}, "calm", FALSE)
ClaimsShared == Deployment("shared", "presigned", FALSE, {"upload", "verify"}, {o1}, "any", FALSE)

\* A client that repeats a multipart complete.
Retries(layout) == Deployment(layout, "proxy", TRUE, {"complete"}, {o1, forged}, "alone", FALSE)

Deployments ==
  ProxyShared \cup {StagedShared, ClaimsShared, Retries("per-repo")}
SharedRetries == {Retries("shared")}
=============================================================================
