--------------------------- MODULE MCUploadWorker ---------------------------
(* Instances of UploadWorker for TLC.                                       *)
EXTENDS UploadWorker, TLC

CONSTANTS g1, g2

\* Goroutine slots are interchangeable: no action names one.
WorkerSymmetry == Permutations({g1, g2})
=============================================================================
