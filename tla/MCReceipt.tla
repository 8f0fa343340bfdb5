-------------------------------- MODULE MCReceipt --------------------------------
(* One scan, and two hosts an erasure may be asked for.                     *)
EXTENDS ScanService

CONSTANTS s1, h1, h2

OneHost == [s \in Scans |-> h1]
=============================================================================
