---------------------------- MODULE MCScanClients ----------------------------
(* One scan, erased, expired or lost at any moment, and a client of it.     *)
EXTENDS ScanClients

CONSTANTS s1, h1

OneHost == [s \in Scans |-> h1]
=============================================================================
