---------------------------- MODULE AbstractScan ----------------------------
(***************************************************************************)
(* What the web service promises the holder of a uuid, whatever runs       *)
(* behind it: a scan is queued, then running, then completed with a result *)
(* or failed without one, each state is left only forwards, and whatever   *)
(* the service forgets - by expiry or by an erasure - it never remembers.  *)
(* webapp/store.py states the parts of this promise in the docstrings of   *)
(* get and _transition; the OpenAPI description adds that completed and    *)
(* failed are final.                                                       *)
(***************************************************************************)
CONSTANTS Scans

VARIABLES view      \* "unknown", then the state each uuid is shown in, then "gone"

Init == view = [s \in Scans |-> "unknown"]

Move(s, from, to) ==
    /\ view[s] = from
    /\ view' = [view EXCEPT ![s] = to]

Register(s) == Move(s, "unknown", "queued")

Begin(s) == Move(s, "queued", "running")

Finish(s) == \E end \in {"completed", "failed"} : Move(s, "running", end)

Forget(s) ==
    /\ view[s] \notin {"unknown", "gone"}
    /\ view' = [view EXCEPT ![s] = "gone"]

Next == \E s \in Scans : Register(s) \/ Begin(s) \/ Finish(s) \/ Forget(s)

Spec == Init /\ [][Next]_view

=============================================================================
