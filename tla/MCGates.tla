------------------------------- MODULE MCGates -------------------------------
(***************************************************************************)
(* What stands between a visitor and a probe besides the counters: the     *)
(* probe guard, and the admission of a target.  They share no key, so one  *)
(* run explores each of them, and "topic" says which one moves.            *)
(*                                                                         *)
(* Two strikes make a block of two ticks and the next one lasts three; one *)
(* host is excluded by the environment, the others by one operator.        *)
(***************************************************************************)
EXTENDS StrikeGuard, Admission, TLC

CONSTANTS w1, w2, w3, v1, v2, v3, h1, h2, h3, o1

VARIABLE topic

GatesInit ==
    /\ topic \in {"probe guard", "admission"}
    /\ Init
    /\ AdmissionInit
    /\ topic = "probe guard" => target = [v \in Visitors |-> h2]

GatesNext ==
    \/ topic = "probe guard" /\ Next /\ UNCHANGED <<topic, admissionVars>>
    \/ topic = "admission" /\ AdmissionNext /\ UNCHANGED <<topic, vars>>

GatesSpec == GatesInit /\ [][GatesNext]_<<topic, vars, admissionVars>>

Symmetry == Permutations(Strikers) \cup Permutations(Visitors)
=============================================================================
