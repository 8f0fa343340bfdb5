-------------------------------- MODULE Merging --------------------------------
(***************************************************************************)
(* Values by name, put together: a name keeps the value of the first that  *)
(* has it.  The same as @@ and :> of TLC, which have no definition a proof *)
(* could use.                                                              *)
(***************************************************************************)

f ++ g == [c \in DOMAIN f \cup DOMAIN g |-> IF c \in DOMAIN f THEN f[c] ELSE g[c]]

Only(c, value) == [x \in {c} |-> value]

=============================================================================
