-------------------------- MODULE MCSettingsStore --------------------------
(* A value is a set of names.  Two writers add their name, a third adds it *)
(* unless the first is there already (as create_key does with key ids), a  *)
(* fourth stores the set with its own name alone.                          *)
EXTENDS SettingsStore
CONSTANTS w1, w2, w3, w4

MCAbsent == {}
MCValue == SUBSET Writer \ {MCAbsent}
MCRefused == {"refused"}
MCChange(w, v) ==
  IF w \in Setter THEN {w}
  ELSE IF w = w3 /\ w1 \in v THEN Refused
  ELSE v \cup {w}
=============================================================================
