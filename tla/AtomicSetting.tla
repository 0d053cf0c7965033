--------------------------- MODULE AtomicSetting ---------------------------
(***************************************************************************)
(* What the settings store promises the modules that keep a JSON value in  *)
(* it (vault credentials, signing keys, node keys, schedules): each change *)
(* is one indivisible step on the value as it is then, or no step at all;  *)
(* and a change that refuses, refuses the value as it is then.             *)
(***************************************************************************)
CONSTANTS
  Writer,        \* requests that change the value
  Value,
  Absent,        \* the value of a key that was never written: no element of Value
  Refused,       \* a change that raises instead of returning a value
  Change(_, _)   \* Change(w, v): what w's change makes of the value v, or Refused

VARIABLES
  val,       \* the stored value
  outcome    \* outcome[w]: "open", "stored", "refused", or "void" (ended with no write)

settingVars == <<val, outcome>>

SInit == val = Absent /\ outcome = [w \in Writer |-> "open"]

End(w, how) == outcome[w] = "open" /\ outcome' = [outcome EXCEPT ![w] = how]

Store(w) ==
  /\ Change(w, val) # Refused
  /\ val' = Change(w, val)
  /\ End(w, "stored")

Refuse(w) == Change(w, val) = Refused /\ End(w, "refused") /\ UNCHANGED val

Void(w) == End(w, "void") /\ UNCHANGED val

SNext == \E w \in Writer : Store(w) \/ Refuse(w) \/ Void(w)

SSpec == SInit /\ [][SNext]_settingVars
=============================================================================
