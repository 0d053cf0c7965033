---------------------------- MODULE Housekeeping ----------------------------
(***************************************************************************)
(* The notifier together with the two background passes that speak through  *)
(* it (lifecycle.py): the entitlement pass, which announces an expiring     *)
(* license, and the corpus schedule, which announces a failing report.  The *)
(* third speaker is the plane: level pages and silences, an event of a slot. *)
(***************************************************************************)
EXTENDS Notifier, Licensing, Corpus

CONSTANTS LicenseSlot, CorpusSlot,   \* the slots of license_expiring and regression_failed
          InitialRows,               \* subscriptions stored before
          Routed                     \* hooks with a channel or a pattern: a paid feature

ASSUME HousekeepingAssumption ==
  /\ {LicenseSlot, CorpusSlot} \subseteq Slots /\ Routed \subseteq Hooks
  /\ \A list \in InitialRows :
       /\ list \in Seq([hook : Hooks, window : Windows])
       /\ \A i, j \in DOMAIN list : list[i].hook = list[j].hook => i = j

vars == <<notifierVars, licenseVars, corpusVars>>

Init ==
  /\ rows \in InitialRows
  /\ subs = Rehydrated
  /\ NotifierInit
  /\ LicensingInit
  /\ CorpusInit

NextNumber == 1 + Cardinality({o.n : o \in offers})

(* ---- requests ------------------------------------------------------------- *)

Subscribe(q, h, window) ==
  /\ h \in Routed => Entitled("team")
  /\ Ask(q, "subscribe", h, window)
  /\ UNCHANGED <<licenseVars, corpusVars>>

Unsubscribe(q, h) == Ask(q, "unsubscribe", h, 0) /\ UNCHANGED <<licenseVars, corpusVars>>

RequestStep(q) ==
  /\ StoreRow(q) \/ RegisterHook(q) \/ RefuseHook(q) \/ RemoveRows(q) \/ Forget(q)
  /\ UNCHANGED <<licenseVars, corpusVars>>

Paste(p) == up = "up" /\ PasteStep(p) /\ UNCHANGED <<notifierVars, corpusVars>>

(* The license is looked at when the request comes in.                       *)
Operator ==
  /\ up = "up"
  /\ \/ \E r \in PinnedRuns, side \in {"must_block", "must_pass"} : Pin(r, side)
     \/ \E i \in Intervals, c \in DOMAIN Configs, on \in BOOLEAN : Entitled("team") /\ PutSchedule(on, i, c)
  /\ UNCHANGED <<notifierVars, licenseVars>>

(* ---- the background -------------------------------------------------------- *)

Page(slot) == Emit(NextNumber, slot) /\ UNCHANGED <<licenseVars, corpusVars>>

Sweep == up # "down" /\ SweepStep /\ UNCHANGED <<notifierVars, corpusVars>>

TellExpiry == NoticeTold /\ Emit(NextNumber, LicenseSlot) /\ UNCHANGED corpusVars

Schedules == up # "down" /\ JobStep(Active) /\ UNCHANGED <<notifierVars, licenseVars>>

Alarm == Alarmed /\ Emit(NextNumber, CorpusSlot) /\ UNCHANGED licenseVars

Retention(r) == PruneRun(r) /\ UNCHANGED <<notifierVars, licenseVars>>

Task_(n, h) ==
  /\ \E t \in inFlight : t.n = n /\ t.hook = h /\ Deliver(t)
  /\ UNCHANGED <<licenseVars, corpusVars>>

(* ---- the process ------------------------------------------------------------ *)

ShutsDown == Drain /\ UNCHANGED <<licenseVars, corpusVars>>

Ends == Stops /\ LicensingStops /\ JobEnds

Starts == Boots /\ LoadLicenses /\ UNCHANGED corpusVars

Time ==
  \/ Passes /\ UNCHANGED <<licenseVars, corpusVars>>
  \/ Midnight /\ UNCHANGED <<notifierVars, corpusVars>>
  \/ HourPasses /\ UNCHANGED <<notifierVars, licenseVars>>

Next ==
  \/ \E q \in Requests, h \in Hooks :
       (\E w \in Windows : Subscribe(q, h, w)) \/ Unsubscribe(q, h)
  \/ \E q \in Requests : RequestStep(q)
  \/ \E p \in Pastes : Paste(p)
  \/ Operator
  \/ \E slot \in Slots \ {LicenseSlot, CorpusSlot} : Page(slot)
  \/ Sweep \/ TellExpiry
  \/ Schedules \/ Alarm
  \/ \E r \in PinnedRuns : Retention(r)
  \/ \E n \in 1..NextNumber, h \in Hooks : Task_(n, h)
  \/ ShutsDown \/ Ends \/ Starts
  \/ Time

Spec == Init /\ [][Next]_vars
=============================================================================
