----------------------------- MODULE Licensing -----------------------------
(***************************************************************************)
(* One tenant's entitlement (licensing.py, ee/license.py): the license held *)
(* in memory, the row it is rebuilt from, the paste route                   *)
(* (routers/license_api.py) and the hourly pass that renews it and          *)
(* announces its expiry (license_sweep_once).  A license is signed by the   *)
(* vendor; what varies is whom it names, when it ends, its rung and fleet.  *)
(***************************************************************************)
EXTENDS Integers, FiniteSets, FiniteSetsExt

CONSTANTS Licenses, OrgOf, EndsOn, TierOf,
          Tiers,          \* rung -> its place in the order
          Org,            \* the organization this tenant must be named, or Unbound
          Unbound, None,
          EnvLicense,     \* the operator's pin, which wins at boot, or None
          Pastes,         \* requests to /verify
          NoticeDays,     \* EXPIRY_NOTICE_DAYS
          RenewalWindow   \* RENEWAL_WINDOW_DAYS

ASSUME LicensingAssumption ==
  /\ \A l \in Licenses : EndsOn[l] \in Nat /\ TierOf[l] \in DOMAIN Tiers
  /\ None \notin Licenses /\ None \notin [threshold : NoticeDays, ends : Nat]
  /\ EnvLicense \in Licenses \cup {None}
  /\ NoticeDays \subseteq Nat /\ RenewalWindow \in Nat
  /\ \E longest \in NoticeDays : \A d \in NoticeDays : d <= longest

VARIABLES day,      \* the UTC day
          stored,   \* the setting license_json
          held,     \* state.licenses[org]
          marker,   \* the setting license_expiry_notified: [threshold, ends], or None
          paste,    \* request -> [stage, lic]
          sweep     \* [stage, current, new, lic, left] of the pass

(* What happened, for the properties.                                       *)
VARIABLES told,     \* notices sent: {[threshold, ends, count]}
          again,    \* whether a license whose end had been announced came into force
          crossed,  \* whether two installs were under way at once
          torn      \* whether an install was cut or refused between its writes

licenseNotes == <<told, again, crossed, torn>>
licenseVars == <<day, stored, held, marker, paste, sweep, licenseNotes>>

Rest == [stage |-> "rest", current |-> None, new |-> None, left |-> 0]

(* What a boot puts in force: the pin, or the row.                          *)
Loaded == IF EnvLicense # None THEN EnvLicense ELSE stored

LicensingInit ==
  /\ day = 0
  /\ stored \in Licenses \cup {None}
  /\ held = Loaded
  /\ marker = None
  /\ paste = [p \in Pastes |-> [stage |-> "none", lic |-> None]]
  /\ sweep = Rest
  /\ told = {} /\ again = FALSE /\ crossed = FALSE /\ torn = FALSE

Expired(l) == day > EndsOn[l]
BindingError(l) == Org # Unbound /\ OrgOf[l] # Org
DaysUntil(l) == EndsOn[l] - day
Active == held # None /\ ~Expired(held)
TierAtLeast(l, rung) == Tiers[TierOf[l]] >= Tiers[rung]
Entitled(rung) == Active /\ TierAtLeast(held, rung)    \* require_ee

Installing ==
  {p \in Pastes : paste[p].stage \in {"storing", "holding"}} # {}

Renewing == sweep.stage \in {"fetching", "storing", "clearing", "holding"}

(* ---- /verify ------------------------------------------------------------- *)

Announced(l) == \E t \in told : t.ends = EndsOn[l]

LicenseVerify(p, l) ==
  /\ paste[p].stage = "none"
  /\ paste' = [paste EXCEPT ![p] = IF BindingError(l) \/ Expired(l) THEN [stage |-> "refused", lic |-> None]
                                                ELSE [stage |-> "storing", lic |-> l]]
  /\ crossed' = (crossed \/ (paste'[p].stage = "storing" /\ (Installing \/ Renewing)))
  /\ UNCHANGED <<day, stored, held, marker, sweep, told, again, torn>>

PasteStored(p) ==
  /\ paste[p].stage = "storing"
  /\ stored' = paste[p].lic
  /\ paste' = [paste EXCEPT ![p].stage = "holding"]
  /\ UNCHANGED <<day, held, marker, sweep, licenseNotes>>

PasteHeld(p) ==
  /\ paste[p].stage = "holding"
  /\ held' = paste[p].lic
  /\ paste' = [paste EXCEPT ![p] = [stage |-> "activated", lic |-> None]]
  /\ again' = (again \/ Announced(paste[p].lic))
  /\ UNCHANGED <<day, stored, marker, sweep, told, crossed, torn>>

(* ---- the pass: renewal first, then the notice ---------------------------- *)

RenewalDue == held # None /\ DaysUntil(held) <= RenewalWindow

SweepStarts ==
  /\ sweep.stage = "rest"
  /\ sweep' = IF RenewalDue THEN [Rest EXCEPT !.stage = "fetching", !.current = held]
              ELSE [Rest EXCEPT !.stage = "notice"]
  /\ crossed' = (crossed \/ (RenewalDue /\ Installing))
  /\ UNCHANGED <<day, stored, held, marker, paste, told, again, torn>>

RenewalRejected(l) ==
  \/ BindingError(l) \/ Expired(l)
  \/ EndsOn[l] < EndsOn[sweep.current]

(* The vendor has nothing, is out of reach or sends what does not verify    *)
(* (None), or a license, compared with the one the pass began with.         *)
Fetched(l) ==
  /\ sweep.stage = "fetching"
  /\ sweep' = IF l = None \/ (l # None /\ RenewalRejected(l))
              THEN [Rest EXCEPT !.stage = "notice"]
              ELSE [sweep EXCEPT !.stage = "storing", !.new = l]
  /\ UNCHANGED <<day, stored, held, marker, paste, licenseNotes>>

RenewalStored ==
  /\ sweep.stage = "storing"
  /\ stored' = sweep.new
  /\ sweep' = [sweep EXCEPT !.stage = "clearing"]
  /\ UNCHANGED <<day, held, marker, paste, licenseNotes>>

(* The old notice must not suppress one about the new end.                  *)
NoticeCleared ==
  /\ sweep.stage = "clearing"
  /\ marker' = None
  /\ sweep' = [sweep EXCEPT !.stage = "holding"]
  /\ UNCHANGED <<day, stored, held, paste, licenseNotes>>

BugRenewalFails ==     \* goes on with what it could not store
  /\ sweep.stage \in {"storing", "clearing"}
  /\ sweep' = [sweep EXCEPT !.stage = "holding"]
  /\ UNCHANGED <<day, stored, held, marker, paste, licenseNotes>>

(* Either write can fail: the license in force stays.                       *)
RenewalFails ==
  /\ sweep.stage \in {"storing", "clearing"}
  /\ torn' = (torn \/ sweep.stage = "clearing")
  /\ sweep' = [Rest EXCEPT !.stage = "notice"]
  /\ UNCHANGED <<day, stored, held, marker, paste, told, again, crossed>>

RenewalHeld ==
  /\ sweep.stage = "holding"
  /\ held' = sweep.new
  /\ again' = (again \/ Announced(sweep.new))
  /\ sweep' = [Rest EXCEPT !.stage = "notice"]
  /\ UNCHANGED <<day, stored, marker, paste, told, crossed, torn>>

(* notify_expiring: which threshold, then the stored mark, then the notice. *)
Threshold(left) == Min({d \in NoticeDays : left <= d})

NoticeLooked ==
  /\ sweep.stage = "notice"
  /\ sweep' = IF held = None \/ (held # None /\ DaysUntil(held) > Max(NoticeDays)) THEN Rest
              ELSE [Rest EXCEPT !.stage = "reading", !.current = held, !.left = DaysUntil(held)]
  /\ UNCHANGED <<day, stored, held, marker, paste, licenseNotes>>

Mark == [threshold |-> Threshold(sweep.left), ends |-> EndsOn[sweep.current]]

NoticeRead ==
  /\ sweep.stage = "reading"
  /\ sweep' = IF marker = Mark THEN Rest ELSE [sweep EXCEPT !.stage = "marking"]
  /\ UNCHANGED <<day, stored, held, marker, paste, licenseNotes>>

NoticeMarked ==
  /\ sweep.stage = "marking"
  /\ marker' = Mark
  /\ sweep' = [sweep EXCEPT !.stage = "telling"]
  /\ UNCHANGED <<day, stored, held, paste, licenseNotes>>

(* A write that fails ends the notice of this pass.                         *)
NoticeFails ==
  /\ sweep.stage = "marking"
  /\ sweep' = Rest
  /\ UNCHANGED <<day, stored, held, marker, paste, licenseNotes>>

TimesTold(mark) == Cardinality({t \in told : t.threshold = mark.threshold /\ t.ends = mark.ends})

(* The emission itself, which Housekeeping hands to the notifier.           *)
NoticeTold ==
  /\ sweep.stage = "telling"
  /\ told' = told \cup {[threshold |-> Mark.threshold, ends |-> Mark.ends, count |-> TimesTold(Mark)]}
  /\ sweep' = Rest
  /\ UNCHANGED <<day, stored, held, marker, paste, again, crossed, torn>>

(* ---- the process and the calendar ---------------------------------------- *)

Midnight == day' = day + 1 /\ UNCHANGED <<stored, held, marker, paste, sweep, licenseNotes>>

(* A stop cuts requests and the pass where they are.  It brings back an     *)
(* announced license when what the next boot loads is not what is in force  *)
(* or is being put in force.                                                *)
LicensingStops ==
  /\ held' = None
  /\ paste' = [p \in Pastes |->
       IF paste[p].stage \in {"storing", "holding"} THEN [stage |-> "cut", lic |-> None] ELSE paste[p]]
  /\ sweep' = Rest
  /\ again' = (again \/ (Loaded # None /\ Announced(Loaded) /\ (Loaded # held \/ sweep.stage = "holding")))
  /\ UNCHANGED <<day, stored, marker, told, crossed, torn>>

(* load_licenses: neither the end nor the name is looked at.                *)
LoadLicenses ==
  /\ held' = Loaded
  /\ crossed' = FALSE
  /\ torn' = FALSE
  /\ UNCHANGED <<day, stored, marker, paste, sweep, told, again>>

PasteStep(p) == (\E l \in Licenses : LicenseVerify(p, l)) \/ PasteStored(p) \/ PasteHeld(p)

SweepStep ==
  \/ SweepStarts
  \/ \E l \in Licenses \cup {None} : Fetched(l)
  \/ RenewalStored \/ NoticeCleared \/ RenewalFails \/ RenewalHeld
  \/ NoticeLooked \/ NoticeRead \/ NoticeMarked \/ NoticeFails

(* ------------------------------------------------------------------------ *)

LicensingTypeOK ==
  /\ {stored, held, sweep.current, sweep.new} \subseteq Licenses \cup {None}
  /\ marker # None => marker.threshold \in NoticeDays
  /\ Renewing => sweep.current # None
  /\ sweep.stage \in {"storing", "clearing", "holding"} => sweep.new # None

(* Once the installs at hand have ended, the license in force is the one    *)
(* the next restart loads, unless two installs crossed, a write failed      *)
(* between two, or the operator's pin overrides the row.                     *)
HeldIsStored ==
  /\ LicensingTypeOK
  /\ ~Installing /\ ~Renewing /\ ~crossed /\ ~torn /\ EnvLicense = None /\ held # None => held = stored

(* One notice per threshold of a license, over restarts and failing writes, *)
(* unless a license already announced came into force again.                *)
OneNoticePerThreshold ==
  \A s, t \in told : s.threshold = t.threshold /\ s.ends = t.ends /\ s # t => again

(* What a tenant is entitled to outlives its installs, and its end is       *)
(* announced once.                                                          *)
EntitlementIsKept == HeldIsStored /\ OneNoticePerThreshold

(* Not kept: the doc of notify_expiring (once per threshold crossed): a     *)
(* vendor that answers with the license in force clears the mark each time. *)
OneNoticeEver == \A s, t \in told : s.threshold = t.threshold /\ s.ends = t.ends => s = t

(* Not kept: renewal_rejection (renewal only moves forward).                *)
NeverBack ==
  [][ sweep.stage = "holding" /\ sweep'.stage = "notice" /\ held # None =>
        EndsOn[held'] >= EndsOn[held] ]_licenseVars
=============================================================================
