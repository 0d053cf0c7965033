--------------------------- MODULE MCHousekeeping ---------------------------
(* One of four agendas at a time, and one restart; h3 lists a trigger of h1 *)
(* twice.                                                                   *)
EXTENDS Housekeeping
CONSTANTS h1, h2, h3, page, silence, notice, alarm, a, b, c, q1, q2, r1, r2, strict, loose

VARIABLE mc     \* [agenda, ends, puts]: the agenda, process ends, schedule writes
mcVars == <<vars, mc>>

MCWants == [h \in Hooks |-> Slots]
MCKeyOf == [h \in Hooks |-> IF h = h3 THEN h1 ELSE h]
MCUrlOf == [h \in Hooks |-> "url"]
MCRows == {<<>>, <<[hook |-> h1, window |-> 1]>>, <<[hook |-> h1, window |-> 1], [hook |-> h2, window |-> 0]>>}
MCOrgOf == [l \in Licenses |-> IF l = c THEN "other" ELSE "ours"]
MCEndsOn == [l \in Licenses |-> IF l = a THEN 1 ELSE 2]
MCTierOf == [l \in Licenses |-> IF l = a THEN "team" ELSE "security"]
MCTiers == [t \in {"community", "team", "security", "enterprise"} |->
  CASE t = "community" -> 0 [] t = "team" -> 1 [] t = "security" -> 2 [] OTHER -> 3]
MCTraces == [r \in {r1, r2} |->
  CASE r = r1 -> {[call |-> "x", verdict |-> "deny"], [call |-> "y", verdict |-> "pass"]}
    [] OTHER  -> {[call |-> "x", verdict |-> "pass"]}]
MCConfigs == [g \in {strict, loose} |-> IF g = strict THEN {"x", "y"} ELSE {"y"}]

On(agenda) == mc.agenda = agenda

Events == Cardinality({o.n : o \in offers})

(* The bounds of each agenda; what belongs to another one is at rest.       *)
Bounds ==
  /\ mc.ends <= 1
  /\ On("requests") => offers = {}
  /\ On("requests") \/ (asks[q2] = NoAsk /\ clock <= 2)
  /\ Events <= 2
  /\ ~On("events") => clock = 0 /\ letters = <<>> /\ \A t \in inFlight : t.kind = "deliver" /\ t.attempt = 1
  /\ ~On("license") => day = 0 /\ sweep = Rest /\ \A p \in Pastes : paste[p].stage = "none"
  /\ On("license") => day <= 2 /\ Events <= 2 /\ \A t \in told : t.count <= 1
  /\ ~On("corpus") => job = NoJob /\ sched = NoSchedule /\ hour = 0 /\ kept = PinnedRuns
                      /\ \A r \in PinnedRuns : pins[r] = "none"
  /\ On("corpus") => mc.puts <= 2 /\ hour <= 2 /\ Len(reports) <= 2 /\ Cardinality(PinnedRuns \ kept) <= 1
  /\ On("corpus") => /\ pins[r1] # "must_pass" /\ (mc.puts = 2 => pins[r2] # "must_block")
                     /\ sched # NoSchedule => (sched.interval = 1) = (sched.config = strict)
                                            /\ (sched.enabled \/ sched.interval = 1)
  /\ On("license") \/ On("corpus") => asks[q1] = NoAsk /\ \A o \in offers : o.slot \in {notice, alarm}
  /\ asks[q1].stage = "none" => asks[q2].stage = "none"
  /\ On("events") => asks[q1].op # "unsubscribe" /\ asks[q1].hook = h1 /\ (Len(rows) = 2 => asks[q1] = NoAsk)

(* What has nothing to do with a delivery waits for it: requests, passes,   *)
(* the calendar and pins.  Pages wait for requests.  Pins are set before    *)
(* the schedule is.                                                          *)
Waits ==
  /\ inFlight # {} => \/ asks' = asks /\ UNCHANGED <<licenseVars, corpusVars>>
                      \/ up' = "down"
  /\ (\E q \in Requests : InHand(q)) => offers' = offers
  /\ clock' # clock => inFlight = {} /\ up = "up" /\ \A q \in Requests : ~InHand(q)
  /\ day' # day => sweep.stage \in {"rest", "fetching", "reading"}
  /\ On("corpus") /\ up' # up => job # NoJob
  /\ On("license") /\ up = "up" /\ up' # up =>
       inFlight = {} /\ up' = "down" /\ (sweep # Rest \/ Installing)
  /\ \A r \in PinnedRuns : pins'[r] \notin {"none", pins[r]} => pins[r] = "none" /\ sched = NoSchedule

MCInit ==
  /\ mc \in [agenda : {"requests", "events", "license", "corpus"}, ends : {0}, puts : {0}]
  /\ Init
  /\ On("requests") => stored \in {None, a}
  /\ On("events") => stored = a
  /\ On("license") => stored \in {a, b}
  /\ On("corpus") => stored = b
  /\ Len(rows) = 0 <=> On("corpus")
  /\ Len(rows) = 2 => On("events")

MCNext ==
  /\ Next
  /\ mc' = [mc EXCEPT !.ends = IF up # "down" /\ up' = "down" THEN @ + 1 ELSE @,
                      !.puts = IF sched' # sched /\ job' = job THEN @ + 1 ELSE @]

MCSpec == MCInit /\ [][MCNext /\ Bounds' /\ Waits]_mcVars
=============================================================================
