----------------------------------- MODULE Alerts -----------------------------------
(***************************************************************************)
(* Notifications of one workspace (backend/app: services/alerts.py, and    *)
(* the housekeeping of worker.py): a run that ends, a probe of the engine  *)
(* or a missed schedule raises an alert, unless the rules or an equal      *)
(* notification say no. What a transaction raises is seen at its commit.   *)
(* Nothing here reads whether a notification was acknowledged.             *)
(***************************************************************************)
EXTENDS Integers, FiniteSets, TLC

CONSTANTS
  Watched,      \* the workflows of the workspace
  Scheduled,    \* those that have a schedule
  Anything,     \* the workflow_id of a rule for the whole workspace, or of no workflow
  Codes,        \* error codes of failed runs
  SignInCodes,  \* those that say that a credential is no longer good
  GivenRules,   \* rules a user may set: event, workflow, cooldown and threshold
  Raisers,      \* loops of the workers that end runs or keep house
  MaxStreak,    \* bound on counted failures (the code counts the last 20 runs)
  MaxDay,       \* bound on the clock
  MaxRounds    \* bound on the changes of rules and the rounds of housekeeping

Events == {"EXECUTION_FAILED", "CONSECUTIVE_FAILURES", "CREDENTIAL_INVALID",
           "ENGINE_DEGRADED", "SCHEDULE_MISSED"}
AlertRules == [event : Events, workflow : Watched \cup {Anything}, cooldown : Nat,
               threshold : Nat \ {0}]

ASSUME AlertsAssumption ==
  /\ Anything \notin Watched /\ Scheduled \subseteq Watched
  /\ SignInCodes \subseteq Codes
  /\ GivenRules \subseteq AlertRules
  /\ MaxStreak \in Nat /\ MaxDay \in Nat /\ MaxRounds \in Nat

VARIABLES
  day,      \* the clock
  rules,    \* alert_rules that are enabled
  notes,    \* notifications: the dedup key and created_at
  streak,   \* failures of each workflow since a run that succeeded or was cancelled
  engine,   \* engine_instances.status
  raising,  \* per loop: the transaction that has evaluated and not committed
  ended,    \* the failed run whose end was committed last, and how it was evaluated
  rounds

alertVars == <<day, rules, notes, streak, engine, raising, ended, rounds>>

NotRaising == [kind |-> "none"]
NoFailure == [kind |-> "none"]

\* upsert_rule keeps one rule for an event and a workflow.
Unique(r, s) == <<r.event, r.workflow>> = <<s.event, s.workflow>> => r = s

AlertsInit ==
  /\ day = 1
  /\ rules \in {R \in SUBSET GivenRules : \A r, s \in R : Unique(r, s)}
  /\ notes = {}
  /\ streak = [f \in Watched |-> 0]
  /\ engine = "HEALTHY"
  /\ raising = [l \in Raisers |-> NotRaising]
  /\ ended = NoFailure
  /\ rounds = 0

----------------------------------------------------------------------------
(* raise_alert *)

ALWAYS_ON == {"EXECUTION_FAILED", "CREDENTIAL_INVALID"}
DEFAULT_COOLDOWN == 1

\* Without a rule, what an event is worth.
DefaultRule(event) ==
  [event |-> event, cooldown |-> DEFAULT_COOLDOWN, threshold |-> 3,
   workflow |-> IF event \in ALWAYS_ON THEN Anything ELSE "none"]

For(event) == {r \in rules : r.event = event}

\* The one rule the query picks: its order puts the rules of a workflow, whichever it is,
\* before the one for all.
Picks(event) ==
  LET specific == {r \in For(event) : r.workflow # Anything}
  IN CASE For(event) = {} -> {DefaultRule(event)}
       [] specific # {} -> specific
       [] OTHER -> For(event)

Silences(rule, f) == rule.workflow \notin {Anything, f}

\* A fault to detect: the error code is left out of the fingerprint.
DedupKeyWithoutPart(event, f, part) == [event |-> event, workflow |-> f, part |-> "any"]

DedupKey(event, f, part) == [event |-> event, workflow |-> f, part |-> part]

\* What is added to the notifications that are committed: none while an equal one is inside
\* the cooldown.
Raised(rule, f, part) ==
  LET key == DedupKey(rule.event, f, part)
      recent == \E n \in notes : n.key = key /\ n.at >= day - rule.cooldown
  IN IF Silences(rule, f) \/ recent THEN {} ELSE {[key |-> key, about |-> part, at |-> day]}

----------------------------------------------------------------------------
(* Loops of the workers *)

Threshold == {IF For("CONSECUTIVE_FAILURES") = {} THEN 3 ELSE r.threshold :
                r \in Picks("CONSECUTIVE_FAILURES") \cup For("CONSECUTIVE_FAILURES")}

EndedBy(l, f) == raising[l].kind = "run" /\ raising[l].workflow = f

\* evaluate_execution of a failed run, in the transaction that records its end. The other runs
\* of the workflow have ended.
EvaluateFailure(l, f, code) ==
  LET count == streak[f] + 1
  IN /\ raising[l] = NotRaising /\ ~ \E m \in Raisers : EndedBy(m, f)
     /\ count <= MaxStreak
     /\ \E failed \in Picks("EXECUTION_FAILED"), often \in Picks("CONSECUTIVE_FAILURES"),
           signIn \in Picks("CREDENTIAL_INVALID"), threshold \in Threshold :
          raising' = [raising EXCEPT ![l] =
            [kind |-> "run", workflow |-> f, code |-> code, at |-> day,
             cooldown |-> failed.cooldown, silenced |-> Silences(failed, f),
             raised |-> Raised(failed, f, code)
                        \cup (IF count >= threshold
                              THEN Raised(often, f, ToString(count \div threshold)) ELSE {})
                        \cup (IF code \in SignInCodes THEN Raised(signIn, f, "any") ELSE {})]]
     /\ UNCHANGED <<day, rules, notes, streak, engine, ended, rounds>>

\* A run succeeds, or a user cancels it.
EndWell(f) ==
  /\ streak[f] > 0 /\ ~ \E m \in Raisers : EndedBy(m, f)
  /\ streak' = [streak EXCEPT ![f] = 0]
  /\ UNCHANGED <<day, rules, notes, engine, raising, ended, rounds>>

\* _probe_engine, when it finds the engine no longer healthy.
EngineAlerts(rule, status) ==
  IF status # "HEALTHY" /\ engine = "HEALTHY" THEN Raised(rule, Anything, status) ELSE {}

\* _alert_missed_schedules
MissedAlerts(rule, missed) == UNION {Raised(rule, f, f) : f \in missed}

\* A round of housekeeping, before its commit.
KeepHouse(l, status, missed) ==
  /\ raising[l] = NotRaising /\ rounds < MaxRounds /\ rounds' = rounds + 1
  /\ \E degraded \in Picks("ENGINE_DEGRADED"), late \in Picks("SCHEDULE_MISSED") :
       raising' = [raising EXCEPT ![l] =
         [kind |-> "house", status |-> status,
          raised |-> EngineAlerts(degraded, status) \cup MissedAlerts(late, missed)]]
  /\ UNCHANGED <<day, rules, notes, streak, engine, ended>>

\* The transaction of the run's end.
CommitEnd(l) ==
  LET r == raising[l]
  IN /\ r.kind = "run"
     /\ notes' = notes \cup r.raised
     /\ streak' = [streak EXCEPT ![r.workflow] = @ + 1]
     /\ ended' = [r EXCEPT !.raised = {}]
     /\ raising' = [raising EXCEPT ![l] = NotRaising]
     /\ UNCHANGED <<day, rules, engine, rounds>>

CommitHouse(l) ==
  /\ raising[l].kind = "house"
  /\ notes' = notes \cup raising[l].raised
  /\ engine' = raising[l].status
  /\ raising' = [raising EXCEPT ![l] = NotRaising]
  /\ UNCHANGED <<day, rules, streak, ended, rounds>>

\* An error or a restart: the run's end is found again by a later poll.
Abandon(l) ==
  /\ raising[l] # NotRaising
  /\ raising' = [raising EXCEPT ![l] = NotRaising]
  /\ UNCHANGED <<day, rules, notes, streak, engine, ended, rounds>>

----------------------------------------------------------------------------
(* Requests *)

\* upsert_rule
UpsertRule(rule) ==
  /\ rounds < MaxRounds /\ rounds' = rounds + 1
  /\ rules' = {r \in rules : Unique(r, rule)} \cup {rule}
  /\ UNCHANGED <<day, notes, streak, engine, raising, ended>>

\* delete_rule, or upsert_rule with enabled off
DeleteRule(rule) ==
  /\ rule \in rules /\ rounds < MaxRounds /\ rounds' = rounds + 1
  /\ rules' = rules \ {rule}
  /\ UNCHANGED <<day, notes, streak, engine, raising, ended>>

DayPasses ==
  /\ day < MaxDay
  /\ day' = day + 1
  /\ UNCHANGED <<rules, notes, streak, engine, raising, ended, rounds>>

AlertsNext ==
  \/ \E l \in Raisers :
       \/ \E f \in Watched, code \in Codes : EvaluateFailure(l, f, code)
       \/ \E status \in {"HEALTHY", "DEGRADED"}, missed \in SUBSET Scheduled :
            KeepHouse(l, status, missed)
       \/ CommitEnd(l) \/ CommitHouse(l) \/ Abandon(l)
  \/ \E f \in Watched : EndWell(f)
  \/ \E rule \in GivenRules : UpsertRule(rule)
  \/ \E rule \in rules : DeleteRule(rule)
  \/ DayPasses

AlertsSpec == AlertsInit /\ [][AlertsNext]_alertVars

----------------------------------------------------------------------------
(* Properties *)

\* Somebody was told of this failure, by its own notification or an equal one inside the
\* cooldown.
Told(e) ==
  \E n \in notes : /\ n.key.event = "EXECUTION_FAILED" /\ n.key.workflow = e.workflow
                   /\ n.about = e.code
                   /\ n.at \in e.at - e.cooldown .. e.at

\* A failed run is told of, for the reason it failed, however loops overlap, transactions are
\* rolled back and evaluated again, and rules change; a failure for a
\* new reason inside the cooldown of the old one as well. Except where a rule that names
\* another workflow is picked.
ToldUnlessSilenced == ended # NoFailure => ended.silenced \/ Told(ended)
=============================================================================
