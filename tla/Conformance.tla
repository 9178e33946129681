---------------------------- MODULE Conformance ----------------------------
(***************************************************************************)
(* The conformance harness (crates/sp-proc/src/conform.rs): a stage nobody *)
(* here wrote is configured, run over standard and added groups through    *)
(* one instance, run again through the same and through a fresh one, and   *)
(* run once more after a cancellation; every broken promise is a finding.  *)
(*                                                                         *)
(* A stage is what it does, and it may keep state: between calls of one    *)
(* instance (`drift`, `tires`) or across instances.                        *)
(***************************************************************************)
EXTENDS Integers

CONSTANTS Cases, First,          \* the groups, the first that no stage need refuse
          Stages,                \* behaviours, see StageType
          Waivable               \* checks a run may skip

VARIABLES stage, skipped,
          phase,                 \* "begin", "cases", "cancel" or "report"
          left,                  \* groups still to be tried
          calls,                 \* process calls answered by the instance in service
          found                  \* findings: <<check, case>>
conVars == <<stage, skipped, phase, left, calls, found>>

Answers == {"produces", "errs", "panics"}
StageType(s) ==
  /\ s.described \in BOOLEAN                        \* is the descriptor coherent
  /\ s.configure \in {"ok", "lax", "rejects", "once"}   \* lax: takes an undeclared parameter,
                                                    \* once: no instance after the first is set up
  /\ DOMAIN s.answer = Cases
  /\ \A c \in Cases : s.answer[c] \in Answers
  /\ s.covers \in BOOLEAN /\ s.ports \in BOOLEAN    \* accounts for each signal, keeps its ports
  /\ s.pure \in BOOLEAN
  /\ s.drift \in {"none", "calls", "instances", "salt"}   \* what its output depends on besides
  /\ s.tires \in BOOLEAN                            \* errs from the second call of an instance on
  /\ s.heeds \in {"heeds", "ignores", "panics"}     \* once cancelled

ConInit == /\ stage \in Stages /\ skipped \in SUBSET Waivable /\ phase = "begin"
           /\ left = Cases /\ calls = 0 /\ found = {}
\* attempt, on the call after `before` ones of an instance.
Attempt(c, before) == IF stage.answer[c] = "produces" /\ stage.tires /\ before > 0 THEN "errs"
                      ELSE stage.answer[c]
\* digest: what is produced, told apart by the call and the instance where the stage is.
Digest(c, before, instance) ==
  CASE stage.drift = "calls" -> <<c, before>>
    [] stage.drift = "instances" -> <<c, instance>>
    [] OTHER -> <<c, 0>>
Runs(check) == check \notin skipped
Given(check, broken, c) == IF Runs(check) /\ broken THEN {<<check, c>>} ELSE {}

Begin ==
  /\ phase = "begin"
  /\ LET told == Given("declaration", ~stage.described, "")
                 \cup Given("configuration", stage.configure = "lax", "")
     IN \/ /\ stage.configure = "rejects"       \* configured: nothing else can be asked
           /\ found' = told \cup {<<"configuration", "">>} /\ phase' = "report"
        \/ /\ stage.configure # "rejects" /\ found' = told /\ phase' = "cases"
  /\ UNCHANGED <<stage, skipped, left, calls>>

\* determinism_findings: again through this instance, then through a fresh one, which may
\* refuse to be configured; that is a finding whatever was waived.
SlipUnsteady(c) == Attempt(c, calls + 1) = "produces" /\ Digest(c, calls + 1, 1) # Digest(c, calls, 1)
Refreshed == stage.configure # "once"
Unsteady(c) ==
  \/ Attempt(c, calls + 1) = "produces" /\ Digest(c, calls + 1, 1) # Digest(c, calls, 1)
  \/ Refreshed /\ Attempt(c, 0) = "produces" /\ Digest(c, 0, 2) # Digest(c, calls, 1)
  \/ Refreshed /\ stage.drift = "salt"
Unset == IF Refreshed THEN {} ELSE {<<"configuration", "">>}
Asked == Runs("determinism") /\ stage.pure
Unsurvived(c) == {<<"survival", c>>}
Try(c) ==
  /\ phase = "cases" /\ c \in left /\ left' = left \ {c}
  /\ \/ /\ Attempt(c, calls) = "panics" /\ found' = found \cup Unsurvived(c)
        /\ calls' = calls + 1
     \/ Attempt(c, calls) = "errs" /\ calls' = calls + 1 /\ UNCHANGED found
     \/ /\ Attempt(c, calls) = "produces"
        /\ found' = found \cup Given("contract", ~stage.covers, c)
                    \cup Given("ports", ~stage.ports, c)
                    \cup Given("determinism", stage.pure /\ Unsteady(c), c)
                    \cup (IF Asked THEN Unset ELSE {})
        /\ calls' = IF Asked THEN calls + 2 ELSE calls + 1
  /\ UNCHANGED <<stage, skipped, phase>>
Tried == /\ phase = "cases" /\ left = {} /\ phase' = "cancel"
         /\ UNCHANGED <<stage, skipped, left, calls, found>>

CancelFindings(c) ==
  CASE stage.heeds = "heeds" -> {}
    [] \/ stage.heeds = "panics"
       \/ stage.heeds = "ignores" /\ Attempt(c, 0) = "panics" -> Unsurvived(c)
    [] OTHER -> {<<"cancellation", c>>}
Cancel == /\ phase = "cancel" /\ phase' = "report"
          /\ found' = found \cup (IF ~Runs("cancellation") THEN {}
                                 ELSE IF Refreshed THEN CancelFindings(First) ELSE Unset)
          /\ UNCHANGED <<stage, skipped, left, calls>>
ConNext == Begin \/ Tried \/ Cancel \/ \E c \in Cases : Try(c)
ConSpec == ConInit /\ [][ConNext]_conVars

----------------------------------------------------------------------------
\* Types; a check that was waived finds nothing, but a stage that cannot be configured or panics
\* is reported whatever was waived.
ConTypeOK ==
  /\ StageType(stage) /\ left \subseteq Cases
  /\ \A f \in found : f[1] \in {"survival", "configuration"} \/ f[1] \notin skipped

Conforms == phase = "report" /\ found = {}

\* Nothing is waived and nothing found: the stage never panics on these groups, accounts for its
\* signals and ports, stops when cancelled and, declared pure, repeats itself through this
\* instance and through a fresh one.  One that answers a first call and errs from then on may pass:
\* an error is a legitimate answer, and a second answer is compared only if there is one.
PassIsEarned ==
  (Conforms /\ skipped = {}) =>
    /\ stage.described /\ stage.configure = "ok" /\ \A c \in Cases : stage.answer[c] # "panics"
    /\ (~stage.tires /\ \E c \in Cases : stage.answer[c] = "produces") =>
         /\ stage.covers /\ stage.ports /\ (stage.pure => stage.drift = "none")
    /\ stage.heeds = "heeds"

Good(s) == /\ s.described /\ s.configure = "ok" /\ \A c \in Cases : s.answer[c] # "panics"
           /\ s.covers /\ s.ports /\ (s.pure => s.drift = "none") /\ s.heeds = "heeds"

\* A stage that keeps its promises is found nothing against, errors it may answer included.
GoodStagesPass == Good(stage) => found = {}
=============================================================================
