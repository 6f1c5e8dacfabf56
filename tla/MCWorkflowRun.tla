---------------------------- MODULE MCWorkflowRun ----------------------------
(* Instances of WorkflowRun for TLC: workflows of two steps. *)
EXTENDS WorkflowRun

(* The steps the parser and prepareWorkflow let through: @for-each and      *)
(* @when belong to request steps.  The second step has no condition and     *)
(* no expected status, which concern one step alone.                        *)
MCSteps == {s \in StepSpecs : s.kind = "branch" => s.each = "none" /\ ~s.when}
MCPlans == {<<s, t>> : s \in MCSteps, t \in {u \in MCSteps : ~u.when /\ ~u.expect}}
=============================================================================
