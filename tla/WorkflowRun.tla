----------------------------- MODULE WorkflowRun -----------------------------
(***************************************************************************)
(* internal/engine/core RunPlan: one workflow (or for-each) run, step by    *)
(* step, and what its two sinks make of it, the headless collector and the  *)
(* UI's workflowState.                                                      *)
(*                                                                         *)
(* A step of the model is one event sent to the sink or one call of the     *)
(* request engine (evaluate, list the items, execute), so that the context  *)
(* can be cancelled between any two of them.  Expressions, variables and    *)
(* requests are abstracted to what comes out of them; @if and @switch,      *)
(* which differ only in how they choose, are one kind of step.              *)
(***************************************************************************)
EXTENDS Naturals, Sequences

CONSTANTS Plans,    \* the workflows to run, as sequences of steps
          MaxItems  \* bound on the items of a for-each

(* each: no @for-each, one, or both the step's and the request's, which is  *)
(* an error; expect: the step states a status; stop: on-failure is not      *)
(* continue.                                                                *)
StepSpecs == [kind : {"request", "branch"}, each : {"none", "each", "clash"},
              when : BOOLEAN, expect : BOOLEAN, stop : BOOLEAN]

ASSUME PlanAssumption ==
    /\ MaxItems \in Nat
    /\ \A p \in Plans : p \in Seq(StepSpecs) /\ p # << >>

(* engine.RequestResult.  bad: an HTTP status of 400 or more; match: the    *)
(* status is the one the step expects; tests: all passed.  A stream without *)
(* a response is left out: ExecuteWith returns none.                        *)
Results == [skip : BOOLEAN, err : {"none", "failed", "canceled"},
            resp : {"none", "http", "grpc"}, script : BOOLEAN, tests : BOOLEAN,
            bad : BOOLEAN, match : BOOLEAN]
Blank == [skip |-> FALSE, err |-> "none", resp |-> "none", script |-> FALSE,
          tests |-> TRUE, bad |-> FALSE, match |-> FALSE]
Skipped == [Blank EXCEPT !.skip = TRUE]
Failed == [Blank EXCEPT !.err = "failed"]
(* What ExecuteWith returns: a skip, an error (a transport error may come   *)
(* with the response, and a stream the user closes ends with a canceled one *)
(* while the run goes on), or a response.                                   *)
Answers ==
    {Skipped} \cup [skip : {FALSE}, err : {"failed", "canceled"}, resp : {"none", "http", "grpc"},
                    script : {FALSE}, tests : {TRUE}, bad : {FALSE}, match : {FALSE}]
              \cup [skip : {FALSE}, err : {"none"}, resp : {"http", "grpc"},
                    script : BOOLEAN, tests : BOOLEAN, bad : BOOLEAN, match : BOOLEAN]

Outcomes == {"passed", "failed", "skipped", "canceled"}

VARIABLES
    plan,      \* the steps of the run
    ctx,       \* the context was cancelled
    pc,        \* where RunPlan is
    idx,       \* r.idx, from 1
    iter, total, \* the for-each iteration and the number of items, or 0
    manual,    \* the result was made up by the engine, not by a request
    res,       \* the result of the current step
    flags,     \* r.done, seen, skip, fail and canceled
    err,       \* an error was or will be returned by RunPlan
    steps,     \* the WfStepDone events sent, as the sinks evaluate them
    rundone    \* the RunDone event, if it was sent

vars == <<plan, ctx, pc, idx, iter, total, manual, res, flags, err, steps, rundone>>
loop == <<idx, iter, total>>
step == <<manual, res>>
out == <<steps, rundone>>

PCs == {"start", "loop", "request", "branch", "when", "spec", "items", "item", "itemwhen",
        "select", "stepstart", "reqstart", "exec", "reqdone", "stepdone", "finish", "exit"}
NotSent == [sent |-> FALSE, success |-> FALSE, skipped |-> FALSE, canceled |-> FALSE]

Init ==
    /\ plan \in Plans
    /\ ctx = FALSE /\ pc = "start"
    /\ idx = 1 /\ iter = 0 /\ total = 0
    /\ manual = FALSE /\ res = Blank
    /\ flags = [done |-> FALSE, seen |-> FALSE, skip |-> TRUE, fail |-> FALSE, canceled |-> FALSE]
    /\ err = FALSE
    /\ steps = << >> /\ rundone = NotSent

Cur == plan[idx]

-----------------------------------------------------------------------------
(* The outcome of a result, computed three times: by the engine ...         *)
EvalReq(s, r) ==
    IF r.skip THEN "skipped"
    ELSE IF r.err = "canceled" THEN "canceled"
    ELSE IF \/ r.err = "failed" \/ r.script \/ ~r.tests
            \/ s.expect /\ (r.resp = "none" \/ ~r.match)
            \/ r.resp = "none"
            \/ r.resp = "http" /\ r.bad /\ ~s.expect
         THEN "failed" ELSE "passed"

(* ... by the headless collector (workflowStatus of evaluateStep or, for a  *)
(* made up result, of manualStepRes) ...                                    *)
TransportOK(s, r) ==
    /\ r.err = "none"
    /\ \/ r.resp = "http" /\ (r.bad => s.expect)
       \/ r.resp = "grpc"
EvaluateStep(s, r) ==
    IF r.err = "canceled" /\ ~r.skip THEN "canceled"
    ELSE IF r.skip THEN "skipped"
    ELSE IF TransportOK(s, r) /\ ~r.script /\ r.tests /\ (s.expect => r.match) THEN "passed"
    ELSE "failed"

(* ... and by the UI, whose checks of the response look at the error, too.  *)
WorkflowResultFromRun(s, r) ==
    IF r.skip THEN "skipped"
    ELSE IF r.err = "canceled" THEN "canceled"
    ELSE IF /\ r.err = "none" /\ r.resp # "none"
            /\ ~(r.resp = "http" /\ r.bad /\ ~s.expect)
            /\ ~r.script /\ r.tests
            /\ s.expect => r.match
         THEN "passed" ELSE "failed"

-----------------------------------------------------------------------------
(* core.Emit: nothing is sent once the context is cancelled; the error then *)
(* goes up to RunPlan.                                                      *)
Emit(next) ==
    IF ctx THEN pc' = "finish" /\ err' = TRUE
           ELSE pc' = next /\ UNCHANGED err

(* run returns: the loop is left. *)
Stop(f) == pc' = "finish" /\ flags' = [f EXCEPT !.done = TRUE]
Canceled == [flags EXCEPT !.canceled = TRUE]

(* A result the engine makes up; manualFinish and emitManualStep send it. *)
Manual(r) == pc' = "stepstart" /\ manual' = TRUE /\ res' = r
Perform == pc' = "stepstart" /\ manual' = FALSE /\ UNCHANGED res

(* An evaluation fails: because of the cancel, or on its own. *)
EvalFails(advance) ==
    IF ctx
    THEN /\ Stop(Canceled)
         /\ idx' = IF advance THEN idx + 1 ELSE idx
         /\ UNCHANGED step
    ELSE Manual(Failed) /\ UNCHANGED <<flags, idx>>

EmitRunStart ==
    /\ pc = "start"
    /\ IF ctx THEN pc' = "exit" /\ err' = TRUE ELSE pc' = "loop" /\ UNCHANGED err
    /\ UNCHANGED <<plan, ctx, loop, step, flags, out>>

(* run: the next step, unless there is none or the context is cancelled. *)
Run ==
    /\ pc = "loop"
    /\ \/ idx > Len(plan) /\ Stop(flags)
       \/ idx <= Len(plan) /\ ctx /\ Stop(Canceled)
       \/ idx <= Len(plan) /\ ~ctx /\ pc' = Cur.kind /\ UNCHANGED flags
    /\ UNCHANGED <<plan, ctx, loop, step, err, out>>

(* runReqStep, runIf and runSwitch look at the context first. *)
RunStep ==
    /\ pc \in {"request", "branch"}
    /\ \/ ctx /\ Stop(Canceled)
       \/ ~ctx /\ pc' = (IF pc = "request" THEN "when" ELSE "select") /\ UNCHANGED flags
    /\ UNCHANGED <<plan, ctx, loop, step, err, out>>

(* @when of a step, and again of each item. *)
EvalCondition ==
    /\ pc \in {"when", "itemwhen"}
    /\ \/ /\ IF pc = "when" THEN pc' = "spec" /\ UNCHANGED step ELSE Perform
          /\ UNCHANGED <<flags, idx>>
       \/ Cur.when /\ Manual(Skipped) /\ UNCHANGED <<flags, idx>>
       \/ Cur.when /\ EvalFails(TRUE)
    /\ UNCHANGED <<plan, ctx, iter, total, err, out>>

WorkflowForEach ==
    /\ pc = "spec"
    /\ \/ Cur.each = "none" /\ Perform /\ UNCHANGED <<flags, idx>>
       \/ Cur.each = "clash" /\ EvalFails(TRUE)
       \/ Cur.each = "each" /\ pc' = "items" /\ UNCHANGED <<flags, idx, step>>
    /\ UNCHANGED <<plan, ctx, iter, total, err, out>>

(* The items; an error here does not ask whether the context is cancelled. *)
EvalForEachItems ==
    /\ pc = "items"
    /\ \/ (Manual(Failed) \/ Manual(Skipped)) /\ UNCHANGED <<iter, total>>
       \/ \E n \in 1..MaxItems :
             iter' = 1 /\ total' = n /\ pc' = "item" /\ UNCHANGED step
    /\ UNCHANGED <<plan, ctx, idx, flags, err, out>>

(* The head of the loop over the items, and ValueString. *)
NextItem ==
    /\ pc = "item"
    /\ \/ /\ iter > total
          /\ idx' = idx + 1 /\ iter' = 0 /\ total' = 0 /\ pc' = "loop"
          /\ UNCHANGED <<flags, step>>
       \/ /\ iter <= total
          /\ \/ pc' = "itemwhen" /\ UNCHANGED <<flags, idx, step>>
             \/ EvalFails(TRUE)
          /\ UNCHANGED <<iter, total>>
    /\ UNCHANGED <<plan, ctx, err, out>>

(* selectIfBranch and selectSwitchCase: an error, no branch or no run       *)
(* target, a fail branch, or a request to perform.                          *)
SelectBranch ==
    /\ pc = "select"
    /\ \/ EvalFails(FALSE)
       \/ (Manual(Skipped) \/ Manual(Failed) \/ Perform) /\ UNCHANGED <<flags, idx>>
    /\ UNCHANGED <<plan, ctx, iter, total, err, out>>

EmitStepStart ==
    /\ pc = "stepstart"
    /\ Emit(IF manual THEN "stepdone" ELSE "reqstart")
    /\ UNCHANGED <<plan, ctx, loop, step, flags, out>>

(* execReq. *)
EmitReqStart ==
    /\ pc = "reqstart"
    /\ Emit("exec")
    /\ UNCHANGED <<plan, ctx, loop, step, flags, out>>

ExecuteWith ==
    /\ pc = "exec"
    /\ res' \in Answers
    /\ pc' = "reqdone"
    /\ UNCHANGED <<plan, ctx, loop, manual, flags, err, out>>

EmitReqDone ==
    /\ pc = "reqdone"
    /\ Emit("stepdone")
    /\ UNCHANGED <<plan, ctx, loop, step, flags, out>>

(* Mutant: a skipped step is not seen. *)
NoteSkipUnseen(o) ==
    IF o = "skipped" THEN flags
    ELSE [flags EXCEPT !.seen = TRUE, !.skip = FALSE, !.fail = @ \/ o # "passed",
                       !.canceled = @ \/ o = "canceled"]

Note(o) ==
    IF o = "skipped" THEN [flags EXCEPT !.seen = TRUE]
    ELSE [flags EXCEPT !.seen = TRUE, !.skip = FALSE, !.fail = @ \/ o # "passed",
                       !.canceled = @ \/ o = "canceled"]

(* Mutants of the decision whether the run stops. *)
StopsNotInLoop(o) == o = "canceled" \/ (o = "failed" /\ Cur.stop /\ iter = 0)
StopsOnSkip(o) == o \in {"canceled", "skipped"} \/ (o = "failed" /\ Cur.stop)

(* finishStep decides whether the run stops. *)
Stops(o) == o = "canceled" \/ (o = "failed" /\ Cur.stop)

(* Mutant: the step advances in every iteration. *)
AdvanceInLoop(stops) ==
    IF iter = 0 THEN idx' = idx + 1 /\ UNCHANGED iter
    ELSE idx' = (IF idx < Len(plan) THEN idx + 1 ELSE idx) /\ iter' = iter + 1

(* A step that is over advances r.idx; an iteration does so only when the   *)
(* run stops, and otherwise the loop goes on with the next item.            *)
Advance(stops) ==
    IF iter = 0 THEN idx' = idx + 1 /\ UNCHANGED iter
    ELSE idx' = (IF stops THEN idx + 1 ELSE idx) /\ iter' = iter + 1

(* emitStepDone, note and finishStep. *)
EmitStepDone ==
    /\ pc = "stepdone"
    /\ IF ctx
       THEN Emit("finish") /\ UNCHANGED <<idx, iter, flags, steps>>
       ELSE LET o == EvalReq(Cur, res) IN
            /\ steps' = Append(steps, [i |-> idx, iter |-> iter, total |-> total,
                                       head |-> EvaluateStep(Cur, res),
                                       ui |-> WorkflowResultFromRun(Cur, res)])
            /\ Advance(Stops(o))
            /\ IF Stops(o) THEN Stop(Note(o))
               ELSE flags' = Note(o) /\ pc' = (IF iter = 0 THEN "loop" ELSE "item")
            /\ UNCHANGED err
    /\ res' = Blank /\ manual' = FALSE
    /\ UNCHANGED <<plan, ctx, total, rundone>>

EmitRunDone ==
    /\ pc = "finish"
    /\ pc' = "exit"
    /\ err' = (err \/ ctx)
    /\ rundone' = IF ctx THEN NotSent
                  ELSE [sent |-> TRUE,
                        success |-> /\ flags.done /\ ~flags.skip
                                    /\ ~flags.fail /\ ~flags.canceled,
                        skipped |-> flags.seen /\ flags.skip,
                        canceled |-> flags.canceled]
    /\ UNCHANGED <<plan, ctx, loop, step, flags, steps>>

(* The user cancels the run. *)
Cancel ==
    /\ pc # "exit" /\ ~ctx
    /\ ctx' = TRUE
    /\ UNCHANGED <<plan, pc, loop, step, flags, err, out>>

Next ==
    \/ EmitRunStart \/ Run \/ RunStep \/ EvalCondition \/ WorkflowForEach
    \/ EvalForEachItems \/ NextItem \/ SelectBranch \/ EmitStepStart \/ EmitReqStart
    \/ ExecuteWith \/ EmitReqDone \/ EmitStepDone \/ EmitRunDone \/ Cancel

Spec == Init /\ [][Next]_vars

-----------------------------------------------------------------------------
(* What the sinks make of the events: buildWorkflowResult of the headless   *)
(* collector, and state.canceled and statusLevel of the UI, which drops a   *)
(* canceled step and sets its flag instead.                                 *)
Some(sink, O) == \E k \in 1..Len(steps) : steps[k][sink] \in O
BuildWorkflowResult ==
    LET canceled == rundone.canceled \/ Some("head", {"canceled"})
        skipped == steps # << >> /\ ~Some("head", Outcomes \ {"skipped"})
    IN [canceled |-> canceled, skipped |-> skipped,
        success |-> ~canceled /\ ~skipped /\ ~Some("head", {"failed", "canceled"})]
StatusLevel ==
    IF rundone.canceled \/ Some("ui", {"failed", "canceled"}) THEN "warn" ELSE "success"

-----------------------------------------------------------------------------
StepDones == [i : Nat, iter : Nat, total : Nat, head : Outcomes, ui : Outcomes]

(* The type invariant. *)
TypeOK ==
    /\ plan \in Plans /\ ctx \in BOOLEAN /\ pc \in PCs
    /\ idx \in 1..(Len(plan) + 1) /\ iter \in 0..(MaxItems + 1) /\ total \in 0..MaxItems
    /\ manual \in BOOLEAN /\ res \in Results
    /\ flags \in [done : BOOLEAN, seen : BOOLEAN, skip : BOOLEAN, fail : BOOLEAN,
                  canceled : BOOLEAN]
    /\ err \in BOOLEAN
    /\ steps \in Seq(StepDones)
    /\ rundone \in [sent : BOOLEAN, success : BOOLEAN, skipped : BOOLEAN, canceled : BOOLEAN]

(* "Cancellation is not a failure and no policy may override it": nothing   *)
(* is reported after a canceled step, nor after a failed one whose step     *)
(* does not say continue, in whichever branch or iteration it failed.       *)
StopsAtFailure ==
    \A k \in 1..Len(steps) :
        k < Len(steps) \/ pc = "stepstart"
            => /\ steps[k].head # "canceled"
               /\ steps[k].head = "failed" => ~plan[steps[k].i].stop

(* Steps and iterations are reported in order, each once and none left out. *)
First(e) == e.i = 1 /\ e.iter \in {0, 1}
Follows(d, e) ==
    \/ e.i = d.i /\ e.iter = d.iter + 1 /\ e.total = d.total /\ d.iter # 0
    \/ e.i = d.i + 1 /\ e.iter \in {0, 1} /\ d.iter = d.total
StepsInOrder ==
    /\ steps # << >> => First(steps[1])
    /\ \A k \in 1..(Len(steps) - 1) : Follows(steps[k], steps[k + 1])

(* A run that reports neither a cancel nor a failure has run to the end:    *)
(* its last report is of the last item of the last step.                    *)
SuccessIsComplete ==
    rundone.sent /\ (rundone.success \/ rundone.skipped)
        => /\ steps # << >>
           /\ LET e == steps[Len(steps)] IN e.i = Len(plan) /\ e.iter = e.total

(* The engine's verdict, the headless report and the UI's status line are   *)
(* computed from different code and say the same of a run.                  *)
ReportsAgree ==
    rundone.sent =>
        /\ BuildWorkflowResult = [canceled |-> rundone.canceled, skipped |-> rundone.skipped,
                                  success |-> rundone.success]
        /\ StatusLevel = "success" <=> rundone.success \/ rundone.skipped

-----------------------------------------------------------------------------
(* The parts of the inductive invariant of WorkflowRunProofs.               *)
(* Where the run is: inside a step r.idx names one, and the iteration is    *)
(* one of the items exactly in the loop over them.                          *)
Outside == {"start", "loop", "finish", "exit"}
InBounds ==
    /\ pc \notin Outside => idx <= Len(plan)
    /\ pc \in {"start", "loop", "request", "branch", "when", "spec", "items", "select"}
          => iter = 0 /\ total = 0
    /\ pc \in {"stepstart", "reqstart", "exec", "reqdone", "stepdone"}
          => (iter = 0 /\ total = 0) \/ iter \in 1..total
    /\ pc = "item" => total > 0 /\ iter \in 1..(total + 1)
    /\ pc = "itemwhen" => iter \in 1..total

(* What the last report says of the place the run has reached. *)
Place ==
    IF steps = << >> THEN idx = 1 /\ iter <= 1
    ELSE LET e == steps[Len(steps)] IN
         IF iter <= 1 THEN e.i + 1 = idx /\ e.iter = e.total
         ELSE e.i = idx /\ e.iter + 1 = iter /\ e.total = total /\ e.iter # 0
Progress == pc \notin {"finish", "exit"} => Place

(* A report that ends the run is the last one. *)
Ends(e) == e.head = "canceled" \/ (e.head = "failed" /\ plan[e.i].stop)
OnlyLastEnds ==
    /\ \A k \in 1..Len(steps) : steps[k].i \in 1..Len(plan)
    /\ \A k \in 1..Len(steps) : Ends(steps[k]) => k = Len(steps) /\ pc \in {"finish", "exit"}

(* The flags of the run say what the reports say. *)
FlagsAgree ==
    /\ \A k \in 1..Len(steps) : steps[k].ui = steps[k].head
    /\ flags.seen <=> steps # << >>
    /\ flags.skip <=> ~Some("head", Outcomes \ {"skipped"})
    /\ flags.fail <=> Some("head", {"failed", "canceled"})
    /\ Some("head", {"canceled"}) => flags.canceled

(* A run that comes to its end without a cancel has left the loop, and has  *)
(* then failed or reached the end.                                          *)
Finished ==
    /\ flags.done
    /\ steps # << >>
    /\ \/ flags.fail
       \/ steps[Len(steps)].i = Len(plan) /\ steps[Len(steps)].iter = steps[Len(steps)].total
EndIsReached == pc = "finish" /\ ~ctx => Finished

Verdict ==
    rundone.sent =>
        /\ pc = "exit"
        /\ Finished
        /\ rundone.success = (~flags.skip /\ ~flags.fail /\ ~flags.canceled)
        /\ rundone.skipped = (flags.seen /\ flags.skip)
        /\ rundone.canceled = flags.canceled

(* A cancel without a canceled step is the context's, and no verdict is     *)
(* sent after one.                                                          *)
CancelIsReal ==
    /\ flags.canceled => ctx \/ flags.fail
    /\ rundone.sent => ~ctx

Inv ==
    /\ TypeOK /\ InBounds /\ Progress /\ StepsInOrder /\ OnlyLastEnds
    /\ FlagsAgree /\ EndIsReached /\ Verdict
=============================================================================
