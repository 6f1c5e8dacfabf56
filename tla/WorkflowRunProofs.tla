-------------------------- MODULE WorkflowRunProofs --------------------------
(* Proofs about WorkflowRun, for every set of plans and every bound on the   *)
(* items of a for-each.                                                      *)
EXTENDS WorkflowRun, TLAPS

(* The engine, the headless collector and the UI give every result the same *)
(* outcome.                                                                 *)
THEOREM OutcomesAgree ==
    ASSUME NEW s \in StepSpecs, NEW r \in Results
    PROVE  /\ EvaluateStep(s, r) = EvalReq(s, r)
           /\ WorkflowResultFromRun(s, r) = EvalReq(s, r)
           /\ EvalReq(s, r) \in Outcomes
<1>1. /\ s.expect \in BOOLEAN
      /\ r.skip \in BOOLEAN /\ r.script \in BOOLEAN /\ r.tests \in BOOLEAN
      /\ r.bad \in BOOLEAN /\ r.match \in BOOLEAN
      /\ r.err \in {"none", "failed", "canceled"} /\ r.resp \in {"none", "http", "grpc"}
  BY DEF StepSpecs, Results
<1>2. EvaluateStep(s, r) = EvalReq(s, r)
  BY <1>1 DEF EvaluateStep, EvalReq, TransportOK
<1>3. WorkflowResultFromRun(s, r) = EvalReq(s, r)
  BY <1>1 DEF WorkflowResultFromRun, EvalReq
<1>4. EvalReq(s, r) \in Outcomes
  BY DEF EvalReq, Outcomes
<1> QED BY <1>2, <1>3, <1>4

(* The results the engine makes up, and the ones requests give, are results. *)
LEMMA ResultTypes == Blank \in Results /\ Skipped \in Results /\ Failed \in Results
                     /\ Answers \subseteq Results
BY DEF Blank, Skipped, Failed, Answers, Results

(* A plan is a nonempty sequence of steps. *)
LEMMA PlanTypes ==
    ASSUME TypeOK
    PROVE  /\ plan \in Seq(StepSpecs) /\ Len(plan) \in Nat \ {0}
           /\ \A i \in 1..Len(plan) : plan[i] \in StepSpecs
BY PlanAssumption DEF TypeOK

(* The last report. *)
LEMMA LastStep ==
    ASSUME TypeOK, steps # << >>
    PROVE  /\ Len(steps) \in Nat \ {0}
           /\ steps[Len(steps)] \in StepDones
           /\ steps[Len(steps)].i \in Nat /\ steps[Len(steps)].iter \in Nat
           /\ steps[Len(steps)].total \in Nat
<1>1. steps \in Seq(StepDones)
  BY DEF TypeOK
<1>2. Len(steps) \in Nat \ {0}
  BY <1>1
<1>3. steps[Len(steps)] \in StepDones
  BY <1>1, <1>2
<1> QED BY <1>2, <1>3 DEF StepDones

(* What stays true while no report is sent: the flags may only come to say  *)
(* canceled and done, and the run may only go on or come to its end.        *)
LEMMA NoReport ==
    ASSUME Inv, pc \notin {"finish", "exit"}, UNCHANGED <<plan, steps, rundone>>,
           flags'.seen = flags.seen, flags'.skip = flags.skip, flags'.fail = flags.fail,
           flags.canceled => flags'.canceled
    PROVE  StepsInOrder' /\ OnlyLastEnds' /\ FlagsAgree' /\ Verdict'
<1>1. StepsInOrder'
  BY DEF Inv, StepsInOrder, First, Follows
<1>2. OnlyLastEnds'
  BY DEF Inv, OnlyLastEnds, Ends
<1>3. FlagsAgree'
  BY DEF Inv, FlagsAgree, Some
<1>4. Verdict'
  BY DEF Inv, Verdict
<1> QED BY <1>1, <1>2, <1>3, <1>4

LEMMA InitInv == Init => Inv
<1> SUFFICES ASSUME Init PROVE Inv
  OBVIOUS
<1>0. Len(plan) \in Nat /\ MaxItems \in Nat
  BY PlanAssumption DEF Init
<1>1. TypeOK
  <2>1. idx \in 1..(Len(plan) + 1) /\ iter \in 0..(MaxItems + 1) /\ total \in 0..MaxItems
    BY <1>0 DEF Init
  <2>2. /\ flags \in [done : BOOLEAN, seen : BOOLEAN, skip : BOOLEAN, fail : BOOLEAN,
                      canceled : BOOLEAN]
        /\ rundone \in [sent : BOOLEAN, success : BOOLEAN, skipped : BOOLEAN, canceled : BOOLEAN]
    BY DEF Init, NotSent
  <2>3. plan \in Plans /\ ctx \in BOOLEAN /\ manual \in BOOLEAN /\ err \in BOOLEAN
    BY DEF Init
  <2>4. pc \in PCs /\ steps \in Seq(StepDones)
    BY DEF Init, PCs
  <2>5. res \in Results
    BY ResultTypes DEF Init
  <2> QED BY <2>1, <2>2, <2>3, <2>4, <2>5 DEF TypeOK
<1>2. InBounds /\ Progress /\ StepsInOrder /\ OnlyLastEnds /\ EndIsReached /\ Verdict
  BY DEF Init, InBounds, Outside, Progress, Place, StepsInOrder, OnlyLastEnds, EndIsReached,
         Verdict, NotSent
<1>3. FlagsAgree
  BY DEF Init, FlagsAgree, Some
<1> QED BY <1>1, <1>2, <1>3 DEF Inv

(* The flags' type survives a cancel and the end of the loop. *)
LEMMA FlagTypes ==
    ASSUME TypeOK
    PROVE  /\ Canceled.seen = flags.seen /\ Canceled.skip = flags.skip
           /\ Canceled.fail = flags.fail /\ Canceled.canceled
           /\ \A f \in {flags, Canceled} :
                 LET g == [f EXCEPT !.done = TRUE] IN
                 /\ g \in [done : BOOLEAN, seen : BOOLEAN, skip : BOOLEAN, fail : BOOLEAN,
                           canceled : BOOLEAN]
                 /\ g.seen = f.seen /\ g.skip = f.skip /\ g.fail = f.fail
                 /\ g.canceled = f.canceled /\ g.done
BY DEF TypeOK, Canceled

(* Steps that send no report keep the invariant. *)
LEMMA EmitRunStartInv == Inv /\ EmitRunStart => Inv'
<1> SUFFICES ASSUME Inv, EmitRunStart PROVE Inv'
  OBVIOUS
<1>1. TypeOK'
  <2>1. pc' \in {"exit", "loop"} /\ err' \in BOOLEAN
    BY DEF Inv, EmitRunStart, TypeOK
  <2> QED BY <2>1 DEF Inv, EmitRunStart, TypeOK, loop, step, out, PCs
<1>2. InBounds' /\ Progress' /\ EndIsReached'
  BY DEF Inv, EmitRunStart, InBounds, Outside, Progress, Place, EndIsReached, loop, step, out
<1>3. StepsInOrder' /\ OnlyLastEnds' /\ FlagsAgree' /\ Verdict'
  BY NoReport DEF EmitRunStart, loop, step, out
<1> QED BY <1>1, <1>2, <1>3 DEF Inv

LEMMA EmitsInv ==
    ASSUME Inv, EmitStepStart \/ EmitReqStart \/ EmitReqDone PROVE Inv'
<1>1. TypeOK'
  BY DEF Inv, EmitStepStart, EmitReqStart, EmitReqDone, Emit, TypeOK, loop, step, out, PCs
<1>2. InBounds' /\ Progress'
  BY DEF Inv, EmitStepStart, EmitReqStart, EmitReqDone, Emit, InBounds, Outside, Progress,
         Place, loop, step, out
<1>3. EndIsReached'
  BY DEF Inv, EmitStepStart, EmitReqStart, EmitReqDone, Emit, EndIsReached, loop, step, out
<1>4. StepsInOrder' /\ OnlyLastEnds' /\ FlagsAgree' /\ Verdict'
  BY NoReport DEF EmitStepStart, EmitReqStart, EmitReqDone, loop, step, out
<1> QED BY <1>1, <1>2, <1>3, <1>4 DEF Inv

LEMMA ExecuteWithInv == Inv /\ ExecuteWith => Inv'
<1> SUFFICES ASSUME Inv, ExecuteWith PROVE Inv'
  OBVIOUS
<1>1. TypeOK'
  BY ResultTypes DEF Inv, ExecuteWith, TypeOK, loop, out, PCs
<1>2. InBounds' /\ Progress' /\ EndIsReached'
  BY DEF Inv, ExecuteWith, InBounds, Outside, Progress, Place, EndIsReached, loop, out
<1>3. StepsInOrder' /\ OnlyLastEnds' /\ FlagsAgree' /\ Verdict'
  BY NoReport DEF ExecuteWith, loop, out
<1> QED BY <1>1, <1>2, <1>3 DEF Inv

LEMMA CancelInv == Inv /\ Cancel => Inv'
<1> SUFFICES ASSUME Inv, Cancel PROVE Inv'
  OBVIOUS
<1>1. TypeOK' /\ InBounds' /\ Progress' /\ EndIsReached'
  BY DEF Inv, Cancel, TypeOK, InBounds, Progress, Place, EndIsReached, loop, step, out
<1>2. StepsInOrder' /\ OnlyLastEnds' /\ FlagsAgree' /\ Verdict'
  BY DEF Inv, Cancel, StepsInOrder, First, Follows, OnlyLastEnds, Ends, FlagsAgree, Some, Verdict,
         loop, step, out
<1> QED BY <1>1, <1>2 DEF Inv

(* What the end of the loop and a cancel leave alone. *)
LEMMA StopKeeps ==
    ASSUME Inv, pc \notin {"finish", "exit"}, UNCHANGED <<plan, steps, rundone>>,
           flags' = flags \/ Stop(flags) \/ Stop(Canceled)
    PROVE  /\ StepsInOrder' /\ OnlyLastEnds' /\ FlagsAgree' /\ Verdict'
           /\ flags' \in [done : BOOLEAN, seen : BOOLEAN, skip : BOOLEAN, fail : BOOLEAN,
                          canceled : BOOLEAN]
           /\ flags' = flags \/ (pc' = "finish" /\ flags'.done)
           /\ flags'.seen = flags.seen /\ flags'.fail = flags.fail
<1>1. TypeOK
  BY DEF Inv
<1>2. /\ flags' \in [done : BOOLEAN, seen : BOOLEAN, skip : BOOLEAN, fail : BOOLEAN,
                     canceled : BOOLEAN]
      /\ flags'.seen = flags.seen /\ flags'.skip = flags.skip /\ flags'.fail = flags.fail
      /\ flags.canceled => flags'.canceled
      /\ flags' = flags \/ (pc' = "finish" /\ flags'.done)
  BY <1>1, FlagTypes DEF Stop, TypeOK
<1> QED BY <1>2, NoReport

(* The loop is left at its head: at the end of the plan, where the last     *)
(* report is the last step's, or because of the cancel.                     *)
LEMMA RunInv == Inv /\ Run => Inv'
<1> SUFFICES ASSUME Inv, Run PROVE Inv'
  OBVIOUS
<1>0. /\ pc = "loop" /\ UNCHANGED <<plan, ctx, idx, iter, total, manual, res, err, steps, rundone>>
      /\ flags' = flags \/ Stop(flags) \/ Stop(Canceled)
  BY DEF Run, loop, step, out
<1>1. TypeOK /\ Len(plan) \in Nat \ {0} /\ iter = 0 /\ total = 0 /\ Place
      /\ \A i \in 1..Len(plan) : plan[i].kind \in {"request", "branch"}
  BY <1>0, PlanTypes DEF Inv, InBounds, Progress, StepSpecs
<1>2. StepsInOrder' /\ OnlyLastEnds' /\ FlagsAgree' /\ Verdict'
      /\ flags' \in [done : BOOLEAN, seen : BOOLEAN, skip : BOOLEAN, fail : BOOLEAN,
                     canceled : BOOLEAN]
  BY <1>0, StopKeeps
<1>3. idx \in Nat /\ (pc' = "finish" \/ (idx <= Len(plan) /\ pc' \in {"request", "branch"}))
  BY <1>0, <1>1 DEF Run, Stop, Cur, TypeOK
<1>4. TypeOK'
  BY <1>0, <1>1, <1>2, <1>3 DEF TypeOK, PCs
<1>5. InBounds' /\ Progress'
  BY <1>0, <1>1, <1>3 DEF InBounds, Outside, Progress, Place
<1>6. EndIsReached'
  <2> SUFFICES ASSUME pc' = "finish", ~ctx' PROVE Finished'
    BY DEF EndIsReached
  <2>1. idx > Len(plan) /\ Stop(flags)
    BY <1>0, <1>1, <1>3 DEF Run, Cur, TypeOK
  <2>2. flags'.done
    BY <2>1, <1>1, FlagTypes DEF Stop
  <2>3. idx = Len(plan) + 1 /\ idx # 1
    BY <2>1, <1>1 DEF TypeOK
  <2>4. steps # << >> /\ steps[Len(steps)].i + 1 = idx
        /\ steps[Len(steps)].iter = steps[Len(steps)].total
    BY <2>3, <1>1 DEF Place
  <2>5. steps[Len(steps)].i \in Nat
    BY <2>4, <1>1, LastStep
  <2>6. steps[Len(steps)].i = Len(plan)
    BY <2>3, <2>4, <2>5, <1>1
  <2> QED BY <2>2, <2>4, <2>6, <1>0 DEF Finished
<1> QED BY <1>2, <1>4, <1>5, <1>6 DEF Inv

LEMMA RunStepInv == Inv /\ RunStep => Inv'
<1> SUFFICES ASSUME Inv, RunStep PROVE Inv'
  OBVIOUS
<1>0. /\ pc \in {"request", "branch"}
      /\ UNCHANGED <<plan, ctx, idx, iter, total, manual, res, err, steps, rundone>>
      /\ \/ ctx /\ pc' = "finish"
         \/ pc' \in {"when", "select"}
      /\ flags' = flags \/ Stop(Canceled)
  BY DEF RunStep, Stop, loop, step, out
<1>1. StepsInOrder' /\ OnlyLastEnds' /\ FlagsAgree' /\ Verdict'
      /\ flags' \in [done : BOOLEAN, seen : BOOLEAN, skip : BOOLEAN, fail : BOOLEAN,
                     canceled : BOOLEAN]
  BY <1>0, StopKeeps
<1>2. TypeOK'
  BY <1>0, <1>1 DEF Inv, TypeOK, PCs
<1>3. InBounds' /\ Progress' /\ EndIsReached'
  BY <1>0 DEF Inv, InBounds, Outside, Progress, Place, EndIsReached
<1> QED BY <1>1, <1>2, <1>3 DEF Inv

(* A step gets its result or goes on to perform its request. *)
LEMMA PerformInv ==
    ASSUME Inv, pc \notin Outside, pc = "item" => iter <= total,
           UNCHANGED <<plan, ctx, idx, iter, total, flags, err, steps, rundone>>,
           Manual(Skipped) \/ Manual(Failed) \/ Perform
    PROVE  Inv'
<1>0. pc' = "stepstart" /\ manual' \in BOOLEAN /\ res' \in Results
  BY ResultTypes DEF Inv, TypeOK, Manual, Perform
<1>1. StepsInOrder' /\ OnlyLastEnds' /\ FlagsAgree' /\ Verdict'
  BY NoReport DEF Outside
<1>2. TypeOK'
  BY <1>0 DEF Inv, TypeOK, PCs
<1>3. InBounds' /\ Progress' /\ EndIsReached'
  BY <1>0 DEF Inv, TypeOK, PCs, InBounds, Outside, Progress, Place, EndIsReached
<1> QED BY <1>1, <1>2, <1>3 DEF Inv

LEMMA EvalFailsInv ==
    ASSUME Inv, pc \notin Outside, pc = "item" => iter <= total,
           UNCHANGED <<plan, ctx, iter, total, err, steps, rundone>>,
           NEW b \in BOOLEAN, EvalFails(b)
    PROVE  Inv'
<1>1. CASE ~ctx
  BY <1>1, PerformInv DEF EvalFails
<1>2. CASE ctx
  <2>0. Stop(Canceled) /\ pc' = "finish" /\ idx' \in {idx, idx + 1} /\ UNCHANGED <<manual, res>>
    BY <1>2 DEF EvalFails, Stop, step
  <2>1. StepsInOrder' /\ OnlyLastEnds' /\ FlagsAgree' /\ Verdict'
        /\ flags' \in [done : BOOLEAN, seen : BOOLEAN, skip : BOOLEAN, fail : BOOLEAN,
                       canceled : BOOLEAN]
    BY <2>0, StopKeeps DEF Outside
  <2>2. idx' \in 1..(Len(plan') + 1)
    BY <2>0, PlanTypes DEF Inv, TypeOK, InBounds
  <2>3. TypeOK'
    BY <2>0, <2>1, <2>2 DEF Inv, TypeOK, PCs
  <2>4. InBounds' /\ Progress' /\ EndIsReached'
    BY <2>0, <1>2 DEF InBounds, Outside, Progress, EndIsReached
  <2> QED BY <2>1, <2>3, <2>4 DEF Inv
<1> QED BY <1>1, <1>2 DEF Inv, TypeOK

(* A step goes from one evaluation to the next. *)
LEMMA StepGoesOn ==
    ASSUME Inv, pc \notin Outside,
           UNCHANGED <<plan, ctx, idx, manual, res, flags, err, steps, rundone>>,
           \/ pc = "when" /\ pc' = "spec" /\ UNCHANGED <<iter, total>>
           \/ pc = "spec" /\ pc' = "items" /\ UNCHANGED <<iter, total>>
           \/ pc = "items" /\ pc' = "item" /\ iter' = 1 /\ total' \in 1..MaxItems
           \/ pc = "item" /\ pc' = "itemwhen" /\ iter <= total /\ UNCHANGED <<iter, total>>
    PROVE  Inv'
<1>0. MaxItems \in Nat
  BY PlanAssumption
<1>1. StepsInOrder' /\ OnlyLastEnds' /\ FlagsAgree' /\ Verdict'
  BY NoReport DEF Outside
<1>2. TypeOK'
  BY <1>0 DEF Inv, TypeOK, PCs
<1>3. InBounds' /\ EndIsReached'
  BY <1>0 DEF Inv, TypeOK, InBounds, Outside, EndIsReached
<1>4. Progress'
  BY <1>0 DEF Inv, TypeOK, InBounds, Outside, Progress, Place
<1> QED BY <1>1, <1>2, <1>3, <1>4 DEF Inv

LEMMA EvalConditionInv == Inv /\ EvalCondition => Inv'
<1> SUFFICES ASSUME Inv, EvalCondition PROVE Inv'
  OBVIOUS
<1>0. pc \in {"when", "itemwhen"} /\ UNCHANGED <<plan, ctx, iter, total, err, steps, rundone>>
  BY DEF EvalCondition, out
<1>1. CASE EvalFails(TRUE)
  BY <1>0, <1>1, EvalFailsInv DEF Outside
<1>2. CASE (Manual(Skipped) \/ Perform) /\ UNCHANGED <<flags, idx>>
  BY <1>0, <1>2, PerformInv DEF Outside
<1>3. CASE pc = "when" /\ pc' = "spec" /\ UNCHANGED <<manual, res, flags, idx>>
  BY <1>0, <1>3, StepGoesOn DEF Outside
<1> QED BY <1>1, <1>2, <1>3 DEF EvalCondition, step

LEMMA WorkflowForEachInv == Inv /\ WorkflowForEach => Inv'
<1> SUFFICES ASSUME Inv, WorkflowForEach PROVE Inv'
  OBVIOUS
<1>0. pc = "spec" /\ UNCHANGED <<plan, ctx, iter, total, err, steps, rundone>>
  BY DEF WorkflowForEach, out
<1>1. CASE EvalFails(TRUE)
  BY <1>0, <1>1, EvalFailsInv DEF Outside
<1>2. CASE Perform /\ UNCHANGED <<flags, idx>>
  BY <1>0, <1>2, PerformInv DEF Outside
<1>3. CASE pc' = "items" /\ UNCHANGED <<flags, idx, manual, res>>
  BY <1>0, <1>3, StepGoesOn DEF Outside
<1> QED BY <1>1, <1>2, <1>3 DEF WorkflowForEach, step

LEMMA EvalForEachItemsInv == Inv /\ EvalForEachItems => Inv'
<1> SUFFICES ASSUME Inv, EvalForEachItems PROVE Inv'
  OBVIOUS
<1>0. pc = "items" /\ UNCHANGED <<plan, ctx, idx, flags, err, steps, rundone>>
  BY DEF EvalForEachItems, out
<1>1. CASE (Manual(Failed) \/ Manual(Skipped)) /\ UNCHANGED <<iter, total>>
  BY <1>0, <1>1, PerformInv DEF Outside
<1>2. CASE \E n \in 1..MaxItems :
              iter' = 1 /\ total' = n /\ pc' = "item" /\ UNCHANGED <<manual, res>>
  BY <1>0, <1>2, StepGoesOn DEF Outside
<1> QED BY <1>1, <1>2 DEF EvalForEachItems, step

LEMMA SelectBranchInv == Inv /\ SelectBranch => Inv'
<1> SUFFICES ASSUME Inv, SelectBranch PROVE Inv'
  OBVIOUS
<1>0. pc = "select" /\ UNCHANGED <<plan, ctx, iter, total, err, steps, rundone>>
  BY DEF SelectBranch, out
<1>1. CASE EvalFails(FALSE)
  BY <1>0, <1>1, EvalFailsInv DEF Outside
<1>2. CASE (Manual(Skipped) \/ Manual(Failed) \/ Perform) /\ UNCHANGED <<flags, idx>>
  BY <1>0, <1>2, PerformInv DEF Outside
<1> QED BY <1>1, <1>2 DEF SelectBranch

(* After the last item the step is over: its last report is of that item. *)
LEMMA NextItemInv == Inv /\ NextItem => Inv'
<1> SUFFICES ASSUME Inv, NextItem PROVE Inv'
  OBVIOUS
<1>0. pc = "item" /\ UNCHANGED <<plan, ctx, err, steps, rundone>>
  BY DEF NextItem, out
<1>1. CASE iter <= total /\ EvalFails(TRUE) /\ UNCHANGED <<iter, total>>
  BY <1>0, <1>1, EvalFailsInv DEF Outside
<1>2. CASE iter <= total /\ pc' = "itemwhen" /\ UNCHANGED <<flags, idx, manual, res, iter, total>>
  BY <1>0, <1>2, StepGoesOn DEF Outside
<1>3. CASE /\ iter > total /\ idx' = idx + 1 /\ iter' = 0 /\ total' = 0 /\ pc' = "loop"
           /\ UNCHANGED <<flags, manual, res>>
  <2>1. StepsInOrder' /\ OnlyLastEnds' /\ FlagsAgree' /\ Verdict'
    BY <1>0, <1>3, NoReport
  <2>2. /\ idx \in 1..Len(plan) /\ Len(plan) \in Nat /\ iter = total + 1 /\ total \in Nat \ {0}
        /\ MaxItems \in Nat
    BY <1>0, <1>3, PlanTypes, PlanAssumption DEF Inv, TypeOK, InBounds, Outside
  <2>3. TypeOK'
    BY <1>0, <1>3, <2>2 DEF Inv, TypeOK, PCs
  <2>4. InBounds' /\ EndIsReached'
    BY <1>3 DEF InBounds, Outside, EndIsReached
  <2>5. steps # << >>
    BY <1>0, <2>2 DEF Inv, Progress, Place
  <2>6. /\ steps[Len(steps)].i = idx /\ steps[Len(steps)].iter + 1 = iter
        /\ steps[Len(steps)].total = total /\ steps[Len(steps)].iter \in Nat
    BY <1>0, <2>2, <2>5, LastStep DEF Inv, Progress, Place
  <2>7. Place'
    BY <1>0, <1>3, <2>2, <2>5, <2>6 DEF Place
  <2> QED BY <2>1, <2>3, <2>4, <2>7 DEF Inv, Progress
<1> QED BY <1>1, <1>2, <1>3 DEF NextItem, step

(* What the report of a step does to the sequence of reports. *)
LEMMA AppendFacts ==
    ASSUME TypeOK, NEW e \in StepDones, steps' = Append(steps, e)
    PROVE  /\ Len(steps) \in Nat /\ steps' \in Seq(StepDones) /\ steps' # << >>
           /\ Len(steps') = Len(steps) + 1
           /\ steps'[Len(steps) + 1] = e
           /\ \A k \in 1..Len(steps) : steps'[k] = steps[k]
BY DEF TypeOK

(* note keeps the flags in agreement with the reports. *)
LEMMA NoteTypes ==
    ASSUME TypeOK, NEW o \in Outcomes, NEW f, f \in {Note(o), [Note(o) EXCEPT !.done = TRUE]}
    PROVE  /\ f \in [done : BOOLEAN, seen : BOOLEAN, skip : BOOLEAN, fail : BOOLEAN,
                     canceled : BOOLEAN]
           /\ f.seen
           /\ f.skip = (flags.skip /\ o = "skipped")
           /\ f.fail = (flags.fail \/ o \in {"failed", "canceled"})
           /\ f.canceled = (flags.canceled \/ o = "canceled")
BY DEF TypeOK, Note, Outcomes

LEMMA EmitStepDoneInv == Inv /\ EmitStepDone => Inv'
<1> SUFFICES ASSUME Inv, EmitStepDone PROVE Inv'
  OBVIOUS
<1>0. /\ pc = "stepdone" /\ UNCHANGED <<plan, ctx, total, rundone>>
      /\ manual' \in BOOLEAN /\ res' \in Results
  BY ResultTypes DEF EmitStepDone
<1>1. CASE ctx
  <2>1. pc' = "finish" /\ err' \in BOOLEAN /\ UNCHANGED <<idx, iter, flags, steps>>
    BY <1>1 DEF EmitStepDone, Emit
  <2>2. StepsInOrder' /\ OnlyLastEnds' /\ FlagsAgree' /\ Verdict'
    BY <1>0, <2>1, NoReport
  <2>3. TypeOK'
    BY <1>0, <2>1 DEF Inv, TypeOK, PCs
  <2>4. InBounds' /\ Progress' /\ EndIsReached'
    BY <1>0, <1>1, <2>1 DEF InBounds, Outside, Progress, EndIsReached
  <2> QED BY <2>2, <2>3, <2>4 DEF Inv
<1>2. CASE ~ctx
  <2> DEFINE o == EvalReq(Cur, res)
             e == [i |-> idx, iter |-> iter, total |-> total,
                   head |-> EvaluateStep(Cur, res), ui |-> WorkflowResultFromRun(Cur, res)]
  <2>1. /\ TypeOK /\ idx \in 1..Len(plan) /\ Len(plan) \in Nat /\ MaxItems \in Nat
        /\ (iter = 0 /\ total = 0) \/ iter \in 1..total
        /\ iter \in Nat /\ total \in Nat /\ total <= MaxItems /\ Place
    BY <1>0, PlanTypes, PlanAssumption DEF Inv, TypeOK, InBounds, Outside, Progress
  <2>2. Cur \in StepSpecs /\ res \in Results
    BY <2>1, PlanTypes DEF Cur, TypeOK
  <2>3. e.head = o /\ e.ui = o /\ o \in Outcomes
    BY <2>2, OutcomesAgree
  <2>4. e \in StepDones /\ e.i = idx /\ e.iter = iter /\ e.total = total
    BY <2>1, <2>3 DEF StepDones
  <2>5. /\ steps' = Append(steps, e) /\ Advance(Stops(o)) /\ UNCHANGED err
        /\ IF Stops(o) THEN Stop(Note(o))
           ELSE flags' = Note(o) /\ pc' = (IF iter = 0 THEN "loop" ELSE "item")
    BY <1>2 DEF EmitStepDone
  <2> HIDE DEF o, e
  <2>6. /\ Len(steps) \in Nat /\ steps' \in Seq(StepDones) /\ steps' # << >>
        /\ Len(steps') = Len(steps) + 1
        /\ steps'[Len(steps) + 1] = e
        /\ \A k \in 1..Len(steps) : steps'[k] = steps[k]
    BY <2>1, <2>4, <2>5, AppendFacts
  <2>7. \A k \in 1..Len(steps') : k \in 1..Len(steps) \/ k = Len(steps) + 1
    BY <2>6
  <2>8. /\ flags' \in [done : BOOLEAN, seen : BOOLEAN, skip : BOOLEAN, fail : BOOLEAN,
                       canceled : BOOLEAN]
        /\ flags'.seen
        /\ flags'.skip = (flags.skip /\ o = "skipped")
        /\ flags'.fail = (flags.fail \/ o \in {"failed", "canceled"})
        /\ flags'.canceled = (flags.canceled \/ o = "canceled")
    BY <2>1, <2>3, <2>5, NoteTypes DEF Stop
  <2>9. /\ idx' = idx + 1 \/ (idx' = idx /\ ~Stops(o) /\ iter # 0)
        /\ iter' = IF iter = 0 THEN iter ELSE iter + 1
        /\ iter = 0 => idx' = idx + 1
        /\ ~Stops(o) /\ iter # 0 => idx' = idx
    BY <2>5 DEF Advance
  <2>10. pc' = IF Stops(o) THEN "finish" ELSE IF iter = 0 THEN "loop" ELSE "item"
    BY <2>5 DEF Stop
  <2>11. TypeOK'
    BY <1>0, <2>1, <2>5, <2>6, <2>8, <2>9, <2>10 DEF TypeOK, PCs
  <2>12. InBounds'
    BY <1>0, <2>1, <2>9, <2>10 DEF InBounds, Outside
  <2>13. Progress'
    <3> SUFFICES ASSUME ~Stops(o) PROVE Place'
      BY <2>10 DEF Progress
    <3>1. steps'[Len(steps')] = e
      BY <2>6
    <3> QED BY <1>0, <2>1, <2>4, <2>6, <2>9, <3>1 DEF Place
  <2>14. StepsInOrder'
    <3>1. CASE steps = << >>
      <4>1. idx = 1 /\ iter \in {0, 1} /\ Len(steps) = 0
        BY <2>1, <3>1 DEF Place
      <4> QED BY <2>4, <2>6, <4>1 DEF StepsInOrder, First
    <3>2. CASE steps # << >>
      <4>1. Len(steps) \in Nat \ {0} /\ steps[Len(steps)].i \in Nat
            /\ steps[Len(steps)].iter \in Nat
        BY <2>1, <3>2, LastStep
      <4>2. Follows(steps[Len(steps)], e)
        BY <2>1, <2>4, <3>2, <4>1 DEF Place, Follows
      <4>3. First(steps'[1])
        BY <2>6, <3>2, <4>1 DEF Inv, StepsInOrder
      <4>4. ASSUME NEW k \in 1..(Len(steps') - 1) PROVE Follows(steps'[k], steps'[k + 1])
        <5>1. CASE k = Len(steps)
          BY <2>6, <4>1, <4>2, <5>1
        <5>2. CASE k # Len(steps)
          <6>1. k \in 1..(Len(steps) - 1) /\ k \in 1..Len(steps) /\ k + 1 \in 1..Len(steps)
            BY <2>6, <5>2
          <6>2. Follows(steps[k], steps[k + 1])
            BY <6>1 DEF Inv, StepsInOrder
          <6> QED BY <2>6, <6>1, <6>2
        <5> QED BY <5>1, <5>2
      <4> QED BY <4>3, <4>4 DEF StepsInOrder
    <3> QED BY <3>1, <3>2
  <2>15. OnlyLastEnds'
    <3>1. \A k \in 1..Len(steps) : steps[k].i \in 1..Len(plan) /\ ~Ends(steps[k])
      BY <1>0 DEF Inv, OnlyLastEnds
    <3>2. Ends(e) <=> Stops(o)
      BY <2>3, <2>4 DEF Ends, Stops, Cur, e
    <3>3. ASSUME NEW k \in 1..Len(steps)
          PROVE  steps'[k].i \in 1..Len(plan) /\ ~Ends(steps'[k])
      BY <2>6, <3>1
    <3>4. Ends(steps'[Len(steps) + 1]) => pc' = "finish"
      BY <2>6, <2>10, <3>2
    <3>5. steps'[Len(steps) + 1].i \in 1..Len(plan)
      BY <2>1, <2>4, <2>6
    <3>6. ASSUME NEW k \in 1..Len(steps')
          PROVE  /\ steps'[k].i \in 1..Len(plan)
                 /\ Ends(steps'[k]) => k = Len(steps') /\ pc' = "finish"
      BY <2>6, <2>7, <3>3, <3>4, <3>5
    <3> QED BY <1>0, <3>6 DEF OnlyLastEnds, Ends
  <2>16. FlagsAgree'
    <3>1. ASSUME NEW O PROVE Some("head", O)' <=> Some("head", O) \/ o \in O
      BY <2>3, <2>6, <2>7 DEF Some
    <3>2. /\ flags.skip <=> ~Some("head", Outcomes \ {"skipped"})
          /\ flags.fail <=> Some("head", {"failed", "canceled"})
          /\ Some("head", {"canceled"}) => flags.canceled
          /\ \A k \in 1..Len(steps) : steps[k].ui = steps[k].head
      BY DEF Inv, FlagsAgree
    <3>3. \A k \in 1..Len(steps') : steps'[k].ui = steps'[k].head
      BY <2>3, <2>6, <2>7, <3>2
    <3>4. flags'.skip <=> ~Some("head", Outcomes \ {"skipped"})'
      <4>1. Some("head", Outcomes \ {"skipped"})'
               <=> Some("head", Outcomes \ {"skipped"}) \/ o \in Outcomes \ {"skipped"}
        BY <3>1 DEF Outcomes
      <4> QED BY <2>3, <2>8, <3>2, <4>1
    <3>5. flags'.fail <=> Some("head", {"failed", "canceled"})'
      BY <2>8, <3>1, <3>2
    <3>6. Some("head", {"canceled"})' => flags'.canceled
      BY <2>8, <3>1, <3>2
    <3> QED BY <2>6, <2>8, <3>3, <3>4, <3>5, <3>6 DEF FlagsAgree
  <2>17. EndIsReached'
    <3> SUFFICES ASSUME Stops(o) PROVE Finished'
      BY <2>10 DEF EndIsReached
    <3>1. flags'.fail
      BY <2>8 DEF Stops
    <3>2. flags'.done
      BY <2>1, <2>5 DEF Stop, Note, TypeOK
    <3> QED BY <2>6, <3>1, <3>2 DEF Finished
  <2>18. Verdict'
    BY <1>0 DEF Inv, Verdict
  <2> QED BY <2>11, <2>12, <2>13, <2>14, <2>15, <2>16, <2>17, <2>18 DEF Inv
<1> QED BY <1>1, <1>2

(* A run that is over has its verdict from the flags. *)
LEMMA EmitRunDoneInv == Inv /\ EmitRunDone => Inv'
<1> SUFFICES ASSUME Inv, EmitRunDone PROVE Inv'
  OBVIOUS
<1>0. /\ pc = "finish" /\ pc' = "exit"
      /\ UNCHANGED <<plan, ctx, idx, iter, total, manual, res, flags, steps>>
  BY DEF EmitRunDone, loop, step
<1>1. TypeOK
  BY DEF Inv
<1>2. flags.done \in BOOLEAN /\ flags.seen \in BOOLEAN /\ flags.skip \in BOOLEAN
      /\ flags.fail \in BOOLEAN /\ flags.canceled \in BOOLEAN
  BY <1>1 DEF TypeOK
<1>3. rundone' \in [sent : BOOLEAN, success : BOOLEAN, skipped : BOOLEAN, canceled : BOOLEAN]
  BY <1>2 DEF EmitRunDone, NotSent
<1>4. err' \in BOOLEAN
  BY <1>1 DEF EmitRunDone, TypeOK
<1>5. TypeOK'
  BY <1>0, <1>1, <1>3, <1>4 DEF TypeOK, PCs
<1>6. InBounds' /\ Progress' /\ EndIsReached'
  BY <1>0 DEF InBounds, Outside, Progress, EndIsReached
<1>7. StepsInOrder' /\ FlagsAgree' /\ OnlyLastEnds'
  BY <1>0 DEF Inv, StepsInOrder, First, Follows, FlagsAgree, Some, OnlyLastEnds, Ends
<1>8. Verdict'
  <2> SUFFICES ASSUME rundone'.sent PROVE Verdict'
    BY DEF Verdict
  <2>1. ~ctx
    BY DEF EmitRunDone, NotSent
  <2>2. Finished /\ flags.done
    BY <1>0, <2>1 DEF Inv, EndIsReached, Finished
  <2>3. Finished'
    BY <1>0, <2>2 DEF Finished
  <2>4. /\ rundone'.success = (~flags.skip /\ ~flags.fail /\ ~flags.canceled)
        /\ rundone'.skipped = (flags.seen /\ flags.skip)
        /\ rundone'.canceled = flags.canceled
    BY <1>2, <2>1, <2>2 DEF EmitRunDone
  <2> QED BY <1>0, <2>3, <2>4 DEF Verdict
<1> QED BY <1>5, <1>6, <1>7, <1>8 DEF Inv

LEMMA NextInv == Inv /\ [Next]_vars => Inv'
<1> SUFFICES ASSUME Inv, [Next]_vars PROVE Inv'
  OBVIOUS
<1>1. CASE UNCHANGED vars
  BY <1>1 DEF vars, Inv, TypeOK, InBounds, Progress, Place, StepsInOrder, First, Follows,
              OnlyLastEnds, Ends, FlagsAgree, Some, EndIsReached, Finished, Verdict
<1>2. CASE EmitStepStart \/ EmitReqStart \/ EmitReqDone
  BY <1>2, EmitsInv
<1>3. CASE Next
  BY <1>2, <1>3, EmitRunStartInv, RunInv, RunStepInv, EvalConditionInv, WorkflowForEachInv,
     EvalForEachItemsInv, NextItemInv, SelectBranchInv, ExecuteWithInv, EmitStepDoneInv,
     EmitRunDoneInv, CancelInv DEF Next
<1> QED BY <1>1, <1>3

(* The flags say canceled only because of the context or of a failed step.  *)
LEMMA CancelIsRealStep == Inv /\ CancelIsReal /\ [Next]_vars => CancelIsReal'
<1> SUFFICES ASSUME Inv, CancelIsReal, [Next]_vars PROVE CancelIsReal'
  OBVIOUS
<1>0. TypeOK /\ (rundone.sent => pc = "exit")
  BY DEF Inv, Verdict
<1>1. CASE UNCHANGED <<flags, ctx, rundone>>
  BY <1>1 DEF CancelIsReal
<1>2. CASE /\ UNCHANGED <<ctx, rundone>>
           /\ \/ Stop(flags)
              \/ ctx /\ Stop(Canceled)
  BY <1>0, <1>2, FlagTypes DEF CancelIsReal, Stop
<1>3. CASE EmitStepDone
  <2> DEFINE o == EvalReq(Cur, res)
  <2>1. CASE ctx
    BY <1>3, <2>1 DEF EmitStepDone, CancelIsReal
  <2>2. CASE ~ctx
    <3>1. idx \in 1..Len(plan)
      BY <1>0, <1>3, PlanTypes DEF EmitStepDone, Inv, InBounds, Outside, TypeOK
    <3>2. Cur \in StepSpecs /\ res \in Results
      BY <1>0, <3>1, PlanTypes DEF Cur, TypeOK
    <3>3. o \in Outcomes
      BY <3>2, OutcomesAgree
    <3>4. flags' \in {Note(o), [Note(o) EXCEPT !.done = TRUE]} /\ UNCHANGED <<ctx, rundone>>
      BY <1>3, <2>2 DEF EmitStepDone, Stop
    <3> HIDE DEF o
    <3>5. /\ flags'.canceled = (flags.canceled \/ o = "canceled")
          /\ flags'.fail = (flags.fail \/ o \in {"failed", "canceled"})
      BY <1>0, <3>3, <3>4, NoteTypes
    <3> QED BY <3>4, <3>5 DEF CancelIsReal
  <2> QED BY <2>1, <2>2
<1>4. CASE EmitRunDone
  BY <1>4 DEF EmitRunDone, CancelIsReal, NotSent
<1>5. CASE Cancel
  BY <1>0, <1>5 DEF Cancel, CancelIsReal, out
<1>6. CASE \/ EmitRunStart \/ Run \/ RunStep \/ EvalForEachItems
           \/ EmitStepStart \/ EmitReqStart \/ ExecuteWith \/ EmitReqDone
  BY <1>1, <1>2, <1>6
     DEF EmitRunStart, Run, RunStep, EvalForEachItems, EmitStepStart, EmitReqStart, ExecuteWith,
         EmitReqDone, out
<1>7. CASE EvalCondition \/ WorkflowForEach \/ NextItem \/ SelectBranch
  BY <1>1, <1>2, <1>7
     DEF EvalCondition, WorkflowForEach, NextItem, SelectBranch, EvalFails, out
<1> QED BY <1>1, <1>3, <1>4, <1>5, <1>6, <1>7 DEF Next, vars

(* The invariant of a run: the place it has reached, its reports and its    *)
(* flags agree at every step of RunPlan.                                    *)
THEOREM WorkflowInvariant == Spec => [](Inv /\ CancelIsReal)
<1>1. Init => CancelIsReal
  BY DEF Init, CancelIsReal, NotSent
<1> QED BY <1>1, InitInv, NextInv, CancelIsRealStep, PTL DEF Spec

(* The type invariant: in particular r.idx never leaves the plan by more    *)
(* than one, nor the iteration the items.                                   *)
THEOREM TypeCorrect == Spec => []TypeOK
<1>1. Inv => TypeOK
  BY DEF Inv
<1> QED BY <1>1, WorkflowInvariant, PTL

(* finishStep: no step starts and none is reported after a canceled one or  *)
(* after a failed one that does not say continue.                           *)
THEOREM FailureStops == Spec => []StopsAtFailure
<1>1. Inv => StopsAtFailure
  <2> SUFFICES ASSUME Inv, NEW k \in 1..Len(steps), k < Len(steps) \/ pc = "stepstart"
               PROVE  ~Ends(steps[k])
    BY DEF StopsAtFailure, Ends
  <2>1. Len(steps) \in Nat
    BY DEF Inv, TypeOK
  <2> QED BY <2>1 DEF Inv, OnlyLastEnds
<1> QED BY <1>1, WorkflowInvariant, PTL

(* r.idx and the loop over the items: steps and iterations are reported in  *)
(* order, each once and none left out.                                      *)
THEOREM ReportsInOrder == Spec => []StepsInOrder
<1>1. Inv => StepsInOrder
  BY DEF Inv
<1> QED BY <1>1, WorkflowInvariant, PTL

(* emitRunDone: a run reported as a success or as skipped has reported the  *)
(* last item of its last step.                                              *)
THEOREM SuccessMeansComplete == Spec => []SuccessIsComplete
<1>1. Inv => SuccessIsComplete
  <2> SUFFICES ASSUME Inv, rundone.sent, rundone.success \/ rundone.skipped
               PROVE  /\ steps # << >>
                      /\ steps[Len(steps)].i = Len(plan)
                      /\ steps[Len(steps)].iter = steps[Len(steps)].total
    BY DEF SuccessIsComplete
  <2>1. /\ Finished
        /\ rundone.success = (~flags.skip /\ ~flags.fail /\ ~flags.canceled)
        /\ rundone.skipped = (flags.seen /\ flags.skip)
    BY DEF Inv, Verdict
  <2>2. Some("head", {"failed", "canceled"}) => Some("head", Outcomes \ {"skipped"})
    BY DEF Some, Outcomes
  <2>3. ~flags.fail
    BY <2>1, <2>2 DEF Inv, FlagsAgree
  <2> QED BY <2>1, <2>3 DEF Finished
<1> QED BY <1>1, WorkflowInvariant, PTL

(* buildWorkflowResult and statusLevel say of every run what the engine's   *)
(* own verdict says.                                                        *)
THEOREM VerdictsAgree == Spec => []ReportsAgree
<1>1. Inv /\ CancelIsReal => ReportsAgree
  <2> SUFFICES ASSUME Inv, CancelIsReal, rundone.sent
               PROVE  /\ BuildWorkflowResult = [canceled |-> rundone.canceled,
                                                skipped |-> rundone.skipped,
                                                success |-> rundone.success]
                      /\ StatusLevel = "success" <=> rundone.success \/ rundone.skipped
    BY DEF ReportsAgree
  <2>1. /\ steps # << >>
        /\ rundone.success = (~flags.skip /\ ~flags.fail /\ ~flags.canceled)
        /\ rundone.skipped = (flags.seen /\ flags.skip)
        /\ rundone.canceled = flags.canceled
        /\ flags.canceled => flags.fail
    BY DEF Inv, Verdict, Finished, CancelIsReal
  <2>2. /\ \A k \in 1..Len(steps) : steps[k].ui = steps[k].head
        /\ flags.seen
        /\ flags.skip <=> ~Some("head", Outcomes \ {"skipped"})
        /\ flags.fail <=> Some("head", {"failed", "canceled"})
        /\ Some("head", {"canceled"}) => flags.canceled
    BY <2>1 DEF Inv, FlagsAgree
  <2>3. flags.seen \in BOOLEAN /\ flags.skip \in BOOLEAN /\ flags.fail \in BOOLEAN
        /\ flags.canceled \in BOOLEAN
    BY DEF Inv, TypeOK
  <2>4. Some("head", {"failed", "canceled"}) => Some("head", Outcomes \ {"skipped"})
    BY DEF Some, Outcomes
  <2>5. Some("ui", {"failed", "canceled"}) <=> Some("head", {"failed", "canceled"})
    BY <2>2 DEF Some
  <2>6. (rundone.canceled \/ Some("head", {"canceled"})) = rundone.canceled
    BY <2>1, <2>2, <2>3
  <2>7. (steps # << >> /\ ~Some("head", Outcomes \ {"skipped"})) = rundone.skipped
    BY <2>1, <2>2, <2>3
  <2>8. (~rundone.canceled /\ ~rundone.skipped /\ ~Some("head", {"failed", "canceled"}))
            = rundone.success
    BY <2>1, <2>2, <2>3
  <2>9. BuildWorkflowResult = [canceled |-> rundone.canceled, skipped |-> rundone.skipped,
                               success |-> rundone.success]
    BY <2>6, <2>7, <2>8 DEF BuildWorkflowResult
  <2>10. StatusLevel = "success" <=> rundone.success \/ rundone.skipped
    BY <2>1, <2>2, <2>4, <2>5 DEF StatusLevel
  <2> QED BY <2>9, <2>10
<1> QED BY <1>1, WorkflowInvariant, PTL

=============================================================================
