------------------------------- MODULE UiRuns -------------------------------
(***************************************************************************)
(* The runs of the terminal UI: a request, a workflow (or for-each), a     *)
(* compare sweep and a profile, from the key that starts one to the        *)
(* message that ends it.                                                   *)
(*                                                                         *)
(* A run's worker is a goroutine that executes requests one by one and     *)
(* sends an event for each stage down the bounded channel runMsgChan; the  *)
(* update loop takes one message at a time, and the user's keys come in    *)
(* between.  The loop keeps one slot per kind of multi-request run, the    *)
(* flag `sending', and ONE cancel function, sendCancel.  A single request  *)
(* answers with a message of its own, outside the channel.                 *)
(*                                                                         *)
(* A workflow's events are sent under the run's context, so after a cancel *)
(* it sends no further event; compare and profile send theirs under a      *)
(* context that is never cancelled.  The context test of core.Emit and the *)
(* send are one step: an event tested before a cancel and sent after it is *)
(* an event the loop had not taken yet when the cancel came.               *)
(***************************************************************************)
EXTENDS Naturals, Sequences, FiniteSets

CONSTANTS
    MaxRuns,   \* bound on the runs a user starts
    UserKinds, \* the kinds of run the user starts
    Items,     \* requests (steps, rows, iterations) of a multi-request run
    ChanCap    \* capacity of runMsgChan (256 in the code)

ASSUME BoundsAssumption ==
    /\ MaxRuns \in Nat \ {0}
    /\ UserKinds \subseteq {"workflow", "compare", "profile", "single"}
    /\ Items \in Nat \ {0}
    /\ ChanCap \in Nat \ {0}

Runs == 1 .. MaxRuns
Slots == {"workflow", "compare", "profile"}
Kinds == Slots \union {"single"}
Results == {"none", "ok", "fail", "skip", "canceled"}
Events == {"RunStart", "StepStart", "ReqStart", "ReqDone", "StepDone",
           "ItemStart", "ItemDone", "RunDone", "WorkerDone"}
None == 0

VARIABLES
    kind,       \* kind[r] of a run, "none" before it starts
    ctx,        \* the run's context is cancelled
    pc,         \* where the run's worker is
    item,       \* the worker's loop index: items begun
    res,        \* the outcome of the worker's last item
    chan,       \* runMsgChan
    replies,    \* answers of single requests on their way to the loop
    slot,       \* m.profileRun, m.workflowRun, m.compareRun
    current,    \* state.current # nil
    canceled,   \* state.canceled
    results,    \* the items the UI recorded for the run
    final,      \* how often the run was finalized
    sending,    \* m.sending
    sendCancel  \* the run whose context m.sendCancel cancels, or None

worker == <<pc, item, res>>
ui == <<slot, current, canceled, results, final, sending, sendCancel>>
vars == <<kind, ctx, worker, chan, replies, ui>>

Msg == [run : Runs, ev : Events, item : 0 .. Items, res : Results]

TypeOK ==
    /\ kind \in [Runs -> Kinds \union {"none"}]
    /\ ctx \in [Runs -> BOOLEAN]
    /\ pc \in [Runs -> {"idle", "begin", "loop", "step", "exec", "done",
                        "stepdone", "finish", "report", "exit"}]
    /\ item \in [Runs -> 0 .. Items]
    /\ res \in [Runs -> Results]
    /\ chan \in Seq(Msg) /\ Len(chan) <= ChanCap
    /\ replies \subseteq Runs
    /\ slot \in [Slots -> Runs \union {None}]
    /\ current \in [Runs -> BOOLEAN]
    /\ canceled \in [Runs -> BOOLEAN]
    /\ results \in [Runs -> Seq(1 .. Items)]
    /\ final \in [Runs -> Nat]
    /\ sending \in BOOLEAN
    /\ sendCancel \in Runs \union {None}

Init ==
    /\ kind = [r \in Runs |-> "none"]
    /\ ctx = [r \in Runs |-> FALSE]
    /\ pc = [r \in Runs |-> "idle"]
    /\ item = [r \in Runs |-> 0]
    /\ res = [r \in Runs |-> "none"]
    /\ chan = << >>
    /\ replies = {}
    /\ slot = [s \in Slots |-> None]
    /\ current = [r \in Runs |-> FALSE]
    /\ canceled = [r \in Runs |-> FALSE]
    /\ results = [r \in Runs |-> << >>]
    /\ final = [r \in Runs |-> 0]
    /\ sending = FALSE
    /\ sendCancel = None

-----------------------------------------------------------------------------
(* The worker. *)

Goto(r, l) == pc' = [pc EXCEPT ![r] = l]

Send(r, ev) ==
    /\ Len(chan) < ChanCap
    /\ chan' = Append(chan, [run |-> r, ev |-> ev, item |-> item[r], res |-> res[r]])

(* Mutant: compare and profile emit under the run's context too. *)
RefusedAlways(r) == ctx[r]

(* core.Emit: under a cancelled context it fails without sending, and the  *)
(* worker returns the error.  Only a workflow emits under its own context. *)
Refused(r) == kind[r] = "workflow" /\ ctx[r]

Emit(r, ev, to) ==
    \/ Refused(r) /\ Goto(r, "report") /\ UNCHANGED chan
    \/ ~Refused(r) /\ Send(r, ev) /\ Goto(r, to)

EmitRunStart(r) ==
    /\ pc[r] = "begin" /\ kind[r] \in Slots
    /\ Emit(r, "RunStart", "loop")
    /\ UNCHANGED <<kind, ctx, item, res, replies, ui>>

(* The head of the loop: a cancelled context ends it, otherwise the next   *)
(* item begins and its first event is sent with the item's index.          *)
LoopStops(r) ==
    /\ pc[r] = "loop"
    /\ \/ ctx[r] /\ res' = [res EXCEPT ![r] = "canceled"]
       \/ ~ctx[r] /\ item[r] = Items /\ UNCHANGED res
    /\ Goto(r, "finish")
    /\ UNCHANGED <<kind, ctx, item, chan, replies, ui>>

NextItem(r) ==
    /\ pc[r] = "loop" /\ ~ctx[r] /\ item[r] < Items
    /\ Len(chan) < ChanCap
    /\ item' = [item EXCEPT ![r] = @ + 1]
    /\ res' = [res EXCEPT ![r] = "none"]
    /\ chan' = Append(chan,
                 [run |-> r, ev |-> IF kind[r] = "workflow" THEN "StepStart" ELSE "ItemStart",
                  item |-> item[r] + 1, res |-> "none"])
    /\ Goto(r, IF kind[r] = "workflow" THEN "step" ELSE "exec")
    /\ UNCHANGED <<kind, ctx, replies, ui>>

(* A workflow step sends a request, or has a result without one (skipped   *)
(* by @when, no branch taken, an evaluation that failed).                  *)
StepRequest(r) ==
    /\ pc[r] = "step"
    /\ Emit(r, "ReqStart", "exec")
    /\ UNCHANGED <<kind, ctx, item, res, replies, ui>>

StepManual(r) ==
    /\ pc[r] = "step"
    /\ \E o \in {"skip", "fail"} : res' = [res EXCEPT ![r] = o]
    /\ Goto(r, "stepdone")
    /\ UNCHANGED <<kind, ctx, item, chan, replies, ui>>

(* The request returns; a single request's answer goes to the loop.        *)
ExecuteWith(r) ==
    /\ pc[r] = "exec"
    /\ \E o \in {"ok", "fail", "skip", "canceled"} : res' = [res EXCEPT ![r] = o]
    /\ IF kind[r] = "single"
       THEN replies' = replies \union {r} /\ Goto(r, "exit")
       ELSE Goto(r, "done") /\ UNCHANGED replies
    /\ UNCHANGED <<kind, ctx, item, chan, ui>>

(* Mutant: a profile goes on after a skipped iteration. *)
AfterIgnoresSkip(r) ==
    CASE res[r] = "canceled" -> {"finish"}
      [] kind[r] = "workflow" /\ res[r] = "fail" -> {"finish", "loop"}
      [] OTHER -> {"loop"}

(* Whether the run goes on after an item: a cancelled one ends every run,  *)
(* a skipped one ends a profile, a failed one ends a workflow whose step   *)
(* does not say on-failure=continue.                                       *)
After(r) ==
    CASE res[r] = "canceled" -> {"finish"}
      [] kind[r] = "profile" /\ res[r] = "skip" -> {"finish"}
      [] kind[r] = "workflow" /\ res[r] = "fail" -> {"finish", "loop"}
      [] OTHER -> {"loop"}

EmitDone(r) ==
    /\ pc[r] = "done"
    /\ IF kind[r] = "workflow"
       THEN Emit(r, "ReqDone", "stepdone")
       ELSE \E l \in After(r) : Emit(r, "ItemDone", l)
    /\ UNCHANGED <<kind, ctx, item, res, replies, ui>>

EmitStepDone(r) ==
    /\ pc[r] = "stepdone"
    /\ \E l \in After(r) : Emit(r, "StepDone", l)
    /\ UNCHANGED <<kind, ctx, item, res, replies, ui>>

EmitRunDone(r) ==
    /\ pc[r] = "finish"
    /\ Emit(r, "RunDone", "report")
    /\ UNCHANGED <<kind, ctx, item, res, replies, ui>>

EmitWorkerDone(r) ==
    /\ pc[r] = "report"
    /\ Send(r, "WorkerDone")
    /\ Goto(r, "exit")
    /\ UNCHANGED <<kind, ctx, item, res, replies, ui>>

Worker(r) ==
    \/ EmitRunStart(r) \/ LoopStops(r) \/ NextItem(r)
    \/ StepRequest(r) \/ StepManual(r)
    \/ EmitDone(r) \/ EmitStepDone(r) \/ EmitRunDone(r) \/ EmitWorkerDone(r)

-----------------------------------------------------------------------------
(* The update loop: keys. *)

HasActiveRun == sending \/ \E s \in Slots : slot[s] # None

(* cancelRuns: every slot's run is marked; one with no request under way   *)
(* is finalized on the spot; the one cancel function is called.            *)
Marked == {r \in Runs : \E s \in Slots : slot[s] = r}
Dropped == {r \in Marked : ~current[r]}
SlotAfterCancel == [s \in Slots |-> IF slot[s] \in Dropped THEN None ELSE slot[s]]

CancelEffects ==
    /\ canceled' = [r \in Runs |-> canceled[r] \/ r \in Marked]
    /\ final' = [r \in Runs |-> IF r \in Dropped THEN final[r] + 1 ELSE final[r]]
    /\ ctx' = [r \in Runs |-> ctx[r] \/ r = sendCancel]

CancelActiveRuns ==
    /\ HasActiveRun
    /\ CancelEffects
    /\ slot' = SlotAfterCancel
    /\ sending' = FALSE
    /\ UNCHANGED <<kind, worker, chan, replies, current, results, sendCancel>>

(* A run begins: its context's cancel function replaces the one the model  *)
(* holds.  A request, a compare and a profile show as sending at once.     *)
Begin(r, k, slots) ==
    /\ kind[r] = "none" /\ \A q \in Runs : q < r => kind[q] # "none"
    /\ kind' = [kind EXCEPT ![r] = k]
    /\ Goto(r, IF k = "single" THEN "exec" ELSE "begin")
    /\ slot' = IF k \in Slots THEN [slots EXCEPT ![k] = r] ELSE slots
    /\ current' = [current EXCEPT ![r] = k \in {"compare", "profile"}]
    /\ sendCancel' = r
    /\ UNCHANGED <<item, res, chan, replies, results>>

(* A workflow and a compare refuse to start over one of their kind; a      *)
(* profile takes the slot over.                                            *)
SlotFree(k, slots) == k \in {"workflow", "compare"} => slots[k] = None

(* sendActiveRequest (send, explain): cancel what is active, then start.   *)
SendActiveRequest(r, k) ==
    /\ HasActiveRun
    /\ SlotFree(k, SlotAfterCancel)
    /\ CancelEffects
    /\ Begin(r, k, SlotAfterCancel)
    /\ sending' = (k # "workflow")

(* The same with nothing active, and the keys that do not cancel first:    *)
(* the workflow list, the configured compare, the replay of a request.     *)
Start(r, k) ==
    /\ HasActiveRun => k # "profile"
    /\ SlotFree(k, slot)
    /\ Begin(r, k, slot)
    /\ sending' = (sending \/ k # "workflow")
    /\ UNCHANGED <<ctx, canceled, final>>

-----------------------------------------------------------------------------
(* The update loop: messages. *)

Take == chan # << >> /\ chan' = Tail(chan)

(* Mutant: a finalized run keeps its slot. *)
FinalizeKeepsSlot(r, k) ==
    /\ slot' = slot
    /\ final' = [final EXCEPT ![r] = @ + 1]
    /\ sending' = FALSE

Finalize(r, k) ==
    /\ slot' = [slot EXCEPT ![k] = None]
    /\ final' = [final EXCEPT ![r] = @ + 1]
    /\ sending' = FALSE

Record(r, i) == results' = [results EXCEPT ![r] = Append(@, i)]

(* An event is for the run that holds the slot of its kind, unless the     *)
(* slot is empty or the ids differ (runIDMismatch): then it is dropped.    *)
Holder(m) == slot[kind[m.run]]

(* Mutant: no comparison of run ids. *)
AcceptedAnyRun(m) == Holder(m) # None

Accepted(m) == Holder(m) # None /\ Holder(m) = m.run

HandleStale ==
    /\ Take
    /\ Head(chan).ev # "WorkerDone" /\ ~Accepted(Head(chan))
    /\ UNCHANGED <<kind, ctx, worker, replies, ui>>

HandleWorkflowRunEvt(m) ==
    LET r == Holder(m) IN
    \/ /\ m.ev \in {"RunStart", "StepStart", "ReqStart", "ReqDone"}
       /\ current' = [current EXCEPT ![r] = (m.ev = "ReqStart") \/ (@ /\ m.ev = "RunStart")]
       /\ sending' = (sending \/ m.ev = "ReqStart")
       /\ UNCHANGED <<slot, canceled, results, final, sendCancel>>
    \/ /\ m.ev = "StepDone"
       /\ IF m.res = "canceled"
          THEN canceled' = [canceled EXCEPT ![r] = TRUE] /\ UNCHANGED results
          ELSE Record(r, m.item) /\ UNCHANGED canceled
       /\ UNCHANGED <<slot, current, final, sending, sendCancel>>
    \/ /\ m.ev = "RunDone"
       /\ canceled' = [canceled EXCEPT ![r] = @ \/ m.res = "canceled"]
       /\ current' = [current EXCEPT ![r] = FALSE]
       /\ sendCancel' = None
       /\ Finalize(r, "workflow")
       /\ UNCHANGED results

HandleCompareRunEvt(m) ==
    LET r == Holder(m)
        gone == canceled[r] \/ m.res = "canceled" IN
    \/ m.ev = "RunStart" /\ UNCHANGED ui
    \/ /\ m.ev = "ItemStart"
       /\ current' = [current EXCEPT ![r] = TRUE]
       /\ sending' = TRUE
       /\ UNCHANGED <<slot, canceled, results, final, sendCancel>>
    \/ /\ m.ev = "ItemDone"
       /\ current' = [current EXCEPT ![r] = FALSE]
       /\ canceled' = [canceled EXCEPT ![r] = gone]
       /\ Record(r, m.item)
       /\ IF gone \/ m.item = Items
          THEN Finalize(r, "compare")
          ELSE sending' = FALSE /\ UNCHANGED <<slot, final>>
       /\ UNCHANGED sendCancel
    \/ /\ m.ev = "RunDone"
       /\ canceled' = [canceled EXCEPT ![r] = gone]
       /\ sendCancel' = None
       /\ Finalize(r, "compare")
       /\ UNCHANGED <<current, results>>

HandleProfileRunEvt(m) ==
    LET r == Holder(m)
        gone == canceled[r] \/ m.res = "canceled" IN
    \/ m.ev = "RunStart" /\ UNCHANGED ui
    \/ /\ m.ev = "ItemStart"
       /\ current' = [current EXCEPT ![r] = TRUE]
       /\ sending' = TRUE
       /\ UNCHANGED <<slot, canceled, results, final, sendCancel>>
    \/ /\ m.ev = "ItemDone"
       /\ current' = [current EXCEPT ![r] = FALSE]
       /\ canceled' = [canceled EXCEPT ![r] = gone]
       /\ IF gone \/ m.res = "skip" THEN UNCHANGED results ELSE Record(r, m.item)
       /\ IF gone \/ m.res = "skip" \/ Len(results'[r]) = Items
          THEN Finalize(r, "profile")
          ELSE UNCHANGED <<slot, final, sending>>
       /\ UNCHANGED sendCancel
    \/ /\ m.ev = "RunDone"
       /\ canceled' = [canceled EXCEPT ![r] = gone]
       /\ sendCancel' = None
       /\ IF ~current[r] /\ (gone \/ Len(results[r]) = Items)
          THEN Finalize(r, "profile")
          ELSE UNCHANGED <<slot, final, sending>>
       /\ UNCHANGED <<current, results>>

HandleRunEvt ==
    /\ Take
    /\ LET m == Head(chan) IN
       /\ m.ev # "WorkerDone" /\ Accepted(m)
       /\ \/ kind[m.run] = "workflow" /\ HandleWorkflowRunEvt(m)
          \/ kind[m.run] = "compare" /\ HandleCompareRunEvt(m)
          \/ kind[m.run] = "profile" /\ HandleProfileRunEvt(m)
    /\ UNCHANGED <<kind, ctx, worker, replies>>

(* The run the loop takes the worker's end to be of: profile first, then   *)
(* workflow, then compare; None when no slot is taken.                     *)
ActiveID ==
    CASE slot["profile"] # None -> slot["profile"]
      [] slot["workflow"] # None -> slot["workflow"]
      [] OTHER -> slot["compare"]

HandleRunWorkerDone ==
    /\ Take
    /\ Head(chan).ev = "WorkerDone"
    /\ sendCancel' = IF ActiveID \in {None, Head(chan).run} THEN None ELSE sendCancel
    /\ UNCHANGED <<kind, ctx, worker, replies, slot, current, canceled, results, final, sending>>

(* The answer of a single request. *)
HandleRunReqMsg(r) ==
    /\ r \in replies
    /\ replies' = replies \ {r}
    /\ sending' = FALSE
    /\ sendCancel' = None
    /\ UNCHANGED <<kind, ctx, worker, chan, slot, current, canceled, results, final>>

Update == HandleStale \/ HandleRunEvt \/ HandleRunWorkerDone

Next ==
    \/ \E r \in Runs : Worker(r) \/ ExecuteWith(r) \/ HandleRunReqMsg(r)
    \/ \E r \in Runs, k \in UserKinds : SendActiveRequest(r, k) \/ Start(r, k)
    \/ CancelActiveRuns
    \/ Update

(* Every goroutine and the update loop keep running.  A request is only    *)
(* obliged to return once its context is cancelled.                        *)
Fairness ==
    /\ WF_vars(Update)
    /\ \A r \in Runs :
         /\ WF_vars(Worker(r))
         /\ WF_vars(ctx[r] /\ ExecuteWith(r))
         /\ WF_vars(HandleRunReqMsg(r))

Spec == Init /\ [][Next]_vars
FairSpec == Spec /\ Fairness

-----------------------------------------------------------------------------
(* Properties. *)

InFlight(r) == pc[r] = "exec"

(* A run is reported once: the key that cancels it, its last item and its  *)
(* RunDone event may each find it finished, and only one of them writes    *)
(* its report and its history entry (finalizeWorkflowRun,                  *)
(* finalizeCompareRun, finalizeProfileRun).                                *)
ReportedOnce == \A r \in Runs : final[r] <= 1

(* A report shows the run's own items, each once and in order: events of   *)
(* an earlier run still queued when its slot was taken again leave no      *)
(* trace in the newer run's results (runIDMismatch).                       *)
ReportsOwnItems ==
    \A r \in Runs :
        /\ results[r] = [i \in 1 .. Len(results[r]) |-> i]
        /\ Len(results[r]) <= item[r]

(* A run reported without being cancelled is complete: its worker has no   *)
(* request left to send, and the report has every item it ran (a profile   *)
(* does not count the skipped iteration that ended it).                    *)
ReportIsComplete ==
    \A r \in Runs : final[r] > 0 /\ ~canceled[r] =>
        /\ pc[r] \in {"loop", "finish", "report", "exit"}
        /\ pc[r] = "loop" => ctx[r] \/ item[r] = Items
        /\ \/ Len(results[r]) = item[r]
           \/ kind[r] = "profile" /\ res[r] = "skip" /\ Len(results[r]) = item[r] - 1

(* The worker of a cancelled run always gets out, however full the channel *)
(* is, and a cancelled compare run always gives its slot back.             *)
CanceledRunEnds ==
    \A r \in Runs :
        ctx[r] ~> pc[r] = "exit" /\ (kind[r] = "compare" => slot["compare"] # r)

(* What the tests of the UI expect of a cancelled workflow: the run is     *)
(* finalized.                                                              *)
CanceledWorkflowFinalizes ==
    \A r \in Runs : kind[r] = "workflow" /\ ctx[r] ~> slot["workflow"] # r

(* What the key reference says of cancel_run: it cancels the request in    *)
(* flight, so the model holds the cancel function of the latest run for as *)
(* long as it has a request in flight and was not cancelled.               *)
LatestCanBeCanceled ==
    \A r \in Runs :
        InFlight(r) /\ ~ctx[r] /\ (\A q \in Runs : kind[q] # "none" => q <= r)
            => sendCancel = r

=============================================================================
