---------------------------- MODULE UiRunsProofs ----------------------------
(***************************************************************************)
(* Theorems about UiRuns for any number of runs and items, any mix of      *)
(* kinds and any capacity of runMsgChan.                                   *)
(***************************************************************************)
EXTENDS UiRuns, Integers, TLAPS

(* A message that ends an item, and one the UI records the item of: a       *)
(* cancelled step of a workflow and the iteration that ends a profile are   *)
(* not recorded.                                                            *)
Done(m) == m.ev \in {"StepDone", "ItemDone"}
CountedAs(k, m) ==
    /\ Done(m)
    /\ k = "workflow" => m.res # "canceled"
    /\ k = "profile" => m.res \notin {"skip", "canceled"}
Counted(m) == CountedAs(kind[m.run], m)

(* Item x of run r, of kind k, is to be recorded from one of the first n     *)
(* messages of c; every item after b up to x is.                             *)
QueuedIn(c, k, r, x, n) ==
    \E j \in 1..n : c[j].run = r /\ CountedAs(k, c[j]) /\ c[j].item = x
UptoIn(c, k, r, b, x, n) == \A y \in (b + 1)..x : QueuedIn(c, k, r, y, n)
Upto(r, x, n) == UptoIn(chan, kind[r], r, Len(results[r]), x, n)

Holds(r) == kind[r] \in Slots /\ slot[kind[r]] = r
Busy(r) == kind[r] \in Slots /\ pc[r] \in {"step", "exec", "done", "stepdone"}
Over(r) == pc[r] \in {"finish", "report", "exit"}

(* A slot holds a run of its kind that was not reported yet. *)
SlotInv ==
    /\ \A s \in Slots : slot[s] # None => kind[slot[s]] = s /\ final[slot[s]] = 0
    /\ \A r \in Runs : kind[r] = "none" => final[r] = 0
    /\ ReportedOnce

(* The worker: what its place says of the run. *)
WorkerInv ==
    \A r \in Runs :
        /\ kind[r] = "none" <=> pc[r] = "idle"
        /\ kind[r] = "single" => pc[r] \in {"exec", "exit"}
        /\ pc[r] \in {"step", "stepdone"} => kind[r] = "workflow"
        /\ pc[r] \in {"idle", "begin"} => item[r] = 0
        /\ Len(results[r]) <= item[r]
        /\ Busy(r) => Len(results[r]) < item[r]
        /\ results[r] = [i \in 1 .. Len(results[r]) |-> i]

(* The messages of a run in the channel, in the order it sent them. *)
ChanInv ==
    \A i \in DOMAIN chan :
        LET m == chan[i]
            r == m.run IN
        /\ kind[r] \in Slots /\ pc[r] # "begin"
        /\ Done(m) => /\ m.item <= item[r]
                      /\ Busy(r) => m.item < item[r]
                      /\ kind[r] = "profile" /\ m.res = "skip" =>
                            m.item = item[r] /\ res[r] = "skip" /\ Over(r)
        /\ Done(m) => \A j \in DOMAIN chan :
                        i < j /\ chan[j].run = r /\ Done(chan[j]) => m.item < chan[j].item
        /\ m.ev = "RunDone" => /\ pc[r] \in {"report", "exit"}
                               /\ m.item = item[r] /\ m.res = res[r]

(* Of a run that still holds its slot nothing is lost: the items between    *)
(* what the UI recorded and what the worker finished are in the channel,    *)
(* each before the messages the worker sent after it.                       *)
HolderInv ==
    \A r \in Runs : Holds(r) =>
        /\ Busy(r) => Upto(r, item[r] - 1, Len(chan))
        /\ pc[r] = "loop" => Upto(r, item[r], Len(chan))
        /\ pc[r] = "finish" /\ kind[r] # "profile" /\ res[r] # "canceled" =>
              Upto(r, item[r], Len(chan))
        /\ \A i \in DOMAIN chan : chan[i].run = r =>
              /\ Done(chan[i]) => /\ chan[i].item > Len(results[r])
                                  /\ Upto(r, chan[i].item - 1, i - 1)
              /\ chan[i].ev = "RunDone" /\ kind[r] # "profile" /\ chan[i].res # "canceled" =>
                    Upto(r, chan[i].item, i - 1)

(* A run reported without being cancelled has nothing left to record.       *)
FinalInv ==
    \A r \in Runs : final[r] > 0 /\ ~canceled[r] =>
        \/ /\ pc[r] \in {"loop", "finish", "report", "exit"}
           /\ pc[r] = "loop" => item[r] = Items
           /\ Len(results[r]) = item[r]
        \/ /\ Over(r) /\ kind[r] = "profile" /\ res[r] = "skip"
           /\ Len(results[r]) = item[r] - 1

RunInv == SlotInv /\ WorkerInv /\ ChanInv /\ HolderInv /\ FinalInv

-----------------------------------------------------------------------------
(* What a step does, as far as the invariant is concerned. *)

(* A message of run r is handled and r keeps its slot or is reported.  A     *)
(* report that was not cancelled has a reason: the run's end, its last item, *)
(* or the skipped iteration that ends a profile.                             *)
Kept(r, m) ==
    /\ slot' = slot /\ final' = final
    /\ results'[r] = IF Counted(m) THEN Append(results[r], m.item) ELSE results[r]
Complete(r, m) ==
    \/ /\ m.ev = "RunDone" /\ m.res # "canceled" /\ results'[r] = results[r]
       /\ kind[r] = "profile" => Len(results[r]) = Items
    \/ /\ Counted(m) /\ results'[r] = Append(results[r], m.item)
       /\ m.item = Items \/ Len(results'[r]) = Items
    \/ /\ kind[r] = "profile" /\ Done(m) /\ m.res = "skip" /\ results'[r] = results[r]
Reported(r, m) ==
    /\ slot' = [slot EXCEPT ![kind[r]] = None] /\ final' = [final EXCEPT ![r] = @ + 1]
    /\ results'[r] = results[r] \/ (Done(m) /\ results'[r] = Append(results[r], m.item))
    /\ canceled'[r] \/ Complete(r, m)
EventEffect(r, m) ==
    /\ \A q \in Runs : q # r => results'[q] = results[q] /\ canceled'[q] = canceled[q]
    /\ canceled[r] => canceled'[r]
    /\ results' = [results EXCEPT ![r] = results'[r]]
    /\ canceled' \in [Runs -> BOOLEAN] /\ current' \in [Runs -> BOOLEAN]
    /\ sending' \in BOOLEAN /\ sendCancel' \in {sendCancel, None}
    /\ Kept(r, m) \/ Reported(r, m)

LEMMA WorkflowEffect ==
    ASSUME TypeOK, NEW m \in Msg, kind[m.run] = "workflow", slot["workflow"] = m.run,
           HandleWorkflowRunEvt(m)
    PROVE  EventEffect(m.run, m)
<1> DEFINE r == m.run
<1>0. r \in Runs /\ Holder(m) = r
  BY DEF Msg, Holder
<1>t. /\ results \in [Runs -> Seq(1 .. Items)] /\ canceled \in [Runs -> BOOLEAN]
      /\ current \in [Runs -> BOOLEAN] /\ sending \in BOOLEAN
  BY DEF TypeOK
<1> HIDE DEF r
<1>1. CASE m.ev \in {"RunStart", "StepStart", "ReqStart", "ReqDone"}
  <2>1. /\ current' = [current EXCEPT ![r] = (m.ev = "ReqStart") \/ (@ /\ m.ev = "RunStart")]
        /\ sending' = (sending \/ m.ev = "ReqStart")
        /\ UNCHANGED <<slot, canceled, results, final, sendCancel>>
    BY <1>0, <1>1 DEF HandleWorkflowRunEvt
  <2>2. ~Done(m)
    BY <1>1 DEF Done
  <2>3. sending' \in BOOLEAN /\ current' \in [Runs -> BOOLEAN]
    BY <1>t, <2>1
  <2>4. results' = [results EXCEPT ![r] = results'[r]]
    BY <1>t, <2>1
  <2> QED BY <1>t, <2>1, <2>2, <2>3, <2>4 DEF EventEffect, Kept, Counted, CountedAs, r
<1>2. CASE m.ev = "StepDone"
  <2>1. Done(m) /\ (Counted(m) <=> m.res # "canceled")
    BY <1>2 DEF Done, Counted, CountedAs
  <2>2. UNCHANGED <<slot, current, final, sending, sendCancel>>
    BY <1>0, <1>2 DEF HandleWorkflowRunEvt
  <2>3. CASE m.res = "canceled"
    <3>1. canceled' = [canceled EXCEPT ![r] = TRUE] /\ results' = results
      BY <1>0, <1>2, <2>3 DEF HandleWorkflowRunEvt
    <3>2. results' = [results EXCEPT ![r] = results'[r]]
      BY <1>t, <3>1
    <3> QED BY <1>0, <1>t, <2>1, <2>2, <2>3, <3>1, <3>2 DEF EventEffect, Kept, r
  <2>4. CASE m.res # "canceled"
    <3>1. results' = [results EXCEPT ![r] = Append(results[r], m.item)] /\ canceled' = canceled
      BY <1>0, <1>2, <2>4 DEF HandleWorkflowRunEvt, Record
    <3>2. results'[r] = Append(results[r], m.item)
      BY <1>0, <1>t, <3>1
    <3>3. \A q \in Runs : q # r => results'[q] = results[q]
      BY <1>0, <1>t, <3>1
    <3> QED BY <1>0, <1>t, <2>1, <2>2, <2>4, <3>1, <3>2, <3>3 DEF EventEffect, Kept, r
  <2> QED BY <2>3, <2>4
<1>3. CASE m.ev = "RunDone"
  <2>1. /\ canceled' = [canceled EXCEPT ![r] = @ \/ m.res = "canceled"]
        /\ current' = [current EXCEPT ![r] = FALSE]
        /\ sendCancel' = None /\ results' = results
        /\ slot' = [slot EXCEPT !["workflow"] = None]
        /\ final' = [final EXCEPT ![r] = @ + 1]
        /\ sending' = FALSE
    BY <1>0, <1>3 DEF HandleWorkflowRunEvt, Finalize
  <2>2. canceled'[r] \/ m.res # "canceled"
    BY <1>0, <1>t, <2>1
  <2>3. canceled' \in [Runs -> BOOLEAN] /\ current' \in [Runs -> BOOLEAN]
    BY <1>0, <1>t, <2>1
  <2>4. results' = [results EXCEPT ![r] = results'[r]]
    BY <1>t, <2>1
  <2>5. \A q \in Runs : q # r => canceled'[q] = canceled[q]
    BY <1>0, <1>t, <2>1
  <2>6. canceled[r] => canceled'[r]
    BY <1>0, <1>t, <2>1
  <2> QED BY <1>0, <1>3, <2>1, <2>2, <2>3, <2>4, <2>5, <2>6
          DEF EventEffect, Reported, Complete, r
<1> QED BY <1>1, <1>2, <1>3 DEF HandleWorkflowRunEvt

LEMMA CompareEffect ==
    ASSUME TypeOK, NEW m \in Msg, kind[m.run] = "compare", slot["compare"] = m.run,
           HandleCompareRunEvt(m)
    PROVE  EventEffect(m.run, m)
<1> DEFINE r == m.run
           gone == canceled[r] \/ m.res = "canceled"
<1>0. r \in Runs /\ Holder(m) = r
  BY DEF Msg, Holder
<1>t. /\ results \in [Runs -> Seq(1 .. Items)] /\ canceled \in [Runs -> BOOLEAN]
      /\ current \in [Runs -> BOOLEAN] /\ sending \in BOOLEAN
  BY DEF TypeOK
<1> HIDE DEF r
<1>g. gone \in BOOLEAN
  OBVIOUS
<1>1. CASE m.ev = "RunStart"
  <2>1. UNCHANGED <<slot, current, canceled, results, final, sending, sendCancel>>
    BY <1>0, <1>1 DEF HandleCompareRunEvt, ui
  <2>2. ~Done(m)
    BY <1>1 DEF Done
  <2>3. results' = [results EXCEPT ![r] = results'[r]]
    BY <1>t, <2>1
  <2> QED BY <1>t, <2>1, <2>2, <2>3 DEF EventEffect, Kept, Counted, CountedAs, r
<1>2. CASE m.ev = "ItemStart"
  <2>1. /\ current' = [current EXCEPT ![r] = TRUE] /\ sending' = TRUE
        /\ UNCHANGED <<slot, canceled, results, final, sendCancel>>
    BY <1>0, <1>2 DEF HandleCompareRunEvt
  <2>2. ~Done(m)
    BY <1>2 DEF Done
  <2>3. results' = [results EXCEPT ![r] = results'[r]]
    BY <1>t, <2>1
  <2>4. current' \in [Runs -> BOOLEAN]
    BY <1>t, <2>1
  <2> QED BY <1>t, <2>1, <2>2, <2>3, <2>4 DEF EventEffect, Kept, Counted, CountedAs, r
<1>3. CASE m.ev = "ItemDone"
  <2>a. /\ current' = [current EXCEPT ![r] = FALSE]
        /\ canceled' = [canceled EXCEPT ![r] = gone] /\ sendCancel' = sendCancel
    BY <1>0, <1>3 DEF HandleCompareRunEvt, r
  <2> HIDE DEF gone
  <2>b. /\ current' \in [Runs -> BOOLEAN] /\ canceled' \in [Runs -> BOOLEAN]
        /\ canceled'[r] = gone /\ \A q \in Runs : q # r => canceled'[q] = canceled[q]
    BY <1>0, <1>t, <1>g, <2>a
  <2>c. canceled[r] => canceled'[r]
    BY <2>b DEF gone
  <2>d. Done(m)
    BY <1>3 DEF Done
  <2>1. results' = [results EXCEPT ![r] = Append(results[r], m.item)]
    BY <1>0, <1>3 DEF HandleCompareRunEvt, Record
  <2>2. /\ results'[r] = Append(results[r], m.item)
        /\ \A q \in Runs : q # r => results'[q] = results[q]
    BY <1>0, <1>t, <2>1
  <2>3. Counted(m)
    BY <2>d DEF Counted, CountedAs
  <2>4. CASE gone \/ m.item = Items
    <3>1. /\ slot' = [slot EXCEPT !["compare"] = None]
          /\ final' = [final EXCEPT ![r] = @ + 1] /\ sending' = FALSE
      BY <1>0, <1>3, <2>4 DEF HandleCompareRunEvt, Finalize, gone, r
    <3>2. Reported(r, m)
      BY <2>2, <2>3, <2>4, <2>b, <2>d, <3>1 DEF Reported, Complete, r
    <3> QED BY <2>1, <2>2, <2>a, <2>b, <2>c, <3>1, <3>2 DEF EventEffect, r
  <2>5. CASE ~(gone \/ m.item = Items)
    <3>1. slot' = slot /\ final' = final /\ sending' = FALSE
      BY <1>0, <1>3, <2>5 DEF HandleCompareRunEvt, gone, r
    <3>2. Kept(r, m)
      BY <2>2, <2>3, <3>1 DEF Kept
    <3> QED BY <2>1, <2>2, <2>a, <2>b, <2>c, <3>1, <3>2 DEF EventEffect, r
  <2> QED BY <2>4, <2>5
<1>4. CASE m.ev = "RunDone"
  <2>1. /\ canceled' = [canceled EXCEPT ![r] = gone] /\ sendCancel' = None
        /\ UNCHANGED <<current, results>>
        /\ slot' = [slot EXCEPT !["compare"] = None]
        /\ final' = [final EXCEPT ![r] = @ + 1] /\ sending' = FALSE
    BY <1>0, <1>4 DEF HandleCompareRunEvt, Finalize, r
  <2> HIDE DEF gone
  <2>2. /\ canceled' \in [Runs -> BOOLEAN] /\ canceled'[r] = gone
        /\ \A q \in Runs : q # r => canceled'[q] = canceled[q]
    BY <1>0, <1>t, <1>g, <2>1
  <2>3. (canceled[r] => canceled'[r]) /\ (canceled'[r] \/ m.res # "canceled")
    BY <2>2 DEF gone
  <2>4. Reported(r, m)
    BY <1>4, <2>1, <2>3 DEF Reported, Complete, r
  <2>5. results' = [results EXCEPT ![r] = results'[r]]
    BY <1>t, <2>1
  <2> QED BY <1>t, <2>1, <2>2, <2>3, <2>4, <2>5 DEF EventEffect, r
<1> QED BY <1>1, <1>2, <1>3, <1>4 DEF HandleCompareRunEvt

LEMMA ProfileEffect ==
    ASSUME TypeOK, NEW m \in Msg, kind[m.run] = "profile", slot["profile"] = m.run,
           HandleProfileRunEvt(m)
    PROVE  EventEffect(m.run, m)
<1> DEFINE r == m.run
           gone == canceled[r] \/ m.res = "canceled"
<1>0. r \in Runs /\ Holder(m) = r
  BY DEF Msg, Holder
<1>t. /\ results \in [Runs -> Seq(1 .. Items)] /\ canceled \in [Runs -> BOOLEAN]
      /\ current \in [Runs -> BOOLEAN] /\ sending \in BOOLEAN
  BY DEF TypeOK
<1> HIDE DEF r
<1>g. gone \in BOOLEAN
  OBVIOUS
<1>1. CASE m.ev = "RunStart"
  <2>1. UNCHANGED <<slot, current, canceled, results, final, sending, sendCancel>>
    BY <1>0, <1>1 DEF HandleProfileRunEvt, ui
  <2>2. ~Done(m)
    BY <1>1 DEF Done
  <2>3. results' = [results EXCEPT ![r] = results'[r]]
    BY <1>t, <2>1
  <2> QED BY <1>t, <2>1, <2>2, <2>3 DEF EventEffect, Kept, Counted, CountedAs, r
<1>2. CASE m.ev = "ItemStart"
  <2>1. /\ current' = [current EXCEPT ![r] = TRUE] /\ sending' = TRUE
        /\ UNCHANGED <<slot, canceled, results, final, sendCancel>>
    BY <1>0, <1>2 DEF HandleProfileRunEvt
  <2>2. ~Done(m)
    BY <1>2 DEF Done
  <2>3. results' = [results EXCEPT ![r] = results'[r]]
    BY <1>t, <2>1
  <2>4. current' \in [Runs -> BOOLEAN]
    BY <1>t, <2>1
  <2> QED BY <1>t, <2>1, <2>2, <2>3, <2>4 DEF EventEffect, Kept, Counted, CountedAs, r
<1>3. CASE m.ev = "ItemDone"
  <2>a. /\ current' = [current EXCEPT ![r] = FALSE]
        /\ canceled' = [canceled EXCEPT ![r] = gone] /\ sendCancel' = sendCancel
    BY <1>0, <1>3 DEF HandleProfileRunEvt, r
  <2> HIDE DEF gone
  <2>b. /\ current' \in [Runs -> BOOLEAN] /\ canceled' \in [Runs -> BOOLEAN]
        /\ canceled'[r] = gone /\ \A q \in Runs : q # r => canceled'[q] = canceled[q]
    BY <1>0, <1>t, <1>g, <2>a
  <2>c. canceled[r] => canceled'[r]
    BY <2>b DEF gone
  <2>d. Done(m)
    BY <1>3 DEF Done
  <2>1. CASE gone \/ m.res = "skip"
    <3>1. results' = results
      BY <1>0, <1>3, <2>1 DEF HandleProfileRunEvt, gone, r
    <3>2. /\ slot' = [slot EXCEPT !["profile"] = None]
          /\ final' = [final EXCEPT ![r] = @ + 1] /\ sending' = FALSE
      BY <1>0, <1>3, <2>1 DEF HandleProfileRunEvt, Finalize, gone, r
    <3>3. Reported(r, m)
      BY <2>1, <2>b, <2>d, <3>1, <3>2 DEF Reported, Complete, r
    <3>4. results' = [results EXCEPT ![r] = results'[r]]
      BY <1>t, <3>1
    <3> QED BY <2>a, <2>b, <2>c, <3>1, <3>2, <3>3, <3>4 DEF EventEffect, r
  <2>2. CASE ~(gone \/ m.res = "skip")
    <3>1. results' = [results EXCEPT ![r] = Append(results[r], m.item)]
      BY <1>0, <1>3, <2>2 DEF HandleProfileRunEvt, Record, gone, r
    <3>2. /\ results'[r] = Append(results[r], m.item)
          /\ \A q \in Runs : q # r => results'[q] = results[q]
      BY <1>0, <1>t, <3>1
    <3>3. Counted(m)
      BY <2>2, <2>d DEF Counted, CountedAs, gone, r
    <3>4. CASE Len(results'[r]) = Items
      <4>1. /\ slot' = [slot EXCEPT !["profile"] = None]
            /\ final' = [final EXCEPT ![r] = @ + 1] /\ sending' = FALSE
        BY <1>0, <1>3, <2>2, <3>4 DEF HandleProfileRunEvt, Finalize, gone, r
      <4>2. Reported(r, m)
        BY <2>d, <3>2, <3>3, <3>4, <4>1 DEF Reported, Complete, r
      <4> QED BY <2>a, <2>b, <2>c, <3>1, <3>2, <4>1, <4>2 DEF EventEffect, r
    <3>5. CASE Len(results'[r]) # Items
      <4>1. UNCHANGED <<slot, final, sending>>
        BY <1>0, <1>3, <2>2, <3>5 DEF HandleProfileRunEvt, gone, r
      <4>2. Kept(r, m)
        BY <3>2, <3>3, <4>1 DEF Kept
      <4> QED BY <1>t, <2>a, <2>b, <2>c, <3>1, <3>2, <4>1, <4>2 DEF EventEffect, r
    <3> QED BY <3>4, <3>5
  <2> QED BY <2>1, <2>2
<1>4. CASE m.ev = "RunDone"
  <2>1. /\ canceled' = [canceled EXCEPT ![r] = gone] /\ sendCancel' = None
        /\ UNCHANGED <<current, results>>
    BY <1>0, <1>4 DEF HandleProfileRunEvt, r
  <2> HIDE DEF gone
  <2>2. /\ canceled' \in [Runs -> BOOLEAN] /\ canceled'[r] = gone
        /\ \A q \in Runs : q # r => canceled'[q] = canceled[q]
    BY <1>0, <1>t, <1>g, <2>1
  <2>3. (canceled[r] => canceled'[r]) /\ (canceled'[r] \/ m.res # "canceled")
    BY <2>2 DEF gone
  <2>4. results' = [results EXCEPT ![r] = results'[r]]
    BY <1>t, <2>1
  <2>5. ~Done(m)
    BY <1>4 DEF Done
  <2>6. CASE ~current[r] /\ (gone \/ Len(results[r]) = Items)
    <3>1. /\ slot' = [slot EXCEPT !["profile"] = None]
          /\ final' = [final EXCEPT ![r] = @ + 1] /\ sending' = FALSE
      BY <1>0, <1>4, <2>6 DEF HandleProfileRunEvt, Finalize, gone, r
    <3>2. Reported(r, m)
      BY <1>4, <2>1, <2>2, <2>3, <2>6, <3>1 DEF Reported, Complete, r
    <3> QED BY <1>t, <2>1, <2>2, <2>3, <2>4, <3>1, <3>2 DEF EventEffect, r
  <2>7. CASE ~(~current[r] /\ (gone \/ Len(results[r]) = Items))
    <3>1. UNCHANGED <<slot, final, sending>>
      BY <1>0, <1>4, <2>7 DEF HandleProfileRunEvt, gone, r
    <3>2. Kept(r, m)
      BY <2>1, <2>5, <3>1 DEF Kept, Counted, CountedAs
    <3> QED BY <1>t, <2>1, <2>2, <2>3, <2>4, <3>1, <3>2 DEF EventEffect, r
  <2> QED BY <2>6, <2>7
<1> QED BY <1>1, <1>2, <1>3, <1>4 DEF HandleProfileRunEvt
-----------------------------------------------------------------------------
(* What the worker of run r does: it moves on and may send a message that    *)
(* ends nothing, or it ends an item, or it ends the run.                     *)
Alone(r) ==
    /\ UNCHANGED <<kind, slot, canceled, results, final>>
    /\ \A q \in Runs : q # r => pc'[q] = pc[q] /\ item'[q] = item[q] /\ res'[q] = res[q]
InItem == {"step", "exec", "done", "stepdone"}
Quiet(m) == m.ev \notin {"StepDone", "ItemDone", "RunDone"}
PlainStep(r) ==
    /\ Alone(r)
    /\ \/ chan' = chan
       \/ \E m \in Msg : /\ m.run = r /\ Quiet(m) /\ chan' = Append(chan, m)
                          /\ kind[r] \in Slots
    /\ pc[r] # "idle" /\ pc'[r] \notin {"idle", "begin"}
    /\ kind[r] = "single" => pc'[r] = "exit"
    /\ pc'[r] \in {"step", "stepdone"} => kind[r] = "workflow"
    /\ \/ pc[r] \in InItem /\ pc'[r] \in InItem /\ item'[r] = item[r]
       \/ pc[r] = "loop" /\ pc'[r] \in InItem /\ item[r] < Items /\ item'[r] = item[r] + 1
       \/ pc[r] = "begin" /\ pc'[r] = "loop" /\ item'[r] = item[r]
       \/ /\ pc[r] = "loop" /\ pc'[r] = "finish" /\ item'[r] = item[r]
          /\ res'[r] = "canceled" \/ (res'[r] = res[r] /\ item[r] = Items)
       \/ /\ pc'[r] \in {"report", "exit"} /\ item'[r] = item[r] /\ pc[r] # "loop"
          /\ res'[r] = res[r] \/ pc[r] = "exec"
FinishItem(r) ==
    /\ Alone(r) /\ kind[r] \in Slots
    /\ pc[r] \in {"done", "stepdone"} /\ pc'[r] \in {"loop", "finish"}
    /\ item'[r] = item[r] /\ res'[r] = res[r]
    /\ \E m \in Msg : /\ m.run = r /\ Done(m) /\ m.item = item[r] /\ m.res = res[r]
                      /\ chan' = Append(chan, m)
                      /\ pc'[r] = "loop" => Counted(m)
                      /\ kind[r] # "profile" /\ res[r] # "canceled" => Counted(m)
                      /\ kind[r] = "profile" /\ res[r] = "skip" => pc'[r] = "finish"
EndRun(r) ==
    /\ Alone(r) /\ kind[r] \in Slots
    /\ pc[r] = "finish" /\ pc'[r] = "report"
    /\ item'[r] = item[r] /\ res'[r] = res[r]
    /\ \E m \in Msg : /\ m.run = r /\ m.ev = "RunDone" /\ m.item = item[r] /\ m.res = res[r]
                      /\ chan' = Append(chan, m)

LEMMA AfterFacts ==
    ASSUME NEW r \in Runs, NEW l \in After(r)
    PROVE  /\ l \in {"loop", "finish"}
           /\ l = "loop" => res[r] # "canceled" /\ ~(kind[r] = "profile" /\ res[r] = "skip")
<1>1. CASE res[r] = "canceled"
  BY <1>1 DEF After
<1>2. CASE res[r] # "canceled" /\ kind[r] = "profile" /\ res[r] = "skip"
  BY <1>2 DEF After
<1>3. CASE res[r] # "canceled" /\ ~(kind[r] = "profile" /\ res[r] = "skip")
  BY <1>3 DEF After
<1> QED BY <1>1, <1>2, <1>3

LEMMA WorkerEffect ==
    ASSUME TypeOK, WorkerInv, NEW r \in Runs, Worker(r) \/ ExecuteWith(r)
    PROVE  PlainStep(r) \/ FinishItem(r) \/ EndRun(r)
<1> USE DEF ui
<1>t. /\ kind \in [Runs -> Kinds \union {"none"}] /\ item[r] \in 0 .. Items /\ res[r] \in Results
      /\ pc \in [Runs -> {"idle", "begin", "loop", "step", "exec", "done",
                          "stepdone", "finish", "report", "exit"}]
      /\ item \in [Runs -> 0 .. Items] /\ res \in [Runs -> Results] /\ Items \in Nat
  BY BoundsAssumption DEF TypeOK
<1>k. pc[r] \notin {"idle", "exec", "exit"} => kind[r] \in Slots
  BY <1>t DEF WorkerInv, Kinds
<1>w. pc[r] \in {"step", "stepdone"} => kind[r] = "workflow"
  BY DEF WorkerInv
<1>i. pc[r] = "idle" => kind[r] = "none"
  BY DEF WorkerInv
<1>s. kind[r] = "single" => pc[r] \in {"exec", "exit"}
  BY DEF WorkerInv
(* Emit of an event that ends nothing. *)
<1>1. ASSUME NEW ev \in Events, NEW to, ev \notin {"StepDone", "ItemDone", "RunDone"},
             Emit(r, ev, to), UNCHANGED <<kind, item, res, ui>>, kind[r] \in Slots, pc[r] # "loop",
             \/ to \in InItem /\ pc[r] \in InItem
             \/ to = "loop" /\ pc[r] = "begin",
             to \in {"step", "stepdone"} => kind[r] = "workflow"
      PROVE  PlainStep(r)
  <2>0. pc[r] # "idle" /\ kind[r] # "single"
    BY <1>1, <1>i DEF Slots
  <2>1. CASE pc' = [pc EXCEPT ![r] = "report"] /\ chan' = chan
    BY <1>t, <1>1, <2>0, <2>1 DEF PlainStep, Alone
  <2>2. CASE Send(r, ev) /\ pc' = [pc EXCEPT ![r] = to]
    <3> DEFINE m == [run |-> r, ev |-> ev, item |-> item[r], res |-> res[r]]
    <3>1. m \in Msg /\ m.run = r /\ Quiet(m) /\ chan' = Append(chan, m)
      BY <1>t, <1>1, <2>2 DEF Msg, Quiet, Send
    <3> HIDE DEF m
    <3>2. pc'[r] = to /\ \A q \in Runs : q # r => pc'[q] = pc[q]
      BY <1>t, <2>2
    <3>3. to \notin {"idle", "begin"}
      BY <1>1 DEF InItem
    <3> QED BY <1>1, <2>0, <3>1, <3>2, <3>3 DEF PlainStep, Alone
  <2> QED BY <1>1, <2>1, <2>2 DEF Emit, Goto
<1>2. CASE EmitRunStart(r)
  <2>1. "RunStart" \in Events /\ Emit(r, "RunStart", "loop")
    BY <1>2 DEF EmitRunStart, Events
  <2> QED BY <1>1, <1>2, <2>1 DEF EmitRunStart
<1>3. CASE LoopStops(r)
  BY <1>3, <1>t, <1>k, <1>s DEF LoopStops, Goto, PlainStep, Alone
<1>4. CASE NextItem(r)
  <2> DEFINE m == [run |-> r, ev |-> IF kind[r] = "workflow" THEN "StepStart" ELSE "ItemStart",
                   item |-> item[r] + 1, res |-> "none"]
  <2>1. m \in Msg /\ m.run = r /\ Quiet(m) /\ chan' = Append(chan, m)
    BY <1>4, <1>t DEF NextItem, Msg, Quiet, Events, Results
  <2> HIDE DEF m
  <2>2. /\ pc'[r] = IF kind[r] = "workflow" THEN "step" ELSE "exec"
        /\ \A q \in Runs : q # r => pc'[q] = pc[q] /\ item'[q] = item[q] /\ res'[q] = res[q]
        /\ item'[r] = item[r] + 1 /\ item[r] < Items /\ pc[r] = "loop"
        /\ UNCHANGED <<kind, ui>>
    BY <1>4, <1>t DEF NextItem, Goto
  <2>3. kind[r] \in Slots /\ kind[r] # "single"
    BY <1>k, <2>2 DEF Slots
  <2> QED BY <2>1, <2>2, <2>3 DEF PlainStep, Alone, InItem
<1>5. CASE StepRequest(r)
  <2>1. "ReqStart" \in Events /\ Emit(r, "ReqStart", "exec") /\ kind[r] \in Slots
    BY <1>5, <1>k DEF StepRequest, Events
  <2> QED BY <1>1, <1>5, <2>1 DEF StepRequest, InItem
<1>6. CASE StepManual(r)
  BY <1>6, <1>t, <1>w DEF StepManual, Goto, PlainStep, Alone, InItem
<1>7. CASE ExecuteWith(r)
  BY <1>7, <1>t, <1>i DEF ExecuteWith, Goto, PlainStep, Alone, InItem
(* Emit of the end of an item. *)
<1>8. ASSUME NEW ev \in {"StepDone", "ItemDone"}, NEW l \in After(r),
             Emit(r, ev, l), UNCHANGED <<kind, item, res, ui>>,
             kind[r] \in Slots, pc[r] \in {"done", "stepdone"}
      PROVE  PlainStep(r) \/ FinishItem(r)
  <2>0. pc[r] # "idle" /\ kind[r] # "single"
    BY <1>8 DEF Slots
  <2>1. CASE pc' = [pc EXCEPT ![r] = "report"] /\ chan' = chan
    BY <1>t, <1>8, <2>0, <2>1 DEF PlainStep, Alone
  <2>2. CASE Send(r, ev) /\ pc' = [pc EXCEPT ![r] = l]
    <3> DEFINE m == [run |-> r, ev |-> ev, item |-> item[r], res |-> res[r]]
    <3>1. /\ m \in Msg /\ m.run = r /\ Done(m) /\ m.item = item[r] /\ m.res = res[r]
          /\ chan' = Append(chan, m)
      BY <1>t, <1>8, <2>2 DEF Msg, Done, Send, Events
    <3> HIDE DEF m
    <3>2. pc'[r] = l /\ \A q \in Runs : q # r => pc'[q] = pc[q]
      BY <1>t, <2>2
    <3>3. /\ l \in {"loop", "finish"}
          /\ l = "loop" => res[r] # "canceled" /\ ~(kind[r] = "profile" /\ res[r] = "skip")
      BY <1>8, AfterFacts
    <3>4. /\ l = "loop" => Counted(m)
          /\ kind[r] # "profile" /\ res[r] # "canceled" => Counted(m)
      BY <3>1, <3>3 DEF Counted, CountedAs
    <3> QED BY <1>8, <3>1, <3>2, <3>3, <3>4 DEF FinishItem, Alone
  <2> QED BY <1>8, <2>1, <2>2 DEF Emit, Goto
<1>9. CASE EmitDone(r)
  <2>1. CASE kind[r] = "workflow"
    <3>1. "ReqDone" \in Events /\ Emit(r, "ReqDone", "stepdone") /\ kind[r] \in Slots
      BY <1>9, <2>1 DEF EmitDone, Events, Slots
    <3> QED BY <1>1, <1>9, <2>1, <3>1 DEF EmitDone, InItem
  <2>2. CASE kind[r] # "workflow"
    <3>1. PICK l \in After(r) : Emit(r, "ItemDone", l)
      BY <1>9, <2>2 DEF EmitDone
    <3>2. kind[r] \in Slots /\ pc[r] = "done"
      BY <1>9, <1>k DEF EmitDone
    <3> QED BY <1>8, <1>9, <3>1, <3>2 DEF EmitDone
  <2> QED BY <2>1, <2>2
<1>10. CASE EmitStepDone(r)
  <2>1. PICK l \in After(r) : Emit(r, "StepDone", l)
    BY <1>10 DEF EmitStepDone
  <2>2. kind[r] \in Slots /\ pc[r] = "stepdone"
    BY <1>10, <1>k DEF EmitStepDone
  <2> QED BY <1>8, <1>10, <2>1, <2>2 DEF EmitStepDone
<1>11. CASE EmitRunDone(r)
  <2>1. kind[r] \in Slots /\ pc[r] = "finish" /\ UNCHANGED <<kind, item, res, ui>>
    BY <1>11, <1>k DEF EmitRunDone
  <2>2. CASE pc' = [pc EXCEPT ![r] = "report"] /\ chan' = chan
    BY <1>t, <2>1, <2>2 DEF PlainStep, Alone, Slots
  <2>3. CASE Send(r, "RunDone") /\ pc' = [pc EXCEPT ![r] = "report"]
    <3> DEFINE m == [run |-> r, ev |-> "RunDone", item |-> item[r], res |-> res[r]]
    <3>1. /\ m \in Msg /\ m.run = r /\ m.ev = "RunDone" /\ m.item = item[r] /\ m.res = res[r]
          /\ chan' = Append(chan, m)
      BY <1>t, <2>3 DEF Msg, Send, Events
    <3> HIDE DEF m
    <3>2. pc'[r] = "report" /\ \A q \in Runs : q # r => pc'[q] = pc[q]
      BY <1>t, <2>3
    <3> QED BY <2>1, <3>1, <3>2 DEF EndRun, Alone
  <2> QED BY <1>11, <2>2, <2>3 DEF EmitRunDone, Emit, Goto
<1>12. CASE EmitWorkerDone(r)
  <2> DEFINE m == [run |-> r, ev |-> "WorkerDone", item |-> item[r], res |-> res[r]]
  <2>1. m \in Msg /\ m.run = r /\ Quiet(m) /\ chan' = Append(chan, m)
    BY <1>12, <1>t DEF EmitWorkerDone, Send, Msg, Quiet, Events
  <2> HIDE DEF m
  <2>2. /\ pc[r] = "report" /\ pc'[r] = "exit" /\ UNCHANGED <<kind, item, res, ui>>
        /\ \A q \in Runs : q # r => pc'[q] = pc[q]
    BY <1>12, <1>t DEF EmitWorkerDone, Goto
  <2>3. kind[r] \in Slots
    BY <1>k, <2>2
  <2> QED BY <2>1, <2>2, <2>3 DEF PlainStep, Alone
<1> QED BY <1>2, <1>3, <1>4, <1>5, <1>6, <1>7, <1>9, <1>10, <1>11, <1>12 DEF Worker

-----------------------------------------------------------------------------
(* What is queued, when the channel grows and when its head is taken. *)

LEMMA UptoMono ==
    ASSUME NEW c, NEW k, NEW r, NEW b \in Int, NEW x \in Int, NEW n \in Int, NEW n2 \in Int,
           n <= n2, UptoIn(c, k, r, b, x, n)
    PROVE  UptoIn(c, k, r, b, x, n2)
BY DEF UptoIn, QueuedIn

LEMMA UptoAppend ==
    ASSUME NEW c \in Seq(Msg), NEW m \in Msg, NEW k, NEW r, NEW b \in Int, NEW x \in Int,
           NEW n \in Int, n <= Len(c), UptoIn(c, k, r, b, x, n)
    PROVE  UptoIn(Append(c, m), k, r, b, x, n)
<1> SUFFICES ASSUME NEW y \in (b + 1)..x PROVE QueuedIn(Append(c, m), k, r, y, n)
  BY DEF UptoIn
<1>1. PICK j \in 1..n : c[j].run = r /\ CountedAs(k, c[j]) /\ c[j].item = y
  BY DEF UptoIn, QueuedIn
<1>2. Append(c, m)[j] = c[j]
  BY <1>1
<1> QED BY <1>1, <1>2 DEF QueuedIn

LEMMA UptoNext ==
    ASSUME NEW c \in Seq(Msg), NEW m \in Msg, NEW k, NEW r, NEW b \in Int, NEW x \in Int,
           UptoIn(c, k, r, b, x - 1, Len(c)), m.run = r, CountedAs(k, m), m.item = x
    PROVE  UptoIn(Append(c, m), k, r, b, x, Len(c) + 1)
<1> SUFFICES ASSUME NEW y \in (b + 1)..x PROVE QueuedIn(Append(c, m), k, r, y, Len(c) + 1)
  BY DEF UptoIn
<1>1. CASE y = x
  <2>1. Append(c, m)[Len(c) + 1] = m /\ Len(c) + 1 \in 1..(Len(c) + 1)
    OBVIOUS
  <2> QED BY <1>1, <2>1 DEF QueuedIn
<1>2. CASE y # x
  <2>1. PICK j \in 1..Len(c) : c[j].run = r /\ CountedAs(k, c[j]) /\ c[j].item = y
    BY <1>2 DEF UptoIn, QueuedIn
  <2>2. Append(c, m)[j] = c[j] /\ j \in 1..(Len(c) + 1)
    BY <2>1
  <2> QED BY <2>1, <2>2 DEF QueuedIn
<1> QED BY <1>1, <1>2

(* The head is no message to record the run's items from ... *)
LEMMA UptoTail ==
    ASSUME NEW c \in Seq(Msg), c # << >>, NEW k, NEW r, NEW b \in Int, NEW x \in Int,
           NEW n \in Int, n <= Len(c), ~(Head(c).run = r /\ CountedAs(k, Head(c))),
           UptoIn(c, k, r, b, x, n)
    PROVE  UptoIn(Tail(c), k, r, b, x, n - 1)
<1> SUFFICES ASSUME NEW y \in (b + 1)..x PROVE QueuedIn(Tail(c), k, r, y, n - 1)
  BY DEF UptoIn
<1>1. PICK j \in 1..n : c[j].run = r /\ CountedAs(k, c[j]) /\ c[j].item = y
  BY DEF UptoIn, QueuedIn
<1>2. j # 1
  BY <1>1
<1>3. Tail(c)[j - 1] = c[j] /\ j - 1 \in 1..(n - 1)
  BY <1>1, <1>2
<1> QED BY <1>1, <1>3 DEF QueuedIn

(* ... or it is the one for the next item. *)
LEMMA UptoTaken ==
    ASSUME NEW c \in Seq(Msg), c # << >>, NEW k, NEW r, NEW b \in Int, NEW x \in Int,
           NEW n \in Int, n <= Len(c), Head(c).item = b + 1,
           UptoIn(c, k, r, b, x, n)
    PROVE  UptoIn(Tail(c), k, r, b + 1, x, n - 1)
<1> SUFFICES ASSUME NEW y \in (b + 1 + 1)..x PROVE QueuedIn(Tail(c), k, r, y, n - 1)
  BY DEF UptoIn
<1>1. PICK j \in 1..n : c[j].run = r /\ CountedAs(k, c[j]) /\ c[j].item = y
  BY DEF UptoIn, QueuedIn
<1>2. j # 1
  BY <1>1
<1>3. Tail(c)[j - 1] = c[j] /\ j - 1 \in 1..(n - 1)
  BY <1>1, <1>2
<1> QED BY <1>1, <1>3 DEF QueuedIn

-----------------------------------------------------------------------------
(* The invariant holds initially. *)

LEMMA InitInv == Init => TypeOK /\ RunInv
<1> SUFFICES ASSUME Init PROVE TypeOK /\ RunInv
  OBVIOUS
<1>0. Items \in Nat /\ ChanCap \in Nat /\ MaxRuns \in Nat
  BY BoundsAssumption
<1>1. TypeOK
  <2>1. << >> \in Seq(Msg) /\ << >> \in Seq(1 .. Items) /\ Len(<< >>) <= ChanCap
    BY <1>0
  <2>2. /\ kind \in [Runs -> Kinds \union {"none"}] /\ ctx \in [Runs -> BOOLEAN]
        /\ pc \in [Runs -> {"idle", "begin", "loop", "step", "exec", "done",
                            "stepdone", "finish", "report", "exit"}]
    BY DEF Init
  <2>3. item \in [Runs -> 0 .. Items] /\ res \in [Runs -> Results] /\ final \in [Runs -> Nat]
    BY <1>0 DEF Init, Results
  <2>4. /\ slot \in [Slots -> Runs \union {None}] /\ current \in [Runs -> BOOLEAN]
        /\ canceled \in [Runs -> BOOLEAN] /\ sending \in BOOLEAN
        /\ sendCancel \in Runs \union {None} /\ replies \subseteq Runs
    BY DEF Init
  <2>5. results \in [Runs -> Seq(1 .. Items)] /\ chan \in Seq(Msg) /\ Len(chan) <= ChanCap
    BY <2>1 DEF Init
  <2> QED BY <2>2, <2>3, <2>4, <2>5 DEF TypeOK
<1>2. SlotInv
  BY <1>0 DEF Init, SlotInv, ReportedOnce
<1>3. WorkerInv
  <2> SUFFICES ASSUME NEW r \in Runs
               PROVE  /\ kind[r] = "none" /\ pc[r] = "idle" /\ item[r] = 0
                      /\ Len(results[r]) = 0 /\ results[r] = [i \in 1 .. Len(results[r]) |-> i]
    BY DEF WorkerInv, Busy, Slots
  <2>1. results[r] = << >> /\ kind[r] = "none" /\ pc[r] = "idle" /\ item[r] = 0
    BY DEF Init
  <2>2. Len(<< >>) = 0 /\ << >> = [i \in 1 .. 0 |-> i]
    OBVIOUS
  <2> QED BY <2>1, <2>2
<1>4. ChanInv
  BY DEF Init, ChanInv
<1>5. HolderInv
  BY DEF Init, HolderInv, Holds, Slots
<1>6. FinalInv
  BY DEF Init, FinalInv
<1> QED BY <1>1, <1>2, <1>3, <1>4, <1>5, <1>6 DEF RunInv

-----------------------------------------------------------------------------
(* A step of a worker. *)

LEMMA SendType ==
    ASSUME TypeOK, NEW r \in Runs, NEW ev \in Events, Send(r, ev)
    PROVE  chan' \in Seq(Msg) /\ Len(chan') <= ChanCap
<1> DEFINE m == [run |-> r, ev |-> ev, item |-> item[r], res |-> res[r]]
<1>1. m \in Msg /\ chan' = Append(chan, m) /\ Len(chan) < ChanCap /\ chan \in Seq(Msg)
  BY DEF TypeOK, Send, Msg
<1> HIDE DEF m
<1> QED BY <1>1, BoundsAssumption

LEMMA WorkerType ==
    ASSUME TypeOK, NEW r \in Runs, Worker(r) \/ ExecuteWith(r)
    PROVE  TypeOK'
<1> DEFINE PC == {"idle", "begin", "loop", "step", "exec", "done",
                  "stepdone", "finish", "report", "exit"}
<1>0. Items \in Nat /\ ChanCap \in Nat
  BY BoundsAssumption
<1>1. UNCHANGED <<kind, ctx, ui>>
  BY DEF Worker, EmitRunStart, LoopStops, NextItem, StepRequest, StepManual, EmitDone,
         EmitStepDone, EmitRunDone, EmitWorkerDone, ExecuteWith
<1>2. ASSUME NEW l \in PC, Goto(r, l)
      PROVE  pc' \in [Runs -> PC]
  BY <1>2 DEF Goto, TypeOK
<1>3. ASSUME NEW ev \in Events, NEW l \in PC, Emit(r, ev, l)
      PROVE  pc' \in [Runs -> PC] /\ chan' \in Seq(Msg) /\ Len(chan') <= ChanCap
  <2>1. CASE Goto(r, "report") /\ UNCHANGED chan
    BY <2>1, <1>2 DEF TypeOK
  <2>2. CASE Send(r, ev) /\ Goto(r, l)
    BY <2>2, <1>2, <1>3, SendType
  <2> QED BY <1>3, <2>1, <2>2 DEF Emit
<1>4. ASSUME NEW l \in After(r) PROVE l \in PC
  BY <1>4, AfterFacts
<1> SUFFICES /\ pc' \in [Runs -> PC] /\ item' \in [Runs -> 0 .. Items] /\ res' \in [Runs -> Results]
             /\ chan' \in Seq(Msg) /\ Len(chan') <= ChanCap /\ replies' \subseteq Runs
  BY <1>1 DEF TypeOK, ui
<1>t. /\ item \in [Runs -> 0 .. Items] /\ res \in [Runs -> Results]
      /\ chan \in Seq(Msg) /\ Len(chan) <= ChanCap /\ replies \subseteq Runs
  BY DEF TypeOK
<1>5. CASE EmitRunStart(r)
  <2>1. Emit(r, "RunStart", "loop") /\ UNCHANGED <<item, res, replies>> /\ "RunStart" \in Events
    BY <1>5 DEF EmitRunStart, Events
  <2> QED BY <1>3, <1>t, <2>1
<1>6. CASE LoopStops(r)
  BY <1>6, <1>2, <1>t DEF LoopStops, Results
<1>7. CASE NextItem(r)
  <2>1. item' \in [Runs -> 0 .. Items] /\ res' \in [Runs -> Results] /\ replies' = replies
    BY <1>7, <1>0, <1>t DEF NextItem, Results
  <2>2. pc' \in [Runs -> PC]
    <3>1. Goto(r, IF kind[r] = "workflow" THEN "step" ELSE "exec")
      BY <1>7 DEF NextItem
    <3>2. (IF kind[r] = "workflow" THEN "step" ELSE "exec") \in PC
      OBVIOUS
    <3> QED BY <1>2, <3>1, <3>2
  <2> DEFINE m == [run |-> r, ev |-> IF kind[r] = "workflow" THEN "StepStart" ELSE "ItemStart",
                   item |-> item[r] + 1, res |-> "none"]
  <2>3. m \in Msg /\ chan' = Append(chan, m) /\ Len(chan) < ChanCap
    BY <1>7, <1>0, <1>t DEF NextItem, Msg, Events, Results
  <2> HIDE DEF m
  <2>4. chan' \in Seq(Msg) /\ Len(chan') <= ChanCap
    BY <2>3, <1>0, <1>t
  <2> QED BY <1>t, <2>1, <2>2, <2>4
<1>8. CASE StepRequest(r)
  <2>1. Emit(r, "ReqStart", "exec") /\ UNCHANGED <<item, res, replies>> /\ "ReqStart" \in Events
    BY <1>8 DEF StepRequest, Events
  <2> QED BY <1>3, <1>t, <2>1
<1>9. CASE StepManual(r)
  BY <1>9, <1>2, <1>t DEF StepManual, Results
<1>10. CASE ExecuteWith(r)
  <2>1. res' \in [Runs -> Results] /\ UNCHANGED <<item, chan>>
    BY <1>10, <1>t DEF ExecuteWith, Results
  <2>2. replies' \subseteq Runs /\ (Goto(r, "exit") \/ Goto(r, "done"))
    BY <1>10, <1>t DEF ExecuteWith
  <2>3. pc' \in [Runs -> PC]
    BY <1>2, <2>2
  <2> QED BY <1>t, <2>1, <2>2, <2>3
<1>11. CASE EmitDone(r)
  <2>1. "ReqDone" \in Events /\ "ItemDone" \in Events
    BY DEF Events
  <2>2. UNCHANGED <<item, res, replies>>
    BY <1>11 DEF EmitDone
  <2>3. CASE Emit(r, "ReqDone", "stepdone")
    BY <1>3, <1>t, <2>1, <2>2, <2>3
  <2>4. ASSUME NEW l \in After(r), Emit(r, "ItemDone", l)
        PROVE  pc' \in [Runs -> PC] /\ chan' \in Seq(Msg) /\ Len(chan') <= ChanCap
    BY <1>3, <1>4, <2>1, <2>4
  <2> QED BY <1>11, <1>t, <2>2, <2>3, <2>4 DEF EmitDone
<1>12. CASE EmitStepDone(r)
  <2>1. PICK l \in After(r) : Emit(r, "StepDone", l)
    BY <1>12 DEF EmitStepDone
  <2>2. UNCHANGED <<item, res, replies>> /\ "StepDone" \in Events
    BY <1>12 DEF EmitStepDone, Events
  <2> QED BY <1>3, <1>4, <1>t, <2>1, <2>2
<1>13. CASE EmitRunDone(r)
  <2>1. Emit(r, "RunDone", "report") /\ UNCHANGED <<item, res, replies>> /\ "RunDone" \in Events
    BY <1>13 DEF EmitRunDone, Events
  <2> QED BY <1>3, <1>t, <2>1
<1>14. CASE EmitWorkerDone(r)
  <2>1. /\ Send(r, "WorkerDone") /\ UNCHANGED <<item, res, replies>> /\ "WorkerDone" \in Events
        /\ Goto(r, "exit")
    BY <1>14 DEF EmitWorkerDone, Events
  <2> QED BY <1>2, <1>t, <2>1, SendType
<1> QED BY <1>5, <1>6, <1>7, <1>8, <1>9, <1>10, <1>11, <1>12, <1>13, <1>14 DEF Worker

(* What every step of a worker has in common. *)
WorkerMoves(r) ==
    /\ item[r] <= item'[r] /\ pc'[r] \notin {"idle", "begin"} /\ pc[r] # "idle"
    /\ kind[r] = "single" => pc'[r] = "exit"
    /\ pc'[r] \in {"step", "stepdone"} => kind[r] = "workflow"
    /\ pc'[r] \in InItem => \/ pc[r] \in InItem /\ item'[r] = item[r]
                            \/ pc[r] = "loop" /\ item'[r] = item[r] + 1 /\ item[r] < Items
    /\ Over(r) => pc'[r] \in {"finish", "report", "exit"} /\ item'[r] = item[r] /\ res'[r] = res[r]
    /\ pc[r] \in {"report", "exit"} => pc'[r] \in {"report", "exit"}
    /\ pc[r] = "loop" /\ item[r] = Items => pc'[r] = "finish" /\ item'[r] = item[r]

LEMMA MovesFacts ==
    ASSUME TypeOK, TypeOK', NEW r \in Runs, PlainStep(r) \/ FinishItem(r) \/ EndRun(r)
    PROVE  Alone(r) /\ WorkerMoves(r)
<1>t. item[r] \in Nat /\ item'[r] \in Nat /\ Items \in Nat
  BY BoundsAssumption DEF TypeOK
<1>1. CASE PlainStep(r)
  BY <1>t, <1>1 DEF PlainStep, WorkerMoves, Over, InItem
<1>2. CASE FinishItem(r)
  BY <1>t, <1>2 DEF FinishItem, WorkerMoves, Over, InItem, Slots
<1>3. CASE EndRun(r)
  BY <1>t, <1>3 DEF EndRun, WorkerMoves, Over, InItem, Slots
<1> QED BY <1>1, <1>2, <1>3

LEMMA WorkerKeepsPlace ==
    ASSUME TypeOK, TypeOK', SlotInv, WorkerInv, FinalInv, NEW r \in Runs, Alone(r), WorkerMoves(r)
    PROVE  SlotInv' /\ WorkerInv' /\ FinalInv'
<1>1. SlotInv'
  BY DEF SlotInv, ReportedOnce, Alone
<1>2. WorkerInv'
  <2> SUFFICES ASSUME NEW q \in Runs
               PROVE  /\ kind'[q] = "none" <=> pc'[q] = "idle"
                      /\ kind'[q] = "single" => pc'[q] \in {"exec", "exit"}
                      /\ pc'[q] \in {"step", "stepdone"} => kind'[q] = "workflow"
                      /\ pc'[q] \in {"idle", "begin"} => item'[q] = 0
                      /\ Len(results'[q]) <= item'[q]
                      /\ kind'[q] \in Slots /\ pc'[q] \in InItem => Len(results'[q]) < item'[q]
                      /\ results'[q] = [i \in 1 .. Len(results'[q]) |-> i]
    BY DEF WorkerInv, Busy, InItem
  <2>1. /\ kind[q] = "none" <=> pc[q] = "idle"
        /\ kind[q] = "single" => pc[q] \in {"exec", "exit"}
        /\ pc[q] \in {"step", "stepdone"} => kind[q] = "workflow"
        /\ pc[q] \in {"idle", "begin"} => item[q] = 0
        /\ Len(results[q]) <= item[q]
        /\ kind[q] \in Slots /\ pc[q] \in InItem => Len(results[q]) < item[q]
        /\ results[q] = [i \in 1 .. Len(results[q]) |-> i]
    BY DEF WorkerInv, Busy, InItem
  <2>2. kind' = kind /\ results' = results
    BY DEF Alone
  <2>3. CASE q # r
    BY <2>1, <2>2, <2>3 DEF Alone
  <2>4. CASE q = r
    <3>1. Len(results[r]) \in Nat /\ item[r] \in Nat /\ item'[r] \in Nat
      BY BoundsAssumption DEF TypeOK
    <3> QED BY <2>1, <2>2, <2>4, <3>1 DEF WorkerMoves
  <2> QED BY <2>3, <2>4
<1>3. FinalInv'
  <2> SUFFICES ASSUME NEW q \in Runs, final'[q] > 0, ~canceled'[q]
               PROVE  \/ /\ pc'[q] \in {"loop", "finish", "report", "exit"}
                         /\ pc'[q] = "loop" => item'[q] = Items
                         /\ Len(results'[q]) = item'[q]
                      \/ /\ pc'[q] \in {"finish", "report", "exit"} /\ kind'[q] = "profile"
                         /\ res'[q] = "skip" /\ Len(results'[q]) = item'[q] - 1
    BY DEF FinalInv, Over
  <2>1. \/ /\ pc[q] \in {"loop", "finish", "report", "exit"}
           /\ pc[q] = "loop" => item[q] = Items
           /\ Len(results[q]) = item[q]
        \/ /\ Over(q) /\ kind[q] = "profile" /\ res[q] = "skip" /\ Len(results[q]) = item[q] - 1
    BY DEF FinalInv, Alone
  <2>2. kind' = kind /\ results' = results
    BY DEF Alone
  <2>3. CASE q # r
    BY <2>1, <2>2, <2>3 DEF Alone, Over
  <2>4. CASE q = r
    BY <2>1, <2>2, <2>4 DEF WorkerMoves, Over
  <2> QED BY <2>3, <2>4
<1> QED BY <1>1, <1>2, <1>3

(* The channel after a step of a worker: the same, or with one more message. *)
Grown(r) ==
    /\ \A i \in DOMAIN chan : i \in DOMAIN chan' /\ chan'[i] = chan[i]
    /\ DOMAIN chan = 1..Len(chan) /\ DOMAIN chan' = 1..Len(chan')
    /\ Len(chan) \in Nat /\ Len(chan') \in Nat
    /\ \/ chan' = chan
       \/ /\ Len(chan') = Len(chan) + 1 /\ chan' = Append(chan, chan'[Len(chan')])
          /\ chan'[Len(chan')].run = r /\ chan'[Len(chan')] \in Msg /\ kind[r] \in Slots

LEMMA GrownFacts ==
    ASSUME TypeOK, NEW r \in Runs, PlainStep(r) \/ FinishItem(r) \/ EndRun(r)
    PROVE  Grown(r)
<1>t. chan \in Seq(Msg)
  BY DEF TypeOK
<1>1. CASE chan' = chan
  BY <1>t, <1>1 DEF Grown
<1>2. ASSUME NEW m \in Msg, chan' = Append(chan, m), m.run = r, kind[r] \in Slots
      PROVE  Grown(r)
  <2>1. Len(chan') = Len(chan) + 1 /\ chan'[Len(chan')] = m /\ chan' \in Seq(Msg)
    BY <1>t, <1>2
  <2>2. \A i \in DOMAIN chan : i \in DOMAIN chan' /\ chan'[i] = chan[i]
    BY <1>t, <1>2
  <2> QED BY <1>t, <1>2, <2>1, <2>2 DEF Grown
<1> QED BY <1>1, <1>2 DEF PlainStep, FinishItem, EndRun

(* The message a worker adds, if any: it ends nothing, or it ends the item   *)
(* the worker was in, or the run.                                            *)
NewMsg(r) ==
    chan' # chan =>
        LET m == chan'[Len(chan')] IN
        \/ Quiet(m)
        \/ /\ Done(m) /\ m.ev # "RunDone" /\ m.item = item[r] /\ m.res = res[r]
           /\ pc[r] \in {"done", "stepdone"} /\ pc'[r] \in {"loop", "finish"}
           /\ item'[r] = item[r] /\ res'[r] = res[r]
           /\ kind[r] = "profile" /\ res[r] = "skip" => pc'[r] = "finish"
        \/ /\ m.ev = "RunDone" /\ ~Done(m) /\ m.item = item[r] /\ m.res = res[r]
           /\ pc[r] = "finish" /\ pc'[r] = "report"
           /\ item'[r] = item[r] /\ res'[r] = res[r]

LEMMA NewMsgFacts ==
    ASSUME TypeOK, NEW r \in Runs, PlainStep(r) \/ FinishItem(r) \/ EndRun(r)
    PROVE  NewMsg(r)
<1>t. chan \in Seq(Msg)
  BY DEF TypeOK
<1>a. ASSUME NEW m \in Msg, chan' = Append(chan, m)
      PROVE  chan'[Len(chan')] = m
  BY <1>t, <1>a
<1>1. CASE PlainStep(r)
  BY <1>1, <1>a DEF PlainStep, NewMsg
<1>2. CASE FinishItem(r)
  <2>1. PICK m \in Msg : /\ m.run = r /\ Done(m) /\ m.item = item[r] /\ m.res = res[r]
                         /\ chan' = Append(chan, m)
                         /\ kind[r] = "profile" /\ res[r] = "skip" => pc'[r] = "finish"
    BY <1>2 DEF FinishItem
  <2>2. m.ev # "RunDone"
    BY <2>1 DEF Done
  <2> QED BY <1>2, <1>a, <2>1, <2>2 DEF FinishItem, NewMsg
<1>3. CASE EndRun(r)
  <2>1. PICK m \in Msg : /\ m.run = r /\ m.ev = "RunDone" /\ m.item = item[r] /\ m.res = res[r]
                         /\ chan' = Append(chan, m)
    BY <1>3 DEF EndRun
  <2>2. ~Done(m)
    BY <2>1 DEF Done
  <2> QED BY <1>3, <1>a, <2>1, <2>2 DEF EndRun, NewMsg
<1> QED BY <1>1, <1>2, <1>3

LEMMA WorkerKeepsChan ==
    ASSUME TypeOK, TypeOK', ChanInv, NEW r \in Runs,
           Alone(r), WorkerMoves(r), Grown(r), NewMsg(r)
    PROVE  ChanInv'
<1> SUFFICES ASSUME NEW i \in DOMAIN chan'
             PROVE  /\ kind'[chan'[i].run] \in Slots /\ pc'[chan'[i].run] # "begin"
                    /\ Done(chan'[i]) =>
                         /\ chan'[i].item <= item'[chan'[i].run]
                         /\ kind'[chan'[i].run] \in Slots /\ pc'[chan'[i].run] \in InItem =>
                              chan'[i].item < item'[chan'[i].run]
                         /\ kind'[chan'[i].run] = "profile" /\ chan'[i].res = "skip" =>
                              /\ chan'[i].item = item'[chan'[i].run] /\ res'[chan'[i].run] = "skip"
                              /\ pc'[chan'[i].run] \in {"finish", "report", "exit"}
                    /\ Done(chan'[i]) => \A j \in DOMAIN chan' :
                         i < j /\ chan'[j].run = chan'[i].run /\ Done(chan'[j]) =>
                              chan'[i].item < chan'[j].item
                    /\ chan'[i].ev = "RunDone" =>
                         /\ pc'[chan'[i].run] \in {"report", "exit"}
                         /\ chan'[i].item = item'[chan'[i].run] /\ chan'[i].res = res'[chan'[i].run]
  BY DEF ChanInv, Busy, Over, InItem, Done
<1> DEFINE m == chan'[i]
           q == m.run
<1>t. /\ m \in Msg /\ q \in Runs /\ m.item \in Nat /\ item[q] \in Nat /\ item'[q] \in Nat
      /\ item[r] \in Nat /\ item'[r] \in Nat
  <2>1. m \in Msg
    BY DEF TypeOK
  <2>2. q \in Runs /\ m.item \in 0 .. Items
    BY <2>1 DEF Msg
  <2>3. item[q] \in 0 .. Items /\ item'[q] \in 0 .. Items /\ item[r] \in 0 .. Items /\ item'[r] \in 0 .. Items
    BY <2>2 DEF TypeOK
  <2> QED BY <2>1, <2>2, <2>3
<1>k. kind' = kind
  BY DEF Alone
<1>s. "profile" \in Slots
  BY DEF Slots
<1>n. ASSUME NEW j \in DOMAIN chan', j \notin DOMAIN chan
      PROVE  chan' # chan /\ j = Len(chan') /\ chan'[j].run = r /\ kind[r] \in Slots
  <2>1. chan' # chan
    BY <1>n
  <2>2. Len(chan') = Len(chan) + 1 /\ chan'[Len(chan')].run = r /\ kind[r] \in Slots
    BY <2>1 DEF Grown
  <2>3. j \in 1..Len(chan') /\ j \notin 1..Len(chan) /\ Len(chan) \in Nat
    BY <1>n DEF Grown
  <2>4. j = Len(chan')
    BY <2>2, <2>3
  <2> QED BY <2>1, <2>2, <2>4
<1>1. CASE i \in DOMAIN chan
  <2>0. m = chan[i]
    BY <1>1 DEF Grown
  <2> HIDE DEF m
  <2>1. /\ kind[q] \in Slots /\ pc[q] # "begin"
        /\ Done(m) => /\ m.item <= item[q]
                      /\ kind[q] \in Slots /\ pc[q] \in InItem => m.item < item[q]
                      /\ kind[q] = "profile" /\ m.res = "skip" =>
                            m.item = item[q] /\ res[q] = "skip" /\ Over(q)
        /\ Done(m) => \A j \in DOMAIN chan :
                        i < j /\ chan[j].run = q /\ Done(chan[j]) => m.item < chan[j].item
        /\ m.ev = "RunDone" => /\ pc[q] \in {"report", "exit"}
                               /\ m.item = item[q] /\ m.res = res[q]
    BY <1>1, <2>0 DEF ChanInv, Busy, InItem
  <2>2. ASSUME NEW j \in DOMAIN chan', i < j, chan'[j].run = q, Done(chan'[j]), Done(m)
        PROVE  m.item < chan'[j].item
    <3>1. CASE j \in DOMAIN chan
      BY <2>1, <2>2, <3>1 DEF Grown
    <3>2. CASE j \notin DOMAIN chan
      <4>1. /\ chan' # chan /\ j = Len(chan') /\ q = r /\ kind[r] \in Slots
        BY <1>n, <2>2, <3>2
      <4>2. chan'[j].item = item[r] /\ pc[r] \in InItem
        BY <2>2, <4>1 DEF NewMsg, Quiet, Done, InItem
      <4> QED BY <2>1, <2>2, <4>1, <4>2
    <3> QED BY <3>1, <3>2
  <2>3. CASE q # r
    <3>1. pc'[q] = pc[q] /\ item'[q] = item[q] /\ res'[q] = res[q]
      BY <1>t, <2>3 DEF Alone
    <3> QED BY <1>k, <2>1, <2>2, <3>1 DEF Over, m
  <2>4. CASE q = r
    <3>1. /\ pc'[q] # "begin" /\ kind'[q] \in Slots
      BY <1>k, <2>1, <2>4 DEF WorkerMoves
    <3>2. Done(m) => /\ m.item <= item'[q]
                     /\ kind[q] \in Slots /\ pc'[q] \in InItem => m.item < item'[q]
      BY <1>t, <2>1, <2>4 DEF WorkerMoves
    <3>3. Done(m) /\ kind[q] = "profile" /\ m.res = "skip" =>
            /\ m.item = item'[q] /\ res'[q] = "skip" /\ pc'[q] \in {"finish", "report", "exit"}
      BY <2>1, <2>4 DEF WorkerMoves
    <3>4. m.ev = "RunDone" => pc'[q] \in {"report", "exit"} /\ m.item = item'[q] /\ m.res = res'[q]
      BY <2>1, <2>4 DEF WorkerMoves, Over
    <3> QED BY <1>k, <2>2, <3>1, <3>2, <3>3, <3>4 DEF m
  <2> QED BY <2>3, <2>4
<1>2. CASE i \notin DOMAIN chan
  <2>1. /\ chan' # chan /\ i = Len(chan') /\ q = r /\ kind[r] \in Slots
    BY <1>2, <1>n
  <2>j. \A j \in DOMAIN chan' : ~(i < j)
    <3>1. DOMAIN chan' = 1..Len(chan') /\ Len(chan') \in Nat
      BY DEF Grown
    <3> QED BY <2>1, <3>1
  <2>2. pc'[q] # "begin"
    BY <2>1 DEF WorkerMoves
  <2> HIDE DEF m
  <2>3. CASE Quiet(m)
    <3>1. ~Done(m) /\ m.ev # "RunDone"
      BY <2>3 DEF Quiet, Done
    <3> QED BY <1>k, <2>1, <2>j, <2>2, <3>1 DEF m
  <2>4. CASE ~Quiet(m)
    <3>1. /\ m.item = item[r] /\ m.res = res[r] /\ item'[r] = item[r] /\ res'[r] = res[r]
          /\ pc'[r] \notin InItem
          /\ Done(m) /\ kind[r] = "profile" /\ res[r] = "skip" => pc'[r] = "finish"
          /\ m.ev = "RunDone" => pc'[r] = "report"
      BY <2>1, <2>4 DEF NewMsg, InItem, m
    <3> QED BY <1>k, <1>t, <2>1, <2>j, <2>2, <3>1 DEF m
  <2> QED BY <2>3, <2>4
<1> QED BY <1>1, <1>2

LEMMA WorkerKeepsHolders ==
    ASSUME TypeOK, TypeOK', WorkerInv, HolderInv, NEW r \in Runs,
           PlainStep(r) \/ FinishItem(r) \/ EndRun(r)
    PROVE  HolderInv'
<1>0. Alone(r) /\ WorkerMoves(r) /\ Grown(r) /\ NewMsg(r)
  BY MovesFacts, GrownFacts, NewMsgFacts
<1> SUFFICES ASSUME NEW q \in Runs, Holds(q)'
             PROVE  /\ kind'[q] \in Slots /\ pc'[q] \in InItem =>
                         UptoIn(chan', kind'[q], q, Len(results'[q]), item'[q] - 1, Len(chan'))
                    /\ pc'[q] = "loop" =>
                         UptoIn(chan', kind'[q], q, Len(results'[q]), item'[q], Len(chan'))
                    /\ pc'[q] = "finish" /\ kind'[q] # "profile" /\ res'[q] # "canceled" =>
                         UptoIn(chan', kind'[q], q, Len(results'[q]), item'[q], Len(chan'))
                    /\ \A i \in DOMAIN chan' : chan'[i].run = q =>
                         /\ Done(chan'[i]) =>
                              /\ chan'[i].item > Len(results'[q])
                              /\ UptoIn(chan', kind'[q], q, Len(results'[q]), chan'[i].item - 1, i - 1)
                         /\ chan'[i].ev = "RunDone" /\ kind'[q] # "profile" /\ chan'[i].res # "canceled" =>
                              UptoIn(chan', kind'[q], q, Len(results'[q]), chan'[i].item, i - 1)
  BY DEF HolderInv, Busy, Upto, InItem, UptoIn, QueuedIn, CountedAs, Done
<1>k. kind' = kind /\ results' = results /\ slot' = slot
  BY <1>0 DEF Alone
<1>h. Holds(q)
  BY <1>k DEF Holds
<1> DEFINE k == kind[q]
           b == Len(results[q])
<1>1. /\ k \in Slots
      /\ k \in Slots /\ pc[q] \in InItem => UptoIn(chan, k, q, b, item[q] - 1, Len(chan))
      /\ pc[q] = "loop" => UptoIn(chan, k, q, b, item[q], Len(chan))
      /\ pc[q] = "finish" /\ k # "profile" /\ res[q] # "canceled" =>
            UptoIn(chan, k, q, b, item[q], Len(chan))
      /\ \A i \in DOMAIN chan : chan[i].run = q =>
            /\ Done(chan[i]) => chan[i].item > b /\ UptoIn(chan, k, q, b, chan[i].item - 1, i - 1)
            /\ chan[i].ev = "RunDone" /\ k # "profile" /\ chan[i].res # "canceled" =>
                  UptoIn(chan, k, q, b, chan[i].item, i - 1)
  BY <1>h DEF HolderInv, Busy, Upto, InItem, Holds
<1>t. /\ chan \in Seq(Msg) /\ Len(chan) \in Nat /\ Len(chan') \in Nat
      /\ DOMAIN chan = 1..Len(chan) /\ DOMAIN chan' = 1..Len(chan')
      /\ item[q] \in Int /\ item'[q] \in Int /\ b \in Int
      /\ \A i \in DOMAIN chan : chan[i].item \in Int
  <2>1. chan \in Seq(Msg) /\ chan' \in Seq(Msg) /\ results \in [Runs -> Seq(1 .. Items)]
    BY DEF TypeOK
  <2>2. item[q] \in 0 .. Items /\ item'[q] \in 0 .. Items
    BY DEF TypeOK
  <2>3. \A i \in DOMAIN chan : chan[i].item \in 0 .. Items
    <3> SUFFICES ASSUME NEW i \in DOMAIN chan PROVE chan[i].item \in 0 .. Items
      OBVIOUS
    <3>1. chan[i] \in Msg
      BY <2>1
    <3> QED BY <3>1 DEF Msg
  <2> QED BY <2>1, <2>2, <2>3
<1> HIDE DEF k, b
(* What was queued is queued still. *)
<1>2. ASSUME NEW x \in Int, NEW n \in Int, n <= Len(chan), UptoIn(chan, k, q, b, x, n)
      PROVE  UptoIn(chan', k, q, b, x, n)
  <2>1. CASE chan' = chan
    BY <1>2, <2>1
  <2>2. CASE chan' # chan
    <3>1. PICK m \in Msg : chan' = Append(chan, m)
      BY <1>0, <2>2 DEF Grown
    <3> QED BY <1>2, <1>t, <3>1, UptoAppend
  <2> QED BY <2>1, <2>2
<1>3. ASSUME NEW x \in Int, UptoIn(chan, k, q, b, x, Len(chan))
      PROVE  UptoIn(chan', k, q, b, x, Len(chan'))
  <2>1. UptoIn(chan', k, q, b, x, Len(chan))
    BY <1>2, <1>3, <1>t
  <2>2. Len(chan) <= Len(chan')
    <3>1. Len(chan') = Len(chan) \/ Len(chan') = Len(chan) + 1
      BY <1>0 DEF Grown
    <3>2. Len(chan) \in Nat
      BY <1>t
    <3> QED BY <3>1, <3>2
  <2> QED BY <1>t, <2>1, <2>2, UptoMono
(* The messages that were there. *)
<1>4. ASSUME NEW i \in DOMAIN chan, chan'[i].run = q
      PROVE  /\ Done(chan'[i]) => /\ chan'[i].item > b
                                  /\ UptoIn(chan', k, q, b, chan'[i].item - 1, i - 1)
             /\ chan'[i].ev = "RunDone" /\ k # "profile" /\ chan'[i].res # "canceled" =>
                  UptoIn(chan', k, q, b, chan'[i].item, i - 1)
  <2>1. chan'[i] = chan[i] /\ chan[i].item \in Int /\ i - 1 \in Int /\ i - 1 <= Len(chan)
    <3>1. chan'[i] = chan[i]
      BY <1>0 DEF Grown
    <3>2. i \in 1..Len(chan) /\ Len(chan) \in Nat
      BY <1>t
    <3> QED BY <1>t, <3>1, <3>2
  <2>2. chan[i].item - 1 \in Int
    BY <2>1
  <2> QED BY <1>1, <1>2, <1>4, <2>1, <2>2
(* Its own place, and the message it may have added. *)
<1> DEFINE Place ==
             /\ pc'[q] \in InItem => UptoIn(chan', k, q, b, item'[q] - 1, Len(chan'))
             /\ pc'[q] = "loop" => UptoIn(chan', k, q, b, item'[q], Len(chan'))
             /\ pc'[q] = "finish" /\ k # "profile" /\ res'[q] # "canceled" =>
                  UptoIn(chan', k, q, b, item'[q], Len(chan'))
           Added ==
             \A i \in DOMAIN chan' : i \notin DOMAIN chan /\ chan'[i].run = q =>
               /\ Done(chan'[i]) => /\ chan'[i].item > b
                                    /\ UptoIn(chan', k, q, b, chan'[i].item - 1, i - 1)
               /\ chan'[i].ev = "RunDone" /\ k # "profile" /\ chan'[i].res # "canceled" =>
                    UptoIn(chan', k, q, b, chan'[i].item, i - 1)
<1>5. SUFFICES Place /\ Added
  BY <1>4, <1>5, <1>k DEF k, b
<1>n. ASSUME NEW i \in DOMAIN chan', i \notin DOMAIN chan
      PROVE  i = Len(chan) + 1 /\ chan' # chan /\ i = Len(chan') /\ chan'[i].run = r
  <2>1. chan' # chan
    BY <1>n
  <2>2. Len(chan') = Len(chan) + 1 /\ chan'[Len(chan')].run = r
    BY <1>0, <2>1 DEF Grown
  <2>3. i = Len(chan')
    BY <1>n, <1>t, <2>2
  <2> QED BY <2>1, <2>2, <2>3
<1>6. CASE q # r
  <2>1. pc'[q] = pc[q] /\ item'[q] = item[q] /\ res'[q] = res[q]
    BY <1>0, <1>6 DEF Alone
  <2>2. Place
    BY <1>1, <1>3, <1>t, <2>1
  <2>3. Added
    BY <1>n, <1>6
  <2> QED BY <2>2, <2>3
<1>7. CASE q = r
  <2>1. CASE PlainStep(r)
    <3>1. ASSUME NEW i \in DOMAIN chan', i \notin DOMAIN chan
          PROVE  ~Done(chan'[i]) /\ chan'[i].ev # "RunDone"
      <4>1. PICK m \in Msg : Quiet(m) /\ chan' = Append(chan, m)
        BY <1>n, <2>1, <3>1 DEF PlainStep
      <4>2. i = Len(chan) + 1
        BY <1>n, <3>1
      <4>3. chan'[i] = m
        BY <1>t, <4>1, <4>2
      <4> QED BY <4>1, <4>3 DEF Quiet, Done
    <3>2. Added
      BY <3>1
    <3>3. ASSUME pc'[r] \in InItem PROVE UptoIn(chan', k, q, b, item'[q] - 1, Len(chan'))
      <4>1. CASE pc[r] \in InItem /\ item'[r] = item[r]
        BY <1>1, <1>3, <1>7, <1>t, <4>1
      <4>2. CASE pc[r] = "loop" /\ item'[r] = item[r] + 1
        <5>1. item'[q] - 1 = item[q]
          BY <1>7, <1>t, <4>2
        <5> QED BY <1>1, <1>3, <1>7, <1>t, <4>2, <5>1
      <4> QED BY <1>0, <3>3, <4>1, <4>2 DEF WorkerMoves
    <3>4. ASSUME pc'[r] = "loop" PROVE UptoIn(chan', k, q, b, item'[q], Len(chan'))
      <4>1. pc[r] = "begin" /\ item'[r] = item[r]
        BY <2>1, <3>4 DEF PlainStep, InItem
      <4>2. item'[q] = 0 /\ b <= 0 /\ b \in Nat
        BY <1>7, <4>1 DEF WorkerInv, b, TypeOK
      <4> QED BY <4>2 DEF UptoIn
    <3>5. ASSUME pc'[r] = "finish", res'[r] # "canceled"
          PROVE  UptoIn(chan', k, q, b, item'[q], Len(chan'))
      <4>1. pc[r] = "loop" /\ item'[r] = item[r]
        BY <2>1, <3>5 DEF PlainStep, InItem
      <4> QED BY <1>1, <1>3, <1>7, <1>t, <4>1
    <3> QED BY <1>7, <3>2, <3>3, <3>4, <3>5
  <2>2. CASE FinishItem(r)
    <3>1. PICK m \in Msg : /\ m.run = r /\ Done(m) /\ m.item = item[r] /\ m.res = res[r]
                           /\ chan' = Append(chan, m)
                           /\ pc'[r] = "loop" => Counted(m)
                           /\ kind[r] # "profile" /\ res[r] # "canceled" => Counted(m)
      BY <2>2 DEF FinishItem
    <3>2. /\ pc[r] \in InItem /\ pc'[r] \in {"loop", "finish"} /\ item'[r] = item[r]
          /\ res'[r] = res[r]
      BY <2>2 DEF FinishItem, InItem
    <3>3. UptoIn(chan, k, q, b, item[q] - 1, Len(chan)) /\ b < item[q]
      BY <1>1, <1>7, <3>2 DEF WorkerInv, Busy, InItem, k, b
    <3>4. Len(chan') = Len(chan) + 1 /\ chan'[Len(chan) + 1] = m
      BY <1>t, <3>1
    <3>5. Counted(m) => UptoIn(chan', k, q, b, item[q], Len(chan'))
      <4>1. Counted(m) => CountedAs(k, m)
        BY <1>7, <3>1 DEF Counted, k
      <4> QED BY <1>7, <1>t, <3>1, <3>3, <3>4, <4>1, UptoNext
    <3>6. Place
      BY <1>7, <3>1, <3>2, <3>5 DEF k, InItem
    <3>7. UptoIn(chan', k, q, b, item[q] - 1, Len(chan))
      BY <1>2, <1>t, <3>3
    <3>8. Added
      <4> SUFFICES ASSUME NEW i \in DOMAIN chan', i \notin DOMAIN chan
                   PROVE  /\ ~(chan'[i].ev = "RunDone") /\ chan'[i].item > b
                          /\ UptoIn(chan', k, q, b, chan'[i].item - 1, i - 1)
        OBVIOUS
      <4>1. chan'[i] = m /\ i - 1 = Len(chan)
        BY <1>n, <1>t, <3>4
      <4>2. m.ev # "RunDone"
        BY <3>1 DEF Done
      <4> QED BY <1>7, <1>t, <3>1, <3>3, <3>7, <4>1, <4>2
    <3> QED BY <3>6, <3>8
  <2>3. CASE EndRun(r)
    <3>1. PICK m \in Msg : /\ m.run = r /\ m.ev = "RunDone" /\ m.item = item[r] /\ m.res = res[r]
                           /\ chan' = Append(chan, m)
      BY <2>3 DEF EndRun
    <3>2. pc[r] = "finish" /\ pc'[r] = "report"
      BY <2>3 DEF EndRun
    <3>3. Place
      BY <1>7, <3>2 DEF InItem
    <3>4. k # "profile" /\ res[q] # "canceled" => UptoIn(chan', k, q, b, item[q], Len(chan))
      BY <1>1, <1>2, <1>7, <1>t, <3>2
    <3>5. Added
      <4> SUFFICES ASSUME NEW i \in DOMAIN chan', i \notin DOMAIN chan
                   PROVE  /\ ~Done(chan'[i])
                          /\ k # "profile" /\ chan'[i].res # "canceled" =>
                               UptoIn(chan', k, q, b, chan'[i].item, i - 1)
        OBVIOUS
      <4>0. i = Len(chan) + 1
        BY <1>n
      <4>1. chan'[i] = m /\ i - 1 = Len(chan)
        BY <1>t, <3>1, <4>0
      <4>2. ~Done(m)
        BY <3>1 DEF Done
      <4> QED BY <1>7, <3>1, <3>4, <4>1, <4>2
    <3> QED BY <3>3, <3>5
  <2> QED BY <2>1, <2>2, <2>3
<1> QED BY <1>6, <1>7

LEMMA WorkerStep ==
    ASSUME TypeOK, RunInv, NEW r \in Runs, Worker(r) \/ ExecuteWith(r)
    PROVE  TypeOK' /\ RunInv'
<1>1. TypeOK'
  BY WorkerType
<1>2. PlainStep(r) \/ FinishItem(r) \/ EndRun(r)
  BY WorkerEffect DEF RunInv
<1>3. Alone(r) /\ WorkerMoves(r) /\ Grown(r) /\ NewMsg(r)
  BY <1>1, <1>2, MovesFacts, GrownFacts, NewMsgFacts
<1>4. SlotInv' /\ WorkerInv' /\ FinalInv'
  BY <1>1, <1>3, WorkerKeepsPlace DEF RunInv
<1>5. ChanInv'
  BY <1>1, <1>3, WorkerKeepsChan DEF RunInv
<1>6. HolderInv'
  BY <1>1, <1>2, WorkerKeepsHolders DEF RunInv
<1> QED BY <1>1, <1>4, <1>5, <1>6 DEF RunInv

-----------------------------------------------------------------------------
(* The keys: some slots are given up, and a run may begin. *)

Freed(slots) ==
    /\ slots \in [Slots -> Runs \union {None}]
    /\ \A s \in Slots : slots[s] \in {slot[s], None}
    /\ canceled' \in [Runs -> BOOLEAN] /\ ctx' \in [Runs -> BOOLEAN] /\ final' \in [Runs -> Nat]
    /\ \A q \in Runs : canceled[q] => canceled'[q]
    /\ \A q \in Runs :
         \/ final'[q] = final[q]
         \/ /\ final'[q] = final[q] + 1 /\ canceled'[q]
            /\ \E s \in Slots : slot[s] = q
            /\ \A s \in Slots : slots[s] # q

LEMMA CancelFrees ==
    ASSUME TypeOK, CancelEffects
    PROVE  Freed(SlotAfterCancel)
<1>t. /\ slot \in [Slots -> Runs \union {None}] /\ canceled \in [Runs -> BOOLEAN]
      /\ ctx \in [Runs -> BOOLEAN] /\ final \in [Runs -> Nat]
  BY DEF TypeOK
<1>0. None \notin Runs
  BY DEF None, Runs
<1>1. SlotAfterCancel \in [Slots -> Runs \union {None}]
  BY <1>t DEF SlotAfterCancel
<1>2. \A s \in Slots : SlotAfterCancel[s] = IF slot[s] \in Dropped THEN None ELSE slot[s]
  BY DEF SlotAfterCancel
<1>3. canceled' \in [Runs -> BOOLEAN] /\ \A q \in Runs : canceled'[q] = (canceled[q] \/ q \in Marked)
  BY DEF CancelEffects
<1>4. ctx' \in [Runs -> BOOLEAN]
  BY DEF CancelEffects
<1>5. /\ final' \in [Runs -> Nat]
      /\ \A q \in Runs : final'[q] = IF q \in Dropped THEN final[q] + 1 ELSE final[q]
  BY <1>t DEF CancelEffects
<1>6. ASSUME NEW q \in Dropped
      PROVE  /\ q \in Marked /\ q \in Runs /\ \E s \in Slots : slot[s] = q
             /\ \A s \in Slots : SlotAfterCancel[s] # q
  <2>1. q \in Marked /\ q \in Runs /\ \E s \in Slots : slot[s] = q
    BY DEF Dropped, Marked
  <2> QED BY <1>0, <1>2, <1>6, <2>1
<1> QED BY <1>1, <1>2, <1>3, <1>4, <1>5, <1>6 DEF Freed

LEMMA KeepFrees ==
    ASSUME TypeOK, UNCHANGED <<ctx, canceled, final>>
    PROVE  Freed(slot)
BY DEF TypeOK, Freed

Begun(r, slots) ==
    /\ kind[r] = "none" /\ kind'[r] \in Kinds
    /\ pc'[r] = IF kind'[r] = "single" THEN "exec" ELSE "begin"
    /\ slot' = IF kind'[r] \in Slots THEN [slots EXCEPT ![kind'[r]] = r] ELSE slots
Keyed(r, slots) ==
    /\ Freed(slots)
    /\ UNCHANGED <<item, res, chan, results>>
    /\ \A q \in Runs : q # r => kind'[q] = kind[q] /\ pc'[q] = pc[q]
    /\ \/ kind'[r] = kind[r] /\ pc'[r] = pc[r] /\ slot' = slots
       \/ Begun(r, slots)

LEMMA BeginKeyed ==
    ASSUME TypeOK, NEW r \in Runs, NEW k \in UserKinds, NEW slots, Freed(slots),
           Begin(r, k, slots), sending' \in BOOLEAN
    PROVE  TypeOK' /\ Keyed(r, slots)
<1>0. k \in Kinds
  BY BoundsAssumption DEF Kinds, Slots
<1>1. /\ kind' = [kind EXCEPT ![r] = k]
      /\ pc' = [pc EXCEPT ![r] = IF k = "single" THEN "exec" ELSE "begin"]
      /\ slot' = IF k \in Slots THEN [slots EXCEPT ![k] = r] ELSE slots
      /\ current' = [current EXCEPT ![r] = k \in {"compare", "profile"}]
      /\ sendCancel' = r
      /\ UNCHANGED <<item, res, chan, replies, results>>
      /\ kind[r] = "none"
  BY DEF Begin, Goto
<1>t. /\ kind \in [Runs -> Kinds \union {"none"}] /\ current \in [Runs -> BOOLEAN]
      /\ pc \in [Runs -> {"idle", "begin", "loop", "step", "exec", "done",
                          "stepdone", "finish", "report", "exit"}]
      /\ slots \in [Slots -> Runs \union {None}]
      /\ canceled' \in [Runs -> BOOLEAN] /\ ctx' \in [Runs -> BOOLEAN] /\ final' \in [Runs -> Nat]
  BY DEF TypeOK, Freed
<1>2. /\ kind' \in [Runs -> Kinds \union {"none"}] /\ current' \in [Runs -> BOOLEAN]
      /\ slot' \in [Slots -> Runs \union {None}]
  BY <1>0, <1>1, <1>t
<1>3. pc' \in [Runs -> {"idle", "begin", "loop", "step", "exec", "done",
                        "stepdone", "finish", "report", "exit"}]
  BY <1>1, <1>t
<1>4. TypeOK'
  BY <1>1, <1>2, <1>3, <1>t DEF TypeOK
<1>5. /\ kind'[r] = k /\ pc'[r] = IF k = "single" THEN "exec" ELSE "begin"
      /\ \A q \in Runs : q # r => kind'[q] = kind[q] /\ pc'[q] = pc[q]
  BY <1>1, <1>t
<1>6. Begun(r, slots)
  BY <1>0, <1>1, <1>5 DEF Begun
<1> QED BY <1>1, <1>4, <1>5, <1>6 DEF Keyed

LEMMA KeyedKeeps ==
    ASSUME TypeOK, TypeOK', RunInv, NEW r \in Runs, NEW slots, Keyed(r, slots)
    PROVE  RunInv'
<1> USE DEF Keyed
<1>0. SlotInv /\ WorkerInv /\ ChanInv /\ HolderInv /\ FinalInv
  BY DEF RunInv
<1>s. "none" \notin Slots /\ "none" \notin Kinds /\ "single" \notin Slots /\ None \notin Runs
  BY DEF Slots, Kinds, None, Runs
<1>t. /\ slot \in [Slots -> Runs \union {None}] /\ slots \in [Slots -> Runs \union {None}]
      /\ final \in [Runs -> Nat]
  BY DEF TypeOK, Freed
(* A run that begins had no slot, no message and no report. *)
<1>1. ASSUME Begun(r, slots)
      PROVE  /\ \A s \in Slots : slot[s] # r /\ slots[s] # r
             /\ final[r] = 0 /\ final'[r] = 0 /\ \A i \in DOMAIN chan : chan[i].run # r
  <2>1. kind[r] = "none"
    BY <1>1 DEF Begun
  <2>2. \A s \in Slots : slot[s] # r
    BY <1>0, <1>s, <2>1 DEF SlotInv
  <2>3. \A s \in Slots : slots[s] # r
    BY <1>s, <2>2 DEF Freed
  <2>4. final[r] = 0 /\ final'[r] = final[r]
    BY <1>0, <2>1, <2>2 DEF SlotInv, Freed
  <2>5. \A i \in DOMAIN chan : chan[i].run # r
    BY <1>0, <1>s, <2>1 DEF ChanInv
  <2> QED BY <2>2, <2>3, <2>4, <2>5
(* Another run in a slot was there before. *)
<1>2. ASSUME NEW s \in Slots, slot'[s] # None, ~(Begun(r, slots) /\ slot'[s] = r)
      PROVE  slot'[s] = slot[s] /\ slots[s] = slot[s]
  <2>1. slot'[s] = slots[s]
    BY <1>2, <1>t DEF Begun
  <2> QED BY <1>2, <2>1 DEF Freed
<1>3. SlotInv'
  <2>1. ASSUME NEW s \in Slots, slot'[s] # None
        PROVE  kind'[slot'[s]] = s /\ final'[slot'[s]] = 0
    <3>1. CASE Begun(r, slots) /\ slot'[s] = r
      <4>1. kind'[r] = s
        BY <1>1, <1>t, <3>1 DEF Begun
      <4> QED BY <1>1, <3>1, <4>1
    <3>2. CASE ~(Begun(r, slots) /\ slot'[s] = r)
      <4>1. slot'[s] = slot[s] /\ slots[s] = slot[s] /\ slot[s] \in Runs
        BY <1>2, <1>t, <2>1, <3>2
      <4>2. kind[slot[s]] = s /\ final[slot[s]] = 0
        BY <1>0, <2>1, <4>1 DEF SlotInv
      <4>3. kind'[slot[s]] = kind[slot[s]]
        BY <3>2, <4>1
      <4>4. final'[slot[s]] = 0
        BY <4>1, <4>2 DEF Freed
      <4> QED BY <4>1, <4>2, <4>3, <4>4
    <3> QED BY <3>1, <3>2
  <2>2. ASSUME NEW q \in Runs
        PROVE  final'[q] <= 1 /\ (kind'[q] = "none" => final'[q] = 0)
    <3>1. final[q] <= 1 /\ (kind[q] = "none" => final[q] = 0) /\ final[q] \in Nat
      BY <1>0, <1>t DEF SlotInv, ReportedOnce
    <3>2. kind'[q] = "none" => kind[q] = "none"
      BY <1>s DEF Begun
    <3>3. CASE final'[q] = final[q]
      BY <3>1, <3>2, <3>3
    <3>4. CASE final'[q] = final[q] + 1 /\ \E s \in Slots : slot[s] = q
      <4>1. kind[q] # "none" /\ final[q] = 0
        BY <1>0, <1>s, <3>4 DEF SlotInv
      <4> QED BY <3>2, <3>4, <4>1
    <3> QED BY <3>3, <3>4 DEF Freed
  <2> QED BY <2>1, <2>2 DEF SlotInv, ReportedOnce
<1>4. WorkerInv'
  <2> SUFFICES ASSUME NEW q \in Runs
               PROVE  /\ kind'[q] = "none" <=> pc'[q] = "idle"
                      /\ kind'[q] = "single" => pc'[q] \in {"exec", "exit"}
                      /\ pc'[q] \in {"step", "stepdone"} => kind'[q] = "workflow"
                      /\ pc'[q] \in {"idle", "begin"} => item'[q] = 0
                      /\ Len(results'[q]) <= item'[q]
                      /\ kind'[q] \in Slots /\ pc'[q] \in InItem => Len(results'[q]) < item'[q]
                      /\ results'[q] = [i \in 1 .. Len(results'[q]) |-> i]
    BY DEF WorkerInv, Busy, InItem
  <2>1. /\ kind[q] = "none" <=> pc[q] = "idle"
        /\ kind[q] = "single" => pc[q] \in {"exec", "exit"}
        /\ pc[q] \in {"step", "stepdone"} => kind[q] = "workflow"
        /\ pc[q] \in {"idle", "begin"} => item[q] = 0
        /\ Len(results[q]) <= item[q]
        /\ kind[q] \in Slots /\ pc[q] \in InItem => Len(results[q]) < item[q]
        /\ results[q] = [i \in 1 .. Len(results[q]) |-> i]
    BY <1>0 DEF WorkerInv, Busy, InItem
  <2>2. results' = results /\ item' = item
    OBVIOUS
  <2>3. CASE kind'[q] = kind[q] /\ pc'[q] = pc[q]
    BY <2>1, <2>2, <2>3
  <2>4. CASE q = r /\ Begun(r, slots)
    <3>1. /\ kind[q] = "none" /\ kind'[q] # "none" /\ pc'[q] \in {"exec", "begin"}
          /\ kind'[q] = "single" => pc'[q] = "exec"
          /\ pc'[q] = "exec" => kind'[q] = "single"
      BY <1>s, <2>4 DEF Begun
    <3> QED BY <1>s, <2>1, <2>2, <3>1 DEF InItem
  <2> QED BY <2>3, <2>4
<1>5. ChanInv'
  <2> SUFFICES ASSUME NEW i \in DOMAIN chan
               PROVE  /\ kind'[chan[i].run] = kind[chan[i].run] /\ pc'[chan[i].run] = pc[chan[i].run]
                      /\ item' = item /\ res' = res /\ chan' = chan
    BY <1>0 DEF ChanInv, Busy, Over, Done
  <2>0. chan[i] \in Msg
    BY DEF TypeOK
  <2>1. chan[i].run \in Runs
    BY <2>0 DEF Msg
  <2> QED BY <1>1, <2>1
<1>6. HolderInv'
  <2> SUFFICES ASSUME NEW q \in Runs, Holds(q)'
               PROVE  /\ kind'[q] \in Slots /\ pc'[q] \in InItem =>
                           UptoIn(chan', kind'[q], q, Len(results'[q]), item'[q] - 1, Len(chan'))
                      /\ pc'[q] = "loop" =>
                           UptoIn(chan', kind'[q], q, Len(results'[q]), item'[q], Len(chan'))
                      /\ pc'[q] = "finish" /\ kind'[q] # "profile" /\ res'[q] # "canceled" =>
                           UptoIn(chan', kind'[q], q, Len(results'[q]), item'[q], Len(chan'))
                      /\ \A i \in DOMAIN chan' : chan'[i].run = q =>
                           /\ Done(chan'[i]) =>
                                /\ chan'[i].item > Len(results'[q])
                                /\ UptoIn(chan', kind'[q], q, Len(results'[q]), chan'[i].item - 1, i - 1)
                           /\ chan'[i].ev = "RunDone" /\ kind'[q] # "profile" /\ chan'[i].res # "canceled" =>
                                UptoIn(chan', kind'[q], q, Len(results'[q]), chan'[i].item, i - 1)
    BY DEF HolderInv, Busy, Upto, InItem, UptoIn, QueuedIn, CountedAs, Done
  <2>0. kind'[q] \in Slots /\ slot'[kind'[q]] = q
    BY DEF Holds
  <2>1. CASE q = r /\ Begun(r, slots)
    <3>1. pc'[q] = "begin"
      BY <1>s, <2>0, <2>1 DEF Begun
    <3> QED BY <1>1, <2>1, <3>1 DEF InItem
  <2>2. CASE ~(q = r /\ Begun(r, slots))
    <3>1. kind'[q] = kind[q] /\ pc'[q] = pc[q]
      BY <2>2
    <3>2. Holds(q)
      BY <1>2, <1>s, <2>0, <2>2, <3>1 DEF Holds
    <3> QED BY <1>0, <3>1, <3>2 DEF HolderInv, Upto, Busy, InItem
  <2> QED BY <2>1, <2>2
<1>7. FinalInv'
  <2> SUFFICES ASSUME NEW q \in Runs, final'[q] > 0, ~canceled'[q]
               PROVE  /\ final[q] > 0 /\ ~canceled[q] /\ kind'[q] = kind[q] /\ pc'[q] = pc[q]
                      /\ item' = item /\ res' = res /\ results' = results
    BY <1>0 DEF FinalInv, Over
  <2>1. final'[q] = final[q] /\ ~canceled[q]
    BY DEF Freed
  <2>2. ~(q = r /\ Begun(r, slots))
    BY <1>1
  <2> QED BY <2>1, <2>2
<1> QED BY <1>3, <1>4, <1>5, <1>6, <1>7 DEF RunInv

LEMMA KeyStep ==
    ASSUME TypeOK, RunInv,
           \/ CancelActiveRuns
           \/ \E r \in Runs, k \in UserKinds : SendActiveRequest(r, k) \/ Start(r, k)
    PROVE  TypeOK' /\ RunInv'
<1>1. CASE CancelActiveRuns
  <2>1. /\ Freed(SlotAfterCancel) /\ slot' = SlotAfterCancel /\ sending' = FALSE
        /\ UNCHANGED <<kind, pc, item, res, chan, replies, current, results, sendCancel>>
    BY <1>1, CancelFrees DEF CancelActiveRuns, worker
  <2>2. TypeOK'
    BY <2>1 DEF TypeOK, Freed
  <2>3. 1 \in Runs
    BY BoundsAssumption DEF Runs
  <2>4. Keyed(1, SlotAfterCancel)
    BY <2>1 DEF Keyed
  <2> QED BY <2>2, <2>3, <2>4, KeyedKeeps
<1>2. ASSUME NEW r \in Runs, NEW k \in UserKinds, SendActiveRequest(r, k)
      PROVE  TypeOK' /\ RunInv'
  <2>1. Freed(SlotAfterCancel) /\ Begin(r, k, SlotAfterCancel) /\ sending' \in BOOLEAN
    BY <1>2, CancelFrees DEF SendActiveRequest
  <2>2. TypeOK' /\ Keyed(r, SlotAfterCancel)
    BY <2>1, BeginKeyed
  <2> QED BY <2>2, KeyedKeeps
<1>3. ASSUME NEW r \in Runs, NEW k \in UserKinds, Start(r, k)
      PROVE  TypeOK' /\ RunInv'
  <2>1. Freed(slot) /\ Begin(r, k, slot) /\ sending' \in BOOLEAN
    BY <1>3, KeepFrees DEF Start
  <2>2. TypeOK' /\ Keyed(r, slot)
    BY <2>1, BeginKeyed
  <2> QED BY <2>2, KeyedKeeps
<1> QED BY <1>1, <1>2, <1>3

-----------------------------------------------------------------------------
(* The messages: the update loop takes the head of the channel. *)

LEMMA TakeKeepsChan ==
    ASSUME TypeOK, ChanInv, Take, UNCHANGED <<kind, pc, item, res>>
    PROVE  /\ ChanInv'
           /\ chan' \in Seq(Msg) /\ Len(chan') = Len(chan) - 1 /\ Len(chan') <= ChanCap
           /\ \A i \in DOMAIN chan' : i + 1 \in DOMAIN chan /\ chan'[i] = chan[i + 1]
<1>1. chan \in Seq(Msg) /\ chan # << >> /\ chan' = Tail(chan) /\ Len(chan) <= ChanCap
  BY DEF TypeOK, Take
<1>2. /\ chan' \in Seq(Msg) /\ Len(chan') = Len(chan) - 1 /\ Len(chan') <= ChanCap
      /\ \A i \in DOMAIN chan' : i + 1 \in DOMAIN chan /\ chan'[i] = chan[i + 1]
  BY <1>1, BoundsAssumption
<1>3. ASSUME NEW i \in DOMAIN chan', NEW j \in DOMAIN chan', i < j
      PROVE  i + 1 < j + 1
  BY <1>2, <1>3
<1>4. ChanInv'
  <2> SUFFICES ASSUME NEW i \in DOMAIN chan'
               PROVE  /\ kind[chan'[i].run] \in Slots /\ pc[chan'[i].run] # "begin"
                      /\ Done(chan'[i]) =>
                           /\ chan'[i].item <= item[chan'[i].run]
                           /\ Busy(chan'[i].run) => chan'[i].item < item[chan'[i].run]
                           /\ kind[chan'[i].run] = "profile" /\ chan'[i].res = "skip" =>
                                /\ chan'[i].item = item[chan'[i].run] /\ res[chan'[i].run] = "skip"
                                /\ Over(chan'[i].run)
                      /\ Done(chan'[i]) => \A j \in DOMAIN chan' :
                           i < j /\ chan'[j].run = chan'[i].run /\ Done(chan'[j]) =>
                                chan'[i].item < chan'[j].item
                      /\ chan'[i].ev = "RunDone" =>
                           /\ pc[chan'[i].run] \in {"report", "exit"}
                           /\ chan'[i].item = item[chan'[i].run] /\ chan'[i].res = res[chan'[i].run]
    BY DEF ChanInv, Busy, Over, Done
  <2>1. i + 1 \in DOMAIN chan /\ chan'[i] = chan[i + 1]
    BY <1>2
  <2>2. ASSUME NEW j \in DOMAIN chan', i < j, chan'[j].run = chan'[i].run, Done(chan'[j]), Done(chan'[i])
        PROVE  chan'[i].item < chan'[j].item
    <3>1. j + 1 \in DOMAIN chan /\ chan'[j] = chan[j + 1] /\ i + 1 < j + 1
      BY <1>2, <1>3, <2>2
    <3> QED BY <2>1, <2>2, <3>1 DEF ChanInv
  <2> QED BY <2>1, <2>2 DEF ChanInv
<1> QED BY <1>2, <1>4

LEMMA TakeKeepsHolders ==
    ASSUME TypeOK, TypeOK', ChanInv, HolderInv, Take, UNCHANGED <<kind, pc, item, res>>,
           \A q \in Runs : Holds(q)' =>
              /\ Holds(q)
              /\ \/ results'[q] = results[q] /\ ~(Head(chan).run = q /\ Counted(Head(chan)))
                 \/ /\ Head(chan).run = q /\ Done(Head(chan))
                    /\ Head(chan).item = Len(results[q]) + 1
                    /\ Len(results'[q]) = Len(results[q]) + 1
    PROVE  HolderInv'
<1> SUFFICES ASSUME NEW q \in Runs, Holds(q)'
             PROVE  /\ kind'[q] \in Slots /\ pc'[q] \in InItem =>
                         UptoIn(chan', kind'[q], q, Len(results'[q]), item'[q] - 1, Len(chan'))
                    /\ pc'[q] = "loop" =>
                         UptoIn(chan', kind'[q], q, Len(results'[q]), item'[q], Len(chan'))
                    /\ pc'[q] = "finish" /\ kind'[q] # "profile" /\ res'[q] # "canceled" =>
                         UptoIn(chan', kind'[q], q, Len(results'[q]), item'[q], Len(chan'))
                    /\ \A i \in DOMAIN chan' : chan'[i].run = q =>
                         /\ Done(chan'[i]) =>
                              /\ chan'[i].item > Len(results'[q])
                              /\ UptoIn(chan', kind'[q], q, Len(results'[q]), chan'[i].item - 1, i - 1)
                         /\ chan'[i].ev = "RunDone" /\ kind'[q] # "profile" /\ chan'[i].res # "canceled" =>
                              UptoIn(chan', kind'[q], q, Len(results'[q]), chan'[i].item, i - 1)
  BY DEF HolderInv, Busy, Upto, InItem, UptoIn, QueuedIn, CountedAs, Done
<1> DEFINE k == kind[q]
           b == Len(results[q])
           b2 == Len(results'[q])
           h == Head(chan)
<1>0. /\ Holds(q)
      /\ \/ results'[q] = results[q] /\ ~(h.run = q /\ CountedAs(k, h))
         \/ h.run = q /\ Done(h) /\ h.item = b + 1 /\ b2 = b + 1
  BY DEF Counted
<1>1. /\ pc[q] \in InItem => UptoIn(chan, k, q, b, item[q] - 1, Len(chan))
      /\ pc[q] = "loop" => UptoIn(chan, k, q, b, item[q], Len(chan))
      /\ pc[q] = "finish" /\ k # "profile" /\ res[q] # "canceled" =>
            UptoIn(chan, k, q, b, item[q], Len(chan))
      /\ \A i \in DOMAIN chan : chan[i].run = q =>
            /\ Done(chan[i]) => chan[i].item > b /\ UptoIn(chan, k, q, b, chan[i].item - 1, i - 1)
            /\ chan[i].ev = "RunDone" /\ k # "profile" /\ chan[i].res # "canceled" =>
                  UptoIn(chan, k, q, b, chan[i].item, i - 1)
  BY <1>0 DEF HolderInv, Busy, Upto, InItem, Holds
<1>t. /\ chan \in Seq(Msg) /\ chan # << >> /\ chan' = Tail(chan) /\ Len(chan) \in Nat
      /\ DOMAIN chan = 1..Len(chan) /\ item[q] \in Int /\ b \in Int /\ h = chan[1] /\ 1 \in DOMAIN chan
  <2>1. chan \in Seq(Msg) /\ chan # << >> /\ chan' = Tail(chan)
    BY DEF TypeOK, Take
  <2>2. item[q] \in 0 .. Items /\ results[q] \in Seq(1 .. Items)
    BY DEF TypeOK
  <2> QED BY <2>1, <2>2
<1>m. \A i \in DOMAIN chan : chan[i].item \in Int
  <2> SUFFICES ASSUME NEW i \in DOMAIN chan PROVE chan[i].item \in 0 .. Items
    OBVIOUS
  <2>1. chan[i] \in Msg
    BY <1>t
  <2> QED BY <2>1 DEF Msg
<1>2. /\ Len(chan') = Len(chan) - 1
      /\ \A i \in DOMAIN chan' : i + 1 \in DOMAIN chan /\ chan'[i] = chan[i + 1] /\ i \in Int /\ i > 0
  <2>1. chan' \in Seq(Msg)
    BY DEF TypeOK
  <2>2. \A i \in DOMAIN chan' : i \in Int /\ i > 0
    BY <2>1
  <2> QED BY <2>2, TakeKeepsChan
<1> HIDE DEF k, b, b2, h
<1>3. ASSUME NEW x \in Int, NEW n \in Int, n <= Len(chan), UptoIn(chan, k, q, b, x, n)
      PROVE  UptoIn(chan', k, q, b2, x, n - 1)
  <2>1. CASE results'[q] = results[q] /\ ~(h.run = q /\ CountedAs(k, h))
    <3>1. b2 = b
      BY <2>1 DEF b, b2
    <3>2. ~(Head(chan).run = q /\ CountedAs(k, Head(chan)))
      BY <2>1 DEF h
    <3>3. UptoIn(Tail(chan), k, q, b, x, n - 1)
      BY <1>3, <1>t, <3>2, UptoTail
    <3> QED BY <1>t, <3>1, <3>3
  <2>2. CASE h.item = b + 1 /\ b2 = b + 1
    <3>1. Head(chan).item = b + 1
      BY <2>2 DEF h
    <3>2. UptoIn(Tail(chan), k, q, b + 1, x, n - 1)
      BY <1>3, <1>t, <3>1, UptoTaken
    <3> QED BY <1>t, <2>2, <3>2
  <2> QED BY <1>0, <2>1, <2>2
<1>4. ASSUME NEW x \in Int, UptoIn(chan, k, q, b, x, Len(chan))
      PROVE  UptoIn(chan', k, q, b2, x, Len(chan'))
  <2>1. UptoIn(chan', k, q, b2, x, Len(chan) - 1)
    BY <1>3, <1>4, <1>t
  <2> QED BY <1>2, <2>1
<1>5. ASSUME NEW i \in DOMAIN chan', chan'[i].run = q
      PROVE  /\ Done(chan'[i]) => /\ chan'[i].item > b2
                                  /\ UptoIn(chan', k, q, b2, chan'[i].item - 1, i - 1)
             /\ chan'[i].ev = "RunDone" /\ k # "profile" /\ chan'[i].res # "canceled" =>
                  UptoIn(chan', k, q, b2, chan'[i].item, i - 1)
  <2> DEFINE j == i + 1
  <2>1. j \in DOMAIN chan /\ chan'[i] = chan[j] /\ j \in Int /\ 1 < j /\ j - 1 = i
    BY <1>2
  <2>2. chan[j].item \in Int /\ chan[j].item - 1 \in Int /\ j - 1 \in Int /\ j - 1 <= Len(chan)
    BY <1>m, <1>t, <2>1
  <2> HIDE DEF j
  <2>3. /\ Done(chan[j]) => chan[j].item > b /\ UptoIn(chan, k, q, b, chan[j].item - 1, j - 1)
        /\ chan[j].ev = "RunDone" /\ k # "profile" /\ chan[j].res # "canceled" =>
              UptoIn(chan, k, q, b, chan[j].item, j - 1)
    BY <1>1, <1>5, <2>1
  <2>4. Done(chan[j]) => chan[j].item > b2
    <3>1. CASE results'[q] = results[q]
      BY <2>3, <3>1 DEF b, b2
    <3>2. CASE h.run = q /\ Done(h) /\ h.item = b + 1 /\ b2 = b + 1
      <4>1. Done(chan[j]) => chan[1].item < chan[j].item
        BY <1>5, <1>t, <2>1, <3>2 DEF ChanInv
      <4> QED BY <1>t, <2>2, <3>2, <4>1
    <3> QED BY <1>0, <3>1, <3>2
  <2>5. Done(chan[j]) => UptoIn(chan', k, q, b2, chan[j].item - 1, i - 1)
    BY <1>3, <2>1, <2>2, <2>3
  <2>6. chan[j].ev = "RunDone" /\ k # "profile" /\ chan[j].res # "canceled" =>
              UptoIn(chan', k, q, b2, chan[j].item, i - 1)
    BY <1>3, <2>1, <2>2, <2>3
  <2> QED BY <2>1, <2>4, <2>5, <2>6
<1>6. /\ pc'[q] = pc[q] /\ item'[q] = item[q] /\ res'[q] = res[q] /\ kind'[q] = k
      /\ Len(results'[q]) = b2
  BY DEF k, b2
<1>7. /\ pc[q] \in InItem => UptoIn(chan', k, q, b2, item[q] - 1, Len(chan'))
      /\ pc[q] = "loop" => UptoIn(chan', k, q, b2, item[q], Len(chan'))
      /\ pc[q] = "finish" /\ k # "profile" /\ res[q] # "canceled" =>
            UptoIn(chan', k, q, b2, item[q], Len(chan'))
  <2>1. item[q] - 1 \in Int
    BY <1>t
  <2> QED BY <1>1, <1>4, <1>t, <2>1
<1> QED BY <1>5, <1>6, <1>7

LEMMA HeadFacts ==
    ASSUME TypeOK, RunInv, Take
    PROVE  LET m == Head(chan)
               r == m.run
               b == Len(results[r]) IN
           /\ m \in Msg /\ r \in Runs /\ m.item \in 0 .. Items /\ b \in Nat
           /\ kind[r] \in Slots /\ pc[r] \notin {"idle", "begin"}
           /\ Done(m) => /\ m.item <= item[r]
                         /\ Busy(r) => m.item < item[r]
                         /\ kind[r] = "profile" /\ m.res = "skip" =>
                               m.item = item[r] /\ res[r] = "skip" /\ Over(r)
           /\ m.ev = "RunDone" => pc[r] \in {"report", "exit"} /\ m.item = item[r]
           /\ Holds(r) /\ Done(m) => m.item = b + 1
           /\ Holds(r) /\ m.ev = "RunDone" /\ kind[r] # "profile" /\ m.res # "canceled" =>
                 b = item[r]
<1> DEFINE m == Head(chan)
           r == m.run
           b == Len(results[r])
<1>1. chan \in Seq(Msg) /\ chan # << >>
  BY DEF TypeOK, Take
<1>2. m \in Msg /\ m = chan[1] /\ 1 \in DOMAIN chan
  BY <1>1
<1>3. r \in Runs /\ m.item \in 0 .. Items
  BY <1>2 DEF Msg
<1>4. results[r] \in Seq(1 .. Items) /\ item[r] \in 0 .. Items
  BY <1>3 DEF TypeOK
<1>5. b \in Nat
  BY <1>4
<1>s. "none" \notin Slots
  BY DEF Slots
<1> HIDE DEF m
<1>6. /\ kind[r] \in Slots /\ pc[r] # "begin"
      /\ Done(m) => /\ m.item <= item[r]
                    /\ Busy(r) => m.item < item[r]
                    /\ kind[r] = "profile" /\ m.res = "skip" =>
                          m.item = item[r] /\ res[r] = "skip" /\ Over(r)
      /\ m.ev = "RunDone" => pc[r] \in {"report", "exit"} /\ m.item = item[r]
  BY <1>2 DEF RunInv, ChanInv
<1>7. pc[r] # "idle" /\ b <= item[r]
  BY <1>3, <1>6, <1>s DEF RunInv, WorkerInv
<1>8. Holds(r) =>
        /\ Done(m) => m.item > b /\ UptoIn(chan, kind[r], r, b, m.item - 1, 0)
        /\ m.ev = "RunDone" /\ kind[r] # "profile" /\ m.res # "canceled" =>
              UptoIn(chan, kind[r], r, b, m.item, 0)
  <2>1. 1 - 1 = 0
    OBVIOUS
  <2> QED BY <1>2, <1>3, <2>1 DEF RunInv, HolderInv, Upto
<1> HIDE DEF b
<1>9. ASSUME NEW x \in Int, UptoIn(chan, kind[r], r, b, x, 0) PROVE x <= b
  BY <1>5, <1>9 DEF UptoIn, QueuedIn
<1>10. Holds(r) /\ Done(m) => m.item = b + 1
  BY <1>3, <1>5, <1>8, <1>9
<1>11. Holds(r) /\ m.ev = "RunDone" /\ kind[r] # "profile" /\ m.res # "canceled" => b = item[r]
  BY <1>3, <1>4, <1>5, <1>6, <1>7, <1>8, <1>9
<1> QED BY <1>2, <1>3, <1>5, <1>6, <1>7, <1>10, <1>11 DEF m, b

(* A message of no run that holds a slot, or the end of a worker. *)
LEMMA SkipStep ==
    ASSUME TypeOK, RunInv, HandleStale \/ HandleRunWorkerDone
    PROVE  TypeOK' /\ RunInv'
<1>1. /\ Take
      /\ UNCHANGED <<kind, ctx, pc, item, res, replies, slot, current, canceled, results, final, sending>>
      /\ sendCancel' \in {sendCancel, None}
  BY DEF HandleStale, HandleRunWorkerDone, worker, ui
<1>2. ChanInv' /\ chan' \in Seq(Msg) /\ Len(chan') <= ChanCap
  BY <1>1, TakeKeepsChan DEF RunInv
<1>3. TypeOK'
  BY <1>1, <1>2 DEF TypeOK
<1>4. SlotInv' /\ WorkerInv' /\ FinalInv'
  BY <1>1 DEF RunInv, SlotInv, ReportedOnce, WorkerInv, FinalInv, Busy, Over
<1>5. ~(Holds(Head(chan).run) /\ Done(Head(chan)))
  <2>1. kind[Head(chan).run] \in Slots /\ Head(chan).run \in Runs
    BY <1>1, HeadFacts
  <2>2. CASE HandleStale
    <3>1. Head(chan).run # None
      BY <2>1 DEF Runs, None
    <3> QED BY <2>1, <2>2, <3>1 DEF HandleStale, Accepted, Holder, Holds
  <2>3. CASE HandleRunWorkerDone
    BY <2>3 DEF HandleRunWorkerDone, Done
  <2> QED BY <2>2, <2>3
<1>6. ASSUME NEW q \in Runs, Holds(q)'
      PROVE  Holds(q) /\ results'[q] = results[q] /\ ~(Head(chan).run = q /\ Counted(Head(chan)))
  <2>1. Holds(q)
    BY <1>1, <1>6 DEF Holds
  <2> QED BY <1>1, <1>5, <2>1 DEF Counted, CountedAs
<1>7. HolderInv'
  BY <1>1, <1>3, <1>6, TakeKeepsHolders DEF RunInv
<1> QED BY <1>2, <1>3, <1>4, <1>7 DEF RunInv

(* A message of the run that holds its slot. *)
LEMMA EventStep ==
    ASSUME TypeOK, RunInv, HandleRunEvt
    PROVE  TypeOK' /\ RunInv'
<1> DEFINE m == Head(chan)
           r == m.run
           b == Len(results[r])
<1>1. /\ Take /\ UNCHANGED <<kind, ctx, pc, item, res, replies>>
      /\ m.ev # "WorkerDone" /\ Accepted(m)
      /\ \/ kind[r] = "workflow" /\ HandleWorkflowRunEvt(m)
         \/ kind[r] = "compare" /\ HandleCompareRunEvt(m)
         \/ kind[r] = "profile" /\ HandleProfileRunEvt(m)
  BY DEF HandleRunEvt, worker
<1>2. /\ m \in Msg /\ r \in Runs /\ m.item \in 0 .. Items /\ b \in Nat
      /\ kind[r] \in Slots /\ pc[r] \notin {"idle", "begin"}
      /\ Done(m) => /\ m.item <= item[r]
                    /\ Busy(r) => m.item < item[r]
                    /\ kind[r] = "profile" /\ m.res = "skip" =>
                          m.item = item[r] /\ res[r] = "skip" /\ Over(r)
      /\ m.ev = "RunDone" => pc[r] \in {"report", "exit"} /\ m.item = item[r]
      /\ Holds(r) /\ Done(m) => m.item = b + 1
      /\ Holds(r) /\ m.ev = "RunDone" /\ kind[r] # "profile" /\ m.res # "canceled" =>
            b = item[r]
  BY <1>1, HeadFacts
<1> HIDE DEF m
<1>3. Holds(r) /\ slot[kind[r]] = r
  BY <1>1, <1>2 DEF Accepted, Holder, Holds
<1>4. EventEffect(r, m)
  <2>1. CASE kind[r] = "workflow" /\ HandleWorkflowRunEvt(m)
    BY <1>2, <1>3, <2>1, WorkflowEffect
  <2>2. CASE kind[r] = "compare" /\ HandleCompareRunEvt(m)
    BY <1>2, <1>3, <2>2, CompareEffect
  <2>3. CASE kind[r] = "profile" /\ HandleProfileRunEvt(m)
    BY <1>2, <1>3, <2>3, ProfileEffect
  <2> QED BY <1>1, <2>1, <2>2, <2>3
<1>t. /\ results[r] \in Seq(1 .. Items) /\ item[r] \in 0 .. Items /\ Items \in Nat
      /\ results \in [Runs -> Seq(1 .. Items)] /\ final \in [Runs -> Nat]
      /\ slot \in [Slots -> Runs \union {None}]
  BY <1>2, BoundsAssumption DEF TypeOK
<1>i. SlotInv /\ WorkerInv /\ ChanInv /\ HolderInv /\ FinalInv
  BY DEF RunInv
<1>5. results'[r] = results[r] \/ (Done(m) /\ results'[r] = Append(results[r], m.item))
  BY <1>4 DEF EventEffect, Kept, Reported, Counted, CountedAs
<1>6. /\ results'[r] \in Seq(1 .. Items)
      /\ Len(results'[r]) = b \/ (Done(m) /\ m.item = b + 1 /\ Len(results'[r]) = b + 1)
      /\ results'[r] = [i \in 1 .. Len(results'[r]) |-> i]
  <2>1. results[r] = [i \in 1 .. b |-> i]
    BY <1>2, <1>i DEF WorkerInv
  <2>2. CASE results'[r] = results[r]
    BY <1>t, <2>1, <2>2
  <2>3. CASE Done(m) /\ results'[r] = Append(results[r], m.item)
    <3>1. m.item = b + 1 /\ m.item \in 1 .. Items
      BY <1>2, <1>3, <2>3
    <3>2. /\ results'[r] \in Seq(1 .. Items) /\ Len(results'[r]) = b + 1
          /\ \A i \in 1 .. b : results'[r][i] = results[r][i]
          /\ results'[r][b + 1] = m.item
      BY <1>t, <2>3, <3>1
    <3>3. \A i \in 1 .. (b + 1) : results'[r][i] = i
      BY <1>2, <2>1, <3>1, <3>2
    <3>4. results'[r] = [i \in 1 .. (b + 1) |-> i]
      BY <3>2, <3>3
    <3> QED BY <2>3, <3>1, <3>2, <3>4
  <2> QED BY <1>5, <2>2, <2>3
<1>7. \A q \in Runs : q # r => results'[q] = results[q] /\ canceled'[q] = canceled[q]
  BY <1>4 DEF EventEffect
<1>8. \/ slot' = slot /\ final' = final
      \/ slot' = [slot EXCEPT ![kind[r]] = None] /\ final' = [final EXCEPT ![r] = @ + 1]
  BY <1>4 DEF EventEffect, Kept, Reported
<1>9. ChanInv' /\ chan' \in Seq(Msg) /\ Len(chan') <= ChanCap
  BY <1>1, <1>i, TakeKeepsChan
<1>10. TypeOK'
  <2>1. /\ canceled' \in [Runs -> BOOLEAN] /\ current' \in [Runs -> BOOLEAN]
        /\ sending' \in BOOLEAN /\ sendCancel' \in {sendCancel, None}
        /\ results' = [results EXCEPT ![r] = results'[r]]
    BY <1>4 DEF EventEffect
  <2>2. results' \in [Runs -> Seq(1 .. Items)]
    BY <1>2, <1>6, <1>t, <2>1
  <2>3. final' \in [Runs -> Nat] /\ slot' \in [Slots -> Runs \union {None}]
    <3>1. final[r] + 1 \in Nat
      BY <1>2, <1>t
    <3>2. CASE slot' = slot /\ final' = final
      BY <1>t, <3>2
    <3>3. CASE slot' = [slot EXCEPT ![kind[r]] = None] /\ final' = [final EXCEPT ![r] = @ + 1]
      BY <1>t, <3>1, <3>3
    <3> QED BY <1>8, <3>2, <3>3
  <2> QED BY <1>1, <1>9, <2>1, <2>2, <2>3 DEF TypeOK
<1>11. SlotInv'
  <2>1. final[r] = 0
    BY <1>2, <1>3, <1>i DEF SlotInv, None, Runs
  <2>2. CASE slot' = slot /\ final' = final
    BY <1>1, <1>i, <2>2 DEF SlotInv, ReportedOnce
  <2>3. CASE slot' = [slot EXCEPT ![kind[r]] = None] /\ final' = [final EXCEPT ![r] = @ + 1]
    <3>1. /\ \A q \in Runs : q # r => final'[q] = final[q]
          /\ final'[r] = 1
      BY <1>2, <1>t, <2>1, <2>3
    <3>2. ASSUME NEW s \in Slots, slot'[s] # None
          PROVE  slot'[s] = slot[s] /\ slot[s] # r /\ slot[s] \in Runs /\ kind[slot[s]] = s
      <4>1. s # kind[r] /\ slot'[s] = slot[s] /\ slot[s] \in Runs
        BY <1>2, <1>t, <2>3, <3>2
      <4>2. kind[slot[s]] = s
        BY <1>i, <3>2, <4>1 DEF SlotInv
      <4> QED BY <4>1, <4>2
    <3>3. \A s \in Slots : slot'[s] # None => kind'[slot'[s]] = s /\ final'[slot'[s]] = 0
      BY <1>1, <1>i, <3>1, <3>2 DEF SlotInv
    <3>4. \A q \in Runs : (kind'[q] = "none" => final'[q] = 0) /\ final'[q] <= 1
      <4>1. kind[r] # "none"
        BY <1>2 DEF Slots
      <4>2. \A q \in Runs : (kind[q] = "none" => final[q] = 0) /\ final[q] <= 1
        BY <1>i DEF SlotInv, ReportedOnce
      <4> QED BY <1>1, <3>1, <4>1, <4>2
    <3> QED BY <3>3, <3>4 DEF SlotInv, ReportedOnce
  <2> QED BY <1>8, <2>2, <2>3
<1>12. WorkerInv'
  <2> SUFFICES ASSUME NEW q \in Runs
               PROVE  /\ Len(results'[q]) <= item[q]
                      /\ Busy(q) => Len(results'[q]) < item[q]
                      /\ results'[q] = [i \in 1 .. Len(results'[q]) |-> i]
    BY <1>1, <1>i DEF WorkerInv, Busy
  <2>1. /\ Len(results[q]) <= item[q]
        /\ Busy(q) => Len(results[q]) < item[q]
        /\ results[q] = [i \in 1 .. Len(results[q]) |-> i]
    BY <1>i DEF WorkerInv
  <2>2. CASE q # r
    BY <1>7, <2>1, <2>2
  <2>3. CASE q = r
    BY <1>2, <1>6, <2>1, <2>3
  <2> QED BY <2>2, <2>3
<1>13. FinalInv'
  <2> SUFFICES ASSUME NEW q \in Runs, final'[q] > 0, ~canceled'[q]
               PROVE  \/ /\ pc[q] \in {"loop", "finish", "report", "exit"}
                         /\ pc[q] = "loop" => item[q] = Items
                         /\ Len(results'[q]) = item[q]
                      \/ /\ Over(q) /\ kind[q] = "profile" /\ res[q] = "skip"
                         /\ Len(results'[q]) = item[q] - 1
    BY <1>1 DEF FinalInv, Over
  <2>1. CASE q # r
    <3>1. final'[q] = final[q] /\ results'[q] = results[q] /\ canceled'[q] = canceled[q]
      <4>1. final'[q] = final[q]
        BY <1>8, <1>t, <2>1
      <4> QED BY <1>7, <2>1, <4>1
    <3> QED BY <1>i, <3>1 DEF FinalInv
  <2>2. CASE q = r
    <3>1. final[r] = 0
      BY <1>2, <1>3, <1>i DEF SlotInv, None, Runs
    <3>2. Reported(r, m)
      BY <1>4, <2>2, <3>1 DEF EventEffect, Kept
    <3>3. Complete(r, m)
      BY <2>2, <3>2 DEF Reported
    <3>4. b <= item[r]
      BY <1>2, <1>i DEF WorkerInv
    <3>5. CASE /\ m.ev = "RunDone" /\ m.res # "canceled" /\ results'[r] = results[r]
               /\ kind[r] = "profile" => Len(results[r]) = Items
      <4>1. b = item[r] /\ pc[r] \in {"report", "exit"}
        BY <1>2, <1>3, <1>t, <3>4, <3>5
      <4> QED BY <2>2, <3>5, <4>1
    <3>6. CASE /\ Counted(m) /\ results'[r] = Append(results[r], m.item)
               /\ m.item = Items \/ Len(results'[r]) = Items
      <4>1. Done(m)
        BY <3>6 DEF Counted, CountedAs
      <4>2. Len(results'[r]) = b + 1
        BY <1>t, <3>6
      <4>3. Len(results'[r]) = Items /\ m.item = Items /\ item[r] = Items
        BY <1>2, <1>3, <1>t, <3>6, <4>1, <4>2
      <4>4. ~Busy(r)
        BY <1>2, <1>t, <4>1, <4>3
      <4>5. pc[r] \in {"loop", "finish", "report", "exit"}
        BY <1>2, <4>4 DEF Busy, TypeOK
      <4> QED BY <2>2, <4>3, <4>5
    <3>7. CASE kind[r] = "profile" /\ Done(m) /\ m.res = "skip" /\ results'[r] = results[r]
      BY <1>2, <1>3, <2>2, <3>7
    <3> QED BY <3>3, <3>5, <3>6, <3>7 DEF Complete
  <2> QED BY <2>1, <2>2
<1>14. HolderInv'
  <2>1. ASSUME NEW q \in Runs, Holds(q)'
        PROVE  /\ Holds(q)
               /\ \/ results'[q] = results[q] /\ ~(m.run = q /\ Counted(m))
                  \/ /\ m.run = q /\ Done(m) /\ m.item = Len(results[q]) + 1
                     /\ Len(results'[q]) = Len(results[q]) + 1
    <3>0. kind[q] \in Slots /\ slot'[kind[q]] = q
      BY <1>1, <2>1 DEF Holds
    <3>1. Holds(q) /\ (q = r => slot' = slot)
      BY <1>2, <1>8, <1>t, <3>0 DEF Holds, None, Runs
    <3>2. CASE q # r
      BY <1>7, <3>1, <3>2
    <3>3. CASE q = r
      <4>1. Kept(r, m)
        <5>1. slot' # [slot EXCEPT ![kind[r]] = None]
          BY <1>2, <1>t, <3>0, <3>3 DEF None, Runs
        <5> QED BY <1>4, <5>1 DEF EventEffect, Reported
      <4>2. CASE Counted(m)
        <5>1. Done(m) /\ m.item = b + 1 /\ results'[r] = Append(results[r], m.item)
          BY <1>2, <1>3, <4>1, <4>2 DEF Kept, Counted, CountedAs
        <5>2. Len(results'[r]) = b + 1
          BY <1>t, <5>1
        <5> QED BY <3>1, <3>3, <5>1, <5>2
      <4>3. CASE ~Counted(m)
        BY <3>1, <3>3, <4>1, <4>3 DEF Kept
      <4> QED BY <4>2, <4>3
    <3> QED BY <3>2, <3>3
  <2> QED BY <1>1, <1>10, <1>i, <2>1, TakeKeepsHolders DEF m
<1> QED BY <1>9, <1>10, <1>11, <1>12, <1>13, <1>14 DEF RunInv

-----------------------------------------------------------------------------
LEMMA RunInvariant == Spec => [](TypeOK /\ RunInv)
<1>1. Init => TypeOK /\ RunInv
  BY InitInv
<1>2. TypeOK /\ RunInv /\ [Next]_vars => (TypeOK /\ RunInv)'
  <2> SUFFICES ASSUME TypeOK, RunInv, [Next]_vars PROVE TypeOK' /\ RunInv'
    OBVIOUS
  <2>1. CASE \E r \in Runs : Worker(r) \/ ExecuteWith(r)
    BY <2>1, WorkerStep
  <2>2. CASE \/ CancelActiveRuns
             \/ \E r \in Runs, k \in UserKinds : SendActiveRequest(r, k) \/ Start(r, k)
    BY <2>2, KeyStep
  <2>3. CASE Update
    BY <2>3, SkipStep, EventStep DEF Update
  <2>4. CASE (\E r \in Runs : HandleRunReqMsg(r)) \/ UNCHANGED vars
    <3>1. /\ UNCHANGED <<kind, ctx, pc, item, res, chan, slot, current, canceled, results, final>>
          /\ replies' \subseteq replies /\ sending' \in {sending, FALSE}
          /\ sendCancel' \in {sendCancel, None}
      BY <2>4 DEF HandleRunReqMsg, worker, vars, ui
    <3>2. TypeOK'
      BY <3>1 DEF TypeOK
    <3>3. SlotInv' /\ WorkerInv' /\ FinalInv' /\ ChanInv'
      BY <3>1 DEF RunInv, SlotInv, ReportedOnce, WorkerInv, FinalInv, ChanInv, Busy, Over, Done
    <3>4. HolderInv'
      BY <3>1 DEF RunInv, HolderInv, Holds, Busy, Upto, UptoIn, QueuedIn
    <3> QED BY <3>2, <3>3, <3>4 DEF RunInv
  <2> QED BY <2>1, <2>2, <2>3, <2>4 DEF Next
<1> QED BY <1>1, <1>2, PTL DEF Spec

(* Every variable of the UI's runs keeps its type; that a recorded item is   *)
(* one of the run's items needs the order of the channel.                    *)
THEOREM RunTypeCorrect == Spec => []TypeOK
BY RunInvariant, PTL

(* A run is reported once, whichever of the cancel key, its last item and    *)
(* its RunDone event finds it finished first, for any number of runs, items  *)
(* and any mix of kinds (finalizeWorkflowRun, finalizeCompareRun,            *)
(* finalizeProfileRun).                                                      *)
THEOREM RunReportedOnce == Spec => []ReportedOnce
<1>1. RunInv => ReportedOnce
  BY DEF RunInv, SlotInv
<1> QED BY <1>1, RunInvariant, PTL

(* A report shows the run's own items, each once and in order, whatever was  *)
(* left in the channel when its slot was taken over (runIDMismatch).         *)
THEOREM RunReportsOwnItems == Spec => []ReportsOwnItems
<1>1. RunInv => ReportsOwnItems
  BY DEF RunInv, WorkerInv, ReportsOwnItems
<1> QED BY <1>1, RunInvariant, PTL

(* A run that is reported and was not cancelled is complete: its worker has  *)
(* no request left and every item it ran is in the report, but for the       *)
(* skipped iteration that ended a profile (handleWorkflowRunEvt,             *)
(* handleCompareRunEvt, handleProfileRunEvt).                                *)
THEOREM RunReportIsComplete == Spec => []ReportIsComplete
<1>1. TypeOK /\ RunInv => ReportIsComplete
  BY DEF RunInv, FinalInv, ReportIsComplete, Over
<1> QED BY <1>1, RunInvariant, PTL

=============================================================================
