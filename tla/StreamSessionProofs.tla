------------------------ MODULE StreamSessionProofs ------------------------
(***************************************************************************)
(* Theorems about StreamSession for any number of publishers, closers and  *)
(* subscribers, any buffer sizes and any number of events; then, from "The *)
(* program around a session" on, about LiveStreams, which extends it, for  *)
(* any capacity of its message channel, any length of the transcript and   *)
(* any number of changes of workspace.                                     *)
(***************************************************************************)
EXTENDS LiveStreams, SequenceTheorems, FiniteSetTheorems, TLAPS

Ring == [items : [Slots -> Event \cup {NoEvent}], count : 0..BufferSize, head : Slots]

(* The ring buffer keeps its head and count in range: RingAppend wraps.     *)
LEMMA RingAppendType ==
    ASSUME NEW r \in Ring, NEW e \in Event \cup {NoEvent}
    PROVE  RingAppend(r, e) \in Ring
<1>1. \A n \in Nat : n % BufferSize \in Slots
  BY SessionAssumption DEF Slots
<1>2. r.head + 1 \in Nat /\ r.head + r.count \in Nat /\ r.head \in Slots
  BY SessionAssumption DEF Slots, Ring
<1>3. r.count < BufferSize => r.count + 1 \in 0..BufferSize
  BY SessionAssumption DEF Ring
<1> QED BY <1>1, <1>2, <1>3 DEF RingAppend, Ring

(* A snapshot of the ring is a sequence of events. *)
LEMMA RingSnapshotType ==
    ASSUME NEW r \in Ring
    PROVE  RingSnapshot(r) \in Seq(Event \cup {NoEvent})
<1>1. \A i \in 1..r.count : (r.head + i - 1) % BufferSize \in Slots
  BY SessionAssumption DEF Slots, Ring
<1>2. r.count \in Nat /\ r.items \in [Slots -> Event \cup {NoEvent}]
  BY SessionAssumption DEF Ring
<1> QED BY <1>1, <1>2 DEF RingSnapshot

(* A publisher that is past its first step holds a real event. *)
HoldsEvent == \A p \in Publishers : at[p] # "idle" => evt[p] \in Event

(* Type correctness: ring indices stay in range, every buffered, received  *)
(* and logged value is an event somebody published.                        *)
THEOREM TypeCorrect == Spec => [](TypeOK /\ HoldsEvent)
<1>1. Init => TypeOK /\ HoldsEvent
  <2> SUFFICES ASSUME Init PROVE TypeOK /\ HoldsEvent
    OBVIOUS
  <2>1. newRingBuffer \in Ring
    BY SessionAssumption DEF newRingBuffer, Ring, Slots
  <2>2. /\ policy \in DropPolicies
        /\ state \in States /\ err \in Errs
        /\ dropped \in Nat /\ seqCounter \in 0..MaxEvents
        /\ listeners \subseteq Subscribers
        /\ sub \in [Subscribers -> {"new", "reading", "cancel", "gone"}]
    BY SessionAssumption DEF Init, States, Errs, NoErr
  <2>7. ended \in BOOLEAN /\ done \in BOOLEAN /\ closed \in [Subscribers -> BOOLEAN]
    BY DEF Init
  <2>3. /\ ring \in Ring
        /\ ch \in [Subscribers -> Seq(Event)]
        /\ snap \in [Subscribers -> Seq(Event \cup {NoEvent})]
        /\ got \in [Subscribers -> Seq(Event)]
        /\ log \in Seq(Event)
    BY <2>1 DEF Init
  <2>4. /\ at \in [Publishers -> {"idle", "append", "emit", "discard", "resend"}]
        /\ evt \in [Publishers -> Event \cup {NoEvent}]
        /\ todo \in [Publishers -> SUBSET Subscribers]
        /\ cur \in [Publishers -> SUBSET Subscribers]
        /\ miss \in [Publishers -> Nat]
    BY DEF Init
  <2>5. /\ cat \in [Closers -> {"idle", "drain", "end"}]
        /\ detached \in [Closers -> SUBSET Subscribers]
        /\ joined \in [Subscribers -> Nat]
        /\ left \in [Subscribers -> Int]
        /\ failed \in [Subscribers -> SUBSET Event]
        /\ evicted \in [Subscribers -> SUBSET Event]
    BY DEF Init
  <2>6. HoldsEvent
    BY DEF Init, HoldsEvent
  <2> QED BY <2>2, <2>3, <2>4, <2>5, <2>6, <2>7 DEF TypeOK, Ring
<1>2. TypeOK /\ HoldsEvent /\ [Next]_vars => TypeOK' /\ HoldsEvent'
  <2> SUFFICES ASSUME TypeOK, HoldsEvent, [Next]_vars PROVE TypeOK' /\ HoldsEvent'
    OBVIOUS
  <2> USE DEF session, listener, threads, history, pub, clo, HoldsEvent
  <2>1. CASE MarkOpen
    BY <2>1 DEF MarkOpen, TypeOK, States
  <2>2. CASE MarkClosing
    BY <2>2 DEF MarkClosing, TypeOK, States
  <2>3. ASSUME NEW p \in Publishers, PublishStart(p) PROVE TypeOK' /\ HoldsEvent'
    <3>1. seqCounter + 1 \in 1..MaxEvents
      BY <2>3, SessionAssumption DEF PublishStart, TypeOK
    <3>2. [seq |-> seqCounter + 1, from |-> p] \in Event
      BY <3>1 DEF Event
    <3> QED BY <2>3, <3>1, <3>2, SessionAssumption DEF PublishStart, TypeOK
  <2>4. ASSUME NEW p \in Publishers, PublishAppend(p) PROVE TypeOK' /\ HoldsEvent'
    <3>1. evt[p] \in Event
      BY <2>4 DEF PublishAppend, TypeOK
    <3>2. ring \in Ring
      BY DEF TypeOK, Ring
    <3>3. ring' \in Ring
      BY <2>4, <3>1, <3>2, RingAppendType DEF PublishAppend
    <3> QED BY <2>4, <3>1, <3>3 DEF PublishAppend, TypeOK, Ring
  <2>5. ASSUME NEW p \in Publishers, NEW s \in Subscribers,
               EmitToClosed(p, s) \/ EmitSend(p, s) \/ EmitFull(p, s)
                 \/ EmitFullDropOldest(p, s)
        PROVE  TypeOK' /\ HoldsEvent'
    <3>1. evt[p] \in Event
      BY <2>5 DEF EmitToClosed, EmitSend, EmitFull, EmitFullDropOldest, CanEmit, TypeOK
    <3>2. CASE EmitToClosed(p, s)
      BY <3>1, <3>2 DEF EmitToClosed, EmitFails, TypeOK
    <3>3. CASE EmitSend(p, s)
      BY <3>1, <3>3 DEF EmitSend, TypeOK
    <3>4. CASE EmitFull(p, s)
      BY <3>1, <3>4 DEF EmitFull, EmitFails, TypeOK
    <3>5. CASE EmitFullDropOldest(p, s)
      BY <3>1, <3>5 DEF EmitFullDropOldest, CanEmit, TypeOK
    <3> QED BY <2>5, <3>2, <3>3, <3>4, <3>5
  <2>6. ASSUME NEW p \in Publishers, NEW s \in Subscribers, EmitDiscard(p, s)
        PROVE  TypeOK' /\ HoldsEvent'
    <3>1. ch[s] \in Seq(Event) /\ evicted[s] \subseteq Event
      BY DEF TypeOK
    <3>2. ch' \in [Subscribers -> Seq(Event)] /\ evicted' \in [Subscribers -> SUBSET Event]
      <4>1. CASE ch[s] = <<>>
        BY <2>6, <4>1 DEF EmitDiscard, TypeOK
      <4>2. CASE ch[s] # <<>>
        <5>1. Head(ch[s]) \in Event /\ Tail(ch[s]) \in Seq(Event)
          BY <3>1, <4>2
        <5>2. /\ ch' = [ch EXCEPT ![s] = Tail(ch[s])]
              /\ evicted' = [evicted EXCEPT ![s] = evicted[s] \cup {Head(ch[s])}]
          BY <2>6, <4>2 DEF EmitDiscard
        <5>3. evicted[s] \cup {Head(ch[s])} \in SUBSET Event
          BY <3>1, <5>1
        <5>4. ch \in [Subscribers -> Seq(Event)] /\ evicted \in [Subscribers -> SUBSET Event]
          BY DEF TypeOK
        <5> QED BY <5>1, <5>2, <5>3, <5>4
      <4> QED BY <4>1, <4>2
    <3> QED BY <2>6, <3>2 DEF EmitDiscard, TypeOK
  <2>7. ASSUME NEW p \in Publishers, NEW s \in Subscribers, EmitResend(p, s)
        PROVE  TypeOK' /\ HoldsEvent'
    <3>1. evt[p] \in Event
      BY <2>7 DEF EmitResend, TypeOK
    <3> QED BY <2>7, <3>1 DEF EmitResend, TypeOK
  <2>8. ASSUME NEW p \in Publishers, PublishFinish(p) PROVE TypeOK' /\ HoldsEvent'
    BY <2>8 DEF PublishFinish, TypeOK
  <2>9. ASSUME NEW c \in Closers, NEW e \in Errs, CloseDetach(c, e)
        PROVE  TypeOK' /\ HoldsEvent'
    <3>1. state' \in States /\ err' \in Errs /\ ended' \in BOOLEAN
      BY <2>9 DEF CloseDetach, TypeOK, States
    <3>2. Len(log) \in Nat
      BY DEF TypeOK
    <3>3. left' \in [Subscribers -> Int]
      BY <2>9, <3>2 DEF CloseDetach, TypeOK
    <3>4. /\ cat' \in [Closers -> {"idle", "drain", "end"}]
          /\ detached' \in [Closers -> SUBSET Subscribers]
          /\ listeners' \subseteq Subscribers
      BY <2>9 DEF CloseDetach, TypeOK
    <3> QED BY <2>9, <3>1, <3>3, <3>4 DEF CloseDetach, TypeOK
  <2>10. ASSUME NEW c \in Closers, NEW s \in Subscribers, CloseListener(c, s)
         PROVE  TypeOK' /\ HoldsEvent'
    BY <2>10 DEF CloseListener, TypeOK
  <2>11. ASSUME NEW c \in Closers, CloseDone(c) PROVE TypeOK' /\ HoldsEvent'
    BY <2>11 DEF CloseDone, TypeOK
  <2>12. ASSUME NEW s \in Subscribers, Subscribe(s) PROVE TypeOK' /\ HoldsEvent'
    <3>1. RingSnapshot(ring) \in Seq(Event \cup {NoEvent})
      BY RingSnapshotType DEF TypeOK, Ring
    <3>2. Len(log) \in Nat
      BY DEF TypeOK
    <3>3. snap' \in [Subscribers -> Seq(Event \cup {NoEvent})]
      BY <2>12, <3>1 DEF Subscribe, TypeOK
    <3>4. /\ closed' \in [Subscribers -> BOOLEAN]
          /\ listeners' \subseteq Subscribers
          /\ sub' \in [Subscribers -> {"new", "reading", "cancel", "gone"}]
      BY <2>12 DEF Subscribe, TypeOK
    <3>5. /\ joined' \in [Subscribers -> Nat]
          /\ left' \in [Subscribers -> Int]
      BY <2>12, <3>2 DEF Subscribe, TypeOK
    <3> QED BY <2>12, <3>3, <3>4, <3>5 DEF Subscribe, TypeOK
  <2>13. ASSUME NEW s \in Subscribers, Recv(s) PROVE TypeOK' /\ HoldsEvent'
    <3>1. ch[s] \in Seq(Event) /\ ch[s] # <<>> /\ got[s] \in Seq(Event)
      BY <2>13 DEF Recv, TypeOK
    <3>2. Append(got[s], Head(ch[s])) \in Seq(Event) /\ Tail(ch[s]) \in Seq(Event)
      BY <3>1
    <3>3. got' \in [Subscribers -> Seq(Event)] /\ ch' \in [Subscribers -> Seq(Event)]
      BY <2>13, <3>2 DEF Recv, TypeOK
    <3> QED BY <2>13, <3>3 DEF Recv, TypeOK
  <2>14. ASSUME NEW s \in Subscribers, CancelRemove(s) PROVE TypeOK' /\ HoldsEvent'
    BY <2>14 DEF CancelRemove, TypeOK
  <2>15. ASSUME NEW s \in Subscribers, CancelClose(s) PROVE TypeOK' /\ HoldsEvent'
    BY <2>15 DEF CancelClose, TypeOK
  <2>16. CASE UNCHANGED vars
    BY <2>16 DEF vars, TypeOK
  <2> QED BY <2>1, <2>2, <2>3, <2>4, <2>5, <2>6, <2>7, <2>8, <2>9, <2>10, <2>11,
             <2>12, <2>13, <2>14, <2>15, <2>16 DEF Next, PublishStep, Emit, CloseStep
<1> QED BY <1>1, <1>2, PTL DEF Spec

-----------------------------------------------------------------------------
(* What makes NoOrphan inductive: only readers are registered, and a Close  *)
(* call that is not draining holds nothing.                                 *)
DetachInv ==
    /\ NoOrphan
    /\ \A s \in listeners : sub[s] = "reading"
    /\ \A c \in Closers : cat[c] # "drain" => detached[c] = {}

LEMMA DetachInvariant == Spec => []DetachInv
<1>1. Init => DetachInv
  BY DEF Init, DetachInv, NoOrphan
<1>2. TypeOK /\ DetachInv /\ [Next]_vars => DetachInv'
  <2> SUFFICES ASSUME TypeOK, DetachInv, [Next]_vars PROVE DetachInv'
    OBVIOUS
  <2> USE DEF session, listener, threads, history, pub, clo
  <2>1. CASE MarkOpen
    BY <2>1 DEF MarkOpen, DetachInv, NoOrphan, TypeOK
  <2>2. CASE MarkClosing
    BY <2>2 DEF MarkClosing, DetachInv, NoOrphan, TypeOK
  <2>3. ASSUME NEW p \in Publishers, PublishStart(p) PROVE DetachInv'
    BY <2>3 DEF PublishStart, DetachInv, NoOrphan, TypeOK
  <2>4. ASSUME NEW p \in Publishers, PublishAppend(p) PROVE DetachInv'
    BY <2>4 DEF PublishAppend, DetachInv, NoOrphan, TypeOK
  <2>5. ASSUME NEW p \in Publishers, NEW s \in Subscribers, EmitToClosed(p, s) PROVE DetachInv'
    BY <2>5 DEF EmitToClosed, EmitFails, CanEmit, DetachInv, NoOrphan, TypeOK
  <2>6. ASSUME NEW p \in Publishers, NEW s \in Subscribers, EmitSend(p, s) PROVE DetachInv'
    BY <2>6 DEF EmitSend, CanEmit, DetachInv, NoOrphan, TypeOK
  <2>7. ASSUME NEW p \in Publishers, NEW s \in Subscribers, EmitFull(p, s) PROVE DetachInv'
    BY <2>7 DEF EmitFull, EmitFails, CanEmit, DetachInv, NoOrphan, TypeOK
  <2>8. ASSUME NEW p \in Publishers, NEW s \in Subscribers, EmitFullDropOldest(p, s) PROVE DetachInv'
    BY <2>8 DEF EmitFullDropOldest, CanEmit, DetachInv, NoOrphan, TypeOK
  <2>9. ASSUME NEW p \in Publishers, NEW s \in Subscribers, EmitDiscard(p, s) PROVE DetachInv'
    BY <2>9 DEF EmitDiscard, DetachInv, NoOrphan, TypeOK
  <2>10. ASSUME NEW p \in Publishers, NEW s \in Subscribers, EmitResend(p, s) PROVE DetachInv'
    BY <2>10 DEF EmitResend, DetachInv, NoOrphan, TypeOK
  <2>11. ASSUME NEW p \in Publishers, PublishFinish(p) PROVE DetachInv'
    BY <2>11 DEF PublishFinish, DetachInv, NoOrphan, TypeOK
  <2>12. ASSUME NEW c \in Closers, NEW e \in Errs, CloseDetach(c, e) PROVE DetachInv'
    BY <2>12 DEF CloseDetach, DetachInv, NoOrphan, TypeOK
  <2>13. ASSUME NEW c \in Closers, NEW s \in Subscribers, CloseListener(c, s) PROVE DetachInv'
    BY <2>13 DEF CloseListener, DetachInv, NoOrphan, TypeOK
  <2>14. ASSUME NEW c \in Closers, CloseDone(c) PROVE DetachInv'
    BY <2>14 DEF CloseDone, DetachInv, NoOrphan, TypeOK
  <2>15. ASSUME NEW s \in Subscribers, Subscribe(s) PROVE DetachInv'
    BY <2>15 DEF Subscribe, DetachInv, NoOrphan, TypeOK
  <2>16. ASSUME NEW s \in Subscribers, Recv(s) PROVE DetachInv'
    BY <2>16 DEF Recv, DetachInv, NoOrphan, TypeOK
  <2>17. ASSUME NEW s \in Subscribers, CancelRemove(s) PROVE DetachInv'
    BY <2>17 DEF CancelRemove, DetachInv, NoOrphan, TypeOK
  <2>18. ASSUME NEW s \in Subscribers, CancelClose(s) PROVE DetachInv'
    BY <2>18 DEF CancelClose, DetachInv, NoOrphan, TypeOK
  <2>19. CASE UNCHANGED vars
    BY <2>19 DEF vars, DetachInv, NoOrphan, TypeOK
  <2> QED BY <2>1, <2>2, <2>3, <2>4, <2>5, <2>6, <2>7, <2>8, <2>9, <2>10, <2>11, <2>12, <2>13, <2>14, <2>15, <2>16, <2>17, <2>18, <2>19
          DEF Next, PublishStep, Emit, CloseStep
<1> QED BY <1>1, <1>2, TypeCorrect, PTL DEF Spec

(* No listener is forgotten, for any number of readers and closers: Close,  *)
(* Cancel and Subscribe may race in any order.                              *)
THEOREM ListenersAreClosed == Spec => []NoOrphan
<1>1. DetachInv => NoOrphan
  BY DEF DetachInv
<1> QED BY <1>1, DetachInvariant, PTL


-----------------------------------------------------------------------------
(* What makes the emit path safe: an emit only targets joined listeners; the *)
(* one whose l.mu it keeps is open and locked by nobody else; channels never *)
(* hold more than their capacity.                                           *)
TargetsJoined ==
    \A p \in Publishers : \A s \in todo[p] \cup cur[p] : sub[s] # "new"
LockHeld ==
    \A p \in Publishers : \A s \in cur[p] :
        at[p] \in {"discard", "resend"} /\ ~closed[s] /\ cur[p] = {s}
LockExclusive ==
    \A p, q \in Publishers : p # q => cur[p] \cap cur[q] = {}
ChanBounded == \A s \in Subscribers : Len(ch[s]) <= ListenerBuffer
EmitInv == TargetsJoined /\ LockHeld /\ LockExclusive /\ ChanBounded /\ ResendHasRoom

LEMMA EmitInvariant == Spec => []EmitInv
<1>1. Init => EmitInv
  BY SessionAssumption
     DEF Init, EmitInv, TargetsJoined, LockHeld, LockExclusive, ChanBounded, ResendHasRoom
<1>2. TypeOK /\ HoldsEvent /\ DetachInv /\ EmitInv /\ [Next]_vars => EmitInv'
  <2> SUFFICES ASSUME TypeOK, HoldsEvent, DetachInv, EmitInv, [Next]_vars PROVE EmitInv'
    OBVIOUS
  <2> USE DEF session, listener, threads, history, pub, clo
  <2>0. /\ \A s \in Subscribers : ch[s] \in Seq(Event)
        /\ \A p \in Publishers : at[p] # "idle" => evt[p] \in Event
    BY DEF TypeOK, HoldsEvent
  (* Steps that leave the publishers and the channels alone. *)
  <2>1. ASSUME UNCHANGED <<at, todo, cur, ch>>,
               \A s \in Subscribers : sub'[s] = "new" => sub[s] = "new",
               \A s \in Subscribers : closed'[s] => closed[s] \/ ~Locked(s)
        PROVE  EmitInv'
    <3>1. TargetsJoined'
      BY <2>1 DEF EmitInv, TargetsJoined, TypeOK
    <3>2. LockHeld'
      BY <2>1 DEF EmitInv, LockHeld, Locked, TypeOK
    <3> QED BY <2>1, <3>1, <3>2 DEF EmitInv, LockExclusive, ChanBounded, ResendHasRoom
  <2>2. CASE MarkOpen \/ MarkClosing \/ UNCHANGED vars
    BY <2>1, <2>2 DEF MarkOpen, MarkClosing, vars
  <2>3. ASSUME NEW c \in Closers PROVE CloseStep(c) => EmitInv'
    BY <2>1 DEF CloseStep, CloseDetach, CloseListener, CloseDone, TypeOK
  <2>4. ASSUME NEW s \in Subscribers, Subscribe(s) PROVE EmitInv'
    <3>1. ~Locked(s)
      BY <2>4 DEF Subscribe, Locked, EmitInv, TargetsJoined
    <3> QED BY <2>1, <2>4, <3>1 DEF Subscribe, TypeOK
  <2>5. ASSUME NEW s \in Subscribers, CancelRemove(s) \/ CancelClose(s) PROVE EmitInv'
    BY <2>1, <2>5 DEF CancelRemove, CancelClose, TypeOK
  <2>6. ASSUME NEW s \in Subscribers, Recv(s) PROVE EmitInv'
    <3>1. Len(Tail(ch[s])) = Len(ch[s]) - 1 /\ Len(ch[s]) \in Nat
      BY <2>0, <2>6 DEF Recv
    <3>2. \A r \in Subscribers : Len(ch'[r]) <= Len(ch[r]) /\ Len(ch'[r]) \in Int
      BY <2>0, <2>6, <3>1 DEF Recv, TypeOK
    <3>3. ChanBounded' /\ ResendHasRoom'
      BY <2>0, <2>6, <3>2, SessionAssumption DEF Recv, EmitInv, ChanBounded, ResendHasRoom
    <3> QED BY <2>6, <3>3 DEF Recv, EmitInv, TargetsJoined, LockHeld, LockExclusive
  <2>7. ASSUME NEW p \in Publishers, PublishStart(p) \/ PublishFinish(p) PROVE EmitInv'
    <3>1. UNCHANGED <<todo, cur, ch, sub, closed>>
      BY <2>7 DEF PublishStart, PublishFinish
    <3>2. cur[p] = {} /\ at'[p] # "resend"
      BY <2>7 DEF PublishStart, PublishFinish, EmitInv, LockHeld, TypeOK
    <3>3. \A q \in Publishers : q # p => at'[q] = at[q]
      BY <2>7 DEF PublishStart, PublishFinish, TypeOK
    <3>4. LockHeld' /\ ResendHasRoom'
      BY <3>1, <3>2, <3>3 DEF EmitInv, LockHeld, ResendHasRoom
    <3> QED BY <3>1, <3>4 DEF EmitInv, TargetsJoined, LockExclusive, ChanBounded
  <2>8. ASSUME NEW p \in Publishers, PublishAppend(p) PROVE EmitInv'
    BY <2>8 DEF PublishAppend, EmitInv, TypeOK, DetachInv, TargetsJoined, LockHeld, LockExclusive, ChanBounded, ResendHasRoom
  <2>9. ASSUME NEW p \in Publishers, NEW s \in Subscribers, EmitToClosed(p, s) \/ EmitFull(p, s) PROVE EmitInv'
    <3>1. /\ UNCHANGED <<at, cur, ch, sub>>
          /\ todo' = [todo EXCEPT ![p] = @ \ {s}]
          /\ ~Locked(s)
      BY <2>9 DEF EmitToClosed, EmitFull, EmitFails, CanEmit
    <3>2. \A r \in Subscribers : closed'[r] => closed[r] \/ ~Locked(r)
      BY <2>9, <3>1 DEF EmitToClosed, EmitFull, TypeOK
    <3> QED BY <3>1, <3>2 DEF EmitInv, TypeOK, Locked, TargetsJoined, LockHeld, LockExclusive, ChanBounded, ResendHasRoom
  <2>10. ASSUME NEW p \in Publishers, NEW s \in Subscribers, EmitSend(p, s) PROVE EmitInv'
    <3>1. Len(ch'[s]) = Len(ch[s]) + 1 /\ Len(ch[s]) < ListenerBuffer
      BY <2>0, <2>10 DEF EmitSend, CanEmit, TypeOK
    <3>2. \A r \in Subscribers : r # s => ch'[r] = ch[r]
      BY <2>10 DEF EmitSend, TypeOK
    <3>3. ChanBounded'
      BY <2>0, <3>1, <3>2, SessionAssumption DEF EmitInv, ChanBounded
    <3>4. ResendHasRoom'
      BY <2>10, <3>2 DEF EmitSend, CanEmit, Locked, EmitInv, ResendHasRoom
    <3> QED BY <2>10, <3>3, <3>4
            DEF EmitSend, EmitInv, TargetsJoined, LockHeld, LockExclusive, TypeOK
  <2>11. ASSUME NEW p \in Publishers, NEW s \in Subscribers, EmitFullDropOldest(p, s) PROVE EmitInv'
    BY <2>11 DEF EmitFullDropOldest, CanEmit, Locked, EmitInv, TypeOK, TargetsJoined, LockHeld, LockExclusive, ChanBounded, ResendHasRoom
  <2>12. ASSUME NEW p \in Publishers, NEW s \in Subscribers, EmitDiscard(p, s) PROVE EmitInv'
    <3>1. Len(ch'[s]) < ListenerBuffer
      <4>1. CASE ch[s] = <<>>
        BY <2>12, <4>1, SessionAssumption DEF EmitDiscard
      <4>2. CASE ch[s] # <<>>
        <5>1. Len(Tail(ch[s])) = Len(ch[s]) - 1 /\ Len(ch[s]) \in Nat
          BY <2>0, <4>2
        <5> QED BY <2>12, <4>2, <5>1, SessionAssumption
                DEF EmitDiscard, EmitInv, ChanBounded, TypeOK
      <4> QED BY <4>1, <4>2
    <3>2. \A r \in Subscribers : r # s => ch'[r] = ch[r]
      BY <2>12 DEF EmitDiscard, TypeOK
    <3>3. ChanBounded'
      <4>1. Len(ch'[s]) \in Int
        BY <2>0, <2>12 DEF EmitDiscard, TypeOK
      <4> QED BY <2>0, <3>1, <3>2, <4>1, SessionAssumption DEF EmitInv, ChanBounded
    <3>4. ResendHasRoom'
      BY <2>12, <3>1, <3>2 DEF EmitDiscard, EmitInv, LockHeld, LockExclusive, ResendHasRoom, TypeOK
    <3> QED BY <2>12, <3>3, <3>4
            DEF EmitDiscard, EmitInv, TargetsJoined, LockHeld, LockExclusive, TypeOK
  <2>13. ASSUME NEW p \in Publishers, NEW s \in Subscribers, EmitResend(p, s) PROVE EmitInv'
    <3>1. Len(ch'[s]) = Len(ch[s]) + 1 /\ Len(ch[s]) < ListenerBuffer
      BY <2>0, <2>13 DEF EmitResend, TypeOK
    <3>2. \A r \in Subscribers : r # s => ch'[r] = ch[r]
      BY <2>13 DEF EmitResend, TypeOK
    <3>3. ChanBounded'
      BY <2>0, <3>1, <3>2, SessionAssumption DEF EmitInv, ChanBounded
    <3>4. ResendHasRoom'
      BY <2>13, <3>2 DEF EmitResend, EmitInv, LockExclusive, ResendHasRoom, TypeOK
    <3> QED BY <2>13, <3>3, <3>4
            DEF EmitResend, EmitInv, TargetsJoined, LockHeld, LockExclusive, TypeOK
  <2> QED BY <2>2, <2>3, <2>4, <2>5, <2>6, <2>7, <2>8, <2>9, <2>10, <2>11, <2>12, <2>13
          DEF Next, PublishStep, Emit
<1> QED BY <1>1, <1>2, TypeCorrect, DetachInvariant, PTL DEF Spec

(* Under DropOldest the dead branch of emit stays dead, for any channel     *)
(* capacity and any number of publishers.                                   *)
THEOREM ResendAlwaysFits == Spec => []ResendHasRoom
<1>1. EmitInv => ResendHasRoom
  BY DEF EmitInv
<1> QED BY <1>1, EmitInvariant, PTL

(* No goroutine ever sends on a closed channel: a panic in emit is          *)
(* impossible however Publish, Close, Cancel and Subscribe interleave.      *)
THEOREM ClosedStaysSilent == Spec => NoSendOnClosed
<1>1. TypeOK /\ HoldsEvent /\ EmitInv /\ [Next]_vars
        => [\A s \in Subscribers : closed[s] => Len(ch'[s]) <= Len(ch[s])]_vars
  <2> SUFFICES ASSUME TypeOK, EmitInv, Next, NEW s \in Subscribers, closed[s]
               PROVE  Len(ch'[s]) <= Len(ch[s])
    BY DEF vars
  <2> USE DEF session, listener, threads, history, pub, clo
  <2>1. Len(ch[s]) \in Nat /\ ch[s] \in Seq(Event)
    BY DEF TypeOK
  <2>2. CASE \E r \in Subscribers : Recv(r)
    <3> PICK r \in Subscribers : Recv(r)
      BY <2>2
    <3>1. ch[r] \in Seq(Event) /\ ch[r] # <<>>
      BY DEF Recv, TypeOK
    <3>2. Len(Tail(ch[r])) = Len(ch[r]) - 1
      BY <3>1
    <3> QED BY <2>1, <3>2 DEF Recv, TypeOK
  <2>3. CASE \E p \in Publishers, r \in Subscribers : EmitDiscard(p, r)
    <3> PICK p \in Publishers, r \in Subscribers : EmitDiscard(p, r)
      BY <2>3
    <3>1. ch[r] \in Seq(Event)
      BY DEF TypeOK
    <3>2. ch[r] # <<>> => Len(Tail(ch[r])) = Len(ch[r]) - 1
      BY <3>1
    <3>3. CASE ch[r] = <<>> \/ r # s
      BY <2>1, <3>3 DEF EmitDiscard, TypeOK
    <3>4. CASE ch[r] # <<>> /\ r = s
      <4>1. ch' = [ch EXCEPT ![r] = Tail(ch[r])]
        BY <3>4 DEF EmitDiscard
      <4> QED BY <2>1, <3>2, <3>4, <4>1 DEF TypeOK
    <3> QED BY <3>3, <3>4
  <2>4. CASE \E p \in Publishers, r \in Subscribers : EmitSend(p, r) \/ EmitResend(p, r)
    <3> PICK p \in Publishers, r \in Subscribers : EmitSend(p, r) \/ EmitResend(p, r)
      BY <2>4
    <3>1. ~closed[r]
      BY DEF EmitSend, EmitResend, EmitInv, LockHeld
    <3>2. ch'[s] = ch[s]
      BY <3>1 DEF EmitSend, EmitResend, TypeOK
    <3> QED BY <2>1, <3>2
  <2>5. CASE ch' = ch
    BY <2>1, <2>5
  <2> QED
    BY <2>2, <2>3, <2>4, <2>5
    DEF Next, MarkOpen, MarkClosing, PublishStep, Emit, PublishStart, PublishAppend,
        EmitToClosed, EmitFull, EmitFails, EmitFullDropOldest, PublishFinish,
        CloseStep, CloseDetach, CloseListener, CloseDone,
        Subscribe, CancelRemove, CancelClose
<1> QED BY <1>1, TypeCorrect, EmitInvariant, PTL DEF Spec, NoSendOnClosed


(* The first Close decides: no later Close, MarkOpen or MarkClosing changes  *)
(* the recorded error or reopens the session.                               *)
THEOREM OutcomeIsFinal == Spec => FirstCloseWins
<1>1. [Next]_vars => [ended => ended' /\ err' = err]_vars
  BY DEF Next, MarkOpen, MarkClosing, PublishStep, Emit, PublishStart, PublishAppend,
         EmitToClosed, EmitSend, EmitFull, EmitFails, EmitFullDropOldest, EmitDiscard,
         EmitResend, PublishFinish, CloseStep, CloseDetach, CloseListener, CloseDone,
         Subscribe, Recv, CancelRemove, CancelClose,
         vars, session, listener, threads, history, pub, clo
<1> QED BY <1>1, PTL DEF Spec, FirstCloseWins

-----------------------------------------------------------------------------
(* Who is where, in which order.  Ordered: one publisher's events appear in  *)
(* the order it published them, hence each at most once.                     *)
Ordered(q) ==
    \A i, j \in DOMAIN q : i < j /\ q[i].from = q[j].from => q[i].seq < q[j].seq
Below(E, e) == \A f \in E : f.from = e.from => f.seq < e.seq
Before(s) == {log[i] : i \in {k \in DOMAIN log : k <= joined[s]}}
After(s) == {log[i] : i \in {k \in DOMAIN log : k > joined[s]}}
Seen(s) == Items(got[s]) \cup Items(ch[s])

(* The log and the publishers: sequence numbers are drawn before the lock,  *)
(* so only one publisher's events are in order in the log.                  *)
LogOrdered ==
    /\ Ordered(log)
    /\ \A i \in DOMAIN log : log[i].seq <= seqCounter
OwnEvent ==
    \A p \in Publishers : at[p] # "idle" =>
        /\ evt[p].from = p
        /\ evt[p].seq <= seqCounter
        /\ at[p] = "append" => Below(Items(log), evt[p])
TodoInv ==
    \A p \in Publishers :
        /\ at[p] \in {"idle", "append"} => todo[p] = {}
        /\ cur[p] \subseteq todo[p]
        /\ \A s \in todo[p] : evt[p] \in After(s) /\ Below(Seen(s), evt[p])
(* A reader's snapshot is of the past it joined after, its channel and what  *)
(* it received are of the events after that, in order.                       *)
ReaderInv ==
    \A s \in Subscribers :
        /\ joined[s] <= Len(log)
        /\ sub[s] = "new" =>
              ch[s] = <<>> /\ got[s] = <<>> /\ snap[s] = <<>>
        /\ Items(snap[s]) \subseteq Before(s)
        /\ Seen(s) \subseteq After(s)
        /\ Ordered(ch[s]) /\ Ordered(got[s])
        /\ \A e \in Items(ch[s]) : Below(Items(got[s]), e)
OrderInv == LogOrdered /\ OwnEvent /\ TodoInv /\ ReaderInv

(* The ring r holds the tail of the events q, oldest first from its head. *)
TailOf(r, q) ==
    /\ r.count = MinOf(BufferSize, Len(q))
    /\ \A i \in 1..r.count :
          r.items[(r.head + i - 1) % BufferSize] = q[Len(q) - r.count + i]
RingIsTail == TailOf(ring, log)

(* Where an event that is due to a listener can be: the events of its       *)
(* registration are the ones on their way, the refused and the evicted ones, *)
(* and these are disjoint.                                                   *)
Until(s) == IF left[s] = -1 THEN Len(log) ELSE left[s]
Window(s) == {log[i] : i \in (joined[s] + 1)..Until(s)}
OnTheWay(s) == Seen(s) \cup Pending(s)
Registered ==
    \A s \in Subscribers :
        /\ sub[s] = "new" => left[s] = -1 /\ failed[s] = {} /\ evicted[s] = {}
        /\ sub[s] # "new" =>
              /\ (left[s] = -1) <=> (s \in listeners)
              /\ left[s] # -1 => left[s] \in joined[s]..Len(log)
Accounted(s) ==
    /\ sub[s] # "new" => Window(s) = OnTheWay(s) \cup failed[s] \cup evicted[s]
    /\ failed[s] \cap OnTheWay(s) = {}
    /\ evicted[s] \cap OnTheWay(s) = {}
    /\ failed[s] \cap evicted[s] = {}
AccountInv == Registered /\ \A s \in Subscribers : Accounted(s)

EndedInv == \A c \in Closers : cat[c] # "idle" => ended

-----------------------------------------------------------------------------
LEMMA EventFields ==
    ASSUME NEW e \in Event PROVE e.seq \in Nat /\ e.seq >= 1 /\ e.from \in Publishers
BY SessionAssumption DEF Event

(* What Append and Tail do to the items of a sequence and to their order. *)
LEMMA ItemsAppend ==
    ASSUME NEW q \in Seq(Event), NEW e \in Event
    PROVE  Items(Append(q, e)) = Items(q) \cup {e}
<1>1. Append(q, e) \in Seq(Event) /\ Len(Append(q, e)) = Len(q) + 1
  OBVIOUS
<1>2. DOMAIN Append(q, e) = 1..(Len(q) + 1) /\ DOMAIN q = 1..Len(q) /\ Len(q) \in Nat
  OBVIOUS
<1>3. \A i \in 1..Len(q) : Append(q, e)[i] = q[i]
  OBVIOUS
<1>4. Append(q, e)[Len(q) + 1] = e
  OBVIOUS
<1>5. Items(Append(q, e)) \subseteq Items(q) \cup {e}
  BY <1>2, <1>3, <1>4 DEF Items
<1>6. Items(q) \subseteq Items(Append(q, e))
  BY <1>2, <1>3 DEF Items
<1>7. e \in Items(Append(q, e))
  BY <1>2, <1>4 DEF Items
<1> QED BY <1>5, <1>6, <1>7

LEMMA ItemsTail ==
    ASSUME NEW q \in Seq(Event), q # <<>>
    PROVE  /\ Items(q) = {Head(q)} \cup Items(Tail(q))
           /\ Head(q) \in Event /\ Tail(q) \in Seq(Event)
<1>1. /\ Head(q) \in Event /\ Tail(q) \in Seq(Event)
      /\ Len(Tail(q)) = Len(q) - 1 /\ Head(q) = q[1]
      /\ Len(q) \in Nat /\ Len(q) >= 1
  OBVIOUS
<1>2. DOMAIN Tail(q) = 1..(Len(q) - 1) /\ DOMAIN q = 1..Len(q)
  BY <1>1
<1>3. \A i \in 1..(Len(q) - 1) : Tail(q)[i] = q[i + 1]
  BY <1>1
<1>4. Items(q) \subseteq {Head(q)} \cup Items(Tail(q))
  <2> SUFFICES ASSUME NEW i \in 1..Len(q), i # 1 PROVE q[i] \in Items(Tail(q))
    BY <1>1, <1>2 DEF Items
  <2>1. i - 1 \in 1..(Len(q) - 1) /\ (i - 1) + 1 = i
    BY <1>1
  <2>2. q[i] = Tail(q)[i - 1] /\ i - 1 \in DOMAIN Tail(q)
    BY <1>2, <1>3, <2>1
  <2> QED BY <2>2 DEF Items
<1>5. Items(Tail(q)) \subseteq Items(q)
  <2>1. \A i \in 1..(Len(q) - 1) : i + 1 \in 1..Len(q)
    BY <1>1
  <2> QED BY <1>2, <1>3, <2>1 DEF Items
<1>6. Head(q) \in Items(q)
  BY <1>1, <1>2 DEF Items
<1> QED BY <1>1, <1>4, <1>5, <1>6

LEMMA ItemsEmpty == Items(<<>>) = {} /\ Ordered(<<>>)
<1>1. DOMAIN <<>> = 1..0
  OBVIOUS
<1> QED BY <1>1 DEF Items, Ordered

LEMMA ItemsType ==
    ASSUME NEW q \in Seq(Event) PROVE Items(q) \subseteq Event
BY DEF Items

LEMMA OrderedAppend ==
    ASSUME NEW q \in Seq(Event), NEW e \in Event, Ordered(q), Below(Items(q), e)
    PROVE  Ordered(Append(q, e))
<1>2. DOMAIN Append(q, e) = 1..(Len(q) + 1) /\ DOMAIN q = 1..Len(q) /\ Len(q) \in Nat
  OBVIOUS
<1>3. \A i \in 1..Len(q) : Append(q, e)[i] = q[i]
  OBVIOUS
<1>4. Append(q, e)[Len(q) + 1] = e
  OBVIOUS
<1> SUFFICES ASSUME NEW i \in 1..(Len(q) + 1), NEW j \in 1..(Len(q) + 1), i < j,
                    Append(q, e)[i].from = Append(q, e)[j].from
             PROVE  Append(q, e)[i].seq < Append(q, e)[j].seq
  BY <1>2 DEF Ordered
<1>5. i \in 1..Len(q)
  BY <1>2
<1>6. CASE j = Len(q) + 1
  BY <1>2, <1>3, <1>4, <1>5, <1>6 DEF Below, Items
<1>7. CASE j # Len(q) + 1
  <2>1. j \in 1..Len(q)
    BY <1>2, <1>7
  <2> QED BY <1>2, <1>3, <1>5, <2>1 DEF Ordered
<1> QED BY <1>6, <1>7

LEMMA OrderedTail ==
    ASSUME NEW q \in Seq(Event), q # <<>>, Ordered(q)
    PROVE  /\ Ordered(Tail(q))
           /\ \A f \in Items(Tail(q)) : Below({Head(q)}, f)
<1>1. /\ Len(Tail(q)) = Len(q) - 1 /\ Head(q) = q[1] /\ Tail(q) \in Seq(Event)
      /\ Len(q) \in Nat /\ Len(q) >= 1
  OBVIOUS
<1>2. DOMAIN Tail(q) = 1..(Len(q) - 1) /\ DOMAIN q = 1..Len(q)
  BY <1>1
<1>3. \A i \in 1..(Len(q) - 1) : Tail(q)[i] = q[i + 1] /\ i + 1 \in 1..Len(q) /\ 1 < i + 1
  BY <1>1
<1>4. Ordered(Tail(q))
  BY <1>1, <1>2, <1>3 DEF Ordered
<1>5. 1 \in 1..Len(q)
  BY <1>1
<1>6. ASSUME NEW f \in Items(Tail(q)) PROVE Below({Head(q)}, f)
  <2>1. PICK i \in 1..(Len(q) - 1) : f = Tail(q)[i]
    BY <1>2 DEF Items
  <2>2. f = q[i + 1] /\ i + 1 \in DOMAIN q /\ 1 < i + 1 /\ 1 \in DOMAIN q
    BY <1>2, <1>3, <1>5, <2>1
  <2>3. q[1].from = q[i + 1].from => q[1].seq < q[i + 1].seq
    BY <2>2 DEF Ordered
  <2> QED BY <1>1, <2>2, <2>3 DEF Below
<1> QED BY <1>4, <1>6

-----------------------------------------------------------------------------
(* Slot arithmetic of the ring, for arguments less than two turns. *)
Wrap(x) == x % BufferSize

LEMMA SlotOf ==
    ASSUME NEW x \in Nat, x < BufferSize
    PROVE  Wrap(x) = x /\ Wrap(x + BufferSize) = x
BY SessionAssumption DEF Wrap

(* RingAppend turns the tail of a log into the tail of the longer log: it    *)
(* fills the next free slot, or overwrites the oldest and moves the head on. *)
LEMMA RingAppendTail ==
    ASSUME NEW r \in Ring, NEW q \in Seq(Event), NEW e \in Event, TailOf(r, q)
    PROVE  TailOf(RingAppend(r, e), Append(q, e))
<1> DEFINE B == BufferSize
           n == Len(q)
           z == RingAppend(r, e)
<1>1. /\ B \in Nat \ {0} /\ n \in Nat
      /\ r.count \in 0..B /\ r.head \in 0..(B - 1)
      /\ r.items \in [0..(B - 1) -> Event \cup {NoEvent}]
  BY SessionAssumption DEF Ring, Slots
<1>2. /\ Len(Append(q, e)) = n + 1
      /\ Append(q, e)[n + 1] = e
      /\ \A i \in 1..n : Append(q, e)[i] = q[i]
  OBVIOUS
<1>3. r.count = IF B < n THEN B ELSE n
  BY DEF TailOf, MinOf
<1>4. \A i \in 1..r.count : r.items[Wrap(r.head + i - 1)] = q[n - r.count + i]
  BY DEF TailOf, Wrap
<1>5. \A x \in Nat : x < B + B => Wrap(x) = IF x < B THEN x ELSE x - B
  <2> SUFFICES ASSUME NEW x \in Nat, x < B + B
               PROVE  Wrap(x) = IF x < B THEN x ELSE x - B
    OBVIOUS
  <2>1. CASE x < B
    BY <2>1, SlotOf
  <2>2. CASE ~(x < B)
    <3>1. x - B \in Nat /\ x - B < B /\ (x - B) + B = x
      BY <1>1, <2>2
    <3> QED BY <2>2, <3>1, SlotOf
  <2> QED BY <2>1, <2>2
<1> DEFINE Slot(i) == IF r.head + i - 1 < B THEN r.head + i - 1 ELSE r.head + i - 1 - B
<1>6. ASSUME NEW i \in 1..(B + 1) PROVE Wrap(r.head + i - 1) = Slot(i) /\ Slot(i) \in 0..(B - 1)
  <2>1. r.head + i - 1 \in Nat /\ r.head + i - 1 < B + B
    BY <1>1
  <2>2. Wrap(r.head + i - 1) = Slot(i)
    <3> DEFINE x == r.head + i - 1
    <3>1. x \in Nat /\ x < B + B
      BY <2>1
    <3> HIDE DEF x
    <3>2. Wrap(x) = IF x < B THEN x ELSE x - B
      BY <1>5, <3>1
    <3>3. Slot(i) = IF x < B THEN x ELSE x - B
      <4>1. r.head \in Int /\ B \in Int
        BY <1>1
      <4> HIDE DEF B
      <4> QED BY <4>1 DEF x
    <3> QED BY <3>2, <3>3, Zenon DEF x
  <2> HIDE DEF B
  <2>3. r.head + i - 1 < B => r.head + i - 1 \in 0..(B - 1)
    BY <1>1, <2>1
  <2>4. ~(r.head + i - 1 < B) => r.head + i - 1 - B \in 0..(B - 1)
    BY <1>1, <2>1
  <2> QED BY <2>2, <2>3, <2>4
<1> HIDE DEF B, n, z
<1>7. \A i \in 1..r.count : r.items[Slot(i)] = q[n - r.count + i]
  <2> SUFFICES ASSUME NEW i \in 1..r.count PROVE r.items[Slot(i)] = q[n - r.count + i]
    OBVIOUS
  <2>1. i \in 1..(B + 1)
    BY <1>1
  <2>2. Wrap(r.head + i - 1) = Slot(i)
    BY <1>6, <2>1
  <2> HIDE DEF Slot
  <2> QED BY <1>4, <2>2
<1>8. CASE r.count < B
  <2>1. r.count = n /\ n < B
    BY <1>1, <1>3, <1>8
  <2>2. Wrap(r.head + r.count) = Slot(n + 1)
    <3>1. n + 1 \in 1..(B + 1) /\ r.head + (n + 1) - 1 = r.head + r.count
      BY <1>1, <2>1
    <3>2. Wrap(r.head + (n + 1) - 1) = Slot(n + 1)
      BY <1>6, <3>1
    <3> QED BY <3>1, <3>2
  <2>3. /\ z.items = [r.items EXCEPT ![Slot(n + 1)] = e]
        /\ z.count = n + 1 /\ z.head = r.head
    BY <1>8, <2>1, <2>2 DEF RingAppend, B, z, Wrap
  <2>4. z.count = MinOf(B, Len(Append(q, e)))
    BY <1>1, <1>2, <2>1, <2>3 DEF MinOf
  <2>5. ASSUME NEW i \in 1..z.count
        PROVE  z.items[Wrap(z.head + i - 1)] = Append(q, e)[Len(Append(q, e)) - z.count + i]
    <3>1. i \in 1..(n + 1) /\ i \in 1..(B + 1) /\ n + 1 \in 1..(B + 1)
      BY <1>1, <2>1, <2>3
    <3>2. Wrap(z.head + i - 1) = Slot(i)
      BY <1>6, <2>3, <3>1
    <3>3. Len(Append(q, e)) - z.count + i = i
      BY <1>1, <1>2, <2>3, <3>1
    <3>4. CASE i = n + 1
      <4>1. Slot(n + 1) \in DOMAIN r.items
        BY <1>1, <1>6, <3>1
      <4>2. z.items[Slot(n + 1)] = e
        BY <2>3, <4>1
      <4> QED BY <1>2, <3>2, <3>3, <3>4, <4>2
    <3>5. CASE i # n + 1
      <4>1. i \in 1..n /\ i \in 1..r.count
        BY <1>1, <2>1, <3>1, <3>5
      <4>2. Slot(i) # Slot(n + 1)
        BY <1>1, <2>1, <4>1
      <4>3. z.items[Slot(i)] = r.items[Slot(i)]
        BY <1>1, <1>6, <2>3, <3>1, <4>2
      <4>4. r.items[Slot(i)] = q[i]
        <5>1. n - r.count + i = i
          BY <1>1, <2>1, <4>1
        <5> QED BY <1>7, <4>1, <5>1
      <4> QED BY <1>2, <3>2, <3>3, <4>1, <4>3, <4>4
    <3> QED BY <3>4, <3>5
  <2> QED BY <2>4, <2>5 DEF TailOf, B, z, Wrap
<1>9. CASE ~(r.count < B)
  <2>1. r.count = B /\ B <= n
    BY <1>1, <1>3, <1>9
  <2>2. z.items = [r.items EXCEPT ![r.head] = e] /\ z.count = B /\ z.head = Wrap(r.head + 1)
    BY <1>9, <2>1 DEF RingAppend, B, z, Wrap
  <2>3. z.head = IF r.head + 1 < B THEN r.head + 1 ELSE 0
    <3>1. r.head + 1 \in Nat /\ r.head + 1 < B + B
      BY <1>1
    <3>2. Wrap(r.head + 1) = IF r.head + 1 < B THEN r.head + 1 ELSE r.head + 1 - B
      BY <1>1, <1>5, <3>1
    <3> QED BY <1>1, <2>2, <3>2
  <2>4. z.count = MinOf(B, Len(Append(q, e)))
    BY <1>1, <1>2, <2>1, <2>2 DEF MinOf
  <2>5. ASSUME NEW i \in 1..z.count
        PROVE  z.items[Wrap(z.head + i - 1)] = Append(q, e)[Len(Append(q, e)) - z.count + i]
    <3>1. i \in 1..B /\ i + 1 \in 1..(B + 1)
      BY <1>1, <2>2
    <3>2. Wrap(z.head + i - 1) = Slot(i + 1)
      <4>0. z.head \in 0..(B - 1)
        BY <1>1, <2>3
      <4>1. z.head + i - 1 \in Nat /\ z.head + i - 1 < B + B
        BY <1>1, <4>0, <3>1
      <4>2. Wrap(z.head + i - 1) = IF z.head + i - 1 < B THEN z.head + i - 1 ELSE z.head + i - 1 - B
        BY <1>1, <1>5, <3>1, <4>0, <4>1
      <4> QED BY <1>1, <2>3, <3>1, <4>2
    <3>3. Len(Append(q, e)) - z.count + i = n - B + (i + 1)
      BY <1>1, <1>2, <2>2, <3>1
    <3>4. CASE i = B
      <4>1. Slot(i + 1) = r.head
        BY <1>1, <3>4
      <4>2. n - B + (i + 1) = n + 1
        BY <1>1, <3>4
      <4>3. z.items[r.head] = e
        BY <1>1, <2>2
      <4> QED BY <1>2, <3>2, <3>3, <4>1, <4>2, <4>3
    <3>5. CASE i # B
      <4>1. i + 1 \in 1..r.count /\ n - B + (i + 1) \in 1..n
        BY <1>1, <2>1, <3>1, <3>5
      <4>2. Slot(i + 1) # r.head
        BY <1>1, <3>1, <3>5
      <4>3. z.items[Slot(i + 1)] = r.items[Slot(i + 1)]
        BY <1>1, <1>6, <2>2, <3>1, <4>2
      <4>4. r.items[Slot(i + 1)] = q[n - B + (i + 1)]
        BY <1>7, <2>1, <4>1
      <4> QED BY <1>2, <3>2, <3>3, <4>1, <4>3, <4>4
    <3> QED BY <3>4, <3>5
  <2> QED BY <2>4, <2>5 DEF TailOf, B, z, Wrap
<1> QED BY <1>8, <1>9

(* The ring always holds the most recent events, oldest first from head.    *)
LEMMA RingInvariant == Spec => []RingIsTail
<1>1. Init => RingIsTail
  BY SessionAssumption DEF Init, RingIsTail, TailOf, newRingBuffer, MinOf
<1>2. TypeOK /\ HoldsEvent /\ RingIsTail /\ [Next]_vars => RingIsTail'
  <2> SUFFICES ASSUME TypeOK, HoldsEvent, RingIsTail, [Next]_vars PROVE RingIsTail'
    OBVIOUS
  <2> USE DEF session, listener, threads, history, pub, clo
  <2>1. CASE UNCHANGED <<log, ring>>
    BY <2>1 DEF RingIsTail, TailOf
  <2>2. ASSUME NEW p \in Publishers, PublishAppend(p) PROVE RingIsTail'
    <3>1. evt[p] \in Event /\ log \in Seq(Event) /\ ring \in Ring
      BY <2>2 DEF PublishAppend, HoldsEvent, TypeOK, Ring
    <3>2. TailOf(RingAppend(ring, evt[p]), Append(log, evt[p]))
      BY <3>1, RingAppendTail DEF RingIsTail
    <3> QED BY <2>2, <3>2 DEF PublishAppend, RingIsTail, TailOf
  <2> QED BY <2>1, <2>2
          DEF Next, MarkOpen, MarkClosing, PublishStep, Emit, PublishStart, EmitToClosed, EmitSend,
              EmitFull, EmitFails, EmitFullDropOldest, EmitDiscard, EmitResend, PublishFinish,
              CloseStep, CloseDetach, CloseListener, CloseDone,
              Subscribe, Recv, CancelRemove, CancelClose, vars
<1> QED BY <1>1, <1>2, TypeCorrect, PTL DEF Spec

(* What Subscribe hands out is the recent past as the contract defines it.  *)
LEMMA SnapshotIsRecent ==
    ASSUME TypeOK, RingIsTail
    PROVE  /\ RingSnapshot(ring) = Contract!Recent
           /\ Items(RingSnapshot(ring)) \subseteq Items(log)
<1> DEFINE n == Len(log)
           c == ring.count
<1>1. /\ BufferSize \in Nat \ {0} /\ n \in Nat /\ log \in Seq(Event) /\ DOMAIN log = 1..n
      /\ c = IF BufferSize < n THEN BufferSize ELSE n
  BY SessionAssumption DEF TypeOK, RingIsTail, TailOf, MinOf
<1>2. \A i \in 1..c : ring.items[(ring.head + i - 1) % BufferSize] = log[n - c + i]
  BY DEF RingIsTail, TailOf
<1>3. RingSnapshot(ring) = [i \in 1..c |-> log[n - c + i]]
  BY <1>2 DEF RingSnapshot
<1>4. Contract!Recent = SubSeq(log, n - c + 1, n)
  <2>1. (IF n > BufferSize THEN n - BufferSize + 1 ELSE 1) = n - c + 1
    BY <1>1
  <2> QED BY <2>1 DEF Contract!Recent
<1> HIDE DEF n, c
<1>5. SubSeq(log, n - c + 1, n) = [i \in 1..c |-> log[n - c + i]]
  <2>1. SubSeq(log, n - c + 1, n) = [i \in 1..(1 + n - (n - c + 1)) |-> log[i + (n - c + 1) - 1]]
    BY <1>1
  <2>2. 1 + n - (n - c + 1) = c
    BY <1>1
  <2>3. \A i \in 1..c : i + (n - c + 1) - 1 = n - c + i
    BY <1>1
  <2> QED BY <2>1, <2>2, <2>3
<1>6. \A i \in 1..c : n - c + i \in 1..n
  BY <1>1
<1> QED BY <1>1, <1>3, <1>4, <1>5, <1>6 DEF Items

LEMMA AfterAppend ==
    ASSUME log \in Seq(Event), NEW e \in Event, log' = Append(log, e),
           NEW s \in Subscribers, joined[s] \in Nat, joined[s] <= Len(log),
           joined'[s] = joined[s]
    PROVE  Before(s)' = Before(s) /\ After(s)' = After(s) \cup {e}
<1>2. DOMAIN log' = 1..(Len(log) + 1) /\ DOMAIN log = 1..Len(log) /\ Len(log) \in Nat
  OBVIOUS
<1>3. \A i \in 1..Len(log) : log'[i] = log[i]
  OBVIOUS
<1>4. log'[Len(log) + 1] = e
  OBVIOUS
<1>5. {k \in DOMAIN log' : k <= joined[s]} = {k \in DOMAIN log : k <= joined[s]}
  BY <1>2
<1>6. {k \in DOMAIN log' : k > joined[s]} = {k \in DOMAIN log : k > joined[s]} \cup {Len(log) + 1}
  BY <1>2
<1>7. Before(s)' = Before(s)
  <2> DEFINE K == {k \in DOMAIN log : k <= joined[s]}
  <2>1. \A k \in K : log'[k] = log[k]
    BY <1>2, <1>3
  <2>2. Before(s)' = {log'[i] : i \in K} /\ Before(s) = {log[i] : i \in K}
    BY <1>5 DEF Before
  <2> HIDE DEF K
  <2> QED BY <2>1, <2>2
<1>8. After(s)' = After(s) \cup {e}
  <2> DEFINE K == {k \in DOMAIN log : k > joined[s]}
  <2>1. \A k \in K : log'[k] = log[k]
    BY <1>2, <1>3
  <2>2. After(s)' = {log'[i] : i \in K \cup {Len(log) + 1}} /\ After(s) = {log[i] : i \in K}
    BY <1>6 DEF After
  <2> HIDE DEF K
  <2>3. After(s)' \subseteq After(s) \cup {e}
    BY <1>4, <2>1, <2>2
  <2>4. After(s) \cup {e} \subseteq After(s)'
    BY <1>4, <2>1, <2>2
  <2> QED BY <2>3, <2>4
<1> QED BY <1>7, <1>8

(* The order of one publisher's events is kept from the log to the reader,  *)
(* whatever the policy evicts and however publishers overtake each other.   *)
LEMMA OrderInvariant == Spec => []OrderInv
<1>1. Init => OrderInv
  <2> SUFFICES ASSUME Init PROVE OrderInv
    OBVIOUS
  <2>1. DOMAIN log = {} /\ Len(log) = 0
    BY DEF Init
  <2>2. LogOrdered /\ OwnEvent /\ TodoInv
    BY <2>1 DEF Init, LogOrdered, OwnEvent, TodoInv, Ordered
  <2>3. ReaderInv
    BY <2>1, ItemsEmpty DEF Init, ReaderInv, Seen
  <2> QED BY <2>2, <2>3 DEF OrderInv
<1>2. TypeOK /\ HoldsEvent /\ EmitInv /\ RingIsTail /\ OrderInv /\ [Next]_vars => OrderInv'
  <2> SUFFICES ASSUME TypeOK, HoldsEvent, EmitInv, RingIsTail, OrderInv, [Next]_vars
               PROVE  OrderInv'
    OBVIOUS
  <2> USE DEF session, listener, threads, history, pub, clo
  <2>0. /\ log \in Seq(Event) /\ Len(log) \in Nat /\ DOMAIN log = 1..Len(log)
        /\ seqCounter \in Nat
        /\ \A s \in Subscribers : ch[s] \in Seq(Event) /\ got[s] \in Seq(Event) /\ joined[s] \in Nat
        /\ \A p \in Publishers : at[p] # "idle" => evt[p] \in Event
        /\ \A p \in Publishers : todo[p] \subseteq Subscribers
    BY DEF TypeOK, HoldsEvent
  <2>a. LogOrdered /\ OwnEvent /\ TodoInv /\ ReaderInv
    BY DEF OrderInv
  (* Steps that only take listeners off a publisher's list. *)
  <2>1. ASSUME UNCHANGED <<log, seqCounter, evt, joined, ch, got, snap>>,
               \A s \in Subscribers : sub'[s] = "new" => sub[s] = "new",
               \A p \in Publishers :
                   /\ todo'[p] \subseteq todo[p]
                   /\ cur'[p] \subseteq todo'[p]
                   /\ at'[p] # at[p] => at'[p] \notin {"idle", "append"} /\ at[p] # "idle"
        PROVE  OrderInv'
    <3>1. \A s : After(s)' = After(s) /\ Seen(s)' = Seen(s) /\ Before(s)' = Before(s)
      BY <2>1 DEF After, Seen, Before
    <3>2. TodoInv'
      <4> SUFFICES ASSUME NEW p \in Publishers
                   PROVE  /\ at'[p] \in {"idle", "append"} => todo'[p] = {}
                          /\ cur'[p] \subseteq todo'[p]
                          /\ \A s \in todo'[p] : evt[p] \in After(s) /\ Below(Seen(s), evt[p])
        BY <2>1, <3>1 DEF TodoInv, Below
      <4>1. todo'[p] \subseteq todo[p] /\ cur'[p] \subseteq todo'[p]
        BY <2>1
      <4>2. at'[p] \in {"idle", "append"} => at'[p] = at[p]
        BY <2>1
      <4> QED BY <2>a, <4>1, <4>2 DEF TodoInv
    <3>3. OwnEvent'
      <4> SUFFICES ASSUME NEW p \in Publishers, at'[p] # "idle"
                   PROVE  /\ evt[p].from = p /\ evt[p].seq <= seqCounter
                          /\ at'[p] = "append" => Below(Items(log), evt[p])
        BY <2>1 DEF OwnEvent, Below, Items
      <4>1. at[p] # "idle" /\ (at'[p] = "append" => at[p] = "append")
        BY <2>1
      <4> QED BY <2>a, <4>1 DEF OwnEvent
    <3>4. ReaderInv'
      BY <2>a, <2>1, <3>1 DEF ReaderInv
    <3>5. LogOrdered'
      BY <2>a, <2>1 DEF LogOrdered
    <3> QED BY <3>2, <3>3, <3>4, <3>5 DEF OrderInv
  <2>2. CASE MarkOpen \/ MarkClosing \/ UNCHANGED vars
    BY <2>a, <2>1, <2>2 DEF MarkOpen, MarkClosing, vars, TodoInv
  <2>3. ASSUME NEW c \in Closers, CloseStep(c) PROVE OrderInv'
    BY <2>a, <2>1, <2>3 DEF CloseStep, CloseDetach, CloseListener, CloseDone, TodoInv
  <2>4. ASSUME NEW s \in Subscribers, CancelRemove(s) \/ CancelClose(s) PROVE OrderInv'
    BY <2>a, <2>1, <2>4 DEF CancelRemove, CancelClose, TodoInv, TypeOK
  <2>5. ASSUME NEW p \in Publishers, NEW s \in Subscribers,
               EmitToClosed(p, s) \/ EmitFull(p, s)
        PROVE  OrderInv'
    <3>1. /\ UNCHANGED <<log, seqCounter, evt, joined, ch, got, snap, sub, at, cur>>
          /\ todo' = [todo EXCEPT ![p] = @ \ {s}] /\ cur[p] = {}
      BY <2>5 DEF EmitToClosed, EmitFull, EmitFails, CanEmit
    <3> QED BY <2>a, <2>1, <3>1 DEF TodoInv, TypeOK
  <2>6. ASSUME NEW p \in Publishers, NEW s \in Subscribers, EmitFullDropOldest(p, s)
        PROVE  OrderInv'
    BY <2>a, <2>1, <2>6 DEF EmitFullDropOldest, CanEmit, TodoInv, TypeOK
  <2>7. ASSUME NEW p \in Publishers, PublishStart(p) \/ PublishFinish(p) PROVE OrderInv'
    <3>1. /\ UNCHANGED <<log, joined, ch, got, snap, sub, todo, cur>>
          /\ seqCounter' \in {seqCounter, seqCounter + 1}
          /\ \A q \in Publishers : q # p => at'[q] = at[q] /\ evt'[q] = evt[q]
          /\ todo[p] = {}
      BY <2>7, <2>a DEF PublishStart, PublishFinish, TypeOK, TodoInv
    <3>2. \A s : After(s)' = After(s) /\ Seen(s)' = Seen(s) /\ Before(s)' = Before(s)
      BY <3>1 DEF After, Seen, Before
    <3>3. \A i \in DOMAIN log : log[i].seq \in Nat /\ log[i].seq <= seqCounter
      BY <2>0, <2>a, EventFields DEF LogOrdered
    <3>4. LogOrdered'
      BY <2>0, <2>a, <3>1, <3>3 DEF LogOrdered
    <3>5. TodoInv'
      BY <2>a, <3>1, <3>2 DEF TodoInv
    <3>6. ReaderInv'
      BY <2>a, <3>1, <3>2 DEF ReaderInv
    <3>7. OwnEvent'
      <4> SUFFICES ASSUME NEW q \in Publishers, at'[q] # "idle"
                   PROVE  /\ evt'[q].from = q /\ evt'[q].seq <= seqCounter'
                          /\ at'[q] = "append" => Below(Items(log), evt'[q])
        BY <3>1 DEF OwnEvent
      <4>1. CASE q = p
        <5>1. evt'[q] = [seq |-> seqCounter + 1, from |-> p] /\ seqCounter' = seqCounter + 1
          BY <2>7, <4>1 DEF PublishStart, PublishFinish, TypeOK
        <5>2. evt'[q].from = q /\ evt'[q].seq = seqCounter + 1
          BY <5>1, <4>1
        <5>3. Below(Items(log), evt'[q])
          BY <2>0, <3>3, <5>2 DEF Below, Items
        <5> QED BY <2>0, <5>1, <5>2, <5>3
      <4>2. CASE q # p
        <5>1. evt[q].seq \in Nat
          BY <2>0, <3>1, <4>2, EventFields
        <5> QED BY <2>0, <2>a, <3>1, <4>2, <5>1 DEF OwnEvent
      <4> QED BY <4>1, <4>2
    <3> QED BY <3>4, <3>5, <3>6, <3>7 DEF OrderInv
  <2>8. ASSUME NEW p \in Publishers, PublishAppend(p) PROVE OrderInv'
    <3> DEFINE e == evt[p]
    <3>1. /\ e \in Event /\ e.from = p /\ e.seq <= seqCounter /\ e.seq \in Nat
          /\ Below(Items(log), e) /\ cur[p] = {}
      BY <2>8, <2>0, <2>a, EventFields DEF PublishAppend, OwnEvent, TodoInv
    <3>2. /\ log' = Append(log, e)
          /\ at' = [at EXCEPT ![p] = "emit"] /\ todo' = [todo EXCEPT ![p] = listeners]
          /\ UNCHANGED <<seqCounter, evt, cur, joined, sub, ch, got, snap>>
      BY <2>8 DEF PublishAppend
    <3> HIDE DEF e
    <3>3. \A s \in Subscribers : Before(s)' = Before(s) /\ After(s)' = After(s) \cup {e}
      BY <2>0, <2>a, <3>1, <3>2, AfterAppend DEF ReaderInv
    <3>4. \A s : Seen(s)' = Seen(s)
      BY <3>2 DEF Seen
    <3>5. Len(log') = Len(log) + 1
      BY <2>0, <3>1, <3>2
    <3>6. Items(log') = Items(log) \cup {e}
      BY <2>0, <3>1, <3>2, ItemsAppend
    <3>7. LogOrdered'
      <4>1. Ordered(log')
        BY <2>0, <2>a, <3>1, <3>2, OrderedAppend DEF LogOrdered
      <4>2. \A f \in Items(log') : f.seq <= seqCounter
        BY <2>a, <3>1, <3>6 DEF LogOrdered, Items
      <4>3. \A i \in DOMAIN log' : log'[i].seq <= seqCounter
        BY <4>2 DEF Items
      <4> QED BY <3>2, <4>1, <4>3 DEF LogOrdered, Ordered
    <3>8. OwnEvent'
      <4> SUFFICES ASSUME NEW q \in Publishers, at'[q] # "idle"
                   PROVE  /\ evt[q].from = q /\ evt[q].seq <= seqCounter
                          /\ at'[q] = "append" => Below(Items(log'), evt[q])
        BY <3>2 DEF OwnEvent, Below, Items
      <4>1. at[q] # "idle" /\ (at'[q] = "append" => at[q] = "append" /\ q # p)
        BY <2>8, <3>2 DEF PublishAppend, TypeOK
      <4>2. evt[q].from = q /\ evt[q].seq <= seqCounter
        BY <2>a, <4>1 DEF OwnEvent
      <4>3. at'[q] = "append" => Below(Items(log'), evt[q])
        BY <2>a, <3>1, <3>6, <4>1, <4>2 DEF OwnEvent, Below
      <4> QED BY <4>2, <4>3
    <3>9. TodoInv'
      <4> SUFFICES ASSUME NEW q \in Publishers
                   PROVE  /\ at'[q] \in {"idle", "append"} => todo'[q] = {}
                          /\ cur[q] \subseteq todo'[q]
                          /\ \A s \in todo'[q] : evt[q] \in After(s)' /\ Below(Seen(s), evt[q])
        BY <3>2, <3>4 DEF TodoInv, Below
      <4>1. CASE q = p
        <5>1. at'[q] = "emit" /\ todo'[q] = listeners /\ listeners \subseteq Subscribers
          BY <3>2, <4>1 DEF TypeOK
        <5>2. \A s \in Subscribers : After(s) \subseteq Items(log)
          BY DEF After, Items
        <5>3. \A s \in Subscribers : Below(Seen(s), e)
          BY <2>a, <3>1, <5>2 DEF ReaderInv, Below
        <5>4. evt[q] = e
          BY <4>1 DEF e
        <5> QED BY <3>1, <3>3, <4>1, <5>1, <5>3, <5>4
      <4>2. CASE q # p
        <5>1. at'[q] = at[q] /\ todo'[q] = todo[q] /\ todo[q] \subseteq Subscribers
          BY <3>2, <4>2, <2>0 DEF TypeOK
        <5> QED BY <2>a, <3>3, <5>1 DEF TodoInv
      <4> QED BY <4>1, <4>2
    <3>10. ReaderInv'
      <4> SUFFICES ASSUME NEW r \in Subscribers
                   PROVE  /\ joined[r] <= Len(log')
                          /\ sub[r] = "new" => ch[r] = <<>> /\ got[r] = <<>> /\ snap[r] = <<>>
                          /\ Items(snap[r]) \subseteq Before(r)'
                          /\ Seen(r) \subseteq After(r)'
                          /\ Ordered(ch[r]) /\ Ordered(got[r])
                          /\ \A f \in Items(ch[r]) : Below(Items(got[r]), f)
        BY <3>2, <3>4 DEF ReaderInv, Ordered, Below, Items
      <4>1. joined[r] <= Len(log')
        BY <2>0, <2>a, <3>5 DEF ReaderInv
      <4> QED BY <2>a, <3>3, <4>1 DEF ReaderInv
    <3> QED BY <3>7, <3>8, <3>9, <3>10 DEF OrderInv
  <2>9. ASSUME NEW p \in Publishers, NEW s \in Subscribers, EmitSend(p, s) \/ EmitResend(p, s)
        PROVE  OrderInv'
    <3> DEFINE e == evt[p]
    <3>1. s \in todo[p] /\ at[p] \notin {"idle", "append"}
      BY <2>9, <2>a DEF EmitSend, EmitResend, CanEmit, TodoInv
    <3>2. e \in Event /\ e.from = p /\ e \in After(s) /\ Below(Seen(s), e) /\ sub[s] # "new"
      BY <2>0, <2>a, <3>1 DEF OwnEvent, TodoInv, EmitInv, TargetsJoined
    <3>3. /\ ch' = [ch EXCEPT ![s] = Append(@, e)]
          /\ todo' = [todo EXCEPT ![p] = @ \ {s}]
          /\ UNCHANGED <<log, seqCounter, evt, joined, sub, got, snap>>
      BY <2>9 DEF EmitSend, EmitResend
    <3>4. /\ \A q \in Publishers : q # p => at'[q] = at[q] /\ cur'[q] = cur[q]
          /\ at'[p] = "emit" /\ cur'[p] = {}
      BY <2>9 DEF EmitSend, EmitResend, CanEmit, TypeOK
    <3> HIDE DEF e
    <3>5. /\ ch'[s] = Append(ch[s], e) /\ \A r \in Subscribers : r # s => ch'[r] = ch[r]
          /\ ch[s] \in Seq(Event) /\ Items(ch'[s]) = Items(ch[s]) \cup {e}
      <4>1. ch'[s] = Append(ch[s], e) /\ \A r \in Subscribers : r # s => ch'[r] = ch[r]
        BY <3>3 DEF TypeOK
      <4>2. ch[s] \in Seq(Event)
        BY <2>0
      <4> QED BY <3>2, <4>1, <4>2, ItemsAppend
    <3>6. /\ Seen(s)' = Seen(s) \cup {e}
          /\ \A r \in Subscribers : r # s => Seen(r)' = Seen(r)
      BY <3>3, <3>5 DEF Seen
    <3>7. \A r : After(r)' = After(r) /\ Before(r)' = Before(r)
      BY <3>3 DEF After, Before
    <3>8. LogOrdered'
      BY <2>a, <3>3 DEF LogOrdered, Ordered
    <3>9. OwnEvent'
      <4> SUFFICES ASSUME NEW q \in Publishers, at'[q] # "idle"
                   PROVE  /\ evt[q].from = q /\ evt[q].seq <= seqCounter
                          /\ at'[q] = "append" => Below(Items(log), evt[q])
        BY <3>3 DEF OwnEvent, Below, Items
      <4>1. at[q] # "idle" /\ (at'[q] = "append" => at[q] = "append")
        BY <3>1, <3>4
      <4> QED BY <2>a, <4>1 DEF OwnEvent
    <3>10. TodoInv'
      <4> SUFFICES ASSUME NEW q \in Publishers
                   PROVE  /\ at'[q] \in {"idle", "append"} => todo'[q] = {}
                          /\ cur'[q] \subseteq todo'[q]
                          /\ \A r \in todo'[q] : evt[q] \in After(r) /\ Below(Seen(r)', evt[q])
        BY <3>3, <3>7 DEF TodoInv, Below
      <4>1. CASE q = p
        <5>1. todo'[q] = todo[q] \ {s} /\ todo[q] \subseteq Subscribers
          BY <2>0, <3>3, <4>1 DEF TypeOK
        <5> QED BY <2>a, <3>4, <3>6, <4>1, <5>1 DEF TodoInv
      <4>2. CASE q # p
        <5>1. todo'[q] = todo[q] /\ todo[q] \subseteq Subscribers
          BY <2>0, <3>3, <4>2 DEF TypeOK
        <5>2. todo[q] # {} => evt[q].from = q
          BY <2>a DEF TodoInv, OwnEvent
        <5>3. \A r \in todo[q] : Below(Seen(r)', evt[q])
          BY <2>a, <3>2, <3>6, <4>2, <5>1, <5>2 DEF TodoInv, Below
        <5> QED BY <2>a, <3>4, <4>2, <5>1, <5>3 DEF TodoInv
      <4> QED BY <4>1, <4>2
    <3>11. ReaderInv'
      <4> SUFFICES ASSUME NEW r \in Subscribers
                   PROVE  /\ joined[r] <= Len(log)
                          /\ sub[r] = "new" => ch'[r] = <<>> /\ got[r] = <<>> /\ snap[r] = <<>>
                          /\ Items(snap[r]) \subseteq Before(r)
                          /\ Seen(r)' \subseteq After(r)
                          /\ Ordered(ch'[r]) /\ Ordered(got[r])
                          /\ \A f \in Items(ch'[r]) : Below(Items(got[r]), f)
        BY <3>3, <3>7 DEF ReaderInv, Ordered, Below, Items
      <4>1. CASE r # s
        BY <2>a, <3>5, <3>6, <4>1 DEF ReaderInv
      <4>2. CASE r = s
        <5>1. Below(Items(ch[s]), e) /\ Below(Items(got[s]), e)
          BY <3>2 DEF Below, Seen
        <5>2. Ordered(ch'[s])
          BY <2>a, <3>2, <3>5, <5>1, OrderedAppend DEF ReaderInv
        <5> QED BY <2>a, <3>2, <3>5, <3>6, <4>2, <5>1, <5>2 DEF ReaderInv
      <4> QED BY <4>1, <4>2
    <3> QED BY <3>8, <3>9, <3>10, <3>11 DEF OrderInv
  (* The channel loses its head, to the reader or to the eviction. *)
  <2>10. ASSUME NEW s \in Subscribers, ch[s] # <<>>,
                ch' = [ch EXCEPT ![s] = Tail(@)],
                got' \in {got, [got EXCEPT ![s] = Append(@, Head(ch[s]))]},
                UNCHANGED <<log, seqCounter, evt, todo, cur, joined, sub, snap>>,
                \A p \in Publishers :
                    at'[p] # at[p] => at'[p] \notin {"idle", "append"} /\ at[p] # "idle"
         PROVE  OrderInv'
    <3> DEFINE h == Head(ch[s])
    <3>1. /\ ch'[s] = Tail(ch[s]) /\ \A r \in Subscribers : r # s => ch'[r] = ch[r] /\ got'[r] = got[r]
          /\ got'[s] \in {got[s], Append(got[s], h)}
      BY <2>10 DEF TypeOK
    <3>2. /\ ch[s] \in Seq(Event) /\ got[s] \in Seq(Event)
          /\ Ordered(ch[s]) /\ Ordered(got[s]) /\ \A f \in Items(ch[s]) : Below(Items(got[s]), f)
      BY <2>0, <2>a DEF ReaderInv
    <3>3. /\ Items(ch[s]) = {h} \cup Items(ch'[s]) /\ h \in Event
          /\ Ordered(ch'[s]) /\ \A f \in Items(ch'[s]) : Below({h}, f)
      BY <2>10, <3>1, <3>2, ItemsTail, OrderedTail
    <3>4. Items(got'[s]) \subseteq Items(got[s]) \cup {h} /\ Ordered(got'[s])
      <4>1. Below(Items(got[s]), h)
        BY <3>2, <3>3
      <4> HIDE DEF h
      <4>2. CASE got'[s] = got[s]
        BY <3>2, <4>2
      <4>3. CASE got'[s] = Append(got[s], h)
        <5>1. Items(Append(got[s], h)) = Items(got[s]) \cup {h}
          BY <3>2, <3>3, ItemsAppend
        <5>2. Ordered(Append(got[s], h))
          BY <3>2, <3>3, <4>1, OrderedAppend
        <5> QED BY <4>3, <5>1, <5>2
      <4> QED BY <3>1, <4>2, <4>3
    <3> HIDE DEF h
    <3>5. \A r \in Subscribers : Seen(r)' \subseteq Seen(r)
      <4>1. Seen(s)' \subseteq Seen(s)
        BY <3>3, <3>4 DEF Seen
      <4> QED BY <3>1, <4>1 DEF Seen
    <3>6. \A r : After(r)' = After(r) /\ Before(r)' = Before(r)
      BY <2>10 DEF After, Before
    <3>7. LogOrdered'
      BY <2>a, <2>10 DEF LogOrdered, Ordered
    <3>8. OwnEvent'
      <4> SUFFICES ASSUME NEW q \in Publishers, at'[q] # "idle"
                   PROVE  /\ evt[q].from = q /\ evt[q].seq <= seqCounter
                          /\ at'[q] = "append" => Below(Items(log), evt[q])
        BY <2>10 DEF OwnEvent, Below, Items
      <4>1. at[q] # "idle" /\ (at'[q] = "append" => at[q] = "append")
        BY <2>10
      <4> QED BY <2>a, <4>1 DEF OwnEvent
    <3>9. TodoInv'
      <4> SUFFICES ASSUME NEW q \in Publishers
                   PROVE  /\ at'[q] \in {"idle", "append"} => todo[q] = {}
                          /\ cur[q] \subseteq todo[q]
                          /\ \A r \in todo[q] : evt[q] \in After(r) /\ Below(Seen(r)', evt[q])
        BY <2>10, <3>6 DEF TodoInv, Below
      <4>1. at'[q] \in {"idle", "append"} => at'[q] = at[q]
        BY <2>10
      <4>2. \A r \in todo[q] : Below(Seen(r)', evt[q])
        BY <2>0, <2>a, <3>5 DEF TodoInv, Below
      <4> QED BY <2>a, <4>1, <4>2 DEF TodoInv
    <3>10. ReaderInv'
      <4> SUFFICES ASSUME NEW r \in Subscribers
                   PROVE  /\ joined[r] <= Len(log)
                          /\ sub[r] = "new" => ch'[r] = <<>> /\ got'[r] = <<>> /\ snap[r] = <<>>
                          /\ Items(snap[r]) \subseteq Before(r)
                          /\ Seen(r)' \subseteq After(r)
                          /\ Ordered(ch'[r]) /\ Ordered(got'[r])
                          /\ \A f \in Items(ch'[r]) : Below(Items(got'[r]), f)
        BY <2>10, <3>6 DEF ReaderInv, Ordered, Below, Items
      <4>1. CASE r # s
        BY <2>a, <3>1, <3>5, <4>1 DEF ReaderInv
      <4>2. CASE r = s
        <5>1. sub[s] # "new"
          BY <2>a, <2>10 DEF ReaderInv
        <5>2. \A f \in Items(ch'[s]) : Below(Items(got'[s]), f)
          BY <3>2, <3>3, <3>4 DEF Below
        <5>3. Seen(s)' \subseteq After(s)
          BY <2>a, <3>5 DEF ReaderInv
        <5> QED BY <2>a, <3>3, <3>4, <4>2, <5>1, <5>2, <5>3 DEF ReaderInv
      <4> QED BY <4>1, <4>2
    <3> QED BY <3>7, <3>8, <3>9, <3>10 DEF OrderInv
  <2>11. ASSUME NEW s \in Subscribers, Recv(s) PROVE OrderInv'
    BY <2>10, <2>11 DEF Recv
  <2>12. ASSUME NEW p \in Publishers, NEW s \in Subscribers, EmitDiscard(p, s) PROVE OrderInv'
    <3>1. /\ UNCHANGED <<log, seqCounter, evt, todo, cur, joined, sub, snap, got>>
          /\ \A q \in Publishers :
                at'[q] # at[q] => at'[q] \notin {"idle", "append"} /\ at[q] # "idle"
      BY <2>12 DEF EmitDiscard, TypeOK
    <3>2. CASE ch[s] = <<>>
      <4>1. ch' = ch
        BY <2>12, <3>2 DEF EmitDiscard
      <4> QED BY <2>a, <2>1, <3>1, <4>1 DEF TodoInv
    <3>3. CASE ch[s] # <<>>
      <4>1. ch' = [ch EXCEPT ![s] = Tail(@)]
        BY <2>12, <3>3 DEF EmitDiscard
      <4> QED BY <2>10, <3>1, <3>3, <4>1
    <3> QED BY <3>2, <3>3
  <2>13. ASSUME NEW s \in Subscribers, Subscribe(s) PROVE OrderInv'
    <3>1. /\ UNCHANGED <<log, seqCounter, evt, todo, cur, at, ch, got>>
          /\ sub[s] = "new" /\ sub'[s] = "reading"
          /\ snap'[s] = RingSnapshot(ring) /\ joined'[s] = Len(log)
          /\ \A r \in Subscribers : r # s =>
                sub'[r] = sub[r] /\ snap'[r] = snap[r] /\ joined'[r] = joined[r]
      BY <2>13 DEF Subscribe, TypeOK
    <3>2. \A r : Seen(r)' = Seen(r)
      BY <3>1 DEF Seen
    <3>3. \A r \in Subscribers : r # s => After(r)' = After(r) /\ Before(r)' = Before(r)
      BY <3>1 DEF After, Before
    <3>4. Seen(s) = {} /\ \A p \in Publishers : s \notin todo[p]
      BY <2>a, <3>1, ItemsEmpty DEF ReaderInv, Seen, EmitInv, TargetsJoined
    <3>5. Before(s)' = Items(log)
      <4>1. {k \in DOMAIN log : k <= Len(log)} = DOMAIN log
        BY <2>0
      <4> QED BY <3>1, <4>1 DEF Before, Items
    <3>6. Items(snap'[s]) \subseteq Items(log)
      BY <3>1, SnapshotIsRecent
    <3>7. LogOrdered' /\ OwnEvent'
      BY <2>a, <3>1 DEF LogOrdered, Ordered, OwnEvent, Below, Items
    <3>8. TodoInv'
      <4> SUFFICES ASSUME NEW q \in Publishers
                   PROVE  /\ at[q] \in {"idle", "append"} => todo[q] = {}
                          /\ cur[q] \subseteq todo[q]
                          /\ \A r \in todo[q] : evt[q] \in After(r)' /\ Below(Seen(r), evt[q])
        BY <3>1, <3>2 DEF TodoInv, Below
      <4> QED BY <2>0, <2>a, <3>3, <3>4 DEF TodoInv
    <3>9. ReaderInv'
      <4> SUFFICES ASSUME NEW r \in Subscribers
                   PROVE  /\ joined'[r] <= Len(log)
                          /\ sub'[r] = "new" => ch[r] = <<>> /\ got[r] = <<>> /\ snap'[r] = <<>>
                          /\ Items(snap'[r]) \subseteq Before(r)'
                          /\ Seen(r) \subseteq After(r)'
                          /\ Ordered(ch[r]) /\ Ordered(got[r])
                          /\ \A f \in Items(ch[r]) : Below(Items(got[r]), f)
        BY <3>1, <3>2 DEF ReaderInv, Ordered, Below, Items
      <4>1. CASE r # s
        BY <2>a, <3>1, <3>3, <4>1 DEF ReaderInv
      <4>2. CASE r = s
        <5>1. joined'[r] <= Len(log)
          BY <2>0, <3>1, <4>2
        <5>2. Items(snap'[r]) \subseteq Before(r)' /\ Seen(r) \subseteq After(r)'
          BY <3>4, <3>5, <3>6, <4>2
        <5> QED BY <2>a, <3>1, <4>2, <5>1, <5>2 DEF ReaderInv
      <4> QED BY <4>1, <4>2
    <3> QED BY <3>7, <3>8, <3>9 DEF OrderInv
  <2> QED BY <2>2, <2>3, <2>4, <2>5, <2>6, <2>7, <2>8, <2>9, <2>11, <2>12, <2>13
          DEF Next, PublishStep, Emit
<1> QED BY <1>1, <1>2, TypeCorrect, EmitInvariant, RingInvariant, PTL DEF Spec

-----------------------------------------------------------------------------
(* Only a Close call that has recorded the outcome goes on to drain. *)
LEMMA EndedInvariant == Spec => []EndedInv
<1>1. Init => EndedInv
  BY DEF Init, EndedInv
<1>2. TypeOK /\ EndedInv /\ [Next]_vars => EndedInv'
  <2> SUFFICES ASSUME TypeOK, EndedInv, [Next]_vars PROVE EndedInv'
    OBVIOUS
  <2> USE DEF session, listener, threads, history, pub, clo
  <2>1. CASE UNCHANGED <<cat, ended>>
    BY <2>1 DEF EndedInv
  <2>2. ASSUME NEW c \in Closers, CloseStep(c) PROVE EndedInv'
    BY <2>2 DEF CloseStep, CloseDetach, CloseListener, CloseDone, EndedInv, TypeOK
  <2> QED BY <2>1, <2>2
          DEF Next, MarkOpen, MarkClosing, PublishStep, Emit, PublishStart, PublishAppend,
              EmitToClosed, EmitSend, EmitFull, EmitFails, EmitFullDropOldest, EmitDiscard,
              EmitResend, PublishFinish, Subscribe, Recv, CancelRemove, CancelClose, vars
<1> QED BY <1>1, <1>2, TypeCorrect, PTL DEF Spec

(* The refinement mapping, by name. *)
MappedJoined == [s \in Subscribers |-> IF sub[s] = "new" THEN -1 ELSE joined[s]]
MappedView == [s \in Subscribers |-> snap[s] \o got[s]]
MappedOutcome == IF ended THEN err ELSE "none"

(* Append extends a log by one and keeps the rest. *)
LEMMA AppendExtends ==
    ASSUME NEW q \in Seq(Event), NEW e \in Event
    PROVE  /\ Len(Append(q, e)) = Len(q) + 1
           /\ Append(q, e)[Len(q) + 1] = e
           /\ SubSeq(Append(q, e), 1, Len(q)) = q
<1> DEFINE n == Len(q)
           a == Append(q, e)
<1>1. n \in Nat /\ q = [i \in 1..n |-> q[i]]
  OBVIOUS
<1>2. Len(a) = n + 1 /\ a[n + 1] = e /\ \A i \in 1..n : a[i] = q[i]
  OBVIOUS
<1> HIDE DEF a, n
<1>3. SubSeq(a, 1, n) = [i \in 1..(1 + n - 1) |-> a[i + 1 - 1]]
  BY <1>1
<1>4. 1 + n - 1 = n /\ \A i \in 1..n : i + 1 - 1 = i
  BY <1>1
<1>5. SubSeq(a, 1, n) = [i \in 1..n |-> q[i]]
  BY <1>2, <1>3, <1>4
<1> QED BY <1>1, <1>2, <1>5 DEF a, n

(* Receiving extends the view at its end. *)
LEMMA ViewAppend ==
    ASSUME NEW q \in Seq(Event \cup {NoEvent}), NEW r \in Seq(Event \cup {NoEvent}),
           NEW e \in Event \cup {NoEvent}
    PROVE  q \o Append(r, e) = Append(q \o r, e)
OBVIOUS

LEMMA ItemsConcat ==
    ASSUME NEW S, NEW q \in Seq(S), NEW r \in Seq(S)
    PROVE  Items(q \o r) \subseteq Items(q) \cup Items(r)
<1>1. /\ DOMAIN (q \o r) = 1..(Len(q) + Len(r)) /\ Len(q) \in Nat /\ Len(r) \in Nat
      /\ DOMAIN q = 1..Len(q) /\ DOMAIN r = 1..Len(r)
  OBVIOUS
<1>2. \A i \in 1..(Len(q) + Len(r)) :
        (q \o r)[i] = IF i <= Len(q) THEN q[i] ELSE r[i - Len(q)]
  OBVIOUS
<1>3. \A i \in 1..(Len(q) + Len(r)) :
        IF i <= Len(q) THEN i \in 1..Len(q) ELSE i - Len(q) \in 1..Len(r)
  BY <1>1
<1> QED BY <1>1, <1>2, <1>3 DEF Items

(* The goroutines implement the contract, for any number of publishers,     *)
(* readers and closers, any buffer sizes and drop policy: a snapshot is the *)
(* recent past, what a reader is shown afterwards was accepted after it     *)
(* joined, comes once and in its publisher's order, and Done follows the    *)
(* one outcome.                                                             *)
THEOREM SessionRefinesContract == Spec => ImplementsContract
<1>1. Init => Contract!CInit
  <2> SUFFICES ASSUME Init PROVE Contract!CInit
    OBVIOUS
  <2>1. \A s \in Subscribers : snap[s] \o got[s] = <<>>
    BY DEF Init
  <2> QED BY <2>1 DEF Init, Contract!CInit
<1>2. TypeOK /\ HoldsEvent /\ EmitInv /\ RingIsTail /\ OrderInv /\ EndedInv /\ [Next]_vars
        => [Contract!CNext]_(Contract!cvars)
  <2> SUFFICES ASSUME TypeOK, HoldsEvent, EmitInv, RingIsTail, OrderInv, EndedInv, [Next]_vars
               PROVE  Contract!CNext \/ UNCHANGED Contract!cvars
    BY DEF Contract!cvars
  <2> USE DEF session, listener, threads, history, pub, clo
  <2>a. LogOrdered /\ OwnEvent /\ TodoInv /\ ReaderInv
    BY DEF OrderInv
  <2>0. /\ log \in Seq(Event) /\ Len(log) \in Nat /\ DOMAIN log = 1..Len(log)
        /\ \A s \in Subscribers : ch[s] \in Seq(Event) /\ got[s] \in Seq(Event) /\ joined[s] \in Nat
    BY DEF TypeOK
  (* Steps the contract does not speak of. *)
  <2>1. ASSUME UNCHANGED <<log, done, joined, snap, got, ended, err>>,
               \A s \in Subscribers : (sub'[s] = "new") <=> (sub[s] = "new")
        PROVE  UNCHANGED Contract!cvars
    <3>1. MappedJoined' = MappedJoined /\ MappedView' = MappedView /\ MappedOutcome' = MappedOutcome
      BY <2>1 DEF MappedJoined, MappedView, MappedOutcome
    <3> QED BY <2>1, <3>1 DEF Contract!cvars, MappedJoined, MappedView, MappedOutcome
  <2>2. CASE UNCHANGED vars
    BY <2>1, <2>2 DEF vars
  <2>3. CASE MarkOpen \/ MarkClosing
    BY <2>1, <2>3 DEF MarkOpen, MarkClosing
  <2>4. ASSUME NEW p \in Publishers, PublishStart(p) \/ PublishFinish(p) PROVE UNCHANGED Contract!cvars
    BY <2>1, <2>4 DEF PublishStart, PublishFinish
  <2>5. ASSUME NEW p \in Publishers, NEW s \in Subscribers, Emit(p, s) PROVE UNCHANGED Contract!cvars
    BY <2>1, <2>5 DEF Emit, EmitToClosed, EmitSend, EmitFull, EmitFails, EmitFullDropOldest,
                      EmitDiscard, EmitResend
  <2>6. ASSUME NEW s \in Subscribers, CancelRemove(s) \/ CancelClose(s) PROVE UNCHANGED Contract!cvars
    BY <2>1, <2>6 DEF CancelRemove, CancelClose, TypeOK
  <2>7. ASSUME NEW c \in Closers, NEW s \in Subscribers, CloseListener(c, s)
        PROVE  UNCHANGED Contract!cvars
    BY <2>1, <2>7 DEF CloseListener
  <2>8. ASSUME NEW p \in Publishers, PublishAppend(p) PROVE Contract!Accept
    <3>1. evt[p] \in Event /\ Below(Items(log), evt[p])
      BY <2>a, <2>8 DEF PublishAppend, HoldsEvent, OwnEvent
    <3>2. /\ log' = Append(log, evt[p])
          /\ UNCHANGED <<done, joined, snap, got, ended, err, sub>>
      BY <2>8 DEF PublishAppend
    <3>3. /\ Len(log') = Len(log) + 1 /\ log'[Len(log')] = evt[p]
          /\ SubSeq(log', 1, Len(log)) = log
      BY <2>0, <3>1, <3>2, AppendExtends
    <3>4. \A i \in DOMAIN log : log[i] # evt[p]
      <4>1. evt[p].seq \in Nat
        BY <3>1, EventFields
      <4>2. \A i \in DOMAIN log : log[i] \in Items(log)
        BY DEF Items
      <4>3. \A f \in Items(log) : f # evt[p]
        BY <3>1, <4>1 DEF Below
      <4> QED BY <4>2, <4>3
    <3>5. UNCHANGED <<MappedOutcome, MappedJoined, MappedView>>
      BY <3>2 DEF MappedJoined, MappedView, MappedOutcome
    <3> QED BY <3>2, <3>3, <3>4, <3>5 DEF Contract!Accept, MappedJoined, MappedView, MappedOutcome
  <2>9. ASSUME NEW c \in Closers, NEW e \in Errs, CloseDetach(c, e)
        PROVE  Contract!End \/ UNCHANGED Contract!cvars
    <3>1. UNCHANGED <<log, done, joined, snap, got, sub>>
      BY <2>9 DEF CloseDetach
    <3>2. CASE ended
      BY <2>1, <2>9, <3>1, <3>2 DEF CloseDetach
    <3>3. CASE ~ended
      <4>1. ended' /\ err' = e
        BY <2>9, <3>3 DEF CloseDetach
      <4>2. MappedOutcome = "none" /\ MappedOutcome' \in Errs
        BY <2>9, <3>3, <4>1 DEF MappedOutcome
      <4>3. UNCHANGED <<MappedJoined, MappedView>>
        BY <3>1 DEF MappedJoined, MappedView
      <4> QED BY <3>1, <4>2, <4>3 DEF Contract!End, MappedJoined, MappedView, MappedOutcome
    <3> QED BY <3>2, <3>3
  <2>10. ASSUME NEW c \in Closers, CloseDone(c) PROVE Contract!Release
    <3>1. ended /\ done' /\ UNCHANGED <<log, joined, snap, got, sub, ended, err>>
      BY <2>10 DEF CloseDone, EndedInv
    <3>2. MappedOutcome # "none"
      BY <3>1 DEF MappedOutcome, TypeOK, Errs, NoErr
    <3>3. UNCHANGED <<MappedJoined, MappedView, MappedOutcome>>
      BY <3>1 DEF MappedJoined, MappedView, MappedOutcome
    <3>4. done' = TRUE
      BY <2>10 DEF CloseDone
    <3> QED BY <3>1, <3>2, <3>3, <3>4 DEF Contract!Release, MappedJoined, MappedView, MappedOutcome
  <2>11. ASSUME NEW s \in Subscribers, Subscribe(s) PROVE Contract!Join(s)
    <3>1. /\ UNCHANGED <<log, done, got, ended, err>>
          /\ sub[s] = "new" /\ got[s] = <<>>
          /\ sub' = [sub EXCEPT ![s] = "reading"]
          /\ snap' = [snap EXCEPT ![s] = RingSnapshot(ring)]
          /\ joined' = [joined EXCEPT ![s] = Len(log)]
      BY <2>a, <2>11 DEF Subscribe, ReaderInv
    <3>2. RingSnapshot(ring) \in Seq(Event \cup {NoEvent})
      BY RingSnapshotType DEF TypeOK, Ring
    <3>3. RingSnapshot(ring) \o <<>> = RingSnapshot(ring)
      BY <3>2
    <3>4. MappedJoined[s] = -1 /\ MappedJoined' = [MappedJoined EXCEPT ![s] = Len(log)]
      BY <3>1 DEF MappedJoined, TypeOK
    <3>5. MappedView' = [MappedView EXCEPT ![s] = Contract!Recent]
      BY <3>1, <3>3, SnapshotIsRecent DEF MappedView, TypeOK
    <3>6. MappedOutcome' = MappedOutcome
      BY <3>1 DEF MappedOutcome
    <3> QED BY <3>1, <3>4, <3>5, <3>6 DEF Contract!Join, MappedJoined, MappedView, MappedOutcome
  <2>12. ASSUME NEW s \in Subscribers, Recv(s) PROVE Contract!Show(s)
    <3> DEFINE h == Head(ch[s])
    <3>1. /\ UNCHANGED <<log, done, snap, joined, sub, ended, err>>
          /\ sub[s] = "reading" /\ ch[s] # <<>>
          /\ got' = [got EXCEPT ![s] = Append(@, h)]
      BY <2>12 DEF Recv
    <3>2. h \in Items(ch[s]) /\ h \in Event
      BY <2>0, <3>1, ItemsTail
    <3> HIDE DEF h
    <3>3. PICK i \in {k \in DOMAIN log : k > joined[s]} : log[i] = h
      BY <2>a, <3>2 DEF ReaderInv, Seen, After
    <3>4. i \in (joined[s] + 1)..Len(log) /\ i \in DOMAIN log
      BY <2>0, <3>3
    <3>5. MappedJoined[s] = joined[s] /\ joined[s] >= 0
      BY <2>0, <3>1 DEF MappedJoined
    <3>6. Below(Items(snap[s]) \cup Items(got[s]), h)
      <4>1. Below(Items(got[s]), h)
        BY <2>a, <3>2 DEF ReaderInv
      <4>2. ASSUME NEW f \in Items(snap[s]), f.from = h.from PROVE f.seq < h.seq
        <5>1. PICK k \in {j \in DOMAIN log : j <= joined[s]} : log[k] = f
          BY <2>a, <4>2 DEF ReaderInv, Before
        <5>2. k < i /\ k \in DOMAIN log
          BY <2>0, <3>4, <5>1
        <5> QED BY <2>a, <3>3, <3>4, <4>2, <5>1, <5>2 DEF LogOrdered, Ordered
      <4> QED BY <4>1, <4>2 DEF Below
    <3>7. /\ snap[s] \in Seq(Event \cup {NoEvent}) /\ got[s] \in Seq(Event \cup {NoEvent})
          /\ h \in Event \cup {NoEvent}
      BY <2>0, <3>2 DEF TypeOK
    <3>8. Items(MappedView[s]) \subseteq Items(snap[s]) \cup Items(got[s])
      BY <3>7, ItemsConcat DEF MappedView
    <3>9. \A f \in Contract!Shown(s) : f.from = log[i].from => f.seq < log[i].seq
      <4>1. Contract!Shown(s) = Items(MappedView[s])
        BY DEF Contract!Shown, Items, MappedView
      <4> QED BY <3>3, <3>6, <3>8, <4>1 DEF Below
    <3>10. MappedView' = [MappedView EXCEPT ![s] = Append(@, log[i])]
      <4>1. snap[s] \o Append(got[s], h) = Append(snap[s] \o got[s], h)
        BY <3>7, ViewAppend
      <4> QED BY <3>1, <3>3, <4>1 DEF MappedView, TypeOK
    <3>11. UNCHANGED <<MappedJoined, MappedOutcome>>
      BY <3>1 DEF MappedJoined, MappedOutcome
    <3> QED BY <3>1, <3>4, <3>5, <3>9, <3>10, <3>11
            DEF Contract!Show, MappedJoined, MappedView, MappedOutcome
  <2> QED BY <2>2, <2>3, <2>4, <2>5, <2>6, <2>7, <2>8, <2>9, <2>10, <2>11, <2>12
          DEF Next, PublishStep, CloseStep, Contract!CNext
<1> QED BY <1>1, <1>2, TypeCorrect, EmitInvariant, RingInvariant, OrderInvariant, EndedInvariant, PTL
        DEF Spec, ImplementsContract, Contract!CSpec

-----------------------------------------------------------------------------
(* A publisher's list names it: taking one listener off its list takes its   *)
(* event off what is pending for that listener, and nothing else.            *)
LEMMA PendingDone ==
    ASSUME TypeOK, OrderInv, NEW p \in Publishers, NEW s \in todo[p],
           todo' = [todo EXCEPT ![p] = @ \ {s}], evt' = evt
    PROVE  /\ Pending(s)' = Pending(s) \ {evt[p]} /\ evt[p] \in Pending(s)
           /\ \A r : r # s => Pending(r)' = Pending(r)
<1>1. \A q \in Publishers : todo[q] # {} => evt[q].from = q
  BY DEF OrderInv, TodoInv, OwnEvent
<1>2. todo'[p] = todo[p] \ {s} /\ \A q \in Publishers : q # p => todo'[q] = todo[q]
  BY DEF TypeOK
<1>3. evt[p] \in Pending(s)
  BY DEF Pending
<1>4. Pending(s)' \subseteq Pending(s) \ {evt[p]}
  <2> SUFFICES ASSUME NEW q \in Publishers, s \in todo'[q]
               PROVE  evt[q] \in Pending(s) /\ evt[q] # evt[p]
    BY DEF Pending
  <2>1. q # p /\ s \in todo[q]
    BY <1>2
  <2> QED BY <1>1, <2>1 DEF Pending
<1>5. Pending(s) \ {evt[p]} \subseteq Pending(s)'
  <2> SUFFICES ASSUME NEW q \in Publishers, s \in todo[q], evt[q] # evt[p]
               PROVE  evt'[q] \in Pending(s)'
    BY DEF Pending
  <2>1. s \in todo'[q]
    BY <1>2
  <2> QED BY <2>1 DEF Pending
<1>6. ASSUME NEW r, r # s PROVE Pending(r)' = Pending(r)
  <2>1. \A q \in Publishers : r \in todo'[q] <=> r \in todo[q]
    BY <1>2, <1>6
  <2> QED BY <2>1 DEF Pending
<1> QED BY <1>3, <1>4, <1>5, <1>6

(* What is pending for a listener it has not seen yet. *)
LEMMA PendingUnseen ==
    ASSUME TypeOK, HoldsEvent, OrderInv, NEW s \in Subscribers
    PROVE  /\ Pending(s) \cap Seen(s) = {}
           /\ Items(got[s]) \cap Items(ch[s]) = {}
<1>1. ASSUME NEW p \in Publishers, s \in todo[p] PROVE evt[p] \notin Seen(s)
  <2>1. Below(Seen(s), evt[p]) /\ at[p] # "idle"
    BY <1>1 DEF OrderInv, TodoInv
  <2>2. evt[p].seq \in Nat
    BY <2>1, EventFields DEF HoldsEvent
  <2> QED BY <2>1, <2>2 DEF Below
<1>2. ASSUME NEW e \in Items(ch[s]) PROVE e \notin Items(got[s])
  <2>1. Below(Items(got[s]), e) /\ e \in Event
    BY <1>2, ItemsType DEF OrderInv, ReaderInv, TypeOK
  <2>2. e.seq \in Nat
    BY <2>1, EventFields
  <2> QED BY <2>1, <2>2 DEF Below
<1> QED BY <1>1, <1>2 DEF Pending

(* Every event of a listener's registration stays accounted for. *)
LEMMA AccountInvariant == Spec => []AccountInv
<1>1. Init => AccountInv
  <2> SUFFICES ASSUME Init PROVE AccountInv
    OBVIOUS
  <2>1. Registered
    BY DEF Init, Registered
  <2>2. \A s \in Subscribers : Accounted(s)
    BY DEF Init, Accounted
  <2> QED BY <2>1, <2>2 DEF AccountInv
<1>2. TypeOK /\ HoldsEvent /\ DetachInv /\ EmitInv /\ OrderInv /\ AccountInv /\ [Next]_vars
        => AccountInv'
  <2> SUFFICES ASSUME TypeOK, HoldsEvent, DetachInv, EmitInv, OrderInv, AccountInv, [Next]_vars
               PROVE  AccountInv'
    OBVIOUS
  <2> USE DEF session, listener, threads, history, pub, clo
  <2>0. /\ log \in Seq(Event) /\ Len(log) \in Nat /\ DOMAIN log = 1..Len(log)
        /\ \A s \in Subscribers : /\ ch[s] \in Seq(Event) /\ got[s] \in Seq(Event)
                                   /\ joined[s] \in Nat /\ left[s] \in Int /\ joined[s] <= Len(log)
        /\ \A p \in Publishers : at[p] # "idle" => evt[p] \in Event
        /\ \A p \in Publishers : todo[p] \subseteq Subscribers
        /\ listeners \subseteq Subscribers
    BY DEF TypeOK, HoldsEvent, OrderInv, ReaderInv
  <2>a. LogOrdered /\ OwnEvent /\ TodoInv /\ ReaderInv
    BY DEF OrderInv
  <2>b. Registered /\ \A s \in Subscribers : Accounted(s)
    BY DEF AccountInv
  <2>c. \A s \in listeners : sub[s] = "reading"
    BY DEF DetachInv
  (* A step that leaves events and lists alone but may end a registration. *)
  <2>1. ASSUME UNCHANGED <<log, joined, evt, todo, ch, got, failed, evicted>>,
               \A s \in Subscribers :
                   /\ sub'[s] = "new" <=> sub[s] = "new"
                   /\ \/ left'[s] = left[s] /\ (s \in listeners' <=> s \in listeners)
                      \/ s \in listeners /\ s \notin listeners' /\ left'[s] = Len(log)
        PROVE  AccountInv'
    <3>1. \A s \in Subscribers : s \in listeners => sub[s] # "new" /\ left[s] = -1
      BY <2>b, <2>c DEF Registered
    <3>2. Registered'
      BY <2>0, <2>b, <2>1, <3>1 DEF Registered
    <3>3. \A s \in Subscribers : Window(s)' = Window(s) /\ OnTheWay(s)' = OnTheWay(s)
      <4> SUFFICES ASSUME NEW s \in Subscribers
                   PROVE  Window(s)' = Window(s) /\ OnTheWay(s)' = OnTheWay(s)
        OBVIOUS
      <4>1. Until(s)' = Until(s)
        BY <2>0, <2>1, <3>1 DEF Until
      <4> QED BY <2>1, <4>1 DEF Window, OnTheWay, Seen, Pending
    <3>4. \A s \in Subscribers : Accounted(s)'
      BY <2>b, <2>1, <3>3 DEF Accounted
    <3> QED BY <3>2, <3>4 DEF AccountInv
  <2>2. CASE MarkOpen \/ MarkClosing \/ UNCHANGED vars
    BY <2>1, <2>2 DEF MarkOpen, MarkClosing, vars
  <2>3. ASSUME NEW c \in Closers, NEW e \in Errs, CloseDetach(c, e) PROVE AccountInv'
    BY <2>1, <2>3 DEF CloseDetach
  <2>4. ASSUME NEW c \in Closers, NEW s \in Subscribers, CloseListener(c, s) PROVE AccountInv'
    BY <2>1, <2>4 DEF CloseListener
  <2>5. ASSUME NEW c \in Closers, CloseDone(c) PROVE AccountInv'
    BY <2>1, <2>5 DEF CloseDone
  <2>6. ASSUME NEW s \in Subscribers, CancelRemove(s) PROVE AccountInv'
    BY <2>1, <2>6 DEF CancelRemove, TypeOK
  <2>7. ASSUME NEW s \in Subscribers, CancelClose(s) PROVE AccountInv'
    BY <2>1, <2>7 DEF CancelClose, TypeOK
  <2>8. ASSUME NEW p \in Publishers, NEW s \in Subscribers, EmitFullDropOldest(p, s) PROVE AccountInv'
    BY <2>1, <2>8 DEF EmitFullDropOldest
  (* Steps that keep registrations and the log. *)
  <2>9. ASSUME UNCHANGED <<log, joined, left, listeners, sub>>,
               \A s \in Subscribers :
                   \/ OnTheWay(s)' = OnTheWay(s) /\ failed'[s] = failed[s] /\ evicted'[s] = evicted[s]
                   \/ \E e \in OnTheWay(s) :
                         /\ sub[s] # "new"
                         /\ OnTheWay(s)' = OnTheWay(s) \ {e}
                         /\ \/ failed'[s] = failed[s] \cup {e} /\ evicted'[s] = evicted[s]
                            \/ failed'[s] = failed[s] /\ evicted'[s] = evicted[s] \cup {e}
        PROVE  AccountInv'
    <3>1. \A s \in Subscribers : Window(s)' = Window(s)
      BY <2>9 DEF Window, Until
    <3>2. Registered'
      BY <2>b, <2>9 DEF Registered
    <3>3. \A s \in Subscribers : Accounted(s)'
      <4> SUFFICES ASSUME NEW s \in Subscribers PROVE Accounted(s)'
        OBVIOUS
      <4>1. CASE OnTheWay(s)' = OnTheWay(s) /\ failed'[s] = failed[s] /\ evicted'[s] = evicted[s]
        BY <2>b, <2>9, <3>1, <4>1 DEF Accounted
      <4>2. ASSUME NEW e \in OnTheWay(s), OnTheWay(s)' = OnTheWay(s) \ {e},
                   \/ failed'[s] = failed[s] \cup {e} /\ evicted'[s] = evicted[s]
                   \/ failed'[s] = failed[s] /\ evicted'[s] = evicted[s] \cup {e}
            PROVE  Accounted(s)'
        BY <2>b, <2>9, <3>1, <4>2 DEF Accounted
      <4> QED BY <2>9, <4>1, <4>2
    <3> QED BY <3>2, <3>3 DEF AccountInv
  <2>10. ASSUME NEW p \in Publishers, PublishStart(p) \/ PublishFinish(p) PROVE AccountInv'
    <3>1. todo[p] = {} /\ UNCHANGED <<log, joined, left, listeners, sub, todo, ch, got, failed, evicted>>
      BY <2>10, <2>a DEF PublishStart, PublishFinish, TodoInv
    <3>2. \A q \in Publishers : q # p => evt'[q] = evt[q]
      BY <2>10 DEF PublishStart, PublishFinish, TypeOK
    <3>3. \A s \in Subscribers : OnTheWay(s)' = OnTheWay(s)
      BY <3>1, <3>2 DEF OnTheWay, Seen, Pending
    <3> QED BY <2>9, <3>1, <3>3
  <2>11. ASSUME NEW s \in Subscribers, Recv(s) PROVE AccountInv'
    <3>1. /\ UNCHANGED <<log, joined, left, listeners, sub, todo, evt, failed, evicted>>
          /\ ch'[s] = Tail(ch[s]) /\ got'[s] = Append(got[s], Head(ch[s])) /\ ch[s] # <<>>
          /\ \A r \in Subscribers : r # s => ch'[r] = ch[r] /\ got'[r] = got[r]
      BY <2>11 DEF Recv, TypeOK
    <3>2. Seen(s)' = Seen(s)
      BY <2>0, <3>1, ItemsTail, ItemsAppend DEF Seen
    <3>3. \A r \in Subscribers : OnTheWay(r)' = OnTheWay(r)
      BY <3>1, <3>2 DEF OnTheWay, Seen, Pending
    <3> QED BY <2>9, <3>1, <3>3
  <2>12. ASSUME NEW p \in Publishers, NEW s \in Subscribers, EmitSend(p, s) \/ EmitResend(p, s)
         PROVE  AccountInv'
    <3>1. /\ UNCHANGED <<log, joined, left, listeners, sub, evt, got, failed, evicted>>
          /\ ch'[s] = Append(ch[s], evt[p]) /\ \A r \in Subscribers : r # s => ch'[r] = ch[r]
          /\ todo' = [todo EXCEPT ![p] = @ \ {s}] /\ s \in todo[p]
      BY <2>12, <2>a DEF EmitSend, EmitResend, CanEmit, TypeOK, TodoInv
    <3>2. evt[p] \in Event
      BY <2>0, <2>a, <3>1 DEF TodoInv
    <3>3. /\ Pending(s)' = Pending(s) \ {evt[p]} /\ evt[p] \in Pending(s)
          /\ \A r : r # s => Pending(r)' = Pending(r)
      BY <3>1, PendingDone
    <3>4. Items(ch'[s]) = Items(ch[s]) \cup {evt[p]}
      BY <2>0, <3>1, <3>2, ItemsAppend
    <3>5. OnTheWay(s)' = OnTheWay(s)
      BY <3>1, <3>3, <3>4 DEF OnTheWay, Seen
    <3>6. \A r \in Subscribers : r # s => OnTheWay(r)' = OnTheWay(r)
      BY <3>1, <3>3 DEF OnTheWay, Seen
    <3> QED BY <2>9, <3>1, <3>5, <3>6
  <2>13. ASSUME NEW p \in Publishers, NEW s \in Subscribers, EmitToClosed(p, s) \/ EmitFull(p, s)
         PROVE  AccountInv'
    <3>1. /\ UNCHANGED <<log, joined, left, listeners, sub, evt, ch, got, evicted>>
          /\ failed'[s] = failed[s] \cup {evt[p]}
          /\ \A r \in Subscribers : r # s => failed'[r] = failed[r]
          /\ todo' = [todo EXCEPT ![p] = @ \ {s}] /\ s \in todo[p]
      BY <2>13 DEF EmitToClosed, EmitFull, EmitFails, CanEmit, TypeOK
    <3>2. sub[s] # "new"
      BY <3>1 DEF EmitInv, TargetsJoined
    <3>3. /\ Pending(s)' = Pending(s) \ {evt[p]} /\ evt[p] \in Pending(s)
          /\ \A r : r # s => Pending(r)' = Pending(r)
      BY <3>1, PendingDone
    <3>4. evt[p] \notin Seen(s)
      BY <3>3, PendingUnseen
    <3>5. OnTheWay(s)' = OnTheWay(s) \ {evt[p]} /\ evt[p] \in OnTheWay(s)
      BY <3>1, <3>3, <3>4 DEF OnTheWay, Seen
    <3>6. \A r \in Subscribers : r # s => OnTheWay(r)' = OnTheWay(r)
      BY <3>1, <3>3 DEF OnTheWay, Seen
    <3> QED BY <2>9, <3>1, <3>2, <3>5, <3>6
  <2>14. ASSUME NEW p \in Publishers, NEW s \in Subscribers, EmitDiscard(p, s) PROVE AccountInv'
    <3>1. UNCHANGED <<log, joined, left, listeners, sub, evt, todo, got, failed>>
      BY <2>14 DEF EmitDiscard
    <3>2. CASE ch[s] = <<>>
      <4>1. UNCHANGED <<ch, evicted>>
        BY <2>14, <3>2 DEF EmitDiscard
      <4> QED BY <2>9, <3>1, <4>1 DEF OnTheWay, Seen, Pending
    <3>3. CASE ch[s] # <<>>
      <4> DEFINE h == Head(ch[s])
      <4>1. /\ ch'[s] = Tail(ch[s]) /\ evicted'[s] = evicted[s] \cup {h}
            /\ \A r \in Subscribers : r # s => ch'[r] = ch[r] /\ evicted'[r] = evicted[r]
        BY <2>14, <3>3 DEF EmitDiscard, TypeOK
      <4>2. /\ Items(ch[s]) = {h} \cup Items(ch'[s]) /\ h \in Event
            /\ \A f \in Items(ch'[s]) : Below({h}, f)
        BY <2>0, <2>a, <3>3, <4>1, ItemsTail, OrderedTail DEF ReaderInv
      <4>3. h \notin Items(ch'[s])
        BY <4>2, EventFields DEF Below
      <4>4. h \notin Items(got[s]) /\ h \notin Pending(s)
        BY <4>2, PendingUnseen DEF Seen
      <4> HIDE DEF h
      <4>5. Pending(s)' = Pending(s) /\ \A r \in Subscribers : r # s => OnTheWay(r)' = OnTheWay(r)
        BY <3>1, <4>1 DEF OnTheWay, Seen, Pending
      <4>6. OnTheWay(s)' = OnTheWay(s) \ {h} /\ h \in OnTheWay(s)
        BY <3>1, <4>2, <4>3, <4>4, <4>5 DEF OnTheWay, Seen
      <4>7. sub[s] # "new"
        BY <2>a, <3>3 DEF ReaderInv
      <4> QED BY <2>9, <3>1, <4>1, <4>5, <4>6, <4>7
    <3> QED BY <3>2, <3>3
  <2>15. ASSUME NEW p \in Publishers, PublishAppend(p) PROVE AccountInv'
    <3> DEFINE e == evt[p]
    <3>1. /\ e \in Event /\ e.seq \in Nat /\ Below(Items(log), e) /\ todo[p] = {}
      BY <2>15, <2>0, <2>a, EventFields DEF PublishAppend, OwnEvent, TodoInv
    <3>2. /\ log' = Append(log, e)
          /\ todo'[p] = listeners /\ \A q \in Publishers : q # p => todo'[q] = todo[q]
          /\ UNCHANGED <<evt, joined, left, listeners, sub, ch, got, failed, evicted>>
      BY <2>15 DEF PublishAppend, TypeOK
    <3>3. e \notin Items(log)
      BY <3>1 DEF Below
    <3>4. /\ Len(log') = Len(log) + 1 /\ log'[Len(log) + 1] = e
          /\ \A i \in 1..Len(log) : log'[i] = log[i]
      BY <2>0, <3>1, <3>2
    <3>5. Registered'
      BY <2>0, <2>b, <3>2, <3>4 DEF Registered
    <3>6. ASSUME NEW s \in Subscribers PROVE Accounted(s)'
      <4>1. CASE s \in listeners
        <5>1. sub[s] # "new" /\ left[s] = -1
          BY <2>b, <2>c, <4>1 DEF Registered
        <5>2. Pending(s)' = Pending(s) \cup {e}
          BY <3>1, <3>2, <4>1 DEF Pending
        <5>3. OnTheWay(s)' = OnTheWay(s) \cup {e}
          BY <3>2, <5>2 DEF OnTheWay, Seen
        <5>4. Window(s)' = Window(s) \cup {e}
          <6>1. Until(s)' = Len(log) + 1 /\ Until(s) = Len(log)
            BY <3>2, <3>4, <5>1 DEF Until
          <6>2. (joined[s] + 1)..(Len(log) + 1) = ((joined[s] + 1)..Len(log)) \cup {Len(log) + 1}
            BY <2>0
          <6>3. \A i \in (joined[s] + 1)..Len(log) : log'[i] = log[i]
            BY <2>0, <3>4
          <6> DEFINE K == (joined[s] + 1)..Len(log)
          <6>4. /\ Window(s)' = {log'[i] : i \in K \cup {Len(log) + 1}}
                /\ Window(s) = {log[i] : i \in K}
            BY <3>2, <6>1, <6>2 DEF Window
          <6>5. \A i \in K : log'[i] = log[i]
            BY <6>3
          <6> HIDE DEF K, e
          <6>6. Window(s)' \subseteq Window(s) \cup {e}
            BY <3>4, <6>4, <6>5
          <6>7. Window(s) \cup {e} \subseteq Window(s)'
            BY <3>4, <6>4, <6>5
          <6> QED BY <6>6, <6>7
        <5>5. Window(s) \subseteq Items(log)
          <6>1. Until(s) = Len(log)
            BY <5>1 DEF Until
          <6>2. \A i \in (joined[s] + 1)..Len(log) : i \in DOMAIN log
            BY <2>0
          <6> QED BY <6>1, <6>2 DEF Window, Items
        <5>6. e \notin failed[s] /\ e \notin evicted[s]
          BY <2>b, <3>3, <5>1, <5>5 DEF Accounted
        <5> HIDE DEF e
        <5> QED BY <2>b, <3>2, <5>1, <5>3, <5>4, <5>6 DEF Accounted
      <4>2. CASE s \notin listeners
        <5>1. Pending(s)' = Pending(s)
          BY <3>1, <3>2, <4>2 DEF Pending
        <5>2. OnTheWay(s)' = OnTheWay(s)
          BY <3>2, <5>1 DEF OnTheWay, Seen
        <5>3. sub[s] # "new" => Window(s)' = Window(s)
          <6> SUFFICES ASSUME sub[s] # "new" PROVE Window(s)' = Window(s)
            OBVIOUS
          <6>1. left[s] # -1 /\ left[s] \in joined[s]..Len(log)
            BY <2>b, <4>2 DEF Registered
          <6>2. Until(s)' = left[s] /\ Until(s) = left[s]
            BY <3>2, <6>1 DEF Until
          <6>3. \A i \in (joined[s] + 1)..left[s] : log'[i] = log[i]
            BY <2>0, <3>4, <6>1
          <6> QED BY <3>2, <6>2, <6>3 DEF Window
        <5> QED BY <2>b, <3>2, <5>2, <5>3 DEF Accounted
      <4> QED BY <4>1, <4>2
    <3> QED BY <3>5, <3>6 DEF AccountInv
  <2>16. ASSUME NEW s \in Subscribers, Subscribe(s) PROVE AccountInv'
    <3>1. /\ UNCHANGED <<log, evt, todo, ch, got, failed, evicted>>
          /\ sub[s] = "new" /\ sub'[s] = "reading" /\ joined'[s] = Len(log)
          /\ \A r \in Subscribers : r # s =>
                /\ sub'[r] = sub[r] /\ joined'[r] = joined[r] /\ left'[r] = left[r]
                /\ r \in listeners' <=> r \in listeners
          /\ \/ left'[s] = left[s] /\ s \in listeners'
             \/ left'[s] = Len(log) /\ s \notin listeners'
      <4>1. s \notin listeners
        BY <2>c, <2>16 DEF Subscribe
      <4> QED BY <2>16, <4>1 DEF Subscribe, TypeOK
    <3>2. left[s] = -1 /\ failed[s] = {} /\ evicted[s] = {}
      BY <2>b, <3>1 DEF Registered
    <3>3. OnTheWay(s)' = {}
      BY <2>a, <3>1, ItemsEmpty DEF OnTheWay, Seen, Pending, ReaderInv, EmitInv, TargetsJoined
    <3>4. Window(s)' = {}
      <4>1. Until(s)' = Len(log)
        BY <2>0, <3>1, <3>2 DEF Until
      <4>2. (Len(log) + 1)..Len(log) = {}
        BY <2>0
      <4> QED BY <3>1, <4>1, <4>2 DEF Window
    <3>5. Registered'
      BY <2>0, <2>b, <3>1, <3>2 DEF Registered
    <3>6. ASSUME NEW r \in Subscribers PROVE Accounted(r)'
      <4>1. CASE r = s
        BY <3>1, <3>2, <3>3, <3>4, <4>1 DEF Accounted
      <4>2. CASE r # s
        <5>1. Window(r)' = Window(r) /\ OnTheWay(r)' = OnTheWay(r)
          BY <3>1, <4>2 DEF Window, Until, OnTheWay, Seen, Pending
        <5> QED BY <2>b, <3>1, <4>2, <5>1 DEF Accounted
      <4> QED BY <4>1, <4>2
    <3> QED BY <3>5, <3>6 DEF AccountInv
  <2> QED BY <2>2, <2>3, <2>4, <2>5, <2>6, <2>7, <2>8, <2>10, <2>11, <2>12, <2>13, <2>14, <2>15, <2>16
          DEF Next, PublishStep, Emit, CloseStep
<1> QED BY <1>1, <1>2, TypeCorrect, DetachInvariant, EmitInvariant, OrderInvariant, PTL DEF Spec

(* An ordered sequence holds as many events as it is long. *)
LEMMA OrderedCount ==
    ASSUME NEW q \in Seq(Event), Ordered(q)
    PROVE  IsFiniteSet(Items(q)) /\ Cardinality(Items(q)) = Len(q)
<1>1. Len(q) \in Nat /\ DOMAIN q = 1..Len(q)
  OBVIOUS
<1>2. q \in [1..Len(q) -> Items(q)]
  BY <1>1 DEF Items
<1>3. ASSUME NEW i \in 1..Len(q), NEW j \in 1..Len(q), q[i] = q[j] PROVE i = j
  <2>1. q[i].seq \in Nat
    BY EventFields
  <2>2. ~(i < j) /\ ~(j < i)
    BY <1>1, <1>3, <2>1 DEF Ordered
  <2> QED BY <2>2
<1>4. \A e \in Items(q) : \E i \in 1..Len(q) : q[i] = e
  BY <1>1 DEF Items
<1>5. q \in Bijection(1..Len(q), Items(q))
  BY <1>2, <1>3, <1>4 DEF Bijection, Injection, IsInjective, Surjection
<1>6. ExistsBijection(1..Len(q), Items(q))
  BY <1>5 DEF ExistsBijection
<1> QED BY <1>1, <1>6, FS_CountingElements, FS_NatBijection

(* Disjoint finite sets count apart. *)
LEMMA DisjointCount ==
    ASSUME NEW S, NEW T, IsFiniteSet(S), IsFiniteSet(T), S \cap T = {}
    PROVE  /\ IsFiniteSet(S \cup T)
           /\ Cardinality(S \cup T) = Cardinality(S) + Cardinality(T)
<1>1. Cardinality(S) \in Nat /\ Cardinality(T) \in Nat
  BY FS_CardinalityType
<1>3. Cardinality(S \cap T) = 0
  BY FS_EmptySet
<1>2. /\ IsFiniteSet(S \cup T)
      /\ Cardinality(S \cup T) = Cardinality(S) + Cardinality(T) - Cardinality(S \cap T)
  BY FS_Union
<1> QED BY <1>1, <1>2, <1>3

(* What Subscribe promises, for every number of listeners and publishers and *)
(* every policy: each event appended during a registration is in exactly one *)
(* place, and none of the snapshot is among them.                            *)
THEOREM EveryEventAccounted == Spec => []AccountedOnce
<1>1. TypeOK /\ HoldsEvent /\ OrderInv /\ AccountInv => AccountedOnce
  <2> SUFFICES ASSUME TypeOK, HoldsEvent, OrderInv, AccountInv,
                      NEW s \in Subscribers, sub[s] # "new"
               PROVE  /\ Due(s) = Items(got[s]) \cup Items(ch[s]) \cup Pending(s)
                                    \cup failed[s] \cup evicted[s]
                      /\ Cardinality(Due(s)) =
                            Len(got[s]) + Len(ch[s]) + Cardinality(Pending(s))
                              + Cardinality(failed[s]) + Cardinality(evicted[s])
                      /\ Items(snap[s]) \cap Due(s) = {}
    BY DEF AccountedOnce
  <2>0. /\ log \in Seq(Event) /\ Len(log) \in Nat /\ DOMAIN log = 1..Len(log) /\ Ordered(log)
        /\ got[s] \in Seq(Event) /\ ch[s] \in Seq(Event) /\ joined[s] \in Nat /\ left[s] \in Int
        /\ joined[s] <= Len(log) /\ Ordered(got[s]) /\ Ordered(ch[s])
        /\ Items(snap[s]) \subseteq Before(s)
    BY DEF TypeOK, OrderInv, LogOrdered, ReaderInv
  <2>1. Until(s) \in joined[s]..Len(log)
    BY <2>0 DEF AccountInv, Registered, Until
  <2>2. Due(s) = Window(s)
    <3> DEFINE a == joined[s] + 1
               b == Until(s)
    <3>1. a \in Nat /\ b \in Nat /\ \A i \in a..b : i \in DOMAIN log
      BY <2>0, <2>1
    <3>2. Due(s) = Items(SubSeq(log, a, b)) /\ Window(s) = {log[i] : i \in a..b}
      BY DEF Due, Window, Until
    <3> HIDE DEF a, b
    <3>3. SubSeq(log, a, b) = [i \in 1..(1 + b - a) |-> log[i + a - 1]]
      BY <3>1
    <3>4. \A i \in 1..(1 + b - a) : i + a - 1 \in a..b
      BY <3>1
    <3>5. \A k \in a..b : k - a + 1 \in 1..(1 + b - a) /\ (k - a + 1) + a - 1 = k
      BY <3>1
    <3>6. Items(SubSeq(log, a, b)) = {log[i + a - 1] : i \in 1..(1 + b - a)}
      BY <3>3 DEF Items
    <3>7. {log[i + a - 1] : i \in 1..(1 + b - a)} \subseteq {log[i] : i \in a..b}
      BY <3>4
    <3>8. {log[i] : i \in a..b} \subseteq {log[i + a - 1] : i \in 1..(1 + b - a)}
      <4> SUFFICES ASSUME NEW k \in a..b
                   PROVE  log[k] \in {log[i + a - 1] : i \in 1..(1 + b - a)}
        OBVIOUS
      <4> DEFINE i == k - a + 1
      <4>1. i \in 1..(1 + b - a) /\ i + a - 1 = k
        BY <3>5
      <4> HIDE DEF i
      <4> QED BY <4>1
    <3> QED BY <3>2, <3>6, <3>7, <3>8
  <2>3. /\ Due(s) = Items(got[s]) \cup Items(ch[s]) \cup Pending(s) \cup failed[s] \cup evicted[s]
        /\ failed[s] \cap (Items(got[s]) \cup Items(ch[s]) \cup Pending(s)) = {}
        /\ evicted[s] \cap (Items(got[s]) \cup Items(ch[s]) \cup Pending(s) \cup failed[s]) = {}
    BY <2>2 DEF AccountInv, Accounted, OnTheWay, Seen
  <2>4. /\ Items(got[s]) \cap Items(ch[s]) = {}
        /\ Pending(s) \cap (Items(got[s]) \cup Items(ch[s])) = {}
    BY PendingUnseen DEF Seen
  <2>5. Due(s) \subseteq Items(log)
    <3>1. \A i \in (joined[s] + 1)..Until(s) : i \in DOMAIN log
      BY <2>0, <2>1
    <3> QED BY <2>2, <3>1 DEF Window, Items
  <2>6. /\ IsFiniteSet(Items(got[s])) /\ Cardinality(Items(got[s])) = Len(got[s])
        /\ IsFiniteSet(Items(ch[s])) /\ Cardinality(Items(ch[s])) = Len(ch[s])
        /\ IsFiniteSet(Items(log))
    BY <2>0, OrderedCount
  <2>7. IsFiniteSet(Pending(s)) /\ IsFiniteSet(failed[s]) /\ IsFiniteSet(evicted[s])
    <3>1. Pending(s) \subseteq Items(log) /\ failed[s] \subseteq Items(log) /\ evicted[s] \subseteq Items(log)
      BY <2>3, <2>5
    <3> QED BY <2>6, <3>1, FS_Subset
  <2> DEFINE A == Items(got[s]) \cup Items(ch[s])
             B == A \cup Pending(s)
             C == B \cup failed[s]
  <2>8. IsFiniteSet(A) /\ Cardinality(A) = Len(got[s]) + Len(ch[s])
    <3> DEFINE G == Items(got[s])
               H == Items(ch[s])
    <3>1. IsFiniteSet(G) /\ IsFiniteSet(H) /\ G \cap H = {}
      BY <2>4, <2>6
    <3>2. Cardinality(G) = Len(got[s]) /\ Cardinality(H) = Len(ch[s]) /\ A = G \cup H
      BY <2>6
    <3> HIDE DEF G, H, A
    <3>3. IsFiniteSet(G \cup H) /\ Cardinality(G \cup H) = Cardinality(G) + Cardinality(H)
      BY <3>1, DisjointCount
    <3> QED BY <3>2, <3>3
  <2>9. IsFiniteSet(B) /\ Cardinality(B) = Cardinality(A) + Cardinality(Pending(s))
    <3> HIDE DEF A
    <3>1. A \cap Pending(s) = {}
      BY <2>4 DEF A
    <3> QED BY <2>7, <2>8, <3>1, DisjointCount
  <2>10. IsFiniteSet(C) /\ Cardinality(C) = Cardinality(B) + Cardinality(failed[s])
    <3> HIDE DEF B
    <3>1. B \cap failed[s] = {}
      BY <2>3 DEF A, B
    <3> QED BY <2>7, <2>9, <3>1, DisjointCount
  <2>11. Cardinality(Due(s)) = Cardinality(C) + Cardinality(evicted[s])
    <3> HIDE DEF C
    <3>1. C \cap evicted[s] = {} /\ Due(s) = C \cup evicted[s]
      BY <2>3 DEF A, B, C
    <3> QED BY <2>7, <2>10, <3>1, DisjointCount
  <2>12. Items(snap[s]) \cap Due(s) = {}
    <3> SUFFICES ASSUME NEW e \in Items(snap[s]), e \in Due(s) PROVE FALSE
      OBVIOUS
    <3>1. PICK i \in DOMAIN log : i <= joined[s] /\ log[i] = e
      BY <2>0 DEF Before
    <3>2. PICK j \in (joined[s] + 1)..Until(s) : log[j] = e
      BY <2>2 DEF Window
    <3>3. j \in DOMAIN log /\ i < j
      BY <2>0, <2>1, <3>1, <3>2
    <3>4. e.seq \in Nat
      BY <2>0, <3>1, EventFields
    <3> QED BY <2>0, <3>1, <3>2, <3>3, <3>4 DEF Ordered
  <2> HIDE DEF A, B, C
  <2> QED BY <2>3, <2>8, <2>9, <2>10, <2>11, <2>12
<1> QED BY <1>1, TypeCorrect, OrderInvariant, AccountInvariant, PTL

-----------------------------------------------------------------------------
(* The program around a session: LiveStreams, which extends StreamSession.  *)

(* The batches among the messages m, one after the other, are g from t to   *)
(* f: cut[i] is where message i begins.                                     *)
Cuts(cut, m, t, f, g) ==
    /\ cut[1] = t /\ cut[Len(m) + 1] = f
    /\ \A i \in 1..Len(m) :
          /\ cut[i] <= cut[i + 1]
          /\ m[i].type = "events" => m[i].events = SubSeq(g, cut[i] + 1, cut[i + 1])
          /\ m[i].type # "events" => cut[i + 1] = cut[i]
Chain(m, t, f, g) == \E cut \in [1..(Len(m) + 1) -> 0..f] : Cuts(cut, m, t, f, g)

Outcome == [state : States, err : Errs]
Msg == [type : {"attach", "complete"}]
          \cup [type : {"events"}, events : Seq(Event)]
          \cup [type : {"state"}, at : Outcome]
LiveSession == [events : Seq(Event \cup {NoEvent}), state : States, err : Errs,
                bound : BOOLEAN, done : BOOLEAN]

(* The types LiveTypeOK leaves open. *)
LiveData ==
    /\ msgs \in Seq(Msg) /\ live \in LiveSession /\ rdState \in Outcome
    /\ taken \in Nat /\ attached \in {"no", "first", "late"}

(* Which of the response and the attachment came first, and who holds the   *)
(* transcript since.                                                        *)
RouteInv ==
    /\ eng # "end" /\ gen = 0 => shown = "none"
    /\ attached = "no" => ~tracked /\ shown # "holds" /\ (eng = "end" /\ gen = 0 => shown = "named")
    /\ gen > 0 => ~tracked
    /\ attached # "no" /\ gen = 0 =>
          /\ tracked => ~(live.bound /\ live.done)
          /\ ~tracked => live.bound /\ live.done
          /\ live.bound <=> shown = "holds"
          /\ eng = "end" => shown = "holds"
          /\ attached = "first" => /\ eng = "end" => ~pane
                                   /\ eng \notin {"end", "dropped"} => pane

(* Where a message may stand in the channel, by the step its sender is at. *)
InPlace(i) ==
    /\ msgs[i].type = "attach" => rd = "off"
    /\ msgs[i].type = "events" => rd # "off"
    /\ msgs[i].type = "state" => \/ rd = "complete" /\ i = Len(msgs)
                                 \/ rd = "cancel" /\ i + 1 = Len(msgs)
    /\ msgs[i].type = "complete" => rd = "cancel" /\ i = Len(msgs)

StageInv ==
    /\ policy = "DropNewest"
    /\ eng = "open" => msgs = <<>> /\ rd = "off"
    /\ rd = "off" <=> attached = "no"
    /\ rd = "off" => /\ got[Reader] = <<>> /\ flushed = 0 /\ taken = 0
                     /\ Len(msgs) <= 1
    /\ rd = "off" <=> sub[Reader] = "new"
    /\ rd \notin {"off", "cancel"} => sub[Reader] = "reading"
    /\ rd \notin {"off", "run"} => ended /\ flushed = Len(got[Reader])
    /\ \A i \in 1..Len(msgs) : InPlace(i)

(* A reading of the outcome that is final. *)
Right(o) == o.err = err /\ (o.state = "Failed" => err # NoErr)

OutcomeInv ==
    /\ live.state = "Failed" => ended /\ err # NoErr
    /\ rd \in {"sendstate", "complete", "cancel"} => Right(rdState)
    /\ \A i \in 1..Len(msgs) : msgs[i].type = "state" => Right(msgs[i].at)
    /\ tracked /\ rd \in {"complete", "cancel"}
          /\ (\A i \in 1..Len(msgs) : msgs[i].type # "state") => live.err = err
    /\ tracked /\ live.done => rd = "cancel" /\ msgs = <<>>

(* What was handed over is a beginning of what was received, and the        *)
(* messages on their way continue it without a gap.                         *)
HandedInv ==
    /\ Chain(msgs, taken, flushed, got[Reader])
    /\ tracked => live.events = LastN(snap[Reader] \o SubSeq(got[Reader], 1, taken), MaxLive)

LiveInv == LiveTypeOK /\ LiveData /\ RouteInv /\ StageInv /\ OutcomeInv /\ HandedInv

(* Failure and the error go together, and only an end decides them. *)
FailedInv ==
    /\ ~ended => err = NoErr /\ state # "Failed"
    /\ state = "Failed" => err # NoErr
ClosedInv ==
    policy # "DropListener" =>
        \A s \in Subscribers : closed[s] => ended \/ sub[s] = "gone"

-----------------------------------------------------------------------------
(* Parts of sequences. *)

(* An append changes no part that ends before it. *)
LEMMA SubSeqAppendKeeps ==
    ASSUME NEW S, NEW g \in Seq(S), NEW e \in S, NEW a \in Nat \ {0}, NEW b \in 0..Len(g)
    PROVE  SubSeq(Append(g, e), a, b) = SubSeq(g, a, b)
<1> DEFINE h == Append(g, e)
<1>1. \A i \in 1..Len(g) : h[i] = g[i]
  OBVIOUS
<1> HIDE DEF h
<1>2. /\ SubSeq(h, a, b) = [i \in 1..(1 + b - a) |-> h[i + a - 1]]
      /\ SubSeq(g, a, b) = [i \in 1..(1 + b - a) |-> g[i + a - 1]]
  OBVIOUS
<1>3. \A i \in 1..(1 + b - a) : i + a - 1 \in 1..Len(g)
  OBVIOUS
<1>4. \A i \in 1..(1 + b - a) : h[i + a - 1] = g[i + a - 1]
  BY <1>1, <1>3
<1>5. SubSeq(h, a, b) = SubSeq(g, a, b)
  BY <1>2, <1>4
<1> QED BY <1>5 DEF h

(* What LastN keeps. *)
LEMMA LastNAt ==
    ASSUME NEW S, NEW s \in Seq(S), NEW n \in Nat
    PROVE  /\ LastN(s, n) \in Seq(S)
           /\ Len(LastN(s, n)) = MinOf(n, Len(s))
           /\ \A i \in 1..MinOf(n, Len(s)) : LastN(s, n)[i] = s[i + Len(s) - MinOf(n, Len(s))]
<1> DEFINE k == MinOf(n, Len(s))
<1>1. k \in 0..Len(s) /\ Len(s) \in Nat
  BY DEF MinOf
<1> HIDE DEF k
<1>2. \A i \in (Len(s) - k + 1)..Len(s) : s[i] \in S
  BY <1>1
<1>3. Len(s) - k + 1 \in Int /\ Len(s) \in Int
  BY <1>1
<1>4. /\ SubSeq(s, Len(s) - k + 1, Len(s)) \in Seq(S)
      /\ Len(SubSeq(s, Len(s) - k + 1, Len(s)))
           = IF Len(s) - k + 1 <= Len(s) THEN Len(s) - (Len(s) - k + 1) + 1 ELSE 0
      /\ \A i \in 1..(Len(s) - (Len(s) - k + 1) + 1) :
            SubSeq(s, Len(s) - k + 1, Len(s))[i] = s[(Len(s) - k + 1) + i - 1]
  BY <1>2, <1>3, SubSeqProperties
<1>5. /\ (IF Len(s) - k + 1 <= Len(s) THEN Len(s) - (Len(s) - k + 1) + 1 ELSE 0) = k
      /\ Len(s) - (Len(s) - k + 1) + 1 = k
      /\ \A i \in 1..k : (Len(s) - k + 1) + i - 1 = i + Len(s) - k
  BY <1>1
<1> QED BY <1>4, <1>5 DEF LastN, k

(* Two sequences with the same elements are the same. *)
LEMMA SameSeq ==
    ASSUME NEW S, NEW a \in Seq(S), NEW b \in Seq(S), Len(a) = Len(b),
           \A i \in 1..Len(a) : a[i] = b[i]
    PROVE  a = b
OBVIOUS

(* Keeping the last n as they come keeps the last n of all. *)
LEMMA LastNConcat ==
    ASSUME NEW S, NEW s \in Seq(S), NEW b \in Seq(S), NEW n \in Nat
    PROVE  LastN(LastN(s, n) \o b, n) = LastN(s \o b, n)
<1> DEFINE k == MinOf(n, Len(s))
           l == LastN(s, n)
           x == l \o b
           y == s \o b
<1>1. /\ l \in Seq(S) /\ Len(l) = k /\ \A i \in 1..k : l[i] = s[i + Len(s) - k]
  BY LastNAt
<1>2. /\ x \in Seq(S) /\ Len(x) = k + Len(b)
      /\ \A i \in 1..(k + Len(b)) : x[i] = IF i <= k THEN l[i] ELSE b[i - k]
  BY <1>1, ConcatProperties
<1>3. /\ y \in Seq(S) /\ Len(y) = Len(s) + Len(b)
      /\ \A i \in 1..(Len(s) + Len(b)) : y[i] = IF i <= Len(s) THEN s[i] ELSE b[i - Len(s)]
  BY ConcatProperties
<1>4. k \in Nat /\ k <= Len(s) /\ k <= n /\ (k = n \/ k = Len(s)) /\ Len(s) \in Nat /\ Len(b) \in Nat
  BY DEF MinOf
<1> HIDE DEF k, l, x, y
<1> DEFINE j == MinOf(n, k + Len(b))
<1>5. j = MinOf(n, Len(s) + Len(b)) /\ j \in Nat /\ j <= k + Len(b) /\ j <= Len(s) + Len(b)
  BY <1>4 DEF MinOf
<1> HIDE DEF j
<1>6. /\ LastN(x, n) \in Seq(S) /\ Len(LastN(x, n)) = j
      /\ \A i \in 1..j : LastN(x, n)[i] = x[i + (k + Len(b)) - j]
  <2>1. /\ LastN(x, n) \in Seq(S) /\ Len(LastN(x, n)) = MinOf(n, Len(x))
        /\ \A i \in 1..MinOf(n, Len(x)) : LastN(x, n)[i] = x[i + Len(x) - MinOf(n, Len(x))]
    BY <1>2, LastNAt
  <2>2. MinOf(n, Len(x)) = j /\ Len(x) = k + Len(b)
    BY <1>2 DEF j
  <2> QED BY <2>1, <2>2
<1>7. /\ LastN(y, n) \in Seq(S) /\ Len(LastN(y, n)) = j
      /\ \A i \in 1..j : LastN(y, n)[i] = y[i + (Len(s) + Len(b)) - j]
  <2>1. /\ LastN(y, n) \in Seq(S) /\ Len(LastN(y, n)) = MinOf(n, Len(y))
        /\ \A i \in 1..MinOf(n, Len(y)) : LastN(y, n)[i] = y[i + Len(y) - MinOf(n, Len(y))]
    BY <1>3, LastNAt
  <2>2. MinOf(n, Len(y)) = j /\ Len(y) = Len(s) + Len(b)
    BY <1>3, <1>5
  <2> QED BY <2>1, <2>2
<1>8. ASSUME NEW i \in 1..j
      PROVE  x[i + (k + Len(b)) - j] = y[i + (Len(s) + Len(b)) - j]
  <2> DEFINE p == i + (k + Len(b)) - j
             q == i + (Len(s) + Len(b)) - j
  <2>1. p \in 1..(k + Len(b)) /\ q \in 1..(Len(s) + Len(b)) /\ q = p + Len(s) - k
    BY <1>4, <1>5
  <2> HIDE DEF p, q
  <2>2. CASE p <= k
    <3>1. p \in 1..k /\ q <= Len(s)
      BY <1>4, <2>1, <2>2
    <3>2. x[p] = l[p] /\ l[p] = s[p + Len(s) - k] /\ y[q] = s[q]
      BY <1>1, <1>2, <1>3, <2>1, <2>2, <3>1
    <3> QED BY <2>1, <3>2 DEF p, q
  <2>3. CASE ~(p <= k)
    <3>1. ~(q <= Len(s)) /\ p - k = q - Len(s)
      BY <1>4, <2>1, <2>3
    <3>2. x[p] = b[p - k] /\ y[q] = b[q - Len(s)]
      BY <1>2, <1>3, <2>1, <2>3, <3>1
    <3> QED BY <3>1, <3>2 DEF p, q
  <2> QED BY <2>2, <2>3
<1>9. LastN(x, n) = LastN(y, n)
  BY <1>6, <1>7, <1>8, SameSeq
<1> QED BY <1>9 DEF x, y, l

(* What is handed over next continues what was handed over before. *)
LEMMA HandsOver ==
    ASSUME NEW S, NEW s \in Seq(S), NEW g \in Seq(S), NEW n \in Nat,
           NEW t \in Nat, NEW t2 \in 0..Len(g), t <= t2
    PROVE  LastN(LastN(s \o SubSeq(g, 1, t), n) \o SubSeq(g, t + 1, t2), n)
             = LastN(s \o SubSeq(g, 1, t2), n)
<1>1. t \in 0..Len(g) /\ t \in Int /\ t2 \in Int /\ 1 \in Int /\ t + 1 \in Int
  OBVIOUS
<1>2. SubSeq(g, 1, t) \in Seq(S) /\ SubSeq(g, t + 1, t2) \in Seq(S)
  <2>1. (\A i \in 1..t : g[i] \in S) /\ (\A i \in (t + 1)..t2 : g[i] \in S)
    OBVIOUS
  <2> QED BY <1>1, <2>1, SubSeqProperties
<1>3. SubSeq(g, 1, t) \o SubSeq(g, t + 1, t2) = SubSeq(g, 1, t2)
  BY ConcatAdjacentSubSeq
<1> DEFINE a == SubSeq(g, 1, t)
           b == SubSeq(g, t + 1, t2)
           c == SubSeq(g, 1, t2)
<1> HIDE DEF a, b, c
<1>4. a \in Seq(S) /\ b \in Seq(S)
  BY <1>2 DEF a, b
<1>5. (s \o a) \o b = s \o c
  <2>1. (s \o a) \o b = s \o (a \o b)
    BY <1>4, ConcatAssociative
  <2>2. a \o b = c
    BY <1>3 DEF a, b, c
  <2> QED BY <2>1, <2>2
<1>6. s \o a \in Seq(S)
  BY <1>4, ConcatProperties
<1>7. LastN(LastN(s \o a, n) \o b, n) = LastN((s \o a) \o b, n)
  BY <1>4, <1>6, LastNConcat
<1> QED BY <1>5, <1>7 DEF a, b, c

-----------------------------------------------------------------------------
(* Inside the program a session does nothing but what StreamSession says:   *)
(* the engine, the reader and the update loop only call it.  All that is    *)
(* proved of the session holds of the sessions on screen.                   *)
THEOREM LiveRunsSession == LiveSpec => Spec
<1>1. LiveInit => Init
  BY DEF LiveInit
<1>2. [LiveNext]_allvars => [Next]_vars
  <2> SUFFICES ASSUME [LiveNext]_allvars PROVE [Next]_vars
    OBVIOUS
  <2>1. CASE UNCHANGED allvars
    BY <2>1 DEF allvars
  <2>2. CASE \/ Stream(MarkOpen) \/ Stream(MarkClosing)
             \/ \E p \in Publishers : Stream(PublishStep(p))
             \/ \E c \in Closers : Stream(CloseStep(c))
    BY <2>2 DEF Stream, Next
  <2>3. CASE Program(WatchDone) \/ EngineStep
    BY <2>3 DEF Program, EngineStep
  <2>4. CASE ReaderStep
    BY <2>4, LiveAssumption DEF ReaderStep, ReaderRecv, ReaderCancel, Program, Next
  <2>5. CASE UpdateStep
    BY <2>5, LiveAssumption
       DEF UpdateStep, HandleStaleAttach, HandleAttach, HandleEvents, HandleState,
           HandleComplete, Next
  <2>6. CASE HandleResponse \/ HandleUnbound \/ CommitMove
    BY <2>6 DEF HandleResponse, HandleUnbound, CommitMove
  <2> QED BY <2>1, <2>2, <2>3, <2>4, <2>5, <2>6 DEF LiveNext
<1> QED BY <1>1, <1>2, PTL DEF LiveSpec, Spec

(* What publishers, closers and the producer's marks leave alone: what a    *)
(* reader has been shown, where it is, the policy and an outcome once it is *)
(* decided.                                                                 *)
Aside ==
    \/ MarkOpen \/ MarkClosing
    \/ \E p \in Publishers : PublishStep(p)
    \/ \E c \in Closers : CloseStep(c)

LEMMA AsideLeaves ==
    ASSUME TypeOK, Aside
    PROVE  /\ UNCHANGED <<got, snap, sub, policy>>
           /\ ended => ended' /\ err' = err
<1> USE DEF session, listener, threads, history, pub, clo
<1>1. CASE MarkOpen \/ MarkClosing
  BY <1>1 DEF MarkOpen, MarkClosing
<1>2. ASSUME NEW p \in Publishers, PublishStep(p)
      PROVE  UNCHANGED <<got, snap, sub, policy, ended, err>>
  BY <1>2 DEF PublishStep, Emit, PublishStart, PublishAppend, EmitToClosed, EmitSend,
     EmitFull, EmitFails, EmitFullDropOldest, EmitDiscard, EmitResend, PublishFinish
<1>3. ASSUME NEW c \in Closers, CloseStep(c)
      PROVE  UNCHANGED <<got, snap, sub, policy>> /\ (ended => ended' /\ err' = err)
  BY <1>3 DEF CloseStep, CloseDetach, CloseListener, CloseDone, TypeOK
<1> QED BY <1>1, <1>2, <1>3 DEF Aside

(* A session is failed exactly when Close was given an error. *)
LEMMA FailedInvariant == Spec => []FailedInv
<1>1. Init => FailedInv
  BY DEF Init, FailedInv
<1>2. TypeOK /\ FailedInv /\ [Next]_vars => FailedInv'
  <2> SUFFICES ASSUME TypeOK, FailedInv, [Next]_vars PROVE FailedInv'
    OBVIOUS
  <2> USE DEF session, listener, threads, history, pub, clo
  <2>1. CASE UNCHANGED <<state, err, ended>>
    BY <2>1 DEF FailedInv
  <2>2. CASE MarkOpen \/ MarkClosing
    BY <2>2 DEF MarkOpen, MarkClosing, FailedInv
  <2>3. ASSUME NEW c \in Closers, NEW e \in Errs, CloseDetach(c, e) PROVE FailedInv'
    BY <2>3 DEF CloseDetach, FailedInv, TypeOK
  <2>4. ASSUME NEW c \in Closers, CloseStep(c), ~\E e \in Errs : CloseDetach(c, e)
        PROVE  UNCHANGED <<state, err, ended>>
    BY <2>4 DEF CloseStep, CloseListener, CloseDone
  <2>5. ASSUME NEW p \in Publishers, PublishStep(p) PROVE UNCHANGED <<state, err, ended>>
    BY <2>5 DEF PublishStep, Emit, PublishStart, PublishAppend, EmitToClosed, EmitSend,
       EmitFull, EmitFails, EmitFullDropOldest, EmitDiscard, EmitResend, PublishFinish
  <2>6. ASSUME NEW s \in Subscribers,
               Subscribe(s) \/ Recv(s) \/ CancelRemove(s) \/ CancelClose(s)
        PROVE  UNCHANGED <<state, err, ended>>
    BY <2>6 DEF Subscribe, Recv, CancelRemove, CancelClose
  <2>7. UNCHANGED vars => UNCHANGED <<state, err, ended>>
    BY DEF vars
  <2> QED BY <2>1, <2>2, <2>3, <2>4, <2>5, <2>6, <2>7 DEF Next
<1> QED BY <1>1, <1>2, TypeCorrect, PTL DEF Spec

(* Without DropListener a channel is closed by an end of the session or by  *)
(* its own reader.                                                          *)
LEMMA ClosedInvariant == Spec => []ClosedInv
<1>1. Init => ClosedInv
  BY DEF Init, ClosedInv
<1>2. TypeOK /\ EndedInv /\ ClosedInv /\ [Next]_vars => ClosedInv'
  <2> SUFFICES ASSUME TypeOK, EndedInv, ClosedInv, [Next]_vars PROVE ClosedInv'
    OBVIOUS
  <2> USE DEF session, listener, threads, history, pub, clo
  <2>1. CASE UNCHANGED <<closed, ended, sub, policy>>
    BY <2>1 DEF ClosedInv
  <2>2. CASE MarkOpen \/ MarkClosing
    BY <2>1, <2>2 DEF MarkOpen, MarkClosing
  <2>3. ASSUME NEW p \in Publishers, NEW s \in Subscribers, EmitFull(p, s)
        PROVE  ClosedInv'
    BY <2>3 DEF EmitFull, EmitFails, ClosedInv, TypeOK
  <2>4. ASSUME NEW p \in Publishers, PublishStep(p),
               ~\E s \in Subscribers : EmitFull(p, s)
        PROVE  UNCHANGED <<closed, ended, sub, policy>>
    BY <2>4 DEF PublishStep, Emit, PublishStart, PublishAppend, EmitToClosed, EmitSend,
       EmitFails, EmitFullDropOldest, EmitDiscard, EmitResend, PublishFinish
  <2>5. ASSUME NEW c \in Closers, NEW e \in Errs, CloseDetach(c, e) PROVE ClosedInv'
    BY <2>5 DEF CloseDetach, ClosedInv, TypeOK
  <2>6. ASSUME NEW c \in Closers, NEW s \in Subscribers, CloseListener(c, s)
        PROVE  ClosedInv'
    BY <2>6 DEF CloseListener, ClosedInv, EndedInv, TypeOK
  <2>7. ASSUME NEW c \in Closers, CloseDone(c) PROVE UNCHANGED <<closed, ended, sub, policy>>
    BY <2>7 DEF CloseDone
  <2>8. ASSUME NEW s \in Subscribers, Subscribe(s) PROVE ClosedInv'
    BY <2>8 DEF Subscribe, ClosedInv, TypeOK
  <2>9. ASSUME NEW s \in Subscribers, Recv(s) PROVE UNCHANGED <<closed, ended, sub, policy>>
    BY <2>9 DEF Recv
  <2>10. ASSUME NEW s \in Subscribers, CancelRemove(s) PROVE ClosedInv'
    BY <2>10 DEF CancelRemove, ClosedInv, TypeOK
  <2>11. ASSUME NEW s \in Subscribers, CancelClose(s) PROVE ClosedInv'
    BY <2>11 DEF CancelClose, ClosedInv, TypeOK
  <2>12. UNCHANGED vars => UNCHANGED <<closed, ended, sub, policy>>
    BY DEF vars
  <2> QED BY <2>1, <2>2, <2>3, <2>4, <2>5, <2>6, <2>7, <2>8, <2>9, <2>10, <2>11, <2>12
          DEF Next, CloseStep
<1> QED BY <1>1, <1>2, TypeCorrect, EndedInvariant, PTL DEF Spec

-----------------------------------------------------------------------------
(* The channel of messages as a chain of cuts through what was received. *)

LEMMA ChainEmpty ==
    ASSUME NEW g, NEW f \in Nat
    PROVE  Chain(<<>>, f, f, g)
<1> DEFINE c == [i \in 1..1 |-> f]
<1>1. Len(<<>>) = 0 /\ 0 + 1 = 1 /\ 1 \in 1..1
  OBVIOUS
<1>2. c \in [1..1 -> 0..f] /\ c[1] = f
  BY <1>1
<1> HIDE DEF c
<1>3. Cuts(c, <<>>, f, f, g)
  BY <1>1, <1>2 DEF Cuts
<1> QED BY <1>1, <1>2, <1>3 DEF Chain

LEMMA ChainEnds ==
    ASSUME NEW g, NEW f \in Nat, NEW t, Chain(<<>>, t, f, g)
    PROVE  t = f
<1>1. Len(<<>>) + 1 = 1
  OBVIOUS
<1> QED BY <1>1 DEF Chain, Cuts

LEMMA ChainBound ==
    ASSUME NEW M, NEW m \in Seq(M), NEW t, NEW f \in Nat, NEW g, Chain(m, t, f, g)
    PROVE  t \in 0..f
<1>1. 1 \in 1..(Len(m) + 1)
  OBVIOUS
<1> QED BY <1>1 DEF Chain, Cuts

(* A message sent lengthens the chain at its end: a batch by what was not   *)
(* yet sent, every other message by nothing.                                *)
LEMMA ChainAppend ==
    ASSUME NEW M, NEW m \in Seq(M), NEW x \in M, NEW t, NEW f \in Nat, NEW f2 \in Nat,
           NEW g, Chain(m, t, f, g), f <= f2,
           x.type = "events" => x.events = SubSeq(g, f + 1, f2),
           x.type # "events" => f2 = f
    PROVE  Chain(Append(m, x), t, f2, g)
<1> DEFINE n == Len(m)
           a == Append(m, x)
<1>1. /\ n \in Nat /\ Len(a) = n + 1 /\ a[n + 1] = x
      /\ \A i \in 1..n : a[i] = m[i]
  OBVIOUS
<1>2. PICK cut \in [1..(n + 1) -> 0..f] :
        /\ cut[1] = t /\ cut[n + 1] = f
        /\ \A i \in 1..n :
              /\ cut[i] <= cut[i + 1]
              /\ m[i].type = "events" => m[i].events = SubSeq(g, cut[i] + 1, cut[i + 1])
              /\ m[i].type # "events" => cut[i + 1] = cut[i]
  BY DEF Chain, Cuts
<1> HIDE DEF n, a
<1> DEFINE c == [i \in 1..(n + 2) |-> IF i <= n + 1 THEN cut[i] ELSE f2]
<1>3. c \in [1..(n + 2) -> 0..f2]
  <2> SUFFICES ASSUME NEW i \in 1..(n + 2) PROVE (IF i <= n + 1 THEN cut[i] ELSE f2) \in 0..f2
    OBVIOUS
  <2>1. i <= n + 1 => i \in 1..(n + 1)
    BY <1>1
  <2>2. i <= n + 1 => cut[i] \in 0..f
    BY <2>1
  <2> QED BY <2>2
<1>4. /\ \A i \in 1..(n + 1) : i \in 1..(n + 2) /\ i <= n + 1
      /\ n + 2 \in 1..(n + 2) /\ ~(n + 2 <= n + 1) /\ 1 \in 1..(n + 1)
      /\ n + 1 \in 1..(n + 1) /\ (n + 1) + 1 = n + 2
      /\ \A i \in 1..n : i \in 1..(n + 1) /\ i + 1 \in 1..(n + 1)
      /\ \A i \in 1..(n + 1) : i \in 1..n \/ i = n + 1
  BY <1>1
<1>5. /\ \A i \in 1..(n + 1) : c[i] = cut[i]
      /\ c[n + 2] = f2
  BY <1>4
<1> HIDE DEF c
<1>6. ASSUME NEW i \in 1..(n + 1)
      PROVE  /\ c[i] <= c[i + 1]
             /\ a[i].type = "events" => a[i].events = SubSeq(g, c[i] + 1, c[i + 1])
             /\ a[i].type # "events" => c[i + 1] = c[i]
  <2>1. CASE i \in 1..n
    <3>1. a[i] = m[i] /\ c[i] = cut[i] /\ c[i + 1] = cut[i + 1]
      BY <1>1, <1>4, <1>5, <2>1
    <3> QED BY <1>2, <2>1, <3>1
  <2>2. CASE i = n + 1
    <3>1. a[i] = x /\ c[i] = f /\ c[i + 1] = f2
      BY <1>1, <1>2, <1>4, <1>5, <2>2
    <3> QED BY <3>1
  <2> QED BY <1>4, <2>1, <2>2
<1>7. c[1] = t /\ c[n + 2] = f2
  BY <1>2, <1>4, <1>5
<1>8. Len(a) + 1 = n + 2
  BY <1>1
<1>9. Cuts(c, a, t, f2, g)
  BY <1>1, <1>6, <1>7, <1>8 DEF Cuts
<1> QED BY <1>3, <1>8, <1>9 DEF Chain, a

(* A message taken shortens it at its beginning. *)
LEMMA ChainTail ==
    ASSUME NEW M, NEW m \in Seq(M), m # <<>>, NEW t, NEW f \in Nat, NEW g,
           Chain(m, t, f, g)
    PROVE  \E t2 \in 0..f :
              /\ t <= t2
              /\ Chain(Tail(m), t2, f, g)
              /\ Head(m).type = "events" => Head(m).events = SubSeq(g, t + 1, t2)
              /\ Head(m).type # "events" => t2 = t
<1> DEFINE n == Len(m)
           r == Tail(m)
<1>1. /\ n \in Nat /\ n >= 1 /\ Len(r) = n - 1 /\ Head(m) = m[1]
      /\ \A i \in 1..(n - 1) : r[i] = m[i + 1]
  OBVIOUS
<1>2. PICK cut \in [1..(n + 1) -> 0..f] :
        /\ cut[1] = t /\ cut[n + 1] = f
        /\ \A i \in 1..n :
              /\ cut[i] <= cut[i + 1]
              /\ m[i].type = "events" => m[i].events = SubSeq(g, cut[i] + 1, cut[i + 1])
              /\ m[i].type # "events" => cut[i + 1] = cut[i]
  BY DEF Chain, Cuts
<1> HIDE DEF n, r
<1> DEFINE c == [i \in 1..n |-> cut[i + 1]]
<1>3. /\ \A i \in 1..n : i + 1 \in 1..(n + 1)
      /\ 1 \in 1..n /\ n \in 1..n /\ 1 + 1 = 2
      /\ \A i \in 1..(n - 1) : i \in 1..n /\ i + 1 \in 1..n
      /\ (n - 1) + 1 = n
  BY <1>1
<1>4. c \in [1..n -> 0..f]
  BY <1>3
<1>5. \A i \in 1..n : c[i] = cut[i + 1]
  OBVIOUS
<1> HIDE DEF c
<1>6. ASSUME NEW i \in 1..(n - 1)
      PROVE  /\ c[i] <= c[i + 1]
             /\ r[i].type = "events" => r[i].events = SubSeq(g, c[i] + 1, c[i + 1])
             /\ r[i].type # "events" => c[i + 1] = c[i]
  <2>1. r[i] = m[i + 1] /\ c[i] = cut[i + 1] /\ c[i + 1] = cut[(i + 1) + 1] /\ i + 1 \in 1..n
    BY <1>1, <1>3, <1>5
  <2> QED BY <1>2, <2>1
<1>7. c[1] = cut[2] /\ c[n] = f /\ cut[2] \in 0..f
  BY <1>2, <1>3, <1>5
<1>8. Len(r) + 1 = n
  BY <1>1
<1>9. Chain(r, cut[2], f, g)
  <2>1. Cuts(c, r, cut[2], f, g)
    BY <1>1, <1>6, <1>7, <1>8 DEF Cuts
  <2> QED BY <1>4, <1>8, <2>1 DEF Chain
<1>10. /\ t <= cut[2]
       /\ m[1].type = "events" => m[1].events = SubSeq(g, t + 1, cut[2])
       /\ m[1].type # "events" => cut[2] = t
  BY <1>2, <1>3
<1> QED BY <1>1, <1>7, <1>9, <1>10 DEF r

(* Receiving more changes nothing that was sent. *)
LEMMA ChainGrows ==
    ASSUME NEW M, NEW m \in Seq(M), NEW S, NEW g \in Seq(S), NEW e \in S, NEW t,
           NEW f \in 0..Len(g), Chain(m, t, f, g)
    PROVE  Chain(m, t, f, Append(g, e))
<1>1. PICK cut \in [1..(Len(m) + 1) -> 0..f] :
        /\ cut[1] = t /\ cut[Len(m) + 1] = f
        /\ \A i \in 1..Len(m) :
              /\ cut[i] <= cut[i + 1]
              /\ m[i].type = "events" => m[i].events = SubSeq(g, cut[i] + 1, cut[i + 1])
              /\ m[i].type # "events" => cut[i + 1] = cut[i]
  BY DEF Chain, Cuts
<1>2. \A i \in 1..Len(m) : cut[i] \in 0..f /\ cut[i + 1] \in 0..f
  <2>1. \A i \in 1..Len(m) : i \in 1..(Len(m) + 1) /\ i + 1 \in 1..(Len(m) + 1)
    OBVIOUS
  <2> QED BY <2>1
<1>3. \A a, b \in 0..f : SubSeq(Append(g, e), a + 1, b) = SubSeq(g, a + 1, b)
  <2> SUFFICES ASSUME NEW a \in 0..f, NEW b \in 0..f
               PROVE  SubSeq(Append(g, e), a + 1, b) = SubSeq(g, a + 1, b)
    OBVIOUS
  <2>1. a + 1 \in Nat \ {0} /\ b \in 0..Len(g)
    OBVIOUS
  <2> QED BY <2>1, SubSeqAppendKeeps
<1> DEFINE h == Append(g, e)
<1> HIDE DEF h
<1>4. \A a, b \in 0..f : SubSeq(h, a + 1, b) = SubSeq(g, a + 1, b)
  BY <1>3 DEF h
<1>5. Cuts(cut, m, t, f, h)
  BY <1>1, <1>2, <1>4 DEF Cuts
<1> QED BY <1>5 DEF Chain, h
-----------------------------------------------------------------------------
(* A message sent: it stands last and the others keep their places. *)
LEMMA SendAt ==
    ASSUME NEW M, NEW m \in Seq(M), NEW x \in M
    PROVE  /\ Append(m, x) \in Seq(M) /\ Len(Append(m, x)) = Len(m) + 1 /\ Len(m) \in Nat
           /\ \A i \in 1..Len(m) : Append(m, x)[i] = m[i]
           /\ Append(m, x)[Len(m) + 1] = x
           /\ \A i \in 1..(Len(m) + 1) : i \in 1..Len(m) \/ i = Len(m) + 1
OBVIOUS

(* A message taken: the others move up by one. *)
LEMMA TakeAt ==
    ASSUME NEW M, NEW m \in Seq(M), m # <<>>
    PROVE  /\ Tail(m) \in Seq(M) /\ Len(Tail(m)) = Len(m) - 1 /\ Len(m) \in Nat /\ Len(m) >= 1
           /\ \A i \in 1..(Len(m) - 1) : Tail(m)[i] = m[i + 1] /\ i + 1 \in 1..Len(m)
           /\ Head(m) = m[1] /\ Head(m) \in M
OBVIOUS

(* What the invariant says of the session it needs only of these. *)
LEMMA LiveInvSession ==
    ASSUME LiveInv, UNCHANGED ui,
           UNCHANGED <<got, snap, sub, policy>>, ended => ended' /\ err' = err
    PROVE  LiveInv'
<1> USE DEF ui
<1>1. LiveTypeOK' /\ LiveData' /\ RouteInv'
  BY DEF LiveInv, LiveTypeOK, LiveData, RouteInv
<1>2. \A i \in 1..Len(msgs) : InPlace(i)' <=> InPlace(i)
  BY DEF InPlace
<1>3. StageInv'
  BY <1>2 DEF LiveInv, StageInv
<1>4. HandedInv'
  BY DEF LiveInv, HandedInv
<1>5. \A i \in 1..Len(msgs) : msgs[i].type = "state" => ended
  BY DEF LiveInv, StageInv, InPlace
<1>6. rd \in {"sendstate", "complete", "cancel"} => ended
  BY DEF LiveInv, StageInv
<1>7. OutcomeInv'
  BY <1>5, <1>6 DEF LiveInv, OutcomeInv, Right
<1> QED BY <1>1, <1>3, <1>4, <1>7 DEF LiveInv

(* The engine hands the session over and answers. *)
LEMMA EngineKeeps ==
    ASSUME LiveInv, TypeOK, EngineStep
    PROVE  LiveInv'
<1> USE DEF vars, session, listener, threads, history
<1>1. UNCHANGED <<got, snap, sub, policy, ended, err>>
  BY DEF EngineStep, Program
<1>2. CASE EngineAttach
  <2> DEFINE x == [type |-> "attach"]
  <2>1. /\ eng = "open" /\ eng' = "run" /\ msgs = <<>> /\ msgs' = <<x>> /\ rd = "off" /\ ~tracked
        /\ Len(msgs) = 0 /\ Len(msgs') = 1 /\ msgs'[1] = x
    BY <1>2 DEF EngineAttach, LiveInv, StageInv, RouteInv
  <2>2. UNCHANGED <<interactive, rd, flushed, rdState, canceled, gen, live, taken, tracked, handle,
                    pane, shown, watch, attached>>
    BY <1>2 DEF EngineAttach
  <2>3. x \in Msg /\ x.type = "attach"
    BY DEF Msg
  <2>4. LiveTypeOK' /\ LiveData'
    BY <1>1, <2>1, <2>2, <2>3, LiveAssumption DEF LiveInv, LiveTypeOK, LiveData
  <2>5. RouteInv'
    BY <2>1, <2>2 DEF LiveInv, RouteInv
  <2>6. StageInv'
    BY <1>1, <2>1, <2>2, <2>3 DEF LiveInv, StageInv, InPlace
  <2>7. OutcomeInv'
    BY <1>1, <2>1, <2>2, <2>3 DEF LiveInv, OutcomeInv, Right
  <2>8. HandedInv'
    <3>1. Chain(<<>>, taken, flushed, got[Reader]) /\ flushed \in Nat
      BY <2>1 DEF LiveInv, HandedInv, LiveTypeOK
    <3>2. Chain(Append(<<>>, x), taken, flushed, got[Reader])
      <4>1. <<>> \in Seq(Msg) /\ flushed <= flushed /\ x.type # "events"
        BY <2>3, <3>1
      <4> QED BY <2>3, <3>1, <4>1, ChainAppend
    <3> QED BY <1>1, <2>1, <2>2, <3>2 DEF HandedInv
  <2> QED BY <2>4, <2>5, <2>6, <2>7, <2>8 DEF LiveInv
<1>3. CASE EngineRespond
  <2>1. /\ eng = "run" /\ eng' = "answered"
        /\ UNCHANGED <<interactive, msgs, rd, flushed, rdState, canceled, gen, live, taken,
                       tracked, handle, pane, shown, watch, attached>>
    BY <1>3 DEF EngineRespond
  <2>2. LiveTypeOK' /\ LiveData'
    BY <1>1, <2>1 DEF LiveInv, LiveTypeOK, LiveData
  <2>3. RouteInv'
    BY <2>1 DEF LiveInv, RouteInv
  <2>4. StageInv'
    BY <1>1, <2>1 DEF LiveInv, StageInv, InPlace
  <2>5. OutcomeInv'
    BY <1>1, <2>1 DEF LiveInv, OutcomeInv, Right
  <2>6. HandedInv'
    BY <1>1, <2>1 DEF LiveInv, HandedInv
  <2> QED BY <2>2, <2>3, <2>4, <2>5, <2>6 DEF LiveInv
<1> QED BY <1>2, <1>3 DEF EngineStep, Program

(* The manager's goroutine touches only its own entry. *)
LEMMA WatchKeeps ==
    ASSUME LiveInv, Program(WatchDone)
    PROVE  LiveInv'
<1> USE DEF vars, session, listener, threads, history
<1>1. /\ UNCHANGED <<got, snap, sub, policy, ended, err>>
      /\ UNCHANGED <<interactive, eng, msgs, rd, flushed, rdState, canceled, gen, live, taken,
                     tracked, handle, pane, shown, attached>>
  BY DEF Program, WatchDone
<1>2. LiveTypeOK' /\ LiveData' /\ RouteInv'
  BY <1>1 DEF LiveInv, LiveTypeOK, LiveData, RouteInv
<1>3. StageInv'
  BY <1>1 DEF LiveInv, StageInv, InPlace
<1>4. OutcomeInv' /\ HandedInv'
  BY <1>1 DEF LiveInv, OutcomeInv, Right, HandedInv
<1> QED BY <1>2, <1>3, <1>4 DEF LiveInv

(* The reader takes an event from its channel. *)
LEMMA RecvKeeps ==
    ASSUME LiveInv, TypeOK, ReaderRecv
    PROVE  LiveInv'
<1> USE DEF vars, session, listener, threads, history, ui
<1> DEFINE e == Head(ch[Reader])
<1>1. /\ rd = "run" /\ ch[Reader] # <<>> /\ got'[Reader] = Append(got[Reader], e)
      /\ UNCHANGED <<ui, snap, sub, policy, ended, err>>
  BY LiveAssumption DEF ReaderRecv, Recv, TypeOK
<1>2. got[Reader] \in Seq(Event) /\ e \in Event
  BY <1>1, LiveAssumption DEF TypeOK
<1>3. Len(got'[Reader]) = Len(got[Reader]) + 1 /\ Len(got[Reader]) \in Nat
  BY <1>1, <1>2
<1> HIDE DEF e
<1>4. LiveTypeOK' /\ LiveData' /\ RouteInv'
  BY <1>1, <1>3 DEF LiveInv, LiveTypeOK, LiveData, RouteInv
<1>5. StageInv'
  BY <1>1 DEF LiveInv, StageInv, InPlace
<1>6. OutcomeInv'
  BY <1>1 DEF LiveInv, OutcomeInv, Right
<1>7. HandedInv'
  <2>1. flushed \in 0..Len(got[Reader]) /\ Chain(msgs, taken, flushed, got[Reader])
        /\ msgs \in Seq(Msg)
    BY DEF LiveInv, LiveTypeOK, LiveData, HandedInv
  <2>2. Chain(msgs, taken, flushed, got'[Reader])
    BY <1>1, <1>2, <2>1, ChainGrows
  <2>3. taken \in 0..flushed
    BY <1>3, <2>1, ChainBound
  <2>4. taken \in 0..Len(got[Reader])
    BY <1>3, <2>1, <2>3
  <2>5. SubSeq(Append(got[Reader], e), 1, taken) = SubSeq(got[Reader], 1, taken)
    BY <1>2, <2>4, SubSeqAppendKeeps
  <2>6. SubSeq(got'[Reader], 1, taken) = SubSeq(got[Reader], 1, taken)
    BY <1>1, <2>5
  <2>7. UNCHANGED <<msgs, taken, flushed, tracked, live, snap>>
    BY <1>1
  <2> QED BY <2>2, <2>6, <2>7 DEF LiveInv, HandedInv
<1> QED BY <1>4, <1>5, <1>6, <1>7 DEF LiveInv

(* A batch is sent: what was received and not yet sent, if any. *)
LEMMA FlushKeeps ==
    ASSUME LiveInv, TypeOK, Flush, rd = "run", rd' \in {"run", "state"},
           rd' = "state" => ended,
           UNCHANGED <<vars, interactive, eng, rdState, canceled, gen, live, taken, tracked,
                       handle, pane, shown, watch, attached>>
    PROVE  LiveInv'
<1> USE DEF vars, session, listener, threads, history
<1> DEFINE g == got[Reader]
           x == [type |-> "events", events |-> Batch]
<1>1. g \in Seq(Event) /\ Len(g) \in Nat /\ flushed \in 0..Len(g) /\ msgs \in Seq(Msg)
  BY LiveAssumption DEF TypeOK, LiveInv, LiveTypeOK, LiveData
<1>2. Batch \in Seq(Event) /\ Len(Batch) = Len(g) - flushed
  <2>1. \A i \in (flushed + 1)..Len(g) : g[i] \in Event
    BY <1>1
  <2>2. flushed + 1 \in Int /\ Len(g) \in Int
    BY <1>1
  <2>3. /\ SubSeq(g, flushed + 1, Len(g)) \in Seq(Event)
        /\ Len(SubSeq(g, flushed + 1, Len(g)))
             = IF flushed + 1 <= Len(g) THEN Len(g) - (flushed + 1) + 1 ELSE 0
    BY <2>1, <2>2, SubSeqProperties
  <2> QED BY <1>1, <2>3 DEF Batch
<1>3. flushed' = Len(g)
  <2>1. CASE Batch = <<>>
    BY <1>1, <1>2, <2>1 DEF Flush
  <2>2. CASE Batch # <<>>
    BY <2>2 DEF Flush
  <2> QED BY <2>1, <2>2
<1>4. UNCHANGED <<got, snap, sub, policy, ended, err>>
  OBVIOUS
<1>5. x \in Msg /\ x.type = "events" /\ x.events = Batch
  BY <1>2 DEF Msg
<1>6. \/ msgs' = msgs /\ flushed = Len(g)
      \/ Room /\ msgs' = Append(msgs, x)
  BY <1>1, <1>2 DEF Flush
<1>7. /\ msgs' \in Seq(Msg) /\ Len(msgs') <= StreamChan /\ Len(msgs') \in Nat
      /\ \A i \in 1..Len(msgs') : (i \in 1..Len(msgs) /\ msgs'[i] = msgs[i]) \/ msgs'[i] = x
  <2>1. CASE msgs' = msgs
    BY <1>1, <2>1 DEF LiveInv, LiveTypeOK
  <2>2. CASE Room /\ msgs' = Append(msgs, x)
    <3>1. Len(msgs') = Len(msgs) + 1 /\ msgs' \in Seq(Msg) /\ Len(msgs) \in Nat
      BY <1>1, <1>5, <2>2, SendAt
    <3>2. \A i \in 1..Len(msgs') : (i \in 1..Len(msgs) /\ msgs'[i] = msgs[i]) \/ msgs'[i] = x
      BY <1>1, <1>5, <2>2, <3>1, SendAt
    <3>3. Len(msgs') <= StreamChan
      BY <2>2, <3>1, LiveAssumption DEF Room
    <3> QED BY <3>1, <3>2, <3>3
  <2> QED BY <1>6, <2>1, <2>2
<1> HIDE DEF x
<1>8. LiveTypeOK' /\ LiveData' /\ RouteInv'
  BY <1>1, <1>3, <1>4, <1>7 DEF LiveInv, LiveTypeOK, LiveData, RouteInv
<1>9. \A i \in 1..Len(msgs) : msgs[i].type = "events"
  BY <1>1 DEF LiveInv, LiveData, StageInv, InPlace, Msg
<1>10. \A i \in 1..Len(msgs') : msgs'[i].type = "events"
  BY <1>5, <1>7, <1>9
<1>11. StageInv'
  <2>1. \A i \in 1..Len(msgs') : InPlace(i)'
    BY <1>10 DEF InPlace
  <2>2. eng # "open"
    BY DEF LiveInv, StageInv
  <2> QED BY <1>3, <1>4, <2>1, <2>2 DEF LiveInv, StageInv
<1>12. OutcomeInv'
  <2>1. ~(tracked /\ live.done)
    BY DEF LiveInv, OutcomeInv
  <2> QED BY <1>4, <1>10, <2>1 DEF LiveInv, OutcomeInv, Right
<1>13. HandedInv'
  <2>1. Chain(msgs, taken, flushed, g)
    BY DEF LiveInv, HandedInv
  <2>2. Chain(msgs', taken, Len(g), g)
    <3>1. CASE msgs' = msgs /\ flushed = Len(g)
      BY <2>1, <3>1
    <3>2. CASE Room /\ msgs' = Append(msgs, x)
      <4>1. flushed \in Nat /\ Len(g) \in Nat /\ flushed <= Len(g)
        BY <1>1
      <4>2. x.type = "events" => x.events = SubSeq(g, flushed + 1, Len(g))
        BY <1>5 DEF Batch
      <4>3. x.type # "events" => Len(g) = flushed
        BY <1>5
      <4> HIDE DEF g
      <4>4. Chain(Append(msgs, x), taken, Len(g), g)
        BY <1>1, <1>5, <2>1, <4>1, <4>2, <4>3, ChainAppend
      <4> QED BY <3>2, <4>4
    <3> QED BY <1>6, <3>1, <3>2
  <2> QED BY <1>3, <1>4, <2>2 DEF LiveInv, HandedInv
<1> QED BY <1>8, <1>11, <1>12, <1>13 DEF LiveInv

(* Either way of sending a batch: the timer fires, or the channel is closed, *)
(* which only an end of the session does while the reader runs.             *)
LEMMA BatchKeeps ==
    ASSUME LiveInv, TypeOK, ClosedInv, Program(ReaderTimer) \/ Program(ReaderClosed)
    PROVE  LiveInv'
<1>1. CASE Program(ReaderTimer)
  BY <1>1, FlushKeeps DEF Program, ReaderTimer
<1>2. CASE Program(ReaderClosed)
  <2>1. rd = "run" /\ closed[Reader] /\ sub[Reader] = "reading" /\ policy = "DropNewest"
    BY <1>2 DEF Program, ReaderClosed, LiveInv, StageInv
  <2>2. ended
    BY <2>1, LiveAssumption DEF ClosedInv
  <2>3. ended'
    BY <1>2, <2>2 DEF Program, vars, session
  <2> QED BY <1>2, <2>1, <2>2, FlushKeeps DEF Program, ReaderClosed
<1> QED BY <1>1, <1>2

(* The state is read: the session has ended, so it is final but for a late  *)
(* MarkClosing, which is no failure.                                        *)
LEMMA ReadStateKeeps ==
    ASSUME LiveInv, TypeOK, FailedInv, Program(ReaderReadState)
    PROVE  LiveInv'
<1> USE DEF vars, session, listener, threads, history
<1>1. /\ rd = "state" /\ rd' = "sendstate" /\ rdState' = [state |-> state, err |-> err]
      /\ UNCHANGED <<got, snap, sub, policy, ended, err>>
      /\ UNCHANGED <<interactive, eng, msgs, flushed, canceled, gen, live, taken, tracked, handle,
                     pane, shown, watch, attached>>
  BY DEF Program, ReaderReadState
<1>2. rdState' \in Outcome /\ rdState'.err = err /\ rdState'.state = state
  BY <1>1 DEF TypeOK, Outcome
<1>3. LiveTypeOK' /\ LiveData' /\ RouteInv'
  BY <1>1, <1>2 DEF LiveInv, LiveTypeOK, LiveData, RouteInv
<1>4. StageInv'
  BY <1>1 DEF LiveInv, StageInv, InPlace
<1>5. OutcomeInv'
  BY <1>1, <1>2 DEF LiveInv, OutcomeInv, Right, FailedInv
<1>6. HandedInv'
  BY <1>1 DEF LiveInv, HandedInv
<1> QED BY <1>3, <1>4, <1>5, <1>6 DEF LiveInv

(* The two messages after the last batch. *)
LEMMA LastWordsKeep ==
    ASSUME LiveInv, TypeOK, Program(ReaderSendState) \/ Program(ReaderComplete)
    PROVE  LiveInv'
<1> USE DEF vars, session, listener, threads, history
<1> DEFINE x == IF rd = "sendstate" THEN [type |-> "state", at |-> rdState]
                                    ELSE [type |-> "complete"]
<1>1. /\ \/ rd = "sendstate" /\ rd' = "complete"
         \/ rd = "complete" /\ rd' = "cancel"
      /\ Room /\ msgs' = Append(msgs, x)
      /\ UNCHANGED <<got, snap, sub, policy, ended, err>>
      /\ UNCHANGED <<interactive, eng, flushed, rdState, canceled, gen, live, taken, tracked, handle,
                     pane, shown, watch, attached>>
  BY DEF Program, ReaderSendState, ReaderComplete
<1>2. /\ x \in Msg
      /\ rd = "sendstate" => x.type = "state" /\ x.at = rdState
      /\ rd = "complete" => x.type = "complete"
  BY <1>1 DEF LiveInv, LiveData, Msg
<1> HIDE DEF x
<1>3. /\ msgs \in Seq(Msg) /\ Len(msgs) \in Nat
      /\ msgs' \in Seq(Msg) /\ Len(msgs') = Len(msgs) + 1 /\ msgs'[Len(msgs) + 1] = x
      /\ \A i \in 1..Len(msgs) : msgs'[i] = msgs[i]
      /\ \A i \in 1..(Len(msgs) + 1) : i \in 1..Len(msgs) \/ i = Len(msgs) + 1
  <2>1. msgs \in Seq(Msg)
    BY DEF LiveInv, LiveData
  <2> QED BY <1>1, <1>2, <2>1, SendAt
<1>4. LiveTypeOK'
  <2>1. Len(msgs') <= StreamChan
    BY <1>1, <1>3, LiveAssumption DEF Room
  <2> QED BY <1>1, <2>1 DEF LiveInv, LiveTypeOK
<1>5. LiveData' /\ RouteInv'
  BY <1>1, <1>3 DEF LiveInv, LiveData, RouteInv
<1>6. \A i \in 1..Len(msgs) : /\ msgs[i].type \in {"attach", "events", "state", "complete"}
                              /\ InPlace(i)
  BY <1>3 DEF LiveInv, StageInv, Msg
<1>7. StageInv'
  <2>1. ASSUME NEW i \in 1..Len(msgs') PROVE InPlace(i)'
    <3>1. CASE i \in 1..Len(msgs)
      <4>1. /\ msgs'[i] = msgs[i] /\ InPlace(i)
            /\ msgs[i].type \in {"attach", "events", "state", "complete"}
        BY <1>3, <1>6, <3>1
      <4>2. msgs[i].type = "events" \/ (rd = "complete" /\ msgs[i].type = "state" /\ i = Len(msgs))
        BY <1>1, <4>1 DEF InPlace
      <4> QED BY <1>1, <1>3, <4>1, <4>2 DEF InPlace
    <3>2. CASE i = Len(msgs) + 1
      <4>1. msgs'[i] = x /\ i = Len(msgs')
        BY <1>3, <3>2
      <4> QED BY <1>1, <1>2, <4>1 DEF InPlace
    <3> QED BY <1>3, <3>1, <3>2
  <2>2. eng # "open"
    BY <1>1 DEF LiveInv, StageInv
  <2> QED BY <1>1, <2>1, <2>2 DEF LiveInv, StageInv
<1>8. OutcomeInv'
  <2>1. ~(tracked /\ live.done)
    BY <1>1 DEF LiveInv, OutcomeInv
  <2>2. \A i \in 1..Len(msgs') : msgs'[i].type = "state" => Right(msgs'[i].at)
    BY <1>1, <1>2, <1>3 DEF LiveInv, OutcomeInv
  <2>3. ASSUME tracked, rd' \in {"complete", "cancel"},
               \A i \in 1..Len(msgs') : msgs'[i].type # "state"
        PROVE  live.err = err
    <3>1. x.type # "state"
      BY <1>3, <2>3
    <3>2. rd = "complete"
      BY <1>1, <1>2, <3>1
    <3>3. \A i \in 1..Len(msgs) : msgs[i].type # "state"
      BY <1>3, <2>3
    <3> QED BY <2>3, <3>2, <3>3 DEF LiveInv, OutcomeInv
  <2> QED BY <1>1, <2>1, <2>2, <2>3 DEF LiveInv, OutcomeInv, Right
<1>9. HandedInv'
  <2>1. Chain(msgs, taken, flushed, got[Reader]) /\ flushed \in Nat
    BY DEF LiveInv, HandedInv, LiveTypeOK
  <2>2. x.type # "events" /\ flushed <= flushed
    BY <1>1, <1>2, <2>1
  <2>3. Chain(Append(msgs, x), taken, flushed, got[Reader])
    BY <1>2, <1>3, <2>1, <2>2, ChainAppend
  <2> QED BY <1>1, <2>3 DEF LiveInv, HandedInv
<1> QED BY <1>4, <1>5, <1>7, <1>8, <1>9 DEF LiveInv

(* The reader's listener goes. *)
LEMMA CancelKeeps ==
    ASSUME LiveInv, TypeOK, ReaderCancel
    PROVE  LiveInv'
<1> USE DEF vars, session, listener, threads, history, ui
<1>1. rd = "cancel" /\ UNCHANGED <<got, snap, policy, ended, err>> /\ UNCHANGED ui
  BY DEF ReaderCancel, CancelRemove, CancelClose
<1>2. sub'[Reader] \in {"cancel", "gone"}
  BY LiveAssumption DEF ReaderCancel, CancelRemove, CancelClose, TypeOK
<1>3. LiveTypeOK' /\ LiveData' /\ RouteInv'
  BY <1>1 DEF LiveInv, LiveTypeOK, LiveData, RouteInv
<1>4. StageInv'
  BY <1>1, <1>2 DEF LiveInv, StageInv, InPlace
<1>5. OutcomeInv' /\ HandedInv'
  BY <1>1 DEF LiveInv, OutcomeInv, Right, HandedInv
<1> QED BY <1>3, <1>4, <1>5 DEF LiveInv

-----------------------------------------------------------------------------
(* A message taken by the update loop keeps the order of the others. *)
LEMMA Taken ==
    ASSUME LiveInv, msgs # <<>>, msgs' = Tail(msgs), rd' = rd
    PROVE  /\ msgs' \in Seq(Msg) /\ Len(msgs') <= StreamChan /\ Len(msgs') = Len(msgs) - 1
           /\ Len(msgs) \in Nat /\ Len(msgs) >= 1
           /\ Head(msgs) = msgs[1] /\ Head(msgs) \in Msg /\ InPlace(1)
           /\ \A i \in 1..Len(msgs') : msgs'[i] = msgs[i + 1] /\ i + 1 \in 1..Len(msgs)
           /\ \A i \in 1..Len(msgs') : InPlace(i)'
<1>1. msgs \in Seq(Msg) /\ Len(msgs) <= StreamChan /\ \A i \in 1..Len(msgs) : InPlace(i)
  BY DEF LiveInv, LiveData, LiveTypeOK, StageInv
<1>2. /\ Tail(msgs) \in Seq(Msg) /\ Len(Tail(msgs)) = Len(msgs) - 1 /\ Len(msgs) \in Nat /\ Len(msgs) >= 1
      /\ \A i \in 1..(Len(msgs) - 1) : Tail(msgs)[i] = msgs[i + 1] /\ i + 1 \in 1..Len(msgs)
      /\ Head(msgs) = msgs[1] /\ Head(msgs) \in Msg
  BY <1>1, TakeAt
<1>3. Len(msgs') <= StreamChan
  <2>1. \A n \in Nat : n <= StreamChan => n - 1 <= StreamChan
    BY LiveAssumption
  <2>2. Len(Tail(msgs)) <= StreamChan
    BY <1>1, <1>2, <2>1
  <2> QED BY <2>2
<1>4. 1 \in 1..Len(msgs)
  <2>1. \A n \in Nat : n >= 1 => 1 \in 1..n
    OBVIOUS
  <2> QED BY <1>2, <2>1, Zenon
<1>5. ASSUME NEW i \in 1..Len(msgs') PROVE InPlace(i)'
  <2>1. msgs'[i] = msgs[i + 1] /\ InPlace(i + 1) /\ Len(msgs') = Len(msgs) - 1
    BY <1>1, <1>2
  <2>2. i \in Nat /\ Len(msgs) \in Nat
    BY <1>2, <2>1
  <2>3. (i + 1 = Len(msgs) => i = Len(msgs')) /\ ((i + 1) + 1 = Len(msgs) => i + 1 = Len(msgs'))
    <3> DEFINE n == Len(msgs)
               l == Len(msgs')
    <3>1. l = n - 1 /\ n \in Nat
      BY <2>1, <2>2
    <3> HIDE DEF n, l
    <3>2. (i + 1 = n => i = l) /\ ((i + 1) + 1 = n => i + 1 = l)
      BY <2>2, <3>1
    <3> QED BY <3>2, Zenon DEF n, l
  <2> QED BY <2>1, <2>2, <2>3, Zenon DEF InPlace
<1> QED BY <1>1, <1>2, <1>3, <1>4, <1>5

(* The attachment of a session whose workspace is gone: it is cancelled.    *)
LEMMA StaleAttachKeeps ==
    ASSUME LiveInv, TypeOK, HandleStaleAttach
    PROVE  LiveInv'
<1> USE DEF vars, session, listener, threads, history
<1>1. /\ msgs # <<>> /\ Head(msgs).type = "attach" /\ gen # 0 /\ msgs' = Tail(msgs) /\ canceled' = TRUE
      /\ UNCHANGED <<got, snap, sub, policy, ended, err>>
      /\ UNCHANGED <<interactive, eng, rd, flushed, rdState, gen, live, taken, tracked,
                     handle, pane, shown, watch, attached>>
  BY DEF HandleStaleAttach, Message
<1>2. rd = "off" /\ Len(msgs) <= 1 /\ taken = 0 /\ flushed = 0 /\ ~tracked
  BY <1>1, Taken DEF InPlace, LiveInv, StageInv, RouteInv
<1>3. msgs' = <<>> /\ Len(msgs') = 0 /\ msgs' \in Seq(Msg)
  <2>1. Len(msgs') = 0 /\ msgs' \in Seq(Msg)
    BY <1>1, <1>2, Taken
  <2> QED BY <2>1
<1>4. LiveTypeOK' /\ LiveData' /\ RouteInv'
  BY <1>1, <1>3, LiveAssumption DEF LiveInv, LiveTypeOK, LiveData, RouteInv
<1>5. StageInv'
  BY <1>1, <1>2, <1>3 DEF LiveInv, StageInv
<1>6. OutcomeInv'
  BY <1>1, <1>2, <1>3 DEF LiveInv, OutcomeInv, Right
<1>7. HandedInv'
  BY <1>1, <1>2, <1>3, ChainEmpty DEF HandedInv
<1> QED BY <1>4, <1>5, <1>6, <1>7 DEF LiveInv

(* The attachment: the transcript begins with the snapshot. *)
LEMMA AttachKeeps ==
    ASSUME LiveInv, TypeOK, TypeOK', FailedInv, HandleAttach
    PROVE  LiveInv'
<1> USE DEF vars, session, listener, threads, history
<1> DEFINE sn == snap'[Reader]
<1>1. /\ msgs # <<>> /\ Head(msgs).type = "attach" /\ gen = 0 /\ msgs' = Tail(msgs)
      /\ rd' = "run" /\ tracked' = TRUE /\ pane' = TRUE /\ handle' = TRUE
      /\ UNCHANGED <<got, policy, ended, err, state>>
      /\ UNCHANGED <<interactive, eng, flushed, rdState, taken, canceled, gen>>
      /\ shown' = IF shown = "named" THEN "holds" ELSE shown
      /\ attached' = IF shown = "none" THEN "first" ELSE "late"
  BY DEF HandleAttach, Message, Subscribe
<1>2. sub'[Reader] = "reading" /\ sn \in Seq(Event \cup {NoEvent})
  BY LiveAssumption DEF HandleAttach, Subscribe, TypeOK
<1>3. /\ live'.events = LastN(<<>> \o sn, MaxLive) /\ live'.state = state /\ live'.err = err
      /\ live'.bound = (shown = "named") /\ live'.done = FALSE
      /\ live' = [events |-> LastN(<<>> \o sn, MaxLive), state |-> state, err |-> err,
                  bound |-> (shown = "named"), done |-> FALSE]
  BY DEF HandleAttach, LiveAppend, NoLive
<1>4. msgs \in Seq(Msg) /\ 1 \in 1..Len(msgs) /\ Head(msgs) = msgs[1]
  BY <1>1, TakeAt DEF LiveInv, LiveData
<1>5. rd = "off"
  BY <1>1, <1>4 DEF LiveInv, StageInv, InPlace
<1>6. /\ Len(msgs) <= 1 /\ taken = 0 /\ flushed = 0 /\ ~tracked /\ attached = "no"
      /\ got[Reader] = <<>> /\ shown # "holds"
  BY <1>5 DEF LiveInv, StageInv, RouteInv
<1>7. msgs' = <<>> /\ Len(msgs') = 0 /\ msgs' \in Seq(Msg)
  <2>1. Len(Tail(msgs)) = Len(msgs) - 1 /\ Len(msgs) \in Nat /\ Len(msgs) >= 1 /\ Tail(msgs) \in Seq(Msg)
    BY <1>1, <1>4, TakeAt
  <2>2. Len(Tail(msgs)) = 0
    BY <1>6, <2>1
  <2> QED BY <1>1, <2>1, <2>2
<1>8. <<>> \o sn = sn
  BY <1>2, ConcatEmptySeq
<1>9. live' \in LiveSession
  <2>1. MaxLive \in Nat
    BY LiveAssumption
  <2>2. LastN(sn, MaxLive) \in Seq(Event \cup {NoEvent})
    BY <1>2, <2>1, LastNAt
  <2> QED BY <1>3, <1>8, <2>2 DEF LiveSession, TypeOK
<1>10. LiveTypeOK' /\ LiveData'
  BY <1>1, <1>7, <1>9, LiveAssumption DEF LiveInv, LiveTypeOK, LiveData
<1>11. RouteInv'
  <2>1. /\ eng # "end" => shown = "none"
        /\ eng = "end" => shown = "named"
    BY <1>1, <1>6 DEF LiveInv, RouteInv
  <2>2. /\ live'.bound <=> shown' = "holds"
        /\ ~live'.done /\ attached' # "no" /\ gen' = 0
    BY <1>1, <1>3, <1>6
  <2>3. attached' = "first" => shown = "none"
    BY <1>1
  <2> QED BY <1>1, <2>1, <2>2, <2>3 DEF RouteInv
<1>12. StageInv'
  <2>1. eng # "open" /\ policy = "DropNewest"
    BY <1>1 DEF LiveInv, StageInv
  <2>2. attached' # "no"
    BY <1>1
  <2>3. \A i \in 1..Len(msgs') : InPlace(i)'
    BY <1>7
  <2> QED BY <1>1, <1>2, <2>1, <2>2, <2>3 DEF StageInv
<1>13. OutcomeInv'
  <2>1. live'.state = "Failed" => ended' /\ err' # NoErr
    BY <1>1, <1>3 DEF FailedInv
  <2>2. (\A i \in 1..Len(msgs) : msgs[i].type = "state" => Right(msgs[i].at))'
    BY <1>7
  <2>3. rd' = "run" /\ ~live'.done
    BY <1>1, <1>3
  <2> QED BY <2>1, <2>2, <2>3 DEF OutcomeInv
<1>14. HandedInv'
  <2>1. got'[Reader] = <<>> /\ taken' = 0 /\ flushed' = 0
    BY <1>1, <1>6
  <2>2. SubSeq(<<>>, 1, 0) = <<>>
    BY SubSeqEmpty
  <2>3. sn \o <<>> = sn
    BY <1>2, ConcatEmptySeq
  <2>4. live'.events = LastN(sn \o SubSeq(got'[Reader], 1, taken'), MaxLive)
    BY <1>3, <1>8, <2>1, <2>2, <2>3
  <2>5. Chain(<<>>, 0, 0, got'[Reader])
    BY ChainEmpty
  <2> QED BY <1>7, <2>1, <2>4, <2>5 DEF HandedInv
<1> QED BY <1>10, <1>11, <1>12, <1>13, <1>14 DEF LiveInv

(* What the update loop takes from the channel belongs to an attached       *)
(* session unless it is the attachment itself, and nothing comes after the  *)
(* completion.                                                              *)
LEMMA TakenSession ==
    ASSUME LiveInv, msgs # <<>>, msgs' = Tail(msgs), rd' = rd, Head(msgs).type # "attach"
    PROVE  /\ rd # "off" /\ attached # "no" /\ eng # "open"
           /\ ~(tracked /\ live.done)
           /\ Head(msgs).type \in {"state", "complete"} => ended
           /\ Head(msgs).type = "complete" => rd = "cancel" /\ msgs' = <<>>
           /\ Head(msgs).type # "state" /\ (\A i \in 1..Len(msgs') : msgs'[i].type # "state")
                 => \A i \in 1..Len(msgs) : msgs[i].type # "state"
<1>1. /\ msgs' \in Seq(Msg) /\ Len(msgs') = Len(msgs) - 1 /\ Len(msgs) \in Nat /\ Len(msgs) >= 1
      /\ Head(msgs) = msgs[1] /\ Head(msgs) \in Msg /\ InPlace(1)
      /\ \A i \in 1..Len(msgs') : msgs'[i] = msgs[i + 1]
  BY Taken
<1>2. Head(msgs).type \in {"events", "state", "complete"}
  BY <1>1 DEF Msg
<1>3. rd # "off" /\ (Head(msgs).type \in {"state", "complete"} => rd \notin {"off", "run"})
  BY <1>1, <1>2 DEF InPlace
<1>4. attached # "no" /\ (Head(msgs).type \in {"state", "complete"} => ended) /\ eng # "open"
  BY <1>3 DEF LiveInv, StageInv
<1>5. ~(tracked /\ live.done)
  BY DEF LiveInv, OutcomeInv
<1>6. Head(msgs).type = "complete" => rd = "cancel" /\ msgs' = <<>>
  <2> SUFFICES ASSUME Head(msgs).type = "complete" PROVE rd = "cancel" /\ msgs' = <<>>
    OBVIOUS
  <2>1. rd = "cancel" /\ 1 = Len(msgs)
    BY <1>1 DEF InPlace
  <2>2. Len(msgs') = 0
    BY <1>1, <2>1
  <2> QED BY <1>1, <2>1, <2>2
<1>7. ASSUME Head(msgs).type # "state", \A i \in 1..Len(msgs') : msgs'[i].type # "state",
             NEW i \in 1..Len(msgs)
      PROVE  msgs[i].type # "state"
  <2>1. CASE i = 1
    BY <1>1, <1>7, <2>1
  <2>2. CASE i # 1
    <3>1. i - 1 \in 1..(Len(msgs) - 1) /\ (i - 1) + 1 = i
      BY <1>1, <2>2
    <3>2. msgs'[i - 1] = msgs[i] /\ i - 1 \in 1..Len(msgs')
      BY <1>1, <3>1
    <3> QED BY <1>7, <3>2
  <2> QED BY <2>1, <2>2
<1> QED BY <1>3, <1>4, <1>5, <1>6, <1>7

(* A batch arrives: it continues what was handed over. *)
LEMMA EventsKeeps ==
    ASSUME LiveInv, TypeOK, HandleEvents
    PROVE  LiveInv'
<1> USE DEF vars, session, listener, threads, history
<1> DEFINE g == got[Reader]
           es == Head(msgs).events
           S == Event \cup {NoEvent}
<1>1. /\ msgs # <<>> /\ Head(msgs).type = "events" /\ msgs' = Tail(msgs)
      /\ taken' = taken + Len(es)
      /\ UNCHANGED <<got, snap, sub, policy, ended, err>>
      /\ UNCHANGED <<interactive, eng, rd, flushed, rdState, canceled, gen, tracked,
                     handle, pane, shown, watch, attached>>
  BY DEF HandleEvents, Message
<1>2. live' = IF tracked
              THEN [LiveAppend(live, es) EXCEPT !.state = IF @ = "Connecting" THEN "Open" ELSE @]
              ELSE live
  BY DEF HandleEvents
<1>3. /\ msgs' \in Seq(Msg) /\ Len(msgs') <= StreamChan
      /\ \A i \in 1..Len(msgs') : msgs'[i] = msgs[i + 1] /\ i + 1 \in 1..Len(msgs)
      /\ \A i \in 1..Len(msgs') : InPlace(i)'
  BY <1>1, Taken
<1>4. /\ rd # "off" /\ attached # "no" /\ eng # "open" /\ ~(tracked /\ live.done)
      /\ (\A i \in 1..Len(msgs') : msgs'[i].type # "state")
            => \A i \in 1..Len(msgs) : msgs[i].type # "state"
  BY <1>1, TakenSession
<1>5. /\ g \in Seq(Event) /\ Len(g) \in Nat /\ flushed \in 0..Len(g) /\ msgs \in Seq(Msg)
      /\ snap[Reader] \in Seq(S) /\ MaxLive \in Nat /\ taken \in Nat /\ live \in LiveSession
      /\ Chain(msgs, taken, flushed, g)
  BY LiveAssumption DEF TypeOK, LiveInv, LiveTypeOK, LiveData, HandedInv
<1>6. PICK t2 \in 0..flushed : /\ taken <= t2 /\ Chain(Tail(msgs), t2, flushed, g)
                               /\ es = SubSeq(g, taken + 1, t2)
  <2>1. flushed \in Nat /\ msgs \in Seq(Msg) /\ msgs # <<>> /\ Chain(msgs, taken, flushed, g)
    BY <1>1, <1>5
  <2>2. \E t2 \in 0..flushed :
           /\ taken <= t2
           /\ Chain(Tail(msgs), t2, flushed, g)
           /\ Head(msgs).type = "events" => Head(msgs).events = SubSeq(g, taken + 1, t2)
           /\ Head(msgs).type # "events" => t2 = taken
    <3> HIDE DEF g
    <3> QED BY <2>1, ChainTail, Zenon
  <2> QED BY <1>1, <2>2
<1>7. es \in Seq(Event) /\ Len(es) = t2 - taken
  <2>1. (\A i \in (taken + 1)..t2 : g[i] \in Event) /\ taken + 1 \in Int /\ t2 \in Int
    BY <1>5
  <2>2. /\ SubSeq(g, taken + 1, t2) \in Seq(Event)
        /\ Len(SubSeq(g, taken + 1, t2))
             = IF taken + 1 <= t2 THEN t2 - (taken + 1) + 1 ELSE 0
    BY <2>1, SubSeqProperties
  <2>3. (IF taken + 1 <= t2 THEN t2 - (taken + 1) + 1 ELSE 0) = t2 - taken
    BY <1>5, <1>6
  <2> QED BY <1>6, <2>2, <2>3
<1>8. taken' = t2 /\ t2 \in Nat
  BY <1>1, <1>5, <1>7
<1>9. g \in Seq(S) /\ es \in Seq(S)
  BY <1>5, <1>7
<1> HIDE DEF es, S
<1>10. /\ live'.err = live.err /\ live'.bound = live.bound /\ live'.done = live.done
       /\ live'.state = "Failed" => live.state = "Failed"
       /\ tracked => live'.events = LastN(live.events \o es, MaxLive)
       /\ live' \in LiveSession
  <2>1. CASE ~tracked
    BY <1>2, <1>5, <2>1
  <2>2. CASE tracked
    <3>1. live.events \in Seq(S)
      BY <1>5 DEF LiveSession, S
    <3>2. live.events \o es \in Seq(S)
      BY <1>9, <3>1, ConcatProperties
    <3>3. LastN(live.events \o es, MaxLive) \in Seq(S)
      BY <1>5, <3>2, LastNAt
    <3> DEFINE l == LastN(live.events \o es, MaxLive)
    <3> HIDE DEF l
    <3>4. live' = [[live EXCEPT !.events = l] EXCEPT
                      !.state = IF @ = "Connecting" THEN "Open" ELSE @]
      BY <1>2, <2>2 DEF LiveAppend, l
    <3>5. "Open" \in States
      BY DEF States
    <3>6. l \in Seq(Event \cup {NoEvent})
      BY <3>3 DEF l, S
    <3>7. live' \in LiveSession
      BY <1>5, <3>4, <3>5, <3>6 DEF LiveSession
    <3>8. /\ live'.err = live.err /\ live'.bound = live.bound /\ live'.done = live.done
          /\ live'.state = "Failed" => live.state = "Failed"
          /\ live'.events = l
      BY <1>5, <3>4 DEF LiveSession
    <3> QED BY <3>7, <3>8 DEF l
  <2> QED BY <2>1, <2>2
<1>11. LiveTypeOK' /\ LiveData'
  BY <1>1, <1>3, <1>8, <1>10 DEF LiveInv, LiveTypeOK, LiveData
<1>12. RouteInv'
  BY <1>1, <1>10 DEF LiveInv, RouteInv
<1>13. StageInv'
  BY <1>1, <1>3, <1>4 DEF LiveInv, StageInv
<1>14. OutcomeInv'
  <2>1. \A i \in 1..Len(msgs') : msgs'[i].type = "state" => Right(msgs'[i].at)
    BY <1>3 DEF LiveInv, OutcomeInv
  <2> QED BY <1>1, <1>4, <1>10, <2>1 DEF LiveInv, OutcomeInv, Right
<1>15. HandedInv'
  <2>1. tracked => live.events = LastN(snap[Reader] \o SubSeq(g, 1, taken), MaxLive)
    BY DEF LiveInv, HandedInv
  <2>2. /\ t2 \in 0..Len(g) /\ taken <= t2 /\ taken \in Nat /\ MaxLive \in Nat
        /\ snap[Reader] \in Seq(S) /\ g \in Seq(S)
    BY <1>5, <1>6, <1>9
  <2>3. LastN(LastN(snap[Reader] \o SubSeq(g, 1, taken), MaxLive) \o SubSeq(g, taken + 1, t2),
              MaxLive)
          = LastN(snap[Reader] \o SubSeq(g, 1, t2), MaxLive)
    <3> HIDE DEF g
    <3> QED BY <2>2, HandsOver
  <2>4. tracked => live'.events = LastN(snap[Reader] \o SubSeq(g, 1, t2), MaxLive)
    BY <1>6, <1>10, <2>1, <2>3
  <2> QED BY <1>1, <1>6, <1>8, <2>4 DEF HandedInv
<1> QED BY <1>11, <1>12, <1>13, <1>14, <1>15 DEF LiveInv

(* The state arrives after every batch: it is the session's outcome. *)
LEMMA StateKeeps ==
    ASSUME LiveInv, TypeOK, HandleState
    PROVE  LiveInv'
<1> USE DEF vars, session, listener, threads, history
<1> DEFINE o == Head(msgs).at
<1>1. /\ msgs # <<>> /\ Head(msgs).type = "state" /\ msgs' = Tail(msgs)
      /\ live' = IF tracked THEN [live EXCEPT !.state = o.state, !.err = o.err] ELSE live
      /\ UNCHANGED <<got, snap, sub, policy, ended, err>>
      /\ UNCHANGED <<interactive, eng, rd, flushed, rdState, taken, canceled, gen, tracked,
                     handle, pane, shown, watch, attached>>
  BY DEF HandleState, Message
<1>2. /\ msgs' \in Seq(Msg) /\ Len(msgs') <= StreamChan
      /\ Head(msgs) = msgs[1] /\ Head(msgs) \in Msg /\ Len(msgs) \in Nat /\ Len(msgs) >= 1
      /\ \A i \in 1..Len(msgs') : msgs'[i] = msgs[i + 1] /\ i + 1 \in 1..Len(msgs)
      /\ \A i \in 1..Len(msgs') : InPlace(i)'
  BY <1>1, Taken
<1>3. rd # "off" /\ attached # "no" /\ eng # "open" /\ ~(tracked /\ live.done) /\ ended
  BY <1>1, TakenSession
<1>4. o \in Outcome
  BY <1>1, <1>2 DEF Msg
<1>5. Right(o)
  <2>1. 1 \in 1..Len(msgs)
    BY <1>2
  <2> QED BY <1>1, <1>2, <2>1 DEF LiveInv, OutcomeInv
<1> HIDE DEF o
<1>6. live \in LiveSession
  BY DEF LiveInv, LiveData
<1>7. /\ live' \in LiveSession
      /\ live'.events = live.events /\ live'.bound = live.bound /\ live'.done = live.done
      /\ tracked => live'.err = o.err /\ live'.state = o.state
      /\ ~tracked => live' = live
  <2>1. CASE tracked
    BY <1>1, <1>4, <1>6, <2>1 DEF LiveSession, Outcome
  <2>2. CASE ~tracked
    BY <1>1, <1>6, <2>2
  <2> QED BY <2>1, <2>2
<1>8. LiveTypeOK' /\ LiveData'
  BY <1>1, <1>2, <1>7 DEF LiveInv, LiveTypeOK, LiveData
<1>9. RouteInv'
  BY <1>1, <1>7 DEF LiveInv, RouteInv
<1>10. StageInv'
  BY <1>1, <1>2, <1>3 DEF LiveInv, StageInv
<1>11. OutcomeInv'
  <2>1. \A i \in 1..Len(msgs') : msgs'[i].type = "state" => Right(msgs'[i].at)
    BY <1>2 DEF LiveInv, OutcomeInv
  <2> QED BY <1>1, <1>3, <1>5, <1>7, <2>1 DEF LiveInv, OutcomeInv, Right
<1>12. HandedInv'
  <2>1. Chain(msgs, taken, flushed, got[Reader]) /\ flushed \in Nat /\ msgs \in Seq(Msg)
    BY DEF LiveInv, HandedInv, LiveTypeOK, LiveData
  <2>2. Chain(Tail(msgs), taken, flushed, got[Reader])
    BY <1>1, <2>1, ChainTail
  <2> QED BY <1>1, <1>7, <2>2 DEF LiveInv, HandedInv
<1> QED BY <1>8, <1>9, <1>10, <1>11, <1>12 DEF LiveInv

(* The completion is the last message: the transcript is whole. *)
LEMMA CompleteKeeps ==
    ASSUME LiveInv, TypeOK, HandleComplete
    PROVE  LiveInv'
<1> USE DEF vars, session, listener, threads, history
<1>1. /\ msgs # <<>> /\ Head(msgs).type = "complete" /\ msgs' = Tail(msgs)
      /\ IF tracked
         THEN /\ live' = [live EXCEPT !.done = TRUE,
                                      !.state = IF @ = "Failed" THEN @ ELSE "Closed"]
              /\ tracked' = ~(live'.bound /\ live'.done)
              /\ handle' = FALSE
         ELSE UNCHANGED <<live, tracked, handle>>
      /\ UNCHANGED <<got, snap, sub, policy, ended, err>>
      /\ UNCHANGED <<interactive, eng, rd, flushed, rdState, taken, canceled, gen, pane,
                     shown, watch, attached>>
  BY DEF HandleComplete, Message, ReleaseLiveStream
<1>2. /\ rd = "cancel" /\ attached # "no" /\ eng # "open" /\ msgs' = <<>>
      /\ ~(tracked /\ live.done)
      /\ (\A i \in 1..Len(msgs') : msgs'[i].type # "state")
            => \A i \in 1..Len(msgs) : msgs[i].type # "state"
  BY <1>1, TakenSession
<1>3. Len(msgs') = 0 /\ msgs' \in Seq(Msg)
  BY <1>2
<1>4. tracked => live.err = err
  <2>1. \A i \in 1..Len(msgs') : msgs'[i].type # "state"
    BY <1>3
  <2> QED BY <1>2, <2>1 DEF LiveInv, OutcomeInv
<1>5. live \in LiveSession /\ tracked \in BOOLEAN /\ handle \in BOOLEAN
  BY DEF LiveInv, LiveData, LiveTypeOK
<1>6. /\ live' \in LiveSession /\ tracked' \in BOOLEAN /\ handle' \in BOOLEAN
      /\ live'.events = live.events /\ live'.err = live.err /\ live'.bound = live.bound
      /\ live'.state = "Failed" => live.state = "Failed"
  <2>1. CASE tracked
    <3>1. "Closed" \in States
      BY DEF States
    <3> QED BY <1>1, <1>5, <2>1, <3>1 DEF LiveSession
  <2>2. CASE ~tracked
    BY <1>1, <1>5, <2>2
  <2> QED BY <2>1, <2>2
<1>7. /\ tracked => live'.done /\ (tracked' <=> ~live'.bound)
      /\ ~tracked => ~tracked' /\ live' = live
  BY <1>1, <1>5 DEF LiveSession
<1>8. LiveTypeOK' /\ LiveData'
  <2>1. Len(msgs') <= StreamChan
    BY <1>3, LiveAssumption
  <2> QED BY <1>1, <1>3, <1>6, <2>1 DEF LiveInv, LiveTypeOK, LiveData
<1>9. RouteInv'
  BY <1>1, <1>2, <1>6, <1>7 DEF LiveInv, RouteInv
<1>10. StageInv'
  <2>1. \A i \in 1..Len(msgs') : InPlace(i)'
    BY <1>3
  <2> QED BY <1>1, <1>2, <2>1 DEF LiveInv, StageInv
<1>11. OutcomeInv'
  BY <1>1, <1>2, <1>3, <1>4, <1>6, <1>7 DEF LiveInv, OutcomeInv, Right
<1>12. HandedInv'
  <2>1. Chain(msgs, taken, flushed, got[Reader]) /\ flushed \in Nat /\ msgs \in Seq(Msg)
    BY DEF LiveInv, HandedInv, LiveTypeOK, LiveData
  <2>2. Chain(Tail(msgs), taken, flushed, got[Reader])
    BY <1>1, <2>1, ChainTail
  <2> QED BY <1>1, <1>6, <1>7, <2>2 DEF LiveInv, HandedInv
<1> QED BY <1>8, <1>9, <1>10, <1>11, <1>12 DEF LiveInv

(* The response arrives: it holds a stream the registry has, and names one  *)
(* that is still to come.                                                   *)
LEMMA ResponseKeeps ==
    ASSUME LiveInv, TypeOK, HandleResponse
    PROVE  LiveInv'
<1> USE DEF vars, session, listener, threads, history
<1>1. /\ eng = "answered" /\ eng' = "end" /\ pane' = FALSE
      /\ IF tracked
         THEN /\ shown' = "holds"
              /\ live' = [live EXCEPT !.bound = TRUE]
              /\ tracked' = ~(live'.bound /\ live'.done)
         ELSE /\ shown' = "named"
              /\ UNCHANGED <<live, tracked>>
      /\ UNCHANGED <<got, snap, sub, policy, ended, err>>
      /\ UNCHANGED <<interactive, msgs, rd, flushed, rdState, taken, canceled, gen, handle,
                     watch, attached>>
  BY DEF HandleResponse, ReleaseLiveStream
<1>2. live \in LiveSession /\ tracked \in BOOLEAN
  BY DEF LiveInv, LiveData, LiveTypeOK
<1>3. /\ live' \in LiveSession /\ tracked' \in BOOLEAN
      /\ live'.events = live.events /\ live'.err = live.err /\ live'.done = live.done
      /\ live'.state = live.state
      /\ tracked => live'.bound /\ (tracked' <=> ~live'.done)
      /\ ~tracked => ~tracked' /\ live' = live
  <2>1. CASE tracked
    BY <1>1, <1>2, <2>1 DEF LiveSession
  <2>2. CASE ~tracked
    BY <1>1, <1>2, <2>2
  <2> QED BY <2>1, <2>2
<1>4. /\ tracked => attached # "no" /\ gen = 0
      /\ ~tracked /\ gen = 0 => attached = "no"
      /\ gen \in Nat
  BY <1>1 DEF LiveInv, RouteInv, LiveTypeOK
<1>5. LiveTypeOK' /\ LiveData'
  BY <1>1, <1>3 DEF LiveInv, LiveTypeOK, LiveData
<1>6. RouteInv'
  <2>1. CASE tracked
    BY <1>1, <1>3, <1>4, <2>1 DEF RouteInv
  <2>2. CASE ~tracked
    BY <1>1, <1>3, <1>4, <2>2 DEF RouteInv
  <2> QED BY <2>1, <2>2
<1>7. StageInv'
  <2>1. \A i \in 1..Len(msgs) : InPlace(i)' <=> InPlace(i)
    BY <1>1 DEF InPlace
  <2> QED BY <1>1, <2>1 DEF LiveInv, StageInv
<1>8. OutcomeInv'
  BY <1>1, <1>3 DEF LiveInv, OutcomeInv, Right
<1>9. HandedInv'
  BY <1>1, <1>3 DEF LiveInv, HandedInv
<1> QED BY <1>5, <1>6, <1>7, <1>8, <1>9 DEF LiveInv

(* A response that is dropped leaves the stream where it is. *)
LEMMA UnboundKeeps ==
    ASSUME LiveInv, TypeOK, HandleUnbound
    PROVE  LiveInv'
<1> USE DEF vars, session, listener, threads, history
<1>1. /\ eng = "answered" /\ eng' = "dropped" /\ pane' \in {pane, FALSE}
      /\ UNCHANGED <<got, snap, sub, policy, ended, err>>
      /\ UNCHANGED <<interactive, msgs, rd, flushed, rdState, live, taken, canceled, gen,
                     tracked, handle, shown, watch, attached>>
  BY DEF HandleUnbound
<1>2. LiveTypeOK' /\ LiveData'
  BY <1>1 DEF LiveInv, LiveTypeOK, LiveData
<1>3. RouteInv'
  BY <1>1 DEF LiveInv, RouteInv
<1>4. StageInv'
  <2>1. \A i \in 1..Len(msgs) : InPlace(i)' <=> InPlace(i)
    BY <1>1 DEF InPlace
  <2> QED BY <1>1, <2>1 DEF LiveInv, StageInv
<1>5. OutcomeInv'
  BY <1>1 DEF LiveInv, OutcomeInv, Right
<1>6. HandedInv'
  BY <1>1 DEF LiveInv, HandedInv
<1> QED BY <1>2, <1>3, <1>4, <1>5, <1>6 DEF LiveInv

(* A change of workspace forgets the stream. *)
LEMMA MoveKeeps ==
    ASSUME LiveInv, TypeOK, CommitMove
    PROVE  LiveInv'
<1> USE DEF vars, session, listener, threads, history
<1>1. /\ gen < MaxMoves /\ gen' = gen + 1
      /\ canceled' = (canceled \/ handle) /\ handle' = FALSE /\ tracked' = FALSE
      /\ live' = NoLive /\ pane' = FALSE /\ shown' = "none"
      /\ UNCHANGED <<got, snap, sub, policy, ended, err>>
      /\ UNCHANGED <<interactive, eng, msgs, rd, flushed, rdState, taken, watch, attached>>
  BY DEF CommitMove
<1>2. gen \in Nat /\ gen' \in 0..MaxMoves /\ gen' > 0
  BY <1>1, LiveAssumption DEF LiveInv, LiveTypeOK
<1>3. live' \in LiveSession /\ live'.state # "Failed"
  <2>1. <<>> \in Seq(Event \cup {NoEvent}) /\ "Connecting" \in States /\ NoErr \in Errs
    BY DEF States, Errs
  <2> QED BY <1>1, <2>1 DEF NoLive, LiveSession
<1>4. canceled' \in BOOLEAN
  BY <1>1 DEF LiveInv, LiveTypeOK
<1>5. LiveTypeOK' /\ LiveData'
  BY <1>1, <1>2, <1>3, <1>4 DEF LiveInv, LiveTypeOK, LiveData
<1>6. RouteInv'
  BY <1>1, <1>2 DEF RouteInv
<1>7. StageInv'
  <2>1. \A i \in 1..Len(msgs) : InPlace(i)' <=> InPlace(i)
    BY <1>1 DEF InPlace
  <2> QED BY <1>1, <2>1 DEF LiveInv, StageInv
<1>8. OutcomeInv'
  BY <1>1, <1>3 DEF LiveInv, OutcomeInv, Right
<1>9. HandedInv'
  BY <1>1 DEF LiveInv, HandedInv
<1> QED BY <1>5, <1>6, <1>7, <1>8, <1>9 DEF LiveInv

-----------------------------------------------------------------------------
LEMMA LiveInvariant == LiveSpec => []LiveInv
<1>1. LiveInit => LiveInv
  <2> SUFFICES ASSUME LiveInit PROVE LiveInv
    OBVIOUS
  <2>1. got[Reader] = <<>> /\ sub[Reader] = "new" /\ policy = "DropNewest"
    BY LiveAssumption DEF LiveInit, Init
  <2>2. /\ eng = "open" /\ msgs = <<>> /\ rd = "off" /\ flushed = 0 /\ taken = 0
        /\ rdState = [state |-> "Connecting", err |-> NoErr] /\ live = NoLive
        /\ ~tracked /\ attached = "no" /\ gen = 0 /\ shown = "none"
    BY DEF LiveInit
  <2>3. LiveTypeOK
    <3>1. {canceled, tracked, handle, pane, interactive} \subseteq BOOLEAN
      BY DEF LiveInit
    <3>2. Len(msgs) <= StreamChan /\ gen \in 0..MaxMoves /\ flushed \in 0..Len(got[Reader])
      BY <2>1, <2>2, LiveAssumption
    <3> QED BY <2>2, <3>1, <3>2 DEF LiveTypeOK
  <2>4. LiveData
    <3>1. "Connecting" \in States /\ NoErr \in Errs
      BY DEF States, Errs
    <3>2. NoLive \in LiveSession /\ [state |-> "Connecting", err |-> NoErr] \in Outcome
      BY <3>1 DEF NoLive, LiveSession, Outcome
    <3> QED BY <2>2, <3>2 DEF LiveData
  <2>5. RouteInv
    BY <2>2 DEF RouteInv
  <2>6. StageInv
    BY <2>1, <2>2 DEF StageInv
  <2>7. OutcomeInv
    BY <2>2 DEF OutcomeInv, NoLive
  <2>8. HandedInv
    <3>1. Chain(<<>>, 0, 0, got[Reader])
      BY ChainEmpty
    <3> QED BY <2>2, <3>1 DEF HandedInv
  <2> QED BY <2>3, <2>4, <2>5, <2>6, <2>7, <2>8 DEF LiveInv
<1>2. LiveInv /\ TypeOK /\ TypeOK' /\ FailedInv /\ ClosedInv /\ [LiveNext]_allvars => LiveInv'
  <2> SUFFICES ASSUME LiveInv, TypeOK, TypeOK', FailedInv, ClosedInv, [LiveNext]_allvars
               PROVE  LiveInv'
    OBVIOUS
  <2>1. CASE UNCHANGED allvars
    <3>1. UNCHANGED ui /\ UNCHANGED <<got, snap, sub, policy, ended, err>>
      BY <2>1 DEF allvars, vars, session, listener, threads, history
    <3> QED BY <3>1, LiveInvSession
  <2>2. CASE \/ Stream(MarkOpen) \/ Stream(MarkClosing)
             \/ \E p \in Publishers : Stream(PublishStep(p))
             \/ \E c \in Closers : Stream(CloseStep(c))
    <3>1. Aside /\ UNCHANGED ui
      BY <2>2 DEF Stream, Aside
    <3> QED BY <3>1, AsideLeaves, LiveInvSession
  <2>3. CASE Program(WatchDone)
    BY <2>3, WatchKeeps
  <2>4. CASE EngineStep
    BY <2>4, EngineKeeps
  <2>5. CASE ReaderStep
    BY <2>5, RecvKeeps, BatchKeeps, ReadStateKeeps, LastWordsKeep, CancelKeeps DEF ReaderStep
  <2>6. CASE UpdateStep
    BY <2>6, StaleAttachKeeps, AttachKeeps, EventsKeeps, StateKeeps, CompleteKeeps DEF UpdateStep
  <2>7. CASE HandleResponse \/ HandleUnbound
    BY <2>7, ResponseKeeps, UnboundKeeps
  <2>8. CASE CommitMove
    BY <2>8, MoveKeeps
  <2> QED BY <2>1, <2>2, <2>3, <2>4, <2>5, <2>6, <2>7, <2>8 DEF LiveNext
<1> QED BY <1>1, <1>2, LiveRunsSession, TypeCorrect, FailedInvariant, ClosedInvariant, PTL
        DEF LiveSpec

(* The engine, the reader goroutine and the update loop only ever stand     *)
(* where runStreamSession and the handlers of model_stream.go put them, and *)
(* streamMsgChan never holds more than its capacity.                        *)
THEOREM LiveTypeCorrect == LiveSpec => []LiveTypeOK
<1>1. LiveInv => LiveTypeOK
  BY DEF LiveInv
<1> QED BY <1>1, LiveInvariant, PTL

(* The transcript on screen is the session's, however the batches, the      *)
(* state, the completion and the response interleave: what runStreamSession *)
(* sends and handleStreamEvents appends is what the reader was shown and    *)
(* received, in order, once, cut to the last streamMaxEvents, and a         *)
(* completed stream (handleStreamComplete) shows all of it and the error    *)
(* the session ended with.                                                  *)
THEOREM LiveTranscriptFaithful == LiveSpec => []TranscriptFaithful
<1>1. LiveInv => TranscriptFaithful
  <2> SUFFICES ASSUME LiveInv, tracked
               PROVE  /\ live.events = LastN(snap[Reader] \o SubSeq(got[Reader], 1, taken), MaxLive)
                      /\ live.done => /\ taken = Len(got[Reader])
                                      /\ live.err = err /\ Failed(live) = (err # NoErr)
    BY DEF TranscriptFaithful
  <2>1. live.events = LastN(snap[Reader] \o SubSeq(got[Reader], 1, taken), MaxLive)
    BY DEF LiveInv, HandedInv
  <2> SUFFICES ASSUME live.done
               PROVE  taken = Len(got[Reader]) /\ live.err = err /\ Failed(live) = (err # NoErr)
    BY <2>1
  <2>2. rd = "cancel" /\ msgs = <<>>
    BY DEF LiveInv, OutcomeInv
  <2>3. taken = Len(got[Reader])
    <3>1. Chain(<<>>, taken, flushed, got[Reader]) /\ flushed \in Nat
      BY <2>2 DEF LiveInv, HandedInv, LiveTypeOK
    <3>2. taken = flushed
      BY <3>1, ChainEnds
    <3> QED BY <2>2, <3>2 DEF LiveInv, StageInv
  <2>4. live.err = err
    <3>1. \A i \in 1..Len(msgs) : msgs[i].type # "state"
      BY <2>2
    <3> QED BY <2>2, <3>1 DEF LiveInv, OutcomeInv
  <2>5. Failed(live) = (err # NoErr)
    BY <2>4 DEF LiveInv, OutcomeInv, Failed
  <2> QED BY <2>3, <2>4, <2>5
<1> QED BY <1>1, LiveInvariant, PTL

(* releaseLiveStream drops a registry entry exactly when a response holds   *)
(* the session and it is complete, so bindSnapshotStream finds every stream *)
(* it should and the pane a stream was attached to always finds its         *)
(* transcript, unless the run dropped the response.                         *)
THEOREM LiveStreamTracked == LiveSpec => []StreamTracked
<1>1. LiveInv => StreamTracked
  <2> SUFFICES ASSUME LiveInv, attached # "no", gen = 0
               PROVE  /\ tracked \/ (shown = "holds" /\ live.done)
                      /\ tracked => ~(live.bound /\ live.done)
                      /\ attached = "first" /\ eng # "dropped" => PaneStream = "live"
    BY DEF StreamTracked
  <2>1. /\ tracked => ~(live.bound /\ live.done)
        /\ ~tracked => live.bound /\ live.done
        /\ live.bound <=> shown = "holds"
        /\ eng = "end" => shown = "holds"
        /\ eng # "end" => shown = "none"
        /\ attached = "first" => /\ eng = "end" => ~pane
                                 /\ eng \notin {"end", "dropped"} => pane
    BY DEF LiveInv, RouteInv
  <2>2. attached = "first" /\ eng # "dropped" => PaneStream = "live"
    <3> SUFFICES ASSUME attached = "first", eng # "dropped" PROVE PaneStream = "live"
      OBVIOUS
    <3>1. CASE eng = "end"
      <4>1. ~pane /\ shown = "holds"
        BY <2>1, <3>1
      <4> QED BY <4>1 DEF PaneStream
    <3>2. CASE eng # "end"
      <4>1. pane /\ tracked
        BY <2>1, <3>2
      <4> QED BY <4>1 DEF PaneStream
    <3> QED BY <3>1, <3>2
  <2> QED BY <2>1, <2>2
<1> QED BY <1>1, LiveInvariant, PTL
=============================================================================
