--------------------------- MODULE SseStreamProofs ---------------------------
(***************************************************************************)
(* Proofs about SseStream for every bound and every set of options: types, *)
(* the limits, and the truth of the reason that is reported.                *)
(***************************************************************************)
EXTENDS SseStream, Integers, SequenceTheorems, FiniteSetTheorems, TLAPS

(* A line read is a line sent, and only one; an event needs a line.         *)
Pending == IF pc = "line" /\ line # "none" THEN 1 ELSE 0
Open == IF HasContent THEN 1 ELSE 0
Accounted ==
    /\ Len(body) + bytes = Len(sent) /\ Len(sent) <= MaxLines
    /\ count + Open + Pending <= bytes

(* While the loop runs no limit on events has been met; it reads only when  *)
(* the one on bytes has not been met either.                                *)
UnderLimits ==
    /\ opts.events > 0 =>
          count <= opts.events /\ (pc \in {"read", "line", "check"} => count < opts.events)
    /\ opts.bytes > 0 => (pc = "read" => bytes < opts.bytes)

(* The loop has seen the end of the stream only after all of it.            *)
EofSeen == pc \in {"line", "check"} /\ rerr = "eof" => server = "eof" /\ body = << >>

(* What makes a reason true. *)
Holds(r) ==
    /\ r = "eof" => server = "eof" /\ body = << >>
    /\ r = "idle" => idle \in {"expired", "fired"}
    /\ r = "max_bytes" => opts.bytes > 0 /\ bytes >= opts.bytes
    /\ r = "max_events" => opts.events > 0 /\ count >= opts.events
    /\ r = "canceled" => CtxErr

(* A reason holds from the moment it is written, "eof" from the moment the  *)
(* loop is left; the one in the summary still does.                         *)
ReasonHolds == reason # "eof" \/ pc \in {"end", "close"} => Holds(reason)
IsSummary(k) == log[k].kind = "summary"
SummaryHolds ==
    \A k \in DOMAIN log : IsSummary(k) => pc \in {"close", "done"} /\ Holds(log[k].reason)

(* The session is over only when the reader is. *)
OverIsDone == Over => pc = "done"

(* The conjunction that is inductive. *)
Inv == TypeOK /\ Accounted /\ UnderLimits /\ EofSeen /\ ReasonHolds /\ SummaryHolds /\ OverIsDone

-----------------------------------------------------------------------------
(* What the steps of the reader do to sequences.                            *)
LEMMA AppendSeq ==
    ASSUME NEW S, NEW s \in Seq(S), NEW e \in S
    PROVE  Append(s, e) \in Seq(S) /\ Len(Append(s, e)) = Len(s) + 1
  OBVIOUS
LEMMA TailOfOne ==
    ASSUME NEW S, NEW s \in Seq(S), Len(s) = 1
    PROVE  Tail(s) = << >>
  <1>1. s # << >> BY EmptySeq
  <1>2. Tail(s) \in Seq(S) /\ Len(Tail(s)) = 0 BY <1>1, HeadTailProperties
  <1> QED BY <1>2, EmptySeq

(* The initial state satisfies the invariant. *)
LEMMA InitInv == Init => Inv
  <1> SUFFICES ASSUME Init PROVE Inv OBVIOUS
  <1>1. TypeOK
    <2>1. body \in Seq(Lines) /\ sent \in Seq(Lines) /\ log \in Seq(Entries)
      BY EmptySeq DEF Init
    <2>2. bytes \in 0..MaxLines /\ count \in 0..MaxLines
      BY SseAssumption DEF Init
    <2>3. idle \in {"armed", "writing", "expired", "fired", "off"}
      BY Zenon DEF Init
    <2>4. raced \in BOOLEAN BY Zenon DEF Init
    <2> QED BY <2>1, <2>2, <2>3, <2>4 DEF Init, TypeOK, Reasons
  <1>2. Accounted /\ UnderLimits
    BY SseAssumption DEF Init, Accounted, UnderLimits, Pending, Open, HasContent
  <1>3. EofSeen /\ ReasonHolds /\ SummaryHolds /\ OverIsDone
    BY DEF Init, EofSeen, ReasonHolds, SummaryHolds, OverIsDone, Over
  <1> QED BY <1>1, <1>2, <1>3 DEF Inv

(* builder.finalize and the publishing of its event. *)
LEMMA FinalizeTypes ==
    ASSUME TypeOK, Finalize
    PROVE  /\ log' \in Seq(Entries) /\ builder' = {}
           /\ count' = count + Open
  <1>1. Event \in Entries BY DEF Entries
  <1>2. log \in Seq(Entries) /\ count \in Nat BY SseAssumption DEF TypeOK
  <1> QED BY <1>1, <1>2, AppendSeq DEF Finalize, Publish, Open, HasContent

(* Whether the reader has met the watch's write is a Boolean. *)
LEMMA RacedIsBoolean ==
    ASSUME raced \in BOOLEAN, [Next]_vars
    PROVE  raced' \in BOOLEAN
  <1>1. CASE raced' = raced BY <1>1
  <1>2. CASE raced' = (raced \/ idle = "writing") BY <1>2
  <1>3. raced' = raced \/ raced' = (raced \/ idle = "writing")
    <2>1. CASE UNCHANGED vars BY <2>1 DEF vars
    <2>2. CASE \/ \E l \in Lines : ServerSends(l)
               \/ \E how \in {"eof", "broken"} : ServerEnds(how)
               \/ CancelRequest \/ CancelSession \/ IdleWatch
      BY <2>2 DEF ServerSends, ServerEnds, CancelRequest, CancelSession, IdleWatch, IdleStops,
                  IdleExpires, IdleWrites, IdleCancels
    <2>3. CASE ReadLine \/ ReadFails BY <2>3 DEF ReadLine, ReadFails
    <2>4. CASE HandleLine BY <2>4 DEF HandleLine, Uses
    <2>5. CASE CheckEnd BY <2>5 DEF CheckEnd, Because, Uses
    <2>6. CASE PublishSummary \/ Close BY <2>6 DEF PublishSummary, Close, Uses
    <2> QED BY <2>1, <2>2, <2>3, <2>4, <2>5, <2>6 DEF Next, Reader
  <1> QED BY <1>1, <1>2, <1>3

(* A line that is sent, and one that is read, stay accounted for. *)
LEMMA ServerSendsAccount ==
    ASSUME TypeOK, Accounted, NEW l \in Lines, ServerSends(l)
    PROVE  Accounted' /\ body' \in Seq(Lines) /\ sent' \in Seq(Lines)
  <1>1. /\ body \in Seq(Lines) /\ sent \in Seq(Lines) /\ bytes \in Nat /\ MaxLines \in Nat
    BY SseAssumption DEF TypeOK
  <1>2. /\ body' = Append(body, l) /\ sent' = Append(sent, l) /\ Len(sent) < MaxLines
        /\ UNCHANGED <<bytes, count, builder, pc, line>>
    BY DEF ServerSends, reader
  <1>3. /\ body' \in Seq(Lines) /\ Len(body') = Len(body) + 1
        /\ sent' \in Seq(Lines) /\ Len(sent') = Len(sent) + 1
    <2>1. Append(body, l) \in Seq(Lines) /\ Len(Append(body, l)) = Len(body) + 1
      BY <1>1, AppendSeq
    <2>2. Append(sent, l) \in Seq(Lines) /\ Len(Append(sent, l)) = Len(sent) + 1
      BY <1>1, AppendSeq
    <2> QED BY <1>2, <2>1, <2>2
  <1>4. Open' = Open /\ Pending' = Pending BY <1>2 DEF Open, Pending, HasContent
  <1>5. Len(body) \in Nat /\ Len(sent) \in Nat BY <1>1, LenProperties
  <1>6. Len(body') + bytes' = Len(sent') /\ Len(sent') <= MaxLines
    <2>1. /\ Len(body') = Len(body) + 1 /\ Len(sent') = Len(sent) + 1 /\ bytes' = bytes
          /\ Len(sent) < MaxLines
      BY <1>2, <1>3
    <2>2. Len(body) + bytes = Len(sent) /\ bytes \in Nat /\ MaxLines \in Nat
      BY <1>1 DEF Accounted
    <2> QED BY <1>5, <2>1, <2>2
  <1>7. count' + Open' + Pending' <= bytes' BY <1>2, <1>4 DEF Accounted
  <1> QED BY <1>3, <1>6, <1>7 DEF Accounted

LEMMA ReadLineAccount ==
    ASSUME TypeOK, Accounted, ReadLine, body # << >>
    PROVE  /\ Accounted' /\ bytes' \in 0..MaxLines /\ bytes' = bytes + 1
           /\ body' \in Seq(Lines) /\ line' \in Lines /\ rerr' \in {"none", "eof"}
  <1>1. body \in Seq(Lines) /\ sent \in Seq(Lines) /\ bytes \in Nat /\ MaxLines \in Nat
    BY SseAssumption DEF TypeOK
  <1>2. /\ line' = Head(body) /\ body' = Tail(body) /\ rerr' \in {"none", "eof"}
        /\ bytes' = bytes + ByteCount(line') /\ pc = "read" /\ pc' = "line"
        /\ UNCHANGED <<sent, builder, count>>
    BY DEF ReadLine
  <1>3. /\ Head(body) \in Lines /\ Tail(body) \in Seq(Lines)
        /\ Len(Tail(body)) = Len(body) - 1 /\ Len(body) \in Nat /\ Len(body) # 0
    BY <1>1, HeadTailProperties, LenProperties, EmptySeq
  <1>4. line' \in Lines /\ line' # "none" BY <1>2, <1>3 DEF Lines
  <1>5. bytes' = bytes + 1 BY <1>2, <1>4 DEF ByteCount
  <1>6. Open' = Open /\ Pending' = 1 /\ Pending = 0
    BY <1>2, <1>4 DEF Open, Pending, HasContent
  <1>7. Open \in 0..1 /\ count \in Nat BY SseAssumption DEF Open, TypeOK
  <1>8. Len(body') + bytes' = Len(sent') /\ Len(sent') <= MaxLines
    BY <1>1, <1>2, <1>3, <1>5 DEF Accounted
  <1>9. count' + Open' + Pending' <= bytes'
    BY <1>1, <1>2, <1>5, <1>6, <1>7 DEF Accounted
  <1>10. bytes' \in 0..MaxLines
    BY <1>1, <1>2, <1>3, <1>5 DEF Accounted
  <1> QED BY <1>2, <1>3, <1>4, <1>5, <1>8, <1>9, <1>10 DEF Accounted

(* Every step keeps the types, the accounts and the limits. *)
LEMMA StepTypes ==
    ASSUME Inv, [Next]_vars
    PROVE  TypeOK' /\ Accounted' /\ UnderLimits'
  <1> USE SseAssumption DEF Inv, TypeOK, Accounted, UnderLimits, Pending, Open, HasContent,
                            net, reader
  <1>r. raced' \in BOOLEAN BY RacedIsBoolean
  <1> USE <1>r
  <1>0. opts.events \in Nat /\ opts.bytes \in Nat /\ Len(body) \in Nat /\ Len(sent) \in Nat
    BY LenProperties
  <1>1. CASE UNCHANGED vars BY <1>1 DEF vars
  <1>2. ASSUME NEW l \in Lines, ServerSends(l)
        PROVE  TypeOK' /\ Accounted' /\ UnderLimits'
    <2>1. Accounted' /\ body' \in Seq(Lines) /\ sent' \in Seq(Lines)
      BY <1>2, ServerSendsAccount
    <2>2. UNCHANGED <<opts, server, req, sctx, reader, reason, idle, log, state>>
      BY <1>2 DEF ServerSends
    <2>7. TypeOK' BY <2>1, <2>2
    <2>9. UnderLimits' BY <2>2
    <2> QED BY <2>1, <2>7, <2>9
  <1>3. ASSUME NEW how \in {"eof", "broken"}, ServerEnds(how)
        PROVE  TypeOK' /\ Accounted' /\ UnderLimits'
    BY <1>3 DEF ServerEnds
  <1>4. CASE CancelRequest BY <1>4 DEF CancelRequest
  <1>5. CASE CancelSession BY <1>5 DEF CancelSession
  <1>6. CASE IdleStops BY <1>6 DEF IdleStops
  <1>7. CASE IdleExpires BY <1>7 DEF IdleExpires, Reasons
  <1>8. CASE IdleWrites BY <1>8 DEF IdleWrites, Reasons
  <1>9. CASE IdleCancels BY <1>9 DEF IdleCancels
  <1>10. CASE ReadLine
    <2>1. CASE body # << >>
      <3>1. /\ Accounted' /\ bytes' \in 0..MaxLines
            /\ body' \in Seq(Lines) /\ line' \in Lines /\ rerr' \in {"none", "eof"}
        BY <1>10, <2>1, ReadLineAccount
      <3>2. /\ pc' = "line"
            /\ UNCHANGED <<opts, server, sent, req, sctx, builder, count, reason, idle, log, state>>
        BY <1>10 DEF ReadLine
      <3>3. pc = "read" BY <1>10 DEF ReadLine
      <3>7. TypeOK' BY <3>1, <3>2
      <3>9. UnderLimits' BY <3>2, <3>3
      <3> QED BY <3>1, <3>7, <3>9
    <2>2. CASE body = << >>
      <3>1. line' = "none" /\ body' = body /\ rerr' = "eof" /\ bytes' = bytes + 0
        BY <1>10, <2>2 DEF ReadLine, ByteCount
      <3> QED BY <1>0, <1>10, <3>1 DEF ReadLine
    <2> QED BY <2>1, <2>2
  <1>11. CASE ReadFails BY <1>11 DEF ReadFails, CloseSession
  <1>12. CASE HandleLine
    <2>1. CASE line \in {"blank", "none"}
      <3>1. Finalize BY <1>12, <2>1 DEF HandleLine
      <3>2. log' \in Seq(Entries) /\ builder' = {} /\ count' = count + Open
        BY <3>1, FinalizeTypes
      <3>3. /\ UNCHANGED <<opts, net, req, line, rerr, bytes, idle, sctx, state>>
            /\ \/ HasContent /\ EventLimit /\ pc' = "end" /\ reason' = "max_events"
               \/ ~(HasContent /\ EventLimit) /\ pc' = "check" /\ reason' = reason
        BY <1>12, <2>1 DEF HandleLine
      <3>4. TypeOK' BY <1>0, <1>12, <3>2, <3>3 DEF HandleLine, Reasons
      <3>5. Accounted' BY <1>0, <1>12, <3>2, <3>3 DEF HandleLine
      <3>6. UnderLimits' BY <1>0, <1>12, <3>2, <3>3 DEF HandleLine, EventLimit
      <3> QED BY <3>4, <3>5, <3>6
    <2>2. CASE line \notin {"blank", "none", "bad"}
      <3>1. builder' \subseteq {"data", "scalar"}
        BY <1>12, <2>2 DEF HandleLine, Consume
      <3>2. /\ pc' = "check" /\ UNCHANGED <<sctx, count, reason, log, state>>
            /\ UNCHANGED <<opts, net, req, line, rerr, bytes, idle>>
        BY <1>12, <2>2 DEF HandleLine
      <3> QED BY <1>0, <1>12, <2>2, <3>1, <3>2 DEF HandleLine
    <2>3. CASE line = "bad"
      <3>7. TypeOK' BY <1>0, <1>12, <2>3 DEF HandleLine, CloseSession
      <3>8. Accounted' BY <1>0, <1>12, <2>3 DEF HandleLine, CloseSession
      <3>9. UnderLimits' BY <1>0, <1>12, <2>3 DEF HandleLine, CloseSession
      <3> QED BY <3>7, <3>8, <3>9
    <2> QED BY <2>1, <2>2, <2>3
  <1>13. CASE CheckEnd
    <2>1. CASE ByteLimit
      <3>1. pc' = "end" /\ reason' \in Reasons /\ UNCHANGED <<builder, count, log>>
        BY <1>13, <2>1 DEF CheckEnd, Because, Reasons
      <3>7. TypeOK' BY <1>13, <3>1 DEF CheckEnd
      <3>8. Accounted' BY <1>0, <1>13, <2>1 DEF CheckEnd, Because, Reasons
      <3>9. UnderLimits' BY <1>0, <1>13, <2>1 DEF CheckEnd, Because, Reasons
      <3> QED BY <3>7, <3>8, <3>9
    <2>2. CASE ~ByteLimit /\ rerr = "eof"
      <3>1. Finalize /\ pc' = "end" BY <1>13, <2>2 DEF CheckEnd
      <3>2. log' \in Seq(Entries) /\ builder' = {} /\ count' = count + Open
        BY <3>1, FinalizeTypes
      <3> QED BY <1>0, <1>13, <2>2, <3>1, <3>2 DEF CheckEnd
    <2>3. CASE ~ByteLimit /\ rerr # "eof"
      <3>1. pc' \in {"end", "read"} /\ reason' \in Reasons /\ UNCHANGED <<builder, count, log>>
        BY <1>0, <1>13, <2>3 DEF CheckEnd, Because, Reasons
      <3>7. TypeOK' BY <1>0, <1>13, <3>1 DEF CheckEnd
      <3>8. Accounted' BY <1>0, <1>13, <2>3 DEF CheckEnd, Because, Reasons, ByteLimit
      <3>9. UnderLimits' BY <1>0, <1>13, <2>3 DEF CheckEnd, Because, Reasons, ByteLimit
      <3> QED BY <3>7, <3>8, <3>9
    <2> QED BY <2>1, <2>2, <2>3
  <1>14. CASE PublishSummary
    <2>1. [kind |-> "summary", reason |-> reason, bytes |-> bytes, events |-> count] \in Entries
      BY DEF Entries
    <2>2. log' \in Seq(Entries) BY <1>14, <2>1, AppendSeq DEF PublishSummary, Publish
    <2> QED BY <1>0, <1>14, <2>2 DEF PublishSummary
  <1>15. CASE Close BY <1>15 DEF Close, CloseSession
  <1> QED BY <1>1, <1>2, <1>3, <1>4, <1>5, <1>6, <1>7, <1>8, <1>9, <1>10, <1>11, <1>12, <1>13,
             <1>14, <1>15 DEF Next, IdleWatch, Reader

(* What a step may not take back while it does not read or count: a reason  *)
(* that holds.                                                              *)
LEMMA HoldsStable ==
    ASSUME TypeOK, NEW r, Holds(r),
           opts' = opts, bytes' = bytes, count' = count,
           server = "eof" => server' = "eof" /\ body' = body,
           idle \in {"expired", "fired"} => idle' \in {"expired", "fired"},
           CtxErr => CtxErr'
    PROVE  Holds(r)'
  BY DEF Holds

(* Every step keeps what is said of the end of the stream and its reason. *)
LEMMA StepReason ==
    ASSUME Inv, [Next]_vars
    PROVE  EofSeen' /\ ReasonHolds' /\ SummaryHolds' /\ OverIsDone'
  <1> USE DEF Inv, TypeOK
  <1> DEFINE Goal == EofSeen' /\ ReasonHolds' /\ SummaryHolds' /\ OverIsDone'
  <1>0. opts.events \in Nat /\ opts.bytes \in Nat /\ count \in Nat /\ bytes \in Nat
    BY SseAssumption
  <1>a. ASSUME UNCHANGED <<opts, bytes, count, pc, rerr, reason, log, state>>,
               server = "eof" => server' = "eof" /\ body' = body,
               idle \in {"expired", "fired"} => idle' \in {"expired", "fired"},
               CtxErr => CtxErr'
        PROVE  Goal
    <2>1. EofSeen' /\ OverIsDone' BY <1>a DEF EofSeen, OverIsDone, Over
    <2>2. ReasonHolds' BY <1>a, HoldsStable DEF ReasonHolds
    <2>3. SummaryHolds' BY <1>a, HoldsStable DEF SummaryHolds, IsSummary
    <2> QED BY <2>1, <2>2, <2>3
  <1>b. ASSUME pc \in {"read", "line", "check", "end"}, DOMAIN log' = DOMAIN log, log' = log
        PROVE  SummaryHolds'
    BY <1>b DEF SummaryHolds, IsSummary
  <1>1. CASE UNCHANGED vars BY <1>1, <1>a DEF vars, CtxErr
  <1>2. ASSUME NEW l \in Lines, ServerSends(l) PROVE Goal
    BY <1>2, <1>a DEF ServerSends, CtxErr, reader
  <1>3. ASSUME NEW how \in {"eof", "broken"}, ServerEnds(how) PROVE Goal
    BY <1>3, <1>a DEF ServerEnds, CtxErr, reader
  <1>4. CASE CancelRequest BY <1>4, <1>a DEF CancelRequest, CtxErr, reader, net
  <1>5. CASE CancelSession BY <1>5, <1>a DEF CancelSession, CtxErr, reader, net
  <1>6. CASE IdleStops BY <1>6, <1>a DEF IdleStops, CtxErr, reader, net
  <1>7. CASE IdleExpires \/ IdleWrites
    <2>1. /\ UNCHANGED <<opts, server, body, req, sctx, pc, rerr, bytes, count, log, state>>
          /\ idle \in {"armed", "writing"}
          /\ reason' = "torn" \/ (reason' = "idle" /\ idle' = "expired")
      BY <1>7 DEF IdleExpires, IdleWrites, reader, net
    <2>2. EofSeen' /\ OverIsDone' BY <2>1 DEF EofSeen, OverIsDone, Over
    <2>3. ReasonHolds' BY <2>1 DEF ReasonHolds, Holds
    <2>4. SummaryHolds' BY <2>1, HoldsStable DEF SummaryHolds, IsSummary, CtxErr
    <2> QED BY <2>2, <2>3, <2>4
  <1>9. CASE IdleCancels BY <1>9, <1>a DEF IdleCancels, CtxErr, reader, net
  <1>10. CASE ReadLine
    <2>1. /\ pc = "read" /\ pc' = "line"
          /\ UNCHANGED <<opts, server, req, sctx, count, reason, idle, log, state>>
          /\ rerr' = "eof" => server = "eof" /\ (body = << >> \/ Len(body) = 1)
          /\ IF body = << >> THEN body' = body ELSE body' = Tail(body)
          /\ bytes' \in Nat /\ bytes' >= bytes
      BY <1>0, <1>10 DEF ReadLine, ByteCount
    <2>2. EofSeen' BY <2>1, TailOfOne DEF EofSeen
    <2>3. ReasonHolds' BY <1>0, <2>1 DEF ReasonHolds, Holds, CtxErr
    <2>4. SummaryHolds' /\ OverIsDone' BY <2>1, <1>b DEF OverIsDone, Over
    <2> QED BY <2>2, <2>3, <2>4
  <1>11. CASE ReadFails
    <2>1. /\ pc = "read" /\ pc' = "done" /\ sctx' = TRUE
          /\ UNCHANGED <<opts, net, req, bytes, count, reason, idle, log>>
      BY <1>11 DEF ReadFails, CloseSession
    <2>2. ReasonHolds' BY <2>1, HoldsStable DEF ReasonHolds, CtxErr, net
    <2> QED BY <2>1, <2>2, <1>b DEF EofSeen, OverIsDone
  <1>12. CASE HandleLine
    <2>1. CASE line \in {"blank", "none"}
      <3>1. /\ pc = "line" /\ Finalize
            /\ UNCHANGED <<opts, net, req, rerr, bytes, idle, sctx, state>>
            /\ \/ EventLimit /\ pc' = "end" /\ reason' = "max_events"
               \/ pc' = "check" /\ reason' = reason
        BY <1>12, <2>1 DEF HandleLine
      <3>2. count' \in Nat /\ count' >= count /\ SummaryHolds'
        <4>1. CASE HasContent
          <5>1. log' = Append(log, Event) /\ count' = count + 1
            BY <3>1, <4>1 DEF Finalize, Publish
          <5> QED BY <1>0, <3>1, <5>1 DEF SummaryHolds, IsSummary, Event
        <4>2. CASE ~HasContent BY <1>0, <1>b, <3>1, <4>2 DEF Finalize
        <4> QED BY <4>1, <4>2
      <3>3. ReasonHolds' BY <1>0, <3>1, <3>2 DEF ReasonHolds, Holds, CtxErr, EventLimit, net
      <3>4. EofSeen' /\ OverIsDone' BY <3>1 DEF EofSeen, OverIsDone, Over, net
      <3> QED BY <3>2, <3>3, <3>4
    <2>2. CASE line \notin {"blank", "none", "bad"}
      <3>1. /\ pc = "line" /\ pc' = "check" /\ UNCHANGED <<sctx, count, reason, log, state>>
            /\ UNCHANGED <<opts, net, req, rerr, bytes, idle>>
        BY <1>12, <2>2 DEF HandleLine
      <3>2. ReasonHolds' BY <3>1, HoldsStable DEF ReasonHolds, CtxErr, net
      <3> QED BY <3>1, <3>2, <1>b DEF EofSeen, OverIsDone, Over, net
    <2>3. CASE line = "bad"
      <3>1. /\ pc = "line" /\ pc' = "done" /\ sctx' = TRUE
            /\ UNCHANGED <<opts, net, req, rerr, bytes, idle, count, reason, log>>
        BY <1>12, <2>3 DEF HandleLine, CloseSession
      <3>2. ReasonHolds' BY <3>1, HoldsStable DEF ReasonHolds, CtxErr, net
      <3> QED BY <3>1, <3>2, <1>b DEF EofSeen, OverIsDone
    <2> QED BY <2>1, <2>2, <2>3
  <1>13. CASE CheckEnd
    <2>0. /\ pc = "check" /\ UNCHANGED <<opts, net, req, sctx, rerr, bytes, idle, state>>
          /\ pc' \in {"end", "read"}
      BY <1>13 DEF CheckEnd
    <2>1. CASE ByteLimit
      <3>1. pc' = "end" /\ Because("max_bytes") /\ UNCHANGED <<count, log>>
        BY <1>13, <2>1 DEF CheckEnd
      <3>2. ReasonHolds'
        BY <1>0, <2>0, <2>1, <3>1 DEF ReasonHolds, Holds, Because, ByteLimit, CtxErr, net
      <3> QED BY <2>0, <3>1, <3>2, <1>b DEF EofSeen, OverIsDone, Over
    <2>2. CASE ~ByteLimit /\ rerr = "eof"
      <3>1. pc' = "end" /\ Finalize /\ reason' = reason
        BY <1>13, <2>2 DEF CheckEnd
      <3>2. count' \in Nat /\ count' >= count /\ SummaryHolds'
        <4>1. CASE HasContent
          <5>1. log' = Append(log, Event) /\ count' = count + 1
            BY <3>1, <4>1 DEF Finalize, Publish
          <5> QED BY <1>0, <2>0, <5>1 DEF SummaryHolds, IsSummary, Event
        <4>2. CASE ~HasContent BY <1>0, <1>b, <2>0, <3>1, <4>2 DEF Finalize
        <4> QED BY <4>1, <4>2
      <3>3. ReasonHolds'
        BY <1>0, <2>0, <2>2, <3>1, <3>2 DEF ReasonHolds, Holds, CtxErr, EofSeen, net
      <3> QED BY <2>0, <3>1, <3>2, <3>3 DEF EofSeen, OverIsDone, Over
    <2>3. CASE ~ByteLimit /\ rerr # "eof"
      <3>1. /\ UNCHANGED <<count, log>>
            /\ \/ CtxErr /\ pc' = "end" /\ Because("canceled")
               \/ pc' = "read" /\ reason' = reason
        BY <1>13, <2>3 DEF CheckEnd
      <3>2. ReasonHolds' BY <2>0, <3>1 DEF ReasonHolds, Holds, Because, CtxErr, net
      <3> QED BY <2>0, <3>1, <3>2, <1>b DEF EofSeen, OverIsDone, Over
    <2> QED BY <2>1, <2>2, <2>3
  <1>14. CASE PublishSummary
    <2>1. /\ pc = "end" /\ pc' = "close"
          /\ UNCHANGED <<opts, net, req, sctx, bytes, count, reason, idle, state>>
          /\ log' = Append(log, [kind |-> "summary", reason |-> reason,
                                 bytes |-> bytes, events |-> count])
      BY <1>14 DEF PublishSummary, Publish
    <2>2. Holds(reason)' BY <2>1, HoldsStable DEF ReasonHolds, CtxErr, net
    <2>3. SummaryHolds'
      <3> SUFFICES ASSUME NEW k \in DOMAIN log', IsSummary(k)' PROVE Holds(log[k].reason)'
        BY <2>1 DEF SummaryHolds
      <3>1. k \in 1..Len(log) + 1 /\ DOMAIN log = 1..Len(log) BY <2>1, LenProperties
      <3>2. CASE k = Len(log) + 1
        <4>1. log'[k].reason = reason' BY <2>1, <3>2
        <4> QED BY <2>2, <4>1 DEF Holds
      <3>3. CASE k \in DOMAIN log
        <4>1. log'[k] = log[k] BY <2>1, <3>1, <3>3
        <4> QED BY <2>1, <3>3, <4>1 DEF SummaryHolds, IsSummary
      <3> QED BY <3>1, <3>2, <3>3
    <2> QED BY <2>1, <2>2, <2>3 DEF ReasonHolds, EofSeen, OverIsDone, Over
  <1>15. CASE Close
    <2>1. /\ pc = "close" /\ pc' = "done" /\ sctx' = TRUE
          /\ UNCHANGED <<opts, net, req, bytes, count, reason, idle, log>>
      BY <1>15 DEF Close, CloseSession
    <2>2. ReasonHolds' BY <2>1, HoldsStable DEF ReasonHolds, CtxErr, net
    <2>3. SummaryHolds' BY <2>1, HoldsStable DEF SummaryHolds, IsSummary, CtxErr, net
    <2> QED BY <2>1, <2>2, <2>3 DEF EofSeen, OverIsDone
  <1> QED BY <1>1, <1>2, <1>3, <1>4, <1>5, <1>6, <1>7, <1>9, <1>10, <1>11, <1>12, <1>13,
             <1>14, <1>15 DEF Next, IdleWatch, Reader

-----------------------------------------------------------------------------
(* The lines handled so far, those whose block they end with content, and    *)
(* what the block under construction has.                                    *)
Handled == bytes - Pending
HasData(s, p) == \E j \in 1..p : s[j] = "data" /\ \A m \in j..p : s[m] # "blank"
HasScalar(s, p) == \E j \in 1..p : s[j] = "scalar" /\ \A m \in j..p : s[m] \notin {"blank", "clear"}
Closed(s, p) ==
    {k \in 1..p : s[k] = "blank" /\ (HasData(s, k - 1) \/ HasScalar(s, k - 1))}

(* The body is what is left of the lines sent. *)
BodyIsRest ==
    /\ \A i \in DOMAIN body : body[i] = sent[bytes + i]
    /\ pc = "line" /\ line # "none" => line = sent[bytes]

(* While the loop runs the builder has what the lines since the last blank   *)
(* one left in it, and every block before it was counted.                    *)
Running == pc \in {"read", "line"} \/ (pc = "check" /\ line # "none")
Tracks ==
    Running => /\ "data" \in builder <=> HasData(sent, Handled)
               /\ "scalar" \in builder <=> HasScalar(sent, Handled)
               /\ count = Cardinality(Closed(sent, Handled))
Ending ==
    /\ pc \in {"line", "check"} /\ line = "none" => rerr = "eof"
    /\ pc = "check" /\ line = "none" => builder = {}
AllCounted ==
    (pc = "check" /\ line = "none") \/ (pc = "end" /\ reason = "eof") => count = Cardinality(SentEvents)
Counted ==
    /\ EventCount = count
    /\ \A k \in DOMAIN log : IsSummary(k) =>
          /\ k = Len(log) /\ log[k].events = count /\ log[k].bytes = bytes
          /\ log[k].reason = "eof" => count = Cardinality(SentEvents)
CountInv == BodyIsRest /\ Tracks /\ Ending /\ AllCounted /\ Counted

(* One more line handled: what the block has, and which blocks are closed.   *)
LEMMA OneMoreLine ==
    ASSUME NEW s, NEW p \in Nat
    PROVE  /\ HasData(s, p + 1) <=> s[p + 1] = "data" \/ (HasData(s, p) /\ s[p + 1] # "blank")
           /\ HasScalar(s, p + 1) <=> \/ s[p + 1] = "scalar"
                                      \/ HasScalar(s, p) /\ s[p + 1] \notin {"blank", "clear"}
           /\ Closed(s, p + 1) =
                Closed(s, p) \cup (IF s[p + 1] = "blank" /\ (HasData(s, p) \/ HasScalar(s, p))
                                   THEN {p + 1} ELSE {})
  <1>1. \A j : j \in 1..(p + 1) <=> j \in 1..p \/ j = p + 1
    OBVIOUS
  <1>2. \A j \in 1..p : \A m : m \in j..(p + 1) <=> m \in j..p \/ m = p + 1
    OBVIOUS
  <1>3. \A m : m \in (p + 1)..(p + 1) <=> m = p + 1
    OBVIOUS
  <1>4. HasData(s, p + 1) <=> s[p + 1] = "data" \/ (HasData(s, p) /\ s[p + 1] # "blank")
    BY <1>1, <1>2, <1>3 DEF HasData
  <1>5. HasScalar(s, p + 1) <=> \/ s[p + 1] = "scalar"
                                \/ HasScalar(s, p) /\ s[p + 1] \notin {"blank", "clear"}
    BY <1>1, <1>2, <1>3 DEF HasScalar
  <1>6. (p + 1) - 1 = p
    OBVIOUS
  <1>7. Closed(s, p + 1) =
          Closed(s, p) \cup (IF s[p + 1] = "blank" /\ (HasData(s, p) \/ HasScalar(s, p))
                             THEN {p + 1} ELSE {})
    BY <1>1, <1>6 DEF Closed
  <1> QED BY <1>4, <1>5, <1>7

LEMMA ClosedFinite ==
    ASSUME NEW s, NEW p \in Nat
    PROVE  /\ IsFiniteSet(Closed(s, p)) /\ Cardinality(Closed(s, p)) \in Nat
           /\ p + 1 \notin Closed(s, p)
           /\ Cardinality(Closed(s, p) \cup {p + 1}) = Cardinality(Closed(s, p)) + 1
  <1>1. IsFiniteSet(1..p) BY FS_Interval
  <1>2. Closed(s, p) \subseteq 1..p BY DEF Closed
  <1>3. IsFiniteSet(Closed(s, p)) BY <1>1, <1>2, FS_Subset
  <1>4. p + 1 \notin Closed(s, p) BY <1>2
  <1> QED BY <1>3, <1>4, FS_CardinalityType, FS_AddElement

(* A line that is sent later changes nothing of what was handled. *)
LEMMA SentLater ==
    ASSUME NEW s, NEW t, NEW p \in Nat, \A m \in 1..p : t[m] = s[m]
    PROVE  /\ HasData(t, p) <=> HasData(s, p)
           /\ HasScalar(t, p) <=> HasScalar(s, p)
           /\ Closed(t, p) = Closed(s, p)
  <1>1. ASSUME NEW k \in 0..p
        PROVE  (HasData(t, k) <=> HasData(s, k)) /\ (HasScalar(t, k) <=> HasScalar(s, k))
    <2>1. \A j \in 1..k : t[j] = s[j] /\ \A m \in j..k : t[m] = s[m]
      OBVIOUS
    <2> QED BY <2>1 DEF HasData, HasScalar
  <1>2. \A k \in 1..p : k - 1 \in 0..p /\ t[k] = s[k]
    OBVIOUS
  <1>3. Closed(t, p) = Closed(s, p)
    BY <1>1, <1>2 DEF Closed
  <1> QED BY <1>1, <1>3

(* The events the server sent: the closed blocks, and the last one if the    *)
(* stream ended in the middle of it.                                         *)
LEMMA SentEventsAre ==
    ASSUME sent \in Seq(Lines)
    PROVE  SentEvents = Closed(sent, Len(sent)) \cup
                          (IF HasData(sent, Len(sent)) \/ HasScalar(sent, Len(sent))
                           THEN {Len(sent) + 1} ELSE {})
  <1>0. Len(sent) \in Nat BY LenProperties
  <1>1. ASSUME NEW k \in 1..(Len(sent) + 1)
        PROVE  (\E j \in 1..(k - 1) : Contributes(j, k))
                 <=> HasData(sent, k - 1) \/ HasScalar(sent, k - 1)
    BY DEF Contributes, HasData, HasScalar
  <1>2. \A k : k \in 1..(Len(sent) + 1) <=> k \in 1..Len(sent) \/ k = Len(sent) + 1
    BY <1>0
  <1>3. (Len(sent) + 1) - 1 = Len(sent) /\ ~(Len(sent) + 1 <= Len(sent))
    BY <1>0
  <1>4. \A k \in 1..Len(sent) : k <= Len(sent)
    BY <1>0
  <1> QED BY <1>1, <1>2, <1>3, <1>4 DEF SentEvents, Closed

(* An event published is counted; a summary is not an event. *)
LEMMA EventPublished ==
    ASSUME log \in Seq(Entries), NEW e \in Entries, log' = Append(log, e)
    PROVE  /\ EventCount \in Nat
           /\ EventCount' = EventCount + (IF e.kind = "event" THEN 1 ELSE 0)
           /\ Len(log') = Len(log) + 1 /\ log'[Len(log) + 1] = e
           /\ \A k \in DOMAIN log' : (k \in DOMAIN log /\ log'[k] = log[k]) \/ k = Len(log) + 1
  <1> DEFINE E == {k \in DOMAIN log : log[k].kind = "event"}
  <1>1. /\ Len(log) \in Nat /\ DOMAIN log = 1..Len(log) /\ DOMAIN log' = 1..(Len(log) + 1)
        /\ Len(log') = Len(log) + 1 /\ log'[Len(log) + 1] = e
        /\ \A k \in DOMAIN log : log'[k] = log[k]
    OBVIOUS
  <1>2. \A k : k \in DOMAIN log' <=> k \in DOMAIN log \/ k = Len(log) + 1
    BY <1>1
  <1>3. IsFiniteSet(E) /\ Len(log) + 1 \notin E
    <2>1. IsFiniteSet(1..Len(log)) BY <1>1, FS_Interval
    <2>2. E \subseteq 1..Len(log) BY <1>1
    <2>3. IsFiniteSet(E) BY <2>1, <2>2, FS_Subset
    <2> QED BY <1>1, <2>2, <2>3
  <1>4. EventCount = Cardinality(E) BY DEF EventCount
  <1>5. EventCount \in Nat BY <1>3, <1>4, FS_CardinalityType
  <1>6. CASE e.kind = "event"
    <2>1. {k \in DOMAIN log' : log'[k].kind = "event"} = E \cup {Len(log) + 1}
      BY <1>1, <1>2, <1>6
    <2>2. Cardinality(E \cup {Len(log) + 1}) = Cardinality(E) + 1
      BY <1>3, FS_AddElement
    <2>3. EventCount' = EventCount + 1 BY <1>4, <2>1, <2>2 DEF EventCount
    <2> QED BY <1>1, <1>2, <1>5, <1>6, <2>3
  <1>7. CASE e.kind # "event"
    <2>1. {k \in DOMAIN log' : log'[k].kind = "event"} = E
      BY <1>1, <1>2, <1>7
    <2>2. EventCount' = EventCount BY <1>4, <2>1 DEF EventCount
    <2> QED BY <1>1, <1>2, <1>5, <1>7, <2>2
  <1> QED BY <1>6, <1>7

(* finalize: the open block is counted, and the session has one event more. *)
LEMMA FinalizeCounts ==
    ASSUME TypeOK, EventCount = count, Finalize,
           \A k \in DOMAIN log : ~IsSummary(k)
    PROVE  /\ EventCount' = count' /\ builder' = {}
           /\ \A k \in DOMAIN log' : log'[k].kind # "summary"
           /\ count' = count + Open
  <1>0. log \in Seq(Entries) /\ count \in Nat /\ Event \in Entries /\ Event.kind = "event"
    BY SseAssumption DEF TypeOK, Entries, Event
  <1>1. CASE HasContent
    <2>1. log' = Append(log, Event) /\ count' = count + 1 /\ builder' = {}
      BY <1>1 DEF Finalize, Publish
    <2> QED BY <1>0, <1>1, <2>1, EventPublished DEF IsSummary, Open
  <1>2. CASE ~HasContent
    BY <1>0, <1>2 DEF Finalize, HasContent, EventCount, IsSummary, Open
  <1> QED BY <1>1, <1>2

(* Steps that neither the reader nor the lines notice. *)
LEMMA CountKept ==
    ASSUME CountInv, UNCHANGED <<pc, line, rerr, builder, bytes, count, log, sent, body>>,
           reason' = reason \/ reason' # "eof"
    PROVE  CountInv'
  <1>1. EventCount' = EventCount /\ SentEvents' = SentEvents /\ Handled' = Handled
    BY DEF EventCount, SentEvents, Contributes, Handled, Pending
  <1>2. Tracks'
    BY <1>1 DEF CountInv, Tracks, Running
  <1>3. Counted'
    BY <1>1 DEF CountInv, Counted, IsSummary
  <1>4. BodyIsRest' /\ Ending' /\ AllCounted'
    BY <1>1 DEF CountInv, BodyIsRest, Ending, AllCounted
  <1> QED BY <1>2, <1>3, <1>4 DEF CountInv

(* What the accounts say of the lines handled. *)
LEMMA HandledFacts ==
    ASSUME Inv
    PROVE  /\ Handled \in Nat /\ bytes \in Nat /\ count \in Nat /\ Handled = bytes - Pending
           /\ Len(sent) \in Nat /\ Len(body) \in Nat /\ Len(body) + bytes = Len(sent)
           /\ DOMAIN sent = 1..Len(sent) /\ DOMAIN body = 1..Len(body)
           /\ Handled <= bytes /\ bytes <= Len(sent)
           /\ sent \in Seq(Lines) /\ body \in Seq(Lines)
  <1>1. /\ sent \in Seq(Lines) /\ body \in Seq(Lines) /\ bytes \in Nat /\ count \in Nat
        /\ Len(body) + bytes = Len(sent)
    BY SseAssumption DEF Inv, TypeOK, Accounted
  <1>2. Len(sent) \in Nat /\ Len(body) \in Nat /\ DOMAIN sent = 1..Len(sent) /\ DOMAIN body = 1..Len(body)
    BY <1>1, LenProperties
  <1>3. Pending \in {0, 1} /\ Pending <= bytes
    BY <1>1 DEF Inv, Accounted, Pending, Open
  <1> QED BY <1>1, <1>2, <1>3 DEF Handled

LEMMA ServerSendsCount ==
    ASSUME Inv, CountInv, NEW l \in Lines, ServerSends(l)
    PROVE  CountInv'
  <1> USE DEF net, reader
  <1>1. /\ server = "open" /\ sent' = Append(sent, l) /\ body' = Append(body, l)
        /\ UNCHANGED <<pc, line, rerr, builder, bytes, count, reason, log>>
    BY DEF ServerSends
  <1>2. /\ Handled \in Nat /\ bytes \in Nat /\ Len(sent) \in Nat /\ Len(body) \in Nat
        /\ Len(body) + bytes = Len(sent) /\ Handled <= bytes /\ bytes <= Len(sent)
        /\ DOMAIN sent = 1..Len(sent) /\ DOMAIN body = 1..Len(body)
        /\ sent \in Seq(Lines) /\ body \in Seq(Lines)
    BY HandledFacts
  <1>3. /\ \A m \in 1..Len(sent) : sent'[m] = sent[m]
        /\ sent'[Len(sent) + 1] = l /\ body'[Len(body) + 1] = l
        /\ \A m \in 1..Len(body) : body'[m] = body[m]
        /\ DOMAIN body' = 1..(Len(body) + 1)
    BY <1>1, <1>2
  <1>4. BodyIsRest'
    <2>1. ASSUME NEW i \in DOMAIN body' PROVE body'[i] = sent'[bytes + i]
      <3>1. CASE i \in 1..Len(body)
        <4>1. bytes + i \in 1..Len(sent) BY <1>2, <3>1
        <4> QED BY <1>2, <1>3, <3>1, <4>1 DEF CountInv, BodyIsRest
      <3>2. CASE i = Len(body) + 1
        <4>1. bytes + i = Len(sent) + 1 BY <1>2, <3>2
        <4> QED BY <1>3, <3>2, <4>1
      <3> QED BY <1>2, <1>3, <3>1, <3>2
    <2>2. pc = "line" /\ line # "none" => bytes \in 1..Len(sent)
      BY <1>2 DEF Handled, Pending
    <2> QED BY <1>1, <1>3, <2>1, <2>2 DEF CountInv, BodyIsRest
  <1>5. Handled' = Handled BY <1>1 DEF Handled, Pending
  <1>6. /\ HasData(sent', Handled) <=> HasData(sent, Handled)
        /\ HasScalar(sent', Handled) <=> HasScalar(sent, Handled)
        /\ Closed(sent', Handled) = Closed(sent, Handled)
    <2>1. \A m \in 1..Handled : sent'[m] = sent[m] BY <1>2, <1>3
    <2> QED BY <1>2, <2>1, SentLater
  <1>7. Tracks'
    <2>1. Running' = Running BY <1>1 DEF Running
    <2>2. Running => /\ "data" \in builder <=> HasData(sent', Handled')
                     /\ "scalar" \in builder <=> HasScalar(sent', Handled')
                     /\ count = Cardinality(Closed(sent', Handled'))
      BY <1>5, <1>6 DEF CountInv, Tracks
    <2> QED BY <1>1, <2>1, <2>2 DEF Tracks
  <1>8. Ending' BY <1>1 DEF CountInv, Ending
  <1>9. AllCounted'
    <2>1. ~(pc = "check" /\ line = "none")
      BY <1>1 DEF Inv, EofSeen, CountInv, Ending
    <2>2. ~(pc = "end" /\ reason = "eof")
      BY <1>1 DEF Inv, ReasonHolds, Holds
    <2> QED BY <1>1, <2>1, <2>2 DEF AllCounted
  <1>10. Counted'
    <2>1. \A k \in DOMAIN log : IsSummary(k) => log[k].reason # "eof"
      BY <1>1 DEF Inv, SummaryHolds, Holds
    <2> QED BY <1>1, <2>1 DEF CountInv, Counted, EventCount, IsSummary
  <1> QED BY <1>4, <1>7, <1>8, <1>9, <1>10 DEF CountInv

(* ReadString takes the next line; nothing has been handled yet. *)
LEMMA ReadLineCount ==
    ASSUME Inv, CountInv, ReadLine
    PROVE  CountInv'
  <1>1. /\ pc = "read" /\ pc' = "line" /\ UNCHANGED <<server, sent, builder, count, reason, log>>
        /\ bytes' = bytes + ByteCount(line')
        /\ \/ body # << >> /\ line' = Head(body) /\ body' = Tail(body)
           \/ body = << >> /\ body' = body /\ line' = "none" /\ rerr' = "eof"
    BY DEF ReadLine
  <1>2. /\ Handled \in Nat /\ bytes \in Nat /\ Len(sent) \in Nat /\ Len(body) \in Nat
        /\ Len(body) + bytes = Len(sent)
        /\ DOMAIN sent = 1..Len(sent) /\ DOMAIN body = 1..Len(body)
        /\ sent \in Seq(Lines) /\ body \in Seq(Lines)
    BY HandledFacts
  <1>3. Handled = bytes BY <1>1, <1>2 DEF Handled, Pending
  <1>4. BodyIsRest' /\ Handled' = Handled /\ (line' = "none" => rerr' = "eof")
    <2>1. CASE body # << >>
      <3>1. /\ line' = body[1] /\ line' \in Lines /\ line' # "none" /\ 1 \in DOMAIN body
            /\ DOMAIN body' = 1..(Len(body) - 1)
            /\ \A i \in DOMAIN body' : i + 1 \in DOMAIN body /\ body'[i] = body[i + 1]
        <4>1. line' = Head(body) /\ body' = Tail(body) BY <1>1, <2>1
        <4>2. Len(body) > 0 BY <1>2, <2>1
        <4>3. Head(body) = body[1] /\ body[1] \in Lines BY <1>2, <2>1, <4>2
        <4>4. DOMAIN Tail(body) = 1..(Len(body) - 1)
              /\ \A i \in 1..(Len(body) - 1) : Tail(body)[i] = body[i + 1]
          BY <1>2, <2>1
        <4> QED BY <1>2, <4>1, <4>2, <4>3, <4>4 DEF Lines
      <3>2. bytes' = bytes + 1 BY <1>1, <3>1 DEF ByteCount
      <3>3. line' = sent'[bytes']
        BY <1>1, <3>1, <3>2 DEF CountInv, BodyIsRest
      <3>4. \A i \in DOMAIN body' : body'[i] = sent'[bytes' + i]
        <4>1. ASSUME NEW i \in DOMAIN body' PROVE body'[i] = sent'[bytes' + i]
          <5>1. body'[i] = sent[bytes + (i + 1)] BY <3>1 DEF CountInv, BodyIsRest
          <5>2. bytes + (i + 1) = bytes' + i BY <1>2, <3>1, <3>2
          <5> QED BY <1>1, <5>1, <5>2
        <4> QED BY <4>1
      <3>5. Handled' = Handled
        <4>1. Pending' = 1
          <5>1. pc' = "line" /\ line' # "none" BY <1>1, <3>1
          <5> QED BY <5>1 DEF Pending
        <4>2. Handled' = bytes' - Pending' BY DEF Handled
        <4>3. bytes \in Nat BY <1>2
        <4> QED BY <1>3, <3>2, <4>1, <4>2, <4>3
      <3> QED BY <1>1, <3>1, <3>3, <3>4, <3>5 DEF BodyIsRest
    <2>2. CASE body = << >>
      <3>1. line' = "none" /\ rerr' = "eof" /\ body' = body /\ bytes' = bytes
        <4>1. line' = "none" /\ rerr' = "eof" /\ body' = body BY <1>1, <2>2
        <4>2. ByteCount(line') = 0 BY <4>1 DEF ByteCount
        <4>3. bytes \in Nat BY <1>2
        <4> QED BY <1>1, <4>1, <4>2, <4>3
      <3>2. Handled' = Handled BY <1>1, <1>2, <1>3, <3>1 DEF Handled, Pending
      <3> QED BY <1>1, <3>1, <3>2 DEF CountInv, BodyIsRest
    <2> QED BY <2>1, <2>2
  <1>5. Tracks'
    <2>1. /\ "data" \in builder <=> HasData(sent, Handled)
          /\ "scalar" \in builder <=> HasScalar(sent, Handled)
          /\ count = Cardinality(Closed(sent, Handled))
      BY <1>1 DEF CountInv, Tracks, Running
    <2>2. /\ "data" \in builder' <=> HasData(sent', Handled')
          /\ "scalar" \in builder' <=> HasScalar(sent', Handled')
          /\ count' = Cardinality(Closed(sent', Handled'))
      BY <1>1, <1>4, <2>1
    <2> QED BY <2>2 DEF Tracks
  <1>6. Ending' /\ AllCounted' BY <1>1, <1>4 DEF Ending, AllCounted
  <1>7. \A k \in DOMAIN log : ~IsSummary(k)
    BY <1>1 DEF Inv, SummaryHolds
  <1>8. Counted' BY <1>1, <1>7 DEF CountInv, Counted, EventCount, IsSummary
  <1> QED BY <1>4, <1>5, <1>6, <1>8 DEF CountInv

(* The reader is done without a summary: nothing is claimed of the counts. *)
LEMMA FailsCount ==
    ASSUME Inv, CountInv, pc \in {"read", "line"}, pc' = "done",
           UNCHANGED <<line, rerr, bytes, count, log, sent, body>>
    PROVE  CountInv'
  <1>1. \A k \in DOMAIN log : ~IsSummary(k)
    BY DEF Inv, SummaryHolds
  <1>2. BodyIsRest' /\ Tracks' /\ Ending' /\ AllCounted'
    BY DEF CountInv, BodyIsRest, Tracks, Ending, AllCounted, Running
  <1>3. Counted' BY <1>1 DEF CountInv, Counted, EventCount, IsSummary
  <1> QED BY <1>2, <1>3 DEF CountInv

(* The end of the stream: the last block is counted, too. *)
LEMMA LastBlock ==
    ASSUME Inv, CountInv, Running, pc = "line" => line = "none", rerr = "eof",
           pc \in {"line", "check"}
    PROVE  count + Open = Cardinality(SentEvents)
  <1>1. server = "eof" /\ body = << >> BY DEF Inv, EofSeen
  <1>2. /\ Handled = Len(sent) /\ Len(sent) \in Nat /\ sent \in Seq(Lines) /\ count \in Nat
    <2>1. Len(body) = 0 BY <1>1
    <2>2. Pending = 0 BY DEF Pending
    <2> QED BY <2>1, <2>2, HandledFacts
  <1>3. /\ "data" \in builder <=> HasData(sent, Len(sent))
        /\ "scalar" \in builder <=> HasScalar(sent, Len(sent))
        /\ count = Cardinality(Closed(sent, Len(sent)))
    BY <1>2 DEF CountInv, Tracks
  <1>4. HasContent <=> HasData(sent, Len(sent)) \/ HasScalar(sent, Len(sent))
    BY <1>3 DEF HasContent, Inv, TypeOK
  <1>5. SentEvents = Closed(sent, Len(sent)) \cup
                       (IF HasContent THEN {Len(sent) + 1} ELSE {})
    BY <1>2, <1>4, SentEventsAre
  <1>6. CASE HasContent
    <2>1. SentEvents = Closed(sent, Len(sent)) \cup {Len(sent) + 1} BY <1>5, <1>6
    <2> QED BY <1>2, <1>3, <1>6, <2>1, ClosedFinite DEF Open
  <1>7. CASE ~HasContent
    <2>1. SentEvents = Closed(sent, Len(sent)) BY <1>5, <1>7
    <2> QED BY <1>2, <1>3, <1>7, <2>1 DEF Open
  <1> QED BY <1>6, <1>7

LEMMA HandleLineCount ==
    ASSUME Inv, CountInv, HandleLine
    PROVE  CountInv'
  <1> USE DEF net
  <1>0. /\ pc = "line" /\ UNCHANGED <<server, body, sent, line, rerr, bytes>>
    BY DEF HandleLine
  <1>1. \A k \in DOMAIN log : ~IsSummary(k)
    BY <1>0 DEF Inv, SummaryHolds
  <1>2. /\ Handled \in Nat /\ bytes \in Nat /\ Len(sent) \in Nat /\ count \in Nat
        /\ Handled = bytes - Pending /\ sent \in Seq(Lines)
    BY HandledFacts
  <1>3. /\ "data" \in builder <=> HasData(sent, Handled)
        /\ "scalar" \in builder <=> HasScalar(sent, Handled)
        /\ count = Cardinality(Closed(sent, Handled)) /\ EventCount = count
    BY <1>0 DEF CountInv, Tracks, Running, Counted
  <1>4. HasContent <=> HasData(sent, Handled) \/ HasScalar(sent, Handled)
    BY <1>3 DEF HasContent, Inv, TypeOK
  <1>b. ASSUME pc' # "line" PROVE BodyIsRest'
    BY <1>0, <1>b DEF CountInv, BodyIsRest
  <1>c. ASSUME \A k \in DOMAIN log' : log'[k].kind # "summary", EventCount' = count'
        PROVE  Counted'
    BY <1>c DEF Counted, IsSummary
  <1>5. CASE line = "bad"
    BY <1>0, <1>5, FailsCount DEF HandleLine, CloseSession
  <1>6. CASE line \in {"blank", "none"}
    <2>1. /\ Finalize
          /\ \/ pc' = "end" /\ reason' = "max_events"
             \/ pc' = "check" /\ reason' = reason
      BY <1>6 DEF HandleLine
    <2>2. /\ EventCount' = count' /\ builder' = {} /\ count' = count + Open
          /\ \A k \in DOMAIN log' : log'[k].kind # "summary"
      BY <1>1, <1>3, <2>1, FinalizeCounts DEF Inv
    <2>3. BodyIsRest' /\ Counted' BY <1>b, <1>c, <2>1, <2>2
    <2>4. Ending' BY <1>0, <2>1, <2>2 DEF Ending, CountInv
    <2>5. AllCounted'
      <3>1. CASE line = "none"
        <4>1. rerr = "eof" BY <1>0, <3>1 DEF CountInv, Ending
        <4>2. count + Open = Cardinality(SentEvents)
          BY <1>0, <3>1, <4>1, LastBlock DEF Running
        <4>3. SentEvents' = SentEvents BY <1>0 DEF SentEvents, Contributes
        <4> QED BY <2>1, <2>2, <4>2, <4>3 DEF AllCounted
      <3>2. CASE line # "none"
        BY <1>0, <2>1, <3>2 DEF AllCounted
      <3> QED BY <3>1, <3>2
    <2>6. Tracks'
      <3>1. CASE pc' = "end" \/ line = "none"
        BY <1>0, <2>1, <3>1 DEF Tracks, Running
      <3>2. CASE pc' = "check" /\ line = "blank"
        <4>1. Handled' = Handled + 1 /\ bytes = Handled + 1 /\ Handled' = bytes
          BY <1>0, <1>2, <3>2 DEF Handled, Pending
        <4>2. sent[Handled + 1] = "blank"
          BY <1>0, <3>2, <4>1 DEF CountInv, BodyIsRest
        <4>3. ~HasData(sent, Handled + 1) /\ ~HasScalar(sent, Handled + 1)
          BY <1>2, <4>2, OneMoreLine
        <4>4. Closed(sent, Handled + 1) =
                Closed(sent, Handled) \cup (IF HasContent THEN {Handled + 1} ELSE {})
          BY <1>2, <1>4, <4>2, OneMoreLine
        <4>5. count + Open = Cardinality(Closed(sent, Handled + 1))
          <5>1. CASE HasContent
            <6>1. Closed(sent, Handled + 1) = Closed(sent, Handled) \cup {Handled + 1}
              BY <4>4, <5>1
            <6> QED BY <1>2, <1>3, <5>1, <6>1, ClosedFinite DEF Open
          <5>2. CASE ~HasContent
            <6>1. Closed(sent, Handled + 1) = Closed(sent, Handled)
              BY <4>4, <5>2
            <6> QED BY <1>2, <1>3, <5>2, <6>1 DEF Open
          <5> QED BY <5>1, <5>2
        <4>6. /\ "data" \in builder' <=> HasData(sent', Handled')
              /\ "scalar" \in builder' <=> HasScalar(sent', Handled')
              /\ count' = Cardinality(Closed(sent', Handled'))
          BY <1>0, <2>2, <4>1, <4>3, <4>5
        <4> QED BY <4>6 DEF Tracks
      <3> QED BY <1>6, <2>1, <3>1, <3>2
    <2> QED BY <2>3, <2>4, <2>5, <2>6 DEF CountInv
  <1>7. CASE line \notin {"blank", "none", "bad"}
    <2>1. builder' = Consume(line) /\ pc' = "check" /\ UNCHANGED <<count, reason, log>>
      BY <1>7 DEF HandleLine
    <2>2. BodyIsRest' BY <1>b, <2>1
    <2>3. Ending' /\ AllCounted' BY <1>0, <1>7, <2>1 DEF Ending, AllCounted
    <2>4. Counted' BY <1>1, <2>1 DEF CountInv, Counted, EventCount, IsSummary
    <2>5. Handled' = Handled + 1 /\ bytes = Handled + 1
      BY <1>0, <1>2, <1>7, <2>1 DEF Handled, Pending
    <2>6. sent[Handled + 1] = line
      BY <1>0, <1>7, <2>5 DEF CountInv, BodyIsRest
    <2>7. Closed(sent, Handled + 1) = Closed(sent, Handled)
      <3>1. sent[Handled + 1] # "blank" BY <1>7, <2>6
      <3>2. Closed(sent, Handled + 1) =
              Closed(sent, Handled) \cup
                (IF sent[Handled + 1] = "blank" /\ (HasData(sent, Handled) \/ HasScalar(sent, Handled))
                 THEN {Handled + 1} ELSE {})
        BY <1>2, OneMoreLine
      <3> QED BY <3>1, <3>2
    <2>8. /\ HasData(sent, Handled + 1) <=> line = "data" \/ HasData(sent, Handled)
          /\ HasScalar(sent, Handled + 1) <=> line = "scalar" \/ (HasScalar(sent, Handled) /\ line # "clear")
      BY <1>2, <1>7, <2>6, OneMoreLine
    <2>9. /\ "data" \in builder' <=> line = "data" \/ "data" \in builder
          /\ "scalar" \in builder' <=> line = "scalar" \/ ("scalar" \in builder /\ line # "clear")
      BY <1>7, <2>1 DEF Consume
    <2>10. /\ "data" \in builder' <=> HasData(sent', Handled')
           /\ "scalar" \in builder' <=> HasScalar(sent', Handled')
           /\ count' = Cardinality(Closed(sent', Handled'))
      BY <1>0, <1>3, <2>1, <2>5, <2>7, <2>8, <2>9
    <2>11. Tracks' BY <2>10 DEF Tracks
    <2> QED BY <2>2, <2>3, <2>4, <2>11 DEF CountInv
  <1> QED BY <1>5, <1>6, <1>7

LEMMA CheckEndCount ==
    ASSUME Inv, CountInv, CheckEnd
    PROVE  CountInv'
  <1> USE DEF net
  <1>0. pc = "check" /\ UNCHANGED <<server, body, sent, line, rerr, bytes>>
    BY DEF CheckEnd
  <1>1. \A k \in DOMAIN log : ~IsSummary(k)
    BY <1>0 DEF Inv, SummaryHolds
  <1>s. SentEvents' = SentEvents BY <1>0 DEF SentEvents, Contributes
  <1>2. CASE ByteLimit \/ rerr # "eof"
    <2>1. /\ UNCHANGED <<builder, count, log>>
          /\ \/ pc' = "end" /\ reason' # "eof"
             \/ pc' = "read" /\ rerr # "eof"
      BY <1>2 DEF CheckEnd, Because
    <2>2. BodyIsRest' /\ Ending' /\ AllCounted'
      BY <1>0, <2>1 DEF CountInv, BodyIsRest, Ending, AllCounted
    <2>3. Counted' BY <1>1, <2>1 DEF CountInv, Counted, EventCount, IsSummary
    <2>4. Tracks'
      <3>1. CASE pc' = "end" BY <3>1 DEF Tracks, Running
      <3>2. CASE pc' = "read" /\ rerr # "eof"
        <4>1. Running BY <1>0, <3>2 DEF CountInv, Ending, Running
        <4>2. Handled' = Handled BY <1>0, <3>2 DEF Handled, Pending
        <4>3. /\ "data" \in builder' <=> HasData(sent', Handled')
              /\ "scalar" \in builder' <=> HasScalar(sent', Handled')
              /\ count' = Cardinality(Closed(sent', Handled'))
          BY <1>0, <2>1, <4>1, <4>2 DEF CountInv, Tracks
        <4> QED BY <4>3 DEF Tracks
      <3> QED BY <2>1, <3>1, <3>2
    <2> QED BY <2>2, <2>3, <2>4 DEF CountInv
  <1>3. CASE ~ByteLimit /\ rerr = "eof"
    <2>1. Finalize /\ pc' = "end" /\ reason' = reason
      BY <1>3 DEF CheckEnd
    <2>2. /\ EventCount' = count' /\ builder' = {} /\ count' = count + Open
          /\ \A k \in DOMAIN log' : log'[k].kind # "summary"
      BY <1>1, <2>1, FinalizeCounts DEF Inv, CountInv, Counted
    <2>3. count + Open = Cardinality(SentEvents)
      <3>1. CASE line = "none"
        <4>1. builder = {} /\ count = Cardinality(SentEvents)
          BY <1>0, <3>1 DEF CountInv, Ending, AllCounted
        <4> QED BY <4>1, HandledFacts DEF Open, HasContent
      <3>2. CASE line # "none"
        BY <1>0, <1>3, <3>2, LastBlock DEF Running
      <3> QED BY <3>1, <3>2
    <2>4. BodyIsRest' /\ Tracks' /\ Ending'
      BY <1>0, <2>1 DEF CountInv, BodyIsRest, Tracks, Running, Ending
    <2>5. AllCounted' BY <1>s, <2>2, <2>3 DEF AllCounted
    <2>6. Counted' BY <2>2 DEF Counted, IsSummary
    <2> QED BY <2>4, <2>5, <2>6 DEF CountInv
  <1> QED BY <1>2, <1>3

LEMMA EndCount ==
    ASSUME Inv, CountInv, PublishSummary \/ Close
    PROVE  CountInv'
  <1> USE DEF net
  <1>0. /\ UNCHANGED <<body, sent, bytes, count>> /\ pc' \in {"close", "done"}
    BY DEF PublishSummary, Close, CloseSession
  <1>1. BodyIsRest' /\ Tracks' /\ Ending' /\ AllCounted'
    BY <1>0 DEF CountInv, BodyIsRest, Tracks, Running, Ending, AllCounted
  <1>s. SentEvents' = SentEvents BY <1>0 DEF SentEvents, Contributes
  <1>2. CASE Close
    <2>1. log' = log BY <1>2 DEF Close
    <2>2. Counted' BY <1>0, <1>s, <2>1 DEF CountInv, Counted, EventCount, IsSummary
    <2> QED BY <1>1, <2>2 DEF CountInv
  <1>3. CASE PublishSummary
    <2> DEFINE e == [kind |-> "summary", reason |-> reason, bytes |-> bytes, events |-> count]
    <2>1. pc = "end" /\ log' = Append(log, e) BY <1>3 DEF PublishSummary, Publish
    <2>2. /\ log \in Seq(Entries) /\ e \in Entries /\ e.kind # "event" /\ count \in Nat
      <3>1. log \in Seq(Entries) /\ reason \in Reasons BY DEF Inv, TypeOK
      <3>2. count \in Nat /\ bytes \in Nat BY HandledFacts
      <3> QED BY <3>1, <3>2 DEF Entries
    <2>3. /\ EventCount' = EventCount + 0 /\ EventCount \in Nat
          /\ Len(log') = Len(log) + 1 /\ log'[Len(log) + 1] = e
          /\ \A k \in DOMAIN log' : (k \in DOMAIN log /\ log'[k] = log[k]) \/ k = Len(log) + 1
      BY <2>1, <2>2, EventPublished
    <2>4. \A k \in DOMAIN log : ~IsSummary(k)
      BY <2>1 DEF Inv, SummaryHolds
    <2>5. EventCount' = count' BY <1>0, <2>3 DEF CountInv, Counted
    <2>6. reason = "eof" => count = Cardinality(SentEvents)
      BY <2>1 DEF CountInv, AllCounted
    <2>7. ASSUME NEW k \in DOMAIN log', log'[k].kind = "summary"
          PROVE  /\ k = Len(log') /\ log'[k].events = count' /\ log'[k].bytes = bytes'
                 /\ log'[k].reason = "eof" => count' = Cardinality(SentEvents')
      <3>1. k = Len(log) + 1 /\ log'[k] = e BY <2>3, <2>4, <2>7 DEF IsSummary
      <3>2. e.events = count /\ e.bytes = bytes /\ e.reason = reason OBVIOUS
      <3> QED BY <1>0, <1>s, <2>3, <2>6, <3>1, <3>2
    <2>8. Counted' BY <2>5, <2>7 DEF Counted, IsSummary
    <2> QED BY <1>1, <2>8 DEF CountInv
  <1> QED BY <1>2, <1>3

LEMMA InitCount == Init => CountInv
  <1> SUFFICES ASSUME Init PROVE CountInv OBVIOUS
  <1>1. /\ pc = "read" /\ builder = {} /\ bytes = 0 /\ count = 0 /\ line = "none"
        /\ sent = << >> /\ body = << >> /\ log = << >>
    BY DEF Init
  <1>2. Handled = 0 BY <1>1 DEF Handled, Pending
  <1>3. ~HasData(sent, 0) /\ ~HasScalar(sent, 0) /\ Closed(sent, 0) = {}
    BY DEF HasData, HasScalar, Closed
  <1>4. Cardinality({}) = 0 BY FS_EmptySet
  <1>5. BodyIsRest /\ Tracks /\ Ending /\ AllCounted
    BY <1>1, <1>2, <1>3, <1>4 DEF BodyIsRest, Tracks, Ending, AllCounted
  <1>6. EventCount = 0
    <2>1. {k \in DOMAIN log : log[k].kind = "event"} = {} BY <1>1
    <2> QED BY <1>4, <2>1 DEF EventCount
  <1>7. Counted BY <1>1, <1>6 DEF Counted
  <1> QED BY <1>5, <1>7 DEF CountInv

LEMMA StepCount ==
    ASSUME Inv, CountInv, [Next]_vars
    PROVE  CountInv'
  <1> USE DEF net, reader
  <1>1. CASE UNCHANGED vars BY <1>1, CountKept DEF vars
  <1>2. ASSUME NEW how \in {"eof", "broken"}, ServerEnds(how) PROVE CountInv'
    BY <1>2, CountKept DEF ServerEnds
  <1>3. CASE CancelRequest \/ CancelSession BY <1>3, CountKept DEF CancelRequest, CancelSession
  <1>4. CASE IdleWatch
    BY <1>4, CountKept DEF IdleWatch, IdleStops, IdleExpires, IdleWrites, IdleCancels
  <1>5. CASE ReadFails BY <1>5, FailsCount DEF ReadFails, CloseSession
  <1>6. CASE \E l \in Lines : ServerSends(l) BY <1>6, ServerSendsCount
  <1>7. CASE ReadLine \/ HandleLine \/ CheckEnd \/ PublishSummary \/ Close
    BY <1>7, ReadLineCount, HandleLineCount, CheckEndCount, EndCount
  <1> QED BY <1>1, <1>2, <1>3, <1>4, <1>5, <1>6, <1>7 DEF Next, Reader

-----------------------------------------------------------------------------
(* The string is torn only in the middle of the watch's write, or because    *)
(* the reader used it then; a torn one is published only by such a use.      *)
WholeInv ==
    /\ reason = "torn" => idle = "writing" \/ raced
    /\ idle = "writing" => raced \/ reason = "torn"
    /\ \A k \in DOMAIN log : IsSummary(k) /\ log[k].reason = "torn" => raced

LEMMA StepWhole ==
    ASSUME Inv, WholeInv, [Next]_vars
    PROVE  WholeInv'
  <1> USE DEF WholeInv, IsSummary
  <1>0. log \in Seq(Entries) /\ raced \in BOOLEAN BY DEF Inv, TypeOK
  <1>1. CASE UNCHANGED <<reason, idle, raced, log>> BY <1>1
  <1>2. CASE IdleStops \/ IdleExpires \/ IdleWrites \/ IdleCancels
    BY <1>2 DEF IdleStops, IdleExpires, IdleWrites, IdleCancels
  <1>3. ASSUME Uses, idle' = idle, log' = log, reason' # "torn" \/ reason' = reason
        PROVE  WholeInv'
    BY <1>3 DEF Uses
  <1>4. ASSUME Finalize PROVE \A k \in DOMAIN log' : IsSummary(k)' => k \in DOMAIN log /\ log'[k] = log[k]
    <2>1. CASE HasContent
      <3>1. log' = Append(log, Event) BY <1>4, <2>1 DEF Finalize, Publish
      <3> QED BY <1>0, <3>1 DEF Event
    <2>2. CASE ~HasContent BY <1>4, <2>2 DEF Finalize
    <2> QED BY <2>1, <2>2
  <1>5. CASE HandleLine
    <2>1. CASE line \in {"blank", "none"}
      <3>1. Finalize /\ idle' = idle /\ ((Uses /\ reason' = "max_events") \/ UNCHANGED <<reason, raced>>)
        BY <1>5, <2>1 DEF HandleLine
      <3>2. \A k \in DOMAIN log' : IsSummary(k)' => k \in DOMAIN log /\ log'[k] = log[k]
        BY <1>4, <3>1
      <3>3. CASE UNCHANGED <<reason, raced>> BY <3>1, <3>2, <3>3
      <3>4. CASE Uses /\ reason' = "max_events"
        <4>1. raced => raced' BY <3>4 DEF Uses
        <4>2. idle' = "writing" => raced' BY <3>1, <3>4 DEF Uses
        <4> QED BY <3>2, <3>4, <4>1, <4>2
      <3> QED BY <3>1, <3>3, <3>4
    <2>2. CASE line \notin {"blank", "none"}
      BY <1>1, <1>5, <2>2 DEF HandleLine
    <2> QED BY <2>1, <2>2
  <1>6. CASE CheckEnd
    <2>1. CASE ByteLimit \/ (rerr # "eof" /\ CtxErr)
      <3>1. Uses /\ idle' = idle /\ log' = log /\ (reason' # "torn" \/ reason' = reason)
        BY <1>6, <2>1 DEF CheckEnd, Because
      <3> QED BY <1>3, <3>1
    <2>2. CASE ~ByteLimit /\ rerr = "eof"
      <3>1. Finalize /\ UNCHANGED <<idle, reason, raced>> BY <1>6, <2>2 DEF CheckEnd
      <3> QED BY <1>4, <3>1
    <2>3. CASE ~ByteLimit /\ rerr # "eof" /\ ~CtxErr
      BY <1>1, <1>6, <2>3 DEF CheckEnd
    <2> QED BY <2>1, <2>2, <2>3
  <1>7. CASE PublishSummary
    <2>1. /\ Uses /\ UNCHANGED <<idle, reason>>
          /\ log' = Append(log, [kind |-> "summary", reason |-> reason,
                                 bytes |-> bytes, events |-> count])
      BY <1>7 DEF PublishSummary, Publish
    <2>2. \A k \in DOMAIN log' : \/ k \in DOMAIN log /\ log'[k] = log[k]
                                 \/ log'[k].reason = reason
      BY <1>0, <2>1
    <2> QED BY <1>0, <2>1, <2>2 DEF Uses
  <1>8. CASE Close BY <1>3, <1>8 DEF Close
  <1>9. CASE \/ \E l \in Lines : ServerSends(l)
             \/ \E how \in {"eof", "broken"} : ServerEnds(how)
             \/ CancelRequest \/ CancelSession \/ ReadLine \/ ReadFails \/ UNCHANGED vars
    BY <1>1, <1>9 DEF ServerSends, ServerEnds, CancelRequest, CancelSession, ReadLine, ReadFails,
                      vars
  <1> QED BY <1>2, <1>5, <1>6, <1>7, <1>8, <1>9 DEF Next, IdleWatch, Reader

-----------------------------------------------------------------------------
(* The reader, the idle watch and the cancels keep the invariant, for every *)
(* bound and every set of options.                                          *)
THEOREM StreamInvariant == Spec => []Inv
  <1>1. Inv /\ [Next]_vars => Inv' BY StepTypes, StepReason DEF Inv
  <1> QED BY <1>1, InitInv, PTL DEF Spec

(* The types are kept; in particular no more lines are counted than sent.   *)
THEOREM TypeCorrect == Spec => []TypeOK
  <1>1. Inv => TypeOK BY DEF Inv
  <1> QED BY <1>1, StreamInvariant, PTL

(* MaxEvents and MaxBytes of runSSESession hold on every path to its end.   *)
THEOREM LimitsAlwaysHold == Spec => []LimitsHold
  <1>1. Inv => LimitsHold BY DEF Inv, UnderLimits, LimitsHold
  <1> QED BY <1>1, StreamInvariant, PTL

(* The reason CompleteSSE reports is whole unless the reader used it in the  *)
(* middle of the idle watch's write, and a whole one is true.                *)
THEOREM ReasonsAreTrue == Spec => []ReasonIsTrue
  <1>1. Inv /\ WholeInv => ReasonIsTrue
    <2> SUFFICES ASSUME Inv, WholeInv, Over PROVE ReasonIsTrue BY DEF ReasonIsTrue
    <2>1. CASE HasSummary
      <3>1. Len(log) \in DOMAIN log BY <2>1, LenProperties, EmptySeq DEF Inv, TypeOK, HasSummary
      <3>2. Holds(Summary.reason) /\ (Summary.reason = "torn" => raced)
        BY <2>1, <3>1 DEF Inv, SummaryHolds, WholeInv, IsSummary, HasSummary, Summary
      <3>3. Reason \in {"error", Summary.reason} BY <2>1 DEF Reason
      <3> QED BY <3>2, <3>3 DEF Holds, ReasonIsTrue
    <2>2. CASE ~HasSummary BY <2>2 DEF ReasonIsTrue, Reason
    <2> QED BY <2>1, <2>2
  <1>2. Init => WholeInv BY DEF Init, WholeInv
  <1>3. Inv /\ WholeInv /\ [Next]_vars => WholeInv' BY StepWhole
  <1> QED BY <1>1, <1>2, <1>3, StreamInvariant, PTL DEF Spec

(* The summary runSSESession publishes is the last event and counts what was *)
(* published; a stream that ended with eof has delivered every event the     *)
(* server sent, the one it ended in the middle of included.                  *)
THEOREM SummaryAlwaysRight == Spec => []SummaryIsRight
  <1>1. Inv /\ CountInv /\ [Next]_vars => CountInv' BY StepCount
  <1>2. CountInv => SummaryIsRight BY DEF CountInv, Counted, SummaryIsRight, IsSummary
  <1> QED BY <1>1, <1>2, InitCount, StreamInvariant, PTL DEF Spec
=============================================================================
