--------------------------- MODULE WsRuntimeProofs ---------------------------
(***************************************************************************)
(* Theorems about WsRuntime for any set of senders, any number of messages, *)
(* frames and faults and any capacity of the write channel.                 *)
(***************************************************************************)
EXTENDS WsRuntime, TLAPS

(* A message is with its sender, in the channel, in writeLoop's hand, or has *)
(* been written: it is written once.                                         *)
InSend(s) == spc[s] \in {"send", "autoSend"}
InCall(s) == spc[s] \in {"send", "await", "autoSend", "autoAwait"}
InHand == pc["writer"] \in {"begin", "write", "finish"}
MsgInv ==
    /\ \A s \in Senders : InCall(s) => smsg[s] \in 1..nmsg
    /\ \A s \in Senders : InSend(s) => smsg[s] \in 1..nmsg /\ smsg[s] \notin wire
    /\ \A s, t \in Senders : InSend(s) /\ InSend(t) /\ smsg[s] = smsg[t] => s = t
    /\ \A i \in DOMAIN ch : ch[i] \in 1..nmsg /\ ch[i] \notin wire
    /\ \A i, j \in DOMAIN ch : ch[i] = ch[j] => i = j
    /\ \A i \in DOMAIN ch : \A s \in Senders : InSend(s) => smsg[s] # ch[i]
    /\ wire \subseteq 1..nmsg
    /\ InHand => /\ msg \in 1..nmsg
                 /\ \A i \in DOMAIN ch : ch[i] # msg
                 /\ \A s \in Senders : InSend(s) => smsg[s] # msg
    /\ pc["writer"] \in {"begin", "write"} => msg \notin wire

(* Frames are held back only during a write, and a write that is under way   *)
(* holds them back unless the runtime is done; no send is held back.         *)
RtInv ==
    /\ ~out => q = <<>>
    /\ done => ~out
    /\ pc["writer"] \in {"write", "finish"} => out \/ done
    /\ \A i \in DOMAIN q : q[i][1] # "send"

(* The frames on their way are numbered up to the last one the server sent,  *)
(* and answer what was written before.                                       *)
NetInv ==
    /\ Len(net) <= sent
    /\ \A i \in DOMAIN net : net[i][1] = sent - Len(net) + i /\ net[i][2] \in wire \cup {None}
    /\ pc["reader"] = "got" => /\ frame[1] = sent - Len(net) /\ frame[1] > 0
                               /\ frame[2] \in wire \cup {None}
    /\ \A i \in DOMAIN Handed : Frame(Handed[i]) => Handed[i][3] \in wire \cup {None}

(* No answer to the message that is being written is in the transcript yet.  *)
AnswerInv ==
    ~done /\ pc["writer"] \in {"write", "finish"} =>
        \A i \in DOMAIN log : Frame(log[i]) => log[i][3] # msg

(* writeLoop is on its way to report a write that went well.                 *)
Reporting ==
    \/ pc["writer"] \in {"terminal", "result"}
    \/ pc["writer"] \in {"cancel", "decide"} /\ after["writer"] \in {"terminal", "result"}
RecInv == Reporting /\ wok /\ ~done => \E i \in DOMAIN log : log[i] = Sent(msg)

-----------------------------------------------------------------------------
LEMMA MsgFacts == Loops = {"reader", "writer", "idle"} /\ None \notin Msgs
                  /\ MaxMsgs \in Nat /\ MaxRecv \in Nat /\ MaxFaults \in Nat /\ QueueCap \in Nat
BY WsAssumption DEF Loops, None, Msgs

LEMMA FrameEvents ==
    ASSUME NEW f \in Frames
    PROVE  Received(f) \in Events /\ Received(f)[2] = f[1] /\ Received(f)[3] = f[2]
           /\ Frame(Received(f))
BY DEF Events, Received, Frame

LEMMA SentEvents ==
    ASSUME NEW m \in Msgs
    PROVE  Sent(m) \in Events /\ ~Frame(Sent(m))
BY DEF Events, Sent, Frame

LEMMA EndEvents ==
    /\ ServerClosed \in Events /\ ~Frame(ServerClosed)
    /\ IdleEnded \in Events /\ ~Frame(IdleEnded)
BY DEF Events, ServerClosed, IdleEnded, Frame

(* A goroutine goes on, or closes the session first. *)
PCs == {"loop", "got", "begin", "write", "finish", "terminal", "result", "shut",
        "uncontext", "disconnect", "leave", "cancel", "decide", "exit"}
Afters == {"shut", "exit", "result", "terminal", "leave"}
TypeLoops == pc \in [Loops -> PCs] /\ earg \in [Loops -> Errors] /\ after \in [Loops -> Afters]

LEMMA GotoType ==
    ASSUME TypeLoops, NEW g \in Loops, NEW l \in PCs, Goto(g, l)
    PROVE  TypeLoops' /\ pc' = [pc EXCEPT ![g] = l] /\ after' = after
BY DEF TypeLoops, Goto

LEMMA CallCloseType ==
    ASSUME TypeLoops, NEW g \in Loops, NEW e \in Errors, NEW l \in Afters, CallClose(g, e, l)
    PROVE  TypeLoops' /\ pc' = [pc EXCEPT ![g] = "cancel"] /\ after' = [after EXCEPT ![g] = l]
BY DEF TypeLoops, CallClose, PCs

-----------------------------------------------------------------------------
(* Types, in groups. *)
TypeRt == out \in BOOLEAN /\ end \in BOOLEAN /\ done \in BOOLEAN /\ q \in Seq(Events) /\ endErr \in Errors
TypeSession ==
    /\ log \in Seq(Events) /\ outcome \in Errors /\ ended \in BOOLEAN /\ ctx \in BOOLEAN
    /\ state \in {"open", "closing", "closed", "failed"}
TypeChannel == ch \in Seq(Msgs) /\ Len(ch) <= QueueCap /\ chClosed \in BOOLEAN
TypeNetwork ==
    /\ wire \subseteq Msgs /\ net \in Seq(Frames) /\ sent \in 0..MaxRecv
    /\ conn \in {"open", "peer", "closed"}
TypeHands == frame \in Frames \cup {<<None, None>>} /\ msg \in Msgs \cup {None} /\ wok \in BOOLEAN
TypeOnce == once \in {"idle", "reader", "writer", "done"}
TypeMessages ==
    /\ kind \in [Msgs -> {"data", "close"}] /\ res \in [Msgs -> {"none"} \cup Errors]
    /\ expired \subseteq Msgs /\ nmsg \in 0..MaxMsgs
TypeSenders ==
    /\ spc \in [Senders -> {"idle", "send", "await", "autoSend", "autoAwait", "done", "failed",
                            "returned"}]
    /\ smsg \in [Senders -> Msgs \cup {None}] /\ scripted \in BOOLEAN
TypeFaults == faults \in 0..MaxFaults

LEMMA TypeGroups ==
    TypeOK <=> /\ TypeRt /\ TypeSession /\ TypeChannel /\ TypeNetwork /\ TypeLoops /\ TypeHands
               /\ TypeOnce /\ TypeMessages /\ TypeSenders /\ TypeFaults
BY DEF TypeOK, TypeRt, TypeSession, TypeChannel, TypeNetwork, TypeLoops, TypeHands, TypeOnce,
       TypeMessages, TypeSenders, TypeFaults, PCs, Afters

LEMMA TypeGroupsNext ==
    ASSUME TypeRt', TypeSession', TypeChannel', TypeNetwork', TypeLoops', TypeHands',
           TypeOnce', TypeMessages', TypeSenders', TypeFaults'
    PROVE  TypeOK'
BY DEF TypeOK, TypeRt, TypeSession, TypeChannel, TypeNetwork, TypeLoops, TypeHands, TypeOnce,
       TypeMessages, TypeSenders, TypeFaults, PCs, Afters

LEMMA TypeKept ==
    /\ TypeRt /\ UNCHANGED rt => TypeRt'
    /\ TypeSession /\ UNCHANGED session => TypeSession'
    /\ TypeChannel /\ UNCHANGED channel => TypeChannel'
    /\ TypeNetwork /\ UNCHANGED network => TypeNetwork'
    /\ TypeLoops /\ UNCHANGED loops => TypeLoops'
    /\ TypeHands /\ UNCHANGED hands => TypeHands'
    /\ TypeOnce /\ UNCHANGED once => TypeOnce'
    /\ TypeMessages /\ UNCHANGED messages => TypeMessages'
    /\ TypeSenders /\ UNCHANGED senders => TypeSenders'
    /\ TypeFaults /\ UNCHANGED faults => TypeFaults'
BY DEF TypeRt, TypeSession, TypeChannel, TypeNetwork, TypeLoops, TypeHands, TypeOnce,
       TypeMessages, TypeSenders, TypeFaults, rt, session, channel, network, loops, hands,
       messages, senders

(* Everything but the faults, which Next counts. *)
TypeRest ==
    /\ TypeRt /\ TypeSession /\ TypeChannel /\ TypeNetwork /\ TypeLoops /\ TypeHands
    /\ TypeOnce /\ TypeMessages /\ TypeSenders

LEMMA SessionTypes ==
    ASSUME TypeRest, NEW g \in Loops, SessionClose(g) \/ Shutdown(g), g # "idle" \/ SessionClose(g)
    PROVE  TypeRest'
<1> USE DEF TypeRest
<1>f. after[g] \in Afters /\ earg[g] \in Errors
  BY DEF TypeLoops
<1>1. CASE CancelContext(g)
  BY <1>1, GotoType, TypeKept DEF CancelContext, TypeSession, PCs, session
<1>2. CASE DecideEnd(g)
  <2>1. TypeLoops'
    BY <1>2, <1>f, GotoType DEF DecideEnd, PCs, Afters
  <2>2. TypeSession'
    BY <1>2, <1>f DEF DecideEnd, TypeSession, Errors
  <2> QED BY <1>2, <2>1, <2>2, TypeKept DEF DecideEnd
<1>3. CASE ShutdownBegin(g)
  <2>1. TypeLoops'
    BY <1>3, GotoType DEF ShutdownBegin, PCs
  <2>2. TypeChannel' /\ UNCHANGED <<rt, session, network, hands, messages, senders>>
    BY <1>3 DEF ShutdownBegin, TypeChannel
  <2>3. g # "idle"
    BY <1>3 DEF ShutdownBegin, SessionClose, CancelContext, DecideEnd
  <2>4. TypeOnce'
    BY <1>3, <2>3, MsgFacts DEF ShutdownBegin, TypeOnce
  <2> QED BY <2>1, <2>2, <2>4, TypeKept
<1>4. CASE ShutdownCancel(g)
  BY <1>4, GotoType, TypeKept DEF ShutdownCancel, TypeSession, PCs
<1>5. CASE ShutdownConn(g)
  <2>1. TypeLoops'
    BY <1>5, GotoType, CallCloseType DEF ShutdownConn, PCs, Afters, Errors
  <2>2. TypeNetwork'
    BY <1>5 DEF ShutdownConn, TypeNetwork
  <2> QED BY <1>5, <2>1, <2>2, TypeKept DEF ShutdownConn
<1>6. CASE ShutdownEnd(g)
  BY <1>6, GotoType, TypeKept DEF ShutdownEnd, TypeOnce, PCs
<1> QED BY <1>1, <1>2, <1>3, <1>4, <1>5, <1>6 DEF SessionClose, Shutdown

LEMMA CloseTerminalTypes ==
    ASSUME TypeRt, TypeSession, TypeLoops, NEW g \in Loops, NEW evts \in Seq(Events),
           NEW e \in Errors, NEW l \in Afters, CloseTerminalNow(g, evts, e, l),
           UNCHANGED <<ended, outcome, state, ctx>>
    PROVE  TypeRt' /\ TypeSession' /\ TypeLoops'
<1>1. CASE done
  <2>1. UNCHANGED <<rt, log>> /\ Goto(g, l)
    BY <1>1 DEF CloseTerminalNow
  <2>2. TypeLoops'
    BY <2>1, GotoType DEF PCs, Afters
  <2> QED BY <2>1, <2>2 DEF TypeRt, TypeSession, rt
<1>2. CASE ~done
  <2>1. /\ log' = log \o q \o evts
        /\ q' = <<>> /\ end' = FALSE /\ endErr' = "nil" /\ out' = FALSE /\ done' = TRUE
        /\ CallClose(g, e, l)
    BY <1>2 DEF CloseTerminalNow
  <2>2. TypeLoops'
    BY <2>1, CallCloseType
  <2>3. log' \in Seq(Events)
    BY <2>1 DEF TypeRt, TypeSession
  <2>4. TypeRt'
    <3>1. <<>> \in Seq(Events)
      OBVIOUS
    <3> QED BY <2>1, <3>1 DEF TypeRt, Errors
  <2> QED BY <2>2, <2>3, <2>4 DEF TypeSession
<1> QED BY <1>1, <1>2

LEMMA ReaderTypes ==
    ASSUME TypeRest, NetInv, ReadFrame \/ ReadPublish \/ ReadClose \/ ReadFails
    PROVE  TypeRest'
<1> USE DEF TypeRest
<1>0. "reader" \in Loops
  BY DEF Loops
<1>1. CASE ReadFrame
  <2>1. TypeLoops'
    BY <1>0, <1>1, GotoType DEF ReadFrame, PCs
  <2>2. net \in Seq(Frames) /\ net # <<>> /\ frame' = Head(net) /\ net' = Tail(net)
    BY <1>1 DEF ReadFrame, TypeNetwork
  <2>3. frame' \in Frames /\ net' \in Seq(Frames)
    BY <2>2
  <2>4. TypeNetwork' /\ TypeHands'
    BY <1>1, <2>3 DEF ReadFrame, TypeNetwork, TypeHands
  <2> QED BY <1>1, <2>1, <2>4, TypeKept DEF ReadFrame
<1>2. CASE ReadPublish
  <2>1. TypeLoops'
    BY <1>0, <1>2, GotoType DEF ReadPublish, PCs
  <2>2. frame \in Frames
    <3>1. frame[1] > 0
      BY <1>2 DEF ReadPublish, NetInv
    <3>2. <<None, None>>[1] = 0
      BY DEF None
    <3> QED BY <3>1, <3>2 DEF TypeHands
  <2>3. Received(frame) \in Events
    BY <2>2, FrameEvents
  <2>4. log' \in Seq(Events) /\ q' \in Seq(Events)
    <3>1. PublishReceive(Received(frame)) /\ q \in Seq(Events) /\ log \in Seq(Events)
      BY <1>2 DEF ReadPublish, TypeRt, TypeSession
    <3>2. ASSUME NEW e \in Events, PublishReceive(e)
          PROVE  log' \in Seq(Events) /\ q' \in Seq(Events)
      <4>1. Append(log, e) \in Seq(Events) /\ Append(q, e) \in Seq(Events)
        BY <3>1
      <4> QED BY <3>1, <3>2, <4>1 DEF PublishReceive
    <3> QED BY <2>3, <3>1, <3>2
  <2>5. TypeRt' /\ TypeSession'
    BY <1>2, <2>4 DEF ReadPublish, TypeRt, TypeSession
  <2> QED BY <1>2, <2>1, <2>5, TypeKept DEF ReadPublish
<1>3. CASE ReadClose
  <2>1. UNCHANGED <<ended, outcome, state, ctx, channel, network, hands, once, messages, senders>>
    BY <1>3 DEF ReadClose
  <2>2. PublishTerminal(ServerClosed) /\ ServerClosed \in Events
    BY <1>3, EndEvents DEF ReadClose
  <2>3. CASE UNCHANGED <<rt, log>> /\ Goto("reader", "shut")
    <3>1. TypeLoops'
      BY <1>0, <2>3, GotoType DEF PCs
    <3> QED BY <2>1, <2>3, <3>1, TypeKept DEF TypeRt, TypeSession, rt
  <2>4. CASE /\ q' = Append(q, ServerClosed) /\ end' = TRUE /\ endErr' = "nil"
             /\ UNCHANGED <<out, done, log>> /\ Goto("reader", "shut")
    <3>1. TypeLoops'
      BY <1>0, <2>4, GotoType DEF PCs
    <3>2. q' \in Seq(Events)
      BY <2>2, <2>4 DEF TypeRt
    <3> QED BY <2>1, <2>4, <3>1, <3>2, TypeKept DEF TypeRt, TypeSession, Errors
  <2>5. CASE /\ log' = Append(log, ServerClosed) /\ done' = TRUE
             /\ UNCHANGED <<out, q, end, endErr>> /\ CallClose("reader", "nil", "shut")
    <3>1. TypeLoops'
      BY <1>0, <2>5, CallCloseType DEF Errors, Afters
    <3>2. log' \in Seq(Events)
      BY <2>2, <2>5 DEF TypeSession
    <3> QED BY <2>1, <2>5, <3>1, <3>2, TypeKept DEF TypeRt, TypeSession
  <2> QED BY <2>2, <2>3, <2>4, <2>5 DEF PublishTerminal
<1>4. CASE ReadFails
  <2>1. /\ CloseTerminalNow("reader", <<>>, "err", "shut")
        /\ UNCHANGED <<ended, outcome, state, ctx, channel, network, hands, once, messages, senders>>
        /\ <<>> \in Seq(Events) /\ "err" \in Errors /\ "shut" \in Afters
    BY <1>4 DEF ReadFails, Errors, Afters
  <2>2. TypeRt' /\ TypeSession' /\ TypeLoops'
    BY <1>0, <2>1, CloseTerminalTypes
  <2> QED BY <2>1, <2>2, TypeKept
<1> QED BY <1>1, <1>2, <1>3, <1>4

LEMMA WriterTypes ==
    ASSUME TypeRest, MsgInv,
           \/ WriterStops \/ WriterTakes \/ BeginOutbound \/ WriteFrame \/ WriteFails
           \/ WriteFinish \/ WriteTerminal \/ WriteResult
    PROVE  TypeRest'
<1> USE DEF TypeRest
<1>0. "writer" \in Loops
  BY DEF Loops
<1>1. CASE WriterStops
  BY <1>0, <1>1, GotoType, TypeKept DEF WriterStops, PCs
<1>2. CASE WriterTakes
  <2>1. TypeLoops'
    BY <1>0, <1>2, GotoType DEF WriterTakes, PCs
  <2>2. ch \in Seq(Msgs) /\ ch # <<>> /\ msg' = Head(ch) /\ ch' = Tail(ch) /\ Len(ch) <= QueueCap
    BY <1>2 DEF WriterTakes, TypeChannel
  <2>3. msg' \in Msgs /\ ch' \in Seq(Msgs) /\ Len(ch') <= QueueCap
    BY <2>2, MsgFacts
  <2>4. TypeChannel' /\ TypeHands' /\ TypeSession'
    BY <1>2, <2>3 DEF WriterTakes, TypeChannel, TypeHands, TypeSession
  <2> QED BY <1>2, <2>1, <2>4, TypeKept DEF WriterTakes
<1>3. CASE BeginOutbound
  <2>1. TypeLoops'
    BY <1>0, <1>3, GotoType DEF BeginOutbound, PCs
  <2>2. TypeRt' /\ TypeHands'
    BY <1>3 DEF BeginOutbound, TypeRt, TypeHands
  <2> QED BY <1>3, <2>1, <2>2, TypeKept DEF BeginOutbound
<1>4. CASE WriteFrame
  <2>1. TypeLoops'
    BY <1>0, <1>4, GotoType DEF WriteFrame, PCs
  <2>2. msg \in Msgs
    BY <1>4, MsgFacts DEF WriteFrame, MsgInv, InHand, TypeMessages, Msgs
  <2>3. TypeNetwork' /\ TypeHands'
    BY <1>4, <2>2 DEF WriteFrame, TypeNetwork, TypeHands
  <2> QED BY <1>4, <2>1, <2>3, TypeKept DEF WriteFrame
<1>5. CASE WriteFails
  <2>1. TypeLoops'
    BY <1>0, <1>5, GotoType DEF WriteFails, PCs
  <2>2. TypeNetwork'
    BY <1>5 DEF WriteFails, TypeNetwork
  <2> QED BY <1>5, <2>1, <2>2, TypeKept DEF WriteFails
<1>6. CASE WriteFinish
  <2> DEFINE evts == IF wok THEN <<Sent(msg)>> ELSE <<>>
             l == IF wok /\ kind[msg] = "close" THEN "terminal" ELSE "result"
  <2>1. FinishOutbound(evts, l) /\ l \in Afters /\ l \in PCs
    BY <1>6 DEF WriteFinish, Afters, PCs
  <2>2. Sent(msg) \in Events
    BY <1>6, MsgFacts, SentEvents DEF WriteFinish, MsgInv, InHand, TypeMessages, Msgs
  <2>3. evts \in Seq(Events) /\ <<>> \in Seq(Events)
    BY <2>2
  <2> HIDE DEF evts, l
  <2>4. TypeLoops'
    <3>1. CASE CallClose("writer", endErr, l)
      BY <1>0, <2>1, <3>1, CallCloseType DEF TypeRt
    <3>2. CASE Goto("writer", l)
      BY <1>0, <2>1, <3>2, GotoType
    <3> QED BY <2>1, <3>1, <3>2 DEF FinishOutbound
  <2>5. log' \in Seq(Events)
    <3>1. log \o evts \o q \in Seq(Events)
      BY <2>3 DEF TypeRt, TypeSession
    <3> QED BY <2>1, <3>1 DEF FinishOutbound, TypeSession
  <2>6. TypeRt'
    BY <2>1, <2>3 DEF FinishOutbound, TypeRt, Errors
  <2>7. TypeSession'
    BY <1>6, <2>5 DEF WriteFinish, TypeSession
  <2> QED BY <1>6, <2>4, <2>6, <2>7, TypeKept DEF WriteFinish
<1>7. CASE WriteTerminal
  <2>1. /\ CloseTerminalNow("writer", <<>>, "nil", "result")
        /\ UNCHANGED <<ended, outcome, state, ctx, channel, network, hands, once, messages, senders>>
        /\ <<>> \in Seq(Events) /\ "nil" \in Errors /\ "result" \in Afters
    BY <1>7 DEF WriteTerminal, Errors, Afters
  <2>2. TypeRt' /\ TypeSession' /\ TypeLoops'
    BY <1>0, <2>1, CloseTerminalTypes
  <2> QED BY <2>1, <2>2, TypeKept
<1>8. CASE WriteResult
  <2>1. TypeLoops'
    <3>1. CASE CallClose("writer", "err", "shut")
      BY <1>0, <3>1, CallCloseType DEF Errors, Afters
    <3>2. CASE Goto("writer", IF kind[msg] = "close" THEN "shut" ELSE "loop")
      BY <1>0, <3>2, GotoType DEF PCs
    <3> QED BY <1>8, <3>1, <3>2 DEF WriteResult
  <2>2. TypeMessages'
    BY <1>8 DEF WriteResult, TypeMessages, Errors
  <2> QED BY <1>8, <2>1, <2>2, TypeKept DEF WriteResult
<1> QED BY <1>1, <1>2, <1>3, <1>4, <1>5, <1>6, <1>7, <1>8

LEMMA OutsideTypes ==
    ASSUME TypeRest,
           \/ ServerSends \/ ServerCloses \/ ConnectionBreaks \/ UserCancels
           \/ IdleStops \/ IdleExpires
    PROVE  TypeRest'
<1> USE DEF TypeRest
<1>0. "idle" \in Loops
  BY DEF Loops
<1>1. CASE ServerSends
  <2>1. PICK m \in wire \cup {None} : net' = Append(net, <<sent + 1, m>>)
    BY <1>1 DEF ServerSends
  <2>2. <<sent + 1, m>> \in Frames
    BY <1>1, <2>1, MsgFacts DEF ServerSends, TypeNetwork, Frames
  <2>3. net' \in Seq(Frames)
    BY <2>1, <2>2 DEF TypeNetwork
  <2>4. sent' \in 0..MaxRecv
    BY <1>1, MsgFacts DEF ServerSends, TypeNetwork
  <2>5. TypeNetwork'
    BY <1>1, <2>3, <2>4 DEF ServerSends, TypeNetwork
  <2> QED BY <1>1, <2>5, TypeKept DEF ServerSends
<1>2. CASE ServerCloses
  BY <1>2, TypeKept DEF ServerCloses, TypeNetwork
<1>3. CASE ConnectionBreaks
  BY <1>3, TypeKept DEF ConnectionBreaks, TypeNetwork
<1>4. CASE UserCancels
  BY <1>4, TypeKept DEF UserCancels, TypeSession
<1>5. CASE IdleStops
  BY <1>0, <1>5, GotoType, TypeKept DEF IdleStops, PCs
<1>6. CASE IdleExpires
  <2>1. /\ CloseTerminalNow("idle", <<IdleEnded>>, "nil", "exit")
        /\ UNCHANGED <<ended, outcome, state, ctx, channel, network, hands, once, messages, senders>>
        /\ "nil" \in Errors /\ "exit" \in Afters
    BY <1>6 DEF IdleExpires, Errors, Afters
  <2>2. <<IdleEnded>> \in Seq(Events)
    BY EndEvents
  <2>3. TypeRt' /\ TypeSession' /\ TypeLoops'
    BY <1>0, <2>1, <2>2, CloseTerminalTypes
  <2> QED BY <2>1, <2>3, TypeKept
<1> QED BY <1>1, <1>2, <1>3, <1>4, <1>5, <1>6

LEMMA ReturnTypes ==
    ASSUME TypeSenders, ctx \in BOOLEAN, NEW s \in Senders, NEW m, NEW r, Return(s, m, r)
    PROVE  TypeSenders' /\ ctx' \in BOOLEAN
           /\ spc' = [spc EXCEPT ![s] = spc'[s]] /\ spc'[s] \in {"idle", "done", "failed"}
<1>1. smsg' \in [Senders -> Msgs \cup {None}]
  BY DEF Return, TypeSenders
<1>2. PICK l \in {"idle", "done", "failed"} : spc' = [spc EXCEPT ![s] = l]
  BY DEF Return
<1>3. scripted' \in BOOLEAN /\ ctx' \in BOOLEAN
  BY DEF Return, TypeSenders
<1> QED BY <1>1, <1>2, <1>3 DEF TypeSenders

(* The calls of enqueue and of the script. *)
SenderStep(s) ==
    \/ Sender(s) \/ SenderMay(s) \/ EnqueueExpires(s) \/ (s = Script /\ ScriptStepFails)

LEMMA SenderTypes ==
    ASSUME TypeRest, MsgInv, NEW s \in Senders, SenderStep(s)
    PROVE  TypeRest'
<1> USE DEF TypeRest
<1>0. ctx \in BOOLEAN /\ Script \in Senders
  BY WsAssumption DEF TypeSession
<1>1. ASSUME NEW k \in Kinds, Enqueue(s, k)
      PROVE  TypeRest'
  <2>1. nmsg + 1 \in Msgs /\ nmsg' \in 0..MaxMsgs /\ k \in {"data", "close"}
    BY <1>1, MsgFacts, WsAssumption DEF Enqueue, TypeMessages, Msgs
  <2>2. TypeMessages'
    BY <1>1, <2>1 DEF Enqueue, TypeMessages
  <2>3. TypeSenders'
    BY <1>1, <2>1 DEF Enqueue, TypeSenders
  <2> QED BY <1>1, <2>2, <2>3, TypeKept DEF Enqueue
<1>2. CASE s = Script /\ ScriptCloses
  <2>1. CASE nmsg < MaxMsgs /\ nmsg' = nmsg + 1
             /\ kind' = [kind EXCEPT ![nmsg + 1] = "close"]
             /\ smsg' = [smsg EXCEPT ![Script] = nmsg + 1]
             /\ spc' = [spc EXCEPT ![Script] = "autoSend"]
    <3>1. nmsg + 1 \in Msgs /\ nmsg' \in 0..MaxMsgs
      BY <2>1, MsgFacts DEF TypeMessages, Msgs
    <3>2. TypeMessages' /\ TypeSenders'
      BY <1>2, <2>1, <3>1 DEF ScriptCloses, TypeMessages, TypeSenders
    <3> QED BY <1>2, <3>2, TypeKept DEF ScriptCloses
  <2>2. CASE spc' = [spc EXCEPT ![Script] = "done"] /\ UNCHANGED <<nmsg, kind, smsg>>
    <3>1. TypeMessages' /\ TypeSenders'
      BY <1>2, <2>2 DEF ScriptCloses, TypeMessages, TypeSenders
    <3> QED BY <1>2, <3>1, TypeKept DEF ScriptCloses
  <2> QED BY <1>2, <2>1, <2>2 DEF ScriptCloses
<1>3. CASE EnqueueSends(s)
  <2>1. smsg[s] \in Msgs
    BY <1>3, MsgFacts DEF EnqueueSends, MsgInv, InSend, TypeMessages, Msgs
  <2>2. TypeChannel'
    BY <1>3, <2>1, MsgFacts DEF EnqueueSends, TypeChannel
  <2>3. TypeSenders'
    BY <1>3 DEF EnqueueSends, TypeSenders
  <2> QED BY <1>3, <2>2, <2>3, TypeKept DEF EnqueueSends
<1>4. ASSUME NEW m, NEW r, Return(s, m, r),
             UNCHANGED <<rt, log, ended, outcome, state, channel, network, loops, hands, once>>,
             TypeMessages'
      PROVE  TypeRest'
  <2>1. TypeSenders' /\ ctx' \in BOOLEAN
    BY <1>0, <1>4, ReturnTypes
  <2>2. TypeSession'
    BY <1>4, <2>1 DEF TypeSession
  <2> QED BY <1>4, <2>1, <2>2, TypeKept
<1>5. CASE EnqueueRefused(s)
  BY <1>4, <1>5, TypeKept DEF EnqueueRefused
<1>6. CASE EnqueueResult(s)
  BY <1>4, <1>6, TypeKept DEF EnqueueResult
<1>7. CASE EnqueueAbandons(s)
  BY <1>4, <1>7, TypeKept DEF EnqueueAbandons
<1>8. CASE EnqueueExpires(s)
  <2>1. smsg[s] \in Msgs
    BY <1>8, MsgFacts DEF EnqueueExpires, MsgInv, InCall, TypeMessages, Msgs
  <2>2. expired' \subseteq Msgs
    BY <1>8, <2>1 DEF EnqueueExpires, TypeMessages
  <2>3. TypeMessages'
    BY <1>8, <2>2 DEF EnqueueExpires, TypeMessages
  <2> QED BY <1>4, <1>8, <2>3 DEF EnqueueExpires
<1>9. CASE s = Script /\ (ScriptFindsDead \/ ScriptDone)
  <2>1. TypeSenders'
    BY <1>9 DEF ScriptFindsDead, ScriptDone, TypeSenders
  <2> QED BY <1>9, <2>1, TypeKept DEF ScriptFindsDead, ScriptDone
<1>10. CASE s = Script /\ ScriptStepFails
  <2>1. TypeSenders' /\ TypeSession'
    BY <1>10 DEF ScriptStepFails, TypeSenders, TypeSession
  <2> QED BY <1>10, <2>1, TypeKept DEF ScriptStepFails
<1> QED BY <1>1, <1>2, <1>3, <1>5, <1>6, <1>7, <1>8, <1>9, <1>10
        DEF SenderStep, Sender, SenderMay

-----------------------------------------------------------------------------
(* Steps that neither the messages, the frames nor the transcript notice. *)
Rest == MsgInv /\ RtInv /\ NetInv /\ AnswerInv /\ RecInv
WriterKept ==
    /\ \A l \in {"begin", "write", "finish"} : pc'["writer"] = l <=> pc["writer"] = l
    /\ Reporting' => Reporting
ReaderKept == pc'["reader"] = "got" <=> pc["reader"] = "got"
Aside ==
    /\ UNCHANGED <<out, q, done, log, wire, net, sent, frame, msg, wok, ch, spc, smsg, nmsg>>
    /\ WriterKept /\ ReaderKept

LEMMA AsideKeeps == Rest /\ Aside => Rest'
<1> SUFFICES ASSUME Rest, Aside PROVE Rest'
  OBVIOUS
<1> USE DEF Rest, Aside
<1>1. MsgInv'
  BY DEF MsgInv, WriterKept, InHand, InSend, InCall
<1>2. RtInv'
  BY DEF RtInv, WriterKept
<1>3. NetInv'
  BY DEF NetInv, ReaderKept, Handed, Frame
<1>4. AnswerInv'
  BY DEF AnswerInv, WriterKept, Frame
<1>5. RecInv'
  BY DEF RecInv, WriterKept, Sent
<1> QED BY <1>1, <1>2, <1>3, <1>4, <1>5

(* Where goroutine g goes, the others stay. *)
LEMMA GoesAside ==
    ASSUME TypeLoops, NEW g \in Loops, NEW l \in PCs \ {"begin", "write", "finish", "got"},
           pc[g] \notin {"begin", "write", "finish", "got"}, pc' = [pc EXCEPT ![g] = l],
           \/ g # "writer" /\ after'["writer"] = after["writer"]
           \/ g = "writer" /\ l \notin {"terminal", "result", "cancel", "decide"}
           \/ g = "writer" /\ l \in {"cancel", "decide"} /\ after'["writer"] \notin {"terminal", "result"}
           \/ g = "writer" /\ Reporting /\ after' = after
    PROVE  WriterKept /\ ReaderKept
<1>0. "writer" \in Loops /\ "reader" \in Loops /\ pc \in [Loops -> PCs]
  BY DEF Loops, TypeLoops
<1>1. ReaderKept
  BY <1>0 DEF ReaderKept
<1>2. \A x \in {"begin", "write", "finish"} : pc'["writer"] = x <=> pc["writer"] = x
  BY <1>0
<1>3. Reporting' => Reporting
  <2>1. CASE g # "writer" /\ after'["writer"] = after["writer"]
    BY <1>0, <2>1 DEF Reporting
  <2>2. CASE g = "writer"
    BY <1>0, <2>2 DEF Reporting
  <2> QED BY <2>1, <2>2
<1> QED BY <1>1, <1>2, <1>3 DEF WriterKept

LEMMA AsideSteps ==
    ASSUME TypeOK,
           \/ \E g \in Loops : SessionClose(g) \/ Shutdown(g)
           \/ IdleStops \/ WriterStops \/ WriteResult
           \/ ServerCloses \/ ConnectionBreaks \/ UserCancels
    PROVE  Aside
<1> USE DEF rt, session, channel, network, hands, messages, senders
<1>t. TypeLoops
  BY TypeGroups
<1>a. \A g \in Loops : after[g] \in Afters
  BY <1>t DEF TypeLoops
<1>l. "writer" \in Loops /\ "idle" \in Loops
  BY DEF Loops
<1>1. ASSUME NEW g \in Loops, CancelContext(g) PROVE Aside
  <2>1. pc' = [pc EXCEPT ![g] = "decide"] /\ after' = after /\ pc[g] = "cancel"
    BY <1>1 DEF CancelContext, Goto
  <2>2. WriterKept /\ ReaderKept
    <3>1. CASE g = "writer" /\ after["writer"] \in {"terminal", "result"}
      <4>1. Reporting
        BY <2>1, <3>1 DEF Reporting
      <4> QED BY <1>t, <2>1, <3>1, <4>1, GoesAside DEF PCs
    <3>2. CASE g = "writer" /\ after["writer"] \notin {"terminal", "result"}
      BY <1>t, <2>1, <3>2, GoesAside DEF PCs
    <3>3. CASE g # "writer"
      BY <1>t, <2>1, <3>3, GoesAside DEF PCs
    <3> QED BY <3>1, <3>2, <3>3
  <2> QED BY <1>1, <2>2 DEF CancelContext, Aside
<1>2. ASSUME NEW g \in Loops, DecideEnd(g) PROVE Aside
  <2>1. pc' = [pc EXCEPT ![g] = after[g]] /\ after' = after /\ pc[g] = "decide"
    BY <1>2 DEF DecideEnd, Goto
  <2>a. after[g] \in PCs \ {"begin", "write", "finish", "got"} /\ after[g] \notin {"cancel", "decide"}
    BY <1>a DEF Afters, PCs
  <2>2. WriterKept /\ ReaderKept
    <3>1. CASE g = "writer" /\ after["writer"] \in {"terminal", "result"}
      <4>1. Reporting
        BY <2>1, <3>1 DEF Reporting
      <4> QED BY <1>t, <2>1, <2>a, <3>1, <4>1, GoesAside
    <3>2. CASE g = "writer" /\ after["writer"] \notin {"terminal", "result"}
      BY <1>t, <2>1, <2>a, <3>2, GoesAside
    <3>3. CASE g # "writer"
      BY <1>t, <2>1, <2>a, <3>3, GoesAside
    <3> QED BY <3>1, <3>2, <3>3
  <2> QED BY <1>2, <2>2 DEF DecideEnd, Aside
<1>3. ASSUME NEW g \in Loops, Shutdown(g) PROVE Aside
  <2>0. /\ UNCHANGED <<out, q, done, log, wire, net, sent, frame, msg, wok, ch, spc, smsg, nmsg>>
        /\ pc[g] \in {"shut", "uncontext", "disconnect", "leave"}
    BY <1>3 DEF Shutdown, ShutdownBegin, ShutdownCancel, ShutdownConn, ShutdownEnd
  <2>1. ASSUME NEW l \in {"uncontext", "exit", "disconnect", "leave"}, Goto(g, l)
        PROVE  WriterKept /\ ReaderKept
    BY <1>t, <2>0, <2>1, GoesAside DEF Goto, PCs
  <2>2. ASSUME CallClose(g, "err", "leave")
        PROVE  WriterKept /\ ReaderKept
    <3>1. pc' = [pc EXCEPT ![g] = "cancel"] /\ after' = [after EXCEPT ![g] = "leave"]
      BY <2>2 DEF CallClose
    <3>2. \/ g # "writer" /\ after'["writer"] = after["writer"]
          \/ g = "writer" /\ after'["writer"] = "leave"
      BY <1>l, <1>t, <3>1 DEF TypeLoops
    <3> QED BY <1>t, <2>0, <3>1, <3>2, GoesAside DEF PCs
  <2>3. WriterKept /\ ReaderKept
    BY <1>3, <2>1, <2>2 DEF Shutdown, ShutdownBegin, ShutdownCancel, ShutdownConn, ShutdownEnd
  <2> QED BY <2>0, <2>3 DEF Aside
<1>4. CASE IdleStops
  <2>1. WriterKept /\ ReaderKept
    BY <1>4, <1>l, <1>t, GoesAside DEF IdleStops, Goto, PCs
  <2> QED BY <1>4, <2>1 DEF IdleStops, Aside
<1>5. CASE WriterStops
  <2>1. WriterKept /\ ReaderKept
    BY <1>5, <1>l, <1>t, GoesAside DEF WriterStops, Goto, PCs
  <2> QED BY <1>5, <2>1 DEF WriterStops, Aside
<1>6. CASE WriteResult
  <2>1. ASSUME NEW l \in {"shut", "loop"}, Goto("writer", l)
        PROVE  WriterKept /\ ReaderKept
    BY <1>6, <1>l, <1>t, <2>1, GoesAside DEF WriteResult, Goto, PCs
  <2>2. ASSUME CallClose("writer", "err", "shut")
        PROVE  WriterKept /\ ReaderKept
    <3>1. pc' = [pc EXCEPT !["writer"] = "cancel"] /\ after'["writer"] = "shut"
      BY <1>l, <1>t, <2>2 DEF CallClose, TypeLoops
    <3> QED BY <1>6, <1>l, <1>t, <3>1, GoesAside DEF WriteResult, PCs
  <2>3. WriterKept /\ ReaderKept
    BY <1>6, <2>1, <2>2 DEF WriteResult
  <2> QED BY <1>6, <2>3 DEF WriteResult, Aside
<1>7. CASE ServerCloses \/ ConnectionBreaks \/ UserCancels
  BY <1>7 DEF ServerCloses, ConnectionBreaks, UserCancels, Aside, WriterKept, ReaderKept,
              Reporting, loops
<1> QED BY <1>1, <1>2, <1>3, <1>4, <1>5, <1>6, <1>7 DEF SessionClose

-----------------------------------------------------------------------------
(* The senders: a message is handed to the channel, or given up. *)
LEMMA SenderKeeps ==
    ASSUME TypeOK, Rest, NEW s \in Senders, SenderStep(s)
    PROVE  Rest'
<1> USE DEF rt, session, channel, network, hands, messages, senders, loops
<1>t. TypeSenders /\ TypeMessages /\ TypeChannel /\ TypeSession /\ TypeNetwork
  BY TypeGroups
<1>u. spc \in [Senders -> {"idle", "send", "await", "autoSend", "autoAwait", "done", "failed",
                            "returned"}]
      /\ smsg \in [Senders -> Msgs \cup {None}] /\ nmsg \in 0..MaxMsgs /\ ch \in Seq(Msgs)
      /\ Script \in Senders
  BY <1>t, WsAssumption DEF TypeSenders, TypeMessages, TypeChannel
<1>m. MsgInv
  BY DEF Rest
<1>0. SUFFICES ASSUME UNCHANGED <<out, q, done, log, wire, net, sent, frame, msg, wok, pc, after>>
               PROVE  MsgInv'
  <2>1. UNCHANGED <<out, q, done, log, wire, net, sent, frame, msg, wok, pc, after>>
    BY DEF SenderStep, Sender, SenderMay, EnqueueSends, EnqueueRefused, EnqueueResult,
           EnqueueAbandons, EnqueueExpires, Enqueue, ScriptCloses, ScriptFindsDead, ScriptDone,
           ScriptStepFails
  <2>2. RtInv' /\ NetInv' /\ AnswerInv' /\ RecInv'
    BY <2>1 DEF Rest, RtInv, NetInv, AnswerInv, RecInv, Handed, Frame, Reporting, Sent
  <2> QED BY <1>0, <2>1, <2>2 DEF Rest
(* A new message. *)
<1>1. ASSUME NEW l \in {"send", "autoSend"}, spc' = [spc EXCEPT ![s] = l],
             smsg' = [smsg EXCEPT ![s] = nmsg + 1], nmsg' = nmsg + 1, ch' = ch
      PROVE  MsgInv'
  <2>1. /\ InSend(s)' /\ smsg'[s] = nmsg + 1
        /\ \A t \in Senders : t # s => /\ spc'[t] = spc[t] /\ smsg'[t] = smsg[t]
    BY <1>1, <1>u DEF InSend
  <2>2. /\ \A t \in Senders : InCall(t) => smsg[t] \in 1..nmsg
        /\ \A i \in DOMAIN ch : ch[i] \in 1..nmsg
        /\ wire \subseteq 1..nmsg /\ (InHand => msg \in 1..nmsg)
    BY <1>m DEF MsgInv
  <2>3. nmsg + 1 \notin 1..nmsg /\ \A x \in 1..nmsg : x \in 1..(nmsg + 1)
    BY <1>u
  <2>4. \A t \in Senders : t # s => (InSend(t)' <=> InSend(t)) /\ (InCall(t)' <=> InCall(t))
    BY <2>1 DEF InSend, InCall
  <2>5. \A t \in Senders : InSend(t) => InCall(t)
    BY DEF InSend, InCall
  <2>6. /\ \A t \in Senders : InCall(t)' => smsg'[t] \in 1..nmsg'
        /\ \A t \in Senders : InSend(t)' => smsg'[t] \in 1..nmsg' /\ smsg'[t] \notin wire'
    BY <1>0, <1>1, <1>m, <1>u, <2>1, <2>2, <2>3, <2>4, <2>5 DEF MsgInv
  <2>7. \A t, v \in Senders : InSend(t)' /\ InSend(v)' /\ smsg'[t] = smsg'[v] => t = v
    BY <1>m, <2>1, <2>2, <2>3, <2>4, <2>5 DEF MsgInv
  <2>8. /\ \A i \in DOMAIN ch' : \A t \in Senders : InSend(t)' => smsg'[t] # ch'[i]
        /\ InHand' => \A t \in Senders : InSend(t)' => smsg'[t] # msg'
    BY <1>0, <1>1, <1>m, <2>1, <2>2, <2>3, <2>4 DEF MsgInv, InHand
  <2>9. /\ \A i \in DOMAIN ch' : ch'[i] \in 1..nmsg' /\ ch'[i] \notin wire'
        /\ \A i, j \in DOMAIN ch' : ch'[i] = ch'[j] => i = j
        /\ wire' \subseteq 1..nmsg'
        /\ InHand' => msg' \in 1..nmsg' /\ \A i \in DOMAIN ch' : ch'[i] # msg'
        /\ pc'["writer"] \in {"begin", "write"} => msg' \notin wire'
    BY <1>0, <1>1, <1>m, <2>2, <2>3 DEF MsgInv, InHand
  <2> QED BY <2>6, <2>7, <2>8, <2>9 DEF MsgInv
(* A sender that waits no more, or goes on without a message. *)
<1>2. ASSUME spc'[s] \in {"idle", "done", "failed", "returned"}, ch' = ch, nmsg' = nmsg,
             \A t \in Senders : t # s => spc'[t] = spc[t] /\ smsg'[t] = smsg[t]
      PROVE  MsgInv'
  <2>1. /\ ~InSend(s)' /\ ~InCall(s)'
        /\ \A t \in Senders : t # s => (InSend(t)' <=> InSend(t)) /\ (InCall(t)' <=> InCall(t))
    BY <1>2 DEF InSend, InCall
  <2>2. /\ \A t \in Senders : InCall(t)' => InCall(t) /\ smsg'[t] = smsg[t]
        /\ \A t \in Senders : InSend(t)' => InSend(t) /\ smsg'[t] = smsg[t]
    BY <1>2, <2>1
  <2>3. ch' = ch /\ nmsg' = nmsg
    BY <1>2
  <2>4. /\ \A t \in Senders : InCall(t)' => smsg'[t] \in 1..nmsg'
        /\ \A t \in Senders : InSend(t)' => smsg'[t] \in 1..nmsg' /\ smsg'[t] \notin wire'
        /\ \A t, v \in Senders : InSend(t)' /\ InSend(v)' /\ smsg'[t] = smsg'[v] => t = v
        /\ \A i \in DOMAIN ch' : \A t \in Senders : InSend(t)' => smsg'[t] # ch'[i]
        /\ InHand' => \A t \in Senders : InSend(t)' => smsg'[t] # msg'
    BY <1>0, <1>m, <2>2, <2>3 DEF MsgInv, InHand
  <2>5. /\ \A i \in DOMAIN ch' : ch'[i] \in 1..nmsg' /\ ch'[i] \notin wire'
        /\ \A i, j \in DOMAIN ch' : ch'[i] = ch'[j] => i = j
        /\ wire' \subseteq 1..nmsg'
        /\ InHand' => msg' \in 1..nmsg' /\ \A i \in DOMAIN ch' : ch'[i] # msg'
        /\ pc'["writer"] \in {"begin", "write"} => msg' \notin wire'
    BY <1>0, <1>m, <2>3 DEF MsgInv, InHand
  <2> QED BY <2>4, <2>5 DEF MsgInv
<1>3. ASSUME NEW m, NEW r, Return(s, m, r), ch' = ch, nmsg' = nmsg
      PROVE  MsgInv'
  <2>1. spc' = [spc EXCEPT ![s] = spc'[s]] /\ spc'[s] \in {"idle", "done", "failed"}
    BY <1>3, <1>t, ReturnTypes DEF TypeSession
  <2>2. smsg' = [smsg EXCEPT ![s] = None]
    BY <1>3 DEF Return
  <2>3. \A t \in Senders : t # s => spc'[t] = spc[t] /\ smsg'[t] = smsg[t]
    BY <1>u, <2>1, <2>2
  <2> QED BY <1>2, <1>3, <2>1, <2>3
<1>4. CASE \E k \in Kinds : Enqueue(s, k)
  BY <1>1, <1>4 DEF Enqueue
<1>5. CASE s = Script /\ ScriptCloses
  <2>1. CASE /\ nmsg' = nmsg + 1 /\ smsg' = [smsg EXCEPT ![Script] = nmsg + 1]
             /\ spc' = [spc EXCEPT ![Script] = "autoSend"]
    BY <1>1, <1>5, <2>1 DEF ScriptCloses
  <2>2. CASE spc' = [spc EXCEPT ![Script] = "done"] /\ UNCHANGED <<nmsg, kind, smsg>>
    BY <1>2, <1>5, <1>u, <2>2 DEF ScriptCloses
  <2> QED BY <1>5, <2>1, <2>2 DEF ScriptCloses
<1>6. CASE EnqueueRefused(s)
  BY <1>3, <1>6 DEF EnqueueRefused
<1>7. CASE EnqueueResult(s)
  BY <1>3, <1>7 DEF EnqueueResult
<1>8. CASE EnqueueAbandons(s)
  BY <1>3, <1>8 DEF EnqueueAbandons
<1>9. CASE EnqueueExpires(s)
  BY <1>3, <1>9 DEF EnqueueExpires
<1>10. CASE s = Script /\ (ScriptFindsDead \/ ScriptDone \/ ScriptStepFails)
  BY <1>2, <1>10, <1>u DEF ScriptFindsDead, ScriptDone, ScriptStepFails
(* The message enters the channel. *)
<1>11. CASE EnqueueSends(s)
  <2>1. /\ InSend(s) /\ ch' = Append(ch, smsg[s]) /\ smsg' = smsg /\ nmsg' = nmsg
        /\ spc' = [spc EXCEPT ![s] = IF AutoClose(s) THEN "autoAwait" ELSE "await"]
    BY <1>11 DEF EnqueueSends, InSend
  <2>2. /\ spc'[s] \in {"autoAwait", "await"} /\ \A t \in Senders : t # s => spc'[t] = spc[t]
    BY <1>u, <2>1
  <2>3. /\ ~InSend(s)'
        /\ \A t \in Senders : InSend(t)' => InSend(t) /\ t # s
        /\ \A t \in Senders : InCall(t)' => InCall(t)
    BY <2>1, <2>2 DEF InSend, InCall
  <2>4. smsg[s] \in 1..nmsg /\ smsg[s] \notin wire /\ smsg[s] \in Msgs
        /\ (\A i \in DOMAIN ch : ch[i] # smsg[s]) /\ (InHand => smsg[s] # msg)
    BY <1>m, <1>u, <2>1, MsgFacts DEF MsgInv, InSend, Msgs
  <2>5. /\ Len(ch') = Len(ch) + 1 /\ DOMAIN ch' = 1..(Len(ch) + 1) /\ DOMAIN ch = 1..Len(ch)
        /\ ch'[Len(ch) + 1] = smsg[s] /\ \A i \in DOMAIN ch : ch'[i] = ch[i]
    BY <1>u, <2>1, <2>4
  <2>6. \A i \in DOMAIN ch' : (i \in DOMAIN ch /\ ch'[i] = ch[i]) \/ (i = Len(ch) + 1 /\ ch'[i] = smsg[s])
    BY <1>u, <2>5
  <2>7. /\ \A i \in DOMAIN ch' : ch'[i] \in 1..nmsg' /\ ch'[i] \notin wire'
        /\ InHand' => \A i \in DOMAIN ch' : ch'[i] # msg'
    BY <1>0, <1>m, <2>1, <2>4, <2>6 DEF MsgInv, InHand
  <2>8. \A i, j \in DOMAIN ch' : ch'[i] = ch'[j] => i = j
    BY <1>m, <2>4, <2>6 DEF MsgInv
  <2>9. \A i \in DOMAIN ch' : \A t \in Senders : InSend(t)' => smsg'[t] # ch'[i]
    BY <1>m, <2>1, <2>3, <2>6 DEF MsgInv
  <2>10. /\ \A t \in Senders : InCall(t)' => smsg'[t] \in 1..nmsg'
         /\ \A t \in Senders : InSend(t)' => smsg'[t] \in 1..nmsg' /\ smsg'[t] \notin wire'
         /\ \A t, v \in Senders : InSend(t)' /\ InSend(v)' /\ smsg'[t] = smsg'[v] => t = v
         /\ wire' \subseteq 1..nmsg'
         /\ InHand' => msg' \in 1..nmsg' /\ \A t \in Senders : InSend(t)' => smsg'[t] # msg'
         /\ pc'["writer"] \in {"begin", "write"} => msg' \notin wire'
    BY <1>0, <1>m, <2>1, <2>3 DEF MsgInv, InHand
  <2> QED BY <2>7, <2>8, <2>9, <2>10 DEF MsgInv
<1> QED BY <1>4, <1>5, <1>6, <1>7, <1>8, <1>9, <1>10, <1>11 DEF SenderStep, Sender, SenderMay

-----------------------------------------------------------------------------
(* The network and writeLoop's hands. *)
LEMMA ServerSendsKeeps ==
    ASSUME TypeOK, Rest, ServerSends
    PROVE  Rest' /\ sent' - Len(net') = sent - Len(net) /\ UNCHANGED <<log, q, done, pc, res>>
<1> USE DEF rt, session, channel, network, hands, messages, senders, loops
<1>t. net \in Seq(Frames) /\ sent \in 0..MaxRecv /\ MaxRecv \in Nat /\ sent \in Nat
  BY TypeGroups, MsgFacts DEF TypeNetwork
<1>1. /\ UNCHANGED <<out, q, done, log, wire, ch, pc, after, frame, msg, wok, spc, smsg, nmsg, res>>
      /\ sent' = sent + 1 /\ sent < MaxRecv
  BY DEF ServerSends
<1>2. PICK m \in wire \cup {None} : net' = Append(net, <<sent + 1, m>>)
  BY DEF ServerSends
<1>3. <<sent + 1, m>> \in Frames
  <2>1. m \in Msgs \cup {None} /\ sent + 1 \in 1..MaxRecv
    BY <1>t, <1>1, TypeGroups DEF TypeNetwork
  <2> QED BY <2>1 DEF Frames
<1>4. /\ Len(net') = Len(net) + 1 /\ Len(net) \in Nat
      /\ DOMAIN net' = 1..(Len(net) + 1) /\ DOMAIN net = 1..Len(net)
      /\ net'[Len(net) + 1] = <<sent + 1, m>> /\ \A i \in DOMAIN net : net'[i] = net[i]
  BY <1>t, <1>2, <1>3
<1>5. \A i \in DOMAIN net' : net'[i][1] = sent' - Len(net') + i /\ net'[i][2] \in wire' \cup {None}
  <2>1. ASSUME NEW i \in DOMAIN net'
        PROVE  net'[i][1] = sent' - Len(net') + i /\ net'[i][2] \in wire' \cup {None}
    <3>1. CASE i \in DOMAIN net
      <4>1. net[i][1] = sent - Len(net) + i /\ net[i][2] \in wire \cup {None} /\ i \in Nat
        BY <1>4, <3>1 DEF Rest, NetInv
      <4>2. sent' - Len(net') + i = sent - Len(net) + i
        BY <1>1, <1>4, <1>t, <4>1
      <4> QED BY <1>1, <1>4, <3>1, <4>1, <4>2
    <3>2. CASE i = Len(net) + 1
      <4>1. sent' - Len(net') + i = sent + 1
        BY <1>1, <1>4, <1>t, <3>2
      <4> QED BY <1>1, <1>2, <1>4, <3>2, <4>1
    <3> QED BY <1>4, <2>1, <3>1, <3>2
  <2> QED BY <2>1
<1>6. sent' - Len(net') = sent - Len(net) /\ (Len(net) <= sent => Len(net') <= sent')
  BY <1>1, <1>4, <1>t
<1>7. NetInv'
  BY <1>1, <1>5, <1>6 DEF Rest, NetInv, Handed, Frame
<1>8. MsgInv' /\ RtInv' /\ AnswerInv' /\ RecInv'
  BY <1>1 DEF Rest, MsgInv, RtInv, AnswerInv, RecInv, InSend, InCall, InHand, Frame, Reporting, Sent
<1> QED BY <1>1, <1>6, <1>7, <1>8 DEF Rest

LEMMA ReadFrameKeeps ==
    ASSUME TypeOK, Rest, ReadFrame
    PROVE  /\ Rest' /\ Len(net') = Len(net) - 1 /\ pc["reader"] = "loop" /\ pc'["reader"] = "got"
           /\ UNCHANGED <<log, q, done, sent, res>>
<1> USE DEF rt, session, channel, network, hands, messages, senders, loops
<1>t. net \in Seq(Frames) /\ sent \in Nat /\ pc \in [Loops -> PCs] /\ "writer" \in Loops /\ "reader" \in Loops
  BY TypeGroups, MsgFacts DEF TypeNetwork, TypeLoops, Loops
<1>1. /\ UNCHANGED <<out, q, done, log, wire, sent, ch, after, msg, wok, spc, smsg, nmsg, res>>
      /\ net # <<>> /\ frame' = Head(net) /\ net' = Tail(net)
      /\ pc' = [pc EXCEPT !["reader"] = "got"] /\ pc["reader"] = "loop"
  BY DEF ReadFrame, Goto
<1>2. pc'["reader"] = "got" /\ pc'["writer"] = pc["writer"]
  BY <1>1, <1>t
<1>3. /\ Len(net) \in Nat /\ Len(net) > 0 /\ Len(net') = Len(net) - 1
      /\ DOMAIN net = 1..Len(net) /\ DOMAIN net' = 1..(Len(net) - 1)
      /\ frame' = net[1] /\ \A i \in DOMAIN net' : net'[i] = net[i + 1]
  BY <1>1, <1>t
<1>n. /\ Len(net) <= sent
      /\ \A i \in DOMAIN net : net[i][1] = sent - Len(net) + i /\ net[i][2] \in wire \cup {None}
  BY DEF Rest, NetInv
<1>4. \A i \in DOMAIN net' : net'[i][1] = sent' - Len(net') + i /\ net'[i][2] \in wire' \cup {None}
  <2>1. ASSUME NEW i \in DOMAIN net'
        PROVE  net'[i][1] = sent' - Len(net') + i /\ net'[i][2] \in wire' \cup {None}
    <3>1. i \in Nat /\ i + 1 \in DOMAIN net
      BY <1>3
    <3>2. net[i + 1][1] = sent - Len(net) + (i + 1) /\ net[i + 1][2] \in wire \cup {None}
      BY <1>n, <3>1
    <3>3. sent - Len(net) + (i + 1) = sent' - Len(net') + i
      BY <1>1, <1>3, <1>t, <3>1
    <3> QED BY <1>1, <1>3, <3>2, <3>3
  <2> QED BY <2>1
<1>5. frame'[1] = sent' - Len(net') /\ frame'[1] > 0 /\ frame'[2] \in wire' \cup {None}
  <2>1. 1 \in DOMAIN net
    BY <1>3
  <2>2. net[1][1] = sent - Len(net) + 1 /\ net[1][2] \in wire \cup {None}
    BY <1>n, <2>1
  <2> QED BY <1>1, <1>3, <1>n, <1>t, <2>2
<1>6. Len(net') <= sent'
  BY <1>1, <1>3, <1>n, <1>t
<1>7. NetInv'
  BY <1>1, <1>4, <1>5, <1>6 DEF Rest, NetInv, Handed, Frame
<1>8. MsgInv' /\ RtInv' /\ AnswerInv' /\ RecInv'
  BY <1>1, <1>2 DEF Rest, MsgInv, RtInv, AnswerInv, RecInv, InSend, InCall, InHand, Frame, Reporting, Sent
<1> QED BY <1>1, <1>2, <1>3, <1>7, <1>8 DEF Rest

(* writeLoop takes a message: it is in no other hand. *)
LEMMA WriterTakesKeeps ==
    ASSUME TypeOK, Rest, WriterTakes
    PROVE  Rest' /\ pc'["reader"] = pc["reader"] /\ UNCHANGED <<log, q, done, net, sent, res>>
<1> USE DEF rt, session, channel, network, hands, messages, senders, loops
<1>t. ch \in Seq(Msgs) /\ pc \in [Loops -> PCs] /\ "writer" \in Loops /\ "reader" \in Loops
  BY TypeGroups DEF TypeChannel, TypeLoops, Loops
<1>1. /\ UNCHANGED <<out, q, done, log, wire, net, sent, after, frame, wok, spc, smsg, nmsg, res>>
      /\ ch # <<>> /\ msg' = Head(ch) /\ ch' = Tail(ch)
      /\ pc' = [pc EXCEPT !["writer"] = "begin"] /\ pc["writer"] = "loop"
  BY DEF WriterTakes, Goto
<1>2. pc'["writer"] = "begin" /\ pc'["reader"] = pc["reader"]
  BY <1>1, <1>t
<1>3. /\ Len(ch) \in Nat /\ Len(ch) > 0 /\ DOMAIN ch = 1..Len(ch) /\ DOMAIN ch' = 1..(Len(ch) - 1)
      /\ msg' = ch[1] /\ \A i \in DOMAIN ch' : ch'[i] = ch[i + 1]
  BY <1>1, <1>t
<1>4. /\ 1 \in DOMAIN ch
      /\ \A i \in DOMAIN ch' : i \in Nat /\ i + 1 \in DOMAIN ch /\ i + 1 # 1 /\ ch'[i] = ch[i + 1]
  BY <1>3
<1>m. MsgInv
  BY DEF Rest
<1>5. msg' \in 1..nmsg' /\ msg' \notin wire' /\ \A s \in Senders : InSend(s)' => smsg'[s] # msg'
  BY <1>1, <1>3, <1>4, <1>m DEF MsgInv, InSend
<1>6. \A i \in DOMAIN ch' : ch'[i] # msg'
  BY <1>3, <1>4, <1>m DEF MsgInv
<1>7. \A i, j \in DOMAIN ch' : ch'[i] = ch'[j] => i = j
  <2>1. ASSUME NEW i \in DOMAIN ch', NEW j \in DOMAIN ch', ch'[i] = ch'[j] PROVE i = j
    <3>1. i + 1 = j + 1
      BY <1>4, <1>m, <2>1 DEF MsgInv
    <3> QED BY <1>4, <3>1
  <2> QED BY <2>1
<1>8. \A i \in DOMAIN ch' : /\ ch'[i] \in 1..nmsg' /\ ch'[i] \notin wire'
                            /\ \A s \in Senders : InSend(s)' => smsg'[s] # ch'[i]
  BY <1>1, <1>4, <1>m DEF MsgInv, InSend
<1>9. MsgInv'
  BY <1>1, <1>5, <1>6, <1>7, <1>8, <1>m DEF MsgInv, InSend, InCall, InHand
<1>10. RtInv' /\ NetInv' /\ AnswerInv' /\ RecInv'
  BY <1>1, <1>2 DEF Rest, RtInv, NetInv, AnswerInv, RecInv, Handed, Frame, Reporting, Sent
<1> QED BY <1>1, <1>2, <1>9, <1>10 DEF Rest

(* beginOutbound: no answer to a message is there before the message is written. *)
LEMMA BeginOutboundKeeps ==
    ASSUME TypeOK, Rest, BeginOutbound
    PROVE  Rest' /\ pc'["reader"] = pc["reader"] /\ UNCHANGED <<log, q, done, net, sent, res>>
<1> USE DEF rt, session, channel, network, hands, messages, senders, loops
<1>t. /\ log \in Seq(Events) /\ q \in Seq(Events)
      /\ pc \in [Loops -> PCs] /\ "writer" \in Loops /\ "reader" \in Loops
  BY TypeGroups DEF TypeLoops, TypeSession, TypeRt, Loops
<1>1. /\ UNCHANGED <<q, done, log, wire, net, sent, ch, after, frame, msg, spc, smsg, nmsg, res>>
      /\ wok' = FALSE /\ pc["writer"] = "begin"
      /\ \/ done /\ pc' = [pc EXCEPT !["writer"] = "result"] /\ UNCHANGED out
         \/ ~done /\ out' = TRUE /\ pc' = [pc EXCEPT !["writer"] = "write"]
  BY DEF BeginOutbound, Goto
<1>2. /\ pc'["reader"] = pc["reader"]
      /\ \/ done /\ pc'["writer"] = "result" /\ UNCHANGED out
         \/ ~done /\ out' = TRUE /\ pc'["writer"] = "write"
  BY <1>1, <1>t
<1>m. msg \in 1..nmsg /\ msg \notin wire
  BY <1>1 DEF Rest, MsgInv, InHand
<1>3. MsgInv'
  BY <1>1, <1>2 DEF Rest, MsgInv, InSend, InCall, InHand
<1>4. RtInv'
  BY <1>1, <1>2 DEF Rest, RtInv
<1>5. NetInv' /\ RecInv'
  BY <1>1, <1>2 DEF Rest, NetInv, RecInv, Handed, Frame, Reporting, Sent
<1>6. AnswerInv'
  <2>1. ASSUME NEW i \in DOMAIN log, Frame(log[i]) PROVE log[i][3] # msg
    <3>1. i \in DOMAIN Handed /\ Handed[i] = log[i]
      BY <1>t DEF Handed
    <3>2. log[i][3] \in wire \cup {None}
      BY <2>1, <3>1 DEF Rest, NetInv
    <3> QED BY <1>m, <3>2 DEF None
  <2> QED BY <1>1, <2>1 DEF AnswerInv, Frame
<1> QED BY <1>1, <1>2, <1>3, <1>4, <1>5, <1>6 DEF Rest

LEMMA WriteKeeps ==
    ASSUME TypeOK, Rest, WriteFrame \/ WriteFails
    PROVE  Rest' /\ pc'["reader"] = pc["reader"] /\ UNCHANGED <<log, q, done, net, sent, res>>
<1> USE DEF rt, session, channel, network, hands, messages, senders, loops
<1>t. pc \in [Loops -> PCs] /\ "writer" \in Loops /\ "reader" \in Loops
  BY TypeGroups DEF TypeLoops, Loops
<1>1. /\ UNCHANGED <<out, q, done, log, net, sent, ch, after, frame, msg, spc, smsg, nmsg, res>>
      /\ wire' \in {wire, wire \cup {msg}} /\ pc["writer"] = "write"
      /\ pc' = [pc EXCEPT !["writer"] = "finish"]
  BY DEF WriteFrame, WriteFails, Goto
<1>2. pc'["reader"] = pc["reader"] /\ pc'["writer"] = "finish"
  BY <1>1, <1>t
<1>3. /\ InHand /\ msg \in 1..nmsg /\ (\A i \in DOMAIN ch : ch[i] # msg)
      /\ \A s \in Senders : InSend(s) => smsg[s] # msg
  BY <1>1 DEF Rest, MsgInv, InHand
<1>4. MsgInv'
  BY <1>1, <1>2, <1>3 DEF Rest, MsgInv, InSend, InCall, InHand
<1>5. RtInv'
  BY <1>1, <1>2 DEF Rest, RtInv
<1>6. NetInv'
  BY <1>1, <1>2 DEF Rest, NetInv, Handed, Frame
<1>7. AnswerInv' /\ RecInv'
  BY <1>1, <1>2 DEF Rest, AnswerInv, RecInv, Frame, Reporting
<1> QED BY <1>1, <1>2, <1>4, <1>5, <1>6, <1>7 DEF Rest

-----------------------------------------------------------------------------
(* Transcripts: where the elements of a concatenation are, and what adding   *)
(* an event that is no frame changes.                                        *)
FramesOf(h) == {h[i] : i \in {j \in DOMAIN h : Frame(h[j])}}
Ascending(h) ==
    \A i, j \in DOMAIN h : i < j /\ Frame(h[i]) /\ Frame(h[j]) => h[i][2] < h[j][2]

LEMMA Joined ==
    ASSUME NEW a \in Seq(Events), NEW b \in Seq(Events)
    PROVE  /\ a \o b \in Seq(Events) /\ Len(a) \in Nat /\ Len(b) \in Nat
           /\ DOMAIN a = 1..Len(a) /\ DOMAIN b = 1..Len(b)
           /\ Len(a \o b) = Len(a) + Len(b) /\ DOMAIN (a \o b) = 1..(Len(a) + Len(b))
           /\ \A i \in DOMAIN a : i \in DOMAIN (a \o b) /\ (a \o b)[i] = a[i]
           /\ \A k \in DOMAIN b : Len(a) + k \in DOMAIN (a \o b) /\ (a \o b)[Len(a) + k] = b[k]
           /\ \A i \in DOMAIN (a \o b) : \/ i \in DOMAIN a
                                         \/ i - Len(a) \in DOMAIN b /\ i = Len(a) + (i - Len(a))
OBVIOUS

LEMMA JoinedKeeps ==
    ASSUME NEW a \in Seq(Events), NEW evts \in Seq(Events), NEW b \in Seq(Events)
    PROVE  \A i \in DOMAIN a : i \in DOMAIN (a \o evts \o b) /\ (a \o evts \o b)[i] = a[i]
<1>1. a \o evts \in Seq(Events)
  BY Joined
<1>2. \A i \in DOMAIN a : i \in DOMAIN (a \o evts) /\ (a \o evts)[i] = a[i]
  BY Joined
<1> DEFINE c == a \o evts
<1> HIDE DEF c
<1>3. c \in Seq(Events) /\ \A i \in DOMAIN a : i \in DOMAIN c /\ c[i] = a[i]
  BY <1>1, <1>2 DEF c
<1>4. \A i \in DOMAIN c : i \in DOMAIN (c \o b) /\ (c \o b)[i] = c[i]
  BY <1>3, Joined
<1>5. \A i \in DOMAIN a : i \in DOMAIN (c \o b) /\ (c \o b)[i] = a[i]
  BY <1>3, <1>4
<1> QED BY <1>5 DEF c

LEMMA Inserted ==
    ASSUME NEW a \in Seq(Events), NEW evts \in Seq(Events), NEW b \in Seq(Events)
    PROVE  /\ a \o evts \o b \in Seq(Events)
           /\ \A i \in DOMAIN a : i \in DOMAIN (a \o evts \o b) /\ (a \o evts \o b)[i] = a[i]
           /\ \A k \in DOMAIN evts : /\ Len(a) + k \in DOMAIN (a \o evts \o b)
                                     /\ (a \o evts \o b)[Len(a) + k] = evts[k]
           /\ \A k \in DOMAIN b :
                  /\ Len(a) + Len(evts) + k \in DOMAIN (a \o evts \o b)
                  /\ (a \o evts \o b)[Len(a) + Len(evts) + k] = b[k]
           /\ \A i \in DOMAIN (a \o evts \o b) :
                  \/ i \in DOMAIN a
                  \/ i - Len(a) \in DOMAIN evts /\ i = Len(a) + (i - Len(a))
                  \/ /\ i - (Len(a) + Len(evts)) \in DOMAIN b
                     /\ i = Len(a) + Len(evts) + (i - (Len(a) + Len(evts)))
<1>1. a \o evts \in Seq(Events) /\ Len(a \o evts) = Len(a) + Len(evts)
  BY Joined
<1>2. \A i \in DOMAIN a : i \in DOMAIN (a \o evts) /\ (a \o evts)[i] = a[i]
  BY Joined
<1>3. \A k \in DOMAIN evts : Len(a) + k \in DOMAIN (a \o evts) /\ (a \o evts)[Len(a) + k] = evts[k]
  BY Joined
<1>4. \A i \in DOMAIN (a \o evts) : \/ i \in DOMAIN a
                                    \/ i - Len(a) \in DOMAIN evts /\ i = Len(a) + (i - Len(a))
  BY Joined
<1> DEFINE c == a \o evts
<1> HIDE DEF c
<1>5. c \in Seq(Events) /\ Len(c) = Len(a) + Len(evts)
  BY <1>1 DEF c
<1>6. /\ c \o b \in Seq(Events)
      /\ \A i \in DOMAIN c : i \in DOMAIN (c \o b) /\ (c \o b)[i] = c[i]
      /\ \A k \in DOMAIN b : Len(c) + k \in DOMAIN (c \o b) /\ (c \o b)[Len(c) + k] = b[k]
      /\ \A i \in DOMAIN (c \o b) : \/ i \in DOMAIN c
                                    \/ i - Len(c) \in DOMAIN b /\ i = Len(c) + (i - Len(c))
  BY <1>5, Joined
<1>7. a \o evts \o b = c \o b
  BY DEF c
<1>8. \A i \in DOMAIN a : i \in DOMAIN c /\ c[i] = a[i]
  BY <1>2 DEF c
<1>9. \A k \in DOMAIN evts : Len(a) + k \in DOMAIN c /\ c[Len(a) + k] = evts[k]
  BY <1>3 DEF c
<1>10. \A i \in DOMAIN c : \/ i \in DOMAIN a
                           \/ i - Len(a) \in DOMAIN evts /\ i = Len(a) + (i - Len(a))
  BY <1>4 DEF c
<1> QED BY <1>5, <1>6, <1>7, <1>8, <1>9, <1>10

LEMMA OtherEventAdded ==
    ASSUME NEW a \in Seq(Events), NEW evts \in Seq(Events), NEW b \in Seq(Events),
           \A k \in DOMAIN evts : ~Frame(evts[k])
    PROVE  /\ FramesOf(a \o evts \o b) = FramesOf(a \o b)
           /\ Ascending(a \o b) => Ascending(a \o evts \o b)
<1> DEFINE o == a \o b
           n == a \o evts \o b
<1> HIDE DEF o, n
<1>0. Len(a) \in Nat /\ Len(evts) \in Nat /\ DOMAIN a = 1..Len(a) /\ DOMAIN b = 1..Len(b) /\ Len(b) \in Nat
  BY Joined
<1>1. /\ \A i \in DOMAIN a : i \in DOMAIN o /\ o[i] = a[i]
      /\ \A k \in DOMAIN b : Len(a) + k \in DOMAIN o /\ o[Len(a) + k] = b[k]
      /\ \A i \in DOMAIN o : \/ i \in DOMAIN a
                             \/ i - Len(a) \in DOMAIN b /\ i = Len(a) + (i - Len(a))
  BY Joined DEF o
<1>2. /\ \A i \in DOMAIN a : i \in DOMAIN n /\ n[i] = a[i]
      /\ \A k \in DOMAIN evts : Len(a) + k \in DOMAIN n /\ n[Len(a) + k] = evts[k]
      /\ \A k \in DOMAIN b : Len(a) + Len(evts) + k \in DOMAIN n /\ n[Len(a) + Len(evts) + k] = b[k]
      /\ \A i \in DOMAIN n :
            \/ i \in DOMAIN a
            \/ i - Len(a) \in DOMAIN evts /\ i = Len(a) + (i - Len(a))
            \/ /\ i - (Len(a) + Len(evts)) \in DOMAIN b
               /\ i = Len(a) + Len(evts) + (i - (Len(a) + Len(evts)))
  <2> DEFINE w == a \o evts \o b
  <2>1. \A i \in DOMAIN a : i \in DOMAIN w /\ w[i] = a[i]
    BY Inserted
  <2>2. \A k \in DOMAIN evts : Len(a) + k \in DOMAIN w /\ w[Len(a) + k] = evts[k]
    BY Inserted
  <2>3. \A k \in DOMAIN b :
          Len(a) + Len(evts) + k \in DOMAIN w /\ w[Len(a) + Len(evts) + k] = b[k]
    BY Inserted
  <2>4. \A i \in DOMAIN w :
            \/ i \in DOMAIN a
            \/ i - Len(a) \in DOMAIN evts /\ i = Len(a) + (i - Len(a))
            \/ /\ i - (Len(a) + Len(evts)) \in DOMAIN b
               /\ i = Len(a) + Len(evts) + (i - (Len(a) + Len(evts)))
    BY Inserted
  <2> HIDE DEF w
  <2>5. w = n
    BY DEF w, n
  <2> QED BY <2>1, <2>2, <2>3, <2>4, <2>5
(* Where a frame of the new transcript was in the old one. *)
<1> DEFINE old(i) == IF i \in DOMAIN a THEN i ELSE i - Len(evts)
<1>3. ASSUME NEW i \in DOMAIN n, Frame(n[i])
      PROVE  /\ old(i) \in DOMAIN o /\ o[old(i)] = n[i]
             /\ \/ i \in DOMAIN a /\ old(i) = i
                \/ i \in Nat /\ i > Len(a) + Len(evts) /\ old(i) = i - Len(evts) /\ i \notin DOMAIN a
  <2>1. CASE i \in DOMAIN a
    BY <1>1, <1>2, <2>1
  <2>2. CASE i - Len(a) \in DOMAIN evts /\ i = Len(a) + (i - Len(a))
    <3>1. n[Len(a) + (i - Len(a))] = evts[i - Len(a)]
      BY <1>2, <2>2
    <3> QED BY <1>3, <2>2, <3>1
  <2>3. CASE i - (Len(a) + Len(evts)) \in DOMAIN b /\ i = Len(a) + Len(evts) + (i - (Len(a) + Len(evts)))
    <3>1. PICK k \in DOMAIN b : k = i - (Len(a) + Len(evts)) /\ i = Len(a) + Len(evts) + k
      BY <2>3
    <3>2. i > Len(a) + Len(evts) /\ i \in Nat /\ i \notin DOMAIN a /\ i - Len(evts) = Len(a) + k
      BY <1>0, <3>1
    <3>3. n[i] = b[k] /\ Len(a) + k \in DOMAIN o /\ o[Len(a) + k] = b[k]
      BY <1>1, <1>2, <3>1
    <3> QED BY <3>2, <3>3
  <2> QED BY <1>2, <2>1, <2>2, <2>3
<1>4. FramesOf(n) \subseteq FramesOf(o)
  BY <1>3 DEF FramesOf
<1>5. FramesOf(o) \subseteq FramesOf(n)
  <2>1. ASSUME NEW i \in DOMAIN o PROVE \E j \in DOMAIN n : n[j] = o[i]
    <3>1. CASE i \in DOMAIN a
      BY <1>1, <1>2, <3>1
    <3>2. CASE i - Len(a) \in DOMAIN b /\ i = Len(a) + (i - Len(a))
      <4>1. PICK k \in DOMAIN b : i = Len(a) + k
        BY <3>2
      <4> QED BY <1>1, <1>2, <4>1
    <3> QED BY <1>1, <2>1, <3>1, <3>2
  <2> QED BY <2>1 DEF FramesOf
<1>6. ASSUME Ascending(o) PROVE Ascending(n)
  <2>1. ASSUME NEW i \in DOMAIN n, NEW j \in DOMAIN n, i < j, Frame(n[i]), Frame(n[j])
        PROVE  n[i][2] < n[j][2]
    <3>1. /\ old(i) \in DOMAIN o /\ o[old(i)] = n[i]
          /\ \/ i \in DOMAIN a /\ old(i) = i
             \/ i \in Nat /\ i > Len(a) + Len(evts) /\ old(i) = i - Len(evts) /\ i \notin DOMAIN a
      BY <1>3, <2>1
    <3>2. /\ old(j) \in DOMAIN o /\ o[old(j)] = n[j]
          /\ \/ j \in DOMAIN a /\ old(j) = j
             \/ j \in Nat /\ j > Len(a) + Len(evts) /\ old(j) = j - Len(evts) /\ j \notin DOMAIN a
      BY <1>3, <2>1
    <3> HIDE DEF old
    <3>3. old(i) < old(j)
      BY <1>0, <2>1, <3>1, <3>2
    <3>4. Frame(o[old(i)]) /\ Frame(o[old(j)])
      BY <2>1, <3>1, <3>2
    <3>5. o[old(i)][2] < o[old(j)][2]
      BY <1>6, <3>1, <3>2, <3>3, <3>4 DEF Ascending
    <3> QED BY <3>1, <3>2, <3>5
  <2> QED BY <2>1 DEF Ascending
<1>7. FramesOf(n) = FramesOf(o) /\ (Ascending(o) => Ascending(n))
  BY <1>4, <1>5, <1>6
<1> QED BY <1>7 DEF o, n

(* Answers and messages: adding events that are no sends at the end, and a   *)
(* send that no frame answers yet.                                           *)
Answers(h) == \A i, j \in DOMAIN h : h[i][1] = "recv" /\ h[j] = Sent(h[i][3]) => j < i

LEMMA AnswersKept ==
    ASSUME NEW a \in Seq(Events), NEW b \in Seq(Events), Answers(a),
           \A k \in DOMAIN b : b[k][1] # "send"
    PROVE  Answers(a \o b)
<1> DEFINE n == a \o b
<1> HIDE DEF n
<1>1. /\ Len(a) \in Nat /\ DOMAIN a = 1..Len(a) /\ DOMAIN b = 1..Len(b) /\ Len(b) \in Nat
      /\ \A i \in DOMAIN a : i \in DOMAIN n /\ n[i] = a[i]
      /\ \A k \in DOMAIN b : Len(a) + k \in DOMAIN n /\ n[Len(a) + k] = b[k]
      /\ \A i \in DOMAIN n : i \in DOMAIN a \/ (i - Len(a) \in DOMAIN b /\ i = Len(a) + (i - Len(a)))
  BY Joined DEF n
<1>2. ASSUME NEW i \in DOMAIN n, NEW j \in DOMAIN n, n[i][1] = "recv", n[j] = Sent(n[i][3])
      PROVE  j < i
  <2>1. n[j][1] = "send"
    BY <1>2 DEF Sent
  <2>2. j \in DOMAIN a
    <3>1. SUFFICES ASSUME j - Len(a) \in DOMAIN b, j = Len(a) + (j - Len(a)) PROVE FALSE
      BY <1>1
    <3>2. PICK k \in DOMAIN b : j = Len(a) + k
      BY <3>1
    <3>3. n[j] = b[k]
      BY <1>1, <3>2
    <3> QED BY <2>1, <3>3
  <2>3. CASE i \in DOMAIN a
    BY <1>1, <1>2, <2>2, <2>3 DEF Answers
  <2>4. CASE i - Len(a) \in DOMAIN b /\ i = Len(a) + (i - Len(a))
    <3>1. PICK k \in DOMAIN b : i = Len(a) + k
      BY <2>4
    <3> QED BY <1>1, <2>2, <3>1
  <2> QED BY <1>1, <2>3, <2>4
<1>3. Answers(n)
  BY <1>2 DEF Answers
<1> QED BY <1>3 DEF n

LEMMA SendAdded ==
    ASSUME NEW a \in Seq(Events), NEW m \in Msgs, Answers(a),
           \A i \in DOMAIN a : Frame(a[i]) => a[i][3] # m
    PROVE  Answers(a \o <<Sent(m)>>)
<1> DEFINE n == a \o <<Sent(m)>>
<1> HIDE DEF n
<1>0. Sent(m) \in Events
  BY SentEvents
<1>1. /\ Len(a) \in Nat /\ DOMAIN a = 1..Len(a)
      /\ \A i \in DOMAIN a : i \in DOMAIN n /\ n[i] = a[i]
      /\ n[Len(a) + 1] = Sent(m)
      /\ \A i \in DOMAIN n : i \in DOMAIN a \/ i = Len(a) + 1
  BY <1>0 DEF n
<1>2. ASSUME NEW i \in DOMAIN n, NEW j \in DOMAIN n, n[i][1] = "recv", n[j] = Sent(n[i][3])
      PROVE  j < i
  <2>1. i \in DOMAIN a
    <3>1. SUFFICES ASSUME i = Len(a) + 1 PROVE FALSE
      BY <1>1
    <3>2. n[i][1] = "send"
      BY <1>1, <3>1 DEF Sent
    <3> QED BY <1>2, <3>2
  <2>2. j \in DOMAIN a
    <3>1. SUFFICES ASSUME j = Len(a) + 1 PROVE FALSE
      BY <1>1
    <3>2. Sent(m) = Sent(a[i][3])
      BY <1>1, <1>2, <2>1, <3>1
    <3>3. m = a[i][3]
      BY <3>2 DEF Sent
    <3>4. Frame(a[i])
      BY <1>1, <1>2, <2>1 DEF Frame
    <3> QED BY <2>1, <3>3, <3>4
  <2> QED BY <1>1, <1>2, <2>1, <2>2 DEF Answers
<1>3. Answers(n)
  BY <1>2 DEF Answers
<1> QED BY <1>3 DEF n

(* What readLoop has read and handed over. *)
Read == sent - Len(net) - (IF pc["reader"] = "got" THEN 1 ELSE 0)

LEMMA ShownFacts ==
    /\ Shown = FramesOf(Handed) /\ AnswerAfterSend = Answers(log)
    /\ (\A e \in Shown : e[3] \in wire \cup {None})
         <=> (\A i \in DOMAIN Handed : Frame(Handed[i]) => Handed[i][3] \in wire \cup {None})
<1>1. Shown = FramesOf(Handed) /\ AnswerAfterSend = Answers(log)
  BY DEF Shown, FramesOf, AnswerAfterSend, Answers
<1>2. ASSUME NEW h, NEW S
      PROVE (\A e \in FramesOf(h) : e[3] \in S) <=> (\A i \in DOMAIN h : Frame(h[i]) => h[i][3] \in S)
  BY DEF FramesOf
<1> QED BY <1>1, <1>2

LEMMA ReadNat == TypeOK /\ NetInv => Read \in Nat
<1> SUFFICES ASSUME TypeOK, NetInv PROVE Read \in Nat
  OBVIOUS
<1>1. Len(net) \in Nat /\ sent \in Nat /\ Len(net) <= sent
  BY TypeGroups, MsgFacts DEF TypeNetwork, NetInv
<1>2. pc["reader"] = "got" => sent - Len(net) > 0
  BY DEF NetInv
<1> QED BY <1>1, <1>2 DEF Read

LEMMA ShownFactsNext ==
    /\ Shown' = FramesOf(Handed') /\ AnswerAfterSend' = Answers(log')
    /\ (\A e \in Shown' : e[3] \in wire' \cup {None})
         => (\A i \in DOMAIN Handed' : Frame(Handed'[i]) => Handed'[i][3] \in wire' \cup {None})
<1>1. Shown' = FramesOf(Handed') /\ AnswerAfterSend' = Answers(log')
  BY DEF Shown, FramesOf, AnswerAfterSend, Answers, Frame, Sent, None
<1>2. ASSUME NEW h, NEW S
      PROVE (\A e \in FramesOf(h) : e[3] \in S) <=> (\A i \in DOMAIN h : Frame(h[i]) => h[i][3] \in S)
  BY DEF FramesOf
<1> QED BY <1>1, <1>2

(* What a step does to the frames shown: it keeps them in their order, or    *)
(* readLoop hands over the next one.  Only readLoop's hand-over counts.      *)
Same ==
    /\ Shown' = Shown /\ (Ascending(Handed) => Ascending(Handed'))
    /\ (done => done') /\ (Read' = Read \/ (done /\ Read' = Read + 1))
Gains ==
    /\ ~done /\ ~done' /\ frame \in Frames /\ frame[1] = Read + 1
    /\ Handed' = Append(Handed, Received(frame)) /\ Read' = Read + 1
(* What a step does to the transcript: it only grows, and not once done.     *)
Grows ==
    /\ done => done' /\ log' = log
    /\ \A i \in DOMAIN log : i \in DOMAIN log' /\ log'[i] = log[i]
Effect == Grows /\ (Same \/ Gains) /\ (AnswerAfterSend => AnswerAfterSend')

(* Steps that leave the transcript alone. *)
LEMMA NoEffect ==
    ASSUME UNCHANGED <<log, q, done>>, Read' = Read
    PROVE  Effect
<1>1. Handed' = Handed /\ Shown' = Shown
  BY DEF Handed, Shown, Frame
<1>2. AnswerAfterSend => AnswerAfterSend'
  BY DEF AnswerAfterSend, Sent, None
<1> QED BY <1>1, <1>2 DEF Effect, Grows, Same

(* The runtime is done after the step and the hands are as before. *)
LEMMA DoneKeeps ==
    ASSUME Rest, done', ~out', q' = <<>>, Shown' = Shown,
           UNCHANGED <<wire, net, sent, frame, msg, ch, spc, smsg, nmsg>>,
           ReaderKept,
           \A l \in {"begin", "write", "finish"} : pc'["writer"] = l <=> pc["writer"] = l
    PROVE  Rest'
<1>1. MsgInv'
  BY DEF Rest, MsgInv, InHand, InSend, InCall
<1>2. RtInv'
  BY DEF RtInv
<1>3. NetInv'
  <2>1. \A e \in Shown' : e[3] \in wire' \cup {None}
    BY ShownFacts DEF Rest, NetInv
  <2>2. \A i \in DOMAIN Handed' : Frame(Handed'[i]) => Handed'[i][3] \in wire' \cup {None}
    BY <2>1, ShownFactsNext
  <2> QED BY <2>2 DEF Rest, NetInv, ReaderKept, Frame, None
<1>4. AnswerInv' /\ RecInv'
  BY DEF AnswerInv, RecInv
<1> QED BY <1>1, <1>2, <1>3, <1>4 DEF Rest

(* The end of the stream is recorded after what was held back. *)
LEMMA EndRecorded ==
    ASSUME TypeOK, Rest, NEW evts \in Seq(Events),
           \A k \in DOMAIN evts : ~Frame(evts[k]) /\ evts[k][1] # "send",
           ~done, done', log' = log \o q \o evts, q' = <<>>, Read' = Read
    PROVE  Effect
<1>t. log \in Seq(Events) /\ q \in Seq(Events) /\ <<>> \in Seq(Events)
  BY TypeGroups DEF TypeSession, TypeRt
<1>1. log \o q \in Seq(Events)
  BY <1>t, Joined
<1> DEFINE h == log \o q
<1> HIDE DEF h
<1>2. h \in Seq(Events) /\ Handed = h /\ log' = h \o evts
  BY <1>1 DEF h, Handed
<1>3. h \o evts \in Seq(Events)
  BY <1>2, Joined
<1>4. Handed' = h \o evts /\ h \o evts \o <<>> = h \o evts /\ h \o <<>> = h
  <2>1. \A s \in Seq(Events) : s \o <<>> = s
    OBVIOUS
  <2>2. Handed' = (h \o evts) \o <<>>
    BY <1>2 DEF Handed
  <2> QED BY <1>2, <1>3, <2>1, <2>2
<1>5. FramesOf(h \o evts) = FramesOf(h) /\ (Ascending(h) => Ascending(h \o evts))
  <2>1. /\ FramesOf(h \o evts \o <<>>) = FramesOf(h \o <<>>)
        /\ Ascending(h \o <<>>) => Ascending(h \o evts \o <<>>)
    BY <1>2, <1>t, OtherEventAdded
  <2> QED BY <1>4, <2>1
<1>6. Same
  <2>1. Shown' = Shown
    BY <1>2, <1>4, <1>5, ShownFacts, ShownFactsNext
  <2>2. Ascending(Handed) => Ascending(Handed')
    BY <1>2, <1>4, <1>5
  <2> QED BY <2>1, <2>2 DEF Same
<1>7. \A i \in DOMAIN log : i \in DOMAIN log' /\ log'[i] = log[i]
  <2>1. \A i \in DOMAIN log : i \in DOMAIN (log \o q \o evts) /\ (log \o q \o evts)[i] = log[i]
    BY <1>t, JoinedKeeps
  <2> QED BY <2>1
<1>8. Answers(log) => Answers(log')
  <2>1. \A k \in DOMAIN q : q[k][1] # "send"
    BY DEF Rest, RtInv
  <2>2. Answers(log) => Answers(h)
    BY <1>t, <2>1, AnswersKept DEF h
  <2> QED BY <1>2, <2>2, AnswersKept
<1> QED BY <1>6, <1>7, <1>8, ShownFacts, ShownFactsNext DEF Effect, Grows

LEMMA CloseTerminalKeeps ==
    ASSUME TypeOK, Rest, NEW g \in Loops, NEW e \in Errors, NEW l \in {"shut", "exit", "result"},
           pc[g] \notin {"begin", "write", "finish", "got"},
           NEW evts \in Seq(Events),
           \A k \in DOMAIN evts : ~Frame(evts[k]) /\ evts[k][1] # "send",
           CloseTerminalNow(g, evts, e, l),
           UNCHANGED <<channel, network, hands, messages, senders>>
    PROVE  Rest' /\ Effect /\ UNCHANGED res
<1> USE DEF rt, channel, network, hands, messages, senders
<1>t. TypeLoops /\ "reader" \in Loops /\ "writer" \in Loops
  BY TypeGroups DEF Loops
<1>1. CASE done
  <2>1. UNCHANGED <<out, q, done, log>> /\ pc' = [pc EXCEPT ![g] = l]
    BY <1>1 DEF CloseTerminalNow, Goto
  <2>2. ReaderKept /\ \A x \in {"begin", "write", "finish"} : pc'["writer"] = x <=> pc["writer"] = x
    BY <1>t, <2>1 DEF ReaderKept, TypeLoops
  <2>3. Read' = Read
    BY <2>2 DEF Read, ReaderKept
  <2>4. Shown' = Shown
    BY <2>1 DEF Shown, Handed, Frame
  <2>5. ~out' /\ q' = <<>> /\ done'
    BY <1>1, <2>1 DEF Rest, RtInv
  <2> QED BY <2>1, <2>2, <2>3, <2>4, <2>5, NoEffect, DoneKeeps
<1>2. CASE ~done
  <2>1. /\ log' = log \o q \o evts /\ q' = <<>> /\ ~out' /\ done'
        /\ pc' = [pc EXCEPT ![g] = "cancel"]
    BY <1>2 DEF CloseTerminalNow, CallClose
  <2>2. ReaderKept /\ \A x \in {"begin", "write", "finish"} : pc'["writer"] = x <=> pc["writer"] = x
    BY <1>t, <2>1 DEF ReaderKept, TypeLoops
  <2>3. Read' = Read
    BY <2>2 DEF Read, ReaderKept
  <2>4. Effect
    BY <1>2, <2>1, <2>3, EndRecorded
  <2>5. Shown' = Shown
    BY <2>1, <2>4 DEF Effect, Same, Gains
  <2> QED BY <2>1, <2>2, <2>4, <2>5, DoneKeeps
<1> QED BY <1>1, <1>2

LEMMA CloseTerminalSteps ==
    ASSUME TypeOK, Rest, ReadFails \/ IdleExpires \/ WriteTerminal
    PROVE  Rest' /\ Effect /\ UNCHANGED res
<1>0. /\ "reader" \in Loops /\ "writer" \in Loops /\ "idle" \in Loops
      /\ "nil" \in Errors /\ "err" \in Errors
  BY DEF Loops, Errors
<1>1. /\ <<>> \in Seq(Events) /\ \A k \in DOMAIN <<>> : ~Frame(<<>>[k]) /\ <<>>[k][1] # "send"
  OBVIOUS
<1>2. /\ <<IdleEnded>> \in Seq(Events)
      /\ \A k \in DOMAIN <<IdleEnded>> : ~Frame(<<IdleEnded>>[k]) /\ <<IdleEnded>>[k][1] # "send"
  <2>1. IdleEnded \in Events /\ ~Frame(IdleEnded) /\ IdleEnded[1] # "send"
    BY EndEvents DEF IdleEnded
  <2> QED BY <2>1
<1>3. CASE ReadFails
  <2>1. /\ CloseTerminalNow("reader", <<>>, "err", "shut") /\ pc["reader"] = "loop"
        /\ UNCHANGED <<channel, network, hands, messages, senders>>
    BY <1>3 DEF ReadFails
  <2> QED BY <1>0, <1>1, <2>1, CloseTerminalKeeps
<1>4. CASE IdleExpires
  <2>1. /\ CloseTerminalNow("idle", <<IdleEnded>>, "nil", "exit") /\ pc["idle"] = "loop"
        /\ UNCHANGED <<channel, network, hands, messages, senders>>
    BY <1>4 DEF IdleExpires
  <2> QED BY <1>0, <1>2, <2>1, CloseTerminalKeeps
<1>5. CASE WriteTerminal
  <2>1. /\ CloseTerminalNow("writer", <<>>, "nil", "result") /\ pc["writer"] = "terminal"
        /\ UNCHANGED <<channel, network, hands, messages, senders>>
    BY <1>5 DEF WriteTerminal
  <2> QED BY <1>0, <1>1, <2>1, CloseTerminalKeeps
<1> QED BY <1>3, <1>4, <1>5

(* A received frame is recorded, or held back while a write is under way. *)
LEMMA ReadPublishKeeps ==
    ASSUME TypeOK, Rest, ReadPublish
    PROVE  Rest' /\ Effect /\ UNCHANGED res
<1> USE DEF rt, session, channel, network, hands, messages, senders, loops
<1>t. /\ log \in Seq(Events) /\ q \in Seq(Events) /\ pc \in [Loops -> PCs]
      /\ "writer" \in Loops /\ "reader" \in Loops /\ sent \in Nat /\ Len(net) \in Nat
  BY TypeGroups, MsgFacts DEF TypeSession, TypeRt, TypeLoops, TypeNetwork, Loops
<1>1. /\ UNCHANGED <<out, done, wire, net, sent, ch, after, frame, msg, wok, spc, smsg, nmsg, res>>
      /\ pc["reader"] = "got" /\ pc' = [pc EXCEPT !["reader"] = "loop"]
      /\ PublishReceive(Received(frame))
  BY DEF ReadPublish, Goto
<1>2. pc'["reader"] = "loop" /\ pc'["writer"] = pc["writer"]
  BY <1>1, <1>t
<1>3. frame[1] = sent - Len(net) /\ frame[1] > 0 /\ frame[2] \in wire \cup {None} /\ Len(net) <= sent
  BY <1>1 DEF Rest, NetInv
<1>4. Read' = sent - Len(net) /\ Read = sent - Len(net) - 1 /\ Read' = Read + 1 /\ frame[1] = Read + 1
  BY <1>1, <1>2, <1>3, <1>t DEF Read
<1>5. frame \in Frames
  <2>1. frame \in Frames \cup {<<None, None>>}
    BY TypeGroups DEF TypeHands
  <2>2. <<None, None>>[1] = 0
    BY DEF None
  <2> QED BY <1>3, <2>1, <2>2
<1> DEFINE e == Received(frame)
<1>6. e \in Events /\ e[3] = frame[2] /\ Frame(e) /\ e[1] = "recv"
  BY <1>5, FrameEvents DEF Received
<1> HIDE DEF e
<1>7. MsgInv'
  BY <1>1, <1>2 DEF Rest, MsgInv, InSend, InCall, InHand
<1>8. SUFFICES Effect /\ RtInv' /\ AnswerInv' /\ RecInv' /\ \A x \in Shown' : x[3] \in wire' \cup {None}
  <2>1. ASSUME \A x \in Shown' : x[3] \in wire' \cup {None} PROVE NetInv'
    <3>1. \A i \in DOMAIN Handed' : Frame(Handed'[i]) => Handed'[i][3] \in wire' \cup {None}
      BY <2>1, ShownFactsNext
    <3> QED BY <1>1, <1>2, <3>1 DEF Rest, NetInv, Frame, None
  <2> QED BY <1>1, <1>7, <1>8, <2>1 DEF Rest
<1>9. \A x \in Shown : x[3] \in wire \cup {None}
  BY ShownFacts DEF Rest, NetInv
<1>10. CASE done
  <2>1. log' = log /\ q' = q
    BY <1>1, <1>10 DEF PublishReceive
  <2>2. Handed' = Handed /\ Shown' = Shown /\ (AnswerAfterSend => AnswerAfterSend')
    BY <2>1 DEF Handed, Shown, Frame, AnswerAfterSend, Sent, None
  <2>3. Effect
    BY <1>1, <1>4, <1>10, <2>1, <2>2 DEF Effect, Grows, Same
  <2>4. RtInv' /\ AnswerInv' /\ RecInv'
    BY <1>1, <1>2, <1>10, <2>1 DEF Rest, RtInv, AnswerInv, RecInv
  <2> QED BY <1>1, <1>9, <2>2, <2>3, <2>4
<1>11. CASE ~done
  <2>1. Handed \in Seq(Events)
    BY <1>t, Joined DEF Handed
  <2>2. ASSUME Handed' = Append(Handed, e) PROVE \A x \in Shown' : x[3] \in wire' \cup {None}
    <3>1. \A i \in DOMAIN Append(Handed, e) :
             (i \in DOMAIN Handed /\ Append(Handed, e)[i] = Handed[i]) \/ Append(Handed, e)[i] = e
      BY <1>6, <2>1
    <3>2. \A i \in DOMAIN Handed' : Frame(Handed'[i]) => Handed'[i] \in Shown \cup {e}
      BY <2>2, <3>1 DEF Shown
    <3>3. Shown' \subseteq Shown \cup {e}
      BY <3>2, ShownFactsNext DEF FramesOf
    <3> QED BY <1>1, <1>3, <1>6, <1>9, <3>3
  <2>3. CASE out
    <3>1. log' = log /\ q' = Append(q, e)
      BY <1>1, <1>11, <2>3 DEF PublishReceive, e
    <3>2. Handed' = Append(Handed, e)
      BY <1>6, <1>t, <3>1 DEF Handed
    <3>3. Gains
      BY <1>1, <1>4, <1>5, <1>11, <3>2 DEF Gains, e
    <3>4. Effect
      BY <1>11, <3>1, <3>3 DEF Effect, Grows, AnswerAfterSend, Sent, None
    <3>5. RtInv'
      <4>1. \A i \in DOMAIN q' : (i \in DOMAIN q /\ q'[i] = q[i]) \/ q'[i] = e
        BY <1>6, <1>t, <3>1
      <4>2. \A i \in DOMAIN q' : q'[i][1] # "send"
        BY <1>6, <4>1 DEF Rest, RtInv
      <4> QED BY <1>1, <1>2, <2>3, <4>2 DEF Rest, RtInv
    <3>6. AnswerInv' /\ RecInv'
      BY <1>1, <1>2, <3>1 DEF Rest, AnswerInv, RecInv, Frame, Reporting, Sent
    <3> QED BY <2>2, <3>2, <3>4, <3>5, <3>6
  <2>4. CASE ~out
    <3>0. q = <<>> /\ pc["writer"] \notin {"write", "finish"}
      BY <1>11, <2>4 DEF Rest, RtInv
    <3>1. log' = Append(log, e) /\ q' = q
      BY <1>1, <1>11, <2>4 DEF PublishReceive, e
    <3>2. Handed' = Append(Handed, e)
      BY <1>6, <1>t, <3>0, <3>1 DEF Handed
    <3>3. Gains
      BY <1>1, <1>4, <1>5, <1>11, <3>2 DEF Gains, e
    <3>4. \A i \in DOMAIN log : i \in DOMAIN log' /\ log'[i] = log[i]
      BY <1>6, <1>t, <3>1
    <3>5. Answers(log) => Answers(log')
      <4>1. <<e>> \in Seq(Events) /\ log' = log \o <<e>> /\ \A k \in DOMAIN <<e>> : <<e>>[k][1] # "send"
        BY <1>6, <1>t, <3>1
      <4> QED BY <1>t, <4>1, AnswersKept
    <3>6. Effect
      BY <1>11, <3>3, <3>4, <3>5, ShownFacts, ShownFactsNext DEF Effect, Grows
    <3>7. RtInv' /\ AnswerInv'
      BY <1>1, <1>2, <3>0, <3>1 DEF Rest, RtInv, AnswerInv
    <3>8. RecInv'
      BY <1>1, <1>2, <3>4 DEF Rest, RecInv, Reporting, Sent
    <3> QED BY <2>2, <3>2, <3>6, <3>7, <3>8
  <2> QED BY <2>3, <2>4
<1> QED BY <1>10, <1>11

(* The server's close is recorded, or held back behind the frames before it. *)
LEMMA ReadCloseKeeps ==
    ASSUME TypeOK, Rest, ReadClose
    PROVE  Rest' /\ Effect /\ UNCHANGED res
<1> USE DEF rt, session, channel, network, hands, messages, senders, loops
<1>t. /\ log \in Seq(Events) /\ q \in Seq(Events) /\ pc \in [Loops -> PCs] /\ <<>> \in Seq(Events)
      /\ "writer" \in Loops /\ "reader" \in Loops
  BY TypeGroups DEF TypeSession, TypeRt, TypeLoops, Loops
<1> DEFINE e == ServerClosed
<1>e. e \in Events /\ ~Frame(e) /\ e[1] # "send"
  BY EndEvents DEF ServerClosed
<1> HIDE DEF e
<1>f. /\ <<e>> \in Seq(Events)
      /\ \A k \in DOMAIN <<e>> : ~Frame(<<e>>[k]) /\ <<e>>[k][1] # "send"
  BY <1>e
<1>1. /\ UNCHANGED <<wire, net, sent, ch, frame, msg, wok, spc, smsg, nmsg, res>>
      /\ pc["reader"] = "loop" /\ PublishTerminal(e)
  BY DEF ReadClose, e
<1>2. ASSUME NEW l \in {"shut", "cancel"}, pc' = [pc EXCEPT !["reader"] = l]
      PROVE  ReaderKept /\ pc'["writer"] = pc["writer"] /\ Read' = Read
  <2>1. pc'["reader"] = l /\ pc'["writer"] = pc["writer"]
    BY <1>2, <1>t
  <2> QED BY <1>1, <2>1 DEF ReaderKept, Read
<1>3. CASE done
  <2>1. UNCHANGED <<out, q, done, log>> /\ pc' = [pc EXCEPT !["reader"] = "shut"]
    BY <1>1, <1>3 DEF PublishTerminal, Goto
  <2>2. Effect
    BY <1>2, <2>1, NoEffect
  <2>3. Shown' = Shown /\ ~out' /\ q' = <<>> /\ done'
    BY <1>3, <2>1 DEF Shown, Handed, Frame, Rest, RtInv
  <2> QED BY <1>1, <1>2, <2>1, <2>2, <2>3, DoneKeeps
<1>4. CASE ~done /\ ~out
  <2>1. /\ log' = Append(log, e) /\ done' /\ UNCHANGED <<out, q>>
        /\ pc' = [pc EXCEPT !["reader"] = "cancel"]
    BY <1>1, <1>4 DEF PublishTerminal, CallClose
  <2>2. q = <<>>
    BY <1>4 DEF Rest, RtInv
  <2>3. log' = log \o q \o <<e>> /\ q' = <<>>
    <3>1. log \o q = log /\ Append(log, e) = log \o <<e>>
      BY <1>e, <1>t, <2>2
    <3> QED BY <2>1, <2>2, <3>1
  <2>4. Effect
    BY <1>2, <1>4, <1>f, <2>1, <2>3, EndRecorded
  <2>5. Shown' = Shown
    BY <2>1, <2>4 DEF Effect, Same, Gains
  <2> QED BY <1>1, <1>2, <1>4, <2>1, <2>3, <2>4, <2>5, DoneKeeps
<1>5. CASE ~done /\ out
  <2>1. /\ q' = Append(q, e) /\ UNCHANGED <<out, done, log, after>>
        /\ pc' = [pc EXCEPT !["reader"] = "shut"]
    BY <1>1, <1>5 DEF PublishTerminal, Goto
  <2>2. ReaderKept /\ pc'["writer"] = pc["writer"] /\ Read' = Read
    BY <1>2, <2>1
  <2>3. Handed \in Seq(Events) /\ Handed' = Handed \o <<e>> /\ Handed \o <<e>> \o <<>> = Handed \o <<e>>
        /\ Handed \o <<>> = Handed
    <3>1. Handed \in Seq(Events)
      BY <1>t, Joined DEF Handed
    <3>2. log \o Append(q, e) = Append(log \o q, e)
      BY <1>e, <1>t
    <3>3. Handed' = Append(Handed, e)
      BY <2>1, <3>2 DEF Handed
    <3>4. \A s \in Seq(Events) : s \o <<>> = s /\ Append(s, e) = s \o <<e>> /\ s \o <<e>> \in Seq(Events)
      BY <1>e
    <3> QED BY <3>1, <3>3, <3>4
  <2>4. /\ FramesOf(Handed \o <<e>> \o <<>>) = FramesOf(Handed \o <<>>)
        /\ Ascending(Handed \o <<>>) => Ascending(Handed \o <<e>> \o <<>>)
    BY <1>f, <1>t, <2>3, OtherEventAdded
  <2>5. Shown' = Shown /\ (Ascending(Handed) => Ascending(Handed'))
    <3>1. FramesOf(Handed') = FramesOf(Handed) /\ (Ascending(Handed) => Ascending(Handed'))
      BY <2>3, <2>4
    <3> QED BY <3>1, ShownFacts, ShownFactsNext
  <2>6. Effect
    BY <2>1, <2>2, <2>5 DEF Effect, Grows, Same, AnswerAfterSend, Sent, None
  <2>7. MsgInv' /\ AnswerInv' /\ RecInv'
    BY <1>1, <2>1, <2>2 DEF Rest, MsgInv, InSend, InCall, InHand, AnswerInv, RecInv, Frame,
                            Reporting, Sent
  <2>8. RtInv'
    <3>1. \A i \in DOMAIN q' : (i \in DOMAIN q /\ q'[i] = q[i]) \/ q'[i] = e
      BY <1>e, <1>t, <2>1
    <3>2. \A i \in DOMAIN q' : q'[i][1] # "send"
      BY <1>e, <3>1 DEF Rest, RtInv
    <3>3. out' /\ ~done'
      BY <1>5, <2>1
    <3> QED BY <3>2, <3>3 DEF RtInv
  <2>9. NetInv'
    <3>1. \A x \in Shown' : x[3] \in wire' \cup {None}
      BY <1>1, <2>5, ShownFacts DEF Rest, NetInv
    <3>2. \A i \in DOMAIN Handed' : Frame(Handed'[i]) => Handed'[i][3] \in wire' \cup {None}
      BY <3>1, ShownFactsNext
    <3> QED BY <1>1, <2>2, <3>2 DEF Rest, NetInv, ReaderKept, Frame, None
  <2> QED BY <1>1, <2>6, <2>7, <2>8, <2>9 DEF Rest
<1> QED BY <1>3, <1>4, <1>5

(* finishOutbound: the send is recorded before what came in meanwhile. *)
LEMMA WriteFinishKeeps ==
    ASSUME TypeOK, Rest, WriteFinish
    PROVE  Rest' /\ Effect /\ UNCHANGED res
<1> USE DEF rt, session, channel, network, hands, messages, senders, loops
<1>t. /\ log \in Seq(Events) /\ q \in Seq(Events) /\ TypeLoops /\ <<>> \in Seq(Events)
      /\ "writer" \in Loops /\ "reader" \in Loops
  BY TypeGroups DEF TypeSession, TypeRt, Loops
<1> DEFINE evts == IF wok THEN <<Sent(msg)>> ELSE <<>>
           l == IF wok /\ kind[msg] = "close" THEN "terminal" ELSE "result"
<1>1. /\ UNCHANGED <<wire, net, sent, ch, frame, msg, wok, spc, smsg, nmsg, res>>
      /\ pc["writer"] = "finish" /\ FinishOutbound(evts, l)
  BY DEF WriteFinish
<1>2. /\ ~out' /\ q' = <<>> /\ l \in {"terminal", "result"}
      /\ IF done THEN UNCHANGED <<log, done>> ELSE log' = log \o evts \o q /\ done' = end
      /\ pc'= [pc EXCEPT !["writer"] = "cancel"] \/ pc' = [pc EXCEPT !["writer"] = l]
  BY <1>1 DEF FinishOutbound, CallClose, Goto
<1>3. /\ pc'["writer"] \in {"cancel", "terminal", "result"} /\ pc'["reader"] = pc["reader"]
  BY <1>t, <1>2 DEF TypeLoops
<1>4. ReaderKept /\ Read' = Read
  BY <1>1, <1>3 DEF ReaderKept, Read
<1>5. msg \in Msgs /\ msg \in 1..nmsg
  <2>1. msg \in 1..nmsg /\ msg \in Msgs \cup {None}
    BY <1>1, TypeGroups DEF Rest, MsgInv, InHand, TypeHands
  <2> QED BY <2>1 DEF None
<1>6. /\ evts \in Seq(Events) /\ \A k \in DOMAIN evts : ~Frame(evts[k])
      /\ wok => evts = <<Sent(msg)>> /\ 1 \in DOMAIN evts /\ evts[1] = Sent(msg)
      /\ ~wok => evts = <<>>
  BY <1>5, SentEvents
<1> HIDE DEF evts, l
<1>7. MsgInv'
  BY <1>1, <1>3 DEF Rest, MsgInv, InSend, InCall, InHand
<1>8. AnswerInv'
  BY <1>3 DEF AnswerInv
<1>9. RtInv'
  BY <1>2, <1>3 DEF RtInv
<1>10. SUFFICES Effect /\ Shown' = Shown /\ RecInv'
  <2>1. ASSUME Shown' = Shown PROVE NetInv'
    <3>1. \A x \in Shown' : x[3] \in wire' \cup {None}
      BY <1>1, <2>1, ShownFacts DEF Rest, NetInv
    <3>2. \A i \in DOMAIN Handed' : Frame(Handed'[i]) => Handed'[i][3] \in wire' \cup {None}
      BY <3>1, ShownFactsNext
    <3> QED BY <1>1, <1>4, <3>2 DEF Rest, NetInv, ReaderKept, Frame, None
  <2> QED BY <1>1, <1>7, <1>8, <1>9, <1>10, <2>1 DEF Rest
<1>11. CASE done
  <2>1. UNCHANGED <<log, q, done>>
    BY <1>2, <1>11 DEF Rest, RtInv
  <2>2. Effect /\ Shown' = Shown
    BY <1>4, <2>1, NoEffect DEF Shown, Handed, Frame
  <2>3. RecInv'
    BY <1>11, <2>1 DEF RecInv
  <2> QED BY <2>2, <2>3
<1>12. CASE ~done
  <2>1. log' = log \o evts \o q
    BY <1>2, <1>12
  <2>2. /\ log \o evts \o q \in Seq(Events)
        /\ \A i \in DOMAIN log : i \in DOMAIN (log \o evts \o q) /\ (log \o evts \o q)[i] = log[i]
        /\ \A k \in DOMAIN evts : /\ Len(log) + k \in DOMAIN (log \o evts \o q)
                                  /\ (log \o evts \o q)[Len(log) + k] = evts[k]
    <3>1. log \in Seq(Events) /\ evts \in Seq(Events) /\ q \in Seq(Events)
      BY <1>6, <1>t
    <3>2. log \o evts \o q \in Seq(Events)
      BY <3>1, Inserted
    <3>3. \A i \in DOMAIN log : i \in DOMAIN (log \o evts \o q) /\ (log \o evts \o q)[i] = log[i]
      BY <3>1, Inserted
    <3>4. \A k \in DOMAIN evts : /\ Len(log) + k \in DOMAIN (log \o evts \o q)
                                  /\ (log \o evts \o q)[Len(log) + k] = evts[k]
      BY <3>1, Inserted
    <3> QED BY <3>2, <3>3, <3>4
  <2>3. Grows
    BY <1>12, <2>1, <2>2 DEF Grows
  <2>4. Handed' = log \o evts \o q /\ Handed = log \o q
    <3>1. \A s \in Seq(Events) : s \o <<>> = s
      OBVIOUS
    <3>2. Handed' = (log \o evts \o q) \o <<>>
      BY <1>2, <2>1 DEF Handed
    <3> QED BY <2>2, <3>1, <3>2 DEF Handed
  <2>5. /\ FramesOf(log \o evts \o q) = FramesOf(log \o q)
        /\ Ascending(log \o q) => Ascending(log \o evts \o q)
    BY <1>6, <1>t, OtherEventAdded
  <2>6. Shown' = Shown /\ (Ascending(Handed) => Ascending(Handed'))
    <3>1. FramesOf(Handed') = FramesOf(Handed) /\ (Ascending(Handed) => Ascending(Handed'))
      BY <2>4, <2>5
    <3> QED BY <3>1, ShownFacts, ShownFactsNext
  <2>7. Same
    BY <1>4, <1>12, <2>6 DEF Same
  <2>8. Answers(log) => Answers(log')
    <3>1. ASSUME Answers(log) PROVE Answers(log \o evts)
      <4>1. CASE wok
        <5>1. \A i \in DOMAIN log : Frame(log[i]) => log[i][3] # msg
          BY <1>1, <1>12 DEF Rest, AnswerInv
        <5> QED BY <1>5, <1>6, <1>t, <3>1, <4>1, <5>1, SendAdded
      <4>2. CASE ~wok
        <5>1. log \o <<>> = log
          BY <1>t
        <5> QED BY <1>6, <3>1, <4>2, <5>1
      <4> QED BY <1>6, <4>1, <4>2
    <3>2. log \o evts \in Seq(Events) /\ \A k \in DOMAIN q : q[k][1] # "send"
      BY <1>6, <1>t, Joined DEF Rest, RtInv
    <3>3. Answers(log \o evts) => Answers((log \o evts) \o q)
      BY <1>t, <3>2, AnswersKept
    <3> QED BY <2>1, <3>1, <3>3
  <2>9. Effect
    BY <2>3, <2>7, <2>8, ShownFacts, ShownFactsNext DEF Effect
  <2>10. RecInv'
    <3>1. ASSUME wok PROVE \E i \in DOMAIN log' : log'[i] = Sent(msg')
      BY <1>1, <1>6, <2>1, <2>2, <3>1
    <3>2. wok' => \E i \in DOMAIN log' : log'[i] = Sent(msg')
      BY <1>1, <3>1
    <3> QED BY <3>2 DEF RecInv, Sent, None
  <2> QED BY <2>6, <2>9, <2>10
<1> QED BY <1>11, <1>12

-----------------------------------------------------------------------------
(* Every step of Next keeps the invariant and has an Effect. *)
LEMMA NextKinds ==
    ASSUME Next
    PROVE  \/ ReadFrame \/ ReadPublish \/ ReadClose \/ ReadFails
           \/ WriterStops \/ WriterTakes \/ BeginOutbound \/ WriteFrame \/ WriteFails
           \/ WriteFinish \/ WriteTerminal \/ WriteResult
           \/ ServerSends \/ ServerCloses \/ ConnectionBreaks \/ UserCancels
           \/ IdleStops \/ IdleExpires
           \/ \E s \in Senders : SenderStep(s)
           \/ \E g \in Loops : SessionClose(g) \/ (g # "idle" /\ Shutdown(g))
<1>0. /\ "reader" \in Loops /\ "writer" \in Loops /\ "idle" \in Loops /\ Script \in Senders
  BY WsAssumption DEF Loops
<1>1. CASE Fault
  BY <1>0, <1>1 DEF Fault, SenderStep
<1>2. CASE Reader \/ Writer \/ WriteFrame \/ IdleWatch
  BY <1>0, <1>2 DEF Reader, Writer, IdleWatch
<1>3. CASE \E s \in Senders : Sender(s) \/ SenderMay(s)
  BY <1>3 DEF SenderStep
<1> QED BY <1>1, <1>2, <1>3 DEF Next

LEMMA TypeNext ==
    ASSUME TypeOK, Rest, Next
    PROVE  TypeOK'
<1>1. TypeRest /\ TypeFaults /\ NetInv /\ MsgInv
  BY TypeGroups DEF TypeRest, Rest
<1>2. TypeFaults'
  <2>1. MaxFaults \in Nat /\ faults \in 0..MaxFaults
    BY <1>1, MsgFacts DEF TypeFaults
  <2>2. faults' = faults \/ (faults < MaxFaults /\ faults' = faults + 1)
    BY DEF Next
  <2> QED BY <2>1, <2>2 DEF TypeFaults
<1>3. TypeRest'
  <2>1. CASE ReadFrame \/ ReadPublish \/ ReadClose \/ ReadFails
    BY <1>1, <2>1, ReaderTypes
  <2>2. CASE \/ WriterStops \/ WriterTakes \/ BeginOutbound \/ WriteFrame \/ WriteFails
             \/ WriteFinish \/ WriteTerminal \/ WriteResult
    BY <1>1, <2>2, WriterTypes
  <2>3. CASE \/ ServerSends \/ ServerCloses \/ ConnectionBreaks \/ UserCancels
             \/ IdleStops \/ IdleExpires
    BY <1>1, <2>3, OutsideTypes
  <2>4. CASE \E s \in Senders : SenderStep(s)
    BY <1>1, <2>4, SenderTypes
  <2>5. CASE \E g \in Loops : SessionClose(g) \/ (g # "idle" /\ Shutdown(g))
    BY <1>1, <2>5, SessionTypes
  <2> QED BY <2>1, <2>2, <2>3, <2>4, <2>5, NextKinds
<1> QED BY <1>2, <1>3, TypeGroupsNext DEF TypeRest

LEMMA StepEffect ==
    ASSUME TypeOK, Rest, Next
    PROVE  Rest' /\ Effect /\ (UNCHANGED res \/ WriteResult)
<1> USE DEF rt, session, channel, network, hands, messages, senders, loops
<1>t. Len(net) \in Nat /\ sent \in Nat
  BY TypeGroups, MsgFacts DEF TypeNetwork
<1>1. ASSUME Aside PROVE Rest' /\ Effect
  <2>1. UNCHANGED <<log, q, done>> /\ Read' = Read
    BY <1>1 DEF Aside, ReaderKept, Read
  <2> QED BY <1>1, <2>1, AsideKeeps, NoEffect
<1>2. CASE ServerSends
  <2>1. Rest' /\ sent' - Len(net') = sent - Len(net) /\ UNCHANGED <<log, q, done, pc, res>>
    BY <1>2, ServerSendsKeeps
  <2>2. Read' = Read
    BY <2>1 DEF Read
  <2> QED BY <2>1, <2>2, NoEffect
<1>3. CASE ReadFrame
  <2>1. /\ Rest' /\ Len(net') = Len(net) - 1 /\ pc["reader"] = "loop" /\ pc'["reader"] = "got"
        /\ UNCHANGED <<log, q, done, sent, res>>
    BY <1>3, ReadFrameKeeps
  <2>2. Read' = Read
    BY <1>t, <2>1 DEF Read
  <2> QED BY <2>1, <2>2, NoEffect
<1>4. CASE WriterTakes \/ BeginOutbound \/ WriteFrame \/ WriteFails
  <2>1. Rest' /\ pc'["reader"] = pc["reader"] /\ UNCHANGED <<log, q, done, net, sent, res>>
    BY <1>4, WriterTakesKeeps, BeginOutboundKeeps, WriteKeeps
  <2>2. Read' = Read
    BY <2>1 DEF Read
  <2> QED BY <2>1, <2>2, NoEffect
<1>5. CASE \E s \in Senders : SenderStep(s)
  <2>1. UNCHANGED <<log, q, done, net, sent, pc, res>>
    BY <1>5 DEF SenderStep, Sender, SenderMay, EnqueueSends, EnqueueRefused, EnqueueResult,
           EnqueueAbandons, EnqueueExpires, Enqueue, ScriptCloses, ScriptFindsDead, ScriptDone,
           ScriptStepFails
  <2>2. Read' = Read
    BY <2>1 DEF Read
  <2> QED BY <1>5, <2>1, <2>2, NoEffect, SenderKeeps
<1>6. CASE ReadFails \/ IdleExpires \/ WriteTerminal
  BY <1>6, CloseTerminalSteps
<1>7. CASE ReadPublish \/ ReadClose \/ WriteFinish
  BY <1>7, ReadPublishKeeps, ReadCloseKeeps, WriteFinishKeeps
<1>8. CASE IdleStops \/ WriterStops \/ ServerCloses \/ ConnectionBreaks \/ UserCancels
  <2>1. UNCHANGED res
    BY <1>8 DEF IdleStops, WriterStops, ServerCloses, ConnectionBreaks, UserCancels
  <2> QED BY <1>1, <1>8, <2>1, AsideSteps
<1>9. CASE WriteResult
  BY <1>1, <1>9, AsideSteps
<1>10. CASE \E g \in Loops : SessionClose(g) \/ (g # "idle" /\ Shutdown(g))
  <2>1. UNCHANGED res
    BY <1>10 DEF SessionClose, CancelContext, DecideEnd, Shutdown, ShutdownBegin, ShutdownCancel,
                 ShutdownConn, ShutdownEnd
  <2> QED BY <1>1, <1>10, <2>1, AsideSteps
<1> QED BY <1>2, <1>3, <1>4, <1>5, <1>6, <1>7, <1>8, <1>9, <1>10, NextKinds

(* The frames: kept, or the next one handed over. *)
LEMMA GainsOne ==
    ASSUME TypeOK, FramesInOrder, Gains
    PROVE  /\ Shown' = Shown \cup {Received(frame)} /\ Ascending(Handed')
<1>t. Handed \in Seq(Events)
  BY TypeGroups, Joined DEF TypeSession, TypeRt, Handed
<1> DEFINE e == Received(frame)
<1>1. e \in Events /\ Frame(e) /\ e[2] = Read + 1 /\ Handed' = Append(Handed, e) /\ ~done
  BY FrameEvents DEF Gains
<1> HIDE DEF e
<1>2. /\ DOMAIN Handed = 1..Len(Handed) /\ Len(Handed) \in Nat
      /\ DOMAIN Handed' = 1..(Len(Handed) + 1)
      /\ Handed'[Len(Handed) + 1] = e /\ \A i \in DOMAIN Handed : Handed'[i] = Handed[i]
  BY <1>1, <1>t
<1>3. \A i \in DOMAIN Handed' : i \in DOMAIN Handed \/ i = Len(Handed) + 1
  BY <1>2
<1>4. \A i \in DOMAIN Handed : i \in DOMAIN Handed' /\ i < Len(Handed) + 1
  BY <1>2
<1>5. Len(Handed) + 1 \in DOMAIN Handed'
  BY <1>2
<1>6. Shown' = Shown \cup {e}
  <2>1. FramesOf(Handed') = FramesOf(Handed) \cup {e}
    BY <1>1, <1>2, <1>3, <1>4, <1>5 DEF FramesOf
  <2> QED BY <2>1, ShownFacts, ShownFactsNext
<1>7. Ascending(Handed)
  BY DEF FramesInOrder, Ascending
<1>8. {x[2] : x \in Shown} = 1..Read
  BY <1>1 DEF FramesInOrder, Read
<1>9. \A i \in DOMAIN Handed : Frame(Handed[i]) => Handed[i][2] \in 1..Read
  BY <1>8 DEF Shown
<1>r. Read \in Int
  BY TypeGroups, MsgFacts DEF TypeNetwork, Read
<1>10. Ascending(Handed')
  <2>1. ASSUME NEW i \in DOMAIN Handed', NEW j \in DOMAIN Handed', i < j,
               Frame(Handed'[i]), Frame(Handed'[j])
        PROVE  Handed'[i][2] < Handed'[j][2]
    <3>1. i \in DOMAIN Handed /\ Handed'[i] = Handed[i]
      BY <1>2, <1>3, <2>1
    <3>2. CASE j \in DOMAIN Handed
      BY <1>2, <1>7, <2>1, <3>1, <3>2 DEF Ascending
    <3>3. CASE j = Len(Handed) + 1
      <4>1. Handed[i][2] \in 1..Read
        BY <1>9, <2>1, <3>1
      <4> QED BY <1>1, <1>2, <1>r, <3>1, <3>3, <4>1
    <3> QED BY <1>3, <3>2, <3>3
  <2> QED BY <2>1 DEF Ascending
<1> QED BY <1>6, <1>10 DEF e

LEMMA FramesStep ==
    ASSUME TypeOK, NetInv, FramesInOrder, Effect
    PROVE  FramesInOrder' /\ Shown \subseteq Shown'
<1>r. Read \in Nat
  BY ReadNat
<1>0. /\ Ascending(Handed)
      /\ \E k \in 0..Read : {e[2] : e \in Shown} = 1..k /\ (~done => k = Read)
  BY DEF FramesInOrder, Ascending, Read
<1>1. ASSUME Ascending(Handed'),
             \E k \in 0..Read' : {e[2] : e \in Shown'} = 1..k /\ (~done' => k = Read')
      PROVE  FramesInOrder'
  BY <1>1 DEF FramesInOrder, Ascending, Read, Frame
<1>2. CASE Same
  <2>1. PICK k \in 0..Read : {e[2] : e \in Shown} = 1..k /\ (~done => k = Read)
    BY <1>0
  <2>2. k \in 0..Read' /\ (~done' => k = Read') /\ {e[2] : e \in Shown'} = 1..k
    BY <1>2, <1>r, <2>1 DEF Same
  <2>3. \E j \in 0..Read' : {e[2] : e \in Shown'} = 1..j /\ (~done' => j = Read')
    BY <2>2
  <2> QED BY <1>0, <1>1, <1>2, <2>3 DEF Same
<1>3. CASE Gains
  <2>1. Shown' = Shown \cup {Received(frame)} /\ Ascending(Handed')
    BY <1>3, GainsOne
  <2>2. Received(frame)[2] = Read + 1 /\ ~done /\ Read' = Read + 1
    BY <1>3, FrameEvents DEF Gains
  <2>3. {e[2] : e \in Shown} = 1..Read
    BY <1>0, <2>2
  <2>4. {e[2] : e \in Shown'} = {e[2] : e \in Shown} \cup {Received(frame)[2]}
    BY <2>1
  <2>5. {e[2] : e \in Shown'} = 1..Read'
    BY <1>r, <2>2, <2>3, <2>4
  <2>6. Read' \in 0..Read'
    BY <1>r, <2>2
  <2>7. \E j \in 0..Read' : {e[2] : e \in Shown'} = 1..j /\ (~done' => j = Read')
    BY <2>5, <2>6
  <2> QED BY <1>1, <2>1, <2>7
<1> QED BY <1>2, <1>3 DEF Effect, Same

(* A result is reported only after the send was recorded. *)
LEMMA OkStep ==
    ASSUME TypeOK, Rest, OkIsRecorded, Grows, UNCHANGED res \/ WriteResult
    PROVE  OkIsRecorded'
<1>t. /\ res \in [Msgs -> {"none"} \cup Errors] /\ pc \in [Loops -> PCs] /\ "writer" \in Loops
      /\ done \in BOOLEAN
  BY TypeGroups DEF TypeMessages, TypeLoops, TypeRt, Loops
<1>1. SUFFICES ASSUME NEW m \in Msgs, res'[m] = "nil", ~done'
               PROVE  \E i \in DOMAIN log' : log'[i] = Sent(m)
  BY DEF OkIsRecorded, Sent, None, Msgs
<1>2. ~done
  BY <1>1 DEF Grows
<1>3. CASE res[m] = "nil"
  BY <1>2, <1>3 DEF OkIsRecorded, Grows
<1>4. CASE res[m] # "nil"
  <2>1. WriteResult /\ m = msg /\ wok
    BY <1>1, <1>4, <1>t DEF WriteResult
  <2>2. Reporting
    BY <2>1 DEF WriteResult, Reporting
  <2>3. \E i \in DOMAIN log : log[i] = Sent(m)
    BY <1>2, <2>1, <2>2 DEF Rest, RecInv
  <2> QED BY <2>3 DEF Grows
<1> QED BY <1>3, <1>4

(* The invariant: what the runs check, and what that rests on. *)
Inv == TypeOK /\ Rest /\ AnswerAfterSend /\ OkIsRecorded /\ FramesInOrder

LEMMA InitInv == Init => Inv
<1> SUFFICES ASSUME Init PROVE Inv
  OBVIOUS
<1> USE DEF Init
<1>f. MaxRecv \in Nat /\ MaxMsgs \in Nat /\ MaxFaults \in Nat /\ QueueCap \in Nat
  BY MsgFacts
<1>e. \A S : <<>> \in Seq(S)
  OBVIOUS
<1>1. TypeOK
  <2>1. TypeRt /\ TypeSession /\ TypeOnce
    BY <1>e DEF TypeRt, TypeSession, TypeOnce, Errors
  <2>2. TypeChannel /\ TypeNetwork /\ TypeHands /\ TypeFaults
    <3>1. ch = <<>> /\ Len(ch) = 0 /\ ch \in Seq(Msgs) /\ net \in Seq(Frames)
      BY <1>e
    <3>2. 0 <= QueueCap /\ 0 \in 0..MaxRecv /\ 0 \in 0..MaxFaults
      BY <1>f
    <3>3. TypeChannel
      BY <3>1, <3>2 DEF TypeChannel
    <3>4. TypeNetwork
      BY <3>1, <3>2 DEF TypeNetwork
    <3>5. TypeHands /\ TypeFaults
      BY <3>2 DEF TypeHands, TypeFaults
    <3> QED BY <3>3, <3>4, <3>5
  <2>3. TypeLoops
    BY DEF TypeLoops, PCs, Afters, Errors
  <2>4. TypeMessages /\ TypeSenders
    <3>1. TypeSenders
      BY DEF TypeSenders
    <3>2. 0 \in 0..MaxMsgs
      BY <1>f
    <3> QED BY <3>1, <3>2 DEF TypeMessages
  <2> QED BY <2>1, <2>2, <2>3, <2>4, TypeGroups
<1>2. pc["writer"] = "loop" /\ pc["reader"] = "loop"
  BY DEF Loops
<1>3. DOMAIN log = {} /\ DOMAIN q = {} /\ DOMAIN ch = {} /\ DOMAIN net = {} /\ Len(net) = 0
  OBVIOUS
<1>4. Handed = <<>> /\ DOMAIN Handed = {}
  BY DEF Handed
<1>5. MsgInv
  BY <1>2, <1>3 DEF MsgInv, InHand, InSend, InCall
<1>6. RtInv /\ NetInv /\ AnswerInv /\ RecInv
  BY <1>2, <1>3, <1>4 DEF RtInv, NetInv, AnswerInv, RecInv, Reporting
<1>7. AnswerAfterSend /\ OkIsRecorded
  BY <1>3 DEF AnswerAfterSend, OkIsRecorded
<1>8. FramesInOrder
  <2>1. Shown = {}
    BY <1>4 DEF Shown
  <2>2. Read = 0 /\ 0 \in 0..Read
    <3>1. Read = sent - Len(net) - 0 /\ sent = 0
      BY <1>2 DEF Read
    <3> QED BY <1>3, <3>1
  <2>3. {e[2] : e \in Shown} = 1..0
    BY <2>1
  <2>4. \E k \in 0..Read : {e[2] : e \in Shown} = 1..k /\ (~done => k = Read)
    BY <2>2, <2>3
  <2>5. \A i, j \in DOMAIN Handed :
           i < j /\ Frame(Handed[i]) /\ Frame(Handed[j]) => Handed[i][2] < Handed[j][2]
    BY <1>4
  <2> QED BY <2>4, <2>5 DEF FramesInOrder, Read
<1> QED BY <1>1, <1>5, <1>6, <1>7, <1>8 DEF Inv, Rest

LEMMA InvStep ==
    ASSUME Inv, [Next]_vars
    PROVE  Inv' /\ Shown \subseteq Shown' /\ (done => log' = log)
<1>1. CASE Next
  <2>1. Rest' /\ Effect /\ (UNCHANGED res \/ WriteResult)
    BY <1>1, StepEffect DEF Inv
  <2>2. TypeOK'
    BY <1>1, TypeNext DEF Inv
  <2>3. NetInv
    BY DEF Inv, Rest
  <2>4. FramesInOrder' /\ Shown \subseteq Shown'
    BY <2>1, <2>3, FramesStep DEF Inv
  <2>5. OkIsRecorded'
    BY <2>1, OkStep DEF Inv, Effect
  <2> QED BY <2>1, <2>2, <2>4, <2>5 DEF Inv, Effect, Grows
<1>2. CASE UNCHANGED vars
  <2> USE <1>2 DEF vars, rt, session, channel, network, loops, hands, messages, senders
  <2>1. TypeOK'
    BY DEF Inv, TypeOK
  <2>2. Rest'
    BY DEF Inv, Rest, MsgInv, RtInv, NetInv, AnswerInv, RecInv, InHand, InSend, InCall, Handed,
           Frame, Reporting, Sent
  <2>3. AnswerAfterSend' /\ OkIsRecorded'
    BY DEF Inv, AnswerAfterSend, OkIsRecorded, Sent
  <2>4. FramesInOrder' /\ Shown' = Shown
    BY DEF Inv, FramesInOrder, Shown, Handed, Frame
  <2> QED BY <2>1, <2>2, <2>3, <2>4 DEF Inv
<1> QED BY <1>1, <1>2

LEMMA WsInvariant == Spec => []Inv
<1>1. Inv /\ [Next]_vars => Inv'
  BY InvStep
<1> QED BY InitInv, <1>1, PTL DEF Spec

-----------------------------------------------------------------------------
(* The websocket runtime's state keeps its types; in particular the write    *)
(* channel never holds more than its capacity (WebSocketSender.enqueue).     *)
THEOREM WsTypeCorrect == Spec => []TypeOK
<1>1. Inv => TypeOK
  BY DEF Inv
<1> QED BY WsInvariant, <1>1, PTL

(* In the transcript, an answer never stands before the message it answers:  *)
(* beginOutbound holds back what readLoop receives until finishOutbound has  *)
(* recorded the send.                                                        *)
THEOREM WsAnswerAfterSend == Spec => []AnswerAfterSend
<1>1. Inv => AnswerAfterSend
  BY DEF Inv
<1> QED BY WsInvariant, <1>1, PTL

(* A sender of enqueue that was told its message went out finds it in the    *)
(* transcript, unless the stream ended during the write.                     *)
THEOREM WsOkIsRecorded == Spec => []OkIsRecorded
<1>1. Inv => OkIsRecorded
  BY DEF Inv
<1> QED BY WsInvariant, <1>1, PTL

(* The frames readLoop has handed over stand in the transcript, or wait for  *)
(* finishOutbound, once each, in the server's order and without a gap.       *)
THEOREM WsFramesInOrder == Spec => []FramesInOrder
<1>1. Inv => FramesInOrder
  BY DEF Inv
<1> QED BY WsInvariant, <1>1, PTL

(* No step loses a frame that was handed over: whoever ends the stream       *)
(* (publishTerminal, closeTerminalNow, finishOutbound) replays first what a  *)
(* write held back.                                                          *)
THEOREM WsFramesKept == Spec => FramesKept
<1>1. Inv /\ [Next]_vars => [Shown \subseteq Shown']_vars
  BY InvStep
<1> QED BY WsInvariant, <1>1, PTL DEF Spec, FramesKept

(* Once the runtime is done nothing is added to the transcript. *)
THEOREM WsDoneFreezesTranscript == Spec => DoneFreezesTranscript
<1>1. Inv /\ [Next]_vars => [done => log' = log]_vars
  BY InvStep
<1> QED BY WsInvariant, <1>1, PTL DEF Spec, DoneFreezesTranscript

=============================================================================
