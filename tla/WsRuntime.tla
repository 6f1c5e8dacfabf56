------------------------------ MODULE WsRuntime ------------------------------
(***************************************************************************)
(* internal/protocol/httpx: one open websocket.  readLoop, writeLoop and    *)
(* idleWatch run side by side over one connection and one stream.Session;   *)
(* WebSocketSender.enqueue hands messages to writeLoop, called by a console *)
(* and by the script of a request (runWSSteps, CompleteWebSocket).          *)
(*                                                                         *)
(* A step is one critical section (rt.mu, or the session's lock) or one     *)
(* call on a channel or the connection.  The session is what StreamSession  *)
(* says of it: a transcript that Publish appends to and an end that only    *)
(* the first Close decides.  Time is abstracted: the idle timer may expire  *)
(* whenever idleWatch looks (so pulse, which only restarts it, is left out). *)
(* Pings and pongs are messages; payloads, opcodes and metadata are not     *)
(* modelled.                                                                *)
(***************************************************************************)
EXTENDS Integers, Sequences

CONSTANTS Senders,   \* goroutines that call enqueue
          Script,    \* the one of them that runs CompleteWebSocket
          MaxMsgs,   \* bound on the messages enqueued
          MaxRecv,   \* bound on the frames the server sends
          MaxFaults, \* bound on what goes wrong outside: see Fault
          Kinds,     \* the kinds of messages the senders enqueue
          QueueCap   \* defaultWebSocketSendQueue

ASSUME WsAssumption == Script \in Senders /\ MaxMsgs \in Nat /\ MaxRecv \in Nat
                       /\ MaxFaults \in Nat /\ Kinds \subseteq {"data", "close"}
                       /\ QueueCap \in Nat \ {0}

Msgs == 1..MaxMsgs
None == 0
Loops == {"reader", "writer", "idle"}
Errors == {"nil", "err"}

(* Transcript events: a message sent, a frame received in answer to a       *)
(* message (or to None), and the ends recorded by readLoop and idleWatch.   *)
Sent(m) == <<"send", m, None>>
Received(f) == <<"recv", f[1], f[2]>>
ServerClosed == <<"close", None, None>>
IdleEnded == <<"idle", None, None>>

VARIABLES
    out, q, end, endErr, done,          \* wsRuntime, under rt.mu
    log, ended, outcome, state, ctx,    \* the session: events, end, error, state, context done
    ch, chClosed,                       \* rt.writeCh
    wire, net, sent, conn,              \* frames written and to be read, and the connection
    pc, earg, after,                    \* each loop, the error it closes with, and where it goes then
    frame, msg, wok,                    \* the frame in readLoop's hand, writeLoop's message and its write
    once,                               \* shutdown: who runs it
    kind, res, expired, nmsg,           \* the messages: kind, result channel, own context done
    spc, smsg, scripted,                \* each sender, its message; closedByScript
    faults                              \* Faults so far

rt == <<out, q, end, endErr, done>>
session == <<log, ended, outcome, state, ctx>>
channel == <<ch, chClosed>>
network == <<wire, net, sent, conn>>
loops == <<pc, earg, after>>
hands == <<frame, msg, wok>>
messages == <<kind, res, expired, nmsg>>
senders == <<spc, smsg, scripted>>
vars == <<rt, session, channel, network, loops, hands, once, messages, senders, faults>>

(* StartWebSocket after the handshake. *)
Init ==
    /\ out = FALSE /\ q = <<>> /\ end = FALSE /\ endErr = "nil" /\ done = FALSE
    /\ log = <<>> /\ ended = FALSE /\ outcome = "nil" /\ state = "open" /\ ctx = FALSE
    /\ ch = <<>> /\ chClosed = FALSE
    /\ wire = {} /\ net = <<>> /\ sent = 0 /\ conn = "open"
    /\ pc = [g \in Loops |-> "loop"]
    /\ earg = [g \in Loops |-> "nil"] /\ after = [g \in Loops |-> "exit"]
    /\ frame = <<None, None>> /\ msg = None /\ wok = FALSE
    /\ once = "idle"
    /\ kind = [m \in Msgs |-> "data"] /\ res = [m \in Msgs |-> "none"]
    /\ expired = {} /\ nmsg = 0
    /\ spc = [s \in Senders |-> "idle"] /\ smsg = [s \in Senders |-> None]
    /\ scripted = FALSE /\ faults = 0

Goto(g, l) == pc' = [pc EXCEPT ![g] = l] /\ UNCHANGED <<earg, after>>
(* Goroutine g calls session.Close(err) and goes on at l. *)
CallClose(g, err, l) ==
    /\ pc' = [pc EXCEPT ![g] = "cancel"]
    /\ earg' = [earg EXCEPT ![g] = err]
    /\ after' = [after EXCEPT ![g] = l]

(* Session.Close: cancel the context, then decide the end under s.mu.       *)
CancelContext(g) ==
    /\ pc[g] = "cancel"
    /\ ctx' = TRUE
    /\ Goto(g, "decide")
    /\ UNCHANGED <<rt, log, ended, outcome, state, channel, network, hands, once, messages, senders>>

DecideEnd(g) ==
    /\ pc[g] = "decide"
    /\ IF ended THEN UNCHANGED <<ended, outcome, state>>
       ELSE /\ ended' = TRUE /\ outcome' = earg[g]
            /\ state' = IF earg[g] = "nil" THEN "closed" ELSE "failed"
    /\ Goto(g, after[g])
    /\ UNCHANGED <<rt, log, ctx, channel, network, hands, once, messages, senders>>

-----------------------------------------------------------------------------
(* The methods of wsRuntime, one critical section of rt.mu each.            *)

(* Mutant: a frame is published although a write is in flight. *)
PublishReceiveNow(evt) ==
    /\ log' = IF done THEN log ELSE Append(log, evt)
    /\ UNCHANGED q

(* Mutant: a frame that arrives during a write is dropped. *)
PublishReceiveDrops(evt) ==
    /\ log' = IF done \/ out THEN log ELSE Append(log, evt)
    /\ UNCHANGED q

(* Mutant: a frame that arrives after the end is still published. *)
PublishReceiveLate(evt) ==
    IF out /\ ~done THEN q' = Append(q, evt) /\ UNCHANGED log
    ELSE log' = Append(log, evt) /\ UNCHANGED q

PublishReceive(evt) ==
    \/ done /\ UNCHANGED <<log, q>>
    \/ ~done /\ out /\ q' = Append(q, evt) /\ UNCHANGED log
    \/ ~done /\ ~out /\ log' = Append(log, evt) /\ UNCHANGED q

(* Mutant: the end of the stream is not remembered during a write. *)
PublishTerminalForgets(evt) ==
    \/ done /\ UNCHANGED <<rt, log>> /\ Goto("reader", "shut")
    \/ /\ ~done /\ out
       /\ q' = Append(q, evt)
       /\ UNCHANGED <<out, end, endErr, done, log>> /\ Goto("reader", "shut")
    \/ /\ ~done /\ ~out
       /\ log' = Append(log, evt) /\ done' = TRUE
       /\ UNCHANGED <<out, q, end, endErr>> /\ CallClose("reader", "nil", "shut")

(* publishTerminal with an event and no error, as readLoop calls it. *)
PublishTerminal(evt) ==
    \/ done /\ UNCHANGED <<rt, log>> /\ Goto("reader", "shut")
    \/ /\ ~done /\ out
       /\ q' = Append(q, evt) /\ end' = TRUE /\ endErr' = "nil"
       /\ UNCHANGED <<out, done, log>> /\ Goto("reader", "shut")
    \/ /\ ~done /\ ~out
       /\ log' = Append(log, evt) /\ done' = TRUE
       /\ UNCHANGED <<out, q, end, endErr>> /\ CallClose("reader", "nil", "shut")

(* Mutant: the frames queued during a write are thrown away. *)
CloseTerminalDrops(g, evts, err, l) ==
    \/ done /\ UNCHANGED <<rt, log>> /\ Goto(g, l)
    \/ /\ ~done
       /\ log' = log \o evts
       /\ q' = <<>> /\ end' = FALSE /\ endErr' = "nil" /\ out' = FALSE /\ done' = TRUE
       /\ CallClose(g, err, l)

CloseTerminalNow(g, evts, err, l) ==
    \/ done /\ UNCHANGED <<rt, log>> /\ Goto(g, l)
    \/ /\ ~done
       /\ log' = log \o q \o evts
       /\ q' = <<>> /\ end' = FALSE /\ endErr' = "nil" /\ out' = FALSE /\ done' = TRUE
       /\ CallClose(g, err, l)

(* finishOutbound: record the send, replay what came in meanwhile, and end  *)
(* the session if its end came in meanwhile, too.                           *)
FinishOutbound(evts, l) ==
    /\ out' = FALSE /\ q' = <<>> /\ end' = FALSE /\ endErr' = "nil"
    /\ IF done THEN UNCHANGED <<log, done>> ELSE log' = log \o evts \o q /\ done' = end
    /\ IF end /\ ~done THEN CallClose("writer", endErr, l) ELSE Goto("writer", l)

-----------------------------------------------------------------------------
(* The server (external): it answers what it was sent, or pushes, and may   *)
(* close.  Its frames are numbered in the order it sends them.              *)
ServerSends ==
    /\ conn = "open" /\ sent < MaxRecv
    /\ sent' = sent + 1
    /\ \E m \in wire \cup {None} : net' = Append(net, <<sent + 1, m>>)
    /\ UNCHANGED <<rt, session, channel, wire, conn, loops, hands, once, messages, senders>>

ServerCloses ==
    /\ conn = "open"
    /\ conn' = "peer"
    /\ UNCHANGED <<rt, session, channel, wire, net, sent, loops, hands, once, messages, senders>>

(* readLoop: conn.Read returns a frame ... *)
ReadFrame ==
    /\ pc["reader"] = "loop" /\ net # <<>> /\ conn # "closed"
    /\ frame' = Head(net) /\ net' = Tail(net)
    /\ Goto("reader", "got")
    /\ UNCHANGED <<rt, session, channel, wire, sent, conn, msg, wok, once, messages, senders>>

ReadPublish ==
    /\ pc["reader"] = "got"
    /\ PublishReceive(Received(frame))
    /\ Goto("reader", "loop")
    /\ UNCHANGED <<out, end, endErr, done, ended, outcome, state, ctx, channel, network, hands,
                   once, messages, senders>>

(* ... or a CloseError, after the frames before it or once the connection   *)
(* has been closed ...                                                      *)
ReadClose ==
    /\ pc["reader"] = "loop" /\ (conn = "closed" \/ (conn = "peer" /\ net = <<>>))
    /\ PublishTerminal(ServerClosed)
    /\ UNCHANGED <<ended, outcome, state, ctx, channel, network, hands, once, messages, senders>>

(* ... or another error: the context was cancelled, or the connection is    *)
(* closed or broken.                                                        *)
ReadFails ==
    /\ pc["reader"] = "loop" /\ (ctx \/ conn = "closed")
    /\ CloseTerminalNow("reader", <<>>, "err", "shut")
    /\ UNCHANGED <<ended, outcome, state, ctx, channel, network, hands, once, messages, senders>>

ConnectionBreaks ==
    /\ conn # "closed"
    /\ conn' = "closed"
    /\ UNCHANGED <<rt, session, channel, wire, net, sent, loops, hands, once, messages, senders>>

(* idleWatch. *)
IdleStops ==
    /\ pc["idle"] = "loop" /\ ctx
    /\ Goto("idle", "exit")
    /\ UNCHANGED <<rt, session, channel, network, hands, once, messages, senders>>

IdleExpires ==
    /\ pc["idle"] = "loop"
    /\ CloseTerminalNow("idle", <<IdleEnded>>, "nil", "exit")
    /\ UNCHANGED <<ended, outcome, state, ctx, channel, network, hands, once, messages, senders>>

-----------------------------------------------------------------------------
(* writeLoop: select on the context and the channel. *)
WriterStops ==
    /\ pc["writer"] = "loop" /\ (ctx \/ (chClosed /\ ch = <<>>))
    /\ Goto("writer", "shut")
    /\ UNCHANGED <<rt, session, channel, network, hands, once, messages, senders>>

(* performWrite; a close message marks the session closing first. *)
WriterTakes ==
    /\ pc["writer"] = "loop" /\ ch # <<>>
    /\ msg' = Head(ch) /\ ch' = Tail(ch)
    /\ state' = IF kind[Head(ch)] = "close" THEN "closing" ELSE state
    /\ Goto("writer", "begin")
    /\ UNCHANGED <<rt, log, ended, outcome, ctx, chClosed, network, frame, wok, once, messages, senders>>

(* beginOutbound refuses once the runtime is done. *)
BeginOutbound ==
    /\ pc["writer"] = "begin"
    /\ wok' = FALSE
    /\ \/ done /\ Goto("writer", "result") /\ UNCHANGED out
       \/ ~done /\ out' = TRUE /\ Goto("writer", "write")
    /\ UNCHANGED <<q, end, endErr, done, session, channel, network, frame, msg, once, messages, senders>>

(* The write on the connection.  The frame is on the wire some time before  *)
(* the call returns; a failed call may have written it, too.                *)
WriteFrame ==
    /\ pc["writer"] = "write" /\ conn # "closed"
    /\ wire' = wire \cup {msg}
    /\ conn' = IF kind[msg] = "close" THEN "closed" ELSE conn
    /\ wok' \in BOOLEAN
    /\ Goto("writer", "finish")
    /\ UNCHANGED <<rt, session, channel, net, sent, frame, msg, once, messages, senders>>

WriteFails ==
    /\ pc["writer"] = "write" /\ (conn = "closed" \/ ctx \/ msg \in expired)
    /\ conn' = "closed"
    /\ Goto("writer", "finish")
    /\ UNCHANGED <<rt, session, channel, wire, net, sent, hands, once, messages, senders>>

(* writeAndPublish after the write; a close that went well then ends the    *)
(* session with closeTerminalNow.                                           *)
WriteFinish ==
    /\ pc["writer"] = "finish"
    /\ FinishOutbound(IF wok THEN <<Sent(msg)>> ELSE <<>>,
                      IF wok /\ kind[msg] = "close" THEN "terminal" ELSE "result")
    /\ UNCHANGED <<ended, outcome, state, ctx, channel, network, hands, once, messages, senders>>

WriteTerminal ==
    /\ pc["writer"] = "terminal"
    /\ CloseTerminalNow("writer", <<>>, "nil", "result")
    /\ UNCHANGED <<ended, outcome, state, ctx, channel, network, hands, once, messages, senders>>

(* Mutant: the sender of a failed write is told it went out. *)
WriteResultOk ==
    /\ pc["writer"] = "result"
    /\ res' = [res EXCEPT ![msg] = "nil"]
    /\ IF wok THEN Goto("writer", IF kind[msg] = "close" THEN "shut" ELSE "loop")
       ELSE CallClose("writer", "err", "shut")
    /\ UNCHANGED <<rt, session, channel, network, hands, once, kind, expired, nmsg, senders>>

(* The result goes to the sender; a failure also closes the session. *)
WriteResult ==
    /\ pc["writer"] = "result"
    /\ res' = [res EXCEPT ![msg] = IF wok THEN "nil" ELSE "err"]
    /\ IF wok THEN Goto("writer", IF kind[msg] = "close" THEN "shut" ELSE "loop")
       ELSE CallClose("writer", "err", "shut")
    /\ UNCHANGED <<rt, session, channel, network, hands, once, kind, expired, nmsg, senders>>

-----------------------------------------------------------------------------
(* shutdown, run once by the first of readLoop and writeLoop to return; the *)
(* other one waits for it.                                                  *)
ShutdownBegin(g) ==
    /\ pc[g] = "shut"
    /\ \/ once = "idle" /\ once' = g /\ chClosed' = TRUE /\ Goto(g, "uncontext")
       \/ once = "done" /\ Goto(g, "exit") /\ UNCHANGED <<once, chClosed>>
    /\ UNCHANGED <<rt, session, ch, network, hands, messages, senders>>

ShutdownCancel(g) ==
    /\ pc[g] = "uncontext"
    /\ ctx' = TRUE
    /\ Goto(g, "disconnect")
    /\ UNCHANGED <<rt, log, ended, outcome, state, channel, network, hands, once, messages, senders>>

(* conn.Close: any error but a closed connection closes the session. *)
ShutdownConn(g) ==
    /\ pc[g] = "disconnect"
    /\ conn' = "closed"
    /\ Goto(g, "leave") \/ CallClose(g, "err", "leave")
    /\ UNCHANGED <<rt, session, channel, wire, net, sent, hands, once, messages, senders>>

ShutdownEnd(g) ==
    /\ pc[g] = "leave"
    /\ once' = "done"
    /\ Goto(g, "exit")
    /\ UNCHANGED <<rt, session, channel, network, hands, messages, senders>>

-----------------------------------------------------------------------------
AutoClose(s) == spc[s] \in {"autoSend", "autoAwait"}

(* WebSocketSender.enqueue.  Where a call returns to: a console goes on; a  *)
(* script whose step failed cancels the session and gives up, and one that  *)
(* has sent its own (or the automatic) close waits for the session.         *)
Return(s, m, r) ==
    /\ smsg' = [smsg EXCEPT ![s] = None]
    /\ IF s # Script THEN spc' = [spc EXCEPT ![s] = "idle"] /\ UNCHANGED <<ctx, scripted>>
       ELSE IF AutoClose(s)
       THEN spc' = [spc EXCEPT ![s] = "done"] /\ UNCHANGED <<ctx, scripted>>
       ELSE IF r = "nil"
       THEN /\ spc' = [spc EXCEPT ![s] = "idle"]
            /\ scripted' = (scripted \/ kind[m] = "close") /\ UNCHANGED ctx
       ELSE spc' = [spc EXCEPT ![s] = "failed"] /\ ctx' = TRUE /\ UNCHANGED scripted

(* A send or close step (of a script: after ensureSessionAlive). *)
Enqueue(s, k) ==
    /\ spc[s] = "idle" /\ nmsg < MaxMsgs /\ ~ctx
    /\ nmsg' = nmsg + 1
    /\ kind' = [kind EXCEPT ![nmsg + 1] = k]
    /\ smsg' = [smsg EXCEPT ![s] = nmsg + 1]
    /\ spc' = [spc EXCEPT ![s] = "send"]
    /\ UNCHANGED <<rt, session, channel, network, loops, hands, once, res, expired, scripted>>

(* A step fails before anything is enqueued: an unreadable file, a payload  *)
(* that is not valid.                                                       *)
ScriptStepFails ==
    /\ spc[Script] = "idle"
    /\ spc' = [spc EXCEPT ![Script] = "failed"]
    /\ ctx' = TRUE
    /\ UNCHANGED <<rt, log, ended, outcome, state, channel, network, loops, hands, once, messages,
                   smsg, scripted>>

(* ensureSessionAlive fails: the script returns without cancelling. *)
ScriptFindsDead ==
    /\ spc[Script] = "idle" /\ ctx
    /\ spc' = [spc EXCEPT ![Script] = "failed"]
    /\ UNCHANGED <<rt, session, channel, network, loops, hands, once, messages, smsg, scripted>>

(* The steps are done: close automatically unless a step closed. *)
ScriptCloses ==
    /\ spc[Script] = "idle"
    /\ \/ /\ ~scripted /\ ~ctx /\ nmsg < MaxMsgs
          /\ nmsg' = nmsg + 1
          /\ kind' = [kind EXCEPT ![nmsg + 1] = "close"]
          /\ smsg' = [smsg EXCEPT ![Script] = nmsg + 1]
          /\ spc' = [spc EXCEPT ![Script] = "autoSend"]
       \/ /\ scripted \/ ctx
          /\ spc' = [spc EXCEPT ![Script] = "done"]
          /\ UNCHANGED <<nmsg, kind, smsg>>
    /\ UNCHANGED <<rt, session, channel, network, loops, hands, once, res, expired, scripted>>

(* The message enters the channel. *)
EnqueueSends(s) ==
    /\ spc[s] \in {"send", "autoSend"} /\ ~chClosed /\ Len(ch) < QueueCap
    /\ ch' = Append(ch, smsg[s])
    /\ spc' = [spc EXCEPT ![s] = IF AutoClose(s) THEN "autoAwait" ELSE "await"]
    /\ UNCHANGED <<rt, session, chClosed, network, loops, hands, once, messages, smsg, scripted>>

(* A send on the closed channel panics and is recovered; a context that is  *)
(* done ends the select, where a close counts as done if it was its own.    *)
EnqueueRefused(s) ==
    /\ spc[s] \in {"send", "autoSend"} /\ (chClosed \/ ctx)
    /\ \/ Return(s, smsg[s], "err")
       \/ ctx /\ kind[smsg[s]] = "close" /\ Return(s, smsg[s], "nil")
    /\ UNCHANGED <<rt, log, ended, outcome, state, channel, network, loops, hands, once, messages>>

EnqueueResult(s) ==
    /\ spc[s] \in {"await", "autoAwait"} /\ res[smsg[s]] # "none"
    /\ Return(s, smsg[s], res[smsg[s]])
    /\ UNCHANGED <<rt, log, ended, outcome, state, channel, network, loops, hands, once, messages>>

(* A context ends while the result is awaited: a close counts as done. *)
EnqueueAbandons(s) ==
    /\ spc[s] \in {"await", "autoAwait"} /\ ctx /\ res[smsg[s]] = "none"
    /\ Return(s, smsg[s], IF kind[smsg[s]] = "close" THEN "nil" ELSE "err")
    /\ UNCHANGED <<rt, log, ended, outcome, state, channel, network, loops, hands, once, messages>>

(* The console gives each message a timeout; the message may be in the      *)
(* channel, or being written, when it expires.                              *)
EnqueueExpires(s) ==
    /\ s # Script /\ spc[s] \in {"send", "await"} /\ res[smsg[s]] = "none"
    /\ expired' = expired \cup {smsg[s]}
    /\ Return(s, smsg[s], "err")
    /\ UNCHANGED <<rt, log, ended, outcome, state, channel, network, loops, hands, once, kind, res,
                   nmsg>>

(* CompleteWebSocket returns when the session is done; if the request's own *)
(* context ends first it cancels the session.                               *)
ScriptDone ==
    /\ spc[Script] = "done" /\ ended
    /\ spc' = [spc EXCEPT ![Script] = "returned"]
    /\ UNCHANGED <<rt, session, channel, network, loops, hands, once, messages, smsg, scripted>>

(* Session.Cancel by the user, or the parent context. *)
UserCancels ==
    /\ ~ctx
    /\ ctx' = TRUE
    /\ UNCHANGED <<rt, log, ended, outcome, state, channel, network, loops, hands, once, messages,
                   senders>>

-----------------------------------------------------------------------------
SessionClose(g) == CancelContext(g) \/ DecideEnd(g)
Shutdown(g) == ShutdownBegin(g) \/ ShutdownCancel(g) \/ ShutdownConn(g) \/ ShutdownEnd(g)
Reader ==
    \/ ReadFrame \/ ReadPublish \/ ReadClose \/ ReadFails
    \/ Shutdown("reader") \/ SessionClose("reader")
Writer ==
    \/ WriterStops \/ WriterTakes \/ BeginOutbound \/ WriteFails
    \/ WriteFinish \/ WriteTerminal \/ WriteResult
    \/ Shutdown("writer") \/ SessionClose("writer")
IdleWatch == IdleStops \/ SessionClose("idle")
Sender(s) ==
    \/ EnqueueSends(s) \/ EnqueueRefused(s) \/ EnqueueResult(s) \/ EnqueueAbandons(s)
    \/ s = Script /\ (ScriptFindsDead \/ ScriptDone)
SenderMay(s) == (\E k \in Kinds : Enqueue(s, k)) \/ (s = Script /\ ScriptCloses)
(* What comes from outside: an end of the connection, a cancel, a timer, a  *)
(* step that cannot be carried out.                                         *)
Fault ==
    \/ ServerCloses \/ ConnectionBreaks \/ UserCancels \/ IdleExpires
    \/ ScriptStepFails \/ \E s \in Senders : EnqueueExpires(s)

Next ==
    \/ faults < MaxFaults /\ faults' = faults + 1 /\ Fault
    \/ ServerSends /\ UNCHANGED faults
    \/ (Reader \/ Writer \/ WriteFrame \/ IdleWatch) /\ UNCHANGED faults
    \/ (\E s \in Senders : Sender(s) \/ SenderMay(s)) /\ UNCHANGED faults

(* Every goroutine runs while it can.  A write is obliged to return only    *)
(* once the context is cancelled or the connection closed (WriteFails); the *)
(* peer, the timers and the user owe nothing.                               *)
Fairness ==
    /\ WF_vars(Reader /\ UNCHANGED faults) /\ WF_vars(Writer /\ UNCHANGED faults)
    /\ WF_vars(IdleWatch /\ UNCHANGED faults)
    /\ \A s \in Senders : WF_vars(Sender(s) /\ UNCHANGED faults)

Spec == Init /\ [][Next]_vars
FairSpec == Spec /\ Fairness

-----------------------------------------------------------------------------
Frames == (1..MaxRecv) \X (Msgs \cup {None})
Events == {Sent(m) : m \in Msgs} \cup {Received(f) : f \in Frames} \cup {ServerClosed, IdleEnded}

(* The type invariant. *)
TypeOK ==
    /\ out \in BOOLEAN /\ end \in BOOLEAN /\ done \in BOOLEAN
    /\ q \in Seq(Events) /\ log \in Seq(Events)
    /\ endErr \in Errors /\ outcome \in Errors
    /\ ended \in BOOLEAN /\ ctx \in BOOLEAN
    /\ state \in {"open", "closing", "closed", "failed"}
    /\ ch \in Seq(Msgs) /\ Len(ch) <= QueueCap /\ chClosed \in BOOLEAN
    /\ wire \subseteq Msgs /\ net \in Seq(Frames) /\ sent \in 0..MaxRecv
    /\ conn \in {"open", "peer", "closed"}
    /\ pc \in [Loops -> {"loop", "got", "begin", "write", "finish", "terminal", "result", "shut",
                         "uncontext", "disconnect", "leave", "cancel", "decide", "exit"}]
    /\ earg \in [Loops -> Errors]
    /\ after \in [Loops -> {"shut", "exit", "result", "terminal", "leave"}]
    /\ frame \in Frames \cup {<<None, None>>} /\ msg \in Msgs \cup {None} /\ wok \in BOOLEAN
    /\ once \in {"idle", "reader", "writer", "done"}
    /\ kind \in [Msgs -> {"data", "close"}] /\ res \in [Msgs -> {"none"} \cup Errors]
    /\ expired \subseteq Msgs /\ nmsg \in 0..MaxMsgs
    /\ spc \in [Senders -> {"idle", "send", "await", "autoSend", "autoAwait", "done", "failed",
                            "returned"}]
    /\ smsg \in [Senders -> Msgs \cup {None}]
    /\ scripted \in BOOLEAN /\ faults \in 0..MaxFaults

(* "Data frames received while an outbound frame is in flight are replayed  *)
(* after the send event is recorded": an answer to a message never stands   *)
(* before the message in the transcript.                                    *)
AnswerAfterSend ==
    \A i, j \in DOMAIN log :
        log[i][1] = "recv" /\ log[j] = Sent(log[i][3]) => j < i

(* What readLoop has handed over: the transcript and what is to be replayed. *)
Handed == log \o q
Frame(e) == e[1] = "recv"
Shown == {Handed[i] : i \in {j \in DOMAIN Handed : Frame(Handed[j])}}

(* Every frame readLoop has handed over is in the transcript or about to be *)
(* replayed, once and in the order the server sent it, without a gap; while *)
(* the runtime is not done none is missing.                                 *)
FramesInOrder ==
    LET read == sent - Len(net) - (IF pc["reader"] = "got" THEN 1 ELSE 0)
    IN  /\ \A i, j \in DOMAIN Handed :
              i < j /\ Frame(Handed[i]) /\ Frame(Handed[j]) => Handed[i][2] < Handed[j][2]
        /\ \E k \in 0..read : {e[2] : e \in Shown} = 1..k /\ (~done => k = read)

(* No frame that was handed over is ever lost again: the end of the stream, *)
(* whoever records it, replays the frames held back by a write first.       *)
FramesKept == [][Shown \subseteq Shown']_vars

(* A sender that was told its message went out finds it in the transcript,  *)
(* unless the stream ended during the write.                                *)
OkIsRecorded ==
    \A m \in Msgs : res[m] = "nil" /\ ~done => \E i \in DOMAIN log : log[i] = Sent(m)

(* Nothing is added to the transcript after the runtime is done: the end    *)
(* that was recorded is the last thing in it.                               *)
DoneFreezesTranscript == [][done => log' = log]_vars

(* Whoever cancels the session's context - the user, an error, the idle     *)
(* timer, a close from either side - the session ends, all three loops      *)
(* return, and no call of enqueue or CompleteWebSocket is left waiting.     *)
Quiet ==
    /\ ended
    /\ \A g \in Loops : pc[g] = "exit"
    /\ \A s \in Senders : spc[s] \in {"idle", "failed", "returned"}
CancelEndsAll == ctx ~> Quiet
=============================================================================
