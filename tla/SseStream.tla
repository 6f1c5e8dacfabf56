------------------------------ MODULE SseStream ------------------------------
(***************************************************************************)
(* internal/protocol/httpx: one stream of server-sent events.  The reader   *)
(* (runSSESession) turns lines into events of a stream.Session, the idle    *)
(* watch (startIdleWatch) may end the stream, and CompleteSSE waits for the *)
(* end and reports it.                                                      *)
(*                                                                         *)
(* A line is what it does to the event under construction, and counts as    *)
(* one byte.  Time is abstracted: an armed idle timer may expire at any     *)
(* moment, so that resetting it has no effect here.  The session is its     *)
(* context, its state and the events published to it; how it delivers them  *)
(* to listeners is StreamSession.                                           *)
(***************************************************************************)
EXTENDS Naturals, Sequences, FiniteSets

CONSTANTS MaxLines,   \* bound on the lines the server sends
          Window,     \* bound on the lines sent and not yet read
          Options     \* restfile.SSEOptions; a limit of 0 is none

ASSUME SseAssumption ==
    /\ MaxLines \in Nat /\ Window \in Nat
    /\ Options \subseteq [events : Nat, bytes : Nat, idle : BOOLEAN]

(* data: a data or comment line, which is added to the event; scalar: one   *)
(* that sets its id, name or retry; clear: one that sets it to nothing;     *)
(* other: an unknown field, which is ignored; bad: a malformed retry; none: *)
(* what ReadString returns at the end.                                      *)
Lines == {"data", "scalar", "clear", "other", "blank", "bad"}
Reasons == {"eof", "idle", "max_bytes", "max_events", "canceled", "torn"}

VARIABLES
    opts,     \* the options of the request
    server,   \* the connection: open, eof, broken
    body,     \* the lines sent and not yet read
    sent,     \* all lines sent, to compare with
    req,      \* the request's context is done: its timeout, or the caller's cancel
    sctx,     \* session.Cancel was called
    pc, line, rerr, \* the reader, and what ReadString returned
    builder,  \* the parts the sseEventBuilder has: data, scalar
    bytes, count, \* byteCount and eventCount
    reason,   \* summary.Reason, which the idle watch writes, too
    idle,     \* the idle watch
    raced,    \* history: the reader used the reason amid the watch's write
    log,      \* the events published to the session
    state     \* the session's state

vars == <<opts, server, body, sent, req, sctx, pc, line, rerr, builder, bytes, count, reason,
          idle, raced, log, state>>
net == <<server, body, sent>>
reader == <<pc, line, rerr, builder, bytes, count>>

Init ==
    /\ opts \in Options
    /\ server = "open" /\ body = << >> /\ sent = << >>
    /\ req = FALSE /\ sctx = FALSE
    /\ pc = "read" /\ line = "none" /\ rerr = "none"
    /\ builder = {} /\ bytes = 0 /\ count = 0
    /\ reason = "eof"
    /\ idle = IF opts.idle THEN "armed" ELSE "off"
    /\ raced = FALSE
    /\ log = << >> /\ state = "open"

(* The session's context is derived from the request's. *)
CtxErr == sctx \/ req

-----------------------------------------------------------------------------
(* The server and the network. *)
ServerSends(l) ==
    /\ server = "open" /\ Len(sent) < MaxLines /\ Len(body) < Window
    /\ body' = Append(body, l) /\ sent' = Append(sent, l)
    /\ UNCHANGED <<opts, server, req, sctx, reader, reason, idle, raced, log, state>>

ServerEnds(how) ==
    /\ server = "open"
    /\ server' = how
    /\ UNCHANGED <<opts, body, sent, req, sctx, reader, reason, idle, raced, log, state>>

-----------------------------------------------------------------------------
(* StartSSE: the request's context ends with its timeout or its caller's.   *)
CancelRequest ==
    /\ ~req
    /\ req' = TRUE
    /\ UNCHANGED <<opts, net, sctx, reader, reason, idle, raced, log, state>>

(* handleStreamAttach cancels the session of a workspace that was left.     *)
CancelSession ==
    /\ ~sctx
    /\ sctx' = TRUE
    /\ UNCHANGED <<opts, net, req, reader, reason, idle, raced, log, state>>

-----------------------------------------------------------------------------
(* startIdleWatch.  onTimeout writes the two words of a string the reader   *)
(* uses without a lock: in between, and after a write of the reader's in    *)
(* between, it is neither the old nor the new one.                          *)
IdleStops ==
    /\ idle = "armed" /\ (CtxErr \/ pc = "done")
    /\ idle' = "off"
    /\ UNCHANGED <<opts, net, req, sctx, reader, reason, raced, log, state>>

IdleExpires ==
    /\ idle = "armed"
    /\ idle' = "writing" /\ reason' = "torn"
    /\ UNCHANGED <<opts, net, req, sctx, reader, raced, log, state>>

IdleWrites ==
    /\ idle = "writing"
    /\ idle' = "expired" /\ reason' = IF reason = "torn" THEN "idle" ELSE "torn"
    /\ UNCHANGED <<opts, net, req, sctx, reader, raced, log, state>>

IdleCancels ==
    /\ idle = "expired"
    /\ idle' = "fired" /\ sctx' = TRUE
    /\ UNCHANGED <<opts, net, req, reader, reason, raced, log, state>>

-----------------------------------------------------------------------------
(* session.Publish and session.Close. *)
Publish(e) == log' = Append(log, e)
Event == [kind |-> "event"]
CloseSession(failed) ==
    /\ state' = IF failed THEN "failed" ELSE "closed"
    /\ pc' = "done" /\ sctx' = TRUE

ByteCount(l) == IF l = "none" THEN 0 ELSE 1

(* ReadString returns a line; the last one may come without a newline and   *)
(* then with io.EOF.  It blocks while the server is silent, whatever        *)
(* becomes of the session's context.                                        *)
ReadLine ==
    /\ pc = "read"
    /\ \/ /\ body # << >>
          /\ line' = Head(body) /\ body' = Tail(body)
          /\ \/ rerr' = "none"
             \/ Len(body) = 1 /\ server = "eof" /\ rerr' = "eof"
       \/ /\ body = << >> /\ server = "eof"
          /\ line' = "none" /\ rerr' = "eof"
          /\ UNCHANGED body
    /\ bytes' = bytes + ByteCount(line')
    /\ pc' = "line"
    /\ UNCHANGED <<opts, server, sent, req, sctx, builder, count, reason, idle, raced, log, state>>

(* Mutant: the body is not bound to the request's context. *)
ReadFailsUnbound ==
    /\ pc = "read"
    /\ server = "broken" /\ body = << >>
    /\ CloseSession(TRUE)
    /\ UNCHANGED <<opts, net, req, line, rerr, builder, bytes, count, reason, idle, raced, log>>

(* The connection breaks, or the transport ends it with the request's       *)
(* context: the session fails, without a summary.                           *)
ReadFails ==
    /\ pc = "read"
    /\ req \/ (server = "broken" /\ body = << >>)
    /\ CloseSession(TRUE)
    /\ UNCHANGED <<opts, net, req, line, rerr, builder, bytes, count, reason, idle, raced, log>>

HasContent == builder # {}

(* builder.consume of a line that is not malformed. *)
Consume(l) == CASE l \in {"data", "scalar"} -> builder \cup {l}
                [] l = "clear" -> builder \ {"scalar"}
                [] OTHER -> builder

(* The reader reads or writes summary.Reason, which has no lock: the watch   *)
(* may be in the middle of its write.                                       *)
Uses == raced' = (raced \/ idle = "writing")

(* builder.finalize and publishSSEEvent. *)
Finalize ==
    IF HasContent THEN Publish(Event) /\ count' = count + 1 /\ builder' = {}
                  ELSE UNCHANGED <<log, count, builder>>

EventLimit == opts.events > 0 /\ count' >= opts.events

HandleLine ==
    /\ pc = "line"
    /\ \/ /\ line \in {"blank", "none"}
          /\ Finalize
          /\ IF HasContent /\ EventLimit
             THEN pc' = "end" /\ Uses /\ reason' = "max_events"
             ELSE pc' = "check" /\ UNCHANGED <<reason, raced>>
          /\ UNCHANGED <<sctx, state>>
       \/ /\ line \notin {"blank", "none", "bad"}
          /\ builder' = Consume(line)
          /\ pc' = "check"
          /\ UNCHANGED <<sctx, count, reason, raced, log, state>>
       \/ line = "bad" /\ CloseSession(TRUE) /\ UNCHANGED <<builder, count, reason, raced, log>>
    /\ UNCHANGED <<opts, net, req, line, rerr, bytes, idle>>

(* Mutant: the reason is not noted. *)
BecauseForgets(r) == Uses /\ UNCHANGED reason

(* A reason is only replaced if none was found before. *)
Because(r) == Uses /\ reason' = IF reason = "eof" THEN r ELSE reason

(* limitReached, which the head of the loop only repeats. *)
ByteLimit == opts.bytes > 0 /\ bytes >= opts.bytes

(* Mutant: the event the stream ends in the middle of is lost. *)
CheckEndDropsLast ==
    /\ pc = "check"
    /\ IF ByteLimit THEN pc' = "end" /\ Because("max_bytes")
       ELSE IF rerr = "eof" THEN pc' = "end" /\ UNCHANGED <<reason, raced>>
       ELSE IF CtxErr THEN pc' = "end" /\ Because("canceled")
       ELSE pc' = "read" /\ UNCHANGED <<reason, raced>>
    /\ UNCHANGED <<opts, net, req, sctx, line, rerr, bytes, builder, count, log, idle, state>>

(* What the loop looks at after each line, in this order. *)
CheckEnd ==
    /\ pc = "check"
    /\ IF ByteLimit
         THEN pc' = "end" /\ Because("max_bytes") /\ UNCHANGED <<builder, count, log>>
       ELSE IF rerr = "eof"
         THEN pc' = "end" /\ Finalize /\ UNCHANGED <<reason, raced>>
       ELSE /\ IF CtxErr THEN pc' = "end" /\ Because("canceled")
                         ELSE pc' = "read" /\ UNCHANGED <<reason, raced>>
            /\ UNCHANGED <<builder, count, log>>
    /\ UNCHANGED <<opts, net, req, sctx, line, rerr, bytes, idle, state>>

(* The summary is the last event. *)
PublishSummary ==
    /\ pc = "end"
    /\ Publish([kind |-> "summary", reason |-> reason, bytes |-> bytes, events |-> count])
    /\ Uses /\ pc' = "close"
    /\ UNCHANGED <<opts, net, req, sctx, line, rerr, builder, bytes, count, reason, idle, state>>

Close ==
    /\ pc = "close"
    /\ Uses /\ CloseSession(CtxErr /\ reason = "canceled")
    /\ UNCHANGED <<opts, net, req, line, rerr, builder, bytes, count, reason, idle, log>>

Reader == ReadLine \/ ReadFails \/ HandleLine \/ CheckEnd \/ PublishSummary \/ Close
IdleWatch == IdleStops \/ IdleExpires \/ IdleWrites \/ IdleCancels

Next ==
    \/ \E l \in Lines : ServerSends(l)
    \/ \E how \in {"eof", "broken"} : ServerEnds(how)
    \/ CancelRequest \/ CancelSession
    \/ IdleWatch
    \/ Reader

Spec == Init /\ [][Next]_vars

(* Goroutines that can run do; the server may be silent for ever, and the   *)
(* request's context may last.                                              *)
FairSpec == Spec /\ WF_vars(Reader) /\ WF_vars(IdleWrites \/ IdleCancels \/ IdleStops)

-----------------------------------------------------------------------------
(* CompleteSSE, once the session is over: the summary's reason, or the      *)
(* session's error.                                                         *)
Over == state # "open"
HasSummary == log # << >> /\ log[Len(log)].kind = "summary"
Summary == log[Len(log)]
Reason == IF HasSummary
          THEN IF Summary.reason = "eof" /\ state = "failed" THEN "error" ELSE Summary.reason
          ELSE "error"
EventCount == Cardinality({k \in DOMAIN log : log[k].kind = "event"})

-----------------------------------------------------------------------------
Entries == {Event} \cup [kind : {"summary"}, reason : Reasons, bytes : Nat, events : Nat]

(* The type invariant. *)
TypeOK ==
    /\ opts \in Options /\ server \in {"open", "eof", "broken"}
    /\ body \in Seq(Lines) /\ sent \in Seq(Lines)
    /\ req \in BOOLEAN /\ sctx \in BOOLEAN
    /\ pc \in {"read", "line", "check", "end", "close", "done"}
    /\ line \in Lines \cup {"none"} /\ rerr \in {"none", "eof"}
    /\ builder \subseteq {"data", "scalar"} /\ bytes \in 0..MaxLines /\ count \in 0..MaxLines
    /\ reason \in Reasons
    /\ idle \in {"armed", "writing", "expired", "fired", "off"} /\ raced \in BOOLEAN
    /\ log \in Seq(Entries)
    /\ state \in {"open", "closed", "failed"}

(* "Stop reading after N events have been delivered", and close once the    *)
(* byte limit is reached: no more events, and no read once a limit is met.  *)
LimitsHold ==
    /\ opts.events > 0 => count <= opts.events /\ (pc = "read" => count < opts.events)
    /\ opts.bytes > 0 => (pc = "read" => bytes < opts.bytes)

(* A reason that is reported whole is one that holds, whoever wrote it; and  *)
(* it is reported whole unless the reader used it in the middle of the idle  *)
(* watch's write.                                                            *)
ReasonIsTrue ==
    /\ Over /\ ~raced => Reason # "torn"
    /\ Over /\ Reason # "torn" =>
        /\ Reason = "eof" => server = "eof" /\ body = << >>
        /\ Reason = "idle" => idle \in {"expired", "fired"}
        /\ Reason = "max_bytes" => opts.bytes > 0 /\ bytes >= opts.bytes
        /\ Reason = "max_events" => opts.events > 0 /\ count >= opts.events
        /\ Reason = "canceled" => CtxErr

(* What the unlocked write does not give: the reason is always whole.        *)
ReasonIsWhole == Over => Reason # "torn"

(* The server sends an event with each block of lines, up to a blank line   *)
(* or the end, that adds data or sets a scalar it does not clear again.     *)
Contributes(j, k) ==
    /\ \A m \in j..(k - 1) : sent[m] # "blank"
    /\ \/ sent[j] = "data"
       \/ sent[j] = "scalar" /\ \A m \in j..(k - 1) : sent[m] # "clear"
SentEvents ==
    {k \in 1..(Len(sent) + 1) :
        /\ k <= Len(sent) => sent[k] = "blank"
        /\ \E j \in 1..(k - 1) : Contributes(j, k)}

(* The summary counts what was published, nothing follows it, and a stream  *)
(* that ended with eof has delivered every event the server sent.           *)
SummaryIsRight ==
    \A k \in DOMAIN log : log[k].kind = "summary" =>
        /\ k = Len(log)
        /\ log[k].events = EventCount /\ log[k].bytes = bytes
        /\ log[k].reason = "eof" => EventCount = Cardinality(SentEvents)

(* When the request's context ends, the session does.                       *)
RequestEndsSession == req ~> Over

(* docs/resterm.md on idle: "Maximum quiet period between events before the *)
(* session is closed".                                                      *)
IdleEndsSession == idle = "fired" ~> Over
=============================================================================
