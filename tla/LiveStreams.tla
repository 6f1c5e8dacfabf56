----------------------------- MODULE LiveStreams -----------------------------
(***************************************************************************)
(* A stream on its way through the program: the request engine opens a     *)
(* session and hands it to the update loop, the update loop registers and  *)
(* subscribes, a reader goroutine batches what it receives into messages,  *)
(* and the update loop keeps its own transcript, tied to the response that *)
(* the engine delivers on another path (internal/ui/model_stream.go,       *)
(* stream_state.go, model_engine.go, workspace.go).                        *)
(*                                                                         *)
(* One session and one response pane.  The session is StreamSession with   *)
(* the reader goroutine as its only subscriber and the policy that every   *)
(* producer gets with an empty Config.  streamMsgChan and the response are *)
(* two separate deliveries, so a response may overtake the attachment.  Of *)
(* the session manager the program uses Register and the watch goroutine   *)
(* it starts (internal/stream/manager.go); its Cancel, Snapshot and        *)
(* AddCompletionHook have no caller.                                       *)
(***************************************************************************)
EXTENDS StreamSession

CONSTANTS Reader,     \* the goroutine runStreamSession
          StreamChan, \* capacity of streamMsgChan
          MaxLive,    \* m.streamMaxEvents
          MaxMoves    \* bound on the changes of workspace

ASSUME LiveAssumption ==
    /\ Reader \in Subscribers /\ "DropNewest" \in Policies
    /\ StreamChan \in Nat \ {0} /\ MaxLive \in Nat \ {0}
    /\ MaxMoves \in Nat

VARIABLES
    interactive, \* a websocket without steps: the run ends before its stream
    eng,         \* where the request engine is
    msgs,        \* streamMsgChan
    rd, flushed, \* where runStreamSession is, and how much of got it has sent
    rdState,     \* the state and error it read from the session
    canceled,    \* session.Cancel was called
    gen,         \* m.streamGen; the run was started in generation 0
    live,        \* the liveSession
    taken,       \* history: how much of got the update loop has been handed
    tracked,     \* m.liveSessions has it
    handle,      \* m.sessionHandles has the session
    pane,        \* the pane's own streamID is the session
    shown,       \* the pane's response: none, one that names the stream, one
                 \* that holds it
    watch,       \* the manager's entry: none, managed until Done, gone
    attached     \* history: the update loop took the session over, and
                 \* whether the response was still to come

ui == <<interactive, eng, msgs, rd, flushed, rdState, canceled, gen, live, taken,
        tracked, handle, pane, shown, watch, attached>>
allvars == <<vars, ui>>

NoLive == [events |-> <<>>, state |-> "Connecting", err |-> NoErr,
           bound |-> FALSE, done |-> FALSE]

LiveInit ==
    /\ Init /\ policy = "DropNewest"
    /\ interactive \in BOOLEAN
    /\ eng = "open" /\ msgs = <<>>
    /\ rd = "off" /\ flushed = 0 /\ rdState = [state |-> "Connecting", err |-> NoErr]
    /\ canceled = FALSE /\ gen = 0
    /\ live = NoLive /\ taken = 0 /\ tracked = FALSE /\ handle = FALSE
    /\ pane = FALSE /\ shown = "none" /\ watch = "none" /\ attached = "no"

Room == Len(msgs) < StreamChan

-----------------------------------------------------------------------------
(* liveSession (stream_state.go). *)

(* append keeps the last MaxLive events. *)
LiveAppend(ls, es) == [ls EXCEPT !.events = LastN(@ \o es, MaxLive)]

Failed(ls) == ls.err # NoErr \/ ls.state = "Failed"

(* paneStream: the session a pane is showing, through the registry or        *)
(* through its response.                                                     *)
PaneStream ==
    IF pane THEN (IF tracked THEN "live" ELSE "nil")
    ELSE CASE shown = "none" -> "none"
           [] shown = "named" -> IF tracked THEN "live" ELSE "nil"
           [] shown = "holds" -> "live"

(* Mutant: a finished session is dropped whether or not a response holds it. *)
ReleaseUnbound(ls) == ls.done

(* releaseLiveStream *)
ReleaseLiveStream(ls) == ls.bound /\ ls.done
-----------------------------------------------------------------------------
(* The engine's goroutine: attach sends the session to the update loop ... *)
EngineAttach ==
    /\ eng = "open" /\ Room
    /\ msgs' = Append(msgs, [type |-> "attach"])
    /\ eng' = "run"
    /\ UNCHANGED <<interactive, rd, flushed, rdState, canceled, gen, live, taken, tracked, handle,
                   pane, shown, watch, attached>>

(* ... and the run returns its response once the stream has ended, or at     *)
(* once for an interactive websocket.                                        *)
EngineRespond ==
    /\ eng = "run" /\ (interactive \/ done)
    /\ eng' = "answered"
    /\ UNCHANGED <<interactive, msgs, rd, flushed, rdState, canceled, gen, live, taken, tracked,
                   handle, pane, shown, watch, attached>>

-----------------------------------------------------------------------------
(* runStreamSession: the batch is what was received and not yet sent.  A     *)
(* send on streamMsgChan blocks while it is full.                            *)
Batch == SubSeq(got[Reader], flushed + 1, Len(got[Reader]))

Flush ==
    IF Batch = <<>>
    THEN UNCHANGED <<msgs, flushed>>
    ELSE /\ Room
         /\ msgs' = Append(msgs, [type |-> "events", events |-> Batch])
         /\ flushed' = Len(got[Reader])

ReaderRecv == rd = "run" /\ Recv(Reader) /\ UNCHANGED ui

(* The timer of the batch window fires. *)
ReaderTimer ==
    /\ rd = "run" /\ Batch # <<>>
    /\ Flush
    /\ UNCHANGED <<interactive, eng, rd, rdState, canceled, gen, live, taken, tracked, handle, pane,
                   shown, watch, attached>>

(* Mutant: the last batch is forgotten when the channel closes. *)
ReaderClosedNoFlush ==
    /\ rd = "run" /\ closed[Reader] /\ ch[Reader] = <<>>
    /\ rd' = "state"
    /\ UNCHANGED <<interactive, eng, msgs, flushed, rdState, canceled, gen, live, taken, tracked,
                   handle, pane, shown, watch, attached>>

(* The channel is closed: the last batch goes first ... *)
ReaderClosed ==
    /\ rd = "run" /\ closed[Reader] /\ ch[Reader] = <<>>
    /\ Flush
    /\ rd' = "state"
    /\ UNCHANGED <<interactive, eng, rdState, canceled, gen, live, taken, tracked, handle, pane,
                   shown, watch, attached>>

(* ... then the session's state, read before the send may block, ... *)
ReaderReadState ==
    /\ rd = "state"
    /\ rd' = "sendstate"
    /\ rdState' = [state |-> state, err |-> err]
    /\ UNCHANGED <<interactive, eng, msgs, flushed, canceled, gen, live, taken, tracked, handle,
                   pane, shown, watch, attached>>

ReaderSendState ==
    /\ rd = "sendstate" /\ Room
    /\ msgs' = Append(msgs, [type |-> "state", at |-> rdState])
    /\ rd' = "complete"
    /\ UNCHANGED <<interactive, eng, flushed, rdState, canceled, gen, live, taken, tracked, handle,
                   pane, shown, watch, attached>>

(* ... and the completion; the deferred Cancel of the listener follows. *)
ReaderComplete ==
    /\ rd = "complete" /\ Room
    /\ msgs' = Append(msgs, [type |-> "complete"])
    /\ rd' = "cancel"
    /\ UNCHANGED <<interactive, eng, flushed, rdState, canceled, gen, live, taken, tracked, handle,
                   pane, shown, watch, attached>>

ReaderCancel ==
    /\ rd = "cancel"
    /\ CancelRemove(Reader) \/ CancelClose(Reader)
    /\ UNCHANGED ui

(* Manager.watch: the entry goes when Done is closed. *)
WatchDone ==
    /\ watch = "managed" /\ done
    /\ watch' = "gone"
    /\ UNCHANGED <<interactive, eng, msgs, rd, flushed, rdState, canceled, gen, live, taken,
                   tracked, handle, pane, shown, attached>>

-----------------------------------------------------------------------------
(* The update loop. *)
Message(type) == msgs # <<>> /\ Head(msgs).type = type

(* Mutant: a session of an earlier workspace is dropped and keeps running. *)
HandleStaleAttachKeep ==
    /\ Message("attach") /\ gen # 0
    /\ msgs' = Tail(msgs)
    /\ UNCHANGED <<vars, interactive, eng, rd, flushed, rdState, canceled, gen, live, taken,
                   tracked, handle, pane, shown, watch, attached>>

(* handleStreamAttach of a session that belongs to an earlier workspace. *)
HandleStaleAttach ==
    /\ Message("attach") /\ gen # 0
    /\ msgs' = Tail(msgs)
    /\ canceled' = TRUE
    /\ UNCHANGED <<vars, interactive, eng, rd, flushed, rdState, gen, live, taken, tracked,
                   handle, pane, shown, watch, attached>>

(* handleStreamAttach: register, subscribe, seed the transcript with the     *)
(* snapshot, give the pane the stream and link a response that came first.   *)
HandleAttach ==
    /\ Message("attach") /\ gen = 0
    /\ msgs' = Tail(msgs)
    /\ watch' = "managed"
    /\ Subscribe(Reader)
    /\ live' = [LiveAppend(NoLive, snap'[Reader]) EXCEPT
                  !.state = state, !.err = err, !.bound = (shown = "named")]
    /\ tracked' = TRUE /\ handle' = TRUE /\ pane' = TRUE
    /\ shown' = IF shown = "named" THEN "holds" ELSE shown
    /\ rd' = "run"
    /\ attached' = IF shown = "none" THEN "first" ELSE "late"
    /\ UNCHANGED <<interactive, eng, flushed, rdState, taken, canceled, gen>>

HandleEvents ==
    /\ Message("events")
    /\ msgs' = Tail(msgs)
    /\ live' = IF tracked
               THEN [LiveAppend(live, Head(msgs).events) EXCEPT
                        !.state = IF @ = "Connecting" THEN "Open" ELSE @]
               ELSE live
    /\ taken' = taken + Len(Head(msgs).events)
    /\ UNCHANGED <<vars, interactive, eng, rd, flushed, rdState, canceled, gen, tracked,
                   handle, pane, shown, watch, attached>>

HandleState ==
    /\ Message("state")
    /\ msgs' = Tail(msgs)
    /\ live' = IF tracked
               THEN [live EXCEPT !.state = Head(msgs).at.state, !.err = Head(msgs).at.err]
               ELSE live
    /\ UNCHANGED <<vars, interactive, eng, rd, flushed, rdState, taken, canceled, gen, tracked,
                   handle, pane, shown, watch, attached>>

(* handleStreamComplete: the transcript is final; the registry lets go of it *)
(* if a response holds it already.                                           *)
HandleComplete ==
    /\ Message("complete")
    /\ msgs' = Tail(msgs)
    /\ IF tracked
       THEN /\ live' = [live EXCEPT !.done = TRUE,
                                    !.state = IF @ = "Failed" THEN @ ELSE "Closed"]
            /\ tracked' = ~ReleaseLiveStream(live')
            /\ handle' = FALSE
       ELSE UNCHANGED <<live, tracked, handle>>
    /\ UNCHANGED <<vars, interactive, eng, rd, flushed, rdState, taken, canceled, gen, pane,
                   shown, watch, attached>>

(* A response arrives: bindSnapshotStream ties it to the session if that is  *)
(* known, then setPaneSnapshot takes the stream over from the pane.          *)
HandleResponse ==
    /\ eng = "answered"
    /\ eng' = "end"
    /\ pane' = FALSE
    /\ IF tracked
       THEN /\ shown' = "holds"
            /\ live' = [live EXCEPT !.bound = TRUE]
            /\ tracked' = ~ReleaseLiveStream(live')
       ELSE /\ shown' = "named"
            /\ UNCHANGED <<live, tracked>>
    /\ UNCHANGED <<vars, interactive, msgs, rd, flushed, rdState, taken, canceled, gen, handle,
                   watch, attached>>

(* A response that is consumed without bindSnapshotStream: an iteration of a *)
(* profile run (consumeProfileResult), and what a cancelled workflow or      *)
(* compare run still delivers (handleWorkflowReqDone, consumeCompareRow).    *)
(* The pane may be given the run's summary at the same time.                 *)
HandleUnbound ==
    /\ eng = "answered"
    /\ eng' = "dropped"
    /\ pane' \in {pane, FALSE}
    /\ UNCHANGED <<vars, interactive, msgs, rd, flushed, rdState, live, taken, canceled, gen,
                   tracked, handle, shown, watch, attached>>

(* commitMove: stopLiveStreams cancels what the update loop knows of and     *)
(* forgets it, clearResponseState empties the panes.  moveBlocked refuses it *)
(* only while hasActiveRun, and m.sending is cleared by the cancel key and   *)
(* by any answer, so the request of this stream may be anywhere.             *)
CommitMove ==
    /\ gen < MaxMoves
    /\ gen' = gen + 1
    /\ canceled' = (canceled \/ handle)
    /\ handle' = FALSE /\ tracked' = FALSE /\ live' = NoLive
    /\ pane' = FALSE /\ shown' = "none"
    /\ UNCHANGED <<vars, interactive, eng, msgs, rd, flushed, rdState, taken, watch, attached>>

-----------------------------------------------------------------------------
Stream(A) == A /\ UNCHANGED ui
Program(A) == A /\ UNCHANGED vars

ReaderStep ==
    \/ ReaderRecv
    \/ Program(ReaderTimer) \/ Program(ReaderClosed) \/ Program(ReaderReadState)
    \/ Program(ReaderSendState) \/ Program(ReaderComplete)
    \/ ReaderCancel

EngineStep == Program(EngineAttach) \/ Program(EngineRespond)

UpdateStep ==
    \/ HandleStaleAttach \/ HandleAttach \/ HandleEvents \/ HandleState \/ HandleComplete

LiveNext ==
    \/ Stream(MarkOpen)
    \/ Stream(MarkClosing)
    \/ \E p \in Publishers : Stream(PublishStep(p))
    \/ \E c \in Closers : Stream(CloseStep(c))
    \/ Program(WatchDone)
    \/ EngineStep
    \/ ReaderStep
    \/ UpdateStep
    \/ HandleResponse \/ HandleUnbound
    \/ CommitMove

(* Every goroutine that has started a call finishes it (strong fairness      *)
(* where it may have to wait for a listener's lock), and the reader, the     *)
(* watch goroutine, the engine and the update loop keep going.  Nothing is   *)
(* assumed of the producer: no session need ever be closed, a cancelled one  *)
(* neither, because a producer that is blocked reading does not see the      *)
(* session's own context.                                                    *)
LiveFairness ==
    /\ \A p \in Publishers : SF_allvars(Stream(PublishAppend(p) \/ Emit(p, Reader)
                                                \/ PublishFinish(p)))
    /\ \A c \in Closers : SF_allvars(Stream(CloseListener(c, Reader) \/ CloseDone(c)))
    /\ SF_allvars(ReaderStep)
    /\ WF_allvars(Program(WatchDone))
    /\ WF_allvars(EngineStep)
    /\ WF_allvars(UpdateStep \/ HandleResponse \/ HandleUnbound)

LiveSpec == LiveInit /\ [][LiveNext]_allvars /\ LiveFairness
-----------------------------------------------------------------------------
(* The type invariant. *)
LiveTypeOK ==
    /\ eng \in {"open", "run", "answered", "end", "dropped"}
    /\ rd \in {"off", "run", "state", "sendstate", "complete", "cancel"}
    /\ Len(msgs) <= StreamChan
    /\ flushed \in 0..Len(got[Reader])
    /\ gen \in 0..MaxMoves
    /\ shown \in {"none", "named", "holds"}
    /\ {canceled, tracked, handle, pane, interactive} \subseteq BOOLEAN

(* The transcript on screen is the session's: it is what the reader was      *)
(* shown when it joined and received since, as far as the update loop has    *)
(* been handed it, and a completed stream has the last MaxLive of all of it  *)
(* and the session's outcome.  Nothing is lost or shown twice between the    *)
(* engine, the reader and the update loop.                                   *)
TranscriptFaithful ==
    tracked =>
        /\ live.events = LastN(snap[Reader] \o SubSeq(got[Reader], 1, taken), MaxLive)
        /\ live.done => /\ taken = Len(got[Reader])
                        /\ live.err = err /\ Failed(live) = (err # NoErr)

(* "An entry can only be dropped once a snapshot holds the session and no    *)
(* more events are coming": until then the registry has it, so a stream that *)
(* ends before its response arrives is still there for the response, and the *)
(* pane a stream was attached to finds its transcript at every moment        *)
(* (PaneStream is nil only if the response overtook the attachment, and a    *)
(* run that drops the response may show its summary there).                  *)
StreamTracked ==
    attached # "no" /\ gen = 0 =>
        /\ tracked \/ (shown = "holds" /\ live.done)
        /\ tracked => ~(live.bound /\ live.done)
        /\ attached = "first" /\ eng # "dropped" => PaneStream = "live"

(* Everything about a stream has come to rest: the session is over, its      *)
(* reader and the manager's entry are gone, the response was handled, and    *)
(* the update loop holds neither the handle nor, unless the response was     *)
(* dropped, a registry entry.                                                *)
Settled ==
    /\ done /\ sub[Reader] \in {"new", "gone"} /\ watch # "managed"
    /\ eng \in {"end", "dropped"} /\ msgs = <<>> /\ ~handle
    /\ tracked => eng = "dropped" /\ gen = 0

(* The program has let go of the session: it has ended or was cancelled, and *)
(* neither the console nor the registry can reach it.                        *)
LetGo == (canceled \/ ended) /\ ~handle /\ ~tracked

(* No stream lingers.  A session that ends is released with everything that  *)
(* belongs to it, and "a stream opened in one workspace cannot keep writing  *)
(* into the next": after a change of workspace each one is cancelled or over *)
(* and forgotten, also when its attachment is still on the way.              *)
StreamsSettle ==
    /\ ended ~> Settled
    /\ gen > 0 ~> LetGo

(* The promise of liveSession that "a stream that ends before its response   *)
(* arrives stays in the registry until that response adopts it", for every   *)
(* stream and response.  It does not hold: a dropped response adopts none.   *)
EntryIsAdopted == ended /\ eng \in {"end", "dropped"} ~> ~tracked
=============================================================================
