# TLA+ models of resterm

resterm is a terminal client for HTTP, gRPC, WebSocket and SSE written in Go. A user
keeps requests in `.http` files, sends them from a terminal UI or from a headless
runner, and combines them into workflows, comparisons and profiles. This directory
models the parts of it in which several goroutines share state or in which an order
of events decides the result, checks the models with TLC on small instances and
proves the most important invariants with TLAPS for every size.

* [Inventory](#inventory)
* [Modules](#modules)
* [Runs](#runs)
* [Bounds](#bounds) and [fairness](#fairness)
* [Proofs](#proofs)
* [Disagreements with the code](#disagreements-with-the-code)
* [Not modelled](#not-modelled) and [plan](#plan)

`PROJECT.json` has the machine-readable side: every component of the repository with
its sources, the runs, for each property a mutated definition that breaks it, the
source lines behind each definition, the hazards of the code and the theorems.

## Inventory

| Component | State | Operations | What is hard | What makes it correct |
|---|---|---|---|---|
| stream session (`internal/stream`) | ring of recent events, registered listeners with bounded channels, state, error, counters, `done` | Subscribe, Publish, listener Cancel, MarkOpen/MarkClosing, Close, snapshots | any number of publishers, readers and closers; sends outside the session's lock; full channels under three policies | no send on a closed channel, every event delivered once or accounted for as refused or evicted, order per publisher, one outcome, readers end |
| live streams of the UI, stream manager (`internal/ui`, `internal/stream`) | message channel, registry of transcripts, handle of the reader, sessions by id | attach, batches of events, response, change of workspace, watch | stream and response arrive on two paths; the reader blocks on a full channel; the workspace changes under a stream | the transcript on screen is the session's, nothing is let go too early, everything is released |
| tunnel pool (`internal/tunnel`) | entries by key, inflight tokens, closed flag | Dial (cached, wait, claim, open, evict), purge, Close | opens and closes outside the lock, waiters, dying sessions, Close during an open | one open per key, nothing leaks, waiters wake, Close closes all |
| websocket runtime (`internal/protocol/httpx`) | write in flight, frames held back, terminal flags, send channel, transcript | read, write and idle loops, enqueue, script steps, shutdown | three loops end one session; frames arrive during a write; channel closed under its senders | an answer follows its message, nothing lost or added after the end, everybody gets out |
| SSE stream (`internal/protocol/httpx`) | event under construction, counters, reason | read loop, idle watch, CompleteSSE | the idle watch writes the reason without a lock; the last line, the end, a limit and a cancel together | limits, true summary, a reason that holds, no event lost at eof |
| UI runs (`internal/ui`, `internal/engine/core`) | a slot per kind of run, one cancel function, one sending flag, a bounded message channel | start, send over an active run, cancel, handlers of run events | workers and the update loop are asynchronous; messages of a replaced run are still queued | one report per run, own items only, complete, a cancelled run ends |
| workflow run (`internal/engine/core`, headless, UI) | plan, step index, iteration, flags, reports | steps, `@when`, `@if`/`@switch`, `@for-each`, policies, cancel | three parts of the program derive a verdict from the same events; a cancel between any two | nothing after a failure that stops, reports in order, verdicts agree |
| OAuth token manager (`internal/oauth`) | tokens by key and by an older key, the call in flight | Token, refresh, fetch, ClearIf | cache and call table are read in separate critical sections; tokens expire and secrets are reset meanwhile | one fetch at a time, only the newest refresh token presented, every waiter gets the leader's result |
| auth command manager (`internal/authcmd`) | the same, with seeded configurations | Prepare, Resolve, Snapshot, Restore | the same | the same |
| file watcher (`internal/watcher`, `internal/ui`) | fingerprint of the open file, event channels, buffer, warnings | Track, Scan, save, reload, confirm | scans work on a copy while a save is tracked; events are late or dropped | unsaved edits are never discarded unasked, a change is noticed |
| mock server (`internal/mock`, `internal/ui`) | routes, the Reloader's memory, tick, reload in flight, pending request | start, stop, restart, reload | sources change while a reload runs; results are handled late | there is always a next look, the routes follow the sources |
| history store (`internal/history/sqlite`) | database file, write-ahead log, quarantined copies, import marker | open with recovery, append, delete, import, close | several processes; kills between renames; a failed import | no acknowledged entry lost, no deleted one back |
| gRPC client, HTTP client, SSH and k8s sessions | connections | I/O | external protocols | they feed the session and the pool |
| request engine, runtime stores | globals, files, cookies | prepare, execute, capture, assert | sequential | results are inputs of the workflow |
| parser, writer, RTS, scripts, variables, importers, update, CLI, rendering | data | transformations | none of the above | tests reach them |

How they interact: the UI starts a run as a goroutine which executes requests through
the request engine and reports by messages to the single-threaded update loop. A
request may open a websocket or SSE stream, whose loops publish into a stream session
that UI panes and scripts subscribe to. Connections through SSH or a Kubernetes
port-forward are dialled through the tunnel pool. The headless runner consumes the
same events as the UI. Requests that need a token ask the one token manager; finished
requests are appended to the history, a database all processes of a user share.

## Modules

Every module keeps the names of the source where TLA+ allows it. A step is what the
code does without giving another goroutine the chance to see the middle of it: one
critical section, one channel operation, one external call.

| Module | Models | Actions and the code |
|---|---|---|
| `StreamSession` | `stream/session.go`, `ringbuffer.go`, `event.go` | `Subscribe`, `PublishAppend` / `Emit…` / `PublishFinish` (Publish under `s.mu`, the sends under each listener's lock, the counter afterwards), `CancelRemove` / `CancelClose`, `CloseDetach` / `CloseListener` / `CloseDone`, `MarkOpen`, `MarkClosing`, `Recv` |
| `StreamContract` | what `StreamSession` promises | abstract: `Accept`, `End`, `Release`, `Join`, `Show` |
| `LiveStreams` | `ui/model_stream.go`, `stream_state.go`, `model_engine.go`, `workspace.go`, `stream/manager.go` | extends `StreamSession`: `Stream(A)` is a step of the session, `Program(A)` one of the program; engine, reader goroutine, handlers of the update loop, `CommitMove` |
| `TunnelPool` | `tunnel/pool.go` | `Dial` and its stages (`TryCached`, `CloseStale`, dialling, waiting, claiming, opening, storing, releasing), `SessionDies`, `Close` and its steps |
| `WsRuntime` | `httpx/stream_ws_runtime.go`, `stream_ws_sender.go`, `stream_ws_steps.go` | the three loops, `PublishReceive`, `PublishTerminal`, `CloseTerminalNow`, `FinishOutbound`, `Enqueue…`, `Shutdown…`, the script of CompleteWebSocket |
| `SseStream` | `httpx/stream_sse.go`, `stream_sse_parser.go`, `stream_idle.go` | `ReadLine`, `ReadFails`, `HandleLine`, `CheckEnd`, `PublishSummary`, `Close` (the loop of runSSESession in its order), `Idle…`, the reason CompleteSSE reports |
| `UiRuns` | `ui/model_*run*.go`, `model_exec.go`, `model_profile.go`, `model_update.go`, `engine/core` loops | the worker's events, `SendActiveRequest`, `Start`, `CancelActiveRuns`, `Handle…` of the update loop |
| `WorkflowRun` | `engine/core/wf.go`, `engine/headless/wf.go`, `wf_result.go`, the UI's evaluation of steps | one action per event or engine call of RunPlan, and the three evaluations of a result |
| `TokenCache` | `oauth/manager.go` | one action per critical section and per exchange with the server: `Look`, `Lock`, `LookAgain`, `Entry`, `RefreshOk`, `FetchOk`, `Store`, `Publish`, `Release`, …, `ClearIf`, `Expire` |
| `FileWatch` | `watcher/watcher.go`, `ui/model_filewatch.go`, `model_files.go` | `ScanStep` (copy, stat, read, write back, send), `Pump`, `HandleFileChange`, save and reload with `Track`, the user's keys, other programs |
| `MockReload` | `mock/reload.go`, `source.go`, `digest.go`, `ui/model_mock.go`, `model_mock_reload.go` | start, stop and restart, `Tick`, the goroutine of a reload, its handler, the reload command |
| `HistoryStore` | `history/sqlite/store.go`, `mig.go`, `schema.go`, `ops.go`, the start in `cmd/resterm/main.go` | `OpenDB`, `CheckOk` / `CheckCorrupt`, `NextQuarantinePath`, `MoveMain`, `MoveWal`, `MigrateJSON`, `Append`, `Delete`, `Checkpoint`, `Close`, and the faults `Crash`, `Corrupt`, `OpenFails`, `MoveFails`, `MigrateFails` |

`StreamSession` implements `StreamContract` under the mapping `Contract` at its end: a
reader's view is its snapshot followed by what it received, the outcome is the error once
the session has ended. `LiveStreams` composes the session with the program around it: its
reader is the session's subscriber, and the policy is `DropNewest`, what every producer gets
with its empty `stream.Config{}`. `taken` is a history variable: how much of what the reader
received has been handed to the update loop. It assumes nothing of the producers: a session need
never end, a cancelled one neither, because a blocked SSE read does not see the session's own
context (a websocket does end, `CancelEndsAll` of `WsRuntime`). A response is bound to its
stream (`HandleResponse`) or consumed without (`HandleUnbound`: profile iterations, cancelled
workflows and compare runs), and `CommitMove` may come at any moment of the request, because
`hasActiveRun` is false after the cancel key or another answer while the request still runs.

`TokenCache` resets the secrets (`ClearIf`) at any moment for the same reason, and a refresh
that fails may have been redeemed with its answer lost, cut off by a timeout or unreadable:
`RefreshFails` has both outcomes. Four history variables say what happened: `lost` (the newest
refresh token was redeemed and nobody noticed), `stale` (tokens from before the last reset and
those bought with them), `raced` (callers the reset found inside Token) and `overtaken` (one of
them led a call). In `SseStream` the history variable `raced` says that the reader used the
reason while the idle watch was writing it.

In `WorkflowRun` a result (`Results`) has a response, an error or is skipped. One with a stream
and no response, which the engine and the UI would take for a success and the headless
collector for a failure (`engine/core/wf.go:802`, `headless/wf_result.go:210`), is left out:
`ExecuteWith` never returns one.

`MC…` modules only give constants; `…Proofs` modules hold theorems, of two modules each in
`StreamSessionProofs`, `StoreProofs` and `FileProofs`. Definitions marked
`Mutant` state a plausible bug of the definition that follows them; no specification
uses them.

What is abstracted: contents of events, messages and requests are numbers or kinds;
time is nondeterminism (a timer that is armed may expire whenever its owner looks, so
that resetting it has no effect); a network connection is open, ended or broken. The
websocket and SSE modules see the session as a transcript and an end that only the
first Close decides, which is what `StreamContract` says and `OutcomeIsFinal` proves.
The summary's reason in `SseStream` is a string written by two goroutines without a
lock: between the two words of such a write it is neither value, `"torn"`.

## Runs

| Run | Checks | Shows |
|---|---|---|
| `session_policies` | `NoOrphan`, `AccountedOnce`, `NoSendOnClosed`, `ImplementsContract` | A reader sees every event once, in its snapshot or its channel, or it is accounted for: refused by the full channel or evicted from it for a newer one; no channel is left open or sent on after it is closed; the session implements its contract, the ring that wraps included. |
| `live_streams` | `TranscriptFaithful`, `StreamTracked`, `StreamsSettle` | A stream from the engine to the screen, with the response before, during or after it, bound or dropped: the transcript on screen is the session's, a registry entry is dropped only when a response holds it, what belongs to a session that ended is released, and after a change of workspace, at any moment of the request, the program has cancelled and forgotten the session. |
| `pool` | `SingleOpen`, `ReservedCloseExcludesOpen`, `NoLeak`, `WaitersWake`, `CloseReleasesAll` | Two Dials, sessions that die, expire or refuse, and a Close at any moment: one open at a time, no session forgotten, no waiter left. |
| `ws_transcript` | `AnswerAfterSend`, `FramesInOrder`, `FramesKept`, `DoneFreezesTranscript` | However reads, writes and ends interleave the transcript is complete, in order and frozen after the end. |
| `ws_ends` | `OkIsRecorded`, `CancelEndsAll` | A script and a console share a channel of one place: a message reported as sent is recorded, and after any end the session ends, the loops return and no sender is left, also one blocked on the full channel. |
| `sse` | `SummaryIsRight`, `ReasonIsTrue`, `RequestEndsSession` | The summary is true, so is the reason unless the idle watch was writing it when the reader used it, eof means that every event was delivered, and a request that ends takes its stream along. |
| `ui_runs` | `ReportedOnce`, `ReportsOwnItems`, `ReportIsComplete`, `CanceledRunEnds` | Two runs of any kinds, replaced or cancelled at any moment: reports are single, own and complete; a cancelled worker gets out of a full channel. |
| `workflow` | `StopsAtFailure`, `StepsInOrder`, `SuccessIsComplete`, `ReportsAgree` | Every pair of steps, every answer, a cancel between any two events: nothing runs after a step that ends the run, reports have no gap, and engine, headless report and UI agree. |
| `tokens` | `OneFetch`, `RefreshNewest`, `ServedIsReal`, `TokenReturns` | Three requests, tokens that expire, refreshes and fetches that fail, answers that are lost, secrets reset at any moment: one request at a time asks the server and only in need, a refresh token is presented only while no newer token was received, a token from before a reset reaches only calls the reset ran into (or anybody after it overtook a leader), every call returns. |
| `file_watch` | `EditsKept`, `ChangeNoticed` | Other programs write and remove the open file while it is edited, saved and reloaded: unsaved edits go only when they are saved or the user confirms under the warning, and the last change is loaded or reported, also when events are dropped. |
| `mock_reload` | `KeepsReloading`, `ServesDigest`, `FollowsSources` | Sources change, break and are mended under reloads, restarts and commands: exactly one tick or reload is on the way, the Reloader knows what is served, and the routes or an error follow the sources, unless a handler is discarded for a pending request. |
| `history` | `EntriesKept`, `DeletedStaysAway` | Two processes share a database that goes bad while they and their recoveries are killed or fail half-way: no acknowledged entry is lost and no deleted one comes back through the import, with the exceptions `EntriesKept` names. |

`CHECK_DEADLOCK FALSE` is set where the system may stop: a session, a stream, a run, a
token call and a bounded user are finished at some point, and `HistoryStore` stops when it
has used up its databases. `pool`, `file_watch` and `mock_reload` check deadlock: an idle
pool can always be dialled or closed again, and a ticker always ticks.

### Bounds

* `StreamSession`: a ring of two places and three events, so that it wraps; listener
  channels of one place, so that they fill; two publishers and two closers, the fewest
  that race; one reader, because readers share nothing but the session's lock.
* `LiveStreams`: one publisher and two events, a message channel of two places and a
  transcript of one, so that the channel fills and the transcript is trimmed; one change of
  workspace. Readers and publishers among themselves are `session_policies`' business.
* `TunnelPool`: two dialers, the fewest that compete for a slot; three sessions, so that a
  session can be replaced and its successor die; one key, because keys share only the
  closed flag. The proofs cover any number of each.
* `WsRuntime`: two messages and two frames, the fewest that can be in the wrong order.
  `MaxFaults` bounds what goes wrong outside (a broken connection, a close by the peer, a
  cancel, a timer, a failed step) to one; it races the ends the program brings about
  itself, a close step of the script and a failed write, so that two ends of one stream
  still meet. In `ws_ends` `Kinds` lets the senders enqueue data only (the script's
  automatic close remains), and the channel has one place, so that the second sender
  finds it full.
* `SseStream`: three lines, of which two can be in the body unread: one event that is
  completed and one that the end completes, or a field that is set, cleared and followed
  by another. Limits of one event and two bytes are met with lines to spare.
* `UiRuns`: two runs, of which one replaces the other; two items, so that a run has a
  middle; a channel of one place, so that workers block.
* `WorkflowRun`: plans of two steps, all kinds of them in the first place, and two items:
  a step that ends the run has one before and one after it. The proofs cover any plan.
* `TokenCache`: three callers (a leader, a waiter and one that comes when the call is
  done), two tokens, so that one can expire, be refreshed or replaced, and the next expire
  too. The proofs cover any number of both.
* `FileWatch`: two contents and two writes or removals, by Resterm or by others, two
  channels of one place, two scans at a time: an event can be queued, late, dropped or
  overtaken.
* `MockReload`: two contents that compile and one that does not, four edits or writes, two
  commands: a source breaks, is mended and changes again while a reload runs.
* `HistoryStore`: two processes, one entry and one imported entry; two faults, the fewest
  with which a database goes bad and its recovery is cut, or its successor goes bad too;
  three databases. Processes are interchangeable (symmetry; the run has no liveness).

### Fairness

Weak fairness of a goroutine's steps says that the Go scheduler runs what can run, and of
calls in progress that open, dial and Close return. Strong fairness is assumed for
taking a listener's lock in `StreamSession` and `LiveStreams`, where goroutines compete for
a `sync.Mutex`, which does not starve a waiter, and in `FileWatch` for handling a file
event, because the update loop takes its messages in order and the user's keys cannot
keep one out for ever. Nobody is obliged to start a call, to cancel or to close.
A server may be silent for ever: a read of a body or of a connection, a write, and a
request that is executing are only obliged to return once their own context is done or
the connection closed. That is why `RequestEndsSession` holds and `IdleEndsSession` does
not, and why `LiveStreams` obliges no session to end: `StreamsSettle` speaks of what the
program does once one has ended, and of cancelling and forgetting it after a change of
workspace. `TokenReturns` assumes that the authorization server answers (the HTTP client has a
timeout), `FollowsSources` and `ChangeNoticed` that ticks fire; their users and the other
programs need do nothing. A reader that has drained a closed channel cancels its listener, as the deferred
calls of both readers in the program do.

## Proofs

All theorems hold for every value of the constants that satisfies the named assumptions
(`SessionAssumption` and its like: positive capacities, nonempty sets); `HistoryOneProcess`
assumes besides that there is at most one process.

* `StreamSessionProofs`: `TypeCorrect`, `ListenersAreClosed` (`NoOrphan`),
  `ResendAlwaysFits`, `ClosedStaysSilent`, `OutcomeIsFinal`. The invariant adds to the
  types who is about to close which listener: a listener that is open and not registered
  has a closer or a canceller on its way, and a goroutine in the middle of a resend holds
  the lock and has made room. On it rest `EveryEventAccounted` (`AccountedOnce`) and
  `SessionRefinesContract` (`ImplementsContract`). The first needs that what a reader
  received and what waits for it are in the order of the log (`OrderInv`) and that no event
  is in two of the places (`AccountInv`). The second needs that the ring is the tail of the
  log (`RingIsTail`), which makes a snapshot the part of the log before the place where the
  reader joined, and that an ended session never gets another outcome (`EndedInv`); then
  each step of the session is a step of `StreamContract` or a stutter.
* `StreamSessionProofs`, second part, about `LiveStreams`: `LiveRunsSession`,
  `LiveTypeCorrect`, `LiveTranscriptFaithful` (`TranscriptFaithful`), `LiveStreamTracked`
  (`StreamTracked`). The program drives a session only through its operations
  (`LiveRunsSession`), so the session's invariants may be used. `LiveInv` adds four things.
  The messages in the channel cut what the reader received into adjacent pieces, from what
  the update loop was handed (`taken`) to what the reader has sent (`Chain`): that is stated
  with a function of the places of the cuts, so that sending and taking a message need no
  induction. Which messages may be in the channel follows from where the reader is, and the
  completion is the last (`StageInv`). A state that was read is final, because the reader
  reads it only after its channel was closed, which without `DropListener` only an end of
  the session does (`OutcomeInv`, `ClosedInv`). And for each order of attachment, response
  and completion, bound or dropped, it says who holds the transcript (`RouteInv`). That the transcript is cut
  at every batch is no loss by `LastNConcat`: the last n of the last n and what follows are
  the last n of all.
* `TunnelPoolProofs`: `PoolInvariant` and from it `TypeCorrect`, `OpensAreSingle`,
  `StoreIsSafe`, `ClosesExcludeOpens`, `SlotsAreOwned`, `NothingLeaks`. None of these is
  inductive alone. The invariant ties together tokens and owners (`ClaimOwnsSlot`,
  `ClaimUnique`, `HeldOwnsSlot`, `SlotOwned`), sessions and their holders (`EntryKnown`,
  `CurKnown`, `StaleKnown`, `StoredOnce`, `Numbered`) and the closed pool (`ClosedEmpty`,
  `CloserIdle`, `LostClosed`): an open is single because its dialer owns the slot, which
  holds because a slot is only released by the owner whose token is in it.
* `WorkflowRunProofs`: `OutcomesAgree` (three functions of the program classify every
  result alike), `WorkflowInvariant` and from it `TypeCorrect`, `FailureStops`,
  `ReportsInOrder`, `SuccessMeansComplete`, `VerdictsAgree`. The invariant locates the
  reports so far relative to the place in the plan (`Place`, `Progress`), says that only the
  last report may be one that ends the run (`OnlyLastEnds`) and that the flags of the
  engine, the collector and the UI are functions of the reports (`FlagsAgree`, `Verdict`).
* `UiRunsProofs`: `RunTypeCorrect`, `RunReportedOnce`, `RunReportsOwnItems`,
  `RunReportIsComplete`. `RunInv` says where a run is: in its kind's slot or not (`SlotInv`),
  what its worker has done (`WorkerInv`), that the events of a run in the channel continue
  exactly what its report has (`ChanInv`), that the requests under way and the answers to
  them belong to the run that holds the slot (`HolderInv`), and that a run is finalized only
  when it leaves its slot (`FinalInv`). The last is why it is reported once, although three
  handlers may find it finished.
* `WsRuntimeProofs`: `WsTypeCorrect`, `WsAnswerAfterSend`, `WsOkIsRecorded`,
  `WsFramesInOrder`, `WsFramesKept`, `WsDoneFreezesTranscript`. The invariant follows a
  message (`MsgInv`: it is with its sender, in the channel, in writeLoop's hand or written,
  and written once) and a frame (`NetInv`: the frames on the way are numbered and answer
  what was written; `RtInv`: frames are held back only while a write is in flight). What
  makes an answer follow its message is `AnswerInv`: as long as a message is being written
  no answer to it is in the transcript, because every frame that arrives is held back. Each
  action is reduced to its effect on the transcript once, and all three properties of the
  transcript follow from that effect.
* `SseStreamProofs`: `StreamInvariant` and from it `TypeCorrect`, `LimitsAlwaysHold`,
  `ReasonsAreTrue`. The invariant counts lines (sent, unread, read) and events (published,
  under construction, possible), and says that a reason holds from the moment it is
  written and `eof` from the moment the loop is left; both stay true because nothing is
  read any more. `ReasonsAreTrue` (`ReasonIsTrue`) adds where the string may be torn: only
  between the two words of the watch's write, or after the reader has used it there
  (`WholeInv`). `SummaryAlwaysRight` (`SummaryIsRight`) compares the count with what the
  server sent: the body is the unread rest of the lines (`BodyIsRest`), the builder has what
  the lines since the last blank one left in it (`Tracks`), and each block that was closed
  has been counted (`Counted`).
* `StoreProofs`, about `TokenCache`: `TokenInvariant` and from it `TypeCorrect`, `FetchIsSingle`
  (`OneFetch`), `RefreshIsNewest` (`RefreshNewest`), `ServedTokensAreReal` (`ServedIsReal`). That the server is
  asked only in need is not inductive: the leader looked at the cache steps ago. It stays
  true because only the leader stores (`LeaderKnown`), and every other step removes,
  expires or moves an entry without changing which one the next look finds
  (`AsksInNeed`). That only the newest refresh token is presented (`RefreshesLast`) needs that
  the entry a look finds is that of the newest token, until the leader stores its successor
  (`LastKept`). What is served is traced from the cache and the server through the hands of
  callers (`InHand`) and the calls others wait for (`CallsReal`); a token from before a reset
  stays with those the reset ran into, unless one of them leads and stores it (`Carried`,
  `MayHave`).
* `StoreProofs`, second part, about `HistoryStore`: `HistoryTypeCorrect`,
  `HistoryEntriesKept` (`EntriesKept`), `HistoryDeletedStaysAway` (`DeletedStaysAway`),
  `HistoryCopiesKeptAlone`, `HistoryOneProcess`. `HistoryInv` keeps the types and who has a
  file open unconditionally; the rest (`AloneInv`) as long as no two processes have met in a
  recovery, which is never forgotten (`OverlapStays`). A file has one name and its WAL at
  most the one that goes with it (`NameInv`); one process recovers, and what it moves is what
  it found (`RecoverInv`). The heart is `WholeInv`: a database that somebody has open is
  *whole* where it is, its WAL beside it or about to follow, so what is appended can be read
  again wherever the file has gone; and a database found without its WAL has all it was
  given in its file, so a reopening loses nothing. Each step then either leaves what can be
  read (`NamesKept`), writes to one whole database (`DataStep`), or is one of the renames,
  for which `BetweenRenames` says what is where. For the import, an imported or deleted
  entry implies the marker (`ImportInv`). `HistoryCopiesKeptAlone` is the comment on
  `nextQuarantinePath` in the case in which it is right; with one process
  (`HistoryOneProcess`) it always is.
* `FileProofs`, about `MockReload`: `ReloadInvariant` and from it `TypeCorrect`, `LoopNeverStops`
  (`KeepsReloading`), `ServerMatchesReloader` (`ServesDigest`). While a reload runs the
  Reloader is ahead of the server; the invariant (`ServesOrOnItsWay`) says that the handler
  is then on its way to the update loop or was discarded.
* `FileProofs`, second part, about `FileWatch`: `WatchTypeCorrect`, `WatchEditsKept`
  (`EditsKept`), `NoChangeForgotten`. The first two need that a confirmation is pending only
  under the warning and that a write gets a new time (`WatchInv`). `NoChangeForgotten` is the
  safety part of `ChangeNoticed`: when the watcher knows the file as it is and nothing is
  queued, the UI holds its content or says that it does not. Not inductive, because a scan
  works on a copy, and a save or reload puts its entry over what a scan has found: the
  invariant says of the entry and of every copy a scan has that if it is the file as it is,
  the UI holds the content or an event is still on the way, where a warning that the end of
  a save is about to take away does not count (`Noticed`, `SeenInv`). It holds with events
  that `emit` drops, because one is dropped only when another is queued, and handling that
  one loads what is then on the disk or warns.

Only model-checked: the liveness properties (`WaitersWake`, `CloseReleasesAll`,
`StreamsSettle`, `CancelEndsAll`, `CanceledRunEnds`, `RequestEndsSession`, `TokenReturns`,
`ChangeNoticed`, `FollowsSources`), because the prover has neither fairness nor ENABLED.
Every safety property of a run is a theorem.

## Disagreements with the code

What the models show the code not to do although a comment, a document or a test says so, or
(the refresh token) a reader of the code would take it for granted.
Each has a configuration that reproduces it (`tlc -config X.cfg M`, a violation is the
expected answer); the passing runs exclude exactly these cases.

* **A cancelled workflow is not finalized** (`UiCancelWorkflow.cfg`, `MCUiRuns`,
  `CanceledWorkflowFinalizes`). The cancel key marks the run canceled and waits for the
  engine to end it (`ui/model_exec.go:137`), but the engine sends the events that would end
  it under the cancelled context, so they are not sent (`engine/core/wf.go:522`);
  `handleRunWorkerDone` ignores the error of a canceled run, the UI keeps the run in its slot
  and refuses the next one. The test feeds the three events by hand and says "expected
  workflow to finalize after canceled response" (`ui/model_orchestration_test.go:869`).
  A profile cancelled before its first iteration's event stays in its slot too
  (`ui/model_profile.go:219`).
* **The cancel key loses the latest request** (`UiCancelKey.cfg`, `MCUiRuns`,
  `LatestCanBeCanceled`). The late answer of a replaced request clears the one cancel
  function the UI has (`ui/model_update.go:87`, against `docs/resterm.md:275`).
* **A pool key is not always reserved during a close** (`PoolOpenWhileClosing.cfg`,
  `MCTunnelPool`, `NoOpenWhileClosing`). The comment on `Pool` (`tunnel/pool.go:32`) says that
  while a session is being closed its key's slot stays reserved. Between storing an entry
  (`pool.go:256`) and releasing the token (`pool.go:258`) the slot belongs to the opener; a
  session that dies there is removed without a reservation, and the next Dial opens while
  the old session is closing.
* **An SSE idle timeout does not close a silent stream** (`SseIdle.cfg`, `MCSseStream`,
  `IdleEndsSession`). It cancels the session's context, which the blocked read of the body
  does not see (`httpx/stream_sse.go:239`, against `docs/resterm.md:1459`); the request's
  timeout ends it later, as a read error. `Session.Cancel`, which `stopLiveStreams` and a stale
  attachment call, has the same effect: the update loop lets go of an SSE session at once, its
  goroutine stays until the request's context ends.
* **The reason of an SSE stream can be torn** (`SseTorn.cfg`, `MCSseStream`, `ReasonIsWhole`).
  The idle watch writes `summary.Reason` from its goroutine (`httpx/stream_sse.go:238`) while
  the reader compares, replaces or publishes it (lines 245, 276, 288, 303, 314) without a
  lock. A string is two words, so the reader may see the pointer of one reason with the
  length of the other; what it then stores or publishes is none of the reasons
  `docs/resterm.md:1463` promises templates and scripts.
* **A refresh token can be presented twice** (`TokensLost.cfg`, `MCTokenCache`, `RefreshOnce`).
  When the server has redeemed it and the answer is lost, times out or does not parse,
  `obtainToken` falls through to the grant (`oauth/manager.go:269-282`); if that fails too, the
  entry stays as it was and the next request presents the same refresh token, which a server
  that rotates them may answer by revoking the grant.
* **A reset of the secrets can be undone** (`TokensReset.cfg`, `MCTokenCache`, `ResetIsFinal`).
  `moveBlocked` refuses a move "because that request can still write runtime values back and
  undo the reset" (`ui/workspace.go:207`), but asks `hasActiveRun`, and `m.sending` is cleared by
  the cancel key (`ui/model_exec.go:92`) and by any answer (`ui/model_update.go:78`) while a
  request is still executing: its Token call then stores and returns a token that it asked for
  before `ResetSharedSecrets`.
* **A registry entry can stay behind** (`LiveUnbound.cfg`, `MCLiveStreams`, `EntryIsAdopted`).
  "A stream that ends before its response arrives stays in the registry until that response
  adopts it" (`ui/stream_state.go:16`), but the responses of profile iterations
  (`ui/model_profile.go:225`) and of cancelled workflows (`ui/model_workflow_run.go:346`) and
  compare runs (`ui/model_compare_run.go:269`) are consumed without `bindSnapshotStream`; the
  transcript stays in `liveSessions` until the workspace changes.
* **Routes can stay behind their sources** (`MockDiscard.cfg`, `MCMockReload`,
  `AlwaysFollows`). A reload's handler is discarded when a request is pending
  (`ui/model_mock_reload.go:81`), but the Reloader has already recorded its sources, so the
  pending reload of the same sources finds nothing changed (`mock/reload.go:29`, against
  `docs/resterm.md:1206`).
* **A saved file can be reported as removed** (`FileWatchMissing.cfg`, `MCFileWatch`,
  `MissingIsTrue`). A scan finds the file missing, Resterm saves it, then the event is
  handled; no later scan corrects it.
* **Two processes that recover at once lose a copy** (`HistoryCopies.cfg`, `MCHistoryStore`,
  `CopiesKept`). Both choose the same free name in one second; the second rename replaces
  the copy of the first by its fresh database ("numbered suffixes keep each quarantined copy
  instead of overwriting one", `history/sqlite/store.go:535`). Without such a meeting no
  copy is ever lost (`HistoryCopiesKeptAlone`).

Smaller observations: a process killed between the two renames of a recovery loses the
entries that only the write-ahead log held (`store.go:519-524`); after a failed import and
an append the JSON history is never imported (`mig.go:62-64`), and a missing JSON file sets
no marker although the comment says that completion is always marked (`mig.go:23`); a
recovered database imports the JSON history again, with what was deleted from the old one.

## Not modelled

Protocol I/O (HTTP, gRPC, SSH, Kubernetes, OpenTelemetry, self-update) is external or a thin
layer over libraries; models see its outcomes, and SQLite's through `HistoryStore`. Parsers,
writers, importers, the RTS interpreter, variables, captures, themes, the editor and
rendering, which are most of the program's lines, are sequential transformations of data
that a model would only repeat. Of the modelled components these parts are left out: the
websocket handshake, file payloads and payload limits; the SSE handshake and its fallbacks
to a plain response; JSON transcripts; the wording of reports and summaries; statistics of
profiles and diffs of comparisons; rendering, filters and the console of live streams; the
contents of token requests and the browser hop; Forget and opening another file; matching,
sequences, the journal and the scripts of the mock server; queries, archives and schema
upgrades of the history. `PROJECT.json` gives the reason for each component.

## Plan

Modules were written in the order of the table above: first the session every stream goes
through and what it promises, then the pool, then what drives them, then the managers the
requests share and what survives a process. What is left, in order:

1. The auth command manager, on the pattern of `TokenCache`, with its seeded configurations.
2. Sequence cursors and the journal's eviction of the mock server.
3. Asynchronous response rendering and reflow, as an extension of `UiRuns`.
