----------------------------- MODULE MockReload -----------------------------
(***************************************************************************)
(* The mock server of the TUI and how its routes follow their sources:     *)
(* internal/mock/reload.go, internal/ui/model_mock.go and                  *)
(* model_mock_reload.go.                                                   *)
(*                                                                         *)
(* The sources are the editor's buffer, which stands in for the open file, *)
(* and another file on disk, which changes at any time.  A reload runs in  *)
(* a goroutine of its own; the UI starts it, on a tick or for a command,   *)
(* keeps one request pending while it runs, and handles its result.        *)
(*                                                                         *)
(* Generations only tell the newest tick from older ones, which are        *)
(* ignored: tick says whether the newest is outstanding.  A goroutine that *)
(* outlives its server writes into that server's own Reloader and its      *)
(* result is ignored: it is dropped with the server.                       *)
(***************************************************************************)
EXTENDS Integers

CONSTANTS Texts,      \* contents a source may have
          Bad,        \* a content that does not compile
          Nothing,    \* no content, no handler, no request
          MaxChanges, \* bound on edits and writes
          MaxCommands \* bound on commands that ask for a reload

ASSUME MockAssumption ==
    /\ Bad \in Texts
    /\ Nothing \notin Texts
    /\ {MaxChanges, MaxCommands} \subseteq Nat

VARIABLES
    editor,    \* the buffer, the overlay of the open file
    file,      \* the other source: its content and its version (size, time)
    changes,   \* edits and writes so far
    commands,  \* commands so far
    up,        \* m.mock.server is not nil
    closing,   \* a server is being closed: to stop or to restart
    starting,  \* the fingerprint startMockServer has computed
    tick,      \* a tick of the current generation is outstanding
    flight,    \* the reload in flight (inFlightGen # 0)
    pending,   \* m.mock.pending: the overlay of the waiting request
    reloader,  \* m.mock.reloader: fp, digest, failing
    served,    \* the digest of the handler the server has
    reloadErr, \* m.mock.reloadErr is not empty
    discarded  \* history: the newest handler was thrown away for a pending request

source == <<editor, file, changes, commands>>
server == <<up, closing, starting>>
loop == <<tick, flight, pending>>
vars == <<editor, file, changes, commands, up, closing, starting, tick, flight, pending,
          reloader, served, reloadErr, discarded>>

Digest(e, f) == <<e, f.data>>
Fp(e, f) == <<e, f.ver>>
Compiles(e, f) == e # Bad /\ f.data # Bad

NoFlight == [at |-> "none", overlay |-> Nothing, fp |-> Nothing, res |-> "none"]
NewReloader == [fp |-> Nothing, digest |-> Nothing, failing |-> FALSE]

Init ==
    /\ editor \in Texts
    /\ \E t \in Texts : file = [data |-> t, ver |-> 0]
    /\ changes = 0 /\ commands = 0
    /\ up = FALSE /\ closing = "none" /\ starting = Nothing
    /\ tick = FALSE /\ flight = NoFlight /\ pending = Nothing
    /\ reloader = NewReloader /\ served = Nothing
    /\ reloadErr = FALSE /\ discarded = FALSE

-----------------------------------------------------------------------------
(* The sources change. *)
EditText(t) ==
    /\ changes < MaxChanges /\ changes' = changes + 1
    /\ starting = Nothing
    /\ editor' = t
    /\ UNCHANGED <<file, commands, server, loop, reloader, served, reloadErr,
                   discarded>>

WriteFile(t) ==
    /\ changes < MaxChanges /\ changes' = changes + 1
    /\ file' = [data |-> t, ver |-> file.ver + 1]
    /\ UNCHANGED <<editor, commands, server, loop, reloader, served, reloadErr,
                   discarded>>

-----------------------------------------------------------------------------
(* Mutant: only the buffer is looked at. *)
UnchangedBuffer(e) == ~reloader.failing /\ reloader.fp # Nothing /\ e = reloader.fp[1]

(* Reloader.Reload: nothing to do when the fingerprint is the last one. *)
Unchanged(e) == ~reloader.failing /\ Fp(e, file) = reloader.fp

(* Mutant: the digest is remembered whether or not the sources compile. *)
LoadedAlways(e, fp) == [fp |-> fp, digest |-> Digest(e, file), failing |-> ~Compiles(e, file)]

(* What a Load after the fingerprint leaves in the reloader. *)
Loaded(e, fp) ==
    IF Compiles(e, file)
    THEN [fp |-> fp, digest |-> Digest(e, file), failing |-> FALSE]
    ELSE [reloader EXCEPT !.failing = TRUE]

(* And what it returns: a handler only if it differs from the last one, or   *)
(* if the last attempt failed.                                               *)
LoadResult(e) ==
    CASE ~Compiles(e, file) -> "err"
      [] Compiles(e, file) /\ ~reloader.failing /\ Digest(e, file) = reloader.digest -> "nil"
      [] OTHER -> "handler"

(* startMockServer reloads in the UI's goroutine; files change meanwhile. *)
StartFingerprint ==
    /\ ~up /\ starting = Nothing
    /\ starting' = Fp(editor, file)
    /\ UNCHANGED <<source, up, closing, loop, reloader, served, reloadErr, discarded>>

StartMockServer ==
    /\ starting # Nothing
    /\ starting' = Nothing
    /\ Compiles(editor, file)
    /\ up' = TRUE
    /\ reloader' = Loaded(editor, starting)
    /\ served' = Digest(editor, file)
    /\ tick' = TRUE
    /\ flight' = NoFlight /\ pending' = Nothing /\ reloadErr' = FALSE
    /\ discarded' = FALSE
    /\ UNCHANGED <<source, closing>>

(* The sources do not compile or have no routes, or the address is taken. *)
StartFails ==
    /\ starting # Nothing
    /\ starting' = Nothing
    /\ UNCHANGED <<source, up, closing, loop, reloader, served, reloadErr, discarded>>

DetachMockServer ==
    /\ up' = FALSE
    /\ tick' = FALSE /\ flight' = NoFlight /\ pending' = Nothing
    /\ reloader' = NewReloader /\ served' = Nothing
    /\ reloadErr' = FALSE /\ discarded' = FALSE

(* stopMockServer, mockRestartFromArgs: the server is closed elsewhere. *)
StopMockServer(why) ==
    /\ up /\ closing = "none"
    /\ DetachMockServer
    /\ closing' = why
    /\ UNCHANGED <<source, starting>>

(* handleMockServerClosed. *)
ServerClosed ==
    /\ closing # "none" /\ starting = Nothing
    /\ closing' = "none"
    /\ starting' = IF closing = "restart" /\ ~up THEN Fp(editor, file) ELSE Nothing
    /\ UNCHANGED <<source, up, loop, reloader, served, reloadErr, discarded>>

(* handleMockServerDone: it stopped by itself. *)
ServerDone ==
    /\ up
    /\ DetachMockServer
    /\ UNCHANGED <<source, closing, starting>>

-----------------------------------------------------------------------------
Flight(e) == [NoFlight EXCEPT !.at = "fp", !.overlay = e]

(* scheduleMockReload(0): the outstanding tick is of an older generation now. *)
ScheduleMockReload ==
    /\ up
    /\ tick' = FALSE
    /\ IF flight.at # "none"
       THEN pending' = editor /\ UNCHANGED flight
       ELSE flight' = Flight(editor) /\ UNCHANGED pending
    /\ UNCHANGED <<editor, file, changes, server, reloader, served, reloadErr,
                   discarded>>

MockReloadTick == tick /\ ScheduleMockReload /\ UNCHANGED commands

(* reloadWorkspace, reparseDocument, captureMockResponse. *)
ReloadCommand ==
    /\ commands < MaxCommands /\ commands' = commands + 1
    /\ starting = Nothing
    /\ ScheduleMockReload

(* The goroutine: fingerprint first, then parse and compile. *)
ReloadFingerprint ==
    /\ flight.at = "fp"
    /\ flight' = IF Unchanged(flight.overlay)
                 THEN [flight EXCEPT !.at = "done", !.res = "nil"]
                 ELSE [flight EXCEPT !.at = "load", !.fp = Fp(flight.overlay, file)]
    /\ UNCHANGED <<source, server, tick, pending, reloader, served, reloadErr, discarded>>

ReloadLoad ==
    /\ flight.at = "load"
    /\ reloader' = Loaded(flight.overlay, flight.fp)
    /\ flight' = [flight EXCEPT !.at = "done", !.res = LoadResult(flight.overlay)]
    /\ UNCHANGED <<source, server, tick, pending, served, reloadErr, discarded>>

(* Mutant: after an error nobody asks again. *)
HandleReloadStops ==
    /\ flight.at = "done" /\ pending = Nothing
    /\ flight' = NoFlight
    /\ tick' = (flight.res # "err")
    /\ reloadErr' = (flight.res = "err")
    /\ served' = IF flight.res = "handler" THEN reloader.digest ELSE served
    /\ discarded' = (flight.res # "handler" /\ discarded)
    /\ UNCHANGED <<source, server, pending, reloader>>

(* handleMockReload with nothing pending. *)
HandleReload ==
    /\ flight.at = "done" /\ pending = Nothing
    /\ flight' = NoFlight
    /\ tick' = TRUE
    /\ reloadErr' = (flight.res = "err")
    /\ served' = IF flight.res = "handler" THEN reloader.digest ELSE served
    /\ discarded' = (flight.res # "handler" /\ discarded)
    /\ UNCHANGED <<source, server, pending, reloader>>

(* handleMockReload with a request pending: the result is not looked at. *)
HandleReloadPending ==
    /\ flight.at = "done" /\ pending # Nothing
    /\ flight' = Flight(pending)
    /\ pending' = Nothing
    /\ discarded' = (discarded \/ flight.res = "handler")
    /\ UNCHANGED <<source, server, tick, reloader, served, reloadErr>>

-----------------------------------------------------------------------------
Loop ==
    \/ MockReloadTick \/ ReloadFingerprint \/ ReloadLoad
    \/ HandleReload \/ HandleReloadPending

Next ==
    \/ \E t \in Texts : EditText(t) \/ WriteFile(t)
    \/ StartFingerprint \/ StartMockServer \/ StartFails
    \/ \E why \in {"stop", "restart"} : StopMockServer(why)
    \/ ServerClosed \/ ServerDone
    \/ ReloadCommand \/ Loop

Spec == Init /\ [][Next]_vars

(* Ticks fire, reloads end and the UI handles both. *)
FairSpec == Spec /\ WF_vars(Loop) /\ WF_vars(StartMockServer \/ StartFails)
-----------------------------------------------------------------------------
Digests == Texts \X Texts
Fps == Texts \X (0..MaxChanges)

(* The type invariant. *)
TypeOK ==
    /\ editor \in Texts /\ file \in [data : Texts, ver : 0..MaxChanges]
    /\ changes \in 0..MaxChanges /\ commands \in 0..MaxCommands
    /\ up \in BOOLEAN /\ closing \in {"none", "stop", "restart"}
    /\ starting \in Fps \cup {Nothing}
    /\ tick \in BOOLEAN /\ pending \in Texts \cup {Nothing}
    /\ flight \in [at : {"none", "fp", "load", "done"}, overlay : Texts \cup {Nothing},
                   fp : Fps \cup {Nothing}, res : {"none", "nil", "err", "handler"}]
    /\ reloader \in [fp : Fps \cup {Nothing}, digest : Digests \cup {Nothing}, failing : BOOLEAN]
    /\ served \in Digests \cup {Nothing}
    /\ reloadErr \in BOOLEAN /\ discarded \in BOOLEAN

(* While the server runs there is always something that will look at the     *)
(* sources again: one tick, or one reload in flight whose result sets the    *)
(* next; a pending request waits only for a reload in flight.                *)
KeepsReloading ==
    /\ up => (tick # (flight.at # "none"))
    /\ pending # Nothing => flight.at # "none"
    /\ ~up => ~tick /\ flight.at = "none"

(* Between reloads the server serves what the Reloader believes it serves:   *)
(* its "nothing changed" is then true of the server.  The one exception is a *)
(* handler discarded for a pending request.                                  *)
ServesDigest == up /\ flight.at = "none" => served = reloader.digest \/ discarded

Current ==
    IF Compiles(editor, file)
    THEN served = Digest(editor, file) /\ ~reloadErr
    ELSE reloadErr

(* Once the user and the sources rest, the server serves them, or reports an *)
(* error if they do not compile; unless a handler was discarded.             *)
FollowsSources == <>[](up => Current \/ discarded)

(* "Source and fixture changes compile into a new immutable route set and    *)
(* swap atomically": without the exception.                                  *)
AlwaysFollows == <>[](up => Current)
=============================================================================
