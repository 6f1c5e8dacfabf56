----------------------------- MODULE FileProofs -----------------------------
(***************************************************************************)
(* The two components that follow files other programs change.             *)
(*                                                                         *)
(* MockReload for any contents and bounds: the loop of ticks and reloads  *)
(* neither stops nor doubles, and between reloads the server serves what   *)
(* the Reloader remembers.                                                 *)
(*                                                                         *)
(* FileWatch for any contents, bounds and queues: unsaved changes are not *)
(* discarded unasked, and no change on disk is forgotten, events dropped   *)
(* or not.                                                                 *)
(***************************************************************************)
EXTENDS MockReload, FileWatch, TLAPS

(* A version counts changes. *)
VersionBound == file.ver <= changes

(* A reload carries the buffer it was started with. *)
FlightHasOverlay ==
    /\ flight.at # "none" => flight.overlay \in Texts
    /\ flight.at = "load" => flight.fp \in Fps

(* What the server serves, also while a reload runs: only a handler that is  *)
(* on its way to the UI separates it from the Reloader's digest.             *)
ServesOrOnItsWay ==
    up => \/ served = reloader.digest
          \/ discarded
          \/ flight.at = "done" /\ flight.res = "handler"

IInv ==
    /\ TypeOK
    /\ VersionBound
    /\ FlightHasOverlay
    /\ KeepsReloading
    /\ ServesOrOnItsWay
-----------------------------------------------------------------------------
LEMMA FpTyped ==
    ASSUME TypeOK, NEW e \in Texts
    PROVE  Fp(e, file) \in Fps /\ Digest(e, file) \in Digests
  BY DEF TypeOK, Fp, Fps, Digest, Digests

(* What a Load leaves is a reloader, and its digest is the old one unless a  *)
(* handler is returned.                                                      *)
LEMMA LoadedTyped ==
    ASSUME TypeOK, NEW e \in Texts, NEW fp \in Fps
    PROVE  /\ Loaded(e, fp) \in [fp : Fps \cup {Nothing}, digest : Digests \cup {Nothing},
                                 failing : BOOLEAN]
           /\ LoadResult(e) \in {"nil", "err", "handler"}
           /\ LoadResult(e) = "handler" \/ Loaded(e, fp).digest = reloader.digest
  <1>1. CASE Compiles(e, file)
    BY <1>1, FpTyped DEF TypeOK, Loaded, LoadResult
  <1>2. CASE ~Compiles(e, file)
    BY <1>2 DEF TypeOK, Loaded, LoadResult
  <1> QED BY <1>1, <1>2

(* No server, no tick, no reload. *)
LEMMA InitInv == Init => IInv
  <1> SUFFICES ASSUME Init PROVE IInv OBVIOUS
  <1>1. TypeOK
    <2>1. 0 \in 0..MaxChanges /\ 0 \in 0..MaxCommands BY MockAssumption
    <2>2. file \in [data : Texts, ver : 0..MaxChanges] BY <2>1 DEF Init
    <2> QED BY <2>1, <2>2 DEF Init, TypeOK, NoFlight, NewReloader
  <1>2. VersionBound BY DEF Init, VersionBound
  <1>3. FlightHasOverlay /\ KeepsReloading /\ ServesOrOnItsWay
    BY DEF Init, FlightHasOverlay, KeepsReloading, ServesOrOnItsWay, NoFlight
  <1> QED BY <1>1, <1>2, <1>3 DEF IInv
(* The buffer is edited. *)
LEMMA EditTextInv == ASSUME IInv, NEW t \in Texts, EditText(t) PROVE IInv'
  <1> USE DEF IInv
  <1>2. TypeOK' /\ VersionBound'
    BY MockAssumption DEF EditText, server, loop, TypeOK, VersionBound
  <1>3. FlightHasOverlay' /\ KeepsReloading'
    BY DEF EditText, server, loop, FlightHasOverlay, KeepsReloading, TypeOK
  <1>4. ServesOrOnItsWay'
    BY DEF EditText, server, loop, ServesOrOnItsWay, KeepsReloading, TypeOK
  <1> QED BY <1>2, <1>3, <1>4

(* Another program writes the file. *)
LEMMA WriteFileInv == ASSUME IInv, NEW t \in Texts, WriteFile(t) PROVE IInv'
  <1> USE DEF IInv
  <1>2. TypeOK' /\ VersionBound'
    <2>1. changes' \in 0..MaxChanges /\ file.ver + 1 \in 0..MaxChanges
      BY MockAssumption DEF WriteFile, TypeOK, VersionBound
    <2>2. VersionBound' BY DEF WriteFile, VersionBound, TypeOK
    <2> QED BY <2>1, <2>2 DEF WriteFile, server, loop, TypeOK
  <1>3. FlightHasOverlay' /\ KeepsReloading'
    BY DEF WriteFile, server, loop, FlightHasOverlay, KeepsReloading, TypeOK
  <1>4. ServesOrOnItsWay'
    BY DEF WriteFile, server, loop, ServesOrOnItsWay, KeepsReloading, TypeOK
  <1> QED BY <1>2, <1>3, <1>4

(* startMockServer begins. *)
LEMMA StartFingerprintInv == ASSUME IInv, StartFingerprint PROVE IInv'
  <1> USE DEF IInv
  <1>1. Fp(editor, file) \in Fps /\ Digest(editor, file) \in Digests BY FpTyped DEF TypeOK
  <1>2. TypeOK' /\ VersionBound'
    BY <1>1 DEF StartFingerprint, source, loop, TypeOK, VersionBound
  <1>3. FlightHasOverlay' /\ KeepsReloading'
    BY <1>1 DEF StartFingerprint, source, loop, FlightHasOverlay, KeepsReloading, TypeOK
  <1>4. ServesOrOnItsWay'
    BY <1>1 DEF StartFingerprint, source, loop, ServesOrOnItsWay, KeepsReloading, TypeOK
  <1> QED BY <1>2, <1>3, <1>4

(* The server starts and its first tick is set. *)
LEMMA StartMockServerInv == ASSUME IInv, StartMockServer PROVE IInv'
  <1> USE DEF IInv
  <1>0. editor \in Texts /\ starting \in Fps BY DEF StartMockServer, TypeOK
  <1>5. Digest(editor, file) \in Digests /\ Loaded(editor, starting).digest = Digest(editor, file)
    BY <1>0, FpTyped DEF StartMockServer, Loaded
  <1>1. reloader' \in [fp : Fps \cup {Nothing}, digest : Digests \cup {Nothing}, failing : BOOLEAN]
    BY <1>0, LoadedTyped DEF StartMockServer
  <1>2. TypeOK' /\ VersionBound'
    BY <1>1, <1>5 DEF StartMockServer, NoFlight, source, TypeOK, VersionBound
  <1>3. FlightHasOverlay' /\ KeepsReloading'
    BY <1>1, <1>5 DEF StartMockServer, NoFlight, source, FlightHasOverlay,
       KeepsReloading, TypeOK
  <1>4. ServesOrOnItsWay'
    BY <1>1, <1>5 DEF StartMockServer, NoFlight, source, ServesOrOnItsWay,
       KeepsReloading, TypeOK
  <1> QED BY <1>2, <1>3, <1>4

(* The server does not start. *)
LEMMA StartFailsInv == ASSUME IInv, StartFails PROVE IInv'
  <1> USE DEF IInv
  <1>2. TypeOK' /\ VersionBound'
    BY DEF StartFails, source, loop, TypeOK, VersionBound
  <1>3. FlightHasOverlay' /\ KeepsReloading'
    BY DEF StartFails, source, loop, FlightHasOverlay, KeepsReloading, TypeOK
  <1>4. ServesOrOnItsWay'
    BY DEF StartFails, source, loop, ServesOrOnItsWay, KeepsReloading, TypeOK
  <1> QED BY <1>2, <1>3, <1>4

(* The server is detached, to be stopped or restarted. *)
LEMMA StopMockServerInv == ASSUME IInv, NEW why \in {"stop", "restart"}, StopMockServer(why) PROVE IInv'
  <1> USE DEF IInv
  <1>2. TypeOK' /\ VersionBound'
    BY DEF StopMockServer, DetachMockServer, NoFlight, NewReloader, source, TypeOK,
       VersionBound
  <1>3. FlightHasOverlay' /\ KeepsReloading'
    BY DEF StopMockServer, DetachMockServer, NoFlight, NewReloader, source,
       FlightHasOverlay, KeepsReloading, TypeOK
  <1>4. ServesOrOnItsWay'
    BY DEF StopMockServer, DetachMockServer, NoFlight, NewReloader, source,
       ServesOrOnItsWay, KeepsReloading, TypeOK
  <1> QED BY <1>2, <1>3, <1>4

(* The old server is closed. *)
LEMMA ServerClosedInv == ASSUME IInv, ServerClosed PROVE IInv'
  <1> USE DEF IInv
  <1>1. Fp(editor, file) \in Fps /\ Digest(editor, file) \in Digests BY FpTyped DEF TypeOK
  <1>2. TypeOK' /\ VersionBound'
    BY <1>1 DEF ServerClosed, source, loop, TypeOK, VersionBound
  <1>3. FlightHasOverlay' /\ KeepsReloading'
    BY <1>1 DEF ServerClosed, source, loop, FlightHasOverlay, KeepsReloading, TypeOK
  <1>4. ServesOrOnItsWay'
    BY <1>1 DEF ServerClosed, source, loop, ServesOrOnItsWay, KeepsReloading, TypeOK
  <1> QED BY <1>2, <1>3, <1>4

(* The server ends by itself. *)
LEMMA ServerDoneInv == ASSUME IInv, ServerDone PROVE IInv'
  <1> USE DEF IInv
  <1>2. TypeOK' /\ VersionBound'
    BY DEF ServerDone, DetachMockServer, NoFlight, NewReloader, source, TypeOK,
       VersionBound
  <1>3. FlightHasOverlay' /\ KeepsReloading'
    BY DEF ServerDone, DetachMockServer, NoFlight, NewReloader, source,
       FlightHasOverlay, KeepsReloading, TypeOK
  <1>4. ServesOrOnItsWay'
    BY DEF ServerDone, DetachMockServer, NoFlight, NewReloader, source,
       ServesOrOnItsWay, KeepsReloading, TypeOK
  <1> QED BY <1>2, <1>3, <1>4

(* A reload starts with the buffer it is given. *)
LEMMA FlightTyped ==
    ASSUME NEW e \in Texts
    PROVE  Flight(e) \in [at : {"none", "fp", "load", "done"}, overlay : Texts \cup {Nothing},
                          fp : Fps \cup {Nothing}, res : {"none", "nil", "err", "handler"}]
  BY DEF Flight, NoFlight

(* A reload is started or its request kept. *)
LEMMA ScheduleInv == ASSUME IInv, ScheduleMockReload, commands' \in 0..MaxCommands PROVE IInv'
  <1> USE DEF IInv
  <1>1. Flight(editor) \in [at : {"none", "fp", "load", "done"}, overlay : Texts \cup {Nothing},
                            fp : Fps \cup {Nothing}, res : {"none", "nil", "err", "handler"}]
    BY FlightTyped DEF TypeOK
  <1>2. TypeOK' /\ VersionBound'
    <2>1. CASE flight.at # "none"
      BY <2>1 DEF ScheduleMockReload, server, TypeOK, VersionBound
    <2>2. CASE flight.at = "none"
      BY <1>1, <2>2 DEF ScheduleMockReload, server, TypeOK, VersionBound
    <2> QED BY <2>1, <2>2
  <1>3. FlightHasOverlay' /\ KeepsReloading'
    BY DEF ScheduleMockReload, Flight, NoFlight, server, FlightHasOverlay,
       KeepsReloading, TypeOK
  <1>4. ServesOrOnItsWay'
    BY DEF ScheduleMockReload, Flight, NoFlight, server, ServesOrOnItsWay,
       KeepsReloading, TypeOK
  <1> QED BY <1>2, <1>3, <1>4

(* The goroutine has the fingerprint. *)
LEMMA ReloadFingerprintInv == ASSUME IInv, ReloadFingerprint PROVE IInv'
  <1> USE DEF IInv
  <1>1. Fp(flight.overlay, file) \in Fps BY FpTyped DEF ReloadFingerprint, FlightHasOverlay
  <1>2. TypeOK' /\ VersionBound'
    <2>1. flight' \in [at : {"none", "fp", "load", "done"}, overlay : Texts \cup {Nothing},
                      fp : Fps \cup {Nothing}, res : {"none", "nil", "err", "handler"}]
      BY <1>1 DEF ReloadFingerprint, TypeOK
    <2> QED BY <2>1 DEF ReloadFingerprint, source, server, TypeOK, VersionBound
  <1>3. FlightHasOverlay' /\ KeepsReloading'
    BY <1>1 DEF ReloadFingerprint, source, server, FlightHasOverlay, KeepsReloading,
       TypeOK
  <1>4. ServesOrOnItsWay'
    BY <1>1 DEF ReloadFingerprint, source, server, ServesOrOnItsWay, KeepsReloading,
       TypeOK
  <1> QED BY <1>2, <1>3, <1>4

(* The goroutine has loaded the sources. *)
LEMMA ReloadLoadInv == ASSUME IInv, ReloadLoad PROVE IInv'
  <1> USE DEF IInv
  <1>0. flight.overlay \in Texts /\ flight.fp \in Fps BY DEF ReloadLoad, FlightHasOverlay
  <1>1. /\ reloader' \in [fp : Fps \cup {Nothing}, digest : Digests \cup {Nothing}, failing : BOOLEAN]
        /\ LoadResult(flight.overlay) \in {"nil", "err", "handler"}
        /\ LoadResult(flight.overlay) = "handler" \/ reloader'.digest = reloader.digest
    BY <1>0, LoadedTyped DEF ReloadLoad
  <1>2. TypeOK' /\ VersionBound'
    <2>1. flight' \in [at : {"none", "fp", "load", "done"}, overlay : Texts \cup {Nothing},
                      fp : Fps \cup {Nothing}, res : {"none", "nil", "err", "handler"}]
      BY <1>1 DEF ReloadLoad, TypeOK
    <2> QED BY <1>1, <2>1 DEF ReloadLoad, source, server, TypeOK, VersionBound
  <1>3. FlightHasOverlay' /\ KeepsReloading'
    BY <1>1 DEF ReloadLoad, source, server, FlightHasOverlay, KeepsReloading, TypeOK
  <1>4. ServesOrOnItsWay'
    BY <1>1 DEF ReloadLoad, source, server, ServesOrOnItsWay, KeepsReloading, TypeOK
  <1> QED BY <1>2, <1>3, <1>4

(* The UI installs the handler and sets the next tick. *)
LEMMA HandleReloadInv == ASSUME IInv, HandleReload PROVE IInv'
  <1> USE DEF IInv
  <1>2. TypeOK' /\ VersionBound'
    BY DEF HandleReload, NoFlight, source, server, TypeOK, VersionBound
  <1>3. FlightHasOverlay' /\ KeepsReloading'
    BY DEF HandleReload, NoFlight, source, server, FlightHasOverlay, KeepsReloading,
       TypeOK
  <1>4. ServesOrOnItsWay'
    BY DEF HandleReload, NoFlight, source, server, ServesOrOnItsWay, KeepsReloading,
       TypeOK
  <1> QED BY <1>2, <1>3, <1>4

(* The UI starts the pending reload. *)
LEMMA HandleReloadPendingInv == ASSUME IInv, HandleReloadPending PROVE IInv'
  <1> USE DEF IInv
  <1>1. Flight(pending) \in [at : {"none", "fp", "load", "done"}, overlay : Texts \cup {Nothing},
                             fp : Fps \cup {Nothing}, res : {"none", "nil", "err", "handler"}]
    BY FlightTyped DEF HandleReloadPending, TypeOK
  <1>2. TypeOK' /\ VersionBound'
    BY <1>1 DEF HandleReloadPending, source, server, TypeOK, VersionBound
  <1>3. FlightHasOverlay' /\ KeepsReloading'
    BY DEF HandleReloadPending, Flight, NoFlight, source, server, FlightHasOverlay,
       KeepsReloading, TypeOK
  <1>4. ServesOrOnItsWay'
    BY DEF HandleReloadPending, Flight, NoFlight, source, server, ServesOrOnItsWay,
       KeepsReloading, TypeOK
  <1> QED BY <1>2, <1>3, <1>4

LEMMA StepInv == IInv /\ [Next]_vars => IInv'
  <1> SUFFICES ASSUME IInv, [Next]_vars PROVE IInv' OBVIOUS
  <1>1. ASSUME NEW t \in Texts, EditText(t) \/ WriteFile(t) PROVE IInv'
    BY <1>1, EditTextInv, WriteFileInv
  <1>2. CASE StartFingerprint \/ StartMockServer \/ StartFails \/ ServerClosed \/ ServerDone
    BY <1>2, StartFingerprintInv, StartMockServerInv, StartFailsInv, ServerClosedInv,
       ServerDoneInv
  <1>3. ASSUME NEW why \in {"stop", "restart"}, StopMockServer(why) PROVE IInv'
    BY <1>3, StopMockServerInv
  <1>4. CASE ReloadCommand
    BY <1>4, ScheduleInv, MockAssumption DEF ReloadCommand, IInv, TypeOK
  <1>5. CASE MockReloadTick
    BY <1>5, ScheduleInv DEF MockReloadTick, IInv, TypeOK
  <1>6. CASE ReloadFingerprint \/ ReloadLoad \/ HandleReload \/ HandleReloadPending
    BY <1>6, ReloadFingerprintInv, ReloadLoadInv, HandleReloadInv, HandleReloadPendingInv
  <1>7. CASE UNCHANGED vars
    BY <1>7 DEF vars, IInv, TypeOK, VersionBound, FlightHasOverlay, KeepsReloading,
       ServesOrOnItsWay
  <1> QED BY <1>1, <1>2, <1>3, <1>4, <1>5, <1>6, <1>7 DEF Next, Loop

-----------------------------------------------------------------------------
(* The invariant of the mock server's reload loop. *)
THEOREM ReloadInvariant == Spec => []IInv
  BY InitInv, StepInv, PTL DEF Spec

(* The state of mockServerState and of the Reloader keeps its types. *)
THEOREM TypeCorrect == Spec => []TypeOK
  <1>1. IInv => TypeOK BY DEF IInv
  <1> QED BY <1>1, ReloadInvariant, PTL

(* handleMockReload and scheduleMockReload keep exactly one tick or one      *)
(* reload alive while the server runs.                                       *)
THEOREM LoopNeverStops == Spec => []KeepsReloading
  <1>1. IInv => KeepsReloading BY DEF IInv
  <1> QED BY <1>1, ReloadInvariant, PTL

(* Between reloads the handler installed is the one Reloader.Reload recorded *)
(* last, unless handleMockReload has discarded one.                          *)
THEOREM ServerMatchesReloader == Spec => []ServesDigest
  <1>1. IInv => ServesDigest BY DEF IInv, ServesOrOnItsWay, ServesDigest
  <1> QED BY <1>1, ReloadInvariant, PTL
-----------------------------------------------------------------------------
-----------------------------------------------------------------------------
(* The open file's modification time is that of a write.  A reload is        *)
(* confirmed only by the modal that says what it discards.                   *)
WatchInv ==
    /\ WatchTypeOK
    /\ disk.mod <= writes
    /\ pendingReloadConfirm => modal = "discard"

LEMMA WatchStart == WatchInit => WatchInv
<1> SUFFICES ASSUME WatchInit PROVE WatchInv
  OBVIOUS
<1>1. 0 \in Times /\ <<>> \in Seq({"changed", "missing"}) /\ Len(<<>>) = 0
  BY WatchAssumption DEF Times
<1>2. NoScan \in Entries /\ NoScan.fp \in Fingerprints
  BY DEF NoScan, Entries, Fingerprints, Fingerprint
<1>3. PICK c \in Contents : /\ disk = [data |-> c, mod |-> 0]
                            /\ entry = [fp |-> Fingerprint(c, 0), missing |-> FALSE]
                            /\ base = c
  BY DEF WatchInit
<1>4. disk \in [data : Contents \cup {Gone}, mod : Times] /\ entry \in Entries /\ base \in Contents
  BY <1>1, <1>3 DEF Entries, Fingerprints, Fingerprint
<1>5. out \in Seq({"changed", "missing"}) /\ msgs \in Seq({"changed", "missing"})
  BY <1>1 DEF WatchInit
<1>6. Len(out) <= OutCap /\ Len(msgs) <= ChanCap
  BY <1>1, WatchAssumption DEF WatchInit
<1>7. /\ at \in [Scanners -> {"idle", "stat", "read", "mark", "update", "changed", "missing"}]
      /\ copy \in [Scanners -> Entries] /\ next \in [Scanners -> Fingerprints]
  BY <1>2 DEF WatchInit
<1>8. WatchTypeOK
  BY <1>1, <1>2, <1>4, <1>5, <1>6, <1>7 DEF WatchInit, WatchTypeOK
<1> QED BY <1>3, <1>8 DEF WatchInit, WatchInv

(* A write of the file, by whomever, gets a new time. *)
LEMMA PutTyped ==
    ASSUME WatchInv, NEW c \in Contents \cup {Gone}, Put(c)
    PROVE  /\ disk' \in [data : Contents \cup {Gone}, mod : Times] /\ writes' \in Times
           /\ disk'.mod <= writes' /\ disk'.mod # disk.mod /\ disk'.data = c
<1>1. writes \in 0..MaxWrites /\ disk.mod \in 0..MaxWrites /\ disk.mod <= writes
  BY DEF WatchInv, WatchTypeOK, Times
<1>2. writes + 1 \in Times
  BY <1>1, WatchAssumption DEF Put, Times
<1> QED BY <1>1, <1>2, WatchAssumption DEF Put

(* Where a scan ends, and what it has found. *)
LEMMA ScanEndsTyped ==
    ASSUME WatchTypeOK, NEW s \in Scanners, ScanEnds(s)
    PROVE  /\ at' \in [Scanners -> {"idle", "stat", "read", "mark", "update", "changed", "missing"}]
           /\ copy' \in [Scanners -> Entries] /\ next' \in [Scanners -> Fingerprints]
<1>1. NoScan \in Entries /\ NoScan.fp \in Fingerprints
  BY DEF NoScan, Entries, Fingerprints, Fingerprint
<1> QED BY <1>1 DEF ScanEnds, Goto, WatchTypeOK

LEMMA ScanTyped ==
    ASSUME WatchInv, NEW s \in Scanners, ScanStep(s)
    PROVE  WatchInv'
<1> USE DEF disks, flags, buffer
<1>1. CASE Stat(s)
  <2>1. /\ at' \in [Scanners -> {"idle", "stat", "read", "mark", "update", "changed", "missing"}]
        /\ copy' \in [Scanners -> Entries] /\ next' \in [Scanners -> Fingerprints]
    <3>1. CASE ScanEnds(s)
      BY <3>1, ScanEndsTyped DEF WatchInv
    <3>2. CASE Goto(s, "mark") /\ UNCHANGED <<copy, next>>
      BY <3>2 DEF Goto, WatchInv, WatchTypeOK
    <3>3. CASE Goto(s, "read") /\ next' = [next EXCEPT ![s].mod = disk.mod] /\ UNCHANGED copy
      <4>1. [next[s] EXCEPT !.mod = disk.mod] \in Fingerprints
        BY DEF WatchInv, WatchTypeOK, Fingerprints
      <4> QED BY <3>3, <4>1 DEF Goto, WatchInv, WatchTypeOK
    <3> QED BY <1>1, <3>1, <3>2, <3>3 DEF Stat
  <2> QED BY <1>1, <2>1 DEF Stat, WatchInv, WatchTypeOK
<1>2. CASE ReadFile(s)
  <2>1. disk.data # Gone => [next[s] EXCEPT !.hash = disk.data] \in Fingerprints
    BY DEF WatchInv, WatchTypeOK, Fingerprints
  <2>2. next' \in [Scanners -> Fingerprints]
    BY <1>2, <2>1 DEF ReadFile, WatchInv, WatchTypeOK
  <2> QED BY <1>2, <2>2 DEF ReadFile, Goto, WatchInv, WatchTypeOK
<1>3. CASE MarkMissing(s)
  <2>1. entry' \in Entries
    BY <1>3 DEF MarkMissing, WatchInv, WatchTypeOK, Entries
  <2> QED BY <1>3, <2>1 DEF MarkMissing, Goto, WatchInv, WatchTypeOK
<1>4. CASE UpdateEntry(s)
  <2>1. entry' \in Entries
    BY <1>4 DEF UpdateEntry, WatchInv, WatchTypeOK, Entries
  <2>2. /\ at' \in [Scanners -> {"idle", "stat", "read", "mark", "update", "changed", "missing"}]
        /\ copy' \in [Scanners -> Entries] /\ next' \in [Scanners -> Fingerprints]
    <3>1. CASE ScanEnds(s)
      BY <3>1, ScanEndsTyped DEF WatchInv
    <3>2. CASE Goto(s, "changed") /\ UNCHANGED <<copy, next>>
      BY <3>2 DEF Goto, WatchInv, WatchTypeOK
    <3> QED BY <1>4, <3>1, <3>2 DEF UpdateEntry
  <2> QED BY <1>4, <2>1, <2>2 DEF UpdateEntry, WatchInv, WatchTypeOK
<1>5. CASE Emit(s)
  <2>1. /\ at' \in [Scanners -> {"idle", "stat", "read", "mark", "update", "changed", "missing"}]
        /\ copy' \in [Scanners -> Entries] /\ next' \in [Scanners -> Fingerprints]
    BY <1>5, ScanEndsTyped DEF Emit, WatchInv
  <2>2. at[s] \in {"changed", "missing"} /\ OutCap \in Nat
    BY <1>5, WatchAssumption DEF Emit
  <2>3. out' \in Seq({"changed", "missing"}) /\ Len(out') <= OutCap
    <3>1. CASE Len(out) < OutCap /\ out' = Append(out, at[s])
      BY <2>2, <3>1 DEF WatchInv, WatchTypeOK
    <3>2. CASE out' = out
      BY <3>2 DEF WatchInv, WatchTypeOK
    <3> QED BY <1>5, <3>1, <3>2 DEF Emit
  <2>4. lost' \in BOOLEAN
    BY <1>5 DEF Emit, WatchInv, WatchTypeOK
  <2> QED BY <1>5, <2>1, <2>3, <2>4 DEF Emit, WatchInv, WatchTypeOK
<1> QED BY <1>1, <1>2, <1>3, <1>4, <1>5 DEF ScanStep

LEMMA SnapshotTyped ==
    ASSUME WatchTypeOK, NEW s \in Scanners, Snapshot(s)
    PROVE  /\ at' \in [Scanners -> {"idle", "stat", "read", "mark", "update", "changed", "missing"}]
           /\ copy' \in [Scanners -> Entries]
BY DEF Snapshot, Goto, WatchTypeOK

(* What applyDiskContent puts into the buffer. *)
LEMMA ApplyTyped ==
    ASSUME WatchTypeOK, disk.data # Gone, ApplyDiskContent
    PROVE  base' \in Contents /\ dirty' = FALSE /\ track' \in Fingerprints /\ ui' = "track"
BY DEF ApplyDiskContent, WatchTypeOK, Fingerprints, Fingerprint

LEMMA UiTyped ==
    ASSUME WatchInv, TrackStat \/ WatchFile \/ ScanReturns \/ Edit \/ CloseFileChangeModal
    PROVE  WatchInv'
<1> USE DEF disks, flags, buffer, scan
<1>1. CASE TrackStat
  <2>1. track' \in Fingerprints
    BY <1>1 DEF TrackStat, WatchInv, WatchTypeOK, Fingerprints
  <2> QED BY <1>1, <2>1 DEF TrackStat, WatchInv, WatchTypeOK
<1>2. CASE WatchFile
  <2>1. NoScan.fp \in Fingerprints /\ [fp |-> track, missing |-> FALSE] \in Entries
    BY DEF NoScan, Entries, Fingerprints, Fingerprint, WatchInv, WatchTypeOK
  <2> QED BY <1>2, <2>1 DEF WatchFile, WatchInv, WatchTypeOK
<1>3. CASE ScanReturns
  BY <1>3 DEF ScanReturns, WatchInv, WatchTypeOK
<1>4. CASE Edit
  BY <1>4 DEF Edit, WatchInv, WatchTypeOK
<1>5. CASE CloseFileChangeModal
  BY <1>5 DEF CloseFileChangeModal, WatchInv, WatchTypeOK
<1> QED BY <1>1, <1>2, <1>3, <1>4, <1>5

LEMMA HandleTyped ==
    ASSUME WatchInv, HandleFileChange
    PROVE  WatchInv'
<1> USE DEF disks, flags, buffer, scan
<1>1. msgs' \in Seq({"changed", "missing"}) /\ Len(msgs') <= ChanCap
  BY WatchAssumption DEF HandleFileChange, WatchInv, WatchTypeOK
<1>2. CASE disk.data # Gone /\ ApplyDiskContent /\ UNCHANGED flags
  <2>1. base' \in Contents /\ dirty' = FALSE /\ track' \in Fingerprints /\ ui' = "track"
    BY <1>2, ApplyTyped DEF WatchInv
  <2> QED BY <1>1, <1>2, <2>1 DEF HandleFileChange, WatchInv, WatchTypeOK
<1>3. CASE \/ /\ ShowFileChangeWarning("missing", "notice") /\ pendingReloadConfirm' = FALSE
              /\ UNCHANGED <<buffer, ui, track>>
           \/ /\ ShowFileChangeWarning("changed", "discard") /\ pendingReloadConfirm' = TRUE
              /\ UNCHANGED <<buffer, ui, track>>
  BY <1>1, <1>3 DEF HandleFileChange, ShowFileChangeWarning, WatchInv, WatchTypeOK
<1> QED BY <1>2, <1>3 DEF HandleFileChange

LEMMA ReloadTyped ==
    ASSUME WatchInv, ReloadFileFromDisk
    PROVE  WatchInv'
<1> USE DEF disks, flags, buffer, scan
<1>1. CASE dirty /\ ~pendingReloadConfirm
  BY <1>1 DEF ReloadFileFromDisk, WatchInv, WatchTypeOK
<1>2. CASE disk.data # Gone /\ ApplyDiskContent /\ UNCHANGED flags
  <2>1. base' \in Contents /\ dirty' = FALSE /\ track' \in Fingerprints /\ ui' = "track"
    BY <1>2, ApplyTyped DEF WatchInv
  <2> QED BY <1>2, <2>1 DEF ReloadFileFromDisk, WatchInv, WatchTypeOK
<1> QED BY <1>1, <1>2 DEF ReloadFileFromDisk

LEMMA WatchStep ==
    ASSUME WatchInv, [WatchNext]_watchVars
    PROVE  WatchInv'
<1> USE DEF disks, flags, buffer, scan
<1>1. ASSUME NEW c \in Contents \cup {Gone}, Put(c),
             UNCHANGED <<entry, scan, out, msgs, ui, track, buffer, flags, lost>>
      PROVE  WatchInv'
  <2>1. /\ disk' \in [data : Contents \cup {Gone}, mod : Times] /\ writes' \in Times
        /\ disk'.mod <= writes'
    BY <1>1, PutTyped
  <2> QED BY <1>1, <2>1 DEF WatchInv, WatchTypeOK
<1>2. CASE OutsideRemove
  BY <1>1, <1>2 DEF OutsideRemove
<1>3. ASSUME NEW c \in Contents, OutsideWrite(c) PROVE WatchInv'
  BY <1>1, <1>3 DEF OutsideWrite
<1>4. CASE Tick
  <2>1. "ticker" \in Scanners
    BY DEF Scanners
  <2>2. /\ at' \in [Scanners -> {"idle", "stat", "read", "mark", "update", "changed", "missing"}]
        /\ copy' \in [Scanners -> Entries]
    BY <1>4, <2>1, SnapshotTyped DEF Tick, WatchInv
  <2> QED BY <1>4, <2>2 DEF Tick, Snapshot, WatchInv, WatchTypeOK
<1>5. CASE Pump
  <2>1. /\ out' \in Seq({"changed", "missing"}) /\ Len(out') <= OutCap
    BY <1>5, WatchAssumption DEF Pump, WatchInv, WatchTypeOK
  <2>2. Head(out) \in {"changed", "missing"}
    BY <1>5 DEF Pump, WatchInv, WatchTypeOK
  <2>3. msgs' \in Seq({"changed", "missing"}) /\ Len(msgs') <= ChanCap
    BY <1>5, <2>2, WatchAssumption DEF Pump, WatchInv, WatchTypeOK
  <2> QED BY <1>5, <2>1, <2>3 DEF Pump, WatchInv, WatchTypeOK
<1>6. CASE ExternalEditorClosed
  <2>1. "ui" \in Scanners
    BY DEF Scanners
  <2>2. /\ at' \in [Scanners -> {"idle", "stat", "read", "mark", "update", "changed", "missing"}]
        /\ copy' \in [Scanners -> Entries]
    BY <1>6, <2>1, SnapshotTyped DEF ExternalEditorClosed, WatchInv
  <2> QED BY <1>6, <2>2 DEF ExternalEditorClosed, Snapshot, WatchInv, WatchTypeOK
<1>7. ASSUME NEW c \in Contents, SaveFile(c) PROVE WatchInv'
  <2>1. /\ disk' \in [data : Contents \cup {Gone}, mod : Times] /\ writes' \in Times
        /\ disk'.mod <= writes'
    BY <1>7, PutTyped DEF SaveFile
  <2>2. Fingerprint(c, NoTime) \in Fingerprints
    BY DEF Fingerprint, Fingerprints
  <2> QED BY <1>7, <2>1, <2>2 DEF SaveFile, WatchInv, WatchTypeOK
<1>8. CASE UNCHANGED watchVars
  BY <1>8 DEF watchVars, WatchInv, WatchTypeOK
<1> QED BY <1>2, <1>3, <1>4, <1>5, <1>6, <1>7, <1>8, ScanTyped, UiTyped, HandleTyped, ReloadTyped
        DEF WatchNext, UiStep, User

LEMMA WatchInvariant == WatchSpec => []WatchInv
BY WatchStart, WatchStep, PTL DEF WatchSpec

(* The types of the watcher's and the UI's state. *)
THEOREM WatchTypeCorrect == WatchSpec => []WatchTypeOK
<1>1. WatchInv => WatchTypeOK
  BY DEF WatchInv
<1> QED BY <1>1, WatchInvariant, PTL

(* Only saveFile, handleFileChangeEvent and reloadFileFromDisk make the      *)
(* buffer clean; the second never touches a dirty one.                       *)
LEMMA CleanStep ==
    ASSUME WatchInv, [WatchNext]_watchVars, dirty, ~dirty'
    PROVE  \/ disk'.mod # disk.mod /\ disk'.data = base'
           \/ pendingReloadConfirm /\ modal = "discard"
<1> USE DEF buffer
<1>1. ASSUME NEW c \in Contents, SaveFile(c)
      PROVE  disk'.mod # disk.mod /\ disk'.data = base'
  BY <1>1, PutTyped DEF SaveFile
<1>2. CASE ReloadFileFromDisk
  BY <1>2 DEF ReloadFileFromDisk, WatchInv
<1>3. HandleFileChange => dirty' = dirty
  BY DEF HandleFileChange
<1>4. ASSUME NEW s \in Scanners, ScanStep(s) PROVE dirty' = dirty
  BY <1>4 DEF ScanStep, Stat, ReadFile, MarkMissing, UpdateEntry, Emit
<1>5. UiStep \/ Tick \/ Pump \/ OutsideRemove \/ (\E c \in Contents : OutsideWrite(c)) => dirty' = dirty
  BY DEF UiStep, TrackStat, WatchFile, ScanReturns, Tick, Snapshot, Pump, OutsideRemove, OutsideWrite
<1>6. Edit => dirty'
  BY DEF Edit
<1>7. CloseFileChangeModal \/ ExternalEditorClosed \/ UNCHANGED watchVars => dirty' = dirty
  BY DEF CloseFileChangeModal, ExternalEditorClosed, Snapshot, watchVars
<1> QED BY <1>1, <1>2, <1>3, <1>4, <1>5, <1>6, <1>7 DEF WatchNext, User

(* saveFile, autoReloadChangedFile, reloadFileFromDisk: for any contents,    *)
(* writes by other programs, scans and queue capacities, unsaved changes     *)
(* leave the buffer by being saved, or by a reload that the warning on the   *)
(* screen has announced.                                                     *)
THEOREM WatchEditsKept == WatchSpec => EditsKept
<1>1. WatchInv /\ [WatchNext]_watchVars =>
          [dirty /\ ~dirty' => \/ disk'.mod # disk.mod /\ disk'.data = base'
                               \/ pendingReloadConfirm /\ modal = "discard"]_watchVars
  BY CleanStep
<1> QED BY <1>1, WatchInvariant, PTL DEF WatchSpec, EditsKept

-----------------------------------------------------------------------------
(* The safety part of ChangeNoticed: when the watcher has seen what is on    *)
(* the disk and has nothing left to report, the UI holds that content or has *)
(* told the user that it does not.                                           *)
Coming == (\E s \in Scanners : at[s] \in {"changed", "missing"}) \/ out # <<>> \/ msgs # <<>>

Seen(e) == ~e.missing /\ e.fp = Fingerprint(disk.data, disk.mod)

NothingForgotten ==
    ui = "idle" /\ ~Coming /\ (IF disk.data = Gone THEN entry.missing ELSE Seen(entry))
        => fileStale \/ base = disk.data

(* No entry is newer than the last write ... *)
TimesInv ==
    /\ entry.fp.mod <= writes /\ track.mod <= writes
    /\ \A s \in Scanners : copy[s].fp.mod <= writes /\ next[s].mod <= writes

(* ... watchFile is to reset the warning ... *)
Busy == ui \in {"track", "store"}

(* ... and whoever knows the file as it is has told the UI, or is about to;   *)
(* a warning does not count while it is about to go.                          *)
Noticed == base = disk.data \/ Coming \/ (fileStale /\ ~Busy)

SeenInv ==
    /\ Busy => track.hash = base
    /\ Seen(entry) => Noticed
    /\ \A s \in Scanners : Seen(copy[s]) => Noticed
    /\ entry.missing => Coming \/ fileStale \/ Busy

ForgetInv == WatchInv /\ TimesInv /\ SeenInv

LEMMA ForgetStart == WatchInit => ForgetInv
<1> SUFFICES ASSUME WatchInit PROVE ForgetInv
  OBVIOUS
<1>1. WatchInv
  BY WatchStart
<1>2. PICK c \in Contents : /\ disk = [data |-> c, mod |-> 0]
                            /\ entry = [fp |-> Fingerprint(c, 0), missing |-> FALSE]
                            /\ base = c
  BY DEF WatchInit
<1>3. NoScan.fp.mod = -1 /\ -1 <= 0 /\ ~NoScan.missing
  BY DEF NoScan, Fingerprint, NoTime
<1>4. TimesInv
  BY <1>2, <1>3 DEF WatchInit, TimesInv, Fingerprint
<1>5. SeenInv
  BY <1>2 DEF WatchInit, SeenInv, Noticed, Busy
<1> QED BY <1>1, <1>4, <1>5 DEF ForgetInv

(* The times are integers, of the right order. *)
LEMMA TimesTyped ==
    ASSUME WatchInv
    PROVE  /\ writes \in Int /\ disk.mod \in Int /\ disk.mod <= writes /\ 0 <= disk.mod
           /\ entry.fp.mod \in Int /\ track.mod \in Int
           /\ \A s \in Scanners : copy[s].fp.mod \in Int /\ next[s].mod \in Int
           /\ NoScan.fp.mod = -1
<1>1. writes \in 0..MaxWrites /\ disk.mod \in 0..MaxWrites /\ disk.mod <= writes
  BY DEF WatchInv, WatchTypeOK, Times
<1>2. \A f \in Fingerprints : f.mod \in Int
  BY WatchAssumption DEF Fingerprints, Times, NoTime
<1>3. /\ entry.fp \in Fingerprints /\ track \in Fingerprints
      /\ \A s \in Scanners : copy[s].fp \in Fingerprints /\ next[s] \in Fingerprints
  BY DEF WatchInv, WatchTypeOK, Entries
<1>4. NoScan.fp.mod = -1
  BY DEF NoScan, Fingerprint, NoTime
<1> QED BY <1>1, <1>2, <1>3, <1>4, WatchAssumption

(* A new write is known to nobody. *)
LEMMA NewWrite ==
    ASSUME WatchInv, TimesInv, NEW c \in Contents \cup {Gone}, Put(c)
    PROVE  /\ writes' = writes + 1 /\ writes \in Int
           /\ UNCHANGED entry => ~Seen(entry)'
           /\ UNCHANGED copy => \A s \in Scanners : ~Seen(copy[s])'
<1>1. disk'.mod = writes + 1 /\ writes' = writes + 1 /\ writes \in Int
  BY TimesTyped DEF Put
<1>2. entry.fp.mod # writes + 1 /\ \A s \in Scanners : copy[s].fp.mod # writes + 1
  BY <1>1, TimesTyped DEF TimesInv
<1> QED BY <1>1, <1>2 DEF Seen, Fingerprint

LEMMA OutsideForget ==
    ASSUME ForgetInv, NEW c \in Contents \cup {Gone}, Put(c),
           UNCHANGED <<entry, scan, out, msgs, ui, track, buffer, flags, lost>>
    PROVE  TimesInv' /\ SeenInv'
<1> USE DEF scan, buffer, flags
<1>1. TimesInv'
  BY NewWrite, TimesTyped DEF ForgetInv, TimesInv
<1>2. SeenInv'
  BY NewWrite DEF ForgetInv, SeenInv, Coming, Busy
<1> QED BY <1>1, <1>2

(* A step that leaves disk, buffer, warning and the UI where they are. *)
LEMMA NoticedStays ==
    ASSUME UNCHANGED <<disk, base, fileStale>>, Busy' <=> Busy, Coming => Coming', Noticed
    PROVE  Noticed'
BY DEF Noticed

LEMMA ScanForget ==
    ASSUME ForgetInv, NEW s \in Scanners, ScanStep(s)
    PROVE  TimesInv' /\ SeenInv'
<1> USE DEF disks, flags, buffer
<1>1. UNCHANGED <<disk, writes, base, fileStale, ui, track, msgs>>
  BY DEF ScanStep, Stat, ReadFile, MarkMissing, UpdateEntry, Emit
<1>2. Busy' <=> Busy
  BY <1>1 DEF Busy
<1>3. /\ WatchInv /\ TimesInv /\ SeenInv
      /\ at \in [Scanners -> {"idle", "stat", "read", "mark", "update", "changed", "missing"}]
      /\ copy \in [Scanners -> Entries] /\ next \in [Scanners -> Fingerprints]
  BY DEF ForgetInv, WatchInv, WatchTypeOK
<1>4. ASSUME ScanEnds(s)
      PROVE  /\ \A q \in Scanners : copy'[q] = IF q = s THEN NoScan ELSE copy[q]
             /\ \A q \in Scanners : next'[q] = IF q = s THEN NoScan.fp ELSE next[q]
             /\ \A q \in Scanners : at'[q] = IF q = s THEN "idle" ELSE at[q]
  BY <1>3, <1>4 DEF ScanEnds, Goto
<1>5. ASSUME ScanEnds(s)
      PROVE  /\ \A q \in Scanners : copy'[q].fp.mod <= writes /\ next'[q].mod <= writes
             /\ \A q \in Scanners : Seen(copy[q])' => Seen(copy[q])
  <2>1. NoScan.fp.mod = -1 /\ writes \in Int /\ 0 <= writes /\ 0 <= disk.mod /\ disk.mod \in Int
    BY <1>3, TimesTyped
  <2>2. NoScan.fp # Fingerprint(disk.data, disk.mod)
    BY <2>1 DEF Fingerprint
  <2>3. \A q \in Scanners : copy'[q].fp.mod <= writes /\ next'[q].mod <= writes
    BY <1>3, <1>4, <1>5, <2>1 DEF TimesInv
  <2>4. \A q \in Scanners : Seen(copy[q])' => Seen(copy[q])
    BY <1>1, <1>4, <1>5, <2>2 DEF Seen
  <2> QED BY <2>3, <2>4
<1>6. ASSUME UNCHANGED copy
      PROVE  \A q \in Scanners : Seen(copy[q])' => Seen(copy[q])
  BY <1>1, <1>6 DEF Seen
<1>7. ASSUME UNCHANGED entry
      PROVE  Seen(entry)' => Seen(entry)
  BY <1>1, <1>7 DEF Seen
<1>8. ASSUME NEW l, Goto(s, l)
      PROVE  \A q \in Scanners : at'[q] = IF q = s THEN l ELSE at[q]
  BY <1>3, <1>8 DEF Goto
<1>9. CASE Stat(s)
  <2>1. UNCHANGED <<entry, out>>
    BY <1>9 DEF Stat
  <2>2. Coming => Coming'
    BY <1>1, <1>4, <1>8, <1>9 DEF Stat, Coming
  <2>3. CASE ScanEnds(s)
    BY <1>1, <1>2, <1>3, <1>5, <1>7, <2>1, <2>2, <2>3, NoticedStays DEF TimesInv, SeenInv
  <2>4. CASE ~ScanEnds(s)
    <3>1. UNCHANGED copy
      BY <1>9, <2>4 DEF Stat
    <3>2. \A q \in Scanners : next'[q].mod = next[q].mod \/ next'[q].mod = disk.mod
      BY <1>3, <1>9, <2>4 DEF Stat, Fingerprints
    <3>3. TimesInv'
      BY <1>1, <1>3, <2>1, <3>1, <3>2, TimesTyped DEF TimesInv
    <3>4. SeenInv'
      BY <1>1, <1>2, <1>3, <1>6, <1>7, <2>1, <2>2, <3>1, NoticedStays DEF SeenInv
    <3> QED BY <3>3, <3>4
  <2> QED BY <2>3, <2>4
<1>10. CASE ReadFile(s)
  <2>1. UNCHANGED <<entry, out, copy>>
    BY <1>10 DEF ReadFile
  <2>2. Coming => Coming'
    BY <1>1, <1>8, <1>10, <2>1 DEF ReadFile, Coming
  <2>3. \A q \in Scanners : next'[q].mod = next[q].mod
    BY <1>3, <1>10 DEF ReadFile, Fingerprints
  <2>4. TimesInv'
    BY <1>1, <1>3, <2>1, <2>3 DEF TimesInv
  <2>5. SeenInv'
    BY <1>1, <1>2, <1>3, <1>6, <1>7, <2>1, <2>2, NoticedStays DEF SeenInv
  <2> QED BY <2>4, <2>5
<1>11. CASE MarkMissing(s)
  <2>1. UNCHANGED <<out, copy, next>> /\ entry'.fp = entry.fp /\ entry'.missing
    BY <1>3, <1>11 DEF MarkMissing, WatchInv, WatchTypeOK, Entries
  <2>2. Coming'
    BY <1>8, <1>11 DEF MarkMissing, Coming
  <2>3. TimesInv'
    BY <1>1, <1>3, <2>1 DEF TimesInv
  <2>4. SeenInv'
    BY <1>1, <1>2, <1>3, <2>2 DEF SeenInv, Noticed
  <2> QED BY <2>3, <2>4
<1>12. CASE UpdateEntry(s)
  <2>1. at[s] = "update" /\ entry' = [fp |-> next[s], missing |-> FALSE] /\ UNCHANGED out
    BY <1>12 DEF UpdateEntry
  <2>2. CASE Changed(s)
    <3>1. UNCHANGED <<copy, next>> /\ Goto(s, "changed")
      BY <1>12, <2>2 DEF UpdateEntry
    <3>2. Coming'
      BY <1>8, <3>1 DEF Coming
    <3>3. TimesInv'
      BY <1>1, <1>3, <2>1, <3>1 DEF TimesInv
    <3>4. SeenInv'
      BY <1>1, <1>2, <1>3, <3>2 DEF SeenInv, Noticed
    <3> QED BY <3>3, <3>4
  <2>3. CASE ~Changed(s)
    <3>1. ScanEnds(s) /\ ~copy[s].missing /\ next[s] = copy[s].fp
      BY <1>12, <2>3 DEF UpdateEntry, Changed
    <3>2. Coming => Coming'
      BY <1>1, <1>4, <2>1, <3>1 DEF Coming
    <3>3. Seen(entry)' => Seen(copy[s])
      BY <1>1, <2>1, <3>1 DEF Seen
    <3>4. TimesInv'
      BY <1>1, <1>3, <1>5, <2>1, <3>1 DEF TimesInv
    <3>5. SeenInv'
      BY <1>1, <1>2, <1>3, <1>5, <2>1, <3>1, <3>2, <3>3, NoticedStays DEF SeenInv
    <3> QED BY <3>4, <3>5
  <2> QED BY <2>2, <2>3
<1>13. CASE Emit(s)
  <2>1. UNCHANGED entry /\ ScanEnds(s)
    BY <1>13 DEF Emit
  <2>2. out' # <<>>
    <3>1. CASE Len(out) < OutCap
      BY <1>3, <1>13, <3>1 DEF Emit, WatchInv, WatchTypeOK
    <3>2. CASE ~(Len(out) < OutCap)
      BY <1>3, <1>13, <3>2, WatchAssumption DEF Emit, WatchInv, WatchTypeOK
    <3> QED BY <3>1, <3>2
  <2>3. Coming'
    BY <2>2 DEF Coming
  <2>4. TimesInv'
    BY <1>1, <1>3, <1>5, <2>1 DEF TimesInv
  <2>5. SeenInv'
    BY <1>1, <1>2, <1>3, <2>3 DEF SeenInv, Noticed
  <2> QED BY <2>4, <2>5
<1> QED BY <1>9, <1>10, <1>11, <1>12, <1>13 DEF ScanStep

LEMMA SnapshotForget ==
    ASSUME ForgetInv, NEW s \in Scanners, Snapshot(s), Busy' <=> Busy
    PROVE  TimesInv' /\ SeenInv'
<1> USE DEF disks, flags, buffer
<1>1. UNCHANGED <<disk, writes, base, fileStale, track, msgs, out, entry, next>>
  BY DEF Snapshot
<1>2. \A q \in Scanners : copy'[q] = copy[q] \/ copy'[q] = entry
  BY DEF Snapshot, ForgetInv, WatchInv, WatchTypeOK
<1>3. Coming => Coming'
  BY <1>1 DEF Snapshot, Goto, Coming, ForgetInv, WatchInv, WatchTypeOK
<1>4. Seen(entry)' => Seen(entry)
  BY <1>1 DEF Seen
<1>5. \A q \in Scanners : Seen(copy[q])' => Seen(copy[q]) \/ Seen(entry)
  BY <1>1, <1>2 DEF Seen
<1>6. TimesInv'
  BY <1>1, <1>2 DEF ForgetInv, TimesInv
<1>7. SeenInv'
  BY <1>1, <1>3, <1>4, <1>5, NoticedStays DEF ForgetInv, SeenInv
<1> QED BY <1>6, <1>7

(* A step of the UI that touches neither entry nor scans. *)
LEMMA UiForget ==
    ASSUME ForgetInv, UNCHANGED <<disk, writes, entry, at, copy, next>>,
           track'.mod <= writes, Busy' => track'.hash = base',
           Noticed => Noticed', entry.missing => Coming' \/ fileStale' \/ Busy'
    PROVE  TimesInv' /\ SeenInv'
<1>1. Seen(entry)' => Seen(entry)
  BY DEF Seen
<1>2. \A s \in Scanners : Seen(copy[s])' => Seen(copy[s])
  BY DEF Seen
<1>3. TimesInv'
  BY DEF ForgetInv, TimesInv
<1>4. SeenInv'
  BY <1>1, <1>2 DEF ForgetInv, SeenInv
<1> QED BY <1>3, <1>4

(* applyDiskContent and a save put into the buffer what is on the disk. *)
LEMMA ApplyForget ==
    ASSUME ForgetInv, ApplyDiskContent, UNCHANGED <<disk, writes, entry, at, copy, next>>
    PROVE  TimesInv' /\ SeenInv'
<1>1. Busy' /\ track'.hash = base' /\ Noticed' /\ track'.mod = -1
  BY DEF ApplyDiskContent, Busy, Noticed, Fingerprint, NoTime
<1>2. track'.mod <= writes
  BY <1>1, TimesTyped DEF ForgetInv
<1> QED BY <1>1, <1>2, UiForget

LEMMA WatchFileForget ==
    ASSUME ForgetInv, WatchFile
    PROVE  TimesInv' /\ SeenInv'
<1>1. /\ UNCHANGED <<disk, writes, at, copy, next, out, msgs, base>>
      /\ entry' = [fp |-> track, missing |-> FALSE] /\ track' = NoScan.fp
      /\ Busy /\ ~Busy'
  BY DEF WatchFile, Busy, disks, scan, buffer
<1>2. track'.mod <= writes
  BY <1>1, TimesTyped DEF ForgetInv
<1>3. Seen(entry)' => base = disk.data
  BY <1>1 DEF Seen, Fingerprint, ForgetInv, SeenInv
<1>4. Noticed => Noticed'
  BY <1>1 DEF Noticed, Coming
<1>5. \A s \in Scanners : Seen(copy[s])' => Seen(copy[s])
  BY <1>1 DEF Seen
<1>6. TimesInv'
  BY <1>1, <1>2 DEF ForgetInv, TimesInv
<1>7. SeenInv'
  BY <1>1, <1>3, <1>4, <1>5 DEF ForgetInv, SeenInv, Noticed
<1> QED BY <1>6, <1>7

LEMMA SaveForget ==
    ASSUME ForgetInv, NEW c \in Contents, SaveFile(c)
    PROVE  TimesInv' /\ SeenInv'
<1>1. Put(c) /\ UNCHANGED <<entry, at, copy, next>> /\ WatchInv /\ TimesInv
  BY DEF SaveFile, scan, ForgetInv
<1>2. /\ writes' = writes + 1 /\ writes \in Int
      /\ ~Seen(entry)' /\ \A s \in Scanners : ~Seen(copy[s])'
  BY <1>1, NewWrite
<1>3. Busy' /\ track'.hash = base' /\ track'.mod = -1
  BY DEF SaveFile, Busy, Fingerprint, NoTime
<1>4. TimesInv'
  BY <1>1, <1>2, <1>3, TimesTyped DEF TimesInv
<1>5. SeenInv'
  BY <1>2, <1>3 DEF SeenInv
<1> QED BY <1>4, <1>5

(* Steps of the UI that change no more than the modal or where it is. *)
LEMMA KeyForget ==
    ASSUME ForgetInv, Edit \/ CloseFileChangeModal \/ ScanReturns \/ TrackStat
    PROVE  TimesInv' /\ SeenInv'
<1> USE DEF disks, flags, buffer, scan
<1>1. UNCHANGED <<disk, writes, entry, at, copy, next, out, msgs, base, fileStale>>
  BY DEF Edit, CloseFileChangeModal, ScanReturns, TrackStat
<1>2. Busy' <=> Busy
  BY DEF Edit, CloseFileChangeModal, ScanReturns, TrackStat, Busy
<1>3. Coming => Coming'
  BY <1>1 DEF Coming
<1>4. track'.mod <= writes /\ track'.hash = track.hash
  <2>1. CASE TrackStat
    <3>1. track \in Fingerprints
      BY DEF ForgetInv, WatchInv, WatchTypeOK
    <3>2. /\ track'.mod = -1 \/ track'.mod = disk.mod
          /\ track'.hash = track.hash
      BY <2>1, <3>1 DEF TrackStat, Fingerprints, NoTime
    <3> QED BY <3>2, TimesTyped DEF ForgetInv
  <2>2. CASE track' = track
    BY <2>2 DEF ForgetInv, TimesInv
  <2> QED BY <2>1, <2>2 DEF Edit, CloseFileChangeModal, ScanReturns
<1>5. Noticed => Noticed'
  BY <1>1, <1>2, <1>3, NoticedStays
<1>6. Busy' => track'.hash = base'
  BY <1>1, <1>2, <1>4 DEF ForgetInv, SeenInv
<1>7. entry.missing => Coming' \/ fileStale' \/ Busy'
  BY <1>1, <1>2, <1>3 DEF ForgetInv, SeenInv
<1> QED BY <1>1, <1>4, <1>5, <1>6, <1>7, UiForget

LEMMA HandleForget ==
    ASSUME ForgetInv, HandleFileChange
    PROVE  TimesInv' /\ SeenInv'
<1>1. UNCHANGED <<disk, writes, entry, at, copy, next>> /\ ~Busy
  BY DEF HandleFileChange, disks, scan, Busy
<1>2. CASE ApplyDiskContent
  BY <1>1, <1>2, ApplyForget
<1>3. CASE fileStale' = TRUE /\ UNCHANGED <<buffer, ui, track>>
  <2>1. ~Busy' /\ Noticed'
    BY <1>1, <1>3 DEF Busy, Noticed
  <2>2. track'.mod <= writes
    BY <1>3 DEF ForgetInv, TimesInv
  <2> QED BY <1>1, <1>3, <2>1, <2>2, UiForget
<1> QED BY <1>2, <1>3 DEF HandleFileChange, ShowFileChangeWarning

LEMMA ReloadForget ==
    ASSUME ForgetInv, ReloadFileFromDisk
    PROVE  TimesInv' /\ SeenInv'
<1>1. UNCHANGED <<disk, writes, entry, at, copy, next, out, msgs>>
  BY DEF ReloadFileFromDisk, disks, scan
<1>2. CASE ApplyDiskContent
  BY <1>1, <1>2, ApplyForget
<1>3. CASE UNCHANGED <<buffer, ui, track, fileStale>>
  <2>1. (Busy' <=> Busy) /\ (Coming => Coming') /\ base' = base
    BY <1>1, <1>3 DEF Busy, Coming, buffer
  <2>2. Noticed => Noticed'
    BY <1>1, <1>3, <2>1, NoticedStays
  <2> QED BY <1>1, <1>3, <2>1, <2>2, UiForget DEF ForgetInv, TimesInv, SeenInv
<1> QED BY <1>2, <1>3 DEF ReloadFileFromDisk

LEMMA PumpForget ==
    ASSUME ForgetInv, Pump
    PROVE  TimesInv' /\ SeenInv'
<1>1. UNCHANGED <<disk, writes, entry, at, copy, next, base, fileStale, ui, track>>
  BY DEF Pump, disks, scan, buffer, flags
<1>2. msgs' # <<>>
  BY DEF Pump, ForgetInv, WatchInv, WatchTypeOK
<1>3. Coming' /\ Noticed'
  BY <1>2 DEF Coming, Noticed
<1>4. Busy' <=> Busy
  BY <1>1 DEF Busy
<1> QED BY <1>1, <1>3, <1>4, UiForget DEF ForgetInv, TimesInv, SeenInv

LEMMA ForgetStep ==
    ASSUME ForgetInv, [WatchNext]_watchVars
    PROVE  ForgetInv'
<1>1. WatchInv'
  BY WatchStep DEF ForgetInv
<1>2. CASE OutsideRemove
  BY <1>1, <1>2, OutsideForget DEF OutsideRemove, ForgetInv
<1>3. ASSUME NEW c \in Contents, OutsideWrite(c) PROVE ForgetInv'
  BY <1>1, <1>3, OutsideForget DEF OutsideWrite, ForgetInv
<1>4. CASE Tick
  BY <1>1, <1>4, SnapshotForget DEF Tick, Busy, Scanners, ForgetInv
<1>5. CASE ExternalEditorClosed
  BY <1>1, <1>5, SnapshotForget DEF ExternalEditorClosed, Busy, Scanners, ForgetInv
<1>6. CASE UNCHANGED watchVars
  BY <1>1, <1>6 DEF watchVars, ForgetInv, TimesInv, SeenInv, Seen, Noticed, Coming, Busy
<1>7. CASE (\E s \in Scanners : ScanStep(s)) \/ Pump \/ HandleFileChange \/ ReloadFileFromDisk
  BY <1>1, <1>7, ScanForget, PumpForget, HandleForget, ReloadForget DEF ForgetInv
<1>8. CASE UiStep \/ Edit \/ CloseFileChangeModal \/ \E c \in Contents : SaveFile(c)
  BY <1>1, <1>8, KeyForget, WatchFileForget, SaveForget DEF UiStep, ForgetInv
<1> QED BY <1>2, <1>3, <1>4, <1>5, <1>6, <1>7, <1>8 DEF WatchNext, User

(* Watcher.check, emit, Track and the UI's handlers: for any queue           *)
(* capacities, writes by other programs and interleaving of two scans with   *)
(* saves and reloads, also when emit drops events, no change is forgotten.   *)
THEOREM NoChangeForgotten == WatchSpec => []NothingForgotten
<1>1. ForgetInv => NothingForgotten
  <2> SUFFICES ASSUME ForgetInv, ui = "idle", ~Coming,
                      IF disk.data = Gone THEN entry.missing ELSE Seen(entry)
               PROVE  fileStale \/ base = disk.data
    BY DEF NothingForgotten
  <2>1. ~Busy
    BY DEF Busy
  <2>2. CASE disk.data = Gone
    BY <2>1, <2>2 DEF ForgetInv, SeenInv
  <2>3. CASE disk.data # Gone
    BY <2>1, <2>3 DEF ForgetInv, SeenInv, Noticed
  <2> QED BY <2>2, <2>3
<1> QED BY <1>1, ForgetStart, ForgetStep, PTL DEF WatchSpec
=============================================================================
