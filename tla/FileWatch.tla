----------------------------- MODULE FileWatch ------------------------------
(***************************************************************************)
(* internal/watcher and the UI's side of it (model_filewatch.go,           *)
(* model_files.go): the open file, which other programs write and remove   *)
(* while Resterm edits, saves and reloads it.                              *)
(*                                                                         *)
(* The watcher's goroutine scans once per tick; the UI scans too, in its   *)
(* own goroutine, when an external editor closes.  A scan works on a copy  *)
(* of the entry and takes the watcher's lock only to copy and to write     *)
(* back, so its file system calls, those of Track and the other programs'  *)
(* are steps of their own.                                                 *)
(*                                                                         *)
(* A content is a number, 0 stands for no file; every write gets a new     *)
(* modification time.  The hash stands for the size too, and contents are  *)
(* compared even when the time is the same (HashUnchanged is set).  What   *)
(* the buffer holds beyond base matters only when it is saved.             *)
(***************************************************************************)
EXTENDS Integers, Sequences

CONSTANTS Contents,  \* contents a file may have
          MaxWrites, \* bound on writes and removals, by whomever
          OutCap,    \* Options.Buffer
          ChanCap    \* capacity of m.fileWatchChan

ASSUME WatchAssumption ==
    /\ Contents \subseteq Nat \ {0} /\ Contents # {}
    /\ MaxWrites \in Nat
    /\ {OutCap, ChanCap} \subseteq Nat \ {0}

Gone == 0
Times == 0..MaxWrites
Scanners == {"ticker", "ui"}
Fingerprint(c, t) == [hash |-> c, mod |-> t]
NoTime == -1

VARIABLES
    disk,        \* the file: its content and its modification time
    writes,      \* writes and removals so far
    entry,       \* w.entries[path]: fp and missing
    at,          \* where each scanner is
    copy,        \* its copy of the entry
    next,        \* what it found
    out,         \* w.out
    msgs,        \* m.fileWatchChan
    ui, track,   \* what the UI is in the middle of, and Track's fingerprint
    base,        \* the content last read or saved, which a clean buffer holds
    dirty, fileStale, fileMissing, pendingReloadConfirm,
    modal,       \* the text of the file change modal
    lost         \* history: an event was dropped, and no Track since

disks == <<disk, writes>>
scan == <<at, copy, next>>
flags == <<fileStale, fileMissing, pendingReloadConfirm, modal>>
buffer == <<base, dirty>>
watchVars == <<disk, writes, entry, at, copy, next, out, msgs, ui, track, base, dirty,
               fileStale, fileMissing, pendingReloadConfirm, modal, lost>>

NoScan == [fp |-> Fingerprint(Gone, NoTime), missing |-> FALSE]

(* openFile has read and tracked the file. *)
WatchInit ==
    /\ \E c \in Contents :
          /\ disk = [data |-> c, mod |-> 0]
          /\ entry = [fp |-> Fingerprint(c, 0), missing |-> FALSE]
          /\ base = c
    /\ writes = 0
    /\ at = [s \in Scanners |-> "idle"]
    /\ copy = [s \in Scanners |-> NoScan]
    /\ next = [s \in Scanners |-> NoScan.fp]
    /\ out = <<>> /\ msgs = <<>>
    /\ ui = "idle" /\ track = NoScan.fp
    /\ dirty = FALSE
    /\ fileStale = FALSE /\ fileMissing = FALSE /\ pendingReloadConfirm = FALSE
    /\ modal = "none"
    /\ lost = FALSE

-----------------------------------------------------------------------------
(* The file system. *)
Put(c) ==
    /\ writes < MaxWrites
    /\ writes' = writes + 1
    /\ disk' = [data |-> c, mod |-> writes + 1]

OutsideWrite(c) ==
    /\ Put(c)
    /\ UNCHANGED <<entry, scan, out, msgs, ui, track, buffer, flags, lost>>

OutsideRemove ==
    /\ disk.data # Gone
    /\ Put(Gone)
    /\ UNCHANGED <<entry, scan, out, msgs, ui, track, buffer, flags, lost>>

-----------------------------------------------------------------------------
(* Scan. *)
Goto(s, l) == at' = [at EXCEPT ![s] = l]
ScanEnds(s) ==
    /\ Goto(s, "idle")
    /\ copy' = [copy EXCEPT ![s] = NoScan]
    /\ next' = [next EXCEPT ![s] = NoScan.fp]

(* snapshot, on a tick. *)
Snapshot(s) ==
    /\ at[s] = "idle"
    /\ Goto(s, "stat")
    /\ copy' = [copy EXCEPT ![s] = entry]
    /\ UNCHANGED <<disks, entry, next, out, msgs, track, buffer, flags, lost>>

Tick == Snapshot("ticker") /\ UNCHANGED ui

(* check: os.Stat. *)
Stat(s) ==
    /\ at[s] = "stat"
    /\ IF disk.data = Gone
       THEN IF copy[s].missing
            THEN ScanEnds(s)
            ELSE Goto(s, "mark") /\ UNCHANGED <<copy, next>>
       ELSE /\ Goto(s, "read")
            /\ next' = [next EXCEPT ![s].mod = disk.mod]
            /\ UNCHANGED copy
    /\ UNCHANGED <<disks, entry, out, msgs, ui, track, buffer, flags, lost>>

(* check: os.ReadFile; a file that went away since is missing. *)
ReadFile(s) ==
    /\ at[s] = "read"
    /\ IF disk.data = Gone
       THEN Goto(s, "mark") /\ UNCHANGED next
       ELSE Goto(s, "update") /\ next' = [next EXCEPT ![s].hash = disk.data]
    /\ UNCHANGED <<disks, entry, copy, out, msgs, ui, track, buffer, flags, lost>>

MarkMissing(s) ==
    /\ at[s] = "mark"
    /\ entry' = [entry EXCEPT !.missing = TRUE]
    /\ Goto(s, "missing")
    /\ UNCHANGED <<disks, copy, next, out, msgs, ui, track, buffer, flags, lost>>

(* Mutant: the time alone tells whether the file changed. *)
ChangedByTime(s) == copy[s].missing \/ next[s].mod # copy[s].fp.mod

Changed(s) == copy[s].missing \/ next[s] # copy[s].fp

UpdateEntry(s) ==
    /\ at[s] = "update"
    /\ entry' = [fp |-> next[s], missing |-> FALSE]
    /\ IF Changed(s) THEN Goto(s, "changed") /\ UNCHANGED <<copy, next>> ELSE ScanEnds(s)
    /\ UNCHANGED <<disks, out, msgs, ui, track, buffer, flags, lost>>

(* emit never waits: the event is dropped when the channel is full. *)
Emit(s) ==
    /\ at[s] \in {"changed", "missing"}
    /\ IF Len(out) < OutCap
       THEN out' = Append(out, at[s]) /\ UNCHANGED lost
       ELSE lost' = TRUE /\ UNCHANGED out
    /\ ScanEnds(s)
    /\ UNCHANGED <<disks, entry, msgs, ui, track, buffer, flags>>

(* startFileWatcher's goroutine; the event it holds while the channel is     *)
(* full is counted with out.                                                 *)
Pump ==
    /\ out # <<>> /\ Len(msgs) < ChanCap
    /\ out' = Tail(out)
    /\ msgs' = Append(msgs, Head(out))
    /\ UNCHANGED <<disks, entry, scan, ui, track, buffer, flags, lost>>

-----------------------------------------------------------------------------
(* The UI.  watchFile ends every save and every load: Track takes the time   *)
(* from the disk, then puts the entry under the lock, then the flags and the *)
(* modal are reset.                                                          *)
TrackStat ==
    /\ ui = "track"
    /\ track' = [track EXCEPT !.mod = IF disk.data = Gone THEN NoTime ELSE disk.mod]
    /\ ui' = "store"
    /\ UNCHANGED <<disks, entry, scan, out, msgs, buffer, flags, lost>>

WatchFile ==
    /\ ui = "store"
    /\ entry' = [fp |-> track, missing |-> FALSE]
    /\ track' = NoScan.fp
    /\ fileStale' = FALSE /\ fileMissing' = FALSE
    /\ pendingReloadConfirm' = FALSE /\ modal' = "none"
    /\ ui' = "idle"
    /\ lost' = FALSE
    /\ UNCHANGED <<disks, scan, out, msgs, buffer>>

(* applyDiskContent: the buffer is replaced and clean. *)
ApplyDiskContent ==
    /\ base' = disk.data
    /\ dirty' = FALSE
    /\ track' = Fingerprint(disk.data, NoTime)
    /\ ui' = "track"

(* A key goes to the modal while there is one. *)
Edit ==
    /\ ui = "idle" /\ modal = "none"
    /\ ~dirty /\ dirty' = TRUE
    /\ UNCHANGED <<disks, entry, scan, out, msgs, ui, track, base, flags, lost>>

SaveFile(c) ==
    /\ ui = "idle" /\ modal = "none"
    /\ ~dirty => c = base
    /\ Put(c)
    /\ base' = c
    /\ dirty' = FALSE
    /\ track' = Fingerprint(c, NoTime)
    /\ ui' = "track"
    /\ UNCHANGED <<entry, scan, out, msgs, flags, lost>>

ShowFileChangeWarning(kind, text) ==
    /\ fileStale' = TRUE
    /\ fileMissing' = (kind = "missing")
    /\ modal' = text

(* handleFileChangeEvent, autoReloadChangedFile. *)
HandleFileChange ==
    /\ ui = "idle" /\ msgs # <<>>
    /\ msgs' = Tail(msgs)
    /\ \/ /\ Head(msgs) = "changed" /\ ~dirty /\ disk.data # Gone
          /\ ApplyDiskContent
          /\ UNCHANGED flags
       \/ /\ Head(msgs) = "changed" /\ ~dirty /\ disk.data = Gone
          /\ ShowFileChangeWarning("missing", "notice")
          /\ pendingReloadConfirm' = FALSE
          /\ UNCHANGED <<buffer, ui, track>>
       \/ /\ Head(msgs) = "changed" /\ dirty
          /\ ShowFileChangeWarning("changed", "discard")
          /\ pendingReloadConfirm' = TRUE
          /\ UNCHANGED <<buffer, ui, track>>
       \/ /\ Head(msgs) = "missing"
          /\ ShowFileChangeWarning("missing", "notice")
          /\ pendingReloadConfirm' = FALSE
          /\ UNCHANGED <<buffer, ui, track>>
    /\ UNCHANGED <<disks, entry, scan, out, lost>>

(* reloadFileFromDisk, which the modal's own key handler lets through. *)
ReloadFileFromDisk ==
    /\ ui = "idle"
    /\ IF dirty /\ ~pendingReloadConfirm
       THEN /\ pendingReloadConfirm' = TRUE
            /\ modal' = "discard"
            /\ UNCHANGED <<buffer, ui, track, fileStale, fileMissing>>
       ELSE /\ disk.data # Gone
            /\ ApplyDiskContent
            /\ UNCHANGED flags
    /\ UNCHANGED <<disks, entry, scan, out, msgs, lost>>

(* Mutant: the modal goes, the confirmation stays. *)
CloseModalOnly ==
    /\ ui = "idle" /\ modal # "none"
    /\ modal' = "none"
    /\ UNCHANGED <<disks, entry, scan, out, msgs, ui, track, buffer,
                   fileStale, fileMissing, pendingReloadConfirm, lost>>

CloseFileChangeModal ==
    /\ ui = "idle" /\ modal # "none"
    /\ modal' = "none" /\ pendingReloadConfirm' = FALSE
    /\ UNCHANGED <<disks, entry, scan, out, msgs, ui, track, buffer,
                   fileStale, fileMissing, lost>>

(* handleExternalEditorMsg scans at once, whatever the ticker is doing, and   *)
(* the UI waits for the scan.                                                *)
ExternalEditorClosed ==
    /\ ui = "idle"
    /\ ui' = "scan"
    /\ Snapshot("ui")

ScanReturns ==
    /\ ui = "scan" /\ at["ui"] = "idle"
    /\ ui' = "idle"
    /\ UNCHANGED <<disks, entry, scan, out, msgs, track, buffer, flags, lost>>

-----------------------------------------------------------------------------
ScanStep(s) == Stat(s) \/ ReadFile(s) \/ MarkMissing(s) \/ UpdateEntry(s) \/ Emit(s)

UiStep == TrackStat \/ WatchFile \/ ScanReturns

User ==
    \/ Edit \/ ReloadFileFromDisk \/ CloseFileChangeModal \/ ExternalEditorClosed
    \/ \E c \in Contents : SaveFile(c)

WatchNext ==
    \/ OutsideRemove \/ \E c \in Contents : OutsideWrite(c)
    \/ Tick \/ \E s \in Scanners : ScanStep(s)
    \/ Pump \/ HandleFileChange \/ UiStep \/ User

WatchSpec == WatchInit /\ [][WatchNext]_watchVars

(* The ticker ticks and goroutines run.  The UI's loop takes messages from a  *)
(* channel in the order they were sent, so the user's keys never keep one out *)
(* for ever.  The user and the other programs need do nothing.                *)
WatchFairSpec ==
    /\ WatchSpec
    /\ WF_watchVars(Tick) /\ \A s \in Scanners : WF_watchVars(ScanStep(s))
    /\ WF_watchVars(Pump) /\ WF_watchVars(UiStep) /\ SF_watchVars(HandleFileChange)

-----------------------------------------------------------------------------
Fingerprints == [hash : Contents \cup {Gone}, mod : Times \cup {NoTime}]
Entries == [fp : Fingerprints, missing : BOOLEAN]

(* The type invariant. *)
WatchTypeOK ==
    /\ disk \in [data : Contents \cup {Gone}, mod : Times] /\ writes \in Times
    /\ entry \in Entries
    /\ at \in [Scanners -> {"idle", "stat", "read", "mark", "update", "changed", "missing"}]
    /\ copy \in [Scanners -> Entries] /\ next \in [Scanners -> Fingerprints]
    /\ out \in Seq({"changed", "missing"}) /\ Len(out) <= OutCap
    /\ msgs \in Seq({"changed", "missing"}) /\ Len(msgs) <= ChanCap
    /\ ui \in {"idle", "track", "store", "scan"} /\ track \in Fingerprints
    /\ base \in Contents
    /\ {dirty, fileStale, fileMissing, pendingReloadConfirm, lost} \subseteq BOOLEAN
    /\ modal \in {"none", "notice", "discard"}

(* Unsaved changes leave the buffer in two ways only: they are saved, or the *)
(* reload key is pressed while the warning that it discards them is on the   *)
(* screen, whatever events came in between the two presses.                  *)
EditsKept ==
    [][dirty /\ ~dirty' =>
          \/ disk'.mod # disk.mod /\ disk'.data = base'
          \/ pendingReloadConfirm /\ modal = "discard"]_watchVars

(* Once the other programs are done, Resterm holds what is on the disk or    *)
(* has told the user that it does not, however their writes, its own saves   *)
(* and reloads and two scans interleaved, and also when events were dropped: *)
(* those still queued make the UI look at the disk later.                    *)
ChangeNoticed == <>[](fileStale \/ base = disk.data)

(* What the modal and the status bar say: a file called missing is missing.  *)
MissingIsTrue == <>[](lost \/ (fileMissing => disk.data = Gone))

=============================================================================
