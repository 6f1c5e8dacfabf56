---------------------------- MODULE HistoryStore ----------------------------
(***************************************************************************)
(* internal/history/sqlite: the history database, shared by the Resterm    *)
(* processes of a user, with its recovery from corruption and its one-time *)
(* import of the older JSON history.  Processes are killed at any moment.  *)
(*                                                                         *)
(* A database is a number; its main file and its write-ahead log (WAL) are *)
(* found under names, history.db and history.db-wal, and the quarantine    *)
(* gives each a new name.  SQLite is external and modelled by what the     *)
(* store uses: transactions are atomic and durable once committed; they    *)
(* are in the WAL until a checkpoint; a process that has opened a database *)
(* keeps using its files whatever their names become.  The index file      *)
(* (-shm) holds no data and is left out; that a database is corrupted is a *)
(* flag, and its files still hold its entries, damaged or not.  Recoveries *)
(* happen within one second, so that the names of the copies differ by     *)
(* their number only.                                                      *)
(***************************************************************************)
EXTENDS Integers

CONSTANTS Procs,    \* processes
          Rows,     \* entries that requests append, each once
          Legacy,   \* entries of history.json
          MaxFiles, \* bound on the databases ever created
          MaxFaults \* bound on kills, failed calls and corruptions

ASSUME HistoryAssumption ==
    /\ Rows \cap Legacy = {}
    /\ MaxFiles \in Nat \ {0}
    /\ MaxFaults \in Nat

NoFile == 0
Files == 1..MaxFiles
Copies == 1..(MaxFiles + 1)
Empty == [rows |-> {}, marker |-> FALSE]

VARIABLES
    main, wal,     \* whose file has the name history.db, history.db-wal
    copy, copyWal, \* the same for the quarantined names
    files,         \* databases created so far
    base, cur,     \* what a database's main file holds, and what is committed
    bad,           \* corrupted databases
    stage,         \* where each process is
    h,             \* s.db: the database a process has open
    retry,         \* openWithRecover is at its second open
    mig,           \* MigrateJSON is still to come (main.go calls it once, after Load)
    dst,           \* the name quarantineDB has chosen
    faults,
    (* History, read by properties only. *)
    acked,         \* entries whose Append returned nil, not deleted since
    removed,       \* entries deleted from each database
    overlap        \* another process had to do with files under recovery

disk == <<main, wal, copy, copyWal>>
data == <<files, base, cur, bad>>
proc == <<stage, h, retry, mig, dst>>
ghost == <<acked, removed, overlap>>
historyVars == <<main, wal, copy, copyWal, files, base, cur, bad, stage, h, retry, mig,
                 dst, faults, acked, removed, overlap>>

HistoryInit ==
    /\ main = NoFile /\ wal = NoFile /\ files = 0
    /\ copy = [k \in Copies |-> NoFile] /\ copyWal = [k \in Copies |-> NoFile]
    /\ base = [i \in Files |-> Empty] /\ cur = [i \in Files |-> Empty] /\ bad = {}
    /\ stage = [p \in Procs |-> "down"] /\ h = [p \in Procs |-> NoFile]
    /\ retry = [p \in Procs |-> FALSE] /\ mig = [p \in Procs |-> FALSE]
    /\ dst = [p \in Procs |-> NoFile]
    /\ faults = 0
    /\ acked = {} /\ removed = [i \in Files |-> {}] /\ overlap = FALSE

Enter(p, l) == stage' = [stage EXCEPT ![p] = l]
Others(p, i) == \E q \in Procs \ {p} : h[q] = i
Recovering(p) == stage[p] \in {"pick", "movemain", "movewal"}
Company(p) == \E q \in Procs \ {p} : Recovering(q)
Fault == faults < MaxFaults /\ faults' = faults + 1

-----------------------------------------------------------------------------
(* New: the database is opened when it is first needed. *)
Start(p) ==
    /\ stage[p] = "down"
    /\ Enter(p, "closed")
    /\ mig' = [mig EXCEPT ![p] = TRUE]
    /\ UNCHANGED <<disk, data, h, retry, dst, faults, ghost>>

(* ensure -> openReadyDB: the first statement opens the file or creates it; *)
(* SQLite removes a WAL that it finds beside a file it has just created.    *)
OpenDB(p) ==
    /\ stage[p] = "closed"
    /\ Enter(p, "check")
    /\ IF main # NoFile
       THEN /\ h' = [h EXCEPT ![p] = main]
            /\ cur' = IF wal = main \/ Others(p, main) THEN cur
                      ELSE [cur EXCEPT ![main] = base[main]]
            /\ wal' = main
            /\ UNCHANGED <<main, files>>
       ELSE /\ files < MaxFiles /\ files' = files + 1
            /\ h' = [h EXCEPT ![p] = files + 1]
            /\ main' = files + 1 /\ wal' = files + 1
            /\ UNCHANGED cur
    /\ overlap' = (overlap \/ Company(p))
    /\ UNCHANGED <<copy, copyWal, base, bad, retry, mig, dst, faults, acked, removed>>

(* quick_check finds nothing. *)
CheckDB(p) == h[p] \notin bad

CheckOk(p) ==
    /\ stage[p] = "check" /\ CheckDB(p)
    /\ Enter(p, "ready")
    /\ retry' = [retry EXCEPT ![p] = FALSE]
    /\ UNCHANGED <<disk, data, h, mig, dst, faults, ghost>>

(* SQLite: the last one to close a database that still has its name writes   *)
(* the WAL back and removes it ...                                           *)
WriteBack(p) ==
    IF h[p] = main /\ ~Others(p, main)
    THEN /\ base' = [base EXCEPT ![main] = cur[main]]
         /\ wal' = IF wal = main THEN NoFile ELSE wal
    ELSE UNCHANGED <<base, wal>>

(* ... unless something is wrong with the database. *)
GiveUp(p) ==
    /\ retry' = [retry EXCEPT ![p] = FALSE]
    /\ h' = [h EXCEPT ![p] = NoFile]
    /\ WriteBack(p) \/ UNCHANGED <<base, wal>>

(* shouldRecover: the failure is corruption, and the file exists. *)
ShouldRecover(p) == main # NoFile /\ ~retry[p]

(* openWithRecover: the check reports corruption; the handle is closed, and  *)
(* the quarantine follows, once.                                             *)
CheckCorrupt(p) ==
    /\ stage[p] = "check" /\ ~CheckDB(p)
    /\ Enter(p, IF ShouldRecover(p) THEN "pick" ELSE "closed")
    /\ GiveUp(p)
    /\ overlap' = (overlap \/ Company(p))
    /\ UNCHANGED <<main, copy, copyWal, files, cur, bad, mig, dst, faults, acked, removed>>

(* Any other error of the open is returned; the next call tries again. *)
OpenFails(p) ==
    /\ stage[p] = "check" /\ Fault
    /\ Enter(p, "closed")
    /\ GiveUp(p)
    /\ UNCHANGED <<main, copy, copyWal, files, cur, bad, mig, dst, ghost>>

-----------------------------------------------------------------------------
(* Mutant: the name is not tried before it is used. *)
NextQuarantinePathFirst(p) ==
    /\ stage[p] = "pick"
    /\ dst' = [dst EXCEPT ![p] = 1]
    /\ Enter(p, "movemain")
    /\ UNCHANGED <<disk, data, h, retry, mig, faults, ghost>>

(* nextQuarantinePath: the first name that is free. *)
NextQuarantinePath(p) ==
    /\ stage[p] = "pick"
    /\ \E k \in Copies :
          /\ copy[k] = NoFile /\ \A l \in 1..(k - 1) : copy[l] # NoFile
          /\ dst' = [dst EXCEPT ![p] = k]
    /\ Enter(p, "movemain")
    /\ UNCHANGED <<disk, data, h, retry, mig, faults, ghost>>

(* quarantineDB: rename the main file, replacing what has the new name ... *)
MoveMain(p) ==
    /\ stage[p] = "movemain"
    /\ copy' = IF main = NoFile THEN copy ELSE [copy EXCEPT ![dst[p]] = main]
    /\ main' = NoFile
    /\ Enter(p, "movewal")
    /\ UNCHANGED <<wal, copyWal, data, h, retry, mig, dst, faults, ghost>>

(* ... then its WAL (and the index); openReadyDB follows a second time. *)
RenameWal(p) ==
    /\ copyWal' = IF wal = NoFile THEN copyWal ELSE [copyWal EXCEPT ![dst[p]] = wal]
    /\ wal' = NoFile

MoveWal(p) ==
    /\ stage[p] = "movewal"
    /\ RenameWal(p)
    /\ Enter(p, "closed")
    /\ retry' = [retry EXCEPT ![p] = TRUE]
    /\ dst' = [dst EXCEPT ![p] = NoFile]
    /\ UNCHANGED <<main, copy, data, h, mig, faults, ghost>>

(* The recovery ends between its renames: what only the WAL holds is not     *)
(* promised any more, and nothing is if the WAL is still being written.      *)
Cut(p) ==
    IF stage[p] = "movewal" /\ copy[dst[p]] # NoFile
    THEN LET i == copy[dst[p]]
         IN /\ acked' = acked \ (cur[i].rows \ base[i].rows)
            /\ overlap' = (overlap \/ Others(p, i))
    ELSE UNCHANGED <<acked, overlap>>

(* A rename fails, and with it the call: the database's, the WAL's, or the *)
(* index's, when the WAL has been moved.                                     *)
MoveFails(p) ==
    /\ stage[p] \in {"movemain", "movewal"} /\ Fault
    /\ Enter(p, "closed")
    /\ dst' = [dst EXCEPT ![p] = NoFile]
    /\ \/ UNCHANGED <<wal, copyWal>> /\ Cut(p)
       \/ stage[p] = "movewal" /\ RenameWal(p) /\ UNCHANGED <<acked, overlap>>
    /\ UNCHANGED <<main, copy, data, h, retry, mig, removed>>

-----------------------------------------------------------------------------
Rowset(i) == cur[i].rows

(* Mutant: completion is not recorded. *)
MigrateJSONAlways(p) ==
    /\ stage[p] = "ready" /\ mig[p]
    /\ mig' = [mig EXCEPT ![p] = FALSE]
    /\ cur' = IF cur[h[p]].marker \/ Rowset(h[p]) # {} THEN cur
              ELSE [cur EXCEPT ![h[p]].rows = Legacy]
    /\ UNCHANGED <<disk, files, base, bad, stage, h, retry, dst, faults, ghost>>

(* MigrateJSON: one transaction; entries of the database win.  Without a    *)
(* history.json nothing is done, and no marker is set.                       *)
MigrateJSON(p) ==
    /\ stage[p] = "ready" /\ mig[p]
    /\ mig' = [mig EXCEPT ![p] = FALSE]
    /\ cur' = IF cur[h[p]].marker \/ Legacy = {} THEN cur
              ELSE [cur EXCEPT ![h[p]] =
                      [rows |-> IF @.rows = {} THEN Legacy ELSE @.rows, marker |-> TRUE]]
    /\ UNCHANGED <<disk, files, base, bad, stage, h, retry, dst, faults, ghost>>

(* The import fails, because the database cannot be opened or is rolled back; *)
(* it is logged and the program goes on.                                      *)
MigrateFails(p) ==
    /\ stage[p] \in {"closed", "ready"} /\ ~retry[p] /\ mig[p] /\ Fault
    /\ mig' = [mig EXCEPT ![p] = FALSE]
    /\ UNCHANGED <<disk, data, stage, h, retry, dst, ghost>>

Append(p, r) ==
    /\ stage[p] = "ready" /\ ~mig[p]
    /\ \A i \in Files : r \notin cur[i].rows \cup base[i].rows \cup removed[i]
    /\ cur' = [cur EXCEPT ![h[p]].rows = @ \cup {r}]
    /\ acked' = acked \cup {r}
    /\ UNCHANGED <<disk, files, base, bad, proc, faults, removed, overlap>>

Delete(p, r) ==
    /\ stage[p] = "ready" /\ ~mig[p]
    /\ r \in Rowset(h[p])
    /\ cur' = [cur EXCEPT ![h[p]].rows = @ \ {r}]
    /\ removed' = [removed EXCEPT ![h[p]] = @ \cup {r}]
    /\ acked' = acked \ {r}
    /\ UNCHANGED <<disk, files, base, bad, proc, faults, overlap>>

(* Compact, or SQLite by itself. *)
Checkpoint(p) ==
    /\ stage[p] = "ready" /\ base[h[p]] # cur[h[p]]
    /\ base' = [base EXCEPT ![h[p]] = cur[h[p]]]
    /\ UNCHANGED <<disk, files, cur, bad, proc, faults, ghost>>

(* What a process knows dies with it. *)
Exit(p) ==
    /\ Enter(p, "down")
    /\ h' = [h EXCEPT ![p] = NoFile]
    /\ retry' = [retry EXCEPT ![p] = FALSE]
    /\ mig' = [mig EXCEPT ![p] = FALSE]
    /\ dst' = [dst EXCEPT ![p] = NoFile]

Close(p) ==
    /\ stage[p] = "ready"
    /\ Exit(p)
    /\ WriteBack(p)
    /\ UNCHANGED <<main, copy, copyWal, files, cur, bad, faults, ghost>>

-----------------------------------------------------------------------------
(* The process is killed; what was committed is on disk. *)
Crash(p) ==
    /\ stage[p] # "down" /\ Fault
    /\ Exit(p)
    /\ Cut(p)
    /\ UNCHANGED <<disk, data, removed>>

(* The database at history.db goes bad. *)
Corrupt ==
    /\ main # NoFile /\ main \notin bad /\ Fault
    /\ bad' = bad \cup {main}
    /\ UNCHANGED <<disk, files, base, cur, proc, ghost>>

Ensure(p) ==
    \/ OpenDB(p) \/ CheckOk(p) \/ CheckCorrupt(p) \/ OpenFails(p)
    \/ NextQuarantinePath(p) \/ MoveMain(p) \/ MoveWal(p) \/ MoveFails(p)

HistoryNext ==
    \/ \E p \in Procs :
          \/ Start(p) \/ Ensure(p) \/ Crash(p)
          \/ MigrateJSON(p) \/ MigrateFails(p) \/ Checkpoint(p) \/ Close(p)
          \/ \E r \in Rows : Append(p, r)
          \/ \E r \in Rows \cup Legacy : Delete(p, r)
    \/ Corrupt

HistorySpec == HistoryInit /\ [][HistoryNext]_historyVars
-----------------------------------------------------------------------------
Contents == [rows : SUBSET (Rows \cup Legacy), marker : BOOLEAN]

(* The type invariant. *)
HistoryTypeOK ==
    /\ {main, wal} \subseteq 0..files /\ files \in 0..MaxFiles
    /\ copy \in [Copies -> 0..MaxFiles] /\ copyWal \in [Copies -> 0..MaxFiles]
    /\ base \in [Files -> Contents] /\ cur \in [Files -> Contents] /\ bad \subseteq Files
    /\ stage \in [Procs -> {"down", "closed", "check", "ready", "pick", "movemain", "movewal"}]
    /\ h \in [Procs -> 0..MaxFiles] /\ dst \in [Procs -> {NoFile} \cup Copies]
    /\ retry \in [Procs -> BOOLEAN] /\ mig \in [Procs -> BOOLEAN]
    /\ faults \in 0..MaxFaults
    /\ acked \subseteq Rows /\ removed \in [Files -> SUBSET (Rows \cup Legacy)]
    /\ overlap \in BOOLEAN

(* The entries that can be read from what is on disk: from history.db with   *)
(* its WAL, and from each copy with the WAL that has its name.  While a      *)
(* quarantine is between its renames the WAL still has the old name.         *)
InPlace == IF main = NoFile THEN {} ELSE (IF wal = main THEN cur ELSE base)[main].rows
Moving(k) == \E p \in Procs : stage[p] = "movewal" /\ dst[p] = k
CopyWhole(k) == copyWal[k] = copy[k] \/ (wal = copy[k] /\ Moving(k))
InCopy(k) ==
    IF copy[k] = NoFile THEN {} ELSE (IF CopyWhole(k) THEN cur ELSE base)[copy[k]].rows

(* "That keeps history usable while preserving the original bytes for        *)
(* recovery": an entry whose Append succeeded is in the history or in a      *)
(* quarantined copy, through any number of kills, restarts, failed calls,    *)
(* corruptions and recoveries, also when another process goes on writing to  *)
(* the database that was moved away.  The exceptions: what only the WAL held *)
(* when a recovery was cut between its two renames, and a process that opens *)
(* the database while another one recovers it.                               *)
EntriesKept ==
    ~overlap => acked \subseteq InPlace \cup UNION {InCopy(k) : k \in Copies}

(* "Once this marker exists the legacy import is permanently done": an entry *)
(* deleted from a database, an imported one too, does not come back to it,   *)
(* however often processes are killed and started.                           *)
DeletedStaysAway ==
    ~overlap => \A i \in Files : removed[i] \cap cur[i].rows = {}

(* "numbered suffixes keep each quarantined copy instead of overwriting      *)
(* one" (store.go:535-536), two processes included: does not hold.           *)
CopiesKept == [][\A k \in Copies : copy[k] # NoFile => copy'[k] = copy[k]]_historyVars
=============================================================================
