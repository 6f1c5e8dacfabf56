--------------------------- MODULE StreamSession ---------------------------
(***************************************************************************)
(* internal/stream: one streaming session (SSE, WebSocket or gRPC) shared  *)
(* by the goroutines that publish its events, the readers that subscribe   *)
(* to it and the goroutines that close it.                                 *)
(*                                                                         *)
(* Every critical section of Session.mu and every operation under a        *)
(* listener's own mutex is one step, so Publish and Close interleave with  *)
(* everything else exactly where the code drops a lock.  A listener is     *)
(* identified with the subscriber that owns it: nextLID only makes the map *)
(* keys distinct.  An event is its sequence number and its publisher;      *)
(* payloads, timestamps and byte counters are left out.                    *)
(***************************************************************************)
EXTENDS Integers, Sequences, FiniteSets, FiniteSetsExt

CONSTANTS Publishers,     \* goroutines that call Publish
          Closers,        \* goroutines that call Close
          Subscribers,    \* readers that call Subscribe (once each)
          BufferSize,     \* Config.BufferSize
          ListenerBuffer, \* Config.ListenerBuffer
          Policies,       \* the drop policies a session may be created with
          MaxEvents       \* bound on the number of Publish calls

DropPolicies == {"DropNewest", "DropOldest", "DropListener"}

ASSUME SessionAssumption ==
    /\ BufferSize \in Nat \ {0}
    /\ ListenerBuffer \in Nat \ {0}
    /\ MaxEvents \in Nat
    /\ Policies \subseteq DropPolicies
    /\ Policies # {}

States == {"Connecting", "Open", "Closing", "Closed", "Failed"}
NoErr == "nil"
Errs == {NoErr, "err"}
Event == [seq : 1..MaxEvents, from : Publishers]
NoEvent == [seq |-> 0, from |-> "none"]

VARIABLES
    policy,     \* cfg.DropPolicy, fixed at creation
    state, err, \* s.state, s.err
    ended,      \* stats.EndedAt is set
    done,       \* s.done is closed
    ring,       \* s.events: the items, the index of the oldest and their count
    dropped,    \* stats.Dropped
    listeners,  \* the keys of s.listeners
    ch,         \* listener.ch: what the channel buffers
    closed,     \* listener.closed, set together with close(ch)
    seqCounter, \* the global event counter
    at, evt,    \* each Publish call: where it is, its event,
    todo, cur,  \* the listeners it still has to emit to, the one whose l.mu it
                \* keeps between two channel operations,
    miss,       \* and the emits that returned false
    cat,        \* each Close call: where it is
    detached,   \* and the listeners it still has to close
    sub,        \* where each subscriber is
    snap, got,  \* Snapshot.Events handed out, events received from C
    (* History, read by properties only. *)
    log,        \* every event appended, in order
    joined, left, \* Len(log) when a listener was registered and when removed
    failed,     \* events whose emit to a listener returned false
    evicted     \* events DropOldest took back out of a channel

session == <<policy, state, err, ended, done, ring, dropped, listeners>>
listener == <<ch, closed>>
pub == <<at, evt, todo, cur, miss>>
clo == <<cat, detached>>
threads == <<seqCounter, pub, clo, sub, snap, got>>
history == <<log, joined, left, failed, evicted>>
vars == <<session, listener, threads, history>>

Items(s) == {s[i] : i \in DOMAIN s}
MinOf(a, b) == IF a < b THEN a ELSE b
LastN(s, n) == SubSeq(s, Len(s) - MinOf(n, Len(s)) + 1, Len(s))

-----------------------------------------------------------------------------
(* The ring buffer of past events (ringbuffer.go). Slots are numbered from 0. *)

Slots == 0..(BufferSize - 1)
newRingBuffer == [items |-> [i \in Slots |-> NoEvent], count |-> 0, head |-> 0]

RingAppend(r, e) ==
    IF r.count < BufferSize
    THEN [items |-> [r.items EXCEPT ![(r.head + r.count) % BufferSize] = e],
          count |-> r.count + 1,
          head  |-> r.head]
    ELSE [items |-> [r.items EXCEPT ![r.head] = e],
          count |-> r.count,
          head  |-> (r.head + 1) % BufferSize]

(* Mutant: the snapshot is read from slot 0 instead of from head. *)
RingSnapshotFromZero(r) == [i \in 1..r.count |-> r.items[i - 1]]

RingSnapshot(r) ==
    [i \in 1..r.count |-> r.items[(r.head + i - 1) % BufferSize]]

-----------------------------------------------------------------------------
Init ==
    /\ policy \in Policies
    /\ state = "Connecting" /\ err = NoErr /\ ended = FALSE /\ done = FALSE
    /\ ring = newRingBuffer
    /\ dropped = 0
    /\ listeners = {}
    /\ ch = [s \in Subscribers |-> <<>>]
    /\ closed = [s \in Subscribers |-> FALSE]
    /\ seqCounter = 0
    /\ at = [p \in Publishers |-> "idle"]
    /\ evt = [p \in Publishers |-> NoEvent]
    /\ todo = [p \in Publishers |-> {}]
    /\ cur = [p \in Publishers |-> {}]
    /\ miss = [p \in Publishers |-> 0]
    /\ cat = [c \in Closers |-> "idle"]
    /\ detached = [c \in Closers |-> {}]
    /\ sub = [s \in Subscribers |-> "new"]
    /\ snap = [s \in Subscribers |-> <<>>]
    /\ got = [s \in Subscribers |-> <<>>]
    /\ log = <<>>
    /\ joined = [s \in Subscribers |-> 0]
    /\ left = [s \in Subscribers |-> -1]
    /\ failed = [s \in Subscribers |-> {}]
    /\ evicted = [s \in Subscribers |-> {}]

(* l.mu of listener s: only emit under DropOldest keeps it over more than   *)
(* one channel operation.                                                   *)
Locked(s) == \E p \in Publishers : s \in cur[p]

-----------------------------------------------------------------------------
(* MarkOpen: every producer calls it once, before it starts the goroutines  *)
(* that publish and close.                                                  *)
MarkOpen ==
    /\ state = "Connecting" /\ ~ended
    /\ state' = "Open"
    /\ UNCHANGED <<policy, err, ended, done, ring, dropped, listeners,
                   listener, threads, history>>

(* MarkClosing: setState has no guard, so it may come at any time. *)
MarkClosing ==
    /\ state # "Closing"
    /\ state' = "Closing"
    /\ UNCHANGED <<policy, err, ended, done, ring, dropped, listeners,
                   listener, threads, history>>

(* Subscribe: snapshot and registration in one critical section; a session  *)
(* that ended hands out a channel that is already closed.                   *)
Subscribe(s) ==
    /\ sub[s] = "new"
    /\ sub' = [sub EXCEPT ![s] = "reading"]
    /\ snap' = [snap EXCEPT ![s] = RingSnapshot(ring)]
    /\ joined' = [joined EXCEPT ![s] = Len(log)]
    /\ IF ended
       THEN /\ closed' = [closed EXCEPT ![s] = TRUE]
            /\ left' = [left EXCEPT ![s] = Len(log)]
            /\ UNCHANGED listeners
       ELSE /\ listeners' = listeners \cup {s}
            /\ UNCHANGED <<closed, left>>
    /\ UNCHANGED <<policy, state, err, ended, done, ring, dropped, ch,
                   seqCounter, pub, clo, got, log, failed, evicted>>

(* A receive from Listener.C that yields an event. *)
Recv(s) ==
    /\ sub[s] = "reading"
    /\ ch[s] # <<>>
    /\ got' = [got EXCEPT ![s] = Append(@, Head(ch[s]))]
    /\ ch' = [ch EXCEPT ![s] = Tail(@)]
    /\ UNCHANGED <<session, closed, seqCounter, pub, clo, sub, snap, history>>

(* Mutant: the listener is deleted from the map and never closed. *)
CancelRemoveOnly(s) ==
    /\ sub[s] = "reading"
    /\ sub' = [sub EXCEPT ![s] = "gone"]
    /\ listeners' = listeners \ {s}
    /\ left' = IF s \in listeners THEN [left EXCEPT ![s] = Len(log)] ELSE left
    /\ UNCHANGED <<policy, state, err, ended, done, ring, dropped, listener,
                   seqCounter, pub, clo, snap, got, log, joined, failed, evicted>>

(* Listener.Cancel -> removeListener, first half: when the reader saw the   *)
(* channel closed, or earlier because it gives up.                          *)
CancelRemove(s) ==
    /\ sub[s] = "reading"
    /\ sub' = [sub EXCEPT ![s] = IF s \in listeners THEN "cancel" ELSE "gone"]
    /\ listeners' = listeners \ {s}
    /\ left' = IF s \in listeners THEN [left EXCEPT ![s] = Len(log)] ELSE left
    /\ UNCHANGED <<policy, state, err, ended, done, ring, dropped, listener,
                   seqCounter, pub, clo, snap, got, log, joined, failed, evicted>>

(* removeListener, second half: l.close() after s.mu is released. *)
CancelClose(s) ==
    /\ sub[s] = "cancel"
    /\ ~Locked(s)
    /\ sub' = [sub EXCEPT ![s] = "gone"]
    /\ closed' = [closed EXCEPT ![s] = TRUE]
    /\ UNCHANGED <<session, ch, seqCounter, pub, clo, snap, got, history>>

-----------------------------------------------------------------------------
(* Publish, up to the lock: the sequence number is drawn first. *)
PublishStart(p) ==
    /\ at[p] = "idle"
    /\ seqCounter < MaxEvents
    /\ seqCounter' = seqCounter + 1
    /\ at' = [at EXCEPT ![p] = "append"]
    /\ evt' = [evt EXCEPT ![p] = [seq |-> seqCounter + 1, from |-> p]]
    /\ UNCHANGED <<session, listener, todo, cur, miss, clo, sub, snap, got, history>>

(* Publish under s.mu: append to the ring and copy the listeners. *)
PublishAppend(p) ==
    /\ at[p] = "append"
    /\ ring' = RingAppend(ring, evt[p])
    /\ log' = Append(log, evt[p])
    /\ at' = [at EXCEPT ![p] = "emit"]
    /\ todo' = [todo EXCEPT ![p] = listeners]
    /\ UNCHANGED <<policy, state, err, ended, done, dropped, listeners, listener,
                   seqCounter, evt, cur, miss, clo, sub, snap, got, joined, left, failed, evicted>>

(* l.emit for one listener of the copied list, in map order (any order).    *)
(* It takes l.mu and looks at closed first.                                 *)
CanEmit(p, s) ==
    /\ at[p] = "emit" /\ s \in todo[p] /\ cur[p] = {}
    /\ ~Locked(s)

(* emit returns false: Publish counts the event as dropped. *)
EmitFails(p, s) ==
    /\ failed' = [failed EXCEPT ![s] = @ \cup {evt[p]}]
    /\ todo' = [todo EXCEPT ![p] = @ \ {s}]
    /\ miss' = [miss EXCEPT ![p] = @ + 1]
    /\ UNCHANGED <<session, ch, at, evt, cur, seqCounter, clo, sub, snap, got,
                   log, joined, left, evicted>>

EmitToClosed(p, s) ==
    /\ CanEmit(p, s) /\ closed[s]
    /\ EmitFails(p, s)
    /\ UNCHANGED closed

(* Mutant: a listener that was served stays on the list. *)
EmitSendAgain(p, s) ==
    /\ CanEmit(p, s) /\ ~closed[s]
    /\ Len(ch[s]) < ListenerBuffer
    /\ ch' = [ch EXCEPT ![s] = Append(@, evt[p])]
    /\ UNCHANGED <<session, closed, pub, seqCounter, clo, sub, snap, got, history>>

EmitSend(p, s) ==
    /\ CanEmit(p, s) /\ ~closed[s]
    /\ Len(ch[s]) < ListenerBuffer
    /\ ch' = [ch EXCEPT ![s] = Append(@, evt[p])]
    /\ todo' = [todo EXCEPT ![p] = @ \ {s}]
    /\ UNCHANGED <<session, closed, at, evt, cur, miss, seqCounter, clo, sub, snap,
                   got, history>>

EmitFull(p, s) ==
    /\ CanEmit(p, s) /\ ~closed[s]
    /\ Len(ch[s]) >= ListenerBuffer
    /\ policy \in {"DropNewest", "DropListener"}
    /\ EmitFails(p, s)
    /\ closed' = IF policy = "DropListener" THEN [closed EXCEPT ![s] = TRUE] ELSE closed

EmitFullDropOldest(p, s) ==
    /\ CanEmit(p, s) /\ ~closed[s]
    /\ Len(ch[s]) >= ListenerBuffer
    /\ policy = "DropOldest"
    /\ at' = [at EXCEPT ![p] = "discard"]
    /\ cur' = [cur EXCEPT ![p] = {s}]
    /\ UNCHANGED <<session, listener, evt, todo, miss, seqCounter, clo, sub, snap,
                   got, history>>

(* DropOldest, still under l.mu: take one event back out, unless the reader *)
(* has emptied the channel meanwhile ...                                    *)
EmitDiscard(p, s) ==
    /\ at[p] = "discard" /\ s \in cur[p]
    /\ at' = [at EXCEPT ![p] = "resend"]
    /\ IF ch[s] = <<>>
       THEN UNCHANGED <<ch, evicted>>
       ELSE /\ evicted' = [evicted EXCEPT ![s] = @ \cup {Head(ch[s])}]
            /\ ch' = [ch EXCEPT ![s] = Tail(@)]
    /\ UNCHANGED <<session, closed, evt, todo, cur, miss, seqCounter, clo, sub, snap,
                   got, log, joined, left, failed>>

(* ... and send again.  The send does not block and has a default branch;    *)
(* ResendHasRoom shows that branch is dead.                                 *)
EmitResend(p, s) ==
    /\ at[p] = "resend" /\ s \in cur[p]
    /\ Len(ch[s]) < ListenerBuffer
    /\ ch' = [ch EXCEPT ![s] = Append(@, evt[p])]
    /\ at' = [at EXCEPT ![p] = "emit"]
    /\ cur' = [cur EXCEPT ![p] = {}]
    /\ todo' = [todo EXCEPT ![p] = @ \ {s}]
    /\ UNCHANGED <<session, closed, evt, miss, seqCounter, clo, sub, snap, got, history>>

(* Publish, last critical section: add the failed emits to stats.Dropped. *)
PublishFinish(p) ==
    /\ at[p] = "emit" /\ todo[p] = {}
    /\ dropped' = dropped + miss[p]
    /\ at' = [at EXCEPT ![p] = "idle"]
    /\ miss' = [miss EXCEPT ![p] = 0]
    /\ evt' = [evt EXCEPT ![p] = NoEvent]
    /\ UNCHANGED <<policy, state, err, ended, done, ring, listeners, listener,
                   todo, cur, seqCounter, clo, sub, snap, got, history>>

-----------------------------------------------------------------------------
(* Close under s.mu: record the outcome unless an earlier Close did, and    *)
(* detach every listener.                                                   *)
CloseDetach(c, e) ==
    /\ cat[c] = "idle"
    /\ IF ended
       THEN UNCHANGED <<state, err, ended>>
       ELSE /\ state' = IF e = NoErr THEN "Closed" ELSE "Failed"
            /\ err' = e
            /\ ended' = TRUE
    /\ cat' = [cat EXCEPT ![c] = "drain"]
    /\ detached' = [detached EXCEPT ![c] = listeners]
    /\ listeners' = {}
    /\ left' = [s \in Subscribers |-> IF s \in listeners THEN Len(log) ELSE left[s]]
    /\ UNCHANGED <<policy, done, ring, dropped, listener, seqCounter, pub, sub,
                   snap, got, log, joined, failed, evicted>>

(* Mutant: the channel is closed without taking l.mu. *)
CloseListenerUnlocked(c, s) ==
    /\ cat[c] = "drain" /\ s \in detached[c]
    /\ closed' = [closed EXCEPT ![s] = TRUE]
    /\ detached' = [detached EXCEPT ![c] = @ \ {s}]
    /\ UNCHANGED <<session, ch, cat, seqCounter, pub, sub, snap, got, history>>

(* Close after s.mu: close the detached listeners one at a time ... *)
CloseListener(c, s) ==
    /\ cat[c] = "drain" /\ s \in detached[c]
    /\ ~Locked(s)
    /\ closed' = [closed EXCEPT ![s] = TRUE]
    /\ detached' = [detached EXCEPT ![c] = @ \ {s}]
    /\ UNCHANGED <<session, ch, cat, seqCounter, pub, sub, snap, got, history>>

(* ... then close(s.done), once. *)
CloseDone(c) ==
    /\ cat[c] = "drain" /\ detached[c] = {}
    /\ done' = TRUE
    /\ cat' = [cat EXCEPT ![c] = "end"]
    /\ UNCHANGED <<policy, state, err, ended, ring, dropped, listeners, listener,
                   detached, seqCounter, pub, sub, snap, got, history>>

-----------------------------------------------------------------------------
Emit(p, s) ==
    \/ EmitToClosed(p, s) \/ EmitSend(p, s) \/ EmitFull(p, s)
    \/ EmitFullDropOldest(p, s) \/ EmitDiscard(p, s) \/ EmitResend(p, s)

PublishStep(p) ==
    \/ PublishStart(p)
    \/ PublishAppend(p)
    \/ \E s \in Subscribers : Emit(p, s)
    \/ PublishFinish(p)

CloseStep(c) ==
    \/ \E e \in Errs : CloseDetach(c, e)
    \/ \E s \in Subscribers : CloseListener(c, s)
    \/ CloseDone(c)

Next ==
    \/ MarkOpen
    \/ MarkClosing
    \/ \E p \in Publishers : PublishStep(p)
    \/ \E c \in Closers : CloseStep(c)
    \/ \E s \in Subscribers : Subscribe(s) \/ Recv(s) \/ CancelRemove(s) \/ CancelClose(s)

Spec == Init /\ [][Next]_vars
-----------------------------------------------------------------------------
(* The type invariant. *)
TypeOK ==
    /\ policy \in DropPolicies
    /\ state \in States /\ err \in Errs /\ ended \in BOOLEAN /\ done \in BOOLEAN
    /\ ring \in [items : [Slots -> Event \cup {NoEvent}],
                  count : 0..BufferSize, head : Slots]
    /\ dropped \in Nat
    /\ listeners \subseteq Subscribers
    /\ ch \in [Subscribers -> Seq(Event)]
    /\ closed \in [Subscribers -> BOOLEAN]
    /\ seqCounter \in 0..MaxEvents
    /\ at \in [Publishers -> {"idle", "append", "emit", "discard", "resend"}]
    /\ evt \in [Publishers -> Event \cup {NoEvent}]
    /\ todo \in [Publishers -> SUBSET Subscribers]
    /\ cur \in [Publishers -> SUBSET Subscribers]
    /\ miss \in [Publishers -> Nat]
    /\ cat \in [Closers -> {"idle", "drain", "end"}]
    /\ detached \in [Closers -> SUBSET Subscribers]
    /\ sub \in [Subscribers -> {"new", "reading", "cancel", "gone"}]
    /\ snap \in [Subscribers -> Seq(Event \cup {NoEvent})]
    /\ got \in [Subscribers -> Seq(Event)]
    /\ log \in Seq(Event)
    /\ joined \in [Subscribers -> Nat]
    /\ left \in [Subscribers -> Int]
    /\ failed \in [Subscribers -> SUBSET Event]
    /\ evicted \in [Subscribers -> SUBSET Event]

Pending(s) == {evt[p] : p \in {q \in Publishers : s \in todo[q]}}
Due(s) == Items(SubSeq(log, joined[s] + 1,
                       IF left[s] = -1 THEN Len(log) ELSE left[s]))

(* Subscribe promises "the events still to come plus a snapshot of the ones  *)
(* already published": every event appended while the listener was           *)
(* registered is in exactly one place (received, in the channel, still to be *)
(* emitted, refused or evicted) and no event of the snapshot is among them.  *)
AccountedOnce ==
    \A s \in Subscribers : sub[s] # "new" =>
        /\ Due(s) = Items(got[s]) \cup Items(ch[s]) \cup Pending(s)
                      \cup failed[s] \cup evicted[s]
        /\ Cardinality(Due(s)) =
              Len(got[s]) + Len(ch[s]) + Cardinality(Pending(s))
                + Cardinality(failed[s]) + Cardinality(evicted[s])
        /\ Items(snap[s]) \cap Due(s) = {}

(* No listener is forgotten: after Close nobody is registered, and a channel *)
(* that is still open has someone about to close it (its canceller, or the   *)
(* Close call that detached it).                                             *)
NoOrphan ==
    /\ ended => listeners = {}
    /\ \A s \in Subscribers :
          sub[s] # "new" /\ ~closed[s] =>
             \/ s \in listeners
             \/ sub[s] = "cancel"
             \/ \E c \in Closers : s \in detached[c]

(* Under DropOldest the second send always finds room: emit is the only     *)
(* writer and keeps l.mu from the failed send on, so readers can only help. *)
ResendHasRoom ==
    \A p \in Publishers, s \in Subscribers :
        at[p] = "resend" /\ s \in cur[p] => Len(ch[s]) < ListenerBuffer

(* A channel is never written after close(ch), which would panic: what emit  *)
(* decided under l.mu still holds when it sends.                             *)
NoSendOnClosed ==
    [][\A s \in Subscribers : closed[s] => Len(ch'[s]) <= Len(ch[s])]_vars

(* The first Close decides the session's error and end; later and concurrent *)
(* calls of Close, MarkOpen and MarkClosing leave them alone.                *)
FirstCloseWins == [][ended => ended' /\ err' = err]_vars

(* The session implements StreamContract: with the reader's view taken as    *)
(* the snapshot followed by what it received, every step of the goroutines   *)
(* is a step of the contract or changes nothing it speaks of.  In particular *)
(* a snapshot is the tail of the log, a reader never sees an event twice or  *)
(* one publisher's events out of order, and Done follows the outcome.        *)
Contract == INSTANCE StreamContract WITH
    Readers   <- Subscribers,
    Depth     <- BufferSize,
    Outcomes  <- Errs,
    NoOutcome <- "none",
    log       <- log,
    outcome   <- IF ended THEN err ELSE "none",
    released  <- done,
    joined    <- [s \in Subscribers |-> IF sub[s] = "new" THEN -1 ELSE joined[s]],
    view      <- [s \in Subscribers |-> snap[s] \o got[s]]
ImplementsContract == Contract!CSpec
=============================================================================
