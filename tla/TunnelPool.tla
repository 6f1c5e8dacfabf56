----------------------------- MODULE TunnelPool -----------------------------
(***************************************************************************)
(* internal/tunnel Pool: SSH and Kubernetes tunnel sessions cached by key,  *)
(* opened once per key at a time, dropped when idle, dead or undialable.    *)
(*                                                                         *)
(* A step is one critical section of Pool.mu or one call made outside it    *)
(* (open, dial, Session.Close).  Time is abstracted: an entry of a key in   *)
(* Expiring may have outlived its ttl whenever purgeLocked looks at it.     *)
(* Sessions are numbered in the order they are opened; their Close is       *)
(* idempotent and every caller returns after the resources are released     *)
(* (ssh and k8s use sync.Once).                                             *)
(***************************************************************************)
EXTENDS Integers, FiniteSets

CONSTANTS Dialers,     \* goroutines that call Dial
          Keys,        \* pool keys
          Expiring,    \* the keys whose entries may outlive the ttl
          MaxSessions  \* bound on the sessions opened

ASSUME PoolAssumption == MaxSessions \in Nat /\ Keys # {} /\ Expiring \subseteq Keys

Sessions == 1..MaxSessions
None == 0
AnyKey == CHOOSE k \in Keys : TRUE
(* An inflight channel is named after who must close it: the dialer that    *)
(* claimed the key, or the session whose removal reserved it.               *)
OpenTok(d) == <<"open", d>>
CloseTok(i) == <<"close", i>>
NoTok == <<"none", None>>
Tokens == {NoTok} \cup {OpenTok(d) : d \in Dialers} \cup {CloseTok(i) : i \in Sessions}

VARIABLES
    entries,   \* p.entries: the session cached for a key, or None
    inflight,  \* p.inflight: the token of a key, or NoTok
    closed,    \* p.closed
    ses, skey, \* status and key of each session
    opened,    \* number of sessions opened so far
    pc, nxt,   \* where each Dial is, and where it goes after closeStale
    key, cur,  \* its key and the session it works with
    stale,     \* the sessions of its staleEntry list, to be closed
    held,      \* those among them for which it holds the key's token
    woken,     \* the inflight channel it waits for has been closed
    clo, cwake, cset \* Pool.Close: where it is, the keys and sessions it swapped out

pool == <<entries, inflight, closed>>
sessions == <<ses, skey, opened>>
dialer == <<pc, nxt, key, cur, stale, held>>
closer == <<clo, cwake, cset>>
vars == <<pool, sessions, dialer, woken, closer>>

PCs == {"idle", "try", "stale", "cached", "evict", "wait", "claim", "open", "store",
        "lost", "release", "dial", "drop"}
AfterStale == {"idle", "try", "cached", "wait", "claim", "open"}

Init ==
    /\ entries = [k \in Keys |-> None]
    /\ inflight = [k \in Keys |-> NoTok]
    /\ closed = FALSE
    /\ ses = [i \in Sessions |-> "unused"]
    /\ skey = [i \in Sessions |-> AnyKey]
    /\ opened = 0
    /\ pc = [d \in Dialers |-> "idle"]
    /\ nxt = [d \in Dialers |-> "idle"]
    /\ key = [d \in Dialers |-> AnyKey]
    /\ cur = [d \in Dialers |-> None]
    /\ stale = [d \in Dialers |-> {}] /\ held = [d \in Dialers |-> {}]
    /\ woken = [d \in Dialers |-> FALSE]
    /\ clo = "idle" /\ cwake = {} /\ cset = {}

-----------------------------------------------------------------------------
(* The session interface (external): it may die by itself, and a Close that *)
(* was begun ends some time later.                                          *)
SessionDies(i) ==
    /\ ses[i] = "alive"
    /\ ses' = [ses EXCEPT ![i] = "dead"]
    /\ UNCHANGED <<pool, skey, opened, dialer, woken, closer>>

CloseEnds(i) ==
    /\ ses[i] = "closing"
    /\ ses' = [ses EXCEPT ![i] = "closed"]
    /\ UNCHANGED <<pool, skey, opened, dialer, woken, closer>>

(* What a call of Close does to session i when it starts. *)
BeginClose(i) ==
    /\ ses[i] \in {"alive", "dead"}
    /\ ses' = [ses EXCEPT ![i] = "closing"]
    /\ UNCHANGED <<skey, opened>>

-----------------------------------------------------------------------------
(* release(key, token): a no-op unless the token is still the key's; the    *)
(* closed channel wakes everyone who waits for that key.                    *)
Release(k, t) ==
    IF inflight[k] = t
    THEN /\ inflight' = [inflight EXCEPT ![k] = NoTok]
         /\ woken' = [d \in Dialers |-> woken[d] \/ (nxt[d] = "wait" /\ key[d] = k)]
    ELSE UNCHANGED <<inflight, woken>>

(* removeLocked for every entry of a set of keys: the entry goes, and the   *)
(* key's inflight slot is reserved if it is free.                           *)
Reserve(K) ==
    [k \in Keys |-> IF k \in K /\ inflight[k] = NoTok
                    THEN CloseTok(entries[k]) ELSE inflight[k]]
RemoveLocked(K) ==
    /\ entries' = [k \in Keys |-> IF k \in K THEN None ELSE entries[k]]
    /\ inflight' = Reserve(K)
StaleOf(d, K) ==
    /\ stale' = [stale EXCEPT ![d] = {entries[k] : k \in K}]
    /\ held' = [held EXCEPT ![d] = {entries[k] : k \in {j \in K : inflight[j] = NoTok}}]

(* purgeLocked: the keys whose entry is dead, and any that outlived the ttl. *)
Purged(K) ==
    \A k \in Keys :
       /\ entries[k] = None => k \notin K
       /\ entries[k] # None /\ ses[entries[k]] # "alive" => k \in K
       /\ k \in K => ses[entries[k]] # "alive" \/ k \in Expiring

Return(d) ==
    /\ pc' = [pc EXCEPT ![d] = "idle"]
    /\ nxt' = [nxt EXCEPT ![d] = "idle"]
    /\ cur' = [cur EXCEPT ![d] = None]

(* A Dial starts. *)
Dial(d, k) ==
    /\ pc[d] = "idle"
    /\ pc' = [pc EXCEPT ![d] = "try"]
    /\ key' = [key EXCEPT ![d] = k]
    /\ UNCHANGED <<pool, sessions, nxt, cur, stale, held, woken, closer>>

(* tryCached and claim on a closed pool: ErrPoolClosed. *)
DialClosed(d) ==
    /\ pc[d] \in {"try", "claim"} /\ closed
    /\ Return(d)
    /\ UNCHANGED <<pool, sessions, key, stale, held, woken, closer>>

(* tryCached under p.mu: purge, then take the cached session, or wait for   *)
(* the key's inflight channel, or go on to open.                            *)
TryCached(d, K) ==
    /\ pc[d] = "try" /\ ~closed
    /\ Purged(K)
    /\ RemoveLocked(K)
    /\ StaleOf(d, K)
    /\ pc' = [pc EXCEPT ![d] = "stale"]
    /\ nxt' = [nxt EXCEPT ![d] = IF entries'[key[d]] # None THEN "cached"
                                 ELSE IF inflight'[key[d]] # NoTok THEN "wait"
                                 ELSE "claim"]
    /\ cur' = [cur EXCEPT ![d] = entries'[key[d]]]
    /\ woken' = [woken EXCEPT ![d] = FALSE]
    /\ UNCHANGED <<closed, sessions, key, closer>>

(* Mutant: the token is released before the session is closed. *)
CloseStaleReleaseFirst(d) ==
    /\ pc[d] = "stale"
    /\ \E i \in stale[d] :
          /\ BeginClose(i)
          /\ IF i \in held[d] THEN Release(skey[i], CloseTok(i))
             ELSE UNCHANGED <<inflight, woken>>
    /\ UNCHANGED <<entries, closed, dialer, closer>>

(* closeStale: close each removed session and then release its token. *)
CloseStaleBegin(d) ==
    /\ pc[d] = "stale"
    /\ \E i \in stale[d] : BeginClose(i)
    /\ UNCHANGED <<pool, dialer, woken, closer>>

CloseStaleRelease(d) ==
    /\ pc[d] = "stale"
    /\ \E i \in stale[d] :
          /\ ses[i] = "closed"
          /\ stale' = [stale EXCEPT ![d] = @ \ {i}]
          /\ held' = [held EXCEPT ![d] = @ \ {i}]
          /\ IF i \in held[d] THEN Release(skey[i], CloseTok(i))
             ELSE UNCHANGED <<inflight, woken>>
    /\ UNCHANGED <<entries, closed, sessions, pc, nxt, key, cur, closer>>

CloseStaleDone(d) ==
    /\ pc[d] = "stale" /\ stale[d] = {}
    /\ pc' = [pc EXCEPT ![d] = nxt[d]]
    /\ nxt' = [nxt EXCEPT ![d] = IF @ = "wait" THEN @ ELSE "idle"]
    /\ UNCHANGED <<pool, sessions, key, cur, stale, held, woken, closer>>

(* The cached session is dialled if it is alive, and evicted otherwise. *)
DialCached(d) ==
    /\ pc[d] = "cached"
    /\ \/ ses[cur[d]] = "alive" /\ Return(d)
       \/ pc' = [pc EXCEPT ![d] = "evict"] /\ UNCHANGED <<nxt, cur>>
    /\ UNCHANGED <<pool, sessions, key, stale, held, woken, closer>>

(* evict, and the end of openNew after a failed dial: remove the entry if   *)
(* it is still the one that failed, and close its session either way.       *)
Drop(d, then) ==
    /\ IF entries[key[d]] = cur[d]
       THEN RemoveLocked({key[d]}) /\ StaleOf(d, {key[d]})
       ELSE /\ stale' = [stale EXCEPT ![d] = {cur[d]}]
            /\ UNCHANGED <<entries, inflight, held>>
    /\ pc' = [pc EXCEPT ![d] = "stale"]
    /\ nxt' = [nxt EXCEPT ![d] = then]
    /\ cur' = [cur EXCEPT ![d] = None]
    /\ UNCHANGED <<closed, sessions, key, woken, closer>>

Evict(d) == pc[d] = "evict" /\ Drop(d, "try")

(* select on the inflight channel and the context. *)
WaitEnds(d) ==
    /\ pc[d] = "wait" /\ woken[d]
    /\ pc' = [pc EXCEPT ![d] = "try"]
    /\ nxt' = [nxt EXCEPT ![d] = "idle"]
    /\ UNCHANGED <<pool, sessions, key, cur, stale, held, woken, closer>>

WaitCancelled(d) ==
    /\ pc[d] = "wait"
    /\ Return(d)
    /\ UNCHANGED <<pool, sessions, key, stale, held, woken, closer>>

-----------------------------------------------------------------------------
(* Mutant: a claim that looks at the entries only. *)
ClaimNoInflight(d, K) ==
    /\ pc[d] = "claim" /\ ~closed
    /\ Purged(K)
    /\ StaleOf(d, K)
    /\ pc' = [pc EXCEPT ![d] = "stale"]
    /\ IF entries[key[d]] = None
       THEN /\ entries' = [k \in Keys |-> IF k \in K THEN None ELSE entries[k]]
            /\ inflight' = [Reserve(K) EXCEPT ![key[d]] = OpenTok(d)]
            /\ nxt' = [nxt EXCEPT ![d] = "open"]
       ELSE /\ RemoveLocked(K)
            /\ nxt' = [nxt EXCEPT ![d] = "try"]
    /\ UNCHANGED <<closed, sessions, key, cur, woken, closer>>

(* openNew.  claim: reserve the key, unless somebody else got there first;  *)
(* an entry the purge has just removed leaves its key reserved, too.        *)
Claim(d, K) ==
    /\ pc[d] = "claim" /\ ~closed
    /\ Purged(K)
    /\ StaleOf(d, K)
    /\ pc' = [pc EXCEPT ![d] = "stale"]
    /\ IF entries[key[d]] = None /\ inflight[key[d]] = NoTok
       THEN /\ entries' = [k \in Keys |-> IF k \in K THEN None ELSE entries[k]]
            /\ inflight' = [Reserve(K) EXCEPT ![key[d]] = OpenTok(d)]
            /\ nxt' = [nxt EXCEPT ![d] = "open"]
       ELSE /\ RemoveLocked(K)
            /\ nxt' = [nxt EXCEPT ![d] = "try"]
    /\ UNCHANGED <<closed, sessions, key, cur, woken, closer>>

OpenFails(d) ==
    /\ pc[d] = "open"
    /\ Release(key[d], OpenTok(d))
    /\ pc' = [pc EXCEPT ![d] = "idle"]
    /\ UNCHANGED <<entries, closed, sessions, nxt, key, cur, stale, held, closer>>

OpenSucceeds(d) ==
    /\ pc[d] = "open" /\ opened < MaxSessions
    /\ opened' = opened + 1
    /\ ses' = [ses EXCEPT ![opened + 1] = "alive"]
    /\ skey' = [skey EXCEPT ![opened + 1] = key[d]]
    /\ cur' = [cur EXCEPT ![d] = opened + 1]
    /\ pc' = [pc EXCEPT ![d] = "store"]
    /\ UNCHANGED <<pool, nxt, key, stale, held, woken, closer>>

(* Mutant: the session is stored without looking whether the pool closed. *)
StoreAlways(d) ==
    /\ pc[d] = "store"
    /\ entries' = [entries EXCEPT ![key[d]] = cur[d]]
    /\ pc' = [pc EXCEPT ![d] = "release"]
    /\ UNCHANGED <<inflight, closed, sessions, nxt, key, cur, stale, held, woken, closer>>

(* The new session is stored, unless the pool was closed meanwhile.  The    *)
(* code's other alternative, a live entry already under the key, needs Put, *)
(* which only tests call: StoreFindsNoEntry.                                *)
Store(d) ==
    /\ pc[d] = "store"
    /\ \/ /\ closed
          /\ pc' = [pc EXCEPT ![d] = "lost"]
          /\ UNCHANGED entries
       \/ /\ ~closed
          /\ entries' = [entries EXCEPT ![key[d]] = cur[d]]
          /\ pc' = [pc EXCEPT ![d] = "release"]
    /\ UNCHANGED <<inflight, closed, sessions, nxt, key, cur, stale, held, woken, closer>>

(* Mutant: a session that cannot be stored is not closed. *)
StoreLostLeaks(d) ==
    /\ pc[d] = "lost"
    /\ Release(key[d], OpenTok(d))
    /\ Return(d)
    /\ UNCHANGED <<entries, closed, sessions, key, stale, held, closer>>

(* Closed pool: release the token, then close the session and return. *)
StoreLost(d) ==
    /\ pc[d] = "lost"
    /\ Release(key[d], OpenTok(d))
    /\ stale' = [stale EXCEPT ![d] = {cur[d]}]
    /\ pc' = [pc EXCEPT ![d] = "stale"]
    /\ nxt' = [nxt EXCEPT ![d] = "idle"]
    /\ cur' = [cur EXCEPT ![d] = None]
    /\ UNCHANGED <<entries, closed, sessions, key, held, closer>>

ReleaseOpened(d) ==
    /\ pc[d] = "release"
    /\ Release(key[d], OpenTok(d))
    /\ pc' = [pc EXCEPT ![d] = "dial"]
    /\ UNCHANGED <<entries, closed, sessions, nxt, key, cur, stale, held, closer>>

DialNew(d) ==
    /\ pc[d] = "dial"
    /\ \/ ses[cur[d]] = "alive" /\ Return(d)
       \/ pc' = [pc EXCEPT ![d] = "drop"] /\ UNCHANGED <<nxt, cur>>
    /\ UNCHANGED <<pool, sessions, key, stale, held, woken, closer>>

DropNew(d) == pc[d] = "drop" /\ Drop(d, "idle")

-----------------------------------------------------------------------------
(* Pool.Close: swap both maps out under p.mu (once) ... *)
Close ==
    /\ clo = "idle" /\ ~closed
    /\ closed' = TRUE
    /\ clo' = "wake"
    /\ cwake' = {k \in Keys : inflight[k] # NoTok}
    /\ cset' = {entries[k] : k \in {j \in Keys : entries[j] # None}}
    /\ entries' = [k \in Keys |-> None]
    /\ inflight' = [k \in Keys |-> NoTok]
    /\ UNCHANGED <<sessions, dialer, woken>>

(* Mutant: the inflight channels are dropped and never closed. *)
CloseWakeNobody ==
    /\ clo = "wake"
    /\ clo' = "close"
    /\ UNCHANGED <<pool, sessions, dialer, woken, cwake, cset>>

(* ... close the inflight channels, which wakes the waiters of each key ... *)
CloseWake ==
    /\ clo = "wake"
    /\ \/ \E k \in cwake :
            /\ cwake' = cwake \ {k}
            /\ woken' = [d \in Dialers |-> woken[d] \/ (nxt[d] = "wait" /\ key[d] = k)]
            /\ UNCHANGED clo
       \/ /\ cwake = {}
          /\ clo' = "close"
          /\ UNCHANGED <<cwake, woken>>
    /\ UNCHANGED <<pool, sessions, dialer, cset>>

(* ... and close the sessions that were cached, one after the other. *)
CloseSession ==
    /\ clo = "close"
    /\ \E i \in cset : BeginClose(i)
    /\ UNCHANGED <<pool, dialer, woken, closer>>

CloseSessionDone ==
    /\ clo = "close"
    /\ \E i \in cset : ses[i] = "closed" /\ cset' = cset \ {i}
    /\ UNCHANGED <<pool, sessions, dialer, woken, clo, cwake>>

-----------------------------------------------------------------------------
DialStep(d) ==
    \/ DialClosed(d)
    \/ \E K \in SUBSET Keys : TryCached(d, K) \/ Claim(d, K)
    \/ CloseStaleBegin(d) \/ CloseStaleRelease(d) \/ CloseStaleDone(d)
    \/ DialCached(d) \/ Evict(d) \/ WaitEnds(d)
    \/ OpenFails(d) \/ OpenSucceeds(d) \/ Store(d) \/ StoreLost(d)
    \/ ReleaseOpened(d) \/ DialNew(d) \/ DropNew(d)

CloseStep == CloseWake \/ CloseSession \/ CloseSessionDone

Next ==
    \/ \E d \in Dialers :
          \/ \E k \in Keys : Dial(d, k)
          \/ DialStep(d)
          \/ WaitCancelled(d)
    \/ \E i \in Sessions : SessionDies(i) \/ CloseEnds(i)
    \/ Close
    \/ CloseStep

(* A call that started goes on, open, dial and Session.Close return, and a  *)
(* goroutine blocked on a mutex gets it; nobody is obliged to dial, to give *)
(* up or to close the pool.                                                 *)
Fairness ==
    /\ \A d \in Dialers : WF_vars(DialStep(d))
    /\ \A i \in Sessions : WF_vars(CloseEnds(i))
    /\ WF_vars(CloseStep)

Spec == Init /\ [][Next]_vars
FairSpec == Spec /\ Fairness

-----------------------------------------------------------------------------
(* The type invariant. *)
TypeOK ==
    /\ entries \in [Keys -> Sessions \cup {None}]
    /\ inflight \in [Keys -> Tokens]
    /\ closed \in BOOLEAN
    /\ ses \in [Sessions -> {"unused", "alive", "dead", "closing", "closed"}]
    /\ skey \in [Sessions -> Keys]
    /\ opened \in 0..MaxSessions
    /\ pc \in [Dialers -> PCs] /\ nxt \in [Dialers -> AfterStale]
    /\ key \in [Dialers -> Keys]
    /\ cur \in [Dialers -> Sessions \cup {None}]
    /\ stale \in [Dialers -> SUBSET Sessions] /\ held \in [Dialers -> SUBSET Sessions]
    /\ woken \in [Dialers -> BOOLEAN]
    /\ clo \in {"idle", "wake", "close"}
    /\ cwake \subseteq Keys /\ cset \subseteq Sessions

(* "deduplicates concurrent opens": at most one Dial is opening a session   *)
(* for a key at any time.                                                   *)
Opening(d) == pc[d] \in {"open", "store"}
SingleOpen ==
    \A d, e \in Dialers : Opening(d) /\ Opening(e) /\ key[d] = key[e] => d = e

(* The slot an opener reserved stays empty until it stores its session, so  *)
(* a store never overwrites (and so never leaks) a cached session.          *)
StoreFindsNoEntry ==
    \A d \in Dialers : pc[d] = "store" /\ ~closed => entries[key[d]] = None

(* No session is leaked: one that was opened and is not being closed is     *)
(* cached, or in the hands of a Dial that will store or close it, or of     *)
(* Pool.Close.                                                              *)
InHand(i) ==
    \/ \E k \in Keys : entries[k] = i
    \/ \E d \in Dialers : pc[d] \in {"store", "lost"} /\ cur[d] = i
    \/ \E d \in Dialers : i \in stale[d]
    \/ i \in cset
NoLeak == \A i \in Sessions : ses[i] \in {"alive", "dead"} => InHand(i)

(* A close that reserved the key's slot keeps every opener of that key out  *)
(* until the session has released its resources.                            *)
ReservedCloseExcludesOpen ==
    ~closed =>
      \A d, e \in Dialers : \A i \in Sessions :
         i \in held[d] /\ skey[i] = key[e] => ~Opening(e)

(* Every reserved slot has an owner who will release it: nobody waits on a  *)
(* channel that is never closed.                                            *)
SlotHasOwner ==
    \A k \in Keys :
       \/ inflight[k] = NoTok
       \/ \E d \in Dialers :
             /\ inflight[k] = OpenTok(d) /\ key[d] = k
             /\ \/ pc[d] \in {"open", "store", "release"}
                \/ pc[d] = "stale" /\ nxt[d] = "open"
       \/ \E d \in Dialers, i \in Sessions :
             inflight[k] = CloseTok(i) /\ skey[i] = k /\ i \in held[d]

(* What the comment on Pool says: while a session for a key is being closed *)
(* no new open for that key is under way.                                   *)
NoOpenWhileClosing ==
    \A d \in Dialers, i \in Sessions :
        ses[i] = "closing" /\ skey[i] = key[d] => pc[d] # "open"

(* A Dial that waits for someone else's open or close stops waiting. *)
WaitersWake == \A d \in Dialers : pc[d] = "wait" ~> pc[d] # "wait"

(* Once the pool is closed, every session it ever opened is closed, also    *)
(* the ones whose open was still under way.                                 *)
CloseReleasesAll ==
    closed ~> [](\A i \in Sessions : ses[i] \in {"unused", "closed"})
=============================================================================
