-------------------------- MODULE TunnelPoolProofs --------------------------
(***************************************************************************)
(* Theorems about TunnelPool for any number of dialers, keys and sessions. *)
(***************************************************************************)
EXTENDS TunnelPool, TLAPS

(* A Dial that claimed its key and has not released it. *)
Claims(d) == pc[d] \in {"open", "store", "release"} \/ (pc[d] = "stale" /\ nxt[d] = "open")
(* A Dial that works with a session. *)
Works(d) ==
    \/ pc[d] \in {"cached", "evict", "store", "lost", "release", "dial", "drop"}
    \/ pc[d] = "stale" /\ nxt[d] = "cached"

(* A closed pool is empty for good. *)
ClosedEmpty == closed => \A k \in Keys : entries[k] = None /\ inflight[k] = NoTok
(* Before Pool.Close there is nothing for it to close. *)
CloserIdle == clo = "idle" => cset = {}
(* A session only has to be given up because the pool was closed. *)
LostClosed == \A d \in Dialers : pc[d] = "lost" => closed
(* A claim owns its key's slot; the slot it will fill is empty.            *)
ClaimOwnsSlot ==
    \A d \in Dialers : Claims(d) /\ ~closed =>
        /\ inflight[key[d]] = OpenTok(d)
        /\ pc[d] # "release" => entries[key[d]] = None
ClaimUnique ==
    \A d, e \in Dialers : Claims(d) /\ Claims(e) /\ key[d] = key[e] => d = e
(* Sessions are numbered in the order they were opened. *)
Numbered == \A i \in Sessions : ses[i] = "unused" <=> i > opened
EntryKnown ==
    \A k \in Keys : entries[k] # None => entries[k] <= opened /\ skey[entries[k]] = k
CurKnown ==
    \A d \in Dialers : Works(d) =>
        cur[d] \in Sessions /\ cur[d] <= opened /\ skey[cur[d]] = key[d]
StaleKnown ==
    \A d \in Dialers :
        /\ pc[d] # "stale" => stale[d] = {}
        /\ held[d] \subseteq stale[d]
        /\ \A i \in stale[d] : i <= opened
(* A session about to be stored is nowhere else. *)
StoredOnce ==
    \A d \in Dialers : pc[d] = "store" =>
        /\ \A k \in Keys : entries[k] # cur[d]
        /\ \A e \in Dialers : cur[d] \notin held[e]
        /\ \A e \in Dialers : pc[e] = "store" /\ cur[e] = cur[d] => e = d
(* A held token is the key's token, and has one holder. *)
HeldOwnsSlot ==
    \A d \in Dialers : \A i \in held[d] :
        /\ ~closed => inflight[skey[i]] = CloseTok(i)
        /\ \A k \in Keys : entries[k] # i
        /\ \A e \in Dialers : i \in held[e] => e = d
SlotOwned ==
    \A k \in Keys :
       \/ inflight[k] = NoTok
       \/ \E d \in Dialers : inflight[k] = OpenTok(d) /\ key[d] = k /\ Claims(d)
       \/ \E d \in Dialers, i \in Sessions :
             inflight[k] = CloseTok(i) /\ skey[i] = k /\ i \in held[d]

Inv ==
    /\ ClosedEmpty /\ CloserIdle /\ LostClosed /\ ClaimOwnsSlot /\ ClaimUnique
    /\ Numbered /\ EntryKnown /\ CurKnown /\ StaleKnown
    /\ StoredOnce /\ HeldOwnsSlot /\ SlotOwned

-----------------------------------------------------------------------------
(* Type correctness: tokens, session numbers and stale lists stay well formed. *)
(* CurKnown is needed where a Dial removes the entry it works with.            *)
LEMMA TypeStep ==
    ASSUME TypeOK, CurKnown, Next PROVE TypeOK'
<1> USE PoolAssumption DEF pool, sessions, dialer, closer
<1>1. ASSUME NEW d \in Dialers, NEW k \in Keys, Dial(d, k) PROVE TypeOK'
  BY <1>1 DEF Dial, TypeOK, CurKnown, Works, PCs, AfterStale, Sessions, None, Tokens, OpenTok, CloseTok
<1>2. ASSUME NEW d \in Dialers, DialClosed(d) PROVE TypeOK'
  BY <1>2 DEF DialClosed, Return, TypeOK, CurKnown, Works, PCs, AfterStale, Sessions, None, Tokens, OpenTok, CloseTok
<1>3. ASSUME NEW d \in Dialers, NEW K \in SUBSET Keys, TryCached(d, K) PROVE TypeOK'
  BY <1>3 DEF TryCached, RemoveLocked, Reserve, StaleOf, Purged, TypeOK, CurKnown, Works, PCs, AfterStale, Sessions, None, Tokens, OpenTok, CloseTok
<1>4. ASSUME NEW d \in Dialers, NEW K \in SUBSET Keys, Claim(d, K) PROVE TypeOK'
  <2>1. \A k \in K : entries[k] \in Sessions
    BY <1>4 DEF Claim, Purged, TypeOK
  <2>2. Reserve(K) \in [Keys -> Tokens]
    BY <2>1 DEF Reserve, TypeOK, Tokens, CloseTok
  <2>3. OpenTok(d) \in Tokens /\ key[d] \in Keys
    BY DEF Tokens, OpenTok, TypeOK
  <2>4. inflight' = Reserve(K) \/ inflight' = [Reserve(K) EXCEPT ![key[d]] = OpenTok(d)]
    BY <1>4 DEF Claim, RemoveLocked
  <2>5. inflight' \in [Keys -> Tokens]
    BY <2>2, <2>3, <2>4
  <2>6. /\ entries' \in [Keys -> Sessions \cup {None}]
        /\ stale' \in [Dialers -> SUBSET Sessions]
        /\ held' \in [Dialers -> SUBSET Sessions]
    BY <1>4, <2>1 DEF Claim, RemoveLocked, StaleOf, TypeOK
  <2> QED BY <1>4, <2>5, <2>6 DEF Claim, TypeOK, PCs, AfterStale
<1>5. ASSUME NEW d \in Dialers, CloseStaleBegin(d) PROVE TypeOK'
  BY <1>5 DEF CloseStaleBegin, BeginClose, TypeOK, CurKnown, Works, PCs, AfterStale, Sessions, None, Tokens, OpenTok, CloseTok
<1>6. ASSUME NEW d \in Dialers, CloseStaleRelease(d) PROVE TypeOK'
  <2>1. NoTok \in Tokens
    BY DEF Tokens
  <2> PICK i \in stale[d] :
        /\ stale' = [stale EXCEPT ![d] = @ \ {i}]
        /\ held' = [held EXCEPT ![d] = @ \ {i}]
        /\ Release(skey[i], CloseTok(i)) \/ UNCHANGED <<inflight, woken>>
    BY <1>6 DEF CloseStaleRelease
  <2>2. inflight' \in [Keys -> Tokens]
    BY <2>1 DEF Release, TypeOK
  <2>3. woken' \in [Dialers -> BOOLEAN]
    BY DEF Release, TypeOK
  <2> QED BY <1>6, <2>2, <2>3 DEF CloseStaleRelease, TypeOK
<1>7. ASSUME NEW d \in Dialers, CloseStaleDone(d) PROVE TypeOK'
  BY <1>7 DEF CloseStaleDone, TypeOK, CurKnown, Works, PCs, AfterStale, Sessions, None, Tokens, OpenTok, CloseTok
<1>8. ASSUME NEW d \in Dialers, DialCached(d) PROVE TypeOK'
  BY <1>8 DEF DialCached, Return, TypeOK, CurKnown, Works, PCs, AfterStale, Sessions, None, Tokens, OpenTok, CloseTok
<1>9. ASSUME NEW d \in Dialers, NEW then \in {"idle", "try"}, pc[d] \in {"evict", "drop"},
             Drop(d, then)
      PROVE  TypeOK'
  <2>1. CASE entries[key[d]] = cur[d]
    <3>1. entries[key[d]] \in Sessions /\ key[d] \in Keys
      BY <1>9, <2>1 DEF CurKnown, Works, TypeOK
    <3>2. Reserve({key[d]}) \in [Keys -> Tokens]
      BY <3>1 DEF Reserve, TypeOK, Tokens, CloseTok
    <3>3. \A S \in SUBSET {key[d]} : {entries[k] : k \in S} \subseteq Sessions
      BY <3>1
    <3>4. /\ stale' \in [Dialers -> SUBSET Sessions]
          /\ held' \in [Dialers -> SUBSET Sessions]
      <4>1. /\ stale' = [stale EXCEPT ![d] = {entries[k] : k \in {key[d]}}]
            /\ held' = [held EXCEPT ![d] = {entries[k] : k \in {j \in {key[d]} : inflight[j] = NoTok}}]
        BY <1>9, <2>1 DEF Drop, StaleOf
      <4>2. {j \in {key[d]} : inflight[j] = NoTok} \in SUBSET {key[d]}
        OBVIOUS
      <4> QED BY <3>3, <4>1, <4>2 DEF TypeOK
    <3>5. /\ entries' \in [Keys -> Sessions \cup {None}]
          /\ inflight' \in [Keys -> Tokens]
      BY <1>9, <2>1, <3>2 DEF Drop, RemoveLocked, TypeOK
    <3> QED BY <1>9, <3>4, <3>5 DEF Drop, TypeOK, PCs, AfterStale
  <2>2. CASE entries[key[d]] # cur[d]
    BY <1>9, <2>2 DEF Drop, TypeOK, PCs, AfterStale, CurKnown, Works
  <2> QED BY <2>1, <2>2
<1>10. ASSUME NEW d \in Dialers, WaitEnds(d) PROVE TypeOK'
  BY <1>10 DEF WaitEnds, TypeOK, CurKnown, Works, PCs, AfterStale, Sessions, None, Tokens, OpenTok, CloseTok
<1>11. ASSUME NEW d \in Dialers, WaitCancelled(d) PROVE TypeOK'
  BY <1>11 DEF WaitCancelled, Return, TypeOK, CurKnown, Works, PCs, AfterStale, Sessions, None, Tokens, OpenTok, CloseTok
<1>12. ASSUME NEW d \in Dialers, OpenFails(d) PROVE TypeOK'
  BY <1>12 DEF OpenFails, Release, TypeOK, CurKnown, Works, PCs, AfterStale, Sessions, None, Tokens, OpenTok, CloseTok
<1>13. ASSUME NEW d \in Dialers, OpenSucceeds(d) PROVE TypeOK'
  BY <1>13 DEF OpenSucceeds, TypeOK, CurKnown, Works, PCs, AfterStale, Sessions, None, Tokens, OpenTok, CloseTok
<1>14. ASSUME NEW d \in Dialers, Store(d) PROVE TypeOK'
  BY <1>14 DEF Store, TypeOK, CurKnown, Works, PCs, AfterStale, Sessions, None, Tokens, OpenTok, CloseTok
<1>15. ASSUME NEW d \in Dialers, StoreLost(d) PROVE TypeOK'
  BY <1>15 DEF StoreLost, Release, TypeOK, CurKnown, Works, PCs, AfterStale, Sessions, None, Tokens, OpenTok, CloseTok
<1>16. ASSUME NEW d \in Dialers, ReleaseOpened(d) PROVE TypeOK'
  BY <1>16 DEF ReleaseOpened, Release, TypeOK, CurKnown, Works, PCs, AfterStale, Sessions, None, Tokens, OpenTok, CloseTok
<1>17. ASSUME NEW d \in Dialers, DialNew(d) PROVE TypeOK'
  BY <1>17 DEF DialNew, Return, TypeOK, CurKnown, Works, PCs, AfterStale, Sessions, None, Tokens, OpenTok, CloseTok
<1>18. ASSUME NEW d \in Dialers, Evict(d) \/ DropNew(d) PROVE TypeOK'
  BY <1>9, <1>18 DEF Evict, DropNew
<1>19. ASSUME NEW i \in Sessions, SessionDies(i) PROVE TypeOK'
  BY <1>19 DEF SessionDies, TypeOK, CurKnown, Works, PCs, AfterStale, Sessions, None, Tokens, OpenTok, CloseTok
<1>20. ASSUME NEW i \in Sessions, CloseEnds(i) PROVE TypeOK'
  BY <1>20 DEF CloseEnds, TypeOK, CurKnown, Works, PCs, AfterStale, Sessions, None, Tokens, OpenTok, CloseTok
<1>21. CASE Close
  BY <1>21 DEF Close, TypeOK, CurKnown, Works, PCs, AfterStale, Sessions, None, Tokens, OpenTok, CloseTok
<1>22. CASE CloseWake
  BY <1>22 DEF CloseWake, TypeOK, CurKnown, Works, PCs, AfterStale, Sessions, None, Tokens, OpenTok, CloseTok
<1>23. CASE CloseSession
  BY <1>23 DEF CloseSession, BeginClose, TypeOK, CurKnown, Works, PCs, AfterStale, Sessions, None, Tokens, OpenTok, CloseTok
<1>24. CASE CloseSessionDone
  BY <1>24 DEF CloseSessionDone, TypeOK, CurKnown, Works, PCs, AfterStale, Sessions, None, Tokens, OpenTok, CloseTok
<1> QED BY <1>1, <1>2, <1>3, <1>4, <1>5, <1>6, <1>7, <1>8, <1>10, <1>11, <1>12, <1>13, <1>14, <1>15, <1>16, <1>17, <1>18, <1>19, <1>20, <1>21, <1>22, <1>23, <1>24 DEF Next, DialStep, CloseStep

-----------------------------------------------------------------------------
(* A step that moves one Dial without touching slots, entries or tokens. *)
LEMMA QuietStep ==
    ASSUME TypeOK, Inv, StaleKnown',
           UNCHANGED <<entries, inflight, closed, ses, skey, opened, held, clo, cset>>,
           \A e \in Dialers :
              /\ Claims(e)' <=> Claims(e)
              /\ Claims(e) => key'[e] = key[e] /\ (pc[e] = "release" => pc'[e] = "release")
              /\ Works(e)' => Works(e) /\ cur'[e] = cur[e] /\ key'[e] = key[e]
              /\ pc'[e] = "store" => pc[e] = "store" /\ cur'[e] = cur[e]
              /\ pc'[e] = "lost" => pc[e] = "lost"
    PROVE  Inv'
<1>1. ClaimOwnsSlot' /\ ClaimUnique'
  <2>1. \A e \in Dialers : Claims(e)' /\ pc'[e] # "release" /\ ~closed => entries[key[e]] = None
    BY DEF Inv, ClaimOwnsSlot, Claims
  <2> QED BY <2>1 DEF Inv, ClaimOwnsSlot, ClaimUnique
<1>2. CurKnown' /\ StoredOnce' /\ LostClosed'
  BY DEF Inv, CurKnown, StoredOnce, LostClosed
<1>3. SlotOwned'
  <2> SUFFICES ASSUME NEW k \in Keys PROVE SlotOwned!(k)'
    BY DEF SlotOwned
  <2> QED BY DEF Inv, SlotOwned
<1>4. ClosedEmpty' /\ CloserIdle' /\ Numbered' /\ EntryKnown' /\ HeldOwnsSlot'
  BY DEF Inv, ClosedEmpty, CloserIdle, Numbered, EntryKnown, HeldOwnsSlot
<1> QED BY <1>1, <1>2, <1>3, <1>4 DEF Inv

(* A step that removes the entries of a set of keys and reserves their free *)
(* slots, and in claim also takes the free slot of the dialer's own key.    *)
LEMMA RemoveStep ==
    ASSUME TypeOK, Inv, NEW d \in Dialers, NEW K \in SUBSET Keys, ~closed,
           \A k \in K : entries[k] # None,
           pc[d] # "stale", ~Claims(d), StaleOf(d, K),
           entries' = [k \in Keys |-> IF k \in K THEN None ELSE entries[k]],
           UNCHANGED <<skey, key, closed>>,
           pc'[d] = "stale",
           \A e \in Dialers : e # d => pc'[e] = pc[e] /\ nxt'[e] = nxt[e] /\ cur'[e] = cur[e],
           \/ inflight' = Reserve(K) /\ nxt'[d] # "open"
           \/ /\ key[d] \notin K /\ entries[key[d]] = None /\ inflight[key[d]] = NoTok
              /\ nxt'[d] = "open"
              /\ inflight' = [Reserve(K) EXCEPT ![key[d]] = OpenTok(d)]
    PROVE  ClaimOwnsSlot' /\ ClaimUnique' /\ StoredOnce' /\ HeldOwnsSlot' /\ SlotOwned'
<1>1. stale[d] = {} /\ held[d] = {} /\ key[d] \in Keys
  BY DEF Inv, StaleKnown, TypeOK
<1>2. /\ \A e \in Dialers : e # d => held'[e] = held[e]
      /\ held'[d] = {entries[k] : k \in {j \in K : inflight[j] = NoTok}}
  BY DEF StaleOf, TypeOK
<1>3. \A k \in Keys : \/ k \in K /\ inflight[k] = NoTok /\ inflight'[k] = CloseTok(entries[k])
                      \/ (k \notin K \/ inflight[k] # NoTok) /\ inflight'[k] = inflight[k]
                      \/ /\ k = key[d] /\ k \notin K /\ entries[k] = None /\ inflight[k] = NoTok
                         /\ inflight'[k] = OpenTok(d)
  <2>1. CASE inflight' = Reserve(K)
    BY <2>1 DEF Reserve
  <2>2. CASE /\ key[d] \notin K /\ entries[key[d]] = None /\ inflight[key[d]] = NoTok
             /\ inflight' = [Reserve(K) EXCEPT ![key[d]] = OpenTok(d)]
    BY <1>1, <2>2 DEF Reserve
  <2> QED BY <2>1, <2>2
<1>4. \A k \in Keys : entries'[k] = None \/ (k \notin K /\ entries'[k] = entries[k])
  OBVIOUS
<1>5. \A e \in Dialers : e # d => (Claims(e)' <=> Claims(e))
  BY DEF Claims
<1>6. \A k \in K : entries[k] \in Sessions /\ skey[entries[k]] = k
  BY DEF TypeOK, Inv, EntryKnown
<1>7. Claims(d)' => inflight'[key[d]] = OpenTok(d) /\ entries'[key[d]] = None
                      /\ inflight[key[d]] = NoTok
  <2> SUFFICES ASSUME Claims(d)' PROVE
        inflight'[key[d]] = OpenTok(d) /\ entries'[key[d]] = None /\ inflight[key[d]] = NoTok
    OBVIOUS
  <2>1. nxt'[d] = "open"
    BY DEF Claims
  <2>2. /\ key[d] \notin K /\ entries[key[d]] = None /\ inflight[key[d]] = NoTok
        /\ inflight' = [Reserve(K) EXCEPT ![key[d]] = OpenTok(d)]
    BY <2>1
  <2> QED BY <1>1, <2>2 DEF Reserve
<1>8. ClaimOwnsSlot' /\ ClaimUnique'
  <2>1. \A e \in Dialers : e # d /\ Claims(e) => inflight[key[e]] = OpenTok(e) /\ key[e] \in Keys
    BY DEF Inv, ClaimOwnsSlot, TypeOK
  <2>2. \A e \in Dialers : e # d /\ Claims(e) => inflight'[key[e]] = OpenTok(e)
    BY <1>3, <2>1 DEF OpenTok, NoTok
  <2>3. \A e \in Dialers : e # d /\ Claims(e) /\ pc'[e] # "release" => entries'[key[e]] = None
    BY <1>4, <2>1 DEF Inv, ClaimOwnsSlot
  <2>4. ClaimOwnsSlot'
    BY <1>5, <1>7, <2>2, <2>3 DEF ClaimOwnsSlot
  <2>5. ClaimUnique'
    <3> SUFFICES ASSUME NEW e \in Dialers, NEW f \in Dialers,
                        Claims(e)', Claims(f)', key[e] = key[f]
                 PROVE  e = f
      BY DEF ClaimUnique
    <3>1. inflight'[key[e]] = OpenTok(e) /\ inflight'[key[f]] = OpenTok(f)
      BY <1>5, <1>7, <2>2
    <3> QED BY <3>1 DEF OpenTok
  <2> QED BY <2>4, <2>5
<1>9. HeldOwnsSlot'
  <2> SUFFICES ASSUME NEW e \in Dialers, NEW i \in held'[e]
               PROVE  /\ inflight'[skey[i]] = CloseTok(i)
                      /\ \A k \in Keys : entries'[k] # i
                      /\ \A f \in Dialers : i \in held'[f] => f = e
    BY DEF HeldOwnsSlot
  <2>1. CASE e = d
    <3> PICK k \in K : entries[k] = i /\ inflight[k] = NoTok
      BY <1>2, <2>1
    <3>1. skey[i] = k /\ i \in Sessions /\ i # None
      BY <1>6 DEF Sessions, None
    <3>2. inflight'[k] = CloseTok(i)
      BY <1>3
    <3>3. \A j \in Keys : entries'[j] # i
      BY <1>4, <3>1 DEF Inv, EntryKnown
    <3>4. \A f \in Dialers : f # d => i \notin held'[f]
      BY <1>2 DEF Inv, HeldOwnsSlot
    <3> QED BY <2>1, <3>1, <3>2, <3>3, <3>4
  <2>2. CASE e # d
    <3>1. /\ i \in held[e] /\ inflight[skey[i]] = CloseTok(i) /\ i \in Sessions
          /\ \A k \in Keys : entries[k] # i
          /\ \A f \in Dialers : i \in held[f] => f = e
      BY <1>2, <2>2 DEF Inv, HeldOwnsSlot, TypeOK
    <3>2. skey[i] \in Keys /\ i # None
      BY <3>1 DEF TypeOK, Sessions, None
    <3>3. inflight'[skey[i]] = CloseTok(i)
      BY <1>3, <3>1, <3>2 DEF CloseTok, NoTok
    <3>4. i \notin held'[d]
      BY <1>2, <3>1
    <3> QED BY <1>2, <1>4, <2>2, <3>1, <3>2, <3>3, <3>4
  <2> QED BY <2>1, <2>2
<1>10. StoredOnce'
  <2> SUFFICES ASSUME NEW e \in Dialers, pc'[e] = "store"
               PROVE  /\ \A k \in Keys : entries'[k] # cur'[e]
                      /\ \A f \in Dialers : cur'[e] \notin held'[f]
                      /\ \A f \in Dialers : pc'[f] = "store" /\ cur'[f] = cur'[e] => f = e
    BY DEF StoredOnce
  <2>1. e # d /\ pc[e] = "store" /\ cur'[e] = cur[e] /\ cur[e] \in Sessions
    BY DEF Inv, CurKnown, Works
  <2>2. cur[e] # None
    BY <2>1 DEF Sessions, None
  <2>3. cur[e] \notin held'[d]
    BY <1>2, <2>1 DEF Inv, StoredOnce
  <2> QED BY <1>2, <1>4, <2>1, <2>2, <2>3 DEF Inv, StoredOnce
<1>11. SlotOwned'
  <2> SUFFICES ASSUME NEW k \in Keys, inflight'[k] # NoTok
               PROVE  \/ \E e \in Dialers : inflight'[k] = OpenTok(e) /\ key[e] = k /\ Claims(e)'
                      \/ \E e \in Dialers, i \in Sessions :
                            inflight'[k] = CloseTok(i) /\ skey[i] = k /\ i \in held'[e]
    BY DEF SlotOwned
  <2>1. CASE k \in K /\ inflight[k] = NoTok /\ inflight'[k] = CloseTok(entries[k])
    BY <1>2, <1>6, <2>1
  <2>2. CASE k = key[d] /\ inflight'[k] = OpenTok(d) /\ inflight[k] = NoTok
    <3>1. nxt'[d] = "open"
      <4>1. CASE inflight' = Reserve(K)
        <5>1. inflight'[k] = NoTok \/ inflight'[k] = CloseTok(entries[k])
          BY <2>2, <4>1 DEF Reserve
        <5> QED BY <2>2, <5>1 DEF OpenTok, CloseTok, NoTok
      <4> QED BY <4>1
    <3> QED BY <2>2, <3>1 DEF Claims
  <2>3. CASE inflight'[k] = inflight[k]
    <3>1. CASE \E e \in Dialers : inflight[k] = OpenTok(e) /\ key[e] = k /\ Claims(e)
      BY <1>5, <2>3, <3>1
    <3>2. CASE \E e \in Dialers, i \in Sessions :
                  inflight[k] = CloseTok(i) /\ skey[i] = k /\ i \in held[e]
      BY <1>1, <1>2, <2>3, <3>2
    <3> QED BY <2>3, <3>1, <3>2 DEF Inv, SlotOwned
  <2> QED BY <1>3, <2>1, <2>2, <2>3
<1> QED BY <1>8, <1>9, <1>10, <1>11

(* The steps of a Dial between its critical sections move it along and leave *)
(* the pool alone. *)
LEMMA QuietActions ==
    ASSUME TypeOK, Inv, NEW d \in Dialers,
           \/ \E k \in Keys : Dial(d, k)
           \/ DialClosed(d) \/ CloseStaleDone(d) \/ DialCached(d) \/ WaitEnds(d)
           \/ WaitCancelled(d) \/ DialNew(d) \/ StoreLost(d)
    PROVE  Inv'
<1>1. CASE \E k \in Keys : Dial(d, k)
  <2>1. UNCHANGED <<entries, inflight, closed, ses, skey, opened, held, clo, cset>>
    BY <1>1 DEF Dial, pool, sessions, dialer, closer
  <2>2. StaleKnown'
    BY <1>1 DEF Dial, pool, sessions, dialer, closer, Inv, StaleKnown, TypeOK
  <2>3. \A e \in Dialers :
           /\ Claims(e)' <=> Claims(e)
           /\ Claims(e) => key'[e] = key[e] /\ (pc[e] = "release" => pc'[e] = "release")
           /\ Works(e)' => Works(e) /\ cur'[e] = cur[e] /\ key'[e] = key[e]
           /\ pc'[e] = "store" => pc[e] = "store" /\ cur'[e] = cur[e]
           /\ pc'[e] = "lost" => pc[e] = "lost"
    BY <1>1 DEF Dial, pool, sessions, dialer, closer, Claims, Works, TypeOK
  <2> QED BY <2>1, <2>2, <2>3, QuietStep
<1>2. CASE DialClosed(d)
  <2>1. UNCHANGED <<entries, inflight, closed, ses, skey, opened, held, clo, cset>>
    BY <1>2 DEF DialClosed, Return, pool, sessions, dialer, closer
  <2>2. StaleKnown'
    BY <1>2 DEF DialClosed, Return, pool, sessions, dialer, closer, Inv, StaleKnown, TypeOK
  <2>3. \A e \in Dialers :
           /\ Claims(e)' <=> Claims(e)
           /\ Claims(e) => key'[e] = key[e] /\ (pc[e] = "release" => pc'[e] = "release")
           /\ Works(e)' => Works(e) /\ cur'[e] = cur[e] /\ key'[e] = key[e]
           /\ pc'[e] = "store" => pc[e] = "store" /\ cur'[e] = cur[e]
           /\ pc'[e] = "lost" => pc[e] = "lost"
    BY <1>2 DEF DialClosed, Return, pool, sessions, dialer, closer, Claims, Works, TypeOK
  <2> QED BY <2>1, <2>2, <2>3, QuietStep
<1>3. CASE CloseStaleDone(d)
  <2>1. UNCHANGED <<entries, inflight, closed, ses, skey, opened, held, clo, cset>>
    BY <1>3 DEF CloseStaleDone, AfterStale, pool, sessions, dialer, closer
  <2>2. StaleKnown'
    BY <1>3 DEF CloseStaleDone, AfterStale, pool, sessions, dialer, closer, Inv, StaleKnown, TypeOK
  <2>3. \A e \in Dialers :
           /\ Claims(e)' <=> Claims(e)
           /\ Claims(e) => key'[e] = key[e] /\ (pc[e] = "release" => pc'[e] = "release")
           /\ Works(e)' => Works(e) /\ cur'[e] = cur[e] /\ key'[e] = key[e]
           /\ pc'[e] = "store" => pc[e] = "store" /\ cur'[e] = cur[e]
           /\ pc'[e] = "lost" => pc[e] = "lost"
    BY <1>3 DEF CloseStaleDone, AfterStale, pool, sessions, dialer, closer, Claims, Works, TypeOK
  <2> QED BY <2>1, <2>2, <2>3, QuietStep
<1>4. CASE DialCached(d)
  <2>1. UNCHANGED <<entries, inflight, closed, ses, skey, opened, held, clo, cset>>
    BY <1>4 DEF DialCached, Return, pool, sessions, dialer, closer
  <2>2. StaleKnown'
    BY <1>4 DEF DialCached, Return, pool, sessions, dialer, closer, Inv, StaleKnown, TypeOK
  <2>3. \A e \in Dialers :
           /\ Claims(e)' <=> Claims(e)
           /\ Claims(e) => key'[e] = key[e] /\ (pc[e] = "release" => pc'[e] = "release")
           /\ Works(e)' => Works(e) /\ cur'[e] = cur[e] /\ key'[e] = key[e]
           /\ pc'[e] = "store" => pc[e] = "store" /\ cur'[e] = cur[e]
           /\ pc'[e] = "lost" => pc[e] = "lost"
    BY <1>4 DEF DialCached, Return, pool, sessions, dialer, closer, Claims, Works, TypeOK
  <2> QED BY <2>1, <2>2, <2>3, QuietStep
<1>5. CASE WaitEnds(d)
  <2>1. UNCHANGED <<entries, inflight, closed, ses, skey, opened, held, clo, cset>>
    BY <1>5 DEF WaitEnds, pool, sessions, dialer, closer
  <2>2. StaleKnown'
    BY <1>5 DEF WaitEnds, pool, sessions, dialer, closer, Inv, StaleKnown, TypeOK
  <2>3. \A e \in Dialers :
           /\ Claims(e)' <=> Claims(e)
           /\ Claims(e) => key'[e] = key[e] /\ (pc[e] = "release" => pc'[e] = "release")
           /\ Works(e)' => Works(e) /\ cur'[e] = cur[e] /\ key'[e] = key[e]
           /\ pc'[e] = "store" => pc[e] = "store" /\ cur'[e] = cur[e]
           /\ pc'[e] = "lost" => pc[e] = "lost"
    BY <1>5 DEF WaitEnds, pool, sessions, dialer, closer, Claims, Works, TypeOK
  <2> QED BY <2>1, <2>2, <2>3, QuietStep
<1>6. CASE WaitCancelled(d)
  <2>1. UNCHANGED <<entries, inflight, closed, ses, skey, opened, held, clo, cset>>
    BY <1>6 DEF WaitCancelled, Return, pool, sessions, dialer, closer
  <2>2. StaleKnown'
    BY <1>6 DEF WaitCancelled, Return, pool, sessions, dialer, closer, Inv, StaleKnown, TypeOK
  <2>3. \A e \in Dialers :
           /\ Claims(e)' <=> Claims(e)
           /\ Claims(e) => key'[e] = key[e] /\ (pc[e] = "release" => pc'[e] = "release")
           /\ Works(e)' => Works(e) /\ cur'[e] = cur[e] /\ key'[e] = key[e]
           /\ pc'[e] = "store" => pc[e] = "store" /\ cur'[e] = cur[e]
           /\ pc'[e] = "lost" => pc[e] = "lost"
    BY <1>6 DEF WaitCancelled, Return, pool, sessions, dialer, closer, Claims, Works, TypeOK
  <2> QED BY <2>1, <2>2, <2>3, QuietStep
<1>7. CASE DialNew(d)
  <2>1. UNCHANGED <<entries, inflight, closed, ses, skey, opened, held, clo, cset>>
    BY <1>7 DEF DialNew, Return, pool, sessions, dialer, closer
  <2>2. StaleKnown'
    BY <1>7 DEF DialNew, Return, pool, sessions, dialer, closer, Inv, StaleKnown, TypeOK
  <2>3. \A e \in Dialers :
           /\ Claims(e)' <=> Claims(e)
           /\ Claims(e) => key'[e] = key[e] /\ (pc[e] = "release" => pc'[e] = "release")
           /\ Works(e)' => Works(e) /\ cur'[e] = cur[e] /\ key'[e] = key[e]
           /\ pc'[e] = "store" => pc[e] = "store" /\ cur'[e] = cur[e]
           /\ pc'[e] = "lost" => pc[e] = "lost"
    BY <1>7 DEF DialNew, Return, pool, sessions, dialer, closer, Claims, Works, TypeOK
  <2> QED BY <2>1, <2>2, <2>3, QuietStep
<1>8. CASE StoreLost(d)
  <2>1. closed /\ key[d] \in Keys /\ cur[d] \in Sessions /\ cur[d] <= opened
    BY <1>8 DEF StoreLost, Inv, LostClosed, CurKnown, Works, TypeOK
  <2>2. inflight[key[d]] # OpenTok(d)
    BY <2>1 DEF Inv, ClosedEmpty, NoTok, OpenTok
  <2>3. UNCHANGED <<entries, inflight, closed, ses, skey, opened, held, clo, cset>>
    BY <1>8, <2>2 DEF StoreLost, Release, sessions, closer
  <2>4. StaleKnown'
    <3>1. held[d] = {}
      BY <1>8 DEF StoreLost, Inv, StaleKnown
    <3> QED BY <1>8, <2>1, <2>3, <3>1 DEF StoreLost, Inv, StaleKnown, TypeOK
  <2>5. \A e \in Dialers :
           /\ Claims(e)' <=> Claims(e)
           /\ Claims(e) => key'[e] = key[e] /\ (pc[e] = "release" => pc'[e] = "release")
           /\ Works(e)' => Works(e) /\ cur'[e] = cur[e] /\ key'[e] = key[e]
           /\ pc'[e] = "store" => pc[e] = "store" /\ cur'[e] = cur[e]
           /\ pc'[e] = "lost" => pc[e] = "lost"
    BY <1>8 DEF StoreLost, Claims, Works, TypeOK
  <2> QED BY <2>3, <2>4, <2>5, QuietStep
<1> QED BY <1>1, <1>2, <1>3, <1>4, <1>5, <1>6, <1>7, <1>8

(* The steps that remove entries: purging in tryCached and claim, and Drop. *)
LEMMA RemoveActions ==
    ASSUME TypeOK, Inv, NEW d \in Dialers,
           \/ \E K \in SUBSET Keys : TryCached(d, K) \/ Claim(d, K)
           \/ Evict(d) \/ DropNew(d)
    PROVE  Inv'
<1>1. ASSUME NEW K \in SUBSET Keys, TryCached(d, K) PROVE Inv'
  <2>1. \A k \in K : entries[k] # None
    BY <1>1 DEF TryCached, Purged
  <2>2. ClaimOwnsSlot' /\ ClaimUnique' /\ StoredOnce' /\ HeldOwnsSlot' /\ SlotOwned'
    <3>1. nxt'[d] # "open" /\ pc'[d] = "stale" /\ pc[d] # "stale" /\ ~Claims(d)
      BY <1>1 DEF TryCached, Claims, TypeOK
    <3>2. \A e \in Dialers : e # d => pc'[e] = pc[e] /\ nxt'[e] = nxt[e] /\ cur'[e] = cur[e]
      BY <1>1 DEF TryCached, TypeOK
    <3>3. /\ ~closed /\ StaleOf(d, K) /\ inflight' = Reserve(K) /\ UNCHANGED <<skey, key, closed>>
          /\ entries' = [k \in Keys |-> IF k \in K THEN None ELSE entries[k]]
      BY <1>1 DEF TryCached, RemoveLocked, sessions
    <3> QED BY <2>1, <3>1, <3>2, <3>3, RemoveStep
  <2>3. ClosedEmpty' /\ CloserIdle' /\ LostClosed' /\ Numbered'
    BY <1>1 DEF TryCached, sessions, closer, Inv, ClosedEmpty, CloserIdle, LostClosed, Numbered, TypeOK
  <2>4. EntryKnown'
    BY <1>1 DEF TryCached, RemoveLocked, sessions, Inv, EntryKnown, TypeOK
  <2>5. CurKnown'
    <3>1. entries'[key[d]] # None => /\ entries'[key[d]] \in Sessions
                                     /\ entries'[key[d]] <= opened /\ skey[entries'[key[d]]] = key[d]
      BY <1>1 DEF TryCached, RemoveLocked, Inv, EntryKnown, TypeOK
    <3> QED BY <1>1, <3>1 DEF TryCached, sessions, Inv, CurKnown, Works, TypeOK
  <2>6. StaleKnown'
    <3>1. \A k \in K : entries[k] <= opened
      BY <2>1 DEF Inv, EntryKnown
    <3> QED BY <1>1, <3>1 DEF TryCached, StaleOf, sessions, Inv, StaleKnown, TypeOK
  <2> QED BY <2>2, <2>3, <2>4, <2>5, <2>6 DEF Inv
<1>2. ASSUME NEW K \in SUBSET Keys, Claim(d, K) PROVE Inv'
  <2>1. \A k \in K : entries[k] # None
    BY <1>2 DEF Claim, Purged
  <2>0. entries' = [k \in Keys |-> IF k \in K THEN None ELSE entries[k]]
    BY <1>2 DEF Claim, RemoveLocked
  <2>2. ClaimOwnsSlot' /\ ClaimUnique' /\ StoredOnce' /\ HeldOwnsSlot' /\ SlotOwned'
    <3>1. pc'[d] = "stale" /\ pc[d] # "stale" /\ ~Claims(d)
      BY <1>2 DEF Claim, Claims, TypeOK
    <3>2. \A e \in Dialers : e # d => pc'[e] = pc[e] /\ nxt'[e] = nxt[e] /\ cur'[e] = cur[e]
      BY <1>2 DEF Claim, TypeOK
    <3>3. ~closed /\ StaleOf(d, K) /\ UNCHANGED <<skey, key, closed>>
      BY <1>2 DEF Claim, sessions
    <3>4. \/ inflight' = Reserve(K) /\ nxt'[d] # "open"
          \/ /\ key[d] \notin K /\ entries[key[d]] = None /\ inflight[key[d]] = NoTok
             /\ nxt'[d] = "open"
             /\ inflight' = [Reserve(K) EXCEPT ![key[d]] = OpenTok(d)]
      BY <1>2, <2>1 DEF Claim, RemoveLocked, TypeOK
    <3> QED BY <2>1, <2>0, <3>1, <3>2, <3>3, <3>4, RemoveStep
  <2>3. ClosedEmpty' /\ CloserIdle' /\ LostClosed' /\ Numbered'
    BY <1>2 DEF Claim, sessions, closer, Inv, ClosedEmpty, CloserIdle, LostClosed, Numbered, TypeOK
  <2>4. EntryKnown'
    BY <1>2, <2>0 DEF Claim, sessions, Inv, EntryKnown, TypeOK
  <2>5. CurKnown'
    BY <1>2 DEF Claim, sessions, Inv, CurKnown, Works, TypeOK
  <2>6. StaleKnown'
    <3>1. \A k \in K : entries[k] <= opened
      BY <2>1 DEF Inv, EntryKnown
    <3> QED BY <1>2, <3>1 DEF Claim, StaleOf, sessions, Inv, StaleKnown, TypeOK
  <2> QED BY <2>2, <2>3, <2>4, <2>5, <2>6 DEF Inv
<1>3. ASSUME NEW then \in {"idle", "try"}, pc[d] \in {"evict", "drop"}, Drop(d, then)
      PROVE  Inv'
  <2>1. cur[d] \in Sessions /\ cur[d] <= opened /\ cur[d] # None /\ key[d] \in Keys
    BY <1>3 DEF Inv, CurKnown, Works, TypeOK, Sessions, None
  <2>2. CASE entries[key[d]] = cur[d]
    <3>1. \A k \in {key[d]} : entries[k] # None
      BY <2>1, <2>2
    <3>2. ~closed
      BY <2>1, <2>2 DEF Inv, ClosedEmpty
    <3>3. ClaimOwnsSlot' /\ ClaimUnique' /\ StoredOnce' /\ HeldOwnsSlot' /\ SlotOwned'
      <4>1. pc'[d] = "stale" /\ pc[d] # "stale" /\ ~Claims(d) /\ nxt'[d] # "open"
        BY <1>3 DEF Drop, Claims, TypeOK
      <4>2. \A e \in Dialers : e # d => pc'[e] = pc[e] /\ nxt'[e] = nxt[e] /\ cur'[e] = cur[e]
        BY <1>3 DEF Drop, TypeOK
      <4>3. StaleOf(d, {key[d]}) /\ inflight' = Reserve({key[d]}) /\ UNCHANGED <<skey, key, closed>>
        BY <1>3, <2>2 DEF Drop, RemoveLocked, sessions
      <4>4. entries' = [k \in Keys |-> IF k \in {key[d]} THEN None ELSE entries[k]]
        BY <1>3, <2>2 DEF Drop, RemoveLocked
      <4>5. {key[d]} \in SUBSET Keys
        BY <2>1
      <4> QED BY <3>1, <3>2, <4>1, <4>2, <4>3, <4>4, <4>5, RemoveStep
    <3>4. ClosedEmpty' /\ CloserIdle' /\ LostClosed' /\ Numbered'
      BY <1>3, <3>2 DEF Drop, sessions, closer, Inv, ClosedEmpty, CloserIdle, LostClosed, Numbered, TypeOK
    <3>5. EntryKnown'
      BY <1>3, <2>2 DEF Drop, RemoveLocked, sessions, Inv, EntryKnown, TypeOK
    <3>6. CurKnown'
      BY <1>3 DEF Drop, sessions, Inv, CurKnown, Works, TypeOK
    <3>7. StaleKnown'
      BY <1>3, <2>1, <2>2 DEF Drop, StaleOf, sessions, Inv, StaleKnown, TypeOK
    <3> QED BY <3>3, <3>4, <3>5, <3>6, <3>7 DEF Inv
  <2>3. CASE entries[key[d]] # cur[d]
    <3>1. UNCHANGED <<entries, inflight, closed, ses, skey, opened, held, clo, cset>>
      BY <1>3, <2>3 DEF Drop, sessions, closer
    <3>2. StaleKnown'
      <4>1. held[d] = {}
        BY <1>3 DEF Inv, StaleKnown
      <4> QED BY <1>3, <2>1, <2>3, <4>1 DEF Drop, sessions, Inv, StaleKnown, TypeOK
    <3>3. \A e \in Dialers :
             /\ Claims(e)' <=> Claims(e)
             /\ Claims(e) => key'[e] = key[e] /\ (pc[e] = "release" => pc'[e] = "release")
             /\ Works(e)' => Works(e) /\ cur'[e] = cur[e] /\ key'[e] = key[e]
             /\ pc'[e] = "store" => pc[e] = "store" /\ cur'[e] = cur[e]
             /\ pc'[e] = "lost" => pc[e] = "lost"
      BY <1>3 DEF Drop, Claims, Works, TypeOK
    <3> QED BY <3>1, <3>2, <3>3, QuietStep
  <2> QED BY <2>2, <2>3
<1> QED BY <1>1, <1>2, <1>3 DEF Evict, DropNew

(* A session that dies or closes, and Pool.Close after its swap, leave the *)
(* pool and every Dial as they are. *)
LEMMA SessionActions ==
    ASSUME TypeOK, Inv,
           \/ \E i \in Sessions : SessionDies(i) \/ CloseEnds(i)
           \/ \E d \in Dialers : CloseStaleBegin(d)
           \/ CloseStep
    PROVE  Inv'
<1>1. UNCHANGED <<entries, inflight, closed, skey, opened, pc, nxt, key, cur, stale, held>>
  BY DEF SessionDies, CloseEnds, CloseStaleBegin, CloseStep, CloseWake, CloseSession,
         CloseSessionDone, BeginClose, pool, sessions, dialer, closer
<1>2. Numbered'
  <2>1. \A i \in Sessions : ses'[i] = "unused" <=> ses[i] = "unused"
    BY DEF SessionDies, CloseEnds, CloseStaleBegin, CloseStep, CloseWake, CloseSession,
           CloseSessionDone, BeginClose, sessions, TypeOK
  <2> QED BY <1>1, <2>1 DEF Inv, Numbered
<1>3. CloserIdle'
  BY DEF SessionDies, CloseEnds, CloseStaleBegin, CloseStep, CloseWake, CloseSession,
         CloseSessionDone, closer, Inv, CloserIdle
<1>4. \A e \in Dialers : (Claims(e)' <=> Claims(e)) /\ (Works(e)' <=> Works(e))
  BY <1>1 DEF Claims, Works
<1>5. ClosedEmpty' /\ LostClosed' /\ ClaimOwnsSlot' /\ ClaimUnique'
  BY <1>1, <1>4 DEF Inv, ClosedEmpty, LostClosed, ClaimOwnsSlot, ClaimUnique
<1>6. EntryKnown' /\ CurKnown' /\ StaleKnown' /\ StoredOnce' /\ HeldOwnsSlot'
  BY <1>1, <1>4 DEF Inv, EntryKnown, CurKnown, StaleKnown, StoredOnce, HeldOwnsSlot
<1>7. SlotOwned'
  BY <1>1, <1>4 DEF Inv, SlotOwned
<1> QED BY <1>2, <1>3, <1>5, <1>6, <1>7 DEF Inv

(* Pool.Close empties both maps. *)
LEMMA CloseAction ==
    ASSUME TypeOK, Inv, Close PROVE Inv'
<1>1. /\ UNCHANGED <<ses, skey, opened, pc, nxt, key, cur, stale, held>>
      /\ closed' /\ clo' = "wake"
      /\ \A k \in Keys : entries'[k] = None /\ inflight'[k] = NoTok
  BY DEF Close, sessions, dialer
<1>2. \A e \in Dialers : (Claims(e)' <=> Claims(e)) /\ (Works(e)' <=> Works(e))
  BY <1>1 DEF Claims, Works
<1>3. ClosedEmpty' /\ CloserIdle' /\ LostClosed' /\ ClaimOwnsSlot' /\ ClaimUnique'
  BY <1>1, <1>2 DEF Inv, ClosedEmpty, CloserIdle, LostClosed, ClaimOwnsSlot, ClaimUnique
<1>4. Numbered' /\ EntryKnown' /\ CurKnown' /\ StaleKnown' /\ SlotOwned'
  BY <1>1, <1>2 DEF Inv, Numbered, EntryKnown, CurKnown, StaleKnown, SlotOwned
<1>5. StoredOnce' /\ HeldOwnsSlot'
  <2>1. \A d \in Dialers : (pc[d] = "store" => cur[d] # None) /\ None \notin held[d]
    BY DEF Inv, CurKnown, Works, TypeOK, Sessions, None
  <2> QED BY <1>1, <2>1 DEF Inv, StoredOnce, HeldOwnsSlot
<1> QED BY <1>3, <1>4, <1>5 DEF Inv

(* What release does to the slots: only the slot of the token changes. *)
LEMMA ReleaseSlots ==
    ASSUME TypeOK, NEW k \in Keys, NEW t \in Tokens, Release(k, t)
    PROVE  \A j \in Keys : \/ inflight'[j] = inflight[j] /\ (j = k => inflight[j] # t \/ t = NoTok)
                           \/ j = k /\ inflight[j] = t /\ inflight'[j] = NoTok
<1>1. CASE inflight[k] = t
  BY <1>1 DEF Release, TypeOK
<1>2. CASE inflight[k] # t
  BY <1>2 DEF Release, TypeOK
<1> QED BY <1>1, <1>2

(* The end of a claim: a failed open, and release after the store. *)
LEMMA ReleaseActions ==
    ASSUME TypeOK, Inv, NEW d \in Dialers, OpenFails(d) \/ ReleaseOpened(d)
    PROVE  Inv'
<1>1. /\ UNCHANGED <<entries, closed, ses, skey, opened, nxt, key, cur, stale, held, clo, cset>>
      /\ Release(key[d], OpenTok(d)) /\ key[d] \in Keys /\ OpenTok(d) \in Tokens
      /\ pc[d] \in {"open", "release"} /\ pc'[d] \in {"idle", "dial"}
      /\ pc'[d] = "dial" => pc[d] = "release"
      /\ \A e \in Dialers : e # d => pc'[e] = pc[e]
  BY DEF OpenFails, ReleaseOpened, sessions, closer, TypeOK, Tokens
<1>2. \A j \in Keys : \/ inflight'[j] = inflight[j] /\ (j = key[d] => inflight[j] # OpenTok(d))
                      \/ j = key[d] /\ inflight[j] = OpenTok(d) /\ inflight'[j] = NoTok
  BY <1>1, ReleaseSlots DEF OpenTok, NoTok
<1>3. /\ \A e \in Dialers : e # d => (Claims(e)' <=> Claims(e)) /\ (Works(e)' <=> Works(e))
      /\ ~Claims(d)' /\ Claims(d) /\ (Works(d)' => Works(d))
  BY <1>1 DEF Claims, Works
<1>4. ClosedEmpty' /\ CloserIdle' /\ LostClosed' /\ Numbered' /\ EntryKnown' /\ CurKnown' /\ StaleKnown'
  <2>1. StaleKnown'
    BY <1>1 DEF Inv, StaleKnown
  <2>2. ClosedEmpty' /\ CloserIdle' /\ LostClosed'
    BY <1>1, <1>2 DEF Inv, ClosedEmpty, CloserIdle, LostClosed
  <2>3. Numbered' /\ EntryKnown' /\ CurKnown'
    BY <1>1, <1>3 DEF Inv, Numbered, EntryKnown, CurKnown
  <2> QED BY <2>1, <2>2, <2>3
<1>5. ClaimOwnsSlot' /\ ClaimUnique'
  <2>1. ClaimUnique'
    BY <1>1, <1>3 DEF Inv, ClaimUnique
  <2>2. \A e \in Dialers : e # d /\ Claims(e) /\ ~closed =>
            /\ key[e] \in Keys /\ inflight[key[e]] = OpenTok(e)
            /\ pc[e] # "release" => entries[key[e]] = None
    BY DEF Inv, ClaimOwnsSlot, TypeOK
  <2>3. \A e \in Dialers : e # d => OpenTok(e) # OpenTok(d)
    BY DEF OpenTok
  <2>4. \A e \in Dialers : e # d /\ Claims(e) /\ ~closed => inflight'[key[e]] = OpenTok(e)
    BY <1>2, <2>2, <2>3
  <2> QED BY <1>1, <1>3, <2>1, <2>2, <2>4 DEF ClaimOwnsSlot
<1>6. StoredOnce'
  BY <1>1 DEF Inv, StoredOnce
<1>7. HeldOwnsSlot'
  <2>1. \A i \in Sessions : CloseTok(i) # OpenTok(d)
    BY DEF CloseTok, OpenTok
  <2>2. \A e \in Dialers : \A i \in held[e] : ~closed => inflight'[skey[i]] = CloseTok(i)
    <3> SUFFICES ASSUME NEW e \in Dialers, NEW i \in held[e], ~closed
                 PROVE  inflight'[skey[i]] = CloseTok(i)
      OBVIOUS
    <3>1. i \in Sessions /\ skey[i] \in Keys /\ inflight[skey[i]] = CloseTok(i)
      BY DEF TypeOK, Inv, HeldOwnsSlot
    <3> QED BY <1>2, <2>1, <3>1
  <2> QED BY <1>1, <2>2 DEF Inv, HeldOwnsSlot
<1>8. SlotOwned'
  <2> SUFFICES ASSUME NEW k \in Keys, inflight'[k] # NoTok
               PROVE  \/ \E e \in Dialers : inflight'[k] = OpenTok(e) /\ key[e] = k /\ Claims(e)'
                      \/ \E e \in Dialers, i \in Sessions :
                            inflight'[k] = CloseTok(i) /\ skey[i] = k /\ i \in held[e]
    BY <1>1 DEF SlotOwned
  <2>1. inflight'[k] = inflight[k] /\ (k = key[d] => inflight[k] # OpenTok(d))
    BY <1>2
  <2>2. CASE \E e \in Dialers : inflight[k] = OpenTok(e) /\ key[e] = k /\ Claims(e)
    <3> PICK e \in Dialers : inflight[k] = OpenTok(e) /\ key[e] = k /\ Claims(e)
      BY <2>2
    <3> QED BY <1>3, <2>1
  <2>3. CASE \E e \in Dialers, i \in Sessions :
                inflight[k] = CloseTok(i) /\ skey[i] = k /\ i \in held[e]
    BY <2>1, <2>3
  <2> QED BY <2>1, <2>2, <2>3 DEF Inv, SlotOwned
<1> QED BY <1>4, <1>5, <1>6, <1>7, <1>8 DEF Inv

(* closeStale hands back the token of a session it has closed. *)
LEMMA CloseStaleAction ==
    ASSUME TypeOK, Inv, NEW d \in Dialers, CloseStaleRelease(d)
    PROVE  Inv'
<1>1. PICK i \in stale[d] :
        /\ stale' = [stale EXCEPT ![d] = @ \ {i}]
        /\ held' = [held EXCEPT ![d] = @ \ {i}]
        /\ IF i \in held[d] THEN Release(skey[i], CloseTok(i)) ELSE UNCHANGED <<inflight, woken>>
  BY DEF CloseStaleRelease
<1>2. /\ UNCHANGED <<entries, closed, ses, skey, opened, pc, nxt, key, cur, clo, cset>>
      /\ pc[d] = "stale"
  BY DEF CloseStaleRelease, sessions, closer
<1>3. i \in Sessions /\ skey[i] \in Keys /\ CloseTok(i) \in Tokens /\ CloseTok(i) # NoTok
  BY DEF TypeOK, Tokens, CloseTok, NoTok
<1>4. \A j \in Keys : \/ inflight'[j] = inflight[j] /\ (j = skey[i] /\ i \in held[d] => inflight[j] # CloseTok(i))
                      \/ /\ j = skey[i] /\ i \in held[d]
                         /\ inflight[j] = CloseTok(i) /\ inflight'[j] = NoTok
  <2>1. CASE i \in held[d]
    BY <1>1, <1>3, <2>1, ReleaseSlots
  <2>2. CASE i \notin held[d]
    BY <1>1, <2>2
  <2> QED BY <2>1, <2>2
<1>5. /\ stale'[d] = stale[d] \ {i} /\ held'[d] = held[d] \ {i}
      /\ \A e \in Dialers : e # d => stale'[e] = stale[e] /\ held'[e] = held[e]
  BY <1>1 DEF TypeOK
<1>6. \A e \in Dialers : (Claims(e)' <=> Claims(e)) /\ (Works(e)' <=> Works(e))
  BY <1>2 DEF Claims, Works
<1>7. ClosedEmpty' /\ CloserIdle' /\ LostClosed' /\ ClaimUnique'
  BY <1>2, <1>4, <1>6 DEF Inv, ClosedEmpty, CloserIdle, LostClosed, ClaimUnique
<1>8. Numbered' /\ EntryKnown' /\ CurKnown'
  BY <1>2, <1>6 DEF Inv, Numbered, EntryKnown, CurKnown
<1>9. StaleKnown'
  BY <1>2, <1>5 DEF Inv, StaleKnown
<1>10. StoredOnce'
  BY <1>2, <1>5 DEF Inv, StoredOnce
<1>11. ClaimOwnsSlot'
  <2>1. \A e \in Dialers : Claims(e) /\ ~closed => inflight'[key[e]] = OpenTok(e)
    <3> SUFFICES ASSUME NEW e \in Dialers, Claims(e), ~closed PROVE inflight'[key[e]] = OpenTok(e)
      OBVIOUS
    <3>1. key[e] \in Keys /\ inflight[key[e]] = OpenTok(e) /\ OpenTok(e) # CloseTok(i)
      BY DEF TypeOK, Inv, ClaimOwnsSlot, OpenTok, CloseTok
    <3> QED BY <1>4, <3>1
  <2> QED BY <1>2, <1>6, <2>1 DEF Inv, ClaimOwnsSlot
<1>12. HeldOwnsSlot'
  <2> SUFFICES ASSUME NEW e \in Dialers, NEW s \in held'[e]
               PROVE  /\ ~closed => inflight'[skey[s]] = CloseTok(s)
                      /\ \A k \in Keys : entries[k] # s
                      /\ \A f \in Dialers : s \in held'[f] => f = e
    BY <1>2 DEF HeldOwnsSlot
  <2>1. s \in held[e] /\ (e = d => s # i)
    BY <1>5
  <2>2. /\ s \in Sessions /\ skey[s] \in Keys /\ (~closed => inflight[skey[s]] = CloseTok(s))
        /\ \A k \in Keys : entries[k] # s
        /\ \A f \in Dialers : s \in held[f] => f = e
    BY <2>1 DEF Inv, HeldOwnsSlot, TypeOK
  <2>3. i \in held[d] => s # i
    BY <2>1, <2>2
  <2>4. ~closed => inflight'[skey[s]] = CloseTok(s)
    BY <1>4, <2>2, <2>3 DEF CloseTok
  <2> QED BY <1>5, <2>2, <2>4
<1>13. SlotOwned'
  <2> SUFFICES ASSUME NEW k \in Keys, inflight'[k] # NoTok
               PROVE  \/ \E e \in Dialers : inflight'[k] = OpenTok(e) /\ key[e] = k /\ Claims(e)
                      \/ \E e \in Dialers, s \in Sessions :
                            inflight'[k] = CloseTok(s) /\ skey[s] = k /\ s \in held'[e]
    BY <1>2, <1>6 DEF SlotOwned
  <2>1. inflight'[k] = inflight[k] /\ (k = skey[i] /\ i \in held[d] => inflight[k] # CloseTok(i))
    BY <1>4
  <2>2. CASE \E e \in Dialers : inflight[k] = OpenTok(e) /\ key[e] = k /\ Claims(e)
    BY <2>1, <2>2
  <2>3. CASE \E e \in Dialers, s \in Sessions :
                inflight[k] = CloseTok(s) /\ skey[s] = k /\ s \in held[e]
    <3> PICK e \in Dialers, s \in Sessions :
                inflight[k] = CloseTok(s) /\ skey[s] = k /\ s \in held[e]
      BY <2>3
    <3>1. s \in held'[e]
      BY <1>5, <2>1
    <3> QED BY <2>1, <3>1
  <2> QED BY <2>1, <2>2, <2>3 DEF Inv, SlotOwned
<1> QED BY <1>7, <1>8, <1>9, <1>10, <1>11, <1>12, <1>13 DEF Inv

(* A session is opened and numbered. *)
LEMMA OpenAction ==
    ASSUME TypeOK, Inv, NEW d \in Dialers, OpenSucceeds(d)
    PROVE  Inv'
<1> DEFINE n == opened + 1
<1>1. /\ UNCHANGED <<entries, inflight, closed, nxt, key, stale, held, clo, cset>>
      /\ pc[d] = "open" /\ pc'[d] = "store" /\ cur'[d] = n /\ opened' = n
      /\ \A e \in Dialers : e # d => pc'[e] = pc[e] /\ cur'[e] = cur[e]
      /\ \A s \in Sessions : s # n => ses'[s] = ses[s] /\ skey'[s] = skey[s]
      /\ ses'[n] = "alive" /\ skey'[n] = key[d]
      /\ n \in Sessions /\ opened \in Nat
  BY PoolAssumption DEF OpenSucceeds, pool, closer, TypeOK, Sessions
<1>2. /\ \A e \in Dialers : Claims(e)' <=> Claims(e)
      /\ \A e \in Dialers : e # d => (Works(e)' <=> Works(e))
  BY <1>1 DEF Claims, Works
<1>3. ClosedEmpty' /\ CloserIdle' /\ LostClosed' /\ ClaimOwnsSlot' /\ ClaimUnique'
  <2>1. \A e \in Dialers : pc'[e] = "lost" => pc[e] = "lost"
    BY <1>1
  <2>2. \A e \in Dialers : pc'[e] # "release" /\ Claims(e) => pc[e] # "release"
    BY <1>1
  <2> QED BY <1>1, <1>2, <2>1, <2>2 DEF Inv, ClosedEmpty, CloserIdle, LostClosed, ClaimOwnsSlot, ClaimUnique
<1>4. Numbered'
  BY <1>1 DEF Inv, Numbered, Sessions
<1>5. /\ \A k \in Keys : entries[k] # None => entries[k] \in Sessions /\ entries[k] <= opened /\ skey[entries[k]] = k
      /\ \A e \in Dialers : Works(e) => cur[e] \in Sessions /\ cur[e] <= opened /\ skey[cur[e]] = key[e]
      /\ \A e \in Dialers : \A s \in stale[e] : s \in Sessions /\ s <= opened
      /\ \A e \in Dialers : held[e] \subseteq stale[e]
      /\ \A s \in Sessions : s <= opened => s # n /\ s <= n
  BY <1>1 DEF TypeOK, Inv, EntryKnown, CurKnown, StaleKnown, Sessions
<1>6. EntryKnown'
  BY <1>1, <1>5 DEF EntryKnown
<1>7. CurKnown'
  BY <1>1, <1>2, <1>5 DEF CurKnown
<1>8. StaleKnown'
  BY <1>1, <1>5 DEF Inv, StaleKnown
<1>9. StoredOnce'
  <2>1. \A k \in Keys : entries[k] # n
    BY <1>1, <1>5 DEF Sessions, None
  <2>2. \A e \in Dialers : n \notin held[e]
    BY <1>5
  <2>3. \A e \in Dialers : pc[e] = "store" => cur[e] # n
    BY <1>5 DEF Works
  <2> QED BY <1>1, <2>1, <2>2, <2>3 DEF Inv, StoredOnce
<1>10. \A e \in Dialers : \A s \in held[e] : s \in Sessions /\ skey'[s] = skey[s]
  BY <1>1, <1>5
<1>11. HeldOwnsSlot'
  BY <1>1, <1>10 DEF Inv, HeldOwnsSlot
<1>12. SlotOwned'
  <2> SUFFICES ASSUME NEW k \in Keys
               PROVE  \/ inflight[k] = NoTok
                      \/ \E e \in Dialers : inflight[k] = OpenTok(e) /\ key[e] = k /\ Claims(e)
                      \/ \E e \in Dialers, s \in Sessions :
                            inflight[k] = CloseTok(s) /\ skey'[s] = k /\ s \in held[e]
    BY <1>1, <1>2 DEF SlotOwned
  <2> QED BY <1>10 DEF Inv, SlotOwned
<1> QED BY <1>3, <1>4, <1>6, <1>7, <1>8, <1>9, <1>11, <1>12 DEF Inv

(* The opened session is stored, or given up because the pool is closed. *)
LEMMA StoreAction ==
    ASSUME TypeOK, Inv, NEW d \in Dialers, Store(d)
    PROVE  Inv'
<1>1. /\ UNCHANGED <<inflight, closed, ses, skey, opened, nxt, key, cur, stale, held, clo, cset>>
      /\ pc[d] = "store" /\ pc'[d] \in {"lost", "release"} /\ (pc'[d] = "lost" <=> closed)
      /\ \A e \in Dialers : e # d => pc'[e] = pc[e]
      /\ closed => entries' = entries
      /\ ~closed => entries' = [entries EXCEPT ![key[d]] = cur[d]]
  BY DEF Store, sessions, closer, TypeOK
<1>2. key[d] \in Keys /\ cur[d] \in Sessions /\ cur[d] <= opened /\ skey[cur[d]] = key[d]
  BY <1>1 DEF TypeOK, Inv, CurKnown, Works
<1>3. \A k \in Keys : entries'[k] = entries[k] \/ (k = key[d] /\ entries'[k] = cur[d] /\ ~closed)
  BY <1>1 DEF TypeOK
<1>4. /\ \A e \in Dialers : e # d => (Claims(e)' <=> Claims(e))
      /\ Claims(d) /\ (Claims(d)' => ~closed)
      /\ \A e \in Dialers : Works(e)' => Works(e)
  BY <1>1 DEF Claims, Works
<1>5. ClosedEmpty' /\ CloserIdle' /\ LostClosed' /\ ClaimUnique'
  BY <1>1, <1>4 DEF Inv, ClosedEmpty, CloserIdle, LostClosed, ClaimUnique
<1>6. Numbered' /\ EntryKnown' /\ CurKnown' /\ StaleKnown'
  BY <1>1, <1>2, <1>3, <1>4 DEF Inv, Numbered, EntryKnown, CurKnown, StaleKnown
<1>7. ClaimOwnsSlot'
  <2> SUFFICES ASSUME NEW e \in Dialers, Claims(e)', ~closed
               PROVE  /\ inflight[key[e]] = OpenTok(e)
                      /\ pc'[e] # "release" => entries'[key[e]] = None
    BY <1>1 DEF ClaimOwnsSlot
  <2>1. Claims(e) /\ inflight[key[e]] = OpenTok(e) /\ (pc[e] # "release" => entries[key[e]] = None)
    BY <1>4 DEF Inv, ClaimOwnsSlot
  <2>2. e # d => key[e] # key[d]
    BY <1>4, <2>1 DEF Inv, ClaimUnique
  <2>3. e = d => pc'[e] = "release"
    BY <1>1
  <2>4. key[e] \in Keys
    BY DEF TypeOK
  <2> QED BY <1>1, <1>3, <2>1, <2>2, <2>3, <2>4
<1>8. StoredOnce'
  <2>1. \A e \in Dialers : pc'[e] = "store" => e # d /\ pc[e] = "store" /\ cur[e] # cur[d]
    BY <1>1 DEF Inv, StoredOnce
  <2> QED BY <1>1, <1>3, <2>1 DEF Inv, StoredOnce
<1>9. HeldOwnsSlot'
  <2>1. \A e \in Dialers : cur[d] \notin held[e]
    BY <1>1 DEF Inv, StoredOnce
  <2> QED BY <1>1, <1>3, <2>1 DEF Inv, HeldOwnsSlot
<1>10. SlotOwned'
  <2> SUFFICES ASSUME NEW k \in Keys, inflight[k] # NoTok
               PROVE  \/ \E e \in Dialers : inflight[k] = OpenTok(e) /\ key[e] = k /\ Claims(e)'
                      \/ \E e \in Dialers, s \in Sessions :
                            inflight[k] = CloseTok(s) /\ skey[s] = k /\ s \in held[e]
    BY <1>1 DEF SlotOwned
  <2>1. ~closed
    BY DEF Inv, ClosedEmpty
  <2>2. \A e \in Dialers : Claims(e)' <=> Claims(e)
    BY <1>1, <2>1 DEF Claims
  <2> QED BY <2>2 DEF Inv, SlotOwned
<1> QED BY <1>5, <1>6, <1>7, <1>8, <1>9, <1>10 DEF Inv

LEMMA InvStep ==
    ASSUME TypeOK, Inv, Next PROVE Inv'
<1> QED BY QuietActions, RemoveActions, SessionActions, CloseAction, ReleaseActions,
           CloseStaleAction, OpenAction, StoreAction
        DEF Next, DialStep

LEMMA Initially == Init => TypeOK /\ Inv /\ NoLeak
<1> SUFFICES ASSUME Init PROVE TypeOK /\ Inv /\ NoLeak
  OBVIOUS
<1> AnyKey \in Keys
  BY PoolAssumption DEF AnyKey
<1>1. TypeOK
  <2>1. NoTok \in Tokens
    BY DEF Tokens
  <2>2. opened \in 0..MaxSessions
    BY PoolAssumption DEF Init
  <2> QED BY <2>1, <2>2 DEF Init, TypeOK, PCs, AfterStale
<1>2. \A d \in Dialers : pc[d] = "idle" /\ held[d] = {} /\ stale[d] = {}
  BY DEF Init
<1>3. Inv
  BY PoolAssumption, <1>2
     DEF Init, Inv, ClosedEmpty, CloserIdle, LostClosed, ClaimOwnsSlot, ClaimUnique, Numbered,
         EntryKnown, CurKnown, StaleKnown, StoredOnce, HeldOwnsSlot, SlotOwned, Claims, Works,
         Sessions, None
<1> QED BY <1>1, <1>3 DEF Init, NoLeak

-----------------------------------------------------------------------------
(* A session in somebody's hands stays in somebody's hands until its Close  *)
(* has begun. *)
LEMMA InHandStep ==
    ASSUME TypeOK, Inv, Next, NEW i \in Sessions,
           ses[i] \in {"alive", "dead"}, InHand(i)
    PROVE  InHand(i)'
<1>1. ASSUME UNCHANGED <<entries, stale, cset>>,
             \A d \in Dialers : pc[d] \in {"store", "lost"} => pc'[d] = pc[d] /\ cur'[d] = cur[d]
      PROVE  InHand(i)'
  BY <1>1 DEF InHand
<1>2. ASSUME NEW d \in Dialers,
             \/ \E k \in Keys : Dial(d, k)
             \/ DialClosed(d) \/ CloseStaleBegin(d) \/ CloseStaleDone(d) \/ DialCached(d)
             \/ WaitEnds(d) \/ WaitCancelled(d) \/ OpenFails(d) \/ OpenSucceeds(d)
             \/ ReleaseOpened(d) \/ DialNew(d)
      PROVE  InHand(i)'
  <2>1. UNCHANGED <<entries, stale, cset>>
    BY <1>2 DEF Dial, DialClosed, CloseStaleBegin, CloseStaleDone, DialCached, WaitEnds,
       WaitCancelled, OpenFails, OpenSucceeds, ReleaseOpened, DialNew, pool, dialer, closer
  <2>2. pc[d] \notin {"store", "lost"} \/ (pc' = pc /\ cur' = cur)
    BY <1>2 DEF Dial, DialClosed, CloseStaleBegin, CloseStaleDone, DialCached, WaitEnds,
       WaitCancelled, OpenFails, OpenSucceeds, ReleaseOpened, DialNew, dialer
  <2>3. \A e \in Dialers : e # d => pc'[e] = pc[e] /\ cur'[e] = cur[e]
    BY <1>2 DEF Dial, DialClosed, CloseStaleBegin, CloseStaleDone, DialCached, WaitEnds,
       WaitCancelled, OpenFails, OpenSucceeds, ReleaseOpened, DialNew, Return, dialer, TypeOK
  <2> QED BY <1>1, <2>1, <2>2, <2>3
<1>3. ASSUME \/ \E s \in Sessions : SessionDies(s) \/ CloseEnds(s)
             \/ CloseWake \/ CloseSession
      PROVE  InHand(i)'
  BY <1>1, <1>3 DEF SessionDies, CloseEnds, CloseWake, CloseSession, pool, dialer, closer
<1>4. ASSUME NEW d \in Dialers, NEW K \in SUBSET Keys, pc[d] \notin {"stale", "store", "lost"},
             StaleOf(d, K), UNCHANGED cset,
             entries' = [k \in Keys |-> IF k \in K THEN None ELSE entries[k]],
             \A e \in Dialers : e # d => pc'[e] = pc[e] /\ cur'[e] = cur[e]
      PROVE  InHand(i)'
  <2>1. stale[d] = {} /\ stale'[d] = {entries[k] : k \in K}
    BY <1>4 DEF Inv, StaleKnown, StaleOf, TypeOK
  <2>2. \A e \in Dialers : e # d => stale'[e] = stale[e]
    BY <1>4 DEF StaleOf, TypeOK
  <2>3. \A k \in Keys : entries[k] = i => entries'[k] = i \/ i \in stale'[d]
    BY <1>4, <2>1
  <2> QED BY <1>4, <2>1, <2>2, <2>3 DEF InHand
<1>5. ASSUME NEW d \in Dialers, NEW K \in SUBSET Keys, TryCached(d, K) \/ Claim(d, K)
      PROVE  InHand(i)'
  <2>1. pc[d] \notin {"stale", "store", "lost"} /\ StaleOf(d, K) /\ UNCHANGED cset
    BY <1>5 DEF TryCached, Claim, closer
  <2>2. entries' = [k \in Keys |-> IF k \in K THEN None ELSE entries[k]]
    BY <1>5 DEF TryCached, Claim, RemoveLocked
  <2>3. \A e \in Dialers : e # d => pc'[e] = pc[e] /\ cur'[e] = cur[e]
    BY <1>5 DEF TryCached, Claim, TypeOK
  <2> QED BY <1>4, <2>1, <2>2, <2>3
<1>6. ASSUME NEW d \in Dialers, Evict(d) \/ DropNew(d) PROVE InHand(i)'
  <2>1. pc[d] \in {"evict", "drop"} /\ UNCHANGED cset /\ key[d] \in Keys
    BY <1>6 DEF Evict, DropNew, Drop, closer, TypeOK
  <2>2. \A e \in Dialers : e # d => pc'[e] = pc[e] /\ cur'[e] = cur[e]
    BY <1>6 DEF Evict, DropNew, Drop, TypeOK
  <2>3. CASE entries[key[d]] = cur[d]
    <3>1. StaleOf(d, {key[d]}) /\ {key[d]} \in SUBSET Keys
      BY <1>6, <2>1, <2>3 DEF Evict, DropNew, Drop
    <3>2. entries' = [k \in Keys |-> IF k \in {key[d]} THEN None ELSE entries[k]]
      BY <1>6, <2>3 DEF Evict, DropNew, Drop, RemoveLocked
    <3> QED BY <1>4, <2>1, <2>2, <3>1, <3>2
  <2>4. CASE entries[key[d]] # cur[d]
    <3>1. stale[d] = {} /\ UNCHANGED entries
      BY <1>6, <2>1, <2>4 DEF Evict, DropNew, Drop, Inv, StaleKnown
    <3>2. \A e \in Dialers : e # d => stale'[e] = stale[e]
      BY <1>6, <2>4 DEF Evict, DropNew, Drop, TypeOK
    <3> QED BY <2>1, <2>2, <3>1, <3>2 DEF InHand
  <2> QED BY <2>3, <2>4
<1>7. ASSUME NEW d \in Dialers, CloseStaleRelease(d) PROVE InHand(i)'
  <2>1. PICK s \in stale[d] : ses[s] = "closed" /\ stale' = [stale EXCEPT ![d] = @ \ {s}]
    BY <1>7 DEF CloseStaleRelease
  <2>2. UNCHANGED <<entries, pc, cur, cset>>
    BY <1>7 DEF CloseStaleRelease, closer
  <2>3. \A e \in Dialers : i \in stale[e] => i \in stale'[e]
    BY <2>1 DEF TypeOK
  <2> QED BY <2>2, <2>3 DEF InHand
<1>8. ASSUME NEW d \in Dialers, Store(d) PROVE InHand(i)'
  <2>1. /\ pc[d] = "store" /\ key[d] \in Keys /\ UNCHANGED <<cur, stale, cset>>
        /\ \A e \in Dialers : e # d => pc'[e] = pc[e]
    BY <1>8 DEF Store, closer, TypeOK
  <2>2. CASE closed
    <3>1. pc'[d] = "lost" /\ UNCHANGED entries
      BY <1>8, <2>2 DEF Store, TypeOK
    <3> QED BY <2>1, <3>1 DEF InHand
  <2>3. CASE ~closed
    <3>1. entries' = [entries EXCEPT ![key[d]] = cur[d]]
      BY <1>8, <2>3 DEF Store
    <3>2. entries[key[d]] = None
      BY <2>1, <2>3 DEF Inv, ClaimOwnsSlot, Claims
    <3>3. i # None
      BY DEF Sessions, None
    <3>4. \A k \in Keys : entries[k] = i => entries'[k] = i
      BY <3>1, <3>2, <3>3 DEF TypeOK
    <3>5. entries'[key[d]] = cur[d]
      BY <2>1, <3>1 DEF TypeOK
    <3> QED BY <2>1, <3>4, <3>5 DEF InHand
  <2> QED BY <2>2, <2>3
<1>9. ASSUME NEW d \in Dialers, StoreLost(d) PROVE InHand(i)'
  <2>1. stale[d] = {} /\ stale'[d] = {cur[d]} /\ UNCHANGED <<entries, cset>>
    BY <1>9 DEF StoreLost, closer, Inv, StaleKnown, TypeOK
  <2>2. \A e \in Dialers : e # d => pc'[e] = pc[e] /\ cur'[e] = cur[e] /\ stale'[e] = stale[e]
    BY <1>9 DEF StoreLost, TypeOK
  <2> QED BY <2>1, <2>2 DEF InHand
<1>10. ASSUME Close PROVE InHand(i)'
  <2>1. /\ cset' = {entries[k] : k \in {j \in Keys : entries[j] # None}}
        /\ UNCHANGED <<pc, cur, stale>> /\ cset = {}
    BY <1>10 DEF Close, dialer, Inv, CloserIdle
  <2>2. i # None
    BY DEF Sessions, None
  <2> QED BY <2>1, <2>2 DEF InHand
<1>11. ASSUME CloseSessionDone PROVE InHand(i)'
  <2>1. PICK s \in cset : ses[s] = "closed" /\ cset' = cset \ {s}
    BY <1>11 DEF CloseSessionDone
  <2>2. UNCHANGED <<entries, pc, cur, stale>>
    BY <1>11 DEF CloseSessionDone, pool, dialer
  <2> QED BY <2>1, <2>2 DEF InHand
<1> QED BY <1>2, <1>3, <1>5, <1>6, <1>7, <1>8, <1>9, <1>10, <1>11 DEF Next, DialStep, CloseStep

LEMMA NoLeakStep ==
    ASSUME TypeOK, Inv, NoLeak, Next PROVE NoLeak'
<1> SUFFICES ASSUME NEW i \in Sessions, ses'[i] \in {"alive", "dead"} PROVE InHand(i)'
  BY DEF NoLeak
<1>1. CASE ses[i] \in {"alive", "dead"}
  BY <1>1, InHandStep DEF NoLeak
<1>2. CASE ses[i] \notin {"alive", "dead"}
  <2>1. \E d \in Dialers : OpenSucceeds(d)
    <3>1. ASSUME NEW d \in Dialers, DialStep(d), ~OpenSucceeds(d) PROVE FALSE
      BY <1>2, <3>1 DEF DialStep, DialClosed, TryCached, Claim, CloseStaleBegin, BeginClose,
         CloseStaleRelease, CloseStaleDone, DialCached, Evict, Drop, WaitEnds, OpenFails, Store,
         StoreLost, ReleaseOpened, DialNew, DropNew, sessions, TypeOK
    <3>2. ASSUME \/ \E d \in Dialers : (\E k \in Keys : Dial(d, k)) \/ WaitCancelled(d)
                 \/ \E s \in Sessions : SessionDies(s) \/ CloseEnds(s)
                 \/ Close \/ CloseStep
          PROVE  FALSE
      BY <1>2, <3>2 DEF Dial, WaitCancelled, SessionDies, CloseEnds, Close, CloseStep, CloseWake,
         CloseSession, BeginClose, CloseSessionDone, sessions, TypeOK
    <3> QED BY <3>1, <3>2 DEF Next
  <2>2. PICK d \in Dialers : OpenSucceeds(d)
    BY <2>1
  <2>3. i = opened + 1
    BY <1>2, <2>2 DEF OpenSucceeds, TypeOK
  <2>4. pc'[d] = "store" /\ cur'[d] = i
    BY <2>2, <2>3 DEF OpenSucceeds, TypeOK
  <2> QED BY <2>4 DEF InHand
<1> QED BY <1>1, <1>2

-----------------------------------------------------------------------------
LEMMA Stutter ==
    ASSUME TypeOK, Inv, NoLeak, UNCHANGED vars PROVE (TypeOK /\ Inv /\ NoLeak)'
<1> USE DEF vars, pool, sessions, dialer, closer
<1>1. TypeOK' /\ NoLeak'
  BY DEF TypeOK, NoLeak, InHand
<1>2. \A e \in Dialers : (Claims(e)' <=> Claims(e)) /\ (Works(e)' <=> Works(e))
  BY DEF Claims, Works
<1>3. ClosedEmpty' /\ CloserIdle' /\ LostClosed' /\ ClaimOwnsSlot' /\ ClaimUnique' /\ Numbered'
  BY <1>2 DEF Inv, ClosedEmpty, CloserIdle, LostClosed, ClaimOwnsSlot, ClaimUnique, Numbered
<1>4. EntryKnown' /\ CurKnown' /\ StaleKnown' /\ StoredOnce' /\ HeldOwnsSlot' /\ SlotOwned'
  BY <1>2 DEF Inv, EntryKnown, CurKnown, StaleKnown, StoredOnce, HeldOwnsSlot, SlotOwned
<1> QED BY <1>1, <1>3, <1>4 DEF Inv

(* The inductive invariant behind every theorem below. *)
THEOREM PoolInvariant == Spec => [](TypeOK /\ Inv /\ NoLeak)
<1>1. Init => TypeOK /\ Inv /\ NoLeak
  BY Initially
<1>2. TypeOK /\ Inv /\ NoLeak /\ [Next]_vars => (TypeOK /\ Inv /\ NoLeak)'
  <2>1. ASSUME TypeOK, Inv, NoLeak, Next PROVE (TypeOK /\ Inv /\ NoLeak)'
    <3>1. CurKnown
      BY <2>1 DEF Inv
    <3> QED BY <2>1, <3>1, TypeStep, InvStep, NoLeakStep
  <2> QED BY <2>1, Stutter
<1> QED BY <1>1, <1>2, PTL DEF Spec

(* Whatever the dialers do, every variable of the pool keeps its type. *)
THEOREM TypeCorrect == Spec => []TypeOK
<1> QED BY PoolInvariant, PTL

(* claim and release serialise the opens of a key: for any number of        *)
(* goroutines calling Dial, two of them never open the same key at once.    *)
THEOREM OpensAreSingle == Spec => []SingleOpen
<1>1. Inv => SingleOpen
  BY DEF Inv, ClaimUnique, Claims, SingleOpen, Opening
<1> QED BY <1>1, PoolInvariant, PTL

(* A finished open finds its key empty: storing it never overwrites a live  *)
(* session.                                                                 *)
THEOREM StoreIsSafe == Spec => []StoreFindsNoEntry
<1>1. Inv => StoreFindsNoEntry
  BY DEF Inv, ClaimOwnsSlot, Claims, StoreFindsNoEntry
<1> QED BY <1>1, PoolInvariant, PTL

(* While closeStale holds the key's token nobody opens that key. *)
THEOREM ClosesExcludeOpens == Spec => []ReservedCloseExcludesOpen
<1>1. TypeOK /\ Inv => ReservedCloseExcludesOpen
  <2> SUFFICES ASSUME TypeOK, Inv, ~closed, NEW d \in Dialers, NEW e \in Dialers,
                      NEW i \in Sessions, i \in held[d], skey[i] = key[e], Opening(e)
               PROVE  FALSE
    BY DEF ReservedCloseExcludesOpen
  <2>1. inflight[key[e]] = CloseTok(i)
    BY DEF Inv, HeldOwnsSlot
  <2>2. inflight[key[e]] = OpenTok(e)
    BY DEF Inv, ClaimOwnsSlot, Claims, Opening
  <2> QED BY <2>1, <2>2 DEF CloseTok, OpenTok
<1> QED BY <1>1, PoolInvariant, PTL

(* Every reserved slot has an owner that will release it, so nobody waits   *)
(* on a channel that no goroutine will close.                               *)
THEOREM SlotsAreOwned == Spec => []SlotHasOwner
<1>1. Inv => SlotHasOwner
  BY DEF Inv, SlotOwned, Claims, SlotHasOwner
<1> QED BY <1>1, PoolInvariant, PTL

(* No tunnel is leaked: a session that was opened and is not being closed   *)
(* is cached or held by a call that will store or close it.                 *)
THEOREM NothingLeaks == Spec => []NoLeak
<1> QED BY PoolInvariant, PTL

=============================================================================
