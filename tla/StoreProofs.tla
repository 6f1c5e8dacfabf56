---------------------------- MODULE StoreProofs -----------------------------
(***************************************************************************)
(* The two components that several users share a store through.            *)
(*                                                                         *)
(* TokenCache for any number of requests and tokens: one request at a time *)
(* asks the authorization server, only the newest refresh token is         *)
(* presented, and a token from before a reset is returned only to those    *)
(* the reset ran into, or after it has overtaken a leader.                 *)
(*                                                                         *)
(* HistoryStore for any number of processes, entries, databases and       *)
(* faults: what Append acknowledged is in the history or in a quarantined  *)
(* copy, and what was deleted does not come back, as long as no two        *)
(* processes meet in a recovery; with one process, always.                 *)
(***************************************************************************)
EXTENDS TokenCache, HistoryStore, TLAPS

(* A token the server has issued; a stale one, of before the last reset, is  *)
(* there only because the reset overtook a leader.                           *)
Carried(t) == t \in 1..issued /\ (t \in stale => overtaken)

(* What caller c may be given: a stale token also if the reset found it      *)
(* inside Token.                                                             *)
MayHave(c, t) == t \in 1..issued /\ (t \in stale => c \in raced \/ overtaken)

(* No token that is kept or stale is newer than the server's last. *)
Known ==
    /\ \A s \in Slots : cache[s] # NoToken => Carried(cache[s])
    /\ stale \subseteq 1..issued

(* The table of calls names the one caller that leads. *)
LeaderKnown == \A c \in Callers : pc[c] \in Leading <=> inflight = c

(* While the leader is on its way to the server the cache has no valid token. *)
AsksInNeed ==
    \A c \in Callers : pc[c] \in {"entry", "refresh", "fetch"} => ~Valid(cache[Found])

(* The refresh token in use is that of the last token obtained. *)
RefreshesLast == \A c \in Callers : pc[c] = "refresh" => tok[c] = issued

(* The entry found is that of the last token, until its successor is stored. *)
LastKept ==
    /\ (\A c \in Callers : pc[c] # "store") => cache[Found] \in {issued, NoToken}
    /\ \A c \in Callers : pc[c] = "store" => tok[c] = issued

(* What a caller has in hand: a leader's token goes to the cache and to       *)
(* others, a token found by the first look only to the caller itself.         *)
InHand ==
    \A c \in Callers :
       /\ pc[c] \in {"promote2", "refresh", "store", "drop", "publish"} => Carried(tok[c])
       /\ pc[c] = "promote" => MayHave(c, tok[c])

(* A call is done only when its leader has published; what a leader or a     *)
(* waiter is about to read from it.                                          *)
CallsReal ==
    \A c \in Callers :
       /\ call[c].done => pc[c] \in {"release", "end"}
       /\ pc[c] = "release" /\ call[c].err = "nil" => Carried(call[c].token)
       /\ pc[c] = "wait" =>
             /\ leader[c] \in Callers
             /\ call[leader[c]].done /\ call[leader[c]].err = "nil" =>
                   MayHave(c, call[leader[c]].token)

IInv ==
    /\ TypeOK
    /\ Known
    /\ LeaderKnown
    /\ AsksInNeed
    /\ RefreshesLast
    /\ LastKept
    /\ InHand
    /\ CallsReal
-----------------------------------------------------------------------------
(* Moving an entry from the old key to the new one does not change which     *)
(* token the next look finds.                                                *)
LEMMA PromoteKeepsFound ==
    ASSUME TypeOK, NEW a \in Slots, PromoteCacheKey(a)
    PROVE  /\ cache' \in [Slots -> Tokens \cup {NoToken}]
           /\ cache'[Found'] = cache[Found]
           /\ \A s \in Slots : cache'[s] \in {cache["key"], cache["fallback"], NoToken}
  BY DEF TypeOK, PromoteCacheKey, Found, Slots, NoToken, Tokens

(* A restored cache satisfies the invariant. *)
LEMMA InitInv == Init => IInv
  <1> SUFFICES ASSUME Init PROVE IInv OBVIOUS
  <1> USE DEF Slots, NoToken
  <1>0. lost \in BOOLEAN /\ overtaken \in BOOLEAN /\ stale = {} /\ raced = {}
    BY Zenon DEF Init
  <1>1. TypeOK
    BY <1>0, TokenAssumption DEF Init, TypeOK, Tokens, Errors, PCs, Ret, NoCall
  <1>2. Known
    BY DEF Init, Known, Carried, MayHave
  <1>3. LeaderKnown /\ AsksInNeed /\ RefreshesLast /\ InHand
    BY TokenAssumption DEF Init, LeaderKnown, AsksInNeed, RefreshesLast, InHand,
       Leading, Carried, MayHave
  <1>4. LastKept /\ CallsReal
    BY <1>0 DEF Init, LastKept, CallsReal, NoCall, Found, Carried, MayHave
  <1> QED BY <1>1, <1>2, <1>3, <1>4 DEF IInv

(* The steps that leave the cache and the server alone. *)
LEMMA LookInv == ASSUME IInv, NEW c \in Callers, Look(c) PROVE IInv'
  <1> USE DEF IInv
  <1>1. Found \in Slots /\ Found' = Found /\ cache[Found] \in Tokens \cup {NoToken}
    BY DEF Look, Found, Slots, TypeOK
  <1>2. TypeOK'
    BY <1>1 DEF Look, TypeOK, Goto, PCs, server, reset
  <1>3. Known' /\ LeaderKnown'
    BY DEF Look, Known, LeaderKnown, Carried, MayHave, Goto, Leading, TypeOK, server,
       reset
  <1>4. AsksInNeed' /\ RefreshesLast'
    BY <1>1 DEF Look, AsksInNeed, RefreshesLast, Valid, Goto, TypeOK, server, reset
  <1>5. LastKept'
    BY <1>1 DEF Look, LastKept, Goto, TypeOK, server, reset
  <1>6. InHand'
    BY <1>1 DEF Look, InHand, Known, Valid, Carried, MayHave, Goto, TypeOK, server,
       reset
  <1>7. CallsReal'
    BY DEF Look, CallsReal, Carried, MayHave, Goto, TypeOK, server, reset
  <1> QED BY <1>2, <1>3, <1>4, <1>5, <1>6, <1>7
(* A caller with a cached token returns it. *)
LEMMA PromoteInv == ASSUME IInv, NEW c \in Callers, Promote(c) PROVE IInv'
  <1> USE DEF IInv
  <1>1. /\ cache' \in [Slots -> Tokens \cup {NoToken}]
        /\ cache'[Found'] = cache[Found]
        /\ \A s \in Slots : cache'[s] \in {cache["key"], cache["fallback"], NoToken}
    BY PromoteKeepsFound DEF Promote, TypeOK
  <1>2. TypeOK'
    BY <1>1 DEF Promote, Return, Ret, Errors, Slots, TypeOK, Goto, PCs, server, reset,
       Leading
  <1>3. Known' /\ LeaderKnown'
    BY <1>1 DEF Promote, Return, Ret, Errors, Slots, Known, LeaderKnown, Carried,
       MayHave, Goto, Leading, TypeOK, server, reset
  <1>4. AsksInNeed' /\ RefreshesLast'
    BY <1>1 DEF Promote, Return, Ret, Errors, Slots, AsksInNeed, RefreshesLast, Valid,
       Goto, TypeOK, server, reset
  <1>5. LastKept'
    BY <1>1 DEF Promote, Return, Ret, Errors, Slots, LastKept, Goto, TypeOK, server,
       reset
  <1>6. InHand'
    BY <1>1 DEF Promote, Return, Ret, Errors, Slots, InHand, Known, Valid, Carried,
       MayHave, Goto, TypeOK, server, reset
  <1>7. CallsReal'
    BY <1>1 DEF Promote, Return, Ret, Errors, Slots, CallsReal, Carried, MayHave, Goto,
       TypeOK, server, reset
  <1> QED BY <1>2, <1>3, <1>4, <1>5, <1>6, <1>7

(* Leader or waiter. *)
LEMMA LockInv == ASSUME IInv, NEW c \in Callers, Lock(c) PROVE IInv'
  <1> USE DEF IInv
  <1>1. Found \in Slots /\ Found' = Found /\ cache[Found] \in Tokens \cup {NoToken}
    BY DEF Lock, Found, Slots, TypeOK
  <1>2. TypeOK'
    <2>1. pc' \in [Callers -> PCs] BY DEF Lock, TypeOK, Goto, PCs, Leading
    <2>2. leader' \in [Callers -> Callers \cup {None}] /\ inflight' \in Callers \cup {None}
      BY DEF Lock, TypeOK
    <2> QED BY <2>1, <2>2 DEF Lock, TypeOK, server, reset
  <1>3. Known' /\ LeaderKnown'
    <2>1. Known' BY DEF Lock, Known, Carried, server, reset
    <2>2. LeaderKnown' BY TokenAssumption DEF Lock, LeaderKnown, Goto, Leading, TypeOK
    <2> QED BY <2>1, <2>2
  <1>4. AsksInNeed' /\ RefreshesLast'
    BY <1>1 DEF Lock, LeaderKnown, AsksInNeed, RefreshesLast, Valid, Goto, TypeOK,
       server, reset
  <1>5. LastKept'
    BY <1>1 DEF Lock, LeaderKnown, LastKept, Goto, TypeOK, server, reset
  <1>6. InHand'
    BY <1>1 DEF Lock, LeaderKnown, InHand, Known, Valid, Carried, MayHave, Goto, TypeOK,
       server, reset
  <1>7. CallsReal'
    <2>2. inflight # None => inflight \in Callers /\ pc[inflight] \in Leading
      BY DEF TypeOK, LeaderKnown
    <2>3. inflight # None /\ call[inflight].done /\ call[inflight].err = "nil" =>
             MayHave(c, call[inflight].token)
      BY <2>2 DEF CallsReal, Leading, Carried, MayHave
    <2> QED BY <2>2, <2>3 DEF Lock, CallsReal, Carried, MayHave, Goto, TypeOK, server, reset
  <1> QED BY <1>2, <1>3, <1>4, <1>5, <1>6, <1>7

(* The waiter takes the result of the call. *)
LEMMA WaitDoneInv == ASSUME IInv, NEW c \in Callers, WaitDone(c) PROVE IInv'
  <1> USE DEF IInv
  <1>1. Found \in Slots /\ Found' = Found /\ cache[Found] \in Tokens \cup {NoToken}
    BY DEF WaitDone, Found, Slots, TypeOK
  <1>2. TypeOK'
    BY <1>1 DEF WaitDone, Return, Ret, Slots, CallsReal, TypeOK, Goto, PCs, server,
       reset, Leading, Carried, MayHave
  <1>3. Known' /\ LeaderKnown'
    BY <1>1 DEF WaitDone, Return, Ret, Errors, Slots, Known, LeaderKnown, Carried,
       MayHave, Goto, Leading, TypeOK, server, reset
  <1>4. AsksInNeed' /\ RefreshesLast'
    BY <1>1 DEF WaitDone, Return, Ret, Errors, Slots, AsksInNeed, RefreshesLast, Valid,
       Goto, TypeOK, server, reset
  <1>5. LastKept'
    BY <1>1 DEF WaitDone, Return, Ret, Errors, Slots, LastKept, Goto, TypeOK, server,
       reset
  <1>6. InHand'
    BY <1>1 DEF WaitDone, Return, Ret, Errors, Slots, InHand, Known, Valid, Carried,
       MayHave, Goto, TypeOK, server, reset
  <1>7. CallsReal'
    BY <1>1 DEF WaitDone, Return, Ret, Errors, Slots, CallsReal, Carried, MayHave, Goto,
       TypeOK, server, reset
  <1> QED BY <1>2, <1>3, <1>4, <1>5, <1>6, <1>7

(* The waiter gives up. *)
LEMMA WaitCanceledInv == ASSUME IInv, NEW c \in Callers, WaitCanceled(c) PROVE IInv'
  <1> USE DEF IInv
  <1>1. Found \in Slots /\ Found' = Found /\ cache[Found] \in Tokens \cup {NoToken}
    BY DEF WaitCanceled, Found, Slots, TypeOK
  <1>2. TypeOK'
    BY <1>1 DEF WaitCanceled, Return, Ret, Errors, Slots, TypeOK, Goto, PCs, server,
       reset, Leading
  <1>3. Known' /\ LeaderKnown'
    BY <1>1 DEF WaitCanceled, Return, Ret, Errors, Slots, Known, LeaderKnown, Carried,
       MayHave, Goto, Leading, TypeOK, server, reset
  <1>4. AsksInNeed' /\ RefreshesLast'
    BY <1>1 DEF WaitCanceled, Return, Ret, Errors, Slots, AsksInNeed, RefreshesLast,
       Valid, Goto, TypeOK, server, reset
  <1>5. LastKept'
    BY <1>1 DEF WaitCanceled, Return, Ret, Errors, Slots, LastKept, Goto, TypeOK,
       server, reset
  <1>6. InHand'
    BY <1>1 DEF WaitCanceled, Return, Ret, Errors, Slots, InHand, Known, Valid, Carried,
       MayHave, Goto, TypeOK, server, reset
  <1>7. CallsReal'
    BY <1>1 DEF WaitCanceled, Return, Ret, Errors, Slots, CallsReal, Carried, MayHave,
       Goto, TypeOK, server, reset
  <1> QED BY <1>2, <1>3, <1>4, <1>5, <1>6, <1>7

(* The leader looks again. *)
LEMMA LookAgainInv == ASSUME IInv, NEW c \in Callers, LookAgain(c) PROVE IInv'
  <1> USE DEF IInv
  <1>1. Found \in Slots /\ Found' = Found /\ cache[Found] \in Tokens \cup {NoToken}
    BY DEF LookAgain, Found, Slots, TypeOK
  <1>2. TypeOK'
    BY <1>1 DEF LookAgain, TypeOK, Goto, PCs, server, reset, Leading
  <1>3. Known' /\ LeaderKnown'
    BY <1>1 DEF LookAgain, Known, LeaderKnown, Carried, MayHave, Goto, Leading, TypeOK,
       server, reset
  <1>4. AsksInNeed' /\ RefreshesLast'
    BY <1>1 DEF LookAgain, AsksInNeed, RefreshesLast, Valid, Goto, TypeOK, server, reset
  <1>5. LastKept'
    BY <1>1 DEF LookAgain, LastKept, Goto, TypeOK, server, reset
  <1>6. InHand'
    BY <1>1 DEF LookAgain, InHand, Known, Valid, Carried, MayHave, Goto, TypeOK, server,
       reset
  <1>7. CallsReal'
    BY <1>1 DEF LookAgain, CallsReal, Carried, MayHave, Goto, TypeOK, server, reset
  <1> QED BY <1>2, <1>3, <1>4, <1>5, <1>6, <1>7

(* The leader has found a token. *)
LEMMA PromoteAgainInv == ASSUME IInv, NEW c \in Callers, PromoteAgain(c) PROVE IInv'
  <1> USE DEF IInv
  <1>1. /\ cache' \in [Slots -> Tokens \cup {NoToken}]
        /\ cache'[Found'] = cache[Found]
        /\ \A s \in Slots : cache'[s] \in {cache["key"], cache["fallback"], NoToken}
    BY PromoteKeepsFound DEF PromoteAgain, TypeOK
  <1>2. TypeOK'
    BY <1>1 DEF PromoteAgain, Slots, TypeOK, Goto, PCs, server, reset, Leading
  <1>3. Known' /\ LeaderKnown'
    BY <1>1 DEF PromoteAgain, Slots, Known, LeaderKnown, Carried, MayHave, Goto,
       Leading, TypeOK, server, reset
  <1>4. AsksInNeed' /\ RefreshesLast'
    BY <1>1 DEF PromoteAgain, Slots, AsksInNeed, RefreshesLast, Valid, Goto, TypeOK,
       server, reset
  <1>5. LastKept'
    BY <1>1 DEF PromoteAgain, Slots, LastKept, Goto, TypeOK, server, reset
  <1>6. InHand'
    BY <1>1 DEF PromoteAgain, Slots, InHand, Known, Valid, Carried, MayHave, Goto,
       TypeOK, server, reset
  <1>7. CallsReal'
    BY <1>1 DEF PromoteAgain, Slots, CallsReal, Carried, MayHave, Goto, TypeOK, server,
       reset
  <1> QED BY <1>2, <1>3, <1>4, <1>5, <1>6, <1>7

(* The leader decides to refresh or to fetch. *)
LEMMA EntryInv == ASSUME IInv, NEW c \in Callers, Entry(c) PROVE IInv'
  <1> USE DEF IInv
  <1>1. Found \in Slots /\ Found' = Found /\ cache[Found] \in Tokens \cup {NoToken}
    BY DEF Entry, Found, Slots, TypeOK
  <1>2. TypeOK'
    BY <1>1 DEF Entry, AsksInNeed, TypeOK, Goto, PCs, server, reset, Leading
  <1>3. Known' /\ LeaderKnown'
    BY <1>1 DEF Entry, AsksInNeed, Known, LeaderKnown, Carried, MayHave, Goto, Leading,
       TypeOK, server, reset
  <1>4. AsksInNeed' /\ RefreshesLast'
    BY <1>1 DEF Entry, AsksInNeed, RefreshesLast, LastKept, LeaderKnown, Leading, Tokens, NoToken, Valid, Goto, TypeOK,
       server, reset
  <1>5. LastKept'
    BY <1>1 DEF Entry, AsksInNeed, LastKept, Goto, TypeOK, server, reset
  <1>6. InHand'
    BY <1>1 DEF Entry, AsksInNeed, InHand, Known, Tokens, NoToken, Valid, Carried, MayHave, Goto, TypeOK,
       server, reset
  <1>7. CallsReal'
    BY <1>1 DEF Entry, AsksInNeed, CallsReal, Carried, MayHave, Goto, TypeOK, server,
       reset
  <1> QED BY <1>2, <1>3, <1>4, <1>5, <1>6, <1>7

(* A refresh token buys a token, a stale one if it was stale itself. *)
LEMMA RefreshOkInv == ASSUME IInv, NEW c \in Callers, RefreshOk(c) PROVE IInv'
  <1> USE DEF IInv
  <1>1. Found \in Slots /\ Found' = Found /\ cache[Found] \in Tokens \cup {NoToken}
    BY DEF RefreshOk, Found, Slots, TypeOK
  <1>0. /\ issued' \in 0..MaxTokens /\ issued' = issued + 1 /\ issued \in Nat
        /\ tok' = [tok EXCEPT ![c] = issued + 1] /\ refreshable' \subseteq Tokens
        /\ expired' = expired /\ lost' = FALSE
    BY TokenAssumption DEF RefreshOk, Issue, TypeOK, Tokens
  <1>8. tok[c] \in 1..issued /\ (tok[c] \in stale => overtaken)
    BY DEF RefreshOk, InHand, Carried
  <1>9. /\ stale' \subseteq stale \cup {issued'} /\ overtaken' = overtaken /\ raced' = raced
        /\ issued' \in stale' => overtaken
    BY <1>0, <1>8 DEF RefreshOk, Known
  <1>2. TypeOK'
    <2>1. stale' \subseteq Tokens
      BY <1>0, <1>9, TokenAssumption DEF TypeOK, Tokens
    <2>2. tok' \in [Callers -> Tokens \cup {NoToken}] /\ pc' \in [Callers -> PCs]
      BY <1>0 DEF RefreshOk, TypeOK, Goto, PCs, Leading, Tokens
    <2> QED BY <1>0, <1>9, <2>1, <2>2 DEF RefreshOk, TypeOK
  <1>3. Known' /\ LeaderKnown'
    <2>2. 1..issued \subseteq 1..issued' /\ issued' \in 1..issued' /\ cache' = cache
      BY <1>0 DEF RefreshOk
    <2>3. Known' BY <1>0, <1>9, <2>2 DEF Known, Carried
    <2>4. LeaderKnown' BY DEF RefreshOk, LeaderKnown, Goto, Leading, TypeOK
    <2> QED BY <2>3, <2>4
  <1>4. AsksInNeed' /\ RefreshesLast'
    BY <1>0, <1>1 DEF RefreshOk, AsksInNeed, RefreshesLast, LeaderKnown, Leading, Valid,
       Goto, TypeOK
  <1>5. LastKept'
    BY <1>0 DEF RefreshOk, LastKept, LeaderKnown, Leading, Goto, TypeOK
  <1>6. InHand'
    BY <1>0, <1>9 DEF RefreshOk, InHand, Carried, MayHave, Goto, TypeOK
  <1>7. CallsReal'
    BY <1>0, <1>9 DEF RefreshOk, CallsReal, Carried, MayHave, Goto, TypeOK
  <1> QED BY <1>2, <1>3, <1>4, <1>5, <1>6, <1>7

(* A refresh fails. *)
LEMMA RefreshFailsInv == ASSUME IInv, NEW c \in Callers, RefreshFails(c) PROVE IInv'
  <1> USE DEF IInv
  <1>1. Found \in Slots /\ Found' = Found /\ cache[Found] \in Tokens \cup {NoToken}
    BY DEF RefreshFails, Found, Slots, TypeOK
  <1>2. TypeOK'
    BY <1>1 DEF RefreshFails, TypeOK, Goto, PCs, server, reset, Leading
  <1>3. Known' /\ LeaderKnown'
    BY <1>1 DEF RefreshFails, Known, LeaderKnown, Carried, MayHave, Goto, Leading,
       TypeOK, server, reset
  <1>4. AsksInNeed' /\ RefreshesLast'
    BY <1>1 DEF RefreshFails, AsksInNeed, RefreshesLast, Valid, Goto, TypeOK, server,
       reset
  <1>5. LastKept'
    BY <1>1 DEF RefreshFails, LastKept, Goto, TypeOK, server, reset
  <1>6. InHand'
    BY <1>1 DEF RefreshFails, InHand, Known, Valid, Carried, MayHave, Goto, TypeOK,
       server, reset
  <1>7. CallsReal'
    BY <1>1 DEF RefreshFails, CallsReal, Carried, MayHave, Goto, TypeOK, server, reset
  <1> QED BY <1>2, <1>3, <1>4, <1>5, <1>6, <1>7

(* The grant buys a token. *)
LEMMA FetchOkInv == ASSUME IInv, NEW c \in Callers, FetchOk(c) PROVE IInv'
  <1> USE DEF IInv
  <1>1. Found \in Slots /\ Found' = Found /\ cache[Found] \in Tokens \cup {NoToken}
    BY DEF FetchOk, Found, Slots, TypeOK
  <1>0. /\ issued' \in 0..MaxTokens /\ issued' = issued + 1 /\ issued \in Nat
        /\ tok' = [tok EXCEPT ![c] = issued + 1] /\ refreshable' \subseteq Tokens
        /\ expired' = expired /\ lost' = FALSE
    BY TokenAssumption DEF FetchOk, Issue, TypeOK, Tokens
  <1>2. TypeOK'
    <2>1. tok' \in [Callers -> Tokens \cup {NoToken}] /\ pc' \in [Callers -> PCs]
      BY <1>0 DEF FetchOk, TypeOK, Goto, PCs, Leading, Tokens
    <2> QED BY <1>0, <2>1 DEF FetchOk, TypeOK, reset
  <1>3. Known' /\ LeaderKnown'
    BY <1>0, <1>1 DEF FetchOk, RefreshesLast, LastKept, NoToken, Known, LeaderKnown,
       Carried, MayHave, Goto, Leading, TypeOK, server, reset
  <1>4. AsksInNeed' /\ RefreshesLast'
    BY <1>0, <1>1 DEF FetchOk, AsksInNeed, RefreshesLast, LeaderKnown, Leading, Valid, Goto, TypeOK, server,
       reset
  <1>5. LastKept'
    BY <1>0, <1>1 DEF FetchOk, LastKept, LeaderKnown, Leading, Goto,
       TypeOK, server, reset
  <1>6. InHand'
    BY <1>0, <1>1 DEF FetchOk, InHand, Known, Valid, Carried, MayHave, Goto, TypeOK,
       server, reset
  <1>7. CallsReal'
    BY <1>0, <1>1 DEF FetchOk, CallsReal, Carried, MayHave, Goto, TypeOK, server, reset
  <1> QED BY <1>2, <1>3, <1>4, <1>5, <1>6, <1>7

(* The grant fails. *)
LEMMA FetchFailsInv == ASSUME IInv, NEW c \in Callers, FetchFails(c) PROVE IInv'
  <1> USE DEF IInv
  <1>1. Found \in Slots /\ Found' = Found /\ cache[Found] \in Tokens \cup {NoToken}
    BY DEF FetchFails, Found, Slots, TypeOK
  <1>2. TypeOK'
    BY <1>1 DEF FetchFails, TypeOK, Goto, PCs, server, reset, Leading
  <1>3. Known' /\ LeaderKnown'
    BY <1>1 DEF FetchFails, Known, LeaderKnown, Carried, MayHave, Goto, Leading, TypeOK,
       server, reset
  <1>4. AsksInNeed' /\ RefreshesLast'
    BY <1>1 DEF FetchFails, AsksInNeed, RefreshesLast, Valid, Goto, TypeOK, server,
       reset
  <1>5. LastKept'
    BY <1>1 DEF FetchFails, LastKept, Goto, TypeOK, server, reset
  <1>6. InHand'
    BY <1>1 DEF FetchFails, InHand, Known, Valid, Carried, MayHave, Goto, TypeOK,
       server, reset
  <1>7. CallsReal'
    BY <1>1 DEF FetchFails, CallsReal, Carried, MayHave, Goto, TypeOK, server, reset
  <1> QED BY <1>2, <1>3, <1>4, <1>5, <1>6, <1>7

(* The new token replaces the old entry. *)
LEMMA StoreInv == ASSUME IInv, NEW c \in Callers, Store(c) PROVE IInv'
  <1> USE DEF IInv
  <1>1. Found' = "key" /\ cache'[Found'] = tok[c]
    BY DEF Store, Found, Slots, TypeOK, InHand, Carried, MayHave, NoToken
  <1>2. TypeOK'
    BY <1>1 DEF Store, InHand, LeaderKnown, Slots, TypeOK, Goto, PCs, server, reset,
       Leading, Carried, MayHave
  <1>3. Known' /\ LeaderKnown'
    BY <1>1 DEF Store, InHand, LeaderKnown, Slots, Known, Carried, MayHave, Goto,
       Leading, TypeOK, server, reset
  <1>4. AsksInNeed' /\ RefreshesLast'
    BY <1>1 DEF Store, LeaderKnown, Leading, AsksInNeed, RefreshesLast, Valid, Goto,
       TypeOK, server, reset
  <1>5. LastKept'
    BY <1>1 DEF Store, InHand, LeaderKnown, Slots, LastKept, Goto, TypeOK, server,
       reset, Carried, MayHave
  <1>6. InHand'
    BY <1>1 DEF Store, InHand, LeaderKnown, Slots, Known, Valid, Carried, MayHave, Goto,
       TypeOK, server, reset
  <1>7. CallsReal'
    BY <1>1 DEF Store, InHand, LeaderKnown, Slots, CallsReal, Carried, MayHave, Goto,
       TypeOK, server, reset
  <1> QED BY <1>2, <1>3, <1>4, <1>5, <1>6, <1>7

(* The old key is dropped. *)
LEMMA DropInv == ASSUME IInv, NEW c \in Callers, Drop(c) PROVE IInv'
  <1> USE DEF IInv
  <1>1. cache'[Found'] \in {cache[Found], NoToken}
    BY DEF Drop, Found, Slots, TypeOK
  <1>2. TypeOK'
    BY <1>1 DEF Drop, Slots, NoToken, TypeOK, Goto, PCs, server, reset, Leading
  <1>3. Known' /\ LeaderKnown'
    BY <1>1 DEF Drop, Slots, NoToken, Known, LeaderKnown, Carried, MayHave, Goto,
       Leading, TypeOK, server, reset
  <1>4. AsksInNeed' /\ RefreshesLast'
    BY <1>1 DEF Drop, Slots, NoToken, LeaderKnown, Leading, AsksInNeed, RefreshesLast,
       Valid, Goto, TypeOK, server, reset
  <1>5. LastKept'
    BY <1>1 DEF Drop, Slots, NoToken, LastKept, Known, Goto, TypeOK, server, reset,
       Carried, MayHave
  <1>6. InHand'
    BY <1>1 DEF Drop, Slots, NoToken, InHand, Known, Valid, Carried, MayHave, Goto,
       TypeOK, server, reset
  <1>7. CallsReal'
    BY <1>1 DEF Drop, Slots, NoToken, CallsReal, Carried, MayHave, Goto, TypeOK, server,
       reset
  <1> QED BY <1>2, <1>3, <1>4, <1>5, <1>6, <1>7

(* The leader publishes its result. *)
LEMMA PublishInv == ASSUME IInv, NEW c \in Callers, Publish(c) PROVE IInv'
  <1> USE DEF IInv
  <1>1. Found \in Slots /\ Found' = Found /\ cache[Found] \in Tokens \cup {NoToken}
    BY DEF Publish, Found, Slots, TypeOK
  <1>2. TypeOK'
    BY <1>1 DEF Publish, InHand, Errors, Leading, TypeOK, Goto, PCs, server, reset,
       Carried, MayHave
  <1>3. Known' /\ LeaderKnown'
    BY <1>1 DEF Publish, InHand, Errors, Leading, Known, LeaderKnown, Carried, MayHave,
       Goto, TypeOK, server, reset
  <1>4. AsksInNeed' /\ RefreshesLast'
    BY <1>1 DEF Publish, InHand, Errors, Leading, AsksInNeed, RefreshesLast, Valid,
       Goto, TypeOK, server, reset, Carried, MayHave
  <1>5. LastKept'
    BY <1>1 DEF Publish, InHand, Errors, Leading, LastKept, Goto, TypeOK, server, reset,
       Carried, MayHave
  <1>6. InHand'
    BY <1>1 DEF Publish, InHand, Errors, Leading, Known, Valid, Carried, MayHave, Goto,
       TypeOK, server, reset
  <1>7. CallsReal'
    BY <1>1 DEF Publish, InHand, Errors, Leading, CallsReal, Carried, MayHave, Goto,
       TypeOK, server, reset
  <1> QED BY <1>2, <1>3, <1>4, <1>5, <1>6, <1>7

(* The leader leaves the table. *)
LEMMA ReleaseInv == ASSUME IInv, NEW c \in Callers, Release(c) PROVE IInv'
  <1> USE DEF IInv
  <1>1. Found \in Slots /\ Found' = Found /\ cache[Found] \in Tokens \cup {NoToken}
    BY DEF Release, Found, Slots, TypeOK
  <1>2. TypeOK'
    BY <1>1 DEF Release, Return, Ret, Errors, Slots, TypeOK, Goto, PCs, server, reset,
       Leading
  <1>3. Known' /\ LeaderKnown'
    BY TokenAssumption, <1>1 DEF Release, Return, Ret, Slots, Known, LeaderKnown,
       Carried, MayHave, Goto, Leading, TypeOK, server, reset
  <1>4. AsksInNeed' /\ RefreshesLast'
    BY <1>1 DEF Release, Return, Ret, Errors, Slots, AsksInNeed, RefreshesLast, Valid,
       Goto, TypeOK, server, reset
  <1>5. LastKept'
    BY <1>1 DEF Release, Return, Ret, Errors, Slots, LastKept, Goto, TypeOK, server,
       reset
  <1>6. InHand'
    BY <1>1 DEF Release, Return, Ret, Errors, Slots, InHand, Known, Valid, Carried,
       MayHave, Goto, TypeOK, server, reset
  <1>7. CallsReal'
    BY <1>1 DEF Release, Return, Ret, Errors, Slots, CallsReal, Carried, MayHave, Goto,
       TypeOK, server, reset
  <1> QED BY <1>2, <1>3, <1>4, <1>5, <1>6, <1>7
(* A token expires. *)
LEMMA ExpireInv == ASSUME IInv, NEW t \in Tokens, Expire(t) PROVE IInv'
  <1> USE DEF IInv
  <1>1. Found' = Found BY DEF Expire, Found
  <1>2. TypeOK' BY DEF Expire, TypeOK, reset
  <1>3. Known' /\ LeaderKnown' BY DEF Expire, reset, Known, LeaderKnown, Carried, MayHave
  <1>4. AsksInNeed' /\ RefreshesLast'
    BY <1>1 DEF Expire, AsksInNeed, RefreshesLast, Valid
  <1>5. LastKept' BY <1>1 DEF Expire, LastKept, reset
  <1>6. InHand' /\ CallsReal' BY DEF Expire, reset, InHand, CallsReal, Carried, MayHave
  <1> QED BY <1>2, <1>3, <1>4, <1>5, <1>6

(* The secrets are reset: every caller inside Token is one that the reset    *)
(* raced, and a leader's token is one that it overtook.                      *)
LEMMA ClearIfInv == ASSUME IInv, ClearIf PROVE IInv'
  <1> USE DEF IInv
  <1>1. cache'[Found'] = NoToken /\ \A s \in Slots : cache'[s] = NoToken
    BY DEF ClearIf, Found, Slots
  <1>2. TypeOK'
    BY TokenAssumption DEF ClearIf, TypeOK, Tokens, server
  <1>3. Known' /\ LeaderKnown'
    BY <1>1 DEF ClearIf, Known, LeaderKnown, server
  <1>4. AsksInNeed' /\ RefreshesLast'
    BY <1>1 DEF ClearIf, AsksInNeed, RefreshesLast, Valid, server
  <1>5. LastKept'
    BY <1>1 DEF ClearIf, LastKept, server
  <1>8. \A c \in Callers : pc[c] \in Leading => overtaken'
    BY TokenAssumption DEF ClearIf, LeaderKnown
  <1>6. InHand'
    BY <1>8 DEF ClearIf, InHand, Carried, MayHave, Leading, server
  <1>7. CallsReal'
    BY <1>8 DEF ClearIf, CallsReal, Carried, MayHave, Leading, server
  <1> QED BY <1>2, <1>3, <1>4, <1>5, <1>6, <1>7

LEMMA StepInv == IInv /\ [Next]_vars => IInv'
  <1> SUFFICES ASSUME IInv, [Next]_vars PROVE IInv' OBVIOUS
  <1>1. ASSUME NEW c \in Callers, Look(c) \/ Promote(c) \/ Lock(c) \/ WaitDone(c) \/ WaitCanceled(c)
        PROVE  IInv'
    BY <1>1, LookInv, PromoteInv, LockInv, WaitDoneInv, WaitCanceledInv
  <1>2. ASSUME NEW c \in Callers, Lead(c) PROVE IInv'
    BY <1>2, LookAgainInv, PromoteAgainInv, EntryInv, RefreshOkInv, RefreshFailsInv,
       FetchOkInv, FetchFailsInv, StoreInv, DropInv, PublishInv, ReleaseInv DEF Lead
  <1>3. ASSUME NEW t \in Tokens, Expire(t) PROVE IInv'
    BY <1>3, ExpireInv
  <1>4. CASE ClearIf
    BY <1>4, ClearIfInv
  <1>5. CASE UNCHANGED vars
    BY <1>5 DEF vars, IInv, TypeOK, Known, LeaderKnown, AsksInNeed, RefreshesLast,
       LastKept, InHand, CallsReal, Carried, MayHave, Valid, Found
  <1> QED BY <1>1, <1>2, <1>3, <1>4, <1>5 DEF Next, TokenStep

-----------------------------------------------------------------------------
(* The invariant of the token manager. *)
THEOREM TokenInvariant == Spec => []IInv
  BY InitInv, StepInv, PTL DEF Spec

(* Every variable of the manager and of its callers keeps its type. *)
THEOREM TypeCorrect == Spec => []TypeOK
  <1>1. IInv => TypeOK BY DEF IInv
  <1> QED BY <1>1, TokenInvariant, PTL

(* Manager.Token: one caller at a time asks the server, and only when the    *)
(* cache has no valid token.                                                 *)
THEOREM FetchIsSingle == Spec => []OneFetch
  <1>1. IInv => OneFetch BY DEF IInv, OneFetch, LeaderKnown, AsksInNeed
  <1> QED BY <1>1, TokenInvariant, PTL

(* obtainToken: the refresh token presented is that of the last token        *)
(* obtained, so one that bought a token is not presented again.              *)
THEOREM RefreshIsNewest == Spec => []RefreshNewest
  <1>1. IInv => RefreshNewest
    <2> SUFFICES ASSUME IInv PROVE RefreshNewest OBVIOUS
    <2> USE DEF IInv
    <2>1. inflight = None => \A d \in Callers : pc[d] # "store"
      BY TokenAssumption DEF LeaderKnown, Leading
    <2> QED BY <2>1 DEF RefreshNewest, RefreshesLast, LastKept
  <1> QED BY <1>1, TokenInvariant, PTL

(* Whoever returns a token, from the cache, as leader or as waiter, returns  *)
(* one that it may have.                                                     *)
LEMMA ReturnsReal == IInv /\ [Next]_vars =>
    [\A c \in Callers :
        pc[c] # "end" /\ pc'[c] = "end" /\ result'[c].err = "nil" =>
           /\ result'[c].token \in 1..issued'
           /\ result'[c].token \in stale' => c \in raced \/ overtaken']_vars
  <1> SUFFICES ASSUME IInv, Next, NEW c \in Callers,
                      pc[c] # "end", pc'[c] = "end", result'[c].err = "nil"
               PROVE  /\ MayHave(c, result'[c].token)
                      /\ issued' = issued /\ stale' = stale /\ overtaken' = overtaken
    BY DEF vars, MayHave
  <1> USE DEF IInv
  <1>1. ASSUME NEW d \in Callers, Promote(d) \/ WaitDone(d) \/ WaitCanceled(d) \/ Release(d)
        PROVE  d = c /\ issued' = issued /\ stale' = stale /\ overtaken' = overtaken
    BY <1>1 DEF Promote, WaitDone, WaitCanceled, Release, Return, Goto, TypeOK, server
  <1>2. CASE Promote(c)
    BY <1>1, <1>2 DEF Promote, Return, Ret, TypeOK, InHand, Carried, MayHave
  <1>3. CASE WaitDone(c)
    BY <1>1, <1>3 DEF WaitDone, Return, Ret, TypeOK, CallsReal, Carried, MayHave
  <1>4. CASE WaitCanceled(c)
    BY <1>4 DEF WaitCanceled, Return, Ret, TypeOK
  <1>5. CASE Release(c)
    BY <1>1, <1>5 DEF Release, Return, Ret, TypeOK, CallsReal, Carried, MayHave
  <1>6. ASSUME NEW d \in Callers, Look(d) \/ Lock(d) \/ LookAgain(d) \/ PromoteAgain(d) \/ Entry(d)
        PROVE  FALSE
    BY <1>6 DEF Look, Lock, LookAgain, PromoteAgain, Entry, Goto, TypeOK
  <1>7. ASSUME NEW d \in Callers, RefreshOk(d) \/ RefreshFails(d) \/ FetchOk(d) \/ FetchFails(d)
        PROVE  FALSE
    BY <1>7 DEF RefreshOk, RefreshFails, FetchOk, FetchFails, Goto, TypeOK
  <1>8. ASSUME NEW d \in Callers, Store(d) \/ Drop(d) \/ Publish(d)
        PROVE  FALSE
    BY <1>8 DEF Store, Drop, Publish, Goto, TypeOK
  <1>9. ASSUME (\E t \in Tokens : Expire(t)) \/ ClearIf PROVE FALSE
    BY <1>9 DEF Expire, ClearIf
  <1> QED BY <1>1, <1>2, <1>3, <1>4, <1>5, <1>6, <1>7, <1>8, <1>9 DEF Next, TokenStep, Lead

(* What Manager.Token returns was issued by the server; a token of before    *)
(* the last ClearIf goes only to callers it raced, unless it overtook a      *)
(* leader.                                                                   *)
THEOREM ServedTokensAreReal == Spec => ServedIsReal
  BY TokenInvariant, ReturnsReal, PTL DEF Spec, ServedIsReal
-----------------------------------------------------------------------------
-----------------------------------------------------------------------------
(* A process has a database open exactly while it checks or uses it, and    *)
(* every file that has a name was created.                                  *)
HandleInv ==
    /\ \A p \in Procs : h[p] # NoFile <=> stage[p] \in {"check", "ready"}
    /\ \A k \in Copies : copy[k] <= files

(* Names: a file has one name, its WAL at most the one that goes with it. *)
NameInv ==
    /\ \A k, l \in Copies : copy[k] # NoFile /\ copy[k] = copy[l] => k = l
    /\ \A k \in Copies : copy[k] # NoFile => copy[k] # main
    /\ \A k \in Copies : copyWal[k] = NoFile \/ copyWal[k] = copy[k]
    /\ main # NoFile => wal = NoFile \/ wal = main

(* One process recovers at a time, and what it moves is what it found. *)
RecoverInv ==
    /\ \A p, q \in Procs : Recovering(p) /\ Recovering(q) => p = q
    /\ \A p \in Procs : stage[p] \in {"pick", "movemain"} => main # NoFile
    /\ \A p \in Procs : stage[p] = "movemain" => dst[p] \in Copies /\ copy[dst[p]] = NoFile
    /\ \A p \in Procs : stage[p] = "movewal" =>
          /\ dst[p] \in Copies /\ main = NoFile /\ copy[dst[p]] # NoFile
          /\ copyWal[dst[p]] = NoFile
          /\ wal = NoFile \/ wal = copy[dst[p]]

(* The database i is whole where it is: its WAL has the name that goes with *)
(* its file, or is about to get it.                                         *)
Whole(i) ==
    \/ main = i /\ wal = i
    \/ \E k \in Copies : copy[k] = i /\ CopyWhole(k)

(* What a process writes to can be read again, and a database without a WAL *)
(* holds in its file all that was committed.                                *)
WholeInv ==
    /\ \A p \in Procs : h[p] # NoFile => Whole(h[p])
    /\ main # NoFile /\ wal # main => base[main] = cur[main]

(* An entry is on disk. *)
Readable(r) == r \in InPlace \/ \E k \in Copies : r \in InCopy(k)
KeptInv == \A r \in acked : Readable(r)

(* An imported entry implies the marker, and what was deleted is not there. *)
ImportInv ==
    /\ \A i \in Files : ~cur[i].marker =>
          cur[i].rows \cap Legacy = {} /\ removed[i] \cap Legacy = {}
    /\ \A i \in Files : removed[i] \cap cur[i].rows = {}

(* All but the types holds as long as no two processes had to do with a     *)
(* recovery.                                                                *)
AloneInv == NameInv /\ RecoverInv /\ WholeInv /\ KeptInv /\ ImportInv
HistoryInv == HistoryTypeOK /\ HandleInv /\ (~overlap => AloneInv)
-----------------------------------------------------------------------------
LEMMA FileOf ==
    ASSUME NEW i \in 0..MaxFiles, i # NoFile
    PROVE  i \in Files
BY HistoryAssumption DEF Files, NoFile

(* The types, and who has which file open. *)
LEMMA HistoryTyped ==
    ASSUME HistoryTypeOK, HandleInv, [HistoryNext]_historyVars
    PROVE  HistoryTypeOK' /\ HandleInv'
<1> USE DEF disk, data, proc, ghost
<1>1. CASE UNCHANGED historyVars
  BY <1>1 DEF HistoryTypeOK, HandleInv, historyVars
<1>2. ASSUME NEW p \in Procs, stage[p] \in {"check", "ready"}
      PROVE  h[p] \in Files /\ h[p] # NoFile
  BY <1>2, FileOf DEF HistoryTypeOK, HandleInv
<1>3. ASSUME NEW p \in Procs, Start(p) PROVE HistoryTypeOK' /\ HandleInv'
  BY <1>3 DEF Start, Enter, HistoryTypeOK, HandleInv
<1>4. ASSUME NEW p \in Procs, OpenDB(p) PROVE HistoryTypeOK' /\ HandleInv'
  <2>1. CASE main # NoFile
    <3>1. main \in Files /\ main \in 0..MaxFiles
      BY <2>1, FileOf, HistoryAssumption DEF HistoryTypeOK
    <3>2. cur' \in [Files -> Contents]
      BY <1>4, <2>1, <3>1 DEF OpenDB, HistoryTypeOK
    <3> QED BY <1>4, <2>1, <3>1, <3>2 DEF OpenDB, Enter, HistoryTypeOK, HandleInv
  <2>2. CASE main = NoFile
    <3>1. files + 1 \in 0..MaxFiles /\ files + 1 # NoFile /\ files' = files + 1 /\ files \in Nat
      BY <1>4, <2>2, HistoryAssumption DEF OpenDB, HistoryTypeOK, NoFile
    <3>2. \A k \in Copies : copy[k] <= files + 1
      BY <3>1, HistoryAssumption DEF HistoryTypeOK, HandleInv
    <3> QED BY <1>4, <2>2, <3>1, <3>2 DEF OpenDB, Enter, HistoryTypeOK, HandleInv
  <2> QED BY <2>1, <2>2
<1>5. ASSUME NEW p \in Procs, WriteBack(p), stage[p] \in {"check", "ready"}
      PROVE  base' \in [Files -> Contents] /\ wal' \in 0..files
  <2>1. main \in Files => cur[main] \in Contents
    BY DEF HistoryTypeOK
  <2> QED BY <1>2, <1>5, <2>1 DEF WriteBack, HistoryTypeOK, NoFile
<1>6. ASSUME NEW p \in Procs, CheckOk(p) PROVE HistoryTypeOK' /\ HandleInv'
  BY <1>6 DEF CheckOk, Enter, HistoryTypeOK, HandleInv
<1>7. ASSUME NEW p \in Procs, stage[p] = "check", GiveUp(p),
             stage' = [stage EXCEPT ![p] = "closed"] \/ stage' = [stage EXCEPT ![p] = "pick"],
             UNCHANGED <<main, copy, copyWal, files, cur, bad, mig, dst, acked, removed>>,
             faults' \in 0..MaxFaults, overlap' \in BOOLEAN
      PROVE  HistoryTypeOK' /\ HandleInv'
  <2>1. base' \in [Files -> Contents] /\ wal' \in 0..files
    BY <1>5, <1>7 DEF GiveUp, HistoryTypeOK
  <2> QED BY <1>7, <2>1, HistoryAssumption DEF GiveUp, HistoryTypeOK, HandleInv, NoFile
<1>8. ASSUME NEW p \in Procs, CheckCorrupt(p) PROVE HistoryTypeOK' /\ HandleInv'
  <2>1. overlap' \in BOOLEAN /\ faults' \in 0..MaxFaults
    BY <1>8 DEF CheckCorrupt, HistoryTypeOK
  <2>2. stage' = [stage EXCEPT ![p] = "closed"] \/ stage' = [stage EXCEPT ![p] = "pick"]
    BY <1>8 DEF CheckCorrupt, Enter
  <2> QED BY <1>7, <1>8, <2>1, <2>2 DEF CheckCorrupt
<1>9. Fault => faults' \in 0..MaxFaults
  BY HistoryAssumption DEF Fault, HistoryTypeOK
<1>10. ASSUME NEW p \in Procs, OpenFails(p) PROVE HistoryTypeOK' /\ HandleInv'
  <2>1. overlap' \in BOOLEAN
    BY <1>10 DEF OpenFails, HistoryTypeOK
  <2> QED BY <1>7, <1>9, <1>10, <2>1 DEF OpenFails, Enter
<1>11. ASSUME NEW p \in Procs, NextQuarantinePath(p) PROVE HistoryTypeOK' /\ HandleInv'
  BY <1>11 DEF NextQuarantinePath, Enter, HistoryTypeOK, HandleInv
<1>12. ASSUME NEW p \in Procs, MoveMain(p) PROVE HistoryTypeOK' /\ HandleInv'
  <2>1. main \in 0..MaxFiles /\ main <= files /\ NoFile \in 0..files
    BY HistoryAssumption DEF HistoryTypeOK, NoFile
  <2>2. copy' \in [Copies -> 0..MaxFiles] /\ \A k \in Copies : copy'[k] <= files
    BY <1>12, <2>1 DEF MoveMain, HistoryTypeOK, HandleInv
  <2> QED BY <1>12, <2>1, <2>2 DEF MoveMain, Enter, HistoryTypeOK, HandleInv
<1>13. ASSUME NEW p \in Procs, RenameWal(p)
       PROVE  copyWal' \in [Copies -> 0..MaxFiles] /\ wal' \in 0..files
  <2>1. wal \in 0..MaxFiles /\ NoFile \in 0..files
    BY HistoryAssumption DEF HistoryTypeOK, NoFile
  <2> QED BY <1>13, <2>1 DEF RenameWal, HistoryTypeOK
<1>14. ASSUME NEW p \in Procs, MoveWal(p) PROVE HistoryTypeOK' /\ HandleInv'
  BY <1>13, <1>14 DEF MoveWal, Enter, HistoryTypeOK, HandleInv
<1>15. ASSUME NEW p \in Procs, Cut(p) PROVE acked' \subseteq Rows /\ overlap' \in BOOLEAN
  BY <1>15 DEF Cut, HistoryTypeOK
<1>16. ASSUME NEW p \in Procs, MoveFails(p) PROVE HistoryTypeOK' /\ HandleInv'
  <2>1. copyWal' \in [Copies -> 0..MaxFiles] /\ wal' \in 0..files
    BY <1>13, <1>16 DEF MoveFails, HistoryTypeOK
  <2>2. acked' \subseteq Rows /\ overlap' \in BOOLEAN /\ faults' \in 0..MaxFaults
    BY <1>9, <1>15, <1>16 DEF MoveFails, HistoryTypeOK
  <2> QED BY <1>16, <2>1, <2>2 DEF MoveFails, Enter, HistoryTypeOK, HandleInv
<1>17. ASSUME NEW p \in Procs, MigrateJSON(p) PROVE HistoryTypeOK' /\ HandleInv'
  <2>1. h[p] \in Files /\ cur[h[p]] \in Contents
    BY <1>2, <1>17 DEF MigrateJSON, HistoryTypeOK
  <2>2. cur' \in [Files -> Contents]
    BY <1>17, <2>1 DEF MigrateJSON, HistoryTypeOK, Contents
  <2> QED BY <1>17, <2>2 DEF MigrateJSON, HistoryTypeOK, HandleInv
<1>18. ASSUME NEW p \in Procs, MigrateFails(p) PROVE HistoryTypeOK' /\ HandleInv'
  BY <1>9, <1>18 DEF MigrateFails, HistoryTypeOK, HandleInv
<1>19. ASSUME NEW p \in Procs, NEW r \in Rows, Append(p, r) PROVE HistoryTypeOK' /\ HandleInv'
  <2>1. h[p] \in Files /\ cur[h[p]] \in Contents
    BY <1>2, <1>19 DEF Append, HistoryTypeOK
  <2>2. cur' \in [Files -> Contents] /\ acked' \subseteq Rows
    BY <1>19, <2>1 DEF Append, HistoryTypeOK, Contents
  <2> QED BY <1>19, <2>2 DEF Append, HistoryTypeOK, HandleInv
<1>20. ASSUME NEW p \in Procs, NEW r \in Rows \cup Legacy, Delete(p, r)
       PROVE  HistoryTypeOK' /\ HandleInv'
  <2>1. h[p] \in Files /\ cur[h[p]] \in Contents /\ removed[h[p]] \in SUBSET (Rows \cup Legacy)
    BY <1>2, <1>20 DEF Delete, HistoryTypeOK
  <2>2. /\ cur' \in [Files -> Contents] /\ acked' \subseteq Rows
        /\ removed' \in [Files -> SUBSET (Rows \cup Legacy)]
    BY <1>20, <2>1 DEF Delete, HistoryTypeOK, Contents
  <2> QED BY <1>20, <2>2 DEF Delete, HistoryTypeOK, HandleInv
<1>21. ASSUME NEW p \in Procs, Checkpoint(p) PROVE HistoryTypeOK' /\ HandleInv'
  <2>1. h[p] \in Files /\ cur[h[p]] \in Contents
    BY <1>2, <1>21 DEF Checkpoint, HistoryTypeOK
  <2> QED BY <1>21, <2>1 DEF Checkpoint, HistoryTypeOK, HandleInv
<1>22. ASSUME NEW p \in Procs, Exit(p)
       PROVE  /\ stage' \in [Procs -> {"down", "closed", "check", "ready", "pick", "movemain", "movewal"}]
              /\ h' \in [Procs -> 0..MaxFiles] /\ dst' \in [Procs -> {NoFile} \cup Copies]
              /\ retry' \in [Procs -> BOOLEAN] /\ mig' \in [Procs -> BOOLEAN]
              /\ \A q \in Procs : h'[q] # NoFile <=> stage'[q] \in {"check", "ready"}
  BY <1>22, HistoryAssumption DEF Exit, Enter, HistoryTypeOK, HandleInv, NoFile
<1>23. ASSUME NEW p \in Procs, Close(p) PROVE HistoryTypeOK' /\ HandleInv'
  <2>1. base' \in [Files -> Contents] /\ wal' \in 0..files
    BY <1>5, <1>23 DEF Close
  <2> QED BY <1>22, <1>23, <2>1 DEF Close, HistoryTypeOK, HandleInv
<1>24. ASSUME NEW p \in Procs, Crash(p) PROVE HistoryTypeOK' /\ HandleInv'
  BY <1>9, <1>15, <1>22, <1>24 DEF Crash, HistoryTypeOK, HandleInv
<1>25. CASE Corrupt
  <2>1. main \in Files
    BY <1>25, FileOf, HistoryAssumption DEF Corrupt, HistoryTypeOK
  <2> QED BY <1>9, <1>25, <2>1 DEF Corrupt, HistoryTypeOK, HandleInv
<1> QED BY <1>1, <1>3, <1>4, <1>6, <1>8, <1>10, <1>11, <1>12, <1>14, <1>16, <1>17, <1>18, <1>19,
           <1>20, <1>21, <1>23, <1>24, <1>25 DEF HistoryNext, Ensure

-----------------------------------------------------------------------------
(* As long as names and contents stay, and the same quarantines are between *)
(* their renames, the same entries can be read.                             *)
LEMMA NamesKept ==
    ASSUME UNCHANGED <<main, wal, copy, copyWal, base, cur>>,
           \A k \in Copies : Moving(k)' <=> Moving(k)
    PROVE  /\ \A r : Readable(r) => Readable(r)'
           /\ \A i : Whole(i) => Whole(i)'
<1>1. \A k \in Copies : CopyWhole(k)' <=> CopyWhole(k)
  BY DEF CopyWhole
<1>2. \A k \in Copies : InCopy(k)' = InCopy(k)
  BY <1>1 DEF InCopy
<1>3. InPlace' = InPlace
  BY DEF InPlace
<1>4. \A r : Readable(r) => Readable(r)'
  BY <1>2, <1>3 DEF Readable
<1>5. \A i : Whole(i) => Whole(i)'
  BY <1>1 DEF Whole
<1> QED BY <1>4, <1>5

(* Recoveries that stay where they are. *)
LEMMA SameRecoveries ==
    ASSUME RecoverInv, UNCHANGED <<main, wal, copy, copyWal>>,
           \A q \in Procs : Recovering(q)' => stage'[q] = stage[q] /\ dst'[q] = dst[q]
    PROVE  RecoverInv'
<1>1. \A q \in Procs : Recovering(q)' => Recovering(q)
  BY DEF Recovering
<1>2. \A p, q \in Procs : Recovering(p)' /\ Recovering(q)' => p = q
  BY <1>1 DEF RecoverInv
<1>3. \A q \in Procs : stage'[q] \in {"pick", "movemain", "movewal"}
                         => stage'[q] = stage[q] /\ dst'[q] = dst[q]
  BY DEF Recovering
<1> QED BY <1>2, <1>3 DEF RecoverInv

(* A step that touches no name and no content, and opens nothing. *)
LEMMA QuietStep ==
    ASSUME AloneInv, UNCHANGED <<main, wal, copy, copyWal, base, cur, removed, acked>>,
           \A k \in Copies : Moving(k)' <=> Moving(k),
           \A q \in Procs : h'[q] = h[q] \/ h'[q] = NoFile
    PROVE  NameInv' /\ WholeInv' /\ KeptInv' /\ ImportInv'
<1>1. NameInv' /\ ImportInv'
  BY DEF AloneInv, NameInv, ImportInv
<1>2. KeptInv'
  BY NamesKept DEF AloneInv, KeptInv
<1>3. WholeInv'
  BY NamesKept DEF AloneInv, WholeInv
<1> QED BY <1>1, <1>2, <1>3

(* One process goes on, and is between no renames before or after. *)
LEMMA SameMoves ==
    ASSUME HistoryTypeOK, NEW p \in Procs, NEW l, stage' = [stage EXCEPT ![p] = l],
           stage[p] # "movewal", l # "movewal",
           \A q \in Procs \ {p} : dst'[q] = dst[q]
    PROVE  \A k \in Copies : Moving(k)' <=> Moving(k)
BY DEF Moving, HistoryTypeOK

(* A whole database is found under one name only. *)
LEMMA WholeNames ==
    ASSUME NameInv, NEW i, i # NoFile, Whole(i)
    PROVE  /\ main = i => wal = i
           /\ \A k \in Copies : copy[k] = i => CopyWhole(k)
BY DEF NameInv, Whole

(* All that is committed to a whole database can be read. *)
LEMMA WholeReads ==
    ASSUME NEW i, i # NoFile, Whole(i), NEW r \in cur[i].rows
    PROVE  Readable(r)
<1>1. CASE main = i /\ wal = i
  BY <1>1 DEF Readable, InPlace
<1>2. ASSUME NEW k \in Copies, copy[k] = i, CopyWhole(k) PROVE Readable(r)
  BY <1>2 DEF Readable, InCopy
<1> QED BY <1>1, <1>2 DEF Whole

(* A transaction, or a checkpoint, on a whole database: what it does not    *)
(* remove can be read as before.                                            *)
LEMMA DataStep ==
    ASSUME HistoryTypeOK, NameInv, NEW d \in Files, d # NoFile, Whole(d),
           UNCHANGED <<main, wal, copy, copyWal, stage, dst>>,
           \A i \in Files \ {d} : cur'[i] = cur[i] /\ base'[i] = base[i]
    PROVE  /\ \A i : Whole(i) => Whole(i)'
           /\ \A r : Readable(r) /\ (r \in cur[d].rows => r \in cur'[d].rows) => Readable(r)'
<1>1. \A k \in Copies : CopyWhole(k)' <=> CopyWhole(k)
  BY DEF CopyWhole, Moving
<1>2. \A i : Whole(i) => Whole(i)'
  BY <1>1 DEF Whole
<1>3. ASSUME NEW r, Readable(r), r \in cur[d].rows => r \in cur'[d].rows
      PROVE  Readable(r)'
  <2>1. CASE r \in InPlace
    <3>1. main # NoFile /\ main \in Files
      BY <2>1, FileOf, HistoryAssumption DEF InPlace, HistoryTypeOK
    <3>2. r \in InPlace'
      BY <1>3, <2>1, <3>1, WholeNames DEF InPlace
    <3> QED BY <3>2 DEF Readable
  <2>2. ASSUME NEW k \in Copies, r \in InCopy(k)
        PROVE  Readable(r)'
    <3>1. copy[k] # NoFile /\ copy[k] \in Files
      BY <2>2, FileOf DEF InCopy, HistoryTypeOK
    <3>2. r \in InCopy(k)'
      BY <1>1, <1>3, <2>2, <3>1, WholeNames DEF InCopy
    <3> QED BY <3>2 DEF Readable
  <2> QED BY <1>3, <2>1, <2>2 DEF Readable
<1> QED BY <1>2, <1>3

-----------------------------------------------------------------------------
(* Each action, while no two processes have to do with a recovery. *)
LEMMA StartAlone ==
    ASSUME HistoryTypeOK, AloneInv, NEW p \in Procs, Start(p)
    PROVE  AloneInv'
<1>1. UNCHANGED <<main, wal, copy, copyWal, base, cur, removed, acked, h, dst>>
  BY DEF Start, disk, data, ghost
<1>2. stage[p] = "down" /\ stage' = [stage EXCEPT ![p] = "closed"]
  BY DEF Start, Enter
<1>3. \A k \in Copies : Moving(k)' <=> Moving(k)
  BY <1>1, <1>2, SameMoves
<1>4. NameInv' /\ WholeInv' /\ KeptInv' /\ ImportInv'
  BY <1>1, <1>3, QuietStep
<1>5. RecoverInv'
  BY <1>1, <1>2, SameRecoveries DEF AloneInv, Recovering, HistoryTypeOK
<1> QED BY <1>4, <1>5 DEF AloneInv

LEMMA OpenAlone ==
    ASSUME HistoryTypeOK, HandleInv, AloneInv, NEW p \in Procs, OpenDB(p), ~overlap'
    PROVE  AloneInv'
<1>1. stage[p] = "closed" /\ stage' = [stage EXCEPT ![p] = "check"] /\ dst' = dst
  BY DEF OpenDB, Enter
<1>2. \A q \in Procs : ~Recovering(q)
  BY <1>1 DEF OpenDB, Company, Recovering
<1>3. \A q \in Procs : ~Recovering(q)'
  BY <1>1, <1>2 DEF Recovering, HistoryTypeOK
<1>4. RecoverInv'
  BY <1>3 DEF RecoverInv, Recovering
<1>5. \A k \in Copies : ~Moving(k) /\ ~Moving(k)'
  BY <1>2, <1>3 DEF Moving, Recovering
<1>6. UNCHANGED <<copy, copyWal, base, acked, removed>>
  BY DEF OpenDB
<1>7. \A k \in Copies : CopyWhole(k)' <=> CopyWhole(k)
  BY <1>5, <1>6 DEF CopyWhole
<1>8. \A q \in Procs \ {p} : h'[q] = h[q]
  BY DEF OpenDB, HistoryTypeOK
<1>9. CASE main # NoFile
  <2>1. main' = main /\ wal' = main /\ h'[p] = main
    BY <1>9 DEF OpenDB, HistoryTypeOK
  <2>2. wal # main => ~Others(p, main)
    BY <1>9, WholeNames DEF Others, AloneInv, WholeInv
  <2>3. main \in Files
    BY <1>9, FileOf, HistoryAssumption DEF HistoryTypeOK
  <2>4. cur' = cur
    BY <1>9, <2>2, <2>3 DEF OpenDB, AloneInv, WholeInv, HistoryTypeOK
  <2>5. InPlace \subseteq InPlace'
    BY <1>6, <1>9, <2>1, <2>4 DEF InPlace, AloneInv, WholeInv
  <2>6. \A k \in Copies : InCopy(k)' = InCopy(k)
    BY <1>6, <1>7, <2>4 DEF InCopy
  <2>7. KeptInv'
    BY <1>6, <2>5, <2>6 DEF AloneInv, KeptInv, Readable
  <2>8. \A i : Whole(i) => Whole(i)'
    BY <1>6, <1>7, <2>1 DEF Whole
  <2>9. WholeInv'
    BY <1>8, <2>1, <2>8 DEF AloneInv, WholeInv, Whole
  <2>10. NameInv' /\ ImportInv'
    BY <1>6, <1>9, <2>1, <2>4 DEF AloneInv, NameInv, ImportInv
  <2> QED BY <1>4, <2>7, <2>9, <2>10 DEF AloneInv
<1>10. CASE main = NoFile
  <2>1. /\ main' = files + 1 /\ wal' = files + 1 /\ h'[p] = files + 1 /\ cur' = cur
        /\ files + 1 # NoFile /\ files \in Nat
    BY <1>10, HistoryAssumption DEF OpenDB, HistoryTypeOK, NoFile
  <2>2. InPlace = {}
    BY <1>10 DEF InPlace
  <2>3. \A k \in Copies : InCopy(k)' = InCopy(k)
    BY <1>6, <1>7, <2>1 DEF InCopy
  <2>4. KeptInv'
    BY <1>6, <2>2, <2>3 DEF AloneInv, KeptInv, Readable
  <2>5. \A i : i # NoFile /\ Whole(i) => Whole(i)'
    BY <1>6, <1>7, <1>10 DEF Whole
  <2>6. WholeInv'
    BY <1>8, <2>1, <2>5 DEF AloneInv, WholeInv, Whole
  <2>7. \A k \in Copies : copy[k] # files + 1
    BY <2>1, HistoryAssumption DEF HandleInv, HistoryTypeOK
  <2>8. NameInv' /\ ImportInv'
    BY <1>6, <2>1, <2>7 DEF AloneInv, NameInv, ImportInv
  <2> QED BY <1>4, <2>4, <2>6, <2>8 DEF AloneInv
<1> QED BY <1>9, <1>10

LEMMA CheckOkAlone ==
    ASSUME HistoryTypeOK, AloneInv, NEW p \in Procs, CheckOk(p)
    PROVE  AloneInv'
<1>1. UNCHANGED <<main, wal, copy, copyWal, base, cur, removed, acked, h, dst>>
  BY DEF CheckOk, disk, data, ghost
<1>2. stage[p] = "check" /\ stage' = [stage EXCEPT ![p] = "ready"]
  BY DEF CheckOk, Enter
<1>3. \A k \in Copies : Moving(k)' <=> Moving(k)
  BY <1>1, <1>2, SameMoves
<1>4. NameInv' /\ WholeInv' /\ KeptInv' /\ ImportInv'
  BY <1>1, <1>3, QuietStep
<1>5. RecoverInv'
  BY <1>1, <1>2, SameRecoveries DEF AloneInv, Recovering, HistoryTypeOK
<1> QED BY <1>4, <1>5 DEF AloneInv

(* The handle is given up, with the WAL written back or not. *)
LEMMA LetGo ==
    ASSUME HistoryTypeOK, HandleInv, AloneInv, NEW p \in Procs, stage[p] \in {"check", "ready"},
           WriteBack(p) \/ UNCHANGED <<base, wal>>,
           NEW l \in {"down", "closed", "pick"}, stage' = [stage EXCEPT ![p] = l],
           h' = [h EXCEPT ![p] = NoFile], \A q \in Procs \ {p} : dst'[q] = dst[q],
           UNCHANGED <<main, copy, copyWal, cur, acked, removed>>,
           l = "pick" => main # NoFile /\ ~Company(p)
    PROVE  AloneInv'
<1>1. \A k \in Copies : Moving(k)' <=> Moving(k)
  BY SameMoves
<1>2. \A q \in Procs : IF q = p THEN h'[q] = NoFile /\ stage'[q] = l
                       ELSE h'[q] = h[q] /\ stage'[q] = stage[q] /\ dst'[q] = dst[q]
  BY DEF HistoryTypeOK
<1>3. \A q \in Procs \ {p} : Recovering(q)' <=> Recovering(q)
  BY <1>2 DEF Recovering
<1>4. Recovering(p)' => l = "pick"
  BY <1>2 DEF Recovering
<1>5. \A q, s \in Procs : Recovering(q)' /\ Recovering(s)' => q = s
  BY <1>3, <1>4 DEF Company, AloneInv, RecoverInv
<1>6. CASE h[p] = main /\ ~Others(p, main) /\ WriteBack(p)
  <2>1. h[p] # NoFile /\ Whole(h[p]) /\ main \in Files
    BY <1>6, FileOf DEF HandleInv, HistoryTypeOK, AloneInv, WholeInv
  <2>2. wal = main
    BY <1>6, <2>1, WholeNames DEF AloneInv
  <2>3. wal' = NoFile /\ base' = [base EXCEPT ![main] = cur[main]]
    BY <1>6, <2>2 DEF WriteBack
  <2>4. NameInv' /\ ImportInv'
    BY <2>3 DEF AloneInv, NameInv, ImportInv
  <2>5. InPlace' = InPlace
    BY <2>1, <2>2, <2>3 DEF InPlace, HistoryTypeOK
  <2>6. \A k \in Copies : copy[k] # NoFile => copy[k] # main /\ (CopyWhole(k)' <=> CopyWhole(k))
    BY <1>1, <2>2, <2>3 DEF CopyWhole, AloneInv, NameInv
  <2>7. ASSUME NEW k \in Copies PROVE InCopy(k)' = InCopy(k)
    <3>1. CASE copy[k] = NoFile
      BY <3>1 DEF InCopy
    <3>2. CASE copy[k] # NoFile
      <4>1. copy[k] \in Files
        BY <3>2, FileOf DEF HistoryTypeOK
      <4>2. base'[copy[k]] = base[copy[k]]
        BY <2>3, <2>6, <3>2, <4>1 DEF HistoryTypeOK
      <4> QED BY <2>6, <3>2, <4>2 DEF InCopy
    <3> QED BY <3>1, <3>2
  <2>8. KeptInv'
    BY <2>5, <2>7 DEF AloneInv, KeptInv, Readable
  <2>9. \A i : i # NoFile /\ i # main /\ Whole(i) => Whole(i)'
    BY <2>6 DEF Whole
  <2>10. \A q \in Procs : h'[q] # NoFile => h'[q] = h[q] /\ h[q] # main
    BY <1>2, <1>6 DEF Others
  <2>11. WholeInv'
    BY <2>1, <2>3, <2>9, <2>10 DEF AloneInv, WholeInv, HistoryTypeOK
  <2>12. RecoverInv'
    BY <1>2, <1>5, <2>1, <2>3 DEF AloneInv, RecoverInv
  <2> QED BY <2>4, <2>8, <2>11, <2>12 DEF AloneInv
<1>7. CASE UNCHANGED <<base, wal>>
  <2>1. \A q \in Procs : h'[q] = h[q] \/ h'[q] = NoFile
    BY <1>2
  <2>2. NameInv' /\ WholeInv' /\ KeptInv' /\ ImportInv'
    BY <1>1, <1>7, <2>1, QuietStep
  <2>3. RecoverInv'
    BY <1>2, <1>5, <1>7 DEF AloneInv, RecoverInv
  <2> QED BY <2>2, <2>3 DEF AloneInv
<1> QED BY <1>6, <1>7 DEF WriteBack

LEMMA CheckCorruptAlone ==
    ASSUME HistoryTypeOK, HandleInv, AloneInv, NEW p \in Procs, CheckCorrupt(p), ~overlap'
    PROVE  AloneInv'
<1> DEFINE l == IF ShouldRecover(p) THEN "pick" ELSE "closed"
<1>1. /\ stage[p] = "check" /\ stage' = [stage EXCEPT ![p] = l]
      /\ dst' = dst /\ UNCHANGED <<main, copy, copyWal, cur, acked, removed>>
  BY DEF CheckCorrupt, Enter
<1>2. h' = [h EXCEPT ![p] = NoFile] /\ (WriteBack(p) \/ UNCHANGED <<base, wal>>)
  BY DEF CheckCorrupt, GiveUp
<1>3. ~Company(p)
  BY DEF CheckCorrupt
<1>4. l \in {"down", "closed", "pick"} /\ (l = "pick" => main # NoFile)
  BY DEF ShouldRecover
<1> HIDE DEF l
<1> QED BY <1>1, <1>2, <1>3, <1>4, LetGo

LEMMA OpenFailsAlone ==
    ASSUME HistoryTypeOK, HandleInv, AloneInv, NEW p \in Procs, OpenFails(p)
    PROVE  AloneInv'
<1>1. /\ stage[p] = "check" /\ stage' = [stage EXCEPT ![p] = "closed"]
      /\ dst' = dst /\ UNCHANGED <<main, copy, copyWal, cur, acked, removed>>
  BY DEF OpenFails, Enter, ghost
<1>2. h' = [h EXCEPT ![p] = NoFile] /\ (WriteBack(p) \/ UNCHANGED <<base, wal>>)
  BY DEF OpenFails, GiveUp
<1> QED BY <1>1, <1>2, LetGo

LEMMA CloseAlone ==
    ASSUME HistoryTypeOK, HandleInv, AloneInv, NEW p \in Procs, Close(p)
    PROVE  AloneInv'
<1>1. /\ stage[p] = "ready" /\ stage' = [stage EXCEPT ![p] = "down"]
      /\ UNCHANGED <<main, copy, copyWal, cur, acked, removed>>
      /\ h' = [h EXCEPT ![p] = NoFile] /\ WriteBack(p)
  BY DEF Close, Exit, Enter, ghost
<1>2. \A q \in Procs \ {p} : dst'[q] = dst[q]
  BY DEF Close, Exit, HistoryTypeOK
<1> QED BY <1>1, <1>2, LetGo

LEMMA PickAlone ==
    ASSUME HistoryTypeOK, AloneInv, NEW p \in Procs, NextQuarantinePath(p)
    PROVE  AloneInv'
<1>1. UNCHANGED <<main, wal, copy, copyWal, base, cur, removed, acked, h>>
  BY DEF NextQuarantinePath, disk, data, ghost
<1>2. stage[p] = "pick" /\ stage' = [stage EXCEPT ![p] = "movemain"]
  BY DEF NextQuarantinePath, Enter
<1>3. \A q \in Procs \ {p} : dst'[q] = dst[q]
  BY DEF NextQuarantinePath, HistoryTypeOK
<1>4. dst'[p] \in Copies /\ copy[dst'[p]] = NoFile
  BY DEF NextQuarantinePath, HistoryTypeOK
<1>5. \A k \in Copies : Moving(k)' <=> Moving(k)
  BY <1>2, <1>3, SameMoves
<1>6. NameInv' /\ WholeInv' /\ KeptInv' /\ ImportInv'
  BY <1>1, <1>5, QuietStep
<1>7. \A q \in Procs : stage'[q] = IF q = p THEN "movemain" ELSE stage[q]
  BY <1>2 DEF HistoryTypeOK
<1>8. \A q \in Procs : Recovering(q)' => Recovering(q)
  BY <1>2, <1>7 DEF Recovering
<1>9. \A q, s \in Procs : Recovering(q)' /\ Recovering(s)' => q = s
  BY <1>8 DEF AloneInv, RecoverInv
<1>10. main # NoFile
  BY <1>2 DEF AloneInv, RecoverInv
<1>11. RecoverInv'
  BY <1>1, <1>3, <1>4, <1>7, <1>9, <1>10 DEF AloneInv, RecoverInv
<1> QED BY <1>6, <1>11 DEF AloneInv

LEMMA MoveMainAlone ==
    ASSUME HistoryTypeOK, AloneInv, NEW p \in Procs, MoveMain(p)
    PROVE  AloneInv'
<1>1. /\ stage[p] = "movemain" /\ stage' = [stage EXCEPT ![p] = "movewal"]
      /\ UNCHANGED <<wal, copyWal, base, cur, h, dst, acked, removed>> /\ main' = NoFile
  BY DEF MoveMain, Enter, data, ghost
<1>k. PICK k0 \in Copies : k0 = dst[p]
  BY <1>1 DEF AloneInv, RecoverInv
<1>2. main # NoFile /\ copy[k0] = NoFile /\ copyWal[k0] = NoFile
  BY <1>1, <1>k DEF AloneInv, RecoverInv, NameInv
<1>3. copy' = [copy EXCEPT ![k0] = main]
  BY <1>2, <1>k DEF MoveMain
<1>4. \A k \in Copies : copy'[k] = IF k = k0 THEN main ELSE copy[k]
  BY <1>3 DEF HistoryTypeOK
<1>5. \A q \in Procs : stage'[q] = IF q = p THEN "movewal" ELSE stage[q]
  BY <1>1 DEF HistoryTypeOK
<1>6. \A q \in Procs \ {p} : ~Recovering(q) /\ ~Recovering(q)'
  BY <1>1, <1>5 DEF AloneInv, RecoverInv, Recovering
<1>7. \A k \in Copies : ~Moving(k) /\ (Moving(k)' <=> k = k0)
  BY <1>1, <1>k, <1>5, <1>6 DEF Moving, Recovering
<1>8. wal = NoFile \/ wal = main
  BY <1>2 DEF AloneInv, NameInv
<1>9. /\ CopyWhole(k0)' <=> wal = main
      /\ \A k \in Copies \ {k0} : CopyWhole(k)' <=> CopyWhole(k)
  BY <1>1, <1>2, <1>4, <1>7 DEF CopyWhole
<1>10. InCopy(k0)' = InPlace
  BY <1>1, <1>2, <1>4, <1>9 DEF InCopy, InPlace
<1>11. \A k \in Copies \ {k0} : InCopy(k)' = InCopy(k)
  BY <1>1, <1>4, <1>9 DEF InCopy
<1>12. InCopy(k0) = {}
  BY <1>2 DEF InCopy
<1>13. \A r : Readable(r) => Readable(r)'
  BY <1>2, <1>10, <1>11, <1>12 DEF Readable
<1>14. KeptInv'
  BY <1>1, <1>13 DEF AloneInv, KeptInv
<1>15. \A i : i # NoFile /\ Whole(i) => Whole(i)'
  BY <1>2, <1>4, <1>9 DEF Whole
<1>16. WholeInv'
  BY <1>1, <1>15 DEF AloneInv, WholeInv
<1>17. NameInv' /\ ImportInv'
  BY <1>1, <1>2, <1>4 DEF AloneInv, NameInv, ImportInv
<1>18. RecoverInv'
  BY <1>1, <1>k, <1>2, <1>4, <1>5, <1>6, <1>8 DEF AloneInv, RecoverInv, Recovering
<1> QED BY <1>14, <1>16, <1>17, <1>18 DEF AloneInv

(* The quarantine between its renames: what its WAL is, and who is there. *)
LEMMA BetweenRenames ==
    ASSUME HistoryTypeOK, AloneInv, NEW p \in Procs, stage[p] = "movewal",
           stage' = [stage EXCEPT ![p] = "closed"] \/ stage' = [stage EXCEPT ![p] = "down"]
    PROVE  /\ dst[p] \in Copies /\ copy[dst[p]] # NoFile /\ copy[dst[p]] \in Files
           /\ main = NoFile /\ copyWal[dst[p]] = NoFile /\ wal \in {NoFile, copy[dst[p]]}
           /\ \A k \in Copies : (Moving(k) <=> k = dst[p]) /\ ~Moving(k)'
           /\ RecoverInv'
<1>1. /\ dst[p] \in Copies /\ copy[dst[p]] # NoFile
      /\ main = NoFile /\ copyWal[dst[p]] = NoFile /\ wal \in {NoFile, copy[dst[p]]}
  BY DEF AloneInv, RecoverInv
<1>2. copy[dst[p]] \in Files
  BY <1>1, FileOf DEF HistoryTypeOK
<1>3. \A q \in Procs : q # p => ~Recovering(q)
  BY DEF AloneInv, RecoverInv, Recovering
<1>4. \A q \in Procs : ~Recovering(q)'
  BY <1>3 DEF Recovering, HistoryTypeOK
<1>5. \A k \in Copies : (Moving(k) <=> k = dst[p]) /\ ~Moving(k)'
  BY <1>3, <1>4 DEF Moving, Recovering
<1>6. RecoverInv'
  BY <1>4 DEF RecoverInv, Recovering
<1> QED BY <1>1, <1>2, <1>5, <1>6

(* The second rename. *)
LEMMA RenameWalAlone ==
    ASSUME HistoryTypeOK, AloneInv, NEW p \in Procs, stage[p] = "movewal", RenameWal(p),
           stage' = [stage EXCEPT ![p] = "closed"],
           UNCHANGED <<main, copy, base, cur, h, acked, removed>>
    PROVE  AloneInv'
<1>k. PICK k0 \in Copies : k0 = dst[p]
  BY BetweenRenames
<1>1. /\ copy[k0] # NoFile
      /\ main = NoFile /\ copyWal[k0] = NoFile /\ wal \in {NoFile, copy[k0]}
      /\ \A k \in Copies : (Moving(k) <=> k = k0) /\ ~Moving(k)'
      /\ RecoverInv'
  BY <1>k, BetweenRenames
<1>2. wal' = NoFile /\ \A k \in Copies : copyWal'[k] = IF k = k0 THEN wal ELSE copyWal[k]
  BY <1>1, <1>k DEF RenameWal, HistoryTypeOK
<1>3. \A k \in Copies : copy[k] # NoFile => (CopyWhole(k)' <=> CopyWhole(k))
  BY <1>1, <1>2 DEF CopyWhole
<1>4. \A k \in Copies : InCopy(k)' = InCopy(k)
  BY <1>3 DEF InCopy
<1>5. InPlace' = InPlace
  BY <1>1 DEF InPlace
<1>6. KeptInv'
  BY <1>4, <1>5 DEF AloneInv, KeptInv, Readable
<1>7. \A i : i # NoFile /\ Whole(i) => Whole(i)'
  BY <1>1, <1>3 DEF Whole
<1>8. WholeInv'
  BY <1>1, <1>7 DEF AloneInv, WholeInv
<1>9. NameInv' /\ ImportInv'
  BY <1>1, <1>2 DEF AloneInv, NameInv, ImportInv
<1> QED BY <1>1, <1>6, <1>8, <1>9 DEF AloneInv

(* A recovery ends between its renames. *)
LEMMA CutAlone ==
    ASSUME HistoryTypeOK, HandleInv, AloneInv, NEW p \in Procs, stage[p] = "movewal", Cut(p),
           stage' = [stage EXCEPT ![p] = "closed"] \/ stage' = [stage EXCEPT ![p] = "down"],
           \A q \in Procs : h'[q] = h[q] \/ h'[q] = NoFile,
           UNCHANGED <<main, wal, copy, copyWal, base, cur, removed>>, ~overlap'
    PROVE  AloneInv'
<1>k. PICK k0 \in Copies : k0 = dst[p]
  BY BetweenRenames
<1>i. PICK i \in Files : i = copy[k0]
  BY <1>k, BetweenRenames
<1>1. /\ i # NoFile
      /\ main = NoFile /\ copyWal[k0] = NoFile /\ wal \in {NoFile, i}
      /\ \A k \in Copies : (Moving(k) <=> k = k0) /\ ~Moving(k)'
      /\ RecoverInv'
  BY <1>k, <1>i, BetweenRenames
<1>2. acked' = acked \ (cur[i].rows \ base[i].rows) /\ ~Others(p, i)
  BY <1>1, <1>k, <1>i DEF Cut
<1>3. h[p] = NoFile
  BY DEF HandleInv
<1>4. \A q \in Procs : h[q] # i
  BY <1>1, <1>2, <1>3 DEF Others
<1>6. ~CopyWhole(k0)' /\ \A k \in Copies \ {k0} : CopyWhole(k)' <=> CopyWhole(k)
  BY <1>1, <1>i DEF CopyWhole
<1>7. \A k \in Copies \ {k0} : InCopy(k)' = InCopy(k)
  BY <1>6 DEF InCopy
<1>8. InCopy(k0)' = base[i].rows /\ InCopy(k0) \subseteq base[i].rows \cup cur[i].rows
  BY <1>1, <1>i, <1>6 DEF InCopy
<1>9. InPlace = {}
  BY <1>1 DEF InPlace
<1>10. \A r \in acked' : Readable(r)'
  BY <1>1, <1>2, <1>7, <1>8, <1>9 DEF AloneInv, KeptInv, Readable
<1>11. \A j : j # NoFile /\ j # i /\ Whole(j) => Whole(j)'
  BY <1>1, <1>i, <1>6 DEF Whole
<1>12. WholeInv'
  BY <1>1, <1>4, <1>11 DEF AloneInv, WholeInv
<1>13. NameInv' /\ ImportInv'
  BY DEF AloneInv, NameInv, ImportInv
<1> QED BY <1>1, <1>10, <1>12, <1>13 DEF AloneInv, KeptInv

LEMMA MoveWalAlone ==
    ASSUME HistoryTypeOK, AloneInv, NEW p \in Procs, MoveWal(p)
    PROVE  AloneInv'
<1>1. /\ stage[p] = "movewal" /\ RenameWal(p) /\ stage' = [stage EXCEPT ![p] = "closed"]
      /\ UNCHANGED <<main, copy, base, cur, h, acked, removed>>
  BY DEF MoveWal, Enter, data, ghost
<1> QED BY <1>1, RenameWalAlone

(* A process leaves for a stage outside of the recovery, without having     *)
(* moved anything.                                                          *)
LEMMA LeaveAlone ==
    ASSUME HistoryTypeOK, AloneInv, NEW p \in Procs, stage[p] # "movewal",
           NEW l \in {"closed", "down"}, stage' = [stage EXCEPT ![p] = l],
           \A q \in Procs \ {p} : dst'[q] = dst[q],
           \A q \in Procs : h'[q] = h[q] \/ h'[q] = NoFile,
           UNCHANGED <<main, wal, copy, copyWal, base, cur, removed, acked>>
    PROVE  AloneInv'
<1>1. \A k \in Copies : Moving(k)' <=> Moving(k)
  BY SameMoves
<1>2. NameInv' /\ WholeInv' /\ KeptInv' /\ ImportInv'
  BY <1>1, QuietStep
<1>3. \A q \in Procs : Recovering(q)' => stage'[q] = stage[q] /\ dst'[q] = dst[q]
  BY DEF Recovering, HistoryTypeOK
<1>4. RecoverInv'
  BY <1>3, SameRecoveries DEF AloneInv
<1> QED BY <1>2, <1>4 DEF AloneInv

LEMMA MoveFailsAlone ==
    ASSUME HistoryTypeOK, HandleInv, AloneInv, NEW p \in Procs, MoveFails(p), ~overlap'
    PROVE  AloneInv'
<1>1. /\ stage[p] \in {"movemain", "movewal"} /\ stage' = [stage EXCEPT ![p] = "closed"]
      /\ UNCHANGED <<main, copy, base, cur, h, removed>>
  BY DEF MoveFails, Enter, data
<1>2. \A q \in Procs \ {p} : dst'[q] = dst[q]
  BY DEF MoveFails, HistoryTypeOK
<1>3. CASE stage[p] = "movewal" /\ RenameWal(p) /\ UNCHANGED acked
  BY <1>1, <1>3, RenameWalAlone
<1>4. CASE stage[p] = "movewal" /\ Cut(p) /\ UNCHANGED <<wal, copyWal>>
  BY <1>1, <1>4, CutAlone
<1>5. CASE stage[p] = "movemain" /\ Cut(p) /\ UNCHANGED <<wal, copyWal>>
  <2>1. acked' = acked
    BY <1>5 DEF Cut
  <2> QED BY <1>1, <1>2, <1>5, <2>1, LeaveAlone
<1> QED BY <1>1, <1>3, <1>4, <1>5 DEF MoveFails

LEMMA CrashAlone ==
    ASSUME HistoryTypeOK, HandleInv, AloneInv, NEW p \in Procs, Crash(p), ~overlap'
    PROVE  AloneInv'
<1>1. /\ stage' = [stage EXCEPT ![p] = "down"] /\ Cut(p)
      /\ UNCHANGED <<main, wal, copy, copyWal, base, cur, removed>>
  BY DEF Crash, Exit, Enter, disk, data
<1>2. /\ \A q \in Procs \ {p} : dst'[q] = dst[q]
      /\ \A q \in Procs : h'[q] = h[q] \/ h'[q] = NoFile
  BY DEF Crash, Exit, HistoryTypeOK
<1>3. CASE stage[p] = "movewal"
  BY <1>1, <1>2, <1>3, CutAlone
<1>4. CASE stage[p] # "movewal"
  <2>1. acked' = acked
    BY <1>1, <1>4 DEF Cut
  <2> QED BY <1>1, <1>2, <1>4, <2>1, LeaveAlone
<1> QED BY <1>3, <1>4

(* The database a process uses is whole. *)
LEMMA HeldWhole ==
    ASSUME HistoryTypeOK, HandleInv, AloneInv, NEW p \in Procs, stage[p] = "ready"
    PROVE  h[p] \in Files /\ h[p] # NoFile /\ Whole(h[p])
BY FileOf DEF HistoryTypeOK, HandleInv, AloneInv, WholeInv

(* A step on one database that is whole leaves names, recoveries and        *)
(* handles alone.                                                           *)
LEMMA DataAlone ==
    ASSUME HistoryTypeOK, AloneInv, NEW d \in Files, d # NoFile, Whole(d),
           UNCHANGED <<main, wal, copy, copyWal, stage, h, dst>>,
           \A i \in Files \ {d} : cur'[i] = cur[i] /\ base'[i] = base[i]
    PROVE  NameInv' /\ RecoverInv' /\ WholeInv'
<1>1. NameInv'
  BY DEF AloneInv, NameInv
<1>2. RecoverInv'
  BY SameRecoveries DEF AloneInv, Recovering
<1>3. \A i : Whole(i) => Whole(i)'
  BY DataStep DEF AloneInv
<1>4. main # NoFile /\ wal # main => main \in Files /\ main # d
  BY FileOf, WholeNames, HistoryAssumption DEF AloneInv, HistoryTypeOK
<1>5. WholeInv'
  BY <1>3, <1>4 DEF AloneInv, WholeInv
<1> QED BY <1>1, <1>2, <1>5

LEMMA MigrateAlone ==
    ASSUME HistoryTypeOK, HandleInv, AloneInv, NEW p \in Procs, MigrateJSON(p)
    PROVE  AloneInv'
<1>1. PICK d \in Files : d = h[p] /\ d # NoFile /\ Whole(d)
  BY HeldWhole DEF MigrateJSON
<1>2. UNCHANGED <<main, wal, copy, copyWal, stage, h, dst, base, acked, removed>>
  BY DEF MigrateJSON, disk, ghost
<1>3. \A i \in Files \ {d} : cur'[i] = cur[i] /\ base'[i] = base[i]
  BY <1>1, <1>2 DEF MigrateJSON, HistoryTypeOK
<1>4. /\ cur[d].rows \subseteq cur'[d].rows
      /\ \/ cur'[d] = cur[d]
         \/ /\ cur'[d].marker = TRUE /\ ~cur[d].marker
            /\ cur'[d].rows = cur[d].rows \/ cur'[d].rows = Legacy
  BY <1>1 DEF MigrateJSON, HistoryTypeOK, Contents
<1>5. NameInv' /\ RecoverInv' /\ WholeInv'
  BY <1>1, <1>2, <1>3, DataAlone
<1>6. KeptInv'
  BY <1>1, <1>2, <1>3, <1>4, DataStep DEF AloneInv, KeptInv
<1>7. ImportInv'
  <2>1. ASSUME NEW i \in Files
        PROVE  /\ ~cur'[i].marker => cur'[i].rows \cap Legacy = {} /\ removed[i] \cap Legacy = {}
               /\ removed[i] \cap cur'[i].rows = {}
    <3>1. CASE i # d
      BY <1>3, <3>1 DEF AloneInv, ImportInv
    <3>2. CASE i = d
      BY <1>4, <3>2 DEF AloneInv, ImportInv
    <3> QED BY <3>1, <3>2
  <2> QED BY <1>2, <2>1 DEF ImportInv
<1> QED BY <1>5, <1>6, <1>7 DEF AloneInv

LEMMA MigrateFailsAlone ==
    ASSUME HistoryTypeOK, AloneInv, NEW p \in Procs, MigrateFails(p)
    PROVE  AloneInv'
<1>1. UNCHANGED <<main, wal, copy, copyWal, stage, h, dst, base, cur, acked, removed>>
  BY DEF MigrateFails, disk, data, ghost
<1>2. \A k \in Copies : Moving(k)' <=> Moving(k)
  BY <1>1 DEF Moving
<1>3. NameInv' /\ WholeInv' /\ KeptInv' /\ ImportInv'
  BY <1>1, <1>2, QuietStep
<1>4. RecoverInv'
  BY <1>1, SameRecoveries DEF AloneInv, Recovering
<1> QED BY <1>3, <1>4 DEF AloneInv

LEMMA AppendAlone ==
    ASSUME HistoryTypeOK, HandleInv, AloneInv, NEW p \in Procs, NEW r \in Rows, Append(p, r)
    PROVE  AloneInv'
<1>1. PICK d \in Files : d = h[p] /\ d # NoFile /\ Whole(d)
  BY HeldWhole DEF Append
<1>2. UNCHANGED <<main, wal, copy, copyWal, stage, h, dst, base, removed>>
  BY DEF Append, disk, proc
<1>3. \A i \in Files \ {d} : cur'[i] = cur[i] /\ base'[i] = base[i]
  BY <1>1, <1>2 DEF Append, HistoryTypeOK
<1>4. cur'[d].rows = cur[d].rows \cup {r} /\ cur'[d].marker = cur[d].marker
  BY <1>1 DEF Append, HistoryTypeOK, Contents
<1>5. NameInv' /\ RecoverInv' /\ WholeInv'
  BY <1>1, <1>2, <1>3, DataAlone
<1>6. KeptInv'
  <2>1. \A s : Readable(s) => Readable(s)'
    BY <1>1, <1>2, <1>3, <1>4, DataStep DEF AloneInv
  <2>2. Whole(d)'
    BY <1>1, <1>2, <1>3, DataStep DEF AloneInv
  <2>3. r \in cur'[d].rows
    BY <1>4
  <2>4. Readable(r)'
    <3>1. CASE main' = d /\ wal' = d
      BY <1>1, <2>3, <3>1 DEF Readable, InPlace
    <3>2. ASSUME NEW k \in Copies, copy'[k] = d, CopyWhole(k)' PROVE Readable(r)'
      BY <1>1, <2>3, <3>2 DEF Readable, InCopy
    <3> QED BY <2>2, <3>1, <3>2 DEF Whole
  <2>5. acked' = acked \cup {r}
    BY DEF Append
  <2> QED BY <2>1, <2>4, <2>5 DEF AloneInv, KeptInv
<1>7. ImportInv'
  <2>1. r \notin Legacy /\ r \notin removed[d]
    BY HistoryAssumption DEF Append
  <2>2. ASSUME NEW i \in Files
        PROVE  /\ ~cur'[i].marker => cur'[i].rows \cap Legacy = {} /\ removed[i] \cap Legacy = {}
               /\ removed[i] \cap cur'[i].rows = {}
    <3>1. CASE i # d
      BY <1>3, <3>1 DEF AloneInv, ImportInv
    <3>2. CASE i = d
      BY <1>4, <2>1, <3>2 DEF AloneInv, ImportInv
    <3> QED BY <3>1, <3>2
  <2> QED BY <1>2, <2>2 DEF ImportInv
<1> QED BY <1>5, <1>6, <1>7 DEF AloneInv

LEMMA DeleteAlone ==
    ASSUME HistoryTypeOK, HandleInv, AloneInv, NEW p \in Procs, NEW r \in Rows \cup Legacy,
           Delete(p, r)
    PROVE  AloneInv'
<1>1. PICK d \in Files : d = h[p] /\ d # NoFile /\ Whole(d)
  BY HeldWhole DEF Delete
<1>2. UNCHANGED <<main, wal, copy, copyWal, stage, h, dst, base>>
  BY DEF Delete, disk, proc
<1>3. \A i \in Files \ {d} : cur'[i] = cur[i] /\ base'[i] = base[i] /\ removed'[i] = removed[i]
  BY <1>1, <1>2 DEF Delete, HistoryTypeOK
<1>4. /\ cur'[d].rows = cur[d].rows \ {r} /\ cur'[d].marker = cur[d].marker
      /\ removed'[d] = removed[d] \cup {r}
  BY <1>1 DEF Delete, HistoryTypeOK, Contents
<1>5. NameInv' /\ RecoverInv' /\ WholeInv'
  BY <1>1, <1>2, <1>3, DataAlone
<1>6. KeptInv'
  <2>1. acked' = acked \ {r}
    BY DEF Delete
  <2> QED BY <1>1, <1>2, <1>3, <1>4, <2>1, DataStep DEF AloneInv, KeptInv
<1>7. ImportInv'
  <2>1. r \in cur[d].rows
    BY <1>1 DEF Delete, Rowset
  <2>2. ASSUME NEW i \in Files
        PROVE  /\ ~cur'[i].marker => cur'[i].rows \cap Legacy = {} /\ removed'[i] \cap Legacy = {}
               /\ removed'[i] \cap cur'[i].rows = {}
    <3>1. CASE i # d
      BY <1>3, <3>1 DEF AloneInv, ImportInv
    <3>2. CASE i = d
      BY <1>4, <2>1, <3>2 DEF AloneInv, ImportInv
    <3> QED BY <3>1, <3>2
  <2> QED BY <2>2 DEF ImportInv
<1> QED BY <1>5, <1>6, <1>7 DEF AloneInv

LEMMA CheckpointAlone ==
    ASSUME HistoryTypeOK, HandleInv, AloneInv, NEW p \in Procs, Checkpoint(p)
    PROVE  AloneInv'
<1>1. PICK d \in Files : d = h[p] /\ d # NoFile /\ Whole(d)
  BY HeldWhole DEF Checkpoint
<1>2. UNCHANGED <<main, wal, copy, copyWal, stage, h, dst, cur, acked, removed>>
  BY DEF Checkpoint, disk, proc, ghost
<1>3. \A i \in Files \ {d} : cur'[i] = cur[i] /\ base'[i] = base[i]
  BY <1>1, <1>2 DEF Checkpoint, HistoryTypeOK
<1>4. NameInv' /\ RecoverInv' /\ WholeInv'
  BY <1>1, <1>2, <1>3, DataAlone
<1>5. KeptInv'
  BY <1>1, <1>2, <1>3, DataStep DEF AloneInv, KeptInv
<1>6. ImportInv'
  BY <1>2 DEF AloneInv, ImportInv
<1> QED BY <1>4, <1>5, <1>6 DEF AloneInv

LEMMA CorruptAlone ==
    ASSUME AloneInv, Corrupt
    PROVE  AloneInv'
<1>1. UNCHANGED <<main, wal, copy, copyWal, stage, h, dst, base, cur, acked, removed>>
  BY DEF Corrupt, disk, proc, ghost
<1>2. \A k \in Copies : Moving(k)' <=> Moving(k)
  BY <1>1 DEF Moving
<1>3. NameInv' /\ WholeInv' /\ KeptInv' /\ ImportInv'
  BY <1>1, <1>2, QuietStep
<1>4. RecoverInv'
  BY <1>1, SameRecoveries DEF AloneInv, Recovering
<1> QED BY <1>3, <1>4 DEF AloneInv

(* An overlap is never forgotten. *)
LEMMA OverlapStays ==
    ASSUME HistoryTypeOK, [HistoryNext]_historyVars, ~overlap'
    PROVE  ~overlap
<1> USE DEF ghost
<1>1. CASE UNCHANGED historyVars
  BY <1>1 DEF historyVars
<1>2. CASE Corrupt
  BY <1>2 DEF Corrupt
<1>3. ASSUME NEW p \in Procs, Ensure(p) \/ Crash(p)
      PROVE  ~overlap
  BY <1>3 DEF Ensure, OpenDB, CheckOk, CheckCorrupt, OpenFails, NextQuarantinePath, MoveMain,
              MoveWal, MoveFails, Crash, Cut
<1>4. ASSUME NEW p \in Procs,
             \/ Start(p) \/ MigrateJSON(p) \/ MigrateFails(p) \/ Checkpoint(p) \/ Close(p)
             \/ \E r \in Rows : Append(p, r)
             \/ \E r \in Rows \cup Legacy : Delete(p, r)
      PROVE  ~overlap
  BY <1>4 DEF Start, MigrateJSON, MigrateFails, Checkpoint, Close, Append, Delete
<1> QED BY <1>1, <1>2, <1>3, <1>4 DEF HistoryNext

LEMMA HistoryStart == HistoryInit => HistoryInv
<1> SUFFICES ASSUME HistoryInit PROVE HistoryInv
  OBVIOUS
<1>1. 0 \in 0..MaxFiles /\ 0 \in 0..MaxFaults /\ 0 \in 0..0 /\ Empty \in Contents
  BY HistoryAssumption DEF Empty, Contents
<1>2. HistoryTypeOK
  BY <1>1 DEF HistoryInit, HistoryTypeOK, NoFile
<1>3. \A p \in Procs : h[p] # NoFile <=> stage[p] \in {"check", "ready"}
  BY DEF HistoryInit
<1>4. \A k \in Copies : copy[k] <= files
  BY DEF HistoryInit, NoFile
<1>5. HistoryTypeOK /\ HandleInv
  BY <1>2, <1>3, <1>4 DEF HandleInv
<1>6. NameInv /\ RecoverInv
  BY DEF HistoryInit, NameInv, RecoverInv, Recovering, NoFile
<1>7. WholeInv /\ KeptInv
  BY DEF HistoryInit, WholeInv, KeptInv
<1>8. ImportInv
  BY DEF HistoryInit, ImportInv, Empty
<1> QED BY <1>5, <1>6, <1>7, <1>8 DEF HistoryInv, AloneInv

LEMMA HistoryStep ==
    ASSUME HistoryInv, [HistoryNext]_historyVars
    PROVE  HistoryInv'
<1>1. HistoryTypeOK' /\ HandleInv'
  BY HistoryTyped DEF HistoryInv
<1>2. ASSUME ~overlap' PROVE AloneInv'
  <2>1. HistoryTypeOK /\ HandleInv /\ AloneInv
    BY <1>2, OverlapStays DEF HistoryInv
  <2>2. CASE UNCHANGED historyVars
    <3>1. UNCHANGED <<main, wal, copy, copyWal, stage, h, dst, base, cur, acked, removed>>
      BY <2>2 DEF historyVars
    <3>2. \A k \in Copies : Moving(k)' <=> Moving(k)
      BY <3>1 DEF Moving
    <3>3. NameInv' /\ WholeInv' /\ KeptInv' /\ ImportInv'
      BY <2>1, <3>1, <3>2, QuietStep
    <3>4. RecoverInv'
      BY <2>1, <3>1, SameRecoveries DEF AloneInv, Recovering
    <3> QED BY <3>3, <3>4 DEF AloneInv
  <2>3. CASE Corrupt
    BY <2>1, <2>3, CorruptAlone
  <2>4. ASSUME NEW p \in Procs, Ensure(p)
        PROVE  AloneInv'
    BY <1>2, <2>1, <2>4, OpenAlone, CheckOkAlone, CheckCorruptAlone, OpenFailsAlone, PickAlone,
       MoveMainAlone, MoveWalAlone, MoveFailsAlone DEF Ensure
  <2>5. ASSUME NEW p \in Procs,
               Start(p) \/ Crash(p) \/ MigrateJSON(p) \/ MigrateFails(p) \/ Checkpoint(p) \/ Close(p)
        PROVE  AloneInv'
    BY <1>2, <2>1, <2>5, StartAlone, CrashAlone, MigrateAlone, MigrateFailsAlone, CheckpointAlone,
       CloseAlone
  <2>6. ASSUME NEW p \in Procs, NEW r \in Rows, Append(p, r)
        PROVE  AloneInv'
    BY <2>1, <2>6, AppendAlone
  <2>7. ASSUME NEW p \in Procs, NEW r \in Rows \cup Legacy, Delete(p, r)
        PROVE  AloneInv'
    BY <2>1, <2>7, DeleteAlone
  <2> QED BY <2>2, <2>3, <2>4, <2>5, <2>6, <2>7 DEF HistoryNext
<1> QED BY <1>1, <1>2 DEF HistoryInv

LEMMA HistoryInvariant == HistorySpec => []HistoryInv
BY HistoryStart, HistoryStep, PTL DEF HistorySpec

-----------------------------------------------------------------------------
(* The types of the store's state, whatever the processes do. *)
THEOREM HistoryTypeCorrect == HistorySpec => []HistoryTypeOK
<1>1. HistoryInv => HistoryTypeOK
  BY DEF HistoryInv
<1> QED BY <1>1, HistoryInvariant, PTL

(* openWithRecover, quarantineDB, Append and Close: what Append has           *)
(* acknowledged is in history.db or in a quarantined copy, for any number of  *)
(* processes, kills, failed calls, corruptions and recoveries, as long as no  *)
(* two processes meet in a recovery and apart from what a recovery cut        *)
(* between its renames leaves behind.                                         *)
THEOREM HistoryEntriesKept == HistorySpec => []EntriesKept
<1>1. HistoryInv => EntriesKept
  <2> SUFFICES ASSUME HistoryInv, ~overlap, NEW r \in acked
               PROVE  r \in InPlace \cup UNION {InCopy(k) : k \in Copies}
    BY DEF EntriesKept
  <2>1. Readable(r)
    BY DEF HistoryInv, AloneInv, KeptInv
  <2> QED BY <2>1 DEF Readable
<1> QED BY <1>1, HistoryInvariant, PTL

(* MigrateJSON and Delete: an entry deleted from a database does not come     *)
(* back to it; the marker keeps the import from running twice.                *)
THEOREM HistoryDeletedStaysAway == HistorySpec => []DeletedStaysAway
<1>1. HistoryInv => DeletedStaysAway
  BY DEF HistoryInv, AloneInv, ImportInv, DeletedStaysAway
<1> QED BY <1>1, HistoryInvariant, PTL

(* MoveMain is the only step that gives a copy its name, and takes a free one *)
(* as long as no two processes recover at once.                               *)
LEMMA CopyStep ==
    ASSUME HistoryInv, [HistoryNext]_historyVars, NEW k \in Copies, ~overlap, copy[k] # NoFile
    PROVE  copy'[k] = copy[k]
<1> USE DEF disk
<1>1. ASSUME NEW p \in Procs, MoveMain(p)
      PROVE  copy'[k] = copy[k]
  <2>1. dst[p] \in Copies /\ copy[dst[p]] = NoFile
    BY <1>1 DEF MoveMain, HistoryInv, AloneInv, RecoverInv
  <2> QED BY <1>1, <2>1 DEF MoveMain, HistoryInv, HistoryTypeOK
<1>2. ASSUME NEW p \in Procs, Ensure(p), ~MoveMain(p)
      PROVE  copy'[k] = copy[k]
  BY <1>2 DEF Ensure, OpenDB, CheckOk, CheckCorrupt, OpenFails, NextQuarantinePath, MoveWal, MoveFails
<1>3. ASSUME NEW p \in Procs,
             \/ Start(p) \/ Crash(p) \/ MigrateJSON(p) \/ MigrateFails(p) \/ Checkpoint(p)
             \/ Close(p)
             \/ \E r \in Rows : Append(p, r)
             \/ \E r \in Rows \cup Legacy : Delete(p, r)
      PROVE  copy'[k] = copy[k]
  BY <1>3 DEF Start, Crash, MigrateJSON, MigrateFails, Checkpoint, Close, Append, Delete
<1>4. CASE Corrupt \/ UNCHANGED historyVars
  BY <1>4 DEF Corrupt, historyVars
<1> QED BY <1>1, <1>2, <1>3, <1>4 DEF HistoryNext

(* "numbered suffixes keep each quarantined copy instead of overwriting one"  *)
(* (quarantineDB): as long as no two processes meet in a recovery no step     *)
(* replaces, renames or removes a quarantined database.                       *)
THEOREM HistoryCopiesKeptAlone ==
    HistorySpec =>
        [][\A k \in Copies : ~overlap /\ copy[k] # NoFile => copy'[k] = copy[k]]_historyVars
<1>1. HistoryInv /\ [HistoryNext]_historyVars =>
          [\A k \in Copies : ~overlap /\ copy[k] # NoFile => copy'[k] = copy[k]]_historyVars
  BY CopyStep
<1> QED BY <1>1, HistoryInvariant, PTL DEF HistorySpec

(* A process that has the history to itself never meets another one. *)
LEMMA NoCompany ==
    ASSUME \A p, q \in Procs : p = q
    PROVE  HistorySpec => []~overlap
<1>1. HistoryInit => ~overlap
  BY DEF HistoryInit
<1>2. ~overlap /\ [HistoryNext]_historyVars => ~overlap'
  <2> SUFFICES ASSUME ~overlap, [HistoryNext]_historyVars PROVE ~overlap'
    OBVIOUS
  <2> USE DEF ghost
  <2>1. ASSUME NEW p \in Procs PROVE ~Company(p) /\ \A i : ~Others(p, i)
    BY DEF Company, Others
  <2>2. ASSUME NEW p \in Procs, Ensure(p) \/ Crash(p)
        PROVE  ~overlap'
    BY <2>1, <2>2 DEF Ensure, OpenDB, CheckOk, CheckCorrupt, OpenFails, NextQuarantinePath,
                      MoveMain, MoveWal, MoveFails, Crash, Cut
  <2>3. ASSUME NEW p \in Procs,
               \/ Start(p) \/ MigrateJSON(p) \/ MigrateFails(p) \/ Checkpoint(p) \/ Close(p)
               \/ \E r \in Rows : Append(p, r)
               \/ \E r \in Rows \cup Legacy : Delete(p, r)
        PROVE  ~overlap'
    BY <2>3 DEF Start, MigrateJSON, MigrateFails, Checkpoint, Close, Append, Delete
  <2>4. CASE Corrupt \/ UNCHANGED historyVars
    BY <2>4 DEF Corrupt, historyVars
  <2> QED BY <2>2, <2>3, <2>4 DEF HistoryNext
<1> QED BY <1>1, <1>2, PTL DEF HistorySpec

(* With one Resterm at a time the promise of quarantineDB is unconditional:   *)
(* no recovery ever overwrites a quarantined copy, every acknowledged entry   *)
(* that a cut recovery has not lost can be read, and no deleted one returns.  *)
THEOREM HistoryOneProcess ==
    ASSUME \A p, q \in Procs : p = q
    PROVE  HistorySpec =>
               /\ CopiesKept
               /\ [](acked \subseteq InPlace \cup UNION {InCopy(k) : k \in Copies})
               /\ [](\A i \in Files : removed[i] \cap cur[i].rows = {})
<1>1. HistoryInv /\ ~overlap /\ [HistoryNext]_historyVars =>
          [\A k \in Copies : copy[k] # NoFile => copy'[k] = copy[k]]_historyVars
  BY CopyStep
<1>2. EntriesKept /\ ~overlap => acked \subseteq InPlace \cup UNION {InCopy(k) : k \in Copies}
  BY DEF EntriesKept
<1>3. DeletedStaysAway /\ ~overlap => \A i \in Files : removed[i] \cap cur[i].rows = {}
  BY DEF DeletedStaysAway
<1>4. HistorySpec => []~overlap
  BY NoCompany
<1> QED BY <1>1, <1>2, <1>3, <1>4, HistoryInvariant, HistoryEntriesKept, HistoryDeletedStaysAway, PTL
        DEF HistorySpec, CopiesKept
=============================================================================
