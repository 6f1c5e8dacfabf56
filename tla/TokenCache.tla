----------------------------- MODULE TokenCache -----------------------------
(***************************************************************************)
(* internal/oauth: the token manager shared by every request that          *)
(* authenticates with one OAuth configuration.  Requests run in their own  *)
(* goroutines; each critical section of Manager.mu is one step.            *)
(*                                                                         *)
(* A token is the number the authorization server gave it.  The cache has  *)
(* two places for a configuration: its key and, for the client-credentials *)
(* grant, the key an older version used for it, which only a restored      *)
(* cache can fill.  The authorization-code grant has no second key.  A     *)
(* caller makes one Token call, so a call in flight is named after the     *)
(* caller that leads it.                                                   *)
(***************************************************************************)
EXTENDS Integers, FiniteSets

CONSTANTS Callers,   \* goroutines that need a token
          MaxTokens, \* bound on the tokens the server issues
          None       \* no caller

ASSUME TokenAssumption ==
    /\ MaxTokens \in Nat \ {0}
    /\ None \notin Callers

Tokens == 1..MaxTokens
NoToken == 0
Slots == {"key", "fallback"}
Errors == {"nil", "error"}

VARIABLES
    grant,       \* cfg.GrantType: client credentials or authorization code
    cache,       \* m.cache under the two keys
    inflight,    \* m.inflight: the leader of the call in flight
    pc,          \* where each caller is
    tok, from,   \* the token it has in hand, and the key it was found under
    leader,      \* whose call it waits for
    result,      \* what Token returned
    call,        \* the call structure of a leader
    issued,      \* tokens the server has given in an answer that arrived
    expired,     \* tokens that have expired
    refreshable, \* tokens that came with a refresh token
    (* History, read by properties only. *)
    lost,        \* the refresh token of the last token was redeemed, unnoticed
    stale,       \* tokens of before the last ClearIf, and those bought with them
    raced,       \* callers still inside Token that were so at the last ClearIf
    overtaken    \* whether one of them led a call then

server == <<issued, expired, refreshable, lost>>
reset == <<stale, raced, overtaken>>
vars == <<grant, cache, inflight, pc, tok, from, leader, result, call,
          issued, expired, refreshable, lost, stale, raced, overtaken>>

Valid(t) == t # NoToken /\ t \notin expired
Found == IF cache["key"] # NoToken THEN "key" ELSE "fallback"
Ret(t, e) == [token |-> t, err |-> e]
NoCall == [done |-> FALSE, token |-> NoToken, err |-> "nil"]

(* A cache restored from disk holds at most one entry for a configuration. *)
Init ==
    /\ grant \in {"client", "code"}
    /\ cache \in [Slots -> {NoToken, 1}]
    /\ cache["fallback"] # NoToken => grant = "client" /\ cache["key"] = NoToken
    /\ inflight = None
    /\ pc = [c \in Callers |-> "idle"]
    /\ tok = [c \in Callers |-> NoToken]
    /\ from = [c \in Callers |-> "key"]
    /\ leader = [c \in Callers |-> None]
    /\ result = [c \in Callers |-> Ret(NoToken, "nil")]
    /\ call = [c \in Callers |-> NoCall]
    /\ issued = IF cache["key"] = NoToken /\ cache["fallback"] = NoToken THEN 0 ELSE 1
    /\ expired = {}
    /\ refreshable \in SUBSET (1..issued)
    /\ lost = FALSE /\ stale = {} /\ raced = {} /\ overtaken = FALSE

-----------------------------------------------------------------------------
Goto(c, l) == pc' = [pc EXCEPT ![c] = l]
Return(c, t, e) ==
    /\ Goto(c, "end")
    /\ result' = [result EXCEPT ![c] = Ret(t, e)]
    /\ tok' = [tok EXCEPT ![c] = NoToken]
    /\ from' = [from EXCEPT ![c] = "key"]
    /\ leader' = [leader EXCEPT ![c] = None]
    /\ raced' = raced \ {c}

(* promoteCacheKey: an entry found under the old key moves to the new one,  *)
(* unless that was filled meanwhile.                                        *)
PromoteCacheKey(actual) ==
    cache' = CASE actual = "key" -> cache
               [] actual = "fallback" /\ cache["key"] # NoToken ->
                     [cache EXCEPT !["fallback"] = NoToken]
               [] OTHER -> [cache EXCEPT !["key"] = cache["fallback"],
                                         !["fallback"] = NoToken]

(* Token: the first look into the cache, in a critical section of its own. *)
Look(c) ==
    /\ pc[c] = "idle"
    /\ IF Valid(cache[Found])
       THEN /\ Goto(c, "promote")
            /\ tok' = [tok EXCEPT ![c] = cache[Found]]
            /\ from' = [from EXCEPT ![c] = Found]
       ELSE /\ Goto(c, "lock")
            /\ UNCHANGED <<tok, from>>
    /\ UNCHANGED <<grant, cache, inflight, leader, result, call, server, reset>>

(* Mutant: the entry that was found is written, not the one that is there. *)
PromoteInHand(c) ==
    /\ pc[c] = "promote"
    /\ cache' = [cache EXCEPT !["key"] = tok[c], !["fallback"] = NoToken]
    /\ Return(c, tok[c], "nil")
    /\ UNCHANGED <<grant, inflight, call, server, stale, overtaken>>

Promote(c) ==
    /\ pc[c] = "promote"
    /\ PromoteCacheKey(from[c])
    /\ Return(c, tok[c], "nil")
    /\ UNCHANGED <<grant, inflight, call, server, stale, overtaken>>

(* Join the call in flight, or lead a new one. *)
Lock(c) ==
    /\ pc[c] = "lock"
    /\ IF inflight # None
       THEN /\ Goto(c, "wait")
            /\ leader' = [leader EXCEPT ![c] = inflight]
            /\ UNCHANGED inflight
       ELSE /\ Goto(c, "look2")
            /\ inflight' = c
            /\ UNCHANGED leader
    /\ UNCHANGED <<grant, cache, tok, from, result, call, server, reset>>

(* Wait for the leader's call, or for the own context, which may be         *)
(* cancelled at any time.                                                   *)
WaitDone(c) ==
    /\ pc[c] = "wait" /\ call[leader[c]].done
    /\ Return(c, call[leader[c]].token, call[leader[c]].err)
    /\ UNCHANGED <<grant, cache, inflight, call, server, stale, overtaken>>

WaitCanceled(c) ==
    /\ pc[c] = "wait"
    /\ Return(c, NoToken, "error")
    /\ UNCHANGED <<grant, cache, inflight, call, server, stale, overtaken>>

-----------------------------------------------------------------------------
(* Mutant: the leader goes straight to the server. *)
LookAgainNever(c) ==
    /\ pc[c] = "look2"
    /\ Goto(c, "entry")
    /\ UNCHANGED <<grant, cache, inflight, tok, from, leader, result, call,
                   server, reset>>

(* obtainToken: the leader looks again, a call may have ended since. *)
LookAgain(c) ==
    /\ pc[c] = "look2"
    /\ IF Valid(cache[Found])
       THEN /\ Goto(c, "promote2")
            /\ tok' = [tok EXCEPT ![c] = cache[Found]]
            /\ from' = [from EXCEPT ![c] = Found]
       ELSE /\ Goto(c, "entry")
            /\ UNCHANGED <<tok, from>>
    /\ UNCHANGED <<grant, cache, inflight, leader, result, call, server, reset>>

PromoteAgain(c) ==
    /\ pc[c] = "promote2"
    /\ PromoteCacheKey(from[c])
    /\ Goto(c, "publish")
    /\ UNCHANGED <<grant, inflight, tok, from, leader, result, call, server, reset>>

(* An old entry may have a refresh token. *)
Entry(c) ==
    /\ pc[c] = "entry"
    /\ IF cache[Found] \in refreshable
       THEN Goto(c, "refresh") /\ tok' = [tok EXCEPT ![c] = cache[Found]]
       ELSE Goto(c, "fetch") /\ UNCHANGED tok
    /\ UNCHANGED <<grant, cache, inflight, from, leader, result, call, server, reset>>

(* The server answers with a new token, with or without a refresh token. *)
Issue(c) ==
    /\ issued < MaxTokens
    /\ issued' = issued + 1
    /\ \E r \in SUBSET {issued + 1} : refreshable' = refreshable \cup r
    /\ tok' = [tok EXCEPT ![c] = issued + 1]
    /\ lost' = FALSE
    /\ UNCHANGED expired

RefreshOk(c) ==
    /\ pc[c] = "refresh"
    /\ Issue(c)
    /\ stale' = stale \cup {t \in {issued + 1} : tok[c] \in stale}
    /\ Goto(c, "store")
    /\ UNCHANGED <<grant, cache, inflight, from, leader, result, call, raced, overtaken>>

(* A refresh that fails falls through to the grant, and the entry stays.  It *)
(* may have been refused, or the server redeemed the refresh token and its   *)
(* answer was lost, late or could not be parsed: the code cannot tell.       *)
RefreshFails(c) ==
    /\ pc[c] = "refresh"
    /\ lost' \in {lost, TRUE}
    /\ Goto(c, "fetch")
    /\ tok' = [tok EXCEPT ![c] = NoToken]
    /\ UNCHANGED <<grant, cache, inflight, from, leader, result, call,
                   issued, expired, refreshable, reset>>

(* requestToken, or the browser hop of the authorization-code grant and     *)
(* then requestToken.                                                       *)
FetchOk(c) ==
    /\ pc[c] = "fetch"
    /\ Issue(c)
    /\ Goto(c, "store")
    /\ UNCHANGED <<grant, cache, inflight, from, leader, result, call, reset>>

FetchFails(c) ==
    /\ pc[c] = "fetch"
    /\ Goto(c, "failed")
    /\ tok' = [tok EXCEPT ![c] = NoToken]
    /\ UNCHANGED <<grant, cache, inflight, from, leader, result, call, server, reset>>

(* Mutant: the token is handed out and not kept. *)
StoreNothing(c) ==
    /\ pc[c] = "store"
    /\ Goto(c, "publish")
    /\ UNCHANGED <<grant, cache, inflight, tok, from, leader, result, call,
                   server, reset>>

(* storeToken; requestAuthCodeToken leaves the old key alone. *)
Store(c) ==
    /\ pc[c] = "store"
    /\ cache' = [cache EXCEPT !["key"] = tok[c]]
    /\ Goto(c, IF grant = "client" THEN "drop" ELSE "publish")
    /\ UNCHANGED <<grant, inflight, tok, from, leader, result, call, server, reset>>

(* dropCacheKey of the old key. *)
Drop(c) ==
    /\ pc[c] = "drop"
    /\ cache' = [cache EXCEPT !["fallback"] = NoToken]
    /\ Goto(c, "publish")
    /\ UNCHANGED <<grant, inflight, tok, from, leader, result, call, server, reset>>

(* Mutant: done is closed only when there is a token. *)
PublishTokensOnly(c) ==
    /\ pc[c] \in {"publish", "failed"}
    /\ call' = [call EXCEPT ![c] = [done |-> pc[c] = "publish", token |-> tok[c],
                                   err |-> IF pc[c] = "publish" THEN "nil" ELSE "error"]]
    /\ Goto(c, "release")
    /\ UNCHANGED <<grant, cache, inflight, tok, from, leader, result, server, reset>>

(* The result is written into the call, then done is closed. *)
Publish(c) ==
    /\ pc[c] \in {"publish", "failed"}
    /\ call' = [call EXCEPT ![c] = [done |-> TRUE, token |-> tok[c],
                                   err |-> IF pc[c] = "publish" THEN "nil" ELSE "error"]]
    /\ Goto(c, "release")
    /\ UNCHANGED <<grant, cache, inflight, tok, from, leader, result, server, reset>>

(* Only now is the call taken out of the table: until then it is found done. *)
Release(c) ==
    /\ pc[c] = "release"
    /\ inflight' = None
    /\ Return(c, call[c].token, call[c].err)
    /\ UNCHANGED <<grant, cache, call, server, stale, overtaken>>

-----------------------------------------------------------------------------
(* A cached token expires; elsewhere nobody looks whether one has. *)
Expire(t) ==
    /\ \E s \in Slots : cache[s] = t
    /\ t \notin expired
    /\ expired' = expired \cup {t}
    /\ UNCHANGED <<grant, cache, inflight, pc, tok, from, leader, result, call,
                   issued, refreshable, lost, reset>>

(* ClearIf, when the workspace changes.  moveBlocked refuses the change while *)
(* hasActiveRun(), but the cancel key and the answer of an earlier request    *)
(* both reset m.sending while a request is still inside Token: nothing stops  *)
(* a call in flight, which keeps what it has in hand.                         *)
ClearIf ==
    /\ cache' = [s \in Slots |-> NoToken]
    /\ stale' = 1..issued
    /\ raced' = {c \in Callers : pc[c] \notin {"idle", "end"}}
    /\ overtaken' = (inflight # None)
    /\ UNCHANGED <<grant, inflight, pc, tok, from, leader, result, call, server>>

Lead(c) ==
    \/ LookAgain(c) \/ PromoteAgain(c) \/ Entry(c)
    \/ RefreshOk(c) \/ RefreshFails(c) \/ FetchOk(c) \/ FetchFails(c)
    \/ Store(c) \/ Drop(c) \/ Publish(c) \/ Release(c)

TokenStep(c) ==
    \/ Promote(c) \/ Lock(c) \/ WaitDone(c) \/ Lead(c)

Next ==
    \/ \E c \in Callers : Look(c) \/ TokenStep(c) \/ WaitCanceled(c)
    \/ \E t \in Tokens : Expire(t)
    \/ ClearIf

Spec == Init /\ [][Next]_vars

(* A goroutine that called Token keeps running, and the server answers; no   *)
(* context need ever be cancelled.                                           *)
FairSpec == Spec /\ \A c \in Callers : WF_vars(TokenStep(c))
-----------------------------------------------------------------------------
Leading == {"look2", "promote2", "entry", "refresh", "fetch", "store", "drop",
            "publish", "failed", "release"}
PCs == {"idle", "promote", "lock", "wait", "end"} \cup Leading

(* The type invariant. *)
TypeOK ==
    /\ grant \in {"client", "code"}
    /\ cache \in [Slots -> Tokens \cup {NoToken}]
    /\ inflight \in Callers \cup {None}
    /\ pc \in [Callers -> PCs]
    /\ tok \in [Callers -> Tokens \cup {NoToken}]
    /\ from \in [Callers -> Slots]
    /\ leader \in [Callers -> Callers \cup {None}]
    /\ result \in [Callers -> [token : Tokens \cup {NoToken}, err : Errors]]
    /\ call \in [Callers -> [done : BOOLEAN, token : Tokens \cup {NoToken}, err : Errors]]
    /\ issued \in 0..MaxTokens
    /\ expired \subseteq Tokens /\ refreshable \subseteq Tokens
    /\ lost \in BOOLEAN /\ stale \subseteq Tokens
    /\ raced \subseteq Callers /\ overtaken \in BOOLEAN

(* "If another goroutine is already fetching, we wait on their done channel  *)
(* instead of hitting the auth server twice": one caller at most is past the *)
(* table of calls, and it asks the server only while the cache, which others *)
(* filled since the first look, has no valid token.                          *)
OneFetch ==
    /\ \A c \in Callers : pc[c] \in Leading <=> inflight = c
    /\ \A c \in Callers : pc[c] \in {"refresh", "fetch"} => ~Valid(cache[Found])

(* The refresh token that is presented is that of the last token obtained,   *)
(* and the cache holds no other for the next leader.  So one that bought a   *)
(* token is not presented again (a server that rotates refresh tokens would  *)
(* revoke the grant), and one whose answer was lost is presented again only  *)
(* as long as the grant has not bought a token since.                        *)
RefreshNewest ==
    /\ \A c \in Callers : pc[c] = "refresh" => tok[c] = issued
    /\ inflight = None => cache[Found] \in {issued, NoToken}

(* Whatever Token returns without an error is a token the server issued.     *)
(* After a reset, a token of before it (or one bought with such a token) is  *)
(* returned only to callers that were inside Token then; to callers that     *)
(* came later only if the reset overtook a leader, whose call they join or   *)
(* whose token it puts back into the cache.                                  *)
ServedIsReal ==
    [][\A c \in Callers :
          pc[c] # "end" /\ pc'[c] = "end" /\ result'[c].err = "nil" =>
             /\ result'[c].token \in 1..issued'
             /\ result'[c].token \in stale' => c \in raced \/ overtaken']_vars

(* The two stronger promises, which the code does not keep.  No refresh      *)
(* token the server has redeemed is presented again: it is, when the answer  *)
(* and then the grant fail.                                                  *)
RefreshOnce == \A c \in Callers : pc[c] = "refresh" => ~lost

(* A request made after the reset never gets a token of before it: the       *)
(* comment of moveBlocked, "that request can still write runtime values back *)
(* and undo the reset", which its guard does not prevent.                    *)
ResetIsFinal ==
    [][\A c \in Callers :
          pc[c] # "end" /\ pc'[c] = "end" /\ c \notin raced =>
             result'[c].token \notin stale']_vars

(* Every call of Token returns, whoever leads and however the leader fares. *)
TokenReturns == \A c \in Callers : pc[c] \in {"lock", "promote"} ~> pc[c] = "end"
=============================================================================
