--------------------------- MODULE StreamContract ---------------------------
(***************************************************************************)
(* What a stream session promises to those who share it, with no locks,    *)
(* channels or policies: a log that only grows, one outcome, Done after    *)
(* the outcome, and for each reader a view that starts as the recent past  *)
(* and is extended by later events only, each at most once and each        *)
(* publisher's in its order.  Events may be skipped (the drop policies),   *)
(* never invented, repeated or shown from before the reader joined.        *)
(***************************************************************************)
EXTENDS Integers, Sequences

CONSTANTS Readers, Depth, Outcomes, NoOutcome

VARIABLES log,      \* the events accepted so far, in order
          outcome,  \* how the session ended
          released, \* waiters on the end have been released
          joined,   \* the log's length when a reader joined, -1 before
          view      \* what a reader has been shown

cvars == <<log, outcome, released, joined, view>>

Shown(r) == {view[r][i] : i \in DOMAIN view[r]}
Recent == SubSeq(log, IF Len(log) > Depth THEN Len(log) - Depth + 1 ELSE 1, Len(log))

CInit ==
    /\ log = <<>> /\ outcome = NoOutcome /\ released = FALSE
    /\ joined = [r \in Readers |-> -1]
    /\ view = [r \in Readers |-> <<>>]

(* An event is accepted: a new one, also after the end (a publisher that is *)
(* still running).                                                          *)
Accept ==
    /\ Len(log') = Len(log) + 1
    /\ SubSeq(log', 1, Len(log)) = log
    /\ \A i \in DOMAIN log : log[i] # log'[Len(log')]
    /\ UNCHANGED <<outcome, released, joined, view>>

End ==
    /\ outcome = NoOutcome
    /\ outcome' \in Outcomes
    /\ UNCHANGED <<log, released, joined, view>>

Release ==
    /\ outcome # NoOutcome
    /\ released' = TRUE
    /\ UNCHANGED <<log, outcome, joined, view>>

Join(r) ==
    /\ joined[r] = -1
    /\ joined' = [joined EXCEPT ![r] = Len(log)]
    /\ view' = [view EXCEPT ![r] = Recent]
    /\ UNCHANGED <<log, outcome, released>>

Show(r) ==
    /\ joined[r] >= 0
    /\ \E i \in (joined[r] + 1)..Len(log) :
          /\ \A e \in Shown(r) : e.from = log[i].from => e.seq < log[i].seq
          /\ view' = [view EXCEPT ![r] = Append(@, log[i])]
    /\ UNCHANGED <<log, outcome, released, joined>>

CNext == Accept \/ End \/ Release \/ \E r \in Readers : Join(r) \/ Show(r)

CSpec == CInit /\ [][CNext]_cvars
=============================================================================
