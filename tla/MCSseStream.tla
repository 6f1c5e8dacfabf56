----------------------------- MODULE MCSseStream -----------------------------
EXTENDS SseStream

(* No limit, a limit on events, one on bytes, both; with an idle timeout. *)
SmallOptions ==
    [events : {0, 1}, bytes : {0, 2}, idle : {TRUE}] \cup [events : {0}, bytes : {0}, idle : {FALSE}]
=============================================================================
