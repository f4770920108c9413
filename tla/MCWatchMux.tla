----------------------------- MODULE MCWatchMux -----------------------------
(***************************************************************************)
(* Instances of WatchMux for TLC.                                          *)
(***************************************************************************)
EXTENDS WatchMux

CONSTANTS a, b, other

\* One object so far.
OneObject == <<a>>

\* Only other tenants' writes so far.
Foreign == <<other>>

\* What tells two states of a resuming watch apart.  Once the client has stopped
\* reading, the log grows no more and nothing reaches the client, so the event
\* a forwarder holds, the bookmark it is about to send and what the client got
\* enable no step and change no more; the revisions are still needed, because
\* they decide whether onBookmark has a bookmark to send.  The steps by which
\* the client stops reading leave resume, delivered and log alone, so what
\* BookmarkSafe says after them was checked before them.
Relevant ==
    IF client = "reading" THEN vars
    ELSE <<client, told, openVars, runVars, stopVars, closed, watched, Len(log), born,
           pos, revision, emitted, [n \in Namespaces |-> NextEvents(n)]>>
=============================================================================
