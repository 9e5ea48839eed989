----------------------------- MODULE FlushThread -----------------------------
(***************************************************************************)
(* The thread of easylog that flushes the loggers now and then, and how it *)
(* is stopped (src/easylog.hpp 88-114).  What is logged is left out.       *)
(***************************************************************************)
VARIABLES
    flusher,    \* where the thread is
    run,        \* run_
    notified,   \* cv_ has woken the thread
    logger      \* the registered logger exists

flushVars == <<flusher, run, notified, logger>>

FlushTypeOK ==
    /\ flusher \in {"blocking", "blocked", "flush", "done"}
    /\ run \in BOOLEAN
    /\ notified \in BOOLEAN
    /\ logger \in BOOLEAN

FlushInit == flusher = "blocking" /\ run = TRUE /\ notified = FALSE /\ logger = TRUE

FlushGoes(l) == flusher' = l /\ UNCHANGED <<run, notified, logger>>

\* The loop looks at run_, and wait_for does so again ...
Tested == IF run THEN "blocking" ELSE "done"

\* ... before it blocks: a notification in between is lost.
FlushBlocks == flusher = "blocking" /\ FlushGoes("blocked")

\* Mutant: wait instead of wait_for.
FlushWakesIfNotified ==
    flusher = "blocked" /\ notified /\ FlushGoes(IF run THEN "flush" ELSE "done")

\* It was notified, or the time is over.
FlushWakes == flusher = "blocked" /\ FlushGoes(IF run THEN "flush" ELSE "done")

Flushes == flusher = "flush" /\ logger /\ FlushGoes(Tested)

FlushStep == FlushBlocks \/ FlushWakes \/ Flushes

\* The destructors, in this order: the global logger goes first, ...
FreeLogger == logger' = FALSE /\ UNCHANGED <<flusher, run, notified>>

\* ... then ~logger_modules changes run_ without the mutex, ...
ClearRun == run' = FALSE /\ UNCHANGED <<flusher, notified, logger>>

\* ... notifies whoever waits at that moment, and joins the thread.
NotifyOne == notified' = (flusher = "blocked") /\ UNCHANGED <<flusher, run, logger>>
=============================================================================
