---------------------------- MODULE AbstractLock ----------------------------
(***************************************************************************)
(* What every caller of mutex_lock/mutex_unlock relies on: at most one     *)
(* thread is inside, a thread enters only after it asked to, and a free    *)
(* lock that somebody asked for is eventually taken by somebody.  Nothing  *)
(* promises that a given thread is ever the one (no queue, no hand-over).  *)
(***************************************************************************)
CONSTANTS Threads, NoThread

VARIABLES holder,   \* the thread between mutex_lock and mutex_unlock
          waiting   \* the threads inside mutex_lock

avars == <<holder, waiting>>

AInit == holder = NoThread /\ waiting = {}

Request(t) == /\ t # holder /\ t \notin waiting
              /\ waiting' = waiting \cup {t}
              /\ UNCHANGED holder

Acquire(t) == /\ holder = NoThread /\ t \in waiting
              /\ holder' = t
              /\ waiting' = waiting \ {t}

Release(t) == /\ holder = t
              /\ holder' = NoThread
              /\ UNCHANGED waiting

ANext == \E t \in Threads : Request(t) \/ Acquire(t) \/ Release(t)

ASafeSpec == AInit /\ [][ANext]_avars

ASpec == ASafeSpec /\ WF_avars(\E t \in Threads : Acquire(t))
=============================================================================
