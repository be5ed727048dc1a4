------------------------------- MODULE Mutex --------------------------------
(***************************************************************************)
(* The adaptive mutex of internal/mutex.h, one action per atomic access:   *)
(* a bounded spin of load + compare-and-swap, then the exchange/semaphore  *)
(* slow path.  All words are sequentially consistent here: every write to  *)
(* locker_tid is ordered by the acquire/release pair on state.             *)
(***************************************************************************)
EXTENDS Naturals

CONSTANTS Threads,
          NoThread,       \* (pthread_t){0}
          MaxSpinCount,   \* MAX_SPIN_COUNT, 600 in the code
          SemValueMax     \* SEM_VALUE_MAX: sem_post fails there, unnoticed

ASSUME MutexAssumption == /\ NoThread \notin Threads
                          /\ MaxSpinCount \in Nat
                          /\ SemValueMax \in Nat \ {0}

VARIABLES state, locker_tid, waitq,   \* the fields of struct mutex
          pc,                         \* where each thread is
          spins                       \* i of the spin loop

vars == <<state, locker_tid, waitq, pc, spins>>

States == {"FREE", "LOCKED", "LOCKED_WAITERS"}

Locations == {"out",                              \* not in a critical section
              "load", "cas", "xchg", "sem_wait",  \* inside mutex_lock
              "set_tid", "held",
              "clear_tid", "release", "post"}     \* inside mutex_unlock

TypeOK == /\ state \in States
          /\ locker_tid \in Threads \cup {NoThread}
          /\ waitq \in 0..SemValueMax
          /\ pc \in [Threads -> Locations]
          /\ spins \in [Threads -> 0..MaxSpinCount]

(* mutex_init *)
Init == /\ state = "FREE"
        /\ locker_tid = NoThread
        /\ waitq = 0
        /\ pc = [t \in Threads |-> "out"]
        /\ spins = [t \in Threads |-> 0]

Goto(t, loc) == pc' = [pc EXCEPT ![t] = loc]

-----------------------------------------------------------------------------
(* mutex_lock *)

Lock(t) == /\ pc[t] = "out"
           /\ Goto(t, "load")
           /\ spins' = [spins EXCEPT ![t] = 0]
           /\ UNCHANGED <<state, locker_tid, waitq>>

(* One turn of the loop failed: CPU_RELAX, i++. *)
SpinAgain(t) == /\ spins' = [spins EXCEPT ![t] = @ + 1]
                /\ Goto(t, "load")

Load(t) == /\ pc[t] = "load"
           /\ spins[t] < MaxSpinCount
           /\ \/ state = "FREE" /\ Goto(t, "cas") /\ UNCHANGED spins
              \/ state # "FREE" /\ SpinAgain(t)
           /\ UNCHANGED <<state, locker_tid, waitq>>

(* Mutant: load and store instead of a compare-and-swap. *)
CasUnchecked(t) == /\ pc[t] = "cas"
                   /\ state' = "LOCKED"
                   /\ Goto(t, "set_tid")
                   /\ UNCHANGED <<locker_tid, waitq, spins>>

CasSucceeds(t) == /\ pc[t] = "cas"
                  /\ state = "FREE"
                  /\ state' = "LOCKED"
                  /\ Goto(t, "set_tid")
                  /\ UNCHANGED <<locker_tid, waitq, spins>>

(* The weak compare-and-swap may fail even though state is FREE. *)
CasFails(t) == /\ pc[t] = "cas"
               /\ SpinAgain(t)
               /\ UNCHANGED <<state, locker_tid, waitq>>

GiveUpSpinning(t) == /\ pc[t] = "load"
                     /\ spins[t] = MaxSpinCount
                     /\ Goto(t, "xchg")
                     /\ UNCHANGED <<state, locker_tid, waitq, spins>>

(* Mutant: the slow path writes LOCKED. *)
ExchangeLocked(t) == /\ pc[t] = "xchg"
                     /\ state' = "LOCKED"
                     /\ Goto(t, IF state = "FREE" THEN "set_tid" ELSE "sem_wait")
                     /\ UNCHANGED <<locker_tid, waitq, spins>>

Exchange(t) == /\ pc[t] = "xchg"
               /\ state' = "LOCKED_WAITERS"
               /\ Goto(t, IF state = "FREE" THEN "set_tid" ELSE "sem_wait")
               /\ UNCHANGED <<locker_tid, waitq, spins>>

SemWait(t) == /\ pc[t] = "sem_wait"
              /\ waitq > 0
              /\ waitq' = waitq - 1
              /\ Goto(t, "xchg")
              /\ UNCHANGED <<state, locker_tid, spins>>

(* sem_wait may return EINTR, and its result is not looked at. *)
SemInterrupted(t) == /\ pc[t] = "sem_wait"
                     /\ Goto(t, "xchg")
                     /\ UNCHANGED <<state, locker_tid, waitq, spins>>

(* Mutant: one path of mutex_lock forgets to store the id. *)
SetTidForgotten(t) == /\ pc[t] = "set_tid"
                      /\ Goto(t, "held")
                      /\ UNCHANGED <<state, locker_tid, waitq, spins>>

SetTid(t) == /\ pc[t] = "set_tid"
             /\ locker_tid' = t
             /\ Goto(t, "held")
             /\ UNCHANGED <<state, waitq, spins>>

-----------------------------------------------------------------------------
(* mutex_unlock, called by the holder or, against the contract, by a       *)
(* thread outside the critical section: it returns at once unless the      *)
(* caller's id is in locker_tid.                                           *)

Unlock(t) == /\ pc[t] \in {"out", "held"}
             /\ Goto(t, IF locker_tid = t THEN "clear_tid" ELSE "out")
             /\ UNCHANGED <<state, locker_tid, waitq, spins>>

(* Mutant: the id stays behind. *)
ClearTidForgotten(t) == /\ pc[t] = "clear_tid"
                        /\ Goto(t, "release")
                        /\ UNCHANGED <<state, locker_tid, waitq, spins>>

ClearTid(t) == /\ pc[t] = "clear_tid"
               /\ locker_tid' = NoThread
               /\ Goto(t, "release")
               /\ UNCHANGED <<state, waitq, spins>>

(* Mutant: the waiters are not looked at. *)
ReleaseUnposted(t) == /\ pc[t] = "release"
                      /\ state' = "FREE"
                      /\ Goto(t, "out")
                      /\ UNCHANGED <<locker_tid, waitq, spins>>

ReleaseState(t) == /\ pc[t] = "release"
                   /\ state' = "FREE"
                   /\ Goto(t, IF state = "LOCKED_WAITERS" THEN "post" ELSE "out")
                   /\ UNCHANGED <<locker_tid, waitq, spins>>

(* Mutant: tokens without a limit. *)
SemPostUnbounded(t) == /\ pc[t] = "post"
                       /\ waitq' = waitq + 1
                       /\ Goto(t, "out")
                       /\ UNCHANGED <<state, locker_tid, spins>>

(* At SEM_VALUE_MAX sem_post fails with EOVERFLOW, which is not looked at. *)
SemPost(t) == /\ pc[t] = "post"
              /\ waitq' = IF waitq < SemValueMax THEN waitq + 1 ELSE waitq
              /\ Goto(t, "out")
              /\ UNCHANGED <<state, locker_tid, spins>>

-----------------------------------------------------------------------------
(* The steps a thread takes by itself once it is inside a call or holds    *)
(* the lock; calling mutex_lock is the program's choice.                   *)
Proceed(t) == \/ Load(t) \/ CasSucceeds(t) \/ CasFails(t) \/ GiveUpSpinning(t)
              \/ Exchange(t) \/ SemWait(t) \/ SetTid(t)
              \/ (pc[t] = "held" /\ Unlock(t))
              \/ ClearTid(t) \/ ReleaseState(t) \/ SemPost(t)

Next == \E t \in Threads :
           \/ Lock(t) \/ Load(t) \/ CasSucceeds(t) \/ CasFails(t)
           \/ GiveUpSpinning(t) \/ Exchange(t) \/ SemWait(t)
           \/ SemInterrupted(t) \/ SetTid(t)
           \/ Unlock(t) \/ ClearTid(t) \/ ReleaseState(t) \/ SemPost(t)

Spec == Init /\ [][Next]_vars

(* Every thread keeps running and every critical section is finite.        *)
FairSpec == Spec /\ \A t \in Threads : WF_vars(Proceed(t))

-----------------------------------------------------------------------------
(* The threads whose last successful acquisition is not released yet. *)
Inside == {t \in Threads : pc[t] \in {"set_tid", "held", "clear_tid", "release"}}

(* The threads in mutex_lock. *)
Trying == {t \in Threads : pc[t] \in {"load", "cas", "xchg", "sem_wait"}}

(* Two threads are never past mutex_lock together, whichever of the fast   *)
(* path (CAS) and the slow path (exchange) each of them took, and the word *)
(* says FREE only when nobody is.                                          *)
MutualExclusion == /\ \A t, u \in Inside : t = u
                   /\ state = "FREE" <=> Inside = {}

(* locker_tid names the thread that finished mutex_lock and has not begun  *)
(* to release, and nobody in the two windows where the lock is taken but   *)
(* the id is not written yet, or is erased already (mutex.h:133-142).      *)
OwnerRecorded == \A t \in Threads :
                    locker_tid = t <=> pc[t] \in {"held", "clear_tid"}

(* A thread that sleeps in sem_wait has somebody who will wake it: the     *)
(* holder sees LOCKED_WAITERS when it releases, or a post is on its way or *)
(* already counted, or another woken thread is about to write              *)
(* LOCKED_WAITERS again.  Otherwise the wakeup is lost (mutex.h:149-185).  *)
NoLostWakeup ==
    (\E t \in Threads : pc[t] = "sem_wait") =>
        \/ state = "LOCKED_WAITERS"
        \/ waitq > 0
        \/ \E t \in Threads : pc[t] \in {"post", "xchg"}

(* The owner check of mutex_unlock (mutex.h:172-177) never turns away the  *)
(* thread that holds the lock, and lets no other thread release it.        *)
OwnerCheckExact == [][\A t \in Threads : Unlock(t) =>
                        (pc'[t] = "clear_tid" <=> pc[t] = "held")]_vars

(* The thread that has the lock, for the refinement.                       *)
Holder == IF Inside = {} THEN NoThread ELSE CHOOSE t \in Threads : t \in Inside

AL == INSTANCE AbstractLock WITH holder <- Holder, waiting <- Trying

(* The mutex implements the abstract lock, its liveness included: a free   *)
(* lock that some thread asked for is never left free, or its waiters      *)
(* asleep, forever.                                                        *)
ImplementsLock == AL!ASpec
=============================================================================
