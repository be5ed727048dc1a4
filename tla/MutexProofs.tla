---------------------------- MODULE MutexProofs -----------------------------
(***************************************************************************)
(* Proofs about Mutex for every set of threads, spin bound and semaphore   *)
(* limit.  IInv is the inductive invariant: mutual exclusion needs         *)
(* OwnerRecorded (else mutex_unlock could let a stranger reach the release *)
(* exchange) and SpinsLeft keeps the counter of the spin loop in range.    *)
(***************************************************************************)
EXTENDS Mutex, TLAPS

SpinsLeft == \A t \in Threads : pc[t] = "cas" => spins[t] < MaxSpinCount

IInv == TypeOK /\ SpinsLeft /\ MutualExclusion /\ OwnerRecorded /\ NoLostWakeup

USE MutexAssumption

-----------------------------------------------------------------------------
(* The initial state of mutex_init satisfies the inductive invariant.      *)
LEMMA InitIInv == Init => IInv
  BY DEF Init, IInv, TypeOK, States, Locations, SpinsLeft, MutualExclusion,
         Inside, OwnerRecorded, NoLostWakeup

(* Each atomic access of mutex_lock and mutex_unlock keeps the fields in   *)
(* their ranges and the spin counter below its limit.                      *)
LEMMA NextTypeOK ==
  ASSUME TypeOK, SpinsLeft, [Next]_vars
  PROVE  TypeOK' /\ SpinsLeft'
  <1> USE DEF TypeOK, SpinsLeft, States, Locations, Goto
  <1>1. ASSUME NEW t \in Threads, Lock(t) PROVE TypeOK' /\ SpinsLeft'
    BY <1>1 DEF Lock
  <1>2. ASSUME NEW t \in Threads, Load(t) PROVE TypeOK' /\ SpinsLeft'
    BY <1>2 DEF Load, SpinAgain
  <1>3. ASSUME NEW t \in Threads, CasSucceeds(t) PROVE TypeOK' /\ SpinsLeft'
    BY <1>3 DEF CasSucceeds
  <1>4. ASSUME NEW t \in Threads, CasFails(t) PROVE TypeOK' /\ SpinsLeft'
    BY <1>4 DEF CasFails, SpinAgain
  <1>5. ASSUME NEW t \in Threads, GiveUpSpinning(t) PROVE TypeOK' /\ SpinsLeft'
    BY <1>5 DEF GiveUpSpinning
  <1>6. ASSUME NEW t \in Threads, Exchange(t) PROVE TypeOK' /\ SpinsLeft'
    BY <1>6 DEF Exchange
  <1>7. ASSUME NEW t \in Threads, SemWait(t) PROVE TypeOK' /\ SpinsLeft'
    BY <1>7 DEF SemWait
  <1>8. ASSUME NEW t \in Threads, SemInterrupted(t) PROVE TypeOK' /\ SpinsLeft'
    BY <1>8 DEF SemInterrupted
  <1>9. ASSUME NEW t \in Threads, SetTid(t) PROVE TypeOK' /\ SpinsLeft'
    BY <1>9 DEF SetTid
  <1>10. ASSUME NEW t \in Threads, Unlock(t) PROVE TypeOK' /\ SpinsLeft'
    BY <1>10 DEF Unlock
  <1>11. ASSUME NEW t \in Threads, ClearTid(t) PROVE TypeOK' /\ SpinsLeft'
    BY <1>11 DEF ClearTid
  <1>12. ASSUME NEW t \in Threads, ReleaseState(t) PROVE TypeOK' /\ SpinsLeft'
    BY <1>12 DEF ReleaseState
  <1>13. ASSUME NEW t \in Threads, SemPost(t) PROVE TypeOK' /\ SpinsLeft'
    BY <1>13 DEF SemPost
  <1>14. CASE UNCHANGED vars
    BY <1>14 DEF vars
  <1>15. QED
    BY <1>1, <1>2, <1>3, <1>4, <1>5, <1>6, <1>7, <1>8, <1>9, <1>10, <1>11,
       <1>12, <1>13, <1>14 DEF Next

(* The set of threads inside the lock changes only at the two acquiring    *)
(* accesses, which see FREE, and at the releasing exchange of the only     *)
(* thread inside.                                                          *)
LEMMA NextMutualExclusion ==
  ASSUME TypeOK, MutualExclusion, OwnerRecorded, [Next]_vars
  PROVE  MutualExclusion' /\ OwnerRecorded'
  <1> USE DEF TypeOK, States, Locations, MutualExclusion, Inside, OwnerRecorded,
              Goto
  <1>1. ASSUME NEW t \in Threads,
               \/ Lock(t) \/ Load(t) \/ CasFails(t) \/ GiveUpSpinning(t)
               \/ SemWait(t) \/ SemInterrupted(t) \/ SemPost(t)
        PROVE  MutualExclusion' /\ OwnerRecorded'
    BY <1>1 DEF Lock, Load, CasFails, GiveUpSpinning, SpinAgain, SemWait,
                SemInterrupted, SemPost
  <1>2. ASSUME NEW t \in Threads, CasSucceeds(t)
        PROVE  MutualExclusion' /\ OwnerRecorded'
    BY <1>2 DEF CasSucceeds
  <1>3. ASSUME NEW t \in Threads, Exchange(t)
        PROVE  MutualExclusion' /\ OwnerRecorded'
    BY <1>3 DEF Exchange
  <1>4. ASSUME NEW t \in Threads, SetTid(t)
        PROVE  MutualExclusion' /\ OwnerRecorded'
    BY <1>4 DEF SetTid
  <1>5. ASSUME NEW t \in Threads, Unlock(t)
        PROVE  MutualExclusion' /\ OwnerRecorded'
    BY <1>5 DEF Unlock
  <1>6. ASSUME NEW t \in Threads, ClearTid(t)
        PROVE  MutualExclusion' /\ OwnerRecorded'
    BY <1>6 DEF ClearTid
  <1>7. ASSUME NEW t \in Threads, ReleaseState(t)
        PROVE  MutualExclusion' /\ OwnerRecorded'
    BY <1>7 DEF ReleaseState
  <1>8. CASE UNCHANGED vars
    BY <1>8 DEF vars
  <1>9. QED
    BY <1>1, <1>2, <1>3, <1>4, <1>5, <1>6, <1>7, <1>8 DEF Next

(* A sleeper keeps a promise of a wakeup through every access: what one    *)
(* step takes away (the word, the token, the woken thread) the same step   *)
(* replaces by the next link of the chain.                                 *)
LEMMA NextNoLostWakeup ==
  ASSUME TypeOK, NoLostWakeup, [Next]_vars
  PROVE  NoLostWakeup'
  <1> USE DEF TypeOK, States, Locations, NoLostWakeup, Goto
  <1>1. ASSUME NEW t \in Threads,
               \/ Lock(t) \/ Load(t) \/ CasFails(t) \/ GiveUpSpinning(t)
               \/ SetTid(t) \/ Unlock(t) \/ ClearTid(t)
        PROVE  NoLostWakeup'
    BY <1>1 DEF Lock, Load, CasFails, GiveUpSpinning, SpinAgain, SetTid, Unlock,
                ClearTid
  <1>2. ASSUME NEW t \in Threads, CasSucceeds(t) PROVE NoLostWakeup'
    BY <1>2 DEF CasSucceeds
  <1>3. ASSUME NEW t \in Threads, Exchange(t) PROVE NoLostWakeup'
    BY <1>3 DEF Exchange
  <1>4. ASSUME NEW t \in Threads, SemWait(t) \/ SemInterrupted(t)
        PROVE  NoLostWakeup'
    BY <1>4 DEF SemWait, SemInterrupted
  <1>5. ASSUME NEW t \in Threads, ReleaseState(t) PROVE NoLostWakeup'
    BY <1>5 DEF ReleaseState
  <1>6. ASSUME NEW t \in Threads, SemPost(t) PROVE NoLostWakeup'
    BY <1>6 DEF SemPost
  <1>7. CASE UNCHANGED vars
    BY <1>7 DEF vars
  <1>8. QED
    BY <1>1, <1>2, <1>3, <1>4, <1>5, <1>6, <1>7 DEF Next

(* The conjunction of the above is inductive, hence an invariant.          *)
THEOREM Invariance == Spec => []IInv
  <1>1. IInv /\ [Next]_vars => IInv'
    BY NextTypeOK, NextMutualExclusion, NextNoLostWakeup DEF IInv
  <1>2. QED
    BY InitIInv, <1>1, PTL DEF Spec

-----------------------------------------------------------------------------
(* The fields of struct mutex stay in their ranges: the semaphore count    *)
(* never leaves 0..SEM_VALUE_MAX although posts can pile up.               *)
THEOREM TypeCorrect == Spec => []TypeOK
  BY Invariance, PTL DEF IInv

(* At most one thread is between mutex_lock and mutex_unlock.              *)
THEOREM MutexExcludes == Spec => []MutualExclusion
  BY Invariance, PTL DEF IInv

(* locker_tid is exact, so the owner check of mutex_unlock can be trusted. *)
THEOREM OwnerIsRecorded == Spec => []OwnerRecorded
  BY Invariance, PTL DEF IInv

(* No thread sleeps in sem_wait without a pending wakeup.                  *)
THEOREM WakeupNotLost == Spec => []NoLostWakeup
  BY Invariance, PTL DEF IInv

(* mutex_unlock releases when the holder calls it and only then.           *)
THEOREM OwnerCheckIsExact == Spec => OwnerCheckExact
  <1>1. IInv /\ [Next]_vars =>
          [\A t \in Threads : Unlock(t) => (pc'[t] = "clear_tid" <=> pc[t] = "held")]_vars
    BY DEF IInv, TypeOK, OwnerRecorded, Unlock, Goto, Locations
  <1>2. QED
    BY Invariance, <1>1, PTL DEF Spec, OwnerCheckExact

-----------------------------------------------------------------------------
(* The thread inside, when there is one, is the holder of the abstract     *)
(* lock.                                                                   *)
LEMMA HolderIs ==
  ASSUME MutualExclusion, NEW t \in Threads, t \in Inside
  PROVE  Holder = t
  BY DEF MutualExclusion, Inside, Holder

(* With nobody inside the abstract lock is free.                           *)
LEMMA HolderNone == /\ Inside = {} => Holder = NoThread
                    /\ Inside' = {} => Holder' = NoThread
  BY DEF Holder

(* The abstract holder changes only with the set of threads inside.        *)
LEMMA HolderStays == Inside' = Inside => Holder' = Holder
  BY DEF Holder

(* Just after t took a free mutex, t is the holder.                        *)
LEMMA HolderTaken ==
  ASSUME MutualExclusion', NEW t \in Threads, t \in Inside'
  PROVE  Holder' = t
  BY DEF MutualExclusion, Inside, Holder

(* Each access of the mutex is a Request, an Acquire, a Release or a       *)
(* stutter of the abstract lock.                                           *)
LEMMA StepRefines ==
  ASSUME IInv, IInv', [Next]_vars
  PROVE  [AL!ANext]_(AL!avars)
  <1> USE DEF IInv, TypeOK, Locations, Goto, Inside, Trying, AL!ANext, AL!avars
  <1>1. ASSUME NEW t \in Threads, Lock(t) PROVE AL!Request(t)
    <2>1. Inside' = Inside /\ t \notin Inside /\ Trying' = Trying \cup {t}
                           /\ t \notin Trying
      BY <1>1 DEF Lock
    <2>2. Holder' = Holder
      BY <2>1, HolderStays
    <2>3. t # Holder
      <3>1. CASE Inside = {}
        BY <3>1, HolderNone
      <3>2. ASSUME NEW u \in Threads, u \in Inside PROVE t # Holder
        BY <3>2, <2>1, HolderIs
      <3>3. QED
        BY <3>1, <3>2
    <2>4. QED
      BY <2>1, <2>2, <2>3 DEF AL!Request
  <1>2. ASSUME NEW t \in Threads,
               \/ Load(t) \/ CasFails(t) \/ GiveUpSpinning(t) \/ SemWait(t)
               \/ SemInterrupted(t) \/ SetTid(t) \/ ClearTid(t) \/ SemPost(t)
        PROVE  Holder' = Holder /\ Trying' = Trying
    <2>1. Inside' = Inside /\ Trying' = Trying
      BY <1>2 DEF Load, CasFails, GiveUpSpinning, SpinAgain, SemWait,
                  SemInterrupted, SetTid, ClearTid, SemPost
    <2>2. QED
      BY <2>1, HolderStays
  <1>3. ASSUME NEW t \in Threads, Unlock(t)
        PROVE  Holder' = Holder /\ Trying' = Trying
    <2>1. Inside' = Inside /\ Trying' = Trying
      BY <1>3 DEF Unlock, OwnerRecorded
    <2>2. QED
      BY <2>1, HolderStays
  <1>4. ASSUME NEW t \in Threads, CasSucceeds(t) PROVE AL!Acquire(t)
    <2>1. Inside = {} /\ t \in Trying /\ Trying' = Trying \ {t} /\ t \in Inside'
      BY <1>4 DEF CasSucceeds, MutualExclusion
    <2>2. Holder = NoThread
      BY <2>1, HolderNone
    <2>3. Holder' = t
      BY <2>1, HolderTaken
    <2>4. QED
      BY <2>1, <2>2, <2>3 DEF AL!Acquire
  <1>5. ASSUME NEW t \in Threads, Exchange(t), state = "FREE"
        PROVE  AL!Acquire(t)
    <2>1. Inside = {} /\ t \in Trying /\ Trying' = Trying \ {t} /\ t \in Inside'
      BY <1>5 DEF Exchange, MutualExclusion
    <2>2. Holder = NoThread
      BY <2>1, HolderNone
    <2>3. Holder' = t
      BY <2>1, HolderTaken
    <2>4. QED
      BY <2>1, <2>2, <2>3 DEF AL!Acquire
  <1>6. ASSUME NEW t \in Threads, Exchange(t), state # "FREE"
        PROVE  Holder' = Holder /\ Trying' = Trying
    <2>1. Inside' = Inside /\ Trying' = Trying
      BY <1>6 DEF Exchange
    <2>2. QED
      BY <2>1, HolderStays
  <1>7. ASSUME NEW t \in Threads, ReleaseState(t) PROVE AL!Release(t)
    <2>1. t \in Inside
      BY <1>7 DEF ReleaseState
    <2>2. state' = "FREE" /\ Trying' = Trying
      BY <1>7 DEF ReleaseState
    <2>3. Inside' = {}
      BY <2>2 DEF MutualExclusion
    <2>4. Holder = t
      BY <2>1, HolderIs
    <2>5. Holder' = NoThread
      BY <2>3, HolderNone
    <2>6. QED
      BY <2>2, <2>4, <2>5 DEF AL!Release
  <1>8. CASE UNCHANGED vars
    BY <1>8, HolderStays DEF vars
  <1>9. QED
    BY <1>1, <1>2, <1>3, <1>4, <1>5, <1>6, <1>7, <1>8 DEF Next

(* The mutex implements the safety part of the abstract lock: its word,    *)
(* its owner id and its semaphore together are one holder and a set of     *)
(* waiting threads.                                                        *)
THEOREM RefinesLock == Spec => AL!ASafeSpec
  <1>1. Init => AL!AInit
    BY DEF Init, AL!AInit, Holder, Inside, Trying
  <1>2. QED
    BY Invariance, <1>1, StepRefines, PTL DEF Spec, AL!ASafeSpec
=============================================================================
