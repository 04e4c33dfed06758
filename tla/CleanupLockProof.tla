-------------------------- MODULE CleanupLockProof --------------------------
(***************************************************************************)
(* When the constants are Timely, as those of the usage pool's loop are    *)
(* and those of the session pool's are not, the lock excludes: for any     *)
(* number of processes, any timeout, period, retries and stalls.  The      *)
(* invariant LockInv adds to "who cleans holds the lock" how much of the   *)
(* key's life is left against the time the holder may take.                *)
(***************************************************************************)
EXTENDS CleanupLock, TLAPS

USE LockConstants DEF keyVars, procVars, Looping, Active, GoTo, SetKey

\* Nobody holds anything at start.
LEMMA InitLockInv == Init => LockInv
  BY DEF Init, LockInv, TypeOK, KeyShape, HolderInv, Holds
-----------------------------------------------------------------------------
\* The loop has not started.
LEMMA BootStep ==
  ASSUME Timely, LockInv, NEW p \in Procs, Boot(p)
  PROVE  LockInv'
<1> USE DEF Boot, LockInv
<1>1. TypeOK'     BY DEF TypeOK, MoreTries
<1>2. KeyShape'   BY DEF TypeOK, KeyShape
<1>3. HolderInv'  BY DEF TypeOK, KeyShape, HolderInv, Holds, Timely
<1> QED  BY <1>1, <1>2, <1>3

\* The key was free, so nobody held it.
LEMMA AcquireStep ==
  ASSUME Timely, LockInv, NEW p \in Procs, Acquire(p)
  PROVE  LockInv'
<1> USE DEF Acquire, LockInv
<1>1. TypeOK'     BY DEF TypeOK, MoreTries
<1>2. KeyShape'   BY DEF TypeOK, KeyShape
<1>3. HolderInv'  BY DEF TypeOK, KeyShape, HolderInv, Holds, Timely
<1> QED  BY <1>1, <1>2, <1>3

\* P holds nothing yet.
LEMMA AcquireFailsStep ==
  ASSUME Timely, LockInv, NEW p \in Procs, AcquireFails(p)
  PROVE  LockInv'
<1> USE DEF AcquireFails, LockInv
<1>1. TypeOK'     BY DEF TypeOK, MoreTries
<1>2. KeyShape'   BY DEF TypeOK, KeyShape
<1>3. HolderInv'  BY DEF TypeOK, KeyShape, HolderInv, Holds, Timely
<1> QED  BY <1>1, <1>2, <1>3

\* P holds nothing yet.
LEMMA WakeToRetryStep ==
  ASSUME Timely, LockInv, NEW p \in Procs, WakeToRetry(p)
  PROVE  LockInv'
<1> USE DEF WakeToRetry, LockInv
<1>1. TypeOK'     BY DEF TypeOK, MoreTries
<1>2. KeyShape'   BY DEF TypeOK, KeyShape
<1>3. HolderInv'  BY DEF TypeOK, KeyShape, HolderInv, Holds, Timely
<1> QED  BY <1>1, <1>2, <1>3

\* P holds nothing.
LEMMA SkipStep ==
  ASSUME Timely, LockInv, NEW p \in Procs, Skip(p)
  PROVE  LockInv'
<1> USE DEF Skip, LockInv
<1>1. TypeOK'     BY DEF TypeOK, MoreTries
<1>2. KeyShape'   BY DEF TypeOK, KeyShape
<1>3. HolderInv'  BY DEF TypeOK, KeyShape, HolderInv, Holds, Timely
<1> QED  BY <1>1, <1>2, <1>3

\* P renews its own key: by Timely it is still there.
LEMMA RenewStep ==
  ASSUME Timely, LockInv, NEW p \in Procs, Renew(p)
  PROVE  LockInv'
<1> USE DEF Renew, EndLoop, LockInv
<1>1. TypeOK'     BY DEF TypeOK, MoreTries
<1>2. KeyShape'   BY DEF TypeOK, KeyShape
<1>3. HolderInv'  BY DEF TypeOK, KeyShape, HolderInv, Holds, Timely
<1> QED  BY <1>1, <1>2, <1>3

\* The sleep is shorter than what is left of the key.
LEMMA CleanPassStep ==
  ASSUME Timely, LockInv, NEW p \in Procs, CleanPass(p)
  PROVE  LockInv'
<1> USE DEF CleanPass, LockInv
<1>1. TypeOK'     BY DEF TypeOK, MoreTries
<1>2. KeyShape'   BY DEF TypeOK, KeyShape
<1>3. HolderInv'  BY DEF TypeOK, KeyShape, HolderInv, Holds, Timely
<1> QED  BY <1>1, <1>2, <1>3

\* The release is shorter than what is left of the key.
LEMMA PassRaisesStep ==
  ASSUME Timely, LockInv, NEW p \in Procs, PassRaises(p)
  PROVE  LockInv'
<1> USE DEF PassRaises, LockInv
<1>1. TypeOK'     BY DEF TypeOK, MoreTries
<1>2. KeyShape'   BY DEF TypeOK, KeyShape
<1>3. HolderInv'  BY DEF TypeOK, KeyShape, HolderInv, Holds, Timely
<1> QED  BY <1>1, <1>2, <1>3

\* The deadline of the sleep goes on.
LEMMA WakeToRenewStep ==
  ASSUME Timely, LockInv, NEW p \in Procs, WakeToRenew(p)
  PROVE  LockInv'
<1> USE DEF WakeToRenew, LockInv
<1>1. TypeOK'     BY DEF TypeOK, MoreTries
<1>2. KeyShape'   BY DEF TypeOK, KeyShape
<1>3. HolderInv'  BY DEF TypeOK, KeyShape, HolderInv, Holds, Timely
<1> QED  BY <1>1, <1>2, <1>3

\* The key is p's own.
LEMMA ReleaseReadStep ==
  ASSUME Timely, LockInv, NEW p \in Procs, ReleaseRead(p)
  PROVE  LockInv'
<1> USE DEF ReleaseRead, LockInv
<1>1. TypeOK'     BY DEF TypeOK, MoreTries
<1>2. KeyShape'   BY DEF TypeOK, KeyShape
<1>3. HolderInv'  BY DEF TypeOK, KeyShape, HolderInv, Holds, Timely
<1> QED  BY <1>1, <1>2, <1>3

\* Only p held the key.
LEMMA ReleaseDeleteStep ==
  ASSUME Timely, LockInv, NEW p \in Procs, ReleaseDelete(p)
  PROVE  LockInv'
<1> USE DEF ReleaseDelete, LockInv
<1>1. TypeOK'     BY DEF TypeOK, MoreTries
<1>2. KeyShape'   BY DEF TypeOK, KeyShape
<1>3. HolderInv'  BY DEF TypeOK, KeyShape, HolderInv, Holds, Timely
<1> QED  BY <1>1, <1>2, <1>3

\* A dead process holds nothing.
LEMMA DieStep ==
  ASSUME Timely, LockInv, NEW p \in Procs, Die(p)
  PROVE  LockInv'
<1> USE DEF Die, LockInv
<1>1. TypeOK'     BY DEF TypeOK, MoreTries
<1>2. KeyShape'   BY DEF TypeOK, KeyShape
<1>3. HolderInv'  BY DEF TypeOK, KeyShape, HolderInv, Holds, Timely
<1> QED  BY <1>1, <1>2, <1>3

\* Time passes for everybody: nobody who holds the key reaches its expiry.
LEMMA TickStep ==
  ASSUME Timely, LockInv, Tick
  PROVE  LockInv'
<1> USE DEF Tick, Minus1, LockInv
<1>1. TypeOK'     BY DEF TypeOK
<1>2. KeyShape'   BY DEF TypeOK, KeyShape
<1>3. HolderInv'  BY DEF TypeOK, KeyShape, HolderInv, Holds, Timely
<1> QED  BY <1>1, <1>2, <1>3

\* Every step preserves LockInv.
LEMMA NextLockInv == ASSUME Timely, LockInv, [Next]_vars PROVE LockInv'
<1>1. CASE Tick
  BY <1>1, TickStep
<1>2. CASE \E p \in Procs : Starting(p)
  BY <1>2, AcquireStep, AcquireFailsStep, WakeToRetryStep, SkipStep DEF Starting
<1>3. CASE \E p \in Procs : Cleaning(p)
  BY <1>3, RenewStep, CleanPassStep, WakeToRenewStep DEF Cleaning
<1>4. CASE \E p \in Procs : Ending(p)
  BY <1>4, ReleaseReadStep, ReleaseDeleteStep DEF Ending
<1>5. CASE \E p \in Procs : Outside(p)
  BY <1>5, BootStep, PassRaisesStep, DieStep DEF Outside
<1>6. CASE UNCHANGED vars
  BY <1>6 DEF vars, LockInv, TypeOK, KeyShape, HolderInv, Holds
<1> QED  BY <1>1, <1>2, <1>3, <1>4, <1>5, <1>6 DEF Next

\* LockInv holds in every reachable state.
LEMMA AlwaysLockInv == ASSUME Timely PROVE Spec => []LockInv
<1>1. LockInv /\ [Next]_vars => LockInv'  BY NextLockInv
<1> QED  BY <1>1, InitLockInv, PTL DEF Spec

\* "Distributed lock": at most one process cleans, whatever crashes, failed
\* passes and restarts happen, as long as the constants are Timely.
THEOREM MutualExclusion == ASSUME Timely PROVE Spec => []AtMostOneCleaner
<1>1. LockInv => AtMostOneCleaner
  BY DEF LockInv, HolderInv, Holds, AtMostOneCleaner
<1> QED  BY <1>1, AlwaysLockInv, PTL

\* The two round trips of release_lock never delete another process's lock.
THEOREM ReleaseIsSafe == ASSUME Timely PROVE Spec => []DeletesOwnLock
<1>1. LockInv => DeletesOwnLock
  BY DEF LockInv, HolderInv, Holds, DeletesOwnLock
<1> QED  BY <1>1, AlwaysLockInv, PTL
=============================================================================
