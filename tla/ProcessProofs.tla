---------------------------- MODULE ProcessProofs ----------------------------
(***************************************************************************)
(* Proofs about what ties the kernel to its process: the PID file of       *)
(* DaemonAdapter and the handle that signals the shutdown.  They share     *)
(* nothing but this file.                                                  *)
(* Daemon, for any number of processes and of daemonize() calls: a path    *)
(* that names a process is guarded by that process or about to be;         *)
(* processes that live at the same time know of each other; and a process  *)
(* that is alone keeps what it wrote.                                      *)
(* ShutdownSignal, for any number of signallers and waiters: the argument  *)
(* is the one in the comment of ShutdownInner::signal.  The store is made  *)
(* under the mutex, so it cannot fall between a waiter's test of the flag  *)
(* and its parking.                                                        *)
(***************************************************************************)
EXTENDS ShutdownSignal, Daemon, TLAPS

-----------------------------------------------------------------------------
(* The PID file                                                              *)

(* There is no guard before daemonize() and none after the end.              *)
Unguarded ==
    \A p \in Process :
       /\ at[p] \in {"unborn", "main", "ended"} => ~guard[p]
       /\ at[p] \in {"unborn", "main"} => written[p] = 0
       /\ written[p] = 0 => ~guard[p] /\ at[p] \notin {"write", "keep"}

(* Whoever the file names will remove it, or has been killed, or has failed  *)
(* to remove it.                                                             *)
Answerable ==
    \A p \in Process :
       file = p => at[p] = "keep" \/ guard[p] \/ at[p] = "killed" \/ p \in unremoved

(* Two processes that are alive have both noticed the other.                 *)
Noticed ==
    \A p, q \in Process : p # q /\ Alive(p) /\ Alive(q) => shared[p] /\ shared[q]

(* What a process that is alone and has called daemonize() once finds at     *)
(* every stage.                                                              *)
Keeps(p) ==
    ~shared[p] /\ written[p] = 1 =>
       /\ at[p] = "write" => ~guard[p] /\ p \in linked
       /\ at[p] = "keep" => ~guard[p] /\ file = p
       /\ at[p] \in {"adapter", "chdir", "create", "booting", "exec", "stopping"} => file = p

FileInv == DaemonTypeOK /\ Unguarded /\ Answerable /\ Noticed /\ \A p \in Process : Keeps(p)

-----------------------------------------------------------------------------
LEMMA InitFileInv == DaemonInit => FileInv
BY ProcessAssumption
   DEF DaemonInit, FileInv, DaemonTypeOK, Unguarded, Answerable, Noticed, Keeps, Alive, Over

(* A process that is alive acts alone when its peer is not shared.           *)
LEMMA AloneOrShared ==
    ASSUME Noticed, NEW p \in Process, NEW q \in Process, p # q, Alive(p), ~shared[q]
    PROVE  at[q] \in Over
BY DEF Noticed, Alive

(* The steps that leave the file alone and move one process on.              *)
LEMMA QuietStep ==
    ASSUME FileInv, NEW p \in Process,
           \/ New(p) \/ Daemonize(p) \/ ChangeDir(p) \/ Run(p) \/ EnterExec(p)
           \/ Sigterm(p) \/ Kill(p)
    PROVE  FileInv'
<1>1. /\ UNCHANGED <<config, guard, file, linked, written, unremoved, shared>>
      /\ Alive(p)
      /\ \A q \in Process \ {p} : at'[q] = at[q]
      /\ at' \in [Process -> {"unborn", "main", "adapter", "chdir", "create", "write", "keep",
                              "booting", "exec", "stopping", "ended", "killed"}]
  BY DEF FileInv, DaemonTypeOK, New, Daemonize, ChangeDir, Run, EnterExec, Sigterm, Kill, Alive, Over
<1>2. /\ at[p] = "main" /\ at'[p] \in {"adapter", "ended"}
      \/ /\ at[p] \in {"adapter", "chdir", "booting", "exec", "stopping"}
         /\ at'[p] \in {"adapter", "chdir", "create", "booting", "exec", "stopping"}
      \/ at'[p] = "killed"
  BY DEF FileInv, DaemonTypeOK, New, Daemonize, ChangeDir, Run, EnterExec, Sigterm, Kill
<1>3. DaemonTypeOK'
  BY <1>1 DEF FileInv, DaemonTypeOK
<1>4. Unguarded'
  BY <1>1, <1>2 DEF FileInv, Unguarded
<1>5. Answerable'
  BY <1>1, <1>2 DEF FileInv, Answerable
<1>6. Noticed'
  BY <1>1 DEF FileInv, Noticed, Alive, Over
<1>7. \A q \in Process : Keeps(q)'
  BY <1>1, <1>2 DEF FileInv, Keeps, Unguarded
<1>8. QED
  BY <1>3, <1>4, <1>5, <1>6, <1>7 DEF FileInv

LEMMA LaunchStep == ASSUME FileInv, NEW p \in Process, Launch(p) PROVE FileInv'
<1>1. /\ at[p] = "unborn" /\ at'[p] = "main"
      /\ \A q \in Process \ {p} : at'[q] = at[q]
      /\ \A q \in Process : shared[q] \/ Alive(q) => shared'[q]
      /\ (\E r \in Process : Alive(r)) => shared'[p]
      /\ UNCHANGED <<config, guard, file, linked, written, unremoved>>
  BY DEF FileInv, DaemonTypeOK, Launch
<1>2. DaemonTypeOK'
  BY DEF FileInv, DaemonTypeOK, Launch
<1>3. Unguarded'
  BY <1>1 DEF FileInv, Unguarded
<1>4. Answerable'
  BY <1>1 DEF FileInv, Answerable, Unguarded
<1>5. Noticed'
  <2> SUFFICES ASSUME NEW q \in Process, NEW r \in Process, q # r, Alive(q)', Alive(r)'
               PROVE  shared'[q] /\ shared'[r]
    BY DEF Noticed
  <2>1. CASE q # p /\ r # p
    BY <1>1, <2>1 DEF FileInv, Noticed, Alive
  <2>2. CASE q = p
    BY <1>1, <2>2 DEF Alive
  <2>3. CASE r = p
    BY <1>1, <2>3 DEF Alive
  <2>4. QED
    BY <2>1, <2>2, <2>3
<1>6. \A q \in Process : Keeps(q)'
  BY <1>1 DEF FileInv, Keeps, Unguarded
<1>7. QED
  BY <1>2, <1>3, <1>4, <1>5, <1>6 DEF FileInv

(* Writing the file.                                                         *)
LEMMA WriteStep ==
    ASSUME FileInv, NEW p \in Process, CreateFile(p) \/ WritePid(p) PROVE FileInv'
<1>1. /\ Alive(p) /\ Alive(p)'
      /\ \A q \in Process \ {p} : at'[q] = at[q] /\ written'[q] = written[q]
      /\ UNCHANGED <<config, guard, unremoved, shared>>
  BY DEF FileInv, DaemonTypeOK, CreateFile, WritePid, Alive, Over
<1>2. /\ at[p] = "create" /\ at'[p] = "write" /\ written'[p] = written[p] + 1
         /\ file' = "torn" /\ linked' = linked \cup {p}
      \/ /\ at[p] = "write" /\ at'[p] = "keep" /\ written'[p] = written[p]
         /\ file' = (IF p \in linked THEN p ELSE file) /\ linked' = linked \ {p}
  BY DEF FileInv, DaemonTypeOK, CreateFile, WritePid
<1>3. DaemonTypeOK'
  BY DEF FileInv, DaemonTypeOK, CreateFile, WritePid
<1>4. Unguarded'
  BY <1>1, <1>2 DEF FileInv, DaemonTypeOK, Unguarded
<1>5. Answerable'
  BY <1>1, <1>2, ProcessAssumption DEF FileInv, Answerable
<1>6. Noticed'
  BY <1>1 DEF FileInv, Noticed, Alive
<1>7. ASSUME NEW q \in Process PROVE Keeps(q)'
  <2>1. CASE q = p
    BY <1>1, <1>2, <2>1 DEF FileInv, DaemonTypeOK, Keeps, Unguarded
  <2>2. CASE q # p /\ shared[q]
    BY <1>1, <2>2 DEF Keeps
  <2>3. CASE q # p /\ ~shared[q]
    <3>1. at'[q] \in Over
      BY <1>1, <2>3, AloneOrShared DEF FileInv
    <3>2. QED
      BY <3>1 DEF Keeps, Over
  <2>4. QED
    BY <2>1, <2>2, <2>3
<1>8. QED
  BY <1>3, <1>4, <1>5, <1>6, <1>7 DEF FileInv

(* Storing a guard, and the ends of a process.                               *)
LEMMA RemoveStep ==
    ASSUME FileInv, NEW p \in Process,
           KeepGuard(p) \/ DaemonizeFails(p) \/ DropAdapter(p) \/ RunReturns(p)
    PROVE  FileInv'
<1>1. /\ Alive(p) /\ RemoveFile(p)
      /\ \A q \in Process \ {p} : at'[q] = at[q] /\ guard'[q] = guard[q]
      /\ UNCHANGED <<config, written, shared>>
  BY DEF FileInv, DaemonTypeOK, KeepGuard, DaemonizeFails, DropAdapter, RunReturns, DropGuard,
         Alive, Over
<1>2. \/ at[p] = "keep" /\ at'[p] = "adapter" /\ guard'[p] = TRUE
      \/ at[p] # "keep" /\ at'[p] = "ended" /\ guard'[p] = FALSE
  BY DEF FileInv, DaemonTypeOK, KeepGuard, DaemonizeFails, DropAdapter, RunReturns, DropGuard
<1>3. DaemonTypeOK'
  <2>1. /\ file' \in Process \cup {"none", "torn"} /\ linked' \subseteq Process
        /\ unremoved' \subseteq Process
    BY <1>1 DEF RemoveFile, FileInv, DaemonTypeOK
  <2>2. /\ at' \in [Process -> {"unborn", "main", "adapter", "chdir", "create", "write", "keep",
                                "booting", "exec", "stopping", "ended", "killed"}]
        /\ guard' \in [Process -> BOOLEAN]
    BY DEF FileInv, DaemonTypeOK, KeepGuard, DaemonizeFails, DropAdapter, RunReturns, DropGuard
  <2>3. QED
    BY <1>1, <2>1, <2>2 DEF FileInv, DaemonTypeOK
<1>4. Unguarded'
  BY <1>1, <1>2 DEF FileInv, Unguarded
<1>5. Answerable'
  BY <1>1, <1>2, ProcessAssumption DEF FileInv, Answerable, RemoveFile, Alive, Over
<1>6. Noticed'
  BY <1>1, <1>2 DEF FileInv, Noticed, Alive, Over
<1>7. ASSUME NEW q \in Process PROVE Keeps(q)'
  <2>1. CASE q = p
    BY <1>1, <1>2, <2>1 DEF FileInv, Keeps, RemoveFile
  <2>2. CASE q # p /\ shared[q]
    BY <1>1, <2>2 DEF Keeps
  <2>3. CASE q # p /\ ~shared[q]
    <3>1. at'[q] \in Over
      BY <1>1, <2>3, AloneOrShared DEF FileInv
    <3>2. QED
      BY <3>1 DEF Keeps, Over
  <2>4. QED
    BY <2>1, <2>2, <2>3
<1>8. QED
  BY <1>3, <1>4, <1>5, <1>6, <1>7 DEF FileInv

LEMMA NextFileInv == FileInv /\ [DaemonNext]_daemonVars => FileInv'
<1> SUFFICES ASSUME FileInv, [DaemonNext]_daemonVars PROVE FileInv'
  OBVIOUS
<1>1. CASE UNCHANGED daemonVars
  BY <1>1 DEF daemonVars, FileInv, DaemonTypeOK, Unguarded, Answerable, Noticed, Keeps, Alive
<1>2. CASE DaemonNext
  BY <1>2, QuietStep, LaunchStep, WriteStep, RemoveStep DEF DaemonNext
<1>3. QED
  BY <1>1, <1>2

-----------------------------------------------------------------------------
(* The results *)

THEOREM FileInvariance == DaemonSpec => []FileInv
BY InitFileInv, NextFileInv, PTL DEF DaemonSpec

(* A PID file never outlives its process, except one that was killed or      *)
(* whose remove_file failed.                                                 *)
THEOREM NoStaleFile == DaemonSpec => []StaleFileHasCause
<1>1. FileInv => StaleFileHasCause
  BY DEF FileInv, StaleFileHasCause, Answerable, Unguarded, DaemonTypeOK, Alive, Over
<1>2. QED
  BY <1>1, FileInvariance, PTL

(* The only process of the service finds its own PID in the file while its   *)
(* kernel runs.                                                              *)
THEOREM OwnFile == DaemonSpec => []RunnerOwnsFile
<1>1. FileInv => RunnerOwnsFile
  BY DEF FileInv, RunnerOwnsFile, Keeps, Answerable, Unguarded
<1>2. QED
  BY <1>1, FileInvariance, PTL

-----------------------------------------------------------------------------
(* The shutdown handle                                                       *)

(* The mutex is held exactly in the three critical stages                    *)
LockHolder ==
    \A t \in Thread : parker = t <=> pc[t] \in {"store", "check", "park"}

Roles ==
    /\ \A s \in Signaller : pc[s] \in {"idle", "store", "notify"}
    /\ \A w \in Waiter : pc[w] \notin {"idle", "store", "notify"}
    /\ \A w \in Waiter : pc[w] = "timedout" => w \in TimedWaiter

(* A waiter that has tested the flag and still holds the mutex was right     *)
TestStillHolds == \A w \in Waiter : pc[w] = "park" => ~signalled

OutcomeWhenReturned == \A w \in Waiter : outcome[w] = "none" <=> pc[w] # "returned"

SignalInv ==
    /\ TypeOK
    /\ LockHolder
    /\ Roles
    /\ TestStillHolds
    /\ NoLostWakeup
    /\ OutcomeWhenReturned

USE DEF Thread

-----------------------------------------------------------------------------
LEMMA InitSignalInv == Init => SignalInv
BY ThreadAssumption DEF Init, SignalInv, TypeOK, LockHolder, Roles, TestStillHolds, NoLostWakeup,
   OutcomeWhenReturned

(* signal() *)
LEMMA SignalStep ==
    ASSUME SignalInv, NEW s \in Signaller, Signalling(s)
    PROVE  SignalInv'
<1>1. CASE SignalLock(s)
  BY <1>1, ThreadAssumption DEF SignalInv, TypeOK, LockHolder, Roles, TestStillHolds,
     NoLostWakeup, OutcomeWhenReturned, SignalLock, Lock, Goto
<1>2. CASE SignalStore(s)
  <2>1. \A w \in Waiter : pc'[w] = pc[w] /\ pc[w] # "park"
    BY <1>2, ThreadAssumption DEF SignalInv, TypeOK, LockHolder, Roles, SignalStore, Unlock, Goto
  <2>2. pc'[s] = "notify"
    BY <1>2 DEF SignalInv, TypeOK, SignalStore, Goto
  <2>3. (TypeOK /\ LockHolder /\ Roles)'
    BY <1>2, ThreadAssumption DEF SignalInv, TypeOK, LockHolder, Roles, SignalStore, Unlock, Goto
  <2>4. (TestStillHolds /\ NoLostWakeup /\ OutcomeWhenReturned)'
    BY <1>2, <2>1, <2>2 DEF SignalInv, TestStillHolds, NoLostWakeup, OutcomeWhenReturned, SignalStore
  <2>5. QED
    BY <2>3, <2>4 DEF SignalInv
<1>3. CASE NotifyAll(s)
  <2>1. \A w \in Waiter : pc'[w] # "parked" /\ (pc'[w] # pc[w] => pc[w] = "parked" /\ pc'[w] = "woken")
    BY <1>3, ThreadAssumption DEF SignalInv, TypeOK, NotifyAll
  <2>2. (TypeOK /\ LockHolder /\ Roles)'
    BY <1>3, ThreadAssumption DEF SignalInv, TypeOK, LockHolder, Roles, NotifyAll
  <2>3. (TestStillHolds /\ NoLostWakeup /\ OutcomeWhenReturned)'
    BY <1>3, <2>1 DEF SignalInv, TestStillHolds, NoLostWakeup, OutcomeWhenReturned, NotifyAll
  <2>4. QED
    BY <2>2, <2>3 DEF SignalInv
<1>4. QED
  BY <1>1, <1>2, <1>3 DEF Signalling

(* wait_for_signal and wait_for_signal_until                                 *)
LEMMA WaitStep ==
    ASSUME SignalInv, NEW w \in Waiter, Waiting(w) \/ SpuriousWakeup(w) \/ DeadlinePasses(w)
    PROVE  SignalInv'
<1> USE ThreadAssumption DEF SignalInv, TypeOK, LockHolder, Roles, TestStillHolds, NoLostWakeup,
        OutcomeWhenReturned, Lock, Unlock, Goto
<1>1. CASE WaitLock(w)
  BY <1>1 DEF WaitLock
<1>2. CASE Check(w)
  <2>1. CASE signalled /\ Finish(w, "true")
    BY <1>2, <2>1 DEF Check, Finish
  <2>2. CASE ~signalled /\ w \in TimedWaiter /\ w \in expired /\ Finish(w, "false")
    BY <1>2, <2>2 DEF Check, Finish
  <2>3. CASE /\ ~signalled /\ Goto(w, "park")
             /\ UNCHANGED <<signalled, parker, expired, outcome>>
    BY <1>2, <2>3 DEF Check
  <2>4. QED
    BY <1>2, <2>1, <2>2, <2>3 DEF Check
<1>3. CASE Park(w)
  BY <1>3 DEF Park
<1>4. CASE Timeout(w)
  BY <1>4 DEF Timeout
<1>5. CASE Relock(w)
  BY <1>5 DEF Relock
<1>6. CASE SpuriousWakeup(w)
  BY <1>6 DEF SpuriousWakeup
<1>7. CASE DeadlinePasses(w)
  BY <1>7 DEF DeadlinePasses
<1>8. QED
  BY <1>1, <1>2, <1>3, <1>4, <1>5, <1>6, <1>7 DEF Waiting

LEMMA NextSignalInv == SignalInv /\ [Next]_vars => SignalInv'
<1> SUFFICES ASSUME SignalInv, [Next]_vars PROVE SignalInv'
  OBVIOUS
<1>1. CASE UNCHANGED vars
  BY <1>1 DEF vars, SignalInv, TypeOK, LockHolder, Roles, TestStillHolds, NoLostWakeup,
     OutcomeWhenReturned
<1>2. CASE Next
  BY <1>2, SignalStep, WaitStep DEF Next
<1>3. QED
  BY <1>1, <1>2

-----------------------------------------------------------------------------
(* The results *)

(* The type invariant holds for any threads. *)
THEOREM TypeCorrect == Spec => []TypeOK
<1>1. SignalInv => TypeOK
  BY DEF SignalInv
<1>2. QED
  BY <1>1, InitSignalInv, NextSignalInv, PTL DEF Spec

(* signal() followed by notify_all outside the mutex loses no wakeup: a      *)
(* waiter asleep with the flag up is about to be notified.                   *)
THEOREM WakeupsKept == Spec => []NoLostWakeup
<1>1. SignalInv => NoLostWakeup
  BY DEF SignalInv
<1>2. QED
  BY <1>1, InitSignalInv, NextSignalInv, PTL DEF Spec

(* The latch's variables, as the handle keeps them *)
LatchState == <<signalled, outcome>>

(* Raising the flag is the latch's Signal; the lock and the broadcast are    *)
(* invisible to it.                                                          *)
LEMMA SignallerMaps ==
    ASSUME NEW s \in Signaller, Signalling(s)
    PROVE  Abstract!Signal \/ UNCHANGED LatchState
BY DEF Signalling, SignalLock, SignalStore, NotifyAll, Abstract!Signal, LatchState

(* A waiter answers once, and the answer it gives is one the latch allows.   *)
LEMMA WaiterMaps ==
    ASSUME SignalInv, NEW w \in Waiter, Waiting(w) \/ SpuriousWakeup(w) \/ DeadlinePasses(w)
    PROVE  Abstract!Return(w) \/ Abstract!GiveUp(w) \/ UNCHANGED LatchState
<1>1. outcome[w] = "none" \/ pc[w] = "returned"
  BY DEF SignalInv, OutcomeWhenReturned
<1>check. CASE Check(w)
  BY <1>1, <1>check DEF Check, Finish, Abstract!Return, Abstract!GiveUp, LatchState
<1>relock. CASE Relock(w)
  BY <1>1, <1>relock DEF Relock, SignalInv, Roles, Abstract!GiveUp, LatchState
<1>quiet. CASE \/ WaitLock(w) \/ Park(w) \/ Timeout(w)
               \/ SpuriousWakeup(w) \/ DeadlinePasses(w)
  BY <1>quiet DEF WaitLock, Park, Timeout, SpuriousWakeup, DeadlinePasses, LatchState
<1>2. QED
  BY <1>check, <1>relock, <1>quiet DEF Waiting

(* Every wait returns what the latch allows: true only after a signal, false *)
(* only from a timed wait that no signal reached in time.                    *)
THEOREM ImplementsLatch == Spec => RefinesLatch
<1>init. Init => Abstract!Init
  BY DEF Init, Abstract!Init
<1>next. SignalInv /\ [Next]_vars => [Abstract!Next]_LatchState
  BY SignallerMaps, WaiterMaps DEF Next, vars, LatchState, Abstract!Next
<1>qed. QED
  BY <1>init, <1>next, InitSignalInv, NextSignalInv, PTL DEF Spec, RefinesLatch, Abstract!Spec, LatchState
=============================================================================
