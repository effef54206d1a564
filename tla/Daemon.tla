------------------------------- MODULE Daemon -------------------------------
(***************************************************************************)
(* DaemonAdapter (src/worker/adapter/proc_daemon.rs): processes of one     *)
(* service, launched one after the other or at the same time, that share   *)
(* the path of a PID file.  A process may be killed between any two        *)
(* steps; a later launch finds what it left behind.  The kernel is seen    *)
(* only as far as signals matter: before Exec SIGTERM still kills, since   *)
(* install_signal_handler sets a flag that only the Exec phase acts on     *)
(* (src/kernel/core.rs).                                                   *)
(***************************************************************************)
EXTENDS Naturals, FiniteSets

CONSTANTS Process,       \* the launches, each a process of its own
          MaxDaemonize   \* how often a process may call daemonize()

ASSUME ProcessAssumption == "none" \notin Process /\ "torn" \notin Process
ASSUME MaxDaemonizeAssumption == MaxDaemonize \in Nat

VARIABLES config,  \* the service's DaemonConfig, the same for every process
          at,      \* how far each process has come
          guard,   \* its adapter holds a PidFile
          file,    \* the PID file: absent, without a PID, or a process
          linked,  \* the processes whose descriptor is the file at the path
          written, \* how often it has begun to write the file (history)
          unremoved, \* the processes whose last removal of the file failed (history)
          shared   \* another process was alive at some time during its life (history)

daemonVars == <<config, at, guard, file, linked, written, unremoved, shared>>

(* What the code looks at: is the name not empty, are the two paths set.     *)
DaemonConfig == [name : BOOLEAN, pid_file : BOOLEAN, working_dir : BOOLEAN]

Over == {"unborn", "ended", "killed"}
Alive(p) == at[p] \notin Over

-----------------------------------------------------------------------------
(* PidFile's Drop removes the path, whatever the file holds by now; one that *)
(* is being written loses its name.  The error of remove_file is discarded:  *)
(* in a directory that has become read-only, or with a relative path after a *)
(* change of the working directory, the file stays.                          *)
RemoveFile(p) ==
    \/ /\ guard[p]
       /\ file' = "none" /\ linked' = {}
       /\ unremoved' = unremoved \ {p}
    \/ /\ guard[p] /\ file # "none"
       /\ unremoved' = unremoved \cup {p}
       /\ UNCHANGED <<file, linked>>
    \/ ~guard[p] /\ UNCHANGED <<file, linked, unremoved>>

(* The adapter goes out of scope, or its guard is reset by run().            *)
DropGuard(p) == RemoveFile(p) /\ guard' = [guard EXCEPT ![p] = FALSE]

Launch(p) ==
    /\ at[p] = "unborn"
    /\ at' = [at EXCEPT ![p] = "main"]
    /\ shared' = [q \in Process |->
                    \/ shared[q]
                    \/ Alive(q)
                    \/ q = p /\ \E r \in Process : Alive(r)]
    /\ UNCHANGED <<config, guard, file, linked, written, unremoved>>

(* A nameless configuration is refused.                                      *)
New(p) ==
    /\ at[p] = "main"
    /\ at' = [at EXCEPT ![p] = IF config.name THEN "adapter" ELSE "ended"]
    /\ UNCHANGED <<config, guard, file, linked, written, unremoved, shared>>

Daemonize(p) ==
    /\ at[p] = "adapter" /\ written[p] < MaxDaemonize
    /\ at' = [at EXCEPT ![p] = IF config.working_dir THEN "chdir"
                               ELSE IF config.pid_file THEN "create" ELSE "adapter"]
    /\ UNCHANGED <<config, guard, file, linked, written, unremoved, shared>>

ChangeDir(p) ==
    /\ at[p] = "chdir"
    /\ at' = [at EXCEPT ![p] = IF config.pid_file THEN "create" ELSE "adapter"]
    /\ UNCHANGED <<config, guard, file, linked, written, unremoved, shared>>

(* Mutant: a file that is already there is left as it is *)
CreateUnlessThere(p) ==
    /\ at[p] = "create"
    /\ written' = [written EXCEPT ![p] = @ + 1]
    /\ at' = [at EXCEPT ![p] = IF file = "none" THEN "write" ELSE "keep"]
    /\ file' = IF file = "none" THEN "torn" ELSE file
    /\ linked' = linked \cup {p}
    /\ UNCHANGED <<config, guard, unremoved, shared>>

(* fs::write creates the file or empties the one that is there...            *)
CreateFile(p) ==
    /\ at[p] = "create"
    /\ written' = [written EXCEPT ![p] = @ + 1]
    /\ at' = [at EXCEPT ![p] = "write"]
    /\ file' = "torn"
    /\ linked' = linked \cup {p}
    /\ UNCHANGED <<config, guard, unremoved, shared>>

(* ... and then writes the PID, perhaps to a file that was removed.          *)
WritePid(p) ==
    /\ at[p] = "write"
    /\ at' = [at EXCEPT ![p] = "keep"]
    /\ file' = IF p \in linked THEN p ELSE file
    /\ linked' = linked \ {p}
    /\ UNCHANGED <<config, guard, written, unremoved, shared>>

(* Storing the guard drops the one it replaces, and with it the file.        *)
KeepGuard(p) ==
    /\ at[p] = "keep"
    /\ at' = [at EXCEPT ![p] = "adapter"]
    /\ RemoveFile(p)
    /\ guard' = [guard EXCEPT ![p] = TRUE]
    /\ UNCHANGED <<config, written, shared>>

(* The directory, the creation or the write fails: daemonize() consumed the  *)
(* adapter, which is dropped.  The file of a failed write has no guard yet.  *)
DaemonizeFails(p) ==
    /\ at[p] \in {"chdir", "create", "write"}
    /\ at' = [at EXCEPT ![p] = "ended"]
    /\ DropGuard(p)
    /\ UNCHANGED <<config, written, shared>>

(* Mutant: only run() removes the file, the guard has no Drop of its own *)
DropAdapterKeepsFile(p) ==
    /\ at[p] = "adapter"
    /\ at' = [at EXCEPT ![p] = "ended"]
    /\ guard' = [guard EXCEPT ![p] = FALSE]
    /\ UNCHANGED <<config, file, linked, written, unremoved, shared>>

(* The service gives up before run().                                        *)
DropAdapter(p) ==
    /\ at[p] = "adapter"
    /\ at' = [at EXCEPT ![p] = "ended"]
    /\ DropGuard(p)
    /\ UNCHANGED <<config, written, shared>>

(* run(), with or without daemonize(): the handler is requested, the kernel  *)
(* boots.                                                                    *)
Run(p) ==
    /\ at[p] = "adapter"
    /\ at' = [at EXCEPT ![p] = "booting"]
    /\ UNCHANGED <<config, guard, file, linked, written, unremoved, shared>>

(* The Exec phase spawns the task that listens for the signals.              *)
EnterExec(p) ==
    /\ at[p] = "booting"
    /\ at' = [at EXCEPT ![p] = "exec"]
    /\ UNCHANGED <<config, guard, file, linked, written, unremoved, shared>>

(* SIGTERM: a kernel in Exec is told to stop, one that is stopping has been; *)
(* with no listener yet the process dies on the spot.                        *)
Sigterm(p) ==
    /\ Alive(p)
    /\ at' = [at EXCEPT ![p] = IF @ \in {"exec", "stopping"} THEN "stopping" ELSE "killed"]
    /\ UNCHANGED <<config, guard, file, linked, written, unremoved, shared>>

(* Kernel::run returns, with an error out of the boot or at the end, or a    *)
(* panic leaves it: the guard is reset in either case.                       *)
RunReturns(p) ==
    /\ at[p] \in {"booting", "exec", "stopping"}
    /\ at' = [at EXCEPT ![p] = "ended"]
    /\ DropGuard(p)
    /\ UNCHANGED <<config, written, shared>>

(* SIGKILL or an abort: nothing is dropped.                                  *)
Kill(p) ==
    /\ Alive(p)
    /\ at' = [at EXCEPT ![p] = "killed"]
    /\ UNCHANGED <<config, guard, file, linked, written, unremoved, shared>>

-----------------------------------------------------------------------------
DaemonInit ==
    /\ config \in DaemonConfig
    /\ at = [p \in Process |-> "unborn"]
    /\ guard = [p \in Process |-> FALSE]
    /\ file = "none"
    /\ linked = {}
    /\ written = [p \in Process |-> 0]
    /\ unremoved = {}
    /\ shared = [p \in Process |-> FALSE]

DaemonNext ==
    \E p \in Process :
       \/ Launch(p) \/ New(p) \/ Daemonize(p) \/ ChangeDir(p)
       \/ CreateFile(p) \/ WritePid(p) \/ KeepGuard(p) \/ DaemonizeFails(p)
       \/ DropAdapter(p) \/ Run(p) \/ EnterExec(p) \/ RunReturns(p)
       \/ Sigterm(p) \/ Kill(p)

DaemonSpec == DaemonInit /\ [][DaemonNext]_daemonVars

-----------------------------------------------------------------------------
(* Properties *)

(* Every process is somewhere in main(), in the adapter or past it.          *)
DaemonTypeOK ==
    /\ config \in DaemonConfig
    /\ at \in [Process -> {"unborn", "main", "adapter", "chdir", "create", "write", "keep",
                           "booting", "exec", "stopping", "ended", "killed"}]
    /\ guard \in [Process -> BOOLEAN]
    /\ file \in Process \cup {"none", "torn"}
    /\ linked \subseteq Process
    /\ written \in [Process -> Nat]
    /\ unremoved \subseteq Process
    /\ shared \in [Process -> BOOLEAN]

(* Whatever the order of launches, failures and kills, and although every    *)
(* process removes a path that may hold another's PID: a PID file names a    *)
(* process that is still at work with it, or one that was killed, or one     *)
(* whose own last remove_file failed.  No early end of daemonize(), of the   *)
(* adapter or of run() leaves a file behind.                                 *)
StaleFileHasCause ==
    \A p \in Process : file = p => Alive(p) \/ at[p] = "killed" \/ p \in unremoved

(* A process that is the only one, and has called daemonize() once, finds    *)
(* its own PID in the file for as long as the kernel runs: whatever an       *)
(* earlier process that was killed, failed half way or could not remove its  *)
(* file had left at the path.                                                *)
RunnerOwnsFile ==
    \A p \in Process :
       /\ ~shared[p] /\ written[p] = 1
       /\ at[p] \in {"booting", "exec", "stopping"}
       => file = p
=============================================================================
