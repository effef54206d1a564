-------------------------- MODULE SupervisorProofs --------------------------
(***************************************************************************)
(* The safety properties of Supervisor hold for every set of workers,      *)
(* every registration and every number of tasks.                           *)
(***************************************************************************)
EXTENDS Supervisor, TLAPS

(* The places of the loop where a handler is at one worker                   *)
Handling == Deciding \cup {"Escalate", "Backoff", "Starting", "Spawned"}

(* What the loop's position says about the worker it is at and the ones it   *)
(* still has to spawn, and about every handle during the drain               *)
LoopPosition ==
    /\ pending # NoWorker <=> sup \in Handling
    /\ spawning # {} => sup \in {"Spawn", "Starting", "Spawned"}
    /\ sup \in {"Starting", "Spawned"} => pending \notin spawning /\ state[pending] = "Starting"
    /\ sup \in {"Draining", "Aborting"} => \A w \in Worker : state[w] = "Stopping"

(* Who is handled or waits for its spawn has no task, except right after its *)
(* spawn; nobody has one before run() and after the drain.                   *)
TaskPosition ==
    /\ \A w \in Worker : (w \in spawning \/ (pending = w /\ sup # "Spawned")) => TasksOf(w) = {}
    /\ sup = "Spawned" => TasksOf(pending) # {}
    /\ sup \in {"Start", "Closing", "Returned"} => Live = {}

(* Before run(), and of a worker registered without one, a breaker is closed *)
BreakerPosition ==
    \A w \in Worker : sup = "Start" \/ ~spec[w].breaker => circuit[w].state = "Closed"

(* The inductive invariant *)
IInv ==
    /\ TypeOK
    /\ LoopPosition
    /\ TaskPosition
    /\ BreakerPosition
    /\ TaskMapExact
    /\ AtMostOneTask
    /\ OpenMeansIdle
    /\ HandleMatchesTask
    /\ FailureEscalates

LEMMA InitIInv == Init => IInv
<1> SUFFICES ASSUME Init PROVE IInv
  OBVIOUS
<1>a. 0 \in 0..MaxFailures
  BY SpecAssumption
<1>b. NewBreaker \in Breaker
  BY DEF NewBreaker, Breaker, CircuitState
<1>1. TypeOK
  BY <1>a, <1>b DEF Init, TypeOK, LoopState, TaskState, WorkerState
<1>2. Live = {} /\ \A w : TasksOf(w) = {}
  BY DEF Init, Live, Free, TasksOf
<1>3. LoopPosition /\ TaskPosition
  BY <1>2, SpecAssumption DEF Init, LoopPosition, TaskPosition, Handling, Deciding
<1>4. BreakerPosition /\ OpenMeansIdle
  BY <1>2 DEF Init, BreakerPosition, OpenMeansIdle, NewBreaker
<1>5. TaskMapExact
  BY DEF Init, TaskMapExact
<1>6. AtMostOneTask /\ HandleMatchesTask
  BY <1>2 DEF Init, AtMostOneTask, HandleMatchesTask
<1>7. FailureEscalates
  BY SpecAssumption DEF Init, FailureEscalates, GivenUp, NewBreaker
<1>8. QED
  BY <1>1, <1>3, <1>4, <1>5, <1>6, <1>7 DEF IInv

-----------------------------------------------------------------------------
(* Steps that leave the JoinSet alone *)

LEMMA TasksKept ==
    ASSUME UNCHANGED taskVars
    PROVE  /\ Live' = Live /\ \A w : TasksOf(w)' = TasksOf(w)
           /\ TaskMapExact => TaskMapExact'
           /\ AtMostOneTask => AtMostOneTask'
<1> USE DEF taskVars
<1>1. Live' = Live /\ \A w : TasksOf(w)' = TasksOf(w)
  BY DEF Live, Free, TasksOf
<1>2. QED
  BY <1>1 DEF TaskMapExact, AtMostOneTask

(* A step that changes only tokens, heartbeats and signalled, the shutdown   *)
(* ones only from FALSE to TRUE                                              *)
LEMMA QuietStep ==
    ASSUME IInv, UNCHANGED <<spec, loopVars, state, taskVars, workVars>>,
           cancel_token' \in BOOLEAN, child' \in [Worker -> BOOLEAN],
           signalled' \in BOOLEAN, signalled => signalled',
           cancel_token => cancel_token',
           heartbeat' \in [Worker -> {"never", "fresh", "silent"}]
    PROVE  IInv'
<1> USE DEF loopVars, workVars
<1>1. TypeOK'
  BY DEF IInv, TypeOK, taskVars
<1>2. /\ Live' = Live /\ \A w : TasksOf(w)' = TasksOf(w)
      /\ TaskMapExact' /\ AtMostOneTask'
  BY TasksKept DEF IInv
<1>3. LoopPosition' /\ TaskPosition' /\ BreakerPosition'
  BY <1>2 DEF IInv, LoopPosition, TaskPosition, BreakerPosition
<1>4. OpenMeansIdle' /\ HandleMatchesTask'
  BY <1>2 DEF IInv, OpenMeansIdle, HandleMatchesTask, AboutToRun
<1>5. FailureEscalates'
  BY DEF IInv, FailureEscalates, GivenUp, Escalated
<1>6. QED
  BY <1>1, <1>2, <1>3, <1>4, <1>5 DEF IInv

(* A task moves on without entering or leaving the JoinSet *)
LEMMA SetTaskStep ==
    ASSUME IInv, NEW t \in TaskId, NEW st \in TaskState \ {"free"},
           task[t] # "free", SetTask(t, st), UNCHANGED heartbeat
    PROVE  IInv'
<1> USE DEF SetTask, loopVars, tokenVars, workVars
<1>1. TypeOK'
  BY DEF IInv, TypeOK
<1>2. Live' = Live /\ \A w : TasksOf(w)' = TasksOf(w)
  BY DEF IInv, TypeOK, Live, Free, TasksOf
<1>3. LoopPosition' /\ TaskPosition' /\ BreakerPosition'
  BY <1>2 DEF IInv, LoopPosition, TaskPosition, BreakerPosition
<1>4. TaskMapExact' /\ AtMostOneTask'
  BY <1>2 DEF IInv, TypeOK, TaskMapExact, AtMostOneTask
<1>5. OpenMeansIdle' /\ HandleMatchesTask'
  BY <1>2 DEF IInv, OpenMeansIdle, HandleMatchesTask, AboutToRun
<1>6. FailureEscalates'
  BY DEF IInv, FailureEscalates, GivenUp, Escalated
<1>7. QED
  BY <1>1, <1>3, <1>4, <1>5, <1>6 DEF IInv

(* A step of the loop that leaves tasks, breakers, failures and reports      *)
(* alone: what is left to show is where the loop is and what the handles say.*)
LEMMA LoopStep ==
    ASSUME IInv, UNCHANGED <<spec, cancel_token, signalled, taskVars, workVars, heartbeat>>,
           sup' \in LoopState \ {"Start"}, pending' \in Worker \cup {NoWorker},
           spawning' \in SUBSET Worker, silent' \in SUBSET Worker,
           child' \in [Worker -> BOOLEAN], state' \in [Worker -> WorkerState],
           LoopPosition', TaskPosition',
           \A w \in Worker : AboutToRun(w)' => AboutToRun(w),
           \A w \in Worker : (pending = w /\ sup \in {"GiveUp", "Escalate"}) =>
                             (pending' = w /\ sup' \in {"GiveUp", "Escalate"}),
           HandleMatchesTask'
    PROVE  IInv'
<1> USE DEF workVars
<1>1. TypeOK'
  BY DEF IInv, TypeOK, taskVars
<1>2. (\A w : TasksOf(w)' = TasksOf(w)) /\ TaskMapExact' /\ AtMostOneTask'
  BY TasksKept DEF IInv
<1>3. BreakerPosition'
  BY DEF IInv, BreakerPosition
<1>4. OpenMeansIdle'
  BY <1>2 DEF IInv, OpenMeansIdle
<1>5. FailureEscalates'
  BY DEF IInv, FailureEscalates, GivenUp, Escalated
<1>6. QED
  BY <1>1, <1>2, <1>3, <1>4, <1>5 DEF IInv

LEMMA RunStartStep == ASSUME IInv, RunStart PROVE IInv'
<1> USE DEF RunStart, tokenVars, workVars
<1>1. TypeOK'
  BY DEF IInv, TypeOK, LoopState, taskVars
<1>2. /\ Live = {} /\ Live' = Live /\ \A w : TasksOf(w)' = TasksOf(w)
      /\ TaskMapExact' /\ AtMostOneTask'
  BY TasksKept DEF IInv, TaskPosition
<1>3. LoopPosition' /\ TaskPosition'
  BY <1>2 DEF IInv, LoopPosition, TaskPosition, Handling, Deciding, TasksOf
<1>4. BreakerPosition' /\ \A w \in Worker : circuit'[w].state # "Open"
  BY DEF IInv, BreakerPosition
<1>5. OpenMeansIdle'
  BY <1>4 DEF OpenMeansIdle
<1>6. HandleMatchesTask'
  BY <1>2, SpecAssumption DEF IInv, LoopPosition, HandleMatchesTask, AboutToRun, Handling, Deciding
<1>7. FailureEscalates'
  BY DEF IInv, FailureEscalates, GivenUp, Escalated
<1>8. QED
  BY <1>1, <1>2, <1>3, <1>4, <1>5, <1>6, <1>7 DEF IInv

LEMMA SpawnOneStep == ASSUME IInv, NEW w \in Worker, SpawnOne(w) PROVE IInv'
<1> USE DEF SpawnOne, loopVars, tokenVars
<1>1. \A u : TasksOf(u)' = TasksOf(u) /\ Live' = Live
  BY TasksKept
<1>2. /\ sup' \in LoopState \ {"Start"} /\ pending' \in Worker \cup {NoWorker}
      /\ spawning' \in SUBSET Worker /\ silent' \in SUBSET Worker
      /\ child' \in [Worker -> BOOLEAN] /\ state' \in [Worker -> WorkerState]
  BY DEF IInv, TypeOK, LoopPosition, LoopState, WorkerState, Handling, Deciding
<1>3. LoopPosition'
  BY SpecAssumption DEF IInv, TypeOK, LoopPosition, Handling, Deciding
<1>4. TaskPosition'
  BY <1>1, SpecAssumption DEF IInv, TaskPosition, LoopPosition, Handling, Deciding
<1>5. \A u \in Worker : AboutToRun(u)' => AboutToRun(u)
  BY SpecAssumption DEF IInv, LoopPosition, AboutToRun, Handling, Deciding
<1>6. HandleMatchesTask'
  BY <1>1, SpecAssumption
     DEF IInv, TypeOK, HandleMatchesTask, LoopPosition, TaskPosition, AboutToRun, Handling, Deciding
<1>7. QED
  BY <1>2, <1>3, <1>4, <1>5, <1>6, LoopStep, SpecAssumption DEF IInv, LoopPosition, Handling, Deciding

LEMMA SpawnEndStep == ASSUME IInv, SpawnEnd PROVE IInv'
<1> USE DEF SpawnEnd, loopVars, tokenVars
<1>1. \A u : TasksOf(u)' = TasksOf(u) /\ Live' = Live
  BY TasksKept
<1>2. /\ sup' \in LoopState \ {"Start"} /\ pending' \in Worker \cup {NoWorker}
      /\ spawning' \in SUBSET Worker /\ silent' \in SUBSET Worker
      /\ child' \in [Worker -> BOOLEAN] /\ state' \in [Worker -> WorkerState]
  BY DEF IInv, TypeOK, LoopPosition, LoopState, WorkerState, Handling, Deciding
<1>3. LoopPosition'
  BY SpecAssumption DEF IInv, TypeOK, LoopPosition, Handling, Deciding
<1>4. TaskPosition'
  BY <1>1, SpecAssumption DEF IInv, TaskPosition, LoopPosition, Handling, Deciding
<1>5. \A u \in Worker : AboutToRun(u)' => AboutToRun(u)
  BY SpecAssumption DEF IInv, LoopPosition, AboutToRun, Handling, Deciding
<1>6. HandleMatchesTask'
  BY <1>1, SpecAssumption
     DEF IInv, TypeOK, HandleMatchesTask, LoopPosition, TaskPosition, AboutToRun, Handling, Deciding
<1>7. QED
  BY <1>2, <1>3, <1>4, <1>5, <1>6, LoopStep, SpecAssumption DEF IInv, LoopPosition, Handling, Deciding

LEMMA SpawnsDoneStep == ASSUME IInv, SpawnsDone PROVE IInv'
<1> USE DEF SpawnsDone, loopVars, tokenVars
<1>1. \A u : TasksOf(u)' = TasksOf(u) /\ Live' = Live
  BY TasksKept
<1>2. /\ sup' \in LoopState \ {"Start"} /\ pending' \in Worker \cup {NoWorker}
      /\ spawning' \in SUBSET Worker /\ silent' \in SUBSET Worker
      /\ child' \in [Worker -> BOOLEAN] /\ state' \in [Worker -> WorkerState]
  BY DEF IInv, TypeOK, LoopPosition, LoopState, WorkerState, Handling, Deciding
<1>3. LoopPosition'
  BY SpecAssumption DEF IInv, TypeOK, LoopPosition, Handling, Deciding
<1>4. TaskPosition'
  BY <1>1, SpecAssumption DEF IInv, TaskPosition, LoopPosition, Handling, Deciding
<1>5. \A u \in Worker : AboutToRun(u)' => AboutToRun(u)
  BY SpecAssumption DEF IInv, LoopPosition, AboutToRun, Handling, Deciding
<1>6. HandleMatchesTask'
  BY <1>1, SpecAssumption
     DEF IInv, TypeOK, HandleMatchesTask, LoopPosition, TaskPosition, AboutToRun, Handling, Deciding
<1>7. QED
  BY <1>2, <1>3, <1>4, <1>5, <1>6, LoopStep, SpecAssumption DEF IInv, LoopPosition, Handling, Deciding

LEMMA SetRestartingStep == ASSUME IInv, SetRestarting PROVE IInv'
<1> USE DEF SetRestarting, loopVars, tokenVars
<1>1. \A u : TasksOf(u)' = TasksOf(u) /\ Live' = Live
  BY TasksKept
<1>2. /\ sup' \in LoopState \ {"Start"} /\ pending' \in Worker \cup {NoWorker}
      /\ spawning' \in SUBSET Worker /\ silent' \in SUBSET Worker
      /\ child' \in [Worker -> BOOLEAN] /\ state' \in [Worker -> WorkerState]
  BY DEF IInv, TypeOK, LoopPosition, LoopState, WorkerState, Handling, Deciding
<1>3. LoopPosition'
  BY SpecAssumption DEF IInv, TypeOK, LoopPosition, Handling, Deciding
<1>4. TaskPosition'
  BY <1>1, SpecAssumption DEF IInv, TaskPosition, LoopPosition, Handling, Deciding
<1>5. \A u \in Worker : AboutToRun(u)' => AboutToRun(u)
  BY SpecAssumption DEF IInv, LoopPosition, AboutToRun, Handling, Deciding
<1>6. HandleMatchesTask'
  BY <1>1, SpecAssumption
     DEF IInv, TypeOK, HandleMatchesTask, LoopPosition, TaskPosition, AboutToRun, Handling, Deciding
<1>7. QED
  BY <1>2, <1>3, <1>4, <1>5, <1>6, LoopStep, SpecAssumption DEF IInv, LoopPosition, Handling, Deciding

LEMMA SetStoppedStep == ASSUME IInv, SetStopped PROVE IInv'
<1> USE DEF SetStopped, loopVars, tokenVars
<1>1. \A u : TasksOf(u)' = TasksOf(u) /\ Live' = Live
  BY TasksKept
<1>2. /\ sup' \in LoopState \ {"Start"} /\ pending' \in Worker \cup {NoWorker}
      /\ spawning' \in SUBSET Worker /\ silent' \in SUBSET Worker
      /\ child' \in [Worker -> BOOLEAN] /\ state' \in [Worker -> WorkerState]
  BY DEF IInv, TypeOK, LoopPosition, LoopState, WorkerState, Handling, Deciding
<1>3. LoopPosition'
  BY SpecAssumption DEF IInv, TypeOK, LoopPosition, Handling, Deciding
<1>4. TaskPosition'
  BY <1>1, SpecAssumption DEF IInv, TaskPosition, LoopPosition, Handling, Deciding
<1>5. \A u \in Worker : AboutToRun(u)' => AboutToRun(u)
  BY SpecAssumption DEF IInv, LoopPosition, AboutToRun, Handling, Deciding
<1>6. HandleMatchesTask'
  BY <1>1, SpecAssumption
     DEF IInv, TypeOK, HandleMatchesTask, LoopPosition, TaskPosition, AboutToRun, Handling, Deciding
<1>7. QED
  BY <1>2, <1>3, <1>4, <1>5, <1>6, LoopStep, SpecAssumption DEF IInv, LoopPosition, Handling, Deciding

LEMMA BackoffElapsedStep == ASSUME IInv, BackoffElapsed PROVE IInv'
<1> USE DEF BackoffElapsed, loopVars, tokenVars
<1>1. \A u : TasksOf(u)' = TasksOf(u) /\ Live' = Live
  BY TasksKept
<1>2. /\ sup' \in LoopState \ {"Start"} /\ pending' \in Worker \cup {NoWorker}
      /\ spawning' \in SUBSET Worker /\ silent' \in SUBSET Worker
      /\ child' \in [Worker -> BOOLEAN] /\ state' \in [Worker -> WorkerState]
  BY DEF IInv, TypeOK, LoopPosition, LoopState, WorkerState, Handling, Deciding
<1>3. LoopPosition'
  BY SpecAssumption DEF IInv, TypeOK, LoopPosition, Handling, Deciding
<1>4. TaskPosition'
  BY <1>1, SpecAssumption DEF IInv, TaskPosition, LoopPosition, Handling, Deciding
<1>5. \A u \in Worker : AboutToRun(u)' => AboutToRun(u)
  BY SpecAssumption DEF IInv, LoopPosition, AboutToRun, Handling, Deciding
<1>6. HandleMatchesTask'
  BY <1>1, SpecAssumption
     DEF IInv, TypeOK, HandleMatchesTask, LoopPosition, TaskPosition, AboutToRun, Handling, Deciding
<1>7. QED
  BY <1>2, <1>3, <1>4, <1>5, <1>6, LoopStep, SpecAssumption DEF IInv, LoopPosition, Handling, Deciding

LEMMA BackoffCancelledStep == ASSUME IInv, BackoffCancelled PROVE IInv'
<1> USE DEF BackoffCancelled, loopVars, tokenVars
<1>1. \A u : TasksOf(u)' = TasksOf(u) /\ Live' = Live
  BY TasksKept
<1>2. /\ sup' \in LoopState \ {"Start"} /\ pending' \in Worker \cup {NoWorker}
      /\ spawning' \in SUBSET Worker /\ silent' \in SUBSET Worker
      /\ child' \in [Worker -> BOOLEAN] /\ state' \in [Worker -> WorkerState]
  BY DEF IInv, TypeOK, LoopPosition, LoopState, WorkerState, Handling, Deciding
<1>3. LoopPosition'
  BY SpecAssumption DEF IInv, TypeOK, LoopPosition, Handling, Deciding
<1>4. TaskPosition'
  BY <1>1, SpecAssumption DEF IInv, TaskPosition, LoopPosition, Handling, Deciding
<1>5. \A u \in Worker : AboutToRun(u)' => AboutToRun(u)
  BY SpecAssumption DEF IInv, LoopPosition, AboutToRun, Handling, Deciding
<1>6. HandleMatchesTask'
  BY <1>1, SpecAssumption
     DEF IInv, TypeOK, HandleMatchesTask, LoopPosition, TaskPosition, AboutToRun, Handling, Deciding
<1>7. QED
  BY <1>2, <1>3, <1>4, <1>5, <1>6, LoopStep, SpecAssumption DEF IInv, LoopPosition, Handling, Deciding

LEMMA CancelArmStep == ASSUME IInv, CancelArm PROVE IInv'
<1> USE DEF CancelArm, loopVars, tokenVars
<1>1. \A u : TasksOf(u)' = TasksOf(u) /\ Live' = Live
  BY TasksKept
<1>2. /\ sup' \in LoopState \ {"Start"} /\ pending' \in Worker \cup {NoWorker}
      /\ spawning' \in SUBSET Worker /\ silent' \in SUBSET Worker
      /\ child' \in [Worker -> BOOLEAN] /\ state' \in [Worker -> WorkerState]
  BY DEF IInv, TypeOK, LoopPosition, LoopState, WorkerState, Handling, Deciding
<1>3. LoopPosition'
  BY SpecAssumption DEF IInv, TypeOK, LoopPosition, Handling, Deciding
<1>4. TaskPosition'
  BY <1>1, SpecAssumption DEF IInv, TaskPosition, LoopPosition, Handling, Deciding
<1>5. \A u \in Worker : AboutToRun(u)' => AboutToRun(u)
  BY SpecAssumption DEF IInv, LoopPosition, AboutToRun, Handling, Deciding
<1>6. HandleMatchesTask'
  BY <1>1, SpecAssumption
     DEF IInv, TypeOK, HandleMatchesTask, LoopPosition, TaskPosition, AboutToRun, Handling, Deciding
<1>7. QED
  BY <1>2, <1>3, <1>4, <1>5, <1>6, LoopStep, SpecAssumption DEF IInv, LoopPosition, Handling, Deciding

LEMMA StopOneStep == ASSUME IInv, NEW w \in Worker, StopOne(w) PROVE IInv'
<1> USE DEF StopOne, loopVars, tokenVars
<1>1. \A u : TasksOf(u)' = TasksOf(u) /\ Live' = Live
  BY TasksKept
<1>2. /\ sup' \in LoopState \ {"Start"} /\ pending' \in Worker \cup {NoWorker}
      /\ spawning' \in SUBSET Worker /\ silent' \in SUBSET Worker
      /\ child' \in [Worker -> BOOLEAN] /\ state' \in [Worker -> WorkerState]
  BY DEF IInv, TypeOK, LoopPosition, LoopState, WorkerState, Handling, Deciding
<1>3. LoopPosition'
  BY SpecAssumption DEF IInv, TypeOK, LoopPosition, Handling, Deciding
<1>4. TaskPosition'
  BY <1>1, SpecAssumption DEF IInv, TaskPosition, LoopPosition, Handling, Deciding
<1>5. \A u \in Worker : AboutToRun(u)' => AboutToRun(u)
  BY SpecAssumption DEF IInv, LoopPosition, AboutToRun, Handling, Deciding
<1>6. HandleMatchesTask'
  BY <1>1, SpecAssumption
     DEF IInv, TypeOK, HandleMatchesTask, LoopPosition, TaskPosition, AboutToRun, Handling, Deciding
<1>7. QED
  BY <1>2, <1>3, <1>4, <1>5, <1>6, LoopStep, SpecAssumption DEF IInv, LoopPosition, Handling, Deciding

LEMMA AllStoppingStep == ASSUME IInv, AllStopping PROVE IInv'
<1> USE DEF AllStopping, loopVars, tokenVars
<1>1. \A u : TasksOf(u)' = TasksOf(u) /\ Live' = Live
  BY TasksKept
<1>2. /\ sup' \in LoopState \ {"Start"} /\ pending' \in Worker \cup {NoWorker}
      /\ spawning' \in SUBSET Worker /\ silent' \in SUBSET Worker
      /\ child' \in [Worker -> BOOLEAN] /\ state' \in [Worker -> WorkerState]
  BY DEF IInv, TypeOK, LoopPosition, LoopState, WorkerState, Handling, Deciding
<1>3. LoopPosition'
  BY SpecAssumption DEF IInv, TypeOK, LoopPosition, Handling, Deciding
<1>4. TaskPosition'
  BY <1>1, SpecAssumption DEF IInv, TaskPosition, LoopPosition, Handling, Deciding
<1>5. \A u \in Worker : AboutToRun(u)' => AboutToRun(u)
  BY SpecAssumption DEF IInv, LoopPosition, AboutToRun, Handling, Deciding
<1>6. HandleMatchesTask'
  BY <1>1, SpecAssumption
     DEF IInv, TypeOK, HandleMatchesTask, LoopPosition, TaskPosition, AboutToRun, Handling, Deciding
<1>7. QED
  BY <1>2, <1>3, <1>4, <1>5, <1>6, LoopStep, SpecAssumption DEF IInv, LoopPosition, Handling, Deciding

LEMMA GraceExpiredStep == ASSUME IInv, GraceExpired PROVE IInv'
<1> USE DEF GraceExpired, loopVars, tokenVars
<1>1. \A u : TasksOf(u)' = TasksOf(u) /\ Live' = Live
  BY TasksKept
<1>2. /\ sup' \in LoopState \ {"Start"} /\ pending' \in Worker \cup {NoWorker}
      /\ spawning' \in SUBSET Worker /\ silent' \in SUBSET Worker
      /\ child' \in [Worker -> BOOLEAN] /\ state' \in [Worker -> WorkerState]
  BY DEF IInv, TypeOK, LoopPosition, LoopState, WorkerState, Handling, Deciding
<1>3. LoopPosition'
  BY SpecAssumption DEF IInv, TypeOK, LoopPosition, Handling, Deciding
<1>4. TaskPosition'
  BY <1>1, SpecAssumption DEF IInv, TaskPosition, LoopPosition, Handling, Deciding
<1>5. \A u \in Worker : AboutToRun(u)' => AboutToRun(u)
  BY SpecAssumption DEF IInv, LoopPosition, AboutToRun, Handling, Deciding
<1>6. HandleMatchesTask'
  BY <1>1, SpecAssumption
     DEF IInv, TypeOK, HandleMatchesTask, LoopPosition, TaskPosition, AboutToRun, Handling, Deciding
<1>7. QED
  BY <1>2, <1>3, <1>4, <1>5, <1>6, LoopStep, SpecAssumption DEF IInv, LoopPosition, Handling, Deciding

LEMMA DrainDoneStep == ASSUME IInv, DrainDone PROVE IInv'
<1> USE DEF DrainDone, loopVars, tokenVars
<1>1. \A u : TasksOf(u)' = TasksOf(u) /\ Live' = Live
  BY TasksKept
<1>2. /\ sup' \in LoopState \ {"Start"} /\ pending' \in Worker \cup {NoWorker}
      /\ spawning' \in SUBSET Worker /\ silent' \in SUBSET Worker
      /\ child' \in [Worker -> BOOLEAN] /\ state' \in [Worker -> WorkerState]
  BY DEF IInv, TypeOK, LoopPosition, LoopState, WorkerState, Handling, Deciding
<1>3. LoopPosition'
  BY SpecAssumption DEF IInv, TypeOK, LoopPosition, Handling, Deciding
<1>4. TaskPosition'
  BY <1>1, SpecAssumption DEF IInv, TaskPosition, LoopPosition, Handling, Deciding
<1>5. \A u \in Worker : AboutToRun(u)' => AboutToRun(u)
  BY SpecAssumption DEF IInv, LoopPosition, AboutToRun, Handling, Deciding
<1>6. HandleMatchesTask'
  BY <1>1, SpecAssumption
     DEF IInv, TypeOK, HandleMatchesTask, LoopPosition, TaskPosition, AboutToRun, Handling, Deciding
<1>7. QED
  BY <1>2, <1>3, <1>4, <1>5, <1>6, LoopStep, SpecAssumption DEF IInv, LoopPosition, Handling, Deciding

LEMMA CloseOneStep == ASSUME IInv, NEW w \in Worker, CloseOne(w) PROVE IInv'
<1> USE DEF CloseOne, loopVars, tokenVars
<1>1. \A u : TasksOf(u)' = TasksOf(u) /\ Live' = Live
  BY TasksKept
<1>2. /\ sup' \in LoopState \ {"Start"} /\ pending' \in Worker \cup {NoWorker}
      /\ spawning' \in SUBSET Worker /\ silent' \in SUBSET Worker
      /\ child' \in [Worker -> BOOLEAN] /\ state' \in [Worker -> WorkerState]
  BY DEF IInv, TypeOK, LoopPosition, LoopState, WorkerState, Handling, Deciding
<1>3. LoopPosition'
  BY SpecAssumption DEF IInv, TypeOK, LoopPosition, Handling, Deciding
<1>4. TaskPosition'
  BY <1>1, SpecAssumption DEF IInv, TaskPosition, LoopPosition, Handling, Deciding
<1>5. \A u \in Worker : AboutToRun(u)' => AboutToRun(u)
  BY SpecAssumption DEF IInv, LoopPosition, AboutToRun, Handling, Deciding
<1>6. HandleMatchesTask'
  BY <1>1, SpecAssumption
     DEF IInv, TypeOK, HandleMatchesTask, LoopPosition, TaskPosition, TasksOf, AboutToRun,
         Handling, Deciding
<1>7. QED
  BY <1>2, <1>3, <1>4, <1>5, <1>6, LoopStep, SpecAssumption DEF IInv, LoopPosition, Handling, Deciding

LEMMA AllStoppedStep == ASSUME IInv, AllStopped PROVE IInv'
<1> USE DEF AllStopped, loopVars, tokenVars
<1>1. \A u : TasksOf(u)' = TasksOf(u) /\ Live' = Live
  BY TasksKept
<1>2. /\ sup' \in LoopState \ {"Start"} /\ pending' \in Worker \cup {NoWorker}
      /\ spawning' \in SUBSET Worker /\ silent' \in SUBSET Worker
      /\ child' \in [Worker -> BOOLEAN] /\ state' \in [Worker -> WorkerState]
  BY DEF IInv, TypeOK, LoopPosition, LoopState, WorkerState, Handling, Deciding
<1>3. LoopPosition'
  BY SpecAssumption DEF IInv, TypeOK, LoopPosition, Handling, Deciding
<1>4. TaskPosition'
  BY <1>1, SpecAssumption DEF IInv, TaskPosition, LoopPosition, Handling, Deciding
<1>5. \A u \in Worker : AboutToRun(u)' => AboutToRun(u)
  BY SpecAssumption DEF IInv, LoopPosition, AboutToRun, Handling, Deciding
<1>6. HandleMatchesTask'
  BY <1>1, SpecAssumption
     DEF IInv, TypeOK, HandleMatchesTask, LoopPosition, TaskPosition, TasksOf, AboutToRun,
         Handling, Deciding
<1>7. QED
  BY <1>2, <1>3, <1>4, <1>5, <1>6, LoopStep, SpecAssumption DEF IInv, LoopPosition, Handling, Deciding

(* apply_criticality reports what FailureEscalates asks for                  *)
LEMMA EscalateStep == ASSUME IInv, Escalate PROVE IInv'
<1> USE DEF Escalate
<1>1. /\ pending \in Worker /\ spec[pending] \in WorkerSpec
      /\ spec[pending].criticality \in Criticality
  BY SpecAssumption DEF IInv, TypeOK, LoopPosition, Handling, Registration
<1>2. /\ (\A w : TasksOf(w)' = TasksOf(w)) /\ Live' = Live
      /\ TaskMapExact' /\ AtMostOneTask'
  BY TasksKept DEF IInv
<1>3. /\ Escalated(pending)' \/ pending' # pending
      /\ signalled' \in BOOLEAN /\ (signalled => signalled')
      /\ health' \in [Worker -> {"None", "Degraded", "Unhealthy"}]
      /\ spec[pending].criticality = "Critical" => signalled'
      /\ spec[pending].criticality = "Essential" => health'[pending] = "Unhealthy"
      /\ spec[pending].criticality = "Optional" => health'[pending] = "Degraded"
      /\ \A w \in Worker \ {pending} : health'[w] = health[w]
  BY <1>1, SpecAssumption DEF IInv, TypeOK, ApplyCriticality, Criticality
<1>4. TypeOK'
  BY <1>3 DEF IInv, TypeOK, LoopState, taskVars
<1>5. LoopPosition' /\ TaskPosition' /\ BreakerPosition'
  BY <1>2, SpecAssumption
     DEF IInv, LoopPosition, TaskPosition, BreakerPosition, Handling, Deciding
<1>6. OpenMeansIdle'
  BY <1>2, SpecAssumption DEF IInv, OpenMeansIdle, AboutToRun
<1>7. HandleMatchesTask'
  BY <1>2, SpecAssumption DEF IInv, HandleMatchesTask, AboutToRun, Deciding
<1>8. FailureEscalates'
  BY <1>3 DEF IInv, FailureEscalates, GivenUp, Escalated
<1>9. QED
  BY <1>2, <1>4, <1>5, <1>6, <1>7, <1>8 DEF IInv

-----------------------------------------------------------------------------
(* Steps that spawn or reap *)

LEMMA SpawnTaskStep == ASSUME IInv, NEW t \in TaskId, SpawnTask(t) PROVE IInv'
<1> USE DEF SpawnTask, tokenVars, workVars
<1>1. /\ pending \in Worker /\ pending # NoWorker
      /\ task[t] = "free" /\ TasksOf(pending) = {} /\ TypeOK
  BY SpecAssumption DEF IInv, TypeOK, LoopPosition, TaskPosition, Handling, Free
<1>2. TypeOK'
  BY <1>1 DEF TypeOK, LoopState, TaskState
<1>3. Live' = Live \cup {t} /\ t \notin Live
  BY <1>1 DEF TypeOK, Live, Free
<1>4. /\ TasksOf(pending)' = {t}
      /\ \A w \in Worker : w # pending => TasksOf(w)' = TasksOf(w)
  BY <1>1, <1>3 DEF TypeOK, TasksOf
<1>5. LoopPosition' /\ BreakerPosition'
  BY DEF IInv, LoopPosition, BreakerPosition, Handling, Deciding
<1>6. TaskPosition'
  BY <1>4 DEF IInv, TaskPosition, LoopPosition
<1>7. TaskMapExact'
  BY <1>1 DEF IInv, TypeOK, TaskMapExact
<1>8. AtMostOneTask'
  <2>1. \A u \in Live : owner[u] # pending /\ owner'[u] = owner[u]
    BY <1>1, <1>3 DEF TypeOK, TasksOf, Live
  <2>2. owner'[t] = pending
    BY <1>1 DEF TypeOK
  <2>3. QED
    BY <1>3, <2>1, <2>2 DEF IInv, AtMostOneTask
<1>9. OpenMeansIdle'
  BY <1>1, <1>4 DEF IInv, OpenMeansIdle, AboutToRun
<1>10. HandleMatchesTask'
  BY <1>1, <1>4 DEF IInv, HandleMatchesTask, LoopPosition, AboutToRun, Deciding
<1>11. FailureEscalates'
  BY DEF IInv, FailureEscalates, GivenUp, Escalated
<1>12. QED
  BY <1>2, <1>5, <1>6, <1>7, <1>8, <1>9, <1>10, <1>11 DEF IInv

(* A joined task leaves the JoinSet and task_to_worker; its worker is left   *)
(* without one, and nobody else's task changes.                              *)
LEMMA ReapFacts ==
    ASSUME TypeOK, TaskMapExact, AtMostOneTask,
           NEW t \in TaskId, task[t] # "free", NEW w, w = owner[t], Reap(t)
    PROVE  /\ w \in Worker /\ w # NoWorker /\ task_to_worker[t] = w
           /\ owner' \in [TaskId -> Worker \cup {NoWorker}]
           /\ task' \in [TaskId -> TaskState]
           /\ task_to_worker' \in [TaskId -> Worker \cup {NoWorker}]
           /\ Live' = Live \ {t} /\ TasksOf(w)' = {} /\ TasksOf(w) # {}
           /\ \A u \in Worker : u # w => TasksOf(u)' = TasksOf(u)
           /\ TaskMapExact' /\ AtMostOneTask'
<1> USE DEF Reap
<1>1. w \in Worker /\ w # NoWorker /\ task_to_worker[t] = w
  BY DEF TypeOK, TaskMapExact
<1>2. /\ owner' \in [TaskId -> Worker \cup {NoWorker}]
      /\ task' \in [TaskId -> TaskState]
      /\ task_to_worker' \in [TaskId -> Worker \cup {NoWorker}]
  BY DEF TypeOK, TaskState
<1>3. Live' = Live \ {t} /\ t \in Live
  BY DEF TypeOK, Live, Free
<1>4. \A u \in Live \ {t} : owner'[u] = owner[u] /\ owner[u] # w
  BY <1>3 DEF TypeOK, AtMostOneTask, Live
<1>5. /\ TasksOf(w)' = {} /\ TasksOf(w) # {}
      /\ \A u \in Worker : u # w => TasksOf(u)' = TasksOf(u)
  BY <1>3, <1>4 DEF TasksOf
<1>6. TaskMapExact'
  BY DEF TypeOK, TaskMapExact
<1>7. AtMostOneTask'
  BY <1>3, <1>4 DEF AtMostOneTask
<1>8. QED
  BY <1>1, <1>2, <1>3, <1>5, <1>6, <1>7

(* A success closes the breaker, a failure never leaves the set of breakers, *)
(* and a tick opens none and leaves a closed one as it is.                   *)
LEMMA BreakerFacts ==
    ASSUME NEW b \in Breaker, NEW yes \in BOOLEAN, NEW threshold \in Nat
    PROVE  /\ RecordSuccess(b) \in Breaker /\ RecordSuccess(b).state = "Closed"
           /\ RecordFailure(b, yes, threshold) \in Breaker
           /\ Tick(b, yes) \in Breaker
           /\ Tick(b, yes).state = "Open" => b.state = "Open"
           /\ b.state = "Closed" => Tick(b, yes).state = "Closed"
<1>1. OpenBreaker(b) \in Breaker
  BY DEF OpenBreaker, Breaker, CircuitState
<1>2. CountFailure(b, yes, threshold) \in Breaker
  <2>1. PICK n \in Nat : n = IF b.last_failure_at /\ yes THEN b.failures + 1 ELSE 1
    BY DEF Breaker
  <2> DEFINE counted == [b EXCEPT !.failures = n, !.last_failure_at = TRUE]
  <2>2. counted \in Breaker /\ OpenBreaker(counted) \in Breaker
    BY DEF Breaker, CircuitState, OpenBreaker
  <2>3. CountFailure(b, yes, threshold)
          = IF n >= threshold THEN OpenBreaker(counted) ELSE counted
    BY <2>1 DEF CountFailure
  <2>4. QED
    BY <2>2, <2>3
<1>3. RecordFailure(b, yes, threshold) \in Breaker
  <2>1. b.state \in {"Closed", "Open", "HalfOpen"}
    BY DEF Breaker, CircuitState
  <2>2. QED
    BY <1>1, <1>2, <2>1 DEF RecordFailure
<1>4. RecordSuccess(b) \in Breaker /\ RecordSuccess(b).state = "Closed"
  BY DEF RecordSuccess, NewBreaker, Breaker, CircuitState
<1>5. /\ Tick(b, yes) \in Breaker
      /\ Tick(b, yes).state = "Open" => b.state = "Open"
      /\ b.state = "Closed" => Tick(b, yes).state = "Closed"
  BY DEF Tick, Breaker, CircuitState
<1>6. QED
  BY <1>3, <1>4, <1>5

(* The verdict on an outcome, in the terms of the invariant: an open breaker *)
(* forbids the restart, and who is restarted is not given up on.             *)
LEMMA JudgeFacts ==
    ASSUME TypeOK, BreakerPosition, sup = "Select", NEW w \in Worker,
           NEW hasFailed \in BOOLEAN, NEW inC \in BOOLEAN, NEW inH \in BOOLEAN,
           Judge(w, hasFailed, inC, inH), spec' = spec
    PROVE  /\ circuit' \in [Worker -> Breaker] /\ failures' \in [Worker -> 0..MaxFailures]
           /\ \A u \in Worker \ {w} : circuit'[u] = circuit[u] /\ failures'[u] = failures[u]
           /\ ~spec[w].breaker => circuit'[w].state = "Closed"
           /\ pending' = w /\ sup' \in Deciding
           /\ sup' = "Restart" => circuit'[w].state # "Open" /\ ~GivenUp(w)'
           /\ sup' = "Stop" => (GivenUp(w)' => GivenUp(w))
<1> DEFINE b == AdvanceCircuit(w, hasFailed, inC)
           n == HandleFailures(failures[w], inH)
           attempts == IF hasFailed THEN n ELSE 0
           restart == RestartAllowed(w, b, hasFailed, attempts)
<1>1. /\ spec[w] \in WorkerSpec /\ spec[w].threshold \in Nat
      /\ spec[w].retries \in 0..MaxFailures
  BY SpecAssumption DEF TypeOK, Registration
<1>2. /\ b \in Breaker
      /\ ~spec[w].breaker => b.state = "Closed"
      /\ ~hasFailed => b.state = "Closed"
  <2>1. circuit[w] \in Breaker /\ (~spec[w].breaker => circuit[w].state = "Closed")
    BY DEF TypeOK, BreakerPosition
  <2>2. QED
    BY <1>1, <2>1, BreakerFacts DEF AdvanceCircuit
<1>3. n \in 1..MaxFailures
  BY SpecAssumption DEF TypeOK, HandleFailures
<1>4. /\ circuit' = [circuit EXCEPT ![w] = b]
      /\ failures' = [failures EXCEPT ![w] = IF hasFailed THEN n ELSE @]
      /\ pending' = w
      /\ sup' = IF restart THEN "Restart" ELSE IF hasFailed THEN "GiveUp" ELSE "Stop"
  BY DEF Judge
<1>5. /\ circuit' \in [Worker -> Breaker] /\ failures' \in [Worker -> 0..MaxFailures]
      /\ \A u \in Worker \ {w} : circuit'[u] = circuit[u] /\ failures'[u] = failures[u]
      /\ circuit'[w] = b /\ failures'[w] = IF hasFailed THEN n ELSE failures[w]
  BY <1>2, <1>3, <1>4 DEF TypeOK
<1>6. ASSUME restart PROVE circuit'[w].state # "Open" /\ ~GivenUp(w)'
  <2>1. ShouldRestart(spec[w], hasFailed, attempts) /\ circuit'[w].state # "Open"
    BY <1>2, <1>5, <1>6 DEF RestartAllowed
  <2>2. /\ spec[w].restart # "Never"
        /\ spec[w].restart = "MaxRetries" => hasFailed /\ attempts < spec[w].retries
    BY <2>1 DEF ShouldRestart
  <2>3. spec[w].restart = "MaxRetries" => failures'[w] < spec[w].retries
    BY <1>5, <2>2
  <2>4. failures'[w] \in Nat /\ spec[w].retries \in Nat
    BY <1>1, <1>3, <1>5 DEF TypeOK
  <2>5. QED
    BY <2>1, <2>2, <2>3, <2>4 DEF GivenUp
<1>7. ASSUME ~hasFailed PROVE GivenUp(w)' => GivenUp(w)
  BY <1>2, <1>5, <1>7 DEF GivenUp
<1>8. QED
  BY <1>2, <1>4, <1>5, <1>6, <1>7 DEF Deciding

LEMMA JoinArmStep == ASSUME IInv, NEW t \in TaskId, JoinArm(t) PROVE IInv'
<1>1. /\ sup = "Select" /\ ~cancel_token /\ task[t] # "free" /\ Reap(t)
      /\ TypeOK /\ TaskMapExact /\ AtMostOneTask /\ BreakerPosition
      /\ (task[t] # "Completed") \in BOOLEAN
      /\ UNCHANGED <<spec, spawning, silent, state, heartbeat, health, tokenVars>>
  BY DEF IInv, JoinArm, Polling, Outcome
<1>0. PICK w : w = owner[t]
  OBVIOUS
<1>2. /\ w \in Worker /\ w # NoWorker /\ task_to_worker[t] = w
      /\ owner' \in [TaskId -> Worker \cup {NoWorker}]
      /\ task' \in [TaskId -> TaskState]
      /\ task_to_worker' \in [TaskId -> Worker \cup {NoWorker}]
      /\ TasksOf(w)' = {} /\ TasksOf(w) # {}
      /\ \A u \in Worker : u # w => TasksOf(u)' = TasksOf(u)
      /\ TaskMapExact' /\ AtMostOneTask'
  BY <1>0, <1>1, ReapFacts
<1>3. PICK inC, inH \in BOOLEAN : Judge(w, task[t] # "Completed", inC, inH)
  BY <1>0, <1>1, <1>2 DEF JoinArm
<1>4. /\ circuit' \in [Worker -> Breaker] /\ failures' \in [Worker -> 0..MaxFailures]
      /\ \A u \in Worker \ {w} : circuit'[u] = circuit[u] /\ failures'[u] = failures[u]
      /\ ~spec[w].breaker => circuit'[w].state = "Closed"
      /\ pending' = w /\ sup' \in Deciding
      /\ sup' = "Restart" => circuit'[w].state # "Open" /\ ~GivenUp(w)'
      /\ sup' = "Stop" => (GivenUp(w)' => GivenUp(w))
  BY <1>1, <1>2, <1>3, JudgeFacts
<1>5. pending = NoWorker /\ spawning = {} /\ \A u \in Worker : ~AboutToRun(u)
  BY <1>1, SpecAssumption DEF IInv, LoopPosition, Handling, Deciding, AboutToRun
<1>6. TypeOK'
  BY <1>1, <1>2, <1>4 DEF TypeOK, LoopState, Deciding, tokenVars
<1>7. LoopPosition' /\ TaskPosition' /\ BreakerPosition'
  <2>1. LoopPosition'
    BY <1>1, <1>2, <1>4, <1>5 DEF LoopPosition, Handling, Deciding
  <2>2. TaskPosition'
    BY <1>1, <1>2, <1>4, <1>5 DEF TaskPosition, Deciding
  <2>3. BreakerPosition'
    BY <1>1, <1>4 DEF BreakerPosition, Deciding
  <2>4. QED
    BY <2>1, <2>2, <2>3
<1>8. OpenMeansIdle'
  <2>1. ASSUME NEW u \in Worker, circuit'[u].state = "Open"
        PROVE  TasksOf(u)' = {} /\ ~AboutToRun(u)'
    <3>1. CASE u = w
      BY <1>1, <1>2, <1>4, <1>5, <2>1, <3>1 DEF AboutToRun, Deciding
    <3>2. CASE u # w
      BY <1>1, <1>2, <1>4, <1>5, <2>1, <3>2 DEF IInv, OpenMeansIdle, AboutToRun, Deciding
    <3>3. QED
      BY <3>1, <3>2
  <2>2. QED
    BY <2>1 DEF OpenMeansIdle
<1>9. HandleMatchesTask'
  BY <1>1, <1>2, <1>4, <1>5 DEF IInv, HandleMatchesTask, Deciding, tokenVars
<1>10. FailureEscalates'
  <2>1. \A u \in Worker : GivenUp(u) => Escalated(u)
    BY <1>1, <1>5, SpecAssumption DEF IInv, FailureEscalates
  <2>2. \A u \in Worker : Escalated(u)' <=> Escalated(u)
    BY <1>1 DEF Escalated, tokenVars
  <2>3. \A u \in Worker \ {w} : GivenUp(u)' => GivenUp(u)
    BY <1>1, <1>4 DEF GivenUp
  <2>4. GivenUp(w)' => Escalated(w)' \/ sup' = "GiveUp"
    BY <1>2, <1>4, <2>1, <2>2 DEF Deciding
  <2>5. QED
    BY <1>4, <2>1, <2>2, <2>3, <2>4 DEF FailureEscalates
<1>11. QED
  BY <1>2, <1>6, <1>7, <1>8, <1>9, <1>10 DEF IInv

LEMMA DrainJoinStep == ASSUME IInv, NEW t \in TaskId, DrainJoin(t) PROVE IInv'
<1>1. /\ sup \in {"Draining", "Aborting"} /\ task[t] # "free" /\ Reap(t)
      /\ TypeOK /\ TaskMapExact /\ AtMostOneTask
      /\ UNCHANGED <<spec, loopVars, state, heartbeat, tokenVars, workVars>>
  BY DEF IInv, DrainJoin, Joinable, Outcome
<1> USE DEF loopVars, tokenVars, workVars
<1>0. PICK w : w = owner[t]
  OBVIOUS
<1>2. /\ w \in Worker
      /\ owner' \in [TaskId -> Worker \cup {NoWorker}]
      /\ task' \in [TaskId -> TaskState]
      /\ task_to_worker' \in [TaskId -> Worker \cup {NoWorker}]
      /\ TasksOf(w)' = {}
      /\ \A u \in Worker : u # w => TasksOf(u)' = TasksOf(u)
      /\ TaskMapExact' /\ AtMostOneTask'
  BY <1>0, <1>1, ReapFacts
<1>3. TypeOK'
  BY <1>1, <1>2 DEF TypeOK
<1>4. LoopPosition' /\ BreakerPosition'
  BY <1>1 DEF IInv, LoopPosition, BreakerPosition
<1>5. TaskPosition'
  BY <1>1, <1>2 DEF IInv, TaskPosition
<1>6. OpenMeansIdle'
  BY <1>1, <1>2 DEF IInv, OpenMeansIdle, AboutToRun
<1>7. HandleMatchesTask'
  BY <1>1, <1>2 DEF IInv, LoopPosition, HandleMatchesTask
<1>8. FailureEscalates'
  BY <1>1 DEF IInv, FailureEscalates, GivenUp, Escalated
<1>9. QED
  BY <1>2, <1>3, <1>4, <1>5, <1>6, <1>7, <1>8 DEF IInv

-----------------------------------------------------------------------------
(* The watchdog tick *)

LEMMA WatchdogTickStep ==
    ASSUME IInv, NEW elapsed \in SUBSET Worker, WatchdogTick(elapsed) PROVE IInv'
<1> DEFINE after    == [v \in Worker |-> Tick(circuit[v], v \in elapsed)]
           promoted == {v \in Worker : circuit[v].state = "Open" /\ after[v].state = "HalfOpen"}
           trial    == {v \in promoted : Idle(v)}
<1>1. /\ TypeOK /\ TaskMapExact /\ sup = "Select" /\ circuit' = after
      /\ sup' = "Spawn" /\ spawning' = trial /\ silent' = SilentWorkers
      /\ UNCHANGED <<spec, pending, state, failures, heartbeat, health, taskVars, tokenVars>>
  BY DEF IInv, WatchdogTick, Polling
<1>2. /\ (\A v : TasksOf(v)' = TasksOf(v)) /\ Live' = Live
      /\ TaskMapExact' /\ AtMostOneTask'
  BY <1>1, TasksKept DEF IInv
<1>3. pending = NoWorker /\ \A v \in trial : v \in Worker /\ TasksOf(v) = {}
  <2>1. \A v \in trial : TasksOf(v) = {}
    BY <1>1 DEF Idle, TasksOf, Live, TaskMapExact
  <2>2. QED
    BY <1>1, <2>1 DEF IInv, LoopPosition, Handling, Deciding
<1>4. \A v \in Worker : /\ circuit'[v] \in Breaker
                        /\ circuit'[v].state = "Open" => circuit[v].state = "Open"
                        /\ circuit[v].state = "Closed" => circuit'[v].state = "Closed"
                        /\ v \in trial => circuit'[v].state = "HalfOpen"
  <2>1. \A b \in Breaker, yes \in BOOLEAN :
          /\ Tick(b, yes) \in Breaker
          /\ Tick(b, yes).state = "Open" => b.state = "Open"
          /\ b.state = "Closed" => Tick(b, yes).state = "Closed"
    BY BreakerFacts, 0 \in Nat
  <2>2. SUFFICES ASSUME NEW v \in Worker
                 PROVE  /\ after[v] \in Breaker
                        /\ after[v].state = "Open" => circuit[v].state = "Open"
                        /\ circuit[v].state = "Closed" => after[v].state = "Closed"
                        /\ v \in trial => after[v].state = "HalfOpen"
    BY <1>1
  <2>3. after[v] = Tick(circuit[v], v \in elapsed) /\ circuit[v] \in Breaker
    BY <1>1 DEF TypeOK
  <2>4. (v \in elapsed) \in BOOLEAN
    OBVIOUS
  <2>5. QED
    BY <2>1, <2>3, <2>4
<1>5. TypeOK'
  <2>1. circuit' \in [Worker -> Breaker]
    BY <1>1, <1>4
  <2>2. spawning' \in SUBSET Worker /\ silent' \in SUBSET Worker
    BY <1>1 DEF SilentWorkers
  <2>3. QED
    BY <1>1, <2>1, <2>2 DEF TypeOK, LoopState, taskVars, tokenVars
<1>6. LoopPosition' /\ TaskPosition' /\ BreakerPosition'
  <2>1. LoopPosition'
    BY <1>1, <1>3 DEF LoopPosition, Handling, Deciding
  <2>2. TaskPosition'
    BY <1>1, <1>2, <1>3, SpecAssumption DEF TaskPosition
  <2>3. BreakerPosition'
    BY <1>1, <1>4 DEF IInv, BreakerPosition
  <2>4. QED
    BY <2>1, <2>2, <2>3
<1>7. OpenMeansIdle'
  BY <1>1, <1>2, <1>3, <1>4, SpecAssumption DEF IInv, OpenMeansIdle, AboutToRun
<1>8. HandleMatchesTask'
  <2>1. \A v \in Worker : ~AboutToRun(v)
    BY <1>1, <1>3, SpecAssumption DEF IInv, LoopPosition, AboutToRun
  <2>2. QED
    BY <1>1, <1>2, <1>3, <2>1, SpecAssumption DEF IInv, HandleMatchesTask, tokenVars
<1>9. FailureEscalates'
  BY <1>1, <1>4 DEF IInv, FailureEscalates, GivenUp, Escalated, tokenVars
<1>10. QED
  BY <1>2, <1>5, <1>6, <1>7, <1>8, <1>9 DEF IInv

-----------------------------------------------------------------------------
(* The invariant, and what follows from it *)

LEMMA HandlerInv == IInv /\ HandlerStep => IInv'
  BY SpawnOneStep, StopOneStep, CloseOneStep, SpawnTaskStep, SpawnEndStep, SpawnsDoneStep,
     SetRestartingStep, SetStoppedStep, EscalateStep, AllStoppingStep, AllStoppedStep
     DEF HandlerStep

LEMMA NextIInv == IInv /\ [Next]_vars => IInv'
<1> SUFFICES ASSUME IInv, [Next]_vars PROVE IInv'
  OBVIOUS
<1> USE DEF taskVars, tokenVars, workVars, loopVars
<1>1. CASE RunStart \/ HandlerStep
  BY <1>1, RunStartStep, HandlerInv
<1>2. CASE CancelArm \/ GraceExpired \/ DrainDone
  BY <1>2, CancelArmStep, GraceExpiredStep, DrainDoneStep
<1>3. CASE TickArm
  BY <1>3, WatchdogTickStep DEF TickArm
<1>4. ASSUME NEW t \in TaskId, JoinArm(t) PROVE IInv'
  BY <1>4, JoinArmStep
<1>5. CASE BackoffElapsed
  BY <1>5, BackoffElapsedStep
<1>6. CASE BackoffCancelled
  BY <1>6, BackoffCancelledStep
<1>7. ASSUME NEW t \in TaskId, DrainJoin(t) PROVE IInv'
  BY <1>7, DrainJoinStep
<1>8. ASSUME NEW t \in TaskId, TaskStart(t) PROVE IInv'
  BY <1>8, SetTaskStep DEF TaskStart, TaskState
<1>9. ASSUME NEW t \in TaskId, TaskExit(t) PROVE IInv'
  BY <1>9, SetTaskStep DEF TaskExit, TaskState, Joinable, Outcome
<1>10. ASSUME NEW t \in TaskId, TaskAborted(t) PROVE IInv'
  BY <1>10, SetTaskStep DEF TaskAborted, TaskState, Joinable
<1>11. ASSUME NEW t \in TaskId, Heartbeat(t) PROVE IInv'
  BY <1>11, QuietStep DEF Heartbeat, IInv, TypeOK
<1>12. ASSUME NEW w \in Worker, GoesSilent(w) \/ HandleCancel(w) PROVE IInv'
  BY <1>12, QuietStep DEF GoesSilent, HandleCancel, IInv, TypeOK
<1>13. CASE ShutdownSignal \/ Watcher
  BY <1>13, QuietStep DEF ShutdownSignal, Watcher, IInv, TypeOK
<1>14. CASE Finished \/ UNCHANGED vars
  BY <1>14, QuietStep DEF Finished, vars, IInv, TypeOK
<1>15. QED
  BY <1>1, <1>2, <1>3, <1>4, <1>5, <1>6, <1>7, <1>8, <1>9, <1>10, <1>11, <1>12, <1>13, <1>14
     DEF Next, Loop, Tasks, Others

(* The inductive invariant holds throughout every run of the supervisor.     *)
THEOREM Invariance == Spec => []IInv
<1>1. QED
  BY InitIInv, NextIInv, PTL DEF Spec

(* Every variable keeps its type.                                            *)
THEOREM TypeCorrect == Spec => []TypeOK
<1>1. IInv => TypeOK
  BY DEF IInv
<1>2. QED
  BY <1>1, Invariance, PTL

(* However many workers there are and however they are registered, restarts, *)
(* trials and first spawns never give one of them two tasks.                 *)
THEOREM OneTaskPerWorker == Spec => []AtMostOneTask
<1>1. IInv => AtMostOneTask
  BY DEF IInv
<1>2. QED
  BY <1>1, Invariance, PTL

(* task_to_worker never loses, keeps or confuses a task.                     *)
THEOREM TaskMapCorrect == Spec => []TaskMapExact
<1>1. IInv => TaskMapExact
  BY DEF IInv
<1>2. QED
  BY <1>1, Invariance, PTL

(* No task of a worker exists or is about to while its breaker is open.      *)
THEOREM OpenBreakerContains == Spec => []OpenMeansIdle
<1>1. IInv => OpenMeansIdle
  BY DEF IInv
<1>2. QED
  BY <1>1, Invariance, PTL

(* Whenever a thread reads a handle, while the loop is between any two of    *)
(* its writes: a worker with a task reports Starting, Running or Stopping,   *)
(* and Running, Starting and Restarting never outlast what they announce.    *)
THEOREM HandlesTruthful == Spec => []HandleMatchesTask
<1>1. IInv => HandleMatchesTask
  BY DEF IInv
<1>2. QED
  BY <1>1, Invariance, PTL

(* No worker is given up on after a failure without the escalation its       *)
(* criticality asks for, by the end of the handler that gave it up.          *)
THEOREM FailuresEscalate == Spec => []FailureEscalates
<1>1. IInv => FailureEscalates
  BY DEF IInv
<1>2. QED
  BY <1>1, Invariance, PTL
=============================================================================
