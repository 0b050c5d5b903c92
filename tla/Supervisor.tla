----------------------------- MODULE Supervisor -----------------------------
(***************************************************************************)
(* The supervisor of the storage consumers                                 *)
(* (streaming/run_storage_consumers.py): it starts the workers, looks at   *)
(* them every CHECK_INTERVAL_SECONDS, restarts the dead ones after an      *)
(* exponential backoff and gives up when one of them dies too often.       *)
(*                                                                         *)
(* Time is the monotonic clock in an arbitrary unit. A pass over the       *)
(* workers reads it once and takes no time; sleep() lasts Interval and at  *)
(* most Slack more.                                                        *)
(***************************************************************************)
EXTENDS Integers, Sequences, FiniteSets

CONSTANTS N,            \* workers, in the order of the WORKERS dictionary
          Interval,     \* CHECK_INTERVAL_SECONDS
          Slack,        \* how late a sleep may return
          BackoffBase,  \* RESTART_BACKOFF_BASE_SECONDS
          BackoffMax,   \* RESTART_BACKOFF_MAX_SECONDS
          MaxRestarts,  \* MAX_RESTARTS
          Window,       \* RESTART_WINDOW_SECONDS
          MaxTime       \* bound: the clock stops here

ASSUME SupervisorAssumption ==
    /\ N \in Nat \ {0} /\ MaxRestarts \in Nat \ {0}
    /\ Interval \in Nat \ {0} /\ Slack \in Nat
    /\ BackoffBase \in Nat /\ BackoffMax \in Nat
    /\ Window \in Nat /\ MaxTime \in Nat

Workers == 1 .. N

VARIABLES
    phase,         \* "launch", "sweep", "sleep", "shutdown" or "stopped"
    at,            \* the worker the current loop looks at next
    clock,         \* time.monotonic()
    now,           \* the reading the current pass works with
    wakeAt,        \* when the current sleep ends
    proc,          \* "none", "alive" or "exited" (not noticed yet)
    restartTimes,  \* Worker.restart_times
    nextStartAt,   \* Worker.next_start_at
    graceful,      \* _shutdown's argument
    exitCode,      \* what main() returns
    granted,       \* history: every time at which a restart was scheduled
    downSince      \* history: when the worker last died

superVars == <<phase, at, clock, now, wakeAt, proc, restartTimes, nextStartAt,
          graceful, exitCode, granted, downSince>>

SuperInit ==
    /\ phase = "launch" /\ at = 1
    /\ clock = 0 /\ now = 0 /\ wakeAt = 0
    /\ proc = [w \in Workers |-> "none"]
    /\ restartTimes = [w \in Workers |-> << >>]
    /\ nextStartAt = [w \in Workers |-> 0]
    /\ graceful = TRUE /\ exitCode = 0
    /\ granted = [w \in Workers |-> << >>]
    /\ downSince = [w \in Workers |-> 0]
-----------------------------------------------------------------------------
(* main() up to _supervise().                                               *)

\* Worker.start(): a new process.
StartProcess(w) == proc' = [proc EXCEPT ![w] = "alive"]

Launch ==
    /\ phase = "launch" /\ at \in Workers
    /\ StartProcess(at)
    /\ at' = at + 1
    /\ UNCHANGED <<phase, clock, now, wakeAt, restartTimes, nextStartAt,
                   graceful, exitCode, granted, downSince>>

\* The top of the loop: a fresh reading of the clock for the whole pass.
BeginPass ==
    /\ \/ phase = "launch" /\ at = N + 1
       \/ phase = "sleep" /\ clock >= wakeAt
    /\ phase' = "sweep" /\ at' = 1
    /\ now' = clock
    /\ UNCHANGED <<clock, wakeAt, proc, restartTimes, nextStartAt,
                   graceful, exitCode, granted, downSince>>
-----------------------------------------------------------------------------
(* The body of the loop over the workers.                                   *)

Visit(w) == phase = "sweep" /\ at = w /\ at' = at + 1

\* min(RESTART_BACKOFF_BASE_SECONDS * 2 ** n, RESTART_BACKOFF_MAX_SECONDS)
Delay(n) == IF BackoffBase * 2 ^ n < BackoffMax THEN BackoffBase * 2 ^ n ELSE BackoffMax

\* Waiting out the backoff, or alive: nothing to do.
PassOver(w) ==
    /\ Visit(w)
    /\ \/ proc[w] = "none" /\ now < nextStartAt[w]
       \/ proc[w] = "alive"
    /\ UNCHANGED <<phase, clock, now, wakeAt, proc, restartTimes, nextStartAt,
                   graceful, exitCode, granted, downSince>>

\* Restarts a worker without waiting for its backoff to end.
Restart_TooEarly(w) ==
    /\ Visit(w)
    /\ proc[w] = "none"
    /\ StartProcess(w)
    /\ UNCHANGED <<phase, clock, now, wakeAt, restartTimes, nextStartAt,
                   graceful, exitCode, granted, downSince>>

\* The backoff is over.
Restart(w) ==
    /\ Visit(w)
    /\ proc[w] = "none" /\ now >= nextStartAt[w]
    /\ StartProcess(w)
    /\ UNCHANGED <<phase, clock, now, wakeAt, restartTimes, nextStartAt,
                   graceful, exitCode, granted, downSince>>

\* Forgets to drop old entries.
PopsLeft_Never(w, k) == k = 0

\* Also drops an entry that is exactly as old as the window.
PopsLeft_DropsBoundary(w, k) ==
    /\ \A n \in 1 .. k : now - restartTimes[w][n] >= Window
    /\ k < Len(restartTimes[w]) => now - restartTimes[w][k + 1] < Window

\* The popleft loop stops after k entries: those are older than the window,
\* and the next one is not.
PopsLeft(w, k) ==
    /\ \A n \in 1 .. k : now - restartTimes[w][n] > Window
    /\ k < Len(restartTimes[w]) => now - restartTimes[w][k + 1] <= Window

Recent(w, k) == SubSeq(restartTimes[w], k + 1, Len(restartTimes[w]))

\* The crash-loop guard.
Loops(w, k) == Len(restartTimes[w]) - k >= MaxRestarts

\* Waits twice the backoff.
Backoff_Doubled(n) == 2 * Delay(n + 1) + 2 * (Interval + Slack)

Backoff(n) == Delay(n)

\* An exit the supervisor did not ask for: schedule a restart.
ScheduleRestart(w) ==
    /\ Visit(w)
    /\ proc[w] = "exited"
    /\ \E k \in 0 .. Len(restartTimes[w]) :
          /\ PopsLeft(w, k)
          /\ ~ Loops(w, k)
          /\ restartTimes' = [restartTimes EXCEPT ![w] = Append(Recent(w, k), now)]
          /\ nextStartAt' = [nextStartAt EXCEPT ![w] = now + Backoff(Len(Recent(w, k)))]
    /\ proc' = [proc EXCEPT ![w] = "none"]
    /\ granted' = [granted EXCEPT ![w] = Append(@, now)]
    /\ UNCHANGED <<phase, clock, now, wakeAt, graceful, exitCode, downSince>>

\* The guard trips: _supervise returns 1 and the finally block shuts down.
Trip(w) ==
    /\ phase = "sweep" /\ at = w
    /\ proc[w] = "exited"
    /\ \E k \in 0 .. Len(restartTimes[w]) :
          /\ PopsLeft(w, k)
          /\ Loops(w, k)
          /\ restartTimes' = [restartTimes EXCEPT ![w] = Recent(w, k)]
    /\ proc' = [proc EXCEPT ![w] = "none"]
    /\ phase' = "shutdown" /\ at' = 1
    /\ graceful' = FALSE /\ exitCode' = 1
    /\ UNCHANGED <<clock, now, wakeAt, nextStartAt, granted, downSince>>

EndPass ==
    /\ phase = "sweep" /\ at = N + 1
    /\ phase' = "sleep"
    /\ wakeAt' = clock + Interval
    /\ UNCHANGED <<at, clock, now, proc, restartTimes, nextStartAt,
                   graceful, exitCode, granted, downSince>>
-----------------------------------------------------------------------------
(* _shutdown().                                                             *)

\* KeyboardInterrupt in _supervise. The console sends it to the children too.
CtrlC ==
    /\ phase \in {"sweep", "sleep"}
    /\ phase' = "shutdown" /\ at' = 1
    /\ UNCHANGED <<clock, now, wakeAt, proc, restartTimes, nextStartAt,
                   graceful, exitCode, granted, downSince>>

\* Waits for the child to close and does not look whether it did.
StopWorker_JoinOnly ==
    /\ phase = "shutdown" /\ at \in Workers
    /\ \/ proc' = proc
       \/ proc[at] = "alive" /\ proc' = [proc EXCEPT ![at] = "exited"]
    /\ at' = at + 1
    /\ UNCHANGED <<phase, clock, now, wakeAt, restartTimes, nextStartAt,
                   graceful, exitCode, granted, downSince>>

\* A live process either ends within the join of a graceful shutdown or is
\* terminated; without grace it is terminated at once.
StopWorker ==
    /\ phase = "shutdown" /\ at \in Workers
    /\ proc' = IF proc[at] = "alive" THEN [proc EXCEPT ![at] = "exited"] ELSE proc
    /\ at' = at + 1
    /\ UNCHANGED <<phase, clock, now, wakeAt, restartTimes, nextStartAt,
                   graceful, exitCode, granted, downSince>>

Stop ==
    /\ phase = "shutdown" /\ at = N + 1
    /\ phase' = "stopped"
    /\ UNCHANGED <<at, clock, now, wakeAt, proc, restartTimes, nextStartAt,
                   graceful, exitCode, granted, downSince>>
-----------------------------------------------------------------------------
\* A worker ends: an exception, a kill, or a clean return of run().
Die(w) ==
    /\ proc[w] = "alive"
    /\ proc' = [proc EXCEPT ![w] = "exited"]
    /\ downSince' = [downSince EXCEPT ![w] = clock]
    /\ UNCHANGED <<phase, at, clock, now, wakeAt, restartTimes, nextStartAt,
                   graceful, exitCode, granted>>

Tick ==
    /\ phase = "sleep"
    /\ clock < wakeAt + Slack /\ clock < MaxTime
    /\ clock' = clock + 1
    /\ UNCHANGED <<phase, at, now, wakeAt, proc, restartTimes, nextStartAt,
                   graceful, exitCode, granted, downSince>>

VisitWorker(w) == PassOver(w) \/ Restart(w) \/ ScheduleRestart(w) \/ Trip(w)

SuperNext ==
    \/ Launch \/ BeginPass
    \/ \E w \in Workers : VisitWorker(w) \/ Die(w)
    \/ EndPass \/ CtrlC \/ StopWorker \/ Stop \/ Tick

SuperSpec == SuperInit /\ [][SuperNext]_superVars
-----------------------------------------------------------------------------
SuperTypeOK ==
    /\ phase \in {"launch", "sweep", "sleep", "shutdown", "stopped"}
    /\ at \in 1 .. N + 1
    /\ clock \in 0 .. MaxTime /\ now \in 0 .. clock
    /\ wakeAt \in 0 .. MaxTime + Interval
    /\ proc \in [Workers -> {"none", "alive", "exited"}]
    /\ \A w \in Workers : Len(restartTimes[w]) <= MaxRestarts
    /\ restartTimes \in [Workers -> Seq(0 .. MaxTime)]
    /\ nextStartAt \in [Workers -> 0 .. MaxTime + BackoffMax]
    /\ graceful \in BOOLEAN /\ exitCode \in {0, 1}
    /\ granted \in [Workers -> Seq(0 .. MaxTime)]
    /\ downSince \in [Workers -> 0 .. MaxTime]

(* The crash-loop guard limits the rate, not only the length of a list that *)
(* is pruned now and then: any MaxRestarts + 1 successive restarts of a     *)
(* worker span more than the window (module docstring of                    *)
(* run_storage_consumers.py, lines 17 to 20).                               *)
RestartRate ==
    \A w \in Workers : \A n \in 1 .. Len(granted[w]) :
        n > MaxRestarts => granted[w][n] - granted[w][n - MaxRestarts] > Window

(* The supervisor exits with code 1 only when a worker has really used up   *)
(* its MaxRestarts restarts within the window that ends now, and dies again. *)
GivesUpOnlyOnCrashLoop ==
    exitCode = 1 =>
        \E w \in Workers :
            LET g == granted[w] IN
            /\ Len(g) >= MaxRestarts
            /\ now - g[Len(g) - MaxRestarts + 1] <= Window
            /\ proc[w] # "alive"

(* A dead worker is back within its longest backoff and two rounds of the   *)
(* loop, whatever the other workers do, unless the supervisor is stopping.  *)
PromptRestart ==
    \A w \in Workers :
        phase \in {"sweep", "sleep"} /\ proc[w] # "alive"
            => clock - downSince[w] <= BackoffMax + 2 * (Interval + Slack)

(* Successive restarts are spaced by the growing backoff: a process is only *)
(* started Delay(n) after its restart was scheduled, when n others were     *)
(* scheduled within the window before that one.                             *)
BackoffRespected ==
    [][\A w \in Workers :
          phase = "sweep" /\ proc[w] = "none" /\ proc'[w] = "alive" =>
            LET g == granted[w]
                last == g[Len(g)]
                earlier == {n \in 1 .. Len(g) - 1 : last - g[n] <= Window}
            IN  clock - last >= Delay(Cardinality(earlier))]_superVars

(* When the supervisor has stopped, no worker is left running.              *)
NothingLeftRunning ==
    phase = "stopped" => \A w \in Workers : proc[w] # "alive"
=============================================================================
