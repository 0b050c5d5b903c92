-------------------------- MODULE Supervisor_proofs --------------------------
(***************************************************************************)
(* Proofs about the supervisor, for any number of workers, any backoff and *)
(* any window.                                                             *)
(*                                                                         *)
(* restart_times is pruned by some passes and not by others, so neither    *)
(* its length nor its entries say directly how often a worker was          *)
(* restarted. The invariant relates it to the full history granted: it is  *)
(* a suffix of it, and what is missing in front is older than the window.  *)
(***************************************************************************)
EXTENDS Supervisor, NumberFacts, FiniteSetTheorems, SequenceTheorems, TLAPS

\* As much of SuperTypeOK as the arguments below need.
Typed ==
    /\ phase \in {"launch", "sweep", "sleep", "shutdown", "stopped"}
    /\ at \in Nat /\ clock \in Nat /\ now \in Nat /\ now <= clock
    /\ proc \in [Workers -> {"none", "alive", "exited"}]
    /\ restartTimes \in [Workers -> Seq(Nat)]
    /\ granted \in [Workers -> Seq(Nat)]
    /\ exitCode \in {0, 1}

\* The history of a worker is in order and not ahead of the clock.
Chronological(g, t) ==
    /\ \A m \in 1 .. Len(g) : g[m] <= t
    /\ \A m, n \in 1 .. Len(g) : m <= n => g[m] <= g[n]

\* r is the end of g, the rest of g is older than the window.
EndOf(r, g, t) ==
    /\ Len(r) <= Len(g)
    /\ \A m \in 1 .. Len(r) : r[m] = g[Len(g) - Len(r) + m]
    /\ \A m \in 1 .. Len(g) - Len(r) : t - g[m] > Window

\* RestartRate for one worker.
Spaced(g) ==
    \A n \in 1 .. Len(g) :
        n > MaxRestarts => g[n] - g[n - MaxRestarts] > Window

\* What GivesUpOnlyOnCrashLoop asks for.
UsedUp(g, t) ==
    /\ Len(g) >= MaxRestarts
    /\ t - g[Len(g) - MaxRestarts + 1] <= Window

Histories ==
    \A w \in Workers :
        /\ Chronological(granted[w], now)
        /\ EndOf(restartTimes[w], granted[w], now)
        /\ Spaced(granted[w])

CrashLoop ==
    exitCode = 1 =>
        /\ phase \in {"shutdown", "stopped"}
        /\ \E w \in Workers : UsedUp(granted[w], now) /\ proc[w] # "alive"

Stopping ==
    /\ phase = "shutdown" => \A w \in Workers : w < at => proc[w] # "alive"
    /\ phase = "stopped" => \A w \in Workers : proc[w] # "alive"

Inv == Typed /\ Histories /\ CrashLoop /\ Stopping
-----------------------------------------------------------------------------
(* Scheduling a restart, on the sequences alone: g is a worker's history, r *)
(* its restart_times, k entries of which are dropped.                       *)
LEMMA ScheduleKeepsOrder ==
    ASSUME NEW g \in Seq(Nat), NEW t \in Nat, Chronological(g, t)
    PROVE  Chronological(Append(g, t), t)
  BY DEF Chronological

\* Dropping k entries that are older than the window.
LEMMA DropKeepsEnd ==
    ASSUME NEW g \in Seq(Nat), NEW r \in Seq(Nat), NEW t \in Nat, Window \in Nat,
           EndOf(r, g, t), NEW k \in 0 .. Len(r),
           \A n \in 1 .. k : t - r[n] > Window
    PROVE  EndOf(SubSeq(r, k + 1, Len(r)), g, t)
  <1> DEFINE q == SubSeq(r, k + 1, Len(r))
  <1>1. q \in Seq(Nat) /\ Len(q) = Len(r) - k /\ Len(r) \in Nat /\ Len(g) \in Nat
    OBVIOUS
  <1>2. \A m \in 1 .. Len(q) : q[m] = r[k + m]
    OBVIOUS
  <1> HIDE DEF q
  <1>3. \A m \in 1 .. Len(q) : q[m] = g[Len(g) - Len(q) + m]
    <2> SUFFICES ASSUME NEW m \in 1 .. Len(q)
                 PROVE  q[m] = g[Len(g) - Len(q) + m]
      OBVIOUS
    <2>1. k + m \in 1 .. Len(r)
      BY <1>1
    <2>2. r[k + m] = g[Len(g) - Len(r) + (k + m)]
      BY <2>1 DEF EndOf
    <2>3. Len(g) - Len(r) + (k + m) = Len(g) - Len(q) + m
      BY <1>1
    <2> QED
      BY <1>2, <2>2, <2>3
  <1>4. \A m \in 1 .. Len(g) - Len(q) : t - g[m] > Window
    <2> SUFFICES ASSUME NEW m \in 1 .. Len(g) - Len(q)
                 PROVE  t - g[m] > Window
      OBVIOUS
    <2>1. CASE m <= Len(g) - Len(r)
      BY <2>1, <1>1 DEF EndOf
    <2>2. CASE m > Len(g) - Len(r)
      <3> DEFINE i == m - (Len(g) - Len(r))
      <3>0. m \in Int /\ m <= Len(g) - (Len(r) - k)
        BY <1>1
      <3>1. i \in 1 .. k /\ i \in 1 .. Len(r) /\ Len(g) - Len(r) + i = m
        <4>1. i \in Int /\ Len(g) - Len(r) + i = m
          BY <3>0, <1>1
        <4>2. 1 <= i /\ i <= k
          BY <2>2, <3>0, <1>1
        <4> QED
          BY <4>1, <4>2, <1>1
      <3>2. r[i] = g[m]
        BY <3>1 DEF EndOf
      <3> QED
        BY <3>1, <3>2
    <2> QED
      BY <2>1, <2>2, <1>1
  <1>5. Len(q) <= Len(g)
    BY <1>1 DEF EndOf
  <1>6. EndOf(q, g, t)
    BY <1>3, <1>4, <1>5 DEF EndOf
  <1> QED
    BY <1>6 DEF q

\* The new restart enters history and restart_times alike.
LEMMA AppendKeepsEnd ==
    ASSUME NEW g \in Seq(Nat), NEW q \in Seq(Nat), NEW t \in Nat, Window \in Nat,
           EndOf(q, g, t)
    PROVE  EndOf(Append(q, t), Append(g, t), t)
  <1> DEFINE q1 == Append(q, t)
             g1 == Append(g, t)
  <1>1. /\ Len(q1) = Len(q) + 1 /\ Len(g1) = Len(g) + 1
        /\ \A m \in 1 .. Len(q) : q1[m] = q[m]
        /\ \A m \in 1 .. Len(g) : g1[m] = g[m]
        /\ q1[Len(q) + 1] = t /\ g1[Len(g) + 1] = t
        /\ Len(q) \in Nat /\ Len(g) \in Nat
    OBVIOUS
  <1>2. Len(q) <= Len(g)
    BY DEF EndOf
  <1> HIDE DEF q1, g1
  <1>3. ASSUME NEW m \in 1 .. Len(q) + 1
        PROVE  q1[m] = g1[Len(g) - Len(q) + m]
    <2>1. CASE m = Len(q) + 1
      <3>1. Len(g) - Len(q) + m = Len(g) + 1
        BY <2>1, <1>1
      <3> QED
        BY <2>1, <3>1, <1>1
    <2>2. CASE m # Len(q) + 1
      <3>1. m \in 1 .. Len(q)
        BY <2>2, <1>1
      <3>2. Len(g) - Len(q) + m \in 1 .. Len(g)
        BY <3>1, <1>1, <1>2
      <3>3. q[m] = g[Len(g) - Len(q) + m]
        BY <3>1 DEF EndOf
      <3> QED
        BY <3>1, <3>2, <3>3, <1>1
    <2> QED
      BY <2>1, <2>2
  <1>4. ASSUME NEW m \in 1 .. Len(g) - Len(q)
        PROVE  t - g1[m] > Window
    <2>1. m \in 1 .. Len(g)
      BY <1>1, <1>2
    <2>2. t - g[m] > Window
      BY DEF EndOf
    <2> QED
      BY <2>1, <2>2, <1>1
  <1>5. Len(g1) - Len(q1) = Len(g) - Len(q) /\ Len(q1) <= Len(g1)
    BY <1>1, <1>2
  <1>6. EndOf(q1, g1, t)
    BY <1>1, <1>3, <1>4, <1>5 DEF EndOf
  <1> QED
    BY <1>6 DEF q1, g1

(* The guard is about the shortened list; because the list is the end of    *)
(* the history, it bounds the history's rate.                               *)
LEMMA ScheduleKeepsSpacing ==
    ASSUME NEW g \in Seq(Nat), NEW q \in Seq(Nat), NEW t \in Nat, Window \in Nat,
           MaxRestarts \in Nat \ {0},
           EndOf(q, g, t), Spaced(g), Len(q) < MaxRestarts
    PROVE  Spaced(Append(g, t))
  <1> DEFINE g1 == Append(g, t)
  <1>1. /\ Len(g1) = Len(g) + 1 /\ Len(g) \in Nat /\ Len(q) \in Nat
        /\ \A m \in 1 .. Len(g) : g1[m] = g[m]
        /\ g1[Len(g) + 1] = t
    OBVIOUS
  <1> SUFFICES ASSUME NEW n \in 1 .. Len(g) + 1, n > MaxRestarts
               PROVE  g1[n] - g1[n - MaxRestarts] > Window
    BY <1>1 DEF Spaced
  <1> HIDE DEF g1
  <1>2. CASE n # Len(g) + 1
    <2>1. n \in 1 .. Len(g) /\ n - MaxRestarts \in 1 .. Len(g)
      BY <1>2, <1>1
    <2>2. g[n] - g[n - MaxRestarts] > Window
      BY <2>1 DEF Spaced
    <2> QED
      BY <1>1, <2>1, <2>2
  <1>3. CASE n = Len(g) + 1
    <2>1. n - MaxRestarts \in 1 .. Len(g) - Len(q) /\ n - MaxRestarts \in 1 .. Len(g)
      BY <1>1, <1>3
    <2>2. t - g[n - MaxRestarts] > Window
      BY <2>1 DEF EndOf
    <2> QED
      BY <1>1, <1>3, <2>1, <2>2
  <1> QED
    BY <1>2, <1>3

(* When the guard trips, the restarts it counted are the last of the        *)
(* history, and the oldest of them is within the window.                    *)
LEMMA TripMeansUsedUp ==
    ASSUME NEW g \in Seq(Nat), NEW r \in Seq(Nat), NEW t \in Nat, Window \in Nat,
           MaxRestarts \in Nat \ {0}, Chronological(g, t),
           EndOf(r, g, t), NEW k \in 0 .. Len(r),
           Len(r) - k >= MaxRestarts,
           t - r[k + 1] <= Window
    PROVE  UsedUp(g, t)
  <1> DEFINE i == Len(g) - Len(r) + (k + 1)
             j == Len(g) - MaxRestarts + 1
  <1>1. Len(g) \in Nat /\ Len(r) \in Nat /\ Len(r) <= Len(g)
    <2>1. Len(g) \in Nat /\ Len(r) \in Nat
      OBVIOUS
    <2>2. Len(r) <= Len(g)
      BY Zenon DEF EndOf
    <2> QED
      BY <2>1, <2>2, Zenon
  <1>2. k + 1 \in 1 .. Len(r)
    <2>1. k \in Nat /\ 1 <= MaxRestarts /\ MaxRestarts \in Nat
      BY <1>1
    <2>2. k + MaxRestarts <= Len(r)
      BY <1>1, <2>1
    <2> QED
      BY <1>1, <2>1, <2>2
  <1>3. r[k + 1] = g[i]
    BY <1>2 DEF EndOf
  <1>4. i \in 1 .. Len(g) /\ j \in 1 .. Len(g) /\ i <= j
    <2>1. i \in 1 .. Len(g)
      BY <1>1
    <2>2. j \in 1 .. Len(g)
      BY <1>1
    <2>3. i <= j
      BY <1>1
    <2> QED
      BY <2>1, <2>2, <2>3
  <1> HIDE DEF i, j
  <1>5. g[i] <= g[j] /\ g[i] \in Nat /\ g[j] \in Nat
    <2>1. \A a, b \in 1 .. Len(g) : a <= b => g[a] <= g[b]
      BY Zenon DEF Chronological
    <2>2. g[i] <= g[j]
      BY <1>4, <2>1, Zenon
    <2>3. \A a \in 1 .. Len(g) : g[a] \in Nat
      OBVIOUS
    <2> QED
      BY <1>4, <2>2, <2>3, Zenon
  <1>6. ASSUME NEW a \in Nat, NEW b \in Nat, t - a <= Window, a <= b
        PROVE  t - b <= Window
    BY <1>6
  <1>7. t - g[i] <= Window
    BY <1>3
  <1>8. t - g[j] <= Window
    BY <1>5, <1>6, <1>7
  <1>9. Len(g) >= MaxRestarts
    BY <1>1
  <1> QED
    BY <1>8, <1>9 DEF UsedUp, j

(* A later reading of the clock disturbs neither order nor the age of what  *)
(* was dropped.                                                             *)
LEMMA LaterPass ==
    ASSUME NEW g \in Seq(Nat), NEW r \in Seq(Nat), NEW t \in Nat, NEW u \in Nat,
           t <= u, Window \in Nat, Chronological(g, t), EndOf(r, g, t)
    PROVE  /\ \A m \in 1 .. Len(g) : g[m] <= u
           /\ \A m \in 1 .. Len(g) - Len(r) : u - g[m] > Window
  <1>1. Len(g) \in Nat /\ Len(r) \in Nat /\ \A m \in 1 .. Len(g) : g[m] \in Nat
    OBVIOUS
  <1>2. ASSUME NEW m \in 1 .. Len(g)
        PROVE  g[m] <= u
    <2>1. g[m] <= t
      BY DEF Chronological
    <2> QED
      BY <1>1, <2>1
  <1>3. ASSUME NEW m \in 1 .. Len(g) - Len(r)
        PROVE  u - g[m] > Window
    <2>1. t - g[m] > Window
      BY DEF EndOf
    <2>2. m \in 1 .. Len(g)
      BY <1>1
    <2> QED
      BY <1>1, <2>1, <2>2
  <1> QED
    BY <1>2, <1>3
-----------------------------------------------------------------------------
(* The supervisor starts with empty histories and no process (main()).      *)
THEOREM Initially == SuperInit => Inv
  <1> SUFFICES ASSUME SuperInit PROVE Inv
    OBVIOUS
  <1> USE SupervisorAssumption
  <1>1. Typed
    BY DEF SuperInit, Typed, Workers
  <1>2. Histories
    BY DEF SuperInit, Histories, Chronological, EndOf, Spaced
  <1>3. CrashLoop /\ Stopping
    BY DEF SuperInit, CrashLoop, Stopping
  <1> QED
    BY <1>1, <1>2, <1>3 DEF Inv

(* Every step keeps the types; now only moves at the start of a pass.       *)
LEMMA TypedStep == Typed /\ [SuperNext]_superVars => Typed' /\ now' >= now
  <1> SUFFICES ASSUME Typed, [SuperNext]_superVars
               PROVE  Typed' /\ now' >= now
    OBVIOUS
  <1> USE SupervisorAssumption DEF Typed
  <1>1. CASE Launch
    BY <1>1 DEF Launch, StartProcess
  <1>2. CASE BeginPass
    BY <1>2 DEF BeginPass
  <1>3. CASE EndPass
    BY <1>3 DEF EndPass
  <1>4. CASE CtrlC
    BY <1>4 DEF CtrlC
  <1>5. CASE StopWorker
    BY <1>5 DEF StopWorker
  <1>6. CASE Stop
    BY <1>6 DEF Stop
  <1>7. CASE Tick
    BY <1>7 DEF Tick
  <1>8. CASE UNCHANGED superVars
    BY <1>8 DEF superVars
  <1>9. ASSUME NEW w \in Workers, VisitWorker(w) \/ Die(w)
        PROVE  Typed' /\ now' >= now
    <2>1. CASE PassOver(w)
      BY <2>1 DEF PassOver, Visit
    <2>2. CASE Restart(w)
      BY <2>2 DEF Restart, Visit, StartProcess
    <2>3. CASE Die(w)
      BY <2>3 DEF Die
    <2>4. CASE ScheduleRestart(w)
      <3>1. PICK k \in 0 .. Len(restartTimes[w]) :
               restartTimes' = [restartTimes EXCEPT ![w] = Append(Recent(w, k), now)]
        BY <2>4 DEF ScheduleRestart
      <3>2. Recent(w, k) \in Seq(Nat)
        BY DEF Recent
      <3>3. restartTimes' \in [Workers -> Seq(Nat)]
        BY <3>1, <3>2
      <3>4. granted' \in [Workers -> Seq(Nat)]
        BY <2>4 DEF ScheduleRestart
      <3> QED
        BY <2>4, <3>3, <3>4 DEF ScheduleRestart, Visit
    <2>5. CASE Trip(w)
      <3>1. PICK k \in 0 .. Len(restartTimes[w]) :
               restartTimes' = [restartTimes EXCEPT ![w] = Recent(w, k)]
        BY <2>5 DEF Trip
      <3>2. Recent(w, k) \in Seq(Nat)
        BY DEF Recent
      <3>3. restartTimes' \in [Workers -> Seq(Nat)]
        BY <3>1, <3>2
      <3> QED
        BY <2>5, <3>3 DEF Trip
    <2> QED
      BY <1>9, <2>1, <2>2, <2>3, <2>4, <2>5 DEF VisitWorker
  <1> QED
    BY <1>1, <1>2, <1>3, <1>4, <1>5, <1>6, <1>7, <1>8, <1>9 DEF SuperNext

(* The worker being looked at is the only one whose history changes.        *)
LEMMA HistoriesStep == Inv /\ [SuperNext]_superVars => Histories'
  <1> SUFFICES ASSUME Inv, [SuperNext]_superVars, NEW v \in Workers
               PROVE  /\ Chronological(granted'[v], now')
                      /\ EndOf(restartTimes'[v], granted'[v], now')
                      /\ Spaced(granted'[v])
    BY DEF Histories
  <1> DEFINE g == granted[v]
             r == restartTimes[v]
  <1>1. /\ g \in Seq(Nat) /\ r \in Seq(Nat) /\ now \in Nat /\ now' \in Nat
        /\ now <= now' /\ Window \in Nat /\ MaxRestarts \in Nat \ {0}
        /\ Chronological(g, now) /\ EndOf(r, g, now) /\ Spaced(g)
    <2>1. Typed' /\ now' >= now
      BY TypedStep DEF Inv
    <2>2. g \in Seq(Nat) /\ r \in Seq(Nat)
      BY DEF Inv, Typed
    <2> QED
      BY <2>1, <2>2, SupervisorAssumption DEF Inv, Typed, Histories
  <1>2. CASE UNCHANGED <<restartTimes, granted>>
    <2>1. restartTimes'[v] = r /\ granted'[v] = g
      BY <1>2
    <2>2. Chronological(g, now') /\ EndOf(r, g, now')
      BY <1>1, LaterPass DEF Chronological, EndOf
    <2> QED
      BY <1>1, <2>1, <2>2
  <1>3. ASSUME NEW w \in Workers, ScheduleRestart(w)
        PROVE  /\ Chronological(granted'[v], now')
               /\ EndOf(restartTimes'[v], granted'[v], now')
               /\ Spaced(granted'[v])
    <2>1. now' = now
      BY <1>3 DEF ScheduleRestart
    <2>2. CASE v # w
      <3>1. restartTimes'[v] = r /\ granted'[v] = g
        BY <1>3, <2>2 DEF ScheduleRestart, Inv, Typed
      <3> QED
        BY <1>1, <2>1, <3>1
    <2>3. CASE v = w
      <3>1. PICK k \in 0 .. Len(r) :
               /\ PopsLeft(v, k) /\ ~ Loops(v, k)
               /\ restartTimes' = [restartTimes EXCEPT ![v] = Append(Recent(v, k), now)]
        BY <1>3, <2>3 DEF ScheduleRestart
      <3> DEFINE q == SubSeq(r, k + 1, Len(r))
      <3>2. granted'[v] = Append(g, now)
        BY <1>3, <2>3 DEF ScheduleRestart, Inv, Typed
      <3>3. restartTimes'[v] = Append(q, now)
        BY <3>1 DEF Recent, Inv, Typed
      <3>4. q \in Seq(Nat) /\ Len(q) = Len(r) - k
        BY <1>1
      <3>5. Len(q) < MaxRestarts
        BY <1>1, <3>1, <3>4 DEF Loops
      <3>6. EndOf(q, g, now)
        BY <1>1, <3>1, DropKeepsEnd DEF PopsLeft
      <3> HIDE DEF q, g, r
      <3>7. EndOf(Append(q, now), Append(g, now), now)
        BY <1>1, <3>4, <3>6, AppendKeepsEnd
      <3>8. Spaced(Append(g, now))
        BY <1>1, <3>4, <3>5, <3>6, ScheduleKeepsSpacing
      <3>9. Chronological(Append(g, now), now)
        BY <1>1, ScheduleKeepsOrder
      <3> QED
        BY <2>1, <3>2, <3>3, <3>7, <3>8, <3>9
    <2> QED
      BY <2>2, <2>3
  <1>4. ASSUME NEW w \in Workers, Trip(w)
        PROVE  /\ Chronological(granted'[v], now')
               /\ EndOf(restartTimes'[v], granted'[v], now')
               /\ Spaced(granted'[v])
    <2>1. now' = now /\ granted'[v] = g
      BY <1>4 DEF Trip
    <2>2. CASE v # w
      <3>1. restartTimes'[v] = r
        BY <1>4, <2>2 DEF Trip, Inv, Typed
      <3> QED
        BY <1>1, <2>1, <3>1
    <2>3. CASE v = w
      <3>1. PICK k \in 0 .. Len(r) :
               /\ PopsLeft(v, k)
               /\ restartTimes' = [restartTimes EXCEPT ![v] = Recent(v, k)]
        BY <1>4, <2>3 DEF Trip
      <3>2. restartTimes'[v] = SubSeq(r, k + 1, Len(r))
        BY <3>1 DEF Recent, Inv, Typed
      <3>3. EndOf(SubSeq(r, k + 1, Len(r)), g, now)
        BY <1>1, <3>1, DropKeepsEnd DEF PopsLeft
      <3> QED
        BY <1>1, <2>1, <3>2, <3>3
    <2> QED
      BY <2>2, <2>3
  <1>5. \/ UNCHANGED <<restartTimes, granted>>
        \/ \E w \in Workers : ScheduleRestart(w) \/ Trip(w)
    BY DEF SuperNext, superVars, VisitWorker, Launch, BeginPass, PassOver, Restart, EndPass,
           CtrlC, StopWorker, Stop, Die, Tick
  <1> QED
    BY <1>2, <1>3, <1>4, <1>5

(* The exit code is decided by Trip and nothing it rests on changes later.  *)
LEMMA CrashLoopStep == Inv /\ [SuperNext]_superVars => CrashLoop'
  <1> SUFFICES ASSUME Inv, [SuperNext]_superVars, exitCode' = 1
               PROVE  /\ phase' \in {"shutdown", "stopped"}
                      /\ \E w \in Workers : UsedUp(granted'[w], now') /\ proc'[w] # "alive"
    BY DEF CrashLoop
  <1>1. CASE exitCode = 1
    <2>1. phase \in {"shutdown", "stopped"}
      BY <1>1 DEF Inv, CrashLoop
    <2>2. PICK w \in Workers : UsedUp(granted[w], now) /\ proc[w] # "alive"
      BY <1>1 DEF Inv, CrashLoop
    <2>3. \/ StopWorker \/ Stop \/ UNCHANGED superVars
          \/ \E v \in Workers : Die(v)
      BY <2>1 DEF SuperNext, VisitWorker, Launch, BeginPass, PassOver, Restart, ScheduleRestart,
                  Trip, Visit, EndPass, CtrlC, Tick
    <2>4. /\ phase' \in {"shutdown", "stopped"}
          /\ granted' = granted /\ now' = now
          /\ proc'[w] # "alive"
      BY <2>1, <2>2, <2>3 DEF StopWorker, Stop, Die, superVars, Inv, Typed
    <2> QED
      BY <2>2, <2>4
  <1>2. CASE exitCode # 1
    <2>1. PICK w \in Workers : Trip(w)
      BY <1>2 DEF SuperNext, VisitWorker, Launch, BeginPass, PassOver, Restart, ScheduleRestart,
                  Visit, EndPass, CtrlC, StopWorker, Stop, Die, Tick, superVars
    <2> DEFINE g == granted[w]
               r == restartTimes[w]
    <2>2. PICK k \in 0 .. Len(r) : PopsLeft(w, k) /\ Loops(w, k)
      BY <2>1 DEF Trip
    <2>3. /\ g \in Seq(Nat) /\ r \in Seq(Nat) /\ now \in Nat
          /\ Window \in Nat /\ MaxRestarts \in Nat \ {0}
          /\ Chronological(g, now) /\ EndOf(r, g, now)
      BY SupervisorAssumption DEF Inv, Typed, Histories
    <2>4. Len(r) - k >= MaxRestarts /\ k < Len(r)
      BY <2>2, <2>3 DEF Loops
    <2>5. now - r[k + 1] <= Window
      BY <2>2, <2>4 DEF PopsLeft
    <2>6. UsedUp(g, now)
      BY <2>3, <2>4, <2>5, TripMeansUsedUp
    <2>7. /\ phase' = "shutdown" /\ now' = now /\ granted' = granted
          /\ proc'[w] = "none"
      BY <2>1 DEF Trip, Inv, Typed
    <2> QED
      BY <2>6, <2>7
  <1> QED
    BY <1>1, <1>2

(* From the shutdown on nothing starts a process, and the loop over the     *)
(* workers leaves those behind it stopped.                                  *)
LEMMA StoppingStep == Inv /\ [SuperNext]_superVars => Stopping'
  <1> SUFFICES ASSUME Inv, [SuperNext]_superVars
               PROVE  Stopping'
    OBVIOUS
  <1> USE SupervisorAssumption DEF Inv, Typed, Stopping, Workers
  <1>1. CASE StopWorker
    BY <1>1 DEF StopWorker
  <1>2. CASE Stop
    BY <1>2 DEF Stop
  <1>3. CASE CtrlC
    BY <1>3 DEF CtrlC
  <1>4. ASSUME NEW w \in Workers, Die(w)
        PROVE  Stopping'
    BY <1>4 DEF Die
  <1>5. ASSUME NEW w \in Workers, Trip(w)
        PROVE  Stopping'
    BY <1>5 DEF Trip
  <1>6. CASE UNCHANGED superVars
    BY <1>6 DEF superVars
  <1>7. ASSUME phase' \notin {"shutdown", "stopped"}
        PROVE  Stopping'
    BY <1>7
  <1>8. \/ StopWorker \/ Stop \/ CtrlC \/ UNCHANGED superVars
        \/ \E w \in Workers : Die(w) \/ Trip(w)
        \/ phase' \notin {"shutdown", "stopped"}
    BY DEF SuperNext, VisitWorker, Launch, BeginPass, PassOver, Restart, ScheduleRestart,
           Visit, EndPass, Tick
  <1> QED
    BY <1>1, <1>2, <1>3, <1>4, <1>5, <1>6, <1>7, <1>8

(* Inv is an inductive invariant of the supervisor.                         *)
THEOREM Invariance == SuperSpec => []Inv
  <1>1. Inv /\ [SuperNext]_superVars => Inv'
    BY TypedStep, HistoriesStep, CrashLoopStep, StoppingStep DEF Inv
  <1> QED
    BY Initially, <1>1, PTL DEF SuperSpec

(* For any limits: MaxRestarts + 1 successive restarts of a worker span     *)
(* more than the window, although restart_times is pruned only when the     *)
(* worker dies (_supervise()).                                              *)
THEOREM RestartsAreRateLimited == SuperSpec => []RestartRate
  <1>1. Inv => RestartRate
    BY DEF Inv, Histories, Spaced, RestartRate
  <1> QED
    BY Invariance, <1>1, PTL

(* An exit code of 1 always means that a worker died with its MaxRestarts   *)
(* last restarts inside the window (the crash-loop guard).                  *)
THEOREM ExitOneMeansCrashLoop == SuperSpec => []GivesUpOnlyOnCrashLoop
  <1>1. Inv => GivesUpOnlyOnCrashLoop
    BY DEF Inv, CrashLoop, UsedUp, GivesUpOnlyOnCrashLoop
  <1> QED
    BY Invariance, <1>1, PTL

(* A supervisor that has stopped has no live worker, whichever way it       *)
(* stopped and whatever the workers did meanwhile (_shutdown()).            *)
THEOREM StoppedMeansStopped == SuperSpec => []NothingLeftRunning
  <1>1. Inv => NothingLeftRunning
    BY DEF Inv, Stopping, NothingLeftRunning
  <1> QED
    BY Invariance, <1>1, PTL
-----------------------------------------------------------------------------
(* Delays.                                                                  *)

LEMMA DelayBounded == ASSUME NEW n \in Nat PROVE Delay(n) \in 0 .. BackoffMax
  <1> DEFINE power == 2 ^ n
  <1>1. power \in Nat
    BY PowerOfTwo
  <1> HIDE DEF power
  <1>2. BackoffBase * power \in Nat /\ BackoffMax \in Nat
    BY <1>1, SupervisorAssumption
  <1>3. Delay(n) = IF BackoffBase * power < BackoffMax THEN BackoffBase * power ELSE BackoffMax
    BY DEF Delay, power
  <1> QED
    BY <1>2, <1>3

LEMMA TypeInit == ASSUME SuperInit PROVE SuperTypeOK
  BY SupervisorAssumption DEF SuperInit, SuperTypeOK, Workers

Scalars ==
    /\ phase \in {"launch", "sweep", "sleep", "shutdown", "stopped"}
    /\ at \in 1 .. N + 1
    /\ clock \in 0 .. MaxTime /\ now \in 0 .. clock
    /\ wakeAt \in 0 .. MaxTime + Interval
    /\ graceful \in BOOLEAN /\ exitCode \in {0, 1}

Processes ==
    /\ proc \in [Workers -> {"none", "alive", "exited"}]
    /\ downSince \in [Workers -> 0 .. MaxTime]

Lists ==
    /\ \A w \in Workers : Len(restartTimes[w]) <= MaxRestarts
    /\ restartTimes \in [Workers -> Seq(0 .. MaxTime)]
    /\ nextStartAt \in [Workers -> 0 .. MaxTime + BackoffMax]
    /\ granted \in [Workers -> Seq(0 .. MaxTime)]

LEMMA TypeParts == SuperTypeOK <=> Scalars /\ Processes /\ Lists
  BY DEF SuperTypeOK, Scalars, Processes, Lists

LEMMA ScalarsStep == ASSUME SuperTypeOK, [SuperNext]_superVars PROVE Scalars'
  <1> USE SupervisorAssumption
  <1>1. Scalars
    BY TypeParts
  <1>2. CASE Launch
    BY <1>1, <1>2 DEF Launch, Workers, Scalars
  <1>3. CASE BeginPass \/ EndPass
    BY <1>1, <1>3 DEF BeginPass, EndPass, Scalars
  <1>4. CASE CtrlC \/ Stop
    BY <1>1, <1>4 DEF CtrlC, Stop, Scalars
  <1>5. CASE StopWorker
    BY <1>1, <1>5 DEF StopWorker, Workers, Scalars
  <1>6. CASE Tick
    BY <1>1, <1>6 DEF Tick, Scalars
  <1>7. CASE UNCHANGED superVars
    BY <1>1, <1>7 DEF superVars, Scalars
  <1>8. ASSUME NEW w \in Workers, VisitWorker(w) \/ Die(w)
        PROVE  Scalars'
    <2>1. CASE PassOver(w) \/ Restart(w) \/ ScheduleRestart(w)
      <3>1. at' = w + 1 /\ UNCHANGED <<phase, clock, now, wakeAt, graceful, exitCode>>
        BY <2>1 DEF PassOver, Restart, ScheduleRestart, Visit
      <3> QED
        BY <1>1, <3>1 DEF Workers, Scalars
    <2>2. CASE Trip(w)
      <3>1. /\ phase' = "shutdown" /\ at' = 1 /\ graceful' = FALSE /\ exitCode' = 1
            /\ UNCHANGED <<clock, now, wakeAt>>
        BY <2>2 DEF Trip
      <3>2. graceful' \in BOOLEAN
        BY <3>1, Zenon
      <3>3. exitCode' \in {0, 1} /\ at' \in 1 .. N + 1
        BY <3>1
      <3> QED
        BY <1>1, <3>1, <3>2, <3>3 DEF Scalars
    <2>3. CASE Die(w)
      BY <1>1, <2>3 DEF Die, Scalars
    <2> QED
      BY <1>8, <2>1, <2>2, <2>3 DEF VisitWorker
  <1> QED
    BY <1>2, <1>3, <1>4, <1>5, <1>6, <1>7, <1>8 DEF SuperNext

LEMMA ProcessesStep == ASSUME SuperTypeOK, [SuperNext]_superVars PROVE Processes'
  <1>1. Processes /\ clock \in 0 .. MaxTime
    BY TypeParts DEF Scalars
  <1>2. CASE Launch \/ StopWorker
    BY <1>1, <1>2 DEF Launch, StopWorker, StartProcess, Processes
  <1>3. CASE BeginPass \/ EndPass \/ CtrlC \/ Stop \/ Tick \/ UNCHANGED superVars
    BY <1>1, <1>3 DEF BeginPass, EndPass, CtrlC, Stop, Tick, superVars, Processes
  <1>4. ASSUME NEW w \in Workers, VisitWorker(w)
        PROVE  Processes'
    BY <1>1, <1>4 DEF VisitWorker, PassOver, Restart, StartProcess, ScheduleRestart, Trip, Processes
  <1>5. ASSUME NEW w \in Workers, Die(w)
        PROVE  Processes'
    BY <1>1, <1>5 DEF Die, Processes
  <1> QED
    BY <1>2, <1>3, <1>4, <1>5 DEF SuperNext

LEMMA SuffixTyped ==
    ASSUME NEW S, NEW r \in Seq(S), NEW k \in 0 .. Len(r)
    PROVE  SubSeq(r, k + 1, Len(r)) \in Seq(S) /\ Len(SubSeq(r, k + 1, Len(r))) = Len(r) - k
  OBVIOUS

(* restart_times never holds more than the guard lets pass, and a backoff   *)
(* never exceeds its maximum.                                               *)
LEMMA ListsStep == ASSUME SuperTypeOK, [SuperNext]_superVars PROVE Lists'
  <1>1. Lists /\ now \in 0 .. MaxTime /\ MaxRestarts \in Nat /\ BackoffMax \in Nat /\ MaxTime \in Nat
    BY TypeParts, SupervisorAssumption DEF Scalars
  <1>2. CASE UNCHANGED <<restartTimes, nextStartAt, granted>>
    BY <1>1, <1>2 DEF Lists
  <1>3. ASSUME NEW w \in Workers, ScheduleRestart(w) \/ Trip(w)
        PROVE  Lists'
    <2> DEFINE r == restartTimes[w]
    <2>1. r \in Seq(0 .. MaxTime) /\ Len(r) \in Nat /\ Len(r) <= MaxRestarts
      BY <1>1 DEF Lists
    <2>2. ASSUME NEW k \in 0 .. Len(r)
          PROVE  Recent(w, k) \in Seq(0 .. MaxTime) /\ Len(Recent(w, k)) = Len(r) - k
      BY <2>1, SuffixTyped DEF Recent
    <2>3. CASE ScheduleRestart(w)
      <3>1. PICK k \in 0 .. Len(r) :
               /\ ~ Loops(w, k)
               /\ restartTimes' = [restartTimes EXCEPT ![w] = Append(Recent(w, k), now)]
               /\ nextStartAt' = [nextStartAt EXCEPT ![w] = now + Backoff(Len(Recent(w, k)))]
        BY <2>3 DEF ScheduleRestart
      <3> DEFINE n == Len(Recent(w, k))
                 q == Append(Recent(w, k), now)
      <3>2. n \in Nat /\ n < MaxRestarts
        BY <1>1, <2>1, <2>2, <3>1 DEF Loops
      <3>3. q \in Seq(0 .. MaxTime) /\ Len(q) <= MaxRestarts
        BY <1>1, <2>2, <3>2
      <3> HIDE DEF q, n
      <3>4. Backoff(n) \in 0 .. BackoffMax
        BY <3>2, DelayBounded DEF Backoff
      <3>5. now + Backoff(n) \in 0 .. MaxTime + BackoffMax
        BY <1>1, <3>4
      <3>6. nextStartAt' \in [Workers -> 0 .. MaxTime + BackoffMax]
        BY <1>1, <3>1, <3>5 DEF n, Lists
      <3>7. restartTimes' \in [Workers -> Seq(0 .. MaxTime)]
            /\ \A v \in Workers : Len(restartTimes'[v]) <= MaxRestarts
        BY <1>1, <3>1, <3>3 DEF q, Lists
      <3>8. granted' \in [Workers -> Seq(0 .. MaxTime)]
        BY <1>1, <2>3 DEF ScheduleRestart, Lists
      <3> QED
        BY <3>6, <3>7, <3>8 DEF Lists
    <2>4. CASE Trip(w)
      <3>1. PICK k \in 0 .. Len(r) : restartTimes' = [restartTimes EXCEPT ![w] = Recent(w, k)]
        BY <2>4 DEF Trip
      <3> DEFINE q == Recent(w, k)
      <3>2. q \in Seq(0 .. MaxTime) /\ Len(q) <= MaxRestarts
        BY <1>1, <2>1, <2>2
      <3> HIDE DEF q
      <3>3. restartTimes' \in [Workers -> Seq(0 .. MaxTime)]
            /\ \A v \in Workers : Len(restartTimes'[v]) <= MaxRestarts
        BY <1>1, <3>1, <3>2 DEF q, Lists
      <3> QED
        BY <1>1, <2>4, <3>3 DEF Trip, Lists
    <2> QED
      BY <1>3, <2>3, <2>4
  <1>4. \/ UNCHANGED <<restartTimes, nextStartAt, granted>>
        \/ \E w \in Workers : ScheduleRestart(w) \/ Trip(w)
    BY DEF SuperNext, superVars, VisitWorker, Launch, BeginPass, PassOver, Restart, EndPass,
           CtrlC, StopWorker, Stop, Die, Tick
  <1> QED
    BY <1>2, <1>3, <1>4

LEMMA TypeStep == ASSUME SuperTypeOK, [SuperNext]_superVars PROVE SuperTypeOK'
  <1>1. Scalars' /\ Processes' /\ Lists'
    BY ScalarsStep, ProcessesStep, ListsStep
  <1> QED
    BY <1>1 DEF SuperTypeOK, Scalars, Processes, Lists

(* The variables of the supervisor have their types, and restart_times      *)
(* never outgrows the guard (_supervise()).                                 *)
THEOREM SuperTypeTheorem == SuperSpec => []SuperTypeOK
  <1>1. SuperInit => SuperTypeOK
    BY TypeInit
  <1>2. SuperTypeOK /\ [SuperNext]_superVars => SuperTypeOK'
    BY TypeStep
  <1> QED
    BY <1>1, <1>2, PTL DEF SuperSpec
-----------------------------------------------------------------------------
(* How long a worker stays down.                                            *)

Round == Interval + Slack

\* The pass under way is past w, or w has been looked at since the last reading.
Lagging(w) == phase = "sleep" \/ w < at

Clocks ==
    /\ phase = "launch" => clock = 0
    /\ phase = "sweep" => now = clock
    /\ phase = "sleep" => clock <= now + Round /\ wakeAt = now + Interval

Launched ==
    phase = "launch" =>
        \A w \in Workers :
            /\ w < at => proc[w] # "none"
            /\ proc[w] = "exited" => downSince[w] = 0

\* An exit is noticed by the next pass, a backoff that is over too.
Waiting(w) ==
    phase \in {"sweep", "sleep"} =>
        /\ proc[w] = "exited" =>
              clock <= downSince[w] + Round /\ (Lagging(w) => now <= downSince[w])
        /\ proc[w] = "none" =>
              /\ nextStartAt[w] <= downSince[w] + Round + BackoffMax
              /\ clock <= nextStartAt[w] + Round
              /\ Lagging(w) => now <= nextStartAt[w]

Pace == Clocks /\ Launched /\ \A w \in Workers : Waiting(w)

LEMMA PaceInit == ASSUME SuperInit PROVE Pace
  BY SupervisorAssumption DEF SuperInit, Pace, Clocks, Launched, Waiting, Workers

LEMMA ClocksStep == ASSUME SuperTypeOK, Pace, [SuperNext]_superVars PROVE Clocks'
  <1>1. /\ clock \in Nat /\ now \in Nat /\ wakeAt \in Nat /\ now <= clock
        /\ Interval \in Nat /\ Slack \in Nat /\ Round = Interval + Slack
    BY SupervisorAssumption DEF SuperTypeOK, Round
  <1>2. Clocks
    BY DEF Pace
  <1>3. CASE BeginPass
    BY <1>1, <1>2, <1>3 DEF BeginPass, Clocks
  <1>4. CASE EndPass
    BY <1>1, <1>2, <1>4 DEF EndPass, Clocks, Round
  <1>5. CASE Tick
    BY <1>1, <1>2, <1>5 DEF Tick, Clocks, Round
  <1>6. CASE Launch \/ CtrlC \/ StopWorker \/ Stop \/ UNCHANGED superVars
    BY <1>1, <1>2, <1>6 DEF Launch, CtrlC, StopWorker, Stop, superVars, Clocks, Round
  <1>7. ASSUME NEW w \in Workers, VisitWorker(w) \/ Die(w)
        PROVE  Clocks'
    BY <1>1, <1>2, <1>7 DEF VisitWorker, PassOver, Restart, ScheduleRestart, Trip, Visit, Die,
                            Clocks, Round
  <1> QED
    BY <1>3, <1>4, <1>5, <1>6, <1>7 DEF SuperNext

LEMMA LaunchedStep == ASSUME SuperTypeOK, Pace, [SuperNext]_superVars PROVE Launched'
  <1>1. Launched /\ Clocks
    BY DEF Pace
  <1>2. proc \in [Workers -> {"none", "alive", "exited"}] /\ downSince \in [Workers -> 0 .. MaxTime]
        /\ at \in 1 .. N + 1
    BY DEF SuperTypeOK
  <1>3. CASE Launch
    <2>1. /\ at \in Workers /\ at' = at + 1 /\ proc' = [proc EXCEPT ![at] = "alive"]
          /\ phase = "launch" /\ downSince' = downSince
      BY <1>3 DEF Launch, StartProcess
    <2>2. ASSUME NEW w \in Workers
          PROVE  /\ w < at' => proc'[w] # "none"
                 /\ proc'[w] = "exited" => downSince'[w] = 0
      <3>1. CASE w = at
        BY <1>2, <2>1, <3>1
      <3>2. CASE w # at
        <4>1. proc'[w] = proc[w] /\ w \in Int /\ at \in Int
          BY <1>2, <2>1, <3>2, SupervisorAssumption DEF Workers
        <4>2. w < at' => w < at
          BY <2>1, <3>2, <4>1
        <4> QED
          BY <1>1, <2>1, <4>1, <4>2 DEF Launched
      <3> QED
        BY <3>1, <3>2
    <2> QED
      BY <2>2 DEF Launched
  <1>4. ASSUME NEW w \in Workers, Die(w)
        PROVE  Launched'
    BY <1>1, <1>2, <1>4 DEF Die, Launched, Clocks
  <1>5. CASE UNCHANGED superVars
    BY <1>1, <1>5 DEF superVars, Launched
  <1>6. CASE phase' # "launch"
    BY <1>6 DEF Launched
  <1>7. Launch \/ UNCHANGED superVars \/ phase' # "launch" \/ \E w \in Workers : Die(w)
    BY DEF SuperNext, VisitWorker, BeginPass, PassOver, Restart, ScheduleRestart, Trip, Visit,
           EndPass, CtrlC, StopWorker, Stop, Tick
  <1> QED
    BY <1>3, <1>4, <1>5, <1>6, <1>7

LEMMA WaitingStep ==
    ASSUME SuperTypeOK, Pace, [SuperNext]_superVars, NEW v \in Workers
    PROVE  Waiting(v)'
  <1>1. /\ clock \in Nat /\ now \in Nat /\ wakeAt \in Nat /\ now <= clock /\ at \in Nat /\ v \in Nat
        /\ downSince[v] \in Nat /\ nextStartAt[v] \in Nat /\ v <= N /\ 1 <= v
        /\ Interval \in Nat /\ Slack \in Nat /\ Round = Interval + Slack /\ Round \in Nat
        /\ BackoffMax \in Nat /\ N \in Nat
        /\ proc \in [Workers -> {"none", "alive", "exited"}]
    BY SupervisorAssumption DEF SuperTypeOK, Round, Workers
  <1>2. Waiting(v) /\ Clocks /\ Launched
    BY DEF Pace
  <1>3. Round' = Round
    BY DEF Round
  <1>4. CASE phase' \notin {"sweep", "sleep"}
    BY <1>4 DEF Waiting
  <1>5. CASE BeginPass
    <2>1. /\ phase' = "sweep" /\ at' = 1 /\ now' = clock
          /\ UNCHANGED <<clock, proc, nextStartAt, downSince>>
      BY <1>5 DEF BeginPass
    <2>2. ~ Lagging(v)'
      BY <1>1, <2>1 DEF Lagging
    <2>3. CASE phase = "launch" /\ at = N + 1
      <3>1. proc[v] # "none" /\ (proc[v] = "exited" => downSince[v] = 0) /\ clock = 0
        BY <1>1, <1>2, <2>3 DEF Launched, Clocks
      <3> QED
        BY <1>1, <1>3, <2>1, <2>2, <3>1 DEF Waiting
    <2>4. CASE phase = "sleep"
      <3>1. clock <= now + Round
        BY <1>2, <2>4 DEF Clocks
      <3> QED
        BY <1>1, <1>2, <1>3, <2>1, <2>2, <2>4, <3>1 DEF Waiting, Lagging
    <2> QED
      BY <1>5, <2>3, <2>4 DEF BeginPass
  <1>6. CASE EndPass
    BY <1>1, <1>2, <1>3, <1>6 DEF EndPass, Waiting, Lagging
  <1>7. CASE Tick
    <2>1. /\ phase = "sleep" /\ phase' = "sleep" /\ clock' = clock + 1 /\ clock' <= now + Round
          /\ UNCHANGED <<now, proc, nextStartAt, downSince>>
      BY <1>1, <1>2, <1>7 DEF Tick, Clocks
    <2> QED
      BY <1>1, <1>2, <1>3, <2>1 DEF Waiting, Lagging
  <1>8. CASE UNCHANGED superVars
    BY <1>2, <1>3, <1>8 DEF superVars, Waiting, Lagging
  <1>9. ASSUME NEW w \in Workers, VisitWorker(w) \/ Die(w)
        PROVE  Waiting(v)'
    <2>1. w \in Nat
      BY SupervisorAssumption DEF Workers
    <2>2. CASE PassOver(w)
      BY <1>1, <1>2, <1>3, <2>1, <2>2 DEF PassOver, Visit, Waiting, Lagging
    <2>3. CASE Restart(w)
      <3>1. /\ phase = "sweep" /\ at = w /\ at' = w + 1 /\ proc' = [proc EXCEPT ![w] = "alive"]
            /\ UNCHANGED <<phase, clock, now, nextStartAt, downSince>>
        BY <2>3 DEF Restart, Visit, StartProcess
      <3>2. CASE v = w
        BY <1>1, <3>1, <3>2 DEF Waiting
      <3>3. CASE v # w
        <4>1. proc'[v] = proc[v] /\ Lagging(v)' = Lagging(v)
          BY <1>1, <2>1, <3>1, <3>3 DEF Lagging
        <4> QED
          BY <1>2, <1>3, <3>1, <4>1 DEF Waiting
      <3> QED
        BY <3>2, <3>3
    <2>4. CASE ScheduleRestart(w)
      <3>1. /\ phase = "sweep" /\ at = w /\ at' = w + 1 /\ proc[w] = "exited"
            /\ proc' = [proc EXCEPT ![w] = "none"]
            /\ UNCHANGED <<phase, clock, now, downSince>>
        BY <2>4 DEF ScheduleRestart, Visit
      <3>2. PICK k \in 0 .. Len(restartTimes[w]) :
               nextStartAt' = [nextStartAt EXCEPT ![w] = now + Backoff(Len(Recent(w, k)))]
        BY <2>4 DEF ScheduleRestart
      <3> DEFINE d == Backoff(Len(Recent(w, k)))
      <3>3. d \in Nat /\ d <= BackoffMax
        <4>1. restartTimes[w] \in Seq(0 .. MaxTime)
          BY DEF SuperTypeOK
        <4>2. Len(Recent(w, k)) \in Nat
          BY <4>1, SuffixTyped DEF Recent
        <4>3. d \in 0 .. BackoffMax
          BY <4>2, DelayBounded DEF Backoff
        <4> HIDE DEF d
        <4> QED
          BY <1>1, <4>3
      <3> HIDE DEF d
      <3>4. nextStartAt \in [Workers -> 0 .. MaxTime + BackoffMax]
        BY DEF SuperTypeOK
      <3>5. CASE v = w
        <4>1. proc'[v] = "none" /\ nextStartAt'[v] = now + d /\ now = clock
          BY <1>1, <1>2, <3>1, <3>2, <3>4, <3>5 DEF d, Clocks
        <4>2. clock <= downSince[v] + Round
          BY <1>2, <3>1, <3>5 DEF Waiting
        <4> QED
          BY <1>1, <1>3, <3>1, <3>3, <4>1, <4>2 DEF Waiting
      <3>6. CASE v # w
        <4>1. proc'[v] = proc[v] /\ nextStartAt'[v] = nextStartAt[v] /\ Lagging(v)' = Lagging(v)
          BY <1>1, <2>1, <3>1, <3>2, <3>4, <3>6 DEF Lagging
        <4> QED
          BY <1>2, <1>3, <3>1, <4>1 DEF Waiting
      <3> QED
        BY <3>5, <3>6
    <2>5. CASE Trip(w)
      BY <1>4, <2>5 DEF Trip
    <2>6. CASE Die(w)
      <3>1. downSince \in [Workers -> 0 .. MaxTime]
        BY DEF SuperTypeOK
      <3>2. CASE v = w
        <4>1. proc'[v] = "exited" /\ downSince'[v] = clock /\ UNCHANGED <<phase, clock, now>>
          BY <1>1, <2>6, <3>1, <3>2 DEF Die
        <4> QED
          BY <1>1, <1>3, <4>1 DEF Waiting
      <3>3. CASE v # w
        <4>1. /\ proc'[v] = proc[v] /\ downSince'[v] = downSince[v]
              /\ UNCHANGED <<phase, at, clock, now, nextStartAt>>
          BY <1>1, <2>6, <3>1, <3>3 DEF Die
        <4> QED
          BY <1>2, <1>3, <4>1 DEF Waiting, Lagging
      <3> QED
        BY <3>2, <3>3
    <2> QED
      BY <1>9, <2>2, <2>3, <2>4, <2>5, <2>6 DEF VisitWorker
  <1>10. \/ phase' \notin {"sweep", "sleep"} \/ BeginPass \/ EndPass \/ Tick \/ UNCHANGED superVars
         \/ \E w \in Workers : VisitWorker(w) \/ Die(w)
    BY DEF SuperNext, Launch, CtrlC, StopWorker, Stop
  <1> QED
    BY <1>4, <1>5, <1>6, <1>7, <1>8, <1>9, <1>10

(* A dead worker is back within its longest backoff and two rounds of the   *)
(* loop, for any number of workers and any sleep that is late by at most    *)
(* Slack (_supervise() and CHECK_INTERVAL_SECONDS).                         *)
THEOREM RestartIsPrompt == SuperSpec => []PromptRestart
  <1>1. SuperInit => SuperTypeOK /\ Pace
    BY TypeInit, PaceInit
  <1>2. SuperTypeOK /\ Pace /\ [SuperNext]_superVars => SuperTypeOK' /\ Pace'
    <2> SUFFICES ASSUME SuperTypeOK, Pace, [SuperNext]_superVars
                 PROVE  SuperTypeOK' /\ Pace'
      OBVIOUS
    <2>1. \A w \in Workers : Waiting(w)'
      BY WaitingStep
    <2> QED
      BY <2>1, TypeStep, ClocksStep, LaunchedStep DEF Pace, Workers
  <1>3. SuperTypeOK /\ Pace => PromptRestart
    <2> SUFFICES ASSUME SuperTypeOK, Pace, NEW w \in Workers, phase \in {"sweep", "sleep"}, proc[w] # "alive"
                 PROVE  clock - downSince[w] <= BackoffMax + 2 * (Interval + Slack)
      BY DEF PromptRestart
    <2>1. /\ clock \in Nat /\ downSince[w] \in Nat /\ nextStartAt[w] \in Nat
          /\ Interval \in Nat /\ Slack \in Nat /\ BackoffMax \in Nat
          /\ proc[w] = "none" \/ proc[w] = "exited"
      BY SupervisorAssumption DEF SuperTypeOK
    <2>2. Waiting(w)
      BY DEF Pace
    <2> QED
      BY <2>1, <2>2 DEF Waiting, Round
  <1> QED
    BY <1>1, <1>2, <1>3, PTL DEF SuperSpec
-----------------------------------------------------------------------------
(* The backoff of a restart.                                                *)

LastOf(g) == g[Len(g)]

\* The restarts of the window before the last one.
EarlierIn(g) == {n \in 1 .. Len(g) - 1 : LastOf(g) - g[n] <= Window}

\* restart_times after the popleft loop holds exactly the restarts of the window.
LEMMA EarlierCount ==
    ASSUME NEW g \in Seq(Nat), NEW q \in Seq(Nat), NEW t \in Nat, Window \in Nat,
           Chronological(g, t), EndOf(q, g, t), Len(q) > 0 => t - q[1] <= Window
    PROVE  Cardinality(EarlierIn(Append(g, t))) = Len(q) /\ LastOf(Append(g, t)) = t
  <1> DEFINE g1 == Append(g, t)
  <1>1. /\ Len(g) \in Nat /\ Len(q) \in Nat /\ Len(g1) = Len(g) + 1 /\ g1[Len(g) + 1] = t
        /\ \A n \in 1 .. Len(g) : g1[n] = g[n] /\ g[n] \in Nat
    OBVIOUS
  <1>2. LastOf(g1) = t
    BY <1>1 DEF LastOf
  <1> HIDE DEF g1
  <1>3. EarlierIn(g1) = {n \in 1 .. Len(g) : t - g[n] <= Window}
    BY <1>1, <1>2 DEF EarlierIn
  <1>4. Len(q) <= Len(g)
    BY DEF EndOf
  <1> DEFINE first == Len(g) - Len(q) + 1
  <1>5. first \in Nat /\ first >= 1
    BY <1>1, <1>4
  <1>6. ASSUME NEW n \in 1 .. Len(g)
        PROVE  t - g[n] <= Window <=> n >= first
    <2>1. n \in Nat /\ g[n] \in Nat
      BY <1>1
    <2>2. CASE n < first
      <3>1. n \in 1 .. Len(g) - Len(q)
        BY <1>1, <1>4, <2>1, <2>2
      <3>2. t - g[n] > Window
        BY <3>1 DEF EndOf
      <3> QED
        BY <2>1, <2>2, <3>2, <1>5
    <2>3. CASE n >= first
      <3>1. Len(q) > 0 /\ first \in 1 .. Len(g)
        BY <1>1, <1>4, <1>5, <2>1, <2>3
      <3>2. 1 \in 1 .. Len(q)
        BY <1>1, <3>1
      <3>3. q[1] = g[first]
        BY <3>2 DEF EndOf
      <3> HIDE DEF first
      <3>4. g[first] <= g[n] /\ g[first] \in Nat
        BY <1>1, <2>3, <3>1 DEF Chronological
      <3>5. t - g[first] <= Window
        BY <3>1, <3>3
      <3>6. t - g[n] <= Window
        BY <2>1, <3>4, <3>5
      <3> QED
        BY <2>3, <3>6
    <2> QED
      BY <1>5, <2>1, <2>2, <2>3
  <1>7. EarlierIn(g1) = first .. Len(g)
    <2> HIDE DEF first
    <2> QED
      BY <1>1, <1>3, <1>5, <1>6
  <1>8. Cardinality(first .. Len(g)) = Len(q)
    <2>1. Len(g) - first + 1 = Len(q) /\ first <= Len(g) + 1
      BY <1>1
    <2> HIDE DEF first
    <2>2. ASSUME NEW a \in Int, NEW b \in Int, a <= b + 1
          PROVE  Cardinality(a .. b) = b - a + 1
      BY <2>2, FS_Interval
    <2>3. first \in Int /\ Len(g) \in Int
      BY <1>1, <1>5
    <2> QED
      BY <2>1, <2>2, <2>3
  <1> QED
    BY <1>2, <1>7, <1>8 DEF g1

\* The restart a worker waits for is as far away as the ones before it ask for.
Scheduled(w) ==
    phase \in {"sweep", "sleep"} /\ proc[w] = "none" =>
        /\ Len(granted[w]) > 0
        /\ nextStartAt[w] = LastOf(granted[w]) + Delay(Cardinality(EarlierIn(granted[w])))

LEMMA ScheduledStep ==
    ASSUME SuperTypeOK, Inv, Pace, [SuperNext]_superVars, NEW v \in Workers, Scheduled(v)
    PROVE  Scheduled(v)'
  <1>1. /\ proc \in [Workers -> {"none", "alive", "exited"}]
        /\ nextStartAt \in [Workers -> 0 .. MaxTime + BackoffMax]
        /\ granted \in [Workers -> Seq(0 .. MaxTime)]
    BY DEF SuperTypeOK
  <1>2. CASE phase' \notin {"sweep", "sleep"}
    BY <1>2 DEF Scheduled
  <1>3. CASE BeginPass \/ EndPass \/ Tick \/ UNCHANGED superVars
    <2>1. UNCHANGED <<proc, nextStartAt, granted>>
      BY <1>3 DEF BeginPass, EndPass, Tick, superVars
    <2>2. proc[v] = "none" /\ phase' \in {"sweep", "sleep"} => phase \in {"sweep", "sleep"}
      <3>1. CASE BeginPass
        <4>1. phase = "launch" => at = N + 1
          BY <3>1 DEF BeginPass
        <4>2. phase = "launch" => v < at
          BY <4>1, SupervisorAssumption DEF Workers
        <4>3. phase = "launch" => proc[v] # "none"
          BY <4>2 DEF Pace, Launched
        <4> QED
          BY <3>1, <4>3 DEF BeginPass
      <3>2. CASE ~ BeginPass
        BY <1>3, <3>2 DEF EndPass, Tick, superVars
      <3> QED
        BY <3>1, <3>2
    <2> QED
      BY <2>1, <2>2 DEF Scheduled, LastOf, EarlierIn, Delay
  <1>4. ASSUME NEW w \in Workers, PassOver(w) \/ Restart(w) \/ Die(w)
        PROVE  Scheduled(v)'
    <2>1. /\ UNCHANGED <<phase, nextStartAt, granted>>
          /\ proc'[v] = proc[v] \/ proc'[v] # "none"
      BY <1>1, <1>4 DEF PassOver, Restart, Die, StartProcess
    <2> QED
      BY <2>1 DEF Scheduled, LastOf, EarlierIn, Delay
  <1>5. ASSUME NEW w \in Workers, ScheduleRestart(w)
        PROVE  Scheduled(v)'
    <2> DEFINE g == granted[w]
               r == restartTimes[w]
    <2>1. PICK k \in 0 .. Len(r) :
             /\ PopsLeft(w, k)
             /\ nextStartAt' = [nextStartAt EXCEPT ![w] = now + Backoff(Len(Recent(w, k)))]
      BY <1>5 DEF ScheduleRestart
    <2>2. /\ phase' = phase /\ proc' = [proc EXCEPT ![w] = "none"]
          /\ granted' = [granted EXCEPT ![w] = Append(g, now)]
      BY <1>5 DEF ScheduleRestart, Visit
    <2>3. CASE v # w
      <3>1. proc'[v] = proc[v] /\ granted'[v] = granted[v] /\ nextStartAt'[v] = nextStartAt[v]
        BY <1>1, <2>1, <2>2, <2>3
      <3> QED
        BY <2>2, <3>1 DEF Scheduled, LastOf, EarlierIn, Delay
    <2>4. CASE v = w
      <3>1. /\ g \in Seq(Nat) /\ r \in Seq(Nat) /\ now \in Nat /\ Window \in Nat
            /\ Chronological(g, now) /\ EndOf(r, g, now)
        BY SupervisorAssumption DEF Inv, Typed, Histories
      <3> DEFINE q == SubSeq(r, k + 1, Len(r))
      <3>2. q \in Seq(Nat) /\ Len(q) = Len(r) - k /\ Len(r) \in Nat
        BY <3>1
      <3>3. EndOf(q, g, now)
        BY <2>1, <3>1, DropKeepsEnd DEF PopsLeft
      <3>4. Len(q) > 0 => now - q[1] <= Window
        <4>1. Len(q) > 0 => q[1] = r[k + 1] /\ k < Len(r)
          BY <3>1, <3>2
        <4> QED
          BY <2>1, <4>1 DEF PopsLeft
      <3>5. q = Recent(w, k)
        BY DEF Recent
      <3> HIDE DEF q, g, r
      <3>6. /\ Cardinality(EarlierIn(Append(g, now))) = Len(q)
            /\ LastOf(Append(g, now)) = now
        BY <3>1, <3>2, <3>3, <3>4, EarlierCount
      <3>7. granted'[v] = Append(g, now) /\ Len(Append(g, now)) > 0
        <4>1. granted'[v] = Append(g, now)
          BY <1>1, <2>2, <2>4 DEF g
        <4>2. Len(Append(g, now)) = Len(g) + 1 /\ Len(g) \in Nat
          BY <3>1
        <4> QED
          BY <4>1, <4>2
      <3>8. nextStartAt'[v] = now + Delay(Len(q))
        BY <1>1, <2>1, <2>4, <3>5 DEF Backoff
      <3>9. /\ LastOf(granted[v])' = LastOf(Append(g, now))
            /\ EarlierIn(granted[v])' = EarlierIn(Append(g, now))
        BY <3>7 DEF LastOf, EarlierIn
      <3>10. Delay(Cardinality(EarlierIn(granted[v])))' = Delay(Len(q))
        BY <3>6, <3>9 DEF Delay
      <3> QED
        BY <3>6, <3>7, <3>8, <3>9, <3>10 DEF Scheduled
    <2> QED
      BY <2>3, <2>4
  <1>6. \/ phase' \notin {"sweep", "sleep"} \/ BeginPass \/ EndPass \/ Tick \/ UNCHANGED superVars
        \/ \E w \in Workers : PassOver(w) \/ Restart(w) \/ Die(w) \/ ScheduleRestart(w)
    BY DEF SuperNext, VisitWorker, Launch, CtrlC, StopWorker, Stop, Trip
  <1> QED
    BY <1>2, <1>3, <1>4, <1>5, <1>6

(* No process is started before its backoff is over, and the backoff doubles *)
(* with every other restart within the window, whatever the loop's period   *)
(* and however many workers there are (_supervise()).                       *)
THEOREM BackoffIsRespected == SuperSpec => BackoffRespected
  <1> DEFINE All == SuperTypeOK /\ Pace /\ Inv /\ \A w \in Workers : Scheduled(w)
             Waited == \A w \in Workers :
                          phase = "sweep" /\ proc[w] = "none" /\ proc'[w] = "alive" =>
                            LET g == granted[w]
                                last == g[Len(g)]
                                earlier == {n \in 1 .. Len(g) - 1 : last - g[n] <= Window}
                            IN  clock - last >= Delay(Cardinality(earlier))
  <1>1. SuperInit => All
    <2> SUFFICES ASSUME SuperInit PROVE All
      OBVIOUS
    <2>1. \A w \in Workers : Scheduled(w)
      BY DEF SuperInit, Scheduled
    <2> QED
      BY <2>1, TypeInit, PaceInit, Initially
  <1>2. All /\ [SuperNext]_superVars => All'
    <2> SUFFICES ASSUME All, [SuperNext]_superVars
                 PROVE  All'
      OBVIOUS
    <2>1. \A w \in Workers : Scheduled(w)' /\ Waiting(w)'
      BY ScheduledStep, WaitingStep
    <2>2. Inv'
      BY TypedStep, HistoriesStep, CrashLoopStep, StoppingStep DEF Inv
    <2> QED
      BY <2>1, <2>2, TypeStep, ClocksStep, LaunchedStep DEF Pace, Workers
  <1>3. ASSUME All, [SuperNext]_superVars
        PROVE  [Waited]_superVars
    <2>1. ASSUME NEW w \in Workers, phase = "sweep", proc[w] = "none", proc'[w] = "alive"
          PROVE  clock - LastOf(granted[w]) >= Delay(Cardinality(EarlierIn(granted[w])))
      <3>1. Restart(w)
        BY <1>3, <2>1 DEF SuperNext, superVars, VisitWorker, Launch, BeginPass, PassOver, Restart, Visit,
                          StartProcess, ScheduleRestart, Trip, EndPass, CtrlC, StopWorker, Stop,
                          Die, Tick, SuperTypeOK
      <3>2. now >= nextStartAt[w] /\ now = clock
        BY <1>3, <2>1, <3>1 DEF Restart, Pace, Clocks
      <3>3. /\ Len(granted[w]) > 0
            /\ nextStartAt[w] = LastOf(granted[w]) + Delay(Cardinality(EarlierIn(granted[w])))
        BY <1>3, <2>1 DEF Scheduled
      <3>4. granted[w] \in Seq(Nat) /\ clock \in Nat
        BY <1>3 DEF Inv, Typed
      <3>5. LastOf(granted[w]) \in Nat
        BY <3>3, <3>4 DEF LastOf
      <3>6. Delay(Cardinality(EarlierIn(granted[w]))) \in Nat
        <4>1. IsFiniteSet(1 .. Len(granted[w]) - 1)
          BY <3>4, FS_Interval
        <4>2. Cardinality(EarlierIn(granted[w])) \in Nat
          BY <4>1, FS_Subset, FS_CardinalityType DEF EarlierIn
        <4>3. Delay(Cardinality(EarlierIn(granted[w]))) \in 0 .. BackoffMax
          BY <4>2, DelayBounded
        <4> QED
          BY <4>3, SupervisorAssumption
      <3> HIDE DEF All
      <3> QED
        BY <3>2, <3>3, <3>4, <3>5, <3>6
    <2>2. Waited
      BY <2>1 DEF LastOf, EarlierIn
    <2> QED
      BY <2>2
  <1> QED
    BY <1>1, <1>2, <1>3, PTL DEF SuperSpec, BackoffRespected
=============================================================================
