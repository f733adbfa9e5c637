----------------------------- MODULE Watchdogs -----------------------------
(***************************************************************************)
(* The watchdogs of one VehicleContext, as operators on their records: the *)
(* three timer-driven ones of internal/controlserver/safety/detector.go    *)
(* and the two pollers, safety/auth_watchdog.go and                        *)
(* telemetrycheck/watchdog.go.  Every Go method holds the watchdog's mutex *)
(* and is one operator here.                                               *)
(*                                                                         *)
(* time.Timer.Stop does not wait for a callback that was already started:  *)
(* a timer that elapsed leaves a callback behind (expired) that runs when  *)
(* it gets the mutex, whatever happened to the watchdog in between.        *)
(***************************************************************************)
EXTENDS Naturals, FiniteSets

CONSTANT MaxLate  \* bound: elapsed callbacks, or lost timers, of one watchdog

ASSUME LateAssumption == MaxLate \in Nat

(* time.AfterFunc *)

\* timer    the *time.Timer field: nil, running, or elapsed / stopped
\* orphans  running timers the field no longer points to
\* expired  callbacks started by the runtime that have not taken the mutex
Watchdog ==
  [stopped : BOOLEAN, timer : {"nil", "running", "idle"},
   orphans : 0..MaxLate, expired : 0..MaxLate]

NewWatchdog(stopped) ==
  [stopped |-> stopped, timer |-> "nil", orphans |-> 0, expired |-> 0]

CanElapse(w) ==
  \/ w.timer = "running" /\ w.orphans + w.expired < MaxLate
  \/ w.orphans > 0

\* The runtime starts the callback of an elapsed timer.
Elapse(w) ==
  IF w.orphans > 0
  THEN [w EXCEPT !.orphans = @ - 1, !.expired = @ + 1]
  ELSE [w EXCEPT !.timer = "idle", !.expired = @ + 1]

\* The callbacks of ACKTimeoutWatcher and VehicleACKWatchdog forget
\* pendingTimer, even when it is a newer timer than the one that elapsed.
forgetTimer(w) ==
  [w EXCEPT !.timer = "nil",
            !.orphans = IF w.timer = "running" THEN @ + 1 ELSE @]

-----------------------------------------------------------------------------
(* DeadmanWatchdog.  armed is true exactly when timer # nil. *)

NewDeadmanWatchdog == NewWatchdog(FALSE)

DeadmanStart(w) == [w EXCEPT !.stopped = FALSE, !.timer = "nil"]

DeadmanReset(w) == IF w.stopped THEN w ELSE [w EXCEPT !.timer = "running"]

DeadmanStop(w) ==
  [w EXCEPT !.stopped = TRUE, !.timer = IF @ = "running" THEN "idle" ELSE @]

\* The locked part of fire; a stopped watchdog's callback returns at once.
DeadmanFire(w) == [w EXCEPT !.stopped = TRUE, !.expired = @ - 1]

-----------------------------------------------------------------------------
(* ACKTimeoutWatcher: it has no stopped flag. *)

NewACKTimeoutWatcher == NewWatchdog(FALSE)

CommandReceived(w) == [w EXCEPT !.timer = "running"]

CommandACKed(w) == [w EXCEPT !.timer = "nil"]

ACKFire(w) == [forgetTimer(w) EXCEPT !.expired = @ - 1]

-----------------------------------------------------------------------------
(* VehicleACKWatchdog *)

NewVehicleACKWatchdog == NewWatchdog(TRUE)

VehicleACKStart(w) == [w EXCEPT !.stopped = FALSE, !.timer = "nil"]

VehicleACKStop(w) == [w EXCEPT !.stopped = TRUE, !.timer = "nil"]

CommandForwarded(w) == IF w.stopped THEN w ELSE [w EXCEPT !.timer = "running"]

ACKReceived(w) == [w EXCEPT !.timer = "nil"]

VehicleACKFire(w) ==
  IF w.stopped THEN [w EXCEPT !.expired = @ - 1]
  ELSE [forgetTimer(w) EXCEPT !.stopped = TRUE, !.expired = @ - 1]

-----------------------------------------------------------------------------
(* AuthWatchdog and TelemetryWatchdog: one polling goroutine per Start,    *)
(* cancelled by the next Start or by Stop.  A cancelled goroutine that is  *)
(* past its select still finishes the check it is in.                      *)

FailThreshold == 2  \* DefaultAuthFailThreshold, DefaultTelemetryFailThreshold

\* wait      in the select        checking  the remote check is under way
\* good/bad  the check's verdict is about to be reported to the machine
Phase == {"ended", "wait", "checking", "good", "bad"}

Ended == [account |-> "", failures |-> 0, phase |-> "ended"]

NewRun(account) == [account |-> account, failures |-> 0, phase |-> "wait"]

NewPoller == [run |-> Ended, late |-> {}]

Cancelled(p) == IF p.run.phase = "ended" THEN p.late ELSE p.late \cup {p.run}

PollerStart(p, account) == [run |-> NewRun(account), late |-> Cancelled(p)]

PollerStop(p) == [run |-> Ended, late |-> Cancelled(p)]

\* What one turn of the loop makes of a check: active (or fresh) resets the
\* count, anything else counts, an error or a cancelled context too.
CheckPassed(r, next) == [r EXCEPT !.failures = 0, !.phase = next]

\* Fault: a failed check is logged and not counted.
CheckFailedUncounted(r) == [r EXCEPT !.phase = "wait"]

CheckFailed(r) ==
  IF r.failures + 1 >= FailThreshold
  THEN [r EXCEPT !.failures = 0, !.phase = "bad"]
  ELSE [r EXCEPT !.failures = @ + 1, !.phase = "wait"]
=============================================================================
