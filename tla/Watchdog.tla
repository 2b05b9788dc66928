------------------------------ MODULE Watchdog ------------------------------
(***************************************************************************)
(* byteveil_cli.cpp: the decompile route of main and the DecompileWatchdog  *)
(* thread that bounds it, within the command line's run of module Cli.  The *)
(* main thread constructs the watchdog, decompiles (for as long as it       *)
(* likes, possibly for ever), stops the watchdog - explicitly, and again in *)
(* the destructor - and goes on to write the result.  The worker waits on a *)
(* condition variable with a deadline, and ends the process when the        *)
(* deadline finds "stopped" still false.                                    *)
(***************************************************************************)
EXTENDS Cli

CONSTANT MaxSpurious     \* bound on spurious wake-ups of the condition variable

ASSUME MaxSpuriousAssumption == MaxSpurious \in Nat

VARIABLES
    mpc,        \* where the main thread is
    after,      \* where it goes on when stop() returns
    decompiled, \* what decompile() did
    wpc,        \* where the worker is
    mutex,      \* who holds the mutex
    stopped,
    expired,    \* the deadline of wait_for has passed
    spurious    \* spurious wake-ups so far

threadVars == <<mpc, after, decompiled, wpc, mutex, stopped, expired, spurious>>
driverVars == <<cliVars, threadVars>>

DriverInit ==
    /\ CliInit
    /\ mpc = "construct"
    /\ after = "none"
    /\ decompiled = "none"
    /\ wpc = "absent"
    /\ mutex = "free"
    /\ stopped = FALSE
    /\ expired = FALSE
    /\ spurious = 0

-----------------------------------------------------------------------------
(* The main thread. *)

(* Mutant: the worker is not started. *)
ConstructIdle ==
    /\ Bounded
    /\ mpc = "construct"
    /\ mpc' = "decompile"
    /\ UNCHANGED <<cliVars, after, decompiled, wpc, mutex, stopped, expired, spurious>>

Construct ==
    /\ Bounded
    /\ mpc = "construct"
    /\ mpc' = "decompile"
    /\ wpc' = IF o.timeoutSec > 0 THEN "start" ELSE "absent"
    /\ UNCHANGED <<cliVars, after, decompiled, mutex, stopped, expired, spurious>>

(* Mutant: the answer is written while the watchdog is still running. *)
DecompiledUnstopped(r) ==
    /\ code = Running
    /\ mpc = "decompile"
    /\ decompiled' = r
    /\ mpc' = IF r = "source" THEN "write" ELSE "lock"
    /\ after' = "fail"
    /\ UNCHANGED <<cliVars, wpc, mutex, stopped, expired, spurious>>

(* decompile() returns source, nothing or an error text, or throws; a throw *)
(* is caught and the destructor stops the watchdog on the way out.          *)
Decompiled(r) ==
    /\ code = Running
    /\ mpc = "decompile"
    /\ decompiled' = r
    /\ mpc' = "lock"
    /\ after' = IF r = "exception" THEN "fail" ELSE "check"
    /\ UNCHANGED <<cliVars, wpc, mutex, stopped, expired, spurious>>

StopLock ==
    /\ code = Running
    /\ mpc = "lock"
    /\ mutex = "free"
    /\ mutex' = "main"
    /\ mpc' = "set"
    /\ UNCHANGED <<cliVars, after, decompiled, wpc, stopped, expired, spurious>>

StopSet ==
    /\ code = Running
    /\ mpc = "set"
    /\ stopped' = TRUE
    /\ mutex' = "free"
    /\ mpc' = "notify"
    /\ UNCHANGED <<cliVars, after, decompiled, wpc, expired, spurious>>

(* Mutant: the worker is not notified. *)
StopNotifyNot ==
    /\ code = Running
    /\ mpc = "notify"
    /\ mpc' = "join"
    /\ UNCHANGED <<cliVars, after, decompiled, wpc, mutex, stopped, expired, spurious>>

(* notify_one wakes the worker if it is waiting, and is lost otherwise. *)
StopNotify ==
    /\ code = Running
    /\ mpc = "notify"
    /\ wpc' = IF wpc = "waiting" THEN "woken" ELSE wpc
    /\ mpc' = "join"
    /\ UNCHANGED <<cliVars, after, decompiled, mutex, stopped, expired, spurious>>

StopJoin ==
    /\ code = Running
    /\ mpc = "join"
    /\ wpc \in {"absent", "finished"}
    /\ mpc' = after
    /\ UNCHANGED <<cliVars, after, decompiled, wpc, mutex, stopped, expired, spurious>>

(* After the explicit stop the result is looked at; either way the scope    *)
(* ends and the destructor calls stop() once more.                          *)
CheckResult ==
    /\ code = Running
    /\ mpc = "check"
    /\ after' = IF decompiled = "source" THEN "write" ELSE "fail"
    /\ mpc' = "lock"
    /\ UNCHANGED <<cliVars, decompiled, wpc, mutex, stopped, expired, spurious>>

Unbound == UNCHANGED <<content, args, o, reader, files>>

Fail ==
    /\ code = Running
    /\ mpc = "fail"
    /\ Exit(1)
    /\ Unbound
    /\ UNCHANGED threadVars

(* The scope is over, and main goes on to write the answer. *)
Leave ==
    /\ code = Running
    /\ mpc = "write"
    /\ mpc' = "left"
    /\ pc' = "output"
    /\ Unbound
    /\ UNCHANGED <<code, after, decompiled, wpc, mutex, stopped, expired, spurious>>

-----------------------------------------------------------------------------
(* The worker thread. *)

WorkerLock ==
    /\ code = Running
    /\ wpc = "start"
    /\ mutex = "free"
    /\ mutex' = "worker"
    /\ wpc' = "test"
    /\ UNCHANGED <<cliVars, mpc, after, decompiled, stopped, expired, spurious>>

(* wait_for tests the predicate before it waits: waiting releases the mutex *)
(* in the same step.                                                        *)
WorkerTest ==
    /\ code = Running
    /\ wpc = "test"
    /\ wpc' = IF stopped THEN "finished" ELSE "waiting"
    /\ mutex' = "free"
    /\ UNCHANGED <<cliVars, mpc, after, decompiled, stopped, expired, spurious>>

(* The deadline of wait_for passes; the worker may be anywhere in it. *)
Expire ==
    /\ code = Running
    /\ wpc \in {"test", "waiting", "woken"}
    /\ ~ expired
    /\ expired' = TRUE
    /\ UNCHANGED <<cliVars, mpc, after, decompiled, wpc, mutex, stopped, spurious>>

WorkerTimeout ==
    /\ code = Running
    /\ wpc = "waiting"
    /\ expired
    /\ wpc' = "woken"
    /\ UNCHANGED <<cliVars, mpc, after, decompiled, mutex, stopped, expired, spurious>>

WorkerSpurious ==
    /\ code = Running
    /\ wpc = "waiting"
    /\ spurious < MaxSpurious
    /\ spurious' = spurious + 1
    /\ wpc' = "woken"
    /\ UNCHANGED <<cliVars, mpc, after, decompiled, mutex, stopped, expired>>

(* Mutant: a deadline that has passed counts, whatever the predicate says. *)
WorkerRelockDeadline ==
    /\ code = Running
    /\ wpc = "woken"
    /\ mutex = "free"
    /\ wpc' = IF expired THEN "kill" ELSE "test"
    /\ mutex' = "worker"
    /\ UNCHANGED <<cliVars, mpc, after, decompiled, stopped, expired, spurious>>

(* The worker takes the mutex back.  Past the deadline wait_for returns the *)
(* predicate; before it, it goes round its loop.                            *)
WorkerRelock ==
    /\ code = Running
    /\ wpc = "woken"
    /\ mutex = "free"
    /\ \/ /\ expired /\ stopped
          /\ wpc' = "finished"
          /\ UNCHANGED mutex
       \/ /\ expired /\ ~ stopped
          /\ wpc' = "kill"
          /\ mutex' = "worker"
       \/ /\ ~ expired
          /\ wpc' = "test"
          /\ mutex' = "worker"
    /\ UNCHANGED <<cliVars, mpc, after, decompiled, stopped, expired, spurious>>

(* The diagnostic is printed and the process ends, the mutex still held. *)
WorkerKill ==
    /\ code = Running
    /\ wpc = "kill"
    /\ Exit(124)
    /\ Unbound
    /\ UNCHANGED threadVars

(* The process has ended. *)
ProcessEnded == code # Running /\ UNCHANGED driverVars

Stop == StopLock \/ StopSet \/ StopNotify \/ StopJoin
Guarded == Construct \/ Stop \/ CheckResult \/ Fail \/ Leave
Worker == WorkerLock \/ WorkerTest \/ WorkerTimeout \/ WorkerRelock \/ WorkerKill

Results == {"source", "error", "exception"}

DriverNext ==
    \/ CliNext /\ UNCHANGED threadVars
    \/ Guarded
    \/ \E r \in Results : Decompiled(r)
    \/ Worker \/ WorkerSpurious \/ Expire
    \/ ProcessEnded

DriverSpec == DriverInit /\ [][DriverNext]_driverVars

(* What main does on its own. *)
Main == \/ (Route \/ Output) /\ UNCHANGED threadVars
        \/ Guarded

(* Both threads are scheduled.  decompile() need not return, nor any other  *)
(* decoder, and the limit may be far away.                                  *)
FairSpec == DriverSpec /\ WF_driverVars(Main) /\ WF_driverVars(Worker)

-----------------------------------------------------------------------------
WatchdogTypeOK ==
    /\ mpc \in {"construct", "decompile", "lock", "set", "notify", "join",
                "check", "fail", "write", "left"}
    /\ after \in {"none", "check", "fail", "write"}
    /\ decompiled \in Results \cup {"none"}
    /\ wpc \in {"absent", "start", "test", "waiting", "woken", "kill", "finished"}
    /\ mutex \in {"free", "main", "worker"}
    /\ stopped \in BOOLEAN
    /\ expired \in BOOLEAN
    /\ spurious \in 0 .. MaxSpurious

(* Once stop() has set the flag the watchdog cannot end the process any     *)
(* more, wherever the deadline catches it: the timeout exit and the stop    *)
(* exclude each other.                                                      *)
StopWins == stopped => wpc # "kill" /\ code # 124

(* A process that ends with 124 has written nothing, and one that writes    *)
(* has no live watchdog behind it.                                          *)
NoOutputOnTimeout ==
    /\ code = 124 => files = <<"none", "none", "none">>
    /\ files # <<"none", "none", "none">> => wpc \in {"absent", "finished"}

(* How a run looks to the user: whether a time limit is running, and what   *)
(* has become of the answer.                                                *)
limited == mpc # "construct" /\ o.timeoutSec > 0
answer == IF stdout # "none" \/ outFile \in Written THEN "handed"
          ELSE IF outFile = "failed" THEN "begun" ELSE "none"

Promise == INSTANCE BoundedRun WITH limited <- limited, output <- answer, code <- code

(* The program takes only steps of the bounded run it promises, on every    *)
(* route: one exit, with an answer, an error or a timeout, in that order of *)
(* output and exit.                                                         *)
KeepsPromise == Promise!SafeSpec

(* When time passes, a run with a limit ends, even if decompile() does not. *)
EndsInTime == WF_driverVars(Expire) => Promise!Ends

(* stop() returns without the help of the deadline: its wake-up is not      *)
(* lost, wherever the worker is between its test and its wait.  (It does    *)
(* not return if the deadline happens to end the process first.)            *)
StopReturns == (mpc = "lock") ~> (mpc \in {"check", "fail", "write"} \/ code = 124)
=============================================================================
