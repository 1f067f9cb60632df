---------------------------- MODULE SignalTimers ----------------------------
(***************************************************************************)
(* chapter_2: signal/sig_catch.cpp ("catch"), signal/setitimer.cpp          *)
(* ("itimer"), signal/alarm.cpp ("alarm"), deamon/deamon.cpp ("daemon") and *)
(* signal/sig_set.cpp ("mask"): one process each, which a timer or a        *)
(* keyboard sends signals whose default action ends it.                     *)
(*                                                                          *)
(* Time passes in ticks of a second, any number of them between two         *)
(* statements of the set-up: the programs bound nothing. Only the count of  *)
(* them stops at MaxDelay, which stands for as many and for more.           *)
(***************************************************************************)
EXTENDS Integers

CONSTANTS
  MaxDelay,      \* where the count of the ticks between two statements stops
  UnblockRound   \* the value of time at which sig_set.cpp unblocks: 10

ASSUME TimersAssumption == MaxDelay \in Nat /\ MaxDelay >= 2 /\ UnblockRound \in Nat

VARIABLES
  signalKind,    \* which program runs
  statement,     \* the statements of the set-up done: 0, 1, or 2, the loop
  alarmCaught,   \* a handler is installed for SIGALRM
  dueIn,         \* the ticks until the timer expires, 0 without a timer
  delay,         \* the ticks since the last statement of the set-up, MaxDelay for more
  blocked,       \* SIGINT is blocked
  pendingInt,    \* SIGINT is pending
  rounds,        \* time, the rounds of the loop of sig_set.cpp
  killedBy       \* "nothing", or the signal that ended the process

timerVars ==
  <<signalKind, statement, alarmCaught, dueIn, delay, blocked, pendingInt, rounds, killedBy>>

TimerTypeOK ==
  /\ signalKind \in {"catch", "itimer", "alarm", "daemon", "mask"}
  /\ statement \in 0..2
  /\ alarmCaught \in BOOLEAN /\ blocked \in BOOLEAN /\ pendingInt \in BOOLEAN
  /\ dueIn \in 0..3
  /\ delay \in 0..MaxDelay
  /\ rounds \in 0..UnblockRound + 1
  /\ killedBy \in {"nothing", "SIGALRM", "SIGINT"}

TimerInit ==
  /\ signalKind \in {"catch", "itimer", "alarm", "daemon", "mask"}
  /\ statement = 0
  /\ alarmCaught = FALSE /\ blocked = FALSE /\ pendingInt = FALSE
  /\ dueIn = 0 /\ delay = 0 /\ rounds = 0
  /\ killedBy = "nothing"

Alive == killedBy = "nothing"

(* The first of two statements, and the last one, which the loop follows.   *)
Done(s) == Alive /\ statement' = s /\ delay' = 0 /\ UNCHANGED <<signalKind, rounds, killedBy, pendingInt>>

CatchAlarm ==
  /\ \/ signalKind = "catch" /\ statement = 0 /\ Done(1)
     \/ signalKind = "daemon" /\ statement = 1 /\ Done(2)
  /\ alarmCaught' = TRUE
  /\ UNCHANGED <<dueIn, blocked>>

(* Mutant: the daemon's it_value is left at one second.                     *)
DueSooner(kind) == IF kind \in {"catch", "itimer"} THEN 3 ELSE 1

(* it_value, or the argument of alarm().                                    *)
FirstDue(kind) ==
  IF kind \in {"catch", "itimer"} THEN 3 ELSE IF kind = "daemon" THEN 2 ELSE 1

StartTimer ==
  /\ \/ signalKind = "catch" /\ statement = 1 /\ Done(2)
     \/ signalKind = "daemon" /\ statement = 0 /\ Done(1)
     \/ signalKind \in {"itimer", "alarm"} /\ statement = 0 /\ Done(2)
  /\ dueIn' = FirstDue(signalKind)
  /\ UNCHANGED <<alarmCaught, blocked>>

(* A second passes. The timer starts again with it_interval, alarm() does   *)
(* not.                                                                     *)
Tick ==
  /\ Alive /\ signalKind # "mask"
  /\ delay' = IF statement = 2 THEN 0 ELSE IF delay < MaxDelay THEN delay + 1 ELSE MaxDelay
  /\ dueIn' = IF dueIn = 1 /\ signalKind # "alarm" THEN 2 ELSE IF dueIn > 0 THEN dueIn - 1 ELSE 0
  /\ killedBy' = IF dueIn = 1 /\ ~alarmCaught THEN "SIGALRM" ELSE "nothing"
  /\ UNCHANGED <<signalKind, statement, alarmCaught, blocked, pendingInt, rounds>>

-----------------------------------------------------------------------------
(* sig_set.cpp                                                              *)

BlockInterrupt ==
  /\ signalKind = "mask" /\ statement = 0 /\ Done(2)
  /\ blocked' = TRUE
  /\ UNCHANGED <<alarmCaught, dueIn>>

(* Somebody types ^C. A blocked signal is kept, once.                       *)
Interrupt ==
  /\ signalKind = "mask" /\ Alive
  /\ IF blocked
       THEN pendingInt' = TRUE /\ UNCHANGED killedBy
       ELSE killedBy' = "SIGINT" /\ UNCHANGED pendingInt
  /\ UNCHANGED <<signalKind, statement, alarmCaught, dueIn, delay, blocked, rounds>>

(* One round of the loop; after round UnblockRound all are alike.           *)
MaskRound ==
  /\ signalKind = "mask" /\ Alive /\ statement = 2 /\ rounds <= UnblockRound
  /\ blocked' = (blocked /\ rounds # UnblockRound)
  /\ killedBy' = IF pendingInt /\ ~blocked' THEN "SIGINT" ELSE "nothing"
  /\ rounds' = rounds + 1
  /\ UNCHANGED <<signalKind, statement, alarmCaught, dueIn, delay, pendingInt>>

TimerNext == CatchAlarm \/ StartTimer \/ Tick \/ BlockInterrupt \/ Interrupt \/ MaskRound

TimerSpec == TimerInit /\ [][TimerNext]_timerVars

-----------------------------------------------------------------------------
(* What is to be shown.                                                     *)

(* A process with a handler survives its timer, but for deamon.cpp, which   *)
(* starts the timer of two seconds (line 68) before it installs the handler *)
(* (line 76): it dies if, and only if, two seconds pass between the two.    *)
(* setitimer.cpp and alarm.cpp have no handler. sig_set.cpp dies of ^C      *)
(* before it blocks the signal or after the whole of its round number       *)
(* UnblockRound, and a signal kept until then is not forgotten.             *)
SignalsKillInTime ==
  /\ killedBy = "SIGALRM" => signalKind \in {"itimer", "alarm", "daemon"}
  /\ signalKind = "daemon" => (killedBy = "SIGALRM" <=> statement = 1 /\ delay >= 2)
  /\ killedBy = "SIGINT" => statement = 0 \/ rounds = UnblockRound + 1
  /\ pendingInt /\ Alive => blocked
=============================================================================
