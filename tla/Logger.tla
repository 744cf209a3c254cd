------------------------------- MODULE Logger -------------------------------
(***************************************************************************)
(* The LOG_ macros and the one Logger of the process (Logger.h, Logger.cc) *)
(* in front of AsyncLogging, up to the end of the process: a macro sets    *)
(* the level, formats the line with whatever level it then finds, hands it *)
(* to g_output and, for LOG_FATAL, calls exit().                           *)
(*                                                                         *)
(* Every line is logged once, by some thread.  setOutput() comes before    *)
(* the first line, as the usage in AsyncLogging.h:66 has it.  The log is a *)
(* variable of main() or a global one (AsyncLogging.h:64), and only the    *)
(* latter's destructor is run by exit().  A line that comes after the      *)
(* destructor is taken for one that comes after stop().                    *)
(***************************************************************************)
EXTENDS AsyncLogging, FiniteSets

CONSTANTS
  LevelOf,   \* the macro that logs the line
  Threads    \* how many threads log

Levels == {"INFO", "ERROR", "FATAL", "DEBUG"}

ASSUME LevelOfAssumption == LevelOf \in [Lines -> Levels]
ASSUME ThreadsAssumption == Threads \in Nat \ {0}

VARIABLES
  loglevel_,
  global,    \* the log is a global variable
  call,      \* per line: "none", then what its macro does next, then "done"
  process,   \* "runs", "exiting", "ended", or "killed": ended without a flush
  exitBy,    \* the line whose macro called exit(), Null if main() returned
  beside     \* history: the lines logged beside this one, until log() reads the level

loggerVars == <<loglevel_, global, call, process, exitBy, beside>>
allVars == <<vars, loggerVars>>

LoggerInit ==
  /\ Init
  /\ loglevel_ = "INFO"   \* not initialised in the code, set before it is read
  /\ global \in BOOLEAN
  /\ call = [line \in Lines |-> "none"]
  /\ process = "runs" /\ exitBy = Null
  /\ beside = [line \in Lines |-> {}]

Logged == {line \in Lines : call[line] = "log"}

Goes(line, from, to) ==
  /\ process \in {"runs", "exiting"} /\ ~crashed
  /\ call[line] = from /\ call' = [call EXCEPT ![line] = to]

-----------------------------------------------------------------------------
(* LOG_INFO, LOG_ERROR, LOG_FATAL, LOG_DEBUG, on any thread.               *)

LogAt(line, newLevel) ==
  /\ Cardinality({l \in Lines : call[l] \notin {"none", "done"}}) < Threads
  /\ Goes(line, "none", "log")
  /\ loglevel_' = newLevel
  /\ beside' = [l \in Lines |-> IF l = line THEN Logged
                                ELSE IF l \in Logged THEN beside[l] \cup {line} ELSE {}]
  /\ UNCHANGED <<vars, global, process, exitBy>>

\* Mutant: the level only ever rises.
SetHigherLevel(line) == LogAt(line, IF loglevel_ = "INFO" THEN LevelOf[line] ELSE loglevel_)

SetLogLevel(line) == LogAt(line, LevelOf[line])

\* log(): the level is read, then g_output called, and g_flush, which stays
\* the default and flushes nothing of the log.
Log(line) ==
  /\ Goes(line, "log", IF LevelOf[line] = "FATAL" THEN "exit" ELSE "done")
  /\ AppendLog(line) \/ AppendToNull(line)
  /\ beside' = [beside EXCEPT ![line] = {}]
  /\ UNCHANGED <<loglevel_, global, process, exitBy>>

-----------------------------------------------------------------------------
(* main() and the end of the process.                                      *)

Main == process = "runs" /\ ~crashed

\* ~AsyncLogging of a global log, in exit(): stop(), if the log is running.
\* When somebody is in stop() already, the thread that is not joined yet ends
\* the process.
Exit(by) ==
  /\ Main /\ exitBy' = by
  /\ IF global /\ running_ THEN process' = "exiting" /\ Stop
     ELSE process' = "killed" /\ UNCHANGED vars
  /\ UNCHANGED <<loglevel_, global, call, beside>>

\* A second thread that gets here while the first is in exit() stays there.
FatalExits(line) == call[line] = "exit" /\ Exit(line)

\* A log of main()'s own has been destroyed, and so stopped, by then.
MainReturns ==
  /\ stopper \in {"idle", "returned"} /\ (global \/ ~running_)
  /\ Exit(Null)

ExitEnds ==
  /\ process = "exiting" /\ stopper = "returned" /\ process' = "ended"
  /\ UNCHANGED <<vars, loglevel_, global, call, exitBy, beside>>

\* stop() by the user or by the destructor of a log in main().
MainStops == Main /\ Stop /\ UNCHANGED loggerVars

\* The log's threads go on until the process has ended.
LogRuns(A) == process \in {"runs", "exiting"} /\ A /\ UNCHANGED loggerVars

-----------------------------------------------------------------------------
LoggerNext ==
  \/ \E line \in Lines : SetLogLevel(line) \/ Log(line) \/ FatalExits(line)
  \/ MainStops \/ MainReturns \/ ExitEnds
  \/ LogRuns(Main /\ Start) \/ LogRuns(StopNotifies \/ StopReturns)
  \/ LogRuns(BackEnd) \/ LogRuns(TakeTimedOut)

\* As in AsyncLogging; and exit() goes on.
LoggerSpec ==
  /\ LoggerInit /\ [][LoggerNext]_allVars
  /\ WF_allVars(LogRuns(BackEnd)) /\ WF_allVars(LogRuns(TakeTimedOut))
  /\ WF_allVars(LogRuns(StopNotifies \/ StopReturns)) /\ WF_allVars(ExitEnds)

-----------------------------------------------------------------------------
(* Properties.                                                             *)

\* The level is shared and unguarded: the level a line is printed with is its
\* own or that of a line that was being logged at the same time, never a
\* stale one.
LevelIsCurrent ==
  [][\A line \in Lines :
       call[line] = "log" /\ call'[line] # "log" =>
         \E other \in beside[line] \cup {line} : loglevel_ = LevelOf[other]]_allVars

\* The line of LOG_FATAL is in the file (if it had room in any buffer) when
\* exit() has ended with the log's thread running: the destructor's stop()
\* flushes it, whatever the other threads log meanwhile.
LastWordsAreKept ==
  process = "ended" /\ exitBy # Null => exitBy \in Range(file) \cup dropped

\* A line logged while the back-end runs is written, also if no buffer fills,
\* unless the process ends without a flush.
EveryLineWritten ==
  \A line \in Lines :
    (line \in Range(logged) /\ running_) ~> (line \in Range(file) \/ crashed \/ process = "killed")

\* stop() returns, whether the user or exit() has called it, also if its
\* notify finds nobody waiting.
StopEnds == stopper = "notify" ~> (stopper = "returned" \/ crashed \/ process = "killed")

=============================================================================
