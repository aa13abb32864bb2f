------------------------------ MODULE NodeAgent ------------------------------
(***************************************************************************)
(* The node agent: its process (cmd/node-agent) and its three goroutines   *)
(* (internal/agent).  Two of them wait for a ticker and report; the third  *)
(* watches pods, and waits for the next event in a receive that neither    *)
(* the context nor stopCh can interrupt.  It is only the end of the stream *)
(* that gets it out of there, and the stream ends with the context.        *)
(*                                                                         *)
(* What is reported and what the events say is logged and no more, so a    *)
(* report is a step without data and an event is one of a number.          *)
(* A definition X_Y is the mutation Y of X, used by no specification.      *)
(***************************************************************************)
EXTENDS Integers

CONSTANT MaxEvents   \* bound: pod events on their way to the agent

AgentAssumption == MaxEvents \in Nat

Tickers == {"heartbeat", "metrics"}   \* heartbeatLoop and metricsLoop
Loops   == Tickers \cup {"watch"}

VARIABLES
  main,       \* main: "starting", "spawning", "serving", "shutdown", "stopping",
              \* "waiting", "exited"
  status,     \* a.status
  loop,       \* per goroutine: "none", "select", "report" (tickers), "call", "recv",
              \* "handle" (watch), "ended" after wg.Done
  cancelled,  \* ctx is done
  stopped,    \* stopCh is closed
  stream,     \* the watch's connection: "none", "open", "ended", "left" (watcher.Stop)
  events      \* the events that were read from it and not yet received

vars == <<main, status, loop, cancelled, stopped, stream, events>>

Init ==
    /\ main = "starting"
    /\ status = "initializing"
    /\ loop = [l \in Loops |-> "none"]
    /\ cancelled = FALSE /\ stopped = FALSE
    /\ stream = "none" /\ events = 0

\* The process is gone, and its goroutines and connections with it.
Exit ==
    /\ main' = "exited"
    /\ loop' = [l \in Loops |-> IF loop[l] = "none" THEN "none" ELSE "ended"]
    /\ stream' = IF stream = "none" THEN "none" ELSE "left"
    /\ events' = 0
    /\ UNCHANGED <<status, cancelled, stopped>>

-----------------------------------------------------------------------------
(* main, Start and Stop *)

\* No client, or no list of nodes: log.Fatalf.
StartFails == main = "starting" /\ Exit

\* A signal that comes before signal.Notify ends the process as it is.
SignalEarly == main \in {"starting", "spawning"} /\ Exit

Start ==
    /\ main = "starting"
    /\ main' = "spawning"
    /\ UNCHANGED <<status, loop, cancelled, stopped, stream, events>>

\* wg.Add(1) and the go statement, in the order of the code.
Spawn(l) ==
    /\ main = "spawning"
    /\ loop[l] = "none"
    /\ l = "metrics" => loop["heartbeat"] # "none"
    /\ l = "watch" => loop["metrics"] # "none"
    /\ loop' = [loop EXCEPT ![l] = IF l = "watch" THEN "call" ELSE "select"]
    /\ UNCHANGED <<main, status, cancelled, stopped, stream, events>>

Started ==
    /\ main = "spawning"
    /\ \A l \in Loops : loop[l] # "none"
    /\ status' = "running"
    /\ main' = "serving"
    /\ UNCHANGED <<loop, cancelled, stopped, stream, events>>

Signal_NoCancel ==
    /\ main = "serving"
    /\ main' = "shutdown"
    /\ UNCHANGED <<status, loop, cancelled, stopped, stream, events>>

\* <-quit, and cancel().
Signal ==
    /\ main = "serving"
    /\ cancelled' = TRUE
    /\ main' = "shutdown"
    /\ UNCHANGED <<status, loop, stopped, stream, events>>

\* srv.Shutdown returns, after 30 seconds with an error that is logged.
Shutdown ==
    /\ main = "shutdown"
    /\ main' = "stopping"
    /\ UNCHANGED <<status, loop, cancelled, stopped, stream, events>>

StopClose ==
    /\ main = "stopping"
    /\ stopped' = TRUE
    /\ main' = "waiting"
    /\ UNCHANGED <<status, loop, cancelled, stream, events>>

\* The goroutines that wg counts have all called Done.
AllDone_Tickers == \A l \in Tickers : loop[l] = "ended"
AllDone == \A l \in Loops : loop[l] = "ended"

StopDone ==
    /\ main = "waiting" /\ status = "running"
    /\ AllDone
    /\ status' = "stopped"
    /\ UNCHANGED <<main, loop, cancelled, stopped, stream, events>>

Return == main = "waiting" /\ status = "stopped" /\ Exit

-----------------------------------------------------------------------------
(* heartbeatLoop and metricsLoop *)

\* The ticker fires; select may prefer it to a done context.
Tick(l) ==
    /\ loop[l] = "select"
    /\ loop' = [loop EXCEPT ![l] = "report"]
    /\ UNCHANGED <<main, status, cancelled, stopped, stream, events>>

\* sendHeartbeat and recordMetrics: they log what never fails to be collected.
Report(l) ==
    /\ loop[l] = "report"
    /\ loop' = [loop EXCEPT ![l] = "select"]
    /\ UNCHANGED <<main, status, cancelled, stopped, stream, events>>

TickerEnd(l) ==
    /\ loop[l] = "select"
    /\ cancelled \/ stopped
    /\ loop' = [loop EXCEPT ![l] = "ended"]
    /\ UNCHANGED <<main, status, cancelled, stopped, stream, events>>

-----------------------------------------------------------------------------
(* watchPodsLoop *)

WatchOpen ==
    /\ loop["watch"] = "call" /\ ~cancelled
    /\ loop' = [loop EXCEPT !["watch"] = "select"]
    /\ stream' = "open"
    /\ UNCHANGED <<main, status, cancelled, stopped, events>>

\* The call fails, as it must with a done context: the loop is over for good.
WatchFails ==
    /\ loop["watch"] = "call"
    /\ loop' = [loop EXCEPT !["watch"] = "ended"]
    /\ UNCHANGED <<main, status, cancelled, stopped, stream, events>>

WatchLeave_NoWatcherStop ==
    /\ loop' = [loop EXCEPT !["watch"] = "ended"]
    /\ UNCHANGED <<main, status, cancelled, stopped, stream, events>>

\* The deferred watcher.Stop and wg.Done.
WatchLeave ==
    /\ loop' = [loop EXCEPT !["watch"] = "ended"]
    /\ stream' = "left"
    /\ events' = 0
    /\ UNCHANGED <<main, status, cancelled, stopped>>

WatchSelect ==
    /\ loop["watch"] = "select"
    /\ \/ (cancelled \/ stopped) /\ WatchLeave
       \/ /\ ~(cancelled \/ stopped)
          /\ loop' = [loop EXCEPT !["watch"] = "recv"]
          /\ UNCHANGED <<main, status, cancelled, stopped, stream, events>>

WatchReceive ==
    /\ loop["watch"] = "recv" /\ events > 0
    /\ events' = events - 1
    /\ loop' = [loop EXCEPT !["watch"] = "handle"]
    /\ UNCHANGED <<main, status, cancelled, stopped, stream>>

\* The result channel is closed: the loop is over for good.
WatchClosed == loop["watch"] = "recv" /\ events = 0 /\ stream = "ended" /\ WatchLeave

\* handlePodEvent.
WatchHandle ==
    /\ loop["watch"] = "handle"
    /\ loop' = [loop EXCEPT !["watch"] = "select"]
    /\ UNCHANGED <<main, status, cancelled, stopped, stream, events>>

-----------------------------------------------------------------------------
(* The API server and the client library, and the specification *)

PodEvent ==
    /\ stream = "open" /\ events < MaxEvents
    /\ events' = events + 1
    /\ UNCHANGED <<main, status, loop, cancelled, stopped, stream>>

\* The server closes the connection, it breaks or times out, or the client
\* library closes it because the context is done.
StreamEnds ==
    /\ stream = "open"
    /\ stream' = "ended"
    /\ UNCHANGED <<main, status, loop, cancelled, stopped, events>>

Main == (\E l \in Loops : Spawn(l)) \/ Started \/ Shutdown \/ StopClose \/ StopDone \/ Return

Watch == WatchOpen \/ WatchFails \/ WatchSelect \/ WatchReceive \/ WatchClosed \/ WatchHandle

Next ==
    \/ StartFails \/ SignalEarly \/ Start \/ Signal \/ Main
    \/ \E l \in Tickers : Tick(l) \/ Report(l) \/ TickerEnd(l)
    \/ Watch
    \/ PodEvent \/ StreamEnds

Spec == Init /\ [][Next]_vars

\* Goroutines run; a select takes each of its ready cases now and then; and the
\* client library ends a stream whose context is done.  Nobody has to send a
\* signal or an event.
Fairness ==
    /\ WF_vars(Main) /\ WF_vars(Watch)
    /\ \A l \in Tickers : WF_vars(Report(l)) /\ SF_vars(TickerEnd(l))
    /\ WF_vars(cancelled /\ StreamEnds)

FairSpec == Spec /\ Fairness

-----------------------------------------------------------------------------
(* Properties *)

\* Every variable has its type; the stream is the watch loop's, and it is never
\* left open behind a loop that has ended.
TypeOK ==
    /\ main \in {"starting", "spawning", "serving", "shutdown", "stopping", "waiting", "exited"}
    /\ status \in {"initializing", "running", "stopped"}
    /\ \A l \in Tickers : loop[l] \in {"none", "select", "report", "ended"}
    /\ loop["watch"] \in {"none", "call", "select", "recv", "handle", "ended"}
    /\ cancelled \in BOOLEAN /\ stopped \in BOOLEAN
    /\ stream \in {"none", "open", "ended", "left"}
    /\ events \in 0..MaxEvents
    /\ loop["watch"] \in {"none", "call"} => stream = "none"
    /\ loop["watch"] = "ended" => stream \in {"none", "left"}

\* The status the agent shows is true: it is stopped only when each of its three
\* goroutines has ended and left its stream, whichever order they end in, and
\* running only from when they have all been started.
StatusIsTrue ==
    /\ status = "stopped" => /\ \A l \in Loops : loop[l] = "ended"
                             /\ stream \in {"none", "left"}
    /\ status = "running" => \A l \in Loops : loop[l] # "none"

\* After a signal the process ends.  Stop waits for the pod watch, which waits
\* for an event that may never come: that main cancels the context before it
\* calls Stop is what ends it.
ShutdownCompletes == main = "shutdown" ~> main = "exited"
=============================================================================
