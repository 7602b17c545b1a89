-------------------------- MODULE SupervisedClient --------------------------
(***************************************************************************)
(* The tunnel client under the desktop GUI: run_supervised with its        *)
(* back-off and its CancelToken, the event channel to the GUI thread, and  *)
(* the GUI's start, stop, exit and pump_events.  Each press of "connect"   *)
(* makes a run of its own: a runtime, a task, a token and a channel.       *)
(*                                                                         *)
(* The GUI thread and the runtime's threads interleave between any two     *)
(* accesses of the token: cancel() stores the flag, then notifies whoever  *)
(* waits; cancelled() loads the flag, then creates the Notified future.    *)
(* What run_once does on the wire is one of three outcomes here (no tunnel,*)
(* tunnel up, tunnel closed); log lines are left out.                      *)
(***************************************************************************)
EXTENDS Naturals, Sequences, FiniteSets

CONSTANTS Runs,         \* one per press of "connect"
          MaxAttempts,  \* bound: connection attempts of a run
          TopLevel,     \* doublings of the back-off until MAX_BACKOFF (6: 0.5 s to 30 s)
          None

ASSUME TopLevelAssumption == TopLevel \in Nat \ {0}
ASSUME MaxAttemptsAssumption == MaxAttempts \in Nat
ASSUME NoneAssumption == None \notin Runs

ConnState == {"Connecting", "Connected", "Reconnecting"}

ASSUME NoStateAssumption == None \notin ConnState

VARIABLES
    task,    \* [Runs -> Task]: run_supervised of each run
    token,   \* [Runs -> ...]: "armed", "flagged" (stored), "fired" (notified)
    events,  \* [Runs -> Seq(ConnState)]: states sent and not yet received
    gui      \* the App: what the GUI thread is doing, current run, shown state

vars == <<task, token, events, gui>>

(***************************************************************************)
(* `guard` is the progress of the cancelled() future of the select! the    *)
(* task is in: not yet polled, flag seen clear, registered as a waiter, or *)
(* notified.  `ok` is the result of the last run_once, `level` the number  *)
(* of doublings of `backoff`; `results`, a history no step depends on, are *)
(* the results of all attempts.                                            *)
(***************************************************************************)
Task == [at       : {"unborn", "top", "attempt", "judge", "backoff", "returned", "dropped"},
         guard    : {"fresh", "checked", "waiting", "woken"},
         up       : BOOLEAN,
         ok       : BOOLEAN,
         level    : 0..TopLevel,
         attempts : 0..MaxAttempts,
         results  : Seq(BOOLEAN)]

Unborn == [at |-> "unborn", guard |-> "fresh", up |-> FALSE, ok |-> FALSE,
           level |-> 0, attempts |-> 0, results |-> <<>>]

App == [at         : {"ui", "notify", "exit", "closed"},
        run        : Runs \cup {None},
        state      : ConnState \cup {None},
        reconnects : Nat]

Init == /\ task = [r \in Runs |-> Unborn]
        /\ token = [r \in Runs |-> "armed"]
        /\ events = [r \in Runs |-> <<>>]
        /\ gui = [at |-> "ui", run |-> None, state |-> None, reconnects |-> 0]

Alive(r) == task[r].at \in {"top", "attempt", "judge", "backoff"}
Cancelled(r) == token[r] # "armed"

-----------------------------------------------------------------------------
(* run_supervised.                                                         *)

Become(r, t) == task' = [task EXCEPT ![r] = t]

\* A run that was told to stop has a channel nobody reads any more.
Emit(r, s) == events' = [events EXCEPT ![r] =
                            IF token[r] = "fired" THEN @ ELSE Append(@, s)]

Return(r) == /\ Become(r, [Unborn EXCEPT !.at = "returned"])
             /\ UNCHANGED events

\* The head of the loop: the flag is checked, the next attempt announced.
Top(r) ==
    /\ task[r].at = "top"
    /\ IF Cancelled(r) THEN Return(r)
       ELSE /\ task[r].attempts < MaxAttempts
            /\ Become(r, [task[r] EXCEPT !.at = "attempt", !.guard = "fresh",
                                         !.attempts = @ + 1])
            /\ Emit(r, "Connecting")
    /\ UNCHANGED <<token, gui>>

\* cancelled() is polled for the first time: it loads the flag ...
CheckFlag(r) ==
    /\ task[r].at \in {"attempt", "backoff"}
    /\ task[r].guard = "fresh"
    /\ IF Cancelled(r) THEN Return(r)
       ELSE Become(r, [task[r] EXCEPT !.guard = "checked"]) /\ UNCHANGED events
    /\ UNCHANGED <<token, gui>>

\* ... and then creates and polls the Notified future.
AwaitNotify(r) ==
    /\ task[r].at \in {"attempt", "backoff"}
    /\ task[r].guard = "checked"
    /\ Become(r, [task[r] EXCEPT !.guard = "waiting"])
    /\ UNCHANGED <<token, events, gui>>

\* The cancelled() branch of the select! is ready; run_once is dropped.
Woken(r) ==
    /\ task[r].at \in {"attempt", "backoff"}
    /\ task[r].guard = "woken"
    /\ Return(r)
    /\ UNCHANGED <<token, gui>>

\* Both branches are polled by one thread: no outcome between the load of the
\* flag and the creation of the future.
Dialing(r) == task[r].at = "attempt" /\ task[r].guard # "checked" /\ ~task[r].up

\* run_once: connect, TLS, handshake, status "ok".
TunnelUp(r) ==
    /\ Dialing(r)
    /\ Become(r, [task[r] EXCEPT !.up = TRUE])
    /\ Emit(r, "Connected")
    /\ UNCHANGED <<token, gui>>

\* run_once fails: refused, unreachable, rejected, or one of its timeouts.
AttemptFails(r) ==
    /\ Dialing(r)
    /\ Become(r, [task[r] EXCEPT !.at = "judge", !.ok = FALSE,
                                     !.results = Append(@, FALSE)])
    /\ UNCHANGED <<token, events, gui>>

\* run_client_session ends, closed by the server or by a yamux error.
TunnelCloses(r) ==
    /\ task[r].at = "attempt" /\ task[r].guard # "checked" /\ task[r].up
    /\ Become(r, [task[r] EXCEPT !.at = "judge", !.ok = TRUE,
                                     !.results = Append(@, TRUE)])
    /\ UNCHANGED <<token, events, gui>>

Judge(r) ==
    /\ task[r].at = "judge"
    /\ IF Cancelled(r) THEN Return(r)
       ELSE /\ Become(r, [task[r] EXCEPT !.at = "backoff", !.guard = "fresh",
                                         !.up = FALSE])
            /\ Emit(r, "Reconnecting")
    /\ UNCHANGED <<token, gui>>

\* Fault: `backoff * 2` without min(MAX_BACKOFF).
SleepOverUncapped(r) ==
    /\ task[r].at = "backoff"
    /\ task[r].guard \in {"waiting", "woken"}
    /\ Become(r, [task[r] EXCEPT !.at = "top",
                     !.level = IF task[r].ok THEN 0 ELSE @ + 1])
    /\ UNCHANGED <<token, events, gui>>

\* Fault: the back-off grows after every round.
SleepOverGrow(r) ==
    /\ task[r].at = "backoff"
    /\ task[r].guard \in {"waiting", "woken"}
    /\ Become(r, [task[r] EXCEPT !.at = "top",
                     !.level = IF @ < TopLevel THEN @ + 1 ELSE @])
    /\ UNCHANGED <<token, events, gui>>

\* The sleep of the current back-off is over; only now is `backoff` reset or
\* doubled for the next round.
SleepOver(r) ==
    /\ task[r].at = "backoff"
    /\ task[r].guard \in {"waiting", "woken"}
    /\ Become(r, [task[r] EXCEPT !.at = "top",
                     !.level = IF task[r].ok THEN 0
                               ELSE IF @ < TopLevel THEN @ + 1 ELSE @])
    /\ UNCHANGED <<token, events, gui>>

-----------------------------------------------------------------------------
(* The GUI thread.                                                         *)

\* Fault: a second press starts a second run.
StartAgain(r) ==
    /\ gui.at = "ui"
    /\ task[r].at = "unborn"
    /\ Become(r, [Unborn EXCEPT !.at = "top"])
    /\ gui' = [gui EXCEPT !.run = r, !.state = "Connecting", !.reconnects = 0]
    /\ UNCHANGED <<token, events>>

\* start(): a fresh runtime, channel and token.
Start(r) ==
    /\ gui.at = "ui" /\ gui.run = None
    /\ task[r].at = "unborn"
    /\ Become(r, [Unborn EXCEPT !.at = "top"])
    /\ gui' = [gui EXCEPT !.run = r, !.state = "Connecting", !.reconnects = 0]
    /\ UNCHANGED <<token, events>>

\* stop() and on_exit() begin with cancel(): first the flag ...
StoreFlag(next) ==
    /\ gui.at = "ui" /\ gui.run # None
    /\ token' = [token EXCEPT ![gui.run] = "flagged"]
    /\ gui' = [gui EXCEPT !.at = next]
    /\ UNCHANGED <<task, events>>

Stop == StoreFlag("notify")
Exit == StoreFlag("exit")

Notify(r) ==
    /\ token' = [token EXCEPT ![r] = "fired"]
    /\ task' = [task EXCEPT ![r].guard = IF @ = "waiting" THEN "woken" ELSE @]
    /\ events' = [events EXCEPT ![r] = <<>>]

\* ... then notify_waiters().  stop() hands the runtime to a helper thread that
\* shuts it down, on_exit() leaves that to the drop of the App.
StopNotifies ==
    /\ gui.at = "notify"
    /\ Notify(gui.run)
    /\ gui' = [gui EXCEPT !.at = "ui", !.run = None, !.state = None]

ExitNotifies ==
    /\ gui.at = "exit"
    /\ Notify(gui.run)
    /\ gui' = [gui EXCEPT !.at = "closed"]

\* Fault: the runtime is leaked instead of being shut down.
RuntimeLeaks(r) == FALSE

\* The runtime goes: the task is dropped where it waits.
RuntimeShutdown(r) ==
    /\ token[r] = "fired"
    /\ Alive(r)
    /\ task[r].guard # "checked"
    /\ Become(r, [Unborn EXCEPT !.at = "dropped"])
    /\ UNCHANGED <<token, events, gui>>

Reconnections(s) == Cardinality({i \in 1..Len(s) : s[i] = "Reconnecting"})

\* Fault: only the newest event is looked at.
PumpNewest ==
    /\ gui.at = "ui" /\ gui.run # None
    /\ events[gui.run] # <<>>
    /\ LET s == events[gui.run][Len(events[gui.run])]
       IN  gui' = [gui EXCEPT !.state = s,
                              !.reconnects = IF s = "Reconnecting" THEN @ + 1 ELSE @]
    /\ events' = [events EXCEPT ![gui.run] = <<>>]
    /\ UNCHANGED <<task, token>>

\* Fault: the events are collected from the end of the channel.
PumpBackwards ==
    /\ gui.at = "ui" /\ gui.run # None
    /\ events[gui.run] # <<>>
    /\ gui' = [gui EXCEPT !.state = Head(events[gui.run]),
                          !.reconnects = @ + Reconnections(events[gui.run])]
    /\ events' = [events EXCEPT ![gui.run] = <<>>]
    /\ UNCHANGED <<task, token>>

\* pump_events(): everything received is applied in order.
Pump ==
    /\ gui.at = "ui" /\ gui.run # None
    /\ events[gui.run] # <<>>
    /\ gui' = [gui EXCEPT !.state = events[gui.run][Len(events[gui.run])],
                          !.reconnects = @ + Reconnections(events[gui.run])]
    /\ events' = [events EXCEPT ![gui.run] = <<>>]
    /\ UNCHANGED <<task, token>>

-----------------------------------------------------------------------------
Supervise(r) == \/ Top(r) \/ CheckFlag(r) \/ AwaitNotify(r) \/ Woken(r)
                \/ Judge(r) \/ SleepOver(r)

Outcome(r) == TunnelUp(r) \/ AttemptFails(r)

GuiStep == StopNotifies \/ ExitNotifies \/ Pump

Next == \/ \E r \in Runs : \/ Supervise(r) \/ Outcome(r) \/ TunnelCloses(r)
                            \/ Start(r) \/ RuntimeShutdown(r)
        \/ Stop \/ Exit \/ GuiStep

\* Tasks run, dialling ends by its timeouts, the GUI thread goes on, a runtime
\* that is shut down drops its tasks; a tunnel may stay up for ever.
Progress == /\ \A r \in Runs : /\ WF_vars(Supervise(r)) /\ WF_vars(Outcome(r))
                              /\ WF_vars(RuntimeShutdown(r))
            /\ WF_vars(GuiStep)

Spec == Init /\ [][Next]_vars /\ Progress

-----------------------------------------------------------------------------
(* Properties.                                                             *)

\* Every variable has its type.
TypeOK == /\ task \in [Runs -> Task]
          /\ token \in [Runs -> {"armed", "flagged", "fired"}]
          /\ events \in [Runs -> Seq(ConnState)]
          /\ gui \in App

\* What the client last reported, read off the task itself.
Reported(r) ==
    IF task[r].at = "backoff" \/ (task[r].at = "top" /\ task[r].attempts > 0)
    THEN "Reconnecting"
    ELSE IF task[r].up THEN "Connected" ELSE "Connecting"

\* The badge never shows a state of another run or out of order: what is on
\* screen, followed by what is still in the channel, ends in the state the
\* current run is in (pump_events drops and reorders nothing).
BadgeFollows ==
    LET r == gui.run
    IN  gui.at = "ui" /\ r # None =>
           LET seen == <<gui.state>> \o events[r] IN seen[Len(seen)] = Reported(r)

\* The counter on screen and the reports on their way add up to the rounds
\* the current run has had to wait, whatever earlier runs counted.
ReconnectsCounted ==
    LET r == gui.run
    IN  gui.at = "ui" /\ r # None =>
           gui.reconnects + Reconnections(events[r]) =
               task[r].attempts - (IF task[r].at \in {"attempt", "judge"} THEN 1 ELSE 0)

\* However often the user toggles, at most one client is working that nobody
\* has told to stop: the one on screen.
OneLiveTunnel == \A r \in Runs : Alive(r) /\ ~Cancelled(r) => gui.run = r

\* After the first m results `s`, the back-off has n doublings: one for each
\* failure since the last tunnel, up to MAX_BACKOFF.
Earned(s, m, n) ==
    /\ n <= m
    /\ \A i \in 1..m : i > m - n => ~s[i]
    /\ n = TopLevel \/ n = m \/ s[m - n]

\* The back-off is at every attempt the one that the results so far have earned:
\* doubled by each failure, capped, and forgotten after a tunnel, however short.
\* The wait between two attempts is still that earned before the last of them.
WaitsEarned == \A r \in Runs :
    LET t == task[r] IN
    /\ t.at \in {"top", "attempt"} => Earned(t.results, Len(t.results), t.level)
    /\ t.at = "backoff" => Earned(t.results, Len(t.results) - 1, t.level)

\* Once stop() or on_exit() has begun, the client's task ends, by itself or
\* with its runtime: no toggling leaves a tunnel behind.
StopEndsTunnel == \A r \in Runs : token[r] = "flagged" ~> ~Alive(r)

=============================================================================
