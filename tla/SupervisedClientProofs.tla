----------------------- MODULE SupervisedClientProofs -----------------------
(***************************************************************************)
(* Proofs about SupervisedClient, for any number of presses of "connect",  *)
(* any number of attempts and any number of doublings of the back-off.     *)
(*                                                                         *)
(* A state the user sees is that of the run on screen; what has to be      *)
(* known besides is how a run, its token and the GUI belong together       *)
(* (Linked): a run nobody has told to stop is the one on screen, and it    *)
(* works; who was told to stop was on screen until its waiters were        *)
(* notified.                                                               *)
(***************************************************************************)
EXTENDS SupervisedClient, FiniteSetTheorems, TLAPS

Link(r) ==
    /\ task[r].at = "unborn" => token[r] = "armed" /\ events[r] = <<>> /\ gui.run # r
    /\ token[r] = "armed" => task[r].at \notin {"returned", "dropped"}
    /\ token[r] = "armed" /\ task[r].at # "unborn" => gui.run = r /\ gui.at = "ui"
    /\ token[r] = "flagged" => gui.run = r /\ gui.at \in {"notify", "exit"}
    /\ task[r].guard = "woken" => token[r] = "fired"

Screen == /\ gui.at = "ui" /\ gui.run # None => token[gui.run] = "armed"
          /\ gui.at \in {"notify", "exit"} => gui.run # None /\ token[gui.run] = "flagged"

Linked == TypeOK /\ Screen /\ \A r \in Runs : Link(r)

\* What the task itself remembers.
Round(r) ==
    /\ task[r].at \in {"top", "backoff"} => ~task[r].up
    /\ task[r].at \in {"attempt", "judge", "backoff"} => task[r].attempts > 0
    /\ task[r].at \in {"top", "attempt"} =>
          Earned(task[r].results, Len(task[r].results), task[r].level)
    /\ task[r].at \in {"judge", "backoff"} =>
          /\ Len(task[r].results) > 0
          /\ task[r].results[Len(task[r].results)] = task[r].ok
          /\ Earned(task[r].results, Len(task[r].results) - 1, task[r].level)

Rounds == \A r \in Runs : Round(r)

-----------------------------------------------------------------------------
(* One step of a run's task.                                               *)

TaskStep(r) == Supervise(r) \/ Outcome(r) \/ TunnelCloses(r) \/ RuntimeShutdown(r)

LEMMA EmitType ==
    ASSUME TypeOK, NEW r \in Runs, NEW report \in ConnState, Emit(r, report)
    PROVE  /\ events' \in [Runs -> Seq(ConnState)]
           /\ events'[r] = IF token[r] = "fired" THEN events[r] ELSE Append(events[r], report)
           /\ \A q \in Runs \ {r} : events'[q] = events[q]
BY DEF TypeOK, Emit

LEMMA BecomeType ==
    ASSUME TypeOK, NEW r \in Runs, NEW t \in Task, Become(r, t)
    PROVE  /\ task' \in [Runs -> Task]
           /\ task'[r] = t
           /\ \A q \in Runs \ {r} : task'[q] = task[q]
BY DEF TypeOK, Become

\* The task returns, or is dropped with its runtime.
Ends(r) == /\ task'[r] \in {[Unborn EXCEPT !.at = "returned"], [Unborn EXCEPT !.at = "dropped"]}
           /\ Cancelled(r) /\ Alive(r)
           /\ events' = events

LEMMA UnbornType == /\ Unborn \in Task
                    /\ [Unborn EXCEPT !.at = "returned"] \in Task
                    /\ [Unborn EXCEPT !.at = "dropped"] \in Task
                    /\ [Unborn EXCEPT !.at = "top"] \in Task
<1>1. 0 \in 0..TopLevel /\ 0 \in 0..MaxAttempts
  BY TopLevelAssumption, MaxAttemptsAssumption
<1>2. Unborn \in Task
  BY <1>1 DEF Unborn, Task
<1> QED
  BY <1>2 DEF Task

\* The back-off after the sleep.
NextLevel(t) == IF t.ok THEN 0 ELSE IF t.level < TopLevel THEN t.level + 1 ELSE t.level

\* Either the task ends, or it goes on in one of these ways.
GoesOn(r, t) ==
    LET old == task[r]
    IN  /\ t.at \in {"top", "attempt", "judge", "backoff"}
        /\ t.guard \in {old.guard, "fresh", "checked", "waiting"}
        /\ \/ /\ old.at = "top" /\ t.at = "attempt" /\ ~Cancelled(r)
              /\ t.attempts = old.attempts + 1
              /\ t.up = old.up /\ t.ok = old.ok /\ t.level = old.level
              /\ t.results = old.results
              /\ Emit(r, "Connecting")
           \/ /\ old.at \in {"attempt", "backoff"} /\ t = [old EXCEPT !.guard = t.guard]
              /\ events' = events
           \/ /\ old.at = "attempt" /\ ~old.up /\ t = [old EXCEPT !.up = TRUE]
              /\ Emit(r, "Connected")
           \/ /\ old.at = "attempt" /\ t.at = "judge"
              /\ t.up = old.up /\ t.level = old.level /\ t.attempts = old.attempts
              /\ t.results = Append(old.results, t.ok)
              /\ events' = events
           \/ /\ old.at = "judge" /\ t.at = "backoff" /\ ~Cancelled(r)
              /\ ~t.up /\ t.ok = old.ok /\ t.level = old.level /\ t.attempts = old.attempts
              /\ t.results = old.results
              /\ Emit(r, "Reconnecting")
           \/ /\ old.at = "backoff" /\ t.at = "top"
              /\ t.up = old.up /\ t.ok = old.ok /\ t.attempts = old.attempts
              /\ t.results = old.results
              /\ t.level = NextLevel(old)
              /\ events' = events

LEMMA TaskSteps ==
    ASSUME TypeOK, NEW r \in Runs, Link(r), TaskStep(r)
    PROVE  /\ UNCHANGED <<token, gui>> /\ Alive(r)
           /\ \E t \in Task : Become(r, t) /\ (GoesOn(r, t) \/ Ends(r))
<1> USE TopLevelAssumption, MaxAttemptsAssumption
<1>0. task[r] \in Task
  BY DEF TypeOK
<1>1. ASSUME Return(r), Cancelled(r), Alive(r)
      PROVE  \E t \in Task : Become(r, t) /\ Ends(r)
  <2>1. Become(r, [Unborn EXCEPT !.at = "returned"]) /\ events' = events
    BY <1>1 DEF Return
  <2>2. task'[r] = [Unborn EXCEPT !.at = "returned"]
    BY <2>1, UnbornType, BecomeType
  <2> QED
    BY <1>1, <2>1, <2>2, UnbornType DEF Ends
<1>2. CASE Top(r)
  <2>1. CASE Cancelled(r)
    BY <1>1, <1>2, <2>1 DEF Top, Alive
  <2>2. CASE ~Cancelled(r)
    <3> DEFINE t == [task[r] EXCEPT !.at = "attempt", !.guard = "fresh",
                                    !.attempts = task[r].attempts + 1]
    <3>1. t \in Task
      <4>1. task[r].attempts + 1 \in 0..MaxAttempts
        BY <1>0, <1>2, <2>2 DEF Top, Task
      <4> QED
        BY <1>0, <4>1 DEF Task
    <3>2. GoesOn(r, t)
      BY <1>0, <1>2, <2>2 DEF Top, Task, GoesOn
    <3> QED
      BY <1>2, <2>2, <3>1, <3>2 DEF Top, Alive
  <2> QED
    BY <2>1, <2>2
<1>3. CASE CheckFlag(r)
  <2>1. CASE Cancelled(r)
    BY <1>1, <1>3, <2>1 DEF CheckFlag, Alive
  <2>2. CASE ~Cancelled(r)
    <3> DEFINE t == [task[r] EXCEPT !.guard = "checked"]
    <3>1. t \in Task
      BY <1>0 DEF Task
    <3>2. GoesOn(r, t)
      BY <1>0, <1>3, <2>2 DEF CheckFlag, Task, GoesOn
    <3> QED
      BY <1>3, <2>2, <3>1, <3>2 DEF CheckFlag, Alive
  <2> QED
    BY <2>1, <2>2
<1>4. CASE AwaitNotify(r)
  <2> DEFINE t == [task[r] EXCEPT !.guard = "waiting"]
  <2>1. t \in Task
    BY <1>0 DEF Task
  <2>2. GoesOn(r, t)
    BY <1>0, <1>4 DEF AwaitNotify, Task, GoesOn
  <2> QED
    BY <1>4, <2>1, <2>2 DEF AwaitNotify, Alive
<1>5. CASE Woken(r)
  <2>1. token[r] = "fired"
    BY <1>5 DEF Woken, Link
  <2> QED
    BY <1>1, <1>5, <2>1 DEF Woken, Alive, Cancelled
<1>6. CASE Judge(r)
  <2>1. CASE Cancelled(r)
    BY <1>1, <1>6, <2>1 DEF Judge, Alive
  <2>2. CASE ~Cancelled(r)
    <3> DEFINE t == [task[r] EXCEPT !.at = "backoff", !.guard = "fresh", !.up = FALSE]
    <3>1. t \in Task
      BY <1>0 DEF Task
    <3>2. GoesOn(r, t)
      BY <1>0, <1>6, <2>2 DEF Judge, Task, GoesOn
    <3> QED
      BY <1>6, <2>2, <3>1, <3>2 DEF Judge, Alive
  <2> QED
    BY <2>1, <2>2
<1>7. CASE SleepOver(r)
  <2> DEFINE t == [task[r] EXCEPT !.at = "top", !.level = NextLevel(task[r])]
  <2>1. t \in Task
    <3>1. NextLevel(task[r]) \in 0..TopLevel
      BY <1>0 DEF Task, NextLevel
    <3> QED
      BY <1>0, <3>1 DEF Task
  <2>2. GoesOn(r, t)
    BY <1>0, <1>7 DEF SleepOver, Task, GoesOn
  <2> QED
    BY <1>7, <2>1, <2>2 DEF SleepOver, Alive, NextLevel
<1>8. CASE TunnelUp(r)
  <2> DEFINE t == [task[r] EXCEPT !.up = TRUE]
  <2>1. t \in Task
    BY <1>0 DEF Task
  <2>2. GoesOn(r, t)
    BY <1>0, <1>8 DEF TunnelUp, Dialing, Task, GoesOn
  <2> QED
    BY <1>8, <2>1, <2>2 DEF TunnelUp, Dialing, Alive
<1>9. CASE AttemptFails(r)
  <2> DEFINE t == [task[r] EXCEPT !.at = "judge", !.ok = FALSE,
                                  !.results = Append(task[r].results, FALSE)]
  <2>1. t \in Task
    <3>1. Append(task[r].results, FALSE) \in Seq(BOOLEAN)
      BY <1>0 DEF Task
    <3> QED
      BY <1>0, <3>1 DEF Task
  <2>2. GoesOn(r, t)
    BY <1>0, <1>9 DEF AttemptFails, Dialing, Task, GoesOn
  <2> QED
    BY <1>9, <2>1, <2>2 DEF AttemptFails, Dialing, Alive
<1>10. CASE TunnelCloses(r)
  <2> DEFINE t == [task[r] EXCEPT !.at = "judge", !.ok = TRUE,
                                  !.results = Append(task[r].results, TRUE)]
  <2>1. t \in Task
    <3>1. Append(task[r].results, TRUE) \in Seq(BOOLEAN)
      BY <1>0 DEF Task
    <3> QED
      BY <1>0, <3>1 DEF Task
  <2>2. GoesOn(r, t)
    BY <1>0, <1>10 DEF TunnelCloses, Task, GoesOn
  <2> QED
    BY <1>10, <2>1, <2>2 DEF TunnelCloses, Alive
<1>11. CASE RuntimeShutdown(r)
  <2>1. /\ Become(r, [Unborn EXCEPT !.at = "dropped"]) /\ events' = events
        /\ Cancelled(r) /\ Alive(r)
    BY <1>11 DEF RuntimeShutdown, Cancelled
  <2>2. task'[r] = [Unborn EXCEPT !.at = "dropped"]
    BY <2>1, UnbornType, BecomeType
  <2> QED
    BY <1>11, <2>1, <2>2, UnbornType DEF RuntimeShutdown, Ends
<1> QED
  BY <1>2, <1>3, <1>4, <1>5, <1>6, <1>7, <1>8, <1>9, <1>10, <1>11
     DEF TaskStep, Supervise, Outcome

LEMMA EventsOfStep ==
    ASSUME TypeOK, NEW r \in Runs, NEW t \in Task, GoesOn(r, t) \/ Ends(r)
    PROVE  /\ events' \in [Runs -> Seq(ConnState)]
           /\ \A q \in Runs \ {r} : events'[q] = events[q]
<1>1. CASE events' = events
  BY <1>1 DEF TypeOK
<1>2. ASSUME NEW report \in ConnState, Emit(r, report)
      PROVE  /\ events' \in [Runs -> Seq(ConnState)]
             /\ \A q \in Runs \ {r} : events'[q] = events[q]
  BY <1>2, EmitType
<1> QED
  BY <1>1, <1>2 DEF GoesOn, Ends, ConnState

-----------------------------------------------------------------------------
(* Linked is an invariant.                                                 *)

LEMMA ReconnectionsNat ==
    ASSUME NEW s \in Seq(ConnState) PROVE Reconnections(s) \in Nat
<1>1. IsFiniteSet(1..Len(s))
  BY FS_Interval
<1>2. IsFiniteSet({i \in 1..Len(s) : s[i] = "Reconnecting"})
  BY <1>1, FS_Subset
<1> QED
  BY <1>2, FS_CardinalityType DEF Reconnections

LEMMA LinkedInit == Init => Linked
<1> SUFFICES ASSUME Init PROVE Linked
  OBVIOUS
<1>1. TypeOK
  BY UnbornType DEF Init, TypeOK, App, ConnState
<1>2. ASSUME NEW r \in Runs PROVE Link(r)
  BY NoneAssumption DEF Init, Link, Unborn
<1> QED
  BY <1>1, <1>2 DEF Init, Linked, Screen

LEMMA LinkedTask ==
    ASSUME Linked, NEW r \in Runs, TaskStep(r) PROVE Linked'
<1>1. TypeOK /\ Link(r)
  BY DEF Linked
<1>2. /\ UNCHANGED <<token, gui>> /\ Alive(r)
      /\ \E t \in Task : Become(r, t) /\ (GoesOn(r, t) \/ Ends(r))
  BY <1>1, TaskSteps
<1>3. PICK t \in Task : Become(r, t) /\ (GoesOn(r, t) \/ Ends(r))
  BY <1>2
<1>4. /\ task' \in [Runs -> Task] /\ task'[r] = t
      /\ \A q \in Runs \ {r} : task'[q] = task[q]
  BY <1>1, <1>3, BecomeType
<1>5. /\ events' \in [Runs -> Seq(ConnState)]
      /\ \A q \in Runs \ {r} : events'[q] = events[q]
  BY <1>1, <1>3, EventsOfStep
<1>6. TypeOK'
  BY <1>1, <1>2, <1>4, <1>5 DEF TypeOK
<1>7. ASSUME NEW q \in Runs, q # r PROVE Link(q)'
  <2>1. Link(q) /\ task'[q] = task[q] /\ events'[q] = events[q]
    BY <1>4, <1>5, <1>7 DEF Linked
  <2> QED
    BY <1>2, <2>1 DEF Link
<1>8. Link(r)'
  <2>1. CASE GoesOn(r, t)
    BY <1>1, <1>2, <1>4, <2>1 DEF Link, GoesOn, Alive
  <2>2. CASE Ends(r)
    BY <1>1, <1>2, <1>4, <2>2 DEF Link, Ends, Unborn, Cancelled
  <2> QED
    BY <1>3, <2>1, <2>2
<1>9. Screen'
  BY <1>2 DEF Linked, Screen
<1> QED
  BY <1>6, <1>7, <1>8, <1>9 DEF Linked

LEMMA LinkedStart ==
    ASSUME Linked, NEW r \in Runs, Start(r) PROVE Linked'
<1>1. TypeOK /\ Link(r) /\ gui \in App
  BY DEF Linked, TypeOK
<1>2. /\ task' \in [Runs -> Task] /\ task'[r] = [Unborn EXCEPT !.at = "top"]
      /\ \A q \in Runs \ {r} : task'[q] = task[q]
  BY <1>1, BecomeType, UnbornType DEF Start
<1>3. /\ gui.at = "ui" /\ gui.run = None /\ token[r] = "armed"
      /\ gui'.at = "ui" /\ gui'.run = r
      /\ UNCHANGED <<token, events>>
  BY <1>1 DEF Start, App, Link
<1>4. gui' \in App
  BY <1>1 DEF Start, App, ConnState
<1>5. TypeOK'
  BY <1>1, <1>2, <1>3, <1>4 DEF TypeOK
<1>6. ASSUME NEW q \in Runs, q # r PROVE Link(q)'
  BY <1>2, <1>3, <1>6, NoneAssumption DEF Linked, Link
<1>7. Link(r)'
  BY <1>2, <1>3, <1>1 DEF Link, Unborn
<1>8. Screen'
  BY <1>3 DEF Screen
<1> QED
  BY <1>5, <1>6, <1>7, <1>8 DEF Linked

LEMMA LinkedStore ==
    ASSUME Linked, Stop \/ Exit PROVE Linked'
<1>1. PICK next \in {"notify", "exit"} : StoreFlag(next)
  BY DEF Stop, Exit
<1> DEFINE r == gui.run
<1>2. TypeOK /\ gui \in App /\ r \in Runs /\ gui.at = "ui"
  BY <1>1 DEF Linked, TypeOK, StoreFlag, App
<1>3. /\ gui'.at \in {"notify", "exit"} /\ gui'.run = r /\ gui' \in App
      /\ UNCHANGED <<task, events>>
  BY <1>1, <1>2 DEF StoreFlag, App
<1>4. /\ token' \in [Runs -> {"armed", "flagged", "fired"}]
      /\ token'[r] = "flagged" /\ \A q \in Runs \ {r} : token'[q] = token[q]
  BY <1>1, <1>2 DEF StoreFlag, TypeOK
<1>5. TypeOK' /\ Screen'
  BY <1>2, <1>3, <1>4, NoneAssumption DEF TypeOK, Screen
<1>6. ASSUME NEW q \in Runs PROVE Link(q)'
  <2>1. token[r] = "armed"
    BY <1>2, NoneAssumption DEF Linked, Screen
  <2>2. Link(q) /\ Link(r)
    BY <1>2 DEF Linked
  <2>3. CASE q = r
    BY <1>2, <1>3, <1>4, <2>1, <2>2, <2>3 DEF Link
  <2>4. CASE q # r
    BY <1>2, <1>3, <1>4, <2>2, <2>4 DEF Link
  <2> QED
    BY <2>3, <2>4
<1> QED
  BY <1>5, <1>6 DEF Linked

LEMMA LinkedNotify ==
    ASSUME Linked, StopNotifies \/ ExitNotifies PROVE Linked'
<1> DEFINE r == gui.run
<1>1. /\ TypeOK /\ gui \in App /\ r \in Runs /\ gui.at \in {"notify", "exit"} /\ Notify(r)
      /\ token[r] = "flagged"
  BY DEF Linked, TypeOK, Screen, App, StopNotifies, ExitNotifies
<1>2. /\ gui' \in App /\ gui'.at \in {"ui", "closed"}
      /\ gui'.at = "ui" => gui'.run = None
      /\ gui'.run \in {r, None}
  BY <1>1 DEF StopNotifies, ExitNotifies, App
<1>3. /\ token' \in [Runs -> {"armed", "flagged", "fired"}]
      /\ token'[r] = "fired" /\ \A q \in Runs \ {r} : token'[q] = token[q]
      /\ events' \in [Runs -> Seq(ConnState)]
      /\ events'[r] = <<>> /\ \A q \in Runs \ {r} : events'[q] = events[q]
  BY <1>1 DEF Notify, TypeOK
<1>4. /\ task' \in [Runs -> Task]
      /\ task'[r].at = task[r].at
      /\ \A q \in Runs \ {r} : task'[q] = task[q]
  <2> DEFINE guard == IF task[r].guard = "waiting" THEN "woken" ELSE task[r].guard
             t == [task[r] EXCEPT !.guard = guard]
  <2>1. task[r] \in Task
    BY <1>1 DEF TypeOK
  <2>2. t \in Task /\ t.at = task[r].at
    BY <2>1 DEF Task
  <2>3. task' = [task EXCEPT ![r] = t]
    BY <1>1 DEF Notify, TypeOK
  <2> HIDE DEF t
  <2> QED
    BY <1>1, <2>2, <2>3 DEF TypeOK
<1>5. TypeOK' /\ Screen'
  BY <1>2, <1>3, <1>4 DEF TypeOK, Screen
<1>6. ASSUME NEW q \in Runs PROVE Link(q)'
  <2>1. Link(q) /\ Link(r)
    BY <1>1 DEF Linked
  <2>2. CASE q = r
    BY <1>1, <1>3, <1>4, <2>1, <2>2 DEF Link
  <2>3. CASE q # r
    BY <1>1, <1>2, <1>3, <1>4, <2>1, <2>3, NoneAssumption DEF Link
  <2> QED
    BY <2>2, <2>3
<1> QED
  BY <1>5, <1>6 DEF Linked

LEMMA LinkedPump == ASSUME Linked, Pump PROVE Linked'
<1> DEFINE r == gui.run
<1>1. /\ TypeOK /\ gui \in App /\ r \in Runs /\ gui.at = "ui"
      /\ events[r] \in Seq(ConnState) /\ events[r] # <<>>
  BY DEF Linked, TypeOK, App, Pump
<1>2. Reconnections(events[r]) \in Nat
  BY <1>1, ReconnectionsNat
<1>3. /\ gui' \in App /\ gui'.at = "ui" /\ gui'.run = r
  <2>1. events[r][Len(events[r])] \in ConnState
    BY <1>1
  <2>2. gui.reconnects + Reconnections(events[r]) \in Nat
    BY <1>1, <1>2 DEF App
  <2> QED
    BY <1>1, <2>1, <2>2 DEF Pump, App
<1>4. /\ events' \in [Runs -> Seq(ConnState)]
      /\ events'[r] = <<>> /\ \A q \in Runs \ {r} : events'[q] = events[q]
      /\ UNCHANGED <<task, token>>
  BY <1>1 DEF Pump, TypeOK
<1>5. TypeOK' /\ Screen'
  BY <1>1, <1>3, <1>4 DEF Linked, TypeOK, Screen
<1>6. ASSUME NEW q \in Runs PROVE Link(q)'
  <2>1. Link(q)
    BY DEF Linked
  <2> QED
    BY <1>1, <1>3, <1>4, <2>1 DEF Link
<1> QED
  BY <1>5, <1>6 DEF Linked

LEMMA LinkedNext == Linked /\ [Next]_vars => Linked'
<1> SUFFICES ASSUME Linked, [Next]_vars PROVE Linked'
  OBVIOUS
<1>1. ASSUME NEW r \in Runs, TaskStep(r) PROVE Linked'
  BY <1>1, LinkedTask
<1>2. ASSUME NEW r \in Runs, Start(r) PROVE Linked'
  BY <1>2, LinkedStart
<1>3. CASE Stop \/ Exit
  BY <1>3, LinkedStore
<1>4. CASE GuiStep
  BY <1>4, LinkedNotify, LinkedPump DEF GuiStep
<1>5. CASE UNCHANGED vars
  BY <1>5 DEF vars, Linked, TypeOK, Screen, Link
<1> QED
  BY <1>1, <1>2, <1>3, <1>4, <1>5 DEF Next, TaskStep

LEMMA AlwaysLinked == Spec => []Linked
BY LinkedInit, LinkedNext, PTL DEF Spec

\* Type correctness, for any number of runs and attempts.
THEOREM TypeCorrect == Spec => []TypeOK
<1>1. Linked => TypeOK
  BY DEF Linked
<1> QED
  BY <1>1, AlwaysLinked, PTL

\* However often the user toggles, at most one client works that nobody has told
\* to stop: the one on screen (App::start, App::stop).
THEOREM OneTunnel == Spec => []OneLiveTunnel
<1>1. Linked => OneLiveTunnel
  BY DEF Linked, Link, OneLiveTunnel, Alive, Cancelled, TypeOK
<1> QED
  BY <1>1, AlwaysLinked, PTL

-----------------------------------------------------------------------------
(* What the task remembers.                                                *)

\* What results earn does not depend on later ones.
LEMMA EarnedAppend ==
    ASSUME NEW s \in Seq(BOOLEAN), NEW b \in BOOLEAN, NEW n \in Nat, Earned(s, Len(s), n)
    PROVE  Earned(Append(s, b), Len(s), n)
<1>1. Len(s) \in Nat /\ \A i \in 1..Len(s) : Append(s, b)[i] = s[i]
  OBVIOUS
<1>2. n = TopLevel \/ n = Len(s) \/ Append(s, b)[Len(s) - n]
  <2>1. CASE n < Len(s)
    <3>1. Append(s, b)[Len(s) - n] = s[Len(s) - n]
      BY <1>1, <2>1
    <3> QED
      BY <3>1 DEF Earned
  <2> QED
    BY <1>1, <2>1 DEF Earned
<1>3. \A i \in 1..Len(s) : i > Len(s) - n => ~Append(s, b)[i]
  BY <1>1 DEF Earned
<1> QED
  BY <1>2, <1>3 DEF Earned

\* A tunnel forgets the failures before it.
LEMMA EarnedTunnel ==
    ASSUME NEW s \in Seq(BOOLEAN), Len(s) > 0, s[Len(s)]
    PROVE  Earned(s, Len(s), 0)
<1>1. Len(s) \in Nat /\ Len(s) - 0 = Len(s)
  OBVIOUS
<1>2. ~\E i \in 1..Len(s) : i > Len(s) - 0
  BY <1>1
<1> QED
  BY <1>1, <1>2 DEF Earned

\* A failure adds one doubling, up to the cap.
LEMMA EarnedFailure ==
    ASSUME NEW s \in Seq(BOOLEAN), NEW n \in 0..TopLevel, Len(s) > 0, ~s[Len(s)],
           Earned(s, Len(s) - 1, n)
    PROVE  Earned(s, Len(s), IF n < TopLevel THEN n + 1 ELSE n)
<1> DEFINE m == Len(s)
           k == IF n < TopLevel THEN n + 1 ELSE n
<1>1. m \in Nat /\ m > 0 /\ n \in Nat /\ n <= TopLevel /\ TopLevel \in Nat /\ n <= m - 1
  BY TopLevelAssumption DEF Earned
<1>2. \A i \in 1..(m - 1) : i > m - 1 - n => ~s[i]
  BY DEF Earned
<1>3. n = TopLevel \/ n = m - 1 \/ s[m - 1 - n]
  BY DEF Earned
<1>4. k \in Nat /\ k <= m /\ k <= n + 1
  BY <1>1
<1>5. ASSUME NEW i \in 1..m, i > m - k PROVE ~s[i]
  <2>1. CASE i = m
    BY <2>1
  <2>2. CASE i # m
    <3>1. i \in 1..(m - 1) /\ i > m - 1 - n
      BY <1>1, <1>4, <1>5, <2>2
    <3> QED
      BY <1>2, <3>1
  <2> QED
    BY <2>1, <2>2
<1>6. k = TopLevel \/ k = m \/ s[m - k]
  <2>1. CASE n < TopLevel /\ n # m - 1
    <3>1. m - k = m - 1 - n /\ s[m - 1 - n]
      BY <1>1, <1>3, <2>1
    <3> QED
      BY <3>1
  <2>2. CASE n = TopLevel \/ n = m - 1
    BY <1>1, <2>2
  <2> QED
    BY <1>1, <2>1, <2>2
<1> QED
  BY <1>4, <1>5, <1>6 DEF Earned

LEMMA RoundsInit == Init => Rounds
BY DEF Init, Rounds, Round, Unborn

\* The task of another run, or of a run the step only wakes.
LEMMA RoundSame ==
    ASSUME TypeOK, NEW q \in Runs, Round(q),
           \/ task'[q] = task[q]
           \/ \E guard \in {"fresh", "checked", "waiting", "woken"} :
                 task'[q] = [task[q] EXCEPT !.guard = guard]
    PROVE  Round(q)'
<1>1. task[q] \in Task
  BY DEF TypeOK
<1>2. /\ task'[q].at = task[q].at /\ task'[q].up = task[q].up /\ task'[q].ok = task[q].ok
      /\ task'[q].level = task[q].level /\ task'[q].attempts = task[q].attempts
      /\ task'[q].results = task[q].results
  BY <1>1 DEF Task
<1> QED
  BY <1>2 DEF Round

LEMMA RoundsTask ==
    ASSUME Linked, Rounds, NEW r \in Runs, TaskStep(r) PROVE Rounds'
<1>1. TypeOK /\ Link(r)
  BY DEF Linked
<1>2. PICK t \in Task : Become(r, t) /\ (GoesOn(r, t) \/ Ends(r))
  BY <1>1, TaskSteps
<1>3. /\ task'[r] = t /\ task[r] \in Task
      /\ \A q \in Runs \ {r} : task'[q] = task[q]
  BY <1>1, <1>2, BecomeType DEF TypeOK
<1>4. Round(r)'
  <2>1. CASE Ends(r)
    BY <2>1 DEF Ends, Unborn, Round
  <2>2. CASE GoesOn(r, t)
    <3>1. /\ Round(r) /\ task[r].attempts \in Nat
          /\ task[r].results \in Seq(BOOLEAN) /\ task[r].level \in 0..TopLevel
          /\ t.ok \in BOOLEAN
      BY <1>3, MaxAttemptsAssumption DEF Rounds, Task
    <3>2. CASE t.at = "attempt" /\ task[r].at = "top"
      <4>1. /\ t.attempts = task[r].attempts + 1 /\ t.level = task[r].level
            /\ t.results = task[r].results
        BY <2>2, <3>2 DEF GoesOn
      <4>2. t.attempts > 0
        BY <3>1, <4>1
      <4> QED
        BY <1>3, <3>1, <3>2, <4>1, <4>2 DEF Round
    <3>3. CASE t.at = task[r].at
      <4>1. /\ t.attempts = task[r].attempts /\ t.ok = task[r].ok /\ t.level = task[r].level
            /\ t.results = task[r].results
        BY <1>3, <2>2, <3>3 DEF GoesOn, Task
      <4>2. t.at \in {"top", "backoff"} => t.up = task[r].up
        BY <1>3, <2>2, <3>3 DEF GoesOn, Task
      <4> QED
        BY <1>3, <3>1, <3>3, <4>1, <4>2 DEF Round
    <3>4. CASE t.at = "judge" /\ task[r].at = "attempt"
      <4> DEFINE old == task[r].results
      <4>1. /\ t.attempts = task[r].attempts /\ t.level = task[r].level
            /\ t.results = Append(old, t.ok)
        BY <1>3, <2>2, <3>4 DEF GoesOn, Task
      <4>2. /\ Len(t.results) = Len(old) + 1 /\ Len(old) \in Nat
            /\ t.results[Len(old) + 1] = t.ok
        BY <3>1, <4>1
      <4>3. Earned(t.results, Len(old), t.level)
        <5>1. Earned(old, Len(old), t.level) /\ t.level \in Nat
          BY <3>1, <3>4, <4>1, TopLevelAssumption DEF Round
        <5> QED
          BY <3>1, <4>1, <5>1, EarnedAppend
      <4>4. Len(t.results) - 1 = Len(old) /\ Len(t.results) > 0
        BY <4>2
      <4> QED
        BY <1>3, <3>1, <3>4, <4>1, <4>2, <4>3, <4>4 DEF Round
    <3>5. CASE t.at = "backoff" /\ task[r].at = "judge"
      <4>1. /\ t.attempts = task[r].attempts /\ ~t.up /\ t.ok = task[r].ok
            /\ t.level = task[r].level /\ t.results = task[r].results
        BY <1>3, <2>2, <3>5 DEF GoesOn, Task
      <4> QED
        BY <1>3, <3>1, <3>5, <4>1 DEF Round
    <3>6. CASE t.at = "top" /\ task[r].at = "backoff"
      <4>1. /\ t.up = task[r].up /\ t.results = task[r].results
            /\ t.level = NextLevel(task[r])
        BY <1>3, <2>2, <3>6 DEF GoesOn, Task
      <4> DEFINE old == task[r].results
      <4>2. /\ Len(old) > 0 /\ old[Len(old)] = task[r].ok
            /\ Earned(old, Len(old) - 1, task[r].level) /\ ~task[r].up
        BY <3>1, <3>6 DEF Round
      <4>3. Earned(old, Len(old), NextLevel(task[r]))
        <5>1. CASE task[r].ok
          BY <3>1, <4>2, <5>1, EarnedTunnel DEF NextLevel
        <5>2. CASE ~task[r].ok
          BY <3>1, <4>2, <5>2, EarnedFailure DEF NextLevel
        <5> QED
          BY <5>1, <5>2
      <4> QED
        BY <1>3, <3>6, <4>1, <4>2, <4>3 DEF Round
    <3> QED
      BY <1>3, <2>2, <3>2, <3>3, <3>4, <3>5, <3>6 DEF GoesOn, Task
  <2> QED
    BY <1>2, <2>1, <2>2
<1>5. ASSUME NEW q \in Runs, q # r PROVE Round(q)'
  BY <1>1, <1>3, <1>5, RoundSame DEF Rounds
<1> QED
  BY <1>4, <1>5 DEF Rounds

LEMMA RoundsNext == Linked /\ Rounds /\ [Next]_vars => Rounds'
<1> SUFFICES ASSUME Linked, Rounds, [Next]_vars PROVE Rounds'
  OBVIOUS
<1>1. TypeOK
  BY DEF Linked
<1>2. ASSUME NEW r \in Runs, TaskStep(r) PROVE Rounds'
  BY <1>2, RoundsTask
<1>3. ASSUME NEW r \in Runs, Start(r) PROVE Rounds'
  <2>1. /\ task'[r] = [Unborn EXCEPT !.at = "top"]
        /\ \A q \in Runs \ {r} : task'[q] = task[q]
    BY <1>1, <1>3, BecomeType, UnbornType DEF Start
  <2>2. Round(r)'
    <3>1. /\ task'[r].at = "top" /\ ~task'[r].up
          /\ task'[r].level = 0 /\ task'[r].attempts = 0 /\ task'[r].results = <<>>
      BY <2>1 DEF Unborn
    <3>2. Earned(<<>>, Len(<<>>), 0)
      BY DEF Earned
    <3> QED
      BY <3>1, <3>2 DEF Round
  <2>3. ASSUME NEW q \in Runs, q # r PROVE Round(q)'
    BY <1>1, <2>1, <2>3, RoundSame DEF Rounds
  <2> QED
    BY <2>2, <2>3 DEF Rounds
<1>4. CASE UNCHANGED task
  BY <1>1, <1>4, RoundSame DEF Rounds
<1>5. CASE StopNotifies \/ ExitNotifies
  <2>1. Notify(gui.run)
    BY <1>5 DEF StopNotifies, ExitNotifies
  <2>2. ASSUME NEW q \in Runs
        PROVE  \/ task'[q] = task[q]
               \/ \E guard \in {"fresh", "checked", "waiting", "woken"} :
                     task'[q] = [task[q] EXCEPT !.guard = guard]
    <3>1. task[q] \in Task /\ task \in [Runs -> Task]
      BY <1>1 DEF TypeOK
    <3>2. task[q].guard \in {"fresh", "checked", "waiting", "woken"}
      BY <3>1 DEF Task
    <3>3. CASE q = gui.run
      <4>1. task'[q] = [task[q] EXCEPT !.guard = IF task[q].guard = "waiting" THEN "woken"
                                                 ELSE task[q].guard]
        BY <2>1, <3>1, <3>3 DEF Notify
      <4> QED
        BY <3>2, <4>1
    <3>4. CASE q # gui.run
      BY <2>1, <3>1, <3>4 DEF Notify
    <3> QED
      BY <3>3, <3>4
  <2>3. ASSUME NEW q \in Runs PROVE Round(q)'
    <3>1. Round(q)
      BY DEF Rounds
    <3> QED
      BY <1>1, <2>2, <3>1, RoundSame
  <2> QED
    BY <2>3 DEF Rounds
<1> QED
  BY <1>2, <1>3, <1>4, <1>5
     DEF Next, TaskStep, GuiStep, Stop, Exit, StoreFlag, Pump, vars

LEMMA AlwaysRounds == Spec => [](Linked /\ Rounds)
BY LinkedInit, LinkedNext, RoundsInit, RoundsNext, PTL DEF Spec

\* run_supervised's back-off has one doubling for each failure since the last
\* tunnel, up to MAX_BACKOFF, for any cap and any number of attempts; the wait in
\* front of an attempt is the one earned before the attempt that just ended.
THEOREM BackoffSound == Spec => []WaitsEarned
<1>1. Linked /\ Rounds => WaitsEarned
  BY DEF Rounds, Round, WaitsEarned
<1> QED
  BY <1>1, AlwaysRounds, PTL

-----------------------------------------------------------------------------
(* What the screen shows.                                                  *)

\* The state on screen once everything in the channel has been applied.
Newest(s, shown) == IF s = <<>> THEN shown ELSE s[Len(s)]

\* BadgeFollows and ReconnectsCounted, said with Newest.
Badge == LET r == gui.run
         IN  gui.at = "ui" /\ r # None =>
                /\ Newest(events[r], gui.state) = Reported(r)
                /\ gui.reconnects + Reconnections(events[r]) =
                      task[r].attempts - (IF task[r].at \in {"attempt", "judge"} THEN 1 ELSE 0)

LEMMA NewestIsLast ==
    ASSUME NEW s \in Seq(ConnState), NEW shown \in ConnState \cup {None}
    PROVE  LET seen == <<shown>> \o s IN seen[Len(seen)] = Newest(s, shown)
<1>1. CASE s = <<>>
  BY <1>1 DEF Newest
<1>2. CASE s # <<>>
  <2>1. Len(s) \in Nat /\ Len(s) > 0
    BY <1>2
  <2>2. Len(<<shown>> \o s) = Len(s) + 1
    OBVIOUS
  <2>3. (<<shown>> \o s)[Len(s) + 1] = s[Len(s)]
    BY <2>1
  <2> QED
    BY <1>2, <2>2, <2>3 DEF Newest
<1> QED
  BY <1>1, <1>2

LEMMA NewestAppend ==
    ASSUME NEW s \in Seq(ConnState), NEW shown, NEW report \in ConnState
    PROVE  Newest(Append(s, report), shown) = report
BY DEF Newest

LEMMA ReconnectionsNone == Reconnections(<<>>) = 0
<1>1. {i \in 1..Len(<<>>) : <<>>[i] = "Reconnecting"} = {}
  OBVIOUS
<1> QED
  BY <1>1, FS_EmptySet DEF Reconnections

LEMMA ReconnectionsAppend ==
    ASSUME NEW s \in Seq(ConnState), NEW report \in ConnState
    PROVE  Reconnections(Append(s, report)) =
              Reconnections(s) + (IF report = "Reconnecting" THEN 1 ELSE 0)
<1> DEFINE n == Len(s) + 1
           old == {i \in 1..Len(s) : s[i] = "Reconnecting"}
           new == {i \in 1..Len(Append(s, report)) : Append(s, report)[i] = "Reconnecting"}
<1>1. /\ Len(s) \in Nat /\ Len(Append(s, report)) = n /\ Append(s, report)[n] = report
      /\ \A i \in 1..Len(s) : Append(s, report)[i] = s[i]
  OBVIOUS
<1>2. IsFiniteSet(old)
  BY <1>1, FS_Interval, FS_Subset, IsFiniteSet(1..Len(s))
<1>3. CASE report = "Reconnecting"
  <2>1. new = old \cup {n} /\ n \notin old
    BY <1>1, <1>3
  <2>2. Cardinality(new) = Cardinality(old) + 1
    BY <1>2, <2>1, FS_AddElement
  <2> QED
    BY <1>3, <2>2 DEF Reconnections
<1>4. CASE report # "Reconnecting"
  <2>1. new = old
    BY <1>1, <1>4
  <2>2. Cardinality(old) \in Nat
    BY <1>2, FS_CardinalityType
  <2>3. /\ Reconnections(s) = Cardinality(old)
        /\ Reconnections(Append(s, report)) = Cardinality(new)
    BY DEF Reconnections
  <2> HIDE DEF old, new
  <2> QED
    BY <1>4, <2>1, <2>2, <2>3
<1> QED
  BY <1>3, <1>4

LEMMA BadgeInit == Init => Badge
BY DEF Init, Badge

LEMMA BadgeTask ==
    ASSUME Linked, Rounds, Badge, NEW r \in Runs, TaskStep(r) PROVE Badge'
<1>1. TypeOK /\ Link(r) /\ Round(r)
  BY DEF Linked, Rounds
<1>2. UNCHANGED <<token, gui>> /\ \E t \in Task : Become(r, t) /\ (GoesOn(r, t) \/ Ends(r))
  BY <1>1, TaskSteps
<1>3. PICK t \in Task : Become(r, t) /\ (GoesOn(r, t) \/ Ends(r))
  BY <1>2
<1>4. /\ task'[r] = t /\ task[r] \in Task
      /\ \A q \in Runs \ {r} : task'[q] = task[q] /\ events'[q] = events[q]
  BY <1>1, <1>3, BecomeType, EventsOfStep DEF TypeOK
<1>5. gui \in App /\ events[r] \in Seq(ConnState)
  BY <1>1 DEF TypeOK
<1>6. CASE gui.run # r \/ gui.at # "ui"
  BY <1>2, <1>4, <1>5, <1>6 DEF Badge, Reported, App
<1>7. CASE gui.run = r /\ gui.at = "ui"
  <2>1. token[r] = "armed" /\ ~Cancelled(r) /\ r # None
    BY <1>7, NoneAssumption DEF Linked, Screen, Cancelled
  <2>2. /\ Newest(events[r], gui.state) = Reported(r)
        /\ gui.reconnects + Reconnections(events[r]) =
              task[r].attempts - (IF task[r].at \in {"attempt", "judge"} THEN 1 ELSE 0)
    BY <1>7, <2>1 DEF Badge
  <2>3. GoesOn(r, t)
    BY <1>3, <2>1 DEF Ends
  <2>4. /\ Reconnections(events[r]) \in Nat /\ gui.reconnects \in Nat
        /\ task[r].attempts \in Nat
    BY <1>4, <1>5, ReconnectionsNat, MaxAttemptsAssumption DEF App, Task
  <2>5. ASSUME NEW report \in ConnState, Emit(r, report)
        PROVE  /\ Newest(events'[r], gui.state) = report
               /\ Reconnections(events'[r]) =
                     Reconnections(events[r]) + (IF report = "Reconnecting" THEN 1 ELSE 0)
    <3>1. events'[r] = Append(events[r], report)
      BY <1>1, <2>1, <2>5, EmitType
    <3> QED
      BY <1>5, <3>1, NewestAppend, ReconnectionsAppend
  <2> SUFFICES /\ Newest(events'[r], gui.state) = Reported(r)'
               /\ gui.reconnects + Reconnections(events'[r]) =
                     t.attempts - (IF t.at \in {"attempt", "judge"} THEN 1 ELSE 0)
    BY <1>2, <1>4, <1>7 DEF Badge
  <2>6. CASE task[r].at = "top" /\ t.at = "attempt"
    <3>1. t.attempts = task[r].attempts + 1 /\ t.up = task[r].up /\ Emit(r, "Connecting")
      BY <2>3, <2>6 DEF GoesOn
    <3>2. ~t.up
      BY <1>1, <2>6, <3>1 DEF Round
    <3> QED
      BY <1>4, <2>2, <2>4, <2>5, <2>6, <3>1, <3>2 DEF Reported, ConnState
  <2>7. CASE t.at = task[r].at /\ t.up = task[r].up
    <3>1. t.attempts = task[r].attempts /\ events' = events
      BY <1>4, <2>3, <2>7 DEF GoesOn, Task
    <3> QED
      BY <1>4, <2>2, <2>7, <3>1 DEF Reported
  <2>8. CASE t.at = task[r].at /\ t.up # task[r].up
    <3>1. /\ t.attempts = task[r].attempts /\ t.at = "attempt" /\ t.up
          /\ Emit(r, "Connected")
      BY <1>4, <2>3, <2>8 DEF GoesOn, Task
    <3> QED
      BY <1>4, <2>2, <2>4, <2>5, <2>8, <3>1 DEF Reported, ConnState
  <2>9. CASE t.at = "judge" /\ task[r].at = "attempt"
    <3>1. t.attempts = task[r].attempts /\ t.up = task[r].up /\ events' = events
      BY <1>4, <2>3, <2>9 DEF GoesOn, Task
    <3> QED
      BY <1>4, <2>2, <2>9, <3>1 DEF Reported
  <2>10. CASE t.at = "backoff" /\ task[r].at = "judge"
    <3>1. t.attempts = task[r].attempts /\ Emit(r, "Reconnecting")
      BY <1>4, <2>3, <2>10 DEF GoesOn, Task
    <3> QED
      BY <1>4, <2>2, <2>4, <2>5, <2>10, <3>1 DEF Reported, ConnState
  <2>11. CASE t.at = "top" /\ task[r].at = "backoff"
    <3>1. t.attempts = task[r].attempts /\ events' = events /\ task[r].attempts > 0
      BY <1>1, <1>4, <2>3, <2>11 DEF GoesOn, Task, Round
    <3> QED
      BY <1>4, <2>2, <2>11, <3>1 DEF Reported
  <2> QED
    BY <1>4, <2>3, <2>6, <2>7, <2>8, <2>9, <2>10, <2>11 DEF GoesOn, Task
<1> QED
  BY <1>6, <1>7

LEMMA BadgeNext == Linked /\ Rounds /\ Badge /\ [Next]_vars => Badge'
<1> SUFFICES ASSUME Linked, Rounds, Badge, [Next]_vars PROVE Badge'
  OBVIOUS
<1>1. TypeOK
  BY DEF Linked
<1>2. ASSUME NEW r \in Runs, TaskStep(r) PROVE Badge'
  BY <1>2, BadgeTask
<1>3. ASSUME NEW r \in Runs, Start(r) PROVE Badge'
  <2>1. task'[r] = [Unborn EXCEPT !.at = "top"]
    BY <1>1, <1>3, BecomeType, UnbornType DEF Start
  <2>2. events'[r] = <<>>
    BY <1>3 DEF Linked, Link, Start
  <2>3. gui'.run = r /\ gui'.state = "Connecting" /\ gui'.reconnects = 0
    BY <1>1, <1>3 DEF TypeOK, App, Start
  <2>4. /\ task'[r].at = "top" /\ ~task'[r].up /\ task'[r].attempts = 0
    BY <2>1 DEF Unborn
  <2>5. Reported(r)' = "Connecting"
    BY <2>4 DEF Reported
  <2> QED
    BY <2>2, <2>3, <2>4, <2>5, ReconnectionsNone DEF Badge, Newest
<1>4. CASE Stop \/ Exit
  <2>1. gui'.at # "ui"
    BY <1>1, <1>4 DEF Stop, Exit, StoreFlag, TypeOK, App
  <2> QED
    BY <2>1 DEF Badge
<1>5. CASE StopNotifies \/ ExitNotifies
  <2>1. gui'.at # "ui" \/ gui'.run = None
    BY <1>1, <1>5 DEF StopNotifies, ExitNotifies, TypeOK, App
  <2> QED
    BY <2>1 DEF Badge
<1>6. CASE Pump
  <2> DEFINE r == gui.run
  <2>1. /\ r \in Runs /\ gui.at = "ui" /\ gui \in App /\ r # None
        /\ events[r] \in Seq(ConnState) /\ events[r] # <<>>
    BY <1>1, <1>6 DEF TypeOK, App, Pump
  <2>2. /\ gui'.run = r /\ gui'.at = "ui" /\ gui'.state = events[r][Len(events[r])]
        /\ gui'.reconnects = gui.reconnects + Reconnections(events[r])
        /\ events'[r] = <<>> /\ task' = task
    BY <1>1, <1>6, <2>1 DEF Pump, App, TypeOK
  <2>3. gui.reconnects + Reconnections(events[r]) \in Nat
    BY <2>1, ReconnectionsNat DEF App
  <2>4. Reported(r)' = Reported(r)
    BY <2>2 DEF Reported
  <2> QED
    BY <2>1, <2>2, <2>3, <2>4, ReconnectionsNone DEF Badge, Newest
<1>7. CASE UNCHANGED vars
  BY <1>7 DEF vars, Badge, Reported
<1> QED
  BY <1>2, <1>3, <1>4, <1>5, <1>6, <1>7 DEF Next, TaskStep, GuiStep

LEMMA AlwaysBadge == Spec => [](Linked /\ Badge)
BY AlwaysRounds, BadgeInit, BadgeNext, PTL DEF Spec

\* The badge shows the state the client on screen is in, once everything in the
\* channel is applied; no other run speaks (App::pump_events).
THEOREM BadgeSound == Spec => []BadgeFollows
<1>1. Linked /\ Badge => BadgeFollows
  <2> SUFFICES ASSUME Linked, Badge, gui.at = "ui", gui.run # None
               PROVE  LET seen == <<gui.state>> \o events[gui.run]
                      IN  seen[Len(seen)] = Reported(gui.run)
    BY DEF BadgeFollows
  <2>1. gui.state \in ConnState \cup {None} /\ events[gui.run] \in Seq(ConnState)
    BY DEF Linked, TypeOK, App
  <2> QED
    BY <2>1, NewestIsLast DEF Badge
<1> QED
  BY <1>1, AlwaysBadge, PTL

\* The reconnect counter and the reports on their way add up to the rounds the
\* client on screen has had to wait.
THEOREM CounterSound == Spec => []ReconnectsCounted
<1>1. Badge => ReconnectsCounted
  BY DEF Badge, ReconnectsCounted
<1> QED
  BY <1>1, AlwaysBadge, PTL

=============================================================================
