--------------------------- MODULE SystemProxyProofs ---------------------------
(***************************************************************************)
(* The safety properties of SystemProxy, for any number of runs, locations *)
(* and services.                                                           *)
(***************************************************************************)
EXTENDS SystemProxy, TLAPS

\* One run at a time.
OneAlive ==
    \A q, r \in Runs : run[q].pc \in Alive /\ run[r].pc \in Alive => q = r

\* A run that has read the location, and one that works in the temporary one.
Knows == {"create", "switch", "list", "web", "secure", "notify", "serve", "back", "delete",
          "report"}
Inside == {"list", "web", "secure", "notify", "serve", "back"}

\* The machine is in the temporary location or where the user has put it; it got there
\* by its user, by a run that knows the way back, or by one that was cut off.
Whereabouts ==
    /\ at = Temp => made
    /\ at # Temp => at = chosen
    /\ at # chosen => \/ \E r \in Runs : CutOff(r)
                      \/ \E r \in Runs : run[r].disable /\ run[r].pc \in Inside

\* A run did not end well.
Bad(r) == run[r].option /\ run[r].result \in {"error", "killed"}

\* The temporary location is somebody's: of a run that did not end well, or of one that
\* will still delete it.
Owned ==
    made => \/ \E r \in Runs : Bad(r)
            \/ \E r \in Runs : /\ run[r].option /\ run[r].origin # Temp
                               /\ run[r].pc \in Inside \cup {"switch", "delete"}

\* What each point of a run implies. A run that has found the machine in the temporary
\* location has no way back; one that has a way back goes where the user was.
Course(r) ==
    /\ run[r].pc \in Alive => run[r].result = "none"
    /\ run[r].disable => run[r].option
    /\ run[r].pc = "new" => run[r] = NewRun
    /\ run[r].pc \in Enabling \cup {"notify", "back", "delete", "report"} => run[r].option
    /\ run[r].signalled => run[r].option
    /\ run[r].option /\ run[r].pc \in Knows /\ run[r].origin # Temp => run[r].origin = chosen
    /\ run[r].option /\ run[r].pc \in Inside =>
          at = Temp /\ made /\ (run[r].disable <=> run[r].origin # Temp)
    /\ run[r].pc \in {"location", "create", "switch"} => ~run[r].disable
    /\ run[r].pc \in {"create", "switch"} => at = run[r].origin /\ at # Temp
    /\ run[r].pc = "switch" => made
    /\ run[r].pc = "back" => run[r].disable
    /\ run[r].pc = "delete" => at = run[r].origin /\ at # Temp

\* How far the settings are: the services that are no longer on the list send both
\* protocols to this run.
Progress(r) ==
    /\ run[r].option /\ run[r].pc \in {"web", "secure", "notify", "serve"} =>
          \A s \in Services \ run[r].todo : web[Temp][s] = r /\ secure[Temp][s] = r
    /\ run[r].option /\ run[r].pc \in {"notify", "serve"} => run[r].todo = {}

IInv ==
    /\ TypeOK /\ UserLocationsUntouched /\ OneAlive /\ Whereabouts /\ Owned
    /\ \A r \in Runs : Course(r) /\ Progress(r)

-----------------------------------------------------------------------------

LEMMA InitInv == Init => IInv
<1> SUFFICES ASSUME Init PROVE IInv
  OBVIOUS
<1>1. NewRun \in RunState /\ NewRun.pc = "new" /\ ~NewRun.disable /\ ~NewRun.option
      /\ ~NewRun.signalled /\ NewRun.result = "none"
  BY DEF NewRun, RunState, Places, Alive, Enabling, Result
<1>2. \A r \in Runs : run[r] = NewRun
  BY DEF Init
<1>3. Unset \in Proxies
  BY DEF Unset, Proxies
<1>4. TypeOK
  BY <1>1, <1>3 DEF Init, TypeOK, Places
<1>5. UserLocationsUntouched
  BY DEF Init, UserLocationsUntouched
<1>6. OneAlive /\ Owned
  BY <1>1, <1>2 DEF Init, OneAlive, Alive, Enabling, Owned
<1>7. Whereabouts
  BY SystemProxyAssumption DEF Init, Whereabouts
<1>8. \A r \in Runs : Course(r) /\ Progress(r)
  BY <1>1, <1>2 DEF Course, Progress, Alive, Enabling, Knows, Inside
<1> QED BY <1>4, <1>5, <1>6, <1>7, <1>8 DEF IInv

\* Only one run moves, and no other is alive.
Steps(r) ==
    /\ run[r].pc \in Alive \/ NoneAlive
    /\ run'[r] \in RunState /\ run' \in [Runs -> RunState]
    /\ \A q \in Runs \ {r} : run'[q] = run[q] /\ run[q].pc \notin Alive

\* A step of one run says nothing about the others, which are not alive.
LEMMA StepInv ==
    ASSUME IInv, NEW r \in Runs, Steps(r), Course(r)', Progress(r)',
           TypeOK', UserLocationsUntouched', Whereabouts', Owned'
    PROVE  IInv'
<1>1. ASSUME NEW q \in Runs \ {r} PROVE Course(q)' /\ Progress(q)'
  <2>1. run'[q] = run[q] /\ run[q].pc \notin Alive /\ Course(q)
    BY DEF Steps, IInv
  <2> QED BY <2>1 DEF Course, Progress, Alive, Enabling, Knows, Inside
<1>2. OneAlive'
  BY DEF Steps, OneAlive
<1> QED BY <1>1, <1>2 DEF IInv

\* What was cut off, or went badly, stays so.
LEMMA PastStays ==
    ASSUME IInv, NEW r \in Runs, Steps(r), run[r].pc \in Alive \cup {"new"}
    PROVE  /\ (\E q \in Runs : CutOff(q)) => (\E q \in Runs : CutOff(q)')
           /\ (\E q \in Runs : Bad(q)) => (\E q \in Runs : Bad(q)')
<1>1. ~CutOff(r) /\ ~Bad(r)
  BY DEF IInv, Course, CutOff, Bad, NewRun
<1> QED BY <1>1 DEF Steps, CutOff, Bad

\* A run that moves keeps the others' hold on the machine, since they have none.
LEMMA OnlyOne ==
    ASSUME IInv, NEW r \in Runs, Steps(r)
    PROVE  \A q \in Runs \ {r} : run[q].pc \notin Inside \cup {"switch", "delete"}
BY DEF Steps, Inside, Alive, Enabling

\* From a state with IInv, what the step of run r must show about the machine.
LEMMA Held ==
    ASSUME IInv, NEW r \in Runs, Steps(r), run[r].pc \in Alive \cup {"new"}
    PROVE  /\ at = Temp => made
           /\ at # Temp => at = chosen
           /\ at # chosen => (\E q \in Runs : CutOff(q)') \/ (run[r].disable /\ run[r].pc \in Inside)
           /\ made => \/ \E q \in Runs : Bad(q)'
                      \/ /\ run[r].option /\ run[r].origin # Temp
                         /\ run[r].pc \in Inside \cup {"switch", "delete"}
BY OnlyOne, PastStays DEF IInv, Whereabouts, Owned

-----------------------------------------------------------------------------
(* The steps of a run.                                                     *)

\* The moves that leave the machine as it is.
LEMMA QuietType ==
    ASSUME TypeOK, run' \in [Runs -> RunState], UNCHANGED <<settings, chosen>>,
           UserLocationsUntouched
    PROVE  TypeOK' /\ UserLocationsUntouched'
BY DEF TypeOK, settings, UserLocationsUntouched

LEMMA LaunchInv == ASSUME IInv, NEW r \in Runs, Launch(r) PROVE IInv'
<1>1. PICK option \in BOOLEAN :
          run' = [run EXCEPT ![r].pc = IF option THEN "location" ELSE "serve",
                             ![r].option = option]
  BY DEF Launch
<1>2. run[r] = NewRun /\ run[r].pc = "new" /\ NoneAlive /\ UNCHANGED <<settings, chosen>>
      /\ run \in [Runs -> RunState]
  BY DEF Launch, IInv, Course, TypeOK
<1>3. /\ run'[r].pc = (IF option THEN "location" ELSE "serve") /\ run'[r].option = option
      /\ ~run'[r].disable /\ ~run'[r].signalled /\ run'[r].result = "none"
  BY <1>1, <1>2 DEF NewRun
<1>4. run'[r] \in RunState /\ run' \in [Runs -> RunState]
  <2>1. run'[r] = [run[r] EXCEPT !.pc = IF option THEN "location" ELSE "serve",
                                 !.option = option]
    BY <1>1, <1>2
  <2>2. PICK x, pc : /\ x = run[r] /\ pc = (IF option THEN "location" ELSE "serve")
                     /\ x \in RunState /\ run'[r] = [x EXCEPT !.pc = pc, !.option = option]
    BY <1>2, <2>1
  <2>3. pc \in Alive
    BY <2>2 DEF Alive, Enabling
  <2>4. run'[r] \in RunState
    BY <2>2, <2>3 DEF RunState
  <2> QED BY <1>1, <1>2, <2>4
<1>8. Steps(r)
  BY <1>1, <1>2, <1>4 DEF Steps, NoneAlive
<1>5. TypeOK' /\ UserLocationsUntouched'
  BY <1>2, <1>4, QuietType DEF IInv
<1>6. Whereabouts' /\ Owned'
  BY <1>2, <1>8, Held DEF Whereabouts, Owned, settings, Inside
<1>7. Course(r)' /\ Progress(r)'
  BY <1>3 DEF Course, Progress, Alive, Enabling, Knows, Inside
<1> QED BY <1>8, <1>5, <1>6, <1>7, StepInv

\* Whatever a run has not finished is somebody else's to find.
LEMMA BrokenOffInv ==
    ASSUME IInv, NEW r \in Runs, NEW result \in {"error", "killed"},
           run[r].pc \in Alive \/ (run[r].pc = "new" /\ NoneAlive),
           Exits(r, result), UNCHANGED <<settings, chosen>>
    PROVE  IInv'
<1>1. /\ run'[r].pc = "exited" /\ run'[r].result = result /\ run'[r].option = run[r].option
      /\ run'[r].disable = run[r].disable /\ ~run'[r].signalled
      /\ run'[r] \in RunState /\ run' \in [Runs -> RunState]
      /\ \A q \in Runs \ {r} : run'[q] = run[q]
  BY DEF Exits, IInv, TypeOK, NewRun, RunState, Result, Places, Alive, Enabling
<1>2. Steps(r)
  BY <1>1 DEF Steps, IInv, OneAlive, NoneAlive
<1>3. TypeOK' /\ UserLocationsUntouched'
  BY <1>1, QuietType DEF IInv
<1>4. Whereabouts'
  BY <1>1, <1>2, Held DEF Whereabouts, CutOff, settings
<1>5. Owned'
  BY <1>1, <1>2, Held DEF Owned, Bad, settings
<1>6. Course(r)' /\ Progress(r)'
  BY <1>1 DEF Course, Progress, IInv, Alive, Enabling, Knows, Inside
<1> QED BY <1>2, <1>3, <1>4, <1>5, <1>6, StepInv
\* The moves of a run that only change its own variables: `new` is what they become.
Quiet(r, new) ==
    /\ run[r].pc \in Alive /\ new \in RunState
    /\ run' = [run EXCEPT ![r] = new]
    /\ UNCHANGED <<settings, chosen>>

LEMMA AliveSteps ==
    ASSUME IInv, NEW r \in Runs, run[r].pc \in Alive, NEW new \in RunState,
           run' = [run EXCEPT ![r] = new]
    PROVE  Steps(r) /\ run'[r] = new
BY DEF Steps, IInv, TypeOK, OneAlive

LEMMA QuietInv ==
    ASSUME IInv, NEW r \in Runs, NEW new, Quiet(r, new), Course(r)', Progress(r)',
           new.option = run[r].option, new.disable = run[r].disable,
           run[r].disable /\ run[r].pc \in Inside => new.pc \in Inside,
           run[r].option /\ run[r].origin # Temp /\ run[r].pc \in Inside \cup {"switch", "delete"}
              => /\ new.origin # Temp /\ new.pc \in Inside \cup {"switch", "delete"}
    PROVE  IInv'
<1>1. Steps(r) /\ run'[r] = new
  BY AliveSteps DEF Quiet
<1>2. TypeOK' /\ UserLocationsUntouched'
  BY <1>1, QuietType DEF IInv, Steps, Quiet
<1>3. Whereabouts' /\ Owned'
  BY <1>1, Held DEF Whereabouts, Owned, settings, Quiet
<1> QED BY <1>1, <1>2, <1>3, StepInv

LEMMA SignalInv == ASSUME IInv, NEW r \in Runs, Signal(r) PROVE IInv'
<1>1. CASE run[r].option /\ run[r].pc \notin Enabling \cup {"notify"}
  <2> DEFINE new == [run[r] EXCEPT !.signalled = TRUE]
  <2>1. run[r] \in RunState /\ Course(r) /\ Progress(r)
    BY DEF IInv, TypeOK
  <2>2. Quiet(r, new)
    BY <1>1, <2>1 DEF Quiet, Signal, RunState
  <2>3. Course(r)' /\ Progress(r)'
    BY <1>1, <2>1, <2>2, AliveSteps DEF Quiet, Course, Progress, settings, RunState, Alive,
       Enabling, Knows, Inside
  <2>4. /\ new.option = run[r].option /\ new.disable = run[r].disable
        /\ run[r].disable /\ run[r].pc \in Inside => new.pc \in Inside
        /\ run[r].option /\ run[r].origin # Temp /\ run[r].pc \in Inside \cup {"switch", "delete"}
              => /\ new.origin # Temp /\ new.pc \in Inside \cup {"switch", "delete"}
    BY <2>1 DEF RunState
  <2> HIDE DEF new
  <2> QED BY <2>2, <2>3, <2>4, QuietInv
<1>2. CASE Exits(r, "killed")
  BY <1>2, BrokenOffInv DEF Signal
<1> QED BY <1>1, <1>2 DEF Signal

LEMMA GetCurrentLocationInv == ASSUME IInv, NEW r \in Runs, GetCurrentLocation(r) PROVE IInv'
<1> DEFINE new == [run[r] EXCEPT !.origin = at, !.pc = IF at = Temp THEN "list" ELSE "create"]
<1>1. run[r] \in RunState /\ Course(r) /\ Progress(r) /\ run[r].pc = "location"
      /\ at \in Places /\ Whereabouts
  BY DEF IInv, TypeOK, GetCurrentLocation
<1>2. Quiet(r, new)
  BY <1>1 DEF Quiet, GetCurrentLocation, RunState, Alive, Enabling
<1>3. Course(r)' /\ Progress(r)'
  BY <1>1, <1>2, AliveSteps DEF Quiet, Course, Progress, Whereabouts, settings, RunState, Alive,
     Enabling, Knows, Inside
<1>4. /\ new.option = run[r].option /\ new.disable = run[r].disable
      /\ run[r].disable /\ run[r].pc \in Inside => new.pc \in Inside
      /\ run[r].option /\ run[r].origin # Temp /\ run[r].pc \in Inside \cup {"switch", "delete"}
            => /\ new.origin # Temp /\ new.pc \in Inside \cup {"switch", "delete"}
  BY <1>1 DEF RunState, Inside
<1> HIDE DEF new
<1> QED BY <1>2, <1>3, <1>4, QuietInv

LEMMA ListServicesInv == ASSUME IInv, NEW r \in Runs, ListServices(r) PROVE IInv'
<1> DEFINE new == [run[r] EXCEPT !.pc = NextService(Services), !.todo = Services]
<1>1. run[r] \in RunState /\ Course(r) /\ Progress(r) /\ run[r].pc = "list"
  BY DEF IInv, TypeOK, ListServices
<1>2. Quiet(r, new)
  BY <1>1 DEF Quiet, ListServices, RunState, NextService, Alive, Enabling
<1>3. Course(r)' /\ Progress(r)'
  <2>1. /\ new.pc = NextService(Services) /\ new.todo = Services /\ new.option = run[r].option
        /\ new.origin = run[r].origin /\ new.disable = run[r].disable
        /\ new.signalled = run[r].signalled /\ new.result = run[r].result
    BY <1>1 DEF RunState
  <2> HIDE DEF new
  <2>2. run'[r] = new /\ UNCHANGED <<settings, chosen>>
    BY <1>2, AliveSteps DEF Quiet
  <2>3. new.pc \in {"notify", "web"} /\ (new.pc = "notify" => new.todo = {})
    BY <2>1 DEF NextService
  <2>4. Progress(r)'
    BY <2>1, <2>2, <2>3 DEF Progress
  <2>5. Course(r)'
    BY <1>1, <2>1, <2>2, <2>3 DEF Course, settings, Alive, Enabling, Knows, Inside
  <2> QED BY <2>4, <2>5
<1>4. /\ new.option = run[r].option /\ new.disable = run[r].disable
      /\ run[r].disable /\ run[r].pc \in Inside => new.pc \in Inside
      /\ run[r].option /\ run[r].origin # Temp /\ run[r].pc \in Inside \cup {"switch", "delete"}
            => /\ new.origin # Temp /\ new.pc \in Inside \cup {"switch", "delete"}
  BY <1>1 DEF RunState, Inside, NextService
<1> HIDE DEF new
<1> QED BY <1>2, <1>3, <1>4, QuietInv

LEMMA NotifyInv == ASSUME IInv, NEW r \in Runs, NotifyAndServe(r) PROVE IInv'
<1> DEFINE new == [run[r] EXCEPT !.pc = "serve"]
<1>1. run[r] \in RunState /\ Course(r) /\ Progress(r) /\ run[r].pc = "notify"
  BY DEF IInv, TypeOK, NotifyAndServe
<1>2. Quiet(r, new)
  BY <1>1 DEF Quiet, NotifyAndServe, Goes, RunState, Alive, Enabling
<1>3. Course(r)' /\ Progress(r)'
  BY <1>1, <1>2, AliveSteps DEF Quiet, Course, Progress, settings, RunState, Alive,
     Enabling, Knows, Inside
<1>4. /\ new.option = run[r].option /\ new.disable = run[r].disable
      /\ run[r].disable /\ run[r].pc \in Inside => new.pc \in Inside
      /\ run[r].option /\ run[r].origin # Temp /\ run[r].pc \in Inside \cup {"switch", "delete"}
            => /\ new.origin # Temp /\ new.pc \in Inside \cup {"switch", "delete"}
  BY <1>1 DEF RunState, Inside
<1> HIDE DEF new
<1> QED BY <1>2, <1>3, <1>4, QuietInv

LEMMA TakeSignalInv == ASSUME IInv, NEW r \in Runs, TakeSignal(r) PROVE IInv'
<1> DEFINE new == [run[r] EXCEPT !.pc = IF run[r].disable THEN "back" ELSE "report"]
<1>1. run[r] \in RunState /\ Course(r) /\ Progress(r) /\ run[r].pc = "serve"
      /\ run[r].signalled
  BY DEF IInv, TypeOK, TakeSignal
<1>2. Quiet(r, new)
  BY <1>1 DEF Quiet, TakeSignal, Goes, RunState, Alive, Enabling
<1>3. Course(r)' /\ Progress(r)'
  BY <1>1, <1>2, AliveSteps DEF Quiet, Course, Progress, settings, RunState, Alive,
     Enabling, Knows, Inside
<1>4. run[r].option /\ run[r].origin # Temp => run[r].disable
  BY <1>1 DEF Course, Inside
<1>5. /\ new.option = run[r].option /\ new.disable = run[r].disable
      /\ run[r].disable /\ run[r].pc \in Inside => new.pc \in Inside
      /\ run[r].option /\ run[r].origin # Temp /\ run[r].pc \in Inside \cup {"switch", "delete"}
            => /\ new.origin # Temp /\ new.pc \in Inside \cup {"switch", "delete"}
  BY <1>1, <1>4 DEF RunState, Inside
<1> HIDE DEF new
<1> QED BY <1>2, <1>3, <1>5, QuietInv
LEMMA ReportInv == ASSUME IInv, NEW r \in Runs, Report(r) PROVE IInv'
<1>1. /\ run'[r].pc = "exited" /\ run'[r].result = "ok" /\ run'[r].option = run[r].option
      /\ run'[r].disable = run[r].disable /\ ~run'[r].signalled
      /\ run'[r] \in RunState /\ run' \in [Runs -> RunState]
      /\ \A q \in Runs \ {r} : run'[q] = run[q]
  BY DEF Report, Exits, IInv, TypeOK, NewRun, RunState, Result, Places, Alive, Enabling
<1>2. Steps(r) /\ run[r].pc = "report"
  BY <1>1 DEF Report, Steps, IInv, OneAlive, Alive, Enabling
<1>3. TypeOK' /\ UserLocationsUntouched'
  BY <1>1, QuietType DEF IInv, Report
<1>4. Whereabouts' /\ Owned'
  BY <1>1, <1>2, Held DEF Report, Whereabouts, Owned, settings, Inside, Alive, Enabling
<1>5. Course(r)' /\ Progress(r)'
  BY <1>1, <1>2 DEF Course, Progress, IInv, Alive, Enabling, Knows, Inside
<1> QED BY <1>2, <1>3, <1>4, <1>5, StepInv

LEMMA CreateLocationInv == ASSUME IInv, NEW r \in Runs, CreateLocation(r) PROVE IInv'
<1> DEFINE new == [run[r] EXCEPT !.pc = "switch"]
<1>1. run[r] \in RunState /\ Course(r) /\ run[r].pc = "create" /\ run[r].pc \in Alive
  BY DEF IInv, TypeOK, CreateLocation, Alive, Enabling
<1>2. new \in RunState /\ run' = [run EXCEPT ![r] = new]
  BY <1>1 DEF CreateLocation, Goes, RunState, Alive, Enabling
<1>3. Steps(r) /\ run'[r] = new
  BY <1>1, <1>2, AliveSteps
<1>4. made' = TRUE /\ at' = at /\ chosen' = chosen
  BY DEF CreateLocation
<1>5. /\ web' \in Proxies /\ secure' \in Proxies
      /\ \A l \in Locations : web'[l] = web[l] /\ secure'[l] = secure[l]
  <2>1. web \in Proxies /\ secure \in Proxies
    BY DEF IInv, TypeOK
  <2>2. Unset[Temp] \in [Services -> Runs \cup {NoProxy}]
    BY DEF Unset, Places
  <2>3. ASSUME NEW f \in Proxies
        PROVE  /\ [f EXCEPT ![Temp] = Unset[Temp]] \in Proxies
               /\ \A l \in Locations : [f EXCEPT ![Temp] = Unset[Temp]][l] = f[l]
    BY <2>2, SystemProxyAssumption DEF Proxies, Places
  <2>4. CASE made
    BY <2>1, <2>4 DEF CreateLocation
  <2>5. CASE ~made
    BY <2>1, <2>3, <2>5 DEF CreateLocation
  <2> QED BY <2>4, <2>5
<1>6. TypeOK' /\ UserLocationsUntouched'
  BY <1>3, <1>4, <1>5 DEF IInv, TypeOK, Steps, UserLocationsUntouched
<1>7. Whereabouts'
  BY <1>1, <1>3, <1>4, Held DEF Whereabouts, Inside
<1>8. Course(r)' /\ Progress(r)'
  BY <1>1, <1>3, <1>4 DEF Course, Progress, RunState, Alive, Enabling, Knows, Inside
<1>9. Owned'
  BY <1>1, <1>3, <1>8, SystemProxyAssumption DEF Owned, Course, RunState, Enabling
<1> QED BY <1>3, <1>6, <1>7, <1>8, <1>9, StepInv

LEMMA SwitchToTempInv == ASSUME IInv, NEW r \in Runs, SwitchToTemp(r) PROVE IInv'
<1> DEFINE new == [run[r] EXCEPT !.pc = "list", !.disable = TRUE]
<1>1. run[r] \in RunState /\ Course(r) /\ run[r].pc = "switch" /\ run[r].pc \in Alive
  BY DEF IInv, TypeOK, SwitchToTemp, Alive, Enabling
<1>2. new \in RunState /\ run' = [run EXCEPT ![r] = new]
  BY <1>1 DEF SwitchToTemp, RunState, Alive, Enabling
<1>3. Steps(r) /\ run'[r] = new
  BY <1>1, <1>2, AliveSteps
<1>4. at' = Temp /\ UNCHANGED <<made, web, secure, chosen>>
  BY DEF SwitchToTemp
<1>5. TypeOK' /\ UserLocationsUntouched'
  BY <1>3, <1>4 DEF IInv, TypeOK, Steps, UserLocationsUntouched, Places
<1>6. run[r].option /\ run[r].origin # Temp /\ made
  BY <1>1 DEF Course, Enabling
<1>7. run'[r].disable /\ run'[r].pc = "list" /\ run'[r].option /\ run'[r].origin # Temp
  BY <1>1, <1>3, <1>6 DEF RunState
<1>8. Whereabouts' /\ Owned'
  BY <1>4, <1>6, <1>7 DEF Whereabouts, Owned, Inside
<1>9. Course(r)' /\ Progress(r)'
  BY <1>1, <1>3, <1>4, <1>6 DEF Course, Progress, RunState, Alive, Enabling, Knows, Inside
<1> QED BY <1>3, <1>5, <1>8, <1>9, StepInv

\* Setting the proxy of a service of the temporary location changes no other.
WithProxy(f, s, r) == [f EXCEPT ![Temp][s] = r]

LEMMA SetOne ==
    ASSUME NEW f \in Proxies, NEW s \in Services, NEW r \in Runs
    PROVE  /\ WithProxy(f, s, r) \in Proxies
           /\ \A l \in Locations : WithProxy(f, s, r)[l] = f[l]
           /\ WithProxy(f, s, r)[Temp][s] = r
           /\ \A t \in Services \ {s} : WithProxy(f, s, r)[Temp][t] = f[Temp][t]
<1> DEFINE new == [f[Temp] EXCEPT ![s] = r]
<1>1. Temp \in Places /\ f[Temp] \in [Services -> Runs \cup {NoProxy}]
  BY DEF Proxies, Places
<1>2. new \in [Services -> Runs \cup {NoProxy}] /\ new[s] = r
      /\ \A t \in Services \ {s} : new[t] = f[Temp][t]
  BY <1>1
<1>3. WithProxy(f, s, r) = [f EXCEPT ![Temp] = new]
  BY DEF WithProxy
<1> HIDE DEF new
<1>4. /\ WithProxy(f, s, r) \in Proxies /\ WithProxy(f, s, r)[Temp] = new
      /\ \A l \in Locations : WithProxy(f, s, r)[l] = f[l]
  BY <1>1, <1>2, <1>3, SystemProxyAssumption DEF Proxies, Places
<1> QED BY <1>2, <1>4

LEMMA SetWebProxyInv == ASSUME IInv, NEW r \in Runs, SetWebProxy(r) PROVE IInv'
<1> DEFINE new == [run[r] EXCEPT !.pc = "secure"]
<1>1. /\ run[r] \in RunState /\ Course(r) /\ Progress(r) /\ run[r].pc = "web"
      /\ run[r].pc \in Alive /\ run[r].todo \subseteq Services /\ at = Temp
  BY DEF IInv, TypeOK, SetWebProxy, Course, RunState, Alive, Enabling, Inside
<1>2. new \in RunState /\ run' = [run EXCEPT ![r] = new]
  BY <1>1 DEF SetWebProxy, Goes, RunState, Alive, Enabling
<1>3. Steps(r) /\ run'[r] = new
  BY <1>1, <1>2, AliveSteps
<1>4. UNCHANGED <<at, made, secure, chosen>>
  BY DEF SetWebProxy
<1>5. PICK s \in run[r].todo : web' = [web EXCEPT ![Temp][s] = r]
  BY <1>1 DEF SetWebProxy
<1>6. /\ web' \in Proxies /\ \A l \in Locations : web'[l] = web[l]
      /\ \A t \in Services \ {s} : web'[Temp][t] = web[Temp][t]
  <2>1. web \in Proxies /\ s \in Services
    BY <1>1 DEF IInv, TypeOK
  <2>2. web' = WithProxy(web, s, r)
    BY <1>5 DEF WithProxy
  <2> QED BY <2>1, <2>2, SetOne
<1>7. TypeOK' /\ UserLocationsUntouched'
  BY <1>3, <1>4, <1>6 DEF IInv, TypeOK, Steps, UserLocationsUntouched
<1>8. Whereabouts' /\ Owned'
  BY <1>1, <1>3, <1>4, Held DEF Whereabouts, Owned, RunState, Inside
<1>9. Course(r)' /\ Progress(r)'
  BY <1>1, <1>3, <1>4, <1>6 DEF Course, Progress, RunState, Alive, Enabling, Knows, Inside
<1> QED BY <1>3, <1>7, <1>8, <1>9, StepInv

LEMMA SetSecureWebProxyInv == ASSUME IInv, NEW r \in Runs, SetSecureWebProxy(r) PROVE IInv'
<1>1. /\ run[r] \in RunState /\ Course(r) /\ Progress(r) /\ run[r].pc = "secure"
      /\ run[r].pc \in Alive /\ run[r].todo \subseteq Services /\ at = Temp
  BY DEF IInv, TypeOK, SetSecureWebProxy, Course, RunState, Alive, Enabling, Inside
<1>2. PICK s \in Half(r) :
          /\ secure' = [secure EXCEPT ![Temp][s] = r]
          /\ run' = [run EXCEPT ![r].todo = @ \ {s}, ![r].pc = NextService(run[r].todo \ {s})]
  BY <1>1 DEF SetSecureWebProxy
<1> DEFINE rest == run[r].todo \ {s}
           new == [run[r] EXCEPT !.todo = rest, !.pc = NextService(rest)]
<1>3. NextService(rest) \in {"notify", "web"} /\ (NextService(rest) = "notify" => rest = {})
  BY DEF NextService
<1>4. new \in RunState /\ run' = [run EXCEPT ![r] = new]
  BY <1>1, <1>2, <1>3 DEF RunState, Alive, Enabling, IInv, TypeOK
<1>5. Steps(r) /\ run'[r] = new
  BY <1>1, <1>4, AliveSteps
<1>6. UNCHANGED <<at, made, web, chosen>>
  BY DEF SetSecureWebProxy
<1>7. s \in run[r].todo /\ web[Temp][s] = r
  BY <1>1 DEF Half
<1>8. /\ secure' \in Proxies /\ \A l \in Locations : secure'[l] = secure[l]
      /\ secure'[Temp][s] = r
      /\ \A t \in Services \ {s} : secure'[Temp][t] = secure[Temp][t]
  <2>1. secure \in Proxies /\ s \in Services
    BY <1>1, <1>7 DEF IInv, TypeOK
  <2>2. secure' = WithProxy(secure, s, r)
    BY <1>2 DEF WithProxy
  <2> QED BY <2>1, <2>2, SetOne
<1>9. TypeOK' /\ UserLocationsUntouched'
  BY <1>5, <1>6, <1>8 DEF IInv, TypeOK, Steps, UserLocationsUntouched
<1>10. /\ run'[r].pc \in {"notify", "web"} /\ (run'[r].pc = "notify" => run'[r].todo = {})
       /\ run'[r].todo = rest /\ run'[r].option = run[r].option
       /\ run'[r].origin = run[r].origin /\ run'[r].disable = run[r].disable
       /\ run'[r].signalled = run[r].signalled /\ run'[r].result = run[r].result
  BY <1>1, <1>3, <1>5 DEF RunState
<1> HIDE DEF new
<1>11. Whereabouts' /\ Owned'
  BY <1>1, <1>5, <1>6, <1>10, Held DEF Whereabouts, Owned, Inside
<1>12. Progress(r)'
  BY <1>1, <1>6, <1>7, <1>8, <1>10 DEF Progress
<1>13. Course(r)'
  BY <1>1, <1>6, <1>10 DEF Course, Alive, Enabling, Knows, Inside
<1> QED BY <1>5, <1>9, <1>11, <1>12, <1>13, StepInv

LEMMA SwitchBackInv == ASSUME IInv, NEW r \in Runs, SwitchBack(r) PROVE IInv'
<1> DEFINE new == [run[r] EXCEPT !.pc = "delete"]
<1>1. run[r] \in RunState /\ Course(r) /\ run[r].pc = "back" /\ run[r].pc \in Alive
  BY DEF IInv, TypeOK, SwitchBack, Alive, Enabling
<1>2. new \in RunState /\ run' = [run EXCEPT ![r] = new]
  BY <1>1 DEF SwitchBack, Goes, RunState, Alive, Enabling
<1>3. Steps(r) /\ run'[r] = new
  BY <1>1, <1>2, AliveSteps
<1>4. at' = run[r].origin /\ UNCHANGED <<made, web, secure, chosen>>
  BY DEF SwitchBack
<1>5. run[r].option /\ run[r].origin # Temp /\ run[r].origin = chosen
  BY <1>1 DEF Course, Inside, Knows
<1>6. TypeOK' /\ UserLocationsUntouched'
  BY <1>1, <1>3, <1>4 DEF IInv, TypeOK, Steps, UserLocationsUntouched, RunState
<1>7. Whereabouts' /\ Owned'
  BY <1>1, <1>3, <1>4, <1>5 DEF Whereabouts, Owned, RunState, Inside
<1>8. Course(r)' /\ Progress(r)'
  BY <1>1, <1>3, <1>4, <1>5 DEF Course, Progress, RunState, Alive, Enabling, Knows, Inside
<1> QED BY <1>3, <1>6, <1>7, <1>8, StepInv

LEMMA DeleteTempInv == ASSUME IInv, NEW r \in Runs, DeleteTemp(r) PROVE IInv'
<1> DEFINE new == [run[r] EXCEPT !.pc = "report"]
<1>1. run[r] \in RunState /\ Course(r) /\ run[r].pc = "delete" /\ run[r].pc \in Alive
      /\ at # Temp
  BY DEF IInv, TypeOK, DeleteTemp, Alive, Enabling
<1>2. new \in RunState /\ run' = [run EXCEPT ![r] = new]
  BY <1>1 DEF DeleteTemp, Goes, RunState, Alive, Enabling
<1>3. Steps(r) /\ run'[r] = new
  BY <1>1, <1>2, AliveSteps
<1>4. made' = FALSE /\ UNCHANGED <<at, web, secure, chosen>>
  BY DEF DeleteTemp
<1>5. TypeOK' /\ UserLocationsUntouched'
  BY <1>3, <1>4 DEF IInv, TypeOK, Steps, UserLocationsUntouched
<1>6. Whereabouts' /\ Owned'
  BY <1>1, <1>3, <1>4, Held DEF Whereabouts, Owned
<1>7. Course(r)' /\ Progress(r)'
  BY <1>1, <1>3, <1>4 DEF Course, Progress, RunState, Alive, Enabling, Knows, Inside
<1> QED BY <1>3, <1>5, <1>6, <1>7, StepInv

-----------------------------------------------------------------------------

LEMMA UserSwitchesInv == ASSUME IInv, UserSwitches PROVE IInv'
<1>1. PICK p \in Locations \cup (IF made THEN {Temp} ELSE {}) : at' = p /\ chosen' = p
  BY DEF UserSwitches
<1>2. NoneAlive /\ UNCHANGED <<run, made, web, secure>>
  BY DEF UserSwitches
<1>3. TypeOK' /\ UserLocationsUntouched' /\ OneAlive'
  BY <1>1, <1>2 DEF IInv, TypeOK, UserLocationsUntouched, OneAlive, Places
<1>4. Whereabouts'
  BY <1>1, <1>2, SystemProxyAssumption DEF Whereabouts
<1>5. Owned'
  BY <1>2 DEF IInv, Owned, Bad
<1>6. ASSUME NEW r \in Runs PROVE Course(r)' /\ Progress(r)'
  <2>1. Course(r) /\ run'[r] = run[r] /\ run[r].pc \notin Alive
    BY <1>2 DEF IInv, NoneAlive
  <2> QED BY <2>1 DEF Course, Progress, Alive, Enabling, Knows, Inside
<1> QED BY <1>3, <1>4, <1>5, <1>6 DEF IInv

LEMMA NextInv == IInv /\ [Next]_vars => IInv'
<1> SUFFICES ASSUME IInv, [Next]_vars PROVE IInv'
  OBVIOUS
<1>1. CASE UserSwitches
  BY <1>1, UserSwitchesInv
<1>2. CASE UNCHANGED vars
  BY <1>2 DEF vars, settings, IInv, TypeOK, UserLocationsUntouched, OneAlive, Whereabouts, Owned,
     Bad, CutOff, Course, Progress
<1>3. ASSUME NEW r \in Runs,
             \/ CommandFails(r) \/ Kill(r) \/ ServeFails(r) \/ DisableFails(r) \/ LaunchFails(r)
      PROVE  IInv'
  BY <1>3, BrokenOffInv DEF CommandFails, Kill, ServeFails, DisableFails, LaunchFails, Alive, Enabling
<1>4. ASSUME NEW r \in Runs, Enable(r) PROVE IInv'
  BY <1>4, GetCurrentLocationInv, CreateLocationInv, SwitchToTempInv, ListServicesInv,
     SetWebProxyInv, SetSecureWebProxyInv DEF Enable
<1>5. ASSUME NEW r \in Runs, Disable(r) PROVE IInv'
  BY <1>3, <1>5, TakeSignalInv, SwitchBackInv, DeleteTempInv, ReportInv DEF Disable
<1> QED BY <1>1, <1>2, <1>3, <1>4, <1>5, LaunchInv, NotifyInv, SignalInv DEF Next

\* The inductive invariant.
THEOREM Inductive == Spec => []IInv
<1> QED BY InitInv, NextInv, PTL DEF Spec

\* The variables keep their types.
THEOREM TypeCorrect == Spec => []TypeOK
<1>1. IInv => TypeOK
  BY DEF IInv
<1> QED BY <1>1, Inductive, PTL

\* However runs end and whatever they find, no proxy is set in a location of the user's,
\* and once EnableProxy has returned every service of the current location is set for
\* both protocols (toggle_darwin.go:40).
THEOREM SettingsStayInTemp == Spec => []OnlyTempIsSet
<1>1. IInv => OnlyTempIsSet
  BY DEF IInv, OnlyTempIsSet, EnabledIsWhole, Course, Progress, Inside
<1> QED BY <1>1, Inductive, PTL

\* With no run alive the machine is where its user has put it, unless a run was cut off,
\* and a temporary location is left only by a run that did not end well.
THEOREM MachineIsHome == Spec => []HomeAgain
<1>1. IInv => HomeAgain
  BY DEF IInv, HomeAgain, Whereabouts, Owned, Bad, NoneAlive, Inside, Alive, Enabling
<1> QED BY <1>1, Inductive, PTL

\* Out of the temporary location the machine goes only where its user has been before
\* it, or goes himself.
THEOREM BackHomeOnly == Spec => OnlyBackHome
<1>1. IInv /\ [Next]_vars => [at = Temp /\ at' # Temp => at' = chosen']_vars
  <2> SUFFICES ASSUME IInv, Next, at = Temp, at' # Temp PROVE at' = chosen'
    OBVIOUS
  <2>1. CASE UserSwitches
    BY <2>1 DEF UserSwitches
  <2>2. ASSUME NEW r \in Runs, SwitchBack(r) PROVE at' = chosen'
    BY <2>2 DEF SwitchBack, IInv, Course, Inside, Knows
  <2> QED BY <2>1, <2>2 DEF Next, Launch, LaunchFails, Enable, CommandFails, NotifyAndServe, Signal,
        Kill, ServeFails, Disable, GetCurrentLocation, CreateLocation, SwitchToTemp, ListServices,
        SetWebProxy, SetSecureWebProxy, TakeSignal, DeleteTemp, DisableFails, Report, settings
<1> QED BY <1>1, Inductive, PTL DEF Spec, OnlyBackHome
=============================================================================
