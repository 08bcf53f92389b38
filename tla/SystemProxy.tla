------------------------------ MODULE SystemProxy ------------------------------
(***************************************************************************)
(* --system_proxy on macOS: grpc-proxy makes itself the proxy of the whole *)
(* machine for as long as it runs (internal/proxy_settings/toggle_darwin,  *)
(* called by server.Start).                                                *)
(*                                                                         *)
(* The machine's network settings outlive the process. A run may end in    *)
(* any state, by a signal, a kill or an error of its servers, and the next *)
(* one starts from what it left. `networksetup` is one step for each       *)
(* command, which may fail and then changes nothing. One run at a time;    *)
(* the user changes the location only while none is alive.                 *)
(***************************************************************************)
EXTENDS Integers, FiniteSets

CONSTANTS
    Runs,        \* runs of grpc-proxy, each with an address of its own
    Locations,   \* the user's network locations
    Temp,        \* locationName
    Services     \* the machine's network services

ASSUME SystemProxyAssumption == Temp \notin Locations

VARIABLES
    run,         \* the processes
    at,          \* the current network location
    made,        \* whether Temp exists
    web, secure, \* the HTTP and the HTTPS proxy of every service of a location
    chosen       \* history: the location the user has chosen last

settings == <<at, made, web, secure>>
vars == <<run, settings, chosen>>

NoProxy == "none"
Places == Locations \cup {Temp}
Proxies == [Places -> [Services -> Runs \cup {NoProxy}]]

Enabling == {"location", "create", "switch", "list", "web", "secure"}
Alive == Enabling \cup {"notify", "serve", "back", "delete", "report"}
Result == {"none", "ok", "error", "killed"}

\* A run: what it does next, currentLoc, whether it has switched away from it and has
\* so a way back (disable), the services still to be set, the channel sigs.
RunState ==
    [pc : Alive \cup {"new", "exited"}, option : BOOLEAN, origin : Places, disable : BOOLEAN,
     todo : SUBSET Services, signalled : BOOLEAN, result : Result]

NewRun == [pc |-> "new", option |-> FALSE, origin |-> Temp, disable |-> FALSE, todo |-> {},
           signalled |-> FALSE, result |-> "none"]

Unset == [p \in Places |-> [s \in Services |-> NoProxy]]

Init ==
    /\ run = [r \in Runs |-> NewRun]
    /\ at \in Locations /\ chosen = at
    /\ made = FALSE /\ web = Unset /\ secure = Unset

NoneAlive == \A r \in Runs : run[r].pc \notin Alive

Goes(r, pc) == run' = [run EXCEPT ![r].pc = pc]

\* Its variables are gone; what it was and how far it came is kept for the properties.
Exits(r, result) ==
    run' = [run EXCEPT ![r] = [NewRun EXCEPT !.pc = "exited", !.result = result,
                                             !.option = run[r].option,
                                             !.disable = run[r].disable]]

-----------------------------------------------------------------------------
(* EnableProxy.                                                            *)

\* Start has its listener; without the option it serves at once.
Launch(r) ==
    /\ run[r].pc = "new" /\ NoneAlive
    /\ \E option \in BOOLEAN :
          run' = [run EXCEPT ![r].pc = IF option THEN "location" ELSE "serve",
                             ![r].option = option]
    /\ UNCHANGED <<settings, chosen>>

\* The address is taken, or the file for the TLS secrets cannot be opened.
LaunchFails(r) ==
    /\ run[r].pc = "new" /\ NoneAlive
    /\ Exits(r, "error")
    /\ UNCHANGED <<settings, chosen>>

\* `return nil, err` sets the result `disable` to nil before the deferred function
\* looks at it: what it calls is the dummy, and Start returns the error.
CommandFails(r) ==
    /\ run[r].pc \in Enabling
    /\ Exits(r, "error")
    /\ UNCHANGED <<settings, chosen>>

GetCurrentLocation(r) ==
    /\ run[r].pc = "location"
    /\ run' = [run EXCEPT ![r].origin = at, ![r].pc = IF at = Temp THEN "list" ELSE "create"]
    /\ UNCHANGED <<settings, chosen>>

\* Mutant: what an earlier run has left in the location is taken to be ours.
CreateTrusting(r) ==
    /\ run[r].pc = "create"
    /\ \/ made /\ UNCHANGED <<web, secure>> /\ run' = [run EXCEPT ![r].pc = "notify"]
       \/ /\ ~made /\ Goes(r, "switch")
          /\ web' = [web EXCEPT ![Temp] = Unset[Temp]]
          /\ secure' = [secure EXCEPT ![Temp] = Unset[Temp]]
    /\ made' = TRUE
    /\ UNCHANGED <<at, chosen>>

\* "is already a network location name" is no error, and leaves it as it is.
CreateLocation(r) ==
    /\ run[r].pc = "create"
    /\ Goes(r, "switch")
    /\ made' = TRUE
    /\ IF made THEN UNCHANGED <<web, secure>>
               ELSE /\ web' = [web EXCEPT ![Temp] = Unset[Temp]]
                    /\ secure' = [secure EXCEPT ![Temp] = Unset[Temp]]
    /\ UNCHANGED <<at, chosen>>

SwitchToTemp(r) ==
    /\ run[r].pc = "switch"
    /\ run' = [run EXCEPT ![r].pc = "list", ![r].disable = TRUE]
    /\ at' = Temp
    /\ UNCHANGED <<made, web, secure, chosen>>

NextService(todo) == IF todo = {} THEN "notify" ELSE "web"

ListServices(r) ==
    /\ run[r].pc = "list"
    /\ run' = [run EXCEPT ![r].pc = NextService(Services), ![r].todo = Services]
    /\ UNCHANGED <<settings, chosen>>

\* -setwebproxy and -setsecurewebproxy set the proxy in the current location, whichever
\* that is. The services are taken in the order of the list, here any order.
SetWebProxy(r) ==
    /\ run[r].pc = "web"
    /\ \E s \in run[r].todo : web' = [web EXCEPT ![at][s] = r]
    /\ Goes(r, "secure")
    /\ UNCHANGED <<at, made, secure, chosen>>

\* The service whose HTTP proxy has just been set.
Half(r) == {s \in run[r].todo : web[at][s] = r}

SetSecureWebProxy(r) ==
    /\ run[r].pc = "secure"
    /\ \E s \in Half(r) :
          /\ secure' = [secure EXCEPT ![at][s] = r]
          /\ run' = [run EXCEPT ![r].todo = @ \ {s}, ![r].pc = NextService(run[r].todo \ {s})]
    /\ UNCHANGED <<at, made, web, chosen>>

-----------------------------------------------------------------------------
(* Start, from there on.                                                   *)

\* signal.Notify, and the goroutines that serve.
NotifyAndServe(r) ==
    /\ run[r].pc = "notify"
    /\ Goes(r, "serve")
    /\ UNCHANGED <<settings, chosen>>

\* SIGINT or SIGTERM: caught only after signal.Notify, and once.
Signal(r) ==
    /\ run[r].pc \in Alive
    /\ \/ /\ run[r].option /\ run[r].pc \notin Enabling \cup {"notify"}
          /\ run' = [run EXCEPT ![r].signalled = TRUE]
       \/ /\ ~run[r].option \/ run[r].pc \in Enabling \cup {"notify"}
          /\ Exits(r, "killed")
    /\ UNCHANGED <<settings, chosen>>

\* A crash, a SIGKILL, the machine going down.
Kill(r) ==
    /\ run[r].pc \in Alive
    /\ Exits(r, "killed")
    /\ UNCHANGED <<settings, chosen>>

\* A server's error is what Start returns; nothing is disabled, or no more is.
ServeFails(r) ==
    /\ run[r].pc \in {"serve", "back", "delete", "report"}
    /\ Exits(r, "error")
    /\ UNCHANGED <<settings, chosen>>

\* Mutant: disableProxy is always the dummy.
TakeSignalDummy(r) ==
    /\ run[r].pc = "serve" /\ run[r].signalled
    /\ Goes(r, "report")
    /\ UNCHANGED <<settings, chosen>>

\* The goroutine has the signal and calls disableProxy, which may be the dummy.
TakeSignal(r) ==
    /\ run[r].pc = "serve" /\ run[r].signalled
    /\ Goes(r, IF run[r].disable THEN "back" ELSE "report")
    /\ UNCHANGED <<settings, chosen>>

\* Mutant: back to some location of the user's.
SwitchAnywhere(r) ==
    /\ run[r].pc = "back"
    /\ at' \in Locations
    /\ Goes(r, "delete")
    /\ UNCHANGED <<made, web, secure, chosen>>

SwitchBack(r) ==
    /\ run[r].pc = "back"
    /\ at' = run[r].origin
    /\ Goes(r, "delete")
    /\ UNCHANGED <<made, web, secure, chosen>>

\* -deletelocation refuses the current location.
DeleteTemp(r) ==
    /\ run[r].pc = "delete" /\ at # Temp
    /\ made' = FALSE
    /\ Goes(r, "report")
    /\ UNCHANGED <<at, web, secure, chosen>>

DisableFails(r) ==
    /\ run[r].pc \in {"back", "delete"}
    /\ Exits(r, "error")
    /\ UNCHANGED <<settings, chosen>>

\* Mutant: the result of disableProxy is sent to a channel nobody reads.
ReportNothing(r) ==
    /\ run[r].pc = "report"
    /\ UNCHANGED vars

\* errChan <- disableProxy(), which Start returns.
Report(r) ==
    /\ run[r].pc = "report"
    /\ Exits(r, "ok")
    /\ UNCHANGED <<settings, chosen>>

-----------------------------------------------------------------------------

\* The user chooses a location, perhaps the temporary one if it was left behind.
UserSwitches ==
    /\ NoneAlive
    /\ \E p \in Locations \cup (IF made THEN {Temp} ELSE {}) : at' = p /\ chosen' = p
    /\ UNCHANGED <<run, made, web, secure>>

Enable(r) ==
    \/ GetCurrentLocation(r) \/ CreateLocation(r) \/ SwitchToTemp(r)
    \/ ListServices(r) \/ SetWebProxy(r) \/ SetSecureWebProxy(r)

Disable(r) == TakeSignal(r) \/ SwitchBack(r) \/ DeleteTemp(r) \/ DisableFails(r) \/ Report(r)

Next ==
    \/ UserSwitches
    \/ \E r \in Runs :
          \/ Launch(r) \/ LaunchFails(r) \/ Enable(r) \/ CommandFails(r)
          \/ NotifyAndServe(r) \/ Signal(r) \/ Kill(r) \/ ServeFails(r) \/ Disable(r)

Spec == Init /\ [][Next]_vars

\* The goroutine that waits for the signal goes on, and each command returns.
FairSpec == Spec /\ \A r \in Runs : WF_vars(Disable(r))

-----------------------------------------------------------------------------
(* Properties.                                                             *)

\* The type of every variable.
TypeOK ==
    /\ run \in [Runs -> RunState]
    /\ at \in Places /\ chosen \in Places /\ made \in BOOLEAN
    /\ web \in Proxies /\ secure \in Proxies

\* However runs end and whatever they leave to the next one, no proxy is ever set in a
\* location of the user's own (toggle_darwin.go: "so we can modify it at will").
UserLocationsUntouched ==
    \A l \in Locations : web[l] = Unset[l] /\ secure[l] = Unset[l]

\* Once EnableProxy has returned and until the way back begins, the machine's current
\* location sends both protocols of every service to this run, whatever the run found:
\* no location, an old one with the address of a run before, or itself in the old one.
EnabledIsWhole ==
    \A r \in Runs : run[r].option /\ run[r].pc \in {"notify", "serve"} =>
       /\ at = Temp /\ made
       /\ \A s \in Services : web[Temp][s] = r /\ secure[Temp][s] = r

\* A run that has moved the machine and did not come to its way back.
CutOff(r) == run[r].disable /\ run[r].result \in {"error", "killed"}

\* What is set, and where.
OnlyTempIsSet == UserLocationsUntouched /\ EnabledIsWhole

\* With no run alive, the machine is where its user put it, unless a run was cut off;
\* and a temporary location is left behind only by a run that did not end well. No
\* number of runs in between that end well changes either.
HomeAgain ==
    NoneAlive =>
       /\ at # chosen => \E r \in Runs : CutOff(r)
       /\ made => \E r \in Runs : run[r].option /\ run[r].result \in {"error", "killed"}

\* Out of the temporary location a run leads only to where the user was before it.
OnlyBackHome ==
    [][at = Temp /\ at' # Temp => at' = chosen']_vars

\* A signal ends a run that serves, also while its servers fail or a command does.
SignalEnds ==
    \A r \in Runs : run[r].signalled ~> run[r].pc = "exited"

\* What the deferred function of EnableProxy is there for: "function returned an error
\* so call the disable/teardown function" (toggle_darwin.go:32). A start that failed
\* takes the machine back if it has moved it.
FailureIsUndone ==
    [][\A r \in Runs :
          run[r].pc \in Enabling /\ run[r].disable /\ run'[r].result = "error"
             => at' = run[r].origin]_vars
=============================================================================
