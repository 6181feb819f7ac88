------------------------------ MODULE Generations ------------------------------
(***************************************************************************)
(* The process of run/run.go: serveUntilShutdown, watchForReload and       *)
(* serveGeneration with the Start and Shutdown of internal/app, from the   *)
(* first generation of the application to the exit.                        *)
(*                                                                         *)
(* Of each serving generation there are three goroutines: the main one,    *)
(* which serves, the watcher, which builds the replacement, and the        *)
(* teardown.  The main one waits for the teardown, then for the watcher.   *)
(***************************************************************************)
EXTENDS Integers, FiniteSets

CONSTANTS MaxReloads \* bound of the reload signals

ASSUME ReloadAssumption == MaxReloads \in Nat

Generations == 1..(MaxReloads + 1)
None        == 0

VARIABLES main,     \* serveUntilShutdown and serveGeneration
          watcher,  \* watchForReload: its step, and the replacement it sends
          teardown, \* shutdownApplicationWithTimeout of the serving generation
          app,      \* the generations of the application
          cur,      \* the generation main serves
          startErr, \* StartWithListener returned an error
          genDone,  \* generationCtx is cancelled
          stopped,  \* signalCtx is cancelled: SIGINT or SIGTERM
          reload,   \* a signal waits in the reload channel
          config,   \* version of the configuration that the signals announced
          failed,   \* history: newest version whose build failed
          overrun   \* history: a shutdown has used up its budget

vars == <<main, watcher, teardown, app, cur, startErr, genDone, stopped, reload, config,
          failed, overrun>>

\* server is App.startServer: registered and serving, or returned; asked says
\* that its context is cancelled.  torn counts the calls of Shutdown.
App == [version : 0..MaxReloads, built : BOOLEAN,
        server : {"new", "serving", "returned"}, asked : BOOLEAN,
        torn : Nat, shut : {"new", "drain", "close", "done"}]

NotBuilt == [version |-> 0, built |-> FALSE, server |-> "new", asked |-> FALSE,
             torn |-> 0, shut |-> "new"]

NoWatcher == [step |-> "ended", next |-> None, version |-> 0]

Init == /\ main = "listen" /\ watcher = NoWatcher /\ teardown = "ended"
        /\ app = [g \in Generations |-> [NotBuilt EXCEPT !.built = (g = 1)]]
        /\ cur = 1 /\ startErr = FALSE /\ genDone = FALSE
        /\ stopped = FALSE /\ reload = FALSE /\ config = 0 /\ failed = 0 /\ overrun = FALSE

-------------------------------------------------------------------------------
(* The main goroutine *)

\* socket.next and the goroutines of a new generation.
Listen ==
  /\ main = "listen"
  /\ main' = "start" /\ startErr' = FALSE /\ genDone' = stopped
  /\ watcher' = [NoWatcher EXCEPT !.step = "watch"] /\ teardown' = "wait"
  /\ UNCHANGED <<app, cur, stopped, reload, config, failed, overrun>>

\* No listener: the application that was to serve is torn down.
ListenFails ==
  /\ main = "listen"
  /\ main' = "exiting"
  /\ app' = [app EXCEPT ![cur].torn = @ + 1, ![cur].shut = "drain"]
  /\ UNCHANGED <<watcher, teardown, cur, startErr, genDone, stopped, reload, config, failed, overrun>>

\* startServer registers the stop function, starts what it starts and serves.
Serve ==
  /\ main = "start"
  /\ main' = "serve"
  /\ app' = [app EXCEPT ![cur].server = "serving"]
  /\ UNCHANGED <<watcher, teardown, cur, startErr, genDone, stopped, reload, config, failed, overrun>>

\* The server stops because it is told to, or of its own accord.
ServerStops(ofItself) ==
  /\ main = "serve" /\ (app[cur].asked \/ ofItself)
  /\ main' = "returned" /\ startErr' = ofItself
  /\ app' = [app EXCEPT ![cur].server = "returned"]
  /\ UNCHANGED <<watcher, teardown, cur, genDone, stopped, reload, config, failed, overrun>>

\* Mutant: serveGeneration returns as soon as the server has.
EndGenerationAtOnce ==
  /\ main = "returned"
  /\ main' = "collect" /\ genDone' = TRUE
  /\ UNCHANGED <<watcher, teardown, app, cur, startErr, stopped, reload, config, failed, overrun>>

\* serveGeneration has waited for the teardown; endGeneration.
EndGeneration ==
  /\ main = "returned" /\ teardown = "ended"
  /\ main' = "collect" /\ genDone' = TRUE
  /\ UNCHANGED <<watcher, teardown, app, cur, startErr, stopped, reload, config, failed, overrun>>

\* Mutant: a replacement that comes too late is dropped.
CollectDropping ==
  /\ main = "collect" /\ watcher.step = "ended"
  /\ IF watcher.next = None \/ startErr \/ stopped
     THEN main' = "exited" /\ UNCHANGED cur
     ELSE main' = "listen" /\ cur' = watcher.next
  /\ UNCHANGED <<watcher, teardown, app, startErr, genDone, stopped, reload, config, failed, overrun>>

\* What the watcher sent: the next generation serves, or is torn down unserved.
Collect ==
  /\ main = "collect" /\ watcher.step = "ended"
  /\ CASE watcher.next = None ->
            main' = "exited" /\ UNCHANGED <<cur, app>>
       [] watcher.next # None /\ (startErr \/ stopped) ->
            /\ main' = "exiting" /\ cur' = watcher.next
            /\ app' = [app EXCEPT ![cur'].torn = @ + 1, ![cur'].shut = "drain"]
       [] OTHER ->
            main' = "listen" /\ cur' = watcher.next /\ UNCHANGED app
  /\ UNCHANGED <<watcher, teardown, startErr, genDone, stopped, reload, config, failed, overrun>>

\* The shutdown of a generation that does not serve has returned, or overrun.
Exit == /\ main = "exiting" /\ (app[cur].shut = "done" \/ overrun)
        /\ main' = "exited"
        /\ UNCHANGED <<watcher, teardown, app, cur, startErr, genDone, stopped, reload, config, failed, overrun>>

-------------------------------------------------------------------------------
(* The watcher *)

Watch ==
  /\ watcher.step = "watch"
  /\ \/ genDone /\ watcher' = [watcher EXCEPT !.step = "ended"] /\ UNCHANGED reload
     \/ reload /\ reload' = FALSE
        /\ watcher' = [watcher EXCEPT !.step = "build"]
  /\ UNCHANGED <<main, teardown, app, cur, startErr, genDone, stopped, config, failed, overrun>>

\* rebuild reads the configuration as it is now.
ReadConfig ==
  /\ watcher.step = "build"
  /\ watcher' = [watcher EXCEPT !.step = "init", !.version = config]
  /\ UNCHANGED <<main, teardown, app, cur, startErr, genDone, stopped, reload, config, failed, overrun>>

\* Mutant: a failed build ends the running generation all the same.
BuildFailsEnding ==
  /\ watcher.step = "init"
  /\ watcher' = [watcher EXCEPT !.step = "watch"]
  /\ failed' = watcher.version /\ genDone' = TRUE
  /\ UNCHANGED <<main, teardown, app, cur, startErr, stopped, reload, config, overrun>>

\* The running generation stays, and the watcher waits for the next signal.
BuildFails ==
  /\ watcher.step = "init"
  /\ watcher' = [watcher EXCEPT !.step = "watch"]
  /\ failed' = watcher.version
  /\ UNCHANGED <<main, teardown, app, cur, startErr, genDone, stopped, reload, config, overrun>>

\* Mutant: the replacement is sent without ending the running generation.
BuildUnended ==
  /\ watcher.step = "init"
  /\ \E g \in Generations :
       /\ ~app[g].built /\ \A p \in Generations : p < g => app[p].built
       /\ app' = [app EXCEPT ![g].built = TRUE, ![g].version = watcher.version]
       /\ watcher' = [watcher EXCEPT !.step = "ended", !.next = g]
  /\ UNCHANGED <<main, teardown, cur, startErr, genDone, stopped, reload, config, failed, overrun>>

\* The replacement is sent, then the running generation is ended.
Build ==
  /\ watcher.step = "init"
  /\ \E g \in Generations :
       /\ ~app[g].built /\ \A p \in Generations : p < g => app[p].built
       /\ app' = [app EXCEPT ![g].built = TRUE, ![g].version = watcher.version]
       /\ watcher' = [watcher EXCEPT !.step = "ended", !.next = g]
  /\ genDone' = TRUE
  /\ UNCHANGED <<main, teardown, cur, startErr, stopped, reload, config, failed, overrun>>

-------------------------------------------------------------------------------
(* The teardown *)

\* Mutant: the teardown of a server that stopped by itself runs twice.
TeardownAgain ==
  /\ teardown \in {"wait", "ended"} /\ main # "listen"
  /\ genDone \/ app[cur].server = "returned"
  /\ app[cur].torn < 2
  /\ teardown' = "shutdown"
  /\ app' = [app EXCEPT ![cur].torn = @ + 1, ![cur].shut = "drain"]
  /\ UNCHANGED <<main, watcher, cur, startErr, genDone, stopped, reload, config, failed, overrun>>

\* generationCtx is done, or StartWithListener has returned.
Teardown ==
  /\ teardown = "wait" /\ (genDone \/ app[cur].server = "returned")
  /\ teardown' = "shutdown"
  /\ app' = [app EXCEPT ![cur].torn = @ + 1, ![cur].shut = "drain"]
  /\ UNCHANGED <<main, watcher, cur, startErr, genDone, stopped, reload, config, failed, overrun>>

\* Shutdown asks the server to stop if startServer has registered it ...
AskToStop(g) ==
  /\ app[g].shut = "drain" /\ ~app[g].asked /\ app[g].server = "serving"
  /\ app' = [app EXCEPT ![g].asked = TRUE]
  /\ UNCHANGED <<main, watcher, teardown, cur, startErr, genDone, stopped, reload, config, failed, overrun>>

\* ... and waits for it; a server that is not registered is not waited for.
Drained(g) ==
  /\ app[g].shut = "drain" /\ (app[g].server # "serving" \/ (app[g].asked /\ overrun))
  /\ app' = [app EXCEPT ![g].shut = "close"]
  /\ UNCHANGED <<main, watcher, teardown, cur, startErr, genDone, stopped, reload, config, failed, overrun>>

\* The subsystems close, in shutdownOrder.
CloseAll(g) ==
  /\ app[g].shut = "close"
  /\ app' = [app EXCEPT ![g].shut = "done"]
  /\ UNCHANGED <<main, watcher, teardown, cur, startErr, genDone, stopped, reload, config, failed, overrun>>

\* shutdownApplication returns when Shutdown does, or at the end of its budget.
TeardownEnds ==
  /\ teardown = "shutdown" /\ (app[cur].shut = "done" \/ overrun)
  /\ teardown' = "ended"
  /\ UNCHANGED <<main, watcher, app, cur, startErr, genDone, stopped, reload, config, failed, overrun>>

-------------------------------------------------------------------------------
(* The environment *)

\* The configuration changes, and SIGHUP says so; the channel holds one signal.
Reload == /\ config < MaxReloads /\ main # "exited"
          /\ config' = config + 1 /\ reload' = TRUE
          /\ UNCHANGED <<main, watcher, teardown, app, cur, startErr, genDone, stopped, failed, overrun>>

\* SIGINT or SIGTERM
Stop == /\ ~stopped /\ main # "exited"
        /\ stopped' = TRUE /\ genDone' = TRUE
        /\ UNCHANGED <<main, watcher, teardown, app, cur, startErr, reload, config, failed, overrun>>

\* shutdownTimeout passes before a shutdown has ended.
Overrun == /\ ~overrun /\ \E g \in Generations : app[g].shut \in {"drain", "close"}
           /\ overrun' = TRUE
           /\ UNCHANGED <<main, watcher, teardown, app, cur, startErr, genDone, stopped, reload, config, failed>>

Main == Listen \/ Serve \/ ServerStops(FALSE) \/ EndGeneration \/ Collect \/ Exit
Watcher == Watch \/ ReadConfig \/ BuildFails \/ Build
TeardownStep == \/ Teardown \/ TeardownEnds
                \/ \E g \in Generations : AskToStop(g) \/ Drained(g) \/ CloseAll(g)

Next == \/ Main \/ ListenFails \/ ServerStops(TRUE)
        \/ Watcher
        \/ TeardownStep
        \/ Reload \/ Stop \/ Overrun

Spec == Init /\ [][Next]_vars

\* Goroutines are scheduled, a server that is asked to stop does (its drain has a
\* deadline), builds end and so do the closes.
FairSpec == Spec /\ WF_vars(Main) /\ WF_vars(Watcher) /\ WF_vars(TeardownStep)

-------------------------------------------------------------------------------
(* Properties *)

TypeOK == /\ main \in {"listen", "start", "serve", "returned", "collect", "exiting", "exited"}
          /\ watcher \in [step : {"ended", "watch", "build", "init"},
                          next : Generations \union {None}, version : 0..MaxReloads]
          /\ teardown \in {"wait", "shutdown", "ended"}
          /\ app \in [Generations -> App]
          /\ cur \in Generations /\ config \in 0..MaxReloads

\* Every generation that was built is torn down exactly once, whichever way it
\* ended, by the time the process exits.
TornDownOnce == \A g \in Generations :
                  /\ app[g].torn <= 1
                  /\ main = "exited" /\ app[g].built => app[g].torn = 1

\* A generation takes over when its predecessor has stopped serving and has closed
\* what it owns, unless that overran its budget.
OneAtATime ==
  ~overrun => \A g \in Generations :
    app[g].server # "new" => \A p \in Generations : p < g =>
      app[p].server = "returned" /\ app[p].shut = "done"

\* The server is asked to stop only when its replacement is built, or on a stop
\* signal: a failed reload leaves it serving.
OnlyEndedForCause ==
  main = "serve" /\ app[cur].asked => stopped \/ watcher.next # None

\* A generation whose Shutdown looked for a server before startServer registered
\* one: it serves, and nothing will stop it.
LeftServing == main = "serve" /\ ~app[cur].asked /\ app[cur].shut \in {"close", "done"}

\* A reload is not lost: what was announced is served, or its build has failed, or
\* the process is ending.  (StopEnds says when a generation is
\* left serving.)
ReloadTakesEffect ==
  \A v \in 1..MaxReloads :
    config >= v ~> \/ app[cur].version >= v /\ app[cur].server = "serving"
                   \/ failed >= v \/ stopped \/ startErr
                   \/ main \in {"exiting", "exited"}
                   \/ LeftServing

\* The gateway serves until it is asked to stop: after SIGINT or SIGTERM the
\* process exits.
StopEnds == stopped ~> main = "exited"
===============================================================================
