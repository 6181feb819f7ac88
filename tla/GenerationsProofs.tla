--------------------------- MODULE GenerationsProofs ---------------------------
(***************************************************************************)
(* Proofs about Generations, for any number of reloads: each generation is *)
(* torn down exactly once, a generation serves when its predecessors have  *)
(* ended, a server is asked to stop only for a cause, and no reload that   *)
(* was announced is forgotten.                                             *)
(***************************************************************************)
EXTENDS Generations, TLAPS

\* Nothing has happened to g but that it may be built.
Untouched(g) == /\ app[g].torn = 0 /\ app[g].server = "new" /\ app[g].shut = "new"
                /\ ~app[g].asked

\* The generations before the serving one.
Past == \A p \in Generations : p < cur =>
          /\ app[p].built /\ app[p].torn = 1 /\ app[p].server = "returned"
          /\ app[p].shut = "done" \/ overrun

\* Those after it: none but the replacement is built.
Future == \A g \in Generations : g > cur =>
            /\ Untouched(g)
            /\ app[g].built => g = watcher.next

\* A replacement waits for main; later the watcher's result is what main took.
Replacement == IF main \in {"start", "serve", "returned", "collect"}
               THEN /\ watcher.next # None => watcher.step = "ended" /\ watcher.next = cur + 1
                    /\ watcher.next # None => app[cur + 1].built
               ELSE watcher.step = "ended" /\ teardown = "ended" /\ watcher.next \in {None, cur}

\* How the three goroutines of the serving generation keep step.
Current ==
  /\ app[cur].built
  /\ main = "listen" => Untouched(cur)
  /\ main \in {"start", "serve", "returned", "collect"} /\ teardown = "wait" =>
       app[cur].torn = 0 /\ app[cur].shut = "new" /\ ~app[cur].asked
  /\ main \in {"start", "serve", "returned", "collect"} /\ teardown # "wait" => app[cur].torn = 1
  /\ main \in {"start", "serve", "returned", "collect"} /\ teardown = "ended" =>
       app[cur].shut = "done" \/ overrun
  /\ main \in {"start", "exiting"} => app[cur].server = "new"
  /\ main = "serve" => app[cur].server = "serving"
  /\ main \in {"returned", "collect"} => app[cur].server = "returned"
  /\ main = "collect" => teardown = "ended"
  /\ main \in {"exiting", "exited"} => app[cur].torn = 1

\* The generation's context is done for a cause, and before its teardown runs,
\* unless the server has returned.
Cause == /\ main \in {"start", "serve"} /\ teardown # "wait" => genDone
         /\ main \in {"start", "serve", "returned"} /\ genDone => stopped \/ watcher.next # None

\* The inductive invariant.
IInv == TypeOK /\ Past /\ Future /\ Replacement /\ Current /\ Cause

-------------------------------------------------------------------------------

LEMMA InitInvariant == Init => IInv
<1> SUFFICES ASSUME Init PROVE IInv
  OBVIOUS
<1>1. 1 \in Generations /\ \A g \in Generations : g \in Nat /\ g >= 1
  BY ReloadAssumption DEF Generations
<1>2. ASSUME NEW g \in Generations
      PROVE  app[g] \in App /\ Untouched(g) /\ (app[g].built <=> g = 1)
  <2>1. NotBuilt \in App /\ ~NotBuilt.built
    BY ReloadAssumption DEF NotBuilt, App
  <2>2. CASE g = 1
    <3>1. app[g] = [NotBuilt EXCEPT !.built = TRUE]
      BY <2>2 DEF Init
    <3> QED  BY <2>1, <2>2, <3>1 DEF NotBuilt, App, Untouched
  <2>3. CASE g # 1
    <3>1. app[g] = [NotBuilt EXCEPT !.built = FALSE]
      BY <2>3 DEF Init
    <3> QED  BY <2>1, <2>3, <3>1 DEF NotBuilt, App, Untouched
  <2> QED  BY <2>2, <2>3
<1>3. TypeOK
  <2>1. app \in [Generations -> App]
    <3>1. app = [g \in Generations |-> app[g]]
      BY DEF Init
    <3> QED  BY <1>2, <3>1
  <2> QED  BY <1>1, <2>1, ReloadAssumption DEF Init, TypeOK, NoWatcher, None
<1>4. Past /\ Future
  BY <1>1, <1>2 DEF Init, Past, Future
<1>5. Replacement /\ Current /\ Cause
  BY <1>1, <1>2 DEF Init, Replacement, Current, Cause, NoWatcher, None
<1> QED  BY <1>3, <1>4, <1>5 DEF IInv

\* What a step to one generation's record does to it and leaves of the others.
LEMMA TypeFacts ==
  ASSUME TypeOK
  PROVE  /\ cur \in Generations /\ cur \in Nat /\ cur >= 1
         /\ \A g \in Generations : /\ g \in Nat /\ g >= 1
                                   /\ app[g] \in App /\ app[g].torn \in Nat
         /\ app = [g \in Generations |-> app[g]]
  BY ReloadAssumption DEF TypeOK, Generations, App

LEMMA TornApp ==
  ASSUME NEW a \in App, NEW n \in Nat
  PROVE  [a EXCEPT !.torn = n, !.shut = "drain"] \in App
  BY DEF App

LEMMA BuiltApp ==
  ASSUME NEW a \in App, NEW v \in 0..MaxReloads
  PROVE  [a EXCEPT !.built = TRUE, !.version = v] \in App
  BY DEF App

LEMMA AskedApp ==
  ASSUME NEW a \in App
  PROVE  [a EXCEPT !.asked = TRUE] \in App
  BY DEF App

LEMMA TearDown ==
  ASSUME TypeOK, NEW g \in Generations, app[g].torn = 0,
         app' = [app EXCEPT ![g].torn = @ + 1, ![g].shut = "drain"]
  PROVE  /\ app' \in [Generations -> App]
         /\ \A h \in Generations : h # g => app'[h] = app[h]
         /\ app'[g].torn = 1 /\ app'[g].shut = "drain" /\ app'[g].server = app[g].server
         /\ app'[g].built = app[g].built /\ app'[g].asked = app[g].asked
<1> DEFINE once == app[g].torn + 1
<1>once. once = 1
  OBVIOUS
<1>1. once \in Nat
  OBVIOUS
<1>2. app'[g] = [app[g] EXCEPT !.torn = once, !.shut = "drain"] /\ app[g] \in App
  BY DEF TypeOK
<1> HIDE DEF once
<1>3. \A h \in Generations : h # g => app'[h] = app[h]
  BY DEF TypeOK
<1>4. app'[g] \in App
  BY <1>1, <1>2, TornApp, Zenon
<1>5. app' = [h \in Generations |-> app'[h]]
  BY DEF TypeOK
<1>6. app' \in [Generations -> App]
  <2>1. \A h \in Generations : app'[h] \in App
    BY <1>3, <1>4 DEF TypeOK
  <2> QED  BY <1>5, <2>1
<1> QED  BY <1>once, <1>2, <1>3, <1>6 DEF App

LEMMA StepInvariant == IInv /\ [Next]_vars => IInv'
<1> SUFFICES ASSUME IInv, [Next]_vars PROVE IInv'
  OBVIOUS
<1> USE DEF None
<1>0. TypeOK
  BY DEF IInv
<1>1. CASE Listen
  <2>1. TypeOK'
    BY <1>0, <1>1, TypeFacts, ReloadAssumption DEF Listen, TypeOK, NoWatcher
  <2>2. Past'
    BY <1>0, <1>1, TypeFacts DEF Listen, IInv, Past, Current, NoWatcher
  <2>3. Future'
    BY <1>0, <1>1, TypeFacts DEF Listen, IInv, Future, Replacement, Untouched, NoWatcher
  <2>4. Replacement'
    BY <1>0, <1>1, TypeFacts DEF Listen, IInv, Replacement, Current, NoWatcher
  <2>5. Current'
    BY <1>0, <1>1, TypeFacts DEF Listen, IInv, Current, Replacement, Future, Untouched, NoWatcher
  <2>6. Cause'
    BY <1>0, <1>1, TypeFacts DEF Listen, IInv, Cause, Current, Replacement, NoWatcher
  <2> QED  BY <2>1, <2>2, <2>3, <2>4, <2>5, <2>6 DEF IInv
<1>2. CASE ListenFails
  <2>1. app[cur].torn = 0
    BY <1>2 DEF ListenFails, IInv, Current, Untouched
  <2>2. /\ app' \in [Generations -> App]
        /\ \A h \in Generations : h # cur => app'[h] = app[h]
        /\ app'[cur].torn = 1 /\ app'[cur].server = app[cur].server /\ app'[cur].built = app[cur].built
    BY <1>0, <1>2, <2>1, TearDown, TypeFacts DEF ListenFails
  <2>3. TypeOK'
    BY <1>0, <1>2, TypeFacts, <2>1, <2>2 DEF ListenFails, TypeOK
  <2>4. Past'
    BY <1>0, <1>2, TypeFacts, <2>1, <2>2 DEF ListenFails, IInv, Past, Current
  <2>5. Future'
    BY <1>0, <1>2, TypeFacts, <2>1, <2>2 DEF ListenFails, IInv, Future, Replacement, Untouched
  <2>6. Replacement'
    BY <1>0, <1>2, TypeFacts, <2>1, <2>2 DEF ListenFails, IInv, Replacement, Current
  <2>7. Current'
    BY <1>0, <1>2, TypeFacts, <2>1, <2>2 DEF ListenFails, IInv, Current, Replacement, Future, Untouched
  <2>8. Cause'
    BY <1>0, <1>2, TypeFacts, <2>1, <2>2 DEF ListenFails, IInv, Cause, Current, Replacement
  <2> QED  BY <2>3, <2>4, <2>5, <2>6, <2>7, <2>8 DEF IInv
<1>3. CASE Serve
  <2>1. /\ app' \in [Generations -> App]
        /\ \A h \in Generations : h # cur => app'[h] = app[h]
        /\ app'[cur] = [app[cur] EXCEPT !.server = "serving"]
    BY <1>0, <1>3, TypeFacts DEF Serve, TypeOK, App
  <2>2. TypeOK'
    BY <1>0, <1>3, TypeFacts, <2>1 DEF Serve, TypeOK, App
  <2>3. Past'
    BY <1>0, <1>3, TypeFacts, <2>1 DEF Serve, IInv, Past, Current, App
  <2>4. Future'
    BY <1>0, <1>3, TypeFacts, <2>1 DEF Serve, IInv, Future, Replacement, Untouched, App
  <2>5. Replacement'
    BY <1>0, <1>3, TypeFacts, <2>1 DEF Serve, IInv, Replacement, Current, App
  <2>6. Current'
    BY <1>0, <1>3, TypeFacts, <2>1 DEF Serve, IInv, Current, Replacement, Future, Untouched, App
  <2>7. Cause'
    BY <1>0, <1>3, TypeFacts, <2>1 DEF Serve, IInv, Cause, Current, Replacement, App
  <2> QED  BY <2>2, <2>3, <2>4, <2>5, <2>6, <2>7 DEF IInv
<1>4. ASSUME NEW ofItself \in BOOLEAN, ServerStops(ofItself) PROVE IInv'
  <2>1. /\ app' \in [Generations -> App]
        /\ \A h \in Generations : h # cur => app'[h] = app[h]
        /\ app'[cur] = [app[cur] EXCEPT !.server = "returned"]
    BY <1>0, <1>4, TypeFacts DEF ServerStops, TypeOK, App
  <2>2. TypeOK'
    BY <1>0, <1>4, TypeFacts, <2>1 DEF ServerStops, TypeOK, App
  <2>3. Past'
    BY <1>0, <1>4, TypeFacts, <2>1 DEF ServerStops, IInv, Past, Current, App
  <2>4. Future'
    BY <1>0, <1>4, TypeFacts, <2>1 DEF ServerStops, IInv, Future, Replacement, Untouched, App
  <2>5. Replacement'
    BY <1>0, <1>4, TypeFacts, <2>1 DEF ServerStops, IInv, Replacement, Current, App
  <2>6. Current'
    BY <1>0, <1>4, TypeFacts, <2>1 DEF ServerStops, IInv, Current, Replacement, Future, Untouched, App
  <2>7. Cause'
    BY <1>0, <1>4, TypeFacts, <2>1 DEF ServerStops, IInv, Cause, Current, Replacement, App
  <2> QED  BY <2>2, <2>3, <2>4, <2>5, <2>6, <2>7 DEF IInv
<1>5. CASE EndGeneration
  <2>1. TypeOK'
    BY <1>0, <1>5, TypeFacts DEF EndGeneration, TypeOK
  <2>2. Past'
    BY <1>0, <1>5, TypeFacts DEF EndGeneration, IInv, Past, Current
  <2>3. Future'
    BY <1>0, <1>5, TypeFacts DEF EndGeneration, IInv, Future, Replacement, Untouched
  <2>4. Replacement'
    BY <1>0, <1>5, TypeFacts DEF EndGeneration, IInv, Replacement, Current
  <2>5. Current'
    BY <1>0, <1>5, TypeFacts DEF EndGeneration, IInv, Current, Replacement, Future, Untouched
  <2>6. Cause'
    BY <1>0, <1>5, TypeFacts DEF EndGeneration, IInv, Cause, Current, Replacement
  <2> QED  BY <2>1, <2>2, <2>3, <2>4, <2>5, <2>6 DEF IInv
<1>6. CASE Exit
  <2>1. TypeOK'
    BY <1>0, <1>6, TypeFacts DEF Exit, TypeOK, App
  <2>2. Past'
    BY <1>0, <1>6, TypeFacts DEF Exit, IInv, Past, Current
  <2>3. Future'
    BY <1>0, <1>6, TypeFacts DEF Exit, IInv, Future, Replacement, Untouched
  <2>4. Replacement'
    BY <1>0, <1>6, TypeFacts DEF Exit, IInv, Replacement, Current
  <2>5. Current'
    BY <1>0, <1>6, TypeFacts DEF Exit, IInv, Current, Replacement, Future, Past, Untouched
  <2>6. Cause'
    BY <1>0, <1>6, TypeFacts DEF Exit, IInv, Cause, Current, Replacement
  <2> QED  BY <2>1, <2>2, <2>3, <2>4, <2>5, <2>6 DEF IInv
<1>7. CASE Watch
  <2>1. TypeOK'
    BY <1>0, <1>7, TypeFacts DEF Watch, TypeOK, App
  <2>2. Past'
    BY <1>0, <1>7, TypeFacts DEF Watch, IInv, Past, Current
  <2>3. Future'
    BY <1>0, <1>7, TypeFacts DEF Watch, IInv, Future, Replacement, Untouched
  <2>4. Replacement'
    <3>1. watcher.step = "watch" /\ watcher'.next = watcher.next
      BY <1>0, <1>7 DEF Watch, TypeOK
    <3> QED  BY <1>7, <3>1 DEF Watch, IInv, Replacement
  <2>5. Current'
    BY <1>0, <1>7, TypeFacts DEF Watch, IInv, Current, Replacement, Future, Past, Untouched
  <2>6. Cause'
    BY <1>0, <1>7, TypeFacts DEF Watch, IInv, Cause, Current, Replacement
  <2> QED  BY <2>1, <2>2, <2>3, <2>4, <2>5, <2>6 DEF IInv
<1>8. CASE ReadConfig
  <2>1. TypeOK'
    BY <1>0, <1>8, TypeFacts DEF ReadConfig, TypeOK, App
  <2>2. Past'
    BY <1>0, <1>8, TypeFacts DEF ReadConfig, IInv, Past, Current
  <2>3. Future'
    BY <1>0, <1>8, TypeFacts DEF ReadConfig, IInv, Future, Replacement, Untouched
  <2>4. Replacement'
    BY <1>0, <1>8, TypeFacts DEF ReadConfig, IInv, Replacement, Current
  <2>5. Current'
    BY <1>0, <1>8, TypeFacts DEF ReadConfig, IInv, Current, Replacement, Future, Past, Untouched
  <2>6. Cause'
    BY <1>0, <1>8, TypeFacts DEF ReadConfig, IInv, Cause, Current, Replacement
  <2> QED  BY <2>1, <2>2, <2>3, <2>4, <2>5, <2>6 DEF IInv
<1>9. CASE BuildFails
  <2>1. TypeOK'
    BY <1>0, <1>9, TypeFacts DEF BuildFails, TypeOK, App
  <2>2. Past'
    BY <1>0, <1>9, TypeFacts DEF BuildFails, IInv, Past, Current
  <2>3. Future'
    BY <1>0, <1>9, TypeFacts DEF BuildFails, IInv, Future, Replacement, Untouched
  <2>4. Replacement'
    BY <1>0, <1>9, TypeFacts DEF BuildFails, IInv, Replacement, Current
  <2>5. Current'
    BY <1>0, <1>9, TypeFacts DEF BuildFails, IInv, Current, Replacement, Future, Past, Untouched
  <2>6. Cause'
    BY <1>0, <1>9, TypeFacts DEF BuildFails, IInv, Cause, Current, Replacement
  <2> QED  BY <2>1, <2>2, <2>3, <2>4, <2>5, <2>6 DEF IInv
<1>10. CASE TeardownEnds
  <2>1. TypeOK'
    BY <1>0, <1>10, TypeFacts DEF TeardownEnds, TypeOK, App
  <2>2. Past'
    BY <1>0, <1>10, TypeFacts DEF TeardownEnds, IInv, Past, Current
  <2>3. Future'
    BY <1>0, <1>10, TypeFacts DEF TeardownEnds, IInv, Future, Replacement, Untouched
  <2>4. Replacement'
    BY <1>0, <1>10, TypeFacts DEF TeardownEnds, IInv, Replacement, Current
  <2>5. Current'
    BY <1>0, <1>10, TypeFacts DEF TeardownEnds, IInv, Current, Replacement, Future, Past, Untouched
  <2>6. Cause'
    BY <1>0, <1>10, TypeFacts DEF TeardownEnds, IInv, Cause, Current, Replacement
  <2> QED  BY <2>1, <2>2, <2>3, <2>4, <2>5, <2>6 DEF IInv
<1>11. CASE Reload
  <2>1. TypeOK'
    BY <1>0, <1>11, TypeFacts, ReloadAssumption DEF Reload, TypeOK
  <2>2. Past'
    BY <1>0, <1>11, TypeFacts DEF Reload, IInv, Past, Current
  <2>3. Future'
    BY <1>0, <1>11, TypeFacts DEF Reload, IInv, Future, Replacement, Untouched
  <2>4. Replacement'
    BY <1>0, <1>11, TypeFacts DEF Reload, IInv, Replacement, Current
  <2>5. Current'
    BY <1>0, <1>11, TypeFacts DEF Reload, IInv, Current, Replacement, Future, Past, Untouched
  <2>6. Cause'
    BY <1>0, <1>11, TypeFacts DEF Reload, IInv, Cause, Current, Replacement
  <2> QED  BY <2>1, <2>2, <2>3, <2>4, <2>5, <2>6 DEF IInv
<1>12. CASE Stop
  <2>1. TypeOK'
    BY <1>0, <1>12, TypeFacts DEF Stop, TypeOK, App
  <2>2. Past'
    BY <1>0, <1>12, TypeFacts DEF Stop, IInv, Past, Current
  <2>3. Future'
    BY <1>0, <1>12, TypeFacts DEF Stop, IInv, Future, Replacement, Untouched
  <2>4. Replacement'
    BY <1>0, <1>12, TypeFacts DEF Stop, IInv, Replacement, Current
  <2>5. Current'
    BY <1>0, <1>12, TypeFacts DEF Stop, IInv, Current, Replacement, Future, Past, Untouched
  <2>6. Cause'
    BY <1>0, <1>12, TypeFacts DEF Stop, IInv, Cause, Current, Replacement
  <2> QED  BY <2>1, <2>2, <2>3, <2>4, <2>5, <2>6 DEF IInv
<1>13. CASE Overrun
  <2>1. TypeOK'
    BY <1>0, <1>13, TypeFacts DEF Overrun, TypeOK, App
  <2>2. Past'
    BY <1>0, <1>13, TypeFacts DEF Overrun, IInv, Past, Current
  <2>3. Future'
    BY <1>0, <1>13, TypeFacts DEF Overrun, IInv, Future, Replacement, Untouched
  <2>4. Replacement'
    BY <1>0, <1>13, TypeFacts DEF Overrun, IInv, Replacement, Current
  <2>5. Current'
    BY <1>0, <1>13, TypeFacts DEF Overrun, IInv, Current, Replacement, Future, Past, Untouched
  <2>6. Cause'
    BY <1>0, <1>13, TypeFacts DEF Overrun, IInv, Cause, Current, Replacement
  <2> QED  BY <2>1, <2>2, <2>3, <2>4, <2>5, <2>6 DEF IInv
<1>14. CASE UNCHANGED vars
  <2>1. TypeOK'
    BY <1>0, <1>14, TypeFacts DEF vars, TypeOK, App
  <2>2. Past'
    BY <1>0, <1>14, TypeFacts DEF vars, IInv, Past, Current
  <2>3. Future'
    BY <1>0, <1>14, TypeFacts DEF vars, IInv, Future, Replacement, Untouched
  <2>4. Replacement'
    BY <1>0, <1>14, TypeFacts DEF vars, IInv, Replacement, Current
  <2>5. Current'
    BY <1>0, <1>14, TypeFacts DEF vars, IInv, Current, Replacement, Future, Past, Untouched
  <2>6. Cause'
    BY <1>0, <1>14, TypeFacts DEF vars, IInv, Cause, Current, Replacement
  <2> QED  BY <2>1, <2>2, <2>3, <2>4, <2>5, <2>6 DEF IInv
<1>15. ASSUME NEW g \in Generations, AskToStop(g) PROVE IInv'
  <2>1. /\ app' \in [Generations -> App]
        /\ \A h \in Generations : h # g => app'[h] = app[h]
        /\ app'[g] = [app[g] EXCEPT !.asked = TRUE]
    <3>1. [app[g] EXCEPT !.asked = TRUE] \in App
      BY <1>0, TypeFacts, AskedApp, Zenon
    <3> QED  BY <1>0, <1>15, <3>1, TypeFacts DEF AskToStop, TypeOK
  <2>2. TypeOK'
    BY <1>0, <1>15, TypeFacts, <2>1 DEF AskToStop, TypeOK, App
  <2>3. Past'
    BY <1>0, <1>15, TypeFacts, <2>1 DEF AskToStop, IInv, Past, Current
  <2>4. Future'
    BY <1>0, <1>15, TypeFacts, <2>1 DEF AskToStop, IInv, Future, Replacement, Untouched
  <2>5. Replacement'
    BY <1>0, <1>15, TypeFacts, <2>1 DEF AskToStop, IInv, Replacement, Current
  <2>6. Current'
    BY <1>0, <1>15, TypeFacts, <2>1 DEF AskToStop, IInv, Current, Replacement, Future, Past, Untouched
  <2>7. Cause'
    BY <1>0, <1>15, TypeFacts, <2>1 DEF AskToStop, IInv, Cause, Current, Replacement
  <2> QED  BY <2>2, <2>3, <2>4, <2>5, <2>6, <2>7 DEF IInv
<1>16. ASSUME NEW g \in Generations, Drained(g) PROVE IInv'
  <2>1. /\ app' \in [Generations -> App]
        /\ \A h \in Generations : h # g => app'[h] = app[h]
        /\ app'[g] = [app[g] EXCEPT !.shut = "close"]
    BY <1>0, <1>16, TypeFacts DEF Drained, TypeOK, App
  <2>2. TypeOK'
    BY <1>0, <1>16, TypeFacts, <2>1 DEF Drained, TypeOK, App
  <2>3. Past'
    BY <1>0, <1>16, TypeFacts, <2>1 DEF Drained, IInv, Past, Current
  <2>4. Future'
    BY <1>0, <1>16, TypeFacts, <2>1 DEF Drained, IInv, Future, Replacement, Untouched
  <2>5. Replacement'
    BY <1>0, <1>16, TypeFacts, <2>1 DEF Drained, IInv, Replacement, Current
  <2>6. Current'
    BY <1>0, <1>16, TypeFacts, <2>1 DEF Drained, IInv, Current, Replacement, Future, Past, Untouched
  <2>7. Cause'
    BY <1>0, <1>16, TypeFacts, <2>1 DEF Drained, IInv, Cause, Current, Replacement
  <2> QED  BY <2>2, <2>3, <2>4, <2>5, <2>6, <2>7 DEF IInv
<1>17. ASSUME NEW g \in Generations, CloseAll(g) PROVE IInv'
  <2>1. /\ app' \in [Generations -> App]
        /\ \A h \in Generations : h # g => app'[h] = app[h]
        /\ app'[g] = [app[g] EXCEPT !.shut = "done"]
    BY <1>0, <1>17, TypeFacts DEF CloseAll, TypeOK, App
  <2>2. TypeOK'
    BY <1>0, <1>17, TypeFacts, <2>1 DEF CloseAll, TypeOK, App
  <2>3. Past'
    BY <1>0, <1>17, TypeFacts, <2>1 DEF CloseAll, IInv, Past, Current
  <2>4. Future'
    BY <1>0, <1>17, TypeFacts, <2>1 DEF CloseAll, IInv, Future, Replacement, Untouched
  <2>5. Replacement'
    BY <1>0, <1>17, TypeFacts, <2>1 DEF CloseAll, IInv, Replacement, Current
  <2>6. Current'
    BY <1>0, <1>17, TypeFacts, <2>1 DEF CloseAll, IInv, Current, Replacement, Future, Past, Untouched
  <2>7. Cause'
    BY <1>0, <1>17, TypeFacts, <2>1 DEF CloseAll, IInv, Cause, Current, Replacement
  <2> QED  BY <2>2, <2>3, <2>4, <2>5, <2>6, <2>7 DEF IInv
<1>18. CASE Teardown
  <2>1. app[cur].torn = 0
    BY <1>18 DEF Teardown, IInv, Current, Replacement, Untouched
  <2>2. /\ app' \in [Generations -> App]
        /\ \A h \in Generations : h # cur => app'[h] = app[h]
        /\ app'[cur].torn = 1 /\ app'[cur].shut = "drain"
        /\ app'[cur].server = app[cur].server /\ app'[cur].built = app[cur].built
        /\ app'[cur].asked = app[cur].asked
    BY <1>0, <1>18, <2>1, TearDown, TypeFacts DEF Teardown
  <2>3. TypeOK'
    BY <1>0, <1>18, TypeFacts, <2>1, <2>2 DEF Teardown, TypeOK
  <2>4. Past'
    BY <1>0, <1>18, TypeFacts, <2>1, <2>2 DEF Teardown, IInv, Past, Current
  <2>5. Future'
    BY <1>0, <1>18, TypeFacts, <2>1, <2>2 DEF Teardown, IInv, Future, Replacement, Untouched
  <2>6. Replacement'
    <3>1. main \in {"start", "serve", "returned", "collect"}
      BY <1>18 DEF Teardown, IInv, Replacement
    <3>2. ASSUME watcher.next # None
          PROVE  watcher.step = "ended" /\ watcher.next = cur + 1 /\ app'[cur + 1] = app[cur + 1]
      BY <1>0, <2>2, <3>1, <3>2, TypeFacts DEF IInv, Replacement, TypeOK
    <3> QED  BY <1>18, <3>1, <3>2 DEF Teardown, IInv, Replacement
  <2>7. Current'
    BY <1>0, <1>18, TypeFacts, <2>1, <2>2 DEF Teardown, IInv, Current, Replacement, Future, Past, Untouched
  <2>8. Cause'
    BY <1>0, <1>18, TypeFacts, <2>1, <2>2 DEF Teardown, IInv, Cause, Current, Replacement
  <2> QED  BY <2>3, <2>4, <2>5, <2>6, <2>7, <2>8 DEF IInv
<1>19. CASE Build
  <2>0. PICK g \in Generations :
         /\ ~app[g].built /\ \A p \in Generations : p < g => app[p].built
         /\ app' = [app EXCEPT ![g].built = TRUE, ![g].version = watcher.version]
         /\ watcher' = [watcher EXCEPT !.step = "ended", !.next = g]
    BY <1>19 DEF Build
  <2>1. /\ main \in {"start", "serve", "returned", "collect"} /\ watcher.next = 0
    BY <1>19 DEF Build, IInv, Replacement
  <2>2. g = cur + 1
    <3>1. g > cur
      <4>1. g # cur /\ ~(g < cur)
        BY <2>0 DEF IInv, Past, Current
      <4> QED  BY <4>1, TypeFacts, <1>0
    <3>2. g - 1 \in Generations /\ g - 1 < g
      BY <3>1, TypeFacts, <1>0, ReloadAssumption DEF Generations
    <3>3. ~(g - 1 > cur)
      BY <2>0, <2>1, <3>2, TypeFacts, <1>0 DEF IInv, Future
    <3> QED  BY <3>1, <3>3, TypeFacts, <1>0
  <2>3. /\ app' \in [Generations -> App]
        /\ \A h \in Generations : h # g => app'[h] = app[h]
        /\ app'[g] = [app[g] EXCEPT !.built = TRUE, !.version = watcher.version]
    <3>1. watcher.version \in 0..MaxReloads
      BY <1>0 DEF TypeOK
    <3>2. [app[g] EXCEPT !.built = TRUE, !.version = watcher.version] \in App
      <4>1. app[g] \in App
        BY TypeFacts, <1>0
      <4> QED  BY <3>1, <4>1, BuiltApp, Zenon
    <3> QED  BY <1>0, <2>0, <3>2, TypeFacts DEF TypeOK
  <2>5. TypeOK'
    BY <1>0, <1>19, TypeFacts, <2>0, <2>1, <2>2, <2>3 DEF Build, TypeOK, App
  <2>6. Past'
    BY <1>0, <1>19, TypeFacts, <2>0, <2>1, <2>2, <2>3 DEF Build, IInv, Past, Current
  <2>7. Future'
    BY <1>0, <1>19, TypeFacts, <2>0, <2>1, <2>2, <2>3 DEF Build, IInv, Future, Replacement, Untouched
  <2>8. Replacement'
    BY <1>0, <1>19, TypeFacts, <2>0, <2>1, <2>2, <2>3 DEF Build, IInv, Replacement, Current
  <2>9. Current'
    BY <1>0, <1>19, TypeFacts, <2>0, <2>1, <2>2, <2>3 DEF Build, IInv, Current, Replacement, Future, Past, Untouched
  <2>10. Cause'
    BY <1>0, <1>19, TypeFacts, <2>0, <2>1, <2>2, <2>3 DEF Build, IInv, Cause, Current, Replacement
  <2> QED  BY <2>5, <2>6, <2>7, <2>8, <2>9, <2>10 DEF IInv
<1>20. CASE Collect
  <2>1. CASE watcher.next = None
    <3>10. TypeOK'
      BY <1>0, <1>20, <2>1, TypeFacts DEF Collect, TypeOK, App
    <3>20. Past'
      BY <1>0, <1>20, <2>1, TypeFacts DEF Collect, IInv, Past, Current
    <3>30. Future'
      BY <1>0, <1>20, <2>1, TypeFacts DEF Collect, IInv, Future, Replacement, Untouched
    <3>40. Replacement'
      BY <1>0, <1>20, <2>1, TypeFacts DEF Collect, IInv, Replacement, Current
    <3>50. Current'
      BY <1>0, <1>20, <2>1, TypeFacts DEF Collect, IInv, Current, Replacement, Future, Past, Untouched
    <3>60. Cause'
      BY <1>0, <1>20, <2>1, TypeFacts DEF Collect, IInv, Cause, Current, Replacement
    <3> QED  BY <3>10, <3>20, <3>30, <3>40, <3>50, <3>60 DEF IInv
  <2>2. CASE watcher.next # None /\ (startErr \/ stopped)
    <3>1. /\ cur' = cur + 1 /\ cur' \in Generations /\ app[cur'].torn = 0
          /\ app' = [app EXCEPT ![cur'].torn = @ + 1, ![cur'].shut = "drain"]
      BY <1>0, <1>20, <2>2, TypeFacts DEF Collect, IInv, Replacement, Future, Untouched, TypeOK
    <3>2. /\ app' \in [Generations -> App]
          /\ \A h \in Generations : h # cur' => app'[h] = app[h]
          /\ app'[cur'].torn = 1
          /\ app'[cur'].server = app[cur'].server /\ app'[cur'].built = app[cur'].built
      BY <1>0, <3>1, TearDown
    <3>10. TypeOK'
      BY <1>0, <1>20, <2>2, TypeFacts, <3>1, <3>2 DEF Collect, TypeOK
    <3>20. Past'
      BY <1>0, <1>20, <2>2, TypeFacts, <3>1, <3>2 DEF Collect, IInv, Past, Current
    <3>30. Future'
      BY <1>0, <1>20, <2>2, TypeFacts, <3>1, <3>2 DEF Collect, IInv, Future, Replacement, Untouched
    <3>40. Replacement'
      BY <1>0, <1>20, <2>2, TypeFacts, <3>1, <3>2 DEF Collect, IInv, Replacement, Current
    <3>50. Current'
      BY <1>0, <1>20, <2>2, TypeFacts, <3>1, <3>2 DEF Collect, IInv, Current, Replacement, Future, Past, Untouched
    <3>60. Cause'
      BY <1>0, <1>20, <2>2, TypeFacts, <3>1, <3>2 DEF Collect, IInv, Cause, Current, Replacement
    <3> QED  BY <3>10, <3>20, <3>30, <3>40, <3>50, <3>60 DEF IInv
  <2>3. CASE watcher.next # None /\ ~(startErr \/ stopped)
    <3>1. cur' = cur + 1 /\ cur' \in Generations /\ app' = app
      BY <1>0, <1>20, <2>3, TypeFacts DEF Collect, IInv, Replacement, TypeOK
    <3>10. TypeOK'
      BY <1>0, <1>20, <2>3, TypeFacts, <3>1 DEF Collect, TypeOK, App
    <3>20. Past'
      BY <1>0, <1>20, <2>3, TypeFacts, <3>1 DEF Collect, IInv, Past, Current
    <3>30. Future'
      BY <1>0, <1>20, <2>3, TypeFacts, <3>1 DEF Collect, IInv, Future, Replacement, Untouched
    <3>40. Replacement'
      BY <1>0, <1>20, <2>3, TypeFacts, <3>1 DEF Collect, IInv, Replacement, Current
    <3>50. Current'
      BY <1>0, <1>20, <2>3, TypeFacts, <3>1 DEF Collect, IInv, Current, Replacement, Future, Past, Untouched
    <3>60. Cause'
      BY <1>0, <1>20, <2>3, TypeFacts, <3>1 DEF Collect, IInv, Cause, Current, Replacement
    <3> QED  BY <3>10, <3>20, <3>30, <3>40, <3>50, <3>60 DEF IInv
  <2> QED  BY <2>1, <2>2, <2>3
<1> QED
  BY <1>1, <1>2, <1>3, <1>4, <1>5, <1>6, <1>7, <1>8, <1>9, <1>10, <1>11, <1>12, <1>13, <1>14, <1>15, <1>16, <1>17, <1>18, <1>19, <1>20
  DEF Next, Main, Watcher, TeardownStep

-------------------------------------------------------------------------------
(* The theorems *)

\* The inductive invariant holds in every state of every behaviour, for any number
\* of reloads: how serveUntilShutdown, watchForReload and the teardown keep step.
THEOREM Invariance == Spec => []IInv
<1>1. IInv /\ [Next]_vars => IInv'
  BY StepInvariant
<1> QED  BY <1>1, InitInvariant, PTL DEF Spec

\* serveUntilShutdown and serveGeneration tear each generation that was built down
\* once, and none twice, by the time the process exits.
THEOREM EachIsTornDownOnce == Spec => []TornDownOnce
<1>1. IInv => TornDownOnce
  <2> SUFFICES ASSUME IInv, NEW g \in Generations
               PROVE  app[g].torn <= 1 /\ (main = "exited" /\ app[g].built => app[g].torn = 1)
    BY DEF TornDownOnce
  <2>1. TypeOK
    BY DEF IInv
  <2>2. CASE g < cur
    BY <2>2 DEF IInv, Past
  <2>3. CASE g = cur
    BY <2>1, <2>3 DEF IInv, Current, Untouched, TypeOK
  <2>4. CASE g > cur
    BY <2>1, <2>4, TypeFacts DEF IInv, Future, Untouched, Replacement, None
  <2> QED  BY <2>1, <2>2, <2>3, <2>4, TypeFacts
<1> QED  BY <1>1, Invariance, PTL

\* A generation serves when those before it have stopped and closed what they own.
THEOREM SuccessorsWait == Spec => []OneAtATime
<1>1. IInv => OneAtATime
  <2> SUFFICES ASSUME IInv, ~overrun, NEW g \in Generations, app[g].server # "new",
                      NEW p \in Generations, p < g
               PROVE  app[p].server = "returned" /\ app[p].shut = "done"
    BY DEF OneAtATime
  <2>1. TypeOK
    BY DEF IInv
  <2>2. ~(g > cur)
    BY DEF IInv, Future, Untouched
  <2>3. p < cur
    BY <2>1, <2>2, TypeFacts
  <2> QED  BY <2>3 DEF IInv, Past
<1> QED  BY <1>1, Invariance, PTL

\* A server is asked to stop for a stop signal or for the replacement that
\* watchForReload has built: a failed reload leaves it serving.
THEOREM EndedForCause == Spec => []OnlyEndedForCause
<1>1. IInv => OnlyEndedForCause
  <2> SUFFICES ASSUME IInv, main = "serve", app[cur].asked
               PROVE  stopped \/ watcher.next # None
    BY DEF OnlyEndedForCause
  <2>1. teardown # "wait"
    BY DEF IInv, Current
  <2> QED  BY <2>1 DEF IInv, Cause
<1> QED  BY <1>1, Invariance, PTL

-------------------------------------------------------------------------------
(* Reloads *)

\* Versions are read from a configuration that only moves forward.
Versions ==
  /\ failed \in 0..config /\ watcher.version <= config /\ app[cur].version <= config
  /\ watcher.step = "init" => failed <= watcher.version /\ app[cur].version <= watcher.version
  /\ watcher.next # None => app[cur].version <= app[watcher.next].version
                            /\ app[watcher.next].version <= config
  /\ main \in {"listen", "start", "serve"} => ~startErr

\* The configuration that was announced last is still to be read, is being built, is
\* on its way to main or is served, unless its build has failed or the process ends.
NotForgotten ==
  \/ reload \/ watcher.step = "build"
  \/ watcher.step = "init" /\ watcher.version = config
  \/ watcher.next # None /\ app[watcher.next].version = config
  \/ app[cur].version = config
  \/ failed = config
  \/ stopped \/ startErr \/ main \in {"exiting", "exited"}

ReloadInv == Versions /\ NotForgotten

\* A step that touches neither the watcher nor what it reads.
LEMMA QuietStep ==
  ASSUME TypeOK, ReloadInv, UNCHANGED <<watcher, cur, reload, config, failed>>,
         \A g \in Generations : app'[g].version = app[g].version,
         stopped => stopped', startErr => startErr',
         main \in {"exiting", "exited"} => main' \in {"exiting", "exited"},
         main' \in {"listen", "start", "serve"} => ~startErr'
  PROVE  ReloadInv'
<1>1. cur \in Generations /\ (watcher.next # None => watcher.next \in Generations)
  BY DEF TypeOK
<1>2. app'[cur].version = app[cur].version
  BY <1>1
<1>3. watcher.next # None => app'[watcher.next].version = app[watcher.next].version
  BY <1>1
<1>4. Versions'
  BY <1>2, <1>3 DEF ReloadInv, Versions
<1>5. NotForgotten'
  BY <1>2, <1>3 DEF ReloadInv, NotForgotten
<1> QED  BY <1>4, <1>5 DEF ReloadInv

\* What a shutdown and a server do to a generation leaves its version alone.
LEMMA SameVersions ==
  ASSUME TypeOK, NEW g \in Generations,
         \/ app' = app
         \/ app' = [app EXCEPT ![g].torn = @ + 1, ![g].shut = "drain"]
         \/ \E x : \/ app' = [app EXCEPT ![g].server = x]
                   \/ app' = [app EXCEPT ![g].asked = x]
                   \/ app' = [app EXCEPT ![g].shut = x]
  PROVE  \A h \in Generations : app'[h].version = app[h].version
  BY DEF TypeOK, App

LEMMA ReloadStep == IInv /\ ReloadInv /\ [Next]_vars => ReloadInv'
<1> SUFFICES ASSUME IInv, ReloadInv, [Next]_vars PROVE ReloadInv'
  OBVIOUS
<1> USE DEF None
<1>0. TypeOK /\ cur \in Generations /\ cur \in Nat /\ config \in Nat
  BY TypeFacts DEF IInv, TypeOK
<1>1. CASE Listen
  <2>1. watcher.step = "ended" /\ watcher.next \in {None, cur}
    BY <1>1 DEF Listen, IInv, Replacement
  <2>2. /\ watcher'.step = "watch" /\ watcher'.next = None /\ watcher'.version = 0
        /\ ~startErr /\ ~startErr'
        /\ UNCHANGED <<app, cur, reload, config, failed, stopped>>
    BY <1>1 DEF Listen, NoWatcher, ReloadInv, Versions
  <2>3. Versions'
    BY <1>0, <1>1, <2>2 DEF ReloadInv, Versions
  <2>4. NotForgotten'
    BY <1>1, <2>1, <2>2 DEF Listen, ReloadInv, NotForgotten
  <2> QED  BY <2>3, <2>4 DEF ReloadInv
<1>2. CASE ListenFails \/ Serve \/ Teardown
  <2>1. \A h \in Generations : app'[h].version = app[h].version
    BY <1>0, <1>2, SameVersions DEF ListenFails, Serve, Teardown
  <2> QED
    BY <1>0, <1>2, <2>1, QuietStep DEF ListenFails, Serve, Teardown, ReloadInv, Versions
<1>3. ASSUME NEW ofItself \in BOOLEAN, ServerStops(ofItself) PROVE ReloadInv'
  <2>1. \A h \in Generations : app'[h].version = app[h].version
    BY <1>0, <1>3, SameVersions DEF ServerStops
  <2>2. ~startErr
    BY <1>3 DEF ServerStops, ReloadInv, Versions
  <2> QED  BY <1>0, <1>3, <2>1, <2>2, QuietStep DEF ServerStops
<1>4. CASE EndGeneration \/ Exit \/ TeardownEnds \/ Stop \/ Overrun \/ UNCHANGED vars
  <2>1. \A h \in Generations : app'[h].version = app[h].version
    BY <1>4 DEF EndGeneration, Exit, TeardownEnds, Stop, Overrun, vars
  <2> QED
    BY <1>0, <1>4, <2>1, QuietStep
       DEF EndGeneration, Exit, TeardownEnds, Stop, Overrun, vars, ReloadInv, Versions
<1>5. ASSUME NEW g \in Generations, AskToStop(g) \/ Drained(g) \/ CloseAll(g) PROVE ReloadInv'
  <2>1. \A h \in Generations : app'[h].version = app[h].version
    BY <1>0, <1>5, SameVersions DEF AskToStop, Drained, CloseAll
  <2> QED
    BY <1>0, <1>5, <2>1, QuietStep DEF AskToStop, Drained, CloseAll, ReloadInv, Versions
<1>6. CASE Collect
  <2>1. CASE watcher.next = None
    <3>1. \A h \in Generations : app'[h].version = app[h].version
      BY <1>6, <2>1 DEF Collect
    <3> QED  BY <1>0, <1>6, <2>1, <3>1, QuietStep DEF Collect
  <2>2. CASE watcher.next # None
    <3>1. cur' = watcher.next /\ cur' \in Generations
      BY <1>0, <1>6, <2>2 DEF Collect, TypeOK
    <3>2. \A h \in Generations : app'[h].version = app[h].version
      BY <1>0, <1>6, <2>2, <3>1, SameVersions DEF Collect
    <3>3. app'[cur'].version = app[watcher.next].version
      BY <3>1, <3>2
    <3>4. /\ watcher.step = "ended" /\ UNCHANGED <<watcher, startErr, reload, config, failed, stopped>>
          /\ main' = "exiting" \/ (main' = "listen" /\ ~startErr /\ ~stopped)
      BY <1>6, <2>2 DEF Collect
    <3>5. app[watcher.next].version \in Nat /\ app[cur].version \in Nat
      BY <1>0, <3>1, TypeFacts, ReloadAssumption DEF App
    <3>6. Versions'
      BY <1>0, <2>2, <3>1, <3>3, <3>4, <3>5 DEF ReloadInv, Versions
    <3>7. app[cur].version = config => app[watcher.next].version = config
      BY <1>0, <2>2, <3>5 DEF ReloadInv, Versions
    <3>8. watcher.step = "ended" /\ main = "collect"
      BY <1>6 DEF Collect
    <3>9. NotForgotten'
      BY <3>1, <3>3, <3>4, <3>7, <3>8 DEF ReloadInv, NotForgotten
    <3> QED  BY <3>6, <3>9 DEF ReloadInv
  <2> QED  BY <2>1, <2>2
<1>7. CASE Watch
  <2>1. /\ watcher.step = "watch" /\ watcher'.version = watcher.version
        /\ watcher'.next = watcher.next /\ watcher'.step \in {"ended", "build"}
        /\ reload' = reload \/ watcher'.step = "build"
        /\ UNCHANGED <<main, app, cur, startErr, config, failed, stopped>>
    BY <1>0, <1>7 DEF Watch, TypeOK
  <2>2. Versions'
    BY <2>1 DEF ReloadInv, Versions
  <2>3. NotForgotten'
    BY <2>1 DEF ReloadInv, NotForgotten
  <2> QED  BY <2>2, <2>3 DEF ReloadInv
<1>8. CASE ReadConfig
  <2>1. /\ watcher'.version = config /\ watcher'.next = watcher.next /\ watcher'.step = "init"
        /\ UNCHANGED <<main, app, cur, startErr, config, failed, stopped, reload>>
    BY <1>0, <1>8 DEF ReadConfig, TypeOK
  <2>2. Versions'
    BY <1>0, <2>1 DEF ReloadInv, Versions
  <2>3. NotForgotten'
    BY <2>1 DEF NotForgotten
  <2> QED  BY <2>2, <2>3 DEF ReloadInv
<1>9. CASE BuildFails
  <2>1. /\ watcher.step = "init" /\ watcher'.version = watcher.version
        /\ watcher'.next = watcher.next /\ watcher'.step = "watch" /\ failed' = watcher.version
        /\ UNCHANGED <<main, app, cur, startErr, config, stopped, reload>>
        /\ watcher.version \in Nat
    BY <1>0, <1>9, ReloadAssumption DEF BuildFails, TypeOK
  <2>2. Versions'
    BY <1>0, <2>1 DEF ReloadInv, Versions
  <2>3. NotForgotten'
    BY <1>0, <2>1 DEF ReloadInv, Versions, NotForgotten
  <2> QED  BY <2>2, <2>3 DEF ReloadInv
<1>10. CASE Build
  <2>1. PICK g \in Generations :
          /\ ~app[g].built
          /\ app' = [app EXCEPT ![g].built = TRUE, ![g].version = watcher.version]
          /\ watcher' = [watcher EXCEPT !.step = "ended", !.next = g]
    BY <1>10 DEF Build
  <2>2. g # cur /\ watcher.step = "init" /\ watcher.next = None
    BY <1>10, <2>1 DEF Build, IInv, Current, Replacement
  <2>3. app'[cur] = app[cur] /\ app'[g].version = watcher.version
    BY <1>0, <2>1, <2>2 DEF TypeOK, App
  <2>4. watcher'.step = "ended" /\ watcher'.next = g /\ watcher'.version = watcher.version
    BY <1>0, <2>1 DEF TypeOK
  <2>5. UNCHANGED <<main, cur, startErr, config, failed, stopped, reload>>
    BY <1>10 DEF Build
  <2>6. g # None
    BY <1>0, TypeFacts
  <2>7. Versions'
    BY <1>0, <2>2, <2>3, <2>4, <2>5 DEF ReloadInv, Versions
  <2>8. NotForgotten'
    BY <2>2, <2>3, <2>4, <2>5, <2>6 DEF ReloadInv, NotForgotten
  <2> QED  BY <2>7, <2>8 DEF ReloadInv
<1>11. CASE Reload
  <2>1. /\ reload' /\ config' = config + 1
        /\ UNCHANGED <<main, watcher, app, cur, startErr, failed, stopped>>
    BY <1>11 DEF Reload
  <2>2. /\ watcher.version \in Nat /\ app[cur].version \in Nat
        /\ watcher.next # None => app[watcher.next].version \in Nat
    <3>1. \A g \in Generations : app[g].version \in Nat
      BY <1>0, TypeFacts, ReloadAssumption DEF App
    <3>2. watcher.version \in Nat /\ watcher.next \in Generations \union {None}
      BY <1>0, ReloadAssumption DEF TypeOK
    <3> QED  BY <1>0, <3>1, <3>2
  <2>3. Versions'
    BY <1>0, <2>1, <2>2 DEF ReloadInv, Versions
  <2> QED  BY <2>1, <2>3 DEF ReloadInv, NotForgotten
<1> QED
  BY <1>1, <1>2, <1>3, <1>4, <1>5, <1>6, <1>7, <1>8, <1>9, <1>10, <1>11
  DEF Next, Main, Watcher, TeardownStep

\* A SIGHUP is not lost, whenever it comes: watchForReload reads the configuration
\* after it has taken the signal, a replacement that is built is served, and a signal
\* that arrives too late for this watcher waits for the next generation's.
THEOREM ReloadsAreKept == Spec => []NotForgotten
<1>1. Init => ReloadInv
  BY ReloadAssumption DEF Init, ReloadInv, Versions, NotForgotten, NoWatcher, NotBuilt,
                          Generations, None
<1>2. ReloadInv => NotForgotten
  BY DEF ReloadInv
<1> QED  BY <1>1, <1>2, ReloadStep, Invariance, PTL DEF Spec
===============================================================================
