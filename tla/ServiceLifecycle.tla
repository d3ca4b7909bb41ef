-------------------------- MODULE ServiceLifecycle --------------------------
(***************************************************************************)
(* One life of the proxy process: bootstrap.NewService, Service.Run,       *)
(* Service.Close and exit, with the Serve goroutine, the handlers and the  *)
(* signal beside them.  What is at stake is the usage of the requests that *)
(* are under way when the process stops.                                   *)
(*                                                                         *)
(* net/http is assumed as documented: Shutdown closes the listener, waits  *)
(* for Serve to return and then for the handlers, until its context ends.  *)
(*                                                                         *)
(* The names other modules have too begin with Life, so that this one and  *)
(* Migrations, which comes before it in NewService, can be extended both.  *)
(***************************************************************************)
EXTENDS Integers

CONSTANTS Handlers   \* concurrent requests

VARIABLES
    main,     \* where main is: NewService has returned, Run, Close, exit
    serve,    \* the goroutine that runs Server.Serve
    errCh,    \* what that goroutine has sent, the capacity being one, or "empty"
    signalled,\* ctx.Done(): SIGINT or SIGTERM has come
    stopping, \* the server's inShutdown flag
    store,    \* the SQLite handle
    request,  \* what each handler is doing
    status,   \* what main's run returns
    lost      \* history: handlers that met a closed store, or died with the process

lifeVars == <<main, serve, errCh, signalled, stopping, store, request, status, lost>>

Active == {h \in Handlers : request[h] # "idle"}

LifeTypeOK ==
    /\ main \in {"listening", "select", "draining", "waiting", "returned", "closed", "exited"}
    /\ serve \in {"none", "starting", "serving", "failing", "done"}
    /\ errCh \in {"empty", "closed", "failed"}
    /\ signalled \in BOOLEAN /\ stopping \in BOOLEAN
    /\ store \in {"open", "closed"}
    /\ request \in [Handlers -> {"idle", "upstream", "answering"}]
    /\ status \in {"running", "ok", "error"}
    /\ lost \subseteq Handlers

LifeInit ==
    /\ main = "listening" /\ serve = "none" /\ errCh = "empty"
    /\ signalled = FALSE /\ stopping = FALSE /\ store = "open"
    /\ request = [h \in Handlers |-> "idle"]
    /\ status = "running" /\ lost = {}

Alive == main # "exited"

-----------------------------------------------------------------------------
(* Run *)

Return(s) == main' = "returned" /\ status' = s

Listen ==
    /\ main = "listening"
    /\ main' = "select" /\ serve' = "starting"
    /\ UNCHANGED <<errCh, signalled, stopping, store, request, status, lost>>

\* The address is taken.
ListenFails ==
    /\ main = "listening"
    /\ Return("error")
    /\ UNCHANGED <<serve, errCh, signalled, stopping, store, request, lost>>

\* case err := <-errCh: Serve has ended without a shutdown, so its error is a real one.
SelectError ==
    /\ main = "select" /\ errCh # "empty"
    /\ Return(IF errCh = "closed" THEN "ok" ELSE "error")
    /\ errCh' = "empty"
    /\ UNCHANGED <<serve, signalled, stopping, store, request, lost>>

\* Mutant: the server is closed, not shut down: nobody waits for the handlers.
SelectSignal_Close ==
    /\ main = "select" /\ signalled
    /\ main' = "waiting" /\ stopping' = TRUE
    /\ UNCHANGED <<serve, errCh, signalled, store, request, status, lost>>

\* case <-ctx.Done(): Shutdown begins.  When both cases are ready, either is taken.
SelectSignal ==
    /\ main = "select" /\ signalled
    /\ main' = "draining" /\ stopping' = TRUE
    /\ UNCHANGED <<serve, errCh, signalled, store, request, status, lost>>

\* Shutdown returns nil: Serve has returned and no connection is active.
Drained ==
    /\ main = "draining" /\ serve = "done" /\ Active = {}
    /\ main' = "waiting"
    /\ UNCHANGED <<serve, errCh, signalled, stopping, store, request, status, lost>>

\* Mutant: Shutdown has no deadline.
DrainTimesOut_Never == FALSE /\ UNCHANGED lifeVars

\* The ten seconds of shutdownCtx are over and a handler is still at it.
DrainTimesOut ==
    /\ main = "draining" /\ serve = "done" /\ Active # {}
    /\ Return("error")
    /\ UNCHANGED <<serve, errCh, signalled, stopping, store, request, lost>>

\* Mutant: what Serve returned is passed on as it is.
AwaitServe_PassesOn ==
    /\ main = "waiting" /\ errCh # "empty"
    /\ Return(errCh)
    /\ errCh' = "empty"
    /\ UNCHANGED <<serve, signalled, stopping, store, request, lost>>

\* err := <-errCh after a Shutdown that went well.
AwaitServe ==
    /\ main = "waiting" /\ errCh # "empty"
    /\ Return(IF errCh = "closed" THEN "ok" ELSE "error")
    /\ errCh' = "empty"
    /\ UNCHANGED <<serve, signalled, stopping, store, request, lost>>

\* The deferred service.Close.
Close ==
    /\ main = "returned"
    /\ main' = "closed" /\ store' = "closed"
    /\ UNCHANGED <<serve, errCh, signalled, stopping, request, status, lost>>

\* main returns, or os.Exit(1): every goroutine ends where it is.
Exit ==
    /\ main = "closed"
    /\ main' = "exited"
    /\ lost' = lost \cup Active
    /\ request' = [h \in Handlers |-> "idle"]
    /\ UNCHANGED <<serve, errCh, signalled, stopping, store, status>>

-----------------------------------------------------------------------------
(* The goroutine Run starts, which reports on a buffered channel. *)

ServeStarts ==
    /\ Alive /\ serve = "starting" /\ ~stopping
    /\ serve' = "serving"
    /\ UNCHANGED <<main, errCh, signalled, stopping, store, request, status, lost>>

\* ErrServerClosed, from a shutdown that came before the first Accept or during one.
ServeEnds ==
    /\ Alive /\ serve \in {"starting", "serving"} /\ stopping
    /\ serve' = "done" /\ errCh' = "closed"
    /\ UNCHANGED <<main, signalled, stopping, store, request, status, lost>>

\* Accept fails for good.
AcceptFails ==
    /\ Alive /\ serve = "serving" /\ ~stopping
    /\ serve' = "failing"
    /\ UNCHANGED <<main, errCh, signalled, stopping, store, request, status, lost>>

ServeFails ==
    /\ Alive /\ serve = "failing"
    /\ serve' = "done" /\ errCh' = "failed"
    /\ UNCHANGED <<main, signalled, stopping, store, request, status, lost>>

-----------------------------------------------------------------------------
(* The rest of the world. *)

Signal ==
    /\ Alive /\ ~signalled
    /\ signalled' = TRUE
    /\ UNCHANGED <<main, serve, errCh, stopping, store, request, status, lost>>

\* Bound: a handler slot whose usage was lost is not used again.
Arrive(h) ==
    /\ Alive /\ serve = "serving" /\ ~stopping /\ request[h] = "idle" /\ h \notin lost
    /\ request' = [request EXCEPT ![h] = "upstream"]
    /\ UNCHANGED <<main, serve, errCh, signalled, stopping, store, status, lost>>

\* TrackWithTokens, all of it: its first statement fails on a closed handle.
Track(h) ==
    /\ Alive /\ request[h] = "upstream"
    /\ request' = [request EXCEPT ![h] = "answering"]
    /\ lost' = IF store = "closed" THEN lost \cup {h} ELSE lost
    /\ UNCHANGED <<main, serve, errCh, signalled, stopping, store, status>>

Answer(h) ==
    /\ Alive /\ request[h] = "answering"
    /\ request' = [request EXCEPT ![h] = "idle"]
    /\ UNCHANGED <<main, serve, errCh, signalled, stopping, store, status, lost>>

Run == \/ Listen \/ ListenFails \/ SelectError \/ SelectSignal
       \/ Drained \/ DrainTimesOut \/ AwaitServe \/ Close \/ Exit
Server == ServeStarts \/ ServeEnds \/ ServeFails
World == \/ Signal \/ AcceptFails
         \/ \E h \in Handlers : Arrive(h) \/ Track(h) \/ Answer(h)

LifeNext == Run \/ Server \/ World

LifeSpec == LifeInit /\ [][LifeNext]_lifeVars

\* The two goroutines are scheduled, and the timer of shutdownCtx fires.  A handler may hang
\* on its upstream for ever, and the signal may never come.
FairSpec == LifeSpec /\ WF_lifeVars(Run) /\ WF_lifeVars(Server)

-----------------------------------------------------------------------------
(* Properties *)

\* A process that ends with status 0 has recorded every request it took on: the deferred
\* Close (main.go:38) meets no handler, whichever of signal, drain, Serve's return and the
\* handlers' own steps came first.
CleanExitLosesNothing == status = "ok" => Active = {} /\ lost = {}

\* Run receives from errCh in two places (service.go:205, 219) and Serve's goroutine sends
\* once: the second receive, which nothing bounds, comes only when there is a value that
\* nobody took, and a send never meets a full channel.
ReceiveFindsValue ==
    /\ main = "waiting" => errCh # "empty"
    /\ serve \in {"starting", "serving", "failing"} => errCh = "empty"

\* Once it is told to stop, or cannot accept connections, the process ends, even if a
\* handler hangs: the drain has a deadline and nobody waits for a value that was taken.
StopEnds == signalled \/ serve = "failing" ~> main = "exited"
=============================================================================
