----------------------------- MODULE AppLifecycle -----------------------------
(***************************************************************************)
(* AppContext: start, restart and stop with an exit stack of closers; the  *)
(* pool of connections below it (DatabaseLifecycleManager), which security *)
(* scans use too; and the supervisor's start(), a background task with a   *)
(* finally clause of its own.                                              *)
(***************************************************************************)
EXTENDS Naturals, Sequences, FiniteSets, SequencesExt

CONSTANTS
    Main,             \* the task that starts and stops the context
    Scanner,          \* tasks that ask the pool for the scan cache
    NoTask,
    MaxStarts,        \* bound: calls of start_full
    MaxFaults         \* bound: how many steps fail

ASSUME LifecycleAssumption ==
    /\ Main \notin Scanner /\ NoTask \notin Scanner \cup {Main}
    /\ MaxStarts \in Nat \ {0} /\ MaxFaults \in Nat

Task == Scanner \cup {Main}
Path == {"mods", "scans"}
PathOf(t) == IF t = Main THEN "mods" ELSE "scans"

\* What start_full opens, in this order.
Steps == <<"registry", "session", "tracing", "rotation", "metrics", "router", "polling">>
Part == ToSet(Steps)
Closer == [part : Part \cup {"lifecycle"}, gen : 0..MaxStarts]

\* What the supervisor's start() opens, in this order.
Daemons == <<"db", "journal", "locks", "bus", "daemons">>

VARIABLES
    app,        \* where the context is, the step, and how often start_full was called
    live,       \* what is open, with the start that opened it
    ref,        \* the start whose registry, router and polling the context refers to, or 0
    stack,      \* the exit stack
    getter,     \* where each get_connection is
    initLock,   \* who has _init_lock
    pooled,     \* _connections: none, or a connection that is open or closed
    open,       \* how many connections to each file are open
    orphans,    \* how many of them nobody refers to any more (history)
    closing,    \* the connections shutdown_all has still to close
    sup,        \* the supervisor task, and how far it has come
    lost,       \* what nothing will close any more (history)
    faults      \* how many steps have failed (history)

ctx == <<app, live, ref, stack, lost>>
pool == <<getter, initLock, pooled, open, orphans, closing>>
vars == <<ctx, pool, sup, faults>>

AppStates == {"idle", "running", "td_polling", "td_router", "td_registry", "reset", "opening",
              "rollback", "cancelling", "unwind", "shutdown", "closeall", "cleared", "failed", "stopped"}
GetStates == {"idle", "ask", "lock", "connect", "pragmas", "got", "raised"}

Init ==
    /\ app = [pc |-> "idle", step |-> 1, gen |-> 0, failing |-> FALSE]
    /\ live = {} /\ stack = <<>> /\ lost = {}
    /\ ref = [p \in {"registry", "router", "polling"} |-> 0]
    /\ getter = [t \in Task |-> "idle"]
    /\ initLock = NoTask
    /\ pooled = [p \in Path |-> "none"]
    /\ open = [p \in Path |-> 0] /\ orphans = [p \in Path |-> 0]
    /\ closing = {}
    /\ sup = [pc |-> "off", up |-> 0]
    /\ faults = 0

At(pc) == app.pc = pc
GoTo(pc) == app' = [app EXCEPT !.pc = pc]
Fault == faults < MaxFaults /\ faults' = faults + 1
Push(part) == stack' = Append(stack, [part |-> part, gen |-> app.gen])

------------------------------------------------------------------------------
(* The pool. *)

Moves(t, pc) == getter' = [getter EXCEPT ![t] = pc]

Ask(t) ==
    /\ getter[t] = "ask"
    /\ Moves(t, IF pooled[PathOf(t)] # "none" THEN "got" ELSE "lock")
    /\ UNCHANGED <<initLock, pooled, open, orphans, closing, faults>>

\* Mutated form: no second look under the lock.
EnterUnchecked(t) ==
    /\ getter[t] = "lock" /\ initLock = NoTask
    /\ initLock' = t /\ Moves(t, "connect")
    /\ UNCHANGED <<pooled, open, orphans, closing, faults>>

Enter(t) ==
    /\ getter[t] = "lock" /\ initLock = NoTask
    /\ IF pooled[PathOf(t)] # "none"
       THEN Moves(t, "got") /\ UNCHANGED initLock
       ELSE initLock' = t /\ Moves(t, "connect")
    /\ UNCHANGED <<pooled, open, orphans, closing, faults>>

\* Mutated form: the lock is taken and released by hand.
ConnectLocked(t) ==
    /\ getter[t] = "connect"
    /\ \/ open' = [open EXCEPT ![PathOf(t)] = @ + 1] /\ Moves(t, "pragmas") /\ UNCHANGED faults
       \/ Fault /\ Moves(t, "raised") /\ UNCHANGED open
    /\ UNCHANGED <<initLock, pooled, orphans, closing>>

\* The recovery of an orphaned WAL never raises.
Connect(t) ==
    /\ getter[t] = "connect"
    /\ \/ /\ open' = [open EXCEPT ![PathOf(t)] = @ + 1]
          /\ Moves(t, "pragmas") /\ UNCHANGED <<initLock, faults>>
       \/ Fault /\ Moves(t, "raised") /\ initLock' = NoTask /\ UNCHANGED open
    /\ UNCHANGED <<pooled, orphans, closing>>

Orphan(p) == orphans' = [orphans EXCEPT ![p] = @ + 1]

\* A pragma that raises leaves a connection that is not in the pool.
Pragmas(t) ==
    /\ getter[t] = "pragmas"
    /\ initLock' = NoTask
    /\ \/ /\ pooled' = [pooled EXCEPT ![PathOf(t)] = "open"]
          /\ Moves(t, "got") /\ UNCHANGED <<orphans, faults>>
       \/ Fault /\ Moves(t, "raised") /\ Orphan(PathOf(t)) /\ UNCHANGED pooled
    /\ UNCHANGED <<open, closing>>

Scan(t) ==
    /\ t \in Scanner /\ getter[t] = "idle"
    /\ Moves(t, "ask")
    /\ UNCHANGED <<initLock, pooled, open, orphans, closing, faults>>

Getting(t) == Ask(t) \/ Enter(t) \/ Connect(t) \/ Pragmas(t)

------------------------------------------------------------------------------
(* Starting. *)

\* start_minimal; the pool has no files yet.
StartMinimal ==
    /\ At("idle")
    /\ live' = {<<"session", 0>>}
    /\ stack' = <<[part |-> "lifecycle", gen |-> 0], [part |-> "session", gen |-> 0]>>
    /\ app' = [app EXCEPT !.pc = "td_polling", !.gen = 1]
    /\ UNCHANGED <<ref, lost, pool, sup, faults>>

\* start_full again, on a context that runs or whose last start failed.
Restart ==
    /\ app.pc \in {"running", "failed"} /\ app.gen < MaxStarts
    /\ app' = [app EXCEPT !.pc = "td_polling", !.gen = @ + 1]
    /\ UNCHANGED <<live, ref, stack, lost, pool, sup, faults>>

\* polling.stop() and router.close() of the last start, or the first that raises ends
\* the teardown.
TearDown(part, here, next) ==
    /\ At(here)
    /\ IF ref[part] = 0 THEN GoTo(next) /\ UNCHANGED <<live, ref, faults>>
       ELSE \/ /\ live' = live \ {<<part, ref[part]>>}
               /\ ref' = [ref EXCEPT ![part] = 0]
               /\ GoTo(next) /\ UNCHANGED faults
            \/ Fault /\ GoTo("reset") /\ UNCHANGED <<live, ref>>
    /\ UNCHANGED <<stack, lost, pool, sup>>

TearDownRegistry ==
    /\ At("td_registry")
    /\ ref' = [ref EXCEPT !["registry"] = 0]
    /\ GoTo("reset")
    /\ UNCHANGED <<live, stack, lost, pool, sup, faults>>

\* A new exit stack: what only the old one would have closed is lost.
Reset ==
    /\ At("reset")
    /\ stack' = <<[part |-> "lifecycle", gen |-> 0], [part |-> "session", gen |-> 0]>>
    /\ lost' = live \ {<<"session", 0>>}
    /\ app' = [app EXCEPT !.pc = "opening", !.step = 1]
    /\ getter' = [getter EXCEPT ![Main] = "ask"]
    /\ ref' = [ref EXCEPT !["registry"] = app.gen]
    /\ UNCHANGED <<live, initLock, pooled, open, orphans, closing, sup, faults>>

Opening(part) == At("opening") /\ Steps[app.step] = part
NextStep == app' = [app EXCEPT !.step = @ + 1, !.pc = IF app.step = Len(Steps) THEN "running" ELSE "opening"]
Raises == app' = [app EXCEPT !.pc = "rollback", !.failing = TRUE]

\* The registry has its connection; quick_check finds it corrupt, and it is closed,
\* evicted and asked for again; or an error evicts it as it is.
OpenRegistry ==
    /\ Opening("registry")
    /\ \/ /\ getter[Main] = "raised"
          /\ Raises /\ getter' = [getter EXCEPT ![Main] = "idle"]
          /\ UNCHANGED <<stack, pooled, open, orphans, faults>>
       \/ /\ getter[Main] = "got"
          /\ Push("registry") /\ NextStep /\ getter' = [getter EXCEPT ![Main] = "idle"]
          /\ UNCHANGED <<pooled, open, orphans, faults>>
       \/ /\ getter[Main] = "got" /\ Fault
          /\ open' = [open EXCEPT !["mods"] = @ - 1] /\ pooled' = [pooled EXCEPT !["mods"] = "none"]
          /\ getter' = [getter EXCEPT ![Main] = "ask"]
          /\ UNCHANGED <<app, stack, orphans>>
       \/ /\ getter[Main] = "got" /\ Fault
          /\ pooled' = [pooled EXCEPT !["mods"] = "none"] /\ Orphan("mods")
          /\ Raises /\ getter' = [getter EXCEPT ![Main] = "idle"]
          /\ UNCHANGED <<stack, open>>
    /\ UNCHANGED <<live, ref, lost, initLock, closing, sup>>

OpenSession ==
    /\ Opening("session")
    /\ live' = live \cup {<<"session", 0>>}
    /\ NextStep
    /\ UNCHANGED <<ref, stack, lost, pool, sup, faults>>

\* Tracing, the rotation of the metrics token and the metrics server.  Without a token
\* there is no server, and no start fails because of them.
OpenService ==
    /\ \/ Opening("tracing")
       \/ Opening("rotation")
       \/ Opening("metrics") /\ <<"rotation", app.gen>> \in live
    /\ LET part == Steps[app.step]
       IN \/ live' = live \cup {<<part, app.gen>>} /\ Push(part) /\ UNCHANGED faults
          \/ part # "tracing" /\ Fault /\ UNCHANGED <<live, stack>>
    /\ NextStep
    /\ UNCHANGED <<ref, lost, pool, sup>>

NoMetrics ==
    /\ Opening("metrics") /\ <<"rotation", app.gen>> \notin live
    /\ NextStep
    /\ UNCHANGED <<live, ref, stack, lost, pool, sup, faults>>

\* Everything between the metrics and the router may raise (is_empty, the configuration,
\* the router's constructor); open() may raise when it has connected already.
OpenRouter ==
    /\ Opening("router")
    /\ \/ /\ live' = live \cup {<<"router", app.gen>>}
          /\ ref' = [ref EXCEPT !["router"] = app.gen]
          /\ Push("router") /\ NextStep
          /\ UNCHANGED <<lost, faults>>
       \/ Fault /\ Raises /\ UNCHANGED <<live, ref, stack, lost>>
       \/ /\ Fault /\ Raises
          /\ live' = live \cup {<<"router", app.gen>>} /\ lost' = lost \cup {<<"router", app.gen>>}
          /\ ref' = [ref EXCEPT !["router"] = app.gen]
          /\ UNCHANGED stack
    /\ UNCHANGED <<pool, sup>>

\* With a bot token, and not in telegram mode.
OpenPolling ==
    /\ Opening("polling")
    /\ \/ /\ live' = live \cup {<<"polling", app.gen>>}
          /\ ref' = [ref EXCEPT !["polling"] = app.gen]
          /\ Push("polling") /\ NextStep /\ UNCHANGED faults
       \/ NextStep /\ UNCHANGED <<live, ref, stack, faults>>
       \/ Fault /\ Raises /\ UNCHANGED <<live, ref, stack>>
    /\ UNCHANGED <<lost, pool, sup>>

------------------------------------------------------------------------------
(* Closing. *)

\* Mutated form: the references are cleared before the closers run.
RollbackCleared ==
    /\ At("rollback")
    /\ ref' = [p \in DOMAIN ref |-> 0]
    /\ GoTo("unwind")
    /\ UNCHANGED <<live, stack, lost, pool, sup, faults>>

Rollback ==
    /\ At("rollback")
    /\ GoTo("unwind")
    /\ UNCHANGED <<live, ref, stack, lost, pool, sup, faults>>

\* stop() cancels the tracked tasks.  A supervisor that serves closes what it has opened;
\* one that is still opening, or closing already, leaves it.
Stop ==
    /\ At("running")
    /\ GoTo("cancelling")
    /\ sup' = CASE sup.pc = "serving" -> [sup EXCEPT !.pc = "closing"]
                [] sup.pc \in {"opening", "closing"} -> [sup EXCEPT !.pc = "over"]
                [] OTHER -> sup
    /\ UNCHANGED <<live, ref, stack, lost, pool, faults>>

\* The tasks are awaited, and then the stack unwinds.
Gathered ==
    /\ At("cancelling") /\ sup.pc \in {"off", "over"}
    /\ app' = [app EXCEPT !.pc = "unwind", !.failing = FALSE]
    /\ UNCHANGED <<live, ref, stack, lost, pool, sup, faults>>

\* Mutated form: first in, first out.
PopFirst == [top |-> Head(stack), rest |-> Tail(stack)]

Pop == [top |-> Last(stack), rest |-> Front(stack)]
Top == Pop.top

\* The callbacks for the registry, the router and polling close what the context refers
\* to, the others what they were made for.  One that raises keeps none of the others
\* from running.
Unwind ==
    /\ At("unwind") /\ stack # <<>> /\ Top.part # "lifecycle"
    /\ stack' = Pop.rest
    /\ LET gen == IF Top.part \in DOMAIN ref THEN ref[Top.part] ELSE Top.gen
       IN \/ live' = live \ {<<Top.part, gen>>} /\ UNCHANGED <<lost, faults>>
          \/ /\ <<Top.part, gen>> \in live /\ Fault
             /\ lost' = lost \cup {<<Top.part, gen>>} /\ UNCHANGED live
    /\ ref' = IF Top.part \in DOMAIN ref THEN [ref EXCEPT ![Top.part] = 0] ELSE ref
    /\ UNCHANGED <<app, pool, sup>>

\* shutdown_all: at once if there is no connection, else after the checkpoints.
ShutDown ==
    /\ At("unwind") /\ stack # <<>> /\ Top.part = "lifecycle"
    /\ stack' = Pop.rest
    /\ IF \A p \in Path : pooled[p] = "none" THEN UNCHANGED app ELSE GoTo("shutdown")
    /\ UNCHANGED <<live, ref, lost, pool, sup, faults>>

Checkpointed ==
    /\ At("shutdown")
    /\ GoTo("closeall")
    /\ closing' = {p \in Path : pooled[p] = "open"}
    /\ UNCHANGED <<live, ref, stack, lost, getter, initLock, pooled, open, orphans, sup, faults>>

\* The connections of the list made when the loop began.
CloseOne ==
    /\ At("closeall")
    /\ \E p \in closing :
          /\ closing' = closing \ {p}
          /\ pooled' = [pooled EXCEPT ![p] = "closed"]
          /\ open' = [open EXCEPT ![p] = @ - 1]
    /\ UNCHANGED <<ctx, getter, initLock, orphans, sup, faults>>

\* _connections.clear() drops those that were added meanwhile.
Clear ==
    /\ At("closeall") /\ closing = {}
    /\ pooled' = [p \in Path |-> "none"]
    /\ orphans' = [p \in Path |-> orphans[p] + IF pooled[p] = "open" THEN 1 ELSE 0]
    /\ GoTo("unwind")
    /\ UNCHANGED <<live, ref, stack, lost, getter, initLock, open, closing, sup, faults>>

Unwound ==
    /\ At("unwind") /\ stack = <<>>
    /\ app' = [app EXCEPT !.pc = IF app.failing THEN "failed" ELSE "stopped", !.failing = FALSE]
    /\ ref' = [p \in DOMAIN ref |-> IF app.failing /\ p # "registry" THEN 0 ELSE ref[p]]
    /\ UNCHANGED <<live, stack, lost, pool, sup, faults>>

------------------------------------------------------------------------------
(* The supervisor, which the GUI starts as a tracked task. *)

SupervisorStarts ==
    /\ At("running") /\ sup.pc = "off"
    /\ sup' = [pc |-> "opening", up |-> 0]
    /\ UNCHANGED <<ctx, pool, faults>>

\* Until interface.connect() runs, nothing closes what has been opened.
SupervisorOpens ==
    /\ sup.pc = "opening"
    /\ \/ /\ sup' = IF sup.up = Len(Daemons) THEN [sup EXCEPT !.pc = "serving"]
                                              ELSE [sup EXCEPT !.up = @ + 1]
          /\ UNCHANGED faults
       \/ Fault /\ sup' = [sup EXCEPT !.pc = "over"]
    /\ UNCHANGED <<ctx, pool>>

\* connect() ends or raises.
SupervisorEnds ==
    /\ sup.pc = "serving"
    /\ sup' = [sup EXCEPT !.pc = "closing"]
    /\ UNCHANGED <<ctx, pool, faults>>

\* The finally clause closes in the reverse order; one that raises ends it.
SupervisorCloses ==
    /\ sup.pc = "closing"
    /\ \/ /\ sup' = IF sup.up = 0 THEN [sup EXCEPT !.pc = "over"] ELSE [sup EXCEPT !.up = @ - 1]
          /\ UNCHANGED faults
       \/ sup.up > 0 /\ Fault /\ sup' = [sup EXCEPT !.pc = "over"]
    /\ UNCHANGED <<ctx, pool>>

Starting ==
    \/ StartMinimal
    \/ TearDown("polling", "td_polling", "td_router")
    \/ TearDown("router", "td_router", "td_registry")
    \/ TearDownRegistry \/ Reset
    \/ OpenRegistry \/ OpenSession \/ OpenService \/ NoMetrics \/ OpenRouter \/ OpenPolling
Closing == Gathered \/ Rollback \/ Unwind \/ ShutDown \/ Checkpointed \/ CloseOne \/ Clear \/ Unwound
Asking(t) == Getting(t) /\ UNCHANGED <<ctx, sup>>
Supervising == SupervisorOpens \/ SupervisorEnds \/ SupervisorCloses

Next ==
    \/ Starting \/ Restart \/ Stop \/ Closing
    \/ \E t \in Task : Asking(t)
    \/ \E t \in Scanner : Scan(t) /\ UNCHANGED <<ctx, sup>>
    \/ SupervisorStarts \/ Supervising

Spec == Init /\ [][Next]_vars

\* Opening and closing end, and so do the statements of the pool.
FairSpec ==
    /\ Spec
    /\ WF_vars(Starting) /\ WF_vars(Closing)
    /\ \A t \in Task : WF_vars(Asking(t))
    /\ WF_vars(Supervising)

------------------------------------------------------------------------------
\* Type invariant: the context, its stack, the pool and the supervisor.
TypeOK ==
    /\ app \in [pc : AppStates, step : 1..Len(Steps) + 1, gen : 0..MaxStarts, failing : BOOLEAN]
    /\ live \subseteq Part \X (0..MaxStarts) /\ lost \subseteq Part \X (0..MaxStarts)
    /\ ref \in [{"registry", "router", "polling"} -> 0..MaxStarts]
    /\ stack \in Seq(Closer)
    /\ getter \in [Task -> GetStates] /\ initLock \in Task \cup {NoTask}
    /\ pooled \in [Path -> {"none", "open", "closed"}]
    /\ open \in [Path -> Nat] /\ orphans \in [Path -> Nat]
    /\ closing \subseteq Path
    /\ sup \in [pc : {"off", "opening", "serving", "closing", "over"}, up : 0..Len(Daemons)]
    /\ faults \in 0..MaxFaults

\* "if any service fails to initialize, all previously started services are shut down"
\* (app_context.py:211): a start that has failed, and a stop, leave nothing open, except
\* what nobody can close: what an earlier start's stack alone knew of, a closer that
\* raised, and a router whose open() raised after it had connected.
NothingLeft == app.pc \in {"failed", "stopped"} => live \subseteq lost

\* "in LIFO order" (app_context.py:212): polling never runs without the router it hands
\* messages to, nor a router without an open connection of the registry.
Layers ==
    \A r \in live \ lost :
        /\ r[1] = "polling" => <<"router", r[2]>> \in live
        /\ r[1] = "router" => ref["registry"] = r[2] /\ pooled["mods"] = "open"

\* "garantizar singleton por path ante llamadas concurrentes" (db_lifecycle.py:126):
\* one open connection per file, not counting those a failure or a shutdown has left
\* outside the pool.
OneConnection == \A p \in Path : open[p] <= 1 + orphans[p]

\* A start, a stop and a request for a connection end.
Settles ==
    /\ app.pc \notin {"idle", "running", "failed", "stopped"}
           ~> app.pc \in {"running", "failed", "stopped"}
    /\ \A t \in Scanner : getter[t] = "ask" ~> getter[t] \in {"got", "raised"}
==============================================================================
