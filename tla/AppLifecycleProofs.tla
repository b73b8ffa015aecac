-------------------------- MODULE AppLifecycleProofs --------------------------
(***************************************************************************)
(* That a failed start and a stop leave nothing open, that nothing runs    *)
(* without what it was opened on, and that there is one connection per     *)
(* file: for any number of starts, scans and failures.                     *)
(*                                                                         *)
(* The pool's lock accounts for every connection (PoolInv).  The closers   *)
(* on the stack are in the order of opening (Ordered), and each part that  *)
(* is open and not lost has its closer there (Held), which will find it:   *)
(* the context still refers to it (Referred).                              *)
(***************************************************************************)
EXTENDS AppLifecycle, SequenceTheorems, TLAPS

Connecting(p) == \E t \in Task : getter[t] = "pragmas" /\ PathOf(t) = p

PoolInv ==
    /\ \A t \in Task : getter[t] \in {"connect", "pragmas"} <=> initLock = t
    /\ \A t \in Task : getter[t] \in {"connect", "pragmas"} => pooled[PathOf(t)] = "none"
    /\ \A p \in Path :
          /\ open[p] = orphans[p] + (IF pooled[p] = "open" THEN 1 ELSE 0)
                                  + (IF Connecting(p) THEN 1 ELSE 0)
          /\ pooled[p] = "closed" => At("closeall") /\ p \notin closing
          /\ p \in closing => At("closeall") /\ pooled[p] = "open"
    /\ getter[Main] # "idle" => At("opening") /\ app.step = 1
    /\ getter[Main] = "got" => pooled["mods"] = "open"

\* What is open and has not been given up.
Kept == live \ lost

Rank(part) ==
    CASE part = "lifecycle" -> 0 [] part = "session" -> 1 [] part = "registry" -> 2
      [] part = "tracing" -> 3 [] part = "rotation" -> 4 [] part = "metrics" -> 5
      [] part = "router" -> 6 [] part = "polling" -> 7

\* The closers are in the order of opening, and those to come will be behind them.
Ordered ==
    /\ \A i, j \in 1..Len(stack) : i < j => Rank(stack[i].part) < Rank(stack[j].part)
    /\ At("opening") =>
          \A i \in 1..Len(stack) :
              Rank(stack[i].part) < IF app.step = 1 THEN 2 ELSE IF app.step = 2 THEN 3 ELSE app.step
    /\ app.pc \in {"shutdown", "closeall", "failed", "stopped"} => stack = <<>>

OnStack(x) == \E i \in 1..Len(stack) : stack[i] = [part |-> x[1], gen |-> x[2]]

\* A start that has still the last one's stack.
Early == {"idle", "td_polling", "td_router", "td_registry", "reset"}

Held ==
    /\ app.pc \notin Early =>
          \A x \in Kept : OnStack(x) /\ (x[1] = "session" \/ x[2] = app.gen)
    /\ At("opening") => OnStack(<<"session", 0>>)

Referred ==
    /\ \A x \in Kept : x[1] # "registry" /\ IF x[1] = "session" THEN x[2] = 0 ELSE x[2] > 0
    /\ \A x \in Kept : x[1] \in {"router", "polling"} => ref[x[1]] = x[2]
    /\ At("td_router") => \A x \in Kept : x[1] # "polling"
    /\ At("td_registry") => \A x \in Kept : x[1] \notin {"router", "polling"}

\* What a step of the start may rely on.
Opened ==
    /\ ~At("idle") => app.gen > 0
    /\ At("idle") => live = {}
    /\ At("opening") => app.step < 8
    /\ At("opening") => ref["registry"] = app.gen
    /\ At("opening") /\ app.step > 1 => pooled["mods"] = "open"
    /\ At("opening") /\ app.step = 7 => <<"router", app.gen>> \in live

------------------------------------------------------------------------------
LEMMA StepsAre ==
    /\ Len(Steps) = 7 /\ Len(Daemons) = 5
    /\ Steps[1] = "registry" /\ Steps[2] = "session" /\ Steps[3] = "tracing"
    /\ Steps[4] = "rotation" /\ Steps[5] = "metrics" /\ Steps[6] = "router"
    /\ Steps[7] = "polling"
    /\ Part = {"registry", "session", "tracing", "rotation", "metrics", "router", "polling"}
  <1>1. Steps = <<"registry", "session", "tracing", "rotation", "metrics", "router", "polling">>
    BY DEF Steps
  <1>2. DOMAIN Steps = 1..7 /\ Len(Steps) = 7  BY <1>1
  <1>3. Part = {Steps[i] : i \in 1..7}  BY <1>2 DEF Part, ToSet
  <1>4. /\ Steps[1] = "registry" /\ Steps[2] = "session" /\ Steps[3] = "tracing"
        /\ Steps[4] = "rotation" /\ Steps[5] = "metrics" /\ Steps[6] = "router"
        /\ Steps[7] = "polling"
    BY <1>1
  <1>5. 1..7 = {1, 2, 3, 4, 5, 6, 7}  OBVIOUS
  <1>6. Len(Daemons) = 5  BY DEF Daemons
  <1> HIDE DEF Steps
  <1>7. Part = {"registry", "session", "tracing", "rotation", "metrics", "router", "polling"}
    BY <1>3, <1>4, <1>5
  <1> QED  BY <1>2, <1>4, <1>6, <1>7

LEMMA RanksAre ==
    /\ Rank("lifecycle") = 0 /\ Rank("session") = 1 /\ Rank("registry") = 2
    /\ Rank("tracing") = 3 /\ Rank("rotation") = 4 /\ Rank("metrics") = 5
    /\ Rank("router") = 6 /\ Rank("polling") = 7
    /\ \A part \in Part \cup {"lifecycle"} : Rank(part) \in Nat
  <1>1. /\ Rank("lifecycle") = 0 /\ Rank("session") = 1 /\ Rank("registry") = 2
        /\ Rank("tracing") = 3 /\ Rank("rotation") = 4 /\ Rank("metrics") = 5
        /\ Rank("router") = 6 /\ Rank("polling") = 7
    BY DEF Rank
  <1> HIDE DEF Rank
  <1> QED  BY <1>1, StepsAre

LEMMA TasksAre ==
    /\ NoTask \notin Task /\ Main \in Task /\ Main \notin Scanner /\ Scanner \subseteq Task
    /\ PathOf(Main) = "mods" /\ \A t \in Scanner : PathOf(t) = "scans"
    /\ \A t \in Task : PathOf(t) \in Path
  BY LifecycleAssumption DEF Task, PathOf, Path

\* The top of the stack, and the rest of it.
LEMMA PopIs ==
    ASSUME stack \in Seq(Closer), stack # <<>>
    PROVE  /\ Top \in Closer /\ Top = stack[Len(stack)] /\ Len(stack) \in Nat \ {0}
           /\ Pop.rest \in Seq(Closer) /\ Len(Pop.rest) = Len(stack) - 1
           /\ \A i \in 1..(Len(stack) - 1) : Pop.rest[i] = stack[i]
  <1>1. Len(stack) \in Nat \ {0} /\ DOMAIN stack = 1..Len(stack)  BY EmptySeq
  <1>2. Top = stack[Len(stack)] /\ Pop.rest = SubSeq(stack, 1, Len(stack) - 1)
    BY DEF Top, Pop, Last, Front
  <1>3. stack[Len(stack)] \in Closer  BY <1>1
  <1>4. \A i \in 1..(Len(stack) - 1) : stack[i] \in Closer  BY <1>1
  <1>5. /\ SubSeq(stack, 1, Len(stack) - 1) \in Seq(Closer)
        /\ Len(SubSeq(stack, 1, Len(stack) - 1)) = Len(stack) - 1
        /\ \A i \in 1..(Len(stack) - 1) : SubSeq(stack, 1, Len(stack) - 1)[i] = stack[i]
    BY <1>1, <1>4, SubSeqProperties
  <1> QED  BY <1>1, <1>2, <1>3, <1>5

------------------------------------------------------------------------------
\* The types of the pool.
PoolTyped ==
    /\ getter \in [Task -> GetStates] /\ initLock \in Task \cup {NoTask}
    /\ pooled \in [Path -> {"none", "open", "closed"}]
    /\ open \in [Path -> Nat] /\ orphans \in [Path -> Nat]
    /\ closing \subseteq Path
    /\ faults \in 0..MaxFaults

LEMMA FaultTyped == ASSUME faults \in 0..MaxFaults, Fault PROVE faults' \in 0..MaxFaults
  BY LifecycleAssumption DEF Fault

\* A request for a connection takes one step, or begins.
LEMMA GettingStep ==
    ASSUME PoolTyped, PoolInv, NEW t \in Task, Getting(t) \/ Scan(t), UNCHANGED app
    PROVE  PoolTyped' /\ PoolInv' /\ (pooled["mods"] = "open" => pooled'["mods"] = "open")
  <1> DEFINE p == PathOf(t)
  <1>1. p \in Path /\ NoTask \notin Task /\ "mods" \in Path /\ Main \in Task /\ PathOf(Main) = "mods"
    BY TasksAre DEF Path
  <1>2. /\ \A u \in Task \ {t} : initLock = t => getter[u] \notin {"connect", "pragmas"}
        /\ getter[t] \in {"connect", "pragmas"} <=> initLock = t
    BY DEF PoolInv
  <1>3. At("opening")' = At("opening") /\ At("closeall")' = At("closeall") /\ app'.step = app.step
    BY DEF At
  <1>4. ASSUME Ask(t) \/ Scan(t) PROVE PoolTyped' /\ PoolInv'
    <2>1. PICK pc \in {"ask", "got", "lock"} :
              /\ getter' = [getter EXCEPT ![t] = pc]
              /\ pc = "got" => pooled[p] # "none"
      BY <1>4 DEF Ask, Scan, Moves
    <2>2. UNCHANGED <<initLock, pooled, open, orphans, closing, faults>>  BY <1>4 DEF Ask, Scan
    <2>3. getter[t] \in {"ask", "idle"} /\ (t = Main => getter[t] # "idle")
      BY <1>4, TasksAre DEF Ask, Scan
    <2>4. PoolTyped'  BY <2>1, <2>2 DEF PoolTyped, GetStates
    <2>5. \A u \in Task : getter'[u] = IF u = t THEN pc ELSE getter[u]  BY <2>1 DEF PoolTyped
    <2>6. \A q \in Path : Connecting(q)' <=> Connecting(q)  BY <2>3, <2>5 DEF Connecting
    <2>7. \A u \in Task : /\ getter'[u] \in {"connect", "pragmas"} <=> initLock' = u
                          /\ getter'[u] \in {"connect", "pragmas"} => pooled'[PathOf(u)] = "none"
      BY <2>2, <2>3, <2>5 DEF PoolInv
    <2>8. /\ getter'[Main] # "idle" => At("opening")' /\ app'.step = 1
          /\ getter'[Main] = "got" => pooled'["mods"] = "open"
      <3>1. t = Main => At("opening") /\ app.step = 1  BY <2>3 DEF PoolInv
      <3>2. pooled["mods"] = "closed" => At("closeall")  BY <1>1 DEF PoolInv
      <3>3. t = Main /\ pooled["mods"] # "none" => pooled["mods"] = "open"
        BY <1>1, <3>1, <3>2 DEF At, PoolTyped
      <3> QED  BY <1>1, <1>3, <2>1, <2>2, <2>5, <3>1, <3>3 DEF PoolInv
    <2>9. \A q \in Path :
            /\ open'[q] = orphans'[q] + (IF pooled'[q] = "open" THEN 1 ELSE 0)
                                     + (IF Connecting(q)' THEN 1 ELSE 0)
            /\ pooled'[q] = "closed" => At("closeall")' /\ q \notin closing'
            /\ q \in closing' => At("closeall")' /\ pooled'[q] = "open"
      BY <1>3, <2>2, <2>6 DEF PoolInv
    <2> QED  BY <2>4, <2>7, <2>8, <2>9 DEF PoolInv
  <1>5. ASSUME Enter(t) PROVE PoolTyped' /\ PoolInv'
    <2>1. PICK pc \in {"got", "connect"} :
              /\ getter' = [getter EXCEPT ![t] = pc]
              /\ IF pooled[p] # "none" THEN pc = "got" /\ initLock' = initLock
                                       ELSE pc = "connect" /\ initLock' = t
      BY <1>5 DEF Enter, Moves
    <2>2. UNCHANGED <<pooled, open, orphans, closing, faults>>  BY <1>5 DEF Enter
    <2>3. getter[t] = "lock" /\ initLock = NoTask  BY <1>5 DEF Enter
    <2>4. PoolTyped'  BY <2>1, <2>2 DEF PoolTyped, GetStates
    <2>5. \A u \in Task : getter'[u] = IF u = t THEN pc ELSE getter[u]  BY <2>1 DEF PoolTyped
    <2>6. \A q \in Path : Connecting(q)' <=> Connecting(q)  BY <2>3, <2>1, <2>5 DEF Connecting
    <2>7. \A u \in Task : /\ getter'[u] \in {"connect", "pragmas"} <=> initLock' = u
                          /\ getter'[u] \in {"connect", "pragmas"} => pooled'[PathOf(u)] = "none"
      BY <1>1, <2>1, <2>2, <2>3, <2>5 DEF PoolInv
    <2>8. /\ getter'[Main] # "idle" => At("opening")' /\ app'.step = 1
          /\ getter'[Main] = "got" => pooled'["mods"] = "open"
      <3>1. t = Main => At("opening") /\ app.step = 1  BY <2>3 DEF PoolInv
      <3>2. pooled["mods"] = "closed" => At("closeall")  BY <1>1 DEF PoolInv
      <3>3. t = Main /\ pooled["mods"] # "none" => pooled["mods"] = "open"
        BY <1>1, <3>1, <3>2 DEF At, PoolTyped
      <3> QED  BY <1>1, <1>3, <2>1, <2>2, <2>5, <3>1, <3>3 DEF PoolInv
    <2>9. \A q \in Path :
            /\ open'[q] = orphans'[q] + (IF pooled'[q] = "open" THEN 1 ELSE 0)
                                     + (IF Connecting(q)' THEN 1 ELSE 0)
            /\ pooled'[q] = "closed" => At("closeall")' /\ q \notin closing'
            /\ q \in closing' => At("closeall")' /\ pooled'[q] = "open"
      BY <1>3, <2>2, <2>6 DEF PoolInv
    <2> QED  BY <2>4, <2>7, <2>8, <2>9 DEF PoolInv
  <1>6. ASSUME Connect(t) PROVE PoolTyped' /\ PoolInv'
    <2>1. PICK pc \in {"pragmas", "raised"} :
              /\ getter' = [getter EXCEPT ![t] = pc]
              /\ IF pc = "pragmas" THEN open' = [open EXCEPT ![p] = @ + 1] /\ initLock' = initLock
                                   ELSE open' = open /\ initLock' = NoTask
      BY <1>6 DEF Connect, Moves
    <2>2. UNCHANGED <<pooled, orphans, closing>> /\ faults' \in 0..MaxFaults
      BY <1>6, FaultTyped DEF Connect, PoolTyped
    <2>3. getter[t] = "connect" /\ initLock = t /\ pooled[p] = "none"
      BY <1>6 DEF Connect, PoolInv
    <2>4. PoolTyped'  BY <1>1, <2>1, <2>2 DEF PoolTyped, GetStates
    <2>5. \A u \in Task : getter'[u] = IF u = t THEN pc ELSE getter[u]  BY <2>1 DEF PoolTyped
    <2>6. \A q \in Path : /\ ~Connecting(q)
                          /\ Connecting(q)' <=> pc = "pragmas" /\ q = p
      BY <1>2, <2>3, <2>5 DEF Connecting
    <2>7. \A u \in Task : /\ getter'[u] \in {"connect", "pragmas"} <=> initLock' = u
                          /\ getter'[u] \in {"connect", "pragmas"} => pooled'[PathOf(u)] = "none"
      BY <1>1, <1>2, <2>1, <2>2, <2>3, <2>5
    <2>8. /\ getter'[Main] # "idle" => At("opening")' /\ app'.step = 1
          /\ getter'[Main] = "got" => pooled'["mods"] = "open"
      BY <1>1, <1>3, <2>1, <2>2, <2>3, <2>5 DEF PoolInv
    <2>9. \A q \in Path :
            open'[q] = orphans'[q] + (IF pooled'[q] = "open" THEN 1 ELSE 0)
                                   + (IF Connecting(q)' THEN 1 ELSE 0)
      <3> SUFFICES ASSUME NEW q \in Path
                   PROVE  open'[q] = orphans'[q] + (IF pooled'[q] = "open" THEN 1 ELSE 0)
                                                + (IF Connecting(q)' THEN 1 ELSE 0)
        OBVIOUS
      <3>1. open[q] = orphans[q] + (IF pooled[q] = "open" THEN 1 ELSE 0)
        BY <2>6 DEF PoolInv, PoolTyped
      <3>2. open'[q] = open[q] + IF pc = "pragmas" /\ q = p THEN 1 ELSE 0
        BY <1>1, <2>1 DEF PoolTyped
      <3>3. open[q] \in Nat /\ orphans[q] \in Nat  BY DEF PoolTyped
      <3> QED  BY <2>2, <2>6, <3>1, <3>2, <3>3
    <2>10. \A q \in Path :
            /\ pooled'[q] = "closed" => At("closeall")' /\ q \notin closing'
            /\ q \in closing' => At("closeall")' /\ pooled'[q] = "open"
      BY <1>3, <2>2 DEF PoolInv
    <2> QED  BY <2>4, <2>7, <2>8, <2>9, <2>10 DEF PoolInv
  <1>7. ASSUME Pragmas(t) PROVE PoolTyped' /\ PoolInv'
    <2>1. PICK pc \in {"got", "raised"} :
              /\ getter' = [getter EXCEPT ![t] = pc]
              /\ IF pc = "got" THEN pooled' = [pooled EXCEPT ![p] = "open"] /\ orphans' = orphans
                               ELSE pooled' = pooled /\ orphans' = [orphans EXCEPT ![p] = @ + 1]
      BY <1>7 DEF Pragmas, Moves, Orphan
    <2>2. initLock' = NoTask /\ UNCHANGED <<open, closing>> /\ faults' \in 0..MaxFaults
      BY <1>7, FaultTyped DEF Pragmas, PoolTyped
    <2>3. getter[t] = "pragmas" /\ initLock = t /\ pooled[p] = "none"
      BY <1>7 DEF Pragmas, PoolInv
    <2>4. PoolTyped'  BY <1>1, <2>1, <2>2 DEF PoolTyped, GetStates
    <2>5. \A u \in Task : getter'[u] = IF u = t THEN pc ELSE getter[u]  BY <2>1 DEF PoolTyped
    <2>6. \A q \in Path : /\ Connecting(q) <=> q = p
                          /\ ~Connecting(q)'
      BY <1>2, <2>1, <2>3, <2>5 DEF Connecting
    <2>7. \A u \in Task : /\ getter'[u] \in {"connect", "pragmas"} <=> initLock' = u
                          /\ getter'[u] \in {"connect", "pragmas"} => pooled'[PathOf(u)] = "none"
      BY <1>1, <1>2, <2>1, <2>2, <2>3, <2>5
    <2>8. \A q \in Path :
            /\ pooled'[q] = IF q = p /\ pc = "got" THEN "open" ELSE pooled[q]
            /\ orphans'[q] = orphans[q] + IF q = p /\ pc = "raised" THEN 1 ELSE 0
            /\ open[q] \in Nat /\ orphans[q] \in Nat
      BY <1>1, <2>1 DEF PoolTyped
    <2>9. /\ getter'[Main] # "idle" => At("opening")' /\ app'.step = 1
          /\ getter'[Main] = "got" => pooled'["mods"] = "open"
      BY <1>1, <1>3, <2>1, <2>3, <2>5, <2>8 DEF PoolInv
    <2>10. \A q \in Path :
            open'[q] = orphans'[q] + (IF pooled'[q] = "open" THEN 1 ELSE 0)
                                   + (IF Connecting(q)' THEN 1 ELSE 0)
      <3> SUFFICES ASSUME NEW q \in Path
                   PROVE  open'[q] = orphans'[q] + (IF pooled'[q] = "open" THEN 1 ELSE 0)
                                                + (IF Connecting(q)' THEN 1 ELSE 0)
        OBVIOUS
      <3>1. open[q] = orphans[q] + (IF pooled[q] = "open" THEN 1 ELSE 0) + (IF q = p THEN 1 ELSE 0)
        BY <2>6 DEF PoolInv
      <3> QED  BY <2>1, <2>2, <2>3, <2>6, <2>8, <3>1
    <2>11. \A q \in Path :
            /\ pooled'[q] = "closed" => At("closeall")' /\ q \notin closing'
            /\ q \in closing' => At("closeall")' /\ pooled'[q] = "open"
      BY <1>3, <2>2, <2>8 DEF PoolInv
    <2> QED  BY <2>4, <2>7, <2>9, <2>10, <2>11 DEF PoolInv
  <1>8. pooled["mods"] = "open" => pooled'["mods"] = "open"
    BY <1>1 DEF Getting, Ask, Enter, Connect, Pragmas, Scan, PoolTyped
  <1> QED  BY <1>4, <1>5, <1>6, <1>7, <1>8 DEF Getting
------------------------------------------------------------------------------
\* The types of the context and of the supervisor.
CtxTyped ==
    /\ app \in [pc : AppStates, step : 1..8, gen : 0..MaxStarts, failing : BOOLEAN]
    /\ live \subseteq Part \X (0..MaxStarts) /\ lost \subseteq Part \X (0..MaxStarts)
    /\ ref \in [{"registry", "router", "polling"} -> 0..MaxStarts]
    /\ stack \in Seq(Closer)
    /\ sup \in [pc : {"off", "opening", "serving", "closing", "over"}, up : 0..Len(Daemons)]

LEMMA Types == TypeOK <=> CtxTyped /\ PoolTyped
  <1>1. 1..Len(Steps) + 1 = 1..8  BY StepsAre
  <1> QED  BY <1>1 DEF TypeOK, CtxTyped, PoolTyped

LEMMA PushIs ==
    ASSUME CtxTyped, NEW part \in Part, Push(part)
    PROVE  /\ stack' \in Seq(Closer) /\ Len(stack) \in Nat /\ Len(stack') = Len(stack) + 1
           /\ \A i \in 1..Len(stack) : stack'[i] = stack[i]
           /\ stack'[Len(stack) + 1] = [part |-> part, gen |-> app.gen]
  <1>1. [part |-> part, gen |-> app.gen] \in Closer /\ stack \in Seq(Closer)
    BY DEF CtxTyped, Closer
  <1> QED  BY <1>1 DEF Push

LEMMA StackIs ==
    ASSUME CtxTyped
    PROVE  \A i \in 1..Len(stack) : /\ stack[i] \in Closer
                                     /\ stack[i].part \in Part \cup {"lifecycle"}
                                     /\ Rank(stack[i].part) \in Nat
  <1>1. \A i \in 1..Len(stack) : stack[i] \in Closer  BY DEF CtxTyped
  <1>2. \A i \in 1..Len(stack) : stack[i].part \in Part \cup {"lifecycle"}  BY <1>1 DEF Closer
  <1> QED  BY <1>1, <1>2, RanksAre

CtxInv == Ordered /\ Held /\ Referred /\ Opened /\ Layers

LEMMA KeptAre ==
    ASSUME CtxTyped, NEW x \in Kept
    PROVE  x[1] \in Part /\ x[2] \in 0..MaxStarts /\ x = <<x[1], x[2]>>
  BY DEF CtxTyped, Kept

\* Nothing of the context changes but where it is.
LEMMA GoesOn ==
    ASSUME CtxTyped, CtxInv, UNCHANGED <<live, lost, ref, stack>>,
           app'.pc \notin {"idle", "opening"}, app'.gen > 0,
           \/ app'.pc \in Early
           \/ app.pc \notin Early /\ app'.gen = app.gen,
           app'.pc \in {"shutdown", "closeall", "failed", "stopped"} => stack = <<>>,
           app'.pc = "td_router" => \A x \in Kept : x[1] # "polling",
           app'.pc = "td_registry" => \A x \in Kept : x[1] \notin {"router", "polling"},
           pooled["mods"] = "open" => pooled'["mods"] = "open"
    PROVE  CtxInv'
  <1> USE DEF CtxInv
  <1>1. Kept' = Kept  BY DEF Kept
  <1>2. Ordered'  BY DEF Ordered, At
  <1>3. \A x : OnStack(x)' <=> OnStack(x)  BY DEF OnStack
  <1>4. Held'  BY <1>1, <1>3 DEF Held, At
  <1>5. Referred'  BY <1>1 DEF Referred, At
  <1>6. Opened'  BY DEF Opened, At
  <1>7. Layers'  BY <1>1 DEF Layers, Kept
  <1> QED  BY <1>2, <1>4, <1>5, <1>6, <1>7

LEMMA NextStepIs ==
    ASSUME CtxTyped, app.step \in 1..7, NextStep
    PROVE  /\ app' \in [pc : AppStates, step : 1..8, gen : 0..MaxStarts, failing : BOOLEAN]
           /\ app'.gen = app.gen /\ app'.step = app.step + 1
           /\ app'.pc = IF app.step = 7 THEN "running" ELSE "opening"
  <1>1. app \in [pc : AppStates, step : 1..8, gen : 0..MaxStarts, failing : BOOLEAN]
    BY DEF CtxTyped
  <1>2. app' = [app EXCEPT !.step = app.step + 1,
                           !.pc = IF app.step = 7 THEN "running" ELSE "opening"]
    BY StepsAre DEF NextStep
  <1>3. PICK pc \in AppStates : pc = IF app.step = 7 THEN "running" ELSE "opening"
    BY DEF AppStates
  <1>4. app' = [app EXCEPT !.step = app.step + 1, !.pc = pc]  BY <1>2, <1>3
  <1>5. app.step + 1 \in 1..8  OBVIOUS
  <1> QED  BY <1>1, <1>3, <1>4, <1>5

\* A step of the start that opens its part, or has only something to add to the stack.
LEMMA Opens ==
    ASSUME CtxTyped, CtxInv, At("opening"), NEW part \in Part \ {"session"},
           Steps[app.step] = part, NextStep, Push(part),
           live' = IF part = "registry" THEN live ELSE live \cup {<<part, app.gen>>},
           lost' = lost, sup' = sup,
           ref' = IF part \in {"router", "polling"} THEN [ref EXCEPT ![part] = app.gen] ELSE ref,
           pooled'["mods"] = "open"
    PROVE  CtxTyped' /\ CtxInv'
  <1> USE DEF CtxInv
  <1> DEFINE n == Len(stack)
  <1>1. app.step \in 1..7 /\ app.gen \in 1..MaxStarts /\ ref["registry"] = app.gen
    BY DEF Opened, CtxTyped, At
  <1>2. /\ app' \in [pc : AppStates, step : 1..8, gen : 0..MaxStarts, failing : BOOLEAN]
        /\ app'.gen = app.gen /\ app'.step = app.step + 1
        /\ app'.pc = IF app.step = 7 THEN "running" ELSE "opening"
    BY <1>1, NextStepIs
  <1>3. Rank(part) = IF app.step = 1 THEN 2 ELSE app.step  BY <1>1, StepsAre, RanksAre
  <1>4. app.step # 2  BY StepsAre
  <1>5. /\ stack' \in Seq(Closer) /\ n \in Nat /\ Len(stack') = n + 1
        /\ \A i \in 1..n : stack'[i] = stack[i]
        /\ stack'[n + 1] = [part |-> part, gen |-> app.gen]
    BY PushIs
  <1>6. <<part, app.gen>> \in Part \X (0..MaxStarts)  BY <1>1
  <1>7. CtxTyped'
    <2>1. ref' \in [{"registry", "router", "polling"} -> 0..MaxStarts]  BY <1>1 DEF CtxTyped
    <2>2. live' \subseteq Part \X (0..MaxStarts)  BY <1>6 DEF CtxTyped
    <2> QED  BY <1>2, <1>5, <2>1, <2>2 DEF CtxTyped
  <1>8. Kept' \subseteq Kept \cup {<<part, app.gen>>} /\ (part = "router" => <<part, app.gen>> \in live')
    BY DEF Kept
  <1>9. \A i \in 1..n : /\ stack[i].part \in Part \cup {"lifecycle"}
                        /\ Rank(stack[i].part) \in Nat /\ Rank(stack[i].part) < Rank(part)
    <2>1. \A i \in 1..n : Rank(stack[i].part) < Rank(part)  BY <1>3, <1>4 DEF Ordered
    <2> QED  BY <2>1, StackIs
  <1>10. Ordered'
    <2>1. \A i, j \in 1..(n + 1) : i < j => Rank(stack'[i].part) < Rank(stack'[j].part)
      <3> SUFFICES ASSUME NEW i \in 1..(n + 1), NEW j \in 1..(n + 1), i < j
                   PROVE  Rank(stack'[i].part) < Rank(stack'[j].part)
        OBVIOUS
      <3>1. CASE j <= n  BY <3>1, <1>5 DEF Ordered
      <3>2. CASE j = n + 1
        <4>1. i \in 1..n  BY <3>2, <1>5
        <4> QED  BY <3>2, <4>1, <1>5, <1>9
      <3> QED  BY <3>1, <3>2, <1>5
    <2>2. ASSUME At("opening")', NEW i \in 1..(n + 1)
          PROVE  Rank(stack'[i].part)
                   < IF app'.step = 1 THEN 2 ELSE IF app'.step = 2 THEN 3 ELSE app'.step
      <3>1. Rank(stack'[i].part) <= Rank(part)
        <4>1. CASE i \in 1..n  BY <4>1, <1>3, <1>5, <1>9, <1>1
        <4>2. CASE i = n + 1  BY <4>2, <1>3, <1>5, <1>1
        <4> QED  BY <4>1, <4>2, <1>5
      <3>2. i \in 1..n => Rank(stack'[i].part) \in Nat  BY <1>5, <1>9
      <3>3. i = n + 1 => Rank(stack'[i].part) \in Nat  BY <1>1, <1>3, <1>5
      <3>4. Rank(stack'[i].part) \in Nat  BY <3>2, <3>3, <1>5
      <3> QED  BY <3>1, <3>4, <1>1, <1>2, <1>3, <1>4
    <2>3. app'.pc \notin {"shutdown", "closeall", "failed", "stopped"}  BY <1>2
    <2> QED  BY <2>1, <2>2, <2>3, <1>5 DEF Ordered
  <1>11. Held'
    <2>1. \A x : OnStack(x) => OnStack(x)'  BY <1>5 DEF OnStack
    <2>2. \A x : x[1] = part /\ x[2] = app.gen => OnStack(x)'  BY <1>5 DEF OnStack
    <2>3. \A x \in Kept : OnStack(x) /\ (x[1] = "session" \/ x[2] = app.gen)
      BY DEF Held, At, Early
    <2>4. ASSUME NEW x \in Kept'
          PROVE  OnStack(x)' /\ (x[1] = "session" \/ x[2] = app.gen)
      <3>1. CASE x \in Kept  BY <3>1, <2>1, <2>3
      <3>2. CASE x = <<part, app.gen>>
        <4>1. x[1] = part /\ x[2] = app.gen  BY <3>2
        <4> QED  BY <4>1, <2>2
      <3> QED  BY <1>8, <3>1, <3>2
    <2>5. OnStack(<<"session", 0>>)'  BY <2>1 DEF Held
    <2> QED  BY <1>2, <2>4, <2>5 DEF Held
  <1>12. Referred'
    <2>1. \A x \in Kept' : x \in Kept \/ x = <<part, app.gen>>  BY <1>8
    <2>2. \A x \in Kept' : x[1] # "registry" /\ IF x[1] = "session" THEN x[2] = 0 ELSE x[2] > 0
      BY <1>1, <2>1 DEF Referred, Kept
    <2>3. ASSUME NEW x \in Kept', x[1] \in {"router", "polling"} PROVE ref'[x[1]] = x[2]
      <3>1. CASE x = <<part, app.gen>>  BY <2>3, <3>1 DEF CtxTyped
      <3>2. CASE x \in Kept
        <4>1. ref[x[1]] = x[2]  BY <2>3, <3>2 DEF Referred
        <4>2. x[2] = app.gen  BY <2>3, <3>2 DEF Held, At, Early
        <4> QED  BY <2>3, <4>1, <4>2 DEF CtxTyped
      <3> QED  BY <2>1, <3>1, <3>2
    <2> QED  BY <1>2, <2>2, <2>3 DEF Referred, At
  <1>13. Opened'
    <2>1. ref'["registry"] = app'.gen  BY <1>1, <1>2 DEF CtxTyped
    <2>2. At("opening")' /\ app'.step = 7 => <<"router", app'.gen>> \in live'
      BY <1>1, <1>2, <1>8, StepsAre
    <2> QED  BY <1>1, <1>2, <2>1, <2>2 DEF Opened, At
  <1>14. Layers'
    <2>1. ASSUME NEW x \in Kept', x[1] = "polling" PROVE <<"router", x[2]>> \in live'
      <3>1. CASE x \in Kept  BY <2>1, <3>1 DEF Layers, Kept
      <3>2. CASE x = <<part, app.gen>>
        <4>1. app.step = 7  BY <1>1, <2>1, <3>2, StepsAre
        <4> QED  BY <3>2, <4>1 DEF Opened
      <3> QED  BY <1>8, <3>1, <3>2
    <2>2. ASSUME NEW x \in Kept', x[1] = "router" PROVE ref'["registry"] = x[2]
      <3>1. x[2] = app.gen  BY <1>8, <2>2 DEF Held, At, Early
      <3> QED  BY <1>1, <3>1 DEF CtxTyped
    <2> QED  BY <2>1, <2>2 DEF Layers, Kept
  <1> QED  BY <1>7, <1>10, <1>11, <1>12, <1>13, <1>14

\* A step of the start that leaves the stack as it is.
LEMMA Skips ==
    ASSUME CtxTyped, CtxInv, At("opening"), app.step \notin {1, 6}, NextStep,
           UNCHANGED <<stack, ref, lost, sup>>,
           live' = live \/ live' = live \cup {<<"session", 0>>},
           pooled["mods"] = "open" => pooled'["mods"] = "open"
    PROVE  CtxTyped' /\ CtxInv'
  <1> USE DEF CtxInv
  <1>1. app.step \in 1..7 /\ app.gen \in 1..MaxStarts /\ ref["registry"] = app.gen
    BY DEF Opened, CtxTyped, At
  <1>2. /\ app' \in [pc : AppStates, step : 1..8, gen : 0..MaxStarts, failing : BOOLEAN]
        /\ app'.gen = app.gen /\ app'.step = app.step + 1
        /\ app'.pc = IF app.step = 7 THEN "running" ELSE "opening"
    BY <1>1, NextStepIs
  <1>3. <<"session", 0>> \in Part \X (0..MaxStarts)  BY StepsAre, LifecycleAssumption
  <1>4. CtxTyped'  BY <1>2, <1>3 DEF CtxTyped
  <1>5. Kept' \subseteq Kept \cup {<<"session", 0>>} /\ live \subseteq live'  BY DEF Kept
  <1>6. \A i \in 1..Len(stack) :
            Rank(stack[i].part) \in Nat /\ (app.step < 7 => Rank(stack[i].part) < app.step + 1)
    BY <1>1, StackIs DEF Ordered
  <1>7. Ordered'  BY <1>1, <1>2, <1>6 DEF Ordered, At
  <1>8. \A x : OnStack(x)' <=> OnStack(x)  BY DEF OnStack
  <1>9. Held'
    <2>1. OnStack(<<"session", 0>>)  BY DEF Held
    <2>2. \A x \in Kept : OnStack(x) /\ (x[1] = "session" \/ x[2] = app.gen)
      BY DEF Held, At, Early
    <2>3. ASSUME NEW x \in Kept'
          PROVE  OnStack(x)' /\ (x[1] = "session" \/ x[2] = app.gen)
      BY <1>5, <1>8, <2>1, <2>2
    <2> QED  BY <1>2, <1>8, <2>1, <2>3 DEF Held
  <1>10. Referred'
    <2>1. \A x \in Kept' : x \in Kept \/ x = <<"session", 0>>  BY <1>5
    <2>2. \A x \in Kept' : x[1] # "registry" /\ IF x[1] = "session" THEN x[2] = 0 ELSE x[2] > 0
      BY <2>1 DEF Referred
    <2>3. \A x \in Kept' : x[1] \in {"router", "polling"} => ref'[x[1]] = x[2]
      BY <2>1 DEF Referred
    <2> QED  BY <1>2, <2>2, <2>3 DEF Referred, At
  <1>11. Opened'  BY <1>1, <1>2 DEF Opened, At
  <1>12. Layers'
    <2>1. \A x \in Kept' : x[1] # "session" => x \in Kept  BY <1>5
    <2> QED  BY <1>5, <2>1 DEF Layers, Kept
  <1> QED  BY <1>4, <1>7, <1>9, <1>10, <1>11, <1>12

\* A step of the start that raises: what it may have opened is lost.
LEMMA Fails ==
    ASSUME CtxTyped, CtxInv, At("opening"), Raises, UNCHANGED <<stack, sup>>,
           \/ UNCHANGED <<live, lost, ref>>
           \/ /\ live' = live \cup {<<"router", app.gen>>}
              /\ lost' = lost \cup {<<"router", app.gen>>}
              /\ ref' = [ref EXCEPT !["router"] = app.gen],
           app.step = 1 \/ pooled'["mods"] = pooled["mods"]
    PROVE  CtxTyped' /\ CtxInv'
  <1> USE DEF CtxInv
  <1>1. app.step \in 1..7 /\ app.gen \in 1..MaxStarts  BY DEF Opened, CtxTyped, At
  <1>2. /\ app' \in [pc : AppStates, step : 1..8, gen : 0..MaxStarts, failing : BOOLEAN]
        /\ app'.gen = app.gen /\ app'.pc = "rollback"
    BY DEF Raises, CtxTyped, AppStates
  <1>3. <<"router", app.gen>> \in Part \X (0..MaxStarts)  BY <1>1, StepsAre
  <1>4. CtxTyped'  BY <1>1, <1>2, <1>3 DEF CtxTyped
  <1>5. Kept' \subseteq Kept /\ live \subseteq live'  BY DEF Kept
  <1>6. ref'["registry"] = ref["registry"] /\ ref'["polling"] = ref["polling"]
        /\ (ref'["router"] = ref["router"] \/ ref'["router"] = app.gen)
    BY DEF CtxTyped
  <1>7. \A x \in Kept : OnStack(x) /\ (x[1] = "session" \/ x[2] = app.gen)
    BY DEF Held, At, Early
  <1>8. Ordered'  BY <1>2 DEF Ordered, At
  <1>9. Held'  BY <1>2, <1>5, <1>7 DEF Held, At, OnStack
  <1>10. Referred'  BY <1>2, <1>5, <1>6, <1>7 DEF Referred, At
  <1>11. Opened'  BY <1>1, <1>2 DEF Opened, At
  <1>12. app.step = 1 => \A x \in Kept : x[1] # "router"
    <2> SUFFICES ASSUME app.step = 1, NEW x \in Kept, x[1] = "router" PROVE FALSE
      OBVIOUS
    <2>1. PICK i \in 1..Len(stack) : stack[i] = [part |-> x[1], gen |-> x[2]]
      BY <1>7 DEF OnStack
    <2>2. Rank(stack[i].part) = 6  BY <2>1, RanksAre
    <2> QED  BY <2>2 DEF Ordered
  <1>13. Layers'  BY <1>5, <1>6, <1>12 DEF Layers, Kept
  <1> QED  BY <1>4, <1>8, <1>9, <1>10, <1>11, <1>13

\* A closer of the stack runs, or fails for good.
LEMMA Unwinds ==
    ASSUME CtxTyped, CtxInv, Unwind
    PROVE  CtxTyped' /\ CtxInv'
  <1> USE DEF CtxInv
  <1> DEFINE n == Len(stack)
             part == Top.part
             gen == IF Top.part \in DOMAIN ref THEN ref[Top.part] ELSE Top.gen
  <1>1. /\ At("unwind") /\ stack # <<>> /\ part # "lifecycle" /\ stack' = Pop.rest
        /\ UNCHANGED <<app, sup, pooled>>
    BY DEF Unwind, pool
  <1>2. /\ Top \in Closer /\ Top = stack[n] /\ n \in Nat \ {0}
        /\ stack' \in Seq(Closer) /\ Len(stack') = n - 1
        /\ \A i \in 1..(n - 1) : stack'[i] = stack[i]
    BY <1>1, PopIs DEF CtxTyped
  <1>3. part \in Part /\ Top.gen \in 0..MaxStarts  BY <1>1, <1>2 DEF Closer
  <1>4. DOMAIN ref = {"registry", "router", "polling"}  BY DEF CtxTyped
  <1>5. gen \in 0..MaxStarts  BY <1>3, <1>4 DEF CtxTyped
  <1>6. \/ live' = live \ {<<part, gen>>} /\ lost' = lost
        \/ lost' = lost \cup {<<part, gen>>} /\ live' = live
    BY DEF Unwind
  <1>7. ref' = IF part \in DOMAIN ref THEN [ref EXCEPT ![part] = 0] ELSE ref
    BY DEF Unwind
  <1> HIDE DEF part, gen
  <1>8. CtxTyped'
    <2>1. ref' \in [{"registry", "router", "polling"} -> 0..MaxStarts]
      BY <1>4, <1>7, LifecycleAssumption DEF CtxTyped
    <2>2. /\ live' \subseteq Part \X (0..MaxStarts) /\ lost' \subseteq Part \X (0..MaxStarts)
      BY <1>3, <1>5, <1>6 DEF CtxTyped
    <2> QED  BY <1>1, <1>2, <2>1, <2>2 DEF CtxTyped
  <1>9. Kept' \subseteq Kept /\ <<part, gen>> \notin Kept'
    BY <1>6 DEF Kept
  <1>10. \A x \in Kept : /\ OnStack(x) /\ (x[1] = "session" \/ x[2] = app.gen)
                        /\ x = <<x[1], x[2]>>
    BY <1>1, KeptAre DEF Held, At, Early
  \* What the closer was made for is what it finds.
  <1>11. \A x \in Kept' : \E i \in 1..(n - 1) : stack[i] = [part |-> x[1], gen |-> x[2]]
    <2> SUFFICES ASSUME NEW x \in Kept'
                 PROVE  \E i \in 1..(n - 1) : stack[i] = [part |-> x[1], gen |-> x[2]]
      OBVIOUS
    <2>1. PICK i \in 1..n : stack[i] = [part |-> x[1], gen |-> x[2]]
      BY <1>9, <1>10 DEF OnStack
    <2>2. i = n => x = <<part, gen>>
      <3> SUFFICES ASSUME i = n PROVE x[1] = part /\ x[2] = gen
        BY <1>9, <1>10
      <3>1. x[1] = part /\ x[2] = Top.gen  BY <1>2, <2>1 DEF part
      <3>2. x[1] # "registry" /\ (x[1] \in {"router", "polling"} => ref[x[1]] = x[2])
        BY <1>9 DEF Referred
      <3> QED  BY <1>4, <3>1, <3>2 DEF gen, part
    <2> QED  BY <1>2, <1>9, <2>1, <2>2
  <1>12. Ordered'
    <2>1. \A i, j \in 1..(n - 1) : i < j => Rank(stack'[i].part) < Rank(stack'[j].part)
      BY <1>2 DEF Ordered
    <2> QED  BY <1>1, <1>2, <2>1 DEF Ordered, At
  <1>13. Held'
    <2>1. \A x \in Kept' : OnStack(x)'  BY <1>2, <1>11 DEF OnStack
    <2> QED  BY <1>1, <1>9, <1>10, <2>1 DEF Held, At
  <1>14. \A x \in Kept' : x[1] \in {"router", "polling"} => x[1] # part
    <2> SUFFICES ASSUME NEW x \in Kept', x[1] \in {"router", "polling"}, x[1] = part PROVE FALSE
      OBVIOUS
    <2>1. x[2] = gen  BY <1>4, <1>9 DEF Referred, gen, part
    <2>2. x = <<part, gen>>  BY <1>9, <1>10, <2>1
    <2> QED  BY <1>9, <2>2
  <1>15. Referred'
    <2>1. \A x \in Kept' : x[1] \in {"router", "polling"} => ref'[x[1]] = x[2]
      BY <1>4, <1>7, <1>9, <1>14 DEF Referred, CtxTyped
    <2> QED  BY <1>1, <1>9, <2>1 DEF Referred, At
  <1>16. Opened'  BY <1>1 DEF Opened, At
  \* The closers above are gone.
  <1>17. Layers'
    <2>1. ASSUME NEW x \in Kept', x[1] \in {"router", "polling"}
          PROVE  part # "registry" /\ (x[1] = "polling" => part # "router")
      <3>1. PICK i \in 1..(n - 1) : stack[i] = [part |-> x[1], gen |-> x[2]]  BY <1>11
      <3>2. Rank(x[1]) < Rank(part)  BY <1>2, <3>1 DEF Ordered, part
      <3> QED  BY <2>1, <3>2, RanksAre
    <2>2. ASSUME NEW x \in Kept', x[1] = "polling" PROVE <<"router", x[2]>> \in live'
      <3>1. <<"router", x[2]>> \in live  BY <1>9, <2>2 DEF Layers, Kept
      <3>2. part # "router"  BY <2>1, <2>2
      <3> QED  BY <1>6, <3>1, <3>2
    <2>3. ASSUME NEW x \in Kept', x[1] = "router"
          PROVE  ref'["registry"] = x[2] /\ pooled'["mods"] = "open"
      <3>1. ref["registry"] = x[2] /\ pooled["mods"] = "open"  BY <1>9, <2>3 DEF Layers, Kept
      <3>2. part # "registry"  BY <2>1, <2>3
      <3> QED  BY <1>1, <1>4, <1>7, <3>1, <3>2 DEF CtxTyped
    <2> QED  BY <2>2, <2>3 DEF Layers, Kept
  <1> QED  BY <1>8, <1>12, <1>13, <1>15, <1>16, <1>17

------------------------------------------------------------------------------
\* The pool, in a step of the context that does not touch it.
LEMMA PoolQuiet ==
    ASSUME PoolTyped, PoolInv, UNCHANGED pool, faults' \in 0..MaxFaults,
           At("closeall") <=> app'.pc = "closeall",
           getter[Main] # "idle" => app'.pc = "opening" /\ app'.step = app.step
    PROVE  PoolTyped' /\ PoolInv'
  <1>1. UNCHANGED <<getter, initLock, pooled, open, orphans, closing>>  BY DEF pool
  <1>2. PoolTyped'  BY <1>1 DEF PoolTyped
  <1>3. \A p \in Path : Connecting(p)' <=> Connecting(p)  BY <1>1 DEF Connecting
  <1>4. PoolInv'  BY <1>1, <1>3 DEF PoolInv, At
  <1> QED  BY <1>2, <1>4

\* The inductive invariant.
IInv == CtxTyped /\ PoolTyped /\ PoolInv /\ CtxInv

AppRecord == [pc : AppStates, step : 1..8, gen : 0..MaxStarts, failing : BOOLEAN]

LEMMA AppIs ==
    ASSUME CtxTyped, NEW pc \in AppStates, NEW st \in 1..8, NEW g \in 0..MaxStarts,
           app' = [app EXCEPT !.pc = pc, !.step = st, !.gen = g]
    PROVE  app' \in AppRecord /\ app'.pc = pc /\ app'.step = st /\ app'.gen = g
  <1>1. app \in AppRecord  BY DEF CtxTyped, AppRecord
  <1> QED  BY <1>1 DEF AppRecord

\* A start begins, and begins to open.
LEMMA Beginning ==
    ASSUME IInv, StartMinimal \/ Restart \/ Reset
    PROVE  IInv'
  <1> USE DEF IInv, CtxInv
  <1>0. getter[Main] # "idle" => At("opening") /\ app.step = 1  BY DEF PoolInv
  <1>1. CASE StartMinimal
    <2>1. At("idle") /\ live = {} /\ UNCHANGED <<ref, lost, pool, sup, faults>>
      BY <1>1 DEF StartMinimal, Opened
    <2>2. /\ app' = [app EXCEPT !.pc = "td_polling", !.gen = 1]
          /\ live' = {<<"session", 0>>}
          /\ stack' = <<[part |-> "lifecycle", gen |-> 0], [part |-> "session", gen |-> 0]>>
      BY <1>1 DEF StartMinimal
    <2>3. /\ app' \in [pc : AppStates, step : 1..8, gen : 0..MaxStarts, failing : BOOLEAN]
          /\ app'.pc = "td_polling" /\ app'.gen = 1
      <3>1. app \in AppRecord /\ 1 \in 0..MaxStarts /\ "td_polling" \in AppStates
        BY LifecycleAssumption DEF CtxTyped, AppRecord, AppStates
      <3> QED  BY <2>2, <3>1 DEF AppRecord
    <2>4. /\ stack' \in Seq(Closer) /\ Len(stack') = 2
          /\ stack'[1].part = "lifecycle" /\ stack'[2].part = "session"
      <3>1. /\ [part |-> "lifecycle", gen |-> 0] \in Closer
            /\ [part |-> "session", gen |-> 0] \in Closer
        BY StepsAre, LifecycleAssumption DEF Closer
      <3> QED  BY <2>2, <3>1
    <2>5. <<"session", 0>> \in Part \X (0..MaxStarts)  BY StepsAre, LifecycleAssumption
    <2>6. CtxTyped'  BY <2>1, <2>2, <2>3, <2>4, <2>5 DEF CtxTyped
    <2>7. \A x \in Kept' : x[1] = "session" /\ x[2] = 0  BY <2>2 DEF Kept
    <2>8. Ordered'  BY <2>3, <2>4, RanksAre DEF Ordered, At
    <2>9. Held' /\ Referred' /\ Opened'
      BY <2>3, <2>7 DEF Held, Referred, Opened, At, Early
    <2>10. Layers'  BY <2>7 DEF Layers, Kept
    <2>11. PoolTyped' /\ PoolInv'
      BY <1>0, <2>1, <2>3, PoolQuiet DEF At, PoolTyped
    <2> QED  BY <2>6, <2>8, <2>9, <2>10, <2>11
  <1>2. CASE Restart
    <2>1. /\ app' \in [pc : AppStates, step : 1..8, gen : 0..MaxStarts, failing : BOOLEAN]
          /\ app'.pc = "td_polling" /\ app'.gen > 0
      <3>1. app \in AppRecord /\ app.gen + 1 \in 1..MaxStarts /\ "td_polling" \in AppStates
        BY <1>2, LifecycleAssumption DEF Restart, CtxTyped, AppRecord, AppStates
      <3>2. app' = [app EXCEPT !.pc = "td_polling", !.step = app.step, !.gen = app.gen + 1]
        BY <1>2, <3>1 DEF Restart, AppRecord
      <3>3. app.step \in 1..8 /\ app.gen + 1 \in 0..MaxStarts  BY <3>1 DEF AppRecord
      <3>4. app' \in AppRecord /\ app'.pc = "td_polling" /\ app'.gen = app.gen + 1
        BY <3>1, <3>2, <3>3, AppIs
      <3> QED  BY <3>1, <3>4 DEF AppRecord
    <2>2. UNCHANGED <<live, ref, stack, lost, pool, sup, faults>> /\ app.pc \in {"running", "failed"}
      BY <1>2 DEF Restart
    <2>3. CtxTyped'  BY <2>1, <2>2 DEF CtxTyped
    <2>4. CtxInv'  BY <2>1, <2>2, GoesOn DEF pool, Early
    <2>5. PoolTyped' /\ PoolInv'  BY <1>0, <2>1, <2>2, PoolQuiet DEF At, PoolTyped
    <2> QED  BY <2>3, <2>4, <2>5
  <1>3. CASE Reset
    <2>1. /\ app' \in [pc : AppStates, step : 1..8, gen : 0..MaxStarts, failing : BOOLEAN]
          /\ app'.pc = "opening" /\ app'.step = 1 /\ app'.gen = app.gen /\ app.gen \in 1..MaxStarts
      <3>1. app \in AppRecord /\ "opening" \in AppStates  BY DEF CtxTyped, AppRecord, AppStates
      <3>2. app.gen \in 1..MaxStarts  BY <1>3, <3>1 DEF Reset, Opened, At, AppRecord
      <3>3. app' = [app EXCEPT !.pc = "opening", !.step = 1]  BY <1>3 DEF Reset
      <3>4. app' = [app EXCEPT !.pc = "opening", !.step = 1, !.gen = app.gen]
        BY <3>1, <3>3 DEF AppRecord
      <3>5. 1 \in 1..8 /\ app.gen \in 0..MaxStarts  BY <3>2
      <3> QED  BY <3>1, <3>2, <3>4, <3>5, AppIs DEF AppRecord
    <2>2. /\ UNCHANGED <<live, initLock, pooled, open, orphans, closing, sup, faults>>
          /\ At("reset") /\ lost' = live \ {<<"session", 0>>}
          /\ getter' = [getter EXCEPT ![Main] = "ask"]
          /\ ref' = [ref EXCEPT !["registry"] = app.gen]
          /\ stack' = <<[part |-> "lifecycle", gen |-> 0], [part |-> "session", gen |-> 0]>>
      BY <1>3 DEF Reset
    <2>4. /\ stack' \in Seq(Closer) /\ Len(stack') = 2
          /\ stack'[1].part = "lifecycle" /\ stack'[2] = [part |-> "session", gen |-> 0]
      <3>1. /\ [part |-> "lifecycle", gen |-> 0] \in Closer
            /\ [part |-> "session", gen |-> 0] \in Closer
        BY StepsAre, LifecycleAssumption DEF Closer
      <3> QED  BY <2>2, <3>1
    <2>5. ref' \in [{"registry", "router", "polling"} -> 0..MaxStarts] /\ ref'["registry"] = app.gen
      BY <2>1, <2>2 DEF CtxTyped
    <2>6. CtxTyped'  BY <2>1, <2>2, <2>4, <2>5 DEF CtxTyped
    <2>7. \A x \in Kept' : x = <<"session", 0>>  BY <2>2 DEF Kept
    <2>8. Ordered'  BY <2>1, <2>4, RanksAre DEF Ordered, At
    <2>9. \A x : x[1] = "session" /\ x[2] = 0 => OnStack(x)'  BY <2>4 DEF OnStack
    <2>10. OnStack(<<"session", 0>>)'  BY <2>9
    <2>11. Held'  BY <2>1, <2>7, <2>9, <2>10 DEF Held
    <2>12. Referred' /\ Opened'  BY <2>1, <2>5, <2>7 DEF Referred, Opened, At
    <2>13. Layers'
      <3>1. \A x \in Kept' : x[1] = "session"  BY <2>7
      <3> QED  BY <3>1 DEF Layers, Kept
    <2>14. PoolTyped' /\ PoolInv'
      <3>1. getter[Main] = "idle"  BY <1>0, <2>2 DEF At
      <3>2. PoolTyped' /\ Main \in Task  BY <2>2, TasksAre DEF PoolTyped, GetStates
      <3>3. \A t \in Task : getter'[t] = IF t = Main THEN "ask" ELSE getter[t]
        BY <2>2 DEF PoolTyped
      <3>4. \A p \in Path : Connecting(p)' <=> Connecting(p)  BY <3>1, <3>3 DEF Connecting
      <3>5. ~At("closeall") /\ ~At("closeall")'  BY <2>1, <2>2 DEF At
      <3> QED  BY <2>1, <2>2, <3>1, <3>2, <3>3, <3>4, <3>5 DEF PoolInv, At
    <2> QED  BY <2>6, <2>8, <2>11, <2>12, <2>13, <2>14
  <1> QED  BY <1>1, <1>2, <1>3

LEMMA GoToIs ==
    ASSUME CtxTyped, NEW pc \in AppStates, GoTo(pc)
    PROVE  /\ app' \in [pc : AppStates, step : 1..8, gen : 0..MaxStarts, failing : BOOLEAN]
           /\ app'.pc = pc /\ app'.step = app.step /\ app'.gen = app.gen
  <1>1. app \in AppRecord  BY DEF CtxTyped, AppRecord
  <1> QED  BY <1>1 DEF AppRecord, GoTo

\* The teardown closes what the context refers to: there is no other router and no
\* other polling.
LEMMA TearsDown ==
    ASSUME IInv, NEW part \in {"polling", "router"},
           part = "polling" => TearDown("polling", "td_polling", "td_router"),
           part = "router" => TearDown("router", "td_router", "td_registry")
    PROVE  IInv'
  <1> USE DEF IInv, CtxInv
  <1> DEFINE next == IF part = "polling" THEN "td_router" ELSE "td_registry"
  <1>1. /\ part = "polling" => At("td_polling")
        /\ part = "router" => At("td_router")
        /\ UNCHANGED <<stack, lost, pool, sup>>
    BY DEF TearDown
  <1>2. \/ ref[part] = 0 /\ GoTo(next) /\ UNCHANGED <<live, ref, faults>>
        \/ /\ live' = live \ {<<part, ref[part]>>}
           /\ ref' = [ref EXCEPT ![part] = 0]
           /\ GoTo(next) /\ UNCHANGED faults
        \/ Fault /\ GoTo("reset") /\ UNCHANGED <<live, ref>>
    <2>1. CASE part = "polling"  BY <2>1 DEF TearDown
    <2>2. CASE part = "router"  BY <2>2 DEF TearDown
    <2> QED  BY <2>1, <2>2
  <1>3. app.gen > 0 /\ app.gen \in 0..MaxStarts  BY <1>1 DEF Opened, At, CtxTyped
  <1>4. next \in AppStates /\ "reset" \in AppStates  BY DEF AppStates
  <1>5. /\ app' \in [pc : AppStates, step : 1..8, gen : 0..MaxStarts, failing : BOOLEAN]
        /\ app'.pc \in {next, "reset"} /\ app'.gen = app.gen
        /\ \/ app'.pc = "reset"
           \/ ref[part] = 0
           \/ live' = live \ {<<part, ref[part]>>}
    BY <1>2, <1>4, GoToIs
  <1>6. \/ UNCHANGED <<live, ref>>
        \/ live' = live \ {<<part, ref[part]>>} /\ ref' = [ref EXCEPT ![part] = 0]
    BY <1>2
  <1>7. faults' \in 0..MaxFaults
    BY <1>2, FaultTyped DEF PoolTyped
  <1>8. CtxTyped'
    <2>1. ref' \in [{"registry", "router", "polling"} -> 0..MaxStarts]
      BY <1>6, LifecycleAssumption DEF CtxTyped
    <2> QED  BY <1>1, <1>5, <1>6, <2>1 DEF CtxTyped
  <1>9. Kept' \subseteq Kept  BY <1>1, <1>6 DEF Kept
  <1>10. \A x \in Kept : x = <<x[1], x[2]>>  BY KeptAre
  <1>11. ASSUME NEW x \in Kept', x[1] = part
         PROVE  app'.pc = "reset" /\ UNCHANGED <<live, ref>>
    <2>1. ref[part] = x[2] /\ x[2] > 0  BY <1>9, <1>11 DEF Referred
    <2>2. x = <<part, ref[part]>>  BY <1>9, <1>10, <1>11, <2>1
    <2>3. x \in live'  BY DEF Kept
    <2>4. ref[part] # 0  BY <2>1
    <2> QED  BY <1>2, <1>5, <2>2, <2>3, <2>4
  <1>12. Ordered'  BY <1>1, <1>5 DEF Ordered, At
  <1>13. Held'  BY <1>5 DEF Held, At, Early
  <1>14. Referred'
    <2>1. ASSUME NEW x \in Kept', x[1] \in {"router", "polling"} PROVE ref'[x[1]] = x[2]
      <3>1. ref[x[1]] = x[2]  BY <1>9, <2>1 DEF Referred
      <3>2. x[1] = part => ref' = ref  BY <1>11
      <3> QED  BY <1>6, <2>1, <3>1, <3>2 DEF CtxTyped
    <2>2. At("td_router")' => \A x \in Kept' : x[1] # "polling"
      BY <1>5, <1>11 DEF At
    <2>3. At("td_registry")' => \A x \in Kept' : x[1] \notin {"router", "polling"}
      BY <1>1, <1>5, <1>9, <1>11 DEF At, Referred
    <2> QED  BY <1>9, <2>1, <2>2, <2>3 DEF Referred
  <1>15. Opened'  BY <1>3, <1>5 DEF Opened, At
  <1>16. Layers'
    <2>1. ASSUME NEW x \in Kept', x[1] = "polling" PROVE <<"router", x[2]>> \in live'
      <3>1. <<"router", x[2]>> \in live  BY <1>9, <2>1 DEF Layers, Kept
      <3>2. part = "polling"
        BY <1>1, <1>9, <2>1 DEF Referred
      <3> QED  BY <1>6, <3>1, <3>2
    <2>2. ref'["registry"] = ref["registry"] /\ pooled' = pooled
      BY <1>1, <1>6 DEF CtxTyped, pool
    <2> QED  BY <1>9, <2>1, <2>2 DEF Layers, Kept
  <1>17. PoolTyped' /\ PoolInv'
    <2>1. getter[Main] = "idle"  BY <1>1 DEF PoolInv, At
    <2>2. ~At("closeall") /\ app'.pc # "closeall"  BY <1>1, <1>5 DEF At
    <2> QED  BY <1>1, <1>7, <2>1, <2>2, PoolQuiet
  <1> QED  BY <1>8, <1>12, <1>13, <1>14, <1>15, <1>16, <1>17

LEMMA DropsRegistry ==
    ASSUME IInv, TearDownRegistry
    PROVE  IInv'
  <1> USE DEF IInv, CtxInv
  <1>1. /\ At("td_registry") /\ GoTo("reset") /\ ref' = [ref EXCEPT !["registry"] = 0]
        /\ UNCHANGED <<live, stack, lost, pool, sup, faults>>
    BY DEF TearDownRegistry
  <1>2. /\ app' \in [pc : AppStates, step : 1..8, gen : 0..MaxStarts, failing : BOOLEAN]
        /\ app'.pc = "reset" /\ app'.gen = app.gen
    BY <1>1, GoToIs DEF AppStates
  <1>3. ref' \in [{"registry", "router", "polling"} -> 0..MaxStarts]
    BY <1>1, LifecycleAssumption DEF CtxTyped
  <1>4. CtxTyped'  BY <1>1, <1>2, <1>3 DEF CtxTyped
  <1>5. Kept' = Kept  BY <1>1 DEF Kept
  <1>6. \A x \in Kept' : x[1] \notin {"router", "polling"}  BY <1>1, <1>5 DEF Referred
  <1>7. Ordered' /\ Held' /\ Opened'  BY <1>1, <1>2 DEF Ordered, Held, Opened, At, Early
  <1>8. Referred'  BY <1>2, <1>5, <1>6 DEF Referred, At
  <1>9. Layers'  BY <1>6 DEF Layers, Kept
  <1>10. PoolTyped' /\ PoolInv'
    BY <1>1, <1>2, PoolQuiet DEF PoolInv, At, PoolTyped
  <1> QED  BY <1>4, <1>7, <1>8, <1>9, <1>10

------------------------------------------------------------------------------
\* The start has its connection, or not, and goes on, gives it up or asks for another.
LEMMA MainDone ==
    ASSUME PoolTyped, PoolInv, At("opening"), app.step = 1, getter[Main] \in {"raised", "got"},
           NEW pc \in {"idle", "ask"}, getter' = [getter EXCEPT ![Main] = pc],
           UNCHANGED <<initLock, closing>>, faults' \in 0..MaxFaults,
           app'.pc # "closeall", pc = "ask" => app'.pc = "opening" /\ app'.step = 1,
           \/ UNCHANGED <<pooled, open, orphans>>
           \/ /\ getter[Main] = "got" /\ pooled' = [pooled EXCEPT !["mods"] = "none"]
              /\ \/ open' = [open EXCEPT !["mods"] = @ - 1] /\ UNCHANGED orphans
                 \/ Orphan("mods") /\ UNCHANGED open
    PROVE  PoolTyped' /\ PoolInv'
  <1>1. Main \in Task /\ NoTask \notin Task /\ "mods" \in Path /\ PathOf(Main) = "mods"
    BY TasksAre DEF Path
  <1>2. \A u \in Task : getter'[u] = IF u = Main THEN pc ELSE getter[u]  BY DEF PoolTyped
  <1>3. \A q \in Path : Connecting(q)' <=> Connecting(q)  BY <1>2 DEF Connecting
  <1>4. \A q \in Path : q \notin closing /\ pooled[q] # "closed"  BY DEF PoolInv, At
  <1>5. \A u \in Task : /\ getter'[u] \in {"connect", "pragmas"} <=> initLock' = u
                        /\ getter'[u] \in {"connect", "pragmas"} => pooled'[PathOf(u)] = "none"
    <2>1. \A u \in Task : pooled[PathOf(u)] = "none" => pooled'[PathOf(u)] = "none"
      BY TasksAre DEF PoolTyped
    <2> QED  BY <1>1, <1>2, <2>1 DEF PoolInv
  <1>6. getter'[Main] # "idle" => At("opening")' /\ app'.step = 1  BY <1>1, <1>2 DEF At
  <1>7. getter'[Main] # "got"  BY <1>1, <1>2
  <1>8. CASE UNCHANGED <<pooled, open, orphans>>
    <2>1. PoolTyped'  BY <1>8 DEF PoolTyped, GetStates
    <2> QED  BY <1>3, <1>4, <1>5, <1>6, <1>7, <1>8, <2>1 DEF PoolInv
  <1>9. CASE /\ getter[Main] = "got" /\ pooled' = [pooled EXCEPT !["mods"] = "none"]
             /\ \/ open' = [open EXCEPT !["mods"] = @ - 1] /\ UNCHANGED orphans
                \/ Orphan("mods") /\ UNCHANGED open
    <2>1. pooled["mods"] = "open" /\ ~Connecting("mods")
      BY <1>9 DEF PoolInv, Connecting
    <2>2. open["mods"] = orphans["mods"] + 1 /\ open["mods"] \in Nat /\ orphans["mods"] \in Nat
      BY <1>1, <2>1 DEF PoolInv, PoolTyped
    <2>3. open["mods"] - 1 \in Nat /\ orphans["mods"] + 1 \in Nat  BY <2>2
    <2>4. PoolTyped'  BY <1>9, <2>3 DEF PoolTyped, GetStates, Orphan
    <2>5. /\ pooled'["mods"] = "none" /\ open'["mods"] = orphans'["mods"]
          /\ open'["mods"] \in Nat /\ orphans'["mods"] \in Nat
      BY <1>1, <1>9, <2>2, <2>3 DEF PoolTyped, Orphan
    <2>6. \A q \in Path \ {"mods"} :
              pooled'[q] = pooled[q] /\ open'[q] = open[q] /\ orphans'[q] = orphans[q]
      BY <1>9 DEF PoolTyped, Orphan
    <2>7. \A q \in Path :
            open'[q] = orphans'[q] + (IF pooled'[q] = "open" THEN 1 ELSE 0)
                                   + (IF Connecting(q)' THEN 1 ELSE 0)
      <3> SUFFICES ASSUME NEW q \in Path
                   PROVE  open'[q] = orphans'[q] + (IF pooled'[q] = "open" THEN 1 ELSE 0)
                                                + (IF Connecting(q)' THEN 1 ELSE 0)
        OBVIOUS
      <3>1. CASE q = "mods"  BY <3>1, <1>1, <1>3, <2>1, <2>5
      <3>2. CASE q # "mods"  BY <3>2, <1>3, <2>6 DEF PoolInv
      <3> QED  BY <3>1, <3>2
    <2>8. \A q \in Path : pooled'[q] # "closed" /\ q \notin closing'
      BY <1>4, <2>5, <2>6
    <2> QED  BY <1>5, <1>6, <1>7, <2>4, <2>7, <2>8 DEF PoolInv
  <1> QED  BY <1>8, <1>9

LEMMA OpensRegistry ==
    ASSUME IInv, OpenRegistry
    PROVE  IInv'
  <1> USE DEF IInv, CtxInv
  <1>1. /\ At("opening") /\ Steps[app.step] = "registry"
        /\ UNCHANGED <<live, ref, lost, initLock, closing, sup>>
    BY DEF OpenRegistry, Opening
  <1>2. app.step \in 1..7  BY <1>1 DEF Opened, CtxTyped
  <1>3. app.step = 1  BY <1>1, <1>2, StepsAre
  <1>4. Main \in Task /\ "mods" \in Path /\ faults \in 0..MaxFaults
    BY TasksAre DEF Path, PoolTyped
  <1>5. CASE /\ getter[Main] = "raised"
             /\ Raises /\ getter' = [getter EXCEPT ![Main] = "idle"]
             /\ UNCHANGED <<stack, pooled, open, orphans, faults>>
    <2>1. CtxTyped' /\ CtxInv'  BY <1>1, <1>3, <1>5, Fails
    <2>2. app'.pc = "rollback"  BY <1>5 DEF Raises, CtxTyped
    <2>3. PoolTyped' /\ PoolInv'  BY <1>1, <1>3, <1>4, <1>5, <2>2, MainDone
    <2> QED  BY <2>1, <2>3
  <1>6. CASE /\ getter[Main] = "got"
             /\ Push("registry") /\ NextStep /\ getter' = [getter EXCEPT ![Main] = "idle"]
             /\ UNCHANGED <<pooled, open, orphans, faults>>
    <2>1. pooled'["mods"] = "open"  BY <1>6 DEF PoolInv
    <2>2. CtxTyped' /\ CtxInv'
      <3>1. "registry" \in Part \ {"session"}  BY StepsAre
      <3> QED  BY <1>1, <1>6, <2>1, <3>1, Opens
    <2>3. app'.pc = "opening"  BY <1>2, <1>3, <1>6, NextStepIs
    <2>4. PoolTyped' /\ PoolInv'  BY <1>1, <1>3, <1>4, <1>6, <2>3, MainDone
    <2> QED  BY <2>2, <2>4
  <1>7. CASE /\ getter[Main] = "got" /\ Fault
             /\ open' = [open EXCEPT !["mods"] = @ - 1]
             /\ pooled' = [pooled EXCEPT !["mods"] = "none"]
             /\ getter' = [getter EXCEPT ![Main] = "ask"]
             /\ UNCHANGED <<app, stack, orphans>>
    <2>1. faults' \in 0..MaxFaults  BY <1>4, <1>7, FaultTyped
    <2>2. PoolTyped' /\ PoolInv'  BY <1>1, <1>3, <1>4, <1>7, <2>1, MainDone DEF At
    <2>3. CtxTyped'  BY <1>1, <1>7 DEF CtxTyped
    <2>4. Ordered' /\ Held' /\ Referred'
      BY <1>1, <1>7 DEF Ordered, Held, Referred, At, OnStack, Kept
    <2>5. Opened'  BY <1>1, <1>3, <1>7 DEF Opened, At
    <2>6. \A x \in Kept : x[1] # "router"
      <3> SUFFICES ASSUME NEW x \in Kept, x[1] = "router" PROVE FALSE
        OBVIOUS
      <3>1. PICK i \in 1..Len(stack) : stack[i] = [part |-> x[1], gen |-> x[2]]
        BY <1>1 DEF OnStack, Held, At, Early
      <3>2. Rank(stack[i].part) = 6  BY <3>1, RanksAre
      <3> QED  BY <1>1, <1>3, <3>2 DEF Ordered
    <2>7. Layers'  BY <1>1, <2>6 DEF Layers, Kept
    <2> QED  BY <2>2, <2>3, <2>4, <2>5, <2>7
  <1>8. CASE /\ getter[Main] = "got" /\ Fault
             /\ pooled' = [pooled EXCEPT !["mods"] = "none"] /\ Orphan("mods")
             /\ Raises /\ getter' = [getter EXCEPT ![Main] = "idle"]
             /\ UNCHANGED <<stack, open>>
    <2>1. faults' \in 0..MaxFaults  BY <1>4, <1>8, FaultTyped
    <2>2. CtxTyped' /\ CtxInv'  BY <1>1, <1>3, <1>8, Fails
    <2>3. app'.pc = "rollback"  BY <1>8 DEF Raises, CtxTyped
    <2>4. PoolTyped' /\ PoolInv'  BY <1>1, <1>3, <1>4, <1>8, <2>1, <2>3, MainDone
    <2> QED  BY <2>2, <2>4
  <1> QED  BY <1>5, <1>6, <1>7, <1>8 DEF OpenRegistry

\* The other steps of the start leave the pool alone.
LEMMA OpensRest ==
    ASSUME IInv, OpenSession \/ OpenService \/ NoMetrics \/ OpenRouter \/ OpenPolling
    PROVE  IInv'
  <1> USE DEF IInv, CtxInv
  <1>1. At("opening") /\ UNCHANGED <<pool, sup>>
    BY DEF OpenSession, OpenService, NoMetrics, OpenRouter, OpenPolling, Opening
  <1>2. app.step \in 1..7  BY <1>1 DEF Opened, CtxTyped
  <1>3. Steps[app.step] # "registry" /\ app.step # 1
    <2>1. Steps[app.step] # "registry"
      BY DEF OpenSession, OpenService, NoMetrics, OpenRouter, OpenPolling, Opening
    <2> QED  BY <2>1, StepsAre
  <1>4. pooled["mods"] = "open" /\ pooled' = pooled /\ pooled'["mods"] = "open"
    BY <1>1, <1>2, <1>3 DEF Opened, pool
  <1>5. getter[Main] = "idle"  BY <1>3 DEF PoolInv
  <1>6. faults' \in 0..MaxFaults
    <2>1. faults' = faults \/ Fault
      BY DEF OpenSession, OpenService, NoMetrics, OpenRouter, OpenPolling
    <2> QED  BY <2>1, FaultTyped DEF PoolTyped
  <1>7. CtxTyped' /\ CtxInv'
    <2>1. CASE OpenSession
      <3>1. /\ NextStep /\ live' = live \cup {<<"session", 0>>} /\ UNCHANGED <<ref, stack, lost, sup>>
            /\ Steps[app.step] = "session"
        BY <2>1 DEF OpenSession, Opening
      <3>2. app.step \notin {1, 6}  BY <1>2, <3>1, StepsAre
      <3> QED  BY <1>1, <1>4, <3>1, <3>2, Skips
    <2>2. CASE NoMetrics
      <3>1. NextStep /\ UNCHANGED <<live, ref, stack, lost, sup>> /\ Steps[app.step] = "metrics"
        BY <2>2 DEF NoMetrics, Opening
      <3>2. app.step \notin {1, 6}  BY <1>2, <3>1, StepsAre
      <3> QED  BY <1>1, <1>4, <3>1, <3>2, Skips
    <2>3. CASE OpenService
      <3> DEFINE part == Steps[app.step]
      <3>1. /\ part \in {"tracing", "rotation", "metrics"} /\ NextStep /\ UNCHANGED <<ref, lost, sup>>
            /\ \/ live' = live \cup {<<part, app.gen>>} /\ Push(part)
               \/ UNCHANGED <<live, stack>>
        BY <2>3 DEF OpenService, Opening
      <3>2. part \in Part \ {"session"} /\ app.step \notin {1, 6}  BY <1>2, <3>1, StepsAre
      <3>3. CASE UNCHANGED <<live, stack>>  BY <1>1, <1>4, <3>1, <3>2, <3>3, Skips
      <3>4. CASE live' = live \cup {<<part, app.gen>>} /\ Push(part)
        <4> HIDE DEF part
        <4>1. Steps[app.step] = part  BY DEF part
        <4> QED  BY <1>1, <1>4, <3>1, <3>2, <3>4, <4>1, Opens
      <3> QED  BY <3>1, <3>3, <3>4
    <2>4. CASE OpenRouter
      <3>1. Steps[app.step] = "router" /\ "router" \in Part \ {"session"}
        BY <2>4, StepsAre DEF OpenRouter, Opening
      <3>2. CASE /\ live' = live \cup {<<"router", app.gen>>}
                 /\ ref' = [ref EXCEPT !["router"] = app.gen]
                 /\ Push("router") /\ NextStep
                 /\ UNCHANGED <<lost, faults>>
        BY <1>1, <1>4, <3>1, <3>2, Opens
      <3>3. CASE Fault /\ Raises /\ UNCHANGED <<live, ref, stack, lost>>
        BY <1>1, <1>4, <3>3, Fails
      <3>4. CASE /\ Fault /\ Raises
                 /\ live' = live \cup {<<"router", app.gen>>}
                 /\ lost' = lost \cup {<<"router", app.gen>>}
                 /\ ref' = [ref EXCEPT !["router"] = app.gen]
                 /\ UNCHANGED stack
        BY <1>1, <1>4, <3>4, Fails
      <3> QED  BY <2>4, <3>2, <3>3, <3>4 DEF OpenRouter
    <2>5. CASE OpenPolling
      <3>1. /\ Steps[app.step] = "polling" /\ "polling" \in Part \ {"session"}
            /\ UNCHANGED <<lost, sup>>
        BY <2>5, StepsAre DEF OpenPolling, Opening
      <3>2. app.step \notin {1, 6}  BY <1>2, <3>1, StepsAre
      <3>3. CASE /\ live' = live \cup {<<"polling", app.gen>>}
                 /\ ref' = [ref EXCEPT !["polling"] = app.gen]
                 /\ Push("polling") /\ NextStep /\ UNCHANGED faults
        BY <1>1, <1>4, <3>1, <3>3, Opens
      <3>4. CASE NextStep /\ UNCHANGED <<live, ref, stack, faults>>
        BY <1>1, <1>4, <3>1, <3>2, <3>4, Skips
      <3>5. CASE Fault /\ Raises /\ UNCHANGED <<live, ref, stack>>
        BY <1>1, <1>4, <3>1, <3>5, Fails
      <3> QED  BY <2>5, <3>3, <3>4, <3>5 DEF OpenPolling
    <2> QED  BY <2>1, <2>2, <2>3, <2>4, <2>5
  <1>8. app'.pc # "closeall"
    <2>1. NextStep \/ Raises  BY DEF OpenSession, OpenService, NoMetrics, OpenRouter, OpenPolling
    <2>2. NextStep => app'.pc # "closeall"  BY <1>2, NextStepIs
    <2>3. Raises => app'.pc # "closeall"  BY DEF Raises, CtxTyped
    <2> QED  BY <2>1, <2>2, <2>3
  <1>9. PoolTyped' /\ PoolInv'  BY <1>1, <1>5, <1>6, <1>8, PoolQuiet DEF At
  <1> QED  BY <1>7, <1>9

------------------------------------------------------------------------------
\* With nothing on the stack there is nothing to close.
LEMMA NothingHeld ==
    ASSUME CtxTyped, Held, app.pc \notin Early,
           \A i \in 1..Len(stack) : stack[i].part = "lifecycle"
    PROVE  Kept = {}
  <1> SUFFICES ASSUME NEW x \in Kept PROVE FALSE
    OBVIOUS
  <1>1. PICK i \in 1..Len(stack) : stack[i] = [part |-> x[1], gen |-> x[2]]
    BY DEF Held, OnStack
  <1>2. x[1] = "lifecycle"  BY <1>1
  <1>3. x[1] \in Part  BY KeptAre
  <1> QED  BY <1>2, <1>3, StepsAre

LEMMA Emptied ==
    ASSUME Kept' = {}, app'.pc \notin {"idle", "opening"}, app'.gen > 0, stack' = <<>>
    PROVE  CtxInv'
  <1>1. Len(stack') = 0  OBVIOUS
  <1>2. Ordered'  BY <1>1 DEF Ordered, At
  <1>3. Held' /\ Referred'  BY DEF Held, Referred, At
  <1>4. Opened'  BY DEF Opened, At
  <1>5. Layers'  BY DEF Layers, Kept
  <1> QED  BY <1>2, <1>3, <1>4, <1>5 DEF CtxInv

\* The context goes on to unwind its stack.
LEMMA GoesOnToUnwind ==
    ASSUME IInv, Rollback \/ Stop \/ Gathered
    PROVE  IInv'
  <1> USE DEF IInv, CtxInv
  <1>1. /\ app.pc \in {"rollback", "running", "cancelling"}
        /\ UNCHANGED <<live, ref, stack, lost, pool, faults>>
    BY DEF Rollback, Stop, Gathered, At
  <1>2. app \in AppRecord  BY DEF CtxTyped, AppRecord
  <1>3. app' \in AppRecord /\ app'.pc \in {"unwind", "cancelling"} /\ app'.gen = app.gen
    <2>1. CASE Rollback  BY <2>1, GoToIs DEF Rollback, AppStates, AppRecord
    <2>2. CASE Stop  BY <2>2, GoToIs DEF Stop, AppStates, AppRecord
    <2>3. CASE Gathered
      <3>1. app' = [app EXCEPT !.pc = "unwind", !.failing = FALSE]  BY <2>3 DEF Gathered
      <3>2. "unwind" \in AppStates  BY DEF AppStates
      <3> QED  BY <1>2, <3>1, <3>2 DEF AppRecord
    <2> QED  BY <2>1, <2>2, <2>3
  <1>4. sup' \in [pc : {"off", "opening", "serving", "closing", "over"}, up : 0..Len(Daemons)]
    <2> DEFINE Sup == [pc : {"off", "opening", "serving", "closing", "over"}, up : 0..Len(Daemons)]
    <2>1. sup \in Sup  BY DEF CtxTyped
    <2>2. \/ sup' = sup
          \/ sup' = [sup EXCEPT !.pc = "closing"]
          \/ sup' = [sup EXCEPT !.pc = "over"]
      <3>1. CASE Stop
        <4>1. CASE sup.pc = "serving"  BY <3>1, <4>1 DEF Stop
        <4>2. CASE sup.pc \in {"opening", "closing"}  BY <3>1, <4>2 DEF Stop
        <4>3. CASE sup.pc \notin {"serving", "opening", "closing"}  BY <3>1, <4>3 DEF Stop
        <4> QED  BY <4>1, <4>2, <4>3
      <3> QED  BY <3>1 DEF Rollback, Gathered
    <2> QED  BY <2>1, <2>2
  <1>5. CtxTyped'  BY <1>1, <1>3, <1>4 DEF CtxTyped, AppRecord
  <1>6. CtxInv'
    <2>1. app.gen > 0  BY <1>1 DEF Opened, At
    <2>2. pooled' = pooled  BY <1>1 DEF pool
    <2> QED  BY <1>1, <1>3, <2>1, <2>2, GoesOn DEF Early
  <1>7. PoolTyped' /\ PoolInv'
    <2>1. getter[Main] = "idle"  BY <1>1 DEF PoolInv, At
    <2> QED  BY <1>1, <1>3, <2>1, PoolQuiet DEF At, PoolTyped
  <1> QED  BY <1>5, <1>6, <1>7

LEMMA UnwindsAll ==
    ASSUME IInv, Unwind
    PROVE  IInv'
  <1> USE DEF IInv
  <1>1. /\ At("unwind") /\ UNCHANGED <<app, pool>> /\ (faults' = faults \/ Fault)
    BY DEF Unwind
  <1>2. faults' \in 0..MaxFaults  BY <1>1, FaultTyped DEF PoolTyped
  <1>3. CtxTyped' /\ CtxInv'  BY Unwinds
  <1>4. PoolTyped' /\ PoolInv'  BY <1>1, <1>2, PoolQuiet DEF At, PoolInv
  <1> QED  BY <1>3, <1>4

\* The pool's closer is the first on the stack: all others have run.
LEMMA ShutsDown ==
    ASSUME IInv, ShutDown
    PROVE  IInv'
  <1> USE DEF IInv, CtxInv
  <1> DEFINE n == Len(stack)
  <1>1. /\ At("unwind") /\ stack # <<>> /\ Top.part = "lifecycle" /\ stack' = Pop.rest
        /\ UNCHANGED <<live, ref, lost, pool, sup, faults>>
    BY DEF ShutDown
  <1>2. /\ Top = stack[n] /\ n \in Nat \ {0} /\ stack' \in Seq(Closer) /\ Len(stack') = n - 1
    BY <1>1, PopIs DEF CtxTyped
  <1>3. n = 1
    <2> SUFFICES ASSUME n > 1 PROVE FALSE
      BY <1>2
    <2>1. n - 1 \in 1..n /\ n \in 1..n /\ n - 1 < n  BY <1>2
    <2>2. Rank(stack[n - 1].part) < Rank(stack[n].part)  BY <2>1 DEF Ordered
    <2>3. Rank(stack[n].part) = 0  BY <1>1, <1>2, RanksAre
    <2>4. Rank(stack[n - 1].part) \in Nat  BY <2>1, StackIs
    <2> QED  BY <2>2, <2>3, <2>4
  <1>4. stack' = <<>>  BY <1>2, <1>3
  <1>5. Kept = {}  BY <1>1, <1>2, <1>3, NothingHeld DEF At, Early
  <1>6. app' = app \/ GoTo("shutdown")  BY DEF ShutDown
  <1>7. /\ app' \in [pc : AppStates, step : 1..8, gen : 0..MaxStarts, failing : BOOLEAN]
        /\ app'.pc \in {"unwind", "shutdown"} /\ app'.gen = app.gen
    <2>1. CASE app' = app  BY <1>1, <2>1 DEF CtxTyped, At
    <2>2. CASE GoTo("shutdown")  BY <2>2, GoToIs DEF AppStates
    <2> QED  BY <1>6, <2>1, <2>2
  <1>8. CtxTyped'  BY <1>1, <1>2, <1>7 DEF CtxTyped
  <1>9. CtxInv'
    <2>1. Kept' = {} /\ app.gen > 0  BY <1>1, <1>5 DEF Kept, Opened, At
    <2> QED  BY <1>4, <1>7, <2>1, Emptied
  <1>10. PoolTyped' /\ PoolInv'
    <2>1. getter[Main] = "idle"  BY <1>1 DEF PoolInv, At
    <2> QED  BY <1>1, <1>7, <2>1, PoolQuiet DEF At, PoolTyped
  <1> QED  BY <1>8, <1>9, <1>10

\* shutdown_all lists the connections, closes them and clears the pool.
LEMMA ClosesPool ==
    ASSUME IInv, Checkpointed \/ CloseOne \/ Clear
    PROVE  IInv'
  <1> USE DEF IInv, CtxInv
  <1>1. /\ app.pc \in {"shutdown", "closeall"}
        /\ UNCHANGED <<live, ref, stack, lost, getter, initLock, sup, faults>>
    BY DEF Checkpointed, CloseOne, Clear, At, ctx
  <1>2. stack = <<>> /\ app.gen > 0  BY <1>1 DEF Ordered, Opened, At
  <1>3. Kept = {}
    <2>1. Len(stack) = 0  BY <1>2
    <2> QED  BY <1>1, <2>1, NothingHeld DEF Early
  <1>4. /\ app' \in [pc : AppStates, step : 1..8, gen : 0..MaxStarts, failing : BOOLEAN]
        /\ app'.pc \in {"closeall", "unwind"} /\ app'.gen = app.gen
    <2>1. CASE Checkpointed  BY <2>1, GoToIs DEF Checkpointed, AppStates
    <2>2. CASE CloseOne  BY <2>2 DEF CloseOne, CtxTyped, ctx, At
    <2>3. CASE Clear  BY <2>3, GoToIs DEF Clear, AppStates
    <2> QED  BY <2>1, <2>2, <2>3
  <1>5. CtxTyped'  BY <1>1, <1>4 DEF CtxTyped
  <1>6. CtxInv'
    <2>1. Kept' = {} /\ stack' = <<>>  BY <1>1, <1>2, <1>3 DEF Kept
    <2> QED  BY <1>2, <1>4, <2>1, Emptied
  <1>7. getter'[Main] = "idle"  BY <1>1 DEF PoolInv, At
  <1>8. \A q \in Path : Connecting(q)' <=> Connecting(q)  BY <1>1 DEF Connecting
  <1>9. CASE Checkpointed
    <2>1. /\ At("shutdown") /\ closing' = {p \in Path : pooled[p] = "open"}
          /\ UNCHANGED <<pooled, open, orphans>> /\ GoTo("closeall")
      BY <1>9 DEF Checkpointed
    <2>2. app'.pc = "closeall"  BY <2>1, GoToIs DEF AppStates
    <2>3. PoolTyped'  BY <1>1, <2>1 DEF PoolTyped
    <2>4. \A q \in Path : pooled[q] # "closed"  BY <2>1 DEF PoolInv, At
    <2>5. PoolInv'  BY <1>1, <1>7, <1>8, <2>1, <2>2, <2>4 DEF PoolInv, At
    <2> QED  BY <1>5, <1>6, <2>3, <2>5
  <1>10. CASE CloseOne
    <2>1. PICK p \in closing : /\ closing' = closing \ {p}
                               /\ pooled' = [pooled EXCEPT ![p] = "closed"]
                               /\ open' = [open EXCEPT ![p] = @ - 1]
      BY <1>10 DEF CloseOne
    <2>2. At("closeall") /\ app' = app /\ orphans' = orphans  BY <1>10 DEF CloseOne, ctx
    <2>3. p \in Path /\ pooled[p] = "open"  BY <2>1 DEF PoolInv, PoolTyped
    <2>4. ~Connecting(p)  BY <2>3 DEF PoolInv, Connecting
    <2>5. open[p] = orphans[p] + 1 /\ orphans[p] \in Nat /\ open[p] - 1 \in Nat
      BY <2>3, <2>4 DEF PoolInv, PoolTyped
    <2>6. PoolTyped'  BY <1>1, <2>1, <2>2, <2>5 DEF PoolTyped
    <2>7. pooled'[p] = "closed" /\ open'[p] = orphans'[p] /\ p \notin closing'
      BY <2>1, <2>2, <2>3, <2>5 DEF PoolTyped
    <2>8. \A q \in Path \ {p} : /\ pooled'[q] = pooled[q] /\ open'[q] = open[q]
                                /\ q \in closing' <=> q \in closing
      BY <2>1 DEF PoolTyped
    <2>9. \A u \in Task : /\ getter'[u] \in {"connect", "pragmas"} <=> initLock' = u
                          /\ getter'[u] \in {"connect", "pragmas"} => pooled'[PathOf(u)] = "none"
      BY <1>1, <2>3, <2>8, TasksAre DEF PoolInv
    <2>10. \A q \in Path :
            /\ open'[q] = orphans'[q] + (IF pooled'[q] = "open" THEN 1 ELSE 0)
                                      + (IF Connecting(q)' THEN 1 ELSE 0)
            /\ pooled'[q] = "closed" => At("closeall")' /\ q \notin closing'
            /\ q \in closing' => At("closeall")' /\ pooled'[q] = "open"
      <3> SUFFICES ASSUME NEW q \in Path
                   PROVE  /\ open'[q] = orphans'[q] + (IF pooled'[q] = "open" THEN 1 ELSE 0)
                                                    + (IF Connecting(q)' THEN 1 ELSE 0)
                          /\ pooled'[q] = "closed" => At("closeall")' /\ q \notin closing'
                          /\ q \in closing' => At("closeall")' /\ pooled'[q] = "open"
        OBVIOUS
      <3>1. CASE q = p  BY <3>1, <1>8, <2>2, <2>4, <2>5, <2>7 DEF At
      <3>2. CASE q # p  BY <3>2, <1>8, <2>2, <2>8 DEF At, PoolInv
      <3> QED  BY <3>1, <3>2
    <2> QED  BY <1>5, <1>6, <1>7, <2>6, <2>9, <2>10 DEF PoolInv
  <1>11. CASE Clear
    <2>1. /\ closing = {} /\ closing' = {} /\ open' = open
          /\ pooled' = [p \in Path |-> "none"]
          /\ orphans' = [p \in Path |-> orphans[p] + IF pooled[p] = "open" THEN 1 ELSE 0]
          /\ GoTo("unwind")
      BY <1>11 DEF Clear
    <2>2. \A p \in Path : pooled'[p] = "none"  BY <2>1
    <2>3. \A p \in Path : /\ orphans'[p] = orphans[p] + IF pooled[p] = "open" THEN 1 ELSE 0
                          /\ orphans'[p] \in Nat
      BY <2>1 DEF PoolTyped
    <2>4. orphans' \in [Path -> Nat]
      <3>1. orphans' = [p \in Path |-> orphans'[p]]  BY <2>1
      <3> QED  BY <2>3, <3>1
    <2>5. PoolTyped'  BY <1>1, <2>1, <2>4 DEF PoolTyped
    <2>6. \A u \in Task : /\ getter'[u] \in {"connect", "pragmas"} <=> initLock' = u
                          /\ pooled'[PathOf(u)] = "none"
      BY <1>1, <2>2, TasksAre DEF PoolInv
    <2>7. \A q \in Path :
            open'[q] = orphans'[q] + (IF pooled'[q] = "open" THEN 1 ELSE 0)
                                   + (IF Connecting(q)' THEN 1 ELSE 0)
      <3> SUFFICES ASSUME NEW q \in Path
                   PROVE  open'[q] = orphans'[q] + (IF pooled'[q] = "open" THEN 1 ELSE 0)
                                                + (IF Connecting(q)' THEN 1 ELSE 0)
        OBVIOUS
      <3>1. open[q] \in Nat /\ orphans[q] \in Nat  BY DEF PoolTyped
      <3> QED  BY <1>8, <2>1, <2>2, <2>3, <3>1 DEF PoolInv
    <2> QED  BY <1>5, <1>6, <1>7, <2>1, <2>2, <2>5, <2>6, <2>7 DEF PoolInv
  <1> QED  BY <1>9, <1>10, <1>11

LEMMA EndsUnwinding ==
    ASSUME IInv, Unwound
    PROVE  IInv'
  <1> USE DEF IInv, CtxInv
  <1> DEFINE pc == IF app.failing THEN "failed" ELSE "stopped"
  <1>1. /\ At("unwind") /\ stack = <<>> /\ app' = [app EXCEPT !.pc = pc, !.failing = FALSE]
        /\ ref' = [p \in DOMAIN ref |-> IF app.failing /\ p # "registry" THEN 0 ELSE ref[p]]
        /\ UNCHANGED <<live, stack, lost, pool, sup, faults>>
    BY DEF Unwound
  <1>2. pc \in {"failed", "stopped"} /\ pc \in AppStates  BY DEF AppStates
  <1> HIDE DEF pc
  <1>3. /\ app' \in [pc : AppStates, step : 1..8, gen : 0..MaxStarts, failing : BOOLEAN]
        /\ app'.pc = pc /\ app'.gen = app.gen
    <2>1. app \in AppRecord  BY DEF CtxTyped, AppRecord
    <2> QED  BY <1>1, <1>2, <2>1 DEF AppRecord
  <1>4. ref' \in [{"registry", "router", "polling"} -> 0..MaxStarts]
    <2>1. 0 \in 0..MaxStarts  BY LifecycleAssumption
    <2> QED  BY <1>1, <2>1 DEF CtxTyped
  <1>5. CtxTyped'  BY <1>1, <1>3, <1>4 DEF CtxTyped
  <1>6. CtxInv'
    <2>1. Len(stack) = 0 /\ app.gen > 0  BY <1>1 DEF Opened, At
    <2>2. Kept = {}  BY <1>1, <2>1, NothingHeld DEF At, Early
    <2>3. Kept' = {}  BY <1>1, <2>2 DEF Kept
    <2> QED  BY <1>1, <1>2, <1>3, <2>1, <2>3, Emptied
  <1>7. PoolTyped' /\ PoolInv'
    <2>1. getter[Main] = "idle"  BY <1>1 DEF PoolInv, At
    <2> QED  BY <1>1, <1>2, <1>3, <2>1, PoolQuiet DEF At, PoolTyped
  <1> QED  BY <1>5, <1>6, <1>7

\* A step that leaves the context alone: of a request, or of the supervisor.
LEMMA Beside ==
    ASSUME IInv, UNCHANGED ctx, pooled["mods"] = "open" => pooled'["mods"] = "open",
           sup' \in [pc : {"off", "opening", "serving", "closing", "over"}, up : 0..Len(Daemons)]
    PROVE  CtxTyped' /\ CtxInv'
  <1> USE DEF IInv, CtxInv
  <1>1. UNCHANGED <<app, live, ref, stack, lost>> /\ Kept' = Kept  BY DEF ctx, Kept
  <1>2. CtxTyped'  BY <1>1 DEF CtxTyped
  <1>3. Ordered' /\ Held' /\ Referred' /\ Opened'
    BY <1>1 DEF Ordered, Held, Referred, Opened, At, OnStack
  <1>4. Layers'  BY <1>1 DEF Layers, Kept
  <1> QED  BY <1>2, <1>3, <1>4

LEMMA Supervises ==
    ASSUME IInv, SupervisorStarts \/ Supervising
    PROVE  IInv'
  <1> DEFINE Sup == [pc : {"off", "opening", "serving", "closing", "over"}, up : 0..Len(Daemons)]
  <1>1. sup \in Sup /\ Len(Daemons) = 5  BY StepsAre DEF IInv, CtxTyped
  <1>2. UNCHANGED <<ctx, pool>> /\ (faults' = faults \/ Fault)
    BY DEF SupervisorStarts, Supervising, SupervisorOpens, SupervisorEnds, SupervisorCloses
  <1>3. sup' \in Sup
    <2>1. CASE SupervisorStarts  BY <1>1, <2>1 DEF SupervisorStarts
    <2>2. CASE SupervisorOpens
      <3>1. sup.up # 5 => sup.up + 1 \in 0..5  BY <1>1
      <3> QED  BY <1>1, <2>2, <3>1 DEF SupervisorOpens
    <2>3. CASE SupervisorEnds  BY <1>1, <2>3 DEF SupervisorEnds
    <2>4. CASE SupervisorCloses
      <3>1. sup.up # 0 => sup.up - 1 \in 0..5  BY <1>1
      <3> QED  BY <1>1, <2>4, <3>1 DEF SupervisorCloses
    <2> QED  BY <2>1, <2>2, <2>3, <2>4 DEF Supervising
  <1>4. CtxTyped' /\ CtxInv'  BY <1>2, <1>3, Beside DEF pool
  <1>5. faults' \in 0..MaxFaults  BY <1>2, FaultTyped DEF IInv, PoolTyped
  <1>6. PoolTyped' /\ PoolInv'
    BY <1>2, <1>5, PoolQuiet DEF IInv, PoolInv, At, ctx
  <1> QED  BY <1>4, <1>6 DEF IInv

------------------------------------------------------------------------------
LEMMA Initially == Init => IInv
  <1> SUFFICES ASSUME Init PROVE IInv
    OBVIOUS
  <1>1. /\ app = [pc |-> "idle", step |-> 1, gen |-> 0, failing |-> FALSE]
        /\ live = {} /\ lost = {} /\ stack = <<>> /\ Kept = {} /\ Len(stack) = 0
    BY DEF Init, Kept
  <1>2. CtxTyped
    <2>1. 0 \in 0..MaxStarts /\ 0 \in 0..Len(Daemons)  BY LifecycleAssumption, StepsAre
    <2>2. ref \in [{"registry", "router", "polling"} -> 0..MaxStarts]  BY <2>1 DEF Init
    <2>3. sup \in [pc : {"off", "opening", "serving", "closing", "over"}, up : 0..Len(Daemons)]
      BY <2>1 DEF Init
    <2>4. stack \in Seq(Closer)  BY <1>1
    <2> QED  BY <1>1, <2>1, <2>2, <2>3, <2>4 DEF CtxTyped, AppStates
  <1>3. PoolTyped  BY LifecycleAssumption DEF Init, PoolTyped, GetStates
  <1>4. PoolInv
    <2>1. \A t \in Task : getter[t] = "idle"  BY DEF Init
    <2>2. \A p \in Path : ~Connecting(p) /\ pooled[p] = "none" /\ open[p] = 0 /\ orphans[p] = 0
      BY <2>1 DEF Init, Connecting
    <2> QED  BY <2>1, <2>2, TasksAre DEF Init, PoolInv, At
  <1>5. CtxInv  BY <1>1 DEF CtxInv, Ordered, Held, Referred, Opened, Layers, At, Early, Kept
  <1> QED  BY <1>2, <1>3, <1>4, <1>5 DEF IInv

LEMMA Preserves == IInv /\ [Next]_vars => IInv'
  <1> SUFFICES ASSUME IInv, [Next]_vars PROVE IInv'
    OBVIOUS
  <1>1. CASE Starting
    <2>1. CASE TearDown("polling", "td_polling", "td_router")  BY <2>1, TearsDown
    <2>2. CASE TearDown("router", "td_router", "td_registry")  BY <2>2, TearsDown
    <2> QED  BY <1>1, <2>1, <2>2, Beginning, DropsRegistry, OpensRegistry, OpensRest DEF Starting
  <1>2. CASE Restart \/ Stop  BY <1>2, Beginning, GoesOnToUnwind
  <1>3. CASE Closing
    BY <1>3, GoesOnToUnwind, UnwindsAll, ShutsDown, ClosesPool, EndsUnwinding DEF Closing
  <1>4. ASSUME NEW t \in Task, Getting(t) \/ Scan(t), UNCHANGED <<ctx, sup>> PROVE IInv'
    <2>1. PoolTyped' /\ PoolInv' /\ (pooled["mods"] = "open" => pooled'["mods"] = "open")
      BY <1>4, GettingStep DEF IInv, ctx
    <2>2. CtxTyped' /\ CtxInv'  BY <1>4, <2>1, Beside DEF IInv, CtxTyped
    <2> QED  BY <2>1, <2>2 DEF IInv
  <1>5. CASE SupervisorStarts \/ Supervising  BY <1>5, Supervises
  <1>6. CASE UNCHANGED vars
    <2>1. UNCHANGED <<ctx, pool, sup, faults>>  BY <1>6 DEF vars
    <2>2. CtxTyped' /\ CtxInv'  BY <2>1, Beside DEF IInv, CtxTyped, pool
    <2>3. PoolTyped' /\ PoolInv'  BY <2>1, PoolQuiet DEF IInv, PoolTyped, PoolInv, At, ctx
    <2> QED  BY <2>2, <2>3 DEF IInv
  <1> QED  BY <1>1, <1>2, <1>3, <1>4, <1>5, <1>6, TasksAre DEF Next, Asking

LEMMA Inductive == Spec => []IInv
  BY Initially, Preserves, PTL DEF Spec

\* The context, its stack, the pool and the supervisor have their types.
THEOREM TypeCorrect == Spec => []TypeOK
  <1>1. IInv => TypeOK  BY Types DEF IInv
  <1> QED  BY <1>1, Inductive, PTL

\* get_connection and the shutdown open one connection per file, not counting those
\* that a pragma, a failed start or a clear() has left outside the pool.
THEOREM SingleConnection == Spec => []OneConnection
  <1>1. ASSUME IInv, NEW p \in Path PROVE open[p] <= 1 + orphans[p]
    <2>1. Connecting(p) => pooled[p] = "none"  BY <1>1 DEF IInv, PoolInv, Connecting
    <2> QED  BY <1>1, <2>1 DEF IInv, PoolInv, PoolTyped
  <1>2. IInv => OneConnection  BY <1>1 DEF OneConnection
  <1> QED  BY <1>2, Inductive, PTL

\* A start that failed and a stop have unwound the whole stack, and each closer on it
\* found what it was pushed for: nothing is open but what nobody can close.
THEOREM ClosedAfterAll == Spec => []NothingLeft
  <1>1. ASSUME IInv, app.pc \in {"failed", "stopped"} PROVE live \subseteq lost
    <2>1. Len(stack) = 0  BY <1>1 DEF IInv, CtxInv, Ordered
    <2>2. Kept = {}  BY <1>1, <2>1, NothingHeld DEF IInv, CtxInv, Early
    <2> QED  BY <2>2 DEF Kept
  <1>2. IInv => NothingLeft  BY <1>1 DEF NothingLeft
  <1> QED  BY <1>2, Inductive, PTL

\* Whatever starts, fails and unwinds, polling has its router, and a router the
\* registry's connection.
THEOREM LayersStand == Spec => []Layers
  <1>1. IInv => Layers  BY DEF IInv, CtxInv
  <1> QED  BY <1>1, Inductive, PTL
=============================================================================
