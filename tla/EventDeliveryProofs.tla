------------------------ MODULE EventDeliveryProofs ------------------------
(***************************************************************************)
(* The delivery of events: the bus and the dead-letter queue behind it.    *)
(*                                                                         *)
(* Of the bus: that it keeps to its types, and that when it has stopped it *)
(* has left no callback and no insert behind, for any topics, any sizes of *)
(* the queue and of both sets of tasks, and any number of starts.  Tasks   *)
(* are made by the loop only, and stop() ends the loop before it cancels   *)
(* the callbacks and awaits the drops.  So what holds of the tasks is said *)
(* while there is no loop.  What the loop makes of a queue is a fold of    *)
(* folds, typed by induction (FoldTheorems).                               *)
(*                                                                         *)
(* Of the dead-letter queue: that no letter is tried by two workers at     *)
(* once, that one whose callback has returned is left alone, and that one  *)
(* is given up for cause: for every number of workers and letters and      *)
(* every size of a batch.  As long as a letter's row is not 60 s old it    *)
(* belongs to the one worker that claimed it (OwnRow), and it leaves that  *)
(* worker only with the outcome (Finished).  The attempts that a row, a    *)
(* batch and a worker carry may be behind the failures of the letter,      *)
(* never before them (Counting).                                           *)
(***************************************************************************)
EXTENDS EventBus, DeadLetters, FoldTheorems, FiniteSetTheorems, SequenceTheorems

\* A sequence without one of its elements.
LEMMA RemovalTyped ==
    ASSUME NEW S, NEW s \in Seq(S), IsInjective(s), NEW i \in 1..Len(s)
    PROVE  RemoveAt(s, i) \in Seq(S) /\ IsInjective(RemoveAt(s, i))
  <1> DEFINE n == Len(s)
             a == SubSeq(s, 1, i - 1)
             b == SubSeq(s, i + 1, n)
  <1>1. n \in Nat /\ DOMAIN s = 1..n  OBVIOUS
  <1>2. i \in 1..n  OBVIOUS
  <1> HIDE DEF n
  <1>3. /\ a \in Seq(S) /\ Len(a) = i - 1 /\ \A j \in 1..(i - 1) : a[j] = s[j]
    BY <1>1, <1>2, SubSeqProperties
  <1>4. /\ b \in Seq(S) /\ Len(b) = n - i /\ \A j \in 1..(n - i) : b[j] = s[i + j]
    BY <1>1, <1>2, SubSeqProperties
  <1> HIDE DEF a, b
  <1>5. /\ a \o b \in Seq(S) /\ Len(a \o b) = n - 1
    <2>1. Len(a) + Len(b) = n - 1  BY <1>1, <1>2, <1>3, <1>4
    <2>2. a \o b \in Seq(S) /\ Len(a \o b) = Len(a) + Len(b)
      BY <1>3, <1>4, ConcatProperties
    <2> QED  BY <2>1, <2>2
  <1>6. \A j \in 1..(n - 1) : (a \o b)[j] = IF j < i THEN s[j] ELSE s[j + 1]
    <2> SUFFICES ASSUME NEW j \in 1..(n - 1)
                 PROVE  (a \o b)[j] = IF j < i THEN s[j] ELSE s[j + 1]
      OBVIOUS
    <2> DEFINE k == j - (i - 1)
    <2>1. i \in Nat /\ j \in Nat /\ Len(a) + Len(b) = n - 1  BY <1>1, <1>2, <1>3, <1>4
    <2>2. (a \o b)[j] = IF j <= i - 1 THEN a[j] ELSE b[k]
      BY <1>3, <1>4, <2>1, ConcatProperties
    <2>3. CASE j < i  BY <2>1, <2>2, <2>3, <1>3
    <2>4. CASE ~(j < i)
      <3>1. k \in 1..(n - i) /\ i + k = j + 1  BY <2>1, <2>4, <1>1, <1>2
      <3>2. (a \o b)[j] = b[k]  BY <2>1, <2>2, <2>4
      <3> HIDE DEF k
      <3> QED  BY <3>1, <3>2, <2>4, <1>4
    <2> QED  BY <2>3, <2>4
  <1>7. DOMAIN (a \o b) = 1..(n - 1)  BY <1>1, <1>5
  <1>8. IsInjective(a \o b)
    <2> DEFINE p(j) == IF j < i THEN j ELSE j + 1
    <2>1. \A j \in 1..(n - 1) : p(j) \in 1..n  BY <1>1, <1>2
    <2>0. \A j \in 1..(n - 1) : (a \o b)[j] = s[p(j)]  BY <1>6
    <2>2. \A j, k \in 1..(n - 1) : p(j) = p(k) => j = k  BY <1>1, <1>2
    <2> HIDE DEF p
    <2>3. \A j, k \in 1..n : s[j] = s[k] => j = k  BY <1>1 DEF IsInjective
    <2>4. \A j, k \in 1..(n - 1) : (a \o b)[j] = (a \o b)[k] => j = k
      BY <2>0, <2>1, <2>2, <2>3
    <2> QED  BY <2>4, <1>7 DEF IsInjective
  <1>9. RemoveAt(s, i) = a \o b  BY DEF RemoveAt, a, b, n
  <1> QED  BY <1>5, <1>8, <1>9

------------------------------------------------------------------------------
\* stop() waits for a loop, and what follows is done when it is gone.
Phases ==
    /\ loop \in {"none", "new", "waiting", "over"}
    /\ stop \in {"no", "joining", "draining"}
    /\ stop = "joining" => loop # "none"
    /\ stop = "draining" => loop = "none"

\* Without a loop no callback runs, and once stop() has returned no drop is under way.
Quiet ==
    loop = "none" =>
        /\ fate = [d \in Dispatched |-> fate[d]]
        /\ \A d \in Dispatched : /\ fate[d] \notin {"running", "enqueuing"}
                                 /\ stop = "no" => fate[d] # "dropping"

BusInv == Phases /\ Quiet

LEMMA BusInitially == BusInit => BusInv
  BY DEF BusInit, BusInv, Phases, Quiet

\* A task ends: without a loop it can only be a drop.
LEMMA TaskEnds ==
    ASSUME BusInv, NEW d \in Dispatched, HandlerEnds(d) \/ Enqueuing(d)
    PROVE  BusInv'
  <1>1. PICK before \in {"running", "enqueuing", "dropping"} :
          \E after \in {"handled", "enqueuing", "failed", "letter"} :
              /\ Becomes(d, before, after)
              /\ after = "enqueuing" => before = "running"
    BY DEF HandlerEnds, HandlerReturns, HandlerRaises, Enqueuing, EnqueueEnds, DropEnds
  <1>2. PICK after \in {"handled", "enqueuing", "failed", "letter"} :
          /\ Becomes(d, before, after)
          /\ after = "enqueuing" => before = "running"
    BY <1>1
  <1>3. /\ fate[d] = before /\ fate' = [fate EXCEPT ![d] = after]
        /\ UNCHANGED <<loop, stop>>
    BY <1>2 DEF Becomes
  <1>4. Phases'  BY <1>3 DEF BusInv, Phases
  <1>5. Quiet'
    <2> SUFFICES ASSUME loop = "none"
                 PROVE  /\ fate' = [c \in Dispatched |-> fate'[c]]
                        /\ \A c \in Dispatched : /\ fate'[c] \notin {"running", "enqueuing"}
                                                 /\ stop = "no" => fate'[c] # "dropping"
      BY <1>3 DEF Quiet
    <2>1. before = "dropping" /\ after # "enqueuing"  BY <1>2, <1>3 DEF BusInv, Quiet
    <2>2. fate = [c \in Dispatched |-> fate[c]]  BY DEF BusInv, Quiet
    <2>3. \A c \in Dispatched : fate'[c] = IF c = d THEN after ELSE fate[c]
      BY <1>3, <2>2
    <2>4. fate' = [c \in Dispatched |-> fate'[c]]  BY <1>3, <2>2
    <2> QED  BY <2>1, <2>3, <2>4 DEF BusInv, Quiet
  <1> QED  BY <1>4, <1>5 DEF BusInv

\* stop() goes on when the loop has ended, and returns when the drops have.
LEMMA StopGoesOn ==
    ASSUME BusInv, Stopping
    PROVE  BusInv'
  <1>1. CASE StopCancels
    <2>1. stop' = "draining" /\ loop' = "none"  BY <1>1 DEF StopCancels
    <2>2. PICK committing \in SUBSET With(fate, {"enqueuing"}) :
              fate' = CancelPending(fate, committing)
      BY <1>1 DEF StopCancels
    <2>3. fate' = [d \in Dispatched |-> fate'[d]]  BY <2>2 DEF CancelPending
    <2>4. \A d \in Dispatched : fate'[d] \notin {"running", "enqueuing"}
      BY <2>2 DEF CancelPending
    <2> QED  BY <2>1, <2>3, <2>4 DEF BusInv, Phases, Quiet
  <1>2. CASE StopReturns
    <2>1. stop = "draining" /\ stop' = "no" /\ UNCHANGED <<loop, fate>>
      BY <1>2 DEF StopReturns
    <2>2. \A d \in Dispatched : fate[d] # "dropping"  BY <1>2 DEF StopReturns, With
    <2> QED  BY <2>1, <2>2 DEF BusInv, Phases, Quiet
  <1> QED  BY <1>1, <1>2 DEF Stopping

LEMMA BusStep == BusInv /\ [BusNext]_busVars => BusInv'
  <1> SUFFICES ASSUME BusInv, [BusNext]_busVars PROVE BusInv'
    OBVIOUS
  <1>1. CASE StartBus  BY <1>1 DEF StartBus, BusInv, Phases, Quiet
  <1>2. CASE StopBus  BY <1>2 DEF StopBus, BusInv, Phases, Quiet
  <1>3. CASE Dispatching
    <2>1. loop' \in {"waiting", "over"} /\ UNCHANGED stop /\ loop # "none"
      BY <1>3 DEF Dispatching, LoopBegins, DispatchLoop, Drain
    <2> QED  BY <2>1 DEF BusInv, Phases, Quiet
  <1>4. CASE Stopping  BY <1>4, StopGoesOn
  <1>5. CASE \/ Unblock
             \/ \E s \in Sub : Subscribe(s) \/ Unsubscribe(s)
             \/ \E e \in Event : Publish(e)
             \/ UNCHANGED busVars
    <2>1. UNCHANGED <<loop, stop, fate>>
      BY <1>5 DEF Unblock, Subscribe, Unsubscribe, Publish, busVars
    <2> QED  BY <2>1 DEF BusInv, Phases, Quiet
  <1>6. ASSUME NEW d \in Dispatched, HandlerEnds(d) \/ Enqueuing(d) PROVE BusInv'
    BY <1>6, TaskEnds
  <1> QED  BY <1>1, <1>2, <1>3, <1>4, <1>5, <1>6 DEF BusNext

LEMMA BusInductive == BusSpec => []BusInv
  BY BusInitially, BusStep, PTL DEF BusSpec

\* "no coroutine outlives the bus" (event_bus.py:124-126): stop() returns when the loop
\* has ended, the callbacks are cancelled and the accepted drops are in the database.
THEOREM NothingOutlives == BusSpec => []NoneOutlives
  <1>1. BusInv => NoneOutlives  BY DEF BusInv, Quiet, NoneOutlives, With
  <1> QED  BY <1>1, BusInductive, PTL

Fates == [Dispatched -> Fate]

\* One event, offered to one subscription after the other.
LEMMA RouteTyped ==
    ASSUME subs \in Seq(Sub), NEW f \in Fates, NEW e
    PROVE  Route(f, e) \in Fates
  <1> DEFINE Offer(g, s) == IF <<e, s>> \in Matches THEN RouteOne(g, <<e, s>>) ELSE g
             n == Len(subs)
             D == DOMAIN subs
             it == CHOOSE g : g = [t \in SUBSET D |->
                       IF t = {} THEN f ELSE Offer(g[t \ {Max(t)}], subs[Max(t)])]
             step == [x \in (1..n) \X Fates |-> Offer(x[2], subs[x[1]])]
  <1>1. Route(f, e) = it[D]  BY DEF Route, FoldLeft, MapThenFoldSet
  <1>2. n \in Nat /\ D = 1..n  OBVIOUS
  <1>3. \A g \in Fates, s \in Sub : Offer(g, s) \in Fates
    BY DEF Fates, RouteOne, Fate
  <1> HIDE DEF Offer, n, D
  <1>4. step \in [(1..n) \X Fates -> Fates]
    BY <1>2, <1>3 DEF D, n
  <1>5. PICK g \in [SUBSET (1..n) -> Fates] : Folding(g, SUBSET (1..n), f, step)
    <2> HIDE DEF step
    <2> QED BY <1>2, <1>4, FoldExists
  <1>6. ASSUME NEW t \in SUBSET (1..n), t # {}, NEW h, h[t \ {Max(t)}] \in Fates
        PROVE  step[<<Max(t), h[t \ {Max(t)}]>>] = Offer(h[t \ {Max(t)}], subs[Max(t)])
    <2>1. Max(t) \in 1..n  BY <1>2, <1>6, WithoutMax
    <2> QED  BY <1>6, <2>1
  <1>7. \A t \in SUBSET D :
            g[t] = IF t = {} THEN f ELSE Offer(g[t \ {Max(t)}], subs[Max(t)])
    <2> SUFFICES ASSUME NEW t \in SUBSET (1..n), t # {}
                 PROVE  g[t] = Offer(g[t \ {Max(t)}], subs[Max(t)])
      BY <1>2, <1>5 DEF Folding
    <2>1. g[t \ {Max(t)}] \in Fates  OBVIOUS
    <2>2. g[t] = step[<<Max(t), g[t \ {Max(t)}]>>]  BY <1>5 DEF Folding
    <2> QED  BY <1>6, <2>1, <2>2
  <1>8. g = [t \in SUBSET D |-> IF t = {} THEN f ELSE Offer(g[t \ {Max(t)}], subs[Max(t)])]
    BY <1>2, <1>7
  <1>9. it = [t \in SUBSET D |-> IF t = {} THEN f ELSE Offer(it[t \ {Max(t)}], subs[Max(t)])]
    BY <1>8
  <1> HIDE DEF it
  <1>10. it[{}] \in Fates  BY <1>9
  <1>11. ASSUME NEW t \in SUBSET (1..n), t # {}, it[t \ {Max(t)}] \in Fates
         PROVE  it[t] \in Fates
    <2>1. subs[Max(t)] \in Sub  BY <1>2, <1>11, WithoutMax DEF n
    <2>2. it[t] = Offer(it[t \ {Max(t)}], subs[Max(t)])  BY <1>2, <1>9, <1>11
    <2> QED  BY <1>3, <1>11, <2>1, <2>2
  <1>12. \A t \in SUBSET (1..n) : it[t] \in Fates  BY <1>2, <1>10, <1>11, FoldKeeps
  <1> QED  BY <1>1, <1>2, <1>12

\* All the events that the loop takes at once.
LEMMA RoutesTyped ==
    ASSUME subs \in Seq(Sub), NEW f \in Fates, NEW s \in Seq(Event \cup {Sentinel})
    PROVE  FoldLeft(Route, f, s) \in Fates
  <1> DEFINE n == Len(s)
             D == DOMAIN s
             it == CHOOSE g : g = [t \in SUBSET D |->
                       IF t = {} THEN f ELSE Route(g[t \ {Max(t)}], s[Max(t)])]
             step == [x \in (1..n) \X Fates |-> Route(x[2], s[x[1]])]
  <1>1. FoldLeft(Route, f, s) = it[D]  BY DEF FoldLeft, MapThenFoldSet
  <1>2. n \in Nat /\ D = 1..n  OBVIOUS
  <1>3. \A g \in Fates : \A e : Route(g, e) \in Fates  BY RouteTyped
  <1> HIDE DEF n, D
  <1>4. step \in [(1..n) \X Fates -> Fates]  BY <1>3
  <1>5. PICK g \in [SUBSET (1..n) -> Fates] : Folding(g, SUBSET (1..n), f, step)
    <2> HIDE DEF step
    <2> QED BY <1>2, <1>4, FoldExists
  <1>6. \A t \in SUBSET D :
            g[t] = IF t = {} THEN f ELSE Route(g[t \ {Max(t)}], s[Max(t)])
    <2> SUFFICES ASSUME NEW t \in SUBSET (1..n), t # {}
                 PROVE  g[t] = Route(g[t \ {Max(t)}], s[Max(t)])
      BY <1>2, <1>5 DEF Folding
    <2>1. g[t \ {Max(t)}] \in Fates /\ Max(t) \in 1..n  BY <1>2, WithoutMax
    <2>2. g[t] = step[<<Max(t), g[t \ {Max(t)}]>>]  BY <1>5 DEF Folding
    <2> QED  BY <2>1, <2>2
  <1>7. g = [t \in SUBSET D |-> IF t = {} THEN f ELSE Route(g[t \ {Max(t)}], s[Max(t)])]
    BY <1>2, <1>6
  <1>8. it = [t \in SUBSET D |-> IF t = {} THEN f ELSE Route(it[t \ {Max(t)}], s[Max(t)])]
    BY <1>7
  <1> HIDE DEF it
  <1>9. it[{}] \in Fates  BY <1>8
  <1>10. \A t \in SUBSET (1..n) : t # {} /\ it[t \ {Max(t)}] \in Fates => it[t] \in Fates
    BY <1>2, <1>3, <1>8
  <1>11. \A t \in SUBSET (1..n) : it[t] \in Fates  BY <1>2, <1>9, <1>10, FoldKeeps
  <1> QED  BY <1>1, <1>2, <1>11

------------------------------------------------------------------------------
\* A publisher that waits has published.
Waiting == \A i \in 1..Len(blocked) : blocked[i] \in published

BusTyped == BusTypeOK /\ Waiting

LEMMA AppendTyped ==
    ASSUME NEW S, NEW s \in Seq(S), IsInjective(s), NEW e \in S,
           \A i \in 1..Len(s) : s[i] # e
    PROVE  Append(s, e) \in Seq(S) /\ IsInjective(Append(s, e))
  <1>1. /\ Append(s, e) \in Seq(S) /\ DOMAIN Append(s, e) = 1..(Len(s) + 1)
        /\ Len(s) \in Nat /\ DOMAIN s = 1..Len(s)
        /\ \A i \in 1..Len(s) : Append(s, e)[i] = s[i]
        /\ Append(s, e)[Len(s) + 1] = e
    OBVIOUS
  <1>2. \A i, j \in 1..Len(s) : s[i] = s[j] => i = j  BY <1>1 DEF IsInjective
  <1>3. ASSUME NEW i \in 1..(Len(s) + 1), NEW j \in 1..(Len(s) + 1),
               Append(s, e)[i] = Append(s, e)[j]
        PROVE  i = j
    <2>1. CASE i \in 1..Len(s) /\ j \in 1..Len(s)  BY <2>1, <1>1, <1>2, <1>3
    <2>2. CASE i = Len(s) + 1 /\ j \in 1..Len(s)  BY <2>2, <1>1, <1>3
    <2>3. CASE i \in 1..Len(s) /\ j = Len(s) + 1  BY <2>3, <1>1, <1>3
    <2>4. CASE i = Len(s) + 1 /\ j = Len(s) + 1  BY <2>4
    <2> QED  BY <1>1, <2>1, <2>2, <2>3, <2>4
  <1> QED  BY <1>1, <1>3 DEF IsInjective

LEMMA UnsubscribeTyped ==
    ASSUME subs \in Seq(Sub), IsInjective(subs), NEW s, Contains(subs, s)
    PROVE  RemoveFirst(subs, s) \in Seq(Sub) /\ IsInjective(RemoveFirst(subs, s))
  <1> DEFINE I == {i \in 1..Len(subs) : subs[i] = s}
  <1>1. I \in SUBSET Nat /\ I # {}  BY DEF Contains
  <1>2. Min(I) \in 1..Len(subs)
    <2> HIDE DEF I
    <2>1. Min(I) \in I  BY <1>1, MinOfSet
    <2> QED  BY <2>1 DEF I
  <1>3. RemoveFirst(subs, s) = RemoveAt(subs, Min(I))
    BY <1>1 DEF RemoveFirst, SelectInSeq, Contains
  <1> QED  BY <1>2, <1>3, RemovalTyped

\* The loop takes no more than there is.
LEMMA DrainTyped ==
    ASSUME BusTyped, queue # <<>>, Drain
    PROVE  /\ fate' \in Fates
           /\ queue' \in Seq(Event \cup {Sentinel}) /\ Len(queue') <= QueueSize
           /\ loop' \in {"waiting", "over"}
  <1> DEFINE Q == Event \cup {Sentinel}
             n == Len(queue)
             mark == SelectInSeq(queue, LAMBDA x : x = Sentinel)
             reach == IF running THEN n ELSE 1
             ended == mark \in 1..reach
             taken == IF ended THEN mark - 1 ELSE reach
             kept == IF ended THEN mark + 1 ELSE taken + 1
  <1>1. queue \in Seq(Q) /\ n \in Nat /\ n <= QueueSize /\ n >= 1 /\ QueueSize \in Nat
    BY BusAssumption DEF BusTyped, BusTypeOK
  <1>2. /\ fate' = FoldLeft(Route, fate, SubSeq(queue, 1, taken))
        /\ queue' = SubSeq(queue, kept, n)
        /\ loop' \in {"waiting", "over"}
    BY DEF Drain
  <1>3. taken \in 0..n /\ kept \in 1..(n + 1)
    <2>1. reach \in 1..n  BY <1>1
    <2> HIDE DEF reach, mark
    <2> QED  BY <1>1, <2>1
  <1> HIDE DEF taken, kept, n, mark, reach, ended
  <1>4. \A i \in 1..n : queue[i] \in Q  BY <1>1 DEF n
  <1>5. SubSeq(queue, 1, taken) \in Seq(Q)
    <2>1. \A i \in 1..taken : queue[i] \in Q  BY <1>1, <1>3, <1>4
    <2> QED  BY <1>3, <2>1, SubSeqProperties
  <1>6. queue' \in Seq(Q) /\ Len(queue') <= QueueSize
    <2>1. \A i \in kept..n : queue[i] \in Q  BY <1>1, <1>3, <1>4
    <2>2. /\ SubSeq(queue, kept, n) \in Seq(Q)
          /\ Len(SubSeq(queue, kept, n)) = IF kept <= n THEN n - kept + 1 ELSE 0
      BY <1>1, <1>3, <2>1, SubSeqProperties
    <2> QED  BY <1>1, <1>2, <1>3, <2>2
  <1>7. fate' \in Fates
    BY <1>2, <1>5, RoutesTyped DEF BusTyped, BusTypeOK, Fates
  <1> QED  BY <1>2, <1>6, <1>7

LEMMA BusInitType == BusInit => BusTyped
  <1> SUFFICES ASSUME BusInit PROVE BusTyped  OBVIOUS
  <1>1. <<>> \in Seq(Event) /\ <<>> \in Seq(Sub) /\ <<>> \in Seq(Event \cup {Sentinel})
    OBVIOUS
  <1>2. Len(<<>>) = 0 /\ DOMAIN <<>> = {}  OBVIOUS
  <1>3. fate \in [Dispatched -> Fate]  BY DEF BusInit, Fate
  <1>4. IsInjective(blocked) /\ IsInjective(subs)  BY <1>2 DEF BusInit, IsInjective
  <1>5. Waiting  BY <1>2 DEF BusInit, Waiting
  <1>6. Len(queue) <= QueueSize  BY <1>2, BusAssumption DEF BusInit
  <1>7. starts \in 0..MaxStarts  BY BusAssumption DEF BusInit
  <1> QED  BY <1>1, <1>3, <1>4, <1>5, <1>6, <1>7 DEF BusInit, BusTyped, BusTypeOK

LEMMA BusTypeStep == BusTyped /\ [BusNext]_busVars => BusTyped'
  <1> SUFFICES ASSUME BusTyped, [BusNext]_busVars PROVE BusTyped'
    OBVIOUS
  <1> USE DEF BusTyped, BusTypeOK, Waiting
  <1>1. CASE StartBus  BY <1>1, BusAssumption DEF StartBus
  <1>2. CASE StopBus
    <2>1. CASE Len(queue) < QueueSize
      <3>1. queue' = Append(queue, Sentinel) /\ UNCHANGED loop  BY <1>2, <2>1 DEF StopBus
      <3>2. Append(queue, Sentinel) \in Seq(Event \cup {Sentinel})
        BY DEF BusTyped, BusTypeOK
      <3>3. Len(queue') <= QueueSize  BY <2>1, <3>1, BusAssumption
      <3> QED  BY <1>2, <3>1, <3>2, <3>3 DEF StopBus
    <2>2. CASE ~(Len(queue) < QueueSize)  BY <1>2, <2>2 DEF StopBus
    <2> QED  BY <2>1, <2>2
  <1>3. CASE LoopBegins  BY <1>3 DEF LoopBegins
  <1>4. CASE DispatchLoop
    <2>1. queue # <<>> /\ Drain  BY <1>4 DEF DispatchLoop
    <2>2. UNCHANGED <<published, blocked, running, stop, retrier, subs, starts>>
      BY <2>1 DEF Drain
    <2> QED  BY <2>1, <2>2, DrainTyped DEF Fates
  <1>5. CASE StopCancels
    <2>1. fate' \in [Dispatched -> Fate]  BY <1>5 DEF StopCancels, CancelPending, Fate
    <2> QED  BY <1>5, <2>1 DEF StopCancels
  <1>6. CASE StopReturns  BY <1>6 DEF StopReturns
  <1>7. CASE Unblock
    <2>1. /\ Len(queue) < QueueSize /\ queue' = Append(queue, Head(blocked))
          /\ blocked # <<>> /\ blocked' = Tail(blocked)
          /\ UNCHANGED <<published, running, loop, stop, retrier, subs, starts, fate>>
      BY <1>7 DEF Unblock
    <2>2. Head(blocked) \in Event  BY <2>1
    <2>3. queue' \in Seq(Event \cup {Sentinel}) /\ Len(queue') <= QueueSize
      BY <2>1, <2>2, BusAssumption
    <2>4. /\ blocked' \in Seq(Event) /\ Len(blocked') = Len(blocked) - 1 /\ Len(blocked) \in Nat
          /\ \A i \in 1..Len(blocked') : blocked'[i] = blocked[i + 1]
      BY <2>1
    <2>5. IsInjective(blocked')
      <3>1. \A i, j \in 1..Len(blocked) : blocked[i] = blocked[j] => i = j
        BY DEF IsInjective
      <3>2. \A i \in 1..Len(blocked') : i \in Int /\ i + 1 \in 1..Len(blocked)  BY <2>4
      <3>3. ASSUME NEW i \in 1..Len(blocked'), NEW j \in 1..Len(blocked'),
                   blocked'[i] = blocked'[j]
            PROVE  i = j
        <4>1. blocked[i + 1] = blocked[j + 1]  BY <2>4, <3>3
        <4>2. i + 1 = j + 1  BY <3>1, <3>2, <4>1
        <4> QED  BY <3>2, <4>2
      <3>4. DOMAIN blocked' = 1..Len(blocked')  BY <2>4
      <3> QED  BY <3>3, <3>4 DEF IsInjective
    <2>6. Waiting'  BY <2>1, <2>4
    <2> QED  BY <2>1, <2>3, <2>4, <2>5, <2>6
  <1>8. ASSUME NEW s \in Sub, Subscribe(s) PROVE BusTyped'
    <2>1. subs' = Append(subs, s) /\ \A i \in 1..Len(subs) : subs[i] # s
      BY <1>8 DEF Subscribe, Contains
    <2>2. subs' \in Seq(Sub) /\ IsInjective(subs')  BY <2>1, AppendTyped
    <2> QED  BY <1>8, <2>2 DEF Subscribe
  <1>9. ASSUME NEW s \in Sub, Unsubscribe(s) PROVE BusTyped'
    <2>1. subs' \in Seq(Sub) /\ IsInjective(subs')
      BY <1>9, UnsubscribeTyped DEF Unsubscribe
    <2> QED  BY <1>9, <2>1 DEF Unsubscribe
  <1>10. ASSUME NEW e \in Event, Publish(e) PROVE BusTyped'
    <2>1. /\ e \notin published /\ published' = published \cup {e}
          /\ UNCHANGED <<running, loop, stop, retrier, subs, starts, fate>>
      BY <1>10 DEF Publish
    <2>2. CASE Len(queue) < QueueSize
      <3>1. queue' = Append(queue, e) /\ UNCHANGED blocked  BY <1>10, <2>2 DEF Publish
      <3>2. queue' \in Seq(Event \cup {Sentinel}) /\ Len(queue') <= QueueSize
        BY <2>2, <3>1, BusAssumption
      <3> QED  BY <2>1, <3>1, <3>2
    <2>3. CASE ~(Len(queue) < QueueSize)
      <3>1. blocked' = Append(blocked, e) /\ UNCHANGED queue  BY <1>10, <2>3 DEF Publish
      <3>2. \A i \in 1..Len(blocked) : blocked[i] # e  BY <2>1
      <3>3. blocked' \in Seq(Event) /\ IsInjective(blocked')  BY <3>1, <3>2, AppendTyped
      <3>4. \A i \in 1..Len(blocked') : blocked'[i] \in published'  BY <2>1, <3>1
      <3> QED  BY <2>1, <3>1, <3>3, <3>4
    <2> QED  BY <2>2, <2>3
  <1>11. ASSUME NEW d \in Dispatched, HandlerEnds(d) \/ Enqueuing(d) PROVE BusTyped'
    <2>1. \E before, after \in Fate : Becomes(d, before, after)
      BY <1>11 DEF HandlerEnds, HandlerReturns, HandlerRaises, Enqueuing, EnqueueEnds,
                   DropEnds, Fate
    <2>2. fate' \in [Dispatched -> Fate]  BY <2>1 DEF Becomes
    <2> QED  BY <2>1, <2>2 DEF Becomes
  <1>12. CASE UNCHANGED busVars  BY <1>12 DEF busVars
  <1> QED
    BY <1>1, <1>2, <1>3, <1>4, <1>5, <1>6, <1>7, <1>8, <1>9, <1>10, <1>11, <1>12
    DEF BusNext, Dispatching, Stopping

\* The queue stays within its size, whoever waits for room and whatever the loop
\* takes; the loop's routing gives every dispatch one of the fates (event_bus.py:161-191).
THEOREM BusTypeCorrect == BusSpec => []BusTypeOK
  <1>1. BusTyped => BusTypeOK  BY DEF BusTyped
  <1> QED  BY <1>1, BusInitType, BusTypeStep, PTL DEF BusSpec

------------------------------------------------------------------------------
Attending ==
    \A w \in Worker :
        /\ IF worker[w].pc \in {"call", "outcome"} THEN Mine(w) \in Letter ELSE Mine(w) = NoLetter
        /\ At(w, "outcome") => worker[w].verdict # "none"

\* A row that some worker attends to and that never grew old.
OwnRow ==
    \A l \in Letter \ overran : \A w \in Worker :
        Mine(w) = l => /\ row[l].status = "in_progress" /\ ~row[l].stale
                       /\ \A v \in Worker : Mine(v) = l => v = w

Finished ==
    \A l \in handled \ (overran \cup lost) :
        \/ row[l].status = "deleted"
        \/ \E w \in Worker : At(w, "outcome") /\ Mine(w) = l /\ worker[w].verdict = "success"

Deserved(n, l) == n <= failures[l] \/ failures[l] = MaxAttempts

Counting ==
    /\ \A l \in Letter : Deserved(row[l].attempts, l)
    /\ \A w \in Worker : \A i \in 1..Len(worker[w].batch) :
           Deserved(worker[w].batch[i].attempts, worker[w].batch[i].id)
    /\ \A w \in Worker : Mine(w) # NoLetter => Deserved(worker[w].attempts, Mine(w))
    /\ \A w \in Worker :
           At(w, "outcome") /\ worker[w].verdict = "failure" =>
               Deserved(worker[w].attempts + 1, Mine(w))

IInv == TypeOK /\ Attending /\ OwnRow /\ Finished /\ Counting /\ DeadDeserved

LEMMA UnscheduledTyped ==
    ASSUME due \in Seq(Letter), IsInjective(due), NEW l \in Letter
    PROVE  Unscheduled(l) \in Seq(Letter) /\ IsInjective(Unscheduled(l))
  <1>1. CASE ~Contains(due, l)  BY <1>1 DEF Unscheduled
  <1>2. CASE Contains(due, l)
    <2> DEFINE i == CHOOSE i \in DOMAIN due : due[i] = l
    <2>1. i \in 1..Len(due)  BY <1>2 DEF Contains
    <2>2. Unscheduled(l) = RemoveAt(due, i)  BY <1>2 DEF Unscheduled
    <2> HIDE DEF i
    <2> QED  BY <2>1, <2>2, RemovalTyped
  <1> QED  BY <1>1, <1>2

LEMMA RecoveredTyped == TypeOK => Recovered \in [Letter -> Row]
  <1> SUFFICES ASSUME TypeOK, NEW l \in Letter
               PROVE  [row[l] EXCEPT !.status = "pending", !.stale = FALSE] \in Row
    BY DEF Recovered, TypeOK
  <1> QED  BY DEF TypeOK, Row, Status

LEMMA ClaimedTyped ==
    ASSUME TypeOK, NEW l \in Letter
    PROVE  Claimed(l) \in [Letter -> Row]
  <1>1. row[l] \in Row  BY DEF TypeOK
  <1>2. [row[l] EXCEPT !.status = "in_progress", !.stale = FALSE] \in Row
    BY <1>1 DEF Row, Status
  <1> QED  BY <1>2 DEF Claimed, TypeOK

LEMMA WriteTyped ==
    ASSUME TypeOK, NEW l \in Letter, NEW s \in Status, NEW n \in Nat, Write(l, s, n)
    PROVE  row' \in [Letter -> Row] /\ due' \in Seq(Letter) /\ IsInjective(due')
  BY UnscheduledTyped DEF TypeOK, Write, Row

LEMMA OutcomeTyped ==
    ASSUME TypeOK, Attending, NEW w \in Worker, At(w, "outcome"), Outcome(w)
    PROVE  row' \in [Letter -> Row] /\ due' \in Seq(Letter) /\ IsInjective(due')
  <1>1. Mine(w) \in Letter  BY DEF Attending, At
  <1>2. worker[w].attempts \in Nat /\ row[Mine(w)].attempts \in Nat
    BY <1>1 DEF TypeOK, WorkerState, Row
  <1>3. CASE worker[w].verdict = "success"
    BY <1>1, <1>3, UnscheduledTyped DEF TypeOK, Outcome, Deleted, Row, Status
  <1>4. CASE worker[w].verdict # "success"
    <2>1. \E s \in Status, n \in Nat : Write(Mine(w), s, n)
      BY <1>2, <1>4, LetterAssumption DEF Outcome, Status
    <2> QED  BY <1>1, <2>1, WriteTyped
  <1> QED  BY <1>3, <1>4

LEMMA ReadsTyped ==
    ASSUME TypeOK, NEW w \in Worker, NEW S \in SUBSET Letter, ReadsFirst(w, S)
    PROVE  /\ worker' \in [Worker -> WorkerState]
           /\ \A v \in Worker : Len(worker'[v].batch) <= BatchSize
           /\ \E rows \in Seq(S) :
                worker' = [worker EXCEPT ![w] = [@ EXCEPT
                    !.pc = "batch",
                    !.batch = [i \in 1..Len(rows) |->
                                  [id |-> rows[i], attempts |-> row[rows[i]].attempts]]]]
  <1>0. PICK n \in 1..BatchSize : \E rows \in [1..n -> S] : Reads(w, rows)
    BY DEF ReadsFirst
  <1>1. PICK rows \in [1..n -> S] : Reads(w, rows)  BY <1>0
  <1>2. n \in Nat /\ n <= BatchSize /\ rows \in Seq(S) /\ Len(rows) = n /\ DOMAIN rows = 1..n
    BY LetterAssumption
  <1> DEFINE b == [i \in 1..n |-> [id |-> rows[i], attempts |-> row[rows[i]].attempts]]
  <1>3. b \in [1..n -> Fetched]  BY DEF Fetched, TypeOK, Row
  <1>4. b \in Seq(Fetched) /\ Len(b) = n  BY <1>2, <1>3
  <1>5. worker' = [worker EXCEPT ![w] = [@ EXCEPT !.pc = "batch", !.batch = b]]
    BY <1>1, <1>2 DEF Reads
  <1>6. worker[w] \in WorkerState  BY DEF TypeOK
  <1>9. \E r \in Seq(S) :
                worker' = [worker EXCEPT ![w] = [@ EXCEPT
                    !.pc = "batch",
                    !.batch = [i \in 1..Len(r) |->
                                  [id |-> r[i], attempts |-> row[r[i]].attempts]]]]
    BY <1>2, <1>5
  <1> HIDE DEF b
  <1>7. [worker[w] EXCEPT !.pc = "batch", !.batch = b] \in WorkerState
    BY <1>4, <1>6 DEF WorkerState
  <1>8. worker' \in [Worker -> WorkerState] /\ worker'[w].batch = b
        /\ \A v \in Worker \ {w} : worker'[v] = worker[v]
    BY <1>5, <1>6, <1>7 DEF TypeOK, WorkerState
  <1> QED  BY <1>2, <1>4, <1>8, <1>9 DEF TypeOK

LEMMA InitType == Init => TypeOK /\ Attending
  <1> SUFFICES ASSUME Init PROVE TypeOK /\ Attending  OBVIOUS
  <1>1. Off \in WorkerState  BY DEF Off, WorkerState, Verdict
  <1>2. Len(Off.batch) = 0 /\ Off.pc = "off" /\ Off.id = NoLetter  BY DEF Off
  <1>3. due \in Seq(Letter) /\ IsInjective(due)  BY DEF Init, IsInjective
  <1>4. worker \in [Worker -> WorkerState] /\ \A w \in Worker : worker[w] = Off
    BY <1>1 DEF Init
  <1>5. Attending  BY <1>2, <1>4 DEF Attending, At, Mine
  <1>6. row \in [Letter -> Row] /\ failures \in [Letter -> 0..MaxAttempts] /\ faults \in 0..MaxFaults
    BY LetterAssumption DEF Init, Row, Status
  <1> QED  BY <1>2, <1>3, <1>4, <1>5, <1>6, LetterAssumption DEF TypeOK, Init

\* A worker's state after a step that changes the fields a step of its kind changes.
LEMMA OneWorker ==
    ASSUME TypeOK, Attending, NEW w \in Worker, NEW s \in WorkerState,
           worker' = [worker EXCEPT ![w] = s],
           Len(s.batch) <= BatchSize,
           IF s.pc \in {"call", "outcome"} THEN s.id \in Letter ELSE s.id = NoLetter,
           s.pc = "outcome" => s.verdict # "none"
    PROVE  /\ worker' \in [Worker -> WorkerState]
           /\ \A v \in Worker : Len(worker'[v].batch) <= BatchSize
           /\ Attending'
  BY DEF TypeOK, Attending, At, Mine

LEMMA TypeStep ==
    ASSUME TypeOK, Attending, [Next]_vars
    PROVE  TypeOK' /\ Attending'
  <1> USE DEF TypeOK
  <1>1. ASSUME NEW l \in Letter, Enqueue(l) PROVE TypeOK' /\ Attending'
    <2>1. row' \in [Letter -> Row] /\ due' \in Seq(Letter) /\ IsInjective(due')
      BY <1>1, WriteTyped DEF Enqueue, Status
    <2> QED  BY <1>1, <2>1 DEF Enqueue, Attending, At, Mine
  <1>2. ASSUME NEW l \in Letter, Register(l) PROVE TypeOK' /\ Attending'
    BY <1>2 DEF Register, Attending, At, Mine
  <1>3. ASSUME NEW l \in Letter, BecomeDue(l) PROVE TypeOK' /\ Attending'
    <2>1. /\ Len(due) \in Nat /\ DOMAIN due = 1..Len(due)
          /\ due' \in Seq(Letter) /\ DOMAIN due' = 1..(Len(due) + 1)
          /\ \A i \in 1..(Len(due) + 1) : due'[i] = IF i <= Len(due) THEN due[i] ELSE l
      BY <1>3 DEF BecomeDue
    <2>2. IsInjective(due')  BY <1>3, <2>1 DEF BecomeDue, Contains, IsInjective
    <2> QED  BY <1>3, <2>1, <2>2 DEF BecomeDue, Attending, At, Mine
  <1>4. ASSUME NEW l \in Letter, BecomeStale(l) PROVE TypeOK' /\ Attending'
    BY <1>4 DEF BecomeStale, Attending, At, Mine, Row
  <1>5. ASSUME NEW w \in Worker, Start(w) PROVE TypeOK' /\ Attending'
    <2>1. worker[w] \in WorkerState /\ worker[w].pc = "off"  BY <1>5 DEF Start, At
    <2> DEFINE s == [worker[w] EXCEPT !.pc = "recover"]
    <2>2. s \in WorkerState /\ s.pc = "recover" /\ s.batch = worker[w].batch /\ s.id = NoLetter
      BY <2>1 DEF WorkerState, Attending, Mine
    <2>3. worker' = [worker EXCEPT ![w] = s]  BY <1>5 DEF Start
    <2> HIDE DEF s
    <2> QED  BY <1>5, <2>2, <2>3, OneWorker DEF Start
  <1>6. ASSUME NEW w \in Worker, Recover(w) \/ RecoverFails(w) PROVE TypeOK' /\ Attending'
    <2>1. PICK pc \in {"idle", "failed"} : worker' = [worker EXCEPT ![w].pc = pc]
      BY <1>6 DEF Recover, RecoverFails
    <2>2. worker[w] \in WorkerState /\ worker[w].pc = "recover"
      BY <1>6 DEF Recover, RecoverFails, At
    <2> DEFINE s == [worker[w] EXCEPT !.pc = pc]
    <2>3. s \in WorkerState /\ s.pc = pc /\ s.batch = worker[w].batch /\ s.id = NoLetter
      BY <2>2 DEF WorkerState, Attending, Mine
    <2>4. worker' = [worker EXCEPT ![w] = s]  BY <2>1
    <2> HIDE DEF s
    <2>5. row' \in [Letter -> Row]  BY <1>6, RecoveredTyped DEF Recover, RecoverFails
    <2>6. faults' \in 0..MaxFaults  BY <1>6, LetterAssumption DEF Recover, RecoverFails, Fault
    <2>7. UNCHANGED <<due, known, handled, failures, overran, lost>>
      BY <1>6 DEF Recover, RecoverFails
    <2> QED  BY <2>3, <2>4, <2>5, <2>6, <2>7, OneWorker
  <1>7. ASSUME NEW w \in Worker, Fetch(w) PROVE TypeOK' /\ Attending'
    <2>1. ReadsFirst(w, Pending) /\ Pending \in SUBSET Letter  BY <1>7 DEF Fetch, Pending
    <2>2. /\ worker' \in [Worker -> WorkerState]
          /\ \A v \in Worker : Len(worker'[v].batch) <= BatchSize
      BY <2>1, ReadsTyped
    <2>3. \E b : worker' = [worker EXCEPT ![w] = [@ EXCEPT !.pc = "batch", !.batch = b]]
      BY <1>7 DEF Fetch, ReadsFirst, Reads
    <2>4. Attending'  BY <1>7, <2>2, <2>3 DEF Fetch, Attending, At, Mine, WorkerState
    <2> QED  BY <1>7, <2>2, <2>4 DEF Fetch
  <1>8. ASSUME NEW w \in Worker, BatchEnds(w) \/ ClaimFails(w) PROVE TypeOK' /\ Attending'
    <2>1. PICK b \in {worker[w].batch, <<>>} :
              worker' = [worker EXCEPT ![w] = [@ EXCEPT !.pc = "idle", !.batch = b]]
      <3>1. worker[w] \in WorkerState  OBVIOUS
      <3> QED  BY <1>8, <3>1 DEF BatchEnds, ClaimFails, WorkerState
    <2>2. worker[w] \in WorkerState /\ worker[w].pc = "batch"
      BY <1>8 DEF BatchEnds, ClaimFails, At
    <2>8. worker[w].batch \in Seq(Fetched)  BY <2>2 DEF WorkerState
    <2>9. <<>> \in Seq(Fetched)  OBVIOUS
    <2>0. b \in Seq(Fetched)  BY <2>8, <2>9
    <2> DEFINE s == [worker[w] EXCEPT !.pc = "idle", !.batch = b]
    <2>3. s \in WorkerState /\ s.pc = "idle" /\ s.batch = b /\ s.id = NoLetter
      BY <2>0, <2>2 DEF WorkerState, Attending, Mine
    <2>4. worker' = [worker EXCEPT ![w] = s]  BY <2>1
    <2> HIDE DEF s
    <2>5. Len(b) <= BatchSize  BY LetterAssumption
    <2>6. faults' \in 0..MaxFaults  BY <1>8, LetterAssumption DEF BatchEnds, ClaimFails, Fault
    <2>7. UNCHANGED <<row, due, known, handled, failures, overran, lost>>
      BY <1>8 DEF BatchEnds, ClaimFails
    <2> QED  BY <2>3, <2>4, <2>5, <2>6, <2>7, OneWorker
  <1>9. ASSUME NEW w \in Worker, Claim(w) PROVE TypeOK' /\ Attending'
    <2>1. worker[w] \in WorkerState /\ worker[w].pc = "batch" /\ worker[w].batch # <<>>
      BY <1>9 DEF Claim, At
    <2> DEFINE b == worker[w].batch
    <2>2. b \in Seq(Fetched) /\ b # <<>>  BY <2>1 DEF WorkerState
    <2>3. /\ Head(b) \in Fetched /\ Tail(b) \in Seq(Fetched)
          /\ Len(Tail(b)) <= BatchSize
      BY <2>2, HeadTailProperties, LetterAssumption
    <2>4. First(w) \in Letter  BY <2>3 DEF First, Fetched
    <2>5. /\ row' \in [Letter -> Row]
          /\ UNCHANGED <<due, known, faults, handled, failures, overran, lost>>
      BY <1>9, <2>4, ClaimedTyped DEF Claim
    <2>6. CASE row[First(w)].status = "pending"
      <3> DEFINE s == Takes(w)
      <3>1. /\ s \in WorkerState /\ s.pc = "call" /\ s.batch = Tail(b) /\ s.id \in Letter
        BY <2>1, <2>3 DEF Takes, WorkerState, Fetched
      <3>2. worker' = [worker EXCEPT ![w] = s]  BY <1>9, <2>6 DEF Claim
      <3> HIDE DEF s
      <3> QED  BY <2>3, <2>5, <3>1, <3>2, OneWorker
    <2>7. CASE row[First(w)].status # "pending"
      <3> DEFINE s == [worker[w] EXCEPT !.batch = Tail(b)]
      <3>1. /\ s \in WorkerState /\ s.pc = "batch" /\ s.batch = Tail(b) /\ s.id = NoLetter
        BY <2>1, <2>3 DEF WorkerState, Attending, Mine
      <3>2. worker' = [worker EXCEPT ![w] = s]  BY <1>9, <2>7 DEF Claim
      <3> HIDE DEF s
      <3> QED  BY <2>3, <2>5, <3>1, <3>2, OneWorker
    <2> QED  BY <2>6, <2>7
  <1>10. ASSUME NEW w \in Worker, Unresolved(w) \/ CallbackReturns(w) \/ CallbackRaises(w)
         PROVE  TypeOK' /\ Attending'
    <2>1. PICK verdict \in {"unknown", "success", "failure"} : Ends(w, verdict)
      BY <1>10 DEF Unresolved, CallbackReturns, CallbackRaises
    <2>2. worker[w] \in WorkerState /\ worker[w].pc = "call" /\ Mine(w) \in Letter
      BY <1>10 DEF Unresolved, CallbackReturns, CallbackRaises, At, Attending
    <2> DEFINE s == [worker[w] EXCEPT !.pc = "outcome", !.verdict = verdict]
    <2>3. /\ s \in WorkerState /\ s.pc = "outcome" /\ s.batch = worker[w].batch /\ s.id \in Letter
          /\ s.verdict # "none"
      BY <2>2 DEF WorkerState, Verdict, Mine
    <2>4. worker' = [worker EXCEPT ![w] = s]  BY <2>1 DEF Ends
    <2> HIDE DEF s
    <2>5. handled' \subseteq Letter
      BY <1>10, <2>2 DEF Unresolved, CallbackReturns, CallbackRaises
    <2>7. failures' \in [Letter -> 0..MaxAttempts]
      <3>1. CASE UNCHANGED failures  BY <3>1
      <3>2. CASE CallbackRaises(w)
        <4>1. failures[Mine(w)] \in 0..MaxAttempts  BY <2>2
        <4>2. failures[Mine(w)] < MaxAttempts => failures[Mine(w)] + 1 \in 0..MaxAttempts
          BY <4>1, LetterAssumption
        <4> QED  BY <3>2, <4>1, <4>2 DEF CallbackRaises
      <3> QED  BY <1>10, <3>1, <3>2 DEF Unresolved, CallbackReturns
    <2>6. UNCHANGED <<row, due, known, faults, overran, lost>>
      BY <1>10 DEF Unresolved, CallbackReturns, CallbackRaises
    <2> QED  BY <2>3, <2>4, <2>5, <2>6, <2>7, OneWorker
  <1>11. ASSUME NEW w \in Worker, Record(w) PROVE TypeOK' /\ Attending'
    <2>1. row' \in [Letter -> Row] /\ due' \in Seq(Letter) /\ IsInjective(due')
      BY <1>11, OutcomeTyped DEF Record
    <2> DEFINE s == Next1(w)
    <2>2. worker[w] \in WorkerState  OBVIOUS
    <2>3. s \in WorkerState /\ s.pc = "batch" /\ s.batch = worker[w].batch /\ s.id = NoLetter
      BY <2>2 DEF Next1, WorkerState, Verdict
    <2>4. worker' = [worker EXCEPT ![w] = s]  BY <1>11 DEF Record
    <2> HIDE DEF s
    <2>5. UNCHANGED <<known, faults, handled, failures, overran, lost>>  BY <1>11 DEF Record
    <2> QED  BY <2>1, <2>3, <2>4, <2>5, OneWorker
  <1>12. ASSUME NEW w \in Worker, RecordFails(w) \/ StopWorker(w) PROVE TypeOK' /\ Attending'
    <2>1. PICK pc \in {"idle", "off"} : worker' = [worker EXCEPT ![w] = [Off EXCEPT !.pc = pc]]
      BY <1>12 DEF RecordFails, StopWorker, Off
    <2> DEFINE s == [Off EXCEPT !.pc = pc]
    <2>0. s = [pc |-> pc, batch |-> <<>>, id |-> NoLetter, attempts |-> 0, verdict |-> "none"]
      BY DEF Off
    <2> HIDE DEF s
    <2>2. s \in WorkerState /\ s.pc = pc /\ s.batch = <<>> /\ s.id = NoLetter
      BY <2>0 DEF WorkerState, Verdict
    <2>8. s.pc \notin {"call", "outcome"} /\ worker' = [worker EXCEPT ![w] = s]
      BY <2>1, <2>2 DEF s
    <2>3. Len(s.batch) <= BatchSize  BY <2>2, LetterAssumption
    <2>4. row' \in [Letter -> Row] /\ due' \in Seq(Letter) /\ IsInjective(due')
      <3>1. CASE UNCHANGED <<row, due>>  BY <3>1
      <3>2. CASE row' = Recovered /\ UNCHANGED due  BY <3>2, RecoveredTyped
      <3>3. CASE At(w, "outcome") /\ Outcome(w)  BY <3>3, OutcomeTyped
      <3>4. CASE /\ At(w, "batch") /\ worker[w].batch # <<>>
                 /\ row' = Claimed(First(w)) /\ UNCHANGED due
        <4>1. worker[w].batch \in Seq(Fetched)  BY DEF WorkerState
        <4>2. Head(worker[w].batch) \in Fetched  BY <3>4, <4>1, HeadTailProperties
        <4>3. First(w) \in Letter  BY <4>2 DEF First, Fetched
        <4> QED  BY <3>4, <4>3, ClaimedTyped
      <3> QED  BY <1>12, <3>1, <3>2, <3>3, <3>4 DEF RecordFails, StopWorker
    <2>5. lost' \subseteq Letter
      BY <1>12 DEF RecordFails, StopWorker, Attending, At
    <2>6. faults' \in 0..MaxFaults  BY <1>12, LetterAssumption DEF RecordFails, StopWorker, Fault
    <2>7. UNCHANGED <<known, handled, failures, overran>>  BY <1>12 DEF RecordFails, StopWorker
    <2> QED  BY <2>2, <2>3, <2>4, <2>5, <2>6, <2>7, <2>8, OneWorker
  <1>13. CASE UNCHANGED vars  BY <1>13 DEF vars, Attending, At, Mine
  <1> QED
    BY <1>1, <1>2, <1>3, <1>4, <1>5, <1>6, <1>7, <1>8, <1>9, <1>10, <1>11, <1>12, <1>13
       DEF Next, Progress
------------------------------------------------------------------------------
Safe == OwnRow /\ Finished /\ Counting /\ DeadDeserved

\* What an outcome does to the rows: that of the letter is written, or deleted.
LEMMA OutcomeShape ==
    ASSUME TypeOK, Attending, Counting, NEW w \in Worker, At(w, "outcome"), Outcome(w)
    PROVE  /\ Mine(w) \in Letter /\ row' \in [Letter -> Row]
           /\ \A l \in Letter \ {Mine(w)} : row'[l] = row[l]
           /\ row[Mine(w)].status = "deleted" => row'[Mine(w)].status = "deleted"
           /\ worker[w].verdict = "success" => row'[Mine(w)].status = "deleted"
           /\ Deserved(row'[Mine(w)].attempts, Mine(w))
           /\ row'[Mine(w)].status = "dead" => failures[Mine(w)] = MaxAttempts
  <1>1. Mine(w) \in Letter /\ row' \in [Letter -> Row]  BY OutcomeTyped DEF Attending, At
  <1>2. /\ worker[w].attempts \in Nat /\ row[Mine(w)].attempts \in Nat
        /\ worker[w].verdict \in Verdict \ {"none"}
    BY <1>1 DEF TypeOK, WorkerState, Row, Attending
  <1>3. Deserved(row[Mine(w)].attempts, Mine(w))  BY <1>1 DEF Counting
  <1>4. CASE worker[w].verdict = "success"
    <2>1. row' = [row EXCEPT ![Mine(w)].status = "deleted"]
      BY <1>4 DEF Outcome, Deleted
    <2>2. row[Mine(w)] \in Row  BY <1>1 DEF TypeOK
    <2>3. /\ row'[Mine(w)].status = "deleted"
          /\ row'[Mine(w)].attempts = row[Mine(w)].attempts
          /\ \A l \in Letter \ {Mine(w)} : row'[l] = row[l]
      BY <1>1, <2>1, <2>2 DEF TypeOK, Row
    <2> QED  BY <1>1, <1>3, <2>3
  <1>5. CASE worker[w].verdict = "unknown"
    BY <1>1, <1>3, <1>5 DEF Outcome, Write, TypeOK, Row
  <1>6. CASE worker[w].verdict = "failure"
    <2> DEFINE n == worker[w].attempts + 1
    <2>1. n \in Nat /\ Deserved(n, Mine(w))  BY <1>2, <1>6 DEF Counting
    <2>2. n >= MaxAttempts => failures[Mine(w)] = MaxAttempts
      BY <1>1, <2>1, LetterAssumption DEF Deserved, TypeOK
    <2>3. PICK st \in {"dead", "pending"} :
              Write(Mine(w), st, n) /\ (st = "dead" => n >= MaxAttempts)
      BY <1>6 DEF Outcome
    <2> HIDE DEF n
    <2>4. CASE row[Mine(w)].status = "deleted"  BY <1>1, <1>3, <1>6, <2>3, <2>4 DEF Write
    <2>5. CASE row[Mine(w)].status # "deleted"
      <3>1. row' = [row EXCEPT ![Mine(w)] = [status |-> st, attempts |-> n, stale |-> FALSE]]
        BY <2>3, <2>5 DEF Write
      <3> QED  BY <1>1, <1>6, <2>1, <2>2, <2>3, <2>5, <3>1 DEF TypeOK
    <2> QED  BY <2>4, <2>5
  <1> QED  BY <1>2, <1>4, <1>5, <1>6 DEF Verdict

\* A step after which a worker attends to nothing.
LEMMA Leaving ==
    ASSUME IInv, NEW w \in Worker, NEW s \in WorkerState,
           worker' = [worker EXCEPT ![w] = s], s.id = NoLetter, s.pc # "outcome",
           \A i \in 1..Len(s.batch) : Deserved(s.batch[i].attempts, s.batch[i].id),
           UNCHANGED <<handled, failures, overran>>, lost \subseteq lost',
           \/ UNCHANGED row /\ (At(w, "outcome") => Mine(w) \in lost')
           \/ row' = Recovered /\ Mine(w) = NoLetter
           \/ At(w, "outcome") /\ Outcome(w)
           \/ /\ Mine(w) = NoLetter
              /\ \E l \in Letter : row[l].status = "pending" /\ row' = Claimed(l)
    PROVE  Safe'
  <1> USE DEF IInv
  <1>1. /\ worker'[w] = s /\ Mine(w)' = NoLetter /\ ~At(w, "outcome")'
        /\ \A v \in Worker \ {w} :
             /\ worker'[v] = worker[v] /\ Mine(v)' = Mine(v)
             /\ At(v, "outcome")' <=> At(v, "outcome")
    BY DEF TypeOK, Mine, At
  <1>2. NoLetter \notin Letter  BY LetterAssumption
  <1>3. \A n, l : Deserved(n, l)' <=> Deserved(n, l)  BY DEF Deserved
  <1>4. /\ \A v \in Worker : \A i \in 1..Len(worker'[v].batch) :
              Deserved(worker'[v].batch[i].attempts, worker'[v].batch[i].id)
        /\ \A v \in Worker : Mine(v)' # NoLetter => Deserved(worker'[v].attempts, Mine(v)')
        /\ \A v \in Worker :
             At(v, "outcome")' /\ worker'[v].verdict = "failure" =>
                 Deserved(worker'[v].attempts + 1, Mine(v)')
    BY <1>1 DEF Counting
  <1>5. Mine(w) # NoLetter => Mine(w) \in Letter  BY DEF Attending
  <1>6. At(w, "outcome") => Mine(w) \in Letter  BY DEF Attending, At
  <1>7. CASE UNCHANGED row /\ (At(w, "outcome") => Mine(w) \in lost')
    <2>1. OwnRow'  BY <1>1, <1>2, <1>7 DEF OwnRow
    <2>2. Finished'  BY <1>1, <1>7 DEF Finished
    <2>3. Counting'  BY <1>3, <1>4, <1>7 DEF Counting
    <2>4. DeadDeserved'  BY <1>7 DEF DeadDeserved
    <2> QED  BY <2>1, <2>2, <2>3, <2>4 DEF Safe
  <1>8. CASE row' = Recovered /\ Mine(w) = NoLetter
    <2>0. \A l \in Letter :
             /\ row'[l].attempts = row[l].attempts
             /\ row[l].status # "in_progress" \/ ~row[l].stale => row'[l] = row[l]
             /\ row'[l] # row[l] => row'[l].status = "pending"
      BY <1>8 DEF Recovered, TypeOK, Row
    <2>1. OwnRow'  BY <1>1, <1>2, <2>0 DEF OwnRow
    <2>2. Finished'
      <3> SUFFICES ASSUME NEW l \in handled \ (overran \cup lost), row'[l].status # "deleted"
                   PROVE  \E v \in Worker : /\ At(v, "outcome")' /\ Mine(v)' = l
                                            /\ worker'[v].verdict = "success"
        BY DEF Finished
      <3>1. l \in Letter /\ ~At(w, "outcome")  BY <1>2, <1>6, <1>8 DEF TypeOK
      <3>3. row[l].status # "in_progress" => row'[l] = row[l]  BY <2>0, <3>1
      <3>4. row[l].status # "deleted"  BY <3>3
      <3> QED  BY <1>1, <3>1, <3>4 DEF Finished
    <2>3. Counting'  BY <1>3, <1>4, <2>0 DEF Counting
    <2>4. DeadDeserved'  BY <2>0 DEF DeadDeserved
    <2> QED  BY <2>1, <2>2, <2>3, <2>4 DEF Safe
  <1>9. CASE At(w, "outcome") /\ Outcome(w)
    <2>0. /\ Mine(w) \in Letter
          /\ \A l \in Letter \ {Mine(w)} : row'[l] = row[l]
          /\ row[Mine(w)].status = "deleted" => row'[Mine(w)].status = "deleted"
          /\ worker[w].verdict = "success" => row'[Mine(w)].status = "deleted"
          /\ Deserved(row'[Mine(w)].attempts, Mine(w))
          /\ row'[Mine(w)].status = "dead" => failures[Mine(w)] = MaxAttempts
      BY <1>9, OutcomeShape
    <2>1. OwnRow'  BY <1>1, <1>2, <2>0 DEF OwnRow
    <2>2. Finished'  BY <1>1, <2>0 DEF Finished, TypeOK
    <2>3. Counting'  BY <1>3, <1>4, <2>0 DEF Counting
    <2>4. DeadDeserved'  BY <2>0 DEF DeadDeserved
    <2> QED  BY <2>1, <2>2, <2>3, <2>4 DEF Safe
  <1>10. CASE /\ Mine(w) = NoLetter
              /\ \E l \in Letter : row[l].status = "pending" /\ row' = Claimed(l)
    <2>0. PICK x \in Letter : row[x].status = "pending" /\ row' = Claimed(x)  BY <1>10
    <2>8. row[x] \in Row  BY DEF TypeOK
    <2>9. /\ row'[x].attempts = row[x].attempts /\ row'[x].status = "in_progress"
          /\ \A l \in Letter \ {x} : row'[l] = row[l]
      BY <2>0, <2>8 DEF Claimed, TypeOK, Row
    <2>1. OwnRow'  BY <1>1, <1>2, <2>0, <2>9 DEF OwnRow
    <2>2. Finished'
      <3>1. handled' \subseteq Letter /\ ~At(w, "outcome")  BY <1>2, <1>6, <1>10 DEF TypeOK
      <3>2. SUFFICES ASSUME NEW l \in handled \ (overran \cup lost), row'[l].status # "deleted"
                     PROVE  \E v \in Worker : /\ At(v, "outcome")' /\ Mine(v)' = l
                                              /\ worker'[v].verdict = "success"
        BY DEF Finished
      <3>3. row[l].status # "deleted"  BY <2>0, <2>9, <3>1, <3>2
      <3> QED  BY <1>1, <3>1, <3>3 DEF Finished
    <2>3. Counting'  BY <1>3, <1>4, <2>9 DEF Counting
    <2>4. DeadDeserved'  BY <2>9 DEF DeadDeserved
    <2> QED  BY <2>1, <2>2, <2>3, <2>4 DEF Safe
  <1> QED  BY <1>7, <1>8, <1>9, <1>10

\* The head of a worker's batch, and what remains.
LEMMA BatchShape ==
    ASSUME TypeOK, Counting, NEW w \in Worker, worker[w].batch # <<>>
    PROVE  LET f == Head(worker[w].batch)
               b == Tail(worker[w].batch)
           IN  /\ f \in Fetched /\ Deserved(f.attempts, f.id) /\ First(w) = f.id
               /\ b \in Seq(Fetched)
               /\ \A i \in 1..Len(b) : Deserved(b[i].attempts, b[i].id)
  <1> DEFINE q == worker[w].batch
  <1>1. q \in Seq(Fetched) /\ Len(q) \in Nat /\ q # <<>>  BY DEF TypeOK, WorkerState
  <1>2. /\ Head(q) \in Fetched /\ Tail(q) \in Seq(Fetched) /\ Len(Tail(q)) = Len(q) - 1
        /\ Head(q) = q[1] /\ Len(q) >= 1
        /\ \A i \in 1..Len(Tail(q)) : Tail(q)[i] = q[i + 1]
    BY <1>1, HeadTailProperties
  <1>3. \A i \in 1..Len(q) : Deserved(q[i].attempts, q[i].id)  BY DEF Counting
  <1>4. Deserved(Head(q).attempts, Head(q).id)  BY <1>1, <1>2, <1>3
  <1>5. \A i \in 1..Len(Tail(q)) : Deserved(Tail(q)[i].attempts, Tail(q)[i].id)
    BY <1>1, <1>2, <1>3
  <1> QED  BY <1>2, <1>4, <1>5 DEF First

LEMMA SafeStep ==
    ASSUME IInv, [Next]_vars
    PROVE  Safe'
  <1> USE DEF IInv
  <1>0. NoLetter \notin Letter /\ \A w \in Worker : Mine(w) # NoLetter => Mine(w) \in Letter
    BY LetterAssumption DEF Attending
  <1>1. ASSUME NEW l \in Letter, Enqueue(l) PROVE Safe'
    <2>1. row[l].status = "absent" /\ UNCHANGED <<worker, handled, failures, overran, lost>>
      BY <1>1 DEF Enqueue
    <2>2. /\ row'[l] = [status |-> "pending", attempts |-> 0, stale |-> FALSE]
          /\ \A k \in Letter \ {l} : row'[k] = row[k]
      BY <1>1, <2>1 DEF Enqueue, Write, TypeOK
    <2>3. OwnRow'  BY <2>1, <2>2 DEF OwnRow, Mine
    <2>4. Finished'  BY <2>1, <2>2 DEF Finished, Mine, At, TypeOK
    <2>5. Deserved(0, l)  BY DEF Deserved, TypeOK
    <2>6. Counting'  BY <2>1, <2>2, <2>5 DEF Counting, Deserved, Mine, At
    <2>7. DeadDeserved'  BY <2>1, <2>2 DEF DeadDeserved
    <2> QED  BY <2>3, <2>4, <2>6, <2>7 DEF Safe
  <1>2. ASSUME UNCHANGED <<row, worker, handled, failures, overran, lost>> PROVE Safe'
    BY <1>2 DEF Safe, OwnRow, Finished, Counting, DeadDeserved, Deserved, Mine, At
  <1>3. ASSUME NEW l \in Letter, BecomeStale(l) PROVE Safe'
    <2>1. UNCHANGED <<worker, handled, failures, lost>>  BY <1>3 DEF BecomeStale
    <2>2. row[l].status = "in_progress" /\ row[l] \in Row  BY <1>3 DEF BecomeStale, TypeOK
    <2>3. /\ row'[l].status = row[l].status /\ row'[l].attempts = row[l].attempts
          /\ \A k \in Letter \ {l} : row'[k] = row[k]
      BY <1>3, <2>2 DEF BecomeStale, TypeOK, Row
    <2>4. overran \subseteq overran' /\ ((\E w \in Worker : Mine(w) = l) => l \in overran')
      BY <1>3 DEF BecomeStale
    <2>5. OwnRow'  BY <2>1, <2>3, <2>4 DEF OwnRow, Mine
    <2>6. Finished'
      <3> SUFFICES ASSUME NEW k \in handled \ (overran \cup lost), row'[k].status # "deleted"
                   PROVE  \E w \in Worker : /\ At(w, "outcome") /\ Mine(w) = k
                                            /\ worker[w].verdict = "success"
        BY <2>1, <2>4 DEF Finished, Mine, At
      <3>1. k \in Letter  BY DEF TypeOK
      <3>2. row[k].status # "deleted"  BY <2>3, <3>1
      <3> QED  BY <3>2 DEF Finished
    <2>7. Counting'  BY <2>1, <2>3 DEF Counting, Deserved, Mine, At
    <2>8. DeadDeserved'  BY <2>1, <2>3 DEF DeadDeserved
    <2> QED  BY <2>5, <2>6, <2>7, <2>8 DEF Safe
  <1>4. ASSUME NEW w \in Worker, Start(w) \/ Recover(w) \/ RecoverFails(w) PROVE Safe'
    <2>1. PICK pc \in {"recover", "idle", "failed"} : worker' = [worker EXCEPT ![w].pc = pc]
      BY <1>4 DEF Start, Recover, RecoverFails
    <2>2. worker[w] \in WorkerState /\ worker[w].pc \in {"off", "recover"}
      BY <1>4 DEF Start, Recover, RecoverFails, At, TypeOK
    <2> DEFINE s == [worker[w] EXCEPT !.pc = pc]
    <2>3. s \in WorkerState /\ s.pc = pc /\ s.batch = worker[w].batch /\ s.id = NoLetter
      BY <2>2 DEF WorkerState, Attending, Mine
    <2>4. worker' = [worker EXCEPT ![w] = s]  BY <2>1 DEF TypeOK
    <2> HIDE DEF s
    <2>5. \A i \in 1..Len(s.batch) : Deserved(s.batch[i].attempts, s.batch[i].id)
      BY <2>3 DEF Counting
    <2>6. Mine(w) = NoLetter /\ ~At(w, "outcome")  BY <2>2 DEF Attending, At
    <2>7. /\ UNCHANGED <<handled, failures, overran, lost>>
          /\ UNCHANGED row \/ row' = Recovered
      BY <1>4 DEF Start, Recover, RecoverFails
    <2> QED  BY <2>3, <2>4, <2>5, <2>6, <2>7, Leaving
  <1>5. ASSUME NEW w \in Worker, Fetch(w) PROVE Safe'
    <2>1. ReadsFirst(w, Pending) /\ Pending \in SUBSET Letter  BY <1>5 DEF Fetch, Pending
    <2>2. PICK rows \in Seq(Pending) :
              worker' = [worker EXCEPT ![w] = [@ EXCEPT
                  !.pc = "batch",
                  !.batch = [i \in 1..Len(rows) |->
                                [id |-> rows[i], attempts |-> row[rows[i]].attempts]]]]
      BY <2>1, ReadsTyped
    <2>3. worker[w] \in WorkerState /\ worker[w].pc = "idle"  BY <1>5 DEF Fetch, At, TypeOK
    <2> DEFINE n == Len(rows)
               b == [i \in 1..n |-> [id |-> rows[i], attempts |-> row[rows[i]].attempts]]
               s == [worker[w] EXCEPT !.pc = "batch", !.batch = b]
    <2>4. n \in Nat /\ \A i \in 1..n : rows[i] \in Letter  BY <2>1, <2>2
    <2>5. b \in [1..n -> Fetched]  BY <2>4 DEF Fetched, TypeOK, Row
    <2>6. b \in Seq(Fetched) /\ Len(b) = n  BY <2>4, <2>5
    <2>7. \A i \in 1..n : Deserved(b[i].attempts, b[i].id)  BY <2>4 DEF Counting
    <2>8. worker' = [worker EXCEPT ![w] = s]  BY <2>2
    <2> HIDE DEF b
    <2>9. s \in WorkerState /\ s.pc = "batch" /\ s.batch = b /\ s.id = NoLetter
      BY <2>3, <2>6 DEF WorkerState, Attending, Mine
    <2> HIDE DEF s, n
    <2>10. Mine(w) = NoLetter /\ ~At(w, "outcome")  BY <2>3 DEF Attending, At
    <2>11. UNCHANGED <<row, handled, failures, overran, lost>>  BY <1>5 DEF Fetch
    <2> QED  BY <2>6, <2>7, <2>8, <2>9, <2>10, <2>11, Leaving
  <1>6. ASSUME NEW w \in Worker, BatchEnds(w) \/ ClaimFails(w) PROVE Safe'
    <2>1. worker[w] \in WorkerState /\ worker[w].pc = "batch"
      BY <1>6 DEF BatchEnds, ClaimFails, At, TypeOK
    <2> DEFINE s == [worker[w] EXCEPT !.pc = "idle", !.batch = <<>>]
    <2>0. <<>> \in Seq(Fetched)  OBVIOUS
    <2>2. s \in WorkerState /\ s.pc = "idle" /\ s.batch = <<>> /\ s.id = NoLetter
      BY <2>0, <2>1 DEF WorkerState, Attending, Mine
    <2>3. worker' = [worker EXCEPT ![w] = s]
      BY <1>6, <2>1 DEF BatchEnds, ClaimFails, WorkerState
    <2> HIDE DEF s
    <2>4. Mine(w) = NoLetter /\ ~At(w, "outcome")  BY <2>1 DEF Attending, At
    <2>5. UNCHANGED <<row, handled, failures, overran, lost>>  BY <1>6 DEF BatchEnds, ClaimFails
    <2>6. \A i \in 1..Len(s.batch) : Deserved(s.batch[i].attempts, s.batch[i].id)  BY <2>2
    <2> QED  BY <2>2, <2>3, <2>4, <2>5, <2>6, Leaving
  <1>7. ASSUME NEW w \in Worker, Record(w) PROVE Safe'
    <2>1. worker[w] \in WorkerState /\ At(w, "outcome") /\ Outcome(w)
      BY <1>7 DEF Record, TypeOK
    <2> DEFINE s == Next1(w)
    <2>2. s \in WorkerState /\ s.pc = "batch" /\ s.batch = worker[w].batch /\ s.id = NoLetter
      BY <2>1 DEF Next1, WorkerState, Verdict
    <2>3. worker' = [worker EXCEPT ![w] = s] /\ UNCHANGED <<handled, failures, overran, lost>>
      BY <1>7 DEF Record
    <2> HIDE DEF s
    <2>4. \A i \in 1..Len(s.batch) : Deserved(s.batch[i].attempts, s.batch[i].id)
      BY <2>2 DEF Counting
    <2> QED  BY <2>1, <2>2, <2>3, <2>4, Leaving
  <1>8. ASSUME NEW w \in Worker, RecordFails(w) \/ StopWorker(w) PROVE Safe'
    <2>1. PICK pc \in {"idle", "off"} : worker' = [worker EXCEPT ![w] = [Off EXCEPT !.pc = pc]]
      BY <1>8 DEF RecordFails, StopWorker, Off
    <2> DEFINE s == [Off EXCEPT !.pc = pc]
    <2>2. s = [pc |-> pc, batch |-> <<>>, id |-> NoLetter, attempts |-> 0, verdict |-> "none"]
      BY DEF Off
    <2>3. worker' = [worker EXCEPT ![w] = s]  BY <2>1
    <2> HIDE DEF s
    <2>4. s \in WorkerState /\ s.pc = pc /\ s.batch = <<>> /\ s.id = NoLetter
      BY <2>2 DEF WorkerState, Verdict
    <2>5. s.pc # "outcome" /\ \A i \in 1..Len(s.batch) : Deserved(s.batch[i].attempts, s.batch[i].id)
      BY <2>4
    <2>6. UNCHANGED <<handled, failures, overran>> /\ lost \subseteq lost'
      BY <1>8 DEF RecordFails, StopWorker
    <2>7. CASE UNCHANGED row /\ (At(w, "outcome") => Mine(w) \in lost')
      BY <2>3, <2>4, <2>5, <2>6, <2>7, Leaving
    <2>8. CASE At(w, "recover") /\ row' = Recovered
      <3>1. Mine(w) = NoLetter  BY <2>8 DEF Attending, At
      <3> QED  BY <2>3, <2>4, <2>5, <2>6, <2>8, <3>1, Leaving
    <2>9. CASE At(w, "outcome") /\ Outcome(w)  BY <2>3, <2>4, <2>5, <2>6, <2>9, Leaving
    <2>10. CASE /\ At(w, "batch") /\ worker[w].batch # <<>> /\ row[First(w)].status = "pending"
                /\ row' = Claimed(First(w))
      <3>1. Mine(w) = NoLetter  BY <2>10 DEF Attending, At
      <3>2. First(w) \in Letter  BY <2>10, BatchShape DEF Fetched
      <3> QED  BY <2>3, <2>4, <2>5, <2>6, <2>10, <3>1, <3>2, Leaving
    <2> QED  BY <1>8, <2>7, <2>8, <2>9, <2>10 DEF RecordFails, StopWorker
  <1>9. ASSUME NEW w \in Worker, Claim(w) PROVE Safe'
    <2> DEFINE f == Head(worker[w].batch)
               b == Tail(worker[w].batch)
    <2>1. worker[w] \in WorkerState /\ worker[w].pc = "batch" /\ worker[w].batch # <<>>
      BY <1>9 DEF Claim, At, TypeOK
    <2>2. /\ f \in Fetched /\ Deserved(f.attempts, f.id) /\ First(w) = f.id
          /\ b \in Seq(Fetched)
          /\ \A i \in 1..Len(b) : Deserved(b[i].attempts, b[i].id)
      BY <2>1, BatchShape
    <2>3. Mine(w) = NoLetter /\ ~At(w, "outcome")  BY <2>1 DEF Attending, At
    <2>4. UNCHANGED <<handled, failures, overran, lost>>  BY <1>9 DEF Claim
    <2>5. CASE row[First(w)].status # "pending"
      <3> DEFINE s == [worker[w] EXCEPT !.batch = b]
      <3>1. s \in WorkerState /\ s.pc = "batch" /\ s.batch = b /\ s.id = NoLetter
        BY <2>1, <2>2, <2>3 DEF WorkerState, Mine
      <3>2. worker' = [worker EXCEPT ![w] = s] /\ UNCHANGED row  BY <1>9, <2>5 DEF Claim
      <3> HIDE DEF s
      <3> QED  BY <2>2, <2>3, <2>4, <3>1, <3>2, Leaving
    <2>6. CASE row[First(w)].status = "pending"
      <3> DEFINE s == Takes(w)
                 x == First(w)
      <3>1. x \in Letter /\ row[x] \in Row  BY <2>2 DEF Fetched, TypeOK
      <3>2. /\ s.pc = "call" /\ s.batch = b /\ s.id = x /\ s.attempts = f.attempts
        BY <2>1, <2>2 DEF Takes, WorkerState
      <3>3. worker' = [worker EXCEPT ![w] = s] /\ row' = Claimed(x)  BY <1>9, <2>6 DEF Claim
      <3> HIDE DEF s, x
      <3>4. /\ row'[x].status = "in_progress" /\ ~row'[x].stale
            /\ row'[x].attempts = row[x].attempts
            /\ \A l \in Letter \ {x} : row'[l] = row[l]
        BY <3>1, <3>3 DEF Claimed, TypeOK, Row
      <3>5. /\ worker'[w] = s /\ Mine(w)' = x /\ ~At(w, "outcome")'
            /\ \A v \in Worker \ {w} :
                 /\ worker'[v] = worker[v] /\ Mine(v)' = Mine(v)
                 /\ At(v, "outcome")' <=> At(v, "outcome")
        BY <3>2, <3>3 DEF TypeOK, Mine, At
      <3>6. row[x].status = "pending"  BY <2>6 DEF x
      <3>7. OwnRow'
        <4> SUFFICES ASSUME NEW l \in Letter \ overran, NEW v \in Worker, Mine(v)' = l
                     PROVE  /\ row'[l].status = "in_progress" /\ ~row'[l].stale
                            /\ \A u \in Worker : Mine(u)' = l => u = v
          BY <2>4 DEF OwnRow
        <4>1. CASE l = x  BY <4>1, <3>4, <3>5, <3>6 DEF OwnRow
        <4>2. CASE l # x  BY <4>2, <3>4, <3>5 DEF OwnRow
        <4> QED  BY <4>1, <4>2
      <3>8. Finished'
        <4> SUFFICES ASSUME NEW l \in handled \ (overran \cup lost), row'[l].status # "deleted"
                     PROVE  \E v \in Worker : /\ At(v, "outcome")' /\ Mine(v)' = l
                                              /\ worker'[v].verdict = "success"
          BY <2>4 DEF Finished
        <4>1. row[l].status # "deleted"  BY <3>4, <3>6 DEF TypeOK
        <4> QED  BY <2>3, <3>5, <4>1 DEF Finished
      <3>9. \A n, l : Deserved(n, l)' <=> Deserved(n, l)  BY <2>4 DEF Deserved
      <3>10. Counting'  BY <2>2, <3>2, <3>4, <3>5, <3>9 DEF Counting, x
      <3>11. DeadDeserved'  BY <2>4, <3>4 DEF DeadDeserved
      <3> QED  BY <3>7, <3>8, <3>10, <3>11 DEF Safe
    <2> QED  BY <2>5, <2>6
  <1>10. ASSUME NEW w \in Worker, Unresolved(w) \/ CallbackReturns(w) \/ CallbackRaises(w)
         PROVE  Safe'
    <2>1. PICK verdict \in {"unknown", "success", "failure"} :
              /\ Ends(w, verdict)
              /\ handled' = IF verdict = "success" THEN handled \cup {Mine(w)} ELSE handled
              /\ failures' = IF verdict = "failure"
                             THEN [failures EXCEPT ![Mine(w)] = IF @ < MaxAttempts THEN @ + 1 ELSE @]
                             ELSE failures
      BY <1>10 DEF Unresolved, CallbackReturns, CallbackRaises
    <2>2. worker[w] \in WorkerState /\ At(w, "call") /\ worker[w].pc = "call"
      BY <1>10 DEF Unresolved, CallbackReturns, CallbackRaises, At, TypeOK
    <2>3. Mine(w) \in Letter /\ worker[w].attempts \in Nat
      BY <2>2 DEF Attending, WorkerState
    <2>4. UNCHANGED <<row, overran, lost>>
      BY <1>10 DEF Unresolved, CallbackReturns, CallbackRaises
    <2>5. /\ worker'[w].id = Mine(w) /\ worker'[w].pc = "outcome" /\ worker'[w].verdict = verdict
          /\ worker'[w].batch = worker[w].batch /\ worker'[w].attempts = worker[w].attempts
          /\ \A v \in Worker \ {w} : worker'[v] = worker[v]
      BY <2>1, <2>2 DEF Ends, Mine, TypeOK, WorkerState
    <2>6. /\ \A v \in Worker : Mine(v)' = Mine(v)
          /\ At(w, "outcome")'
          /\ \A v \in Worker \ {w} : At(v, "outcome")' <=> At(v, "outcome")
      BY <2>5 DEF Mine, At
    <2>7. OwnRow'  BY <2>4, <2>6 DEF OwnRow
    <2>8. Finished'
      <3> SUFFICES ASSUME NEW l \in handled' \ (overran \cup lost), row[l].status # "deleted"
                   PROVE  \E v \in Worker : /\ At(v, "outcome")' /\ Mine(v)' = l
                                            /\ worker'[v].verdict = "success"
        BY <2>4 DEF Finished
      <3>1. CASE verdict = "success" /\ l = Mine(w)  BY <3>1, <2>5, <2>6
      <3>2. CASE l \in handled
        <4>1. PICK v \in Worker : /\ At(v, "outcome") /\ Mine(v) = l
                                  /\ worker[v].verdict = "success"
          BY <3>2 DEF Finished
        <4>2. v # w  BY <2>2, <4>1 DEF At
        <4> QED  BY <4>1, <4>2, <2>5, <2>6
      <3> QED  BY <2>1, <3>1, <3>2
    <2>9. \A n \in Nat, l \in Letter : Deserved(n, l) => Deserved(n, l)'
      BY <2>1, <2>3, LetterAssumption DEF Deserved, TypeOK
    <2>10. verdict = "failure" => Deserved(worker[w].attempts + 1, Mine(w))'
      <3>1. Deserved(worker[w].attempts, Mine(w))  BY <1>0, <2>3 DEF Counting
      <3>2. failures[Mine(w)] \in 0..MaxAttempts  BY <2>3 DEF TypeOK
      <3>3. verdict = "failure" =>
              failures'[Mine(w)] = IF failures[Mine(w)] < MaxAttempts
                                   THEN failures[Mine(w)] + 1 ELSE failures[Mine(w)]
        BY <2>1, <2>3 DEF TypeOK
      <3> QED  BY <2>3, <2>5, <2>6, <3>1, <3>2, <3>3, LetterAssumption DEF Deserved
    <2>11. Counting'
      <3>1. \A l \in Letter : Deserved(row[l].attempts, l)'
        BY <2>4, <2>9 DEF Counting, TypeOK, Row
      <3>2. ASSUME NEW v \in Worker, NEW i \in 1..Len(worker'[v].batch)
            PROVE  Deserved(worker[v].batch[i].attempts, worker[v].batch[i].id)'
        <4>1. worker'[v].batch = worker[v].batch  BY <2>5
        <4>2. worker[v].batch[i] \in Fetched  BY <4>1 DEF TypeOK, WorkerState
        <4>3. Deserved(worker[v].batch[i].attempts, worker[v].batch[i].id)  BY <4>1 DEF Counting
        <4> QED  BY <4>1, <4>2, <4>3, <2>9 DEF Fetched, Deserved
      <3>3. ASSUME NEW v \in Worker, Mine(v)' # NoLetter
            PROVE  Deserved(worker[v].attempts, Mine(v))'
        <4>1. Mine(v) \in Letter /\ Mine(v)' = Mine(v)  BY <3>3, <1>0, <2>6
        <4>2. worker'[v].attempts = worker[v].attempts /\ worker[v].attempts \in Nat
          BY <2>5 DEF TypeOK, WorkerState
        <4>3. Deserved(worker[v].attempts, Mine(v))  BY <4>1, <1>0 DEF Counting
        <4> QED  BY <4>1, <4>2, <4>3, <2>9 DEF Deserved
      <3>4. ASSUME NEW v \in Worker, At(v, "outcome")', worker'[v].verdict = "failure"
            PROVE  Deserved(worker[v].attempts + 1, Mine(v))'
        <4>1. CASE v = w  BY <4>1, <3>4, <2>5, <2>6, <2>10 DEF Deserved
        <4>2. CASE v # w
          <5>1. At(v, "outcome") /\ worker[v].verdict = "failure" /\ worker'[v] = worker[v]
            BY <3>4, <4>2, <2>5, <2>6
          <5>2. Mine(v) \in Letter /\ worker[v].attempts + 1 \in Nat /\ Mine(v)' = Mine(v)
            BY <5>1, <2>6 DEF Attending, At, TypeOK, WorkerState
          <5>3. Deserved(worker[v].attempts + 1, Mine(v))  BY <5>1 DEF Counting
          <5> QED  BY <5>1, <5>2, <5>3, <2>9 DEF Deserved
        <4> QED  BY <4>1, <4>2
      <3> QED  BY <3>1, <3>2, <3>3, <3>4 DEF Counting
    <2>12. DeadDeserved'
      BY <2>1, <2>3, <2>4, LetterAssumption DEF DeadDeserved, TypeOK
    <2> QED  BY <2>7, <2>8, <2>11, <2>12 DEF Safe
  <1>11. CASE UNCHANGED vars  BY <1>2, <1>11 DEF vars
  <1>12. ASSUME NEW l \in Letter, Register(l) \/ BecomeDue(l) PROVE Safe'
    BY <1>2, <1>12 DEF Register, BecomeDue
  <1> QED
    BY <1>1, <1>3, <1>4, <1>5, <1>6, <1>7, <1>8, <1>9, <1>10, <1>11, <1>12
       DEF Next, Progress

LEMMA Inductive == Spec => []IInv
  <1>1. Init => IInv
    <2> SUFFICES ASSUME Init PROVE IInv  OBVIOUS
    <2>1. TypeOK /\ Attending  BY InitType
    <2>2. /\ \A l \in Letter : row[l].status = "absent" /\ row[l].attempts = 0 /\ failures[l] = 0
          /\ \A w \in Worker : worker[w].pc = "off" /\ worker[w].id = NoLetter
                               /\ worker[w].batch = <<>>
          /\ handled = {}
      BY DEF Init, Off
    <2>3. OwnRow  BY <2>2, LetterAssumption DEF OwnRow, Mine
    <2>4. Counting /\ Finished /\ DeadDeserved
      BY <2>2 DEF Counting, Finished, DeadDeserved, Deserved, Mine, At
    <2> QED  BY <2>1, <2>3, <2>4 DEF IInv
  <1>2. IInv /\ [Next]_vars => IInv'  BY TypeStep, SafeStep DEF IInv, Safe
  <1> QED  BY <1>1, <1>2, PTL DEF Spec

\* Rows, batches and workers have their types.
THEOREM TypeCorrect == Spec => []TypeOK
  BY Inductive, PTL DEF IInv

\* No two workers await the callback of a letter at the same time, unless it was once
\* under way for 60 s: the claim's "AND status = 'pending'" is what keeps them apart.
THEOREM OneDispatch == Spec => []NoDoubleDispatch
  <1>1. IInv => NoDoubleDispatch
    <2> SUFFICES ASSUME IInv, NEW l \in Letter \ overran PROVE Cardinality(Calling(l)) <= 1
      BY DEF NoDoubleDispatch
    <2>1. \A v, w \in Calling(l) : v = w  BY DEF IInv, OwnRow, Calling
    <2>2. CASE Calling(l) = {}  BY <2>2, FS_EmptySet
    <2>3. CASE Calling(l) # {}
      <3>1. PICK w : w \in Calling(l)  BY <2>3
      <3>2. Calling(l) = {w}  BY <2>1, <3>1
      <3> QED  BY <3>2, FS_Singleton
    <2> QED  BY <2>2, <2>3
  <1> QED  BY Inductive, <1>1, PTL

\* A letter whose callback has returned is not tried again, unless its row was taken
\* back or its deletion was not recorded.
THEOREM HandledOnce == Spec => []NotRepeated
  <1>1. IInv => NotRepeated
    <2> SUFFICES ASSUME IInv, NEW l \in handled \ (overran \cup lost), NEW w \in Calling(l)
                 PROVE  FALSE
      BY DEF NotRepeated
    <2>1. l \in Letter \ overran /\ w \in Worker /\ At(w, "call") /\ Mine(w) = l
      BY DEF IInv, TypeOK, Calling
    <2>2. row[l].status = "in_progress" /\ \A v \in Worker : Mine(v) = l => v = w
      BY <2>1 DEF IInv, OwnRow
    <2> QED  BY <2>1, <2>2 DEF IInv, Finished, At
  <1> QED  BY Inductive, <1>1, PTL

\* A letter is dead only after MaxAttempts failures, though its attempts are written
\* from what was read before the claim.
THEOREM GivenUpForCause == Spec => []DeadDeserved
  BY Inductive, PTL DEF IInv

=============================================================================
