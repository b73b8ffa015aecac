-------------------------- MODULE AgentChatProofs --------------------------
(***************************************************************************)
(* That no request parts a tool's use from its results, and that each one  *)
(* shows the question it is to answer, for any number of chats, calls and  *)
(* rounds, and whatever the budget makes of a history.                     *)
(*                                                                         *)
(* A chat whose calls come one after the other has a beat: what the        *)
(* assistant says follows what it is told (Beat).  Counted from the end of *)
(* a history, which a window keeps, an even window begins with what the    *)
(* assistant said, and so never with results that have lost their use.     *)
(***************************************************************************)
EXTENDS AgentChat, FoldTheorems, SequenceTheorems

\* max_context is 20 (router.py:44), messages_to_preserve 6 (token_budget.py:45).
EvenWindows == MaxContext % 2 = 0 /\ Preserve % 2 = 0

\* MAX_TOOL_ROUNDS is 10 (router.py:45): the question and what the rounds before the
\* last have added are no more than a window holds.
RoundsFit == 2 * MaxRounds <= MaxContext + 1

Told(m) == m.is \in {"question", "results"}

Linked(a, b) ==
    /\ a.is = "use" <=> b.is = "results"
    /\ a.is = "use" => b.by = a.by /\ b.round = a.round

\* Behind k summaries, turns alternate, and every (Len(s) - z)-th is told.
Beat(s, k, z) ==
    /\ k \in 0..Len(s)
    /\ \A i \in 1..Len(s) : i <= k => s[i].is = "summary"
    /\ \A i \in 1..Len(s) :
           i > k => s[i].is # "summary" /\ (Told(s[i]) <=> (Len(s) - i) % 2 = z)
    /\ \A i \in 1..Len(s) : i > k /\ i < Len(s) => Linked(s[i], s[i + 1])
    /\ \A i \in 1..Len(s) : i = k + 1 => s[i].is # "results"

EndsWith(s, m) == Len(s) > 0 /\ s[Len(s)] = m

Question(c) == [by |-> c, round |-> 0, is |-> "question"]

Telling == {"check", "lock", "asking", "answer"}
Using == {"tools", "results"}
InChat(r) == r.pc \in {"load"} \cup Telling \cup Using
Use(c, r) == [by |-> c, round |-> r.round, is |-> "use"]

\* What the place of a call, r, says of its chat's history ...
Recorded(c, r, h) ==
    /\ r.pc = "load" => Beat(h, 0, 0) /\ EndsWith(h, Question(c))
    /\ r.pc \in Telling => Beat(h, 0, 0)
    /\ r.pc \in Using => Beat(h, 0, 1) /\ EndsWith(h, Use(c, r))

\* ... and of its messages.
Window(c, r) ==
    /\ r.pc \in Telling => \E k \in 0..Len(r.messages) : Beat(r.messages, k, 0)
    /\ r.pc \in Using =>
           /\ \E k \in 0..Len(r.messages) : Beat(r.messages, k, 1)
           /\ EndsWith(r.messages, Use(c, r))

\* Two messages a round since the question.
Back(r) == 2 * r.round + (IF r.pc \in Using THEN 1 ELSE 0)
Since(c, r) ==
    r.pc \in Telling \cup Using /\ ~r.cut =>
        Len(r.messages) > Back(r) /\ r.messages[Len(r.messages) - Back(r)] = Question(c)

InRhythm(c, r, h) ==
    Recorded(c, r, h) /\ (EvenWindows => Window(c, r)) /\ (RoundsFit => Since(c, r))

\* A history that waits for the next question.
Quiet(h) == Beat(h, 0, 1) /\ (Len(h) > 0 => h[Len(h)].is = "text")

Whole(c) == ChatOf[c] \notin broken
Others(c) == \A d \in Call \ {c} : ChatOf[d] = ChatOf[c] => ~Active(d)

Rounds ==
    \A c \in Call :
        /\ call[c].round < MaxRounds
        /\ call[c].pc \in {"idle", "save", "load"} => call[c].round = 0

Rhythm ==
    /\ \A c \in Call : Whole(c) /\ Active(c) => Others(c)
    /\ \A k \in Chat :
           k \notin broken /\ (\A c \in Call : ChatOf[c] = k => ~InChat(call[c]))
               => Quiet(history[k])
    /\ \A c \in Call : Whole(c) => InRhythm(c, call[c], history[ChatOf[c]])

IInv == TypeOK /\ Rounds /\ Rhythm

------------------------------------------------------------------------------
\* A fold over messages, message by message.
LEMMA ThoseSteps ==
    ASSUME NEW s \in Seq(Message), NEW system \in BOOLEAN
    PROVE  \E f \in [0..Len(s) -> Seq(Message)] :
               /\ f[0] = <<>> /\ f[Len(s)] = Those(s, system)
               /\ \A i \in 1..Len(s) :
                      f[i] = IF (s[i].is = "summary") = system
                             THEN Append(f[i - 1], s[i]) ELSE f[i - 1]
  <1> DEFINE T == Seq(Message)
             Keep(t, m) == IF (m.is = "summary") = system THEN Append(t, m) ELSE t
             n == Len(s)
             D == DOMAIN s
             it == CHOOSE g : g = [t \in SUBSET D |->
                       IF t = {} THEN <<>> ELSE Keep(g[t \ {Max(t)}], s[Max(t)])]
             step == [x \in (1..n) \X T |-> Keep(x[2], s[x[1]])]
  <1>1. Those(s, system) = it[D]  BY DEF Those, FoldLeft, MapThenFoldSet
  <1>2. n \in Nat /\ D = 1..n /\ \A i \in 1..n : s[i] \in Message  OBVIOUS
  <1>3. \A t \in T : \A m \in Message : Keep(t, m) \in T  OBVIOUS
  <1>4. <<>> \in T  OBVIOUS
  <1> HIDE DEF T, Keep, n, D
  <1>5. step \in [(1..n) \X T -> T]  BY <1>2, <1>3
  <1>6. PICK g \in [SUBSET (1..n) -> T] : Folding(g, SUBSET (1..n), <<>>, step)
    <2> HIDE DEF step
    <2> QED BY <1>2, <1>4, <1>5, FoldExists
  <1>7. \A t \in SUBSET D : g[t] = IF t = {} THEN <<>> ELSE Keep(g[t \ {Max(t)}], s[Max(t)])
    <2> SUFFICES ASSUME NEW t \in SUBSET (1..n), t # {}
                 PROVE  g[t] = Keep(g[t \ {Max(t)}], s[Max(t)])
      BY <1>2, <1>6 DEF Folding
    <2>1. g[t \ {Max(t)}] \in T /\ Max(t) \in 1..n  BY <1>2, WithoutMax
    <2>2. g[t] = step[<<Max(t), g[t \ {Max(t)}]>>]  BY <1>6 DEF Folding
    <2> QED  BY <2>1, <2>2
  <1>8. g = [t \in SUBSET D |-> IF t = {} THEN <<>> ELSE Keep(g[t \ {Max(t)}], s[Max(t)])]
    BY <1>2, <1>7
  <1>9. it = [t \in SUBSET D |-> IF t = {} THEN <<>> ELSE Keep(it[t \ {Max(t)}], s[Max(t)])]
    BY <1>8
  <1> HIDE DEF it
  <1>10. it[{}] = <<>>  BY <1>9
  <1>11. \A t \in SUBSET (1..n) :
            t # {} => Max(t) \in 1..n /\ it[t] = Keep(it[t \ {Max(t)}], s[Max(t)])
    BY <1>2, <1>9, WithoutMax
  <1>12. \A t \in SUBSET (1..n) : it[t] \in T
    <2>1. ASSUME NEW t \in SUBSET (1..n), t # {}, it[t \ {Max(t)}] \in T PROVE it[t] \in T
      <3>1. Max(t) \in 1..n /\ it[t] = Keep(it[t \ {Max(t)}], s[Max(t)])  BY <1>11, <2>1
      <3> HIDE DEF Max
      <3>2. s[Max(t)] \in Message  BY <1>2, <3>1
      <3>3. Keep(it[t \ {Max(t)}], s[Max(t)]) \in T  BY <1>3, <2>1, <3>2
      <3> QED  BY <3>1, <3>3
    <2>2. it[{}] \in T  BY <1>4, <1>10
    <2> QED  BY <1>2, <2>1, <2>2, FoldKeeps
  <1> DEFINE f == [i \in 0..n |-> it[1..i]]
  <1>13. \A i \in 0..n : 1..i \in SUBSET (1..n)  BY <1>2
  <1>14. f \in [0..n -> T]  BY <1>12, <1>13
  <1>15. f[0] = <<>> /\ f[n] = it[D]
    <2>1. 1..0 = {}  OBVIOUS
    <2> QED  BY <1>2, <1>10, <2>1
  <1>16. ASSUME NEW i \in 1..n PROVE f[i] = Keep(f[i - 1], s[i])
    <2>1. i \in Nat /\ i \in 0..n /\ i - 1 \in 0..n /\ i \in 1..i  BY <1>2
    <2>2. Max(1..i) = i
      <3>1. Max(1..i) \in 1..i /\ \A y \in 1..i : y <= Max(1..i)
        <4>1. 1..i \in SUBSET (1..i) /\ 1..i # {}  BY <2>1
        <4> QED  BY <2>1, <4>1, MaxOfSet
      <3> HIDE DEF Max
      <3> QED  BY <2>1, <3>1
    <2>3. (1..i) \ {i} = 1..(i - 1)  BY <1>2
    <2>4. it[1..i] = Keep(it[1..(i - 1)], s[i])  BY <1>11, <1>13, <2>1, <2>2, <2>3
    <2> QED  BY <2>1, <2>4
  <1> HIDE DEF f
  <1>17. /\ f[0] = <<>> /\ f[n] = Those(s, system)
         /\ \A i \in 1..n : f[i] = Keep(f[i - 1], s[i])
    BY <1>1, <1>15, <1>16
  <1> QED  BY <1>14, <1>17 DEF T, Keep, n

LEMMA ThoseTyped ==
    ASSUME NEW s \in Seq(Message), NEW system \in BOOLEAN
    PROVE  Those(s, system) \in Seq(Message)
  BY ThoseSteps

\* When all the summaries come first, they are one part and the turns the other.
LEMMA ThoseParts ==
    ASSUME NEW s \in Seq(Message), NEW k \in 0..Len(s),
           \A i \in 1..Len(s) : s[i].is = "summary" <=> i <= k
    PROVE  /\ Len(Summaries(s)) = k /\ \A i \in 1..k : Summaries(s)[i] = s[i]
           /\ Len(Turns(s)) = Len(s) - k
           /\ \A i \in 1..(Len(s) - k) : Turns(s)[i] = s[k + i]
  <1> DEFINE n == Len(s)
  <1>1. n \in Nat /\ \A i \in 1..n : s[i] \in Message  OBVIOUS
  <1> HIDE DEF n
  <1>2. /\ Len(Summaries(s)) = k /\ \A i \in 1..k : Summaries(s)[i] = s[i]
    <2>1. PICK f \in [0..n -> Seq(Message)] :
              /\ f[0] = <<>> /\ f[n] = Summaries(s)
              /\ \A i \in 1..n : f[i] = IF s[i].is = "summary"
                                        THEN Append(f[i - 1], s[i]) ELSE f[i - 1]
      BY ThoseSteps DEF Summaries, n
    <2> DEFINE Fits(i) == /\ Len(f[i]) = IF i <= k THEN i ELSE k
                          /\ \A j \in 1..Len(f[i]) : f[i][j] = s[j]
               S == {i \in Nat : i <= n => Fits(i)}
    <2>2. ASSUME NEW i \in Nat, \A m \in Nat : m < i => m \in S, i <= n
          PROVE  Fits(i)
      <3>1. CASE i = 0  BY <2>1, <3>1
      <3>2. CASE i > 0
        <4>1. i - 1 \in Nat /\ i - 1 < i /\ i - 1 <= n /\ i \in 1..n /\ i - 1 \in 0..n
          BY <1>1, <2>2, <3>2
        <4>2. Fits(i - 1)  BY <2>2, <4>1
        <4>3. CASE i <= k
          <5>1. f[i] = Append(f[i - 1], s[i])  BY <2>1, <4>1, <4>3 DEF n
          <5>2. f[i - 1] \in Seq(Message) /\ Len(f[i - 1]) = i - 1  BY <2>1, <4>1, <4>2, <4>3
          <5> QED  BY <4>1, <4>2, <4>3, <5>1, <5>2
        <4>4. CASE i > k
          <5>1. f[i] = f[i - 1]  BY <2>1, <4>1, <4>4 DEF n
          <5> QED  BY <4>1, <4>2, <4>4, <5>1
        <4> QED  BY <4>1, <4>3, <4>4
      <3> QED  BY <2>2, <3>1, <3>2
    <2> HIDE DEF Fits
    <2>3. \A i \in Nat : i \in S  BY <2>2, Everything
    <2>4. Fits(n)  BY <1>1, <2>3
    <2> QED  BY <1>1, <2>1, <2>4 DEF Fits, n
  <1>3. /\ Len(Turns(s)) = n - k
        /\ \A i \in 1..(n - k) : Turns(s)[i] = s[k + i]
    <2>1. PICK f \in [0..n -> Seq(Message)] :
              /\ f[0] = <<>> /\ f[n] = Turns(s)
              /\ \A i \in 1..n : f[i] = IF (s[i].is = "summary") = FALSE
                                        THEN Append(f[i - 1], s[i]) ELSE f[i - 1]
      BY ThoseSteps DEF Turns, n
    <2> DEFINE Fits(i) == /\ Len(f[i]) = IF i <= k THEN 0 ELSE i - k
                          /\ \A j \in 1..Len(f[i]) : f[i][j] = s[k + j]
               S == {i \in Nat : i <= n => Fits(i)}
    <2>2. ASSUME NEW i \in Nat, \A m \in Nat : m < i => m \in S, i <= n
          PROVE  Fits(i)
      <3>1. CASE i = 0  BY <2>1, <3>1
      <3>2. CASE i > 0
        <4>1. i - 1 \in Nat /\ i - 1 < i /\ i - 1 <= n /\ i \in 1..n /\ i - 1 \in 0..n
          BY <1>1, <2>2, <3>2
        <4>2. Fits(i - 1)  BY <2>2, <4>1
        <4>3. CASE i <= k
          <5>1. f[i] = f[i - 1]  BY <2>1, <4>1, <4>3 DEF n
          <5> QED  BY <4>1, <4>2, <4>3, <5>1
        <4>4. CASE i > k
          <5>0. (s[i].is = "summary") = FALSE
            <6>1. ~(i <= k) /\ k \in Nat  BY <1>1, <4>1, <4>4
            <6>2. ~(s[i].is = "summary")  BY <4>1, <6>1 DEF n
            <6> QED  BY <6>2
          <5>1. f[i] = Append(f[i - 1], s[i])  BY <2>1, <4>1, <5>0
          <5>2. f[i - 1] \in Seq(Message) /\ Len(f[i - 1]) = i - 1 - k
            BY <2>1, <4>1, <4>2, <4>4
          <5>3. Len(f[i]) = i - k  BY <4>1, <4>4, <5>1, <5>2
          <5>4. ASSUME NEW j \in 1..(i - k) PROVE f[i][j] = s[k + j]
            <6>1. CASE j = i - k  BY <4>1, <4>4, <5>1, <5>2, <6>1
            <6>2. CASE j < i - k
              <7>1. j \in 1..(i - 1 - k)  BY <4>1, <4>4, <6>2
              <7>2. f[i][j] = f[i - 1][j]  BY <5>1, <5>2, <7>1
              <7> QED  BY <4>2, <5>2, <7>1, <7>2
            <6> QED  BY <4>1, <4>4, <6>1, <6>2
          <5> QED  BY <4>1, <4>4, <5>3, <5>4
        <4> QED  BY <4>1, <4>3, <4>4
      <3> QED  BY <2>2, <3>1, <3>2
    <2> HIDE DEF Fits
    <2>3. \A i \in Nat : i \in S  BY <2>2, Everything
    <2>4. Fits(n)  BY <1>1, <2>3
    <2> QED  BY <1>1, <2>1, <2>4 DEF Fits, n
  <1> QED  BY <1>2, <1>3 DEF n

------------------------------------------------------------------------------
\* The last n messages.
LEMMA RecentIs ==
    ASSUME NEW S, NEW s \in Seq(S), NEW n \in Nat
    PROVE  /\ Recent(s, n) \in Seq(S)
           /\ Len(s) <= n => Recent(s, n) = s
           /\ Len(s) > n => /\ Len(Recent(s, n)) = n
                            /\ \A i \in 1..n : Recent(s, n)[i] = s[Len(s) - n + i]
  <1>1. Len(s) \in Nat /\ \A i \in 1..Len(s) : s[i] \in S  OBVIOUS
  <1>2. CASE Len(s) <= n  BY <1>1, <1>2 DEF Recent
  <1>3. CASE Len(s) > n
    <2> DEFINE m == Len(s) - n + 1
    <2>1. m \in Int /\ m >= 1 /\ \A i \in m..Len(s) : s[i] \in S  BY <1>1, <1>3
    <2>2. Recent(s, n) = SubSeq(s, m, Len(s))  BY <1>1, <1>3 DEF Recent
    <2>3. /\ SubSeq(s, m, Len(s)) \in Seq(S)
          /\ Len(SubSeq(s, m, Len(s))) = IF m <= Len(s) THEN Len(s) - m + 1 ELSE 0
          /\ \A i \in 1..Len(s) - m + 1 : SubSeq(s, m, Len(s))[i] = s[m + i - 1]
      BY <1>1, <2>1, SubSeqProperties
    <2>4. Len(s) - m + 1 = n /\ \A i \in 1..n : m + i - 1 = Len(s) - n + i  BY <1>1
    <2>5. IF m <= Len(s) THEN Len(s) - m + 1 = n ELSE n = 0  BY <1>1, <1>3
    <2> HIDE DEF m
    <2> QED  BY <1>1, <1>3, <2>2, <2>3, <2>4, <2>5
  <1> QED  BY <1>1, <1>2, <1>3

\* An even window keeps the beat, and begins with no result without its use.
LEMMA RecentBeats ==
    ASSUME NEW s \in Seq(Message), NEW k \in Nat, Beat(s, k, 0), NEW n \in Nat \ {0}, n % 2 = 0
    PROVE  \E j \in 0..Len(Recent(s, n)) : j <= k /\ Beat(Recent(s, n), j, 0)
  <1>1. Len(s) \in Nat  OBVIOUS
  <1>2. CASE Len(s) <= n
    <2>1. Recent(s, n) = s  BY <1>2, RecentIs
    <2>2. k \in 0..Len(s)  BY DEF Beat
    <2> QED  BY <1>1, <2>1, <2>2
  <1>3. CASE Len(s) > n
    <2> DEFINE r == Recent(s, n)
               d == Len(s) - n
               j == IF k > d THEN k - d ELSE 0
    <2>1. /\ Len(r) = n /\ d \in Nat /\ \A i \in 1..n : i + d \in 1..Len(s) /\ r[i] = s[i + d]
      <3>1. Len(r) = n /\ \A i \in 1..n : r[i] = s[d + i]  BY <1>3, RecentIs
      <3>2. d \in Nat /\ \A i \in 1..n : i + d \in 1..Len(s) /\ d + i = i + d
        BY <1>1, <1>3
      <3> HIDE DEF r, d
      <3> QED  BY <3>1, <3>2
    <2>0. /\ d \in Nat /\ j \in 0..n /\ j <= k
          /\ k >= d => j + d = k
          /\ k < d => j = 0
      <3>1. k <= Len(s)  BY DEF Beat
      <3>2. d \in Nat  BY <1>1, <1>3
      <3> QED  BY <1>1, <3>1, <3>2
    <2> HIDE DEF r, d, j
    <2>2. \A i \in 1..n : (i <= j => i + d <= k) /\ (i > j => i + d > k)  BY <2>0
    <2>3. \A i \in 1..n : n - i = Len(s) - (i + d)  BY <1>1 DEF d
    <2>4. ASSUME NEW i \in 1..n, i = j + 1 PROVE r[i].is # "results"
      <3>1. i + d \in 1..Len(s) /\ r[i] = s[i + d]  BY <2>1
      <3>2. CASE k >= d
        <4>1. i + d = k + 1  BY <2>0, <2>4, <3>2
        <4> QED  BY <3>1, <4>1 DEF Beat
      <3>3. CASE k < d
        <4>1. i = 1 /\ i + d > k  BY <2>0, <2>4, <3>3
        <4>2. (n - 1) % 2 = 1  OBVIOUS
        <4>3. (Len(s) - (i + d)) % 2 = 1  BY <2>3, <4>1, <4>2
        <4>4. Told(s[i + d]) <=> (Len(s) - (i + d)) % 2 = 0  BY <3>1, <4>1 DEF Beat
        <4>5. ~Told(s[i + d])  BY <4>3, <4>4
        <4> QED  BY <3>1, <4>5 DEF Told
      <3> QED  BY <2>0, <3>2, <3>3
    <2>5. ASSUME NEW i \in 1..n, i <= j PROVE r[i].is = "summary"
      <3>1. i + d \in 1..Len(s) /\ i + d <= k /\ r[i] = s[i + d]  BY <2>1, <2>2, <2>5
      <3> QED  BY <3>1 DEF Beat
    <2>6. ASSUME NEW i \in 1..n, i > j
          PROVE  r[i].is # "summary" /\ (Told(r[i]) <=> (n - i) % 2 = 0)
      <3>1. i + d \in 1..Len(s) /\ i + d > k /\ r[i] = s[i + d]  BY <2>1, <2>2, <2>6
      <3>2. s[i + d].is # "summary" /\ (Told(s[i + d]) <=> (Len(s) - (i + d)) % 2 = 0)
        BY <3>1 DEF Beat
      <3>3. n - i = Len(s) - (i + d)  BY <2>3
      <3> QED  BY <3>1, <3>2, <3>3
    <2>7. \A i \in 1..n : i > j /\ i < n => Linked(r[i], r[i + 1])
      <3> SUFFICES ASSUME NEW i \in 1..n, i > j, i < n PROVE Linked(r[i], r[i + 1])
        OBVIOUS
      <3>1. i + 1 \in 1..n /\ i + d < Len(s) /\ (i + 1) + d = (i + d) + 1
        BY <1>1, <2>1 DEF d
      <3>2. i + d \in 1..Len(s) /\ i + d > k  BY <2>1, <2>2
      <3>3. Linked(s[i + d], s[(i + d) + 1])  BY <3>1, <3>2 DEF Beat
      <3> QED  BY <2>1, <3>1, <3>3
    <2>8. Beat(r, j, 0)  BY <2>1, <2>0, <2>4, <2>5, <2>6, <2>7 DEF Beat
    <2> QED  BY <2>1, <2>0, <2>8 DEF r
  <1> QED  BY <1>1, <1>2, <1>3

\* One more turn.
LEMMA AppendBeats ==
    ASSUME NEW s \in Seq(Message), NEW k \in Nat, NEW z \in 0..1, Beat(s, k, z),
           NEW m \in Message, m.is # "summary", Told(m) <=> z = 1,
           k < Len(s) => Linked(s[Len(s)], m),
           k = Len(s) => m.is # "results"
    PROVE  Beat(Append(s, m), k, 1 - z)
  <1> DEFINE t == Append(s, m)
             n == Len(s)
  <1>1. /\ n \in Nat /\ Len(t) = n + 1 /\ t[n + 1] = m
        /\ \A i \in 1..n : t[i] = s[i]
    OBVIOUS
  <1>2. k \in 0..n  BY DEF Beat
  <1> HIDE DEF t
  <1>3. \A i \in 1..(n + 1) : i \in 1..n \/ i = n + 1  BY <1>1
  <1>4. \A i \in 1..(n + 1) : i <= k => t[i].is = "summary"
    BY <1>1, <1>2, <1>3 DEF Beat
  <1>5. ASSUME NEW i \in 1..(n + 1), i > k
        PROVE  t[i].is # "summary" /\ (Told(t[i]) <=> (n + 1 - i) % 2 = 1 - z)
    <2>1. CASE i \in 1..n
      <3>1. (n + 1 - i) % 2 = 1 - ((n - i) % 2)  BY <1>1, <2>1
      <3>2. (n - i) % 2 \in 0..1  BY <1>1, <2>1
      <3>3. s[i].is # "summary" /\ (Told(s[i]) <=> (n - i) % 2 = z)
        BY <1>5, <2>1 DEF Beat
      <3>4. (n - i) % 2 = z <=> (n + 1 - i) % 2 = 1 - z  BY <3>1, <3>2
      <3> QED  BY <1>1, <2>1, <3>3, <3>4
    <2>2. CASE i = n + 1
      <3>1. (n + 1 - i) % 2 = 0  BY <1>1, <2>2
      <3> QED  BY <1>1, <2>2, <3>1
    <2> QED  BY <1>3, <2>1, <2>2
  <1>6. ASSUME NEW i \in 1..(n + 1), i > k, i < n + 1 PROVE Linked(t[i], t[i + 1])
    <2>1. CASE i = n  BY <1>1, <1>6, <2>1
    <2>2. CASE i < n
      <3>1. i \in 1..n /\ i + 1 \in 1..n  BY <1>1, <2>2
      <3>2. Linked(s[i], s[i + 1])  BY <1>6, <2>2, <3>1 DEF Beat
      <3> QED  BY <1>1, <3>1, <3>2
    <2> QED  BY <1>1, <1>6, <2>1, <2>2
  <1>7. ASSUME NEW i \in 1..(n + 1), i = k + 1 PROVE t[i].is # "results"
    <2>1. CASE i \in 1..n  BY <1>1, <1>7, <2>1 DEF Beat
    <2>2. CASE i = n + 1  BY <1>1, <1>2, <1>7, <2>2
    <2> QED  BY <1>3, <2>1, <2>2
  <1>8. k \in 0..Len(t)  BY <1>1, <1>2
  <1> HIDE DEF n
  <1>9. Beat(t, k, 1 - z)
    <2>1. \A i \in 1..Len(t) : i <= k => t[i].is = "summary"  BY <1>1, <1>4
    <2>2. \A i \in 1..Len(t) :
              i > k => t[i].is # "summary" /\ (Told(t[i]) <=> (Len(t) - i) % 2 = 1 - z)
      BY <1>1, <1>5
    <2>3. \A i \in 1..Len(t) : i > k /\ i < Len(t) => Linked(t[i], t[i + 1])
      BY <1>1, <1>6
    <2>4. \A i \in 1..Len(t) : i = k + 1 => t[i].is # "results"  BY <1>1, <1>7
    <2> QED  BY <1>8, <2>1, <2>2, <2>3, <2>4 DEF Beat
  <1> QED  BY <1>9 DEF t

\* Counted from the end, a window holds what the sequence does.
LEMMA RecentFromEnd ==
    ASSUME NEW S, NEW s \in Seq(S), NEW n \in Nat, NEW i \in Nat, i < n, i < Len(s)
    PROVE  i < Len(Recent(s, n)) /\ Recent(s, n)[Len(Recent(s, n)) - i] = s[Len(s) - i]
  <1>1. Len(s) \in Nat  OBVIOUS
  <1>2. CASE Len(s) <= n  BY <1>1, <1>2, RecentIs
  <1>3. CASE Len(s) > n
    <2>1. Len(Recent(s, n)) = n  BY <1>3, RecentIs
    <2>2. n - i \in 1..n /\ Len(s) - n + (n - i) = Len(s) - i  BY <1>1
    <2>3. Recent(s, n)[n - i] = s[Len(s) - n + (n - i)]  BY <1>3, <2>2, RecentIs
    <2> QED  BY <2>1, <2>2, <2>3
  <1> QED  BY <1>1, <1>2, <1>3

\* Summaries before turns that have the beat.
LEMMA BehindSummaries ==
    ASSUME NEW p \in Seq(Message), \A i \in 1..Len(p) : p[i].is = "summary",
           NEW u \in Seq(Message), Beat(u, 0, 0)
    PROVE  p \o u \in Seq(Message) /\ Beat(p \o u, Len(p), 0)
  <1> DEFINE t == p \o u
             k == Len(p)
             n == Len(u)
  <1>1. /\ k \in Nat /\ n \in Nat /\ t \in Seq(Message) /\ Len(t) = k + n
        /\ \A i \in 1..k : t[i] = p[i]
        /\ \A i \in 1..(k + n) : i > k => t[i] = u[i - k]
    <2>1. /\ Len(t) = k + n
          /\ \A i \in 1..(k + n) : t[i] = IF i <= k THEN p[i] ELSE u[i - k]
      BY ConcatProperties
    <2>2. k \in Nat /\ n \in Nat /\ t \in Seq(Message)  BY ConcatProperties
    <2> HIDE DEF t, k, n
    <2>3. \A i \in 1..k : i \in 1..(k + n) /\ i <= k  BY <2>2
    <2>4. \A i \in 1..(k + n) : i > k => ~(i <= k)  BY <2>2
    <2> QED  BY <2>1, <2>2, <2>3, <2>4
  <1>2. \A i \in 1..k : p[i].is = "summary"  OBVIOUS
  <1>3. /\ \A i \in 1..n : u[i].is # "summary" /\ (Told(u[i]) <=> (n - i) % 2 = 0)
        /\ \A i \in 1..n : i < n => Linked(u[i], u[i + 1])
        /\ \A i \in 1..n : i = 1 => u[i].is # "results"
    <2>1. \A i \in 1..n : i > 0  OBVIOUS
    <2> QED  BY <2>1 DEF Beat
  <1> HIDE DEF t, k, n
  <1>4. \A i \in 1..(k + n) : i > k => i - k \in 1..n /\ (k + n) - i = n - (i - k)
    BY <1>1
  <1>5. \A i \in 1..Len(t) : i <= k => t[i].is = "summary"
    <2>1. \A i \in 1..Len(t) : i <= k => i \in 1..k  BY <1>1
    <2> QED  BY <1>1, <1>2, <2>1
  <1>6. ASSUME NEW i \in 1..Len(t), i > k
        PROVE  t[i].is # "summary" /\ (Told(t[i]) <=> (Len(t) - i) % 2 = 0)
    <2>1. i - k \in 1..n /\ t[i] = u[i - k] /\ Len(t) - i = n - (i - k)
      BY <1>1, <1>4, <1>6
    <2> QED  BY <1>3, <2>1
  <1>7. ASSUME NEW i \in 1..Len(t), i > k, i < Len(t) PROVE Linked(t[i], t[i + 1])
    <2>1. i - k \in 1..n /\ i - k < n /\ i + 1 \in 1..(k + n) /\ i + 1 > k
      BY <1>1, <1>7
    <2>2. t[i] = u[i - k] /\ t[i + 1] = u[(i + 1) - k]  BY <1>1, <1>7, <2>1
    <2>3. (i + 1) - k = (i - k) + 1  BY <1>1
    <2> QED  BY <1>3, <2>1, <2>2, <2>3
  <1>8. ASSUME NEW i \in 1..Len(t), i = k + 1 PROVE t[i].is # "results"
    <2>1. i > k /\ i - k = 1 /\ i - k \in 1..n  BY <1>1, <1>8
    <2>2. t[i] = u[i - k]  BY <1>1, <2>1
    <2> QED  BY <1>3, <2>1, <2>2
  <1>9. k \in 0..Len(t)  BY <1>1
  <1>10. Beat(t, k, 0)  BY <1>5, <1>6, <1>7, <1>8, <1>9 DEF Beat
  <1> QED  BY <1>1, <1>10 DEF t, k

LEMMA BudgetTyped ==
    ASSUME NEW s \in Seq(Message), NEW t \in Budgeted(s)
    PROVE  t \in Seq(Message)
  <1>1. Summaries(s) \in Seq(Message) /\ Turns(s) \in Seq(Message)
    BY ThoseTyped DEF Summaries, Turns
  <1>2. Recent(Turns(s), Preserve) \in Seq(Message)
    BY <1>1, ChatAssumption, RecentIs
  <1>3. Summary \in Message  BY ChatAssumption DEF Summary, Message
  <1>4. <<Summary>> \in Seq(Message)  BY <1>3
  <1>5. Truncated(s) \in Seq(Message)  BY <1>1, <1>2, ConcatProperties DEF Truncated
  <1>6. Summaries(s) \o <<Summary>> \in Seq(Message)  BY <1>1, <1>4, ConcatProperties
  <1>7. (Summaries(s) \o <<Summary>>) \o Recent(Turns(s), Preserve) \in Seq(Message)
    BY <1>2, <1>6, ConcatProperties
  <1>8. Summarized(s) \in Seq(Message)  BY <1>7 DEF Summarized
  <1> QED  BY <1>5, <1>8 DEF Budgeted

\* Whatever the budget makes of messages with the beat has it too.
LEMMA BudgetBeats ==
    ASSUME EvenWindows, NEW s \in Seq(Message), NEW k \in Nat, Beat(s, k, 0),
           NEW t \in Budgeted(s)
    PROVE  \E j \in 0..Len(t) : Beat(t, j, 0)
  <1> DEFINE n == Len(s)
             p == Summaries(s)
             u == Turns(s)
             w == Recent(u, Preserve)
  <1>1. n \in Nat /\ k \in 0..n  BY DEF Beat
  <1>2. p \in Seq(Message) /\ u \in Seq(Message)
    BY ThoseTyped DEF Summaries, Turns
  <1>3. \A i \in 1..n : s[i].is = "summary" <=> i <= k
    <2>1. \A i \in 1..n : i <= k \/ i > k  BY <1>1
    <2> QED  BY <2>1 DEF Beat
  <1>4. /\ Len(p) = k /\ \A i \in 1..k : p[i] = s[i]
        /\ Len(u) = n - k /\ \A i \in 1..(n - k) : u[i] = s[k + i]
    BY <1>1, <1>3, ThoseParts
  <1>5. \A i \in 1..Len(p) : p[i].is = "summary"
    <2>1. \A i \in 1..k : i \in 1..n /\ i <= k  BY <1>1
    <2> QED  BY <1>3, <1>4, <2>1
  <1> HIDE DEF p, u
  <1>6. Beat(u, 0, 0)
    <2>1. \A i \in 1..(n - k) : /\ k + i \in 1..n /\ k + i > k
                                /\ n - (k + i) = (n - k) - i
      BY <1>1
    <2>2. ASSUME NEW i \in 1..Len(u)
          PROVE  u[i].is # "summary" /\ (Told(u[i]) <=> (Len(u) - i) % 2 = 0)
      <3>1. i \in 1..(n - k) /\ Len(u) - i = n - (k + i)  BY <1>4, <2>1
      <3>2. k + i \in 1..n /\ k + i > k /\ u[i] = s[k + i]  BY <1>4, <2>1, <3>1
      <3>3. s[k + i].is # "summary" /\ (Told(s[k + i]) <=> (n - (k + i)) % 2 = 0)
        BY <3>2 DEF Beat
      <3> QED  BY <3>1, <3>2, <3>3
    <2>3. ASSUME NEW i \in 1..Len(u), i < Len(u) PROVE Linked(u[i], u[i + 1])
      <3>1. i \in 1..(n - k) /\ i + 1 \in 1..(n - k) /\ k + i < n /\ k + (i + 1) = (k + i) + 1
        BY <1>1, <1>4, <2>3
      <3>2. k + i \in 1..n /\ k + i > k  BY <2>1, <3>1
      <3>3. Linked(s[k + i], s[(k + i) + 1])  BY <3>1, <3>2 DEF Beat
      <3> QED  BY <1>4, <3>1, <3>3
    <2>4. ASSUME NEW i \in 1..Len(u), i = 0 + 1 PROVE u[i].is # "results"
      <3>1. i \in 1..(n - k) /\ k + i = k + 1  BY <1>1, <1>4, <2>4
      <3>2. k + i \in 1..n  BY <2>1, <3>1
      <3>3. s[k + i].is # "results"  BY <3>1, <3>2 DEF Beat
      <3> QED  BY <1>4, <3>1, <3>3
    <2>5. 0 \in 0..Len(u) /\ \A i \in 1..Len(u) : ~(i <= 0)  BY <1>1, <1>4
    <2> QED  BY <2>2, <2>3, <2>4, <2>5 DEF Beat
  <1>7. w \in Seq(Message) /\ Beat(w, 0, 0)
    <2>1. Preserve \in Nat \ {0} /\ Preserve % 2 = 0  BY ChatAssumption DEF EvenWindows
    <2>2. PICK j \in 0..Len(w) : j <= 0 /\ Beat(w, j, 0)
      BY <1>2, <1>6, <2>1, RecentBeats
    <2>3. j = 0  BY <2>2
    <2> QED  BY <1>2, <2>1, <2>2, <2>3, RecentIs
  <1> HIDE DEF w
  <1>8. CASE t = s  BY <1>1, <1>8
  <1>9. CASE t = p \o w
    <2>1. Beat(t, Len(p), 0)  BY <1>2, <1>5, <1>7, <1>9, BehindSummaries
    <2> QED  BY <2>1 DEF Beat
  <1>10. CASE t = (p \o <<Summary>>) \o w
    <2> DEFINE q == p \o <<Summary>>
    <2>1. Summary \in Message /\ Summary.is = "summary"
      BY ChatAssumption DEF Summary, Message
    <2>2. q \in Seq(Message) /\ q = Append(p, Summary)  BY <1>2, <2>1
    <2>3. \A i \in 1..Len(q) : q[i].is = "summary"
      BY <1>2, <1>5, <2>1, <2>2
    <2> HIDE DEF q
    <2>4. Beat(q \o w, Len(q), 0)  BY <1>7, <2>2, <2>3, BehindSummaries
    <2>5. t = q \o w  BY <1>10 DEF q
    <2> QED  BY <2>4, <2>5 DEF Beat
  <1>11. t \in {s, p \o w, (p \o <<Summary>>) \o w}
    BY DEF Budgeted, Truncated, Summarized, p, u, w
  <1> QED  BY <1>8, <1>9, <1>10, <1>11

\* What has the beat and ends with what is told, a provider accepts.
LEMMA BeatAccepted ==
    ASSUME NEW s \in Seq(Message), NEW k \in Nat, Beat(s, k, 0)
    PROVE  WellFormed(s)
  <1>1. Len(s) \in Nat /\ k \in 0..Len(s) /\ \A i \in 1..Len(s) : s[i] \in Message
    BY DEF Beat
  <1>2. \A a, b \in Message :
            Linked(a, b) /\ (a.is = "use" \/ b.is = "results")
                => a = [b EXCEPT !.is = "use"] /\ b = [a EXCEPT !.is = "results"]
    BY DEF Linked, Message
  <1> SUFFICES ASSUME NEW i \in 1..Len(s)
               PROVE  /\ s[i].is = "results" => i > 1 /\ s[i - 1] = [s[i] EXCEPT !.is = "use"]
                      /\ s[i].is = "use" =>
                             i < Len(s) /\ s[i + 1] = [s[i] EXCEPT !.is = "results"]
    BY DEF WellFormed
  <1>3. s[i].is \in {"results", "use"} => i > k
    <2>1. i <= k => s[i].is = "summary"  BY DEF Beat
    <2> QED  BY <1>1, <2>1
  <1>4. ASSUME s[i].is = "results" PROVE i > 1 /\ s[i - 1] = [s[i] EXCEPT !.is = "use"]
    <2>1. i # k + 1  BY <1>4 DEF Beat
    <2>2. i > k  BY <1>3, <1>4
    <2>3. i - 1 \in 1..Len(s) /\ i - 1 > k /\ i - 1 < Len(s) /\ (i - 1) + 1 = i
      BY <1>1, <2>1, <2>2
    <2>4. Linked(s[i - 1], s[(i - 1) + 1])  BY <2>3 DEF Beat
    <2> QED  BY <1>1, <1>2, <1>4, <2>3, <2>4
  <1>5. ASSUME s[i].is = "use"
        PROVE  i < Len(s) /\ s[i + 1] = [s[i] EXCEPT !.is = "results"]
    <2>1. i > k  BY <1>3, <1>5
    <2>2. i # Len(s)
      <3>1. (Len(s) - Len(s)) % 2 = 0  BY <1>1
      <3>2. Told(s[i]) <=> (Len(s) - i) % 2 = 0  BY <2>1 DEF Beat
      <3> QED  BY <1>5, <3>1, <3>2 DEF Told
    <2>3. i < Len(s) /\ i + 1 \in 1..Len(s)  BY <1>1, <2>2
    <2>4. Linked(s[i], s[i + 1])  BY <2>1, <2>3 DEF Beat
    <2> QED  BY <1>1, <1>2, <1>5, <2>3, <2>4
  <1> QED  BY <1>4, <1>5

------------------------------------------------------------------------------
\* What a call is, and its chat.
LEMMA OfCall ==
    ASSUME IInv, NEW c \in Call
    PROVE  /\ call[c] \in CallState /\ call[c].messages \in Seq(Message)
           /\ call[c].round \in Nat /\ call[c].round < MaxRounds
           /\ ChatOf[c] \in Chat /\ history[ChatOf[c]] \in Seq(Message)
           /\ \A is \in {"question", "use", "results", "text"} : Says(c, is) \in Message
           /\ Question(c) \in Message
  <1>1. call[c] \in CallState /\ history[ChatOf[c]] \in Seq(Message) /\ ChatOf[c] \in Chat
    BY ChatAssumption DEF IInv, TypeOK
  <1>2. MaxRounds \in Nat \ {0} /\ call[c].round < MaxRounds
    BY ChatAssumption DEF IInv, Rounds
  <1>3. call[c].round \in 0..MaxRounds /\ call[c].messages \in Seq(Message)
    BY <1>1 DEF CallState, Await
  <1>4. \A is \in {"question", "use", "results", "text"} :
            Says(c, is) \in Message /\ Question(c) \in Message
    BY <1>2, <1>3 DEF Says, Message, Question
  <1> QED  BY <1>1, <1>2, <1>3, <1>4

LEMMA Changed ==
    ASSUME IInv, NEW c \in Call, NEW r
    PROVE  /\ \A d \in Call \ {c} : [call EXCEPT ![c] = r][d] = call[d]
           /\ [call EXCEPT ![c] = r][c] = r
           /\ r \in CallState => [call EXCEPT ![c] = r] \in [Call -> CallState]
  BY DEF IInv, TypeOK

\* The frame of every step of a call: it moves on to r and its chat's history to h.
Moves(c, r, h) ==
    /\ call' = [call EXCEPT ![c] = r] /\ history' = [history EXCEPT ![ChatOf[c]] = h]
    /\ broken' \in {broken, broken \cup {ChatOf[c]}}
    /\ lock' \in Call \cup {NoCall}
    /\ r.pc = "asking" <=> lock' = c
    /\ \A d \in Call \ {c} : lock' = d <=> lock = d
    /\ swap' = swap /\ breaker' \in BreakerState
    /\ unreported' \in BOOLEAN /\ faults' \in 0..MaxFaults

LEMMA Moved ==
    ASSUME IInv, NEW c \in Call, NEW r \in CallState, NEW h \in Seq(Message),
           Moves(c, r, h),
           r.round < MaxRounds, r.pc \in {"idle", "save", "load"} => r.round = 0,
           ChatOf[c] \notin broken' =>
               Others(c) /\ InRhythm(c, r, h) /\ (~InChat(r) => Quiet(h))
    PROVE  IInv'
  <1>1. /\ \A d \in Call \ {c} : call'[d] = call[d]
        /\ call'[c] = r /\ call' \in [Call -> CallState]
    BY Changed DEF Moves
  <1>2. /\ history' \in [Chat -> Seq(Message)] /\ history'[ChatOf[c]] = h
        /\ \A k \in Chat : k # ChatOf[c] => history'[k] = history[k]
    BY OfCall DEF Moves, IInv, TypeOK
  <1>3. \A d \in Call : d = c \/ d \in Call \ {c}  OBVIOUS
  <1>4. broken \subseteq broken' /\ broken' \subseteq Chat
        /\ \A k \in Chat : k # ChatOf[c] => (k \in broken' <=> k \in broken)
    BY OfCall DEF Moves, IInv, TypeOK
  <1>5. TypeOK'
    <2>1. \A d \in Call : (call'[d].pc = "asking") <=> (lock' = d)
      <3>1. \A d \in Call \ {c} : (call[d].pc = "asking") <=> (lock = d)
        BY DEF IInv, TypeOK, At
      <3> QED  BY <1>1, <3>1 DEF Moves
    <2> QED  BY <1>1, <1>2, <1>4, <2>1 DEF Moves, IInv, TypeOK, At
  <1>6. Rounds'  BY <1>1 DEF IInv, Rounds
  <1>7. ASSUME NEW d \in Call, d # c, ChatOf[d] = ChatOf[c], ChatOf[c] \notin broken'
        PROVE  ~Active(d) /\ call'[d] = call[d]
    BY <1>1, <1>7 DEF Others
  <1>8. Rhythm'
    <2>1. ASSUME NEW d \in Call, ChatOf[d] \notin broken', call'[d].pc \notin {"idle", "done"},
                 NEW e \in Call, e # d, ChatOf[e] = ChatOf[d]
          PROVE  call'[e].pc \in {"idle", "done"}
      <3>1. CASE d = c
        BY <1>7, <2>1, <3>1 DEF Active
      <3>2. CASE e = c
        <4>1. ~Active(d) /\ call'[d] = call[d]  BY <1>7, <2>1, <3>2
        <4> QED  BY <2>1, <4>1 DEF Active
      <3>3. CASE d # c /\ e # c
        <4>1. Whole(d) /\ Active(d) /\ call'[e] = call[e]
          BY <1>1, <1>4, <2>1, <3>3 DEF Whole, Active
        <4>2. ~Active(e)  BY <2>1, <4>1 DEF IInv, Rhythm, Others
        <4> QED  BY <4>1, <4>2 DEF Active
      <3> QED  BY <3>1, <3>2, <3>3
    <2>2. ASSUME NEW k \in Chat, k \notin broken',
                 \A d \in Call : ChatOf[d] = k => ~InChat(call'[d])
          PROVE  Quiet(history'[k])
      <3>1. CASE k = ChatOf[c]
        <4>1. ~InChat(r)  BY <1>1, <2>2, <3>1
        <4> QED  BY <1>2, <2>2, <3>1, <4>1
      <3>2. CASE k # ChatOf[c]
        <4>1. \A d \in Call : ChatOf[d] = k => ~InChat(call[d])
          BY <1>1, <2>2, <3>2
        <4> QED  BY <1>2, <1>4, <2>2, <3>2, <4>1 DEF IInv, Rhythm
      <3> QED  BY <3>1, <3>2
    <2>3. ASSUME NEW d \in Call, ChatOf[d] \notin broken'
          PROVE  InRhythm(d, call'[d], history'[ChatOf[d]])
      <3>1. CASE d = c  BY <1>1, <1>2, <2>3, <3>1
      <3>2. CASE d # c /\ ChatOf[d] = ChatOf[c]
        <4>1. ~Active(d) /\ call'[d] = call[d]  BY <1>7, <2>3, <3>2
        <4>2. call'[d].pc \in {"idle", "done"}  BY <4>1 DEF Active
        <4> QED
          BY <4>2 DEF InRhythm, Recorded, Window, Since, Telling, Using
      <3>3. CASE ChatOf[d] # ChatOf[c]
        <4>1. call'[d] = call[d]  BY <1>1, <3>3
        <4>2. ChatOf[d] \in Chat  BY OfCall
        <4>3. history'[ChatOf[d]] = history[ChatOf[d]] /\ Whole(d)
          BY <1>2, <1>4, <2>3, <3>3, <4>2 DEF Whole
        <4> QED  BY <4>1, <4>3 DEF IInv, Rhythm
      <3> QED  BY <3>1, <3>2, <3>3
    <2>4. \A d \in Call : Whole(d)' /\ Active(d)' => Others(d)'
      BY <2>1 DEF Whole, Active, Others
    <2>5. \A k \in Chat :
              k \notin broken' /\ (\A d \in Call : ChatOf[d] = k => ~InChat(call'[d]))
                  => Quiet(history'[k])
      BY <2>2
    <2>6. \A d \in Call : Whole(d)' => InRhythm(d, call'[d], history'[ChatOf[d]])
      BY <2>3 DEF Whole
    <2> QED  BY <2>4, <2>5, <2>6 DEF Rhythm
  <1> QED  BY <1>5, <1>6, <1>8 DEF IInv

\* A call of a whole chat is the one at work in it.
LEMMA OnlyOne ==
    ASSUME IInv, NEW c \in Call, Active(c), ChatOf[c] \notin broken
    PROVE  Others(c) /\ InRhythm(c, call[c], history[ChatOf[c]])
  BY DEF IInv, Rhythm, Whole

\* The lock is with the call that asks.
LockMoves(c, r) ==
    /\ lock' \in Call \cup {NoCall}
    /\ r.pc = "asking" <=> lock' = c
    /\ \A d \in Call \ {c} : lock' = d <=> lock = d

LEMMA LockKept ==
    ASSUME IInv, NEW c \in Call, NEW r, ~At(c, "asking"), r.pc # "asking", lock' = lock
    PROVE  LockMoves(c, r)
  BY DEF IInv, TypeOK, LockMoves

LEMMA LockFreed ==
    ASSUME IInv, NEW c \in Call, NEW r, At(c, "asking"), r.pc # "asking", lock' = NoCall
    PROVE  LockMoves(c, r)
  <1>1. lock = c  BY DEF IInv, TypeOK
  <1>2. NoCall \notin Call  BY ChatAssumption
  <1> QED  BY <1>1, <1>2 DEF LockMoves

LEMMA BreakerTyped ==
    ASSUME IInv
    PROVE  /\ breaker \in BreakerState /\ Seen \in BreakerState
           /\ \A b \in BreakerState : Tripped(b) \in BreakerState
           /\ \A b \in BreakerState : \A x \in BOOLEAN : [b EXCEPT !.used = x] \in BreakerState
           /\ \A b \in BreakerState :
                  [b EXCEPT !.state = "closed", !.used = FALSE] \in BreakerState
           /\ \A b \in BreakerState : [b EXCEPT !.waited = TRUE] \in BreakerState
  <1>1. breaker \in BreakerState  BY DEF IInv, TypeOK
  <1>2. \A b \in BreakerState : Tripped(b) \in BreakerState  BY DEF Tripped, BreakerState
  <1>3. \A b \in BreakerState : \A x \in BOOLEAN : [b EXCEPT !.used = x] \in BreakerState
    BY DEF BreakerState
  <1>4. \A b \in BreakerState :
            /\ [b EXCEPT !.state = "closed", !.used = FALSE] \in BreakerState
            /\ [b EXCEPT !.state = "half_open", !.used = FALSE] \in BreakerState
            /\ [b EXCEPT !.waited = TRUE] \in BreakerState
    BY DEF BreakerState
  <1>5. Seen \in BreakerState  BY <1>1, <1>4 DEF Seen
  <1> QED  BY <1>1, <1>2, <1>3, <1>4, <1>5

\* A history that a step leaves alone, and one that it appends to.
LEMMA HistoryKept ==
    ASSUME IInv, NEW c \in Call
    PROVE  history = [history EXCEPT ![ChatOf[c]] = history[ChatOf[c]]]
  BY OfCall DEF IInv, TypeOK

LEMMA Appended ==
    ASSUME IInv, NEW c \in Call, NEW m \in Message
    PROVE  /\ Append(history[ChatOf[c]], m) \in Seq(Message)
           /\ Save(c, m) =>
                  history' = [history EXCEPT ![ChatOf[c]] = Append(history[ChatOf[c]], m)]
  <1>1. history[ChatOf[c]] \in Seq(Message)  BY OfCall
  <1> QED  BY <1>1 DEF Save

\* A call that ends for a cause gives up the rhythm of its chat.
Breaking(c) ==
    /\ Done(c) /\ Breaks(c) /\ swap' = swap
    /\ \/ history' = history
       \/ \E is \in {"question", "use", "results", "text"} : Save(c, Says(c, is))
    /\ breaker' \in BreakerState /\ unreported' \in BOOLEAN

LEMMA Broke ==
    ASSUME IInv, NEW c \in Call, Breaking(c), faults' \in 0..MaxFaults,
           \A r \in CallState : r.pc = "done" => LockMoves(c, r)
    PROVE  IInv'
  <1> DEFINE r == [call[c] EXCEPT !.pc = "done", !.messages = <<>>, !.probe = FALSE]
  <1>1. r \in CallState /\ r.pc = "done" /\ r.round = call[c].round
    <2>1. call[c] \in CallState /\ <<>> \in Seq(Message)  BY OfCall
    <2> QED  BY <2>1 DEF CallState, Await
  <1>2. call' = [call EXCEPT ![c] = r]  BY DEF Breaking, Done, Becomes
  <1>3. PICK h \in Seq(Message) : history' = [history EXCEPT ![ChatOf[c]] = h]
    <2>1. CASE history' = history  BY <2>1, HistoryKept, OfCall
    <2>2. CASE \E is \in {"question", "use", "results", "text"} : Save(c, Says(c, is))
      <3>1. PICK is \in {"question", "use", "results", "text"} : Save(c, Says(c, is))
        BY <2>2
      <3>2. Says(c, is) \in Message  BY OfCall
      <3> QED  BY <3>1, <3>2, Appended
    <2> QED  BY <2>1, <2>2 DEF Breaking
  <1> HIDE DEF r
  <1>4. Moves(c, r, h)
    BY <1>1, <1>2, <1>3 DEF Breaking, Breaks, Moves, LockMoves
  <1>5. r.round < MaxRounds  BY <1>1, OfCall
  <1>6. ChatOf[c] \in broken'  BY DEF Breaking, Breaks
  <1> QED  BY <1>1, <1>4, <1>5, <1>6, Moved

LEMMA Starting ==
    ASSUME IInv, NEW c \in Call, Start(c), faults' \in 0..MaxFaults PROVE IInv'
  <1> DEFINE r == [call[c] EXCEPT !.pc = "save"]
             h == history[ChatOf[c]]
  <1>1. r \in CallState /\ r.pc = "save" /\ r.round = 0
    <2>1. call[c] \in CallState  BY OfCall
    <2>2. call[c].round = 0  BY DEF Start, At, IInv, Rounds
    <2> QED  BY <2>1, <2>2 DEF CallState, Await
  <1>2. call' = [call EXCEPT ![c] = r] /\ history' = [history EXCEPT ![ChatOf[c]] = h]
    BY HistoryKept DEF Start, GoTo, Becomes
  <1> HIDE DEF r
  <1>3. LockMoves(c, r)  BY <1>1, LockKept DEF Start, At
  <1>4. Moves(c, r, h)
    BY <1>1, <1>2, <1>3 DEF Start, Breaks, Moves, LockMoves, IInv, TypeOK
  <1>5. ASSUME ChatOf[c] \notin broken' PROVE Others(c) /\ Quiet(h)
    <2>1. Others(c) /\ ChatOf[c] \notin broken  BY <1>5 DEF Start, Breaks, Others
    <2>2. \A d \in Call : ChatOf[d] = ChatOf[c] => ~InChat(call[d])
      <3>1. ~InChat(call[c])  BY DEF Start, At, InChat, Telling, Using
      <3>2. \A d \in Call : ~Active(d) => ~InChat(call[d])
        BY DEF Active, InChat, Telling, Using
      <3> QED  BY <2>1, <3>1, <3>2 DEF Others
    <2> QED  BY <2>1, <2>2, OfCall DEF IInv, Rhythm
  <1>6. InRhythm(c, r, h)
    BY <1>1 DEF InRhythm, Recorded, Window, Since, Telling, Using
  <1>7. 0 < MaxRounds  BY ChatAssumption
  <1> QED  BY <1>1, <1>4, <1>5, <1>6, <1>7, OfCall, Moved

\* The question joins a history that waits for it, or the gate keeps it out.
LEMMA Asking ==
    ASSUME IInv, NEW c \in Call, SaveQuestion(c), faults' \in 0..MaxFaults PROVE IInv'
  <1> DEFINE k == ChatOf[c]
             h0 == history[k]
  <1>1. /\ call[c] \in CallState /\ call[c].pc = "save" /\ call[c].round = 0
        /\ h0 \in Seq(Message) /\ Question(c) \in Message
    BY OfCall DEF SaveQuestion, At, IInv, Rounds
  <1>2. Active(c)  BY <1>1 DEF Active
  <1>3. ASSUME k \notin broken PROVE Others(c) /\ Quiet(h0)
    <2>1. Others(c)  BY <1>2, <1>3, OnlyOne
    <2>2. \A d \in Call : ChatOf[d] = k => ~InChat(call[d])
      <3>1. ~InChat(call[c])  BY <1>1 DEF InChat, Telling, Using
      <3>2. \A d \in Call : ~Active(d) => ~InChat(call[d])
        BY DEF Active, InChat, Telling, Using
      <3> QED  BY <2>1, <3>1, <3>2 DEF Others
    <2> QED  BY <1>3, <2>1, <2>2, OfCall DEF IInv, Rhythm
  <1>4. CASE Save(c, Says(c, "question")) /\ GoTo(c, "load")
    <2> DEFINE r == [call[c] EXCEPT !.pc = "load"]
               h == Append(h0, Question(c))
    <2>1. r \in CallState /\ r.pc = "load" /\ r.round = 0  BY <1>1 DEF CallState, Await
    <2>2. call' = [call EXCEPT ![c] = r]  BY <1>4 DEF GoTo, Becomes
    <2>3. history' = [history EXCEPT ![k] = h]
      <3>1. Says(c, "question") = Question(c)  BY <1>1 DEF Says, Question
      <3> QED  BY <1>1, <1>4, <3>1, Appended
    <2>4. h \in Seq(Message) /\ EndsWith(h, Question(c))  BY <1>1 DEF EndsWith
    <2> HIDE DEF r, h0
    <2>5. Moves(c, r, h)
      <3>1. LockMoves(c, r)  BY <1>1, <2>1, LockKept DEF SaveQuestion, At
      <3> QED  BY <2>2, <2>3, <3>1 DEF SaveQuestion, Moves, LockMoves, IInv, TypeOK
    <2>6. ASSUME k \notin broken PROVE Beat(h, 0, 0)
      <3>1. Beat(h0, 0, 1) /\ (Len(h0) > 0 => h0[Len(h0)].is = "text")
        BY <1>3, <2>6 DEF Quiet
      <3>2. /\ Question(c).is # "summary" /\ Question(c).is # "results"
            /\ Told(Question(c)) <=> 1 = 1
        BY DEF Question, Told
      <3>3. 0 < Len(h0) => Linked(h0[Len(h0)], Question(c))
        BY <3>1 DEF Linked, Question
      <3>4. Beat(h, 0, 1 - 1)  BY <1>1, <3>1, <3>2, <3>3, AppendBeats
      <3> QED  BY <3>4
    <2> HIDE DEF h
    <2>7. k \notin broken => InRhythm(c, r, h)
      BY <2>1, <2>4, <2>6 DEF InRhythm, Recorded, Window, Since, Telling, Using
    <2>8. InChat(r)  BY <2>1 DEF InChat
    <2>9. broken' = broken  BY DEF SaveQuestion
    <2>10. 0 < MaxRounds  BY ChatAssumption
    <2> QED  BY <1>3, <2>1, <2>4, <2>5, <2>7, <2>8, <2>9, <2>10, Moved
  <1>5. CASE Done(c) /\ history' = history
    <2> DEFINE r == [call[c] EXCEPT !.pc = "done", !.messages = <<>>, !.probe = FALSE]
    <2>1. r \in CallState /\ r.pc = "done" /\ r.round = 0
      <3>1. <<>> \in Seq(Message)  OBVIOUS
      <3> QED  BY <1>1, <3>1 DEF CallState, Await
    <2>2. call' = [call EXCEPT ![c] = r] /\ history' = [history EXCEPT ![k] = h0]
      BY <1>5, HistoryKept DEF Done, Becomes
    <2> HIDE DEF r, h0
    <2>3. Moves(c, r, h0)
      <3>1. LockMoves(c, r)  BY <1>1, <2>1, LockKept DEF SaveQuestion, At
      <3> QED  BY <2>2, <3>1 DEF SaveQuestion, Moves, LockMoves, IInv, TypeOK
    <2>4. InRhythm(c, r, h0)
      BY <2>1 DEF InRhythm, Recorded, Window, Since, Telling, Using
    <2>5. broken' = broken  BY DEF SaveQuestion
    <2>6. 0 < MaxRounds  BY ChatAssumption
    <2> QED  BY <1>1, <1>3, <2>1, <2>3, <2>4, <2>5, <2>6, Moved
  <1> QED  BY <1>4, <1>5 DEF SaveQuestion

\* A window has the end of the history, the question with it.
LEMMA Loading ==
    ASSUME IInv, NEW c \in Call, Load(c), faults' \in 0..MaxFaults PROVE IInv'
  <1> DEFINE h == history[ChatOf[c]]
             s == Recent(h, MaxContext)
             r == [call[c] EXCEPT !.pc = "check", !.messages = s]
  <1>1. /\ call[c] \in CallState /\ call[c].pc = "load" /\ call[c].round = 0
        /\ h \in Seq(Message) /\ MaxContext \in Nat \ {0}
    BY OfCall, ChatAssumption DEF Load, At, IInv, Rounds
  <1>2. s \in Seq(Message)  BY <1>1, RecentIs
  <1>3. call' = [call EXCEPT ![c] = r] /\ history' = [history EXCEPT ![ChatOf[c]] = h]
    BY HistoryKept DEF Load, Becomes
  <1> HIDE DEF h, s
  <1>4. r \in CallState /\ r.pc = "check" /\ r.round = 0 /\ r.messages = s
    BY <1>1, <1>2 DEF CallState, Await
  <1> HIDE DEF r
  <1>5. Moves(c, r, h)
    <2>1. LockMoves(c, r)  BY <1>1, <1>4, LockKept DEF Load, At
    <2> QED  BY <1>3, <2>1 DEF Load, Moves, LockMoves, IInv, TypeOK
  <1>6. ASSUME ChatOf[c] \notin broken PROVE Others(c) /\ InRhythm(c, r, h)
    <2>1. Others(c) /\ InRhythm(c, call[c], h)
      BY <1>1, <1>6, OnlyOne DEF Active, h
    <2>2. Beat(h, 0, 0) /\ EndsWith(h, Question(c))
      BY <1>1, <2>1 DEF InRhythm, Recorded
    <2>3. Recorded(c, r, h)  BY <1>4, <2>2 DEF Recorded, Telling, Using
    <2>4. ASSUME EvenWindows PROVE Window(c, r)
      <3>1. MaxContext % 2 = 0  BY <2>4 DEF EvenWindows
      <3>2. \E j \in 0..Len(s) : j <= 0 /\ Beat(s, j, 0)
        BY <1>1, <2>2, <3>1, RecentBeats DEF s
      <3> QED  BY <1>4, <3>2 DEF Window, Telling, Using
    <2>5. Since(c, r)
      <3>1. 0 < MaxContext /\ 0 < Len(h) /\ Len(h) - 0 = Len(h)
        BY <1>1, <2>2 DEF EndsWith
      <3>2. 0 < Len(s) /\ s[Len(s) - 0] = h[Len(h) - 0]
        BY <1>1, <3>1, RecentFromEnd DEF s
      <3>3. Back(r) = 0  BY <1>4 DEF Back, Using
      <3> QED  BY <1>4, <2>2, <3>1, <3>2, <3>3 DEF Since, EndsWith
    <2> QED  BY <2>1, <2>3, <2>4, <2>5 DEF InRhythm
  <1>7. broken' = broken /\ InChat(r) /\ 0 < MaxRounds
    BY <1>4, ChatAssumption DEF Load, InChat, Telling
  <1> QED  BY <1>1, <1>4, <1>5, <1>6, <1>7, Moved

LEMMA Refusing ==
    ASSUME IInv, NEW c \in Call, Refuse(c), faults' \in 0..MaxFaults PROVE IInv'
  <1>1. breaker' \in BreakerState /\ unreported' \in BOOLEAN
    BY BreakerTyped DEF Refuse, IInv, TypeOK
  <1>2. Breaking(c)  BY <1>1 DEF Refuse, Breaking
  <1>3. \A r \in CallState : r.pc = "done" => LockMoves(c, r)
    BY LockKept DEF Refuse, At
  <1> QED  BY <1>2, <1>3, Broke

LEMMA Admitting ==
    ASSUME IInv, NEW c \in Call, Admit(c), faults' \in 0..MaxFaults PROVE IInv'
  <1> DEFINE h == history[ChatOf[c]]
             m == call[c].messages
             half == Seen.state = "half_open"
  <1>1. PICK s \in Budgeted(m) :
            Becomes(c, [call[c] EXCEPT !.pc = "lock", !.messages = s, !.probe = half,
                                       !.cut = @ \/ s # m])
    BY DEF Admit
  <1>2. /\ call[c] \in CallState /\ call[c].pc = "check" /\ h \in Seq(Message)
        /\ m \in Seq(Message) /\ call[c].round < MaxRounds
    BY OfCall DEF Admit, At
  <1>3. s \in Seq(Message)  BY <1>1, <1>2, BudgetTyped
  <1> DEFINE r == [call[c] EXCEPT !.pc = "lock", !.messages = s, !.probe = half,
                                  !.cut = call[c].cut \/ s # m]
  <1>4. call' = [call EXCEPT ![c] = r]  BY <1>1 DEF Becomes
  <1>5. /\ r \in CallState /\ r.pc = "lock" /\ r.round = call[c].round /\ r.messages = s
        /\ ~r.cut => ~call[c].cut /\ s = m
    <2>1. half \in BOOLEAN /\ (call[c].cut \/ s # m) \in BOOLEAN  OBVIOUS
    <2>2. \A x, y \in BOOLEAN :
              [call[c] EXCEPT !.pc = "lock", !.messages = s, !.probe = x, !.cut = y]
                  \in CallState
      BY <1>2, <1>3 DEF CallState, Await
    <2>3. r \in CallState  BY <2>1, <2>2
    <2>4. r.pc = "lock" /\ r.round = call[c].round /\ r.messages = s
          /\ r.cut = (call[c].cut \/ s # m)
      BY <1>2 DEF CallState
    <2> QED  BY <2>3, <2>4
  <1> HIDE DEF r, half, h, m
  <1>6. breaker' \in BreakerState
    <2>1. half \in BOOLEAN  BY DEF half
    <2>2. breaker' = [Seen EXCEPT !.used = half]  BY DEF Admit, half
    <2> QED  BY <2>1, <2>2, BreakerTyped
  <1>7. Moves(c, r, h)
    <2>1. LockMoves(c, r)  BY <1>2, <1>5, LockKept DEF Admit, At
    <2>2. history' = [history EXCEPT ![ChatOf[c]] = h]  BY HistoryKept DEF Admit, h
    <2> QED  BY <1>4, <1>6, <2>1, <2>2 DEF Admit, Moves, LockMoves, IInv, TypeOK
  <1>8. ASSUME ChatOf[c] \notin broken PROVE Others(c) /\ InRhythm(c, r, h)
    <2>1. Others(c) /\ InRhythm(c, call[c], h)
      BY <1>2, <1>8, OnlyOne DEF Active, h
    <2>2. Recorded(c, r, h)
      BY <1>2, <1>5, <2>1 DEF InRhythm, Recorded, Telling, Using
    <2>3. ASSUME EvenWindows PROVE Window(c, r)
      <3>1. PICK k \in 0..Len(m) : Beat(m, k, 0)
        BY <1>2, <2>1, <2>3 DEF InRhythm, Window, Telling, m
      <3>2. k \in Nat  OBVIOUS
      <3>3. \E j \in 0..Len(s) : Beat(s, j, 0)  BY <1>2, <2>3, <3>1, <3>2, BudgetBeats
      <3> QED  BY <1>5, <3>3 DEF Window, Telling, Using
    <2>4. ASSUME RoundsFit PROVE Since(c, r)
      <3>1. Since(c, call[c])  BY <2>1, <2>4 DEF InRhythm
      <3>2. Back(r) = Back(call[c])  BY <1>2, <1>5 DEF Back, Using
      <3> QED  BY <1>2, <1>5, <3>1, <3>2 DEF Since, Telling, Using, m
    <2> QED  BY <2>1, <2>2, <2>3, <2>4 DEF InRhythm
  <1>9. broken' = broken /\ InChat(r)  BY <1>5 DEF Admit, InChat, Telling
  <1> QED  BY <1>2, <1>5, <1>7, <1>8, <1>9, Moved

\* A step from one place to another that looks the same from outside.
LEMMA Passing ==
    ASSUME IInv, NEW c \in Call, NEW r \in CallState,
           r.round = call[c].round, r.messages = call[c].messages, r.cut = call[c].cut,
           \/ call[c].pc \in Telling /\ r.pc \in Telling
           \/ call[c].pc \in Using /\ r.pc \in Using,
           call' = [call EXCEPT ![c] = r], LockMoves(c, r),
           history' = history, swap' = swap, broken' = broken, breaker' \in BreakerState,
           unreported' = unreported, faults' \in 0..MaxFaults
    PROVE  IInv'
  <1> DEFINE h == history[ChatOf[c]]
  <1>1. h \in Seq(Message) /\ call[c].round < MaxRounds  BY OfCall
  <1>2. history' = [history EXCEPT ![ChatOf[c]] = h]  BY HistoryKept
  <1> HIDE DEF h
  <1>3. Moves(c, r, h)  BY <1>2 DEF Moves, LockMoves, IInv, TypeOK
  <1>4. r.pc \notin {"idle", "save", "load"} /\ InChat(r) /\ Active(c)
    BY DEF Telling, Using, InChat, Active
  <1>5. ASSUME ChatOf[c] \notin broken PROVE Others(c) /\ InRhythm(c, r, h)
    <2>1. Others(c) /\ InRhythm(c, call[c], h)  BY <1>4, <1>5, OnlyOne DEF h
    <2>2. Use(c, r) = Use(c, call[c])  BY DEF Use
    <2>3. Recorded(c, r, h)
      BY <1>4, <2>1, <2>2 DEF InRhythm, Recorded, Telling, Using
    <2>4. Window(c, call[c]) => Window(c, r)
      BY <2>2 DEF Window, Telling, Using
    <2>5. Back(r) = Back(call[c])  BY DEF Back, Telling, Using
    <2>6. Since(c, call[c]) => Since(c, r)  BY <2>5 DEF Since
    <2> QED  BY <2>1, <2>3, <2>4, <2>6 DEF InRhythm
  <1> QED  BY <1>1, <1>3, <1>4, <1>5, Moved

LEMMA TakingLock ==
    ASSUME IInv, NEW c \in Call, TakeLock(c), faults' \in 0..MaxFaults PROVE IInv'
  <1> DEFINE r == [call[c] EXCEPT !.pc = "asking"]
  <1>1. call[c] \in CallState /\ call[c].pc = "lock"  BY OfCall DEF TakeLock, At
  <1>2. /\ r \in CallState /\ r.pc = "asking" /\ r.round = call[c].round
        /\ r.messages = call[c].messages /\ r.cut = call[c].cut
    BY <1>1 DEF CallState, Await
  <1>3. call' = [call EXCEPT ![c] = r]  BY DEF TakeLock, GoTo, Becomes
  <1> HIDE DEF r
  <1>4. LockMoves(c, r)
    <2>1. NoCall \notin Call  BY ChatAssumption
    <2> QED  BY <1>2, <2>1 DEF TakeLock, LockMoves
  <1>5. call[c].pc \in Telling /\ r.pc \in Telling  BY <1>1, <1>2 DEF Telling
  <1> QED  BY <1>2, <1>3, <1>4, <1>5, BreakerTyped, Passing DEF TakeLock

LEMMA Answering ==
    ASSUME IInv, NEW c \in Call, Answer(c), faults' \in 0..MaxFaults PROVE IInv'
  <1>1. PICK reply \in {"use", "text"} :
            Becomes(c, [call[c] EXCEPT !.pc = "answer", !.reply = reply, !.probe = FALSE])
    BY DEF Answer
  <1> DEFINE r == [call[c] EXCEPT !.pc = "answer", !.reply = reply, !.probe = FALSE]
  <1>2. call[c] \in CallState /\ call[c].pc = "asking"  BY OfCall DEF Answer, At
  <1>3. /\ r \in CallState /\ r.pc = "answer" /\ r.round = call[c].round
        /\ r.messages = call[c].messages /\ r.cut = call[c].cut
    BY <1>2 DEF CallState, Await
  <1>4. call' = [call EXCEPT ![c] = r]  BY <1>1 DEF Becomes
  <1> HIDE DEF r
  <1>5. LockMoves(c, r)  BY <1>3, LockFreed DEF Answer
  <1>6. breaker' \in BreakerState  BY BreakerTyped DEF Answer
  <1>7. call[c].pc \in Telling /\ r.pc \in Telling  BY <1>2, <1>3 DEF Telling
  <1> QED  BY <1>3, <1>4, <1>5, <1>6, <1>7, Passing DEF Answer

LEMMA RunningTools ==
    ASSUME IInv, NEW c \in Call, RunTools(c), faults' \in 0..MaxFaults PROVE IInv'
  <1> DEFINE r == [call[c] EXCEPT !.pc = "results"]
  <1>1. call[c] \in CallState /\ call[c].pc = "tools"  BY OfCall DEF RunTools, At
  <1>2. /\ r \in CallState /\ r.pc = "results" /\ r.round = call[c].round
        /\ r.messages = call[c].messages /\ r.cut = call[c].cut
    BY <1>1 DEF CallState, Await
  <1>3. call' = [call EXCEPT ![c] = r]  BY DEF RunTools, GoTo, Becomes
  <1> HIDE DEF r
  <1>4. LockMoves(c, r)  BY <1>1, <1>2, LockKept DEF RunTools, At
  <1>5. call[c].pc \in Using /\ r.pc \in Using  BY <1>1, <1>2 DEF Using
  <1> QED  BY <1>2, <1>3, <1>4, <1>5, BreakerTyped, Passing DEF RunTools

\* How far the question is from the end, before and after one more message.
LEMMA Distance ==
    \A l, b \in Nat :
        l > b => (l + 1) - (b + 1) = l - b /\ l - b \in 1..l /\ l + 1 > b + 1 /\ b + 1 \in Nat
  OBVIOUS

\* The answer follows what was told: a text rests the chat, a use calls for its results.
LEMMA Answered ==
    ASSUME IInv, NEW c \in Call, SaveAnswer(c), faults' \in 0..MaxFaults PROVE IInv'
  <1> DEFINE k == ChatOf[c]
             h0 == history[k]
             m == Says(c, call[c].reply)
             h == Append(h0, m)
  <1>1. /\ call[c] \in CallState /\ call[c].pc = "answer" /\ call[c].round < MaxRounds
        /\ h0 \in Seq(Message) /\ call[c].messages \in Seq(Message)
    BY OfCall DEF SaveAnswer, At
  <1>2. call[c].reply \in {"use", "text"}  BY <1>1 DEF CallState
  <1>3. m \in Message /\ m.is = call[c].reply  BY <1>2, OfCall DEF Says
  <1>4. h \in Seq(Message) /\ history' = [history EXCEPT ![k] = h]
    BY <1>3, Appended DEF SaveAnswer
  <1>5. EndsWith(h, m)  BY <1>1, <1>3 DEF EndsWith
  <1> HIDE DEF h0
  <1>6. ASSUME k \notin broken PROVE Others(c) /\ InRhythm(c, call[c], h0)
    BY <1>1, <1>6, OnlyOne DEF Active, h0
  <1>7. ASSUME NEW s \in Seq(Message), NEW j \in Nat, Beat(s, j, 0)
        PROVE  Beat(Append(s, m), j, 1)
    <2>1. m.is # "summary" /\ m.is # "results" /\ (Told(m) <=> 0 = 1)
      BY <1>2, <1>3 DEF Told
    <2>2. ASSUME j < Len(s) PROVE Linked(s[Len(s)], m)
      <3>1. Len(s) \in 1..Len(s) /\ Len(s) > j  BY <2>2
      <3>2. (Len(s) - Len(s)) % 2 = 0  BY <3>1
      <3>3. Told(s[Len(s)])  BY <1>7, <3>1, <3>2 DEF Beat
      <3> QED  BY <2>1, <3>3 DEF Told, Linked
    <2>3. Beat(Append(s, m), j, 1 - 0)  BY <1>3, <1>7, <2>1, <2>2, AppendBeats
    <2> QED  BY <2>3
  <1>8. ASSUME k \notin broken PROVE Beat(h, 0, 1)
    <2>1. Beat(h0, 0, 0)  BY <1>1, <1>6, <1>8 DEF InRhythm, Recorded, Telling
    <2> QED  BY <1>1, <1>7, <2>1
  <1>9. CASE m.is = "text"
    <2> DEFINE r == [call[c] EXCEPT !.pc = "done", !.messages = <<>>, !.probe = FALSE]
    <2>1. r \in CallState /\ r.pc = "done" /\ r.round = call[c].round
      <3>1. <<>> \in Seq(Message)  OBVIOUS
      <3> QED  BY <1>1, <3>1 DEF CallState, Await
    <2>2. call' = [call EXCEPT ![c] = r]
      BY <1>9 DEF SaveAnswer, Done, Becomes
    <2> HIDE DEF r, m, h
    <2>3. Moves(c, r, h)
      <3>1. LockMoves(c, r)  BY <1>1, <2>1, LockKept DEF SaveAnswer, At
      <3> QED  BY <1>4, <2>2, <3>1 DEF SaveAnswer, Moves, LockMoves, IInv, TypeOK
    <2>4. InRhythm(c, r, h)
      BY <2>1 DEF InRhythm, Recorded, Window, Since, Telling, Using
    <2>5. k \notin broken => Quiet(h)  BY <1>5, <1>8, <1>9 DEF Quiet, EndsWith
    <2>6. broken' = broken  BY DEF SaveAnswer
    <2> QED  BY <1>1, <1>4, <1>6, <2>1, <2>3, <2>4, <2>5, <2>6, Moved
  <1>10. CASE m.is = "use"
    <2> DEFINE w0 == call[c].messages
               w == Append(w0, m)
               r == [call[c] EXCEPT !.pc = "tools", !.messages = w]
    <2>1. w \in Seq(Message) /\ EndsWith(w, m) /\ Len(w) = Len(w0) + 1 /\ Len(w0) \in Nat
          /\ \A i \in 1..Len(w0) : w[i] = w0[i]
      BY <1>1, <1>3 DEF EndsWith
    <2>2. call' = [call EXCEPT ![c] = r]
      BY <1>10 DEF SaveAnswer, Becomes
    <2> HIDE DEF w
    <2>3. /\ r \in CallState /\ r.pc = "tools" /\ r.round = call[c].round
          /\ r.messages = w /\ r.cut = call[c].cut
      BY <1>1, <2>1 DEF CallState, Await
    <2>4. m = Use(c, r)  BY <1>3, <1>10, <2>3 DEF Says, Use
    <2> HIDE DEF r, w0, m, h
    <2>5. Moves(c, r, h)
      <3>1. LockMoves(c, r)  BY <1>1, <2>3, LockKept DEF SaveAnswer, At
      <3> QED  BY <1>4, <2>2, <3>1 DEF SaveAnswer, Moves, LockMoves, IInv, TypeOK
    <2>6. ASSUME k \notin broken PROVE InRhythm(c, r, h)
      <3>1. Recorded(c, r, h)
        BY <1>5, <1>8, <2>3, <2>4, <2>6 DEF Recorded, Telling, Using
      <3>2. ASSUME EvenWindows PROVE Window(c, r)
        <4>1. PICK j \in 0..Len(w0) : Beat(w0, j, 0)
          BY <1>1, <1>6, <2>6, <3>2 DEF InRhythm, Window, Telling, w0
        <4>2. j \in Nat /\ j \in 0..Len(w)  BY <2>1
        <4>3. Beat(w, j, 1)  BY <1>1, <1>7, <4>1, <4>2 DEF w, w0
        <4> QED  BY <2>1, <2>3, <2>4, <4>2, <4>3 DEF Window, Telling, Using
      <3>3. ASSUME RoundsFit PROVE Since(c, r)
        <4> SUFFICES ASSUME ~call[c].cut
                     PROVE  Len(w) > Back(r) /\ w[Len(w) - Back(r)] = Question(c)
          BY <2>3 DEF Since
        <4>1. call[c].round \in Nat  BY OfCall
        <4>2. Back(call[c]) \in Nat /\ Back(r) = Back(call[c]) + 1
          <5>1. Back(r) = 2 * r.round + 1 /\ Back(call[c]) = 2 * call[c].round + 0
            BY <1>1, <2>3 DEF Back, Using
          <5> QED  BY <2>3, <4>1, <5>1
        <4>3. Since(c, call[c])  BY <1>6, <2>6, <3>3 DEF InRhythm
        <4>4. Len(w0) > Back(call[c]) /\ w0[Len(w0) - Back(call[c])] = Question(c)
          BY <1>1, <4>3 DEF Since, Telling, w0
        <4>5. /\ Len(w) - Back(r) = Len(w0) - Back(call[c])
              /\ Len(w0) - Back(call[c]) \in 1..Len(w0) /\ Len(w) > Back(r)
          BY <2>1, <4>2, <4>4, Distance
        <4> QED  BY <2>1, <4>4, <4>5
      <3> QED  BY <3>1, <3>2, <3>3 DEF InRhythm
    <2>7. broken' = broken /\ InChat(r)  BY <2>3 DEF SaveAnswer, InChat, Using
    <2> QED  BY <1>1, <1>4, <1>6, <2>3, <2>5, <2>6, <2>7, Moved
  <1> QED  BY <1>2, <1>3, <1>9, <1>10

\* The results follow their use, and the window takes both messages of the round.
LEMMA Resulting ==
    ASSUME IInv, NEW c \in Call, SaveResults(c), faults' \in 0..MaxFaults PROVE IInv'
  <1> DEFINE k == ChatOf[c]
             h0 == history[k]
             m == Says(c, "results")
             h == Append(h0, m)
             w0 == call[c].messages
             w1 == Append(w0, m)
             w == Recent(w1, MaxContext)
  <1>1. /\ call[c] \in CallState /\ call[c].pc = "results" /\ MaxContext \in Nat \ {0}
        /\ h0 \in Seq(Message) /\ w0 \in Seq(Message)
        /\ call[c].round \in Nat /\ call[c].round < MaxRounds /\ MaxRounds \in Nat
    BY OfCall, ChatAssumption DEF SaveResults, At
  <1>2. m \in Message /\ m.is = "results"  BY OfCall DEF Says
  <1>3. h \in Seq(Message) /\ history' = [history EXCEPT ![k] = h]
    BY <1>2, Appended DEF SaveResults
  <1> HIDE DEF h0
  <1>4. CASE call[c].round + 1 = MaxRounds
    <2>1. Breaking(c)
      BY <1>4, BreakerTyped DEF SaveResults, Breaking, IInv, TypeOK
    <2>2. \A r \in CallState : r.pc = "done" => LockMoves(c, r)
      BY <1>1, LockKept DEF SaveResults, At
    <2> QED  BY <2>1, <2>2, Broke
  <1>5. CASE call[c].round + 1 # MaxRounds
    <2> DEFINE n == call[c].round + 1
               r == [call[c] EXCEPT !.pc = "check", !.round = n, !.messages = w]
    <2>1. /\ w1 \in Seq(Message) /\ Len(w1) = Len(w0) + 1 /\ Len(w0) \in Nat
          /\ \A i \in 1..Len(w0) : w1[i] = w0[i]
      BY <1>1, <1>2
    <2>2. call' = [call EXCEPT ![c] = r] /\ broken' = broken
      BY <1>5 DEF SaveResults, Becomes
    <2> HIDE DEF w1
    <2>3. w \in Seq(Message)  BY <1>1, <2>1, RecentIs
    <2>4. n \in Nat /\ n < MaxRounds /\ n \in 0..MaxRounds  BY <1>1, <1>5
    <2> HIDE DEF w
    <2>5. /\ r \in CallState /\ r.pc = "check" /\ r.round = n
          /\ r.messages = w /\ r.cut = call[c].cut
      BY <1>1, <2>3, <2>4 DEF CallState, Await
    <2> HIDE DEF r
    <2>6. Moves(c, r, h)
      <3>1. LockMoves(c, r)  BY <1>1, <2>5, LockKept DEF SaveResults, At
      <3> HIDE DEF h
      <3> QED  BY <1>3, <2>2, <3>1 DEF SaveResults, Moves, LockMoves, IInv, TypeOK
    <2>7. ASSUME k \notin broken PROVE Others(c) /\ InRhythm(c, call[c], h0)
      BY <1>1, <2>7, OnlyOne DEF Active, h0
    <2>8. ASSUME NEW s \in Seq(Message), NEW j \in Nat, Beat(s, j, 1),
                 EndsWith(s, Use(c, call[c]))
          PROVE  Beat(Append(s, m), j, 0)
      <3>1. m.is # "summary" /\ (Told(m) <=> 1 = 1)  BY <1>2 DEF Told
      <3>2. Linked(s[Len(s)], m)
        BY <2>8 DEF EndsWith, Use, Linked, Says
      <3>3. j # Len(s)
        <4>1. Len(s) \in 1..Len(s) /\ s[Len(s)].is = "use"  BY <2>8 DEF EndsWith, Use
        <4>2. Len(s) <= j => s[Len(s)].is = "summary"  BY <2>8, <4>1 DEF Beat
        <4> QED  BY <4>1, <4>2
      <3>4. Beat(Append(s, m), j, 1 - 1)
        BY <1>2, <2>8, <3>1, <3>2, <3>3, AppendBeats
      <3> QED  BY <3>4
    <2> HIDE DEF m, n
    <2>9. ASSUME k \notin broken PROVE InRhythm(c, r, h)
      <3>1. Recorded(c, r, h)
        <4>1. Beat(h0, 0, 1) /\ EndsWith(h0, Use(c, call[c]))
          BY <1>1, <2>7, <2>9 DEF InRhythm, Recorded, Using
        <4>2. Beat(h, 0, 0)  BY <1>1, <2>8, <4>1
        <4> QED  BY <2>5, <4>2 DEF Recorded, Telling, Using
      <3>2. ASSUME EvenWindows PROVE Window(c, r)
        <4>1. PICK j \in 0..Len(w0) : Beat(w0, j, 1)
          BY <1>1, <2>7, <2>9, <3>2 DEF InRhythm, Window, Using
        <4>2. EndsWith(w0, Use(c, call[c]))
          BY <1>1, <2>7, <2>9, <3>2 DEF InRhythm, Window, Using
        <4>3. j \in Nat  OBVIOUS
        <4>4. Beat(w1, j, 0)  BY <1>1, <2>8, <4>1, <4>2, <4>3 DEF w1
        <4>5. MaxContext % 2 = 0  BY <3>2 DEF EvenWindows
        <4>6. \E i \in 0..Len(w) : Beat(w, i, 0)
          BY <1>1, <2>1, <4>3, <4>4, <4>5, RecentBeats DEF w
        <4> QED  BY <2>5, <4>6 DEF Window, Telling, Using
      <3>3. ASSUME RoundsFit PROVE Since(c, r)
        <4> SUFFICES ASSUME ~call[c].cut
                     PROVE  Len(w) > Back(r) /\ w[Len(w) - Back(r)] = Question(c)
          BY <2>5 DEF Since
        <4>1. Back(call[c]) \in Nat /\ Back(r) = Back(call[c]) + 1 /\ Back(r) < MaxContext
          <5>1. Back(r) = 2 * r.round + 0 /\ Back(call[c]) = 2 * call[c].round + 1
            BY <1>1, <2>5 DEF Back, Using
          <5>2. 2 * MaxRounds <= MaxContext + 1  BY <3>3 DEF RoundsFit
          <5>3. r.round = call[c].round + 1 /\ r.round \in Nat /\ r.round < MaxRounds
            BY <2>4, <2>5 DEF n
          <5>4. Back(call[c]) \in Nat /\ Back(r) = Back(call[c]) + 1
            BY <1>1, <5>1, <5>3
          <5>5. \A x, y, z \in Nat : x < y /\ 2 * y <= z + 1 => 2 * x + 0 < z  OBVIOUS
          <5>6. 2 * r.round + 0 < MaxContext  BY <1>1, <5>2, <5>3, <5>5
          <5> QED  BY <5>1, <5>4, <5>6
        <4>2. Since(c, call[c])  BY <2>7, <2>9, <3>3 DEF InRhythm
        <4>3. Len(w0) > Back(call[c]) /\ w0[Len(w0) - Back(call[c])] = Question(c)
          BY <1>1, <4>2 DEF Since, Using
        <4>4. /\ Len(w1) - Back(r) = Len(w0) - Back(call[c])
              /\ Len(w0) - Back(call[c]) \in 1..Len(w0) /\ Len(w1) > Back(r)
              /\ Back(r) \in Nat /\ Back(r) < MaxContext
          <5>1. Len(w1) = Len(w0) + 1 /\ Len(w0) \in Nat  BY <2>1
          <5> QED  BY <4>1, <4>3, <5>1, Distance
        <4>5. Len(w) > Back(r) /\ w[Len(w) - Back(r)] = w1[Len(w1) - Back(r)]
          BY <1>1, <2>1, <4>4, RecentFromEnd DEF w
        <4> QED  BY <2>1, <4>3, <4>4, <4>5
      <3> QED  BY <3>1, <3>2, <3>3 DEF InRhythm
    <2>10. InChat(r)  BY <2>5 DEF InChat, Telling
    <2> QED  BY <1>3, <2>2, <2>4, <2>5, <2>6, <2>7, <2>9, <2>10, Moved
  <1> QED  BY <1>4, <1>5

LEMMA Failing ==
    ASSUME IInv, NEW c \in Call, Fails(c), faults' \in 0..MaxFaults PROVE IInv'
  <1>1. unreported \in BOOLEAN /\ (unreported \/ call[c].probe) \in BOOLEAN
    BY DEF IInv, TypeOK
  <1>2. breaker \in BreakerState  BY BreakerTyped
  <1>3. call[c].reply \in {"use", "text"}
    BY OfCall DEF CallState
  <1>4. CASE ProviderFails(c)
    <2>1. Breaking(c)  BY <1>1, <1>2, <1>4 DEF ProviderFails, Breaking
    <2>2. \A r \in CallState : r.pc = "done" => LockMoves(c, r)
      BY <1>4, LockFreed DEF ProviderFails
    <2> QED  BY <2>1, <2>2, Broke
  <1>5. CASE ToolsRaise(c)
    <2>1. Breaking(c)  BY <1>1, <1>2, <1>5 DEF ToolsRaise, Breaking
    <2>2. \A r \in CallState : r.pc = "done" => LockMoves(c, r)
      BY <1>5, LockKept DEF ToolsRaise, At
    <2> QED  BY <2>1, <2>2, Broke
  <1>6. CASE DatabaseFails(c)
    <2>1. /\ Done(c) /\ Breaks(c) /\ swap' = swap /\ lock' = lock
          /\ breaker' = breaker /\ unreported' = unreported /\ ~At(c, "asking")
      BY <1>6 DEF DatabaseFails, At
    <2>2. \/ history' = history
          \/ \E is \in {"question", "use", "results", "text"} : Save(c, Says(c, is))
      BY <1>3, <1>6 DEF DatabaseFails
    <2>3. Breaking(c)  BY <1>1, <1>2, <2>1, <2>2 DEF Breaking
    <2>4. \A r \in CallState : r.pc = "done" => LockMoves(c, r)
      BY <2>1, LockKept
    <2> QED  BY <2>3, <2>4, Broke
  <1>7. CASE Cancel(c)
    <2>1. /\ Done(c) /\ Breaks(c) /\ swap' = swap /\ breaker' = breaker
          /\ unreported' = (unreported \/ call[c].probe)
          /\ lock' = IF lock = c THEN NoCall ELSE lock
      BY <1>7 DEF Cancel
    <2>2. \/ history' = history
          \/ \E is \in {"question", "use", "results", "text"} : Save(c, Says(c, is))
      BY <1>3, <1>7 DEF Cancel
    <2>3. Breaking(c)  BY <1>1, <1>2, <2>1, <2>2 DEF Breaking
    <2>4. \A r \in CallState : r.pc = "done" => LockMoves(c, r)
      <3>1. At(c, "asking") <=> lock = c  BY DEF IInv, TypeOK
      <3> QED  BY <2>1, <3>1, LockKept, LockFreed
    <2> QED  BY <2>3, <2>4, Broke
  <1> QED  BY <1>4, <1>5, <1>6, <1>7 DEF Fails

LEMMA Beginning == Init => IInv
  <1> SUFFICES ASSUME Init PROVE IInv  OBVIOUS
  <1>1. <<>> \in Seq(Message)  OBVIOUS
  <1>2. \A c \in Call : call[c].pc = "idle" /\ call[c].round = 0  BY DEF Init
  <1>3. MaxRounds \in Nat \ {0} /\ MaxFaults \in Nat /\ NoCall \notin Call
    BY ChatAssumption
  <1>4. TypeOK
    <2>1. call \in [Call -> CallState]  BY <1>1, <1>3 DEF Init, CallState, Await
    <2>2. history \in [Chat -> Seq(Message)]  BY <1>1 DEF Init
    <2>3. \A c \in Call : At(c, "asking") <=> lock = c
      BY <1>2, <1>3 DEF Init, At
    <2>4. breaker \in BreakerState  BY DEF Init, BreakerState
    <2>5. lock = NoCall /\ swap = "idle" /\ broken = {} /\ unreported = FALSE /\ faults = 0
      BY DEF Init
    <2>6. faults \in 0..MaxFaults  BY <1>3, <2>5
    <2> QED  BY <2>1, <2>2, <2>3, <2>4, <2>5, <2>6 DEF TypeOK
  <1>5. Rounds  BY <1>2, <1>3 DEF Rounds
  <1>6. Quiet(<<>>)  BY DEF Quiet, Beat
  <1>7. \A c \in Call : \A h : ~Active(c) /\ InRhythm(c, call[c], h)
    BY <1>2 DEF Active, InRhythm, Recorded, Window, Since, Telling, Using
  <1>8. \A k \in Chat : history[k] = <<>>  BY DEF Init
  <1>9. Rhythm  BY <1>6, <1>7, <1>8 DEF Rhythm
  <1> QED  BY <1>4, <1>5, <1>9 DEF IInv

LEMMA Stepping == IInv /\ [Next]_vars => IInv'
  <1> SUFFICES ASSUME IInv, [Next]_vars PROVE IInv'  OBVIOUS
  <1>1. faults \in 0..MaxFaults /\ MaxFaults \in Nat  BY ChatAssumption DEF IInv, TypeOK
  <1>2. ASSUME UNCHANGED <<history, call, lock, broken, unreported>>,
               swap' \in {"idle", "waiting", "done"}, breaker' \in BreakerState,
               faults' = faults
        PROVE  IInv'
    <2>1. TypeOK'  BY <1>2 DEF IInv, TypeOK, At
    <2>2. Rounds' /\ Rhythm'
      BY <1>2 DEF IInv, Rounds, Rhythm, Whole, Active, Others
    <2> QED  BY <2>1, <2>2 DEF IInv
  <1>3. CASE UNCHANGED vars
    BY <1>2, <1>3 DEF vars, IInv, TypeOK
  <1>4. ASSUME NEW c \in Call, Start(c) \/ Proceed(c), faults' = faults PROVE IInv'
    <2>1. faults' \in 0..MaxFaults  BY <1>1, <1>4
    <2> QED
      BY <1>4, <2>1, Starting, Asking, Loading, Refusing, Admitting, TakingLock, Answering,
         Answered, RunningTools, Resulting DEF Proceed
  <1>5. CASE Swap /\ faults' = faults
    BY <1>2, <1>5 DEF Swap, IInv, TypeOK
  <1>6. CASE Wait /\ faults' = faults
    BY <1>2, <1>6, BreakerTyped DEF Wait, IInv, TypeOK
  <1>7. ASSUME NEW c \in Call, Fails(c), faults < MaxFaults, faults' = faults + 1 PROVE IInv'
    <2>1. faults' \in 0..MaxFaults  BY <1>1, <1>7
    <2> QED  BY <1>7, <2>1, Failing
  <1> QED  BY <1>3, <1>4, <1>5, <1>6, <1>7 DEF Next

LEMMA Invariance == Spec => []IInv
  BY Beginning, Stepping, PTL DEF Spec

\* The history, the calls, the provider lock and the circuit breaker keep to their
\* types, and the lock is with the call that asks, whatever fails or is cancelled
\* (router.py:420-437, 596-850).
THEOREM TypeCorrect == Spec => []TypeOK
  BY Invariance, PTL DEF IInv

\* With even windows, no request parts a tool's use from its results (router.py:597,
\* token_budget.py:167-285), however many rounds and messages there are and whatever
\* the budget drops or summarizes.
THEOREM PairsKept ==
    ASSUME EvenWindows
    PROVE  Spec => []Paired
  <1>1. IInv => Paired
    <2> SUFFICES ASSUME IInv, NEW c \in Call, At(c, "asking"), ChatOf[c] \notin broken
                 PROVE  WellFormed(call[c].messages)
      BY DEF Paired, Requests
    <2>1. Active(c)  BY DEF Active, At
    <2>2. PICK k \in 0..Len(call[c].messages) : Beat(call[c].messages, k, 0)
      BY <2>1, OnlyOne DEF InRhythm, Window, Telling, At
    <2>3. k \in Nat  OBVIOUS
    <2> QED  BY <2>2, <2>3, OfCall, BeatAccepted
  <1> QED  BY <1>1, Invariance, PTL

\* With a window that holds what all rounds add, every request shows the model the
\* question it is to answer (router.py:268, 596-850), as long as the budget has cut
\* nothing.
THEOREM QuestionShown ==
    ASSUME RoundsFit
    PROVE  Spec => []QuestionKept
  <1>1. IInv => QuestionKept
    <2> SUFFICES ASSUME IInv, NEW c \in Call, At(c, "asking"), ~call[c].cut,
                        ChatOf[c] \notin broken
                 PROVE  Contains(call[c].messages, Question(c))
      BY DEF QuestionKept, Requests, Question
    <2>1. Active(c) /\ call[c].pc \in Telling  BY DEF Active, At, Telling
    <2>2. Since(c, call[c])  BY <2>1, OnlyOne DEF InRhythm
    <2> DEFINE m == call[c].messages
               b == Back(call[c])
    <2>3. Len(m) > b /\ m[Len(m) - b] = Question(c)  BY <2>1, <2>2 DEF Since
    <2>4. b \in Nat /\ Len(m) \in Nat
      <3>1. call[c].round \in Nat /\ m \in Seq(Message)  BY OfCall
      <3> HIDE DEF m
      <3> QED  BY <3>1 DEF Back
    <2> HIDE DEF m, b
    <2>5. Len(m) - b \in 1..Len(m)  BY <2>3, <2>4
    <2>6. Contains(m, Question(c))  BY <2>3, <2>5 DEF Contains
    <2> QED  BY <2>6 DEF m
  <1> QED  BY <1>1, Invariance, PTL
=============================================================================
