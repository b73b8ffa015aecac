------------------------------ MODULE AgentChat ------------------------------
(***************************************************************************)
(* LLMRouter.chat: the rounds of asking the provider and running tools,    *)
(* the history of each chat, the budget of a request (TokenBudgetManager), *)
(* the circuit breaker (TokenCircuitBreaker) and the provider lock.  Front *)
(* ends call it concurrently, for one chat too.                            *)
(***************************************************************************)
EXTENDS Naturals, Sequences, SequencesExt

CONSTANTS
    Call, NoCall,      \* calls of chat()
    Chat, ChatOf,      \* the chat_id of a call
    Swapper,           \* a call of reload_provider
    MaxRounds,         \* MAX_TOOL_ROUNDS
    MaxContext,        \* max_context
    Preserve,          \* messages_to_preserve
    Faults,            \* what may fail
    MaxFaults          \* bound: how often

Fault == {"provider", "tool", "database", "cancel", "spike"}

ASSUME ChatAssumption ==
    /\ NoCall \notin Call \cup {Swapper} /\ Swapper \notin Call
    /\ ChatOf \in [Call -> Chat]
    /\ {MaxRounds, MaxContext, Preserve} \subseteq Nat \ {0}
    /\ Faults \subseteq Fault /\ MaxFaults \in Nat

\* A message is told apart by the call and the round it belongs to.
Message == [by : Call \cup {NoCall}, round : 0..MaxRounds,
            is : {"question", "use", "results", "text", "summary"}]
Summary == [by |-> NoCall, round |-> 0, is |-> "summary"]

VARIABLES
    history,    \* chat_history, per chat
    call,       \* the calls
    lock,       \* who has _provider_lock
    swap,       \* reload_provider
    breaker,    \* the circuit breaker, and whether its recovery time is over
    broken,     \* chats with a call that was cut short or met another one (history)
    unreported, \* a probe has ended and the breaker was not told (history)
    faults      \* how often something has failed (history)

vars == <<history, call, lock, swap, breaker, broken, unreported, faults>>

Await == {"save", "load", "check", "lock", "asking", "answer", "tools", "results"}
CallState ==
    [pc : Await \cup {"idle", "done"},
     round : 0..MaxRounds,
     messages : Seq(Message),
     reply : {"use", "text"},
     probe : BOOLEAN,       \* its request was admitted half-open (history)
     cut : BOOLEAN]         \* the budget has shortened its messages (history)
BreakerState == [state : {"closed", "open", "half_open"}, used : BOOLEAN, waited : BOOLEAN]

Init ==
    /\ history = [k \in Chat |-> <<>>]
    /\ call = [c \in Call |-> [pc |-> "idle", round |-> 0, messages |-> <<>>, reply |-> "text",
                               probe |-> FALSE, cut |-> FALSE]]
    /\ lock = NoCall
    /\ swap = "idle"
    /\ breaker = [state |-> "closed", used |-> FALSE, waited |-> FALSE]
    /\ broken = {} /\ unreported = FALSE /\ faults = 0

At(c, pc) == call[c].pc = pc
Active(c) == call[c].pc \notin {"idle", "done"}
Becomes(c, r) == call' = [call EXCEPT ![c] = r]
Done(c) == Becomes(c, [call[c] EXCEPT !.pc = "done", !.messages = <<>>, !.probe = FALSE])
GoTo(c, pc) == Becomes(c, [call[c] EXCEPT !.pc = pc])
Says(c, is) == [by |-> c, round |-> call[c].round, is |-> is]

\* list[-n:]
Recent(s, n) == IF Len(s) <= n THEN s ELSE SubSeq(s, Len(s) - n + 1, Len(s))

Save(c, m) == history' = [history EXCEPT ![ChatOf[c]] = Append(@, m)]
Breaks(c) == broken' = broken \cup {ChatOf[c]}

Start(c) ==
    /\ At(c, "idle")
    /\ GoTo(c, "save")
    /\ IF \E d \in Call \ {c} : Active(d) /\ ChatOf[d] = ChatOf[c] THEN Breaks(c) ELSE UNCHANGED broken
    /\ UNCHANGED <<history, lock, swap, breaker, unreported>>

\* The input gate has let the question through, or not.
SaveQuestion(c) ==
    /\ At(c, "save")
    /\ \/ /\ Save(c, Says(c, "question"))
          /\ GoTo(c, "load")
       \/ Done(c) /\ UNCHANGED history
    /\ UNCHANGED <<lock, swap, breaker, broken, unreported>>

\* Mutated form: one message fewer.
LoadFewer(c) ==
    /\ At(c, "load")
    /\ Becomes(c, [call[c] EXCEPT !.pc = "check",
                                  !.messages = Recent(history[ChatOf[c]], MaxContext - 1)])
    /\ UNCHANGED <<history, lock, swap, breaker, broken, unreported>>

Load(c) ==
    /\ At(c, "load")
    /\ Becomes(c, [call[c] EXCEPT !.pc = "check",
                                  !.messages = Recent(history[ChatOf[c]], MaxContext)])
    /\ UNCHANGED <<history, lock, swap, breaker, broken, unreported>>

------------------------------------------------------------------------------
\* for msg in messages: those with the role "system", or those without.
Those(s, system) ==
    FoldLeft(LAMBDA t, m : IF (m.is = "summary") = system THEN Append(t, m) ELSE t, <<>>, s)
Summaries(s) == Those(s, TRUE)
Turns(s) == Those(s, FALSE)

Truncated(s) == Summaries(s) \o Recent(Turns(s), Preserve)
Summarized(s) ==
    IF Len(s) <= Preserve + 1 \/ Len(Turns(s)) <= Preserve
    THEN s ELSE Summaries(s) \o <<Summary>> \o Recent(Turns(s), Preserve)

\* What check_budget may make of messages of any length.
Budgeted(s) == {s, Truncated(s), Summarized(s)}

\* The state property: a recovery time that is over is noticed when somebody looks.
Seen == IF breaker.state = "open" /\ breaker.waited
        THEN [breaker EXCEPT !.state = "half_open", !.used = FALSE] ELSE breaker
Admits == Seen.state = "closed" \/ (Seen.state = "half_open" /\ ~Seen.used)
Tripped(b) == [b EXCEPT !.state = "open", !.waited = FALSE]

\* check_budget rejects, or check_request refuses a request that is a spike or exceeds
\* the budget of the window, or any request while open or probed.
Refuse(c) ==
    /\ At(c, "check")
    /\ \/ UNCHANGED breaker
       \/ Seen.state = "closed" /\ "spike" \in Faults /\ breaker' = Tripped(Seen)
       \/ ~Admits /\ breaker' = Seen
    /\ Done(c)
    /\ Breaks(c)
    /\ UNCHANGED <<history, lock, swap, unreported>>

Admit(c) ==
    /\ At(c, "check")
    /\ Admits
    /\ breaker' = [Seen EXCEPT !.used = Seen.state = "half_open"]
    /\ \E s \in Budgeted(call[c].messages) :
          Becomes(c, [call[c] EXCEPT !.pc = "lock", !.messages = s,
                                     !.probe = Seen.state = "half_open",
                                     !.cut = @ \/ s # call[c].messages])
    /\ UNCHANGED <<history, lock, swap, broken, unreported>>

TakeLock(c) ==
    /\ At(c, "lock") /\ lock = NoCall
    /\ lock' = c
    /\ GoTo(c, "asking")
    /\ UNCHANGED <<history, swap, breaker, broken, unreported>>

\* Mutated form: only a closed breaker records.
AnswerUnrecorded(c) ==
    /\ At(c, "asking")
    /\ lock' = NoCall
    /\ \E reply \in {"use", "text"} :
          Becomes(c, [call[c] EXCEPT !.pc = "answer", !.reply = reply, !.probe = FALSE])
    /\ UNCHANGED <<history, swap, breaker, broken, unreported>>

\* record_response: a small answer closes a half-open breaker, whoever got it.
Answer(c) ==
    /\ At(c, "asking")
    /\ lock' = NoCall
    /\ \E reply \in {"use", "text"} :
          Becomes(c, [call[c] EXCEPT !.pc = "answer", !.reply = reply, !.probe = FALSE])
    /\ \/ breaker' = IF breaker.state = "half_open"
                     THEN [breaker EXCEPT !.state = "closed", !.used = FALSE] ELSE breaker
       \/ breaker.state = "half_open" /\ "spike" \in Faults /\ breaker' = Tripped(breaker)
    /\ UNCHANGED <<history, swap, broken, unreported>>

\* Mutated form: the lock is taken and released by hand.
ProviderFailsLocked(c) ==
    /\ At(c, "asking") /\ "provider" \in Faults
    /\ Done(c)
    /\ unreported' = (unreported \/ call[c].probe)
    /\ Breaks(c)
    /\ UNCHANGED <<history, lock, swap, breaker>>

\* An error, the time-out of 120 s, or an answer that is no dict.
ProviderFails(c) ==
    /\ At(c, "asking") /\ "provider" \in Faults
    /\ lock' = NoCall
    /\ Done(c)
    /\ unreported' = (unreported \/ call[c].probe)
    /\ Breaks(c)
    /\ UNCHANGED <<history, swap, breaker>>

SaveAnswer(c) ==
    /\ At(c, "answer")
    /\ LET m == Says(c, call[c].reply)
       IN /\ Save(c, m)
          /\ IF m.is = "text" THEN Done(c)
             ELSE Becomes(c, [call[c] EXCEPT !.pc = "tools", !.messages = Append(@, m)])
    /\ UNCHANGED <<lock, swap, breaker, broken, unreported>>

\* Errors of the kinds the loop knows, time-outs included, become results.
RunTools(c) ==
    /\ At(c, "tools")
    /\ GoTo(c, "results")
    /\ UNCHANGED <<history, lock, swap, breaker, broken, unreported>>

\* Any other ends the call, which answers with the error text.
ToolsRaise(c) ==
    /\ At(c, "tools") /\ "tool" \in Faults
    /\ Done(c)
    /\ Breaks(c)
    /\ UNCHANGED <<history, lock, swap, breaker, unreported>>

\* Mutated form: one round more.
SaveResultsLonger(c) ==
    /\ At(c, "results")
    /\ Save(c, Says(c, "results"))
    /\ LET s == Recent(Append(call[c].messages, Says(c, "results")), MaxContext)
           n == call[c].round + 1
       IN IF n > MaxRounds
          THEN Done(c) /\ Breaks(c)
          ELSE /\ Becomes(c, [call[c] EXCEPT !.pc = "check", !.round = n, !.messages = s])
               /\ UNCHANGED broken
    /\ UNCHANGED <<lock, swap, breaker, unreported>>

\* The last round over, RuntimeError.
SaveResults(c) ==
    /\ At(c, "results")
    /\ Save(c, Says(c, "results"))
    /\ LET s == Recent(Append(call[c].messages, Says(c, "results")), MaxContext)
           n == call[c].round + 1
       IN IF n = MaxRounds
          THEN Done(c) /\ Breaks(c)
          ELSE /\ Becomes(c, [call[c] EXCEPT !.pc = "check", !.round = n, !.messages = s])
               /\ UNCHANGED broken
    /\ UNCHANGED <<lock, swap, breaker, unreported>>

\* sqlite3.Error, or the router was closed: the row may be there all the same.
DatabaseFails(c) ==
    /\ "database" \in Faults
    /\ \/ At(c, "save") /\ (Save(c, Says(c, "question")) \/ UNCHANGED history)
       \/ At(c, "load") /\ UNCHANGED history
       \/ At(c, "answer") /\ (Save(c, Says(c, call[c].reply)) \/ UNCHANGED history)
       \/ At(c, "results") /\ (Save(c, Says(c, "results")) \/ UNCHANGED history)
    /\ Done(c)
    /\ Breaks(c)
    /\ UNCHANGED <<lock, swap, breaker, unreported>>

\* CancelledError at the await where the call is.
Cancel(c) ==
    /\ "cancel" \in Faults /\ Active(c) /\ ~At(c, "check")
    /\ Done(c)
    /\ lock' = IF lock = c THEN NoCall ELSE lock
    /\ \/ UNCHANGED history
       \/ At(c, "save") /\ Save(c, Says(c, "question"))
       \/ At(c, "answer") /\ Save(c, Says(c, call[c].reply))
       \/ At(c, "results") /\ Save(c, Says(c, "results"))
    /\ unreported' = (unreported \/ call[c].probe)
    /\ Breaks(c)
    /\ UNCHANGED <<swap, breaker>>

------------------------------------------------------------------------------
\* reload_provider: the key is read from the vault, or not; the provider is replaced
\* under the lock, without an await.
Swap ==
    /\ \/ swap = "idle" /\ swap' \in {"waiting", "done"}
       \/ swap = "waiting" /\ lock = NoCall /\ swap' = "done"
    /\ UNCHANGED <<history, call, lock, breaker, broken, unreported>>

\* recovery_timeout_seconds go by.
Wait ==
    /\ breaker.state = "open" /\ ~breaker.waited
    /\ breaker' = [breaker EXCEPT !.waited = TRUE]
    /\ UNCHANGED <<history, call, lock, swap, broken, unreported>>

Proceed(c) ==
    \/ SaveQuestion(c) \/ Load(c) \/ Refuse(c) \/ Admit(c) \/ TakeLock(c) \/ Answer(c)
    \/ SaveAnswer(c) \/ RunTools(c) \/ SaveResults(c)

Fails(c) == ProviderFails(c) \/ ToolsRaise(c) \/ DatabaseFails(c) \/ Cancel(c)

Next ==
    \/ /\ (\E c \in Call : Start(c) \/ Proceed(c)) \/ Swap \/ Wait
       /\ UNCHANGED faults
    \/ /\ faults < MaxFaults /\ faults' = faults + 1
       /\ \E c \in Call : Fails(c)

Spec == Init /\ [][Next]_vars

\* The provider answers or times out, tools end or time out, statements end, the lock
\* is given on, and time passes.
FairSpec ==
    /\ Spec
    /\ \A c \in Call : WF_vars(Proceed(c) /\ UNCHANGED faults)
    /\ WF_vars(swap = "waiting" /\ Swap /\ UNCHANGED faults)
    /\ WF_vars(Wait /\ UNCHANGED faults)

------------------------------------------------------------------------------
\* Type invariant: the history, the calls, the lock and the breaker.
TypeOK ==
    /\ history \in [Chat -> Seq(Message)]
    /\ call \in [Call -> CallState]
    /\ lock \in Call \cup {NoCall}
    /\ \A c \in Call : At(c, "asking") <=> lock = c
    /\ swap \in {"idle", "waiting", "done"}
    /\ breaker \in BreakerState
    /\ broken \subseteq Chat /\ unreported \in BOOLEAN /\ faults \in 0..MaxFaults

Requests == {c \in Call : At(c, "asking")}

\* What a provider accepts: results follow their use, and a use is followed by its
\* results.
WellFormed(s) ==
    \A i \in 1..Len(s) :
        /\ s[i].is = "results" => i > 1 /\ s[i - 1] = [s[i] EXCEPT !.is = "use"]
        /\ s[i].is = "use" => i < Len(s) /\ s[i + 1] = [s[i] EXCEPT !.is = "results"]

\* Windows, summaries and truncations never part a tool's use from its result
\* (router.py:597, token_budget.py:167-285): turns alternate, and every window is even.
\* A chat in which a call was cut short, or two calls met, has lost its rhythm.
Paired == \A c \in Requests : ChatOf[c] \notin broken => WellFormed(call[c].messages)

\* "the full tool-use loop" (router.py:268): in all its rounds a request shows the
\* model the question it is to answer, as long as the budget has cut nothing.
QuestionKept ==
    \A c \in Requests :
        ~call[c].cut /\ ChatOf[c] \notin broken =>
            Contains(call[c].messages, [by |-> c, round |-> 0, is |-> "question"])

\* Every call that has begun ends, and so does a hot-swap that waits for the provider
\* lock, whatever fails or is cancelled.
ChatEnds ==
    /\ \A c \in Call : Active(c) ~> At(c, "done")
    /\ swap = "waiting" ~> swap = "done"

\* However often the breaker trips, there comes a time when it admits requests again,
\* unless a probe has ended without telling it.
Recovers == []<>(Admits \/ unreported)

\* "Recovery timeout prevents permanent OPEN state." (token_circuit_breaker.py:16)
NeverShutForGood == []<>Admits
==============================================================================
