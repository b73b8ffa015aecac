------------------------------- MODULE Approvals -------------------------------
(***************************************************************************)
(* HITLGuard, which pauses a task until the operator approves or denies    *)
(* what it is about to do, and the Telegram channel of the prompts and the *)
(* answers.  The guard's asyncio.Lock is never held across an await, so    *)
(* what is done under it is one step with what leads to it.                *)
(***************************************************************************)
EXTENDS Naturals, Sequences, FiniteSets

CONSTANTS
    Id,            \* request_ids; each belongs to one caller
    MaxAnswers     \* bound: answers of the operator

ASSUME ApprovalsAssumption == MaxAnswers \in Nat

VARIABLES
    call,        \* where request_approval(id) is, or what it has returned
    pending,     \* _pending: the ids of requests without a decision
    decision,    \* the decision field of the last request for an id
    signalled,   \* the ids whose request has its event set
    operator,    \* does _hitl_notify have a sender and a chat, or approve by itself
    authorised,  \* does the webhook know the operator's user id
    mail,        \* updates that the poll loop has still to handle
    sent,        \* how many there have been
    answer,      \* the last answer that respond() took for the current call (history)
    forgotten    \* the ids whose caller was cancelled while the prompt was sent (history)

guard == <<call, pending, decision, signalled, answer, forgotten>>
channel == <<operator, authorised, mail, sent>>

Calls == {"idle", "notify", "waiting", "approved", "denied", "timeout"}
Answers == {"approved", "denied"}
Updates == [id : Id, ans : Answers]

ApprovalsInit ==
    /\ call = [id \in Id |-> "idle"] /\ pending = {}
    /\ decision = [id \in Id |-> "timeout"] /\ signalled = {}
    /\ operator \in BOOLEAN /\ authorised \in {FALSE, operator}
    /\ mail = <<>> /\ sent = 0
    /\ answer = [id \in Id |-> "none"] /\ forgotten = {}

Calling(id, pc) == call' = [call EXCEPT ![id] = pc]

\* request_approval: a second request with the id of a pending one is denied.
Ask(id) ==
    /\ call[id] = "idle"
    /\ answer' = [answer EXCEPT ![id] = "none"]
    /\ IF id \in pending
       THEN Calling(id, "denied") /\ UNCHANGED <<pending, decision, signalled>>
       ELSE /\ Calling(id, "notify")
            /\ pending' = pending \cup {id}
            /\ decision' = [decision EXCEPT ![id] = "timeout"]
            /\ signalled' = signalled \ {id}
    /\ UNCHANGED <<forgotten, channel>>

\* respond(): only a pending request takes an answer, and the last one counts.
Respond(id, ans) ==
    IF id \in pending
    THEN /\ decision' = [decision EXCEPT ![id] = ans]
         /\ signalled' = signalled \cup {id}
         /\ answer' = [answer EXCEPT ![id] = ans]
    ELSE UNCHANGED <<decision, signalled, answer>>

\* _hitl_notify: without an operator it approves; a message that cannot be sent is only
\* logged.
Notify(id) ==
    /\ call[id] = "notify"
    /\ Calling(id, "waiting")
    /\ IF operator THEN UNCHANGED <<decision, signalled, answer>> ELSE Respond(id, "approved")
    /\ UNCHANGED <<pending, forgotten, channel>>

\* ... and after a failed start context.hitl is None, so that it raises.
NotifyRaises(id) ==
    /\ call[id] = "notify" /\ ~operator
    /\ Calling(id, "timeout")
    /\ pending' = pending \ {id}
    /\ UNCHANGED <<decision, signalled, answer, forgotten, channel>>

\* The event wakes the caller, who reads the decision then.
Wake(id) ==
    /\ call[id] = "waiting" /\ id \in signalled
    /\ Calling(id, decision[id])
    /\ pending' = pending \ {id}
    /\ UNCHANGED <<decision, signalled, answer, forgotten, channel>>

\* Mutated form: a request that has run out stays in _pending.
ExpireKept(id) ==
    /\ call[id] = "waiting"
    /\ decision' = [decision EXCEPT ![id] = "denied"]
    /\ Calling(id, "denied")
    /\ UNCHANGED <<pending, signalled, answer, forgotten, channel>>

\* The time-out denies, also when an answer has come just before it.
Expire(id) ==
    /\ call[id] = "waiting"
    /\ decision' = [decision EXCEPT ![id] = "denied"]
    /\ Calling(id, "denied")
    /\ pending' = pending \ {id}
    /\ UNCHANGED <<signalled, answer, forgotten, channel>>

\* A CancelledError: the finally clause removes the request of a caller that waits, but
\* except Exception does not that of one whose prompt is being sent.
Abandon(id) ==
    /\ call[id] \in {"notify", "waiting"}
    /\ Calling(id, "idle")
    /\ IF call[id] = "waiting"
       THEN pending' = pending \ {id} /\ UNCHANGED forgotten
       ELSE forgotten' = forgotten \cup {id} /\ UNCHANGED pending
    /\ UNCHANGED <<decision, signalled, answer, channel>>

\* The caller goes on with what request_approval has returned.
Answered(id, result) ==
    /\ call[id] = result
    /\ Calling(id, "idle")
    /\ UNCHANGED <<pending, decision, signalled, answer, forgotten, channel>>

------------------------------------------------------------------------------
\* The operator sends /approve <id> or /deny <id>, whatever is pending by then; the
\* buttons below a prompt send callback queries, which the poll loop passes to
\* process_update(), and that ignores them.
OperatorAnswers ==
    /\ operator /\ sent < MaxAnswers
    /\ \E id \in Id, ans \in Answers : mail' = Append(mail, [id |-> id, ans |-> ans])
    /\ sent' = sent + 1
    /\ UNCHANGED <<guard, operator, authorised>>

\* _process_raw_update, process_update and _handle_hitl_command.
HandleUpdate ==
    /\ mail # <<>>
    /\ mail' = Tail(mail)
    /\ IF authorised THEN Respond(Head(mail).id, Head(mail).ans)
                     ELSE UNCHANGED <<decision, signalled, answer>>
    /\ UNCHANGED <<call, pending, forgotten, operator, authorised, sent>>

\* A new token replaces sender and webhook, and the new webhook has no user id.
ReloadTelegram ==
    /\ operator /\ authorised
    /\ authorised' = FALSE
    /\ UNCHANGED <<guard, operator, mail, sent>>

Channel == OperatorAnswers \/ HandleUpdate \/ ReloadTelegram

Waits(id) == Notify(id) \/ NotifyRaises(id) \/ Wake(id) \/ Expire(id)

------------------------------------------------------------------------------
ApprovalsTypeOK ==
    /\ call \in [Id -> Calls] /\ decision \in [Id -> Answers \cup {"timeout"}]
    /\ pending \subseteq Id /\ signalled \subseteq Id /\ forgotten \subseteq Id
    /\ operator \in BOOLEAN /\ authorised \in BOOLEAN
    /\ mail \in Seq(Updates) /\ sent \in 0..MaxAnswers
    /\ answer \in [Id -> Answers \cup {"none"}]

\* "or Decision.TIMEOUT if no response arrives in time" (hitl.py:101), and a time-out
\* denies: whatever is pending, repeated, answered late or answered twice, a request is
\* approved only if the last answer that respond() has taken for it approves.
ApprovedByAnswer == \A id \in Id : call[id] = "approved" => answer[id] = "approved"

\* A request that nobody waits for is not pending (it would deny every later request with
\* its id), unless its caller was cancelled while the prompt was sent.
PendingHasCaller ==
    \A id \in pending \ forgotten : call[id] \in {"notify", "waiting"}
==============================================================================
