---------------------------- MODULE Conversations ----------------------------
(***************************************************************************)
(* Conversations and their messages in core-api: sending a message         *)
(* (conversations.py), the decision that may start a run                   *)
(* (agent_decision.py), and the announcement of a finished run             *)
(* (run_messages.py, called by the workers through internal.py).           *)
(*                                                                         *)
(* A handler is a coroutine without a point of suspension, so that the     *)
(* event loop finishes one before it begins another (LoopIsFree).  Its     *)
(* commits are separate steps all the same: the process may die between    *)
(* them, and workers, clients and their time-outs do not wait for it.      *)
(***************************************************************************)
EXTENDS Naturals, Sequences, FiniteSets

CONSTANTS
    MaxConvs,    \* conversations are numbered as they are created, up to here
    Turn,        \* things a user wants to say
    MaxRuns,     \* and so are runs
    MaxPosts,    \* how often each turn is sent at most
    MaxEmits,    \* how many workers complete one run at most
    MaxFaults,   \* crashes, failed commits and lost calls
    None

Conv == 1..MaxConvs
Run == 1..MaxRuns

ASSUME ConversationsAssumption ==
    /\ MaxConvs \in Nat /\ MaxRuns \in Nat
    /\ IsFiniteSet(Turn)
    /\ MaxPosts \in Nat /\ MaxEmits \in Nat /\ MaxFaults \in Nat
    /\ None \notin Turn \cup Nat

VARIABLES
    keyed,    \* the turns sent with a client_msg_id; the web console sends none
    direct,   \* the turns sent with a role, which ask for no answer
    conv,     \* status of each conversation
    log,      \* its messages, by created_at
    run,      \* what core-api reads of each row of runs
    emits,    \* calls to emit-message that workers have yet to make
    serving,  \* the requests of which core-api has executed a part
    client,   \* what the sender of each turn knows
    sent,     \* requests on their way, by turn: the numbers of the attempts
    posts,    \* attempts made
    target,   \* the conversation a turn is for
    faults,
    broken    \* history: turns hit by a fault after their message was stored

vars == <<keyed, direct, conv, log, run, emits, serving, client, sent, posts, target, faults, broken>>
serverVars == <<conv, log>>
kinds == <<keyed, direct>>
clientVars == <<kinds, client, sent, posts, target>>

Message == [kind : {"user", "answer", "start", "error", "done"},
            turn : Turn \cup {None}, run : Run \cup {None}]
RunRow == [status : {"none", "active", "succeeded", "failed"}, type : {"turn", "task"},
           conv : Conv \cup {None}, turn : Turn \cup {None}]
Request == [stage : {"saved", "decided", "inserted"}, turn : Turn, attempt : Nat,
            conv : Conv, reply : Message \cup {None}]

Said(t) == [kind |-> "user", turn |-> t, run |-> None]
Reply(k, t, r) == [kind |-> k, turn |-> t, run |-> r]
Done(r) == [kind |-> "done", turn |-> None, run |-> r]

Open == {c \in Conv : conv[c] = "open"}
Holds(c, m) == \E i \in DOMAIN log[c] : log[c][i] = m
Occurrences(c, P(_)) == Cardinality({i \in DOMAIN log[c] : P(log[c][i])})

NextConv(c) == conv[c] = "none" /\ \A d \in 1..(c - 1) : conv[d] # "none"
NextRun(r) == run[r].status = "none" /\ \A s \in 1..(r - 1) : run[s].status # "none"

\* A slip: handlers that run in threads.
AlwaysFree == TRUE

LoopIsFree == serving = {}

Init ==
    /\ keyed \in SUBSET Turn /\ direct \in SUBSET Turn
    /\ conv = [c \in Conv |-> "none"]
    /\ log = [c \in Conv |-> <<>>]
    /\ run = [r \in Run |-> [status |-> "none", type |-> "task", conv |-> None, turn |-> None]]
    /\ emits = [r \in Run |-> 0]
    /\ serving = {}
    /\ client = [t \in Turn |-> "new"]
    /\ sent = [t \in Turn |-> {}]
    /\ posts = [t \in Turn |-> 0]
    /\ target = [t \in Turn |-> None]
    /\ faults = 0
    /\ broken = {}

-----------------------------------------------------------------------------
(* A conversation.                                                         *)

CreateConversation(c) ==
    /\ LoopIsFree /\ NextConv(c)
    /\ conv' = [conv EXCEPT ![c] = "open"]
    /\ UNCHANGED <<log, run, emits, serving, clientVars, faults, broken>>

\* Messages go with their conversation.  PostgreSQL also sets the runs' reference
\* to NULL; SQLite, which is not told to enforce foreign keys, leaves it dangling.
DeleteConversation(c) ==
    /\ LoopIsFree /\ c \in Open
    /\ conv' = [conv EXCEPT ![c] = "gone"]
    /\ log' = [log EXCEPT ![c] = <<>>]
    /\ \E left \in {c, None} :
         run' = [r \in Run |-> IF run[r].conv = c THEN [run[r] EXCEPT !.conv = left] ELSE run[r]]
    /\ UNCHANGED <<emits, serving, clientVars, faults, broken>>

-----------------------------------------------------------------------------
(* The sender of a turn.                                                   *)

Post(t) ==
    /\ client[t] \in {"new", "failed"} /\ posts[t] < MaxPosts
    /\ IF target[t] = None THEN \E c \in Open : target' = [target EXCEPT ![t] = c]
                           ELSE UNCHANGED target
    /\ client' = [client EXCEPT ![t] = "waiting"]
    /\ posts' = [posts EXCEPT ![t] = @ + 1]
    /\ sent' = [sent EXCEPT ![t] = @ \cup {posts[t] + 1}]
    /\ UNCHANGED <<kinds, serverVars, run, emits, serving, faults, broken>>

GiveUp(t) ==
    /\ client[t] = "waiting" /\ posts[t] < MaxPosts
    /\ client' = [client EXCEPT ![t] = "failed"]
    /\ UNCHANGED <<kinds, serverVars, run, emits, serving, sent, posts, target, faults, broken>>

\* The answer to an attempt that was given up reaches nobody.
Answered(t, k, outcome) ==
    client' = IF client[t] = "waiting" /\ posts[t] = k
              THEN [client EXCEPT ![t] = outcome] ELSE client

-----------------------------------------------------------------------------
(* _create_message.                                                        *)

\* A slip: only a turn that was answered counts as sent before.
DuplicateOfAnswered(t, c) ==
    t \in keyed /\ \E i \in DOMAIN log[c] : log[c][i].turn = t /\ log[c][i].kind # "user"

Duplicate(t, c) == t \in keyed /\ Holds(c, Said(t))

\* The conversation is gone (404), or the client_msg_id is known: its message is
\* returned, and nothing else is done.
Refuse(t, k) ==
    LET c == target[t] IN
    /\ LoopIsFree /\ k \in sent[t]
    /\ \/ c \notin Open /\ Answered(t, k, "failed")
       \/ c \in Open /\ Duplicate(t, c) /\ Answered(t, k, "ok")
    /\ sent' = [sent EXCEPT ![t] = @ \ {k}]
    /\ UNCHANGED <<kinds, serverVars, run, emits, serving, posts, target, faults, broken>>

Accepts(t, k) == LoopIsFree /\ k \in sent[t] /\ target[t] \in Open /\ ~ Duplicate(t, target[t])

\* First commit: the message of the user and updated_at.
SaveUserMessage(t, k) ==
    LET c == target[t] IN
    /\ Accepts(t, k) /\ t \notin direct
    /\ sent' = [sent EXCEPT ![t] = @ \ {k}]
    /\ log' = [log EXCEPT ![c] = Append(@, Said(t))]
    /\ serving' = serving \cup {[stage |-> "saved", turn |-> t, attempt |-> k, conv |-> c, reply |-> None]}
    /\ UNCHANGED <<kinds, conv, run, emits, client, posts, target, faults, broken>>

\* With a role in the request the message is one commit and updated_at the next.
SaveWithRole(t, k) ==
    LET c == target[t] IN
    /\ Accepts(t, k) /\ t \in direct
    /\ sent' = [sent EXCEPT ![t] = @ \ {k}]
    /\ log' = [log EXCEPT ![c] = Append(@, Said(t))]
    /\ serving' = serving \cup {[stage |-> "inserted", turn |-> t, attempt |-> k, conv |-> c, reply |-> None]}
    /\ UNCHANGED <<kinds, conv, run, emits, client, posts, target, faults, broken>>

TouchAfterRole(q) ==
    /\ q.stage = "inserted"
    /\ serving' = serving \ {q}
    /\ Answered(q.turn, q.attempt, "ok")
    /\ UNCHANGED <<kinds, conv, log, run, emits, sent, posts, target, faults, broken>>

Decided(q, m) == serving' = (serving \ {q}) \cup {[q EXCEPT !.stage = "decided", !.reply = m]}

\* What decide() may return.  A type outside the list turns the run into a reply, a
\* run without a conversation gets this one; anything else raises.
Verdict(c) == [kind : {"reply", "raises"}, type : {"none"}, conv : {c}]
                 \cup [kind : {"run"}, type : {"turn", "task"}, conv : Open]

DecideReply(q) ==
    /\ q.stage = "saved"
    /\ \E v \in Verdict(q.conv) : v.kind = "reply"
    /\ Decided(q, Reply("answer", q.turn, None))
    /\ UNCHANGED <<serverVars, run, emits, clientVars, faults, broken>>

\* Without a decision chat_flow answers, or fails, which is said in the conversation.
ChatFlow(q) ==
    /\ q.stage = "saved"
    /\ \E v \in Verdict(q.conv) : v.kind = "raises"
    /\ \E k \in {"answer", "error"} : Decided(q, Reply(k, q.turn, None))
    /\ UNCHANGED <<serverVars, run, emits, clientVars, faults, broken>>

\* A slip: a decision without a reply starts the run and says nothing.
StartsSilently(q, r, type, c, reply) ==
    /\ run' = [run EXCEPT ![r] = [status |-> "active", type |-> type, conv |-> c, turn |-> q.turn]]
    /\ serving' = serving \ {q}
    /\ Answered(q.turn, q.attempt, "ok")
    /\ UNCHANGED <<kinds, serverVars, emits, sent, posts, target, faults, broken>>

\* _create_run commits the row, which a worker may take at once.
Starts(q, r, type, c, reply) ==
    /\ run' = [run EXCEPT ![r] = [status |-> "active", type |-> type, conv |-> c, turn |-> q.turn]]
    /\ Decided(q, Reply(reply, q.turn, r))
    /\ UNCHANGED <<serverVars, emits, clientVars, faults, broken>>

\* A code snippet becomes a turn of the agent loop, always in this conversation.
DecideTurn(q, r) ==
    /\ q.stage = "saved" /\ NextRun(r)
    /\ \E v \in Verdict(q.conv) : v.type = "turn" /\ Starts(q, r, "turn", q.conv, "start")

DecideTask(q, r) ==
    /\ q.stage = "saved" /\ NextRun(r)
    /\ \E v \in Verdict(q.conv) : v.type = "task" /\ Starts(q, r, "task", v.conv, "answer")

\* The run cannot be created: the answer says so.
DecideApology(q) ==
    /\ q.stage = "saved"
    /\ \E v \in Verdict(q.conv) : v.kind = "run"
    /\ Decided(q, Reply("answer", q.turn, None))
    /\ UNCHANGED <<serverVars, run, emits, clientVars, faults, broken>>

\* Last commit: the answer and updated_at.
SaveReply(q) ==
    /\ q.stage = "decided"
    /\ serving' = serving \ {q}
    /\ log' = [log EXCEPT ![q.conv] = Append(@, q.reply)]
    /\ Answered(q.turn, q.attempt, "ok")
    /\ UNCHANGED <<kinds, conv, run, emits, sent, posts, target, faults, broken>>

-----------------------------------------------------------------------------
(* Runs, and emit_run_message.                                             *)

\* A run of a scheduler or of POST /runs, without a conversation.
StartBackgroundRun(r) ==
    /\ LoopIsFree /\ NextRun(r)
    /\ run' = [run EXCEPT ![r] = [status |-> "active", type |-> "task", conv |-> None, turn |-> None]]
    /\ UNCHANGED <<serverVars, emits, serving, clientVars, faults, broken>>

\* A worker completes the run; another one that lost its lease may do so as well, and
\* a call that timed out is made a second time.
RunEnds(r) ==
    /\ run[r].status = "active"
    /\ \E s \in {"succeeded", "failed"} : run' = [run EXCEPT ![r].status = s]
    /\ \E n \in 1..MaxEmits : emits' = [emits EXCEPT ![r] = n]
    /\ UNCHANGED <<serverVars, serving, clientVars, faults, broken>>

Announced(r) == \E c \in Conv : Holds(c, Done(r))

\* For a turn that succeeded the text is assigned to one name and read from another.
EmitRaises(r) == run[r].type = "turn" /\ run[r].status = "succeeded"

EmitCalled(r) == LoopIsFree /\ emits[r] > 0 /\ emits' = [emits EXCEPT ![r] = @ - 1]

Announce(c, r) == log' = [log EXCEPT ![c] = Append(@, Done(r))]

EmitNothing(r) ==
    /\ EmitCalled(r)
    /\ Announced(r) \/ EmitRaises(r) \/ run[r].conv \in Conv \ Open
    /\ UNCHANGED <<serverVars, run, serving, clientVars, faults, broken>>

EmitHere(r) ==
    /\ EmitCalled(r)
    /\ ~ Announced(r) /\ ~ EmitRaises(r) /\ run[r].conv \in Open
    /\ Announce(run[r].conv, r)
    /\ UNCHANGED <<conv, run, serving, clientVars, faults, broken>>

EmitInNewConversation(r, c) ==
    /\ EmitCalled(r)
    /\ ~ Announced(r) /\ ~ EmitRaises(r) /\ run[r].conv = None
    /\ NextConv(c)
    /\ conv' = [conv EXCEPT ![c] = "open"]
    /\ Announce(c, r)
    /\ UNCHANGED <<run, serving, clientVars, faults, broken>>

-----------------------------------------------------------------------------
(* Faults.                                                                 *)

Fault == faults < MaxFaults /\ faults' = faults + 1

\* The commit of the first message fails: 500.
SaveUserFails(t, k) ==
    /\ Fault /\ Accepts(t, k)
    /\ sent' = [sent EXCEPT ![t] = @ \ {k}]
    /\ Answered(t, k, "failed")
    /\ UNCHANGED <<kinds, serverVars, run, emits, serving, posts, target, broken>>

\* The commit of the answer, or of updated_at, fails: 500, and the rest stays.
SaveReplyFails(q) ==
    /\ Fault /\ q.stage \in {"decided", "inserted"}
    /\ serving' = serving \ {q}
    /\ broken' = broken \cup {q.turn}
    /\ Answered(q.turn, q.attempt, "failed")
    /\ UNCHANGED <<kinds, serverVars, run, emits, sent, posts, target>>

\* core-api dies: every connection is reset, what is committed stays.
Crash ==
    /\ Fault
    /\ serving' = {}
    /\ broken' = broken \cup {q.turn : q \in serving}
    /\ sent' = [t \in Turn |-> {}]
    /\ client' = [t \in Turn |-> IF client[t] = "waiting" THEN "failed" ELSE client[t]]
    /\ UNCHANGED <<kinds, serverVars, run, emits, posts, target>>

\* Both attempts of the worker fail, or the commit does, which is only logged.  The
\* call is not made again.
EmitLost(r) ==
    /\ Fault /\ emits[r] > 0
    /\ emits' = [emits EXCEPT ![r] = @ - 1]
    /\ UNCHANGED <<serverVars, run, serving, clientVars, broken>>

-----------------------------------------------------------------------------
Serve(q) ==
    \/ TouchAfterRole(q) \/ DecideReply(q) \/ ChatFlow(q) \/ DecideApology(q) \/ SaveReply(q)
    \/ \E r \in Run : DecideTurn(q, r) \/ DecideTask(q, r)

Begin(t) == \E k \in sent[t] : Refuse(t, k) \/ SaveUserMessage(t, k) \/ SaveWithRole(t, k)

Emit(r) == EmitNothing(r) \/ EmitHere(r) \/ \E c \in Conv : EmitInNewConversation(r, c)

Next ==
    \/ \E c \in Conv : CreateConversation(c) \/ DeleteConversation(c)
    \/ \E t \in Turn : \/ Post(t) \/ GiveUp(t) \/ Begin(t)
                       \/ \E k \in sent[t] : SaveUserFails(t, k)
    \/ \E q \in serving : Serve(q) \/ SaveReplyFails(q)
    \/ \E r \in Run : StartBackgroundRun(r) \/ RunEnds(r) \/ Emit(r) \/ EmitLost(r)
    \/ Crash

Spec == Init /\ [][Next]_vars

-----------------------------------------------------------------------------
(* Properties.                                                             *)

TypeOK ==
    /\ keyed \subseteq Turn /\ direct \subseteq Turn
    /\ conv \in [Conv -> {"none", "open", "gone"}]
    /\ log \in [Conv -> Seq(Message)]
    /\ run \in [Run -> RunRow]
    /\ emits \in [Run -> 0..MaxEmits]
    /\ serving \subseteq Request
    /\ client \in [Turn -> {"new", "waiting", "ok", "failed"}]
    /\ sent \in [Turn -> SUBSET Nat]
    /\ posts \in [Turn -> 0..MaxPosts]
    /\ target \in [Turn -> Conv \cup {None}]
    /\ faults \in 0..MaxFaults
    /\ broken \subseteq Turn

\* A finished run is announced in one conversation, and once, although two workers
\* may have completed it and its conversation may be gone by then
\* (run_messages.py:223-267; docs/spec/agent-loop.md:98).
AnnouncedOnce ==
    \A r \in Run :
        /\ \A c \in Conv : Occurrences(c, LAMBDA m : m = Done(r)) <= 1
        /\ \A c, d \in Conv : Holds(c, Done(r)) /\ Holds(d, Done(r)) => c = d

\* A turn with a client_msg_id leaves one message, one answer and one run at most,
\* however often it is sent and whenever core-api dies (conversations.py:341-357).
KeyedOnce ==
    \A t \in keyed :
        /\ \A c \in Conv : /\ Occurrences(c, LAMBDA m : m = Said(t)) <= 1
                           /\ Occurrences(c, LAMBDA m : m.turn = t) <= 2
        /\ \A r, s \in Run : run[r].turn = t /\ run[s].turn = t => r = s

\* The announcement of a run stands below the message that says it was started, and
\* an answer below what it answers: neither the worker nor another request gets
\* between the commits of one request (conversations.py:403-825).
InOrder ==
    \A c \in Conv : \A i, j \in DOMAIN log[c] :
        /\ log[c][i].run # None /\ log[c][i].run = log[c][j].run
           /\ log[c][i].kind \in {"answer", "start"} /\ log[c][j].kind = "done" => i < j
        /\ log[c][j].kind \in {"answer", "start", "error"} =>
              \E k \in 1..(j - 1) : log[c][k] = Said(log[c][j].turn)

\* Nothing is added to a conversation that was deleted: not by a request that was
\* sent before, and not by a run that ends afterwards (conversations.py:336,
\* run_messages.py:311-315).
GoneIsEmpty == \A c \in Conv : c \notin Open => log[c] = <<>>

\* Who was told that the turn succeeded finds an answer in the conversation, unless
\* a fault hit one of its attempts between the commits; a resend with the same
\* client_msg_id is then taken for a duplicate (conversations.py:351-357).
SuccessIsAnswered ==
    \A t \in Turn :
        client[t] = "ok" /\ target[t] \in Open /\ t \notin broken \cup direct =>
            \E i \in DOMAIN log[target[t]] :
                log[target[t]][i].turn = t /\ log[target[t]][i].kind # "user"

\* A run that ended is announced, or a worker has yet to ask for it, as long as no
\* call is lost and no conversation deleted (run_messages.py:309-383).
EndedIsAnnounced ==
    \A r \in Run :
        /\ faults = 0 /\ \A c \in Conv : conv[c] # "gone"
        /\ run[r].status \in {"succeeded", "failed"} /\ ~ EmitRaises(r)
        /\ emits[r] = 0
        => Announced(r)

\* What holds of every conversation: it keeps its types, stays empty once deleted, and holds
\* each announcement and each keyed turn once.
LogsAreClean == TypeOK /\ GoneIsEmpty /\ AnnouncedOnce /\ KeyedOnce /\ EndedIsAnnounced
=============================================================================
