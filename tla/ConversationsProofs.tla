------------------------ MODULE ConversationsProofs ------------------------
(***************************************************************************)
(* What holds of conversations for any number of conversations, turns,     *)
(* runs, resends, crashes and lost calls, and of the unread mark at any    *)
(* speed of the handlers.                                                  *)
(***************************************************************************)
EXTENDS Conversations, ReadMarks, FiniteSetTheorems, TLAPS

Replies == {"answer", "start", "error"}
Over == {"succeeded", "failed"}

\* An announcement is about a run that ended; everything else is about a turn sent to this
\* conversation.
Shape(c, m) ==
    /\ m.kind # "done" => m.turn \in Turn /\ target[m.turn] = c
    /\ m.kind = "user" => m = Said(m.turn)
    /\ m.kind = "done" => m.run \in Run /\ m = Done(m.run) /\ run[m.run].status \in Over

Shaped == \A c \in Conv : \A i \in DOMAIN log[c] : Shape(c, log[c][i])

Replied(c, t) == \E i \in DOMAIN log[c] : log[c][i].turn = t /\ log[c][i].kind # "user"

\* The request that core-api has begun is the only one.  Its message is stored and, if it is
\* keyed, neither answered nor, before the decision, the cause of a run; a run that it has
\* started is not announced.
InFlight(q) ==
    /\ serving = {q}
    /\ q.conv \in Open /\ target[q.turn] = q.conv
    /\ Holds(q.conv, Said(q.turn))
    /\ q.turn \in keyed => ~ Replied(q.conv, q.turn)
    /\ q.stage = "inserted" => q.turn \in direct
    /\ q.stage = "saved" /\ q.turn \in keyed => \A r \in Run : run[r].turn # q.turn
    /\ q.stage = "decided" =>
         /\ q.reply \in Message /\ q.reply.kind \in Replies /\ q.reply.turn = q.turn
         /\ q.reply.run \in Run => \A c \in Conv : ~ Holds(c, Done(q.reply.run))

\* Where a run or a turn belongs; a keyed turn that started a run left its message, too.
Placed ==
    /\ \A t \in Turn : target[t] \in Conv => conv[target[t]] # "none"
    /\ \A r \in Run :
         /\ emits[r] > 0 => run[r].status \in Over
         /\ run[r].conv \in Conv => conv[run[r].conv] # "none"
         /\ run[r].turn \in keyed =>
              LET c == target[run[r].turn]
              IN  c \in Conv /\ (conv[c] = "gone" \/ Holds(c, Said(run[r].turn)))

\* The uniqueness of announcements, keyed messages, their answers and their runs, without
\* counting.
Once ==
    /\ \A c, d \in Conv : \A i \in DOMAIN log[c], j \in DOMAIN log[d] :
         log[c][i].kind = "done" /\ log[d][j] = log[c][i] => c = d /\ i = j
    /\ \A c \in Conv : \A i, j \in DOMAIN log[c] :
         /\ log[c][i].turn \in keyed /\ log[c][j].turn = log[c][i].turn
         /\ log[c][i].kind = "user" <=> log[c][j].kind = "user"
         => i = j
    /\ \A r, s \in Run : run[r].turn \in keyed /\ run[s].turn = run[r].turn => r = s

\* A message of a user is answered, or being answered, unless a fault hit it.
Answering ==
    \A c \in Conv, t \in Turn \ (broken \cup direct) :
        Holds(c, Said(t)) => Replied(c, t) \/ \E q \in serving : q.turn = t

IInv ==
    /\ TypeOK /\ Shaped /\ (\A q \in serving : InFlight(q)) /\ Placed /\ Once /\ Answering
    /\ GoneIsEmpty /\ EndedIsAnnounced /\ InOrder /\ SuccessIsAnswered

-----------------------------------------------------------------------------
(* The log of a conversation.                                              *)

\* A message is added at the end; everything else stays where it is.
LEMMA AppendedLog ==
    ASSUME log \in [Conv -> Seq(Message)], NEW c \in Conv, NEW m \in Message,
           log' = [log EXCEPT ![c] = Append(@, m)]
    PROVE  /\ log' \in [Conv -> Seq(Message)]
           /\ \A d \in Conv : \A i \in DOMAIN log[d] : i \in DOMAIN log'[d] /\ log'[d][i] = log[d][i]
           /\ \A d \in Conv : \A i \in DOMAIN log'[d] :
                \/ i \in DOMAIN log[d]
                \/ d = c /\ i = Len(log[c]) + 1 /\ log'[d][i] = m
           /\ Len(log[c]) + 1 \in DOMAIN log'[c] /\ log'[c][Len(log[c]) + 1] = m
           /\ DOMAIN log[c] = 1..Len(log[c]) /\ Len(log[c]) \in Nat
<1> DEFINE s == log[c]
<1>1. s \in Seq(Message) /\ log'[c] = Append(s, m) /\ \A d \in Conv \ {c} : log'[d] = log[d]
  OBVIOUS
<1> HIDE DEF s
<1>2. /\ Append(s, m) \in Seq(Message) /\ Len(s) \in Nat /\ DOMAIN s = 1..Len(s)
      /\ DOMAIN Append(s, m) = 1..(Len(s) + 1)
      /\ \A i \in DOMAIN s : Append(s, m)[i] = s[i]
      /\ Append(s, m)[Len(s) + 1] = m
  BY <1>1
<1>3. log' \in [Conv -> Seq(Message)]
  BY <1>1, <1>2
<1>4. \A d \in Conv : \A i \in DOMAIN log[d] : i \in DOMAIN log'[d] /\ log'[d][i] = log[d][i]
  BY <1>1, <1>2 DEF s
<1>5. \A d \in Conv : \A i \in DOMAIN log'[d] :
         \/ i \in DOMAIN log[d]
         \/ d = c /\ i = Len(log[c]) + 1 /\ log'[d][i] = m
  BY <1>1, <1>2 DEF s
<1> QED
  BY <1>1, <1>2, <1>3, <1>4, <1>5 DEF s

\* What the handlers write has the type of a message.
LEMMA Texts ==
    /\ \A t \in Turn : Said(t) \in Message
    /\ \A r \in Run : Done(r) \in Message
    /\ \A k \in {"answer", "start", "error"}, t \in Turn, r \in Run \cup {None} : Reply(k, t, r) \in Message
BY DEF Said, Done, Reply, Message

-----------------------------------------------------------------------------
(* The types.                                                              *)

\* The start has the types.
LEMMA TypeInit == Init => TypeOK
BY ConversationsAssumption DEF Init, TypeOK, RunRow, Conv, Run

\* No step leaves the types; the answer of a request is a message once it is decided.
LEMMA TypeStep == TypeOK /\ (\A q \in serving : InFlight(q)) /\ [Next]_vars => TypeOK'
<1> SUFFICES ASSUME TypeOK, \A q \in serving : InFlight(q), [Next]_vars PROVE TypeOK'
  OBVIOUS
<1> USE ConversationsAssumption DEF TypeOK, serverVars, kinds, clientVars, Open
<1>1. ASSUME NEW c \in Conv, CreateConversation(c) PROVE TypeOK'
  BY <1>1 DEF CreateConversation
<1>4. ASSUME NEW c \in Conv, DeleteConversation(c) PROVE TypeOK'
  <2>1. run' \in [Run -> RunRow]
    <3>1. PICK left \in {c, None} : run' = [r \in Run |-> IF run[r].conv = c THEN [run[r] EXCEPT !.conv = left] ELSE run[r]]
      BY <1>4 DEF DeleteConversation
    <3>2. ASSUME NEW r \in Run PROVE [run[r] EXCEPT !.conv = left] \in RunRow
      <4>1. run[r] \in RunRow
        OBVIOUS
      <4> QED
        BY <4>1 DEF RunRow
    <3> QED
      BY <3>1, <3>2
  <2>2. log' \in [Conv -> Seq(Message)]
    BY <1>4 DEF DeleteConversation
  <2> QED
    BY <1>4, <2>1, <2>2 DEF DeleteConversation
<1>5. ASSUME NEW t \in Turn, Post(t) PROVE TypeOK'
  <2>1. posts[t] + 1 \in 0..MaxPosts /\ posts[t] + 1 \in Nat
    BY <1>5 DEF Post
  <2>2. posts' \in [Turn -> 0..MaxPosts] /\ sent' \in [Turn -> SUBSET Nat]
    BY <1>5, <2>1 DEF Post
  <2>3. target' \in [Turn -> Conv \cup {None}]
    <3>1. CASE target' = target
      BY <3>1
    <3>2. CASE \E c \in Open : target' = [target EXCEPT ![t] = c]
      BY <3>2
    <3> QED
      BY <1>5, <3>1, <3>2 DEF Post
  <2> QED
    BY <1>5, <2>2, <2>3 DEF Post
<1>6. ASSUME NEW t \in Turn, GiveUp(t) PROVE TypeOK'
  BY <1>6 DEF GiveUp
<1>7. ASSUME NEW t \in Turn, NEW k \in sent[t], Refuse(t, k) PROVE TypeOK'
  BY <1>7 DEF Refuse, Answered
<1>8. ASSUME NEW t \in Turn, NEW k \in sent[t], SaveUserMessage(t, k) PROVE TypeOK'
  BY <1>8, AppendedLog, Texts DEF SaveUserMessage, Accepts, Request
<1>9. ASSUME NEW t \in Turn, NEW k \in sent[t], SaveWithRole(t, k) PROVE TypeOK'
  BY <1>9, AppendedLog, Texts DEF SaveWithRole, Accepts, Request
<1>10. ASSUME NEW q \in serving, TouchAfterRole(q) PROVE TypeOK'
  BY <1>10 DEF TouchAfterRole, Answered, Request
<1>11. ASSUME NEW q \in serving, NEW m \in Message, Decided(q, m) PROVE serving' \subseteq Request
  <2>1. q \in Request /\ [q EXCEPT !.stage = "decided", !.reply = m] \in Request
    BY ZenonT(40) DEF Request
  <2> QED
    BY <1>11, <2>1 DEF Decided
<1>12. ASSUME NEW q \in serving, DecideReply(q) \/ ChatFlow(q) \/ DecideApology(q) PROVE TypeOK'
  BY <1>11, <1>12, Texts DEF DecideReply, ChatFlow, DecideApology, Request
<1>13. ASSUME NEW q \in serving, NEW r \in Run, DecideTurn(q, r) \/ DecideTask(q, r) PROVE TypeOK'
  <2>1. PICK type \in {"turn", "task"}, c \in Conv, reply \in {"answer", "start"} : Starts(q, r, type, c, reply)
    BY <1>13 DEF DecideTurn, DecideTask, Verdict, Request
  <2>2. q.turn \in Turn
    BY DEF Request
  <2>3. run' \in [Run -> RunRow]
    BY <2>1, <2>2 DEF Starts, RunRow
  <2>4. serving' \subseteq Request
    BY <1>11, <2>1, <2>2, Texts DEF Starts
  <2> QED
    BY <2>1, <2>3, <2>4 DEF Starts
<1>14. ASSUME NEW q \in serving, SaveReply(q) PROVE TypeOK'
  <2>1. q.reply \in Message /\ q.conv \in Conv /\ q.turn \in Turn
    BY <1>14 DEF SaveReply, InFlight, Request
  <2>2. log' \in [Conv -> Seq(Message)]
    BY <1>14, <2>1, AppendedLog DEF SaveReply
  <2> QED
    BY <1>14, <2>1, <2>2 DEF SaveReply, Answered
<1>15. ASSUME NEW r \in Run, StartBackgroundRun(r) PROVE TypeOK'
  BY <1>15 DEF StartBackgroundRun, RunRow
<1>16. ASSUME NEW r \in Run, RunEnds(r) PROVE TypeOK'
  <2>1. run' \in [Run -> RunRow]
    <3>1. PICK s \in Over : run' = [run EXCEPT ![r].status = s]
      BY <1>16 DEF RunEnds, Over
    <3>2. run[r] \in RunRow
      OBVIOUS
    <3> QED
      BY <3>1, <3>2 DEF RunRow, Over
  <2>2. emits' \in [Run -> 0..MaxEmits]
    BY <1>16 DEF RunEnds
  <2> QED
    BY <1>16, <2>1, <2>2 DEF RunEnds
<1>17. ASSUME NEW r \in Run, emits[r] > 0, emits' = [emits EXCEPT ![r] = @ - 1]
       PROVE  emits' \in [Run -> 0..MaxEmits]
  BY <1>17
<1>18. ASSUME NEW r \in Run, EmitNothing(r) PROVE TypeOK'
  BY <1>17, <1>18 DEF EmitNothing, EmitCalled
<1>19. ASSUME NEW r \in Run, EmitHere(r) PROVE TypeOK'
  <2>1. emits' \in [Run -> 0..MaxEmits]
    BY <1>17, <1>19 DEF EmitHere, EmitCalled
  <2>2. log' \in [Conv -> Seq(Message)]
    BY <1>19, AppendedLog, Texts DEF EmitHere, Announce
  <2> QED
    BY <1>19, <2>1, <2>2 DEF EmitHere, Announce
<1>20. ASSUME NEW r \in Run, NEW c \in Conv, EmitInNewConversation(r, c) PROVE TypeOK'
  <2>1. emits' \in [Run -> 0..MaxEmits]
    BY <1>17, <1>20 DEF EmitInNewConversation, EmitCalled
  <2>2. log' \in [Conv -> Seq(Message)]
    BY <1>20, AppendedLog, Texts DEF EmitInNewConversation, Announce
  <2> QED
    BY <1>20, <2>1, <2>2 DEF EmitInNewConversation, Announce
<1>21. ASSUME NEW t \in Turn, NEW k \in sent[t], SaveUserFails(t, k) PROVE TypeOK'
  BY <1>21 DEF SaveUserFails, Fault, Answered
<1>22. ASSUME NEW q \in serving, SaveReplyFails(q) PROVE TypeOK'
  BY <1>22 DEF SaveReplyFails, Fault, Answered, Request
<1>23. CASE Crash
  BY <1>23 DEF Crash, Fault, Request
<1>24. ASSUME NEW r \in Run, EmitLost(r) PROVE TypeOK'
  BY <1>17, <1>24 DEF EmitLost, Fault
<1>25. CASE UNCHANGED vars
  BY <1>25 DEF vars
<1>26. CASE \E c \in Conv : CreateConversation(c) \/ DeleteConversation(c)
  BY <1>1, <1>4, <1>26
<1>27. CASE \E t \in Turn : \/ Post(t) \/ GiveUp(t) \/ Begin(t) \/ \E k \in sent[t] : SaveUserFails(t, k)
  BY <1>5, <1>6, <1>7, <1>8, <1>9, <1>21, <1>27 DEF Begin
<1>28. CASE \E q \in serving : Serve(q) \/ SaveReplyFails(q)
  BY <1>10, <1>12, <1>13, <1>14, <1>22, <1>28 DEF Serve
<1>29. CASE \E r \in Run : StartBackgroundRun(r) \/ RunEnds(r) \/ Emit(r) \/ EmitLost(r)
  BY <1>15, <1>16, <1>18, <1>19, <1>20, <1>24, <1>29 DEF Emit
<1> QED
  BY <1>23, <1>25, <1>26, <1>27, <1>28, <1>29 DEF Next

-----------------------------------------------------------------------------
(* What a step does.                                                       *)

\* The choices of users do not change, and nothing is undone.
Lasting ==
    /\ keyed' = keyed /\ direct' = direct
    /\ \A t \in Turn : target[t] \in Conv => target'[t] = target[t]
    /\ \A t \in Turn : target'[t] = target[t] \/ target'[t] \in Open
    /\ \A c \in Conv : conv[c] # "none" => conv'[c] # "none"
    /\ \A c \in Conv : conv[c] = "gone" => conv'[c] = "gone"
    /\ \A r \in Run : run[r].status \in Over => run'[r].status \in Over
    /\ broken \subseteq broken' /\ faults' >= faults

\* Every step is of this kind.
LEMMA StepsLast == TypeOK /\ Next => Lasting
<1> SUFFICES ASSUME TypeOK, Next PROVE Lasting
  OBVIOUS
<1> USE ConversationsAssumption DEF Lasting, TypeOK, serverVars, kinds, clientVars, Open, Over
<1>1. ASSUME NEW c \in Conv, CreateConversation(c) PROVE Lasting
  BY <1>1 DEF CreateConversation, NextConv
<1>3. ASSUME NEW c \in Conv, DeleteConversation(c) PROVE Lasting
  <2>1. \A r \in Run : run'[r].status = run[r].status
    BY <1>3 DEF DeleteConversation, RunRow
  <2> QED
    BY <1>3, <2>1 DEF DeleteConversation
<1>4. ASSUME NEW t \in Turn, Post(t) PROVE Lasting
  BY <1>4 DEF Post, Conv
<1>5. ASSUME NEW t \in Turn, GiveUp(t) PROVE Lasting
  BY <1>5 DEF GiveUp
<1>6. ASSUME NEW t \in Turn, NEW k \in sent[t],
             Refuse(t, k) \/ SaveUserMessage(t, k) \/ SaveWithRole(t, k) \/ SaveUserFails(t, k)
      PROVE  Lasting
  BY <1>6 DEF Refuse, SaveUserMessage, SaveWithRole, SaveUserFails, Fault
<1>7. ASSUME NEW q \in serving,
             TouchAfterRole(q) \/ DecideReply(q) \/ ChatFlow(q) \/ DecideApology(q) \/ SaveReply(q) \/ SaveReplyFails(q)
      PROVE  Lasting
  BY <1>7 DEF TouchAfterRole, DecideReply, ChatFlow, DecideApology, SaveReply, SaveReplyFails, Fault
<1>8. ASSUME NEW q \in serving, NEW r \in Run, DecideTurn(q, r) \/ DecideTask(q, r) PROVE Lasting
  <2>1. /\ run[r].status = "none" /\ \A s \in Run \ {r} : run'[s] = run[s]
        /\ UNCHANGED <<kinds, target, conv, broken, faults>>
    BY <1>8 DEF DecideTurn, DecideTask, Starts, NextRun
  <2>2. \A s \in Run : run[s].status \in Over => run'[s].status \in Over
    BY <2>1, Zenon DEF Over
  <2> QED
    BY <2>1, <2>2
<1>9. ASSUME NEW r \in Run, StartBackgroundRun(r) \/ RunEnds(r) PROVE Lasting
  <2>1. /\ run[r].status \notin Over /\ \A s \in Run \ {r} : run'[s] = run[s]
        /\ UNCHANGED <<kinds, target, conv, broken, faults>>
    BY <1>9 DEF StartBackgroundRun, RunEnds, NextRun
  <2>2. \A s \in Run : run[s].status \in Over => run'[s].status \in Over
    BY <2>1, Zenon
  <2> QED
    BY <2>1, <2>2
<1>10. ASSUME NEW r \in Run, EmitNothing(r) \/ EmitHere(r) \/ EmitLost(r) PROVE Lasting
  BY <1>10 DEF EmitNothing, EmitHere, EmitLost, Fault
<1>11. ASSUME NEW r \in Run, NEW c \in Conv, EmitInNewConversation(r, c) PROVE Lasting
  BY <1>11 DEF EmitInNewConversation, NextConv
<1>12. CASE Crash
  BY <1>12 DEF Crash, Fault
<1> HIDE DEF Lasting
<1> QED
  BY <1>1, <1>3, <1>4, <1>5, <1>6, <1>7, <1>8, <1>9, <1>10, <1>11, <1>12
     DEF Next, Begin, Serve, Emit

\* The steps that write to a log.
Writes(c, m) == log' = [log EXCEPT ![c] = Append(@, m)]

Stores(t) ==
    \E k \in sent[t] : SaveUserMessage(t, k) \/ SaveWithRole(t, k)

Announces(c, r) ==
    \/ EmitHere(r) /\ c = run[r].conv
    \/ EmitInNewConversation(r, c)

\* Logs change by one message at the end, by a user, core-api or a worker, or by a deletion.
LEMMA Writers ==
    Next => \/ log' = log
            \/ \E c \in Conv : DeleteConversation(c)
            \/ \E t \in Turn : Stores(t)
            \/ \E q \in serving : SaveReply(q)
            \/ \E c \in Conv, r \in Run : Announces(c, r)
<1> SUFFICES ASSUME Next, log' # log
             PROVE  \/ \E c \in Conv : DeleteConversation(c)
                    \/ \E t \in Turn : Stores(t)
                    \/ \E q \in serving : SaveReply(q)
                    \/ \E c \in Conv, r \in Run : Announces(c, r)
  OBVIOUS
<1>1. CASE \E c \in Conv : CreateConversation(c) \/ DeleteConversation(c)
  BY <1>1 DEF CreateConversation
<1>2. CASE \E t \in Turn : \/ Post(t) \/ GiveUp(t) \/ Begin(t) \/ \E k \in sent[t] : SaveUserFails(t, k)
  BY <1>2 DEF Post, GiveUp, Begin, Refuse, SaveUserFails, Stores, serverVars
<1>3. CASE \E q \in serving : Serve(q) \/ SaveReplyFails(q)
  BY <1>3 DEF Serve, SaveReplyFails, TouchAfterRole, DecideReply, ChatFlow, DecideApology,
              DecideTurn, DecideTask, Starts, serverVars
<1>4. CASE \E r \in Run : StartBackgroundRun(r) \/ RunEnds(r) \/ Emit(r) \/ EmitLost(r)
  <2>1. ASSUME NEW r \in Run, EmitHere(r) PROVE run[r].conv \in Conv
    BY <2>1 DEF EmitHere, Open
  <2> QED
    BY <1>4, <2>1 DEF StartBackgroundRun, RunEnds, Emit, EmitNothing, EmitLost, Announces, serverVars
<1>5. CASE Crash
  BY <1>5 DEF Crash, serverVars
<1> QED
  BY <1>1, <1>2, <1>3, <1>4, <1>5 DEF Next

\* What each of them adds.
LEMMA Added ==
    ASSUME TypeOK, \A q \in serving : InFlight(q)
    PROVE  /\ \A t \in Turn : Stores(t) =>
                /\ target[t] \in Open /\ Said(t) \in Message /\ Writes(target[t], Said(t))
                /\ ~ Duplicate(t, target[t]) /\ serving = {}
                /\ UNCHANGED <<kinds, conv, run, emits, target, broken>>
           /\ \A q \in serving : SaveReply(q) =>
                /\ q.stage = "decided" /\ q.conv \in Open /\ q.reply \in Message /\ Writes(q.conv, q.reply)
                /\ serving' = {} /\ UNCHANGED <<kinds, conv, run, emits, target, broken>>
           /\ \A c \in Conv, r \in Run : Announces(c, r) =>
                /\ conv'[c] = "open" /\ Done(r) \in Message /\ Writes(c, Done(r))
                /\ run[r].conv = c \/ conv[c] = "none"
                /\ ~ Announced(r) /\ emits[r] > 0 /\ serving = {}
                /\ UNCHANGED <<kinds, run, serving, target, broken>>
<1> USE DEF TypeOK, Open, Writes, kinds, clientVars
<1>1. ASSUME NEW t \in Turn, Stores(t)
      PROVE  /\ target[t] \in Open /\ Said(t) \in Message /\ Writes(target[t], Said(t))
             /\ ~ Duplicate(t, target[t]) /\ serving = {}
             /\ UNCHANGED <<kinds, conv, run, emits, target, broken>>
  BY <1>1, Texts DEF Stores, SaveUserMessage, SaveWithRole, Accepts, LoopIsFree
<1>2. ASSUME NEW q \in serving, SaveReply(q)
      PROVE  /\ q.stage = "decided" /\ q.conv \in Open /\ q.reply \in Message /\ Writes(q.conv, q.reply)
             /\ serving' = {} /\ UNCHANGED <<kinds, conv, run, emits, target, broken>>
  BY <1>2 DEF SaveReply, InFlight
<1>3. ASSUME NEW c \in Conv, NEW r \in Run, Announces(c, r)
      PROVE  /\ conv'[c] = "open" /\ Done(r) \in Message /\ Writes(c, Done(r))
             /\ run[r].conv = c \/ conv[c] = "none"
             /\ ~ Announced(r) /\ emits[r] > 0 /\ serving = {}
             /\ UNCHANGED <<kinds, run, serving, target, broken>>
  BY <1>3, Texts DEF Announces, EmitHere, EmitInNewConversation, EmitCalled, Announce, LoopIsFree, NextConv
<1> QED
  BY <1>1, <1>2, <1>3

\* A message stays where it is until its conversation is deleted.
LEMMA LogsGrow ==
    ASSUME TypeOK, \A q \in serving : InFlight(q), Next
    PROVE  \A c \in Conv : \/ conv'[c] = "gone" /\ log'[c] = <<>>
                           \/ \A i \in DOMAIN log[c] : i \in DOMAIN log'[c] /\ log'[c][i] = log[c][i]
<1>0. log \in [Conv -> Seq(Message)]
  BY DEF TypeOK
<1>1. ASSUME NEW c \in Conv, NEW m \in Message, Writes(c, m)
      PROVE  \A d \in Conv : \A i \in DOMAIN log[d] : i \in DOMAIN log'[d] /\ log'[d][i] = log[d][i]
  BY <1>0, <1>1, AppendedLog DEF Writes
<1>2. CASE log' = log
  BY <1>2
<1>3. ASSUME NEW c \in Conv, DeleteConversation(c) PROVE conv'[c] = "gone" /\ log' = [log EXCEPT ![c] = <<>>]
  BY <1>3 DEF DeleteConversation, TypeOK
<1>4. CASE \E c \in Conv : DeleteConversation(c)
  BY <1>0, <1>3, <1>4
<1>5. CASE \E t \in Turn : Stores(t)
  BY <1>1, <1>5, Added DEF Open
<1>6. CASE \E q \in serving : SaveReply(q)
  BY <1>1, <1>6, Added DEF Open
<1>7. CASE \E c \in Conv, r \in Run : Announces(c, r)
  BY <1>1, <1>7, Added
<1> QED
  BY <1>2, <1>4, <1>5, <1>6, <1>7, Writers

-----------------------------------------------------------------------------
(* The parts of the invariant, one after the other.                        *)

\* For a part that speaks of what every log holds: it is enough to look at the new message.
LEMMA NewMessages ==
    ASSUME TypeOK, \A q \in serving : InFlight(q), Next
    PROVE  \A c \in Conv : \A i \in DOMAIN log'[c] :
             \/ i \in DOMAIN log[c] /\ log'[c][i] = log[c][i]
             \/ /\ i = Len(log[c]) + 1 /\ i \notin DOMAIN log[c] /\ DOMAIN log[c] = 1..(i - 1)
                /\ i \in Nat /\ \A d \in Conv \ {c} : log'[d] = log[d]
                /\ \/ \E t \in Turn : Stores(t) /\ c = target[t] /\ log'[c][i] = Said(t)
                   \/ \E q \in serving : SaveReply(q) /\ c = q.conv /\ log'[c][i] = q.reply
                   \/ \E r \in Run : Announces(c, r) /\ log'[c][i] = Done(r)
<1>0. log \in [Conv -> Seq(Message)]
  BY DEF TypeOK
<1>1. ASSUME NEW c \in Conv, NEW m \in Message, Writes(c, m), NEW d \in Conv, NEW i \in DOMAIN log'[d]
      PROVE  \/ i \in DOMAIN log[d] /\ log'[d][i] = log[d][i]
             \/ /\ d = c /\ i = Len(log[c]) + 1 /\ i \notin DOMAIN log[c] /\ DOMAIN log[c] = 1..(i - 1)
                /\ i \in Nat /\ \A e \in Conv \ {c} : log'[e] = log[e]
                /\ log'[d][i] = m
  BY <1>0, <1>1, AppendedLog DEF Writes
<1> SUFFICES ASSUME NEW c \in Conv, NEW i \in DOMAIN log'[c]
             PROVE  \/ i \in DOMAIN log[c] /\ log'[c][i] = log[c][i]
                    \/ /\ i = Len(log[c]) + 1 /\ i \notin DOMAIN log[c] /\ DOMAIN log[c] = 1..(i - 1)
                       /\ i \in Nat /\ \A d \in Conv \ {c} : log'[d] = log[d]
                       /\ \/ \E t \in Turn : Stores(t) /\ c = target[t] /\ log'[c][i] = Said(t)
                          \/ \E q \in serving : SaveReply(q) /\ c = q.conv /\ log'[c][i] = q.reply
                          \/ \E r \in Run : Announces(c, r) /\ log'[c][i] = Done(r)
  OBVIOUS
<1>2. CASE log' = log
  BY <1>2
<1>3. CASE \E d \in Conv : DeleteConversation(d)
  BY <1>0, <1>3 DEF DeleteConversation
<1>4. CASE \E t \in Turn : Stores(t)
  BY <1>1, <1>4, Added DEF Open
<1>5. CASE \E q \in serving : SaveReply(q)
  BY <1>1, <1>5, Added DEF Open
<1>6. CASE \E d \in Conv, r \in Run : Announces(d, r)
  BY <1>1, <1>6, Added
<1> QED
  BY <1>2, <1>3, <1>4, <1>5, <1>6, Writers

\* A new message is about what it should be, and what it is about does not change.
LEMMA ShapedStep ==
    ASSUME TypeOK, \A q \in serving : InFlight(q), Placed, Shaped, Next
    PROVE  Shaped'
<1>0. Lasting
  BY StepsLast
<1>1. ASSUME NEW c \in Conv, NEW m, Shape(c, m) PROVE Shape(c, m)'
  BY <1>0, <1>1 DEF Shape, Lasting
<1>2. ASSUME NEW t \in Turn, NEW c \in Conv, Stores(t), c = target[t] PROVE Shape(c, Said(t))'
  BY <1>0, <1>2 DEF Shape, Lasting, Said
<1>3. ASSUME NEW q \in serving, NEW c \in Conv, SaveReply(q), c = q.conv PROVE Shape(c, q.reply)'
  <2>1. q.reply.kind \in Replies /\ q.reply.turn = q.turn /\ target[q.turn] = c /\ q.turn \in Turn
    BY <1>3 DEF SaveReply, InFlight, TypeOK, Request
  <2> QED
    BY <1>0, <1>3, <2>1 DEF Shape, Lasting, Replies
<1>4. ASSUME NEW r \in Run, NEW c \in Conv, Announces(c, r) PROVE Shape(c, Done(r))'
  BY <1>0, <1>4, Added DEF Shape, Lasting, Done, Placed
<1> SUFFICES ASSUME NEW c \in Conv, NEW i \in DOMAIN log'[c] PROVE Shape(c, log[c][i])'
  BY DEF Shaped
<1> QED
  BY <1>1, <1>2, <1>3, <1>4, NewMessages DEF Shaped

\* Nothing is written into a conversation that is gone.
LEMMA GoneStep ==
    ASSUME TypeOK, \A q \in serving : InFlight(q), GoneIsEmpty, Next
    PROVE  GoneIsEmpty'
<1>0. Lasting /\ log \in [Conv -> Seq(Message)] /\ conv \in [Conv -> {"none", "open", "gone"}]
  BY StepsLast DEF TypeOK
<1>1. CASE log' = log /\ conv' = conv
  BY <1>1 DEF GoneIsEmpty, Open
<1>2. ASSUME NEW c \in Conv, CreateConversation(c) PROVE GoneIsEmpty'
  BY <1>0, <1>2 DEF CreateConversation, GoneIsEmpty, Open
<1>3. ASSUME NEW c \in Conv, DeleteConversation(c) PROVE GoneIsEmpty'
  BY <1>0, <1>3 DEF DeleteConversation, GoneIsEmpty, Open
<1>4. ASSUME NEW c \in Conv, NEW m, Writes(c, m), conv'[c] = "open",
             \A d \in Conv \ {c} : conv'[d] = conv[d]
      PROVE  GoneIsEmpty'
  BY <1>0, <1>4 DEF Writes, GoneIsEmpty, Open
<1>5. CASE \E t \in Turn : Stores(t)
  BY <1>4, <1>5, Added DEF Open
<1>6. CASE \E q \in serving : SaveReply(q)
  BY <1>4, <1>6, Added DEF Open
<1>7. ASSUME NEW c \in Conv, NEW r \in Run, Announces(c, r) PROVE GoneIsEmpty'
  <2>1. conv' = conv \/ conv' = [conv EXCEPT ![c] = "open"]
    BY <1>7 DEF Announces, EmitHere, EmitInNewConversation
  <2>2. \A d \in Conv \ {c} : conv'[d] = conv[d]
    BY <1>0, <2>1
  <2>3. Writes(c, Done(r)) /\ conv'[c] = "open"
    BY <1>7, Added
  <2> QED
    BY <1>4, <2>2, <2>3
<1>8. CASE log' = log
  <2>1. \/ conv' = conv
        \/ \E c \in Conv : CreateConversation(c) \/ DeleteConversation(c)
        \/ \E r \in Run, c \in Conv : EmitInNewConversation(r, c)
    BY DEF Next, Post, GiveUp, Begin, Refuse, SaveUserMessage,
           SaveWithRole, SaveUserFails, Serve, TouchAfterRole, DecideReply, ChatFlow, DecideApology,
           DecideTurn, DecideTask, Starts, SaveReply, SaveReplyFails, StartBackgroundRun, RunEnds, Emit,
           EmitNothing, EmitHere, EmitLost, Crash, serverVars
  <2> QED
    BY <1>1, <1>2, <1>3, <1>7, <1>8, <2>1 DEF Announces
<1> QED
  BY <1>3, <1>5, <1>6, <1>7, <1>8, Writers

\* What may happen to a run.
LEMMA RunSteps ==
    ASSUME TypeOK, Next, NEW r \in Run
    PROVE  \/ run'[r] = run[r] /\ emits'[r] = emits[r]
           \/ \E c \in Conv : DeleteConversation(c)
           \/ \E q \in serving : DecideTurn(q, r) \/ DecideTask(q, r)
           \/ StartBackgroundRun(r) \/ RunEnds(r) \/ Emit(r) \/ EmitLost(r)
<1>0. run \in [Run -> RunRow] /\ emits \in [Run -> 0..MaxEmits]
  BY DEF TypeOK
<1> DEFINE Same == run'[r] = run[r] /\ emits'[r] = emits[r]
<1>1. ASSUME UNCHANGED <<run, emits>> PROVE Same
  BY <1>1
<1>2. ASSUME NEW s \in Run \ {r}, NEW row, run' = run \/ run' = [run EXCEPT ![s] = row],
             NEW n, emits' = emits \/ emits' = [emits EXCEPT ![s] = n]
      PROVE  Same
  BY <1>0, <1>2
<1> HIDE DEF Same
<1>3. CASE \E c \in Conv : CreateConversation(c) \/ DeleteConversation(c)
  BY <1>1, <1>3 DEF CreateConversation, Same
<1>4. CASE \E t \in Turn : \/ Post(t) \/ GiveUp(t) \/ Begin(t) \/ \E k \in sent[t] : SaveUserFails(t, k)
  <2>1. UNCHANGED <<run, emits>>
    BY <1>4 DEF Post, GiveUp, Begin, Refuse, SaveUserMessage, SaveWithRole, SaveUserFails
  <2> QED
    BY <1>1, <2>1 DEF Same
<1>5. CASE \E q \in serving : Serve(q) \/ SaveReplyFails(q)
  <2>1. ASSUME NEW q \in serving, NEW s \in Run \ {r}, DecideTurn(q, s) \/ DecideTask(q, s) PROVE Same
    BY <1>2, <2>1 DEF DecideTurn, DecideTask, Starts
  <2>2. \/ UNCHANGED <<run, emits>>
        \/ \E q \in serving, s \in Run : DecideTurn(q, s) \/ DecideTask(q, s)
    BY <1>5 DEF Serve, SaveReplyFails, TouchAfterRole, DecideReply, ChatFlow, DecideApology, SaveReply
  <2> QED
    BY <1>1, <2>1, <2>2 DEF Same
<1>6. CASE \E s \in Run : StartBackgroundRun(s) \/ RunEnds(s) \/ Emit(s) \/ EmitLost(s)
  <2>1. ASSUME NEW s \in Run \ {r}, StartBackgroundRun(s) PROVE Same
    BY <1>2, <2>1 DEF StartBackgroundRun
  <2>2. ASSUME NEW s \in Run \ {r}, RunEnds(s) PROVE Same
    BY <1>0, <2>2 DEF RunEnds, Same
  <2>3. ASSUME NEW s \in Run \ {r}, Emit(s) \/ EmitLost(s) PROVE Same
    BY <1>2, <2>3 DEF Emit, EmitNothing, EmitHere, EmitInNewConversation, EmitLost, EmitCalled
  <2> QED
    BY <1>6, <2>1, <2>2, <2>3 DEF Same
<1>7. CASE Crash
  BY <1>1, <1>7 DEF Crash, Same
<1> QED
  BY <1>3, <1>4, <1>5, <1>6, <1>7 DEF Next, Same

\* The row of a run that a decision started.
LEMMA Started ==
    ASSUME TypeOK, NEW q \in serving, NEW r \in Run, DecideTurn(q, r) \/ DecideTask(q, r)
    PROVE  /\ run[r].status = "none" /\ q.stage = "saved"
           /\ run'[r].status = "active" /\ run'[r].turn = q.turn /\ q.turn \in Turn
           /\ \A s \in Run \ {r} : run'[s] = run[s]
           /\ run'[r].conv \in Open \cup {q.conv}
           /\ \E k \in Replies : Decided(q, Reply(k, q.turn, r))
           /\ UNCHANGED <<kinds, conv, log, emits, target, broken>>
<1>0. run \in [Run -> RunRow] /\ q \in Request
  BY DEF TypeOK
<1>1. PICK type \in {"turn", "task"}, c \in Open \cup {q.conv}, k \in Replies : Starts(q, r, type, c, k)
  <2>1. CASE DecideTurn(q, r)
    <3>1. Starts(q, r, "turn", q.conv, "start")
      BY <2>1 DEF DecideTurn
    <3> QED
      BY <3>1 DEF Replies
  <2>2. CASE DecideTask(q, r)
    <3>1. PICK v \in Verdict(q.conv) : v.type = "task" /\ Starts(q, r, "task", v.conv, "answer")
      BY <2>2 DEF DecideTask
    <3>2. v.conv \in Open
      BY <3>1 DEF Verdict
    <3> QED
      BY <3>1, <3>2 DEF Replies
  <2> QED
    BY <2>1, <2>2
<1>2. run' = [run EXCEPT ![r] = [status |-> "active", type |-> type, conv |-> c, turn |-> q.turn]]
  BY <1>1 DEF Starts
<1>3. run'[r] = [status |-> "active", type |-> type, conv |-> c, turn |-> q.turn]
  BY <1>0, <1>2
<1>4. run[r].status = "none" /\ q.stage = "saved"
  BY DEF DecideTurn, DecideTask, NextRun
<1> QED
  BY <1>0, <1>1, <1>2, <1>3, <1>4 DEF Starts, Request, serverVars, clientVars

\* Deleting a conversation changes no more of a run than its reference.
LEMMA Deleted ==
    ASSUME TypeOK, NEW c \in Conv, DeleteConversation(c), NEW r \in Run
    PROVE  /\ run'[r].status = run[r].status /\ run'[r].type = run[r].type /\ run'[r].turn = run[r].turn
           /\ run'[r].conv \in {run[r].conv, None}
           /\ UNCHANGED <<kinds, emits, serving, target, broken, faults, client>>
           /\ serving = {} /\ conv[c] = "open" /\ conv'[c] = "gone" /\ log' = [log EXCEPT ![c] = <<>>]
           /\ \A d \in Conv \ {c} : conv'[d] = conv[d]
<1>0. run[r] \in RunRow /\ conv \in [Conv -> {"none", "open", "gone"}]
  BY DEF TypeOK
<1>1. PICK left \in {c, None} : run' = [s \in Run |-> IF run[s].conv = c THEN [run[s] EXCEPT !.conv = left] ELSE run[s]]
  BY DEF DeleteConversation
<1>2. /\ run'[r].status = run[r].status /\ run'[r].type = run[r].type /\ run'[r].turn = run[r].turn
      /\ run'[r].conv \in {run[r].conv, None}
  BY <1>0, <1>1 DEF RunRow
<1> QED
  BY <1>0, <1>2 DEF DeleteConversation, Open, LoopIsFree, kinds, clientVars

\* Runs and turns stay where they belong.
LEMMA PlacedStep ==
    ASSUME TypeOK, \A q \in serving : InFlight(q), Placed, GoneIsEmpty, Next
    PROVE  Placed'
<1>0. /\ Lasting /\ run \in [Run -> RunRow] /\ emits \in [Run -> 0..MaxEmits]
      /\ None \notin Conv /\ keyed \subseteq Turn /\ None \notin Turn
      /\ target \in [Turn -> Conv \cup {None}]
  BY StepsLast, ConversationsAssumption DEF TypeOK, Conv
<1>1. \A t \in Turn : target'[t] \in Conv => conv'[target'[t]] # "none"
  BY <1>0 DEF Lasting, Placed, Open
<1> DEFINE Sound(r) == /\ emits[r] > 0 => run[r].status \in Over
                       /\ run[r].conv \in Conv => conv[run[r].conv] # "none"
                       /\ run[r].turn \in keyed =>
                            LET c == target[run[r].turn]
                            IN  c \in Conv /\ (conv[c] = "gone" \/ Holds(c, Said(run[r].turn)))
<1>2. ASSUME NEW r \in Run, emits'[r] > 0 => run'[r].status \in Over,
             run'[r].conv \in {run[r].conv, None}, run'[r].turn = run[r].turn
      PROVE  Sound(r)'
  <2>1. ASSUME NEW t \in keyed, target[t] \in Conv, conv[target[t]] = "gone" \/ Holds(target[t], Said(t))
        PROVE  target'[t] = target[t] /\ (conv'[target[t]] = "gone" \/ Holds(target[t], Said(t))')
    <3>1. target'[t] = target[t]
      BY <1>0, <2>1 DEF Lasting
    <3> QED
      BY <1>0, <2>1, <3>1, LogsGrow DEF Lasting, Holds, Said
  <2>2. run[r].conv \in Conv => conv[run[r].conv] # "none"
    BY DEF Placed
  <2>3. run'[r].conv \in Conv => conv'[run'[r].conv] # "none"
    BY <1>0, <1>2, <2>2 DEF Lasting
  <2>4. run[r].turn \in keyed => /\ target[run[r].turn] \in Conv
                                 /\ conv[target[run[r].turn]] = "gone" \/ Holds(target[run[r].turn], Said(run[r].turn))
    BY DEF Placed
  <2>5. keyed' = keyed
    BY <1>0 DEF Lasting
  <2> QED
    BY <1>2, <2>1, <2>3, <2>4, <2>5
<1>3. ASSUME NEW r \in Run PROVE Sound(r)'
  <2>0. emits[r] > 0 => run[r].status \in Over
    BY DEF Placed
  <2>1. CASE run'[r] = run[r] /\ emits'[r] = emits[r]
    BY <1>2, <2>0, <2>1
  <2>2. CASE \E c \in Conv : DeleteConversation(c)
    <3>1. /\ emits'[r] = emits[r] /\ run'[r].status = run[r].status
          /\ run'[r].conv \in {run[r].conv, None} /\ run'[r].turn = run[r].turn
      BY <2>2, Deleted
    <3> QED
      BY <1>2, <2>0, <3>1
  <2>3. ASSUME NEW q \in serving, DecideTurn(q, r) \/ DecideTask(q, r) PROVE Sound(r)'
    <3>1. /\ q.conv \in Open /\ target[q.turn] = q.conv /\ Holds(q.conv, Said(q.turn))
      BY DEF InFlight
    <3>2. /\ UNCHANGED <<kinds, conv, log, emits, target>> /\ run'[r].turn = q.turn /\ run'[r].conv \in Open
          /\ run[r].status = "none"
      BY <2>3, <3>1, Started
    <3>3. ~ (emits'[r] > 0)
      BY <2>0, <3>2 DEF Over
    <3>4. Holds(q.conv, Said(q.turn))'
      BY <3>1, <3>2 DEF Holds, Said
    <3> QED
      BY <3>1, <3>2, <3>3, <3>4 DEF Open
  <2>4. CASE StartBackgroundRun(r)
    <3>1. run'[r] = [status |-> "active", type |-> "task", conv |-> None, turn |-> None]
      BY <1>0, <2>4 DEF StartBackgroundRun
    <3>2. emits' = emits /\ run[r].status = "none" /\ keyed' = keyed
      BY <1>0, <2>4 DEF StartBackgroundRun, NextRun, Lasting
    <3>3. ~ (emits'[r] > 0)
      BY <2>0, <3>2 DEF Over
    <3> QED
      BY <1>0, <3>1, <3>2, <3>3
  <2>5. CASE RunEnds(r)
    <3>1. PICK s \in Over : run' = [run EXCEPT ![r].status = s]
      BY <2>5 DEF RunEnds, Over
    <3>2. run'[r].status = s /\ run'[r].conv = run[r].conv /\ run'[r].turn = run[r].turn
      BY <1>0, <3>1 DEF RunRow
    <3> QED
      BY <1>2, <3>1, <3>2
  <2>6. CASE Emit(r) \/ EmitLost(r)
    <3>1. run' = run /\ emits[r] > 0
      BY <2>6 DEF Emit, EmitNothing, EmitHere, EmitInNewConversation, EmitCalled, EmitLost
    <3> QED
      BY <1>2, <2>0, <3>1
  <2> QED
    BY <2>1, <2>2, <2>3, <2>4, <2>5, <2>6, RunSteps
<1> QED
  BY <1>1, <1>3 DEF Placed

\* A run that ended is announced, unless a call was lost or a conversation deleted.
LEMMA EndedStep ==
    ASSUME TypeOK, \A q \in serving : InFlight(q), Placed, EndedIsAnnounced, Next
    PROVE  EndedIsAnnounced'
<1> SUFFICES ASSUME NEW r \in Run, faults' = 0, \A c \in Conv : conv'[c] # "gone",
                    run'[r].status \in Over, ~ EmitRaises(r)', emits'[r] = 0
             PROVE  Announced(r)'
  BY DEF EndedIsAnnounced, Over
<1>0. /\ Lasting /\ run \in [Run -> RunRow] /\ emits \in [Run -> 0..MaxEmits]
      /\ log \in [Conv -> Seq(Message)] /\ conv \in [Conv -> {"none", "open", "gone"}]
  BY StepsLast DEF TypeOK
<1>1. faults = 0
  BY <1>0, ConversationsAssumption DEF Lasting, TypeOK
<1>2. \A c \in Conv : conv[c] # "gone"
  BY <1>0 DEF Lasting
<1>3. ASSUME Announced(r) PROVE Announced(r)'
  BY <1>3, LogsGrow DEF Announced, Holds, Done
<1>4. CASE run'[r] = run[r] /\ emits'[r] = emits[r]
  BY <1>1, <1>2, <1>3, <1>4 DEF EndedIsAnnounced, EmitRaises, Over
<1>5. CASE \E c \in Conv : DeleteConversation(c)
  BY <1>5, Deleted
<1>6. CASE \E q \in serving : DecideTurn(q, r) \/ DecideTask(q, r)
  BY <1>6, Started DEF Over
<1>7. CASE StartBackgroundRun(r)
  BY <1>0, <1>7 DEF StartBackgroundRun, Over
<1>8. CASE RunEnds(r)
  BY <1>0, <1>8, ConversationsAssumption DEF RunEnds
<1>9. CASE EmitNothing(r)
  <2>1. run' = run /\ (Announced(r) \/ EmitRaises(r) \/ run[r].conv \in Conv \ Open)
    BY <1>9 DEF EmitNothing
  <2>2. run[r].conv \notin Conv \ Open
    BY <1>0, <1>2 DEF Placed, Open
  <2> QED
    BY <1>3, <2>1, <2>2 DEF EmitRaises
<1>10. ASSUME NEW c \in Conv, Announces(c, r) PROVE Announced(r)'
  <2>1. Writes(c, Done(r)) /\ Done(r) \in Message
    BY <1>10, Added
  <2>2. Len(log[c]) + 1 \in DOMAIN log'[c] /\ log'[c][Len(log[c]) + 1] = Done(r)
    BY <1>0, <2>1, AppendedLog DEF Writes
  <2>3. Holds(c, Done(r))'
    BY <2>2 DEF Holds, Done
  <2> QED
    BY <2>3 DEF Announced
<1>11. CASE EmitLost(r)
  BY <1>1, <1>11 DEF EmitLost, Fault
<1>12. CASE Emit(r)
  BY <1>9, <1>10, <1>12 DEF Emit, Announces, EmitHere, Open
<1> QED
  BY <1>4, <1>5, <1>6, <1>7, <1>8, <1>11, <1>12, RunSteps

\* What the new messages are.
LEMMA NewKinds ==
    /\ \A t \in Turn : Said(t).kind = "user" /\ Said(t).turn = t /\ Said(t).run = None
    /\ \A r \in Run : Done(r).kind = "done" /\ Done(r).turn = None /\ Done(r).run = r
BY DEF Said, Done

\* No second announcement, message, answer or run.
LEMMA OnceStep ==
    ASSUME TypeOK, \A q \in serving : InFlight(q), Shaped, Once, Next
    PROVE  Once'
<1>0. Lasting /\ keyed \subseteq Turn /\ None \notin Turn
  BY StepsLast, ConversationsAssumption DEF TypeOK
<1>1. ASSUME NEW q \in serving, SaveReply(q)
      PROVE  q.reply.kind \in Replies /\ q.reply.turn = q.turn /\ (q.turn \in keyed => ~ Replied(q.conv, q.turn))
  BY <1>1 DEF SaveReply, InFlight
<1>2. ASSUME NEW c \in Conv, NEW d \in Conv, NEW i \in DOMAIN log'[c], NEW j \in DOMAIN log'[d],
             log'[c][i].kind = "done", log'[d][j] = log'[c][i]
      PROVE  c = d /\ i = j
  <2>1. ASSUME NEW e \in Conv, NEW k \in DOMAIN log'[e], NEW f \in Conv, NEW l \in DOMAIN log[f],
               log'[e][k].kind = "done", log[f][l] = log'[e][k]
        PROVE  k \in DOMAIN log[e] /\ log'[e][k] = log[e][k]
    <3>1. ASSUME NEW r \in Run, Announces(e, r), log'[e][k] = Done(r) PROVE FALSE
      BY <2>1, <3>1, Added DEF Announced, Holds
    <3>2. ASSUME NEW q \in serving, SaveReply(q), log'[e][k] = q.reply PROVE FALSE
      BY <1>1, <2>1, <3>2 DEF Replies
    <3>3. ASSUME NEW t \in Turn, log'[e][k] = Said(t) PROVE FALSE
      BY <2>1, <3>3, NewKinds
    <3> QED
      BY <3>1, <3>2, <3>3, NewMessages
  <2>0. ASSUME i \in DOMAIN log[c], j \in DOMAIN log[d], log[c][i].kind = "done", log[d][j] = log[c][i]
        PROVE  c = d /\ i = j
    BY <2>0 DEF Once
  <2>2. CASE i \in DOMAIN log[c] /\ log'[c][i] = log[c][i]
    <3>1. j \in DOMAIN log[d] /\ log'[d][j] = log[d][j]
      BY <1>2, <2>1, <2>2
    <3> QED
      BY <1>2, <2>0, <2>2, <3>1
  <2>3. CASE j \in DOMAIN log[d] /\ log'[d][j] = log[d][j]
    <3>1. i \in DOMAIN log[c] /\ log'[c][i] = log[c][i]
      BY <1>2, <2>1, <2>3
    <3> QED
      BY <1>2, <2>0, <2>3, <3>1
  <2> QED
    BY <2>2, <2>3, NewMessages
<1>3. ASSUME NEW c \in Conv, NEW i \in DOMAIN log'[c], NEW j \in DOMAIN log'[c],
             log'[c][i].turn \in keyed, log'[c][j].turn = log'[c][i].turn,
             log'[c][i].kind = "user" <=> log'[c][j].kind = "user"
      PROVE  i = j
  <2>1. ASSUME NEW k \in DOMAIN log'[c], NEW l \in DOMAIN log[c],
               log'[c][k].turn \in keyed, log[c][l].turn = log'[c][k].turn,
               log'[c][k].kind = "user" <=> log[c][l].kind = "user"
        PROVE  k \in DOMAIN log[c] /\ log'[c][k] = log[c][k]
    <3>1. ASSUME NEW r \in Run, log'[c][k] = Done(r) PROVE FALSE
      BY <1>0, <2>1, <3>1, NewKinds
    <3>2. ASSUME NEW q \in serving, SaveReply(q), c = q.conv, log'[c][k] = q.reply PROVE FALSE
      BY <1>1, <2>1, <3>2 DEF Replies, Replied
    <3>3. ASSUME NEW t \in Turn, Stores(t), c = target[t], log'[c][k] = Said(t) PROVE FALSE
      <4>1. t \in keyed /\ log[c][l].kind = "user" /\ log[c][l].turn = t
        BY <2>1, <3>3, NewKinds
      <4>2. log[c][l] = Said(t)
        BY <4>1 DEF Shaped, Shape
      <4> QED
        BY <3>3, <4>1, <4>2, Added DEF Duplicate, Holds
    <3> QED
      BY <3>1, <3>2, <3>3, NewMessages
  <2>2. CASE i \in DOMAIN log[c] /\ log'[c][i] = log[c][i]
    <3>1. j \in DOMAIN log[c] /\ log'[c][j] = log[c][j]
      BY <1>3, <2>1, <2>2
    <3> QED
      BY <1>3, <2>2, <3>1 DEF Once
  <2>3. CASE j \in DOMAIN log[c] /\ log'[c][j] = log[c][j]
    <3>1. i \in DOMAIN log[c] /\ log'[c][i] = log[c][i]
      BY <1>3, <2>1, <2>3
    <3> QED
      BY <1>3, <2>3, <3>1 DEF Once
  <2> QED
    BY <2>2, <2>3, NewMessages
<1>4. ASSUME NEW r \in Run, NEW s \in Run, run'[r].turn \in keyed, run'[s].turn = run'[r].turn
      PROVE  r = s
  <2>1. ASSUME NEW x \in Run, run'[x].turn \in keyed
        PROVE  \/ run'[x].turn = run[x].turn
               \/ \E q \in serving : /\ DecideTurn(q, x) \/ DecideTask(q, x)
                                     /\ \A y \in Run : run[y].turn # run'[x].turn
                                     /\ \A y \in Run \ {x} : run'[y] = run[y]
    <3>1. CASE \E c \in Conv : DeleteConversation(c)
      BY <3>1, Deleted
    <3>2. ASSUME NEW q \in serving, DecideTurn(q, x) \/ DecideTask(q, x)
          PROVE  /\ \A y \in Run : run[y].turn # run'[x].turn
                 /\ \A y \in Run \ {x} : run'[y] = run[y]
      BY <2>1, <3>2, Started DEF InFlight
    <3>3. CASE StartBackgroundRun(x)
      BY <1>0, <2>1, <3>3 DEF StartBackgroundRun, TypeOK
    <3>4. CASE RunEnds(x)
      BY <3>4 DEF RunEnds, TypeOK, RunRow
    <3>5. CASE Emit(x) \/ EmitLost(x)
      BY <3>5 DEF Emit, EmitNothing, EmitHere, EmitInNewConversation, EmitLost
    <3> QED
      BY <3>1, <3>2, <3>3, <3>4, <3>5, RunSteps
  <2> QED
    BY <1>4, <2>1 DEF Once
<1>5. keyed' = keyed
  BY <1>0 DEF Lasting
<1> QED
  BY <1>2, <1>3, <1>4, <1>5 DEF Once

\* What becomes of the request under way.  The last case are steps of senders and workers,
\* who do not wait for it.
Thinks(q) == DecideReply(q) \/ ChatFlow(q) \/ DecideApology(q)
Starting(q, r) == DecideTurn(q, r) \/ DecideTask(q, r)
Leaves(q) == TouchAfterRole(q) \/ SaveReply(q) \/ SaveReplyFails(q)

\* What happens to the request under way, step by step.
LEMMA ServingSteps ==
    ASSUME TypeOK, Next, serving # {}
    PROVE  \/ Crash
           \/ \E q \in serving : Leaves(q) \/ Thinks(q) \/ \E r \in Run : Starting(q, r)
           \/ UNCHANGED <<serving, log, conv>> /\ \A r \in Run : run'[r].turn = run[r].turn
<1> SUFFICES ASSUME ~ Crash, \A q \in serving : ~ Leaves(q) /\ ~ Thinks(q) /\ \A r \in Run : ~ Starting(q, r)
             PROVE  UNCHANGED <<serving, log, conv>> /\ \A r \in Run : run'[r].turn = run[r].turn
  OBVIOUS
<1>1. ~ LoopIsFree
  BY DEF LoopIsFree
<1>2. \/ \E t \in Turn : Post(t) \/ GiveUp(t)
      \/ \E r \in Run : RunEnds(r) \/ EmitLost(r)
  BY <1>1 DEF Next, CreateConversation, DeleteConversation,
              Begin, Refuse, SaveUserMessage, SaveWithRole, SaveUserFails, Accepts, Serve, Leaves, Thinks,
              Starting, StartBackgroundRun, Emit, EmitNothing, EmitHere, EmitInNewConversation, EmitCalled
<1>3. ASSUME NEW t \in Turn, Post(t) \/ GiveUp(t) PROVE UNCHANGED <<serving, log, conv, run>>
  BY <1>3 DEF Post, GiveUp, serverVars
<1>4. ASSUME NEW r \in Run, RunEnds(r) \/ EmitLost(r)
      PROVE  UNCHANGED <<serving, log, conv>> /\ \A s \in Run : run'[s].turn = run[s].turn
  <2>1. ASSUME NEW s \in Run, RunEnds(r) PROVE run'[s].turn = run[s].turn
    BY <2>1 DEF RunEnds, TypeOK, RunRow
  <2> QED
    BY <1>4, <2>1 DEF RunEnds, EmitLost, serverVars
<1> QED
  BY <1>2, <1>3, <1>4

\* The request after the decision.
LEMMA DecidedRequest ==
    ASSUME TypeOK, NEW q \in serving, InFlight(q), NEW m, Decided(q, m)
    PROVE  \E d : /\ serving' = {d} /\ d.stage = "decided" /\ d.turn = q.turn /\ d.conv = q.conv
                  /\ d.reply = m
<1>1. q \in Request /\ serving = {q}
  BY DEF TypeOK, InFlight
<1> DEFINE d == [q EXCEPT !.stage = "decided", !.reply = m]
<1>2. d.stage = "decided" /\ d.turn = q.turn /\ d.conv = q.conv /\ d.reply = m
  BY <1>1 DEF Request
<1>3. serving' = {d}
  BY <1>1 DEF Decided
<1> QED
  BY <1>2, <1>3

\* A request that core-api begins.
LEMMA Begun ==
    ASSUME TypeOK, NEW t \in Turn, Stores(t)
    PROVE  \E d : /\ serving' = {d} /\ d.turn = t /\ d.conv = target[t] /\ d.stage \in {"saved", "inserted"}
                  /\ d.stage = "inserted" => t \in direct
<1>1. PICK k \in sent[t] : SaveUserMessage(t, k) \/ SaveWithRole(t, k)
  BY DEF Stores
<1>2. CASE SaveUserMessage(t, k)
  <2> DEFINE d == [stage |-> "saved", turn |-> t, attempt |-> k, conv |-> target[t], reply |-> None]
  <2>1. serving' = {d}
    BY <1>2 DEF SaveUserMessage, Accepts, LoopIsFree
  <2>2. d.stage = "saved" /\ d.turn = t /\ d.conv = target[t] /\ d.stage # "inserted"
    OBVIOUS
  <2> HIDE DEF d
  <2> QED
    BY <2>1, <2>2
<1>3. CASE SaveWithRole(t, k)
  <2> DEFINE d == [stage |-> "inserted", turn |-> t, attempt |-> k, conv |-> target[t], reply |-> None]
  <2>1. serving' = {d}
    BY <1>3 DEF SaveWithRole, Accepts, LoopIsFree
  <2>2. d.stage = "inserted" /\ d.turn = t /\ d.conv = target[t] /\ t \in direct
    BY <1>3 DEF SaveWithRole
  <2> HIDE DEF d
  <2> QED
    BY <2>1, <2>2
<1> QED
  BY <1>1, <1>2, <1>3

\* While nothing is under way, only a sender can change that.
LEMMA Idle ==
    ASSUME TypeOK, Next, serving = {}
    PROVE  serving' = {} \/ \E t \in Turn : Stores(t)
BY DEF Next, CreateConversation, DeleteConversation,
       Post, GiveUp, Begin, Refuse, Stores, SaveUserFails, StartBackgroundRun, RunEnds, EmitLost,
       Emit, EmitNothing, EmitHere, EmitInNewConversation, Crash

\* Nothing is announced above its start or answered above its question.
LEMMA InOrderStep ==
    ASSUME TypeOK, \A q \in serving : InFlight(q), Shaped, InOrder, Next
    PROVE  InOrder'
<1>0. /\ \A c \in Conv : DOMAIN log[c] = 1..Len(log[c]) /\ Len(log[c]) \in Nat
      /\ \A c \in Conv : \A i \in DOMAIN log[c] : log[c][i].run \in Run \cup {None}
      /\ None \notin Turn
  <2>1. ASSUME NEW c \in Conv
        PROVE  /\ DOMAIN log[c] = 1..Len(log[c]) /\ Len(log[c]) \in Nat
               /\ \A i \in DOMAIN log[c] : log[c][i] \in Message
    BY DEF TypeOK
  <2> QED
    BY <2>1, ConversationsAssumption DEF Message
<1> SUFFICES ASSUME NEW c \in Conv, NEW j \in DOMAIN log'[c]
             PROVE  /\ \A i \in DOMAIN log'[c] :
                         /\ log'[c][i].run # None /\ log'[c][i].run = log'[c][j].run
                         /\ log'[c][i].kind \in {"answer", "start"} /\ log'[c][j].kind = "done"
                         => i < j
                    /\ log'[c][j].kind \in Replies => \E k \in 1..(j - 1) : log'[c][k] = Said(log'[c][j].turn)
  BY DEF InOrder, Replies, Said
<1>1. \/ j \in DOMAIN log[c] /\ log'[c][j] = log[c][j]
      \/ j = Len(log[c]) + 1
  BY NewMessages
<1>2. ASSUME NEW i \in DOMAIN log'[c], log'[c][i].run # None, log'[c][i].run = log'[c][j].run,
             log'[c][i].kind \in {"answer", "start"}, log'[c][j].kind = "done"
      PROVE  i < j
  <2>1. CASE i \in DOMAIN log[c] /\ log'[c][i] = log[c][i]
    <3>1. CASE j \in DOMAIN log[c] /\ log'[c][j] = log[c][j]
      BY <1>2, <2>1, <3>1 DEF InOrder
    <3> QED
      BY <1>0, <1>1, <2>1, <3>1
  <2>2. ASSUME NEW q \in serving, SaveReply(q), c = q.conv, log'[c][i] = q.reply,
               i = Len(log[c]) + 1, i # j
        PROVE  FALSE
    <3>1. j \in DOMAIN log[c] /\ log'[c][j] = log[c][j]
      BY <2>2, NewMessages
    <3>2. log[c][j] = Done(log[c][j].run) /\ log[c][j].run \in Run
      BY <1>2, <3>1 DEF Shaped, Shape
    <3>3. Holds(c, Done(q.reply.run)) /\ q.reply.run \in Run
      BY <1>2, <2>2, <3>1, <3>2 DEF Holds
    <3> QED
      BY <2>2, <3>3 DEF SaveReply, InFlight
  <2>3. ASSUME NEW t \in Turn, log'[c][i] = Said(t) PROVE FALSE
    BY <1>2, <2>3, NewKinds
  <2>4. ASSUME NEW r \in Run, log'[c][i] = Done(r) PROVE FALSE
    BY <1>2, <2>4, NewKinds
  <2>5. i # j
    BY <1>2
  <2> QED
    BY <2>1, <2>2, <2>3, <2>4, <2>5, NewMessages
<1>3. ASSUME log'[c][j].kind \in Replies
      PROVE  \E k \in 1..(j - 1) : log'[c][k] = Said(log'[c][j].turn)
  <2>0. \A k \in DOMAIN log[c] : log'[c][k] = log[c][k]
    BY LogsGrow
  <2>1. CASE j \in DOMAIN log[c] /\ log'[c][j] = log[c][j]
    <3>1. PICK k \in 1..(j - 1) : log[c][k] = Said(log[c][j].turn)
      BY <1>3, <2>1 DEF InOrder, Replies
    <3>2. k \in DOMAIN log[c]
      BY <1>0, <2>1
    <3> QED
      BY <2>0, <2>1, <3>1, <3>2
  <2>2. ASSUME NEW q \in serving, SaveReply(q), c = q.conv, log'[c][j] = q.reply, DOMAIN log[c] = 1..(j - 1)
        PROVE  \E k \in 1..(j - 1) : log'[c][k] = Said(log'[c][j].turn)
    <3>1. Holds(c, Said(q.turn)) /\ q.reply.turn = q.turn
      BY <2>2 DEF SaveReply, InFlight
    <3>2. PICK k \in DOMAIN log[c] : log[c][k] = Said(q.turn)
      BY <3>1 DEF Holds
    <3> QED
      BY <2>0, <2>2, <3>1, <3>2
  <2>3. ASSUME NEW t \in Turn, log'[c][j] = Said(t) PROVE FALSE
    BY <1>3, <2>3, NewKinds DEF Replies
  <2>4. ASSUME NEW r \in Run, log'[c][j] = Done(r) PROVE FALSE
    BY <1>3, <2>4, NewKinds DEF Replies
  <2> QED
    BY <2>1, <2>2, <2>3, <2>4, NewMessages
<1> QED
  BY <1>2, <1>3

\* What the request under way has done stays true until its next step.
LEMMA InFlightStep ==
    ASSUME TypeOK, \A q \in serving : InFlight(q), Shaped, Placed, InOrder, Next
    PROVE  \A q \in serving' : InFlight(q)'
<1>0. /\ Lasting /\ None \notin Run /\ None \notin Turn /\ log \in [Conv -> Seq(Message)]
      /\ conv \in [Conv -> {"none", "open", "gone"}] /\ serving \subseteq Request
  BY StepsLast, ConversationsAssumption DEF TypeOK, Run
<1> SUFFICES ASSUME NEW e \in serving' PROVE InFlight(e)'
  OBVIOUS
<1>1. CASE serving = {}
  <2>1. PICK t \in Turn : Stores(t)
    BY <1>1, Idle
  <2>2. PICK d : /\ serving' = {d} /\ d.turn = t /\ d.conv = target[t] /\ d.stage \in {"saved", "inserted"}
                 /\ d.stage = "inserted" => t \in direct
    BY <2>1, Begun
  <2>3. /\ target[t] \in Open /\ Said(t) \in Message /\ Writes(target[t], Said(t))
        /\ ~ Duplicate(t, target[t]) /\ UNCHANGED <<kinds, conv, run, target>>
    BY <2>1, Added
  <2>4. Holds(target[t], Said(t))'
    <3>1. target[t] \in Conv /\ log' = [log EXCEPT ![target[t]] = Append(@, Said(t))]
      BY <2>3 DEF Writes, Open
    <3>2. \E i \in DOMAIN log'[target[t]] : log'[target[t]][i] = Said(t)
      <4>1. Said(t) \in Message
        BY <2>3
      <4>2. /\ Len(log[target[t]]) + 1 \in DOMAIN log'[target[t]]
            /\ log'[target[t]][Len(log[target[t]]) + 1] = Said(t)
        BY <1>0, <3>1, <4>1, AppendedLog
      <4> QED
        BY <4>2
    <3> QED
      BY <2>3, <3>2 DEF Holds, Said
  <2>5. ASSUME t \in keyed PROVE ~ Replied(target[t], t)' /\ \A r \in Run : run[r].turn # t
    <3>1. target[t] \in Conv /\ conv[target[t]] = "open" /\ ~ Holds(target[t], Said(t))
      BY <2>3, <2>5 DEF Duplicate, Open
    <3>2. ASSUME NEW i \in DOMAIN log[target[t]], log[target[t]][i].turn = t PROVE log[target[t]][i].kind = "user"
      <4>1. log[target[t]][i] \in Message
        BY <1>0, <3>1
      <4>2. log[target[t]][i].kind # "done"
        <5>1. \A r \in Run : Done(r).turn # t
          BY <1>0, NewKinds
        <5> QED
          BY <3>1, <3>2, <5>1 DEF Shaped, Shape
      <4>3. log[target[t]][i].kind \notin {"answer", "start", "error"}
        <5>1. \A k \in 1..(i - 1) : k \in DOMAIN log[target[t]]
          BY <1>0, <3>1
        <5> QED
          BY <3>1, <3>2, <5>1 DEF InOrder, Holds
      <4> QED
        BY <4>1, <4>2, <4>3 DEF Message
    <3>3. ASSUME NEW i \in DOMAIN log'[target[t]], log'[target[t]][i].turn = t PROVE log'[target[t]][i].kind = "user"
      <4>1. \/ i \in DOMAIN log[target[t]] /\ log'[target[t]][i] = log[target[t]][i]
            \/ log'[target[t]][i] = Said(t)
        BY <1>0, <2>3, <3>1, AppendedLog DEF Writes
      <4> QED
        BY <3>2, <3>3, <4>1, NewKinds
    <3>4. ~ Replied(target[t], t)'
      BY <2>3, <3>3 DEF Replied
    <3>5. \A r \in Run : run[r].turn # t
      BY <2>5, <3>1 DEF Placed
    <3> QED
      BY <3>4, <3>5
  <2> QED
    BY <2>2, <2>3, <2>4, <2>5 DEF InFlight, kinds, Open
<1>2. ASSUME NEW q \in serving PROVE InFlight(e)'
  <2>0. InFlight(q) /\ serving = {q} /\ q \in Request
    BY <1>0 DEF InFlight
  <2>1. CASE Crash
    BY <2>1 DEF Crash
  <2>2. CASE Leaves(q)
    <3>1. serving' = {}
      BY <2>0, <2>2 DEF Leaves, TouchAfterRole, SaveReply, SaveReplyFails
    <3> QED
      BY <3>1
  <2>3. CASE Thinks(q)
    <3>1. PICK k \in Replies : Decided(q, Reply(k, q.turn, None))
      BY <2>3 DEF Thinks, DecideReply, ChatFlow, DecideApology, Replies
    <3>2. UNCHANGED <<kinds, conv, log, run, target>> /\ q.stage = "saved"
      BY <2>3 DEF Thinks, DecideReply, ChatFlow, DecideApology, serverVars, clientVars
    <3>3. PICK d : /\ serving' = {d} /\ d.stage = "decided" /\ d.turn = q.turn /\ d.conv = q.conv
                   /\ d.reply = Reply(k, q.turn, None)
      BY <2>0, <3>1, DecidedRequest, Zenon
    <3>4. d.reply \in Message /\ d.reply.kind \in Replies /\ d.reply.turn = q.turn /\ d.reply.run = None
      BY <2>0, <3>3, Texts DEF Reply, Replies, Request
    <3> QED
      BY <1>0, <2>0, <3>2, <3>3, <3>4 DEF InFlight, kinds, Open, Holds, Replied, Said
  <2>4. ASSUME NEW r \in Run, Starting(q, r) PROVE InFlight(e)'
    <3>1. PICK k \in Replies : Decided(q, Reply(k, q.turn, r))
      BY <2>4, Started DEF Starting
    <3>2. UNCHANGED <<kinds, conv, log, target>> /\ q.stage = "saved" /\ run[r].status = "none"
      BY <2>4, Started DEF Starting
    <3>3. PICK d : /\ serving' = {d} /\ d.stage = "decided" /\ d.turn = q.turn /\ d.conv = q.conv
                   /\ d.reply = Reply(k, q.turn, r)
      BY <2>0, <3>1, DecidedRequest, Zenon
    <3>4. d.reply \in Message /\ d.reply.kind \in Replies /\ d.reply.turn = q.turn /\ d.reply.run = r
      BY <2>0, <3>3, Texts DEF Reply, Replies, Request
    <3>5. \A c \in Conv : ~ Holds(c, Done(r))
      BY <3>2, NewKinds DEF Shaped, Shape, Holds, Over
    <3> QED
      BY <1>0, <2>0, <3>2, <3>3, <3>4, <3>5 DEF InFlight, kinds, Open, Holds, Replied, Said, Done
  <2>5. CASE UNCHANGED <<serving, log, conv>> /\ \A r \in Run : run'[r].turn = run[r].turn
    <3>1. /\ e = q /\ q.turn \in Turn /\ target'[q.turn] = target[q.turn] /\ q.conv \in Open'
          /\ UNCHANGED <<serving, log, kinds>>
      BY <1>0, <2>0, <2>5 DEF InFlight, Lasting, Open, Request, kinds
    <3>3. Holds(q.conv, Said(q.turn))' /\ (Replied(q.conv, q.turn)' <=> Replied(q.conv, q.turn))
      BY <2>0, <2>5 DEF InFlight, Holds, Replied, Said
    <3>4. \A c \in Conv : Holds(c, Done(q.reply.run))' <=> Holds(c, Done(q.reply.run))
      BY <2>5 DEF Holds, Done
    <3> QED
      BY <2>0, <2>5, <3>1, <3>3, <3>4 DEF InFlight, kinds
  <2> QED
    BY <2>0, <2>1, <2>2, <2>3, <2>4, <2>5, ServingSteps
<1> QED
  BY <1>1, <1>2

\* The answer of a request is below its message once it is saved.
LEMMA Answers ==
    ASSUME TypeOK, NEW q \in serving, InFlight(q), \A p \in serving : InFlight(p), SaveReply(q)
    PROVE  q.conv \in Conv /\ target[q.turn] = q.conv /\ Replied(q.conv, q.turn)'
<1>0. log \in [Conv -> Seq(Message)]
  BY DEF TypeOK
<1>1. /\ q.conv \in Conv /\ q.reply \in Message /\ log' = [log EXCEPT ![q.conv] = Append(@, q.reply)]
      /\ target[q.turn] = q.conv /\ q.reply.turn = q.turn /\ q.reply.kind # "user"
  BY DEF SaveReply, InFlight, Open, Replies
<1>2. \E i \in DOMAIN log'[q.conv] : log'[q.conv][i] = q.reply
  <2>1. /\ Len(log[q.conv]) + 1 \in DOMAIN log'[q.conv]
        /\ log'[q.conv][Len(log[q.conv]) + 1] = q.reply
    BY <1>0, <1>1, AppendedLog
  <2> QED
    BY <2>1
<1> QED
  BY <1>1, <1>2 DEF Replied

\* An answer stays.
LEMMA RepliesLast ==
    ASSUME TypeOK, \A q \in serving : InFlight(q), Next, NEW c \in Conv, conv'[c] # "gone", NEW t,
           Replied(c, t)
    PROVE  Replied(c, t)'
BY LogsGrow DEF Replied

\* A message stays unanswered only if a fault hit its turn.
LEMMA AnsweringStep ==
    ASSUME TypeOK, \A q \in serving : InFlight(q), Shaped, Answering, GoneIsEmpty, Next
    PROVE  Answering'
<1>0. /\ Lasting /\ log \in [Conv -> Seq(Message)] /\ serving \subseteq Request
      /\ conv \in [Conv -> {"none", "open", "gone"}]
  BY StepsLast DEF TypeOK
<1> SUFFICES ASSUME NEW c \in Conv, NEW t \in Turn, t \notin broken' \cup direct', NEW i \in DOMAIN log'[c],
                    log'[c][i] = Said(t)
             PROVE  Replied(c, t)' \/ \E q \in serving' : q.turn = t
  BY DEF Answering, Holds, Said
<1>1. t \notin broken \cup direct
  BY <1>0 DEF Lasting
<1>2. conv'[c] # "gone"
  <2>1. GoneIsEmpty'
    BY GoneStep
  <2> QED
    BY <2>1 DEF GoneIsEmpty, Open
<1>3. CASE i \in DOMAIN log[c] /\ log'[c][i] = log[c][i]
  <2>1. target[t] = c
    <3>1. Shape(c, Said(t))
      BY <1>3 DEF Shaped
    <3> QED
      BY <3>1, NewKinds DEF Shape
  <2>2. Replied(c, t) \/ \E q \in serving : q.turn = t
    BY <1>1, <1>3 DEF Answering, Holds
  <2>3. CASE Replied(c, t)
    BY <1>2, <2>3, RepliesLast
  <2>4. ASSUME NEW q \in serving, q.turn = t PROVE Replied(c, t)' \/ \E p \in serving' : p.turn = t
    <3>0. InFlight(q) /\ serving = {q}
      BY DEF InFlight
    <3>1. CASE Crash
      BY <2>4, <3>1 DEF Crash
    <3>2. CASE TouchAfterRole(q)
      BY <1>1, <2>4, <3>0, <3>2 DEF TouchAfterRole, InFlight
    <3>3. CASE SaveReply(q)
      BY <2>1, <2>4, <3>0, <3>3, Answers
    <3>4. CASE SaveReplyFails(q)
      BY <2>4, <3>4 DEF SaveReplyFails
    <3>5. ASSUME NEW m, Decided(q, m) PROVE \E p \in serving' : p.turn = t
      BY <2>4, <3>0, <3>5, DecidedRequest
    <3>6. CASE Thinks(q)
      BY <3>5, <3>6 DEF Thinks, DecideReply, ChatFlow, DecideApology
    <3>7. CASE \E r \in Run : Starting(q, r)
      BY <3>5, <3>7, Started DEF Starting
    <3>8. CASE serving' = serving
      BY <2>4, <3>8
    <3> QED
      BY <3>0, <3>1, <3>2, <3>3, <3>4, <3>6, <3>7, <3>8, ServingSteps DEF Leaves
  <2> QED
    BY <2>2, <2>3, <2>4
<1>4. ASSUME NEW u \in Turn, Stores(u), log'[c][i] = Said(u) PROVE \E p \in serving' : p.turn = t
  <2>1. u = t
    BY <1>4 DEF Said
  <2> QED
    BY <1>4, <2>1, Begun
<1>5. ASSUME NEW q \in serving, SaveReply(q), log'[c][i] = q.reply PROVE FALSE
  BY <1>5, NewKinds DEF SaveReply, InFlight, Replies
<1>6. ASSUME NEW r \in Run, log'[c][i] = Done(r) PROVE FALSE
  BY <1>6, NewKinds
<1> QED
  BY <1>3, <1>4, <1>5, <1>6, NewMessages

\* Who tells a sender that its turn succeeded.
LEMMA ClientSteps ==
    ASSUME TypeOK, Next, NEW t \in Turn, client'[t] = "ok"
    PROVE  \/ client[t] = "ok" /\ target'[t] = target[t]
           \/ Duplicate(t, target[t]) /\ LoopIsFree /\ UNCHANGED <<log, target, conv>>
           \/ \E q \in serving : q.turn = t /\ (TouchAfterRole(q) \/ SaveReply(q)) /\ target' = target
<1>0. client \in [Turn -> {"new", "waiting", "ok", "failed"}] /\ target \in [Turn -> Conv \cup {None}]
  BY DEF TypeOK
<1>1. ASSUME NEW u \in Turn, NEW k, NEW outcome, Answered(u, k, outcome), t # u \/ outcome # "ok"
      PROVE  client[t] = "ok"
  BY <1>0, <1>1 DEF Answered
<1>2. CASE UNCHANGED <<client, target>>
  BY <1>2
<1>3. CASE \E c \in Conv : CreateConversation(c) \/ DeleteConversation(c)
  BY <1>2, <1>3 DEF CreateConversation, DeleteConversation, clientVars
<1>4. ASSUME NEW u \in Turn, Post(u) PROVE client[t] = "ok" /\ target'[t] = target[t]
  BY <1>0, <1>4 DEF Post
<1>5. ASSUME NEW u \in Turn, GiveUp(u) PROVE client[t] = "ok" /\ target'[t] = target[t]
  BY <1>0, <1>5 DEF GiveUp
<1>6. ASSUME NEW u \in Turn, NEW k \in sent[u], Refuse(u, k)
      PROVE  \/ client[t] = "ok" /\ target'[t] = target[t]
             \/ Duplicate(t, target[t]) /\ LoopIsFree /\ UNCHANGED <<log, target, conv>>
  <2>1. CASE Answered(u, k, "failed")
    BY <1>1, <1>6, <2>1 DEF Refuse
  <2>2. CASE Answered(u, k, "ok") /\ u # t
    BY <1>1, <1>6, <2>2 DEF Refuse
  <2>3. CASE u = t /\ Duplicate(t, target[t])
    BY <1>6, <2>3 DEF Refuse, serverVars
  <2> QED
    BY <1>6, <2>1, <2>2, <2>3 DEF Refuse
<1>7. ASSUME NEW u \in Turn, NEW k \in sent[u],
             SaveUserMessage(u, k) \/ SaveWithRole(u, k) \/ SaveUserFails(u, k)
      PROVE  client[t] = "ok" /\ target'[t] = target[t]
  BY <1>1, <1>7 DEF SaveUserMessage, SaveWithRole, SaveUserFails
<1>8. ASSUME NEW q \in serving, TouchAfterRole(q) \/ SaveReply(q)
      PROVE  \/ client[t] = "ok" /\ target'[t] = target[t]
             \/ q.turn = t /\ target' = target
  <2>1. Answered(q.turn, q.attempt, "ok") /\ target' = target /\ q.turn \in Turn
    BY <1>8 DEF TouchAfterRole, SaveReply, TypeOK, Request
  <2> QED
    BY <1>1, <2>1
<1>9. ASSUME NEW q \in serving, SaveReplyFails(q) PROVE client[t] = "ok" /\ target'[t] = target[t]
  <2>1. Answered(q.turn, q.attempt, "failed") /\ target' = target /\ q.turn \in Turn
    BY <1>9 DEF SaveReplyFails, TypeOK, Request
  <2> QED
    BY <1>1, <2>1
<1>10. ASSUME NEW q \in serving, Thinks(q) \/ \E r \in Run : Starting(q, r)
       PROVE  UNCHANGED <<client, target>>
  BY <1>10 DEF Thinks, Starting, DecideReply, ChatFlow, DecideApology, DecideTurn, DecideTask, Starts, clientVars
<1>11. CASE \E r \in Run : StartBackgroundRun(r) \/ RunEnds(r) \/ Emit(r) \/ EmitLost(r)
  BY <1>2, <1>11 DEF StartBackgroundRun, RunEnds, Emit, EmitLost, EmitNothing, EmitHere,
                     EmitInNewConversation, clientVars
<1>12. CASE Crash
  BY <1>0, <1>12 DEF Crash
<1> QED
  BY <1>2, <1>3, <1>4, <1>5, <1>6, <1>7, <1>8, <1>9, <1>10, <1>11, <1>12
     DEF Next, Begin, Serve, Thinks, Starting

\* Success is told after the answer was stored.
LEMMA SuccessStep ==
    ASSUME TypeOK, \A q \in serving : InFlight(q), Placed, Answering, SuccessIsAnswered, Next
    PROVE  SuccessIsAnswered'
<1>0. /\ Lasting /\ conv \in [Conv -> {"none", "open", "gone"}]
      /\ target \in [Turn -> Conv \cup {None}] /\ None \notin Conv
  <2>1. None \notin Conv
    BY ConversationsAssumption DEF Conv
  <2> QED
    BY <2>1, StepsLast DEF TypeOK
<1> SUFFICES ASSUME NEW t \in Turn, client'[t] = "ok", target'[t] \in Open', t \notin broken' \cup direct'
             PROVE  Replied(target[t], t)'
  BY DEF SuccessIsAnswered, Replied
<1>1. t \notin broken \cup direct /\ target'[t] \in Conv /\ conv'[target'[t]] = "open"
  BY <1>0 DEF Lasting, Open
<1>2. ASSUME target'[t] = target[t], Replied(target[t], t) PROVE Replied(target[t], t)'
  <2>1. \A i : i \in DOMAIN log[target[t]] => i \in DOMAIN log'[target[t]] /\ log'[target[t]][i] = log[target[t]][i]
    BY <1>1, <1>2, LogsGrow
  <2> QED
    BY <1>2, <2>1 DEF Replied
<1>3. CASE client[t] = "ok" /\ target'[t] = target[t]
  <2>1. target[t] \in Open
    BY <1>0, <1>1, <1>3 DEF Placed, Lasting, Open
  <2>2. Replied(target[t], t)
    BY <1>1, <1>3, <2>1 DEF SuccessIsAnswered, Replied
  <2> QED
    BY <1>2, <1>3, <2>2
<1>4. CASE Duplicate(t, target[t]) /\ LoopIsFree /\ UNCHANGED <<log, target, conv>>
  <2>1. Replied(target[t], t)
    BY <1>1, <1>4 DEF Duplicate, LoopIsFree, Answering
  <2> QED
    BY <1>2, <1>4, <2>1
<1>5. ASSUME NEW q \in serving, q.turn = t, TouchAfterRole(q) PROVE FALSE
  BY <1>1, <1>5 DEF TouchAfterRole, InFlight
<1>6. ASSUME NEW q \in serving, q.turn = t, SaveReply(q), target' = target PROVE Replied(target[t], t)'
  <2>1. target[t] = q.conv /\ Replied(q.conv, t)'
    BY <1>6, Answers
  <2> QED
    BY <1>6, <2>1 DEF Replied
<1> QED
  BY <1>3, <1>4, <1>5, <1>6, ClientSteps

-----------------------------------------------------------------------------
(* The theorems.                                                           *)

\* The invariant holds at the start.
LEMMA InitInv == Init => IInv
<1> SUFFICES ASSUME Init PROVE IInv
  OBVIOUS
<1>1. TypeOK
  BY TypeInit
<1>2. /\ \A c \in Conv : DOMAIN log[c] = {} /\ log[c] = <<>> /\ conv[c] = "none"
      /\ \A t \in Turn : target[t] = None /\ client[t] = "new"
      /\ \A r \in Run : run[r].status = "none" /\ run[r].conv = None /\ run[r].turn = None /\ emits[r] = 0
      /\ serving = {} /\ keyed \subseteq Turn /\ None \notin Turn /\ None \notin Conv
  BY ConversationsAssumption DEF Init, Conv
<1>3. Shaped /\ Answering /\ InOrder /\ GoneIsEmpty
  BY <1>2 DEF Shaped, Answering, InOrder, GoneIsEmpty, Holds
<1>4. Placed /\ Once
  BY <1>2 DEF Placed, Once
<1>5. EndedIsAnnounced /\ SuccessIsAnswered
  BY <1>2 DEF EndedIsAnnounced, SuccessIsAnswered
<1> QED
  BY <1>1, <1>2, <1>3, <1>4, <1>5 DEF IInv

\* Nothing changes in a step that changes nothing.
LEMMA StutterInv == IInv /\ UNCHANGED vars => IInv'
<1> SUFFICES ASSUME IInv, UNCHANGED vars PROVE IInv'
  OBVIOUS
<1> USE DEF vars, kinds, clientVars
<1>1. TypeOK'
  BY TypeStep DEF IInv
<1>2. Shaped'
  BY DEF IInv, Shaped, Shape, Said, Done
<1>3. (\A q \in serving : InFlight(q))'
  BY DEF IInv, InFlight, Open, Holds, Replied, Said, Done
<1>4. Placed'
  BY DEF IInv, Placed, Holds, Said
<1>5. Once'
  BY DEF IInv, Once
<1>6. Answering'
  BY DEF IInv, Answering, Holds, Replied, Said
<1>7. GoneIsEmpty'
  BY DEF IInv, GoneIsEmpty, Open
<1>8. EndedIsAnnounced'
  BY DEF IInv, EndedIsAnnounced, EmitRaises, Announced, Holds, Done
<1>9. InOrder' /\ SuccessIsAnswered'
  BY DEF IInv, InOrder, SuccessIsAnswered, Said, Open
<1> QED
  BY <1>1, <1>2, <1>3, <1>4, <1>5, <1>6, <1>7, <1>8, <1>9 DEF IInv

\* The inductive invariant: what logs hold, what the request under way has done, and the
\* properties below.
THEOREM Inductive == Spec => []IInv
<1>1. ASSUME IInv, Next PROVE IInv'
  <2>1. TypeOK'
    BY <1>1, TypeStep DEF IInv
  <2>2. Shaped' /\ Placed' /\ Once'
    BY <1>1, ShapedStep, PlacedStep, OnceStep DEF IInv
  <2>3. (\A q \in serving : InFlight(q))'
    BY <1>1, InFlightStep DEF IInv
  <2>4. Answering' /\ GoneIsEmpty'
    BY <1>1, AnsweringStep, GoneStep DEF IInv
  <2>5. EndedIsAnnounced' /\ InOrder' /\ SuccessIsAnswered'
    BY <1>1, EndedStep, InOrderStep, SuccessStep DEF IInv
  <2> QED
    BY <2>1, <2>2, <2>3, <2>4, <2>5 DEF IInv
<1>2. IInv /\ [Next]_vars => IInv'
  BY <1>1, StutterInv
<1> QED
  BY InitInv, <1>2, PTL DEF Spec

\* A set whose elements are all the same one.
LEMMA AtMostOne ==
    ASSUME NEW S, \A i, j \in S : i = j
    PROVE  IsFiniteSet(S) /\ Cardinality(S) \in 0..1
<1>1. CASE S = {}
  BY <1>1, FS_EmptySet
<1>2. ASSUME NEW i \in S PROVE IsFiniteSet(S) /\ Cardinality(S) \in 0..1
  <2>1. S = {i}
    OBVIOUS
  <2>2. IsFiniteSet({i}) /\ Cardinality({i}) = 1
    BY FS_Singleton
  <2> QED
    BY <2>1, <2>2
<1> QED
  BY <1>1, <1>2

\* Two such sets.
LEMMA AtMostTwo ==
    ASSUME NEW S, NEW T, \A i, j \in S : i = j, \A i, j \in T : i = j
    PROVE  Cardinality(S \cup T) <= 2
<1>1. IsFiniteSet(S) /\ IsFiniteSet(T) /\ Cardinality(S) \in 0..1 /\ Cardinality(T) \in 0..1
  BY AtMostOne
<1>2. /\ IsFiniteSet(S \cap T)
      /\ Cardinality(S \cup T) = Cardinality(S) + Cardinality(T) - Cardinality(S \cap T)
  BY <1>1, FS_Union, FS_Intersection
<1>3. Cardinality(S \cap T) \in Nat
  BY <1>2, FS_CardinalityType
<1> QED
  BY <1>1, <1>2, <1>3

\* A run is announced in one conversation and once.
LEMMA AnnouncementsOnce == IInv => AnnouncedOnce
<1> SUFFICES ASSUME IInv, NEW r \in Run
             PROVE  /\ \A c \in Conv : Occurrences(c, LAMBDA m : m = Done(r)) <= 1
                    /\ \A c, d \in Conv : Holds(c, Done(r)) /\ Holds(d, Done(r)) => c = d
  BY DEF AnnouncedOnce
<1>1. \A c, d \in Conv : \A i \in DOMAIN log[c], j \in DOMAIN log[d] :
         log[c][i] = Done(r) /\ log[d][j] = Done(r) => c = d /\ i = j
  BY NewKinds DEF IInv, Once
<1>2. ASSUME NEW c \in Conv PROVE Cardinality({i \in DOMAIN log[c] : log[c][i] = Done(r)}) <= 1
  <2>1. Cardinality({i \in DOMAIN log[c] : log[c][i] = Done(r)}) \in 0..1
    BY <1>1, AtMostOne
  <2> QED
    BY <2>1
<1>3. \A c, d \in Conv : Holds(c, Done(r)) /\ Holds(d, Done(r)) => c = d
  BY <1>1 DEF Holds
<1> QED
  BY <1>2, <1>3 DEF Occurrences

\* A keyed turn leaves one message, one answer and one run at most.
LEMMA KeysOnce == IInv => KeyedOnce
<1> SUFFICES ASSUME IInv, NEW t \in keyed
             PROVE  /\ \A c \in Conv : /\ Occurrences(c, LAMBDA m : m = Said(t)) <= 1
                                       /\ Occurrences(c, LAMBDA m : m.turn = t) <= 2
                    /\ \A r, s \in Run : run[r].turn = t /\ run[s].turn = t => r = s
  BY DEF KeyedOnce
<1>1. ASSUME NEW c \in Conv, NEW i \in DOMAIN log[c], NEW j \in DOMAIN log[c],
             log[c][i].turn = t, log[c][j].turn = t, log[c][i].kind = "user" <=> log[c][j].kind = "user"
      PROVE  i = j
  BY <1>1 DEF IInv, Once
<1>2. ASSUME NEW c \in Conv PROVE Cardinality({i \in DOMAIN log[c] : log[c][i] = Said(t)}) <= 1
  <2>1. Cardinality({i \in DOMAIN log[c] : log[c][i] = Said(t)}) \in 0..1
    BY <1>1, AtMostOne DEF Said
  <2> QED
    BY <2>1
<1>3. ASSUME NEW c \in Conv PROVE Cardinality({i \in DOMAIN log[c] : log[c][i].turn = t}) <= 2
  <2> DEFINE Of(user) == {i \in DOMAIN log[c] : log[c][i].turn = t /\ (log[c][i].kind = "user" <=> user)}
  <2>1. {i \in DOMAIN log[c] : log[c][i].turn = t} = Of(TRUE) \cup Of(FALSE)
    OBVIOUS
  <2>2. (\A i, j \in Of(TRUE) : i = j) /\ (\A i, j \in Of(FALSE) : i = j)
    BY <1>1
  <2> HIDE DEF Of
  <2> QED
    BY <2>1, <2>2, AtMostTwo
<1>4. \A r, s \in Run : run[r].turn = t /\ run[s].turn = t => r = s
  BY DEF IInv, Once
<1> QED
  BY <1>2, <1>3, <1>4 DEF Occurrences

\* For any number of conversations, turns, runs, resends, crashes and lost calls: nothing is
\* added to a deleted conversation; a run is announced once, a keyed turn has one message, one
\* answer and one run at most; a run that ended is announced unless a
\* call was lost (conversations.py:336-825, run_messages.py:223-383).
THEOREM CleanLogs == Spec => []LogsAreClean
<1>1. IInv => LogsAreClean
  BY AnnouncementsOnce, KeysOnce DEF IInv, LogsAreClean
<1> QED
  BY <1>1, Inductive, PTL

\* The announcement of a run stands below the message that says it was started, and an answer
\* below what it answers (conversations.py:403-825).
THEOREM Ordered == Spec => []InOrder
<1>1. IInv => InOrder
  BY DEF IInv
<1> QED
  BY <1>1, Inductive, PTL

\* Who was told that the turn succeeded finds an answer, unless a fault hit one of its attempts
\* between the commits (conversations.py:351-357).
THEOREM SuccessAnswered == Spec => []SuccessIsAnswered
<1>1. IInv => SuccessIsAnswered
  BY DEF IInv
<1> QED
  BY <1>1, Inductive, PTL

-----------------------------------------------------------------------------
(* The unread mark.                                                        *)

\* last_read_at is at most two milliseconds ahead of the time it was stored, a handler under
\* way has computed no later time, and what came since is what updated_at says.
ReadInv ==
    /\ ReadTypeOK
    /\ created_at = Never => changed = Never /\ last_read_at = Never /\ doing = NoHandler
    /\ updated_at <= clock + Ms /\ changed <= clock + Ms
    /\ doing.at = "write" => doing.time <= clock
    /\ doing.at \in {"read", "again"} => doing.time <= clock + 2 * Ms
    /\ last_read_at = Never => changed \in {Never, updated_at}
    /\ last_read_at # Never => last_read_at <= opened + 2 * Ms
    /\ last_read_at # Never => changed = updated_at \/ changed <= opened + Ms

\* No step leaves it.
LEMMA ReadStep == ReadInv /\ [ReadNext]_readVars => ReadInv'
<1> SUFFICES ASSUME ReadInv, [ReadNext]_readVars PROVE ReadInv'
  OBVIOUS
<1> USE ReadMarksAssumption DEF ReadInv, ReadTypeOK, Never, NoHandler
<1>1. CASE Tick
  BY <1>1 DEF Tick
<1>2. CASE MadeByUser
  BY <1>2 DEF MadeByUser
<1>3. CASE MadeByRun
  BY <1>3 DEF MadeByRun
<1>4. CASE BeginWrite \/ CommitWrite \/ NotStored
  BY <1>4 DEF BeginWrite, CommitWrite, NotStored
<1>5. CASE BeginRead
  BY <1>5 DEF BeginRead, ReadUntil, Later
<1>6. CASE StoreRead
  BY <1>6 DEF StoreRead, Marked
<1>7. CASE StoreAgain
  BY <1>7 DEF StoreAgain, Marked
<1>8. CASE UNCHANGED readVars
  BY <1>8 DEF readVars
<1> QED
  BY <1>1, <1>2, <1>3, <1>4, <1>5, <1>6, <1>7, <1>8 DEF ReadNext

\* However reading and writing follow one another, and whatever the time each takes: what came
\* more than two milliseconds after a conversation was last opened is shown as unread
\* (conversations.py:249, 270; run_messages.py:126-155).
THEOREM NewsUnread == ReadSpec => []NewsIsUnread
<1>1. ReadInit => ReadInv
  BY ReadMarksAssumption DEF ReadInit, ReadInv, ReadTypeOK, Never, NoHandler
<1>2. ReadInv => NewsIsUnread
  BY ReadMarksAssumption DEF ReadInv, ReadTypeOK, NewsIsUnread, Unread, Never
<1> QED
  BY <1>1, <1>2, ReadStep, PTL DEF ReadSpec
=============================================================================
