-------------------------- MODULE ToolCallsProofs --------------------------
(***************************************************************************)
(* What holds of calls of tools for any MCP servers, tools and providers,  *)
(* whatever the servers answer, in any order, late or not at all.          *)
(***************************************************************************)
EXTENDS ToolCalls, SequenceTheorems, TLAPS

\* The thread stands between the entry of its request in the table and the outcome.
Awaits(s) == Requesting(s) /\ at.place \in {"registered", "waiting"}

\* A message of the server's own, or one with an id of the client; if it carries the id of the
\* request that waits, it is about this request.
Fits(s, m) ==
    \/ m.about = NoAnswer
    \/ m.id <= client[s].lastId /\ (Awaits(s) /\ m.id = at.id => m.about = requests)

\* What passes between the client and its server, and through the table.
Travelling(s) ==
    /\ \A m \in client[s].received : Fits(s, m)
    /\ \A i \in 1..Len(client[s].stdout) : Fits(s, client[s].stdout[i])
    /\ \A p \in client[s].pending : Awaits(s) /\ p.about = requests /\ p.id = at.id
    /\ client[s].taken # Nothing =>
         /\ client[s].taken.queue <= requests
         /\ Awaits(s) /\ client[s].taken.queue = requests =>
              client[s].taken.about \in {requests, NoAnswer} /\ client[s].pending = {}
    /\ Awaits(s) =>
         /\ at.id = client[s].lastId
         /\ client[s].box \subseteq {requests, NoAnswer}
         /\ client[s].box # {} => client[s].pending = {}

\* The providers that were passed over had no such tool or could not be asked.
Passed == \A i \in 1..(at.provider - 1) : at.tool \in Offers[Order[i]] => Order[i] \in silent

\* A call that goes on is not counted yet.
Counted == at.place # "idle" => done < MaxCalls

IInv == TypeOK /\ Counted /\ (\A s \in Servers : Travelling(s)) /\ Passed

-----------------------------------------------------------------------------
(* The order of the providers.                                             *)

\* The skills and the local tools are no servers, so each provider has one place in the order.
LEMMA OrderIs ==
    /\ Order \in Seq(Providers) /\ Len(Order) \in Nat /\ DOMAIN Order = 1..Len(Order)
    /\ \A i \in 1..Len(Order) : Order[i] \in Providers
<1>1. <<"web", "builtin">> \in Seq(Servers \cup {"web", "builtin", "skills", "stub"})
  OBVIOUS
<1>2. ServerOrder \in Seq(Servers \cup {"web", "builtin", "skills", "stub"})
  BY ToolAssumption
<1>3. <<"skills", "stub">> \in Seq(Servers \cup {"web", "builtin", "skills", "stub"})
  OBVIOUS
<1>4. Order \in Seq(Servers \cup {"web", "builtin", "skills", "stub"})
  BY <1>1, <1>2, <1>3, ConcatProperties DEF Order
<1> QED
  BY <1>4 DEF Providers

-----------------------------------------------------------------------------
(* The types.                                                              *)

\* The start has the types.
LEMMA InitType == Init => TypeOK
BY ToolAssumption, OrderIs DEF Init, TypeOK, Fresh, Client, Message, Nothing, Idle, Thread, Places

\* Where the thread goes.
LEMMA EndsType ==
    ASSUME TypeOK, done < MaxCalls, Ends
    PROVE  at' \in Thread /\ done' \in 0..MaxCalls /\ silent' \subseteq Providers
BY ToolAssumption, OrderIs DEF TypeOK, Ends, Idle, Thread, Places

\* What the thread does after a step of a request keeps the type of `at`.
LEMMA GoesType ==
    ASSUME TypeOK, NEW place \in Places, Goes(place)
    PROVE  at' \in Thread
BY DEF TypeOK, Goes, Thread

\* Going on to the next provider stays within the order.
LEMMA NextType ==
    ASSUME TypeOK, at.provider <= Len(Order), NextProvider
    PROVE  at' \in Thread
<1>1. at.provider + 1 \in 1..(Len(Order) + 1)
  BY OrderIs DEF TypeOK, Thread
<1>2. at' = [at EXCEPT !.place = "finding", !.provider = at.provider + 1, !.id = 0]
  BY DEF NextProvider
<1> QED
  BY <1>1, <1>2 DEF TypeOK, Thread, Places

\* A provider that answered ends the search or passes it on.
LEMMA SearchType ==
    ASSUME TypeOK, at.provider <= Len(Order), Search
    PROVE  at' \in Thread
<1>1. CASE Found
  BY <1>1 DEF TypeOK, Found, Thread, Places
<1>2. CASE NextProvider
  BY <1>2, NextType
<1> QED
  BY <1>1, <1>2 DEF Search

\* So does one that could not be asked.
LEMMA FailsType ==
    ASSUME TypeOK, done < MaxCalls, NEW s \in Servers, Requesting(s), RequestFails(s)
    PROVE  at' \in Thread /\ done' \in 0..MaxCalls /\ silent' \subseteq Providers
<1>1. CASE at.method = "tools/call"
  BY <1>1, EndsType DEF RequestFails
<1>2. CASE at.method = "tools/list"
  <2>1. s \in Providers
    BY OrderIs DEF Requesting, Asked, TypeOK, Thread
  <2> QED
    <3>1. at' \in Thread
      BY <1>2, NextType DEF RequestFails, Requesting
    <3> QED
      BY <1>2, <2>1, <3>1 DEF RequestFails, TypeOK
<1> QED
  BY <1>1, <1>2 DEF TypeOK, Thread

\* What a step makes of the client of one server, as far as the proofs ask.
Becomes(s, lastId, pending, box, taken, received, stdout) ==
    /\ client' \in [Servers -> Client]
    /\ \A t \in Servers \ {s} : client'[t] = client[t]
    /\ client'[s].lastId = lastId /\ client'[s].pending = pending /\ client'[s].box = box
    /\ client'[s].taken = taken /\ client'[s].received = received /\ client'[s].stdout = stdout

\* A client is replaced, and no other.
LEMMA OneClient ==
    ASSUME client \in [Servers -> Client], NEW s \in Servers, NEW c \in Client,
           client' = [client EXCEPT ![s] = c]
    PROVE  Becomes(s, c.lastId, c.pending, c.box, c.taken, c.received, c.stdout)
BY DEF Becomes

\* What each step does with a client, one lemma per step.
LEMMA EnsureClient ==
    ASSUME TypeOK, NEW s \in Servers, Ensure(s)
    PROVE  Becomes(s, client[s].lastId, client[s].pending, client[s].box, client[s].taken,
                   client[s].received, client[s].stdout)
<1>0. client \in [Servers -> Client]
  BY DEF TypeOK
<1>1. CASE UNCHANGED client
  BY <1>1 DEF TypeOK, Becomes
<1>2. CASE client' = [client EXCEPT ![s] = [@ EXCEPT !.process = "running", !.reader = "reading"]]
  BY <1>0, <1>2, ZenonT(40) DEF Client, Becomes
<1> QED
  BY <1>1, <1>2 DEF Ensure

\* The request gets the next id and an entry of its own.
LEMMA RegisterClient ==
    ASSUME TypeOK, NEW s \in Servers, Register(s)
    PROVE  Becomes(s, NextId(s),
                   {p \in client[s].pending : p.id # NextId(s)} \cup {[id |-> NextId(s), about |-> requests + 1]},
                   {}, client[s].taken, client[s].received, client[s].stdout)
<1> DEFINE n == NextId(s)
           x == {p \in client[s].pending : p.id # NextId(s)} \cup {[id |-> NextId(s), about |-> requests + 1]}
<1>0. client \in [Servers -> Client]
  BY DEF TypeOK
<1>1. n \in Nat /\ requests + 1 \in Nat
  BY DEF TypeOK, Client, NextId
<1>2. x \in SUBSET Message
  BY <1>1 DEF TypeOK, Client, Message
<1>3. client' = [client EXCEPT ![s] = [@ EXCEPT !.lastId = n, !.box = {}, !.pending = x]]
  BY DEF Register
<1> HIDE DEF n, x
<1>4. Becomes(s, n, x, {}, client[s].taken, client[s].received, client[s].stdout)
  <2> DEFINE c == [client[s] EXCEPT !.lastId = n, !.box = {}, !.pending = x]
  <2>1. c \in Client
    BY <1>0, <1>1, <1>2, ZenonT(40) DEF Client
  <2>2. /\ c.lastId = n /\ c.pending = x /\ c.box = {} /\ c.taken = client[s].taken
        /\ c.received = client[s].received /\ c.stdout = client[s].stdout
    BY <1>0 DEF Client
  <2>3. client' = [client EXCEPT ![s] = c]
    BY <1>3
  <2> HIDE DEF c
  <2> QED
    BY <1>0, <2>1, <2>2, <2>3, OneClient
<1> QED
  BY <1>4 DEF n, x

\* The server receives what the table holds.
LEMMA WriteClient ==
    ASSUME TypeOK, NEW s \in Servers, Write(s)
    PROVE  Becomes(s, client[s].lastId, client[s].pending, client[s].box, client[s].taken,
                   client[s].received \cup {[id |-> at.id, about |-> requests]}, client[s].stdout)
<1> DEFINE x == client[s].received \cup {[id |-> at.id, about |-> requests]}
<1>0. client \in [Servers -> Client]
  BY DEF TypeOK
<1>1. x \in SUBSET Message
  BY DEF TypeOK, Client, Message, Thread
<1>2. client' = [client EXCEPT ![s] = [@ EXCEPT !.received = x]]
  BY DEF Write
<1> HIDE DEF x
<1>3. Becomes(s, client[s].lastId, client[s].pending, client[s].box, client[s].taken, x, client[s].stdout)
  BY <1>0, <1>1, <1>2, ZenonT(40) DEF Client, Becomes
<1> QED
  BY <1>3 DEF x

\* Giving up removes the entry.
LEMMA ForgetClient ==
    ASSUME TypeOK, NEW s \in Servers, WriteFails(s) \/ TimeOut(s)
    PROVE  Becomes(s, client[s].lastId, Forget(s), client[s].box, client[s].taken,
                   client[s].received, client[s].stdout)
<1>0. client \in [Servers -> Client]
  BY DEF TypeOK
<1>1. Forget(s) \in SUBSET Message
  BY DEF TypeOK, Client, Forget
<1>2. client' = [client EXCEPT ![s] = [@ EXCEPT !.pending = Forget(s)]]
  BY DEF WriteFails, TimeOut
<1> QED
  BY <1>0, <1>1, <1>2, ZenonT(40) DEF Client, Becomes

\* The entry that the answer at the head of stdout is for, and what becomes of it.
Asks(s) == {p \in client[s].pending : p.id = Head(client[s].stdout).id}
Taken(s) ==
    IF Asks(s) = {} THEN Nothing
    ELSE [queue |-> (CHOOSE p \in Asks(s) : TRUE).about, about |-> Head(client[s].stdout).about]

\* The reader takes the head of stdout and the entry with its id, if there is one.
LEMMA TakeClient ==
    ASSUME TypeOK, NEW s \in Servers, TakeAnswer(s)
    PROVE  Becomes(s, client[s].lastId, client[s].pending \ Asks(s), client[s].box, Taken(s),
                   client[s].received, Tail(client[s].stdout))
<1>0. client \in [Servers -> Client]
  BY DEF TypeOK
<1>1. client[s].stdout \in Seq(Message) /\ client[s].stdout # <<>> /\ client[s].pending \in SUBSET Message
  BY DEF TakeAnswer, TypeOK, Client
<1>2. Tail(client[s].stdout) \in Seq(Message) /\ Head(client[s].stdout) \in Message
  BY <1>1, HeadTailProperties
<1>3. Taken(s) \in [queue : Nat, about : Nat]
  BY <1>1, <1>2 DEF Taken, Asks, Nothing, Message
<1>4. client' = [client EXCEPT ![s] = [@ EXCEPT !.stdout = Tail(client[s].stdout),
                                               !.pending = client[s].pending \ Asks(s),
                                               !.reader = ReaderAfter,
                                               !.taken = Taken(s)]]
  BY DEF TakeAnswer, Taken, Asks
<1>5. client[s].pending \ Asks(s) \in SUBSET Message
  BY <1>1
<1> DEFINE c == [client[s] EXCEPT !.stdout = Tail(client[s].stdout),
                                !.pending = client[s].pending \ Asks(s),
                                !.reader = ReaderAfter,
                                !.taken = Taken(s)]
<1>6. c \in Client
  <2>1. ReaderAfter \in {"none", "reading", "ended"}
    BY DEF ReaderAfter
  <2> QED
    BY <1>0, <1>2, <1>3, <1>5, <2>1, ZenonT(40) DEF Client
<1>7. /\ c.lastId = client[s].lastId /\ c.pending = client[s].pending \ Asks(s) /\ c.box = client[s].box
      /\ c.taken = Taken(s) /\ c.received = client[s].received /\ c.stdout = Tail(client[s].stdout)
  BY <1>0 DEF Client
<1> HIDE DEF c
<1> QED
  <2>1. client' = [client EXCEPT ![s] = c]
    BY <1>4 DEF c
  <2> QED
    BY <1>0, <1>6, <1>7, <2>1, OneClient

\* What an answer or the end of the connection puts into the queue.
Box(s, awaited, outcome) == IF awaited THEN {outcome} ELSE client[s].box

\* Only the queue that is waited for gets what the reader holds.
LEMMA PutClient ==
    ASSUME TypeOK, NEW s \in Servers, PutAnswer(s)
    PROVE  Becomes(s, client[s].lastId, client[s].pending,
                   Box(s, Awaited(s, client[s].taken.queue), client[s].taken.about),
                   Nothing, client[s].received, client[s].stdout)
<1> DEFINE b == Box(s, Awaited(s, client[s].taken.queue), client[s].taken.about)
<1>0. client \in [Servers -> Client]
  BY DEF TypeOK
<1>1. b \in SUBSET Nat
  BY DEF TypeOK, Client, Box
<1>2. client' = [client EXCEPT ![s] = [@ EXCEPT !.taken = Nothing, !.reader = ReaderAfter, !.box = b]]
  BY DEF PutAnswer, Box
<1> HIDE DEF b
<1>3. Becomes(s, client[s].lastId, client[s].pending, b, Nothing, client[s].received, client[s].stdout)
  <2> DEFINE c == [client[s] EXCEPT !.taken = Nothing, !.reader = ReaderAfter, !.box = b]
  <2>1. c \in Client
    <3>1. ReaderAfter \in {"none", "reading", "ended"}
      BY DEF ReaderAfter
    <3> QED
      BY <1>0, <1>1, <3>1, ZenonT(40) DEF Client, Nothing
  <2>2. /\ c.lastId = client[s].lastId /\ c.pending = client[s].pending /\ c.box = b
        /\ c.taken = Nothing /\ c.received = client[s].received /\ c.stdout = client[s].stdout
    BY <1>0 DEF Client
  <2>3. client' = [client EXCEPT ![s] = c]
    BY <1>2
  <2> HIDE DEF c
  <2> QED
    BY <1>0, <2>1, <2>2, <2>3, OneClient
<1> QED
  BY <1>3 DEF b

\* When the reader ends, every entry fails.
LEMMA EndClient ==
    ASSUME TypeOK, NEW s \in Servers, EndReading(s)
    PROVE  Becomes(s, client[s].lastId, {},
                   Box(s, \E p \in client[s].pending : Awaited(s, p.about), NoAnswer),
                   client[s].taken, client[s].received, client[s].stdout)
<1> DEFINE b == Box(s, \E p \in client[s].pending : Awaited(s, p.about), NoAnswer)
<1>0. client \in [Servers -> Client]
  BY DEF TypeOK
<1>1. b \in SUBSET Nat
  BY DEF TypeOK, Client, Box, NoAnswer
<1>2. client' = [client EXCEPT ![s] = [@ EXCEPT !.reader = "ended", !.pending = {}, !.box = b]]
  BY DEF EndReading, Box
<1> HIDE DEF b
<1>3. Becomes(s, client[s].lastId, {}, b, client[s].taken, client[s].received, client[s].stdout)
  <2> DEFINE c == [client[s] EXCEPT !.reader = "ended", !.pending = {}, !.box = b]
  <2>1. c \in Client
    BY <1>0, <1>1, ZenonT(40) DEF Client
  <2>2. /\ c.lastId = client[s].lastId /\ c.pending = {} /\ c.box = b
        /\ c.taken = client[s].taken /\ c.received = client[s].received /\ c.stdout = client[s].stdout
    BY <1>0 DEF Client
  <2>3. client' = [client EXCEPT ![s] = c]
    BY <1>2
  <2> HIDE DEF c
  <2> QED
    BY <1>0, <2>1, <2>2, <2>3, OneClient
<1> QED
  BY <1>3 DEF b

\* An answer goes from the requests received to stdout.
LEMMA AnswerClient ==
    ASSUME TypeOK, NEW s \in Servers, Answer(s)
    PROVE  \E r \in client[s].received :
             Becomes(s, client[s].lastId, client[s].pending, client[s].box, client[s].taken,
                     client[s].received \ {r}, Append(client[s].stdout, r))
<1>0. client \in [Servers -> Client]
  BY DEF TypeOK
<1>1. PICK r \in client[s].received :
        client' = [client EXCEPT ![s] = [@ EXCEPT !.received = client[s].received \ {r},
                                                 !.stdout = Append(client[s].stdout, r)]]
  BY DEF Answer
<1>2. client[s].received \ {r} \in SUBSET Message /\ Append(client[s].stdout, r) \in Seq(Message)
  BY DEF TypeOK, Client
<1> QED
  BY <1>0, <1>1, <1>2, ZenonT(40) DEF Client, Becomes

\* A server that goes away forgets what it received.
LEMMA GoesClient ==
    ASSUME TypeOK, NEW s \in Servers, GoesAway(s)
    PROVE  Becomes(s, client[s].lastId, client[s].pending, client[s].box, client[s].taken,
                   {}, client[s].stdout)
<1>0. client \in [Servers -> Client]
  BY DEF TypeOK
<1>1. PICK p \in {"mute", "left", "exited"} :
        client' = [client EXCEPT ![s] = [@ EXCEPT !.process = p, !.received = {}]]
  BY DEF GoesAway
<1> QED
  BY <1>0, <1>1, ZenonT(40) DEF Client, Becomes

\* What a server says of its own goes to stdout.
LEMMA SpeaksClient ==
    ASSUME TypeOK, NEW s \in Servers, Speaks(s)
    PROVE  \E m \in Message :
             /\ m.about = NoAnswer
             /\ Becomes(s, client[s].lastId, client[s].pending, client[s].box, client[s].taken,
                        client[s].received, Append(client[s].stdout, m))
<1>0. client \in [Servers -> Client]
  BY DEF TypeOK
<1>1. PICK n \in 1..(client[s].lastId + 1) :
        client' = [client EXCEPT ![s] = [@ EXCEPT
                    !.stdout = Append(client[s].stdout, [id |-> n, about |-> NoAnswer])]]
  BY DEF Speaks
<1> DEFINE m == [id |-> n, about |-> NoAnswer]
<1>2. m \in Message /\ m.about = NoAnswer
  BY DEF Message, NoAnswer, TypeOK, Client
<1>3. client' = [client EXCEPT ![s] = [@ EXCEPT !.stdout = Append(client[s].stdout, m)]]
  BY <1>1
<1> HIDE DEF m
<1>4. Append(client[s].stdout, m) \in Seq(Message)
  BY <1>2 DEF TypeOK, Client
<1>5. Becomes(s, client[s].lastId, client[s].pending, client[s].box, client[s].taken,
              client[s].received, Append(client[s].stdout, m))
  BY <1>0, <1>3, <1>4, ZenonT(40) DEF Client, Becomes
<1> QED
  BY <1>2, <1>5

\* Whether a server reads, and who holds its stdout, is no matter of the table.
LEMMA QuietClient ==
    ASSUME TypeOK, NEW s \in Servers, LetsGo(s) \/ Hangs(s) \/ ReadsOn(s)
    PROVE  Becomes(s, client[s].lastId, client[s].pending, client[s].box, client[s].taken,
                   client[s].received, client[s].stdout)
<1>0. client \in [Servers -> Client]
  BY DEF TypeOK
<1>1. CASE LetsGo(s)
  <2>1. client' = [client EXCEPT ![s] = [@ EXCEPT !.process = "exited"]]
    BY <1>1 DEF LetsGo
  <2> QED
    BY <1>0, <2>1, ZenonT(40) DEF Client, Becomes
<1>2. ASSUME NEW b \in BOOLEAN, client' = [client EXCEPT ![s] = [@ EXCEPT !.reads = b]]
      PROVE  Becomes(s, client[s].lastId, client[s].pending, client[s].box, client[s].taken,
                     client[s].received, client[s].stdout)
  BY <1>0, <1>2, ZenonT(40) DEF Client, Becomes
<1> QED
  BY <1>1, <1>2 DEF Hangs, ReadsOn

\* The end of the catalog leaves of a client what the table and the reader hold.
LEMMA CloseClient ==
    ASSUME TypeOK, Close
    PROVE  /\ client' \in [Servers -> Client]
           /\ \A t \in Servers :
                /\ client'[t].pending = client[t].pending /\ client'[t].lastId = client[t].lastId
                /\ client'[t].taken = client[t].taken /\ client'[t].stdout = client[t].stdout
                /\ \A m \in client'[t].received : m \in client[t].received
<1> DEFINE After(t, p) == [client[t] EXCEPT !.process = p, !.received = {}]
<1>1. PICK left \in SUBSET Servers :
        client' = [t \in Servers |-> IF client[t].process \in {"none"} \cup Exited THEN client[t]
                                     ELSE After(t, Outcome(t, left))]
  BY DEF Close
<1>2. \A t \in Servers : Outcome(t, left) \in {"left", "exited"}
  BY DEF Outcome
<1>3. \A t \in Servers : client[t] \in Client
  BY DEF TypeOK
<1>4. ASSUME NEW t \in Servers, NEW p \in {"left", "exited"}
      PROVE  /\ After(t, p) \in Client
             /\ After(t, p).pending = client[t].pending /\ After(t, p).lastId = client[t].lastId
             /\ After(t, p).taken = client[t].taken /\ After(t, p).stdout = client[t].stdout
             /\ After(t, p).received = {}
  <2>1. client[t] \in Client
    BY <1>3
  <2> QED
    BY <2>1, ZenonT(40) DEF Client
<1> HIDE DEF After
<1>5. client' \in [Servers -> Client]
  BY <1>1, <1>2, <1>3, <1>4
<1> QED
  BY <1>1, <1>2, <1>4, <1>5

\* The bounds are numbers.
LEMMA Bounds == MaxCalls \in Nat /\ MaxFaults \in Nat
BY ToolAssumption

\* No step leaves the types, and a call that goes on is not counted before its end.
LEMMA TypeStep == TypeOK /\ Counted /\ [Next]_vars => TypeOK' /\ Counted'
<1> SUFFICES ASSUME TypeOK, Counted, [Next]_vars PROVE TypeOK' /\ Counted'
  OBVIOUS
<1>1. CASE Invoke
  BY <1>1, OrderIs, ToolAssumption DEF Invoke, TypeOK, Counted, Idle, Thread, Places
<1>2. CASE ListLocal
  <2>1. at' \in Thread
    BY <1>2, SearchType DEF ListLocal
  <2>2. at.place # "idle"
    BY <1>2 DEF ListLocal
  <2> QED
    BY <1>2, <2>1, <2>2 DEF ListLocal, TypeOK, Counted
<1>3. CASE ListSkillsFails \/ NotFound \/ CallLocal
  <2>1. Ends /\ done < MaxCalls
    BY <1>3 DEF ListSkillsFails, NotFound, CallLocal, Counted
  <2>2. at' \in Thread /\ done' \in 0..MaxCalls /\ silent' \subseteq Providers
    BY <2>1, EndsType
  <2>3. faults' \in 0..MaxFaults
    BY <1>3, Bounds DEF ListSkillsFails, NotFound, CallLocal, Fault, TypeOK
  <2>4. Counted'
    BY <2>1 DEF Ends, Counted, Idle
  <2> QED
    BY <1>3, <2>2, <2>3, <2>4 DEF ListSkillsFails, NotFound, CallLocal, TypeOK
<1>4. ASSUME NEW s \in Servers, Ensure(s) PROVE TypeOK' /\ Counted'
  <2>1. at' \in Thread
    BY <1>4, GoesType DEF Ensure, Places
  <2>2. client' \in [Servers -> Client]
    BY <1>4, EnsureClient DEF Becomes
  <2> QED
    BY <1>4, <2>1, <2>2 DEF Ensure, TypeOK, Counted
<1>5. ASSUME NEW s \in Servers, EnsureFails(s) PROVE TypeOK' /\ Counted'
  <2>1. done < MaxCalls
    BY <1>5 DEF EnsureFails, Counted
  <2>2. at' \in Thread /\ done' \in 0..MaxCalls /\ silent' \subseteq Providers
    BY <1>5, <2>1, FailsType DEF EnsureFails
  <2>3. Counted'
    BY <1>5, <2>1 DEF EnsureFails, RequestFails, Ends, NextProvider, Idle, Counted
  <2> QED
    BY <1>5, <2>2, <2>3, Bounds DEF EnsureFails, Fault, TypeOK
<1>6. ASSUME NEW s \in Servers, Register(s) PROVE TypeOK' /\ Counted'
  <2>1. NextId(s) \in Nat /\ requests + 1 \in Nat
    BY DEF TypeOK, Client, NextId
  <2>2. at' \in Thread
    BY <1>6, <2>1 DEF Register, TypeOK, Thread, Places
  <2>3. {p \in client[s].pending : p.id # NextId(s)}
          \cup {[id |-> NextId(s), about |-> requests + 1]} \in SUBSET Message
    BY <2>1 DEF TypeOK, Client, Message
  <2>4. client' \in [Servers -> Client]
    BY <1>6, RegisterClient DEF Becomes
  <2> QED
    BY <1>6, <2>1, <2>2, <2>4 DEF Register, TypeOK, Counted
<1>7. ASSUME NEW s \in Servers, Write(s) PROVE TypeOK' /\ Counted'
  <2>1. at' \in Thread
    BY <1>7, GoesType DEF Write, Places
  <2>2. client[s].received \cup {[id |-> at.id, about |-> requests]} \in SUBSET Message
    BY DEF TypeOK, Client, Message, Thread
  <2>3. client' \in [Servers -> Client]
    BY <1>7, WriteClient DEF Becomes
  <2> QED
    BY <1>7, <2>1, <2>3 DEF Write, TypeOK, Counted
<1>8. ASSUME NEW s \in Servers, WriteFails(s) \/ TimeOut(s) PROVE TypeOK' /\ Counted'
  <2>1. done < MaxCalls
    BY <1>8 DEF WriteFails, TimeOut, Counted
  <2>2. at' \in Thread /\ done' \in 0..MaxCalls /\ silent' \subseteq Providers
    BY <1>8, <2>1, FailsType DEF WriteFails, TimeOut
  <2>3. Counted'
    BY <1>8, <2>1 DEF WriteFails, TimeOut, RequestFails, Ends, NextProvider, Idle, Counted
  <2>4. client' \in [Servers -> Client]
    BY <1>8, ForgetClient DEF Becomes
  <2> QED
    BY <1>8, <2>2, <2>3, <2>4, Bounds DEF WriteFails, TimeOut, Fault, TypeOK
<1>9. ASSUME NEW s \in Servers, Receive(s) PROVE TypeOK' /\ Counted'
  <2>1. done < MaxCalls /\ at.provider <= Len(Order)
    BY <1>9 DEF Receive, Counted, Requesting
  <2>2. CASE at.method = "tools/list" /\ Search /\ UNCHANGED <<done, silent>>
    <3>1. at' \in Thread
      BY <2>1, <2>2, SearchType
    <3> QED
      BY <1>9, <2>1, <2>2, <3>1 DEF Receive, TypeOK, Counted
  <2>3. CASE Ends
    BY <1>9, <2>1, <2>3, EndsType DEF Receive, Ends, Idle, TypeOK, Counted
  <2>4. CASE RequestFails(s)
    <3>1. at' \in Thread /\ done' \in 0..MaxCalls /\ silent' \subseteq Providers
      BY <1>9, <2>1, <2>4, FailsType DEF Receive
    <3>2. Counted'
      BY <2>1, <2>4 DEF RequestFails, Ends, NextProvider, Idle, Counted
    <3> QED
      BY <1>9, <3>1, <3>2 DEF Receive, TypeOK
  <2> QED
    BY <1>9, <2>2, <2>3, <2>4 DEF Receive
<1>10. ASSUME NEW s \in Servers, TakeAnswer(s) PROVE TypeOK' /\ Counted'
  <2>1. client' \in [Servers -> Client]
    BY <1>10, TakeClient DEF Becomes
  <2> QED
    BY <1>10, <2>1 DEF TakeAnswer, OfReader, TypeOK, Counted
<1>11. ASSUME NEW s \in Servers, PutAnswer(s) PROVE TypeOK' /\ Counted'
  <2>1. client' \in [Servers -> Client]
    BY <1>11, PutClient DEF Becomes
  <2> QED
    BY <1>11, <2>1 DEF PutAnswer, OfReader, TypeOK, Counted
<1>12. ASSUME NEW s \in Servers, EndOfFile(s) \/ Stumbles(s) PROVE TypeOK' /\ Counted'
  <2>1. client' \in [Servers -> Client]
    BY <1>12, EndClient DEF Becomes, EndOfFile, Stumbles
  <2> QED
    BY <1>12, <2>1, Bounds DEF EndOfFile, Stumbles, Fault, OfReader, TypeOK, Counted
<1>13. ASSUME NEW s \in Servers, Answer(s) PROVE TypeOK' /\ Counted'
  <2>1. client' \in [Servers -> Client]
    BY <1>13, AnswerClient DEF Becomes
  <2> QED
    BY <1>13, <2>1 DEF Answer, OfReader, TypeOK, Counted
<1>14. ASSUME NEW s \in Servers, GoesAway(s) PROVE TypeOK' /\ Counted'
  <2>1. client' \in [Servers -> Client]
    BY <1>14, GoesClient DEF Becomes
  <2> QED
    BY <1>14, <2>1, Bounds DEF GoesAway, Fault, TypeOK, Counted
<1>15. CASE Close
  <2>3. client' \in [Servers -> Client]
    BY <1>15, CloseClient
  <2> QED
    BY <1>15, <2>3 DEF Close, TypeOK, Counted
<1>16. ASSUME NEW s \in Servers, Speaks(s) PROVE TypeOK' /\ Counted'
  <2>1. client' \in [Servers -> Client]
    BY <1>16, SpeaksClient DEF Becomes
  <2> QED
    BY <1>16, <2>1, Bounds DEF Speaks, Fault, TypeOK, Counted
<1>17. ASSUME NEW s \in Servers, LetsGo(s) \/ Hangs(s) \/ ReadsOn(s) PROVE TypeOK' /\ Counted'
  <2>1. client' \in [Servers -> Client]
    BY <1>17, QuietClient DEF Becomes
  <2> QED
    BY <1>17, <2>1, Bounds DEF LetsGo, Hangs, ReadsOn, OfReader, Fault, TypeOK, Counted
<1>18. CASE UNCHANGED vars
  BY <1>18 DEF vars, TypeOK, Counted
<1> QED
  BY <1>1, <1>2, <1>3, <1>4, <1>5, <1>6, <1>7, <1>8, <1>9, <1>10, <1>11, <1>12, <1>13, <1>14, <1>15,
     <1>16, <1>17, <1>18 DEF Next, Work, Request, Read, Serve

-----------------------------------------------------------------------------
(* The answers.                                                            *)

\* A step after which nobody waits for a server, and nothing is left in its table.
LEMMA NobodyWaits ==
    ASSUME TypeOK, NEW t \in Servers, Travelling(t), requests' \in Nat, requests' >= requests,
           ~ Awaits(t)', client'[t].pending = {}, client'[t].lastId = client[t].lastId,
           client'[t].taken = client[t].taken,
           \A m \in client'[t].received : m \in client[t].received,
           client'[t].stdout = client[t].stdout
    PROVE  Travelling(t)'
<1>1. client[t].taken.queue \in Nat /\ requests \in Nat
  BY DEF TypeOK, Client
<1> QED
  BY <1>1 DEF Travelling, Fits

\* Who does not wait has nothing in the table.
LEMMA EmptyTable ==
    ASSUME NEW t \in Servers, Travelling(t), TypeOK, ~ Awaits(t)
    PROVE  client[t].pending = {}
BY DEF Travelling, TypeOK, Client

\* Only the server whose turn it is is waited for.
LEMMA OneAwaited ==
    ASSUME NEW s \in Servers, NEW t \in Servers \ {s}, Requesting(s), at'.provider = at.provider
    PROVE  ~ Awaits(t) /\ ~ Awaits(t)'
BY DEF Requesting, Asked, Awaits

\* The thread leaves the place where it waited, and the table is as good as empty.
LEMMA ThreadLeaves ==
    ASSUME TypeOK, \A t \in Servers : Travelling(t), UNCHANGED requests,
           at'.place \notin {"registered", "waiting"},
           \A t \in Servers : /\ client'[t] = client[t]
                              /\ Awaits(t) => client[t].pending = {}
    PROVE  \A t \in Servers : Travelling(t)'
<1> TAKE t \in Servers
<1>1. client[t].pending = {}
  BY EmptyTable
<1>2. requests \in Nat
  BY DEF TypeOK
<1> QED
  BY <1>1, <1>2, NobodyWaits DEF Awaits

\* Where the thread is after the steps that leave a request:
LEMMA PlaceIsFinding == ASSUME TypeOK, NextProvider PROVE at'.place = "finding"
BY DEF TypeOK, Thread, NextProvider

\* it calls a tool that it found,
LEMMA PlaceIsCalling == ASSUME TypeOK, Found PROVE at'.place = "calling"
BY DEF TypeOK, Thread, Found

\* or is idle,
LEMMA PlaceIsIdle == ASSUME Ends PROVE at'.place = "idle"
BY DEF Ends, Idle

\* from where a call begins.
LEMMA InvokePlaces == ASSUME Invoke PROVE at.place = "idle" /\ at'.place = "finding"
BY DEF Invoke, Idle

\* Nowhere of these it waits.
LEMMA PlaceAfter ==
    ASSUME TypeOK, Search \/ Ends \/ \E s \in Servers : RequestFails(s)
    PROVE  at'.place \notin {"registered", "waiting"}
BY PlaceIsFinding, PlaceIsCalling, PlaceIsIdle DEF Search, RequestFails

\* No step mixes the answers up.
LEMMA TravelStep ==
    TypeOK /\ (\A t \in Servers : Travelling(t)) /\ [Next]_vars => \A t \in Servers : Travelling(t)'
<1> SUFFICES ASSUME TypeOK, \A t \in Servers : Travelling(t), [Next]_vars
             PROVE  \A t \in Servers : Travelling(t)'
  OBVIOUS
<1>1. CASE Invoke \/ ListLocal \/ ListSkillsFails \/ NotFound \/ CallLocal
  <2>1. UNCHANGED <<client, requests>>
    BY <1>1 DEF Invoke, ListLocal, ListSkillsFails, NotFound, CallLocal
  <2>2. at.place \in {"idle", "finding", "calling"}
    BY <1>1, InvokePlaces DEF ListLocal, ListSkillsFails, NotFound, CallLocal
  <2>3. at'.place \notin {"registered", "waiting"}
    BY <1>1, InvokePlaces, PlaceAfter DEF ListLocal, ListSkillsFails, NotFound, CallLocal
  <2> QED
    BY <2>1, <2>2, <2>3, ThreadLeaves DEF Awaits
<1>2. ASSUME NEW s \in Servers, Ensure(s) PROVE \A t \in Servers : Travelling(t)'
  <2> TAKE t \in Servers
  <2>1. at'.place = "ensured" /\ at.place \notin {"registered", "waiting"}
    BY <1>2 DEF Ensure, Goes, TypeOK, Thread
  <2>2. client[t].pending = {}
    BY <2>1, EmptyTable DEF Awaits
  <2>3. /\ client'[t].lastId = client[t].lastId /\ client'[t].pending = client[t].pending
        /\ client'[t].taken = client[t].taken /\ client'[t].received = client[t].received
        /\ client'[t].stdout = client[t].stdout
    BY <1>2, EnsureClient DEF Becomes
  <2>4. requests \in Nat /\ UNCHANGED requests
    BY <1>2 DEF TypeOK, Ensure
  <2> QED
    BY <2>1, <2>2, <2>3, <2>4, NobodyWaits DEF Awaits
<1>3. ASSUME NEW s \in Servers, EnsureFails(s) PROVE \A t \in Servers : Travelling(t)'
  <2>1. UNCHANGED <<client, requests>> /\ at.place \notin {"registered", "waiting"}
    BY <1>3 DEF EnsureFails
  <2>2. at'.place \notin {"registered", "waiting"}
    BY <1>3, PlaceAfter DEF EnsureFails
  <2> QED
    BY <2>1, <2>2, ThreadLeaves DEF Awaits
<1>4. ASSUME NEW s \in Servers, Register(s) PROVE \A t \in Servers : Travelling(t)'
  <2> TAKE t \in Servers
  <2>1. /\ at'.place = "registered" /\ at'.provider = at.provider /\ at'.id = NextId(s)
        /\ at.place = "ensured" /\ Requesting(s)
    BY <1>4 DEF Register, TypeOK, Thread
  <2>2. requests \in Nat /\ requests' = requests + 1
    BY <1>4 DEF Register, TypeOK
  <2>3. CASE t # s
    <3>1. client'[t] = client[t]
      BY <1>4, <2>3, RegisterClient DEF Becomes
    <3>2. ~ Awaits(t) /\ ~ Awaits(t)'
      BY <2>1, <2>3, OneAwaited
    <3>3. client[t].pending = {}
      BY <3>2, EmptyTable
    <3> QED
      BY <2>2, <3>1, <3>2, <3>3, NobodyWaits
  <2>4. CASE t = s
    <3>1. client[s].pending = {}
      BY <2>1, EmptyTable DEF Awaits
    <3>2. /\ client'[s].lastId = NextId(s)
          /\ client'[s].pending = {[id |-> NextId(s), about |-> requests + 1]}
          /\ client'[s].box = {} /\ client'[s].taken = client[s].taken
          /\ client'[s].received = client[s].received /\ client'[s].stdout = client[s].stdout
      BY <1>4, <3>1, RegisterClient DEF Becomes
    <3>3. client[s].lastId \in Nat /\ NextId(s) = client[s].lastId + 1 /\ client[s].taken.queue \in Nat
      BY DEF TypeOK, Client, NextId
    <3>4. client[s].received \subseteq Message /\ client[s].stdout \in Seq(Message)
      BY DEF TypeOK, Client
    <3>5. Awaits(s)'
      BY <2>1 DEF Awaits, Requesting, Asked
    <3>6. \A m \in client'[s].received : Fits(s, m)'
      <4> TAKE m \in client'[s].received
      <4>1. m.id \in Nat /\ (m.about = NoAnswer \/ m.id <= client[s].lastId)
        BY <3>2, <3>4 DEF Travelling, Fits, Message
      <4> QED
        BY <2>1, <3>2, <3>3, <4>1 DEF Fits
    <3>7. \A i \in 1..Len(client'[s].stdout) : Fits(s, client[s].stdout[i])'
      <4> TAKE i \in 1..Len(client'[s].stdout)
      <4>1. /\ client[s].stdout[i] \in Message
            /\ client[s].stdout[i].about = NoAnswer \/ client[s].stdout[i].id <= client[s].lastId
        BY <3>2, <3>4 DEF Travelling, Fits
      <4>2. client[s].stdout[i].id \in Nat
        BY <4>1 DEF Message
      <4> QED
        BY <2>1, <3>2, <3>3, <4>1, <4>2 DEF Fits
    <3>8. client[s].taken # Nothing => client[s].taken.queue <= requests
      BY DEF Travelling
    <3>9. \A p \in client'[s].pending : Awaits(s)' /\ p.about = requests' /\ p.id = at'.id
      BY <2>1, <2>2, <3>2, <3>5
    <3>10. client'[s].taken # Nothing => client'[s].taken.queue <= requests' /\ client'[s].taken.queue # requests'
      BY <2>2, <3>2, <3>3, <3>8
    <3>11. at'.id = client'[s].lastId /\ client'[s].box = {}
      BY <2>1, <3>2
    <3> QED
      BY <2>4, <3>6, <3>7, <3>9, <3>10, <3>11 DEF Travelling
  <2> QED
    BY <2>3, <2>4
<1>5. ASSUME NEW s \in Servers, Write(s) PROVE \A t \in Servers : Travelling(t)'
  <2> TAKE t \in Servers
  <2>1. /\ at'.place = "waiting" /\ at'.provider = at.provider /\ at'.id = at.id
        /\ at.place = "registered" /\ Requesting(s)
    BY <1>5 DEF Write, Goes, TypeOK, Thread
  <2>2. requests \in Nat /\ requests' = requests
    BY <1>5 DEF Write, TypeOK
  <2>3. CASE t # s
    <3>1. client'[t] = client[t]
      BY <1>5, <2>3, WriteClient DEF Becomes
    <3>2. ~ Awaits(t) /\ ~ Awaits(t)'
      BY <2>1, <2>3, OneAwaited
    <3>3. client[t].pending = {}
      BY <3>2, EmptyTable
    <3> QED
      BY <2>2, <3>1, <3>2, <3>3, NobodyWaits
  <2>4. CASE t = s
    <3>1. Awaits(s) /\ Awaits(s)'
      BY <2>1 DEF Awaits, Requesting, Asked
    <3>2. /\ client'[s].lastId = client[s].lastId /\ client'[s].pending = client[s].pending
          /\ client'[s].box = client[s].box /\ client'[s].taken = client[s].taken
          /\ client'[s].received = client[s].received \cup {[id |-> at.id, about |-> requests]}
          /\ client'[s].stdout = client[s].stdout
      BY <1>5, WriteClient DEF Becomes
    <3>3. at.id = client[s].lastId /\ client[s].lastId \in Nat
      BY <3>1 DEF Travelling, TypeOK, Client
    <3>4. \A m \in client'[s].received : Fits(s, m)'
      <4>1. [id |-> at.id, about |-> requests].id = at.id /\ [id |-> at.id, about |-> requests].about = requests
        OBVIOUS
      <4>2. \A m \in client[s].received : Fits(s, m)
        BY DEF Travelling
      <4> QED
        BY <2>1, <2>2, <3>1, <3>2, <3>3, <4>1, <4>2 DEF Fits
    <3> QED
      BY <2>1, <2>2, <2>4, <3>1, <3>2, <3>4 DEF Travelling, Fits
  <2> QED
    BY <2>3, <2>4
<1>6. ASSUME NEW s \in Servers, WriteFails(s) \/ TimeOut(s) PROVE \A t \in Servers : Travelling(t)'
  <2> TAKE t \in Servers
  <2>1. at'.place \notin {"registered", "waiting"} /\ Awaits(s)
    BY <1>6, PlaceAfter DEF WriteFails, TimeOut, Awaits
  <2>2. requests \in Nat /\ requests' = requests
    BY <1>6 DEF WriteFails, TimeOut, TypeOK
  <2>3. client'[t].pending = {}
    <3>1. CASE t # s
      BY <1>6, <2>1, <3>1, ForgetClient, EmptyTable DEF Becomes, Awaits, Requesting
    <3>2. CASE t = s
      BY <1>6, <2>1, <3>2, ForgetClient DEF Becomes, Forget, Travelling
    <3> QED
      BY <3>1, <3>2
  <2>4. /\ client'[t].lastId = client[t].lastId /\ client'[t].taken = client[t].taken
        /\ client'[t].received = client[t].received /\ client'[t].stdout = client[t].stdout
    BY <1>6, ForgetClient DEF Becomes
  <2> QED
    BY <2>1, <2>2, <2>3, <2>4, NobodyWaits DEF Awaits
<1>7. ASSUME NEW s \in Servers, Receive(s) PROVE \A t \in Servers : Travelling(t)'
  <2>1. UNCHANGED <<client, requests>> /\ Requesting(s) /\ at.place = "waiting" /\ client[s].box # {}
    BY <1>7 DEF Receive
  <2>2. at'.place \notin {"registered", "waiting"}
    BY <1>7, PlaceAfter DEF Receive
  <2>3. \A t \in Servers : Awaits(t) => client[t].pending = {}
    BY <2>1 DEF Awaits, Travelling, Requesting
  <2> QED
    BY <2>1, <2>2, <2>3, ThreadLeaves
<1>8. ASSUME NEW s \in Servers, TakeAnswer(s) PROVE \A t \in Servers : Travelling(t)'
  <2> TAKE t \in Servers
  <2>1. UNCHANGED <<at, requests>> /\ client[s].taken = Nothing /\ client[s].stdout # <<>>
    BY <1>8 DEF TakeAnswer, OfReader, Reading
  <2>2. CASE t # s
    BY <1>8, <2>1, <2>2, TakeClient DEF Becomes, Travelling, Fits, Awaits, Requesting, Asked
  <2>3. CASE t = s
    <3>1. /\ client'[s].lastId = client[s].lastId /\ client'[s].pending = client[s].pending \ Asks(s)
          /\ client'[s].box = client[s].box /\ client'[s].taken = Taken(s)
          /\ client'[s].received = client[s].received /\ client'[s].stdout = Tail(client[s].stdout)
      BY <1>8, TakeClient DEF Becomes
    <3>2. client[s].stdout \in Seq(Message) /\ requests \in Nat
      BY DEF TypeOK, Client
    <3>3. Fits(s, Head(client[s].stdout))
      BY <2>1, <3>2, HeadTailProperties DEF Travelling
    <3>4. \A i \in 1..Len(client'[s].stdout) : Fits(s, client'[s].stdout[i])
      BY <2>1, <3>1, <3>2, HeadTailProperties DEF Travelling
    <3>5. Taken(s) # Nothing =>
            /\ Taken(s).queue = requests /\ Taken(s).about \in {requests, NoAnswer}
            /\ Awaits(s) /\ client[s].pending \ Asks(s) = {}
      <4> HAVE Taken(s) # Nothing
      <4>1. Asks(s) # {}
        BY DEF Taken
      <4>2. PICK p \in Asks(s) : p = CHOOSE q \in Asks(s) : TRUE
        BY <4>1
      <4>3. Awaits(s) /\ p.about = requests /\ p.id = at.id /\ Head(client[s].stdout).id = at.id
        BY <4>2 DEF Asks, Travelling
      <4>4. \A q \in client[s].pending : q.id = at.id
        BY DEF Travelling
      <4>5. Head(client[s].stdout).about \in {requests, NoAnswer}
        BY <3>3, <4>3 DEF Fits
      <4>6. Taken(s).queue = requests /\ Taken(s).about \in {requests, NoAnswer}
        BY <4>1, <4>2, <4>3, <4>5 DEF Taken
      <4> QED
        BY <4>3, <4>4, <4>6 DEF Asks
    <3>6. (Awaits(s)' <=> Awaits(s)) /\ \A m : Fits(s, m)' <=> Fits(s, m)
      BY <2>1, <3>1 DEF Awaits, Requesting, Asked, Fits
    <3>7. \A m \in client'[s].received : Fits(s, m)'
      BY <3>1, <3>6 DEF Travelling
    <3>8. \A i \in 1..Len(client'[s].stdout) : Fits(s, client[s].stdout[i])'
      BY <3>4, <3>6
    <3>9. \A p \in client'[s].pending : Awaits(s)' /\ p.about = requests' /\ p.id = at'.id
      BY <2>1, <3>1, <3>6 DEF Travelling
    <3>10. client'[s].taken # Nothing =>
             /\ client'[s].taken.queue <= requests'
             /\ client'[s].taken.about \in {requests', NoAnswer} /\ client'[s].pending = {}
      BY <2>1, <3>1, <3>2, <3>5
    <3>11. Awaits(s)' =>
             /\ at'.id = client'[s].lastId /\ client'[s].box \subseteq {requests', NoAnswer}
             /\ client'[s].box # {} => client'[s].pending = {}
      BY <2>1, <3>1, <3>6 DEF Travelling
    <3> QED
      BY <2>3, <3>7, <3>8, <3>9, <3>10, <3>11 DEF Travelling
  <2> QED
    BY <2>2, <2>3
<1>9. ASSUME NEW s \in Servers, PutAnswer(s) PROVE \A t \in Servers : Travelling(t)'
  <2> TAKE t \in Servers
  <2>1. UNCHANGED <<at, requests>> /\ client[s].taken # Nothing
    BY <1>9 DEF PutAnswer, OfReader
  <2>2. CASE t # s
    BY <1>9, <2>1, <2>2, PutClient DEF Becomes, Travelling, Fits, Awaits, Requesting, Asked
  <2>3. CASE t = s
    <3>1. /\ client'[s].lastId = client[s].lastId /\ client'[s].pending = client[s].pending
          /\ client'[s].box = Box(s, Awaited(s, client[s].taken.queue), client[s].taken.about)
          /\ client'[s].taken = Nothing
          /\ client'[s].received = client[s].received /\ client'[s].stdout = client[s].stdout
      BY <1>9, PutClient DEF Becomes
    <3>2. Awaits(s)' <=> Awaits(s)
      BY <2>1 DEF Awaits, Requesting, Asked
    <3>3. Awaits(s) => client'[s].box \subseteq {requests, NoAnswer} /\ (client'[s].box # {} => client[s].pending = {})
      BY <2>1, <3>1 DEF Box, Awaited, Awaits, Travelling
    <3> QED
      BY <2>1, <2>3, <3>1, <3>2, <3>3 DEF Travelling, Fits
  <2> QED
    BY <2>2, <2>3
<1>10. ASSUME NEW s \in Servers, EndOfFile(s) \/ Stumbles(s) PROVE \A t \in Servers : Travelling(t)'
  <2> TAKE t \in Servers
  <2>1. UNCHANGED <<at, requests>> /\ EndReading(s)
    BY <1>10 DEF EndOfFile, Stumbles, OfReader
  <2>2. CASE t # s
    <3>1. client'[t] = client[t]
      BY <2>1, <2>2, EndClient DEF Becomes
    <3> QED
      BY <2>1, <3>1 DEF Travelling, Fits, Awaits, Requesting, Asked
  <2>3. CASE t = s
    <3>1. /\ client'[s].lastId = client[s].lastId /\ client'[s].pending = {}
          /\ client'[s].box = Box(s, \E p \in client[s].pending : Awaited(s, p.about), NoAnswer)
          /\ client'[s].taken = client[s].taken
          /\ client'[s].received = client[s].received /\ client'[s].stdout = client[s].stdout
      BY <2>1, EndClient DEF Becomes
    <3>2. Awaits(s)' <=> Awaits(s)
      BY <2>1 DEF Awaits, Requesting, Asked
    <3>3. Awaits(s) => client'[s].box \subseteq {requests, NoAnswer}
      BY <3>1 DEF Box, Travelling
    <3>4. \A m : Fits(s, m)' <=> Fits(s, m)
      BY <2>1, <3>1, <3>2 DEF Fits
    <3>5. (\A m \in client'[s].received : Fits(s, m)') /\ \A i \in 1..Len(client'[s].stdout) : Fits(s, client[s].stdout[i])'
      BY <3>1, <3>4 DEF Travelling
    <3>6. client'[s].taken # Nothing =>
            /\ client'[s].taken.queue <= requests
            /\ Awaits(s) /\ client'[s].taken.queue = requests =>
                 client'[s].taken.about \in {requests, NoAnswer}
      BY <3>1 DEF Travelling
    <3>7. Awaits(s) => at.id = client'[s].lastId
      BY <3>1 DEF Travelling
    <3> QED
      BY <2>1, <2>3, <3>1, <3>2, <3>3, <3>5, <3>6, <3>7 DEF Travelling
  <2> QED
    BY <2>2, <2>3
<1>11. ASSUME NEW s \in Servers, Answer(s) PROVE \A t \in Servers : Travelling(t)'
  <2> TAKE t \in Servers
  <2>1. UNCHANGED <<at, requests>>
    BY <1>11 DEF Answer, OfReader
  <2>2. PICK r \in client[s].received :
          Becomes(s, client[s].lastId, client[s].pending, client[s].box, client[s].taken,
                  client[s].received \ {r}, Append(client[s].stdout, r))
    BY <1>11, AnswerClient
  <2>3. CASE t # s
    BY <2>1, <2>2, <2>3 DEF Becomes, Travelling, Fits, Awaits, Requesting, Asked
  <2>4. CASE t = s
    <3>1. /\ client'[s].lastId = client[s].lastId /\ client'[s].pending = client[s].pending
          /\ client'[s].box = client[s].box /\ client'[s].taken = client[s].taken
          /\ client'[s].received = client[s].received \ {r} /\ client'[s].stdout = Append(client[s].stdout, r)
      BY <2>2 DEF Becomes
    <3>2. (Awaits(s)' <=> Awaits(s)) /\ \A m : Fits(s, m)' <=> Fits(s, m)
      BY <2>1, <3>1 DEF Awaits, Requesting, Asked, Fits
    <3>3. client[s].stdout \in Seq(Message) /\ r \in Message
      BY DEF TypeOK, Client
    <3>4. \A i \in 1..Len(client'[s].stdout) : Fits(s, client'[s].stdout[i])
      BY <3>1, <3>3 DEF Travelling
    <3> QED
      BY <2>1, <2>4, <3>1, <3>2, <3>4 DEF Travelling
  <2> QED
    BY <2>3, <2>4
<1>12. ASSUME NEW s \in Servers, GoesAway(s) PROVE \A t \in Servers : Travelling(t)'
  <2> TAKE t \in Servers
  <2>1. UNCHANGED <<at, requests>>
    BY <1>12 DEF GoesAway
  <2>2. CASE t # s
    BY <1>12, <2>1, <2>2, GoesClient DEF Becomes, Travelling, Fits, Awaits, Requesting, Asked
  <2>3. CASE t = s
    BY <1>12, <2>1, <2>3, GoesClient DEF Becomes, Travelling, Fits, Awaits, Requesting, Asked
  <2> QED
    BY <2>2, <2>3
<1>13. CASE Close
  <2> TAKE t \in Servers
  <2>1. at.place = "idle" /\ UNCHANGED <<at, requests>>
    BY <1>13 DEF Close, Idle
  <2>3. /\ client'[t].pending = client[t].pending /\ client'[t].lastId = client[t].lastId
        /\ client'[t].taken = client[t].taken /\ client'[t].stdout = client[t].stdout
        /\ \A m \in client'[t].received : m \in client[t].received
    BY <1>13, CloseClient
  <2>4. ~ Awaits(t) /\ ~ Awaits(t)' /\ requests \in Nat
    BY <2>1 DEF Awaits, TypeOK
  <2> QED
    BY <2>1, <2>3, <2>4, EmptyTable, NobodyWaits
<1>14. ASSUME NEW s \in Servers, Speaks(s) PROVE \A t \in Servers : Travelling(t)'
  <2> TAKE t \in Servers
  <2>1. UNCHANGED <<at, requests>>
    BY <1>14 DEF Speaks
  <2>2. PICK m \in Message :
          /\ m.about = NoAnswer
          /\ Becomes(s, client[s].lastId, client[s].pending, client[s].box, client[s].taken,
                     client[s].received, Append(client[s].stdout, m))
    BY <1>14, SpeaksClient
  <2>3. CASE t # s
    BY <2>1, <2>2, <2>3 DEF Becomes, Travelling, Fits, Awaits, Requesting, Asked
  <2>4. CASE t = s
    <3>1. /\ client'[s].lastId = client[s].lastId /\ client'[s].pending = client[s].pending
          /\ client'[s].box = client[s].box /\ client'[s].taken = client[s].taken
          /\ client'[s].received = client[s].received /\ client'[s].stdout = Append(client[s].stdout, m)
      BY <2>2 DEF Becomes
    <3>2. (Awaits(s)' <=> Awaits(s)) /\ \A n : Fits(s, n)' <=> Fits(s, n)
      BY <2>1, <3>1 DEF Awaits, Requesting, Asked, Fits
    <3>3. client[s].stdout \in Seq(Message) /\ Fits(s, m)
      BY <2>2 DEF TypeOK, Client, Fits
    <3>4. \A i \in 1..Len(client'[s].stdout) : Fits(s, client'[s].stdout[i])
      BY <3>1, <3>3 DEF Travelling
    <3> QED
      BY <2>1, <2>4, <3>1, <3>2, <3>4 DEF Travelling
  <2> QED
    BY <2>3, <2>4
<1>15. ASSUME NEW s \in Servers, LetsGo(s) \/ Hangs(s) \/ ReadsOn(s)
       PROVE  \A t \in Servers : Travelling(t)'
  <2> TAKE t \in Servers
  <2>1. UNCHANGED <<at, requests>>
    BY <1>15 DEF LetsGo, Hangs, ReadsOn, OfReader
  <2>2. CASE t # s
    BY <1>15, <2>1, <2>2, QuietClient DEF Becomes, Travelling, Fits, Awaits, Requesting, Asked
  <2>3. CASE t = s
    BY <1>15, <2>1, <2>3, QuietClient DEF Becomes, Travelling, Fits, Awaits, Requesting, Asked
  <2> QED
    BY <2>2, <2>3
<1>16. CASE UNCHANGED vars
  BY <1>16 DEF vars, Travelling, Fits, Awaits, Requesting, Asked
<1> QED
  BY <1>1, <1>2, <1>3, <1>4, <1>5, <1>6, <1>7, <1>8, <1>9, <1>10, <1>11, <1>12, <1>13, <1>14, <1>15,
     <1>16 DEF Next, Work, Request, Read, Serve

-----------------------------------------------------------------------------
(* The search.                                                             *)

\* The next provider is asked only when the last had no such tool or could not be asked.
LEMMA PassedNext ==
    ASSUME TypeOK, Passed, NextProvider, silent \subseteq silent',
           at.tool \in Offers[Asked] => Asked \in silent'
    PROVE  Passed'
<1>1. at'.provider = at.provider + 1 /\ at'.tool = at.tool /\ at.provider \in Nat
  BY OrderIs DEF TypeOK, Thread, NextProvider
<1> QED
  BY <1>1 DEF Passed, Asked

\* While the thread stays with a provider, nothing is passed over.
LEMMA PassedStays ==
    ASSUME Passed, at'.provider = at.provider, at'.tool = at.tool, silent' = silent
    PROVE  Passed'
BY DEF Passed

\* A call that ended passed over nobody.
LEMMA PassedEnds ==
    ASSUME Ends
    PROVE  Passed'
BY DEF Ends, Idle, Passed

\* Who answered and is passed over has no such tool.
LEMMA PassedSearch ==
    ASSUME TypeOK, Passed, Search, UNCHANGED silent
    PROVE  Passed'
<1>1. CASE at.tool \in Offers[Asked]
  BY <1>1, PassedStays DEF Search, Found, TypeOK, Thread
<1>2. CASE at.tool \notin Offers[Asked]
  BY <1>2, PassedNext DEF Search
<1> QED
  BY <1>1, <1>2

\* Who could not be asked is silent.
LEMMA PassedFails ==
    ASSUME TypeOK, Passed, NEW s \in Servers, Requesting(s), RequestFails(s)
    PROVE  Passed'
<1>1. CASE Ends
  BY <1>1, PassedEnds
<1>2. CASE silent' = silent \cup {s} /\ NextProvider
  BY <1>2, PassedNext DEF Requesting
<1> QED
  BY <1>1, <1>2 DEF RequestFails

\* Every step keeps what is known of the providers passed over.
LEMMA PassedStep == TypeOK /\ Passed /\ [Next]_vars => Passed'
<1> SUFFICES ASSUME TypeOK, Passed, [Next]_vars PROVE Passed'
  OBVIOUS
<1>1. CASE Invoke
  BY <1>1 DEF Invoke, Idle, Passed
<1>2. CASE ListLocal
  BY <1>2, PassedSearch DEF ListLocal
<1>3. CASE ListSkillsFails \/ NotFound \/ CallLocal
  BY <1>3, PassedEnds DEF ListSkillsFails, NotFound, CallLocal
<1>4. ASSUME NEW s \in Servers, Ensure(s) \/ Register(s) \/ Write(s) PROVE Passed'
  BY <1>4, PassedStays DEF Ensure, Register, Write, Goes, TypeOK, Thread
<1>5. ASSUME NEW s \in Servers, EnsureFails(s) \/ WriteFails(s) \/ TimeOut(s) PROVE Passed'
  BY <1>5, PassedFails DEF EnsureFails, WriteFails, TimeOut
<1>6. ASSUME NEW s \in Servers, Receive(s) PROVE Passed'
  BY <1>6, PassedSearch, PassedEnds, PassedFails DEF Receive
<1>7. CASE UNCHANGED <<at, silent>>
  BY <1>7, PassedStays
<1> QED
  BY <1>1, <1>2, <1>3, <1>4, <1>5, <1>6, <1>7
     DEF Next, Work, Request, Read, TakeAnswer, PutAnswer, EndOfFile, Stumbles, Serve, Answer,
         Speaks, GoesAway, LetsGo, Hangs, ReadsOn, Close, OfReader, vars

-----------------------------------------------------------------------------
(* Theorems.                                                               *)

\* The invariant holds at the start.
LEMMA InitInv == Init => IInv
<1> SUFFICES ASSUME Init PROVE IInv
  OBVIOUS
<1>1. TypeOK
  BY InitType
<1>2. \A s \in Servers : Travelling(s)
  BY DEF Init, Travelling, Fresh, Awaits, Idle
<1>3. Counted /\ Passed
  BY DEF Init, Counted, Passed, Idle
<1> QED
  BY <1>1, <1>2, <1>3 DEF IInv

\* The inductive invariant.
THEOREM Inductive == Spec => []IInv
<1>1. IInv /\ [Next]_vars => IInv'
  BY TypeStep, TravelStep, PassedStep DEF IInv
<1> QED
  BY InitInv, <1>1, PTL DEF Spec

\* A request gets its own answer or the news that the connection is closed, the table holds
\* nothing that was given up, and a tool is not found only if whoever offers it could not
\* be asked: for any servers, however late, often or wrongly they answer
\* (mcp_stdio_client.py:83-180, catalog.py).
THEOREM OwnAnswers == Spec => []AnswersFitRequests
<1>1. IInv => OwnAnswer
  BY DEF IInv, OwnAnswer, Travelling, Awaits
<1>2. IInv => NothingPends
  BY DEF IInv, NothingPends, Travelling, Awaits, Awaited
<1>3. IInv => NotFoundIsTrue
  <2> SUFFICES ASSUME IInv, at.provider > Len(Order), NEW p \in Providers, at.tool \in Offers[p]
               PROVE  p \in silent
    BY DEF NotFoundIsTrue
  <2>1. PICK i \in 1..Len(Order) : p = Order[i]
    BY OrderIs DEF Providers
  <2>2. at.provider \in Int /\ i \in 1..(at.provider - 1)
    BY OrderIs DEF IInv, TypeOK, Thread
  <2> QED
    BY <2>1, <2>2 DEF IInv, Passed
<1>4. IInv => AnswersFitRequests
  BY <1>1, <1>2, <1>3 DEF IInv, AnswersFitRequests
<1> QED
  BY <1>4, Inductive, PTL
=============================================================================
