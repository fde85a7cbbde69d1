----------------------------- MODULE ToolCalls -----------------------------
(***************************************************************************)
(* How a run calls a tool.  The catalog asks one provider after the other  *)
(* for its tools; MCP servers are processes of their own that answer over  *)
(* stdout, late, in any order or never.  For each server a client keeps a  *)
(* table of requests that wait, which the worker's thread and the reader   *)
(* of stdout change under a lock; answers are matched by request id.       *)
(*                                                                         *)
(* A catalog has one thread; it is opened for a run and closed after it.   *)
(*                                                                         *)
(* Code: apps/agent-worker/worker/tools/{catalog,runtime,provider,         *)
(*       skills_provider,mcp_provider,mcp_stdio_client}.py                 *)
(***************************************************************************)
EXTENDS Integers, Sequences, FiniteSets

CONSTANTS
    Servers,        \* the names in MCP_SERVERS_JSON
    ServerOrder,    \* in the order of MCP_SERVERS_JSON
    Tools,
    Offers,         \* the tools of each provider
    Nobody,
    MaxCalls,       \* bound: tools that a run calls
    MaxFaults,      \* bound: servers that exit, shut their stdout, hang, do not start or send
                    \* what is no answer, requests that cannot be written, and failing calls
                    \* of core-api or of local tools
    MaxEvents       \* bound: calls and faults together

\* web, builtin, the MCP servers, skills, stub.
Order == <<"web", "builtin">> \o ServerOrder \o <<"skills", "stub">>
Providers == {Order[i] : i \in DOMAIN Order}

ASSUME ToolAssumption ==
    /\ ServerOrder \in Seq(Servers)
    /\ {ServerOrder[i] : i \in DOMAIN ServerOrder} = Servers
    /\ Len(ServerOrder) = Cardinality(Servers)
    /\ Servers \cap {"web", "builtin", "skills", "stub"} = {}
    /\ Offers \in [Providers -> SUBSET Tools]
    /\ {MaxCalls, MaxFaults, MaxEvents} \subseteq Nat

VARIABLES
    client,     \* per server: the process, the reader and what passes between them
    at,         \* where the thread stands in the call of a tool
    done,       \* calls that ended, which bounds them
    open,       \* the catalog has not been closed
    requests,   \* history: requests to servers so far, which numbers them
    silent,     \* history: providers whose list could not be had during this call
    faults

vars == <<client, at, done, open, requests, silent, faults>>

\* A request on its way, or an answer on its way back: the id it carries and the number of
\* the request that it is about.  In the table: an id, and the number of the request whose
\* queue it leads to.
Message == [id : Nat, about : Nat]
NoAnswer == 0       \* "connection closed", or a message of the server's own that has an id
Nothing == [queue |-> 0, about |-> 0]

\* A mute server has closed its stdout; one that left has exited, but a process that it had
\* started holds its stdout.
Client == [process : {"none", "running", "mute", "left", "exited"},
           reads : BOOLEAN,                         \* stdin; the pipe is full if it does not
           lastId : Nat,                            \* _request_id
           pending : SUBSET Message,                \* _pending
           box : SUBSET Nat,                        \* the queue of the request that waits
           reader : {"none", "reading", "ended"},
           taken : [queue : Nat, about : Nat],      \* between the lock and the queue
           received : SUBSET Message,               \* by the server
           stdout : Seq(Message)]

Fresh == [process |-> "none", reads |-> TRUE, lastId |-> 0, pending |-> {}, box |-> {}, reader |-> "none",
          taken |-> Nothing, received |-> {}, stdout |-> <<>>]

Exited == {"left", "exited"}

Places == {"idle", "finding", "calling", "ensured", "registered", "waiting"}
Thread == [place : Places, tool : Tools \cup {Nobody}, provider : 1..(Len(Order) + 1),
           method : {"tools/list", "tools/call"},
           id : Nat]

Idle == [place |-> "idle", tool |-> Nobody, provider |-> 1, method |-> "tools/list", id |-> 0]

Init ==
    /\ client = [s \in Servers |-> Fresh]
    /\ at = Idle
    /\ done = 0
    /\ open = TRUE
    /\ requests = 0
    /\ silent = {}
    /\ faults = 0

Asked == Order[at.provider]     \* the provider whose turn it is
Goes(place) == at' = [at EXCEPT !.place = place]
Begun == IF at = Idle THEN done ELSE done + 1
MayHappen == Begun + faults < MaxEvents
Fault ==
    /\ faults < MaxFaults /\ MayHappen
    /\ faults' = faults + 1

-----------------------------------------------------------------------------
(* ToolRuntime.invoke and ToolCatalog.get                                  *)

Invoke ==
    /\ open /\ at = Idle
    /\ done < MaxCalls /\ MayHappen
    /\ \E t \in Tools : at' = [Idle EXCEPT !.place = "finding", !.tool = t]
    /\ UNCHANGED <<client, done, open, requests, silent, faults>>

\* The call returns or raises, and the step of the run is recorded either way.
Ends ==
    /\ done' = done + 1
    /\ at' = Idle
    /\ silent' = {}

\* What the list of the provider means for the search.
Found == at' = [at EXCEPT !.place = "calling", !.method = "tools/call"]
NextProvider == at' = [at EXCEPT !.place = "finding", !.provider = @ + 1, !.id = 0]
Search == IF at.tool \in Offers[Asked] THEN Found ELSE NextProvider

ListLocal ==
    /\ at.place = "finding" /\ at.provider <= Len(Order)
    /\ Asked \notin Servers
    /\ Search
    /\ UNCHANGED <<client, done, open, requests, silent, faults>>

\* SkillsListError leaves the search.
ListSkillsFails ==
    /\ at.place = "finding" /\ at.provider <= Len(Order)
    /\ Asked = "skills"
    /\ Fault
    /\ Ends
    /\ UNCHANGED <<client, open, requests>>

NotFound ==
    /\ at.place = "finding" /\ at.provider > Len(Order)
    /\ Ends
    /\ UNCHANGED <<client, open, requests, faults>>

CallLocal ==
    /\ at.place = "calling"
    /\ Asked \notin Servers
    /\ \/ Ends /\ UNCHANGED faults
       \/ Fault /\ Ends
    /\ UNCHANGED <<client, open, requests>>

-----------------------------------------------------------------------------
(* MCPStdioClient._request, and what MCPProvider makes of its outcome      *)

Requesting(s) == at.provider <= Len(Order) /\ Asked = s

\* list_tools never raises: its list is empty then.
RequestFails(s) ==
    IF at.method = "tools/call"
    THEN Ends
    ELSE silent' = silent \cup {s} /\ NextProvider /\ UNCHANGED done

Ensure(s) ==
    /\ Requesting(s) /\ at.place \in {"finding", "calling"}
    /\ client[s].process \notin Exited
    /\ IF client[s].process = "none"
       THEN client' = [client EXCEPT ![s] = [@ EXCEPT !.process = "running", !.reader = "reading"]]
       ELSE UNCHANGED client
    /\ Goes("ensured")
    /\ UNCHANGED <<done, open, requests, silent, faults>>

\* The process does not start, or exited before; it is never started again.
EnsureFails(s) ==
    /\ Requesting(s) /\ at.place \in {"finding", "calling"}
    /\ \/ client[s].process = "none" /\ Fault
       \/ client[s].process \in Exited /\ UNCHANGED faults
    /\ RequestFails(s)
    /\ UNCHANGED <<client, open, requests>>

\* A slip: the id is not counted up.
SameId(s) == 1

NextId(s) == client[s].lastId + 1

\* Under the lock: a new id and its place in the table.
Register(s) ==
    /\ Requesting(s) /\ at.place = "ensured"
    /\ client' = [client EXCEPT ![s] = [@ EXCEPT
                     !.lastId = NextId(s), !.box = {},
                     !.pending = {p \in client[s].pending : p.id # NextId(s)}
                                   \cup {[id |-> NextId(s), about |-> requests + 1]}]]
    /\ at' = [at EXCEPT !.place = "registered", !.id = NextId(s)]
    /\ requests' = requests + 1
    /\ UNCHANGED <<done, open, silent, faults>>

Forget(s) == {p \in client[s].pending : p.id # at.id}

\* A process that only closed its stdout still takes what is written to it.  The write has no
\* time-out: while the server does not read, the thread stays here.
Write(s) ==
    /\ Requesting(s) /\ at.place = "registered"
    /\ client[s].process # "exited" /\ client[s].reads
    /\ client' = [client EXCEPT ![s] = [@ EXCEPT
                     !.received = client[s].received \cup {[id |-> at.id, about |-> requests]}]]
    /\ Goes("waiting")
    /\ UNCHANGED <<done, open, requests, silent, faults>>

\* The process has exited or closed its stdin, or the arguments are no JSON.
WriteFails(s) ==
    /\ Requesting(s) /\ at.place = "registered"
    /\ \/ client[s].process = "exited" /\ UNCHANGED faults
       \/ client[s].process # "exited" /\ Fault
    /\ client' = [client EXCEPT ![s] = [@ EXCEPT !.pending = Forget(s)]]
    /\ RequestFails(s)
    /\ UNCHANGED <<open, requests>>

\* The answer, an error of the server or of the connection.  What is no answer is taken for a
\* list without tools, or ends the call.
Receive(s) ==
    /\ Requesting(s) /\ at.place = "waiting"
    /\ \E about \in client[s].box :
         \/ about # NoAnswer /\ at.method = "tools/list" /\ Search /\ UNCHANGED <<done, silent>>
         \/ about # NoAnswer /\ at.method = "tools/call" /\ Ends
         \/ RequestFails(s)
    /\ UNCHANGED <<client, open, requests, faults>>

\* A slip: no time-out is passed for tools/call.
TimeOutOfList(s) ==
    /\ Requesting(s) /\ at.place = "waiting"
    /\ client[s].box = {} /\ at.method = "tools/list"
    /\ client' = [client EXCEPT ![s] = [@ EXCEPT !.pending = Forget(s)]]
    /\ RequestFails(s)
    /\ UNCHANGED <<open, requests, faults>>

TimeOut(s) ==
    /\ Requesting(s) /\ at.place = "waiting"
    /\ client[s].box = {}
    /\ client' = [client EXCEPT ![s] = [@ EXCEPT !.pending = Forget(s)]]
    /\ RequestFails(s)
    /\ UNCHANGED <<open, requests, faults>>

-----------------------------------------------------------------------------
(* MCPStdioClient._read_loop                                               *)

Reading(s) == client[s].reader = "reading" /\ client[s].taken = Nothing
OfReader == <<at, done, open, requests, silent, faults>>

\* Once the catalog is closed, the next line is the last.
ReaderAfter == IF open THEN "reading" ELSE "ended"

\* A line is read and its id taken from the table; an id that is not there is passed over.
TakeAnswer(s) ==
    /\ Reading(s)
    /\ client[s].stdout # <<>>
    /\ LET answer == Head(client[s].stdout)
           asked == {p \in client[s].pending : p.id = answer.id}
       IN  client' = [client EXCEPT ![s] = [@ EXCEPT
                     !.stdout = Tail(client[s].stdout), !.pending = client[s].pending \ asked,
                     !.reader = ReaderAfter,
                     !.taken = IF asked = {} THEN Nothing
                               ELSE [queue |-> (CHOOSE p \in asked : TRUE).about, about |-> answer.about]]]
    /\ UNCHANGED OfReader

\* What is put into the queue of a request that gave up is lost with it.
Awaited(s, queue) == Requesting(s) /\ at.place \in {"registered", "waiting"} /\ queue = requests

PutAnswer(s) ==
    /\ client[s].taken # Nothing
    /\ client' = [client EXCEPT ![s] = [@ EXCEPT
                     !.taken = Nothing, !.reader = ReaderAfter,
                     !.box = IF Awaited(s, client[s].taken.queue) THEN {client[s].taken.about}
                             ELSE client[s].box]]
    /\ UNCHANGED OfReader

\* The end of the reader fails what is in the table; what is entered later waits in vain.
EndReading(s) ==
    client' = [client EXCEPT ![s] = [@ EXCEPT
                  !.reader = "ended", !.pending = {},
                  !.box = IF \E p \in client[s].pending : Awaited(s, p.about) THEN {NoAnswer}
                          ELSE client[s].box]]

EndOfFile(s) ==
    /\ Reading(s)
    /\ client[s].stdout = <<>> /\ client[s].process \in {"mute", "exited"}
    /\ EndReading(s)
    /\ UNCHANGED OfReader

\* A line that is JSON but no object ends the reader too; the process goes on.
Stumbles(s) ==
    /\ Reading(s) /\ client[s].process = "running"
    /\ Fault
    /\ EndReading(s)
    /\ UNCHANGED <<at, done, open, requests, silent>>

-----------------------------------------------------------------------------
(* The servers                                                             *)

Answer(s) ==
    /\ client[s].process = "running"
    /\ \E r \in client[s].received :
         client' = [client EXCEPT ![s] = [@ EXCEPT !.received = client[s].received \ {r},
                                                   !.stdout = Append(client[s].stdout, r)]]
    /\ UNCHANGED OfReader

\* A request or a note of the server's own, with any id.
Speaks(s) ==
    /\ client[s].process = "running"
    /\ Fault
    /\ \E n \in 1..(client[s].lastId + 1) :
         client' = [client EXCEPT ![s] = [@ EXCEPT
                     !.stdout = Append(client[s].stdout, [id |-> n, about |-> NoAnswer])]]
    /\ UNCHANGED <<at, done, open, requests, silent>>

GoesAway(s) ==
    /\ Fault
    /\ \E p \in {"mute", "left", "exited"} :
         /\ client[s].process = "running" \/ (client[s].process = "mute" /\ p = "exited")
         /\ client' = [client EXCEPT ![s] = [@ EXCEPT !.process = p, !.received = {}]]
    /\ UNCHANGED <<at, done, open, requests, silent>>

\* What the server had started ends and lets go of its stdout.
LetsGo(s) ==
    /\ client[s].process = "left"
    /\ client' = [client EXCEPT ![s] = [@ EXCEPT !.process = "exited"]]
    /\ UNCHANGED OfReader

Hangs(s) ==
    /\ client[s].process \in {"running", "mute"} /\ client[s].reads
    /\ Fault
    /\ client' = [client EXCEPT ![s] = [@ EXCEPT !.reads = FALSE]]
    /\ UNCHANGED <<at, done, open, requests, silent>>

ReadsOn(s) ==
    /\ ~client[s].reads
    /\ client' = [client EXCEPT ![s] = [@ EXCEPT !.reads = TRUE]]
    /\ UNCHANGED OfReader

Serve(s) == Answer(s) \/ Speaks(s) \/ GoesAway(s) \/ LetsGo(s) \/ Hangs(s) \/ ReadsOn(s)

-----------------------------------------------------------------------------
\* close_providers, after the run: the processes are terminated, if need be killed; what they
\* had started is not.
Outcome(s, left) ==
    IF s \in left /\ client[s].process = "running" THEN "left" ELSE "exited"

Close ==
    /\ open /\ at = Idle
    /\ open' = FALSE
    /\ \E left \in SUBSET Servers :
         client' = [s \in Servers |->
                      IF client[s].process \in {"none"} \cup Exited THEN client[s]
                      ELSE [client[s] EXCEPT !.process = Outcome(s, left), !.received = {}]]
    /\ UNCHANGED <<at, done, requests, silent, faults>>

\* The thread, in the call of a tool.
Request(s) ==
    \/ Ensure(s) \/ EnsureFails(s) \/ Register(s) \/ Write(s) \/ WriteFails(s)
    \/ Receive(s) \/ TimeOut(s)

Work == ListLocal \/ ListSkillsFails \/ NotFound \/ CallLocal \/ \E s \in Servers : Request(s)

Read(s) == TakeAnswer(s) \/ PutAnswer(s) \/ EndOfFile(s)

Next ==
    \/ Invoke \/ Work \/ Close
    \/ \E s \in Servers : Read(s) \/ Stumbles(s) \/ Serve(s)

\* Nothing is assumed of the servers: the thread goes on, and the reader reads.
Spec == Init /\ [][Next]_vars /\ WF_vars(Work) /\ \A s \in Servers : WF_vars(Read(s))

-----------------------------------------------------------------------------
(* Properties                                                              *)

TypeOK ==
    /\ client \in [Servers -> Client]
    /\ at \in Thread
    /\ done \in 0..MaxCalls
    /\ open \in BOOLEAN /\ requests \in Nat
    /\ silent \subseteq Providers /\ faults \in 0..MaxFaults

\* The queue of a request that waits never holds the answer to another request, however late
\* earlier ones are answered: it holds its own, the news that the connection is closed, or a
\* message of the server's own that happens to have its id.
OwnAnswer ==
    \A s \in Servers : Requesting(s) /\ at.place = "waiting" => client[s].box \subseteq {requests, NoAnswer}

\* The table holds the request that waits, if one does, and nothing that was given up.
NothingPends ==
    \A s \in Servers : \A p \in client[s].pending : Awaited(s, p.about)

\* A tool counts as not found only if whoever offers it could not be asked.
NotFoundIsTrue ==
    at.provider > Len(Order) => {p \in Providers : at.tool \in Offers[p]} \subseteq silent

\* The three together with the types: what the table and the queues of the clients hold.
AnswersFitRequests == TypeOK /\ OwnAnswer /\ NothingPends /\ NotFoundIsTrue

\* The thread writes to a server that does not read.
Blocked == \E s \in Servers : Requesting(s) /\ at.place = "registered" /\ ~client[s].reads

\* Every call of a tool ends, whatever its servers do, unless one does not read what is written
\* to it; and once the catalog is closed no reader stays behind to keep the worker from
\* ending, unless a process that a server had started holds the stdout of its server.
CallsReturn ==
    /\ at # Idle ~> at = Idle \/ Blocked
    /\ ~open ~> \A s \in Servers : client[s].reader # "reading" \/ client[s].process = "left"
=============================================================================
