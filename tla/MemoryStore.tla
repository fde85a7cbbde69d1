---------------------------- MODULE MemoryStore ----------------------------
(***************************************************************************)
(* Long-term memory: proposals that are accepted, rejected or expire, and  *)
(* the facts that come of accepting them.  An operation commits its rows   *)
(* in one database session and writes its audit events in others, so that  *)
(* a crash or a failed commit falls between them.                          *)
(*                                                                         *)
(* core-api runs each handler to its end before the next one (they are     *)
(* coroutines without a suspension point), so one operation is under way   *)
(* at a time; its commits are the steps.  Values, reasons, tags and        *)
(* evidence are left out, and so is the maintenance call for proposals     *)
(* with a time to live, which compares an aware with a naive time and      *)
(* always fails (facts.py:815).                                            *)
(*                                                                         *)
(* Code: packages/memory/memory/{facts,audit}.py, core-api's api/memory.py.*)
(***************************************************************************)
EXTENDS Integers, FiniteSets

CONSTANTS
    Proposals, Facts,   \* ids
    Keys, SingleValued, \* keys of facts; those that keep one value by default
    KeyOf,              \* payload.key of each proposal
    Targets,            \* where an accepted fact may be put
    Projects, Sessions,
    None,
    MaxFaults           \* bound: crashes and failed commits

Target ==
    [scope : {"global", "project", "session"},
     project_id : Projects \cup {None}, session_id : Sessions \cup {None}]

\* Accepting requires the id that the scope is about; other ids may come along.
ASSUME MemoryStoreAssumption ==
    /\ Proposals \cap Facts = {}
    /\ SingleValued \subseteq Keys
    /\ KeyOf \in [Proposals -> Keys]
    /\ Targets \subseteq Target
    /\ \A t \in Targets : /\ t.scope = "project" => t.project_id # None
                          /\ t.scope = "session" => t.session_id # None
    /\ MaxFaults \in Nat

VARIABLES
    sqlite,     \* the database admits one writing connection at a time
    proposals,  \* status of each row, "absent" before it is created
    facts,      \* the rows of facts, or Absent
    audit,      \* the last event recorded about each proposal and fact
    op,         \* the operation under way
    writes,     \* history: how often a proposal's value was written to a fact
    revived,    \* history: facts that have been reactivated
    kept,       \* history: facts created by keep_both
    faults

rows == <<proposals, facts>>
history == <<writes, revived, kept>>
vars == <<sqlite, rows, audit, op, history, faults>>

Resolved == {"accepted", "rejected", "expired"}
FactRow == [status : {"active", "revoked", "archived"}, key : Keys, at : Target,
            version : Nat \ {0}, from : Proposals]
Absent == [status |-> "absent"]
Event == [type : Resolved \cup {"created", "updated", "revoked", "archived", "reactivated"},
          version : Nat]
NoEvent == [type |-> "none", version |-> 0]

\* Between the commits of an operation it is known what comes next: "note" and
\* "store" belong to accepting a proposal, "tell" is the last audit event.
Idle == [step |-> "idle"]

Init ==
    /\ sqlite \in BOOLEAN
    /\ proposals = [p \in Proposals |-> "absent"]
    /\ facts = [f \in Facts |-> Absent]
    /\ audit = [x \in Proposals \cup Facts |-> NoEvent]
    /\ op = Idle
    /\ writes = [p \in Proposals |-> 0]
    /\ revived = {} /\ kept = {}
    /\ faults = 0

\* A new fact gets an id that no row has (uuid4); which one makes no difference.
FreshFact ==
    LET unused == {f \in Facts : facts[f] = Absent}
    IN  IF unused = {} THEN {} ELSE {CHOOSE f \in unused : TRUE}

Tell(x, type, version) ==
    op' = [step |-> "tell", about |-> x, event |-> [type |-> type, version |-> version]]

-----------------------------------------------------------------------------
(* Operations with one commit and one event                                *)

CreateProposal(p) ==
    /\ op = Idle
    /\ proposals[p] = "absent"
    /\ proposals' = [proposals EXCEPT ![p] = "pending"]
    /\ Tell(p, "created", 0)
    /\ UNCHANGED <<sqlite, facts, audit, history, faults>>

\* reject_proposal and expire_proposal
Resolve(p, status) ==
    /\ op = Idle
    /\ proposals[p] = "pending"
    /\ proposals' = [proposals EXCEPT ![p] = status]
    /\ Tell(p, status, 0)
    /\ UNCHANGED <<sqlite, facts, audit, history, faults>>

\* revoke_fact and archive_fact
Withdraw(f, status) ==
    /\ op = Idle
    /\ facts[f].status = "active"
    /\ facts' = [facts EXCEPT ![f].status = status]
    /\ Tell(f, status, facts[f].version)
    /\ UNCHANGED <<sqlite, proposals, audit, history, faults>>

\* reactivate_fact: nobody looks for another active fact of the key.
Reactivate(f) ==
    /\ op = Idle
    /\ facts[f].status \in {"revoked", "archived"}
    /\ facts' = [facts EXCEPT ![f].status = "active"]
    /\ revived' = revived \cup {f}
    /\ Tell(f, "reactivated", facts[f].version)
    /\ UNCHANGED <<sqlite, proposals, audit, writes, kept, faults>>

-----------------------------------------------------------------------------
(* Accepting a proposal                                                    *)

\* _get_key_policy, unless the request names a strategy.
Overwrites(k, strategy) ==
    IF strategy = None THEN k \in SingleValued ELSE strategy = "overwrite_latest"

\* Where a query for the facts of a scope looks: a global fact must have no ids.
SamePlace(t, u) ==
    /\ t.scope = u.scope
    /\ CASE t.scope = "project" -> t.project_id = u.project_id
         [] t.scope = "session" -> t.session_id = u.session_id
         [] OTHER -> u.project_id = None /\ u.session_id = None

\* Slips: global facts are compared with = NULL, which no row satisfies; facts
\* that were withdrawn are found as well.
ConflictsNull(k, t) ==
    {f \in Facts : /\ facts[f].status = "active"
                   /\ facts[f].key = k
                   /\ t.scope # "global" /\ SamePlace(t, facts[f].at)}

ConflictsAnyStatus(k, t) ==
    {f \in Facts : /\ facts[f] # Absent
                   /\ facts[f].key = k
                   /\ SamePlace(t, facts[f].at)}

\* The facts that a new value may replace
Conflicts(k, t) ==
    {f \in Facts : /\ facts[f].status = "active"
                   /\ facts[f].key = k
                   /\ SamePlace(t, facts[f].at)}

\* The pending proposal leads to a row for a new fact, or to the next version of
\* any one of the facts it conflicts with (the query has no order).
Accept(p, strategy, t) ==
    LET key == KeyOf[p]
        over == Overwrites(key, strategy)
        found == Conflicts(key, t)
        Begin(f, row, type) ==
            op' = [step |-> "note", proposal |-> p, fact |-> f, row |-> row, type |-> type,
                   keep |-> ~over]
    IN
    /\ op = Idle
    /\ proposals[p] = "pending"
    /\ \/ /\ over
          /\ \E f \in found :
                Begin(f, [facts[f] EXCEPT !.version = @ + 1, !.from = p], "updated")
       \/ /\ over => found = {}
          /\ \E f \in FreshFact :
                Begin(f, [status |-> "active", key |-> key, at |-> t, version |-> 1, from |-> p],
                      "created")
    /\ UNCHANGED <<sqlite, rows, audit, history, faults>>

\* A slip: the session does not notice that a fact was changed.
WriteFactNewOnly ==
    IF op.type = "created"
    THEN /\ facts' = [facts EXCEPT ![op.fact] = op.row]
         /\ writes' = [writes EXCEPT ![op.proposal] = @ + 1]
         /\ kept' = IF op.keep THEN kept \cup {op.fact} ELSE kept
         /\ UNCHANGED revived
    ELSE UNCHANGED <<facts, writes, kept, revived>>

\* The row goes to the database.
WriteFact ==
    /\ facts' = [facts EXCEPT ![op.fact] = op.row]
    /\ writes' = [writes EXCEPT ![op.proposal] = @ + 1]
    /\ kept' = IF op.type = "created" /\ op.keep THEN kept \cup {op.fact} ELSE kept
    /\ UNCHANGED revived

\* A new row has been flushed, so that its connection has SQLite's write lock and
\* the event, which another connection writes, finds the database locked.  An
\* update waits in the session until the commit.
NoteBlocked == sqlite /\ op.type = "created"

\* A slip: the event names the version before the change.
NoteOldVersion ==
    /\ op.step = "note"
    /\ ~NoteBlocked
    /\ audit' = [audit EXCEPT ![op.fact] = [type |-> op.type, version |-> op.row.version - 1]]
    /\ op' = [op EXCEPT !.step = "store"]
    /\ UNCHANGED <<sqlite, rows, history, faults>>

\* The event about the fact, committed before the fact is.
Note ==
    /\ op.step = "note"
    /\ ~NoteBlocked
    /\ audit' = [audit EXCEPT ![op.fact] = [type |-> op.type, version |-> op.row.version]]
    /\ op' = [op EXCEPT !.step = "store"]
    /\ UNCHANGED <<sqlite, rows, history, faults>>

\* It cannot be written: the error leaves accept_proposal, whose `finally` commits
\* the session all the same.
NoteFails ==
    /\ op.step = "note"
    /\ \/ NoteBlocked /\ UNCHANGED faults
       \/ ~NoteBlocked /\ faults < MaxFaults /\ faults' = faults + 1
    /\ WriteFact
    /\ op' = Idle
    /\ UNCHANGED <<sqlite, proposals, audit>>

\* The fact and the proposal are committed together.
Store ==
    /\ op.step = "store"
    /\ WriteFact
    /\ proposals' = [proposals EXCEPT ![op.proposal] = "accepted"]
    /\ Tell(op.proposal, "accepted", 0)
    /\ UNCHANGED <<sqlite, audit, faults>>

-----------------------------------------------------------------------------
\* The last event of an operation
Log ==
    /\ op.step = "tell"
    /\ audit' = [audit EXCEPT ![op.about] = op.event]
    /\ op' = Idle
    /\ UNCHANGED <<sqlite, rows, history, faults>>

\* The process dies between two commits, or the next commit fails, as it does
\* when the worker keeps the same database locked for five seconds.
Interrupted ==
    /\ op # Idle
    /\ faults < MaxFaults
    /\ faults' = faults + 1
    /\ op' = Idle
    /\ UNCHANGED <<sqlite, rows, audit, history>>

ProposalRequests ==
    \E p \in Proposals :
        \/ CreateProposal(p)
        \/ Resolve(p, "rejected") \/ Resolve(p, "expired")
        \/ \E t \in Targets, s \in {"overwrite_latest", "keep_both", None} : Accept(p, s, t)

FactRequests ==
    \E f \in Facts : Withdraw(f, "revoked") \/ Withdraw(f, "archived") \/ Reactivate(f)

Next ==
    \/ ProposalRequests \/ FactRequests
    \/ Note \/ NoteFails \/ Store \/ Log \/ Interrupted

Spec == Init /\ [][Next]_vars

-----------------------------------------------------------------------------
(* Properties                                                              *)

\* Domains; the operation under way speaks of rows that are there.
TypeOK ==
    /\ sqlite \in BOOLEAN
    /\ proposals \in [Proposals -> Resolved \cup {"absent", "pending"}]
    /\ facts \in [Facts -> FactRow \cup {Absent}]
    /\ audit \in [Proposals \cup Facts -> Event \cup {NoEvent}]
    /\ op \in {Idle}
            \cup [step : {"note", "store"}, proposal : Proposals, fact : Facts, row : FactRow,
                  type : {"created", "updated"}, keep : BOOLEAN]
            \cup [step : {"tell"}, about : Proposals \cup Facts, event : Event]
    /\ writes \in [Proposals -> Nat]
    /\ revived \subseteq Facts /\ kept \subseteq Facts
    /\ faults \in 0..MaxFaults

Present == {f \in Facts : facts[f] # Absent}
Active == {f \in Facts : facts[f].status = "active"}

\* Accepting must create or modify a fact (docs/spec/memory.md 3.1): a proposal
\* that counts as accepted has reached the facts, whichever commit failed.
AcceptedIsWritten ==
    \A p \in Proposals : proposals[p] = "accepted" => writes[p] > 0

\* A proposal takes effect once if it is accepted, and not at all otherwise, where
\* the database admits two connections and no commit fails.
EffectMatchesStatus ==
    ~sqlite /\ faults = 0 =>
        \A p \in Proposals : writes[p] = (IF proposals[p] = "accepted" THEN 1 ELSE 0)

\* The three together: proposals and the facts that came of them fit each other.
ProposalsFitFacts == TypeOK /\ AcceptedIsWritten /\ EffectMatchesStatus

\* Under overwrite_latest a key has one active value in a place: two active facts
\* conflict only after a reactivation, or if keep_both was used.
OneActiveValue ==
    \A f, g \in Active :
        /\ f # g
        /\ facts[f].key = facts[g].key
        /\ SamePlace(facts[f].at, facts[g].at) /\ SamePlace(facts[g].at, facts[f].at)
        => {f, g} \cap (revived \cup kept) # {}

\* A fact that was revoked or archived keeps value and version: until it is
\* reactivated no accepted proposal overwrites it.
WithdrawnIsKept ==
    [][\A f \in Facts :
         facts[f].status \in {"revoked", "archived"}
         => facts'[f] \in {facts[f], [facts[f] EXCEPT !.status = "active"]}]_vars

\* Which events may be the last ones about a fact
Tells(f, event) ==
    /\ event.version = facts[f].version
    /\ IF facts[f].status = "active"
       THEN event.type \in {"created", "updated", "reactivated"}
       ELSE event.type = facts[f].status

\* As documented, every change of a fact emits an audit event (docs/spec/memory.md:25,
\* 140, packages/memory/README.md:94).  Under SQLite no accepted proposal that becomes a
\* new fact does: see AuditAgrees for what is left.
FactsAreAudited == op = Idle /\ faults = 0 => \A f \in Present : Tells(f, audit[f])

\* What the audit can be relied on for: between operations the last event about each row
\* tells its state, as long as no commit failed, except that under SQLite a fact may have
\* no event at all; from the first one on its events are complete (audit.py:42-91).
AuditAgrees ==
    op = Idle /\ faults = 0 =>
        /\ \A p \in Proposals :
              audit[p].type = CASE proposals[p] = "absent" -> "none"
                                [] proposals[p] = "pending" -> "created"
                                [] OTHER -> proposals[p]
        /\ \A f \in Present :
              Tells(f, audit[f]) \/ (sqlite /\ audit[f] = NoEvent)

=============================================================================
