------------------------- MODULE MemoryStoreProofs -------------------------
(***************************************************************************)
(* Proofs about MemoryStore, for any proposals, facts, keys, places and    *)
(* number of faults, on both kinds of database: IInv is inductive, so that *)
(* what is accepted was written, a key that is overwritten has one active  *)
(* value, withdrawn facts are kept and the audit tells the state of rows.  *)
(***************************************************************************)
EXTENDS MemoryStore, TLAPS

Accepting == op.step \in {"note", "store"}
Withdrawn == {"revoked", "archived"}

\* Whether a value at t would compete with an active fact of the key.
Competes(k, t) ==
    \E f \in Facts : facts[f].status = "active" /\ facts[f].key = k /\ SamePlace(t, facts[f].at)

\* What accept_proposal has decided is still true when it writes: nothing else changes
\* proposals or facts until then.
Undisturbed ==
    Accepting =>
        /\ proposals[op.proposal] = "pending"
        /\ op.row.status = "active"
        /\ op.type = "created" =>
             facts[op.fact] = Absent /\ (op.keep \/ ~ Competes(op.row.key, op.row.at))
        /\ op.type = "updated" =>
             /\ facts[op.fact].status = "active"
             /\ op.row.key = facts[op.fact].key /\ op.row.at = facts[op.fact].at

\* The event that the audit of a row ends with, once the operation under way has told its own.
Last(x) ==
    IF op.step = "tell" THEN IF op.about = x THEN op.event ELSE audit[x] ELSE audit[x]

StatusEvent(p) ==
    CASE proposals[p] = "absent" -> "none"
      [] proposals[p] = "pending" -> "created"
      [] OTHER -> proposals[p]

\* Without faults the audit is never further from the rows than the operation under way: it
\* has told of the fact that it is about to write, or will tell of the row that it wrote.
Audited ==
    faults = 0 =>
        /\ \A p \in Proposals : Last(p).type = StatusEvent(p)
        /\ \A f \in Facts :
             IF op.step = "store" /\ op.fact = f
             THEN audit[f] = [type |-> op.type, version |-> op.row.version]
             ELSE IF facts[f] = Absent THEN Last(f) = NoEvent
                  ELSE Tells(f, Last(f)) \/ (sqlite /\ Last(f) = NoEvent)

IInv ==
    /\ TypeOK /\ Undisturbed /\ AcceptedIsWritten /\ EffectMatchesStatus /\ OneActiveValue
    /\ Audited

-----------------------------------------------------------------------------
(* The operation under way.                                                *)

AcceptStep == [step : {"note", "store"}, proposal : Proposals, fact : Facts, row : FactRow,
               type : {"created", "updated"}, keep : BOOLEAN]
TellStep == [step : {"tell"}, about : Proposals \cup Facts, event : Event]

\* What is known of an operation by the step it is at.
LEMMA OpIs ==
    ASSUME TypeOK
    PROVE  /\ op = Idle <=> op.step = "idle"
           /\ Accepting => op \in AcceptStep
           /\ op.step = "tell" => op \in TellStep
           /\ op.step \in {"idle", "note", "store", "tell"}
BY DEF TypeOK, AcceptStep, TellStep, Accepting, Idle

\* The last event of an operation.
LEMMA TellIs ==
    ASSUME NEW x \in Proposals \cup Facts, NEW y \in Event, op' = [step |-> "tell", about |-> x, event |-> y]
    PROVE  op' \in TellStep /\ op'.step = "tell" /\ op'.about = x /\ op'.event = y
BY DEF TellStep

\* A new fact gets an id that no row has.
LEMMA FreshIs == \A f \in FreshFact : f \in Facts /\ facts[f] = Absent
BY DEF FreshFact

\* A row that is there.
LEMMA RowIs ==
    ASSUME TypeOK, NEW f \in Facts, facts[f] # Absent
    PROVE  facts[f] \in FactRow
BY DEF TypeOK

\* Only such a row has a status other than "absent".
LEMMA StatusIs ==
    ASSUME TypeOK, NEW f \in Facts, facts[f].status # "absent"
    PROVE  facts[f] # Absent /\ facts[f] \in FactRow
BY RowIs DEF Absent

\* A row whose status changes.
LEMMA StatusChanges ==
    ASSUME TypeOK, NEW f \in Facts, facts[f].status # "absent",
           NEW s \in {"active", "revoked", "archived"}, facts' = [facts EXCEPT ![f].status = s]
    PROVE  /\ facts' \in [Facts -> FactRow \cup {Absent}]
           /\ \A g \in Facts \ {f} : facts'[g] = facts[g]
           /\ facts'[f] \in FactRow /\ facts'[f] # Absent /\ facts'[f].status = s
           /\ facts'[f].key = facts[f].key /\ facts'[f].at = facts[f].at
           /\ facts'[f].version = facts[f].version /\ facts'[f].from = facts[f].from
<1> DEFINE row == [facts[f] EXCEPT !.status = s]
<1>1. facts[f] \in FactRow
  BY StatusIs
<1>2. /\ row \in FactRow /\ row # Absent /\ row.status = s /\ row.key = facts[f].key
      /\ row.at = facts[f].at /\ row.version = facts[f].version /\ row.from = facts[f].from
  BY <1>1 DEF FactRow, Absent
<1>3. facts' = [facts EXCEPT ![f] = row]
  OBVIOUS
<1> HIDE DEF row
<1> QED
  BY <1>2, <1>3 DEF TypeOK

\* What accepting a proposal decides.
LEMMA AcceptIs ==
    ASSUME TypeOK, NEW p \in Proposals, NEW s, NEW t \in Targets, Accept(p, s, t)
    PROVE  /\ op' \in AcceptStep /\ op'.step = "note" /\ op'.proposal = p
           /\ op'.row.status = "active"
           /\ op'.type = "created" =>
                facts[op'.fact] = Absent /\ (op'.keep \/ ~ Competes(op'.row.key, op'.row.at))
           /\ op'.type = "updated" =>
                /\ facts[op'.fact].status = "active"
                /\ op'.row.key = facts[op'.fact].key /\ op'.row.at = facts[op'.fact].at
<1> DEFINE over == Overwrites(KeyOf[p], s)
           Begin(f, row, type) ==
               op' = [step |-> "note", proposal |-> p, fact |-> f, row |-> row, type |-> type,
                      keep |-> ~over]
<1>1. (~over) \in BOOLEAN
  OBVIOUS
<1>2. \/ \E f \in Conflicts(KeyOf[p], t) :
           Begin(f, [facts[f] EXCEPT !.version = @ + 1, !.from = p], "updated")
      \/ /\ over => Conflicts(KeyOf[p], t) = {}
         /\ \E f \in FreshFact :
              Begin(f, [status |-> "active", key |-> KeyOf[p], at |-> t, version |-> 1, from |-> p], "created")
  BY DEF Accept
<1>3. CASE \E f \in Conflicts(KeyOf[p], t) :
             Begin(f, [facts[f] EXCEPT !.version = @ + 1, !.from = p], "updated")
  <2>1. PICK f \in Conflicts(KeyOf[p], t) :
          Begin(f, [facts[f] EXCEPT !.version = @ + 1, !.from = p], "updated")
    BY <1>3
  <2> DEFINE u == [facts[f] EXCEPT !.version = @ + 1]
             row == [u EXCEPT !.from = p]
  <2>2. f \in Facts /\ facts[f].status = "active" /\ facts[f] \in FactRow
    BY StatusIs DEF Conflicts
  <2>3. u \in FactRow /\ u.status = "active" /\ u.key = facts[f].key /\ u.at = facts[f].at
    BY <2>2 DEF FactRow
  <2>4. Begin(f, row, "updated")
    BY <2>1
  <2> HIDE DEF u
  <2>5. row \in FactRow /\ row.status = "active" /\ row.key = facts[f].key /\ row.at = facts[f].at
    BY <2>3 DEF FactRow
  <2> HIDE DEF row, over
  <2> QED
    BY <1>1, <2>2, <2>4, <2>5 DEF AcceptStep
<1>4. CASE /\ over => Conflicts(KeyOf[p], t) = {}
           /\ \E f \in FreshFact :
                Begin(f, [status |-> "active", key |-> KeyOf[p], at |-> t, version |-> 1, from |-> p], "created")
  <2> DEFINE row == [status |-> "active", key |-> KeyOf[p], at |-> t, version |-> 1, from |-> p]
  <2>1. PICK f \in FreshFact : Begin(f, row, "created")
    BY <1>4
  <2>2. f \in Facts /\ facts[f] = Absent
    BY FreshIs
  <2>3. row \in FactRow /\ row.status = "active" /\ row.key = KeyOf[p] /\ row.at = t
    BY MemoryStoreAssumption DEF FactRow
  <2>4. over => ~ Competes(KeyOf[p], t)
    BY <1>4 DEF Conflicts, Competes
  <2> HIDE DEF row, over
  <2> QED
    BY <1>1, <2>1, <2>2, <2>3, <2>4 DEF AcceptStep
<1> QED
  BY <1>2, <1>3, <1>4

-----------------------------------------------------------------------------
(* The types.                                                              *)

\* No step leaves the types.
LEMMA TypeStep == TypeOK /\ [Next]_vars => TypeOK'
<1> SUFFICES ASSUME TypeOK, [Next]_vars PROVE TypeOK'
  OBVIOUS
<1>0. Proposals \cap Facts = {} /\ MaxFaults \in Nat
  BY MemoryStoreAssumption
<1>1. ASSUME NEW p \in Proposals, CreateProposal(p) PROVE TypeOK'
  BY <1>1 DEF CreateProposal, Tell, TypeOK, Event, rows, history
<1>2. ASSUME NEW p \in Proposals, NEW s \in {"rejected", "expired"}, Resolve(p, s) PROVE TypeOK'
  BY <1>2 DEF Resolve, Tell, TypeOK, Event, Resolved, rows, history
<1>3. ASSUME NEW p \in Proposals, NEW t \in Targets, NEW s, Accept(p, s, t) PROVE TypeOK'
  <2>1. op' \in AcceptStep
    BY <1>3, AcceptIs
  <2> QED
    BY <1>3, <2>1 DEF Accept, TypeOK, AcceptStep, rows, history
<1>4. ASSUME NEW f \in Facts, NEW s \in Withdrawn, Withdraw(f, s) PROVE TypeOK'
  <2>1. facts[f] \in FactRow /\ facts' \in [Facts -> FactRow \cup {Absent}]
    BY <1>4, StatusIs, StatusChanges DEF Withdraw, Withdrawn
  <2>2. op' \in TellStep
    BY <1>4, <2>1 DEF Withdraw, Withdrawn, Tell, TellStep, Event, FactRow
  <2> QED
    BY <1>4, <2>1, <2>2 DEF Withdraw, TypeOK, TellStep, history
<1>5. ASSUME NEW f \in Facts, Reactivate(f) PROVE TypeOK'
  <2>1. facts[f] \in FactRow /\ facts' \in [Facts -> FactRow \cup {Absent}]
    BY <1>5, StatusIs, StatusChanges DEF Reactivate
  <2>2. op' \in TellStep
    BY <1>5, <2>1 DEF Reactivate, Tell, TellStep, Event, FactRow
  <2> QED
    BY <1>5, <2>1, <2>2 DEF Reactivate, TypeOK, TellStep
<1>6. ASSUME Note PROVE TypeOK'
  <2>1. op \in AcceptStep
    BY <1>6, OpIs DEF Note, Accepting
  <2>2. op' \in AcceptStep
    BY <1>6, <2>1 DEF Note, AcceptStep
  <2>3. audit' \in [Proposals \cup Facts -> Event \cup {NoEvent}]
    BY <1>6, <2>1 DEF Note, AcceptStep, TypeOK, Event, FactRow
  <2> QED
    BY <1>6, <2>2, <2>3 DEF Note, TypeOK, AcceptStep, rows, history
<1>7. ASSUME Accepting, WriteFact
      PROVE  /\ facts' \in [Facts -> FactRow \cup {Absent}] /\ writes' \in [Proposals -> Nat]
             /\ revived' = revived /\ kept' \subseteq Facts
  <2>1. op \in AcceptStep
    BY <1>7, OpIs
  <2> QED
    BY <1>7, <2>1 DEF WriteFact, AcceptStep, TypeOK
<1>8. ASSUME NoteFails PROVE TypeOK'
  BY <1>0, <1>7, <1>8 DEF NoteFails, Accepting, TypeOK
<1>9. ASSUME Store PROVE TypeOK'
  <2>1. op \in AcceptStep
    BY <1>9, OpIs DEF Store, Accepting
  <2>2. op' \in TellStep
    BY <1>9, <2>1 DEF Store, Tell, TellStep, AcceptStep, Event, Resolved
  <2>3. proposals' \in [Proposals -> Resolved \cup {"absent", "pending"}]
    BY <1>9, <2>1 DEF Store, AcceptStep, TypeOK, Resolved
  <2> QED
    BY <1>7, <1>9, <2>2, <2>3 DEF Store, Accepting, TypeOK, TellStep
<1>10. ASSUME Log PROVE TypeOK'
  <2>1. op \in TellStep
    BY <1>10, OpIs DEF Log
  <2> QED
    BY <1>10, <2>1 DEF Log, TypeOK, TellStep, rows, history
<1>11. ASSUME Interrupted PROVE TypeOK'
  BY <1>0, <1>11 DEF Interrupted, TypeOK, rows, history
<1>12. CASE UNCHANGED vars
  BY <1>12 DEF vars, TypeOK, rows, history
<1> QED
  BY <1>1, <1>2, <1>3, <1>4, <1>5, <1>6, <1>8, <1>9, <1>10, <1>11, <1>12
     DEF Next, ProposalRequests, FactRequests, Withdrawn

-----------------------------------------------------------------------------
(* Rows and decisions.                                                     *)

\* What the event about the fact changes.
LEMMA NoteIs ==
    ASSUME TypeOK, Note
    PROVE  /\ op \in AcceptStep /\ op.step = "note" /\ op'.step = "store"
           /\ op'.proposal = op.proposal /\ op'.fact = op.fact /\ op'.row = op.row
           /\ op'.type = op.type /\ op'.keep = op.keep
           /\ audit' = [audit EXCEPT ![op.fact] = [type |-> op.type, version |-> op.row.version]]
           /\ UNCHANGED <<sqlite, proposals, facts, writes, revived, kept, faults>>
<1>1. op \in AcceptStep /\ op.step = "note"
  BY OpIs DEF Note, Accepting
<1> QED
  BY <1>1 DEF Note, AcceptStep, rows, history

\* An operation that tells or has ended writes no fact any more.
LEMMA NotAccepting ==
    /\ op' = Idle => ~ Accepting'
    /\ op' \in TellStep => ~ Accepting'
BY DEF Accepting, Idle, TellStep

\* The steps that do not leave an operation in the middle of accepting a proposal.
LEMMA Others ==
    ASSUME TypeOK, Next
    PROVE  \/ op' \in {Idle} \cup TellStep
           \/ Note
           \/ \E p \in Proposals, t \in Targets, s \in {"overwrite_latest", "keep_both", None} : Accept(p, s, t)
<1> SUFFICES ASSUME ~ Note,
                    ~ \E p \in Proposals, t \in Targets, s \in {"overwrite_latest", "keep_both", None} : Accept(p, s, t)
             PROVE  op' \in {Idle} \cup TellStep
  OBVIOUS
<1>1. ASSUME NEW p \in Proposals, CreateProposal(p) PROVE op' \in TellStep
  BY <1>1 DEF CreateProposal, Tell, TellStep, Event
<1>2. ASSUME NEW p \in Proposals, NEW s \in {"rejected", "expired"}, Resolve(p, s) PROVE op' \in TellStep
  BY <1>2 DEF Resolve, Tell, TellStep, Event, Resolved
<1>3. ASSUME NEW f \in Facts, NEW s \in Withdrawn, Withdraw(f, s) PROVE op' \in TellStep
  BY <1>3, StatusIs DEF Withdraw, Withdrawn, Tell, TellStep, Event, FactRow
<1>4. ASSUME NEW f \in Facts, Reactivate(f) PROVE op' \in TellStep
  BY <1>4, StatusIs DEF Reactivate, Tell, TellStep, Event, FactRow
<1>5. ASSUME Store PROVE op' \in TellStep
  BY <1>5, OpIs DEF Store, Accepting, Tell, TellStep, AcceptStep, Event, Resolved
<1>6. NoteFails \/ Log \/ Interrupted => op' = Idle
  BY DEF NoteFails, Log, Interrupted
<1> QED
  BY <1>1, <1>2, <1>3, <1>4, <1>5, <1>6 DEF Next, ProposalRequests, FactRequests, Withdrawn

\* Nothing disturbs an operation between its decision and its commit.
LEMMA UndisturbedStep == TypeOK /\ Undisturbed /\ [Next]_vars => Undisturbed'
<1> SUFFICES ASSUME TypeOK, Undisturbed, [Next]_vars PROVE Undisturbed'
  OBVIOUS
<1>1. ASSUME NEW p \in Proposals, NEW t \in Targets, NEW s, Accept(p, s, t) PROVE Undisturbed'
  <2>1. proposals[p] = "pending" /\ UNCHANGED <<proposals, facts>>
    BY <1>1 DEF Accept, rows
  <2> QED
    BY <1>1, <2>1, AcceptIs DEF Undisturbed, Competes
<1>2. CASE Note
  BY <1>2, NoteIs DEF Undisturbed, Accepting, Competes
<1>3. CASE op' \in {Idle} \cup TellStep
  BY <1>3, NotAccepting DEF Undisturbed
<1>4. CASE UNCHANGED vars
  BY <1>4 DEF vars, rows, Undisturbed, Accepting, Competes
<1> QED
  BY <1>1, <1>2, <1>3, <1>4, Others

\* The commit of a fact.
LEMMA WriteIs ==
    ASSUME TypeOK, Accepting, WriteFact
    PROVE  /\ op \in AcceptStep
           /\ facts'[op.fact] = op.row /\ \A g \in Facts \ {op.fact} : facts'[g] = facts[g]
           /\ writes'[op.proposal] = writes[op.proposal] + 1
           /\ \A p \in Proposals \ {op.proposal} : writes'[p] = writes[p]
           /\ kept' = (IF op.type = "created" /\ op.keep THEN kept \cup {op.fact} ELSE kept)
           /\ revived' = revived
<1>1. op \in AcceptStep
  BY OpIs
<1> QED
  BY <1>1 DEF WriteFact, AcceptStep, TypeOK

\* Proposals and the number of their effects.
Effects == AcceptedIsWritten /\ EffectMatchesStatus

\* A proposal is written and accepted in one commit, except on the paths with a fault.
LEMMA EffectsStep == TypeOK /\ Undisturbed /\ Effects /\ [Next]_vars => Effects'
<1> SUFFICES ASSUME TypeOK, Undisturbed, Effects, [Next]_vars PROVE Effects'
  OBVIOUS
<1>0. writes \in [Proposals -> Nat] /\ faults \in Nat
  BY DEF TypeOK
<1>1. CASE UNCHANGED <<proposals, writes, sqlite, faults>>
  BY <1>1 DEF Effects, AcceptedIsWritten, EffectMatchesStatus
<1>2. ASSUME NEW p \in Proposals, NEW s \in {"pending", "rejected", "expired"},
             proposals[p] # "accepted", proposals' = [proposals EXCEPT ![p] = s],
             UNCHANGED <<writes, sqlite, faults>>
      PROVE  Effects'
  BY <1>2 DEF TypeOK, Effects, AcceptedIsWritten, EffectMatchesStatus
<1>3. CASE Store
  <2>1. Accepting /\ WriteFact /\ UNCHANGED <<sqlite, faults>>
        /\ proposals' = [proposals EXCEPT ![op.proposal] = "accepted"]
    BY <1>3 DEF Store, Accepting
  <2>2. op.proposal \in Proposals /\ proposals[op.proposal] = "pending"
    BY <2>1, WriteIs DEF AcceptStep, Undisturbed
  <2>3. /\ proposals'[op.proposal] = "accepted"
        /\ \A p \in Proposals \ {op.proposal} : proposals'[p] = proposals[p]
    BY <2>1, <2>2 DEF TypeOK
  <2> QED
    BY <1>0, <2>1, <2>2, <2>3, WriteIs DEF Effects, AcceptedIsWritten, EffectMatchesStatus
<1>4. CASE NoteFails
  <2>1. Accepting /\ WriteFact /\ UNCHANGED <<sqlite, proposals>> /\ (sqlite \/ faults' = faults + 1)
    BY <1>4 DEF NoteFails, NoteBlocked, Accepting
  <2>2. op.proposal \in Proposals
    BY <2>1, WriteIs DEF AcceptStep
  <2>3. AcceptedIsWritten'
    BY <1>0, <2>1, <2>2, WriteIs DEF Effects, AcceptedIsWritten
  <2>4. EffectMatchesStatus'
    BY <1>0, <2>1 DEF EffectMatchesStatus
  <2> QED
    BY <2>3, <2>4 DEF Effects
<1>5. CASE Interrupted
  BY <1>0, <1>5 DEF Interrupted, Effects, AcceptedIsWritten, EffectMatchesStatus, rows, history
<1>6. ASSUME NEW p \in Proposals, CreateProposal(p) PROVE Effects'
  BY <1>2, <1>6 DEF CreateProposal, history
<1>7. ASSUME NEW p \in Proposals, NEW s \in {"rejected", "expired"}, Resolve(p, s) PROVE Effects'
  BY <1>2, <1>7 DEF Resolve, history
<1>8. CASE UNCHANGED vars
  BY <1>1, <1>8 DEF vars, rows, history
<1>9. CASE \E f \in Facts : Withdraw(f, "revoked") \/ Withdraw(f, "archived") \/ Reactivate(f)
  BY <1>1, <1>9 DEF Withdraw, Reactivate, history
<1>10. ASSUME NEW p \in Proposals, NEW t \in Targets, NEW s, Accept(p, s, t) PROVE Effects'
  BY <1>1, <1>10 DEF Accept, rows, history
<1>11. CASE Note \/ Log
  BY <1>1, <1>11 DEF Note, Log, rows, history
<1> QED
  BY <1>3, <1>4, <1>5, <1>6, <1>7, <1>8, <1>9, <1>10, <1>11 DEF Next, ProposalRequests, FactRequests

\* A value is written where no other competes with it, or marked as kept beside them.
LEMMA OneActiveStep == TypeOK /\ Undisturbed /\ OneActiveValue /\ [Next]_vars => OneActiveValue'
<1> SUFFICES ASSUME TypeOK, Undisturbed, OneActiveValue, [Next]_vars PROVE OneActiveValue'
  OBVIOUS
<1>1. CASE UNCHANGED <<facts, revived, kept>>
  BY <1>1 DEF OneActiveValue, Active, SamePlace
<1>2. ASSUME NEW f \in Facts, NEW s \in Withdrawn, Withdraw(f, s) PROVE OneActiveValue'
  <2>1. UNCHANGED <<revived, kept>> /\ facts'[f].status # "active" /\ \A g \in Facts \ {f} : facts'[g] = facts[g]
    BY <1>2, StatusChanges DEF Withdraw, Withdrawn, history
  <2> QED
    BY <2>1 DEF OneActiveValue, Active, SamePlace
<1>3. ASSUME NEW f \in Facts, Reactivate(f) PROVE OneActiveValue'
  <2>1. /\ f \in revived' /\ revived \subseteq revived' /\ kept' = kept
        /\ \A g \in Facts \ {f} : facts'[g] = facts[g]
    BY <1>3, StatusChanges DEF Reactivate
  <2> QED
    BY <2>1 DEF OneActiveValue, Active, SamePlace
<1>4. CASE Accepting /\ WriteFact
  <2>1. /\ op \in AcceptStep /\ facts'[op.fact] = op.row
        /\ \A g \in Facts \ {op.fact} : facts'[g] = facts[g]
        /\ revived' = revived /\ kept \subseteq kept'
    BY <1>4, WriteIs
  <2>2. CASE op.type = "updated"
    <3>1. /\ facts[op.fact].status = "active" /\ op.row.status = "active"
          /\ op.row.key = facts[op.fact].key /\ op.row.at = facts[op.fact].at
      BY <1>4, <2>2 DEF Undisturbed
    <3>2. \A g \in Facts : /\ facts'[g].status = "active" => facts[g].status = "active"
                           /\ facts'[g].key = facts[g].key /\ facts'[g].at = facts[g].at
      BY <2>1, <3>1
    <3> QED
      BY <2>1, <3>2 DEF OneActiveValue, Active
  <2>3. CASE op.type = "created" /\ op.keep
    <3>1. op.fact \in kept'
      BY <1>4, <2>3, WriteIs
    <3> QED
      BY <2>1, <3>1 DEF OneActiveValue, Active
  <2>4. CASE op.type = "created" /\ ~op.keep
    <3>1. ~ Competes(op.row.key, op.row.at)
      BY <1>4, <2>4 DEF Undisturbed
    <3>2. \A g \in Facts \ {op.fact} :
            facts'[g].status = "active" /\ facts'[g].key = op.row.key => ~ SamePlace(op.row.at, facts'[g].at)
      BY <2>1, <3>1 DEF Competes
    <3> QED
      BY <2>1, <3>2 DEF OneActiveValue, Active
  <2> QED
    BY <2>1, <2>2, <2>3, <2>4 DEF AcceptStep
<1>5. Store \/ NoteFails => Accepting /\ WriteFact
  BY DEF Store, NoteFails, Accepting
<1>6. CASE UNCHANGED vars
  BY <1>1, <1>6 DEF vars, rows, history
<1>7. CASE \E p \in Proposals : CreateProposal(p) \/ Resolve(p, "rejected") \/ Resolve(p, "expired")
  BY <1>1, <1>7 DEF CreateProposal, Resolve, history
<1>8. ASSUME NEW p \in Proposals, NEW t \in Targets, NEW s, Accept(p, s, t) PROVE OneActiveValue'
  BY <1>1, <1>8 DEF Accept, rows, history
<1>9. CASE Note \/ Log \/ Interrupted
  BY <1>1, <1>9 DEF Note, Log, Interrupted, rows, history
<1> QED
  BY <1>2, <1>3, <1>4, <1>5, <1>6, <1>7, <1>8, <1>9 DEF Next, ProposalRequests, FactRequests, Withdrawn

-----------------------------------------------------------------------------
(* The audit.                                                              *)

\* What Audited says of a fact.
FactAudited(f) ==
    IF op.step = "store" /\ op.fact = f
    THEN audit[f] = [type |-> op.type, version |-> op.row.version]
    ELSE IF facts[f] = Absent THEN Last(f) = NoEvent
         ELSE Tells(f, Last(f)) \/ (sqlite /\ Last(f) = NoEvent)

LEMMA AuditedIs ==
    Audited <=> (faults = 0 => /\ \A p \in Proposals : Last(p).type = StatusEvent(p)
                               /\ \A f \in Facts : FactAudited(f))
BY DEF Audited, FactAudited

\* A row of which neither the fact nor the last event changes.
LEMMA SameFact ==
    ASSUME NEW f \in Facts, FactAudited(f), facts'[f] = facts[f], Last(f)' = Last(f), sqlite' = sqlite,
           ~ (op.step = "store" /\ op.fact = f), ~ (op.step = "store" /\ op.fact = f)'
    PROVE  FactAudited(f)'
BY DEF FactAudited, Tells

\* Between two operations, or before the event about the fact, it is the audit that tells.
LEMMA LastIs ==
    /\ op.step # "tell" => \A x : Last(x) = audit[x]
    /\ op'.step # "tell" => \A x : Last(x)' = audit'[x]
BY DEF Last

\* An operation of one commit tells of the row that it changed, and of no other.
LEMMA TellStepAudited ==
    ASSUME TypeOK, op = Idle, NEW x \in Proposals \cup Facts, NEW y \in Event,
           op' = [step |-> "tell", about |-> x, event |-> y], audit' = audit
    PROVE  /\ Last(x)' = y /\ \A z \in (Proposals \cup Facts) \ {x} : Last(z)' = Last(z)
           /\ op.step # "store" /\ op'.step # "store"
BY TellIs, OpIs DEF Last

\* Every step keeps the audit as close to the rows.
LEMMA AuditedStep == TypeOK /\ Undisturbed /\ Audited /\ [Next]_vars => Audited'
<1> SUFFICES ASSUME TypeOK, Undisturbed, Audited, [Next]_vars, faults' = 0 PROVE Audited'
  BY DEF Audited
<1>0. /\ Proposals \cap Facts = {} /\ faults \in Nat
      /\ audit \in [Proposals \cup Facts -> Event \cup {NoEvent}]
      /\ proposals \in [Proposals -> Resolved \cup {"absent", "pending"}]
  BY MemoryStoreAssumption DEF TypeOK
<1>1. SUFFICES ASSUME faults = 0, \A p \in Proposals : Last(p).type = StatusEvent(p),
                      \A f \in Facts : FactAudited(f)
               PROVE  /\ \A p \in Proposals : Last(p)'.type = StatusEvent(p)'
                      /\ \A f \in Facts : FactAudited(f)'
  <2>1. CASE UNCHANGED faults
    BY <1>1, <2>1, AuditedIs DEF Audited, FactAudited
  <2>2. CASE ~ UNCHANGED faults
    <3>1. faults' = faults + 1
      BY <2>2 DEF Next, ProposalRequests, FactRequests, CreateProposal, Resolve, Accept, Withdraw,
                  Reactivate, Note, NoteFails, Store, Log, Interrupted, vars, history, rows
    <3> QED
      BY <1>0, <3>1
  <2> QED
    BY <2>1, <2>2
<1>2. ASSUME NEW p \in Proposals, NEW s \in {"pending", "rejected", "expired"}, NEW y \in Event,
             op = Idle, proposals' = [proposals EXCEPT ![p] = s], UNCHANGED <<sqlite, facts, audit>>,
             op' = [step |-> "tell", about |-> p, event |-> y],
             y.type = (IF s = "pending" THEN "created" ELSE s)
      PROVE  /\ \A q \in Proposals : Last(q)'.type = StatusEvent(q)'
             /\ \A f \in Facts : FactAudited(f)'
  <2>1. /\ Last(p)' = y /\ \A z \in (Proposals \cup Facts) \ {p} : Last(z)' = Last(z)
        /\ op.step # "store" /\ op'.step # "store"
    BY <1>2, TellStepAudited
  <2>2. StatusEvent(p)' = y.type
    BY <1>0, <1>2 DEF StatusEvent
  <2>3. \A q \in Proposals \ {p} : StatusEvent(q)' = StatusEvent(q)
    BY <1>0, <1>2 DEF StatusEvent
  <2>4. \A q \in Proposals : Last(q)'.type = StatusEvent(q)'
    BY <1>1, <2>1, <2>2, <2>3
  <2>5. ASSUME NEW f \in Facts PROVE FactAudited(f)'
    <3>1. Last(f)' = Last(f)
      BY <1>0, <2>1
    <3> QED
      BY <1>1, <1>2, <2>1, <3>1, SameFact
  <2> QED
    BY <2>4, <2>5
<1>3. ASSUME NEW f \in Facts, NEW s \in {"active", "revoked", "archived"},
             facts[f].status # "absent", facts' = [facts EXCEPT ![f].status = s],
             op = Idle, UNCHANGED <<sqlite, proposals, audit>>,
             op' = [step |-> "tell", about |-> f,
                    event |-> [type |-> IF s = "active" THEN "reactivated" ELSE s,
                               version |-> facts[f].version]]
      PROVE  /\ \A q \in Proposals : Last(q)'.type = StatusEvent(q)'
             /\ \A g \in Facts : FactAudited(g)'
  <2> DEFINE y == [type |-> IF s = "active" THEN "reactivated" ELSE s, version |-> facts[f].version]
  <2>0. facts[f] \in FactRow
    BY <1>3, StatusIs
  <2>1. y \in Event /\ y.type = (IF s = "active" THEN "reactivated" ELSE s) /\ y.version = facts[f].version
    BY <2>0 DEF Event, FactRow
  <2>2. op' = [step |-> "tell", about |-> f, event |-> y]
    BY <1>3
  <2> HIDE DEF y
  <2>3. /\ Last(f)' = y /\ \A z \in (Proposals \cup Facts) \ {f} : Last(z)' = Last(z)
        /\ op.step # "store" /\ op'.step # "store"
    BY <1>3, <2>1, <2>2, TellStepAudited
  <2>4. /\ facts'[f].status = s /\ facts'[f].version = facts[f].version /\ facts'[f] # Absent
        /\ \A g \in Facts \ {f} : facts'[g] = facts[g]
    BY <1>3, StatusChanges
  <2>5. \A q \in Proposals : Last(q)'.type = StatusEvent(q)'
    BY <1>0, <1>1, <1>3, <2>3 DEF StatusEvent
  <2>6. FactAudited(f)'
    BY <2>1, <2>3, <2>4 DEF FactAudited, Tells
  <2>7. ASSUME NEW g \in Facts \ {f} PROVE FactAudited(g)'
    BY <1>1, <1>3, <2>3, <2>4, SameFact
  <2> QED
    BY <2>5, <2>6, <2>7
<1>4. ASSUME NEW p \in Proposals, CreateProposal(p)
      PROVE  (\A q \in Proposals : Last(q)'.type = StatusEvent(q)') /\ \A f \in Facts : FactAudited(f)'
  <2> DEFINE y == [type |-> "created", version |-> 0]
  <2>1. y \in Event /\ y.type = "created"
    BY DEF Event
  <2>2. op' = [step |-> "tell", about |-> p, event |-> y]
    BY <1>4 DEF CreateProposal, Tell
  <2> HIDE DEF y
  <2> QED
    BY <1>2, <1>4, <2>1, <2>2 DEF CreateProposal
<1>5. ASSUME NEW p \in Proposals, NEW s \in {"rejected", "expired"}, Resolve(p, s)
      PROVE  (\A q \in Proposals : Last(q)'.type = StatusEvent(q)') /\ \A f \in Facts : FactAudited(f)'
  <2> DEFINE y == [type |-> s, version |-> 0]
  <2>1. y \in Event /\ y.type = s
    BY DEF Event, Resolved
  <2>2. op' = [step |-> "tell", about |-> p, event |-> y]
    BY <1>5 DEF Resolve, Tell
  <2> HIDE DEF y
  <2> QED
    BY <1>2, <1>5, <2>1, <2>2 DEF Resolve
<1>6. ASSUME NEW f \in Facts, NEW s \in Withdrawn, Withdraw(f, s)
      PROVE  (\A q \in Proposals : Last(q)'.type = StatusEvent(q)') /\ \A g \in Facts : FactAudited(g)'
  BY <1>3, <1>6 DEF Withdraw, Withdrawn, Tell
<1>7. ASSUME NEW f \in Facts, Reactivate(f)
      PROVE  (\A q \in Proposals : Last(q)'.type = StatusEvent(q)') /\ \A g \in Facts : FactAudited(g)'
  BY <1>3, <1>7 DEF Reactivate, Tell
<1>8. ASSUME op.step # "tell", op'.step # "tell", op.step # "store", op'.step # "store",
             UNCHANGED <<sqlite, proposals, facts, audit>>
      PROVE  (\A q \in Proposals : Last(q)'.type = StatusEvent(q)') /\ \A g \in Facts : FactAudited(g)'
  BY <1>1, <1>8, LastIs DEF StatusEvent, FactAudited, Tells
<1>9. ASSUME NEW p \in Proposals, NEW t \in Targets, NEW s, Accept(p, s, t)
      PROVE  (\A q \in Proposals : Last(q)'.type = StatusEvent(q)') /\ \A g \in Facts : FactAudited(g)'
  <2>1. op.step = "idle" /\ op'.step = "note" /\ UNCHANGED <<sqlite, proposals, facts, audit>>
    BY <1>9, OpIs, AcceptIs DEF Accept, rows
  <2> QED
    BY <1>8, <2>1
<1>10. CASE Note
  <2>1. PICK h \in Facts : h = op.fact
    BY <1>10, NoteIs DEF AcceptStep
  <2>2. /\ op.step = "note" /\ op'.step = "store" /\ op'.fact = h
        /\ audit' = [audit EXCEPT ![h] = [type |-> op.type, version |-> op.row.version]]
        /\ op'.type = op.type /\ op'.row = op.row /\ UNCHANGED <<sqlite, proposals, facts>>
    BY <1>10, <2>1, NoteIs
  <2>3. \A x \in (Proposals \cup Facts) \ {h} : Last(x)' = Last(x)
    BY <1>0, <2>2, LastIs
  <2>4. \A q \in Proposals : Last(q)'.type = StatusEvent(q)'
    BY <1>0, <1>1, <2>2, <2>3 DEF StatusEvent
  <2>5. FactAudited(h)'
    BY <1>0, <2>2 DEF FactAudited
  <2>6. ASSUME NEW g \in Facts, g # h PROVE FactAudited(g)'
    BY <1>1, <2>2, <2>3, <2>6, SameFact
  <2> QED
    BY <2>4, <2>5, <2>6
<1>11. CASE NoteFails
  <2>1. /\ Accepting /\ WriteFact /\ op.step = "note" /\ op'.step = "idle" /\ sqlite /\ op.type = "created"
        /\ UNCHANGED <<sqlite, proposals, audit>>
    BY <1>0, <1>1, <1>11 DEF NoteFails, NoteBlocked, Accepting, Idle
  <2>2. PICK h \in Facts : h = op.fact
    BY <2>1, WriteIs DEF AcceptStep
  <2>3. facts[h] = Absent /\ facts'[h] # Absent /\ \A g \in Facts \ {h} : facts'[g] = facts[g]
    BY <2>1, <2>2, WriteIs DEF AcceptStep, Undisturbed, FactRow, Absent
  <2>4. \A x \in Proposals \cup Facts : Last(x)' = Last(x)
    BY <2>1, LastIs
  <2>5. \A q \in Proposals : Last(q)'.type = StatusEvent(q)'
    BY <1>1, <2>1, <2>4 DEF StatusEvent
  <2>6. FactAudited(h)'
    BY <1>1, <2>1, <2>3, <2>4 DEF FactAudited
  <2>7. ASSUME NEW g \in Facts, g # h PROVE FactAudited(g)'
    BY <1>1, <2>1, <2>3, <2>4, <2>7, SameFact
  <2> QED
    BY <2>5, <2>6, <2>7
<1>12. CASE Store
  <2> DEFINE y == [type |-> "accepted", version |-> 0]
  <2>1. Accepting /\ WriteFact /\ op.step = "store" /\ UNCHANGED <<sqlite, audit>>
    BY <1>12 DEF Store, Accepting
  <2>2. PICK h \in Facts, p \in Proposals : h = op.fact /\ p = op.proposal
    BY <2>1, WriteIs DEF AcceptStep
  <2>3. /\ op.row \in FactRow /\ op.type \in {"created", "updated"} /\ op.row.status = "active"
        /\ facts'[h] = op.row /\ \A g \in Facts \ {h} : facts'[g] = facts[g]
    BY <2>1, <2>2, WriteIs DEF AcceptStep, Undisturbed
  <2>4. proposals' = [proposals EXCEPT ![p] = "accepted"] /\ op' = [step |-> "tell", about |-> p, event |-> y]
    BY <1>12, <2>2 DEF Store, Tell
  <2>5. y \in Event /\ y.type = "accepted"
    BY DEF Event, Resolved
  <2> HIDE DEF y
  <2>6. op'.step = "tell" /\ op'.about = p /\ op'.event = y
    BY <2>4, <2>5, TellIs
  <2>7. Last(p)' = y /\ \A x \in (Proposals \cup Facts) \ {p} : Last(x)' = Last(x)
    BY <2>1, <2>6 DEF Last
  <2>8. ASSUME NEW q \in Proposals PROVE Last(q)'.type = StatusEvent(q)'
    <3>1. CASE q = p
      BY <1>0, <2>4, <2>5, <2>7, <3>1 DEF StatusEvent
    <3>2. CASE q # p
      BY <1>0, <1>1, <2>4, <2>7, <3>2 DEF StatusEvent
    <3> QED
      BY <3>1, <3>2
  <2>9. FactAudited(h)'
    <3>1. Last(h)' = [type |-> op.type, version |-> op.row.version]
      BY <1>0, <1>1, <2>1, <2>2, <2>7, LastIs DEF FactAudited
    <3>2. Tells(h, Last(h))'
      BY <2>3, <3>1 DEF Tells
    <3>3. facts'[h] # Absent
      BY <2>3 DEF FactRow, Absent
    <3> QED
      BY <2>6, <3>2, <3>3 DEF FactAudited
  <2>10. ASSUME NEW g \in Facts, g # h PROVE FactAudited(g)'
    <3>1. Last(g)' = Last(g)
      BY <1>0, <2>7
    <3> QED
      BY <1>1, <2>1, <2>2, <2>3, <2>6, <2>10, <3>1, SameFact
  <2> QED
    BY <2>8, <2>9, <2>10
<1>13. CASE Log
  <2>1. /\ op.step = "tell" /\ op'.step = "idle" /\ op.about \in Proposals \cup Facts
        /\ audit' = [audit EXCEPT ![op.about] = op.event] /\ UNCHANGED <<sqlite, proposals, facts>>
    BY <1>13, OpIs DEF Log, TellStep, Idle, rows
  <2>2. \A x \in Proposals \cup Facts : Last(x)' = Last(x)
    BY <1>0, <2>1 DEF Last
  <2> QED
    BY <1>1, <2>1, <2>2, SameFact DEF StatusEvent
<1>14. CASE Interrupted
  BY <1>0, <1>1, <1>14 DEF Interrupted
<1>15. CASE UNCHANGED vars
  BY <1>1, <1>15 DEF vars, rows, Last, StatusEvent, FactAudited, Tells
<1> QED
  BY <1>4, <1>5, <1>6, <1>7, <1>9, <1>10, <1>11, <1>12, <1>13, <1>14, <1>15
     DEF Next, ProposalRequests, FactRequests, Withdrawn

-----------------------------------------------------------------------------
(* What follows.                                                           *)

\* The invariant holds at the start.
LEMMA InitInv == Init => IInv
<1> SUFFICES ASSUME Init PROVE IInv
  OBVIOUS
<1> USE DEF Init
<1>1. TypeOK
  BY MemoryStoreAssumption DEF TypeOK
<1>2. Undisturbed
  BY DEF Undisturbed, Accepting, Idle
<1>3. AcceptedIsWritten /\ EffectMatchesStatus
  BY DEF AcceptedIsWritten, EffectMatchesStatus
<1>4. OneActiveValue
  BY DEF OneActiveValue, Active, Absent
<1>5. Audited
  BY DEF Audited, Last, StatusEvent, Idle, NoEvent, Absent
<1> QED
  BY <1>1, <1>2, <1>3, <1>4, <1>5 DEF IInv

\* The invariant of proposals, facts and audit.
THEOREM Inductive == Spec => []IInv
<1>1. IInv /\ [Next]_vars => IInv'
  BY TypeStep, UndisturbedStep, EffectsStep, OneActiveStep, AuditedStep DEF IInv, Effects
<1> QED
  BY <1>1, InitInv, PTL DEF Spec

\* A proposal counts as accepted only after its value was written to a fact; where the
\* database admits two connections and no commit fails, the value is written once, and never
\* for another proposal (facts.py accept_proposal).
THEOREM ProposalsFit == Spec => []ProposalsFitFacts
<1>1. IInv => ProposalsFitFacts
  BY DEF IInv, ProposalsFitFacts
<1> QED
  BY <1>1, Inductive, PTL

\* A key that is overwritten has one active value in a place (facts.py accept_proposal).
THEOREM OneValue == Spec => []OneActiveValue
<1>1. IInv => OneActiveValue
  BY DEF IInv
<1> QED
  BY <1>1, Inductive, PTL

\* Between operations the audit tells the state of every row, unless a commit failed
\* (audit.py).
THEOREM AuditComplete == Spec => []AuditAgrees
<1>1. IInv => AuditAgrees
  <2> SUFFICES ASSUME IInv, op = Idle, faults = 0
               PROVE  /\ \A p \in Proposals : audit[p].type = StatusEvent(p)
                      /\ \A f \in Present : Tells(f, audit[f]) \/ (sqlite /\ audit[f] = NoEvent)
    BY DEF AuditAgrees, StatusEvent
  <2>1. op.step # "tell" /\ op.step # "store"
    BY DEF Idle
  <2> QED
    BY <2>1, LastIs DEF IInv, Audited, Present
<1> QED
  BY <1>1, Inductive, PTL

\* Accepting overwrites active facts only (facts.py accept_proposal).
THEOREM WithdrawnKept == Spec => WithdrawnIsKept
<1>1. IInv /\ [Next]_vars =>
        [\A f \in Facts : facts[f].status \in {"revoked", "archived"}
           => facts'[f] \in {facts[f], [facts[f] EXCEPT !.status = "active"]}]_vars
  <2> SUFFICES ASSUME IInv, Next, NEW f \in Facts, facts[f].status \in {"revoked", "archived"}
               PROVE  facts'[f] \in {facts[f], [facts[f] EXCEPT !.status = "active"]}
    OBVIOUS
  <2>0. TypeOK /\ Undisturbed
    BY DEF IInv
  <2>1. CASE UNCHANGED facts
    BY <2>1
  <2>2. CASE Store \/ NoteFails
    <3>1. Accepting /\ WriteFact
      BY <2>2 DEF Store, NoteFails, Accepting
    <3>2. op.fact # f
      BY <2>0, <3>1, WriteIs DEF Undisturbed, AcceptStep, Absent
    <3> QED
      BY <2>0, <3>1, <3>2, WriteIs
  <2>3. ASSUME NEW g \in Facts, NEW s \in Withdrawn, Withdraw(g, s)
        PROVE  facts'[f] = facts[f]
    BY <2>0, <2>3, StatusChanges DEF Withdraw, Withdrawn
  <2>4. ASSUME NEW g \in Facts, Reactivate(g)
        PROVE  facts'[f] \in {facts[f], [facts[f] EXCEPT !.status = "active"]}
    BY <2>0, <2>4 DEF Reactivate, TypeOK
  <2> QED
    BY <2>1, <2>2, <2>3, <2>4
       DEF Next, ProposalRequests, FactRequests, Withdrawn, CreateProposal, Resolve, Accept, Note, Log,
           Interrupted, rows
<1> QED
  BY <1>1, Inductive, PTL DEF Spec, WithdrawnIsKept
=============================================================================
