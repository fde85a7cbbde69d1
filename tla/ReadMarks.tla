------------------------------ MODULE ReadMarks ------------------------------
(***************************************************************************)
(* Whether a conversation of core-api is shown as unread.  No flag is      *)
(* stored: has_unread compares three time-stamps of its row               *)
(* (run_messages.py, _compute_has_unread), one of which, updated_at, moves *)
(* by itself on every UPDATE that does not name it (db.py, onupdate).      *)
(*                                                                         *)
(* One conversation.  The handlers of core-api follow one another on the   *)
(* event loop, as in Conversations, but the clock goes on while they run,  *)
(* and by ticks: several steps may read the same time.                     *)
(***************************************************************************)
EXTENDS Integers

CONSTANTS
    Ms,         \* ticks of the clock in a millisecond
    MaxClock    \* ticks until the end

ASSUME ReadMarksAssumption == Ms \in Nat \ {0} /\ MaxClock \in Nat

VARIABLES
    clock,
    created_at, updated_at, last_read_at,
    doing,      \* the handler under way, and the time it has computed
    changed,    \* history: the time the last message, announcement or title carries
    opened      \* history: when mark-read last stored its result

readVars == <<clock, created_at, updated_at, last_read_at, doing, changed, opened>>

Never == -1
NoHandler == [at |-> "idle", time |-> 0]
Later(s, t) == IF s > t THEN s ELSE t

ReadInit ==
    /\ clock = 0
    /\ created_at = Never /\ updated_at = Never /\ last_read_at = Never
    /\ doing = NoHandler
    /\ changed = Never /\ opened = Never

\* Before the first time it is read, a conversation counts from its creation.
Unread == updated_at > IF last_read_at = Never THEN created_at ELSE last_read_at

Tick ==
    /\ clock < MaxClock
    /\ clock' = clock + 1
    /\ UNCHANGED <<created_at, updated_at, last_read_at, doing, changed, opened>>

-----------------------------------------------------------------------------
(* The conversation is created and added to.                               *)

MadeByUser ==
    /\ created_at = Never
    /\ created_at' = clock /\ updated_at' = clock
    /\ UNCHANGED <<clock, last_read_at, doing, changed, opened>>

\* An announcement of a run without a conversation is stamped a millisecond ahead.
MadeByRun ==
    /\ created_at = Never
    /\ created_at' = clock
    /\ updated_at' = clock + Ms /\ changed' = clock + Ms
    /\ UNCHANGED <<clock, last_read_at, doing, opened>>

\* A message, the announcement of a run, or another title: the handler takes the
\* time, and stores it with a later commit.
BeginWrite ==
    /\ created_at # Never /\ doing = NoHandler
    /\ doing' = [at |-> "write", time |-> clock]
    /\ UNCHANGED <<clock, created_at, updated_at, last_read_at, changed, opened>>

CommitWrite ==
    /\ doing.at = "write"
    /\ updated_at' = doing.time /\ changed' = doing.time
    /\ doing' = NoHandler
    /\ UNCHANGED <<clock, created_at, last_read_at, opened>>

-----------------------------------------------------------------------------
(* _mark_conversation_read.                                                *)

\* A slip: last_read_at never goes back.
ReadUntilOnwards(now) == Later(Later(now, updated_at), last_read_at) + Ms

ReadUntil(now) == Later(now, updated_at) + Ms

BeginRead ==
    /\ created_at # Never /\ doing = NoHandler
    /\ doing' = [at |-> "read", time |-> ReadUntil(clock)]
    /\ UNCHANGED <<clock, created_at, updated_at, last_read_at, changed, opened>>

\* The UPDATE that stores last_read_at moves updated_at to the time it is executed.
Marked(time) ==
    /\ last_read_at' = time
    /\ updated_at' = clock /\ opened' = clock
    /\ UNCHANGED <<clock, created_at, changed>>

\* If updated_at has caught up, last_read_at is put a millisecond beyond it ...
StoreRead ==
    /\ doing.at = "read"
    /\ Marked(doing.time)
    /\ doing' = IF doing.time <= clock THEN [at |-> "again", time |-> clock + Ms] ELSE NoHandler

\* ... by an UPDATE that moves updated_at once more, and nobody compares again.
StoreAgain ==
    /\ doing.at = "again"
    /\ Marked(doing.time)
    /\ doing' = NoHandler

\* The commit fails, or core-api dies before it.
NotStored ==
    /\ doing # NoHandler
    /\ doing' = NoHandler
    /\ UNCHANGED <<clock, created_at, updated_at, last_read_at, changed, opened>>

ReadNext ==
    \/ Tick \/ MadeByUser \/ MadeByRun \/ BeginWrite \/ CommitWrite
    \/ BeginRead \/ StoreRead \/ StoreAgain \/ NotStored

ReadSpec == ReadInit /\ [][ReadNext]_readVars

-----------------------------------------------------------------------------
(* Properties.                                                             *)

ReadTypeOK ==
    /\ clock \in 0..MaxClock
    /\ {created_at, updated_at, last_read_at, changed, opened} \subseteq Nat \cup {Never}
    /\ doing \in [at : {"idle", "write", "read", "again"}, time : Nat]

\* What came after a conversation was created, or more than two milliseconds after it
\* was last opened, is shown as unread, however reading and writing follow one another
\* and however often a conversation is opened: last_read_at runs ahead of the clock, but
\* never further (conversations.py:249, 270; run_messages.py:126-155).
NewsIsUnread ==
    LET seen == IF last_read_at = Never THEN created_at ELSE opened + 2 * Ms
    IN  ReadTypeOK /\ (changed > seen => Unread)
=============================================================================
