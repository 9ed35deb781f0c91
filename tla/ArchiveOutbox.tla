--------------------------- MODULE ArchiveOutbox ---------------------------
(***************************************************************************)
(* The durable outbox of archive_sync.py: an SQLite table that holds every *)
(* source record until the archive service has taken it over.              *)
(*                                                                         *)
(* Several threads and processes use the same file.  Writers run enqueue   *)
(* (the tool calls on the event loop, the synchronizer's worker thread,    *)
(* the operator's scripts); drainers run drain (the synchronizer and the   *)
(* operator's sync command).  A statement that writes takes SQLite's write *)
(* lock and keeps it until the connection commits or rolls back; readers   *)
(* see only committed rows and what their own connection wrote.            *)
(*                                                                         *)
(* A record stands for its identity, the SHA-256 of its canonical JSON.    *)
(***************************************************************************)
EXTENDS Naturals, Sequences, FiniteSets, Functions

CONSTANTS
    Record,     \* the identities of source records
    Writer,     \* the callers of enqueue
    Drainer,    \* the callers of drain
    Key,        \* the encryption keys an operator may configure
    BatchSize,  \* drain's batch_size
    MaxList,    \* bound: the longest list one enqueue is given
    Free        \* the write lock when nobody holds it

ASSUME ConstantsAssumption ==
    /\ IsFiniteSet(Record)
    /\ BatchSize \in Nat \ {0}
    /\ MaxList \in Nat
    /\ Free \notin Writer

VARIABLES
    rows,       \* committed rows of archive_outbox in rowid order
    seals,      \* the key each row was sealed with, row by row
    acked,      \* the records whose row has acknowledged = 1
    lock,       \* the connection that holds SQLite's write lock
    key,        \* the key the running processes were configured with
    wpc,        \* where each writer is in enqueue
    items,      \* the list it was given
    next,       \* the index of the item it works on
    staged,     \* the rows it inserted, committed once it is at "return"
    added,      \* its running sum of rowcount
    dpc,        \* where each drainer is in drain
    batch,      \* the records it read and decrypted
    accepted,   \* the records the archive service has taken over
    limbo,      \* records sent in a request that was never answered
    \* history, for the properties
    reported,   \* the sum of the counts returned by enqueue
    uncounted,  \* the rows of calls that have not returned, or never will
    target      \* how many rows there were when its drain started, 0 if it failed

table == <<rows, seals, acked>>
counts == <<reported, uncounted>>
writers == <<wpc, items, next, staged, added, counts>>
drainers == <<dpc, batch, target>>
service == <<accepted, limbo>>
vars == <<table, lock, key, writers, drainers, service>>

----------------------------------------------------------------------------
(* Operators on the table *)

Lists == UNION {[1..n -> Record] : n \in 0..MaxList}

\* A slip: one connection for all threads, which then see each other's
\* uncommitted rows.
SharedConnection(w) == Range(rows) \cup UNION {Range(staged[v]) : v \in Writer}

\* What a SELECT on the writer's own connection finds.
Visible(w) == Range(rows) \cup Range(staged[w])

PendingRows == {i \in DOMAIN rows : rows[i] \notin acked}

\* A slip: ORDER BY rowid DESC.
NewestPending ==
    {i \in PendingRows : Cardinality({j \in PendingRows : j > i}) < BatchSize}

\* A slip: no LIMIT, so that every pending row is read and decrypted.
AllPending == PendingRows

\* WHERE acknowledged=0 ORDER BY rowid LIMIT batch_size
OldestPending ==
    {i \in PendingRows : Cardinality({j \in PendingRows : j < i}) < BatchSize}

----------------------------------------------------------------------------
Init ==
    /\ rows = <<>> /\ seals = <<>> /\ acked = {}
    /\ lock = Free
    /\ key \in Key
    /\ wpc = [w \in Writer |-> "idle"]
    /\ items = [w \in Writer |-> <<>>]
    /\ next = [w \in Writer |-> 1]
    /\ staged = [w \in Writer |-> <<>>]
    /\ added = [w \in Writer |-> 0]
    /\ dpc = [d \in Drainer |-> "idle"]
    /\ batch = [d \in Drainer |-> {}]
    /\ accepted = {} /\ limbo = {}
    /\ reported = 0 /\ uncounted = {}
    /\ target = [d \in Drainer |-> 0]

----------------------------------------------------------------------------
(* enqueue *)

BeginEnqueue(w) ==
    /\ wpc[w] = "idle"
    /\ \E list \in Lists : items' = [items EXCEPT ![w] = list]
    /\ wpc' = [wpc EXCEPT ![w] = "select"]
    /\ UNCHANGED <<table, lock, key, next, staged, added, counts, drainers,
                   service>>

\* The SELECT finds the identity: continue with the next item.
SkipKnown(w) ==
    /\ wpc[w] = "select"
    /\ next[w] =< Len(items[w])
    /\ items[w][next[w]] \in Visible(w)
    /\ next' = [next EXCEPT ![w] = @ + 1]
    /\ UNCHANGED <<table, lock, key, wpc, items, staged, added, counts,
                   drainers, service>>

\* The SELECT finds nothing: seal the item and go on to the INSERT.
FindMissing(w) ==
    /\ wpc[w] = "select"
    /\ next[w] =< Len(items[w])
    /\ items[w][next[w]] \notin Visible(w)
    /\ wpc' = [wpc EXCEPT ![w] = "insert"]
    /\ UNCHANGED <<table, lock, key, items, next, staged, added, counts,
                   drainers, service>>

\* A slip: INSERT without OR IGNORE on a table without the PRIMARY KEY.
InsertAnyway(w) ==
    /\ wpc[w] = "insert"
    /\ lock \in {Free, w}
    /\ lock' = w
    /\ staged' = [staged EXCEPT ![w] = Append(@, items[w][next[w]])]
    /\ added' = [added EXCEPT ![w] = @ + 1]
    /\ next' = [next EXCEPT ![w] = @ + 1]
    /\ wpc' = [wpc EXCEPT ![w] = "select"]
    /\ UNCHANGED <<table, key, items, counts, drainers, service>>

\* A slip: count every INSERT instead of adding its rowcount.
InsertCounted(w) ==
    /\ wpc[w] = "insert"
    /\ lock \in {Free, w}
    /\ lock' = w
    /\ staged' = IF items[w][next[w]] \in Visible(w)
                 THEN staged
                 ELSE [staged EXCEPT ![w] = Append(@, items[w][next[w]])]
    /\ added' = [added EXCEPT ![w] = @ + 1]
    /\ next' = [next EXCEPT ![w] = @ + 1]
    /\ wpc' = [wpc EXCEPT ![w] = "select"]
    /\ UNCHANGED <<table, key, items, counts, drainers, service>>

\* INSERT OR IGNORE waits for the write lock and adds its rowcount, which is
\* 0 when another connection committed the same identity since the SELECT.
InsertRow(w) ==
    LET r == items[w][next[w]] IN
    /\ wpc[w] = "insert"
    /\ lock \in {Free, w}
    /\ lock' = w
    /\ \/ /\ r \in Visible(w)
          /\ UNCHANGED <<staged, added>>
       \/ /\ r \notin Visible(w)
          /\ staged' = [staged EXCEPT ![w] = Append(@, r)]
          /\ added' = [added EXCEPT ![w] = @ + 1]
    /\ next' = [next EXCEPT ![w] = @ + 1]
    /\ wpc' = [wpc EXCEPT ![w] = "select"]
    /\ UNCHANGED <<table, key, items, counts, drainers, service>>

\* A slip: the index outlives the call.
LeaveKeepingIndex(w) ==
    /\ wpc' = [wpc EXCEPT ![w] = "idle"]
    /\ items' = [items EXCEPT ![w] = <<>>]
    /\ UNCHANGED next
    /\ staged' = [staged EXCEPT ![w] = <<>>]
    /\ added' = [added EXCEPT ![w] = 0]
    /\ lock' = IF lock = w THEN Free ELSE lock

\* The writer's call is over and its connection is gone.
Leave(w) ==
    /\ wpc' = [wpc EXCEPT ![w] = "idle"]
    /\ items' = [items EXCEPT ![w] = <<>>]
    /\ next' = [next EXCEPT ![w] = 1]
    /\ staged' = [staged EXCEPT ![w] = <<>>]
    /\ added' = [added EXCEPT ![w] = 0]
    /\ lock' = IF lock = w THEN Free ELSE lock

\* Leaving the with block commits what was inserted and gives up the lock.
Commit(w) ==
    /\ wpc[w] = "select"
    /\ next[w] = Len(items[w]) + 1
    /\ rows' = rows \o staged[w]
    /\ seals' = seals \o [i \in DOMAIN staged[w] |-> key]
    /\ lock' = IF lock = w THEN Free ELSE lock
    /\ wpc' = [wpc EXCEPT ![w] = "return"]
    /\ uncounted' = uncounted \cup Range(staged[w])
    /\ UNCHANGED <<acked, key, items, next, staged, added, reported, drainers,
                   service>>

\* The caller receives the count of the rows that were committed.
Return(w) ==
    /\ wpc[w] = "return"
    /\ reported' = reported + added[w]
    /\ uncounted' = uncounted \ Range(staged[w])
    /\ Leave(w)
    /\ UNCHANGED <<table, key, drainers, service>>

\* An exception in the with block (an item that is not JSON, 30 s without the
\* lock, a full disk): SQLite rolls back.  The process may also end anywhere,
\* after the commit too, and then the rows stay and no caller gets their count.
AbortEnqueue(w) ==
    /\ wpc[w] # "idle"
    /\ Leave(w)
    /\ UNCHANGED <<table, key, counts, drainers, service>>

----------------------------------------------------------------------------
(* drain *)

\* The drainer's call is over.
LeaveDrain(d) ==
    /\ dpc' = [dpc EXCEPT ![d] = "idle"]
    /\ batch' = [batch EXCEPT ![d] = {}]

FailDrain(d) == LeaveDrain(d) /\ target' = [target EXCEPT ![d] = 0]

StartDrain(d) ==
    /\ dpc[d] = "idle"
    /\ dpc' = [dpc EXCEPT ![d] = "read"]
    /\ target' = [target EXCEPT ![d] = Len(rows)]
    /\ UNCHANGED <<table, lock, key, writers, batch, service>>

\* A slip: take a batch that is not full for the end of the table.
DrainShort(d) ==
    /\ dpc[d] = "read"
    /\ Cardinality(PendingRows) < BatchSize
    /\ LeaveDrain(d)
    /\ UNCHANGED <<table, lock, key, writers, target, service>>

\* No row is pending: the drain returns and reports 0.
DrainEmpty(d) ==
    /\ dpc[d] = "read"
    /\ PendingRows = {}
    /\ LeaveDrain(d)
    /\ UNCHANGED <<table, lock, key, writers, target, service>>

\* The batch is read in one SELECT and decrypted before anything is sent.
ReadBatch(d) ==
    /\ dpc[d] = "read"
    /\ PendingRows # {}
    /\ \A i \in OldestPending : seals[i] = key
    /\ batch' = [batch EXCEPT ![d] = {rows[i] : i \in OldestPending}]
    /\ dpc' = [dpc EXCEPT ![d] = "sending"]
    /\ UNCHANGED <<table, lock, key, writers, target, service>>

\* One row of the batch was sealed with another key: decrypt raises.
ReadUnreadable(d) ==
    /\ dpc[d] = "read"
    /\ \E i \in OldestPending : seals[i] # key
    /\ FailDrain(d)
    /\ UNCHANGED <<table, lock, key, writers, service>>

\* A slip: go on to the UPDATE although the service did not answer.
IngestIgnoringErrors(d) ==
    /\ dpc[d] = "sending"
    /\ dpc' = [dpc EXCEPT ![d] = "acking"]
    /\ limbo' = limbo \cup (batch[d] \ accepted)
    /\ UNCHANGED <<table, lock, key, writers, batch, target, accepted>>

IngestAccepted(d) ==
    /\ dpc[d] = "sending"
    /\ accepted' = accepted \cup batch[d]
    /\ dpc' = [dpc EXCEPT ![d] = "acking"]
    /\ UNCHANGED <<table, lock, key, writers, batch, target, limbo>>

\* ArchiveUnavailable: the request or its answer was lost.
IngestUnavailable(d) ==
    /\ dpc[d] = "sending"
    /\ limbo' = limbo \cup (batch[d] \ accepted)
    /\ FailDrain(d)
    /\ UNCHANGED <<table, lock, key, writers, accepted>>

\* Any other exception, a cancelled task or the end of the process.  A request
\* that was under way is left unanswered.
AbortDrain(d) ==
    /\ dpc[d] # "idle"
    /\ limbo' = IF dpc[d] = "sending" THEN limbo \cup (batch[d] \ accepted)
                ELSE limbo
    /\ FailDrain(d)
    /\ UNCHANGED <<table, lock, key, writers, accepted>>

\* A slip: acknowledge whatever is pending by now.
AcknowledgeAll(d) ==
    /\ dpc[d] = "acking"
    /\ lock = Free
    /\ acked' = Range(rows)
    /\ batch' = [batch EXCEPT ![d] = {}]
    /\ dpc' = [dpc EXCEPT ![d] = "read"]
    /\ UNCHANGED <<rows, seals, lock, key, writers, target, service>>

\* A slip: the connection is given up without a commit.
AcknowledgeUncommitted(d) ==
    /\ dpc[d] = "acking"
    /\ lock = Free
    /\ UNCHANGED acked
    /\ batch' = [batch EXCEPT ![d] = {}]
    /\ dpc' = [dpc EXCEPT ![d] = "read"]
    /\ UNCHANGED <<rows, seals, lock, key, writers, target, service>>

\* UPDATE ... WHERE id=? for the rows of the batch, in one transaction.
Acknowledge(d) ==
    /\ dpc[d] = "acking"
    /\ lock = Free
    /\ acked' = acked \cup batch[d]
    /\ batch' = [batch EXCEPT ![d] = {}]
    /\ dpc' = [dpc EXCEPT ![d] = "read"]
    /\ UNCHANGED <<rows, seals, lock, key, writers, target, service>>

----------------------------------------------------------------------------
(* The archive service and the operator *)

\* The service takes over a record of a request whose answer was lost.
LateAccept(r) ==
    /\ r \in limbo
    /\ accepted' = accepted \cup {r}
    /\ limbo' = limbo \ {r}
    /\ UNCHANGED <<table, lock, key, writers, drainers>>

\* All processes are restarted with another DRAMA_MCP_ARCHIVE_KEY.
Rekey(k) ==
    /\ \A w \in Writer : wpc[w] = "idle"
    /\ \A d \in Drainer : dpc[d] = "idle"
    /\ k # key
    /\ key' = k
    /\ UNCHANGED <<table, lock, writers, drainers, service>>

----------------------------------------------------------------------------
Enqueue(w) ==
    \/ BeginEnqueue(w) \/ SkipKnown(w) \/ FindMissing(w) \/ InsertRow(w)
    \/ Commit(w) \/ Return(w) \/ AbortEnqueue(w)

Drain(d) ==
    \/ StartDrain(d) \/ DrainEmpty(d) \/ ReadBatch(d) \/ ReadUnreadable(d)
    \/ IngestAccepted(d) \/ IngestUnavailable(d) \/ Acknowledge(d)
    \/ AbortDrain(d)

Next ==
    \/ \E w \in Writer : Enqueue(w)
    \/ \E d \in Drainer : Drain(d)
    \/ \E r \in Record : LateAccept(r)
    \/ \E k \in Key : Rekey(k)

Spec == Init /\ [][Next]_vars

\* A drain that was started goes on: each await and each wait for the lock
\* ends, in success or by a timeout.  Nothing makes a drain start again: its
\* callers reach it only after the exports of a cycle, or once per command.
Fairness ==
    \A d \in Drainer :
        /\ WF_vars(DrainEmpty(d) \/ ReadBatch(d) \/ ReadUnreadable(d))
        /\ WF_vars(IngestAccepted(d) \/ IngestUnavailable(d) \/ AbortDrain(d))
        /\ WF_vars(Acknowledge(d) \/ AbortDrain(d))

FairSpec == Spec /\ Fairness

----------------------------------------------------------------------------
(* Properties *)

TableTypeOK ==
    /\ rows \in Seq(Record)
    /\ seals \in Seq(Key)
    /\ Len(seals) = Len(rows)
    /\ acked \in SUBSET Record
    /\ lock \in Writer \cup {Free}
    /\ key \in Key

WritersTypeOK ==
    /\ wpc \in [Writer -> {"idle", "select", "insert", "return"}]
    /\ items \in [Writer -> Lists]
    /\ next \in [Writer -> Nat \ {0}]
    /\ \A w \in Writer :
        /\ next[w] =< Len(items[w]) + 1
        /\ wpc[w] = "insert" => next[w] =< Len(items[w])
        /\ wpc[w] = "return" => next[w] = Len(items[w]) + 1
        /\ wpc[w] = "idle" => next[w] = 1
    /\ staged \in [Writer -> Seq(Record)]
    /\ added \in [Writer -> Nat]
    /\ reported \in Nat
    /\ uncounted \in SUBSET Record

DrainersTypeOK ==
    /\ dpc \in [Drainer -> {"idle", "read", "sending", "acking"}]
    /\ batch \in [Drainer -> SUBSET Record]
    /\ accepted \in SUBSET Record
    /\ limbo \in SUBSET Record
    /\ target \in [Drainer -> Nat]

\* Every variable keeps the shape the code gives it.
TypeOK == TableTypeOK /\ WritersTypeOK /\ DrainersTypeOK

\* No record is stored twice, however the check and the insert of concurrent
\* enqueues interleave (archive_sync.py:188-191).
UniqueRows == IsInjective(rows)

\* The counts enqueue returned add up to the rows of the table, although a
\* racing INSERT OR IGNORE adds none and a failed enqueue adds none at all.
\* Left out are the rows of the calls that have committed and not returned:
\* those still on their way, and those whose process ended before the count
\* was returned (archive_sync.py:191-192).  So the counts are never too high.
CountsAddUp == reported = Cardinality(Range(rows) \ uncounted)

\* When enqueue returns, every item of its list is in the table: an item
\* skipped because it was already there was not somebody's uncommitted row.
ReturnedIsDurable ==
    \A w \in Writer : wpc[w] = "return" => Range(items[w]) \subseteq Range(rows)

\* Only a record the service has taken over is ever acknowledged, whatever is
\* enqueued between the read of a batch and its UPDATE, and whichever answers
\* are lost (archive_sync.py:207-210).
AckedIsAccepted == acked \subseteq accepted

\* Records are acknowledged oldest first: a later one (a RESPONSE) is never
\* acknowledged while an earlier one (its REQUEST) is still pending.
AckedIsPrefix ==
    \A i, j \in DOMAIN rows : i < j /\ rows[j] \in acked => rows[i] \in acked

\* A drain that reports 0 pending has seen every row that was in the table
\* when it started acknowledged, by itself or by another drainer.
DrainedIsDelivered ==
    \A d \in Drainer : \A i \in 1..target[d] :
        dpc[d] = "idle" => rows[i] \in acked

\* The outbox implements the abstract log.
Mirror == INSTANCE DeliveryLog WITH
    log <- rows, delivered <- accepted, acknowledged <- acked

ImplementsDeliveryLog == Mirror!Spec

\* A drain fails for another reason than a row it cannot decrypt.
Fault(d) == IngestUnavailable(d) \/ (AbortDrain(d) /\ ~ReadUnreadable(d))

\* The pending rows that can share a batch with r or come before it were
\* sealed with the configured key.
ReadableUpTo(r) ==
    \A i, j \in PendingRows : rows[i] = r /\ j < i + BatchSize => seals[j] = key

\* A row is acknowledged at last if, from some time on, one drainer that is
\* never idle for good sees no fault, and what is read with the row or before
\* it is readable.  An unreadable row holds back only its own batch and the
\* rows behind it (archive_sync.py:206).
EveryRowAcked ==
    \A r \in Record :
        /\ \E d \in Drainer : <>[][~Fault(d)]_vars /\ []<>(dpc[d] # "idle")
        /\ <>[]ReadableUpTo(r)
        => ((r \in Range(rows)) ~> (r \in acked))

----------------------------------------------------------------------------
(* The inductive invariant *)

\* The rows a writer inserted are distinct and counted once.  Until they are
\* committed they are new, and the writer holds the lock.
StagedIsNew ==
    \A w \in Writer :
        /\ IsInjective(staged[w])
        /\ added[w] = Len(staged[w])
        /\ wpc[w] # "return" /\ staged[w] # <<>> => lock = w
        /\ wpc[w] # "return" => Range(staged[w]) \cap Range(rows) = {}

\* Rows no returned count holds yet are in the table, and no two calls are to
\* count the same one.
UncountedIsCommitted ==
    /\ uncounted \subseteq Range(rows)
    /\ \A w \in Writer : wpc[w] = "return" => Range(staged[w]) \subseteq uncounted
    /\ \A v, w \in Writer : v # w /\ wpc[v] = "return" /\ wpc[w] = "return"
            => Range(staged[v]) \cap Range(staged[w]) = {}

\* The items a writer is done with are in its view of the table.
DoneIsVisible ==
    \A w \in Writer : \A i \in 1..(next[w] - 1) : items[w][i] \in Visible(w)

\* Whatever the service has or may get, and whatever is acknowledged, came
\* from a committed row.
SentIsCommitted ==
    /\ acked \subseteq Range(rows)
    /\ accepted \subseteq Range(rows)
    /\ limbo \subseteq Range(rows)
    /\ \A d \in Drainer : batch[d] \subseteq Range(rows)

\* A batch continues the acknowledged part of the table without a gap.
BatchContinues ==
    \A d \in Drainer : \A i, j \in DOMAIN rows :
        i < j /\ rows[j] \in batch[d] => rows[i] \in acked \cup batch[d]

AnsweredIsAccepted ==
    \A d \in Drainer : dpc[d] = "acking" => batch[d] \subseteq accepted

TargetIsCommitted == \A d \in Drainer : target[d] =< Len(rows)

WriterInv ==
    /\ StagedIsNew /\ UniqueRows /\ UncountedIsCommitted /\ CountsAddUp
    /\ DoneIsVisible /\ ReturnedIsDurable

DrainerInv ==
    /\ SentIsCommitted /\ BatchContinues /\ AnsweredIsAccepted
    /\ AckedIsAccepted /\ AckedIsPrefix
    /\ TargetIsCommitted /\ DrainedIsDelivered

\* What every step preserves: StagedIsNew, UncountedIsCommitted and
\* DoneIsVisible carry the properties of the table and of the counts from one
\* step of enqueue to the next,
\* BatchContinues and AnsweredIsAccepted those of the acknowledgements from
\* the read of a batch to its UPDATE.
IInv == TypeOK /\ WriterInv /\ DrainerInv

=============================================================================
