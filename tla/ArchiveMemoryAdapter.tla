----------------------- MODULE ArchiveMemoryAdapter -----------------------
(***************************************************************************)
(* archive_adapter.py: tool calls that are observed on their way to the    *)
(* Plugin and back, and the background task that mirrors the Ledger and    *)
(* drains the outbox to the archive service.                               *)
(*                                                                         *)
(* The outbox is a DeliveryLog: an append-only sequence without            *)
(* repetitions whose first `cursor` records are acknowledged.  Of a batch  *)
(* whose delivery fails the archive service may have taken over any part   *)
(* (that it may do so late is in ArchiveOutbox).                           *)
(* Coroutines share one event loop and interleave where they await; the    *)
(* synchronizer's exports and enqueues run in threads of their own, at any *)
(* time.  The Plugin, and tools outside this process, write the Ledger     *)
(* while all this goes on.  A call may write any Work: which one the       *)
(* adapter looks at, its scope, is the first workId it finds in the        *)
(* arguments or else in the result.                                        *)
(*                                                                         *)
(* The Ledger keeps, per scope, one mutable run snapshot, overwritten by   *)
(* every write, and one immutable artifact for each write.  Beside it lie  *)
(* creative originals.  An original appears with a Work of its own or with *)
(* none, and a Work may come to pin it later; what a Work owns it keeps.   *)
(* Who owns what is computed once for the export of each Work and again    *)
(* for the export of what is left over, whose scope is Unscoped.           *)
(* A Ledger directory is configured.                                       *)
(***************************************************************************)
EXTENDS Naturals, SequencesExt

CONSTANTS
    Call,           \* tool calls, each with a call id of its own
    Work,           \* the Works of the Ledger
    Unscoped,       \* the scope of what belongs to no Work
    Result,         \* what the Plugin may answer
    None,           \* no answer, no file
    Original,       \* the creative originals, by the stem of their file
    MaxWrites,      \* bound: the writes to all Works together
    BatchSize       \* drain's batch_size

ASSUME ConstantsAssumption ==
    /\ Unscoped \notin Work
    /\ None \notin Result \cup Work \cup {Unscoped}
    /\ IsFiniteSet(Original)
    /\ MaxWrites \in Nat
    /\ BatchSize \in Nat \ {0}

Scope == Work \cup {Unscoped}

VARIABLES
    ledger,         \* the writes to each Work so far
    owner,          \* whose each original is, None if there is no such file
    log,            \* the records in the outbox, in rowid order
    taken,          \* the records the archive service has taken over
    cursor,         \* how many of them are acknowledged
    up,             \* the process runs
    discovered,     \* discover has installed the memory tools
    pendingError,   \* pending_error is not None
    cpc,            \* where each call is in call_tool
    scope,          \* the scope of its arguments, of its result when it has one
    runs,           \* how often the Plugin was asked to run it
    outcome,        \* what the Plugin returned
    answer,         \* what the caller got
    view,           \* the Ledger records it read and has not stored
    spc,            \* where synchronize is
    todo,           \* the Works still to be exported in this cycle
    walked,         \* owned, of unscoped_creative_records
    export,         \* the records read in a thread and not stored yet
    sent,           \* the last row of the batch that is under way
    \* history, for the properties
    started,        \* what there was when the current cycle began, if one runs
    covered,        \* what there was when the last clean cycle began
    wrote,          \* the last write of each call to each Work
    missed          \* the calls of which something was not captured

drained == <<taken, cursor>>
outbox == <<log, drained>>
calls == <<cpc, scope, runs, outcome, answer, view, wrote, missed>>
worker == <<spc, todo, walked, export, sent, started, covered>>
source == <<ledger, owner>>
vars == <<source, outbox, up, discovered, pendingError, calls, worker>>

----------------------------------------------------------------------------
(* Records *)

Request(c) == [kind |-> "REQUEST", of |-> c, revision |-> 1]
Response(c) == [kind |-> "RESPONSE", of |-> c, revision |-> 1]
Snapshot(s, n) == [kind |-> "RUN_SNAPSHOT", of |-> s, revision |-> n]
Artifact(s, n) == [kind |-> "ARTIFACT", of |-> s, revision |-> n]

\* An original in the export of the Work that owns it, or in the unscoped one.
Creative(s, o) == [kind |-> "CREATIVE_ARTIFACT", of |-> <<s, o>>, revision |-> 1]

\* ledger_records of a Work: its rows when it was written n times, and the
\* originals in S.
RecordsAt(w, n, S) ==
    LET rows == [m \in 1..n |-> Artifact(w, m)]
        run == IF n = 0 THEN <<>> ELSE <<Snapshot(w, n)>>
    IN  run \o rows \o SetToSeq({Creative(w, o) : o \in S})

Records(w) == RecordsAt(w, ledger[w], {o \in Original : owner[o] = w})

\* ledger_work_ids: the Works that have rows.
Works == {w \in Work : ledger[w] > 0}

\* The scope in which an original is exported now.
Holder(o) == IF owner[o] \in Work \ Works THEN Unscoped ELSE owner[o]

\* For the properties: what a cycle finds.
Found == [rows |-> ledger, holder |-> [o \in Original |-> Holder(o)]]

\* Where the given records are in the list that are not in the outbox yet, be it
\* because they were there before or because the list has them twice.
News(records) ==
    {i \in DOMAIN records :
        records[i] \notin Range(log) \cup {records[j] : j \in 1..(i - 1)}}

\* The members of a finite set of numbers, the smallest first.
Ascending(N) ==
    CHOOSE f \in [1..Cardinality(N) -> N] :
        \A i, j \in 1..Cardinality(N) : i < j => f[i] < f[j]

\* enqueue: what is already in the outbox is skipped.
Stored(records) ==
    LET place == Ascending(News(records))
    IN  log \o [k \in 1..Cardinality(News(records)) |-> records[place[k]]]

Acked == {log[i] : i \in 1..cursor}

\* Where the batch that starts at the cursor ends.
BatchEnd == IF cursor + BatchSize =< Len(log) THEN cursor + BatchSize ELSE Len(log)

\* A call that got the Plugin's result keeps the event loop until it answers.
LoopFree == \A c \in Call : cpc[c] \notin {"read", "store", "answer"}

----------------------------------------------------------------------------
Init ==
    /\ ledger = [w \in Work |-> 0]
    /\ owner = [o \in Original |-> None]
    /\ log = <<>> /\ taken = {} /\ cursor = 0
    /\ up = TRUE /\ discovered = FALSE /\ pendingError = FALSE
    /\ cpc = [c \in Call |-> "new"]
    /\ scope \in [Call -> Scope]
    /\ runs = [c \in Call |-> 0]
    /\ outcome = [c \in Call |-> None]
    /\ answer = [c \in Call |-> None]
    /\ view = [c \in Call |-> <<>>]
    /\ wrote = [c \in Call |-> [w \in Work |-> 0]] /\ missed = {}
    /\ spc = "sleep" /\ todo = {} /\ walked = {} /\ export = <<>> /\ sent = 0
    /\ started = Found /\ covered = Found

----------------------------------------------------------------------------
(* call_tool *)

Capture(c) ==
    /\ up /\ LoopFree
    /\ cpc[c] = "new"
    /\ log' = Stored(<<Request(c)>>)
    /\ cpc' = [cpc EXCEPT ![c] = "call"]
    /\ UNCHANGED <<source, drained, up, discovered, pendingError, scope, runs,
                   outcome, answer, view, wrote, missed, worker>>

\* The REQUEST cannot be stored: the call goes on all the same.
CaptureFails(c) ==
    /\ up /\ LoopFree
    /\ cpc[c] = "new"
    /\ pendingError' = TRUE
    /\ missed' = missed \cup {c}
    /\ cpc' = [cpc EXCEPT ![c] = "call"]
    /\ UNCHANGED <<source, outbox, up, discovered, scope, runs, outcome, answer,
                   view, wrote, worker>>

CallPlugin(c) ==
    /\ up /\ LoopFree
    /\ cpc[c] = "call"
    /\ runs' = [runs EXCEPT ![c] = @ + 1]
    /\ cpc' = [cpc EXCEPT ![c] = "running"]
    /\ UNCHANGED <<source, outbox, up, discovered, pendingError, scope, outcome,
                   answer, view, wrote, missed, worker>>

\* The Plugin writes the Ledger in the course of the call, be it for the Work the
\* arguments name or for another.
PluginWrites(c, w) ==
    /\ up
    /\ cpc[c] = "running"
    /\ SumFunction(ledger) < MaxWrites
    /\ ledger' = [ledger EXCEPT ![w] = @ + 1]
    /\ wrote' = [wrote EXCEPT ![c][w] = ledger'[w]]
    /\ UNCHANGED <<owner, outbox, up, discovered, pendingError, cpc, scope, runs,
                   outcome, answer, view, missed, worker>>

\* The scope of a call with a result: the Work the arguments name, or else one the
\* result names.
Resolved(c, s) == s \in Scope /\ (scope[c] \in Work => s = scope[c])

\* A slip: make up for a REQUEST that was not stored when the RESPONSE is.
RespondRecapturing(c) ==
    /\ up /\ LoopFree
    /\ cpc[c] = "running"
    /\ \E r \in Result : outcome' = [outcome EXCEPT ![c] = r]
    /\ log' = Stored(<<Response(c), Request(c)>>)
    /\ \E s \in Scope :
        /\ Resolved(c, s)
        /\ scope' = [scope EXCEPT ![c] = s]
        /\ cpc' = [cpc EXCEPT ![c] = IF s \in Work THEN "read" ELSE "answer"]
    /\ UNCHANGED <<source, drained, up, discovered, pendingError, runs, answer,
                   view, wrote, missed, worker>>

\* The Plugin's result is there and the RESPONSE is stored.  A call without a
\* Work has no Ledger records to read.
Respond(c) ==
    /\ up /\ LoopFree
    /\ cpc[c] = "running"
    /\ \E r \in Result : outcome' = [outcome EXCEPT ![c] = r]
    /\ log' = Stored(<<Response(c)>>)
    /\ \E s \in Scope :
        /\ Resolved(c, s)
        /\ scope' = [scope EXCEPT ![c] = s]
        /\ cpc' = [cpc EXCEPT ![c] = IF s \in Work THEN "read" ELSE "answer"]
    /\ UNCHANGED <<source, drained, up, discovered, pendingError, runs, answer,
                   view, wrote, missed, worker>>

\* A slip: run the call again to get a result that can be stored.
RespondRetries(c) ==
    /\ up /\ LoopFree
    /\ cpc[c] = "running"
    /\ pendingError' = TRUE
    /\ cpc' = [cpc EXCEPT ![c] = "call"]
    /\ UNCHANGED <<source, outbox, up, discovered, scope, runs, outcome, answer,
                   view, wrote, missed, worker>>

\* The result cannot be serialized or the RESPONSE cannot be stored.
RespondFails(c) ==
    /\ up /\ LoopFree
    /\ cpc[c] = "running"
    /\ \E r \in Result : outcome' = [outcome EXCEPT ![c] = r]
    /\ pendingError' = TRUE
    /\ missed' = missed \cup {c}
    /\ cpc' = [cpc EXCEPT ![c] = "answer"]
    /\ UNCHANGED <<source, outbox, up, discovered, scope, runs, answer, view,
                   wrote, worker>>

\* A slip: reuse what the synchronizer saw when its cycle began.
ReadLedgerCached(c) ==
    /\ up
    /\ cpc[c] = "read"
    /\ view' = [view EXCEPT ![c] = RecordsAt(scope[c], started.rows[scope[c]], {})]
    /\ cpc' = [cpc EXCEPT ![c] = "store"]
    /\ UNCHANGED <<source, outbox, up, discovered, pendingError, scope, runs,
                   outcome, answer, wrote, missed, worker>>

ReadLedger(c) ==
    /\ up
    /\ cpc[c] = "read"
    /\ view' = [view EXCEPT ![c] = Records(scope[c])]
    /\ cpc' = [cpc EXCEPT ![c] = "store"]
    /\ UNCHANGED <<source, outbox, up, discovered, pendingError, scope, runs,
                   outcome, answer, wrote, missed, worker>>

StoreView(c) ==
    /\ up
    /\ cpc[c] = "store"
    /\ log' = Stored(view[c])
    /\ view' = [view EXCEPT ![c] = <<>>]
    /\ cpc' = [cpc EXCEPT ![c] = "answer"]
    /\ UNCHANGED <<source, drained, up, discovered, pendingError, scope, runs,
                   outcome, answer, wrote, missed, worker>>

\* The Ledger cannot be read or its records cannot be stored.
LedgerCaptureFails(c) ==
    /\ up
    /\ cpc[c] \in {"read", "store"}
    /\ pendingError' = TRUE
    /\ missed' = missed \cup {c}
    /\ view' = [view EXCEPT ![c] = <<>>]
    /\ cpc' = [cpc EXCEPT ![c] = "answer"]
    /\ UNCHANGED <<source, outbox, up, discovered, scope, runs, outcome, answer,
                   wrote, worker>>

Answer(c) ==
    /\ up
    /\ cpc[c] = "answer"
    /\ answer' = [answer EXCEPT ![c] = outcome[c]]
    /\ cpc' = [cpc EXCEPT ![c] = "done"]
    /\ UNCHANGED <<source, outbox, up, discovered, pendingError, scope, runs,
                   outcome, view, wrote, missed, worker>>

\* The client goes away while the Plugin works.
Cancel(c) ==
    /\ up /\ LoopFree
    /\ cpc[c] = "running"
    /\ cpc' = [cpc EXCEPT ![c] = "done"]
    /\ missed' = missed \cup {c}
    /\ UNCHANGED <<source, outbox, up, discovered, pendingError, scope, runs,
                   outcome, answer, view, wrote, worker>>

\* A call of a memory tool that discover has installed asks the archive
\* service, and neither the Plugin nor the outbox learns of it.
AskArchive(c) ==
    /\ up /\ LoopFree
    /\ discovered
    /\ cpc[c] = "new"
    /\ cpc' = [cpc EXCEPT ![c] = "done"]
    /\ UNCHANGED <<source, outbox, up, discovered, pendingError, scope, runs,
                   outcome, answer, view, wrote, missed, worker>>

----------------------------------------------------------------------------
(* synchronize *)

StartCycle ==
    /\ up /\ LoopFree
    /\ spc = "sleep"
    /\ spc' = IF discovered THEN "list" ELSE "discover"
    /\ started' = Found
    /\ UNCHANGED <<source, outbox, up, discovered, pendingError, calls, todo,
                   walked, export, sent, covered>>

Discover ==
    /\ up /\ LoopFree
    /\ spc = "discover"
    /\ discovered' = TRUE
    /\ spc' = "list"
    /\ UNCHANGED <<source, outbox, up, pendingError, calls, todo, walked, export,
                   sent, started, covered>>

DiscoverFails ==
    /\ up /\ LoopFree
    /\ spc = "discover"
    /\ pendingError' = TRUE
    /\ spc' = "list"
    /\ UNCHANGED <<source, outbox, up, discovered, calls, todo, walked, export,
                   sent, started, covered>>

ListWorks ==
    /\ up /\ LoopFree
    /\ spc = "list"
    /\ todo' = Works
    /\ spc' = "export"
    /\ UNCHANGED <<source, outbox, up, discovered, pendingError, calls, walked,
                   export, sent, started, covered>>

\* One Work after the other, in a thread.
Export(w) ==
    /\ up
    /\ spc = "export"
    /\ w \in todo
    /\ todo' = todo \ {w}
    /\ export' = Records(w)
    /\ spc' = "store"
    /\ UNCHANGED <<source, outbox, up, discovered, pendingError, calls, walked,
                   sent, started, covered>>

\* A slip: what names a Work counts as owned, whether or not the Work has rows.
WalkNamed ==
    /\ up
    /\ spc = "export"
    /\ todo = {}
    /\ walked' = {o \in Original : owner[o] \in Work}
    /\ spc' = "glob"
    /\ UNCHANGED <<source, outbox, up, discovered, pendingError, calls, todo,
                   export, sent, started, covered>>

\* unscoped_creative_records first walks what the Works own now ...  The code
\* walks one Work after the other.  Which Work an original goes to is decided at
\* one moment, by the walk of that Work, and the properties speak of one original
\* at a time, so that one step for all Works loses nothing of what they say.
WalkOwned ==
    /\ up
    /\ spc = "export"
    /\ todo = {}
    /\ walked' = {o \in Original : owner[o] \in Works}
    /\ spc' = "glob"
    /\ UNCHANGED <<source, outbox, up, discovered, pendingError, calls, todo,
                   export, sent, started, covered>>

\* ... and then lists the directory.
GlobUnowned ==
    /\ up
    /\ spc = "glob"
    /\ export' = SetToSeq({Creative(Unscoped, o) :
                    o \in {p \in Original : owner[p] # None} \ walked})
    /\ walked' = {}
    /\ spc' = "storeLast"
    /\ UNCHANGED <<source, outbox, up, discovered, pendingError, calls, todo,
                   sent, started, covered>>

StoreExport ==
    /\ up
    /\ spc \in {"store", "storeLast"}
    /\ log' = Stored(export)
    /\ export' = <<>>
    /\ spc' = IF spc = "storeLast" THEN "drain" ELSE "export"
    /\ UNCHANGED <<source, drained, up, discovered, pendingError, calls, todo,
                   walked, sent, started, covered>>

\* A slip: the end of the batch is not clipped to the end of the table.
DrainReadPast ==
    /\ up /\ LoopFree
    /\ spc = "drain"
    /\ cursor < Len(log)
    /\ sent' = cursor + BatchSize
    /\ spc' = "sending"
    /\ UNCHANGED <<source, outbox, up, discovered, pendingError, calls, todo,
                   walked, export, started, covered>>

DrainRead ==
    /\ up /\ LoopFree
    /\ spc = "drain"
    /\ cursor < Len(log)
    /\ sent' = BatchEnd
    /\ spc' = "sending"
    /\ UNCHANGED <<source, outbox, up, discovered, pendingError, calls, todo,
                   walked, export, started, covered>>

\* The batch that is under way.
UnderWay == IF spc = "sending" THEN {log[i] : i \in (cursor + 1)..sent} ELSE {}

\* The archive service takes the batch over.
Ingest ==
    /\ up
    /\ spc = "sending"
    /\ taken' = taken \cup UnderWay
    /\ spc' = "sent"
    /\ UNCHANGED <<source, log, cursor, up, discovered, pendingError, calls, todo,
                   walked, export, sent, started, covered>>

\* A slip: all rows are marked, not just those that were read.
DrainAcknowledgeAll ==
    /\ up /\ LoopFree
    /\ spc = "sent"
    /\ cursor' = Len(log)
    /\ sent' = 0
    /\ spc' = "drain"
    /\ UNCHANGED <<source, log, taken, up, discovered, pendingError, calls, todo,
                   walked, export, started, covered>>

DrainAcknowledge ==
    /\ up /\ LoopFree
    /\ spc = "sent"
    /\ cursor' = sent
    /\ sent' = 0
    /\ spc' = "drain"
    /\ UNCHANGED <<source, log, taken, up, discovered, pendingError, calls, todo,
                   walked, export, started, covered>>

\* drain finds nothing pending: the cycle was clean.
EndCycle ==
    /\ up /\ LoopFree
    /\ spc = "drain"
    /\ cursor = Len(log)
    /\ pendingError' = FALSE
    /\ covered' = [started EXCEPT !.holder =
                    [o \in Original |-> IF Holder(o) = @[o] THEN @[o] ELSE None]]
    /\ started' = covered'
    /\ spc' = "sleep"
    /\ UNCHANGED <<source, outbox, up, discovered, calls, todo, walked,
                   export, sent>>

\* A slip: an export that cannot be stored is skipped and the cycle goes on.
SkipExport ==
    /\ up
    /\ spc \in {"store", "storeLast"}
    /\ export' = <<>>
    /\ spc' = IF spc = "storeLast" THEN "drain" ELSE "export"
    /\ UNCHANGED <<source, outbox, up, discovered, pendingError, calls, todo,
                   walked, sent, started, covered>>

\* Any exception, the archive service being unavailable among them, ends the
\* whole cycle.  The service may have any part of the batch that was under way.
CycleFails ==
    /\ up /\ LoopFree
    /\ spc \in {"list", "export", "store", "glob", "storeLast", "drain", "sending",
                "sent"}
    /\ \E S \in SUBSET UnderWay : taken' = taken \cup S
    /\ pendingError' = TRUE
    /\ todo' = {} /\ walked' = {} /\ export' = <<>> /\ sent' = 0
    /\ started' = covered
    /\ spc' = "sleep"
    /\ UNCHANGED <<source, log, cursor, up, discovered, calls, covered>>

----------------------------------------------------------------------------
(* The environment *)

\* A tool outside this process writes the Ledger.
DirectWrite(w) ==
    /\ SumFunction(ledger) < MaxWrites
    /\ ledger' = [ledger EXCEPT ![w] = @ + 1]
    /\ UNCHANGED <<owner, outbox, up, discovered, pendingError, calls, worker>>

\* Someone writes an original, which may name a Work, or comes to pin one that
\* is nobody's.
Own(o, s) ==
    /\ owner[o] = None \/ (owner[o] = Unscoped /\ s \in Work)
    /\ owner' = [owner EXCEPT ![o] = s]
    /\ UNCHANGED <<ledger, outbox, up, discovered, pendingError, calls, worker>>

\* The process ends and forgets everything but the outbox and the Ledger.  A
\* thread that was storing an export may or may not have come to its end.
Stop ==
    /\ up
    /\ up' = FALSE
    /\ log' \in {log, Stored(export)}
    /\ \E S \in SUBSET UnderWay : taken' = taken \cup S
    /\ discovered' = FALSE /\ pendingError' = FALSE
    /\ cpc' = [c \in Call |-> IF cpc[c] = "new" THEN "new" ELSE "done"]
    /\ missed' = missed \cup {c \in Call : cpc[c] \notin {"new", "done"}}
    /\ view' = [c \in Call |-> <<>>]
    /\ spc' = "sleep" /\ todo' = {} /\ walked' = {} /\ export' = <<>>
    /\ sent' = 0 /\ started' = covered
    /\ UNCHANGED <<source, cursor, scope, runs, outcome, answer, wrote, covered>>

Start ==
    /\ ~up
    /\ up' = TRUE
    /\ UNCHANGED <<source, outbox, discovered, pendingError, calls, worker>>

----------------------------------------------------------------------------
CallTool(c) ==
    \/ Capture(c) \/ CaptureFails(c) \/ CallPlugin(c)
    \/ Respond(c) \/ RespondFails(c)
    \/ ReadLedger(c) \/ StoreView(c) \/ LedgerCaptureFails(c)
    \/ Answer(c) \/ Cancel(c) \/ AskArchive(c)

Synchronize ==
    \/ StartCycle \/ Discover \/ DiscoverFails \/ ListWorks
    \/ \E w \in Work : Export(w)
    \/ WalkOwned \/ GlobUnowned
    \/ StoreExport
    \/ DrainRead \/ Ingest \/ DrainAcknowledge
    \/ EndCycle \/ CycleFails

Next ==
    \/ \E c \in Call : CallTool(c) \/ \E w \in Work : PluginWrites(c, w)
    \/ Synchronize
    \/ \E w \in Work : DirectWrite(w)
    \/ \E o \in Original, s \in Scope : Own(o, s)
    \/ Stop \/ Start

Spec == Init /\ [][Next]_vars

\* The event loop serves the synchronizer, and a call that got its result
\* ends without waiting for anyone.
FairSpec ==
    /\ Spec
    /\ WF_vars(Synchronize)
    /\ \A c \in Call : WF_vars(ReadLedger(c) \/ StoreView(c) \/ Answer(c)
                               \/ LedgerCaptureFails(c))

----------------------------------------------------------------------------
(* Properties *)

Item ==
    [kind : {"REQUEST", "RESPONSE"}, of : Call, revision : {1}]
    \cup [kind : {"RUN_SNAPSHOT", "ARTIFACT"}, of : Work, revision : Nat]
    \cup [kind : {"CREATIVE_ARTIFACT"}, of : Scope \X Original, revision : {1}]

Finding == [rows : [Work -> Nat], holder : [Original -> Scope \cup {None}]]

TypeOK ==
    /\ ledger \in [Work -> Nat]
    /\ owner \in [Original -> Scope \cup {None}]
    /\ log \in Seq(Item)
    /\ taken \in SUBSET Item
    /\ cursor \in 0..Len(log)
    /\ up \in BOOLEAN /\ discovered \in BOOLEAN
    /\ pendingError \in BOOLEAN
    /\ cpc \in [Call -> {"new", "call", "running", "read", "store", "answer",
                         "done"}]
    /\ scope \in [Call -> Scope]
    /\ runs \in [Call -> Nat]
    /\ outcome \in [Call -> Result \cup {None}]
    /\ answer \in [Call -> Result \cup {None}]
    /\ view \in [Call -> Seq(Item)]
    /\ spc \in {"sleep", "discover", "list", "export", "store", "glob",
                "storeLast", "drain", "sending", "sent"}
    /\ todo \in SUBSET Work
    /\ walked \in SUBSET Original
    /\ export \in Seq(Item)
    /\ sent \in 0..Len(log)
    /\ started \in Finding
    /\ covered \in Finding
    /\ wrote \in [Call -> [Work -> Nat]]
    /\ missed \in SUBSET Call

\* The archive changes nothing for the caller of a Plugin tool: the Plugin is
\* asked once, and its result is what the caller gets, whatever fails or is
\* going on in the mirror (archive_adapter.py:69).
Calls == INSTANCE PluginCalls

ImplementsPluginCalls == Calls!Spec

\* The outbox is an abstract log throughout, whatever calls, exports and drains
\* do to it: it only grows, never holds a record twice, and acknowledges its
\* oldest records, after they were delivered (archive_sync.py:183-211).
Outbox == INSTANCE DeliveryLog WITH
    Record <- Item, delivered <- taken, acknowledged <- Acked

ImplementsDeliveryLog == Outbox!Spec

\* The first n writes to Work w are among the given records: every artifact,
\* and of the run snapshot, which later writes replace, the n-th or a later one.
Mirrored(w, n, records) ==
    /\ \A m \in 1..n : Artifact(w, m) \in records
    /\ n > 0 => \E r \in records :
            r.kind = "RUN_SNAPSHOT" /\ r.of = w /\ r.revision >= n

\* When a cycle ends without pending_error, the archive service has all the
\* Ledger held when the cycle began, and every original that stayed where it
\* was: with the Work that owned it, or without a Work.  Only an original that
\* found an owner while the cycle went on may have slipped between its two
\* exports (archive_adapter.py:90-96, archive_sync.py:114-121).
CleanCycleCovers ==
    /\ \A w \in Work : Mirrored(w, covered.rows[w], Acked)
    /\ \A o \in Original : covered.holder[o] # None =>
            Creative(covered.holder[o], o) \in Acked

\* An answered call of which nothing was missed is in the outbox with its
\* request, its response and all it wrote to the Work that is its scope, however
\* the synchronizer, other calls and other writers come between.  What it wrote to
\* another Work, or without a scope, only a later cycle finds
\* (archive_adapter.py:64-76).
EffectsAreMirrored ==
    \A c \in Call : answer[c] # None /\ c \notin missed =>
        /\ Request(c) \in Range(log) /\ Response(c) \in Range(log)
        /\ scope[c] \in Work => Mirrored(scope[c], wrote[c][scope[c]], Range(log))

\* Wherever batches are cut and whatever was lost, taken over in part or stopped: if
\* the archive service has a RESPONSE whose REQUEST was stored, it has the REQUEST,
\* too, or will have it with the batch that starts at the cursor, before anything
\* else is sent (archive_adapter.py:63-75, archive_sync.py:200-210).
RequestsGoFirst ==
    \A c \in Call : Response(c) \in taken /\ Request(c) \in Range(log) =>
        Request(c) \in taken \cup {log[i] : i \in (cursor + 1)..BatchEnd}

\* If from some time on the process stays up and no cycle fails, every write
\* to the Ledger reaches the archive service at last, and so does every
\* original, in the scope it has come to belong to: its Work if that has rows in
\* the Ledger (archive_adapter.py:81-99).
EventuallyMirrored ==
    <>[]up /\ <>[][~CycleFails]_vars =>
        /\ \A w \in Work : \A n \in 1..MaxWrites :
                (ledger[w] >= n) ~> Mirrored(w, n, Acked)
        /\ \A o \in Original :
                (Holder(o) # None) ~> (Creative(Holder(o), o) \in Acked)

=============================================================================
