--------------------------- MODULE LedgerExport ---------------------------
(***************************************************************************)
(* ledger_records of archive_sync.py: one Work's rows and receipts, read   *)
(* again and again while the Plugin goes on writing them.                  *)
(*                                                                         *)
(* Runs, artifacts and operations are read in one transaction, whose       *)
(* snapshot is taken by its first SELECT.  The attempts and the operation  *)
(* artifacts that say which receipts belong to the Work are read in two    *)
(* later transactions, and the receipts are files that are listed and then *)
(* read one by one.  A receipt names an attempt by its file name and may   *)
(* name an operation artifact, its origin, in its content.                 *)
(*                                                                         *)
(* The Plugin never takes back a row or a receipt.  A run it overwrites    *)
(* with a higher revision; a receipt appears in parts.  Rows of            *)
(* ledger_index are exported as artifacts are.                             *)
(***************************************************************************)
EXTENDS Naturals, FiniteSets

CONSTANTS
    Run,            \* runs of the Work, by run id
    Attempt,        \* provider attempts, by client identity
    Origin,         \* execution-operation artifacts, by artifact id
    File,           \* receipt files
    None,           \* no attempt, no origin
    MaxRevision     \* bound: the revisions of a run

ASSUME ConstantsAssumption ==
    /\ None \notin Attempt \cup Origin
    /\ MaxRevision \in Nat

Artifact == Attempt \cup Origin

VARIABLES
    runs,           \* the revision of each run, 0 if there is none
    operations,     \* the runs that have an operation
    artifacts,      \* the artifacts of this Work
    receipts,       \* what there is of each receipt
    attemptOf,      \* the attempt each file is named after
    originOf,       \* the origin each file names
    \* the export
    pc,             \* where it is
    snapshot,       \* what the open transaction sees
    attempts,       \* attempts
    origins,        \* owned_operations
    listing,        \* the files it has yet to read
    out,            \* what it yielded so far
    base            \* history: the Ledger when it began

ledger == <<runs, operations, artifacts, receipts>>
names == <<attemptOf, originOf>>
vars == <<ledger, names, pc, snapshot, attempts, origins, listing, out, base>>

----------------------------------------------------------------------------
Live == [runs |-> runs, operations |-> operations, artifacts |-> artifacts]

Present == {f \in File : receipts[f] # "absent"}

Whole == {f \in File : receipts[f] = "whole"}

\* A slip: no BEGIN, so that each SELECT sees the database as it is.
SeenWithoutBegin == Live

\* What a SELECT of the first transaction reads.
Seen == snapshot

\* The receipts of attempts and of operations of the Work belong to it.
Belongs(f, as, os) == attemptOf[f] \in as \/ originOf[f] \in os

BelongsTo(S) == {f \in File : Belongs(f, S, S)}

ByAttempt(as) == {f \in File : attemptOf[f] \in as}

\* A slip: the operation a receipt comes from decides before its attempt.
FiledByOrigin(f) ==
    [out EXCEPT !.receipts = @ \cup {f},
                !.attempted = IF originOf[f] \in origins THEN @ ELSE @ \cup {f}]

\* A receipt whose attempt is known is filed under the scope of the attempt,
\* any other under the scope of the operation it comes from.
Filed(f) ==
    [out EXCEPT !.receipts = @ \cup {f},
                !.attempted = @ \cup ({f} \cap ByAttempt(attempts))]

Nothing == [runs |-> [r \in Run |-> 0], operations |-> {}, artifacts |-> {},
            receipts |-> {}, attempted |-> {}]

----------------------------------------------------------------------------
Init ==
    /\ runs = [r \in Run |-> 0] /\ operations = {} /\ artifacts = {}
    /\ receipts = [f \in File |-> "absent"]
    /\ attemptOf \in [File -> Attempt \cup {None}]
    /\ originOf \in [File -> Origin \cup {None}]
    /\ pc = "idle"
    /\ snapshot = Live
    /\ attempts = {} /\ origins = {} /\ listing = {}
    /\ out = Nothing
    /\ base = Nothing

----------------------------------------------------------------------------
(* The Plugin *)

SaveRun(r) ==
    /\ runs[r] < MaxRevision
    /\ runs' = [runs EXCEPT ![r] = @ + 1]
    /\ UNCHANGED <<operations, artifacts, receipts>>

\* An operation refers to a run.
AddOperation(r) ==
    /\ runs[r] > 0
    /\ operations' = operations \cup {r}
    /\ UNCHANGED <<runs, artifacts, receipts>>

AddArtifact(a) ==
    /\ artifacts' = artifacts \cup {a}
    /\ UNCHANGED <<runs, operations, receipts>>

WriteReceipt(f) ==
    /\ \/ receipts[f] = "absent" /\ receipts' = [receipts EXCEPT ![f] = "part"]
       \/ receipts[f] # "whole" /\ receipts' = [receipts EXCEPT ![f] = "whole"]
    /\ UNCHANGED <<runs, operations, artifacts>>

PluginWrites ==
    /\ \/ \E r \in Run : SaveRun(r) \/ AddOperation(r)
       \/ \E a \in Artifact : AddArtifact(a)
       \/ \E f \in File : WriteReceipt(f)
    /\ UNCHANGED <<names, pc, snapshot, attempts, origins, listing, out, base>>

----------------------------------------------------------------------------
(* The export *)

ReadRuns ==
    /\ pc = "idle"
    /\ snapshot' = Live
    /\ out' = [Nothing EXCEPT !.runs = runs]
    /\ base' = [runs |-> runs, operations |-> operations,
                artifacts |-> artifacts, receipts |-> Whole, attempted |-> {}]
    /\ pc' = "artifacts"
    /\ UNCHANGED <<ledger, names, attempts, origins, listing>>

ReadArtifacts ==
    /\ pc = "artifacts"
    /\ out' = [out EXCEPT !.artifacts = Seen.artifacts]
    /\ pc' = "operations"
    /\ UNCHANGED <<ledger, names, snapshot, attempts, origins, listing, base>>

ReadOperations ==
    /\ pc = "operations"
    /\ out' = [out EXCEPT !.operations = Seen.operations]
    /\ pc' = "attempts"
    /\ UNCHANGED <<ledger, names, snapshot, attempts, origins, listing, base>>

ReadAttempts ==
    /\ pc = "attempts"
    /\ attempts' = artifacts \cap Attempt
    /\ pc' = "origins"
    /\ UNCHANGED <<ledger, names, snapshot, origins, listing, out, base>>

\* A slip: the type of artifact that was copied from the query before.
ReadOriginsAsAttempts ==
    /\ pc = "origins"
    /\ origins' = {}
    /\ pc' = "list"
    /\ UNCHANGED <<ledger, names, snapshot, attempts, listing, out, base>>

ReadOrigins ==
    /\ pc = "origins"
    /\ origins' = artifacts \cap Origin
    /\ pc' = "list"
    /\ UNCHANGED <<ledger, names, snapshot, attempts, listing, out, base>>

\* A slip: name the files after the attempts instead of looking for them.
ListExpected ==
    /\ pc = "list"
    /\ listing' = {f \in File : Belongs(f, attempts, origins)}
    /\ pc' = "read"
    /\ UNCHANGED <<ledger, names, snapshot, attempts, origins, out, base>>

ListReceipts ==
    /\ pc = "list"
    /\ listing' = Present
    /\ pc' = "read"
    /\ UNCHANGED <<ledger, names, snapshot, attempts, origins, out, base>>

\* A slip: the first file that is not JSON yet ends the loop.
StopAtPart(f) ==
    /\ pc = "read"
    /\ f \in listing
    /\ listing' = IF receipts[f] = "whole" THEN listing \ {f} ELSE {}
    /\ out' = IF receipts[f] = "whole" /\ Belongs(f, attempts, origins)
              THEN Filed(f) ELSE out
    /\ UNCHANGED <<ledger, names, pc, snapshot, attempts, origins, base>>

\* What is not JSON yet, or belongs to other Works, is passed over.
ReadReceipt(f) ==
    /\ pc = "read"
    /\ f \in listing
    /\ listing' = listing \ {f}
    /\ out' = IF receipts[f] = "whole" /\ Belongs(f, attempts, origins)
              THEN Filed(f) ELSE out
    /\ UNCHANGED <<ledger, names, pc, snapshot, attempts, origins, base>>

Finish ==
    /\ pc = "read"
    /\ listing = {}
    /\ pc' = "idle"
    /\ UNCHANGED <<ledger, names, snapshot, attempts, origins, listing, out,
                   base>>

\* A row or a receipt of another form than expected raises, and list(...) gives
\* the caller nothing.
Fail ==
    /\ pc # "idle"
    /\ pc' = "idle"
    /\ listing' = {}
    /\ out' = Nothing /\ base' = Nothing
    /\ UNCHANGED <<ledger, names, snapshot, attempts, origins>>

Export ==
    \/ ReadRuns \/ ReadArtifacts \/ ReadOperations
    \/ ReadAttempts \/ ReadOrigins \/ ListReceipts
    \/ \E f \in File : ReadReceipt(f)
    \/ Finish \/ Fail

Next == PluginWrites \/ Export

Spec == Init /\ [][Next]_vars

----------------------------------------------------------------------------
(* Properties *)

Rows == [runs : [Run -> 0..MaxRevision], operations : SUBSET Run,
         artifacts : SUBSET Artifact]

Exported == [runs : [Run -> 0..MaxRevision], operations : SUBSET Run,
             artifacts : SUBSET Artifact, receipts : SUBSET File,
             attempted : SUBSET File]

TypeOK ==
    /\ Live \in Rows
    /\ receipts \in [File -> {"absent", "part", "whole"}]
    /\ attemptOf \in [File -> Attempt \cup {None}]
    /\ originOf \in [File -> Origin \cup {None}]
    /\ pc \in {"idle", "artifacts", "operations", "attempts", "origins", "list",
               "read"}
    /\ snapshot \in Rows
    /\ attempts \in SUBSET Attempt
    /\ origins \in SUBSET Origin
    /\ listing \in SUBSET Present
    /\ out \in Exported
    /\ base \in Exported

\* The run of every exported operation was exported too: scope_by_run[...] of
\* archive_sync.py:62 finds it.
OperationsHaveRuns == \A r \in out.operations : out.runs[r] > 0

\* An export that ended gave all there was when it began, and nothing that is
\* not there now: no row, no receipt of the Work is passed over because the
\* Plugin was writing meanwhile, and no receipt of another Work is taken.  A
\* receipt is filed under its attempt if the attempt was known when the export
\* began, and not before it is known (archive_sync.py:43-87).
ExportIsBetween ==
    pc = "idle" =>
        /\ \A r \in Run : base.runs[r] =< out.runs[r] /\ out.runs[r] =< runs[r]
        /\ base.operations \subseteq out.operations
        /\ out.operations \subseteq operations
        /\ base.artifacts \subseteq out.artifacts
        /\ out.artifacts \subseteq artifacts
        /\ base.receipts \cap BelongsTo(base.artifacts) \subseteq out.receipts
        /\ out.receipts \subseteq Whole \cap BelongsTo(artifacts)
        /\ base.receipts \cap ByAttempt(base.artifacts) \subseteq out.attempted
        /\ out.attempted \subseteq out.receipts \cap ByAttempt(artifacts)

----------------------------------------------------------------------------
(* The inductive invariant *)

\* The Ledger only grows, and its operations have their runs.
GrowthInv ==
    /\ \A r \in Run : base.runs[r] =< runs[r]
    /\ base.operations \subseteq operations
    /\ base.artifacts \subseteq artifacts
    /\ base.receipts \subseteq Whole
    /\ \A r \in operations : runs[r] > 0
    /\ \A r \in base.operations : base.runs[r] > 0

\* What the first transaction yields is the Ledger at its first SELECT.
TransactionInv ==
    /\ pc \in {"artifacts", "operations"} =>
            /\ snapshot.operations = base.operations
            /\ snapshot.artifacts = base.artifacts
    /\ out.runs = base.runs
    /\ out.artifacts = IF pc = "artifacts" THEN {} ELSE base.artifacts
    /\ out.operations = IF pc \in {"artifacts", "operations"} THEN {}
                        ELSE base.operations

\* What tells which receipts to take is not older than the export, and each
\* receipt to be taken is taken or still listed.
ReceiptInv ==
    /\ attempts \subseteq artifacts
    /\ origins \subseteq artifacts
    /\ pc \in {"origins", "list", "read"} =>
            base.artifacts \cap Attempt \subseteq attempts
    /\ pc \in {"list", "read"} => base.artifacts \cap Origin \subseteq origins
    /\ out.receipts \subseteq Whole \cap BelongsTo(artifacts)
    /\ pc \in {"read", "idle"} =>
            base.receipts \cap BelongsTo(base.artifacts)
                \subseteq out.receipts \cup listing
    /\ out.attempted \subseteq out.receipts \cap ByAttempt(artifacts)
    /\ pc \in {"read", "idle"} =>
            base.receipts \cap ByAttempt(base.artifacts)
                \subseteq out.attempted \cup listing
    /\ pc = "idle" => listing = {}

IInv == TypeOK /\ GrowthInv /\ TransactionInv /\ ReceiptInv

=============================================================================
