---------------------------- MODULE OperatorSync ----------------------------
(***************************************************************************)
(* integration/verify_live_archive.py: an operator sends the retained      *)
(* records to the live archive with "sync" and confirms it with "verify".  *)
(* Each writes its result to the proof file.                               *)
(*                                                                         *)
(* sync uses the outbox of the running Host, whose mirror adds to it and   *)
(* drains it meanwhile.  An acknowledged row is never sent again, so what  *)
(* the service lost after it was acknowledged comes back only because sync *)
(* sends all records once more after the drain: the assertion that none of *)
(* them is inserted then fails, but the record is there again.             *)
(*                                                                         *)
(* One operator runs one command at a time.  A command is killed or fails  *)
(* at any point, records come to be found and the service loses some.      *)
(***************************************************************************)
EXTENDS FiniteSets, Naturals

CONSTANTS
    Record,         \* all that may be retained, or observed by the mirror
    Companion,      \* the records of companion files, a source of their own
    Count,          \* how many records sync insists on
    BatchSize,      \* how many records are sent at once
    MaxLosses       \* bound: how often the service loses records

ASSUME ConstantsAssumption ==
    /\ IsFiniteSet(Record) /\ Companion \subseteq Record
    /\ Count \in Nat /\ BatchSize \in Nat \ {0} /\ MaxLosses \in Nat

VARIABLES
    present,        \* what items() finds
    queued,         \* the rows of the outbox
    acked,          \* those of them that are acknowledged
    stored,         \* what the archive service holds
    claimed,        \* what its checkpoints count
    mirror,         \* the Host runs, with its mirror
    proof,          \* live-integration-proof.json
    pc,             \* where the operator's command is
    sources,        \* the list that command works on
    todo,           \* those it has not replayed or counted yet
    read,           \* the proof as verify has read it
    firm,           \* history: nothing was lost since the replay began
    losses          \* counts towards the bound

outbox == <<queued, acked>>
archive == <<stored, claimed>>
local == <<pc, sources, todo, read>>
vars == <<present, outbox, archive, mirror, proof, local, firm, losses>>

Group == {Companion, Record \ Companion}

\* What may be sent together.
Batches(S) == {B \in SUBSET S : B # {} /\ Cardinality(B) <= BatchSize}

\* firm is no part of the file: nothing was lost since its replay began.
Proof == [status : {"NONE", "TORN", "LIVE_SYNC_COMPLETE",
                    "LIVE_MCP_AND_MINIO_VERIFIED"},
          rows : SUBSET Record,
          firm : BOOLEAN]

NoProof(status) == [status |-> status, rows |-> {}, firm |-> FALSE]

Readable(p) == p.status \notin {"NONE", "TORN"}

Init ==
    /\ present \in SUBSET Record
    /\ queued = {} /\ acked = {} /\ stored = {} /\ claimed = {}
    /\ mirror = FALSE
    /\ proof = NoProof("NONE") /\ read = NoProof("NONE")
    /\ pc = "idle" /\ sources = {} /\ todo = {}
    /\ firm = FALSE /\ losses = 0

Idle ==
    /\ pc' = "idle" /\ sources' = {} /\ todo' = {}
    /\ read' = NoProof("NONE")

----------------------------------------------------------------------------
(* sync *)

\* With any other number than the expected one the command ends at its first
\* line, and nothing has changed.
BeginSync ==
    /\ pc = "idle"
    /\ Cardinality(present) = Count
    /\ pc' = "enqueue" /\ sources' = present
    /\ UNCHANGED <<present, outbox, archive, mirror, proof, todo, read, firm,
                   losses>>

\* A slip: every record must be new to the outbox.
EnqueueFresh ==
    /\ pc = "enqueue"
    /\ IF sources \cap queued = {}
         THEN pc' = "drain" /\ queued' = queued \cup sources
              /\ UNCHANGED <<sources, todo, read>>
         ELSE Idle /\ UNCHANGED queued
    /\ UNCHANGED <<present, acked, archive, mirror, proof, firm, losses>>

\* Enqueueing, the manifest and the first answer of the service.
Enqueue ==
    /\ pc = "enqueue"
    /\ queued' = queued \cup sources
    /\ pc' = "drain"
    /\ UNCHANGED <<present, acked, archive, mirror, proof, sources, todo, read,
                   firm, losses>>

DrainBatch ==
    /\ pc = "drain"
    /\ \E B \in Batches(queued \ acked) :
        /\ stored' = stored \cup B
        /\ acked' = acked \cup B
    /\ UNCHANGED <<present, queued, claimed, mirror, proof, local, firm, losses>>

\* A slip: the records are not sent once more.
DrainIsEnough ==
    /\ pc = "drain"
    /\ queued \subseteq acked
    /\ pc' = "claim" /\ todo' = sources /\ firm' = TRUE
    /\ UNCHANGED <<present, outbox, archive, mirror, proof, sources, read,
                   losses>>

\* A slip: what is sent once more is listed anew.
ReplayFound ==
    /\ pc = "drain"
    /\ queued \subseteq acked
    /\ pc' = "replay" /\ todo' = present /\ firm' = TRUE
    /\ UNCHANGED <<present, outbox, archive, mirror, proof, sources, read,
                   losses>>

\* Nothing is pending, be it that the drain or the mirror sent it all.
DrainEnds ==
    /\ pc = "drain"
    /\ queued \subseteq acked
    /\ pc' = "replay" /\ todo' = sources /\ firm' = TRUE
    /\ UNCHANGED <<present, outbox, archive, mirror, proof, sources, read,
                   losses>>

\* All records are sent once more, and none of them may be new.
ReplayBatch ==
    /\ pc = "replay"
    /\ \E B \in Batches(todo \cap stored) : todo' = todo \ B
    /\ UNCHANGED <<present, outbox, archive, mirror, proof, pc, sources, read,
                   firm, losses>>

\* The assertion fails after the service has taken the batch over.
ReplayInserts ==
    /\ pc = "replay"
    /\ \E B \in Batches(todo) :
        /\ ~(B \subseteq stored)
        /\ stored' = stored \cup B
    /\ Idle
    /\ UNCHANGED <<present, outbox, claimed, mirror, proof, firm, losses>>

ReplayEnds ==
    /\ pc = "replay" /\ todo = {}
    /\ pc' = "claim" /\ todo' = sources
    /\ UNCHANGED <<present, outbox, archive, mirror, proof, sources, read, firm,
                   losses>>

\* A slip: the proof takes the records as they are found now.
WriteFound ==
    /\ pc = "claim" /\ todo = {}
    /\ proof' = [status |-> "LIVE_SYNC_COMPLETE", rows |-> present,
                 firm |-> firm]
    /\ Idle
    /\ UNCHANGED <<present, outbox, archive, mirror, firm, losses>>

WriteProof ==
    /\ pc = "claim" /\ todo = {}
    /\ proof' = [status |-> "LIVE_SYNC_COMPLETE", rows |-> sources,
                 firm |-> firm]
    /\ Idle
    /\ UNCHANGED <<present, outbox, archive, mirror, firm, losses>>

----------------------------------------------------------------------------
(* verify *)

\* It counts the records anew, and any number of them is as good.
BeginVerify ==
    /\ pc = "idle"
    /\ Readable(proof)
    /\ pc' = "count" /\ read' = proof /\ sources' = present /\ todo' = present
    /\ UNCHANGED <<present, outbox, archive, mirror, proof, firm, losses>>

\* /health of the Host must show the mirror, and the code of the baseline.
CheckHealth ==
    /\ pc = "count" /\ todo = {}
    /\ mirror
    /\ pc' = "query"
    /\ UNCHANGED <<present, outbox, archive, mirror, proof, sources, todo, read,
                   firm, losses>>

\* The memory tools must be listed, and must answer what was retained of the
\* two trials.
ReadBack ==
    /\ pc = "query"
    /\ mirror
    /\ Companion \subseteq stored
    /\ pc' = "reconnect"
    /\ UNCHANGED <<present, outbox, archive, mirror, proof, sources, todo, read,
                   firm, losses>>

\* They must answer in a second session too.
Reconnect ==
    /\ pc = "reconnect"
    /\ mirror
    /\ pc' = "confirm"
    /\ UNCHANGED <<present, outbox, archive, mirror, proof, sources, todo, read,
                   firm, losses>>

WriteVerified ==
    /\ pc = "confirm"
    /\ proof' = [read EXCEPT !.status = "LIVE_MCP_AND_MINIO_VERIFIED"]
    /\ Idle
    /\ UNCHANGED <<present, outbox, archive, mirror, firm, losses>>

----------------------------------------------------------------------------
(* Both commands *)

\* One checkpoint for each source that the list has records of.
PostCheckpoint ==
    /\ pc \in {"claim", "count"}
    /\ \E G \in Group :
        /\ todo \cap G # {}
        /\ claimed' = (claimed \ G) \cup (sources \cap G)
        /\ todo' = todo \ G
    /\ UNCHANGED <<present, outbox, stored, mirror, proof, pc, sources, read,
                   firm, losses>>

\* A request fails, and the service may have taken over what it carried.
RequestFails ==
    /\ \/ /\ pc = "drain"
          /\ \E B \in Batches(queued \ acked) : stored' \in {stored, stored \cup B}
       \/ /\ pc = "replay"
          /\ \E B \in Batches(todo) : stored' \in {stored, stored \cup B}
       \/ /\ pc \in {"enqueue", "claim", "count"}
          /\ UNCHANGED stored
    /\ Idle
    /\ UNCHANGED <<present, outbox, claimed, mirror, proof, firm, losses>>

\* The command ends anywhere: an assertion, an exception or a kill.  The proof
\* file is emptied before it is written.
Die ==
    /\ pc # "idle"
    /\ \/ UNCHANGED proof
       \/ /\ \/ pc = "claim" /\ todo = {}
             \/ pc = "confirm"
          /\ proof' = NoProof("TORN")
    /\ Idle
    /\ UNCHANGED <<present, outbox, archive, mirror, firm, losses>>

Command ==
    \/ Enqueue \/ DrainBatch \/ DrainEnds
    \/ ReplayBatch \/ ReplayInserts \/ ReplayEnds
    \/ PostCheckpoint \/ WriteProof
    \/ CheckHealth \/ ReadBack \/ Reconnect \/ WriteVerified

----------------------------------------------------------------------------
(* The Host, the Plugin and the archive service *)

\* The mirror stores what it exports or observes.
MirrorEnqueues ==
    /\ mirror
    /\ \E r \in Record \ queued : queued' = queued \cup {r}
    /\ UNCHANGED <<present, acked, archive, mirror, proof, local, firm, losses>>

MirrorDrains ==
    /\ mirror
    /\ \E B \in Batches(queued \ acked) :
        /\ stored' = stored \cup B
        /\ acked' \in {acked, acked \cup B}
    /\ UNCHANGED <<present, queued, claimed, mirror, proof, local, firm, losses>>

HostTurns ==
    /\ mirror' = ~mirror
    /\ UNCHANGED <<present, outbox, archive, proof, local, firm, losses>>

Retain ==
    /\ \E r \in Record \ present : present' = present \cup {r}
    /\ UNCHANGED <<outbox, archive, mirror, proof, local, firm, losses>>

\* The service is set up from an older copy, or from none.
Lose ==
    /\ losses < MaxLosses
    /\ losses' = losses + 1
    /\ stored' \in SUBSET stored /\ claimed' = {}
    /\ firm' = FALSE
    /\ proof' = [proof EXCEPT !.firm = FALSE]
    /\ read' = [read EXCEPT !.firm = FALSE]
    /\ UNCHANGED <<present, outbox, mirror, pc, sources, todo>>

Environment == MirrorEnqueues \/ MirrorDrains \/ HostTurns \/ Retain \/ Lose

Next ==
    BeginSync \/ BeginVerify \/ Command \/ RequestFails \/ Die \/ Environment

Spec == Init /\ [][Next]_vars

\* A command that was started goes on.  Nobody has to start one.
FairSpec == Spec /\ WF_vars(Command)

----------------------------------------------------------------------------
(* Properties *)

TypeOK ==
    /\ present \subseteq Record
    /\ queued \subseteq Record /\ acked \subseteq queued
    /\ stored \subseteq Record /\ claimed \subseteq Record
    /\ mirror \in BOOLEAN /\ firm \in BOOLEAN
    /\ proof \in Proof /\ read \in Proof
    /\ pc \in {"idle", "enqueue", "drain", "replay", "claim",
               "count", "query", "reconnect", "confirm"}
    /\ sources \subseteq Record /\ todo \subseteq sources
    /\ losses \in 0..MaxLosses

\* A proof, by sync or by verify after it, is of as many records as expected,
\* all of them acknowledged in the outbox and held by the service unless it lost
\* some since they were replayed, no matter what it had lost before
\* (verify_live_archive.py:102-112, 186).
ProofIsBacked ==
    Readable(proof) =>
        /\ Cardinality(proof.rows) = Count
        /\ proof.rows \subseteq acked
        /\ proof.firm => proof.rows \subseteq stored

\* The checkpoints that the present run of sync has posted count no record that
\* the service does not hold, unless the service lost some since the replay
\* began, which sync cannot notice: they are posted after the replay, of what was
\* replayed (verify_live_archive.py:104-107).
SyncClaimsOnlyHeld ==
    pc = "claim" /\ firm =>
        \A G \in Group :
            (sources \ todo) \cap G # {} => claimed \cap G \subseteq stored

\* A step that nothing but trouble explains.
Trouble == (RequestFails \/ Die \/ Lose) /\ ~Command

\* Once the trouble is over, an operator who starts sync again and again, with
\* the expected number of records at hand each time, gets a proof that is backed
\* and stays so, however much the service has lost: what it lost is inserted by
\* a replay that fails, and the replay of the next run passes
\* (verify_live_archive.py:77-78, 102-112).
Completes ==
    (<>[][~Trouble]_vars /\ []<><<BeginSync>>_vars)
        => <>[](Readable(proof) /\ proof.firm)

=============================================================================
