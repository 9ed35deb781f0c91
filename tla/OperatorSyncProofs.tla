------------------------- MODULE OperatorSyncProofs -------------------------
(***************************************************************************)
(* The operator's commands of OperatorSync, for any records, any expected  *)
(* number of them, any batch size and any number of losses.  The proof     *)
(* follows the list from the outbox through the replay to the file: what   *)
(* is established at one step is kept by all that happens until the next,  *)
(* and a loss withdraws only what is said of the service.                  *)
(***************************************************************************)
EXTENDS OperatorSync, TLAPS

\* What a proof says, whether it stands in the file or was read from it.
Backed(p) ==
    Readable(p) =>
        /\ Cardinality(p.rows) = Count
        /\ p.rows \subseteq acked
        /\ p.firm => p.rows \subseteq stored

\* What a run of sync has established about its list, wherever it is.
RunInv ==
    /\ pc \in {"idle", "enqueue", "drain"} => todo = {}
    /\ pc \in {"enqueue", "drain", "replay", "claim"} =>
            Cardinality(sources) = Count
    /\ pc \in {"drain", "replay", "claim"} => sources \subseteq queued
    /\ pc \in {"replay", "claim"} => sources \subseteq acked
    /\ pc = "replay" /\ firm => sources \ todo \subseteq stored
    /\ pc = "claim" /\ firm => sources \subseteq stored
    /\ pc = "claim" =>
            \A G \in Group :
                (sources \ todo) \cap G # {} => claimed \cap G \subseteq sources
    /\ pc \in {"count", "query", "reconnect", "confirm"} =>
            Readable(read)

IInv == TypeOK /\ RunInv /\ Backed(proof) /\ Backed(read)

----------------------------------------------------------------------------
(* Initial states and types *)

LEMMA NoProofIsProof ==
    ASSUME NEW s \in {"NONE", "TORN"}
    PROVE  /\ NoProof(s) \in Proof
           /\ ~Readable(NoProof(s))
    BY DEF NoProof, Proof, Readable

\* Neither a loss nor verify changes the rows of a proof.
LEMMA ProofUpdates ==
    ASSUME NEW p \in Proof
    PROVE  /\ [p EXCEPT !.firm = FALSE] \in Proof
           /\ [p EXCEPT !.firm = FALSE].rows = p.rows
           /\ [p EXCEPT !.firm = FALSE].status = p.status
           /\ ~[p EXCEPT !.firm = FALSE].firm
           /\ [p EXCEPT !.status = "LIVE_MCP_AND_MINIO_VERIFIED"] \in Proof
           /\ [p EXCEPT !.status = "LIVE_MCP_AND_MINIO_VERIFIED"].rows = p.rows
           /\ [p EXCEPT !.status = "LIVE_MCP_AND_MINIO_VERIFIED"].firm = p.firm
    BY DEF Proof

LEMMA InitIInv == Init => IInv
<1> SUFFICES ASSUME Init PROVE IInv
    OBVIOUS
<1>1. TypeOK
    <2>1. 0 \in 0..MaxLosses
        BY ConstantsAssumption
    <2> QED BY <2>1, NoProofIsProof DEF Init, TypeOK
<1>2. RunInv
    BY DEF Init, RunInv
<1>3. Backed(proof) /\ Backed(read)
    BY NoProofIsProof DEF Init, Backed
<1> QED BY <1>1, <1>2, <1>3 DEF IInv

LEMMA BatchesAreSubsets ==
    ASSUME NEW S, NEW B \in Batches(S)
    PROVE  B \subseteq S
    BY DEF Batches

LEMMA StepTypeOK == ASSUME TypeOK, RunInv, [Next]_vars PROVE TypeOK'
<1> USE ConstantsAssumption, NoProofIsProof, BatchesAreSubsets
        DEF TypeOK, outbox, archive, local
<1>1. CASE BeginSync
    BY <1>1 DEF BeginSync, RunInv
<1>2. CASE BeginVerify
    BY <1>2 DEF BeginVerify
<1>3. CASE Enqueue
    BY <1>3 DEF Enqueue
<1>4. CASE DrainBatch
    BY <1>4 DEF DrainBatch
<1>5. CASE DrainEnds
    BY <1>5 DEF DrainEnds
<1>6. CASE ReplayBatch
    BY <1>6 DEF ReplayBatch
<1>7. CASE ReplayInserts
    BY <1>7 DEF ReplayInserts, Idle
<1>8. CASE ReplayEnds
    BY <1>8 DEF ReplayEnds
<1>9. CASE PostCheckpoint
    BY <1>9 DEF PostCheckpoint, Group
<1>10. CASE WriteProof
    BY <1>10 DEF WriteProof, Idle, Proof
<1>11. CASE CheckHealth \/ ReadBack \/ Reconnect
    BY <1>11 DEF CheckHealth, ReadBack, Reconnect
<1>12. CASE WriteVerified
    BY <1>12, ProofUpdates DEF WriteVerified, Idle
<1>13. CASE RequestFails
    BY <1>13 DEF RequestFails, Idle
<1>14. CASE Die
    BY <1>14 DEF Die, Idle, Proof
<1>15. CASE MirrorEnqueues
    BY <1>15 DEF MirrorEnqueues
<1>16. CASE MirrorDrains
    BY <1>16 DEF MirrorDrains
<1>17. CASE HostTurns
    BY <1>17 DEF HostTurns
<1>18. CASE Retain
    BY <1>18 DEF Retain
<1>19. CASE Lose
    <2>1. proof' \in Proof /\ read' \in Proof
        BY <1>19, ProofUpdates DEF Lose
    <2>2. losses' \in 0..MaxLosses
        BY <1>19 DEF Lose
    <2> QED BY <1>19, <2>1, <2>2 DEF Lose
<1>20. CASE UNCHANGED vars
    BY <1>20 DEF vars
<1> QED
    BY <1>1, <1>2, <1>3, <1>4, <1>5, <1>6, <1>7,
       <1>8, <1>9, <1>10, <1>11, <1>12, <1>13, <1>14,
       <1>15, <1>16, <1>17, <1>18, <1>19, <1>20
       DEF Next, Command, Environment

----------------------------------------------------------------------------
(* What is established is kept *)

LEMMA StepRunInv == ASSUME TypeOK, RunInv, [Next]_vars PROVE RunInv'
<1> USE BatchesAreSubsets DEF TypeOK, RunInv, Readable, outbox, archive, local
<1>1. CASE BeginSync
    BY <1>1 DEF BeginSync
<1>2. CASE BeginVerify
    BY <1>2 DEF BeginVerify
<1>3. CASE Enqueue
    BY <1>3 DEF Enqueue
<1>4. CASE DrainBatch
    BY <1>4 DEF DrainBatch
<1>5. CASE DrainEnds
    BY <1>5 DEF DrainEnds
<1>6. CASE ReplayBatch
    BY <1>6 DEF ReplayBatch
<1>7. CASE ReplayInserts
    BY <1>7 DEF ReplayInserts, Idle
<1>8. CASE ReplayEnds
    BY <1>8 DEF ReplayEnds
<1>9. CASE PostCheckpoint
    <2>1. PICK G \in Group :
              /\ claimed' = (claimed \ G) \cup (sources \cap G)
              /\ todo' = todo \ G
        BY <1>9 DEF PostCheckpoint
    <2>2. UNCHANGED <<queued, acked, stored, pc, sources, read, firm>>
        BY <1>9 DEF PostCheckpoint
    \* The other source is where it was.
    <2>3. pc = "claim" =>
            \A H \in Group :
                (sources \ todo') \cap H # {} => claimed' \cap H \subseteq sources
        BY <2>1 DEF Group
    <2>4. pc \in {"claim", "count"}
        BY <1>9 DEF PostCheckpoint
    <2> QED BY <2>2, <2>3, <2>4
<1>10. CASE WriteProof
    BY <1>10 DEF WriteProof, Idle
<1>11. CASE CheckHealth \/ ReadBack \/ Reconnect
    BY <1>11 DEF CheckHealth, ReadBack, Reconnect
<1>12. CASE WriteVerified
    BY <1>12 DEF WriteVerified, Idle
<1>13. CASE RequestFails
    BY <1>13 DEF RequestFails, Idle
<1>14. CASE Die
    BY <1>14 DEF Die, Idle
<1>15. CASE MirrorEnqueues
    BY <1>15 DEF MirrorEnqueues
<1>16. CASE MirrorDrains
    BY <1>16 DEF MirrorDrains
<1>17. CASE HostTurns
    BY <1>17 DEF HostTurns
<1>18. CASE Retain
    BY <1>18 DEF Retain
<1>19. CASE Lose
    BY <1>19 DEF Lose
<1>20. CASE UNCHANGED vars
    BY <1>20 DEF vars
<1> QED
    BY <1>1, <1>2, <1>3, <1>4, <1>5, <1>6, <1>7,
       <1>8, <1>9, <1>10, <1>11, <1>12, <1>13, <1>14,
       <1>15, <1>16, <1>17, <1>18, <1>19, <1>20
       DEF Next, Command, Environment

\* A proof stays backed as long as its rows stay acknowledged and held; one
\* that may have lost rows is not firm any more.
LEMMA StepBacked ==
    ASSUME IInv, [Next]_vars
    PROVE  Backed(proof)' /\ Backed(read)'
<1> USE BatchesAreSubsets, NoProofIsProof
        DEF IInv, TypeOK, outbox, archive, local
\* Nothing but a loss takes from what is acknowledged or held.
<1>1. CASE Lose
    BY <1>1, ProofUpdates DEF Lose, Backed, Readable
<1>2. ASSUME ~Lose
      PROVE  acked \subseteq acked' /\ stored \subseteq stored'
    <2> USE <1>2
    <2>1. CASE BeginSync
        BY <2>1 DEF BeginSync
    <2>2. CASE BeginVerify
        BY <2>2 DEF BeginVerify
    <2>3. CASE Enqueue
        BY <2>3 DEF Enqueue
    <2>4. CASE DrainBatch
        BY <2>4 DEF DrainBatch
    <2>5. CASE DrainEnds
        BY <2>5 DEF DrainEnds
    <2>6. CASE ReplayBatch
        BY <2>6 DEF ReplayBatch
    <2>7. CASE ReplayInserts
        BY <2>7 DEF ReplayInserts, Idle
    <2>8. CASE ReplayEnds
        BY <2>8 DEF ReplayEnds
    <2>9. CASE PostCheckpoint
        BY <2>9 DEF PostCheckpoint
    <2>10. CASE WriteProof
        BY <2>10 DEF WriteProof, Idle
    <2>11. CASE CheckHealth \/ ReadBack \/ Reconnect
        BY <2>11 DEF CheckHealth, ReadBack, Reconnect
    <2>12. CASE WriteVerified
        BY <2>12 DEF WriteVerified, Idle
    <2>13. CASE RequestFails
        BY <2>13 DEF RequestFails, Idle
    <2>14. CASE Die
        BY <2>14 DEF Die, Idle
    <2>15. CASE MirrorEnqueues
        BY <2>15 DEF MirrorEnqueues
    <2>16. CASE MirrorDrains
        BY <2>16 DEF MirrorDrains
    <2>17. CASE HostTurns
        BY <2>17 DEF HostTurns
    <2>18. CASE Retain
        BY <2>18 DEF Retain
    <2>19. CASE UNCHANGED vars
        BY <2>19 DEF vars
    <2> QED
        BY <2>1, <2>2, <2>3, <2>4, <2>5, <2>6, <2>7,
           <2>8, <2>9, <2>10, <2>11, <2>12, <2>13, <2>14,
           <2>15, <2>16, <2>17, <2>18, <2>19
           DEF Next, Command, Environment
<1>3. CASE ~Lose
    <2>1. acked \subseteq acked' /\ stored \subseteq stored'
        BY <1>2, <1>3
    <2>2. CASE UNCHANGED <<proof, read>>
        BY <2>1, <2>2 DEF Backed
    <2>3. CASE proof' = proof /\ read' = NoProof("NONE")
        BY <2>1, <2>3 DEF Backed
    <2>4. CASE BeginVerify
        BY <2>1, <2>4 DEF BeginVerify, Backed
    <2>5. CASE WriteProof
        BY <2>1, <2>5 DEF WriteProof, Idle, Backed, RunInv, Readable
    <2>6. CASE WriteVerified
        <3>1. Readable(read)
            BY <2>6 DEF WriteVerified, RunInv
        <3> QED BY <2>1, <2>6, <3>1, ProofUpdates
                DEF WriteVerified, Idle, Backed
    <2>7. CASE Die
        BY <2>1, <2>7 DEF Die, Idle, Backed
    <2>8. CASE ReplayInserts \/ RequestFails
        BY <2>8, <2>3 DEF ReplayInserts, RequestFails, Idle
    <2>9. CASE \/ BeginSync \/ Enqueue \/ DrainBatch \/ DrainEnds
               \/ ReplayBatch \/ ReplayEnds \/ PostCheckpoint
               \/ CheckHealth \/ ReadBack \/ Reconnect
        BY <2>9, <2>2
           DEF BeginSync, Enqueue, DrainBatch, DrainEnds, ReplayBatch,
               ReplayEnds, PostCheckpoint, CheckHealth, ReadBack, Reconnect
    <2>10. CASE MirrorEnqueues \/ MirrorDrains \/ HostTurns \/ Retain
        BY <2>10, <2>2 DEF MirrorEnqueues, MirrorDrains, HostTurns, Retain
    <2>11. CASE UNCHANGED vars
        BY <2>11, <2>2 DEF vars
    <2> QED
        BY <1>3, <2>4, <2>5, <2>6, <2>7, <2>8, <2>9, <2>10, <2>11
           DEF Next, Command, Environment
<1> QED BY <1>1, <1>3

----------------------------------------------------------------------------
(* The theorems *)

\* The invariant the other results rest on.
THEOREM IInvHolds == Spec => []IInv
<1>1. ASSUME IInv, [Next]_vars PROVE IInv'
    BY <1>1, StepTypeOK, StepRunInv, StepBacked DEF IInv
<1> QED BY InitIInv, <1>1, PTL DEF Spec

\* Every variable keeps its type.
THEOREM TypeCorrect == Spec => []TypeOK
<1>1. IInv => TypeOK
    BY DEF IInv
<1> QED BY <1>1, IInvHolds, PTL

\* A proof file says nothing the outbox and the service do not bear out.
THEOREM ProofsAreBacked == Spec => []ProofIsBacked
<1>1. IInv => ProofIsBacked
    BY DEF IInv, Backed, ProofIsBacked
<1> QED BY <1>1, IInvHolds, PTL

\* The checkpoints that the present run of sync has posted count only what the
\* service holds, unless it lost something since the replay began.
THEOREM ClaimsAreHeld == Spec => []SyncClaimsOnlyHeld
<1>1. IInv => SyncClaimsOnlyHeld
    BY DEF IInv, RunInv, SyncClaimsOnlyHeld
<1> QED BY <1>1, IInvHolds, PTL

=============================================================================
