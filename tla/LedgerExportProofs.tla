------------------------ MODULE LedgerExportProofs ------------------------
(***************************************************************************)
(* Proofs about LedgerExport, for any runs, attempts, origins and files.   *)
(* The Ledger only grows, so whatever the export reads late is no older    *)
(* than what it read first.                                                *)
(***************************************************************************)
EXTENDS LedgerExport, TLAPS

----------------------------------------------------------------------------
(* Growth *)

\* The Plugin adds rows, raises revisions and completes receipts.
LEMMA PluginGrows ==
    ASSUME TypeOK, PluginWrites
    PROVE  /\ runs' \in [Run -> 0..MaxRevision]
           /\ \A r \in Run : runs[r] =< runs'[r]
           /\ operations \subseteq operations' /\ operations' \subseteq Run
           /\ artifacts \subseteq artifacts' /\ artifacts' \subseteq Artifact
           /\ receipts' \in [File -> {"absent", "part", "whole"}]
           /\ Present \subseteq Present'
           /\ Whole \subseteq Whole'
<1> USE ConstantsAssumption DEF TypeOK, Rows, Live
<1>1. ASSUME NEW r \in Run, SaveRun(r)
      PROVE  /\ runs' \in [Run -> 0..MaxRevision]
             /\ \A s \in Run : runs[s] =< runs'[s]
             /\ UNCHANGED <<operations, artifacts, receipts>>
    BY <1>1 DEF SaveRun
<1>2. ASSUME NEW r \in Run, AddOperation(r)
      PROVE  /\ UNCHANGED <<runs, artifacts, receipts>>
             /\ operations \subseteq operations' /\ operations' \subseteq Run
    BY <1>2 DEF AddOperation
<1>3. ASSUME NEW a \in Artifact, AddArtifact(a)
      PROVE  /\ UNCHANGED <<runs, operations, receipts>>
             /\ artifacts \subseteq artifacts' /\ artifacts' \subseteq Artifact
    BY <1>3 DEF AddArtifact
<1>4. ASSUME NEW f \in File, WriteReceipt(f)
      PROVE  /\ UNCHANGED <<runs, operations, artifacts>>
             /\ receipts' \in [File -> {"absent", "part", "whole"}]
             /\ Present \subseteq Present'
             /\ Whole \subseteq Whole'
    BY <1>4 DEF WriteReceipt, Present, Whole
<1>5. /\ runs \in [Run -> 0..MaxRevision]
      /\ \A r \in Run : runs[r] =< runs[r]
      /\ operations \subseteq Run /\ artifacts \subseteq Artifact
      /\ receipts \in [File -> {"absent", "part", "whole"}]
    OBVIOUS
<1>6. receipts' = receipts => Present' = Present /\ Whole' = Whole
    BY DEF Present, Whole
<1> QED BY <1>1, <1>2, <1>3, <1>4, <1>5, <1>6 DEF PluginWrites

\* The more is known of the Ledger, the more receipts belong to the Work.
LEMMA BelongsGrows ==
    ASSUME NEW S, NEW T, S \subseteq T
    PROVE  BelongsTo(S) \subseteq BelongsTo(T) /\ ByAttempt(S) \subseteq ByAttempt(T)
    BY DEF BelongsTo, Belongs, ByAttempt

----------------------------------------------------------------------------
(* Type correctness *)

LEMMA NothingTyped == Nothing \in Exported
    BY ConstantsAssumption DEF Nothing, Exported

LEMMA InitTypeOK == Init => TypeOK
    BY NothingTyped, ConstantsAssumption
       DEF Init, TypeOK, Live, Rows, Present

LEMMA StepTypeOK == TypeOK /\ [Next]_vars => TypeOK'
<1> SUFFICES ASSUME TypeOK, [Next]_vars PROVE TypeOK'
    OBVIOUS
<1> USE DEF TypeOK, Rows, Exported, Live
<1>1. CASE PluginWrites
    <2>1. UNCHANGED <<names, pc, snapshot, attempts, origins, listing, out, base>>
        BY <1>1 DEF PluginWrites
    <2>2. listing' \in SUBSET Present'
        BY <1>1, <2>1, PluginGrows
    <2> QED BY <1>1, <2>1, <2>2, PluginGrows DEF names
<1>2. ASSUME UNCHANGED <<ledger, names>>
      PROVE  /\ Live' \in Rows /\ Present' = Present /\ Whole' = Whole
             /\ receipts' \in [File -> {"absent", "part", "whole"}]
             /\ attemptOf' \in [File -> Attempt \cup {None}]
             /\ originOf' \in [File -> Origin \cup {None}]
    BY <1>2 DEF ledger, names, Present, Whole
<1>3. CASE ReadRuns
    <2>1. out' \in Exported /\ base' \in Exported
        BY <1>3, NothingTyped DEF ReadRuns, Nothing, Whole
    <2> QED BY <1>2, <1>3, <2>1 DEF ReadRuns
<1>4. CASE ReadArtifacts
    BY <1>2, <1>4 DEF ReadArtifacts, Seen
<1>5. CASE ReadOperations
    BY <1>2, <1>5 DEF ReadOperations, Seen
<1>6. CASE ReadAttempts
    BY <1>2, <1>6 DEF ReadAttempts
<1>7. CASE ReadOrigins
    BY <1>2, <1>7 DEF ReadOrigins
<1>8. CASE ListReceipts
    BY <1>2, <1>8 DEF ListReceipts
<1>9. ASSUME NEW f \in File, ReadReceipt(f) PROVE TypeOK'
    BY <1>2, <1>9 DEF ReadReceipt, Filed
<1>10. CASE Finish
    BY <1>2, <1>10 DEF Finish
<1>11. CASE Fail
    BY <1>2, <1>11, NothingTyped DEF Fail
<1>12. CASE UNCHANGED vars
    BY <1>2, <1>12 DEF vars
<1> QED BY <1>1, <1>3, <1>4, <1>5, <1>6, <1>7, <1>8, <1>9, <1>10, <1>11, <1>12
        DEF Next, Export

\* The export and the Ledger it reads keep their shape.
THEOREM TypeCorrect == Spec => []TypeOK
<1> QED BY InitTypeOK, StepTypeOK, PTL DEF Spec

----------------------------------------------------------------------------
(* The inductive invariant *)

LEMMA InitIInv == Init => IInv
<1> SUFFICES ASSUME Init PROVE IInv
    OBVIOUS
<1>1. TypeOK
    BY InitTypeOK
<1> QED BY <1>1 DEF Init, IInv, GrowthInv, TransactionInv, ReceiptInv, Nothing

\* While the Plugin writes, what was read stays a part of what there is.
LEMMA PluginIInv ==
    ASSUME IInv, PluginWrites, TypeOK'
    PROVE  IInv'
<1>0. UNCHANGED <<names, pc, snapshot, attempts, origins, listing, out, base>>
    BY DEF PluginWrites
<1>1. /\ \A r \in Run : runs[r] =< runs'[r] /\ runs'[r] \in Nat
      /\ operations \subseteq operations'
      /\ artifacts \subseteq artifacts'
      /\ Whole \subseteq Whole'
    BY PluginGrows DEF IInv
<1>2. GrowthInv'
    <2>1. \A r \in operations' : runs'[r] > 0
        <3>1. ASSUME NEW r \in operations PROVE runs'[r] > 0
            BY <1>1 DEF IInv, GrowthInv, TypeOK, Rows, Live
        <3>2. ASSUME NEW r \in operations', r \notin operations
              PROVE  runs'[r] > 0
            BY <3>2 DEF PluginWrites, SaveRun, AddOperation, AddArtifact,
                        WriteReceipt
        <3> QED BY <3>1, <3>2
    <2>2. \A r \in Run : base'.runs[r] =< runs'[r]
        BY <1>0, <1>1 DEF IInv, GrowthInv, TypeOK, Rows, Live, Exported
    <2> QED BY <1>0, <1>1, <2>1, <2>2 DEF IInv, GrowthInv
<1>3. TransactionInv'
    BY <1>0 DEF IInv, TransactionInv
<1>4. ReceiptInv'
    <2>1. \A S : BelongsTo(S)' = BelongsTo(S)
        BY <1>0 DEF names, BelongsTo, Belongs
    <2>2. /\ BelongsTo(artifacts) \subseteq BelongsTo(artifacts')
          /\ ByAttempt(artifacts) \subseteq ByAttempt(artifacts')
        BY <1>1, BelongsGrows
    <2>3. /\ BelongsTo(artifacts)' = BelongsTo(artifacts')
          /\ ByAttempt(artifacts)' = ByAttempt(artifacts')
        BY <1>0 DEF names, BelongsTo, Belongs, ByAttempt
    <2>4. /\ BelongsTo(base.artifacts)' = BelongsTo(base.artifacts)
          /\ ByAttempt(base.artifacts)' = ByAttempt(base.artifacts)
        BY <1>0 DEF names, BelongsTo, Belongs, ByAttempt
    <2> QED BY <1>0, <1>1, <2>2, <2>3, <2>4 DEF IInv, ReceiptInv
<1> QED BY <1>2, <1>3, <1>4 DEF IInv

\* A step of the export leaves the Ledger as it is.
LEMMA ExportReads ==
    ASSUME Export
    PROVE  UNCHANGED <<ledger, names>>
    BY DEF Export, ReadRuns, ReadArtifacts, ReadOperations, ReadAttempts,
           ReadOrigins, ListReceipts, ReadReceipt, Finish, Fail

LEMMA ExportIInv ==
    ASSUME IInv, Export, TypeOK'
    PROVE  IInv'
<1>0. /\ UNCHANGED <<runs, operations, artifacts, receipts>>
      /\ Whole' = Whole /\ Present' = Present
      /\ BelongsTo(artifacts)' = BelongsTo(artifacts)
      /\ base' = base =>
            BelongsTo(base.artifacts)' = BelongsTo(base.artifacts)
      /\ BelongsTo(base'.artifacts) = BelongsTo(base.artifacts)'
      /\ ByAttempt(artifacts)' = ByAttempt(artifacts)
      /\ base' = base =>
            ByAttempt(base.artifacts)' = ByAttempt(base.artifacts)
      /\ ByAttempt(base'.artifacts) = ByAttempt(base.artifacts)'
    BY ExportReads
       DEF ledger, names, Whole, Present, BelongsTo, Belongs, ByAttempt
<1> USE DEF IInv
<1>1. CASE ReadRuns
    <2>1. /\ base' = [runs |-> runs, operations |-> operations,
                      artifacts |-> artifacts, receipts |-> Whole,
                      attempted |-> {}]
          /\ out' = [Nothing EXCEPT !.runs = runs]
          /\ snapshot' = Live /\ pc = "idle" /\ pc' = "artifacts"
          /\ UNCHANGED <<attempts, origins, listing>>
        BY <1>1 DEF ReadRuns
    <2>2. GrowthInv'
        BY <1>0, <2>1 DEF GrowthInv, TypeOK, Rows, Live
    <2>3. TransactionInv'
        BY <2>1 DEF TransactionInv, Nothing, Live
    <2>4. ReceiptInv'
        BY <1>0, <2>1 DEF ReceiptInv, Nothing
    <2> QED BY <2>2, <2>3, <2>4
<1>2. CASE ReadArtifacts
    <2>1. GrowthInv'
        BY <1>0, <1>2 DEF ReadArtifacts, GrowthInv
    <2>2. TransactionInv'
        BY <1>2 DEF ReadArtifacts, Seen, TransactionInv, TypeOK, Exported
    <2>3. ReceiptInv'
        BY <1>0, <1>2 DEF ReadArtifacts, ReceiptInv, TypeOK, Exported
    <2> QED BY <2>1, <2>2, <2>3
<1>3. CASE ReadOperations
    <2>1. GrowthInv'
        BY <1>0, <1>3 DEF ReadOperations, GrowthInv
    <2>2. TransactionInv'
        BY <1>3 DEF ReadOperations, Seen, TransactionInv, TypeOK, Exported
    <2>3. ReceiptInv'
        BY <1>0, <1>3 DEF ReadOperations, ReceiptInv, TypeOK, Exported
    <2> QED BY <2>1, <2>2, <2>3
<1>4. CASE ReadAttempts
    <2>1. GrowthInv'
        BY <1>0, <1>4 DEF ReadAttempts, GrowthInv
    <2>2. TransactionInv'
        BY <1>4 DEF ReadAttempts, TransactionInv
    <2>3. ReceiptInv'
        BY <1>0, <1>4 DEF ReadAttempts, ReceiptInv, GrowthInv
    <2> QED BY <2>1, <2>2, <2>3
<1>5. CASE ReadOrigins
    <2>1. GrowthInv'
        BY <1>0, <1>5 DEF ReadOrigins, GrowthInv
    <2>2. TransactionInv'
        BY <1>5 DEF ReadOrigins, TransactionInv
    <2>3. ReceiptInv'
        BY <1>0, <1>5 DEF ReadOrigins, ReceiptInv, GrowthInv
    <2> QED BY <2>1, <2>2, <2>3
<1>6. CASE ListReceipts
    <2>1. GrowthInv'
        BY <1>0, <1>6 DEF ListReceipts, GrowthInv
    <2>2. TransactionInv'
        BY <1>6 DEF ListReceipts, TransactionInv
    <2>3. base.receipts \subseteq Present
        BY DEF GrowthInv, Whole, Present
    <2>4. ReceiptInv'
        BY <1>0, <1>6, <2>3 DEF ListReceipts, ReceiptInv
    <2> QED BY <2>1, <2>2, <2>4
<1>7. ASSUME NEW f \in File, ReadReceipt(f) PROVE IInv'
    <2>1. /\ pc = "read" /\ pc' = "read" /\ f \in listing
          /\ listing' = listing \ {f}
          /\ UNCHANGED <<snapshot, attempts, origins, base>>
        BY <1>7 DEF ReadReceipt
    <2>2. out' = IF f \in Whole /\ Belongs(f, attempts, origins)
                 THEN Filed(f) ELSE out
        BY <1>7 DEF ReadReceipt, Whole
    <2>3. /\ out'.runs = out.runs /\ out'.artifacts = out.artifacts
          /\ out'.operations = out.operations
          /\ out'.receipts = IF f \in Whole /\ Belongs(f, attempts, origins)
                             THEN out.receipts \cup {f} ELSE out.receipts
          /\ out'.attempted =
                IF f \in Whole /\ Belongs(f, attempts, origins)
                THEN out.attempted \cup ({f} \cap ByAttempt(attempts))
                ELSE out.attempted
        BY <2>2 DEF TypeOK, Exported, Filed
    <2>4. GrowthInv'
        BY <1>0, <2>1 DEF GrowthInv
    <2>5. TransactionInv'
        BY <2>1, <2>3 DEF TransactionInv
    <2>6. Belongs(f, attempts, origins) => f \in BelongsTo(artifacts)
        BY <1>7 DEF ReceiptInv, Belongs, BelongsTo
    <2>7. ASSUME f \in base.receipts, f \in BelongsTo(base.artifacts)
          PROVE  f \in Whole /\ Belongs(f, attempts, origins)
        <3>1. f \in Whole
            BY <2>7 DEF GrowthInv
        <3>2. attemptOf[f] \in base.artifacts \/ originOf[f] \in base.artifacts
            BY <2>7 DEF BelongsTo, Belongs
        <3>3. /\ attemptOf[f] \in Attempt \cup {None}
              /\ originOf[f] \in Origin \cup {None}
              /\ None \notin base.artifacts
            BY ConstantsAssumption DEF TypeOK, Exported, Artifact
        <3>4. /\ base.artifacts \cap Attempt \subseteq attempts
              /\ base.artifacts \cap Origin \subseteq origins
            BY <2>1 DEF ReceiptInv
        <3> QED BY <3>1, <3>2, <3>3, <3>4 DEF Belongs
    <2>8. /\ base.artifacts \cap Attempt \subseteq attempts
          /\ attempts \subseteq artifacts
        BY <2>1 DEF ReceiptInv
    <2>9. ASSUME f \in base.receipts, f \in ByAttempt(base.artifacts)
          PROVE  /\ f \in Whole /\ Belongs(f, attempts, origins)
                 /\ f \in ByAttempt(attempts)
        <3>1. f \in Whole
            BY <2>9 DEF GrowthInv
        <3>2. attemptOf[f] \in base.artifacts /\ f \in File
            BY <2>9 DEF ByAttempt
        <3>3. attemptOf[f] \in Attempt
            BY <3>2, ConstantsAssumption DEF TypeOK, Exported, Artifact
        <3> QED BY <2>8, <3>1, <3>2, <3>3 DEF Belongs, ByAttempt
    <2>10. ByAttempt(attempts) \subseteq ByAttempt(artifacts)
        BY <2>8, BelongsGrows
    <2>11. ReceiptInv'
        BY <1>0, <2>1, <2>3, <2>6, <2>7, <2>9, <2>10 DEF ReceiptInv
    <2> QED BY <2>4, <2>5, <2>11
<1>8. CASE Finish
    <2>1. GrowthInv'
        BY <1>0, <1>8 DEF Finish, GrowthInv
    <2>2. TransactionInv'
        BY <1>8 DEF Finish, TransactionInv
    <2>3. ReceiptInv'
        BY <1>0, <1>8 DEF Finish, ReceiptInv
    <2> QED BY <2>1, <2>2, <2>3
<1>9. CASE Fail
    <2>1. GrowthInv'
        BY <1>0, <1>9 DEF Fail, GrowthInv, Nothing, TypeOK, Rows, Live
    <2>2. TransactionInv'
        BY <1>9 DEF Fail, TransactionInv, Nothing
    <2>3. ReceiptInv'
        BY <1>0, <1>9 DEF Fail, ReceiptInv, Nothing
    <2> QED BY <2>1, <2>2, <2>3
<1> QED BY <1>1, <1>2, <1>3, <1>4, <1>5, <1>6, <1>7, <1>8, <1>9 DEF Export

LEMMA StepIInv == IInv /\ [Next]_vars => IInv'
<1> SUFFICES ASSUME IInv, [Next]_vars PROVE IInv'
    OBVIOUS
<1>1. TypeOK'
    BY StepTypeOK DEF IInv
<1>2. CASE PluginWrites
    BY <1>1, <1>2, PluginIInv
<1>3. CASE Export
    BY <1>1, <1>3, ExportIInv
<1>4. CASE UNCHANGED vars
    BY <1>1, <1>4 DEF vars, ledger, names, IInv, GrowthInv, TransactionInv,
                      ReceiptInv, Whole, BelongsTo, Belongs, ByAttempt
<1> QED BY <1>2, <1>3, <1>4 DEF Next

\* Every part of an export that is under way lies between the Ledger at its
\* first SELECT and the Ledger now.
THEOREM IInvHolds == Spec => []IInv
<1> QED BY InitIInv, StepIInv, PTL DEF Spec

----------------------------------------------------------------------------
(* Results *)

\* No export meets an operation whose run it has not read, however the Plugin
\* writes in between (archive_sync.py:45-62).
THEOREM NoOperationWithoutRun == Spec => []OperationsHaveRuns
<1>1. IInv => OperationsHaveRuns
    BY DEF IInv, GrowthInv, TransactionInv, OperationsHaveRuns
<1> QED BY <1>1, IInvHolds, PTL

\* An export that ends holds all that was there when it began, and nothing that
\* is not there now (archive_sync.py:43-87).
THEOREM ExportsAreBetween == Spec => []ExportIsBetween
<1>1. IInv => ExportIsBetween
    <2> SUFFICES ASSUME IInv, pc = "idle"
                 PROVE  /\ \A r \in Run : base.runs[r] =< out.runs[r]
                                            /\ out.runs[r] =< runs[r]
                        /\ base.operations \subseteq out.operations
                        /\ out.operations \subseteq operations
                        /\ base.artifacts \subseteq out.artifacts
                        /\ out.artifacts \subseteq artifacts
                        /\ base.receipts \cap BelongsTo(base.artifacts)
                                \subseteq out.receipts
                        /\ out.receipts \subseteq Whole \cap BelongsTo(artifacts)
                        /\ base.receipts \cap ByAttempt(base.artifacts)
                                \subseteq out.attempted
                        /\ out.attempted
                                \subseteq out.receipts \cap ByAttempt(artifacts)
        BY DEF ExportIsBetween
    <2>1. \A r \in Run : base.runs[r] \in Nat
        BY DEF IInv, TypeOK, Exported
    <2> QED BY <2>1 DEF IInv, GrowthInv, TransactionInv, ReceiptInv
<1> QED BY <1>1, IInvHolds, PTL

=============================================================================
