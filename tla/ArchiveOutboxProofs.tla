------------------------ MODULE ArchiveOutboxProofs ------------------------
(***************************************************************************)
(* Proofs about ArchiveOutbox, for every set of records, writers, drainers *)
(* and keys, every batch size and every bound on the lists.                *)
(***************************************************************************)
EXTENDS ArchiveOutbox, SequenceTheorems, FiniteSetTheorems, TLAPS

----------------------------------------------------------------------------
(* Lemmas about sequences *)

\* The lists an enqueue may be given are sequences of records, and an empty
\* call is one of them.
LEMMA ListsAreSequences ==
    /\ <<>> \in Lists
    /\ Lists \subseteq Seq(Record)
<1>1. <<>> \in [1..0 -> Record]
    OBVIOUS
<1>2. ASSUME NEW n \in 0..MaxList PROVE [1..n -> Record] \subseteq Seq(Record)
    BY ConstantsAssumption, SeqDef
<1> QED
    BY <1>1, <1>2, ConstantsAssumption DEF Lists

\* Appending rows to a table keeps the old rows where they are and adds
\* nothing but the appended ones.
LEMMA ConcatRange ==
    ASSUME NEW S, NEW s \in Seq(S), NEW t \in Seq(S)
    PROVE  /\ s \o t \in Seq(S)
           /\ Len(s \o t) = Len(s) + Len(t)
           /\ \A i \in DOMAIN s : i \in DOMAIN (s \o t) /\ (s \o t)[i] = s[i]
           /\ Range(s \o t) = Range(s) \cup Range(t)
<1>1. /\ s \o t \in Seq(S)
      /\ Len(s \o t) = Len(s) + Len(t)
      /\ \A i \in 1 .. Len(s) + Len(t) :
            (s \o t)[i] = IF i <= Len(s) THEN s[i] ELSE t[i - Len(s)]
    BY ConcatProperties
<1>2. /\ Len(s) \in Nat /\ DOMAIN s = 1..Len(s)
      /\ Len(t) \in Nat /\ DOMAIN t = 1..Len(t)
      /\ DOMAIN (s \o t) = 1..(Len(s) + Len(t))
    BY <1>1, LenProperties
<1>3. \A i \in DOMAIN s : i \in DOMAIN (s \o t) /\ (s \o t)[i] = s[i]
    BY <1>1, <1>2
<1>4. Range(s \o t) \subseteq Range(s) \cup Range(t)
    <2> SUFFICES ASSUME NEW i \in 1..(Len(s) + Len(t))
                 PROVE  (s \o t)[i] \in Range(s) \cup Range(t)
        BY <1>2 DEF Range
    <2>1. CASE i <= Len(s)
        BY <2>1, <1>1, <1>2 DEF Range
    <2>2. CASE ~(i <= Len(s))
        <3>1. i - Len(s) \in 1..Len(t)
            BY <2>2, <1>2
        <3> QED BY <2>2, <3>1, <1>1, <1>2 DEF Range
    <2> QED BY <2>1, <2>2
<1>5. Range(s) \subseteq Range(s \o t)
    BY <1>3 DEF Range
<1>6. Range(t) \subseteq Range(s \o t)
    <2> SUFFICES ASSUME NEW i \in 1..Len(t)
                 PROVE  \E j \in 1..(Len(s) + Len(t)) : (s \o t)[j] = t[i]
        BY <1>2 DEF Range
    <2>1. /\ Len(s) + i \in 1..(Len(s) + Len(t))
          /\ ~(Len(s) + i <= Len(s))
          /\ Len(s) + i - Len(s) = i
        BY <1>2
    <2> QED BY <2>1, <1>1
<1> QED BY <1>1, <1>3, <1>4, <1>5, <1>6

\* Two sequences without repetitions and without a common element give a
\* sequence without repetitions.
LEMMA ConcatInjective ==
    ASSUME NEW S, NEW s \in Seq(S), NEW t \in Seq(S),
           IsInjective(s), IsInjective(t), Range(s) \cap Range(t) = {}
    PROVE  IsInjective(s \o t)
<1>1. /\ s \o t \in Seq(S)
      /\ Len(s \o t) = Len(s) + Len(t)
      /\ \A i \in 1 .. Len(s) + Len(t) :
            (s \o t)[i] = IF i <= Len(s) THEN s[i] ELSE t[i - Len(s)]
    BY ConcatProperties
<1>2. /\ Len(s) \in Nat /\ DOMAIN s = 1..Len(s)
      /\ Len(t) \in Nat /\ DOMAIN t = 1..Len(t)
      /\ DOMAIN (s \o t) = 1..(Len(s) + Len(t))
    BY <1>1, LenProperties
<1> SUFFICES ASSUME NEW a \in 1..(Len(s) + Len(t)), NEW b \in 1..(Len(s) + Len(t)),
                    (s \o t)[a] = (s \o t)[b]
             PROVE  a = b
    BY <1>2 DEF IsInjective
<1>3. CASE a <= Len(s) /\ b <= Len(s)
    BY <1>1, <1>2, <1>3 DEF IsInjective
<1>4. CASE ~(a <= Len(s)) /\ ~(b <= Len(s))
    <2>1. a - Len(s) \in 1..Len(t) /\ b - Len(s) \in 1..Len(t)
        BY <1>2, <1>4
    <2>2. t[a - Len(s)] = t[b - Len(s)]
        BY <1>1, <1>4
    <2>3. a - Len(s) = b - Len(s)
        BY <1>2, <2>1, <2>2 DEF IsInjective
    <2> QED BY <1>2, <2>3
<1>5. CASE a <= Len(s) /\ ~(b <= Len(s))
    <2>1. a \in DOMAIN s /\ b - Len(s) \in DOMAIN t
        BY <1>2, <1>5
    <2>2. s[a] = t[b - Len(s)]
        BY <1>1, <1>5
    <2> QED BY <2>1, <2>2 DEF Range
<1>6. CASE ~(a <= Len(s)) /\ b <= Len(s)
    <2>1. b \in DOMAIN s /\ a - Len(s) \in DOMAIN t
        BY <1>2, <1>6
    <2>2. s[b] = t[a - Len(s)]
        BY <1>1, <1>6
    <2> QED BY <2>1, <2>2 DEF Range
<1> QED BY <1>3, <1>4, <1>5, <1>6

\* The same for one appended element.
LEMMA AppendNew ==
    ASSUME NEW S, NEW s \in Seq(S), NEW e \in S
    PROVE  /\ Append(s, e) \in Seq(S)
           /\ Len(Append(s, e)) = Len(s) + 1
           /\ Range(Append(s, e)) = Range(s) \cup {e}
           /\ IsInjective(s) /\ e \notin Range(s) => IsInjective(Append(s, e))
<1> DEFINE t == <<e>>
<1>1. t \in Seq(S) /\ Len(t) = 1 /\ Range(t) = {e} /\ IsInjective(t)
    <2>1. t \in Seq(S) /\ Len(t) = 1 /\ DOMAIN t = {1} /\ t[1] = e
        OBVIOUS
    <2> HIDE DEF t
    <2> QED BY <2>1 DEF Range, IsInjective
<1>2. Append(s, e) = s \o t
    BY AppendIsConcat
<1> HIDE DEF t
<1>3. /\ s \o t \in Seq(S)
      /\ Len(s \o t) = Len(s) + 1
      /\ Range(s \o t) = Range(s) \cup {e}
    <2>1. /\ s \o t \in Seq(S)
          /\ Len(s \o t) = Len(s) + Len(t)
          /\ Range(s \o t) = Range(s) \cup Range(t)
        BY <1>1, ConcatRange, Zenon
    <2> QED BY <2>1, <1>1
<1>4. IsInjective(s) /\ e \notin Range(s) => IsInjective(s \o t)
    BY <1>1, ConcatInjective
<1> QED BY <1>2, <1>3, <1>4

\* A sequence without repetitions has as many elements as places.
LEMMA InjectiveCount ==
    ASSUME NEW S, NEW s \in Seq(S), IsInjective(s)
    PROVE  IsFiniteSet(Range(s)) /\ Cardinality(Range(s)) = Len(s)
<1>1. Len(s) \in Nat /\ DOMAIN s = 1..Len(s)
    BY LenProperties
<1>2. s \in [1..Len(s) -> Range(s)]
    BY <1>1 DEF Range
<1>3. s \in Bijection(1..Len(s), Range(s))
    BY <1>1, <1>2 DEF Bijection, Injection, Surjection, IsInjective, Range
<1>4. ExistsBijection(1..Len(s), Range(s))
    BY <1>3 DEF ExistsBijection
<1>5. IsFiniteSet(1..Len(s)) /\ Cardinality(1..Len(s)) = Len(s)
    BY <1>1, FS_Interval
<1> QED BY <1>4, <1>5, FS_Bijection

----------------------------------------------------------------------------
(* Type correctness *)

\* What the type invariant says of the lists in use.
LEMMA ListFacts ==
    ASSUME WritersTypeOK, NEW w \in Writer
    PROVE  /\ items[w] \in Seq(Record)
           /\ Len(items[w]) \in Nat
           /\ DOMAIN items[w] = 1..Len(items[w])
           /\ next[w] \in Nat \ {0}
           /\ Range(items[w]) \subseteq Record
<1>1. items[w] \in Seq(Record)
    BY ListsAreSequences DEF WritersTypeOK
<1> QED BY <1>1, LenProperties DEF WritersTypeOK, Range

\* A call of enqueue that ends leaves its writer as it was before the call.
LEMMA LeaveTyped ==
    ASSUME WritersTypeOK, NEW w \in Writer, Leave(w),
           reported' \in Nat, uncounted' \in SUBSET Record
    PROVE  WritersTypeOK'
<1>1. ASSUME NEW v \in Writer
      PROVE  /\ next'[v] =< Len(items'[v]) + 1
             /\ wpc'[v] = "insert" => next'[v] =< Len(items'[v])
             /\ wpc'[v] = "return" => next'[v] = Len(items'[v]) + 1
             /\ wpc'[v] = "idle" => next'[v] = 1
    <2>1. Len(<<>>) = 0
        OBVIOUS
    <2>2. CASE v = w
        BY <2>1, <2>2 DEF Leave, WritersTypeOK
    <2>3. CASE v # w
        BY <2>3 DEF Leave, WritersTypeOK
    <2> QED BY <2>2, <2>3
<1> QED BY <1>1, ListsAreSequences, EmptySeq DEF Leave, WritersTypeOK

LEMMA EnqueueTyped ==
    ASSUME TypeOK, NEW w \in Writer, Enqueue(w)
    PROVE  TypeOK'
<1> USE DEF TypeOK
<1>0. /\ items[w] \in Seq(Record)
      /\ Len(items[w]) \in Nat
      /\ DOMAIN items[w] = 1..Len(items[w])
      /\ next[w] \in Nat \ {0}
      /\ Range(items[w]) \subseteq Record
    BY ListFacts
<1>1. CASE BeginEnqueue(w)
    <2>1. PICK list \in Lists : items' = [items EXCEPT ![w] = list]
        BY <1>1 DEF BeginEnqueue
    <2>2. Len(list) \in Nat
        BY ListsAreSequences, LenProperties
    <2>3. ASSUME NEW v \in Writer
          PROVE  /\ next[v] =< Len(items'[v]) + 1
                 /\ wpc'[v] = "insert" => next[v] =< Len(items'[v])
                 /\ wpc'[v] = "return" => next[v] = Len(items'[v]) + 1
                 /\ wpc'[v] = "idle" => next[v] = 1
        <3>1. CASE v = w
            BY <1>1, <2>1, <2>2, <3>1 DEF BeginEnqueue, WritersTypeOK
        <3>2. CASE v # w
            BY <1>1, <2>1, <3>2 DEF BeginEnqueue, WritersTypeOK
        <3> QED BY <3>1, <3>2
    <2>4. WritersTypeOK'
        BY <1>1, <2>1, <2>3 DEF BeginEnqueue, WritersTypeOK, counts
    <2> QED BY <1>1, <2>4 DEF BeginEnqueue, TableTypeOK, DrainersTypeOK, table,
                              drainers, service
<1>2. CASE SkipKnown(w)
    <2>1. WritersTypeOK'
        BY <1>0, <1>2 DEF SkipKnown, WritersTypeOK, counts
    <2> QED BY <1>2, <2>1 DEF SkipKnown, TableTypeOK, DrainersTypeOK, table,
                              drainers, service
<1>3. CASE FindMissing(w)
    <2>1. WritersTypeOK'
        BY <1>3 DEF FindMissing, WritersTypeOK, counts
    <2> QED BY <1>3, <2>1 DEF FindMissing, TableTypeOK, DrainersTypeOK, table,
                              drainers, service
<1>4. CASE InsertRow(w)
    <2>1. items[w][next[w]] \in Record
        BY <1>0, <1>4, ElementOfSeq DEF InsertRow, WritersTypeOK
    <2>2. Append(staged[w], items[w][next[w]]) \in Seq(Record)
        BY <2>1, AppendProperties DEF WritersTypeOK
    <2>3. /\ staged' \in [Writer -> Seq(Record)]
          /\ added' \in [Writer -> Nat]
        <3>1. staged \in [Writer -> Seq(Record)] /\ added \in [Writer -> Nat]
            BY DEF WritersTypeOK
        <3>2. CASE UNCHANGED <<staged, added>>
            BY <3>1, <3>2
        <3>3. CASE /\ staged' = [staged EXCEPT
                            ![w] = Append(staged[w], items[w][next[w]])]
                   /\ added' = [added EXCEPT ![w] = added[w] + 1]
            BY <2>2, <3>1, <3>3
        <3> QED BY <1>4, <3>2, <3>3 DEF InsertRow
    <2>4. /\ next' = [next EXCEPT ![w] = next[w] + 1]
          /\ wpc' = [wpc EXCEPT ![w] = "select"]
          /\ wpc[w] = "insert"
          /\ UNCHANGED <<items, counts>>
        BY <1>4 DEF InsertRow
    <2>5. WritersTypeOK'
        BY <1>0, <2>3, <2>4 DEF WritersTypeOK, counts
    <2> QED BY <1>4, <2>5 DEF InsertRow, TableTypeOK, DrainersTypeOK, table,
                              drainers, service
<1>5. CASE Commit(w)
    <2> DEFINE new == [i \in DOMAIN staged[w] |-> key]
    <2>1. /\ staged[w] \in Seq(Record)
          /\ DOMAIN staged[w] = 1..Len(staged[w])
          /\ Len(staged[w]) \in Nat
        BY LenProperties DEF WritersTypeOK
    <2>2. new \in [1..Len(staged[w]) -> Key]
        BY <2>1, Zenon DEF TableTypeOK
    <2> HIDE DEF new
    <2>3. new \in Seq(Key) /\ Len(new) = Len(staged[w])
        <3>1. new \in Seq(Key)
            BY <2>1, <2>2, SeqDef
        <3>2. DOMAIN new = 1..Len(new) /\ Len(new) \in Nat
            BY <3>1, LenProperties
        <3> QED BY <2>1, <2>2, <3>1, <3>2
    <2>4. /\ rows \o staged[w] \in Seq(Record)
          /\ Len(rows \o staged[w]) = Len(rows) + Len(staged[w])
        BY <2>1, ConcatProperties, Zenon DEF TableTypeOK
    <2>5. /\ seals \o new \in Seq(Key)
          /\ Len(seals \o new) = Len(seals) + Len(new)
        BY <2>3, ConcatProperties, Zenon DEF TableTypeOK
    <2>6. rows' = rows \o staged[w] /\ seals' = seals \o new
        BY <1>5 DEF Commit, new
    <2>7. TableTypeOK'
        BY <1>5, <2>3, <2>4, <2>5, <2>6 DEF Commit, TableTypeOK
    <2>8. Range(staged[w]) \subseteq Record
        BY <2>1 DEF Range
    <2>9. WritersTypeOK'
        BY <1>0, <1>5, <2>8 DEF Commit, WritersTypeOK
    <2> QED BY <1>5, <2>7, <2>9 DEF Commit, DrainersTypeOK, drainers, service
<1>6. CASE Return(w)
    <2>1. reported' \in Nat /\ uncounted' \in SUBSET Record
        BY <1>6 DEF Return, WritersTypeOK
    <2>2. WritersTypeOK'
        BY <1>6, <2>1, LeaveTyped DEF Return
    <2> QED BY <1>6, <2>2 DEF Return, Leave, TableTypeOK, DrainersTypeOK, table,
                              drainers, service
<1>7. CASE AbortEnqueue(w)
    <2>1. reported' \in Nat /\ uncounted' \in SUBSET Record
        BY <1>7 DEF AbortEnqueue, WritersTypeOK, counts
    <2>2. WritersTypeOK'
        BY <1>7, <2>1, LeaveTyped DEF AbortEnqueue
    <2> QED BY <1>7, <2>2 DEF AbortEnqueue, Leave, TableTypeOK, DrainersTypeOK,
                              table, drainers, service
<1> QED BY <1>1, <1>2, <1>3, <1>4, <1>5, <1>6, <1>7 DEF Enqueue

LEMMA DrainTyped ==
    ASSUME TypeOK, NEW d \in Drainer, Drain(d)
    PROVE  TypeOK'
<1> USE DEF TypeOK, DrainersTypeOK
<1>0. UNCHANGED <<rows, seals, lock, key, writers>>
    BY DEF Drain, StartDrain, DrainEmpty, ReadBatch, ReadUnreadable,
           IngestAccepted, IngestUnavailable, Acknowledge, AbortDrain, table
<1>1. WritersTypeOK'
    BY <1>0 DEF WritersTypeOK, writers, counts
<1>2. CASE StartDrain(d)
    <2>1. Len(rows) \in Nat
        BY LenProperties DEF TableTypeOK
    <2>2. target' \in [Drainer -> Nat]
        BY <1>2, <2>1 DEF StartDrain
    <2> QED BY <1>1, <1>2, <2>2 DEF StartDrain, TableTypeOK, table, service
<1>3. CASE DrainEmpty(d)
    BY <1>1, <1>3 DEF DrainEmpty, FailDrain, LeaveDrain, TableTypeOK, table, service
<1>4. CASE ReadBatch(d)
    <2>1. {rows[i] : i \in OldestPending} \subseteq Record
        <3>1. OldestPending \subseteq 1..Len(rows)
            BY LenProperties DEF OldestPending, PendingRows, TableTypeOK
        <3>2. \A i \in 1..Len(rows) : rows[i] \in Record
            BY ElementOfSeq DEF TableTypeOK
        <3> QED BY <3>1, <3>2
    <2> QED BY <1>1, <1>4, <2>1 DEF ReadBatch, TableTypeOK, table, service
<1>5. CASE ReadUnreadable(d)
    BY <1>1, <1>5 DEF ReadUnreadable, FailDrain, LeaveDrain, TableTypeOK, table, service
<1>6. CASE IngestAccepted(d)
    BY <1>1, <1>6 DEF IngestAccepted, TableTypeOK, table, service
<1>7. CASE IngestUnavailable(d)
    BY <1>1, <1>7 DEF IngestUnavailable, FailDrain, LeaveDrain, TableTypeOK, table, service
<1>8. CASE Acknowledge(d)
    BY <1>1, <1>8 DEF Acknowledge, TableTypeOK, table, service
<1>9. CASE AbortDrain(d)
    BY <1>1, <1>9 DEF AbortDrain, FailDrain, LeaveDrain, TableTypeOK, table, service
<1> QED BY <1>2, <1>3, <1>4, <1>5, <1>6, <1>7, <1>8, <1>9 DEF Drain

\* Every reachable state of the outbox has the shape TypeOK states.
THEOREM TypeCorrect == Spec => []TypeOK
<1>1. Init => TypeOK
    <2> SUFFICES ASSUME Init PROVE TypeOK
        OBVIOUS
    <2>1. TableTypeOK
        BY EmptySeq DEF Init, TableTypeOK
    <2>2. WritersTypeOK
        <3>1. \A w \in Writer : items[w] = <<>> /\ Len(items[w]) = 0
            BY DEF Init
        <3> QED BY <3>1, ListsAreSequences, EmptySeq DEF Init, WritersTypeOK
    <2>3. DrainersTypeOK
        BY DEF Init, DrainersTypeOK
    <2> QED BY <2>1, <2>2, <2>3 DEF TypeOK
<1>2. TypeOK /\ [Next]_vars => TypeOK'
    <2> SUFFICES ASSUME TypeOK, [Next]_vars PROVE TypeOK'
        OBVIOUS
    <2>1. CASE \E w \in Writer : Enqueue(w)
        BY <2>1, EnqueueTyped
    <2>2. CASE \E d \in Drainer : Drain(d)
        BY <2>2, DrainTyped
    <2>3. ASSUME NEW r \in Record, LateAccept(r) PROVE TypeOK'
        BY <2>3 DEF LateAccept, TypeOK, TableTypeOK, WritersTypeOK,
                    DrainersTypeOK, table, writers, counts, drainers
    <2>4. ASSUME NEW k \in Key, Rekey(k) PROVE TypeOK'
        BY <2>4 DEF Rekey, TypeOK, TableTypeOK, WritersTypeOK, DrainersTypeOK,
                    table, writers, counts, drainers, service
    <2>5. CASE UNCHANGED vars
        BY <2>5 DEF vars, TypeOK, TableTypeOK, WritersTypeOK, DrainersTypeOK,
                    table, writers, counts, drainers, service
    <2> QED BY <2>1, <2>2, <2>3, <2>4, <2>5 DEF Next
<1> QED BY <1>1, <1>2, PTL DEF Spec

----------------------------------------------------------------------------
(* The table *)

\* Only Commit changes the rows, and it appends what its writer staged.
LEMMA RowsChange ==
    ASSUME [Next]_vars
    PROVE  \/ UNCHANGED rows
           \/ \E w \in Writer : Commit(w)
<1>1. CASE \E w \in Writer : Enqueue(w)
    BY <1>1 DEF Enqueue, BeginEnqueue, SkipKnown, FindMissing, InsertRow,
                Return, AbortEnqueue, table
<1>2. CASE \E d \in Drainer : Drain(d)
    BY <1>2 DEF Drain, StartDrain, DrainEmpty, ReadBatch, ReadUnreadable,
           IngestAccepted, IngestUnavailable, Acknowledge, AbortDrain, table
<1>3. CASE (\E r \in Record : LateAccept(r)) \/ (\E k \in Key : Rekey(k))
    BY <1>3 DEF LateAccept, Rekey, table
<1>4. CASE UNCHANGED vars
    BY <1>4 DEF vars, table
<1> QED BY <1>1, <1>2, <1>3, <1>4 DEF Next

\* A committed row stays where it is.
LEMMA RowsStay ==
    ASSUME TypeOK, [Next]_vars
    PROVE  /\ Len(rows) =< Len(rows')
           /\ \A i \in DOMAIN rows : i \in DOMAIN rows' /\ rows'[i] = rows[i]
           /\ Range(rows) \subseteq Range(rows')
<1>0. rows \in Seq(Record) /\ Len(rows) \in Nat
    BY LenProperties DEF TypeOK, TableTypeOK
<1>1. CASE UNCHANGED rows
    BY <1>0, <1>1
<1>2. ASSUME NEW w \in Writer, Commit(w)
      PROVE  /\ Len(rows) =< Len(rows')
             /\ \A i \in DOMAIN rows : i \in DOMAIN rows' /\ rows'[i] = rows[i]
             /\ Range(rows) \subseteq Range(rows')
    <2>1. rows' = rows \o staged[w]
        BY <1>2 DEF Commit
    <2>2. staged[w] \in Seq(Record) /\ Len(staged[w]) \in Nat
        BY LenProperties DEF TypeOK, WritersTypeOK
    <2>3. /\ Len(rows \o staged[w]) = Len(rows) + Len(staged[w])
          /\ \A i \in DOMAIN rows : /\ i \in DOMAIN (rows \o staged[w])
                                    /\ (rows \o staged[w])[i] = rows[i]
          /\ Range(rows \o staged[w]) = Range(rows) \cup Range(staged[w])
        BY <1>0, <2>2, ConcatRange
    <2> QED BY <1>0, <2>1, <2>2, <2>3
<1> QED BY <1>1, <1>2, RowsChange

----------------------------------------------------------------------------
(* The writers' part of the invariant *)

\* A step of one enqueue before its commit leaves the returning calls alone.
LEMMA ReturningStay ==
    ASSUME UncountedIsCommitted, CountsAddUp, ReturnedIsDurable, NEW w \in Writer,
           UNCHANGED <<rows, counts>>,
           \A v \in Writer : wpc'[v] = "return" =>
                /\ wpc[v] = "return"
                /\ items'[v] = items[v] /\ staged'[v] = staged[v]
    PROVE  UncountedIsCommitted' /\ CountsAddUp' /\ ReturnedIsDurable'
BY DEF UncountedIsCommitted, CountsAddUp, ReturnedIsDurable, counts

LEMMA EnqueueKeepsWriterInv ==
    ASSUME TypeOK, WriterInv, NEW w \in Writer, Enqueue(w)
    PROVE  WriterInv'
<1> USE DEF WriterInv
<1>0. /\ rows \in Seq(Record) /\ Len(rows) \in Nat
      /\ items[w] \in Seq(Record) /\ Len(items[w]) \in Nat
      /\ DOMAIN items[w] = 1..Len(items[w])
      /\ next[w] \in Nat \ {0}
      /\ staged \in [Writer -> Seq(Record)] /\ added \in [Writer -> Nat]
      /\ next \in [Writer -> Nat \ {0}]
      /\ items \in [Writer -> Lists]
      /\ wpc \in [Writer -> {"idle", "select", "insert", "return"}]
    BY ListFacts, LenProperties DEF TypeOK, TableTypeOK, WritersTypeOK
<1>1. CASE BeginEnqueue(w)
    <2>1. /\ next[w] = 1
          /\ wpc[w] = "idle" /\ wpc' = [wpc EXCEPT ![w] = "select"]
          /\ UNCHANGED <<rows, lock, next, staged, added, counts>>
        BY <1>1 DEF BeginEnqueue, TypeOK, WritersTypeOK, table
    <2>2. \A v \in Writer : v # w => items'[v] = items[v] /\ wpc'[v] = wpc[v]
        BY <1>0, <1>1 DEF BeginEnqueue
    <2>3. DoneIsVisible'
        BY <2>1, <2>2 DEF DoneIsVisible, Visible
    <2>4. StagedIsNew'
        BY <1>0, <2>1, <2>2 DEF StagedIsNew
    <2>5. UncountedIsCommitted' /\ CountsAddUp' /\ ReturnedIsDurable'
        <3>1. \A v \in Writer : wpc'[v] = "return" =>
                /\ wpc[v] = "return"
                /\ items'[v] = items[v] /\ staged'[v] = staged[v]
            BY <1>0, <2>1, <2>2
        <3> QED BY <2>1, <3>1, ReturningStay
    <2> QED BY <2>1, <2>3, <2>4, <2>5 DEF UniqueRows
<1>2. CASE SkipKnown(w)
    <2>1. DoneIsVisible'
        <3> SUFFICES ASSUME NEW v \in Writer, NEW i \in 1..(next'[v] - 1)
                     PROVE  items[v][i] \in Visible(v)
            BY <1>2 DEF SkipKnown, DoneIsVisible, Visible, table
        <3>1. CASE v = w /\ i = next[w]
            BY <1>2, <3>1 DEF SkipKnown
        <3>2. CASE ~(v = w /\ i = next[w])
            <4>1. i \in 1..(next[v] - 1)
                BY <1>0, <1>2, <3>2 DEF SkipKnown
            <4> QED BY <4>1 DEF DoneIsVisible
        <3> QED BY <3>1, <3>2
    <2> QED BY <1>2, <2>1 DEF SkipKnown, StagedIsNew, UniqueRows, CountsAddUp,
                  UncountedIsCommitted, ReturnedIsDurable, table, counts
<1>3. CASE FindMissing(w)
    <2>1. /\ wpc[w] = "select" /\ wpc' = [wpc EXCEPT ![w] = "insert"]
          /\ UNCHANGED <<rows, lock, items, next, staged, added, counts>>
        BY <1>3 DEF FindMissing, table
    <2>2. \A v \in Writer : wpc'[v] = "return" <=> wpc[v] = "return"
        BY <1>0, <2>1
    <2>3. StagedIsNew'
        BY <2>1, <2>2 DEF StagedIsNew
    <2>4. UncountedIsCommitted' /\ CountsAddUp' /\ ReturnedIsDurable'
        BY <2>1, <2>2, ReturningStay
    <2> QED BY <2>1, <2>3, <2>4 DEF UniqueRows, DoneIsVisible, Visible
<1>4. CASE InsertRow(w)
    <2> DEFINE r == items[w][next[w]]
    <2>1. /\ r \in Record
          /\ lock \in {Free, w} /\ lock' = w
          /\ next' = [next EXCEPT ![w] = next[w] + 1]
          /\ wpc[w] = "insert" /\ wpc' = [wpc EXCEPT ![w] = "select"]
          /\ UNCHANGED <<rows, items, counts>>
        BY <1>0, <1>4, ElementOfSeq DEF InsertRow, TypeOK, WritersTypeOK, table
    <2>2. ASSUME NEW v \in Writer, v # w, wpc[v] # "return"
          PROVE  staged[v] = <<>>
        BY <2>1, <2>2, ConstantsAssumption DEF StagedIsNew
    <2>3. /\ \A v \in Writer : v # w => staged'[v] = staged[v] /\ added'[v] = added[v]
          /\ \/ /\ r \in Visible(w)
                /\ staged'[w] = staged[w] /\ added'[w] = added[w]
             \/ /\ r \notin Visible(w)
                /\ staged'[w] = Append(staged[w], r) /\ added'[w] = added[w] + 1
        <3>1. CASE r \in Visible(w) /\ UNCHANGED <<staged, added>>
            BY <3>1
        <3>2. CASE /\ r \notin Visible(w)
                   /\ staged' = [staged EXCEPT ![w] = Append(staged[w], r)]
                   /\ added' = [added EXCEPT ![w] = added[w] + 1]
            BY <1>0, <3>2
        <3> QED BY <1>4, <3>1, <3>2 DEF InsertRow
    <2> HIDE DEF r
    <2>4. /\ Len(Append(staged[w], r)) = Len(staged[w]) + 1
          /\ Range(Append(staged[w], r)) = Range(staged[w]) \cup {r}
          /\ IsInjective(staged[w]) /\ r \notin Range(staged[w])
                => IsInjective(Append(staged[w], r))
        <3>1. staged[w] \in Seq(Record)
            BY <1>0
        <3> QED BY <2>1, <3>1, AppendNew
    <2>5. /\ \A v \in Writer : v # w => wpc'[v] = wpc[v]
          /\ wpc'[w] = "select"
        BY <1>0, <2>1
    <2>6. StagedIsNew'
        <3> SUFFICES ASSUME NEW v \in Writer
                     PROVE  /\ IsInjective(staged'[v])
                            /\ added'[v] = Len(staged'[v])
                            /\ wpc'[v] # "return" /\ staged'[v] # <<>> => lock' = v
                            /\ wpc'[v] # "return" => Range(staged'[v]) \cap Range(rows) = {}
            BY <2>1 DEF StagedIsNew
        <3>1. CASE v # w
            BY <2>2, <2>3, <2>5, <3>1 DEF StagedIsNew
        <3>2. CASE v = w
            BY <2>1, <2>3, <2>4, <3>2 DEF StagedIsNew, Visible
        <3> QED BY <3>1, <3>2
    <2>7. /\ \A v \in Writer : Visible(v) \subseteq Visible(v)'
          /\ r \in Visible(w)'
        BY <2>1, <2>3, <2>4 DEF Visible
    <2>8. DoneIsVisible'
        <3> SUFFICES ASSUME NEW v \in Writer, NEW i \in 1..(next'[v] - 1)
                     PROVE  items[v][i] \in Visible(v)'
            BY <2>1 DEF DoneIsVisible
        <3>1. CASE v = w /\ i = next[w]
            BY <2>7, <3>1 DEF r
        <3>2. CASE ~(v = w /\ i = next[w])
            <4>1. i \in 1..(next[v] - 1)
                BY <1>0, <2>1, <3>2
            <4> QED BY <2>7, <4>1 DEF DoneIsVisible
        <3> QED BY <3>1, <3>2
    <2>9. UncountedIsCommitted' /\ CountsAddUp' /\ ReturnedIsDurable'
        <3>1. \A v \in Writer : wpc'[v] = "return" =>
                /\ wpc[v] = "return"
                /\ items'[v] = items[v] /\ staged'[v] = staged[v]
            BY <2>1, <2>3, <2>5
        <3> QED BY <2>1, <3>1, ReturningStay
    <2> QED BY <2>1, <2>6, <2>8, <2>9 DEF UniqueRows
<1>5. CASE Commit(w)
    <2>1. /\ rows' = rows \o staged[w]
          /\ wpc[w] = "select" /\ next[w] = Len(items[w]) + 1
          /\ lock' = IF lock = w THEN Free ELSE lock
          /\ wpc' = [wpc EXCEPT ![w] = "return"]
          /\ uncounted' = uncounted \cup Range(staged[w])
          /\ UNCHANGED <<items, next, staged, added, reported>>
        BY <1>5 DEF Commit
    <2>2. /\ staged[w] \in Seq(Record) /\ Len(staged[w]) \in Nat
          /\ IsInjective(staged[w]) /\ Range(staged[w]) \cap Range(rows) = {}
        BY <1>0, <2>1, LenProperties DEF StagedIsNew
    <2>3. Range(rows') = Range(rows) \cup Range(staged[w])
        BY <1>0, <2>1, <2>2, ConcatRange
    <2>4. UniqueRows'
        BY <1>0, <2>1, <2>2, ConcatInjective, Zenon DEF UniqueRows
    <2>5. CountsAddUp'
        <3>1. Range(rows') \ uncounted' = Range(rows) \ uncounted
            BY <2>1, <2>2, <2>3
        <3> QED BY <2>1, <3>1 DEF CountsAddUp
    <2>6. /\ \A v \in Writer : v # w => wpc'[v] = wpc[v]
          /\ wpc'[w] = "return"
        BY <1>0, <2>1
    <2>7. ReturnedIsDurable'
        <3>1. Range(items[w]) \subseteq Visible(w)
            <4>1. \A i \in 1..Len(items[w]) : items[w][i] \in Visible(w)
                <5>1. next[w] - 1 = Len(items[w])
                    BY <1>0, <2>1
                <5> QED BY <5>1 DEF DoneIsVisible
            <4> QED BY <1>0, <4>1 DEF Range
        <3> QED BY <2>1, <2>3, <2>6, <3>1 DEF ReturnedIsDurable, Visible
    <2>8. UncountedIsCommitted'
        <3>1. ASSUME NEW v \in Writer, v # w, wpc[v] = "return"
              PROVE  Range(staged[v]) \cap Range(staged[w]) = {}
            BY <2>2, <3>1 DEF UncountedIsCommitted
        <3> QED BY <2>1, <2>3, <2>6, <3>1 DEF UncountedIsCommitted
    <2>9. StagedIsNew'
        <3> SUFFICES ASSUME NEW v \in Writer, v # w, wpc[v] # "return"
                     PROVE  /\ staged[v] # <<>> => lock' = v
                            /\ Range(staged[v]) \cap Range(rows') = {}
            BY <2>1, <2>6 DEF StagedIsNew
        <3>1. Range(<<>>) = {}
            BY DEF Range
        <3>2. CASE staged[v] = <<>>
            BY <3>1, <3>2
        <3>3. CASE staged[v] # <<>>
            <4>1. lock = v /\ lock' = v
                BY <2>1, <3>3 DEF StagedIsNew
            <4>2. staged[w] = <<>>
                BY <2>1, <4>1 DEF StagedIsNew
            <4>3. Range(rows') = Range(rows)
                BY <2>3, <3>1, <4>2
            <4> QED BY <4>1, <4>3 DEF StagedIsNew
        <3> QED BY <3>2, <3>3
    <2>10. DoneIsVisible'
        BY <2>1, <2>3 DEF DoneIsVisible, Visible
    <2> QED BY <2>4, <2>5, <2>7, <2>8, <2>9, <2>10
<1>6. ASSUME Leave(w), UNCHANGED rows
      PROVE  /\ StagedIsNew' /\ DoneIsVisible'
             /\ \A v \in Writer : wpc'[v] = "return" =>
                /\ v # w /\ wpc[v] = "return"
                /\ items'[v] = items[v] /\ staged'[v] = staged[v]
    <2>1. ASSUME NEW v \in Writer
          PROVE  \/ /\ v = w
                    /\ staged'[v] = <<>> /\ added'[v] = 0 /\ next'[v] = 1
                    /\ wpc'[v] = "idle"
                 \/ /\ v # w
                    /\ staged'[v] = staged[v] /\ added'[v] = added[v]
                    /\ next'[v] = next[v] /\ items'[v] = items[v]
                    /\ wpc'[v] = wpc[v]
        BY <1>0, <1>6 DEF Leave
    <2>2. Len(<<>>) = 0 /\ Range(<<>>) = {} /\ IsInjective(<<>>)
        BY DEF Range, IsInjective
    <2>3. StagedIsNew'
        BY <1>6, <2>1, <2>2 DEF StagedIsNew, Leave
    <2>4. DoneIsVisible'
        BY <1>6, <2>1 DEF DoneIsVisible, Visible
    <2> QED BY <2>1, <2>3, <2>4
<1>7. CASE Return(w)
    <2> DEFINE new == Range(staged[w])
    <2>1. /\ wpc[w] = "return"
          /\ reported' = reported + added[w]
          /\ uncounted' = uncounted \ new
          /\ Leave(w) /\ UNCHANGED rows
        BY <1>7 DEF Return, table
    <2>2. /\ new \subseteq uncounted /\ new \subseteq Range(rows)
          /\ uncounted \subseteq Range(rows)
        BY <2>1 DEF UncountedIsCommitted
    <2>3. IsFiniteSet(new) /\ Cardinality(new) = added[w]
        BY <1>0, InjectiveCount DEF StagedIsNew
    <2>4. CountsAddUp'
        <3> DEFINE old == Range(rows) \ uncounted
        <3>1. IsFiniteSet(old)
            <4>1. old \subseteq Record
                BY <1>0 DEF Range
            <4> QED BY <4>1, ConstantsAssumption, FS_Subset
        <3>2. Range(rows) \ uncounted' = old \cup new /\ old \cap new = {}
            BY <2>1, <2>2
        <3> HIDE DEF old, new
        <3>3. Cardinality(old \cup new) = Cardinality(old) + Cardinality(new) - 0
            BY <2>3, <3>1, <3>2, FS_Union, FS_EmptySet
        <3>4. Cardinality(old) \in Nat /\ Cardinality(new) \in Nat
            BY <2>3, <3>1, FS_CardinalityType
        <3>5. Cardinality(old \cup new) = Cardinality(old) + added[w]
            BY <2>3, <3>3, <3>4
        <3>6. Cardinality(Range(rows) \ uncounted') = Cardinality(old \cup new)
            BY <3>2, Zenon
        <3>7. reported = Cardinality(old)
            BY DEF CountsAddUp, old
        <3>8. CountsAddUp' <=> reported' = Cardinality(Range(rows) \ uncounted')
            BY <2>1 DEF CountsAddUp
        <3> QED BY <2>1, <3>5, <3>6, <3>7, <3>8
    <2>5. UncountedIsCommitted'
        BY <1>6, <2>1, <2>2 DEF UncountedIsCommitted
    <2>6. ReturnedIsDurable'
        BY <1>6, <2>1 DEF ReturnedIsDurable
    <2> QED BY <1>6, <2>1, <2>4, <2>5, <2>6 DEF UniqueRows
<1>8. CASE AbortEnqueue(w)
    <2>1. Leave(w) /\ UNCHANGED <<rows, counts>>
        BY <1>8 DEF AbortEnqueue, table
    <2>2. UncountedIsCommitted' /\ CountsAddUp' /\ ReturnedIsDurable'
        BY <1>6, <2>1, ReturningStay
    <2> QED BY <1>6, <2>1, <2>2 DEF UniqueRows
<1> QED BY <1>1, <1>2, <1>3, <1>4, <1>5, <1>7, <1>8 DEF Enqueue

----------------------------------------------------------------------------
(* The drainers' part of the invariant *)

\* ORDER BY rowid LIMIT n leaves no gap: a pending row older than one of the
\* rows it returns is returned too.
LEMMA OldestPendingHasNoGap ==
    ASSUME TypeOK, NEW j \in OldestPending, NEW i \in PendingRows, i < j
    PROVE  i \in OldestPending
<1> DEFINE Before(n) == {k \in PendingRows : k < n}
<1>1. DOMAIN rows = 1..Len(rows) /\ Len(rows) \in Nat
    BY LenProperties DEF TypeOK, TableTypeOK
<1>2. PendingRows \subseteq 1..Len(rows)
    BY <1>1 DEF PendingRows
<1>3. IsFiniteSet(PendingRows)
    <2>1. IsFiniteSet(1..Len(rows))
        BY <1>1, FS_Interval
    <2> QED BY <1>2, <2>1, FS_Subset, Zenon
<1>4. IsFiniteSet(Before(j)) /\ Before(i) \subseteq Before(j)
    <2>1. Before(j) \subseteq PendingRows
        OBVIOUS
    <2>2. IsFiniteSet(Before(j))
        BY <1>3, <2>1, FS_Subset
    <2>3. i \in Nat /\ j \in Nat
        BY <1>2 DEF OldestPending
    <2>4. Before(i) \subseteq Before(j)
        <3> SUFFICES ASSUME NEW k \in PendingRows, k < i PROVE k < j
            OBVIOUS
        <3>1. k \in Nat
            BY <1>1, <1>2
        <3> QED BY <2>3, <3>1
    <2> QED BY <2>2, <2>4
<1>5. /\ Cardinality(Before(i)) =< Cardinality(Before(j))
      /\ Cardinality(Before(i)) \in Nat /\ Cardinality(Before(j)) \in Nat
    <2> HIDE DEF Before
    <2>1. IsFiniteSet(Before(i))
        BY <1>4, FS_Subset
    <2> QED BY <1>4, <2>1, FS_Subset, FS_CardinalityType
<1>6. Cardinality(Before(j)) < BatchSize
    BY DEF OldestPending
<1>7. Cardinality(Before(i)) < BatchSize
    BY <1>5, <1>6, ConstantsAssumption
<1> QED BY <1>7 DEF OldestPending

\* A row older than a row of a set of committed records was committed too,
\* and neither has moved.
LEMMA OlderRowIsOld ==
    ASSUME TypeOK, [Next]_vars, UniqueRows', TypeOK',
           NEW S, S \subseteq Range(rows),
           NEW i \in DOMAIN rows', NEW j \in DOMAIN rows', i < j, rows'[j] \in S
    PROVE  /\ i \in DOMAIN rows /\ j \in DOMAIN rows
           /\ rows'[i] = rows[i] /\ rows'[j] = rows[j]
<1>1. PICK k \in DOMAIN rows : rows[k] = rows'[j]
    BY DEF Range
<1>2. k \in DOMAIN rows' /\ rows'[k] = rows[k]
    BY RowsStay
<1>3. k = j
    BY <1>1, <1>2 DEF UniqueRows, IsInjective
<1>4. /\ DOMAIN rows = 1..Len(rows) /\ DOMAIN rows' = 1..Len(rows')
      /\ Len(rows) \in Nat /\ Len(rows') \in Nat
    BY LenProperties DEF TypeOK, TableTypeOK
<1>5. i \in DOMAIN rows
    BY <1>3, <1>4
<1> QED BY <1>1, <1>3, <1>5, RowsStay

LEMMA EnqueueKeepsDrainerInv ==
    ASSUME TypeOK, DrainerInv, NEW w \in Writer, Enqueue(w), UniqueRows', TypeOK'
    PROVE  DrainerInv'
<1> USE DEF DrainerInv
<1>1. UNCHANGED <<acked, drainers, service>>
    BY DEF Enqueue, BeginEnqueue, SkipKnown, FindMissing, InsertRow, Commit,
           Return, AbortEnqueue, table
<1>2. [Next]_vars
    BY DEF Next
<1>3. /\ Len(rows) =< Len(rows') /\ Range(rows) \subseteq Range(rows')
      /\ \A i \in DOMAIN rows : i \in DOMAIN rows' /\ rows'[i] = rows[i]
      /\ Len(rows) \in Nat /\ Len(rows') \in Nat
    BY <1>2, RowsStay, LenProperties DEF TypeOK, TableTypeOK
<1>4. SentIsCommitted' /\ AnsweredIsAccepted' /\ AckedIsAccepted'
    BY <1>1, <1>3 DEF SentIsCommitted, AnsweredIsAccepted, AckedIsAccepted,
                      drainers, service
<1>5. BatchContinues'
    <2> SUFFICES ASSUME NEW d \in Drainer, NEW i \in DOMAIN rows',
                        NEW j \in DOMAIN rows', i < j, rows'[j] \in batch[d]
                 PROVE  rows'[i] \in acked \cup batch[d]
        BY <1>1 DEF BatchContinues, drainers
    <2>1. batch[d] \subseteq Range(rows)
        BY DEF SentIsCommitted
    <2>2. /\ i \in DOMAIN rows /\ j \in DOMAIN rows
          /\ rows'[i] = rows[i] /\ rows'[j] = rows[j]
        BY <1>2, <2>1, OlderRowIsOld
    <2> QED BY <2>2 DEF BatchContinues
<1>6. AckedIsPrefix'
    <2> SUFFICES ASSUME NEW i \in DOMAIN rows', NEW j \in DOMAIN rows',
                        i < j, rows'[j] \in acked
                 PROVE  rows'[i] \in acked
        BY <1>1 DEF AckedIsPrefix
    <2>1. acked \subseteq Range(rows)
        BY DEF SentIsCommitted
    <2>2. /\ i \in DOMAIN rows /\ j \in DOMAIN rows
          /\ rows'[i] = rows[i] /\ rows'[j] = rows[j]
        BY <1>2, <2>1, OlderRowIsOld
    <2> QED BY <2>2 DEF AckedIsPrefix
<1>7. TargetIsCommitted'
    BY <1>1, <1>3 DEF TargetIsCommitted, drainers, TypeOK, DrainersTypeOK
<1>8. DrainedIsDelivered'
    <2> SUFFICES ASSUME NEW d \in Drainer, NEW i \in 1..target[d],
                        dpc[d] = "idle"
                 PROVE  rows'[i] \in acked
        BY <1>1 DEF DrainedIsDelivered, drainers
    <2>1. i \in DOMAIN rows
        BY LenProperties DEF TargetIsCommitted, TypeOK, TableTypeOK, DrainersTypeOK
    <2> QED BY <1>3, <2>1 DEF DrainedIsDelivered
<1> QED BY <1>4, <1>5, <1>6, <1>7, <1>8

\* A drain that fails, in whatever way, promises nothing.
LEMMA FailDrainKeeps ==
    ASSUME TypeOK, DrainerInv, NEW d \in Drainer, FailDrain(d),
           UNCHANGED <<rows, acked, accepted>>, limbo' \subseteq Range(rows)
    PROVE  DrainerInv'
<1> USE DEF DrainerInv, FailDrain, LeaveDrain, TypeOK, DrainersTypeOK
<1>1. /\ \A c \in Drainer : batch'[c] = IF c = d THEN {} ELSE batch[c]
      /\ \A c \in Drainer : dpc'[c] = IF c = d THEN "idle" ELSE dpc[c]
      /\ \A c \in Drainer : target'[c] = IF c = d THEN 0 ELSE target[c]
    OBVIOUS
<1>2. SentIsCommitted'
    BY <1>1 DEF SentIsCommitted
<1>3. BatchContinues'
    BY <1>1 DEF BatchContinues
<1>4. AnsweredIsAccepted'
    BY <1>1 DEF AnsweredIsAccepted
<1>5. AckedIsAccepted' /\ AckedIsPrefix'
    BY DEF AckedIsAccepted, AckedIsPrefix
<1>6. TargetIsCommitted'
    BY <1>1, LenProperties DEF TargetIsCommitted, TableTypeOK
<1>7. DrainedIsDelivered'
    BY <1>1 DEF DrainedIsDelivered
<1> QED BY <1>2, <1>3, <1>4, <1>5, <1>6, <1>7

LEMMA DrainKeepsDrainerInv ==
    ASSUME TypeOK, UniqueRows, DrainerInv, NEW d \in Drainer, Drain(d)
    PROVE  DrainerInv'
<1> USE DEF DrainerInv, TypeOK, DrainersTypeOK
<1>0. /\ DOMAIN rows = 1..Len(rows) /\ Len(rows) \in Nat
      /\ batch[d] \subseteq Range(rows)
    BY LenProperties DEF TableTypeOK, SentIsCommitted
<1>1. CASE StartDrain(d)
    <2>1. /\ UNCHANGED <<rows, acked, accepted, limbo, batch>>
          /\ \A c \in Drainer : target'[c] = IF c = d THEN Len(rows) ELSE target[c]
          /\ \A c \in Drainer : dpc'[c] = IF c = d THEN "read" ELSE dpc[c]
        BY <1>1 DEF StartDrain, table, service
    <2>2. TargetIsCommitted'
        BY <1>0, <2>1 DEF TargetIsCommitted
    <2>3. DrainedIsDelivered'
        BY <2>1 DEF DrainedIsDelivered
    <2>4. AnsweredIsAccepted'
        BY <2>1 DEF AnsweredIsAccepted
    <2> QED BY <2>1, <2>2, <2>3, <2>4 DEF SentIsCommitted, BatchContinues,
                AckedIsAccepted, AckedIsPrefix
<1>2. CASE DrainEmpty(d)
    <2>1. \A i \in 1..target[d] : rows[i] \in acked
        BY <1>0, <1>2 DEF DrainEmpty, PendingRows, TargetIsCommitted
    <2>2. /\ UNCHANGED <<rows, acked, accepted, limbo, target>>
          /\ \A c \in Drainer : batch'[c] = IF c = d THEN {} ELSE batch[c]
          /\ \A c \in Drainer : dpc'[c] = IF c = d THEN "idle" ELSE dpc[c]
        BY <1>2 DEF DrainEmpty, LeaveDrain, table, service
    <2>3. DrainedIsDelivered'
        BY <2>1, <2>2 DEF DrainedIsDelivered
    <2> QED BY <2>2, <2>3 DEF SentIsCommitted, BatchContinues, AnsweredIsAccepted,
                AckedIsAccepted, AckedIsPrefix, TargetIsCommitted
<1>3. CASE ReadBatch(d)
    <2> DEFINE read == {rows[i] : i \in OldestPending}
    <2>1. /\ UNCHANGED <<rows, acked, accepted, limbo, target>>
          /\ \A c \in Drainer : batch'[c] = IF c = d THEN read ELSE batch[c]
          /\ \A c \in Drainer : dpc'[c] = IF c = d THEN "sending" ELSE dpc[c]
        BY <1>3 DEF ReadBatch, table, service
    <2>2. SentIsCommitted'
        <3>1. read \subseteq Range(rows)
            BY DEF OldestPending, PendingRows, Range
        <3> QED BY <2>1, <3>1 DEF SentIsCommitted
    <2>3. BatchContinues'
        <3> SUFFICES ASSUME NEW i \in DOMAIN rows, NEW j \in DOMAIN rows,
                            i < j, rows[j] \in read
                     PROVE  rows[i] \in acked \cup read
            BY <2>1 DEF BatchContinues
        <3>1. j \in OldestPending
            BY DEF OldestPending, PendingRows, UniqueRows, IsInjective
        <3>2. CASE rows[i] \notin acked
            <4>1. i \in PendingRows
                BY <3>2 DEF PendingRows
            <4>2. i \in OldestPending
                BY <3>1, <4>1, OldestPendingHasNoGap
            <4> QED BY <4>2
        <3> QED BY <3>2
    <2>4. AnsweredIsAccepted'
        BY <2>1 DEF AnsweredIsAccepted
    <2> QED BY <2>1, <2>2, <2>3, <2>4 DEF AckedIsAccepted, AckedIsPrefix,
                TargetIsCommitted, DrainedIsDelivered
<1>4. CASE ReadUnreadable(d)
    <2>1. /\ FailDrain(d)
          /\ UNCHANGED <<rows, acked, accepted, limbo>>
        BY <1>4 DEF ReadUnreadable, table, service
    <2> QED BY <2>1, FailDrainKeeps DEF SentIsCommitted
<1>5. CASE IngestAccepted(d)
    <2>1. /\ UNCHANGED <<rows, acked, limbo, batch, target>>
          /\ accepted' = accepted \cup batch[d]
          /\ \A c \in Drainer : dpc'[c] = IF c = d THEN "acking" ELSE dpc[c]
        BY <1>5 DEF IngestAccepted, table
    <2> QED BY <1>0, <2>1 DEF SentIsCommitted, BatchContinues, AnsweredIsAccepted,
                AckedIsAccepted, AckedIsPrefix, TargetIsCommitted,
                DrainedIsDelivered
<1>6. CASE IngestUnavailable(d)
    <2>1. /\ FailDrain(d)
          /\ UNCHANGED <<rows, acked, accepted>>
          /\ limbo' = limbo \cup (batch[d] \ accepted)
        BY <1>6 DEF IngestUnavailable, table
    <2>2. limbo' \subseteq Range(rows)
        BY <1>0, <2>1 DEF SentIsCommitted
    <2> QED BY <2>1, <2>2, FailDrainKeeps
<1>7. CASE Acknowledge(d)
    <2>1. /\ UNCHANGED <<rows, accepted, limbo, target>>
          /\ acked' = acked \cup batch[d]
          /\ batch[d] \subseteq accepted
          /\ \A c \in Drainer : batch'[c] = IF c = d THEN {} ELSE batch[c]
          /\ \A c \in Drainer : dpc'[c] = IF c = d THEN "read" ELSE dpc[c]
        BY <1>7 DEF Acknowledge, service, AnsweredIsAccepted
    <2>2. SentIsCommitted'
        BY <1>0, <2>1 DEF SentIsCommitted
    <2>3. BatchContinues'
        BY <2>1 DEF BatchContinues
    <2>4. AckedIsPrefix'
        BY <2>1 DEF AckedIsPrefix, BatchContinues
    <2>5. AnsweredIsAccepted'
        BY <2>1 DEF AnsweredIsAccepted
    <2> QED BY <2>1, <2>2, <2>3, <2>4, <2>5 DEF AckedIsAccepted,
                TargetIsCommitted, DrainedIsDelivered
<1>8. CASE AbortDrain(d)
    <2>1. /\ FailDrain(d)
          /\ UNCHANGED <<rows, acked, accepted>>
          /\ limbo' \subseteq limbo \cup (batch[d] \ accepted)
        BY <1>8 DEF AbortDrain, table
    <2>2. limbo' \subseteq Range(rows)
        BY <1>0, <2>1 DEF SentIsCommitted
    <2> QED BY <2>1, <2>2, FailDrainKeeps
<1> QED BY <1>1, <1>2, <1>3, <1>4, <1>5, <1>6, <1>7, <1>8 DEF Drain

----------------------------------------------------------------------------
(* The theorems *)

\* IInv is an inductive invariant of the outbox.
THEOREM IInvHolds == Spec => []IInv
<1>1. Init => WriterInv /\ DrainerInv
    <2> SUFFICES ASSUME Init PROVE WriterInv /\ DrainerInv
        OBVIOUS
    <2>1. /\ Len(<<>>) = 0 /\ DOMAIN <<>> = {}
          /\ Range(<<>>) = {} /\ IsInjective(<<>>)
        BY DEF Range, IsInjective
    <2>2. StagedIsNew /\ UniqueRows /\ UncountedIsCommitted
        BY <2>1 DEF Init, StagedIsNew, UniqueRows, UncountedIsCommitted
    <2>3. DoneIsVisible /\ ReturnedIsDurable
        BY <2>1 DEF Init, DoneIsVisible, ReturnedIsDurable
    <2>4. CountsAddUp
        <3>1. Range(rows) \ uncounted = {} /\ reported = 0
            BY <2>1 DEF Init
        <3> QED BY <3>1, FS_EmptySet DEF CountsAddUp
    <2>5. WriterInv
        BY <2>2, <2>3, <2>4 DEF WriterInv
    <2>6. DrainerInv
        BY <2>1 DEF Init, DrainerInv, SentIsCommitted, BatchContinues,
                    AnsweredIsAccepted, AckedIsAccepted, AckedIsPrefix,
                    TargetIsCommitted, DrainedIsDelivered
    <2> QED BY <2>5, <2>6
<1>2. TypeOK /\ TypeOK' /\ WriterInv /\ DrainerInv /\ [Next]_vars
        => (WriterInv /\ DrainerInv)'
    <2> SUFFICES ASSUME TypeOK, TypeOK', WriterInv, DrainerInv, [Next]_vars
                 PROVE  WriterInv' /\ DrainerInv'
        OBVIOUS
    <2>1. ASSUME NEW w \in Writer, Enqueue(w)
          PROVE  WriterInv' /\ DrainerInv'
        <3>1. WriterInv'
            BY <2>1, EnqueueKeepsWriterInv
        <3>2. UniqueRows'
            BY <3>1 DEF WriterInv
        <3> QED BY <2>1, <3>1, <3>2, EnqueueKeepsDrainerInv
    <2>2. ASSUME NEW d \in Drainer, Drain(d)
          PROVE  WriterInv' /\ DrainerInv'
        <3>1. UNCHANGED <<rows, lock, writers>>
            BY <2>2 DEF Drain, StartDrain, DrainEmpty, ReadBatch, ReadUnreadable,
                IngestAccepted, IngestUnavailable, Acknowledge, AbortDrain, table
        <3>2. WriterInv'
            BY <3>1 DEF WriterInv, StagedIsNew, UniqueRows, CountsAddUp,
                        UncountedIsCommitted, DoneIsVisible, ReturnedIsDurable, Visible, writers, counts
        <3>3. UniqueRows
            BY DEF WriterInv
        <3> QED BY <2>2, <3>2, <3>3, DrainKeepsDrainerInv
    <2>3. ASSUME NEW r \in Record, LateAccept(r)
          PROVE  WriterInv' /\ DrainerInv'
        <3>1. /\ UNCHANGED <<rows, acked, lock, writers, drainers>>
              /\ r \in limbo
              /\ accepted' = accepted \cup {r} /\ limbo' = limbo \ {r}
            BY <2>3 DEF LateAccept, table
        <3>2. WriterInv'
            BY <3>1 DEF WriterInv, StagedIsNew, UniqueRows, CountsAddUp,
                        UncountedIsCommitted, DoneIsVisible, ReturnedIsDurable, Visible, writers, counts
        <3>3. DrainerInv'
            BY <3>1 DEF DrainerInv, SentIsCommitted, BatchContinues,
                AnsweredIsAccepted, AckedIsAccepted, AckedIsPrefix,
                TargetIsCommitted, DrainedIsDelivered, drainers
        <3> QED BY <3>2, <3>3
    <2>4. CASE UNCHANGED <<table, lock, writers, drainers, service>>
        <3>1. WriterInv'
            BY <2>4 DEF WriterInv, StagedIsNew, UniqueRows, CountsAddUp,
                        UncountedIsCommitted, DoneIsVisible, ReturnedIsDurable, Visible, table, writers, counts
        <3>2. DrainerInv'
            BY <2>4 DEF DrainerInv, SentIsCommitted, BatchContinues,
                AnsweredIsAccepted, AckedIsAccepted, AckedIsPrefix,
                TargetIsCommitted, DrainedIsDelivered, table, drainers, service
        <3> QED BY <3>1, <3>2
    <2>5. ASSUME NEW k \in Key, Rekey(k)
          PROVE  UNCHANGED <<table, lock, writers, drainers, service>>
        BY <2>5 DEF Rekey
    <2> QED BY <2>1, <2>2, <2>3, <2>4, <2>5 DEF Next, vars
<1> QED BY <1>1, <1>2, TypeCorrect, PTL DEF Spec, IInv

\* No interleaving of enqueues stores a record twice.
THEOREM NothingIsStoredTwice == Spec => []UniqueRows
<1>1. IInv => UniqueRows
    BY DEF IInv, WriterInv
<1> QED BY <1>1, IInvHolds, PTL

\* The counts returned by enqueue are the rows of the table but for those of
\* calls that committed and have not returned, or ended before they could.
THEOREM CountsAreExact == Spec => []CountsAddUp
<1>1. IInv => CountsAddUp
    BY DEF IInv, WriterInv
<1> QED BY <1>1, IInvHolds, PTL

\* What an enqueue was given is in the table when it returns, and no row is
\* ever taken out (RowsStay).
THEOREM EnqueueIsDurable == Spec => []ReturnedIsDurable
<1>1. IInv => ReturnedIsDurable
    BY DEF IInv, WriterInv
<1> QED BY <1>1, IInvHolds, PTL

\* No crash, lost answer or concurrent drain acknowledges a record that the
\* service has not taken over.
THEOREM NothingIsLost == Spec => []AckedIsAccepted
<1>1. IInv => AckedIsAccepted
    BY DEF IInv, DrainerInv
<1> QED BY <1>1, IInvHolds, PTL

\* Acknowledgements never overtake an older row, with any number of drainers.
THEOREM AcknowledgedInOrder == Spec => []AckedIsPrefix
<1>1. IInv => AckedIsPrefix
    BY DEF IInv, DrainerInv
<1> QED BY <1>1, IInvHolds, PTL

\* A drain that reports nothing pending has seen all it was to deliver.
THEOREM DrainReportIsTrue == Spec => []DrainedIsDelivered
<1>1. IInv => DrainedIsDelivered
    BY DEF IInv, DrainerInv
<1> QED BY <1>1, IInvHolds, PTL

\* The outbox implements the abstract log: Commit extends it, IngestAccepted
\* and LateAccept deliver, Acknowledge acknowledges, all else stutters.
THEOREM OutboxImplementsDeliveryLog == Spec => ImplementsDeliveryLog
<1> USE DEF Mirror!Init, Mirror!Next, Mirror!vars
<1>0. /\ \A f : Mirror!Range(f) = Range(f)
      /\ \A f : Mirror!IsInjective(f) = IsInjective(f)
    BY DEF Range, IsInjective, Mirror!Range, Mirror!IsInjective
<1>1. Init => Mirror!Init
    BY DEF Init
<1>2. IInv /\ IInv' /\ [Next]_vars => [Mirror!Next]_(Mirror!vars)
    <2> SUFFICES ASSUME IInv, IInv', [Next]_vars
                 PROVE  [Mirror!Next]_(Mirror!vars)
        OBVIOUS
    <2> USE DEF IInv, WriterInv, DrainerInv
    <2>1. ASSUME NEW w \in Writer, Commit(w) PROVE Mirror!Extend
        <3>1. UNCHANGED <<accepted, acked>>
            BY <2>1 DEF Commit, service
        <3>2. /\ Len(rows) =< Len(rows')
              /\ \A i \in DOMAIN rows : rows'[i] = rows[i]
            BY RowsStay
        <3> QED BY <1>0, <3>1, <3>2 DEF Mirror!Extend, TypeOK, TableTypeOK, UniqueRows
    <2>2. ASSUME NEW w \in Writer, Enqueue(w), ~Commit(w)
          PROVE  UNCHANGED <<rows, accepted, acked>>
        BY <2>2 DEF Enqueue, BeginEnqueue, SkipKnown, FindMissing, InsertRow,
                    Return, AbortEnqueue, table, service
    <2>3. ASSUME NEW d \in Drainer, IngestAccepted(d) PROVE Mirror!Deliver
        BY <1>0, <2>3 DEF IngestAccepted, Mirror!Deliver, SentIsCommitted, table
    <2>4. ASSUME NEW d \in Drainer, Acknowledge(d) PROVE Mirror!Acknowledge
        BY <1>0, <2>4 DEF Acknowledge, Mirror!Acknowledge, Mirror!IsOldestPart, service,
                    SentIsCommitted, AckedIsPrefix, AckedIsAccepted
    <2>5. ASSUME NEW d \in Drainer, Drain(d), ~IngestAccepted(d), ~Acknowledge(d)
          PROVE  UNCHANGED <<rows, accepted, acked>>
        BY <2>5 DEF Drain, StartDrain, DrainEmpty, ReadBatch, ReadUnreadable,
                    IngestUnavailable, AbortDrain, table, service
    <2>6. ASSUME NEW r \in Record, LateAccept(r) PROVE Mirror!Deliver
        BY <1>0, <2>6 DEF LateAccept, Mirror!Deliver, SentIsCommitted, table
    <2>7. ASSUME NEW k \in Key, Rekey(k) PROVE UNCHANGED <<rows, accepted, acked>>
        BY <2>7 DEF Rekey, table, service
    <2>8. CASE UNCHANGED vars
        BY <2>8 DEF vars, table, service
    <2> QED BY <2>1, <2>2, <2>3, <2>4, <2>5, <2>6, <2>7, <2>8 DEF Next
<1> QED BY <1>1, <1>2, IInvHolds, PTL DEF Spec, Mirror!Spec, ImplementsDeliveryLog

=============================================================================
