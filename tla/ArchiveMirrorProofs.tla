------------------------ MODULE ArchiveMirrorProofs ------------------------
(***************************************************************************)
(* Proofs about the mirror of ArchiveMemoryAdapter, for any calls, Works,  *)
(* originals and batches.                                                  *)
(***************************************************************************)
EXTENDS ArchiveMemoryAdapterProofs, SequenceTheorems, FiniteSetTheorems

----------------------------------------------------------------------------
(* Lists *)

\* A list of a finite set has all its members and no other.
LEMMA ListedSet ==
    ASSUME NEW S, IsFiniteSet(S)
    PROVE  /\ SetToSeq(S) \in Seq(S)
           /\ Range(SetToSeq(S)) = S
<1> DEFINE n == Cardinality(S)
           f == SetToSeq(S)
<1>1. n \in Nat /\ ExistsBijection(1..n, S)
    BY FS_CardinalityType
<1>2. \E g \in [1..n -> S] : IsInjective(g)
    BY <1>1, Zenon DEF ExistsBijection, Bijection, Injection
<1>3. f \in [1..n -> S] /\ IsInjective(f)
    BY <1>2, Zenon DEF SetToSeq
<1>4. IsFiniteSet(1..n) /\ Cardinality(1..n) = n
    BY <1>1, FS_Interval
<1>5. f \in Injection(1..n, S)
    BY <1>3, Zenon DEF Injection
<1>6. f \in Surjection(1..n, S)
    BY <1>4, <1>5, FS_Injection
<1>7. f \in Seq(S)
    BY <1>1, <1>3, SeqDef
<1>8. \A x \in S : \E i \in 1..n : f[i] = x
    BY <1>6, Zenon DEF Surjection
<1>9. DOMAIN f = 1..n /\ \A i \in 1..n : f[i] \in S
    BY <1>3
<1>10. Range(f) = S
    BY <1>8, <1>9 DEF Range
<1> QED BY <1>7, <1>10

\* How many members of N there are up to x.
Rank(N, x) == Cardinality({y \in N : y =< x})

LEMMA RankGrows ==
    ASSUME NEW N \in SUBSET Nat, IsFiniteSet(N)
    PROVE  /\ \A x \in N : Rank(N, x) \in 1..Cardinality(N)
           /\ \A x, z \in N : x < z => Rank(N, x) < Rank(N, z)
<1> DEFINE Low(x) == {y \in N : y =< x}
<1>1. \A x \in N : /\ Low(x) \in SUBSET N
                   /\ x \in Low(x)
    OBVIOUS
<1>2. ASSUME NEW x \in N
      PROVE  /\ IsFiniteSet(Low(x))
             /\ Cardinality(Low(x)) \in Nat
             /\ Cardinality(Low(x)) =< Cardinality(N)
             /\ Cardinality(Low(x)) # 0
    BY <1>1, FS_Subset, FS_CardinalityType, FS_EmptySet
<1>3. Cardinality(N) \in Nat
    BY FS_CardinalityType
<1>4. ASSUME NEW x \in N, NEW z \in N, x < z
      PROVE  Cardinality(Low(x)) < Cardinality(Low(z))
    <2>a. x \in Nat /\ z \in Nat /\ ~(z =< x)
        BY <1>4
    <2>b. \A y \in N : y =< x => y =< z
        BY <2>a, <1>4
    <2>1. Low(x) \in SUBSET Low(z)
        BY <2>b
    <2>c. z \notin Low(x) /\ z \in Low(z)
        BY <2>a
    <2>2. IsFiniteSet(Low(z))
        BY <1>2
    <2>3. /\ Cardinality(Low(x)) =< Cardinality(Low(z))
          /\ Cardinality(Low(z)) = Cardinality(Low(x)) => Low(z) = Low(x)
        BY <2>1, <2>2, FS_Subset
    <2> HIDE DEF Low
    <2> QED BY <2>1, <2>c, <2>3, <1>2
<1> QED BY <1>2, <1>3, <1>4 DEF Rank

\* Ascending lists all members, from the smallest to the largest.
LEMMA AscendingLists ==
    ASSUME NEW N \in SUBSET Nat, IsFiniteSet(N)
    PROVE  /\ Cardinality(N) \in Nat
           /\ Ascending(N) \in [1..Cardinality(N) -> N]
           /\ \A i, j \in 1..Cardinality(N) :
                i < j => Ascending(N)[i] < Ascending(N)[j]
           /\ \A x \in N : \E i \in 1..Cardinality(N) : Ascending(N)[i] = x
<1> DEFINE n == Cardinality(N)
           r == [x \in N |-> Rank(N, x)]
           a == Ascending(N)
           f == [i \in 1..n |-> CHOOSE x \in N : r[x] = i]
<1>1. n \in Nat
    BY FS_CardinalityType
<1>2. IsFiniteSet(1..n) /\ Cardinality(1..n) = n
    BY <1>1, FS_Interval
<1>3. r \in [N -> 1..n] /\ \A x, z \in N : x < z => r[x] < r[z]
    BY RankGrows
<1> HIDE DEF r
<1>4. IsInjective(r)
    BY <1>3 DEF IsInjective
<1>5. r \in Injection(N, 1..n)
    BY <1>3, <1>4, Zenon DEF Injection
<1>6. r \in Surjection(N, 1..n)
    BY <1>2, <1>5, FS_Injection
<1>7. \A i \in 1..n : \E x \in N : r[x] = i
    BY <1>6, Zenon DEF Surjection
<1>8. \A i \in 1..n : f[i] \in N /\ r[f[i]] = i
    BY <1>7
<1>9. f \in [1..n -> N]
    BY <1>8
<1> HIDE DEF f
<1>10. \A i, j \in 1..n : i < j => f[i] < f[j]
    <2> TAKE i, j \in 1..n
    <2> HAVE i < j
    <2>1. f[i] \in N /\ f[j] \in N /\ r[f[i]] = i /\ r[f[j]] = j
        BY <1>8
    <2>2. ~(f[j] < f[i])
        <3>1. f[j] < f[i] => r[f[j]] < r[f[i]]
            BY <2>1, <1>3
        <3>2. i \in Nat /\ j \in Nat /\ ~(j < i)
            BY <1>1
        <3> QED BY <3>1, <3>2, <2>1
    <2>3. f[j] # f[i]
        BY <2>1, <1>1
    <2>4. f[i] \in Nat /\ f[j] \in Nat
        BY <2>1
    <2> QED BY <2>2, <2>3, <2>4
<1>11. a \in [1..n -> N] /\ \A i, j \in 1..n : i < j => a[i] < a[j]
    BY <1>9, <1>10, Zenon DEF Ascending
<1> HIDE DEF a
<1>12. IsInjective(a)
    <2> SUFFICES ASSUME NEW i \in 1..n, NEW j \in 1..n, a[i] = a[j]
                 PROVE  i = j
        BY <1>11 DEF IsInjective
    <2>1. a[i] \in Nat /\ a[j] \in Nat
        BY <1>11
    <2> QED BY <1>1, <1>11, <2>1
<1>13. a \in Injection(1..n, N)
    BY <1>11, <1>12, Zenon DEF Injection
<1>14. a \in Surjection(1..n, N)
    BY <1>2, <1>13, FS_Injection
<1>15. \A x \in N : \E i \in 1..n : a[i] = x
    BY <1>14, Zenon DEF Surjection
<1> QED BY <1>1, <1>11, <1>15 DEF a

\* So there is a first one.
LEMMA LeastMember ==
    ASSUME NEW N \in SUBSET Nat, IsFiniteSet(N), N # {}
    PROVE  \E x \in N : \A y \in N : x =< y
<1> DEFINE n == Cardinality(N)
           a == Ascending(N)
<1>1. /\ n \in Nat
      /\ a \in [1..n -> N]
      /\ \A i, j \in 1..n : i < j => a[i] < a[j]
      /\ \A x \in N : \E i \in 1..n : a[i] = x
    BY AscendingLists
<1> HIDE DEF n, a
<1>2. 1 \in 1..n
    <2>1. PICK y \in N : TRUE
        OBVIOUS
    <2>2. PICK i \in 1..n : a[i] = y
        BY <2>1, <1>1
    <2> QED BY <2>2, <1>1
<1>3. ASSUME NEW y \in N PROVE a[1] =< y
    <2>1. PICK i \in 1..n : a[i] = y
        BY <1>1
    <2>2. a[1] \in Nat /\ a[i] \in Nat
        BY <1>1, <1>2
    <2>3. CASE i = 1
        BY <2>1, <2>2, <2>3
    <2>4. CASE 1 < i
        BY <2>1, <2>2, <2>4, <1>1, <1>2
    <2> QED BY <2>3, <2>4, <1>1
<1> QED BY <1>1, <1>2, <1>3

\* What enqueue does to the outbox: it adds all that is new and nothing else,
\* behind what is there, and no record twice (archive_sync.py:183-192).
LEMMA StoredAdds ==
    ASSUME log \in Seq(Item), NEW rs \in Seq(Item)
    PROVE  /\ Stored(rs) \in Seq(Item)
           /\ Len(log) =< Len(Stored(rs))
           /\ \A i \in 1..Len(log) : Stored(rs)[i] = log[i]
           /\ Range(Stored(rs)) = Range(log) \cup Range(rs)
           /\ IsInjective(log) => IsInjective(Stored(rs))
<1> DEFINE N == News(rs)
           n == Cardinality(N)
           place == Ascending(N)
           new == [k \in 1..n |-> rs[place[k]]]
<1>1. Len(rs) \in Nat /\ DOMAIN rs = 1..Len(rs)
      /\ \A i \in 1..Len(rs) : rs[i] \in Item
    BY LenProperties, ElementOfSeq
<1>2. N \in SUBSET (1..Len(rs)) /\ N \in SUBSET Nat
    BY <1>1 DEF News
<1>3. IsFiniteSet(N)
    <2>1. IsFiniteSet(1..Len(rs))
        BY <1>1, FS_Interval
    <2> QED BY <2>1, <1>2, FS_Subset
<1>4. /\ n \in Nat
      /\ place \in [1..n -> N]
      /\ \A i, j \in 1..n : i < j => place[i] < place[j]
      /\ \A x \in N : \E i \in 1..n : place[i] = x
    BY <1>2, <1>3, AscendingLists
<1>5. Stored(rs) = log \o new
    BY DEF Stored
<1>6. \A x \in N : x \in 1..Len(rs) /\ rs[x] \notin Range(log)
                /\ \A j \in 1..(x - 1) : rs[j] # rs[x]
    BY <1>1 DEF News
<1> HIDE DEF N, n, place
<1>7. new \in [1..n -> Item]
    BY <1>1, <1>2, <1>4
<1>8. new \in Seq(Item) /\ Len(new) = n
    <2>1. new \in Seq(Item)
        BY <1>4, <1>7, SeqDef
    <2> QED BY <2>1, <1>4, <1>7, LenProperties
<1>9. /\ Stored(rs) \in Seq(Item)
      /\ Len(Stored(rs)) = Len(log) + n
      /\ \A i \in 1..(Len(log) + n) :
            Stored(rs)[i] = IF i <= Len(log) THEN log[i] ELSE new[i - Len(log)]
      /\ Range(Stored(rs)) = Range(log) \cup Range(new)
    <2> HIDE DEF new
    <2>1. /\ log \o new \in Seq(Item)
          /\ Len(log \o new) = Len(log) + Len(new)
          /\ \A i \in 1..(Len(log) + Len(new)) :
                (log \o new)[i] = IF i <= Len(log) THEN log[i]
                                  ELSE new[i - Len(log)]
        BY <1>8, ConcatProperties
    <2>2. Range(log \o new) = Range(log) \cup Range(new)
        BY <1>8, RangeConcatenation
    <2> QED BY <2>1, <2>2, <1>5, <1>8
<1>10. Len(log) \in Nat
    BY LenProperties
<1>11. Range(new) \subseteq Range(rs)
    BY <1>1, <1>2, <1>4 DEF Range
<1>12. Range(rs) \subseteq Range(log) \cup Range(new)
    <2> SUFFICES ASSUME NEW x \in Range(rs), x \notin Range(log)
                 PROVE  x \in Range(new)
        OBVIOUS
    <2> DEFINE T == {i \in 1..Len(rs) : rs[i] = x}
    <2>1. T \in SUBSET (1..Len(rs)) /\ T \in SUBSET Nat /\ T # {}
        BY <1>1 DEF Range
    <2>2. IsFiniteSet(1..Len(rs))
        BY <1>1, FS_Interval
    <2>3. IsFiniteSet(T)
        BY <2>1, <2>2, FS_Subset
    <2>4. PICK first \in T : \A y \in T : first =< y
        BY <2>1, <2>3, LeastMember
    <2>5. \A y \in T : ~(y < first)
        BY <2>1, <2>4
    <2>6. first \in 1..Len(rs) /\ rs[first] = x
        BY <2>4
    <2>7. ASSUME NEW j \in 1..(first - 1) PROVE rs[j] # x
        <3>1. j \in 1..Len(rs) /\ j < first
            BY <2>6, <1>1
        <3> QED BY <3>1, <2>5
    <2>8. first \in N
        BY <2>6, <2>7, <1>1 DEF N, News
    <2>9. PICK k \in 1..n : place[k] = first
        BY <2>8, <1>4
    <2>10. new[k] = x /\ k \in DOMAIN new
        BY <2>6, <2>9
    <2> HIDE DEF new
    <2> QED BY <2>10 DEF Range
<1>13. \A i, j \in 1..n : i < j => new[i] # new[j]
    <2> SUFFICES ASSUME NEW i \in 1..n, NEW j \in 1..n, i < j
                 PROVE  rs[place[i]] # rs[place[j]]
        OBVIOUS
    <2>1. place[i] \in 1..Len(rs) /\ place[j] \in N /\ place[j] \in 1..Len(rs)
            /\ place[i] < place[j]
        BY <1>2, <1>4
    <2>2. place[i] \in 1..(place[j] - 1)
        BY <2>1, <1>1
    <2> QED BY <2>1, <2>2, <1>6
<1>14. \A i \in 1..n : new[i] \notin Range(log)
    BY <1>4, <1>6
<1> HIDE DEF new
<1>15. ASSUME IsInjective(log) PROVE IsInjective(Stored(rs))
    <2> DEFINE s == Stored(rs)
    <2>1. DOMAIN s = 1..(Len(log) + n) /\ DOMAIN log = 1..Len(log)
        BY <1>9, LenProperties
    <2>2. ASSUME NEW i \in 1..(Len(log) + n), NEW j \in 1..(Len(log) + n), i < j
          PROVE  s[i] # s[j]
        <3>1. CASE j <= Len(log)
            <4>1. i \in 1..Len(log) /\ j \in 1..Len(log) /\ i # j
                BY <3>1, <2>2, <1>4, <1>10
            <4>2. s[i] = log[i] /\ s[j] = log[j]
                BY <4>1, <1>9, <1>4, <1>10
            <4> QED BY <4>1, <4>2, <2>1, <1>15 DEF IsInjective
        <3>2. CASE i <= Len(log) /\ ~(j <= Len(log))
            <4>1. i \in 1..Len(log) /\ j - Len(log) \in 1..n
                BY <3>2, <1>4, <1>10
            <4>2. s[i] = log[i] /\ s[j] = new[j - Len(log)]
                BY <3>2, <1>9
            <4>3. log[i] \in Range(log)
                BY <4>1, <2>1 DEF Range
            <4> QED BY <4>1, <4>2, <4>3, <1>14
        <3>3. CASE ~(i <= Len(log)) /\ ~(j <= Len(log))
            <4>1. /\ i - Len(log) \in 1..n /\ j - Len(log) \in 1..n
                  /\ i - Len(log) < j - Len(log)
                BY <3>3, <2>2, <1>4, <1>10
            <4>2. s[i] = new[i - Len(log)] /\ s[j] = new[j - Len(log)]
                BY <3>3, <1>9
            <4> QED BY <4>1, <4>2, <1>13
        <3> QED BY <3>1, <3>2, <3>3, <2>2, <1>4, <1>10
    <2> HIDE DEF s
    <2>3. \A i, j \in 1..(Len(log) + n) : s[i] = s[j] => i = j
        BY <2>2, <1>4, <1>10
    <2>4. IsInjective(s)
        BY <2>1, <2>3 DEF IsInjective
    <2> QED BY <2>4 DEF s
<1> QED BY <1>4, <1>9, <1>10, <1>11, <1>12, <1>15

\* Nothing to store, nothing stored.
LEMMA NothingStored ==
    ASSUME log \in Seq(Item)
    PROVE  Stored(<<>>) = log
<1>1. News(<<>>) = {}
    BY DEF News
<1>2. Cardinality(News(<<>>)) = 0
    BY <1>1, FS_EmptySet
<1>3. Stored(<<>>) = log \o <<>>
    BY <1>2 DEF Stored
<1> QED BY <1>3, ConcatEmptySeq

----------------------------------------------------------------------------
(* What is read of the Ledger *)

\* What is read of the Ledger is no part of a conversation.
LedgerItem == {r \in Item : r.kind \notin {"REQUEST", "RESPONSE"}}

LEMMA LedgerItems ==
    ASSUME NEW s \in Seq(LedgerItem)
    PROVE  /\ s \in Seq(Item)
           /\ Range(s) \subseteq LedgerItem
<1>1. LedgerItem \subseteq Item
    BY DEF LedgerItem
<1>2. s \in Seq(Item)
    BY <1>1, SeqMonotonic
<1>3. DOMAIN s = 1..Len(s) /\ \A i \in 1..Len(s) : s[i] \in LedgerItem
    BY LenProperties, ElementOfSeq
<1> QED BY <1>2, <1>3 DEF Range

\* The originals of a scope, listed.
LEMMA CreativesListed ==
    ASSUME NEW s \in Scope, NEW S \in SUBSET Original
    PROVE  /\ SetToSeq({Creative(s, o) : o \in S}) \in Seq(LedgerItem)
           /\ Range(SetToSeq({Creative(s, o) : o \in S}))
                    = {Creative(s, o) : o \in S}
<1> DEFINE C == {Creative(s, o) : o \in S}
           f == [o \in S |-> Creative(s, o)]
<1>1. IsFiniteSet(S)
    BY ConstantsAssumption, FS_Subset
<1>2. f \in Surjection(S, C)
    BY DEF Surjection
<1>3. IsFiniteSet(C)
    <2> HIDE DEF C, f
    <2> QED BY <1>1, <1>2, FS_Surjection
<1>4. C \in SUBSET LedgerItem
    BY DEF Creative, Item, LedgerItem
<1> HIDE DEF C
<1>5. SetToSeq(C) \in Seq(C) /\ Range(SetToSeq(C)) = C
    BY <1>3, ListedSet
<1>6. SetToSeq(C) \in Seq(LedgerItem)
    BY <1>4, <1>5, SeqMonotonic
<1> QED BY <1>5, <1>6 DEF C

\* ledger_records has every artifact, the run snapshot there is, and the
\* originals it was given (archive_sync.py:77-100).
LEMMA RecordsListed ==
    ASSUME NEW w \in Work, NEW n \in Nat, NEW S \in SUBSET Original
    PROVE  /\ RecordsAt(w, n, S) \in Seq(LedgerItem)
           /\ \A m \in 1..n : Artifact(w, m) \in Range(RecordsAt(w, n, S))
           /\ n > 0 => Snapshot(w, n) \in Range(RecordsAt(w, n, S))
           /\ \A o \in S : Creative(w, o) \in Range(RecordsAt(w, n, S))
<1> DEFINE rows == [m \in 1..n |-> Artifact(w, m)]
           run == IF n = 0 THEN <<>> ELSE <<Snapshot(w, n)>>
           own == SetToSeq({Creative(w, o) : o \in S})
<1>1. rows \in Seq(LedgerItem)
    <2>1. rows \in [1..n -> LedgerItem]
        BY DEF Artifact, Item, LedgerItem
    <2> HIDE DEF rows
    <2> QED BY <2>1, SeqDef
<1>2. run \in Seq(LedgerItem)
    <2>1. Snapshot(w, n) \in LedgerItem
        BY DEF Snapshot, Item, LedgerItem
    <2> QED BY <2>1, EmptySeq
<1>3. own \in Seq(LedgerItem) /\ Range(own) = {Creative(w, o) : o \in S}
    BY CreativesListed DEF Scope
<1>4. RecordsAt(w, n, S) = run \o rows \o own
    BY DEF RecordsAt
<1>5. \A m \in 1..n : Artifact(w, m) \in Range(rows)
    BY DEF Range
<1>6. n > 0 => Snapshot(w, n) \in Range(run)
    BY DEF Range
<1> DEFINE both == run \o rows
<1> HIDE DEF rows, run, own
<1>7. both \in Seq(LedgerItem) /\ Range(both) = Range(run) \cup Range(rows)
    BY <1>1, <1>2, ConcatProperties, RangeConcatenation
<1>8. RecordsAt(w, n, S) = both \o own
    BY <1>4
<1> HIDE DEF both
<1>9. /\ RecordsAt(w, n, S) \in Seq(LedgerItem)
      /\ Range(RecordsAt(w, n, S)) = Range(both) \cup Range(own)
    BY <1>3, <1>7, <1>8, ConcatProperties, RangeConcatenation
<1> QED BY <1>3, <1>5, <1>6, <1>7, <1>9

\* So whoever reads the Ledger mirrors all that was written by then.
LEMMA ReadingMirrors ==
    ASSUME NEW w \in Work, NEW n \in Nat, NEW S \in SUBSET Original
    PROVE  Mirrored(w, n, Range(RecordsAt(w, n, S)))
<1>1. n > 0 => Snapshot(w, n) \in Range(RecordsAt(w, n, S))
    BY RecordsListed
<1>2. /\ Snapshot(w, n).kind = "RUN_SNAPSHOT"
      /\ Snapshot(w, n).of = w
      /\ Snapshot(w, n).revision >= n
    BY DEF Snapshot
<1>3. \A m \in 1..n : Artifact(w, m) \in Range(RecordsAt(w, n, S))
    BY RecordsListed
<1> QED BY <1>1, <1>2, <1>3 DEF Mirrored

\* Fewer writes are mirrored, too, and by more records.
LEMMA MirroredGrows ==
    ASSUME NEW w, NEW n \in Nat, NEW k \in Nat, k =< n,
           NEW A \in SUBSET Item, NEW B, A \subseteq B, Mirrored(w, n, A)
    PROVE  Mirrored(w, k, B)
<1>1. \A m \in 1..k : Artifact(w, m) \in B
    BY DEF Mirrored
<1>2. ASSUME k > 0
      PROVE  \E r \in B : r.kind = "RUN_SNAPSHOT" /\ r.of = w /\ r.revision >= k
    <2>1. PICK r \in A : r.kind = "RUN_SNAPSHOT" /\ r.of = w /\ r.revision >= n
        BY <1>2 DEF Mirrored
    <2>2. r.revision \in Nat
        BY <2>1 DEF Item
    <2> QED BY <2>1, <2>2
<1> QED BY <1>1, <1>2 DEF Mirrored

----------------------------------------------------------------------------
(* The inductive invariant *)

\* Only a call with a Work reads the Ledger.
ReadersHaveWorks ==
    \A c \in Call : cpc[c] \in {"read", "store"} => scope[c] \in Work

\* The oldest n rows.
Rows(n) == {log[i] : i \in 1..n}

\* The rows up to the cursor were taken over, and nothing behind the batch that
\* starts there; those under way are of that batch, and a thread has records in
\* its hands only between reading and storing them.
OutboxInv ==
    /\ IsInjective(log)
    /\ Rows(cursor) \subseteq taken
    /\ taken \subseteq Rows(BatchEnd)
    /\ spc \in {"sending", "sent"} => cursor =< sent /\ sent =< BatchEnd
    /\ spc = "sent" => Rows(sent) \subseteq taken
    /\ spc \notin {"store", "storeLast"} => export = <<>>

\* What the current cycle has stored or is about to store.
InHand == Range(log) \cup Range(export)

\* What a finding found is there still: no write is undone, no original is
\* given up, and what a Work with rows owns stays with it.
StillThere(finding) ==
    /\ \A w \in Work : finding.rows[w] =< ledger[w]
    /\ \A o \in Original :
            /\ finding.holder[o] # None => owner[o] # None
            /\ finding.holder[o] \in Work => Holder(o) = finding.holder[o]

\* What Work w had when the cycle began has been read.
Exported(w) ==
    /\ Mirrored(w, started.rows[w], InHand)
    /\ \A o \in Original :
            started.holder[o] = w => Creative(w, o) \in InHand

Exporting == {"export", "store", "glob", "storeLast", "drain", "sending", "sent"}
WorksDone == {"glob", "storeLast", "drain", "sending", "sent"}
AllRead == {"storeLast", "drain", "sending", "sent"}

\* How far the current cycle has got.
CycleInv ==
    /\ spc # "sleep" => StillThere(started)
    /\ spc \in Exporting => \A w \in Work \ todo : Exported(w)
    /\ spc \in WorksDone => todo = {}
    /\ spc = "glob" => \A o \in walked : Holder(o) \in Work
    /\ spc \in AllRead =>
            \A o \in Original :
                started.holder[o] = Unscoped /\ Holder(o) = Unscoped =>
                    Creative(Unscoped, o) \in InHand

\* What a call of which nothing was missed has in the outbox by now.
CaptureInv(c) ==
    /\ \A w \in Work : wrote[c][w] =< ledger[w]
    /\ c \notin missed =>
        /\ (cpc[c] \in {"call", "running", "read", "store", "answer"}
                \/ answer[c] # None) => Request(c) \in Range(log)
        /\ (cpc[c] \in {"read", "store", "answer"} \/ answer[c] # None) =>
                Response(c) \in Range(log)
        /\ cpc[c] = "store" => Mirrored(scope[c], wrote[c][scope[c]], Range(view[c]))
        /\ (cpc[c] = "answer" \/ answer[c] # None) /\ scope[c] \in Work =>
                Mirrored(scope[c], wrote[c][scope[c]], Range(log))

----------------------------------------------------------------------------
(* Types *)

LEMMA ReadTyped ==
    ASSUME TypeOK
    PROVE  /\ \A w \in Work : Records(w) \in Seq(Item)
           /\ Found \in Finding
<1>1. ASSUME NEW w \in Work PROVE Records(w) \in Seq(Item)
    <2>1. {o \in Original : owner[o] = w} \in SUBSET Original
        OBVIOUS
    <2>2. ledger[w] \in Nat
        BY DEF TypeOK
    <2> QED BY <2>1, <2>2, RecordsListed, LedgerItems DEF Records
<1>2. Found \in Finding
    BY DEF TypeOK, Found, Finding, Holder, Scope
<1> QED BY <1>1, <1>2

\* The rows of the outbox stay where they are, whatever is stored.
LEMMA StoredTyped ==
    ASSUME TypeOK, NEW rs \in Seq(Item)
    PROVE  /\ Stored(rs) \in Seq(Item)
           /\ cursor \in 0..Len(Stored(rs))
           /\ sent \in 0..Len(Stored(rs))
<1>1. Stored(rs) \in Seq(Item) /\ Len(log) =< Len(Stored(rs))
    BY StoredAdds DEF TypeOK
<1>2. Len(log) \in Nat /\ Len(Stored(rs)) \in Nat
    BY <1>1, LenProperties DEF TypeOK
<1> QED BY <1>1, <1>2 DEF TypeOK

\* What is under way are records of the outbox.
LEMMA UnderWayTyped ==
    ASSUME TypeOK
    PROVE  UnderWay \in SUBSET Item
<1>1. Len(log) \in Nat /\ cursor \in Nat /\ sent \in 0..Len(log)
    BY LenProperties DEF TypeOK
<1>2. \A i \in (cursor + 1)..sent : i \in 1..Len(log)
    BY <1>1
<1>3. \A i \in 1..Len(log) : log[i] \in Item
    BY ElementOfSeq DEF TypeOK
<1> QED BY <1>2, <1>3 DEF UnderWay

Typed == TypeOK /\ ReadersHaveWorks

LEMMA InitTyped == Init => Typed
<1> SUFFICES ASSUME Init PROVE Typed
    OBVIOUS
<1>1. <<>> \in Seq(Item) /\ Len(<<>>) = 0
    BY EmptySeq
<1>2. Found \in Finding
    BY DEF Init, Found, Finding, Holder, Scope
<1>3. /\ log \in Seq(Item) /\ export \in Seq(Item)
      /\ cursor \in 0..Len(log) /\ sent \in 0..Len(log)
      /\ view \in [Call -> Seq(Item)]
    BY <1>1 DEF Init
<1> QED BY <1>2, <1>3 DEF Init, Typed, TypeOK, ReadersHaveWorks

LEMMA CallTyped ==
    ASSUME Typed, NEW c \in Call, CallTool(c) \/ Writes(c)
    PROVE  Typed'
<1> USE DEF Typed, TypeOK, ReadersHaveWorks, outbox, drained, source, worker
<1>1. CASE Capture(c)
    <2>1. <<Request(c)>> \in Seq(Item)
        BY DEF Request, Item
    <2> QED BY <1>1, <2>1, StoredTyped DEF Capture
<1>2. CASE Respond(c)
    <2>1. <<Response(c)>> \in Seq(Item)
        BY DEF Response, Item
    <2>2. PICK s \in Scope :
            /\ scope' = [scope EXCEPT ![c] = s]
            /\ cpc' = [cpc EXCEPT ![c] = IF s \in Work THEN "read" ELSE "answer"]
        BY <1>2 DEF Respond
    <2>3. /\ scope' \in [Call -> Scope]
          /\ \A d \in Call : cpc'[d] \in {"read", "store"} => scope'[d] \in Work
        BY <2>2
    <2>4. cpc' \in [Call -> {"new", "call", "running", "read", "store", "answer",
                             "done"}]
        BY <2>2
    <2>5. Stored(<<Response(c)>>) \in Seq(Item)
            /\ cursor \in 0..Len(Stored(<<Response(c)>>))
            /\ sent \in 0..Len(Stored(<<Response(c)>>))
        BY <2>1, StoredTyped
    <2>6. outcome' \in [Call -> Result \cup {None}]
        BY <1>2 DEF Respond
    <2> QED BY <1>2, <2>3, <2>4, <2>5, <2>6 DEF Respond
<1>3. CASE ReadLedger(c)
    <2>1. Records(scope[c]) \in Seq(Item)
        BY <1>3, ReadTyped DEF ReadLedger
    <2> QED BY <1>3, <2>1 DEF ReadLedger
<1>4. CASE StoreView(c)
    BY <1>4, StoredTyped, EmptySeq DEF StoreView
<1>5. CASE LedgerCaptureFails(c)
    BY <1>5, EmptySeq DEF LedgerCaptureFails
<1>6. CASE CaptureFails(c)
    BY <1>6 DEF CaptureFails
<1>7. CASE CallPlugin(c)
    BY <1>7 DEF CallPlugin
<1>8. CASE RespondFails(c)
    BY <1>8 DEF RespondFails
<1>9. CASE Answer(c)
    BY <1>9 DEF Answer
<1>10. CASE Cancel(c)
    BY <1>10 DEF Cancel
<1>11. CASE AskArchive(c)
    BY <1>11 DEF AskArchive
<1>12. CASE Writes(c)
    BY <1>12 DEF Writes, PluginWrites
<1> QED BY <1>1, <1>2, <1>3, <1>4, <1>5, <1>6, <1>7, <1>8, <1>9, <1>10, <1>11,
           <1>12 DEF CallTool

LEMMA WorkerTyped ==
    ASSUME Typed, Synchronize
    PROVE  Typed'
<1> USE DEF Typed, TypeOK, ReadersHaveWorks, outbox, drained, source, calls
<1>1. CASE StartCycle \/ Discover \/ DiscoverFails \/ ListWorks \/ WalkOwned
    BY <1>1, ReadTyped DEF StartCycle, Discover, DiscoverFails, ListWorks,
        WalkOwned, Works
<1>2. ASSUME NEW w \in Work, Export(w) PROVE Typed'
    BY <1>2, ReadTyped DEF Export
<1>3. CASE GlobUnowned
    <2> DEFINE S == {p \in Original : owner[p] # None} \ walked
    <2>1. S \in SUBSET Original /\ Unscoped \in Scope
        BY DEF Scope
    <2>2. export' \in Seq(Item)
        <3>1. export' = SetToSeq({Creative(Unscoped, o) : o \in S})
            BY <1>3, Zenon DEF GlobUnowned
        <3> HIDE DEF S
        <3> QED BY <3>1, <2>1, CreativesListed, LedgerItems
    <2> QED BY <1>3, <2>2 DEF GlobUnowned
<1>4. CASE StoreExport
    BY <1>4, StoredTyped, EmptySeq DEF StoreExport
<1>5. Len(log) \in Nat
    BY LenProperties
<1>6. CASE DrainRead \/ DrainAcknowledge
    BY <1>5, <1>6, ConstantsAssumption DEF DrainRead, BatchEnd, DrainAcknowledge
<1>9. UnderWay \in SUBSET Item
    BY UnderWayTyped
<1>10. CASE Ingest
    BY <1>9, <1>10 DEF Ingest
<1>7. CASE EndCycle
    <2>1. covered' \in Finding
        BY <1>7 DEF EndCycle, Finding
    <2> QED BY <1>7, <2>1 DEF EndCycle
<1>8. CASE CycleFails
    BY <1>5, <1>8, <1>9, EmptySeq DEF CycleFails
<1> QED BY <1>1, <1>2, <1>3, <1>4, <1>6, <1>7, <1>8, <1>10 DEF Synchronize

LEMMA StepTyped == Typed /\ [Next]_vars => Typed'
<1> SUFFICES ASSUME Typed, [Next]_vars PROVE Typed'
    OBVIOUS
<1> USE DEF Typed, TypeOK, ReadersHaveWorks, outbox, drained, source, worker, calls
<1>1. ASSUME NEW w \in Work, DirectWrite(w) PROVE Typed'
    BY <1>1 DEF DirectWrite
<1>2. ASSUME NEW o \in Original, NEW s \in Scope, Own(o, s) PROVE Typed'
    BY <1>2 DEF Own
<1>3. CASE Stop
    <2>1. Stored(export) \in Seq(Item) /\ Len(log) =< Len(Stored(export))
        BY StoredAdds
    <2>2. Len(log) \in Nat /\ Len(Stored(export)) \in Nat
        BY <2>1, LenProperties
    <2>3. UnderWay \in SUBSET Item
        BY UnderWayTyped
    <2>4. /\ log' \in Seq(Item)
          /\ taken' \in SUBSET Item /\ cursor' \in 0..Len(log')
          /\ sent' \in 0..Len(log')
        BY <1>3, <2>1, <2>2, <2>3 DEF Stop
    <2> QED BY <1>3, <2>4, EmptySeq DEF Stop
<1>4. CASE Start
    BY <1>4 DEF Start
<1>5. CASE UNCHANGED vars
    BY <1>5 DEF vars
<1> QED BY <1>1, <1>2, <1>3, <1>4, <1>5, CallTyped, WorkerTyped, Zenon
        DEF Next, Writes

\* The worker's variables have their types, and what it reads, sends and takes
\* for delivered are rows of the outbox, in every interleaving of calls,
\* exports, batches and stops.
THEOREM TypeCorrect == Spec => []TypeOK
<1>1. Spec => []Typed
    BY InitTyped, StepTyped, PTL DEF Spec
<1>2. Typed => TypeOK
    BY DEF Typed
<1> QED BY <1>1, <1>2, PTL

----------------------------------------------------------------------------
(* Who changes what *)

LEMMA OthersLeaveTheWorker ==
    ASSUME [Next]_vars
    PROVE  Synchronize \/ Stop \/ UNCHANGED <<worker, drained>>
<1> USE DEF outbox, drained
<1>1. ASSUME NEW c \in Call, CallTool(c) \/ Writes(c)
      PROVE  UNCHANGED <<worker, drained>>
    BY <1>1 DEF CallTool, Capture, CaptureFails, CallPlugin, Respond, RespondFails,
        ReadLedger, StoreView, LedgerCaptureFails, Answer, Cancel, AskArchive,
        Writes, PluginWrites
<1>2. ASSUME \/ \E w \in Work : DirectWrite(w)
             \/ \E o \in Original, s \in Scope : Own(o, s)
             \/ Start
      PROVE  UNCHANGED <<worker, drained>>
    BY <1>2 DEF DirectWrite, Own, Start
<1> QED BY <1>1, <1>2, Zenon DEF Next, Writes, vars

LEMMA WorkerLeavesTheRest ==
    ASSUME Synchronize
    PROVE  UNCHANGED <<source, calls>>
    BY DEF Synchronize, StartCycle, Discover, DiscoverFails, ListWorks, Export,
        WalkOwned, GlobUnowned, StoreExport, DrainRead, Ingest, DrainAcknowledge,
        EndCycle, CycleFails

\* Whatever a step does to the outbox, it does by storing some records.
LEMMA StepStores ==
    ASSUME Typed, [Next]_vars
    PROVE  \E rs \in Seq(Item) : log' = Stored(rs)
<1> USE DEF Typed, TypeOK, outbox
<1>1. log = Stored(<<>>) /\ <<>> \in Seq(Item)
    BY NothingStored, EmptySeq
<1>2. ASSUME NEW c \in Call, CallTool(c) \/ Writes(c)
      PROVE  \/ log' = log
             \/ log' = Stored(<<Request(c)>>)
             \/ log' = Stored(<<Response(c)>>)
             \/ log' = Stored(view[c])
    BY <1>2, Zenon DEF CallTool, Capture, CaptureFails, CallPlugin, Respond,
        RespondFails, ReadLedger, StoreView, LedgerCaptureFails, Answer, Cancel,
        AskArchive, Writes, PluginWrites
<1>3. ASSUME Synchronize PROVE log' = log \/ log' = Stored(export)
    BY <1>3, Zenon DEF Synchronize, StartCycle, Discover, DiscoverFails, ListWorks,
        Export, WalkOwned, GlobUnowned, StoreExport, DrainRead, Ingest,
        DrainAcknowledge, EndCycle, CycleFails
<1>4. ASSUME Stop PROVE log' = log \/ log' = Stored(export)
    BY <1>4 DEF Stop
<1>5. ASSUME \/ \E w \in Work : DirectWrite(w)
             \/ \E o \in Original, s \in Scope : Own(o, s)
             \/ Start
             \/ UNCHANGED vars
      PROVE  log' = log
    BY <1>5 DEF DirectWrite, Own, Start, vars
<1>6. \A c \in Call : /\ <<Request(c)>> \in Seq(Item)
                      /\ <<Response(c)>> \in Seq(Item)
                      /\ view[c] \in Seq(Item)
    BY DEF Request, Response, Item
<1>7. export \in Seq(Item)
    OBVIOUS
<1> QED BY <1>1, <1>2, <1>3, <1>4, <1>5, <1>6, <1>7, Zenon DEF Next, Writes

LEMMA StepExtends ==
    ASSUME Typed, [Next]_vars
    PROVE  /\ Len(log) =< Len(log')
           /\ \A i \in 1..Len(log) : log'[i] = log[i]
           /\ Range(log) \subseteq Range(log')
           /\ IsInjective(log) => IsInjective(log')
<1>1. PICK rs \in Seq(Item) : log' = Stored(rs)
    BY StepStores
<1>2. log \in Seq(Item)
    BY DEF Typed, TypeOK
<1> QED BY <1>1, <1>2, StoredAdds

----------------------------------------------------------------------------
(* The outbox *)

LEMMA InitOutboxInv == Init => OutboxInv
    BY EmptySeq, ConstantsAssumption DEF Init, OutboxInv, IsInjective, Rows

\* The batch at the cursor lies within the log.
LEMMA BatchBounds ==
    ASSUME Typed
    PROVE  /\ Len(log) \in Nat /\ cursor \in Nat /\ sent \in Nat
           /\ cursor =< Len(log) /\ sent =< Len(log)
           /\ BatchEnd \in Nat /\ cursor =< BatchEnd /\ BatchEnd =< Len(log)
<1>1. Len(log) \in Nat /\ cursor \in 0..Len(log) /\ sent \in 0..Len(log)
    BY LenProperties DEF Typed, TypeOK
<1>2. BatchSize \in Nat \ {0}
    BY ConstantsAssumption
<1> QED BY <1>1, <1>2 DEF BatchEnd

\* The oldest rows stay what they are, and more of them include fewer.
LEMMA RowsGrow ==
    ASSUME Typed, [Next]_vars, NEW m \in Nat, NEW n \in Nat, m =< n, m =< Len(log)
    PROVE  Rows(m) \subseteq Rows(n) /\ Rows(m) \subseteq Rows(n)'
<1>1. Len(log) \in Nat
    BY BatchBounds
<1>2. \A i \in 1..m : i \in 1..n /\ i \in 1..Len(log)
    BY <1>1
<1>3. \A i \in 1..Len(log) : log'[i] = log[i]
    BY StepExtends
<1> QED BY <1>2, <1>3 DEF Rows

\* The batch's end moves only forward, as the cursor and the log do.
LEMMA BatchEndGrows ==
    ASSUME Typed, [Next]_vars, cursor =< cursor'
    PROVE  BatchEnd =< BatchEnd' /\ BatchEnd' \in Nat
<1>1. Len(log) =< Len(log')
    BY StepExtends
<1>2. Len(log) \in Nat /\ cursor \in Nat /\ BatchSize \in Nat
    BY BatchBounds, ConstantsAssumption
<1>3. Len(log') \in Nat /\ cursor' \in Nat
    BY StepTyped, LenProperties DEF Typed, TypeOK
<1>4. PICK m \in Nat, n \in Nat : m = cursor' /\ n = Len(log')
    BY <1>3
<1>5. BatchEnd' = IF m + BatchSize =< n THEN m + BatchSize ELSE n
    BY <1>4 DEF BatchEnd
<1>6. cursor =< m /\ Len(log) =< n
    BY <1>1, <1>4
<1> QED BY <1>2, <1>5, <1>6 DEF BatchEnd

\* What is under way are the rows of the batch that are not acknowledged.
LEMMA UnderWayIsRead ==
    ASSUME Typed, OutboxInv
    PROVE  /\ UnderWay \subseteq Rows(BatchEnd)
           /\ spc = "sending" => Rows(sent) \subseteq Rows(cursor) \cup UnderWay
<1>1. spc = "sending" => \A i \in (cursor + 1)..sent : i \in 1..BatchEnd
    BY BatchBounds DEF OutboxInv
<1>2. \A i \in 1..sent : i \in 1..cursor \/ i \in (cursor + 1)..sent
    BY BatchBounds
<1> QED BY <1>1, <1>2 DEF UnderWay, Rows

\* What is taken over stays so, and so does what is acknowledged.
LEMMA DrainedGrows ==
    ASSUME Typed, OutboxInv, [Next]_vars
    PROVE  /\ taken \subseteq taken' /\ taken' \subseteq taken \cup UnderWay
           /\ cursor =< cursor'
<1>1. cursor \in Nat /\ sent \in Nat
    BY DEF Typed, TypeOK
<1>2. ASSUME Synchronize
      PROVE  /\ taken \subseteq taken' /\ taken' \subseteq taken \cup UnderWay
             /\ cursor =< cursor'
    BY <1>1, <1>2 DEF Synchronize, StartCycle, Discover, DiscoverFails, ListWorks,
        Export, WalkOwned, GlobUnowned, StoreExport, DrainRead, Ingest,
        DrainAcknowledge, EndCycle, CycleFails, OutboxInv, outbox, drained
<1>3. ASSUME Stop
      PROVE  /\ taken \subseteq taken' /\ taken' \subseteq taken \cup UnderWay
             /\ cursor =< cursor'
    BY <1>1, <1>3 DEF Stop
<1> QED BY <1>1, <1>2, <1>3, OthersLeaveTheWorker DEF drained

LEMMA StepOutboxInv == Typed /\ OutboxInv /\ [Next]_vars => OutboxInv'
<1> SUFFICES ASSUME Typed, OutboxInv, [Next]_vars PROVE OutboxInv'
    OBVIOUS
<1> DEFINE Rest ==
        /\ Rows(cursor) \subseteq taken
        /\ spc \in {"sending", "sent"} => cursor =< sent /\ sent =< BatchEnd
        /\ spc = "sent" => Rows(sent) \subseteq taken
        /\ spc \notin {"store", "storeLast"} => export = <<>>
<1>1. IsInjective(log)'
    BY StepExtends DEF OutboxInv
<1>2. /\ cursor =< cursor' /\ BatchEnd =< BatchEnd' /\ BatchEnd' \in Nat
      /\ taken \subseteq taken' /\ taken' \subseteq taken \cup UnderWay
    BY DrainedGrows, BatchEndGrows
<1>3. taken' \subseteq Rows(BatchEnd)'
    <2>1. taken \cup UnderWay \subseteq Rows(BatchEnd)
        BY UnderWayIsRead DEF OutboxInv
    <2>2. Rows(BatchEnd) \subseteq {log'[i] : i \in 1..BatchEnd'}
        BY <1>2, BatchBounds, RowsGrow DEF Rows
    <2> QED BY <1>2, <2>1, <2>2 DEF Rows
<1>4. \A n \in 0..Len(log) : Rows(n) = {log'[i] : i \in 1..n}
    <2>1. \A i \in 1..Len(log) : log'[i] = log[i]
        BY StepExtends
    <2>2. \A n \in 0..Len(log) : \A i \in 1..n : i \in 1..Len(log)
        BY BatchBounds
    <2> QED BY <2>1, <2>2 DEF Rows
<1>5. Rows(cursor)' = {log'[i] : i \in 1..cursor'} /\ Rows(sent)' = {log'[i] : i \in 1..sent'}
    BY DEF Rows
<1>6. /\ cursor \in 0..Len(log) /\ sent \in 0..Len(log)
      /\ BatchEnd \in Nat /\ cursor =< BatchEnd
    BY BatchBounds
<1>7. CASE UNCHANGED <<cursor, sent, spc, export>>
    <2>1. Rows(cursor)' = Rows(cursor) /\ Rows(sent)' = Rows(sent)
        BY <1>4, <1>5, <1>6, <1>7
    <2>2. /\ Rows(cursor)' \subseteq taken'
          /\ spc' = "sent" => Rows(sent)' \subseteq taken'
          /\ spc' \notin {"store", "storeLast"} => export' = <<>>
        BY <1>2, <1>7, <2>1 DEF OutboxInv
    <2>3. spc' \in {"sending", "sent"} => cursor' =< sent' /\ sent' =< BatchEnd'
        BY <1>2, <1>6, <1>7 DEF OutboxInv
    <2> QED BY <1>1, <1>3, <2>2, <2>3 DEF OutboxInv
<1> USE DEF outbox, drained
<1>8. ASSUME Synchronize PROVE Rest'
    <2>a. cursor' = cursor => Rows(cursor)' \subseteq taken'
        BY <1>2, <1>4, <1>5, <1>6 DEF OutboxInv
    <2>1. CASE StartCycle \/ Discover \/ DiscoverFails \/ ListWorks \/ WalkOwned
        <3>1. /\ cursor' = cursor /\ spc' \notin {"sending", "sent"}
              /\ export' = <<>>
            BY <2>1 DEF StartCycle, Discover, DiscoverFails, ListWorks, WalkOwned,
                OutboxInv
        <3> QED BY <2>a, <3>1
    <2>2. CASE \/ \E w \in Work : Export(w)
               \/ GlobUnowned
        <3>1. /\ cursor' = cursor /\ spc' \in {"store", "storeLast"}
            BY <2>2 DEF Export, GlobUnowned
        <3> QED BY <2>a, <3>1
    <2>3. CASE StoreExport
        <3>1. /\ cursor' = cursor /\ spc' \in {"export", "drain"}
              /\ export' = <<>>
            BY <2>3 DEF StoreExport
        <3> QED BY <2>a, <3>1
    <2>4. CASE DrainRead
        <3>1. /\ cursor' = cursor /\ spc' = "sending" /\ sent' = BatchEnd
              /\ export' = export /\ spc = "drain"
            BY <2>4 DEF DrainRead
        <3>2. export' = <<>>
            BY <3>1 DEF OutboxInv
        <3>3. cursor' =< sent' /\ sent' =< BatchEnd'
            BY <1>2, <1>6, <3>1
        <3> QED BY <2>a, <3>1, <3>2, <3>3
    <2>5. CASE Ingest
        <3>1. /\ cursor' = cursor /\ sent' = sent /\ export' = export
              /\ spc = "sending" /\ spc' = "sent" /\ taken' = taken \cup UnderWay
            BY <2>5 DEF Ingest
        <3>2. Rows(sent) \subseteq taken'
            BY <3>1, UnderWayIsRead DEF OutboxInv
        <3>3. Rows(sent)' \subseteq taken'
            BY <1>4, <1>5, <1>6, <3>1, <3>2
        <3>4. cursor' =< sent' /\ sent' =< BatchEnd'
            BY <1>2, <1>6, <3>1 DEF OutboxInv
        <3>5. export' = <<>>
            BY <3>1 DEF OutboxInv
        <3> QED BY <2>a, <3>1, <3>3, <3>4, <3>5
    <2>6. CASE DrainAcknowledge
        <3>1. /\ cursor' = sent /\ export' = export /\ taken' = taken
              /\ spc = "sent" /\ spc' = "drain"
            BY <2>6 DEF DrainAcknowledge
        <3>2. Rows(cursor)' \subseteq taken'
            BY <1>4, <1>5, <1>6, <3>1 DEF OutboxInv
        <3>3. export' = <<>>
            BY <3>1 DEF OutboxInv
        <3> QED BY <3>1, <3>2, <3>3
    <2>7. CASE EndCycle
        <3>1. /\ cursor' = cursor /\ spc = "drain" /\ spc' = "sleep"
              /\ export' = export
            BY <2>7 DEF EndCycle
        <3> QED BY <2>a, <3>1 DEF OutboxInv
    <2>8. CASE CycleFails
        <3>1. /\ cursor' = cursor /\ spc' = "sleep" /\ export' = <<>>
            BY <2>8 DEF CycleFails
        <3> QED BY <2>a, <3>1
    <2> QED BY <1>8, <2>1, <2>2, <2>3, <2>4, <2>5, <2>6, <2>7, <2>8 DEF Synchronize
<1>9. ASSUME Stop PROVE Rest'
    <2>1. /\ cursor' = cursor /\ spc' = "sleep" /\ export' = <<>>
        BY <1>9 DEF Stop
    <2>2. Rows(cursor)' \subseteq taken'
        BY <1>2, <1>4, <1>5, <1>6, <2>1 DEF OutboxInv
    <2> QED BY <2>1, <2>2
<1>10. ASSUME Rest' PROVE OutboxInv'
    BY <1>1, <1>3, <1>10 DEF OutboxInv
<1>11. Synchronize \/ Stop \/ UNCHANGED <<cursor, sent, spc, export>>
    BY OthersLeaveTheWorker DEF worker
<1> QED BY <1>7, <1>8, <1>9, <1>10, <1>11

LEMMA AckedGrows ==
    ASSUME Typed, OutboxInv, [Next]_vars
    PROVE  Acked \subseteq Acked'
<1>1. cursor \in Nat /\ cursor' \in Nat /\ cursor =< Len(log)
    BY BatchBounds, StepTyped DEF Typed, TypeOK
<1>2. cursor =< cursor'
    BY DrainedGrows
<1>3. Rows(cursor) \subseteq {log'[i] : i \in 1..cursor'}
    BY <1>1, <1>2, RowsGrow DEF Rows
<1> QED BY <1>3 DEF Acked, Rows

----------------------------------------------------------------------------
(* Refinement *)

\* No step captures, delivers and acknowledges at once.
LEMMA OneAtATime ==
    ASSUME Typed, OutboxInv, [Next]_vars
    PROVE  UNCHANGED drained \/ (log' = log /\ (cursor' = cursor \/ taken' = taken))
<1> USE DEF outbox, drained
<1>1. CASE Synchronize
    BY <1>1, Zenon DEF Synchronize, StartCycle, Discover, DiscoverFails, ListWorks,
        Export, WalkOwned, GlobUnowned, StoreExport, DrainRead, Ingest,
        DrainAcknowledge, EndCycle, CycleFails
<1>2. CASE Stop /\ spc = "sending"
    <2>1. Stored(export) = log
        BY <1>2, NothingStored DEF OutboxInv, Typed, TypeOK
    <2> QED BY <1>2, <2>1 DEF Stop
<1>3. CASE Stop /\ spc # "sending"
    BY <1>3 DEF Stop, UnderWay
<1> QED BY <1>1, <1>2, <1>3, OthersLeaveTheWorker

LEMMA InitImplementsLog == Init => Outbox!Init
    BY DEF Init, Outbox!Init, Acked

LEMMA StepImplementsLog ==
    Typed /\ OutboxInv /\ [Next]_vars => [Outbox!Next]_(Outbox!vars)
<1> SUFFICES ASSUME Typed, OutboxInv, [Next]_vars
             PROVE  [Outbox!Next]_(Outbox!vars)
    OBVIOUS
<1>1. /\ log \in Seq(Item) /\ DOMAIN log = 1..Len(log) /\ Len(log) \in Nat
      /\ log' \in Seq(Item)
      /\ cursor \in 0..Len(log)
      /\ cursor' \in 0..Len(log')
    BY StepTyped, LenProperties DEF Typed, TypeOK
<1>2. /\ Len(log) =< Len(log')
      /\ \A i \in 1..Len(log) : log'[i] = log[i]
    BY StepExtends
<1>3. IsInjective(log) /\ IsInjective(log') /\ Rows(cursor)' \subseteq taken'
    BY StepOutboxInv DEF OutboxInv
<1>4. Acked \subseteq Acked' /\ taken \subseteq taken'
    BY AckedGrows, DrainedGrows
<1>5. CASE UNCHANGED drained
    <2>1. taken' = taken /\ Acked' = Acked
        BY <1>1, <1>2, <1>5 DEF drained, Acked
    <2>2. IsInjective(log') <=> Outbox!IsInjective(log')
        BY DEF IsInjective, Outbox!IsInjective
    <2>3. Outbox!Extend
        BY <1>1, <1>2, <1>3, <2>1, <2>2, Zenon DEF Outbox!Extend
    <2> QED BY <2>3 DEF Outbox!Next
<1>6. CASE log' = log /\ cursor' = cursor
    <2>1. Acked' = Acked
        BY <1>6 DEF Acked
    <2>2. taken' \subseteq Range(log)
        <3>1. taken' \subseteq Rows(BatchEnd)
            BY DrainedGrows, UnderWayIsRead DEF OutboxInv
        <3>2. \A i \in 1..BatchEnd : i \in DOMAIN log
            BY <1>1, BatchBounds
        <3> QED BY <3>1, <3>2 DEF Rows, Range
    <2> QED BY <1>4, <1>6, <2>1, <2>2
            DEF Outbox!Next, Outbox!Deliver, Range, Outbox!Range
<1>7. CASE log' = log /\ taken' = taken
    <2>2. Acked' \subseteq taken
        BY <1>3, <1>7 DEF Acked, Rows
    <2>3. Acked' \subseteq Range(log)
        BY <1>1, <1>7 DEF Acked, Range
    <2>4. ASSUME NEW i \in DOMAIN log, NEW j \in DOMAIN log, i < j, log[j] \in Acked'
          PROVE  log[i] \in Acked'
        <3>1. PICK k \in 1..cursor' : log[j] = log[k]
            BY <2>4, <1>7 DEF Acked
        <3>2. j = k
            BY <3>1, <1>1, <1>3, <1>7 DEF IsInjective
        <3>3. i \in 1..cursor'
            BY <2>4, <3>2, <1>1
        <3> QED BY <3>3, <1>7 DEF Acked
    <2> QED BY <1>4, <1>7, <2>2, <2>3, <2>4
            DEF Outbox!Next, Outbox!Acknowledge, Outbox!IsOldestPart, Range,
                Outbox!Range
<1> QED BY <1>5, <1>6, <1>7, OneAtATime

\* With calls, exports and drains going on at once, and whatever fails or is
\* stopped between two steps, the outbox is a log that only grows, holds no
\* record twice and acknowledges its oldest records, each after the archive
\* service had it (archive_sync.py:183-211).
THEOREM MirrorImplementsDeliveryLog == Spec => ImplementsDeliveryLog
<1>1. Spec => [](Typed /\ OutboxInv)
    BY InitTyped, StepTyped, InitOutboxInv, StepOutboxInv, PTL DEF Spec
<1> QED BY <1>1, InitImplementsLog, StepImplementsLog, PTL
        DEF Spec, ImplementsDeliveryLog, Outbox!Spec

\* The abstract log keeps its promise: a record that was acknowledged is in front
\* of all that come later, and nobody can acknowledge past a gap.
THEOREM LogKeepsItsPromise == Outbox!Spec => []Outbox!Promise
<1> USE DEF Outbox!Promise, Outbox!IsOldestPart, Outbox!Range
<1>1. Outbox!Init => Outbox!Promise
    BY EmptySeq DEF Outbox!Init, Outbox!IsInjective
<1>2. Outbox!Promise /\ [Outbox!Next]_(Outbox!vars) => Outbox!Promise'
    <2> SUFFICES ASSUME Outbox!Promise, [Outbox!Next]_(Outbox!vars)
                 PROVE  Outbox!Promise'
        OBVIOUS
    <2>0. DOMAIN log = 1..Len(log) /\ Len(log) \in Nat
        BY LenProperties
    <2>1. CASE Outbox!Extend
        <3>1. /\ log' \in Seq(Item) /\ Outbox!IsInjective(log')
              /\ DOMAIN log' = 1..Len(log') /\ Len(log') \in Nat
              /\ Len(log) =< Len(log')
              /\ \A i \in DOMAIN log : log'[i] = log[i]
              /\ taken' = taken /\ Acked' = Acked
            BY <2>1, LenProperties DEF Outbox!Extend
        <3>2. DOMAIN log \subseteq DOMAIN log'
            BY <2>0, <3>1
        <3>3. ASSUME NEW i \in DOMAIN log', NEW j \in DOMAIN log',
                     i < j, log'[j] \in Acked
              PROVE  log'[i] \in Acked
            <4>1. PICK k \in DOMAIN log : log'[j] = log[k]
                BY <3>3
            <4>2. j = k
                BY <3>1, <3>2, <4>1 DEF Outbox!IsInjective
            <4>3. i \in DOMAIN log
                BY <2>0, <3>1, <3>3, <4>2
            <4> QED BY <3>1, <3>3, <4>2, <4>3
        <3> QED BY <3>1, <3>2, <3>3
    <2>2. CASE Outbox!Deliver
        BY <2>2 DEF Outbox!Deliver, Outbox!IsInjective
    <2>3. CASE Outbox!Acknowledge
        BY <2>3 DEF Outbox!Acknowledge, Outbox!IsInjective
    <2>4. CASE UNCHANGED Outbox!vars
        BY <2>4 DEF Outbox!vars, Outbox!IsInjective
    <2> QED BY <2>1, <2>2, <2>3, <2>4 DEF Outbox!Next
<1> QED BY <1>1, <1>2, PTL DEF Outbox!Spec

\* Hence the outbox of a running mirror keeps it.
THEOREM MirrorKeepsThePromise == Spec => []Outbox!Promise
<1> QED BY MirrorImplementsDeliveryLog, LogKeepsItsPromise, PTL
        DEF ImplementsDeliveryLog

----------------------------------------------------------------------------
(* The source *)

LEMMA StepsOfTheSource ==
    ASSUME [Next]_vars
    PROVE  \/ UNCHANGED source
           \/ \E w \in Work : /\ ledger' = [ledger EXCEPT ![w] = ledger[w] + 1]
                              /\ owner' = owner
           \/ \E o \in Original, s \in Scope : Own(o, s)
<1>1. ASSUME NEW c \in Call, CallTool(c)
      PROVE  UNCHANGED source
    BY <1>1 DEF CallTool, Capture, CaptureFails, CallPlugin, Respond, RespondFails,
        ReadLedger, StoreView, LedgerCaptureFails, Answer, Cancel, AskArchive
<1>2. ASSUME NEW c \in Call, Writes(c)
      PROVE  \E w \in Work : /\ ledger' = [ledger EXCEPT ![w] = ledger[w] + 1]
                            /\ owner' = owner
    BY <1>2, Zenon DEF Writes, PluginWrites
<1>3. ASSUME NEW w \in Work, DirectWrite(w)
      PROVE  ledger' = [ledger EXCEPT ![w] = ledger[w] + 1] /\ owner' = owner
    BY <1>3 DEF DirectWrite
<1>4. ASSUME Stop \/ Start \/ UNCHANGED vars PROVE UNCHANGED source
    BY <1>4 DEF Stop, Start, vars
<1> QED BY <1>1, <1>2, <1>3, <1>4, WorkerLeavesTheRest, Zenon DEF Next, Writes

\* Nothing is taken back: writes are not undone, what a Work with rows owns it
\* keeps, and an original that is left over was left over since it appeared.
LEMMA SourceGrows ==
    ASSUME Typed, [Next]_vars
    PROVE  /\ \A w \in Work : ledger[w] =< ledger'[w]
           /\ \A o \in Original :
                /\ owner[o] # None => owner'[o] # None
                /\ Holder(o) \in Work => Holder(o)' = Holder(o)
                /\ owner[o] # None /\ Holder(o)' = Unscoped => Holder(o) = Unscoped
<1>1. CASE UNCHANGED source
    BY <1>1 DEF source, Holder, Works, Typed, TypeOK
<1>2. ASSUME NEW w \in Work,
             ledger' = [ledger EXCEPT ![w] = ledger[w] + 1] /\ owner' = owner
      PROVE  /\ \A v \in Work : ledger[v] =< ledger'[v]
             /\ \A o \in Original :
                  /\ Holder(o) \in Work => Holder(o)' = Holder(o)
                  /\ Holder(o)' = Unscoped => Holder(o) = Unscoped
    <2>1. \A v \in Work : ledger[v] \in Nat /\ ledger'[v] \in Nat
                /\ ledger[v] =< ledger'[v]
        BY <1>2 DEF Typed, TypeOK
    <2>2. Works \subseteq Works' /\ Works' \subseteq Work
        BY <2>1 DEF Works
    <2>3. Unscoped \notin Work
        BY ConstantsAssumption
    <2> QED BY <1>2, <2>1, <2>2, <2>3, Zenon DEF Holder
<1>3. ASSUME NEW p \in Original, NEW s \in Scope, Own(p, s)
      PROVE  /\ ledger' = ledger
             /\ \A o \in Original :
                  /\ owner[o] # None => owner'[o] # None
                  /\ Holder(o) \in Work => Holder(o)' = Holder(o)
                  /\ owner[o] # None /\ Holder(o)' = Unscoped => Holder(o) = Unscoped
    <2>1. ledger' = ledger /\ Works' = Works
        BY <1>3 DEF Own, Works
    <2>2. /\ owner[p] = None \/ (owner[p] = Unscoped /\ s \in Work)
          /\ owner'[p] = s
          /\ \A o \in Original \ {p} : owner'[o] = owner[o]
        <3>1. owner \in [Original -> Scope \cup {None}]
            BY DEF Typed, TypeOK
        <3> QED BY <1>3, <3>1, Zenon DEF Own
    <2>3. Unscoped \notin Work /\ None \notin Work /\ None # Unscoped
        BY ConstantsAssumption
    <2>4. s # None
        BY <2>3 DEF Scope
    <2>5. ASSUME NEW o \in Original \ {p} PROVE Holder(o)' = Holder(o)
        BY <2>1, <2>2, <2>5 DEF Holder
    <2>6. Holder(p) \notin Work
        BY <2>2, <2>3 DEF Holder
    <2>7. owner[p] # None => Holder(p) = Unscoped
        BY <2>2, <2>3 DEF Holder
    <2> QED BY <2>1, <2>2, <2>4, <2>5, <2>6, <2>7
<1>4. \A w \in Work : ledger[w] \in Nat
    BY DEF Typed, TypeOK
<1> QED BY <1>1, <1>2, <1>3, <1>4, StepsOfTheSource

\* What is exported under a Work is what the Work, having rows, owns.
LEMMA HolderOwns ==
    ASSUME Typed, NEW o \in Original, NEW w \in Work, Holder(o) = w
    PROVE  owner[o] = w /\ w \in Works
    BY ConstantsAssumption DEF Holder, Typed, TypeOK, Works

----------------------------------------------------------------------------
(* The cycle *)

LEMMA InHandTyped ==
    ASSUME Typed
    PROVE  /\ Range(log) \in SUBSET Item
           /\ Range(export) \in SUBSET Item
           /\ InHand \in SUBSET Item
           /\ \A c \in Call : Range(view[c]) \in SUBSET Item
<1>1. ASSUME NEW s \in Seq(Item) PROVE Range(s) \in SUBSET Item
    BY <1>1, LenProperties, ElementOfSeq DEF Range
<1> QED BY <1>1 DEF Typed, TypeOK, InHand

\* Until the cycle ends, nothing gets out of its hands.
LEMMA InHandGrows ==
    ASSUME Typed, OutboxInv, [Next]_vars, spc' # "sleep"
    PROVE  InHand \subseteq InHand'
<1>1. Range(log) \subseteq Range(log')
    BY StepExtends
<1>2. CASE export' = export
    BY <1>1, <1>2 DEF InHand
<1>3. CASE export = <<>>
    <2>1. Range(export) = {}
        BY <1>3 DEF Range
    <2> QED BY <1>1, <2>1 DEF InHand
<1>4. CASE StoreExport
    <2>1. Range(log') = Range(log) \cup Range(export)
        BY <1>4, StoredAdds DEF StoreExport, Typed, TypeOK
    <2> QED BY <2>1 DEF InHand
<1>5. ASSUME Synchronize PROVE StoreExport \/ export = <<>> \/ export' = export
    BY <1>5 DEF Synchronize, StartCycle, Discover, DiscoverFails, ListWorks, Export,
        WalkOwned, GlobUnowned, DrainRead, Ingest, DrainAcknowledge,
        EndCycle, CycleFails, OutboxInv
<1>6. ~Stop
    BY DEF Stop
<1> QED BY <1>2, <1>3, <1>4, <1>5, <1>6, OthersLeaveTheWorker DEF worker

LEMMA ExportedStays ==
    ASSUME Typed, InHand \subseteq InHand', started' = started,
           NEW w \in Work, Exported(w)
    PROVE  Exported(w)'
<1>1. started.rows[w] \in Nat
    BY DEF Typed, TypeOK, Finding
<1>2. Mirrored(w, started.rows[w], InHand')
    BY <1>1, InHandTyped, MirroredGrows DEF Exported
<1> QED BY <1>2 DEF Exported

LEMMA InitCycleInv == Init => CycleInv
    BY DEF Init, CycleInv, Exporting, WorksDone, AllRead

\* While the cycle goes on and reads nothing, it is where it was.
LEMMA CycleGoesOn ==
    ASSUME Typed, OutboxInv, CycleInv, [Next]_vars,
           spc # "sleep", spc' # "sleep", UNCHANGED <<started, todo>>,
           spc' \in Exporting => spc \in Exporting
    PROVE  /\ StillThere(started)'
           /\ spc' \in Exporting => \A w \in Work \ todo' : Exported(w)'
           /\ spc \in AllRead =>
                \A o \in Original :
                    started'.holder[o] = Unscoped /\ Holder(o)' = Unscoped =>
                        Creative(Unscoped, o) \in InHand'
<1>1. InHand \subseteq InHand'
    BY InHandGrows
<1>2. StillThere(started)'
    <2>1. StillThere(started)
        BY DEF CycleInv
    <2>2. \A w \in Work : started.rows[w] \in Nat /\ ledger[w] \in Nat /\ ledger'[w] \in Nat
        BY StepTyped DEF Typed, TypeOK, Finding
    <2> QED BY <2>1, <2>2, SourceGrows DEF StillThere
<1>3. spc' \in Exporting => \A w \in Work \ todo' : Exported(w)'
    BY <1>1, ExportedStays DEF CycleInv
<1>4. ASSUME spc \in AllRead, NEW o \in Original,
             started'.holder[o] = Unscoped, Holder(o)' = Unscoped
      PROVE  Creative(Unscoped, o) \in InHand'
    <2>1. StillThere(started) /\ started.holder[o] = Unscoped
        BY <1>4 DEF CycleInv
    <2>2. owner[o] # None
        BY <2>1, ConstantsAssumption DEF StillThere
    <2>3. Holder(o) = Unscoped
        BY <1>4, <2>2, SourceGrows
    <2> QED BY <1>1, <1>4, <2>1, <2>3 DEF CycleInv
<1> QED BY <1>2, <1>3, <1>4

LEMMA WorkerCycleInv ==
    ASSUME Typed, OutboxInv, CycleInv, [Next]_vars, Synchronize
    PROVE  CycleInv'
<1> USE DEF Exporting, WorksDone, AllRead
<1>1. UNCHANGED <<ledger, owner>>
    BY WorkerLeavesTheRest DEF source
<1>2. \A o \in Original : Holder(o)' = Holder(o)
    BY <1>1 DEF Holder, Works
<1>3. CASE StartCycle
    <2>1. spc' \in {"discover", "list"} /\ started' = Found
        BY <1>3 DEF StartCycle
    <2>2. StillThere(Found)'
        <3>1. \A w \in Work : Found.rows[w] = ledger[w] /\ ledger[w] \in Nat
            BY DEF Found, Typed, TypeOK
        <3>2. \A o \in Original : Found.holder[o] = Holder(o)
            BY DEF Found
        <3>3. \A o \in Original : Holder(o) # None => owner[o] # None
            BY ConstantsAssumption DEF Holder
        <3> QED BY <1>1, <1>2, <3>1, <3>2, <3>3 DEF StillThere, Found
    <2>3. Found' = Found
        BY <1>1, <1>2 DEF Found
    <2> QED BY <2>1, <2>2, <2>3 DEF CycleInv, StillThere
<1>4. CASE Discover \/ DiscoverFails
    <2>1. /\ spc = "discover" /\ spc' = "list"
          /\ UNCHANGED <<started, todo>>
        BY <1>4 DEF Discover, DiscoverFails
    <2> QED BY <2>1, CycleGoesOn DEF CycleInv
<1>5. CASE ListWorks
    <2>1. /\ spc = "list" /\ spc' = "export" /\ todo' = Works
          /\ started' = started
        BY <1>5 DEF ListWorks
    <2>2. StillThere(started)
        BY <2>1 DEF CycleInv
    <2>3. StillThere(started)'
        BY <1>1, <1>2, <2>1, <2>2 DEF StillThere
    <2>4. ASSUME NEW w \in Work \ Works PROVE Exported(w)'
        <3>1. started.rows[w] \in Nat /\ ledger[w] \in Nat
            BY DEF Typed, TypeOK, Finding
        <3>2. started.rows[w] = 0
            BY <2>2, <2>4, <3>1 DEF StillThere, Works
        <3>3. Mirrored(w, started'.rows[w], InHand')
            BY <2>1, <3>2 DEF Mirrored
        <3>4. \A o \in Original : started.holder[o] # w
            BY <2>2, <2>4, HolderOwns DEF StillThere
        <3> QED BY <2>1, <3>3, <3>4 DEF Exported
    <2> QED BY <2>1, <2>3, <2>4 DEF CycleInv
<1>6. ASSUME NEW w \in Work, Export(w) PROVE CycleInv'
    <2>1. /\ spc = "export" /\ spc' = "store" /\ todo' = todo \ {w}
          /\ export' = Records(w) /\ started' = started
        BY <1>6 DEF Export
    <2>2. StillThere(started)
        BY <2>1 DEF CycleInv
    <2>3. StillThere(started)'
        BY <1>1, <1>2, <2>1, <2>2 DEF StillThere
    <2>4. Exported(w)'
        <3> DEFINE S == {o \in Original : owner[o] = w}
        <3>1. ledger[w] \in Nat /\ S \in SUBSET Original
            BY DEF Typed, TypeOK
        <3>2. started.rows[w] \in Nat /\ started.rows[w] =< ledger[w]
            BY <2>2 DEF StillThere, Typed, TypeOK, Finding
        <3>3. export' = RecordsAt(w, ledger[w], S)
            BY <2>1 DEF Records
        <3> HIDE DEF S
        <3>4. Range(export') \in SUBSET Item
            BY StepTyped, InHandTyped, LenProperties, ElementOfSeq
               DEF Typed, TypeOK, Range
        <3>5. Mirrored(w, started.rows[w], InHand')
            BY <3>1, <3>2, <3>3, <3>4, ReadingMirrors, MirroredGrows DEF InHand
        <3>6. ASSUME NEW o \in Original, started.holder[o] = w
              PROVE  Creative(w, o) \in InHand'
            <4>1. Holder(o) = w
                BY <2>2, <3>6 DEF StillThere
            <4>2. o \in S
                BY <4>1, HolderOwns DEF S
            <4> QED BY <3>1, <3>3, <4>2, RecordsListed DEF InHand
        <3> QED BY <2>1, <3>5, <3>6 DEF Exported
    <2>5. InHand \subseteq InHand'
        BY <2>1, InHandGrows
    <2>6. \A v \in Work \ todo : Exported(v)'
        BY <2>1, <2>5, ExportedStays DEF CycleInv
    <2> QED BY <2>1, <2>3, <2>4, <2>6 DEF CycleInv
<1>7. CASE WalkOwned
    <2>1. /\ spc = "export" /\ spc' = "glob" /\ todo = {}
          /\ walked' = {o \in Original : owner[o] \in Works}
          /\ UNCHANGED <<started, todo>>
        BY <1>7 DEF WalkOwned
    <2>2. \A o \in walked' : Holder(o) \in Work
        BY <2>1 DEF Holder, Works
    <2> QED BY <1>2, <2>1, <2>2, CycleGoesOn DEF CycleInv, WalkOwned
<1>8. CASE GlobUnowned
    <2>1. /\ spc = "glob" /\ spc' = "storeLast" /\ todo = {}
          /\ UNCHANGED <<started, todo>>
        BY <1>8 DEF GlobUnowned, CycleInv
    <2>2. ASSUME NEW o \in Original, started.holder[o] = Unscoped, Holder(o) = Unscoped
          PROVE  Creative(Unscoped, o) \in InHand'
        <3> DEFINE S == {p \in Original : owner[p] # None} \ walked
        <3>1. StillThere(started) /\ \A p \in walked : Holder(p) \in Work
            BY <2>1 DEF CycleInv
        <3>2. o \in S
            BY <2>2, <3>1, ConstantsAssumption DEF StillThere
        <3>3. S \in SUBSET Original /\ Unscoped \in Scope
            BY DEF Scope
        <3>4. export' = SetToSeq({Creative(Unscoped, p) : p \in S})
            BY <1>8, Zenon DEF GlobUnowned
        <3> HIDE DEF S
        <3>5. Range(export') = {Creative(Unscoped, p) : p \in S}
            BY <3>3, <3>4, CreativesListed
        <3> QED BY <3>2, <3>5 DEF InHand
    <2> QED BY <1>2, <2>1, <2>2, CycleGoesOn DEF CycleInv
<1>9. CASE StoreExport \/ DrainRead \/ Ingest \/ DrainAcknowledge
    <2>1. /\ UNCHANGED <<started, todo>>
          /\ \/ spc = "store" /\ spc' = "export"
             \/ spc \in AllRead /\ spc' \in {"drain", "sending", "sent"}
        BY <1>9 DEF StoreExport, DrainRead, Ingest, DrainAcknowledge
    <2> QED BY <2>1, CycleGoesOn DEF CycleInv
<1>10. CASE EndCycle \/ CycleFails
    BY <1>10 DEF EndCycle, CycleFails, CycleInv
<1> QED BY <1>3, <1>4, <1>5, <1>6, <1>7, <1>8, <1>9, <1>10 DEF Synchronize

LEMMA StepCycleInv ==
    Typed /\ OutboxInv /\ CycleInv /\ [Next]_vars => CycleInv'
<1> SUFFICES ASSUME Typed, OutboxInv, CycleInv, [Next]_vars PROVE CycleInv'
    OBVIOUS
<1> USE DEF Exporting, WorksDone, AllRead
<1>1. CASE Stop
    BY <1>1 DEF Stop, CycleInv
<1>2. CASE UNCHANGED worker /\ spc = "sleep"
    BY <1>2 DEF worker, CycleInv
<1>3. CASE UNCHANGED worker /\ spc # "sleep"
    <2>1. UNCHANGED <<spc, started, todo, walked>>
        BY <1>3 DEF worker
    <2>2. spc = "glob" => \A o \in walked : Holder(o)' \in Work
        BY SourceGrows DEF CycleInv, Typed, TypeOK
    <2> QED BY <1>3, <2>1, <2>2, CycleGoesOn DEF CycleInv
<1> QED BY <1>1, <1>2, <1>3, WorkerCycleInv, OthersLeaveTheWorker

\* What was acknowledged before is, and when a cycle ends cleanly everything in
\* its hands is in the outbox, and everything in the outbox is acknowledged.
LEMMA StepCovers ==
    Typed /\ OutboxInv /\ CycleInv /\ CleanCycleCovers /\ [Next]_vars
        => CleanCycleCovers'
<1> SUFFICES ASSUME Typed, OutboxInv, CycleInv, CleanCycleCovers, [Next]_vars
             PROVE  CleanCycleCovers'
    OBVIOUS
<1>1. Acked \subseteq Acked' /\ Acked \in SUBSET Item
    <2>1. log \in Seq(Item) /\ cursor \in 0..Len(log) /\ Len(log) \in Nat
        BY LenProperties DEF Typed, TypeOK
    <2>2. \A i \in 1..cursor : log[i] \in Item
        BY <2>1, ElementOfSeq
    <2> QED BY <2>2, AckedGrows DEF Acked
<1>2. CASE covered' = covered
    <2>1. \A w \in Work : covered.rows[w] \in Nat
        BY DEF Typed, TypeOK, Finding
    <2>2. \A w \in Work : Mirrored(w, covered.rows[w], Acked')
        BY <1>1, <2>1, MirroredGrows DEF CleanCycleCovers
    <2> QED BY <1>1, <1>2, <2>2 DEF CleanCycleCovers
<1>3. CASE EndCycle
    <2>1. /\ spc = "drain" /\ cursor = Len(log)
          /\ UNCHANGED <<log, cursor>>
          /\ covered' = [started EXCEPT !.holder =
                [o \in Original |-> IF Holder(o) = started.holder[o]
                                   THEN started.holder[o] ELSE None]]
        BY <1>3 DEF EndCycle, outbox, drained
    <2>2. Acked' = InHand
        <3>1. Range(export) = {}
            BY <2>1 DEF OutboxInv, Range
        <3>2. DOMAIN log = 1..Len(log)
            BY LenProperties DEF Typed, TypeOK
        <3> QED BY <2>1, <3>1, <3>2 DEF Acked, InHand, Range
    <2>3. /\ todo = {}
          /\ \A w \in Work \ todo : Exported(w)
          /\ \A o \in Original :
                started.holder[o] = Unscoped /\ Holder(o) = Unscoped =>
                    Creative(Unscoped, o) \in InHand
        BY <2>1 DEF CycleInv, Exporting, WorksDone, AllRead
    <2>4. /\ covered'.rows = started.rows
          /\ \A o \in Original :
                covered'.holder[o] # None => /\ covered'.holder[o] = started.holder[o]
                                             /\ Holder(o) = started.holder[o]
        BY <2>1 DEF Typed, TypeOK, Finding
    <2>5. \A o \in Original : started.holder[o] \in Work \cup {Unscoped, None}
        BY DEF Typed, TypeOK, Finding, Scope
    <2>6. ASSUME NEW o \in Original, covered'.holder[o] # None
          PROVE  Creative(covered'.holder[o], o) \in Acked'
        BY <2>2, <2>3, <2>4, <2>5, <2>6 DEF Exported
    <2> QED BY <2>2, <2>3, <2>4, <2>6 DEF CleanCycleCovers, Exported
<1>4. ASSUME Synchronize PROVE EndCycle \/ covered' = covered
    BY <1>4 DEF Synchronize, StartCycle, Discover, DiscoverFails, ListWorks, Export,
        WalkOwned, GlobUnowned, StoreExport, DrainRead, Ingest, DrainAcknowledge,
        CycleFails
<1>5. ASSUME Stop PROVE covered' = covered
    BY <1>5 DEF Stop
<1> QED BY <1>2, <1>3, <1>4, <1>5, OthersLeaveTheWorker DEF worker

LEMMA InitCovers == Init => CleanCycleCovers
<1> SUFFICES ASSUME Init PROVE CleanCycleCovers
    OBVIOUS
<1>1. /\ \A w \in Work : covered.rows[w] = 0
      /\ \A o \in Original : covered.holder[o] = None
    BY ConstantsAssumption DEF Init, Found, Holder
<1> QED BY <1>1 DEF CleanCycleCovers, Mirrored

\* A cycle that ends without an error has brought to the archive service all
\* there was when it began, however often the Ledger was written and originals
\* found an owner meanwhile (archive_adapter.py:90-96, archive_sync.py:114-121).
THEOREM CleanCyclesCover == Spec => []CleanCycleCovers
<1>1. Spec => [](Typed /\ OutboxInv /\ CycleInv /\ CleanCycleCovers)
    BY InitTyped, StepTyped, InitOutboxInv, StepOutboxInv, InitCycleInv,
       StepCycleInv, InitCovers, StepCovers, PTL DEF Spec
<1> QED BY <1>1, PTL

----------------------------------------------------------------------------
(* The captures *)

CapturesInv == \A c \in Call : CaptureInv(c)

LEMMA InitCapturesInv == Init => CapturesInv
    BY DEF Init, CapturesInv, CaptureInv

\* What a step has not touched is captured as it was: the outbox and the Ledger
\* only grow.
LEMMA CaptureKept ==
    ASSUME Typed, [Next]_vars, NEW c \in Call, CaptureInv(c),
           scope'[c] = scope[c], wrote'[c] = wrote[c], answer'[c] = answer[c],
           c \in missed => c \in missed',
           c \notin missed' =>
                /\ cpc'[c] = cpc[c]
                /\ cpc[c] = "store" => view'[c] = view[c]
    PROVE  CaptureInv(c)'
<1>1. Range(log) \subseteq Range(log') /\ Range(log) \in SUBSET Item
    BY StepExtends, InHandTyped
<1>2. \A w \in Work : wrote[c][w] \in Nat
    BY DEF Typed, TypeOK
<1>3. ASSUME NEW w \in Work PROVE wrote[c][w] =< ledger'[w]
    <2>1. ledger[w] \in Nat /\ ledger'[w] \in Nat
        BY StepTyped DEF Typed, TypeOK
    <2>2. wrote[c][w] =< ledger[w] /\ ledger[w] =< ledger'[w]
        BY SourceGrows DEF CaptureInv
    <2> QED BY <1>2, <2>1, <2>2
<1>4. scope[c] \in Work /\ Mirrored(scope[c], wrote[c][scope[c]], Range(log))
            => Mirrored(scope[c], wrote[c][scope[c]], Range(log'))
    BY <1>1, <1>2, MirroredGrows
<1>5. ASSUME c \notin missed'
      PROVE  /\ c \notin missed /\ cpc'[c] = cpc[c]
             /\ cpc[c] = "store" => Range(view'[c]) = Range(view[c])
    BY <1>5
<1> QED BY <1>1, <1>3, <1>4, <1>5 DEF CaptureInv

\* A step of one call leaves the others where they are.
LEMMA CallsApart ==
    ASSUME Typed, NEW d \in Call, CallTool(d) \/ Writes(d),
           NEW c \in Call, c # d
    PROVE  /\ cpc'[c] = cpc[c] /\ answer'[c] = answer[c]
           /\ wrote'[c] = wrote[c] /\ view'[c] = view[c] /\ scope'[c] = scope[c]
           /\ c \in missed <=> c \in missed'
<1>1. /\ cpc \in [Call -> {"new", "call", "running", "read", "store", "answer",
                           "done"}]
      /\ answer \in [Call -> Result \cup {None}]
      /\ wrote \in [Call -> [Work -> Nat]] /\ view \in [Call -> Seq(Item)]
      /\ scope \in [Call -> Scope]
    BY DEF Typed, TypeOK
<1> QED BY <1>1 DEF CallTool, Capture, CaptureFails, CallPlugin, Respond,
        RespondFails, ReadLedger, StoreView, LedgerCaptureFails, Answer, Cancel,
        AskArchive, Writes, PluginWrites

\* A call comes to its scope when it has a result, if its arguments name no Work.
LEMMA CallKeepsScope ==
    ASSUME NEW d \in Call, CallTool(d) \/ Writes(d)
    PROVE  Respond(d) \/ scope' = scope
    BY DEF CallTool, Capture, CaptureFails, CallPlugin, RespondFails,
        ReadLedger, StoreView, LedgerCaptureFails, Answer, Cancel, AskArchive,
        Writes, PluginWrites

\* What a call's own step captures.
LEMMA CallCaptures ==
    ASSUME Typed, CallsInv, [Next]_vars, NEW c \in Call, CaptureInv(c),
           CallTool(c) \/ Writes(c)
    PROVE  CaptureInv(c)'
<1>1. /\ Range(log) \subseteq Range(log') /\ Range(log) \in SUBSET Item
      /\ Range(view[c]) \in SUBSET Item
    BY StepExtends, InHandTyped
<1>2. /\ cpc \in [Call -> {"new", "call", "running", "read", "store", "answer",
                           "done"}]
      /\ answer \in [Call -> Result \cup {None}] /\ view \in [Call -> Seq(Item)]
      /\ wrote \in [Call -> [Work -> Nat]] /\ ledger \in [Work -> Nat]
      /\ log \in Seq(Item) /\ missed \in SUBSET Call /\ scope \in [Call -> Scope]
      /\ ledger' \in [Work -> Nat] /\ wrote' \in [Call -> [Work -> Nat]]
    BY StepTyped DEF Typed, TypeOK
<1>3. cpc[c] # "done" => answer[c] = None
    BY <1>2 DEF CallsInv, CallInv
<1>4. Respond(c) \/ scope' = scope
    BY CallKeepsScope
<1>5. \A w \in Work : ledger[w] =< ledger'[w]
    BY SourceGrows
<1>6. ASSUME wrote' = wrote
      PROVE  \A w \in Work : wrote'[c][w] =< ledger'[w]
    <2>1. \A w \in Work : wrote[c][w] =< ledger[w]
        BY DEF CaptureInv
    <2> QED BY <1>2, <1>5, <1>6, <2>1
<1>7. ASSUME NEW r \in Item, log' = Stored(<<r>>) PROVE r \in Range(log')
    <2>1. <<r>> \in Seq(Item) /\ Range(<<r>>) = {r}
        BY DEF Range
    <2> QED BY <1>2, <1>7, <2>1, StoredAdds
<1>8. Request(c) \in Item /\ Response(c) \in Item
    BY DEF Request, Response, Item
<1>9. CASE Capture(c)
    <2>a. scope' = scope
        BY <1>9, <1>4 DEF Capture, Respond
    <2>1. /\ cpc'[c] = "call" /\ answer'[c] = None /\ wrote' = wrote
          /\ log' = Stored(<<Request(c)>>)
        BY <1>2, <1>3, <1>9 DEF Capture
    <2> QED BY <2>a, <1>4, <1>6, <1>7, <1>8, <2>1 DEF CaptureInv
<1>10. CASE CallPlugin(c)
    <2>a. scope' = scope
        BY <1>10, <1>4 DEF CallPlugin, Respond
    <2>1. /\ cpc[c] = "call" /\ cpc'[c] = "running" /\ answer'[c] = None
          /\ wrote' = wrote /\ missed' = missed
        BY <1>2, <1>3, <1>10 DEF CallPlugin
    <2> QED BY <2>a, <1>1, <1>4, <1>6, <2>1 DEF CaptureInv
<1>11. CASE Writes(c)
    <2>0. PICK v \in Work : PluginWrites(c, v)
        BY <1>11 DEF Writes
    <2>1. /\ cpc[c] = "running" /\ cpc'[c] = "running" /\ answer'[c] = None
          /\ missed' = missed /\ scope' = scope
          /\ wrote' = [wrote EXCEPT ![c][v] = ledger'[v]]
        BY <1>2, <1>3, <2>0 DEF PluginWrites
    <2>2. ASSUME NEW w \in Work PROVE wrote'[c][w] =< ledger'[w]
        <3>1. wrote'[c][w] = IF w = v THEN ledger'[v] ELSE wrote[c][w]
            BY <1>2, <2>1
        <3>2. wrote[c][w] =< ledger[w]
            BY DEF CaptureInv
        <3> QED BY <1>2, <1>5, <3>1, <3>2
    <2> QED BY <1>1, <2>1, <2>2 DEF CaptureInv
<1>12. CASE Respond(c)
    <2>0. PICK s \in Scope :
            /\ scope' = [scope EXCEPT ![c] = s]
            /\ cpc' = [cpc EXCEPT ![c] = IF s \in Work THEN "read" ELSE "answer"]
        BY <1>12 DEF Respond
    <2>1. /\ cpc[c] = "running" /\ answer'[c] = None
          /\ wrote' = wrote /\ missed' = missed
          /\ log' = Stored(<<Response(c)>>)
        BY <1>2, <1>3, <1>12 DEF Respond
    <2>2. cpc'[c] = (IF scope'[c] \in Work THEN "read" ELSE "answer")
        BY <1>2, <2>0
    <2> QED BY <1>1, <1>6, <1>7, <1>8, <2>1, <2>2 DEF CaptureInv
<1>13. CASE ReadLedger(c)
    <2> DEFINE S == {o \in Original : owner[o] = scope[c]}
    <2>a. scope' = scope
        BY <1>13, <1>4 DEF ReadLedger, Respond
    <2>1. /\ cpc[c] = "read" /\ cpc'[c] = "store" /\ answer'[c] = None
          /\ wrote' = wrote /\ missed' = missed
          /\ view'[c] = RecordsAt(scope[c], ledger[scope[c]], S)
        BY <1>2, <1>3, <1>13 DEF ReadLedger, Records
    <2>2. scope[c] \in Work
        BY <2>1 DEF Typed, ReadersHaveWorks
    <2>3. /\ wrote[c][scope[c]] =< ledger[scope[c]] /\ wrote[c][scope[c]] \in Nat
          /\ ledger[scope[c]] \in Nat /\ S \in SUBSET Original
        BY <1>2, <2>2 DEF CaptureInv
    <2> HIDE DEF S
    <2>4. Range(view'[c]) \in SUBSET Item
        BY StepTyped, InHandTyped, LenProperties, ElementOfSeq
           DEF Typed, TypeOK, Range
    <2>5. Mirrored(scope[c], wrote[c][scope[c]], Range(view'[c]))
        BY <2>1, <2>2, <2>3, <2>4, ReadingMirrors, MirroredGrows
    <2> QED BY <2>a, <1>1, <1>4, <1>6, <2>1, <2>2, <2>5 DEF CaptureInv
<1>14. CASE StoreView(c)
    <2>a. scope' = scope
        BY <1>14, <1>4 DEF StoreView, Respond
    <2>1. /\ cpc[c] = "store" /\ cpc'[c] = "answer" /\ answer'[c] = None
          /\ wrote' = wrote /\ missed' = missed
          /\ log' = Stored(view[c])
        BY <1>2, <1>3, <1>14 DEF StoreView
    <2>2. Range(view[c]) \subseteq Range(log')
        BY <1>2, <2>1, StoredAdds
    <2>3. c \notin missed => Mirrored(scope[c], wrote[c][scope[c]], Range(log'))
        <3>0. scope[c] \in Work
            BY <2>1 DEF Typed, ReadersHaveWorks
        <3>1. /\ wrote[c][scope[c]] \in Nat
              /\ wrote[c][scope[c]] =< wrote[c][scope[c]]
            BY <1>2, <3>0
        <3>2. c \notin missed => Mirrored(scope[c], wrote[c][scope[c]], Range(view[c]))
            BY <2>1 DEF CaptureInv
        <3> QED BY <1>1, <2>2, <3>1, <3>2, MirroredGrows
    <2> QED BY <2>a, <1>1, <1>4, <1>6, <2>1, <2>3 DEF CaptureInv
<1>15. CASE Answer(c)
    <2>a. scope' = scope
        BY <1>15, <1>4 DEF Answer, Respond
    <2>1. cpc[c] = "answer" /\ cpc'[c] = "done"
          /\ wrote' = wrote /\ missed' = missed /\ log' = log
        BY <1>2, <1>15 DEF Answer, outbox
    <2> QED BY <2>a, <1>4, <1>6, <2>1 DEF CaptureInv
<1>16. CASE AskArchive(c)
    <2>a. scope' = scope
        BY <1>16, <1>4 DEF AskArchive, Respond
    <2>1. cpc'[c] = "done" /\ answer'[c] = None /\ wrote' = wrote
        BY <1>2, <1>3, <1>16 DEF AskArchive
    <2> QED BY <2>a, <1>4, <1>6, <2>1 DEF CaptureInv
<1>17. CASE CaptureFails(c) \/ RespondFails(c) \/ LedgerCaptureFails(c) \/ Cancel(c)
    <2>1. c \in missed' /\ wrote' = wrote
        BY <1>17 DEF CaptureFails, RespondFails, LedgerCaptureFails, Cancel
    <2> QED BY <1>6, <2>1 DEF CaptureInv
<1> QED BY <1>9, <1>10, <1>11, <1>12, <1>13, <1>14, <1>15, <1>16, <1>17 DEF CallTool

LEMMA StepCapturesInv ==
    Typed /\ CallsInv /\ CapturesInv /\ [Next]_vars => CapturesInv'
<1> SUFFICES ASSUME Typed, CallsInv, CapturesInv, [Next]_vars, NEW c \in Call
             PROVE  CaptureInv(c)'
    BY DEF CapturesInv
<1> USE DEF CapturesInv
<1>1. ASSUME NEW d \in Call, CallTool(d) \/ Writes(d)
      PROVE  CaptureInv(c)'
    <2>1. CASE c = d
        BY <1>1, <2>1, CallCaptures
    <2>2. CASE c # d
        BY <1>1, <2>2, CallsApart, CaptureKept
    <2> QED BY <2>1, <2>2
<1>2. CASE UNCHANGED calls
    BY <1>2, CaptureKept DEF calls
<1>3. CASE Stop
    <2>1. /\ scope' = scope /\ wrote' = wrote /\ answer' = answer
          /\ missed' = missed \cup {d \in Call : cpc[d] \notin {"new", "done"}}
          /\ cpc'[c] = IF cpc[c] = "new" THEN "new" ELSE "done"
        BY <1>3 DEF Stop
    <2>2. c \notin missed' => cpc'[c] = cpc[c] /\ cpc[c] # "store"
        BY <2>1
    <2> QED BY <2>1, <2>2, CaptureKept
<1>4. ASSUME \/ \E w \in Work : DirectWrite(w)
             \/ \E o \in Original, s \in Scope : Own(o, s)
             \/ Start
             \/ UNCHANGED vars
      PROVE  UNCHANGED calls
    BY <1>4 DEF DirectWrite, Own, Start, vars
<1> QED BY <1>1, <1>2, <1>3, <1>4, WorkerLeavesTheRest, Zenon DEF Next, Writes

\* Whatever goes on beside it, a call that was answered and of which nothing was
\* missed is in the outbox with its request, its response and all it wrote
\* (archive_adapter.py:65-79).
THEOREM CallsAreMirrored == Spec => []EffectsAreMirrored
<1>1. Spec => [](Typed /\ CallsInv /\ CapturesInv)
    BY InitTyped, StepTyped, InitCallsInv, StepCallsInv, InitCapturesInv,
       StepCapturesInv, PTL DEF Spec
<1>2. CapturesInv => EffectsAreMirrored
    BY DEF CapturesInv, CaptureInv, EffectsAreMirrored
<1> QED BY <1>1, <1>2, PTL

----------------------------------------------------------------------------
(* The order of a conversation *)

\* What was read and not stored yet was read of the Ledger.
ReadsInv ==
    /\ export \in Seq(LedgerItem)
    /\ view \in [Call -> Seq(LedgerItem)]

\* A REQUEST is stored before the Plugin is asked and a RESPONSE after it
\* answered, so that none of them comes too early.
OrderInv(c) ==
    /\ cpc[c] = "new" => Request(c) \notin Range(log)
    /\ cpc[c] \in {"new", "call", "running"} => Response(c) \notin Range(log)
    /\ Request(c) \in Range(log) =>
            \A j \in 1..Len(log) :
                log[j] = Response(c) => \E i \in 1..(j - 1) : log[i] = Request(c)

ConversationInv == ReadsInv /\ \A c \in Call : OrderInv(c)

LEMMA InitConversationInv == Init => ConversationInv
    BY EmptySeq DEF Init, ConversationInv, ReadsInv, OrderInv, Range

LEMMA StepReadsInv ==
    ASSUME Typed, ReadsInv, [Next]_vars
    PROVE  ReadsInv'
<1> USE DEF ReadsInv
<1>1. ASSUME NEW w \in Work PROVE Records(w) \in Seq(LedgerItem)
    <2>1. {o \in Original : owner[o] = w} \in SUBSET Original
        OBVIOUS
    <2>2. ledger[w] \in Nat
        BY DEF Typed, TypeOK
    <2> QED BY <2>1, <2>2, RecordsListed DEF Records
<1>2. ASSUME NEW c \in Call, CallTool(c) \/ Writes(c)
      PROVE  ReadsInv'
    <2>1. CASE ReadLedger(c)
        <3>1. Records(scope[c]) \in Seq(LedgerItem)
            BY <1>1, <2>1 DEF ReadLedger, Typed, ReadersHaveWorks
        <3> QED BY <2>1, <3>1 DEF ReadLedger, worker
    <2>2. CASE StoreView(c) \/ LedgerCaptureFails(c)
        BY <2>2, EmptySeq DEF StoreView, LedgerCaptureFails, worker
    <2>3. CASE \/ Capture(c) \/ CaptureFails(c) \/ CallPlugin(c) \/ Respond(c)
               \/ RespondFails(c) \/ Answer(c) \/ Cancel(c) \/ AskArchive(c)
               \/ Writes(c)
        BY <2>3 DEF Capture, CaptureFails, CallPlugin, Respond, RespondFails,
            Answer, Cancel, AskArchive, Writes, PluginWrites, worker
    <2> QED BY <1>2, <2>1, <2>2, <2>3 DEF CallTool
<1>3. ASSUME Synchronize PROVE ReadsInv'
    <2>1. view' = view
        BY <1>3, WorkerLeavesTheRest DEF calls
    <2>2. ASSUME NEW w \in Work, Export(w) PROVE ReadsInv'
        BY <1>1, <2>1, <2>2 DEF Export
    <2>3. CASE GlobUnowned
        <3> DEFINE S == {p \in Original : owner[p] # None} \ walked
        <3>1. S \in SUBSET Original /\ Unscoped \in Scope
            BY DEF Scope
        <3>2. export' = SetToSeq({Creative(Unscoped, o) : o \in S})
            BY <2>3, Zenon DEF GlobUnowned
        <3> HIDE DEF S
        <3> QED BY <2>1, <3>1, <3>2, CreativesListed
    <2>4. CASE StoreExport \/ CycleFails
        BY <2>1, <2>4, EmptySeq DEF StoreExport, CycleFails
    <2>5. CASE \/ StartCycle \/ Discover \/ DiscoverFails \/ ListWorks
               \/ WalkOwned \/ DrainRead \/ Ingest \/ DrainAcknowledge \/ EndCycle
        BY <2>1, <2>5 DEF StartCycle, Discover, DiscoverFails, ListWorks, WalkOwned,
            DrainRead, Ingest, DrainAcknowledge, EndCycle
    <2> QED BY <1>3, <2>2, <2>3, <2>4, <2>5 DEF Synchronize
<1>4. CASE Stop
    BY <1>4, EmptySeq DEF Stop
<1>5. ASSUME \/ \E w \in Work : DirectWrite(w)
             \/ \E o \in Original, s \in Scope : Own(o, s)
             \/ Start
             \/ UNCHANGED vars
      PROVE  UNCHANGED <<view, export>>
    BY <1>5 DEF DirectWrite, Own, Start, vars, calls, worker
<1> QED BY <1>2, <1>3, <1>4, <1>5, Zenon DEF Next, Writes

\* Nothing but a call's own captures stores its REQUEST or its RESPONSE.
LEMMA WhoStoresWhat ==
    ASSUME Typed, ReadsInv, [Next]_vars
    PROVE  \A c \in Call :
            /\ Request(c) \in Range(log') => Request(c) \in Range(log) \/ Capture(c)
            /\ Response(c) \in Range(log') => Response(c) \in Range(log) \/ Respond(c)
<1> USE DEF Typed, TypeOK
<1>1. ASSUME NEW rs \in Seq(Item), log' = Stored(rs)
      PROVE  Range(log') = Range(log) \cup Range(rs)
    BY <1>1, StoredAdds
<1>2. ASSUME NEW rs \in Seq(LedgerItem), log' = Stored(rs), NEW c \in Call
      PROVE  /\ Request(c) \in Range(log') => Request(c) \in Range(log)
             /\ Response(c) \in Range(log') => Response(c) \in Range(log)
    <2>1. rs \in Seq(Item) /\ Range(rs) \subseteq LedgerItem
        BY LedgerItems
    <2>2. Request(c) \notin LedgerItem /\ Response(c) \notin LedgerItem
        BY DEF LedgerItem, Request, Response
    <2> QED BY <1>1, <1>2, <2>1, <2>2
<1>3. ASSUME NEW d \in Call, CallTool(d) \/ Writes(d)
      PROVE  \/ log' = log
             \/ log' = Stored(<<Request(d)>>) /\ Capture(d)
             \/ log' = Stored(<<Response(d)>>) /\ Respond(d)
             \/ log' = Stored(view[d])
    BY <1>3, Zenon DEF CallTool, Capture, CaptureFails, CallPlugin, Respond,
        RespondFails, ReadLedger, StoreView, LedgerCaptureFails, Answer, Cancel,
        AskArchive, Writes, PluginWrites, outbox
<1>4. ASSUME Synchronize PROVE log' = log \/ log' = Stored(export)
    BY <1>4, Zenon DEF Synchronize, StartCycle, Discover, DiscoverFails, ListWorks,
        Export, WalkOwned, GlobUnowned, StoreExport, DrainRead, Ingest,
        DrainAcknowledge, EndCycle, CycleFails, outbox
<1>5. ASSUME Stop PROVE log' = log \/ log' = Stored(export)
    BY <1>5 DEF Stop
<1>6. ASSUME \/ \E w \in Work : DirectWrite(w)
             \/ \E o \in Original, s \in Scope : Own(o, s)
             \/ Start
             \/ UNCHANGED vars
      PROVE  log' = log
    BY <1>6 DEF DirectWrite, Own, Start, vars, outbox
<1>7. ASSUME NEW d \in Call, log' = Stored(<<Request(d)>>), Capture(d), NEW c \in Call
      PROVE  /\ Request(c) \in Range(log') => Request(c) \in Range(log) \/ Capture(c)
             /\ Response(c) \in Range(log') => Response(c) \in Range(log)
    <2>1. <<Request(d)>> \in Seq(Item) /\ Range(<<Request(d)>>) = {Request(d)}
        BY DEF Request, Item, Range
    <2>2. /\ Request(c) = Request(d) => c = d
          /\ Response(c) # Request(d)
        BY DEF Request, Response
    <2>3. Range(log') = Range(log) \cup {Request(d)}
        BY <1>1, <1>7, <2>1
    <2> QED BY <1>7, <2>2, <2>3, Zenon
<1>8. ASSUME NEW d \in Call, log' = Stored(<<Response(d)>>), Respond(d), NEW c \in Call
      PROVE  /\ Request(c) \in Range(log') => Request(c) \in Range(log)
             /\ Response(c) \in Range(log') => Response(c) \in Range(log) \/ Respond(c)
    <2>1. <<Response(d)>> \in Seq(Item) /\ Range(<<Response(d)>>) = {Response(d)}
        BY DEF Response, Item, Range
    <2>2. /\ Response(c) = Response(d) => c = d
          /\ Request(c) # Response(d)
        BY DEF Request, Response
    <2>3. Range(log') = Range(log) \cup {Response(d)}
        BY <1>1, <1>8, <2>1
    <2> QED BY <1>8, <2>2, <2>3, Zenon
<1>9. export \in Seq(LedgerItem) /\ \A d \in Call : view[d] \in Seq(LedgerItem)
    BY DEF ReadsInv
<1>10. CASE log' = log
    BY <1>10
<1>11. ASSUME NEW d \in Call, CallTool(d) \/ Writes(d), NEW c \in Call
       PROVE  /\ Request(c) \in Range(log') => Request(c) \in Range(log) \/ Capture(c)
              /\ Response(c) \in Range(log') => Response(c) \in Range(log) \/ Respond(c)
    BY <1>2, <1>3, <1>7, <1>8, <1>9, <1>10, <1>11, Zenon
<1>12. ASSUME Synchronize \/ Stop
       PROVE  \A c \in Call :
                /\ Request(c) \in Range(log') => Request(c) \in Range(log)
                /\ Response(c) \in Range(log') => Response(c) \in Range(log)
    BY <1>2, <1>4, <1>5, <1>9, <1>10, <1>12, Zenon
<1> QED BY <1>6, <1>10, <1>11, <1>12, Zenon DEF Next, Writes

\* A call comes past its captures with them alone.
LEMMA WhereCallsWere ==
    ASSUME Typed, [Next]_vars, NEW c \in Call
    PROVE  /\ cpc'[c] = "new" => cpc[c] = "new" /\ ~Capture(c)
           /\ cpc'[c] \in {"new", "call", "running"} =>
                cpc[c] \in {"new", "call", "running"} /\ ~Respond(c)
<1>1. cpc \in [Call -> {"new", "call", "running", "read", "store", "answer",
                       "done"}]
    BY DEF Typed, TypeOK
<1>2. ASSUME NEW d \in Call, CallTool(d) \/ Writes(d)
      PROVE  \/ cpc'[c] = cpc[c]
             \/ cpc[c] = "new" /\ cpc'[c] = "call"
             \/ cpc[c] = "call" /\ cpc'[c] = "running"
             \/ cpc'[c] \in {"read", "store", "answer", "done"}
    BY <1>1, <1>2 DEF CallTool, Capture, CaptureFails, CallPlugin, Respond,
        RespondFails, ReadLedger, StoreView, LedgerCaptureFails, Answer, Cancel,
        AskArchive, Writes, PluginWrites
<1>3. ASSUME Synchronize PROVE cpc' = cpc
    BY <1>3, WorkerLeavesTheRest DEF calls
<1>4. ASSUME Stop PROVE cpc'[c] = cpc[c] \/ cpc'[c] = "done"
    BY <1>4 DEF Stop
<1>5. ASSUME \/ \E w \in Work : DirectWrite(w)
             \/ \E o \in Original, s \in Scope : Own(o, s)
             \/ Start
             \/ UNCHANGED vars
      PROVE  cpc' = cpc
    BY <1>5 DEF DirectWrite, Own, Start, vars, calls
<1>6. /\ Capture(c) => cpc'[c] = "call"
      /\ Respond(c) => cpc'[c] \in {"read", "answer"}
    BY <1>1 DEF Capture, Respond
<1>7. \/ cpc'[c] = cpc[c]
      \/ cpc[c] = "new" /\ cpc'[c] = "call"
      \/ cpc[c] = "call" /\ cpc'[c] = "running"
      \/ cpc'[c] \in {"read", "store", "answer", "done"}
    BY <1>2, <1>3, <1>4, <1>5, Zenon DEF Next, Writes
<1> QED BY <1>6, <1>7

LEMMA StepConversationInv ==
    Typed /\ ConversationInv /\ [Next]_vars => ConversationInv'
<1> SUFFICES ASSUME Typed, ConversationInv, [Next]_vars PROVE ConversationInv'
    OBVIOUS
<1>1. ReadsInv'
    BY StepReadsInv DEF ConversationInv
<1> SUFFICES ASSUME NEW c \in Call PROVE OrderInv(c)'
    BY <1>1 DEF ConversationInv
<1>2. OrderInv(c)
    BY DEF ConversationInv
<1>3. /\ Request(c) \in Range(log') => Request(c) \in Range(log) \/ Capture(c)
      /\ Response(c) \in Range(log') => Response(c) \in Range(log) \/ Respond(c)
    BY WhoStoresWhat DEF ConversationInv
<1>4. /\ cpc'[c] = "new" => cpc[c] = "new" /\ ~Capture(c)
      /\ cpc'[c] \in {"new", "call", "running"} =>
            cpc[c] \in {"new", "call", "running"} /\ ~Respond(c)
    BY WhereCallsWere
<1>5. ASSUME Request(c) \in Range(log'),
             NEW j \in 1..Len(log'), log'[j] = Response(c)
      PROVE  \E i \in 1..(j - 1) : log'[i] = Request(c)
    <2>1. /\ DOMAIN log = 1..Len(log) /\ Len(log) \in Nat
          /\ DOMAIN log' = 1..Len(log') /\ Len(log') \in Nat
        BY StepTyped, LenProperties DEF Typed, TypeOK
    <2>2. \A i \in 1..Len(log) : log'[i] = log[i]
        BY StepExtends
    <2>3. Response(c) \in Range(log')
        BY <1>5, <2>1 DEF Range
    <2>4. ~Capture(c)
        <3>1. Capture(c) => cpc[c] = "new" /\ ~Respond(c)
            BY DEF Capture, Respond
        <3> QED BY <1>2, <1>3, <2>3, <3>1 DEF OrderInv
    <2>5. Request(c) \in Range(log)
        BY <1>3, <1>5, <2>4
    <2>6. PICK k \in 1..Len(log) : log[k] = Request(c)
        BY <2>1, <2>5 DEF Range
    <2>7. CASE j \in 1..Len(log)
        <3>1. log[j] = Response(c)
            BY <1>5, <2>2, <2>7
        <3>2. PICK i \in 1..(j - 1) : log[i] = Request(c)
            BY <1>2, <2>5, <2>7, <3>1 DEF OrderInv
        <3>3. i \in 1..Len(log)
            BY <2>1, <2>7
        <3> QED BY <2>2, <3>2, <3>3
    <2>8. CASE j \notin 1..Len(log)
        <3>1. k \in 1..(j - 1)
            BY <2>1, <2>8
        <3> QED BY <2>2, <2>6, <3>1
    <2> QED BY <2>7, <2>8
<1> QED BY <1>2, <1>3, <1>4, <1>5 DEF OrderInv

\* The archive service never has an answer whose question was stored without having
\* the question or being due to get it with the batch at the cursor, for any number
\* of calls and wherever the batches are cut or broken off
\* (archive_adapter.py:63-75, archive_sync.py:200-210).
THEOREM QuestionsGoFirst == Spec => []RequestsGoFirst
<1>1. Spec => [](Typed /\ OutboxInv /\ ConversationInv)
    BY InitTyped, StepTyped, InitOutboxInv, StepOutboxInv, InitConversationInv,
       StepConversationInv, PTL DEF Spec
<1>2. Typed /\ OutboxInv /\ ConversationInv => RequestsGoFirst
    <2> SUFFICES ASSUME Typed, OutboxInv, ConversationInv, NEW c \in Call,
                        Response(c) \in taken, Request(c) \in Range(log)
                 PROVE  Request(c) \in taken \cup
                            {log[i] : i \in (cursor + 1)..BatchEnd}
        BY DEF RequestsGoFirst
    <2>1. /\ cursor \in Nat /\ BatchEnd \in Nat /\ Len(log) \in Nat
          /\ BatchEnd =< Len(log)
        BY BatchBounds
    <2>2. PICK j \in 1..BatchEnd : log[j] = Response(c)
        BY DEF OutboxInv, Rows
    <2>3. PICK i \in 1..(j - 1) : log[i] = Request(c)
        BY <2>1, <2>2 DEF ConversationInv, OrderInv
    <2>4. i \in 1..cursor \/ i \in (cursor + 1)..BatchEnd
        BY <2>1
    <2>5. i \in 1..cursor => log[i] \in taken
        BY DEF OutboxInv, Rows
    <2> QED BY <2>3, <2>4, <2>5
<1> QED BY <1>1, <1>2, PTL

=============================================================================
