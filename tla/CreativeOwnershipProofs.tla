---------------------- MODULE CreativeOwnershipProofs ----------------------
(***************************************************************************)
(* Proofs about CreativeOwnership, for any files, Works and pins.  The     *)
(* export computes least closures: what a walk has selected lies in every  *)
(* closed set, and once nothing is pending it is closed itself.            *)
(***************************************************************************)
EXTENDS CreativeOwnership, TLAPS

----------------------------------------------------------------------------
(* Ownership is a matter of the files alone *)

\* As long as the files and the Ledger are the same, so are the seeds of a Work
\* and what following pins adds (archive_sync.py:147-166).
LEMMA FilesDecide ==
    ASSUME UNCHANGED files
    PROVE  /\ \A w : Seeds(w)' = Seeds(w)
           /\ \A x, w : Reached(x, w)' = Reached(x, w)
           /\ \A S, w : IsClosed(S, w)' <=> IsClosed(S, w)
<1>1. \A w : Seeds(w)' = Seeds(w)
    BY DEF files, Seeds, Owner
<1>2. \A x, w : Reached(x, w)' = Reached(x, w)
    BY DEF files, Reached, PinsOf, MayClaim
<1>3. \A S, w : IsClosed(S, w)' <=> IsClosed(S, w)
    BY <1>1, <1>2 DEF IsClosed
<1> QED BY <1>1, <1>2, <1>3

\* Only parsed files own or are owned (archive_sync.py:143-145, 163).
LEMMA OnlyFiles ==
    ASSUME TypeOK
    PROVE  /\ \A w : Seeds(w) \subseteq Object
           /\ \A x, w : Reached(x, w) \subseteq Object
    BY DEF TypeOK, Seeds, Reached

----------------------------------------------------------------------------
(* Type correctness *)

LEMMA InitTypeOK == Init => TypeOK
    BY DEF Init, TypeOK

LEMMA StepTypeOK == TypeOK /\ [Next]_vars => TypeOK'
<1> SUFFICES ASSUME TypeOK, [Next]_vars PROVE TypeOK'
    OBVIOUS
<1>0. /\ \A w : Seeds(w) \subseteq Object
      /\ \A x, w : Reached(x, w) \subseteq Object
    BY OnlyFiles
<1> USE DEF TypeOK, files
<1>1. ASSUME NEW w \in Work, StartWork(w) PROVE TypeOK'
    BY <1>0, <1>1 DEF StartWork
<1>2. ASSUME NEW x \in Object \cup {Ledger}, Visit(x) PROVE TypeOK'
    <2>1. /\ selected' \in SUBSET Object
          /\ pending' \in SUBSET (Object \cup {Ledger})
        BY <1>0, <1>2 DEF Visit
    <2> QED BY <1>2, <2>1 DEF Visit
<1>3. CASE FinishWork
    BY <1>3 DEF FinishWork
<1>4. CASE ExportUnscoped
    BY <1>4 DEF ExportUnscoped
<1>5. CASE UNCHANGED vars
    BY <1>5 DEF vars, walk
<1> QED BY <1>1, <1>2, <1>3, <1>4, <1>5 DEF Next

\* The export keeps the shape of all it computes.
THEOREM TypeCorrect == Spec => []TypeOK
<1> QED BY InitTypeOK, StepTypeOK, PTL DEF Spec

----------------------------------------------------------------------------
(* The inductive invariant *)

LEMMA InitIInv == Init => IInv
<1> SUFFICES ASSUME Init PROVE IInv
    OBVIOUS
<1>1. TypeOK
    BY InitTypeOK
<1>2. Walked = {}
    BY DEF Init, Walked
<1> QED BY <1>1, <1>2 DEF IInv, WalkInv, OnceInv, OwnedIsClosure, Init

LEMMA StartWorkIInv ==
    ASSUME IInv, NEW w \in Work, StartWork(w), TypeOK'
    PROVE  IInv'
<1>0. /\ \A v : Seeds(v)' = Seeds(v)
      /\ \A x, v : Reached(x, v)' = Reached(x, v)
      /\ \A S, v : IsClosed(S, v)' <=> IsClosed(S, v)
    BY FilesDecide DEF StartWork
<1>1. WalkInv'
    <2>1. work' = w /\ selected' = Seeds(w) /\ pending' = Seeds(w) \cup {Ledger}
        BY DEF StartWork
    <2>2. (selected' \cup {Ledger}) \ pending' = {}
        BY <2>1
    <2>3. \A S : IsClosed(S, w)' => selected' \subseteq S
        BY <1>0, <2>1 DEF IsClosed
    <2> QED BY <1>0, <2>1, <2>2, <2>3 DEF WalkInv
<1>2. Walked' = Walked
    BY DEF StartWork, files, Walked
<1>3. OnceInv'
    BY <1>2 DEF OnceInv, StartWork, IInv
<1>4. OwnedIsClosure'
    <2>1. owned' = owned
        BY DEF StartWork
    <2> QED BY <1>0, <1>2, <2>1, Zenon DEF OwnedIsClosure, IInv
<1> QED BY <1>1, <1>3, <1>4 DEF IInv

LEMMA VisitIInv ==
    ASSUME IInv, NEW x \in Object \cup {Ledger}, Visit(x), TypeOK'
    PROVE  IInv'
<1>0. /\ \A v : Seeds(v)' = Seeds(v)
      /\ \A y, v : Reached(y, v)' = Reached(y, v)
      /\ \A S, v : IsClosed(S, v)' <=> IsClosed(S, v)
    BY FilesDecide DEF Visit
<1> DEFINE found == Reached(x, work) \ selected
<1>1. /\ pc = "walk" /\ x \in pending
      /\ selected' = selected \cup found
      /\ pending' = (pending \ {x}) \cup found
      /\ pc' = pc /\ work' = work /\ owned' = owned /\ left' = left
      /\ listed' = listed
    BY DEF Visit, files
<1>2. WalkInv'
    <2>1. /\ Seeds(work) \subseteq selected
          /\ pending \subseteq selected \cup {Ledger}
          /\ \A y \in (selected \cup {Ledger}) \ pending :
                  Reached(y, work) \subseteq selected
          /\ \A S \in SUBSET Object : IsClosed(S, work) => selected \subseteq S
        BY <1>1 DEF IInv, WalkInv
    <2>2. Seeds(work) \subseteq selected'
        BY <1>1, <2>1
    <2>3. pending' \subseteq selected' \cup {Ledger}
        BY <1>1, <2>1
    <2>4. ASSUME NEW y \in (selected' \cup {Ledger}) \ pending'
          PROVE  Reached(y, work) \subseteq selected'
        <3>1. CASE y = x
            BY <1>1, <3>1
        <3>2. CASE y # x
            <4>1. y \in (selected \cup {Ledger}) \ pending
                BY <1>1, <2>4, <3>2
            <4> QED BY <1>1, <2>1, <4>1
        <3> QED BY <3>1, <3>2
    <2>5. ASSUME NEW S \in SUBSET Object, IsClosed(S, work)
          PROVE  selected' \subseteq S
        <3>1. x \in S \cup {Ledger}
            BY <1>1, <2>1, <2>5
        <3>2. Reached(x, work) \subseteq S
            BY <2>5, <3>1 DEF IsClosed
        <3> QED BY <1>1, <2>1, <2>5, <3>2
    <2> HIDE DEF found
    <2> QED BY <1>0, <1>1, <2>2, <2>3, <2>4, <2>5 DEF WalkInv
<1> HIDE DEF found
<1>3. Walked' = Walked
    BY <1>1 DEF Walked
<1>4. OnceInv'
    BY <1>1, <1>3 DEF OnceInv, IInv
<1>5. OwnedIsClosure'
    BY <1>0, <1>1, <1>3, Zenon DEF OwnedIsClosure, IInv
<1> QED BY <1>2, <1>4, <1>5 DEF IInv

\* With nothing pending, what was selected is the least closed set.
LEMMA FinishWorkIInv ==
    ASSUME IInv, FinishWork, TypeOK'
    PROVE  IInv'
<1>0. /\ \A v : Seeds(v)' = Seeds(v)
      /\ \A y, v : Reached(y, v)' = Reached(y, v)
      /\ \A S, v : IsClosed(S, v)' <=> IsClosed(S, v)
    BY FilesDecide DEF FinishWork
<1>1. /\ pc = "walk" /\ pc' = "next" /\ pending = {}
      /\ work \in listed /\ work \in Work /\ work \notin left
      /\ owned' = [owned EXCEPT ![work] = selected]
      /\ owned \in [Work -> SUBSET Object]
      /\ work' = work /\ left' = left /\ listed' = listed
    BY DEF FinishWork, files, IInv, TypeOK, OnceInv
<1>2. IsClosed(selected, work)
    BY <1>1 DEF IInv, WalkInv, IsClosed
<1>3. Walked' = Walked \cup {work}
    BY <1>1 DEF Walked
<1>4. OnceInv'
    BY <1>1, <1>3 DEF OnceInv, IInv
<1>5. OwnedIsClosure'
    <2> SUFFICES ASSUME NEW v \in Walked'
                 PROVE  /\ IsClosed(owned'[v], v)
                        /\ \A S \in SUBSET Object :
                                IsClosed(S, v) => owned'[v] \subseteq S
        BY <1>0, Zenon DEF OwnedIsClosure
    <2>1. CASE v = work
        <3>1. owned'[v] = selected
            BY <1>1, <2>1
        <3> QED BY <1>1, <1>2, <2>1, <3>1 DEF IInv, WalkInv
    <2>2. CASE v # work
        <3>1. v \in Walked
            BY <1>3, <2>2
        <3>2. owned'[v] = owned[v]
            BY <1>1, <2>2, <3>1 DEF Walked, IInv, TypeOK
        <3> QED BY <3>1, <3>2 DEF IInv, OwnedIsClosure
    <2> QED BY <2>1, <2>2
<1>6. WalkInv'
    BY <1>1 DEF WalkInv
<1> QED BY <1>4, <1>5, <1>6 DEF IInv

LEMMA StutterIInv ==
    ASSUME IInv, ExportUnscoped \/ UNCHANGED vars, TypeOK'
    PROVE  IInv'
<1>0. /\ \A v : Seeds(v)' = Seeds(v)
      /\ \A y, v : Reached(y, v)' = Reached(y, v)
      /\ \A S, v : IsClosed(S, v)' <=> IsClosed(S, v)
    BY FilesDecide DEF ExportUnscoped, vars
<1>1. /\ pc' = "walk" => pc = "walk"
      /\ pc = "walk" => pc' = "walk"
      /\ work' = work /\ selected' = selected /\ pending' = pending
      /\ owned' = owned /\ left' = left /\ listed' = listed
    BY DEF ExportUnscoped, vars, walk, files
<1>2. Walked' = Walked
    BY <1>1 DEF Walked
<1>3. WalkInv'
    BY <1>0, <1>1 DEF WalkInv, IInv
<1>4. OnceInv'
    BY <1>1, <1>2 DEF OnceInv, IInv
<1>5. OwnedIsClosure'
    BY <1>0, <1>1, <1>2, Zenon DEF OwnedIsClosure, IInv
<1> QED BY <1>3, <1>4, <1>5 DEF IInv

LEMMA StepIInv == IInv /\ [Next]_vars => IInv'
<1> SUFFICES ASSUME IInv, [Next]_vars PROVE IInv'
    OBVIOUS
<1>1. TypeOK'
    BY StepTypeOK DEF IInv
<1>2. ASSUME NEW w \in Work, StartWork(w) PROVE IInv'
    BY <1>1, <1>2, StartWorkIInv
<1>3. ASSUME NEW x \in Object \cup {Ledger}, Visit(x) PROVE IInv'
    BY <1>1, <1>3, VisitIInv
<1>4. CASE FinishWork
    BY <1>1, <1>4, FinishWorkIInv
<1>5. CASE ExportUnscoped \/ UNCHANGED vars
    BY <1>1, <1>5, StutterIInv
<1> QED BY <1>2, <1>3, <1>4, <1>5 DEF Next

\* What a walk has selected lies in every closed set, and all it is done with
\* has been followed.
THEOREM IInvHolds == Spec => []IInv
<1> QED BY InitIInv, StepIInv, PTL DEF Spec

----------------------------------------------------------------------------
(* Results *)

\* Every Work the export is done with is given exactly the files that name it
\* and the files reached from there or from its Ledger rows, however long the
\* chains of pins and whatever their cycles (archive_sync.py:134-168).
THEOREM ExportOwnsClosure == Spec => []OwnedIsClosure
<1>1. IInv => OwnedIsClosure
    BY DEF IInv
<1> QED BY <1>1, IInvHolds, PTL

\* The files that do not name another Work in their scope alone form a closed
\* set, so a least closed set holds no others (archive_sync.py:166).
LEMMA ScopesAreClosed ==
    ASSUME TypeOK, NEW w \in Work
    PROVE  IsClosed({o \in Object : topOwner[o] = None =>
                                        scopeOwner[o] \in {None, w}}, w)
    BY ConstantsAssumption DEF IsClosed, Seeds, Reached, MayClaim, Owner, TypeOK

\* A file that names a Work only in its scope is attributed to no other Work.
THEOREM ScopeDecides == Spec => []ScopeIsExclusive
<1>1. IInv => ScopeIsExclusive
    <2> SUFFICES ASSUME IInv, NEW w \in Work, NEW o \in owned[w],
                        topOwner[o] = None
                 PROVE  scopeOwner[o] \in {None, w}
        BY DEF ScopeIsExclusive
    <2> DEFINE S == {p \in Object : topOwner[p] = None =>
                                        scopeOwner[p] \in {None, w}}
    <2>1. w \in Walked
        BY DEF IInv, OnceInv
    <2>2. IsClosed(S, w)
        BY ScopesAreClosed DEF IInv
    <2> HIDE DEF S
    <2>3. S \in SUBSET Object
        BY DEF S
    <2>4. owned[w] \subseteq S
        BY <2>1, <2>2, <2>3 DEF IInv, OwnedIsClosure
    <2> QED BY <2>4 DEF S
<1> QED BY <1>1, IInvHolds, PTL

\* The pins of a file that was selected are followed once: what is found is not
\* selected yet, and the file itself is (archive_sync.py:157-168).
LEMMA VisitDescends ==
    ASSUME IInv, NEW x \in Object \cup {Ledger}, Visit(x)
    PROVE  Ahead' \subseteq Ahead /\ Ahead' # Ahead
<1> DEFINE found == Reached(x, work) \ selected
<1>1. /\ pc = "walk" /\ x \in pending
      /\ selected' = selected \cup found
      /\ pending' = (pending \ {x}) \cup found
    BY DEF Visit
<1>2. x \in selected \cup {Ledger}
    BY <1>1 DEF IInv, WalkInv
<1>3. found \subseteq Object \ selected
    BY OnlyFiles DEF IInv
<1>4. x \notin found /\ x \notin Object \ selected
    BY <1>2, <1>3, ConstantsAssumption
<1> HIDE DEF found
<1>5. Ahead' = Ahead \ {x}
    BY <1>1, <1>3, <1>4 DEF Ahead
<1> QED BY <1>1, <1>5 DEF Ahead

\* Every step of the export leaves less to do than there was, whatever pins
\* whatever: no Work is taken up twice and no file is followed twice in a walk.
THEOREM NothingIsFollowedTwice == Spec => EveryStepDescends
<1>1. ASSUME IInv, Next
      PROVE  \/ left' \subseteq left /\ left' # left
             \/ /\ left' = left /\ pc = "walk" /\ pc' = "walk"
                /\ Ahead' \subseteq Ahead /\ Ahead' # Ahead
             \/ left' = left /\ pc = "walk" /\ pc' = "next"
             \/ left' = left /\ pc = "next" /\ pc' = "done"
    <2>1. ASSUME NEW w \in Work, StartWork(w)
          PROVE  left' \subseteq left /\ left' # left
        BY <2>1 DEF StartWork
    <2>2. ASSUME NEW x \in Object \cup {Ledger}, Visit(x)
          PROVE  /\ left' = left /\ pc = "walk" /\ pc' = "walk"
                 /\ Ahead' \subseteq Ahead /\ Ahead' # Ahead
        BY <1>1, <2>2, VisitDescends DEF Visit
    <2>3. CASE FinishWork
        BY <2>3 DEF FinishWork
    <2>4. CASE ExportUnscoped
        BY <2>4 DEF ExportUnscoped
    <2> QED BY <1>1, <2>1, <2>2, <2>3, <2>4 DEF Next
<1> QED BY <1>1, IInvHolds, PTL DEF Spec, EveryStepDescends

=============================================================================
