------------------------- MODULE CreativeOwnership -------------------------
(***************************************************************************)
(* Which creative originals the export of archive_sync.py attributes to    *)
(* which Work: _creative_sources, run for every Work the Ledger lists, and *)
(* unscoped_creative_records for the rest.                                 *)
(*                                                                         *)
(* An original may name its Work in a field of its own or in its scope,    *)
(* and it may pin other originals by fingerprint, as may the rows of the   *)
(* Ledger.  The walk starts at the originals that name the Work and at the *)
(* Ledger rows of the Work, and follows pins.  The files do not change     *)
(* while they are exported: their names are fingerprints.                  *)
(***************************************************************************)
EXTENDS Naturals, FiniteSets

CONSTANTS
    Object,     \* the files of creative-authority/objects, by stem
    Work,       \* the Works somebody may name
    Ledger,     \* the rows of the Ledger, as a place pins come from
    None        \* no Work

ASSUME ConstantsAssumption ==
    /\ Ledger \notin Object
    /\ None \notin Work

VARIABLES
    \* the files and the Ledger, which no step changes
    parsed,     \* the files that hold JSON; others name and pin nothing
    topOwner,   \* workId or work_id of each file
    scopeOwner, \* scope.workId of each file
    pins,       \* the files each file names by fingerprint
    rooted,     \* the files the Ledger rows of each Work name
    listed,     \* ledger_work_ids
    \* the export
    pc,         \* where it is
    work,       \* the Work it walks for
    selected,   \* the files it attributes to that Work so far
    pending,    \* the files, and the Ledger, whose pins it has yet to follow
    owned,      \* what it attributed to each Work
    left,       \* the Works it has yet to walk for
    orphans     \* the files it exports as unscoped

files == <<parsed, topOwner, scopeOwner, pins, rooted, listed>>
walk == <<pc, work, selected, pending, owned, left, orphans>>
vars == <<files, walk>>

----------------------------------------------------------------------------
(* Ownership *)

\* workId, work_id or scope.workId, whichever comes first.
Owner(o) == IF topOwner[o] # None THEN topOwner[o] ELSE scopeOwner[o]

Seeds(w) == {o \in parsed : Owner(o) = w}

\* A slip: a scope keeps nobody from claiming the file.
AnyoneMayClaim(o, w) == TRUE

\* A pinned file is taken unless its scope names another Work.  One whose workId
\* names another is shared: it goes to that Work and to the Works that pin it.
MayClaim(o, w) == scopeOwner[o] \in {None, w}

PinsOf(x, w) == IF x = Ledger THEN rooted[w] ELSE pins[x]

\* What following the pins of x adds for Work w.
Reached(x, w) == {o \in PinsOf(x, w) \cap parsed : MayClaim(o, w)}

----------------------------------------------------------------------------
Init ==
    /\ parsed \in SUBSET Object
    /\ topOwner \in [Object -> Work \cup {None}]
    /\ scopeOwner \in [Object -> Work \cup {None}]
    /\ pins \in [Object -> SUBSET Object]
    /\ \A o \in Object \ parsed :
            topOwner[o] = None /\ scopeOwner[o] = None /\ pins[o] = {}
    /\ rooted \in [Work -> SUBSET Object]
    /\ listed \in SUBSET Work
    /\ pc = "next" /\ work = None
    /\ selected = {} /\ pending = {}
    /\ owned = [w \in Work |-> {}]
    /\ left = listed
    /\ orphans = {}

\* A slip: walk for every Work, whether the Ledger lists it or not.
StartUnlisted(w) ==
    /\ pc = "next"
    /\ left' = left \ {w}
    /\ work' = w
    /\ selected' = Seeds(w)
    /\ pending' = Seeds(w) \cup {Ledger}
    /\ pc' = "walk"
    /\ UNCHANGED <<files, owned, orphans>>

\* A slip: select the files that name the Work and do not follow their pins.
StartBare(w) ==
    /\ pc = "next"
    /\ w \in left
    /\ left' = left \ {w}
    /\ work' = w
    /\ selected' = Seeds(w)
    /\ pending' = {Ledger}
    /\ pc' = "walk"
    /\ UNCHANGED <<files, owned, orphans>>

StartWork(w) ==
    /\ pc = "next"
    /\ w \in left
    /\ left' = left \ {w}
    /\ work' = w
    /\ selected' = Seeds(w)
    /\ pending' = Seeds(w) \cup {Ledger}
    /\ pc' = "walk"
    /\ UNCHANGED <<files, owned, orphans>>

\* A slip: do not look whether the file was selected before.
VisitAgain(x) ==
    /\ pc = "walk"
    /\ x \in pending
    /\ selected' = selected \cup Reached(x, work)
    /\ pending' = (pending \ {x}) \cup Reached(x, work)
    /\ UNCHANGED <<files, pc, work, owned, left, orphans>>

\* A slip: select what is pinned and go no further.
VisitShallow(x) ==
    /\ pc = "walk"
    /\ x \in pending
    /\ selected' = selected \cup Reached(x, work)
    /\ pending' = pending \ {x}
    /\ UNCHANGED <<files, pc, work, owned, left, orphans>>

Visit(x) ==
    LET found == Reached(x, work) \ selected IN
    /\ pc = "walk"
    /\ x \in pending
    /\ selected' = selected \cup found
    /\ pending' = (pending \ {x}) \cup found
    /\ UNCHANGED <<files, pc, work, owned, left, orphans>>

FinishWork ==
    /\ pc = "walk"
    /\ pending = {}
    /\ owned' = [owned EXCEPT ![work] = selected]
    /\ pc' = "next"
    /\ UNCHANGED <<files, work, selected, pending, left, orphans>>

ExportUnscoped ==
    /\ pc = "next"
    /\ left = {}
    /\ orphans' = Object \ UNION {owned[w] : w \in listed}
    /\ pc' = "done"
    /\ UNCHANGED <<files, work, selected, pending, owned, left>>

Next ==
    \/ \E w \in Work : StartWork(w)
    \/ \E x \in Object \cup {Ledger} : Visit(x)
    \/ FinishWork
    \/ ExportUnscoped

Spec == Init /\ [][Next]_vars

FairSpec == Spec /\ WF_vars(Next)

----------------------------------------------------------------------------
(* Properties *)

TypeOK ==
    /\ parsed \in SUBSET Object
    /\ topOwner \in [Object -> Work \cup {None}]
    /\ scopeOwner \in [Object -> Work \cup {None}]
    /\ pins \in [Object -> SUBSET Object]
    /\ rooted \in [Work -> SUBSET Object]
    /\ listed \in SUBSET Work
    /\ pc \in {"next", "walk", "done"}
    /\ work \in Work \cup {None}
    /\ pc = "walk" => work \in listed
    /\ selected \in SUBSET Object
    /\ pending \in SUBSET (Object \cup {Ledger})
    /\ owned \in [Work -> SUBSET Object]
    /\ left \in SUBSET listed
    /\ orphans \in SUBSET Object

\* S holds the files that name Work w and whatever is reached from them or
\* from the Ledger rows of w.
IsClosed(S, w) ==
    /\ Seeds(w) \subseteq S
    /\ \A x \in S \cup {Ledger} : Reached(x, w) \subseteq S

\* The Works whose walk is over.
Walked == {w \in listed \ left : pc = "walk" => w # work}

\* A Work is given all that names it or is reached by pins, over any number of
\* steps and through cycles, and nothing else (archive_sync.py:134-168).
OwnedIsClosure ==
    \A w \in Walked :
        /\ IsClosed(owned[w], w)
        /\ \A S \in SUBSET Object : IsClosed(S, w) => owned[w] \subseteq S

\* A file that names a Work only in its scope goes to no other Work.
ScopeIsExclusive ==
    \A w \in Work : \A o \in owned[w] :
        topOwner[o] = None => scopeOwner[o] \in {None, w}

\* The export ends, however the files pin each other.
ExportEnds == <>(pc = "done")

\* What may still be followed in this walk.
Ahead == (Object \ selected) \cup pending

\* Every step leaves less to do: it takes up a Work and no Work twice, follows
\* the pins of one file and of no file twice in a walk, or ends a walk, or the
\* export (archive_sync.py:149-168).
EveryStepDescends ==
    [][ \/ left' \subseteq left /\ left' # left
        \/ /\ left' = left /\ pc = "walk" /\ pc' = "walk"
           /\ Ahead' \subseteq Ahead /\ Ahead' # Ahead
        \/ left' = left /\ pc = "walk" /\ pc' = "next"
        \/ left' = left /\ pc = "next" /\ pc' = "done" ]_vars

----------------------------------------------------------------------------
(* The inductive invariant *)

\* What the walk has selected is needed, and the pins of all it has selected
\* and is done with were followed.
WalkInv ==
    pc = "walk" =>
        /\ Seeds(work) \subseteq selected
        /\ pending \subseteq selected \cup {Ledger}
        /\ \A x \in (selected \cup {Ledger}) \ pending :
                Reached(x, work) \subseteq selected
        /\ \A S \in SUBSET Object : IsClosed(S, work) => selected \subseteq S

\* A Work is walked for once, and has nothing before its walk is over.
OnceInv ==
    /\ pc = "walk" => work \notin left
    /\ \A w \in Work \ Walked : owned[w] = {}

IInv == TypeOK /\ WalkInv /\ OnceInv /\ OwnedIsClosure

=============================================================================
