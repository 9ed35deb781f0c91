--------------------- MODULE ArchiveMemoryAdapterProofs ---------------------
(***************************************************************************)
(* Proofs about ArchiveMemoryAdapter, for any calls, Works and results:    *)
(* whatever the mirror does, a Plugin tool behaves as PluginCalls says.    *)
(***************************************************************************)
EXTENDS ArchiveMemoryAdapter, TLAPS

\* Where a call is says how far the Plugin and the caller have got.  A call
\* that ended, in whatever way, is not looked at again.
CallInv(c) ==
    /\ cpc[c] \in {"new", "call"} =>
            runs[c] = 0 /\ outcome[c] = None /\ answer[c] = None
    /\ cpc[c] = "running" =>
            runs[c] = 1 /\ outcome[c] = None /\ answer[c] = None
    /\ cpc[c] \in {"read", "store", "answer"} =>
            runs[c] = 1 /\ outcome[c] \in Result /\ answer[c] = None

CallsTypeOK ==
    /\ cpc \in [Call -> {"new", "call", "running", "read", "store", "answer",
                         "done"}]
    /\ runs \in [Call -> Nat]
    /\ outcome \in [Call -> Result \cup {None}]
    /\ answer \in [Call -> Result \cup {None}]

CallsInv == CallsTypeOK /\ \A c \in Call : CallInv(c)

\* The Plugin writes the Ledger in the course of a call.
Writes(c) == \E w \in Work : PluginWrites(c, w)

\* The steps after which no call has got further with the Plugin or its caller:
\* everything the mirror does for itself, and all captures.
MirrorStep ==
    \/ \E c \in Call :
        \/ Capture(c) \/ CaptureFails(c) \/ Writes(c)
        \/ ReadLedger(c) \/ StoreView(c) \/ LedgerCaptureFails(c)
        \/ Cancel(c) \/ AskArchive(c)
    \/ Synchronize
    \/ \E w \in Work : DirectWrite(w)
    \/ \E o \in Original, s \in Scope : Own(o, s)
    \/ Stop \/ Start
    \/ UNCHANGED vars

\* The four ways forward that a caller or the Plugin can see.
LEMMA StepCases ==
    ASSUME [Next]_vars
    PROVE  \/ MirrorStep
           \/ \E c \in Call : CallPlugin(c) \/ Respond(c) \/ RespondFails(c)
                                \/ Answer(c)
    BY Zenon DEF Next, CallTool, MirrorStep, Writes

\* No step of the mirror asks the Plugin, makes up a result or answers anyone
\* (archive_adapter.py:65-69, 75-78, 81-99).
LEMMA MirrorStepIsSilent ==
    ASSUME MirrorStep
    PROVE  UNCHANGED <<runs, outcome, answer>>
<1>1. ASSUME NEW c \in Call,
             \/ Capture(c) \/ CaptureFails(c) \/ Writes(c)
             \/ ReadLedger(c) \/ StoreView(c) \/ LedgerCaptureFails(c)
             \/ Cancel(c) \/ AskArchive(c)
      PROVE  UNCHANGED <<runs, outcome, answer>>
    BY <1>1 DEF Capture, CaptureFails, Writes, PluginWrites, ReadLedger,
                StoreView, LedgerCaptureFails, Cancel, AskArchive
<1>2. ASSUME Synchronize PROVE UNCHANGED calls
    BY <1>2 DEF Synchronize, StartCycle, Discover, DiscoverFails, ListWorks,
                Export, WalkOwned, GlobUnowned, StoreExport, DrainRead,
                Ingest, DrainAcknowledge, EndCycle, CycleFails
<1>3. ASSUME \/ \E w \in Work : DirectWrite(w)
             \/ \E o \in Original, s \in Scope : Own(o, s)
             \/ Start
      PROVE  UNCHANGED calls
    BY <1>3 DEF DirectWrite, Own, Start
<1>4. ASSUME Stop PROVE UNCHANGED <<runs, outcome, answer>>
    BY <1>4 DEF Stop
<1> QED BY <1>1, <1>2, <1>3, <1>4 DEF MirrorStep, calls, vars

\* A step of the mirror may move a call between two captures, or end it.
LEMMA MirrorStepMoves ==
    ASSUME MirrorStep, CallsInv
    PROVE  /\ cpc' \in [Call -> {"new", "call", "running", "read", "store",
                                 "answer", "done"}]
           /\ \A c \in Call :
                \/ cpc'[c] = cpc[c]
                \/ cpc'[c] = "done"
                \/ cpc[c] = "new" /\ cpc'[c] = "call"
                \/ cpc[c] \in {"read", "store"}
                    /\ cpc'[c] \in {"store", "answer"}
<1> USE DEF CallsInv, CallsTypeOK
<1>1. ASSUME NEW d \in Call,
             \/ Capture(d) \/ CaptureFails(d) \/ Writes(d)
             \/ ReadLedger(d) \/ StoreView(d) \/ LedgerCaptureFails(d)
             \/ Cancel(d) \/ AskArchive(d)
      PROVE  /\ cpc' \in [Call -> {"new", "call", "running", "read", "store",
                                 "answer", "done"}]
             /\ \A c \in Call :
                  \/ cpc'[c] = cpc[c]
                  \/ cpc'[c] = "done"
                  \/ cpc[c] = "new" /\ cpc'[c] = "call"
                  \/ cpc[c] \in {"read", "store"}
                      /\ cpc'[c] \in {"store", "answer"}
    BY <1>1 DEF Capture, CaptureFails, Writes, PluginWrites, ReadLedger,
                StoreView, LedgerCaptureFails, Cancel, AskArchive
<1>2. ASSUME Synchronize PROVE cpc' = cpc
    BY <1>2 DEF Synchronize, StartCycle, Discover, DiscoverFails, ListWorks,
                Export, WalkOwned, GlobUnowned, StoreExport, DrainRead,
                Ingest, DrainAcknowledge, EndCycle, CycleFails, calls
<1>3. ASSUME \/ \E w \in Work : DirectWrite(w)
             \/ \E o \in Original, s \in Scope : Own(o, s)
             \/ Start
      PROVE  cpc' = cpc
    BY <1>3 DEF DirectWrite, Own, Start, calls
<1>4. CASE Stop
    BY <1>4 DEF Stop
<1> QED BY <1>1, <1>2, <1>3, <1>4 DEF MirrorStep, calls, vars

----------------------------------------------------------------------------
(* The invariant of the calls *)

LEMMA InitCallsInv == Init => CallsInv
    BY DEF Init, CallsInv, CallsTypeOK, CallInv

LEMMA StepCallsInv == CallsInv /\ [Next]_vars => CallsInv'
<1> SUFFICES ASSUME CallsInv, [Next]_vars PROVE CallsInv'
    OBVIOUS
<1>1. CASE MirrorStep
    <2>1. UNCHANGED <<runs, outcome, answer>>
        BY <1>1, MirrorStepIsSilent
    <2> QED BY <1>1, <2>1, MirrorStepMoves DEF CallsInv, CallsTypeOK, CallInv
<1>2. ASSUME NEW c \in Call, CallPlugin(c) PROVE CallsInv'
    BY <1>2 DEF CallPlugin, CallsInv, CallsTypeOK, CallInv
<1>3. ASSUME NEW c \in Call, Respond(c) \/ RespondFails(c) PROVE CallsInv'
    BY <1>3 DEF Respond, RespondFails, CallsInv, CallsTypeOK, CallInv
<1>4. ASSUME NEW c \in Call, Answer(c) PROVE CallsInv'
    BY <1>4 DEF Answer, CallsInv, CallsTypeOK, CallInv
<1> QED BY <1>1, <1>2, <1>3, <1>4, StepCases

\* The Plugin was asked once when the call is past asking, and what it produced
\* is kept until the caller has it.
THEOREM CallsInvHolds == Spec => []CallsInv
<1> QED BY InitCallsInv, StepCallsInv, PTL DEF Spec

----------------------------------------------------------------------------
(* Refinement *)

LEMMA InitImplements == Init => Calls!Init
    BY DEF Init, Calls!Init

LEMMA StepImplements == CallsInv /\ [Next]_vars => [Calls!Next]_(Calls!vars)
<1> SUFFICES ASSUME CallsInv, [Next]_vars PROVE [Calls!Next]_(Calls!vars)
    OBVIOUS
<1>1. CASE MirrorStep
    BY <1>1, MirrorStepIsSilent DEF Calls!vars
<1>2. ASSUME NEW c \in Call, CallPlugin(c) PROVE Calls!Run(c)
    <2>1. runs[c] = 0 /\ runs' = [runs EXCEPT ![c] = runs[c] + 1]
        BY <1>2 DEF CallPlugin, CallsInv, CallInv
    <2>2. runs' = [runs EXCEPT ![c] = 1]
        BY <2>1
    <2>3. UNCHANGED <<outcome, answer>>
        BY <1>2 DEF CallPlugin
    <2> QED BY <2>1, <2>2, <2>3 DEF Calls!Run
<1>3. ASSUME NEW c \in Call, Respond(c) \/ RespondFails(c)
      PROVE  Calls!Finish(c)
    BY <1>3 DEF Respond, RespondFails, Calls!Finish, CallsInv, CallInv
<1>4. ASSUME NEW c \in Call, Answer(c) PROVE Calls!Answer(c)
    BY <1>4, ConstantsAssumption
       DEF Answer, Calls!Answer, CallsInv, CallInv
<1>5. CASE \E c \in Call : CallPlugin(c) \/ Respond(c) \/ RespondFails(c)
                                \/ Answer(c)
    <2>1. Calls!Next
        BY <1>2, <1>3, <1>4, <1>5, Zenon DEF Calls!Next
    <2> QED BY <2>1
<1> QED BY <1>1, <1>5, StepCases

\* With an archive, failing or not, callers of Plugin tools see exactly what
\* the Plugin did for them, and the Plugin is asked at most once
\* (archive_adapter.py:69-79).
THEOREM AdapterImplementsPluginCalls == Spec => ImplementsPluginCalls
<1> QED BY InitImplements, StepImplements, CallsInvHolds, PTL
        DEF Spec, ImplementsPluginCalls, Calls!Spec

\* The abstract calls keep their promise: a caller that got an answer got what
\* the one run of its call produced.
THEOREM CallsKeepTheirPromise == Calls!Spec => []Calls!Promise
<1> USE DEF Calls!Promise
<1>1. Calls!Init => Calls!Promise
    BY DEF Calls!Init
<1>2. Calls!Promise /\ [Calls!Next]_(Calls!vars) => Calls!Promise'
    BY DEF Calls!Next, Calls!vars, Calls!Run, Calls!Finish, Calls!Answer
<1> QED BY <1>1, <1>2, PTL DEF Calls!Spec

\* Hence callers may rely on it with any archive (archive_adapter.py:69-79).
THEOREM AdapterKeepsThePromise == Spec => []Calls!Promise
<1> QED BY AdapterImplementsPluginCalls, CallsKeepTheirPromise, PTL
        DEF ImplementsPluginCalls

=============================================================================
