------------------------ MODULE PluginLifespanProofs ------------------------
(***************************************************************************)
(* The Host of PluginLifespan, for any modules and any number of versions. *)
(* Where the lifespan is determines what is held, what the worker may be   *)
(* at and what is shown: that is the inductive invariant, one conjunct per *)
(* thing so determined.                                                    *)
(***************************************************************************)
EXTENDS PluginLifespan, TLAPS

Early == {"load", "capture"}
Middle == {"begin", "client", "configure", "discover"}
Held == {"serve", "finally", "await", "close", "stop"}

\* The modules that were read, and how that shows whether nothing changed.
CodeInv ==
    /\ \A m \in Module : hashed[m] # 0 =>
            /\ loaded[m] # 0
            /\ loaded[m] <= hashed[m]
            /\ still => hashed[m] = loaded[m]
    /\ \A m \in Module : loaded[m] <= disk
    /\ step \in Early /\ still =>
            \A m \in Module : loaded[m] \in {0, disk}
    /\ runtime.identity => \A m \in Module : hashed[m] # 0

\* The status and the identity follow the lifespan.
ShownInv ==
    /\ step \in Early => runtime = Starting /\ adapter = "none"
    /\ step \in Middle => runtime.archive = "unset" /\ adapter = "plain"
    /\ step \in Middle \cup Held => runtime.status = "ready"
    /\ runtime.status = "ready" => runtime.identity
    /\ step = "over" /\ runtime.status = "ready" => archive = "open"
    /\ step = "over" /\ runtime.status # "ready" => archive # "open"

\* So do the Plugin and the client.
HeldInv ==
    /\ step \in {"capture"} \cup Middle \cup Held => plugin = "open"
    /\ step \in {"load", "over"} => plugin # "open"
    /\ step \in Early \cup {"begin", "client"} => archive = "none"
    /\ step \in {"configure", "discover"} => archive = "open"
    /\ step = "stop" => archive # "open"

\* And the worker, whose client is open as long as it is not over.
TaskInv ==
    /\ step \in Early \cup Middle => worker = "none"
    /\ worker \in Awaits => step \in {"serve", "finally"}
    /\ worker = "cancelled" => step = "await"
    /\ worker \in Awaits \cup {"cancelled"} =>
            archive = "open" /\ plugin = "open"
    /\ worker # "none" => adapter = "mirror"
    /\ discovered => worker # "none"
    /\ step = "serve" =>
        /\ worker \in Awaits \cup {"none"}
        /\ (runtime.archive = "OPTIONAL_SOURCE_MIRROR") <=> (worker # "none")
        /\ (adapter = "mirror") <=> (worker # "none")

ControlInv == ShownInv /\ HeldInv /\ TaskInv

IInv == TypeOK /\ CodeInv /\ ControlInv

----------------------------------------------------------------------------
(* Initial states *)

LEMMA InitIInv == Init => IInv
<1> SUFFICES ASSUME Init PROVE IInv
    OBVIOUS
<1> USE VersionAssumption DEF Init, Starting, Unread, Version
<1>1. TypeOK
    <2>1. disk \in Version /\ Unread \in [Module -> Version \cup {0}]
        OBVIOUS
    <2>2. Starting \in [status : {"starting", "ready", "stopped"},
                       identity : BOOLEAN,
                       archive : {"unset", "OPTIONAL_SOURCE_MIRROR",
                                  "PENDING_CONFIGURATION"}]
        OBVIOUS
    <2>3. still \in BOOLEAN /\ thread \in BOOLEAN /\ discovered \in BOOLEAN
        OBVIOUS
    <2> QED BY <2>1, <2>2, <2>3 DEF TypeOK, Awaits
<1>2. CodeInv
    BY DEF CodeInv, Early
<1>3. ShownInv
    BY DEF ShownInv, Early, Middle, Held
<1>4. HeldInv
    BY DEF HeldInv, Early, Middle, Held
<1>5. TaskInv
    BY DEF TaskInv, Early, Middle, Awaits
<1> QED BY <1>1, <1>2, <1>3, <1>4, <1>5 DEF IInv, ControlInv

----------------------------------------------------------------------------
(* The code and the identity *)

\* A step that leaves the code alone, does not start a process and shows no
\* identity before every module was hashed.
LEMMA CodeKept ==
    ASSUME CodeInv, UNCHANGED code, step' \in Early => step \in Early,
           runtime'.identity => \/ runtime.identity
                                \/ \A m \in Module : hashed[m] # 0
    PROVE  CodeInv'
    BY DEF CodeInv, code

LEMMA StepCode == ASSUME TypeOK, CodeInv, Next PROVE CodeInv'
<1> USE DEF TypeOK, Version
<1>1. CASE SetUp
    <2>1. ASSUME NEW m \in Module, Import(m) PROVE CodeInv'
        BY <2>1 DEF Import, CodeInv, Early, shown
    <2>2. ASSUME NEW m \in Module, ReadSource(m) PROVE CodeInv'
        BY <2>2 DEF ReadSource, CodeInv, Early, shown
    <2>3. CASE CaptureIdentity
        BY <2>3, CodeKept DEF CaptureIdentity, Early
    <2>4. CASE LoadPlugin \/ LoadFails \/ CaptureFails
        BY <2>4, CodeKept
           DEF LoadPlugin, LoadFails, CaptureFails, shown, Early
    <2>5. CASE \/ Begin \/ ImportFails \/ NoClient \/ MakeClient \/ SetupFails
               \/ Configure \/ StartWorker \/ CancelledAtDiscover
        BY <2>5, CodeKept
           DEF Begin, ImportFails, NoClient, MakeClient, SetupFails, Configure,
               StartWorker, CancelledAtDiscover, shown, Early
    <2> QED BY <1>1, <2>1, <2>2, <2>3, <2>4, <2>5 DEF SetUp
<1>2. CASE WorkerGoesOn \/ ThreadEnds \/ WorkerEnds \/ Leave
    BY <1>2, CodeKept
       DEF WorkerGoesOn, ThreadEnds, WorkerEnds, Leave, shown, Early
<1>3. CASE TakeDown
    BY <1>3, CodeKept
       DEF TakeDown, CancelWorker, AwaitWorker, CloseClient, CloseFails,
           StopServing, shown, Early
<1>4. CASE NewProcess
    BY <1>4 DEF NewProcess, Unread, Starting, CodeInv, Early
<1>5. CASE Deploy
    <2>1. \A m \in Module : loaded[m] \in Nat /\ disk \in Nat
        OBVIOUS
    <2>2. disk' = disk + 1 /\ UNCHANGED <<loaded, hashed, step, runtime>>
        BY <1>5 DEF Deploy, shown
    <2>3. still' => still /\ step \notin Early
        BY <1>5, Zenon DEF Deploy, Early
    <2> QED BY <2>1, <2>2, <2>3 DEF CodeInv
<1> QED BY <1>1, <1>2, <1>3, <1>4, <1>5 DEF Next

----------------------------------------------------------------------------
(* Types *)

LEMMA StepTypeOK == ASSUME TypeOK, Next PROVE TypeOK'
<1> USE VersionAssumption DEF TypeOK, Version, code, shown, held, task
<1>1. CASE SetUp
    <2>1. ASSUME NEW m \in Module, Import(m) \/ ReadSource(m) PROVE TypeOK'
        BY <2>1 DEF Import, ReadSource
    <2>2. CASE LoadPlugin
        BY <2>2 DEF LoadPlugin
    <2>3. CASE LoadFails
        BY <2>3 DEF LoadFails
    <2>4. CASE CaptureIdentity
        BY <2>4 DEF CaptureIdentity
    <2>5. CASE CaptureFails
        BY <2>5 DEF CaptureFails
    <2>6. CASE Begin
        BY <2>6 DEF Begin
    <2>7. CASE ImportFails
        BY <2>7 DEF ImportFails
    <2>8. CASE NoClient
        BY <2>8 DEF NoClient
    <2>9. CASE MakeClient
        BY <2>9 DEF MakeClient
    <2>10. CASE SetupFails
        BY <2>10 DEF SetupFails
    <2>11. CASE Configure
        BY <2>11 DEF Configure
    <2>12. CASE StartWorker
        BY <2>12 DEF StartWorker, Awaits
    <2>13. CASE CancelledAtDiscover
        BY <2>13 DEF CancelledAtDiscover
    <2> QED
        BY <1>1, <2>1, <2>2, <2>3, <2>4, <2>5, <2>6, <2>7,
           <2>8, <2>9, <2>10, <2>11, <2>12, <2>13 DEF SetUp
<1>2. CASE WorkerGoesOn
    BY <1>2 DEF WorkerGoesOn, Awaits
<1>3. CASE ThreadEnds \/ WorkerEnds \/ Leave
    <2>1. CASE ThreadEnds
        <3>1. thread' \in BOOLEAN
            BY <2>1 DEF ThreadEnds
        <3>2. UNCHANGED <<step, code, shown, held, discovered, worker, cause>>
            BY <2>1 DEF ThreadEnds
        <3> QED BY <3>1, <3>2
    <2>2. CASE WorkerEnds
        BY <2>2 DEF WorkerEnds
    <2>3. CASE Leave
        BY <2>3 DEF Leave
    <2> QED BY <1>3, <2>1, <2>2, <2>3
<1>4. CASE TakeDown
    BY <1>4 DEF TakeDown, CancelWorker, AwaitWorker, CloseClient, CloseFails,
                StopServing
<1>5. CASE NewProcess
    BY <1>5 DEF NewProcess, Unread, Starting
<1>6. CASE Deploy
    BY <1>6 DEF Deploy
<1> QED BY <1>1, <1>2, <1>3, <1>4, <1>5, <1>6 DEF Next

----------------------------------------------------------------------------
(* Where the lifespan is, and what follows from it *)

LEMMA SetUpControl == ASSUME TypeOK, ControlInv, SetUp PROVE ControlInv'
<1> USE DEF TypeOK, ControlInv, ShownInv, HeldInv, TaskInv, Early, Middle,
            Held, Awaits, shown, held, task
<1>1. ASSUME NEW m \in Module, Import(m) \/ ReadSource(m) PROVE ControlInv'
    BY <1>1 DEF Import, ReadSource
<1>2. CASE LoadPlugin
    BY <1>2 DEF LoadPlugin, Starting
<1>3. CASE LoadFails
    BY <1>3 DEF LoadFails, Starting
<1>4. CASE CaptureIdentity
    BY <1>4 DEF CaptureIdentity, Starting
<1>5. CASE CaptureFails
    BY <1>5 DEF CaptureFails, Starting
<1>6. CASE Begin
    BY <1>6 DEF Begin
<1>7. CASE ImportFails
    BY <1>7 DEF ImportFails
<1>8. CASE NoClient
    BY <1>8 DEF NoClient
<1>9. CASE MakeClient
    BY <1>9 DEF MakeClient
<1>10. CASE SetupFails
    BY <1>10 DEF SetupFails
<1>11. CASE Configure
    BY <1>11 DEF Configure
<1>12. CASE StartWorker
    BY <1>12 DEF StartWorker
<1>13. CASE CancelledAtDiscover
    BY <1>13 DEF CancelledAtDiscover
<1> QED
    BY <1>1, <1>2, <1>3, <1>4, <1>5, <1>6, <1>7,
       <1>8, <1>9, <1>10, <1>11, <1>12, <1>13 DEF SetUp

LEMMA TakeDownControl == ASSUME TypeOK, ControlInv, TakeDown PROVE ControlInv'
<1> USE DEF TypeOK, ControlInv, ShownInv, HeldInv, TaskInv, Early, Middle,
            Held, Awaits, shown, held, task
<1>1. CASE CancelWorker
    BY <1>1 DEF CancelWorker
<1>2. CASE AwaitWorker
    BY <1>2 DEF AwaitWorker
<1>3. CASE CloseClient
    BY <1>3 DEF CloseClient
<1>4. CASE CloseFails
    BY <1>4 DEF CloseFails
<1>5. CASE StopServing
    BY <1>5 DEF StopServing
<1> QED BY <1>1, <1>2, <1>3, <1>4, <1>5 DEF TakeDown

LEMMA StepControl == ASSUME TypeOK, ControlInv, Next PROVE ControlInv'
<1> USE DEF TypeOK, ControlInv, ShownInv, HeldInv, TaskInv, Early, Middle,
            Held, Awaits, shown, held, task
<1>1. CASE SetUp
    BY <1>1, SetUpControl
<1>2. CASE WorkerGoesOn
    BY <1>2 DEF WorkerGoesOn
<1>3. CASE ThreadEnds
    BY <1>3 DEF ThreadEnds
<1>4. CASE WorkerEnds
    BY <1>4 DEF WorkerEnds
<1>5. CASE Leave
    BY <1>5 DEF Leave
<1>6. CASE TakeDown
    BY <1>6, TakeDownControl
<1>7. CASE NewProcess
    BY <1>7 DEF NewProcess, Starting
<1>8. CASE Deploy
    BY <1>8 DEF Deploy
<1> QED BY <1>1, <1>2, <1>3, <1>4, <1>5, <1>6, <1>7, <1>8 DEF Next

----------------------------------------------------------------------------
(* The theorems *)

LEMMA Inductive == Spec => []IInv
<1>1. ASSUME IInv, [Next]_vars PROVE IInv'
    <2>1. CASE Next
        BY <1>1, <2>1, StepTypeOK, StepCode, StepControl DEF IInv
    <2>2. CASE UNCHANGED vars
        BY <1>1, <2>2
           DEF IInv, vars, code, shown, held, task, TypeOK, CodeInv,
               ControlInv, ShownInv, HeldInv, TaskInv
    <2> QED BY <1>1, <2>1, <2>2
<1> QED BY InitIInv, <1>1, PTL DEF Spec

\* Every variable keeps its type.
THEOREM TypeCorrect == Spec => []TypeOK
<1>1. IInv => TypeOK
    BY DEF IInv
<1> QED BY <1>1, Inductive, PTL

\* No step of the worker finds its client or the Plugin closed.
THEOREM ClientLives == Spec => []ClientOutlivesWorker
<1>1. IInv => ClientOutlivesWorker
    BY DEF IInv, ControlInv, TaskInv, ClientOutlivesWorker
<1> QED BY <1>1, Inductive, PTL

\* Whoever asks /health learns of a Host that has its Plugin and its identity.
THEOREM HonestHealth == Spec => []HealthIsHonest
<1>1. ASSUME IInv PROVE HealthIsHonest
    <2> USE <1>1 DEF IInv, TypeOK, ControlInv, ShownInv, HeldInv, TaskInv,
                     Early, Middle, Held, Awaits, Starting
    <2>1. runtime.status = "ready" =>
              runtime.identity /\ (plugin = "open" \/ archive = "open")
        OBVIOUS
    <2>2. step = "over" =>
              /\ plugin # "open" /\ worker \in {"none", "ended"}
              /\ runtime.status # "ready" => archive # "open"
        OBVIOUS
    <2> QED BY <2>1, <2>2 DEF HealthIsHonest
<1> QED BY <1>1, Inductive, PTL

\* What the process says of its code is about the code it runs.
THEOREM IdentityOfThisProcess == Spec => []IdentityIsOfThisProcess
<1>1. IInv => IdentityIsOfThisProcess
    BY DEF IInv, CodeInv, IdentityIsOfThisProcess
<1> QED BY <1>1, Inductive, PTL

\* A Host shows a mirror exactly if it has one.
THEOREM MirrorShown == Spec => []MirrorIsAsShown
<1>1. ASSUME IInv PROVE MirrorIsAsShown
    BY <1>1 DEF IInv, ControlInv, TaskInv, MirrorIsAsShown, Awaits
<1> QED BY <1>1, Inductive, PTL

=============================================================================
