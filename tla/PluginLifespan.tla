-------------------------- MODULE PluginLifespan --------------------------
(***************************************************************************)
(* plugin_lifespan of server.py: what the Host sets up before it serves,   *)
(* and how it takes it down again, in a process that may be killed at any  *)
(* moment and started anew; and capture_identity of runtime_identity.py,   *)
(* which says what code that process runs, while somebody may be putting   *)
(* new code in place.                                                      *)
(*                                                                         *)
(* The Plugin must load and its identity must be captured, or the Host     *)
(* does not serve.  The archive is optional: nearly everything that goes   *)
(* wrong while it is set up leaves a Host that serves the Plugin alone.    *)
(* Three things are held while serving: the Plugin, the client of the      *)
(* archive service and the worker that synchronizes.                       *)
(*                                                                         *)
(* The lifespan may be cancelled where it awaits.  Of synchronize only the *)
(* awaits matter here: it is cancelled where it awaits, no exception ends  *)
(* it, and a thread it waited for goes on without it.                      *)
(***************************************************************************)
EXTENDS Naturals

CONSTANTS
    Module,         \* the modules whose source the identity names
    MaxVersion      \* bound: new code is put in place this often less one

ASSUME VersionAssumption == MaxVersion \in Nat \ {0}

VARIABLES
    disk,           \* the version of the source files
    loaded,         \* for every module, the version that was imported, or 0
    hashed,         \* for every module, the version that was hashed, or 0
    still,          \* history: no new code from the start to the identity
    step,           \* where plugin_lifespan is
    runtime,        \* what /health shows
    plugin,         \* the Plugin, as DramaPlugin.load opens and closes it
    archive,        \* the client of the archive service
    adapter,        \* what the lifespan hands to the tool handlers
    discovered,     \* the adapter lists the memory tools
    worker,         \* what the task that runs synchronize awaits
    thread,         \* a thread of it exports or stores
    cause           \* history: why the lifespan came to its end

code == <<disk, loaded, hashed, still>>
shown == <<runtime, adapter>>
held == <<plugin, archive>>
task == <<discovered, worker, thread>>
vars == <<step, code, shown, held, task, cause>>

\* synchronize is at one of these, or done for.
Awaits == {"discover", "thread", "drain", "sleep"}

----------------------------------------------------------------------------
Starting == [status |-> "starting", identity |-> FALSE, archive |-> "unset"]

Version == 1..MaxVersion
Unread == [m \in Module |-> 0]

Init ==
    /\ disk = 1 /\ loaded = Unread /\ hashed = Unread /\ still = TRUE
    /\ step = "load"
    /\ runtime = Starting
    /\ plugin = "none" /\ archive = "none" /\ adapter = "none"
    /\ discovered = FALSE /\ worker = "none" /\ thread = FALSE
    /\ cause = "none"

----------------------------------------------------------------------------
(* Setting up *)

LoadPlugin ==
    /\ step = "load"
    /\ plugin' = "open"
    /\ step' = "capture"
    /\ UNCHANGED <<code, shown, archive, task, cause>>

LoadFails ==
    /\ step = "load"
    /\ step' = "over"
    /\ UNCHANGED <<code, shown, held, task, cause>>

\* Modules import each other: most are there before capture_identity asks for
\* them, some only then.
Import(m) ==
    /\ step \in {"load", "capture"}
    /\ loaded[m] = 0
    /\ loaded' = [loaded EXCEPT ![m] = disk]
    /\ UNCHANGED <<step, disk, hashed, still, shown, held, task, cause>>

\* A slip: the source is hashed when the identity is asked for.
ReadSourceLive(m) ==
    /\ step \in {"capture", "serve"}
    /\ loaded[m] # 0
    /\ hashed' = [hashed EXCEPT ![m] = disk]
    /\ UNCHANGED <<step, disk, loaded, still, shown, held, task, cause>>

\* What is hashed is the file of an imported module, as it is by then.
ReadSource(m) ==
    /\ step = "capture"
    /\ loaded[m] # 0 /\ hashed[m] = 0
    /\ hashed' = [hashed EXCEPT ![m] = disk]
    /\ UNCHANGED <<step, disk, loaded, still, shown, held, task, cause>>

\* A slip: the status is set before the identity is there.
CaptureLate ==
    /\ step = "capture"
    /\ runtime' = [runtime EXCEPT !.status = "ready"]
    /\ adapter' = "plain"
    /\ step' = "begin"
    /\ UNCHANGED <<code, held, task, cause>>

\* Only what capture_identity returns makes the status ready.
CaptureIdentity ==
    /\ step = "capture"
    /\ \A m \in Module : hashed[m] # 0
    /\ runtime' = [runtime EXCEPT !.status = "ready", !.identity = TRUE]
    /\ adapter' = "plain"
    /\ step' = "begin"
    /\ UNCHANGED <<code, held, task, cause>>

\* A module cannot be imported or a file cannot be read.  This is before the
\* try statement: the Plugin is closed and the status stays what it was.
CaptureFails ==
    /\ step = "capture"
    /\ plugin' = "closed"
    /\ step' = "over"
    /\ UNCHANGED <<code, shown, archive, task, cause>>

\* Whether DRAMA_MCP_ARCHIVE_ENABLED is "true".
Begin ==
    /\ step = "begin"
    /\ step' \in {"client", "serve"}
    /\ UNCHANGED <<code, shown, held, task, cause>>

\* The archive's modules are imported outside of the inner try statement.
ImportFails ==
    /\ step = "begin"
    /\ step' = "finally" /\ cause' = "import"
    /\ UNCHANGED <<code, shown, held, task>>

\* from_environment finds no archive service configured.
NoClient ==
    /\ step = "client"
    /\ step' = "serve"
    /\ UNCHANGED <<code, shown, held, task, cause>>

MakeClient ==
    /\ step = "client"
    /\ archive' = "open"
    /\ step' = "configure"
    /\ UNCHANGED <<code, shown, plugin, task, cause>>

\* A slip: the Host shows what is wrong with the configuration of the archive.
SetupTells ==
    /\ step \in {"client", "configure"}
    /\ runtime' = [runtime EXCEPT !.archive = "ValueError"]
    /\ step' = "serve"
    /\ UNCHANGED <<code, adapter, held, task, cause>>

\* A slip: what is wrong with the configuration of the archive is raised.
SetupRaises ==
    /\ step \in {"client", "configure"}
    /\ step' = "finally"
    /\ UNCHANGED <<code, shown, held, task, cause>>

\* from_environment raises; or the outbox, its key or the source directory is
\* not as it should be, and the client that was made stays open.
SetupFails ==
    /\ step \in {"client", "configure"}
    /\ runtime' = [runtime EXCEPT !.archive = "PENDING_CONFIGURATION"]
    /\ step' = "serve"
    /\ UNCHANGED <<code, adapter, held, task, cause>>

Configure ==
    /\ step = "configure"
    /\ step' = "discover"
    /\ UNCHANGED <<code, shown, held, task, cause>>

\* A slip: there is a mirror only once the archive service has answered.
StartDiscovered ==
    /\ step = "discover"
    /\ discovered' \in BOOLEAN
    /\ worker' = IF discovered' THEN "sleep" ELSE "none"
    /\ adapter' = IF discovered' THEN "mirror" ELSE adapter
    /\ runtime' = [runtime EXCEPT !.archive = "OPTIONAL_SOURCE_MIRROR"]
    /\ step' = "serve"
    /\ UNCHANGED <<code, held, thread, cause>>

\* discover returns whether or not the archive service answered.
StartWorker ==
    /\ step = "discover"
    /\ discovered' \in BOOLEAN
    /\ worker' = "sleep"
    /\ adapter' = "mirror"
    /\ runtime' = [runtime EXCEPT !.archive = "OPTIONAL_SOURCE_MIRROR"]
    /\ step' = "serve"
    /\ UNCHANGED <<code, held, thread, cause>>

\* A cancellation is no Exception: it passes both discover and the clause for
\* archive troubles.
CancelledAtDiscover ==
    /\ step = "discover"
    /\ step' = "finally" /\ cause' = "told"
    /\ UNCHANGED <<code, shown, held, task>>

SetUp ==
    \/ LoadPlugin \/ LoadFails
    \/ \E m \in Module : Import(m) \/ ReadSource(m)
    \/ CaptureIdentity \/ CaptureFails
    \/ Begin \/ ImportFails
    \/ NoClient \/ MakeClient \/ SetupFails \/ Configure
    \/ StartWorker \/ CancelledAtDiscover

----------------------------------------------------------------------------
(* The worker *)

\* From await to await.  A service that is not discovered is asked again before
\* the next export; any trouble ends in sleep.
WorkerGoesOn ==
    /\ worker \in Awaits /\ ~thread
    /\ worker' \in IF worker = "sleep" /\ ~discovered THEN {"discover"}
                    ELSE {"thread", "drain", "sleep"}
    /\ thread' = (worker' = "thread")
    /\ discovered' \in IF worker = "discover" THEN BOOLEAN ELSE {discovered}
    /\ UNCHANGED <<code, step, shown, held, cause>>

ThreadEnds ==
    /\ thread
    /\ thread' = FALSE
    /\ UNCHANGED <<code, step, shown, held, discovered, worker, cause>>

\* The cancelled worker ends at its await.  A thread it was waiting for holds
\* only the outbox and the Ledger.
WorkerEnds ==
    /\ worker = "cancelled"
    /\ worker' = "ended"
    /\ UNCHANGED <<code, step, shown, held, discovered, thread, cause>>

----------------------------------------------------------------------------
(* Taking down *)

\* The server is told to end, or the lifespan is cancelled while it serves.
Leave ==
    /\ step = "serve"
    /\ step' = "finally" /\ cause' = "told"
    /\ UNCHANGED <<code, shown, held, task>>

\* A slip: the worker is told to end and not waited for.
CancelOnly ==
    /\ step = "finally"
    /\ worker' = IF worker \in Awaits THEN "cancelled" ELSE worker
    /\ step' = "close"
    /\ UNCHANGED <<code, shown, held, discovered, thread, cause>>

CancelWorker ==
    /\ step = "finally"
    /\ worker' = IF worker \in Awaits THEN "cancelled" ELSE worker
    /\ step' = IF worker \in Awaits THEN "await" ELSE "close"
    /\ UNCHANGED <<code, shown, held, discovered, thread, cause>>

\* Awaiting a task returns only when the task is done, even if the one who
\* awaits it is cancelled meanwhile; that cancellation is swallowed too.
AwaitWorker ==
    /\ step = "await"
    /\ worker = "ended"
    /\ step' = "close"
    /\ UNCHANGED <<code, shown, held, task, cause>>

CloseClient ==
    /\ step = "close"
    /\ archive' = IF archive = "open" THEN "closed" ELSE archive
    /\ step' = "stop"
    /\ UNCHANGED <<code, shown, plugin, task, cause>>

\* aclose raises or is cancelled: the status is not changed any more.
CloseFails ==
    /\ step = "close"
    /\ archive = "open"
    /\ plugin' = "closed"
    /\ step' = "over"
    /\ UNCHANGED <<code, shown, archive, task, cause>>

StopServing ==
    /\ step = "stop"
    /\ runtime' = [runtime EXCEPT !.status = "stopped"]
    /\ plugin' = "closed"
    /\ step' = "over"
    /\ UNCHANGED <<code, adapter, archive, task, cause>>

TakeDown ==
    CancelWorker \/ AwaitWorker \/ CloseClient \/ CloseFails \/ StopServing

\* The process is killed, or ended and is started again.
NewProcess ==
    /\ step # "load"
    /\ loaded' = Unread /\ hashed' = Unread /\ still' = TRUE
    /\ UNCHANGED disk
    /\ step' = "load"
    /\ runtime' = Starting
    /\ plugin' = "none" /\ archive' = "none" /\ adapter' = "none"
    /\ discovered' = FALSE /\ worker' = "none" /\ thread' = FALSE
    /\ cause' = "none"

\* New code is put in place, at any moment.
Deploy ==
    /\ disk < MaxVersion
    /\ disk' = disk + 1
    /\ still' = (still /\ step \notin {"load", "capture"})
    /\ UNCHANGED <<step, loaded, hashed, shown, held, task, cause>>

----------------------------------------------------------------------------
Next ==
    SetUp \/ WorkerGoesOn \/ ThreadEnds \/ WorkerEnds \/ Leave \/ TakeDown
    \/ NewProcess \/ Deploy

Spec == Init /\ [][Next]_vars

\* Setting up and taking down go on by themselves: what they await has a
\* timeout, and a cancelled task is scheduled.  Nobody needs to end the Host,
\* and nothing is assumed of what the worker awaits.
FairSpec == Spec /\ WF_vars(SetUp) /\ WF_vars(WorkerEnds) /\ WF_vars(TakeDown)

----------------------------------------------------------------------------
(* Properties *)

TypeOK ==
    /\ disk \in Version /\ still \in BOOLEAN
    /\ loaded \in [Module -> Version \cup {0}]
    /\ hashed \in [Module -> Version \cup {0}]
    /\ step \in {"load", "capture", "begin", "client", "configure", "discover",
                 "serve", "finally", "await", "close", "stop", "over"}
    /\ runtime \in [status : {"starting", "ready", "stopped"},
                    identity : BOOLEAN,
                    archive : {"unset", "OPTIONAL_SOURCE_MIRROR",
                               "PENDING_CONFIGURATION"}]
    /\ plugin \in {"none", "open", "closed"}
    /\ archive \in {"none", "open", "closed"}
    /\ adapter \in {"none", "plain", "mirror"}
    /\ discovered \in BOOLEAN
    /\ worker \in Awaits \cup {"none", "cancelled", "ended"}
    /\ thread \in BOOLEAN
    /\ cause \in {"none", "told", "import"}

\* As long as the worker can still take a step, the client it sends with is
\* open, and so is the Plugin (server.py:59-66).
ClientOutlivesWorker ==
    worker \in Awaits \cup {"cancelled"} => archive = "open" /\ plugin = "open"

\* /health answers 200 only with an identity and only of a Host that holds its
\* Plugin, except after a client that could not be closed; and a Host that is
\* over in any other way holds nothing (server.py:58-66, 84-87).
HealthIsHonest ==
    /\ runtime.status = "ready" =>
            runtime.identity /\ (plugin = "open" \/ archive = "open")
    /\ step = "over" =>
            /\ plugin # "open" /\ worker \in {"none", "ended"}
            /\ runtime.status # "ready" => archive # "open"

\* The identity names every module, and by the code that runs: new code put in
\* place later never shows up in it, nor does an older process's.  New code put
\* in place between the start and the identity may (runtime_identity.py:34-40).
IdentityIsOfThisProcess ==
    runtime.identity =>
        \A m \in Module :
            /\ loaded[m] # 0
            /\ loaded[m] <= hashed[m]
            /\ still => hashed[m] = loaded[m]

\* While the Host serves, what it shows, its worker and the adapter it serves
\* with agree on whether there is a mirror, whatever happened while it was set
\* up; and memory tools are listed only by the mirror (server.py:37-57).
MirrorIsAsShown ==
    /\ step = "serve" =>
        /\ (runtime.archive = "OPTIONAL_SOURCE_MIRROR") <=> (worker \in Awaits)
        /\ (adapter = "mirror") <=> (worker \in Awaits)
    /\ discovered => adapter = "mirror"

\* Whatever is wrong with the archive service, its configuration or the outbox,
\* a Host that has its Plugin and its identity comes to serve, unless it is
\* told to end before or the archive's code is not installed.  And a Host that
\* leaves comes to its end, even if a thread of the worker never does.
ServesWithoutArchive ==
    /\ (step = "begin") ~>
            (step \in {"serve", "load"} \/ cause \in {"told", "import"})
    /\ (step = "finally") ~> (step \in {"over", "load"})

=============================================================================
