------------------------------ MODULE Startup ------------------------------
(***************************************************************************)
(* The life of a server process around its DiskStorage: main.ts, the       *)
(* InitTrackerService, and the health service (src/src/healthz) that tells *)
(* a probe whether to send clients.                                        *)
(*                                                                         *)
(* main.ts opens the gRPC port first and initialises the modules after it: *)
(* requests, and probes, come before onModuleInit has begun.  What happens *)
(* before the port is open is seen by nobody, so a process begins with its *)
(* port open and nothing tracked.  A signal makes it wait before it stops, *)
(* and it serves meanwhile.                                                *)
(***************************************************************************)
EXTENDS DiskStorage

VARIABLES
  initializedModules,  \* InitTrackerService: has a module finished, by its name
  shutdownSignal       \* HealthzController: a signal to stop has been received

startupVars == <<initializedModules, shutdownSignal>>
allVars == <<vars, startupVars>>

Module == "DiskStorage"   \* DiskStorage.name, the one module that is tracked

\* The first process was started on an empty directory and has initialised.
StartupInit ==
  /\ Init
  /\ initializedModules = [m \in {Module} |-> TRUE]
  /\ shutdownSignal = FALSE

-----------------------------------------------------------------------------
Tracked == Module \in DOMAIN initializedModules

Initialising == Tracked /\ ~initializedModules[Module]

\* app.init: onModuleInit of DiskStorage runs up to its first await.
ModuleInit ==
  /\ ~Tracked
  /\ initializedModules' = [m \in {Module} |-> FALSE]
  /\ UNCHANGED <<vars, shutdownSignal>>

IndexBuiltUnawaited == TRUE   \* mutant: onModuleInit does not await indexHddFiles

\* indexHddFiles has passed every name.
IndexBuilt == indexed = Key /\ scan = NoScan

\* mutant: the names of the module differ
FinishedElsewhere == ("MemoryStorage" :> TRUE) @@ initializedModules

\* trackModuleFinished(DiskStorage.name)
Finished == (Module :> TRUE) @@ initializedModules

ModuleFinished ==
  /\ Initialising
  /\ IndexBuilt
  /\ initializedModules' = Finished
  /\ UNCHANGED <<vars, shutdownSignal>>

\* beforeApplicationShutdown; a signal is one of the MaxCrash deaths.
Signal ==
  /\ crashes < MaxCrash
  /\ shutdownSignal' = TRUE
  /\ UNCHANGED <<vars, initializedModules>>

NewProcess ==
  /\ initializedModules' = [m \in {} |-> FALSE]
  /\ shutdownSignal' = FALSE

\* The 30 seconds are over: the application closes, whatever is still in flight.
Close == shutdownSignal /\ Restart /\ NewProcess

-----------------------------------------------------------------------------
allModulesInitFinished == \A m \in DOMAIN initializedModules : initializedModules[m]

(* What check() answers.  Before trackModuleInit has been called there is  *)
(* no value in the record, and `every` is true of it.                      *)
Serving == ~shutdownSignal /\ allModulesInitFinished

StartupNext ==
  \/ ModuleInit \/ ModuleFinished \/ Signal \/ Close
  \/ Requests /\ UNCHANGED startupVars
  \/ Work /\ UNCHANGED startupVars
  \/ Initialising /\ Indexing /\ UNCHANGED startupVars
  \/ Death /\ NewProcess

(* main.ts goes on to its end and indexing with it; a process that was     *)
(* told to stop stops.                                                     *)
StartupSpec ==
  /\ StartupInit /\ [][StartupNext]_allVars
  /\ WorkFairness
  /\ WF_allVars(ModuleInit) /\ WF_allVars(ModuleFinished)
  /\ WF_allVars(Close) /\ WF_allVars(Exit /\ NewProcess)
  /\ \A k \in Key : WF_allVars(Initialising /\ IndexStat(k) /\ UNCHANGED startupVars)
  /\ WF_allVars(Initialising /\ IndexFile /\ UNCHANGED startupVars)

-----------------------------------------------------------------------------
(* Once DiskStorage is being tracked, SERVING tells the truth about the    *)
(* index: every settled file of the disk can be downloaded, although       *)
(* requests are served while the index is built and files come and go      *)
(* meanwhile (onModuleInit, check).                                        *)
ServingIsIndexed == Serving /\ Tracked => \A k \in Key : KnownOrRefused(k)

(* A process that has been started answers SERVING in the end with its     *)
(* module finished, whatever it finds on the disk and serves meanwhile,    *)
(* unless it is told to stop; when it dies, so does the next one.          *)
ServingReached == ~Tracked ~> (Serving /\ Tracked) \/ shutdownSignal
=============================================================================
