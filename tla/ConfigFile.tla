----------------------------- MODULE ConfigFile -----------------------------
(***************************************************************************)
(* The grid config file (pkg/kgrid/grid/config.go, list.go) and the kgrid  *)
(* processes that share it.  Each process goes through the life of a grid: *)
(* addGridToConfig, one goroutine per cluster that records it, List and    *)
(* a goroutine per cluster that deletes what is listed, and at last        *)
(* removeGridFromConfig.                                                   *)
(*                                                                         *)
(* The mutex is a variable of the process.  Nothing orders the accesses of *)
(* two processes, List takes no lock at all, and WriteFile truncates the   *)
(* file before it writes.                                                  *)
(***************************************************************************)
EXTENDS Naturals

CONSTANTS
    Processes,   \* the kgrid processes
    Clusters,    \* the clusters they create
    Owner,       \* per cluster, the process whose grid it is in
    Main,        \* the goroutine of a process that runs its command
    Nobody,      \* no holder of a mutex
    Names,       \* grid names
    GridOf,      \* per process, the name of its grid
    NoFile,      \* there is no config file
    MaxFaults    \* bound on failing file operations, failing deletions and killed processes

ASSUME ConfigAssumption ==
    /\ Owner \in [Clusters -> Processes]
    /\ GridOf \in [Processes -> Names]
    /\ Main \notin Clusters
    /\ MaxFaults \in Nat

(* A goroutine: the main one of a process, or that of one of its clusters. *)
Goroutines == Processes \X ({Main} \cup Clusters)
Recorder(c) == <<Owner[c], c>>

ASSUME NobodyAssumption == Nobody \notin Goroutines

(* The content of the file: the names of the grids, and the clusters that  *)
(* are listed under each.  No name occurs twice, since a grid is only added *)
(* to a config without it.                                                 *)
Configs == [grids : SUBSET Names, clusters : SUBSET (Names \X Clusters)]
EmptyConfig == [grids |-> {}, clusters |-> {}]

ASSUME NoFileAssumption == NoFile \notin Configs

VARIABLES
    phase,       \* per process, what its command does
    at,          \* per goroutine, the next step of its access to the file
    lock,        \* per process, the holder of its mutex
    copy,        \* per goroutine, the config it is about to save
    file,        \* the config file, or NoFile
    failed,      \* per process, whether its command is going to fail
    alive,       \* the clusters that exist
    deleting,    \* the clusters that a goroutine of Delete is at work on
    undeleted,   \* history: the clusters whose deletion has failed
    faults,      \* what is left of MaxFaults
    stale,       \* history: the goroutines whose view another process has outdated
    interfered,  \* history: whether processes got in each other's way, or a save
                 \* ended half way
    kept         \* history: the entries that were saved and not removed again

access == <<at, lock, copy, stale>>
cloud == <<alive, deleting, undeleted>>
vars == <<phase, failed, access, file, cloud, faults, interfered, kept>>

Phases == {"add", "record", "delete", "wait", "remove", "exited", "killed"}
Steps == {"none", "lock", "load", "create", "truncate", "write", "unlock"}

Mine(p) == {c \in Clusters : Owner[c] = p}
Running(g) == phase[g[1]] \notin {"exited", "killed"}
Goto(g, step) == at' = [at EXCEPT ![g] = step]
Fault == faults > 0 /\ faults' = faults - 1

Init ==
    /\ phase = [p \in Processes |-> "add"]
    /\ at = [g \in Goroutines |-> IF g[2] = Main THEN "lock" ELSE "none"]
    /\ lock = [p \in Processes |-> Nobody]
    /\ copy = [g \in Goroutines |-> EmptyConfig]
    /\ file \in {NoFile, EmptyConfig}
    /\ failed = [p \in Processes |-> FALSE]
    /\ alive = {}
    /\ deleting = {}
    /\ undeleted = {}
    /\ faults = MaxFaults
    /\ stale = {}
    /\ interfered = FALSE
    /\ kept = EmptyConfig

----------------------------------------------------------------------------
(* lockConfig and the deferred unlockConfig.                               *)
lockConfig_NoMutex(g) ==
    /\ Running(g)
    /\ at[g] = "lock"
    /\ lock' = [lock EXCEPT ![g[1]] = g]
    /\ Goto(g, "load")
    /\ UNCHANGED <<phase, failed, copy, stale, file, cloud, faults, interfered, kept>>

lockConfig(g) ==
    /\ Running(g)
    /\ at[g] = "lock"
    /\ lock[g[1]] = Nobody
    /\ lock' = [lock EXCEPT ![g[1]] = g]
    /\ Goto(g, "load")
    /\ UNCHANGED <<phase, failed, copy, stale, file, cloud, faults, interfered, kept>>

unlockConfig(g) ==
    /\ Running(g)
    /\ at[g] = "unlock"
    /\ lock' = [lock EXCEPT ![g[1]] = Nobody]
    /\ copy' = [copy EXCEPT ![g] = EmptyConfig]
    /\ Goto(g, "none")
    /\ UNCHANGED <<phase, failed, stale, file, cloud, faults, interfered, kept>>

----------------------------------------------------------------------------
(* The file.  A goroutine of another process that has looked at it has an  *)
(* old view of it once it is written.                                      *)
Outdated(g) ==
    {h \in Goroutines : h[1] # g[1] /\ at[h] \in {"create", "truncate", "write"}}
Store(g, content) ==
    /\ file' = content
    /\ stale' = (stale \ {g}) \cup Outdated(g)
    /\ interfered' = (interfered \/ g \in stale)

(* Another process is between truncating the file and writing it.          *)
HalfWritten(g) == \E h \in Goroutines : h[1] # g[1] /\ Running(h) /\ at[h] = "write"

(* loadConfig: a file that is not there (os.Stat) is created, by List too; *)
(* a file that is there stays there, and is read.  What is then done with  *)
(* the loaded config is local, and part of the same step.                  *)
FindNoFile(g) ==
    /\ Running(g)
    /\ at[g] = "load"
    /\ file = NoFile
    /\ Goto(g, "create")
    /\ UNCHANGED <<phase, failed, lock, copy, stale, file, cloud, faults, interfered, kept>>

Loaded(g) == IF at[g] = "create" THEN EmptyConfig ELSE file
loadConfig(g) ==
    \/ /\ at[g] = "load"
       /\ file # NoFile
       /\ stale' = stale \ {g}
       /\ interfered' = (interfered \/ (phase[g[1]] = "delete" /\ HalfWritten(g)))
       /\ UNCHANGED file
    \/ /\ at[g] = "create"
       /\ Store(g, EmptyConfig)

Edit(g, config) == copy' = [copy EXCEPT ![g] = config] /\ Goto(g, "truncate")

(* saveConfig: WriteFile opens the file, which truncates it, and writes.   *)
Truncate(g) ==
    /\ Running(g)
    /\ at[g] = "truncate"
    /\ Store(g, EmptyConfig)
    /\ Goto(g, "write")
    /\ UNCHANGED <<phase, failed, lock, copy, cloud, faults, kept>>

(* What the process has been told to be in the file once the save returns. *)
KeptAfter(g) ==
    LET n == GridOf[g[1]] IN
    CASE phase[g[1]] = "add" -> [kept EXCEPT !.grids = @ \cup {n}]
      [] phase[g[1]] = "record" -> [kept EXCEPT !.clusters = @ \cup {<<n, g[2]>>}]
      [] phase[g[1]] = "remove" -> [grids    |-> kept.grids \ {n},
                                    clusters |-> {e \in kept.clusters : e[1] # n}]

Write(g) ==
    /\ Running(g)
    /\ at[g] = "write"
    /\ Store(g, copy[g])
    /\ kept' = KeptAfter(g)
    /\ Goto(g, "unlock")
    /\ UNCHANGED <<phase, failed, lock, copy, cloud, faults>>

(* A file operation fails, and a failed write leaves the file truncated.   *)
(* The error is returned through the deferred unlockConfig; List has taken *)
(* no lock, and ends the command.                                          *)
FileFails_NoUnlock(g) ==
    /\ Running(g)
    /\ at[g] \in {"load", "create", "truncate", "write"}
    /\ Fault
    /\ failed' = [failed EXCEPT ![g[1]] = TRUE]
    /\ phase' = IF phase[g[1]] = "delete" THEN [phase EXCEPT ![g[1]] = "exited"] ELSE phase
    /\ Goto(g, "none")
    /\ interfered' = (interfered \/ at[g] = "write")
    /\ stale' = stale \ {g}
    /\ UNCHANGED <<lock, copy, file, cloud, kept>>

FileFails(g) ==
    /\ Running(g)
    /\ at[g] \in {"load", "create", "truncate", "write"}
    /\ Fault
    /\ failed' = [failed EXCEPT ![g[1]] = TRUE]
    /\ phase' = IF phase[g[1]] = "delete" THEN [phase EXCEPT ![g[1]] = "exited"] ELSE phase
    /\ Goto(g, IF phase[g[1]] = "delete" THEN "none" ELSE "unlock")
    /\ interfered' = (interfered \/ at[g] = "write")
    /\ stale' = stale \ {g}
    /\ UNCHANGED <<lock, copy, file, cloud, kept>>

----------------------------------------------------------------------------
(* What the commands do with the file.                                     *)

(* addGridToConfig: a grid of that name is an error, and nothing is saved. *)
AddGrid(p) ==
    LET g == <<p, Main>> IN
    /\ phase[p] = "add"
    /\ loadConfig(g)
    /\ \/ /\ GridOf[p] \in Loaded(g).grids
          /\ failed' = [failed EXCEPT ![p] = TRUE]
          /\ Goto(g, "unlock")
          /\ UNCHANGED copy
       \/ /\ GridOf[p] \notin Loaded(g).grids
          /\ Edit(g, [Loaded(g) EXCEPT !.grids = @ \cup {GridOf[p]}])
          /\ UNCHANGED failed
    /\ UNCHANGED <<phase, lock, cloud, faults, kept>>

(* createNewEKSCluter appends the cluster to the grid of that name; if     *)
(* there is none, the config is saved as it is and that is no error.       *)
RecordCluster(c) ==
    LET p == Owner[c]
        g == Recorder(c)
    IN
    /\ phase[p] = "record"
    /\ loadConfig(g)
    /\ Edit(g, IF GridOf[p] \in Loaded(g).grids
               THEN [Loaded(g) EXCEPT !.clusters = @ \cup {<<GridOf[p], c>>}]
               ELSE Loaded(g))
    /\ UNCHANGED <<phase, failed, lock, cloud, faults, kept>>

(* Delete: List takes no lock; each cluster of the spec that is listed,    *)
(* under whatever grid, gets a goroutine that deletes it.                  *)
Delete(p) ==
    LET g == <<p, Main>> IN
    /\ phase[p] = "delete"
    /\ loadConfig(g)
    /\ deleting' = deleting \cup {c \in Mine(p) : \E n \in Names : <<n, c>> \in Loaded(g).clusters}
    /\ phase' = [phase EXCEPT ![p] = "wait"]
    /\ Goto(g, "none")
    /\ UNCHANGED <<failed, lock, copy, alive, undeleted, faults, kept>>

(* deleteCluster, and its error: it is printed, and that is all.           *)
DeleteCluster(c) ==
    /\ phase[Owner[c]] = "wait"
    /\ c \in deleting
    /\ deleting' = deleting \ {c}
    /\ alive' = alive \ {c}
    /\ UNCHANGED <<phase, failed, access, file, undeleted, faults, interfered, kept>>

DeleteClusterFails(c) ==
    /\ phase[Owner[c]] = "wait"
    /\ c \in deleting
    /\ Fault
    /\ deleting' = deleting \ {c}
    /\ undeleted' = undeleted \cup {c}
    /\ UNCHANGED <<phase, failed, access, file, alive, interfered, kept>>

(* wg.Wait: the grid's entry goes once every goroutine is done.            *)
WaitDeletions_None(p) ==
    /\ phase[p] = "wait"
    /\ phase' = [phase EXCEPT ![p] = "remove"]
    /\ Goto(<<p, Main>>, "lock")
    /\ UNCHANGED <<failed, lock, copy, stale, file, cloud, faults, interfered, kept>>

WaitDeletions(p) ==
    /\ phase[p] = "wait"
    /\ Mine(p) \cap deleting = {}
    /\ phase' = [phase EXCEPT ![p] = "remove"]
    /\ Goto(<<p, Main>>, "lock")
    /\ UNCHANGED <<failed, lock, copy, stale, file, cloud, faults, interfered, kept>>

removeGridFromConfig(p) ==
    LET g == <<p, Main>> IN
    /\ phase[p] = "remove"
    /\ loadConfig(g)
    /\ Edit(g, [grids    |-> Loaded(g).grids \ {GridOf[p]},
                clusters |-> {e \in Loaded(g).clusters : e[1] # GridOf[p]}])
    /\ UNCHANGED <<phase, failed, lock, cloud, faults, kept>>

----------------------------------------------------------------------------
(* What a process does next.                                               *)

(* addGridToConfig has returned: Create ends with its error or starts the  *)
(* goroutines, each of which records its cluster once it exists.           *)
StartClusters(p) ==
    /\ phase[p] = "add"
    /\ at[<<p, Main>>] = "none"
    /\ IF failed[p]
       THEN /\ phase' = [phase EXCEPT ![p] = "exited"]
            /\ UNCHANGED <<at, alive>>
       ELSE /\ phase' = [phase EXCEPT ![p] = "record"]
            /\ alive' = alive \cup Mine(p)
            /\ at' = [g \in Goroutines |-> IF g[1] = p /\ g[2] \in Mine(p) THEN "lock" ELSE at[g]]
    /\ UNCHANGED <<failed, lock, copy, stale, file, deleting, undeleted, faults, interfered, kept>>

(* All clusters have reported: Create returns.                             *)
CreateReturns(p) ==
    /\ phase[p] = "record"
    /\ \A c \in Mine(p) : at[Recorder(c)] = "none"
    /\ IF failed[p]
       THEN phase' = [phase EXCEPT ![p] = "exited"] /\ UNCHANGED at
       ELSE phase' = [phase EXCEPT ![p] = "delete"] /\ Goto(<<p, Main>>, "load")
    /\ UNCHANGED <<failed, lock, copy, stale, file, cloud, faults, interfered, kept>>

(* removeGridFromConfig has returned.                                      *)
Exit(p) ==
    /\ phase[p] = "remove"
    /\ at[<<p, Main>>] = "none"
    /\ phase' = [phase EXCEPT ![p] = "exited"]
    /\ UNCHANGED <<failed, access, file, cloud, faults, interfered, kept>>

(* The process is killed, in the middle of a save perhaps.                 *)
Kill(p) ==
    /\ phase[p] \notin {"exited", "killed"}
    /\ Fault
    /\ phase' = [phase EXCEPT ![p] = "killed"]
    /\ interfered' = (interfered \/ \E g \in Goroutines : g[1] = p /\ at[g] = "write")
    /\ UNCHANGED <<failed, access, file, cloud, kept>>

----------------------------------------------------------------------------
Access(g) == FindNoFile(g) \/ Truncate(g) \/ Write(g) \/ unlockConfig(g)

Command(p) ==
    \/ AddGrid(p) \/ Delete(p) \/ WaitDeletions(p) \/ removeGridFromConfig(p)
    \/ StartClusters(p) \/ CreateReturns(p) \/ Exit(p)

Next ==
    \/ \E g \in Goroutines : lockConfig(g) \/ Access(g) \/ FileFails(g)
    \/ \E c \in Clusters : RecordCluster(c) \/ DeleteCluster(c) \/ DeleteClusterFails(c)
    \/ \E p \in Processes : Command(p) \/ Kill(p)

Spec == Init /\ [][Next]_vars

(* Goroutines run, file operations and deletions return, and Go's mutex    *)
(* hands over to a goroutine that has waited.                              *)
Fairness ==
    /\ \A g \in Goroutines : SF_vars(lockConfig(g)) /\ WF_vars(Access(g))
    /\ \A c \in Clusters : WF_vars(RecordCluster(c)) /\ WF_vars(DeleteCluster(c))
    /\ \A p \in Processes : WF_vars(Command(p))

FairSpec == Spec /\ Fairness

----------------------------------------------------------------------------
(* Properties.                                                             *)

(* Every variable holds what the code can put there; a mutex is held by a  *)
(* goroutine of its process that is at work on the file, and by no other.  *)
AtWork(g) == at[g] \notin {"none", "lock"}
TypeOK ==
    /\ phase \in [Processes -> Phases]
    /\ at \in [Goroutines -> Steps]
    /\ lock \in [Processes -> Goroutines \cup {Nobody}]
    /\ \A p \in Processes : lock[p] = Nobody \/ (lock[p][1] = p /\ AtWork(lock[p]))
    /\ copy \in [Goroutines -> Configs]
    /\ file \in Configs \cup {NoFile}
    /\ failed \in [Processes -> BOOLEAN]
    /\ alive \subseteq Clusters
    /\ deleting \subseteq Clusters
    /\ undeleted \subseteq Clusters
    /\ faults \in 0..MaxFaults
    /\ stale \subseteq Goroutines
    /\ interfered \in BOOLEAN
    /\ kept \in Configs

(* However the goroutines of a process interleave, and whatever another    *)
(* process did before or after, an entry that was saved stays in the file  *)
(* until its grid is removed (the file is short of it only while it is     *)
(* being written), unless a process saved a copy that another one had      *)
(* outdated, or a save ended half way.                                     *)
Writing == \E g \in Goroutines : at[g] = "write"
EntriesKept ==
    ~interfered /\ ~Writing =>
        file = NoFile \/ (kept.grids \subseteq file.grids /\ kept.clusters \subseteq file.clusters)

(* A cluster is forgotten only when its deletion was tried and has failed: *)
(* once Create has succeeded, a cluster that exists is in the file or is   *)
(* one that Delete could not delete (the error is printed, the grid's      *)
(* entry goes, and Delete returns nil) -- with the same exceptions, since  *)
(* Delete trusts a List that took no lock.                                 *)
Listed(c) == file # NoFile /\ <<GridOf[Owner[c]], c>> \in file.clusters
NoOrphans ==
    ~interfered /\ ~Writing =>
        \A c \in alive :
            /\ phase[Owner[c]] \in {"delete", "wait", "remove", "exited"}
            /\ ~failed[Owner[c]]
            => Listed(c) \/ c \in undeleted

(* Every process that is not killed ends: whatever fails while the mutex   *)
(* is held, the goroutines that wait for it get it.                        *)
ProcessesEnd == \A p \in Processes : <>(phase[p] \in {"exited", "killed"})
=============================================================================
