-------------------------- MODULE ConfigFile_proofs --------------------------
(***************************************************************************)
(* Proofs about ConfigFile, for any number of processes and clusters: the  *)
(* type invariant with the mutexes, and what the config file keeps as long *)
(* as processes do not get in each other's way.                            *)
(***************************************************************************)
EXTENDS ConfigFile, TLAPS

----------------------------------------------------------------------------
(* The inductive invariant, by parts.                                      *)

Types ==
    /\ phase \in [Processes -> Phases]
    /\ at \in [Goroutines -> Steps]
    /\ lock \in [Processes -> Goroutines \cup {Nobody}]
    /\ copy \in [Goroutines -> Configs]
    /\ file \in Configs \cup {NoFile}
    /\ failed \in [Processes -> BOOLEAN]
    /\ alive \subseteq Clusters
    /\ deleting \subseteq Clusters
    /\ undeleted \subseteq Clusters
    /\ faults \in 0..MaxFaults
    /\ stale \subseteq Goroutines
    /\ interfered \in BOOLEAN
    /\ kept \in Configs

(* Which goroutines of a process are at work in which phase, and that the  *)
(* one at work holds the mutex, but for List.                              *)
WorkInv ==
    /\ \A g \in Goroutines : g[2] # Main /\ at[g] # "none" =>
         phase[g[1]] \in {"record", "killed"} /\ Owner[g[2]] = g[1]
    /\ \A p \in Processes : phase[p] \in {"record", "wait", "exited"} => at[<<p, Main>>] = "none"
    /\ \A p \in Processes : phase[p] = "delete" =>
         at[<<p, Main>>] \in {"load", "create"} /\ lock[p] = Nobody
    /\ \A p \in Processes : lock[p] = Nobody \/ (lock[p][1] = p /\ AtWork(lock[p]))
    /\ \A g \in Goroutines : AtWork(g) /\ phase[g[1]] \notin {"delete", "killed"} =>
         lock[g[1]] = g

(* A stale writer is bound to do harm, or to fail half way.                *)
Writer(g) == Running(g) /\ at[g] = "write"
Doomed == interfered \/ \E h \in Goroutines : Writer(h) /\ h \in stale

Within(c, d) == c.grids \subseteq d.grids /\ c.clusters \subseteq d.clusters

(* A copy that may be saved: it has what is to be kept, and a grid that it *)
(* adds is new.                                                            *)
Good(g) ==
    /\ Within(KeptAfter(g), copy[g])
    /\ phase[g[1]] = "add" => GridOf[g[1]] \notin kept.grids

DataInv ==
    /\ \A g \in Goroutines : Writer(g) => file # NoFile
    /\ \A g \in Goroutines : Running(g) /\ at[g] = "create" /\ g \notin stale => file = NoFile
    /\ ~Doomed =>
         /\ \A g, h \in Goroutines : Writer(g) /\ Writer(h) => g = h
         /\ \A g \in Goroutines : Writer(g) => Good(g)
         /\ (\A h \in Goroutines : ~Writer(h)) =>
              /\ IF file = NoFile THEN kept = EmptyConfig ELSE Within(kept, file)
              /\ \A g \in Goroutines :
                   Running(g) /\ at[g] = "truncate" /\ g \notin stale => Good(g)

(* A process owns the name of its grid from the save that adds it to the   *)
(* one that removes it, and the entry of each cluster that it has recorded. *)
Holds(p) ==
    \/ phase[p] \in {"record", "delete", "wait"}
    \/ phase[p] = "add" /\ at[<<p, Main>>] \in {"none", "unlock"} /\ ~failed[p]
    \/ phase[p] = "remove" /\ at[<<p, Main>>] \in {"lock", "load", "create", "truncate", "write"}

Recorded(c) ==
    \/ phase[Owner[c]] = "record" /\ at[Recorder(c)] \in {"none", "unlock"} /\ ~failed[Owner[c]]
    \/ phase[Owner[c]] \in {"delete", "wait"}

HoldInv ==
    ~Doomed =>
        /\ \A p \in Processes : Holds(p) => GridOf[p] \in kept.grids
        /\ \A p, q \in Processes : Holds(p) /\ Holds(q) /\ GridOf[p] = GridOf[q] => p = q
        /\ \A c \in Clusters : Recorded(c) => <<GridOf[Owner[c]], c>> \in kept.clusters

(* A cluster that is left when the deletions are over has failed to go.    *)
Over(p) == phase[p] = "remove" \/ (phase[p] = "exited" /\ ~failed[p])
OrphanInv ==
    ~interfered =>
        \A c \in alive :
            /\ phase[Owner[c]] = "wait" => c \in deleting \cup undeleted
            /\ Over(Owner[c]) => c \in undeleted

IInv == Types /\ WorkInv /\ DataInv /\ HoldInv /\ OrphanInv

----------------------------------------------------------------------------
(* Facts about goroutines and configs.                                     *)

LEMMA GoroutineFacts ==
    /\ \A g \in Goroutines : g[1] \in Processes /\ g[2] \in {Main} \cup Clusters
                             /\ g = <<g[1], g[2]>>
    /\ \A p \in Processes : <<p, Main>> \in Goroutines
    /\ \A c \in Clusters : Recorder(c) \in Goroutines /\ Owner[c] \in Processes /\ c # Main
    /\ \A p \in Processes : GridOf[p] \in Names
BY ConfigAssumption DEF Goroutines, Recorder

LEMMA ConfigFacts ==
    /\ EmptyConfig \in Configs /\ EmptyConfig # NoFile
    /\ \A c \in Configs : c # NoFile
    /\ \A c \in Configs : Within(EmptyConfig, c) /\ Within(c, c)
BY NoFileAssumption DEF EmptyConfig, Configs, Within

(* One goroutine of a process is at work at a time.                        *)
LEMMA MutEx ==
    ASSUME WorkInv, NEW g \in Goroutines, NEW h \in Goroutines,
           Running(g), AtWork(g), AtWork(h), g[1] = h[1]
    PROVE  g = h
<1>1. CASE phase[g[1]] = "delete"
  <2>1. g[2] = Main /\ h[2] = Main
    BY <1>1 DEF WorkInv, AtWork
  <2> QED
    BY <2>1, GoroutineFacts
<1>2. CASE phase[g[1]] # "delete"
  BY <1>2 DEF WorkInv, Running
<1> QED
  BY <1>1, <1>2

(* What a save is to keep, by what it is for.                              *)
LEMMA KeptFacts ==
    ASSUME Types, NEW g \in Goroutines, phase[g[1]] \in {"add", "record", "remove"},
           phase[g[1]] = "record" => g[2] \in Clusters
    PROVE  /\ KeptAfter(g) \in Configs
           /\ phase[g[1]] = "add" =>
                /\ KeptAfter(g).grids = kept.grids \cup {GridOf[g[1]]}
                /\ KeptAfter(g).clusters = kept.clusters
           /\ phase[g[1]] = "record" =>
                /\ KeptAfter(g).grids = kept.grids
                /\ KeptAfter(g).clusters = kept.clusters \cup {<<GridOf[g[1]], g[2]>>}
           /\ phase[g[1]] = "remove" =>
                /\ KeptAfter(g).grids = kept.grids \ {GridOf[g[1]]}
                /\ KeptAfter(g).clusters = {e \in kept.clusters : e[1] # GridOf[g[1]]}
<1>1. kept \in Configs /\ GridOf[g[1]] \in Names
  BY GoroutineFacts DEF Types
<1>2. CASE phase[g[1]] = "add"
  BY <1>1, <1>2 DEF KeptAfter, Configs
<1>3. CASE phase[g[1]] = "record"
  BY <1>1, <1>3 DEF KeptAfter, Configs
<1>4. CASE phase[g[1]] = "remove"
  BY <1>1, <1>4 DEF KeptAfter, Configs
<1> QED
  BY <1>2, <1>3, <1>4

(* A goroutine that edits the file is one of a command that saves it.      *)
LEMMA Savers ==
    ASSUME Types, WorkInv, NEW g \in Goroutines, Running(g), AtWork(g), phase[g[1]] # "delete"
    PROVE  /\ phase[g[1]] \in {"add", "record", "remove"}
           /\ phase[g[1]] = "record" => g[2] \in Clusters
           /\ phase[g[1]] \in {"add", "remove"} => g = <<g[1], Main>>
           /\ g[2] # Main => Owner[g[2]] = g[1]
           /\ lock[g[1]] = g
<1>1. phase[g[1]] \in Phases /\ g[2] \in {Main} \cup Clusters /\ g = <<g[1], g[2]>>
  BY GoroutineFacts DEF Types
<1>2. phase[g[1]] # "exited" /\ phase[g[1]] # "killed"
  BY DEF Running
<1>3. at[g] # "none"
  BY DEF AtWork
<1>4. phase[g[1]] \in {"add", "record", "remove"}
  <2>1. phase[g[1]] # "wait"
    <3>1. g[2] # Main => phase[g[1]] \in {"record", "killed"}
      BY <1>3 DEF WorkInv
    <3>2. g[1] \in Processes /\ (phase[g[1]] = "wait" => at[<<g[1], Main>>] = "none")
      BY GoroutineFacts DEF WorkInv
    <3> QED
      BY <1>1, <1>3, <3>1, <3>2
  <2> QED
    BY <1>1, <1>2, <2>1 DEF Phases
<1>5. ASSUME phase[g[1]] = "record" PROVE g[2] # Main
  <2>1. at[<<g[1], Main>>] = "none" /\ g[1] \in Processes
    BY <1>5, GoroutineFacts DEF WorkInv
  <2> QED
    BY <1>1, <1>3, <2>1
<1>6. g[2] # Main => phase[g[1]] = "record" /\ Owner[g[2]] = g[1]
  BY <1>2, <1>3 DEF WorkInv
<1>7. lock[g[1]] = g
  BY <1>2 DEF WorkInv
<1> QED
  BY <1>1, <1>4, <1>5, <1>6, <1>7

----------------------------------------------------------------------------
(* What the steps have in common.                                          *)

(* A goroutine goes on with its access to the file.                        *)
LEMMA WorkGoesOn ==
    ASSUME Types, WorkInv, NEW g \in Goroutines, NEW step \in Steps \ {"none", "lock"},
           Running(g), AtWork(g), Goto(g, step), UNCHANGED <<phase, lock>>,
           phase[g[1]] = "delete" => step = "create"
    PROVE  WorkInv' /\ at' \in [Goroutines -> Steps]
<1>1. /\ at'[g] = step /\ \A h \in Goroutines \ {g} : at'[h] = at[h]
      /\ at' \in [Goroutines -> Steps]
  BY DEF Goto, Types
<1>2. \A h \in Goroutines : AtWork(h)' <=> AtWork(h)
  BY <1>1 DEF AtWork
<1>3. \A h \in Goroutines : at'[h] = "none" <=> at[h] = "none"
  BY <1>1 DEF AtWork
<1>4. \A p \in Processes : <<p, Main>> \in Goroutines
  BY GoroutineFacts
<1>5. \A p \in Processes : lock[p] = Nobody \/ lock[p] \in Goroutines
  BY DEF Types
<1>6. \A p \in Processes : phase[p] = "delete" => at'[<<p, Main>>] \in {"load", "create"}
  <2> SUFFICES ASSUME NEW p \in Processes, phase[p] = "delete"
               PROVE  at'[<<p, Main>>] \in {"load", "create"}
    OBVIOUS
  <2>1. CASE g = <<p, Main>>
    BY <1>1, <2>1
  <2>2. CASE g # <<p, Main>>
    BY <1>1, <1>4, <2>2 DEF WorkInv
  <2> QED
    BY <2>1, <2>2
<1> QED
  BY <1>1, <1>2, <1>3, <1>4, <1>5, <1>6 DEF WorkInv

(* The file is left alone, nobody starts to edit or write it, and a writer *)
(* that stops has done harm.                                               *)
LEMMA DataKept ==
    ASSUME Types, WorkInv, DataInv, UNCHANGED <<file, kept>>, interfered => interfered',
           \A g \in Goroutines : Running(g)' /\ at'[g] \in {"truncate", "write"} =>
              /\ Running(g) /\ at[g] = at'[g] /\ copy'[g] = copy[g]
              /\ phase'[g[1]] = phase[g[1]],
           \A g \in Goroutines : Running(g)' /\ at'[g] = "create" =>
              (Running(g) /\ at[g] = "create") \/ file = NoFile,
           \A g \in Goroutines : Writer(g) => interfered' \/ Writer(g)',
           \A g \in stale : Running(g)' /\ at'[g] \in {"create", "truncate", "write"}
                           => g \in stale'
    PROVE  DataInv' /\ (Doomed => Doomed')
<1>1. Doomed => Doomed'
  BY DEF Doomed, Writer, Types
<1>2. \A g \in Goroutines : Writer(g)' => Writer(g)
  BY DEF Writer
<1>3. ASSUME NEW g \in Goroutines, Running(g)', at'[g] \in {"truncate", "write"}, Good(g)
      PROVE  Good(g)'
  BY <1>3 DEF Good, KeptAfter
<1>4. \A g \in Goroutines : Writer(g)' => file' # NoFile
  BY <1>2 DEF DataInv
<1>5. \A g \in Goroutines : Running(g)' /\ at'[g] = "create" /\ g \notin stale' => file' = NoFile
  BY DEF DataInv
<1>6. ASSUME ~Doomed'
      PROVE  /\ \A g, h \in Goroutines : Writer(g)' /\ Writer(h)' => g = h
             /\ \A g \in Goroutines : Writer(g)' => Good(g)'
             /\ (\A h \in Goroutines : ~Writer(h)') =>
                  /\ IF file' = NoFile THEN kept' = EmptyConfig ELSE Within(kept', file')
                  /\ \A g \in Goroutines :
                       Running(g)' /\ at'[g] = "truncate" /\ g \notin stale' => Good(g)'
  <2>1. ~Doomed /\ ~interfered'
    BY <1>1, <1>6 DEF Doomed
  <2>2. \A g, h \in Goroutines : Writer(g)' /\ Writer(h)' => g = h
    BY <1>2, <2>1 DEF DataInv
  <2>3. ASSUME NEW g \in Goroutines, Writer(g)' PROVE Good(g)'
    <3>1. Good(g)
      BY <1>2, <2>1, <2>3 DEF DataInv
    <3> QED
      BY <1>3, <2>3, <3>1 DEF Writer
  <2>4. ASSUME \A h \in Goroutines : ~Writer(h)'
        PROVE  /\ IF file' = NoFile THEN kept' = EmptyConfig ELSE Within(kept', file')
               /\ \A g \in Goroutines :
                    Running(g)' /\ at'[g] = "truncate" /\ g \notin stale' => Good(g)'
    <3>1. \A h \in Goroutines : ~Writer(h)
      BY <2>1, <2>4
    <3>2. IF file = NoFile THEN kept = EmptyConfig ELSE Within(kept, file)
      BY <2>1, <3>1 DEF DataInv
    <3>3. ASSUME NEW g \in Goroutines, Running(g)', at'[g] = "truncate", g \notin stale'
          PROVE  Good(g)'
      <4>1. Running(g) /\ at[g] = "truncate" /\ g \notin stale
        BY <3>3
      <4>2. Good(g)
        BY <2>1, <3>1, <4>1 DEF DataInv
      <4> QED
        BY <1>3, <3>3, <4>2
    <3> QED
      BY <3>2, <3>3
  <2> QED
    BY <2>2, <2>3, <2>4
<1> QED
  BY <1>1, <1>4, <1>5, <1>6 DEF DataInv

(* Nothing new is owned or recorded.                                       *)
LEMMA HoldKept ==
    ASSUME HoldInv, UNCHANGED kept, Doomed => Doomed',
           \A p \in Processes : Holds(p)' => Holds(p),
           \A c \in Clusters : Recorded(c)' => Recorded(c)
    PROVE  HoldInv'
BY DEF HoldInv

(* No process comes to the end of its deletions, and none starts to wait.  *)
LEMMA OrphanKept ==
    ASSUME Types, OrphanInv, UNCHANGED cloud, interfered => interfered',
           \A p \in Processes : phase'[p] = "wait" => phase[p] = "wait",
           \A p \in Processes : Over(p)' => Over(p)
    PROVE  OrphanInv'
BY GoroutineFacts DEF OrphanInv, Types, cloud

----------------------------------------------------------------------------
(* The steps that leave the file alone.                                    *)

LEMMA LockKeeps ==
    ASSUME IInv, NEW g \in Goroutines, lockConfig(g)
    PROVE  IInv'
<1> USE GoroutineFacts DEF IInv, cloud
<1>1. /\ Running(g) /\ at[g] = "lock" /\ lock[g[1]] = Nobody
      /\ at' = [at EXCEPT ![g] = "load"] /\ lock' = [lock EXCEPT ![g[1]] = g]
      /\ UNCHANGED <<phase, failed, copy, stale, file, cloud, faults, interfered, kept>>
  BY DEF lockConfig, Goto
<1>2. Types'
  BY <1>1 DEF Types, Steps
<1>3. /\ at'[g] = "load" /\ \A h \in Goroutines \ {g} : at'[h] = at[h]
      /\ lock'[g[1]] = g /\ \A p \in Processes \ {g[1]} : lock'[p] = lock[p]
  BY <1>1 DEF Types
<1>4. WorkInv'
  <2>1. phase[g[1]] \notin {"delete", "exited", "killed"} /\ (phase[g[1]] = "record" => g[2] # Main)
    BY <1>1 DEF WorkInv, Running
  <2>2. \A h \in Goroutines : AtWork(h) /\ h[1] = g[1] => FALSE
    BY <1>1, <2>1, NobodyAssumption DEF WorkInv
  <2>3. \A h \in Goroutines \ {g} : AtWork(h)' <=> AtWork(h)
    BY <1>3 DEF AtWork
  <2>4. AtWork(g)'
    BY <1>3 DEF AtWork
  <2>5. \A h \in Goroutines : h[2] # Main /\ at'[h] # "none" =>
          phase'[h[1]] \in {"record", "killed"} /\ Owner[h[2]] = h[1]
    BY <1>1, <1>3 DEF WorkInv
  <2>6. \A p \in Processes : phase'[p] \in {"record", "wait", "exited"} => at'[<<p, Main>>] = "none"
    BY <1>1, <1>3, <2>1 DEF WorkInv
  <2>7. \A p \in Processes : phase'[p] = "delete" =>
          at'[<<p, Main>>] \in {"load", "create"} /\ lock'[p] = Nobody
    BY <1>1, <1>3, <2>1 DEF WorkInv
  <2>8. ASSUME NEW p \in Processes
        PROVE  lock'[p] = Nobody \/ (lock'[p][1] = p /\ AtWork(lock[p])')
    <3>1. CASE p = g[1]
      BY <1>3, <2>4, <3>1 DEF AtWork
    <3>2. CASE p # g[1]
      <4>1. lock'[p] = lock[p] /\ lock[p] \in Goroutines \cup {Nobody}
        BY <1>3, <3>2 DEF Types
      <4>2. lock[p] = Nobody \/ (lock[p][1] = p /\ AtWork(lock[p]) /\ lock[p] # g)
        BY <3>2 DEF WorkInv
      <4> QED
        BY <1>3, <4>1, <4>2 DEF AtWork
    <3> QED
      BY <3>1, <3>2
  <2>9. \A h \in Goroutines : AtWork(h)' /\ phase'[h[1]] \notin {"delete", "killed"} =>
          lock'[h[1]] = h
    BY <1>1, <1>3, <2>2, <2>3 DEF WorkInv
  <2> QED
    BY <2>5, <2>6, <2>7, <2>8, <2>9 DEF WorkInv
<1>5. DataInv' /\ (Doomed => Doomed')
  BY <1>1, <1>3, DataKept DEF Writer, Running
<1>6. HoldInv'
  BY <1>1, <1>3, <1>5, HoldKept DEF Holds, Recorded
<1>7. OrphanInv'
  BY <1>1, OrphanKept DEF Over
<1> QED
  BY <1>2, <1>4, <1>5, <1>6, <1>7

LEMMA UnlockKeeps ==
    ASSUME IInv, NEW g \in Goroutines, unlockConfig(g)
    PROVE  IInv'
<1> USE GoroutineFacts DEF IInv, cloud
<1>1. /\ Running(g) /\ at[g] = "unlock"
      /\ at' = [at EXCEPT ![g] = "none"] /\ lock' = [lock EXCEPT ![g[1]] = Nobody]
      /\ copy' = [copy EXCEPT ![g] = EmptyConfig]
      /\ UNCHANGED <<phase, failed, stale, file, cloud, faults, interfered, kept>>
  BY DEF unlockConfig, Goto
<1>2. Types'
  BY <1>1, ConfigFacts DEF Types, Steps
<1>3. /\ at'[g] = "none" /\ \A h \in Goroutines \ {g} : at'[h] = at[h] /\ copy'[h] = copy[h]
      /\ lock'[g[1]] = Nobody /\ \A p \in Processes \ {g[1]} : lock'[p] = lock[p]
  BY <1>1 DEF Types
<1>4. WorkInv'
  <2>1. phase[g[1]] \notin {"delete", "exited", "killed"} /\ AtWork(g)
    BY <1>1 DEF WorkInv, Running, AtWork
  <2>2. \A h \in Goroutines \ {g} : AtWork(h) => h[1] # g[1]
    BY <1>1, <2>1, MutEx
  <2>3. \A h \in Goroutines \ {g} : AtWork(h)' <=> AtWork(h)
    BY <1>3 DEF AtWork
  <2>4. ~AtWork(g)'
    BY <1>3 DEF AtWork
  <2>5. \A h \in Goroutines : h[2] # Main /\ at'[h] # "none" =>
          phase'[h[1]] \in {"record", "killed"} /\ Owner[h[2]] = h[1]
    BY <1>1, <1>3 DEF WorkInv
  <2>6. \A p \in Processes : phase'[p] \in {"record", "wait", "exited"} => at'[<<p, Main>>] = "none"
    BY <1>1, <1>3, <2>1 DEF WorkInv
  <2>7. \A p \in Processes : phase'[p] = "delete" =>
          at'[<<p, Main>>] \in {"load", "create"} /\ lock'[p] = Nobody
    BY <1>1, <1>3, <2>1 DEF WorkInv
  <2>8. ASSUME NEW p \in Processes \ {g[1]}
        PROVE  lock'[p] = Nobody \/ (lock'[p][1] = p /\ AtWork(lock[p])')
    <3>1. lock'[p] = lock[p] /\ lock[p] \in Goroutines \cup {Nobody}
      BY <1>3 DEF Types
    <3>2. lock[p] = Nobody \/ (lock[p][1] = p /\ AtWork(lock[p]) /\ lock[p] # g)
      BY DEF WorkInv
    <3> QED
      BY <1>3, <3>1, <3>2 DEF AtWork
  <2>9. \A h \in Goroutines : AtWork(h)' /\ phase'[h[1]] \notin {"delete", "killed"} =>
          lock'[h[1]] = h
    BY <1>1, <1>3, <2>2, <2>3, <2>4 DEF WorkInv
  <2> QED
    BY <1>3, <2>5, <2>6, <2>7, <2>8, <2>9 DEF WorkInv
<1>5. DataInv' /\ (Doomed => Doomed')
  BY <1>1, <1>3, DataKept DEF Writer, Running
<1>6. HoldInv'
  BY <1>1, <1>3, <1>5, HoldKept DEF Holds, Recorded
<1>7. OrphanInv'
  BY <1>1, OrphanKept DEF Over
<1> QED
  BY <1>2, <1>4, <1>5, <1>6, <1>7

LEMMA FindKeeps ==
    ASSUME IInv, NEW g \in Goroutines, FindNoFile(g)
    PROVE  IInv'
<1> USE GoroutineFacts DEF IInv, cloud
<1>1. /\ Running(g) /\ at[g] = "load" /\ file = NoFile /\ Goto(g, "create")
      /\ at' = [at EXCEPT ![g] = "create"]
      /\ UNCHANGED <<phase, failed, lock, copy, stale, file, cloud, faults, interfered, kept>>
  BY DEF FindNoFile, Goto
<1>2. WorkInv' /\ at' \in [Goroutines -> Steps]
  BY <1>1, WorkGoesOn DEF Steps, AtWork
<1>3. Types'
  BY <1>1, <1>2 DEF Types
<1>4. at'[g] = "create" /\ \A h \in Goroutines \ {g} : at'[h] = at[h]
  BY <1>1 DEF Types
<1>5. DataInv' /\ (Doomed => Doomed')
  BY <1>1, <1>4, DataKept DEF Writer, Running
<1>6. HoldInv'
  BY <1>1, <1>4, <1>5, HoldKept DEF Holds, Recorded
<1>7. OrphanInv'
  BY <1>1, OrphanKept DEF Over
<1> QED
  BY <1>2, <1>3, <1>5, <1>6, <1>7

(* A file operation fails.                                                 *)
LEMMA FailKeeps ==
    ASSUME IInv, NEW g \in Goroutines, FileFails(g)
    PROVE  IInv'
<1> USE GoroutineFacts DEF IInv, cloud
<1>1. /\ Running(g) /\ at[g] \in {"load", "create", "truncate", "write"}
      /\ failed' = [failed EXCEPT ![g[1]] = TRUE]
      /\ interfered' = (interfered \/ at[g] = "write")
      /\ stale' = stale \ {g}
      /\ UNCHANGED <<lock, copy, file, cloud, kept>>
      /\ faults > 0 /\ faults' = faults - 1
  BY DEF FileFails, Fault
<1>2. AtWork(g) /\ g[1] \in Processes
  BY <1>1 DEF AtWork
<1>3. faults' \in 0..MaxFaults
  BY <1>1, ConfigAssumption DEF Types
<1>4. \A h \in Goroutines \ {g} : at'[h] = at[h]
  BY DEF FileFails, Goto, Types
<1>5. CASE phase[g[1]] = "delete"
  <2>1. /\ phase' = [phase EXCEPT ![g[1]] = "exited"] /\ at' = [at EXCEPT ![g] = "none"]
    BY <1>5 DEF FileFails, Goto
  <2>2. /\ phase'[g[1]] = "exited" /\ \A p \in Processes \ {g[1]} : phase'[p] = phase[p]
        /\ at'[g] = "none" /\ failed'[g[1]] = TRUE
        /\ \A p \in Processes \ {g[1]} : failed'[p] = failed[p]
    BY <1>1, <1>2, <2>1 DEF Types
  <2>3. Types'
    BY <1>1, <1>3, <2>1 DEF Types, Phases, Steps
  <2>4. /\ g[2] = Main /\ lock[g[1]] = Nobody
        /\ \A h \in Goroutines \ {g} : h[1] = g[1] => at[h] = "none"
    <3>1. g[2] = Main /\ lock[g[1]] = Nobody
      BY <1>1, <1>5 DEF WorkInv
    <3>2. ASSUME NEW h \in Goroutines \ {g}, h[1] = g[1] PROVE at[h] = "none"
      <4>1. h[2] # Main
        BY <3>1, <3>2
      <4> QED
        BY <1>5, <3>2, <4>1 DEF WorkInv
    <3> QED
      BY <3>1, <3>2
  <2>5. WorkInv'
    <3>1. \A h \in Goroutines : h[1] = g[1] => at'[h] = "none"
      BY <1>4, <2>2, <2>4
    <3>2. \A h \in Goroutines : h[1] # g[1] => at'[h] = at[h] /\ phase'[h[1]] = phase[h[1]]
      BY <1>4, <2>2
    <3>3. \A h \in Goroutines : h[2] # Main /\ at'[h] # "none" =>
            phase'[h[1]] \in {"record", "killed"} /\ Owner[h[2]] = h[1]
      BY <3>1, <3>2 DEF WorkInv
    <3>4. ASSUME NEW p \in Processes
          PROVE  /\ phase'[p] \in {"record", "wait", "exited"} => at'[<<p, Main>>] = "none"
                 /\ phase'[p] = "delete" =>
                      at'[<<p, Main>>] \in {"load", "create"} /\ lock'[p] = Nobody
                 /\ lock'[p] = Nobody \/ (lock'[p][1] = p /\ AtWork(lock[p])')
      <4>1. CASE p = g[1]
        BY <1>1, <2>2, <2>4, <3>1, <4>1
      <4>2. CASE p # g[1]
        <5>1. /\ at'[<<p, Main>>] = at[<<p, Main>>] /\ phase'[p] = phase[p] /\ lock'[p] = lock[p]
          BY <1>1, <2>2, <3>2, <4>2
        <5>2. lock[p] \in Goroutines \cup {Nobody}
          BY DEF Types
        <5>3. lock[p] = Nobody \/ (lock[p][1] = p /\ at'[lock[p]] = at[lock[p]] /\ AtWork(lock[p]))
          BY <3>2, <4>2, <5>2 DEF WorkInv
        <5> QED
          BY <1>1, <5>1, <5>3 DEF WorkInv, AtWork
      <4> QED
        BY <4>1, <4>2
    <3>5. \A h \in Goroutines : AtWork(h)' /\ phase'[h[1]] \notin {"delete", "killed"} =>
            lock'[h[1]] = h
      BY <1>1, <3>1, <3>2 DEF WorkInv, AtWork
    <3> QED
      BY <3>3, <3>4, <3>5 DEF WorkInv
  <2>6. \A h \in Goroutines : Running(h)' /\ at'[h] # "none" =>
          Running(h) /\ at'[h] = at[h] /\ phase'[h[1]] = phase[h[1]]
    BY <1>4, <2>2, <2>4 DEF Running
  <2>7. \A h \in Goroutines : Writer(h) => Writer(h)'
    BY <1>1, <1>4, <1>5, <2>2, <2>4 DEF Writer, Running, WorkInv
  <2>8. DataInv' /\ (Doomed => Doomed')
    BY <1>1, <2>2, <2>6, <2>7, DataKept
  <2>9. HoldInv'
    <3>1. ASSUME NEW p \in Processes, Holds(p)' PROVE Holds(p)
      <4>1. p # g[1] /\ <<p, Main>> # g
        BY <2>2, <3>1 DEF Holds
      <4> QED
        BY <1>4, <2>2, <3>1, <4>1 DEF Holds
    <3>2. ASSUME NEW c \in Clusters, Recorded(c)' PROVE Recorded(c)
      <4>1. Owner[c] # g[1] /\ Recorder(c) # g
        BY <2>2, <3>2 DEF Recorded, Recorder
      <4> QED
        BY <1>4, <2>2, <3>2, <4>1 DEF Recorded
    <3> QED
      BY <1>1, <2>8, <3>1, <3>2, HoldKept
  <2>10. OrphanInv'
    BY <1>1, <2>2, OrphanKept DEF Over
  <2> QED
    BY <2>3, <2>5, <2>8, <2>9, <2>10
<1>6. CASE phase[g[1]] # "delete"
  <2>1. UNCHANGED phase /\ Goto(g, "unlock") /\ at' = [at EXCEPT ![g] = "unlock"]
    BY <1>6 DEF FileFails, Goto
  <2>2. /\ at'[g] = "unlock" /\ failed'[g[1]] = TRUE
        /\ \A p \in Processes \ {g[1]} : failed'[p] = failed[p]
    BY <1>1, <1>2, <2>1 DEF Types
  <2>3. WorkInv' /\ at' \in [Goroutines -> Steps]
    BY <1>1, <1>2, <1>6, <2>1, WorkGoesOn DEF Steps
  <2>4. Types'
    BY <1>1, <1>3, <2>1, <2>3 DEF Types
  <2>5. \A h \in Goroutines : Writer(h) => interfered' \/ Writer(h)'
    BY <1>1, <1>4, <2>1 DEF Writer, Running
  <2>6. DataInv' /\ (Doomed => Doomed')
    BY <1>1, <1>4, <2>1, <2>2, <2>5, DataKept DEF Running
  <2>7. HoldInv'
    <3>1. ASSUME NEW p \in Processes, Holds(p)' PROVE Holds(p)
      <4>1. CASE p = g[1]
        BY <1>1, <1>4, <2>1, <2>2, <3>1, <4>1, Savers, <1>2, <1>6 DEF Holds
      <4>2. CASE p # g[1]
        BY <1>4, <2>1, <2>2, <3>1, <4>2 DEF Holds
      <4> QED
        BY <4>1, <4>2
    <3>2. ASSUME NEW c \in Clusters, Recorded(c)' PROVE Recorded(c)
      BY <1>1, <1>4, <2>1, <2>2, <3>2 DEF Recorded, Recorder
    <3> QED
      BY <1>1, <2>6, <3>1, <3>2, HoldKept
  <2>8. OrphanInv'
    BY <1>1, <2>1, <2>2, OrphanKept DEF Over
  <2> QED
    BY <2>3, <2>4, <2>6, <2>7, <2>8
<1> QED
  BY <1>5, <1>6

----------------------------------------------------------------------------
(* What a process does next.                                               *)

(* A goroutine that is not at work holds no mutex.                         *)
LEMMA IdleProcess ==
    ASSUME Types, WorkInv, NEW p \in Processes,
           \A g \in Goroutines : g[1] = p => ~AtWork(g)
    PROVE  lock[p] = Nobody
BY DEF Types, WorkInv

LEMMA StartKeeps ==
    ASSUME IInv, NEW p \in Processes, StartClusters(p)
    PROVE  IInv'
<1> USE GoroutineFacts DEF IInv, cloud
<1>1. /\ phase[p] = "add" /\ at[<<p, Main>>] = "none"
      /\ UNCHANGED <<failed, lock, copy, stale, file, deleting, undeleted>>
      /\ UNCHANGED <<faults, interfered, kept>>
  BY DEF StartClusters
<1>2. \A g \in Goroutines : g[1] = p => at[g] = "none"
  BY <1>1 DEF WorkInv
<1>3. lock[p] = Nobody
  BY <1>2, IdleProcess DEF AtWork
<1>4. CASE failed[p]
  <2>1. phase' = [phase EXCEPT ![p] = "exited"] /\ UNCHANGED <<at, cloud>>
    BY <1>4 DEF StartClusters
  <2>2. phase'[p] = "exited" /\ \A q \in Processes \ {p} : phase'[q] = phase[q]
    BY <2>1 DEF Types
  <2>3. Types'
    BY <1>1, <2>1 DEF Types, Phases
  <2>4. WorkInv'
    BY <1>1, <1>2, <2>1, <2>2 DEF WorkInv, AtWork
  <2>5. \A g \in Goroutines : at[g] # "none" => g[1] # p /\ (Running(g)' <=> Running(g))
    BY <1>2, <2>2 DEF Running
  <2>6. DataInv' /\ (Doomed => Doomed')
    BY <1>1, <2>1, <2>2, <2>5, DataKept DEF Writer
  <2>7. HoldInv'
    BY <1>1, <2>1, <2>2, <2>6, HoldKept DEF Holds, Recorded
  <2>8. OrphanInv'
    BY <1>1, <1>4, <2>1, <2>2, OrphanKept DEF Over
  <2> QED
    BY <2>3, <2>4, <2>6, <2>7, <2>8
<1>5. CASE ~failed[p]
  <2>1. /\ phase' = [phase EXCEPT ![p] = "record"] /\ alive' = alive \cup Mine(p)
        /\ at' = [g \in Goroutines |-> IF g[1] = p /\ g[2] \in Mine(p) THEN "lock" ELSE at[g]]
    BY <1>5 DEF StartClusters
  <2>2. phase'[p] = "record" /\ \A q \in Processes \ {p} : phase'[q] = phase[q]
    BY <2>1 DEF Types
  <2>3. Types'
    BY <1>1, <2>1 DEF Types, Phases, Steps, Mine
  <2>4. /\ \A g \in Goroutines : g[1] # p => at'[g] = at[g]
        /\ \A g \in Goroutines : g[1] = p => at'[g] \in {"none", "lock"}
        /\ \A g \in Goroutines : g[1] = p /\ at'[g] # "none" => g[2] # Main /\ Owner[g[2]] = p
        /\ at'[<<p, Main>>] = "none"
        /\ \A c \in Clusters : Owner[c] = p => at'[Recorder(c)] = "lock"
    BY <1>2, <2>1, ConfigAssumption DEF Mine, Recorder
  <2>5. WorkInv'
    <3>1. \A g \in Goroutines : AtWork(g)' <=> AtWork(g)
      BY <1>2, <2>4 DEF AtWork
    <3>2. \A q \in Processes \ {p} : at'[<<q, Main>>] = at[<<q, Main>>]
      BY <2>4
    <3>3. \A q \in Processes : lock[q] \in Goroutines \cup {Nobody}
      BY DEF Types
    <3> QED
      BY <1>1, <1>2, <1>3, <2>2, <2>4, <3>1, <3>2, <3>3 DEF WorkInv
  <2>6. \A g \in Goroutines : at'[g] \in {"create", "truncate", "write"} \/ at[g] = "write" =>
          g[1] # p /\ at'[g] = at[g] /\ (Running(g)' <=> Running(g)) /\ phase'[g[1]] = phase[g[1]]
    BY <1>2, <2>2, <2>4 DEF Running
  <2>7. DataInv' /\ (Doomed => Doomed')
    BY <1>1, <2>6, DataKept DEF Writer
  <2>8. HoldInv'
    <3>1. ASSUME NEW q \in Processes, Holds(q)' PROVE Holds(q)
      BY <1>1, <1>5, <2>2, <2>4, <3>1 DEF Holds
    <3>2. ASSUME NEW c \in Clusters, Recorded(c)' PROVE Recorded(c)
      <4>1. Owner[c] # p
        BY <2>2, <2>4, <3>2 DEF Recorded
      <4>2. Recorder(c)[1] = Owner[c]
        BY DEF Recorder
      <4> QED
        BY <1>1, <2>2, <2>4, <3>2, <4>1, <4>2 DEF Recorded
    <3> QED
      BY <1>1, <2>7, <3>1, <3>2, HoldKept
  <2>9. OrphanInv'
    <3>1. \A c \in alive' : c \in Clusters /\ (Owner[c] = p \/ c \in alive)
      BY <2>1 DEF Mine, Types
    <3>2. ~Over(p)' /\ \A q \in Processes \ {p} : Over(q)' <=> Over(q)
      BY <1>1, <2>2 DEF Over
    <3> QED
      BY <1>1, <2>2, <3>1, <3>2 DEF OrphanInv
  <2> QED
    BY <2>3, <2>5, <2>7, <2>8, <2>9
<1> QED
  BY <1>4, <1>5

LEMMA ReturnKeeps ==
    ASSUME IInv, NEW p \in Processes, CreateReturns(p)
    PROVE  IInv'
<1> USE GoroutineFacts DEF IInv, cloud
<1>1. /\ phase[p] = "record" /\ \A c \in Mine(p) : at[Recorder(c)] = "none"
      /\ UNCHANGED <<failed, lock, copy, stale, file, cloud, faults, interfered, kept>>
  BY DEF CreateReturns
<1>2. \A g \in Goroutines : g[1] = p => at[g] = "none"
  <2> SUFFICES ASSUME NEW g \in Goroutines, g[1] = p, at[g] # "none" PROVE FALSE
    OBVIOUS
  <2>1. g[2] # Main
    BY <1>1 DEF WorkInv
  <2>2. g[2] \in Mine(p) /\ g = Recorder(g[2])
    BY <2>1 DEF WorkInv, Mine, Recorder
  <2> QED
    BY <1>1, <2>2
<1>3. lock[p] = Nobody
  BY <1>2, IdleProcess DEF AtWork
<1>4. CASE failed[p]
  <2>1. phase' = [phase EXCEPT ![p] = "exited"] /\ UNCHANGED at
    BY <1>4 DEF CreateReturns
  <2>2. phase'[p] = "exited" /\ \A q \in Processes \ {p} : phase'[q] = phase[q]
    BY <2>1 DEF Types
  <2>3. Types'
    BY <1>1, <2>1 DEF Types, Phases
  <2>4. WorkInv'
    BY <1>1, <1>2, <2>1, <2>2 DEF WorkInv, AtWork
  <2>5. \A g \in Goroutines : at[g] # "none" => g[1] # p /\ (Running(g)' <=> Running(g))
    BY <1>2, <2>2 DEF Running
  <2>6. DataInv' /\ (Doomed => Doomed')
    BY <1>1, <2>1, <2>2, <2>5, DataKept DEF Writer
  <2>7. HoldInv'
    BY <1>1, <2>1, <2>2, <2>6, HoldKept DEF Holds, Recorded
  <2>8. OrphanInv'
    BY <1>1, <1>4, <2>1, <2>2, OrphanKept DEF Over
  <2> QED
    BY <2>3, <2>4, <2>6, <2>7, <2>8
<1>5. CASE ~failed[p]
  <2>1. phase' = [phase EXCEPT ![p] = "delete"] /\ at' = [at EXCEPT ![<<p, Main>>] = "load"]
    BY <1>5 DEF CreateReturns, Goto
  <2>2. phase'[p] = "delete" /\ \A q \in Processes \ {p} : phase'[q] = phase[q]
    BY <2>1 DEF Types
  <2>3. Types'
    BY <1>1, <2>1 DEF Types, Phases, Steps
  <2>4. at'[<<p, Main>>] = "load" /\ \A g \in Goroutines \ {<<p, Main>>} : at'[g] = at[g]
    BY <2>1 DEF Types
  <2>5. /\ \A g \in Goroutines : g[1] # p => at'[g] = at[g]
        /\ \A g \in Goroutines : g[1] = p /\ g[2] # Main => at'[g] = "none"
        /\ \A g \in Goroutines : g[1] = p => at'[g] \in {"none", "load"}
    BY <1>2, <2>4
  <2>6. WorkInv'
    <3>1. \A g \in Goroutines : g[1] # p => (AtWork(g)' <=> AtWork(g))
      BY <2>5 DEF AtWork
    <3>2. \A q \in Processes \ {p} : at'[<<q, Main>>] = at[<<q, Main>>]
      BY <2>5
    <3>3. \A q \in Processes : lock[q] \in Goroutines \cup {Nobody}
      BY DEF Types
    <3> QED
      BY <1>1, <1>3, <2>2, <2>4, <2>5, <3>1, <3>2, <3>3 DEF WorkInv
  <2>7. \A g \in Goroutines : at'[g] \in {"create", "truncate", "write"} \/ at[g] = "write" =>
          g[1] # p /\ at'[g] = at[g] /\ (Running(g)' <=> Running(g)) /\ phase'[g[1]] = phase[g[1]]
    BY <1>2, <2>2, <2>5 DEF Running
  <2>8. DataInv' /\ (Doomed => Doomed')
    BY <1>1, <2>7, DataKept DEF Writer
  <2>9. HoldInv'
    <3>1. ASSUME NEW q \in Processes, Holds(q)' PROVE Holds(q)
      BY <1>1, <1>5, <2>2, <2>5, <3>1 DEF Holds
    <3>2. ASSUME NEW c \in Clusters, Recorded(c)' PROVE Recorded(c)
      <4>1. Recorder(c)[1] = Owner[c]
        BY DEF Recorder
      <4>2. CASE Owner[c] = p
        BY <1>1, <1>2, <1>5, <4>1, <4>2 DEF Recorded
      <4>3. CASE Owner[c] # p
        BY <1>1, <2>2, <2>5, <3>2, <4>1, <4>3 DEF Recorded
      <4> QED
        BY <4>2, <4>3
    <3> QED
      BY <1>1, <2>8, <3>1, <3>2, HoldKept
  <2>10. OrphanInv'
    BY <1>1, <2>2, OrphanKept DEF Over
  <2> QED
    BY <2>3, <2>6, <2>8, <2>9, <2>10
<1> QED
  BY <1>4, <1>5

LEMMA ExitKeeps ==
    ASSUME IInv, NEW p \in Processes, Exit(p)
    PROVE  IInv'
<1> USE GoroutineFacts DEF IInv, cloud
<1>1. /\ phase[p] = "remove" /\ at[<<p, Main>>] = "none"
      /\ phase' = [phase EXCEPT ![p] = "exited"]
      /\ UNCHANGED <<failed, at, lock, copy, stale, file, cloud, faults, interfered, kept>>
  BY DEF Exit, access
<1>2. \A g \in Goroutines : g[1] = p => at[g] = "none"
  BY <1>1 DEF WorkInv
<1>3. phase'[p] = "exited" /\ \A q \in Processes \ {p} : phase'[q] = phase[q]
  BY <1>1 DEF Types
<1>4. Types'
  BY <1>1 DEF Types, Phases
<1>5. WorkInv'
  BY <1>1, <1>2, <1>3 DEF WorkInv, AtWork
<1>6. \A g \in Goroutines : at[g] # "none" => g[1] # p /\ (Running(g)' <=> Running(g))
  BY <1>2, <1>3 DEF Running
<1>7. DataInv' /\ (Doomed => Doomed')
  BY <1>1, <1>3, <1>6, DataKept DEF Writer
<1>8. HoldInv'
  BY <1>1, <1>3, <1>7, HoldKept DEF Holds, Recorded
<1>9. OrphanInv'
  BY <1>1, <1>3, OrphanKept DEF Over
<1> QED
  BY <1>4, <1>5, <1>7, <1>8, <1>9

LEMMA KillKeeps ==
    ASSUME IInv, NEW p \in Processes, Kill(p)
    PROVE  IInv'
<1> USE GoroutineFacts DEF IInv, cloud
<1>1. /\ phase[p] \notin {"exited", "killed"} /\ phase' = [phase EXCEPT ![p] = "killed"]
      /\ interfered' = (interfered \/ \E g \in Goroutines : g[1] = p /\ at[g] = "write")
      /\ UNCHANGED <<failed, at, lock, copy, stale, file, cloud, kept>>
      /\ faults > 0 /\ faults' = faults - 1
  BY DEF Kill, Fault, access
<1>2. phase'[p] = "killed" /\ \A q \in Processes \ {p} : phase'[q] = phase[q]
  BY <1>1 DEF Types
<1>3. Types'
  <2>1. faults' \in 0..MaxFaults
    BY <1>1, ConfigAssumption DEF Types
  <2> QED
    BY <1>1, <2>1 DEF Types, Phases
<1>4. WorkInv'
  BY <1>1, <1>2 DEF WorkInv, AtWork
<1>5. \A g \in Goroutines : Running(g)' => Running(g) /\ phase'[g[1]] = phase[g[1]]
  BY <1>1, <1>2 DEF Running
<1>6. \A g \in Goroutines : Writer(g) => interfered' \/ Writer(g)'
  BY <1>1, <1>2 DEF Writer, Running
<1>7. DataInv' /\ (Doomed => Doomed')
  BY <1>1, <1>5, <1>6, DataKept
<1>8. HoldInv'
  BY <1>1, <1>2, <1>7, HoldKept DEF Holds, Recorded
<1>9. OrphanInv'
  BY <1>1, <1>2, OrphanKept DEF Over
<1> QED
  BY <1>3, <1>4, <1>7, <1>8, <1>9

----------------------------------------------------------------------------
(* The steps that load, edit and save.                                     *)

(* What a goroutine has loaded.                                            *)
LEMMA LoadFacts ==
    ASSUME IInv, NEW g \in Goroutines, loadConfig(g)
    PROVE  /\ Loaded(g) \in Configs /\ AtWork(g) /\ at[g] \in {"load", "create"}
           /\ file' \in Configs /\ stale' \subseteq Goroutines /\ interfered' \in BOOLEAN
           /\ interfered => interfered'
<1> USE ConfigFacts DEF IInv
<1>1. CASE at[g] = "load"
  BY <1>1 DEF loadConfig, Loaded, AtWork, Types
<1>2. CASE at[g] = "create"
  BY <1>2 DEF loadConfig, Loaded, AtWork, Types, Store, Outdated
<1> QED
  BY <1>1, <1>2 DEF loadConfig

(* Unless there is no hope, the loaded config is the current one; and if   *)
(* that is then to be saved, it may be.                                    *)
LEMMA Loads ==
    ASSUME IInv, NEW g \in Goroutines, Running(g), phase[g[1]] # "delete",
           loadConfig(g), Goto(g, "truncate") \/ Goto(g, "unlock"),
           UNCHANGED <<phase, kept>>,
           \A h \in Goroutines \ {g} : copy'[h] = copy[h],
           ~Doomed /\ (\A h \in Goroutines : ~Writer(h)) /\ Within(kept, Loaded(g))
              /\ at'[g] = "truncate" => Good(g)'
    PROVE  DataInv' /\ (Doomed => Doomed')
<1> USE DEF IInv
<1>1. /\ at'[g] \in {"truncate", "unlock"} /\ \A h \in Goroutines \ {g} : at'[h] = at[h]
      /\ at[g] \in {"load", "create"} /\ AtWork(g) /\ file' # NoFile
  BY LoadFacts, ConfigFacts DEF Goto, Types
<1>2. \A h \in Goroutines : Running(h)' <=> Running(h)
  BY DEF Running
<1>3. \A h \in Goroutines : Writer(h)' <=> Writer(h)
  BY <1>1, <1>2 DEF Writer
<1>4. \A h \in Goroutines : h[1] = g[1] /\ AtWork(h) => h = g
  BY <1>1, MutEx
<1>5. ASSUME NEW h \in Goroutines \ {g}, Good(h) PROVE Good(h)'
  BY <1>5 DEF Good, KeptAfter
<1>6. CASE at[g] = "load"
  <2>1. file # NoFile /\ stale' = stale \ {g} /\ interfered' = interfered
        /\ UNCHANGED file /\ Loaded(g) = file
    BY <1>6 DEF loadConfig, Loaded, Types
  <2>2. Doomed' <=> Doomed
    BY <1>3, <1>6, <2>1 DEF Doomed, Writer
  <2>3. \A h \in Goroutines : Running(h)' /\ at'[h] = "create" /\ h \notin stale' => file' = NoFile
    BY <1>1, <1>2, <2>1 DEF DataInv
  <2>4. ASSUME ~Doomed'
        PROVE  /\ \A h, k \in Goroutines : Writer(h)' /\ Writer(k)' => h = k
               /\ \A h \in Goroutines : Writer(h)' => Good(h)'
               /\ (\A h \in Goroutines : ~Writer(h)') =>
                    /\ Within(kept, file)
                    /\ \A h \in Goroutines :
                         Running(h)' /\ at'[h] = "truncate" /\ h \notin stale' => Good(h)'
    <3>1. ~Doomed
      BY <2>2, <2>4
    <3>2. \A h, k \in Goroutines : Writer(h)' /\ Writer(k)' => h = k
      BY <1>3, <3>1 DEF DataInv
    <3>3. ASSUME NEW h \in Goroutines, Writer(h)' PROVE Good(h)'
      <4>1. h # g /\ Good(h)
        BY <1>1, <1>3, <3>1, <3>3 DEF Writer, DataInv
      <4> QED
        BY <1>5, <4>1
    <3>4. ASSUME \A h \in Goroutines : ~Writer(h)'
          PROVE  /\ Within(kept, file)
                 /\ \A h \in Goroutines :
                      Running(h)' /\ at'[h] = "truncate" /\ h \notin stale' => Good(h)'
      <4>1. (\A h \in Goroutines : ~Writer(h)) /\ Within(kept, file)
        BY <1>3, <2>1, <3>1, <3>4 DEF DataInv
      <4>2. ASSUME NEW h \in Goroutines, Running(h)', at'[h] = "truncate", h \notin stale'
            PROVE  Good(h)'
        <5>1. CASE h = g
          BY <2>1, <3>1, <4>1, <4>2, <5>1
        <5>2. CASE h # g
          <6>1. Running(h) /\ at[h] = "truncate" /\ h \notin stale
            BY <1>1, <1>2, <2>1, <4>2, <5>2
          <6>2. Good(h)
            BY <3>1, <4>1, <6>1 DEF DataInv
          <6> QED
            BY <1>5, <5>2, <6>2
        <5> QED
          BY <5>1, <5>2
      <4> QED
        BY <4>1, <4>2
    <3> QED
      BY <3>2, <3>3, <3>4
  <2> QED
    BY <1>1, <2>1, <2>2, <2>3, <2>4 DEF DataInv
<1>7. CASE at[g] = "create"
  <2>1. /\ file' = EmptyConfig /\ stale' = (stale \ {g}) \cup Outdated(g)
        /\ interfered' = (interfered \/ g \in stale) /\ Loaded(g) = EmptyConfig
    BY <1>7 DEF loadConfig, Loaded, Store
  <2>2. Doomed => Doomed'
    BY <1>3, <1>7, <2>1 DEF Doomed, Writer
  <2>3. \A h \in Goroutines : Running(h)' /\ at'[h] \in {"create", "truncate"} /\ h \notin stale'
          => h = g
    BY <1>1, <1>4, <2>1 DEF Outdated, AtWork
  <2>4. ASSUME ~Doomed'
        PROVE  /\ \A h \in Goroutines : ~Writer(h)'
               /\ Within(kept, EmptyConfig)
               /\ \A h \in Goroutines :
                    Running(h)' /\ at'[h] = "truncate" /\ h \notin stale' => Good(h)'
    <3>1. ~Doomed /\ g \notin stale
      BY <2>1, <2>2, <2>4 DEF Doomed
    <3>2. file = NoFile
      BY <1>7, <3>1 DEF DataInv
    <3>3. \A h \in Goroutines : ~Writer(h)
      BY <3>2 DEF DataInv
    <3>4. Within(kept, EmptyConfig)
      BY <3>1, <3>2, <3>3, ConfigFacts DEF DataInv
    <3>5. at'[g] = "truncate" => Good(g)'
      BY <2>1, <3>1, <3>3, <3>4
    <3> QED
      BY <1>3, <2>3, <3>3, <3>4, <3>5
  <2> QED
    BY <1>1, <2>1, <2>2, <2>3, <2>4 DEF DataInv
<1> QED
  BY <1>1, <1>6, <1>7

LEMMA AddKeeps ==
    ASSUME IInv, NEW p \in Processes, AddGrid(p)
    PROVE  IInv'
<1> USE GoroutineFacts DEF IInv, cloud
<1> DEFINE g == <<p, Main>>
           n == GridOf[p]
<1>1. /\ g \in Goroutines /\ g[1] = p /\ g[2] = Main /\ phase[p] = "add" /\ Running(g)
      /\ loadConfig(g)
      /\ UNCHANGED <<phase, lock, cloud, faults, kept>>
  BY DEF AddGrid, Running
<1>2. /\ Loaded(g) \in Configs /\ AtWork(g) /\ at[g] \in {"load", "create"}
      /\ file' \in Configs /\ stale' \subseteq Goroutines /\ interfered' \in BOOLEAN
      /\ interfered => interfered'
  BY <1>1, LoadFacts
<1>3. CASE n \in Loaded(g).grids
  <2>1. /\ failed' = [failed EXCEPT ![p] = TRUE] /\ UNCHANGED copy
        /\ Goto(g, "unlock") /\ at' = [at EXCEPT ![g] = "unlock"]
    BY <1>3 DEF AddGrid, Goto, Edit
  <2>2. WorkInv' /\ at' \in [Goroutines -> Steps]
    BY <1>1, <1>2, <2>1, WorkGoesOn DEF Steps
  <2>3. Types'
    BY <1>1, <1>2, <2>1, <2>2 DEF Types
  <2>4. /\ at'[g] = "unlock" /\ failed'[p] = TRUE
        /\ \A h \in Goroutines \ {g} : at'[h] = at[h]
        /\ \A q \in Processes \ {p} : failed'[q] = failed[q]
    BY <1>1, <2>1 DEF Types
  <2>5. DataInv' /\ (Doomed => Doomed')
    BY <1>1, <2>1, <2>4, Loads
  <2>6. HoldInv'
    <3>1. ASSUME NEW q \in Processes, Holds(q)' PROVE Holds(q)
      BY <1>1, <2>4, <3>1 DEF Holds
    <3>2. ASSUME NEW c \in Clusters, Recorded(c)' PROVE Recorded(c)
      BY <1>1, <2>4, <3>2 DEF Recorded, Recorder
    <3> QED
      BY <1>1, <2>5, <3>1, <3>2, HoldKept
  <2>7. OrphanInv'
    BY <1>1, <1>2, <2>4, OrphanKept DEF Over
  <2> QED
    BY <2>2, <2>3, <2>5, <2>6, <2>7
<1>4. CASE n \notin Loaded(g).grids
  <2> DEFINE new == [Loaded(g) EXCEPT !.grids = @ \cup {n}]
  <2>1. /\ copy' = [copy EXCEPT ![g] = new] /\ UNCHANGED failed
        /\ Goto(g, "truncate") /\ at' = [at EXCEPT ![g] = "truncate"]
    BY <1>4 DEF AddGrid, Goto, Edit
  <2>2. /\ new \in Configs /\ new.grids = Loaded(g).grids \cup {n}
        /\ new.clusters = Loaded(g).clusters
    BY <1>2 DEF Configs
  <2>3. WorkInv' /\ at' \in [Goroutines -> Steps]
    BY <1>1, <1>2, <2>1, WorkGoesOn DEF Steps
  <2>4. Types'
    BY <1>1, <1>2, <2>1, <2>2, <2>3 DEF Types
  <2>5. /\ at'[g] = "truncate" /\ copy'[g] = new
        /\ \A h \in Goroutines \ {g} : at'[h] = at[h] /\ copy'[h] = copy[h]
    BY <1>1, <2>1 DEF Types
  <2>6. ASSUME Within(kept, Loaded(g)) PROVE Good(g)'
    <3>1. KeptAfter(g).grids = kept.grids \cup {n} /\ KeptAfter(g).clusters = kept.clusters
      BY <1>1, KeptFacts
    <3>2. KeptAfter(g)' = KeptAfter(g)
      BY <1>1 DEF KeptAfter
    <3> QED
      BY <1>1, <1>4, <2>2, <2>5, <2>6, <3>1, <3>2 DEF Good, Within
  <2>7. DataInv' /\ (Doomed => Doomed')
    BY <1>1, <2>1, <2>5, <2>6, Loads
  <2>8. HoldInv'
    <3>1. ASSUME NEW q \in Processes, Holds(q)' PROVE Holds(q)
      BY <1>1, <2>1, <2>5, <3>1 DEF Holds
    <3>2. ASSUME NEW c \in Clusters, Recorded(c)' PROVE Recorded(c)
      BY <1>1, <2>1, <2>5, <3>2 DEF Recorded, Recorder
    <3> QED
      BY <1>1, <2>7, <3>1, <3>2, HoldKept
  <2>9. OrphanInv'
    BY <1>1, <1>2, <2>1, OrphanKept DEF Over
  <2> QED
    BY <2>3, <2>4, <2>7, <2>8, <2>9
<1> QED
  BY <1>3, <1>4

(* The grid of a process that records is in what it loads.                 *)
LEMMA RecordKeeps ==
    ASSUME IInv, NEW c \in Clusters, RecordCluster(c)
    PROVE  IInv'
<1> USE GoroutineFacts DEF IInv, cloud
<1> DEFINE p == Owner[c]
           g == Recorder(c)
           n == GridOf[p]
           new == IF n \in Loaded(g).grids
                  THEN [Loaded(g) EXCEPT !.clusters = @ \cup {<<n, c>>}] ELSE Loaded(g)
<1>1. /\ g \in Goroutines /\ g[1] = p /\ g[2] = c /\ p \in Processes /\ c # Main
      /\ phase[p] = "record" /\ Running(g) /\ loadConfig(g)
      /\ Goto(g, "truncate") /\ at' = [at EXCEPT ![g] = "truncate"]
      /\ copy' = [copy EXCEPT ![g] = new]
      /\ UNCHANGED <<phase, failed, lock, cloud, faults, kept>>
  BY DEF RecordCluster, Running, Recorder, Edit, Goto
<1>2. /\ Loaded(g) \in Configs /\ AtWork(g) /\ at[g] \in {"load", "create"}
      /\ file' \in Configs /\ stale' \subseteq Goroutines /\ interfered' \in BOOLEAN
      /\ interfered => interfered'
  BY <1>1, LoadFacts
<1>3. /\ new \in Configs
      /\ n \in Loaded(g).grids =>
           new.grids = Loaded(g).grids /\ new.clusters = Loaded(g).clusters \cup {<<n, c>>}
  BY <1>1, <1>2 DEF Configs
<1>4. WorkInv' /\ at' \in [Goroutines -> Steps]
  BY <1>1, <1>2, WorkGoesOn DEF Steps
<1>5. Types'
  BY <1>1, <1>2, <1>3, <1>4 DEF Types
<1>6. /\ at'[g] = "truncate" /\ copy'[g] = new
      /\ \A h \in Goroutines \ {g} : at'[h] = at[h] /\ copy'[h] = copy[h]
  BY <1>1 DEF Types
<1>7. ASSUME ~Doomed, Within(kept, Loaded(g)) PROVE Good(g)'
  <2>1. n \in Loaded(g).grids
    BY <1>1, <1>7 DEF HoldInv, Holds, Within
  <2>2. KeptAfter(g).grids = kept.grids /\ KeptAfter(g).clusters = kept.clusters \cup {<<n, c>>}
    BY <1>1, KeptFacts
  <2>3. KeptAfter(g)' = KeptAfter(g)
    BY <1>1 DEF KeptAfter
  <2> QED
    BY <1>1, <1>3, <1>6, <1>7, <2>1, <2>2, <2>3 DEF Good, Within
<1>8. DataInv' /\ (Doomed => Doomed')
  BY <1>1, <1>6, <1>7, Loads
<1>9. HoldInv'
  <2>1. ASSUME NEW q \in Processes, Holds(q)' PROVE Holds(q)
    BY <1>1, <1>6, <2>1 DEF Holds
  <2>2. ASSUME NEW d \in Clusters, Recorded(d)' PROVE Recorded(d)
    BY <1>1, <1>6, <2>2 DEF Recorded
  <2> QED
    BY <1>1, <1>8, <2>1, <2>2, HoldKept
<1>10. OrphanInv'
  BY <1>1, <1>2, OrphanKept DEF Over
<1> QED
  BY <1>4, <1>5, <1>8, <1>9, <1>10

LEMMA RemoveKeeps ==
    ASSUME IInv, NEW p \in Processes, removeGridFromConfig(p)
    PROVE  IInv'
<1> USE GoroutineFacts DEF IInv, cloud
<1> DEFINE g == <<p, Main>>
           n == GridOf[p]
           new == [grids |-> Loaded(g).grids \ {n},
                   clusters |-> {e \in Loaded(g).clusters : e[1] # n}]
<1>1. /\ g \in Goroutines /\ g[1] = p /\ g[2] = Main
      /\ phase[p] = "remove" /\ Running(g) /\ loadConfig(g)
      /\ Goto(g, "truncate") /\ at' = [at EXCEPT ![g] = "truncate"]
      /\ copy' = [copy EXCEPT ![g] = new]
      /\ UNCHANGED <<phase, failed, lock, cloud, faults, kept>>
  BY DEF removeGridFromConfig, Running, Edit, Goto
<1>2. /\ Loaded(g) \in Configs /\ AtWork(g) /\ at[g] \in {"load", "create"}
      /\ file' \in Configs /\ stale' \subseteq Goroutines /\ interfered' \in BOOLEAN
      /\ interfered => interfered'
  BY <1>1, LoadFacts
<1>3. new \in Configs
  BY <1>1, <1>2 DEF Configs
<1>4. WorkInv' /\ at' \in [Goroutines -> Steps]
  BY <1>1, <1>2, WorkGoesOn DEF Steps
<1>5. Types'
  BY <1>1, <1>2, <1>3, <1>4 DEF Types
<1>6. /\ at'[g] = "truncate" /\ copy'[g] = new
      /\ \A h \in Goroutines \ {g} : at'[h] = at[h] /\ copy'[h] = copy[h]
  BY <1>1 DEF Types
<1>7. ASSUME Within(kept, Loaded(g)) PROVE Good(g)'
  <2>1. /\ KeptAfter(g).grids = kept.grids \ {n}
        /\ KeptAfter(g).clusters = {e \in kept.clusters : e[1] # n}
    BY <1>1, KeptFacts
  <2>2. KeptAfter(g)' = KeptAfter(g)
    BY <1>1 DEF KeptAfter
  <2> QED
    BY <1>1, <1>6, <1>7, <2>1, <2>2 DEF Good, Within
<1>8. DataInv' /\ (Doomed => Doomed')
  BY <1>1, <1>6, <1>7, Loads
<1>9. HoldInv'
  <2>1. ASSUME NEW q \in Processes, Holds(q)' PROVE Holds(q)
    BY <1>1, <1>2, <1>6, <2>1 DEF Holds
  <2>2. ASSUME NEW c \in Clusters, Recorded(c)' PROVE Recorded(c)
    BY <1>1, <1>6, <2>2 DEF Recorded, Recorder
  <2> QED
    BY <1>1, <1>8, <2>1, <2>2, HoldKept
<1>10. OrphanInv'
  BY <1>1, <1>2, OrphanKept DEF Over
<1> QED
  BY <1>4, <1>5, <1>8, <1>9, <1>10

(* Nothing but the reading of List is at work while a process deletes.     *)
LEMMA DeleteKeeps ==
    ASSUME IInv, NEW p \in Processes, Delete(p)
    PROVE  IInv'
<1> USE GoroutineFacts DEF IInv, cloud
<1> DEFINE g == <<p, Main>>
           n == GridOf[p]
<1>1. /\ g \in Goroutines /\ g[1] = p /\ g[2] = Main /\ phase[p] = "delete" /\ Running(g)
      /\ loadConfig(g)
      /\ deleting' = deleting \cup
           {c \in Mine(p) : \E m \in Names : <<m, c>> \in Loaded(g).clusters}
      /\ phase' = [phase EXCEPT ![p] = "wait"] /\ at' = [at EXCEPT ![g] = "none"]
      /\ UNCHANGED <<failed, lock, copy, alive, undeleted, faults, kept>>
  BY DEF Delete, Running, Goto
<1>2. /\ Loaded(g) \in Configs /\ AtWork(g) /\ at[g] \in {"load", "create"}
      /\ file' \in Configs /\ stale' \subseteq Goroutines /\ interfered' \in BOOLEAN
      /\ interfered => interfered'
  BY <1>1, LoadFacts
<1>3. /\ phase'[p] = "wait" /\ \A q \in Processes \ {p} : phase'[q] = phase[q]
      /\ at'[g] = "none" /\ \A h \in Goroutines \ {g} : at'[h] = at[h]
  BY <1>1 DEF Types
<1>4. Types'
  BY <1>1, <1>2 DEF Types, Phases, Steps, Mine
<1>5. \A h \in Goroutines \ {g} : h[1] = p => at[h] = "none"
  <2> SUFFICES ASSUME NEW h \in Goroutines \ {g}, h[1] = p PROVE at[h] = "none"
    OBVIOUS
  <2>1. h[2] # Main
    BY <1>1
  <2> QED
    BY <1>1, <2>1 DEF WorkInv
<1>6. WorkInv'
  <2>1. \A h \in Goroutines \ {g} : AtWork(h)' <=> AtWork(h)
    BY <1>3 DEF AtWork
  <2>2. lock[p] = Nobody /\ \A q \in Processes : lock[q] \in Goroutines \cup {Nobody}
    BY <1>1 DEF WorkInv, Types
  <2>3. \A q \in Processes \ {p} : at'[<<q, Main>>] = at[<<q, Main>>]
    BY <1>3
  <2>4. ~AtWork(g)'
    BY <1>3 DEF AtWork
  <2>5. \A h \in Goroutines : h[2] # Main /\ at'[h] # "none" =>
          phase'[h[1]] \in {"record", "killed"} /\ Owner[h[2]] = h[1]
    BY <1>1, <1>3, <1>5 DEF WorkInv
  <2>6. ASSUME NEW q \in Processes
        PROVE  lock'[q] = Nobody \/ (lock'[q][1] = q /\ AtWork(lock[q])')
    <3>1. CASE q = p
      BY <1>1, <2>2, <3>1
    <3>2. CASE q # p
      <4>1. lock[q] = Nobody \/ (lock[q][1] = q /\ lock[q] # g /\ AtWork(lock[q]))
        BY <3>2 DEF WorkInv
      <4> QED
        BY <1>1, <1>3, <2>2, <4>1 DEF AtWork
    <3> QED
      BY <3>1, <3>2
  <2>7. \A h \in Goroutines : AtWork(h)' /\ phase'[h[1]] \notin {"delete", "killed"} =>
          lock'[h[1]] = h
    <3>1. \A h \in Goroutines : AtWork(h)' => h[1] # p /\ AtWork(h)
      BY <1>5, <2>1, <2>4 DEF AtWork
    <3> QED
      BY <1>1, <1>3, <3>1 DEF WorkInv
  <2> QED
    BY <1>1, <1>3, <2>3, <2>5, <2>6, <2>7 DEF WorkInv
<1>7. /\ \A h \in Goroutines : at[h] \in {"truncate", "write"} => h[1] # p
      /\ \A h \in Goroutines : at'[h] \in {"create", "truncate", "write"} => h[1] # p /\ h # g
      /\ \A h \in Goroutines : h[1] # p => at'[h] = at[h] /\ (Running(h)' <=> Running(h))
                                          /\ phase'[h[1]] = phase[h[1]]
  BY <1>2, <1>3, <1>5 DEF Running
<1>8. \A h \in Goroutines : Writer(h)' <=> Writer(h)
  BY <1>7 DEF Writer
<1>9. DataInv' /\ (Doomed => Doomed')
  <2>1. CASE at[g] = "load"
    <3>1. stale' = stale \ {g} /\ UNCHANGED file
      BY <1>1, <2>1 DEF loadConfig
    <3> QED
      BY <1>1, <1>2, <1>7, <1>8, <3>1, DataKept
  <2>2. CASE at[g] = "create"
    <3>1. /\ file' = EmptyConfig /\ stale' = (stale \ {g}) \cup Outdated(g)
          /\ interfered' = (interfered \/ g \in stale)
      BY <1>1, <2>2 DEF loadConfig, Store
    <3>2. Doomed => Doomed'
      BY <1>7, <1>8, <3>1 DEF Doomed, Writer
    <3>3. \A h \in Goroutines : at'[h] \in {"create", "truncate"} => h \in stale'
      BY <1>1, <1>7, <3>1 DEF Outdated
    <3>4. ASSUME ~Doomed'
          PROVE  (\A h \in Goroutines : ~Writer(h)') /\ Within(kept, EmptyConfig)
      <4>1. ~Doomed /\ g \notin stale
        BY <3>1, <3>2, <3>4 DEF Doomed
      <4>2. file = NoFile
        BY <1>1, <2>2, <4>1 DEF DataInv
      <4>3. \A h \in Goroutines : ~Writer(h)
        BY <4>2 DEF DataInv
      <4> QED
        BY <1>8, <4>1, <4>2, <4>3, ConfigFacts DEF DataInv
    <3> QED
      BY <1>1, <3>1, <3>2, <3>3, <3>4, ConfigFacts DEF DataInv
  <2> QED
    BY <1>2, <2>1, <2>2
<1>10. HoldInv'
  <2>1. ASSUME NEW q \in Processes, Holds(q)' PROVE Holds(q)
    BY <1>1, <1>3, <2>1 DEF Holds
  <2>2. ASSUME NEW c \in Clusters, Recorded(c)' PROVE Recorded(c)
    <3>1. CASE Owner[c] = p
      BY <1>1, <3>1 DEF Recorded
    <3>2. CASE Owner[c] # p
      <4>1. Recorder(c) # g
        BY <3>2 DEF Recorder
      <4> QED
        BY <1>1, <1>3, <2>2, <3>2, <4>1 DEF Recorded
    <3> QED
      BY <3>1, <3>2
  <2> QED
    BY <1>1, <1>9, <2>1, <2>2, HoldKept
<1>11. OrphanInv'
  <2>1. ASSUME ~interfered', NEW c \in Mine(p) PROVE c \in deleting'
    <3>1. /\ ~Doomed /\ \A h \in Goroutines : ~Writer(h)
          /\ at[g] = "create" => file = NoFile
      <4>1. CASE at[g] = "load"
        <5>1. ~interfered /\ ~HalfWritten(g)
          BY <1>1, <2>1, <4>1 DEF loadConfig
        <5>2. \A h \in Goroutines : ~Writer(h)
          BY <1>1, <1>7, <5>1 DEF HalfWritten, Writer
        <5> QED
          BY <4>1, <5>1, <5>2 DEF Doomed
      <4>2. CASE at[g] = "create"
        <5>1. ~interfered /\ g \notin stale
          BY <1>1, <2>1, <4>2 DEF loadConfig, Store
        <5>2. file = NoFile
          BY <1>1, <4>2, <5>1 DEF DataInv
        <5>3. \A h \in Goroutines : ~Writer(h)
          BY <5>2 DEF DataInv
        <5> QED
          BY <5>1, <5>2, <5>3 DEF Doomed
      <4> QED
        BY <1>2, <4>1, <4>2
    <3>2. c \in Clusters /\ Owner[c] = p /\ <<n, c>> \in kept.clusters
      BY <1>1, <2>1, <3>1 DEF HoldInv, Recorded, Mine
    <3>3. file # NoFile /\ Within(kept, file)
      BY <3>1, <3>2 DEF DataInv, EmptyConfig
    <3>4. Loaded(g) = file
      BY <1>2, <3>1, <3>3 DEF Loaded
    <3> QED
      BY <1>1, <2>1, <3>2, <3>3, <3>4 DEF Within
  <2>2. ~Over(p)' /\ \A q \in Processes \ {p} : Over(q)' <=> Over(q)
    BY <1>1, <1>3 DEF Over
  <2>3. \A c \in alive : c \in Clusters /\ (Owner[c] = p => c \in Mine(p))
    BY DEF Mine, Types
  <2> QED
    BY <1>1, <1>2, <1>3, <2>1, <2>2, <2>3 DEF OrphanInv
<1> QED
  BY <1>4, <1>6, <1>9, <1>10, <1>11

(* The deletions: the processes and the file are left alone.               *)
LEMMA DeletionKeeps ==
    ASSUME IInv, NEW c \in Clusters, DeleteCluster(c) \/ DeleteClusterFails(c)
    PROVE  IInv'
<1> USE GoroutineFacts DEF IInv
<1>1. /\ UNCHANGED <<phase, failed, at, lock, copy, stale, file, interfered, kept>>
      /\ deleting' = deleting \ {c}
      /\ \/ alive' = alive \ {c} /\ UNCHANGED undeleted
         \/ UNCHANGED alive /\ undeleted' = undeleted \cup {c}
  BY DEF DeleteCluster, DeleteClusterFails, access
<1>2. faults' \in 0..MaxFaults
  BY ConfigAssumption DEF DeleteCluster, DeleteClusterFails, Fault, Types
<1>3. Types'
  BY <1>1, <1>2 DEF Types
<1>4. WorkInv'
  BY <1>1 DEF WorkInv, AtWork
<1>5. DataInv' /\ (Doomed => Doomed')
  BY <1>1, DataKept DEF Writer, Running
<1>6. HoldInv'
  BY <1>1, <1>5, HoldKept DEF Holds, Recorded
<1>7. OrphanInv'
  BY <1>1 DEF OrphanInv, Over
<1> QED
  BY <1>3, <1>4, <1>5, <1>6, <1>7

(* The deletions are over: what is left of the clusters could not go.      *)
LEMMA WaitKeeps ==
    ASSUME IInv, NEW p \in Processes, WaitDeletions(p)
    PROVE  IInv'
<1> USE GoroutineFacts DEF IInv, cloud
<1> DEFINE g == <<p, Main>>
<1>1. /\ g \in Goroutines /\ g[1] = p /\ g[2] = Main
      /\ phase[p] = "wait" /\ Mine(p) \cap deleting = {}
      /\ phase' = [phase EXCEPT ![p] = "remove"] /\ at' = [at EXCEPT ![g] = "lock"]
      /\ UNCHANGED <<failed, lock, copy, stale, file, cloud, faults, interfered, kept>>
  BY DEF WaitDeletions, Goto
<1>2. \A h \in Goroutines : h[1] = p => at[h] = "none"
  BY <1>1 DEF WorkInv
<1>3. /\ phase'[p] = "remove" /\ \A q \in Processes \ {p} : phase'[q] = phase[q]
      /\ at'[g] = "lock" /\ \A h \in Goroutines \ {g} : at'[h] = at[h]
  BY <1>1 DEF Types
<1>4. Types'
  BY <1>1 DEF Types, Phases, Steps
<1>5. WorkInv'
  <2>1. \A h \in Goroutines : AtWork(h)' <=> AtWork(h)
    BY <1>2, <1>3 DEF AtWork
  <2>2. lock[p] = Nobody
    BY <1>2, IdleProcess DEF AtWork
  <2>3. \A q \in Processes : lock[q] \in Goroutines \cup {Nobody}
    BY DEF Types
  <2>4. \A q \in Processes \ {p} : at'[<<q, Main>>] = at[<<q, Main>>]
    BY <1>3
  <2>5. \A h \in Goroutines : h[1] = p => ~AtWork(h)
    BY <1>2 DEF AtWork
  <2> QED
    BY <1>1, <1>2, <1>3, <2>1, <2>2, <2>3, <2>4, <2>5 DEF WorkInv
<1>6. \A h \in Goroutines : at'[h] \in {"create", "truncate", "write"} \/ at[h] = "write" =>
        h[1] # p /\ at'[h] = at[h] /\ (Running(h)' <=> Running(h)) /\ phase'[h[1]] = phase[h[1]]
  BY <1>2, <1>3 DEF Running
<1>7. DataInv' /\ (Doomed => Doomed')
  BY <1>1, <1>6, DataKept DEF Writer
<1>8. HoldInv'
  <2>1. ASSUME NEW q \in Processes, Holds(q)' PROVE Holds(q)
    BY <1>1, <1>3, <2>1 DEF Holds
  <2>2. ASSUME NEW c \in Clusters, Recorded(c)' PROVE Recorded(c)
    <3>1. Owner[c] # p /\ Recorder(c) # g
      BY <1>3, <2>2 DEF Recorded, Recorder
    <3> QED
      BY <1>1, <1>3, <2>2, <3>1 DEF Recorded
  <2> QED
    BY <1>1, <1>7, <2>1, <2>2, HoldKept
<1>9. OrphanInv'
  <2>1. ASSUME ~interfered, NEW c \in alive, Owner[c] = p PROVE c \in undeleted
    <3>1. c \in Clusters /\ c \in Mine(p)
      BY <2>1 DEF Mine, Types
    <3> QED
      BY <1>1, <2>1, <3>1 DEF OrphanInv
  <2>2. \A q \in Processes \ {p} : Over(q)' <=> Over(q)
    BY <1>1, <1>3 DEF Over
  <2>3. \A c \in alive : c \in Clusters
    BY DEF Types
  <2> QED
    BY <1>1, <1>3, <2>1, <2>2, <2>3 DEF OrphanInv
<1> QED
  BY <1>4, <1>5, <1>7, <1>8, <1>9

LEMMA TruncateKeeps ==
    ASSUME IInv, NEW g \in Goroutines, Truncate(g)
    PROVE  IInv'
<1> USE GoroutineFacts DEF IInv, cloud
<1>1. /\ Running(g) /\ at[g] = "truncate" /\ Goto(g, "write") /\ at' = [at EXCEPT ![g] = "write"]
      /\ file' = EmptyConfig /\ stale' = (stale \ {g}) \cup Outdated(g)
      /\ interfered' = (interfered \/ g \in stale)
      /\ UNCHANGED <<phase, failed, lock, copy, cloud, faults, kept>>
  BY DEF Truncate, Store, Goto
<1>2. AtWork(g) /\ phase[g[1]] # "delete"
  BY <1>1 DEF AtWork, WorkInv
<1>3. WorkInv' /\ at' \in [Goroutines -> Steps]
  BY <1>1, <1>2, WorkGoesOn DEF Steps
<1>4. Types'
  BY <1>1, <1>3, ConfigFacts DEF Types, Outdated
<1>5. at'[g] = "write" /\ \A h \in Goroutines \ {g} : at'[h] = at[h]
  BY <1>1 DEF Types
<1>6. \A h \in Goroutines : Running(h)' <=> Running(h)
  BY <1>1 DEF Running
<1>7. \A h \in Goroutines : h[1] = g[1] /\ AtWork(h) => h = g
  BY <1>1, <1>2, MutEx
<1>8. \A h \in Goroutines \ {g} : at[h] \in {"create", "truncate", "write"} => h \in stale'
  BY <1>1, <1>7 DEF Outdated, AtWork
<1>9. Doomed => Doomed'
  BY <1>1, <1>5, <1>6, <1>8 DEF Doomed, Writer
<1>10. DataInv'
  <2>1. \A h \in Goroutines : Running(h)' /\ at'[h] = "create" /\ h \notin stale' => file' = NoFile
    BY <1>5, <1>8
  <2>2. ASSUME ~Doomed'
        PROVE  /\ \A h \in Goroutines \ {g} : ~Writer(h)'
               /\ Good(g)'
    <3>1. ~Doomed /\ g \notin stale
      BY <1>1, <1>9, <2>2 DEF Doomed
    <3>2. \A h \in Goroutines \ {g} : ~Writer(h)'
      BY <1>5, <1>8, <2>2 DEF Doomed, Writer
    <3>3. \A h \in Goroutines : ~Writer(h)
      BY <1>1, <1>5, <1>6, <3>2 DEF Writer
    <3>4. Good(g)
      BY <1>1, <3>1, <3>3 DEF DataInv
    <3> QED
      BY <1>1, <3>2, <3>4 DEF Good, KeptAfter
  <2>3. Writer(g)'
    BY <1>1, <1>5, <1>6 DEF Writer
  <2> QED
    BY <1>1, <2>1, <2>2, <2>3, ConfigFacts DEF DataInv
<1>11. HoldInv'
  <2>1. ASSUME NEW q \in Processes, Holds(q)' PROVE Holds(q)
    BY <1>1, <1>5, <2>1 DEF Holds
  <2>2. ASSUME NEW c \in Clusters, Recorded(c)' PROVE Recorded(c)
    BY <1>1, <1>5, <2>2 DEF Recorded
  <2> QED
    BY <1>1, <1>9, <2>1, <2>2, HoldKept
<1>12. OrphanInv'
  BY <1>1, OrphanKept DEF Over
<1> QED
  BY <1>3, <1>4, <1>10, <1>11, <1>12

LEMMA WriteKeeps ==
    ASSUME IInv, NEW g \in Goroutines, Write(g)
    PROVE  IInv'
<1> USE GoroutineFacts DEF IInv, cloud
<1> DEFINE p == g[1]
           n == GridOf[p]
<1>1. /\ Running(g) /\ at[g] = "write" /\ Goto(g, "unlock") /\ at' = [at EXCEPT ![g] = "unlock"]
      /\ file' = copy[g] /\ stale' = (stale \ {g}) \cup Outdated(g)
      /\ interfered' = (interfered \/ g \in stale) /\ kept' = KeptAfter(g)
      /\ UNCHANGED <<phase, failed, lock, copy, cloud, faults>>
  BY DEF Write, Store, Goto
<1>2. AtWork(g) /\ phase[p] # "delete" /\ p \in Processes /\ n \in Names
  BY <1>1 DEF AtWork, WorkInv
<1>3. /\ phase[p] \in {"add", "record", "remove"}
      /\ phase[p] = "record" => g[2] \in Clusters /\ g[2] # Main /\ Owner[g[2]] = p
      /\ phase[p] \in {"add", "remove"} => g = <<p, Main>>
  BY <1>1, <1>2, Savers
<1>4. /\ KeptAfter(g) \in Configs
      /\ phase[p] = "add" => kept'.grids = kept.grids \cup {n} /\ kept'.clusters = kept.clusters
      /\ phase[p] = "record" =>
           kept'.grids = kept.grids /\ kept'.clusters = kept.clusters \cup {<<n, g[2]>>}
      /\ phase[p] = "remove" =>
           /\ kept'.grids = kept.grids \ {n}
           /\ kept'.clusters = {e \in kept.clusters : e[1] # n}
  BY <1>1, <1>3, KeptFacts
<1>5. WorkInv' /\ at' \in [Goroutines -> Steps]
  BY <1>1, <1>2, WorkGoesOn DEF Steps
<1>6. Types' /\ copy[g] \in Configs
  BY <1>1, <1>4, <1>5 DEF Types, Outdated
<1>7. at'[g] = "unlock" /\ \A h \in Goroutines \ {g} : at'[h] = at[h]
  BY <1>1 DEF Types
<1>8. \A h \in Goroutines : Running(h)' <=> Running(h)
  BY <1>1 DEF Running
<1>9. \A h \in Goroutines : h[1] = p /\ AtWork(h) => h = g
  BY <1>1, <1>2, MutEx
<1>10. \A h \in Goroutines \ {g} : at[h] \in {"create", "truncate", "write"} => h \in stale'
  BY <1>1, <1>9 DEF Outdated, AtWork
<1>11. ASSUME ~Doomed'
       PROVE  ~Doomed /\ Writer(g) /\ Good(g) /\ \A h \in Goroutines : ~Writer(h)'
  <2>1. \A h \in Goroutines : ~Writer(h)'
    BY <1>7, <1>10, <1>11 DEF Doomed, Writer
  <2>2. \A h \in Goroutines \ {g} : ~Writer(h)
    BY <1>7, <1>8, <2>1 DEF Writer
  <2>3. ~Doomed
    BY <1>1, <1>11, <2>2 DEF Doomed
  <2>4. Writer(g)
    BY <1>1 DEF Writer
  <2> QED
    BY <2>1, <2>3, <2>4 DEF DataInv
<1>12. DataInv'
  <2>1. /\ \A h \in Goroutines : at'[h] \in {"create", "truncate"} => h \in stale'
        /\ \A h \in Goroutines : Writer(h)' => file' # NoFile
    BY <1>1, <1>6, <1>7, <1>10, ConfigFacts
  <2>2. file' # NoFile
    BY <1>1, <1>6, ConfigFacts
  <2> QED
    BY <1>1, <1>11, <2>1, <2>2 DEF DataInv, Good
<1>13. HoldInv'
  <2> SUFFICES ASSUME ~Doomed'
               PROVE  /\ \A q \in Processes : Holds(q)' => GridOf[q] \in kept'.grids
                      /\ \A q, r \in Processes :
                           Holds(q)' /\ Holds(r)' /\ GridOf[q] = GridOf[r] => q = r
                      /\ \A c \in Clusters :
                           Recorded(c)' => <<GridOf[Owner[c]], c>> \in kept'.clusters
    BY DEF HoldInv
  <2>1. ~Doomed /\ Good(g)
    BY <1>11
  <2>2. /\ \A q \in Processes : Holds(q) => GridOf[q] \in kept.grids
        /\ \A q, r \in Processes : Holds(q) /\ Holds(r) /\ GridOf[q] = GridOf[r] => q = r
        /\ \A c \in Clusters : Recorded(c) => <<GridOf[Owner[c]], c>> \in kept.clusters
    BY <2>1 DEF HoldInv
  <2>3. \A q \in Processes \ {p} : Holds(q)' <=> Holds(q)
    BY <1>1, <1>7 DEF Holds
  <2>4. CASE phase[p] = "add"
    <3>1. \A q \in Processes \ {p} : Holds(q) => GridOf[q] # n
      BY <2>1, <2>2, <2>4 DEF Good
    <3>2. \A c \in Clusters : Recorded(c)' => Recorded(c)
      BY <1>1, <1>3, <1>7, <2>4 DEF Recorded, Recorder
    <3> QED
      BY <1>4, <2>2, <2>3, <2>4, <3>1, <3>2
  <2>5. CASE phase[p] = "record"
    <3>1. Holds(p) /\ Holds(p)'
      BY <1>1, <2>5 DEF Holds
    <3>2. ASSUME NEW c \in Clusters, Recorded(c)'
          PROVE  Recorded(c) \/ (c = g[2] /\ Owner[c] = p)
      <4>1. CASE Recorder(c) = g
        BY <1>3, <2>5, <4>1 DEF Recorder
      <4>2. CASE Recorder(c) # g
        BY <1>1, <1>7, <3>2, <4>2 DEF Recorded
      <4> QED
        BY <4>1, <4>2
    <3> QED
      BY <1>4, <2>2, <2>3, <2>5, <3>1, <3>2
  <2>6. CASE phase[p] = "remove"
    <3>1. Holds(p) /\ ~Holds(p)'
      BY <1>1, <1>3, <1>7, <2>6 DEF Holds
    <3>2. \A q \in Processes \ {p} : Holds(q) => GridOf[q] # n
      BY <1>2, <2>2, <3>1
    <3>3. ASSUME NEW c \in Clusters, Recorded(c)'
          PROVE  Recorded(c) /\ Holds(Owner[c]) /\ Owner[c] # p
      <4>1. Owner[c] # p /\ Recorder(c) # g
        BY <1>1, <2>6, <3>3 DEF Recorded, Recorder
      <4>2. Recorded(c)
        BY <1>1, <1>7, <3>3, <4>1 DEF Recorded
      <4> QED
        BY <4>1, <4>2 DEF Recorded, Holds
    <3> QED
      BY <1>4, <2>2, <2>3, <2>6, <3>1, <3>2, <3>3
  <2> QED
    BY <1>3, <2>4, <2>5, <2>6
<1>14. OrphanInv'
  BY <1>1, OrphanKept DEF Over
<1> QED
  BY <1>5, <1>6, <1>12, <1>13, <1>14

----------------------------------------------------------------------------
(* The whole program.                                                      *)

LEMMA InitInv == Init => IInv
<1> SUFFICES ASSUME Init PROVE IInv
  OBVIOUS
<1>1. /\ \A p \in Processes : phase[p] = "add" /\ lock[p] = Nobody
      /\ \A g \in Goroutines : at[g] = IF g[2] = Main THEN "lock" ELSE "none"
      /\ kept = EmptyConfig /\ file \in {NoFile, EmptyConfig}
      /\ \A p \in Processes : at[<<p, Main>>] = "lock"
  BY GoroutineFacts DEF Init
<1>2. Types
  <2>1. /\ phase \in [Processes -> Phases] /\ at \in [Goroutines -> Steps]
        /\ faults \in 0..MaxFaults
    BY ConfigAssumption DEF Init, Phases, Steps
  <2> QED
    BY <2>1, ConfigFacts DEF Init, Types
<1>3. WorkInv
  BY <1>1, GoroutineFacts DEF WorkInv, AtWork
<1>4. DataInv
  BY <1>1, ConfigFacts DEF DataInv, Writer
<1>5. HoldInv
  BY <1>1, GoroutineFacts DEF HoldInv, Holds, Recorded
<1>6. OrphanInv
  BY DEF Init, OrphanInv
<1> QED
  BY <1>2, <1>3, <1>4, <1>5, <1>6 DEF IInv

LEMMA NextInv == IInv /\ [Next]_vars => IInv'
<1> SUFFICES ASSUME IInv, [Next]_vars PROVE IInv'
  OBVIOUS
<1>1. ASSUME NEW g \in Goroutines, lockConfig(g) \/ Access(g) \/ FileFails(g) PROVE IInv'
  BY <1>1, LockKeeps, FindKeeps, TruncateKeeps, WriteKeeps, UnlockKeeps, FailKeeps DEF Access
<1>2. ASSUME NEW c \in Clusters,
             RecordCluster(c) \/ DeleteCluster(c) \/ DeleteClusterFails(c)
      PROVE  IInv'
  BY <1>2, RecordKeeps, DeletionKeeps
<1>3. ASSUME NEW p \in Processes, Command(p) \/ Kill(p) PROVE IInv'
  BY <1>3, AddKeeps, DeleteKeeps, WaitKeeps, RemoveKeeps, StartKeeps, ReturnKeeps,
     ExitKeeps, KillKeeps DEF Command
<1>4. CASE UNCHANGED vars
  <2>1. UNCHANGED <<phase, failed, at, lock, copy, stale, file>> /\ UNCHANGED cloud
        /\ UNCHANGED <<alive, deleting, undeleted, faults, interfered, kept>>
    BY <1>4 DEF vars, access, cloud
  <2>2. Types' /\ WorkInv' /\ OrphanInv'
    BY <2>1 DEF IInv, Types, WorkInv, OrphanInv, Over, AtWork
  <2>3. DataInv' /\ (Doomed => Doomed')
    BY <2>1, DataKept DEF IInv, Writer, Running
  <2>4. HoldInv'
    BY <2>1, <2>3, HoldKept DEF IInv, Holds, Recorded
  <2> QED
    BY <2>2, <2>3, <2>4 DEF IInv
<1> QED
  BY <1>1, <1>2, <1>3, <1>4 DEF Next

LEMMA Invariance == Spec => []IInv
BY InitInv, NextInv, PTL DEF Spec

(* Every variable holds what the code can put there; the mutex of a        *)
(* process is held by the goroutine of it that is at work on the file.     *)
THEOREM TypeCorrect == Spec => []TypeOK
<1>1. IInv => TypeOK
  BY DEF IInv, Types, WorkInv, TypeOK
<1> QED
  BY <1>1, Invariance, PTL

(* An entry that was saved stays in the file until its grid is removed,    *)
(* however many processes and goroutines take turns at it, unless a        *)
(* process saved a copy that another one had outdated, or a save ended     *)
(* half way.                                                               *)
THEOREM SavedEntriesStay == Spec => []EntriesKept
<1>1. IInv => EntriesKept
  <2> SUFFICES ASSUME IInv, ~interfered, ~Writing
               PROVE  file = NoFile \/ Within(kept, file)
    BY DEF EntriesKept, Within
  <2>1. \A g \in Goroutines : ~Writer(g)
    BY DEF Writing, Writer
  <2>2. ~Doomed
    BY <2>1 DEF Doomed
  <2> QED
    BY <2>1, <2>2 DEF IInv, DataInv
<1> QED
  BY <1>1, Invariance, PTL

(* A cluster is forgotten only when its deletion was tried and has failed: *)
(* once Create has succeeded, what exists is in the file or could not be   *)
(* deleted, with the same exceptions.                                      *)
THEOREM NothingForgotten == Spec => []NoOrphans
<1>1. IInv => NoOrphans
  <2> SUFFICES ASSUME IInv, ~interfered, ~Writing, NEW c \in alive,
                      phase[Owner[c]] \in {"delete", "wait", "remove", "exited"},
                      ~failed[Owner[c]], c \notin undeleted
               PROVE  Listed(c)
    BY DEF NoOrphans
  <2>1. ~Doomed /\ \A g \in Goroutines : ~Writer(g)
    BY DEF Doomed, Writing, Writer
  <2>2. c \in Clusters /\ Recorded(c)
    BY DEF IInv, Types, OrphanInv, Over, Recorded
  <2>3. <<GridOf[Owner[c]], c>> \in kept.clusters
    BY <2>1, <2>2 DEF IInv, HoldInv
  <2>4. file # NoFile /\ Within(kept, file)
    BY <2>1, <2>3 DEF IInv, DataInv, EmptyConfig
  <2> QED
    BY <2>3, <2>4 DEF Within, Listed
<1> QED
  BY <1>1, Invariance, PTL
=============================================================================
