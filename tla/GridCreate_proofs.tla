------------------------- MODULE GridCreate_proofs -------------------------
(***************************************************************************)
(* Proofs about GridCreate, for any set of clusters of any kinds: the type *)
(* invariant, mutual exclusion on the config file, and what a nil result   *)
(* of Create promises.                                                     *)
(***************************************************************************)
EXTENDS GridCreate, TLAPS

(* Where the goroutine of a cluster can be, given the cluster's kind.      *)
Places(c) == {"not started", "done"} \cup DOMAIN After[Kind[c]]

(* The steps a goroutine makes with the config mutex in hand.              *)
Holds(c) ==
    \/ at[c] \in {"load", "save", "unlock"}
    \/ Kind[c] = "existing" /\ at[c] = "report"

(* The steps after the kubeconfig was obtained, and after the entry was    *)
(* saved, on the path without errors.                                      *)
AfterSave(c) ==
    \/ at[c] \in {"unlock", "apiServer", "authMap", "nodes", "storageClass", "done"}
    \/ Kind[c] # "unknown" /\ at[c] = "report"
AfterKubeconfig(c) == at[c] \in {"lock", "load", "save"} \/ AfterSave(c)

(* The last steps, after which a goroutine sends nothing.                  *)
AtEnd(c) == at[c] = "done" \/ (at[c] = "unlock" /\ Kind[c] = "existing")

(* No cluster has failed so far, as far as its messages tell.              *)
NoErrors == createErrors = {} /\ \A c \in Clusters : channel[c] # Failure

Started == main = "wait" \/ result = "nil"

----------------------------------------------------------------------------
(* The inductive invariant, by parts.                                      *)

InPlace == \A c \in Clusters : at[c] \in Places(c)

(* The mutex is held by the goroutine that is between lock and unlock.     *)
LockInv == \A c \in Clusters : lock = c <=> Holds(c)

(* The collector stops after the last cluster has reported, and Create     *)
(* returns nil only after that and without errors.                         *)
CollectorInv ==
    /\ collector # "select" => completed = Clusters
    /\ main = "addGrid" => result = "none" /\ \A c \in Clusters : at[c] = "not started"
    /\ main = "wait" => result = "none"
    /\ result = "nil" => collector = "exited" /\ createErrors = {}

(* A success is the last message of its goroutine.                         *)
SuccessInv ==
    \A c \in Clusters :
        /\ channel[c] = Success => AtEnd(c)
        /\ c \in completed \ createErrors => AtEnd(c) /\ channel[c] = NoMessage

(* As long as nothing has failed, the config file has the grid and every   *)
(* entry that was written.                                                 *)
FileInv ==
    (NoErrors /\ Started) =>
        /\ file.grid
        /\ \A c \in Clusters :
             /\ AfterKubeconfig(c) => kubeconfig[c]
             /\ at[c] = "save" => copy[c] = file
             /\ AfterSave(c) => file.entry[c] = "complete"

IInv == TypeOK /\ InPlace /\ LockInv /\ CollectorInv /\ SuccessInv /\ FileInv

----------------------------------------------------------------------------
(* The table of steps.                                                     *)

LEMMA Domains ==
    /\ DOMAIN After["new"] = Steps \ {"secretKey", "done"}
    /\ DOMAIN After["existing"] = {"credentials", "secretKey", "getKubeconfig", "lock",
                                    "load", "save", "report", "unlock"}
    /\ DOMAIN After["unknown"] = {"report"}
BY SMT DEF After, Steps

LEMMA CloudTable ==
    ASSUME NEW k \in Kinds, NEW s \in CloudSteps, s \in DOMAIN After[k]
    PROVE  /\ After[k][s] \in Steps
           /\ After[k][s] \in DOMAIN After[k]
           /\ After[k][s] \notin {"load", "save", "unlock", "done"}
           /\ k = "existing" => After[k][s] # "report"
           /\ After[k][s] = "lock" => s = "getKubeconfig"
           /\ After[k][s] \in {"apiServer", "authMap", "nodes", "storageClass", "report"}
                => s \in {"apiServer", "authMap", "nodes", "storageClass"}
BY Domains, SMTT(30) DEF After, Kinds, CloudSteps, Steps

LEMMA ConfigTable ==
    ASSUME NEW k \in Kinds, NEW s \in DOMAIN After[k],
           s \in {"lock", "load", "save", "unlock"}
    PROVE  /\ k \in {"new", "existing"}
           /\ s = "lock" => After[k][s] = "load"
           /\ s = "load" => After[k][s] = "save"
           /\ s = "save" => After[k][s] = IF k = "new" THEN "unlock" ELSE "report"
           /\ s = "unlock" => After[k][s] = IF k = "new" THEN "apiServer" ELSE "done"
           /\ {"save", "unlock"} \subseteq DOMAIN After[k]
           /\ After[k][s] \in {"done"} \cup DOMAIN After[k]
BY Domains, SMTT(30) DEF After, Kinds, Steps

LEMMA ReportTable ==
    ASSUME NEW k \in Kinds
    PROVE  /\ After[k]["report"] = IF k = "existing" THEN "unlock" ELSE "done"
           /\ k = "existing" => "unlock" \in DOMAIN After[k]
BY Domains, SMTT(30) DEF After, Kinds, Steps

LEMMA FirstTable ==
    ASSUME NEW k \in Kinds
    PROVE  /\ First[k] \in DOMAIN After[k] \cap Steps
           /\ First[k] \in {"credentials", "report"}
           /\ First[k] = "report" => k = "unknown"
BY Domains, SMTT(30) DEF First, Kinds, Steps

LEMMA PlacesAreSteps ==
    ASSUME NEW c \in Clusters
    PROVE  /\ Kind[c] \in Kinds
           /\ Places(c) \subseteq Steps \cup {"not started"}
BY KindAssumption, Domains DEF Places, Kinds, Steps

LEMMA EmptyFileType == EmptyFile \in Files /\ [EmptyFile EXCEPT !.grid = TRUE] \in Files
BY DEF EmptyFile, Files, Entries

----------------------------------------------------------------------------
(* What the step of a goroutine leaves alone.                              *)

Others(c) ==
    /\ UNCHANGED <<main, result, collector, completed, createErrors>>
    /\ \A d \in Clusters \ {c} :
         /\ at'[d] = at[d] /\ channel'[d] = channel[d]
         /\ kubeconfig'[d] = kubeconfig[d] /\ copy'[d] = copy[d]

LEMMA KeepsInPlace ==
    ASSUME InPlace, NEW c \in Clusters, Others(c), at'[c] \in Places(c)
    PROVE  InPlace'
BY DEF InPlace, Others, Places

LEMMA KeepsLock ==
    ASSUME LockInv, NEW c \in Clusters, Others(c), lock' = lock, Holds(c)' <=> Holds(c)
    PROVE  LockInv'
BY DEF LockInv, Others, Holds

LEMMA KeepsCollector ==
    ASSUME CollectorInv, NEW c \in Clusters, Others(c), at[c] # "not started"
    PROVE  CollectorInv'
BY DEF CollectorInv, Others

LEMMA KeepsSuccess ==
    ASSUME SuccessInv, NEW c \in Clusters, Others(c),
           channel'[c] = Success => AtEnd(c)',
           AtEnd(c) => AtEnd(c)' /\ channel'[c] = NoMessage
    PROVE  SuccessInv'
BY DEF SuccessInv, Others, AtEnd

LEMMA KeepsFile ==
    ASSUME FileInv, NEW c \in Clusters, Others(c), file' = file,
           channel[c] = NoMessage,
           AfterKubeconfig(c)' => kubeconfig'[c] \/ (AfterKubeconfig(c) /\ kubeconfig'[c] = kubeconfig[c]),
           at'[c] = "save" => copy'[c] = file,
           AfterSave(c)' => AfterSave(c)
    PROVE  FileInv'
BY DEF FileInv, Others, AfterKubeconfig, AfterSave, NoErrors, Started, NoMessage, Failure

LEMMA FailureKeepsFile ==
    ASSUME NEW c \in Clusters, channel'[c] = Failure
    PROVE  FileInv'
BY DEF FileInv, NoErrors

----------------------------------------------------------------------------
(* The invariant holds initially, and Create's own steps preserve it.      *)

LEMMA InitEstablishes == Init => IInv
<1> SUFFICES ASSUME Init PROVE IInv
  OBVIOUS
<1>1. TypeOK
  BY EmptyFileType DEF Init, TypeOK
<1>2. InPlace /\ LockInv
  BY KindAssumption DEF Init, InPlace, Places, LockInv, Holds
<1>3. CollectorInv
  BY DEF Init, CollectorInv
<1>4. SuccessInv
  BY DEF Init, SuccessInv, NoMessage, Success
<1>5. FileInv
  BY DEF Init, FileInv, Started
<1> QED
  BY <1>1, <1>2, <1>3, <1>4, <1>5 DEF IInv

LEMMA AddGridPreserves == IInv /\ AddGrid => IInv'
<1> SUFFICES ASSUME IInv, AddGrid PROVE IInv'
  OBVIOUS
<1> USE DEF AddGrid
<1>1. \A c \in Clusters : /\ at'[c] \in DOMAIN After[Kind[c]] \cap Steps
                          /\ at'[c] \in {"credentials", "report"}
                          /\ at'[c] = "report" => Kind[c] = "unknown"
  <2> TAKE c \in Clusters
  <2>1. at'[c] = First[Kind[c]]
    OBVIOUS
  <2>2. Kind[c] \in Kinds
    BY PlacesAreSteps
  <2> QED
    BY <2>1, <2>2, FirstTable
<1>2. TypeOK'
  <2>1. at' \in [Clusters -> Steps \cup {"not started"}]
    BY <1>1
  <2>2. file' \in Files
    BY DEF IInv, TypeOK, Files
  <2> QED
    BY <2>1, <2>2 DEF IInv, TypeOK
<1>3. InPlace'
  BY <1>1 DEF InPlace, Places
<1>4. LockInv'
  <2>1. \A c \in Clusters : ~Holds(c)'
    BY <1>1 DEF Holds
  <2>2. \A c \in Clusters : ~Holds(c)
    BY DEF IInv, CollectorInv, Holds
  <2> QED
    BY <2>1, <2>2 DEF IInv, LockInv
<1>5. CollectorInv'
  BY DEF IInv, CollectorInv, TypeOK
<1>6. SuccessInv'
  BY DEF IInv, SuccessInv, CollectorInv, AtEnd
<1>7. FileInv'
  <2>1. file'.grid
    BY DEF IInv, TypeOK, Files
  <2> QED
    BY <1>1, <2>1 DEF FileInv, AfterKubeconfig, AfterSave
<1> QED
  BY <1>2, <1>3, <1>4, <1>5, <1>6, <1>7 DEF IInv

LEMMA AddGridFailsPreserves == IInv /\ AddGridFails => IInv'
<1> SUFFICES ASSUME IInv, AddGridFails PROVE IInv'
  OBVIOUS
<1> USE DEF AddGridFails, IInv
<1>1. TypeOK'
  BY EmptyFileType DEF TypeOK, creators
<1>2. InPlace' /\ LockInv'
  BY DEF InPlace, Places, LockInv, Holds, creators
<1>3. CollectorInv'
  BY DEF CollectorInv, creators
<1>4. SuccessInv'
  BY DEF SuccessInv, AtEnd, creators
<1>5. FileInv'
  BY DEF FileInv, Started
<1> QED
  BY <1>1, <1>2, <1>3, <1>4, <1>5

LEMMA ReturnPreserves == IInv /\ Return => IInv'
<1> SUFFICES ASSUME IInv, Return PROVE IInv'
  OBVIOUS
<1> USE DEF Return, IInv
<1>1. TypeOK'
  BY DEF TypeOK, creators, config
<1>2. InPlace' /\ LockInv'
  BY DEF InPlace, Places, LockInv, Holds, creators, config
<1>3. CollectorInv'
  BY DEF CollectorInv, creators
<1>4. SuccessInv'
  BY DEF SuccessInv, AtEnd, creators
<1>5. FileInv'
  BY DEF FileInv, NoErrors, Started, AfterKubeconfig, AfterSave, creators, config
<1> QED
  BY <1>1, <1>2, <1>3, <1>4, <1>5

(* The collector takes a message: a failure is remembered, a success was   *)
(* the goroutine's last.                                                   *)
LEMMA ReceivePreserves ==
    ASSUME IInv, NEW c \in Clusters, Receive(c)
    PROVE  IInv'
<1> USE DEF Receive, IInv
<1>1. TypeOK'
  BY DEF TypeOK, config
<1>2. InPlace' /\ LockInv'
  BY DEF InPlace, Places, LockInv, Holds, config
<1>3. CollectorInv'
  BY DEF CollectorInv
<1>4. SuccessInv'
  BY DEF SuccessInv, AtEnd, TypeOK, NoMessage, Success
<1>5. NoErrors' => NoErrors
  BY DEF NoErrors, TypeOK, NoMessage, Success, Failure
<1>6. FileInv'
  BY <1>5 DEF FileInv, Started, AfterKubeconfig, AfterSave, config
<1> QED
  BY <1>1, <1>2, <1>3, <1>4, <1>6

----------------------------------------------------------------------------
(* The steps of a goroutine.                                               *)

LEMMA AtConfig ==
    ASSUME InPlace, NEW c \in Clusters, at[c] \in {"lock", "load", "save", "unlock"}
    PROVE  /\ Kind[c] \in {"new", "existing"}
           /\ at[c] = "lock" => After[Kind[c]][at[c]] = "load"
           /\ at[c] = "load" => After[Kind[c]][at[c]] = "save"
           /\ at[c] = "save" =>
                 After[Kind[c]][at[c]] = IF Kind[c] = "new" THEN "unlock" ELSE "report"
           /\ at[c] = "unlock" =>
                 After[Kind[c]][at[c]] = IF Kind[c] = "new" THEN "apiServer" ELSE "done"
           /\ After[Kind[c]][at[c]] \in Places(c)
           /\ {"save", "unlock"} \subseteq Places(c)
<1> DEFINE k == Kind[c]
           s == at[c]
<1>1. k \in Kinds /\ s \in DOMAIN After[k]
  BY PlacesAreSteps DEF InPlace, Places
<1>2. s \in {"lock", "load", "save", "unlock"}
  OBVIOUS
<1>3. Places(c) = {"not started", "done"} \cup DOMAIN After[k]
  BY DEF Places
<1> HIDE DEF k, s
<1>4. /\ k \in {"new", "existing"}
      /\ s = "lock" => After[k][s] = "load"
      /\ s = "load" => After[k][s] = "save"
      /\ s = "save" => After[k][s] = IF k = "new" THEN "unlock" ELSE "report"
      /\ s = "unlock" => After[k][s] = IF k = "new" THEN "apiServer" ELSE "done"
      /\ {"save", "unlock"} \subseteq DOMAIN After[k]
      /\ After[k][s] \in {"done"} \cup DOMAIN After[k]
  BY <1>1, <1>2, ConfigTable
<1> QED
  BY <1>3, <1>4 DEF k, s

LEMMA lockConfigPreserves ==
    ASSUME IInv, NEW c \in Clusters, lockConfig(c)
    PROVE  IInv'
<1> USE DEF IInv, lockConfig, Runs, Proceed, Goto
<1>1. /\ at[c] = "lock" /\ channel[c] = NoMessage
      /\ at'[c] = "load" /\ "load" \in Places(c)
      /\ at' = [at EXCEPT ![c] = "load"]
  <2>1. at[c] = "lock" /\ channel[c] = NoMessage
    OBVIOUS
  <2>2. After[Kind[c]][at[c]] = "load" /\ "load" \in Places(c)
    BY <2>1, AtConfig
  <2> QED
    BY <2>1, <2>2 DEF TypeOK
<1>2. Others(c)
  BY DEF Others
<1>3. TypeOK'
  BY <1>1 DEF TypeOK, Steps
<1>4. InPlace'
  BY <1>1, <1>2, KeepsInPlace
<1>5. LockInv'
  BY <1>1, <1>2, KindAssumption DEF LockInv, Others, Holds
<1>6. CollectorInv'
  BY <1>1, <1>2, KeepsCollector
<1>7. SuccessInv'
  BY <1>1, <1>2, KeepsSuccess DEF AtEnd, NoMessage, Success
<1>8. FileInv'
  BY <1>1, <1>2, KeepsFile DEF AfterKubeconfig, AfterSave
<1> QED
  BY <1>3, <1>4, <1>5, <1>6, <1>7, <1>8

LEMMA loadConfigPreserves ==
    ASSUME IInv, NEW c \in Clusters, loadConfig(c)
    PROVE  IInv'
<1> USE DEF IInv, loadConfig, Runs, Proceed, Goto
<1>1. /\ at[c] = "load" /\ channel[c] = NoMessage
      /\ at'[c] = "save" /\ "save" \in Places(c) /\ copy'[c] = file
      /\ at' = [at EXCEPT ![c] = "save"]
  <2>1. at[c] = "load" /\ channel[c] = NoMessage
    OBVIOUS
  <2>2. After[Kind[c]][at[c]] = "save" /\ "save" \in Places(c)
    BY <2>1, AtConfig
  <2> QED
    BY <2>1, <2>2 DEF TypeOK
<1>2. Others(c)
  BY DEF Others
<1>3. TypeOK'
  BY <1>1 DEF TypeOK, Steps
<1>4. InPlace'
  BY <1>1, <1>2, KeepsInPlace
<1>5. LockInv'
  BY <1>1, <1>2, KeepsLock DEF Holds
<1>6. CollectorInv'
  BY <1>1, <1>2, KeepsCollector
<1>7. SuccessInv'
  BY <1>1, <1>2, KeepsSuccess DEF AtEnd, NoMessage, Success
<1>8. FileInv'
  BY <1>1, <1>2, KeepsFile DEF AfterKubeconfig, AfterSave
<1> QED
  BY <1>3, <1>4, <1>5, <1>6, <1>7, <1>8

LEMMA loadConfigFailsPreserves ==
    ASSUME IInv, NEW c \in Clusters, loadConfigFails(c)
    PROVE  IInv'
<1> USE DEF IInv, loadConfigFails, Runs, SendError, Send, AfterError, Goto, config
<1>1. /\ at[c] = "load" /\ channel[c] = NoMessage
      /\ at'[c] = "unlock" /\ "unlock" \in Places(c)
      /\ at' = [at EXCEPT ![c] = "unlock"]
      /\ channel'[c] = Failure
  <2>1. at[c] = "load" /\ channel[c] = NoMessage
    OBVIOUS
  <2>2. "unlock" \in Places(c)
    BY <2>1, AtConfig
  <2>3. AfterError(Kind[c], at[c]) = "unlock"
    BY <2>1
  <2> HIDE DEF AfterError
  <2> QED
    BY <2>1, <2>2, <2>3 DEF TypeOK
<1>2. Others(c)
  BY DEF Others
<1>3. TypeOK'
  BY <1>1 DEF TypeOK, Steps
<1>4. InPlace'
  BY <1>1, <1>2, KeepsInPlace
<1>5. LockInv'
  BY <1>1, <1>2, KeepsLock DEF Holds
<1>6. CollectorInv'
  BY <1>1, <1>2, KeepsCollector
<1>7. SuccessInv'
  BY <1>1, <1>2, KeepsSuccess DEF AtEnd, Failure, Success
<1>8. FileInv'
  BY <1>1, FailureKeepsFile
<1> QED
  BY <1>3, <1>4, <1>5, <1>6, <1>7, <1>8

(* Only this goroutine has the mutex, so the copy it writes back differs   *)
(* from the file in its own entry alone.                                   *)
LEMMA saveConfigPreserves ==
    ASSUME IInv, NEW c \in Clusters, saveConfig(c)
    PROVE  IInv'
<1> DEFINE next == IF Kind[c] = "new" THEN "unlock" ELSE "report"
<1> USE DEF IInv, saveConfig, Runs, Proceed, Goto
<1>1. /\ at[c] = "save" /\ channel[c] = NoMessage
      /\ at'[c] = next /\ next \in Places(c) /\ Kind[c] \in {"new", "existing"}
      /\ at' = [at EXCEPT ![c] = next]
  <2>1. at[c] = "save" /\ channel[c] = NoMessage
    OBVIOUS
  <2>2. Kind[c] \in {"new", "existing"}
    BY <2>1, AtConfig
  <2>3. After[Kind[c]][at[c]] = next
    BY <2>1, AtConfig
  <2>4. After[Kind[c]][at[c]] \in Places(c)
    BY <2>1, AtConfig
  <2>5. at' = [at EXCEPT ![c] = After[Kind[c]][at[c]]]
    OBVIOUS
  <2> HIDE DEF next, saveConfig
  <2> QED
    BY <2>1, <2>2, <2>3, <2>4, <2>5 DEF TypeOK
<1>2. Others(c)
  <2>1. UNCHANGED <<main, result, collector, completed, createErrors, channel, kubeconfig, copy>>
    OBVIOUS
  <2> HIDE DEF saveConfig
  <2> QED
    BY <1>1, <2>1 DEF Others, TypeOK
<1>3. TypeOK'
  <2>1. copy[c] \in Files /\ file' \in Files
    BY DEF TypeOK, Files, Entries
  <2> QED
    BY <1>1, <2>1 DEF TypeOK, Steps
<1>4. InPlace'
  BY <1>1, <1>2, KeepsInPlace
<1>5. LockInv'
  BY <1>1, <1>2, KeepsLock DEF Holds
<1>6. CollectorInv'
  BY <1>1, <1>2, KeepsCollector
<1>7. SuccessInv'
  BY <1>1, <1>2, KeepsSuccess DEF AtEnd, NoMessage, Success
<1>8. FileInv'
  <2>1. SUFFICES ASSUME NoErrors, Started
                 PROVE  /\ file'.grid
                        /\ \A d \in Clusters :
                             /\ AfterKubeconfig(d)' => kubeconfig'[d]
                             /\ at'[d] = "save" => copy'[d] = file'
                             /\ AfterSave(d)' => file'.entry[d] = "complete"
    BY DEF FileInv, NoErrors, Started
  <2>2. copy[c] = file /\ file.grid /\ kubeconfig[c]
    BY <1>1, <2>1 DEF FileInv, AfterKubeconfig
  <2>3. /\ file'.grid /\ file'.entry[c] = "complete"
        /\ \A d \in Clusters \ {c} : file'.entry[d] = file.entry[d]
    BY <2>2 DEF TypeOK, Files
  <2>4. \A d \in Clusters \ {c} : at[d] # "save"
    BY <1>1 DEF LockInv, Holds
  <2>5. \A d \in Clusters \ {c} :
          /\ AfterKubeconfig(d)' => AfterKubeconfig(d)
          /\ AfterSave(d)' => AfterSave(d)
    BY <1>2 DEF Others, AfterKubeconfig, AfterSave
  <2>6. at'[c] # "save"
    BY <1>1
  <2> QED
    BY <1>2, <2>1, <2>2, <2>3, <2>4, <2>5, <2>6 DEF FileInv, Others
<1> QED
  BY <1>3, <1>4, <1>5, <1>6, <1>7, <1>8

LEMMA saveConfigFailsPreserves ==
    ASSUME IInv, NEW c \in Clusters, saveConfigFails(c)
    PROVE  IInv'
<1> DEFINE next == IF Kind[c] = "new" THEN "unlock" ELSE "report"
<1> USE DEF IInv, saveConfigFails, Runs, SendError, Send, Goto
<1>1. /\ at[c] = "save" /\ channel[c] = NoMessage
      /\ at'[c] = next /\ next \in Places(c) /\ Kind[c] \in {"new", "existing"}
      /\ at' = [at EXCEPT ![c] = next]
      /\ channel'[c] = Failure
  <2>1. at[c] = "save" /\ channel[c] = NoMessage
    OBVIOUS
  <2>2. Kind[c] \in {"new", "existing"}
    BY <2>1, AtConfig
  <2>3. After[Kind[c]][at[c]] = next
    BY <2>1, AtConfig
  <2>4. After[Kind[c]][at[c]] \in Places(c)
    BY <2>1, AtConfig
  <2>5. at' = [at EXCEPT ![c] = After[Kind[c]][at[c]]]
    BY <2>1 DEF AfterError
  <2> HIDE DEF next
  <2> QED
    BY <2>1, <2>2, <2>3, <2>4, <2>5 DEF TypeOK
<1>2. Others(c)
  BY DEF Others
<1>3. TypeOK'
  BY <1>1, EmptyFileType DEF TypeOK, Steps
<1>4. InPlace'
  BY <1>1, <1>2, KeepsInPlace
<1>5. LockInv'
  BY <1>1, <1>2, KeepsLock DEF Holds
<1>6. CollectorInv'
  BY <1>1, <1>2, KeepsCollector
<1>7. SuccessInv'
  BY <1>1, <1>2, KeepsSuccess DEF AtEnd, Failure, Success
<1>8. FileInv'
  BY <1>1, FailureKeepsFile
<1> QED
  BY <1>3, <1>4, <1>5, <1>6, <1>7, <1>8

LEMMA unlockConfigPreserves ==
    ASSUME IInv, NEW c \in Clusters, unlockConfig(c)
    PROVE  IInv'
<1> DEFINE next == IF Kind[c] = "new" THEN "apiServer" ELSE "done"
<1> USE DEF IInv, unlockConfig, Runs, Proceed, Goto
<1>1. /\ at[c] = "unlock" /\ channel[c] = NoMessage
      /\ at'[c] = next /\ next \in Places(c) /\ Kind[c] \in {"new", "existing"}
      /\ at' = [at EXCEPT ![c] = next]
  <2>1. at[c] = "unlock" /\ channel[c] = NoMessage
    OBVIOUS
  <2>2. Kind[c] \in {"new", "existing"}
    BY <2>1, AtConfig
  <2>3. After[Kind[c]][at[c]] = next
    BY <2>1, AtConfig
  <2>4. After[Kind[c]][at[c]] \in Places(c)
    BY <2>1, AtConfig
  <2>5. at' = [at EXCEPT ![c] = After[Kind[c]][at[c]]]
    OBVIOUS
  <2> HIDE DEF next
  <2> QED
    BY <2>1, <2>2, <2>3, <2>4, <2>5 DEF TypeOK
<1>2. Others(c)
  BY DEF Others
<1>3. TypeOK'
  BY <1>1 DEF TypeOK, Steps
<1>4. InPlace'
  BY <1>1, <1>2, KeepsInPlace
<1>5. LockInv'
  BY <1>1, <1>2, KindAssumption DEF LockInv, Others, Holds
<1>6. CollectorInv'
  BY <1>1, <1>2, KeepsCollector
<1>7. SuccessInv'
  BY <1>1, <1>2, KeepsSuccess DEF AtEnd, NoMessage, Success
<1>8. FileInv'
  BY <1>1, <1>2, KeepsFile DEF AfterKubeconfig, AfterSave
<1> QED
  BY <1>3, <1>4, <1>5, <1>6, <1>7, <1>8

LEMMA ReportPreserves ==
    ASSUME IInv, NEW c \in Clusters, Report(c)
    PROVE  IInv'
<1> DEFINE next == IF Kind[c] = "existing" THEN "unlock" ELSE "done"
           message == IF Kind[c] = "unknown" THEN Failure ELSE Success
<1> USE DEF IInv, Report, Runs, Send, Goto
<1>1. /\ at[c] = "report" /\ channel[c] = NoMessage
      /\ at'[c] = next /\ next \in Places(c) /\ Kind[c] \in Kinds
      /\ at' = [at EXCEPT ![c] = next]
      /\ channel'[c] = message
  <2>1. Kind[c] \in Kinds
    BY PlacesAreSteps
  <2>2. After[Kind[c]]["report"] = next
    BY <2>1, ReportTable
  <2>3. next \in Places(c)
    BY <2>1, ReportTable DEF Places
  <2>4. /\ at[c] = "report" /\ channel[c] = NoMessage
        /\ at' = [at EXCEPT ![c] = After[Kind[c]]["report"]]
        /\ channel' = [channel EXCEPT ![c] = message]
    OBVIOUS
  <2> HIDE DEF next, message, Report
  <2> QED
    BY <2>1, <2>2, <2>3, <2>4 DEF TypeOK
<1>2. Others(c)
  BY DEF Others, config
<1>3. TypeOK'
  BY <1>1 DEF TypeOK, Steps, config
<1>4. InPlace'
  BY <1>1, <1>2, KeepsInPlace
<1>5. LockInv'
  BY <1>1, <1>2, KeepsLock DEF Holds, config
<1>6. CollectorInv'
  BY <1>1, <1>2, KeepsCollector
<1>7. SuccessInv'
  BY <1>1, <1>2, KeepsSuccess DEF AtEnd
<1>8. FileInv'
  <2>1. CASE Kind[c] = "unknown"
    BY <1>1, <2>1, FailureKeepsFile
  <2>2. CASE Kind[c] # "unknown"
    BY <1>1, <1>2, <2>2, KeepsFile DEF AfterKubeconfig, AfterSave, config
  <2> QED
    BY <2>1, <2>2
<1> QED
  BY <1>3, <1>4, <1>5, <1>6, <1>7, <1>8

(* A call outside the config file: it is made without the mutex.           *)
LEMMA AtCall ==
    ASSUME InPlace, NEW c \in Clusters, at[c] \in CloudSteps
    PROVE  /\ After[Kind[c]][at[c]] \in Places(c) \cap Steps
           /\ After[Kind[c]][at[c]] \notin {"load", "save", "unlock", "done"}
           /\ Kind[c] = "existing" => After[Kind[c]][at[c]] # "report"
           /\ After[Kind[c]][at[c]] = "lock" => at[c] = "getKubeconfig"
           /\ After[Kind[c]][at[c]]
                 \in {"apiServer", "authMap", "nodes", "storageClass", "report"}
                => at[c] \in {"apiServer", "authMap", "nodes", "storageClass"}
<1> DEFINE k == Kind[c]
           s == at[c]
<1>1. k \in Kinds /\ s \in DOMAIN After[k] /\ s \in CloudSteps
  BY PlacesAreSteps DEF InPlace, Places, CloudSteps
<1>2. Places(c) = {"not started", "done"} \cup DOMAIN After[k]
  BY DEF Places
<1> HIDE DEF k, s
<1>3. /\ After[k][s] \in Steps
      /\ After[k][s] \in DOMAIN After[k]
      /\ After[k][s] \notin {"load", "save", "unlock", "done"}
      /\ k = "existing" => After[k][s] # "report"
      /\ After[k][s] = "lock" => s = "getKubeconfig"
      /\ After[k][s] \in {"apiServer", "authMap", "nodes", "storageClass", "report"}
           => s \in {"apiServer", "authMap", "nodes", "storageClass"}
  BY <1>1, CloudTable
<1> QED
  BY <1>2, <1>3 DEF k, s

LEMMA CallSucceedsPreserves ==
    ASSUME IInv, NEW c \in Clusters, CallSucceeds(c)
    PROVE  IInv'
<1> DEFINE next == After[Kind[c]][at[c]]
<1> USE DEF IInv
<1>1. /\ at[c] \in CloudSteps /\ channel[c] = NoMessage
      /\ at' = [at EXCEPT ![c] = next] /\ channel' = channel
      /\ kubeconfig' = IF at[c] = "getKubeconfig"
                       THEN [kubeconfig EXCEPT ![c] = TRUE]
                       ELSE kubeconfig
      /\ UNCHANGED <<main, result, collector, completed, createErrors, lock, file, copy>>
  BY DEF CallSucceeds, Runs, Proceed, Goto, config
<1>2. /\ next \in Places(c) \cap Steps
      /\ next \notin {"load", "save", "unlock", "done"}
      /\ Kind[c] = "existing" => next # "report"
      /\ next = "lock" => at[c] = "getKubeconfig"
      /\ next \in {"apiServer", "authMap", "nodes", "storageClass", "report"}
           => at[c] \in {"apiServer", "authMap", "nodes", "storageClass"}
  BY <1>1, AtCall
<1> HIDE DEF next
<1>3. at'[c] = next
  BY <1>1 DEF TypeOK
<1>4. Others(c)
  BY <1>1 DEF Others, TypeOK
<1>5. TypeOK'
  BY <1>1, <1>2 DEF TypeOK
<1>6. InPlace'
  BY <1>2, <1>3, <1>4, KeepsInPlace
<1>7. LockInv'
  BY <1>1, <1>2, <1>3, <1>4, KeepsLock DEF Holds, CloudSteps
<1>8. CollectorInv'
  BY <1>1, <1>4, KeepsCollector DEF CloudSteps
<1>9. SuccessInv'
  BY <1>1, <1>3, <1>4, KeepsSuccess DEF AtEnd, NoMessage, Success, CloudSteps
<1>10. FileInv'
  <2>1. AfterSave(c)' => AfterSave(c)
    BY <1>1, <1>2, <1>3 DEF AfterSave
  <2>2. AfterKubeconfig(c)' =>
           kubeconfig'[c] \/ (AfterKubeconfig(c) /\ kubeconfig'[c] = kubeconfig[c])
    BY <1>1, <1>2, <1>3, <2>1 DEF AfterKubeconfig, AfterSave, TypeOK
  <2> QED
    BY <1>1, <1>2, <1>3, <1>4, <2>1, <2>2, KeepsFile
<1> QED
  BY <1>5, <1>6, <1>7, <1>8, <1>9, <1>10

LEMMA CallFailsPreserves ==
    ASSUME IInv, NEW c \in Clusters, CallFails(c)
    PROVE  IInv'
<1> DEFINE next == AfterError(Kind[c], at[c])
<1> USE DEF IInv
<1>1. /\ at[c] \in CloudSteps /\ channel[c] = NoMessage
      /\ at' = [at EXCEPT ![c] = next]
      /\ channel' = [channel EXCEPT ![c] = Failure]
      /\ UNCHANGED <<main, result, collector, completed, createErrors,
                     kubeconfig, lock, file, copy>>
  BY DEF CallFails, Runs, SendError, Send, Goto, config
<1>2. /\ next \in Places(c) \cap Steps
      /\ next \notin {"load", "save", "unlock"}
      /\ Kind[c] = "existing" => next # "report"
  BY <1>1, AtCall DEF AfterError, Places, Steps, CloudSteps
<1> HIDE DEF next
<1>3. at'[c] = next /\ channel'[c] = Failure
  BY <1>1 DEF TypeOK
<1>4. Others(c)
  BY <1>1 DEF Others, TypeOK
<1>5. TypeOK'
  BY <1>1, <1>2 DEF TypeOK
<1>6. InPlace'
  BY <1>2, <1>3, <1>4, KeepsInPlace
<1>7. LockInv'
  BY <1>1, <1>2, <1>3, <1>4, KeepsLock DEF Holds, CloudSteps
<1>8. CollectorInv'
  BY <1>1, <1>4, KeepsCollector DEF CloudSteps
<1>9. SuccessInv'
  BY <1>1, <1>3, <1>4, KeepsSuccess DEF AtEnd, Failure, Success, CloudSteps
<1>10. FileInv'
  BY <1>3, FailureKeepsFile
<1> QED
  BY <1>5, <1>6, <1>7, <1>8, <1>9, <1>10

----------------------------------------------------------------------------
LEMMA NextPreserves == IInv /\ [Next]_vars => IInv'
<1> SUFFICES ASSUME IInv, [Next]_vars PROVE IInv'
  OBVIOUS
<1>1. CASE AddGrid \/ AddGridFails \/ Return
  BY <1>1, AddGridPreserves, AddGridFailsPreserves, ReturnPreserves
<1>2. ASSUME NEW c \in Clusters, Receive(c) PROVE IInv'
  BY <1>2, ReceivePreserves
<1>3. ASSUME NEW c \in Clusters, CreatorStep(c) PROVE IInv'
  <2>1. CASE CallSucceeds(c) \/ CallFails(c)
    BY <2>1, CallSucceedsPreserves, CallFailsPreserves
  <2>2. CASE lockConfig(c) \/ unlockConfig(c)
    BY <2>2, lockConfigPreserves, unlockConfigPreserves
  <2>3. CASE loadConfig(c) \/ loadConfigFails(c)
    BY <2>3, loadConfigPreserves, loadConfigFailsPreserves
  <2>4. CASE saveConfig(c) \/ saveConfigFails(c)
    BY <2>4, saveConfigPreserves, saveConfigFailsPreserves
  <2>5. CASE Report(c)
    BY <2>5, ReportPreserves
  <2> QED
    BY <1>3, <2>1, <2>2, <2>3, <2>4, <2>5 DEF CreatorStep
<1>4. CASE UNCHANGED vars
  <2> USE <1>4 DEF vars, creators, config, IInv
  <2>1. TypeOK' /\ InPlace'
    BY DEF TypeOK, InPlace, Places
  <2>2. LockInv' /\ CollectorInv'
    BY DEF LockInv, Holds, CollectorInv
  <2>3. SuccessInv'
    BY DEF SuccessInv, AtEnd
  <2>4. FileInv'
    BY DEF FileInv, NoErrors, Started, AfterKubeconfig, AfterSave
  <2> QED
    BY <2>1, <2>2, <2>3, <2>4
<1> QED
  BY <1>1, <1>2, <1>3, <1>4 DEF Next

THEOREM Invariance == Spec => []IInv
BY InitEstablishes, NextPreserves, PTL DEF Spec

----------------------------------------------------------------------------
(* The results.                                                            *)

(* Every variable holds what the code can put there, whatever the clusters *)
(* of the grid are.                                                        *)
THEOREM TypeCorrect == Spec => []TypeOK
<1>1. IInv => TypeOK
  BY DEF IInv
<1> QED
  BY <1>1, Invariance, PTL

(* The config mutex does its job: two goroutines are never between their   *)
(* loadConfig and saveConfig at a time, although some of them report, and  *)
(* may be stuck, in between.                                               *)
ConfigIsExclusive ==
    \A c, d \in Clusters :
        (at[c] \in {"load", "save"} /\ at[d] \in {"load", "save"}) => c = d

THEOREM MutualExclusion == Spec => []ConfigIsExclusive
<1>1. IInv => ConfigIsExclusive
  BY DEF IInv, LockInv, Holds, ConfigIsExclusive
<1> QED
  BY <1>1, Invariance, PTL

(* create.go:23: when Create returns nil, every cluster is ready and has a *)
(* complete entry in the config file.                                      *)
THEOREM NilIsReady == Spec => []NilMeansReady
<1>1. IInv => NilMeansReady
  <2> SUFFICES ASSUME IInv, result = "nil", NEW c \in Clusters
               PROVE  /\ at[c] \in {"unlock", "done"}
                      /\ file.grid
                      /\ file.entry[c] = "complete"
    BY DEF NilMeansReady
  <2> USE DEF IInv
  <2>1. \A d \in Clusters : AtEnd(d) /\ channel[d] = NoMessage
    BY DEF CollectorInv, SuccessInv
  <2>2. NoErrors /\ Started
    BY <2>1 DEF NoErrors, Started, CollectorInv, NoMessage, Failure
  <2> QED
    BY <2>1, <2>2 DEF FileInv, AtEnd, AfterSave
<1> QED
  BY <1>1, Invariance, PTL

(* After a success no goroutine of Create is left blocked on its channel.  *)
THEOREM NothingLeaks == Spec => []NoLeakAfterSuccess
<1>1. IInv => NoLeakAfterSuccess
  BY DEF IInv, CollectorInv, SuccessInv, NoLeakAfterSuccess
<1> QED
  BY <1>1, Invariance, PTL
=============================================================================
