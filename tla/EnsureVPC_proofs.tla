-------------------------- MODULE EnsureVPC_proofs --------------------------
(***************************************************************************)
(* Proofs about EnsureVPC, for any set of attempts: the type invariant,    *)
(* and that attempts one after another make one piece of each kind and     *)
(* route every subnet, however the earlier ones failed.                    *)
(***************************************************************************)
EXTENDS EnsureVPC, FiniteSetTheorems, TLAPS

Fields == DOMAIN NothingYet
TableStages == {"publicTable", "privateTables"}

(* The stages after the one that puts a field into the AWSVPC.             *)
AfterNAT == {"privateTables", "role", "done"}
AfterPublic == {"publicTable", "eip", "nat"} \cup AfterNAT
AfterIGW == {"sg", "private", "public"} \cup AfterPublic
AfterVPC == {"igw"} \cup AfterIGW

----------------------------------------------------------------------------
(* The inductive invariant, by parts.                                      *)

CloudInv ==
    /\ home \in [Kinds -> [Attempts -> Attempts \cup {Detached, Absent}]]
    /\ gateway \in [Attempts -> {"none", "pending", "available", "failed"}]
    /\ \A b \in Attempts : gateway[b] # "none" => b \in Makers("nat")
    /\ policies \subseteq Makers("role")
    /\ tables \subseteq Tables

(* What an attempt has put into its AWSVPC exists.                         *)
ResultsInv(b) ==
    /\ DOMAIN vpc[b] = Fields
    /\ vpc[b]["private"] \subseteq Existing \cap PrivateSubnets
    /\ \A f \in Fields \ {"private"} : vpc[b][f] \in Makers(f) \cup {Absent}
    /\ at[b][1] \in AfterVPC => vpc[b]["vpc"] # Absent
    /\ at[b][1] \in AfterIGW => vpc[b]["igw"] # Absent
    /\ at[b][1] \in AfterPublic => vpc[b]["public"] # Absent
    /\ at[b][1] \in AfterNAT => vpc[b]["nat"] # Absent

(* What it has made and goes on working at exists.                         *)
MadeInv(b) ==
    /\ at[b] = <<"private", "createB">> => b \in Makers("privateA")
    /\ at[b] = <<"nat", "wait">> => b \in Makers("nat")
    /\ at[b] = <<"igw", "attach">> => b \in Makers("igw")
    /\ at[b] = <<"role", "attach">> => b \in Makers("role")

(* It has a route table in hand between finding or making it and routing   *)
(* it.                                                                     *)
Named(t, pair) == pair = <<t.maker, t.subnet>>

HandInv(b) ==
    at[b][1] \in TableStages =>
        /\ at[b][2] = "create" => \E s \in ToRoute(b, at[b][1]) : table[b] = <<b, s>>
        /\ at[b][2] \in {"associate", "route"} =>
             \E t \in tables : Named(t, table[b]) /\ t.subnet \in ToRoute(b, at[b][1])

AttemptInv(b) ==
    /\ at[b] \in Stages \X Calls
    /\ routed[b] \subseteq {t.subnet : t \in tables}
    /\ ResultsInv(b) /\ MadeInv(b) /\ HandInv(b)

Shape == at \in [Attempts -> Stages \X Calls] /\ DOMAIN vpc = Attempts
            /\ DOMAIN routed = Attempts /\ DOMAIN table = Attempts

Inv == CloudInv /\ Shape /\ \A b \in Attempts : AttemptInv(b)

----------------------------------------------------------------------------
(* Facts about the data.                                                   *)

LEMMA FieldNames ==
    /\ Fields = {"vpc", "igw", "sg", "private", "public", "eip", "nat", "role"}
    /\ \A f \in Fields : NothingYet[f] = IF f = "private" THEN {} ELSE Absent
BY DEF Fields, NothingYet

LEMMA StageNames ==
    /\ Stages = {"start", "done", "failed"} \cup Fields \cup TableStages
    /\ \A stage \in Fields : Following[stage] \in Stages /\ Following[stage] # stage
    /\ Following["start"] = "vpc" /\ Following["vpc"] = "igw" /\ Following["igw"] = "sg"
    /\ Following["sg"] = "private" /\ Following["private"] = "public"
    /\ Following["public"] = "publicTable" /\ Following["publicTable"] = "eip"
    /\ Following["eip"] = "nat" /\ Following["nat"] = "privateTables"
    /\ Following["privateTables"] = "role" /\ Following["role"] = "done"
BY FieldNames DEF Stages, Following, TableStages

LEMMA SubnetFacts ==
    /\ \A s : s \in Subnets <=> \E k \in SubnetKinds, b \in Attempts : s = <<k, b>>
    /\ \A s \in Existing : s \in Subnets /\ s[2] \in Makers(s[1])
    /\ \A k \in SubnetKinds : \A b \in Makers(k) : <<k, b>> \in Existing
BY DEF Subnets, Existing, Makers

(* What a Return changes.                                                  *)
LEMMA ReturnFacts ==
    ASSUME Shape, NEW a \in Attempts, NEW stage \in Fields, NEW result,
           DOMAIN vpc[a] = Fields, Return(a, stage, result)
    PROVE  /\ DOMAIN vpc'[a] = Fields
           /\ DOMAIN vpc' = Attempts /\ DOMAIN at' = Attempts
           /\ \A b \in Attempts \ {a} : vpc'[b] = vpc[b] /\ at'[b] = at[b]
           /\ \A f \in Fields \ {stage} : vpc'[a][f] = vpc[a][f]
           /\ vpc'[a][stage] = result
           /\ at'[a] = <<Following[stage], "describe">>
BY DEF Return, Goto, Shape

(* What a Make changes.                                                    *)
LEMMA MakeFacts ==
    ASSUME CloudInv, NEW a \in Attempts, NEW kind \in Kinds,
           NEW where \in Attempts \cup {Detached}, Make(a, kind, where)
    PROVE  /\ home' \in [Kinds -> [Attempts -> Attempts \cup {Detached, Absent}]]
           /\ \A k \in Kinds \ {kind} : Makers(k)' = Makers(k)
           /\ Makers(kind)' = Makers(kind) \cup {a}
<1>1. /\ \A k \in Kinds \ {kind} : home'[k] = home[k]
      /\ home'[kind] = [home[kind] EXCEPT ![a] = where]
  BY DEF Make, CloudInv
<1>2. home'[kind][a] = where /\ \A b \in Attempts \ {a} : home'[kind][b] = home[kind][b]
  BY <1>1 DEF CloudInv
<1> QED
  BY <1>1, <1>2, AttemptsAssumption DEF CloudInv, Make, Makers

(* Pieces and tables do not disappear.                                     *)
Grown ==
    /\ \A k \in Kinds : Makers(k) \subseteq Makers(k)'
    /\ \A t \in tables : \E u \in tables' : u.maker = t.maker /\ u.subnet = t.subnet

LEMMA ExistingGrown == ASSUME Grown PROVE Existing \subseteq Existing'
<1>1. SUFFICES ASSUME NEW s \in Existing PROVE s \in Existing'
  OBVIOUS
<1>2. s \in Subnets /\ s[1] \in Kinds /\ s[2] \in Attempts /\ s[2] \in Makers(s[1])
  BY DEF Existing, Subnets, Kinds, Makers
<1>3. s[2] \in Makers(s[1])'
  BY <1>2 DEF Grown
<1> QED
  BY <1>2, <1>3 DEF Existing, Makers

(* What the other attempts know stays true.                                *)
LEMMA OthersKept ==
    ASSUME NEW b \in Attempts, AttemptInv(b), Grown,
           at'[b] = at[b], vpc'[b] = vpc[b], routed'[b] = routed[b], table'[b] = table[b]
    PROVE  AttemptInv(b)'
<1>1. Fields \ {"private"} \subseteq Kinds /\ "privateA" \in Kinds /\ "nat" \in Kinds
      /\ "igw" \in Kinds /\ "role" \in Kinds
  BY FieldNames DEF Kinds, SubnetKinds
<1>2. ResultsInv(b)'
  BY <1>1, ExistingGrown DEF AttemptInv, ResultsInv, Grown
<1>3. MadeInv(b)'
  BY <1>1 DEF AttemptInv, MadeInv, Grown
<1>4. HandInv(b)'
  BY DEF AttemptInv, HandInv, ToRoute, Grown, Named
<1>5. routed'[b] \subseteq {t.subnet : t \in tables'}
  BY DEF AttemptInv, Grown
<1> QED
  BY <1>2, <1>3, <1>4, <1>5 DEF AttemptInv

(* A function that returns what exists.                                    *)
LEMMA ReturnKeeps ==
    ASSUME Inv, CloudInv', NEW a \in Attempts, NEW stage \in Fields, NEW result,
           at[a][1] = stage, Return(a, stage, result), Grown,
           stage = "private" => result \subseteq (Existing \cap PrivateSubnets)',
           stage # "private" => result \in Makers(stage)',
           UNCHANGED <<routed, table>>
    PROVE  Inv'
<1> USE DEF Inv
<1>1. AttemptInv(a) /\ ResultsInv(a)
  BY DEF AttemptInv
<1>2. /\ DOMAIN vpc'[a] = Fields
      /\ DOMAIN vpc' = Attempts /\ DOMAIN at' = Attempts
      /\ \A b \in Attempts \ {a} : vpc'[b] = vpc[b] /\ at'[b] = at[b]
      /\ \A f \in Fields \ {stage} : vpc'[a][f] = vpc[a][f]
      /\ vpc'[a][stage] = result
      /\ at'[a] = <<Following[stage], "describe">>
  BY <1>1, ReturnFacts DEF ResultsInv
<1>3. at'[a] \in Stages \X Calls /\ at'[a][1] = Following[stage] /\ at'[a][2] = "describe"
  BY <1>2, StageNames DEF Calls
<1>4. Shape'
  BY <1>2, <1>3 DEF Shape, Return, Goto
<1>5. \A b \in Attempts \ {a} : AttemptInv(b)'
  BY <1>2, OthersKept
<1>6. stage # "private" => result # Absent
  BY AttemptsAssumption DEF Makers
<1>7. ResultsInv(a)'
  <2>1. vpc'[a]["private"] \subseteq (Existing \cap PrivateSubnets)'
    BY <1>1, <1>2, ExistingGrown, FieldNames DEF ResultsInv
  <2>2. \A f \in Fields \ {"private"} : vpc'[a][f] \in Makers(f)' \cup {Absent}
    BY <1>1, <1>2, FieldNames DEF ResultsInv, Grown, Kinds, SubnetKinds
  <2>3. /\ at'[a][1] \in AfterVPC => vpc'[a]["vpc"] # Absent
        /\ at'[a][1] \in AfterIGW => vpc'[a]["igw"] # Absent
        /\ at'[a][1] \in AfterPublic => vpc'[a]["public"] # Absent
        /\ at'[a][1] \in AfterNAT => vpc'[a]["nat"] # Absent
    BY <1>1, <1>2, <1>3, <1>6, StageNames, FieldNames
       DEF ResultsInv, AfterVPC, AfterIGW, AfterPublic, AfterNAT
  <2> QED
    BY <1>2, <2>1, <2>2, <2>3 DEF ResultsInv
<1>8. MadeInv(a)' /\ HandInv(a)'
  BY <1>2, <1>3 DEF MadeInv, HandInv
<1>9. routed'[a] \subseteq {t.subnet : t \in tables'}
  BY <1>1 DEF AttemptInv, Grown
<1> QED
  BY <1>3, <1>4, <1>5, <1>7, <1>8, <1>9 DEF AttemptInv

(* A function that goes on with another call.                              *)
LEMMA GotoKeeps ==
    ASSUME Inv, CloudInv', NEW a \in Attempts, NEW call \in Calls,
           Goto(a, at[a][1], call), Grown, MadeInv(a)', HandInv(a)',
           UNCHANGED <<vpc, routed>>, DOMAIN table' = Attempts,
           \A b \in Attempts \ {a} : table'[b] = table[b]
    PROVE  Inv'
<1> USE DEF Inv
<1>1. /\ at'[a] = <<at[a][1], call>> /\ \A b \in Attempts \ {a} : at'[b] = at[b]
      /\ at'[a] \in Stages \X Calls /\ at'[a][1] = at[a][1]
  BY DEF Goto, Shape
<1>2. Shape'
  BY <1>1 DEF Shape, Goto
<1>3. \A b \in Attempts \ {a} : AttemptInv(b)'
  BY <1>1, OthersKept
<1>4. Fields \ {"private"} \subseteq Kinds
  BY FieldNames DEF Kinds, SubnetKinds
<1>5. ResultsInv(a)'
  BY <1>1, <1>4, ExistingGrown DEF AttemptInv, ResultsInv, Grown
<1>6. routed'[a] \subseteq {t.subnet : t \in tables'}
  BY DEF AttemptInv, Grown
<1> QED
  BY <1>1, <1>2, <1>3, <1>5, <1>6 DEF AttemptInv

(* Nothing changes in the cloud.                                           *)
LEMMA CloudKept ==
    ASSUME CloudInv, UNCHANGED cloud
    PROVE  CloudInv' /\ Grown
BY DEF CloudInv, cloud, Grown, Makers

(* One more piece in the cloud.                                            *)
LEMMA CloudMakes ==
    ASSUME CloudInv, NEW a \in Attempts, NEW kind \in Kinds,
           NEW where \in Attempts \cup {Detached}, Make(a, kind, where),
           UNCHANGED <<gateway, policies, tables>>
    PROVE  CloudInv' /\ Grown /\ a \in Makers(kind)'
BY MakeFacts DEF CloudInv, Grown, Kinds

(* The calls that look a piece up.                                         *)
LEMMA DescribeKeeps ==
    ASSUME Inv, NEW a \in Attempts, NEW stage \in Fields \ {"private"}, NEW makers,
           makers \subseteq Makers(stage), Describe(a, stage, makers)
    PROVE  Inv'
<1>1. CloudInv' /\ Grown /\ at[a][1] = stage
  BY CloudKept DEF Describe, Inv
<1>2. CASE makers # {}
  <2>1. PICK b \in makers : Return(a, stage, b)
    BY <1>2 DEF Describe
  <2> QED
    BY <1>1, <2>1, ReturnKeeps DEF Describe, cloud, Makers
<1>3. CASE makers = {}
  <2>1. Goto(a, at[a][1], "create") /\ UNCHANGED <<vpc, routed, table>>
    BY <1>1, <1>3 DEF Describe
  <2>2. at'[a] = <<stage, "create">>
    BY <1>1, <2>1 DEF Goto, Inv, Shape
  <2>3. MadeInv(a)' /\ HandInv(a)'
    BY <2>2, FieldNames DEF MadeInv, HandInv, TableStages
  <2> QED
    BY <1>1, <2>1, <2>3, GotoKeeps DEF Calls, Inv, Shape
<1> QED
  BY <1>2, <1>3

(* The calls that make a piece, where that is all there is to it.          *)
LEMMA CreateKeeps ==
    ASSUME Inv, NEW a \in Attempts, NEW stage \in (Fields \ {"private"}) \cap Kinds,
           NEW where \in Attempts \cup {Detached}, Create(a, stage, where)
    PROVE  Inv'
<1>1. CloudInv' /\ Grown /\ a \in Makers(stage)' /\ at[a][1] = stage
  BY CloudMakes DEF Create, Inv
<1> QED
  BY <1>1, ReturnKeeps DEF Create

(* The calls that make a piece that takes a further call.                  *)
LEMMA CreateGoesOn ==
    ASSUME Inv, NEW a \in Attempts, NEW stage \in Fields, NEW kind \in Kinds, NEW call \in Calls,
           NEW where \in Attempts \cup {Detached}, Make(a, kind, where),
           at[a][1] = stage, Goto(a, stage, call),
           <<kind, call>> \in {<<"igw", "attach">>, <<"role", "attach">>, <<"privateA", "createB">>},
           kind = "privateA" \/ kind = stage,
           UNCHANGED <<gateway, policies, tables, vpc, routed, table>>
    PROVE  Inv'
<1>1. CloudInv' /\ Grown /\ a \in Makers(kind)'
  BY CloudMakes DEF Inv
<1>2. at'[a] = <<stage, call>>
  BY DEF Goto, Inv, Shape
<1>3. MadeInv(a)' /\ HandInv(a)'
  BY <1>1, <1>2, FieldNames DEF MadeInv, HandInv, TableStages
<1> QED
  BY <1>1, <1>3, GotoKeeps DEF Inv, Shape

----------------------------------------------------------------------------
(* The route tables.                                                       *)

(* What is routed, or is about to be, is a subnet.                         *)
LEMMA ToRouteFacts ==
    ASSUME Inv, NEW a \in Attempts, at[a][1] \in TableStages
    PROVE  /\ ToRoute(a, at[a][1]) \subseteq Subnets
           /\ vpc[a].vpc \in Attempts /\ vpc[a].igw \in Attempts
           /\ at[a][1] = "privateTables" => vpc[a].nat \in Attempts
<1>1. ResultsInv(a) /\ at[a][1] \in AfterPublic
  BY DEF Inv, AttemptInv, TableStages, AfterPublic, AfterNAT
<1>2. /\ vpc[a].vpc \in Attempts /\ vpc[a].igw \in Attempts /\ vpc[a].public \in Attempts
      /\ at[a][1] = "privateTables" => vpc[a].nat \in Attempts
      /\ vpc[a].private \subseteq Subnets
  BY <1>1, FieldNames
     DEF ResultsInv, AfterPublic, AfterIGW, AfterVPC, AfterNAT, Makers, Existing
<1>3. <<"public", vpc[a].public>> \in Subnets
  BY <1>2 DEF Subnets, SubnetKinds
<1> QED
  BY <1>2, <1>3 DEF ToRoute

(* The table in hand is one of the tables.                                 *)
LEMMA TableInHand ==
    ASSUME Inv, NEW a \in Attempts, at[a][1] \in TableStages, at[a][2] \in {"associate", "route"}
    PROVE  /\ TableOf(a) \in tables /\ Named(TableOf(a), table[a])
           /\ TableOf(a).subnet \in ToRoute(a, at[a][1])
<1>1. PICK t \in tables : Named(t, table[a]) /\ t.subnet \in ToRoute(a, at[a][1])
  BY DEF Inv, AttemptInv, HandInv
<1>2. TableOf(a) \in tables /\ <<TableOf(a).maker, TableOf(a).subnet>> = table[a]
  BY <1>1 DEF TableOf, Named
<1>3. <<TableOf(a).maker, TableOf(a).subnet>> = <<t.maker, t.subnet>>
  BY <1>1, <1>2 DEF Named
<1> QED
  BY <1>1, <1>2, <1>3 DEF Named

LEMMA FindKeeps ==
    ASSUME Inv, NEW a \in Attempts, NEW stage \in TableStages, FindRouteTable(a, stage)
    PROVE  Inv'
<1>1. CloudInv' /\ Grown /\ at[a][1] = stage /\ UNCHANGED <<cloud, vpc, routed>>
  BY CloudKept DEF FindRouteTable, Inv
<1>2. PICK maker \in Attempts, s \in ToRoute(a, stage), call \in {"associate", "create"} :
         /\ InHand(a, maker, s, stage, call)
         /\ call = "create" => maker = a
         /\ call = "associate" => \E t \in tables : t.subnet = s /\ t.maker = maker
  BY DEF FindRouteTable, Inv, CloudInv, Tables
<1>3. /\ at'[a] = <<stage, call>> /\ table'[a] = <<maker, s>>
      /\ DOMAIN table' = Attempts /\ \A b \in Attempts \ {a} : table'[b] = table[b]
  BY <1>2 DEF InHand, Goto, Inv, Shape
<1>4. ToRoute(a, stage)' = ToRoute(a, stage)
  BY <1>1 DEF ToRoute
<1>5. HandInv(a)'
  BY <1>1, <1>2, <1>3, <1>4 DEF HandInv, Named, cloud
<1>6. MadeInv(a)'
  BY <1>3 DEF MadeInv, TableStages
<1> QED
  BY <1>1, <1>2, <1>3, <1>5, <1>6, GotoKeeps DEF InHand, Calls

LEMMA CreateTableKeeps ==
    ASSUME Inv, NEW a \in Attempts, NEW stage \in TableStages, CreateRouteTable(a, stage)
    PROVE  Inv'
<1> DEFINE new == [maker |-> a, subnet |-> table[a][2], vpc |-> vpc[a].vpc,
                   associated |-> FALSE, target |-> Absent]
<1>1. /\ at[a] = <<stage, "create">> /\ tables' = tables \cup {new}
      /\ Goto(a, stage, "associate") /\ UNCHANGED <<home, gateway, policies, vpc, routed, table>>
  BY DEF CreateRouteTable
<1>2. PICK s \in ToRoute(a, stage) : table[a] = <<a, s>>
  BY <1>1 DEF Inv, AttemptInv, HandInv
<1>3. new \in Tables
  BY <1>1, <1>2, ToRouteFacts DEF Tables
<1>4. CloudInv' /\ Grown
  BY <1>1, <1>3 DEF Inv, CloudInv, Grown, Makers
<1>5. at'[a] = <<stage, "associate">>
  BY <1>1 DEF Goto, Inv, Shape
<1>6. new \in tables' /\ Named(new, table'[a]) /\ new.subnet = s
  BY <1>1, <1>2 DEF Named
<1>7. ToRoute(a, stage)' = ToRoute(a, stage)
  BY <1>1 DEF ToRoute
<1>8. HandInv(a)' /\ MadeInv(a)'
  BY <1>2, <1>5, <1>6, <1>7 DEF HandInv, MadeInv, TableStages
<1> QED
  BY <1>1, <1>4, <1>8, GotoKeeps DEF Calls, Inv, Shape

(* A table changes, but neither its maker nor its subnet does.             *)
LEMMA TableChanges ==
    ASSUME CloudInv, NEW t \in tables, NEW u \in Tables,
           u.maker = t.maker, u.subnet = t.subnet, tables' = (tables \ {t}) \cup {u},
           UNCHANGED <<home, gateway, policies>>
    PROVE  CloudInv' /\ Grown
BY DEF CloudInv, Grown, Makers

LEMMA AssociateKeeps ==
    ASSUME Inv, NEW a \in Attempts, NEW stage \in TableStages, AssociateRouteTable(a, stage)
    PROVE  Inv'
<1> DEFINE t == TableOf(a)
           u == [t EXCEPT !.associated = TRUE]
<1>1. /\ at[a] = <<stage, "associate">> /\ Goto(a, stage, "route")
      /\ UNCHANGED <<home, gateway, policies, vpc, routed, table>>
      /\ UNCHANGED tables \/ tables' = (tables \ {t}) \cup {u}
  BY DEF AssociateRouteTable
<1>2. t \in tables /\ Named(t, table[a]) /\ t.subnet \in ToRoute(a, stage) /\ t \in Tables
  BY <1>1, TableInHand DEF Inv, CloudInv
<1>3. u \in Tables /\ u.maker = t.maker /\ u.subnet = t.subnet
  BY <1>2 DEF Tables
<1>4. CloudInv' /\ Grown
  BY <1>1, <1>2, <1>3, TableChanges, CloudKept DEF Inv, cloud
<1>5. at'[a] = <<stage, "route">> /\ ToRoute(a, stage)' = ToRoute(a, stage)
  BY <1>1 DEF Goto, Inv, Shape, ToRoute
<1>6. \E v \in tables' : Named(v, table'[a]) /\ v.subnet \in ToRoute(a, stage)
  BY <1>1, <1>2, <1>4 DEF Grown, Named
<1>7. HandInv(a)' /\ MadeInv(a)'
  BY <1>5, <1>6 DEF HandInv, MadeInv, TableStages
<1> QED
  BY <1>1, <1>4, <1>7, GotoKeeps DEF Calls, Inv, Shape

LEMMA RouteKeeps ==
    ASSUME Inv, NEW a \in Attempts, NEW stage \in TableStages, NEW target \in Targets,
           CreateRoute(a, stage, target)
    PROVE  Inv'
<1> DEFINE t == TableOf(a)
           u == [t EXCEPT !.target = target]
<1>1. /\ at[a] = <<stage, "route">> /\ DoneWith(a, stage, t.subnet)
      /\ UNCHANGED <<home, gateway, policies, vpc, table>>
      /\ UNCHANGED tables \/ tables' = (tables \ {t}) \cup {u}
  BY DEF CreateRoute
<1>2. t \in tables /\ t \in Tables
  BY <1>1, TableInHand DEF Inv, CloudInv
<1>3. u \in Tables /\ u.maker = t.maker /\ u.subnet = t.subnet
  BY <1>2 DEF Tables
<1>4. CloudInv' /\ Grown
  BY <1>1, <1>2, <1>3, TableChanges, CloudKept DEF Inv, cloud
<1>5. PICK next \in {stage, Following[stage]} : at' = [at EXCEPT ![a] = <<next, "describe">>]
  BY <1>1 DEF DoneWith, Goto
<1>6. /\ at'[a] = <<next, "describe">> /\ at'[a] \in Stages \X Calls
      /\ \A b \in Attempts \ {a} : at'[b] = at[b] /\ routed'[b] = routed[b]
      /\ DOMAIN routed' = Attempts /\ routed'[a] = routed[a] \cup {t.subnet}
  <2>1. next \in Stages
    BY <1>5, StageNames, FieldNames DEF TableStages
  <2>2. <<next, "describe">> \in Stages \X Calls
    BY <2>1 DEF Calls
  <2>3. at'[a] = <<next, "describe">> /\ \A b \in Attempts \ {a} : at'[b] = at[b]
    BY <1>5 DEF Inv, Shape
  <2>4. routed' = [routed EXCEPT ![a] = @ \cup {t.subnet}]
    BY <1>1 DEF DoneWith
  <2>5. /\ \A b \in Attempts \ {a} : routed'[b] = routed[b]
        /\ DOMAIN routed' = Attempts /\ routed'[a] = routed[a] \cup {t.subnet}
    BY <2>4 DEF Inv, Shape
  <2> QED
    BY <2>2, <2>3, <2>5
<1>7. Shape'
  BY <1>1, <1>5, <1>6 DEF Inv, Shape
<1>8. \A b \in Attempts \ {a} : AttemptInv(b)'
  BY <1>1, <1>4, <1>6, OthersKept DEF Inv
<1>9. Fields \ {"private"} \subseteq Kinds
  BY FieldNames DEF Kinds, SubnetKinds
<1>10. ResultsInv(a)
  BY DEF Inv, AttemptInv
<1>11. ResultsInv(a)'
  <2>1. /\ vpc'[a]["private"] \subseteq (Existing \cap PrivateSubnets)'
        /\ \A f \in Fields \ {"private"} : vpc'[a][f] \in Makers(f)' \cup {Absent}
    BY <1>1, <1>4, <1>9, <1>10, ExistingGrown DEF ResultsInv, Grown
  <2>2. /\ at'[a][1] \in AfterVPC => at[a][1] \in AfterVPC
        /\ at'[a][1] \in AfterIGW => at[a][1] \in AfterIGW
        /\ at'[a][1] \in AfterPublic => at[a][1] \in AfterPublic
        /\ at'[a][1] \in AfterNAT => at[a][1] \in AfterNAT
    BY <1>1, <1>6, StageNames DEF TableStages, AfterVPC, AfterIGW, AfterPublic, AfterNAT
  <2> QED
    BY <1>1, <1>10, <2>1, <2>2 DEF ResultsInv
<1>12. MadeInv(a)' /\ HandInv(a)'
  BY <1>6 DEF MadeInv, HandInv
<1>13. routed'[a] \subseteq {v.subnet : v \in tables'}
  BY <1>2, <1>4, <1>6 DEF Inv, AttemptInv, Grown
<1> QED
  BY <1>4, <1>6, <1>7, <1>8, <1>11, <1>12, <1>13 DEF Inv, AttemptInv

----------------------------------------------------------------------------
(* The whole of ensureEKSClusterVPC.                                       *)

(* The VPC's pieces go into the VPC of the attempt.                        *)
LEMMA OwnVPC ==
    ASSUME Inv, NEW a \in Attempts, at[a][1] \in AfterVPC
    PROVE  vpc[a].vpc \in Attempts
BY FieldNames DEF Inv, AttemptInv, ResultsInv, Makers

LEMMA PrivateKeeps ==
    ASSUME Inv, NEW a \in Attempts, ensurePrivateEKSSubnets(a)
    PROVE  Inv'
<1>1. at[a][1] = "private" /\ vpc[a].vpc \in Attempts
  BY OwnVPC DEF ensurePrivateEKSSubnets, AfterVPC, AfterIGW
<1>2. UNCHANGED <<gateway, policies, tables, routed, table>>
  BY DEF ensurePrivateEKSSubnets
<1>3. CASE at[a] = <<"private", "describe">>
  <2>1. UNCHANGED cloud /\ CloudInv' /\ Grown
    BY <1>2, <1>3, CloudKept DEF ensurePrivateEKSSubnets, Inv, cloud
  <2>2. CASE Existing \cap PrivateSubnets # {}
    BY <1>1, <1>2, <1>3, <2>1, <2>2, ReturnKeeps, FieldNames, ExistingGrown
       DEF ensurePrivateEKSSubnets
  <2>3. CASE Existing \cap PrivateSubnets = {}
    <3>1. Goto(a, at[a][1], "create") /\ UNCHANGED vpc
      BY <1>1, <1>3, <2>3 DEF ensurePrivateEKSSubnets
    <3>2. at'[a] = <<"private", "create">>
      BY <1>1, <3>1 DEF Goto, Inv, Shape
    <3>3. MadeInv(a)' /\ HandInv(a)'
      BY <3>2 DEF MadeInv, HandInv, TableStages
    <3> QED
      BY <1>2, <2>1, <3>1, <3>3, GotoKeeps DEF Calls, Inv, Shape
  <2> QED
    BY <2>2, <2>3
<1>4. CASE at[a] = <<"private", "create">>
  <2>1. Make(a, "privateA", vpc[a].vpc) /\ Goto(a, "private", "createB") /\ UNCHANGED vpc
    BY <1>4 DEF ensurePrivateEKSSubnets, createSubnetInVPC
  <2> QED
    BY <1>1, <1>2, <2>1, CreateGoesOn, FieldNames DEF Kinds, SubnetKinds, Calls
<1>5. CASE at[a] = <<"private", "createB">>
  <2>1. Make(a, "privateB", vpc[a].vpc)
        /\ Return(a, "private", {<<"privateA", a>>, <<"privateB", a>>})
    BY <1>5 DEF ensurePrivateEKSSubnets, createSubnetInVPC
  <2>2. CloudInv' /\ Grown /\ a \in Makers("privateB")'
    BY <1>1, <1>2, <2>1, CloudMakes DEF Inv, Kinds, SubnetKinds
  <2>3. a \in Makers("privateA")'
    BY <1>5, <2>2 DEF Inv, AttemptInv, MadeInv, Grown, Kinds, SubnetKinds
  <2>4. {<<"privateA", a>>, <<"privateB", a>>} \subseteq (Existing \cap PrivateSubnets)'
    BY <2>2, <2>3 DEF Existing, PrivateSubnets, Makers, Subnets, SubnetKinds
  <2> QED
    BY <1>1, <1>2, <2>1, <2>2, <2>4, ReturnKeeps, FieldNames
<1> QED
  BY <1>3, <1>4, <1>5 DEF ensurePrivateEKSSubnets

LEMMA GatewayKeeps ==
    ASSUME Inv, NEW a \in Attempts, ensureNATGateway(a)
    PROVE  Inv'
<1>1. CASE Describe(a, "nat", {b \in Attempts : gateway[b] \in {"pending", "available"}})
  <2>1. {b \in Attempts : gateway[b] \in {"pending", "available"}} \subseteq Makers("nat")
    BY DEF Inv, CloudInv
  <2> QED
    BY <1>1, <2>1, DescribeKeeps, FieldNames
<1>2. CASE NewGateway(a)
  <2>1. at[a][1] = "nat" /\ vpc[a]["public"] \in Makers("public")
    BY <1>2, FieldNames DEF NewGateway, Inv, AttemptInv, ResultsInv, AfterPublic, AfterNAT
  <2>2. home["public"][vpc[a].public] \in Attempts \cup {Detached}
    BY <2>1 DEF Inv, CloudInv, Makers, Kinds, SubnetKinds
  <2>3. /\ Make(a, "nat", home["public"][vpc[a].public]) /\ Goto(a, at[a][1], "wait")
        /\ UNCHANGED <<policies, tables, vpc, routed, table>>
        /\ gateway' = [gateway EXCEPT ![a] = "pending"]
    BY <1>2, <2>1 DEF NewGateway
  <2>4. CloudInv' /\ Grown /\ a \in Makers("nat")'
    BY <2>2, <2>3, MakeFacts DEF Inv, CloudInv, Grown, Kinds
  <2>5. at'[a] = <<"nat", "wait">>
    BY <2>1, <2>3 DEF Goto, Inv, Shape
  <2>6. MadeInv(a)' /\ HandInv(a)'
    BY <2>4, <2>5 DEF MadeInv, HandInv, TableStages
  <2> QED
    BY <2>3, <2>4, <2>6, GotoKeeps DEF Calls, Inv, Shape
<1>3. CASE waitForNATGateway(a)
  <2>1. CloudInv' /\ Grown /\ at[a][1] = "nat" /\ a \in Makers("nat")
    BY <1>3, CloudKept DEF waitForNATGateway, Inv, AttemptInv, MadeInv
  <2> QED
    BY <1>3, <2>1, ReturnKeeps, FieldNames DEF waitForNATGateway, cloud, Makers
<1> QED
  BY <1>1, <1>2, <1>3 DEF ensureNATGateway

(* A call of ensureEKSClusterVPC keeps the invariant with each of its      *)
(* steps.                                                                  *)
LEMMA AttemptKeeps ==
    ASSUME Inv, NEW a \in Attempts, ensureEKSClusterVPC(a)
    PROVE  Inv'
<1> USE FieldNames DEF Kinds, SubnetKinds
<1>1. CASE Start(a)
  <2>1. /\ at[a] = <<"start", "describe">> /\ at'[a] = <<"vpc", "describe">>
        /\ \A b \in Attempts \ {a} : at'[b] = at[b]
        /\ CloudInv' /\ Grown /\ UNCHANGED <<vpc, routed, table>>
    BY <1>1, StageNames, CloudKept DEF Start, Goto, Inv, Shape
  <2>2. Shape' /\ at'[a] \in Stages \X Calls
    BY <1>1, <2>1, StageNames DEF Start, Goto, Inv, Shape, Calls
  <2>3. \A b \in Attempts \ {a} : AttemptInv(b)'
    BY <2>1, OthersKept DEF Inv
  <2>4. ResultsInv(a)'
    BY <2>1, ExistingGrown
       DEF Inv, AttemptInv, ResultsInv, Grown, AfterVPC, AfterIGW, AfterPublic, AfterNAT
  <2>5. MadeInv(a)' /\ HandInv(a)'
    BY <2>1 DEF MadeInv, HandInv, TableStages
  <2>6. routed'[a] \subseteq {t.subnet : t \in tables'}
    BY <2>1 DEF Inv, AttemptInv, Grown
  <2> QED
    BY <2>1, <2>2, <2>3, <2>4, <2>5, <2>6 DEF Inv, AttemptInv
<1>2. CASE ensureVPC(a)
  BY <1>2, DescribeKeeps, CreateKeeps DEF ensureVPC
<1>3. CASE ensureInternetGateway(a)
  <2>1. CASE Describe(a, "igw", Makers("igw"))
    BY <2>1, DescribeKeeps
  <2>2. CASE at[a] = <<"igw", "create">>
    BY <1>3, <2>2, CreateGoesOn DEF ensureInternetGateway, Calls, Describe
  <2>3. CASE at[a] = <<"igw", "attach">>
    <3>1. vpc[a].vpc \in Attempts
      BY <2>3, OwnVPC DEF AfterVPC
    <3>2. Make(a, "igw", vpc[a].vpc) /\ Return(a, "igw", a)
          /\ UNCHANGED <<gateway, policies, tables, routed, table>>
      BY <1>3, <2>3 DEF ensureInternetGateway, Describe
    <3>3. CloudInv' /\ Grown /\ a \in Makers("igw")'
      BY <3>1, <3>2, CloudMakes DEF Inv
    <3> QED
      BY <2>3, <3>2, <3>3, ReturnKeeps
  <2> QED
    BY <1>3, <2>1, <2>2, <2>3 DEF ensureInternetGateway
<1>4. CASE ensureEKSClusterSecurityGroup(a)
  <2>1. CASE Describe(a, "sg", Makers("sg"))
    BY <2>1, DescribeKeeps
  <2>2. CASE Create(a, "sg", vpc[a].vpc)
    <3>1. vpc[a].vpc \in Attempts
      BY <2>2, OwnVPC DEF Create, AfterVPC, AfterIGW
    <3> QED
      BY <2>2, <3>1, CreateKeeps
  <2> QED
    BY <1>4, <2>1, <2>2 DEF ensureEKSClusterSecurityGroup
<1>5. CASE ensurePrivateEKSSubnets(a)
  BY <1>5, PrivateKeeps
<1>6. CASE ensurePublicEKSSubnet(a)
  <2>1. CASE Describe(a, "public", Makers("public"))
    BY <2>1, DescribeKeeps
  <2>2. CASE at[a] = <<"public", "create">>
    <3>1. vpc[a].vpc \in Attempts
      BY <2>2, OwnVPC DEF AfterVPC, AfterIGW
    <3>2. Make(a, "public", vpc[a].vpc) /\ Return(a, "public", a)
          /\ UNCHANGED <<gateway, policies, tables, routed, table>>
      BY <1>6, <2>2 DEF ensurePublicEKSSubnet, createSubnetInVPC, Describe
    <3>3. Create(a, "public", vpc[a].vpc)
      BY <2>2, <3>2 DEF Create
    <3> QED
      BY <3>1, <3>3, CreateKeeps
  <2> QED
    BY <1>6, <2>1, <2>2 DEF ensurePublicEKSSubnet
<1>7. CASE ensurePublicSubnetRouteTable(a)
  <2>1. CASE CreateRoute(a, "publicTable", <<"igw", vpc[a].igw>>)
    <3>1. <<"igw", vpc[a].igw>> \in Targets
      BY <2>1, ToRouteFacts DEF CreateRoute, TableStages, Targets
    <3> QED
      BY <2>1, <3>1, RouteKeeps DEF TableStages
  <2> QED
    BY <1>7, <2>1, FindKeeps, CreateTableKeeps, AssociateKeeps
       DEF ensurePublicSubnetRouteTable, TableStages
<1>8. CASE ensureElasticIP(a)
  BY <1>8, DescribeKeeps, CreateKeeps DEF ensureElasticIP
<1>9. CASE ensureNATGateway(a)
  BY <1>9, GatewayKeeps
<1>10. CASE ensurePrivateSubnetRouteTable(a)
  <2>1. CASE CreateRoute(a, "privateTables", <<"nat", vpc[a].nat>>)
    <3>1. <<"nat", vpc[a].nat>> \in Targets
      BY <2>1, ToRouteFacts DEF CreateRoute, TableStages, Targets
    <3> QED
      BY <2>1, <3>1, RouteKeeps DEF TableStages
  <2> QED
    BY <1>10, <2>1, FindKeeps, CreateTableKeeps, AssociateKeeps
       DEF ensurePrivateSubnetRouteTable, TableStages
<1>11. CASE ensureEKSRoleARN(a)
  BY <1>11, DescribeKeeps, CreateGoesOn DEF ensureEKSRoleARN, Calls
<1>12. CASE attachRolePolicy(a)
  <2>1. /\ at[a] = <<"role", "attach">> /\ policies' = policies \cup {a} /\ Return(a, "role", a)
        /\ UNCHANGED <<home, gateway, tables, routed, table>>
    BY <1>12 DEF attachRolePolicy
  <2>2. a \in Makers("role")
    BY <2>1 DEF Inv, AttemptInv, MadeInv
  <2>3. CloudInv' /\ Grown /\ a \in Makers("role")'
    BY <2>1, <2>2 DEF Inv, CloudInv, Grown, Makers
  <2> QED
    BY <2>1, <2>3, ReturnKeeps
<1> QED
  BY <1>1, <1>2, <1>3, <1>4, <1>5, <1>6, <1>7, <1>8, <1>9, <1>10, <1>11, <1>12
     DEF ensureEKSClusterVPC

LEMMA InvStep == Inv /\ [Next]_vars => Inv'
<1> SUFFICES ASSUME Inv, [Next]_vars PROVE Inv'
  OBVIOUS
<1>1. ASSUME NEW a \in Attempts, ensureEKSClusterVPC(a) PROVE Inv'
  BY <1>1, AttemptKeeps
<1>2. ASSUME NEW a \in Attempts, CallFails(a) PROVE Inv'
  <2>1. /\ at'[a] = <<"failed", "describe">> /\ \A b \in Attempts \ {a} : at'[b] = at[b]
        /\ CloudInv' /\ Grown /\ UNCHANGED <<vpc, routed, table>>
    BY <1>2, CloudKept DEF CallFails, Goto, Inv, Shape
  <2>2. Shape' /\ at'[a] \in Stages \X Calls
    BY <1>2, <2>1, StageNames DEF CallFails, Goto, Inv, Shape, Calls
  <2>3. \A b \in Attempts \ {a} : AttemptInv(b)'
    BY <2>1, OthersKept DEF Inv
  <2>4. Fields \ {"private"} \subseteq Kinds
    BY FieldNames DEF Kinds, SubnetKinds
  <2>5. ResultsInv(a)'
    BY <2>1, <2>4, ExistingGrown
       DEF Inv, AttemptInv, ResultsInv, Grown, AfterVPC, AfterIGW, AfterPublic, AfterNAT
  <2>6. MadeInv(a)' /\ HandInv(a)'
    BY <2>1 DEF MadeInv, HandInv, TableStages
  <2>7. routed'[a] \subseteq {t.subnet : t \in tables'}
    BY <2>1 DEF Inv, AttemptInv, Grown
  <2> QED
    BY <2>1, <2>2, <2>3, <2>5, <2>6, <2>7 DEF Inv, AttemptInv
<1>3. ASSUME NEW b \in Attempts, NEW state \in {"available", "failed"}, GatewayMoves(b, state)
      PROVE  Inv'
  <2>1. CloudInv' /\ Grown
    BY <1>3 DEF GatewayMoves, Inv, CloudInv, Grown, Makers
  <2>2. UNCHANGED attempt
    BY <1>3 DEF GatewayMoves
  <2> QED
    BY <2>1, <2>2, OthersKept DEF Inv, Shape, attempt
<1>4. CASE UNCHANGED vars
  <2>1. CloudInv' /\ Grown
    BY <1>4, CloudKept DEF vars, Inv
  <2> QED
    BY <1>4, <2>1, OthersKept DEF Inv, Shape, attempt, vars
<1> QED
  BY <1>1, <1>2, <1>3, <1>4 DEF Next

LEMMA InitInv == Init => Inv
<1> SUFFICES ASSUME Init PROVE Inv
  OBVIOUS
<1>1. \A k \in Kinds : Makers(k) = {}
  BY DEF Init, Makers
<1>2. CloudInv
  BY <1>1 DEF Init, CloudInv
<1>3. Shape
  BY StageNames DEF Init, Shape, Calls
<1>4. ASSUME NEW b \in Attempts PROVE AttemptInv(b)
  <2>1. at[b] = <<"start", "describe">> /\ vpc[b] = NothingYet /\ routed[b] = {}
    BY DEF Init
  <2>2. ResultsInv(b)
    BY <2>1, FieldNames
       DEF ResultsInv, AfterVPC, AfterIGW, AfterPublic, AfterNAT, Fields
  <2> QED
    BY <2>1, <2>2, StageNames DEF AttemptInv, MadeInv, HandInv, TableStages, Calls
<1> QED
  BY <1>2, <1>3, <1>4 DEF Inv

(* Every variable holds what the code can put there, and what an attempt   *)
(* has in hand exists, whether attempts overlap or not.                    *)
THEOREM TypeCorrect == Spec => []TypeOK
<1>1. Inv => TypeOK
  BY FieldNames DEF Inv, CloudInv, Shape, AttemptInv, ResultsInv, TypeOK
<1> QED
  BY <1>1, InitInv, InvStep, PTL DEF Spec

----------------------------------------------------------------------------
(* Attempts one after another.  What is created was looked up by the same  *)
(* attempt just before, and nobody else has created it since.              *)

Alone == \A a, b \in Attempts : InProgress(a) /\ InProgress(b) => a = b

UniqueInv ==
    /\ \A kind \in Kinds \ {"nat"} : \A b, c \in Makers(kind) : b = c
    /\ \A b, c \in Attempts :
         gateway[b] \in {"pending", "available"} /\ gateway[c] \in {"pending", "available"} => b = c
    /\ \A t, u \in tables : t.subnet = u.subnet => t = u

FreshInv(b) ==
    /\ \A k \in Fields \ {"private", "nat"} : at[b] = <<k, "create">> => Makers(k) = {}
    /\ at[b] = <<"private", "create">> => Makers("privateA") = {}
    /\ at[b] = <<"private", "create">> \/ at[b] = <<"private", "createB">> =>
         Makers("privateB") = {}
    /\ at[b] = <<"nat", "create">> =>
         \A c \in Attempts : gateway[c] \notin {"pending", "available"}
    /\ at[b][1] \in TableStages /\ at[b][2] = "create" =>
         \A t \in tables : t.subnet # table[b][2]

(* A subnet that traffic can leave.                                        *)
Good(s) == \E t \in tables : t.subnet = s /\ t.associated /\ t.target # Absent

RoutedInv(b) ==
    /\ \A s \in routed[b] : Good(s)
    /\ at[b][1] \in {"eip", "nat"} \cup AfterNAT => <<"public", vpc[b]["public"]>> \in routed[b]
    /\ at[b][1] \in {"role", "done"} => vpc[b]["private"] \subseteq routed[b]
    /\ at[b][1] \in TableStages /\ at[b][2] = "route" => TableOf(b).associated

SeqInv == Alone /\ UniqueInv /\ \A b \in Attempts : FreshInv(b) /\ RoutedInv(b)

(* A step of the one attempt in progress.                                  *)
LEMMA OneStep ==
    ASSUME Inv, SeqInv, NEW a \in Attempts,
           \A b \in Attempts \ {a} : ~InProgress(b),
           \A b \in Attempts \ {a} :
             at'[b] = at[b] /\ vpc'[b] = vpc[b] /\ routed'[b] = routed[b],
           \A s : Good(s) => Good(s)',
           UniqueInv', FreshInv(a)', RoutedInv(a)'
    PROVE  SeqInv'
<1>1. Alone'
  BY DEF Alone, InProgress
<1>2. ASSUME NEW b \in Attempts \ {a} PROVE FreshInv(b)' /\ RoutedInv(b)'
  <2>1. at'[b][1] \in {"start", "done", "failed"}
    BY DEF InProgress
  <2>2. FreshInv(b)'
    BY <2>1, FieldNames DEF FreshInv, TableStages
  <2>3. RoutedInv(b)'
    BY <2>1 DEF SeqInv, RoutedInv, TableStages
  <2> QED
    BY <2>2, <2>3
<1> QED
  BY <1>1, <1>2 DEF SeqInv

LEMMA OnlyOne ==
    ASSUME SeqInv, NEW a \in Attempts, InProgress(a)
    PROVE  \A b \in Attempts \ {a} : ~InProgress(b)
BY DEF SeqInv, Alone

LEMMA SeqReturn ==
    ASSUME Inv, SeqInv, NEW a \in Attempts, NEW stage \in Fields, NEW result,
           at[a][1] = stage, Return(a, stage, result), UNCHANGED routed,
           \A s : Good(s) => Good(s)', UniqueInv'
    PROVE  SeqInv'
<1>1. /\ \A b \in Attempts \ {a} : vpc'[b] = vpc[b] /\ at'[b] = at[b]
      /\ \A f \in Fields \ {stage} : vpc'[a][f] = vpc[a][f]
      /\ at'[a] = <<Following[stage], "describe">>
  BY ReturnFacts DEF Inv, AttemptInv, ResultsInv
<1>2. \A b \in Attempts \ {a} : ~InProgress(b)
  BY OnlyOne, FieldNames DEF InProgress
<1>3. FreshInv(a)'
  BY <1>1 DEF FreshInv
<1>4. RoutedInv(a)'
  <2>1. RoutedInv(a) /\ routed'[a] = routed[a] /\ at'[a][1] = Following[stage]
        /\ at'[a][2] = "describe"
    BY <1>1 DEF SeqInv
  <2>2. \A s \in routed'[a] : Good(s)'
    BY <2>1 DEF RoutedInv
  <2>3. Following[stage] \in {"eip", "nat"} \cup AfterNAT =>
          stage \in {"eip", "nat"} \cup AfterNAT /\ stage # "public"
    BY StageNames, FieldNames DEF AfterNAT
  <2>4. Following[stage] \in {"role", "done"} => stage \in {"role", "done"} /\ stage # "private"
    BY StageNames, FieldNames
  <2>5. "public" \in Fields /\ "private" \in Fields
    BY FieldNames
  <2> QED
    BY <1>1, <2>1, <2>2, <2>3, <2>4, <2>5 DEF RoutedInv
<1> QED
  BY <1>1, <1>2, <1>3, <1>4, OneStep

LEMMA SeqGoto ==
    ASSUME Inv, SeqInv, NEW a \in Attempts, InProgress(a), NEW call,
           Goto(a, at[a][1], call), UNCHANGED <<vpc, routed>>,
           \A s : Good(s) => Good(s)', UniqueInv', FreshInv(a)',
           at[a][1] \in TableStages /\ call = "route" => (TableOf(a).associated)'
    PROVE  SeqInv'
<1>1. /\ \A b \in Attempts \ {a} : vpc'[b] = vpc[b] /\ at'[b] = at[b]
      /\ at'[a] = <<at[a][1], call>>
  BY DEF Inv, Shape, Goto
<1>2. \A b \in Attempts \ {a} : ~InProgress(b)
  BY OnlyOne
<1>3. RoutedInv(a)'
  BY <1>1 DEF SeqInv, RoutedInv
<1> QED
  BY <1>1, <1>2, <1>3, OneStep

LEMMA UniqueMake ==
    ASSUME Inv, SeqInv, NEW a \in Attempts, NEW kind \in Kinds,
           NEW where \in Attempts \cup {Detached}, Make(a, kind, where),
           Makers(kind) \subseteq {a}, UNCHANGED <<gateway, tables>>
    PROVE  UniqueInv' /\ (\A s : Good(s) => Good(s)')
<1>1. /\ \A k \in Kinds \ {kind} : Makers(k)' = Makers(k)
      /\ Makers(kind)' = Makers(kind) \cup {a}
  BY MakeFacts DEF Inv
<1> QED
  BY <1>1 DEF SeqInv, UniqueInv, Good

LEMMA SameCloud ==
    ASSUME SeqInv, UNCHANGED cloud
    PROVE  UniqueInv' /\ (\A s : Good(s) => Good(s)')
BY DEF SeqInv, UniqueInv, cloud, Makers, Good

LEMMA DescribeSeq ==
    ASSUME Inv, SeqInv, NEW a \in Attempts, NEW stage \in Fields \ {"private"}, NEW makers,
           Describe(a, stage, makers),
           IF stage = "nat"
           THEN makers = {b \in Attempts : gateway[b] \in {"pending", "available"}}
           ELSE makers = Makers(stage)
    PROVE  SeqInv'
<1>1. at[a][1] = stage /\ UNCHANGED <<cloud, routed, table>>
  BY DEF Describe
<1>2. UniqueInv' /\ (\A s : Good(s) => Good(s)')
  BY <1>1, SameCloud
<1>3. CASE makers # {}
  BY <1>1, <1>2, <1>3, SeqReturn DEF Describe
<1>4. CASE makers = {}
  <2>1. Goto(a, at[a][1], "create") /\ UNCHANGED vpc
    BY <1>1, <1>4 DEF Describe
  <2>2. at'[a] = <<stage, "create">>
    BY <1>1, <2>1 DEF Goto, Inv, Shape
  <2>3. FreshInv(a)'
    BY <1>1, <1>4, <2>2, FieldNames DEF FreshInv, Makers, cloud, TableStages
  <2>4. InProgress(a)
    BY <1>1, FieldNames DEF InProgress
  <2> QED
    BY <1>1, <1>2, <2>1, <2>3, <2>4, SeqGoto
<1> QED
  BY <1>3, <1>4

LEMMA CreateSeq ==
    ASSUME Inv, SeqInv, NEW a \in Attempts, NEW stage \in {"vpc", "sg", "public", "eip"},
           NEW where \in Attempts \cup {Detached}, Create(a, stage, where)
    PROVE  SeqInv'
<1>1. /\ stage \in Fields \ {"private", "nat"} /\ stage \in Kinds
      /\ at[a] = <<stage, "create">> /\ at[a][1] = stage
  BY FieldNames DEF Kinds, SubnetKinds, Create
<1>2. Makers(stage) = {}
  BY <1>1 DEF SeqInv, FreshInv
<1>3. UniqueInv' /\ (\A s : Good(s) => Good(s)')
  BY <1>1, <1>2, UniqueMake DEF Create
<1> QED
  BY <1>1, <1>3, SeqReturn DEF Create

(* Created, and then attached to the VPC or given its policies.            *)
LEMMA AttachSeq ==
    ASSUME Inv, SeqInv, NEW a \in Attempts, NEW stage \in {"igw", "role"},
           at[a] = <<stage, "create">>, Make(a, stage, Detached), Goto(a, stage, "attach"),
           UNCHANGED <<gateway, tables, vpc, routed>>
    PROVE  SeqInv'
<1>1. /\ stage \in Fields \ {"private", "nat"} /\ stage \in Kinds /\ at[a][1] = stage
      /\ InProgress(a)
  BY FieldNames DEF Kinds, SubnetKinds, InProgress
<1>2. Makers(stage) = {}
  BY <1>1 DEF SeqInv, FreshInv
<1>3. UniqueInv' /\ (\A s : Good(s) => Good(s)')
  BY <1>1, <1>2, UniqueMake
<1>4. at'[a] = <<stage, "attach">>
  BY DEF Goto, Inv, Shape
<1>5. FreshInv(a)'
  BY <1>4 DEF FreshInv
<1> QED
  BY <1>1, <1>3, <1>5, SeqGoto DEF TableStages

LEMMA PrivateSeq ==
    ASSUME Inv, SeqInv, NEW a \in Attempts, ensurePrivateEKSSubnets(a)
    PROVE  SeqInv'
<1>1. /\ at[a][1] = "private" /\ vpc[a].vpc \in Attempts /\ InProgress(a)
      /\ UNCHANGED <<gateway, policies, tables, routed, table>>
  BY OwnVPC DEF ensurePrivateEKSSubnets, AfterVPC, AfterIGW, InProgress
<1> USE FieldNames DEF Kinds, SubnetKinds
<1>2. CASE at[a] = <<"private", "describe">>
  <2>1. UniqueInv' /\ (\A s : Good(s) => Good(s)') /\ UNCHANGED home
    BY <1>1, <1>2, SameCloud DEF ensurePrivateEKSSubnets, cloud
  <2>2. CASE Existing \cap PrivateSubnets # {}
    <3>1. Return(a, "private", Existing \cap PrivateSubnets)
      BY <1>2, <2>2 DEF ensurePrivateEKSSubnets
    <3> QED
      BY <1>1, <2>1, <3>1, SeqReturn
  <2>3. CASE Existing \cap PrivateSubnets = {}
    <3>1. Goto(a, at[a][1], "create") /\ UNCHANGED vpc
      BY <1>1, <1>2, <2>3 DEF ensurePrivateEKSSubnets
    <3>2. at'[a] = <<"private", "create">>
      BY <1>1, <3>1 DEF Goto, Inv, Shape
    <3>3. ASSUME NEW k \in {"privateA", "privateB"}, NEW b \in Makers(k) PROVE FALSE
      <4>1. <<k, b>> \in Existing /\ <<k, b>> \in Subnets
        BY <3>3, SubnetFacts DEF Existing
      <4>2. <<k, b>> \in PrivateSubnets
        BY <4>1 DEF PrivateSubnets
      <4> QED
        BY <2>3, <4>1, <4>2
    <3>4. FreshInv(a)'
      BY <2>1, <3>2, <3>3 DEF FreshInv, Makers, TableStages
    <3> QED
      BY <1>1, <2>1, <3>1, <3>4, SeqGoto DEF TableStages
  <2> QED
    BY <2>2, <2>3
<1>3. CASE at[a] = <<"private", "create">>
  <2>1. Make(a, "privateA", vpc[a].vpc) /\ Goto(a, at[a][1], "createB") /\ UNCHANGED vpc
    BY <1>1, <1>3 DEF ensurePrivateEKSSubnets, createSubnetInVPC
  <2>2. Makers("privateA") = {} /\ Makers("privateB") = {}
    BY <1>3 DEF SeqInv, FreshInv
  <2>3. UniqueInv' /\ (\A s : Good(s) => Good(s)')
    BY <1>1, <2>1, <2>2, UniqueMake
  <2>4. at'[a] = <<"private", "createB">> /\ Makers("privateB")' = {}
    BY <1>1, <2>1, <2>2, MakeFacts DEF Goto, Inv, Shape
  <2>5. FreshInv(a)'
    BY <2>4 DEF FreshInv, TableStages
  <2> QED
    BY <1>1, <2>1, <2>3, <2>5, SeqGoto DEF TableStages
<1>4. CASE at[a] = <<"private", "createB">>
  <2>1. Make(a, "privateB", vpc[a].vpc)
        /\ Return(a, "private", {<<"privateA", a>>, <<"privateB", a>>})
    BY <1>4 DEF ensurePrivateEKSSubnets, createSubnetInVPC
  <2>2. Makers("privateB") = {}
    BY <1>4 DEF SeqInv, FreshInv
  <2>3. UniqueInv' /\ (\A s : Good(s) => Good(s)')
    BY <1>1, <2>1, <2>2, UniqueMake
  <2> QED
    BY <1>1, <2>1, <2>3, SeqReturn
<1> QED
  BY <1>2, <1>3, <1>4 DEF ensurePrivateEKSSubnets

LEMMA GatewaySeq ==
    ASSUME Inv, SeqInv, NEW a \in Attempts, ensureNATGateway(a)
    PROVE  SeqInv'
<1>1. CASE Describe(a, "nat", {b \in Attempts : gateway[b] \in {"pending", "available"}})
  BY <1>1, DescribeSeq, FieldNames
<1>2. CASE NewGateway(a)
  <2>1. /\ at[a] = <<"nat", "create">> /\ at[a][1] = "nat" /\ InProgress(a)
        /\ Make(a, "nat", home["public"][vpc[a].public]) /\ Goto(a, at[a][1], "wait")
        /\ UNCHANGED <<tables, vpc, routed>> /\ gateway' = [gateway EXCEPT ![a] = "pending"]
    BY <1>2 DEF NewGateway, InProgress
  <2>2. \A k \in Kinds \ {"nat"} : Makers(k)' = Makers(k)
    BY <2>1 DEF Make, Makers, Inv, CloudInv
  <2>3. \A c \in Attempts : gateway[c] \notin {"pending", "available"}
    BY <2>1 DEF SeqInv, FreshInv
  <2>4. \A c \in Attempts : gateway'[c] \in {"pending", "available"} => c = a
    BY <2>1, <2>3 DEF Inv, CloudInv
  <2>5. UniqueInv' /\ (\A s : Good(s) => Good(s)')
    BY <2>1, <2>2, <2>4 DEF SeqInv, UniqueInv, Good
  <2>6. at'[a] = <<"nat", "wait">>
    BY <2>1 DEF Goto, Inv, Shape
  <2>7. FreshInv(a)'
    BY <2>6 DEF FreshInv, TableStages
  <2> QED
    BY <2>1, <2>5, <2>7, SeqGoto DEF TableStages
<1>3. CASE waitForNATGateway(a)
  BY <1>3, SameCloud, SeqReturn, FieldNames DEF waitForNATGateway
<1> QED
  BY <1>1, <1>2, <1>3 DEF ensureNATGateway

(* The route tables: one per subnet.                                       *)
LEMMA FindSeq ==
    ASSUME Inv, SeqInv, NEW a \in Attempts, NEW stage \in TableStages, FindRouteTable(a, stage)
    PROVE  SeqInv'
<1>1. /\ at[a][1] = stage /\ InProgress(a) /\ UNCHANGED <<cloud, vpc, routed>>
  BY DEF FindRouteTable, InProgress, TableStages
<1>2. UniqueInv' /\ (\A s : Good(s) => Good(s)')
  BY <1>1, SameCloud
<1>3. PICK maker \in Attempts, s \in ToRoute(a, stage), call \in {"associate", "create"} :
         /\ InHand(a, maker, s, stage, call)
         /\ call = "create" => \A t \in tables : t.subnet # s
  BY DEF FindRouteTable, Inv, CloudInv, Tables
<1>4. at'[a] = <<stage, call>> /\ table'[a] = <<maker, s>>
  <2>1. at' = [at EXCEPT ![a] = <<stage, call>>] /\ table' = [table EXCEPT ![a] = <<maker, s>>]
    BY <1>3 DEF InHand, Goto
  <2> QED
    BY <2>1 DEF Inv, Shape
<1>5. FreshInv(a)'
  <2>1. \A t \in tables' : call = "create" => t.subnet # table'[a][2]
    BY <1>1, <1>3, <1>4 DEF cloud
  <2> QED
    BY <1>4, <2>1, FieldNames DEF FreshInv, TableStages
<1>6. Goto(a, at[a][1], call) /\ call # "route"
  BY <1>1, <1>3 DEF InHand
<1> QED
  BY <1>1, <1>2, <1>5, <1>6, SeqGoto

LEMMA CreateTableSeq ==
    ASSUME Inv, SeqInv, NEW a \in Attempts, NEW stage \in TableStages, CreateRouteTable(a, stage)
    PROVE  SeqInv'
<1> DEFINE new == [maker |-> a, subnet |-> table[a][2], vpc |-> vpc[a].vpc,
                   associated |-> FALSE, target |-> Absent]
<1>1. /\ at[a] = <<stage, "create">> /\ tables' = tables \cup {new}
      /\ Goto(a, at[a][1], "associate") /\ UNCHANGED <<home, gateway, vpc, routed, table>>
      /\ InProgress(a) /\ at[a][1] = stage
  BY DEF CreateRouteTable, InProgress, TableStages
<1>2. \A t \in tables : t.subnet # new.subnet
  BY <1>1 DEF SeqInv, FreshInv
<1>3. \A t, u \in tables' : t.subnet = u.subnet => t = u
  BY <1>1, <1>2 DEF SeqInv, UniqueInv
<1>4. UniqueInv' /\ (\A s : Good(s) => Good(s)')
  BY <1>1, <1>3 DEF SeqInv, UniqueInv, Makers, Good
<1>5. at'[a] = <<stage, "associate">>
  BY <1>1 DEF Goto, Inv, Shape
<1>6. FreshInv(a)'
  BY <1>5 DEF FreshInv, TableStages
<1> QED
  BY <1>1, <1>4, <1>6, SeqGoto

(* A table changes for the better.                                         *)
LEMMA TableImproves ==
    ASSUME Inv, SeqInv, NEW t \in tables, NEW u,
           u.subnet = t.subnet, t.associated => u.associated,
           t.target # Absent => u.target # Absent,
           tables' = (tables \ {t}) \cup {u}, UNCHANGED <<home, gateway>>
    PROVE  UniqueInv' /\ (\A s : Good(s) => Good(s)')
<1>1. \A v, w \in tables' : v.subnet = w.subnet => v = w
  BY DEF SeqInv, UniqueInv
<1>2. UniqueInv'
  BY <1>1 DEF SeqInv, UniqueInv, Makers
<1>3. ASSUME NEW s, Good(s) PROVE Good(s)'
  <2>1. PICK v \in tables : v.subnet = s /\ v.associated /\ v.target # Absent
    BY <1>3 DEF Good
  <2>2. CASE v = t
    BY <2>1, <2>2 DEF Good
  <2>3. CASE v # t
    BY <2>1, <2>3 DEF Good
  <2> QED
    BY <2>2, <2>3
<1> QED
  BY <1>2, <1>3

LEMMA AssociateSeq ==
    ASSUME Inv, Inv', SeqInv, NEW a \in Attempts, NEW stage \in TableStages,
           AssociateRouteTable(a, stage)
    PROVE  SeqInv'
<1> DEFINE t == TableOf(a)
           u == [t EXCEPT !.associated = TRUE]
<1>1. /\ at[a] = <<stage, "associate">> /\ Goto(a, at[a][1], "route")
      /\ UNCHANGED <<home, gateway, vpc, routed, table>>
      /\ InProgress(a) /\ at[a][1] = stage
  BY DEF AssociateRouteTable, InProgress, TableStages
<1>2. t \in tables /\ t \in Tables /\ Named(t, table[a])
  BY <1>1, TableInHand DEF Inv, CloudInv
<1>3. at'[a] = <<stage, "route">>
  BY <1>1 DEF Goto, Inv, Shape
<1>4. FreshInv(a)'
  BY <1>3 DEF FreshInv, TableStages
<1>5. TableOf(a)' \in tables' /\ Named(TableOf(a), table[a])'
  <2>1. PICK v \in tables' : <<v.maker, v.subnet>> = table'[a]
    BY <1>3 DEF Inv, AttemptInv, HandInv, Named, TableStages
  <2> QED
    BY <2>1 DEF TableOf, Named
<1>6. TableOf(a)'.subnet = t.subnet
  BY <1>1, <1>2, <1>5 DEF Named
<1>7. CASE \E v \in tables : v.subnet = t.subnet /\ v.associated
  <2>1. UNCHANGED tables /\ t.associated
    BY <1>2, <1>7 DEF AssociateRouteTable, SeqInv, UniqueInv
  <2>2. UniqueInv' /\ (\A s : Good(s) => Good(s)')
    BY <1>1, <2>1 DEF SeqInv, UniqueInv, Makers, Good
  <2>3. TableOf(a)' = t
    BY <1>1, <2>1 DEF TableOf
  <2> QED
    BY <1>1, <1>4, <2>1, <2>2, <2>3, SeqGoto
<1>8. CASE ~\E v \in tables : v.subnet = t.subnet /\ v.associated
  <2>1. tables' = (tables \ {t}) \cup {u}
    BY <1>8 DEF AssociateRouteTable
  <2>2. u.subnet = t.subnet /\ u.associated /\ u.target = t.target
    BY <1>2 DEF Tables
  <2>3. UniqueInv' /\ (\A s : Good(s) => Good(s)')
    BY <1>1, <1>2, <2>1, <2>2, TableImproves
  <2>4. TableOf(a)' = u
    BY <1>5, <1>6, <2>1, <2>2, <2>3 DEF UniqueInv
  <2> QED
    BY <1>1, <1>4, <2>2, <2>3, <2>4, SeqGoto
<1> QED
  BY <1>7, <1>8

LEMMA RouteSeq ==
    ASSUME Inv, Inv', SeqInv, NEW a \in Attempts, NEW stage \in TableStages,
           NEW target \in Targets, CreateRoute(a, stage, target)
    PROVE  SeqInv'
<1> DEFINE t == TableOf(a)
           u == [t EXCEPT !.target = target]
           next == IF ToRoute(a, stage) \subseteq {t.subnet} THEN Following[stage] ELSE stage
<1>1. /\ at[a] = <<stage, "route">> /\ DoneWith(a, stage, t.subnet)
      /\ UNCHANGED <<home, gateway, vpc>> /\ at[a][1] = stage
      /\ InProgress(a)
      /\ \/ t.target # Absent /\ UNCHANGED tables
         \/ tables' = (tables \ {t}) \cup {u}
  BY DEF CreateRoute, InProgress, TableStages
<1>2. t \in tables /\ t \in Tables /\ t.subnet \in ToRoute(a, stage) /\ t.associated
  <2>1. at[a][1] = stage /\ at[a][2] = "route"
    BY <1>1
  <2>2. t \in tables /\ t.subnet \in ToRoute(a, stage)
    BY <2>1, TableInHand
  <2>3. t.associated
    BY <2>1 DEF SeqInv, RoutedInv
  <2> QED
    BY <2>2, <2>3 DEF Inv, CloudInv
<1>3. u.subnet = t.subnet /\ u.associated /\ u.target # Absent
  BY <1>2, AbsentAssumption DEF Tables
<1>4. UniqueInv' /\ (\A s : Good(s) => Good(s)')
  <2>1. CASE UNCHANGED tables
    BY <1>1, <2>1 DEF SeqInv, UniqueInv, Makers, Good
  <2>2. CASE tables' = (tables \ {t}) \cup {u}
    BY <1>1, <1>2, <1>3, <2>2, TableImproves
  <2> QED
    BY <1>1, <2>1, <2>2
<1>5. \E v \in tables' : v.subnet = t.subnet /\ v.associated /\ v.target # Absent
  <2>1. CASE t.target # Absent /\ UNCHANGED tables
    BY <1>2, <2>1
  <2>2. CASE tables' = (tables \ {t}) \cup {u}
    BY <1>3, <2>2
  <2> QED
    BY <1>1, <2>1, <2>2
<1>6. /\ at'[a] = <<next, "describe">> /\ routed'[a] = routed[a] \cup {t.subnet}
      /\ \A b \in Attempts \ {a} : at'[b] = at[b] /\ vpc'[b] = vpc[b] /\ routed'[b] = routed[b]
  <2>1. /\ at' = [at EXCEPT ![a] = <<next, "describe">>]
        /\ routed' = [routed EXCEPT ![a] = @ \cup {t.subnet}]
    BY <1>1 DEF DoneWith, Goto
  <2> QED
    BY <1>1, <2>1 DEF Inv, Shape
<1>7. FreshInv(a)'
  BY <1>6 DEF FreshInv, TableStages
<1>8. RoutedInv(a)'
  <2>1. RoutedInv(a)
    BY DEF SeqInv
  <2>2. ASSUME NEW s \in routed'[a] PROVE Good(s)'
    <3>1. CASE s \in routed[a]
      BY <1>4, <2>1, <3>1 DEF RoutedInv
    <3>2. CASE s = t.subnet
      BY <1>5, <3>2 DEF Good
    <3> QED
      BY <1>6, <3>1, <3>2
  <2>3. CASE stage = "publicTable"
    <3>1. t.subnet = <<"public", vpc[a]["public"]>> /\ next = "eip"
      BY <1>2, <2>3, StageNames DEF ToRoute
    <3> QED
      BY <1>1, <1>6, <2>2, <3>1 DEF RoutedInv, TableStages
  <2>4. CASE stage = "privateTables"
    <3>1. <<"public", vpc[a]["public"]>> \in routed[a]
      BY <1>1, <2>1, <2>4 DEF RoutedInv, AfterNAT
    <3>2. next \in {"role", "privateTables"}
      BY <2>4, StageNames
    <3>3. next = "role" => vpc[a]["private"] \subseteq routed'[a]
      BY <1>6, <2>4 DEF ToRoute
    <3> QED
      BY <1>1, <1>6, <2>2, <3>1, <3>2, <3>3 DEF RoutedInv, TableStages
  <2> QED
    BY <2>3, <2>4 DEF TableStages
<1> QED
  BY <1>1, <1>4, <1>6, <1>7, <1>8, OnlyOne, OneStep

(* One attempt after another, step by step.                                *)
LEMMA AttemptSeq ==
    ASSUME Inv, Inv', SeqInv, Overlap = FALSE, NEW a \in Attempts, ensureEKSClusterVPC(a)
    PROVE  SeqInv'
<1> USE FieldNames DEF Kinds, SubnetKinds
<1>1. CASE Start(a)
  <2>1. /\ at'[a] = <<"vpc", "describe">> /\ \A b \in Attempts \ {a} : at'[b] = at[b]
        /\ \A b \in Attempts : ~InProgress(b)
        /\ UNCHANGED <<cloud, vpc, routed>>
    BY <1>1, StageNames DEF Start, Goto, Inv, Shape
  <2>2. UniqueInv' /\ (\A s : Good(s) => Good(s)')
    BY <2>1, SameCloud
  <2>3. FreshInv(a)'
    BY <2>1 DEF FreshInv
  <2>4. RoutedInv(a)'
    <3>1. RoutedInv(a) /\ at'[a][1] = "vpc" /\ routed'[a] = routed[a]
      BY <2>1 DEF SeqInv
    <3>2. \A s \in routed'[a] : Good(s)'
      BY <2>2, <3>1 DEF RoutedInv
    <3> QED
      BY <3>1, <3>2 DEF RoutedInv, AfterNAT, TableStages
  <2> QED
    BY <2>1, <2>2, <2>3, <2>4, OneStep
<1>2. CASE ensureVPC(a)
  BY <1>2, DescribeSeq, CreateSeq DEF ensureVPC
<1>3. CASE ensureInternetGateway(a)
  <2>1. CASE Describe(a, "igw", Makers("igw"))
    BY <2>1, DescribeSeq
  <2>2. CASE at[a] = <<"igw", "create">>
    BY <1>3, <2>2, AttachSeq DEF ensureInternetGateway, Describe
  <2>3. CASE at[a] = <<"igw", "attach">>
    <3>1. vpc[a].vpc \in Attempts /\ a \in Makers("igw")
      BY <2>3, OwnVPC DEF AfterVPC, Inv, AttemptInv, MadeInv
    <3>2. Make(a, "igw", vpc[a].vpc) /\ Return(a, "igw", a)
          /\ UNCHANGED <<gateway, policies, tables, routed, table>>
      BY <1>3, <2>3 DEF ensureInternetGateway, Describe
    <3>3. Makers("igw") \subseteq {a}
      BY <3>1 DEF SeqInv, UniqueInv
    <3>4. UniqueInv' /\ (\A s : Good(s) => Good(s)')
      BY <3>1, <3>2, <3>3, UniqueMake
    <3> QED
      BY <2>3, <3>2, <3>4, SeqReturn
  <2> QED
    BY <1>3, <2>1, <2>2, <2>3 DEF ensureInternetGateway
<1>4. CASE ensureEKSClusterSecurityGroup(a)
  <2>1. CASE Describe(a, "sg", Makers("sg"))
    BY <2>1, DescribeSeq
  <2>2. CASE Create(a, "sg", vpc[a].vpc)
    <3>1. vpc[a].vpc \in Attempts
      BY <2>2, OwnVPC DEF Create, AfterVPC, AfterIGW
    <3> QED
      BY <2>2, <3>1, CreateSeq
  <2> QED
    BY <1>4, <2>1, <2>2 DEF ensureEKSClusterSecurityGroup
<1>5. CASE ensurePrivateEKSSubnets(a)
  BY <1>5, PrivateSeq
<1>6. CASE ensurePublicEKSSubnet(a)
  <2>1. CASE Describe(a, "public", Makers("public"))
    BY <2>1, DescribeSeq
  <2>2. CASE at[a] = <<"public", "create">>
    <3>1. vpc[a].vpc \in Attempts
      BY <2>2, OwnVPC DEF AfterVPC, AfterIGW
    <3>2. Create(a, "public", vpc[a].vpc)
      BY <1>6, <2>2 DEF ensurePublicEKSSubnet, createSubnetInVPC, Describe, Create
    <3> QED
      BY <3>1, <3>2, CreateSeq
  <2> QED
    BY <1>6, <2>1, <2>2 DEF ensurePublicEKSSubnet
<1>7. CASE ensurePublicSubnetRouteTable(a)
  <2>1. CASE CreateRoute(a, "publicTable", <<"igw", vpc[a].igw>>)
    <3>1. <<"igw", vpc[a].igw>> \in Targets
      BY <2>1, ToRouteFacts DEF CreateRoute, TableStages, Targets
    <3> QED
      BY <2>1, <3>1, RouteSeq DEF TableStages
  <2> QED
    BY <1>7, <2>1, FindSeq, CreateTableSeq, AssociateSeq
       DEF ensurePublicSubnetRouteTable, TableStages
<1>8. CASE ensureElasticIP(a)
  BY <1>8, DescribeSeq, CreateSeq DEF ensureElasticIP
<1>9. CASE ensureNATGateway(a)
  BY <1>9, GatewaySeq
<1>10. CASE ensurePrivateSubnetRouteTable(a)
  <2>1. CASE CreateRoute(a, "privateTables", <<"nat", vpc[a].nat>>)
    <3>1. <<"nat", vpc[a].nat>> \in Targets
      BY <2>1, ToRouteFacts DEF CreateRoute, TableStages, Targets
    <3> QED
      BY <2>1, <3>1, RouteSeq DEF TableStages
  <2> QED
    BY <1>10, <2>1, FindSeq, CreateTableSeq, AssociateSeq
       DEF ensurePrivateSubnetRouteTable, TableStages
<1>11. CASE ensureEKSRoleARN(a)
  BY <1>11, DescribeSeq, AttachSeq DEF ensureEKSRoleARN
<1>12. CASE attachRolePolicy(a)
  <2>1. /\ at[a] = <<"role", "attach">> /\ Return(a, "role", a)
        /\ UNCHANGED <<home, gateway, tables, routed, table>>
    BY <1>12 DEF attachRolePolicy
  <2>2. UniqueInv' /\ (\A s : Good(s) => Good(s)')
    BY <2>1 DEF SeqInv, UniqueInv, Makers, Good
  <2> QED
    BY <2>1, <2>2, SeqReturn
<1> QED
  BY <1>1, <1>2, <1>3, <1>4, <1>5, <1>6, <1>7, <1>8, <1>9, <1>10, <1>11, <1>12
     DEF ensureEKSClusterVPC

LEMMA SeqStep == Inv /\ SeqInv /\ Overlap = FALSE /\ [Next]_vars => SeqInv'
<1> SUFFICES ASSUME Inv, SeqInv, Overlap = FALSE, [Next]_vars PROVE SeqInv'
  OBVIOUS
<1>0. Inv'
  BY InvStep
<1>1. ASSUME NEW a \in Attempts, ensureEKSClusterVPC(a) PROVE SeqInv'
  BY <1>0, <1>1, AttemptSeq
<1>2. ASSUME NEW a \in Attempts, CallFails(a) PROVE SeqInv'
  <2>1. /\ InProgress(a) /\ UNCHANGED <<cloud, vpc, routed>>
        /\ at'[a] = <<"failed", "describe">> /\ \A b \in Attempts \ {a} : at'[b] = at[b]
    BY <1>2 DEF CallFails, Goto, Inv, Shape
  <2>2. UniqueInv' /\ (\A s : Good(s) => Good(s)')
    BY <2>1, SameCloud
  <2>3. FreshInv(a)'
    BY <2>1 DEF FreshInv, TableStages
  <2>4. RoutedInv(a)'
    <3>1. RoutedInv(a) /\ at'[a][1] = "failed" /\ routed'[a] = routed[a]
      BY <2>1 DEF SeqInv
    <3>2. \A s \in routed'[a] : Good(s)'
      BY <2>2, <3>1 DEF RoutedInv
    <3> QED
      BY <3>1, <3>2 DEF RoutedInv, AfterNAT, TableStages
  <2> QED
    BY <2>1, <2>2, <2>3, <2>4, OnlyOne, OneStep
<1>3. ASSUME NEW b \in Attempts, NEW state \in {"available", "failed"}, GatewayMoves(b, state)
      PROVE  SeqInv'
  <2>1. /\ gateway[b] = "pending" /\ UNCHANGED <<home, tables, attempt>>
        /\ gateway' = [gateway EXCEPT ![b] = state]
    BY <1>3 DEF GatewayMoves
  <2>2. \A c \in Attempts : gateway'[c] \in {"pending", "available"}
                            => gateway[c] \in {"pending", "available"}
    BY <2>1 DEF Inv, CloudInv
  <2>3. UniqueInv' /\ (\A s : Good(s) => Good(s)')
    BY <2>1, <2>2 DEF SeqInv, UniqueInv, Makers, Good
  <2>4. \A a \in Attempts : FreshInv(a)'
    BY <2>1, <2>2 DEF SeqInv, FreshInv, Makers, attempt
  <2>5. \A a \in Attempts : RoutedInv(a)'
    BY <2>1 DEF SeqInv, RoutedInv, Good, TableOf, attempt
  <2> QED
    BY <2>1, <2>3, <2>4, <2>5 DEF SeqInv, Alone, InProgress, attempt
<1>4. CASE UNCHANGED vars
  BY <1>4 DEF vars, cloud, attempt, SeqInv, Alone, InProgress, UniqueInv, FreshInv,
              RoutedInv, Good, Makers, TableOf
<1> QED
  BY <1>1, <1>2, <1>3, <1>4 DEF Next

LEMMA SeqInit == Init => SeqInv
<1> SUFFICES ASSUME Init PROVE SeqInv
  OBVIOUS
<1>1. \A b \in Attempts : at[b] = <<"start", "describe">> /\ routed[b] = {}
  BY DEF Init
<1>2. Alone
  BY <1>1 DEF Alone, InProgress
<1>3. UniqueInv
  BY DEF Init, UniqueInv, Makers, Kinds, SubnetKinds
<1>4. \A b \in Attempts : FreshInv(b) /\ RoutedInv(b)
  BY <1>1, FieldNames DEF FreshInv, RoutedInv, AfterNAT, TableStages
<1> QED
  BY <1>2, <1>3, <1>4 DEF SeqInv

LEMMA AtMostOne ==
    ASSUME NEW S, \A x, y \in S : x = y
    PROVE  Cardinality(S) <= 1
<1>1. CASE S = {}
  BY <1>1, FS_EmptySet
<1>2. CASE S # {}
  <2>1. PICK x : S = {x}
    BY <1>2
  <2> QED
    BY <2>1, FS_Singleton
<1> QED
  BY <1>1, <1>2

LEMMA Sequential == Overlap = FALSE => (Spec => [](Inv /\ SeqInv))
<1> SUFFICES ASSUME Overlap = FALSE PROVE Spec => [](Inv /\ SeqInv)
  OBVIOUS
<1>1. Init => Inv /\ SeqInv
  BY InitInv, SeqInit
<1>2. Inv /\ SeqInv /\ [Next]_vars => Inv' /\ SeqInv'
  BY InvStep, SeqStep
<1> QED
  BY <1>1, <1>2, PTL DEF Spec

(* Attempts one after another never make a second piece of a kind, however *)
(* many of them there are and wherever the earlier ones failed.            *)
THEOREM NoSecondPiece == Overlap = FALSE => (Spec => []OneOfEach)
<1> SUFFICES ASSUME Overlap = FALSE PROVE Spec => []OneOfEach
  OBVIOUS
<1>1. SeqInv => OneOfEach
  BY AtMostOne DEF SeqInv, UniqueInv, OneOfEach
<1>2. Spec => [](Inv /\ SeqInv)
  BY Sequential
<1> QED
  BY <1>1, <1>2, PTL

(* An attempt that succeeds leaves each of its subnets with an associated  *)
(* route table that has a default route, whatever the earlier ones left    *)
(* half done.                                                              *)
THEOREM SuccessIsRouted == Overlap = FALSE => (Spec => []Routed)
<1> SUFFICES ASSUME Overlap = FALSE PROVE Spec => []Routed
  OBVIOUS
<1>1. SeqInv => Routed
  BY DEF SeqInv, RoutedInv, Routed, Good, AfterNAT
<1>2. Spec => [](Inv /\ SeqInv)
  BY Sequential
<1> QED
  BY <1>1, <1>2, PTL

----------------------------------------------------------------------------
(* Attempts one after another that find everything.                        *)

PrivateOnes == Existing \cap PrivateSubnets

(* What the attempt in progress has passed is there, and it has found or   *)
(* made every private subnet.                                              *)
KnownInv(b) ==
    InProgress(b) =>
        /\ at[b][1] \in {"private", "public"} \cup AfterPublic => Makers("sg") # {}
        /\ at[b][1] \in {"public"} \cup AfterPublic =>
             vpc[b]["private"] = PrivateOnes /\ PrivateOnes # {}
        /\ at[b][1] \in {"nat"} \cup AfterNAT => Makers("eip") # {}

(* Everything that an attempt looks for.                                   *)
Complete ==
    /\ \A f \in Fields \ {"private"} : Makers(f) # {}
    /\ PrivateOnes # {}
    /\ \A s \in Existing : Good(s)

(* Where an attempt is that has found all it looked for, but for a NAT     *)
(* gateway that has failed.                                                *)
Finding(b) ==
    \/ at[b][2] = "describe"
    \/ at[b][1] = "nat"
    \/ at[b][1] \in TableStages /\ at[b][2] \in {"associate", "route"}

AnyDone == \E b \in Attempts : at[b][1] = "done"

DoneInv == AnyDone => Complete /\ \A b \in Attempts : InProgress(b) => Finding(b)

StatedInv == \A b \in Makers("nat") : gateway[b] # "none"

QuietInv == DoneInv /\ StatedInv /\ \A b \in Attempts : KnownInv(b)

(* What a step of an attempt in progress does, whichever call it is.       *)
Moved(a) ==
    /\ InProgress(a)
    /\ \A b \in Attempts \ {a} : at'[b] = at[b] /\ vpc'[b] = vpc[b]
    /\ \A k \in Kinds : Makers(k) \subseteq Makers(k)'
    /\ at[a][1] # "private" => PrivateOnes' = PrivateOnes
    /\ \/ at'[a][1] = at[a][1] /\ vpc'[a] = vpc[a]
       \/ at'[a][1] = "failed"
       \/ /\ at[a][1] \in Fields \cup TableStages
          /\ at'[a][1] = Following[at[a][1]]
          /\ \A k \in {"sg", "eip", "role"} : at[a][1] = k => Makers(k)' # {}
          /\ IF at[a][1] = "private"
             THEN vpc'[a]["private"] = PrivateOnes' /\ PrivateOnes' # {}
             ELSE vpc'[a]["private"] = vpc[a]["private"]

LEMMA PrivateFacts ==
    /\ \A s : s \in PrivateOnes <=>
         \E k \in {"privateA", "privateB"} : \E b \in Makers(k) : s = <<k, b>>
    /\ \A s \in Existing : s \in PrivateOnes \/ \E b \in Makers("public") : s = <<"public", b>>
BY DEF PrivateOnes, Existing, PrivateSubnets, Subnets, SubnetKinds, Makers

LEMMA PrivateKept ==
    ASSUME Makers("privateA")' = Makers("privateA"), Makers("privateB")' = Makers("privateB")
    PROVE  PrivateOnes' = PrivateOnes
<1>1. \A s : s \in PrivateOnes' <=>
         \E k \in {"privateA", "privateB"} : \E b \in Makers(k)' : s = <<k, b>>
  BY DEF PrivateOnes, Existing, PrivateSubnets, Subnets, SubnetKinds, Makers
<1> QED
  BY <1>1, PrivateFacts

(* What is in the cloud, after a step that makes nothing or one piece.     *)
LEMMA SameHome ==
    ASSUME UNCHANGED home
    PROVE  /\ \A k \in Kinds : Makers(k)' = Makers(k)
           /\ PrivateOnes' = PrivateOnes /\ Existing' = Existing
BY DEF Makers, PrivateOnes, Existing

LEMMA MakeGrows ==
    ASSUME Inv, NEW a \in Attempts, NEW kind \in Kinds,
           NEW where \in Attempts \cup {Detached}, Make(a, kind, where)
    PROVE  /\ \A k \in Kinds : Makers(k) \subseteq Makers(k)'
           /\ a \in Makers(kind)'
           /\ kind \notin {"privateA", "privateB"} => PrivateOnes' = PrivateOnes
<1>1. /\ \A k \in Kinds \ {kind} : Makers(k)' = Makers(k)
      /\ Makers(kind)' = Makers(kind) \cup {a}
  BY MakeFacts DEF Inv
<1> QED
  BY <1>1, PrivateKept DEF Kinds, SubnetKinds

LEMMA MovedReturn ==
    ASSUME Inv, NEW a \in Attempts, NEW stage \in Fields, NEW result,
           at[a][1] = stage, Return(a, stage, result),
           \A k \in Kinds : Makers(k) \subseteq Makers(k)',
           stage # "private" => PrivateOnes' = PrivateOnes,
           stage \in {"sg", "eip", "role"} => Makers(stage)' # {},
           stage = "private" => result = PrivateOnes' /\ result # {}
    PROVE  Moved(a)
<1>1. /\ \A b \in Attempts \ {a} : vpc'[b] = vpc[b] /\ at'[b] = at[b]
      /\ \A f \in Fields \ {stage} : vpc'[a][f] = vpc[a][f]
      /\ vpc'[a][stage] = result
      /\ at'[a] = <<Following[stage], "describe">>
  BY ReturnFacts DEF Inv, AttemptInv, ResultsInv
<1>2. InProgress(a) /\ "private" \in Fields
  BY FieldNames DEF InProgress
<1>3. at'[a][1] = Following[at[a][1]] /\ at[a][1] \in Fields
  BY <1>1
<1>4. IF at[a][1] = "private"
      THEN vpc'[a]["private"] = PrivateOnes' /\ PrivateOnes' # {}
      ELSE vpc'[a]["private"] = vpc[a]["private"]
  BY <1>1, <1>2
<1>5. \A k \in {"sg", "eip", "role"} : at[a][1] = k => Makers(k)' # {}
  OBVIOUS
<1> QED
  BY <1>1, <1>2, <1>3, <1>4, <1>5 DEF Moved

LEMMA MovedGoto ==
    ASSUME Inv, NEW a \in Attempts, InProgress(a), NEW call, Goto(a, at[a][1], call),
           UNCHANGED vpc, \A k \in Kinds : Makers(k) \subseteq Makers(k)',
           at[a][1] # "private" => PrivateOnes' = PrivateOnes
    PROVE  Moved(a)
BY DEF Moved, Goto, Inv, Shape

LEMMA DescribeMoves ==
    ASSUME Inv, NEW a \in Attempts, NEW stage \in Fields \ {"private"}, NEW makers,
           makers \subseteq Makers(stage), Describe(a, stage, makers)
    PROVE  Moved(a)
<1>1. at[a][1] = stage /\ UNCHANGED home /\ InProgress(a)
  BY FieldNames DEF Describe, cloud, InProgress
<1>2. Makers(stage)' = Makers(stage)
  BY <1>1 DEF Makers
<1>3. CASE makers # {}
  BY <1>1, <1>2, <1>3, SameHome, MovedReturn DEF Describe
<1>4. CASE makers = {}
  BY <1>1, <1>4, SameHome, MovedGoto DEF Describe
<1> QED
  BY <1>3, <1>4

LEMMA CreateMoves ==
    ASSUME Inv, NEW a \in Attempts, NEW stage \in {"vpc", "sg", "public", "eip"},
           NEW where \in Attempts \cup {Detached}, Create(a, stage, where)
    PROVE  Moved(a)
<1>1. stage \in Fields /\ stage \in Kinds /\ at[a][1] = stage /\ stage # "private"
  BY FieldNames DEF Kinds, SubnetKinds, Create
<1>2. /\ \A k \in Kinds : Makers(k) \subseteq Makers(k)'
      /\ a \in Makers(stage)' /\ PrivateOnes' = PrivateOnes
  BY <1>1, MakeGrows DEF Create
<1> QED
  BY <1>1, <1>2, MovedReturn DEF Create

LEMMA AttachMoves ==
    ASSUME Inv, NEW a \in Attempts, NEW stage \in {"igw", "role"}, at[a][1] = stage,
           Make(a, stage, Detached), Goto(a, stage, "attach"), UNCHANGED vpc
    PROVE  Moved(a)
<1>1. stage \in Kinds /\ InProgress(a)
  BY DEF Kinds, InProgress
<1>2. /\ \A k \in Kinds : Makers(k) \subseteq Makers(k)'
      /\ PrivateOnes' = PrivateOnes
  BY <1>1, MakeGrows
<1> QED
  BY <1>1, <1>2, MovedGoto

LEMMA PrivateMoves ==
    ASSUME Inv, SeqInv, NEW a \in Attempts, ensurePrivateEKSSubnets(a)
    PROVE  Moved(a)
<1>1. at[a][1] = "private" /\ InProgress(a) /\ vpc[a].vpc \in Attempts /\ "private" \in Fields
  BY OwnVPC, FieldNames DEF ensurePrivateEKSSubnets, AfterVPC, AfterIGW, InProgress
<1>2. CASE at[a] = <<"private", "describe">>
  <2>1. UNCHANGED home
    BY <1>2 DEF ensurePrivateEKSSubnets
  <2>2. CASE PrivateOnes # {}
    <3>1. Return(a, "private", PrivateOnes)
      BY <1>2, <2>2 DEF ensurePrivateEKSSubnets, PrivateOnes
    <3> QED
      BY <1>1, <2>1, <2>2, <3>1, SameHome, MovedReturn
  <2>3. CASE PrivateOnes = {}
    <3>1. Goto(a, at[a][1], "create") /\ UNCHANGED vpc
      BY <1>1, <1>2, <2>3 DEF ensurePrivateEKSSubnets, PrivateOnes
    <3> QED
      BY <1>1, <2>1, <3>1, SameHome, MovedGoto
  <2> QED
    BY <2>2, <2>3
<1>3. CASE at[a] = <<"private", "create">>
  <2>1. Make(a, "privateA", vpc[a].vpc) /\ Goto(a, at[a][1], "createB") /\ UNCHANGED vpc
    BY <1>1, <1>3 DEF ensurePrivateEKSSubnets, createSubnetInVPC
  <2>2. \A k \in Kinds : Makers(k) \subseteq Makers(k)'
    BY <1>1, <2>1, MakeGrows DEF Kinds, SubnetKinds
  <2> QED
    BY <1>1, <2>1, <2>2, MovedGoto
<1>4. CASE at[a] = <<"private", "createB">>
  <2>1. Make(a, "privateB", vpc[a].vpc)
        /\ Return(a, "private", {<<"privateA", a>>, <<"privateB", a>>})
    BY <1>4 DEF ensurePrivateEKSSubnets, createSubnetInVPC
  <2>2. Makers("privateB") = {} /\ a \in Makers("privateA")
        /\ \A b, c \in Makers("privateA") : b = c
    BY <1>4 DEF SeqInv, FreshInv, UniqueInv, Inv, AttemptInv, MadeInv, Kinds, SubnetKinds
  <2>3. Makers("privateA")' = {a} /\ Makers("privateB")' = {a}
    BY <1>1, <2>1, <2>2, MakeFacts DEF Inv, Kinds, SubnetKinds
  <2>4. \A k \in Kinds : Makers(k) \subseteq Makers(k)'
    BY <1>1, <2>1, MakeGrows DEF Kinds, SubnetKinds
  <2>5. \A s : s \in PrivateOnes' <=>
           \E k \in {"privateA", "privateB"} : \E b \in Makers(k)' : s = <<k, b>>
    BY DEF PrivateOnes, Existing, PrivateSubnets, Subnets, SubnetKinds, Makers
  <2>6. PrivateOnes' = {<<"privateA", a>>, <<"privateB", a>>}
    BY <2>3, <2>5
  <2> QED
    BY <1>1, <2>1, <2>4, <2>6, MovedReturn
<1> QED
  BY <1>2, <1>3, <1>4 DEF ensurePrivateEKSSubnets

LEMMA GatewayMade ==
    ASSUME Inv, NEW a \in Attempts, NewGateway(a)
    PROVE  /\ at[a] = <<"nat", "create">> /\ at'[a] = <<"nat", "wait">>
           /\ \A b \in Attempts \ {a} : at'[b] = at[b]
           /\ UNCHANGED <<policies, tables, vpc, routed>>
           /\ Makers("nat")' = Makers("nat") \cup {a}
           /\ \A k \in Kinds \ {"nat"} : Makers(k)' = Makers(k)
           /\ gateway' = [gateway EXCEPT ![a] = "pending"]
<1>1. at[a][1] = "nat" /\ vpc[a]["public"] \in Makers("public")
  BY FieldNames DEF NewGateway, Inv, AttemptInv, ResultsInv, AfterPublic, AfterNAT
<1>2. home["public"][vpc[a].public] \in Attempts \cup {Detached}
  BY <1>1 DEF Inv, CloudInv, Makers, Kinds, SubnetKinds
<1>3. Make(a, "nat", home["public"][vpc[a].public])
  BY DEF NewGateway
<1>4. /\ Makers("nat")' = Makers("nat") \cup {a}
      /\ \A k \in Kinds \ {"nat"} : Makers(k)' = Makers(k)
  BY <1>2, <1>3, MakeFacts DEF Inv, Kinds
<1> QED
  BY <1>4 DEF NewGateway, Goto, Inv, Shape

LEMMA GatewayAttempts ==
    ASSUME Inv, NEW a \in Attempts, ensureNATGateway(a)
    PROVE  Moved(a)
<1>1. CASE Describe(a, "nat", {b \in Attempts : gateway[b] \in {"pending", "available"}})
  <2>1. {b \in Attempts : gateway[b] \in {"pending", "available"}} \subseteq Makers("nat")
    BY DEF Inv, CloudInv
  <2> QED
    BY <1>1, <2>1, DescribeMoves, FieldNames
<1>2. CASE NewGateway(a)
  <2>1. \A k \in Kinds : Makers(k) \subseteq Makers(k)'
    BY <1>2, GatewayMade
  <2>2. PrivateOnes' = PrivateOnes
    BY <1>2, GatewayMade, PrivateKept DEF Kinds, SubnetKinds
  <2> QED
    BY <1>2, <2>1, <2>2, GatewayMade DEF Moved, InProgress
<1>3. CASE waitForNATGateway(a)
  <2>1. at[a][1] = "nat" /\ UNCHANGED home /\ Return(a, "nat", a)
    BY <1>3 DEF waitForNATGateway, cloud
  <2> QED
    BY <2>1, SameHome, MovedReturn, FieldNames
<1> QED
  BY <1>1, <1>2, <1>3 DEF ensureNATGateway

LEMMA TablesMove ==
    ASSUME Inv, NEW a \in Attempts, NEW stage \in TableStages, NEW target,
           \/ FindRouteTable(a, stage) \/ CreateRouteTable(a, stage)
           \/ AssociateRouteTable(a, stage) \/ CreateRoute(a, stage, target)
    PROVE  Moved(a)
<1>1. PICK next \in {stage, Following[stage]}, call \in Calls : Goto(a, next, call)
  BY DEF FindRouteTable, CreateRouteTable, AssociateRouteTable, CreateRoute, InHand, DoneWith, Calls
<1>2. at[a][1] = stage /\ UNCHANGED <<home, vpc>>
  BY DEF FindRouteTable, CreateRouteTable, AssociateRouteTable, CreateRoute, cloud
<1>3. /\ \A b \in Attempts \ {a} : at'[b] = at[b] /\ vpc'[b] = vpc[b]
      /\ at'[a][1] = next /\ vpc'[a] = vpc[a]
  BY <1>1, <1>2 DEF Goto, Inv, Shape
<1>4. InProgress(a) /\ stage \notin {"private", "sg", "eip", "role"}
  BY <1>2 DEF InProgress, TableStages
<1> QED
  BY <1>1, <1>2, <1>3, <1>4, SameHome DEF Moved

LEMMA AttemptMoves ==
    ASSUME Inv, SeqInv, NEW a \in Attempts, ensureEKSClusterVPC(a), ~Start(a)
    PROVE  Moved(a)
<1> USE FieldNames DEF Kinds, SubnetKinds
<1>1. CASE ensureVPC(a)
  BY <1>1, DescribeMoves, CreateMoves DEF ensureVPC
<1>2. CASE ensureInternetGateway(a)
  <2>1. CASE Describe(a, "igw", Makers("igw"))
    BY <2>1, DescribeMoves
  <2>2. CASE at[a] = <<"igw", "create">>
    BY <1>2, <2>2, AttachMoves DEF ensureInternetGateway, Describe
  <2>3. CASE at[a] = <<"igw", "attach">>
    <3>1. vpc[a].vpc \in Attempts /\ at[a][1] = "igw"
      BY <2>3, OwnVPC DEF AfterVPC
    <3>2. Make(a, "igw", vpc[a].vpc) /\ Return(a, "igw", a)
      BY <1>2, <2>3 DEF ensureInternetGateway, Describe
    <3>3. /\ \A k \in Kinds : Makers(k) \subseteq Makers(k)'
          /\ PrivateOnes' = PrivateOnes
      BY <3>1, <3>2, MakeGrows
    <3> QED
      BY <3>1, <3>2, <3>3, MovedReturn
  <2> QED
    BY <1>2, <2>1, <2>2, <2>3 DEF ensureInternetGateway
<1>3. CASE ensureEKSClusterSecurityGroup(a)
  <2>1. CASE Describe(a, "sg", Makers("sg"))
    BY <2>1, DescribeMoves
  <2>2. CASE Create(a, "sg", vpc[a].vpc)
    <3>1. vpc[a].vpc \in Attempts
      BY <2>2, OwnVPC DEF Create, AfterVPC, AfterIGW
    <3> QED
      BY <2>2, <3>1, CreateMoves
  <2> QED
    BY <1>3, <2>1, <2>2 DEF ensureEKSClusterSecurityGroup
<1>4. CASE ensurePrivateEKSSubnets(a)
  BY <1>4, PrivateMoves
<1>5. CASE ensurePublicEKSSubnet(a)
  <2>1. CASE Describe(a, "public", Makers("public"))
    BY <2>1, DescribeMoves
  <2>2. CASE at[a] = <<"public", "create">>
    <3>1. vpc[a].vpc \in Attempts
      BY <2>2, OwnVPC DEF AfterVPC, AfterIGW
    <3>2. Create(a, "public", vpc[a].vpc)
      BY <1>5, <2>2 DEF ensurePublicEKSSubnet, createSubnetInVPC, Describe, Create
    <3> QED
      BY <3>1, <3>2, CreateMoves
  <2> QED
    BY <1>5, <2>1, <2>2 DEF ensurePublicEKSSubnet
<1>6. CASE ensurePublicSubnetRouteTable(a) \/ ensurePrivateSubnetRouteTable(a)
  BY <1>6, TablesMove
     DEF ensurePublicSubnetRouteTable, ensurePrivateSubnetRouteTable, TableStages
<1>7. CASE ensureElasticIP(a)
  BY <1>7, DescribeMoves, CreateMoves DEF ensureElasticIP
<1>8. CASE ensureNATGateway(a)
  BY <1>8, GatewayAttempts
<1>9. CASE ensureEKSRoleARN(a)
  BY <1>9, DescribeMoves, AttachMoves DEF ensureEKSRoleARN
<1>10. CASE attachRolePolicy(a)
  <2>1. /\ at[a][1] = "role" /\ Return(a, "role", a) /\ UNCHANGED home
        /\ a \in Makers("role")
    BY <1>10 DEF attachRolePolicy, Inv, AttemptInv, MadeInv
  <2> QED
    BY <2>1, SameHome, MovedReturn
<1> QED
  BY <1>1, <1>2, <1>3, <1>4, <1>5, <1>6, <1>7, <1>8, <1>9, <1>10 DEF ensureEKSClusterVPC

(* The attempt knows what it has passed.                                   *)
LEMMA KnownStep ==
    ASSUME Inv, SeqInv, \A b \in Attempts : KnownInv(b), [Next]_vars
    PROVE  \A b \in Attempts : KnownInv(b)'
<1>1. ASSUME NEW a \in Attempts, Moved(a) PROVE \A b \in Attempts : KnownInv(b)'
  <2>1. ASSUME NEW b \in Attempts \ {a} PROVE KnownInv(b)'
    <3>1. ~InProgress(b)'
      BY <1>1, OnlyOne DEF Moved, InProgress
    <3> QED
      BY <3>1 DEF KnownInv
  <2>2. Makers("sg") \subseteq Makers("sg")' /\ Makers("eip") \subseteq Makers("eip")'
    BY <1>1 DEF Moved, Kinds
  <2>3. KnownInv(a)'
    BY <1>1, <2>2, StageNames, FieldNames
       DEF Moved, KnownInv, InProgress, AfterPublic, AfterNAT, TableStages
  <2> QED
    BY <2>1, <2>3
<1>2. ASSUME NEW a \in Attempts, Start(a) PROVE \A b \in Attempts : KnownInv(b)'
  <2>1. /\ at'[a][1] = "vpc" /\ \A b \in Attempts \ {a} : at'[b] = at[b]
        /\ UNCHANGED <<home, vpc>>
    BY <1>2, StageNames DEF Start, Goto, Inv, Shape, cloud
  <2> QED
    BY <2>1, SameHome DEF KnownInv, InProgress, AfterPublic, AfterNAT, Kinds
<1>3. ASSUME NEW a \in Attempts, CallFails(a) PROVE \A b \in Attempts : KnownInv(b)'
  <2>1. /\ at'[a][1] = "failed" /\ \A b \in Attempts \ {a} : at'[b] = at[b]
        /\ UNCHANGED <<home, vpc>>
    BY <1>3 DEF CallFails, Goto, Inv, Shape, cloud
  <2> QED
    BY <2>1, SameHome DEF KnownInv, InProgress, Kinds
<1>4. CASE UNCHANGED <<home, at, vpc>>
  BY <1>4, SameHome DEF KnownInv, InProgress, Kinds
<1> QED
  BY <1>1, <1>2, <1>3, <1>4, AttemptMoves DEF Next, GatewayMoves, attempt, vars, cloud

(* A NAT gateway that was made has a state.                                *)
LEMMA StatedStep == Inv /\ SeqInv /\ StatedInv /\ [Next]_vars => StatedInv'
<1> SUFFICES ASSUME Inv, SeqInv, StatedInv, [Next]_vars PROVE StatedInv'
  OBVIOUS
<1>1. ASSUME NEW a \in Attempts, NewGateway(a) PROVE StatedInv'
  <2>1. gateway'[a] = "pending" /\ \A b \in Attempts \ {a} : gateway'[b] = gateway[b]
    BY <1>1, GatewayMade DEF Inv, CloudInv
  <2>2. Makers("nat")' = Makers("nat") \cup {a} /\ Makers("nat") \subseteq Attempts
    BY <1>1, GatewayMade DEF Makers
  <2> QED
    BY <2>1, <2>2 DEF StatedInv
<1>2. ASSUME NEW b \in Attempts, NEW state \in {"available", "failed"}, GatewayMoves(b, state)
      PROVE  StatedInv'
  BY <1>2 DEF GatewayMoves, StatedInv, Makers, Inv, CloudInv
<1>3. CASE home'["nat"] = home["nat"] /\ UNCHANGED gateway
  BY <1>3 DEF StatedInv, Makers
<1>4. ASSUME NEW a \in Attempts, ensureEKSClusterVPC(a), ~NewGateway(a)
      PROVE  home'["nat"] = home["nat"] /\ UNCHANGED gateway
  BY <1>4 DEF ensureEKSClusterVPC, Start, ensureVPC, ensureInternetGateway,
       ensureEKSClusterSecurityGroup, ensurePrivateEKSSubnets, ensurePublicEKSSubnet,
       ensurePublicSubnetRouteTable, ensurePrivateSubnetRouteTable, ensureElasticIP,
       ensureNATGateway, waitForNATGateway, ensureEKSRoleARN, attachRolePolicy, Describe, Create,
       createSubnetInVPC, FindRouteTable, CreateRouteTable, AssociateRouteTable, CreateRoute,
       Make, cloud, Inv, CloudInv, Kinds, SubnetKinds
<1> QED
  BY <1>1, <1>2, <1>3, <1>4 DEF Next, CallFails, vars, cloud

(* What an attempt routes exists, and when everything is complete it has a *)
(* route table already.                                                    *)
LEMMA ToRouteIsGood ==
    ASSUME Inv, Complete, NEW a \in Attempts, at[a][1] \in TableStages
    PROVE  \A s \in ToRoute(a, at[a][1]) : Good(s)
<1>1. ResultsInv(a) /\ at[a][1] \in AfterPublic
  BY DEF Inv, AttemptInv, TableStages, AfterPublic, AfterNAT
<1>2. vpc[a].public \in Makers("public") /\ vpc[a].private \subseteq Existing
  BY <1>1, FieldNames DEF ResultsInv
<1>3. <<"public", vpc[a].public>> \in Existing
  BY <1>2, SubnetFacts DEF SubnetKinds
<1> QED
  BY <1>2, <1>3 DEF ToRoute, Complete

(* Once one attempt has succeeded, the next one finds everything.          *)
Finds(a) ==
    /\ UNCHANGED <<policies, tables>>
    /\ UNCHANGED home \/ NewGateway(a)
    /\ at[a][1] # "done"
    /\ \A b \in Attempts \ {a} : at'[b] = at[b]
    /\ InProgress(a)' => Finding(a)'

LEMMA DescribeFinds ==
    ASSUME Inv, NEW a \in Attempts, NEW stage \in Fields \ {"private"}, NEW makers,
           Describe(a, stage, makers), makers # {} \/ stage = "nat"
    PROVE  Finds(a)
<1>1. at[a][1] = stage /\ UNCHANGED cloud
  BY DEF Describe
<1>2. CASE makers # {}
  <2>1. \E b \in makers : Return(a, stage, b)
    BY <1>2 DEF Describe
  <2>2. at'[a][2] = "describe" /\ \A b \in Attempts \ {a} : at'[b] = at[b]
    BY <2>1 DEF Return, Goto, Inv, Shape
  <2> QED
    BY <1>1, <2>2, FieldNames DEF Finds, Finding, cloud
<1>3. CASE makers = {}
  <2>1. Goto(a, "nat", "create")
    BY <1>3 DEF Describe
  <2>2. at'[a][1] = "nat" /\ \A b \in Attempts \ {a} : at'[b] = at[b]
    BY <2>1 DEF Goto, Inv, Shape
  <2> QED
    BY <1>1, <2>2, FieldNames DEF Finds, Finding, cloud
<1> QED
  BY <1>2, <1>3

LEMMA TablesFound ==
    ASSUME Inv, SeqInv, Complete, NEW a \in Attempts, Finding(a),
           NEW stage \in TableStages, NEW target,
           \/ FindRouteTable(a, stage) \/ CreateRouteTable(a, stage)
           \/ AssociateRouteTable(a, stage) \/ CreateRoute(a, stage, target)
    PROVE  Finds(a)
<1>1. at[a][1] = stage /\ stage # "done" /\ stage # "nat" /\ UNCHANGED home
  BY DEF FindRouteTable, CreateRouteTable, AssociateRouteTable, CreateRoute, cloud, TableStages
<1>2. \A s \in ToRoute(a, stage) : Good(s)
  BY <1>1, ToRouteIsGood
<1>3. CASE FindRouteTable(a, stage)
  <2>1. PICK maker, s : InHand(a, maker, s, stage, "associate")
    BY <1>2, <1>3 DEF FindRouteTable, Good
  <2>2. at'[a] = <<stage, "associate">> /\ \A b \in Attempts \ {a} : at'[b] = at[b]
    BY <2>1 DEF InHand, Goto, Inv, Shape
  <2> QED
    BY <1>1, <1>3, <2>2 DEF FindRouteTable, Finds, Finding, cloud
<1>4. CASE CreateRouteTable(a, stage)
  BY <1>1, <1>4 DEF CreateRouteTable, Finding
<1>5. CASE AssociateRouteTable(a, stage)
  <2>1. at[a][2] = "associate" /\ Goto(a, stage, "route") /\ UNCHANGED policies
    BY <1>5 DEF AssociateRouteTable
  <2>2. Good(TableOf(a).subnet)
    BY <1>1, <1>2, <2>1, TableInHand
  <2>3. UNCHANGED tables
    BY <1>5, <2>2 DEF AssociateRouteTable, Good
  <2>4. at'[a] = <<stage, "route">> /\ \A b \in Attempts \ {a} : at'[b] = at[b]
    BY <2>1 DEF Goto, Inv, Shape
  <2> QED
    BY <1>1, <2>1, <2>3, <2>4 DEF Finds, Finding
<1>6. CASE CreateRoute(a, stage, target)
  <2>1. at[a][2] = "route" /\ UNCHANGED policies /\ DoneWith(a, stage, TableOf(a).subnet)
    BY <1>6 DEF CreateRoute
  <2>2. TableOf(a) \in tables /\ Good(TableOf(a).subnet)
    BY <1>1, <1>2, <2>1, TableInHand
  <2>3. TableOf(a).target # Absent
    BY <2>2 DEF Good, SeqInv, UniqueInv
  <2>4. UNCHANGED tables
    BY <1>6, <2>3 DEF CreateRoute
  <2>5. at'[a][2] = "describe" /\ \A b \in Attempts \ {a} : at'[b] = at[b]
    BY <2>1 DEF DoneWith, Goto, Inv, Shape
  <2> QED
    BY <1>1, <2>1, <2>4, <2>5 DEF Finds, Finding
<1> QED
  BY <1>3, <1>4, <1>5, <1>6

LEMMA AttemptFinds ==
    ASSUME Inv, SeqInv, Complete, NEW a \in Attempts, InProgress(a) => Finding(a),
           ensureEKSClusterVPC(a)
    PROVE  Finds(a)
<1> USE FieldNames DEF Kinds, SubnetKinds
<1>1. CASE Start(a)
  <2>1. /\ at[a][1] = "start" /\ at'[a][2] = "describe" /\ UNCHANGED cloud
        /\ \A b \in Attempts \ {a} : at'[b] = at[b]
    BY <1>1 DEF Start, Goto, Inv, Shape
  <2> QED
    BY <2>1 DEF Finds, Finding, cloud
<1>2. \A f \in Fields \ {"private"} : Makers(f) # {}
  BY DEF Complete
<1>3. ASSUME NEW stage \in {"vpc", "sg", "public", "eip", "role", "igw"},
             at[a] = <<stage, "create">> \/ at[a] = <<stage, "attach">>
      PROVE  FALSE
  BY <1>3 DEF InProgress, Finding, TableStages
<1>4. CASE ensureVPC(a) \/ ensureElasticIP(a)
  BY <1>2, <1>3, <1>4, DescribeFinds DEF ensureVPC, ensureElasticIP, Create
<1>5. CASE ensureInternetGateway(a) \/ ensureEKSClusterSecurityGroup(a)
  BY <1>2, <1>3, <1>5, DescribeFinds
     DEF ensureInternetGateway, ensureEKSClusterSecurityGroup, Create
<1>6. CASE ensurePublicEKSSubnet(a) \/ ensureEKSRoleARN(a) \/ attachRolePolicy(a)
  BY <1>2, <1>3, <1>6, DescribeFinds
     DEF ensurePublicEKSSubnet, ensureEKSRoleARN, attachRolePolicy
<1>7. CASE ensurePrivateEKSSubnets(a)
  <2>1. at[a] = <<"private", "describe">> /\ UNCHANGED cloud
    BY <1>7 DEF ensurePrivateEKSSubnets, InProgress, Finding, TableStages, cloud
  <2>2. \E result : Return(a, "private", result)
    BY <1>7, <2>1 DEF ensurePrivateEKSSubnets, Complete, PrivateOnes
  <2>3. at'[a][2] = "describe" /\ \A b \in Attempts \ {a} : at'[b] = at[b]
    BY <2>2 DEF Return, Goto, Inv, Shape
  <2> QED
    BY <2>1, <2>3 DEF Finds, Finding, cloud
<1>8. CASE ensurePublicSubnetRouteTable(a) \/ ensurePrivateSubnetRouteTable(a)
  <2>1. \E stage \in TableStages : \E target :
           \/ FindRouteTable(a, stage) \/ CreateRouteTable(a, stage)
           \/ AssociateRouteTable(a, stage) \/ CreateRoute(a, stage, target)
    BY <1>8 DEF ensurePublicSubnetRouteTable, ensurePrivateSubnetRouteTable, TableStages
  <2>2. InProgress(a)
    BY <2>1 DEF FindRouteTable, CreateRouteTable, AssociateRouteTable, CreateRoute, InProgress,
            TableStages
  <2> QED
    BY <2>1, <2>2, TablesFound
<1>9. CASE ensureNATGateway(a)
  <2>1. CASE Describe(a, "nat", {b \in Attempts : gateway[b] \in {"pending", "available"}})
    BY <2>1, DescribeFinds
  <2>2. CASE NewGateway(a)
    BY <2>2, GatewayMade DEF Finds, Finding
  <2>3. CASE waitForNATGateway(a)
    <3>1. Return(a, "nat", a) /\ at[a][1] = "nat" /\ UNCHANGED cloud
      BY <2>3 DEF waitForNATGateway
    <3>2. at'[a][2] = "describe" /\ \A b \in Attempts \ {a} : at'[b] = at[b]
      BY <3>1 DEF Return, Goto, Inv, Shape
    <3> QED
      BY <3>1, <3>2 DEF Finds, Finding, cloud
  <2> QED
    BY <1>9, <2>1, <2>2, <2>3 DEF ensureNATGateway
<1> QED
  BY <1>1, <1>4, <1>5, <1>6, <1>7, <1>8, <1>9 DEF ensureEKSClusterVPC

LEMMA CompleteStays ==
    ASSUME Inv, Complete, NEW a \in Attempts, UNCHANGED tables, UNCHANGED home \/ NewGateway(a)
    PROVE  Complete'
<1>1. /\ \A k \in Kinds \ {"nat"} : Makers(k)' = Makers(k)
      /\ Makers("nat") \subseteq Makers("nat")'
  BY SameHome, GatewayMade DEF Kinds
<1>2. \A f \in Fields \ {"private"} : Makers(f)' # {}
  BY <1>1, FieldNames DEF Complete, Kinds, SubnetKinds
<1>3. PrivateOnes' = PrivateOnes
  BY <1>1, PrivateKept DEF Kinds, SubnetKinds
<1>4. \A s \in Existing' : s \in Existing
  <2>1. \A s \in Existing' : s \in Subnets /\ s[2] \in Makers(s[1])'
    BY DEF Existing, Subnets, Makers
  <2>2. \A s \in Subnets : s[1] \in Kinds \ {"nat"}
    BY DEF Subnets, Kinds, SubnetKinds
  <2> QED
    BY <1>1, <2>1, <2>2 DEF Existing, Makers
<1> QED
  BY <1>2, <1>3, <1>4 DEF Complete, Good

(* An attempt that has just succeeded leaves everything complete.          *)
LEMMA Arrives ==
    ASSUME Inv, Inv', SeqInv, SeqInv', NEW a \in Attempts, KnownInv(a), Moved(a),
           at'[a][1] = "done"
    PROVE  Complete' /\ \A b \in Attempts : ~InProgress(b)'
<1>1. at[a][1] = "role"
  BY StageNames, FieldNames DEF Moved, InProgress, TableStages
<1>2. Makers("role")' # {} /\ PrivateOnes' = PrivateOnes
      /\ vpc'[a]["private"] = vpc[a]["private"]
      /\ \A k \in Kinds : Makers(k) \subseteq Makers(k)'
  BY <1>1 DEF Moved
<1>3. Makers("sg")' # {} /\ Makers("eip")' # {}
      /\ vpc'[a]["private"] = PrivateOnes' /\ PrivateOnes' # {}
  BY <1>1, <1>2 DEF Moved, KnownInv, AfterPublic, AfterNAT, Kinds
<1>4. /\ vpc'[a]["public"] \in Makers("public")'
      /\ Makers("vpc")' # {} /\ Makers("igw")' # {} /\ Makers("nat")' # {}
  BY FieldNames DEF Inv, AttemptInv, ResultsInv, AfterVPC, AfterIGW, AfterPublic, AfterNAT
<1>5. \A f \in Fields \ {"private"} : Makers(f)' # {}
  BY <1>2, <1>3, <1>4, FieldNames
<1>6. \A s \in PrivateOnes' \cup {<<"public", vpc'[a]["public"]>>} : Good(s)'
  BY <1>3 DEF SeqInv, RoutedInv, AfterNAT
<1>7. \A s \in Existing' : s \in PrivateOnes' \/ \E b \in Makers("public")' : s = <<"public", b>>
  BY DEF PrivateOnes, Existing, PrivateSubnets, Subnets, SubnetKinds, Makers
<1>8. \A b \in Makers("public")' : b = vpc'[a]["public"]
  BY <1>4 DEF SeqInv, UniqueInv, Kinds, SubnetKinds
<1>9. \A b \in Attempts : ~InProgress(b)'
  BY OnlyOne, <1>1 DEF Moved, InProgress
<1> QED
  BY <1>3, <1>5, <1>6, <1>7, <1>8, <1>9 DEF Complete

LEMMA DoneStep ==
    ASSUME Inv, Inv', SeqInv, SeqInv', QuietInv, [Next]_vars
    PROVE  DoneInv'
<1>1. CASE UNCHANGED <<home, tables, at>>
  BY <1>1, SameHome
     DEF QuietInv, DoneInv, AnyDone, InProgress, Finding, Complete, Good, Kinds, Makers
<1>2. ASSUME NEW a \in Attempts, CallFails(a) PROVE DoneInv'
  <2>1. /\ at'[a][1] = "failed" /\ \A b \in Attempts \ {a} : at'[b] = at[b]
        /\ UNCHANGED <<home, tables>>
    BY <1>2 DEF CallFails, Goto, Inv, Shape, cloud
  <2>2. AnyDone' => AnyDone
    BY <2>1 DEF AnyDone
  <2>3. Complete => Complete'
    BY <2>1, CompleteStays
  <2> QED
    BY <2>1, <2>2, <2>3 DEF QuietInv, DoneInv, InProgress, Finding
<1>3. ASSUME NEW a \in Attempts, ensureEKSClusterVPC(a), AnyDone PROVE DoneInv'
  <2>1. Complete /\ \A b \in Attempts : InProgress(b) => Finding(b)
    BY <1>3 DEF QuietInv, DoneInv
  <2>2. Finds(a)
    BY <1>3, <2>1, AttemptFinds
  <2>3. Complete'
    BY <2>1, <2>2, CompleteStays DEF Finds
  <2>4. \A b \in Attempts : InProgress(b)' => Finding(b)'
    BY <2>1, <2>2 DEF Finds, InProgress, Finding
  <2> QED
    BY <2>3, <2>4 DEF DoneInv
<1>4. ASSUME NEW a \in Attempts, ensureEKSClusterVPC(a), ~AnyDone, AnyDone' PROVE DoneInv'
  <2>1. CASE Start(a)
    <3>1. /\ at'[a][1] = "vpc" /\ \A b \in Attempts \ {a} : at'[b] = at[b]
      BY <2>1, StageNames DEF Start, Goto, Inv, Shape
    <3> QED
      BY <1>4, <3>1 DEF AnyDone
  <2>2. CASE ~Start(a)
    <3>1. Moved(a)
      BY <1>4, <2>2, AttemptMoves
    <3>2. at'[a][1] = "done"
      BY <1>4, <3>1 DEF Moved, AnyDone
    <3> QED
      BY <3>1, <3>2, Arrives DEF QuietInv, DoneInv
  <2> QED
    BY <2>1, <2>2
<1> QED
  BY <1>1, <1>2, <1>3, <1>4 DEF Next, GatewayMoves, attempt, vars, cloud, DoneInv

LEMMA QuietInit == Init => QuietInv
<1> SUFFICES ASSUME Init PROVE QuietInv
  OBVIOUS
<1>1. \A b \in Attempts : at[b][1] = "start"
  BY DEF Init
<1>2. Makers("nat") = {}
  BY DEF Init, Makers, Kinds
<1>3. DoneInv /\ \A b \in Attempts : KnownInv(b)
  BY <1>1 DEF DoneInv, AnyDone, KnownInv, InProgress
<1> QED
  BY <1>2, <1>3 DEF QuietInv, StatedInv

(* Everything that the one attempt needs is there.                         *)
LEMMA NothingMade ==
    ASSUME Inv, SeqInv, QuietInv, AnyDone, \A b \in Attempts : gateway[b] # "failed", [Next]_vars
    PROVE  UNCHANGED <<home, policies, tables>>
<1>1. Complete /\ \A b \in Attempts : InProgress(b) => Finding(b)
  BY DEF QuietInv, DoneInv
<1>2. ASSUME NEW a \in Attempts, NewGateway(a) PROVE FALSE
  <2>1. at[a] = <<"nat", "create">>
    BY <1>2, GatewayMade
  <2>2. \A c \in Attempts : gateway[c] \notin {"pending", "available"}
    BY <2>1 DEF SeqInv, FreshInv
  <2>3. PICK c \in Makers("nat") : gateway[c] # "none"
    BY <1>1, FieldNames DEF Complete, QuietInv, StatedInv
  <2>4. c \in Attempts
    BY <2>3 DEF Makers
  <2> QED
    BY <2>2, <2>3, <2>4 DEF Inv, CloudInv
<1>3. ASSUME NEW a \in Attempts, ensureEKSClusterVPC(a) PROVE UNCHANGED <<home, policies, tables>>
  BY <1>1, <1>2, <1>3, AttemptFinds DEF Finds
<1> QED
  BY <1>3 DEF Next, CallFails, GatewayMoves, vars, cloud

(* Once an attempt has succeeded the next ones make nothing and change     *)
(* nothing: every piece and every route they need is found, wherever the   *)
(* attempts before the successful one had failed.  A NAT gateway that has  *)
(* failed in the meantime is the one thing that is made again.             *)
THEOREM NothingMadeTwice == Overlap = FALSE => (Spec => Settled)
<1> SUFFICES ASSUME Overlap = FALSE PROVE Spec => Settled
  OBVIOUS
<1>1. Init => QuietInv
  BY QuietInit
<1>2. Inv /\ Inv' /\ SeqInv /\ SeqInv' /\ QuietInv /\ [Next]_vars => QuietInv'
  BY DoneStep, StatedStep, KnownStep DEF QuietInv
<1>3. Inv /\ SeqInv /\ QuietInv /\ [Next]_vars
      => [(\E a \in Attempts : at[a][1] = "done") /\ (\A b \in Attempts : gateway[b] # "failed")
           => UNCHANGED <<home, policies, tables>>]_vars
  BY NothingMade DEF AnyDone
<1>4. Spec => [](Inv /\ SeqInv)
  BY Sequential
<1> QED
  BY <1>1, <1>2, <1>3, <1>4, PTL DEF Spec, Settled
=============================================================================
