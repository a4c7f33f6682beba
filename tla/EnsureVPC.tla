------------------------------ MODULE EnsureVPC ------------------------------
(***************************************************************************)
(* ensureEKSClusterVPC (pkg/kgrid/grid/eks.go): the network and the role   *)
(* that the new EKS clusters of an account and region share.  Each piece   *)
(* is looked up by its tag and created if there is none.  The goroutine of *)
(* each new cluster calls it, in this process and in others, and calls it  *)
(* again when a failed `kgrid create` is repeated; nothing is rolled back. *)
(*                                                                         *)
(* An attempt is one such call.  It makes at most one piece of a kind, so  *)
(* a piece is named by the attempt that made it.  Every API call is a step *)
(* of its own, or an error that ends the attempt.                          *)
(***************************************************************************)
EXTENDS Naturals, FiniteSets

CONSTANTS
    Attempts,   \* the calls of ensureEKSClusterVPC
    Overlap,    \* whether they may be in progress at the same time
    Absent,     \* no such piece
    Detached    \* a piece that is in no VPC

ASSUME AttemptsAssumption ==
    /\ Overlap \in BOOLEAN
    /\ Absent \notin Attempts /\ Detached \notin Attempts /\ Absent # Detached

SubnetKinds == {"privateA", "privateB", "public"}
Kinds == {"vpc", "igw", "sg", "eip", "nat", "role"} \cup SubnetKinds
Subnets == SubnetKinds \X Attempts
PrivateSubnets == {s \in Subnets : s[1] # "public"}
Targets == {"igw", "nat"} \X Attempts

ASSUME AbsentAssumption == Absent \notin Targets

VARIABLES
    home,      \* per kind and maker, the VPC the piece is in, Detached or Absent
    gateway,   \* per maker, the state of its NAT gateway
    policies,  \* the roles that have all their policies
    tables,    \* the route tables
    at,        \* per attempt, the function it is in and the call that is next
    vpc,       \* per attempt, the types.AWSVPC it is filling in
    routed,    \* per attempt, the subnets whose route tables it is done with
    table      \* per attempt, the maker and the subnet of the route table in hand

cloud == <<home, gateway, policies, tables>>
attempt == <<at, vpc, routed, table>>
vars == <<cloud, attempt>>

(* The functions in the order in which ensureEKSClusterVPC calls them.     *)
Following == [start |-> "vpc", vpc |-> "igw", igw |-> "sg", sg |-> "private",
              private |-> "public", public |-> "publicTable", publicTable |-> "eip",
              eip |-> "nat", nat |-> "privateTables", privateTables |-> "role",
              role |-> "done"]
Stages == DOMAIN Following \cup {"done", "failed"}
Calls == {"describe", "create", "createB", "attach", "wait", "associate", "route"}

Makers(kind) == {b \in Attempts : home[kind][b] # Absent}
Existing == {s \in Subnets : home[s[1]][s[2]] # Absent}

NothingYet == [vpc |-> Absent, igw |-> Absent, sg |-> Absent, private |-> {},
               public |-> Absent, eip |-> Absent, nat |-> Absent, role |-> Absent]

Init ==
    /\ home = [kind \in Kinds |-> [b \in Attempts |-> Absent]]
    /\ gateway = [b \in Attempts |-> "none"]
    /\ policies = {}
    /\ tables = {}
    /\ at = [a \in Attempts |-> <<"start", "describe">>]
    /\ vpc = [a \in Attempts |-> NothingYet]
    /\ routed = [a \in Attempts |-> {}]
    /\ table = [a \in Attempts |-> Absent]

----------------------------------------------------------------------------
InProgress(a) == at[a][1] \notin {"start", "done", "failed"}

Goto(a, stage, call) == at' = [at EXCEPT ![a] = <<stage, call>>]

(* The function of this stage returns; its result goes into the AWSVPC.    *)
Return(a, stage, result) ==
    /\ vpc' = [vpc EXCEPT ![a] = [@ EXCEPT ![stage] = result]]
    /\ Goto(a, Following[stage], "describe")

(* A Describe call with the tag as its filter: the first piece of the      *)
(* listing, whose order is not specified.                                  *)
Describe(a, stage, makers) ==
    /\ at[a] = <<stage, "describe">>
    /\ IF makers # {}
       THEN \E b \in makers : Return(a, stage, b)
       ELSE Goto(a, stage, "create") /\ UNCHANGED vpc
    /\ UNCHANGED <<cloud, routed, table>>

Make(a, kind, where) == home' = [home EXCEPT ![kind] = [@ EXCEPT ![a] = where]]

(* A Create call of a piece that takes no further call.                    *)
Create(a, stage, where) ==
    /\ at[a] = <<stage, "create">>
    /\ Make(a, stage, where)
    /\ Return(a, stage, a)
    /\ UNCHANGED <<gateway, policies, tables, routed, table>>

Start(a) ==
    /\ at[a] = <<"start", "describe">>
    /\ Overlap \/ \A b \in Attempts : ~InProgress(b)
    /\ Goto(a, Following["start"], "describe")
    /\ UNCHANGED <<cloud, vpc, routed, table>>

(* The VPC itself.                                                         *)
ensureVPC(a) == Describe(a, "vpc", Makers("vpc")) \/ Create(a, "vpc", a)

(* Created and then attached; one that was found is taken as it is.        *)
ensureInternetGateway(a) ==
    \/ Describe(a, "igw", Makers("igw"))
    \/ /\ at[a] = <<"igw", "create">>
       /\ Make(a, "igw", Detached)
       /\ Goto(a, "igw", "attach")
       /\ UNCHANGED <<gateway, policies, tables, vpc, routed, table>>
    \/ /\ at[a] = <<"igw", "attach">>
       /\ \A b \in Attempts : home["igw"][b] # vpc[a].vpc
       /\ Make(a, "igw", vpc[a].vpc)
       /\ Return(a, "igw", a)
       /\ UNCHANGED <<gateway, policies, tables, routed, table>>

(* The name of the group is taken once it exists in the VPC.               *)
ensureEKSClusterSecurityGroup(a) ==
    \/ Describe(a, "sg", Makers("sg"))
    \/ /\ \A b \in Attempts : home["sg"][b] # vpc[a].vpc
       /\ Create(a, "sg", vpc[a].vpc)

(* A subnet's address range is taken once it exists in the VPC.            *)
createSubnetInVPC_ErrorIgnored(a, kind) == Make(a, kind, vpc[a].vpc) \/ UNCHANGED home

createSubnetInVPC(a, kind) ==
    /\ \A b \in Attempts : home[kind][b] # vpc[a].vpc
    /\ Make(a, kind, vpc[a].vpc)

(* All private subnets there are; or two new ones.                         *)
ensurePrivateEKSSubnets(a) ==
    /\ \/ /\ at[a] = <<"private", "describe">>
          /\ IF Existing \cap PrivateSubnets # {}
             THEN Return(a, "private", Existing \cap PrivateSubnets)
             ELSE Goto(a, "private", "create") /\ UNCHANGED vpc
          /\ UNCHANGED home
       \/ /\ at[a] = <<"private", "create">>
          /\ createSubnetInVPC(a, "privateA")
          /\ Goto(a, "private", "createB")
          /\ UNCHANGED vpc
       \/ /\ at[a] = <<"private", "createB">>
          /\ createSubnetInVPC(a, "privateB")
          /\ Return(a, "private", {<<"privateA", a>>, <<"privateB", a>>})
    /\ UNCHANGED <<gateway, policies, tables, routed, table>>

ensurePublicEKSSubnet(a) ==
    \/ Describe(a, "public", Makers("public"))
    \/ /\ at[a] = <<"public", "create">>
       /\ createSubnetInVPC(a, "public")
       /\ Return(a, "public", a)
       /\ UNCHANGED <<gateway, policies, tables, routed, table>>

ensureElasticIP_AlwaysAllocates(a) ==
    Describe(a, "eip", {}) \/ Create(a, "eip", Detached)

ensureElasticIP(a) == Describe(a, "eip", Makers("eip")) \/ Create(a, "eip", Detached)

(* A gateway that was created is waited for; one that was found, pending   *)
(* or available, is not.                                                   *)
NewGateway(a) ==
    /\ at[a] = <<"nat", "create">>
    /\ Make(a, "nat", home["public"][vpc[a].public])
    /\ gateway' = [gateway EXCEPT ![a] = "pending"]
    /\ Goto(a, "nat", "wait")
    /\ UNCHANGED <<policies, tables, vpc, routed, table>>

waitForNATGateway(a) ==
    /\ at[a] = <<"nat", "wait">>
    /\ gateway[a] = "available"
    /\ Return(a, "nat", a)
    /\ UNCHANGED <<cloud, routed, table>>

ensureNATGateway_OnlyAvailable(a) ==
    \/ Describe(a, "nat", {b \in Attempts : gateway[b] = "available"})
    \/ NewGateway(a) \/ waitForNATGateway(a)

ensureNATGateway(a) ==
    \/ Describe(a, "nat", {b \in Attempts : gateway[b] \in {"pending", "available"}})
    \/ NewGateway(a) \/ waitForNATGateway(a)

(* The role's name is taken once it exists.                                *)
ensureEKSRoleARN(a) ==
    \/ Describe(a, "role", Makers("role"))
    \/ /\ at[a] = <<"role", "create">>
       /\ Makers("role") = {}
       /\ Make(a, "role", Detached)
       /\ Goto(a, "role", "attach")
       /\ UNCHANGED <<gateway, policies, tables, vpc, routed, table>>

(* The five calls of attachRolePolicy.                                     *)
attachRolePolicy(a) ==
    /\ at[a] = <<"role", "attach">>
    /\ policies' = policies \cup {a}
    /\ Return(a, "role", a)
    /\ UNCHANGED <<home, gateway, tables, routed, table>>

----------------------------------------------------------------------------
(* The route tables: found by the subnet they are tagged with or created,  *)
(* then associated with the subnet, then given the default route.          *)

ToRoute(a, stage) == IF stage = "publicTable" THEN {<<"public", vpc[a].public>>}
                                              ELSE vpc[a].private \ routed[a]

TableOf(a) == CHOOSE t \in tables : <<t.maker, t.subnet>> = table[a]

InHand(a, maker, s, stage, call) ==
    /\ table' = [table EXCEPT ![a] = <<maker, s>>]
    /\ Goto(a, stage, call)

DoneWith(a, stage, s) ==
    /\ routed' = [routed EXCEPT ![a] = @ \cup {s}]
    /\ Goto(a, IF ToRoute(a, stage) \subseteq {s} THEN Following[stage] ELSE stage, "describe")

FindRouteTable_TakenAsDone(a, stage) ==
    /\ at[a] = <<stage, "describe">>
    /\ \E s \in ToRoute(a, stage) :
         IF \E t \in tables : t.subnet = s
         THEN DoneWith(a, stage, s) /\ UNCHANGED table
         ELSE InHand(a, a, s, stage, "create") /\ UNCHANGED routed
    /\ UNCHANGED <<cloud, vpc>>

FindRouteTable(a, stage) ==
    /\ at[a] = <<stage, "describe">>
    /\ \E s \in ToRoute(a, stage) :
         \/ \E t \in tables : t.subnet = s /\ InHand(a, t.maker, s, stage, "associate")
         \/ /\ \A t \in tables : t.subnet # s
            /\ InHand(a, a, s, stage, "create")
    /\ UNCHANGED <<cloud, vpc, routed>>

CreateRouteTable(a, stage) ==
    /\ at[a] = <<stage, "create">>
    /\ tables' = tables \cup {[maker |-> a, subnet |-> table[a][2], vpc |-> vpc[a].vpc,
                               associated |-> FALSE, target |-> Absent]}
    /\ Goto(a, stage, "associate")
    /\ UNCHANGED <<home, gateway, policies, vpc, routed, table>>

(* "Resource.AlreadyAssociated" is no error, whichever table it is.        *)
AssociateRouteTable(a, stage) ==
    /\ at[a] = <<stage, "associate">>
    /\ LET t == TableOf(a)
       IN IF \E u \in tables : u.subnet = t.subnet /\ u.associated
          THEN UNCHANGED tables
          ELSE /\ home[t.subnet[1]][t.subnet[2]] = t.vpc
               /\ tables' = (tables \ {t}) \cup {[t EXCEPT !.associated = TRUE]}
    /\ Goto(a, stage, "route")
    /\ UNCHANGED <<home, gateway, policies, vpc, routed, table>>

(* Route and gateway must be in one VPC.  A table that has a default route *)
(* to another gateway keeps it: an error for the public table only.        *)
CreateRoute(a, stage, target) ==
    /\ at[a] = <<stage, "route">>
    /\ LET t == TableOf(a)
       IN /\ IF t.target = Absent
             THEN /\ home[target[1]][target[2]] = t.vpc
                  /\ tables' = (tables \ {t}) \cup {[t EXCEPT !.target = target]}
             ELSE /\ stage = "privateTables" \/ t.target = target
                  /\ UNCHANGED tables
          /\ DoneWith(a, stage, t.subnet)
    /\ UNCHANGED <<home, gateway, policies, vpc, table>>

ensurePublicSubnetRouteTable(a) ==
    \/ FindRouteTable(a, "publicTable") \/ CreateRouteTable(a, "publicTable")
    \/ AssociateRouteTable(a, "publicTable")
    \/ CreateRoute(a, "publicTable", <<"igw", vpc[a].igw>>)

ensurePrivateSubnetRouteTable(a) ==
    \/ FindRouteTable(a, "privateTables") \/ CreateRouteTable(a, "privateTables")
    \/ AssociateRouteTable(a, "privateTables")
    \/ CreateRoute(a, "privateTables", <<"nat", vpc[a].nat>>)

----------------------------------------------------------------------------
(* Any call may fail, and the wait for a NAT gateway may time out.         *)
CallFails(a) ==
    /\ InProgress(a)
    /\ Goto(a, "failed", "describe")
    /\ UNCHANGED <<cloud, vpc, routed, table>>

(* What becomes of a NAT gateway is up to AWS.                             *)
GatewayMoves(b, state) ==
    /\ gateway[b] = "pending"
    /\ gateway' = [gateway EXCEPT ![b] = state]
    /\ UNCHANGED <<home, policies, tables, attempt>>

ensureEKSClusterVPC(a) ==
    \/ Start(a)
    \/ ensureVPC(a) \/ ensureInternetGateway(a) \/ ensureEKSClusterSecurityGroup(a)
    \/ ensurePrivateEKSSubnets(a) \/ ensurePublicEKSSubnet(a)
    \/ ensurePublicSubnetRouteTable(a) \/ ensureElasticIP(a) \/ ensureNATGateway(a)
    \/ ensurePrivateSubnetRouteTable(a) \/ ensureEKSRoleARN(a) \/ attachRolePolicy(a)

Next ==
    \/ \E a \in Attempts : ensureEKSClusterVPC(a) \/ CallFails(a)
    \/ \E b \in Attempts, state \in {"available", "failed"} : GatewayMoves(b, state)

Spec == Init /\ [][Next]_vars

----------------------------------------------------------------------------
(* Properties.                                                             *)

Tables == [maker : Attempts, subnet : Subnets, vpc : Attempts,
           associated : BOOLEAN, target : Targets \cup {Absent}]

(* Every variable holds what the code can put there, and what an attempt   *)
(* has in hand exists.                                                     *)
TypeOK ==
    /\ home \in [Kinds -> [Attempts -> Attempts \cup {Detached, Absent}]]
    /\ gateway \in [Attempts -> {"none", "pending", "available", "failed"}]
    /\ policies \subseteq Makers("role")
    /\ tables \subseteq Tables
    /\ at \in [Attempts -> Stages \X Calls]
    /\ \A a \in Attempts :
         /\ vpc[a].private \subseteq Existing \cap PrivateSubnets
         /\ \A stage \in DOMAIN vpc[a] \ {"private"} :
              vpc[a][stage] \in Makers(stage) \cup {Absent}
         /\ routed[a] \subseteq {t.subnet : t \in tables}

(* The comment on ensureEKSClusterVPC: "all clusters end ip in a single    *)
(* VPC".                                                                   *)
SingleVPC == Cardinality(Makers("vpc")) <= 1

(* Attempts one after another never make a second piece of a kind, however *)
(* the earlier ones failed; a NAT gateway is replaced when it has failed.  *)
OneOfEach ==
    /\ \A kind \in Kinds \ {"nat"} : Cardinality(Makers(kind)) <= 1
    /\ Cardinality({b \in Attempts : gateway[b] \in {"pending", "available"}}) <= 1
    /\ \A t, u \in tables : t.subnet = u.subnet => t = u

(* An attempt that succeeds leaves each of its subnets with an associated  *)
(* route table that has a default route, also when an earlier attempt has  *)
(* failed between the calls that this takes.                               *)
Routed ==
    \A a \in Attempts : at[a][1] = "done" =>
        \A s \in vpc[a].private \cup {<<"public", vpc[a].public>>} :
            \E t \in tables : t.subnet = s /\ t.associated /\ t.target # Absent

(* Once an attempt has succeeded the next ones find everything, unless a   *)
(* NAT gateway has failed in the meantime.                                 *)
Settled ==
    [][((\E a \in Attempts : at[a][1] = "done") /\ \A b \in Attempts : gateway[b] # "failed")
          => UNCHANGED <<home, policies, tables>>]_vars
=============================================================================
