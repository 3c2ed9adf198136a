------------------------------- MODULE MCCost -------------------------------
(* CostEstimate with two modules whose resources need one price table.       *)
EXTENDS CostEstimate

CONSTANTS p1, p2, m1, m2

mcAskers == Procs \cup Modules
mcStored == {Unreadable} \cup 0..1
mcProcOf == [a \in mcAskers |-> IF a = p2 THEN p2 ELSE p1]

\* One table has the products of all services: their families tell them apart.
mcKeyOf == [s \in {"ec2", "vpc", "rds", "elb", "elasticache", "eks"} |-> 1]
plain(family, attrs, rate) == product(family, attrs, <<0, "">>, rate, 0, 0)
used(family, attrs, usage, rate) == product(family, attrs, usage, rate, 0, 0)
mysql == [instanceType |-> "db", databaseEngine |-> "MySQL", deploymentOption |-> "Single-AZ"]
aurora(mode) == [instanceType |-> "db", databaseEngine |-> "Aurora MySQL", storage |-> mode]
mcProducts ==
  1 :> {plain("Compute Instance", linux("vm", "Shared").attrs, 10),
        plain("Storage", [volumeApiName |-> "gp2"], 100),
        plain("Storage", [volumeApiName |-> "gp3"], 80),
        plain("Storage", [volumeApiName |-> "io2"], 90),
        used("System Operation", NoAttrs, <<1, "VolumeP-IOPS.gp3">>, 5),
        used("System Operation", NoAttrs, <<0, "VolumeP-IOPS.io2">>, 6),
        used("Provisioned Throughput", NoAttrs, <<1, "VolumeP-Throughput.gp3">>, 4),
        plain("Database Instance", mysql, 20),
        plain("Database Instance", aurora("standard"), 20),
        plain("Database Instance", aurora("io"), 30),
        product("Cache Instance", [instanceType |-> "cache", cacheEngine |-> "Redis"], <<1, "cache">>, 7, 3, 2)}

\* Amounts below, at and above what is free or taken by default.
volume(type) == [type : {type}, size : {1, 9}, iops : {0, 100, 3001}, throughput : {0, 125, 200}]
mcSizes ==
  "aws_ebs_volume" :> (volume("gp2") \cup volume("gp3") \cup volume("io2")) @@
  "aws_db_instance" :> [instance_class : {"db"}, storage_type : {"gp3", "io1"}, allocated_storage : {0, 10},
                        iops : {0, 10}] @@
  "aws_elasticache_cluster" :> [node_type : {"cache"}, num_cache_nodes : 1..2, snapshot_retention_limit : 0..3] @@
  "aws_elasticache_replication_group" :> [node_type : {"cache"}, num_node_groups : 1..2,
                                          replicas_per_node_group : 0..2, snapshot_retention_limit : {0, 5}]

resourceOf(type, action, before, after) ==
  [type |-> type, action |-> action, before |-> before, after |-> after]
file(rs) == [readable |-> TRUE, resources |-> rs]
unreadable == [readable |-> FALSE, resources |-> <<>>]

vm == {[instance_type |-> "vm"]}
gp3 == {[type |-> "gp3", size |-> 2, iops |-> 3001]}
node == {[instance_class |-> "db"]}
huge == {[type |-> "st1"]}
fn == {[provisioned_concurrent_executions |-> 1]}
none == {}

\* Two modules that need one table, one of them twice; and resources of every other
\* category beside a plan that cannot be read.
replaced == file(<<resourceOf("aws_ebs_volume", "replace", gp3, gp3)>>)
created == file(<<resourceOf("aws_ebs_volume", "create", none, gp3)>>)
kept == file(<<resourceOf("aws_kms_key", "no-op", {NoAttrs}, {NoAttrs}),
               resourceOf("aws_eip", "read", {NoAttrs}, {NoAttrs}),
               resourceOf("aws_instance", "create", none, vm),
               resourceOf("aws_db_instance", "delete", node, none)>>)
odd == file(<<resourceOf("aws_ebs_volume", "update", huge, gp3),
              resourceOf("aws_lambda_function", "create", none, fn),
              resourceOf("aws_instance", "create", none, {NoAttrs}),
              resourceOf("aws_vpc", "update", {NoAttrs}, {NoAttrs})>>)
open == file(<<resourceOf("aws_rds_cluster_instance", "update", node, node)>>)
mcPlans == {(m1 :> replaced @@ m2 :> created)} \cup {(m1 :> f @@ m2 :> unreadable) : f \in {kept, odd, open}}
=============================================================================
