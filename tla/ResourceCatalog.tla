-------------------------- MODULE ResourceCatalog --------------------------
(***************************************************************************)
(* The AWS resources the cost plugin knows: for each Terraform type how    *)
(* its attributes are read, which product of the price table it is looked  *)
(* up as, and what it costs a month.                                       *)
(*                                                                         *)
(* Money is counted in millionths of a dollar a month, rates in millionths *)
(* of a dollar.  The attributes of a resource are a function from the      *)
(* names it sets.  A price table is a set of products: the code keeps them *)
(* in a map and takes the first that matches, so which of several it is    *)
(* differs between two look-ups in one table, and so a cost is one of a    *)
(* set.  Location and service are one per table; the usage prefix of the   *)
(* region is a count of the prefixes before the usage type.                *)
(***************************************************************************)
EXTENDS Integers, Sequences, FiniteSets, SequencesExt

HoursPerMonth == 730

NoAttrs == [k \in {} |-> 0]

\* RawAttrs: what is absent reads as the zero of its type.
Str(a, k)   == IF k \in DOMAIN a THEN a[k] ELSE ""
Num(a, k)   == IF k \in DOMAIN a THEN a[k] ELSE 0
Flag(a, k)  == k \in DOMAIN a /\ a[k]
Block(a, k) == IF k \in DOMAIN a THEN a[k] ELSE NoAttrs
Strs(a, k)  == IF k \in DOMAIN a THEN a[k] ELSE <<>>

strOr(s, default) == IF s = "" THEN default ELSE s
numOr(n, default) == IF n = 0 THEN default ELSE n

MatchString(value, fallback, cases) == IF value \in DOMAIN cases THEN cases[value] ELSE fallback

-----------------------------------------------------------------------------
(* Price tables *)

product(family, attrs, usage, rate, memory, storage) ==
  [family |-> family, attrs |-> attrs, usage |-> usage,
   rate |-> rate, memory |-> memory, storage |-> storage]

\* LookupBuilder: empty values are no condition.
lookupOf(service, family, attrs, usage) ==
  [service |-> service, family |-> family, usage |-> usage,
   attrs |-> [k \in {x \in DOMAIN attrs : attrs[x] # ""} |-> attrs[k]]]

UsageType(suffix) == IF suffix = "" THEN {} ELSE {<<1, suffix>>}

matchesLookup(price, lookup) ==
  /\ lookup.family \in {"", price.family}
  /\ \A k \in DOMAIN lookup.attrs : Str(price.attrs, k) = lookup.attrs[k]
  /\ lookup.usage \subseteq {price.usage}

\* LookupPrice returns one of these, an error when there is none.
LookupPrice(index, lookup) == {p \in index : matchesLookup(p, lookup)}

\* IndexRate: with one more prefix than given, then as given.
IndexRate(index, family, prefixes, suffix) ==
  LET at(n) == {p.rate : p \in LookupPrice(index, lookupOf("", family, NoAttrs, {<<n, suffix>>}))}
  IN  IF at(prefixes + 1) # {} THEN at(prefixes + 1) ELSE at(prefixes)

-----------------------------------------------------------------------------
(* CostBuilder *)

\* A charge for units beyond a free allowance, of which there are qty for
\* every GiB of memory or storage of the product, or qty in all.
charge(qty, per, free, fixed, family, prefixes, suffix, fallback) ==
  [qty |-> qty, per |-> per, free |-> free, fixed |-> fixed, family |-> family,
   prefixes |-> prefixes, suffix |-> suffix, fallback |-> fallback]

Fixed(qty, rate) == charge(qty, "unit", 0, rate, "", 0, "", 0)
Indexed(qty, free, family, suffix, fallback) == charge(qty, "unit", free, 0, family, 0, suffix, fallback)

resolveChargeRate(c, index) ==
  IF c.fixed # 0 THEN {c.fixed}
  ELSE LET found == IndexRate(index, c.family, c.prefixes, c.suffix)
       IN  IF found # {} THEN found ELSE {c.fallback}

quantity(c, price) ==
  c.qty * (CASE c.per = "unit" -> 1 [] c.per = "memory" -> price.memory [] c.per = "storage" -> price.storage)

\* Mutant: the free allowance is taken off any quantity, not only a larger one.
calcChargesRefunding(charges, price, index, base) ==
  FoldLeft(LAMBDA totals, c :
             LET billed == quantity(c, price) - c.free
             IN  IF quantity(c, price) > 0
                   THEN {x + billed * r : x \in totals, r \in resolveChargeRate(c, index)}
                   ELSE totals,
           {base}, charges)

calcCharges(charges, price, index, base) ==
  FoldLeft(LAMBDA totals, c :
             LET billed == quantity(c, price) - c.free
             IN  IF billed > 0 THEN {x + billed * r : x \in totals, r \in resolveChargeRate(c, index)}
                               ELSE totals,
           {base}, charges)

Hourly(scale, fallback, charges) ==
  [units |-> scale * HoursPerMonth, fallback |-> fallback, charges |-> charges]
PerUnit(qty, fallback, charges) == [units |-> qty, fallback |-> fallback, charges |-> charges]

\* Without a base rate the charges go as well.
Calc(b, price, index) ==
  LET rate == IF price.rate > 0 THEN price.rate ELSE b.fallback
  IN  IF rate = 0 THEN {0} ELSE calcCharges(b.charges, price, index, rate * b.units)

-----------------------------------------------------------------------------
(* Definitions.  A standard one has a look-up, none when its attributes do *)
(* not make one, and a cost; a fixed one an amount; a usage-based one an   *)
(* amount or zero when the usage is not known before it happens.           *)

standard(lookup, cost) == [category |-> "standard", lookup |-> lookup, cost |-> cost, amount |-> 0, subs |-> <<>>]
without(category, amount) ==
  [category |-> category, lookup |-> {}, cost |-> PerUnit(0, 0, <<>>), amount |-> amount, subs |-> <<>>]
fixedMonthly(amount) == without("fixed", amount)
usageBased(amount) == without("usage", amount)

\* A look-up that needs an attribute fails without it.
requires(value, lookup) == IF value = "" THEN {} ELSE {lookup}

linux(type, tenancy) ==
  lookupOf("ec2", "Compute Instance",
           [instanceType |-> type, operatingSystem |-> "Linux", preInstalledSw |-> "NA",
            capacitystatus |-> "Used", tenancy |-> tenancy], {})

\* Without a root_block_device block the volume is 8 GB of gp2.
rootVolume(a) ==
  LET root == Block(a, "root_block_device")
  IN  [type |-> strOr(Str(root, "volume_type"), "gp2"), size |-> numOr(Num(root, "volume_size"), 8)]
      @@ [k \in {x \in {"iops", "throughput"} : Num(root, x) > 0} |-> root[k]]

Instance(a) ==
  [standard(requires(Str(a, "instance_type"),
                     linux(Str(a, "instance_type"),
                           LET t == Str(a, "tenancy")
                           IN  IF t \in {"", "default"} THEN "Shared"
                               ELSE IF t = "dedicated" THEN "Dedicated" ELSE IF t = "host" THEN "Host" ELSE t)),
            Hourly(1, 0, <<>>))
   EXCEPT !.subs = <<[type |-> "aws_ebs_volume", attrs |-> rootVolume(a)]>>]

EBS(a) ==
  LET type == strOr(Str(a, "type"), "gp2")
      iops(free, suffix, fallback) == Indexed(Num(a, "iops"), free, "System Operation", suffix, fallback)
      throughput == Indexed(Num(a, "throughput"), 125, "Provisioned Throughput", "VolumeP-Throughput.gp3", 40000)
  IN  standard({lookupOf("ec2", "Storage", [volumeApiName |-> type], {})},
               PerUnit(numOr(Num(a, "size"), 8), 0,
                       CASE type = "io1" -> <<iops(0, "VolumeP-IOPS.piops", 65000)>>
                         [] type = "io2" -> <<iops(0, "VolumeP-IOPS.io2", 65000)>>
                         [] type = "gp3" -> <<iops(3000, "VolumeP-IOPS.gp3", 6000), throughput>>
                         [] OTHER        -> <<>>))

EIP(a) ==
  standard({lookupOf("vpc", "", [group |-> "VPCPublicIPv4Address"],
                     UsageType(IF Str(a, "instance") = "" THEN "IdleAddress" ELSE "InUseAddress"))},
           Hourly(1, 5000, <<>>))

NAT(a) == standard({lookupOf("ec2", "NAT Gateway", [group |-> "NGW:NatGateway"], {})}, Hourly(1, 45000, <<>>))

\* Engines are named by their family: the rest of the name picks an edition
\* that the look-up leaves open.
mapRDSEngine(engine) ==
  MatchString(engine, "MySQL",
              [e \in {"aurora-postgresql", "aurora", "aurora-mysql", "postgres", "postgresql", "mariadb",
                      "oracle", "sqlserver"} |->
                 CASE e = "aurora-postgresql"           -> "Aurora PostgreSQL"
                   [] e \in {"aurora", "aurora-mysql"}   -> "Aurora MySQL"
                   [] e \in {"postgres", "postgresql"}   -> "PostgreSQL"
                   [] e = "mariadb"                     -> "MariaDB"
                   [] e = "oracle"                      -> "Oracle"
                   [] e = "sqlserver"                   -> "SQL Server"])

getStorageCostPerGB(type) ==
  IF type \in {"io1", "io2"} THEN 125000 ELSE IF type = "standard" THEN 100000 ELSE 115000

DBInstance(a) ==
  LET type == Str(a, "storage_type")
      storage == Fixed(Num(a, "allocated_storage"), getStorageCostPerGB(type))
  IN  standard(requires(Str(a, "instance_class"),
                        lookupOf("rds", "Database Instance",
                                 [instanceType |-> Str(a, "instance_class"),
                                  databaseEngine |-> mapRDSEngine(strOr(Str(a, "engine"), "mysql")),
                                  deploymentOption |-> IF Flag(a, "multi_az") THEN "Multi-AZ" ELSE "Single-AZ"], {})),
               Hourly(1, 0, IF type \in {"io1", "io2"} THEN <<storage, Fixed(Num(a, "iops"), 100000)>>
                                                       ELSE <<storage>>))

clusterStorageType(a) ==
  strOr(Str(a, "storage_type"),
        IF Str(a, "engine") \in {"", "aurora", "aurora-mysql", "aurora-postgresql"} THEN "aurora" ELSE "gp3")

RDSCluster(a) ==
  LET type == clusterStorageType(a)
      multiAZ == Str(a, "db_cluster_instance_class") # ""
      named(aurora, iopt, gp3, piops) ==
        MatchString(type, "", [t \in {"aurora", "aurora-iopt1", "gp3", "io1", "io2"} |->
                                 CASE t = "aurora"       -> aurora
                                   [] t = "aurora-iopt1" -> iopt
                                   [] t = "gp3"          -> gp3
                                   [] OTHER              -> piops])
  IN  standard({lookupOf("rds", "Database Storage",
                         [databaseEngine |-> IF multiAZ THEN mapRDSEngine(Str(a, "engine")) ELSE "",
                          deploymentOption |-> IF multiAZ THEN "Multi-AZ (readable standbys)" ELSE "",
                          volumeType |-> named("Aurora:StorageUsage", "Aurora:StorageIOUsage",
                                               "General Purpose-GP3", "Provisioned IOPS")],
                         UsageType(named("StorageUsage", "StorageIOUsage", "GP3-Storage", "PIOPS-Storage")))},
               PerUnit(numOr(Num(a, "allocated_storage"), 10),
                       CASE type = "aurora"       -> 100000
                         [] type = "aurora-iopt1" -> 225000
                         [] OTHER                 -> getStorageCostPerGB(type), <<>>))

\* Neither the deployment nor the I/O option of the cluster is looked for.
RDSClusterInstance(a) ==
  standard(requires(Str(a, "instance_class"),
                    lookupOf("rds", "Database Instance",
                             [instanceType |-> Str(a, "instance_class"),
                              databaseEngine |-> mapRDSEngine(strOr(Str(a, "engine"), "aurora-mysql"))], {})),
           Hourly(1, 0, <<>>))

LoadBalancer(a) ==
  LET type == strOr(Str(a, "load_balancer_type"), "application")
  IN  standard({lookupOf("ec2", CASE type = "network" -> "Load Balancer-Network"
                                  [] type = "gateway" -> "Load Balancer-Gateway"
                                  [] OTHER            -> "Load Balancer-Application",
                         NoAttrs, UsageType("LoadBalancerUsage"))},
               Hourly(1, IF type = "gateway" THEN 12500 ELSE 22500, <<>>))

ClassicLB(a) ==
  standard({lookupOf("elb", "Load Balancer", NoAttrs, UsageType("LoadBalancerUsage"))}, Hourly(1, 25000, <<>>))

maxZero(n) == IF n > 0 THEN n ELSE 0

\* The usage types of the two charges carry the prefix already.
cacheNodes(a, type, engine, nodes) ==
  standard(requires(type, lookupOf("elasticache", "Cache Instance", [instanceType |-> type, cacheEngine |-> engine],
                                   UsageType(type))),
           Hourly(nodes, 0,
                  <<charge(nodes, "storage", 0, 0, "Cache Storage", 1, "DataTiering:StorageUsage", 12500),
                    charge(nodes * maxZero(Num(a, "snapshot_retention_limit") - 1), "memory", 0, 0,
                           "Storage Snapshot", 1, "BackupUsage", 85000)>>))

CacheCluster(a) ==
  cacheNodes(a, Str(a, "node_type"), IF Str(a, "engine") = "memcached" THEN "Memcached" ELSE "Redis",
             numOr(Num(a, "num_cache_nodes"), 1))

totalNodes(a) ==
  LET total == numOr(Num(a, "num_node_groups"), 1) * (1 + Num(a, "replicas_per_node_group"))
  IN  IF total = 1 THEN numOr(Num(a, "number_cache_clusters"), 1) ELSE total

ReplicationGroup(a) == cacheNodes(a, Str(a, "node_type"), "Redis", totalNodes(a))

ServerlessCache(a) ==
  standard({lookupOf("elasticache", "ElastiCache Serverless", NoAttrs, UsageType("ServerlessStorage"))},
           Hourly(numOr(Num(Block(Block(a, "cache_usage_limits"), "data_storage"), "maximum"), 1), 171, <<>>))

EKSCluster(a) ==
  standard({lookupOf("eks", "Compute", NoAttrs, UsageType("perCluster"))}, Hourly(1, 100000, <<>>))

NodeGroup(a) ==
  LET types == Strs(a, "instance_types")
      desired == Num(Block(a, "scaling_config"), "desired_size")
  IN  standard({linux(IF types = <<>> THEN "t3.medium" ELSE strOr(types[1], "t3.medium"), "Shared")},
               Hourly(IF desired > 0 THEN desired ELSE 1, 0, <<>>))

\* 4.646 millionths for a GB and a second.
Lambda(a) ==
  usageBased(((maxZero(Num(a, "provisioned_concurrent_executions")) * numOr(Num(a, "memory_size"), 128) * 16726)
              \div 1024) * HoursPerMonth)

DynamoDB(a) ==
  usageBased(IF Str(a, "billing_mode") = "PAY_PER_REQUEST" THEN 0
             ELSE (numOr(Num(a, "read_capacity"), 5) * 130 + numOr(Num(a, "write_capacity"), 5) * 650)
                  * HoursPerMonth)

Alarm(a) == fixedMonthly(IF Num(a, "period") \in 1..59 THEN 300000 ELSE 100000)

usageUnknownTypes == {"aws_sqs_queue", "aws_sns_topic", "aws_s3_bucket", "aws_cloudwatch_log_group"}

ResourceTypes ==
  usageUnknownTypes \cup
  {"aws_instance", "aws_ebs_volume", "aws_eip", "aws_nat_gateway", "aws_db_instance", "aws_rds_cluster",
   "aws_rds_cluster_instance", "aws_lb", "aws_alb", "aws_elb", "aws_elasticache_cluster",
   "aws_elasticache_replication_group", "aws_elasticache_serverless_cache", "aws_eks_cluster",
   "aws_eks_node_group", "aws_lambda_function", "aws_dynamodb_table", "aws_cloudwatch_metric_alarm",
   "aws_secretsmanager_secret", "aws_kms_key", "aws_route53_zone"}

Definition(type, a) ==
  CASE type = "aws_instance"                      -> Instance(a)
    [] type = "aws_ebs_volume"                    -> EBS(a)
    [] type = "aws_eip"                           -> EIP(a)
    [] type = "aws_nat_gateway"                   -> NAT(a)
    [] type = "aws_db_instance"                   -> DBInstance(a)
    [] type = "aws_rds_cluster"                   -> RDSCluster(a)
    [] type = "aws_rds_cluster_instance"          -> RDSClusterInstance(a)
    [] type \in {"aws_lb", "aws_alb"}             -> LoadBalancer(a)
    [] type = "aws_elb"                           -> ClassicLB(a)
    [] type = "aws_elasticache_cluster"           -> CacheCluster(a)
    [] type = "aws_elasticache_replication_group" -> ReplicationGroup(a)
    [] type = "aws_elasticache_serverless_cache"  -> ServerlessCache(a)
    [] type = "aws_eks_cluster"                   -> EKSCluster(a)
    [] type = "aws_eks_node_group"                -> NodeGroup(a)
    [] type = "aws_lambda_function"               -> Lambda(a)
    [] type = "aws_dynamodb_table"                -> DynamoDB(a)
    [] type = "aws_cloudwatch_metric_alarm"       -> Alarm(a)
    [] type = "aws_secretsmanager_secret"         -> fixedMonthly(400000)
    [] type = "aws_kms_key"                       -> fixedMonthly(1000000)
    [] type = "aws_route53_zone"                  -> fixedMonthly(500000)
    [] OTHER                                      -> usageBased(0)
=============================================================================
