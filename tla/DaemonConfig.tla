---------------------------- MODULE DaemonConfig ----------------------------
(***************************************************************************)
(* What the daemon is configured with: the validation of config.rs and of  *)
(* IngressConfig (ingress/mod.rs), the service registry of registry.rs and *)
(* the log filter of logging.rs.  Pure operators on a configuration.       *)
(***************************************************************************)
EXTENDS Integers, Sequences, SequencesExt

CONSTANTS
  USIZE_MAX, U16_MAX,          \* of the integer types
  MaxTickRate,                 \* 1_000_000
  MAX_NETWORK_INPUTS, MAX_PAYLOAD_LEN, MAX_QUEUE_CAPACITY, MAX_BLOCK_TIMEOUT_MS

NanosPerSecond == 1000000000

ASSUME ConfigAssumption ==
  /\ {USIZE_MAX, U16_MAX, MaxTickRate, MAX_NETWORK_INPUTS, MAX_PAYLOAD_LEN,
      MAX_QUEUE_CAPACITY, MAX_BLOCK_TIMEOUT_MS} \subseteq Nat
  /\ U16_MAX <= USIZE_MAX /\ MAX_NETWORK_INPUTS <= USIZE_MAX
  /\ MaxTickRate <= NanosPerSecond

MessageClass == {"sensory", "reward", "control", "telemetry"}
LogLevel == {"error", "warn", "info", "debug", "trace"}

(* Hosts by their syntax.  "digits": only digits and dots, and no address. *)
GoodHost == {"ipv4", "ipv6", "[ipv6]", "*", "hostname"}
Host == GoodHost \cup {"digits", "malformed"}

Usize == 0 .. USIZE_MAX
Service == [name : STRING, enabled : BOOLEAN]

(* DaemonConfig and its IngressConfig.  config_file is how the file was    *)
(* named and whether it could be read and parsed, model_path what is there *)
(* when the daemon starts.                                                 *)
Config ==
  [config_file : {"good", "absolute_with_parent", "unreadable"},
   tick_rate_hz : Nat, log_level : STRING, runtime_mode : {"live", "simulation"},
   lif_count : Usize, izh_count : Usize, channels : Usize,
   capacity : [MessageClass -> Nat], max_payload_len : Nat, block_timeout_ms : Nat,
   host : Host, sndhwm : Int, linger_ms : Int,
   control_bind : {"none", "address", "malformed"},
   model_path : {"directory", "config.json", "sidecar", "merged_v2", "inner_config",
                 "nested_sidecar", "mem", "missing"},
   services : Seq(Service)]

(* Sums and products that wrap. *)
MutValidateDimensions(c) ==
  LET total == (c.lif_count + c.izh_count) % (USIZE_MAX + 1)
  IN /\ total \in 1 .. U16_MAX
     /\ (total * c.channels) % (USIZE_MAX + 1) <= MAX_NETWORK_INPUTS

(* checked_add and checked_mul: a result beyond usize is refused. *)
ValidateDimensions(c) ==
  LET total == c.lif_count + c.izh_count
  IN /\ total <= USIZE_MAX
     /\ total \in 1 .. U16_MAX
     /\ total * c.channels <= USIZE_MAX
     /\ total * c.channels <= MAX_NETWORK_INPUTS

(* IngressConfig::validate *)
ValidateIngress(c) ==
  /\ c.max_payload_len \in 1 .. MAX_PAYLOAD_LEN
  /\ c.block_timeout_ms <= MAX_BLOCK_TIMEOUT_MS
  /\ \A k \in MessageClass : c.capacity[k] \in 1 .. MAX_QUEUE_CAPACITY

ValidateLogLevel(c) == c.log_level \in LogLevel
ValidatePubBindHost(c) == c.host \in GoodHost

(* An infinite linger let through. *)
MutValidatePubSocketOpts(c) == c.sndhwm > 0

ValidatePubSocketOpts(c) == c.sndhwm > 0 /\ c.linger_ms >= 0

(* DaemonConfig::validate *)
Validate(c) ==
  /\ c.tick_rate_hz \in 1 .. MaxTickRate
  /\ ValidateDimensions(c)
  /\ ValidateIngress(c)
  /\ c.channels \in 1 .. c.max_payload_len
  /\ c.runtime_mode = "live" => c.izh_count = 0
  /\ ValidateLogLevel(c)
  /\ ValidatePubBindHost(c)
  /\ ValidatePubSocketOpts(c)
  /\ c.control_bind # "malformed"

(* DaemonConfig::load *)
Loads(c) == c.config_file = "good" /\ Validate(c)

(* pub_endpoint: the host as ZeroMQ wants it. *)
PubEndpoint(c) == IF c.host = "ipv6" THEN "[ipv6]" ELSE c.host

(* Disabled entries passed over. *)
MutFromConfigs(services) ==
  FoldLeft(LAMBDA set, s : IF s.enabled THEN set \cup {s.name} ELSE set,
           {}, services)

(* ServiceRegistry::from_configs: the names registered. *)
FromConfigs(services) ==
  FoldLeft(LAMBDA set, s : IF s.enabled THEN set \cup {s.name}
                           ELSE set \ {s.name}, {}, services)

(* resolve_filter: where the filter comes from, and whether a diagnostic   *)
(* is printed.                                                             *)
RustLog == {"unset", "valid", "invalid"}
ResolveFilter(rust_log) ==
  [from |-> IF rust_log = "valid" THEN "env" ELSE "toml",
   diagnostic |-> rust_log = "invalid"]

-----------------------------------------------------------------------------
(* What an accepted configuration must guarantee, without the order and    *)
(* the machine arithmetic of validate.                                     *)

(* Every neuron has a channel number that fits a spike's u16, the weights  *)
(* fit the cap, a packet of the configured width is not too long for the   *)
(* queues, the tick's duration is neither undefined nor zero, no queue is  *)
(* unbounded or shut, and closing the PUB socket ends.                     *)
Sound(c) ==
  LET neurons == c.lif_count + c.izh_count
  IN /\ neurons > 0 /\ \A i \in 0 .. neurons - 1 : i <= U16_MAX
     /\ neurons * c.channels <= MAX_NETWORK_INPUTS
     /\ 0 < c.channels /\ c.channels <= c.max_payload_len
     /\ c.max_payload_len <= MAX_PAYLOAD_LEN
     /\ 0 < c.tick_rate_hz /\ c.tick_rate_hz <= NanosPerSecond
     /\ \A k \in MessageClass : 0 < c.capacity[k] /\ c.capacity[k] <= MAX_QUEUE_CAPACITY
     /\ c.sndhwm > 0 /\ c.linger_ms >= 0

(* The entry for n that comes last. *)
LastWord(services, n) ==
  \E i \in 1 .. Len(services) :
    /\ services[i].name = n /\ services[i].enabled
    /\ \A j \in i + 1 .. Len(services) : services[j].name # n
=============================================================================
