------------------------- MODULE MCDaemonLifecycle -------------------------
(* Instances of DaemonLifecycle for TLC.                                   *)
EXTENDS DaemonLifecycle

(* Two LIF neurons of width 2, live. *)
Base ==
  [config_file |-> "good", tick_rate_hz |-> 1, log_level |-> "info",
   runtime_mode |-> "live", lif_count |-> 2, izh_count |-> 0, channels |-> 2,
   capacity |-> [k \in MessageClass |-> 1], max_payload_len |-> 2,
   block_timeout_ms |-> 0, host |-> "ipv6", sndhwm |-> 1, linger_ms |-> 0,
   control_bind |-> "address", model_path |-> "directory", services |-> << >>]

(* One configuration beyond each limit of validate.  The wrapping ones add *)
(* up or multiply to something small in usize.                             *)
BadConfigs ==
  {[Base EXCEPT !.config_file = "absolute_with_parent"],
   [Base EXCEPT !.tick_rate_hz = 0], [Base EXCEPT !.tick_rate_hz = MaxTickRate + 1],
   [Base EXCEPT !.lif_count = 0],
   [Base EXCEPT !.runtime_mode = "simulation", !.lif_count = USIZE_MAX, !.izh_count = 2],
   [Base EXCEPT !.lif_count = U16_MAX, !.channels = 4, !.max_payload_len = 4],
   [Base EXCEPT !.izh_count = 1],
   [Base EXCEPT !.channels = 0], [Base EXCEPT !.channels = 3],
   [Base EXCEPT !.capacity["control"] = 0],
   [Base EXCEPT !.capacity["reward"] = MAX_QUEUE_CAPACITY + 1],
   [Base EXCEPT !.max_payload_len = MAX_PAYLOAD_LEN + 1],
   [Base EXCEPT !.block_timeout_ms = MAX_BLOCK_TIMEOUT_MS + 1],
   [Base EXCEPT !.log_level = "verbose"], [Base EXCEPT !.host = "digits"],
   [Base EXCEPT !.sndhwm = 0], [Base EXCEPT !.linger_ms = -1],
   [Base EXCEPT !.control_bind = "malformed"]}

(* Simulation without a control surface, with every list of up to three    *)
(* entries about one service or two entries about two.                     *)
Entry(names) == [name : names, enabled : BOOLEAN]
WithServices ==
  {[Base EXCEPT !.runtime_mode = "simulation", !.izh_count = 1,
                !.control_bind = "none", !.services = s] :
     s \in UNION {[1 .. n -> Entry({"a"})] : n \in 0 .. 3} \cup
             [1 .. 2 -> Entry({"a", "b"})]}

Row(w) == [width |-> w, output_weights |-> FALSE, params |-> "good", trained |-> TRUE]
Sidecar(rows) == [json |-> TRUE, source |-> "allowed", q88 |-> "signed",
                  encoder |-> "named", frozen_lineage |-> "none", neurons |-> rows]
Good == Sidecar(<< Row(2), Row(2) >>)

(* Two good documents, ragged rows, a blank one, one with a readout, one   *)
(* that overflows and one that does not parse.                             *)
SomeDocuments ==
  {Good, [Good EXCEPT !.frozen_lineage = "named"],
   Sidecar(<< Row(2), Row(1) >>),
   Sidecar(<< [Row(2) EXCEPT !.trained = FALSE], [Row(2) EXCEPT !.trained = FALSE] >>),
   Sidecar(<< [Row(2) EXCEPT !.output_weights = TRUE], Row(2) >>),
   Sidecar(<< Row(2), [Row(2) EXCEPT !.params = "overflows"] >>),
   [Good EXCEPT !.source = "none"], [Good EXCEPT !.json = FALSE]}

Hub(n, w) == [json |-> TRUE, model_type |-> "spikenaut-snn", n_neurons |-> n,
              n_channels |-> w]
SomeHubConfigs == {Hub(2, 2), Hub(2, 3)}

(* Another good document, a hub configuration that disagrees, nothing. *)
SomeReplacements == {[Good EXCEPT !.frozen_lineage = "named"], Hub(2, 3), NoFile}

(* Model directories. *)
Disk(direct, nested, hub, inner) ==
  ("direct" :> direct) @@ ("nested" :> nested) @@ ("hub" :> hub) @@ ("inner" :> inner)
SingleFiles == {Disk(d, NoFile, NoFile, NoFile) : d \in SomeDocuments \cup {NoFile}}
Trees ==
  {Disk(NoFile, Good, h, NoFile) : h \in SomeHubConfigs \cup {NoFile}} \cup
  {Disk(NoFile, Good, Hub(2, 3), Hub(2, 2)), Disk(NoFile, Good, Hub(2, 2), Hub(2, 3)),
   Disk(Good, [Good EXCEPT !.frozen_lineage = "named"], Hub(2, 2), NoFile),
   Disk(Good, Sidecar(<< Row(2), Row(1) >>), Hub(2, 3), Hub(2, 2)),
   Disk(NoFile, NoFile, Hub(2, 2), NoFile)}

(* main on every document, run on every tree by every name, and every      *)
(* entry point on the rest.                                                *)
SomeStarts ==
  LET plain == Disk(Good, NoFile, NoFile, NoFile)
      With(p) == [Base EXCEPT !.model_path = p]
  IN {[entry |-> "main", config |-> With("sidecar"), files |-> d] : d \in SingleFiles}
     \cup {[entry |-> "run", config |-> With(p), files |-> d] :
             p \in {"directory", "config.json", "merged_v2", "inner_config",
                    "nested_sidecar"}, d \in Trees}
     \cup {[entry |-> e, config |-> c, files |-> plain] :
             e \in EntryPoint,
             c \in BadConfigs \cup WithServices \cup {With("mem"), With("missing")}}
     \cup {[entry |-> "run_for_ticks", config |-> Base, files |-> plain]}

(* A pair that fits, a blank one, one of the wrong size, one of the wrong  *)
(* schema.                                                                 *)
SomePairs ==
  {Restored(Base, Good, "direct"),
   Restored([Base EXCEPT !.channels = 1], Good, "direct"),
   BlankSimulation(Base)}
=============================================================================
