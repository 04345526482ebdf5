-------------------------- MODULE CheckpointRestore --------------------------
(***************************************************************************)
(* restore_network of checkpoint/mod.rs: from model_path to a network and  *)
(* its provenance, one step per access to the file system, whose files     *)
(* others may replace or remove between any two of them.                   *)
(*                                                                         *)
(* A model directory holds up to four files: "direct" is snn_model.json in *)
(* its root, "nested" the one in dataset/merged_v2, "hub" and "inner" the  *)
(* config.json beside each.  model_path may name either directory, either  *)
(* config.json (the inner one is "inner_config") or either sidecar.        *)
(***************************************************************************)
EXTENDS DaemonConfig

CONSTANTS
  Documents, HubConfigs,   \* what the files may hold
  Replacements,            \* what they may be replaced by meanwhile
  NoFile, NoPair,
  MaxWrites                \* changes to the file system; bounds the model

SidecarPath == {"direct", "nested"}
HubPath == {"hub", "inner"}
Unset == -1

(* A row of the sidecar.  params: finite as f32 with a decay in (0, 1), or *)
(* not.  trained: some weight is above BLANK_WEIGHT_ABS_MAX.               *)
Neuron == [width : Nat, output_weights : BOOLEAN,
           params : {"good", "overflows", "bad_decay"}, trained : BOOLEAN]

(* The bytes of a sidecar file; json: they are UTF-8 and parse. *)
Document == [json : BOOLEAN, source : {"none", "allowed", "other"},
             q88 : {"none", "signed", "other"}, encoder : {"none", "empty", "named"},
             frozen_lineage : {"none", "empty", "named"}, neurons : Seq(Neuron)]

HubConfig == [json : BOOLEAN, model_type : {"none", "spikenaut-snn", "other"},
              n_neurons : Nat \cup {Unset}, n_channels : Nat \cup {Unset}]

ASSUME RestoreAssumption ==
  /\ Documents \subseteq Document /\ HubConfigs \subseteq HubConfig
  /\ NoFile \notin Document \cup HubConfig
  /\ Replacements \subseteq Documents \cup HubConfigs \cup {NoFile}
  /\ MaxWrites \in Nat

(* weight_width; 0 when the rows are empty or differ. *)
WeightWidth(d) ==
  IF \A i \in 1 .. Len(d.neurons) : d.neurons[i].width = d.neurons[1].width
  THEN d.neurons[1].width ELSE 0

ValidateSchema(d) ==
  /\ d.neurons # << >>
  /\ d.source = "allowed"          \* require_allowed_source
  /\ d.q88 # "other" /\ d.encoder # "empty"

Rows(d) == {d.neurons[i] : i \in 1 .. Len(d.neurons)}
RejectOutputWeights(d) == \A n \in Rows(d) : ~n.output_weights
ValidateFiniteParameters(d) == \A n \in Rows(d) : n.params = "good"
ValidateNonblankWeights(d) == \E n \in Rows(d) : n.trained

ValidateHubConfig(h, d) ==
  /\ h.json
  /\ h.model_type # "other"
  /\ h.n_neurons \in {Unset, Len(d.neurons)}
  /\ h.n_channels # Unset => WeightWidth(d) # 0 /\ h.n_channels = WeightWidth(d)

(* weight_width and validate_ingress_contract *)
ValidateIngressContract(c, d) ==
  /\ WeightWidth(d) # 0
  /\ c.lif_count = Len(d.neurons)
  /\ c.channels = WeightWidth(d)

(* Candidates in the order they are looked for: sidecar_in_directory and   *)
(* resolve_from_hub_config.  merged_v2 holds no dataset/merged_v2 itself,  *)
(* so the nested file is all there is to find from within it.              *)
Candidates(model_path) ==
  CASE model_path = "directory" -> << "direct", "nested" >>
    [] model_path = "config.json" -> << "nested", "direct" >>
    [] model_path \in {"merged_v2", "inner_config", "nested_sidecar"}
         -> << "nested" >>
    [] OTHER -> << "direct" >>

(* A sidecar named in the configuration is taken as it is. *)
NamedSidecar(model_path) ==
  CASE model_path = "sidecar" -> "direct"
    [] model_path = "nested_sidecar" -> "nested"
    [] OTHER -> "none"

(* The nested file's hub configuration in the root forgotten. *)
MutHubCandidates(path) == IF path = "direct" THEN << "hub" >> ELSE << "inner" >>

(* find_hub_config *)
HubCandidates(path) == IF path = "direct" THEN << "hub" >> ELSE << "inner", "hub" >>

(* model_id *)
ModelId(d, path) ==
  CASE d.frozen_lineage = "named" -> "lineage"
    [] d.frozen_lineage # "named" /\ d.encoder # "none" -> "source_and_encoder"
    [] OTHER -> path

(* A network is its dimensions and the document its weights come from;     *)
(* hex_sha256 is taken to tell all documents apart, so a digest is the     *)
(* document it was computed from.                                          *)
Network(c, weights) == [lif |-> c.lif_count, izh |-> c.izh_count,
                        channels |-> c.channels, weights |-> weights]
BlankWeights == "zeros"

(* blank_simulation_network *)
BlankSimulation(c) ==
  [network |-> Network(c, BlankWeights),
   provenance |-> [schema |-> "simulation/blank", path |-> "simulation",
                   sha |-> "none", model |-> "simulation/blank"]]

(* provenance_of *)
ProvenanceOf(d, path) ==
  [schema |-> "sidecar-json/v1", path |-> path, sha |-> d,
   model |-> ModelId(d, path)]

(* restore_spiking_network *)
Restored(c, d, path) ==
  [network |-> Network(c, d), provenance |-> ProvenanceOf(d, path)]

VARIABLES
  config,
  files,         \* Path -> contents or NoFile
  writes, ever,  \* history: changes so far; <<path, contents>> there so far
  step,          \* where restore_network is
  tried,         \* candidates already looked for
  sidecar,       \* the path resolved
  document,      \* what was read from it
  restored,      \* the pair returned
  io_failed      \* history: an access failed on a file that is there

progress == << step, tried, sidecar, document, restored, io_failed >>
disk == << files, writes, ever >>
rvars == << config, disk, progress >>

Contents(path) == IF path \in SidecarPath THEN Documents ELSE HubConfigs

RestoreTypeOK ==
  /\ \A p \in SidecarPath \cup HubPath : files[p] \in Contents(p) \cup {NoFile}
  /\ writes \in 0 .. MaxWrites
  /\ step \in {"idle", "exists", "resolve", "read", "find_hub", "read_hub",
               "apply", "done", "failed"}
  /\ tried \in 0 .. 2
  /\ sidecar \in SidecarPath \cup {"none"}
  /\ document \in Documents \cup {NoFile}
  /\ restored \in {NoPair} \/ DOMAIN restored = {"network", "provenance"}
  /\ io_failed \in BOOLEAN

RestoreInit ==
  /\ writes = 0
  /\ ever = {<< p, files[p] >> : p \in SidecarPath}
  /\ step = "idle" /\ tried = 0 /\ sidecar = "none" /\ document = NoFile
  /\ restored = NoPair /\ io_failed = FALSE

(* Somebody replaces or removes a file while it matters. *)
Rewrite(p, contents) ==
  /\ writes < MaxWrites /\ step \notin {"idle", "done", "failed"}
  /\ files[p] # contents
  /\ files' = [files EXCEPT ![p] = contents]
  /\ writes' = writes + 1
  /\ ever' = IF p \in SidecarPath THEN ever \cup {<< p, contents >>} ELSE ever
  /\ UNCHANGED << config, progress >>

At(s) == step = s /\ UNCHANGED << config, disk >>

Refuse ==
  /\ step' = "failed"
  /\ UNCHANGED << tried, sidecar, document, restored, io_failed >>

(* restore_network: validate, and a blank network only in simulation. *)
BeginRestore ==
  /\ At("idle")
  /\ \/ ~Validate(config) /\ Refuse
     \/ /\ Validate(config) /\ config.runtime_mode = "simulation"
        /\ step' = "done" /\ restored' = BlankSimulation(config)
        /\ UNCHANGED << tried, sidecar, document, io_failed >>
     \/ /\ Validate(config) /\ config.runtime_mode = "live"
        /\ step' = "exists"
        /\ UNCHANGED << tried, sidecar, document, restored, io_failed >>

(* resolve_sidecar_path up to the search: try_exists, is_dir, is_mem_dump. *)
PathExists ==
  CASE config.model_path = "missing" -> FALSE
    [] config.model_path = "sidecar" -> files["direct"] # NoFile
    [] config.model_path = "config.json" -> files["hub"] # NoFile
    [] config.model_path = "nested_sidecar" -> files["nested"] # NoFile
    [] config.model_path = "inner_config" -> files["inner"] # NoFile
    [] OTHER -> TRUE

QueryPath ==
  /\ At("exists")
  /\ IF PathExists /\ config.model_path # "mem"
     THEN /\ sidecar' = NamedSidecar(config.model_path)
          /\ step' = IF sidecar' = "none" THEN "resolve" ELSE "read"
          /\ UNCHANGED << tried, document, restored, io_failed >>
     ELSE Refuse

(* is_file on the next candidate. *)
ResolveSidecar ==
  LET paths == Candidates(config.model_path) IN
  /\ At("resolve")
  /\ \/ tried = Len(paths) /\ Refuse
     \/ /\ tried < Len(paths)
        /\ IF files[paths[tried + 1]] # NoFile
           THEN step' = "read" /\ sidecar' = paths[tried + 1] /\ tried' = 0
           ELSE tried' = tried + 1 /\ UNCHANGED << step, sidecar >>
        /\ UNCHANGED << document, restored, io_failed >>

(* parse_sidecar_file, then the checks of validate_live_document that come *)
(* before the hub configuration.                                           *)
ReadSidecar ==
  LET d == files[sidecar] IN
  /\ At("read")
  /\ IF d # NoFile /\ d.json /\ ValidateSchema(d) /\ RejectOutputWeights(d)
     THEN /\ step' = "find_hub" /\ document' = d
          /\ UNCHANGED << tried, sidecar, restored, io_failed >>
     ELSE Refuse

FindHubConfig ==
  LET paths == HubCandidates(sidecar) IN
  /\ At("find_hub")
  /\ \/ tried = Len(paths) /\ step' = "apply" /\ UNCHANGED tried
     \/ /\ tried < Len(paths)
        /\ IF files[paths[tried + 1]] # NoFile
           THEN step' = "read_hub" /\ UNCHANGED tried
           ELSE tried' = tried + 1 /\ UNCHANGED step
  /\ UNCHANGED << sidecar, document, restored, io_failed >>

ReadHubConfig ==
  LET h == files[HubCandidates(sidecar)[tried + 1]] IN
  /\ At("read_hub")
  /\ IF h # NoFile /\ ValidateHubConfig(h, document)
     THEN step' = "apply" /\ UNCHANGED << tried, sidecar, document, restored, io_failed >>
     ELSE Refuse

(* The digest taken from the file as it is now. *)
MutApplySidecar ==
  /\ At("apply")
  /\ IF /\ ValidateIngressContract(config, document)
        /\ ValidateFiniteParameters(document)
        /\ ValidateNonblankWeights(document)
        /\ files[sidecar] # NoFile
     THEN /\ step' = "done"
          /\ restored' = [network |-> Network(config, document),
                          provenance |-> ProvenanceOf(files[sidecar], sidecar)]
          /\ UNCHANGED << tried, sidecar, document, io_failed >>
     ELSE Refuse

(* The remaining checks, restore_spiking_network and provenance_of. *)
ApplySidecar ==
  /\ At("apply")
  /\ IF /\ ValidateIngressContract(config, document)
        /\ ValidateFiniteParameters(document)
        /\ ValidateNonblankWeights(document)
     THEN /\ step' = "done" /\ restored' = Restored(config, document, sidecar)
          /\ UNCHANGED << tried, sidecar, document, io_failed >>
     ELSE Refuse

(* try_exists or a read fails although the file is there. *)
AccessFails ==
  /\ step \in {"exists", "read", "read_hub"} /\ step' = "failed"
  /\ io_failed' = TRUE
  /\ UNCHANGED << config, disk, tried, sidecar, document, restored >>

(* is_file answers false when it fails: the candidate is passed over. *)
CandidateUnseen ==
  /\ \/ At("resolve") /\ tried < Len(Candidates(config.model_path))
     \/ At("find_hub") /\ tried < Len(HubCandidates(sidecar))
  /\ tried' = tried + 1
  /\ io_failed' = TRUE
  /\ UNCHANGED << step, sidecar, document, restored >>

RestoreStep ==
  \/ BeginRestore \/ QueryPath \/ ResolveSidecar \/ ReadSidecar
  \/ FindHubConfig \/ ReadHubConfig \/ ApplySidecar
  \/ AccessFails \/ CandidateUnseen
-----------------------------------------------------------------------------
(* Properties                                                              *)

(* The file model_path stands for. *)
Named ==
  LET paths == Candidates(config.model_path)
      found == {i \in 1 .. Len(paths) : files[paths[i]] # NoFile}
  IN IF ~PathExists \/ config.model_path = "mem" \/ found = {} THEN "none"
     ELSE paths[CHOOSE i \in found : \A j \in found : i <= j]

(* The hub configuration that speaks for it, if any. *)
HubOf(path) ==
  CASE path = "nested" /\ files["inner"] # NoFile -> files["inner"]
    [] OTHER -> files["hub"]

(* A document fit for the configuration: one row per neuron, each of the   *)
(* configured width and with sane parameters, some of it trained, nothing  *)
(* in it that could not be restored.                                       *)
Fit(c, d) ==
  /\ d.json /\ d.source = "allowed" /\ d.q88 \in {"none", "signed"} /\ d.encoder # "empty"
  /\ Len(d.neurons) = c.lif_count
  /\ \A n \in Rows(d) : n.width = c.channels /\ n.params = "good" /\ ~n.output_weights
  /\ \E n \in Rows(d) : n.trained

Agrees(h, d) ==
  /\ h.json /\ h.model_type # "other"
  /\ h.n_neurons # Unset => h.n_neurons = Len(d.neurons)
  /\ h.n_channels # Unset => \A n \in Rows(d) : n.width = h.n_channels

(* When nobody touches the files during the restore and every access       *)
(* works, live mode succeeds exactly if the file model_path stands for is  *)
(* fit and its hub configuration, if there is one, agrees; and that is the *)
(* file restored (restore_network, resolve_sidecar_path, find_hub_config). *)
QuietRestore ==
  (/\ writes = 0 /\ ~io_failed /\ step \in {"done", "failed"}
   /\ Validate(config) /\ config.runtime_mode = "live") =>
       /\ step = "done" <=>
            /\ Named # "none"
            /\ Fit(config, files[Named])
            /\ HubOf(Named) = NoFile \/ Agrees(HubOf(Named), files[Named])
       /\ step = "done" => restored.provenance.path = Named

(* However the files change meanwhile, what live mode restores is one      *)
(* document: fit for the configuration, once on disk at the path reported, *)
(* and the one whose digest is reported; simulation reports none           *)
(* (restore_network, provenance_of).                                       *)
RestoredIsModel ==
  step = "done" =>
    LET n == restored.network
        p == restored.provenance
    IN /\ n = Network(config, n.weights)
       /\ IF config.runtime_mode = "live"
          THEN /\ Fit(config, n.weights)
               /\ p.sha = n.weights /\ << p.path, n.weights >> \in ever
          ELSE n.weights = BlankWeights /\ p.sha = "none"
=============================================================================
