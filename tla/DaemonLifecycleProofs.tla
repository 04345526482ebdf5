----------------------- MODULE DaemonLifecycleProofs -----------------------
(***************************************************************************)
(* Theorems about DaemonLifecycle and the CheckpointRestore it runs, for   *)
(* every set of starts (entry points, configurations, model directories),  *)
(* every pair an embedder may supply, and every limit.                     *)
(***************************************************************************)
EXTENDS DaemonLifecycle, FiniteSetTheorems, WellFoundedInduction, TLAPS

(* Induction                                                               *)

(* A set of naturals that is not empty has a least element.  (The library  *)
(* states induction for an operator, which the provers here cannot take;   *)
(* the well-foundedness of strict inclusion on finite sets is about sets.) *)
LEMMA LeastNatural ==
  ASSUME NEW T \in SUBSET Nat, T # {}
  PROVE  \E m \in T : \A k \in T : m <= k
  <1> DEFINE U == {0 .. n : n \in T}
  <1>1. U \subseteq FiniteSubsetsOf(Nat) /\ U # {}
    <2>1. \A n \in T : 0 .. n \in SUBSET Nat /\ IsFiniteSet(0 .. n)
      BY FS_Interval
    <2> QED BY <2>1 DEF FiniteSubsetsOf
  <1>2. PICK x \in U : \A y \in U : ~(<< y, x >> \in StrictSubsetOrdering(Nat))
    BY <1>1, FS_StrictSubsetOrderingWellFounded, WFMin
  <1>3. PICK m \in T : x = 0 .. m
    OBVIOUS
  <1>4. \A k \in T : m <= k
    <2> SUFFICES ASSUME NEW k \in T, k < m PROVE FALSE
      OBVIOUS
    <2>1. 0 .. k \in U
      OBVIOUS
    <2>2. ~(<< 0 .. k, 0 .. m >> \in StrictSubsetOrdering(Nat))
      BY <1>2, <1>3, <2>1
    <2>3. /\ 0 .. k \in SUBSET Nat /\ 0 .. m \in SUBSET Nat
          /\ 0 .. k \subseteq 0 .. m
      OBVIOUS
    <2>4. m \in 0 .. m /\ m \notin 0 .. k
      OBVIOUS
    <2>5. 0 .. k # 0 .. m
      BY <2>4
    <2> QED BY <2>2, <2>3, <2>5, Zenon DEF StrictSubsetOrdering
  <1> QED BY <1>4

(* A bounded one has a greatest, which is what Max chooses. *)
LEMMA GreatestIndex ==
  ASSUME NEW n \in Nat, NEW T \in SUBSET (1 .. n), T # {}
  PROVE  Max(T) \in T /\ \A k \in T : k <= Max(T)
  <1> DEFINE U == {n - k : k \in T}
  <1>1. U \in SUBSET Nat /\ U # {}
    <2>1. \A k \in T : n - k \in Nat
      OBVIOUS
    <2> QED BY <2>1
  <1>2. PICK m \in U : \A k \in U : m <= k
    BY <1>1, LeastNatural
  <1>3. PICK x \in T : m = n - x
    OBVIOUS
  <1>4. \A k \in T : x >= k
    <2> TAKE k \in T
    <2>1. n - x <= n - k
      BY <1>2, <1>3
    <2> QED BY <2>1
  <1>5. \E z \in T : \A k \in T : z >= k
    BY <1>4
  <1>6. Max(T) \in T /\ \A k \in T : Max(T) >= k
    BY <1>5, Zenon DEF Max
  <1> QED BY <1>6
-----------------------------------------------------------------------------
(* The registry                                                            *)

(* The names whose last entry among those at the places s is enabled. *)
LastWords(services, s) ==
  {n \in {services[i].name : i \in s} :
     \E i \in s : /\ services[i].name = n /\ services[i].enabled
                  /\ \A j \in s : j > i => services[j].name # n}

(* One entry applied to the names registered before it: register, or       *)
(* unregister.                                                             *)
Applied(set, service) ==
  IF service.enabled THEN set \cup {service.name} ELSE set \ {service.name}

(* The last entry has its way, and for other names those before it do. *)
LEMMA LastWordsStep ==
  ASSUME NEW services \in Seq(Service), NEW s \in SUBSET (1 .. Len(services)),
         NEW x \in s, \A k \in s : k <= x
  PROVE  LastWords(services, s) = Applied(LastWords(services, s \ {x}), services[x])
  <1> DEFINE r == s \ {x}
             name(i) == services[i].name
  <1>0. s \in SUBSET Nat /\ x \in Nat /\ \A k \in r : k < x /\ k \in Nat
    <2>1. Len(services) \in Nat
      OBVIOUS
    <2> QED BY <2>1
  <1>1. ASSUME NEW n
        PROVE  n \in LastWords(services, s) <=>
                 IF n = name(x) THEN services[x].enabled ELSE n \in LastWords(services, r)
    <2>1. CASE n = name(x)
      <3>1. ASSUME NEW i \in s, name(i) = n, \A j \in s : j > i => name(j) # n
            PROVE  i = x
        BY <1>0, <2>1, <3>1
      <3>2. \A j \in s : ~(j > x)
        BY <1>0
      <3> QED BY <2>1, <3>1, <3>2 DEF LastWords
    <2>2. CASE n # name(x)
      <3>1. ASSUME NEW i \in r
            PROVE  (\A j \in s : j > i => name(j) # n) <=>
                     (\A j \in r : j > i => name(j) # n)
        BY <2>2
      <3>2. \A i \in s : name(i) = n => i \in r
        BY <2>2
      <3> QED BY <2>2, <3>1, <3>2 DEF LastWords
    <2> QED BY <2>1, <2>2
  <1>2. ASSUME NEW n
        PROVE  n \in Applied(LastWords(services, r), services[x]) <=>
                 IF n = name(x) THEN services[x].enabled ELSE n \in LastWords(services, r)
    <2> HIDE DEF r
    <2> QED BY DEF Applied
  <1> HIDE DEF r, name
  <1>3. LastWords(services, s) = Applied(LastWords(services, r), services[x])
    BY <1>1, <1>2
  <1> QED BY <1>3 DEF r

(* from_configs, which goes through the entries in order, registers the    *)
(* names whose last entry is enabled: by induction on the entries applied. *)
LEMMA FromConfigsIsLastWords ==
  ASSUME NEW services \in Seq(Service)
  PROVE  FromConfigs(services) = LastWords(services, 1 .. Len(services))
  <1> DEFINE D == 1 .. Len(services)
             Solves(f) == f = [s \in SUBSET D |->
                                 IF s = {} THEN {}
                                 ELSE Applied(f[s \ {Max(s)}], services[Max(s)])]
             G == [s \in SUBSET D |-> LastWords(services, s)]
  <1>1. Len(services) \in Nat /\ DOMAIN services = D
    OBVIOUS
  <1>2. FromConfigs(services) = (CHOOSE f : Solves(f))[D]
    <2>1. FromConfigs(services) =
            (CHOOSE f : f = [s \in SUBSET DOMAIN services |->
                               IF s = {} THEN {}
                               ELSE Applied(f[s \ {Max(s)}], services[Max(s)])])[DOMAIN services]
      BY DEF FromConfigs, FoldLeft, MapThenFoldSet, Applied
    <2> QED BY <1>1, <2>1
  <1>3. \A s \in SUBSET D : s # {} => Max(s) \in s /\ \A k \in s : k <= Max(s)
    BY <1>1, GreatestIndex
  <1>4. \A s \in SUBSET D :
          LastWords(services, s) =
            IF s = {} THEN {}
            ELSE Applied(LastWords(services, s \ {Max(s)}), services[Max(s)])
    <2> TAKE s \in SUBSET D
    <2>1. CASE s = {}
      BY <2>1 DEF LastWords
    <2>2. CASE s # {}
      BY <1>3, <2>2, LastWordsStep
    <2> QED BY <2>1, <2>2
  <1>5. Solves(G)
    <2>1. \A s \in SUBSET D : G[s \ {Max(s)}] = LastWords(services, s \ {Max(s)})
      OBVIOUS
    <2>2. \A s \in SUBSET D :
            LastWords(services, s) =
              IF s = {} THEN {} ELSE Applied(G[s \ {Max(s)}], services[Max(s)])
      <3> TAKE s \in SUBSET D
      <3>1. G[s \ {Max(s)}] = LastWords(services, s \ {Max(s)})
        BY <2>1, Zenon
      <3> HIDE DEF G
      <3> QED BY <1>4, <3>1, Zenon
    <2> QED BY <2>2, Zenon
  <1>6. ASSUME NEW f, Solves(f)
        PROVE  f[D] = LastWords(services, D)
    <2> DEFINE T == {s \in SUBSET D : f[s] # LastWords(services, s)}
    <2>1. SUFFICES ASSUME T # {} PROVE FALSE
      OBVIOUS
    <2>2. IsFiniteSet(D) /\ FiniteSubsetsOf(D) = SUBSET D
      <3>1. IsFiniteSet(D)
        BY <1>1, FS_Interval
      <3> HIDE DEF D
      <3> QED BY <3>1, FS_FiniteSubsetsOfFinite
    <2>3. PICK s \in T : \A y \in T : ~(<< y, s >> \in StrictSubsetOrdering(D))
      <3>1. IsWellFoundedOn(StrictSubsetOrdering(D), FiniteSubsetsOf(D))
        BY FS_StrictSubsetOrderingWellFounded
      <3>2. T \subseteq FiniteSubsetsOf(D)
        BY <2>2
      <3> HIDE DEF T
      <3> QED BY <2>1, <3>1, <3>2, WFMin
    <2>4. s \in SUBSET D /\ f[s] # LastWords(services, s)
      OBVIOUS
    <2>5. f[s] = IF s = {} THEN {}
                 ELSE Applied(f[s \ {Max(s)}], services[Max(s)])
      BY <1>6, <2>4
    <2>6. s # {} /\ f[s \ {Max(s)}] # LastWords(services, s \ {Max(s)})
      BY <1>4, <2>4, <2>5
    <2>7. Max(s) \in s /\ s \ {Max(s)} \in T
      BY <1>3, <2>4, <2>6
    <2>8. << s \ {Max(s)}, s >> \in StrictSubsetOrdering(D)
      BY <2>4, <2>7, Zenon DEF StrictSubsetOrdering
    <2> QED BY <2>3, <2>7, <2>8
  <1>7. Solves(CHOOSE f : Solves(f))
    BY <1>5, Zenon
  <1> HIDE DEF Solves, D
  <1> QED BY <1>2, <1>6, <1>7 DEF D

(* The candidates are one or two, each a path of its kind. *)
LEMMA CandidatesOK ==
  ASSUME NEW mp
  PROVE  /\ Candidates(mp) \in Seq(SidecarPath)
         /\ Len(Candidates(mp)) \in 1 .. 2
         /\ \A i \in 1 .. Len(Candidates(mp)) : Candidates(mp)[i] \in SidecarPath
  <1>1. CASE mp = "directory"
    BY <1>1 DEF Candidates, SidecarPath
  <1>2. CASE mp = "config.json"
    BY <1>2 DEF Candidates, SidecarPath
  <1>3. CASE mp \in {"merged_v2", "inner_config", "nested_sidecar"}
    BY <1>3 DEF Candidates, SidecarPath
  <1>4. CASE mp \notin {"directory", "config.json", "merged_v2", "inner_config",
                        "nested_sidecar"}
    BY <1>4 DEF Candidates, SidecarPath
  <1> QED BY <1>1, <1>2, <1>3, <1>4

(* A sidecar the configuration names is the only candidate. *)
LEMMA NamedSidecarOK ==
  ASSUME NEW mp
  PROVE  /\ NamedSidecar(mp) \in SidecarPath \cup {"none"}
         /\ NamedSidecar(mp) # "none" => /\ mp \in {"sidecar", "nested_sidecar"}
                                         /\ NamedSidecar(mp) \in SidecarPath
                                         /\ Candidates(mp) = << NamedSidecar(mp) >>
  <1>1. CASE mp = "sidecar"
    BY <1>1 DEF NamedSidecar, Candidates, SidecarPath
  <1>2. CASE mp = "nested_sidecar"
    BY <1>2 DEF NamedSidecar, Candidates, SidecarPath
  <1>3. CASE mp \notin {"sidecar", "nested_sidecar"}
    BY <1>3 DEF NamedSidecar
  <1> QED BY <1>1, <1>2, <1>3

(* The same for the hub configurations beside a sidecar. *)
LEMMA HubCandidatesOK ==
  ASSUME NEW p
  PROVE  /\ Len(HubCandidates(p)) \in 1 .. 2
         /\ \A i \in 1 .. Len(HubCandidates(p)) : HubCandidates(p)[i] \in HubPath
  BY DEF HubCandidates, HubPath

(* A document's rows are rows. *)
LEMMA RowsOK ==
  ASSUME NEW d \in Document
  PROVE  /\ d.neurons \in Seq(Neuron) /\ Len(d.neurons) \in Nat
         /\ d.neurons # << >> => 1 \in 1 .. Len(d.neurons)
         /\ \A i \in 1 .. Len(d.neurons) : d.neurons[i] \in Neuron
         /\ d.q88 \in {"none", "signed", "other"}
         /\ \A n : n \in Rows(d) <=> \E i \in 1 .. Len(d.neurons) : n = d.neurons[i]
  <1>1. d.neurons \in Seq(Neuron) /\ d.q88 \in {"none", "signed", "other"}
    BY DEF Document
  <1>2. \A n : n \in Rows(d) <=> \E i \in 1 .. Len(d.neurons) : n = d.neurons[i]
    BY DEF Rows
  <1>3. Len(d.neurons) \in Nat
    BY <1>1
  <1>4. \A i \in 1 .. Len(d.neurons) : d.neurons[i] \in Neuron
    BY <1>1
  <1>5. d.neurons # << >> => 1 \in 1 .. Len(d.neurons)
    BY <1>1
  <1> QED BY <1>1, <1>2, <1>3, <1>4, <1>5

(* The rows of one width are the rows of weight_width. *)
LEMMA WidthsAgree ==
  ASSUME NEW d \in Document, d.neurons # << >>, NEW w \in Nat, w # 0
  PROVE  WeightWidth(d) = w <=> \A n \in Rows(d) : n.width = w
  <1>1. /\ Len(d.neurons) \in Nat /\ 1 \in 1 .. Len(d.neurons)
        /\ \A n : n \in Rows(d) <=> \E i \in 1 .. Len(d.neurons) : n = d.neurons[i]
    BY RowsOK
  <1>2. ASSUME WeightWidth(d) = w, NEW n \in Rows(d)
        PROVE  n.width = w
    <2>1. PICK i \in 1 .. Len(d.neurons) : n = d.neurons[i]
      BY <1>1
    <2> QED BY <1>2, <2>1 DEF WeightWidth
  <1>3. ASSUME \A n \in Rows(d) : n.width = w
        PROVE  WeightWidth(d) = w
    <2>1. \A i \in 1 .. Len(d.neurons) : d.neurons[i].width = w
      BY <1>1, <1>3
    <2> QED BY <1>1, <2>1 DEF WeightWidth
  <1> QED BY <1>2, <1>3

(* A validated configuration, in machine arithmetic, is sound. *)
LEMMA ValidateSound ==
  ASSUME NEW c \in Config, Validate(c)
  PROVE  Sound(c)
  <1>1. /\ c.lif_count \in Nat /\ c.izh_count \in Nat /\ c.channels \in Nat
        /\ c.max_payload_len \in Nat /\ c.tick_rate_hz \in Nat
        /\ c.sndhwm \in Int /\ c.linger_ms \in Int
    <2>1. USIZE_MAX \in Nat
      BY ConfigAssumption
    <2> QED BY <2>1 DEF Config, Usize
  <1>2. /\ MaxTickRate \in Nat /\ MaxTickRate <= 1000000000
        /\ MAX_PAYLOAD_LEN \in Nat /\ MAX_QUEUE_CAPACITY \in Nat
        /\ U16_MAX \in Nat
    BY ConfigAssumption DEF NanosPerSecond
  <1> DEFINE total == c.lif_count + c.izh_count
  <1>3. total \in Nat /\ total \in 1 .. U16_MAX
        /\ total * c.channels <= MAX_NETWORK_INPUTS
    BY <1>1 DEF Validate, ValidateDimensions
  <1>4. total > 0 /\ \A i \in 0 .. total - 1 : i <= U16_MAX
    <2> HIDE DEF total
    <2> QED BY <1>2, <1>3
  <1>5. /\ 0 < c.channels /\ c.channels <= c.max_payload_len
        /\ c.max_payload_len <= MAX_PAYLOAD_LEN
        /\ c.tick_rate_hz \in 1 .. MaxTickRate
        /\ c.sndhwm > 0 /\ c.linger_ms >= 0
    BY <1>1, <1>2 DEF Validate, ValidateIngress, ValidatePubSocketOpts
  <1>6. 0 < c.tick_rate_hz /\ c.tick_rate_hz <= NanosPerSecond
    BY <1>1, <1>2, <1>5 DEF NanosPerSecond
  <1>7. \A k \in MessageClass :
          0 < c.capacity[k] /\ c.capacity[k] <= MAX_QUEUE_CAPACITY
    BY <1>2 DEF Validate, ValidateIngress
  <1> QED BY <1>3, <1>4, <1>5, <1>6, <1>7 DEF Sound

(* What live mode checks of a document, step by step, is that it is fit. *)
Checked(c, d) ==
  /\ d.json /\ ValidateSchema(d) /\ RejectOutputWeights(d)
  /\ ValidateIngressContract(c, d) /\ ValidateFiniteParameters(d)
  /\ ValidateNonblankWeights(d)

LEMMA CheckedIsFit ==
  ASSUME NEW c \in Config, NEW d \in Document, Validate(c),
         c.runtime_mode = "live"
  PROVE  Checked(c, d) <=> Fit(c, d)
  <1>1. /\ c.channels \in Nat /\ c.channels # 0 /\ c.lif_count \in Nat
        /\ c.lif_count # 0
    <2>1. USIZE_MAX \in Nat /\ U16_MAX \in Nat /\ MAX_PAYLOAD_LEN \in Nat
      BY ConfigAssumption
    <2>2. /\ c.channels \in Nat /\ c.lif_count \in Nat /\ c.izh_count \in Nat
          /\ c.max_payload_len \in Nat
      BY <2>1 DEF Config, Usize
    <2>3. c.channels # 0 /\ c.izh_count = 0
      BY <2>2 DEF Validate
    <2>4. c.lif_count + c.izh_count # 0
      BY <2>1, <2>2 DEF Validate, ValidateDimensions
    <2> QED BY <2>2, <2>3, <2>4
  <1>2. /\ Len(d.neurons) \in Nat /\ d.q88 \in {"none", "signed", "other"}
        /\ d.neurons \in Seq(Neuron)
    BY RowsOK
  <1>3. ASSUME Checked(c, d) PROVE Fit(c, d)
    <2>1. d.neurons # << >> /\ WeightWidth(d) = c.channels
      BY <1>3 DEF Checked, ValidateSchema, ValidateIngressContract
    <2>2. \A n \in Rows(d) : n.width = c.channels
      BY <1>1, <2>1, WidthsAgree
    <2> QED BY <1>2, <1>3, <2>2
          DEF Checked, ValidateSchema, RejectOutputWeights,
              ValidateIngressContract, ValidateFiniteParameters,
              ValidateNonblankWeights, Fit
  <1>4. ASSUME Fit(c, d) PROVE Checked(c, d)
    <2>1. d.neurons # << >>
      BY <1>1, <1>2, <1>4 DEF Fit
    <2>2. WeightWidth(d) = c.channels
      BY <1>1, <1>4, <2>1, WidthsAgree DEF Fit
    <2> QED BY <1>1, <1>2, <1>4, <2>1, <2>2
          DEF Checked, ValidateSchema, RejectOutputWeights,
              ValidateIngressContract, ValidateFiniteParameters,
              ValidateNonblankWeights, Fit
  <1> QED BY <1>3, <1>4
-----------------------------------------------------------------------------
(* The restore                                                             *)

(* The configuration is one the process was started with, and what is on   *)
(* disk now has been there.                                                *)
Given ==
  /\ \E s \in Starts : config = s.config
  /\ files \in [SidecarPath \cup HubPath -> Documents \cup HubConfigs \cup {NoFile}]
  /\ \A p \in SidecarPath : << p, files[p] >> \in ever

(* How far the search has come. *)
Searching ==
  /\ step \in {"idle", "exists", "read"} => tried = 0
  /\ step = "resolve" => tried <= Len(Candidates(config.model_path))
  /\ step = "find_hub" => tried <= Len(HubCandidates(sidecar))
  /\ step = "read_hub" => tried < Len(HubCandidates(sidecar))

(* What the document in hand has passed, and where it came from. *)
Holding ==
  /\ step \in {"exists", "resolve", "read", "find_hub", "read_hub", "apply"} =>
       Validate(config) /\ config.runtime_mode = "live"
  /\ step \in {"read", "find_hub", "read_hub", "apply"} => sidecar \in SidecarPath
  /\ step \in {"find_hub", "read_hub", "apply"} =>
       /\ document \in Documents /\ << sidecar, document >> \in ever
       /\ document.json /\ ValidateSchema(document) /\ RejectOutputWeights(document)

(* What a restore that succeeded returned. *)
Returned ==
  step = "done" =>
    /\ restored # NoPair
    /\ IF config.runtime_mode = "live"
       THEN \E d \in Documents, p \in SidecarPath :
              restored = Restored(config, d, p) /\ Fit(config, d) /\ << p, d >> \in ever
       ELSE restored = BlankSimulation(config)

RInv == RestoreTypeOK /\ Given /\ Searching /\ Holding /\ Returned

(* The parts of it that a step of the restore leaves alone. *)
LEMMA GivenFacts ==
  Given => /\ config \in Config
           /\ NoPair # BlankSimulation(config)
           /\ \A d \in Documents, p \in SidecarPath : NoPair # Restored(config, d, p)
  BY LifecycleAssumption DEF Given

(* A refusal keeps the invariant, wherever it comes from. *)
LEMMA RefuseKeeps ==
  ASSUME RInv, Refuse, UNCHANGED << config, disk >>
  PROVE  RInv'
  BY DEF RInv, RestoreTypeOK, Given, Searching, Holding, Returned, Refuse, disk

(* Each access of restore_network keeps it. *)
LEMMA RestoreKeeps == RInv /\ RestoreStep => RInv'
  <1> SUFFICES ASSUME RInv, RestoreStep PROVE RInv'
    OBVIOUS
  <1>0. /\ RestoreTypeOK /\ Given /\ Searching /\ Holding /\ Returned
        /\ config \in Config
        /\ NoPair # BlankSimulation(config)
        /\ \A d \in Documents, p \in SidecarPath : NoPair # Restored(config, d, p)
    BY GivenFacts DEF RInv
  <1>1. CASE BeginRestore
    <2>1. UNCHANGED << config, disk >> /\ step = "idle" /\ tried = 0
      BY <1>0, <1>1 DEF BeginRestore, At, Searching
    <2>2. CASE Refuse
      BY <2>1, <2>2, RefuseKeeps
    <2>3. CASE /\ Validate(config) /\ config.runtime_mode = "simulation"
               /\ step' = "done" /\ restored' = BlankSimulation(config)
               /\ UNCHANGED << tried, sidecar, document, io_failed >>
      <3>1. DOMAIN restored' = {"network", "provenance"}
        BY <2>3 DEF BlankSimulation
      <3>2. Returned'
        BY <1>0, <2>1, <2>3 DEF Returned
      <3>3. RestoreTypeOK'
        BY <1>0, <2>1, <2>3, <3>1 DEF RestoreTypeOK, disk
      <3> QED BY <1>0, <2>1, <2>3, <3>2, <3>3 DEF RInv, Given, Searching, Holding, disk
    <2>4. CASE /\ Validate(config) /\ config.runtime_mode = "live"
               /\ step' = "exists"
               /\ UNCHANGED << tried, sidecar, document, restored, io_failed >>
      BY <1>0, <2>1, <2>4
         DEF RInv, RestoreTypeOK, Given, Searching, Holding, Returned, disk
    <2> QED BY <1>1, <2>2, <2>3, <2>4 DEF BeginRestore
  <1>2. CASE QueryPath
    <2>1. UNCHANGED << config, disk >> /\ step = "exists" /\ tried = 0
      BY <1>0, <1>2 DEF QueryPath, At, Searching
    <2>2. CASE Refuse
      BY <2>1, <2>2, RefuseKeeps
    <2>3. CASE /\ sidecar' = NamedSidecar(config.model_path)
               /\ step' = IF sidecar' = "none" THEN "resolve" ELSE "read"
               /\ UNCHANGED << tried, document, restored, io_failed >>
      <3>1. Len(Candidates(config.model_path)) \in 1 .. 2
        BY CandidatesOK
      <3>2. /\ sidecar' \in SidecarPath \cup {"none"}
            /\ step' = "read" => sidecar' \in SidecarPath
        BY <2>3, NamedSidecarOK
      <3>3. Searching'
        BY <2>1, <2>3, <3>1 DEF Searching, disk
      <3>4. RestoreTypeOK' /\ Holding'
        BY <1>0, <2>1, <2>3, <3>2 DEF RestoreTypeOK, Holding, disk
      <3>5. Given' /\ Returned'
        BY <1>0, <2>1, <2>3 DEF Given, Returned, disk
      <3> QED BY <3>3, <3>4, <3>5 DEF RInv
    <2> QED BY <1>2, <2>2, <2>3 DEF QueryPath
  <1>3. CASE ResolveSidecar
    <2> DEFINE paths == Candidates(config.model_path)
    <2>1. UNCHANGED << config, disk >> /\ step = "resolve" /\ tried \in 0 .. 2
      BY <1>0, <1>3 DEF ResolveSidecar, At, RestoreTypeOK
    <2>2. CASE Refuse
      BY <2>1, <2>2, RefuseKeeps
    <2>3. CASE /\ tried < Len(paths)
               /\ IF files[paths[tried + 1]] # NoFile
                  THEN step' = "read" /\ sidecar' = paths[tried + 1] /\ tried' = 0
                  ELSE tried' = tried + 1 /\ UNCHANGED << step, sidecar >>
               /\ UNCHANGED << document, restored, io_failed >>
      <3>1. Len(paths) \in 1 .. 2 /\ tried + 1 \in 1 .. Len(paths)
        BY <2>1, <2>3, CandidatesOK
      <3>2. paths[tried + 1] \in SidecarPath
        BY <3>1, CandidatesOK
      <3> HIDE DEF paths
      <3>3. tried' \in 0 .. 2 /\ step' \in {"read", "resolve"}
            /\ (step' = "read" => tried' = 0 /\ sidecar' \in SidecarPath)
            /\ (step' = "resolve" => tried' <= Len(paths) /\ sidecar' = sidecar)
        BY <2>1, <2>3, <3>1, <3>2
      <3>4. Searching'
        BY <2>1, <3>3 DEF Searching, disk, paths
      <3>5. RestoreTypeOK' /\ Holding'
        BY <1>0, <2>1, <2>3, <3>3 DEF RestoreTypeOK, Holding, disk
      <3>6. Given' /\ Returned'
        BY <1>0, <2>1, <2>3, <3>3 DEF Given, Returned, disk
      <3> QED BY <3>4, <3>5, <3>6 DEF RInv
    <2> QED BY <1>3, <2>2, <2>3 DEF ResolveSidecar
  <1>4. CASE ReadSidecar
    <2>1. UNCHANGED << config, disk >> /\ step = "read" /\ tried = 0
          /\ sidecar \in SidecarPath
      BY <1>0, <1>4 DEF ReadSidecar, At, Searching, Holding
    <2>2. CASE Refuse
      BY <2>1, <2>2, RefuseKeeps
    <2>3. CASE /\ files[sidecar] # NoFile /\ files[sidecar].json
               /\ ValidateSchema(files[sidecar]) /\ RejectOutputWeights(files[sidecar])
               /\ step' = "find_hub" /\ document' = files[sidecar]
               /\ UNCHANGED << tried, sidecar, restored, io_failed >>
      <3>1. document' \in Documents /\ << sidecar, document' >> \in ever
        BY <1>0, <2>1, <2>3 DEF RestoreTypeOK, Contents, Given
      <3>2. Len(HubCandidates(sidecar)) \in 1 .. 2
        BY HubCandidatesOK
      <3>3. Searching'
        BY <2>1, <2>3, <3>2 DEF Searching
      <3>4. Holding'
        BY <1>0, <2>1, <2>3, <3>1 DEF Holding, disk
      <3>5. RestoreTypeOK'
        BY <1>0, <2>1, <2>3, <3>1 DEF RestoreTypeOK, disk
      <3>6. Given' /\ Returned'
        BY <1>0, <2>1, <2>3 DEF Given, Returned, disk
      <3> QED BY <3>3, <3>4, <3>5, <3>6 DEF RInv
    <2> QED BY <1>4, <2>2, <2>3 DEF ReadSidecar
  <1>5. CASE FindHubConfig
    <2> DEFINE paths == HubCandidates(sidecar)
    <2>1. /\ UNCHANGED << config, disk >> /\ step = "find_hub" /\ tried \in 0 .. 2
          /\ UNCHANGED << sidecar, document, restored, io_failed >>
          /\ Len(paths) \in 1 .. 2
      BY <1>0, <1>5, HubCandidatesOK DEF FindHubConfig, At, RestoreTypeOK
    <2> HIDE DEF paths
    <2>2. /\ tried' \in 0 .. 2 /\ step' \in {"find_hub", "read_hub", "apply"}
          /\ (step' = "find_hub" => tried' <= Len(paths))
          /\ (step' = "read_hub" => tried' < Len(paths))
      BY <1>5, <2>1 DEF FindHubConfig, paths
    <2>3. Searching'
      BY <2>1, <2>2 DEF Searching, paths
    <2>4. RestoreTypeOK' /\ Holding'
      BY <1>0, <2>1, <2>2 DEF RestoreTypeOK, Holding, disk
    <2>5. Given' /\ Returned'
      BY <1>0, <2>1, <2>2 DEF Given, Returned, disk
    <2> QED BY <2>3, <2>4, <2>5 DEF RInv
  <1>6. CASE ReadHubConfig
    <2>1. UNCHANGED << config, disk >> /\ step = "read_hub"
      BY <1>6 DEF ReadHubConfig, At
    <2>2. CASE Refuse
      BY <2>1, <2>2, RefuseKeeps
    <2>3. CASE /\ step' = "apply"
               /\ UNCHANGED << tried, sidecar, document, restored, io_failed >>
      BY <1>0, <2>1, <2>3
         DEF RInv, RestoreTypeOK, Given, Searching, Holding, Returned, disk
    <2> QED BY <1>6, <2>2, <2>3 DEF ReadHubConfig
  <1>7. CASE ApplySidecar
    <2>1. /\ UNCHANGED << config, disk >> /\ step = "apply"
          /\ Validate(config) /\ config.runtime_mode = "live"
          /\ sidecar \in SidecarPath /\ document \in Documents
          /\ << sidecar, document >> \in ever
          /\ document.json /\ ValidateSchema(document) /\ RejectOutputWeights(document)
      BY <1>0, <1>7 DEF ApplySidecar, At, Holding
    <2>2. CASE Refuse
      BY <2>1, <2>2, RefuseKeeps
    <2>3. CASE /\ ValidateIngressContract(config, document)
               /\ ValidateFiniteParameters(document)
               /\ ValidateNonblankWeights(document)
               /\ step' = "done" /\ restored' = Restored(config, document, sidecar)
               /\ UNCHANGED << tried, sidecar, document, io_failed >>
      <3>1. Fit(config, document)
        BY <1>0, <2>1, <2>3, RestoreAssumption, CheckedIsFit DEF Checked
      <3>2. Returned'
        BY <1>0, <2>1, <2>3, <3>1 DEF Returned, disk
      <3>3. DOMAIN restored' = {"network", "provenance"}
        BY <2>3 DEF Restored
      <3>4. RestoreTypeOK'
        BY <1>0, <2>1, <2>3, <3>3 DEF RestoreTypeOK, disk
      <3>5. Given' /\ Searching' /\ Holding'
        BY <1>0, <2>1, <2>3 DEF Given, Searching, Holding, disk
      <3> QED BY <3>2, <3>4, <3>5 DEF RInv
    <2> QED BY <1>7, <2>2, <2>3 DEF ApplySidecar
  <1>8. CASE AccessFails
    BY <1>0, <1>8
       DEF AccessFails, RInv, RestoreTypeOK, Given, Searching, Holding, Returned, disk
  <1>9. CASE CandidateUnseen
    <2>1. /\ UNCHANGED << config, disk, step, sidecar, document, restored >>
          /\ tried' = tried + 1 /\ io_failed' = TRUE /\ tried \in 0 .. 2
          /\ step \in {"resolve", "find_hub"}
          /\ step = "resolve" => tried < Len(Candidates(config.model_path))
          /\ step = "find_hub" => tried < Len(HubCandidates(sidecar))
      BY <1>0, <1>9 DEF CandidateUnseen, At, RestoreTypeOK
    <2>2. /\ Len(Candidates(config.model_path)) \in 1 .. 2
          /\ Len(HubCandidates(sidecar)) \in 1 .. 2
      BY CandidatesOK, HubCandidatesOK
    <2>3. tried' \in 0 .. 2
      <3> DEFINE n == Len(Candidates(config.model_path))
                 m == Len(HubCandidates(sidecar))
      <3>1. n \in 1 .. 2 /\ m \in 1 .. 2 /\ (tried < n \/ tried < m)
            /\ tried \in 0 .. 2 /\ tried' = tried + 1
        BY <2>1, <2>2
      <3> HIDE DEF n, m
      <3> QED BY <3>1
    <2>4. Searching'
      <3>1. tried' <= Len(Candidates(config.model_path)) \/ step # "resolve"
        BY <2>1, <2>2
      <3>2. tried' <= Len(HubCandidates(sidecar)) \/ step # "find_hub"
        BY <2>1, <2>2
      <3> QED BY <2>1, <3>1, <3>2 DEF Searching
    <2>5. RestoreTypeOK' /\ Holding'
      BY <1>0, <2>1, <2>3 DEF RestoreTypeOK, Holding, disk
    <2>6. Given' /\ Returned'
      BY <1>0, <2>1 DEF Given, Returned, disk
    <2> QED BY <2>4, <2>5, <2>6 DEF RInv
  <1> QED
    BY <1>1, <1>2, <1>3, <1>4, <1>5, <1>6, <1>7, <1>8, <1>9 DEF RestoreStep

(* Somebody else's change to a file keeps it. *)
LEMMA RewriteKeeps ==
  ASSUME RInv, NEW p \in SidecarPath \cup HubPath,
         NEW x \in Replacements \cap (Contents(p) \cup {NoFile}), Rewrite(p, x)
  PROVE  RInv'
  <1>1. /\ RestoreTypeOK /\ Given /\ Searching /\ Holding /\ Returned
        /\ files' = [files EXCEPT ![p] = x] /\ writes' = writes + 1
        /\ writes < MaxWrites /\ UNCHANGED << config, progress >>
        /\ step \notin {"idle", "done", "failed"}
    BY DEF RInv, Rewrite
  <1>2. ever \subseteq ever' /\ (p \in SidecarPath => << p, x >> \in ever')
    BY DEF Rewrite
  <1>3. writes' \in 0 .. MaxWrites
    BY <1>1, RestoreAssumption DEF RestoreTypeOK
  <1>4. \A q \in SidecarPath \cup HubPath :
          files'[q] = IF q = p THEN x ELSE files[q]
    BY <1>1 DEF Given
  <1>5. RestoreTypeOK'
    <2>1. \A q \in SidecarPath \cup HubPath : files'[q] \in Contents(q) \cup {NoFile}
      BY <1>1, <1>4 DEF RestoreTypeOK
    <2> QED BY <1>1, <1>3, <2>1 DEF RestoreTypeOK, progress
  <1>6. Given'
    <2>1. x \in Documents \cup HubConfigs \cup {NoFile}
      BY RestoreAssumption
    <2>2. files' \in [SidecarPath \cup HubPath -> Documents \cup HubConfigs \cup {NoFile}]
      BY <1>1, <2>1 DEF Given
    <2>3. \A q \in SidecarPath : << q, files'[q] >> \in ever'
      BY <1>1, <1>2, <1>4 DEF Given
    <2> QED BY <1>1, <2>2, <2>3 DEF Given
  <1>7. Searching' /\ Holding' /\ Returned'
    BY <1>1, <1>2 DEF Searching, Holding, Returned, progress
  <1> QED BY <1>5, <1>6, <1>7 DEF RInv

(* A pair supplied by an embedder is not yet the restore's. *)
LEMMA SupplyKeeps == ASSUME RInv, SupplyPair PROVE RInv'
  <1>1. restored' # NoPair /\ DOMAIN restored' = {"network", "provenance"}
    BY LifecycleAssumption DEF SupplyPair
  <1> QED BY <1>1
        DEF RInv, RestoreTypeOK, Given, Searching, Holding, Returned, SupplyPair, disk

(* Nothing else touches the restore's state. *)
LEMMA RestoreFrame ==
  [Next]_vars =>
    \/ UNCHANGED rvars \/ SupplyPair \/ (pc = "restore" /\ RestoreStep)
    \/ \E p \in SidecarPath \cup HubPath :
         \E x \in Replacements \cap (Contents(p) \cup {NoFile}) : Rewrite(p, x)
  <1> SUFFICES ASSUME [Next]_vars, ~UNCHANGED rvars
               PROVE  \/ SupplyPair \/ (pc = "restore" /\ RestoreStep)
                      \/ \E p \in SidecarPath \cup HubPath :
                           \E x \in Replacements \cap (Contents(p) \cup {NoFile}) :
                             Rewrite(p, x)
    OBVIOUS
  <1>1. ~UNCHANGED vars /\ ~Running /\ ~TakeSignal /\ ~WayOut /\ ~ControlTask /\ ~HealthMoves
        /\ \A s \in Signals : ~Signal(s)
    BY Zenon DEF vars, Running, TakeSignal, WayOut, ControlTask, HealthMoves, Signal,
           InstallHandlers, BeginTick, EndTick, BoundedTick, BoundedTicksEnd,
           LeaveLoop, CloseIngress, SendStop, JoinControl, FlushSink,
           ShutdownSource, FinishFlush, FinishShutdown, FinishClose, Exit,
           ControlStarts, ControlStops
  <1>2. CASE Startup
    BY <1>2, Zenon DEF Startup, LoadConfig, InstallFilter, Restore, RestoreInMain,
           OpenPubSocket, UseStub, Construct, StartControl, InitializeSource,
           TakeRestored, RestoreInBoot, VerifyPair
  <1>3. CASE FileChange
    BY <1>3, Zenon DEF FileChange
  <1> QED BY <1>1, <1>2, <1>3, Zenon DEF Next

(* The invariant of the restore is one of the whole daemon. *)
LEMMA RInvStep == RInv /\ [Next]_vars => RInv'
  <1> SUFFICES ASSUME RInv, [Next]_vars PROVE RInv'
    OBVIOUS
  <1>1. CASE UNCHANGED rvars
    BY <1>1 DEF RInv, RestoreTypeOK, Given, Searching, Holding, Returned,
       rvars, disk, progress
  <1> QED BY <1>1, RestoreFrame, SupplyKeeps, RestoreKeeps, RewriteKeeps

(* It holds when the process starts. *)
LEMMA RInvInit == Init => RInv
  <1> SUFFICES ASSUME Init PROVE RInv
    OBVIOUS
  <1>1. PICK s \in Starts : config = s.config /\ files = s.files
    BY DEF Init
  <1>2. /\ files \in [SidecarPath \cup HubPath -> Documents \cup HubConfigs \cup {NoFile}]
        /\ \A p \in SidecarPath \cup HubPath : files[p] \in Contents(p) \cup {NoFile}
    BY <1>1, LifecycleAssumption
  <1>3. /\ writes = 0 /\ ever = {<< p, files[p] >> : p \in SidecarPath}
        /\ step = "idle" /\ tried = 0 /\ sidecar = "none" /\ document = NoFile
        /\ restored = NoPair /\ io_failed = FALSE
    BY DEF Init, RestoreInit
  <1>4. RestoreTypeOK
    <2>1. writes \in 0 .. MaxWrites /\ tried \in 0 .. 2
      BY <1>3, RestoreAssumption
    <2> QED BY <1>2, <1>3, <2>1, Zenon DEF RestoreTypeOK
  <1>5. Given
    BY <1>1, <1>2, <1>3 DEF Given
  <1>6. Searching /\ Holding /\ Returned
    BY <1>3 DEF Searching, Holding, Returned
  <1> QED BY <1>4, <1>5, <1>6 DEF RInv
-----------------------------------------------------------------------------
(* The daemon's life, place by place                                       *)

Before ==
  \/ pc \in {"load", "filter", "socket", "construct"}
  \/ pc = "restore" /\ entry = "main"
Booting ==
  \/ pc \in {"take", "verify"}
  \/ pc = "restore" /\ entry # "main"
Ticking == pc \in {"loop", "ticking", "bounded"}
Leaving == pc \in {"stop", "join", "flush", "shutdown"}
Finishing == pc \in {"finish_flush", "finish_shutdown", "finish_close"}
Over == pc \in {"returned", "exited"}

(* Which entry point comes by which place. *)
Routes ==
  /\ pc \in {"load", "filter", "socket"} => entry = "main"
  /\ pc = "bounded" \/ Finishing => entry = "run_for_ticks"
  /\ pc \in {"control", "loop", "ticking", "draining", "stop", "join"} =>
       entry # "run_for_ticks"

(* What health, the source and the queues are at each place. *)
Stages ==
  /\ ready <=> phase \in H!Serving
  /\ Before => phase = "unstarted"
  /\ pc \in {"control", "boot"} => phase = "starting" /\ ingress = "open"
  /\ Booting => /\ phase = "loading_checkpoint" /\ ingress = "open"
                /\ source = "initialized"
  /\ Ticking => /\ phase \in H!Serving \cup {"fatal"} /\ ingress = "open"
                /\ source = "initialized"
  /\ pc = "draining" => phase \in {"draining", "fatal"}
  /\ pc = "abort" => phase \in {"starting", "fatal"}
  /\ Leaving => phase \in {"starting", "draining", "fatal"} /\ ingress = "closed"
  /\ Finishing => phase \in H!Serving \cup {"fatal"} /\ source = "initialized"
  /\ Over /\ phase # "unstarted" =>
       /\ ingress = "closed"
       /\ ready => entry = "run_for_ticks" /\ source = "initialized"

(* How often the backend's hooks have been called. *)
Hooks ==
  pc # "killed" =>
    /\ flushes = IF \/ pc \in {"shutdown", "finish_shutdown", "finish_close"}
                    \/ Over /\ phase # "unstarted"
                 THEN 1 ELSE 0
    /\ shutdowns = IF pc = "finish_close" \/ (Over /\ phase # "unstarted")
                   THEN 1 ELSE 0

(* When there is no control task, or no longer. *)
Joined ==
  /\ Before \/ pc = "control" \/ entry = "run_for_ticks" => control = "none"
  /\ pc \in {"flush", "shutdown"} \/ Over => control \in {"none", "ended"}

Order == Routes /\ Stages /\ Hooks /\ Joined

(* What the daemon was built from: a valid configuration, a registry of    *)
(* its services and, once it ticks, a pair that matches, which is the      *)
(* restore's own unless an embedder supplied it.                           *)
Built ==
  /\ phase # "unstarted" => Validate(config) /\ registry = FromConfigs(config.services)
  /\ entry = "main" /\ pc \in {"socket", "construct", "control", "boot", "take"} =>
       restored # NoPair
  /\ entry # "run_with_restored" =>
       /\ restored # NoPair => step = "done"
       /\ pc = "verify" \/ Ticking => step = "done"
  /\ Ticking => identity = IdentityOf(restored.provenance)
  /\ Ticking \/ Finishing \/ (Over /\ ready) => PairMatches(config, restored)

LInv == TypeOK /\ RInv /\ Order /\ Built

(* Every step goes from a place to a place that the tables above describe. *)
LEMMA OrderStep == TypeOK /\ Order /\ Built /\ [Next]_vars => Order'
  <1> SUFFICES ASSUME TypeOK, Order, Built, [Next]_vars PROVE Order'
    OBVIOUS
  <1> USE DEF Order, Routes, Stages, Hooks, Joined, Before, Booting, Ticking,
              Leaving, Finishing, Over, InLoop, Ended,
              H!Serving, H!Booting, Goto, Fails, rvars, disk, progress,
              control_flow, health, backend, task, signals, rest
  <1>1. CASE LoadConfig
    BY <1>1 DEF LoadConfig
  <1>2. CASE InstallFilter
    BY <1>2 DEF InstallFilter
  <1>3. CASE Restore
    BY <1>3 DEF Restore
  <1>4. CASE RestoreInMain
    BY <1>4 DEF RestoreInMain
  <1>5. CASE OpenPubSocket
    BY <1>5 DEF OpenPubSocket
  <1>5u. CASE UseStub
    BY <1>5u DEF UseStub
  <1>6. CASE SupplyPair
    BY <1>6 DEF SupplyPair
  <1>7. CASE Construct
    BY <1>7 DEF Construct
  <1>8. CASE StartControl
    BY <1>8 DEF StartControl
  <1>9. CASE InitializeSource
    BY <1>9 DEF InitializeSource, H!Initialize, H!Fail
  <1>10. CASE TakeRestored
    BY <1>10 DEF TakeRestored, Built
  <1>11. CASE RestoreInBoot
    BY <1>11 DEF RestoreInBoot, H!Fail
  <1>12. CASE VerifyPair
    BY <1>12 DEF VerifyPair, H!Validate, H!Fail
  <1>13. CASE InstallHandlers
    BY <1>13 DEF InstallHandlers
  <1>14. CASE BeginTick
    BY <1>14 DEF BeginTick
  <1>15. CASE EndTick
    BY <1>15 DEF EndTick, H!Fail
  <1>16. CASE BoundedTick
    BY <1>16 DEF BoundedTick, H!Fail
  <1>17. CASE BoundedTicksEnd
    BY <1>17 DEF BoundedTicksEnd
  <1>18. CASE TakeSignal
    BY <1>18 DEF TakeSignal, H!Drain
  <1>19. CASE LeaveLoop
    BY <1>19 DEF LeaveLoop
  <1>20. CASE CloseIngress
    BY <1>20 DEF CloseIngress
  <1>21. CASE SendStop
    BY <1>21 DEF SendStop
  <1>22. CASE JoinControl
    BY <1>22 DEF JoinControl
  <1>23. CASE FlushSink
    BY <1>23 DEF FlushSink
  <1>24. CASE ShutdownSource
    BY <1>24 DEF ShutdownSource
  <1>25. CASE FinishFlush
    BY <1>25 DEF FinishFlush
  <1>26. CASE FinishShutdown
    BY <1>26 DEF FinishShutdown
  <1>27. CASE FinishClose
    BY <1>27 DEF FinishClose
  <1>28. CASE Exit
    BY <1>28 DEF Exit
  <1>29. CASE ControlStarts
    BY <1>29 DEF ControlStarts
  <1>30. CASE ControlStops
    BY <1>30 DEF ControlStops
  <1>31. CASE HealthMoves
    BY <1>31 DEF HealthMoves, H!Degrade, H!Recover
  <1>32. CASE FileChange
    BY <1>32 DEF FileChange
  <1>33. ASSUME NEW s \in Signals, Signal(s) PROVE Order'
    BY <1>33 DEF Signal
  <1>34. CASE UNCHANGED vars
    BY <1>34 DEF vars
  <1> QED
    BY <1>1, <1>2, <1>3, <1>4, <1>5, <1>5u, <1>6, <1>7, <1>8, <1>9, <1>10,
       <1>11, <1>12, <1>13, <1>14, <1>15, <1>16, <1>17, <1>18, <1>19,
       <1>20, <1>21, <1>22, <1>23, <1>24, <1>25, <1>26, <1>27, <1>28,
       <1>29, <1>30, <1>31, <1>32, <1>33, <1>34
       DEF Next, Startup, Running, WayOut, ControlTask

(* A registry holds names. *)
LEMMA RegistryNames ==
  ASSUME NEW c \in Config PROVE FromConfigs(c.services) \subseteq STRING
  <1>1. c.services \in Seq(Service)
    BY DEF Config
  <1>2. \A i \in 1 .. Len(c.services) : c.services[i].name \in STRING
    <2>1. \A i \in 1 .. Len(c.services) : c.services[i] \in Service
      BY <1>1
    <2> QED BY <2>1 DEF Service
  <1> QED BY <1>1, <1>2, FromConfigsIsLastWords DEF LastWords

(* A restore that has succeeded is over, and only success returns a pair. *)
LEMMA RestoreOnce ==
  RestoreStep => step # "done" /\ (restored' = restored \/ step' = "done")
  BY DEF RestoreStep, BeginRestore, QueryPath, ResolveSidecar, ReadSidecar,
         FindHubConfig, ReadHubConfig, ApplySidecar, AccessFails,
         CandidateUnseen, At, Refuse

(* The configuration is the one of the start. *)
LEMMA ConfigFixed == [Next]_vars => config' = config
  <1>1. RestoreStep => config' = config
    BY DEF RestoreStep, BeginRestore, QueryPath, ResolveSidecar, ReadSidecar,
           FindHubConfig, ReadHubConfig, ApplySidecar, AccessFails,
           CandidateUnseen, At
  <1> QED BY <1>1, RestoreFrame DEF SupplyPair, Rewrite, rvars

(* Types are kept; that no hook is called twice is in Hooks. *)
LEMMA TypeStep == LInv /\ [Next]_vars => TypeOK'
  <1> SUFFICES ASSUME LInv, [Next]_vars PROVE TypeOK'
    OBVIOUS
  <1>a. RestoreTypeOK' /\ TypeOK /\ config \in Config /\ MaxTicks \in Nat
    BY RInvStep, GivenFacts, LifecycleAssumption DEF LInv, RInv
  <1>b. pc' # "killed" => flushes' \in 0 .. 1 /\ shutdowns' \in 0 .. 1
    BY OrderStep DEF LInv, Order, Hooks
  <1>c. FromConfigs(config.services) \subseteq STRING
    BY <1>a, RegistryNames
  <1> USE DEF TypeOK, H!Serving, H!Booting, Goto, Fails, rvars, disk, progress,
              control_flow, health, backend, task, signals, rest,
              EntryPoint, InLoop, Ended
  <1>1. CASE LoadConfig
    BY <1>1, <1>a, <1>b DEF LoadConfig
  <1>2. CASE InstallFilter
    BY <1>2, <1>a, <1>b DEF InstallFilter, RustLog, ResolveFilter
  <1>3. CASE Restore
    BY <1>3, <1>a, <1>b DEF Restore
  <1>4. CASE RestoreInMain
    BY <1>4, <1>a, <1>b DEF RestoreInMain
  <1>5. CASE OpenPubSocket
    BY <1>5, <1>a, <1>b DEF OpenPubSocket
  <1>5u. CASE UseStub
    BY <1>5u, <1>a, <1>b DEF UseStub
  <1>6. CASE SupplyPair
    BY <1>6, <1>a, <1>b DEF SupplyPair
  <1>7. CASE Construct
    <2>1. /\ ready' \in BOOLEAN
          /\ phase' \in {"unstarted", "fatal", "draining"} \cup H!Booting \cup H!Serving
      BY <1>7, <1>a DEF Construct
    <2>2. /\ pc' \in {"returned", "boot", "control"} /\ outcome' \in {"none", "ok", "error", "panic"}
          /\ ingress' \in {"none", "open", "closed"}
      BY <1>7, <1>a DEF Construct
    <2>3. registry' \subseteq STRING
      BY <1>7, <1>a, <1>c DEF Construct
    <2>4. UNCHANGED << entry, backend, task, signals, filter, ticks >>
      BY <1>7 DEF Construct
    <2> QED BY <1>a, <2>1, <2>2, <2>3, <2>4
  <1>8. CASE StartControl
    BY <1>8, <1>a, <1>b DEF StartControl
  <1>9. CASE InitializeSource
    <2>1. /\ ready' \in BOOLEAN
          /\ phase' \in {"unstarted", "fatal", "draining"} \cup H!Booting \cup H!Serving
      BY <1>9, <1>a DEF InitializeSource, H!Initialize, H!Fail
    <2> QED BY <1>9, <1>a, <1>b, <1>c, <2>1 DEF InitializeSource
  <1>10. CASE TakeRestored
    BY <1>10, <1>a, <1>b DEF TakeRestored
  <1>11. CASE RestoreInBoot
    <2>1. /\ ready' \in BOOLEAN
          /\ phase' \in {"unstarted", "fatal", "draining"} \cup H!Booting \cup H!Serving
      BY <1>11, <1>a DEF RestoreInBoot, H!Fail
    <2> QED BY <1>11, <1>a, <1>b, <1>c, <2>1 DEF RestoreInBoot
  <1>12. CASE VerifyPair
    <2>1. /\ ready' \in BOOLEAN
          /\ phase' \in {"unstarted", "fatal", "draining"} \cup H!Booting \cup H!Serving
      BY <1>12, <1>a DEF VerifyPair, H!Validate, H!Fail
    <2> QED BY <1>12, <1>a, <1>b, <1>c, <2>1 DEF VerifyPair
  <1>13. CASE InstallHandlers
    BY <1>13, <1>a, <1>b DEF InstallHandlers
  <1>14. CASE BeginTick
    BY <1>14, <1>a, <1>b DEF BeginTick
  <1>15. CASE EndTick
    <2>1. /\ ready' \in BOOLEAN
          /\ phase' \in {"unstarted", "fatal", "draining"} \cup H!Booting \cup H!Serving
      BY <1>15, <1>a DEF EndTick, H!Fail
    <2> QED BY <1>15, <1>a, <1>b, <1>c, <2>1 DEF EndTick
  <1>16. CASE BoundedTick
    <2>1. /\ ready' \in BOOLEAN
          /\ phase' \in {"unstarted", "fatal", "draining"} \cup H!Booting \cup H!Serving
      BY <1>16, <1>a DEF BoundedTick, H!Fail
    <2> QED BY <1>16, <1>a, <1>b, <1>c, <2>1 DEF BoundedTick
  <1>17. CASE BoundedTicksEnd
    BY <1>17, <1>a, <1>b DEF BoundedTicksEnd
  <1>18. CASE TakeSignal
    <2>1. /\ ready' \in BOOLEAN
          /\ phase' \in {"unstarted", "fatal", "draining"} \cup H!Booting \cup H!Serving
      BY <1>18, <1>a DEF TakeSignal, H!Drain
    <2> QED BY <1>18, <1>a, <1>b, <1>c, <2>1 DEF TakeSignal
  <1>19. CASE LeaveLoop
    BY <1>19, <1>a, <1>b DEF LeaveLoop
  <1>20. CASE CloseIngress
    BY <1>20, <1>a, <1>b DEF CloseIngress
  <1>21. CASE SendStop
    BY <1>21, <1>a, <1>b DEF SendStop
  <1>22. CASE JoinControl
    BY <1>22, <1>a, <1>b DEF JoinControl
  <1>23. CASE FlushSink
    BY <1>23, <1>a, <1>b DEF FlushSink
  <1>24. CASE ShutdownSource
    BY <1>24, <1>a, <1>b DEF ShutdownSource
  <1>25. CASE FinishFlush
    BY <1>25, <1>a, <1>b DEF FinishFlush
  <1>26. CASE FinishShutdown
    BY <1>26, <1>a, <1>b DEF FinishShutdown
  <1>27. CASE FinishClose
    BY <1>27, <1>a, <1>b DEF FinishClose
  <1>28. CASE Exit
    BY <1>28, <1>a, <1>b DEF Exit
  <1>29. CASE ControlStarts
    BY <1>29, <1>a, <1>b DEF ControlStarts
  <1>30. CASE ControlStops
    BY <1>30, <1>a, <1>b DEF ControlStops
  <1>31. CASE HealthMoves
    <2>1. /\ ready' \in BOOLEAN
          /\ phase' \in {"unstarted", "fatal", "draining"} \cup H!Booting \cup H!Serving
      BY <1>31, <1>a DEF HealthMoves, H!Degrade, H!Recover
    <2> QED BY <1>31, <1>a, <1>b, <1>c, <2>1 DEF HealthMoves
  <1>32. CASE FileChange
    BY <1>32, <1>a, <1>b DEF FileChange
  <1>33. ASSUME NEW s \in Signals, Signal(s) PROVE TypeOK'
    <2>1. /\ pc' \in {"killed", pc} /\ signal' \in BOOLEAN
          /\ entry' = entry /\ outcome' = outcome
          /\ UNCHANGED << health, ingress, backend, task, handlers, rest >>
      BY <1>33, <1>a DEF Signal
    <2> QED BY <1>a, <2>1
  <1>34. CASE UNCHANGED vars
    BY <1>34, <1>a, <1>b DEF vars
  <1> QED
    BY <1>1, <1>2, <1>3, <1>4, <1>5, <1>5u, <1>6, <1>7, <1>8, <1>9, <1>10,
       <1>11, <1>12, <1>13, <1>14, <1>15, <1>16, <1>17, <1>18, <1>19,
       <1>20, <1>21, <1>22, <1>23, <1>24, <1>25, <1>26, <1>27, <1>28,
       <1>29, <1>30, <1>31, <1>32, <1>33, <1>34
       DEF Next, Startup, Running, WayOut, ControlTask

(* What the daemon was built from stays behind it to the end. *)
LEMMA BuiltStep == LInv /\ [Next]_vars => Built'
  <1> SUFFICES ASSUME LInv, [Next]_vars PROVE Built'
    OBVIOUS
  <1>a. TypeOK /\ Order /\ Built /\ config' = config
    BY ConfigFixed DEF LInv
  <1>b. step = "done" => restored # NoPair
    BY DEF LInv, RInv, Returned
  <1> USE DEF Built, Order, Routes, Stages, Before, Booting, Ticking, Leaving,
              Finishing, Over, InLoop, Ended,
              H!Serving, H!Booting, Goto, Fails, rvars, disk, progress,
              control_flow, health, backend, task, signals, rest
  <1>1. CASE LoadConfig
    BY <1>1, <1>a DEF LoadConfig
  <1>2. CASE InstallFilter
    BY <1>2, <1>a DEF InstallFilter
  <1>3. CASE Restore
    BY <1>3, <1>a, <1>b, RestoreOnce DEF Restore
  <1>4. CASE RestoreInMain
    BY <1>4, <1>a, <1>b DEF RestoreInMain
  <1>5. CASE OpenPubSocket
    BY <1>5, <1>a DEF OpenPubSocket
  <1>5u. CASE UseStub
    BY <1>5u, <1>a DEF UseStub
  <1>6. CASE SupplyPair
    BY <1>6, <1>a DEF SupplyPair
  <1>7. CASE Construct
    BY <1>7, <1>a DEF Construct
  <1>8. CASE StartControl
    BY <1>8, <1>a DEF StartControl
  <1>9. CASE InitializeSource
    BY <1>9, <1>a DEF InitializeSource, H!Initialize, H!Fail
  <1>10. CASE TakeRestored
    BY <1>10, <1>a DEF TakeRestored
  <1>11. CASE RestoreInBoot
    BY <1>11, <1>a DEF RestoreInBoot, H!Fail
  <1>12. CASE VerifyPair
    BY <1>12, <1>a DEF VerifyPair, H!Validate, H!Fail
  <1>13. CASE InstallHandlers
    BY <1>13, <1>a DEF InstallHandlers
  <1>14. CASE BeginTick
    BY <1>14, <1>a DEF BeginTick
  <1>15. CASE EndTick
    BY <1>15, <1>a DEF EndTick, H!Fail
  <1>16. CASE BoundedTick
    BY <1>16, <1>a DEF BoundedTick, H!Fail
  <1>17. CASE BoundedTicksEnd
    BY <1>17, <1>a DEF BoundedTicksEnd
  <1>18. CASE TakeSignal
    BY <1>18, <1>a DEF TakeSignal, H!Drain
  <1>19. CASE LeaveLoop
    BY <1>19, <1>a DEF LeaveLoop
  <1>20. CASE CloseIngress
    BY <1>20, <1>a DEF CloseIngress
  <1>21. CASE SendStop
    BY <1>21, <1>a DEF SendStop
  <1>22. CASE JoinControl
    BY <1>22, <1>a DEF JoinControl
  <1>23. CASE FlushSink
    BY <1>23, <1>a DEF FlushSink
  <1>24. CASE ShutdownSource
    BY <1>24, <1>a DEF ShutdownSource
  <1>25. CASE FinishFlush
    BY <1>25, <1>a DEF FinishFlush
  <1>26. CASE FinishShutdown
    BY <1>26, <1>a DEF FinishShutdown
  <1>27. CASE FinishClose
    BY <1>27, <1>a DEF FinishClose
  <1>28. CASE Exit
    BY <1>28, <1>a DEF Exit
  <1>29. CASE ControlStarts
    BY <1>29, <1>a DEF ControlStarts
  <1>30. CASE ControlStops
    BY <1>30, <1>a DEF ControlStops
  <1>31. CASE HealthMoves
    BY <1>31, <1>a DEF HealthMoves, H!Degrade, H!Recover
  <1>32. CASE FileChange
    BY <1>32, <1>a DEF FileChange, Rewrite
  <1>33. ASSUME NEW s \in Signals, Signal(s) PROVE Built'
    BY <1>33, <1>a DEF Signal
  <1>34. CASE UNCHANGED vars
    BY <1>34, <1>a DEF vars
  <1> QED
    BY <1>1, <1>2, <1>3, <1>4, <1>5, <1>5u, <1>6, <1>7, <1>8, <1>9, <1>10,
       <1>11, <1>12, <1>13, <1>14, <1>15, <1>16, <1>17, <1>18, <1>19,
       <1>20, <1>21, <1>22, <1>23, <1>24, <1>25, <1>26, <1>27, <1>28,
       <1>29, <1>30, <1>31, <1>32, <1>33, <1>34
       DEF Next, Startup, Running, WayOut, ControlTask

(* The invariant holds when the process starts. *)
LEMMA LInvInit == Init => LInv
  <1> SUFFICES ASSUME Init PROVE LInv
    OBVIOUS
  <1>1. RInv /\ RestoreTypeOK
    BY RInvInit DEF RInv
  <1>2. entry \in EntryPoint
    BY LifecycleAssumption DEF Init
  <1>3. /\ pc = IF entry = "main" THEN "load" ELSE "construct"
        /\ outcome = "none"
        /\ phase = "unstarted" /\ ready = FALSE /\ identity = NoIdentity
        /\ registry = {} /\ filter = "none" /\ ingress = "none"
        /\ source = "fresh" /\ flushes = 0 /\ shutdowns = 0 /\ pub_socket = "none"
        /\ control = "none" /\ stop = FALSE
        /\ handlers = {} /\ signal = FALSE
        /\ restored = NoPair
    BY DEF Init, RestoreInit
  <1>4. ticks \in 0 .. MaxTicks
    BY LifecycleAssumption DEF Init
  <1>5. TypeOK
    <2>1. flushes \in 0 .. 1 /\ shutdowns \in 0 .. 1
      BY <1>3
    <2> QED BY <1>1, <1>2, <1>3, <1>4, <2>1 DEF TypeOK
  <1>6. Order
    BY <1>3 DEF Order, Routes, Stages, Hooks, Joined, Before, Booting, Ticking, Leaving,
                Finishing, Over, H!Serving
  <1>7. Built
    BY <1>3 DEF Built, Ticking, Finishing, Over
  <1> QED BY <1>1, <1>5, <1>6, <1>7 DEF LInv

(* Every step of the daemon keeps the invariant. *)
LEMMA LInvStep == LInv /\ [Next]_vars => LInv'
  BY RInvStep, OrderStep, TypeStep, BuiltStep DEF LInv

(* The inductive invariant: what each place of the code may rely on. *)
THEOREM LifecycleInvariant == Spec => []LInv
  BY LInvInit, LInvStep, PTL DEF Spec

(* However a run ends that had built a daemon, a failed start, a signal or *)
(* the last of its ticks, the queues are closed, the control task is       *)
(* joined, and the sink's flush and the source's shutdown were called, once *)
(* each (abort_startup, shutdown_backend, finish_bounded_run).             *)
THEOREM ReleasesOnce == Spec => []ReleasedOnce
  <1>1. LInv => ReleasedOnce
    BY DEF LInv, ReleasedOnce, Order, Stages, Hooks, Joined, Over
  <1> QED BY <1>1, LifecycleInvariant, PTL

(* Readiness is only ever claimed with an initialized source, a matching   *)
(* network and, but for run_for_ticks, open queues and a running loop.     *)
THEOREM ReadyServes == Spec => []ReadyIsServing
  <1>1. LInv => ReadyIsServing
    <2> SUFFICES ASSUME LInv, ready, pc # "killed"
                 PROVE  /\ source = "initialized" /\ PairMatches(config, restored)
                        /\ entry # "run_for_ticks" =>
                             InLoop /\ ingress = "open" /\ shutdowns = 0
      BY DEF ReadyIsServing
    <2>1. TypeOK /\ Order /\ Built
      BY DEF LInv
    <2>2. phase \in H!Serving
      BY <2>1 DEF Order, Stages
    <2>3. Ticking \/ Finishing \/ Over
      BY <2>1, <2>2 DEF TypeOK, Order, Stages, H!Serving, Before, Booting,
         Ticking, Leaving,
                        Finishing, Over
    <2>4. source = "initialized" /\ PairMatches(config, restored)
      BY <2>1, <2>2, <2>3 DEF Order, Stages, Built, H!Serving
    <2>5. ASSUME entry # "run_for_ticks" PROVE InLoop /\ ingress = "open" /\ shutdowns = 0
      BY <2>1, <2>2, <2>3, <2>5
         DEF Order, Routes, Stages, Hooks, Ticking, Finishing, Over, InLoop, H!Serving
    <2> QED BY <2>4, <2>5
  <1> QED BY <1>1, LifecycleInvariant, PTL

(* What live mode restores is one document that was on disk, fit for the   *)
(* configuration and the one whose digest is reported, whatever happens to *)
(* the files between two accesses; simulation restores a blank network.    *)
LEMMA ReturnedIsModel == RInv => RestoredIsModel
  <1> SUFFICES ASSUME RInv, step = "done"
               PROVE  LET n == restored.network
                          p == restored.provenance
                      IN /\ n = Network(config, n.weights)
                         /\ IF config.runtime_mode = "live"
                            THEN /\ Fit(config, n.weights)
                                 /\ p.sha = n.weights /\ << p.path, n.weights >> \in ever
                            ELSE n.weights = BlankWeights /\ p.sha = "none"
    BY DEF RestoredIsModel
  <1>1. CASE config.runtime_mode = "live"
    <2>1. PICK d \in Documents, p \in SidecarPath :
            restored = Restored(config, d, p) /\ Fit(config, d) /\ << p, d >> \in ever
      BY <1>1 DEF RInv, Returned
    <2>2. /\ restored.network = Network(config, d)
          /\ restored.provenance = ProvenanceOf(d, p)
      BY <2>1 DEF Restored
    <2>3. restored.network.weights = d
      BY <2>2 DEF Network
    <2>4. restored.provenance.sha = d /\ restored.provenance.path = p
      BY <2>2 DEF ProvenanceOf
    <2> QED BY <1>1, <2>1, <2>2, <2>3, <2>4
  <1>2. CASE config.runtime_mode # "live"
    <2>1. restored = BlankSimulation(config)
      BY <1>2 DEF RInv, Returned
    <2>2. /\ restored.network = Network(config, BlankWeights)
          /\ restored.provenance.sha = "none"
      BY <2>1 DEF BlankSimulation
    <2>3. restored.network.weights = BlankWeights
      BY <2>2 DEF Network
    <2> QED BY <1>2, <2>2, <2>3
  <1> QED BY <1>1, <1>2

(* The same, as a property of the daemon. *)
THEOREM RestoresTheModel == Spec => []RestoredIsModel
  <1>1. LInv => RestoredIsModel
    BY ReturnedIsModel DEF LInv
  <1> QED BY <1>1, LifecycleInvariant, PTL

(* A daemon that ticks has a sound configuration, a network of its         *)
(* dimensions, the identity that is reported and, unless an embedder       *)
(* brought its own pair, the model on disk or a blank one.                 *)
THEOREM TicksAreValidated == Spec => []TicksValidated
  <1>1. LInv => TicksValidated
    <2> SUFFICES ASSUME LInv, Ticking PROVE TicksValidated
      BY DEF TicksValidated, Ticking, InLoop
    <2>1. /\ TypeOK /\ RInv /\ Order /\ Built /\ config \in Config
          /\ phase # "unstarted"
      BY GivenFacts DEF LInv, RInv, Order, Stages, H!Serving
    <2>2. Sound(config)
      BY <2>1, ValidateSound DEF Built
    <2>3. /\ restored.network = Network(config, restored.network.weights)
          /\ identity = IdentityOf(restored.provenance)
      BY <2>1 DEF Built, PairMatches
    <2>4. identity.digest = restored.provenance.sha
      BY <2>3 DEF IdentityOf
    <2>5. entry # "run_with_restored" => step = "done"
      BY <2>1 DEF Built
    <2>6. ASSUME entry # "run_with_restored"
          PROVE  IF config.runtime_mode = "live"
                 THEN /\ Fit(config, restored.network.weights)
                      /\ identity.digest = restored.network.weights
                 ELSE restored.network.weights = BlankWeights
      BY <2>1, <2>4, <2>5, <2>6, ReturnedIsModel DEF RestoredIsModel
    <2> QED BY <2>2, <2>3, <2>6 DEF TicksValidated
  <1> QED BY <1>1, LifecycleInvariant, PTL

(* Whatever list of services is configured, with entries repeated, enabled *)
(* and disabled in any order, the registry holds those whose last entry is *)
(* enabled (from_configs).                                                 *)
THEOREM RegistryHoldsLastWord == Spec => []RegistryIsLastWord
  <1>1. LInv => RegistryIsLastWord
    <2> SUFFICES ASSUME LInv, phase # "unstarted"
                 PROVE  registry = {n \in {s.name : s \in Range(config.services)} :
                                      LastWord(config.services, n)}
      BY DEF RegistryIsLastWord
    <2> DEFINE list == config.services
               D == 1 .. Len(list)
    <2>1. list \in Seq(Service)
      BY GivenFacts DEF LInv, RInv, Config
    <2>2. registry = LastWords(list, D)
      BY <2>1, FromConfigsIsLastWords DEF LInv, Built
    <2>3. Len(list) \in Nat /\ DOMAIN list = D
      BY <2>1
    <2> HIDE DEF list
    <2>4. {list[i].name : i \in D} = {s.name : s \in Range(list)}
      BY <2>3 DEF Range
    <2>5. ASSUME NEW n
          PROVE  LastWord(list, n) <=>
                   \E i \in D : /\ list[i].name = n /\ list[i].enabled
                                /\ \A j \in D : j > i => list[j].name # n
      <3>1. ASSUME NEW i \in D
            PROVE  (\A j \in i + 1 .. Len(list) : list[j].name # n) <=>
                     (\A j \in D : j > i => list[j].name # n)
        BY <2>3
      <3> QED BY <3>1 DEF LastWord
    <2> QED BY <2>2, <2>4, <2>5 DEF LastWords, list
  <1> QED BY <1>1, LifecycleInvariant, PTL
-----------------------------------------------------------------------------
(* A restore nobody disturbs                                               *)

Quiet == writes = 0 /\ ~io_failed

(* What live mode should come to, from the files alone. *)
Restorable ==
  /\ Named # "none"
  /\ Fit(config, files[Named])
  /\ HubOf(Named) = NoFile \/ Agrees(HubOf(Named), files[Named])

(* What is known of the files at each step. *)
Known ==
  /\ step = "resolve" =>
       /\ PathExists /\ config.model_path # "mem"
       /\ \A i \in 1 .. tried : files[Candidates(config.model_path)[i]] = NoFile
  /\ step \in {"read", "find_hub", "read_hub", "apply"} =>
       sidecar = Named /\ files[sidecar] # NoFile
  /\ step \in {"find_hub", "read_hub", "apply"} => document = files[sidecar]
  /\ step \in {"find_hub", "read_hub"} =>
       \A i \in 1 .. tried : files[HubCandidates(sidecar)[i]] = NoFile
  /\ step = "read_hub" => files[HubCandidates(sidecar)[tried + 1]] # NoFile
  /\ step = "apply" =>
       HubOf(sidecar) = NoFile \/ ValidateHubConfig(HubOf(sidecar), document)

(* The outcome is the one the files call for. *)
Verdict ==
  step \in {"done", "failed"} /\ Validate(config) /\ config.runtime_mode = "live" =>
    /\ step = "done" <=> Restorable
    /\ step = "done" => restored.provenance.path = Named

QInv == Quiet => Known /\ Verdict

(* model_path stands for the first candidate that is there, *)
LEMMA NamedFirst ==
  ASSUME PathExists, config.model_path # "mem",
         NEW i \in 1 .. Len(Candidates(config.model_path)),
         files[Candidates(config.model_path)[i]] # NoFile,
         \A j \in 1 .. i - 1 : files[Candidates(config.model_path)[j]] = NoFile
  PROVE  Named = Candidates(config.model_path)[i]
  <1> DEFINE paths == Candidates(config.model_path)
             found == {k \in 1 .. Len(paths) : files[paths[k]] # NoFile}
             first == CHOOSE k \in found : \A j \in found : k <= j
  <1>0. Len(paths) \in 1 .. 2
    BY CandidatesOK
  <1>1. i \in found /\ \A j \in found : i <= j
    <2> HIDE DEF paths
    <2>1. \A j \in 1 .. i - 1 : files[paths[j]] = NoFile
      BY DEF paths
    <2>2. files[paths[i]] # NoFile /\ i \in 1 .. Len(paths)
      BY DEF paths
    <2> QED BY <1>0, <2>1, <2>2
  <1>2. first \in found /\ \A j \in found : first <= j
    BY <1>1
  <1>3. first = i
    <2> HIDE DEF first
    <2>1. first <= i /\ i <= first /\ first \in Int /\ i \in Int
      BY <1>0, <1>1, <1>2
    <2> QED BY <2>1
  <1>4. Named = paths[first]
    BY <1>1 DEF Named
  <1> QED BY <1>3, <1>4

(* and for nothing when there is none. *)
LEMMA NamedNone ==
  ASSUME \/ ~PathExists
         \/ config.model_path = "mem"
         \/ \A i \in 1 .. Len(Candidates(config.model_path)) :
              files[Candidates(config.model_path)[i]] = NoFile
  PROVE  Named = "none"
  BY DEF Named

(* find_hub_config finds the hub configuration that speaks for a sidecar, *)
LEMMA HubFound ==
  ASSUME NEW p \in SidecarPath, NEW n \in 0 .. 2, n < Len(HubCandidates(p)),
         files[HubCandidates(p)[n + 1]] # NoFile,
         \A i \in 1 .. n : files[HubCandidates(p)[i]] = NoFile
  PROVE  HubOf(p) = files[HubCandidates(p)[n + 1]]
  <1>1. CASE p = "direct"
    <2>1. HubCandidates(p) = << "hub" >>
      BY <1>1 DEF HubCandidates
    <2>2. n = 0
      BY <2>1
    <2> QED BY <1>1, <2>1, <2>2 DEF HubOf
  <1>2. CASE p = "nested"
    <2>1. HubCandidates(p) = << "inner", "hub" >>
      BY <1>2 DEF HubCandidates
    <2>2. n = 0 \/ n = 1
      BY <2>1
    <2>3. CASE n = 0
      BY <1>2, <2>1, <2>3 DEF HubOf
    <2>4. CASE n = 1
      <3>1. files["inner"] = NoFile
        BY <2>1, <2>4
      <3> QED BY <1>2, <2>1, <2>4, <3>1 DEF HubOf
    <2> QED BY <2>2, <2>3, <2>4
  <1> QED BY <1>1, <1>2 DEF SidecarPath

(* or that there is none. *)
LEMMA HubMissing ==
  ASSUME NEW p \in SidecarPath,
         \A i \in 1 .. Len(HubCandidates(p)) : files[HubCandidates(p)[i]] = NoFile
  PROVE  HubOf(p) = NoFile
  <1>1. CASE p = "direct"
    <2>1. HubCandidates(p) = << "hub" >>
      BY <1>1 DEF HubCandidates
    <2>2. files["hub"] = NoFile
      BY <2>1
    <2> QED BY <1>1, <2>2 DEF HubOf
  <1>2. CASE p = "nested"
    <2>1. HubCandidates(p) = << "inner", "hub" >>
      BY <1>2 DEF HubCandidates
    <2>2. files["hub"] = NoFile /\ files["inner"] = NoFile
      BY <2>1
    <2> QED BY <1>2, <2>2 DEF HubOf
  <1> QED BY <1>1, <1>2 DEF SidecarPath

(* For a fit document the checks of validate_hub_config, which compare     *)
(* with weight_width, say that the hub configuration agrees with the rows. *)
LEMMA HubChecks ==
  ASSUME NEW c \in Config, NEW d \in Document, NEW h \in HubConfig, Validate(c),
         c.runtime_mode = "live", Fit(c, d)
  PROVE  ValidateHubConfig(h, d) <=> Agrees(h, d)
  <1>1. /\ Checked(c, d) /\ d.neurons # << >> /\ WeightWidth(d) = c.channels
        /\ WeightWidth(d) # 0
    BY CheckedIsFit DEF Checked, ValidateSchema, ValidateIngressContract
  <1>2. c.channels \in Nat /\ c.channels # 0
    <2>1. USIZE_MAX \in Nat
      BY ConfigAssumption
    <2> QED BY <1>1, <2>1 DEF Config, Usize
  <1>3. \A n \in Rows(d) : n.width = c.channels
    BY DEF Fit
  <1>4. \E n \in Rows(d) : TRUE
    BY DEF Fit
  <1>5. h.n_channels = WeightWidth(d) <=> \A n \in Rows(d) : n.width = h.n_channels
    BY <1>1, <1>3, <1>4
  <1> QED BY <1>1, <1>5 DEF ValidateHubConfig, Agrees

(* What a refusal in a quiet restore has to show. *)
LEMMA QuietRefuse ==
  ASSUME Refuse, UNCHANGED << config, disk >>,
         Validate(config) /\ config.runtime_mode = "live" => ~Restorable
  PROVE  QInv'
  <1>1. step' = "failed" /\ config' = config /\ files' = files
    BY DEF Refuse, disk
  <1>2. Restorable' <=> Restorable
    BY <1>1 DEF Restorable, Named, PathExists, HubOf
  <1>3. Known'
    BY <1>1 DEF Known
  <1>4. Verdict'
    BY <1>1, <1>2 DEF Verdict
  <1> QED BY <1>3, <1>4 DEF QInv

(* Each step of a quiet restore keeps it on the way to the right outcome. *)
LEMMA QuietKeeps == RInv /\ QInv /\ RestoreStep => QInv'
  <1> SUFFICES ASSUME RInv, QInv, RestoreStep, Quiet' PROVE QInv'
    BY DEF QInv
  <1>0. /\ RestoreTypeOK /\ Given /\ Searching /\ Holding /\ config \in Config
        /\ tried \in 0 .. 2
    BY GivenFacts DEF RInv, Config, RestoreTypeOK
  <1>1. UNCHANGED << config, disk >>
    BY DEF RestoreStep, BeginRestore, QueryPath, ResolveSidecar, ReadSidecar,
           FindHubConfig, ReadHubConfig, ApplySidecar, AccessFails,
           CandidateUnseen, At
  <1>2. io_failed' = io_failed
    BY DEF RestoreStep, BeginRestore, QueryPath, ResolveSidecar, ReadSidecar,
           FindHubConfig, ReadHubConfig, ApplySidecar, AccessFails,
           CandidateUnseen, Refuse, Quiet
  <1>3. Known /\ Verdict
    BY <1>1, <1>2 DEF Quiet, QInv, disk
  <1>4. /\ config' = config /\ files' = files /\ Named' = Named
        /\ PathExists' = PathExists /\ (Restorable' <=> Restorable)
    BY <1>1 DEF disk, Named, PathExists, Restorable, HubOf
  <1>5. \A p : HubOf(p)' = HubOf(p)
    BY <1>1 DEF disk, HubOf
  <1>6. Candidates(config.model_path)' = Candidates(config.model_path)
    BY <1>4
  <1>7. ASSUME step' \notin {"done", "failed"}, Known' PROVE QInv'
    BY <1>7 DEF QInv, Verdict
  <1>8. ASSUME NEW p \in SidecarPath, files[p] # NoFile
        PROVE  files[p] \in Documents /\ files[p] \in Document
    BY <1>0, <1>8, RestoreAssumption DEF RestoreTypeOK, Contents
  <1>9. ASSUME NEW p \in HubPath, files[p] # NoFile
        PROVE  files[p] \in HubConfig
    BY <1>0, <1>9, RestoreAssumption DEF RestoreTypeOK, Contents, SidecarPath, HubPath
  <1>11. CASE BeginRestore
    <2>1. CASE ~Validate(config) /\ Refuse
      BY <1>1, <2>1, QuietRefuse
    <2>2. CASE config.runtime_mode = "simulation" /\ step' = "done"
      <3>1. Known' /\ Verdict'
        BY <1>4, <2>2 DEF Known, Verdict
      <3> QED BY <3>1 DEF QInv
    <2>3. CASE step' = "exists"
      <3>1. Known'
        BY <2>3 DEF Known
      <3> QED BY <1>7, <2>3, <3>1
    <2> QED BY <1>11, <2>1, <2>2, <2>3 DEF BeginRestore
  <1>12. CASE QueryPath
    <2>1. tried = 0 /\ step = "exists"
      BY <1>0, <1>12 DEF QueryPath, At, Searching
    <2>2. CASE ~(PathExists /\ config.model_path # "mem") /\ Refuse
      <3>1. Named = "none"
        BY <2>2, NamedNone
      <3> QED BY <1>1, <2>2, <3>1, QuietRefuse DEF Restorable
    <2>3. CASE PathExists /\ config.model_path # "mem" /\ sidecar' # "none"
               /\ step' = "read" /\ sidecar' = NamedSidecar(config.model_path)
      <3> DEFINE path == NamedSidecar(config.model_path)
      <3>1. files[path] # NoFile
        <4>1. CASE config.model_path = "sidecar"
          BY <2>3, <4>1 DEF PathExists, NamedSidecar
        <4>2. CASE config.model_path = "nested_sidecar"
          BY <2>3, <4>2 DEF PathExists, NamedSidecar
        <4> QED BY <2>3, <4>1, <4>2, NamedSidecarOK
      <3>2. Candidates(config.model_path) = << path >>
        BY <2>3, NamedSidecarOK
      <3> HIDE DEF path
      <3>3. Named = path
        <4>1. /\ 1 \in 1 .. Len(Candidates(config.model_path))
              /\ files[Candidates(config.model_path)[1]] # NoFile
              /\ \A j \in 1 .. 1 - 1 : files[Candidates(config.model_path)[j]] = NoFile
          BY <3>1, <3>2
        <4>2. Named = Candidates(config.model_path)[1]
          BY <2>3, <4>1, NamedFirst
        <4> QED BY <3>2, <4>2
      <3>4. Known'
        BY <1>4, <2>3, <3>1, <3>3 DEF Known, path
      <3> QED BY <1>7, <2>3, <3>4
    <2>4. CASE PathExists /\ config.model_path # "mem"
               /\ step' = "resolve" /\ tried' = tried
      <3>1. \A i \in 1 .. tried' : FALSE
        BY <2>1, <2>4
      <3>2. Known'
        BY <1>4, <2>4, <3>1 DEF Known
      <3> QED BY <1>7, <2>4, <3>2
    <2> QED BY <1>12, <2>2, <2>3, <2>4 DEF QueryPath
  <1>13. CASE ResolveSidecar
    <2> DEFINE paths == Candidates(config.model_path)
    <2>1. /\ step = "resolve" /\ PathExists
          /\ config.model_path # "mem"
          /\ \A i \in 1 .. tried : files[paths[i]] = NoFile
      BY <1>3, <1>13 DEF Known, ResolveSidecar, At
    <2>2. Len(paths) \in 1 .. 2
      BY CandidatesOK
    <2>3. CASE tried = Len(paths) /\ Refuse
      <3>1. Named = "none"
        BY <2>1, <2>3, NamedNone
      <3> QED BY <1>1, <2>3, <3>1, QuietRefuse DEF Restorable
    <2>4. CASE /\ tried < Len(paths) /\ files[paths[tried + 1]] # NoFile
               /\ step' = "read" /\ sidecar' = paths[tried + 1]
      <3>1. tried + 1 \in 1 .. Len(paths) /\ 1 .. (tried + 1) - 1 = 1 .. tried
        BY <1>0, <2>2, <2>4
      <3>a. \A j \in 1 .. (tried + 1) - 1 : files[paths[j]] = NoFile
        BY <2>1, <3>1
      <3>2. Named = paths[tried + 1]
        BY <2>1, <2>4, <3>1, <3>a, NamedFirst, Zenon
      <3>3. Known'
        BY <1>4, <2>4, <3>2 DEF Known
      <3> QED BY <1>7, <2>4, <3>3
    <2>5. CASE /\ tried < Len(paths) /\ files[paths[tried + 1]] = NoFile
               /\ tried' = tried + 1 /\ step' = step
      <3>1. \A i \in 1 .. tried' : i \in 1 .. tried \/ i = tried + 1
        BY <1>0, <2>5
      <3>2. \A i \in 1 .. tried' : files[paths[i]] = NoFile
        BY <2>1, <2>5, <3>1
      <3> HIDE DEF paths
      <3>3. Known'
        BY <1>4, <2>1, <2>5, <3>2 DEF Known, paths
      <3> QED BY <1>7, <2>1, <2>5, <3>3
    <2> QED BY <1>13, <2>3, <2>4, <2>5 DEF ResolveSidecar
  <1>14. CASE ReadSidecar
    <2> DEFINE d == files[sidecar]
    <2>1. /\ step = "read" /\ sidecar \in SidecarPath /\ sidecar = Named
          /\ d # NoFile /\ tried = 0 /\ Validate(config)
          /\ config.runtime_mode = "live"
      BY <1>0, <1>3, <1>14 DEF Known, ReadSidecar, At, Holding, Searching
    <2>2. d \in Document
      BY <1>8, <2>1
    <2>3. CASE /\ ~(d.json /\ ValidateSchema(d) /\ RejectOutputWeights(d))
               /\ Refuse
      <3>1. ~Fit(config, d)
        BY <1>0, <2>1, <2>2, <2>3, CheckedIsFit DEF Checked
      <3>2. ~Restorable
        BY <2>1, <3>1 DEF Restorable
      <3> QED BY <1>1, <2>3, <3>2, QuietRefuse
    <2>4. CASE step' = "find_hub" /\ document' = d /\ UNCHANGED << tried, sidecar >>
      <3>1. \A i \in 1 .. tried' : FALSE
        BY <2>1, <2>4
      <3>2. Known'
        BY <1>4, <2>1, <2>4, <3>1 DEF Known
      <3> QED BY <1>7, <2>4, <3>2
    <2> QED BY <1>14, <2>1, <2>3, <2>4 DEF ReadSidecar
  <1>15. CASE FindHubConfig
    <2> DEFINE paths == HubCandidates(sidecar)
    <2>1. /\ step = "find_hub" /\ sidecar = Named /\ files[sidecar] # NoFile
          /\ sidecar \in SidecarPath /\ document = files[sidecar]
          /\ \A i \in 1 .. tried : files[paths[i]] = NoFile
          /\ UNCHANGED << sidecar, document >>
      BY <1>0, <1>3, <1>15 DEF Known, FindHubConfig, At, Holding
    <2>2. Len(paths) \in 1 .. 2
      BY HubCandidatesOK
    <2>3. CASE tried = Len(paths) /\ step' = "apply"
      <3>1. HubOf(sidecar) = NoFile
        BY <2>1, <2>3, HubMissing
      <3>2. HubOf(sidecar)' = NoFile
        BY <1>4, <2>1, <3>1 DEF HubOf
      <3>3. Known'
        BY <1>4, <2>1, <2>3, <3>2 DEF Known
      <3> QED BY <1>7, <2>3, <3>3
    <2>4. CASE /\ tried < Len(paths) /\ files[paths[tried + 1]] # NoFile
               /\ step' = "read_hub" /\ UNCHANGED tried
      <3> HIDE DEF paths
      <3>1. Known'
        BY <1>4, <2>1, <2>4 DEF Known, paths
      <3> QED BY <1>7, <2>4, <3>1
    <2>5. CASE /\ tried < Len(paths) /\ files[paths[tried + 1]] = NoFile
               /\ tried' = tried + 1 /\ UNCHANGED step
      <3>1. \A i \in 1 .. tried' : i \in 1 .. tried \/ i = tried + 1
        BY <1>0, <2>5
      <3>2. \A i \in 1 .. tried' : files[paths[i]] = NoFile
        BY <2>1, <2>5, <3>1
      <3> HIDE DEF paths
      <3>3. Known'
        BY <1>4, <2>1, <2>5, <3>2 DEF Known, paths
      <3> QED BY <1>7, <2>1, <2>5, <3>3
    <2> QED BY <1>15, <2>3, <2>4, <2>5 DEF FindHubConfig
  <1>16. CASE ReadHubConfig
    <2> DEFINE path == HubCandidates(sidecar)[tried + 1]
               h == files[path]
    <2>1. /\ step = "read_hub" /\ sidecar = Named /\ files[sidecar] # NoFile
          /\ sidecar \in SidecarPath /\ document = files[sidecar]
          /\ \A i \in 1 .. tried : files[HubCandidates(sidecar)[i]] = NoFile
          /\ h # NoFile /\ tried < Len(HubCandidates(sidecar))
          /\ Validate(config) /\ config.runtime_mode = "live"
      BY <1>0, <1>3, <1>16 DEF Known, ReadHubConfig, At, Holding, Searching
    <2>2. HubOf(sidecar) = h
      BY <1>0, <2>1, HubFound
    <2>3. path \in HubPath
      <3>1. tried + 1 \in 1 .. Len(HubCandidates(sidecar))
        BY <1>0, <2>1, HubCandidatesOK
      <3> QED BY <3>1, HubCandidatesOK
    <2>4. h \in HubConfig /\ document \in Document
      BY <1>8, <1>9, <2>1, <2>3
    <2> HIDE DEF h
    <2>5. CASE ~ValidateHubConfig(h, document) /\ Refuse
      <3>1. Fit(config, document) => ~Agrees(h, document)
        BY <1>0, <2>1, <2>4, <2>5, HubChecks
      <3>2. ~Restorable
        BY <2>1, <2>2, <3>1 DEF Restorable
      <3> QED BY <1>1, <2>5, <3>2, QuietRefuse
    <2>6. CASE /\ ValidateHubConfig(h, document) /\ step' = "apply"
               /\ UNCHANGED << sidecar, document >>
      <3>1. HubOf(sidecar)' = h
        BY <1>4, <2>2, <2>6 DEF HubOf
      <3>2. Known'
        BY <1>4, <2>1, <2>6, <3>1 DEF Known
      <3> QED BY <1>7, <2>6, <3>2
    <2> QED BY <1>16, <2>1, <2>5, <2>6 DEF ReadHubConfig, h
  <1>17. CASE ApplySidecar
    <2>1. /\ step = "apply" /\ sidecar = Named /\ sidecar \in SidecarPath
          /\ document = files[sidecar] /\ files[sidecar] # NoFile
          /\ HubOf(sidecar) = NoFile \/ ValidateHubConfig(HubOf(sidecar), document)
          /\ Validate(config) /\ config.runtime_mode = "live"
          /\ document.json /\ ValidateSchema(document) /\ RejectOutputWeights(document)
      BY <1>0, <1>3, <1>17 DEF Known, ApplySidecar, At, Holding
    <2>2. document \in Document
      BY <1>8, <2>1
    <2>3. CASE /\ ~(/\ ValidateIngressContract(config, document)
                    /\ ValidateFiniteParameters(document)
                    /\ ValidateNonblankWeights(document))
               /\ Refuse
      <3>1. ~Fit(config, document)
        BY <1>0, <2>1, <2>2, <2>3, CheckedIsFit DEF Checked
      <3>2. ~Restorable
        BY <2>1, <3>1 DEF Restorable
      <3> QED BY <1>1, <2>3, <3>2, QuietRefuse
    <2>4. CASE /\ ValidateIngressContract(config, document)
               /\ ValidateFiniteParameters(document)
               /\ ValidateNonblankWeights(document)
               /\ step' = "done" /\ restored' = Restored(config, document, sidecar)
      <3>1. Fit(config, document)
        BY <1>0, <2>1, <2>2, <2>4, CheckedIsFit DEF Checked
      <3>2. HubOf(sidecar) # NoFile => HubOf(sidecar) \in HubConfig
        <4>1. "inner" \in HubPath /\ "hub" \in HubPath
          BY DEF HubPath
        <4> QED BY <1>9, <4>1 DEF HubOf
      <3>3. HubOf(sidecar) = NoFile \/ Agrees(HubOf(sidecar), document)
        BY <1>0, <2>1, <2>2, <3>1, <3>2, HubChecks
      <3>4. Named # "none"
        BY <2>1 DEF SidecarPath
      <3>5. Restorable
        BY <2>1, <3>1, <3>3, <3>4 DEF Restorable
      <3>6. restored'.provenance.path = sidecar
        BY <2>4 DEF Restored, ProvenanceOf
      <3>7. Known' /\ Verdict'
        BY <1>4, <2>1, <2>4, <3>5, <3>6 DEF Known, Verdict
      <3> QED BY <3>7 DEF QInv
    <2> QED BY <1>17, <2>3, <2>4 DEF ApplySidecar
  <1>18. ~AccessFails /\ ~CandidateUnseen
    BY DEF AccessFails, CandidateUnseen, Quiet
  <1> QED
    BY <1>11, <1>12, <1>13, <1>14, <1>15, <1>16, <1>17, <1>18 DEF RestoreStep

(* If the files are left alone and every access works, live mode succeeds  *)
(* exactly when the file model_path stands for is fit and its hub          *)
(* configuration agrees, and restores that file: for every tree of files   *)
(* and every name the path may have in it.                                 *)
THEOREM QuietRestoreDecides == Spec => []QuietRestore
  <1>1. Init => QInv
    BY DEF Init, RestoreInit, QInv, Known, Verdict
  <1>2. RInv /\ QInv /\ [Next]_vars => QInv'
    <2> SUFFICES ASSUME RInv, QInv, [Next]_vars PROVE QInv'
      OBVIOUS
    <2>1. CASE UNCHANGED rvars
      BY <2>1 DEF QInv, Quiet, Known, Verdict, Restorable, Named, PathExists, HubOf,
                  rvars, disk, progress
    <2>2. CASE SupplyPair
      BY <2>2 DEF SupplyPair, QInv, Known, Verdict
    <2>3. ASSUME NEW p, NEW x, Rewrite(p, x) PROVE QInv'
      <3>1. writes' = writes + 1 /\ writes \in Nat
        BY <2>3, RestoreAssumption DEF Rewrite, RInv, RestoreTypeOK
      <3>2. writes' # 0
        BY <3>1
      <3> QED BY <3>2 DEF QInv, Quiet
    <2> QED BY <2>1, <2>2, <2>3, RestoreFrame, QuietKeeps
  <1>3. LInv => RInv
    BY DEF LInv
  <1>4. QInv => QuietRestore
    BY DEF QInv, Quiet, Verdict, Restorable, QuietRestore
  <1> QED BY <1>1, <1>2, <1>3, <1>4, LifecycleInvariant, PTL DEF Spec
=============================================================================
