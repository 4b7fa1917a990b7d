------------------------- MODULE KernelReadinessProofs -------------------------
(***************************************************************************)
(* Machine-checked proofs about KernelReadiness, for every value of its    *)
(* constants: type correctness, that readiness and capability profile      *)
(* agree, that further evidence never lowers either, and that an           *)
(* artifact's target decides what it is packaged as.                       *)
(***************************************************************************)
EXTENDS KernelReadiness, SequenceTheorems, TLAPS

\* A blueprint of the right shape, whose evidence and requirements have levels.
BlueprintTyped(bp) ==
    /\ bp = [name |-> bp.name, network |-> bp.network, evidence |-> bp.evidence,
             transitions |-> bp.transitions]
    /\ bp.network \in Networks
    /\ bp.evidence \subseteq Evidence
    /\ Required(bp) \subseteq Requirement

Levels(bp, feature) == {e.level : e \in Covering(bp, feature)}

-----------------------------------------------------------------------------
(* Evidence.                                                               *)

\* Of several levels one is the strongest.
LEMMA StrongestExists ==
    ASSUME NEW S, S \subseteq DOMAIN Rank, S # {}
    PROVE  \E l \in S : \A o \in S : Rank[l] >= Rank[o]
<1>1. DOMAIN Rank = {"Unknown", "ResearchSignal", "DocsSignal", "BranchCode", "MergedKip",
                     "MergedCode", "TestnetActivation", "MainnetPreActivation", "MainnetActivation"}
  BY DEF Rank
<1>2. /\ Rank["Unknown"] = 0 /\ Rank["ResearchSignal"] = 10 /\ Rank["DocsSignal"] = 20
      /\ Rank["BranchCode"] = 30 /\ Rank["MergedKip"] = 40 /\ Rank["MergedCode"] = 50
      /\ Rank["TestnetActivation"] = 60 /\ Rank["MainnetPreActivation"] = 70
      /\ Rank["MainnetActivation"] = 100
  BY DEF Rank
<1> QED
  BY <1>1, <1>2

\* Ranks are numbers.
LEMMA RankType == Rank \in [DOMAIN Rank -> Nat]
BY DEF Rank

\* best_evidence finds a record whenever there is one, and none is stronger.
LEMMA BestLevelIsBest ==
    ASSUME NEW bp, BlueprintTyped(bp), NEW feature
    PROVE  /\ Levels(bp, feature) \subseteq DOMAIN Rank
           /\ BestLevel(bp, feature) = None <=> Levels(bp, feature) = {}
           /\ Levels(bp, feature) # {} =>
                /\ BestLevel(bp, feature) \in Levels(bp, feature)
                /\ \A o \in Levels(bp, feature) : Rank[BestLevel(bp, feature)] >= Rank[o]
<1>1. Levels(bp, feature) \subseteq DOMAIN Rank
  BY DEF Levels, Covering, BlueprintTyped, Evidence
<1>2. CASE Levels(bp, feature) = {}
  BY <1>1, <1>2 DEF BestLevel, Levels
<1>3. CASE Levels(bp, feature) # {}
  <2>1. \E l \in Levels(bp, feature) : \A o \in Levels(bp, feature) : Rank[l] >= Rank[o]
    BY <1>1, <1>3, StrongestExists
  <2>2. BestLevel(bp, feature) =
            CHOOSE l \in Levels(bp, feature) : \A o \in Levels(bp, feature) : Rank[l] >= Rank[o]
    BY <1>3 DEF BestLevel, Levels
  <2>3. /\ BestLevel(bp, feature) \in Levels(bp, feature)
        /\ \A o \in Levels(bp, feature) : Rank[BestLevel(bp, feature)] >= Rank[o]
    BY <2>1, <2>2
  <2> QED
    BY <1>1, <1>3, <2>3, OfferedAssumption
<1> QED
  BY <1>2, <1>3

\* The second blueprint is the first with more evidence.
Strengthens(bp2, bp1) ==
    /\ BlueprintTyped(bp1) /\ BlueprintTyped(bp2)
    /\ bp2.network = bp1.network /\ bp2.transitions = bp1.transitions
    /\ bp1.evidence \subseteq bp2.evidence

\* With more evidence the best is at least as good.
LEMMA BestLevelRises ==
    ASSUME NEW bp1, NEW bp2, Strengthens(bp2, bp1), NEW feature, BestLevel(bp1, feature) # None
    PROVE  /\ BestLevel(bp2, feature) # None
           /\ BestLevel(bp1, feature) \in DOMAIN Rank
           /\ BestLevel(bp2, feature) \in DOMAIN Rank
           /\ Rank[BestLevel(bp2, feature)] >= Rank[BestLevel(bp1, feature)]
<1>1. Levels(bp1, feature) \subseteq Levels(bp2, feature)
  BY DEF Levels, Covering, Strengthens
<1>2. BlueprintTyped(bp1) /\ BlueprintTyped(bp2)
  BY DEF Strengthens
<1> QED
  BY <1>1, <1>2, BestLevelIsBest

\* A requirement that is satisfied stays so, and none falls back a level.
LEMMA RequirementRises ==
    ASSUME NEW bp1, NEW bp2, Strengthens(bp2, bp1), NEW r \in Requirement
    PROVE  /\ Satisfied(bp1, r) => Satisfied(bp2, r)
           /\ Order[RequirementLevel(bp2, r)] >= Order[RequirementLevel(bp1, r)]
<1>1. r.minimum \in DOMAIN Rank
  BY DEF Requirement
<1>2. Satisfied(bp1, r) => Satisfied(bp2, r)
  BY <1>1, BestLevelRises, RankType DEF Satisfied
<1>3. BestLevel(bp2, r.feature) = None => BestLevel(bp1, r.feature) = None
  BY BestLevelRises
<1> QED
  BY <1>2, <1>3 DEF RequirementLevel, Order, Satisfied

-----------------------------------------------------------------------------
(* Reports.                                                                *)

\* A requirement has one of three levels.
LEMMA RequirementLevelType ==
    ASSUME NEW bp, NEW r
    PROVE  RequirementLevel(bp, r) \in {"blocked", "preview", "verified"}
BY DEF RequirementLevel

\* So have a report and each capability.
LEMMA ReportTypes ==
    ASSUME NEW bp
    PROVE  /\ ReadinessLevel(bp) \in DOMAIN Order
           /\ Capabilities(bp) \in [{r.feature : r \in Required(bp)} -> DOMAIN Order]
<1>1. ReadinessLevel(bp) \in DOMAIN Order
  BY DEF ReadinessLevel, Order
<1>2. ASSUME NEW feature PROVE CapabilityLevel(bp, feature) \in DOMAIN Order
  BY DEF CapabilityLevel, Order
<1> QED
  BY <1>1, <1>2 DEF Capabilities

\* Every feature is verified exactly when every requirement is satisfied.
LEMMA VerifiedWhenSatisfied ==
    ASSUME NEW bp
    PROVE  (\A f \in DOMAIN Capabilities(bp) : Capabilities(bp)[f] = "verified")
                <=> \A r \in Required(bp) : Satisfied(bp, r)
<1>1. \A r : Satisfied(bp, r) <=> RequirementLevel(bp, r) = "verified"
  BY DEF RequirementLevel, Satisfied
<1>2. ASSUME NEW r \in Required(bp), CapabilityLevel(bp, r.feature) = "verified"
      PROVE  RequirementLevel(bp, r) = "verified"
  <2> DEFINE levels == {RequirementLevel(bp, q) : q \in {p \in Required(bp) : p.feature = r.feature}}
  <2>1. RequirementLevel(bp, r) \in levels
    OBVIOUS
  <2>2. "blocked" \notin levels /\ "preview" \notin levels
    BY <1>2 DEF CapabilityLevel
  <2> QED
    BY <2>1, <2>2, RequirementLevelType
<1>3. ASSUME NEW f, \A r \in Required(bp) : RequirementLevel(bp, r) = "verified"
      PROVE  CapabilityLevel(bp, f) = "verified"
  BY <1>3 DEF CapabilityLevel
<1>4. DOMAIN Capabilities(bp) = {r.feature : r \in Required(bp)}
  BY DEF Capabilities
<1>5. \A f \in DOMAIN Capabilities(bp) : Capabilities(bp)[f] = CapabilityLevel(bp, f)
  BY DEF Capabilities
<1> QED
  BY <1>1, <1>2, <1>3, <1>4, <1>5

\* With more evidence neither the report nor the profile falls back.
LEMMA ReportRises ==
    ASSUME NEW bp1, NEW bp2, Strengthens(bp2, bp1)
    PROVE  /\ Order[ReadinessLevel(bp2)] >= Order[ReadinessLevel(bp1)]
           /\ \A f \in DOMAIN Capabilities(bp1) :
                Order[Capabilities(bp2)[f]] >= Order[Capabilities(bp1)[f]]
<1>1. Required(bp2) = Required(bp1) /\ Required(bp1) \subseteq Requirement
  BY DEF Required, Strengthens, BlueprintTyped
<1>2. MainnetUnproven(bp2) => MainnetUnproven(bp1)
  BY DEF MainnetUnproven, Strengthens
<1>3. IsReady(bp1) => IsReady(bp2)
  BY <1>1, <1>2, RequirementRises DEF IsReady
<1>4. Order[ReadinessLevel(bp2)] >= Order[ReadinessLevel(bp1)]
  BY <1>3 DEF ReadinessLevel, Order, Strengthens
<1>5. ASSUME NEW f PROVE Order[CapabilityLevel(bp2, f)] >= Order[CapabilityLevel(bp1, f)]
  <2> DEFINE about == {r \in Required(bp1) : r.feature = f}
  <2> DEFINE before == {RequirementLevel(bp1, r) : r \in about}
  <2> DEFINE after == {RequirementLevel(bp2, r) : r \in about}
  <2>1. ASSUME NEW r \in about
        PROVE  Order[RequirementLevel(bp2, r)] >= Order[RequirementLevel(bp1, r)]
    BY <1>1, RequirementRises
  <2>2. "blocked" \in after => "blocked" \in before
    BY <2>1, RequirementLevelType DEF Order
  <2>3. "preview" \in after => "blocked" \in before \/ "preview" \in before
    BY <2>1, RequirementLevelType DEF Order
  <2>4. /\ CapabilityLevel(bp1, f) = IF "blocked" \in before THEN "blocked"
                                     ELSE IF "preview" \in before THEN "preview" ELSE "verified"
        /\ CapabilityLevel(bp2, f) = IF "blocked" \in after THEN "blocked"
                                     ELSE IF "preview" \in after THEN "preview" ELSE "verified"
    BY <1>1 DEF CapabilityLevel
  <2> HIDE DEF before, after
  <2> QED
    BY <2>2, <2>3, <2>4 DEF Order
<1>6. /\ DOMAIN Capabilities(bp1) = DOMAIN Capabilities(bp2)
      /\ \A f \in DOMAIN Capabilities(bp1) :
            /\ Capabilities(bp1)[f] = CapabilityLevel(bp1, f)
            /\ Capabilities(bp2)[f] = CapabilityLevel(bp2, f)
  BY <1>1 DEF Capabilities
<1> QED
  BY <1>4, <1>5, <1>6

-----------------------------------------------------------------------------
(* The state machine.                                                      *)

Fees == {None} \cup 0 .. U64Max

\* The last package is one of a blueprint, made by Package.
PackageMade ==
    package # None =>
        /\ \E fee \in Fees : package = Package(package.blueprint, fee)
        /\ BlueprintTyped(package.blueprint)

\* What a builder has collected so far came from the transitions offered.
BuilderTyped == stage = "building" => blueprint.transitions \in Seq(TransitionsOffered)

KernelInv ==
    /\ stage \in {"start", "building", "built", "refused"}
    /\ origin \in Artifacts \cup {None}
    /\ BlueprintTyped(blueprint)
    /\ BuilderTyped
    /\ PackageMade

\* The bundled evidence is evidence.
LEMMA BundledEvidenceType == BundledEvidence \subseteq Evidence
BY DEF BundledEvidence, Record, Evidence, Networks, Rank, Upstream, Features

\* The fee is None on overflow and fits 64 bits otherwise.
LEMMA FeeFits ==
    ASSUME NEW grams \in 0 .. U64Max, NEW bytes \in 0 .. U64Max
    PROVE  MinimumStandardFee(grams, bytes) \in Fees
<1> DEFINE units == IF grams > 2 * bytes THEN grams ELSE 2 * bytes
<1>1. U64Max \in Nat /\ SompiPerUnit \in Nat
  BY FeeAssumption
<1>2. units \in Nat
  BY <1>1
<1>3. units * SompiPerUnit \in Nat
  BY <1>1, <1>2
<1>4. MinimumStandardFee(grams, bytes) =
        IF 2 * bytes > U64Max \/ units * SompiPerUnit > U64Max THEN None ELSE units * SompiPerUnit
  BY DEF MinimumStandardFee
<1> HIDE DEF units
<1> QED
  BY <1>1, <1>3, <1>4 DEF Fees

\* Whatever an artifact says, its blueprint is well formed.
LEMMA CompiledBlueprintType ==
    ASSUME NEW a \in Artifacts
    PROVE  BlueprintTyped(CompiledBlueprint(a))
<1> DEFINE bp == CompiledBlueprint(a)
<1>1. NetworkFromTarget(a.target) \in Networks
  BY DEF NetworkFromTarget, Networks
<1>2. Local(a) \subseteq Features
  BY DEF Local, Features
<1>3. bp.evidence \subseteq Evidence
  BY <1>1, <1>2, BundledEvidenceType DEF CompiledBlueprint, Record, Evidence, Rank
<1>4. \A contract, spend : CompiledTransition(a, contract, spend).requirements \subseteq Requirement
  <2> TAKE contract, spend
  <2>1. CompiledTransition(a, contract, spend).requirements = [feature : Local(a), minimum : {"BranchCode"}]
    BY Zenon DEF CompiledTransition
  <2>2. "BranchCode" \in DOMAIN Rank
    BY DEF Rank
  <2>3. [feature : Local(a), minimum : {"BranchCode"}] \subseteq [feature : Features, minimum : DOMAIN Rank]
    BY <1>2, <2>2
  <2> QED
    BY <2>1, <2>3 DEF Requirement
<1>5. \A i \in DOMAIN bp.transitions : bp.transitions[i].requirements \subseteq Requirement
  BY <1>4, Zenon DEF CompiledBlueprint, CompiledTransitions
<1> QED
  BY <1>1, <1>3, <1>5 DEF BlueprintTyped, Required, CompiledBlueprint

\* A package is of the blueprint it was made of.
LEMMA PackageType ==
    ASSUME NEW bp, BlueprintTyped(bp), NEW fee \in Fees, NEW p, p = Package(bp, fee)
    PROVE  /\ \E f \in Fees : p = Package(p.blueprint, f)
           /\ BlueprintTyped(p.blueprint)
<1>1. p.blueprint = bp
  BY DEF Package
<1> QED
  BY <1>1

\* A blueprint without transitions requires nothing.
LEMMA EmptyBlueprintType ==
    ASSUME NEW name, NEW network \in Networks, NEW evidence \in SUBSET Evidence
    PROVE  BlueprintTyped([name |-> name, network |-> network, evidence |-> evidence,
                           transitions |-> << >>])
<1> DEFINE bp == [name |-> name, network |-> network, evidence |-> evidence, transitions |-> << >>]
<1>1. DOMAIN bp.transitions = {}
  <2>1. bp.transitions = << >>
    OBVIOUS
  <2>2. DOMAIN << >> = {}
    OBVIOUS
  <2> QED
    BY <2>1, <2>2
<1>2. Required(bp) = {}
  BY <1>1 DEF Required
<1> QED
  BY <1>2 DEF BlueprintTyped

\* The inductive invariant holds.
LEMMA Inductive == Spec => []KernelInv
<1>1. Init => KernelInv
  <2> SUFFICES ASSUME Init PROVE KernelInv
    OBVIOUS
  <2>1. BlueprintTyped(blueprint)
    BY EmptyBlueprintType DEF Init, EmptyBlueprint, Networks
  <2> QED
    BY <2>1 DEF Init, KernelInv, BuilderTyped, PackageMade
<1>2. KernelInv /\ [Next]_vars => KernelInv'
  <2> SUFFICES ASSUME KernelInv, [Next]_vars PROVE KernelInv'
    OBVIOUS
  <2> USE DEF KernelInv
  <2>1. ASSUME NEW a \in Artifacts, NEW grams \in Grams, NEW bytes \in Bytes \cup {None},
               PackageCompiled(a, grams, bytes)
        PROVE  KernelInv'
    <3> DEFINE bp == CompiledBlueprint(a)
               size == IF bytes = None THEN a.size ELSE bytes
               fee == MinimumStandardFee(grams, size)
    <3>1. BlueprintTyped(bp)
      BY CompiledBlueprintType
    <3>2. fee \in Fees
      BY FeeAssumption, FeeFits
    <3>3. stage' \in {"built", "refused"} /\ origin' = a
      BY <2>1 DEF PackageCompiled
    <3>4. \/ UNCHANGED <<blueprint, package>>
          \/ blueprint' = bp /\ package' = Package(bp, fee)
      BY <2>1 DEF PackageCompiled
    <3>5. PackageMade'
      BY <3>1, <3>2, <3>4, PackageType DEF PackageMade
    <3>6. BlueprintTyped(blueprint')
      BY <3>1, <3>4
    <3> QED
      BY <3>3, <3>5, <3>6 DEF BuilderTyped
  <2>2. ASSUME NEW network \in Networks, NEW evidence \in {{}, BundledEvidence},
               NEW name \in {"", "vault"}, DefineContract(name, network, evidence)
        PROVE  KernelInv'
    <3>1. blueprint' = [name |-> name, network |-> network, evidence |-> evidence, transitions |-> << >>]
      BY <2>2 DEF DefineContract, EmptyBlueprint
    <3>2. BlueprintTyped(blueprint')
      BY <3>1, BundledEvidenceType, EmptyBlueprintType
    <3>3. blueprint'.transitions \in Seq(TransitionsOffered)
      <4>1. blueprint'.transitions = << >>
        BY <3>1
      <4>2. << >> \in Seq(TransitionsOffered)
        BY EmptySeq
      <4> QED
        BY <4>1, <4>2
    <3>4. stage' = "building" /\ UNCHANGED <<origin, package>>
      BY <2>2 DEF DefineContract
    <3> QED
      BY <3>2, <3>3, <3>4 DEF BuilderTyped, PackageMade
  <2>3. ASSUME NEW t \in TransitionsOffered, AddTransition(t) PROVE KernelInv'
    <3>1. blueprint.transitions \in Seq(TransitionsOffered)
      BY <2>3 DEF AddTransition, BuilderTyped
    <3>2. /\ blueprint' = [name |-> blueprint.name, network |-> blueprint.network,
                           evidence |-> blueprint.evidence,
                           transitions |-> Append(blueprint.transitions, t)]
      BY <2>3 DEF AddTransition, BlueprintTyped
    <3>3. blueprint'.transitions \in Seq(TransitionsOffered)
      BY <3>1, <3>2
    <3>4. \A i \in DOMAIN blueprint'.transitions : blueprint'.transitions[i] \in TransitionsOffered
      BY <3>3
    <3>5. Required(blueprint') \subseteq Requirement
      BY <3>4, OfferedAssumption DEF Required
    <3>6. BlueprintTyped(blueprint')
      BY <3>2, <3>5 DEF BlueprintTyped
    <3> QED
      BY <2>3, <3>3, <3>6 DEF AddTransition, BuilderTyped, PackageMade
  <2>4. CASE Build
    BY <2>4 DEF Build, BuilderTyped, PackageMade
  <2>5. ASSUME NEW e \in EvidenceOffered, AddEvidence(e) PROVE KernelInv'
    <3>1. blueprint' = [name |-> blueprint.name, network |-> blueprint.network,
                        evidence |-> blueprint.evidence \cup {e},
                        transitions |-> blueprint.transitions]
      BY <2>5 DEF AddEvidence, BlueprintTyped
    <3>2. BlueprintTyped(blueprint')
      BY <3>1, OfferedAssumption DEF BlueprintTyped, Required
    <3> QED
      BY <2>5, <3>1, <3>2 DEF AddEvidence, BuilderTyped, PackageMade
  <2>6. ASSUME NEW network \in Networks, WithNetwork(network) PROVE KernelInv'
    <3>1. blueprint' = [name |-> blueprint.name, network |-> network,
                        evidence |-> blueprint.evidence, transitions |-> blueprint.transitions]
      BY <2>6 DEF WithNetwork, BlueprintTyped
    <3>2. BlueprintTyped(blueprint')
      BY <3>1 DEF BlueprintTyped, Required
    <3> QED
      BY <2>6, <3>1, <3>2 DEF WithNetwork, BuilderTyped, PackageMade
  <2>7. CASE PackageBlueprint
    <3>1. package' = Package(blueprint, None) /\ stage = "built" /\ UNCHANGED <<stage, origin, blueprint>>
      BY <2>7 DEF PackageBlueprint
    <3>2. None \in Fees
      BY DEF Fees
    <3>3. PackageMade'
      <4>1. BlueprintTyped(blueprint)
        OBVIOUS
      <4>2. package'.blueprint = blueprint
        BY <3>1 DEF Package
      <4> QED
        BY <3>1, <3>2, <4>1, <4>2 DEF PackageMade
    <3> QED
      BY <3>1, <3>3 DEF BuilderTyped
  <2>8. CASE UNCHANGED vars
    BY <2>8 DEF vars, BuilderTyped, PackageMade
  <2> QED
    BY <2>1, <2>2, <2>3, <2>4, <2>5, <2>6, <2>7, <2>8 DEF Next
<1> QED
  BY <1>1, <1>2, PTL DEF Spec

-----------------------------------------------------------------------------
(* Theorems.                                                               *)

\* Every reachable blueprint and package is well typed, and every fee fits 64 bits.
THEOREM TypeCorrect == Spec => []TypeOK
<1>1. KernelInv => TypeOK
  <2> SUFFICES ASSUME KernelInv PROVE TypeOK
    OBVIOUS
  <2>1. ASSUME package # None
        PROVE  /\ package.ready \in BOOLEAN /\ package.level \in DOMAIN Order
               /\ package.capabilities \in
                    [{r.feature : r \in Required(package.blueprint)} -> DOMAIN Order]
               /\ DOMAIN package.previews = DOMAIN package.blueprint.transitions
               /\ package.fee = None \/ package.fee \in 0 .. U64Max
    <3> DEFINE bp == package.blueprint
    <3>1. PICK fee \in Fees : package = Package(bp, fee)
      BY <2>1 DEF KernelInv, PackageMade
    <3>2. /\ package.ready = IsReady(bp) /\ package.level = ReadinessLevel(bp)
          /\ package.capabilities = Capabilities(bp) /\ package.fee = fee
          /\ package.previews =
                [i \in DOMAIN bp.transitions |-> PreviewTransition(bp, bp.transitions[i].name)]
      <4> HIDE DEF bp
      <4> QED
        BY <3>1 DEF Package
    <3>3. IsReady(bp) \in BOOLEAN
      BY DEF IsReady
    <3> QED
      BY <3>2, <3>3, ReportTypes DEF Fees
  <2> QED
    BY <2>1 DEF KernelInv, BlueprintTyped, TypeOK
<1> QED
  BY <1>1, Inductive, PTL

\* A package is ready exactly when all its features are verified, the activation of
\* mainnet aside: readiness_report and capability_features never contradict each other.
THEOREM CapabilitiesAgreeHolds == Spec => []CapabilitiesAgree
<1>1. KernelInv => CapabilitiesAgree
  <2> SUFFICES ASSUME KernelInv, package # None
               PROVE  LET verified == \A f \in DOMAIN package.capabilities :
                                            package.capabilities[f] = "verified"
                      IN  /\ package.ready => verified
                          /\ verified => package.ready \/ MainnetUnproven(package.blueprint)
    BY DEF CapabilitiesAgree
  <2> DEFINE bp == package.blueprint
  <2>1. PICK fee \in Fees : package = Package(bp, fee)
    BY DEF KernelInv, PackageMade
  <2> HIDE DEF bp
  <2>2. package.ready = IsReady(bp) /\ package.capabilities = Capabilities(bp)
    BY <2>1 DEF Package
  <2>3. IsReady(bp) <=> ~MainnetUnproven(bp) /\ \A r \in Required(bp) : Satisfied(bp, r)
    BY DEF IsReady
  <2> QED
    BY <2>2, <2>3, VerifiedWhenSatisfied DEF bp
<1> QED
  BY <1>1, Inductive, PTL

\* An artifact is the evidence of all its transitions require.
LEMMA CompiledIsSatisfied ==
    ASSUME NEW a \in Artifacts, NEW r \in Required(CompiledBlueprint(a))
    PROVE  Satisfied(CompiledBlueprint(a), r)
<1> DEFINE bp == CompiledBlueprint(a)
           own == Record(NetworkFromTarget(a.target), "BranchCode", Local(a))
<1>1. bp.network = NetworkFromTarget(a.target) /\ own \in bp.evidence /\ BlueprintTyped(bp)
  BY CompiledBlueprintType DEF CompiledBlueprint
<1>2. PICK i \in DOMAIN bp.transitions : r \in bp.transitions[i].requirements
  BY DEF Required
<1>3. r.feature \in Local(a) /\ r.minimum = "BranchCode"
  <2>1. \A contract, spend :
           CompiledTransition(a, contract, spend).requirements = [feature : Local(a), minimum : {"BranchCode"}]
    BY Zenon DEF CompiledTransition
  <2>2. bp.transitions[i].requirements = [feature : Local(a), minimum : {"BranchCode"}]
    BY <1>2, <2>1, Zenon DEF CompiledBlueprint, CompiledTransitions
  <2> QED
    BY <1>2, <2>2
<1>4. own.level = "BranchCode" /\ own.network = bp.network /\ own.features = Local(a)
  BY <1>1 DEF Record
<1> HIDE DEF bp, own
<1>5. own \in Covering(bp, r.feature)
  BY <1>1, <1>3, <1>4 DEF Covering
<1>6. "BranchCode" \in Levels(bp, r.feature)
  BY <1>4, <1>5 DEF Levels
<1>7. BestLevel(bp, r.feature) # None /\ Rank[BestLevel(bp, r.feature)] >= Rank["BranchCode"]
  BY <1>1, <1>6, BestLevelIsBest
<1> QED
  BY <1>3, <1>7 DEF Satisfied, bp

\* Nothing that is bundled is a mainnet activation.
LEMMA CompiledMainnet ==
    ASSUME NEW a \in Artifacts
    PROVE  MainnetUnproven(CompiledBlueprint(a)) <=> a.target = "future-mainnet"
<1>1. \A e \in CompiledBlueprint(a).evidence : e.level # "MainnetActivation"
  BY DEF CompiledBlueprint, BundledEvidence, Record
<1>2. CompiledBlueprint(a).network = NetworkFromTarget(a.target)
  BY DEF CompiledBlueprint
<1>3. NetworkFromTarget(a.target) = "Mainnet" <=> a.target = "future-mainnet"
  BY TargetAssumption DEF NetworkFromTarget, Targets
<1> QED
  BY <1>1, <1>2, <1>3 DEF MainnetUnproven

\* What an artifact is packaged as follows from its target alone, whatever contracts
\* it has and whatever they need: network_from_target and the records bundled decide.
THEOREM PostureByTargetHolds == Spec => []PostureByTarget
<1>1. ASSUME NEW a \in Artifacts
      PROVE  ReadinessLevel(CompiledBlueprint(a)) =
                CASE a.target = "toccata-preview" -> "preview"
                  [] a.target = "future-mainnet"  -> "blocked"
                  [] OTHER                        -> "verified"
  <2>1. IsReady(CompiledBlueprint(a)) <=> a.target # "future-mainnet"
    BY CompiledIsSatisfied, CompiledMainnet DEF IsReady
  <2>2. CompiledBlueprint(a).network = "Unknown" <=> a.target = "toccata-preview"
    <3>1. CompiledBlueprint(a).network = NetworkFromTarget(a.target)
      BY DEF CompiledBlueprint
    <3> QED
      BY <3>1, TargetAssumption DEF NetworkFromTarget, Targets
  <2> QED
    BY <2>1, <2>2 DEF ReadinessLevel
<1>2. ASSUME NEW p, NEW bp, NEW fee, p = Package(bp, fee)
      PROVE  p.level = ReadinessLevel(bp)
  BY <1>2 DEF Package
<1>3. KernelInv => PostureByTarget
  <2> SUFFICES ASSUME KernelInv, package # None, origin # None,
                      package.blueprint = CompiledBlueprint(origin)
               PROVE  package.level = CASE origin.target = "toccata-preview" -> "preview"
                                        [] origin.target = "future-mainnet"  -> "blocked"
                                        [] OTHER                             -> "verified"
    BY DEF PostureByTarget
  <2>1. package.level = ReadinessLevel(package.blueprint)
    BY <1>2 DEF KernelInv, PackageMade
  <2>2. origin \in Artifacts
    BY DEF KernelInv
  <2> QED
    BY <1>1, <2>1, <2>2
<1> QED
  BY <1>3, Inductive, PTL

\* Packaging again with more evidence, network and transitions being the same, lowers
\* neither the readiness level nor any capability.
THEOREM EvidenceNeverHurtsHolds == Spec => EvidenceNeverHurts
<1> DEFINE Rises ==
      (/\ package # None /\ package' # None
       /\ package'.blueprint.network = package.blueprint.network
       /\ package'.blueprint.transitions = package.blueprint.transitions
       /\ package.blueprint.evidence \subseteq package'.blueprint.evidence)
      => /\ Order[package'.level] >= Order[package.level]
         /\ \A f \in DOMAIN package.capabilities :
               Order[package'.capabilities[f]] >= Order[package.capabilities[f]]
<1>1. ASSUME NEW p, NEW bp, NEW fee, p = Package(bp, fee)
      PROVE  p.level = ReadinessLevel(bp) /\ p.capabilities = Capabilities(bp)
  BY <1>1 DEF Package
<1>2. KernelInv /\ KernelInv' => Rises
  <2> SUFFICES ASSUME KernelInv, KernelInv', package # None, package' # None,
                      package'.blueprint.network = package.blueprint.network,
                      package'.blueprint.transitions = package.blueprint.transitions,
                      package.blueprint.evidence \subseteq package'.blueprint.evidence
               PROVE  /\ Order[package'.level] >= Order[package.level]
                      /\ \A f \in DOMAIN package.capabilities :
                            Order[package'.capabilities[f]] >= Order[package.capabilities[f]]
    OBVIOUS
  <2>1. BlueprintTyped(package.blueprint) /\ BlueprintTyped(package'.blueprint)
    BY DEF KernelInv, PackageMade
  <2>2. Strengthens(package'.blueprint, package.blueprint)
    BY <2>1 DEF Strengthens
  <2>3. PICK fee \in Fees : package = Package(package.blueprint, fee)
    BY DEF KernelInv, PackageMade
  <2>4. PICK fee2 \in Fees' : package' = Package(package'.blueprint, fee2)
    BY DEF KernelInv, PackageMade
  <2> QED
    BY <1>1, <2>2, <2>3, <2>4, ReportRises
<1>3. KernelInv /\ KernelInv' => [Rises]_vars
  BY <1>2
<1> QED
  BY <1>3, Inductive, PTL DEF EvidenceNeverHurts

=============================================================================
