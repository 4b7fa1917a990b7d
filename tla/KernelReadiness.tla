---------------------------- MODULE KernelReadiness ----------------------------
(***************************************************************************)
(* The programmability kernel (kernel/src/lib.rs) and the SDK's packaging  *)
(* of compiled artifacts (sdk/src/lib.rs).  A blueprint says what a        *)
(* contract's transitions need, with evidence of what a network supports;  *)
(* a package is what wallets and builders get: a readiness level, a        *)
(* capability profile, previews and a fee.  A blueprint's fields are       *)
(* public, so it may be changed and packaged again.                        *)
(*                                                                         *)
(* Evidence is a set: of two records of one level only the label differs.  *)
(***************************************************************************)
EXTENDS Integers, Sequences, FiniteSets

CONSTANTS Artifacts,        \* compiled artifacts: [target, kips, size, fileName, contracts]
          EvidenceOffered,  \* records a caller may add
          TransitionsOffered,
          Grams, Bytes,     \* what a caller may estimate the fee from
          SompiPerUnit, U64Max,
          MaxTransitions, MaxEvidence,  \* bounds on what callers add
          None

ASSUME FeeAssumption ==
    /\ SompiPerUnit \in Nat \ {0} /\ U64Max \in Nat
    /\ Grams \subseteq 0 .. U64Max /\ Bytes \subseteq 0 .. U64Max /\ {a.size : a \in Artifacts} \subseteq 0 .. U64Max

\* What artifacts are compiled for.
Targets == {"verified-tn12", "tn10-toccata", "toccata-preview", "future-mainnet"}

ASSUME TargetAssumption == {a.target : a \in Artifacts} \subseteq Targets

Networks == {"Mainnet", "Tn10", "Tn12", "Simnet", "Devnet", "Unknown"}

Features == {"BaseScript", "TransactionIntrospection", "CovenantIds", "SequencingCommitments",
             "ZkVerification", "FeePolicy", "WalletPreview", "IndexerLineage"}

Rank == [Unknown |-> 0, ResearchSignal |-> 10, DocsSignal |-> 20, BranchCode |-> 30,
         MergedKip |-> 40, MergedCode |-> 50, TestnetActivation |-> 60,
         MainnetPreActivation |-> 70, MainnetActivation |-> 100]

Evidence    == [network : Networks, level : DOMAIN Rank, features : SUBSET Features]
Requirement == [feature : Features, minimum : DOMAIN Rank]

ASSUME OfferedAssumption ==
    /\ EvidenceOffered \subseteq Evidence
    /\ \A t \in TransitionsOffered : t.requirements \subseteq Requirement
    /\ None \notin DOMAIN Rank

VARIABLES stage,        \* "start", "building", "built" or "refused"
          origin,       \* the artifact the blueprint was made from, or None
          blueprint,    \* [name, network, evidence, transitions]
          package       \* the last package made, or None

vars == <<stage, origin, blueprint, package>>

Upstream == {"TransactionIntrospection", "CovenantIds", "SequencingCommitments", "ZkVerification"}

Record(network, level, features) == [network |-> network, level |-> level, features |-> features]

\* current_toccata_evidence.
BundledEvidence ==
    {Record("Mainnet", "MainnetPreActivation", Upstream \cup {"FeePolicy"}),
     Record("Mainnet", "MainnetPreActivation", {"FeePolicy"}),
     Record("Unknown", "MergedCode", Upstream),
     Record("Tn10", "TestnetActivation", {"ZkVerification", "SequencingCommitments"}),
     Record("Tn10", "TestnetActivation", {"TransactionIntrospection"}),
     Record("Tn10", "TestnetActivation", {"CovenantIds"}),
     Record("Tn10", "TestnetActivation", {"SequencingCommitments"}),
     Record("Unknown", "BranchCode", {"WalletPreview", "IndexerLineage"})}

-----------------------------------------------------------------------------
(* What a package says.                                                    *)

Covering(bp, feature) ==
    {e \in bp.evidence : feature \in e.features /\ e.network \in {"Unknown", bp.network}}

\* Mutant: the weakest record decides.
BestLevel_Slip(bp, feature) ==
    LET levels == {e.level : e \in Covering(bp, feature)}
    IN  IF levels = {} THEN None ELSE CHOOSE l \in levels : \A o \in levels : Rank[o] >= Rank[l]

\* best_evidence: the strongest record about the feature on the blueprint's network.
BestLevel(bp, feature) ==
    LET levels == {e.level : e \in Covering(bp, feature)}
    IN  IF levels = {} THEN None ELSE CHOOSE l \in levels : \A o \in levels : Rank[l] >= Rank[o]

Satisfied(bp, r) ==
    BestLevel(bp, r.feature) # None /\ Rank[BestLevel(bp, r.feature)] >= Rank[r.minimum]

RequirementLevel(bp, r) ==
    CASE Satisfied(bp, r)                -> "verified"
      [] BestLevel(bp, r.feature) = None -> "blocked"
      [] OTHER                           -> "preview"

Required(bp) == UNION {bp.transitions[i].requirements : i \in DOMAIN bp.transitions}

\* Any record of an activation opens the gate, whatever feature it is about.
MainnetUnproven(bp) ==
    bp.network = "Mainnet" /\ \A e \in bp.evidence : e.level # "MainnetActivation"

IsReady(bp) == ~MainnetUnproven(bp) /\ \A r \in Required(bp) : Satisfied(bp, r)

ReadinessLevel(bp) ==
    IF ~IsReady(bp) THEN "blocked" ELSE IF bp.network = "Unknown" THEN "preview" ELSE "verified"

\* Mutant: one satisfied requirement vouches for the feature.
CapabilityLevel_Slip(bp, feature) ==
    LET levels == {RequirementLevel(bp, r) : r \in {q \in Required(bp) : q.feature = feature}}
    IN  IF "verified" \in levels THEN "verified" ELSE IF "preview" \in levels THEN "preview" ELSE "blocked"

\* A feature is as far as the least of the requirements for it.
CapabilityLevel(bp, feature) ==
    LET levels == {RequirementLevel(bp, r) : r \in {q \in Required(bp) : q.feature = feature}}
    IN  IF "blocked" \in levels THEN "blocked" ELSE IF "preview" \in levels THEN "preview" ELSE "verified"

Capabilities(bp) ==
    [feature \in {r.feature : r \in Required(bp)} |-> CapabilityLevel(bp, feature)]

\* transition(name): the first of that name.
Named(bp, name) ==
    bp.transitions[CHOOSE i \in DOMAIN bp.transitions :
        /\ bp.transitions[i].name = name
        /\ \A j \in 1 .. i - 1 : bp.transitions[j].name # name]

\* What a wallet shows before a spend is signed; it is looked up by name.
PreviewTransition(bp, name) ==
    [transition |-> name, signers |-> Named(bp, name).signers, semantics |-> Named(bp, name).semantics,
     warnsOfMainnet |-> MainnetUnproven(bp)]

Package(bp, fee) ==
    [blueprint    |-> bp,
     ready        |-> IsReady(bp),
     level        |-> ReadinessLevel(bp),
     capabilities |-> Capabilities(bp),
     previews     |-> [i \in DOMAIN bp.transitions |-> PreviewTransition(bp, bp.transitions[i].name)],
     fee          |-> fee]

\* Mutant: only the doubled size is checked.
MinimumStandardFee_Slip(grams, bytes) ==
    LET units == IF grams > 2 * bytes THEN grams ELSE 2 * bytes
    IN  IF 2 * bytes > U64Max THEN None ELSE units * SompiPerUnit

\* Both products are checked; an overflow is an error.
MinimumStandardFee(grams, bytes) ==
    LET units == IF grams > 2 * bytes THEN grams ELSE 2 * bytes
    IN  IF 2 * bytes > U64Max \/ units * SompiPerUnit > U64Max THEN None ELSE units * SompiPerUnit

-----------------------------------------------------------------------------
(* From an artifact to a blueprint.                                        *)

\* Mutant: the preview target is taken for the testnet it previews.
NetworkFromTarget_Slip(target) ==
    CASE target = "verified-tn12"                      -> "Tn12"
      [] target \in {"tn10-toccata", "toccata-preview"} -> "Tn10"
      [] target = "future-mainnet"                     -> "Mainnet"
      [] OTHER                                         -> "Unknown"

NetworkFromTarget(target) ==
    CASE target = "verified-tn12"  -> "Tn12"
      [] target = "tn10-toccata"   -> "Tn10"
      [] target = "future-mainnet" -> "Mainnet"
      [] OTHER                     -> "Unknown"

Local(a) ==
    {"BaseScript", "WalletPreview", "IndexerLineage"} \cup
    IF 10 \in a.kips THEN {"TransactionIntrospection"} ELSE {}

\* A requirement for each feature the artifact is itself the evidence of.
CompiledTransition(a, contract, spend) ==
    [name         |-> spend.name,
     signers      |-> spend.signers,
     requirements |-> [feature : Local(a), minimum : {"BranchCode"}],
     semantics    |-> <<contract.name, spend.name>>]

CompiledTransitions(a) ==
    LET offset[c \in 0 .. Len(a.contracts)] ==
            IF c = 0 THEN 0 ELSE offset[c - 1] + Len(a.contracts[c].spends)
        owner(i) == CHOOSE c \in 1 .. Len(a.contracts) : offset[c - 1] < i /\ i <= offset[c]
    IN  [i \in 1 .. offset[Len(a.contracts)] |->
            CompiledTransition(a, a.contracts[owner(i)],
                               a.contracts[owner(i)].spends[i - offset[owner(i) - 1]])]

CompiledBlueprint(a) ==
    [name        |-> IF Len(a.contracts) = 1 THEN a.contracts[1].name ELSE a.fileName,
     network     |-> NetworkFromTarget(a.target),
     evidence    |-> BundledEvidence \cup
                     {Record(NetworkFromTarget(a.target), "BranchCode", Local(a))},
     transitions |-> CompiledTransitions(a)]

Buildable(bp) == bp.name # "" /\ bp.transitions # << >>

-----------------------------------------------------------------------------
(* Steps.                                                                  *)

EmptyBlueprint(name, network) ==
    [name |-> name, network |-> network, evidence |-> {}, transitions |-> << >>]

Init ==
    /\ stage = "start" /\ origin = None /\ package = None
    /\ blueprint = EmptyBlueprint("", "Unknown")

\* build_kernel_package_from_artifact: verifies the artifact, makes a blueprint of it
\* and packages that, with a fee estimated from the bytecode when no size is given.
\* An artifact is refused for the first of these that fails.
PackageCompiled(a, grams, bytes) ==
    LET bp  == CompiledBlueprint(a)
        fee == MinimumStandardFee(grams, IF bytes = None THEN a.size ELSE bytes)
    IN  /\ stage = "start"
        /\ origin' = a
        /\ IF a.size = 0 \/ ~Buildable(bp) \/ fee = None
           THEN stage' = "refused" /\ UNCHANGED <<blueprint, package>>
           ELSE stage' = "built" /\ blueprint' = bp /\ package' = Package(bp, fee)

\* define_kaspa_contract and the builder's calls; DAGSafeVault starts from the
\* bundled evidence.
DefineContract(name, network, evidence) ==
    /\ stage = "start"
    /\ stage' = "building"
    /\ blueprint' = [EmptyBlueprint(name, network) EXCEPT !.evidence = evidence]
    /\ UNCHANGED <<origin, package>>

AddTransition(t) ==
    /\ stage = "building" /\ Len(blueprint.transitions) < MaxTransitions
    /\ blueprint' = [blueprint EXCEPT !.transitions = Append(@, t)]
    /\ UNCHANGED <<stage, origin, package>>

Build ==
    /\ stage = "building"
    /\ stage' = IF Buildable(blueprint) THEN "built" ELSE "refused"
    /\ UNCHANGED <<origin, blueprint, package>>

Added(bp) == bp.evidence \cap EvidenceOffered

AddEvidence(e) ==
    /\ stage \in {"building", "built"}
    /\ Cardinality(Added(blueprint)) < MaxEvidence
    /\ blueprint' = [blueprint EXCEPT !.evidence = @ \cup {e}]
    /\ UNCHANGED <<stage, origin, package>>

WithNetwork(network) ==
    /\ stage = "built"
    /\ blueprint' = [blueprint EXCEPT !.network = network]
    /\ UNCHANGED <<stage, origin, package>>

\* ContractBlueprint::package, which estimates no fee.
PackageBlueprint ==
    /\ stage = "built"
    /\ package' = Package(blueprint, None)
    /\ UNCHANGED <<stage, origin, blueprint>>

Next ==
    \/ \E a \in Artifacts, grams \in Grams, bytes \in Bytes \cup {None} : PackageCompiled(a, grams, bytes)
    \/ \E network \in Networks, evidence \in {{}, BundledEvidence}, name \in {"", "vault"} :
            DefineContract(name, network, evidence)
    \/ \E t \in TransitionsOffered : AddTransition(t)
    \/ Build
    \/ \E e \in EvidenceOffered : AddEvidence(e)
    \/ \E network \in Networks : WithNetwork(network)
    \/ PackageBlueprint

Spec == Init /\ [][Next]_vars

-----------------------------------------------------------------------------
(* Properties.                                                             *)

Order == [blocked |-> 0, preview |-> 1, verified |-> 2]

\* A package is of its blueprint, with levels for the features required and a fee
\* that fits its 64 bits.
TypeOK ==
    /\ stage \in {"start", "building", "built", "refused"}
    /\ origin \in Artifacts \cup {None}
    /\ blueprint.network \in Networks /\ blueprint.evidence \subseteq Evidence
    /\ Required(blueprint) \subseteq Requirement
    /\ package # None =>
        /\ package.ready \in BOOLEAN /\ package.level \in DOMAIN Order
        /\ package.capabilities \in [{r.feature : r \in Required(package.blueprint)} -> DOMAIN Order]
        /\ DOMAIN package.previews = DOMAIN package.blueprint.transitions
        /\ package.fee = None \/ package.fee \in 0 .. U64Max

\* More evidence never makes a package look worse, in readiness or in any feature:
\* the strongest record counts, not the last one, so a wallet that saw a package
\* verified need not fear a repackaging with more of the same.
EvidenceNeverHurts ==
    [][(/\ package # None /\ package' # None
        /\ package'.blueprint.network = package.blueprint.network
        /\ package'.blueprint.transitions = package.blueprint.transitions
        /\ package.blueprint.evidence \subseteq package'.blueprint.evidence)
       => /\ Order[package'.level] >= Order[package.level]
          /\ \A f \in DOMAIN package.capabilities :
                Order[package'.capabilities[f]] >= Order[package.capabilities[f]]]_vars

\* The readiness of a package goes over all requirement lines of its report, the
\* capability profile over those of each feature, and the two agree: a package is
\* ready when all its features are verified, and otherwise not, the activation of
\* mainnet aside.
CapabilitiesAgree ==
    package # None =>
        LET verified == \A f \in DOMAIN package.capabilities : package.capabilities[f] = "verified"
        IN  /\ package.ready => verified
            /\ verified => package.ready \/ MainnetUnproven(package.blueprint)

\* What the documents say of the targets holds of what is packaged for them: the
\* testnets' artifacts are verified by their own evidence, the preview target never
\* gets beyond a preview, and the future mainnet stays blocked.
PostureByTarget ==
    package # None /\ origin # None =>
        (package.blueprint = CompiledBlueprint(origin) =>
            package.level = CASE origin.target = "toccata-preview" -> "preview"
                              [] origin.target = "future-mainnet"  -> "blocked"
                              [] OTHER                             -> "verified")

\* docs/KERNEL_PACKAGE_SCHEMA.md:248: the preview of a transition has the selected
\* transition's model, and so its signers.
PreviewsAreOwn ==
    package # None =>
        \A i \in DOMAIN package.previews :
            LET own == package.blueprint.transitions[i]
            IN  /\ package.previews[i].signers = own.signers
                /\ package.previews[i].semantics = own.semantics

=============================================================================
