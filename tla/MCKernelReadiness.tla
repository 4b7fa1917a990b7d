--------------------------- MODULE MCKernelReadiness ---------------------------
(***************************************************************************)
(* Small artifacts and blueprints for KernelReadiness.                     *)
(***************************************************************************)
EXTENDS KernelReadiness

Spends(s)       == <<[name |-> "claim", signers |-> <<s>>]>>
Contract(n, s)  == [name |-> n, spends |-> s]
One             == <<Contract("Escrow", Spends("sig_a"))>>
OneOfTwoPaths   == <<Contract("Escrow", Spends("sig_a") \o <<[name |-> "refund", signers |-> <<"sig_b">>]>>)>>
Two             == <<Contract("Escrow", Spends("sig_a")), Contract("Vault", Spends("sig_b"))>>
NoPath          == <<Contract("Escrow", << >>)>>

Artifact(t, k, size, f, c) ==
    [target |-> t, kips |-> k, size |-> size, fileName |-> f, contracts |-> c]

\* KIP-20 is gated: of a contract that needs it only the tolerant targets make an
\* artifact.  Files of one and of two contracts, one whose name leaves no name, one
\* path without a statement (no bytecode) and a contract without a path.
MCArtifacts ==
    {Artifact(t, k, 3, "Escrow", c) :
        t \in {"verified-tn12", "tn10-toccata", "toccata-preview", "future-mainnet"},
        k \in {{}, {10}}, c \in {OneOfTwoPaths, Two}}
    \cup {Artifact(t, {10, 20}, 3, "Escrow", OneOfTwoPaths) : t \in {"tn10-toccata", "toccata-preview"}}
    \cup {Artifact("verified-tn12", {}, 3, "", Two), Artifact("verified-tn12", {}, 0, "Escrow", One),
          Artifact("verified-tn12", {}, 0, "Escrow", NoPath)}

SameNames == {Artifact("verified-tn12", {10}, 3, "Escrow", Two)}

Activation == Record("Mainnet", "MainnetActivation", {"FeePolicy"})

\* Weaker than what is bundled, stronger, of another network, and an activation.
MCEvidence ==
    {Record("Unknown", "DocsSignal", {"CovenantIds", "BaseScript"}),
     Record("Tn10", "MainnetPreActivation", {"CovenantIds"}),
     Record("Tn12", "MergedCode", {"BaseScript", "CovenantIds"}), Activation}

Needs(f, m) == [feature |-> f, minimum |-> m]

\* DAGSafeVault's deposit and recovery, and one that asks for little.
MCTransitions ==
    {[name |-> "deposit", signers |-> << >>, semantics |-> None,
      requirements |-> {Needs("CovenantIds", "TestnetActivation"), Needs("IndexerLineage", "Unknown")}],
     [name |-> "recover", signers |-> <<"recovery_key">>, semantics |-> None,
      requirements |-> {Needs("CovenantIds", "DocsSignal"), Needs("SequencingCommitments", "TestnetActivation")}],
     [name |-> "close", signers |-> <<"owner">>, semantics |-> None,
      requirements |-> {Needs("BaseScript", "BranchCode"), Needs("CovenantIds", "DocsSignal")}]}

=============================================================================
