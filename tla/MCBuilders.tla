------------------------------ MODULE MCBuilders ------------------------------
(***************************************************************************)
(* What goes into a transaction: the bytes of a script, the fee and change *)
(* the harness's loop settles on, and native plans.  The three share no    *)
(* state: plans are made once the loop has given up on a rest of 0, and    *)
(* scripts once it has on a rest of 1, so that every behaviour of each is  *)
(* there and no product of them.                                           *)
(*                                                                         *)
(* The loop is scaled down: storage mass is StorageC over the amount, for  *)
(* every output, less the same for every coin.  A lock is funded by one    *)
(* coin and locks Amount of it; a spend is paid for with one coin, its     *)
(* other input and output being worth the same.                            *)
(***************************************************************************)
EXTENDS FeeLoop, NativePlan, ScriptBytes, TLC

CONSTANTS StorageC, ComputeMass, Amount, LockRests, SpendRests

MCFundings == ({"lock"} \X LockRests) \cup ({"spend"} \X SpendRests)

MCRest == [f \in MCFundings |-> f[2]]

StorageMass(f, c) ==
    IF f[1] = "lock" THEN StorageC \div c + StorageC \div Amount - StorageC \div (Amount + f[2])
    ELSE StorageC \div c - StorageC \div f[2]

MCMass ==
    [f \in MCFundings |->
        [c \in 0 .. MaxRest |->
            IF c = 0 \/ StorageMass(f, c) <= ComputeMass THEN ComputeMass ELSE StorageMass(f, c)]]

ManyLockRests == 0 .. 250 \cup 990 .. 1100

ManySpendRests == 2 .. 250 \cup 1750 .. 1754

BuildersInit == Init /\ NativeInit /\ BytesInit

GivenUp(r) == Rest[funding] = r /\ outcome = "InsufficientFunds"

BuildersNext ==
    \/ Next /\ UNCHANGED <<nativeVars, byteVars>>
    \/ GivenUp(0) /\ UNCHANGED <<vars, byteVars>> /\ NativeNext
    \/ GivenUp(1) /\ UNCHANGED <<vars, nativeVars>> /\ BytesNext

BuildersSpec == BuildersInit /\ [][BuildersNext]_<<vars, nativeVars, byteVars>>

-----------------------------------------------------------------------------

Entry(amount, script, covenant) == [amount |-> amount, script |-> script, covenant |-> covenant]

SomeCoins == <<0, 1>> :> Entry(3, "signed", NoCovenant) @@ <<0, 2>> :> Entry(2, "signed", NoCovenant)

\* What the first output of a transaction becomes if it is bound to a new covenant.
Asset == GenesisId(<<0, 1>>, {1})

Claim(o, e) == [outpoint |-> o, utxo |-> e]

\* Three of them are not what the coins are.
Second == {Claim(<<0, 2>>, Entry(2, "signed", NoCovenant)), Claim(<<0, 2>>, Entry(3, "signed", NoCovenant)),
           Claim(<<1, 2>>, Entry(2, "open", NoCovenant))}

First == {Claim(<<0, 1>>, Entry(3, "signed", NoCovenant)), Claim(<<0, 1>>, Entry(4, "signed", NoCovenant)),
          Claim(<<1, 1>>, Entry(3, "signed", Asset)), Claim(<<1, 1>>, Entry(3, "keeps", Asset))}

UpToTwo(S, T) == {<< >>} \cup {<<s>> : s \in S} \cup (S \X T)

SomeOutputs ==
    UpToTwo({Entry(a, s, c) : a \in {2, 3}, s \in {"signed", "keeps"}, c \in {NoCovenant, <<1, Asset>>, <<2, Asset>>}},
            {Entry(1, "open", NoCovenant)})

\* The claims are more than a u64 holds, the outputs are not.
OverflowingPlan ==
    [network |-> "kaspa-testnet-10",
     inputs |-> <<Claim(<<0, 1>>, Entry(4, "signed", NoCovenant)), Claim(<<0, 2>>, Entry(3, "signed", NoCovenant))>>,
     outputs |-> <<Entry(3, "signed", NoCovenant), Entry(3, "signed", NoCovenant)>>, groups |-> {}, expected_fee |-> 1]

SomePlans ==
    [network : {"kaspa-testnet-10"}, inputs : UpToTwo(First \cup Second, Second), outputs : SomeOutputs,
     groups : {{}, {<<1, {1}>>}, {<<1, {1}>>, <<1, {2}>>}}, expected_fee : {0, 1}] \cup
    [network : {"kaspa-mainnet"}, inputs : {<<Claim(<<0, 1>>, Entry(3, "signed", NoCovenant))>>},
     outputs : {<<Entry(2, "signed", NoCovenant)>>}, groups : {{}}, expected_fee : {1}] \cup
    {OverflowingPlan}

-----------------------------------------------------------------------------

\* Either side of every carry, of every new byte and of the limit.
SomeNumbers == 0 .. 20 \cup 126 .. 129 \cup 254 .. 257 \cup 2046 .. 2049 \cup 4094 .. 4097 \cup 32766 .. 32769

\* Every length at which the push changes, of bytes that are themselves opcodes.
SomeData ==
    {[k \in 1 .. len |-> byte] : len \in {0, 1, ShortMax, ShortMax + 1, 15, 16, 255, 256},
                               byte \in {0, 1, OP_PUSHDATA1, OP_PUSHDATA2, OP_1NEGATE, ByteBase - 1}}

=============================================================================
