--------------------------- MODULE ContractClient ---------------------------
(***************************************************************************)
(* The contract adapter (forge-bridge, contract.js): how a write ends for  *)
(* its caller, and what it leaves on the chain.  A call either throws, or  *)
(* returns a result whose status is "confirmed" or "reverted"; one whose   *)
(* confirmation times out throws although its transaction may be mined.    *)
(***************************************************************************)
EXTENDS Naturals, Sequences, SequencesExt, FiniteSets

Throws(code, mayLand) == [ends |-> "throws", code |-> code, mayLand |-> mayLand]
Returns(status) == [ends |-> status, code |-> "", mayLand |-> FALSE]

\* mapContractError: a revert reason of the table first, then what the message
\* says, in this order.  A message is the set of phrases it holds.
Phrases == <<"revert reason", "User denied", "insufficient funds",
             "gas required exceeds allowance", "execution reverted", "network timeout">>

Codes == <<"table code", "USER_REJECTED", "INSUFFICIENT_FUNDS",
           "GAS_ESTIMATION_FAILED", "EXECUTION_REVERTED", "NETWORK_TIMEOUT">>

MapContractError(message) ==
    LET found == {i \in DOMAIN Phrases : Phrases[i] \in message}
    IN  IF found = {} THEN "CONTRACT_ERROR"
        ELSE Codes[CHOOSE i \in found : \A j \in found : i <= j]

Messages == {{}} \cup {{Phrases[i]} : i \in DOMAIN Phrases}
                 \cup {{"revert reason", "execution reverted"}}

\* estimateSendAndWait: an estimate or a signature refused, a receipt, or none.
SendOutcomes ==
    {Throws(MapContractError(m), FALSE) : m \in Messages}
        \cup {Throws("Error", TRUE), Returns("confirmed"), Returns("reverted")}

\* getWc: without a provider there is no wallet client.
WriteOutcomes(provider) ==
    IF provider THEN SendOutcomes ELSE {Throws("WALLET_UNAVAILABLE", FALSE)}

\* _encryptAndExtract, then the transaction of _genericCommit, depositVault.
CommitOutcomes(amount, token, provider) ==
    IF amount = 0 THEN {Throws("INVALID_AMOUNT", FALSE)}
    ELSE IF ~token THEN {Throws("INVALID_TOKEN", FALSE)}
    ELSE {Throws("ENCRYPT_FAILED", FALSE), Throws("ENCRYPTION_FAILED", FALSE)}
             \cup WriteOutcomes(provider)

\* _decryptProof, then the transaction of _genericExecute.
ExecuteOutcomes(provider) ==
    {Throws("DECRYPT_FOR_TX_FAILED", FALSE)} \cup WriteOutcomes(provider)

\* _extractCommitId: the fourth topic of the last log that has one.
ExtractCommitId(logs) ==
    LET found == SelectSeq(logs, LAMBDA log : Len(log) >= 4)
    IN  IF found = <<>> THEN "" ELSE Last(found)[4]

\* liquidateWithProof: its checks in order, both proofs, the transaction.
LiquidateOutcomes(borrower, collateral, debt, amount, provider) ==
    IF ~borrower THEN {Throws("INVALID_ADDRESS", FALSE)}
    ELSE IF ~collateral \/ ~debt THEN {Throws("INVALID_TOKEN", FALSE)}
    ELSE IF amount = 0 THEN {Throws("INVALID_AMOUNT", FALSE)}
    ELSE ExecuteOutcomes(provider)

\* multicallRead: a failed call answers null in its place.
MulticallRead(results) ==
    [i \in DOMAIN results |-> [success |-> results[i].status = "success",
                               result  |-> IF results[i].status = "success"
                                           THEN results[i].result ELSE "null"]]

\* getAllBalances and getAllPositionData ask for two answers of each item.
PairedCalls(items, first, second) ==
    [i \in 1 .. 2 * Len(items) |->
        [fn |-> IF i % 2 = 1 THEN first ELSE second, of |-> items[(i + 1) \div 2]]]
=============================================================================
