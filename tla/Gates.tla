-------------------------------- MODULE Gates --------------------------------
(***************************************************************************)
(* The five rehearsal gates, their ten-bit encoding and the passport       *)
(* status, as the backend computes them (gates.ts) and as the Solidity     *)
(* registry checks them (LaunchProofRegistry._gateStatusIsValid).          *)
(***************************************************************************)
EXTENDS Naturals

Gate      == 1..5   \* discoverable, contract_correct, fresh_challenge, safe_to_rehearse, paid_delivery
FirstFour == 1..4
Paid      == 5
GateState == {"not_tested", "pass", "fail"}
Gates     == [Gate -> GateState]

StateBits == [not_tested |-> 0, pass |-> 1, fail |-> 2]

\* The shifted two-bit fields are disjoint: their bitwise or is their sum.
GateBitmap(g) ==
    LET bits(i) == StateBits[g[i]] * 4^(i - 1)
    IN  bits(1) + bits(2) + bits(3) + bits(4) + bits(5)

\* Mutant of PassportStatus: paid_delivery is forgotten.
PassportStatusUnpaid(g, infrastructureComplete) ==
    CASE ~infrastructureComplete \/ \E i \in FirstFour : g[i] = "not_tested" -> "not-rehearsable"
      [] infrastructureComplete /\ \A i \in FirstFour : g[i] = "pass" -> "verified"
      [] OTHER -> "needs-attention"

PassportStatus(g, infrastructureComplete) ==
    CASE ~infrastructureComplete \/ \E i \in FirstFour : g[i] = "not_tested" -> "not-rehearsable"
      [] infrastructureComplete /\ \A i \in Gate : g[i] = "pass" -> "verified"
      [] OTHER -> "needs-attention"

ContractStatus(status) ==
    CASE status = "verified" -> 2 [] status = "needs-attention" -> 1 [] OTHER -> 0

-----------------------------------------------------------------------------
(* The contract's side                                                     *)

NotRehearsable == 0
NeedsAttention == 1
Verified       == 2

Field(bitmap, i) == (bitmap \div 4^(i - 1)) % 4

\* Mutant of GateStatusIsValid: bits above the tenth are let through.
GateStatusIsValidWide(bitmap, status) ==
    /\ \A i \in Gate : Field(bitmap, i) # 3
    /\ CASE status = Verified -> \A i \in Gate : Field(bitmap, i) = 1
         [] status = NeedsAttention ->
                /\ \A i \in FirstFour : Field(bitmap, i) # 0
                /\ Field(bitmap, Paid) = 1 => \E i \in FirstFour : Field(bitmap, i) = 2
         [] OTHER -> \E i \in FirstFour : Field(bitmap, i) = 0

GateStatusIsValid(bitmap, status) ==
    /\ bitmap < 4^5
    /\ \A i \in Gate : Field(bitmap, i) # 3
    /\ CASE status = Verified -> \A i \in Gate : Field(bitmap, i) = 1
         [] status = NeedsAttention ->
                /\ \A i \in FirstFour : Field(bitmap, i) # 0
                /\ Field(bitmap, Paid) = 1 => \E i \in FirstFour : Field(bitmap, i) = 2
         [] OTHER -> \E i \in FirstFour : Field(bitmap, i) = 0

-----------------------------------------------------------------------------
(* The PassportGate's reader: a gate holds when the low bit of its field is *)
(* set (primitives.ts), which is "pass" in a bitmap the contract accepted.  *)

DecodeGateBitmap(bitmap) == [i \in Gate |-> (bitmap \div 4^(i - 1)) % 2 = 1]
=============================================================================
