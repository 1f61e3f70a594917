----------------------- MODULE RegistryContractProofs -----------------------
(***************************************************************************)
(* Proofs about RegistryContract for any runs, callers, evidence and       *)
(* bitmaps: what the contract accepts, how every reader reads it, and that *)
(* it accepts all that the backend builds.                                 *)
(***************************************************************************)
EXTENDS RegistryContract, Integers, TLAPS

-----------------------------------------------------------------------------
(* The encoding of gates.                                                  *)

LEMMA Powers ==
    4^0 = 1 /\ 4^1 = 4 /\ 4^2 = 16 /\ 4^3 = 64 /\ 4^4 = 256 /\ 4^5 = 1024
OBVIOUS

LEMMA StateCodes ==
    /\ StateBits["not_tested"] = 0 /\ StateBits["pass"] = 1 /\ StateBits["fail"] = 2
    /\ \A s \in GateState : /\ StateBits[s] \in 0..2
                            /\ StateBits[s] = 0 <=> s = "not_tested"
                            /\ StateBits[s] = 1 <=> s = "pass"
                            /\ StateBits[s] = 2 <=> s = "fail"
BY DEF StateBits, GateState

LEMMA CodeOf ==
    ASSUME NEW s \in GateState, NEW n, n = StateBits[s]
    PROVE  /\ n # 3
           /\ n = 0 <=> s = "not_tested"
           /\ n = 1 <=> s = "pass"
           /\ n = 2 <=> s = "fail"
BY StateCodes

\* The fields of a bitmap, and their low bits.
LEMMA FieldsAre ==
    ASSUME NEW b \in Nat
    PROVE  /\ Field(b, 1) = b % 4 /\ Field(b, 2) = (b \div 4) % 4 /\ Field(b, 3) = (b \div 16) % 4
           /\ Field(b, 4) = (b \div 64) % 4 /\ Field(b, 5) = (b \div 256) % 4
           /\ \A i \in Gate : Field(b, i) \in 0..3
<1>1. 1 - 1 = 0 /\ 2 - 1 = 1 /\ 3 - 1 = 2 /\ 4 - 1 = 3 /\ 5 - 1 = 4 /\ b \div 1 = b
  OBVIOUS
<1>2. /\ Field(b, 1) = b % 4 /\ Field(b, 2) = (b \div 4) % 4 /\ Field(b, 3) = (b \div 16) % 4
      /\ Field(b, 4) = (b \div 64) % 4 /\ Field(b, 5) = (b \div 256) % 4
  BY <1>1, Powers DEF Field
<1>3. /\ b % 4 \in 0..3 /\ (b \div 4) % 4 \in 0..3 /\ (b \div 16) % 4 \in 0..3
      /\ (b \div 64) % 4 \in 0..3 /\ (b \div 256) % 4 \in 0..3
  OBVIOUS
<1>4. \A i \in Gate : i = 1 \/ i = 2 \/ i = 3 \/ i = 4 \/ i = 5
  BY DEF Gate
<1>5. QED
  BY <1>2, <1>3, <1>4

\* gateBitmap writes every gate in its field, and nothing above the tenth bit.
LEMMA Encoded ==
    ASSUME NEW g \in Gates
    PROVE  /\ GateBitmap(g) \in Nat /\ GateBitmap(g) < 1024
           /\ \A i \in Gate : Field(GateBitmap(g), i) = StateBits[g[i]]
<1>1. PICK a \in 0..2, b \in 0..2, c \in 0..2, d \in 0..2, e \in 0..2 :
         /\ a = StateBits[g[1]] /\ b = StateBits[g[2]] /\ c = StateBits[g[3]]
         /\ d = StateBits[g[4]] /\ e = StateBits[g[5]]
  BY StateCodes DEF Gates, Gate
<1>2. GateBitmap(g) = a + b * 4 + c * 16 + d * 64 + e * 256
  <2>1. 1 - 1 = 0 /\ 2 - 1 = 1 /\ 3 - 1 = 2 /\ 4 - 1 = 3 /\ 5 - 1 = 4 /\ a * 1 = a
    OBVIOUS
  <2>2. QED
    BY <1>1, <2>1, Powers DEF GateBitmap
<1>3. \A s \in Nat : s = a + b * 4 + c * 16 + d * 64 + e * 256 =>
         /\ s < 1024 /\ s % 4 = a /\ (s \div 4) % 4 = b /\ (s \div 16) % 4 = c
         /\ (s \div 64) % 4 = d /\ (s \div 256) % 4 = e
  OBVIOUS
<1>4. a + b * 4 + c * 16 + d * 64 + e * 256 \in Nat
  OBVIOUS
<1>5. PICK s \in Nat : s = GateBitmap(g)
  BY <1>2, <1>4
<1>6. /\ s < 1024 /\ Field(s, 1) = a /\ Field(s, 2) = b /\ Field(s, 3) = c
      /\ Field(s, 4) = d /\ Field(s, 5) = e
  <2>1. /\ s < 1024 /\ s % 4 = a /\ (s \div 4) % 4 = b /\ (s \div 16) % 4 = c
        /\ (s \div 64) % 4 = d /\ (s \div 256) % 4 = e
    BY <1>2, <1>3, <1>5
  <2>2. /\ Field(s, 1) = s % 4 /\ Field(s, 2) = (s \div 4) % 4 /\ Field(s, 3) = (s \div 16) % 4
        /\ Field(s, 4) = (s \div 64) % 4 /\ Field(s, 5) = (s \div 256) % 4
    BY FieldsAre
  <2>3. QED
    BY <2>1, <2>2
<1>7. \A i \in Gate : i = 1 \/ i = 2 \/ i = 3 \/ i = 4 \/ i = 5
  BY DEF Gate
<1>8. \A i \in Gate : Field(s, i) = StateBits[g[i]]
  BY <1>1, <1>6, <1>7
<1>9. QED
  BY <1>5, <1>6, <1>8

\* A bitmap of ten bits without a field of 3 is the bitmap of some gates.
LEMMA Decoded ==
    ASSUME NEW b \in Nat, b < 1024, \A i \in Gate : Field(b, i) # 3
    PROVE  \E g \in Gates : GateBitmap(g) = b
<1> DEFINE state(n) == IF n = 0 THEN "not_tested" ELSE IF n = 1 THEN "pass" ELSE "fail"
           g == [i \in Gate |-> state(Field(b, i))]
<1>1. \A n \in 0..3 : n # 3 => state(n) \in GateState /\ StateBits[state(n)] = n
  BY StateCodes DEF GateState
<1>2. \A i \in Gate : Field(b, i) \in 0..3 /\ Field(b, i) # 3
  BY FieldsAre
<1> HIDE DEF state
<1>3. g \in Gates /\ \A i \in Gate : StateBits[g[i]] = Field(b, i)
  BY <1>1, <1>2 DEF Gates
<1> HIDE DEF g
<1>4. GateBitmap(g) = Field(b, 1) + Field(b, 2) * 4 + Field(b, 3) * 16 + Field(b, 4) * 64 + Field(b, 5) * 256
  <2>1. 1 - 1 = 0 /\ 2 - 1 = 1 /\ 3 - 1 = 2 /\ 4 - 1 = 3 /\ 5 - 1 = 4
    OBVIOUS
  <2>2. 1 \in Gate /\ 2 \in Gate /\ 3 \in Gate /\ 4 \in Gate /\ 5 \in Gate
    BY DEF Gate
  <2>3. \A n \in 0..3 : n * 1 = n
    OBVIOUS
  <2>4. QED
    BY <1>2, <1>3, <2>1, <2>2, <2>3, Powers DEF GateBitmap
<1>5. b = (b % 4) + ((b \div 4) % 4) * 4 + ((b \div 16) % 4) * 16
             + ((b \div 64) % 4) * 64 + ((b \div 256) % 4) * 256
  OBVIOUS
<1>6. GateBitmap(g) = b
  BY <1>4, <1>5, FieldsAre
<1>7. QED
  BY <1>3, <1>6

\* The PassportGate's low bits, where no field is 3.
LEMMA LowBits ==
    ASSUME NEW b \in Nat, \A i \in Gate : Field(b, i) # 3
    PROVE  \A i \in Gate : DecodeGateBitmap(b)[i] <=> Field(b, i) = 1
<1>1. \A x \in Nat : x % 4 # 3 => (x % 2 = 1 <=> x % 4 = 1)
  OBVIOUS
<1>2. 1 - 1 = 0 /\ 2 - 1 = 1 /\ 3 - 1 = 2 /\ 4 - 1 = 3 /\ 5 - 1 = 4 /\ b \div 1 = b
  OBVIOUS
<1>3. /\ DecodeGateBitmap(b)[1] <=> b % 2 = 1
      /\ DecodeGateBitmap(b)[2] <=> (b \div 4) % 2 = 1
      /\ DecodeGateBitmap(b)[3] <=> (b \div 16) % 2 = 1
      /\ DecodeGateBitmap(b)[4] <=> (b \div 64) % 2 = 1
      /\ DecodeGateBitmap(b)[5] <=> (b \div 256) % 2 = 1
  <2>1. 1 \in Gate /\ 2 \in Gate /\ 3 \in Gate /\ 4 \in Gate /\ 5 \in Gate
    BY DEF Gate
  <2>2. /\ DecodeGateBitmap(b)[1] = ((b \div 4^(1 - 1)) % 2 = 1)
        /\ DecodeGateBitmap(b)[2] = ((b \div 4^(2 - 1)) % 2 = 1)
        /\ DecodeGateBitmap(b)[3] = ((b \div 4^(3 - 1)) % 2 = 1)
        /\ DecodeGateBitmap(b)[4] = ((b \div 4^(4 - 1)) % 2 = 1)
        /\ DecodeGateBitmap(b)[5] = ((b \div 4^(5 - 1)) % 2 = 1)
    BY <2>1, Zenon DEF DecodeGateBitmap
  <2>3. /\ (b \div 4^(1 - 1)) % 2 = b % 2 /\ (b \div 4^(2 - 1)) % 2 = (b \div 4) % 2
        /\ (b \div 4^(3 - 1)) % 2 = (b \div 16) % 2 /\ (b \div 4^(4 - 1)) % 2 = (b \div 64) % 2
        /\ (b \div 4^(5 - 1)) % 2 = (b \div 256) % 2
    BY <1>2, Powers
  <2>4. QED
    BY <2>2, <2>3, Zenon
<1>4. b \div 4 \in Nat /\ b \div 16 \in Nat /\ b \div 64 \in Nat /\ b \div 256 \in Nat
  OBVIOUS
<1>5. /\ Field(b, 1) = b % 4 /\ Field(b, 2) = (b \div 4) % 4 /\ Field(b, 3) = (b \div 16) % 4
      /\ Field(b, 4) = (b \div 64) % 4 /\ Field(b, 5) = (b \div 256) % 4
  BY FieldsAre
<1>6. /\ Field(b, 1) # 3 /\ Field(b, 2) # 3 /\ Field(b, 3) # 3 /\ Field(b, 4) # 3 /\ Field(b, 5) # 3
  BY DEF Gate
<1>7. /\ DecodeGateBitmap(b)[1] <=> Field(b, 1) = 1
      /\ DecodeGateBitmap(b)[2] <=> Field(b, 2) = 1
      /\ DecodeGateBitmap(b)[3] <=> Field(b, 3) = 1
      /\ DecodeGateBitmap(b)[4] <=> Field(b, 4) = 1
      /\ DecodeGateBitmap(b)[5] <=> Field(b, 5) = 1
  BY <1>1, <1>3, <1>4, <1>5, <1>6
<1>8. \A i \in Gate : i = 1 \/ i = 2 \/ i = 3 \/ i = 4 \/ i = 5
  BY DEF Gate
<1>9. QED
  BY <1>7, <1>8

-----------------------------------------------------------------------------
(* The rules of the contract and of its readers.                           *)

LEMMA ValidIs ==
    ASSUME NEW b, NEW status \in 0..2
    PROVE  GateStatusIsValid(b, status) <=>
              /\ b < 1024
              /\ \A i \in Gate : Field(b, i) # 3
              /\ status = 2 => \A i \in Gate : Field(b, i) = 1
              /\ status = 1 => /\ \A i \in FirstFour : Field(b, i) # 0
                               /\ Field(b, Paid) = 1 => \E i \in FirstFour : Field(b, i) = 2
              /\ status = 0 => \E i \in FirstFour : Field(b, i) = 0
<1>1. 4^5 = 1024
  BY Powers
<1>2. CASE status = 0
  BY <1>1, <1>2 DEF GateStatusIsValid, Verified, NeedsAttention
<1>3. CASE status = 1
  BY <1>1, <1>3 DEF GateStatusIsValid, Verified, NeedsAttention
<1>4. CASE status = 2
  BY <1>1, <1>4 DEF GateStatusIsValid, Verified, NeedsAttention
<1>5. QED
  BY <1>2, <1>3, <1>4

LEMMA StatusCodes ==
    /\ ContractStatus("verified") = 2 /\ ContractStatus("needs-attention") = 1
    /\ ContractStatus("not-rehearsable") = 0
BY DEF ContractStatus

\* A record the contract accepted is read alike by all (_gateStatusIsValid,
\* gates.ts, primitives.ts).
LEMMA ReadOf ==
    ASSUME NEW b \in Nat, NEW status \in 0..2, GateStatusIsValid(b, status)
    PROVE  /\ b \in {GateBitmap(h) : h \in Gates}
           /\ ContractStatus(PassportStatus(GatesOf(b), status # NotRehearsable)) = status
           /\ status = Verified <=> \A i \in Gate : DecodeGateBitmap(b)[i]
<1>1. b < 1024 /\ \A i \in Gate : Field(b, i) # 3
  BY Powers DEF GateStatusIsValid
<1>2. PICK h \in Gates : GateBitmap(h) = b
  BY <1>1, Decoded
<1> DEFINE g == GatesOf(b)
<1>3. g \in Gates /\ GateBitmap(g) = b
  BY <1>2 DEF GatesOf
<1> HIDE DEF g
<1>4. \A i \in Gate : /\ g[i] \in GateState
                      /\ Field(b, i) = 0 <=> g[i] = "not_tested"
                      /\ Field(b, i) = 1 <=> g[i] = "pass"
                      /\ Field(b, i) = 2 <=> g[i] = "fail"
  <2>1. \A i \in Gate : g[i] \in GateState /\ Field(b, i) = StateBits[g[i]]
    BY <1>3, Encoded DEF Gates
  <2>2. QED
    BY <2>1, CodeOf
<1>5. FirstFour \subseteq Gate /\ Paid \in Gate
  BY DEF FirstFour, Gate, Paid
<1>6. (\A i \in Gate : DecodeGateBitmap(b)[i]) <=> \A i \in Gate : Field(b, i) = 1
  BY <1>1, LowBits
<1> DEFINE complete == status # 0
<1>7. ContractStatus(PassportStatus(g, complete)) = status
      /\ (status = 2 <=> \A i \in Gate : Field(b, i) = 1)
  <2>1. CASE status = 2
    <3>1. \A i \in Gate : g[i] = "pass" /\ Field(b, i) = 1
      BY <1>4, <2>1, ValidIs
    <3>2. PassportStatus(g, TRUE) = "verified"
      BY <1>5, <3>1 DEF PassportStatus
    <3>3. complete = TRUE
      BY <2>1
    <3> HIDE DEF complete
    <3>4. QED
      BY <2>1, <3>1, <3>2, <3>3, StatusCodes, Zenon
  <2>2. CASE status = 1
    <3>1. /\ \A i \in FirstFour : Field(b, i) # 0
          /\ Field(b, Paid) = 1 => \E i \in FirstFour : Field(b, i) = 2
      BY <2>2, ValidIs
    <3>2. \A i \in FirstFour : g[i] # "not_tested"
      BY <1>4, <1>5, <3>1
    <3>3. ~\A i \in Gate : Field(b, i) = 1
      BY <1>5, <3>1
    <3>4. PassportStatus(g, TRUE) = "needs-attention"
      BY <1>4, <3>2, <3>3 DEF PassportStatus
    <3>5. complete = TRUE /\ status # 2
      BY <2>2
    <3> HIDE DEF complete
    <3>6. QED
      BY <2>2, <3>3, <3>4, <3>5, StatusCodes, Zenon
  <2>3. CASE status = 0
    <3>1. ~\A i \in Gate : Field(b, i) = 1
      BY <1>5, <2>3, ValidIs
    <3>2. PassportStatus(g, FALSE) = "not-rehearsable"
      BY DEF PassportStatus
    <3>3. complete = FALSE /\ status # 2
      BY <2>3
    <3> HIDE DEF complete
    <3>4. QED
      BY <2>3, <3>1, <3>2, <3>3, StatusCodes, Zenon
  <2>4. QED
    BY <2>1, <2>2, <2>3
<1>8. QED
  BY <1>2, <1>6, <1>7 DEF NotRehearsable, Verified, g

\* Gates a rehearsal ends with, and none, are within the contract's rules.
LEMMA BuiltValid ==
    ASSUME NEW g \in Gates, NEW complete \in BOOLEAN, complete <=> ~NoneTested(g),
           \/ \A i \in FirstFour : g[i] # "not_tested"
           \/ NoneTested(g)
    PROVE  GateStatusIsValid(GateBitmap(g), ContractStatus(PassportStatus(g, complete)))
<1> DEFINE b == GateBitmap(g)
<1>1. b \in Nat /\ b < 1024
  BY Encoded
<1>2. \A i \in Gate : /\ g[i] \in GateState /\ Field(b, i) # 3
                      /\ Field(b, i) = 0 <=> g[i] = "not_tested"
                      /\ Field(b, i) = 1 <=> g[i] = "pass"
                      /\ Field(b, i) = 2 <=> g[i] = "fail"
  <2>1. \A i \in Gate : g[i] \in GateState /\ Field(b, i) = StateBits[g[i]]
    BY Encoded DEF Gates
  <2> HIDE DEF b
  <2>2. ASSUME NEW i \in Gate, NEW s, s = g[i], NEW n, n = Field(b, i)
        PROVE  /\ s \in GateState /\ n # 3
               /\ n = 0 <=> s = "not_tested"
               /\ n = 1 <=> s = "pass"
               /\ n = 2 <=> s = "fail"
    BY <2>1, <2>2, CodeOf
  <2>3. QED
    BY <2>2
<1> HIDE DEF b
<1>3. FirstFour \subseteq Gate /\ Paid \in Gate /\ 1 \in FirstFour /\ Gate = FirstFour \cup {Paid}
  BY DEF FirstFour, Gate, Paid
<1>4. CASE NoneTested(g)
  <2>1. PassportStatus(g, complete) = "not-rehearsable" /\ ~complete
    BY <1>4 DEF PassportStatus
  <2>2. \E i \in FirstFour : Field(b, i) = 0
    BY <1>2, <1>3, <1>4 DEF NoneTested
  <2>3. QED
    BY <1>1, <1>2, <2>1, <2>2, StatusCodes, ValidIs DEF b
<1>5. CASE \A i \in FirstFour : g[i] # "not_tested"
  <2>1. complete
    BY <1>3, <1>5 DEF NoneTested
  <2>2. CASE \A i \in Gate : g[i] = "pass"
    <3>1. PassportStatus(g, complete) = "verified"
      BY <1>5, <2>1, <2>2 DEF PassportStatus
    <3>2. QED
      BY <1>1, <1>2, <2>2, <3>1, StatusCodes, ValidIs DEF b
  <2>3. CASE ~\A i \in Gate : g[i] = "pass"
    <3>1. PassportStatus(g, complete) = "needs-attention"
      BY <1>5, <2>1, <2>3 DEF PassportStatus
    <3>2. \A i \in FirstFour : Field(b, i) # 0
      BY <1>2, <1>3, <1>5
    <3>3. Field(b, Paid) = 1 => \E i \in FirstFour : Field(b, i) = 2
      BY <1>2, <1>3, <1>5, <2>3 DEF GateState
    <3>4. QED
      BY <1>1, <1>2, <3>1, <3>2, <3>3, StatusCodes, ValidIs DEF b
  <2>4. QED
    BY <2>2, <2>3
<1>6. QED
  BY <1>4, <1>5

-----------------------------------------------------------------------------
(* The inductive invariant: what is stored went through the contract's     *)
(* checks.                                                                 *)

Checked(rec) ==
    /\ GateStatusIsValid(rec.bitmap, rec.status)
    /\ rec.status = Verified \/ rec.fixture => rec.signed

Inv ==
    /\ TypeOK
    /\ \A id \in RunId : runs[id] # NoRecord => Checked(runs[id])
    /\ BackendAccepted

LEMMA InitInv == Init => Inv
BY DEF Init, Inv, TypeOK, BackendAccepted

\* An accepted call stores a record that was checked, once.
LEMMA PublishKeeps ==
    ASSUME Inv, NEW sender, NEW id \in RunId, NEW rec, NEW ev \in Evidence, NEW sig,
           rec.provider \in Account, rec.bitmap \in Nat, rec.status \in 0..2, rec.fixture \in BOOLEAN,
           PublishRun(sender, id, rec, ev, sig)
    PROVE  Inv' /\ \A other \in RunId : runs[other] # NoRecord => runs'[other] = runs[other]
<1>1. /\ runs[id] = NoRecord /\ GateStatusIsValid(rec.bitmap, rec.status)
      /\ ~SignatureRefused(rec, sig) /\ refusedFresh' = refusedFresh
  BY DEF PublishRun, Refused
<1>2. PICK signed \in BOOLEAN : signed = (sig # NoSignature)
  OBVIOUS
<1> DEFINE new == [evidence |-> ev, provider |-> rec.provider, bitmap |-> rec.bitmap,
                   status |-> rec.status, signed |-> signed, fixture |-> rec.fixture]
<1>3. runs' = [runs EXCEPT ![id] = new]
  BY <1>2 DEF PublishRun
<1>4. rec.bitmap \in 0..4^5 - 1
  <2>1. rec.bitmap < 1024
    BY <1>1, ValidIs
  <2>2. QED
    BY <2>1, Powers
<1>5. new \in Stored
  BY <1>4 DEF Stored
<1>6. Checked(new)
  <2>1. rec.status = Verified \/ rec.fixture => signed
    BY <1>1, <1>2 DEF SignatureRefused
  <2>2. QED
    BY <1>1, <2>1 DEF Checked
<1> HIDE DEF new
<1>7. runs'[id] = new /\ \A other \in RunId : other # id => runs'[other] = runs[other]
  BY <1>3 DEF Inv, TypeOK
<1>8. TypeOK'
  BY <1>1, <1>3, <1>5 DEF Inv, TypeOK
<1>9. \A other \in RunId : runs'[other] # NoRecord => Checked(runs'[other])
  BY <1>6, <1>7 DEF Inv
<1>10. QED
  BY <1>1, <1>7, <1>8, <1>9 DEF Inv, BackendAccepted

\* Every step keeps the invariant and what is stored.
LEMMA StepKeeps ==
    ASSUME Inv, Next
    PROVE  Inv' /\ \A id \in RunId : runs[id] # NoRecord => runs'[id] = runs[id]
<1>1. CASE AnyoneCalls
  <2>1. PICK sender \in Account, id \in RunId, rec \in Supplied, ev \in Evidence, sig \in Signature :
           PublishRun(sender, id, rec, ev, sig)
    BY <1>1 DEF AnyoneCalls
  <2>2. /\ rec.provider \in Account /\ rec.bitmap \in Nat /\ rec.status \in 0..2
        /\ rec.fixture \in BOOLEAN
    BY BitmapsAssumption DEF Supplied
  <2>3. QED
    BY <2>1, <2>2, PublishKeeps
<1>2. CASE BackendCalls
  <2>1. PICK id \in RunId, ev \in Evidence \ Oversize, provider \in Account, g \in Gates,
             declaration \in Declaration, fixture \in BOOLEAN :
          /\ runs[id] = NoRecord
          /\ Rehearsed(g, declaration) \/ NoneTested(g)
          /\ fixture => declaration = "verified"
          /\ LET status == PassportStatus(g, ~NoneTested(g))
                 rec == Submitted(ev, provider, g, status, declaration, fixture)
                 sig == IF declaration = "verified" THEN provider ELSE NoSignature IN
             IF Refused(Writer, id, rec, ev, sig)
             THEN refusedFresh' = TRUE /\ UNCHANGED runs
             ELSE PublishRun(Writer, id, rec, ev, sig)
    BY <1>2 DEF BackendCalls
  <2>2. PICK complete \in BOOLEAN : complete = ~NoneTested(g)
    BY DEF NoneTested
  <2>3. PICK status : status = PassportStatus(g, complete)
    OBVIOUS
  <2>4. PICK rec : rec = Submitted(ev, provider, g, status, declaration, fixture)
    OBVIOUS
  <2>5. PICK sig : sig = IF declaration = "verified" THEN provider ELSE NoSignature
    OBVIOUS
  <2>6. IF Refused(Writer, id, rec, ev, sig) THEN refusedFresh' = TRUE /\ UNCHANGED runs
        ELSE PublishRun(Writer, id, rec, ev, sig)
    BY <2>1, <2>2, <2>3, <2>4, <2>5
  <2>7. PICK signed \in BOOLEAN : signed = (declaration = "verified")
    OBVIOUS
  <2>8. /\ rec.hash = ev /\ rec.provider = provider /\ rec.bitmap = GateBitmap(g)
        /\ rec.status = ContractStatus(status) /\ rec.signed = signed
        /\ rec.fixture = fixture /\ rec.nonzero
    BY <2>4, <2>7 DEF Submitted
  <2>9. GateStatusIsValid(rec.bitmap, rec.status)
    <3>1. (\A i \in FirstFour : g[i] # "not_tested") \/ NoneTested(g)
      BY <2>1 DEF Rehearsed
    <3>2. GateStatusIsValid(GateBitmap(g), ContractStatus(PassportStatus(g, complete)))
      BY <2>2, <3>1, BuiltValid
    <3>3. QED
      BY <2>3, <2>8, <3>2
  <2>10. rec.status = Verified => signed
    <3>1. ASSUME rec.status = Verified PROVE g[Paid] = "pass" /\ ~NoneTested(g)
      <4>1. PassportStatus(g, complete) = "verified"
        BY <2>3, <2>8, <3>1 DEF ContractStatus, Verified
      <4>2. complete /\ \A i \in Gate : g[i] = "pass"
        BY <4>1 DEF PassportStatus
      <4>3. g[Paid] = "pass"
        BY <4>2 DEF Paid, Gate
      <4>4. ~NoneTested(g)
        BY <2>2, <4>2
      <4>5. QED
        BY <4>3, <4>4
    <3>2. QED
      BY <2>1, <2>7, <3>1 DEF Rehearsed
  <2>11. ~SignatureRefused(rec, sig)
    <3>1. provider # NoSignature
      BY <2>1, SignatureAssumption
    <3>2. CASE signed
      BY <2>5, <2>7, <2>8, <3>1, <3>2 DEF SignatureRefused
    <3>3. CASE ~signed
      BY <2>1, <2>5, <2>7, <2>8, <2>10, <3>3 DEF SignatureRefused
    <3>4. QED
      BY <3>2, <3>3
  <2>12. ~Refused(Writer, id, rec, ev, sig)
    BY <2>1, <2>8, <2>9, <2>11 DEF Refused
  <2>13. rec.bitmap \in Nat /\ rec.status \in 0..2
    BY <2>8, Encoded DEF ContractStatus
  <2>14. QED
    BY <2>1, <2>6, <2>8, <2>12, <2>13, PublishKeeps
<1>3. QED
  BY <1>1, <1>2 DEF Next

LEMMA StutterKeeps ==
    ASSUME Inv, UNCHANGED vars
    PROVE  Inv'
BY DEF Inv, TypeOK, BackendAccepted, vars

-----------------------------------------------------------------------------
(* The theorems.                                                           *)

\* Inv is inductive.
THEOREM Invariance == Spec => []Inv
<1>1. Inv /\ [Next]_vars => Inv'
  BY StepKeeps, StutterKeeps
<1>2. QED
  BY <1>1, InitInv, PTL DEF Spec

\* What is stored is a record of its type, whoever called (publishRun).
THEOREM TypeCorrect == Spec => []TypeOK
<1>1. Inv => TypeOK
  BY DEF Inv
<1>2. QED
  BY <1>1, Invariance, PTL

\* Whatever anyone submitted, the readers of a stored record agree with the
\* contract that accepted it (_gateStatusIsValid, gates.ts, primitives.ts).
THEOREM AllReadersAgree == Spec => []ReadersAgree
<1>1. ASSUME Inv PROVE ReadersAgree
  <2> SUFFICES ASSUME NEW id \in RunId, runs[id] # NoRecord
               PROVE  LET rec == runs[id]  g == GatesOf(rec.bitmap) IN
                      /\ rec.bitmap \in {GateBitmap(h) : h \in Gates}
                      /\ ContractStatus(PassportStatus(g, rec.status # NotRehearsable)) = rec.status
                      /\ rec.status = Verified <=> \A i \in Gate : DecodeGateBitmap(rec.bitmap)[i]
                      /\ rec.status = Verified \/ rec.fixture => rec.signed
    BY DEF ReadersAgree
  <2>1. PICK rec \in Stored : rec = runs[id]
    BY <1>1 DEF Inv, TypeOK
  <2>2. rec.bitmap \in Nat /\ rec.status \in 0..2
    BY Powers DEF Stored
  <2>3. Checked(rec)
    BY <1>1, <2>1 DEF Inv
  <2>4. /\ rec.bitmap \in {GateBitmap(h) : h \in Gates}
        /\ ContractStatus(PassportStatus(GatesOf(rec.bitmap), rec.status # NotRehearsable)) = rec.status
        /\ rec.status = Verified <=> \A i \in Gate : DecodeGateBitmap(rec.bitmap)[i]
    BY <2>2, <2>3, ReadOf DEF Checked
  <2>5. QED
    BY <2>1, <2>3, <2>4 DEF Checked
<1>2. QED
  BY <1>1, Invariance, PTL

\* The contract refuses nothing that the backend builds for a run it does not
\* hold (rehearsal.ts, registry.ts, publishRun).
THEOREM NeverRefused == Spec => []BackendAccepted
<1>1. Inv => BackendAccepted
  BY DEF Inv
<1>2. QED
  BY <1>1, Invariance, PTL

\* A stored record is never changed or removed (DuplicateRun).
THEOREM StoredOnce == Spec => WriteOnce
<1>1. Inv /\ [Next]_vars => [\A id \in RunId : runs[id] # NoRecord => runs'[id] = runs[id]]_vars
  BY StepKeeps
<1>2. QED
  BY <1>1, Invariance, PTL DEF Spec, WriteOnce
=============================================================================
